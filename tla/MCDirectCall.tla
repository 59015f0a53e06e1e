---------------------------- MODULE MCDirectCall ----------------------------
\* Model values for checking DirectCall with TLC: two users, one with two sockets of one device,
\* or three users with one socket each.
EXTENDS DirectCall, TLC

CONSTANTS u1, u2, u3, a1, b1, b2, c3, d1, d2, d3, k1, k2

Pair == {u1, u2}
PairSockets == {a1, b1, b2}
Trio == {u1, u2, u3}
TrioSockets == {a1, b1, c3}
MCDevices == {d1, d2, d3}
PairUser == (a1 :> u1) @@ (b1 :> u2) @@ (b2 :> u2)
PairDevice == (a1 :> d1) @@ (b1 :> d2) @@ (b2 :> d2)
TrioUser == (a1 :> u1) @@ (b1 :> u2) @@ (c3 :> u3)
TrioDevice == (a1 :> d1) @@ (b1 :> d2) @@ (c3 :> d3)
MCCallIds == {k1, k2}
CallSymmetry == Permutations(MCCallIds)
PairSymmetry == CallSymmetry \cup Permutations({b1, b2})
TrioSymmetry == CallSymmetry \cup
    {(a1 :> c3) @@ (c3 :> a1) @@ (u1 :> u3) @@ (u3 :> u1) @@ (d1 :> d3) @@ (d3 :> d1)}
=============================================================================
