-------------------------- MODULE CallFacadeProofs --------------------------
(***************************************************************************)
(* Proofs about the direct call of a tab, for any conversations, calls,    *)
(* generations, captures and failures: a call that is over stays over, no  *)
(* older failure ends the call of now, and, where selections of a          *)
(* microphone do not overlap, every capture and connection is owned.       *)
(* And about its group calls, for any rooms, revisions, generations and    *)
(* failures: what is captured is the call's, a room that is over stays so, *)
(* and an established one holds against delayed frames.                    *)
(*                                                                         *)
(* A handler changes the facade several times in one step, so the          *)
(* invariants are stated over the value g of a facade and proved of every  *)
(* value a handler passes through.                                         *)
(***************************************************************************)
EXTENDS Facades, TLAPS, FiniteSetTheorems, SequenceTheorems

-----------------------------------------------------------------------------
(* The inductive invariants.                                               *)

\* What is over holds nothing; a connection is of this generation; what was
\* retired is not the call.
Shape(g) ==
    /\ g.gen # 0
    /\ g.phase \in Over => g.call = 0 /\ g.stream = 0 /\ g.screen = 0 /\ g.conn = 0
    /\ g.phase = "requesting" => g.role = "caller" /\ g.call = 0 /\ g.stream = 0
    /\ g.conn \in {0, g.gen}
    /\ g.open \subseteq {g.conn} \ {0}
    /\ g.timer => g.phase \in Over
    /\ g.call \notin g.retired

\* An accepted call is the one of now, or it never will be again.
AcceptedKnown(g, op) ==
    /\ op.call # 0
    /\ \/ op.call = g.call /\ op.gen = g.gen
       \/ op.call \in g.retired
       \/ op.call # g.call /\ g.closed

Microphone(gen) == [on |-> "start", gen |-> gen, conn |-> 0, old |-> 0, new |-> 0]

\* No promise or operation is of a generation to come; a microphone asked for in
\* this one still has its request, one that is selected its call, a screen that is
\* picked a connection.
Fence(g) ==
    /\ \A x \in g.waits :
          /\ x.gen <= g.gen
          /\ x.on = "start" => x = Microphone(x.gen)
          /\ x.on = "start" /\ x.gen = g.gen => g.phase = "requesting"
          /\ x.on # "start" /\ x.gen = g.gen => g.stream # 0
          /\ x.on = "replace" => x.new # 0
    /\ \A i \in DOMAIN g.ops :
          /\ g.ops[i].gen <= g.gen
          /\ g.ops[i].chain <= g.gen
          /\ g.ops[i].at \in {"display", "replace"} => g.ops[i].conn # 0
          /\ g.ops[i].kind = "accepted" => AcceptedKnown(g, g.ops[i])

\* A request to accept names a call.
Asked(u) == \A i \in DOMAIN u : u[i].type = "accept" => u[i].call # 0

\* So does the server that accepts one.
Answered(d, s) ==
    /\ \A e \in d : e.type = "accepted" => e.call # 0
    /\ s.mine => s.call # 0

FenceInv == TypeOK /\ Shape(f) /\ Fence(f) /\ Asked(up) /\ Answered(down, server)

\* A capture has an owner, those of S excepted.
Owned(g, S) ==
    \A c \in g.live \ S : \/ c \in {g.stream, g.screen}
                          \/ \E x \in g.waits : c = x.new
                          \/ \E i \in DOMAIN g.ops : c = g.ops[i].new

\* At most one selection of a microphone is running, of the stream there is.
Selections(g) ==
    /\ \A x \in g.waits :
          /\ x.on # "replace" => x.new = 0
          /\ x.on # "start" /\ x.gen = g.gen => x.old = g.stream
    /\ \A x, y \in g.waits : x.on # "start" /\ y.on # "start" => x = y

\* Only the first operation of a chain is under way, and only one that replaces a
\* track holds a capture.
Chained(g) ==
    \A i \in DOMAIN g.ops :
        /\ g.ops[i].at # "queued" => \A j \in 1 .. i - 1 : g.ops[j].chain # g.ops[i].chain
        /\ g.ops[i].new \in g.live => g.ops[i].at = "replace"
        /\ g.ops[i].kind = "share" /\ g.ops[i].at # "clear" => g.ops[i].gen = g.ops[i].chain

\* While a screen is picked none is shared, and who waits for a microphone to accept
\* with is called.
Picking(g) ==
    \A i \in DOMAIN g.ops :
        /\ g.ops[i].kind = "share" /\ g.ops[i].at \in {"display", "replace"}
             /\ g.ops[i].gen = g.gen => g.screen = 0
        /\ g.ops[i].kind = "accepted" /\ g.ops[i].at = "microphone"
             /\ g.ops[i].call = g.call => g.role = "recipient"

Media(g, S) == Owned(g, S) /\ Selections(g) /\ Chained(g) /\ Picking(g)

\* The server has drawn the call c and waits no longer for somebody to accept it.
Past(s, c) == c \in 1 .. s.last /\ ~(s.call = c /\ ~s.accepted)

Accepts(d, c) == {e \in d : e.type = "accepted" /\ e.call = c}
Accepting(g, c) == {i \in DOMAIN g.ops : g.ops[i].kind = "accepted" /\ g.ops[i].call = c}

\* A call is accepted once: of all its events and operations there is one, and none
\* for a called user who has a microphone already.
AcceptedOnce(g, d, s) ==
    /\ s.call <= s.last
    /\ \A c \in CallIds :
          /\ Accepts(d, c) # {} \/ Accepting(g, c) # {} => Past(s, c)
          /\ Accepts(d, c) = {} \/ Accepting(g, c) = {}
          /\ \A e1, e2 \in Accepts(d, c) : e1 = e2
          /\ \A i1, i2 \in Accepting(g, c) : i1 = i2
    /\ g.role = "recipient" /\ g.stream # 0 =>
          /\ Past(s, g.call)
          /\ Accepts(d, g.call) = {}
          /\ Accepting(g, g.call) = {}

MediaInv == Media(f, {}) /\ AcceptedOnce(f, down, server)

-----------------------------------------------------------------------------
(* Sequences.                                                              *)

\* Removing the i-th element moves what is behind it.
LEMMA RemoveAtFacts ==
    ASSUME NEW S, NEW s \in Seq(S), NEW i \in DOMAIN s
    PROVE  /\ RemoveAt(s, i) \in Seq(S)
           /\ Len(RemoveAt(s, i)) = Len(s) - 1
           /\ DOMAIN RemoveAt(s, i) = 1 .. Len(s) - 1
           /\ \A j \in 1 .. Len(s) - 1 :
                 RemoveAt(s, i)[j] = IF j < i THEN s[j] ELSE s[j + 1]
<1>. DEFINE a == SubSeq(s, 1, i - 1)
            b == SubSeq(s, i + 1, Len(s))
<1>1. i \in 1 .. Len(s) /\ Len(s) \in Nat /\ \A j \in 1 .. Len(s) : s[j] \in S
  BY LenProperties
<1>2. a \in Seq(S) /\ Len(a) = i - 1 /\ \A j \in 1 .. i - 1 : a[j] = s[j]
  <2>1. \A j \in 1 .. i - 1 : s[j] \in S  BY <1>1
  <2>. QED  BY <1>1, <2>1, SubSeqProperties
<1>3. b \in Seq(S) /\ Len(b) = Len(s) - i /\ \A j \in 1 .. Len(s) - i : b[j] = s[j + i]
  <2>1. \A j \in i + 1 .. Len(s) : s[j] \in S  BY <1>1
  <2>2. /\ b \in Seq(S) /\ Len(b) = IF i + 1 <= Len(s) THEN Len(s) - (i + 1) + 1 ELSE 0
        /\ \A j \in 1 .. Len(s) - (i + 1) + 1 : b[j] = s[(i + 1) + j - 1]
    BY <1>1, <2>1, SubSeqProperties
  <2>. QED  BY <1>1, <2>2
<1>4. RemoveAt(s, i) = a \o b  BY DEF RemoveAt
<1>. HIDE DEF a, b
<1>5. /\ a \o b \in Seq(S) /\ Len(a \o b) = Len(s) - 1
      /\ \A j \in 1 .. Len(s) - 1 : (a \o b)[j] = IF j <= i - 1 THEN a[j] ELSE b[j - (i - 1)]
  <2>1. /\ a \o b \in Seq(S) /\ Len(a \o b) = Len(a) + Len(b)
        /\ \A j \in 1 .. Len(a) + Len(b) : (a \o b)[j] = IF j <= Len(a) THEN a[j] ELSE b[j - Len(a)]
    BY <1>2, <1>3, ConcatProperties
  <2>2. Len(a) = i - 1 /\ Len(a) + Len(b) = Len(s) - 1  BY <1>1, <1>2, <1>3
  <2>. QED  BY <2>1, <2>2
<1>6. \A j \in 1 .. Len(s) - 1 : (a \o b)[j] = IF j < i THEN s[j] ELSE s[j + 1]
  BY SMTT(30), <1>1, <1>2, <1>3, <1>5
<1>7. DOMAIN (a \o b) = 1 .. Len(s) - 1  BY <1>5, LenProperties
<1>. QED  BY <1>4, <1>5, <1>6, <1>7

\* Who is removed: two ways to the same rest took out elements that have a like
\* neighbour before them.
LEMMA RemovedTwice ==
    ASSUME NEW S, NEW s \in Seq(S), NEW i \in DOMAIN s, NEW j \in DOMAIN s, i < j,
           RemoveAt(s, i) = RemoveAt(s, j)
    PROVE  j - 1 \in 1 .. j - 1 /\ s[j - 1] = s[j]
<1>1. i \in 1 .. Len(s) /\ j \in 1 .. Len(s) /\ Len(s) \in Nat  BY LenProperties
<1>2. RemoveAt(s, i)[j - 1] = s[j]  BY <1>1, RemoveAtFacts
<1>3. RemoveAt(s, j)[j - 1] = s[j - 1]  BY SMTT(30), <1>1, RemoveAtFacts
<1>. QED  BY <1>1, <1>2, <1>3

\* An operation joins its chain at the end.
LEMMA AppendFacts ==
    ASSUME NEW S, NEW s \in Seq(S), NEW x \in S
    PROVE  /\ Append(s, x) \in Seq(S)
           /\ Len(Append(s, x)) = Len(s) + 1
           /\ DOMAIN Append(s, x) = 1 .. Len(s) + 1
           /\ DOMAIN s = 1 .. Len(s)
           /\ Append(s, x)[Len(s) + 1] = x
           /\ \A j \in 1 .. Len(s) : Append(s, x)[j] = s[j]
  BY LenProperties

-----------------------------------------------------------------------------
(* What the helpers of the handlers do.                                    *)

\* The same facade but for its operations and for what no invariant is about.
LikeButOps(g, h) ==
    /\ h.phase = g.phase /\ h.role = g.role /\ h.call = g.call /\ h.gen = g.gen
    /\ h.stream = g.stream /\ h.screen = g.screen /\ h.conn = g.conn /\ h.timer = g.timer
    /\ h.retired = g.retired /\ h.live = g.live /\ h.open = g.open
    /\ h.waits = g.waits /\ h.closed = g.closed

Alike(g, h) == LikeButOps(g, h) /\ h.ops = g.ops

LEMMA AlikeKept ==
    ASSUME NEW g, NEW h, Alike(g, h)
    PROVE  /\ Shape(g) => Shape(h)
           /\ Fence(g) => Fence(h)
           /\ \A S : Media(g, S) => Media(h, S)
           /\ \A d, s : AcceptedOnce(g, d, s) => AcceptedOnce(h, d, s)
<1>1. Shape(g) => Shape(h)  BY DEF Alike, LikeButOps, Shape
<1>2. Fence(g) => Fence(h)  BY DEF Alike, LikeButOps, Fence, AcceptedKnown
<1>3. \A S : Media(g, S) => Media(h, S)
  BY DEF Alike, LikeButOps, Media, Owned, Selections, Chained, Picking
<1>4. \A d, s : AcceptedOnce(g, d, s) => AcceptedOnce(h, d, s)
  BY DEF Alike, LikeButOps, AcceptedOnce, Accepting
<1>. QED  BY <1>1, <1>2, <1>3, <1>4

\* A call that is over leaves nothing but its number and its notice.
LEMMA FinishFields ==
    ASSUME NEW g \in FacadeType, NEW p \in Over
    PROVE  LET h == Finish(g, p) IN
           /\ h \in FacadeType
           /\ h.phase = p /\ h.call = 0 /\ h.gen = g.gen + 1 /\ h.timer
           /\ h.retired = g.retired \cup ({g.call} \ {0})
           /\ h.conn = 0 /\ h.open = g.open \ {g.conn}
           /\ h.stream = 0 /\ h.screen = 0 /\ h.live = g.live \ {g.stream, g.screen}
           /\ h.waits = g.waits /\ h.ops = g.ops /\ h.closed = g.closed
<1>. DEFINE live == g.live \ {g.stream, g.screen}
            loud == g.loud \ {g.stream, g.screen}
            open == g.open \ {g.conn}
            retired == g.retired \cup ({g.call} \ {0})
            n == g.gen + 1
            Left(x) == [x EXCEPT !.phase = p, !.role = "none", !.call = 0, !.conv = 0,
                                 !.muted = FALSE, !.stream = 0, !.screen = 0, !.busy = FALSE,
                                 !.timer = TRUE]
            a == [g EXCEPT !.retired = retired, !.gen = n, !.reqs = {}]
            b == [g EXCEPT !.retired = retired, !.gen = n, !.reqs = {},
                           !.live = live, !.loud = loud, !.open = open, !.conn = 0]
            h == Left(b)
<1>1. Finish(g, p) = h
  <2>1. Invalidate(Retire(g)) = a  BY DEF Invalidate, Retire, FacadeType
  <2>2. Cleanup(a) = b  BY DEF Cleanup, Stopped, FacadeType
  <2>. HIDE DEF a, b
  <2>. QED  BY <2>1, <2>2 DEF Finish
<1>2. /\ live \in SUBSET Captures /\ loud \in SUBSET Captures /\ open \in SUBSET Gens
      /\ 0 \in Gens /\ retired \in SUBSET CallIds /\ n \in Gens /\ {} \in SUBSET (Asks \X Gens)
      /\ p \in Ongoing \cup Over
  BY DEF FacadeType, Gens
<1>. HIDE DEF live, loud, open, retired, n
<1>3. h \in FacadeType
  <2>1. a \in FacadeType  BY <1>2 DEF FacadeType
  <2>2. b = [a EXCEPT !.live = live, !.loud = loud, !.open = open, !.conn = 0]  BY DEF FacadeType
  <2>3. b \in FacadeType
    <3>. HIDE DEF a, b
    <3>. QED  BY ZenonT(60), <1>2, <2>1, <2>2 DEF FacadeType
  <2>. HIDE DEF b
  <2>. QED  BY ZenonT(60), <1>2, <2>3 DEF FacadeType
<1>4. /\ h.phase = p /\ h.call = 0 /\ h.gen = n /\ h.timer
      /\ h.retired = retired
      /\ h.conn = 0 /\ h.open = open
      /\ h.stream = 0 /\ h.screen = 0 /\ h.live = live
      /\ h.waits = g.waits /\ h.ops = g.ops /\ h.closed = g.closed
  BY DEF FacadeType
<1>. QED  BY <1>1, <1>3, <1>4 DEF live, open, n, retired

LEMMA FinishSound ==
    ASSUME NEW g \in FacadeType, NEW p \in Over, Shape(g), Fence(g)
    PROVE  /\ Finish(g, p) \in FacadeType /\ Shape(Finish(g, p)) /\ Fence(Finish(g, p))
           /\ \A S : Media(g, S) => Media(Finish(g, p), S)
           /\ \A d, s : AcceptedOnce(g, d, s) => AcceptedOnce(Finish(g, p), d, s)
<1>. DEFINE h == Finish(g, p)
<1>1. /\ h \in FacadeType
      /\ h.phase = p /\ h.call = 0 /\ h.gen = g.gen + 1 /\ h.timer
      /\ h.retired = g.retired \cup ({g.call} \ {0})
      /\ h.conn = 0 /\ h.open = g.open \ {g.conn}
      /\ h.stream = 0 /\ h.screen = 0 /\ h.live = g.live \ {g.stream, g.screen}
      /\ h.waits = g.waits /\ h.ops = g.ops /\ h.closed = g.closed
  BY FinishFields
<1>2. /\ g.gen \in Nat /\ g.retired \subseteq CallIds /\ 0 \notin CallIds
      /\ \A x \in g.waits : x.gen \in Nat
      /\ \A i \in DOMAIN g.ops : g.ops[i].gen \in Nat /\ g.ops[i].chain \in Nat
  <2>1. \A i \in DOMAIN g.ops : g.ops[i] \in Operation
    BY LenProperties, ElementOfSeq DEF FacadeType
  <2>. QED  BY <2>1 DEF FacadeType, Gens, CallIds, Wait, Operation
<1>. HIDE DEF h
<1>3. Shape(h)  BY <1>1, <1>2 DEF Shape, Over
<1>4. Fence(h)
  <2>1. \A i \in DOMAIN g.ops : g.ops[i].kind = "accepted" => AcceptedKnown(h, g.ops[i])
    BY <1>1 DEF Fence, AcceptedKnown
  <2>. QED  BY <1>1, <1>2, <2>1 DEF Fence
<1>5. \A S : Media(g, S) => Media(h, S)
  <2>1. \A i \in DOMAIN g.ops : g.ops[i].kind = "accepted" => g.ops[i].call # 0
    BY DEF Fence, AcceptedKnown
  <2>. QED  BY <1>1, <1>2, <2>1 DEF Media, Owned, Selections, Chained, Picking, Fence
<1>6. \A d, s : AcceptedOnce(g, d, s) => AcceptedOnce(h, d, s)
  BY <1>1 DEF AcceptedOnce, Accepting
<1>. QED  BY <1>1, <1>3, <1>4, <1>5, <1>6 DEF h

\* Stopping captures takes them from those that are to be owned.
LEMMA StoppedSound ==
    ASSUME NEW g \in FacadeType, NEW T
    PROVE  LET h == Stopped(g, T) IN
           /\ h \in FacadeType
           /\ h = [g EXCEPT !.live = h.live, !.loud = h.loud]
           /\ h.live = g.live \ T
           /\ Shape(g) => Shape(h)
           /\ Fence(g) => Fence(h)
           /\ \A S : Media(g, S) /\ S \subseteq T => Media(h, {})
           /\ \A d, s : AcceptedOnce(g, d, s) => AcceptedOnce(h, d, s)
<1>. DEFINE h == Stopped(g, T)
<1>1. h \in FacadeType /\ h = [g EXCEPT !.live = h.live, !.loud = h.loud] /\ h.live = g.live \ T
  BY DEF Stopped, FacadeType
<1>2. /\ h.phase = g.phase /\ h.role = g.role /\ h.call = g.call /\ h.gen = g.gen
      /\ h.stream = g.stream /\ h.screen = g.screen /\ h.conn = g.conn /\ h.timer = g.timer
      /\ h.retired = g.retired /\ h.open = g.open
      /\ h.waits = g.waits /\ h.ops = g.ops /\ h.closed = g.closed
  BY <1>1 DEF FacadeType
<1>. HIDE DEF h
<1>3. Shape(g) => Shape(h)  BY <1>2 DEF Shape
<1>4. Fence(g) => Fence(h)  BY <1>2 DEF Fence, AcceptedKnown
<1>5. \A S : Media(g, S) /\ S \subseteq T => Media(h, {})
  BY <1>1, <1>2 DEF Media, Owned, Selections, Chained, Picking
<1>6. \A d, s : AcceptedOnce(g, d, s) => AcceptedOnce(h, d, s)
  BY <1>2 DEF AcceptedOnce, Accepting
<1>. QED  BY <1>1, <1>3, <1>4, <1>5, <1>6 DEF h

Worlds == [f : FacadeType, up : Seq(Request), ready : BOOLEAN]

\* What a handler may make of its world.
Sound(w) == w \in Worlds /\ Shape(w.f) /\ Fence(w.f) /\ Asked(w.up)

LEMMA AppendAsked ==
    ASSUME NEW u \in Seq(Request), Asked(u), NEW r \in Request,
           r.type = "accept" => r.call # 0
    PROVE  Append(u, r) \in Seq(Request) /\ Asked(Append(u, r))
  BY AppendFacts DEF Asked

LEMMA SendSound ==
    ASSUME NEW w, Sound(w), NEW type \in Asks, NEW call \in CallIds \cup {0},
           type = "accept" => call # 0
    PROVE  Sound(Send(w, type, call)) /\ Send(w, type, call).f = w.f
               /\ Send(w, type, call).ready = w.ready
<1>. DEFINE r == [type |-> type, call |-> call, conv |-> w.f.conv, gen |-> w.f.gen]
            u == Append(w.up, r)
<1>1. r \in Request /\ r.type = type /\ r.call = call
  BY DEF Sound, Worlds, FacadeType, Request, Asks
<1>. HIDE DEF r
<1>2. u \in Seq(Request) /\ Asked(u)  BY <1>1, AppendAsked DEF Sound, Worlds
<1>3. Send(w, type, call) = IF w.ready THEN [w EXCEPT !.up = u] ELSE w
  BY DEF Send, r, Sound, Worlds
<1>. HIDE DEF u
<1>4. /\ [w EXCEPT !.up = u] \in Worlds /\ [w EXCEPT !.up = u].f = w.f
      /\ [w EXCEPT !.up = u].up = u /\ [w EXCEPT !.up = u].ready = w.ready
  BY <1>2 DEF Sound, Worlds
<1>. QED  BY <1>2, <1>3, <1>4 DEF Sound

\* The call is over, or the failure was of an older one.
LEMMA FinishedSound ==
    ASSUME NEW w, Sound(w), NEW p \in Over
    PROVE  LET r == [w EXCEPT !.f = Finish(@, p)] IN
           Sound(r) /\ r.f = Finish(w.f, p) /\ r.ready = w.ready
<1>1. w \in Worlds /\ w.f \in FacadeType  BY DEF Sound, Worlds
<1>. DEFINE g == Finish(w.f, p)
<1>2. g \in FacadeType /\ Shape(g) /\ Fence(g)  BY <1>1, FinishSound DEF Sound
<1>. HIDE DEF g
<1>3. LET r == [w EXCEPT !.f = g] IN
      r \in Worlds /\ r.f = g /\ r.up = w.up /\ r.ready = w.ready
  BY <1>1, <1>2 DEF Worlds
<1>. QED  BY <1>2, <1>3 DEF Sound, g

LEMMA SetErrorSound ==
    ASSUME NEW w, Sound(w), NEW gen
    PROVE  /\ Sound(SetError(w, gen))
           /\ SetError(w, gen).ready = w.ready
           /\ IF gen = w.f.gen THEN SetError(w, gen).f = Finish(w.f, "error")
                               ELSE SetError(w, gen) = w
<1>. DEFINE told == IF w.f.call # 0 /\ w.f.phase # "requesting"
                      THEN Send(w, IF w.f.phase = "incoming" THEN "decline" ELSE "end", w.f.call)
                      ELSE w
<1>1. Sound(told) /\ told.f = w.f /\ told.ready = w.ready
  <2>1. w.f.call \in CallIds \cup {0}  BY DEF Sound, Worlds, FacadeType
  <2>2. "decline" \in Asks /\ "end" \in Asks  BY DEF Asks
  <2>. QED  BY <2>1, <2>2, SendSound
<1>2. SetError(w, gen) = IF gen = w.f.gen THEN [told EXCEPT !.f = Finish(@, "error")] ELSE w
  BY DEF SetError
<1>. HIDE DEF told
<1>. QED  BY <1>1, <1>2, FinishedSound DEF Over

LEMMA TimedOutSound ==
    ASSUME NEW w, Sound(w), NEW owner
    PROVE  /\ Sound(TimedOut(w, owner))
           /\ \/ TimedOut(w, owner) = w
              \/ owner.gen = w.f.gen /\ TimedOut(w, owner).f = Finish(w.f, "error")
  BY SetErrorSound DEF TimedOut

LEMMA TerminalSound ==
    ASSUME NEW w, Sound(w), NEW gen
    PROVE  /\ Sound(Terminal(w, gen))
           /\ \/ Terminal(w, gen) = w
              \/ Terminal(w, gen).f = Finish(w.f, "ended")
  BY FinishedSound DEF Terminal, Over

\* A request that is remembered changes nothing else.
LEMMA RememberedSound ==
    ASSUME NEW w, Sound(w), NEW q \in Asks \X Gens
    PROVE  LET r == [w EXCEPT !.f.reqs = @ \cup {q}] IN
           Sound(r) /\ Alike(w.f, r.f) /\ r.f.call = w.f.call /\ r.ready = w.ready
<1>. DEFINE R == w.f.reqs \cup {q}
            g == [w.f EXCEPT !.reqs = R]
<1>1. w \in Worlds /\ w.f \in FacadeType  BY DEF Sound, Worlds
<1>2. R \in SUBSET (Asks \X Gens)  BY <1>1 DEF FacadeType
<1>3. [w EXCEPT !.f.reqs = @ \cup {q}] = [w EXCEPT !.f = g]  BY <1>1 DEF Worlds
<1>. HIDE DEF R
<1>4. g \in FacadeType /\ Alike(w.f, g)  BY <1>1, <1>2 DEF FacadeType, Alike, LikeButOps
<1>. HIDE DEF g
<1>5. Shape(g) /\ Fence(g)  BY <1>4, AlikeKept DEF Sound
<1>6. LET r == [w EXCEPT !.f = g] IN
      r \in Worlds /\ r.f = g /\ r.up = w.up /\ r.ready = w.ready
  BY <1>1, <1>4 DEF Worlds
<1>. QED  BY <1>3, <1>4, <1>5, <1>6 DEF Sound, Alike, LikeButOps

LEMMA SendRequestSound ==
    ASSUME NEW w, Sound(w), NEW type \in Asks, NEW gen,
           type = "accept" => w.f.call # 0
    PROVE  LET r == SendRequest(w, type, gen) IN
           /\ Sound(r)
           /\ \/ Alike(w.f, r.f)
              \/ ~w.ready /\ gen = w.f.gen /\ r.f = Finish(w.f, "error")
<1>1. CASE gen # w.f.gen  BY <1>1 DEF SendRequest, Alike, LikeButOps
<1>2. CASE gen = w.f.gen /\ ~w.ready  BY <1>2, SetErrorSound DEF SendRequest
<1>3. CASE gen = w.f.gen /\ w.ready
  <2>. DEFINE k == [w EXCEPT !.f.reqs = @ \cup {<<type, gen>>}]
  <2>1. <<type, gen>> \in Asks \X Gens /\ w.f.call \in CallIds \cup {0}
    BY <1>3 DEF Sound, Worlds, FacadeType
  <2>2. Sound(k) /\ Alike(w.f, k.f)  BY <2>1, RememberedSound
  <2>3. SendRequest(w, type, gen) = Send(k, type, w.f.call)  BY <1>3 DEF SendRequest
  <2>. HIDE DEF k
  <2>. QED  BY <2>1, <2>2, <2>3, SendSound
<1>. QED  BY <1>1, <1>2, <1>3

-----------------------------------------------------------------------------
(* The chains.                                                             *)

LEMMA OpsFacts ==
    ASSUME NEW g \in FacadeType
    PROVE  /\ g.ops \in Seq(Operation) /\ Len(g.ops) \in Nat /\ DOMAIN g.ops = 1 .. Len(g.ops)
           /\ \A i \in DOMAIN g.ops : /\ g.ops[i] \in Operation
                                      /\ g.ops[i].gen \in Nat /\ g.ops[i].chain \in Nat
                                      /\ g.ops[i].new \in Captures \cup {0}
                                      /\ g.ops[i].call \in CallIds \cup {0}
<1>1. g.ops \in Seq(Operation)  BY DEF FacadeType
<1>2. \A i \in DOMAIN g.ops : g.ops[i] \in Operation  BY <1>1, LenProperties, ElementOfSeq
<1>. QED  BY <1>1, <1>2, LenProperties DEF Operation, Gens

\* The operations of g without the i-th are still chained.
LEMMA RemovedSound ==
    ASSUME NEW g \in FacadeType, NEW h, LikeButOps(g, h), NEW i \in DOMAIN g.ops,
           h.ops = RemoveAt(g.ops, i)
    PROVE  /\ Shape(g) => Shape(h)
           /\ Fence(g) => Fence(h)
           /\ \A S : Media(g, S) => Media(h, S \cup {g.ops[i].new})
           /\ \A S : Media(g, S) /\ g.ops[i].at # "replace" => Media(h, S)
           /\ \A d, s : AcceptedOnce(g, d, s) =>
                 /\ AcceptedOnce(h, d, s)
                 /\ g.ops[i].kind = "accepted" /\ g.ops[i].call # 0 => Accepting(h, g.ops[i].call) = {}
<1>1. /\ DOMAIN g.ops = 1 .. Len(g.ops) /\ Len(g.ops) \in Nat /\ i \in 1 .. Len(g.ops)
      /\ \A j \in DOMAIN g.ops : g.ops[j].call \in CallIds \cup {0}
  BY OpsFacts
<1>. DEFINE k(j) == IF j < i THEN j ELSE j + 1
<1>2. /\ DOMAIN h.ops = 1 .. Len(g.ops) - 1
      /\ \A j \in DOMAIN h.ops : k(j) \in DOMAIN g.ops /\ k(j) # i /\ h.ops[j] = g.ops[k(j)]
  <2>1. /\ DOMAIN h.ops = 1 .. Len(g.ops) - 1
        /\ \A j \in 1 .. Len(g.ops) - 1 : h.ops[j] = IF j < i THEN g.ops[j] ELSE g.ops[j + 1]
    BY OpsFacts, RemoveAtFacts
  <2>. QED  BY <1>1, <2>1
<1>3. \A j \in DOMAIN g.ops : j # i => \E m \in DOMAIN h.ops : k(m) = j
  <2>. SUFFICES ASSUME NEW j \in DOMAIN g.ops, j # i  PROVE \E m \in DOMAIN h.ops : k(m) = j
    OBVIOUS
  <2>1. CASE j < i  BY <1>1, <1>2, <2>1
  <2>2. CASE j > i
    <3>1. j - 1 \in DOMAIN h.ops /\ k(j - 1) = j  BY <1>1, <1>2, <2>2
    <3>. QED  BY <3>1
  <2>. QED  BY <1>1, <2>1, <2>2
<1>4. \A j, m \in DOMAIN h.ops : m < j => k(m) < k(j)  BY <1>1, <1>2
<1>5. \A j, m \in DOMAIN h.ops : k(m) = k(j) => m = j  BY <1>1, <1>2
<1>6. Shape(g) => Shape(h)  BY DEF Shape, LikeButOps
<1>7. Fence(g) => Fence(h)  BY <1>2 DEF Fence, AcceptedKnown, LikeButOps
<1>8. ASSUME NEW S, NEW T, Media(g, S), S \subseteq T,
             g.ops[i].new \in T \/ g.ops[i].at # "replace"
      PROVE  Media(h, T)
  <2>1. g.ops[i].at # "replace" => g.ops[i].new \notin g.live  BY <1>8 DEF Media, Chained
  <2>2. Owned(h, T)
    <3>. SUFFICES ASSUME NEW c \in g.live \ T, \E j \in DOMAIN g.ops : c = g.ops[j].new
                  PROVE  \E m \in DOMAIN h.ops : c = h.ops[m].new
      BY <1>8 DEF Owned, Media, LikeButOps
    <3>1. PICK j \in DOMAIN g.ops : c = g.ops[j].new  OBVIOUS
    <3>2. j # i  BY <1>8, <2>1, <3>1
    <3>. QED  BY <1>2, <1>3, <3>1, <3>2
  <2>3. Selections(h)  BY <1>8 DEF Media, Selections, LikeButOps
  <2>4. Chained(h)
    <3>1. \A j \in DOMAIN h.ops : /\ h.ops[j].new \in h.live => h.ops[j].at = "replace"
                                  /\ h.ops[j].kind = "share" /\ h.ops[j].at # "clear"
                                        => h.ops[j].gen = h.ops[j].chain
      BY <1>2, <1>8 DEF Media, Chained, LikeButOps
    <3>2. ASSUME NEW j \in DOMAIN h.ops, h.ops[j].at # "queued", NEW m \in 1 .. j - 1
          PROVE  h.ops[m].chain # h.ops[j].chain
      <4>1. m \in DOMAIN h.ops /\ m < j  BY <1>1, <1>2, <3>2
      <4>2. k(m) \in 1 .. k(j) - 1 /\ k(j) \in DOMAIN g.ops  BY <1>1, <1>2, <1>4, <4>1
      <4>3. h.ops[j] = g.ops[k(j)] /\ h.ops[m] = g.ops[k(m)]  BY <1>2, <4>1
      <4>. HIDE DEF k
      <4>. QED  BY <1>8, <3>2, <4>2, <4>3 DEF Media, Chained
    <3>. QED  BY <3>1, <3>2 DEF Chained
  <2>5. Picking(h)  BY <1>2, <1>8 DEF Media, Picking, LikeButOps
  <2>. QED  BY <2>2, <2>3, <2>4, <2>5 DEF Media
<1>9. ASSUME NEW d, NEW s, AcceptedOnce(g, d, s)
      PROVE  /\ AcceptedOnce(h, d, s)
             /\ g.ops[i].kind = "accepted" /\ g.ops[i].call # 0 => Accepting(h, g.ops[i].call) = {}
  <2>1. \A c, j : j \in Accepting(h, c) => k(j) \in Accepting(g, c) /\ k(j) # i
    BY <1>2 DEF Accepting
  <2>2. \A c \in CallIds : \A j1, j2 \in Accepting(h, c) : j1 = j2
    <3>. SUFFICES ASSUME NEW c \in CallIds, NEW j1 \in Accepting(h, c), NEW j2 \in Accepting(h, c)
                  PROVE  j1 = j2
      OBVIOUS
    <3>1. k(j1) = k(j2)  BY <1>9, <2>1 DEF AcceptedOnce
    <3>2. j1 \in DOMAIN h.ops /\ j2 \in DOMAIN h.ops  BY DEF Accepting
    <3>. QED  BY <1>5, <3>1, <3>2
  <2>3. \A c : Accepting(g, c) = {} => Accepting(h, c) = {}  BY <2>1
  <2>4. AcceptedOnce(h, d, s)
    <3>. HIDE DEF k
    <3>. QED  BY <1>9, <2>2, <2>3 DEF AcceptedOnce, LikeButOps
  <2>5. ASSUME g.ops[i].kind = "accepted", g.ops[i].call # 0  PROVE Accepting(h, g.ops[i].call) = {}
    <3>1. i \in Accepting(g, g.ops[i].call)  BY <2>5 DEF Accepting
    <3>2. \A j \in Accepting(g, g.ops[i].call) : j = i
      BY <1>1, <1>9, <2>5, <3>1 DEF AcceptedOnce
    <3>. HIDE DEF k
    <3>. QED  BY <2>1, <3>2
  <2>. QED  BY <2>4, <2>5
<1>10. \A S : Media(g, S) => Media(h, S \cup {g.ops[i].new})  BY <1>8
<1>11. \A S : Media(g, S) /\ g.ops[i].at # "replace" => Media(h, S)  BY <1>8
<1>. QED  BY <1>6, <1>7, <1>9, <1>10, <1>11

\* An operation that is over is removed, with the transition it stood for.
LEMMA DoneSound ==
    ASSUME NEW g \in FacadeType, g.ops = f.ops, NEW i \in DOMAIN g.ops
    PROVE  /\ Done(g, i) \in FacadeType /\ LikeButOps(g, Done(g, i))
           /\ Done(g, i).ops = RemoveAt(g.ops, i)
           /\ Shape(g) => Shape(Done(g, i))
           /\ Fence(g) => Fence(Done(g, i))
           /\ \A S : Media(g, S) => Media(Done(g, i), S \cup {g.ops[i].new})
           /\ \A S : Media(g, S) /\ g.ops[i].at # "replace" => Media(Done(g, i), S)
           /\ \A d, s : AcceptedOnce(g, d, s) =>
                 /\ AcceptedOnce(Done(g, i), d, s)
                 /\ g.ops[i].kind = "accepted" /\ g.ops[i].call # 0
                      => Accepting(Done(g, i), g.ops[i].call) = {}
<1>. DEFINE rest == RemoveAt(g.ops, i)
            busy == g.busy /\ ~(f.ops[i].kind = "share" /\ f.ops[i].gen = g.gen)
            h == [g EXCEPT !.ops = rest, !.busy = busy]
<1>1. rest \in Seq(Operation) /\ busy \in BOOLEAN  BY RemoveAtFacts, OpsFacts
<1>2. Done(g, i) = h  BY DEF Done, FacadeType
<1>. HIDE DEF rest, busy
<1>3. h \in FacadeType /\ h.ops = rest /\ LikeButOps(g, h)  BY ZenonT(60), <1>1 DEF FacadeType, LikeButOps
<1>. HIDE DEF h
<1>4. h.ops = RemoveAt(g.ops, i)  BY <1>3 DEF rest
<1>. QED  BY <1>2, <1>3, <1>4, RemovedSound

\* The operations of g with another at the end of the chain of now.
LEMMA AppendedSound ==
    ASSUME NEW g \in FacadeType, NEW h, LikeButOps(g, h), NEW op \in Operation,
           h.ops = Append(g.ops, op), op.chain = g.gen, op.gen <= g.gen, op.at = "queued",
           op.kind = "accepted" => AcceptedKnown(g, op)
    PROVE  /\ Shape(g) => Shape(h)
           /\ Fence(g) => Fence(h)
           /\ \A S : Media(g, S) /\ op.new \notin g.live
                       /\ (op.kind = "share" => op.gen = op.chain) => Media(h, S)
           /\ \A d, s : AcceptedOnce(g, d, s) /\ op.kind # "accepted" => AcceptedOnce(h, d, s)
<1>1. /\ DOMAIN g.ops = 1 .. Len(g.ops) /\ Len(g.ops) \in Nat
      /\ DOMAIN h.ops = 1 .. Len(g.ops) + 1
      /\ \A j \in DOMAIN g.ops : j \in DOMAIN h.ops /\ h.ops[j] = g.ops[j]
      /\ h.ops[Len(g.ops) + 1] = op
      /\ \A j \in DOMAIN h.ops : j \in DOMAIN g.ops \/ (h.ops[j] = op /\ j = Len(g.ops) + 1)
  <2>1. /\ g.ops \in Seq(Operation) /\ Len(g.ops) \in Nat /\ DOMAIN g.ops = 1 .. Len(g.ops)
    BY OpsFacts
  <2>2. /\ DOMAIN h.ops = 1 .. Len(g.ops) + 1 /\ h.ops[Len(g.ops) + 1] = op
        /\ \A j \in 1 .. Len(g.ops) : h.ops[j] = g.ops[j]
    BY <2>1, AppendFacts
  <2>. DEFINE n == Len(g.ops)
  <2>3. \A j \in 1 .. n + 1 : j \in 1 .. n \/ j = n + 1  BY <2>1
  <2>4. \A j \in 1 .. n : j \in 1 .. n + 1  BY <2>1
  <2>. HIDE DEF n
  <2>. QED  BY <2>1, <2>2, <2>3, <2>4 DEF n
<1>2. Shape(g) => Shape(h)  BY DEF Shape, LikeButOps
<1>3. g.gen \in Nat  BY DEF FacadeType, Gens
<1>4. Fence(g) => Fence(h)
  <2>. SUFFICES ASSUME Fence(g)  PROVE Fence(h)  OBVIOUS
  <2>1. \A j \in DOMAIN h.ops : /\ h.ops[j].gen <= g.gen /\ h.ops[j].chain <= g.gen
                                /\ h.ops[j].at \in {"display", "replace"} => h.ops[j].conn # 0
                                /\ h.ops[j].kind = "accepted" => AcceptedKnown(g, h.ops[j])
    BY <1>1, <1>3 DEF Fence
  <2>. QED  BY <2>1 DEF Fence, AcceptedKnown, LikeButOps
<1>5. ASSUME NEW S, Media(g, S), op.new \notin g.live,
             op.kind = "share" => op.gen = op.chain
      PROVE  Media(h, S)
  <2>1. Owned(h, S)  BY <1>1, <1>5 DEF Media, Owned, LikeButOps
  <2>2. Selections(h)  BY <1>5 DEF Media, Selections, LikeButOps
  <2>3. Chained(h)
    <3>1. \A j \in DOMAIN h.ops : /\ h.ops[j].new \in h.live => h.ops[j].at = "replace"
                                  /\ h.ops[j].kind = "share" /\ h.ops[j].at # "clear"
                                        => h.ops[j].gen = h.ops[j].chain
      BY <1>1, <1>5 DEF Media, Chained, LikeButOps
    <3>2. ASSUME NEW j \in DOMAIN h.ops, h.ops[j].at # "queued", NEW m \in 1 .. j - 1
          PROVE  h.ops[m].chain # h.ops[j].chain
      <4>1. j \in DOMAIN g.ops /\ m \in DOMAIN g.ops  BY <1>1, <1>5, <3>2
      <4>. QED  BY <1>1, <1>5, <3>2, <4>1 DEF Media, Chained
    <3>. QED  BY <3>1, <3>2 DEF Chained
  <2>4. Picking(h)  BY <1>1, <1>5 DEF Media, Picking, LikeButOps
  <2>. QED  BY <2>1, <2>2, <2>3, <2>4 DEF Media
<1>6. ASSUME NEW d, NEW s, AcceptedOnce(g, d, s), op.kind # "accepted"  PROVE AcceptedOnce(h, d, s)
  <2>1. \A c : Accepting(h, c) = Accepting(g, c)  BY <1>1, <1>6 DEF Accepting
  <2>. QED  BY <1>6, <2>1 DEF AcceptedOnce, LikeButOps
<1>. QED  BY <1>2, <1>4, <1>5, <1>6

LEMMA EnqueueFacts ==
    ASSUME NEW g \in FacadeType, NEW op \in Operation
    PROVE  /\ Enqueue(g, op) \in FacadeType /\ LikeButOps(g, Enqueue(g, op))
           /\ Enqueue(g, op).ops = Append(g.ops, op)
<1>. DEFINE ops == Append(g.ops, op)
<1>1. ops \in Seq(Operation)  BY AppendFacts, OpsFacts
<1>2. Enqueue(g, op) = [g EXCEPT !.ops = ops]  BY DEF Enqueue
<1>. HIDE DEF ops
<1>3. LET h == [g EXCEPT !.ops = ops] IN h \in FacadeType /\ LikeButOps(g, h) /\ h.ops = ops
  BY <1>1 DEF FacadeType, LikeButOps
<1>. QED  BY <1>2, <1>3 DEF ops

\* The operations of g with the i-th moved on.
LEMMA MovedSound ==
    ASSUME NEW g \in FacadeType, NEW h, LikeButOps(g, h), NEW i \in DOMAIN g.ops,
           NEW op \in Operation, h.ops = [g.ops EXCEPT ![i] = op],
           op.kind = g.ops[i].kind, op.chain = g.ops[i].chain, op.call = g.ops[i].call,
           op.gen <= g.gen,
           op.at \in {"display", "replace"} => op.conn # 0,
           op.kind = "accepted" => AcceptedKnown(g, op)
    PROVE  /\ Shape(g) => Shape(h)
           /\ Fence(g) => Fence(h)
           /\ \A S : /\ Media(g, S)
                     /\ g.ops[i].new \in g.live => op.new = g.ops[i].new
                     /\ \A j \in 1 .. i - 1 : g.ops[j].chain # op.chain
                     /\ op.new \in g.live => op.at = "replace"
                     /\ op.kind = "share" /\ op.at # "clear" => op.gen = op.chain
                     /\ op.kind = "share" /\ op.at \in {"display", "replace"} => g.screen = 0
                     /\ op.kind = "accepted" /\ op.at = "microphone" => g.role = "recipient"
                     => Media(h, S)
           /\ \A d, s : AcceptedOnce(g, d, s) => AcceptedOnce(h, d, s)
<1>1. /\ DOMAIN g.ops = 1 .. Len(g.ops) /\ Len(g.ops) \in Nat
      /\ DOMAIN h.ops = DOMAIN g.ops /\ h.ops[i] = op
      /\ \A j \in DOMAIN g.ops : j # i => h.ops[j] = g.ops[j]
  BY OpsFacts
<1>2. Shape(g) => Shape(h)  BY DEF Shape, LikeButOps
<1>3. Fence(g) => Fence(h)
  <2>. SUFFICES ASSUME Fence(g)  PROVE Fence(h)  OBVIOUS
  <2>1. \A j \in DOMAIN h.ops : /\ h.ops[j].gen <= g.gen /\ h.ops[j].chain <= g.gen
                                /\ h.ops[j].at \in {"display", "replace"} => h.ops[j].conn # 0
                                /\ h.ops[j].kind = "accepted" => AcceptedKnown(g, h.ops[j])
    BY <1>1 DEF Fence
  <2>. QED  BY <2>1 DEF Fence, AcceptedKnown, LikeButOps
<1>4. ASSUME NEW S, Media(g, S),
             g.ops[i].new \in g.live => op.new = g.ops[i].new,
             \A j \in 1 .. i - 1 : g.ops[j].chain # op.chain,
             op.new \in g.live => op.at = "replace",
             op.kind = "share" /\ op.at # "clear" => op.gen = op.chain,
             op.kind = "share" /\ op.at \in {"display", "replace"} => g.screen = 0,
             op.kind = "accepted" /\ op.at = "microphone" => g.role = "recipient"
      PROVE  Media(h, S)
  <2>1. Owned(h, S)
    <3>. SUFFICES ASSUME NEW c \in g.live, \E j \in DOMAIN g.ops : c = g.ops[j].new
                  PROVE  \E j \in DOMAIN h.ops : c = h.ops[j].new
      BY <1>4 DEF Media, Owned, LikeButOps
    <3>. QED  BY <1>1, <1>4
  <2>2. Selections(h)  BY <1>4 DEF Media, Selections, LikeButOps
  <2>3. Chained(h)
    <3>1. \A j \in DOMAIN h.ops : /\ h.ops[j].new \in h.live => h.ops[j].at = "replace"
                                  /\ h.ops[j].kind = "share" /\ h.ops[j].at # "clear"
                                        => h.ops[j].gen = h.ops[j].chain
      BY <1>1, <1>4 DEF Media, Chained, LikeButOps
    <3>2. \A j \in DOMAIN h.ops : h.ops[j].chain = g.ops[j].chain  BY <1>1
    <3>3. ASSUME NEW j \in DOMAIN h.ops, h.ops[j].at # "queued", NEW m \in 1 .. j - 1
          PROVE  h.ops[m].chain # h.ops[j].chain
      <4>1. m \in DOMAIN h.ops /\ j \in DOMAIN g.ops  BY <1>1, <3>3
      <4>2. CASE j = i  BY <1>4, <3>2, <4>1, <4>2
      <4>3. CASE j # i  BY <1>1, <1>4, <3>2, <3>3, <4>1, <4>3 DEF Media, Chained
      <4>. QED  BY <4>2, <4>3
    <3>. QED  BY <3>1, <3>3 DEF Chained
  <2>4. Picking(h)  BY <1>1, <1>4 DEF Media, Picking, LikeButOps
  <2>. QED  BY <2>1, <2>2, <2>3, <2>4 DEF Media
<1>5. ASSUME NEW d, NEW s, AcceptedOnce(g, d, s)  PROVE AcceptedOnce(h, d, s)
  <2>1. \A c : Accepting(h, c) = Accepting(g, c)  BY <1>1 DEF Accepting
  <2>. QED  BY <1>5, <2>1 DEF AcceptedOnce, LikeButOps
<1>. QED  BY <1>2, <1>3, <1>4, <1>5

-----------------------------------------------------------------------------
(* What a handler leaves behind.                                           *)

\* From g to h no capture loses its owner, no accept is counted anew, and what is
\* waited for and queued stays.
Follows(g, h) ==
    /\ h.waits = g.waits /\ h.ops = g.ops
    /\ \A S : Media(g, S) => Media(h, S)
    /\ \A d, s : AcceptedOnce(g, d, s) => AcceptedOnce(h, d, s)

LEMMA FinishFollows ==
    ASSUME NEW w, Sound(w), NEW p \in Over
    PROVE  Follows(w.f, Finish(w.f, p))
  BY FinishFields, FinishSound DEF Follows, Sound, Worlds

LEMMA SetErrorFollows ==
    ASSUME NEW w, Sound(w), NEW gen
    PROVE  Sound(SetError(w, gen)) /\ Follows(w.f, SetError(w, gen).f)
<1>1. Follows(w.f, w.f)  BY DEF Follows
<1>2. Follows(w.f, Finish(w.f, "error"))  BY FinishFollows DEF Over
<1>. QED  BY <1>1, <1>2, SetErrorSound

LEMMA TimedOutFollows ==
    ASSUME NEW w, Sound(w), NEW owner
    PROVE  Sound(TimedOut(w, owner)) /\ Follows(w.f, TimedOut(w, owner).f)
<1>1. Follows(w.f, w.f)  BY DEF Follows
<1>2. Follows(w.f, Finish(w.f, "error"))  BY FinishFollows DEF Over
<1>. QED  BY <1>1, <1>2, TimedOutSound

LEMMA TerminalFollows ==
    ASSUME NEW w, Sound(w), NEW gen
    PROVE  Sound(Terminal(w, gen)) /\ Follows(w.f, Terminal(w, gen).f)
<1>1. Follows(w.f, w.f)  BY DEF Follows
<1>2. Follows(w.f, Finish(w.f, "ended"))  BY FinishFollows DEF Over
<1>. QED  BY <1>1, <1>2, TerminalSound

LEMMA SendRequestFollows ==
    ASSUME NEW w, Sound(w), NEW type \in Asks, NEW gen,
           type = "accept" => w.f.call # 0
    PROVE  Sound(SendRequest(w, type, gen)) /\ Follows(w.f, SendRequest(w, type, gen).f)
<1>1. ASSUME Alike(w.f, SendRequest(w, type, gen).f)
      PROVE  Follows(w.f, SendRequest(w, type, gen).f)
  BY <1>1, AlikeKept DEF Follows, Alike, LikeButOps
<1>2. Follows(w.f, Finish(w.f, "error"))  BY FinishFollows DEF Over
<1>. QED  BY <1>1, <1>2, SendRequestSound

LEMMA WorldSound ==
    ASSUME FenceInv
    PROVE  Sound(World) /\ World.f = f /\ World.up = up /\ World.ready = ready
  BY DEF FenceInv, TypeOK, Sound, Worlds, World

LEMMA WithSound ==
    ASSUME FenceInv, NEW g \in FacadeType, Shape(g), Fence(g)
    PROVE  Sound(With(g)) /\ With(g).f = g /\ With(g).up = up /\ With(g).ready = ready
<1>1. /\ [World EXCEPT !.f = g] \in Worlds /\ [World EXCEPT !.f = g].f = g
      /\ [World EXCEPT !.f = g].up = up /\ [World EXCEPT !.f = g].ready = ready
  BY WorldSound DEF Sound, Worlds
<1>. QED  BY <1>1 DEF With, Sound, FenceInv

LEMMA SpendType ==
    ASSUME CallFacadeAssumption, TypeOK, Spend \/ UNCHANGED spent
    PROVE  spent' \in 0 .. MaxEffort
  BY DEF CallFacadeAssumption, TypeOK, Spend

\* A handler that leaves events and the server alone.
Quietly == UNCHANGED <<down, server, ready>> /\ (Spend \/ UNCHANGED spent)

LEMMA BecomeStep ==
    ASSUME CallFacadeAssumption, FenceInv, Quietly, NEW w, Sound(w), Become(w)
    PROVE  /\ FenceInv'
           /\ Media(w.f, {}) /\ AcceptedOnce(w.f, down, server) => MediaInv'
<1>1. f' = w.f /\ up' = w.up /\ down' = down /\ server' = server /\ ready' = ready
  BY DEF Become, Quietly
<1>2. spent' \in 0 .. MaxEffort  BY SpendType DEF FenceInv, Quietly
<1>3. TypeOK'  BY <1>1, <1>2 DEF FenceInv, TypeOK, Sound, Worlds
<1>4. Shape(f') /\ Fence(f') /\ Asked(up') /\ Answered(down', server')
  BY <1>1 DEF FenceInv, Sound
<1>. QED  BY <1>1, <1>3, <1>4 DEF FenceInv, MediaInv

\* The same where nothing is sent.
LEMMA FacadeStep ==
    ASSUME CallFacadeAssumption, FenceInv, Quietly, UNCHANGED up,
           f' \in FacadeType, Shape(f'), Fence(f')
    PROVE  /\ FenceInv'
           /\ Media(f', {}) /\ AcceptedOnce(f', down, server) => MediaInv'
<1>1. up' = up /\ down' = down /\ server' = server /\ ready' = ready
  BY DEF Quietly
<1>2. spent' \in 0 .. MaxEffort  BY SpendType DEF FenceInv, Quietly
<1>3. TypeOK'  BY <1>1, <1>2 DEF FenceInv, TypeOK
<1>4. Asked(up') /\ Answered(down', server')  BY <1>1 DEF FenceInv
<1>. QED  BY <1>1, <1>3, <1>4 DEF FenceInv, MediaInv

-----------------------------------------------------------------------------
(* The user.                                                               *)

Kept == FenceInv' /\ (Switches <= 1 /\ MediaInv => MediaInv')

LEMMA FacadeFacts ==
    ASSUME FenceInv
    PROVE  /\ f \in FacadeType /\ Shape(f) /\ Fence(f)
           /\ f.gen \in Nat \ {0} /\ 0 \notin f.retired
           /\ \A x \in f.waits : x \in Wait /\ x.gen \in Nat
<1>1. f \in FacadeType /\ Shape(f) /\ Fence(f)  BY DEF FenceInv, TypeOK
<1>2. f.gen \in Nat /\ f.gen # 0  BY <1>1 DEF FacadeType, Gens, Shape
<1>3. f.retired \subseteq CallIds /\ f.waits \subseteq Wait  BY <1>1 DEF FacadeType
<1>. QED  BY <1>1, <1>2, <1>3 DEF CallIds, Wait, Gens

LEMMA StartStep ==
    ASSUME CallFacadeAssumption, FenceInv, NEW conv \in Conversations, Start(conv)
    PROVE  Kept
<1>. DEFINE n == f.gen + 1
            x == [on |-> "start", gen |-> n, conn |-> 0, old |-> 0, new |-> 0]
            waits == f.waits \cup {x}
            g == [f EXCEPT !.gen = n, !.reqs = {}, !.timer = FALSE, !.phase = "requesting",
                           !.role = "caller", !.call = 0, !.conv = conv, !.muted = FALSE,
                           !.waits = waits]
<1>1. f \in FacadeType /\ Shape(f) /\ Fence(f) /\ f.gen \in Nat  BY FacadeFacts
<1>2. f' = g /\ f.phase \in Over /\ UNCHANGED <<up, down, server, ready, spent>>
  BY <1>1 DEF Start, Begun, FacadeType, CanStart
<1>3. n \in Gens /\ x \in Wait /\ waits \in SUBSET Wait /\ {} \in SUBSET (Asks \X Gens)
  BY <1>1 DEF Gens, Wait, FacadeType
<1>4. x.gen = n /\ x.on = "start" /\ x.new = 0 /\ x = Microphone(x.gen)  BY DEF Microphone
<1>. HIDE DEF x
<1>5. /\ waits = f.waits \cup {x} /\ n > f.gen /\ \A y \in f.waits : y.gen \in Nat
      /\ \A i \in DOMAIN f.ops : f.ops[i].gen \in Nat /\ f.ops[i].chain \in Nat
  BY <1>1, FacadeFacts, OpsFacts
<1>6. n = f.gen + 1  OBVIOUS
<1>. HIDE DEF waits, n
<1>7. g \in FacadeType  BY ZenonT(60), <1>1, <1>3 DEF FacadeType, Ongoing
<1>8. /\ g.gen = n /\ g.phase = "requesting" /\ g.role = "caller" /\ g.call = 0 /\ ~g.timer
      /\ g.waits = waits /\ g.stream = f.stream /\ g.screen = f.screen /\ g.conn = f.conn
      /\ g.retired = f.retired /\ g.live = f.live /\ g.open = f.open /\ g.ops = f.ops
      /\ g.closed = f.closed
  BY <1>1 DEF FacadeType
<1>. HIDE DEF g
<1>9. Shape(g)  BY <1>1, <1>2, <1>3, <1>5, <1>8, FacadeFacts DEF Shape, Over, Gens
<1>10. Fence(g)
  <2>1. \A i \in DOMAIN f.ops : f.ops[i].kind = "accepted" => AcceptedKnown(g, f.ops[i])
    BY <1>1, <1>2, <1>8 DEF Fence, AcceptedKnown, Shape
  <2>. QED  BY <1>1, <1>4, <1>5, <1>6, <1>8, <2>1 DEF Fence
<1>11. ASSUME MediaInv  PROVE Media(g, {}) /\ AcceptedOnce(g, down, server)
  <2>1. Owned(g, {})  BY <1>5, <1>8, <1>11 DEF MediaInv, Media, Owned
  <2>2. Selections(g)  BY <1>1, <1>4, <1>5, <1>8, <1>11 DEF MediaInv, Media, Selections, Fence
  <2>3. Chained(g)  BY <1>8, <1>11 DEF MediaInv, Media, Chained
  <2>4. Picking(g)  BY <1>1, <1>5, <1>8, <1>11 DEF MediaInv, Media, Picking, Fence, AcceptedKnown
  <2>5. AcceptedOnce(g, down, server)
    BY <1>1, <1>2, <1>8, <1>11 DEF MediaInv, AcceptedOnce, Accepting, Shape
  <2>. QED  BY <2>1, <2>2, <2>3, <2>4, <2>5 DEF Media
<1>12. f' \in FacadeType /\ Shape(f') /\ Fence(f')  BY <1>2, <1>7, <1>9, <1>10
<1>. QED  BY <1>2, <1>11, <1>12, FacadeStep DEF Kept, Quietly

LEMMA AcceptStep ==
    ASSUME CallFacadeAssumption, FenceInv, Accept
    PROVE  Kept
<1>. DEFINE g == [f EXCEPT !.phase = "connecting"]
<1>1. f \in FacadeType /\ Shape(f) /\ Fence(f)  BY FacadeFacts
<1>2. g \in FacadeType  BY <1>1 DEF FacadeType, Ongoing
<1>3. /\ g.phase = "connecting" /\ g.role = f.role /\ g.call = f.call /\ g.gen = f.gen
      /\ g.stream = f.stream /\ g.screen = f.screen /\ g.conn = f.conn /\ g.timer = f.timer
      /\ g.retired = f.retired /\ g.live = f.live /\ g.open = f.open
      /\ g.waits = f.waits /\ g.ops = f.ops /\ g.closed = f.closed
  BY <1>1 DEF FacadeType
<1>4. f.phase = "incoming" /\ f.call # 0  BY DEF Accept
<1>5. Become(SendRequest(With(g), "accept", f.gen)) /\ Quietly  BY DEF Accept, Quietly
<1>. HIDE DEF g
<1>6. Shape(g) /\ Fence(g)
  BY <1>1, <1>3, <1>4 DEF Shape, Fence, AcceptedKnown, Over
<1>7. Sound(With(g)) /\ With(g).f = g  BY <1>2, <1>6, WithSound
<1>8. /\ Sound(SendRequest(With(g), "accept", f.gen))
      /\ Follows(g, SendRequest(With(g), "accept", f.gen).f)
  BY <1>3, <1>4, <1>7, SendRequestFollows DEF Asks
<1>9. MediaInv => Media(g, {}) /\ AcceptedOnce(g, down, server)
  BY <1>3 DEF MediaInv, Media, Owned, Selections, Chained, Picking, AcceptedOnce, Accepting
<1>. QED  BY <1>5, <1>8, <1>9, BecomeStep DEF Kept, Follows

\* A control that the panel offers tells the server, if it can, and ends the call.
LEMMA SendControlFollows ==
    ASSUME FenceInv, NEW type \in Asks \ {"accept"}
    PROVE  Sound(SendControl(type)) /\ Follows(f, SendControl(type).f)
<1>. DEFINE asked == IF f.call = 0 THEN World ELSE SendRequest(World, type, f.gen)
<1>1. Sound(World) /\ World.f = f  BY WorldSound
<1>2. Sound(asked) /\ Follows(f, asked.f)
  <2>1. Follows(f, f)  BY DEF Follows
  <2>2. Sound(SendRequest(World, type, f.gen)) /\ Follows(f, SendRequest(World, type, f.gen).f)
    BY <1>1, SendRequestFollows
  <2>. QED  BY <1>1, <2>1, <2>2
<1>3. SendControl(type) = Terminal(asked, f.gen)  BY DEF SendControl
<1>. HIDE DEF asked
<1>. QED  BY <1>2, <1>3, TerminalFollows DEF Follows

LEMMA HangUpStep ==
    ASSUME CallFacadeAssumption, FenceInv, HangUp
    PROVE  Kept
<1>1. PICK type \in {"decline", "cancel", "end"} : Become(SendControl(type))  BY DEF HangUp
<1>2. Quietly  BY DEF HangUp, Quietly
<1>3. type \in Asks \ {"accept"}  BY DEF Asks
<1>4. Sound(SendControl(type)) /\ Follows(f, SendControl(type).f)
  BY <1>3, SendControlFollows
<1>. QED  BY <1>1, <1>2, <1>4, BecomeStep DEF Kept, Follows, MediaInv

\* What no invariant is about may change.
LEMMA AlikeStep ==
    ASSUME CallFacadeAssumption, FenceInv, Quietly, UNCHANGED up,
           f' \in FacadeType, Alike(f, f')
    PROVE  Kept
<1>1. Shape(f') /\ Fence(f')  BY AlikeKept DEF FenceInv
<1>2. MediaInv => Media(f', {}) /\ AcceptedOnce(f', down, server)  BY AlikeKept DEF MediaInv
<1>. QED  BY <1>1, <1>2, FacadeStep DEF Kept

LEMMA ToggleMuteStep ==
    ASSUME CallFacadeAssumption, FenceInv, ToggleMute
    PROVE  Kept
<1>. DEFINE loud == IF f.muted THEN f.loud \cup ({f.stream} \cap f.live) ELSE f.loud \ {f.stream}
<1>1. f \in FacadeType  BY FacadeFacts
<1>2. loud \in SUBSET Captures  BY <1>1 DEF FacadeType
<1>3. f' = [f EXCEPT !.muted = ~@, !.loud = loud]  BY <1>1 DEF ToggleMute, FacadeType
<1>. HIDE DEF loud
<1>4. f' \in FacadeType /\ Alike(f, f')  BY ZenonT(60), <1>1, <1>2, <1>3 DEF FacadeType, Alike, LikeButOps
<1>. QED  BY <1>4, AlikeStep DEF ToggleMute, Quietly

LEMMA OpFacts ==
    ASSUME FenceInv,
           NEW kind \in {"accepted", "signal", "share", "unshare"},
           NEW gen \in Gens, NEW call \in CallIds \cup {0}, NEW new \in Captures \cup {0}
    PROVE  LET op == Op(kind, "queued", gen, call, new) IN
           /\ op \in Operation /\ op.kind = kind /\ op.at = "queued" /\ op.chain = f.gen
           /\ op.gen = gen /\ op.conn = f.conn /\ op.call = call /\ op.new = new
<1>1. f.gen \in Gens /\ f.conn \in Gens  BY FacadeFacts DEF FacadeType
<1>. QED  BY <1>1 DEF Op, Operation

LEMMA ToggleScreenShareStep ==
    ASSUME CallFacadeAssumption, FenceInv, ToggleScreenShare
    PROVE  Kept
<1>. DEFINE g == [f EXCEPT !.busy = TRUE]
            op == Op("share", "queued", f.gen, f.call, 0)
<1>1. f \in FacadeType /\ f.gen \in Gens /\ f.call \in CallIds \cup {0} /\ f.live \subseteq Captures
  BY FacadeFacts DEF FacadeType
<1>2. g \in FacadeType /\ Alike(f, g)  BY <1>1 DEF FacadeType, Alike, LikeButOps
<1>3. f' = Enqueue(g, op) /\ Quietly /\ UNCHANGED up  BY DEF ToggleScreenShare, Quietly
<1>4. /\ op \in Operation /\ op.kind = "share" /\ op.at = "queued" /\ op.chain = f.gen
      /\ op.gen = f.gen /\ op.new = 0
  BY <1>1, OpFacts
<1>. HIDE DEF g, op
<1>5. f' \in FacadeType /\ LikeButOps(g, f') /\ f'.ops = Append(g.ops, op)
  BY <1>2, <1>3, <1>4, EnqueueFacts
<1>6. op.chain = g.gen /\ op.gen <= g.gen /\ 0 \notin g.live
  BY <1>1, <1>2, <1>4 DEF Alike, LikeButOps, Gens, Captures
<1>7. Shape(g) /\ Fence(g) /\ (MediaInv => Media(g, {}) /\ AcceptedOnce(g, down, server))
  BY <1>2, AlikeKept DEF FenceInv, MediaInv
<1>8. /\ Shape(f') /\ Fence(f')
      /\ Media(g, {}) => Media(f', {})
      /\ AcceptedOnce(g, down, server) => AcceptedOnce(f', down, server)
  BY <1>2, <1>4, <1>5, <1>6, <1>7, AppendedSound
<1>. QED  BY <1>3, <1>5, <1>7, <1>8, FacadeStep DEF Kept

LEMMA SelectInputDeviceStep ==
    ASSUME CallFacadeAssumption, FenceInv, SelectInputDevice
    PROVE  Kept
<1>. DEFINE x == [on |-> "device", gen |-> f.gen, conn |-> f.conn, old |-> f.stream, new |-> 0]
            waits == f.waits \cup {x}
<1>1. f \in FacadeType /\ f.stream # 0  BY FacadeFacts DEF SelectInputDevice
<1>2. x \in Wait /\ x.on = "device" /\ x.gen = f.gen /\ x.old = f.stream /\ x.new = 0
  BY <1>1 DEF FacadeType, Wait
<1>3. f' = [f EXCEPT !.waits = waits] /\ Quietly /\ UNCHANGED up
  BY DEF SelectInputDevice, Quietly
<1>4. Cardinality({y \in f.waits : y.on # "start"}) < Switches  BY DEF SelectInputDevice
<1>. HIDE DEF x
<1>5. waits \in SUBSET Wait /\ waits = f.waits \cup {x}  BY <1>1, <1>2 DEF FacadeType
<1>. HIDE DEF waits
<1>6. f' \in FacadeType  BY <1>1, <1>3, <1>5 DEF FacadeType
<1>7. /\ f'.phase = f.phase /\ f'.role = f.role /\ f'.call = f.call /\ f'.gen = f.gen
      /\ f'.stream = f.stream /\ f'.screen = f.screen /\ f'.conn = f.conn /\ f'.timer = f.timer
      /\ f'.retired = f.retired /\ f'.live = f.live /\ f'.open = f.open
      /\ f'.waits = waits /\ f'.ops = f.ops /\ f'.closed = f.closed
  BY <1>1, <1>3 DEF FacadeType
<1>8. Shape(f')  BY <1>7, FacadeFacts DEF Shape
<1>9. Fence(f')
  <2>1. \A i \in DOMAIN f.ops : f.ops[i].kind = "accepted" => AcceptedKnown(f', f.ops[i])
    BY <1>7, FacadeFacts DEF Fence, AcceptedKnown
  <2>2. x.gen <= f.gen /\ x.on # "start" /\ x.on # "replace" /\ f.stream # 0
    BY <1>1, <1>2, FacadeFacts
  <2>3. Fence(f) /\ \A y \in waits : y \in f.waits \/ y = x  BY <1>5, FacadeFacts
  <2>. QED  BY <1>1, <1>7, <2>1, <2>2, <2>3 DEF Fence
<1>10. ASSUME Switches <= 1, MediaInv  PROVE Media(f', {}) /\ AcceptedOnce(f', down, server)
  <2>. DEFINE D == {y \in f.waits : y.on # "start"}
  <2>1. D = {}
    <3>1. SUFFICES ASSUME NEW y \in D  PROVE FALSE  OBVIOUS
    <3>2. D = {y}  BY <1>10, <3>1 DEF MediaInv, Media, Selections
    <3>3. Cardinality(D) = 1  BY <3>2, FS_Singleton
    <3>. QED  BY <1>4, <1>10, <3>3 DEF CallFacadeAssumption
  <2>2. Owned(f', {})  BY <1>5, <1>7, <1>10 DEF MediaInv, Media, Owned
  <2>3. Selections(f')
    BY <1>1, <1>2, <1>5, <1>7, <1>10, <2>1 DEF MediaInv, Media, Selections
  <2>4. Chained(f') /\ Picking(f')  BY <1>7, <1>10 DEF MediaInv, Media, Chained, Picking
  <2>5. AcceptedOnce(f', down, server)  BY <1>7, <1>10 DEF MediaInv, AcceptedOnce, Accepting
  <2>. QED  BY <2>2, <2>3, <2>4, <2>5 DEF Media
<1>. QED  BY <1>3, <1>6, <1>8, <1>9, <1>10, FacadeStep DEF Kept

LEMMA CloseStep ==
    ASSUME CallFacadeAssumption, FenceInv, Close
    PROVE  Kept
<1>. DEFINE h == Finish(f, "idle")
            g == [h EXCEPT !.timer = FALSE, !.closed = TRUE, !.retired = f.retired]
            type == CASE f.phase = "incoming" -> "decline"
                      [] f.phase = "outgoing" -> "cancel"
                      [] OTHER -> "end"
            w == IF f.call # 0 THEN Send(World, type, f.call) ELSE World
<1>1. f \in FacadeType /\ Shape(f) /\ Fence(f) /\ f.gen \in Nat /\ 0 \notin f.retired
  BY FacadeFacts
<1>2. /\ h \in FacadeType /\ Shape(h)
      /\ h.phase = "idle" /\ h.call = 0 /\ h.gen = f.gen + 1
      /\ h.conn = 0 /\ h.stream = 0 /\ h.screen = 0
      /\ h.waits = f.waits /\ h.ops = f.ops
  BY <1>1, FinishFields, FinishSound DEF Over
<1>3. MediaInv => Media(h, {}) /\ AcceptedOnce(h, down, server)
  BY <1>1, FinishSound DEF MediaInv, Over
<1>4. Fence(h)  BY <1>1, FinishSound DEF Over
<1>5. w.f = f /\ Sound(w)
  <2>1. f.call \in CallIds \cup {0} /\ type \in Asks \ {"accept"}
    BY <1>1 DEF FacadeType, Asks
  <2>2. Sound(World) /\ World.f = f  BY WorldSound
  <2>. HIDE DEF type
  <2>. QED  BY <2>1, <2>2, SendSound
<1>6. Become([w EXCEPT !.f = [Finish(@, "idle") EXCEPT !.timer = FALSE, !.closed = TRUE,
                                                      !.retired = f.retired]])
      /\ Quietly
  BY DEF Close, Quietly
<1>. HIDE DEF h, w
<1>7. /\ g \in FacadeType
      /\ g.phase = h.phase /\ g.role = h.role /\ g.call = h.call /\ g.gen = h.gen
      /\ g.stream = h.stream /\ g.screen = h.screen /\ g.conn = h.conn /\ ~g.timer
      /\ g.retired = f.retired /\ g.live = h.live /\ g.open = h.open
      /\ g.waits = h.waits /\ g.ops = h.ops /\ g.closed
  <2>1. f.retired \in SUBSET CallIds  BY <1>1 DEF FacadeType
  <2>2. h \in FacadeType  BY <1>2
  <2>3. g \in FacadeType  BY <2>1, <2>2 DEF FacadeType
  <2>4. /\ g.phase = h.phase /\ g.role = h.role /\ g.call = h.call /\ g.gen = h.gen
        /\ g.stream = h.stream /\ g.screen = h.screen /\ g.conn = h.conn /\ g.timer = FALSE
        /\ g.retired = f.retired /\ g.live = h.live /\ g.open = h.open
        /\ g.waits = h.waits /\ g.ops = h.ops /\ g.closed = TRUE
    BY <2>2 DEF FacadeType
  <2>. QED  BY <2>3, <2>4
<1>8. [w EXCEPT !.f = [Finish(@, "idle") EXCEPT !.timer = FALSE, !.closed = TRUE,
                                                !.retired = f.retired]] = [w EXCEPT !.f = g]
  BY <1>5 DEF h
<1>. HIDE DEF g
<1>9. Shape(g)  BY <1>1, <1>2, <1>7 DEF Shape
<1>10. Fence(g)
  <2>1. \A i \in DOMAIN f.ops : f.ops[i].kind = "accepted" => AcceptedKnown(g, f.ops[i])
    BY <1>1, <1>2, <1>7 DEF Fence, AcceptedKnown
  <2>. QED  BY <1>2, <1>4, <1>7, <2>1 DEF Fence
<1>11. MediaInv => Media(g, {}) /\ AcceptedOnce(g, down, server)
  BY <1>3, <1>7 DEF Media, Owned, Selections, Chained, Picking, AcceptedOnce, Accepting
<1>12. Sound([w EXCEPT !.f = g]) /\ [w EXCEPT !.f = g].f = g
  BY <1>5, <1>7, <1>9, <1>10 DEF Sound, Worlds
<1>. QED  BY <1>6, <1>8, <1>11, <1>12, BecomeStep DEF Kept

LEMMA DismissFiresStep ==
    ASSUME CallFacadeAssumption, FenceInv, DismissFires
    PROVE  Kept
<1>1. f \in FacadeType /\ Shape(f) /\ Fence(f) /\ 0 \notin f.retired  BY FacadeFacts
<1>2. f.timer /\ UNCHANGED <<up, down, server, ready, spent>>  BY DEF DismissFires
<1>3. f.phase \in Over /\ f.call = 0 /\ f.stream = 0 /\ f.screen = 0 /\ f.conn = 0
  BY <1>1, <1>2 DEF Shape
<1>4. /\ f' \in FacadeType
      /\ f'.phase = "idle" /\ f'.role = "none" /\ f'.call = 0 /\ f'.gen = f.gen
      /\ f'.stream = 0 /\ f'.screen = 0 /\ f'.conn = f.conn /\ ~f'.timer
      /\ f'.retired = f.retired /\ f'.live = f.live /\ f'.open = f.open
      /\ f'.waits = f.waits /\ f'.ops = f.ops /\ f'.closed = f.closed
  BY ZenonT(60), <1>1 DEF DismissFires, FacadeType, Over
<1>5. Shape(f')  BY <1>1, <1>3, <1>4 DEF Shape
<1>6. Fence(f')
  <2>1. \A i \in DOMAIN f.ops : f.ops[i].kind = "accepted" => AcceptedKnown(f', f.ops[i])
    BY <1>1, <1>3, <1>4 DEF Fence, AcceptedKnown
  <2>. QED  BY <1>1, <1>3, <1>4, <2>1 DEF Fence, Over
<1>7. MediaInv => Media(f', {}) /\ AcceptedOnce(f', down, server)
  <2>1. \A i \in DOMAIN f.ops : f.ops[i].kind = "accepted" => f.ops[i].call # 0
    BY <1>1 DEF Fence, AcceptedKnown
  <2>. QED  BY <1>3, <1>4, <2>1
       DEF MediaInv, Media, Owned, Selections, Chained, Picking, AcceptedOnce, Accepting
<1>. QED  BY <1>2, <1>4, <1>5, <1>6, <1>7, FacadeStep DEF Kept, Quietly

LEMMA UserStep ==
    ASSUME CallFacadeAssumption, FenceInv, User
    PROVE  Kept
  BY StartStep, AcceptStep, HangUpStep, ToggleMuteStep, ToggleScreenShareStep,
     SelectInputDeviceStep, CloseStep DEF User

-----------------------------------------------------------------------------
(* Promises outside the chains.                                            *)

\* A capture that the browser hands out is nobody's.
LEMMA FreshFacts ==
    ASSUME NEW c \in Fresh
    PROVE  /\ c \in Captures /\ c # 0 /\ c \notin f.live
           /\ c # f.stream /\ c # f.screen
           /\ \A x \in f.waits : c # x.new /\ c # x.old
           /\ \A i \in DOMAIN f.ops : c # f.ops[i].new
  BY DEF Fresh, InUse, Captures

\* The promise x has answered.
LEMMA WithoutSound ==
    ASSUME FenceInv, NEW x \in f.waits
    PROVE  LET g == Without(x) IN
           /\ g \in FacadeType
           /\ g.waits = f.waits \ {x}
           /\ g.phase = f.phase /\ g.role = f.role /\ g.call = f.call /\ g.gen = f.gen
           /\ g.stream = f.stream /\ g.screen = f.screen /\ g.conn = f.conn /\ g.timer = f.timer
           /\ g.retired = f.retired /\ g.live = f.live /\ g.open = f.open
           /\ g.ops = f.ops /\ g.closed = f.closed /\ g.muted = f.muted /\ g.loud = f.loud
           /\ Shape(g) /\ Fence(g)
           /\ MediaInv => /\ Media(g, {x.new}) /\ AcceptedOnce(g, down, server)
                          /\ x.on # "replace" => Media(g, {})
<1>. DEFINE rest == f.waits \ {x}
            g == [f EXCEPT !.waits = rest]
<1>1. f \in FacadeType /\ Shape(f) /\ Fence(f)  BY FacadeFacts
<1>2. rest \in SUBSET Wait  BY <1>1 DEF FacadeType
<1>3. Without(x) = g  BY DEF Without
<1>4. rest \subseteq f.waits /\ \A y \in f.waits : y \in rest \/ y = x  OBVIOUS
<1>5. rest = f.waits \ {x}  OBVIOUS
<1>. HIDE DEF rest
<1>6. g \in FacadeType  BY <1>1, <1>2 DEF FacadeType
<1>7. /\ g.waits = rest
      /\ g.phase = f.phase /\ g.role = f.role /\ g.call = f.call /\ g.gen = f.gen
      /\ g.stream = f.stream /\ g.screen = f.screen /\ g.conn = f.conn /\ g.timer = f.timer
      /\ g.retired = f.retired /\ g.live = f.live /\ g.open = f.open
      /\ g.ops = f.ops /\ g.closed = f.closed /\ g.muted = f.muted /\ g.loud = f.loud
  BY <1>1 DEF FacadeType
<1>. HIDE DEF g
<1>8. Shape(g)  BY <1>1, <1>7 DEF Shape
<1>9. Fence(g)  BY <1>1, <1>4, <1>7 DEF Fence, AcceptedKnown
<1>10. ASSUME MediaInv
       PROVE  /\ Media(g, {x.new}) /\ AcceptedOnce(g, down, server)
              /\ x.on # "replace" => Media(g, {})
  <2>1. Owned(g, {x.new}) /\ (x.on # "replace" => Owned(g, {}))
    <3>1. x.on # "replace" => x.new \notin f.live
      BY <1>1, <1>10 DEF MediaInv, Media, Selections, FacadeType, Captures
    <3>. QED  BY <1>4, <1>7, <1>10, <3>1 DEF MediaInv, Media, Owned
  <2>2. Selections(g)  BY <1>4, <1>7, <1>10 DEF MediaInv, Media, Selections
  <2>3. Chained(g) /\ Picking(g)  BY <1>7, <1>10 DEF MediaInv, Media, Chained, Picking
  <2>4. AcceptedOnce(g, down, server)  BY <1>7, <1>10 DEF MediaInv, AcceptedOnce, Accepting
  <2>. QED  BY <2>1, <2>2, <2>3, <2>4 DEF Media
<1>. QED  BY <1>3, <1>5, <1>6, <1>7, <1>8, <1>9, <1>10

\* A microphone that is granted in time is the stream of the call.
LEMMA GrantedSound ==
    ASSUME FenceInv, NEW x \in f.waits, x.on = "start", x.gen = f.gen, NEW c \in Fresh
    PROVE  LET g == [Without(x) EXCEPT !.phase = "outgoing", !.stream = c,
                                       !.live = @ \cup {c}, !.loud = @ \cup {c}] IN
           /\ g \in FacadeType /\ Shape(g) /\ Fence(g)
           /\ g.waits = f.waits \ {x} /\ g.ops = f.ops
           /\ MediaInv => Media(g, {}) /\ AcceptedOnce(g, down, server)
<1>. DEFINE h == Without(x)
<1>0. /\ f \in FacadeType /\ Shape(f) /\ Fence(f) /\ h \in FacadeType /\ Shape(h) /\ Fence(h)
      /\ MediaInv => Media(h, {}) /\ AcceptedOnce(h, down, server)
  BY FacadeFacts, WithoutSound
<1>. DEFINE live == f.live \cup {c}
            loud == f.loud \cup {c}
            g == [h EXCEPT !.phase = "outgoing", !.stream = c, !.live = live, !.loud = loud]
<1>1. /\ c \in Captures /\ c # 0 /\ c \notin f.live
      /\ \A i \in DOMAIN f.ops : c # f.ops[i].new
  BY FreshFacts
<1>2. /\ f.phase = "requesting" /\ f.role = "caller" /\ f.stream = 0 /\ ~f.timer
      /\ \A y \in f.waits \ {x} : y.gen # f.gen
  <2>1. f.phase = "requesting" /\ f.role = "caller" /\ f.stream = 0 /\ ~f.timer
    BY <1>0 DEF Fence, Shape, Over
  <2>2. \A y \in f.waits : y.gen = f.gen => y = Microphone(y.gen) /\ x = Microphone(x.gen)
    BY <1>0, <2>1 DEF Fence
  <2>. QED  BY <2>1, <2>2
<1>3. live \in SUBSET Captures /\ loud \in SUBSET Captures /\ h.live = f.live /\ h.loud = f.loud
  BY <1>0, <1>1, WithoutSound DEF FacadeType
<1>4. [h EXCEPT !.phase = "outgoing", !.stream = c,
                !.live = @ \cup {c}, !.loud = @ \cup {c}] = g
  BY <1>0, <1>3 DEF FacadeType
<1>5. /\ h.role = f.role /\ h.call = f.call /\ h.gen = f.gen
      /\ h.screen = f.screen /\ h.conn = f.conn /\ h.timer = f.timer
      /\ h.retired = f.retired /\ h.open = f.open
      /\ h.waits = f.waits \ {x} /\ h.ops = f.ops /\ h.closed = f.closed
  BY WithoutSound
<1>6. live = f.live \cup {c}  OBVIOUS
<1>. HIDE DEF h, live, loud
<1>7. g \in FacadeType
  BY ZenonT(60), <1>0, <1>1, <1>3 DEF FacadeType, Ongoing
<1>8. /\ g.phase = "outgoing" /\ g.role = f.role /\ g.call = f.call /\ g.gen = f.gen
      /\ g.stream = c /\ g.screen = f.screen /\ g.conn = f.conn /\ g.timer = f.timer
      /\ g.retired = f.retired /\ g.live = live /\ g.open = f.open
      /\ g.waits = f.waits \ {x} /\ g.ops = f.ops /\ g.closed = f.closed
  BY <1>0, <1>5 DEF FacadeType
<1>. HIDE DEF g
<1>9. Shape(g)  BY <1>0, <1>1, <1>2, <1>8 DEF Shape, Over
<1>10. Fence(g)  BY <1>0, <1>2, <1>8 DEF Fence, AcceptedKnown
<1>11. ASSUME MediaInv  PROVE Media(g, {}) /\ AcceptedOnce(g, down, server)
  <2>1. Media(h, {})  BY <1>0, <1>11
  <2>2. Owned(g, {})
    <3>1. f.stream \notin f.live  BY <1>0, <1>2 DEF FacadeType, Captures
    <3>. QED  BY <1>2, <1>5, <1>6, <1>8, <2>1, <3>1, WithoutSound DEF Media, Owned, h
  <2>3. Selections(g)  BY <1>2, <1>5, <1>8, <2>1 DEF Media, Selections
  <2>4. Chained(g)  BY <1>1, <1>6, <1>8, <1>11 DEF MediaInv, Media, Chained
  <2>5. Picking(g)  BY <1>8, <1>11 DEF MediaInv, Media, Picking
  <2>6. AcceptedOnce(g, down, server)
    BY <1>2, <1>8, <1>11 DEF MediaInv, AcceptedOnce, Accepting
  <2>. QED  BY <2>2, <2>3, <2>4, <2>5, <2>6 DEF Media
<1>. QED  BY <1>4, <1>7, <1>8, <1>9, <1>10, <1>11 DEF h

LEMMA StartMicrophoneStep ==
    ASSUME CallFacadeAssumption, FenceInv, NEW x \in f.waits, StartMicrophone(x)
    PROVE  Kept
<1>. DEFINE h == Without(x)
<1>1. /\ f \in FacadeType /\ Shape(f) /\ Fence(f) /\ h \in FacadeType /\ Shape(h) /\ Fence(h)
      /\ x.on = "start"
      /\ MediaInv => Media(h, {}) /\ AcceptedOnce(h, down, server)
      /\ Sound(With(h)) /\ With(h).f = h
  BY FacadeFacts, WithoutSound, WithSound DEF StartMicrophone
<1>2. Quietly  BY DEF StartMicrophone, Quietly
<1>3. CASE Become(With(h))  BY <1>1, <1>2, <1>3, BecomeStep DEF Kept
<1>4. CASE Become(SetError(With(h), x.gen))
  <2>1. Sound(SetError(With(h), x.gen)) /\ Follows(h, SetError(With(h), x.gen).f)
    BY <1>1, SetErrorFollows
  <2>. QED  BY <1>1, <1>2, <1>4, <2>1, BecomeStep DEF Kept, Follows
<1>5. ASSUME NEW c \in Fresh, x.gen = f.gen,
             Become(SendRequest(With([h EXCEPT !.phase = "outgoing", !.stream = c,
                                               !.live = @ \cup {c}, !.loud = @ \cup {c}]),
                                "start", x.gen))
      PROVE  Kept
  <2>. DEFINE g == [h EXCEPT !.phase = "outgoing", !.stream = c,
                             !.live = @ \cup {c}, !.loud = @ \cup {c}]
  <2>1. /\ g \in FacadeType /\ Shape(g) /\ Fence(g)
        /\ MediaInv => Media(g, {}) /\ AcceptedOnce(g, down, server)
    BY <1>1, <1>5, GrantedSound
  <2>2. Become(SendRequest(With(g), "start", x.gen))  BY <1>5
  <2>. HIDE DEF g
  <2>3. Sound(With(g)) /\ With(g).f = g  BY <2>1, WithSound
  <2>4. LET w == SendRequest(With(g), "start", x.gen) IN Sound(w) /\ Follows(g, w.f)
    BY <2>3, SendRequestFollows DEF Asks
  <2>. QED  BY <1>2, <2>1, <2>2, <2>4, BecomeStep DEF Kept, Follows
<1>. QED  BY <1>3, <1>4, <1>5 DEF StartMicrophone

LEMMA DeviceStep ==
    ASSUME CallFacadeAssumption, FenceInv, NEW x \in f.waits, Device(x)
    PROVE  Kept
<1>. DEFINE h == Without(x)
<1>1. /\ f \in FacadeType /\ Shape(f) /\ Fence(f) /\ h \in FacadeType /\ Shape(h) /\ Fence(h)
      /\ x.on = "device" /\ x \in Wait
      /\ MediaInv => Media(h, {}) /\ AcceptedOnce(h, down, server)
  BY FacadeFacts, WithoutSound DEF Device
<1>2. Quietly /\ UNCHANGED up  BY DEF Device, Quietly
<1>3. CASE f' = h  BY <1>1, <1>2, <1>3, FacadeStep DEF Kept
<1>4. ASSUME NEW c \in Fresh, ~Stale(x),
             f' = [h EXCEPT !.live = @ \cup {c},
                            !.loud = IF f.muted THEN @ ELSE @ \cup {c},
                            !.waits = @ \cup {[x EXCEPT !.on = "replace", !.new = c]}]
      PROVE  Kept
  <2>. DEFINE r == [x EXCEPT !.on = "replace", !.new = c]
              live == f.live \cup {c}
              loud == IF f.muted THEN f.loud ELSE f.loud \cup {c}
              waits == (f.waits \ {x}) \cup {r}
              g == [h EXCEPT !.live = live, !.loud = loud, !.waits = waits]
  <2>1. /\ c \in Captures /\ c # 0 /\ c \notin f.live
        /\ \A i \in DOMAIN f.ops : c # f.ops[i].new
    BY FreshFacts
  <2>2. r \in Wait /\ r.on = "replace" /\ r.new = c /\ r.gen = x.gen /\ r.old = x.old
    BY <1>1, <2>1 DEF Wait
  <2>3. /\ h.role = f.role /\ h.call = f.call /\ h.gen = f.gen /\ h.phase = f.phase
        /\ h.stream = f.stream /\ h.screen = f.screen /\ h.conn = f.conn /\ h.timer = f.timer
        /\ h.retired = f.retired /\ h.open = f.open /\ h.live = f.live /\ h.loud = f.loud
        /\ h.waits = f.waits \ {x} /\ h.ops = f.ops /\ h.closed = f.closed
    BY WithoutSound
  <2>4. live \in SUBSET Captures /\ loud \in SUBSET Captures /\ waits \in SUBSET Wait
    BY <1>1, <2>1, <2>2 DEF FacadeType
  <2>5. f' = g  BY <1>1, <1>4, <2>3 DEF FacadeType
  <2>6. /\ live = f.live \cup {c} /\ r \in waits
        /\ \A y \in waits : (y \in f.waits /\ y # x) \/ y = r
        /\ \A y \in f.waits : y = x \/ y \in waits
    OBVIOUS
  <2>. HIDE DEF h, live, loud, waits, r
  <2>7. g \in FacadeType  BY ZenonT(60), <1>1, <2>4 DEF FacadeType
  <2>8. /\ g.phase = f.phase /\ g.role = f.role /\ g.call = f.call /\ g.gen = f.gen
        /\ g.stream = f.stream /\ g.screen = f.screen /\ g.conn = f.conn /\ g.timer = f.timer
        /\ g.retired = f.retired /\ g.live = live /\ g.open = f.open
        /\ g.waits = waits /\ g.ops = f.ops /\ g.closed = f.closed
    BY <1>1, <2>3 DEF FacadeType
  <2>. HIDE DEF g
  <2>9. Shape(g)  BY <1>1, <2>8 DEF Shape
  <2>10. Fence(g)
    <3>1. r.gen <= f.gen /\ (r.gen = f.gen => f.stream # 0) /\ r.new # 0
      BY <1>1, <2>1, <2>2 DEF Fence
    <3>2. \A i \in DOMAIN f.ops : f.ops[i].kind = "accepted" => AcceptedKnown(g, f.ops[i])
      BY <1>1, <2>8 DEF Fence, AcceptedKnown
    <3>. QED  BY <1>1, <2>2, <2>6, <2>8, <3>1, <3>2 DEF Fence
  <2>11. ASSUME MediaInv  PROVE Media(g, {}) /\ AcceptedOnce(g, down, server)
    <3>1. Owned(g, {})
      <4>1. Owned(h, {})  BY <1>1, <2>11 DEF Media
      <4>. QED  BY <2>2, <2>3, <2>6, <2>8, <4>1 DEF Owned
    <3>2. Selections(g)
      <4>1. Selections(f)  BY <2>11 DEF MediaInv, Media
      <4>2. \A y \in waits : /\ y.on # "replace" => y.new = 0
                             /\ y.on # "start" /\ y.gen = f.gen => y.old = f.stream
        BY <1>1, <2>2, <2>6, <4>1 DEF Selections
      <4>3. \A y \in waits : y.on # "start" => y = r
        BY <1>1, <2>6, <4>1 DEF Selections
      <4>. QED  BY <2>8, <4>2, <4>3 DEF Selections
    <3>3. Chained(g)  BY <2>1, <2>6, <2>8, <2>11 DEF MediaInv, Media, Chained
    <3>4. Picking(g)  BY <2>8, <2>11 DEF MediaInv, Media, Picking
    <3>5. AcceptedOnce(g, down, server)  BY <2>8, <2>11 DEF MediaInv, AcceptedOnce, Accepting
    <3>. QED  BY <3>1, <3>2, <3>3, <3>4, <3>5 DEF Media
  <2>. QED  BY <1>2, <2>5, <2>7, <2>9, <2>10, <2>11, FacadeStep DEF Kept
<1>. QED  BY <1>3, <1>4 DEF Device

LEMMA ReplaceStep ==
    ASSUME CallFacadeAssumption, FenceInv, NEW x \in f.waits, Replace(x)
    PROVE  Kept
<1>. DEFINE h == Without(x)
<1>1. /\ f \in FacadeType /\ Shape(f) /\ Fence(f) /\ h \in FacadeType /\ Shape(h) /\ Fence(h)
      /\ x.on = "replace" /\ x \in Wait
      /\ MediaInv => Media(h, {x.new}) /\ AcceptedOnce(h, down, server)
      /\ Sound(With(h)) /\ With(h).f = h
  BY FacadeFacts, WithoutSound, WithSound DEF Replace
<1>2. Quietly  BY DEF Replace, Quietly
<1>3. CASE f' = Stopped(h, {x.new}) /\ UNCHANGED up
  <2>1. /\ f' \in FacadeType /\ Shape(f') /\ Fence(f')
        /\ MediaInv => Media(f', {}) /\ AcceptedOnce(f', down, server)
    BY <1>1, <1>3, StoppedSound
  <2>. QED  BY <1>2, <1>3, <2>1, FacadeStep DEF Kept
<1>4. CASE LET w == TimedOut(With(h), x) IN Become([w EXCEPT !.f = Stopped(@, {x.new})])
  <2>. DEFINE w == TimedOut(With(h), x)
              g == Stopped(w.f, {x.new})
              v == [w EXCEPT !.f = g]
  <2>1. Sound(w) /\ Follows(h, w.f)  BY <1>1, TimedOutFollows
  <2>2. Become(v)  BY <1>4
  <2>. HIDE DEF w, h
  <2>3. /\ g \in FacadeType /\ Shape(g) /\ Fence(g)
        /\ MediaInv => Media(g, {}) /\ AcceptedOnce(g, down, server)
    BY <1>1, <2>1, StoppedSound DEF Sound, Worlds, Follows
  <2>. HIDE DEF g
  <2>4. Sound(v) /\ v.f = g  BY <2>1, <2>3 DEF Sound, Worlds
  <2>. HIDE DEF v
  <2>. QED  BY <1>2, <2>2, <2>3, <2>4, BecomeStep DEF Kept
<1>5. CASE ~Stale(x) /\ f' = [Stopped(h, {x.old}) EXCEPT !.stream = x.new] /\ UNCHANGED up
  <2>. DEFINE k == Stopped(h, {x.old})
              g == [k EXCEPT !.stream = x.new]
  <2>1. x.gen = f.gen /\ f.stream # 0 /\ x.new # 0 /\ x.new \in Captures
    BY <1>1, <1>5 DEF Stale, Fence, Wait
  <2>2. /\ h.role = f.role /\ h.call = f.call /\ h.gen = f.gen /\ h.phase = f.phase
        /\ h.stream = f.stream /\ h.screen = f.screen /\ h.conn = f.conn /\ h.timer = f.timer
        /\ h.retired = f.retired /\ h.open = f.open /\ h.live = f.live
        /\ h.waits = f.waits \ {x} /\ h.ops = f.ops /\ h.closed = f.closed
    BY WithoutSound
  <2>3. k \in FacadeType /\ k = [h EXCEPT !.live = k.live, !.loud = k.loud]
          /\ k.live = h.live \ {x.old}
    BY <1>1, StoppedSound
  <2>4. f' = g  BY <1>5
  <2>. HIDE DEF k
  <2>5. /\ k.role = f.role /\ k.call = f.call /\ k.gen = f.gen /\ k.phase = f.phase
        /\ k.screen = f.screen /\ k.conn = f.conn /\ k.timer = f.timer
        /\ k.retired = f.retired /\ k.open = f.open
        /\ k.waits = f.waits \ {x} /\ k.ops = f.ops /\ k.closed = f.closed
    <3>. HIDE DEF h
    <3>. QED  BY ZenonT(60), <1>1, <2>2, <2>3 DEF FacadeType
  <2>. HIDE DEF h
  <2>6. g \in FacadeType  BY <2>1, <2>3 DEF FacadeType
  <2>7. /\ g.phase = f.phase /\ g.role = f.role /\ g.call = f.call /\ g.gen = f.gen
        /\ g.stream = x.new /\ g.screen = f.screen /\ g.conn = f.conn /\ g.timer = f.timer
        /\ g.retired = f.retired /\ g.live = f.live \ {x.old} /\ g.open = f.open
        /\ g.waits = f.waits \ {x} /\ g.ops = f.ops /\ g.closed = f.closed
    BY <2>2, <2>3, <2>5 DEF FacadeType
  <2>. HIDE DEF g
  <2>8. Shape(g)  BY <1>1, <2>1, <2>7 DEF Shape
  <2>9. Fence(g)  BY <1>1, <2>1, <2>7 DEF Fence, AcceptedKnown
  <2>10. ASSUME MediaInv  PROVE Media(g, {}) /\ AcceptedOnce(g, down, server)
    <3>1. x.old = f.stream /\ \A y \in f.waits : y.on # "start" => y = x
      BY <1>1, <2>1, <2>10 DEF MediaInv, Media, Selections
    <3>2. Owned(g, {})
      BY <2>7, <2>10, <3>1 DEF MediaInv, Media, Owned
    <3>3. Selections(g)  BY <2>7, <2>10, <3>1 DEF MediaInv, Media, Selections
    <3>4. Chained(g)  BY <2>7, <2>10 DEF MediaInv, Media, Chained
    <3>5. Picking(g)  BY <2>7, <2>10 DEF MediaInv, Media, Picking
    <3>6. AcceptedOnce(g, down, server)
      BY <2>1, <2>7, <2>10 DEF MediaInv, AcceptedOnce, Accepting
    <3>. QED  BY <3>2, <3>3, <3>4, <3>5, <3>6 DEF Media
  <2>. QED  BY <1>2, <1>5, <2>4, <2>6, <2>8, <2>9, <2>10, FacadeStep DEF Kept
<1>. QED  BY <1>3, <1>4, <1>5 DEF Replace

-----------------------------------------------------------------------------
(* The chains of signaling operations.                                     *)

\* The operation op takes the place of the i-th.
LEMMA PutFacts ==
    ASSUME NEW g \in FacadeType, NEW i \in DOMAIN g.ops, NEW op \in Operation
    PROVE  LET h == [g EXCEPT !.ops = [@ EXCEPT ![i] = op]] IN
           h \in FacadeType /\ LikeButOps(g, h) /\ h.ops = [g.ops EXCEPT ![i] = op]
<1>. DEFINE ops == [g.ops EXCEPT ![i] = op]
<1>1. ops \in Seq(Operation)  BY OpsFacts, ExceptSeq
<1>2. [g EXCEPT !.ops = [@ EXCEPT ![i] = op]] = [g EXCEPT !.ops = ops]  BY DEF FacadeType
<1>. HIDE DEF ops
<1>3. LET h == [g EXCEPT !.ops = ops] IN h \in FacadeType /\ LikeButOps(g, h) /\ h.ops = ops
  BY <1>1 DEF FacadeType, LikeButOps
<1>. QED  BY <1>2, <1>3 DEF ops

Stages == {"queued", "microphone", "display", "replace", "clear", "apply"}

Moved(i, at, gen) == [f.ops[i] EXCEPT !.at = at, !.gen = gen]

LEMMA AtFacts ==
    ASSUME FenceInv, NEW i \in DOMAIN f.ops, NEW gen \in Gens,
           NEW at \in Stages
    PROVE  LET op == Moved(i, at, gen) h == At(i, at, gen) IN
           /\ op \in Operation /\ op.at = at /\ op.gen = gen
           /\ op.kind = f.ops[i].kind /\ op.chain = f.ops[i].chain
           /\ op.call = f.ops[i].call /\ op.new = f.ops[i].new /\ op.conn = f.ops[i].conn
           /\ h \in FacadeType /\ LikeButOps(f, h) /\ h.ops = [f.ops EXCEPT ![i] = op]
<1>. DEFINE op == Moved(i, at, gen)
<1>1. f \in FacadeType /\ f.ops[i] \in Operation  BY FacadeFacts, OpsFacts
<1>2. /\ op \in Operation /\ op.at = at /\ op.gen = gen
      /\ op.kind = f.ops[i].kind /\ op.chain = f.ops[i].chain
      /\ op.call = f.ops[i].call /\ op.new = f.ops[i].new /\ op.conn = f.ops[i].conn
  BY <1>1 DEF Operation, Moved, Stages
<1>3. At(i, at, gen) = [f EXCEPT !.ops = [@ EXCEPT ![i] = op]]
  BY <1>1 DEF At, Moved, FacadeType, Operation
<1>. HIDE DEF op
<1>. QED  BY <1>1, <1>2, <1>3, PutFacts DEF op

\* What a running operation is, and what is left once it is done.
LEMMA DoneFacts ==
    ASSUME FenceInv, NEW i \in DOMAIN f.ops
    PROVE  /\ f \in FacadeType /\ f.gen \in Gens
           /\ f.ops[i] \in Operation
           /\ f.ops[i].gen <= f.gen /\ f.ops[i].chain <= f.gen
           /\ f.ops[i].kind = "accepted" => AcceptedKnown(f, f.ops[i])
           /\ Done(f, i) \in FacadeType /\ LikeButOps(f, Done(f, i))
           /\ Done(f, i).ops = RemoveAt(f.ops, i)
           /\ Shape(Done(f, i)) /\ Fence(Done(f, i))
           /\ Sound(With(Done(f, i))) /\ With(Done(f, i)).f = Done(f, i)
           /\ MediaInv =>
                /\ Media(Done(f, i), {f.ops[i].new})
                /\ f.ops[i].at # "replace" => Media(Done(f, i), {})
                /\ AcceptedOnce(Done(f, i), down, server)
<1>1. f \in FacadeType /\ Shape(f) /\ Fence(f) /\ f.gen \in Gens  BY FacadeFacts DEF FacadeType
<1>2. f.ops[i] \in Operation  BY <1>1, OpsFacts
<1>3. Done(f, i) \in FacadeType /\ Shape(Done(f, i)) /\ Fence(Done(f, i))
  BY <1>1, DoneSound
<1>4. \A T : {} \cup T = T  OBVIOUS
<1>5. MediaInv =>
        /\ Media(Done(f, i), {f.ops[i].new})
        /\ f.ops[i].at # "replace" => Media(Done(f, i), {})
        /\ AcceptedOnce(Done(f, i), down, server)
  BY <1>1, <1>4, DoneSound DEF MediaInv
<1>. QED  BY <1>1, <1>2, <1>3, <1>5, DoneSound, WithSound DEF Fence

\* What is left are operations that there were.
LEMMA RestFacts ==
    ASSUME FenceInv, NEW i \in DOMAIN f.ops
    PROVE  \A j \in DOMAIN Done(f, i).ops :
              \E m \in DOMAIN f.ops : m # i /\ Done(f, i).ops[j] = f.ops[m]
<1>. DEFINE h == Done(f, i)
<1>1. f.ops \in Seq(Operation) /\ DOMAIN f.ops = 1 .. Len(f.ops) /\ Len(f.ops) \in Nat
  BY FacadeFacts, OpsFacts
<1>2. h.ops = RemoveAt(f.ops, i)  BY DoneFacts
<1>3. /\ DOMAIN h.ops = 1 .. Len(f.ops) - 1
      /\ \A j \in 1 .. Len(f.ops) - 1 : h.ops[j] = IF j < i THEN f.ops[j] ELSE f.ops[j + 1]
  BY <1>1, <1>2, RemoveAtFacts
<1>4. \A j \in 1 .. Len(f.ops) - 1 : /\ j \in DOMAIN f.ops /\ j + 1 \in DOMAIN f.ops
                                     /\ j < i => j # i
                                     /\ ~(j < i) => j + 1 # i
  BY <1>1
<1>. HIDE DEF h
<1>5. \A j \in DOMAIN h.ops : \E m \in DOMAIN f.ops : m # i /\ h.ops[j] = f.ops[m]
  BY <1>3, <1>4
<1>. QED  BY <1>5 DEF h

\* An operation that is done and that only fails the call, or tells the peer.
LEMMA DoneStep ==
    ASSUME CallFacadeAssumption, FenceInv, Quietly, NEW i \in DOMAIN f.ops,
           f.ops[i].at # "replace",
           NEW w, Sound(w), Follows(Done(f, i), w.f), Become(w)
    PROVE  Kept
<1>1. MediaInv => Media(Done(f, i), {}) /\ AcceptedOnce(Done(f, i), down, server)
  BY DoneFacts
<1>. QED  BY <1>1, BecomeStep DEF Kept, Follows

LEMMA OnlyDone ==
    ASSUME FenceInv, NEW i \in DOMAIN f.ops
    PROVE  Follows(Done(f, i), With(Done(f, i)).f)
  BY DoneFacts DEF Follows

\* Who is connected to takes the microphone it has, or a fresh one if it has none.
LEMMA ConnectSound ==
    ASSUME FenceInv, NEW g \in FacadeType, Shape(g), Fence(g),
           NEW i \in DOMAIN f.ops, f.ops[i].call # 0,
           NEW gen \in Gens, NEW stream \in Captures \cup {0},
           stream # g.stream => /\ stream # 0
                                /\ \A j \in DOMAIN g.ops : stream # g.ops[j].new
    PROVE  LET w == Connect(g, i, gen, stream) IN
           /\ Sound(w) /\ w.f.waits = g.waits /\ w.f.ops = g.ops
           /\ /\ Media(g, {}) /\ AcceptedOnce(g, down, server)
              /\ stream # g.stream /\ g.call = f.ops[i].call => g.stream = 0
              /\ Past(server, f.ops[i].call) /\ Accepts(down, f.ops[i].call) = {}
              /\ Accepting(g, f.ops[i].call) = {}
              => Media(w.f, {}) /\ AcceptedOnce(w.f, down, server)
<1>. DEFINE new == {stream} \ {g.stream}
            live == g.live \cup new
            loud == g.loud \cup new
            open == g.open \cup {gen}
            h == [g EXCEPT !.stream = stream, !.live = live, !.loud = loud,
                           !.conn = gen, !.open = open, !.phase = "connecting"]
            w == Connect(g, i, gen, stream)
<1>1. Sound(With(g)) /\ With(g).f = g  BY WithSound
<1>2. CASE ~(gen = g.gen /\ g.call = f.ops[i].call /\ stream # 0)
  BY <1>1, <1>2 DEF Connect
<1>3. CASE gen = g.gen /\ g.call = f.ops[i].call /\ stream # 0
  <2>1. w = IF g.role = "caller" THEN SendRequest(With(h), "signal", gen) ELSE With(h)
    BY <1>3 DEF Connect, FacadeType
  <2>2. new \subseteq {stream} /\ (stream # g.stream => stream \in new) /\ g.stream \notin new
    OBVIOUS
  <2>3. /\ live = g.live \cup new /\ open = g.open \cup {gen}
        /\ \A c \in live : c \in g.live \/ (c = stream /\ stream # g.stream)
    OBVIOUS
  <2>4. live \in SUBSET Captures /\ loud \in SUBSET Captures /\ open \in SUBSET Gens
    BY <1>3 DEF FacadeType
  <2>. HIDE DEF w, new, live, loud, open
  <2>5. h \in FacadeType  BY ZenonT(60), <2>4 DEF FacadeType, Ongoing
  <2>6. /\ h.phase = "connecting" /\ h.role = g.role /\ h.call = g.call /\ h.gen = g.gen
        /\ h.stream = stream /\ h.screen = g.screen /\ h.conn = gen /\ h.timer = g.timer
        /\ h.retired = g.retired /\ h.live = live /\ h.open = open
        /\ h.waits = g.waits /\ h.ops = g.ops /\ h.closed = g.closed
    BY DEF FacadeType
  <2>. HIDE DEF h
  <2>7. g.phase \notin Over /\ g.phase # "requesting" /\ ~g.timer
    BY <1>3 DEF Shape
  <2>8. Shape(h)  BY <1>3, <2>3, <2>6, <2>7 DEF Shape, Over
  <2>9. Fence(h)
    <3>1. \A j \in DOMAIN g.ops : g.ops[j].kind = "accepted" => AcceptedKnown(h, g.ops[j])
      BY <2>6 DEF Fence, AcceptedKnown
    <3>. QED  BY <1>3, <2>6, <2>7, <3>1 DEF Fence
  <2>10. Sound(With(h)) /\ With(h).f = h  BY <2>5, <2>8, <2>9, WithSound
  <2>11. LET r == SendRequest(With(h), "signal", gen) IN Sound(r) /\ Follows(h, r.f)
    BY <2>10, SendRequestFollows DEF Asks
  <2>12. Follows(h, With(h).f)  BY <2>10 DEF Follows
  <2>13. Sound(w) /\ Follows(h, w.f)  BY <2>1, <2>10, <2>11, <2>12
  <2>14. ASSUME Media(g, {}), AcceptedOnce(g, down, server), stream # g.stream => g.stream = 0,
                Past(server, g.call), Accepts(down, g.call) = {}, Accepting(g, g.call) = {}
         PROVE  Media(h, {}) /\ AcceptedOnce(h, down, server)
    <3>1. Owned(h, {})
      <4>1. 0 \notin g.live  BY DEF FacadeType, Captures
      <4>. QED  BY <2>3, <2>6, <2>14, <4>1 DEF Media, Owned
    <3>2. Selections(h)  BY <2>6, <2>14 DEF Media, Selections, Fence
    <3>3. Chained(h)  BY <2>3, <2>6, <2>14 DEF Media, Chained
    <3>4. Picking(h)  BY <2>6, <2>14 DEF Media, Picking
    <3>5. \A c : Accepting(h, c) = Accepting(g, c)  BY <2>6 DEF Accepting
    <3>6. AcceptedOnce(h, down, server)  BY <2>6, <2>14, <3>5 DEF AcceptedOnce
    <3>. QED  BY <3>1, <3>2, <3>3, <3>4, <3>6 DEF Media
  <2>. QED  BY <1>3, <2>6, <2>13, <2>14 DEF Follows, w
<1>. QED  BY <1>2, <1>3

\* The call that an accept is under way for.
LEMMA AcceptingFacts ==
    ASSUME FenceInv, MediaInv, NEW i \in DOMAIN f.ops, f.ops[i].kind = "accepted"
    PROVE  /\ f.ops[i].call # 0
           /\ Past(server, f.ops[i].call) /\ Accepts(down, f.ops[i].call) = {}
           /\ f.role = "recipient" /\ f.call = f.ops[i].call => f.stream = 0
<1>1. f \in FacadeType /\ f.ops[i].call # 0 /\ f.ops[i].call \in CallIds \cup {0}
  BY DoneFacts DEF AcceptedKnown, Operation
<1>2. i \in Accepting(f, f.ops[i].call)  BY DEF Accepting
<1>. QED  BY <1>1, <1>2 DEF MediaInv, AcceptedOnce

LEMMA AcceptedRunsStep ==
    ASSUME CallFacadeAssumption, FenceInv, NEW i \in DOMAIN f.ops, AcceptedRuns(i)
    PROVE  Kept
<1>. DEFINE op == f.ops[i]
            reqs == f.reqs \ {<<"accept", f.gen>>}
            h == [f EXCEPT !.reqs = reqs]
            g == Done(h, i)
<1>1. op.kind = "accepted" /\ op.at = "queued" /\ First(i) /\ Quietly
  BY DEF AcceptedRuns, Runs, Quietly
<1>2. /\ f \in FacadeType /\ f.gen \in Gens /\ op.call # 0 /\ op \in Operation
      /\ f.stream \in Captures \cup {0} /\ 0 \notin f.live
  <2>1. f \in FacadeType /\ f.gen \in Gens /\ op \in Operation /\ op.call # 0
    BY <1>1, DoneFacts DEF AcceptedKnown
  <2>2. f.stream \in Captures \cup {0} /\ 0 \notin f.live  BY <2>1 DEF FacadeType, Captures
  <2>. QED  BY <2>1, <2>2
<1>3. h \in FacadeType /\ Alike(f, h)
  <2>1. reqs \in SUBSET (Asks \X Gens)  BY <1>2 DEF FacadeType
  <2>. HIDE DEF reqs
  <2>. QED  BY <1>2, <2>1 DEF FacadeType, Alike, LikeButOps
<1>4. h.ops = f.ops /\ i \in DOMAIN h.ops  BY <1>3 DEF Alike
<1>5. Shape(h) /\ Fence(h) /\ (MediaInv => Media(h, {}) /\ AcceptedOnce(h, down, server))
  BY <1>3, AlikeKept DEF FenceInv, MediaInv
<1>6. h = [f EXCEPT !.reqs = @ \ {<<"accept", f.gen>>}]  BY <1>2 DEF FacadeType
<1>. HIDE DEF h
<1>7. /\ g \in FacadeType /\ LikeButOps(h, g) /\ g.ops = RemoveAt(f.ops, i)
      /\ Shape(g) /\ Fence(g)
      /\ MediaInv => /\ Media(g, {}) /\ AcceptedOnce(g, down, server)
                     /\ Accepting(g, op.call) = {}
  BY <1>1, <1>2, <1>3, <1>4, <1>5, DoneSound
<1>8. /\ g.stream = f.stream /\ g.gen = f.gen /\ g.call = f.call /\ g.role = f.role
  BY <1>3, <1>7 DEF Alike, LikeButOps
<1>9. CASE Become(With(Done(f, i)))
  BY <1>1, <1>9, DoneFacts, OnlyDone, DoneStep
<1>10. CASE Become(Connect(g, i, f.gen, f.stream))
  <2>. HIDE DEF g
  <2>1. /\ Sound(Connect(g, i, f.gen, f.stream))
        /\ MediaInv => LET w == Connect(g, i, f.gen, f.stream)
                       IN  Media(w.f, {}) /\ AcceptedOnce(w.f, down, server)
    BY <1>1, <1>2, <1>7, <1>8, ConnectSound, AcceptingFacts
  <2>. QED  BY <1>1, <1>10, <2>1, BecomeStep DEF Kept
<1>11. CASE Become(SetError(With(g), f.gen))
  <2>. HIDE DEF g
  <2>1. Sound(With(g)) /\ With(g).f = g  BY <1>7, WithSound
  <2>2. LET w == SetError(With(g), f.gen) IN Sound(w) /\ Follows(g, w.f)
    BY <2>1, SetErrorFollows
  <2>. QED  BY <1>1, <1>7, <1>11, <2>2, BecomeStep DEF Kept, Follows
<1>12. CASE /\ f.call = op.call /\ f.role = "recipient"
            /\ f' = [At(i, "microphone", f.gen) EXCEPT !.reqs = g.reqs] /\ UNCHANGED up
  <2>. DEFINE k == At(i, "microphone", f.gen)
              m == Moved(i, "microphone", f.gen)
              R == g.reqs
  <2>1. /\ k \in FacadeType /\ LikeButOps(f, k) /\ k.ops = [f.ops EXCEPT ![i] = m]
        /\ m \in Operation /\ m.at = "microphone" /\ m.gen = f.gen
        /\ m.kind = "accepted" /\ m.chain = op.chain /\ m.call = op.call /\ m.new = op.new
    <3>1. /\ k \in FacadeType /\ LikeButOps(f, k) /\ k.ops = [f.ops EXCEPT ![i] = m]
          /\ m \in Operation /\ m.at = "microphone" /\ m.gen = f.gen
          /\ m.kind = op.kind /\ m.chain = op.chain /\ m.call = op.call /\ m.new = op.new
      <4>1. f.gen \in Gens /\ "microphone" \in Stages  BY <1>2 DEF Stages
      <4>. HIDE DEF k, m
      <4>. QED  BY <4>1, AtFacts DEF k, m
    <3>. QED  BY <1>1, <3>1
  <2>2. R \in SUBSET (Asks \X Gens)  BY <1>7 DEF FacadeType
  <2>3. f' = [k EXCEPT !.reqs = R]  BY <1>12
  <2>. HIDE DEF k, m, R
  <2>4. f' \in FacadeType /\ Alike(k, f')  BY <2>1, <2>2, <2>3 DEF FacadeType, Alike, LikeButOps
  <2>5. m.gen <= f.gen /\ AcceptedKnown(f, m)
    BY <1>2, <1>12, <2>1 DEF AcceptedKnown, Gens
  <2>6. Shape(f) /\ Fence(f)  BY FacadeFacts
  <2>7. Shape(k) /\ Fence(k)  BY <1>1, <1>2, <2>1, <2>5, <2>6, MovedSound
  <2>8. ASSUME MediaInv  PROVE Media(k, {}) /\ AcceptedOnce(k, down, server)
    <3>1. /\ Media(f, {}) /\ AcceptedOnce(f, down, server)
          /\ \A j \in 1 .. i - 1 : f.ops[j].chain # m.chain
          /\ m.new \notin f.live
      BY <1>1, <2>1, <2>8 DEF MediaInv, Media, Chained, First
    <3>. QED  BY <1>1, <1>2, <1>12, <2>1, <2>5, <3>1, MovedSound
  <2>9. /\ Shape(f') /\ Fence(f')
        /\ MediaInv => Media(f', {}) /\ AcceptedOnce(f', down, server)
    BY <2>4, <2>7, <2>8, AlikeKept
  <2>. QED  BY <1>1, <1>12, <2>4, <2>9, FacadeStep DEF Kept
<1>. QED  BY <1>6, <1>9, <1>10, <1>11, <1>12 DEF AcceptedRuns

LEMMA AcceptedMicrophoneStep ==
    ASSUME CallFacadeAssumption, FenceInv, NEW i \in DOMAIN f.ops, AcceptedMicrophone(i)
    PROVE  Kept
<1>. DEFINE op == f.ops[i]
            g == Done(f, i)
<1>1. op.kind = "accepted" /\ op.at = "microphone" /\ Quietly
  BY DEF AcceptedMicrophone, Runs, Quietly
<1>2. /\ f \in FacadeType /\ g \in FacadeType /\ Shape(g) /\ Fence(g)
      /\ LikeButOps(f, g) /\ g.ops = RemoveAt(f.ops, i) /\ Sound(With(g)) /\ With(g).f = g
      /\ op \in Operation /\ op.call # 0
  BY <1>1, DoneFacts DEF AcceptedKnown
<1>3. CASE Become(With(g))  BY <1>1, <1>3, DoneFacts, OnlyDone, DoneStep
<1>4. CASE Become(SetError(With(g), op.gen))
  <2>1. LET w == SetError(With(g), op.gen) IN Sound(w) /\ Follows(g, w.f)
    BY <1>2, SetErrorFollows
  <2>. QED  BY <1>1, <1>4, <2>1, DoneStep
<1>5. ASSUME NEW c \in Fresh, Become(Connect(g, i, op.gen, c))  PROVE Kept
  <2>1. /\ c \in Captures /\ c # 0 /\ op.gen \in Gens
        /\ g.stream = f.stream /\ g.call = f.call
    BY <1>2, FreshFacts DEF Operation, LikeButOps
  <2>2. \A j \in DOMAIN g.ops : c # g.ops[j].new
    BY RestFacts, FreshFacts
  <2>3. MediaInv =>
          /\ Media(g, {}) /\ AcceptedOnce(g, down, server)
          /\ Accepting(g, op.call) = {}
          /\ Past(server, op.call) /\ Accepts(down, op.call) = {}
          /\ g.call = op.call => g.stream = 0
    <3>1. MediaInv => Accepting(g, op.call) = {}  BY <1>1, <1>2, DoneSound DEF MediaInv
    <3>2. MediaInv /\ f.call = op.call => f.role = "recipient"
      BY <1>1 DEF MediaInv, Media, Picking
    <3>. QED  BY <1>1, <2>1, <3>1, <3>2, DoneFacts, AcceptingFacts
  <2>. HIDE DEF g
  <2>4. LET w == Connect(g, i, op.gen, c)
        IN  Sound(w) /\ (MediaInv => Media(w.f, {}) /\ AcceptedOnce(w.f, down, server))
    BY <1>2, <2>1, <2>2, <2>3, ConnectSound
  <2>. QED  BY <1>1, <1>5, <2>4, BecomeStep DEF Kept
<1>. QED  BY <1>3, <1>4, <1>5 DEF AcceptedMicrophone

\* The i-th operation, the first of its chain, moves on within its generation.
LEMMA MovedStep ==
    ASSUME FenceInv, NEW i \in DOMAIN f.ops, First(i), NEW op \in Operation,
           op.kind = f.ops[i].kind, op.chain = f.ops[i].chain, op.call = f.ops[i].call,
           op.gen = f.gen, f.ops[i].kind # "accepted",
           op.at \in {"display", "replace"} => op.conn # 0,
           NEW h, LikeButOps(f, h), h.ops = [f.ops EXCEPT ![i] = op]
    PROVE  /\ Shape(h) /\ Fence(h)
           /\ MediaInv => AcceptedOnce(h, down, server)
           /\ /\ MediaInv
              /\ f.ops[i].at # "replace" /\ op.new \notin f.live
              /\ op.kind = "share" /\ op.at # "clear" => op.gen = op.chain
              /\ op.kind = "share" /\ op.at \in {"display", "replace"} => f.screen = 0
              => Media(h, {})
<1>1. f \in FacadeType /\ Shape(f) /\ Fence(f) /\ f.gen \in Nat  BY FacadeFacts
<1>2. /\ Shape(h) /\ Fence(h)
      /\ MediaInv => AcceptedOnce(h, down, server)
  BY <1>1, MovedSound DEF MediaInv
<1>3. ASSUME MediaInv,
             f.ops[i].at # "replace", op.new \notin f.live,
             op.kind = "share" /\ op.at # "clear" => op.gen = op.chain,
             op.kind = "share" /\ op.at \in {"display", "replace"} => f.screen = 0
      PROVE  Media(h, {})
  <2>1. /\ Media(f, {}) /\ f.ops[i].new \notin f.live
        /\ \A j \in 1 .. i - 1 : f.ops[j].chain # op.chain
    BY <1>3 DEF MediaInv, Media, Chained, First
  <2>. QED  BY <1>1, <1>3, <2>1, MovedSound
<1>. QED  BY <1>2, <1>3

LEMMA SignalRunsStep ==
    ASSUME CallFacadeAssumption, FenceInv, NEW i \in DOMAIN f.ops, SignalRuns(i)
    PROVE  Kept
<1>. DEFINE op == f.ops[i]
            g == Done(f, i)
<1>1. op.kind = "signal" /\ op.at \in {"queued", "apply"} /\ First(i) /\ Quietly
  BY DEF SignalRuns, Runs, Quietly
<1>2. CASE f' = g /\ UNCHANGED up
  BY <1>1, <1>2, DoneFacts, FacadeStep DEF Kept
<1>3. CASE Become(SetError(With(g), op.gen))
  <2>1. Sound(With(g)) /\ With(g).f = g  BY DoneFacts
  <2>2. LET w == SetError(With(g), op.gen) IN Sound(w) /\ Follows(g, w.f)
    BY <2>1, SetErrorFollows
  <2>. QED  BY <1>1, <1>3, <2>2, DoneStep
<1>4. CASE f' = At(i, "apply", f.gen) /\ op.at = "queued" /\ UNCHANGED up
  <2>. DEFINE m == Moved(i, "apply", f.gen)
  <2>0. "apply" \in Stages  BY DEF Stages
  <2>1. f.gen \in Gens /\ f \in FacadeType  BY DoneFacts
  <2>. HIDE DEF m
  <2>2. /\ f' \in FacadeType /\ LikeButOps(f, f') /\ f'.ops = [f.ops EXCEPT ![i] = m]
        /\ m \in Operation /\ m.at = "apply" /\ m.gen = f.gen
        /\ m.kind = op.kind /\ m.chain = op.chain /\ m.call = op.call /\ m.new = op.new
    BY <1>4, <2>0, <2>1, AtFacts DEF m
  <2>3. MediaInv => m.new \notin f.live  BY <1>1, <1>4, <2>2 DEF MediaInv, Media, Chained
  <2>4. /\ Shape(f') /\ Fence(f')
        /\ MediaInv => Media(f', {}) /\ AcceptedOnce(f', down, server)
    BY <1>1, <2>2, <2>3, MovedStep
  <2>. QED  BY <1>1, <1>4, <2>2, <2>4, FacadeStep DEF Kept
<1>. QED  BY <1>2, <1>3, <1>4 DEF SignalRuns, Runs

LEMMA StopScreenShareStep ==
    ASSUME CallFacadeAssumption, FenceInv, NEW i \in DOMAIN f.ops, StopScreenShare(i)
    PROVE  Kept
<1>. DEFINE op == f.ops[i]
            m == Moved(i, "clear", f.gen)
            k == At(i, "clear", f.gen)
            h == Stopped(k, {f.screen})
<1>1. op.kind \in {"share", "unshare"} /\ op.at = "queued" /\ First(i) /\ Quietly /\ UNCHANGED up
  BY DEF StopScreenShare, Runs, Quietly
<1>2. f' = [h EXCEPT !.screen = 0]  BY DEF StopScreenShare
<1>3. "clear" \in Stages /\ f.gen \in Gens /\ f \in FacadeType  BY DoneFacts DEF Stages
<1>. HIDE DEF m
<1>4. /\ k \in FacadeType /\ LikeButOps(f, k) /\ k.ops = [f.ops EXCEPT ![i] = m]
      /\ m \in Operation /\ m.at = "clear" /\ m.gen = f.gen
      /\ m.kind = op.kind /\ m.chain = op.chain /\ m.call = op.call /\ m.new = op.new
  BY <1>3, AtFacts DEF m
<1>5. MediaInv => m.new \notin f.live  BY <1>1, <1>4 DEF MediaInv, Media, Chained
<1>6. /\ Shape(k) /\ Fence(k)
      /\ MediaInv => Media(k, {}) /\ AcceptedOnce(k, down, server)
  BY <1>1, <1>4, <1>5, MovedStep
<1>. HIDE DEF k
<1>7. /\ h \in FacadeType /\ Shape(h) /\ Fence(h)
      /\ MediaInv => Media(h, {}) /\ AcceptedOnce(h, down, server)
      /\ h.live = k.live \ {f.screen}
      /\ h = [k EXCEPT !.live = h.live, !.loud = h.loud]
  BY <1>4, <1>6, StoppedSound
<1>. HIDE DEF h
<1>8. h.screen = f.screen  BY <1>4, <1>7 DEF FacadeType, LikeButOps
<1>9. f' \in FacadeType  BY <1>2, <1>7 DEF FacadeType
<1>10. /\ f'.phase = h.phase /\ f'.role = h.role /\ f'.call = h.call /\ f'.gen = h.gen
       /\ f'.stream = h.stream /\ f'.screen = 0 /\ f'.conn = h.conn /\ f'.timer = h.timer
       /\ f'.retired = h.retired /\ f'.live = h.live /\ f'.open = h.open
       /\ f'.waits = h.waits /\ f'.ops = h.ops /\ f'.closed = h.closed
  BY <1>2, <1>7 DEF FacadeType
<1>11. Shape(f') /\ Fence(f')  BY <1>7, <1>10 DEF Shape, Fence, AcceptedKnown
<1>12. MediaInv => Media(f', {}) /\ AcceptedOnce(f', down, server)
  BY <1>7, <1>8, <1>10
  DEF Media, Owned, Selections, Chained, Picking, AcceptedOnce, Accepting
<1>. QED  BY <1>1, <1>9, <1>11, <1>12, FacadeStep DEF Kept

LEMMA StartScreenShareStep ==
    ASSUME CallFacadeAssumption, FenceInv, NEW i \in DOMAIN f.ops, StartScreenShare(i)
    PROVE  Kept
<1>. DEFINE op == f.ops[i]
            m == [op EXCEPT !.at = "display", !.conn = f.conn]
<1>1. op.at = "queued" /\ op.kind \in {"share", "unshare"} /\ First(i) /\ Quietly /\ UNCHANGED up
  BY DEF StartScreenShare, Runs, Quietly
<1>2. CASE f' = Done(f, i)
  BY <1>1, <1>2, DoneFacts, FacadeStep DEF Kept
<1>3. CASE /\ op.kind = "share" /\ op.gen = f.gen /\ f.screen = 0 /\ f.conn # 0
           /\ f' = [f EXCEPT !.ops[i].at = "display", !.ops[i].conn = f.conn]
  <2>1. f \in FacadeType /\ f.conn \in Gens /\ op \in Operation
    BY DoneFacts DEF FacadeType
  <2>2. /\ m \in Operation /\ m.at = "display" /\ m.conn = f.conn
        /\ m.kind = op.kind /\ m.chain = op.chain /\ m.call = op.call /\ m.new = op.new
        /\ m.gen = op.gen
    BY <2>1 DEF Operation
  <2>3. f' = [f EXCEPT !.ops = [@ EXCEPT ![i] = m]]
    BY <1>3, <2>1 DEF FacadeType, Operation
  <2>. HIDE DEF m
  <2>4. f' \in FacadeType /\ LikeButOps(f, f') /\ f'.ops = [f.ops EXCEPT ![i] = m]
    BY <2>1, <2>2, <2>3, PutFacts
  <2>5. MediaInv => m.new \notin f.live /\ m.gen = m.chain
    BY <1>1, <1>3, <2>2 DEF MediaInv, Media, Chained
  <2>6. /\ Shape(f') /\ Fence(f')
        /\ MediaInv => Media(f', {}) /\ AcceptedOnce(f', down, server)
    BY <1>1, <1>3, <2>2, <2>4, <2>5, MovedStep
  <2>. QED  BY <1>1, <2>4, <2>6, FacadeStep DEF Kept
<1>. QED  BY <1>2, <1>3 DEF StartScreenShare

LEMMA DisplayStep ==
    ASSUME CallFacadeAssumption, FenceInv, NEW i \in DOMAIN f.ops, Display(i)
    PROVE  Kept
<1>. DEFINE op == f.ops[i]
<1>1. op.at = "display" /\ op.kind = "share" /\ First(i) /\ Quietly /\ UNCHANGED up
  BY DEF Display, Runs, Quietly
<1>2. CASE f' = Done(f, i)
  BY <1>1, <1>2, DoneFacts, FacadeStep DEF Kept
<1>3. ASSUME NEW c \in Fresh, Fenced(op),
             f' = [f EXCEPT !.ops[i].at = "replace", !.ops[i].new = c, !.live = @ \cup {c}]
      PROVE  Kept
  <2>. DEFINE m == [op EXCEPT !.at = "replace", !.new = c]
              k == [f EXCEPT !.ops = [@ EXCEPT ![i] = m]]
              live == f.live \cup {c}
  <2>1. f \in FacadeType /\ op \in Operation /\ op.gen = f.gen /\ op.conn # 0
    BY <1>1, <1>3, FacadeFacts, DoneFacts DEF Fenced, Fence
  <2>2. c \in Captures /\ c \notin f.live /\ \A j \in DOMAIN f.ops : c # f.ops[j].new
    BY FreshFacts
  <2>3. /\ m \in Operation /\ m.at = "replace" /\ m.new = c
        /\ m.kind = op.kind /\ m.chain = op.chain /\ m.call = op.call /\ m.gen = op.gen
        /\ m.conn = op.conn
    BY <2>1, <2>2 DEF Operation
  <2>4. f' = [k EXCEPT !.live = live]
    BY <1>3, <2>1 DEF FacadeType, Operation
  <2>. HIDE DEF m
  <2>5. k \in FacadeType /\ LikeButOps(f, k) /\ k.ops = [f.ops EXCEPT ![i] = m]
    BY <2>1, <2>3, PutFacts
  <2>6. MediaInv => m.gen = m.chain /\ f.screen = 0
    BY <1>1, <2>1, <2>3 DEF MediaInv, Media, Chained, Picking
  <2>7. /\ Shape(k) /\ Fence(k)
        /\ MediaInv => Media(k, {}) /\ AcceptedOnce(k, down, server)
    BY <1>1, <2>1, <2>2, <2>3, <2>5, <2>6, MovedStep
  <2>8. live \in SUBSET Captures /\ live = k.live \cup {c}
    BY <2>1, <2>2, <2>5 DEF FacadeType, LikeButOps
  <2>9. \A j \in DOMAIN f.ops : k.ops[j].new = c => j = i
    BY <2>2, <2>5
  <2>10. /\ DOMAIN k.ops = DOMAIN f.ops /\ k.ops[i] = m
    BY <2>5
  <2>. HIDE DEF k, live
  <2>11. f' \in FacadeType  BY SMTT(30), <2>4, <2>5, <2>8 DEF FacadeType
  <2>12. /\ f'.phase = k.phase /\ f'.role = k.role /\ f'.call = k.call /\ f'.gen = k.gen
         /\ f'.stream = k.stream /\ f'.screen = k.screen /\ f'.conn = k.conn
         /\ f'.timer = k.timer /\ f'.retired = k.retired /\ f'.live = live
         /\ f'.open = k.open /\ f'.waits = k.waits /\ f'.ops = k.ops /\ f'.closed = k.closed
    BY <2>4, <2>5 DEF FacadeType
  <2>13. Shape(f') /\ Fence(f')  BY <2>7, <2>12 DEF Shape, Fence, AcceptedKnown
  <2>14. ASSUME MediaInv  PROVE Media(f', {}) /\ AcceptedOnce(f', down, server)
    <3>1. Media(k, {}) /\ AcceptedOnce(k, down, server)  BY <2>7, <2>14
    <3>2. Owned(f', {})  BY <2>3, <2>8, <2>10, <2>12, <3>1 DEF Media, Owned
    <3>3. Selections(f')  BY <2>12, <3>1 DEF Media, Selections
    <3>4. Chained(f')
      BY <2>3, <2>8, <2>9, <2>10, <2>12, <3>1 DEF Media, Chained
    <3>5. Picking(f')  BY <2>12, <3>1 DEF Media, Picking
    <3>6. AcceptedOnce(f', down, server)  BY <2>12, <3>1 DEF AcceptedOnce, Accepting
    <3>. QED  BY <3>2, <3>3, <3>4, <3>5, <3>6 DEF Media
  <2>. QED  BY <1>1, <2>11, <2>13, <2>14, FacadeStep DEF Kept
<1>. QED  BY <1>2, <1>3 DEF Display

\* The screen that was picked is shared: of two that are picked at once one would
\* not be the first of its chain.
LEMMA SharedSound ==
    ASSUME FenceInv, NEW i \in DOMAIN f.ops,
           f.ops[i].kind = "share", f.ops[i].at = "replace", Fenced(f.ops[i]),
           f.ops[i].new \in f.live
    PROVE  LET g == [Done(f, i) EXCEPT !.screen = f.ops[i].new] IN
           /\ g \in FacadeType /\ Shape(g) /\ Fence(g)
           /\ MediaInv => Media(g, {}) /\ AcceptedOnce(g, down, server)
<1>. DEFINE h == Done(f, i)
            c == f.ops[i].new
            g == [h EXCEPT !.screen = c]
<1>1. /\ f \in FacadeType /\ h \in FacadeType /\ Shape(h) /\ Fence(h) /\ LikeButOps(f, h)
      /\ h.ops = RemoveAt(f.ops, i) /\ f.ops[i] \in Operation
      /\ MediaInv => Media(h, {c}) /\ AcceptedOnce(h, down, server)
  BY DoneFacts
<1>2. c \in Captures \cup {0} /\ f.ops[i].gen = f.gen /\ f.conn # 0
  BY <1>1, FacadeFacts DEF FacadeType, Fenced, Fence
<1>3. \A j \in DOMAIN h.ops : \E m \in DOMAIN f.ops : m # i /\ h.ops[j] = f.ops[m]
  BY RestFacts
<1>. HIDE DEF h, c
<1>4. g \in FacadeType  BY ZenonT(60), <1>1, <1>2 DEF FacadeType
<1>5. /\ g.phase = h.phase /\ g.role = h.role /\ g.call = h.call /\ g.gen = h.gen
      /\ g.stream = h.stream /\ g.screen = c /\ g.conn = h.conn /\ g.timer = h.timer
      /\ g.retired = h.retired /\ g.live = h.live /\ g.open = h.open
      /\ g.waits = h.waits /\ g.ops = h.ops /\ g.closed = h.closed
  BY <1>1 DEF FacadeType
<1>. HIDE DEF g
<1>6. h.conn # 0 /\ h.gen = f.gen /\ h.screen = f.screen  BY <1>1, <1>2 DEF LikeButOps
<1>7. Shape(g)  BY <1>1, <1>5, <1>6 DEF Shape
<1>8. Fence(g)  BY <1>1, <1>5 DEF Fence, AcceptedKnown
<1>9. ASSUME MediaInv  PROVE Media(g, {}) /\ AcceptedOnce(g, down, server)
  <2>1. Media(h, {c}) /\ AcceptedOnce(h, down, server) /\ Chained(f) /\ Picking(f)
    BY <1>1, <1>9 DEF MediaInv, Media
  <2>2. f.screen = 0  BY <1>2, <2>1 DEF Picking
  <2>3. Owned(g, {})
    <3>1. 0 \notin h.live  BY <1>1 DEF FacadeType, Captures
    <3>. QED  BY <1>5, <1>6, <2>1, <2>2, <3>1 DEF Media, Owned
  <2>4. Selections(g)  BY <1>5, <2>1 DEF Media, Selections
  <2>5. Chained(g)  BY <1>5, <2>1 DEF Media, Chained
  <2>6. \A m \in DOMAIN f.ops : m # i => ~(/\ f.ops[m].kind = "share"
                                           /\ f.ops[m].at \in {"display", "replace"}
                                           /\ f.ops[m].gen = f.gen)
    <3>. SUFFICES ASSUME NEW m \in DOMAIN f.ops, m # i, f.ops[m].kind = "share",
                         f.ops[m].at \in {"display", "replace"}, f.ops[m].gen = f.gen
                  PROVE  FALSE
      OBVIOUS
    <3>1. f.ops[m].chain = f.gen /\ f.ops[i].chain = f.gen  BY <1>2, <2>1 DEF Chained
    <3>2. DOMAIN f.ops = 1 .. Len(f.ops) /\ Len(f.ops) \in Nat  BY <1>1, OpsFacts
    <3>3. m \in 1 .. i - 1 \/ i \in 1 .. m - 1  BY <3>2
    <3>. QED  BY <2>1, <3>1, <3>3 DEF Chained
  <2>7. Picking(g)
    <3>1. \A j \in DOMAIN g.ops : ~(/\ g.ops[j].kind = "share"
                                    /\ g.ops[j].at \in {"display", "replace"}
                                    /\ g.ops[j].gen = g.gen)
      BY <1>3, <1>5, <1>6, <2>6
    <3>. QED  BY <1>5, <2>1, <3>1 DEF Media, Picking
  <2>8. AcceptedOnce(g, down, server)  BY <1>5, <2>1 DEF AcceptedOnce, Accepting
  <2>. QED  BY <2>3, <2>4, <2>5, <2>7, <2>8 DEF Media
<1>. QED  BY <1>4, <1>7, <1>8, <1>9 DEF g, h, c

LEMMA ShareReplacedStep ==
    ASSUME CallFacadeAssumption, FenceInv, NEW i \in DOMAIN f.ops, ShareReplaced(i)
    PROVE  Kept
<1>. DEFINE op == f.ops[i]
            h == Done(f, i)
            without == Stopped(h, {op.new})
            shared == [h EXCEPT !.screen = op.new]
<1>1. op.at = "replace" /\ op.kind = "share" /\ First(i) /\ Quietly
  BY DEF ShareReplaced, Runs, Quietly
<1>2. /\ f \in FacadeType /\ h \in FacadeType /\ Shape(h) /\ Fence(h)
      /\ Sound(With(h)) /\ With(h).f = h
      /\ MediaInv => Media(h, {op.new}) /\ AcceptedOnce(h, down, server)
  BY DoneFacts
<1>3. /\ without \in FacadeType /\ Shape(without) /\ Fence(without)
      /\ MediaInv => Media(without, {}) /\ AcceptedOnce(without, down, server)
  BY <1>2, StoppedSound
<1>4. Fenced(op) /\ op.new \in f.live =>
        /\ shared \in FacadeType /\ Shape(shared) /\ Fence(shared)
        /\ MediaInv => Media(shared, {}) /\ AcceptedOnce(shared, down, server)
  BY <1>1, SharedSound
<1>. HIDE DEF without, shared
<1>5. CASE Become(With(without))
  <2>1. Sound(With(without)) /\ With(without).f = without  BY <1>3, WithSound
  <2>. QED  BY <1>1, <1>3, <1>5, <2>1, BecomeStep DEF Kept
<1>6. CASE /\ Fenced(op)
           /\ Become(SendRequest(With(IF op.new \in f.live THEN shared ELSE without),
                                 "signal", op.gen))
  <2>. DEFINE g == IF op.new \in f.live THEN shared ELSE without
  <2>1. /\ g \in FacadeType /\ Shape(g) /\ Fence(g)
        /\ MediaInv => Media(g, {}) /\ AcceptedOnce(g, down, server)
    BY <1>3, <1>4, <1>6
  <2>2. Become(SendRequest(With(g), "signal", op.gen))  BY <1>6
  <2>. HIDE DEF g
  <2>3. Sound(With(g)) /\ With(g).f = g  BY <2>1, WithSound
  <2>4. LET w == SendRequest(With(g), "signal", op.gen) IN Sound(w) /\ Follows(g, w.f)
    BY <2>3, SendRequestFollows DEF Asks
  <2>. QED  BY <1>1, <2>1, <2>2, <2>4, BecomeStep DEF Kept, Follows
<1>7. CASE LET w == TimedOut(With(h), op) IN Become([w EXCEPT !.f = Stopped(@, {op.new})])
  <2>. DEFINE w == TimedOut(With(h), op)
              g == Stopped(w.f, {op.new})
              v == [w EXCEPT !.f = g]
  <2>1. Sound(w) /\ Follows(h, w.f)  BY <1>2, TimedOutFollows
  <2>2. Become(v)  BY <1>7
  <2>. HIDE DEF w, h
  <2>3. /\ g \in FacadeType /\ Shape(g) /\ Fence(g)
        /\ MediaInv => Media(g, {}) /\ AcceptedOnce(g, down, server)
    BY <1>2, <2>1, StoppedSound DEF Sound, Worlds, Follows
  <2>. HIDE DEF g
  <2>4. Sound(v) /\ v.f = g  BY <2>1, <2>3 DEF Sound, Worlds
  <2>. HIDE DEF v
  <2>. QED  BY <1>1, <2>2, <2>3, <2>4, BecomeStep DEF Kept
<1>. QED  BY <1>5, <1>6, <1>7 DEF ShareReplaced, without, shared

LEMMA ShareClearedStep ==
    ASSUME CallFacadeAssumption, FenceInv, NEW i \in DOMAIN f.ops, ShareCleared(i)
    PROVE  Kept
<1>. DEFINE op == f.ops[i]
            h == Done(f, i)
<1>1. op.at = "clear" /\ Quietly  BY DEF ShareCleared, Runs, Quietly
<1>2. Sound(With(h)) /\ With(h).f = h /\ Follows(h, h)  BY DoneFacts DEF Follows
<1>3. LET w == SendRequest(With(h), "signal", op.gen) IN Sound(w) /\ Follows(h, w.f)
  BY <1>2, SendRequestFollows DEF Asks
<1>4. LET w == TimedOut(With(h), op) IN Sound(w) /\ Follows(h, w.f)
  BY <1>2, TimedOutFollows
<1>5. PICK w \in {With(h), SendRequest(With(h), "signal", op.gen), TimedOut(With(h), op)} :
         Become(w)
  BY DEF ShareCleared
<1>6. Sound(w) /\ Follows(h, w.f)  BY <1>2, <1>3, <1>4
<1>. QED  BY <1>1, <1>5, <1>6, DoneStep

\* The browser ends a screen that was shared, or that still waits for its sender.
LEMMA ScreenEndsStep ==
    ASSUME CallFacadeAssumption, FenceInv, NEW c \in Captures, ScreenEnds(c)
    PROVE  Kept
<1>. DEFINE g == Stopped(f, {c})
<1>1. PICK own \in {[gen |-> f.gen, conn |-> f.conn] : x \in {f.screen} \cap {c}}
                     \cup {[gen |-> op.gen, conn |-> op.conn] :
                             op \in {o \in ToSet(f.ops) : o.at = "replace" /\ o.new = c}} :
            f' = Enqueue(g, [Op("unshare", "queued", own.gen, 0, c) EXCEPT !.conn = own.conn])
  BY DEF ScreenEnds
<1>2. f \in FacadeType /\ f.gen \in Gens /\ f.conn \in Gens  BY FacadeFacts DEF FacadeType
<1>3. own.gen \in Gens /\ own.conn \in Gens /\ own.gen <= f.gen
  <2>1. CASE own = [gen |-> f.gen, conn |-> f.conn]  BY <1>2, <2>1 DEF Gens
  <2>2. CASE \E op \in ToSet(f.ops) : own = [gen |-> op.gen, conn |-> op.conn]
    <3>1. PICK i \in DOMAIN f.ops : own = [gen |-> f.ops[i].gen, conn |-> f.ops[i].conn]
      BY <2>2 DEF ToSet
    <3>2. f.ops[i] \in Operation /\ f.ops[i].gen <= f.gen  BY DoneFacts
    <3>. QED  BY <3>1, <3>2 DEF Operation
  <2>. QED  BY <2>1, <2>2
<1>. DEFINE new == Op("unshare", "queued", own.gen, 0, c)
            op == [new EXCEPT !.conn = own.conn]
<1>4. /\ new \in Operation /\ new.kind = "unshare" /\ new.at = "queued" /\ new.chain = f.gen
      /\ new.gen = own.gen /\ new.new = c
  BY <1>3, OpFacts
<1>5. f' = Enqueue(g, op) /\ Quietly /\ UNCHANGED up  BY <1>1 DEF ScreenEnds, Quietly
<1>. HIDE DEF new
<1>6. /\ op \in Operation /\ op.kind = "unshare" /\ op.at = "queued" /\ op.chain = f.gen
      /\ op.gen = own.gen /\ op.new = c
  BY <1>3, <1>4 DEF Operation
<1>. HIDE DEF op
<1>7. /\ g \in FacadeType /\ g = [f EXCEPT !.live = g.live, !.loud = g.loud]
      /\ g.live = f.live \ {c}
      /\ Shape(g) /\ Fence(g)
  BY FacadeFacts, StoppedSound
<1>8. MediaInv => Media(g, {}) /\ AcceptedOnce(g, down, server)
  BY <1>2, StoppedSound DEF MediaInv
<1>. HIDE DEF g
<1>9. g.gen = f.gen  BY <1>2, <1>7 DEF FacadeType
<1>10. f' \in FacadeType /\ LikeButOps(g, f') /\ f'.ops = Append(g.ops, op)
  BY <1>5, <1>6, <1>7, EnqueueFacts
<1>11. /\ Shape(f') /\ Fence(f')
       /\ Media(g, {}) => Media(f', {})
       /\ AcceptedOnce(g, down, server) => AcceptedOnce(f', down, server)
  BY <1>3, <1>6, <1>7, <1>9, <1>10, AppendedSound
<1>. QED  BY <1>5, <1>8, <1>10, <1>11, FacadeStep DEF Kept

LEMMA ConnectionStep ==
    ASSUME CallFacadeAssumption, FenceInv, Connection
    PROVE  Kept
<1>1. f \in FacadeType /\ Shape(f) /\ Fence(f) /\ Quietly
  BY FacadeFacts DEF Connection, Quietly
<1>2. CASE Become(SetError(World, f.gen))
  <2>1. Sound(World) /\ World.f = f  BY WorldSound
  <2>2. LET w == SetError(World, f.gen) IN Sound(w) /\ Follows(f, w.f)
    BY <2>1, SetErrorFollows
  <2>. QED  BY <1>1, <1>2, <2>2, BecomeStep DEF Kept, Follows, MediaInv
<1>3. CASE f.phase = "connecting" /\ f' = [f EXCEPT !.phase = "active"] /\ UNCHANGED up
  <2>1. f' \in FacadeType  BY <1>1, <1>3 DEF FacadeType, Ongoing
  <2>2. /\ f'.phase = "active" /\ f'.role = f.role /\ f'.call = f.call /\ f'.gen = f.gen
        /\ f'.stream = f.stream /\ f'.screen = f.screen /\ f'.conn = f.conn
        /\ f'.timer = f.timer /\ f'.retired = f.retired /\ f'.live = f.live
        /\ f'.open = f.open /\ f'.waits = f.waits /\ f'.ops = f.ops /\ f'.closed = f.closed
    BY <1>1, <1>3 DEF FacadeType
  <2>3. Shape(f') /\ Fence(f')
    BY <1>1, <1>3, <2>2 DEF Shape, Fence, AcceptedKnown, Over
  <2>4. MediaInv => Media(f', {}) /\ AcceptedOnce(f', down, server)
    BY <2>2 DEF MediaInv, Media, Owned, Selections, Chained, Picking, AcceptedOnce, Accepting
  <2>. QED  BY <1>1, <1>3, <2>1, <2>3, <2>4, FacadeStep DEF Kept
<1>. QED  BY <1>2, <1>3 DEF Connection

-----------------------------------------------------------------------------
(* Events.                                                                 *)

LEMMA EventFacts ==
    ASSUME FenceInv, NEW e \in down
    PROVE  /\ e \in Event /\ e.call \in CallIds \cup {0} /\ e.conv \in Conversations \cup {0}
           /\ e.type = "accepted" => e.call # 0
  BY DEF FenceInv, TypeOK, Event, Answered

\* An event that is taken is not delivered again.
LEMMA TakenOnce ==
    ASSUME NEW e, NEW g, NEW s, AcceptedOnce(g, down, s)
    PROVE  AcceptedOnce(g, down \ {e}, s)
<1>1. \A c : Accepts(down \ {e}, c) \subseteq Accepts(down, c)  BY DEF Accepts
<1>. QED  BY <1>1 DEF AcceptedOnce

LEMMA EventStep ==
    ASSUME CallFacadeAssumption, FenceInv, NEW e \in down, down' = down \ {e},
           UNCHANGED <<server, ready, spent>>, NEW w, Sound(w), Become(w)
    PROVE  /\ FenceInv'
           /\ Media(w.f, {}) /\ AcceptedOnce(w.f, down \ {e}, server) => MediaInv'
<1>1. f' = w.f /\ up' = w.up  BY DEF Become
<1>2. down' \subseteq Event  BY EventFacts DEF FenceInv, TypeOK
<1>3. TypeOK'  BY <1>1, <1>2 DEF FenceInv, TypeOK, Sound, Worlds
<1>4. Shape(f') /\ Fence(f') /\ Asked(up')  BY <1>1 DEF Sound
<1>5. Answered(down', server')  BY DEF FenceInv, Answered
<1>. QED  BY <1>1, <1>3, <1>4, <1>5 DEF FenceInv, MediaInv

\* An event that a handler answers without another operation.
LEMMA AnswerStep ==
    ASSUME CallFacadeAssumption, FenceInv, NEW e \in down, down' = down \ {e},
           UNCHANGED <<server, ready, spent>>, NEW w, Sound(w), Become(w),
           NEW g, Follows(g, w.f),
           MediaInv => Media(g, {}) /\ AcceptedOnce(g, down, server)
    PROVE  Kept
<1>1. MediaInv => Media(w.f, {}) /\ AcceptedOnce(w.f, down \ {e}, server)
  BY TakenOnce DEF Follows
<1>. QED  BY <1>1, EventStep DEF Kept

LEMMA RejectedStep ==
    ASSUME CallFacadeAssumption, FenceInv, NEW e \in down, down' = down \ {e},
           UNCHANGED <<server, ready, spent>>, Rejected(e)
    PROVE  Kept
<1>. DEFINE reqs == f.reqs \ {e.of}
            g == [f EXCEPT !.reqs = reqs]
<1>1. f \in FacadeType  BY FacadeFacts
<1>2. g \in FacadeType /\ Alike(f, g)
  <2>1. reqs \in SUBSET (Asks \X Gens)  BY <1>1 DEF FacadeType
  <2>. HIDE DEF reqs
  <2>. QED  BY <1>1, <2>1 DEF FacadeType, Alike, LikeButOps
<1>3. g = [f EXCEPT !.reqs = @ \ {e.of}]  BY <1>1 DEF FacadeType
<1>4. PICK w \in {SetError(With(g), e.of[2]), With(g)} : Become(w)
  BY <1>3 DEF Rejected
<1>. HIDE DEF g
<1>5. /\ Shape(g) /\ Fence(g)
      /\ MediaInv => Media(g, {}) /\ AcceptedOnce(g, down, server)
  BY <1>2, AlikeKept DEF FenceInv, MediaInv
<1>6. Sound(With(g)) /\ With(g).f = g /\ Follows(g, g)  BY <1>2, <1>5, WithSound DEF Follows
<1>7. Sound(w) /\ Follows(g, w.f)  BY <1>4, <1>6, SetErrorFollows
<1>. QED  BY <1>4, <1>5, <1>7, AnswerStep

LEMMA IncomingStep ==
    ASSUME CallFacadeAssumption, FenceInv, NEW e \in down, down' = down \ {e},
           UNCHANGED <<server, ready, spent>>, ~f.closed, Incoming(e)
    PROVE  Kept
<1>1. /\ f \in FacadeType /\ Shape(f) /\ Fence(f) /\ Sound(World) /\ World.f = f
      /\ e.call \in CallIds \cup {0} /\ e.conv \in Conversations \cup {0}
      /\ Follows(f, f)
  BY FacadeFacts, WorldSound, EventFacts DEF Follows
<1>2. CASE Become(World)  BY <1>1, <1>2, AnswerStep DEF MediaInv
<1>3. CASE Become(Send(World, "decline", e.call))
  <2>1. Sound(Send(World, "decline", e.call)) /\ Send(World, "decline", e.call).f = f
    BY <1>1, SendSound DEF Asks
  <2>. QED  BY <1>1, <1>3, <2>1, AnswerStep DEF MediaInv
<1>. DEFINE g == [f EXCEPT !.timer = FALSE, !.phase = "incoming", !.role = "recipient",
                           !.call = e.call, !.conv = e.conv, !.muted = FALSE]
<1>4. CASE e.call \notin f.retired /\ f.phase \in Over /\ Become(With(g))
  <2>1. g \in FacadeType
    <3>. DEFINE call == e.call
                conv == e.conv
                h == [f EXCEPT !.timer = FALSE, !.phase = "incoming", !.role = "recipient",
                               !.call = call, !.conv = conv, !.muted = FALSE]
    <3>1. call \in CallIds \cup {0} /\ conv \in Conversations \cup {0} /\ f \in FacadeType
      BY <1>1
    <3>. HIDE DEF call, conv
    <3>2. h \in FacadeType  BY ZenonT(60), <3>1 DEF FacadeType, Ongoing
    <3>. QED  BY <3>2 DEF call, conv
  <2>2. /\ g.phase = "incoming" /\ g.role = "recipient" /\ g.call = e.call /\ g.gen = f.gen
        /\ g.stream = f.stream /\ g.screen = f.screen /\ g.conn = f.conn
        /\ g.timer = FALSE /\ g.retired = f.retired /\ g.live = f.live
        /\ g.open = f.open /\ g.waits = f.waits /\ g.ops = f.ops /\ g.closed = f.closed
    BY <1>1 DEF FacadeType
  <2>. HIDE DEF g
  <2>3. f.phase # "requesting" /\ f.call = 0 /\ f.stream = 0  BY <1>1, <1>4 DEF Shape, Over
  <2>4. Shape(g)  BY <1>1, <1>4, <2>2 DEF Shape, Over
  <2>5. Fence(g)
    <3>1. \A i \in DOMAIN f.ops : f.ops[i].kind = "accepted" => AcceptedKnown(g, f.ops[i])
      BY <1>1, <1>4, <2>2, <2>3 DEF Fence, AcceptedKnown
    <3>. QED  BY <1>1, <2>2, <2>3, <3>1 DEF Fence
  <2>6. Sound(With(g)) /\ With(g).f = g  BY <2>1, <2>4, <2>5, WithSound
  <2>7. MediaInv => Media(g, {}) /\ AcceptedOnce(g, down, server)
    BY <2>2, <2>3 DEF MediaInv, Media, Owned, Selections, Chained, Picking, AcceptedOnce,
                      Accepting
  <2>8. Follows(g, With(g).f)  BY <2>6 DEF Follows
  <2>. QED  BY <1>4, <2>6, <2>7, <2>8, AnswerStep
<1>. QED  BY <1>2, <1>3, <1>4 DEF Incoming, CanStart

\* The call that is named is new: no operation is of it.
LEMMA NamedSound ==
    ASSUME FenceInv, NEW e \in down, ~f.closed, Names(e)
    PROVE  /\ Named(e) \in FacadeType /\ Shape(Named(e)) /\ Fence(Named(e))
           /\ Named(e).ops = f.ops /\ Named(e).gen = f.gen /\ Named(e).call = e.call
           /\ Named(e).role = "caller"
           /\ MediaInv => Media(Named(e), {}) /\ AcceptedOnce(Named(e), down, server)
<1>. DEFINE reqs == f.reqs \ {<<"start", f.gen>>}
            g == [f EXCEPT !.call = e.call, !.reqs = reqs]
<1>1. f \in FacadeType /\ Shape(f) /\ Fence(f) /\ e.call \in CallIds \cup {0}
  BY FacadeFacts, EventFacts
<1>2. f.call = 0 /\ f.role = "caller" /\ f.phase = "outgoing" /\ e.call \notin f.retired
  BY DEF Names
<1>3. Named(e) = g  BY <1>1 DEF Named, FacadeType
<1>4. reqs \in SUBSET (Asks \X Gens)  BY <1>1 DEF FacadeType
<1>. HIDE DEF reqs
<1>5. g \in FacadeType  BY <1>1, <1>4 DEF FacadeType
<1>6. /\ g.phase = f.phase /\ g.role = f.role /\ g.call = e.call /\ g.gen = f.gen
      /\ g.stream = f.stream /\ g.screen = f.screen /\ g.conn = f.conn /\ g.timer = f.timer
      /\ g.retired = f.retired /\ g.live = f.live /\ g.open = f.open
      /\ g.waits = f.waits /\ g.ops = f.ops /\ g.closed = f.closed
  BY <1>1 DEF FacadeType
<1>. HIDE DEF g
<1>7. \A i \in DOMAIN f.ops : f.ops[i].kind = "accepted" =>
         f.ops[i].call \in f.retired /\ f.ops[i].call # e.call /\ f.ops[i].call # 0
  BY <1>1, <1>2 DEF Fence, AcceptedKnown
<1>8. Shape(g)  BY <1>1, <1>2, <1>6 DEF Shape, Over
<1>9. Fence(g)
  <2>1. \A i \in DOMAIN f.ops : f.ops[i].kind = "accepted" => AcceptedKnown(g, f.ops[i])
    BY <1>6, <1>7 DEF AcceptedKnown
  <2>. QED  BY <1>1, <1>6, <2>1 DEF Fence
<1>10. MediaInv => Media(g, {}) /\ AcceptedOnce(g, down, server)
  BY <1>2, <1>6, <1>7
  DEF MediaInv, Media, Owned, Selections, Chained, Picking, AcceptedOnce, Accepting
<1>. QED  BY <1>2, <1>3, <1>5, <1>6, <1>8, <1>9, <1>10

LEMMA RingingStep ==
    ASSUME CallFacadeAssumption, FenceInv, NEW e \in down, down' = down \ {e},
           UNCHANGED <<server, ready, spent>>, ~f.closed, Ringing(e)
    PROVE  Kept
<1>1. /\ f \in FacadeType /\ Shape(f) /\ Fence(f) /\ Sound(World) /\ World.f = f
      /\ e.call \in CallIds \cup {0} /\ e.conv \in Conversations \cup {0}
      /\ Follows(f, f)
  BY FacadeFacts, WorldSound, EventFacts DEF Follows
<1>2. CASE Become(World)  BY <1>1, <1>2, AnswerStep DEF MediaInv
<1>3. ASSUME NEW k \in FacadeType, Shape(k), Fence(k),
             MediaInv => Media(k, {}) /\ AcceptedOnce(k, down, server)
      PROVE  LET g == [k EXCEPT !.orphans = @ \ {e.conv}] IN
             /\ Sound(With(g)) /\ With(g).f = g
             /\ MediaInv => Media(g, {}) /\ AcceptedOnce(g, down, server)
  <2>. DEFINE orphans == k.orphans \ {e.conv}
              g == [k EXCEPT !.orphans = orphans]
  <2>1. orphans \in SUBSET Conversations  BY <1>3 DEF FacadeType
  <2>2. g = [k EXCEPT !.orphans = @ \ {e.conv}]  BY <1>3 DEF FacadeType
  <2>. HIDE DEF orphans
  <2>3. g \in FacadeType /\ Alike(k, g)  BY <1>3, <2>1 DEF FacadeType, Alike, LikeButOps
  <2>. HIDE DEF g
  <2>4. /\ Shape(g) /\ Fence(g)
        /\ MediaInv => Media(g, {}) /\ AcceptedOnce(g, down, server)
    BY <1>3, <2>3, AlikeKept
  <2>5. Sound(With(g)) /\ With(g).f = g  BY <2>3, <2>4, WithSound
  <2>. QED  BY <2>2, <2>4, <2>5
<1>4. CASE Names(e) /\ Become(With([Named(e) EXCEPT !.orphans = @ \ {e.conv}]))
  <2>. DEFINE g == [Named(e) EXCEPT !.orphans = @ \ {e.conv}]
  <2>1. /\ Sound(With(g)) /\ With(g).f = g
        /\ MediaInv => Media(g, {}) /\ AcceptedOnce(g, down, server)
    BY <1>3, <1>4, NamedSound
  <2>2. Become(With(g))  BY <1>4
  <2>. HIDE DEF g
  <2>3. Follows(g, With(g).f)  BY <2>1 DEF Follows
  <2>. QED  BY <2>1, <2>2, <2>3, AnswerStep
<1>5. CASE Become(Send(With([f EXCEPT !.orphans = @ \ {e.conv}]), "cancel", e.call))
  <2>. DEFINE g == [f EXCEPT !.orphans = @ \ {e.conv}]
              w == Send(With(g), "cancel", e.call)
  <2>1. /\ Sound(With(g)) /\ With(g).f = g
        /\ MediaInv => Media(g, {}) /\ AcceptedOnce(g, down, server)
    BY <1>1, <1>3 DEF MediaInv
  <2>2. Become(w)  BY <1>5
  <2>. HIDE DEF g
  <2>3. Sound(w) /\ w.f = g  BY <1>1, <2>1, SendSound DEF Asks
  <2>4. Follows(g, w.f)  BY <2>3 DEF Follows
  <2>. HIDE DEF w
  <2>. QED  BY <2>1, <2>2, <2>3, <2>4, AnswerStep
<1>. QED  BY <1>2, <1>4, <1>5 DEF Ringing

LEMMA SignalStep ==
    ASSUME CallFacadeAssumption, FenceInv, NEW e \in down, down' = down \ {e},
           UNCHANGED <<server, ready, spent>>, Signal(e)
    PROVE  Kept
<1>. DEFINE op == Op("signal", "queued", f.gen, e.call, 0)
<1>1. /\ f \in FacadeType /\ Shape(f) /\ Fence(f) /\ Sound(World) /\ World.f = f
      /\ World.up = up /\ f.gen \in Gens /\ e.call \in CallIds \cup {0} /\ 0 \notin f.live
  BY FacadeFacts, WorldSound, EventFacts DEF FacadeType, Captures
<1>2. /\ op \in Operation /\ op.kind = "signal" /\ op.at = "queued" /\ op.chain = f.gen
      /\ op.gen = f.gen /\ op.new = 0
  BY <1>1, OpFacts
<1>. HIDE DEF op
<1>3. CASE f' = f
  <2>1. Become(World)  BY <1>1, <1>3 DEF Signal, Become
  <2>. QED  BY <1>1, <2>1, AnswerStep DEF Follows, MediaInv
<1>4. CASE f' = Enqueue(f, op)
  <2>. DEFINE g == Enqueue(f, op)
  <2>1. g \in FacadeType /\ LikeButOps(f, g) /\ g.ops = Append(f.ops, op)
    BY <1>1, <1>2, EnqueueFacts
  <2>2. op.gen <= f.gen  BY <1>1, <1>2 DEF Gens
  <2>. HIDE DEF g
  <2>3. /\ Shape(g) /\ Fence(g)
        /\ Media(f, {}) => Media(g, {})
        /\ AcceptedOnce(f, down, server) => AcceptedOnce(g, down, server)
    BY <1>1, <1>2, <2>1, <2>2, AppendedSound
  <2>4. Sound(With(g)) /\ With(g).f = g /\ With(g).up = up  BY <2>1, <2>3, WithSound
  <2>5. Become(With(g))  BY <1>4, <2>4 DEF Signal, Become, g
  <2>. QED  BY <2>3, <2>4, <2>5, AnswerStep DEF Follows, MediaInv
<1>. QED  BY <1>3, <1>4 DEF Signal, op

LEMMA EndedStep ==
    ASSUME CallFacadeAssumption, FenceInv, NEW e \in down, down' = down \ {e},
           UNCHANGED <<server, ready, spent>>, Ended(e)
    PROVE  Kept
<1>1. Sound(World) /\ World.f = f /\ Follows(f, f)  BY WorldSound DEF Follows
<1>2. LET w == Terminal(World, f.gen) IN Sound(w) /\ Follows(f, w.f)
  BY <1>1, TerminalFollows
<1>3. PICK w \in {World, Terminal(World, f.gen)} : Become(w)  BY DEF Ended
<1>4. Sound(w) /\ Follows(f, w.f)  BY <1>1, <1>2, <1>3
<1>. QED  BY <1>3, <1>4, AnswerStep DEF MediaInv

\* The event of an accepted call becomes the operation that stands for it.
LEMMA AcceptedStep ==
    ASSUME CallFacadeAssumption, FenceInv, NEW e \in down, down' = down \ {e},
           UNCHANGED <<server, ready, spent>>, ~f.closed, Accepted(e)
    PROVE  Kept
<1>. DEFINE g == IF Names(e) /\ f.stream # 0 /\ <<"start", f.gen>> \in f.reqs
                   THEN Named(e) ELSE f
            op == Op("accepted", "queued", f.gen, e.call, 0)
<1>1. /\ f \in FacadeType /\ Shape(f) /\ Fence(f) /\ Sound(World) /\ World.f = f
      /\ World.up = up /\ f.gen \in Gens /\ e.call \in CallIds
  <2>1. /\ f \in FacadeType /\ Shape(f) /\ Fence(f) /\ Sound(World) /\ World.f = f
        /\ World.up = up
    BY FacadeFacts, WorldSound
  <2>2. e.call \in CallIds  BY EventFacts DEF Accepted
  <2>. QED  BY <2>1, <2>2 DEF FacadeType
<1>2. /\ op \in Operation /\ op.kind = "accepted" /\ op.at = "queued" /\ op.chain = f.gen
      /\ op.gen = f.gen /\ op.new = 0 /\ op.call = e.call
  BY <1>1, OpFacts
<1>3. /\ g \in FacadeType /\ Shape(g) /\ Fence(g) /\ g.ops = f.ops /\ g.gen = f.gen
      /\ MediaInv => Media(g, {}) /\ AcceptedOnce(g, down, server)
  BY <1>1, NamedSound DEF MediaInv
<1>. HIDE DEF g, op
<1>4. e.type = "accepted" /\ e.call # 0  BY <1>1 DEF Accepted, CallIds
<1>5. CASE f' = f
  <2>1. Become(World)  BY <1>1, <1>5 DEF Accepted, Become
  <2>. QED  BY <1>1, <2>1, AnswerStep DEF Follows, MediaInv
<1>6. CASE g.call = e.call /\ f' = Enqueue(g, op)
  <2>. DEFINE h == Enqueue(g, op)
  <2>1. h \in FacadeType /\ LikeButOps(g, h) /\ h.ops = Append(g.ops, op)
    BY <1>2, <1>3, EnqueueFacts
  <2>2. op.gen <= g.gen /\ op.chain = g.gen /\ AcceptedKnown(g, op) /\ 0 \notin g.live
    BY <1>1, <1>2, <1>3, <1>4, <1>6 DEF Gens, AcceptedKnown, FacadeType, Captures
  <2>. HIDE DEF h
  <2>3. Shape(h) /\ Fence(h) /\ (Media(g, {}) => Media(h, {}))
    BY <1>2, <1>3, <2>1, <2>2, AppendedSound
  <2>4. ASSUME AcceptedOnce(g, down, server)  PROVE AcceptedOnce(h, down \ {e}, server)
    <3>1. e \in Accepts(down, e.call)  BY <1>4 DEF Accepts
    <3>2. /\ Past(server, e.call) /\ Accepting(g, e.call) = {}
          /\ Accepts(down \ {e}, e.call) = {}
      <4>1. \A d \in Accepts(down, e.call) : d = e  BY <1>1, <2>4, <3>1 DEF AcceptedOnce
      <4>2. Accepts(down \ {e}, e.call) \subseteq Accepts(down, e.call) \ {e}  BY DEF Accepts
      <4>. QED  BY SMTT(30), <1>1, <2>4, <3>1, <4>1, <4>2 DEF AcceptedOnce
    <3>3. \A c : Accepts(down \ {e}, c) \subseteq Accepts(down, c)  BY DEF Accepts
    <3>4. /\ DOMAIN g.ops = 1 .. Len(g.ops) /\ Len(g.ops) \in Nat
          /\ DOMAIN h.ops = 1 .. Len(g.ops) + 1 /\ h.ops[Len(g.ops) + 1] = op
          /\ \A j \in 1 .. Len(g.ops) : h.ops[j] = g.ops[j]
      BY <1>2, <1>3, <2>1, OpsFacts, AppendFacts
    <3>5. \A j \in DOMAIN h.ops : j \in DOMAIN g.ops \/ j = Len(g.ops) + 1  BY <3>4
    <3>6. \A j \in DOMAIN g.ops : j \in DOMAIN h.ops /\ h.ops[j] = g.ops[j]  BY <3>4
    <3>7. \A c : c # e.call => Accepting(h, c) = Accepting(g, c)
      BY <1>2, <3>4, <3>5, <3>6 DEF Accepting
    <3>8. \A j \in Accepting(h, e.call) : j = Len(g.ops) + 1
      BY <3>2, <3>5, <3>6 DEF Accepting
    <3>9. ~(g.role = "recipient" /\ g.stream # 0)
      BY <1>6, <2>4, <3>1 DEF AcceptedOnce
    <3>10. h.role = g.role /\ h.stream = g.stream  BY <2>1 DEF LikeButOps
    <3>11. server.call <= server.last  BY <2>4 DEF AcceptedOnce
    <3>12. ASSUME NEW c \in CallIds
           PROVE  /\ Accepts(down \ {e}, c) # {} \/ Accepting(h, c) # {} => Past(server, c)
                  /\ Accepts(down \ {e}, c) = {} \/ Accepting(h, c) = {}
                  /\ \A e1, e2 \in Accepts(down \ {e}, c) : e1 = e2
                  /\ \A i1, i2 \in Accepting(h, c) : i1 = i2
      <4>1. CASE c = e.call  BY <3>2, <3>8, <4>1
      <4>2. CASE c # e.call  BY <2>4, <3>3, <3>7, <4>2 DEF AcceptedOnce
      <4>. QED  BY <4>1, <4>2
    <3>. QED  BY <3>9, <3>10, <3>11, <3>12 DEF AcceptedOnce
  <2>5. Sound(With(h)) /\ With(h).f = h /\ With(h).up = up  BY <2>1, <2>3, WithSound
  <2>6. Become(With(h))  BY <1>6, <2>5 DEF Accepted, Become, h
  <2>. QED  BY <1>3, <2>3, <2>4, <2>5, <2>6, EventStep DEF Kept
<1>. QED  BY <1>5, <1>6 DEF Accepted, g, op

LEMMA HandleEventStep ==
    ASSUME CallFacadeAssumption, FenceInv, NEW e \in down, HandleEvent(e)
    PROVE  Kept
  BY RejectedStep, IncomingStep, RingingStep, AcceptedStep, SignalStep, EndedStep
  DEF HandleEvent

-----------------------------------------------------------------------------
(* The transport.                                                          *)

\* Nothing can be sent once the connection is lost.
LEMMA DropStep ==
    ASSUME CallFacadeAssumption, FenceInv, Drop
    PROVE  Kept
<1>. DEFINE lost == [World EXCEPT !.ready = FALSE]
            orphans == f.orphans \cup {f.conv}
            g == IF f.call = 0 /\ f.conv # 0 THEN [f EXCEPT !.orphans = orphans] ELSE f
            r == [type |-> "lost", call |-> 0, conv |-> 0, gen |-> 0]
            w == Lose
<1>1. f \in FacadeType /\ Sound(World) /\ World.f = f /\ Follows(f, f)
  BY FacadeFacts, WorldSound DEF Follows
<1>2. Sound(lost) /\ lost.f = f
  BY <1>1 DEF Sound, Worlds
<1>3. g \in FacadeType /\ Alike(f, g)
  <2>1. f.conv # 0 => orphans \in SUBSET Conversations  BY <1>1 DEF FacadeType
  <2>2. Alike(f, f)  BY DEF Alike, LikeButOps
  <2>. HIDE DEF orphans
  <2>3. f.conv # 0 => LET h == [f EXCEPT !.orphans = orphans] IN h \in FacadeType /\ Alike(f, h)
    BY <1>1, <2>1 DEF FacadeType, Alike, LikeButOps
  <2>. QED  BY <1>1, <2>2, <2>3
<1>4. w = IF f.phase \in Ongoing /\ ~f.closed THEN SetError([lost EXCEPT !.f = g], f.gen) ELSE lost
  BY <1>1 DEF Lose, FacadeType
<1>. HIDE DEF g, lost
<1>5. Shape(g) /\ Fence(g) /\ Follows(f, g)
  BY <1>3, AlikeKept DEF FenceInv, Follows, Alike, LikeButOps
<1>6. Sound([lost EXCEPT !.f = g]) /\ [lost EXCEPT !.f = g].f = g
  BY <1>2, <1>3, <1>5 DEF Sound, Worlds
<1>7. LET v == SetError([lost EXCEPT !.f = g], f.gen) IN Sound(v) /\ Follows(g, v.f)
  BY <1>6, SetErrorFollows
<1>8. Sound(w) /\ Follows(f, w.f)  BY <1>1, <1>2, <1>4, <1>5, <1>7 DEF Follows
<1>9. f' = w.f /\ up' = Append(up, r) /\ down' = {} /\ ready' = FALSE /\ server' = server
  BY DEF Drop
<1>. HIDE DEF w
<1>10. r \in Request /\ r.type # "accept"  BY DEF Request, Asks, Gens
<1>11. up \in Seq(Request) /\ Asked(up)  BY DEF FenceInv, TypeOK
<1>. HIDE DEF r
<1>12. up' \in Seq(Request) /\ Asked(up')  BY <1>9, <1>10, <1>11, AppendAsked
<1>13. spent' \in 0 .. MaxEffort  BY SpendType DEF FenceInv, Drop
<1>14. TypeOK'  BY <1>8, <1>9, <1>12, <1>13 DEF FenceInv, TypeOK, Sound, Worlds
<1>15. Shape(f') /\ Fence(f') /\ Answered(down', server')
  BY <1>8, <1>9 DEF FenceInv, Sound, Answered
<1>16. ASSUME MediaInv  PROVE MediaInv'
  <2>1. Media(f', {}) /\ AcceptedOnce(f', down, server)  BY <1>8, <1>9, <1>16 DEF MediaInv, Follows
  <2>2. \A c : Accepts({}, c) = {}  BY DEF Accepts
  <2>3. AcceptedOnce(f', {}, server)  BY <2>1, <2>2 DEF AcceptedOnce
  <2>. QED  BY <1>9, <2>1, <2>3 DEF MediaInv
<1>. QED  BY <1>12, <1>14, <1>15, <1>16 DEF Kept, FenceInv

LEMMA RecoverStep ==
    ASSUME FenceInv, Recover
    PROVE  Kept
<1>1. f' = f /\ up' = up /\ down' = down /\ server' = server /\ spent' = spent /\ ready' = TRUE
  BY DEF Recover
<1>. QED  BY <1>1 DEF Kept, FenceInv, TypeOK, MediaInv

-----------------------------------------------------------------------------
(* The server.                                                             *)

LEMMA ServerFacts ==
    ASSUME CallFacadeAssumption, FenceInv
    PROVE  /\ server \in ServerType /\ MaxCalls \in Nat
           /\ server.call \in CallIds \cup {0} /\ server.conv \in Conversations \cup {0}
           /\ server.last \in CallIds \cup {0} /\ server.last \in Nat
           /\ server.mine => server.call # 0
  BY DEF CallFacadeAssumption, FenceInv, TypeOK, ServerType, CallIds, Answered

LEMMA NoteFacts ==
    ASSUME NEW type \in {"incoming", "ringing", "accepted", "ended", "signal", "rejected"},
           NEW call \in CallIds \cup {0}, NEW conv \in Conversations \cup {0}
    PROVE  LET e == Note(type, call, conv) IN e \in Event /\ e.type = type /\ e.call = call
  BY DEF Note, Event

\* What the server says is delivered, unless nobody listens.
LEMMA EmitFacts ==
    ASSUME NEW e, Emit(e)
    PROVE  down' = down \/ down' = down \cup {e}
  BY DEF Emit

\* A step of the server leaves the facade alone.
LEMMA ServerStep ==
    ASSUME CallFacadeAssumption, FenceInv, UNCHANGED <<f, ready>>,
           Spend \/ UNCHANGED spent,
           up' \in Seq(Request), Asked(up'),
           server' \in ServerType, server'.mine => server'.call # 0,
           NEW e \in Event, e.type = "accepted" => e.call # 0,
           down' = down \/ down' = down \cup {e}
    PROVE  /\ FenceInv'
           /\ AcceptedOnce(f, down', server') /\ MediaInv => MediaInv'
<1>1. spent' \in 0 .. MaxEffort  BY SpendType DEF FenceInv
<1>2. TypeOK'  BY <1>1 DEF FenceInv, TypeOK
<1>3. Answered(down', server')  BY DEF FenceInv, Answered
<1>. QED  BY <1>2, <1>3 DEF FenceInv, MediaInv

\* What is past stays so, and nothing else was accepted.
LEMMA PastKept ==
    ASSUME AcceptedOnce(f, down, server), NEW e, e.type # "accepted",
           down' = down \/ down' = down \cup {e},
           server'.call <= server'.last,
           \A c : Past(server, c) => Past(server', c)
    PROVE  AcceptedOnce(f, down', server')
<1>1. \A c : Accepts(down', c) = Accepts(down, c)  BY DEF Accepts
<1>. QED  BY <1>1 DEF AcceptedOnce

\* The one event of a call that is accepted.
LEMMA PastAccepted ==
    ASSUME FenceInv, AcceptedOnce(f, down, server), NEW e, e.type = "accepted",
           e.call = server.call, server.call \in CallIds, ~server.accepted,
           down' = down \/ down' = down \cup {e},
           server' = [server EXCEPT !.accepted = TRUE]
    PROVE  AcceptedOnce(f, down', server')
<1>. DEFINE k == server.call
<1>1. server \in ServerType  BY DEF FenceInv, TypeOK
<1>2. server'.call = k /\ server'.last = server.last /\ server'.accepted = TRUE
  BY <1>1 DEF ServerType
<1>3. k \in Nat \ {0} /\ server.last \in Nat /\ k <= server.last
  BY <1>1 DEF ServerType, CallIds, AcceptedOnce
<1>4. ~Past(server, k) /\ Past(server', k)  BY <1>2, <1>3 DEF Past
<1>5. \A c : Past(server, c) => Past(server', c) /\ c # k  BY <1>2, <1>4 DEF Past
<1>6. Accepts(down, k) = {} /\ Accepting(f, k) = {}
  BY <1>4 DEF AcceptedOnce
<1>7. \A c : c # k => Accepts(down', c) = Accepts(down, c)  BY DEF Accepts
<1>8. \A d \in Accepts(down', k) : d = e  BY <1>6 DEF Accepts
<1>9. ASSUME NEW c \in CallIds
      PROVE  /\ Accepts(down', c) # {} \/ Accepting(f, c) # {} => Past(server', c)
             /\ Accepts(down', c) = {} \/ Accepting(f, c) = {}
             /\ \A e1, e2 \in Accepts(down', c) : e1 = e2
             /\ \A i1, i2 \in Accepting(f, c) : i1 = i2
  <2>1. CASE c = k  BY <1>4, <1>6, <1>8, <2>1
  <2>2. CASE c # k  BY <1>5, <1>7, <2>2 DEF AcceptedOnce
  <2>. QED  BY <2>1, <2>2
<1>10. f.role = "recipient" /\ f.stream # 0 =>
          /\ Past(server', f.call)
          /\ Accepts(down', f.call) = {}
          /\ Accepting(f, f.call) = {}
  BY <1>5, <1>7 DEF AcceptedOnce
<1>11. server'.call <= server'.last  BY <1>2, <1>3
<1>. HIDE DEF k
<1>. QED  BY <1>9, <1>10, <1>11 DEF AcceptedOnce

LEMMA ReservedFacts ==
    ASSUME CallFacadeAssumption, FenceInv, server.last < MaxCalls, server.call = 0,
           NEW conv \in Conversations \cup {0}, NEW mine \in BOOLEAN, NEW gen \in Gens
    PROVE  LET s == Reserved(conv, mine, gen) IN
           /\ s \in ServerType /\ s.call # 0
           /\ server.last + 1 \in CallIds
           /\ s.call <= s.last
           /\ \A c : Past(server, c) => Past(s, c)
<1>1. server.last \in Nat /\ MaxCalls \in Nat  BY ServerFacts
<1>2. server.last + 1 \in CallIds /\ server.last + 1 # 0  BY <1>1 DEF CallIds
<1>. DEFINE n == server.last + 1
            s == Reserved(conv, mine, gen)
<1>3. s \in ServerType /\ s.call = n /\ s.last = n /\ s.accepted = FALSE
  BY <1>2 DEF Reserved, ServerType
<1>4. \A c : Past(server, c) => Past(s, c)  BY <1>1, <1>3 DEF Past
<1>. QED  BY <1>1, <1>2, <1>3, <1>4

LEMMA NoCallFacts ==
    ASSUME CallFacadeAssumption, FenceInv
    PROVE  /\ NoCall \in ServerType /\ ~NoCall.mine
           /\ NoCall.call <= NoCall.last
           /\ \A c : Past(server, c) => Past(NoCall, c)
<1>1. server \in ServerType /\ server.last \in Nat  BY ServerFacts
<1>2. /\ NoCall \in ServerType /\ NoCall.mine = FALSE /\ NoCall.call = 0
      /\ NoCall.last = server.last
  BY <1>1 DEF NoCall, ServerType, Gens
<1>. QED  BY <1>1, <1>2 DEF Past

LEMMA ServerHandlesStep ==
    ASSUME CallFacadeAssumption, FenceInv, ServerHandles
    PROVE  Kept
<1>. DEFINE r == Head(up)
<1>1. up \in Seq(Request) /\ up # <<>> /\ Asked(up)  BY DEF FenceInv, TypeOK, ServerHandles
<1>2. /\ r \in Request /\ (r.type = "accept" => r.call # 0)
      /\ up' \in Seq(Request) /\ Asked(up')
  <2>1. /\ Tail(up) \in Seq(Request) /\ r = up[1] /\ 1 \in DOMAIN up /\ r \in Request
        /\ \A i \in DOMAIN Tail(up) : i + 1 \in DOMAIN up /\ Tail(up)[i] = up[i + 1]
    BY <1>1, HeadTailProperties, LenProperties
  <2>2. up' = Tail(up)  BY DEF ServerHandles
  <2>. QED  BY <1>1, <2>1, <2>2 DEF Asked
<1>3. /\ r.type \in Asks \cup {"lost"} /\ r.call \in CallIds \cup {0}
      /\ r.conv \in Conversations \cup {0} /\ r.gen \in Gens
  BY <1>2 DEF Request
<1>. HIDE DEF r
<1>4. UNCHANGED <<f, ready>> /\ UNCHANGED spent  BY DEF ServerHandles
<1>5. /\ server \in ServerType /\ server.call \in CallIds \cup {0}
      /\ server.conv \in Conversations \cup {0} /\ (server.mine => server.call # 0)
      /\ MediaInv => AcceptedOnce(f, down, server) /\ server.call <= server.last
  BY ServerFacts DEF MediaInv, AcceptedOnce
<1>6. ASSUME NEW e \in Event, e.type # "accepted", down' = down \/ down' = down \cup {e},
             server' \in ServerType, server'.mine => server'.call # 0,
             MediaInv => server'.call <= server'.last,
             \A c : Past(server, c) => Past(server', c)
      PROVE  Kept
  BY <1>2, <1>4, <1>5, <1>6, PastKept, ServerStep DEF Kept
<1>7. CASE /\ r.type = "start" /\ Granted(r) /\ server' = Reserved(r.conv, TRUE, r.gen)
           /\ Emit(Note("ringing", server.last + 1, r.conv))
  <2>1. server.last < MaxCalls /\ server.call = 0  BY <1>7 DEF Granted
  <2>2. /\ server' \in ServerType /\ server'.call # 0 /\ server.last + 1 \in CallIds
        /\ server'.call <= server'.last
        /\ \A c : Past(server, c) => Past(server', c)
    BY <1>3, <1>7, <2>1, ReservedFacts
  <2>. DEFINE e == Note("ringing", server.last + 1, r.conv)
  <2>3. e \in Event /\ e.type = "ringing"  BY <1>3, <2>2, NoteFacts
  <2>4. down' = down \/ down' = down \cup {e}  BY <1>7, EmitFacts
  <2>. HIDE DEF e
  <2>. QED  BY <1>6, <2>2, <2>3, <2>4
<1>8. CASE /\ r.type = "accept" /\ Granted(r)
           /\ server' = [server EXCEPT !.accepted = TRUE]
           /\ Emit(Note("accepted", r.call, server.conv))
  <2>1. r.call # 0 /\ server.call = r.call /\ ~server.accepted
    BY <1>2, <1>8 DEF Granted
  <2>. DEFINE e == Note("accepted", r.call, server.conv)
  <2>2. e \in Event /\ e.type = "accepted" /\ e.call = r.call  BY <1>3, <1>5, NoteFacts
  <2>3. down' = down \/ down' = down \cup {e}  BY <1>8, EmitFacts
  <2>. HIDE DEF e
  <2>4. server' \in ServerType /\ server'.call = server.call /\ server'.mine = server.mine
    BY <1>5, <1>8 DEF ServerType
  <2>5. MediaInv => AcceptedOnce(f, down', server')
    BY <1>3, <1>5, <1>8, <2>1, <2>2, <2>3, PastAccepted
  <2>. QED  BY <1>2, <1>4, <1>5, <2>1, <2>2, <2>3, <2>4, <2>5, ServerStep DEF Kept
<1>9. CASE server' = NoCall /\ Emit(Note("ended", r.call, server.conv))
  <2>. DEFINE e == Note("ended", r.call, server.conv)
  <2>1. e \in Event /\ e.type = "ended"  BY <1>3, <1>5, NoteFacts
  <2>2. down' = down \/ down' = down \cup {e}  BY <1>9, EmitFacts
  <2>. HIDE DEF e
  <2>. QED  BY <1>6, <1>9, <2>1, <2>2, NoCallFacts
<1>. DEFINE note == Note("ended", 0, 0)
<1>10. note \in Event /\ note.type = "ended"  BY NoteFacts
<1>. HIDE DEF note
<1>11. CASE UNCHANGED <<server, down>>
  BY <1>5, <1>6, <1>10, <1>11
<1>12. CASE server' = (IF server.mine \/ server.accepted THEN NoCall ELSE server) /\ UNCHANGED down
  BY <1>5, <1>6, <1>10, <1>12, NoCallFacts
<1>13. CASE /\ r.type # "lost"
            /\ server' = IF r.type = "cancel" /\ r.call = server.call
                           THEN [server EXCEPT !.refused = TRUE] ELSE server
            /\ Emit([Note("rejected", 0, 0) EXCEPT !.of = <<r.type, r.gen>>])
  <2>. DEFINE e == [Note("rejected", 0, 0) EXCEPT !.of = <<r.type, r.gen>>]
  <2>1. e \in Event /\ e.type = "rejected"
    <3>1. <<r.type, r.gen>> \in Asks \X Gens  BY <1>3, <1>13
    <3>. QED  BY <3>1 DEF Note, Event
  <2>2. down' = down \/ down' = down \cup {e}  BY <1>13, EmitFacts
  <2>. HIDE DEF e
  <2>3. LET s == [server EXCEPT !.refused = TRUE] IN
        s \in ServerType /\ s.call = server.call /\ s.last = server.last /\ s.mine = server.mine
          /\ s.accepted = server.accepted
    BY <1>5 DEF ServerType
  <2>4. /\ server' \in ServerType /\ server'.call = server.call /\ server'.last = server.last
        /\ server'.mine = server.mine /\ server'.accepted = server.accepted
    BY <1>5, <1>13, <2>3
  <2>5. \A c : Past(server, c) => Past(server', c)  BY <2>4 DEF Past
  <2>. QED  BY <1>5, <1>6, <2>1, <2>2, <2>4, <2>5
<1>. QED  BY <1>7, <1>8, <1>9, <1>11, <1>12, <1>13 DEF ServerHandles, r

LEMMA PeerStep ==
    ASSUME CallFacadeAssumption, FenceInv, Peer
    PROVE  Kept
<1>1. /\ UNCHANGED <<f, ready>> /\ (Spend \/ UNCHANGED spent)
      /\ up' \in Seq(Request) /\ Asked(up')
  BY DEF Peer, FenceInv, TypeOK
<1>2. /\ server \in ServerType /\ server.call \in CallIds \cup {0}
      /\ server.conv \in Conversations \cup {0} /\ (server.mine => server.call # 0)
      /\ MediaInv => AcceptedOnce(f, down, server) /\ server.call <= server.last
  BY ServerFacts DEF MediaInv, AcceptedOnce
<1>3. ASSUME NEW e \in Event, e.type # "accepted", down' = down \/ down' = down \cup {e},
             server' \in ServerType, server'.mine => server'.call # 0,
             MediaInv => server'.call <= server'.last,
             \A c : Past(server, c) => Past(server', c)
      PROVE  Kept
  BY <1>1, <1>2, <1>3, PastKept, ServerStep DEF Kept
<1>4. ASSUME server.call = 0, server.last < MaxCalls, NEW conv \in Conversations,
             server' = Reserved(conv, FALSE, 0),
             Emit(Note("incoming", server.last + 1, conv))
      PROVE  Kept
  <2>1. 0 \in Gens /\ conv \in Conversations \cup {0}  BY DEF Gens
  <2>2. /\ server' \in ServerType /\ server'.call # 0 /\ server.last + 1 \in CallIds
        /\ server'.call <= server'.last
        /\ \A c : Past(server, c) => Past(server', c)
    BY <1>4, <2>1, ReservedFacts
  <2>. DEFINE e == Note("incoming", server.last + 1, conv)
  <2>3. e \in Event /\ e.type = "incoming"  BY <2>1, <2>2, NoteFacts
  <2>4. down' = down \/ down' = down \cup {e}  BY <1>4, EmitFacts
  <2>. HIDE DEF e
  <2>. QED  BY <1>3, <2>2, <2>3, <2>4
<1>5. CASE /\ server.mine /\ ~server.accepted
           /\ server' = [server EXCEPT !.accepted = TRUE]
           /\ Emit(Note("accepted", server.call, server.conv))
  <2>. DEFINE e == Note("accepted", server.call, server.conv)
  <2>1. e \in Event /\ e.type = "accepted" /\ e.call = server.call  BY <1>2, NoteFacts
  <2>2. down' = down \/ down' = down \cup {e}  BY <1>5, EmitFacts
  <2>. HIDE DEF e
  <2>3. server' \in ServerType /\ server'.call = server.call /\ server'.mine = server.mine
    BY <1>2, <1>5 DEF ServerType
  <2>4. server.call # 0 /\ server.call \in CallIds  BY <1>2, <1>5
  <2>5. MediaInv => AcceptedOnce(f, down', server')
    BY <1>2, <1>5, <2>1, <2>2, <2>4, PastAccepted
  <2>. QED  BY <1>1, <2>1, <2>2, <2>3, <2>4, <2>5, ServerStep DEF Kept
<1>6. CASE server' = NoCall /\ Emit(Note("ended", server.call, server.conv))
  <2>. DEFINE e == Note("ended", server.call, server.conv)
  <2>1. e \in Event /\ e.type = "ended"  BY <1>2, NoteFacts
  <2>2. down' = down \/ down' = down \cup {e}  BY <1>6, EmitFacts
  <2>. HIDE DEF e
  <2>. QED  BY <1>3, <1>6, <2>1, <2>2, NoCallFacts
<1>7. CASE server' = server /\ Emit(Note("signal", server.call, server.conv))
  <2>. DEFINE e == Note("signal", server.call, server.conv)
  <2>1. e \in Event /\ e.type = "signal"  BY <1>2, NoteFacts
  <2>2. down' = down \/ down' = down \cup {e}  BY <1>7, EmitFacts
  <2>. HIDE DEF e
  <2>. QED  BY <1>2, <1>3, <1>7, <2>1, <2>2
<1>. QED  BY <1>4, <1>5, <1>6, <1>7 DEF Peer

-----------------------------------------------------------------------------
(* The invariants hold in every behaviour.                                 *)

LEMMA InitInv ==
    ASSUME CallFacadeAssumption, Init
    PROVE  FenceInv /\ MediaInv
<1>1. /\ f.phase = "idle" /\ f.role = "none" /\ f.call = 0 /\ f.gen = 1 /\ f.stream = 0
      /\ f.screen = 0 /\ f.conn = 0 /\ f.timer = FALSE /\ f.retired = {} /\ f.live = {}
      /\ f.open = {} /\ f.waits = {} /\ f.ops = <<>>
  BY DEF Init
<1>2. server.call = 0 /\ server.mine = FALSE /\ server.last = 0 /\ up = <<>> /\ down = {}
  BY DEF Init
<1>3. DOMAIN f.ops = {} /\ DOMAIN up = {} /\ up \in Seq(Request) /\ f.ops \in Seq(Operation)
  BY <1>1, <1>2
<1>4. f \in FacadeType
  BY <1>3 DEF Init, FacadeType, Over, Gens
<1>5. TypeOK
  BY <1>2, <1>3, <1>4 DEF Init, TypeOK, ServerType, Gens, CallFacadeAssumption
<1>6. FenceInv
  BY <1>1, <1>2, <1>3, <1>5 DEF FenceInv, Shape, Fence, Asked, Answered, Over
<1>7. MediaInv
  BY <1>1, <1>2, <1>3
  DEF MediaInv, Media, Owned, Selections, Chained, Picking, AcceptedOnce, Accepts, Accepting
<1>. QED  BY <1>6, <1>7

LEMMA ChainsStep ==
    ASSUME CallFacadeAssumption, FenceInv, Chains
    PROVE  Kept
  BY AcceptedRunsStep, AcceptedMicrophoneStep, SignalRunsStep, StopScreenShareStep,
     StartScreenShareStep, DisplayStep, ShareReplacedStep, ShareClearedStep DEF Chains

LEMMA StepInv ==
    ASSUME CallFacadeAssumption, FenceInv, [Next]_vars
    PROVE  Kept
<1>1. CASE UNCHANGED vars
  BY <1>1 DEF vars, Kept, FenceInv, TypeOK, MediaInv
<1>2. CASE Promises
  BY <1>2, StartMicrophoneStep, DeviceStep, ReplaceStep DEF Promises
<1>. QED
  BY <1>1, <1>2, UserStep, DismissFiresStep, ChainsStep, ConnectionStep, DropStep, RecoverStep,
     ScreenEndsStep, HandleEventStep, ServerHandlesStep, PeerStep DEF Next

-----------------------------------------------------------------------------
(* Older failures are fenced.                                              *)

\* From g to h nothing that was asked or queued is answered, and only what is of
\* the generation gen ends the call.
Spares(g, h, gen) ==
    /\ h.waits = g.waits /\ h.ops = g.ops
    /\ gen = g.gen \/ h.phase = g.phase

LEMMA SetErrorSpares ==
    ASSUME NEW w, Sound(w), NEW gen
    PROVE  Spares(w.f, SetError(w, gen).f, gen)
  BY SetErrorSound, SetErrorFollows DEF Follows, Spares

LEMMA TimedOutSpares ==
    ASSUME NEW w, Sound(w), NEW owner
    PROVE  Spares(w.f, TimedOut(w, owner).f, owner.gen)
  BY TimedOutSound, TimedOutFollows DEF Follows, Spares

LEMMA SendRequestSpares ==
    ASSUME NEW w, Sound(w), NEW type \in Asks, NEW gen, type = "accept" => w.f.call # 0
    PROVE  Spares(w.f, SendRequest(w, type, gen).f, gen)
  BY SendRequestSound, SendRequestFollows DEF Follows, Spares, Alike, LikeButOps

LEMMA StoppedSpares ==
    ASSUME NEW g \in FacadeType, NEW T
    PROVE  /\ Stopped(g, T).waits = g.waits /\ Stopped(g, T).ops = g.ops
           /\ Stopped(g, T).phase = g.phase
  BY DEF Stopped, FacadeType

\* A promise of the generation of now, or one that ends nothing.
LEMMA PromiseAnswered ==
    ASSUME FenceInv, NEW x \in f.waits, down' = down, f.phase # "error",
           f.waits \ {x} \subseteq f'.waits, f'.ops = f.ops,
           x.gen = f.gen \/ f'.phase = f.phase
    PROVE  EndsByItsOwn
<1>1. ~(Len(f.ops) < Len(f.ops))  BY FacadeFacts, OpsFacts
<1>. QED  BY <1>1 DEF EndsByItsOwn

\* The i-th operation likewise: no other first one leaves the same rest.
LEMMA OperationAnswered ==
    ASSUME FenceInv, NEW i \in DOMAIN f.ops, First(i), down' = down, f.phase # "error",
           NEW g, g.ops = RemoveAt(f.ops, i), g.waits = f.waits, g.phase = f.phase,
           g.gen = f.gen, Spares(g, f', f.ops[i].gen)
    PROVE  EndsByItsOwn
<1>1. /\ f.ops \in Seq(Operation) /\ DOMAIN f.ops = 1 .. Len(f.ops) /\ Len(f.ops) \in Nat
  BY FacadeFacts, OpsFacts
<1>2. ASSUME NEW j \in DOMAIN f.ops, First(j), f'.ops = RemoveAt(f.ops, j)  PROVE j = i
  <2>1. f'.ops = RemoveAt(f.ops, i)  BY DEF Spares
  <2>2. CASE i < j
    <3>1. j - 1 \in 1 .. j - 1 /\ f.ops[j - 1] = f.ops[j]
      BY <1>1, <1>2, <2>1, <2>2, RemovedTwice
    <3>. QED  BY <1>2, <3>1 DEF First
  <2>3. CASE j < i
    <3>1. i - 1 \in 1 .. i - 1 /\ f.ops[i - 1] = f.ops[i]
      BY <1>1, <1>2, <2>1, <2>3, RemovedTwice
    <3>. QED  BY <3>1 DEF First
  <2>. QED  BY <1>1, <2>2, <2>3
<1>3. f.ops[i].gen = f.gen \/ f'.phase # "error"  BY DEF Spares
<1>. QED  BY <1>2, <1>3 DEF EndsByItsOwn, Spares

LEMMA NothingAnswered ==
    ASSUME down \subseteq down', f.waits \subseteq f'.waits, ~(Len(f'.ops) < Len(f.ops))
    PROVE  EndsByItsOwn
  BY DEF EndsByItsOwn

LEMMA FollowsFenced ==
    ASSUME FenceInv, down' = down, NEW w, Become(w), Follows(f, w.f)
    PROVE  EndsByItsOwn
<1>1. ~(Len(f.ops) < Len(f.ops))  BY FacadeFacts, OpsFacts
<1>. QED  BY <1>1, NothingAnswered DEF Follows, Become

LEMMA StartMicrophoneFenced ==
    ASSUME FenceInv, f.phase # "error", NEW x \in f.waits, StartMicrophone(x)
    PROVE  EndsByItsOwn
<1>. DEFINE h == Without(x)
<1>1. /\ h.waits = f.waits \ {x} /\ h.ops = f.ops /\ h.phase = f.phase /\ h.gen = f.gen
      /\ Sound(With(h)) /\ With(h).f = h
  BY WithoutSound, WithSound
<1>2. down' = down /\ x.on = "start"  BY DEF StartMicrophone
<1>3. CASE Become(With(h))  BY <1>1, <1>2, <1>3, PromiseAnswered DEF Become
<1>4. CASE Become(SetError(With(h), x.gen))
  <2>1. Spares(h, SetError(With(h), x.gen).f, x.gen)  BY <1>1, SetErrorSpares
  <2>. QED  BY <1>1, <1>2, <1>4, <2>1, PromiseAnswered DEF Become, Spares
<1>5. ASSUME NEW c \in Fresh, x.gen = f.gen,
             Become(SendRequest(With([h EXCEPT !.phase = "outgoing", !.stream = c,
                                               !.live = @ \cup {c}, !.loud = @ \cup {c}]),
                                "start", x.gen))
      PROVE  EndsByItsOwn
  <2>. DEFINE g == [h EXCEPT !.phase = "outgoing", !.stream = c,
                             !.live = @ \cup {c}, !.loud = @ \cup {c}]
  <2>1. /\ g \in FacadeType /\ Shape(g) /\ Fence(g)
        /\ g.waits = f.waits \ {x} /\ g.ops = f.ops
    BY <1>2, <1>5, GrantedSound
  <2>2. Become(SendRequest(With(g), "start", x.gen))  BY <1>5
  <2>. HIDE DEF g
  <2>3. Sound(With(g)) /\ With(g).f = g  BY <2>1, WithSound
  <2>4. Spares(g, SendRequest(With(g), "start", x.gen).f, x.gen)
    BY <2>3, SendRequestSpares DEF Asks
  <2>. QED  BY <1>2, <1>5, <2>1, <2>2, <2>4, PromiseAnswered DEF Become, Spares
<1>. QED  BY <1>3, <1>4, <1>5 DEF StartMicrophone

LEMMA DeviceFenced ==
    ASSUME FenceInv, f.phase # "error", NEW x \in f.waits, Device(x)
    PROVE  EndsByItsOwn
<1>. DEFINE h == Without(x)
<1>1. /\ h \in FacadeType
      /\ h.waits = f.waits \ {x} /\ h.ops = f.ops /\ h.phase = f.phase
  BY WithoutSound
<1>2. down' = down  BY DEF Device
<1>3. CASE f' = h  BY <1>1, <1>2, <1>3, PromiseAnswered
<1>4. ASSUME NEW c \in Fresh,
             f' = [h EXCEPT !.live = @ \cup {c},
                            !.loud = IF f.muted THEN @ ELSE @ \cup {c},
                            !.waits = @ \cup {[x EXCEPT !.on = "replace", !.new = c]}]
      PROVE  EndsByItsOwn
  <2>. DEFINE r == [x EXCEPT !.on = "replace", !.new = c]
  <2>. HIDE DEF h, r
  <2>1. f'.waits = h.waits \cup {r} /\ f'.ops = h.ops /\ f'.phase = h.phase
    BY <1>1, <1>4 DEF FacadeType, h, r
  <2>. QED  BY <1>1, <1>2, <2>1, PromiseAnswered
<1>. QED  BY <1>3, <1>4 DEF Device

LEMMA ReplaceFenced ==
    ASSUME FenceInv, f.phase # "error", NEW x \in f.waits, Replace(x)
    PROVE  EndsByItsOwn
<1>. DEFINE h == Without(x)
<1>1. /\ h \in FacadeType
      /\ h.waits = f.waits \ {x} /\ h.ops = f.ops /\ h.phase = f.phase /\ h.gen = f.gen
      /\ Sound(With(h)) /\ With(h).f = h
  BY WithoutSound, WithSound
<1>2. down' = down  BY DEF Replace
<1>3. ASSUME NEW T, f' = Stopped(h, T)  PROVE EndsByItsOwn
  BY <1>1, <1>2, <1>3, StoppedSpares, PromiseAnswered
<1>4. CASE LET w == TimedOut(With(h), x) IN Become([w EXCEPT !.f = Stopped(@, {x.new})])
  <2>. DEFINE w == TimedOut(With(h), x)
  <2>1. Sound(w) /\ Spares(h, w.f, x.gen)  BY <1>1, TimedOutFollows, TimedOutSpares
  <2>2. f' = Stopped(w.f, {x.new})  BY <1>4, <2>1 DEF Become, Sound, Worlds
  <2>. HIDE DEF w, h
  <2>3. f'.waits = w.f.waits /\ f'.ops = w.f.ops /\ f'.phase = w.f.phase
    BY <2>1, <2>2, StoppedSpares DEF Sound, Worlds
  <2>. QED  BY <1>1, <1>2, <2>1, <2>3, PromiseAnswered DEF Spares
<1>5. CASE f' = [Stopped(h, {x.old}) EXCEPT !.stream = x.new]
  <2>1. Stopped(h, {x.old}) \in FacadeType  BY <1>1, StoppedSound
  <2>2. f'.waits = h.waits /\ f'.ops = h.ops /\ f'.phase = h.phase
    BY <1>1, <1>5, <2>1, StoppedSpares DEF FacadeType
  <2>. HIDE DEF h
  <2>. QED  BY <1>1, <1>2, <2>2, PromiseAnswered
<1>. QED  BY <1>3, <1>4, <1>5 DEF Replace

LEMMA DoneFenced ==
    ASSUME FenceInv, NEW i \in DOMAIN f.ops, First(i), down' = down, f.phase # "error",
           Spares(Done(f, i), f', f.ops[i].gen)
    PROVE  EndsByItsOwn
  BY DoneFacts, OperationAnswered DEF LikeButOps

LEMMA MovedFenced ==
    ASSUME FenceInv, NEW i \in DOMAIN f.ops, NEW op \in Operation, down' = down,
           f'.waits = f.waits, f'.ops = [f.ops EXCEPT ![i] = op]
    PROVE  EndsByItsOwn
<1>1. Len(f'.ops) = Len(f.ops) /\ Len(f.ops) \in Nat
  BY FacadeFacts, OpsFacts, ExceptSeq
<1>. QED  BY <1>1, NothingAnswered

LEMMA AcceptedRunsFenced ==
    ASSUME FenceInv, f.phase # "error", NEW i \in DOMAIN f.ops, AcceptedRuns(i)
    PROVE  EndsByItsOwn
<1>. DEFINE op == f.ops[i]
            reqs == f.reqs \ {<<"accept", f.gen>>}
            h == [f EXCEPT !.reqs = reqs]
            g == Done(h, i)
<1>1. op.kind = "accepted" /\ First(i) /\ down' = down
  BY DEF AcceptedRuns, Runs
<1>2. /\ f \in FacadeType /\ Shape(f) /\ f.gen \in Gens /\ op.call # 0
      /\ AcceptedKnown(f, op)
  BY <1>1, FacadeFacts, DoneFacts DEF AcceptedKnown
<1>3. h \in FacadeType /\ Alike(f, h)
  <2>1. reqs \in SUBSET (Asks \X Gens)  BY <1>2 DEF FacadeType
  <2>. HIDE DEF reqs
  <2>. QED  BY <1>2, <2>1 DEF FacadeType, Alike, LikeButOps
<1>4. h.ops = f.ops /\ i \in DOMAIN h.ops /\ Shape(h) /\ Fence(h)
  BY <1>3, AlikeKept DEF Alike, FenceInv
<1>5. h = [f EXCEPT !.reqs = @ \ {<<"accept", f.gen>>}]  BY <1>2 DEF FacadeType
<1>. HIDE DEF h
<1>6. /\ g \in FacadeType /\ LikeButOps(h, g) /\ g.ops = RemoveAt(f.ops, i)
      /\ Shape(g) /\ Fence(g)
  BY <1>3, <1>4, DoneSound
<1>7. /\ g.stream = f.stream /\ g.gen = f.gen /\ g.call = f.call /\ g.phase = f.phase
      /\ g.waits = f.waits
  BY <1>3, <1>6 DEF Alike, LikeButOps
<1>8. f.call = op.call => op.gen = f.gen
  BY <1>2 DEF AcceptedKnown, Shape
<1>9. CASE Become(With(Done(f, i)))
  <2>1. Spares(Done(f, i), f', op.gen)  BY <1>9, DoneFacts DEF Become, Spares
  <2>. QED  BY <1>1, <2>1, DoneFenced
<1>10. CASE f.call = op.call /\ Become(Connect(g, i, f.gen, f.stream))
  <2>. HIDE DEF g
  <2>1. f.stream \in Captures \cup {0}  BY <1>2 DEF FacadeType
  <2>2. LET w == Connect(g, i, f.gen, f.stream) IN w.f.waits = g.waits /\ w.f.ops = g.ops
    BY <1>2, <1>6, <1>7, <2>1, ConnectSound
  <2>3. Spares(g, f', op.gen)  BY <1>7, <1>8, <1>10, <2>2 DEF Become, Spares
  <2>. QED  BY <1>1, <1>6, <1>7, <2>3, OperationAnswered
<1>11. CASE f.call = op.call /\ Become(SetError(With(g), f.gen))
  <2>. HIDE DEF g
  <2>1. Sound(With(g)) /\ With(g).f = g  BY <1>6, WithSound
  <2>2. Spares(g, f', op.gen)  BY <1>8, <1>11, <2>1, SetErrorSpares DEF Become
  <2>. QED  BY <1>1, <1>6, <1>7, <2>2, OperationAnswered
<1>12. CASE f' = [At(i, "microphone", f.gen) EXCEPT !.reqs = g.reqs]
  <2>. DEFINE k == At(i, "microphone", f.gen)
              m == Moved(i, "microphone", f.gen)
  <2>1. "microphone" \in Stages  BY DEF Stages
  <2>. HIDE DEF m
  <2>2. k \in FacadeType /\ LikeButOps(f, k) /\ k.ops = [f.ops EXCEPT ![i] = m] /\ m \in Operation
    BY <1>2, <2>1, AtFacts DEF m
  <2>3. f' = [k EXCEPT !.reqs = g.reqs]  BY <1>12
  <2>. HIDE DEF k
  <2>4. f'.waits = f.waits /\ f'.ops = k.ops  BY <2>2, <2>3 DEF FacadeType, LikeButOps
  <2>. QED  BY <1>1, <2>2, <2>4, MovedFenced
<1>. QED  BY <1>5, <1>9, <1>10, <1>11, <1>12 DEF AcceptedRuns

LEMMA AcceptedMicrophoneFenced ==
    ASSUME FenceInv, f.phase # "error", NEW i \in DOMAIN f.ops, AcceptedMicrophone(i)
    PROVE  EndsByItsOwn
<1>. DEFINE op == f.ops[i]
            g == Done(f, i)
<1>1. op.kind = "accepted" /\ First(i) /\ down' = down
  BY DEF AcceptedMicrophone, Runs
<1>2. /\ g \in FacadeType /\ Shape(g) /\ Fence(g) /\ LikeButOps(f, g)
      /\ g.ops = RemoveAt(f.ops, i) /\ Sound(With(g)) /\ With(g).f = g
      /\ op \in Operation /\ op.call # 0
  BY <1>1, DoneFacts DEF AcceptedKnown
<1>3. CASE Become(With(g))
  <2>1. Spares(g, f', op.gen)  BY <1>2, <1>3 DEF Become, Spares
  <2>. QED  BY <1>1, <2>1, DoneFenced
<1>4. CASE Become(SetError(With(g), op.gen))
  <2>1. Spares(g, f', op.gen)  BY <1>2, <1>4, SetErrorSpares DEF Become
  <2>. QED  BY <1>1, <2>1, DoneFenced
<1>5. ASSUME NEW c \in Fresh, op.gen = f.gen, Become(Connect(g, i, op.gen, c))
      PROVE  EndsByItsOwn
  <2>1. c \in Captures \cup {0} /\ c # 0 /\ op.gen \in Gens
    BY <1>2, FreshFacts DEF Operation
  <2>2. \A j \in DOMAIN g.ops : c # g.ops[j].new  BY RestFacts, FreshFacts
  <2>. HIDE DEF g
  <2>3. LET w == Connect(g, i, op.gen, c) IN w.f.waits = g.waits /\ w.f.ops = g.ops
    BY <1>2, <2>1, <2>2, ConnectSound
  <2>4. Spares(g, f', op.gen)  BY <1>2, <1>5, <2>3 DEF Become, Spares, LikeButOps
  <2>. QED  BY <1>1, <2>4, DoneFenced DEF g
<1>. QED  BY <1>3, <1>4, <1>5 DEF AcceptedMicrophone

\* A step that leaves the phase is not one that ends the call.
LEMMA PhaseKeptFenced ==
    ASSUME f.phase # "error", f'.phase = f.phase
    PROVE  EndsByItsOwn
  BY DEF EndsByItsOwn

LEMMA SignalRunsFenced ==
    ASSUME FenceInv, f.phase # "error", NEW i \in DOMAIN f.ops, SignalRuns(i)
    PROVE  EndsByItsOwn
<1>. DEFINE op == f.ops[i]
            g == Done(f, i)
<1>1. First(i) /\ down' = down  BY DEF SignalRuns, Runs
<1>2. /\ f.gen \in Gens /\ LikeButOps(f, g) /\ Sound(With(g)) /\ With(g).f = g
  BY DoneFacts
<1>3. CASE f' = g  BY <1>2, <1>3, PhaseKeptFenced DEF LikeButOps
<1>4. CASE f' = At(i, "apply", f.gen)
  <2>1. "apply" \in Stages  BY DEF Stages
  <2>2. LikeButOps(f, f')  BY <1>2, <1>4, <2>1, AtFacts
  <2>. QED  BY <2>2, PhaseKeptFenced DEF LikeButOps
<1>5. CASE Become(SetError(With(g), op.gen))
  <2>1. Spares(g, f', op.gen)  BY <1>2, <1>5, SetErrorSpares DEF Become
  <2>. QED  BY <1>1, <2>1, DoneFenced
<1>. QED  BY <1>3, <1>4, <1>5 DEF SignalRuns

LEMMA StopScreenShareFenced ==
    ASSUME FenceInv, f.phase # "error", NEW i \in DOMAIN f.ops, StopScreenShare(i)
    PROVE  EndsByItsOwn
<1>. DEFINE k == At(i, "clear", f.gen)
            h == Stopped(k, {f.screen})
<1>1. "clear" \in Stages /\ f.gen \in Gens  BY DoneFacts DEF Stages
<1>2. k \in FacadeType /\ k.phase = f.phase  BY <1>1, AtFacts DEF LikeButOps
<1>3. f' = [h EXCEPT !.screen = 0]  BY DEF StopScreenShare
<1>. HIDE DEF k
<1>4. h \in FacadeType /\ h.phase = f.phase  BY <1>2, StoppedSound, StoppedSpares
<1>. HIDE DEF h
<1>5. f'.phase = f.phase  BY <1>3, <1>4 DEF FacadeType
<1>. QED  BY <1>5, PhaseKeptFenced

LEMMA StartScreenShareFenced ==
    ASSUME FenceInv, f.phase # "error", NEW i \in DOMAIN f.ops, StartScreenShare(i)
    PROVE  EndsByItsOwn
<1>1. f \in FacadeType /\ Done(f, i).phase = f.phase  BY DoneFacts DEF LikeButOps
<1>2. f'.phase = f.phase
  <2>1. CASE f' = Done(f, i)  BY <1>1, <2>1
  <2>2. CASE f' = [f EXCEPT !.ops[i].at = "display", !.ops[i].conn = f.conn]
    BY <1>1, <2>2 DEF FacadeType
  <2>. QED  BY <2>1, <2>2 DEF StartScreenShare
<1>. QED  BY <1>2, PhaseKeptFenced

LEMMA DisplayFenced ==
    ASSUME FenceInv, f.phase # "error", NEW i \in DOMAIN f.ops, Display(i)
    PROVE  EndsByItsOwn
<1>1. f \in FacadeType /\ Done(f, i).phase = f.phase  BY DoneFacts DEF LikeButOps
<1>2. f'.phase = f.phase
  <2>1. CASE f' = Done(f, i)  BY <1>1, <2>1
  <2>2. ASSUME NEW c \in Fresh,
               f' = [f EXCEPT !.ops[i].at = "replace", !.ops[i].new = c, !.live = @ \cup {c}]
        PROVE  f'.phase = f.phase
    BY <1>1, <2>2 DEF FacadeType
  <2>. QED  BY <2>1, <2>2 DEF Display
<1>. QED  BY <1>2, PhaseKeptFenced

LEMMA ShareReplacedFenced ==
    ASSUME FenceInv, f.phase # "error", NEW i \in DOMAIN f.ops, ShareReplaced(i)
    PROVE  EndsByItsOwn
<1>. DEFINE op == f.ops[i]
            h == Done(f, i)
            without == Stopped(h, {op.new})
            shared == [h EXCEPT !.screen = op.new]
<1>1. op.kind = "share" /\ op.at = "replace" /\ First(i) /\ down' = down
  BY DEF ShareReplaced, Runs
<1>2. /\ f \in FacadeType /\ h \in FacadeType /\ LikeButOps(f, h)
      /\ h.ops = RemoveAt(f.ops, i) /\ Shape(h) /\ Fence(h)
      /\ Sound(With(h)) /\ With(h).f = h
  BY DoneFacts
<1>3. /\ without \in FacadeType /\ Shape(without) /\ Fence(without)
      /\ without.waits = h.waits /\ without.ops = h.ops /\ without.phase = h.phase
      /\ without.gen = h.gen
  <2>1. without \in FacadeType /\ Shape(without) /\ Fence(without)
        /\ without = [h EXCEPT !.live = without.live, !.loud = without.loud]
    BY <1>2, StoppedSound
  <2>. HIDE DEF h, without
  <2>2. without.gen = h.gen  BY <1>2, <2>1 DEF FacadeType
  <2>. QED  BY <1>2, <2>1, <2>2, StoppedSpares DEF without
<1>4. Fenced(op) /\ op.new \in f.live =>
        /\ shared \in FacadeType /\ Shape(shared) /\ Fence(shared)
        /\ shared.waits = h.waits /\ shared.ops = h.ops /\ shared.phase = h.phase
        /\ shared.gen = h.gen
  <2>1. /\ shared.waits = h.waits /\ shared.ops = h.ops /\ shared.phase = h.phase
        /\ shared.gen = h.gen
    BY <1>2 DEF FacadeType
  <2>. QED  BY <1>1, <2>1, SharedSound
<1>. HIDE DEF without, shared
<1>5. CASE Become(With(without))
  <2>1. With(without).f = without  BY <1>3, WithSound
  <2>. QED  BY <1>2, <1>3, <1>5, <2>1, PhaseKeptFenced DEF Become, LikeButOps
<1>6. CASE /\ Fenced(op)
           /\ Become(SendRequest(With(IF op.new \in f.live THEN shared ELSE without),
                                 "signal", op.gen))
  <2>. DEFINE g == IF op.new \in f.live THEN shared ELSE without
  <2>1. /\ g \in FacadeType /\ Shape(g) /\ Fence(g)
        /\ g.waits = h.waits /\ g.ops = h.ops /\ g.phase = h.phase /\ g.gen = h.gen
    BY <1>3, <1>4, <1>6
  <2>2. Become(SendRequest(With(g), "signal", op.gen))  BY <1>6
  <2>. HIDE DEF g
  <2>3. Sound(With(g)) /\ With(g).f = g  BY <2>1, WithSound
  <2>4. Spares(g, SendRequest(With(g), "signal", op.gen).f, op.gen)
    BY <2>3, SendRequestSpares DEF Asks
  <2>5. Spares(h, f', op.gen)  BY <2>1, <2>2, <2>4 DEF Become, Spares
  <2>. QED  BY <1>1, <2>5, DoneFenced
<1>7. CASE LET w == TimedOut(With(h), op) IN Become([w EXCEPT !.f = Stopped(@, {op.new})])
  <2>. DEFINE w == TimedOut(With(h), op)
  <2>1. Sound(w) /\ Spares(h, w.f, op.gen)  BY <1>2, TimedOutFollows, TimedOutSpares
  <2>2. f' = Stopped(w.f, {op.new})  BY <1>7, <2>1 DEF Become, Sound, Worlds
  <2>. HIDE DEF w
  <2>3. f'.waits = w.f.waits /\ f'.ops = w.f.ops /\ f'.phase = w.f.phase
    BY <2>1, <2>2, StoppedSpares DEF Sound, Worlds
  <2>4. Spares(h, f', op.gen)  BY <2>1, <2>3 DEF Spares
  <2>. QED  BY <1>1, <2>4, DoneFenced
<1>. QED  BY <1>5, <1>6, <1>7 DEF ShareReplaced, without, shared

LEMMA ShareClearedFenced ==
    ASSUME FenceInv, f.phase # "error", NEW i \in DOMAIN f.ops, ShareCleared(i)
    PROVE  EndsByItsOwn
<1>. DEFINE op == f.ops[i]
            h == Done(f, i)
<1>1. First(i) /\ down' = down  BY DEF ShareCleared, Runs
<1>2. Sound(With(h)) /\ With(h).f = h  BY DoneFacts
<1>3. Spares(h, h, op.gen)  BY DEF Spares
<1>4. Spares(h, SendRequest(With(h), "signal", op.gen).f, op.gen)
  BY <1>2, SendRequestSpares DEF Asks
<1>5. Spares(h, TimedOut(With(h), op).f, op.gen)  BY <1>2, TimedOutSpares
<1>6. PICK w \in {With(h), SendRequest(With(h), "signal", op.gen), TimedOut(With(h), op)} :
         Become(w)
  BY DEF ShareCleared
<1>7. Spares(h, f', op.gen)  BY <1>2, <1>3, <1>4, <1>5, <1>6 DEF Become
<1>. QED  BY <1>1, <1>7, DoneFenced

LEMMA ScreenEndsFenced ==
    ASSUME FenceInv, f.phase # "error", NEW c \in Captures, ScreenEnds(c)
    PROVE  EndsByItsOwn
<1>1. PICK op : f' = Enqueue(Stopped(f, {c}), op)  BY DEF ScreenEnds
<1>2. Stopped(f, {c}) \in FacadeType /\ Stopped(f, {c}).phase = f.phase
  BY FacadeFacts, StoppedSound, StoppedSpares
<1>3. f'.phase = f.phase  BY <1>1, <1>2 DEF Enqueue, FacadeType
<1>. QED  BY <1>3, PhaseKeptFenced

LEMMA ConnectionFenced ==
    ASSUME FenceInv, f.phase # "error", Connection
    PROVE  EndsByItsOwn
<1>1. down' = down /\ f \in FacadeType /\ Sound(World) /\ World.f = f
  BY FacadeFacts, WorldSound DEF Connection
<1>2. CASE Become(SetError(World, f.gen))  BY <1>1, <1>2, SetErrorFollows, FollowsFenced
<1>3. CASE f' = [f EXCEPT !.phase = "active"]
  <2>1. f'.phase = "active"  BY <1>1, <1>3 DEF FacadeType
  <2>. QED  BY <2>1 DEF EndsByItsOwn
<1>. QED  BY <1>2, <1>3 DEF Connection

\* The user's own steps answer nothing.
LEMMA UserFenced ==
    ASSUME FenceInv, f.phase # "error", User
    PROVE  EndsByItsOwn
<1>1. f \in FacadeType /\ Sound(World) /\ World.f = f  BY FacadeFacts, WorldSound
<1>2. ASSUME NEW conv \in Conversations, Start(conv)  PROVE EndsByItsOwn
  BY <1>2 DEF Start, CanStart, EndsByItsOwn, Over, Ongoing
<1>3. CASE Accept
  <2>. DEFINE g == [f EXCEPT !.phase = "connecting"]
  <2>1. f.phase = "incoming" /\ f.call # 0 /\ Shape(f) /\ Fence(f) /\ down' = down
    BY <1>3, FacadeFacts DEF Accept
  <2>2. g \in FacadeType  BY <1>1 DEF FacadeType, Ongoing
  <2>3. /\ g.phase = "connecting" /\ g.role = f.role /\ g.call = f.call /\ g.gen = f.gen
        /\ g.stream = f.stream /\ g.screen = f.screen /\ g.conn = f.conn /\ g.timer = f.timer
        /\ g.retired = f.retired /\ g.live = f.live /\ g.open = f.open
        /\ g.waits = f.waits /\ g.ops = f.ops /\ g.closed = f.closed
    BY <1>1 DEF FacadeType
  <2>4. Become(SendRequest(With(g), "accept", f.gen))  BY <1>3 DEF Accept
  <2>. HIDE DEF g
  <2>5. Shape(g) /\ Fence(g)  BY <2>1, <2>3 DEF Shape, Fence, AcceptedKnown, Over
  <2>6. Sound(With(g)) /\ With(g).f = g  BY <2>2, <2>5, WithSound
  <2>7. Spares(g, SendRequest(With(g), "accept", f.gen).f, f.gen)
    BY <2>1, <2>3, <2>6, SendRequestSpares DEF Asks
  <2>8. f'.waits = f.waits /\ f'.ops = f.ops  BY <2>3, <2>4, <2>7 DEF Become, Spares
  <2>9. ~(Len(f.ops) < Len(f.ops))  BY <1>1, OpsFacts
  <2>. QED  BY <2>1, <2>8, <2>9, NothingAnswered
<1>4. CASE HangUp
  <2>1. PICK type \in {"decline", "cancel", "end"} : Become(SendControl(type))
    BY <1>4 DEF HangUp
  <2>2. Follows(f, SendControl(type).f)  BY SendControlFollows DEF Asks
  <2>. QED  BY <1>4, <2>1, <2>2, FollowsFenced DEF HangUp
<1>5. CASE ToggleMute \/ SelectInputDevice
  <2>1. f'.phase = f.phase  BY <1>1, <1>5 DEF ToggleMute, SelectInputDevice, FacadeType
  <2>. QED  BY <2>1, PhaseKeptFenced
<1>6. CASE ToggleScreenShare
  <2>1. f'.phase = f.phase  BY <1>1, <1>6 DEF ToggleScreenShare, Enqueue, FacadeType
  <2>. QED  BY <2>1, PhaseKeptFenced
<1>7. CASE Close
  <2>. DEFINE h == Finish(f, "idle")
              type == CASE f.phase = "incoming" -> "decline"
                        [] f.phase = "outgoing" -> "cancel"
                        [] OTHER -> "end"
              w == IF f.call # 0 THEN Send(World, type, f.call) ELSE World
  <2>1. w \in Worlds /\ w.f = f
    <3>1. f.call \in CallIds \cup {0} /\ type \in Asks \ {"accept"}
      BY <1>1 DEF FacadeType, Asks
    <3>. HIDE DEF type
    <3>. QED  BY <1>1, <3>1, SendSound DEF Sound
  <2>2. h \in FacadeType /\ h.phase = "idle"  BY <1>1, FinishFields DEF Over
  <2>3. Become([w EXCEPT !.f = [Finish(@, "idle") EXCEPT !.timer = FALSE, !.closed = TRUE,
                                                        !.retired = f.retired]])
    BY <1>7 DEF Close
  <2>. HIDE DEF w
  <2>4. f' = [h EXCEPT !.timer = FALSE, !.closed = TRUE, !.retired = f.retired]
    BY <2>1, <2>3 DEF Become, Worlds
  <2>. HIDE DEF h
  <2>5. f'.phase = "idle"  BY <2>2, <2>4 DEF FacadeType
  <2>. QED  BY <2>5 DEF EndsByItsOwn
<1>. QED  BY <1>2, <1>3, <1>4, <1>5, <1>6, <1>7 DEF User

\* A rejection ends the call whose request it names.
LEMMA RejectedFenced ==
    ASSUME FenceInv, f.phase # "error", NEW e \in down, down' = down \ {e}, Rejected(e)
    PROVE  EndsByItsOwn
<1>. DEFINE reqs == f.reqs \ {e.of}
            g == [f EXCEPT !.reqs = reqs]
<1>1. f \in FacadeType  BY FacadeFacts
<1>2. g \in FacadeType /\ Alike(f, g)
  <2>1. reqs \in SUBSET (Asks \X Gens)  BY <1>1 DEF FacadeType
  <2>. HIDE DEF reqs
  <2>. QED  BY <1>1, <2>1 DEF FacadeType, Alike, LikeButOps
<1>3. g = [f EXCEPT !.reqs = @ \ {e.of}]  BY <1>1 DEF FacadeType
<1>4. Become(SetError(With(g), e.of[2])) \/ Become(With(g))
  BY <1>3 DEF Rejected
<1>. HIDE DEF g
<1>5. Shape(g) /\ Fence(g)  BY <1>2, AlikeKept DEF FenceInv
<1>6. /\ Sound(With(g)) /\ With(g).f = g
      /\ g.phase = f.phase /\ g.gen = f.gen /\ g.waits = f.waits /\ g.ops = f.ops
  BY <1>2, <1>5, WithSound DEF Alike, LikeButOps
<1>7. CASE Become(SetError(With(g), e.of[2]))
  <2>1. Spares(g, f', e.of[2])  BY <1>6, <1>7, SetErrorSpares DEF Become
  <2>2. f'.waits = f.waits /\ f'.ops = f.ops /\ (e.of[2] = f.gen \/ f'.phase = f.phase)
    BY <1>6, <2>1 DEF Spares
  <2>3. ~(Len(f.ops) < Len(f.ops))  BY <1>1, OpsFacts
  <2>. QED  BY <2>2, <2>3 DEF EndsByItsOwn
<1>8. CASE Become(With(g))
  BY <1>6, <1>8, PhaseKeptFenced DEF Become
<1>. QED  BY <1>4, <1>7, <1>8

LEMMA HandleEventFenced ==
    ASSUME FenceInv, f.phase # "error", NEW e \in down, HandleEvent(e)
    PROVE  EndsByItsOwn
<1>1. /\ f \in FacadeType /\ Sound(World) /\ World.f = f
      /\ e.call \in CallIds \cup {0} /\ e.conv \in Conversations \cup {0}
  BY FacadeFacts, WorldSound, EventFacts
<1>2. ~f.closed /\ down' = down \ {e}  BY DEF HandleEvent
<1>3. CASE Rejected(e)  BY <1>2, <1>3, RejectedFenced
<1>4. \A g \in FacadeType : Enqueue(g, Op("accepted", "queued", f.gen, e.call, 0)).phase = g.phase
                         /\ Enqueue(g, Op("signal", "queued", f.gen, e.call, 0)).phase = g.phase
  BY DEF Enqueue, FacadeType
<1>5. Names(e) => Named(e) \in FacadeType /\ Named(e).phase = f.phase
  BY ZenonT(60), <1>1, <1>2, NamedSound DEF Named, FacadeType
<1>6. CASE Incoming(e)
  <2>1. CASE Become(World)  BY <1>1, <2>1, PhaseKeptFenced DEF Become
  <2>2. CASE Become(Send(World, "decline", e.call))
    <3>1. Send(World, "decline", e.call).f = f  BY <1>1, SendSound DEF Asks
    <3>. QED  BY <2>2, <3>1, PhaseKeptFenced DEF Become
  <2>3. CASE f.phase \in Over  BY <2>3 DEF EndsByItsOwn, Over, Ongoing
  <2>. QED  BY <1>6, <2>1, <2>2, <2>3 DEF Incoming, CanStart
<1>7. CASE Ringing(e)
  <2>1. CASE Become(World)  BY <1>1, <2>1, PhaseKeptFenced DEF Become
  <2>2. CASE Names(e) /\ Become(With([Named(e) EXCEPT !.orphans = @ \ {e.conv}]))
    <3>1. f'.phase = f.phase
      BY <1>1, <1>5, <2>2 DEF Become, With, Sound, Worlds, FacadeType
    <3>. QED  BY <3>1, PhaseKeptFenced
  <2>3. CASE Become(Send(With([f EXCEPT !.orphans = @ \ {e.conv}]), "cancel", e.call))
    <3>. DEFINE g == [f EXCEPT !.orphans = @ \ {e.conv}]
    <3>1. g.phase = f.phase  BY <1>1 DEF FacadeType
    <3>2. With(g) = [World EXCEPT !.f = g] /\ With(g).f = g
      BY <1>1 DEF With, Sound, Worlds
    <3>. DEFINE w == With(g)
    <3>3. Send(w, "cancel", e.call).f = g
      <4>1. w.f = g /\ [w EXCEPT !.up = Append(@, [type |-> "cancel", call |-> e.call,
                                 conv |-> w.f.conv, gen |-> w.f.gen])].f = w.f
        BY <1>1, <3>2 DEF Sound, Worlds
      <4>. HIDE DEF w, g
      <4>. QED  BY <4>1 DEF Send
    <3>. QED  BY <2>3, <3>1, <3>3, PhaseKeptFenced DEF Become
  <2>. QED  BY <1>7, <2>1, <2>2, <2>3 DEF Ringing
<1>8. CASE Accepted(e)
  <2>. DEFINE g == IF Names(e) /\ f.stream # 0 /\ <<"start", f.gen>> \in f.reqs
                     THEN Named(e) ELSE f
  <2>1. g \in FacadeType /\ g.phase = f.phase  BY <1>1, <1>5
  <2>2. f' = f \/ f' = Enqueue(g, Op("accepted", "queued", f.gen, e.call, 0))
    BY <1>8 DEF Accepted
  <2>. HIDE DEF g
  <2>. QED  BY <1>4, <2>1, <2>2, PhaseKeptFenced
<1>9. CASE Signal(e)
  BY <1>1, <1>4, <1>9, PhaseKeptFenced DEF Signal
<1>10. CASE Ended(e)
  <2>1. CASE Become(World)  BY <1>1, <2>1, PhaseKeptFenced DEF Become
  <2>2. CASE Become(Terminal(World, f.gen))
    <3>1. Finish(f, "ended").phase = "ended"  BY <1>1, FinishFields DEF Over
    <3>2. f'.phase = f.phase \/ f'.phase = "ended"
      BY <1>1, <2>2, <3>1, TerminalSound DEF Become
    <3>. QED  BY <3>2 DEF EndsByItsOwn
  <2>. QED  BY <1>10, <2>1, <2>2 DEF Ended
<1>. QED  BY <1>3, <1>6, <1>7, <1>8, <1>9, <1>10 DEF HandleEvent

LEMMA StepFenced ==
    ASSUME FenceInv, [Next]_vars
    PROVE  EndsByItsOwn
<1>1. CASE f.phase = "error"  BY <1>1 DEF EndsByItsOwn, Ongoing
<1>2. CASE f.phase # "error" /\ f' = f  BY <1>2, PhaseKeptFenced
<1>3. CASE f.phase # "error" /\ DismissFires
  <2>1. f'.phase = "idle"  BY <1>3, FacadeFacts DEF DismissFires, FacadeType
  <2>. QED  BY <2>1 DEF EndsByItsOwn
<1>4. CASE f.phase # "error" /\ Promises
  BY <1>4, StartMicrophoneFenced, DeviceFenced, ReplaceFenced DEF Promises
<1>5. CASE f.phase # "error" /\ Chains
  BY <1>5, AcceptedRunsFenced, AcceptedMicrophoneFenced, SignalRunsFenced,
     StopScreenShareFenced, StartScreenShareFenced, DisplayFenced, ShareReplacedFenced,
     ShareClearedFenced DEF Chains
<1>6. CASE Drop  BY <1>6 DEF Drop, EndsByItsOwn
<1>7. f' = f \/ ~(UNCHANGED vars \/ Recover \/ ServerHandles \/ Peer)
  BY DEF vars, Recover, ServerHandles, Peer
<1>. QED
  BY <1>1, <1>2, <1>3, <1>4, <1>5, <1>6, <1>7, UserFenced, ConnectionFenced,
     ScreenEndsFenced, HandleEventFenced DEF Next

-----------------------------------------------------------------------------
(* What holds in every behaviour.                                          *)

LEMMA FenceHolds == CallFacadeAssumption => (Spec => []FenceInv)
<1>. SUFFICES ASSUME CallFacadeAssumption  PROVE Spec => []FenceInv  OBVIOUS
<1>1. Init => FenceInv  BY InitInv
<1>2. FenceInv /\ [Next]_vars => FenceInv'  BY StepInv DEF Kept
<1>. QED  BY <1>1, <1>2, PTL DEF Spec

LEMMA MediaHolds == CallFacadeAssumption /\ Switches <= 1 => (Spec => [](FenceInv /\ MediaInv))
<1>. SUFFICES ASSUME CallFacadeAssumption, Switches <= 1  PROVE Spec => [](FenceInv /\ MediaInv)
  OBVIOUS
<1>1. Init => FenceInv /\ MediaInv  BY InitInv
<1>2. FenceInv /\ MediaInv /\ [Next]_vars => (FenceInv /\ MediaInv)'  BY StepInv DEF Kept
<1>. QED  BY <1>1, <1>2, PTL DEF Spec

\* A call that was left never comes back, neither by its own late events nor by the
\* timer of a notice, which fires only while no call is on (call-facade.service.ts:398,
\* :757).
THEOREM CallsLeftStayLeft == CallFacadeAssumption => (Spec => []CallsStayOver)
<1>. SUFFICES ASSUME CallFacadeAssumption  PROVE Spec => []CallsStayOver  OBVIOUS
<1>1. FenceInv => CallsStayOver
  BY DEF FenceInv, Shape, CallsStayOver, RetiredStaysRetired, NoticeNeverEndsACall
<1>. QED  BY <1>1, FenceHolds, PTL

\* A call fails by what is of its own generation only: no rejection, promise or operation
\* of an older one ends it (call-facade.service.ts:118).
THEOREM OlderFailuresEndNothing ==
    CallFacadeAssumption => (Spec => OlderFailuresAreFenced)
<1>. SUFFICES ASSUME CallFacadeAssumption  PROVE Spec => OlderFailuresAreFenced
  OBVIOUS
<1>1. FenceInv /\ [Next]_vars => [EndsByItsOwn]_vars  BY StepFenced
<1>. QED  BY <1>1, FenceHolds, PTL DEF Spec, OlderFailuresAreFenced

\* While selections of a microphone do not overlap, every capture and every open
\* connection is the call's of now or on its way to be stopped
\* (call-facade.service.ts:118, :739).
THEOREM MediaStaysOwned ==
    CallFacadeAssumption /\ Switches <= 1 => (Spec => []MediaIsOwned)
<1>. SUFFICES ASSUME CallFacadeAssumption, Switches <= 1  PROVE Spec => []MediaIsOwned
  OBVIOUS
<1>1. FenceInv /\ MediaInv => MediaIsOwned
  BY DEF FenceInv, Shape, MediaInv, Media, Owned, MediaIsOwned, CapturesAreOwned,
         ConnectionsAreOwned
<1>. QED  BY <1>1, MediaHolds, PTL

\* Then nothing stays captured once the calls are over and no promise or operation is
\* left to answer (call-facade.service.ts:739).
THEOREM EveryTrackStops ==
    CallFacadeAssumption /\ Switches <= 1 => (Spec => []TracksStop)
<1>. SUFFICES ASSUME CallFacadeAssumption, Switches <= 1  PROVE Spec => []TracksStop
  OBVIOUS
<1>1. ASSUME FenceInv, MediaInv  PROVE TracksStop
  <2>1. 0 \notin f.live  BY <1>1, FacadeFacts DEF FacadeType, Captures
  <2>2. f.ops = <<>> => DOMAIN f.ops = {}  OBVIOUS
  <2>. QED  BY <1>1, <2>1, <2>2 DEF FenceInv, Shape, MediaInv, Media, Owned, TracksStop
<1>. QED  BY <1>1, MediaHolds, PTL

-----------------------------------------------------------------------------
(* The group facade and its server: the inductive invariant.               *)

\* No leave or end that waits for its answer.
None == Group!NoControl

\* Where no call is shown or under way.
Resting == {"idle", "left", "ended", "error"}

\* The microphone that is captured is of this generation, and shown as a call; in a
\* generation one is asked for, by a call that goes on, which joins a room it knows.
Capture(h) ==
    /\ h.live = {h.mic} \ {0}
    /\ h.mic \in {0, h.gen}
    /\ h.mic # 0 => h.phase \in {"ringing", "joining", "active"}
    /\ \A m \in h.mics :
          /\ 0 < m[1] /\ m[1] <= h.gen
          /\ m[1] = h.gen => h.mic = 0 /\ h.phase \notin Resting
          /\ m[1] = h.gen /\ m[2] = "join" => h.room.id # 0
    /\ \A m, n \in h.mics : m[1] = n[1] => m = n

\* No microphone is captured in this generation, or will be.
Silent(h) == h.mic = 0 /\ \A m \in h.mics : m[1] # h.gen

\* The room was left or ended, and the server has not agreed yet.
Parting(h) == h.control # None \/ h.recon # None

\* What one generation waits for. Between calls the revision that is applied is the
\* one of the room that may be joined again.
Waiting(h) ==
    /\ h.disc # 0 => h.disc <= h.gen /\ ~Parting(h)
    /\ h.disc # 0 /\ h.disc = h.gen => Silent(h)
    /\ h.sync # 0 => ~Parting(h) /\ h.phase \notin Resting
    /\ Parting(h) =>
          /\ Silent(h)
          /\ h.phase \in {"idle", "left", "ended", "ringing"}
          /\ h.phase = "ringing" => h.rejoin.id = 0
    /\ \A c \in {h.control, h.recon} :
          c # None => c.gen = h.gen /\ c.ask < c.gen /\ c.room.id # 0
    /\ h.phase \in Resting => (h.rejoin.id = 0 /\ h.phase # "left") \/ h.rev <= h.rejoinRev

\* The answer to a reconciliation.
IsSnapshot(e) == e.type = "synced" /\ e.of = "resync"

\* Nothing on the wire is of a generation to come; a reconciliation is of an earlier
\* one, and not of the control that is still to be answered.
Wired(h, u, d) ==
    /\ \A i \in DOMAIN u : u[i].gen <= h.gen
    /\ \A i \in DOMAIN u : u[i].type = "discover" => u[i].gen # 0
    /\ \A i \in DOMAIN u : u[i].type = "join" => u[i].id # 0
    /\ \A i \in DOMAIN u : u[i].type = "resync" => u[i].gen < h.gen
    /\ \A i \in DOMAIN u : u[i].type = "resync" /\ h.control # None => u[i].gen # h.control.ask
    /\ \A e \in d : e.gen <= h.gen /\ (e.type = "discovered" => e.gen # 0)
    /\ \A e \in d : IsSnapshot(e) => e.gen < h.gen
    /\ \A e \in d : IsSnapshot(e) /\ h.control # None => e.gen # h.control.ask

\* The server has the last room it has named, or none.
Serving(s) ==
    /\ s.room.id \in {0, s.last}
    /\ s.room.me \/ s.room.peer => s.room.id # 0
    /\ s.room.id = 0 => s.room = Group!NoRoom
    /\ s.stale => s.room.me

\* The event tells what a room is that goes on.
Speaks(e) == e.type # "ended" /\ ~e.gone

\* Room r is not known here at revision n.
Below(h, r, n) ==
    /\ h.room.id = r => h.room.rev < n /\ h.rev < n
    /\ h.rejoin.id = r => h.rejoin.rev < n /\ h.rejoinRev < n

\* Nor do the events on their way tell of it.
Limited(h, d, r, n) ==
    Below(h, r, n) /\ \A e \in d : Speaks(e) /\ e.room.id = r => e.room.rev < n

\* Every room that is known has been named by the server, and 0 names none.
RoomsNamed(h, d, s, x) ==
    /\ {h.room.id, h.rejoin.id} \subseteq 0 .. s.last
    /\ \A e \in d : e.gone \/ e.room.id <= s.last
    /\ \A e \in d : e.gone => e.type \in {"rejected", "synced"}
    /\ \A e \in d : e.type \in {"started", "joined", "left", "ended"} => e.room.id # 0
    /\ x \subseteq 1 .. s.last

\* A room ends once, it is told of last, and what has ended is retired, and neither shown
\* nor to come in an answer that is waited for. A room shown between two calls has ended.
Final(h, d, s, x) ==
    /\ x \subseteq h.retired
    /\ {h.room.id, h.rejoin.id} \cap x = {}
    /\ s.room.id \notin x
    /\ \A e \in d : e.type = "ended" => e.room.id \notin x \cup {s.room.id}
    /\ \A e, k \in d : e.type = "ended" /\ k.type = "ended" /\ e.room.id = k.room.id => e = k
    /\ \A e \in d : e.type = "discovered" /\ h.disc # 0 /\ e.gen = h.disc => e.room.id \notin x
    /\ \A e \in d : IsSnapshot(e) /\ ~e.gone /\ h.recon # None /\ e.gen = h.recon.ask => e.room.id \notin x
    /\ s.room.id # 0 => Limited(h, d, s.room.id, s.room.rev + 1)
    /\ \A e \in d : e.type = "ended" => Limited(h, d, e.room.id, e.room.rev)
    /\ h.phase \in Resting /\ h.room.id # 0 =>
          /\ FullEnds /\ h.room.id # s.room.id
          /\ \A e \in d : e.type = "ended" => e.room.id # h.room.id
          /\ \A e \in d : Speaks(e) /\ e.room.id = h.room.id => e.room.rev <= h.rev

\* The inductive invariant of the group facade, its server and what is between them.
GroupInv ==
    /\ Group!TypeOK /\ Capture(group) /\ Waiting(group) /\ Wired(group, asks, tells)
    /\ Serving(rooms) /\ RoomsNamed(group, tells, rooms, closed)
    /\ Final(group, tells, rooms, closed)

-----------------------------------------------------------------------------
(* What the operators of the group facade do.                              *)

\* The bounds of the model.
RoomBounds == Group!GroupCallAssumption

\* The fields of a facade of rooms have their types.
LEMMA GroupFields ==
    ASSUME NEW h \in Group!FacadeType
    PROVE  /\ h.phase \in {"idle", "requesting", "ringing", "joining", "active", "left", "ended",
                           "error"}
           /\ h.gen \in Nat /\ h.room \in Group!Room /\ h.rev \in Nat /\ h.mic \in Nat
           /\ h.rejoin \in Group!Room /\ h.rejoinRev \in Nat
           /\ h.asked \in Nat /\ h.disc \in Nat /\ h.sync \in Nat
           /\ h.control \in Group!Control /\ h.recon \in Group!Control /\ h.uncertain \in BOOLEAN
           /\ h.retired \in SUBSET Group!RoomIds /\ h.timer \in BOOLEAN
           /\ h.mics \in SUBSET (Nat \X {"start", "join"})
           /\ h.live \in SUBSET Nat
  BY DEF Group!FacadeType, Group!Gens, Group!Revs

\* The fields of a room have their types.
LEMMA RoomFields ==
    ASSUME NEW r \in Group!Room
    PROVE  /\ r.id \in Group!RoomIds \cup {0} /\ r.rev \in Nat /\ r.me \in BOOLEAN
           /\ r.peer \in BOOLEAN
  BY DEF Group!Room, Group!Revs

\* Rooms are numbered from 1.
LEMMA RoomIdsAre ==
    ASSUME RoomBounds
    PROVE  /\ MaxRooms \in Nat /\ MaxRev \in Nat /\ MaxGen \in Nat /\ MaxEffort \in Nat
           /\ Group!RoomIds = 1 .. MaxRooms /\ Group!RoomIds \subseteq Nat
           /\ 0 \notin Group!RoomIds
  BY DEF RoomBounds, Group!GroupCallAssumption, Group!RoomIds

\* The room and the control that stand for none have their types.
LEMMA NoneTyped ==
    /\ Group!NoRoom \in Group!Room /\ Group!NoRoom.id = 0 /\ Group!NoRoom.rev = 0
    /\ None \in Group!Control
  BY DEF Group!NoRoom, Group!Room, Group!Revs, Group!Gens, None, Group!NoControl, Group!Control

\* The fields of a control have their types.
LEMMA ControlFields ==
    ASSUME NEW c \in Group!Control
    PROVE  /\ c.type \in {"leave", "end"} /\ c.room \in Group!Room /\ c.base \in Nat
           /\ c.ask \in Nat /\ c.gen \in Nat /\ c.advanced \in BOOLEAN
  BY DEF Group!Control, Group!Revs, Group!Gens

-----------------------------------------------------------------------------
(* A call is over.                                                         *)

\* The next generation, in which nothing is left of the call but what may be joined
\* again and what the server has not answered yet.
Closes(h, k) ==
    /\ k \in Group!FacadeType
    /\ k.gen = h.gen + 1 /\ k.mic = 0 /\ k.live = {} /\ k.mics \subseteq h.mics
    /\ k.disc = 0 /\ k.sync = 0 /\ k.recon = None /\ k.room = Group!NoRoom /\ k.rev = 0
    /\ k.phase \in Resting
    /\ h.retired \subseteq k.retired
    /\ \/ k.control = None
       \/ /\ k.control.gen = k.gen /\ k.control.ask = h.gen /\ k.control.room.id # 0
          /\ k.phase \in {"left", "ended"}
    /\ \/ k.rejoin.id = 0
       \/ /\ k.rejoin.id \in {h.room.id, h.rejoin.id}
          /\ \A n \in Nat : Below(h, k.rejoin.id, n) => k.rejoin.rev < n /\ k.rejoinRev < n
    /\ k.phase = "left" => k.rejoin.id # 0

\* What becomes of the facade in a step that hears of room r: the rest of the invariant,
\* which is of the wire and the server, is kept by any such step.
Turns(h, k, r) ==
    /\ k.gen >= h.gen
    /\ k.disc \in {0, h.disc} \/ k.disc > h.gen
    /\ k.control \in {None, h.control} \/ (k.control.ask = h.gen /\ k.gen > h.gen)
    /\ \/ k.recon = None
       \/ h.recon # None /\ k.recon.ask = h.recon.ask
       \/ h.control # None /\ k.recon.ask = h.control.ask
    /\ {k.room.id, k.rejoin.id} \subseteq {0, h.room.id, h.rejoin.id, r.id}
    /\ \A i \in Nat \ {0}, n \in Nat :
          /\ Below(h, i, n)
          /\ r.id = i => r.rev < n
          /\ h.phase \in Resting => h.room.id # i
          => Below(k, i, n)
    /\ h.retired \subseteq k.retired
    /\ k.phase \in Resting /\ k.room.id # 0 =>
          h.phase \in Resting /\ k.room.id = h.room.id /\ k.rev >= h.rev

\* A call that closes leaves the invariant of the facade alone.
LEMMA ClosesIs ==
    ASSUME NEW h \in Group!FacadeType, NEW k, Closes(h, k), Capture(h)
    PROVE  Capture(k) /\ Waiting(k) /\ \A r : Turns(h, k, r)
<1>1. /\ h.gen \in Nat /\ k.gen = h.gen + 1 /\ h.rev \in Nat /\ k.rejoinRev \in Nat
      /\ \A m \in h.mics : m[1] \in Nat /\ m[1] <= h.gen
  BY GroupFields DEF Closes, Capture
<1>2. Capture(k)
  BY <1>1 DEF Closes, Capture
<1>3. Silent(k)
  BY <1>1 DEF Closes, Silent
<1>4. Waiting(k)
  <2>1. k.control # None => k.control.ask < k.control.gen
    BY <1>1 DEF Closes
  <2>. QED  BY <1>1, <1>3, <2>1 DEF Closes, Waiting, Parting, Resting
<1>5. ASSUME NEW r  PROVE Turns(h, k, r)
  <2>1. ASSUME NEW i \in Nat \ {0}, NEW n \in Nat, Below(h, i, n)
        PROVE  Below(k, i, n)
    BY <2>1, NoneTyped DEF Closes, Below
  <2>. QED  BY <1>1, <2>1, NoneTyped DEF Closes, Turns
<1>. QED  BY <1>2, <1>4, <1>5

\* The end of a call closes it, and forgets the room that could be joined again.
LEMMA TerminalIs ==
    ASSUME NEW h \in Group!FacadeType, Capture(h), NEW k, k = Group!Terminal(h)
    PROVE  /\ Closes(h, k) /\ k.phase = "ended" /\ k.rejoin = Group!NoRoom /\ k.rejoinRev = 0
           /\ k.control = None /\ k.mics = h.mics
<1>. DEFINE retired == h.retired \cup ({h.room.id} \ {0})
            live == h.live \ {h.mic}
            n == h.gen + 1
            a == [h EXCEPT !.phase = "ended", !.room = Group!NoRoom, !.mic = 0]
<1>1. k = [a EXCEPT
             !.gen = n, !.rev = 0, !.rejoin = Group!NoRoom, !.rejoinRev = 0,
             !.asked = 0, !.disc = 0, !.sync = 0, !.control = None, !.recon = None,
             !.uncertain = FALSE, !.retired = retired, !.live = live]
  BY DEF Group!Terminal, Group!Fresh, None, Group!FacadeType
<1>2. /\ retired \in SUBSET Group!RoomIds /\ n \in Nat /\ 0 \in Nat /\ live \in SUBSET Nat
      /\ live = {}
  BY GroupFields, RoomFields DEF Capture
<1>3. a \in Group!FacadeType
  BY <1>2, NoneTyped DEF Group!FacadeType, Group!Gens, Group!Revs
<1>4. k \in Group!FacadeType
  <2>. HIDE DEF a, retired, live, n
  <2>. QED  BY ZenonT(60), <1>1, <1>2, <1>3, NoneTyped, FALSE \in BOOLEAN
            DEF Group!FacadeType, Group!Gens, Group!Revs
<1>5. /\ k.gen = n /\ k.rev = 0 /\ k.rejoin = Group!NoRoom /\ k.rejoinRev = 0 /\ k.disc = 0
      /\ k.sync = 0 /\ k.control = None /\ k.recon = None /\ k.retired = retired
      /\ k.live = live /\ k.phase = "ended" /\ k.room = Group!NoRoom /\ k.mic = 0
      /\ k.mics = h.mics
  BY <1>1 DEF Group!FacadeType
<1>. HIDE DEF a
<1>. QED  BY <1>2, <1>4, <1>5, NoneTyped DEF Closes, Resting

\* What is left behind may be of a facade with the same room, and fewer requests.
SameRoom(h, g) ==
    /\ g.gen = h.gen /\ g.room = h.room /\ g.rev = h.rev /\ g.mics \subseteq h.mics
    /\ g.retired = h.retired
    /\ (g.rejoin = h.rejoin /\ g.rejoinRev = h.rejoinRev) \/ g.rejoin.id = 0

\* To close after fields that tell no room have changed is to close.
LEMMA ClosesFrom ==
    ASSUME NEW h, NEW g, NEW k, SameRoom(h, g), Closes(g, k)
    PROVE  Closes(h, k)
<1>1. ASSUME k.rejoin.id # 0
      PROVE  /\ k.rejoin.id \in {h.room.id, h.rejoin.id}
             /\ \A n \in Nat : Below(h, k.rejoin.id, n) => k.rejoin.rev < n /\ k.rejoinRev < n
  <2>1. k.rejoin.id \in {h.room.id, h.rejoin.id}
    BY <1>1 DEF Closes, SameRoom
  <2>2. ASSUME NEW n \in Nat, Below(h, k.rejoin.id, n)  PROVE Below(g, k.rejoin.id, n)
    BY <1>1, <2>2 DEF Below, SameRoom
  <2>. QED  BY <1>1, <2>1, <2>2 DEF Closes
<1>. QED  BY <1>1 DEF Closes, SameRoom

\* A failure closes the call, and keeps the room that may be joined again.
LEMMA FailIs ==
    ASSUME NEW h \in Group!FacadeType, Capture(h), NEW k, k = Group!Fail(h)
    PROVE  Closes(h, k) /\ k.control = None /\ k.phase \in {"left", "error"} /\ k.mics = h.mics
<1>. DEFINE o == Group!Terminal(h)
            rev == Group!Larger(h.rejoinRev, h.rev)
<1>1. /\ Closes(h, o) /\ o.phase = "ended" /\ o.rejoin = Group!NoRoom /\ o.rejoinRev = 0
      /\ o.control = None /\ o.mics = h.mics
  BY TerminalIs
<1>2. k = IF h.room.id # 0 /\ h.rejoin.id = h.room.id
            THEN [o EXCEPT !.phase = "left", !.rejoin = h.rejoin, !.rejoinRev = rev]
            ELSE [o EXCEPT !.phase = "error"]
  BY DEF Group!Fail
<1>3. /\ rev \in Nat /\ rev \in {h.rejoinRev, h.rev} /\ h.rejoin \in Group!Room
      /\ h.rejoin.rev \in Nat
  BY GroupFields, RoomFields DEF Group!Larger
<1>4. o \in Group!FacadeType
  BY <1>1 DEF Closes
<1>. HIDE DEF o, rev
<1>5. CASE h.room.id # 0 /\ h.rejoin.id = h.room.id
  <2>1. k = [o EXCEPT !.phase = "left", !.rejoin = h.rejoin, !.rejoinRev = rev]
    BY <1>2, <1>5
  <2>2. k \in Group!FacadeType
    BY ZenonT(60), <1>3, <1>4, <2>1 DEF Group!FacadeType, Group!Gens, Group!Revs
  <2>3. /\ k.gen = o.gen /\ k.rev = o.rev /\ k.rejoin = h.rejoin /\ k.rejoinRev = rev
        /\ k.disc = o.disc /\ k.sync = o.sync /\ k.control = o.control /\ k.recon = o.recon
        /\ k.retired = o.retired /\ k.live = o.live /\ k.phase = "left" /\ k.room = o.room
        /\ k.mic = o.mic /\ k.mics = o.mics
    BY <1>4, <2>1 DEF Group!FacadeType
  <2>4. \A n \in Nat : Below(h, k.rejoin.id, n) => k.rejoin.rev < n /\ k.rejoinRev < n
    BY <1>3, <1>5, <2>3 DEF Below
  <2>. QED  BY <1>1, <1>5, <2>2, <2>3, <2>4 DEF Closes, Resting
<1>6. CASE ~(h.room.id # 0 /\ h.rejoin.id = h.room.id)
  <2>1. k = [o EXCEPT !.phase = "error"]
    BY <1>2, <1>6
  <2>2. k \in Group!FacadeType
    BY ZenonT(60), <1>4, <2>1 DEF Group!FacadeType
  <2>3. /\ k.gen = o.gen /\ k.rev = o.rev /\ k.rejoin = o.rejoin /\ k.rejoinRev = o.rejoinRev
        /\ k.disc = o.disc /\ k.sync = o.sync /\ k.control = o.control /\ k.recon = o.recon
        /\ k.retired = o.retired /\ k.live = o.live /\ k.phase = "error" /\ k.room = o.room
        /\ k.mic = o.mic /\ k.mics = o.mics
    BY <1>4, <2>1 DEF Group!FacadeType
  <2>. QED  BY <1>1, <2>2, <2>3, NoneTyped DEF Closes, Resting
<1>. QED  BY <1>5, <1>6

\* A facade that is over may be shown in another phase.
Shows(o, k) ==
    /\ k \in Group!FacadeType
    /\ k.gen = o.gen /\ k.rev = o.rev /\ k.rejoin = o.rejoin /\ k.rejoinRev = o.rejoinRev
    /\ k.disc = o.disc /\ k.sync = o.sync /\ k.control = o.control /\ k.recon = o.recon
    /\ k.live = o.live /\ k.room = o.room /\ k.mic = o.mic /\ k.mics = o.mics
    /\ o.retired \subseteq k.retired
    /\ k.phase \in Resting \ {"left"}

\* So does an end that is shown as left or ended.
LEMMA OverIs ==
    ASSUME NEW h \in Group!FacadeType, Capture(h), NEW k, Shows(Group!Terminal(h), k)
    PROVE  Closes(h, k) /\ k.control = None /\ k.rejoin.id = 0 /\ k.mics = h.mics
<1>. DEFINE o == Group!Terminal(h)
<1>1. /\ Closes(h, o) /\ o.rejoin = Group!NoRoom /\ o.rejoinRev = 0 /\ o.control = None
      /\ o.mics = h.mics
  BY TerminalIs
<1>2. Shows(o, k)
  OBVIOUS
<1>. HIDE DEF o
<1>. QED  BY <1>1, <1>2, NoneTyped DEF Closes, Shows

-----------------------------------------------------------------------------
(* A call begins.                                                          *)

\* A new generation begins with k, of a room known from h or from r.
Begins(h, k, r) ==
    /\ k \in Group!FacadeType
    /\ k.gen = h.gen + 1 /\ k.mic = 0 /\ k.live = h.live /\ k.phase = "requesting"
    /\ k.control = None /\ k.recon = None /\ k.sync = 0 /\ k.retired = h.retired
    /\ \/ k.mics = h.mics /\ k.disc \in {0, h.disc, k.gen}
       \/ /\ \/ k.mics = h.mics \cup {<<k.gen, "start">>}
             \/ k.mics = h.mics \cup {<<k.gen, "join">>} /\ k.room.id # 0
          /\ k.disc \in {0, h.disc}
    /\ {k.room.id, k.rejoin.id} \subseteq {0, h.room.id, h.rejoin.id, r.id}
    /\ \A i \in Nat \ {0}, n \in Nat :
          Below(h, i, n) /\ (r.id = i => r.rev < n) => Below(k, i, n)

\* A generation that begins waits for nothing of the last one.
LEMMA BeginsIs ==
    ASSUME NEW h \in Group!FacadeType, NEW k, NEW r, Begins(h, k, r), Capture(h), h.mic = 0,
           h.disc <= h.gen
    PROVE  Capture(k) /\ Waiting(k) /\ Turns(h, k, r)
<1>1. /\ h.gen \in Nat /\ k.gen = h.gen + 1 /\ h.disc \in Nat
      /\ \A m \in h.mics : m[1] \in Nat /\ m[1] <= h.gen /\ m[1] # k.gen
  BY GroupFields DEF Begins, Capture
<1>2. \A m \in k.mics : m \in h.mics \/ m[1] = k.gen
  BY DEF Begins
<1>3. Capture(k)
  <2>1. \A m, n \in k.mics : m[1] = n[1] => m = n
    BY <1>1 DEF Begins, Capture
  <2>2. \A m \in k.mics : 0 < m[1] /\ m[1] <= k.gen
    BY <1>1, <1>2 DEF Capture
  <2>3. \A m \in k.mics : m[1] = k.gen /\ m[2] = "join" => k.room.id # 0
    BY <1>1 DEF Begins
  <2>4. k.mic = 0 /\ k.live = {} /\ k.phase = "requesting"
    BY DEF Begins, Capture
  <2>. QED  BY <2>1, <2>2, <2>3, <2>4 DEF Capture, Resting
<1>4. Waiting(k)
  <2>1. k.disc # 0 /\ k.disc = k.gen => k.mics = h.mics
    BY <1>1 DEF Begins
  <2>2. k.disc <= k.gen
    BY <1>1 DEF Begins
  <2>. QED  BY <1>1, <2>1, <2>2 DEF Begins, Waiting, Parting, Silent, Resting
<1>5. Turns(h, k, r)
  BY <1>1 DEF Begins, Turns, Resting
<1>. QED  BY <1>3, <1>4, <1>5

\* What is reset when a generation begins.
LEMMA BegunIs ==
    ASSUME NEW h \in Group!FacadeType, NEW k, k = Group!Begun(h)
    PROVE  /\ k \in Group!FacadeType
           /\ k.gen = h.gen + 1 /\ k.mic = 0 /\ k.live = h.live /\ k.phase = "requesting"
           /\ k.control = None /\ k.recon = None /\ k.sync = 0 /\ k.retired = h.retired
           /\ k.mics = h.mics /\ k.disc = h.disc /\ k.room = Group!NoRoom /\ k.rev = 0
           /\ k.rejoin = h.rejoin /\ k.rejoinRev = h.rejoinRev
<1>. DEFINE n == h.gen + 1
            a == [h EXCEPT !.phase = "requesting", !.room = Group!NoRoom, !.mic = 0]
<1>1. k = [a EXCEPT !.gen = n, !.rev = 0, !.sync = 0, !.control = None,
                    !.recon = None, !.timer = FALSE]
  BY DEF Group!Begun, Group!Fresh, None, Group!FacadeType
<1>2. n \in Nat /\ 0 \in Nat
  BY GroupFields
<1>3. a \in Group!FacadeType
  BY <1>2, NoneTyped DEF Group!FacadeType, Group!Gens, Group!Revs
<1>4. k \in Group!FacadeType
  <2>. HIDE DEF a, n
  <2>. QED  BY ZenonT(60), <1>1, <1>2, <1>3, NoneTyped, FALSE \in BOOLEAN
            DEF Group!FacadeType, Group!Gens, Group!Revs
<1>. QED  BY <1>1, <1>4 DEF Group!FacadeType

\* To start a room begins a generation.
LEMMA StartingIs ==
    ASSUME NEW h \in Group!FacadeType, NEW k, k = Group!Starting(h)
    PROVE  Begins(h, k, Group!NoRoom)
<1>. DEFINE b == Group!Begun(h)
            mics == h.mics \cup {<<h.gen + 1, "start">>}
<1>1. /\ b \in Group!FacadeType
      /\ b.gen = h.gen + 1 /\ b.mic = 0 /\ b.live = h.live /\ b.phase = "requesting"
      /\ b.control = None /\ b.recon = None /\ b.sync = 0 /\ b.retired = h.retired
      /\ b.mics = h.mics /\ b.disc = h.disc /\ b.room = Group!NoRoom /\ b.rev = 0
      /\ b.rejoin = h.rejoin /\ b.rejoinRev = h.rejoinRev
  BY BegunIs
<1>2. k = [b EXCEPT !.rejoin = Group!NoRoom, !.rejoinRev = 0, !.mics = mics]
  BY <1>1 DEF Group!Starting, Group!FacadeType
<1>3. mics \in SUBSET (Nat \X {"start", "join"}) /\ 0 \in Nat
  BY GroupFields
<1>. HIDE DEF b
<1>4. k \in Group!FacadeType
  <2>. HIDE DEF mics
  <2>. QED  BY ZenonT(60), <1>1, <1>2, <1>3, NoneTyped DEF Group!FacadeType, Group!Gens, Group!Revs
<1>5. /\ k.gen = b.gen /\ k.mic = b.mic /\ k.live = b.live /\ k.phase = b.phase
      /\ k.control = b.control /\ k.recon = b.recon /\ k.sync = b.sync /\ k.retired = b.retired
      /\ k.mics = mics /\ k.disc = b.disc /\ k.room = b.room /\ k.rev = b.rev
      /\ k.rejoin = Group!NoRoom /\ k.rejoinRev = 0
  BY <1>1, <1>2 DEF Group!FacadeType
<1>. QED  BY <1>1, <1>4, <1>5, NoneTyped DEF Begins, Below

\* So does to join one that is known.
LEMMA JoiningIs ==
    ASSUME NEW h \in Group!FacadeType, NEW room \in Group!Room, NEW k,
           k = Group!Joining(h, room), NEW r,
           room.id \in {h.room.id, h.rejoin.id, r.id}, room.id # 0,
           \A n \in Nat : Below(h, room.id, n) /\ (r.id = room.id => r.rev < n) => room.rev < n
    PROVE  Begins(h, k, r)
<1>. DEFINE b == Group!Begun(h)
            mics == h.mics \cup {<<h.gen + 1, "join">>}
            rev == IF room.rev > 0 THEN room.rev
                   ELSE IF h.phase = "left" /\ h.rejoin.id = room.id THEN h.rejoinRev ELSE 0
<1>1. /\ b \in Group!FacadeType
      /\ b.gen = h.gen + 1 /\ b.mic = 0 /\ b.live = h.live /\ b.phase = "requesting"
      /\ b.control = None /\ b.recon = None /\ b.sync = 0 /\ b.retired = h.retired
      /\ b.mics = h.mics /\ b.disc = h.disc /\ b.room = Group!NoRoom /\ b.rev = 0
      /\ b.rejoin = h.rejoin /\ b.rejoinRev = h.rejoinRev
  BY BegunIs
<1>2. k = [b EXCEPT !.room = room, !.mics = mics, !.rev = rev]
  BY <1>1 DEF Group!Joining, Group!FacadeType
<1>3. /\ mics \in SUBSET (Nat \X {"start", "join"}) /\ 0 \in Nat /\ rev \in Nat
      /\ room.rev \in Nat /\ h.rejoinRev \in Nat
  BY GroupFields, RoomFields
<1>4. ASSUME NEW n \in Nat, Below(h, room.id, n), room.rev < n  PROVE rev < n
  BY <1>3, <1>4 DEF Below
<1>. HIDE DEF b, rev
<1>5. k \in Group!FacadeType
  <2>. HIDE DEF mics
  <2>. QED  BY ZenonT(60), <1>1, <1>2, <1>3, NoneTyped DEF Group!FacadeType, Group!Gens, Group!Revs
<1>6. /\ k.gen = b.gen /\ k.mic = b.mic /\ k.live = b.live /\ k.phase = b.phase
      /\ k.control = b.control /\ k.recon = b.recon /\ k.sync = b.sync /\ k.retired = b.retired
      /\ k.mics = mics /\ k.disc = b.disc /\ k.room = room /\ k.rev = rev
      /\ k.rejoin = h.rejoin /\ k.rejoinRev = h.rejoinRev
  BY <1>1, <1>2 DEF Group!FacadeType
<1>7. ASSUME NEW i \in Nat \ {0}, NEW n \in Nat, Below(h, i, n), r.id = i => r.rev < n
      PROVE  Below(k, i, n)
  <2>1. room.id = i => room.rev < n
    BY <1>7
  <2>2. room.id = i => rev < n
    BY <1>4, <1>7, <2>1
  <2>. QED  BY <1>6, <1>7, <2>1, <2>2 DEF Below
<1>. QED  BY <1>1, <1>5, <1>6, <1>7 DEF Begins

-----------------------------------------------------------------------------
(* The wire and the server.                                                *)

\* The types of what is under way.
LEMMA WireTyped ==
    ASSUME RoomBounds, Group!TypeOK
    PROVE  /\ group \in Group!FacadeType /\ asks \in Seq(Group!Request)
           /\ rooms.room \in Group!Room /\ rooms.last \in Nat /\ rooms.room.id \in Nat
           /\ rooms.room.rev \in Nat
           /\ \A e \in tells : e \in Group!Event /\ e.room \in Group!Room /\ e.gen \in Nat
                                 /\ e.room.id \in Nat /\ e.room.rev \in Nat
           /\ \A i \in DOMAIN asks : asks[i] \in Group!Request /\ asks[i].gen \in Nat
           /\ {group.room, group.rejoin} \subseteq Group!Room
           /\ {group.room.id, group.rejoin.id, group.room.rev, group.rejoin.rev} \subseteq Nat
<1>1. \A i \in DOMAIN asks : asks[i] \in Group!Request
  BY LenProperties, ElementOfSeq DEF Group!TypeOK
<1>2. \A e \in tells : e \in Group!Event /\ e.room \in Group!Room /\ e.gen \in Nat
  BY DEF Group!TypeOK, Group!Event, Group!Gens
<1>3. rooms.room \in Group!Room /\ rooms.last \in Group!RoomIds \cup {0}
  BY DEF Group!TypeOK
<1>4. \A r \in Group!Room : r.id \in Nat /\ r.rev \in Nat
  BY RoomFields, RoomIdsAre
<1>5. \A i \in DOMAIN asks : asks[i].gen \in Nat
  BY <1>1 DEF Group!Request, Group!Gens
<1>6. group \in Group!FacadeType /\ group.room \in Group!Room /\ group.rejoin \in Group!Room
  BY GroupFields DEF Group!TypeOK
<1>. QED  BY <1>1, <1>2, <1>3, <1>4, <1>5, <1>6, RoomIdsAre DEF Group!TypeOK

\* The room a step hears of is one that has not ended.
Heard(r, d, x) ==
    r.id = 0 \/ \E e \in d : Speaks(e) /\ e.room = r /\ r.id \notin x

\* What has ended stays ended when the facade turns.
LEMMA TurnFinal ==
    ASSUME RoomBounds, GroupInv, NEW k \in Group!FacadeType, NEW r, Turns(group, k, r),
           Heard(r, tells, closed), NEW d \in SUBSET tells
    PROVE  RoomsNamed(k, d, rooms, closed) /\ Final(k, d, rooms, closed)
<1>1. /\ group \in Group!FacadeType
      /\ rooms.last \in Nat /\ rooms.room.id \in Nat /\ rooms.room.rev \in Nat
      /\ \A e \in tells : e.gen \in Nat /\ e.room.id \in Nat /\ e.room.rev \in Nat
      /\ group.gen \in Nat /\ k.gen \in Nat /\ k.rev \in Nat /\ group.rev \in Nat /\ k.disc \in Nat
      /\ group.disc \in Nat
  BY WireTyped, GroupFields DEF GroupInv
<1>2. r.id = 0 \/ (r.id <= rooms.last /\ r.id \in Nat /\ r.id \notin closed)
  BY <1>1 DEF Heard, Speaks, GroupInv, RoomsNamed
<1>3. 0 \notin closed
  BY <1>1 DEF GroupInv, RoomsNamed
<1>4. /\ {k.room.id, k.rejoin.id} \subseteq 0 .. rooms.last
      /\ {k.room.id, k.rejoin.id} \cap closed = {}
  BY <1>1, <1>2, <1>3 DEF Turns, GroupInv, RoomsNamed, Final
<1>5. RoomsNamed(k, d, rooms, closed)
  BY <1>4 DEF GroupInv, RoomsNamed
<1>6. ASSUME NEW i \in Nat \ {0}, NEW n \in Nat, Limited(group, tells, i, n),
             group.phase \in Resting => group.room.id # i
      PROVE  Limited(k, d, i, n)
  <2>1. r.id = i => r.rev < n
    BY <1>6 DEF Heard, Limited
  <2>. QED  BY <1>6, <2>1 DEF Limited, Turns
<1>7. rooms.room.id # 0 => Limited(k, d, rooms.room.id, rooms.room.rev + 1)
  BY <1>1, <1>6 DEF GroupInv, Final
<1>8. \A e \in d : e.type = "ended" => Limited(k, d, e.room.id, e.room.rev)
  BY <1>1, <1>6 DEF GroupInv, Final, RoomsNamed
<1>9. \A e \in d : e.type = "discovered" /\ k.disc # 0 /\ e.gen = k.disc => e.room.id \notin closed
  <2>1. \A e \in tells : e.gen <= group.gen
    BY DEF GroupInv, Wired
  <2>2. k.disc = 0 \/ k.disc = group.disc \/ k.disc > group.gen
    BY DEF Turns
  <2>. QED  BY <1>1, <2>1, <2>2 DEF GroupInv, Final
<1>10. \A e \in d : IsSnapshot(e) /\ ~e.gone /\ k.recon # None /\ e.gen = k.recon.ask => e.room.id \notin closed
  BY DEF GroupInv, Final, Wired, Turns
<1>11. k.phase \in Resting /\ k.room.id # 0 =>
          /\ FullEnds /\ k.room.id # rooms.room.id
          /\ \A e \in d : e.type = "ended" => e.room.id # k.room.id
          /\ \A e \in d : Speaks(e) /\ e.room.id = k.room.id => e.room.rev <= k.rev
  BY <1>1 DEF GroupInv, Final, Turns
<1>12. closed \subseteq k.retired
  BY DEF GroupInv, Final, Turns
<1>. QED  BY <1>4, <1>5, <1>7, <1>8, <1>9, <1>10, <1>11, <1>12 DEF GroupInv, Final

\* A request is of this generation, and one for a snapshot of a control that was answered.
Requests(k, q) ==
    /\ q \in Group!Request /\ q.gen <= k.gen
    /\ q.type = "resync" => q.gen < k.gen /\ k.control = None
    /\ q.type = "discover" => q.gen # 0
    /\ q.type = "join" => q.id # 0

\* What is on the wire is still of a generation that was when the facade turns.
LEMMA TurnWired ==
    ASSUME RoomBounds, GroupInv, NEW k \in Group!FacadeType, NEW r, Turns(group, k, r),
           NEW d \in SUBSET tells, NEW u,
           u = asks \/ u = <<>> \/ \E q : Requests(k, q) /\ u = Append(asks, q)
    PROVE  u \in Seq(Group!Request) /\ Wired(k, u, d)
<1>1. /\ group.gen \in Nat /\ k.gen \in Nat /\ k.gen >= group.gen
      /\ asks \in Seq(Group!Request)
      /\ \A i \in DOMAIN asks : asks[i].gen \in Nat
      /\ \A e \in tells : e.gen \in Nat
  BY WireTyped, GroupFields DEF GroupInv, Turns
<1>2. \A e \in d : e.gen <= k.gen /\ (e.type = "discovered" => e.gen # 0)
  BY <1>1 DEF GroupInv, Wired
<1>3. \A e \in d : IsSnapshot(e) => e.gen < k.gen /\ (k.control # None => e.gen # k.control.ask)
  BY <1>1 DEF GroupInv, Wired, Turns
<1>4. \A i \in DOMAIN asks :
         /\ asks[i].gen <= k.gen
         /\ asks[i].type = "resync" =>
               asks[i].gen < k.gen /\ (k.control # None => asks[i].gen # k.control.ask)
         /\ asks[i].type = "discover" => asks[i].gen # 0
         /\ asks[i].type = "join" => asks[i].id # 0
  BY <1>1 DEF GroupInv, Wired, Turns
<1>5. CASE u = asks
  BY <1>1, <1>2, <1>3, <1>4, <1>5 DEF Wired
<1>6. CASE u = <<>>
  <2>1. DOMAIN u = {} /\ u \in Seq(Group!Request)
    BY <1>6
  <2>. QED  BY <1>2, <1>3, <2>1 DEF Wired
<1>7. ASSUME NEW q, Requests(k, q), u = Append(asks, q)
      PROVE  u \in Seq(Group!Request) /\ Wired(k, u, d)
  <2>1. q \in Group!Request
    BY <1>7 DEF Requests
  <2>2. /\ u \in Seq(Group!Request)
        /\ \A i \in DOMAIN u : u[i] = q \/ (i \in DOMAIN asks /\ u[i] = asks[i])
    BY <1>1, <1>7, <2>1, AppendFacts
  <2>. QED  BY <1>2, <1>3, <1>4, <1>7, <2>2 DEF Wired, Requests
<1>. QED  BY <1>5, <1>6, <1>7

\* The server has the room it had, or none.
Stays(s, t) ==
    /\ t.last = s.last /\ t.room \in {s.room, Group!NoRoom}
    /\ t.stale => t.room.me
    /\ t \in [room : Group!Room, last : Group!RoomIds \cup {0}, stale : BOOLEAN, member : BOOLEAN]

\* A server that does nothing stays.
LEMMA StaysIs ==
    ASSUME GroupInv  PROVE Stays(rooms, rooms)
  BY DEF GroupInv, Group!TypeOK, Serving, Stays

\* What has ended stays ended when the server stays.
LEMMA StaysFinal ==
    ASSUME RoomBounds, NEW h, NEW d, NEW s, NEW t, NEW x, Stays(s, t), Serving(s),
           RoomsNamed(h, d, s, x), Final(h, d, s, x)
    PROVE  RoomsNamed(h, d, t, x) /\ Final(h, d, t, x) /\ Serving(t)
<1>1. RoomsNamed(h, d, t, x)
  BY DEF Stays, RoomsNamed
<1>2. t.room = s.room \/ (t.room.id = 0 /\ t.room = Group!NoRoom /\ ~t.room.me /\ ~t.room.peer)
  BY DEF Stays, Group!NoRoom
<1>3. Serving(t)
  BY <1>2 DEF Serving, Stays
<1>4. 0 \notin x /\ \A e \in d : e.type = "ended" => e.room.id # 0
  BY DEF RoomsNamed
<1>5. Final(h, d, t, x)
  BY <1>2, <1>4 DEF Final
<1>. QED  BY <1>1, <1>3, <1>5

\* A step of the facade keeps the invariant.
LEMMA TurnKeeps ==
    ASSUME RoomBounds, GroupInv, NEW k \in Group!FacadeType, NEW r, Turns(group, k, r),
           Heard(r, tells, closed), Capture(k), Waiting(k),
           group' = k, tells' \in SUBSET tells, rooms' = rooms \/ Stays(rooms, rooms'),
           closed' = closed, linked' \in BOOLEAN, moves' \in 0 .. MaxEffort,
           asks' = asks \/ asks' = <<>> \/ \E q : Requests(k, q) /\ asks' = Append(asks, q)
    PROVE  GroupInv'
<1>1. RoomsNamed(group', tells', rooms, closed') /\ Final(group', tells', rooms, closed')
  BY TurnFinal
<1>2. asks' \in Seq(Group!Request) /\ Wired(group', asks', tells')
  BY TurnWired
<1>3. Stays(rooms, rooms') /\ Serving(rooms)
  BY StaysIs DEF GroupInv
<1>4. /\ RoomsNamed(group', tells', rooms', closed') /\ Final(group', tells', rooms', closed')
      /\ Serving(rooms')
  BY <1>1, <1>3, StaysFinal
<1>5. Group!TypeOK'
  BY <1>2, <1>3 DEF GroupInv, Group!TypeOK, Stays
<1>6. Capture(group') /\ Waiting(group')
  OBVIOUS
<1>. QED  BY <1>2, <1>4, <1>5, <1>6 DEF GroupInv

-----------------------------------------------------------------------------
(* The steps of the user and of the browser.                               *)

\* What every step keeps, and what it may do.
GroupKept == GroupInv' /\ Group!EstablishedRoomHolds /\ Group!LateGrantIsFenced

\* An effort that is spent is within its bound.
LEMMA SpendIs ==
    ASSUME RoomBounds, GroupInv
    PROVE  /\ Group!Spend => moves' \in 0 .. MaxEffort /\ moves' # moves
           /\ moves' = moves => moves' \in 0 .. MaxEffort
           /\ linked \in BOOLEAN
  BY RoomIdsAre DEF GroupInv, Group!TypeOK, Group!Spend

\* What is sent, or that it cannot be.
LEMMA SendIs ==
    ASSUME NEW k, NEW type, NEW id, NEW gen,
           Group!Become(Group!Send(Group!With(k), type, id, gen))
    PROVE  /\ gen # k.gen => group' = k /\ asks' = asks
           /\ gen = k.gen /\ ~linked => group' = Group!Fail(k) /\ asks' = asks
           /\ gen = k.gen /\ linked =>
                 group' = k /\ asks' = Append(asks, [type |-> type, id |-> id, gen |-> gen])
<1>. DEFINE w == [f |-> k, up |-> asks, ready |-> linked]
<1>1. Group!With(k) = w
  BY DEF Group!With, Group!World
<1>2. group' = Group!Send(w, type, id, gen).f /\ asks' = Group!Send(w, type, id, gen).up
  BY <1>1 DEF Group!Become
<1>3. gen # k.gen => Group!Send(w, type, id, gen) = w
  BY DEF Group!Send
<1>4. gen = k.gen /\ ~linked => Group!Send(w, type, id, gen) = [w EXCEPT !.f = Group!Fail(k)]
  BY DEF Group!Send
<1>5. gen = k.gen /\ linked =>
         Group!Send(w, type, id, gen)
           = [w EXCEPT !.up = Append(asks, [type |-> type, id |-> id, gen |-> gen])]
  BY DEF Group!Send
<1>. QED  BY <1>2, <1>3, <1>4, <1>5

\* A call that is over keeps what the wire and the server know.
LEMMA ClosesKeeps ==
    ASSUME RoomBounds, GroupInv, NEW k, Closes(group, k), group' = k,
           (\A m \in group.mics \ k.mics : m[1] = group.gen) \/ moves' # moves,
           tells' \in SUBSET tells, rooms' = rooms \/ Stays(rooms, rooms'), closed' = closed,
           linked' \in BOOLEAN, moves' \in 0 .. MaxEffort,
           asks' = asks \/ asks' = <<>> \/ \E q : Requests(k, q) /\ asks' = Append(asks, q)
    PROVE  GroupKept
<1>1. group \in Group!FacadeType /\ Capture(group) /\ group.gen \in Nat
  BY WireTyped, GroupFields DEF GroupInv
<1>2. Capture(k) /\ Waiting(k) /\ Turns(group, k, Group!NoRoom) /\ k \in Group!FacadeType
  BY <1>1, ClosesIs DEF Closes
<1>3. GroupInv'
  BY <1>2, NoneTyped, TurnKeeps DEF Heard
<1>4. k.gen # group.gen
  BY <1>1 DEF Closes
<1>. QED  BY <1>3, <1>4 DEF GroupKept, Group!EstablishedRoomHolds, Group!RoomStays,
             Group!LateGrantIsFenced

\* A step that begins a generation keeps the invariant.
LEMMA BeginsKeeps ==
    ASSUME RoomBounds, GroupInv, NEW k, NEW r, Begins(group, k, r), group.mic = 0, group' = k,
           Heard(r, tells, closed),
           tells' \in SUBSET tells, rooms' = rooms, closed' = closed,
           linked' \in BOOLEAN, moves' \in 0 .. MaxEffort,
           asks' = asks \/ asks' = <<>> \/ \E q : Requests(k, q) /\ asks' = Append(asks, q)
    PROVE  GroupKept
<1>1. /\ group \in Group!FacadeType /\ Capture(group) /\ group.gen \in Nat /\ group.disc <= group.gen
  BY WireTyped, GroupFields DEF GroupInv, Waiting
<1>2. Capture(k) /\ Waiting(k) /\ Turns(group, k, r) /\ k \in Group!FacadeType
  BY <1>1, BeginsIs DEF Begins
<1>3. GroupInv'
  BY <1>2, TurnKeeps
<1>4. k.gen # group.gen /\ group.mics \subseteq k.mics
  BY <1>1 DEF Begins
<1>. QED  BY <1>3, <1>4 DEF GroupKept, Group!EstablishedRoomHolds, Group!RoomStays,
             Group!LateGrantIsFenced

\* Discovering a room before a start: group-call-facade.service.ts:214.
LEMMA DiscoverAndStartStep ==
    ASSUME RoomBounds, GroupInv, Group!DiscoverAndStart  PROVE GroupKept
<1>. DEFINE b == Group!Begun(group)
            n == group.gen + 1
            k == [b EXCEPT !.disc = n]
            q == [type |-> "discover", id |-> 0, gen |-> n]
<1>1. /\ group \in Group!FacadeType /\ Capture(group) /\ group.gen \in Nat /\ n \in Nat
      /\ group.mic = 0
  BY WireTyped, GroupFields DEF GroupInv, Capture, Group!DiscoverAndStart, Group!IsOngoing
<1>2. /\ b \in Group!FacadeType
      /\ b.gen = group.gen + 1 /\ b.mic = 0 /\ b.live = group.live /\ b.phase = "requesting"
      /\ b.control = None /\ b.recon = None /\ b.sync = 0 /\ b.retired = group.retired
      /\ b.mics = group.mics /\ b.disc = group.disc /\ b.room = Group!NoRoom /\ b.rev = 0
      /\ b.rejoin = group.rejoin /\ b.rejoinRev = group.rejoinRev
  BY <1>1, BegunIs
<1>3. /\ Group!Become(Group!Send(Group!With(k), "discover", 0, n)) /\ linked
      /\ UNCHANGED <<tells, rooms, linked, closed, moves>>
  BY DEF Group!DiscoverAndStart
<1>. HIDE DEF b
<1>4. k \in Group!FacadeType
  <2>. HIDE DEF n
  <2>. QED  BY ZenonT(60), <1>1, <1>2 DEF Group!FacadeType, Group!Gens
<1>5. /\ k.gen = b.gen /\ k.mic = b.mic /\ k.live = b.live /\ k.phase = b.phase
      /\ k.control = b.control /\ k.recon = b.recon /\ k.sync = b.sync /\ k.retired = b.retired
      /\ k.mics = b.mics /\ k.disc = n /\ k.room = b.room /\ k.rev = b.rev
      /\ k.rejoin = b.rejoin /\ k.rejoinRev = b.rejoinRev
  BY <1>2 DEF Group!FacadeType
<1>. HIDE DEF k
<1>6. Begins(group, k, Group!NoRoom)
  BY <1>1, <1>2, <1>4, <1>5, NoneTyped DEF Begins, Below
<1>7. group' = k /\ asks' = Append(asks, q)
  BY <1>2, <1>3, <1>5, SendIs
<1>8. Requests(k, q)
  BY <1>1, <1>2, <1>5 DEF Requests, Group!Request, Group!Asks, Group!Gens
<1>. QED  BY <1>1, <1>3, <1>6, <1>7, <1>8, BeginsKeeps, SpendIs, NoneTyped DEF Heard

\* A discovery that is not answered starts a room or gives up.
LEMMA DiscoveryTimesOutStep ==
    ASSUME RoomBounds, GroupInv, Group!DiscoveryTimesOut  PROVE GroupKept
<1>. DEFINE h == [group EXCEPT !.disc = 0]
<1>1. group \in Group!FacadeType /\ Capture(group)
  BY WireTyped DEF GroupInv
<1>2. group' = Group!Fail(h) /\ UNCHANGED <<asks, tells, rooms, linked, closed>> /\ Group!Spend
  BY DEF Group!DiscoveryTimesOut
<1>3. h \in Group!FacadeType /\ SameRoom(group, h) /\ Capture(h)
  BY <1>1 DEF Group!FacadeType, SameRoom, Capture, Group!Gens
<1>. HIDE DEF h
<1>4. Closes(group, group')
  BY <1>2, <1>3, FailIs, ClosesFrom
<1>. QED  BY <1>2, <1>4, ClosesKeeps, SpendIs

\* A microphone that is denied, of any generation.
LEMMA DeniedStep ==
    ASSUME RoomBounds, GroupInv, NEW m \in group.mics, Group!Denied(m)  PROVE GroupKept
<1>. DEFINE mics == group.mics \ {m}
            h == [group EXCEPT !.mics = mics]
<1>1. group \in Group!FacadeType /\ Capture(group) /\ mics \in SUBSET (Nat \X {"start", "join"})
  BY WireTyped, GroupFields DEF GroupInv
<1>2. group' = Group!Fail(h) /\ UNCHANGED <<asks, tells, rooms, linked, closed>> /\ Group!Spend
  BY DEF Group!Denied
<1>3. h \in Group!FacadeType /\ SameRoom(group, h) /\ Capture(h)
  <2>1. h \in Group!FacadeType
    <3>. HIDE DEF mics
    <3>. QED  BY ZenonT(60), <1>1 DEF Group!FacadeType, Group!Gens
  <2>. QED  BY <1>1, <2>1 DEF Group!FacadeType, SameRoom, Capture
<1>. HIDE DEF h
<1>4. Closes(group, group')
  BY <1>2, <1>3, FailIs, ClosesFrom
<1>. QED  BY <1>2, <1>4, ClosesKeeps, SpendIs

\* Joining the room that rings.
LEMMA JoinStep ==
    ASSUME RoomBounds, GroupInv, Group!Join  PROVE GroupKept
<1>. DEFINE room == [group.room EXCEPT !.rev = group.rev]
<1>1. /\ group \in Group!FacadeType /\ group.room \in Group!Room /\ group.rev \in Nat
      /\ group.room.id # 0 /\ group.mic = 0 /\ group' = Group!Joining(group, room)
      /\ UNCHANGED <<asks, tells, rooms, linked, closed, moves>>
  BY WireTyped, GroupFields DEF GroupInv, Group!Join
<1>2. room \in Group!Room /\ room.id = group.room.id /\ room.rev = group.rev
  BY <1>1 DEF Group!Room, Group!Revs
<1>. HIDE DEF room
<1>3. Begins(group, group', Group!NoRoom)
  BY <1>1, <1>2, JoiningIs DEF Below
<1>. QED  BY <1>1, <1>3, BeginsKeeps, SpendIs, NoneTyped DEF Heard

\* Joining the room that was left.
LEMMA RejoinStep ==
    ASSUME RoomBounds, GroupInv, Group!Rejoin  PROVE GroupKept
<1>1. /\ group \in Group!FacadeType /\ group.rejoin \in Group!Room
      /\ group.rejoin.id # 0 /\ group.mic = 0 /\ group' = Group!Joining(group, group.rejoin)
      /\ UNCHANGED <<asks, tells, rooms, linked, closed, moves>>
  BY WireTyped, GroupFields DEF GroupInv, Capture, Group!Rejoin, Group!CanRejoin
<1>2. Begins(group, group', Group!NoRoom)
  BY <1>1, JoiningIs DEF Below
<1>. QED  BY <1>1, <1>2, BeginsKeeps, SpendIs, NoneTyped DEF Heard

\* Leaving or ending the room.
LEMMA LeaveStep ==
    ASSUME RoomBounds, GroupInv, NEW type \in {"leave", "end"}, Group!Leave(type)
    PROVE  GroupKept
<1>. DEFINE q == [type |-> type, id |-> group.room.id, gen |-> group.gen]
            o == Group!Terminal(group)
            control == [type |-> type, room |-> group.room, base |-> group.rev,
                        ask |-> group.gen, gen |-> o.gen, advanced |-> FALSE]
            away == type = "leave" /\ (group.room.peer \/ ~group.room.me)
            phase == IF away THEN "left" ELSE "ended"
            rejoin == IF away THEN group.room ELSE Group!NoRoom
            rev == IF away THEN group.rev ELSE 0
            k == [[o EXCEPT !.control = control, !.phase = phase, !.rejoin = rejoin,
                            !.rejoinRev = rev] EXCEPT !.timer = TRUE]
            asked == Group!Send(Group!World, type, group.room.id, group.gen)
<1>1. /\ group \in Group!FacadeType /\ group.gen \in Nat /\ group.rev \in Nat
      /\ group.room \in Group!Room /\ group.room.id # 0 /\ Capture(group)
      /\ UNCHANGED <<tells, rooms, linked, closed, moves>>
  BY WireTyped, GroupFields DEF GroupInv, Group!Leave
<1>2. q \in Group!Request /\ q.gen = group.gen /\ q.type # "resync"
  BY <1>1, RoomFields DEF Group!Request, Group!Asks, Group!Gens
<1>3. CASE ~linked
  <2>1. asked = [Group!World EXCEPT !.f = Group!Fail(group)]
    BY <1>3 DEF Group!Send, Group!World
  <2>2. Group!Become(asked)
    BY <1>3 DEF Group!Leave
  <2>3. group' = Group!Fail(group) /\ asks' = asks
    BY <2>1, <2>2 DEF Group!Become, Group!World
  <2>4. Closes(group, group') /\ group'.mics = group.mics
    BY <1>1, <2>3, FailIs
  <2>. QED  BY <1>1, <2>3, <2>4, ClosesKeeps, SpendIs
<1>4. CASE linked
  <2>1. asked = [f |-> group, up |-> Append(asks, q), ready |-> linked]
    BY <1>4 DEF Group!Send, Group!World
  <2>2. Group!Become(Group!Leaving(asked, type))
    BY <1>4 DEF Group!Leave
  <2>. HIDE DEF asked
  <2>3. /\ Closes(group, o) /\ o.rejoin = Group!NoRoom /\ o.control = None
        /\ o \in Group!FacadeType /\ o.gen = group.gen + 1 /\ o.mics = group.mics
    BY <1>1, TerminalIs DEF Closes
  <2>4. Group!Leaving(asked, type) = [f |-> k, up |-> Append(asks, q), ready |-> linked]
    <3>1. asked.f = group
      BY <2>1
    <3>2. Group!Leaving(asked, type) = [asked EXCEPT !.f = k]
      BY <3>1, Zenon DEF Group!Leaving, Group!Dismissing
    <3>. HIDE DEF k, q
    <3>. QED  BY <2>1, <3>2
  <2>5. group' = k /\ asks' = Append(asks, q)
    BY <2>2, <2>4 DEF Group!Become
  <2>6. /\ control \in Group!Control /\ control.gen = o.gen /\ control.ask = group.gen
        /\ control.room = group.room
    <3>1. o.gen \in Nat
      BY <1>1, <2>3
    <3>. HIDE DEF o
    <3>. QED  BY <1>1, <3>1 DEF Group!Control, Group!Revs, Group!Gens
  <2>7. /\ phase \in Resting /\ phase \in {"left", "ended"} /\ rejoin \in Group!Room /\ rev \in Nat
        /\ rejoin.id = 0 \/ (rejoin = group.room /\ rev = group.rev)
        /\ phase = "left" => rejoin.id # 0
    BY <1>1, NoneTyped DEF Resting
  <2>. HIDE DEF o, control, phase, rejoin, rev
  <2>8. k \in Group!FacadeType
    BY ZenonT(60), <2>3, <2>6, <2>7, TRUE \in BOOLEAN DEF Group!FacadeType, Group!Gens, Group!Revs
  <2>9. /\ k.gen = o.gen /\ k.rev = o.rev /\ k.rejoin = rejoin /\ k.rejoinRev = rev
        /\ k.disc = o.disc /\ k.sync = o.sync /\ k.control = control /\ k.recon = o.recon
        /\ k.retired = o.retired /\ k.live = o.live /\ k.phase = phase /\ k.room = o.room
        /\ k.mic = o.mic /\ k.mics = o.mics
    BY <2>3 DEF Group!FacadeType
  <2>. HIDE DEF k
  <2>10. \A n \in Nat : rejoin.id # 0 /\ Below(group, rejoin.id, n) => rejoin.rev < n /\ rev < n
    BY <2>7 DEF Below
  <2>11. Closes(group, k) /\ k.mics = group.mics
    BY <1>1, <2>3, <2>6, <2>7, <2>8, <2>9, <2>10 DEF Closes
  <2>12. Requests(k, q)
    BY <1>1, <1>2, <2>11 DEF Requests, Closes
  <2>. HIDE DEF q
  <2>. QED  BY <1>1, <2>5, <2>11, <2>12, ClosesKeeps, SpendIs
<1>. QED  BY <1>3, <1>4

\* A step within a generation, or one that hears of a room.
LEMMA TurnStep ==
    ASSUME RoomBounds, GroupInv, NEW k \in Group!FacadeType, NEW r, Turns(group, k, r),
           Heard(r, tells, closed), Capture(k), Waiting(k),
           group' = k, tells' \in SUBSET tells, rooms' = rooms \/ Stays(rooms, rooms'),
           closed' = closed, linked' \in BOOLEAN, moves' \in 0 .. MaxEffort,
           asks' = asks \/ asks' = <<>> \/ \E q : Requests(k, q) /\ asks' = Append(asks, q),
           \A m \in group.mics \ k.mics : m[1] = group.gen \/ k.phase = group.phase,
           \/ k.gen # group.gen \/ k.room.id = 0 \/ group.room.id = 0
           \/ k.room.id = group.room.id /\ k.rev >= group.rev
    PROVE  GroupKept
<1>1. GroupInv'
  BY TurnKeeps
<1>2. Group!RoomStays
  BY DEF Group!RoomStays
<1>3. Group!LateGrantIsFenced
  BY DEF Group!LateGrantIsFenced
<1>. QED  BY <1>1, <1>2, <1>3 DEF GroupKept, Group!EstablishedRoomHolds

\* A facade that only differs in what the invariant does not speak of.
Unmoved(h, k) ==
    /\ k \in Group!FacadeType
    /\ k.gen = h.gen /\ k.mic = h.mic /\ k.live = h.live /\ k.mics = h.mics
    /\ k.room = h.room /\ k.rev = h.rev /\ k.rejoin = h.rejoin /\ k.rejoinRev = h.rejoinRev
    /\ k.control = h.control /\ k.recon = h.recon /\ k.retired = h.retired
    /\ k.phase = h.phase /\ k.disc = h.disc /\ k.sync = h.sync

\* A facade whose room, generation and waits do not move keeps its invariant.
LEMMA UnmovedIs ==
    ASSUME NEW h \in Group!FacadeType, NEW k, Unmoved(h, k), Capture(h), Waiting(h)
    PROVE  Capture(k) /\ Waiting(k) /\ Turns(h, k, Group!NoRoom)
<1>1. h.gen \in Nat /\ h.rev \in Nat
  BY GroupFields
<1>2. Capture(k)
  BY DEF Unmoved, Capture
<1>3. Waiting(k)
  BY DEF Unmoved, Waiting, Parting, Silent
<1>4. Turns(h, k, Group!NoRoom)
  BY <1>1 DEF Unmoved, Turns, Below
<1>. QED  BY <1>2, <1>3, <1>4

\* So does a step that does not move it.
LEMMA UnmovedKeeps ==
    ASSUME RoomBounds, GroupInv, NEW k, Unmoved(group, k), group' = k,
           tells' \in SUBSET tells, rooms' = rooms \/ Stays(rooms, rooms'), closed' = closed,
           linked' \in BOOLEAN, moves' \in 0 .. MaxEffort,
           asks' = asks \/ asks' = <<>> \/ \E q : Requests(k, q) /\ asks' = Append(asks, q)
    PROVE  GroupKept
<1>1. group \in Group!FacadeType /\ Capture(group) /\ Waiting(group) /\ group.rev \in Nat
  BY WireTyped, GroupFields DEF GroupInv
<1>2. /\ Capture(k) /\ Waiting(k) /\ Turns(group, k, Group!NoRoom) /\ k \in Group!FacadeType
      /\ k.mics = group.mics /\ k.room = group.room /\ k.rev >= group.rev
  BY <1>1, UnmovedIs DEF Unmoved
<1>. QED  BY <1>2, TurnStep, NoneTyped DEF Heard

\* An end before the server has named the room.
LEMMA EndUnnamedStep ==
    ASSUME RoomBounds, GroupInv, Group!EndUnnamed  PROVE GroupKept
<1>. DEFINE o == Group!Terminal(group)
            k == [o EXCEPT !.timer = TRUE]
<1>1. group \in Group!FacadeType /\ Capture(group)
  BY WireTyped DEF GroupInv
<1>2. group' = k /\ UNCHANGED <<asks, tells, rooms, linked, closed, moves>>
  BY DEF Group!EndUnnamed, Group!Dismissing
<1>3. o \in Group!FacadeType /\ o.phase = "ended"
  BY <1>1, TerminalIs DEF Closes
<1>. HIDE DEF o
<1>4. Shows(o, k)
  BY <1>3 DEF Shows, Group!FacadeType, Resting
<1>. HIDE DEF k
<1>5. Closes(group, k) /\ k.mics = group.mics
  BY <1>1, <1>4, OverIs DEF o
<1>. QED  BY <1>2, <1>5, ClosesKeeps, SpendIs

\* A call given up locally.
LEMMA AbortStep ==
    ASSUME RoomBounds, GroupInv, Group!Abort  PROVE GroupKept
<1>. DEFINE o == Group!Terminal(group)
            k == [o EXCEPT !.phase = "idle"]
<1>1. group \in Group!FacadeType /\ Capture(group)
  BY WireTyped DEF GroupInv
<1>2. /\ group' = k /\ UNCHANGED <<asks, tells, linked, closed>> /\ Group!Spend
      /\ rooms' = [rooms EXCEPT !.room = Group!NoRoom, !.stale = FALSE, !.member = FALSE]
  BY DEF Group!Abort
<1>3. o \in Group!FacadeType
  BY <1>1, TerminalIs DEF Closes
<1>. HIDE DEF o
<1>4. Shows(o, k)
  BY <1>3 DEF Shows, Group!FacadeType, Resting
<1>. HIDE DEF k
<1>5. Closes(group, k) /\ k.mics = group.mics
  BY <1>1, <1>4, OverIs DEF o
<1>6. Stays(rooms, rooms')
  BY <1>2, NoneTyped DEF Stays, GroupInv, Group!TypeOK
<1>. QED  BY <1>2, <1>5, <1>6, ClosesKeeps, SpendIs

\* The timer that dismisses what is over.
LEMMA GroupDismissStep ==
    ASSUME RoomBounds, GroupInv, Group!DismissFires  PROVE GroupKept
<1>. DEFINE h == group
            a == [h EXCEPT !.phase = "idle", !.room = Group!NoRoom, !.mic = 0]
            k == [a EXCEPT !.timer = FALSE]
            same == [h EXCEPT !.timer = FALSE]
<1>1. /\ group \in Group!FacadeType /\ Capture(group) /\ Waiting(group) /\ group.gen \in Nat
      /\ UNCHANGED <<asks, tells, rooms, linked, closed, moves>>
  BY WireTyped, GroupFields DEF GroupInv, Group!DismissFires
<1>2. CASE group.phase \in {"left", "ended"}
  <2>1. group' = k
    BY <1>2 DEF Group!DismissFires, Group!Fresh
  <2>2. a \in Group!FacadeType
    BY <1>1, NoneTyped DEF Group!FacadeType, Group!Gens
  <2>3. k \in Group!FacadeType
    <3>. HIDE DEF a
    <3>. QED  BY <2>2 DEF Group!FacadeType
  <2>4. /\ k.gen = h.gen /\ k.mic = 0 /\ k.live = h.live /\ k.mics = h.mics
        /\ k.room = Group!NoRoom /\ k.rev = h.rev /\ k.rejoin = h.rejoin /\ k.rejoinRev = h.rejoinRev
        /\ k.control = h.control /\ k.recon = h.recon /\ k.retired = h.retired
        /\ k.phase = "idle" /\ k.disc = h.disc /\ k.sync = h.sync
    BY <1>1 DEF Group!FacadeType
  <2>. HIDE DEF k
  <2>5. h.mic = 0
    BY <1>1, <1>2 DEF Capture
  <2>6. Capture(k)
    BY <1>1, <1>2, <2>4, <2>5 DEF Capture, Resting
  <2>7. Waiting(k)
    BY <1>1, <1>2, <2>4, <2>5 DEF Waiting, Resting, Parting, Silent
  <2>8. Turns(h, k, Group!NoRoom)
    BY <1>1, <2>4, NoneTyped DEF Turns, Below
  <2>. QED  BY <1>1, <2>1, <2>3, <2>4, <2>6, <2>7, <2>8, NoneTyped, TurnStep, SpendIs DEF Heard
<1>3. CASE group.phase \notin {"left", "ended"}
  <2>1. group' = same
    BY <1>3 DEF Group!DismissFires
  <2>2. Unmoved(group, same)
    BY <1>1 DEF Unmoved, Group!FacadeType
  <2>. HIDE DEF same
  <2>. QED  BY <1>1, <2>1, <2>2, UnmovedKeeps, SpendIs
<1>. QED  BY <1>2, <1>3

\* The socket is back.
LEMMA GroupRecoverStep ==
    ASSUME RoomBounds, GroupInv, Group!Recover  PROVE GroupKept
<1>1. Unmoved(group, group) /\ UNCHANGED <<group, asks, tells, rooms, closed, moves>> /\ linked'
  BY WireTyped DEF GroupInv, Group!Recover, Unmoved
<1>. QED  BY <1>1, UnmovedKeeps, SpendIs

\* A microphone that is granted, of any generation.
LEMMA GrantedStep ==
    ASSUME RoomBounds, GroupInv, NEW m \in group.mics, Group!Granted(m)  PROVE GroupKept
<1>. DEFINE h == group
            mics == h.mics \ {m}
            live == h.live \cup {m[1]}
            phase == IF m[2] = "start" THEN "ringing" ELSE "joining"
            ask == IF m[2] = "start" THEN "start" ELSE "join"
            late == [h EXCEPT !.mics = mics]
            k == [late EXCEPT !.phase = phase, !.mic = m[1], !.live = live, !.asked = m[1]]
            q == [type |-> ask, id |-> h.room.id, gen |-> m[1]]
<1>1. /\ group \in Group!FacadeType /\ Capture(group) /\ Waiting(group) /\ group.gen \in Nat
      /\ UNCHANGED <<tells, rooms, linked, closed, moves>> /\ group.rev \in Nat
      /\ m[1] \in Nat /\ m[2] \in {"start", "join"} /\ m[1] <= h.gen
      /\ mics \in SUBSET (Nat \X {"start", "join"}) /\ h.live \in SUBSET Nat /\ live \in SUBSET Nat
  BY WireTyped, GroupFields DEF GroupInv, Group!Granted, Capture
<1>2. late \in Group!FacadeType
  <2>. HIDE DEF mics
  <2>. QED  BY ZenonT(60), <1>1 DEF Group!FacadeType, Group!Gens
<1>3. /\ late.gen = h.gen /\ late.mic = h.mic /\ late.live = h.live /\ late.mics = mics
      /\ late.room = h.room /\ late.rev = h.rev /\ late.rejoin = h.rejoin
      /\ late.rejoinRev = h.rejoinRev
      /\ late.control = h.control /\ late.recon = h.recon /\ late.retired = h.retired
      /\ late.phase = h.phase /\ late.disc = h.disc /\ late.sync = h.sync
  BY <1>1 DEF Group!FacadeType
<1>4. CASE m[1] # h.gen
  <2>1. group' = late /\ asks' = asks
    BY <1>4, Zenon DEF Group!Granted, Group!Become, Group!With, Group!World
  <2>. HIDE DEF late
  <2>2. Capture(late)
    BY <1>1, <1>3 DEF Capture
  <2>3. Waiting(late)
    BY <1>1, <1>3 DEF Waiting, Parting, Silent
  <2>4. Turns(h, late, Group!NoRoom)
    BY <1>1, <1>3 DEF Turns, Below
  <2>. QED  BY <1>1, <1>2, <1>3, <2>1, <2>2, <2>3, <2>4, TurnStep, SpendIs, NoneTyped DEF Heard
<1>5. CASE m[1] = h.gen
  <2>1. Group!Become(Group!Send(Group!With(k), ask, h.room.id, m[1]))
    BY <1>5, Zenon DEF Group!Granted
  <2>2. k \in Group!FacadeType
    <3>. HIDE DEF late, live
    <3>. QED  BY <1>1, <1>2 DEF Group!FacadeType, Group!Gens
  <2>3. /\ k.gen = h.gen /\ k.mic = h.gen /\ k.live = live /\ k.mics = mics
        /\ k.room = h.room /\ k.rev = h.rev /\ k.rejoin = h.rejoin
        /\ k.rejoinRev = h.rejoinRev
        /\ k.control = h.control /\ k.recon = h.recon /\ k.retired = h.retired
        /\ k.phase = phase /\ k.disc = h.disc /\ k.sync = h.sync
    <3>. HIDE DEF late
    <3>. QED  BY <1>2, <1>3, <1>5 DEF Group!FacadeType
  <2>. HIDE DEF k
  <2>4. /\ h.mic = 0 /\ h.live = {} /\ 0 < m[1] /\ (m[2] = "join" => h.room.id # 0)
        /\ \A n \in mics : n[1] # h.gen
    BY <1>1, <1>5 DEF Capture
  <2>5. Capture(k)
    <3>1. \A a, b \in mics : a[1] = b[1] => a = b
      BY <1>1 DEF Capture
    <3>2. \A a \in mics : 0 < a[1] /\ a[1] <= h.gen
      BY <1>1 DEF Capture
    <3>. QED  BY <1>1, <1>5, <2>3, <2>4, <3>1, <3>2 DEF Capture
  <2>6. ~Parting(h) /\ (h.disc # 0 => h.disc # h.gen)
    BY <1>1, <1>5 DEF Waiting, Silent
  <2>7. Waiting(k)
    BY <1>1, <2>3, <2>6 DEF Waiting, Parting, Resting
  <2>8. Turns(h, k, Group!NoRoom)
    BY <1>1, <2>3 DEF Turns, Below, Resting
  <2>9. CASE linked
    <3>1. group' = k /\ asks' = Append(asks, q)
      BY <1>5, <2>1, <2>3, <2>9, SendIs
    <3>2. Requests(k, q)
      BY <1>1, <1>5, <2>3, <2>4, WireTyped, GroupFields, RoomFields
         DEF Requests, Group!Request, Group!Asks, Group!Gens
    <3>. HIDE DEF q
    <3>. QED  BY <1>1, <1>5, <2>2, <2>3, <2>5, <2>7, <2>8, <3>1, <3>2, TurnStep, SpendIs, NoneTyped
         DEF Heard
  <2>10. CASE ~linked
    <3>1. group' = Group!Fail(k) /\ asks' = asks
      BY <1>5, <2>1, <2>3, <2>10, SendIs
    <3>2. Closes(k, group') /\ group'.mics = mics
      BY <2>2, <2>3, <2>5, <3>1, FailIs
    <3>3. Closes(group, group')
      BY <2>3, <3>2, ClosesFrom DEF SameRoom
    <3>. QED  BY <1>1, <1>5, <3>1, <3>2, <3>3, ClosesKeeps, SpendIs
  <2>. QED  BY <2>9, <2>10
<1>. QED  BY <1>4, <1>5

\* A turn of the sync loop.
LEMMA SyncStep ==
    ASSUME RoomBounds, GroupInv, Group!Sync  PROVE GroupKept
<1>. DEFINE h == group
            k == [h EXCEPT !.sync = h.gen]
            q == [type |-> "sync", id |-> h.room.id, gen |-> h.gen]
<1>1. /\ group \in Group!FacadeType /\ Capture(group) /\ Waiting(group) /\ group.gen \in Nat
      /\ group' = k /\ asks' = Append(asks, q) /\ group.rev \in Nat
      /\ group.phase = "active" /\ group.mic # 0
      /\ UNCHANGED <<tells, rooms, linked, closed, moves>>
  BY WireTyped, GroupFields DEF GroupInv, Group!Sync
<1>2. k \in Group!FacadeType
  BY <1>1 DEF Group!FacadeType, Group!Gens
<1>3. /\ k.gen = h.gen /\ k.mic = h.mic /\ k.live = h.live /\ k.mics = h.mics
      /\ k.room = h.room /\ k.rev = h.rev /\ k.rejoin = h.rejoin /\ k.rejoinRev = h.rejoinRev
      /\ k.control = h.control /\ k.recon = h.recon /\ k.retired = h.retired
      /\ k.phase = h.phase /\ k.disc = h.disc /\ k.sync = h.gen
  BY <1>1 DEF Group!FacadeType
<1>. HIDE DEF k
<1>4. Capture(k)
  BY <1>1, <1>3 DEF Capture
<1>5. ~Parting(h)
  BY <1>1 DEF Waiting, Silent
<1>6. Waiting(k)
  BY <1>1, <1>3, <1>5 DEF Waiting, Parting, Silent, Resting
<1>7. Turns(h, k, Group!NoRoom)
  BY <1>1, <1>3 DEF Turns, Below
<1>8. Requests(k, q)
  BY <1>1, <1>3, WireTyped, GroupFields, RoomFields
     DEF GroupInv, Requests, Group!Request, Group!Asks, Group!Gens
<1>. HIDE DEF q
<1>. QED  BY <1>1, <1>2, <1>3, <1>4, <1>6, <1>7, <1>8, TurnStep, SpendIs, NoneTyped DEF Heard

\* A reconciliation that is not answered.
LEMMA ReconciliationTimesOutStep ==
    ASSUME RoomBounds, GroupInv, Group!ReconciliationTimesOut  PROVE GroupKept
<1>. DEFINE h == group
            doubt == h.recon.gen = h.gen
            k == [h EXCEPT !.recon = None, !.uncertain = doubt]
<1>1. /\ group \in Group!FacadeType /\ Capture(group) /\ Waiting(group) /\ group.gen \in Nat
      /\ group' = k /\ UNCHANGED <<asks, tells, rooms, linked, closed>> /\ group.rev \in Nat
      /\ Group!Spend
  BY WireTyped, GroupFields DEF GroupInv, Group!ReconciliationTimesOut, None
<1>2. k \in Group!FacadeType
  <2>1. doubt \in BOOLEAN
    OBVIOUS
  <2>. HIDE DEF doubt
  <2>. QED  BY <1>1, <2>1, NoneTyped DEF Group!FacadeType
<1>3. /\ k.gen = h.gen /\ k.mic = h.mic /\ k.live = h.live /\ k.mics = h.mics
      /\ k.room = h.room /\ k.rev = h.rev /\ k.rejoin = h.rejoin /\ k.rejoinRev = h.rejoinRev
      /\ k.control = h.control /\ k.recon = None /\ k.retired = h.retired
      /\ k.phase = h.phase /\ k.disc = h.disc /\ k.sync = h.sync
  BY <1>1 DEF Group!FacadeType
<1>. HIDE DEF k
<1>4. Capture(k)
  BY <1>1, <1>3 DEF Capture
<1>5. Waiting(k)
  BY <1>1, <1>3 DEF Waiting, Parting, Silent
<1>6. Turns(h, k, Group!NoRoom)
  BY <1>1, <1>3 DEF Turns, Below
<1>. QED  BY <1>1, <1>2, <1>3, <1>4, <1>5, <1>6, TurnStep, SpendIs, NoneTyped DEF Heard

\* The socket drops.
LEMMA GroupDropStep ==
    ASSUME RoomBounds, GroupInv, Group!Drop  PROVE GroupKept
<1>. DEFINE h == group
            room == IF h.room.id # 0 /\ h.room.peer THEN h.room ELSE h.rejoin
            rev == IF h.room.id = room.id THEN h.rev ELSE h.rejoinRev
            o == Group!Terminal(h)
            k == [o EXCEPT !.phase = "left", !.rejoin = room, !.rejoinRev = rev]
            rest == ~Group!IsOngoing /\ h.phase # "left"
<1>1. /\ group \in Group!FacadeType /\ Capture(group) /\ Waiting(group) /\ group.gen \in Nat
      /\ asks' = <<>> /\ tells' = {} /\ linked' = FALSE /\ closed' = closed
      /\ rooms' = [rooms EXCEPT !.stale = rooms.room.me]
      /\ Group!Spend /\ room \in Group!Room /\ rev \in Nat
  BY WireTyped, GroupFields DEF GroupInv, Group!Drop
<1>2. Stays(rooms, rooms')
  <2>1. rooms.room.me \in BOOLEAN
    BY RoomFields DEF GroupInv, Group!TypeOK
  <2>. QED  BY <1>1, <2>1 DEF Stays, GroupInv, Group!TypeOK
<1>3. CASE rest
  <2>1. group' = group
    BY <1>3, Zenon DEF Group!Drop
  <2>2. Unmoved(group, group)
    BY <1>1 DEF Unmoved
  <2>. QED  BY <1>1, <1>2, <2>1, <2>2, UnmovedKeeps, SpendIs
<1>4. CASE ~rest /\ room.id = 0
  <2>1. group' = Group!Fail(group)
    BY <1>4 DEF Group!Drop
  <2>2. Closes(group, group') /\ group'.mics = group.mics
    BY <1>1, <2>1, FailIs
  <2>. QED  BY <1>1, <1>2, <2>2, ClosesKeeps, SpendIs
<1>5. CASE ~rest /\ room.id # 0
  <2>1. group' = k
    BY <1>5 DEF Group!Drop
  <2>2. /\ Closes(h, o) /\ o.rejoin = Group!NoRoom /\ o.control = None
        /\ o \in Group!FacadeType /\ o.mics = h.mics
    BY <1>1, TerminalIs DEF Closes
  <2>3. \A n \in Nat : Below(h, room.id, n) => room.rev < n /\ rev < n
    BY DEF Below
  <2>4. room.id \in {h.room.id, h.rejoin.id}
    OBVIOUS
  <2>. HIDE DEF o, room, rev
  <2>5. k \in Group!FacadeType
    BY ZenonT(60), <1>1, <2>2 DEF Group!FacadeType, Group!Gens, Group!Revs
  <2>6. /\ k.gen = o.gen /\ k.rev = o.rev /\ k.rejoin = room /\ k.rejoinRev = rev
        /\ k.disc = o.disc /\ k.sync = o.sync /\ k.control = o.control /\ k.recon = o.recon
        /\ k.retired = o.retired /\ k.live = o.live /\ k.phase = "left" /\ k.room = o.room
        /\ k.mic = o.mic /\ k.mics = o.mics
    BY <2>2 DEF Group!FacadeType
  <2>. HIDE DEF k
  <2>7. Closes(h, k)
    BY <1>5, <2>2, <2>3, <2>4, <2>5, <2>6 DEF Closes, Resting
  <2>. QED  BY <1>1, <1>2, <2>1, <2>2, <2>6, <2>7, ClosesKeeps, SpendIs
<1>. QED  BY <1>3, <1>4, <1>5

-----------------------------------------------------------------------------
(* The events.                                                             *)

\* Event e is taken from the wire.
Hears(e) == e \in tells /\ tells' = tells \ {e} /\ UNCHANGED <<rooms, linked, moves>>

\* An event that is heard has its types, and its end is new.
LEMMA HearsIs ==
    ASSUME RoomBounds, GroupInv, NEW e, Hears(e)
    PROVE  /\ e \in tells /\ tells' \in SUBSET tells /\ rooms' = rooms /\ linked' \in BOOLEAN
           /\ moves' \in 0 .. MaxEffort /\ e \in Group!Event
           /\ e.room \in Group!Room /\ e.gen \in Nat /\ e.room.id \in Nat /\ e.room.rev \in Nat
           /\ e.room.me \in BOOLEAN /\ e.gone \in BOOLEAN
           /\ e.gone => e.type \in {"rejected", "synced"}
           /\ e.type \in {"started", "joined", "left", "ended"} => e.room.id # 0
           /\ closed \subseteq Nat /\ 0 \notin closed
<1>1. /\ e \in tells /\ tells' \in SUBSET tells /\ rooms' = rooms /\ linked' \in BOOLEAN
      /\ moves' \in 0 .. MaxEffort
  BY SpendIs DEF Hears
<1>2. /\ e \in Group!Event /\ e.room \in Group!Room /\ e.gen \in Nat /\ e.room.id \in Nat
      /\ e.room.rev \in Nat
  BY <1>1, WireTyped DEF GroupInv
<1>3. e.room.me \in BOOLEAN /\ e.gone \in BOOLEAN
  BY <1>2, RoomFields DEF Group!Event
<1>4. /\ e.gone => e.type \in {"rejected", "synced"}
      /\ e.type \in {"started", "joined", "left", "ended"} => e.room.id # 0
      /\ closed \subseteq Nat /\ 0 \notin closed
  BY <1>1 DEF GroupInv, RoomsNamed
<1>. QED  BY <1>1, <1>2, <1>3, <1>4

\* The facade that asks what the room of a refused control is.
LEMMA ReconcileStep ==
    ASSUME RoomBounds, GroupInv, NEW e, Hears(e), closed' = closed,
           group.control # None,
           NEW kept, kept = [group EXCEPT !.control = None],
           Group!Become(Group!Reconcile(Group!With(kept), group.control))
    PROVE  GroupKept
<1>. DEFINE h == group
            c == h.control
            w == [f |-> kept, up |-> asks, ready |-> linked]
            k == [kept EXCEPT !.recon = c]
            doubt == k.uncertain \/ c.gen = k.gen
            q == [type |-> "resync", id |-> c.room.id, gen |-> c.ask]
            u == [k EXCEPT !.uncertain = doubt]
<1>1. /\ h \in Group!FacadeType /\ Capture(h) /\ Waiting(h) /\ h.gen \in Nat /\ h.rev \in Nat
      /\ c \in Group!Control
  BY WireTyped, GroupFields DEF GroupInv
<1>2. /\ tells' \in SUBSET tells /\ rooms' = rooms /\ linked' \in BOOLEAN
      /\ moves' \in 0 .. MaxEffort
  BY HearsIs
<1>3. /\ kept \in Group!FacadeType
      /\ kept.gen = h.gen /\ kept.mic = h.mic /\ kept.live = h.live /\ kept.mics = h.mics
      /\ kept.room = h.room /\ kept.rev = h.rev /\ kept.rejoin = h.rejoin
      /\ kept.rejoinRev = h.rejoinRev
      /\ kept.control = None /\ kept.recon = h.recon /\ kept.retired = h.retired
      /\ kept.phase = h.phase /\ kept.disc = h.disc /\ kept.sync = h.sync
  BY <1>1, NoneTyped DEF Group!FacadeType
<1>4. Group!With(kept) = w
  BY DEF Group!With, Group!World
<1>. HIDE DEF c
<1>5. k \in Group!FacadeType
  BY <1>1, <1>3 DEF Group!FacadeType
<1>6. /\ k.gen = h.gen /\ k.mic = h.mic /\ k.live = h.live /\ k.mics = h.mics
      /\ k.room = h.room /\ k.rev = h.rev /\ k.rejoin = h.rejoin
      /\ k.rejoinRev = h.rejoinRev
      /\ k.control = None /\ k.recon = c /\ k.retired = h.retired
      /\ k.phase = h.phase /\ k.disc = h.disc /\ k.sync = h.sync
  BY <1>3 DEF Group!FacadeType
<1>. HIDE DEF k
<1>7. /\ u \in Group!FacadeType
      /\ u.gen = h.gen /\ u.mic = h.mic /\ u.live = h.live /\ u.mics = h.mics
      /\ u.room = h.room /\ u.rev = h.rev /\ u.rejoin = h.rejoin
      /\ u.rejoinRev = h.rejoinRev
      /\ u.control = None /\ u.recon = c /\ u.retired = h.retired
      /\ u.phase = h.phase /\ u.disc = h.disc /\ u.sync = h.sync
  <2>1. doubt \in BOOLEAN
    BY <1>5 DEF Group!FacadeType
  <2>. HIDE DEF doubt
  <2>. QED  BY <1>5, <1>6, <2>1 DEF Group!FacadeType
<1>8. \/ group' = kept /\ asks' = asks
      \/ group' = u /\ asks' = asks
      \/ group' = k /\ asks' = Append(asks, q)
  <2>1. CASE kept.recon # None
    <3>1. Group!Reconcile(w, c) = w
      BY <2>1 DEF Group!Reconcile, None
    <3>. QED  BY <1>4, <3>1 DEF Group!Become, c
  <2>2. CASE kept.recon = None /\ ~linked
    <3>1. Group!Reconcile(w, c) = [w EXCEPT !.f = u]
      BY <2>2 DEF Group!Reconcile, Group!Uncertain, None, k
    <3>. HIDE DEF u
    <3>. QED  BY <1>4, <3>1 DEF Group!Become, c
  <2>3. CASE kept.recon = None /\ linked
    <3>1. Group!Reconcile(w, c) = [w EXCEPT !.f = k, !.up = Append(asks, q)]
      BY <2>3 DEF Group!Reconcile, None, k
    <3>. HIDE DEF q
    <3>. QED  BY <1>4, <3>1 DEF Group!Become, c
  <2>. QED  BY <2>1, <2>2, <2>3
<1>. HIDE DEF u, q
<1>9. ASSUME NEW g, g \in Group!FacadeType,
             g.gen = h.gen, g.mic = h.mic, g.live = h.live, g.mics = h.mics,
             g.room = h.room, g.rev = h.rev, g.rejoin = h.rejoin, g.rejoinRev = h.rejoinRev,
             g.control = None, g.recon \in {h.recon, c}, g.retired = h.retired,
             g.phase = h.phase, g.disc = h.disc, g.sync = h.sync
      PROVE  Capture(g) /\ Waiting(g) /\ Turns(h, g, Group!NoRoom)
  <2>1. Capture(g)
    BY <1>1, <1>9 DEF Capture
  <2>2. Parting(h)
    BY DEF Parting
  <2>3. Waiting(g)
    BY <1>1, <1>9, <2>2 DEF Waiting, Silent, Parting, c
  <2>4. Turns(h, g, Group!NoRoom)
    BY <1>1, <1>9 DEF Turns, Below, c
  <2>. QED  BY <2>1, <2>3, <2>4
<1>10. CASE group' = kept /\ asks' = asks
  <2>1. Capture(kept) /\ Waiting(kept) /\ Turns(h, kept, Group!NoRoom)
    BY <1>3, <1>9
  <2>2. /\ kept.mics = group.mics /\ kept.room = group.room /\ kept.rev >= group.rev
        /\ Heard(Group!NoRoom, tells, closed)
    BY <1>1, <1>3, NoneTyped DEF Heard
  <2>. QED  BY <1>2, <1>3, <1>10, <2>1, <2>2, TurnStep
<1>11. CASE group' = u /\ asks' = asks
  BY <1>1, <1>2, <1>7, <1>9, <1>11, TurnStep, NoneTyped DEF Heard
<1>12. CASE group' = k /\ asks' = Append(asks, q)
  <2>1. c.ask < h.gen /\ c.ask \in Nat /\ c.room.id \in Group!RoomIds \cup {0}
    BY <1>1, ControlFields, RoomFields DEF Waiting, c
  <2>2. Requests(k, q)
    BY <1>1, <1>6, <2>1 DEF Requests, Group!Request, Group!Asks, Group!Gens, q
  <2>. QED  BY <1>1, <1>2, <1>5, <1>6, <1>9, <1>12, <2>2, TurnStep, NoneTyped DEF Heard
<1>. QED  BY <1>8, <1>10, <1>11, <1>12

\* A request that is refused.
LEMMA GroupRejectedStep ==
    ASSUME RoomBounds, GroupInv, NEW e, Hears(e), Group!Rejected(e)  PROVE GroupKept
<1>. DEFINE h == group
            kept == [h EXCEPT !.control = None]
            undone == [h EXCEPT !.disc = 0]
            unasked == IF e.gone THEN [h EXCEPT !.asked = 0, !.rejoin = Group!NoRoom,
                                                !.rejoinRev = 0]
                                 ELSE [h EXCEPT !.asked = 0]
            doubt == h.uncertain \/ h.recon.gen = h.gen
            unsure == [h EXCEPT !.uncertain = doubt]
<1>1. /\ h \in Group!FacadeType /\ Capture(h) /\ Waiting(h) /\ h.gen \in Nat /\ h.rev \in Nat
      /\ closed' = closed
  BY WireTyped, GroupFields DEF GroupInv, Group!Rejected
<1>2. /\ tells' \in SUBSET tells /\ rooms' = rooms /\ linked' \in BOOLEAN
      /\ moves' \in 0 .. MaxEffort
  BY HearsIs
<1>3. \/ Group!Become(Group!With(Group!Fail(undone)))
      \/ Group!Become(Group!With(Group!Fail(unasked)))
      \/ Group!Become(Group!With(unsure))
      \/ h.control # None /\ Group!Become(Group!Reconcile(Group!With(kept), h.control))
      \/ Group!Become(Group!With(kept))
      \/ Group!Become(Group!World)
  <2>. DEFINE X == Group!Become(Group!With(Group!Fail(undone)))
              Y == Group!Become(Group!With(Group!Fail(unasked)))
  <2>1. Group!Fail(IF e.gone THEN [h EXCEPT !.asked = 0, !.rejoin = Group!NoRoom,
                                                !.rejoinRev = 0]
                                 ELSE [h EXCEPT !.asked = 0]) = Group!Fail(unasked)
    OBVIOUS
  <2>. QED  BY <2>1, Zenon DEF Group!Rejected, Group!Uncertain, None
<1>4. \A g : Group!Become(Group!With(g)) => group' = g /\ asks' = asks
  BY DEF Group!Become, Group!With, Group!World
<1>5. CASE Group!Become(Group!With(Group!Fail(undone)))
  <2>1. undone \in Group!FacadeType /\ SameRoom(h, undone) /\ Capture(undone)
    BY <1>1 DEF Group!FacadeType, SameRoom, Capture, Group!Gens
  <2>. HIDE DEF undone
  <2>2. Closes(undone, group') /\ group'.mics = undone.mics
    BY <1>4, <1>5, <2>1, FailIs
  <2>3. Closes(h, group') /\ asks' = asks
    BY <1>4, <1>5, <2>1, <2>2, ClosesFrom
  <2>4. undone.mics = h.mics
    BY <1>1 DEF undone, Group!FacadeType
  <2>. QED  BY <1>1, <1>2, <2>2, <2>3, <2>4, ClosesKeeps
<1>6. CASE Group!Become(Group!With(Group!Fail(unasked)))
  <2>1. /\ unasked \in Group!FacadeType /\ SameRoom(h, unasked) /\ Capture(unasked)
        /\ unasked.mics = h.mics
    <3>1. CASE e.gone
      BY <1>1, <3>1, NoneTyped DEF Group!FacadeType, SameRoom, Capture, Group!Gens, Group!Revs
    <3>2. CASE ~e.gone
      BY <1>1, <3>2, NoneTyped DEF Group!FacadeType, SameRoom, Capture, Group!Gens
    <3>. QED  BY <3>1, <3>2
  <2>. HIDE DEF unasked
  <2>2. Closes(unasked, group') /\ group'.mics = unasked.mics
    BY <1>4, <1>6, <2>1, FailIs
  <2>3. Closes(h, group') /\ asks' = asks
    BY <1>4, <1>6, <2>1, <2>2, ClosesFrom
  <2>. QED  BY <1>1, <1>2, <2>1, <2>2, <2>3, ClosesKeeps
<1>7. CASE Group!Become(Group!With(unsure))
  <2>1. doubt \in BOOLEAN
    BY <1>1, GroupFields
  <2>2. Unmoved(h, unsure)
    <3>. HIDE DEF doubt
    <3>. QED  BY <1>1, <2>1 DEF Unmoved, Group!FacadeType
  <2>. HIDE DEF unsure
  <2>. QED  BY <1>1, <1>2, <1>4, <1>7, <2>2, UnmovedKeeps
<1>8. CASE h.control # None /\ Group!Become(Group!Reconcile(Group!With(kept), h.control))
  BY <1>1, <1>8, ReconcileStep
<1>9. CASE Group!Become(Group!With(kept))
  <2>1. /\ kept \in Group!FacadeType
        /\ kept.gen = h.gen /\ kept.mic = h.mic /\ kept.live = h.live /\ kept.mics = h.mics
        /\ kept.room = h.room /\ kept.rev = h.rev /\ kept.rejoin = h.rejoin
        /\ kept.rejoinRev = h.rejoinRev
        /\ kept.control = None /\ kept.recon = h.recon /\ kept.retired = h.retired
        /\ kept.phase = h.phase /\ kept.disc = h.disc /\ kept.sync = h.sync
    BY <1>1, NoneTyped DEF Group!FacadeType
  <2>. HIDE DEF kept
  <2>2. Capture(kept)
    BY <1>1, <2>1 DEF Capture
  <2>3. Waiting(kept)
    BY <1>1, <2>1 DEF Waiting, Silent, Parting
  <2>4. Turns(h, kept, Group!NoRoom)
    BY <1>1, <2>1 DEF Turns, Below
  <2>. QED  BY <1>1, <1>2, <1>4, <1>9, <2>1, <2>2, <2>3, <2>4, TurnStep, NoneTyped DEF Heard
<1>10. CASE Group!Become(Group!World)
  <2>1. group' = group /\ asks' = asks
    BY <1>10 DEF Group!Become, Group!World
  <2>2. Unmoved(group, group)
    BY <1>1 DEF Unmoved
  <2>. QED  BY <1>1, <1>2, <2>1, <2>2, UnmovedKeeps
<1>. QED  BY <1>3, <1>5, <1>6, <1>7, <1>8, <1>9, <1>10

\* A call that begins from a facade in which the one that was asked for is over.
LEMMA BeginsFrom ==
    ASSUME NEW h, NEW g, NEW k, NEW r, Begins(g, k, r),
           g.gen = h.gen, g.live = h.live, g.retired = h.retired, g.mics = h.mics,
           g.disc \in {0, h.disc}, g.room.id \in {0, h.room.id}, g.rejoin = h.rejoin,
           \A i \in Nat \ {0}, n \in Nat : Below(h, i, n) => Below(g, i, n)
    PROVE  Begins(h, k, r)
  BY DEF Begins

\* The answer to a discovery.
LEMMA DiscoveredStep ==
    ASSUME RoomBounds, GroupInv, NEW e, Hears(e), Group!Discovered(e)  PROVE GroupKept
<1>. DEFINE h == group
            a == [h EXCEPT !.phase = "idle", !.room = Group!NoRoom, !.mic = 0]
            f0 == [a EXCEPT !.disc = 0]
<1>1. /\ h \in Group!FacadeType /\ Capture(h) /\ Waiting(h) /\ h.gen \in Nat /\ h.rev \in Nat
      /\ closed' = closed /\ asks' = asks /\ e.type = "discovered"
      /\ h.disc \in Nat
  BY WireTyped, GroupFields DEF GroupInv, Group!Discovered
<1>2. /\ e \in tells /\ tells' \in SUBSET tells /\ rooms' = rooms /\ linked' \in BOOLEAN
      /\ moves' \in 0 .. MaxEffort /\ e.room \in Group!Room /\ e.gen # 0 /\ Speaks(e)
      /\ e.room.id \in Nat
  <2>1. e.gen # 0
    BY <1>1 DEF Hears, GroupInv, Wired
  <2>. QED  BY <1>1, <2>1, HearsIs DEF Speaks
<1>3. CASE ~(h.disc = e.gen /\ e.gen = h.gen)
  <2>1. group' = group
    BY <1>3 DEF Group!Discovered
  <2>2. Unmoved(group, group)
    BY <1>1 DEF Unmoved
  <2>. QED  BY <1>1, <1>2, <2>1, <2>2, UnmovedKeeps
<1>4. CASE h.disc = e.gen /\ e.gen = h.gen
  <2>1. h.mic = 0 /\ h.disc <= h.gen /\ e.room.id \notin closed
    BY <1>1, <1>2, <1>4 DEF Waiting, Silent, GroupInv, Final
  <2>2. f0 \in Group!FacadeType
    <3>1. a \in Group!FacadeType
      BY <1>1, NoneTyped DEF Group!FacadeType, Group!Gens
    <3>. HIDE DEF a
    <3>. QED  BY <3>1 DEF Group!FacadeType, Group!Gens
  <2>3. /\ f0.gen = h.gen /\ f0.live = h.live /\ f0.retired = h.retired /\ f0.mics = h.mics
        /\ f0.disc = 0 /\ f0.room = Group!NoRoom /\ f0.rejoin = h.rejoin /\ f0.rev = h.rev
        /\ f0.rejoinRev = h.rejoinRev
    BY <1>1 DEF Group!FacadeType
  <2>4. group' = IF e.room.id # 0 THEN Group!Joining(f0, e.room) ELSE Group!Starting(f0)
    BY <1>4 DEF Group!Discovered, Group!Fresh
  <2>. HIDE DEF f0
  <2>5. \A i \in Nat \ {0}, n \in Nat : Below(h, i, n) => Below(f0, i, n)
    BY <2>3, NoneTyped DEF Below
  <2>6. CASE e.room.id # 0
    <3>1. Begins(f0, group', e.room)
      BY <1>2, <2>2, <2>4, <2>6, JoiningIs
    <3>2. Begins(h, group', e.room)
      BY <2>3, <2>5, <3>1, NoneTyped, BeginsFrom
    <3>3. Heard(e.room, tells, closed)
      BY <1>2, <2>1 DEF Heard
    <3>. QED  BY <1>1, <1>2, <2>1, <3>2, <3>3, BeginsKeeps
  <2>7. CASE e.room.id = 0
    <3>1. Begins(f0, group', Group!NoRoom)
      BY <2>2, <2>4, <2>7, StartingIs
    <3>2. Begins(h, group', Group!NoRoom)
      BY <2>3, <2>5, <3>1, NoneTyped, BeginsFrom
    <3>. QED  BY <1>1, <1>2, <2>1, <3>2, NoneTyped, BeginsKeeps DEF Heard
  <2>. QED  BY <2>6, <2>7
<1>. QED  BY <1>3, <1>4

\* The fields of a facade that takes up the room of an answer.
LEMMA AppliedIs ==
    ASSUME NEW h \in Group!FacadeType, NEW room \in Group!Room, NEW k, k = Group!Applied(h, room)
    PROVE  /\ k \in Group!FacadeType
           /\ k.gen = h.gen /\ k.mic = h.mic /\ k.live = h.live /\ k.mics = h.mics
           /\ k.room = room /\ k.rev = room.rev /\ k.rejoin = h.rejoin
           /\ k.rejoinRev = h.rejoinRev
           /\ k.control = h.control /\ k.recon = h.recon /\ k.retired = h.retired
           /\ k.phase = (IF h.mic # 0 THEN "active" ELSE "ringing")
           /\ k.disc = h.disc /\ k.sync = h.sync
<1>. DEFINE phase == IF h.mic # 0 THEN "active" ELSE "ringing"
            rev == room.rev
<1>1. k = [h EXCEPT !.room = room, !.rev = rev, !.phase = phase]
  BY DEF Group!Applied
<1>2. rev \in Nat
  BY RoomFields
<1>3. phase \in {"active", "ringing"}
  OBVIOUS
<1>. HIDE DEF phase, rev
<1>4. k \in Group!FacadeType
  BY <1>1, <1>2, <1>3 DEF Group!FacadeType, Group!Revs
<1>5. /\ k.room = room /\ k.rev = rev /\ k.phase = phase
      /\ k.gen = h.gen /\ k.mic = h.mic /\ k.live = h.live /\ k.mics = h.mics
      /\ k.rejoin = h.rejoin /\ k.rejoinRev = h.rejoinRev
      /\ k.control = h.control /\ k.recon = h.recon /\ k.retired = h.retired
      /\ k.disc = h.disc /\ k.sync = h.sync
  BY <1>1 DEF Group!FacadeType
<1>. QED  BY <1>4, <1>5 DEF phase, rev

\* What a room event does to the room that may be joined again.
LEMMA AnsweredIs ==
    ASSUME NEW h \in Group!FacadeType, NEW room \in Group!Room, NEW type,
           NEW k, k = Group!Answered(h, type, room)
    PROVE  /\ k \in Group!FacadeType
           /\ k.gen = h.gen /\ k.mic = h.mic /\ k.live = h.live /\ k.mics = h.mics
           /\ k.room = h.room /\ k.rev = h.rev
           /\ \/ k.rejoin = h.rejoin /\ k.rejoinRev = h.rejoinRev
              \/ k.rejoin = Group!NoRoom /\ k.rejoinRev = 0
           /\ k.control = h.control /\ k.recon = h.recon /\ k.retired = h.retired
           /\ k.phase = h.phase /\ k.disc = h.disc /\ k.sync = h.sync
<1>. DEFINE rejoin == IF room.me THEN Group!NoRoom ELSE h.rejoin
            rev == IF room.me THEN 0 ELSE h.rejoinRev
            b == [h EXCEPT !.asked = 0, !.rejoin = rejoin, !.rejoinRev = rev]
<1>1. k = b \/ k = h
  BY DEF Group!Answered
<1>2. /\ rejoin \in Group!Room /\ rev \in Nat
      /\ (rejoin = h.rejoin /\ rev = h.rejoinRev) \/ (rejoin = Group!NoRoom /\ rev = 0)
  BY GroupFields, NoneTyped
<1>. HIDE DEF rejoin, rev
<1>3. b \in Group!FacadeType
  BY <1>2 DEF Group!FacadeType, Group!Revs, Group!Gens
<1>4. /\ b.room = h.room /\ b.rev = h.rev /\ b.phase = h.phase
      /\ b.gen = h.gen /\ b.mic = h.mic /\ b.live = h.live /\ b.mics = h.mics
      /\ b.rejoin = rejoin /\ b.rejoinRev = rev
      /\ b.control = h.control /\ b.recon = h.recon /\ b.retired = h.retired
      /\ b.disc = h.disc /\ b.sync = h.sync
  BY DEF Group!FacadeType
<1>. HIDE DEF b
<1>. QED  BY <1>1, <1>2, <1>3, <1>4

\* The answer to a sync.
LEMMA SyncedStep ==
    ASSUME RoomBounds, GroupInv, NEW e, Hears(e), Group!Synced(e)  PROVE GroupKept
<1>. DEFINE h == group
            f0 == [h EXCEPT !.sync = 0]
            asked == h.sync # 0 /\ e.gen = h.sync /\ h.sync = h.gen /\ h.room.id = e.room.id
            o == Group!Terminal(f0)
            k == [o EXCEPT !.timer = TRUE]
<1>1. /\ h \in Group!FacadeType /\ Capture(h) /\ Waiting(h) /\ h.gen \in Nat /\ h.rev \in Nat
      /\ closed' = closed /\ asks' = asks /\ e.type = "synced" /\ h.room.id \in Nat
  BY WireTyped, GroupFields DEF GroupInv, Group!Synced
<1>2. /\ e \in tells /\ tells' \in SUBSET tells /\ rooms' = rooms /\ linked' \in BOOLEAN
      /\ moves' \in 0 .. MaxEffort /\ e.room \in Group!Room /\ e.room.id \in Nat
      /\ e.room.rev \in Nat /\ e.gone \in BOOLEAN
  BY HearsIs
<1>3. /\ f0 \in Group!FacadeType
      /\ f0.gen = h.gen /\ f0.mic = h.mic /\ f0.live = h.live /\ f0.mics = h.mics
      /\ f0.room = h.room /\ f0.rev = h.rev /\ f0.rejoin = h.rejoin /\ f0.rejoinRev = h.rejoinRev
      /\ f0.control = h.control /\ f0.recon = h.recon /\ f0.retired = h.retired
      /\ f0.phase = h.phase /\ f0.disc = h.disc /\ f0.sync = 0
  BY <1>1 DEF Group!FacadeType, Group!Gens
<1>4. \/ group' = k
      \/ asked /\ ~e.gone /\ e.room.rev >= h.rev /\ group' = Group!Applied(f0, e.room)
      \/ group' = f0
      \/ group' = h
  <2>1. h.rev \in Nat /\ e.room.rev \in Nat
    BY <1>1, <1>2
  <2>2. group' = CASE asked /\ e.gone -> k
                   [] asked /\ ~e.gone /\ e.room.rev >= h.rev -> Group!Applied(f0, e.room)
                   [] asked /\ ~e.gone /\ e.room.rev < h.rev -> f0
                   [] OTHER -> h
    BY Zenon DEF Group!Synced, Group!Dismissing
  <2>. HIDE DEF k, f0, asked
  <2>. QED  BY <2>1, <2>2
<1>. HIDE DEF f0
<1>5. Capture(f0) /\ Waiting(f0) /\ Turns(h, f0, Group!NoRoom) /\ SameRoom(h, f0)
  <2>1. Capture(f0) /\ SameRoom(h, f0)
    BY <1>1, <1>3 DEF Capture, SameRoom
  <2>2. Waiting(f0)
    BY <1>1, <1>3 DEF Waiting, Parting, Silent
  <2>3. Turns(h, f0, Group!NoRoom)
    BY <1>1, <1>3 DEF Turns, Below
  <2>. QED  BY <2>1, <2>2, <2>3
<1>6. CASE group' = k
  <2>1. o \in Group!FacadeType /\ o.phase = "ended"
    BY <1>3, <1>5, TerminalIs DEF Closes
  <2>. HIDE DEF o
  <2>2. Shows(o, k)
    BY <2>1 DEF Shows, Group!FacadeType, Resting
  <2>. HIDE DEF k
  <2>3. Closes(f0, k) /\ k.mics = h.mics
    BY <1>3, <1>5, <2>2, OverIs DEF o
  <2>4. Closes(h, k)
    BY <1>5, <2>3, ClosesFrom
  <2>. QED  BY <1>1, <1>2, <1>6, <2>3, <2>4, ClosesKeeps
<1>7. CASE asked /\ ~e.gone /\ e.room.rev >= h.rev /\ group' = Group!Applied(f0, e.room)
  <2>. DEFINE n == Group!Applied(f0, e.room)
  <2>1. /\ n \in Group!FacadeType
        /\ n.gen = h.gen /\ n.mic = h.mic /\ n.live = h.live /\ n.mics = h.mics
        /\ n.room = e.room /\ n.rev = e.room.rev /\ n.rejoin = h.rejoin
        /\ n.rejoinRev = h.rejoinRev
        /\ n.control = h.control /\ n.recon = h.recon /\ n.retired = h.retired
        /\ n.phase = (IF h.mic # 0 THEN "active" ELSE "ringing")
        /\ n.disc = h.disc /\ n.sync = 0
    BY <1>2, <1>3, AppliedIs
  <2>. HIDE DEF n
  <2>2. ~Parting(h) /\ h.phase \notin Resting
    BY <1>1, <1>7 DEF Waiting
  <2>3. Capture(n)
    BY <1>1, <1>7, <2>1, <2>2 DEF Capture, Resting
  <2>4. Waiting(n)
    BY <1>1, <2>1, <2>2 DEF Waiting, Parting, Silent, Resting
  <2>5. Turns(h, n, e.room)
    BY <1>1, <1>7, <2>1 DEF Turns, Below, Resting
  <2>6. Heard(e.room, tells, closed)
    BY <1>1, <1>2, <1>7 DEF Heard, Speaks, GroupInv, Final
  <2>7. n.room.id = h.room.id /\ n.rev >= h.rev /\ group' = n
    BY <1>7, <2>1 DEF n
  <2>. QED  BY <1>1, <1>2, <2>1, <2>3, <2>4, <2>5, <2>6, <2>7, TurnStep
<1>8. CASE group' = f0
  <2>1. /\ f0.mics = group.mics /\ f0.room = group.room /\ f0.rev >= group.rev
        /\ Heard(Group!NoRoom, tells, closed)
    BY <1>1, <1>3, NoneTyped DEF Heard
  <2>. QED  BY <1>1, <1>2, <1>3, <1>5, <1>8, <2>1, TurnStep
<1>9. CASE group' = h
  <2>1. Unmoved(h, h)
    BY <1>1 DEF Unmoved
  <2>. QED  BY <1>1, <1>2, <1>9, <2>1, UnmovedKeeps
<1>. QED  BY <1>4, <1>6, <1>7, <1>8, <1>9

\* An event that is of no interest.
LEMMA IgnoredStep ==
    ASSUME RoomBounds, GroupInv, NEW e, Hears(e), Group!Ignored(e)  PROVE GroupKept
<1>1. Unmoved(group, group) /\ group' = group /\ asks' = asks /\ closed' = closed
  BY WireTyped DEF Unmoved, Group!Ignored, GroupInv
<1>. QED  BY <1>1, HearsIs, UnmovedKeeps

\* A newer revision of the room that was left.
LEMMA DepartedStep ==
    ASSUME RoomBounds, GroupInv, NEW e, Hears(e), Speaks(e), e.room.id # 0,
           asks' = asks, closed' = closed,
           group.phase = "left", group.rejoin.id = e.room.id, e.room.rev > group.rejoinRev,
           NEW ahead \in BOOLEAN, ahead => group.recon.room.id = e.room.id,
           NEW recon, recon = [group.recon EXCEPT !.advanced = group.recon.advanced \/ ahead],
           NEW doubt \in BOOLEAN,
           NEW k, k = [group EXCEPT !.rejoin = e.room, !.rejoinRev = e.room.rev, !.rev = e.room.rev,
                                    !.recon = recon, !.uncertain = doubt],
           group' = k
    PROVE  GroupKept
<1>. DEFINE h == group
            rev == e.room.rev
<1>1. /\ h \in Group!FacadeType /\ Capture(h) /\ Waiting(h) /\ h.gen \in Nat /\ h.rev \in Nat
      /\ h.recon \in Group!Control /\ h.rejoinRev \in Nat
  BY WireTyped, GroupFields DEF GroupInv
<1>2. /\ e \in tells /\ tells' \in SUBSET tells /\ rooms' = rooms /\ linked' \in BOOLEAN
      /\ moves' \in 0 .. MaxEffort /\ e.room \in Group!Room /\ e.room.id \in Nat
      /\ rev \in Nat
  BY HearsIs
<1>3. /\ recon \in Group!Control /\ recon.gen = h.recon.gen /\ recon.ask = h.recon.ask
      /\ recon.room = h.recon.room
      /\ h.recon = None => recon = None
  <2>1. h.recon.advanced \/ ahead \in BOOLEAN
    OBVIOUS
  <2>2. /\ recon \in Group!Control /\ recon.gen = h.recon.gen /\ recon.ask = h.recon.ask
        /\ recon.room = h.recon.room
    BY <1>1, ControlFields DEF Group!Control
  <2>3. ASSUME h.recon = None  PROVE recon = None
    <3>1. ~ahead
      BY <2>3 DEF None, Group!NoControl, Group!NoRoom
    <3>2. (h.recon.advanced \/ ahead) = FALSE
      BY <2>3, <3>1 DEF None, Group!NoControl
    <3>3. recon = [None EXCEPT !.advanced = FALSE]
      BY <2>3, <3>2
    <3>. QED  BY <3>3 DEF None, Group!NoControl
  <2>. QED  BY <2>2, <2>3
<1>4. recon = None => h.recon = None
  <2>1. h.recon # None => h.recon.room.id # 0
    BY <1>1 DEF Waiting
  <2>. QED  BY <1>3, <2>1, NoneTyped DEF None, Group!NoControl
<1>5. k \in Group!FacadeType
  BY <1>1, <1>2, <1>3 DEF Group!FacadeType, Group!Revs
<1>6. /\ k.gen = h.gen /\ k.mic = h.mic /\ k.live = h.live /\ k.mics = h.mics
      /\ k.room = h.room /\ k.rev = rev /\ k.rejoin = e.room
      /\ k.rejoinRev = rev
      /\ k.control = h.control /\ k.recon = recon /\ k.retired = h.retired
      /\ k.phase = h.phase /\ k.disc = h.disc /\ k.sync = h.sync
  BY <1>1 DEF Group!FacadeType
<1>. HIDE DEF rev
<1>7. h.rev < rev
  BY <1>1, <1>2 DEF Waiting, Resting, rev
<1>8. Capture(k)
  BY <1>1, <1>6 DEF Capture
<1>9. Waiting(k)
  <2>1. Parting(k) <=> Parting(h)
    BY <1>3, <1>4, <1>6 DEF Parting
  <2>2. Silent(k) <=> Silent(h)
    BY <1>6 DEF Silent
  <2>3. \A c \in {k.control, k.recon} :
           c # None => c.gen = k.gen /\ c.ask < c.gen /\ c.room.id # 0
    <3>1. h.control # None => /\ h.control.gen = h.gen /\ h.control.ask < h.control.gen
                              /\ h.control.room.id # 0
      BY <1>1 DEF Waiting
    <3>2. h.recon # None => /\ h.recon.gen = h.gen /\ h.recon.ask < h.recon.gen
                            /\ h.recon.room.id # 0
      BY <1>1 DEF Waiting
    <3>3. recon # None => recon.gen = h.gen /\ recon.ask < recon.gen /\ recon.room.id # 0
      BY <1>3, <3>2
    <3>. QED  BY <1>6, <3>1, <3>3
  <2>4. k.rev <= k.rejoinRev
    BY <1>2, <1>6
  <2>. QED  BY <1>1, <1>6, <2>1, <2>2, <2>3, <2>4 DEF Waiting
<1>10. Turns(h, k, e.room)
  <2>1. h.phase \in Resting
    BY DEF Resting
  <2>2. ASSUME NEW i \in Nat \ {0}, NEW n \in Nat, Below(h, i, n), e.room.id = i => rev < n,
               h.room.id # i
        PROVE  Below(k, i, n)
    BY <1>6, <2>2 DEF Below, rev
  <2>3. recon = None \/ (h.recon # None /\ recon.ask = h.recon.ask)
    BY <1>3
  <2>4. k.rev >= h.rev
    BY <1>1, <1>2, <1>6, <1>7
  <2>5. \A i \in Nat \ {0}, n \in Nat :
          /\ Below(h, i, n)
          /\ e.room.id = i => e.room.rev < n
          /\ h.phase \in Resting => h.room.id # i
          => Below(k, i, n)
    BY <2>1, <2>2 DEF rev
  <2>6. {k.room.id, k.rejoin.id} \subseteq {0, h.room.id, h.rejoin.id, e.room.id}
    BY <1>6
  <2>7. k.gen >= h.gen
    BY <1>1, <1>6
  <2>8. k.disc = h.disc /\ k.control = h.control /\ k.retired = h.retired /\ k.room = h.room
    BY <1>6
  <2>9. k.recon = None \/ (h.recon # None /\ k.recon.ask = h.recon.ask)
    BY <1>6, <2>3
  <2>. HIDE DEF h
  <2>. QED  BY <2>1, <2>4, <2>5, <2>6, <2>7, <2>8, <2>9 DEF Turns
<1>11. Heard(e.room, tells, closed)
  BY <1>2 DEF Heard, GroupInv, Final
<1>12. k.mics = h.mics /\ (k.room.id = h.room.id /\ k.rev >= h.rev)
  BY <1>1, <1>2, <1>6, <1>7
<1>. QED  BY <1>2, <1>5, <1>8, <1>9, <1>10, <1>11, <1>12, TurnStep

\* A room that rings, or whose next revision is shown.
LEMMA ShownStep ==
    ASSUME RoomBounds, GroupInv, NEW e, Hears(e), Speaks(e), e.room.id # 0,
           asks' = asks, closed' = closed,
           e.room.id \notin closed, group.room.id # 0 => group.room.id = e.room.id,
           e.room.rev > group.rev,
           NEW k, k \in Group!FacadeType, group' = k,
           k.gen = group.gen, k.live = group.live, k.mics = group.mics,
           k.room = e.room, k.rev = e.room.rev,
           \/ k.rejoin = group.rejoin /\ k.rejoinRev = group.rejoinRev
           \/ k.rejoin = Group!NoRoom /\ k.rejoinRev = 0,
           k.control = group.control, k.recon = group.recon, k.retired = group.retired,
           k.disc = group.disc, k.sync = group.sync,
           \/ /\ group.phase \in Resting /\ k.phase = "ringing" /\ k.mic = 0
              /\ k.rejoin = Group!NoRoom
           \/ /\ group.phase \notin Resting /\ k.mic = group.mic
              /\ k.phase = (IF group.mic # 0 THEN "active" ELSE "ringing")
    PROVE  GroupKept
<1>. DEFINE h == group
<1>1. /\ h \in Group!FacadeType /\ Capture(h) /\ Waiting(h) /\ h.gen \in Nat /\ h.rev \in Nat
  BY WireTyped, GroupFields DEF GroupInv
<1>2. /\ e \in tells /\ tells' \in SUBSET tells /\ rooms' = rooms /\ linked' \in BOOLEAN
      /\ moves' \in 0 .. MaxEffort /\ e.room \in Group!Room /\ e.room.id \in Nat
      /\ e.room.rev \in Nat
  BY HearsIs
<1>3. group.phase \in Resting => group.mic = 0 /\ group.live = {} /\ h.sync = 0
  BY <1>1 DEF Capture, Waiting, Resting
<1>4. Capture(k)
  BY <1>1, <1>3 DEF Capture, Resting
<1>5. Waiting(k)
  <2>1. Parting(k) <=> Parting(h)
    BY DEF Parting
  <2>2. Silent(k) <=> Silent(h)
    BY <1>3 DEF Silent
  <2>3. Parting(h) => k.phase = "ringing" /\ k.rejoin.id = 0
    BY <1>1, NoneTyped DEF Waiting, Silent, Resting
  <2>. QED  BY <1>1, <1>3, <2>1, <2>2, <2>3 DEF Waiting, Resting
<1>6. Turns(h, k, e.room)
  BY <1>1, NoneTyped DEF Turns, Below, Resting
<1>7. Heard(e.room, tells, closed)
  BY <1>2 DEF Heard
<1>8. h.room.id = 0 \/ (k.room.id = h.room.id /\ k.rev >= h.rev)
  BY <1>1, <1>2
<1>. QED  BY <1>2, <1>4, <1>5, <1>6, <1>7, <1>8, TurnStep

\* A room that has started, or that a participant has joined or left.
LEMMA RoomEventStep ==
    ASSUME RoomBounds, GroupInv, NEW e, Hears(e), Group!RoomEvent(e)  PROVE GroupKept
<1>. DEFINE h == group
            departed == h.phase = "left" /\ h.rejoin.id = e.room.id
            ahead == h.recon.room.id = e.room.id /\ e.room.rev > h.recon.base
            recon == [h.recon EXCEPT !.advanced = h.recon.advanced \/ ahead]
            doubt == h.uncertain /\ ~ahead
            newer == [h EXCEPT !.rejoin = e.room, !.rejoinRev = e.room.rev, !.rev = e.room.rev,
                               !.recon = recon, !.uncertain = doubt]
            a == Group!Answered(h, e.type, e.room)
            accepted == Group!Accepts(e.type, e.room)
            b == [a EXCEPT !.phase = "ringing", !.room = Group!NoRoom, !.mic = 0]
            rings == [b EXCEPT !.room = e.room, !.rev = e.room.rev, !.timer = FALSE,
                               !.rejoin = Group!NoRoom, !.rejoinRev = 0]
            shown == Group!Applied(a, e.room)
<1>1. /\ h \in Group!FacadeType /\ Capture(h) /\ Waiting(h) /\ h.gen \in Nat /\ h.rev \in Nat
      /\ closed' = closed /\ asks' = asks /\ e.type \in {"started", "joined", "left"}
      /\ h.room.id \in Nat /\ h.rejoinRev \in Nat /\ h.recon.base \in Nat
  BY WireTyped, GroupFields, ControlFields DEF GroupInv, Group!RoomEvent
<1>2. /\ e \in tells /\ tells' \in SUBSET tells /\ rooms' = rooms /\ linked' \in BOOLEAN
      /\ moves' \in 0 .. MaxEffort /\ e.room \in Group!Room /\ e.room.id \in Nat /\ e.room.id # 0
      /\ e.room.rev \in Nat /\ Speaks(e)
  BY <1>1, HearsIs DEF Speaks
<1>3. \/ departed /\ e.room.rev > h.rejoinRev /\ group' = newer
      \/ group' = h
      \/ accepted /\ h.phase \in Resting /\ group' = rings
      \/ /\ accepted /\ group' = shown
         /\ e.type # "started" \/ h.phase \notin Resting
  <2>1. /\ [h EXCEPT !.rejoin = e.room, !.rejoinRev = e.room.rev, !.rev = e.room.rev,
                     !.recon.advanced = @ \/ ahead, !.uncertain = @ /\ ~ahead]
              = newer
    <3>. HIDE DEF ahead
    <3>. QED  BY <1>1 DEF Group!FacadeType
  <2>2. group' = CASE departed -> IF e.room.rev > h.rejoinRev THEN newer ELSE h
                   [] ~departed /\ ~accepted -> h
                   [] ~departed /\ accepted
                        /\ e.type = "started" /\ h.phase \in {"idle", "left", "ended", "error"}
                        -> rings
                   [] OTHER -> shown
    <3>. DEFINE n == [h EXCEPT !.rejoin = e.room, !.rejoinRev = e.room.rev, !.rev = e.room.rev,
                         !.recon.advanced = @ \/ (h.recon.room.id = e.room.id
                                                      /\ e.room.rev > h.recon.base),
                         !.uncertain = @ /\ ~(h.recon.room.id = e.room.id
                                                  /\ e.room.rev > h.recon.base)]
    <3>1. n = newer
      BY <2>1
    <3>2. group' = CASE departed -> IF e.room.rev > h.rejoinRev THEN n ELSE h
                   [] ~departed /\ ~accepted -> h
                   [] ~departed /\ accepted
                        /\ e.type = "started" /\ h.phase \in {"idle", "left", "ended", "error"}
                        -> rings
                   [] OTHER -> shown
      BY Zenon DEF Group!RoomEvent, Group!Fresh
    <3>. HIDE DEF n, newer, departed, accepted, rings, shown
    <3>. QED  BY <3>1, <3>2
  <2>. HIDE DEF newer, departed, accepted, rings, shown
  <2>. QED  BY <2>2 DEF Resting
<1>4. CASE departed /\ e.room.rev > h.rejoinRev /\ group' = newer
  <2>1. ahead \in BOOLEAN /\ doubt \in BOOLEAN /\ (ahead => h.recon.room.id = e.room.id)
    BY <1>1, GroupFields
  <2>. HIDE DEF ahead, doubt, recon
  <2>2. recon = [h.recon EXCEPT !.advanced = h.recon.advanced \/ ahead]
    BY DEF recon
  <2>. QED  BY <1>1, <1>2, <1>4, <2>1, <2>2, DepartedStep
<1>5. CASE group' = h
  <2>1. Unmoved(h, h)
    BY <1>1 DEF Unmoved
  <2>. QED  BY <1>1, <1>2, <1>5, <2>1, UnmovedKeeps
<1>6. accepted => /\ e.room.rev > h.rev /\ (h.room.id # 0 => h.room.id = e.room.id)
                  /\ e.room.id \notin closed
                  /\ h.room.id = 0 => e.type = "started"
  BY DEF Group!Accepts, GroupInv, Final
<1>7. /\ a \in Group!FacadeType
      /\ a.gen = h.gen /\ a.mic = h.mic /\ a.live = h.live /\ a.mics = h.mics
      /\ a.room = h.room /\ a.rev = h.rev
      /\ \/ a.rejoin = h.rejoin /\ a.rejoinRev = h.rejoinRev
         \/ a.rejoin = Group!NoRoom /\ a.rejoinRev = 0
      /\ a.control = h.control /\ a.recon = h.recon /\ a.retired = h.retired
      /\ a.phase = h.phase /\ a.disc = h.disc /\ a.sync = h.sync
  BY <1>1, <1>2, AnsweredIs
<1>. HIDE DEF a
<1>8. CASE accepted /\ h.phase \in Resting /\ group' = rings
  <2>1. b \in Group!FacadeType
    BY <1>7, NoneTyped DEF Group!FacadeType, Group!Gens
  <2>2. rings \in Group!FacadeType
    <3>. HIDE DEF b
    <3>. QED  BY ZenonT(60), <1>2, <2>1, NoneTyped DEF Group!FacadeType, Group!Revs
  <2>3. /\ rings.gen = a.gen /\ rings.mic = 0 /\ rings.live = a.live /\ rings.mics = a.mics
        /\ rings.room = e.room /\ rings.rev = e.room.rev
        /\ rings.rejoin = Group!NoRoom /\ rings.rejoinRev = 0
        /\ rings.control = a.control /\ rings.recon = a.recon /\ rings.retired = a.retired
        /\ rings.phase = "ringing" /\ rings.disc = a.disc /\ rings.sync = a.sync
    BY <1>7 DEF Group!FacadeType
  <2>. HIDE DEF rings, accepted
  <2>. QED  BY <1>1, <1>2, <1>6, <1>7, <1>8, <2>2, <2>3, ShownStep
<1>9. CASE accepted /\ group' = shown /\ (e.type # "started" \/ h.phase \notin Resting)
  <2>1. h.phase \notin Resting
    <3>. SUFFICES ASSUME h.phase \in Resting  PROVE FALSE
      OBVIOUS
    <3>1. h.room.id # 0 /\ h.room.id = e.room.id /\ e.room.rev > h.rev
      BY <1>6, <1>9
    <3>2. e.room.rev <= h.rev
      BY <1>2, <3>1 DEF GroupInv, Final
    <3>. QED  BY <1>1, <1>2, <3>1, <3>2
  <2>2. /\ shown \in Group!FacadeType
        /\ shown.gen = a.gen /\ shown.mic = a.mic /\ shown.live = a.live /\ shown.mics = a.mics
        /\ shown.room = e.room /\ shown.rev = e.room.rev /\ shown.rejoin = a.rejoin
        /\ shown.rejoinRev = a.rejoinRev
        /\ shown.control = a.control /\ shown.recon = a.recon /\ shown.retired = a.retired
        /\ shown.phase = (IF a.mic # 0 THEN "active" ELSE "ringing")
        /\ shown.disc = a.disc /\ shown.sync = a.sync
    BY <1>2, <1>7, AppliedIs
  <2>. HIDE DEF shown, accepted
  <2>. QED  BY <1>1, <1>2, <1>6, <1>7, <1>9, <2>1, <2>2, ShownStep
<1>. QED  BY <1>3, <1>4, <1>5, <1>8, <1>9

\* The answer to a reconciliation, once a room was left without an answer.
LEMMA ReconciledStep ==
    ASSUME RoomBounds, GroupInv, NEW e, Hears(e), Group!Reconciled(e)  PROVE GroupKept
<1>. DEFINE h == group
            c == h.recon
            f0 == [h EXCEPT !.recon = None]
            doubt == f0.uncertain \/ c.gen = f0.gen
            unsure == [f0 EXCEPT !.uncertain = doubt]
            x == [f0 EXCEPT !.phase = "left", !.room = Group!NoRoom, !.mic = 0]
            left == [x EXCEPT !.rejoin = e.room, !.rejoinRev = e.room.rev,
                              !.rev = e.room.rev, !.uncertain = FALSE]
            y == [f0 EXCEPT !.phase = "ended", !.room = Group!NoRoom, !.mic = 0]
            retired == h.retired \cup {c.room.id}
            over == [y EXCEPT !.retired = retired, !.uncertain = FALSE]
<1>1. /\ h \in Group!FacadeType /\ Capture(h) /\ Waiting(h) /\ h.gen \in Nat /\ h.rev \in Nat
      /\ closed' = closed /\ asks' = asks /\ IsSnapshot(e) /\ c # None /\ c.ask = e.gen
      /\ c \in Group!Control
  BY WireTyped, GroupFields DEF GroupInv, Group!Reconciled, IsSnapshot, None
<1>2. /\ e \in tells /\ tells' \in SUBSET tells /\ rooms' = rooms /\ linked' \in BOOLEAN
      /\ moves' \in 0 .. MaxEffort /\ e.room \in Group!Room /\ e.room.id \in Nat
      /\ e.room.rev \in Nat /\ e.gone \in BOOLEAN
  BY HearsIs
<1>3. /\ f0 \in Group!FacadeType
      /\ f0.gen = h.gen /\ f0.mic = h.mic /\ f0.live = h.live /\ f0.mics = h.mics
      /\ f0.room = h.room /\ f0.rev = h.rev /\ f0.rejoin = h.rejoin /\ f0.rejoinRev = h.rejoinRev
      /\ f0.control = h.control /\ f0.recon = None /\ f0.retired = h.retired
      /\ f0.phase = h.phase /\ f0.disc = h.disc /\ f0.sync = h.sync
  BY <1>1, NoneTyped DEF Group!FacadeType
<1>4. \/ group' = f0
      \/ group' = unsure
      \/ ~e.gone /\ group' = left
      \/ group' = over
  <2>1. group' = CASE c.gen # h.gen -> f0
                   [] c.gen = h.gen /\ ~e.gone /\ e.room.rev < c.base -> unsure
                   [] c.gen = h.gen /\ ~e.gone /\ e.room.rev >= c.base /\ e.room.me -> left
                   [] OTHER -> [y EXCEPT !.retired = f0.retired \cup {c.room.id},
                                         !.uncertain = FALSE]
    <3>1. [y EXCEPT !.retired = y.retired \cup {c.room.id}, !.uncertain = FALSE]
            = [y EXCEPT !.retired = f0.retired \cup {c.room.id}, !.uncertain = FALSE]
      <4>1. y.retired = f0.retired
        <5>. HIDE DEF f0
        <5>. QED  BY <1>3 DEF Group!FacadeType
      <4>. QED  BY <4>1
    <3>. QED  BY <3>1, Zenon DEF Group!Reconciled, Group!Fresh, Group!Uncertain, None
  <2>2. f0.retired = h.retired
    BY <1>3
  <2>. HIDE DEF f0, unsure, left, y
  <2>. QED  BY <2>1, <2>2
<1>5. Parting(h) /\ Silent(h) /\ h.disc = 0 /\ h.sync = 0 /\ h.mic = 0 /\ h.live = {}
      /\ h.phase \in {"idle", "left", "ended", "ringing"}
  <2>1. Parting(h)
    BY <1>1 DEF Parting
  <2>. QED  BY <1>1, <2>1 DEF Waiting, Silent, Capture
<1>. HIDE DEF f0
<1>6. ASSUME NEW k, Unmoved(f0, k), group' = k  PROVE GroupKept
  <2>1. /\ k \in Group!FacadeType
        /\ k.gen = h.gen /\ k.mic = h.mic /\ k.live = h.live /\ k.mics = h.mics
        /\ k.room = h.room /\ k.rev = h.rev /\ k.rejoin = h.rejoin /\ k.rejoinRev = h.rejoinRev
        /\ k.control = h.control /\ k.recon = None /\ k.retired = h.retired
        /\ k.phase = h.phase /\ k.disc = h.disc /\ k.sync = h.sync
    BY <1>3, <1>6 DEF Unmoved
  <2>2. Capture(k)
    BY <1>1, <2>1 DEF Capture
  <2>3. Waiting(k)
    BY <1>1, <1>5, <2>1 DEF Waiting, Parting, Silent
  <2>4. Turns(h, k, Group!NoRoom)
    BY <1>1, <2>1 DEF Turns, Below
  <2>5. k.rev >= h.rev
    BY <1>1, <2>1
  <2>. QED  BY <1>1, <1>2, <1>6, <2>1, <2>2, <2>3, <2>4, <2>5, NoneTyped, TurnStep DEF Heard
<1>7. CASE group' = f0
  BY <1>3, <1>6, <1>7 DEF Unmoved
<1>8. CASE group' = unsure
  <2>1. doubt \in BOOLEAN
    BY <1>3, GroupFields
  <2>. HIDE DEF doubt
  <2>2. Unmoved(f0, unsure)
    BY <1>3, <2>1 DEF Unmoved, Group!FacadeType
  <2>. HIDE DEF unsure
  <2>. QED  BY <1>6, <1>8, <2>2
<1>9. CASE ~e.gone /\ group' = left
  <2>1. x \in Group!FacadeType
    BY <1>3, NoneTyped DEF Group!FacadeType, Group!Gens
  <2>2. left \in Group!FacadeType
    <3>. HIDE DEF x
    <3>. QED  BY ZenonT(60), <1>2, <2>1 DEF Group!FacadeType, Group!Revs
  <2>3. /\ left.gen = h.gen /\ left.mic = 0 /\ left.live = h.live /\ left.mics = h.mics
        /\ left.room = Group!NoRoom /\ left.rev = e.room.rev /\ left.rejoin = e.room
        /\ left.rejoinRev = e.room.rev
        /\ left.control = h.control /\ left.recon = None /\ left.retired = h.retired
        /\ left.phase = "left" /\ left.disc = h.disc /\ left.sync = h.sync
    BY <1>3 DEF Group!FacadeType
  <2>. HIDE DEF left
  <2>4. Capture(left)
    BY <1>1, <1>5, <2>3 DEF Capture, Silent
  <2>5. Waiting(left)
    BY <1>1, <1>2, <1>5, <2>3 DEF Waiting, Parting, Silent
  <2>6. Turns(h, left, e.room)
    BY <1>1, <1>2, <2>3, NoneTyped DEF Turns, Below
  <2>7. Heard(e.room, tells, closed)
    BY <1>1, <1>2, <1>9 DEF Heard, Speaks, GroupInv, Final, IsSnapshot
  <2>. QED  BY <1>1, <1>2, <1>9, <2>2, <2>3, <2>4, <2>5, <2>6, <2>7, NoneTyped, TurnStep
<1>10. CASE group' = over
  <2>1. retired \in SUBSET Group!RoomIds
    <3>1. c.room.id # 0 /\ c.room.id \in Group!RoomIds \cup {0}
      BY <1>1, ControlFields, RoomFields DEF Waiting
    <3>. QED  BY <1>1, <3>1, GroupFields
  <2>2. y \in Group!FacadeType
    BY <1>3, NoneTyped DEF Group!FacadeType, Group!Gens
  <2>3. h.retired \subseteq retired
    OBVIOUS
  <2>. HIDE DEF retired
  <2>4. over \in Group!FacadeType
    <3>. HIDE DEF y
    <3>. QED  BY <2>1, <2>2 DEF Group!FacadeType
  <2>5. /\ over.gen = h.gen /\ over.mic = 0 /\ over.live = h.live /\ over.mics = h.mics
        /\ over.room = Group!NoRoom /\ over.rev = h.rev /\ over.rejoin = h.rejoin
        /\ over.rejoinRev = h.rejoinRev
        /\ over.control = h.control /\ over.recon = None /\ over.retired = retired
        /\ over.phase = "ended" /\ over.disc = h.disc /\ over.sync = h.sync
    BY <1>3 DEF Group!FacadeType
  <2>. HIDE DEF over
  <2>6. Capture(over)
    BY <1>1, <1>5, <2>5 DEF Capture, Silent
  <2>7. Waiting(over)
    BY <1>1, <1>2, <1>5, <2>5 DEF Waiting, Parting, Silent, Resting
  <2>8. Turns(h, over, Group!NoRoom)
    BY <1>1, <1>2, <2>3, <2>5, NoneTyped DEF Turns, Below
  <2>. QED  BY <1>1, <1>2, <1>10, <2>4, <2>5, <2>6, <2>7, <2>8, NoneTyped, TurnStep DEF Heard
<1>. QED  BY <1>4, <1>7, <1>8, <1>9, <1>10

\* The end of a room that was known here.
LEMMA EndKeeps ==
    ASSUME RoomBounds, GroupInv, NEW e, Hears(e), e.type = "ended",
           NEW k, k \in Group!FacadeType, group' = k, asks' = asks,
           closed' = closed \cup {e.room.id},
           k.gen >= group.gen, k.room = Group!NoRoom, k.disc = 0, k.recon = None,
           k.control \in {None, group.control}, k.rejoin.id # e.room.id,
           \/ k.rejoin.id = 0
           \/ k.rejoin = group.rejoin /\ k.rejoinRev = group.rejoinRev,
           group.retired \subseteq k.retired, e.room.id \in k.retired,
           Capture(k), Waiting(k)
    PROVE  GroupInv'
<1>1. /\ group \in Group!FacadeType /\ group.gen \in Nat
      /\ rooms.last \in Nat /\ rooms.room.id \in Nat /\ rooms.room.rev \in Nat
      /\ \A m \in tells : m.room.id \in Nat /\ m.room.rev \in Nat
  BY WireTyped, GroupFields DEF GroupInv
<1>2. /\ e \in tells /\ tells' = tells \ {e} /\ rooms' = rooms /\ linked' \in BOOLEAN
      /\ moves' \in 0 .. MaxEffort /\ e.room.id \in Nat
      /\ e.room.rev \in Nat /\ ~e.gone /\ e.room.id # 0 /\ closed \subseteq Nat /\ 0 \notin closed
  BY HearsIs DEF Hears
<1>3. Turns(group, k, Group!NoRoom)
  BY NoneTyped DEF Turns, Below
<1>4. asks' \in Seq(Group!Request) /\ Wired(group', asks', tells')
  BY <1>2, <1>3, TurnWired
<1>5. /\ e.room.id <= rooms.last
      /\ \A m \in tells' : m.gone \/ m.room.id <= rooms.last
      /\ \A m \in tells' : m.gone => m.type \in {"rejected", "synced"}
      /\ \A m \in tells' : m.type \in {"started", "joined", "left", "ended"} => m.room.id # 0
      /\ closed \subseteq 1 .. rooms.last /\ group.rejoin.id \in 0 .. rooms.last
  BY <1>2 DEF GroupInv, RoomsNamed
<1>6. RoomsNamed(group', tells', rooms', closed')
  <2>1. closed' \subseteq 1 .. rooms.last
    <3>1. e.room.id \in 1 .. rooms.last
      BY <1>1, <1>2, <1>5
    <3>2. closed \subseteq 1 .. rooms.last
      BY <1>5
    <3>. QED  BY <3>1, <3>2
  <2>2. {k.room.id, k.rejoin.id} \subseteq 0 .. rooms.last
    BY <1>1, <1>5, NoneTyped
  <2>. QED  BY <1>2, <1>5, <2>1, <2>2 DEF RoomsNamed
<1>7. /\ closed' \subseteq k.retired
      /\ {k.room.id, k.rejoin.id} \cap closed' = {}
      /\ rooms.room.id \notin closed'
  BY <1>2, NoneTyped DEF GroupInv, Final
<1>8. \A m \in tells' : m.type = "ended" => m.room.id \notin closed' \cup {rooms.room.id}
  BY <1>2 DEF GroupInv, Final
<1>9. \A m, n \in tells' : m.type = "ended" /\ n.type = "ended" /\ m.room.id = n.room.id => m = n
  BY <1>2 DEF GroupInv, Final
<1>10. ASSUME NEW i \in Nat \ {0}, NEW n \in Nat, Limited(group, tells, i, n)
       PROVE  Limited(k, tells', i, n)
  BY <1>2, <1>10, NoneTyped DEF Limited, Below
<1>11. rooms.room.id # 0 => Limited(k, tells', rooms.room.id, rooms.room.rev + 1)
  BY <1>1, <1>10 DEF GroupInv, Final
<1>12. \A m \in tells' : m.type = "ended" => Limited(k, tells', m.room.id, m.room.rev)
  BY <1>1, <1>2, <1>10 DEF GroupInv, Final, RoomsNamed
<1>13. Final(group', tells', rooms', closed')
  BY <1>2, <1>7, <1>8, <1>9, <1>11, <1>12, NoneTyped DEF Final
<1>14. closed' \subseteq Group!RoomIds
  <2>1. k.retired \subseteq Group!RoomIds
    BY GroupFields
  <2>. QED  BY <2>1 DEF GroupInv, Group!TypeOK
<1>15. Group!TypeOK'
  BY <1>2, <1>4, <1>14 DEF GroupInv, Group!TypeOK
<1>. QED  BY <1>2, <1>4, <1>6, <1>13, <1>15 DEF GroupInv

\* The end of a room, shown before it is asked what room it is of.
LEMMA GroupEndedStep ==
    ASSUME RoomBounds, GroupInv, NEW e, Hears(e), Group!Ended(e)  PROVE GroupKept
<1>. DEFINE h == group
            g == IF FullEnds THEN [h EXCEPT !.room = e.room] ELSE h
            known == Group!Known(g)
            applies == known[1] = e.room.id /\ e.room.rev > known[2]
            o == Group!Terminal(g)
            retired == o.retired \cup {e.room.id}
            over == [[o EXCEPT !.retired = retired] EXCEPT !.timer = TRUE]
            y == [g EXCEPT !.phase = "ended", !.room = Group!NoRoom, !.mic = 0]
            gone == g.retired \cup {e.room.id}
            done == [y EXCEPT !.recon = None, !.retired = gone]
<1>1. /\ h \in Group!FacadeType /\ Capture(h) /\ Waiting(h) /\ h.gen \in Nat /\ h.rev \in Nat
      /\ asks' = asks /\ e.type = "ended" /\ h.rejoinRev \in Nat /\ h.room.id \in Nat
      /\ h.retired \subseteq Group!RoomIds
  BY WireTyped, GroupFields DEF GroupInv, Group!Ended
<1>2. /\ e \in tells /\ tells' = tells \ {e} /\ rooms' = rooms /\ linked' \in BOOLEAN
      /\ moves' \in 0 .. MaxEffort /\ e.room \in Group!Room /\ e.room.id \in Nat
      /\ e.room.rev \in Nat /\ e.room.id # 0 /\ tells' \in SUBSET tells /\ ~e.gone
  BY <1>1, HearsIs DEF Hears
<1>3. e.room.id \in Group!RoomIds
  BY <1>2, RoomFields
<1>4. /\ g \in Group!FacadeType
      /\ g.gen = h.gen /\ g.mic = h.mic /\ g.live = h.live /\ g.mics = h.mics
      /\ g.room = (IF FullEnds THEN e.room ELSE h.room)
      /\ g.rev = h.rev /\ g.rejoin = h.rejoin /\ g.rejoinRev = h.rejoinRev
      /\ g.control = h.control /\ g.recon = h.recon /\ g.retired = h.retired
      /\ g.phase = h.phase /\ g.disc = h.disc /\ g.sync = h.sync
  <2>1. CASE FullEnds
    BY <1>1, <1>2, <2>1 DEF Group!FacadeType
  <2>2. CASE ~FullEnds
    BY <1>1, <2>2
  <2>. QED  BY <2>1, <2>2
<1>5. \/ applies /\ group' = over /\ closed' = closed \cup {e.room.id}
      \/ /\ ~applies /\ Group!Verified(e) /\ group' = done
         /\ closed' = closed \cup {e.room.id}
      \/ ~applies /\ group' = g /\ closed' = closed
  <2>1. group' = CASE applies -> Group!Dismissing([o EXCEPT !.retired = o.retired \cup {e.room.id}])
                   [] ~applies /\ Group!Verified(e) ->
                        [y EXCEPT !.recon = None, !.retired = y.retired \cup {e.room.id}]
                   [] OTHER -> g
    BY Zenon DEF Group!Ended, Group!Fresh, None
  <2>2. closed' = IF applies \/ Group!Verified(e) THEN closed \cup {e.room.id} ELSE closed
    BY Zenon DEF Group!Ended
  <2>3. Group!Dismissing([o EXCEPT !.retired = o.retired \cup {e.room.id}]) = over
    BY Zenon DEF Group!Dismissing
  <2>4. y.retired = g.retired
    <3>. HIDE DEF g
    <3>. QED  BY <1>4 DEF Group!FacadeType
  <2>5. [y EXCEPT !.recon = None, !.retired = y.retired \cup {e.room.id}] = done
    BY <2>4
  <2>. HIDE DEF applies, over, done, g, y, o
  <2>. QED  BY <2>1, <2>2, <2>3, <2>5
<1>6. applies <=> known[1] = e.room.id /\ e.room.rev > known[2]
  OBVIOUS
<1>7. /\ g.room.id # 0 => known = <<g.room.id, g.rev>>
      /\ g.room.id = 0 /\ g.rejoin.id # 0 => known = <<g.rejoin.id, g.rejoinRev>>
  <2>. HIDE DEF g
  <2>. QED  BY DEF Group!Known
<1>. HIDE DEF g, known, applies
<1>8. Capture(g)
  BY <1>1, <1>2, <1>4 DEF Capture
<1>9. CASE applies /\ group' = over /\ closed' = closed \cup {e.room.id}
  <2>1. o \in Group!FacadeType /\ o.phase = "ended" /\ o.retired \subseteq Group!RoomIds
    <3>1. o \in Group!FacadeType /\ o.phase = "ended"
      BY <1>4, <1>8, TerminalIs DEF Closes
    <3>. QED  BY <3>1, GroupFields
  <2>. HIDE DEF o
  <2>2. retired \in SUBSET Group!RoomIds /\ o.retired \subseteq retired /\ e.room.id \in retired
    BY <1>3, <2>1
  <2>. HIDE DEF retired
  <2>3. Shows(o, over) /\ over.retired = retired
    BY <2>1, <2>2 DEF Shows, Group!FacadeType, Resting
  <2>. HIDE DEF over
  <2>4. Closes(g, over) /\ over.rejoin.id = 0 /\ over.mics = h.mics /\ over.control = None
    BY <1>4, <1>8, <2>3, OverIs DEF o
  <2>5. Capture(over) /\ Waiting(over)
    BY <1>4, <1>8, <2>4, ClosesIs
  <2>6. GroupInv'
    BY <1>1, <1>2, <1>4, <1>9, <2>2, <2>3, <2>4, <2>5, EndKeeps DEF Closes
  <2>7. over.gen # h.gen
    BY <1>1, <1>4, <2>4 DEF Closes
  <2>. QED  BY <1>9, <2>4, <2>6, <2>7 DEF GroupKept, Group!EstablishedRoomHolds,
               Group!RoomStays, Group!LateGrantIsFenced
<1>10. CASE ~applies /\ Group!Verified(e) /\ group' = done /\ closed' = closed \cup {e.room.id}
  <2>1. h.recon # None
    BY <1>10 DEF Group!Verified, None
  <2>2. /\ Parting(h) /\ Silent(h) /\ h.disc = 0 /\ h.sync = 0 /\ h.mic = 0 /\ h.live = {}
        /\ h.phase \in {"idle", "left", "ended", "ringing"}
    BY <1>1, <2>1 DEF Waiting, Silent, Capture, Parting
  <2>3. h.rejoin.id # e.room.id
    <3>. SUFFICES ASSUME h.rejoin.id = e.room.id  PROVE FALSE
      OBVIOUS
    <3>1. h.phase \in Resting /\ h.rev <= h.rejoinRev
      BY <1>1, <1>2, <2>2 DEF Waiting, Resting
    <3>2. Below(h, e.room.id, e.room.rev)
      BY <1>1, <1>2 DEF GroupInv, Final, Limited
    <3>3. h.rejoinRev < e.room.rev
      BY <3>2 DEF Below
    <3>4. CASE FullEnds
      <4>1. known = <<e.room.id, h.rev>>
        BY <1>2, <1>4, <1>7, <3>4
      <4>. QED  BY <1>1, <1>2, <1>6, <1>10, <3>1, <3>3, <4>1
    <3>5. CASE ~FullEnds
      <4>1. h.room.id = 0
        BY <3>1, <3>5 DEF GroupInv, Final
      <4>2. known = <<e.room.id, h.rejoinRev>>
        BY <1>2, <1>4, <1>7, <3>5, <4>1
      <4>. QED  BY <1>1, <1>2, <1>6, <1>10, <3>3, <4>2
    <3>. QED  BY <3>4, <3>5
  <2>4. /\ gone \in SUBSET Group!RoomIds /\ h.retired \subseteq gone /\ e.room.id \in gone
    BY <1>1, <1>3, <1>4
  <2>5. y \in Group!FacadeType
    BY <1>4, NoneTyped DEF Group!FacadeType, Group!Gens
  <2>. HIDE DEF gone
  <2>6. done \in Group!FacadeType
    <3>. HIDE DEF y
    <3>. QED  BY <2>4, <2>5, NoneTyped DEF Group!FacadeType
  <2>7. /\ done.gen = h.gen /\ done.mic = 0 /\ done.live = h.live /\ done.mics = h.mics
        /\ done.room = Group!NoRoom /\ done.rev = h.rev /\ done.rejoin = h.rejoin
        /\ done.rejoinRev = h.rejoinRev
        /\ done.control = h.control /\ done.recon = None /\ done.retired = gone
        /\ done.phase = "ended" /\ done.disc = h.disc /\ done.sync = h.sync
    BY <1>4 DEF Group!FacadeType
  <2>. HIDE DEF done
  <2>8. Capture(done)
    BY <1>1, <2>2, <2>7 DEF Capture, Silent
  <2>9. Waiting(done)
    BY <1>1, <1>2, <2>2, <2>7 DEF Waiting, Parting, Silent, Resting
  <2>10. GroupInv'
    BY <1>1, <1>2, <1>10, <2>2, <2>3, <2>4, <2>6, <2>7, <2>8, <2>9, EndKeeps
  <2>. QED  BY <1>10, <2>7, <2>10, NoneTyped DEF GroupKept, Group!EstablishedRoomHolds,
               Group!RoomStays, Group!LateGrantIsFenced
<1>11. CASE ~applies /\ group' = g /\ closed' = closed /\ ~FullEnds
  <2>1. g = h
    BY <1>11 DEF g
  <2>2. Unmoved(h, h)
    BY <1>1 DEF Unmoved
  <2>. QED  BY <1>1, <1>2, <1>11, <2>1, <2>2, UnmovedKeeps
<1>12. CASE ~applies /\ group' = g /\ closed' = closed /\ FullEnds
  <2>1. g.room = e.room /\ known = <<e.room.id, h.rev>>
    BY <1>2, <1>4, <1>7, <1>12
  <2>2. e.room.rev <= h.rev
    BY <1>1, <1>2, <1>6, <1>12, <2>1
  <2>3. /\ rooms.room.id \in Nat /\ rooms.room.rev \in Nat
        /\ \A m \in tells : m.room.id \in Nat /\ m.room.rev \in Nat
    BY WireTyped DEF GroupInv
  <2>4. Waiting(g)
    BY <1>1, <1>4 DEF Waiting, Parting, Silent
  <2>5. asks' \in Seq(Group!Request) /\ Wired(g, asks', tells')
    <3>1. Turns(h, h, Group!NoRoom)
      BY <1>1 DEF Turns
    <3>2. asks' \in Seq(Group!Request) /\ Wired(h, asks', tells')
      BY <1>1, <1>2, <3>1, TurnWired
    <3>. QED  BY <1>4, <3>2 DEF Wired
  <2>6. RoomsNamed(g, tells', rooms', closed')
    BY <1>2, <1>4, <1>12, <2>1, <2>3 DEF GroupInv, RoomsNamed
  <2>7. e.room.id # rooms.room.id /\ e.room.id \notin closed
    BY <1>1, <1>2 DEF GroupInv, Final
  <2>8. Limited(h, tells, e.room.id, e.room.rev)
    BY <1>1, <1>2 DEF GroupInv, Final
  <2>9. ASSUME NEW i, NEW n, i # e.room.id, Limited(h, tells, i, n)
        PROVE  Limited(g, tells', i, n)
    BY <1>2, <1>4, <2>1, <2>9 DEF Limited, Below
  <2>10. rooms.room.id # 0 => Limited(g, tells', rooms.room.id, rooms.room.rev + 1)
    BY <2>7, <2>9 DEF GroupInv, Final
  <2>11. \A m \in tells' : m.type = "ended" =>
            Limited(g, tells', m.room.id, m.room.rev) /\ m.room.id # e.room.id
    BY <1>1, <1>2, <2>9 DEF GroupInv, Final
  <2>12. \A m \in tells' : Speaks(m) /\ m.room.id = g.room.id => m.room.rev <= g.rev
    BY <1>1, <1>2, <1>4, <2>1, <2>2, <2>3, <2>8 DEF Limited
  <2>13. Final(g, tells', rooms', closed')
    BY <1>2, <1>4, <1>12, <2>1, <2>7, <2>10, <2>11, <2>12 DEF GroupInv, Final
  <2>14. Group!TypeOK'
    BY <1>2, <1>4, <1>12, <2>5 DEF GroupInv, Group!TypeOK
  <2>15. GroupInv'
    BY <1>2, <1>8, <1>12, <2>4, <2>5, <2>6, <2>13, <2>14 DEF GroupInv
  <2>16. Group!EndIsShown
    BY <1>1, <1>2, <1>4, <1>12, <2>1 DEF Group!EndIsShown
  <2>. QED  BY <1>4, <1>12, <2>15, <2>16 DEF GroupKept, Group!EstablishedRoomHolds,
               Group!LateGrantIsFenced
<1>. QED  BY <1>5, <1>9, <1>10, <1>11, <1>12

\* Any event of the server.
LEMMA GroupHandleEventStep ==
    ASSUME RoomBounds, GroupInv, NEW e \in tells, Group!HandleEvent(e)  PROVE GroupKept
<1>1. Hears(e)
  BY DEF Hears, Group!HandleEvent
<1>. QED  BY <1>1, GroupRejectedStep, DiscoveredStep, RoomEventStep, GroupEndedStep,
             ReconciledStep, SyncedStep, IgnoredStep DEF Group!HandleEvent

-----------------------------------------------------------------------------
(* The server.                                                             *)

\* A request is answered, or none is.
Serves ==
    UNCHANGED <<group, linked, closed>> /\ (asks' = asks \/ (asks # <<>> /\ asks' = Tail(asks)))

\* What is told may be told in this generation.
Timely(e) ==
    /\ e \in Group!Event /\ e.gen <= group.gen
    /\ e.type = "discovered" => e.gen # 0
    /\ IsSnapshot(e) => e.gen < group.gen /\ (group.control # None => e.gen # group.control.ask)

\* What the server answers is of a generation that was.
LEMMA ServesWired ==
    ASSUME RoomBounds, GroupInv, Serves, NEW d, d = tells \/ \E e : Timely(e) /\ d = tells \cup {e}
    PROVE  asks' \in Seq(Group!Request) /\ Wired(group, asks', d) /\ d \subseteq Group!Event
<1>1. asks \in Seq(Group!Request) /\ tells \subseteq Group!Event
  BY DEF GroupInv, Group!TypeOK
<1>2. /\ asks' \in Seq(Group!Request)
      /\ \A i \in DOMAIN asks' : \E j \in DOMAIN asks : asks'[i] = asks[j]
  <2>1. CASE asks' = asks
    BY <1>1, <2>1
  <2>2. CASE asks # <<>> /\ asks' = Tail(asks)
    <3>1. /\ asks' \in Seq(Group!Request) /\ Len(asks') = Len(asks) - 1
          /\ \A i \in 1 .. Len(asks') : asks'[i] = asks[i + 1]
      BY <1>1, <2>2, HeadTailProperties
    <3>2. \A i \in DOMAIN asks' : i + 1 \in DOMAIN asks
      BY <1>1, <3>1, LenProperties
    <3>3. DOMAIN asks' = 1 .. Len(asks')
      BY <3>1, LenProperties
    <3>. QED  BY <3>1, <3>2, <3>3
  <2>. QED  BY <2>1, <2>2 DEF Serves
<1>3. /\ \A i \in DOMAIN asks' : asks'[i].gen <= group.gen
      /\ \A i \in DOMAIN asks' : asks'[i].type = "discover" => asks'[i].gen # 0
      /\ \A i \in DOMAIN asks' : asks'[i].type = "join" => asks'[i].id # 0
      /\ \A i \in DOMAIN asks' : asks'[i].type = "resync" => asks'[i].gen < group.gen
      /\ \A i \in DOMAIN asks' : asks'[i].type = "resync" /\ group.control # None =>
            asks'[i].gen # group.control.ask
  BY <1>2 DEF GroupInv, Wired
<1>4. /\ \A e \in d : e.gen <= group.gen /\ (e.type = "discovered" => e.gen # 0)
      /\ \A e \in d : IsSnapshot(e) => e.gen < group.gen
      /\ \A e \in d : IsSnapshot(e) /\ group.control # None => e.gen # group.control.ask
  BY DEF GroupInv, Wired, Timely
<1>5. d \subseteq Group!Event
  BY <1>1 DEF Timely
<1>. QED  BY <1>2, <1>3, <1>4, <1>5 DEF Wired

\* A step of the server keeps the invariant if what it names and tells of rooms does.
LEMMA ServesKeeps ==
    ASSUME RoomBounds, GroupInv, Serves,
           tells' = tells \/ \E e : Timely(e) /\ tells' = tells \cup {e},
           rooms' \in [room : Group!Room, last : Group!RoomIds \cup {0}, stale : BOOLEAN,
                       member : BOOLEAN],
           Serving(rooms'), RoomsNamed(group, tells', rooms', closed),
           Final(group, tells', rooms', closed), moves' \in 0 .. MaxEffort
    PROVE  GroupKept
<1>1. asks' \in Seq(Group!Request) /\ Wired(group, asks', tells') /\ tells' \subseteq Group!Event
  BY ServesWired
<1>2. group' = group /\ linked' = linked /\ closed' = closed
  BY DEF Serves
<1>3. Group!TypeOK'
  BY <1>1, <1>2 DEF GroupInv, Group!TypeOK
<1>4. GroupInv'
  BY <1>1, <1>2, <1>3 DEF GroupInv
<1>5. group.rev \in Nat
  BY WireTyped, GroupFields DEF GroupInv
<1>. QED  BY <1>2, <1>4, <1>5 DEF GroupKept, Group!EstablishedRoomHolds, Group!RoomStays,
             Group!LateGrantIsFenced

\* An answer that tells of no room, or of the one there is.
LEMMA ReplyKeeps ==
    ASSUME RoomBounds, GroupInv, Serves, rooms' = rooms, moves' \in 0 .. MaxEffort,
           NEW e, Timely(e), tells' = tells \cup {e},
           e.type \in {"rejected", "discovered", "synced"},
           e.gone => e.type \in {"rejected", "synced"},
           e.gone \/ e.room = rooms.room \/ e.room = Group!NoRoom
    PROVE  GroupKept
<1>1. /\ rooms.last \in Nat /\ rooms.room.id \in Nat /\ rooms.room.rev \in Nat
      /\ \A m \in tells : m.room.id \in Nat /\ m.room.rev \in Nat
      /\ group.rev \in Nat /\ group.gen \in Nat /\ group.room.id \in Nat
  BY WireTyped, GroupFields DEF GroupInv
<1>2. Serving(rooms') /\ rooms' \in [room : Group!Room, last : Group!RoomIds \cup {0},
                                     stale : BOOLEAN, member : BOOLEAN]
  BY DEF GroupInv, Group!TypeOK
<1>3. ~e.gone => e.room.id \in {0, rooms.room.id} /\ (e.room.id # 0 => e.room = rooms.room)
  BY NoneTyped
<1>4. 0 \notin closed
  BY DEF GroupInv, RoomsNamed
<1>5. RoomsNamed(group, tells', rooms', closed)
  <2>1. e.gone \/ e.room.id <= rooms.last
    BY <1>1, <1>3 DEF GroupInv, Serving
  <2>. QED  BY <2>1 DEF GroupInv, RoomsNamed
<1>6. ~e.gone => e.room.id \notin closed
  BY <1>3, <1>4 DEF GroupInv, Final
<1>7. ASSUME NEW i \in Nat \ {0}, NEW n \in Nat, Limited(group, tells, i, n),
             i = rooms.room.id => rooms.room.rev < n
      PROVE  Limited(group, tells', i, n)
  BY <1>3, <1>7 DEF Limited, Speaks
<1>8. rooms.room.id # 0 => Limited(group, tells', rooms.room.id, rooms.room.rev + 1)
  <2>1. rooms.room.id # 0 => Limited(group, tells, rooms.room.id, rooms.room.rev + 1)
    BY DEF GroupInv, Final
  <2>2. rooms.room.rev + 1 \in Nat /\ rooms.room.rev < rooms.room.rev + 1
    BY <1>1
  <2>. QED  BY <1>1, <1>7, <2>1, <2>2
<1>9. \A m \in tells' : m.type = "ended" =>
         /\ m \in tells /\ m.room.id \notin closed \cup {rooms.room.id}
         /\ m.room.id # group.room.id \/ group.phase \notin Resting \/ group.room.id = 0
  <2>1. \A m \in tells' : m.type = "ended" => m \in tells
    OBVIOUS
  <2>. QED  BY <2>1 DEF GroupInv, Final
<1>10. \A m \in tells' : m.type = "ended" => Limited(group, tells', m.room.id, m.room.rev)
  BY <1>1, <1>7, <1>9 DEF GroupInv, Final, RoomsNamed
<1>11. \A m, n \in tells' : m.type = "ended" /\ n.type = "ended" /\ m.room.id = n.room.id => m = n
  BY <1>9 DEF GroupInv, Final
<1>12. \A m \in tells' : m.type = "discovered" /\ group.disc # 0 /\ m.gen = group.disc =>
          m.room.id \notin closed
  BY <1>6 DEF GroupInv, Final
<1>13. \A m \in tells' : IsSnapshot(m) /\ ~m.gone /\ group.recon # None /\ m.gen = group.recon.ask
          => m.room.id \notin closed
  BY <1>6 DEF GroupInv, Final
<1>14. group.phase \in Resting /\ group.room.id # 0 =>
          /\ FullEnds /\ group.room.id # rooms.room.id
          /\ \A m \in tells' : m.type = "ended" => m.room.id # group.room.id
          /\ \A m \in tells' : Speaks(m) /\ m.room.id = group.room.id => m.room.rev <= group.rev
  BY <1>3 DEF GroupInv, Final, Speaks
<1>15. /\ closed \subseteq group.retired
       /\ {group.room.id, group.rejoin.id} \cap closed = {}
       /\ rooms.room.id \notin closed
  BY DEF GroupInv, Final
<1>16. Final(group, tells', rooms', closed)
  BY <1>8, <1>9, <1>10, <1>11, <1>12, <1>13, <1>14, <1>15 DEF Final
<1>. QED  BY <1>2, <1>5, <1>16, ServesKeeps

\* A room that opens or changes has a new revision, which nobody knows yet.
LEMMA ChangeKeeps ==
    ASSUME RoomBounds, GroupInv, Serves, NEW room \in Group!Room, room.id # 0,
           NEW type \in {"started", "joined", "left"}, NEW told, Group!Change(room, type, told),
           \/ room.id = rooms.room.id /\ room.rev = rooms.room.rev + 1
           \/ rooms.room = Group!NoRoom /\ room.id = rooms.last + 1 /\ room.rev = 1
    PROVE  GroupKept
<1>. DEFINE e == Group!Told(type, room)
            now == IF room.me \/ room.peer THEN room ELSE Group!NoRoom
            stale == rooms.stale /\ room.me
<1>1. /\ rooms.last \in Nat /\ rooms.room.id \in Nat /\ rooms.room.rev \in Nat
      /\ \A m \in tells : m.room.id \in Nat /\ m.room.rev \in Nat
      /\ group.rev \in Nat /\ group.gen \in Nat /\ group.room.id \in Nat
      /\ group.rejoin.id \in Nat /\ group.rejoinRev \in Nat
      /\ group.room.rev \in Nat /\ group.rejoin.rev \in Nat
  BY WireTyped, GroupFields DEF GroupInv
<1>2. /\ room.id \in Nat /\ room.rev \in Nat /\ room.me \in BOOLEAN /\ room.peer \in BOOLEAN
      /\ room.id \in Group!RoomIds \cup {0}
  BY RoomFields, RoomIdsAre
<1>3. /\ e.type = type /\ e.room = room /\ e.gen = 0 /\ e.gone = FALSE /\ Timely(e)
  <2>1. /\ e.type = type /\ e.room = room /\ e.gen = 0 /\ e.gone = FALSE /\ e.of = "sync"
        /\ e \in Group!Event
    BY DEF Group!Told, Group!Event, Group!Asks, Group!Gens
  <2>. HIDE DEF e
  <2>. QED  BY <1>1, <2>1 DEF Timely, IsSnapshot
<1>4. /\ rooms' = [rooms EXCEPT !.room = now, !.last = room.id, !.stale = stale]
      /\ tells' = tells \/ tells' = tells \cup {e}
      /\ moves' \in 0 .. MaxEffort
  <2>1. \/ moves' = moves \/ Group!Spend
    BY DEF Group!Change
  <2>2. moves' \in 0 .. MaxEffort
    BY <2>1, SpendIs
  <2>. QED  BY <2>2 DEF Group!Change
<1>5. /\ now \in Group!Room /\ now.id \in {0, room.id} /\ (now.me \/ now.peer => now.id # 0)
      /\ now.id = 0 => now = Group!NoRoom
      /\ now = room \/ (now = Group!NoRoom /\ ~room.me)
      /\ stale \in BOOLEAN /\ (stale => now.me)
  <2>1. ~Group!NoRoom.me /\ ~Group!NoRoom.peer
    BY DEF Group!NoRoom
  <2>2. rooms.stale \in BOOLEAN
    BY DEF GroupInv, Group!TypeOK
  <2>. QED  BY <1>2, <2>1, <2>2, NoneTyped
<1>. HIDE DEF now, stale, e
<1>6. /\ rooms' \in [room : Group!Room, last : Group!RoomIds \cup {0}, stale : BOOLEAN,
                     member : BOOLEAN]
      /\ rooms'.room = now /\ rooms'.last = room.id /\ rooms'.stale = stale
  <2>1. rooms \in [room : Group!Room, last : Group!RoomIds \cup {0}, stale : BOOLEAN,
                     member : BOOLEAN]
    BY DEF GroupInv, Group!TypeOK
  <2>. QED  BY <1>2, <1>4, <1>5, <2>1
<1>7. Serving(rooms')
  BY <1>5, <1>6 DEF Serving
<1>8. /\ closed \subseteq 1 .. rooms.last /\ 0 \notin closed
      /\ group.room.id <= rooms.last /\ group.rejoin.id <= rooms.last
      /\ \A m \in tells : m.gone \/ m.room.id <= rooms.last
      /\ \A m \in tells : m.type = "ended" => ~m.gone /\ m.room.id # 0
      /\ \A m \in tells : m.gone => m.type \in {"rejected", "synced"}
      /\ \A m \in tells : m.type \in {"started", "joined", "left", "ended"} => m.room.id # 0
  BY <1>1 DEF GroupInv, RoomsNamed
<1>9. rooms.last <= room.id
  BY <1>1 DEF GroupInv, Serving
<1>10. /\ room.id \notin closed
       /\ \A m \in tells : m.type = "ended" => m.room.id # room.id
       /\ Limited(group, tells, room.id, room.rev)
       /\ group.phase \in Resting /\ group.room.id # 0 => group.room.id # room.id
  <2>1. CASE room.id = rooms.room.id /\ room.rev = rooms.room.rev + 1
    BY <2>1 DEF GroupInv, Final
  <2>2. CASE rooms.room = Group!NoRoom /\ room.id = rooms.last + 1 /\ room.rev = 1
    <3>1. \A i \in Nat : i <= rooms.last => i # room.id
      BY <1>1, <2>2
    <3>2. Limited(group, tells, room.id, room.rev)
      BY <1>1, <1>8, <3>1 DEF Limited, Below, Speaks
    <3>. QED  BY <1>1, <1>8, <3>1, <3>2
  <2>. QED  BY <2>1, <2>2
<1>11. RoomsNamed(group, tells', rooms', closed)
  <2>1. closed \subseteq 1 .. room.id
    BY <1>1, <1>2, <1>8, <1>9
  <2>2. group.room.id <= room.id /\ group.rejoin.id <= room.id
    BY <1>1, <1>2, <1>8, <1>9
  <2>3. \A m \in tells' : /\ m.gone \/ m.room.id <= room.id
                          /\ m.gone => m.type \in {"rejected", "synced"}
                          /\ m.type \in {"started", "joined", "left", "ended"} => m.room.id # 0
    <3>1. \A m \in tells : m.gone \/ m.room.id <= room.id
      BY <1>1, <1>2, <1>8, <1>9
    <3>2. e.room.id <= room.id
      BY <1>2, <1>3
    <3>. QED  BY <1>3, <1>4, <1>8, <3>1, <3>2
  <2>. QED  BY <1>1, <1>2, <1>6, <2>1, <2>2, <2>3 DEF RoomsNamed
<1>12. Limited(group, tells', room.id, room.rev + 1)
  <2>1. Below(group, room.id, room.rev + 1)
    BY <1>1, <1>2, <1>10 DEF Limited, Below
  <2>2. \A m \in tells' : Speaks(m) /\ m.room.id = room.id => m.room.rev < room.rev + 1
    BY <1>1, <1>2, <1>3, <1>4, <1>10 DEF Limited
  <2>. QED  BY <2>1, <2>2 DEF Limited
<1>13. \A m \in tells' : m.type = "ended" => m \in tells
  BY <1>3, <1>4
<1>14. \A m \in tells' : m.type = "ended" => Limited(group, tells', m.room.id, m.room.rev)
  <2>1. ASSUME NEW m \in tells, m.type = "ended"  PROVE Limited(group, tells', m.room.id, m.room.rev)
    <3>1. Limited(group, tells, m.room.id, m.room.rev) /\ m.room.id # room.id
      BY <1>10, <2>1 DEF GroupInv, Final
    <3>. QED  BY <1>3, <1>4, <3>1 DEF Limited
  <2>. QED  BY <1>13, <2>1
<1>15. /\ \A m \in tells' : m.type = "ended" => m.room.id \notin closed \cup {now.id}
       /\ \A m, n \in tells' : m.type = "ended" /\ n.type = "ended" /\ m.room.id = n.room.id
             => m = n
  BY <1>5, <1>8, <1>10, <1>13 DEF GroupInv, Final
<1>16. \A m \in tells' : m.type = "discovered" /\ group.disc # 0 /\ m.gen = group.disc =>
          m.room.id \notin closed
  BY <1>3, <1>4 DEF GroupInv, Final
<1>17. \A m \in tells' : IsSnapshot(m) /\ ~m.gone /\ group.recon # None /\ m.gen = group.recon.ask
          => m.room.id \notin closed
  BY <1>3, <1>4 DEF GroupInv, Final, IsSnapshot
<1>18. group.phase \in Resting /\ group.room.id # 0 =>
          /\ FullEnds /\ group.room.id # now.id
          /\ \A m \in tells' : m.type = "ended" => m.room.id # group.room.id
          /\ \A m \in tells' : Speaks(m) /\ m.room.id = group.room.id => m.room.rev <= group.rev
  BY <1>3, <1>4, <1>5, <1>10, <1>13 DEF GroupInv, Final
<1>19. /\ closed \subseteq group.retired
       /\ {group.room.id, group.rejoin.id} \cap closed = {}
       /\ now.id \notin closed
  BY <1>5, <1>8, <1>10 DEF GroupInv, Final
<1>20. now.id # 0 => Limited(group, tells', now.id, now.rev + 1)
  BY <1>5, <1>12, NoneTyped
<1>21. Final(group, tells', rooms', closed)
  BY <1>6, <1>14, <1>15, <1>16, <1>17, <1>18, <1>19, <1>20 DEF Final
<1>. QED  BY <1>3, <1>4, <1>6, <1>7, <1>11, <1>21, ServesKeeps

\* A room that closes tells its end once, after all that was told of it.
LEMMA ClosedKeeps ==
    ASSUME RoomBounds, GroupInv, Serves, rooms.room.id # 0, Group!Closed
    PROVE  GroupKept
<1>. DEFINE rev == rooms.room.rev + 1
            room == [rooms.room EXCEPT !.rev = rev]
            e == Group!Told("ended", room)
<1>1. /\ rooms.last \in Nat /\ rooms.room.id \in Nat /\ rooms.room.rev \in Nat
      /\ \A m \in tells : m.room.id \in Nat /\ m.room.rev \in Nat
      /\ group.rev \in Nat /\ group.gen \in Nat /\ group.room.id \in Nat
      /\ rooms.room \in Group!Room
  BY WireTyped, GroupFields DEF GroupInv
<1>2. room \in Group!Room /\ room.id = rooms.room.id /\ room.rev = rev /\ rev \in Nat
  BY <1>1 DEF Group!Room, Group!Revs
<1>3. /\ rooms' = [rooms EXCEPT !.room = Group!NoRoom, !.stale = FALSE]
      /\ tells' = tells \/ tells' = tells \cup {e}
      /\ moves' \in 0 .. MaxEffort
  <2>1. \/ moves' = moves \/ Group!Spend
    BY DEF Group!Closed
  <2>2. moves' \in 0 .. MaxEffort
    BY <2>1, SpendIs
  <2>. QED  BY <2>2 DEF Group!Closed
<1>4. /\ e.type = "ended" /\ e.room = room /\ e.gen = 0 /\ e.gone = FALSE /\ Timely(e)
  <2>. HIDE DEF room
  <2>1. /\ e.type = "ended" /\ e.room = room /\ e.gen = 0 /\ e.gone = FALSE /\ e.of = "sync"
        /\ e \in Group!Event
    BY <1>2 DEF Group!Told, Group!Event, Group!Asks, Group!Gens
  <2>. HIDE DEF e
  <2>. QED  BY <1>1, <2>1 DEF Timely, IsSnapshot
<1>. HIDE DEF e, room
<1>5. Stays(rooms, rooms')
  BY <1>3, NoneTyped DEF Stays, GroupInv, Group!TypeOK
<1>6. /\ RoomsNamed(group, tells, rooms', closed) /\ Final(group, tells, rooms', closed)
      /\ Serving(rooms')
  BY <1>5, StaysFinal DEF GroupInv
<1>7. rooms'.last = rooms.last /\ rooms'.room = Group!NoRoom
  BY <1>3 DEF GroupInv, Group!TypeOK
<1>8. /\ e.room.id # 0 /\ e.room.id <= rooms.last /\ e.room.id \notin closed
      /\ \A m \in tells : m.type = "ended" => m.room.id # e.room.id
      /\ Limited(group, tells, e.room.id, e.room.rev)
      /\ group.phase \in Resting /\ group.room.id # 0 => group.room.id # e.room.id
  BY <1>1, <1>2, <1>4 DEF GroupInv, Serving, Final, rev
<1>9. CASE tells' = tells \cup {e}
  <2>1. RoomsNamed(group, tells', rooms', closed)
    BY <1>4, <1>6, <1>7, <1>8, <1>9 DEF RoomsNamed
  <2>2. ASSUME NEW i, NEW n, Limited(group, tells, i, n)  PROVE Limited(group, tells', i, n)
    BY <1>4, <1>9, <2>2 DEF Limited, Speaks
  <2>3. \A m \in tells' : m.type = "ended" => Limited(group, tells', m.room.id, m.room.rev)
    BY <1>6, <1>8, <1>9, <2>2 DEF Final
  <2>4. /\ \A m \in tells' : m.type = "ended" => m.room.id \notin closed \cup {rooms'.room.id}
        /\ \A m, n \in tells' : m.type = "ended" /\ n.type = "ended" /\ m.room.id = n.room.id
             => m = n
    BY <1>6, <1>7, <1>8, <1>9, NoneTyped DEF Final
  <2>5. \A m \in tells' : Speaks(m) \/ IsSnapshot(m) \/ m.type = "discovered" => m \in tells
    BY <1>4, <1>9 DEF Speaks, IsSnapshot
  <2>6. Final(group, tells', rooms', closed)
    <3>1. \A m \in tells' : m.type = "discovered" /\ group.disc # 0 /\ m.gen = group.disc =>
             m.room.id \notin closed
      BY <1>6, <2>5 DEF Final
    <3>2. \A m \in tells' : IsSnapshot(m) /\ ~m.gone /\ group.recon # None
                              /\ m.gen = group.recon.ask => m.room.id \notin closed
      BY <1>6, <2>5 DEF Final
    <3>3. group.phase \in Resting /\ group.room.id # 0 =>
             /\ FullEnds /\ group.room.id # rooms'.room.id
             /\ \A m \in tells' : m.type = "ended" => m.room.id # group.room.id
             /\ \A m \in tells' : Speaks(m) /\ m.room.id = group.room.id => m.room.rev <= group.rev
      BY <1>6, <1>8, <1>9, <2>5 DEF Final
    <3>4. rooms'.room.id = 0
      BY <1>7, NoneTyped
    <3>. QED  BY <1>6, <2>3, <2>4, <3>1, <3>2, <3>3, <3>4 DEF Final
  <2>. QED  BY <1>3, <1>4, <1>5, <1>6, <1>9, <2>1, <2>6, ServesKeeps DEF Stays
<1>10. CASE tells' = tells
  BY <1>3, <1>5, <1>6, <1>10, ServesKeeps DEF Stays
<1>. QED  BY <1>3, <1>9, <1>10

\* The room with somebody who came or went.
LEMMA BumpedIs ==
    ASSUME RoomBounds, GroupInv, NEW me \in BOOLEAN, NEW peer \in BOOLEAN
    PROVE  /\ Group!Bumped(me, peer) \in Group!Room /\ Group!Bumped(me, peer).id = rooms.room.id
           /\ Group!Bumped(me, peer).rev = rooms.room.rev + 1
           /\ rooms.room.me \in BOOLEAN /\ rooms.room.peer \in BOOLEAN
           /\ rooms.stale \in BOOLEAN
<1>. DEFINE rev == rooms.room.rev + 1
<1>1. rooms.room \in Group!Room /\ rev \in Nat
  BY WireTyped DEF GroupInv
<1>2. Group!Bumped(me, peer) = [rooms.room EXCEPT !.rev = rev, !.me = me, !.peer = peer]
  BY DEF Group!Bumped
<1>. HIDE DEF rev
<1>3. /\ Group!Bumped(me, peer) \in Group!Room /\ Group!Bumped(me, peer).id = rooms.room.id
      /\ Group!Bumped(me, peer).rev = rev
  BY <1>1, <1>2 DEF Group!Room, Group!Revs
<1>4. rooms.stale \in BOOLEAN
  BY DEF GroupInv, Group!TypeOK
<1>. QED  BY <1>1, <1>3, <1>4, RoomFields DEF rev

\* A room that is opened has the next id.
LEMMA OpenedIs ==
    ASSUME RoomBounds, GroupInv, rooms.last < MaxRooms, NEW me \in BOOLEAN, NEW peer \in BOOLEAN,
           NEW room, room = [id |-> rooms.last + 1, rev |-> 1, me |-> me, peer |-> peer]
    PROVE  room \in Group!Room /\ room.id = rooms.last + 1 /\ room.rev = 1 /\ room.id # 0
  BY WireTyped, RoomIdsAre DEF GroupInv, Group!Room, Group!Revs

\* An answer carries the generation of its request.
LEMMA AnswerIs ==
    ASSUME RoomBounds, GroupInv, asks # <<>>, NEW type \in {"rejected", "discovered", "synced"},
           NEW room \in Group!Room, NEW gone \in BOOLEAN,
           NEW q, q = Head(asks), type = "discovered" => q.type = "discover",
           type = "rejected" => q.type # "resync",
           NEW e, e = Group!Answer(type, q, room, gone)
    PROVE  /\ Timely(e) /\ e.type = type /\ e.room = room /\ e.gone = gone
           /\ q \in Group!Request
<1>1. /\ q \in Group!Request /\ q.gen <= group.gen
      /\ q.type = "resync" => q.gen < group.gen /\ (group.control # None => q.gen # group.control.ask)
      /\ q.type = "discover" => q.gen # 0
  <2>1. asks \in Seq(Group!Request)
    BY DEF GroupInv, Group!TypeOK
  <2>2. 1 \in DOMAIN asks /\ q = asks[1] /\ q \in Group!Request
    BY <2>1, HeadTailProperties, LenProperties
  <2>. QED  BY <2>2 DEF GroupInv, Wired
<1>2. e = [type |-> type, room |-> room, of |-> q.type, gen |-> q.gen, gone |-> gone]
  BY DEF Group!Answer
<1>3. e \in Group!Event
  BY <1>1, <1>2 DEF Group!Event, Group!Request
<1>. QED  BY <1>1, <1>2, <1>3 DEF Timely, IsSnapshot

\* The server handles the request that is next.
LEMMA GroupServerHandlesStep ==
    ASSUME RoomBounds, GroupInv, Group!ServerHandles  PROVE GroupKept
<1>. DEFINE q == Head(asks)
<1>1. Serves /\ asks # <<>>
  BY DEF Group!ServerHandles, Serves
<1>2. /\ q \in Group!Request /\ (q.type = "join" => q.id # 0)
  <2>1. asks \in Seq(Group!Request)
    BY DEF GroupInv, Group!TypeOK
  <2>2. 1 \in DOMAIN asks /\ q = asks[1] /\ q \in Group!Request
    BY <1>1, <2>1, HeadTailProperties, LenProperties
  <2>. QED  BY <2>2 DEF GroupInv, Wired
<1>. HIDE DEF q
<1>3. /\ rooms.room \in Group!Room /\ rooms.room.me \in BOOLEAN /\ rooms.room.peer \in BOOLEAN
      /\ rooms.room.id \in Nat
      /\ q.type \in {"start", "discover", "join", "leave", "end", "sync", "resync"}
      /\ q.id \in Group!RoomIds \cup {0}
  BY <1>2, WireTyped, RoomFields DEF GroupInv, Group!Request, Group!Asks
<1>4. rooms.room.me => rooms.room.id # 0
  BY DEF GroupInv, Serving
<1>5. ASSUME NEW room \in Group!Room, NEW gone \in BOOLEAN,
             NEW type \in {"rejected", "discovered", "synced"},
             type = "discovered" => q.type = "discover" /\ ~gone,
             type = "rejected" => q.type # "resync",
             gone \/ room = rooms.room \/ room = Group!NoRoom,
             tells' = tells \cup {Group!Answer(type, q, room, gone)}, rooms' = rooms,
             moves' = moves \/ Group!Spend
      PROVE  GroupKept
  <2>. DEFINE e == Group!Answer(type, q, room, gone)
  <2>1. Timely(e) /\ e.type = type /\ e.room = room /\ e.gone = gone
    BY <1>1, <1>5, AnswerIs DEF q
  <2>2. moves' \in 0 .. MaxEffort
    BY <1>5, SpendIs
  <2>3. tells' = tells \cup {e}
    BY <1>5
  <2>4. e.gone => e.type \in {"rejected", "synced"}
    BY <1>5, <2>1
  <2>. HIDE DEF e
  <2>. QED  BY <1>1, <1>5, <2>1, <2>2, <2>3, <2>4, ReplyKeeps
<1>6. CASE Group!Enters(q)
  <2>. DEFINE new == [id |-> rooms.last + 1, rev |-> 1, me |-> TRUE, peer |-> FALSE]
              room == IF q.type = "start" THEN new ELSE Group!Bumped(TRUE, rooms.room.peer)
              free == IF q.type = "start" THEN rooms.room = Group!NoRoom /\ rooms.last < MaxRooms
                      ELSE rooms.room.id = q.id /\ ~rooms.room.me
              type == IF q.type = "start" THEN "started" ELSE "joined"
              gone == q.type = "join" /\ (rooms.room.id # q.id \/ ~rooms.member)
  <2>1. CASE rooms.member /\ free
    <3>1. Group!Change(room, type, TRUE)
      BY <1>6, <2>1, Zenon DEF Group!Enters
    <3>2. q.type \in {"start", "join"}
      BY <1>6 DEF Group!Enters
    <3>3. CASE q.type = "start"
      <4>1. room = new /\ type = "started" /\ rooms.room = Group!NoRoom /\ rooms.last < MaxRooms
        BY <2>1, <3>3
      <4>2. new \in Group!Room /\ new.id = rooms.last + 1 /\ new.rev = 1 /\ new.id # 0
        BY <4>1, OpenedIs
      <4>. HIDE DEF new, room, type
      <4>. QED  BY <1>1, <3>1, <4>1, <4>2, ChangeKeeps
    <3>4. CASE q.type = "join"
      <4>1. room = Group!Bumped(TRUE, rooms.room.peer) /\ type = "joined" /\ rooms.room.id # 0
        BY <1>2, <2>1, <3>4
      <4>2. room \in Group!Room /\ room.id = rooms.room.id /\ room.rev = rooms.room.rev + 1
        BY <1>3, <4>1, BumpedIs
      <4>. HIDE DEF new, room, type
      <4>. QED  BY <1>1, <3>1, <4>1, <4>2, ChangeKeeps
    <3>. QED  BY <3>2, <3>3, <3>4
  <2>2. CASE ~(rooms.member /\ free)
    <3>1. /\ Group!Reply(Group!Answer("rejected", q, Group!NoRoom, gone))
          /\ q.type \in {"start", "join"}
      BY <1>6, <2>2, Zenon DEF Group!Enters
    <3>2. gone \in BOOLEAN
      OBVIOUS
    <3>. HIDE DEF gone
    <3>. QED  BY <1>5, <3>1, <3>2, NoneTyped DEF Group!Reply
  <2>. QED  BY <2>1, <2>2
<1>7. CASE Group!Exits(q)
  <2>1. q.type \in {"leave", "end"}
    BY <1>7 DEF Group!Exits
  <2>2. \/ rooms.room.me /\ Group!Change(Group!Bumped(FALSE, rooms.room.peer), "left", FALSE)
        \/ rooms.room.me /\ Group!Closed
        \/ /\ tells' = tells \cup {Group!Answer("rejected", q, Group!NoRoom, FALSE)}
           /\ rooms' = rooms
           /\ moves' = moves \/ Group!Spend
    BY <1>7 DEF Group!Exits, Group!Seated, Group!Reply
  <2>3. CASE rooms.room.me /\ Group!Change(Group!Bumped(FALSE, rooms.room.peer), "left", FALSE)
    BY <1>1, <1>3, <1>4, <2>3, BumpedIs, ChangeKeeps
  <2>4. CASE rooms.room.me /\ Group!Closed
    BY <1>1, <1>4, <2>4, ClosedKeeps
  <2>5. CASE /\ tells' = tells \cup {Group!Answer("rejected", q, Group!NoRoom, FALSE)}
             /\ rooms' = rooms
             /\ moves' = moves \/ Group!Spend
    BY <1>5, <2>1, <2>5, NoneTyped
  <2>. QED  BY <2>2, <2>3, <2>4, <2>5
<1>8. CASE Group!Tells(q)
  <2>1. CASE q.type = "discover" /\ Group!Reply(Group!Answer("discovered", q, rooms.room, FALSE))
    BY <1>3, <1>5, <2>1 DEF Group!Reply
  <2>2. CASE q.type \in {"sync", "resync"}
    <3>. DEFINE there == Group!Seated /\ rooms.room.id = q.id
                room == IF there THEN rooms.room ELSE [Group!NoRoom EXCEPT !.id = q.id]
    <3>1. Group!Reply(Group!Answer("synced", q, room, ~there))
      BY <1>8, <2>2 DEF Group!Tells
    <3>2. room \in Group!Room
      BY <1>3, NoneTyped DEF Group!Room
    <3>3. (~there) \in BOOLEAN
      OBVIOUS
    <3>4. ~there \/ room = rooms.room
      OBVIOUS
    <3>. HIDE DEF there, room
    <3>. QED  BY <1>5, <2>2, <3>1, <3>2, <3>3, <3>4 DEF Group!Reply
  <2>. QED  BY <1>8, <2>1, <2>2 DEF Group!Tells
<1>. QED  BY <1>6, <1>7, <1>8 DEF Group!ServerHandles, q

\* What the server and the peers do by themselves.
LEMMA GroupServerStep ==
    ASSUME RoomBounds, GroupInv,
           Group!SeatLost \/ Group!PeerStarts \/ Group!PeerMoves \/ Group!PeerEnds
    PROVE  GroupKept
<1>1. Serves
  BY DEF Serves, Group!SeatLost, Group!PeerStarts, Group!PeerMoves, Group!PeerEnds
<1>2. /\ rooms.stale => rooms.room.me
      /\ rooms.room.me \/ rooms.room.peer => rooms.room.id # 0
      /\ rooms.room # Group!NoRoom => rooms.room.id # 0
  BY DEF GroupInv, Serving
<1>3. rooms.room.me \in BOOLEAN /\ rooms.room.peer \in BOOLEAN
  BY WireTyped, RoomFields DEF GroupInv
<1>4. ASSUME NEW me \in BOOLEAN, NEW peer \in BOOLEAN, NEW type \in {"joined", "left"}, NEW told,
             rooms.room.id # 0, Group!Change(Group!Bumped(me, peer), type, told)
      PROVE  GroupKept
  BY <1>1, <1>4, BumpedIs, ChangeKeeps
<1>5. CASE Group!SeatLost
  BY <1>2, <1>3, <1>4, <1>5 DEF Group!SeatLost
<1>6. CASE Group!PeerStarts
  <2>. DEFINE new == [id |-> rooms.last + 1, rev |-> 1, me |-> FALSE, peer |-> TRUE]
  <2>1. /\ rooms.room = Group!NoRoom /\ rooms.last < MaxRooms
        /\ Group!Change(new, "started", TRUE)
    BY <1>6 DEF Group!PeerStarts
  <2>2. new \in Group!Room /\ new.id = rooms.last + 1 /\ new.rev = 1 /\ new.id # 0
    BY <2>1, OpenedIs
  <2>. HIDE DEF new
  <2>. QED  BY <1>1, <2>1, <2>2, ChangeKeeps
<1>7. CASE Group!PeerMoves
  BY <1>2, <1>3, <1>4, <1>7 DEF Group!PeerMoves
<1>8. CASE Group!PeerEnds
  BY <1>1, <1>2, <1>8, ClosedKeeps DEF Group!PeerEnds
<1>. QED  BY <1>5, <1>6, <1>7, <1>8

-----------------------------------------------------------------------------
(* The specification.                                                      *)

\* Every step keeps the invariant and does what the action properties say.
LEMMA GroupNextStep ==
    ASSUME RoomBounds, GroupInv, Group!Next  PROVE GroupKept
  BY DiscoverAndStartStep, DiscoveryTimesOutStep, JoinStep, RejoinStep, LeaveStep, EndUnnamedStep,
     AbortStep, GroupDismissStep, GrantedStep, DeniedStep, SyncStep, ReconciliationTimesOutStep,
     GroupHandleEventStep, GroupDropStep, GroupRecoverStep, GroupServerHandlesStep,
     GroupServerStep DEF Group!Next

\* So does a step of something else.
LEMMA GroupRests ==
    ASSUME RoomBounds, GroupInv, UNCHANGED Group!vars  PROVE GroupKept
<1>1. /\ UNCHANGED <<group, asks, tells, rooms, linked, closed, moves>>
  BY DEF Group!vars
<1>2. Unmoved(group, group)
  BY WireTyped DEF GroupInv, Unmoved
<1>. QED  BY <1>1, <1>2, UnmovedKeeps, SpendIs

\* The invariant holds at first.
LEMMA GroupInitInv ==
    ASSUME RoomBounds, Group!Init  PROVE GroupInv
<1>1. group \in Group!FacadeType
  BY NoneTyped DEF Group!Init, Group!FacadeType, Group!Gens, Group!Revs, None
<1>2. Group!TypeOK
  BY <1>1, RoomIdsAre, NoneTyped DEF Group!Init, Group!TypeOK
<1>3. /\ Capture(group) /\ Waiting(group)
  BY DEF Group!Init, Capture, Waiting, Parting, Silent, None, Resting
<1>4. Wired(group, asks, tells)
  BY DEF Group!Init, Wired
<1>5. /\ Serving(rooms) /\ RoomsNamed(group, tells, rooms, closed)
      /\ Final(group, tells, rooms, closed)
  BY DEF Group!Init, Serving, RoomsNamed, Final, Group!NoRoom
<1>. QED  BY <1>2, <1>3, <1>4, <1>5 DEF GroupInv

\* The invariant says what is claimed of states.
LEMMA GroupInvSafe ==
    ASSUME GroupInv  PROVE Group!TypeOK /\ Group!MicrophoneIsOwned /\ Group!EndedStaysEnded
  BY DEF GroupInv, Capture, Final, Group!MicrophoneIsOwned, Group!EndedStaysEnded

\* The microphone that is captured is the call's; a room that has ended does not come back;
\* an established room holds against late frames, but for the end of another room that
\* comes with its roster; and a late microphone does nothing to a newer call.
THEOREM RoomsHold == Group!GroupCallAssumption => (Group!Spec => RoomHolds)
<1>. SUFFICES ASSUME RoomBounds  PROVE Group!Spec => RoomHolds
  BY DEF RoomBounds
<1>. USE DEF groupVars, Group!vars
<1>1. Group!Init => GroupInv
  BY GroupInitInv
<1>2. GroupInv /\ [Group!Next]_groupVars => GroupKept
  BY GroupNextStep, GroupRests
<1>3. GroupInv => Group!TypeOK /\ Group!MicrophoneIsOwned /\ Group!EndedStaysEnded
  BY GroupInvSafe
<1>4. GroupKept => GroupInv' /\ Group!EstablishedRoomHolds /\ Group!LateGrantIsFenced
  BY DEF GroupKept
<1>. QED  BY <1>1, <1>2, <1>3, <1>4, PTL DEF Group!Spec, RoomHolds
=============================================================================
