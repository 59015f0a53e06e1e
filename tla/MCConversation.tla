--------------------------- MODULE MCConversation ---------------------------
\* Model values and symmetry for checking Conversation with TLC.
EXTENDS Conversation, TLC

CONSTANTS u1, u2, u3, k1, k2, h1, h2

MCUsers == {u1, u2, u3}
MCHandlers == {h1, h2}
MCClientIds == {k1, k2}

Symmetry == Permutations(MCUsers) \cup Permutations(MCHandlers) \cup Permutations(MCClientIds)
=============================================================================
