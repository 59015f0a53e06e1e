----------------------------- MODULE MCHomeChat -----------------------------
(***************************************************************************)
(* The parts of HomeChat in scenes: a behaviour is of one of them, within  *)
(* tighter bounds than those of the module, and the others rest.           *)
(***************************************************************************)
EXTENDS HomeChat, Sequences

CONSTANTS chat1, chat2, mine1, theirs1, theirs2

VARIABLE scene

\* The user writes, the peer writes, requests are rejected; two chats, the second with
\* one message at most.
Writing == INSTANCE HomeMessages WITH
    w <- view, spent <- moves, Theirs <- {theirs1}, MaxEffort <- 2
OneMessageAside == Len(log'[chat2]) <= 1

\* More messages come than a page holds, while the connection is lost and restored, and
\* the user writes none. The messages are alike, so they come in one order.
Recovering == INSTANCE HomeMessages WITH
    w <- view, spent <- moves, Chats <- {chat1}, MaxEffort <- 2, Rejects <- FALSE
WritesNone == view'.tries = view.tries
InOrder == Len(log'[chat1]) = 1 => log'[chat1] = <<theirs1>>

\* Two chats are read on one device, the second with one message at most.
Reading == INSTANCE HomeReads WITH
    w <- reads, server <- cursors, spent <- readMoves, MaxEffort <- 2, Others <- FALSE,
    Calls <- FALSE
OneArrivesAside == cursors'.sent[chat2] <= 1

\* Another device reads too, and calls cover the chat.
Sharing == INSTANCE HomeReads WITH
    w <- reads, server <- cursors, spent <- readMoves, MaxSeq <- 1, MaxEffort <- 3

\* Three requests at most are on their way, two of them logins.
FewRequests == Cardinality(out') <= 3 /\ Cardinality({r \in out' : r.kind = "login"}) <= 2

ASSUME
    /\ HomeChatAssumption /\ Writing!HomeMessagesAssumption /\ Recovering!HomeMessagesAssumption
    /\ Reading!HomeReadsAssumption /\ Sharing!HomeReadsAssumption

\* Of the initial states one for each part that rests.
MCInit ==
    /\ Init
    /\ scene \in {"writing", "recovering", "reading", "sharing", "session", "alerting", "groups"}
    /\ view.selected # chat1 => scene = "writing"
    /\ tab.going # "home" => scene = "session"
    /\ browser.permission # "default" => scene = "alerting"

MCNext ==
    /\ UNCHANGED scene
    /\ \/ /\ \/ scene = "writing" /\ Writing!Next /\ OneMessageAside
             \/ scene = "recovering" /\ Recovering!Next /\ WritesNone /\ InOrder
          /\ UNCHANGED <<readVars, sessionVars, alertVars, accessVars>>
       \/ /\ \/ scene = "reading" /\ Reading!Next /\ OneArrivesAside
             \/ scene = "sharing" /\ Sharing!Next
          /\ UNCHANGED <<messageVars, sessionVars, alertVars, accessVars>>
       \/ /\ scene = "session" /\ Session!Next /\ FewRequests
          /\ UNCHANGED <<messageVars, readVars, alertVars, accessVars>>
       \/ /\ scene = "alerting" /\ Alerting!Next
          /\ UNCHANGED <<messageVars, readVars, sessionVars, accessVars>>
       \/ /\ scene = "groups" /\ Groups!Next
          /\ UNCHANGED <<messageVars, readVars, sessionVars, alertVars>>

MCSpec == MCInit /\ [][MCNext]_<<scene, homeVars>>
=============================================================================
