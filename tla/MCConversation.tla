--------------------------- MODULE MCConversation ---------------------------
(***************************************************************************)
(* The instance of Conversation for TLC.                                   *)
(***************************************************************************)
EXTENDS ConversationInvariants

CONSTANTS m1, m2, j1, chat, other, ann

BothMessages == {m1, m2}

Batches == {r \in Runs : step[r] > 0 \/ pc[r] \in {"tools", "persist"}}

\* Bound: a message and the job with as many iterations and retries as the
\* constants allow, or all three runs without retries and with one tool batch
\* or one failure among them.  The messages are alike: the first comes first.
Scope ==
    \/ pc[m2] = "idle"
    \/ /\ pc[m1] # "idle"
       /\ Cardinality(Batches) + faults <= 1
       /\ \A r \in Runs : step[r] <= 1 /\ attempt[r] = 0
=============================================================================
