----------------------------- MODULE AtMostOnce -----------------------------
(***************************************************************************)
(* What an MCP server's handle promises its callers: calls are serialised, *)
(* a call reaches the server at most once, a success means that it was     *)
(* executed, a refusal that it was never sent, and nothing is sent once    *)
(* the handle is closed.                                                   *)
(***************************************************************************)
EXTENDS Naturals

CONSTANT Calls

VARIABLES
  outcome,    \* what each caller was told, "none" while it waits
  sent,       \* the calls whose request has left
  executed,   \* how often the server executed each call
  closed      \* nothing may be sent any more

vars == <<outcome, sent, executed, closed>>

Outcomes == {"ok", "rejected", "refused", "unknown", "cancelled"}

Init ==
  /\ outcome = [c \in Calls |-> "none"]
  /\ sent = {}
  /\ executed = [c \in Calls |-> 0]
  /\ closed = FALSE

Send(c) ==
  /\ ~closed
  /\ outcome[c] = "none"
  /\ c \notin sent
  /\ \A d \in sent : outcome[d] # "none"
  /\ sent' = sent \union {c}
  /\ UNCHANGED <<outcome, executed, closed>>

\* The server may act on a request long after its caller gave up.
Execute(c) ==
  /\ c \in sent
  /\ executed[c] = 0
  /\ executed' = [executed EXCEPT ![c] = 1]
  /\ UNCHANGED <<outcome, sent, closed>>

Tell(c, o) ==
  /\ outcome[c] = "none"
  /\ o = "ok" => executed[c] = 1
  /\ o = "rejected" => c \in sent
  /\ o = "refused" => c \notin sent
  /\ outcome' = [outcome EXCEPT ![c] = o]
  /\ UNCHANGED <<sent, executed, closed>>

\* Closing waits for the request under way to be given up or answered.
Close ==
  /\ \A d \in sent : outcome[d] # "none"
  /\ closed' = TRUE
  /\ UNCHANGED <<outcome, sent, executed>>

Next ==
  \/ \E c \in Calls : Send(c) \/ Execute(c) \/ \E o \in Outcomes : Tell(c, o)
  \/ Close

Spec == Init /\ [][Next]_vars
=============================================================================
