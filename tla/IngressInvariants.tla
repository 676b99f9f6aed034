------------------------- MODULE IngressInvariants -------------------------
(***************************************************************************)
(* The inductive invariant behind the safety properties of Ingress, in     *)
(* named parts, so that TLC can check what the proofs rest on.             *)
(***************************************************************************)
EXTENDS Ingress

\* Where a loop is and what runs: only Telegram drains, only Zulip handles a
\* message in its loop, one at a time, and a loop that is not running yet or
\* has ended has no handlers.
LoopShape ==
  /\ \A ch \in Channels : loop[ch] = "off" <=> mode[ch] = "off"
  /\ \A ch \in Channels : loop[ch] \in {"off", "init", "ended"} => running[ch] = {}
  /\ loop["zulip"] # "draining" /\ loop["telegram"] # "handling"
  /\ loop["zulip"] # "handling" => running["zulip"] = {}
  /\ \A m, n \in running["zulip"] : m = n

\* run_runtime gets past the join only with all loops ended.
PhaseShape ==
  phase \notin {"run", "join"} => \A ch \in Channels : loop[ch] \in {"off", "ended"}

\* The pending buffer lies between next and offset, within what the service
\* has had; what was taken from it is with a handler and not after next.
PollShape ==
  \A ch \in Channels : Poll(ch) =>
    /\ next[ch] <= offset[ch] /\ offset[ch] <= offered[ch]
    /\ confirmed[ch] + 1 .. next[ch] \subseteq started[ch]
    /\ \A d \in dispatched[ch] : d <= next[ch]

\* A process starts with an empty buffer.  What was fetched is with a handler,
\* still in the buffer, or was in it when a process ended; what a new queue
\* skipped is behind it and was in no answer.
FetchShape ==
  /\ phase \in {"exit", "down"} => \A ch \in Channels : next[ch] = offset[ch]
  /\ \A ch \in Channels : loop[ch] = "init" => next[ch] = offset[ch]
  /\ \A ch \in Channels : Poll(ch) =>
       /\ fetched[ch] \subseteq started[ch] \union left[ch] \union (next[ch] + 1 .. offset[ch])
       /\ confirmed[ch] <= offered[ch] /\ missed[ch] \subseteq 1 .. confirmed[ch]
       /\ fetched[ch] \intersect missed[ch] = {}

\* Without a crash every handler runs or has returned.
HandledShape ==
  ~crashed => \A ch \in Channels : started[ch] \subseteq done[ch] \union running[ch]

\* Webhook requests come only where the channel has a webhook.
RequestShape ==
  \A ch \in Channels : posting[ch] \union acked[ch] # {} => Webhook(ch)

IndInv ==
  /\ TypeOK /\ LoopShape /\ PhaseShape /\ PollShape /\ FetchShape
  /\ HandledShape /\ RequestShape
  /\ ConfirmedWasStarted /\ AcknowledgedIsKept
=============================================================================
