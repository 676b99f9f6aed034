---------------------------- MODULE MCScheduler ----------------------------
(***************************************************************************)
(* Instances of Scheduler for TLC.                                         *)
(***************************************************************************)
EXTENDS SchedulerInvariants, TLC

\* Every cron job ticks at 2, 4, ...
EvenTicks == [j \in Crons |-> [t \in 0 .. MaxTime |-> 2 * (t \div 2) + 2]]

\* Every cron job ticks at 1 and 2 and then never again.
TwoTicks ==
  [j \in Crons |-> [t \in 0 .. MaxTime |-> IF t < 2 THEN t + 1 ELSE NoTime]]

\* One conversation for every job and client.
OneOwner        == [j \in Jobs |-> "c1"]
OneConversation == [c \in Clients |-> "c1"]

\* Bound: a run-now request and a failing statement only beside one job.
Scope == created = Jobs => asks + faults = 0

\* Run slots and clients are interchangeable.
Symmetry == Permutations(Runs) \cup Permutations(Clients)
=============================================================================
