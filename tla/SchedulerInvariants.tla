------------------------ MODULE SchedulerInvariants ------------------------
(***************************************************************************)
(* The inductive invariant behind the safety properties of Scheduler, in   *)
(* named parts, so that TLC can check what the proofs rest on.             *)
(***************************************************************************)
EXTENDS Scheduler

\* What the loop's locals hold at each of its await points.
LoopHolds == loop.pc \in {"decide", "mark", "spawn"}
LoopShape ==
  /\ LoopHolds => loop.job \in created /\ loop.due # NoTime
  /\ ~LoopHolds => loop.job = NoJob
  /\ loop.pc = "sleep" => loop.due # NoTime
  /\ loop.pc = "push" <=> loop.run # NoRun
  /\ loop.pc = "off" <=> phase = "down"

\* What a run and the operation of an actor hold.
RunShape ==
  \A r \in Runs : IF Live(r) THEN run[r].job \in created /\ phase # "down"
                 ELSE run[r] = NoRunRecord
OpShape ==
  /\ \A a \in Actors : op[a].pc \in {"delete", "runNow"} => op[a].job \in created
  /\ \A a \in Actors : op[a].pc = "idle" => op[a] = NoOp
  /\ \A r \in Runs : /\ op[r].pc # "notify"
                     /\ op[r].pc # "idle" => run[r].state = "agent"
  /\ phase = "down" => \A a \in Actors : op[a] = NoOp
  /\ \A j \in Jobs : deleted[j] # "no" => j \in created

\* Types and shapes: each needs the others.
Core == TypeOK /\ LoopShape /\ RunShape /\ OpShape

\* Every live run has its handle in in_flight_tasks or in the loop's hands;
\* the loop exits only for a shutdown message, which only stop() sends.
HandlesKept ==
  /\ \A r \in Runs : Live(r) => r \in inFlight \/ loop.run = r
  /\ shutdownMsg => phase = "stopping"
  /\ loop.pc = "exited" => phase \in {"stopping", "stopped"} /\ ~shutdownMsg
  /\ phase = "stopped" => loop.pc = "exited" /\ inFlight = {}

\* A one-shot job is owed a start while it is enabled, not yet created, or
\* held by the loop; once it is marked the start is owed to the mark and an
\* enabled row must come from a run-now request.
OneShotOwed ==
  /\ \A j \in OneShots : tokens[j] >= 0
  /\ \A j \in OneShots : j \in enabled \/ j \notin created => tokens[j] >= 1
  /\ loop.job \in OneShots => tokens[loop.job] >= 1
  /\ loop.pc = "spawn" /\ loop.job \in OneShots /\ loop.job \in enabled =>
       tokens[loop.job] >= 2
  /\ loop.job \in OneShots => loop.next = NoTime
  /\ \A r \in Runs : run[r].job \in OneShots => run[r].next = NoTime

\* The next_run_at values captured by the loop and by the runs of a cron job
\* are no later than its next tick.
NoLaterThanTick(j, t) == CronOf(j) # NoTime => t # NoTime /\ t <= CronOf(j)
CapturedTicks ==
  /\ loop.pc \in {"mark", "spawn"} /\ loop.job \in Crons =>
       NoLaterThanTick(loop.job, loop.next)
  /\ \A r \in Runs : run[r].job \in Crons /\ run[r].state = "agent" =>
       NoLaterThanTick(run[r].job, run[r].next)
CronArmed == CapturedTicks /\ CronStaysArmed

\* In a first process without failing statements, Running is the status of a
\* job that has just been marked or whose run is still to record its end.
RunningHasRun ==
  /\ boots = 0 => phase = "down" /\ \A j \in Jobs : status[j] # "Running"
  /\ boots = 1 /\ faults = 0 /\ phase # "down" =>
       \A j \in Jobs : status[j] = "Running" =>
         \/ loop.pc = "spawn" /\ loop.job = j
         \/ \E r \in Runs : run[r].state = "agent" /\ run[r].job = j

IndInv ==
  /\ Core /\ HandlesKept
  /\ OneShotOwed /\ CronArmed /\ RunningHasRun
  /\ DeletedAtRestIsFinal /\ WakeupCovered
=============================================================================
