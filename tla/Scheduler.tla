----------------------------- MODULE Scheduler -----------------------------
(***************************************************************************)
(* The job scheduler: the scheduled_jobs table, the background loop of     *)
(* SchedulerService, the tasks it spawns for due jobs, and the callers     *)
(* that create, delete and trigger jobs while both are running.            *)
(*                                                                         *)
(* One database statement is one atomic step; everything between two       *)
(* await points of the loop, of a run or of a caller is one step.  Time is *)
(* a discrete clock that advances at any moment.                           *)
(***************************************************************************)
EXTENDS Integers

CONSTANTS
  OneShots,     \* ids of the one_shot jobs
  Crons,        \* ids of the cron jobs
  Clients,      \* concurrent chat handlers (they hold the loop's notifier)
  Runs,         \* run slots: bounds the runs alive at the same time
  Owner,        \* Owner[j]: the conversation job j belongs to
  Conversation, \* Conversation[c]: the conversation client c serves
  CronNext,     \* CronNext[j][t]: the first tick of cron job j after t
  MaxTime,      \* bound on the clock
  MaxBoots,     \* bound on the times the process is started
  MaxFaults,    \* bound on the failing database statements
  MaxAsks,      \* bound on the accepted run_job_now requests
  RunOverdueOneShotsOnStartup,  \* [scheduler] run_overdue_one_shots_on_startup
  NoTime, NoJob, NoRun          \* absence of a time, a job, a run

Jobs   == OneShots \cup Crons
Actors == Clients \cup Runs     \* a run's own agent calls the job tools too
Time   == 0 .. MaxTime
MaybeTime == Nat \cup {NoTime}

ASSUME JobsAssumption ==
  /\ OneShots \cap Crons = {}
  /\ Clients \cap Runs = {}
  /\ NoJob \notin Jobs
  /\ NoRun \notin Runs

ASSUME TimeAssumption ==
  /\ MaxTime \in Nat /\ MaxBoots \in Nat /\ MaxFaults \in Nat /\ MaxAsks \in Nat
  /\ NoTime \notin Int
  /\ RunOverdueOneShotsOnStartup \in BOOLEAN

\* A cron schedule has a fixed set of ticks and CronNext is the least one
\* after its argument: strictly later, monotone, and once the schedule is
\* exhausted (NoTime) it stays so.
ASSUME CronAssumption ==
  /\ CronNext \in [Crons -> [Time -> MaybeTime]]
  /\ \A j \in Crons, t \in Time :
       CronNext[j][t] # NoTime => CronNext[j][t] > t
  /\ \A j \in Crons, t, u \in Time :
       t <= u /\ CronNext[j][u] # NoTime =>
         CronNext[j][t] # NoTime /\ CronNext[j][t] <= CronNext[j][u]

VARIABLES
  created,      \* jobs that have a row in scheduled_jobs
  enabled,      \* jobs whose row has enabled = 1
  runAt,        \* the run_at column
  nextRun,      \* the next_run_at column
  status,       \* the last_status column
  now,          \* chrono::Utc::now()
  phase,        \* where run_runtime is
  loop,         \* the background loop and its locals
  permit,       \* the stored permit of the Notify
  shutdownMsg,  \* the broadcast channel holds an unread shutdown message
  run,          \* the spawned runs
  inFlight,     \* in_flight_tasks
  op,           \* the job operation each actor is in the middle of
  boots, faults, asks,   \* counters, only for the bounds
  deleted,      \* history: how each deleted job was deleted
  tokens        \* history: the starts one-shot jobs are still owed

table == <<created, enabled, runAt, nextRun, status>>
vars  == <<table, now, phase, loop, permit, shutdownMsg, run, inFlight, op,
           boots, faults, asks, deleted, tokens>>

-----------------------------------------------------------------------------
(* State shapes *)

\* JobStatus, and the NULL of a job that never ran.  Pending is never written.
Statuses == {"null", "Running", "Success", "Failed", "Missed"}

\* The loop's await points.
LoopPcs == {"off", "fetch", "decide", "mark", "spawn", "push", "sleep",
            "idle", "backoff", "exited"}

\* The loop at pc with its locals: the fetched row's id and next_run_at, and
\* the next_run_at computed for it.
LoopWith(pc, j, due, next) ==
  [pc |-> pc, job |-> j, due |-> due, next |-> next, run |-> NoRun]
LoopAt(pc) == LoopWith(pc, NoJob, NoTime, NoTime)

NoRunRecord == [state |-> "finished", job |-> NoJob, next |-> NoTime]
Live(r) == run[r].state # "finished"

NoOp == [pc |-> "idle", job |-> NoJob]

CronOf(j) == IF j \in Crons THEN CronNext[j][now] ELSE NoTime

\* The conversation an actor calls the job tools for.
ConversationOf(a) == IF a \in Clients THEN Conversation[a] ELSE Owner[run[a].job]

\* The actor is able to start a job tool call or a command.
Ready(a) ==
  /\ op[a] = NoOp
  /\ IF a \in Clients THEN phase = "up" ELSE run[a].state = "agent"

\* Mutant: no caller wakes the loop.
Mutant_AfterWrite(a) == NoOp

\* After its write a chat handler wakes the loop; a run has no notifier.
AfterWrite(a) ==
  IF a \in Clients THEN [pc |-> "notify", job |-> NoJob] ELSE NoOp

\* A run or the loop still holds a state of j from before now, or a caller
\* has read j's row as enabled and not yet written it.
Stale(j) ==
  \/ \E r \in Runs : run[r].state = "agent" /\ run[r].job = j /\ run[r].next # NoTime
  \/ loop.job = j
  \/ \E a \in Actors : op[a].pc = "runNow" /\ op[a].job = j

Due(j) == j \in enabled /\ (nextRun[j] = NoTime \/ nextRun[j] <= now)

-----------------------------------------------------------------------------
Init ==
  /\ created = {} /\ enabled = {}
  /\ runAt = [j \in Jobs |-> NoTime]
  /\ nextRun = [j \in Jobs |-> NoTime]
  /\ status = [j \in Jobs |-> "null"]
  /\ now = 0
  /\ phase = "down"
  /\ loop = LoopAt("off")
  /\ permit = FALSE /\ shutdownMsg = FALSE
  /\ run = [r \in Runs |-> NoRunRecord]
  /\ inFlight = {}
  /\ op = [a \in Actors |-> NoOp]
  /\ boots = 0 /\ faults = 0 /\ asks = 0
  /\ deleted = [j \in Jobs |-> "no"]
  /\ tokens = [j \in OneShots |-> 1]

-----------------------------------------------------------------------------
(* Startup *)

\* A one-shot whose run_at passed while no process was running.
Overdue(j) == j \in OneShots /\ runAt[j] # NoTime /\ runAt[j] < now

\* The startup pass over the enabled rows in `done`.  Nothing else runs yet.
StartupReload(done) ==
  LET missed == {j \in done : Overdue(j) /\ ~RunOverdueOneShotsOnStartup}
      again  == {j \in done : Overdue(j) /\ RunOverdueOneShotsOnStartup}
      recalc == {j \in done : CronOf(j) # NoTime}
  IN /\ enabled' = enabled \ missed
     /\ status' = [j \in Jobs |-> IF j \in missed THEN "Missed" ELSE status[j]]
     /\ nextRun' = [j \in Jobs |-> IF j \in missed THEN NoTime
                              ELSE IF j \in again  THEN now
                              ELSE IF j \in recalc THEN CronOf(j)
                              ELSE nextRun[j]]
     /\ UNCHANGED <<created, runAt>>

\* start(): reload, then subscribe to the shutdown channel and spawn the loop.
Start ==
  /\ phase = "down" /\ boots < MaxBoots
  /\ StartupReload(enabled)
  /\ phase' = "up"
  /\ boots' = boots + 1
  /\ loop' = LoopAt("fetch")
  /\ permit' = FALSE /\ shutdownMsg' = FALSE
  /\ UNCHANGED <<now, run, inFlight, op, faults, asks, deleted, tokens>>

\* start() fails on a database error part of the way through the rows, in
\* next_run_at order: run_runtime returns and the process ends.
StartFails ==
  /\ phase = "down" /\ boots < MaxBoots /\ faults < MaxFaults
  /\ \E done \in SUBSET enabled :
       /\ \A j \in done, k \in enabled \ done : nextRun[j] <= nextRun[k]
       /\ StartupReload(done)
  /\ boots' = boots + 1
  /\ faults' = faults + 1
  /\ UNCHANGED <<now, phase, loop, permit, shutdownMsg, run, inFlight, op,
                 asks, deleted, tokens>>

-----------------------------------------------------------------------------
(* The background loop *)

\* get_next_enabled_job: the enabled row with the least next_run_at, NULL first.
IsNextEnabled(j) ==
  /\ j \in enabled
  /\ \/ nextRun[j] = NoTime
     \/ \A k \in enabled : nextRun[k] # NoTime /\ nextRun[j] <= nextRun[k]

LoopFetch ==
  /\ loop.pc = "fetch"
  /\ \/ /\ enabled = {}
        /\ loop' = LoopAt("idle")
     \/ \E j \in Jobs :
          /\ IsNextEnabled(j)
          /\ loop' = LoopWith("decide", j, nextRun[j], NoTime)
  /\ UNCHANGED <<table, now, phase, permit, shutdownMsg, run, inFlight, op,
                 boots, faults, asks, deleted, tokens>>

\* The fetch, or the write of Running, fails: the loop sleeps and fetches again.
LoopFault ==
  /\ loop.pc \in {"fetch", "mark"}
  /\ faults < MaxFaults
  /\ faults' = faults + 1
  /\ loop' = LoopAt("backoff")
  /\ UNCHANGED <<table, now, phase, permit, shutdownMsg, run, inFlight, op,
                 boots, asks, deleted, tokens>>

LoopBackoffEnds ==
  /\ loop.pc = "backoff"
  /\ loop' = LoopAt("fetch")
  /\ UNCHANGED <<table, now, phase, permit, shutdownMsg, run, inFlight, op,
                 boots, faults, asks, deleted, tokens>>

\* Mutant: the shutdown message is taken and the loop goes on.
Mutant_LoopDecide ==
  /\ loop.pc = "decide"
  /\ shutdownMsg' = FALSE
  /\ loop' = IF loop.due = NoTime \/ loop.due <= now
             THEN LoopWith("mark", loop.job, loop.due, CronOf(loop.job))
             ELSE LoopWith("sleep", NoJob, loop.due, NoTime)
  /\ UNCHANGED <<table, now, phase, permit, run, inFlight, op, boots, faults,
                 asks, deleted, tokens>>

\* try_recv, then the due test against the row that was fetched.
LoopDecide ==
  /\ loop.pc = "decide"
  /\ IF shutdownMsg THEN /\ loop' = LoopAt("exited") /\ shutdownMsg' = FALSE
     ELSE /\ UNCHANGED shutdownMsg
          /\ loop' = IF loop.due = NoTime \/ loop.due <= now
                     THEN LoopWith("mark", loop.job, loop.due, CronOf(loop.job))
                     ELSE LoopWith("sleep", NoJob, loop.due, NoTime)
  /\ UNCHANGED <<table, now, phase, permit, run, inFlight, op, boots, faults,
                 asks, deleted, tokens>>

\* Mutant: a failed run disables its job.
Mutant_DisableOnFailure(j, s, next) ==
  /\ status' = [status EXCEPT ![j] = s]
  /\ nextRun' = [nextRun EXCEPT ![j] = next]
  /\ enabled' = IF next = NoTime \/ s = "Failed" THEN enabled \ {j}
                                                 ELSE enabled \cup {j}
  /\ UNCHANGED <<created, runAt>>

\* update_job_run_state: next_run_at and enabled are written together, and
\* enabled is true exactly when the caller has a next time.
WriteRunState(j, s, next) ==
  /\ status' = [status EXCEPT ![j] = s]
  /\ nextRun' = [nextRun EXCEPT ![j] = next]
  /\ enabled' = IF next = NoTime THEN enabled \ {j} ELSE enabled \cup {j}
  /\ UNCHANGED <<created, runAt>>

\* Mutant: the row is marked Running and stays enabled until the run ends.
Mutant_LoopMark ==
  /\ loop.pc = "mark"
  /\ status' = [status EXCEPT ![loop.job] = "Running"]
  /\ loop' = [loop EXCEPT !.pc = "spawn"]
  /\ UNCHANGED <<created, enabled, runAt, nextRun, now, phase, permit,
                 shutdownMsg, run, inFlight, op, boots, faults, asks, deleted,
                 tokens>>

LoopMark ==
  /\ loop.pc = "mark"
  /\ WriteRunState(loop.job, "Running", loop.next)
  /\ loop' = [loop EXCEPT !.pc = "spawn"]
  /\ UNCHANGED <<now, phase, permit, shutdownMsg, run, inFlight, op, boots,
                 faults, asks, deleted, tokens>>

\* tokio::spawn of the run.  A slot is reused once its run has finished; the
\* handle the slot stood for until then is one that awaits at once.
LoopSpawn ==
  /\ loop.pc = "spawn"
  /\ \E r \in Runs :
       /\ ~Live(r)
       /\ run' = [run EXCEPT ![r] =
                    [state |-> "agent", job |-> loop.job, next |-> loop.next]]
       /\ inFlight' = inFlight \ {r}
       /\ loop' = [LoopAt("push") EXCEPT !.run = r]
  /\ tokens' = [j \in OneShots |-> IF j = loop.job THEN tokens[j] - 1 ELSE tokens[j]]
  /\ UNCHANGED <<table, now, phase, permit, shutdownMsg, op, boots, faults,
                 asks, deleted>>

\* Mutant: only the newest handle is kept.
Mutant_LoopPush ==
  /\ loop.pc = "push"
  /\ inFlight' = {loop.run}
  /\ loop' = LoopAt("fetch")
  /\ UNCHANGED <<table, now, phase, permit, shutdownMsg, run, op, boots,
                 faults, asks, deleted, tokens>>

\* in_flight_tasks: drop the finished handles, keep the new one.
LoopPush ==
  /\ loop.pc = "push"
  /\ inFlight' = {r \in inFlight : Live(r)} \cup {loop.run}
  /\ loop' = LoopAt("fetch")
  /\ UNCHANGED <<table, now, phase, permit, shutdownMsg, run, op, boots,
                 faults, asks, deleted, tokens>>

\* The select! of the reactive sleep and of the idle wait.
LoopWakes ==
  /\ loop.pc \in {"sleep", "idle"}
  /\ \/ /\ loop.pc = "sleep" /\ loop.due <= now
        /\ loop' = LoopAt("fetch")
        /\ UNCHANGED <<permit, shutdownMsg>>
     \/ /\ permit
        /\ permit' = FALSE
        /\ loop' = LoopAt("fetch")
        /\ UNCHANGED shutdownMsg
     \/ /\ shutdownMsg
        /\ shutdownMsg' = FALSE
        /\ loop' = LoopAt("exited")
        /\ UNCHANGED permit
  /\ UNCHANGED <<table, now, phase, run, inFlight, op, boots, faults, asks,
                 deleted, tokens>>

LoopStep == \/ LoopFetch \/ LoopBackoffEnds \/ LoopDecide \/ LoopMark
            \/ LoopSpawn \/ LoopPush \/ LoopWakes

-----------------------------------------------------------------------------
(* The runs *)

\* run_scheduled_job returned: the final state is written with the
\* next_run_at and enabled the loop captured before the run began.
RunRecords(r) ==
  /\ run[r].state = "agent" /\ op[r] = NoOp
  /\ \E s \in {"Success", "Failed"} : WriteRunState(run[r].job, s, run[r].next)
  /\ run' = [run EXCEPT ![r].state = "notify"]
  /\ UNCHANGED <<now, phase, loop, permit, shutdownMsg, inFlight, op, boots,
                 faults, asks, deleted, tokens>>

\* The final write fails: it is logged and the task goes on.
RunRecordFails(r) ==
  /\ run[r].state = "agent" /\ op[r] = NoOp
  /\ faults < MaxFaults
  /\ faults' = faults + 1
  /\ run' = [run EXCEPT ![r].state = "notify"]
  /\ UNCHANGED <<table, now, phase, loop, permit, shutdownMsg, inFlight, op,
                 boots, asks, deleted, tokens>>

\* Mutant: the run ends without notifying the loop.
Mutant_RunNotifies(r) ==
  /\ run[r].state = "notify"
  /\ run' = [run EXCEPT ![r] = NoRunRecord]
  /\ UNCHANGED <<table, now, phase, loop, permit, shutdownMsg, inFlight, op,
                 boots, faults, asks, deleted, tokens>>

\* Mutant: the final state is written once more with the notification.
Mutant_RunWritesTwice(r) ==
  /\ run[r].state = "notify"
  /\ WriteRunState(run[r].job, "Success", run[r].next)
  /\ permit' = TRUE
  /\ run' = [run EXCEPT ![r] = NoRunRecord]
  /\ UNCHANGED <<now, phase, loop, shutdownMsg, inFlight, op, boots, faults,
                 asks, deleted, tokens>>

RunNotifies(r) ==
  /\ run[r].state = "notify"
  /\ permit' = TRUE
  /\ run' = [run EXCEPT ![r] = NoRunRecord]
  /\ UNCHANGED <<table, now, phase, loop, shutdownMsg, inFlight, op, boots,
                 faults, asks, deleted, tokens>>

-----------------------------------------------------------------------------
(* The job tools and commands, called by chat handlers and by runs *)

\* ScheduleJob.  A run_at in the past is accepted; a cron expression with no
\* next time is refused before anything is written.
ScheduleJob(a, j) ==
  /\ Ready(a)
  /\ j \notin created /\ Owner[j] = ConversationOf(a)
  /\ created' = created \cup {j}
  /\ enabled' = enabled \cup {j}
  /\ \/ /\ j \in OneShots
        /\ \E t \in Time : /\ runAt' = [runAt EXCEPT ![j] = t]
                           /\ nextRun' = [nextRun EXCEPT ![j] = t]
     \/ /\ j \in Crons /\ CronOf(j) # NoTime
        /\ nextRun' = [nextRun EXCEPT ![j] = CronOf(j)]
        /\ UNCHANGED runAt
  /\ op' = [op EXCEPT ![a] = AfterWrite(a)]
  /\ UNCHANGED <<status, now, phase, loop, permit, shutdownMsg, run, inFlight,
                 boots, faults, asks, deleted, tokens>>

\* The get_job of DeleteJob and /delete, when it does not refuse.
ReadForDelete(a, j) ==
  /\ Ready(a)
  /\ j \in created /\ Owner[j] = ConversationOf(a)
  /\ op' = [op EXCEPT ![a] = [pc |-> "delete", job |-> j]]
  /\ UNCHANGED <<table, now, phase, loop, permit, shutdownMsg, run, inFlight,
                 boots, faults, asks, deleted, tokens>>

\* disable_job.
DisableJob(a) ==
  /\ op[a].pc = "delete"
  /\ enabled' = enabled \ {op[a].job}
  /\ deleted' = [deleted EXCEPT ![op[a].job] =
                   IF Stale(op[a].job) THEN "raced" ELSE "atRest"]
  /\ op' = [op EXCEPT ![a] = AfterWrite(a)]
  /\ UNCHANGED <<created, runAt, nextRun, status, now, phase, loop, permit,
                 shutdownMsg, run, inFlight, boots, faults, asks, tokens>>

\* Mutant: run_job_now does not look at the enabled column.
Mutant_ReadForRunNow(a, j) ==
  /\ Ready(a)
  /\ j \in created /\ Owner[j] = ConversationOf(a)
  /\ asks < MaxAsks
  /\ asks' = asks + 1
  /\ op' = [op EXCEPT ![a] = [pc |-> "runNow", job |-> j]]
  /\ UNCHANGED <<table, now, phase, loop, permit, shutdownMsg, run, inFlight,
                 boots, faults, deleted, tokens>>

\* The get_job of RunJobNow and /run, when it does not refuse.
ReadForRunNow(a, j) ==
  /\ Ready(a)
  /\ j \in created /\ Owner[j] = ConversationOf(a) /\ j \in enabled
  /\ asks < MaxAsks
  /\ asks' = asks + 1
  /\ op' = [op EXCEPT ![a] = [pc |-> "runNow", job |-> j]]
  /\ UNCHANGED <<table, now, phase, loop, permit, shutdownMsg, run, inFlight,
                 boots, faults, deleted, tokens>>

\* update_job_next_run(now, enabled = true).
RunJobNow(a) ==
  /\ op[a].pc = "runNow"
  /\ nextRun' = [nextRun EXCEPT ![op[a].job] = now]
  /\ enabled' = enabled \cup {op[a].job}
  /\ tokens' = [j \in OneShots |-> IF j = op[a].job THEN tokens[j] + 1 ELSE tokens[j]]
  /\ op' = [op EXCEPT ![a] = AfterWrite(a)]
  /\ UNCHANGED <<created, runAt, status, now, phase, loop, permit, shutdownMsg,
                 run, inFlight, boots, faults, asks, deleted>>

\* The write of a delete or of a run-now fails: the caller gets the error.
OpFails(a) ==
  /\ op[a].pc \in {"delete", "runNow"}
  /\ faults < MaxFaults
  /\ faults' = faults + 1
  /\ op' = [op EXCEPT ![a] = NoOp]
  /\ UNCHANGED <<table, now, phase, loop, permit, shutdownMsg, run, inFlight,
                 boots, asks, deleted, tokens>>

\* notify_one: a permit is stored until the loop next waits.
NotifyOne(a) ==
  /\ op[a].pc = "notify"
  /\ permit' = TRUE
  /\ op' = [op EXCEPT ![a] = NoOp]
  /\ UNCHANGED <<table, now, phase, loop, shutdownMsg, run, inFlight, boots,
                 faults, asks, deleted, tokens>>

OpStep(a) == DisableJob(a) \/ RunJobNow(a) \/ NotifyOne(a)
RunStep(r) == RunRecords(r) \/ RunNotifies(r)

-----------------------------------------------------------------------------
(* Shutdown, exit and crash *)

\* The ingress loops stop accepting messages.
StopIngress ==
  /\ phase = "up"
  /\ phase' = "draining"
  /\ UNCHANGED <<table, now, loop, permit, shutdownMsg, run, inFlight, op,
                 boots, faults, asks, deleted, tokens>>

\* stop(), once the accepted handlers are drained: take the loop's handle and
\* send the shutdown message.
StopLoop ==
  /\ phase = "draining"
  /\ \A c \in Clients : op[c] = NoOp
  /\ phase' = "stopping"
  /\ shutdownMsg' = TRUE
  /\ UNCHANGED <<table, now, loop, permit, run, inFlight, op, boots, faults,
                 asks, deleted, tokens>>

\* stop() has awaited the loop and then every handle of in_flight_tasks.
StopReturns ==
  /\ phase = "stopping"
  /\ loop.pc = "exited"
  /\ \A r \in inFlight : ~Live(r)
  /\ inFlight' = {}
  /\ phase' = "stopped"
  /\ UNCHANGED <<table, now, loop, permit, shutdownMsg, run, op, boots,
                 faults, asks, deleted, tokens>>

\* The process ends: every task in it is gone, the table stays.
ProcessEnds ==
  /\ phase' = "down"
  /\ loop' = LoopAt("off")
  /\ permit' = FALSE /\ shutdownMsg' = FALSE
  /\ run' = [r \in Runs |-> NoRunRecord]
  /\ inFlight' = {}
  /\ op' = [a \in Actors |-> NoOp]
  /\ UNCHANGED <<table, now, boots, faults, asks, deleted, tokens>>

Exit  == phase = "stopped" /\ ProcessEnds
Crash == phase \notin {"down", "stopped"} /\ boots < MaxBoots /\ ProcessEnds

Tick ==
  /\ now < MaxTime
  /\ now' = now + 1
  /\ UNCHANGED <<table, phase, loop, permit, shutdownMsg, run, inFlight, op,
                 boots, faults, asks, deleted, tokens>>

-----------------------------------------------------------------------------
Next ==
  \/ Start \/ StartFails
  \/ LoopStep \/ LoopFault
  \/ \E r \in Runs : RunStep(r) \/ RunRecordFails(r)
  \/ \E a \in Actors, j \in Jobs :
       ScheduleJob(a, j) \/ ReadForDelete(a, j) \/ ReadForRunNow(a, j)
  \/ \E a \in Actors : OpStep(a) \/ OpFails(a)
  \/ StopIngress \/ StopLoop \/ StopReturns \/ Exit \/ Crash
  \/ Tick

Spec == Init /\ [][Next]_vars

\* Tokio runs every ready task, time passes, and stop() makes progress once
\* called.  A run ends however many job tools its agent calls (strong
\* fairness): max_tool_iterations bounds them.  This takes for granted that the
\* call of the model returns, for which the code sets no timeout (llm/mod.rs).
\* Users, crashes and database failures owe nothing.
Fairness ==
  /\ WF_vars(LoopStep)
  /\ \A r \in Runs : SF_vars(RunStep(r))
  /\ \A a \in Actors : WF_vars(OpStep(a))
  /\ WF_vars(StopLoop) /\ WF_vars(StopReturns)
  /\ WF_vars(Tick)

FairSpec == Spec /\ Fairness

-----------------------------------------------------------------------------
(* Properties *)

\* Type invariant.  An enabled row always has a next_run_at.
TableOK ==
  /\ created \in SUBSET Jobs /\ enabled \in SUBSET created
  /\ runAt \in [Jobs -> MaybeTime] /\ nextRun \in [Jobs -> MaybeTime]
  /\ \A j \in enabled : nextRun[j] # NoTime
  /\ status \in [Jobs -> Statuses]
LoopOK ==
  loop \in [pc: LoopPcs, job: Jobs \cup {NoJob}, due: MaybeTime,
            next: MaybeTime, run: Runs \cup {NoRun}]
TasksOK ==
  /\ run \in [Runs -> [state: {"agent", "notify", "finished"},
                       job: Jobs \cup {NoJob}, next: MaybeTime]]
  /\ inFlight \in SUBSET Runs
  /\ op \in [Actors -> [pc: {"idle", "delete", "runNow", "notify"},
                        job: Jobs \cup {NoJob}]]
ProcessOK ==
  /\ phase \in {"down", "up", "draining", "stopping", "stopped"}
  /\ permit \in BOOLEAN /\ shutdownMsg \in BOOLEAN
CountersOK ==
  /\ now \in Time
  /\ boots \in Nat /\ faults \in Nat /\ asks \in Nat
  /\ deleted \in [Jobs -> {"no", "raced", "atRest"}]
  /\ tokens \in [OneShots -> Int]
TypeOK == TableOK /\ LoopOK /\ TasksOK /\ ProcessOK /\ CountersOK

\* No lost wakeup: while the loop waits, or is about to, an enabled job that
\* falls due before its timer is announced, or will be: by a stored permit, by
\* a caller that wrote and has not notified yet, or by a run that notifies when
\* it ends.  Only the last covers a job a scheduled run created: its agent has
\* no notifier (scheduler_notifier: None).
WakeupPending ==
  \/ permit
  \/ \E a \in Actors : op[a].pc = "notify"
  \/ \E r \in Runs : Live(r)
WakeupCovered ==
  \A j \in enabled :
    \/ loop.pc \notin {"idle", "decide", "sleep"}
    \/ loop.pc \in {"decide", "sleep"} /\ loop.due # NoTime /\ nextRun[j] >= loop.due
    \/ WakeupPending

\* A cron job that nobody deleted stays armed for its next tick from now or an
\* earlier time, whatever the interleaving of its overlapping runs, run-now
\* requests, failing statements, crashes and restarts.  (Ticks that have passed
\* are another matter: a late mark and the reload of a start pass over them.)
CronStaysArmed ==
  \A j \in Crons \cap created :
    deleted[j] = "no" /\ CronOf(j) # NoTime =>
      j \in enabled /\ nextRun[j] <= CronOf(j)

\* A one-shot job starts at most once, plus once for each run-now request that
\* was written for it, across crashes and restarts: the row is disabled and
\* saved before the run is spawned.
OneShotNotRepeated == \A j \in OneShots : tokens[j] >= 0

\* A delete is final when it does not race with anything that holds an older
\* reading of the job (a run, the loop, a run-now request): the job is never
\* enabled, held by the loop or triggered again.
DeletedAtRestIsFinal ==
  \A j \in Jobs : deleted[j] = "atRest" => j \notin enabled /\ ~Stale(j)

\* What the user is told ("Job has been deleted"): a deleted job is disabled
\* for good.  The final write of a run that was in flight breaks it.
DeletedIsFinal == \A j \in Jobs : deleted[j] # "no" => j \notin enabled

\* When stop() has returned no run is alive, so ending the process cuts none.
StopDrainsRuns == phase = "stopped" => \A r \in Runs : ~Live(r)

\* If the process was stopped gracefully and no statement failed, no job is
\* left with the status Running.
CleanStopLeavesNoneRunning ==
  phase = "stopped" /\ boots = 1 /\ faults = 0 => \A j \in Jobs : status[j] # "Running"

\* The ways a due job stops being due that the code intends: the loop starts
\* it, its delete is written, or the startup pass reschedules it.
Taken(j)     == loop.pc = "mark" /\ loop.job = j /\ loop'.pc = "spawn"
DeleteOf(j)  == \E a \in Actors : op[a] = [pc |-> "delete", job |-> j] /\ op'[a] # op[a]
RecordsOf(j) == \E r \in Runs : run[r].state = "agent" /\ run[r].job = j
                                /\ run'[r].state = "notify"

\* A due job is only ever withdrawn by being started, deleted or reloaded, or
\* by the final write of an earlier run of the same job.
DueStaysDue ==
  [][\A j \in Jobs : Due(j) /\ ~Due(j)' =>
       phase = "down" \/ Taken(j) \/ DeleteOf(j) \/ RecordsOf(j)]_vars

\* What the comment on SchedulerGuard says of an abnormal exit: the state in
\* SQLite is enough to recover.  A job whose run was cut is, once the process
\* is up again, running, scheduled, or reported (not left as Running).
InterruptedRunIsRecovered ==
  phase = "up" =>
    \A j \in Jobs : status[j] = "Running" /\ deleted[j] = "no" =>
      \/ j \in enabled
      \/ loop.job = j
      \/ \E r \in Runs : Live(r) /\ run[r].job = j

\* Every due job is eventually started, deleted or rescheduled, unless the
\* process stops.
DueJobIsTaken ==
  \A j \in Jobs : (phase = "up" /\ Due(j)) ~> (~Due(j) \/ phase # "up")

\* stop() returns: the loop sees the shutdown message wherever it is and every
\* run it spawned ends.
StopTerminates == phase = "stopping" ~> phase \in {"stopped", "down"}
=============================================================================
