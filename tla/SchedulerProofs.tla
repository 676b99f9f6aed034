--------------------------- MODULE SchedulerProofs ---------------------------
(***************************************************************************)
(* Machine-checked proofs of the safety properties of Scheduler, for every *)
(* set of jobs, clients and run slots, every cron schedule and every bound. *)
(*                                                                         *)
(* Each invariant is preserved by one lemma with a step per action.  Core  *)
(* (types and shapes of the locals) supports all of them; the others are   *)
(* independent of each other except that RunningStep uses HandlesKept.     *)
(***************************************************************************)
EXTENDS SchedulerInvariants, TLAPS

-----------------------------------------------------------------------------
(* Types and shapes *)

\* The initial state: no row, no process.
LEMMA CoreInit == Init => Core
<1> SUFFICES ASSUME Init PROVE Core
  OBVIOUS
<1> USE JobsAssumption, TimeAssumption
<1> USE DEF Init, LoopAt, LoopWith, NoRunRecord, NoOp
<1>1. TableOK /\ LoopOK
  BY DEF TableOK, LoopOK, MaybeTime, Statuses, LoopPcs
<1>2. TasksOK /\ ProcessOK
  BY DEF TasksOK, ProcessOK, MaybeTime
<1>3. CountersOK
  BY DEF CountersOK, Time
<1>4. LoopShape /\ RunShape
  BY DEF LoopShape, LoopHolds, RunShape, Live
<1>5. OpShape
  BY DEF OpShape, Actors
<1> QED
  BY <1>1, <1>2, <1>3, <1>4, <1>5 DEF Core, TypeOK

\* Every step keeps types and shapes.
LEMMA CoreStep == Core /\ [Next]_vars => Core'
<1> SUFFICES ASSUME Core, [Next]_vars PROVE Core'
  OBVIOUS
<1> USE JobsAssumption, TimeAssumption, CronAssumption
<1> USE DEF Core, TypeOK, TableOK, LoopOK, TasksOK, ProcessOK, CountersOK,
     LoopShape,
           RunShape, OpShape, LoopHolds, Live, LoopAt, LoopWith, NoRunRecord,
                NoOp, table,
           MaybeTime, Statuses, LoopPcs, Actors, Time
<1>1. CASE Start
  <2>1. TableOK'
    BY <1>1 DEF Start, StartupReload, CronOf, Overdue, Jobs
  <2>2. LoopOK' /\ TasksOK' /\ CountersOK'
    BY <1>1 DEF Start
  <2>3. ProcessOK'
    BY <1>1 DEF Start
  <2> QED
    BY <1>1, <2>1, <2>2, <2>3 DEF Start, StartupReload
<1>2. CASE StartFails
  BY <1>2 DEF StartFails, StartupReload, CronOf, Overdue, Jobs
<1>3. CASE LoopFetch
  BY <1>3 DEF LoopFetch, IsNextEnabled
<1>4. CASE LoopBackoffEnds
  BY <1>4 DEF LoopBackoffEnds
<1>5. CASE LoopDecide
  <2>1. CASE shutdownMsg
    <3>1. loop' = LoopAt("exited")
      BY <1>5, <2>1 DEF LoopDecide
    <3>2. ProcessOK'
      BY <1>5, <2>1 DEF LoopDecide
    <3>3. LoopOK' /\ LoopShape'
      BY <1>5, <3>1 DEF LoopDecide
    <3> QED
      BY <1>5, <3>2, <3>3 DEF LoopDecide
  <2>2. CASE ~shutdownMsg
    <3>1. CronOf(loop.job) \in MaybeTime
      BY DEF CronOf
    <3>2. ProcessOK' /\ UNCHANGED <<phase, created>>
      BY <1>5, <2>2 DEF LoopDecide
    <3>3. \/ loop' = LoopWith("mark", loop.job, loop.due, CronOf(loop.job))
          \/ loop' = LoopWith("sleep", NoJob, loop.due, NoTime)
      BY <1>5, <2>2 DEF LoopDecide
    <3>4. LoopOK' /\ LoopShape'
      BY <1>5, <3>1, <3>2, <3>3 DEF LoopDecide
    <3> QED
      BY <1>5, <3>2, <3>4 DEF LoopDecide
  <2> QED
    BY <2>1, <2>2
<1>6. CASE LoopMark
  <2>1. /\ loop.pc = "mark" /\ loop' = [loop EXCEPT !.pc = "spawn"]
        /\ status' = [status EXCEPT ![loop.job] = "Running"]
        /\ nextRun' = [nextRun EXCEPT ![loop.job] = loop.next]
        /\ enabled' = IF loop.next = NoTime THEN enabled \ {loop.job}
                      ELSE enabled \cup {loop.job}
        /\ UNCHANGED <<created, runAt>>
        /\ UNCHANGED <<now, phase, permit, shutdownMsg, run, inFlight, op, boots,
                       faults, asks, deleted, tokens>>
    BY <1>6 DEF LoopMark, WriteRunState
  <2>2. loop.job \in created /\ created \subseteq Jobs /\ loop.next \in MaybeTime
    BY <2>1
  <2>3. status' \in [Jobs -> Statuses] /\ nextRun' \in [Jobs -> MaybeTime]
    BY <2>1, <2>2
  <2>4. enabled' \subseteq created
    BY <2>1, <2>2
  <2>5. TableOK'
    BY <2>1, <2>3, <2>4
  <2>6. LoopOK' /\ LoopShape'
    BY <2>1, <2>2
  <2>7. TasksOK' /\ ProcessOK' /\ CountersOK'
    BY <2>1
  <2>8. RunShape'
    BY <2>1
  <2>9. OpShape'
    BY <2>1
  <2> QED
    BY <2>5, <2>6, <2>7, <2>8, <2>9
<1>7. CASE LoopSpawn
  <2>1. PICK r \in Runs :
          /\ ~Live(r)
          /\ run' = [run EXCEPT ![r] =
                       [state |-> "agent", job |-> loop.job, next |-> loop.next]]
          /\ inFlight' = inFlight \ {r}
          /\ loop' = [LoopAt("push") EXCEPT !.run = r]
    BY <1>7 DEF LoopSpawn
  <2>2. /\ loop.pc = "spawn" /\ tokens' \in [OneShots -> Int]
        /\ UNCHANGED <<table, now, phase, permit, shutdownMsg, op, boots,
                       faults, asks, deleted>>
    BY <1>7 DEF LoopSpawn
  <2>3. loop.job \in created /\ loop.next \in MaybeTime /\ phase # "down"
    BY <2>2
  <2>4. LoopOK' /\ LoopShape'
    BY <2>1, <2>2, <2>3
  <2>5. TasksOK' /\ RunShape'
    BY <2>1, <2>2, <2>3
  <2>6. TableOK' /\ ProcessOK' /\ CountersOK'
    BY <2>2
  <2>7. OpShape'
    <3>1. \A q \in Runs : op[q].pc # "idle" => run'[q].state = "agent"
      BY <2>1
    <3> QED
      BY <2>2, <3>1
  <2> QED
    BY <2>4, <2>5, <2>6, <2>7
<1>8. CASE LoopPush
  BY <1>8 DEF LoopPush
<1>9. CASE LoopWakes
  <2>1. loop' \in {LoopAt("fetch"), LoopAt("exited")} /\ loop.pc # "off"
    BY <1>9 DEF LoopWakes
  <2>2. ProcessOK'
    BY <1>9 DEF LoopWakes
  <2>3. LoopOK' /\ LoopShape'
    BY <1>9, <2>1 DEF LoopWakes
  <2> QED
    BY <1>9, <2>2, <2>3 DEF LoopWakes
<1>10. CASE LoopFault
  BY <1>10 DEF LoopFault
<1>11. ASSUME NEW r \in Runs, RunRecords(r) PROVE Core'
  BY <1>11 DEF RunRecords, WriteRunState
<1>12. ASSUME NEW r \in Runs, RunNotifies(r) PROVE Core'
  BY <1>12 DEF RunNotifies
<1>13. ASSUME NEW r \in Runs, RunRecordFails(r) PROVE Core'
  BY <1>13 DEF RunRecordFails
<1>14. ASSUME NEW a \in Actors, NEW j \in Jobs, ScheduleJob(a, j) PROVE Core'
  <2>1. CASE j \in OneShots
    <3>1. PICK t \in Time : /\ runAt' = [runAt EXCEPT ![j] = t]
                           /\ nextRun' = [nextRun EXCEPT ![j] = t]
      BY <1>14, <2>1 DEF ScheduleJob, Jobs
    <3>2. t \in Nat /\ t # NoTime
      BY DEF Time
    <3>3. TypeOK'
      BY <1>14, <3>1, <3>2 DEF ScheduleJob, Ready, AfterWrite
    <3> QED
      BY <1>14, <3>3 DEF ScheduleJob, Ready, AfterWrite
  <2>2. CASE j \in Crons
    <3>1. CronOf(j) \in Nat
      BY <1>14, <2>2 DEF ScheduleJob, CronOf, Jobs
    <3>2. nextRun' = [nextRun EXCEPT ![j] = CronOf(j)] /\ runAt' = runAt
      BY <1>14, <2>2 DEF ScheduleJob, Jobs
    <3>3. TypeOK'
      BY <1>14, <3>1, <3>2 DEF ScheduleJob, Ready, AfterWrite
    <3> QED
      BY <1>14, <3>3 DEF ScheduleJob, Ready, AfterWrite
  <2> QED
    BY <2>1, <2>2 DEF Jobs
<1>15. ASSUME NEW a \in Actors, NEW j \in Jobs, ReadForDelete(a, j) PROVE Core'
  BY <1>15 DEF ReadForDelete, Ready
<1>16. ASSUME NEW a \in Actors, NEW j \in Jobs, ReadForRunNow(a, j) PROVE Core'
  BY <1>16 DEF ReadForRunNow, Ready
<1>17. ASSUME NEW a \in Actors, DisableJob(a) PROVE Core'
  BY <1>17 DEF DisableJob, AfterWrite
<1>18. ASSUME NEW a \in Actors, RunJobNow(a) PROVE Core'
  BY <1>18 DEF RunJobNow, AfterWrite
<1>19. ASSUME NEW a \in Actors, NotifyOne(a) PROVE Core'
  BY <1>19 DEF NotifyOne
<1>20. ASSUME NEW a \in Actors, OpFails(a) PROVE Core'
  BY <1>20 DEF OpFails
<1>21. CASE StopIngress
  BY <1>21 DEF StopIngress
<1>22. CASE StopLoop
  BY <1>22 DEF StopLoop
<1>23. CASE StopReturns
  BY <1>23 DEF StopReturns
<1>24. CASE Exit
  BY <1>24 DEF Exit, ProcessEnds
<1>25. CASE Crash
  BY <1>25 DEF Crash, ProcessEnds
<1>26. CASE Tick
  BY <1>26 DEF Tick
<1>27. CASE UNCHANGED vars
  BY <1>27 DEF vars
<1> QED
  BY <1>1, <1>2, <1>3, <1>4, <1>5, <1>6, <1>7, <1>8, <1>9, <1>10, <1>11,
       <1>12, <1>13, <1>14, <1>15, <1>16, <1>17, <1>18, <1>19, <1>20, <1>21,
       <1>22, <1>23, <1>24, <1>25, <1>26, <1>27 DEF Next, LoopStep, RunStep,
       OpStep

-----------------------------------------------------------------------------
(* One lemma per invariant *)

\* No handle of a live run is lost between the spawn and the drain of stop().
LEMMA HandlesStep == Core /\ HandlesKept /\ [Next]_vars => HandlesKept'
<1> SUFFICES ASSUME Core /\ HandlesKept, [Next]_vars PROVE HandlesKept'
  OBVIOUS
<1> USE JobsAssumption, TimeAssumption, CronAssumption
<1> USE DEF Core, TypeOK, TableOK, LoopOK, TasksOK, ProcessOK, CountersOK,
     LoopShape,
           RunShape, OpShape, LoopHolds, HandlesKept,
           Live, LoopAt, LoopWith, NoRunRecord, NoOp, table
<1>1. CASE Start
  BY <1>1 DEF Start, StartupReload, CronOf, Overdue, Jobs
<1>2. CASE StartFails
  BY <1>2 DEF StartFails, StartupReload, CronOf, Overdue, Jobs
<1>3. CASE LoopFetch
  BY <1>3 DEF LoopFetch, IsNextEnabled
<1>4. CASE LoopBackoffEnds
  BY <1>4 DEF LoopBackoffEnds
<1>5. CASE LoopDecide
  BY <1>5 DEF LoopDecide, CronOf, Jobs
<1>6. CASE LoopMark
  BY <1>6 DEF LoopMark, WriteRunState
<1>7. CASE LoopSpawn
  BY <1>7 DEF LoopSpawn
<1>8. CASE LoopPush
  BY <1>8 DEF LoopPush
<1>9. CASE LoopWakes
  BY <1>9 DEF LoopWakes
<1>10. CASE LoopFault
  BY <1>10 DEF LoopFault
<1>11. ASSUME NEW r \in Runs, RunRecords(r) PROVE HandlesKept'
  BY <1>11 DEF RunRecords, WriteRunState
<1>12. ASSUME NEW r \in Runs, RunNotifies(r) PROVE HandlesKept'
  BY <1>12 DEF RunNotifies
<1>13. ASSUME NEW r \in Runs, RunRecordFails(r) PROVE HandlesKept'
  BY <1>13 DEF RunRecordFails
<1>14. ASSUME NEW a \in Actors, NEW j \in Jobs, ScheduleJob(a,
     j) PROVE HandlesKept'
  BY <1>14 DEF ScheduleJob, Ready, AfterWrite, CronOf, Jobs
<1>15. ASSUME NEW a \in Actors, NEW j \in Jobs, ReadForDelete(a,
     j) PROVE HandlesKept'
  BY <1>15 DEF ReadForDelete, Ready
<1>16. ASSUME NEW a \in Actors, NEW j \in Jobs, ReadForRunNow(a,
     j) PROVE HandlesKept'
  BY <1>16 DEF ReadForRunNow, Ready
<1>17. ASSUME NEW a \in Actors, DisableJob(a) PROVE HandlesKept'
  BY <1>17 DEF DisableJob, AfterWrite
<1>18. ASSUME NEW a \in Actors, RunJobNow(a) PROVE HandlesKept'
  BY <1>18 DEF RunJobNow, AfterWrite
<1>19. ASSUME NEW a \in Actors, NotifyOne(a) PROVE HandlesKept'
  BY <1>19 DEF NotifyOne
<1>20. ASSUME NEW a \in Actors, OpFails(a) PROVE HandlesKept'
  BY <1>20 DEF OpFails
<1>21. CASE StopIngress
  BY <1>21 DEF StopIngress
<1>22. CASE StopLoop
  BY <1>22 DEF StopLoop
<1>23. CASE StopReturns
  <2>1. loop.run = NoRun
    BY <1>23 DEF StopReturns
  <2>2. \A r \in Runs : ~Live(r)
    BY <1>23, <2>1 DEF StopReturns
  <2> QED
    BY <1>23, <2>2 DEF StopReturns
<1>24. CASE Exit
  BY <1>24 DEF Exit, ProcessEnds
<1>25. CASE Crash
  BY <1>25 DEF Crash, ProcessEnds
<1>26. CASE Tick
  BY <1>26 DEF Tick
<1>27. CASE UNCHANGED vars
  BY <1>27 DEF vars
<1> QED
  BY <1>1, <1>2, <1>3, <1>4, <1>5, <1>6, <1>7, <1>8, <1>9, <1>10, <1>11,
       <1>12, <1>13, <1>14, <1>15, <1>16, <1>17, <1>18, <1>19, <1>20, <1>21,
       <1>22, <1>23, <1>24, <1>25, <1>26, <1>27 DEF Next, LoopStep, RunStep,
       OpStep

\* A row says Running only while a run stands behind it.
LEMMA RunningStep == Core /\ HandlesKept /\ RunningHasRun /\ [Next]_vars => RunningHasRun'
<1> SUFFICES ASSUME Core /\ HandlesKept /\ RunningHasRun,
     [Next]_vars PROVE RunningHasRun'
  OBVIOUS
<1> USE JobsAssumption, TimeAssumption, CronAssumption
<1> USE DEF Core, TypeOK, TableOK, LoopOK, TasksOK, ProcessOK, CountersOK,
     LoopShape,
           RunShape, OpShape, LoopHolds, HandlesKept,
           RunningHasRun, Live, LoopAt, LoopWith, NoRunRecord, NoOp, table
<1>1. CASE Start
  BY <1>1 DEF Start, StartupReload, CronOf, Overdue, Jobs
<1>2. CASE StartFails
  BY <1>2 DEF StartFails, StartupReload, CronOf, Overdue, Jobs
<1>3. CASE LoopFetch
  BY <1>3 DEF LoopFetch, IsNextEnabled
<1>4. CASE LoopBackoffEnds
  BY <1>4 DEF LoopBackoffEnds
<1>5. CASE LoopDecide
  BY <1>5 DEF LoopDecide, CronOf, Jobs
<1>6. CASE LoopMark
  BY <1>6 DEF LoopMark, WriteRunState
<1>7. CASE LoopSpawn
  BY <1>7 DEF LoopSpawn
<1>8. CASE LoopPush
  BY <1>8 DEF LoopPush
<1>9. CASE LoopWakes
  BY <1>9 DEF LoopWakes
<1>10. CASE LoopFault
  BY <1>10 DEF LoopFault
<1>11. ASSUME NEW r \in Runs, RunRecords(r) PROVE RunningHasRun'
  BY <1>11 DEF RunRecords, WriteRunState
<1>12. ASSUME NEW r \in Runs, RunNotifies(r) PROVE RunningHasRun'
  BY <1>12 DEF RunNotifies
<1>13. ASSUME NEW r \in Runs, RunRecordFails(r) PROVE RunningHasRun'
  BY <1>13 DEF RunRecordFails
<1>14. ASSUME NEW a \in Actors, NEW j \in Jobs, ScheduleJob(a,
     j) PROVE RunningHasRun'
  BY <1>14 DEF ScheduleJob, Ready, AfterWrite, CronOf, Jobs
<1>15. ASSUME NEW a \in Actors, NEW j \in Jobs, ReadForDelete(a,
     j) PROVE RunningHasRun'
  BY <1>15 DEF ReadForDelete, Ready
<1>16. ASSUME NEW a \in Actors, NEW j \in Jobs, ReadForRunNow(a,
     j) PROVE RunningHasRun'
  BY <1>16 DEF ReadForRunNow, Ready
<1>17. ASSUME NEW a \in Actors, DisableJob(a) PROVE RunningHasRun'
  BY <1>17 DEF DisableJob, AfterWrite
<1>18. ASSUME NEW a \in Actors, RunJobNow(a) PROVE RunningHasRun'
  BY <1>18 DEF RunJobNow, AfterWrite
<1>19. ASSUME NEW a \in Actors, NotifyOne(a) PROVE RunningHasRun'
  BY <1>19 DEF NotifyOne
<1>20. ASSUME NEW a \in Actors, OpFails(a) PROVE RunningHasRun'
  BY <1>20 DEF OpFails
<1>21. CASE StopIngress
  BY <1>21 DEF StopIngress
<1>22. CASE StopLoop
  BY <1>22 DEF StopLoop
<1>23. CASE StopReturns
  BY <1>23 DEF StopReturns
<1>24. CASE Exit
  BY <1>24 DEF Exit, ProcessEnds
<1>25. CASE Crash
  BY <1>25 DEF Crash, ProcessEnds
<1>26. CASE Tick
  BY <1>26 DEF Tick
<1>27. CASE UNCHANGED vars
  BY <1>27 DEF vars
<1> QED
  BY <1>1, <1>2, <1>3, <1>4, <1>5, <1>6, <1>7, <1>8, <1>9, <1>10, <1>11,
       <1>12, <1>13, <1>14, <1>15, <1>16, <1>17, <1>18, <1>19, <1>20, <1>21,
       <1>22, <1>23, <1>24, <1>25, <1>26, <1>27 DEF Next, LoopStep, RunStep,
       OpStep

\* The starts a one-shot job is owed cover its enabled row and the loop's claim.
LEMMA OneShotStep == Core /\ OneShotOwed /\ [Next]_vars => OneShotOwed'
<1> SUFFICES ASSUME Core /\ OneShotOwed, [Next]_vars PROVE OneShotOwed'
  OBVIOUS
<1> USE JobsAssumption, TimeAssumption, CronAssumption
<1> USE DEF Core, TypeOK, TableOK, LoopOK, TasksOK, ProcessOK, CountersOK,
     LoopShape,
           RunShape, OpShape, LoopHolds, OneShotOwed,
           Jobs, CronOf, Live, LoopAt, LoopWith, NoRunRecord, NoOp, table
<1>1. CASE Start
  BY <1>1 DEF Start, StartupReload, CronOf, Overdue, Jobs
<1>2. CASE StartFails
  BY <1>2 DEF StartFails, StartupReload, CronOf, Overdue, Jobs
<1>3. CASE LoopFetch
  BY <1>3 DEF LoopFetch, IsNextEnabled
<1>4. CASE LoopBackoffEnds
  BY <1>4 DEF LoopBackoffEnds
<1>5. CASE LoopDecide
  BY <1>5 DEF LoopDecide, CronOf, Jobs
<1>6. CASE LoopMark
  BY <1>6 DEF LoopMark, WriteRunState
<1>7. CASE LoopSpawn
  BY <1>7 DEF LoopSpawn
<1>8. CASE LoopPush
  BY <1>8 DEF LoopPush
<1>9. CASE LoopWakes
  BY <1>9 DEF LoopWakes
<1>10. CASE LoopFault
  BY <1>10 DEF LoopFault
<1>11. ASSUME NEW r \in Runs, RunRecords(r) PROVE OneShotOwed'
  BY <1>11 DEF RunRecords, WriteRunState
<1>12. ASSUME NEW r \in Runs, RunNotifies(r) PROVE OneShotOwed'
  BY <1>12 DEF RunNotifies
<1>13. ASSUME NEW r \in Runs, RunRecordFails(r) PROVE OneShotOwed'
  BY <1>13 DEF RunRecordFails
<1>14. ASSUME NEW a \in Actors, NEW j \in Jobs, ScheduleJob(a,
     j) PROVE OneShotOwed'
  BY <1>14 DEF ScheduleJob, Ready, AfterWrite, CronOf, Jobs
<1>15. ASSUME NEW a \in Actors, NEW j \in Jobs, ReadForDelete(a,
     j) PROVE OneShotOwed'
  BY <1>15 DEF ReadForDelete, Ready
<1>16. ASSUME NEW a \in Actors, NEW j \in Jobs, ReadForRunNow(a,
     j) PROVE OneShotOwed'
  BY <1>16 DEF ReadForRunNow, Ready
<1>17. ASSUME NEW a \in Actors, DisableJob(a) PROVE OneShotOwed'
  BY <1>17 DEF DisableJob, AfterWrite
<1>18. ASSUME NEW a \in Actors, RunJobNow(a) PROVE OneShotOwed'
  BY <1>18 DEF RunJobNow, AfterWrite
<1>19. ASSUME NEW a \in Actors, NotifyOne(a) PROVE OneShotOwed'
  BY <1>19 DEF NotifyOne
<1>20. ASSUME NEW a \in Actors, OpFails(a) PROVE OneShotOwed'
  BY <1>20 DEF OpFails
<1>21. CASE StopIngress
  BY <1>21 DEF StopIngress
<1>22. CASE StopLoop
  BY <1>22 DEF StopLoop
<1>23. CASE StopReturns
  BY <1>23 DEF StopReturns
<1>24. CASE Exit
  BY <1>24 DEF Exit, ProcessEnds
<1>25. CASE Crash
  BY <1>25 DEF Crash, ProcessEnds
<1>26. CASE Tick
  BY <1>26 DEF Tick
<1>27. CASE UNCHANGED vars
  BY <1>27 DEF vars
<1> QED
  BY <1>1, <1>2, <1>3, <1>4, <1>5, <1>6, <1>7, <1>8, <1>9, <1>10, <1>11,
       <1>12, <1>13, <1>14, <1>15, <1>16, <1>17, <1>18, <1>19, <1>20, <1>21,
       <1>22, <1>23, <1>24, <1>25, <1>26, <1>27 DEF Next, LoopStep, RunStep,
       OpStep

\* Nothing revives a job deleted while nobody held an older reading of it.
LEMMA RestStep == Core /\ DeletedAtRestIsFinal /\ [Next]_vars => DeletedAtRestIsFinal'
<1> SUFFICES ASSUME Core /\ DeletedAtRestIsFinal,
     [Next]_vars PROVE DeletedAtRestIsFinal'
  OBVIOUS
<1> USE JobsAssumption, TimeAssumption, CronAssumption
<1> USE DEF Core, TypeOK, TableOK, LoopOK, TasksOK, ProcessOK, CountersOK,
     LoopShape,
           RunShape, OpShape, LoopHolds,
           DeletedAtRestIsFinal, Stale, Live, LoopAt, LoopWith, NoRunRecord,
                NoOp, table
<1>1. CASE Start
  BY <1>1 DEF Start, StartupReload, CronOf, Overdue, Jobs
<1>2. CASE StartFails
  BY <1>2 DEF StartFails, StartupReload, CronOf, Overdue, Jobs
<1>3. CASE LoopFetch
  BY <1>3 DEF LoopFetch, IsNextEnabled
<1>4. CASE LoopBackoffEnds
  BY <1>4 DEF LoopBackoffEnds
<1>5. CASE LoopDecide
  BY <1>5 DEF LoopDecide, CronOf, Jobs
<1>6. CASE LoopMark
  BY <1>6 DEF LoopMark, WriteRunState
<1>7. CASE LoopSpawn
  BY <1>7 DEF LoopSpawn
<1>8. CASE LoopPush
  BY <1>8 DEF LoopPush
<1>9. CASE LoopWakes
  BY <1>9 DEF LoopWakes
<1>10. CASE LoopFault
  BY <1>10 DEF LoopFault
<1>11. ASSUME NEW r \in Runs, RunRecords(r) PROVE DeletedAtRestIsFinal'
  BY <1>11 DEF RunRecords, WriteRunState
<1>12. ASSUME NEW r \in Runs, RunNotifies(r) PROVE DeletedAtRestIsFinal'
  BY <1>12 DEF RunNotifies
<1>13. ASSUME NEW r \in Runs, RunRecordFails(r) PROVE DeletedAtRestIsFinal'
  BY <1>13 DEF RunRecordFails
<1>14. ASSUME NEW a \in Actors, NEW j \in Jobs, ScheduleJob(a,
     j) PROVE DeletedAtRestIsFinal'
  BY <1>14 DEF ScheduleJob, Ready, AfterWrite, CronOf, Jobs
<1>15. ASSUME NEW a \in Actors, NEW j \in Jobs, ReadForDelete(a,
     j) PROVE DeletedAtRestIsFinal'
  BY <1>15 DEF ReadForDelete, Ready
<1>16. ASSUME NEW a \in Actors, NEW j \in Jobs, ReadForRunNow(a,
     j) PROVE DeletedAtRestIsFinal'
  BY <1>16 DEF ReadForRunNow, Ready
<1>17. ASSUME NEW a \in Actors, DisableJob(a) PROVE DeletedAtRestIsFinal'
  BY <1>17 DEF DisableJob, AfterWrite
<1>18. ASSUME NEW a \in Actors, RunJobNow(a) PROVE DeletedAtRestIsFinal'
  BY <1>18 DEF RunJobNow, AfterWrite
<1>19. ASSUME NEW a \in Actors, NotifyOne(a) PROVE DeletedAtRestIsFinal'
  BY <1>19 DEF NotifyOne
<1>20. ASSUME NEW a \in Actors, OpFails(a) PROVE DeletedAtRestIsFinal'
  BY <1>20 DEF OpFails
<1>21. CASE StopIngress
  BY <1>21 DEF StopIngress
<1>22. CASE StopLoop
  BY <1>22 DEF StopLoop
<1>23. CASE StopReturns
  BY <1>23 DEF StopReturns
<1>24. CASE Exit
  BY <1>24 DEF Exit, ProcessEnds
<1>25. CASE Crash
  BY <1>25 DEF Crash, ProcessEnds
<1>26. CASE Tick
  BY <1>26 DEF Tick
<1>27. CASE UNCHANGED vars
  BY <1>27 DEF vars
<1> QED
  BY <1>1, <1>2, <1>3, <1>4, <1>5, <1>6, <1>7, <1>8, <1>9, <1>10, <1>11,
       <1>12, <1>13, <1>14, <1>15, <1>16, <1>17, <1>18, <1>19, <1>20, <1>21,
       <1>22, <1>23, <1>24, <1>25, <1>26, <1>27 DEF Next, LoopStep, RunStep,
       OpStep

\* What is captured before a run, and what it writes after, is never later than
\* the next tick: ticks only move forward with the clock.
LEMMA ArmedStep == Core /\ CronArmed /\ [Next]_vars => CronArmed'
<1> SUFFICES ASSUME Core /\ CronArmed, [Next]_vars PROVE CronArmed'
  OBVIOUS
<1> USE JobsAssumption, TimeAssumption, CronAssumption
<1> USE DEF Core, TypeOK, TableOK, LoopOK, TasksOK, ProcessOK, CountersOK,
     LoopShape,
           RunShape, OpShape, LoopHolds,
           CronArmed, CapturedTicks, CronStaysArmed, NoLaterThanTick, CronOf,
           MaybeTime, Time, Jobs, Live, LoopAt, LoopWith, NoRunRecord, NoOp,
                table
<1>1. CASE Start
  BY <1>1 DEF Start, StartupReload, CronOf, Overdue, Jobs
<1>2. CASE StartFails
  BY <1>2 DEF StartFails, StartupReload, CronOf, Overdue, Jobs
<1>3. CASE LoopFetch
  BY <1>3 DEF LoopFetch, IsNextEnabled
<1>4. CASE LoopBackoffEnds
  BY <1>4 DEF LoopBackoffEnds
<1>5. CASE LoopDecide
  BY <1>5 DEF LoopDecide, CronOf, Jobs
<1>6. CASE LoopMark
  BY <1>6 DEF LoopMark, WriteRunState
<1>7. CASE LoopSpawn
  BY <1>7 DEF LoopSpawn
<1>8. CASE LoopPush
  BY <1>8 DEF LoopPush
<1>9. CASE LoopWakes
  BY <1>9 DEF LoopWakes
<1>10. CASE LoopFault
  BY <1>10 DEF LoopFault
<1>11. ASSUME NEW r \in Runs, RunRecords(r) PROVE CronArmed'
  BY <1>11 DEF RunRecords, WriteRunState
<1>12. ASSUME NEW r \in Runs, RunNotifies(r) PROVE CronArmed'
  BY <1>12 DEF RunNotifies
<1>13. ASSUME NEW r \in Runs, RunRecordFails(r) PROVE CronArmed'
  BY <1>13 DEF RunRecordFails
<1>14. ASSUME NEW a \in Actors, NEW j \in Jobs, ScheduleJob(a,
     j) PROVE CronArmed'
  BY <1>14 DEF ScheduleJob, Ready, AfterWrite, CronOf, Jobs
<1>15. ASSUME NEW a \in Actors, NEW j \in Jobs, ReadForDelete(a,
     j) PROVE CronArmed'
  BY <1>15 DEF ReadForDelete, Ready
<1>16. ASSUME NEW a \in Actors, NEW j \in Jobs, ReadForRunNow(a,
     j) PROVE CronArmed'
  BY <1>16 DEF ReadForRunNow, Ready
<1>17. ASSUME NEW a \in Actors, DisableJob(a) PROVE CronArmed'
  BY <1>17 DEF DisableJob, AfterWrite
<1>18. ASSUME NEW a \in Actors, RunJobNow(a) PROVE CronArmed'
  BY <1>18 DEF RunJobNow, AfterWrite
<1>19. ASSUME NEW a \in Actors, NotifyOne(a) PROVE CronArmed'
  BY <1>19 DEF NotifyOne
<1>20. ASSUME NEW a \in Actors, OpFails(a) PROVE CronArmed'
  BY <1>20 DEF OpFails
<1>21. CASE StopIngress
  BY <1>21 DEF StopIngress
<1>22. CASE StopLoop
  BY <1>22 DEF StopLoop
<1>23. CASE StopReturns
  BY <1>23 DEF StopReturns
<1>24. CASE Exit
  BY <1>24 DEF Exit, ProcessEnds
<1>25. CASE Crash
  BY <1>25 DEF Crash, ProcessEnds
<1>26. CASE Tick
  <2>1. \A j \in Crons : CronNext[j][now'] # NoTime =>
          CronNext[j][now] # NoTime /\ CronNext[j][now] <= CronNext[j][now']
    BY <1>26 DEF Tick
  <2>2. \A j \in Crons : CronNext[j][now] \in MaybeTime /\ CronNext[j][now'] \in MaybeTime
    BY <1>26 DEF Tick
  <2>3. CapturedTicks'
    <3>1. loop' = loop /\ run' = run
      BY <1>26 DEF Tick
    <3>2. \A j \in Crons, t \in MaybeTime :
            NoLaterThanTick(j, t) => NoLaterThanTick(j, t)'
      BY <2>1, <2>2
    <3> QED
      BY <3>1, <3>2
  <2>4. CronStaysArmed'
    BY <1>26, <2>1, <2>2 DEF Tick
  <2> QED
    BY <2>3, <2>4
<1>27. CASE UNCHANGED vars
  BY <1>27 DEF vars
<1> QED
  BY <1>1, <1>2, <1>3, <1>4, <1>5, <1>6, <1>7, <1>8, <1>9, <1>10, <1>11,
       <1>12, <1>13, <1>14, <1>15, <1>16, <1>17, <1>18, <1>19, <1>20, <1>21,
       <1>22, <1>23, <1>24, <1>25, <1>26, <1>27 DEF Next, LoopStep, RunStep,
       OpStep

\* Each step that could make a waiting loop late leaves a wakeup pending.
LEMMA WakeupStep == Core /\ Core' /\ WakeupCovered /\ [Next]_vars => WakeupCovered'
<1> SUFFICES ASSUME Core /\ Core' /\ WakeupCovered,
     [Next]_vars PROVE WakeupCovered'
  OBVIOUS
<1> USE JobsAssumption, TimeAssumption, CronAssumption
<1> USE DEF Core, TypeOK, TableOK, LoopOK, TasksOK, ProcessOK, CountersOK,
     LoopShape,
           RunShape, OpShape, LoopHolds,
           WakeupCovered, WakeupPending, Actors, MaybeTime, Live, LoopAt,
                LoopWith, NoRunRecord, NoOp, table
<1>1. CASE Start
  BY <1>1 DEF Start, StartupReload, CronOf, Overdue, Jobs
<1>2. CASE StartFails
  BY <1>2 DEF StartFails, StartupReload, CronOf, Overdue, Jobs
<1>3. CASE LoopFetch
  BY <1>3 DEF LoopFetch, IsNextEnabled
<1>4. CASE LoopBackoffEnds
  BY <1>4 DEF LoopBackoffEnds
<1>5. CASE LoopDecide
  BY <1>5 DEF LoopDecide, CronOf, Jobs
<1>6. CASE LoopMark
  BY <1>6 DEF LoopMark, WriteRunState
<1>7. CASE LoopSpawn
  BY <1>7 DEF LoopSpawn
<1>8. CASE LoopPush
  BY <1>8 DEF LoopPush
<1>9. CASE LoopWakes
  BY <1>9 DEF LoopWakes
<1>10. CASE LoopFault
  BY <1>10 DEF LoopFault
<1>11. ASSUME NEW r \in Runs, RunRecords(r) PROVE WakeupCovered'
  BY <1>11 DEF RunRecords, WriteRunState
<1>12. ASSUME NEW r \in Runs, RunNotifies(r) PROVE WakeupCovered'
  BY <1>12 DEF RunNotifies
<1>13. ASSUME NEW r \in Runs, RunRecordFails(r) PROVE WakeupCovered'
  BY <1>13 DEF RunRecordFails
<1>14. ASSUME NEW a \in Actors, NEW j \in Jobs, ScheduleJob(a,
     j) PROVE WakeupCovered'
  BY <1>14 DEF ScheduleJob, Ready, AfterWrite, CronOf, Jobs
<1>15. ASSUME NEW a \in Actors, NEW j \in Jobs, ReadForDelete(a,
     j) PROVE WakeupCovered'
  BY <1>15 DEF ReadForDelete, Ready
<1>16. ASSUME NEW a \in Actors, NEW j \in Jobs, ReadForRunNow(a,
     j) PROVE WakeupCovered'
  BY <1>16 DEF ReadForRunNow, Ready
<1>17. ASSUME NEW a \in Actors, DisableJob(a) PROVE WakeupCovered'
  BY <1>17 DEF DisableJob, AfterWrite
<1>18. ASSUME NEW a \in Actors, RunJobNow(a) PROVE WakeupCovered'
  BY <1>18 DEF RunJobNow, AfterWrite
<1>19. ASSUME NEW a \in Actors, NotifyOne(a) PROVE WakeupCovered'
  BY <1>19 DEF NotifyOne
<1>20. ASSUME NEW a \in Actors, OpFails(a) PROVE WakeupCovered'
  BY <1>20 DEF OpFails
<1>21. CASE StopIngress
  BY <1>21 DEF StopIngress
<1>22. CASE StopLoop
  BY <1>22 DEF StopLoop
<1>23. CASE StopReturns
  BY <1>23 DEF StopReturns
<1>24. CASE Exit
  BY <1>24 DEF Exit, ProcessEnds
<1>25. CASE Crash
  BY <1>25 DEF Crash, ProcessEnds
<1>26. CASE Tick
  BY <1>26 DEF Tick
<1>27. CASE UNCHANGED vars
  BY <1>27 DEF vars
<1> QED
  BY <1>1, <1>2, <1>3, <1>4, <1>5, <1>6, <1>7, <1>8, <1>9, <1>10, <1>11,
       <1>12, <1>13, <1>14, <1>15, <1>16, <1>17, <1>18, <1>19, <1>20, <1>21,
       <1>22, <1>23, <1>24, <1>25, <1>26, <1>27 DEF Next, LoopStep, RunStep,
       OpStep

\* The step formula of DueStaysDue.
DueKept ==
  \A j \in Jobs : Due(j) /\ ~Due(j)' =>
    phase = "down" \/ Taken(j) \/ DeleteOf(j) \/ RecordsOf(j)

\* A due job is withdrawn only by the steps DueStaysDue names.
LEMMA DueStep == Core /\ [Next]_vars => DueKept
<1> SUFFICES ASSUME Core, [Next]_vars PROVE DueKept
  OBVIOUS
<1> USE JobsAssumption, TimeAssumption, CronAssumption
<1> USE DEF Core, TypeOK, TableOK, LoopOK, TasksOK, ProcessOK, CountersOK,
     LoopShape,
           RunShape, OpShape, LoopHolds,
           DueKept, Due, Taken, DeleteOf, RecordsOf, MaybeTime, Time, Live,
                LoopAt, LoopWith, NoRunRecord, NoOp, table
<1>1. CASE Start
  BY <1>1 DEF Start, StartupReload, CronOf, Overdue, Jobs
<1>2. CASE StartFails
  BY <1>2 DEF StartFails, StartupReload, CronOf, Overdue, Jobs
<1>3. CASE LoopFetch
  BY <1>3 DEF LoopFetch, IsNextEnabled
<1>4. CASE LoopBackoffEnds
  BY <1>4 DEF LoopBackoffEnds
<1>5. CASE LoopDecide
  BY <1>5 DEF LoopDecide, CronOf, Jobs
<1>6. CASE LoopMark
  BY <1>6 DEF LoopMark, WriteRunState
<1>7. CASE LoopSpawn
  BY <1>7 DEF LoopSpawn
<1>8. CASE LoopPush
  BY <1>8 DEF LoopPush
<1>9. CASE LoopWakes
  BY <1>9 DEF LoopWakes
<1>10. CASE LoopFault
  BY <1>10 DEF LoopFault
<1>11. ASSUME NEW r \in Runs, RunRecords(r) PROVE DueKept
  BY <1>11 DEF RunRecords, WriteRunState
<1>12. ASSUME NEW r \in Runs, RunNotifies(r) PROVE DueKept
  BY <1>12 DEF RunNotifies
<1>13. ASSUME NEW r \in Runs, RunRecordFails(r) PROVE DueKept
  BY <1>13 DEF RunRecordFails
<1>14. ASSUME NEW a \in Actors, NEW j \in Jobs, ScheduleJob(a, j) PROVE DueKept
  <2>1. j \notin enabled /\ enabled \subseteq enabled'
    BY <1>14 DEF ScheduleJob
  <2>2. \A k \in Jobs \ {j} : nextRun'[k] = nextRun[k]
    BY <1>14 DEF ScheduleJob, Jobs
  <2> QED
    BY <1>14, <2>1, <2>2 DEF ScheduleJob
<1>15. ASSUME NEW a \in Actors, NEW j \in Jobs, ReadForDelete(a,
     j) PROVE DueKept
  BY <1>15 DEF ReadForDelete, Ready
<1>16. ASSUME NEW a \in Actors, NEW j \in Jobs, ReadForRunNow(a,
     j) PROVE DueKept
  BY <1>16 DEF ReadForRunNow, Ready
<1>17. ASSUME NEW a \in Actors, DisableJob(a) PROVE DueKept
  BY <1>17 DEF DisableJob, AfterWrite
<1>18. ASSUME NEW a \in Actors, RunJobNow(a) PROVE DueKept
  BY <1>18 DEF RunJobNow, AfterWrite
<1>19. ASSUME NEW a \in Actors, NotifyOne(a) PROVE DueKept
  BY <1>19 DEF NotifyOne
<1>20. ASSUME NEW a \in Actors, OpFails(a) PROVE DueKept
  BY <1>20 DEF OpFails
<1>21. CASE StopIngress
  BY <1>21 DEF StopIngress
<1>22. CASE StopLoop
  BY <1>22 DEF StopLoop
<1>23. CASE StopReturns
  BY <1>23 DEF StopReturns
<1>24. CASE Exit
  BY <1>24 DEF Exit, ProcessEnds
<1>25. CASE Crash
  BY <1>25 DEF Crash, ProcessEnds
<1>26. CASE Tick
  BY <1>26 DEF Tick
<1>27. CASE UNCHANGED vars
  BY <1>27 DEF vars
<1> QED
  BY <1>1, <1>2, <1>3, <1>4, <1>5, <1>6, <1>7, <1>8, <1>9, <1>10, <1>11,
       <1>12, <1>13, <1>14, <1>15, <1>16, <1>17, <1>18, <1>19, <1>20, <1>21,
       <1>22, <1>23, <1>24, <1>25, <1>26, <1>27 DEF Next, LoopStep, RunStep,
       OpStep

-----------------------------------------------------------------------------
(* The inductive invariant *)

\* The initial state satisfies every part.
LEMMA IndInit == Init => IndInv
<1> SUFFICES ASSUME Init PROVE IndInv
  OBVIOUS
<1>1. Core
  BY CoreInit
<1>2. HandlesKept /\ RunningHasRun
  BY DEF Init, HandlesKept, RunningHasRun, Live, LoopAt, LoopWith, NoRunRecord
<1>3. OneShotOwed
  BY JobsAssumption
  DEF Init, OneShotOwed, LoopAt, LoopWith, NoRunRecord, Jobs
<1>4. CronArmed
  BY JobsAssumption
  DEF Init, CronArmed, CapturedTicks, CronStaysArmed, LoopAt, LoopWith,
      NoRunRecord, Jobs
<1>5. DeletedAtRestIsFinal /\ WakeupCovered
  BY DEF Init, DeletedAtRestIsFinal, WakeupCovered
<1> QED
  BY <1>1, <1>2, <1>3, <1>4, <1>5 DEF IndInv

\* Every step preserves it.
LEMMA IndStep == IndInv /\ [Next]_vars => IndInv'
  BY CoreStep, HandlesStep, RunningStep, OneShotStep, RestStep, ArmedStep,
     WakeupStep
  DEF IndInv

\* The inductive invariant holds in every reachable state.
THEOREM Inductive == Spec => []IndInv
  BY IndInit, IndStep, PTL DEF Spec

-----------------------------------------------------------------------------
(* The properties *)

\* Every variable keeps its type and every enabled row has a next_run_at.
THEOREM TypeCorrect == Spec => []TypeOK
<1>1. IndInv => TypeOK
  BY DEF IndInv, Core
<1> QED
  BY <1>1, Inductive, PTL

\* No lost wakeup: the waiting loop is never later than a job it should start,
\* unless a permit, a caller or a live run is about to wake it.
THEOREM NoLostWakeup == Spec => []WakeupCovered
<1>1. IndInv => WakeupCovered
  BY DEF IndInv
<1> QED
  BY <1>1, Inductive, PTL

\* An undeleted cron job is always armed for its next tick or earlier, through
\* crashes, restarts, failing statements and overlapping runs.
THEOREM CronNeverSkips == Spec => []CronStaysArmed
<1>1. IndInv => CronStaysArmed
  BY DEF IndInv, CronArmed
<1> QED
  BY <1>1, Inductive, PTL

\* A one-shot job is started at most once more than it was asked to run now.
THEOREM OneShotAtMostOnce == Spec => []OneShotNotRepeated
<1>1. IndInv => OneShotNotRepeated
  BY DEF IndInv, OneShotOwed, OneShotNotRepeated
<1> QED
  BY <1>1, Inductive, PTL

\* A delete that races with no older reading of the job is final.
THEOREM DeleteAtRestFinal == Spec => []DeletedAtRestIsFinal
<1>1. IndInv => DeletedAtRestIsFinal
  BY DEF IndInv
<1> QED
  BY <1>1, Inductive, PTL

\* When stop() has returned, no run is alive.
THEOREM StopDrains == Spec => []StopDrainsRuns
<1>1. IndInv => StopDrainsRuns
  BY JobsAssumption
  DEF IndInv, HandlesKept, Core, LoopShape, StopDrainsRuns
<1> QED
  BY <1>1, Inductive, PTL

\* After a graceful stop of a process in which no statement failed, no row says
\* Running.
THEOREM CleanStop == Spec => []CleanStopLeavesNoneRunning
<1>1. IndInv => CleanStopLeavesNoneRunning
  <2> SUFFICES ASSUME IndInv, phase = "stopped", boots = 1, faults = 0
               PROVE  \A j \in Jobs : status[j] # "Running"
    BY DEF CleanStopLeavesNoneRunning
  <2>1. loop.pc = "exited" /\ \A r \in Runs : ~Live(r)
    BY JobsAssumption DEF IndInv, HandlesKept, Core, LoopShape
  <2> QED
    BY <2>1 DEF IndInv, RunningHasRun, Live
<1> QED
  BY <1>1, Inductive, PTL

\* A due job stops being due only by being started, deleted, reloaded at
\* startup, or overwritten by the final write of an earlier run of it.
THEOREM DueWithdrawal == Spec => DueStaysDue
<1>1. IndInv /\ [Next]_vars => [DueKept]_vars
  BY DueStep DEF IndInv
<1> QED
  BY <1>1, Inductive, PTL DEF Spec, DueStaysDue, DueKept
=============================================================================
