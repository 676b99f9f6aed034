SPECIFICATION Spec
CONSTANTS
  OneShots = {o1}
  Crons = {c1}
  Clients = {u1}
  Runs = {r1, r2}
  Owner <- OneOwner
  Conversation <- OneConversation
  CronNext <- EvenTicks
  MaxTime = 2
  MaxBoots = 2
  MaxFaults = 1
  MaxAsks = 1
  RunOverdueOneShotsOnStartup = FALSE
  NoTime = NoTime
  NoJob = NoJob
  NoRun = NoRun
CONSTRAINT Scope
SYMMETRY Symmetry
INVARIANT CronStaysArmed
INVARIANT DeletedAtRestIsFinal
INVARIANT OneShotNotRepeated
INVARIANT StopDrainsRuns
INVARIANT IndInv
PROPERTY DueStaysDue
CHECK_DEADLOCK FALSE
