SPECIFICATION Spec
CONSTANTS
  OneShots = {}
  Crons = {c1}
  Clients = {u1}
  Runs = {r1}
  Owner <- OneOwner
  Conversation <- OneConversation
  CronNext <- EvenTicks
  MaxTime = 2
  MaxBoots = 1
  MaxFaults = 0
  MaxAsks = 0
  RunOverdueOneShotsOnStartup = TRUE
  NoTime = NoTime
  NoJob = NoJob
  NoRun = NoRun
SYMMETRY Symmetry
INVARIANT DeletedIsFinal
CHECK_DEADLOCK FALSE
