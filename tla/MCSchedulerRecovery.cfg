SPECIFICATION Spec
CONSTANTS
  OneShots = {o1}
  Crons = {}
  Clients = {u1}
  Runs = {r1}
  Owner <- OneOwner
  Conversation <- OneConversation
  CronNext <- EvenTicks
  MaxTime = 1
  MaxBoots = 2
  MaxFaults = 0
  MaxAsks = 0
  RunOverdueOneShotsOnStartup = TRUE
  NoTime = NoTime
  NoJob = NoJob
  NoRun = NoRun
SYMMETRY Symmetry
INVARIANT InterruptedRunIsRecovered
CHECK_DEADLOCK FALSE
