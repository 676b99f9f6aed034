SPECIFICATION FairSpec
CONSTANTS
  OneShots = {o1}
  Crons = {c1}
  Clients = {u1}
  Runs = {r1}
  Owner <- OneOwner
  Conversation <- OneConversation
  CronNext <- TwoTicks
  MaxTime = 1
  MaxBoots = 1
  MaxFaults = 1
  MaxAsks = 0
  RunOverdueOneShotsOnStartup = TRUE
  NoTime = NoTime
  NoJob = NoJob
  NoRun = NoRun
PROPERTY DueJobIsTaken
PROPERTY StopTerminates
CHECK_DEADLOCK FALSE
