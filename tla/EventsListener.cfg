SPECIFICATION ListenerSpec
CONSTANTS
  JobIds = {j1}
  NoJob = NoJob
  NumSelected = 2
  MaxEvents = 4
  MaxExports = 2
  MaxDrops = 1
CHECK_DEADLOCK FALSE
PROPERTIES NotRestarted TakenUnlessOvertaken AnsweredOrTimedOut
