CONSTANTS
  Loops = {l1, l2}
  Checkers = {g1, g2}
  NoLoop = NoLoop
  NoChecker = NoChecker
  MaxFrames = 2
SPECIFICATION FairSpec
INVARIANTS
  SendHasReceiver
  RunningCheckerIsCancellable
PROPERTIES
  HeartbeatHandled
  CancelledCheckerStops
  SilenceLogsOut
