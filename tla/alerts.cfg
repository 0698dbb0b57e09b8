SPECIFICATION FairSpec
CONSTANTS
  t = t
  e = e
  Jobs = {t, e}
  Trains = {t}
  MaxFaults = 2
  MaxAlerts = 12
INVARIANT ErrorIsAnnounced
PROPERTIES RecoveryIsAnnounced CompletionIsAnnounced ImplementsOutbox
CHECK_DEADLOCK FALSE
