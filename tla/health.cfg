SPECIFICATION Spec
CONSTANTS
  PerRound = 2
  Rounds = 3
  Offsets <- ThreeRounds
  CountGap = 2
  PollGap = 3
  SnapshotAge = 1
  Required = 2
  PublicationGap = 2
  Boots = {b1, b2}
  NoBoot = NoBoot
  Horizon = 15
SYMMETRY BootSymmetry
INVARIANT TypeOK
INVARIANT StreakIsIndependent
INVARIANT ReadmissionRequired
PROPERTY QuarantineIsEarned
