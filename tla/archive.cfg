SPECIFICATION FairSpec
CONSTANTS
  Consumers = {c1}
  Relays = {"other"}
  MaxFails = 1
  MaxRev = 1
INVARIANTS TypeOK ArchiveHoldsLastRevision SourceOutlivesReaders
PROPERTIES ReadersAvoidRetired CleanupFinishes
