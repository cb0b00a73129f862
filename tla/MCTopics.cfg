CONSTANTS
  Curated <- CuratedList
  Questions = {"q1", "q2"}
  Rooms = {r1}
  Warmer = warmer
  MaxPool = 1
  MaxBatch = 1
  LockTries = 2
  Queries = 2
  Attempts = 2
  Setups <- SetupSet
  Snapshots <- SnapshotSet
  MaxRounds = 1
  MaxFlights = 2
SPECIFICATION FairSpec
 
PROPERTIES AskedOnce ColdResolvesEnd
CHECK_DEADLOCK FALSE
