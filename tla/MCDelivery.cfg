\* Up to two connections of a page, two sessions, one of them from matchmaking, two commands.
CONSTANTS
  Sessions = {s1, s2}
  NoSession = NoSession
  Matched = {s1}
  MaxCommands = 2
  MaxAttempts = 2
  MaxConns = 2
  MaxRevision = 1
SPECIFICATION FairSpec
CONSTRAINT OneExtra
INVARIANT CommandIsAccountedFor
PROPERTIES CommandsInOrder ScreenNeverGoesBack BusyEnds
\* A page that was thrown out and may not be loaded again stops.
CHECK_DEADLOCK FALSE
