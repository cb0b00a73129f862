\* A match nobody is connected to; the horizon leaves room for the longest one.
CONSTANTS
  p1 = p1
  p2 = p2
  c1 = c1
  c2 = c2
  Participants = {p1, p2}
  NoOne = NoOne
  MatchIds = {m1}
  MinPlayers = 2
  MaxPlayers = 2
  LastRound = 1
  ANSWER_MS = 1
  READ_PAUSE_MS = 1
  VOTE_MS = 1
  DEBATE_MS = 1
  ACCUSATION_MS = 1
  RESPONSE_MS = 1
  FOLLOWUP_MS = 1
  Runtimes = {r1}
  CommandIds = {c1, c2}
  MaxReceipts = 2
  Candidates = 2
  TopicBackoffMs = 1
  TopicMaxBackoffMs = 1
  Early = 0
  Calls <- PlayCalls
  Seatings <- OneSeating
  Contents = {TRUE, FALSE}
  MaxRequests = 0
  MaxQueue = 0
  StartUntil = 1
  CrashUntil = 1
  SetBack = 0
  Horizon = 5
SPECIFICATION FairSpecReady
PROPERTIES MatchKeepsTime
