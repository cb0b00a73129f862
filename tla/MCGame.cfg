\* A table of two that three try to join, two rounds, with time to be early or late in every phase.
CONSTANTS
  Participants = {p1, p2, p3}
  NoOne = NoOne
  MatchIds = {m1}
  MinPlayers = 2
  MaxPlayers = 2
  LastRound = 2
  ANSWER_MS = 2
  READ_PAUSE_MS = 1
  VOTE_MS = 1
  DEBATE_MS = 2
  ACCUSATION_MS = 1
  RESPONSE_MS = 2
  FOLLOWUP_MS = 1
  LobbyUntil = 0
  Horizon = 4
  LobbyRevisions = 4
  Contents = {TRUE, FALSE}
SPECIFICATION Spec
SYMMETRY Interchangeable
INVARIANTS TypeOK Reloadable CatchUpIsPrompt PhaseIsBounded DebateIsHeardOut OfferedIsAccepted HumanWinIsExact RolesStayHidden
PROPERTIES TokenNamesWindow NothingIsTakenBack VisibleChangeIsNumbered NoEarlyDefault
