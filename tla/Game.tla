--------------------------------- MODULE Game ---------------------------------
(***************************************************************************)
(* One match as the server's rules see it: src/game/transition.ts driven   *)
(* by the commands of players, AI seats and the system and by the passage  *)
(* of time.  A step is one call of transition() or advanceTime(): the      *)
(* abstract machine that the room runtime is meant to implement.           *)
(***************************************************************************)
EXTENDS GameRules

CONSTANTS
  LobbyUntil,     \* bound: tables fill and topics resolve no later than this
  Horizon,        \* bound: no call is made later than this
  LobbyRevisions, \* bound: players change their minds about ready up to this revision
  Contents        \* bound: the outcomes of the content checks that are tried

ASSUME BoundsAssumption ==
  /\ LobbyUntil \in Nat /\ Horizon \in Nat /\ LobbyUntil <= Horizon
  /\ LobbyRevisions \in Nat
  /\ Contents \subseteq BOOLEAN

VARIABLE game

\* Time is counted from the creation of the room.
Init == \E m \in MatchIds : game = CreateGame(m, 0)

(***************************************************************************)
(* Every call begins by advancing time to its own moment; "current" is the *)
(* game after that.  A command is then decided on it.  A caller's token    *)
(* comes from a view it was sent: the current window or an earlier one,    *)
(* and every earlier one is as stale as the previous.                      *)
(***************************************************************************)
SeenTokens == {game.phaseToken, game.phaseToken - 1} \cap Nat

Submit(current, now, actor, command) ==
  \E m \in MatchIds, token \in SeenTokens :
    game' = Decide(current, actor,
              [matchId |-> m, phaseToken |-> token, command |-> command], now).state

\* A seat is played by its participant or by the AI.
Players == {Participant(p) : p \in Participants} \cup {AiPlayer(i) : i \in SeatNo}

JoinRoom(current, now) ==
  /\ now <= LobbyUntil
  /\ \E p \in Participants : Submit(current, now, Participant(p), [type |-> "join"])

Ready(current, now) ==
  /\ now <= LobbyUntil
  /\ game.revision < LobbyRevisions
  /\ \E p \in Participants, ready \in BOOLEAN :
       Submit(current, now, Participant(p), [type |-> "ready", ready |-> ready])

\* The runtime resolves a topic only while the room is preparing.
Resolve(current, now) ==
  /\ game.phase = "preparing"
  /\ now <= LobbyUntil
  /\ \E seats \in AssignSeats(game.members), valid \in Contents :
       Submit(current, now, System,
              [type |-> "resolve-topic", valid |-> valid, seats |-> seats])

GiveAnswer(current, now) ==
  \E actor \in Players, round \in Round, valid \in Contents :
    Submit(current, now, actor, [type |-> "answer", round |-> round, valid |-> valid])

CastVote(current, now) ==
  \E actor \in Players, target \in SeatNo :
    Submit(current, now, actor, [type |-> "vote", target |-> target])

MakeAccusation(current, now) ==
  \E actor \in Players, target \in SeatNo, valid \in Contents :
    Submit(current, now, actor, [type |-> "accuse", target |-> target, valid |-> valid])

Speech == {"respond", "followup", "skip-followup"}

Reply(current, now) ==
  \E actor \in Players, type \in Speech, valid \in Contents :
    Submit(current, now, actor, [type |-> type, valid |-> valid])

\* sync(), a wake timer or a reopened room: time passes and nothing else happens.
Tick(current) == game' = current

Step(current, now) ==
  \/ JoinRoom(current, now)
  \/ Ready(current, now)
  \/ Resolve(current, now)
  \/ GiveAnswer(current, now)
  \/ CastVote(current, now)
  \/ MakeAccusation(current, now)
  \/ Reply(current, now)
  \/ Tick(current)

Time == game.lastNow..Horizon

Next == \E now \in Time : Step(AdvanceTime(game, now), now)

Spec == Init /\ [][Next]_game

-----------------------------------------------------------------------------
(* Invariants                                                              *)

TypeOK == game \in GameState

(***************************************************************************)
(* Whatever sequence of calls produced it, the state passes the validator  *)
(* that a stored room must pass to be opened again: a game the core can    *)
(* reach is never refused as CORRUPT_ROOM_RECORD after a restart.          *)
(***************************************************************************)
Reloadable == ValidState(game)

(***************************************************************************)
(* Deadlines replayed late, after an outage or a restart, give the state   *)
(* that replaying them on time would have given.                           *)
(***************************************************************************)
CatchUpIsPrompt ==
  \A early \in Time : \A late \in early..Horizon :
    AdvanceTime(AdvanceTime(game, early), late) = AdvanceTime(game, late)

(***************************************************************************)
(* No sequence of commands stretches a phase: a round ends within its time *)
(* and one reading pause, the whole debate within DEBATE_MS and the vote   *)
(* within VOTE_MS of their beginning.                                      *)
(***************************************************************************)
PhaseIsBounded ==
  /\ game.phase = "answering" =>
       game.deadlineAt <= game.phaseAt + ANSWER_MS + READ_PAUSE_MS
  /\ game.phase = "debating" => game.deadlineAt <= game.phaseAt + DEBATE_MS
  /\ game.phase = "voting" => game.deadlineAt <= game.phaseAt + VOTE_MS

(***************************************************************************)
(* The vote opens only when every seat has had its turn as accuser or when *)
(* the debate's total time is used up, and never after that time.          *)
(***************************************************************************)
DebateIsHeardOut ==
  game.phase = "voting" =>
    /\ game.phaseAt <= game.debate.globalDeadlineAt
    /\ \/ game.debate.turnIndex = Len(game.seats)
       \/ game.phaseAt = game.debate.globalDeadlineAt

(***************************************************************************)
(* The actions a participant's view lists are exactly the kinds of command *)
(* the rules would take from that participant now.                         *)
(***************************************************************************)
Said ==
  [type : {"skip-followup"}]
  \cup [type : {"respond", "followup"}, valid : {TRUE}]
  \cup [type : {"answer"}, round : Round, valid : {TRUE}]
  \cup [type : {"vote", "accuse"}, target : SeatNo, valid : {TRUE}]

AcceptedKinds(s, p) ==
  {c.type : c \in {d \in [type : {"ready"}, ready : {TRUE}] \cup Said : Accepts(s, Participant(p), d)}}

OfferedIsAccepted ==
  \A p \in Participants : Offered(game, p) = AcceptedKinds(game, p)

(***************************************************************************)
(* The humans win only if they vote out exactly the AI seats, which takes  *)
(* the vote of every one of them: one human who abstains, or two who agree *)
(* on a seat, hand the game to the shadows.                                *)
(***************************************************************************)
HumanWinIsExact ==
  game.result.winner = "human" =>
    /\ game.result.eliminated = SeatsOf(game, "ai")
    /\ \A h \in SeatsOf(game, "human") : game.votes[h] \in SeatsOf(game, "ai")
    /\ \A g, h \in SeatsOf(game, "human") : game.votes[g] = game.votes[h] => g = h

(***************************************************************************)
(* Nobody can tell the roles before they are revealed: were the others     *)
(* seated in any other way, whoever watches would be shown the same now,   *)
(* after any time that passes, and after whatever a seat says or votes.    *)
(***************************************************************************)
Player(s, i) == IF s.seats[i].role = "ai" THEN AiPlayer(i) ELSE Participant(s.seats[i].participantId)

Taken(s, i, command) == Accepts(s, Player(s, i), command)

After(s, i, command) ==
  Decide(s, Player(s, i),
         [matchId |-> s.matchId, phaseToken |-> s.phaseToken, command |-> command], s.lastNow).state

\* The watchers who know that the game is not the other one, if any, know it from their own seat.
Watchers(s, seats) ==
  {NoOne} \cup {p \in s.members : \A i \in SeatIds(s) :
                  p \in {s.seats[i].participantId, seats[i].participantId} => seats[i] = s.seats[i]}

RolesStayHidden ==
  Started(game) /\ game.phase # "revealed" =>
    \A seats \in AssignSeats(game.members) :
      LET other == [game EXCEPT !.seats = seats]
          unaware == Watchers(game, seats)
          Alike(s, t) == s.phase # "revealed" => \A p \in unaware : View(s, p) = View(t, p)
      IN /\ Alike(game, other)
         /\ \A now \in Time : Alike(AdvanceTime(game, now), AdvanceTime(other, now))
         /\ \A i \in SeatIds(game), command \in Said :
              Taken(game, i, command) \/ Taken(other, i, command) =>
                Alike(After(game, i, command), After(other, i, command))

-----------------------------------------------------------------------------
(* Action properties                                                       *)

\* The window a phase token stands for: one phase, round, accuser and step.
Window(s) == <<s.phase, s.round, s.debate.turnIndex, s.debate.step>>

(***************************************************************************)
(* A phase token names one window for good: while the token stays the      *)
(* window stays, and a new window always has a larger token, so that a     *)
(* command written for one window can never land in another.               *)
(***************************************************************************)
TokenNamesWindow ==
  [][IF game'.phaseToken = game.phaseToken THEN Window(game') = Window(game)
     ELSE game'.phaseToken > game.phaseToken]_game

(***************************************************************************)
(* Nothing is taken back: a match only moves forward through its windows,  *)
(* its clock and its log never run backwards, its table is fixed once it   *)
(* is set, and an answer or a vote, whoever gave it, is never replaced.    *)
(***************************************************************************)
NothingIsTakenBack ==
  [][/\ Progress(game') >= Progress(game)
     /\ game'.lastNow >= game.lastNow
     /\ game'.loggedAt >= game.loggedAt
     /\ game.phase # "lobby" => game'.members = game.members
     /\ Started(game) => game'.seats = game.seats
     /\ \A r \in Round, i \in SeatNo :
          game.answers[r][i] # "none" => game'.answers[r][i] = game.answers[r][i]
     /\ \A i \in SeatNo : game.votes[i] # NotVoted => game'.votes[i] = game.votes[i]]_game

(***************************************************************************)
(* Subscribers are sent a view only when the revision changed, so every    *)
(* change that a view could show takes a new revision.                     *)
(***************************************************************************)
VisibleChangeIsNumbered ==
  [][\/ game'.revision > game.revision
     \/ game' = [game EXCEPT !.lastNow = game'.lastNow]]_game

(***************************************************************************)
(* A seat is given a default answer only after its full ANSWER_MS: neither *)
(* the reading pause nor a fast table takes time from a slow player.       *)
(***************************************************************************)
NoEarlyDefault ==
  [][\A i \in SeatNo :
       /\ game.phase = "answering"
       /\ game.answers[game.round][i] = "none"
       /\ game'.answers[game.round][i] = "default"
       => game'.lastNow >= game.phaseAt + ANSWER_MS]_game
=============================================================================
