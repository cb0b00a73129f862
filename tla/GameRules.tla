------------------------------ MODULE GameRules ------------------------------
(***************************************************************************)
(* The game core of the round table as pure operators on a game state: a   *)
(* record with the fields of GameState in src/game/model.ts.  Every        *)
(* operator takes a state and returns a state, as the functions of         *)
(* src/game/transition.ts do on their clone.                               *)
(*                                                                         *)
(* Abstractions: a seat is its number (seat s3 is 3); texts are reduced to *)
(* whether they pass the content checks ("valid" in a command) and to      *)
(* whether an answer is the player's own or a default; the log is reduced  *)
(* to the time of its newest entry and of its newest phase entry.          *)
(***************************************************************************)
EXTENDS Integers, Sequences, FiniteSets

CONSTANTS
  Participants,    \* who may sit at the table
  NoOne,           \* the owner of a seat played by the AI
  MatchIds,        \* identifiers of matches
  MinPlayers, MaxPlayers,                  \* PLAYER_LIMITS
  LastRound,                               \* number of answering rounds
  ANSWER_MS, READ_PAUSE_MS, VOTE_MS, DEBATE_MS,
  ACCUSATION_MS, RESPONSE_MS, FOLLOWUP_MS  \* DEBATE_STEP_MS

ASSUME ParticipantsAssumption == NoOne \notin Participants

\* With fewer than two players there would be no human seat left beside the shadow.
ASSUME PlayersAssumption ==
  /\ MinPlayers \in Nat /\ MaxPlayers \in Nat
  /\ 2 <= MinPlayers /\ MinPlayers <= MaxPlayers

ASSUME RoundsAssumption == LastRound \in Nat \ {0}

\* The first accusation deadline is not capped by the debate's: it must fit.
ASSUME TimesAssumption ==
  /\ ANSWER_MS \in Nat \ {0} /\ READ_PAUSE_MS \in Nat \ {0}
  /\ VOTE_MS \in Nat \ {0}   /\ DEBATE_MS \in Nat \ {0}
  /\ ACCUSATION_MS \in Nat \ {0} /\ RESPONSE_MS \in Nat \ {0}
  /\ FOLLOWUP_MS \in Nat \ {0}
  /\ ACCUSATION_MS <= DEBATE_MS

-----------------------------------------------------------------------------
(* Data                                                                    *)

Role == {"human", "shadow", "ai"}
Phase == {"lobby", "preparing", "answering", "debating", "voting", "revealed"}
DebateStep == {"accusation", "response", "followup"}
Round == 1..LastRound

ShadowCount(players) == IF players <= 3 THEN 1 ELSE 2

RoleCounts(players) ==
  [human  |-> players - ShadowCount(players),
   shadow |-> ShadowCount(players),
   ai     |-> players - ShadowCount(players)]

SeatCount(players) == 2 * players - ShadowCount(players)

MaxSeats == SeatCount(MaxPlayers)
SeatNo == 1..MaxSeats

Seat == [role : Role, participantId : Participants \cup {NoOne}]

NoTime == -1          \* an undefined deadline
NoSeat == 0           \* an undefined or null seat
NotVoted == -1        \* no vote of the seat yet; a vote for NoSeat is a null vote

Answer == {"none", "own", "default"}

Debate == [turnIndex : Nat, step : DebateStep, targetSeat : 0..MaxSeats,
           globalDeadlineAt : Nat \cup {NoTime}]
Result == [winner : {"none", "human", "shadow"}, eliminated : SUBSET SeatNo]

NoDebate == [turnIndex |-> 0, step |-> "accusation", targetSeat |-> NoSeat,
             globalDeadlineAt |-> NoTime]
NoResult == [winner |-> "none", eliminated |-> {}]

SeatIds(s) == 1..Len(s.seats)
SeatsOf(s, role) == {i \in SeatIds(s) : s.seats[i].role = role}

GameState ==
  [matchId : MatchIds, phase : Phase, phaseToken : Nat, revision : Nat,
   lastNow : Nat, members : SUBSET Participants, ready : SUBSET Participants,
   seats : Seq(Seat), round : 0..LastRound,
   answers : [Round -> [SeatNo -> Answer]],
   debate : Debate, deadlineAt : Nat \cup {NoTime},
   votes : [SeatNo -> {NotVoted} \cup 0..MaxSeats], result : Result,
   loggedAt : Nat, phaseAt : Nat]

CreateGame(matchId, now) ==
  [matchId |-> matchId, phase |-> "lobby", phaseToken |-> 0, revision |-> 0,
   lastNow |-> now, members |-> {}, ready |-> {}, seats |-> <<>>, round |-> 0,
   answers |-> [r \in Round |-> [i \in SeatNo |-> "none"]],
   debate |-> NoDebate, deadlineAt |-> NoTime,
   votes |-> [i \in SeatNo |-> NotVoted], result |-> NoResult,
   loggedAt |-> now, phaseAt |-> now]

-----------------------------------------------------------------------------
(* Phases                                                                  *)

Logged(s, at) == [s EXCEPT !.loggedAt = at]

EnterPhase(s, next, at, deadlineAt) ==
  [s EXCEPT !.phase = next, !.phaseToken = @ + 1, !.deadlineAt = deadlineAt,
            !.loggedAt = at, !.phaseAt = at]

BeginRound(s, round, at) ==
  EnterPhase([s EXCEPT !.round = round], "answering", at, at + ANSWER_MS)

HoldRound(s, at) == [s EXCEPT !.deadlineAt = at + READ_PAUSE_MS]

BeginDebate(s, at) ==
  EnterPhase([s EXCEPT !.debate = [NoDebate EXCEPT !.globalDeadlineAt = at + DEBATE_MS]],
             "debating", at, at + ACCUSATION_MS)

EndRound(s, at) ==
  IF s.round < LastRound THEN BeginRound(s, s.round + 1, at) ELSE BeginDebate(s, at)

BeginVoting(s, at) == EnterPhase(s, "voting", at, at + VOTE_MS)

\* Mutant: the shadows' votes count too.
EliminatedByPlayers(seats, votes) ==
  {votes[i] : i \in {v \in 1..Len(seats) :
      seats[v].role # "ai" /\ votes[v] \in 1..Len(seats) /\ votes[v] # v}}

\* The humans' votes that count, as a set of seats voted out at the same time.
Eliminated(seats, votes) ==
  {votes[i] : i \in {v \in 1..Len(seats) :
      /\ seats[v].role = "human"
      /\ votes[v] \in 1..Len(seats)
      /\ votes[v] # v}}

Settle(seats, votes) ==
  [winner |-> IF \A i \in 1..Len(seats) :
                    seats[i].role = "ai" => i \in Eliminated(seats, votes)
              THEN "human" ELSE "shadow",
   eliminated |-> Eliminated(seats, votes)]

Finish(s, at) ==
  EnterPhase([s EXCEPT !.result = Settle(s.seats, s.votes)], "revealed", at, NoTime)

StepMs(step) ==
  CASE step = "accusation" -> ACCUSATION_MS
    [] step = "response"   -> RESPONSE_MS
    [] step = "followup"   -> FOLLOWUP_MS

NextStep(debate) ==
  CASE debate.step = "accusation" -> [debate EXCEPT !.step = "response"]
    [] debate.step = "response"   -> [debate EXCEPT !.step = "followup"]
    [] debate.step = "followup"   -> [debate EXCEPT !.turnIndex = @ + 1,
                                         !.step = "accusation", !.targetSeat = NoSeat]

Earlier(a, b) == IF a <= b THEN a ELSE b

\* Mutant: the last accuser is left out.
NextDebateShort(s, at) ==
  LET debate == NextStep(s.debate)
      moved  == [s EXCEPT !.debate = debate]
  IN IF debate.turnIndex = Len(s.seats) - 1 THEN BeginVoting(moved, at)
     ELSE [moved EXCEPT !.phaseToken = @ + 1,
             !.deadlineAt = Earlier(at + StepMs(debate.step), debate.globalDeadlineAt)]

\* Mutant: a new step keeps the token of the previous one.
NextDebateSameToken(s, at) ==
  LET debate == NextStep(s.debate)
      moved  == [s EXCEPT !.debate = debate]
  IN IF debate.turnIndex = Len(s.seats) THEN BeginVoting(moved, at)
     ELSE [moved EXCEPT
             !.deadlineAt = Earlier(at + StepMs(debate.step), debate.globalDeadlineAt)]

NextDebate(s, at) ==
  LET debate == NextStep(s.debate)
      moved  == [s EXCEPT !.debate = debate]
  IN IF debate.turnIndex = Len(s.seats) THEN BeginVoting(moved, at)
     ELSE [moved EXCEPT !.phaseToken = @ + 1,
             !.deadlineAt = Earlier(at + StepMs(debate.step), debate.globalDeadlineAt)]

\* turnIndex counts from 0, seats from 1.
Accuser(s) == s.debate.turnIndex + 1

-----------------------------------------------------------------------------
(* Time: every expired deadline is replayed at its own time                *)

Due(s, now) == s.deadlineAt # NoTime /\ now >= s.deadlineAt

FillAnswers(s) ==
  [s EXCEPT !.answers[s.round] =
     [i \in SeatNo |-> IF i \in SeatIds(s) /\ @[i] = "none" THEN "default" ELSE @[i]]]

ExpireAnswering(s, at) == EndRound(FillAnswers(s), at)

ExpireDebating(s, at) ==
  IF at >= s.debate.globalDeadlineAt THEN BeginVoting(s, at)
  ELSE IF s.debate.step = "accusation"
       THEN NextDebate(Logged([s EXCEPT !.debate.targetSeat =
                                  (Accuser(s) % Len(s.seats)) + 1], at), at)
       ELSE NextDebate(Logged(s, at), at)

\* Mutant: the seats that voted abstain too.
AbstainEverybody(s) ==
  [s EXCEPT !.votes = [i \in SeatNo |-> IF i \in SeatIds(s) THEN NoSeat ELSE @[i]]]

AbstainAll(s) ==
  [s EXCEPT !.votes = [i \in SeatNo |->
      IF i \in SeatIds(s) /\ @[i] = NotVoted THEN NoSeat ELSE @[i]]]

\* Mutant: seats that did not vote get no abstention.
ExpireVotingSilent(s, at) == Finish(s, at)

ExpireVoting(s, at) == Finish(AbstainAll(s), at)

\* Mutant: a deadline is replayed at the time of the call.
ExpireLate(s) ==
  LET at == s.lastNow
      next == CASE s.phase = "answering" -> ExpireAnswering(s, at)
                [] s.phase = "debating"  -> ExpireDebating(s, at)
                [] s.phase = "voting"    -> ExpireVoting(s, at)
  IN [next EXCEPT !.revision = @ + 1]

\* Mutant: an expired deadline takes no revision.
ExpireSilently(s) ==
  LET at == s.deadlineAt
  IN CASE s.phase = "answering" -> ExpireAnswering(s, at)
       [] s.phase = "debating"  -> ExpireDebating(s, at)
       [] s.phase = "voting"    -> ExpireVoting(s, at)

\* One iteration of the loop of advanceTime.
Expire(s) ==
  LET at == s.deadlineAt
      next == CASE s.phase = "answering" -> ExpireAnswering(s, at)
                [] s.phase = "debating"  -> ExpireDebating(s, at)
                [] s.phase = "voting"    -> ExpireVoting(s, at)
  IN [next EXCEPT !.revision = @ + 1]

ExpireIfDue(now) == [s \in GameState |-> IF Due(s, now) THEN Expire(s) ELSE s]

\* The loop ends within this many iterations: one per window still ahead.
MaxExpiries == LastRound + 3 * MaxSeats + 1

\* run[n] is the state after n iterations.
Expired(s, now) ==
  LET run[n \in Nat] == IF n = 0 THEN s ELSE ExpireIfDue(now)[run[n - 1]]
  IN run[MaxExpiries]

AdvanceTime(s, now) == Expired([s EXCEPT !.lastNow = now], now)

-----------------------------------------------------------------------------
(* Commands.  An actor is the trusted identity the server attaches: a      *)
(* participant, the AI of one seat, the system or a spectator.             *)

Participant(p) == [kind |-> "participant", id |-> p]
AiPlayer(i) == [kind |-> "ai", seat |-> i]
System == [kind |-> "system"]
Spectator == [kind |-> "spectator"]

ActingSeats(s, actor) ==
  {i \in SeatIds(s) :
     \/ actor.kind = "participant" /\ s.seats[i].participantId = actor.id
     \/ actor.kind = "ai" /\ s.seats[i].role = "ai" /\ i = actor.seat}

ActingSeat(s, actor) == CHOOSE i \in ActingSeats(s, actor) : TRUE

ValidSeats(s, seats) ==
  LET counts  == RoleCounts(Cardinality(s.members))
      players == {i \in 1..Len(seats) : seats[i].role # "ai"}
  IN /\ Len(seats) = counts.human + counts.shadow + counts.ai
     /\ \A i \in 1..Len(seats) : seats[i].role = "ai" => seats[i].participantId = NoOne
     /\ \A i \in players : seats[i].participantId \in s.members
     /\ \A i, j \in players : seats[i].participantId = seats[j].participantId => i = j
     /\ \A role \in Role :
          Cardinality({i \in 1..Len(seats) : seats[i].role = role}) = counts[role]
     /\ {seats[i].participantId : i \in players} = s.members

IsTarget(s, source, seat) == seat \in SeatIds(s) /\ seat # source

MayJoin(s, actor) ==
  /\ s.phase = "lobby"
  /\ actor.kind = "participant"
  /\ actor.id \notin s.members
  /\ Cardinality(s.members) < MaxPlayers

MayReady(s, actor) ==
  /\ s.phase = "lobby"
  /\ actor.kind = "participant"
  /\ actor.id \in s.members

MayResolve(s, actor, c) ==
  /\ actor.kind = "system"
  /\ s.phase = "preparing"
  /\ c.valid
  /\ ValidSeats(s, c.seats)

MayAnswer(s, seat, c) ==
  /\ s.phase = "answering"
  /\ c.round = s.round
  /\ s.answers[s.round][seat] = "none"
  /\ c.valid

MayVote(s, seat, c) ==
  /\ s.phase = "voting"
  /\ s.votes[seat] = NotVoted
  /\ IsTarget(s, seat, c.target)

MayAccuse(s, seat, c) ==
  /\ s.phase = "debating"
  /\ s.debate.step = "accusation"
  /\ seat = Accuser(s)
  /\ IsTarget(s, seat, c.target)
  /\ c.valid

\* Mutant: the accuser responds to itself.
MayRespondAccuser(s, seat, c) ==
  s.phase = "debating" /\ s.debate.step = "response" /\ seat = Accuser(s) /\ c.valid

MayRespond(s, seat, c) ==
  /\ s.phase = "debating"
  /\ s.debate.step = "response"
  /\ seat = s.debate.targetSeat
  /\ c.valid

MayFollowUp(s, seat) ==
  /\ s.phase = "debating"
  /\ s.debate.step = "followup"
  /\ seat = Accuser(s)

\* The requireRule calls of apply: whether a command is taken, not its error code.
Accepts(s, actor, c) ==
  \/ c.type = "join" /\ MayJoin(s, actor)
  \/ c.type = "ready" /\ MayReady(s, actor)
  \/ c.type = "resolve-topic" /\ MayResolve(s, actor, c)
  \/ /\ ActingSeats(s, actor) # {}
     /\ LET seat == ActingSeat(s, actor) IN
        \/ c.type = "answer" /\ MayAnswer(s, seat, c)
        \/ c.type = "vote" /\ MayVote(s, seat, c)
        \/ c.type = "accuse" /\ MayAccuse(s, seat, c)
        \/ c.type = "respond" /\ MayRespond(s, seat, c)
        \/ c.type = "followup" /\ MayFollowUp(s, seat) /\ c.valid
        \/ c.type = "skip-followup" /\ MayFollowUp(s, seat)

Join(s, p) == [s EXCEPT !.members = @ \cup {p}]

SetReady(s, p, ready, now) ==
  LET marked == [s EXCEPT !.ready = IF ready THEN @ \cup {p} ELSE @ \ {p}]
  IN IF Cardinality(marked.members) >= MinPlayers /\ marked.members \subseteq marked.ready
     THEN EnterPhase(marked, "preparing", now, NoTime) ELSE marked

ResolveTopic(s, seats, now) == BeginRound([s EXCEPT !.seats = seats], 1, now)

\* Mutant: the reading pause begins with the first answer.
AddAnswerHolding(s, seat, now) ==
  HoldRound(Logged([s EXCEPT !.answers[s.round][seat] = "own"], now), now)

\* Mutant: every answer restarts the round's clock.
AddAnswerSliding(s, seat, now) ==
  LET t == Logged([s EXCEPT !.answers[s.round][seat] = "own",
                            !.deadlineAt = now + ANSWER_MS], now)
  IN IF \A i \in SeatIds(t) : t.answers[t.round][i] # "none" THEN HoldRound(t, now) ELSE t

AddAnswer(s, seat, now) ==
  LET t == Logged([s EXCEPT !.answers[s.round][seat] = "own"], now)
  IN IF \A i \in SeatIds(t) : t.answers[t.round][i] # "none" THEN HoldRound(t, now) ELSE t

AddVote(s, seat, target, now) ==
  LET t == Logged([s EXCEPT !.votes[seat] = target], now)
  IN IF \A i \in SeatIds(t) : t.votes[i] # NotVoted THEN Finish(t, now) ELSE t

\* Mutant: a seat's number is taken for its index.
AccuseNext(s, target, now) ==
  NextDebate(Logged([s EXCEPT !.debate.targetSeat = target + 1], now), now)

Accuse(s, target, now) ==
  NextDebate(Logged([s EXCEPT !.debate.targetSeat = target], now), now)

Speak(s, now) == NextDebate(Logged(s, now), now)

Apply(s, actor, c, now) ==
  CASE c.type = "join"          -> Join(s, actor.id)
    [] c.type = "ready"         -> SetReady(s, actor.id, c.ready, now)
    [] c.type = "resolve-topic" -> ResolveTopic(s, c.seats, now)
    [] c.type = "answer"        -> AddAnswer(s, ActingSeat(s, actor), now)
    [] c.type = "vote"          -> AddVote(s, ActingSeat(s, actor), c.target, now)
    [] c.type = "accuse"        -> Accuse(s, c.target, now)
    [] c.type \in {"respond", "followup", "skip-followup"} -> Speak(s, now)

\* The outcome of a command on an already advanced state.
Decide(current, actor, envelope, now) ==
  IF /\ envelope.matchId = current.matchId
     /\ envelope.phaseToken = current.phaseToken
     /\ Accepts(current, actor, envelope.command)
  THEN [ok |-> TRUE, state |-> [Apply(current, actor, envelope.command, now)
                                  EXCEPT !.revision = @ + 1]]
  ELSE [ok |-> FALSE, state |-> current]

Transition(input, actor, envelope, now) ==
  Decide(AdvanceTime(input, now), actor, envelope, now)

-----------------------------------------------------------------------------
(* What a player is offered                                                *)

\* project(): the actions in a participant's view.
Offered(s, p) ==
  LET self    == ActingSeats(s, Participant(p))
      unanswered == {i \in self : s.answers[s.round][i] = "none"}
      unvoted    == {i \in self : s.votes[i] = NotVoted}
  IN (IF s.phase = "lobby" /\ p \in s.members THEN {"ready"} ELSE {})
     \cup (IF s.phase = "answering" /\ unanswered # {} THEN {"answer"} ELSE {})
     \cup (IF s.phase = "voting" /\ unvoted # {} THEN {"vote"} ELSE {})
     \cup (IF s.phase # "debating" THEN {}
           ELSE CASE s.debate.step = "accusation" /\ Accuser(s) \in self -> {"accuse"}
                  [] s.debate.step = "response" /\ s.debate.targetSeat \in self -> {"respond"}
                  [] s.debate.step = "followup" /\ Accuser(s) \in self ->
                       {"followup", "skip-followup"}
                  [] OTHER -> {})

\* Mutant: the seats are shown as they are stored.
SeatsShownWhole(s) == s.seats

\* A view numbers the seats and does not say who sits there.
SeatsShown(s) == SeatIds(s)

(***************************************************************************)
(* project(): what a participant is sent, or a spectator (NoOne).  A field *)
(* that the view leaves undefined is an empty set; the topic, which only   *)
(* depends on the phase and the round, is left out.                        *)
(***************************************************************************)
View(s, p) ==
  LET self    == IF p = NoOne THEN {} ELSE ActingSeats(s, Participant(p))
      When(shown, value) == IF shown THEN {value} ELSE {}
  IN [matchId |-> s.matchId, revision |-> s.revision, phaseToken |-> s.phaseToken,
      phase |-> s.phase, serverNow |-> s.lastNow, deadlineAt |-> s.deadlineAt, round |-> s.round,
      lobby   |-> When(s.phase = "lobby",
                       <<Cardinality(s.members), Cardinality(s.ready), {p} \cap s.members, {p} \cap s.ready>>),
      self    |-> {<<i, s.seats[i].role>> : i \in self},
      seats   |-> SeatsShown(s),
      answers |-> s.answers, votes |-> s.votes, log |-> <<s.loggedAt, s.phaseAt>>,
      debate  |-> When(s.phase = "debating", <<s.debate, Accuser(s)>>),
      result  |-> When(s.phase = "revealed", <<s.result, [i \in SeatIds(s) |-> s.seats[i].role]>>),
      actions |-> IF p = NoOne THEN {} ELSE Offered(s, p)]

-----------------------------------------------------------------------------
(* Seat assignment: every outcome of the two shuffles                      *)

Seating(owner, shadows) ==
  [i \in DOMAIN owner |->
     [role |-> IF owner[i] = NoOne THEN "ai"
               ELSE IF owner[i] \in shadows THEN "shadow" ELSE "human",
      participantId |-> owner[i]]]

AssignSeats(members) ==
  LET places == 1..SeatCount(Cardinality(members))
      owners == {f \in [places -> members \cup {NoOne}] :
                   \A p \in members : Cardinality({i \in places : f[i] = p}) = 1}
  IN {Seating(owner, shadows) :
        owner \in owners,
        shadows \in {m \in SUBSET members :
                       Cardinality(m) = ShadowCount(Cardinality(members))}}

-----------------------------------------------------------------------------
(* validateRoomRecord: the states a stored room may be reloaded from       *)

Started(s) == s.phase \notin {"lobby", "preparing"}

ValidMembers(s) ==
  /\ IsFiniteSet(s.members) /\ Cardinality(s.members) <= MaxPlayers
  /\ s.ready \subseteq s.members
  /\ s.phase # "lobby" => /\ Cardinality(s.members) >= MinPlayers
                          /\ s.members = s.ready

ValidSeating(s) == IF Started(s) THEN ValidSeats(s, s.seats) ELSE s.seats = <<>>

ValidPhaseFields(s) ==
  /\ ~Started(s) => /\ s.round = 0 /\ s.deadlineAt = NoTime
                    /\ s.debate = NoDebate
  /\ Started(s) => s.round \in Round
  /\ s.phase = "answering" => s.deadlineAt # NoTime /\ s.debate = NoDebate
  /\ s.phase = "debating" => /\ s.debate.globalDeadlineAt # NoTime
                             /\ s.debate.turnIndex < Len(s.seats)
                             /\ s.deadlineAt # NoTime
                             /\ s.deadlineAt <= s.debate.globalDeadlineAt
  /\ s.phase = "voting" => /\ s.deadlineAt # NoTime
                           /\ s.debate.globalDeadlineAt # NoTime
  /\ s.phase = "revealed" => /\ s.deadlineAt = NoTime
                             /\ s.debate.globalDeadlineAt # NoTime

ValidDeadline(s) == s.deadlineAt # NoTime => s.deadlineAt >= s.lastNow

Answered(s, r) == {i \in SeatNo : s.answers[r][i] # "none"}

ValidAnswers(s) ==
  \A r \in Round :
    /\ Answered(s, r) \subseteq SeatIds(s)
    /\ ~Started(s) => Answered(s, r) = {}
    /\ s.phase = "answering" => /\ r < s.round => Answered(s, r) = SeatIds(s)
                                /\ r > s.round => Answered(s, r) = {}
    /\ Started(s) /\ s.phase # "answering" => Answered(s, r) = SeatIds(s)

Voted(s) == {i \in SeatNo : s.votes[i] # NotVoted}

ValidVotes(s) ==
  /\ s.phase \notin {"voting", "revealed"} => Voted(s) = {}
  /\ Voted(s) \subseteq SeatIds(s)
  /\ \A i \in Voted(s) : s.votes[i] = NoSeat \/ IsTarget(s, i, s.votes[i])
  /\ s.phase = "revealed" => Voted(s) = SeatIds(s)

ValidLog(s) == s.loggedAt <= s.lastNow

ValidResult(s) ==
  s.result = IF s.phase = "revealed" THEN Settle(s.seats, s.votes) ELSE NoResult

ValidState(s) ==
  /\ ValidMembers(s) /\ ValidSeating(s) /\ ValidPhaseFields(s) /\ ValidDeadline(s)
  /\ ValidAnswers(s) /\ ValidVotes(s) /\ ValidLog(s) /\ ValidResult(s)
-----------------------------------------------------------------------------
\* How far a match has come: the number of windows that lie behind it.
StepIndex(step) == CASE step = "accusation" -> 0 [] step = "response" -> 1
                     [] step = "followup" -> 2

Progress(s) ==
  CASE s.phase = "lobby"     -> 0
    [] s.phase = "preparing" -> 1
    [] s.phase = "answering" -> 1 + s.round
    [] s.phase = "debating"  -> 2 + LastRound + 3 * s.debate.turnIndex
                                  + StepIndex(s.debate.step)
    [] s.phase = "voting"    -> 2 + LastRound + 3 * MaxSeats
    [] s.phase = "revealed"  -> 3 + LastRound + 3 * MaxSeats
=============================================================================
