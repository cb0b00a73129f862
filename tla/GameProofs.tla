------------------------------ MODULE GameProofs ------------------------------
(***************************************************************************)
(* What holds of every game, for every table size, number of rounds and    *)
(* timing.  The inductive invariant is Sound(game): the state is one that  *)
(* the validator of stored rooms accepts (Valid), and its window stands to *)
(* the time it began as it should (Timely).  A step is the replay of the   *)
(* expired deadlines and at most one effect of a command (NextEffect), so  *)
(* that the action properties follow from one relation of states, Follows. *)
(***************************************************************************)
EXTENDS Game, GameRulesProofs

-----------------------------------------------------------------------------
(* One call                                                                *)

LEMMA SubmitEffect ==
  ASSUME NEW current, Sound(current), NEW actor, NEW c, WellFormed(actor, c),
         Submit(current, current.lastNow, actor, c)
  PROVE  Effect(current, game')
<1>1. PICK m \in MatchIds, token \in SeenTokens :
        game' = Decide(current, actor,
                  [matchId |-> m, phaseToken |-> token, command |-> c],
                  current.lastNow).state
  BY DEF Submit
<1>. DEFINE envelope == [matchId |-> m, phaseToken |-> token, command |-> c]
<1>2. envelope.command = c
  OBVIOUS
<1>3. game' = Decide(current, actor, envelope, current.lastNow).state
  BY <1>1
<1>. HIDE DEF envelope
<1>. QED BY <1>2, <1>3, DecideEffect

\* The players of a game are participants or AI seats.
LEMMA StepEffect ==
  ASSUME NEW current, Sound(current), Sound(game), Step(current, current.lastNow)
  PROVE  Effect(current, game')
<1>. DEFINE now == current.lastNow
<1>1. CASE Tick(current)
  BY <1>1 DEF Tick, Effect
<1>2. CASE Resolve(current, now)
  <2>1. PICK seats \in AssignSeats(game.members), valid \in Contents :
          Submit(current, now, System,
                 [type |-> "resolve-topic", valid |-> valid, seats |-> seats])
    BY <1>2 DEF Resolve
  <2>2. seats \in Seq(Seat)
    <3>1. game.phase # "lobby"
      BY <1>2 DEF Resolve
    <3>2. /\ game.members \in SUBSET Participants /\ IsFiniteSet(game.members)
          /\ 2 <= Cardinality(game.members) /\ Cardinality(game.members) <= MaxPlayers
      BY <3>1, MembersBound DEF Sound
    <3>. QED BY <3>2, AssignSeatsType
  <2>3. WellFormed(System, [type |-> "resolve-topic", valid |-> valid, seats |-> seats])
    BY <2>2 DEF WellFormed, System
  <2>. QED BY <2>1, <2>3, SubmitEffect
<1>3. CASE \/ JoinRoom(current, now) \/ Ready(current, now) \/ GiveAnswer(current, now)
           \/ CastVote(current, now) \/ MakeAccusation(current, now) \/ Reply(current, now)
  <2>1. \A p \in Participants :
          /\ WellFormed(Participant(p), [type |-> "join"])
          /\ \A ready \in BOOLEAN :
               WellFormed(Participant(p), [type |-> "ready", ready |-> ready])
    BY DEF WellFormed, Participant
  <2>2. ASSUME NEW actor \in Players, NEW c, c.type \notin {"ready", "resolve-topic"}
        PROVE  WellFormed(actor, c)
    BY <2>2 DEF WellFormed, Players, Participant, AiPlayer
  <2>3. \E actor, c : WellFormed(actor, c) /\ Submit(current, now, actor, c)
    <3>1. CASE JoinRoom(current, now)
      BY <2>1, <3>1 DEF JoinRoom
    <3>2. CASE Ready(current, now)
      BY <2>1, <3>2 DEF Ready
    <3>3. CASE GiveAnswer(current, now)
      BY <2>2, <3>3 DEF GiveAnswer
    <3>4. CASE CastVote(current, now)
      BY <2>2, <3>4 DEF CastVote
    <3>5. CASE MakeAccusation(current, now)
      BY <2>2, <3>5 DEF MakeAccusation
    <3>6. CASE Reply(current, now)
      BY <2>2, <3>6 DEF Reply, Speech
    <3>. QED BY <1>3, <3>1, <3>2, <3>3, <3>4, <3>5, <3>6
  <2>. QED BY <2>3, SubmitEffect
<1>. QED BY <1>1, <1>2, <1>3 DEF Step

\* One step: the clock is set, the deadlines are replayed, and a command may take effect.
LEMMA NextEffect ==
  ASSUME Sound(game), Next
  PROVE  \E now \in Nat :
           /\ now >= game.lastNow /\ Sound(AdvanceTime(game, now))
           /\ AdvanceTime(game, now).lastNow = now /\ Follows(game, AdvanceTime(game, now))
           /\ Effect(AdvanceTime(game, now), game')
<1>. PICK now \in Time : Step(AdvanceTime(game, now), now)
  BY DEF Next
<1>. DEFINE current == AdvanceTime(game, now)
<1>1. Core(game) /\ now \in Nat /\ now >= game.lastNow
  BY BoundsAssumption DEF Sound, Valid, Core, GameState, Time
<1>2. Sound(current) /\ Follows(game, current) /\ current.lastNow = now
  BY <1>1, AdvanceTimeSound
<1>3. Step(current, now)
  OBVIOUS
<1>. HIDE DEF current
<1>4. Effect(current, game')
  BY <1>2, <1>3, StepEffect
<1>. QED BY <1>1, <1>2, <1>4 DEF current

LEMMA NextSound ==
  ASSUME Sound(game), Next
  PROVE  Sound(game') /\ Follows(game, game')
  BY NextEffect, EffectFollows

-----------------------------------------------------------------------------
(* The humans' victory                                                     *)

(***************************************************************************)
(* There are as many AI seats as humans and a human has one vote, so that  *)
(* to vote out every AI seat each human must name a different one.         *)
(***************************************************************************)
LEMMA HumanWin ==
  ASSUME NEW s, Valid(s), s.result.winner = "human"
  PROVE  /\ s.result.eliminated = SeatsOf(s, "ai")
         /\ \A h \in SeatsOf(s, "human") : s.votes[h] \in SeatsOf(s, "ai")
         /\ \A g, h \in SeatsOf(s, "human") : s.votes[g] = s.votes[h] => g = h
<1>. DEFINE seats == s.seats
            votes == s.votes
            H == SeatsOf(s, "human")
            A == SeatsOf(s, "ai")
            V == {v \in 1..Len(seats) : /\ seats[v].role = "human"
                                        /\ votes[v] \in 1..Len(seats)
                                        /\ votes[v] # v}
            E == Eliminated(seats, votes)
            f == [v \in V |-> votes[v]]
<1>1. /\ s \in GameState /\ ValidMembers(s) /\ ValidSeating(s) /\ ValidResult(s)
  BY DEF Valid, Core
<1>2. s.phase = "revealed" /\ s.result = Settle(seats, votes)
  BY <1>1 DEF ValidResult, NoResult
<1>3. /\ \A i \in 1..Len(seats) : seats[i].role = "ai" => i \in E
      /\ s.result.eliminated = E
  BY <1>2 DEF Settle
<1>4. A \subseteq E /\ V \subseteq H /\ E = {votes[v] : v \in V}
  BY <1>3 DEF SeatsOf, SeatIds, Eliminated
<1>5. /\ IsFiniteSet(H) /\ IsFiniteSet(A)
      /\ Cardinality(H) \in Nat /\ Cardinality(H) = Cardinality(A)
  <2>1. Started(s)
    BY <1>2 DEF Started
  <2>2. Len(seats) \in Nat /\ SeatIds(s) = 1..Len(seats)
    BY <1>1, <2>1, SeatBound
  <2>3. IsFiniteSet(SeatIds(s))
    BY <2>2, FS_Interval
  <2>4. IsFiniteSet(H) /\ IsFiniteSet(A)
    <3>1. H \in SUBSET SeatIds(s) /\ A \in SUBSET SeatIds(s)
      BY DEF SeatsOf
    <3>. QED BY <2>3, <3>1, FS_Subset
  <2>5. \A role \in Role : Cardinality({i \in 1..Len(seats) : seats[i].role = role})
                             = RoleCounts(Cardinality(s.members))[role]
    BY <1>1, <2>1 DEF ValidSeating, ValidSeats
  <2>6. /\ Cardinality(H) = RoleCounts(Cardinality(s.members)).human
        /\ Cardinality(A) = RoleCounts(Cardinality(s.members)).ai
    BY <2>2, <2>5 DEF SeatsOf, Role
  <2>7. Cardinality(H) = Cardinality(A)
    BY <2>6 DEF RoleCounts
  <2>. QED BY <2>4, <2>7, FS_CardinalityType
<1>. HIDE DEF H, A, E, V
<1>6. /\ IsFiniteSet(V) /\ Cardinality(V) \in Nat
      /\ Cardinality(V) <= Cardinality(H)
      /\ Cardinality(V) = Cardinality(H) => V = H
  BY <1>4, <1>5, FS_Subset, FS_CardinalityType
<1>7. f \in Surjection(V, E)
  BY <1>4 DEF Surjection
<1>8. /\ IsFiniteSet(E) /\ Cardinality(E) \in Nat
      /\ Cardinality(E) <= Cardinality(V)
      /\ Cardinality(E) = Cardinality(V) <=> f \in Injection(V, E)
  BY <1>6, <1>7, FS_Surjection, FS_CardinalityType
<1>9. /\ Cardinality(A) \in Nat
      /\ Cardinality(A) <= Cardinality(E)
      /\ Cardinality(A) = Cardinality(E) => A = E
  BY <1>4, <1>8, FS_Subset, FS_CardinalityType
<1>10. A = E /\ V = H /\ f \in Injection(V, E)
  BY <1>5, <1>6, <1>8, <1>9
<1>11. \A g, h \in V : f[g] = f[h] => g = h
  BY <1>10 DEF Injection, IsInjective
<1>12. \A h \in H : f[h] = votes[h] /\ votes[h] \in A
  BY <1>4, <1>10
<1>13. \A g, h \in H : votes[g] = votes[h] => g = h
  BY <1>10, <1>11, <1>12
<1>. QED BY <1>3, <1>10, <1>12, <1>13 DEF H, A

-----------------------------------------------------------------------------
(* What a participant is offered                                           *)

\* The owner of a seat owns no other one.
LEMMA OneSeatEach ==
  ASSUME NEW s, Valid(s), NEW p \in Participants
  PROVE  /\ ActingSeats(s, Participant(p)) # {} =>
              ActingSeats(s, Participant(p)) = {ActingSeat(s, Participant(p))}
         /\ ActingSeats(s, Participant(p)) # {} => Started(s)
<1>. DEFINE self == ActingSeats(s, Participant(p))
<1>1. s \in GameState /\ ValidSeating(s)
  BY DEF Valid, Core
<1>2. self = {i \in SeatIds(s) : s.seats[i].participantId = p}
  BY DEF ActingSeats, Participant, AiPlayer
<1>3. CASE ~Started(s)
  <2>1. SeatIds(s) = {}
    BY <1>1, <1>3 DEF ValidSeating, SeatIds
  <2>. QED BY <1>2, <2>1
<1>4. CASE Started(s)
  <2>1. ValidSeats(s, s.seats)
    BY <1>1, <1>4 DEF ValidSeating
  <2>2. \A i, j \in self : i = j
    BY <1>2, <2>1, ParticipantsAssumption DEF ValidSeats, SeatIds
  <2>3. self # {} => ActingSeat(s, Participant(p)) \in self
    BY DEF ActingSeat
  <2>. QED BY <1>4, <2>2, <2>3
<1>. QED BY <1>3, <1>4

\* The condition under which each kind of command is offered.
Open(s, p, kind) ==
  LET self == ActingSeats(s, Participant(p)) IN
  \/ kind = "ready" /\ s.phase = "lobby" /\ p \in s.members
  \/ kind = "answer" /\ s.phase = "answering" /\ \E i \in self : s.answers[s.round][i] = "none"
  \/ kind = "vote" /\ s.phase = "voting" /\ \E i \in self : s.votes[i] = NotVoted
  \/ /\ s.phase = "debating"
     /\ \/ kind = "accuse" /\ s.debate.step = "accusation" /\ Accuser(s) \in self
        \/ kind = "respond" /\ s.debate.step = "response" /\ s.debate.targetSeat \in self
        \/ /\ kind \in {"followup", "skip-followup"}
           /\ s.debate.step = "followup" /\ Accuser(s) \in self

LEMMA OfferedMeaning ==
  ASSUME NEW s, Valid(s), NEW p \in Participants, NEW kind
  PROVE  kind \in Offered(s, p) <=> Open(s, p, kind)
<1>1. s.debate.step \in {"accusation", "response", "followup"}
  BY DEF Valid, Core, GameState, Debate, DebateStep
<1>2. CASE s.phase # "debating"
  BY <1>2 DEF Offered, Open
<1>3. CASE s.phase = "debating" /\ s.debate.step = "accusation"
  BY <1>3 DEF Offered, Open
<1>4. CASE s.phase = "debating" /\ s.debate.step = "response"
  BY <1>4 DEF Offered, Open
<1>5. CASE s.phase = "debating" /\ s.debate.step = "followup"
  BY <1>5 DEF Offered, Open
<1>. QED BY <1>1, <1>2, <1>3, <1>4, <1>5

LEMMA AcceptedIsOpen ==
  ASSUME NEW s, Valid(s), NEW p \in Participants,
         NEW c \in [type : {"ready"}, ready : {TRUE}] \cup Said,
         Accepts(s, Participant(p), c)
  PROVE  Open(s, p, c.type)
<1>. DEFINE actor == Participant(p)
            self == ActingSeats(s, actor)
            seat == ActingSeat(s, actor)
<1>1. c.type \notin {"join", "resolve-topic"} /\ actor.id = p
  BY DEF Said, Participant
<1>2. self # {} => self = {seat}
  BY OneSeatEach
<1>3. CASE c.type = "ready" /\ MayReady(s, actor)
  BY <1>1, <1>3 DEF MayReady, Open
<1>4. CASE /\ self # {}
           /\ \/ c.type = "answer" /\ MayAnswer(s, seat, c)
              \/ c.type = "vote" /\ MayVote(s, seat, c)
              \/ c.type = "accuse" /\ MayAccuse(s, seat, c)
              \/ c.type = "respond" /\ MayRespond(s, seat, c)
              \/ c.type = "followup" /\ MayFollowUp(s, seat)
              \/ c.type = "skip-followup" /\ MayFollowUp(s, seat)
  <2>1. seat \in self
    BY <1>2, <1>4
  <2>. QED BY <1>4, <2>1 DEF MayAnswer, MayVote, MayAccuse, MayRespond, MayFollowUp, Open
<1>. QED BY <1>1, <1>3, <1>4 DEF Accepts

LEMMA OpenIsAccepted ==
  ASSUME NEW s, Valid(s), NEW p \in Participants, NEW kind, Open(s, p, kind)
  PROVE  \E c \in [type : {"ready"}, ready : {TRUE}] \cup Said :
           c.type = kind /\ Accepts(s, Participant(p), c)
<1>. DEFINE actor == Participant(p)
            self == ActingSeats(s, actor)
            seat == ActingSeat(s, actor)
<1>1. self # {} => self = {seat} /\ Started(s)
  BY OneSeatEach
<1>2. CASE kind = "ready"
  <2>. DEFINE c == [type |-> "ready", ready |-> TRUE]
  <2>1. MayReady(s, actor)
    BY <1>2 DEF Open, MayReady, Participant
  <2>2. Accepts(s, actor, c)
    BY <2>1 DEF Accepts
  <2>. QED BY <1>2, <2>2
<1>3. CASE kind # "ready"
  <2>1. self # {} /\ self = {seat} /\ Started(s)
    BY <1>1, <1>3 DEF Open
  <2>2. /\ s \in GameState /\ s.round \in Round
        /\ Len(s.seats) \in Nat /\ 3 <= Len(s.seats)
        /\ SeatIds(s) = 1..Len(s.seats) /\ SeatIds(s) \subseteq SeatNo
    BY <2>1, SeatBound DEF Valid, Core, ValidPhaseFields
  <2>3. PICK target \in SeatNo : IsTarget(s, seat, target)
    <3>1. 1 \in SeatIds(s) /\ 2 \in SeatIds(s) /\ (1 # seat \/ 2 # seat)
      BY <2>2
    <3>. QED BY <2>2, <3>1 DEF IsTarget
  <2>. HIDE DEF self, seat, actor
  <2>4. CASE kind = "answer"
    <3>. DEFINE c == [type |-> "answer", round |-> s.round, valid |-> TRUE]
    <3>1. MayAnswer(s, seat, c)
      BY <2>1, <2>4 DEF Open, MayAnswer, self, actor
    <3>2. Accepts(s, actor, c) /\ c \in Said
      BY <2>1, <2>2, <3>1 DEF Accepts, self, seat, Said
    <3>. QED BY <2>4, <3>2 DEF actor
  <2>5. CASE kind = "vote"
    <3>. DEFINE c == [type |-> "vote", target |-> target, valid |-> TRUE]
    <3>1. MayVote(s, seat, c)
      BY <2>1, <2>3, <2>5 DEF Open, MayVote, self, actor
    <3>2. Accepts(s, actor, c) /\ c \in Said
      BY <2>1, <3>1 DEF Accepts, self, seat, Said
    <3>. QED BY <2>5, <3>2 DEF actor
  <2>6. CASE kind = "accuse"
    <3>. DEFINE c == [type |-> "accuse", target |-> target, valid |-> TRUE]
    <3>1. MayAccuse(s, seat, c)
      BY <2>1, <2>3, <2>6 DEF Open, MayAccuse, self, actor
    <3>2. Accepts(s, actor, c) /\ c \in Said
      BY <2>1, <3>1 DEF Accepts, self, seat, Said
    <3>. QED BY <2>6, <3>2 DEF actor
  <2>7. CASE kind = "respond"
    <3>. DEFINE c == [type |-> "respond", valid |-> TRUE]
    <3>1. MayRespond(s, seat, c)
      BY <2>1, <2>7 DEF Open, MayRespond, self, actor
    <3>2. Accepts(s, actor, c) /\ c \in Said
      BY <2>1, <3>1 DEF Accepts, self, seat, Said
    <3>. QED BY <2>7, <3>2 DEF actor
  <2>8. CASE kind = "followup"
    <3>. DEFINE c == [type |-> "followup", valid |-> TRUE]
    <3>1. MayFollowUp(s, seat)
      BY <2>1, <2>8 DEF Open, MayFollowUp, self, actor
    <3>2. Accepts(s, actor, c) /\ c \in Said
      BY <2>1, <3>1 DEF Accepts, self, seat, Said
    <3>. QED BY <2>8, <3>2 DEF actor
  <2>9. CASE kind = "skip-followup"
    <3>. DEFINE c == [type |-> "skip-followup"]
    <3>1. MayFollowUp(s, seat)
      BY <2>1, <2>9 DEF Open, MayFollowUp, self, actor
    <3>2. Accepts(s, actor, c) /\ c \in Said
      BY <2>1, <3>1 DEF Accepts, self, seat, Said
    <3>. QED BY <2>9, <3>2 DEF actor
  <2>. QED BY <1>3, <2>4, <2>5, <2>6, <2>7, <2>8, <2>9 DEF Open
<1>. QED BY <1>2, <1>3

-----------------------------------------------------------------------------
(* A game and the same game with the others seated in another way          *)

LEMMA OtherTable ==
  ASSUME NEW s, Sound(s), Started(s), s.phase # "revealed",
         NEW seats \in AssignSeats(s.members)
  PROVE  /\ Sound([s EXCEPT !.seats = seats]) /\ Twin(s, [s EXCEPT !.seats = seats])
         /\ [s EXCEPT !.seats = seats].seats = seats
         /\ [s EXCEPT !.seats = seats].lastNow = s.lastNow
<1>. DEFINE o == [s EXCEPT !.seats = seats]
<1>1. Core(s) /\ Valid(s) /\ s \in GameState /\ s.phase # "lobby" /\ Timely(s)
  BY DEF Sound, Valid, Core, Started
<1>2. seats \in Seq(Seat) /\ ValidSeats(s, seats)
  BY <1>1, MembersBound, AssignSeatsType, AssignSeatsValid
<1>3. Len(seats) = Len(s.seats)
  <2>1. ValidSeats(s, s.seats)
    BY <1>1 DEF Core, ValidSeating
  <2>. QED BY <1>2, <2>1 DEF ValidSeats
<1>4. /\ o \in GameState /\ o.seats = seats /\ o.lastNow = s.lastNow
      /\ o.phase = s.phase /\ o.members = s.members /\ o.ready = s.ready
      /\ o.round = s.round /\ o.answers = s.answers /\ o.debate = s.debate
      /\ o.deadlineAt = s.deadlineAt /\ o.votes = s.votes /\ o.result = s.result
      /\ o.loggedAt = s.loggedAt /\ o.phaseAt = s.phaseAt
  BY <1>1, <1>2 DEF GameState
<1>5. Twin(s, o)
  BY <1>1, <1>2, <1>3 DEF Twin, GameState
<1>. HIDE DEF o
<1>6. SeatIds(o) = SeatIds(s) /\ Started(o)
  BY <1>3, <1>4 DEF SeatIds, Started
<1>7. ValidMembers(o) /\ ValidSeating(o)
  <2>1. ValidSeats(o, o.seats)
    BY <1>2, <1>4 DEF ValidSeats
  <2>. QED BY <1>1, <1>4, <1>6, <2>1 DEF Core, ValidMembers, ValidSeating
<1>8. ValidPhaseFields(o) /\ ValidLog(o) /\ ValidResult(o) /\ ValidDeadline(o)
  BY <1>1, <1>3, <1>4, <1>6
     DEF Core, Valid, ValidPhaseFields, ValidLog, ValidResult, ValidDeadline, Started
<1>9. ValidAnswers(o)
  <2>1. \A r \in Round : Answered(o, r) = Answered(s, r)
    BY <1>4 DEF Answered
  <2>. QED BY <1>1, <1>4, <1>6, <2>1 DEF Core, ValidAnswers
<1>10. ValidVotes(o)
  <2>1. Voted(o) = Voted(s)
    BY <1>4 DEF Voted
  <2>. QED BY <1>1, <1>4, <1>6, <2>1 DEF Core, ValidVotes, IsTarget
<1>11. Timely(o)
  BY <1>1, <1>3, <1>4, <1>6 DEF Timely
<1>12. Sound(o)
  BY <1>4, <1>7, <1>8, <1>9, <1>10, <1>11 DEF Sound, Valid, Core
<1>. QED BY <1>4, <1>5, <1>12 DEF o

\* Twins at these two tables, with the same clock, look the same to whoever is not in the know.
LEMMA TwinsLookAlike ==
  ASSUME NEW s, NEW seats, NEW t, NEW w, Twin(t, w), w.lastNow = t.lastNow,
         t.seats = s.seats, w.seats = seats, t.phase # "revealed",
         NEW p \in Watchers(s, seats)
  PROVE  View(t, p) = View(w, p)
<1>1. Unaware(t, w, p)
  <2>. SUFFICES ASSUME p # NoOne
                PROVE  /\ ActingSeats(w, Participant(p)) = ActingSeats(t, Participant(p))
                       /\ \A i \in ActingSeats(t, Participant(p)) :
                            w.seats[i].role = t.seats[i].role
    BY DEF Unaware
  <2>1. \A i \in SeatIds(s) :
          p \in {s.seats[i].participantId, seats[i].participantId} => seats[i] = s.seats[i]
    BY DEF Watchers
  <2>2. SeatIds(w) = SeatIds(t) /\ SeatIds(t) = SeatIds(s)
    BY DEF Twin, SeatIds
  <2>3. /\ ActingSeats(t, Participant(p)) = {i \in SeatIds(s) : s.seats[i].participantId = p}
        /\ ActingSeats(w, Participant(p)) = {i \in SeatIds(s) : seats[i].participantId = p}
    BY <2>2 DEF ActingSeats, Participant
  <2>. QED BY <2>1, <2>3
<1>. QED BY <1>1, ViewTwin

\* The player of a seat acts for that seat alone.
LEMMA PlayersSeat ==
  ASSUME NEW s, Valid(s), Started(s), NEW i \in SeatIds(s)
  PROVE  ActingSeats(s, Player(s, i)) = {i} /\ ActingSeat(s, Player(s, i)) = i
<1>1. ValidSeats(s, s.seats) /\ SeatIds(s) = 1..Len(s.seats)
  BY DEF Valid, Core, ValidSeating, SeatIds
<1>2. CASE s.seats[i].role = "ai"
  <2>1. ActingSeats(s, Player(s, i)) = {i}
    BY <1>2 DEF ActingSeats, Player, AiPlayer
  <2>. QED BY <2>1 DEF ActingSeat
<1>3. CASE s.seats[i].role # "ai"
  <2>1. Player(s, i) = Participant(s.seats[i].participantId)
    BY <1>3 DEF Player
  <2>2. s.seats[i].participantId # NoOne
    <3>1. s.seats[i].participantId \in s.members /\ s.members \subseteq Participants
      BY <1>1, <1>3 DEF ValidSeats, Valid, Core, GameState
    <3>. QED BY <3>1, ParticipantsAssumption
  <2>3. \A j \in SeatIds(s) :
          s.seats[j].participantId = s.seats[i].participantId => j = i
    BY <1>1, <1>3, <2>2 DEF ValidSeats
  <2>4. ActingSeats(s, Player(s, i)) = {i}
    BY <2>1, <2>3 DEF ActingSeats, Participant
  <2>. QED BY <2>4 DEF ActingSeat
<1>. QED BY <1>2, <1>3

\* What the rules ask of a seat that says something.
MaySay(s, i, c) ==
  \/ c.type = "answer" /\ MayAnswer(s, i, c)
  \/ c.type = "vote" /\ MayVote(s, i, c)
  \/ c.type = "accuse" /\ MayAccuse(s, i, c)
  \/ c.type = "respond" /\ MayRespond(s, i, c)
  \/ c.type = "followup" /\ MayFollowUp(s, i) /\ c.valid
  \/ c.type = "skip-followup" /\ MayFollowUp(s, i)

LEMMA TakenMeaning ==
  ASSUME NEW s, Valid(s), Started(s), NEW i \in SeatIds(s), NEW c \in Said
  PROVE  Taken(s, i, c) <=> MaySay(s, i, c)
<1>1. ActingSeats(s, Player(s, i)) = {i} /\ ActingSeat(s, Player(s, i)) = i
  BY PlayersSeat
<1>2. c.type \notin {"join", "ready", "resolve-topic"}
  BY DEF Said
<1>. QED BY <1>1, <1>2 DEF Taken, Accepts, MaySay

LEMMA MaySayTwin ==
  ASSUME NEW s, NEW u, Twin(s, u), NEW i, NEW c
  PROVE  MaySay(s, i, c) <=> MaySay(u, i, c)
<1>1. /\ u.phase = s.phase /\ u.round = s.round /\ u.answers = s.answers
      /\ u.votes = s.votes /\ u.debate = s.debate
      /\ SeatIds(u) = SeatIds(s) /\ Accuser(u) = Accuser(s)
  BY DEF Twin, SeatIds, Accuser
<1>. QED BY <1>1 DEF MaySay, MayAnswer, MayVote, MayAccuse, MayRespond, MayFollowUp, IsTarget

\* The effect of what a seat says, before it is numbered.
Uttered(s, i, c) ==
  CASE c.type = "answer" -> AddAnswer(s, i, s.lastNow)
    [] c.type = "vote"   -> AddVote(s, i, c.target, s.lastNow)
    [] c.type = "accuse" -> Accuse(s, c.target, s.lastNow)
    [] c.type \in {"respond", "followup", "skip-followup"} -> Speak(s, s.lastNow)

LEMMA AfterMeaning ==
  ASSUME NEW s, Valid(s), Started(s), NEW i \in SeatIds(s), NEW c \in Said, Taken(s, i, c)
  PROVE  After(s, i, c) = [Uttered(s, i, c) EXCEPT !.revision = @ + 1]
<1>1. ActingSeat(s, Player(s, i)) = i
  BY PlayersSeat
<1>2. c.type \in {"answer", "vote", "accuse", "respond", "followup", "skip-followup"}
  BY DEF Said
<1>3. Apply(s, Player(s, i), c, s.lastNow) = Uttered(s, i, c)
  <2>1. CASE c.type = "answer"
    BY <1>1, <2>1 DEF Apply, Uttered
  <2>2. CASE c.type = "vote"
    BY <1>1, <2>2 DEF Apply, Uttered
  <2>3. CASE c.type = "accuse"
    BY <2>3 DEF Apply, Uttered
  <2>4. CASE c.type \in {"respond", "followup", "skip-followup"}
    BY <2>4 DEF Apply, Uttered
  <2>. QED BY <1>2, <2>1, <2>2, <2>3, <2>4
<1>4. After(s, i, c) = [Apply(s, Player(s, i), c, s.lastNow) EXCEPT !.revision = @ + 1]
  BY DEF After, Decide, Taken
<1>. QED BY <1>3, <1>4

\* What is said at one table has the same effect at the other.
LEMMA UtteredTwin ==
  ASSUME NEW s, Sound(s), Started(s), NEW u, Sound(u), Twin(s, u), u.lastNow = s.lastNow,
         NEW i \in SeatIds(s), NEW c \in Said, MaySay(s, i, c)
  PROVE  /\ Twin(Uttered(s, i, c), Uttered(u, i, c))
         /\ Lawful(s, Uttered(s, i, c)) /\ Lawful(u, Uttered(u, i, c))
<1>. DEFINE now == s.lastNow
<1>1. /\ Valid(s) /\ Timely(s) /\ Valid(u) /\ Timely(u) /\ now \in Nat /\ u.lastNow = now
      /\ SeatIds(u) = SeatIds(s) /\ u.phase = s.phase /\ MaySay(u, i, c)
  BY MaySayTwin DEF Sound, Valid, Core, GameState, Twin, SeatIds
<1>2. /\ SeatIds(s) \subseteq SeatNo /\ Len(s.seats) <= MaxSeats /\ s.round \in Round
  BY SeatBound DEF Sound, Valid, Core, ValidPhaseFields
<1>3. CASE c.type = "answer"
  <2>1. /\ s.phase = "answering" /\ s.answers[s.round][i] = "none"
        /\ u.answers[u.round][i] = "none"
    BY <1>1, <1>3 DEF MaySay, MayAnswer
  <2>2. Lawful(s, AddAnswer(s, i, now)) /\ Lawful(u, AddAnswer(u, i, now))
    BY <1>1, <2>1, AddAnswerLawful
  <2>3. Twin(AddAnswer(s, i, now), AddAnswer(u, i, now))
    BY <1>1, <1>2, AddAnswerTwin
  <2>. QED BY <1>1, <1>3, <2>2, <2>3 DEF Uttered
<1>4. CASE c.type = "vote"
  <2>1. /\ s.phase = "voting" /\ s.votes[i] = NotVoted /\ u.votes[i] = NotVoted
        /\ IsTarget(s, i, c.target) /\ IsTarget(u, i, c.target)
    BY <1>1, <1>4 DEF MaySay, MayVote
  <2>2. /\ Lawful(s, AddVote(s, i, c.target, now))
        /\ Lawful(u, AddVote(u, i, c.target, now))
    BY <1>1, <2>1, AddVoteLawful
  <2>3. c.target \in SeatNo
    BY <1>2, <2>1 DEF IsTarget
  <2>4. Twin(AddVote(s, i, c.target, now), AddVote(u, i, c.target, now))
    BY <1>1, <1>2, <2>3, AddVoteTwin
  <2>. QED BY <1>1, <1>4, <2>2, <2>4 DEF Uttered
<1>5. CASE c.type \in {"accuse", "respond", "followup", "skip-followup"}
  <2>1. s.phase = "debating" /\ u.phase = "debating"
    BY <1>1, <1>5 DEF MaySay, MayAccuse, MayRespond, MayFollowUp
  <2>2. s.debate.globalDeadlineAt \in Nat
    BY <1>1, <2>1 DEF Valid, Core, ValidPhaseFields, GameState, Debate
  <2>3. CASE c.type = "accuse"
    <3>1. c.target \in SeatIds(s) /\ c.target \in SeatNo
      BY <1>1, <1>2, <2>3 DEF MaySay, MayAccuse, IsTarget
    <3>2. Lawful(s, Accuse(s, c.target, now)) /\ Lawful(u, Accuse(u, c.target, now))
      BY <1>1, <2>1, <3>1, AccuseLawful
    <3>3. Twin(Accuse(s, c.target, now), Accuse(u, c.target, now))
      BY <1>1, <2>2, <3>1, AccuseTwin
    <3>. QED BY <1>1, <2>3, <3>2, <3>3 DEF Uttered
  <2>4. CASE c.type \in {"respond", "followup", "skip-followup"}
    <3>1. Lawful(s, Speak(s, now)) /\ Lawful(u, Speak(u, now))
      BY <1>1, <2>1, SpeakLawful
    <3>2. Twin(Speak(s, now), Speak(u, now))
      BY <1>1, <2>2, SpeakTwin
    <3>. QED BY <1>1, <2>4, <3>1, <3>2 DEF Uttered
  <2>. QED BY <1>5, <2>3, <2>4
<1>. QED BY <1>3, <1>4, <1>5 DEF MaySay

LEMMA AfterTwin ==
  ASSUME NEW s, Sound(s), Started(s), NEW u, Sound(u), Twin(s, u), u.lastNow = s.lastNow,
         NEW i \in SeatIds(s), NEW c \in Said, Taken(s, i, c) \/ Taken(u, i, c)
  PROVE  /\ Twin(After(s, i, c), After(u, i, c))
         /\ After(s, i, c).lastNow = s.lastNow /\ After(u, i, c).lastNow = s.lastNow
         /\ After(s, i, c).seats = s.seats /\ After(u, i, c).seats = u.seats
<1>. DEFINE t == Uttered(s, i, c)
            w == Uttered(u, i, c)
<1>1. Valid(s) /\ Valid(u) /\ Started(u) /\ SeatIds(u) = SeatIds(s)
  BY DEF Sound, Twin, Started, SeatIds
<1>2. Taken(s, i, c) /\ Taken(u, i, c) /\ MaySay(s, i, c)
  BY <1>1, TakenMeaning, MaySayTwin
<1>3. /\ After(s, i, c) = [t EXCEPT !.revision = @ + 1]
      /\ After(u, i, c) = [w EXCEPT !.revision = @ + 1]
  BY <1>1, <1>2, AfterMeaning
<1>4. Twin(t, w) /\ Lawful(s, t) /\ Lawful(u, w)
  BY <1>2, UtteredTwin
<1>. HIDE DEF t, w
<1>5. t \in GameState /\ w \in GameState
  BY <1>4 DEF Twin
<1>6. /\ [t EXCEPT !.revision = @ + 1].lastNow = t.lastNow
      /\ [w EXCEPT !.revision = @ + 1].lastNow = w.lastNow
      /\ [t EXCEPT !.revision = @ + 1].seats = t.seats
      /\ [w EXCEPT !.revision = @ + 1].seats = w.seats
  BY <1>5 DEF GameState
<1>7. Twin([t EXCEPT !.revision = @ + 1], [w EXCEPT !.revision = @ + 1])
  BY <1>4, NumberedTwin
<1>. QED BY <1>1, <1>3, <1>4, <1>6, <1>7 DEF Lawful

-----------------------------------------------------------------------------
(* The theorems                                                            *)

(***************************************************************************)
(* The inductive invariant: a well-formed state with no deadline in the    *)
(* past, which is what every call of transition.ts starts from and returns.*)
(***************************************************************************)
THEOREM GameIsSound == Spec => []Sound(game)
<1>1. Init => Sound(game)
  BY CreateGameValid, CreateGameTimely DEF Init, Sound
<1>2. Sound(game) /\ [Next]_game => Sound(game)'
  <2>1. CASE Next
    BY <2>1, NextSound
  <2>2. CASE UNCHANGED game
    BY <2>2
  <2>. QED BY <2>1, <2>2
<1>. QED BY <1>1, <1>2, PTL DEF Spec

(***************************************************************************)
(* Every reachable game is one the validator of stored rooms accepts, with *)
(* no deadline in the past.                                                *)
(***************************************************************************)
THEOREM GameIsValid == Spec => []Valid(game)
<1>1. Sound(game) => Valid(game)
  BY DEF Sound
<1>. QED BY <1>1, GameIsSound, PTL

\* Every reachable game is a value of the type of model.ts's GameState.
THEOREM GameType == Spec => []TypeOK
<1>1. Valid(game) => TypeOK
  BY DEF Valid, Core, TypeOK
<1>. QED BY <1>1, GameIsValid, PTL

(***************************************************************************)
(* Every reachable game passes validateRoomRecord: a room saved after any  *)
(* sequence of calls can be opened again.                                  *)
(***************************************************************************)
THEOREM GameIsReloadable == Spec => []Reloadable
<1>1. Valid(game) => Reloadable
  BY ValidMeaning DEF Reloadable
<1>. QED BY <1>1, GameIsValid, PTL

(***************************************************************************)
(* The humans win only by voting out exactly the AI seats, with the vote   *)
(* of every human on a seat of its own: settlement.ts can grant the        *)
(* victory in no other way, whatever the table's size.                     *)
(***************************************************************************)
THEOREM VictoryIsExact == Spec => []HumanWinIsExact
<1>1. Valid(game) => HumanWinIsExact
  BY HumanWin DEF HumanWinIsExact
<1>. QED BY <1>1, GameIsValid, PTL

(***************************************************************************)
(* What each step of a match does, as Follows states it.                   *)
(***************************************************************************)
THEOREM StepsFollow == Spec => [][Follows(game, game')]_game
<1>1. Sound(game) /\ [Next]_game => [Follows(game, game')]_game
  BY NextSound
<1>. QED BY <1>1, GameIsSound, PTL DEF Spec

(***************************************************************************)
(* A phase never outlasts its time: whatever players send, the deadline of *)
(* a round stays within ANSWER_MS and one reading pause of its beginning,  *)
(* that of a debate within DEBATE_MS, that of the vote within VOTE_MS.     *)
(***************************************************************************)
THEOREM PhasesAreBounded == Spec => []PhaseIsBounded
<1>1. Sound(game) => PhaseIsBounded
  <2>. SUFFICES ASSUME Sound(game) PROVE PhaseIsBounded
    OBVIOUS
  <2>1. Timely(game) /\ Core(game) /\ game \in GameState /\ game.phaseAt \in Nat
    BY DEF Sound, Valid, Core, GameState
  <2>2. CASE game.phase = "answering"
    BY <2>1, <2>2 DEF PhaseIsBounded, Timely
  <2>3. CASE game.phase = "debating"
    BY <2>1, <2>3 DEF PhaseIsBounded, Timely, Core, ValidPhaseFields
  <2>4. CASE game.phase = "voting"
    BY <2>1, <2>4, TimesAssumption DEF PhaseIsBounded, Timely
  <2>. QED BY <2>2, <2>3, <2>4 DEF PhaseIsBounded
<1>. QED BY <1>1, GameIsSound, PTL

(***************************************************************************)
(* nextDebate and advanceTime open the vote only after the last accuser's  *)
(* turn or at the debate's own deadline, never later.                      *)
(***************************************************************************)
THEOREM DebatesAreHeardOut == Spec => []DebateIsHeardOut
<1>1. Sound(game) => DebateIsHeardOut
  BY DEF Sound, Timely, DebateIsHeardOut
<1>. QED BY <1>1, GameIsSound, PTL

(***************************************************************************)
(* transition.ts compares tokens for equality: a token that is still the   *)
(* current one names the window it named when it was sent, and every new   *)
(* window has a larger one.                                                *)
(***************************************************************************)
THEOREM TokensNameWindows == Spec => TokenNamesWindow
<1>1. Follows(game, game') =>
        IF game'.phaseToken = game.phaseToken THEN Window(game') = Window(game)
        ELSE game'.phaseToken > game.phaseToken
  <2>1. Core(game') => game'.phaseToken \in Nat
    BY DEF Core, GameState
  <2>. QED BY <2>1 DEF Follows, SameWindow, Window
<1>2. [Follows(game, game')]_game =>
        [IF game'.phaseToken = game.phaseToken THEN Window(game') = Window(game)
         ELSE game'.phaseToken > game.phaseToken]_game
  BY <1>1
<1>. QED BY <1>2, StepsFollow, PTL DEF TokenNamesWindow

(***************************************************************************)
(* No call of transition.ts or advanceTime takes anything back.            *)
(***************************************************************************)
THEOREM NothingTakenBack == Spec => NothingIsTakenBack
<1>1. [Follows(game, game')]_game =>
        [/\ Progress(game') >= Progress(game)
         /\ game'.lastNow >= game.lastNow
         /\ game'.loggedAt >= game.loggedAt
         /\ game.phase # "lobby" => game'.members = game.members
         /\ Started(game) => game'.seats = game.seats
         /\ \A r \in Round, i \in SeatNo :
              game.answers[r][i] # "none" => game'.answers[r][i] = game.answers[r][i]
         /\ \A i \in SeatNo : game.votes[i] # NotVoted => game'.votes[i] = game.votes[i]]_game
  BY DEF Follows, Heard
<1>. QED BY <1>1, StepsFollow, PTL DEF NothingIsTakenBack

(***************************************************************************)
(* Whatever a call changes that a view could show, it changes under a new  *)
(* revision: the views a subscriber is not sent would have shown nothing.  *)
(***************************************************************************)
THEOREM VisibleChangesAreNumbered == Spec => VisibleChangeIsNumbered
<1>1. [Follows(game, game')]_game =>
        [\/ game'.revision > game.revision
         \/ game' = [game EXCEPT !.lastNow = game'.lastNow]]_game
  BY DEF Follows, Numbered
<1>. QED BY <1>1, StepsFollow, PTL DEF VisibleChangeIsNumbered

(***************************************************************************)
(* advanceTime fills in a default only at a round's own deadline, which    *)
(* the answers of the others never bring forward.                          *)
(***************************************************************************)
THEOREM NoDefaultIsEarly == Spec => NoEarlyDefault
<1>1. ASSUME Sound(game), Next, NEW i \in SeatNo, game.phase = "answering",
             game.answers[game.round][i] = "none", game'.answers[game.round][i] = "default"
      PROVE  game'.lastNow >= game.phaseAt + ANSWER_MS
  <2>1. Sound(game') /\ Follows(game, game')
    BY <1>1, NextSound
  <2>2. /\ Core(game) /\ Core(game') /\ game \in GameState /\ game' \in GameState
        /\ Started(game) /\ Started(game') /\ game.round \in Round
    <3>1. Core(game) /\ Core(game') /\ Progress(game') >= Progress(game)
      BY <1>1, <2>1 DEF Sound, Valid, Follows
    <3>2. Started(game) /\ game.round \in Round
      BY <1>1, <3>1 DEF Started, Core, ValidPhaseFields
    <3>. QED BY <3>1, <3>2, ProgressPhase DEF Core
  <2>3. i \in SeatIds(game)
    <3>1. i \in Answered(game', game.round)
      BY <1>1 DEF Answered
    <3>2. SeatIds(game') = SeatIds(game)
      BY <2>1, <2>2 DEF Follows, SeatIds
    <3>. QED BY <2>2, <3>1, <3>2 DEF Core, ValidAnswers
  <2>4. game.deadlineAt = game.phaseAt + ANSWER_MS
    BY <1>1, <2>3 DEF Sound, Timely
  <2>5. PICK now \in Nat :
          /\ now >= game.lastNow /\ AdvanceTime(game, now).lastNow = now
          /\ Effect(AdvanceTime(game, now), game')
    BY <1>1, NextEffect
  <2>. DEFINE current == AdvanceTime(game, now)
  <2>6. current.lastNow = now /\ Effect(current, game')
    BY <2>5
  <2>7. CASE Due(game, now)
    <3>1. now >= game.deadlineAt
      BY <2>7 DEF Due
    <3>2. game'.lastNow = now
      <4>. HIDE DEF current
      <4>1. CASE game' = current
        BY <2>6, <4>1
      <4>2. ASSUME NEW v, Lands(current, v), game' = [v EXCEPT !.revision = @ + 1]
            PROVE  game'.lastNow = now
        BY <2>6, <4>2 DEF Lands, Lawful, Valid, Core, GameState
      <4>. QED BY <2>6, <4>1, <4>2 DEF Effect
    <3>. QED BY <2>4, <3>1, <3>2
  <2>8. CASE ~Due(game, now)
    <3>. DEFINE u == [game EXCEPT !.lastNow = now]
    <3>1. Core(u) /\ u.lastNow = now
      BY <2>2, <2>5, ClockCore
    <3>2. ~Due(u, now) /\ u.answers = game.answers
      BY <2>2, <2>8 DEF Due, GameState
    <3>3. current = Expired(u, now)
      BY DEF AdvanceTime
    <3>. HIDE DEF u, current
    <3>4. current.answers = game.answers
      BY <3>1, <3>2, <3>3, ExpiredIdle
    <3>5. game'.answers[game.round][i] = "default" => current.answers[game.round][i] = "default"
      <4>1. CASE game' = current
        BY <4>1
      <4>2. ASSUME NEW v, Lands(current, v), game' = [v EXCEPT !.revision = @ + 1]
            PROVE  game'.answers[game.round][i] = "default"
                     => current.answers[game.round][i] = "default"
        <5>1. game'.answers = v.answers
          BY <4>2 DEF Lands, Valid, Core, GameState
        <5>. QED BY <2>2, <4>2, <5>1 DEF Lands, Lawful
      <4>. QED BY <2>6, <4>1, <4>2 DEF Effect
    <3>. QED BY <1>1, <3>4, <3>5
  <2>. QED BY <2>7, <2>8
<1>2. Sound(game) /\ [Next]_game =>
        [\A i \in SeatNo :
           /\ game.phase = "answering"
           /\ game.answers[game.round][i] = "none"
           /\ game'.answers[game.round][i] = "default"
           => game'.lastNow >= game.phaseAt + ANSWER_MS]_game
  BY <1>1
<1>. QED BY <1>2, GameIsSound, PTL DEF NoEarlyDefault, Spec

(***************************************************************************)
(* advanceTime replays an expired deadline at the deadline's own time: a   *)
(* server that was down, or a timer that came late, loses nothing and adds *)
(* nothing.                                                                *)
(***************************************************************************)
THEOREM CatchUpsArePrompt == Spec => []CatchUpIsPrompt
<1>1. Sound(game) => CatchUpIsPrompt
  <2>. SUFFICES ASSUME Sound(game), NEW early \in Time, NEW late \in early..Horizon
                PROVE  AdvanceTime(AdvanceTime(game, early), late) = AdvanceTime(game, late)
    BY DEF CatchUpIsPrompt
  <2>1. Core(game) /\ game.lastNow \in Nat
    BY DEF Sound, Valid, Core, GameState
  <2>2. early \in Nat /\ late \in Nat /\ game.lastNow <= early /\ early <= late
    BY <2>1, BoundsAssumption DEF Time
  <2>. QED BY <2>1, <2>2, AdvanceTimeTwice
<1>. QED BY <1>1, GameIsSound, PTL

(***************************************************************************)
(* project() in projection.ts and apply() in transition.ts agree: a button *)
(* a client shows is never refused, and nothing that would be taken is     *)
(* withheld.                                                               *)
(***************************************************************************)
THEOREM OffersAreAccepted == Spec => []OfferedIsAccepted
<1>1. Sound(game) => OfferedIsAccepted
  <2>. SUFFICES ASSUME Sound(game), NEW p \in Participants
                PROVE  Offered(game, p) = AcceptedKinds(game, p)
    BY DEF OfferedIsAccepted
  <2>1. Valid(game)
    BY DEF Sound
  <2>2. ASSUME NEW kind \in Offered(game, p) PROVE kind \in AcceptedKinds(game, p)
    <3>1. Open(game, p, kind)
      BY <2>1, OfferedMeaning
    <3>2. \E c \in [type : {"ready"}, ready : {TRUE}] \cup Said :
            c.type = kind /\ Accepts(game, Participant(p), c)
      BY <2>1, <3>1, OpenIsAccepted
    <3>. QED BY <3>2, Zenon DEF AcceptedKinds
  <2>3. ASSUME NEW kind \in AcceptedKinds(game, p) PROVE kind \in Offered(game, p)
    <3>1. PICK c \in [type : {"ready"}, ready : {TRUE}] \cup Said :
            c.type = kind /\ Accepts(game, Participant(p), c)
      BY Zenon DEF AcceptedKinds
    <3>2. Open(game, p, c.type)
      BY <2>1, <3>1, AcceptedIsOpen
    <3>. QED BY <2>1, <3>1, <3>2, OfferedMeaning
  <2>. QED BY <2>2, <2>3
<1>. QED BY <1>1, GameIsSound, PTL

(***************************************************************************)
(* The views of projection.ts give no role away before the end.  However   *)
(* the others might have been seated by assignSeats, a watcher is shown    *)
(* the same: at once, after any time has passed, and after anything a seat *)
(* may say or vote.  For every table size, and whatever the timings are.   *)
(***************************************************************************)
THEOREM RolesAreHidden == Spec => []RolesStayHidden
<1>1. Sound(game) => RolesStayHidden
  <2>. SUFFICES ASSUME Sound(game), Started(game), game.phase # "revealed",
                       NEW seats \in AssignSeats(game.members)
                PROVE  LET other == [game EXCEPT !.seats = seats]
                           unaware == Watchers(game, seats)
                           Alike(s, t) == s.phase # "revealed" =>
                                            \A p \in unaware : View(s, p) = View(t, p)
                       IN /\ Alike(game, other)
                          /\ \A now \in Time :
                               Alike(AdvanceTime(game, now), AdvanceTime(other, now))
                          /\ \A i \in SeatIds(game), command \in Said :
                               Taken(game, i, command) \/ Taken(other, i, command) =>
                                 Alike(After(game, i, command), After(other, i, command))
    BY DEF RolesStayHidden
  <2>. DEFINE other == [game EXCEPT !.seats = seats]
              unaware == Watchers(game, seats)
              Alike(s, t) == s.phase # "revealed" => \A p \in unaware : View(s, p) = View(t, p)
  <2>1. /\ Sound(other) /\ Twin(game, other) /\ other.seats = seats
        /\ other.lastNow = game.lastNow
    BY OtherTable
  <2>2. ASSUME NEW t, NEW w, Twin(t, w), w.lastNow = t.lastNow,
               t.seats = game.seats, w.seats = seats
        PROVE  Alike(t, w)
    BY <2>2, TwinsLookAlike
  <2>. HIDE DEF other, Alike
  <2>3. Alike(game, other)
    BY <2>1, <2>2
  <2>4. ASSUME NEW now \in Time
        PROVE  Alike(AdvanceTime(game, now), AdvanceTime(other, now))
    <3>1. /\ Core(game) /\ Core(other) /\ now \in Nat
          /\ now >= game.lastNow /\ now >= other.lastNow
      BY <2>1, BoundsAssumption DEF Sound, Valid, Core, GameState, Time
    <3>2. Twin(AdvanceTime(game, now), AdvanceTime(other, now))
      BY <2>1, <3>1, AdvanceTimeTwin
    <3>3. /\ AdvanceTime(game, now).lastNow = now /\ AdvanceTime(other, now).lastNow = now
          /\ AdvanceTime(game, now).seats = game.seats
          /\ AdvanceTime(other, now).seats = other.seats
      BY <3>1, AdvanceTimeValid DEF AdvancedTo
    <3>. QED BY <2>1, <2>2, <3>2, <3>3
  <2>5. ASSUME NEW i \in SeatIds(game), NEW command \in Said,
               Taken(game, i, command) \/ Taken(other, i, command)
        PROVE  Alike(After(game, i, command), After(other, i, command))
    BY <2>1, <2>2, <2>5, AfterTwin
  <2>. QED BY <2>3, <2>4, <2>5 DEF other, Alike
<1>. QED BY <1>1, GameIsSound, PTL
=============================================================================
