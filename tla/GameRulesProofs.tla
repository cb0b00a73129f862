--------------------------- MODULE GameRulesProofs ---------------------------
(***************************************************************************)
(* Lemmas about the operators of GameRules, for every value of the         *)
(* constants.  First what each operator does to the fields of a state;     *)
(* then that one expired deadline, the whole deadline loop and an accepted *)
(* command keep a state well formed.                                       *)
(***************************************************************************)
EXTENDS GameRules, Integers, WellFoundedInduction, FiniteSetTheorems, TLAPS

-----------------------------------------------------------------------------
(* Applying a function again and again, as the deadline loop of            *)
(* advanceTime does: nothing here is about the game                        *)

\* Induction over the naturals in terms of a set of numbers.
LEMMA SetInduction ==
  ASSUME NEW S \in SUBSET Nat, 0 \in S, \A n \in S : n + 1 \in S
  PROVE  S = Nat
<1>. SUFFICES ASSUME Nat \ S # {} PROVE FALSE
  OBVIOUS
<1>1. PICK m \in Nat \ S : \A k \in Nat \ S : ~ (<<k, m>> \in OpToRel(<, Nat))
  BY NatLessThanWellFounded, WFMin
<1>2. \A k \in Nat \ S : ~ (k < m)
  BY <1>1 DEF OpToRel
<1>3. m # 0 /\ m - 1 \in Nat
  OBVIOUS
<1>4. m - 1 \in S
  BY <1>2, <1>3
<1>. QED
  BY <1>3, <1>4

\* The first n iterates of F from x.
Upto(F, x, n, g) == g = [i \in 0..n |-> IF i = 0 THEN x ELSE F[g[i - 1]]]

LEMMA UptoExists ==
  ASSUME NEW F, NEW x
  PROVE  \A n \in Nat : \E g : Upto(F, x, n, g)
<1>. DEFINE P(n) == \E g : Upto(F, x, n, g)
            S == {n \in Nat : P(n)}
<1>1. P(0)
  <2>1. Upto(F, x, 0, [i \in 0..0 |-> x])
    BY DEF Upto
  <2>. QED BY <2>1
<1>2. ASSUME NEW n \in Nat, P(n) PROVE P(n + 1)
  <2>1. PICK g : Upto(F, x, n, g)
    BY <1>2
  <2>. DEFINE h == [i \in 0..(n + 1) |-> IF i = n + 1 THEN F[g[n]] ELSE g[i]]
  <2>2. ASSUME NEW i \in 0..(n + 1)
        PROVE  h[i] = IF i = 0 THEN x ELSE F[h[i - 1]]
    <3>1. CASE i = n + 1
      BY <3>1
    <3>2. CASE i # n + 1
      BY <2>1, <3>2 DEF Upto
    <3>. QED BY <3>1, <3>2
  <2>3. h = [i \in 0..(n + 1) |-> IF i = 0 THEN x ELSE F[h[i - 1]]]
    BY <2>2
  <2>4. Upto(F, x, n + 1, h)
    BY <2>3 DEF Upto
  <2>. QED BY <2>4
<1>. HIDE DEF P
<1>3. 0 \in S /\ \A n \in S : n + 1 \in S
  BY <1>1, <1>2
<1>4. S = Nat
  BY <1>3, SetInduction
<1>5. \A n \in Nat : P(n)
  BY <1>4
<1>. QED BY <1>5 DEF P

LEMMA UptoAgree ==
  ASSUME NEW F, NEW x, NEW n \in Nat, NEW m \in Nat, NEW g, NEW h,
         Upto(F, x, n, g), Upto(F, x, m, h)
  PROVE  \A i \in Nat : i <= n /\ i <= m => g[i] = h[i]
<1>. DEFINE S == {i \in Nat : i <= n /\ i <= m => g[i] = h[i]}
<1>1. 0 \in S
  BY DEF Upto
<1>2. ASSUME NEW i \in S PROVE i + 1 \in S
  <2>. SUFFICES ASSUME i + 1 <= n, i + 1 <= m PROVE g[i + 1] = h[i + 1]
    OBVIOUS
  <2>1. g[i + 1] = F[g[i]]
    BY DEF Upto
  <2>2. h[i + 1] = F[h[i]]
    BY DEF Upto
  <2>3. g[i] = h[i]
    OBVIOUS
  <2>. QED BY <2>1, <2>2, <2>3
<1>3. S = Nat
  BY <1>1, <1>2, SetInduction
<1>. QED BY <1>3

\* The recursive definition of the iterates of F has a solution.
LEMMA IteratesExist ==
  ASSUME NEW F, NEW x
  PROVE  \E f : f = [n \in Nat |-> IF n = 0 THEN x ELSE F[f[n - 1]]]
<1>. DEFINE G(n) == CHOOSE g : Upto(F, x, n, g)
            f == [n \in Nat |-> G(n)[n]]
<1>1. \A n \in Nat : Upto(F, x, n, G(n))
  BY UptoExists
<1>. HIDE DEF G
<1>2. ASSUME NEW n \in Nat
      PROVE  f[n] = IF n = 0 THEN x ELSE F[f[n - 1]]
  <2>1. CASE n = 0
    BY <1>1, <2>1 DEF Upto
  <2>2. CASE n # 0
    <3>1. n - 1 \in Nat
      BY <2>2
    <3>2. Upto(F, x, n, G(n)) /\ Upto(F, x, n - 1, G(n - 1))
      BY <1>1, <3>1
    <3>3. \A i \in Nat : i <= n - 1 /\ i <= n => G(n - 1)[i] = G(n)[i]
      BY <3>1, <3>2, UptoAgree
    <3>4. G(n - 1)[n - 1] = G(n)[n - 1]
      BY <3>1, <3>3
    <3>5. G(n)[n] = F[G(n)[n - 1]]
      BY <3>2, <2>2 DEF Upto
    <3>. QED BY <2>2, <3>1, <3>4, <3>5
  <2>. QED BY <2>1, <2>2
<1>3. f = [n \in Nat |-> IF n = 0 THEN x ELSE F[f[n - 1]]]
  BY <1>2
<1>. QED BY <1>3

-----------------------------------------------------------------------------
(* Sizes of tables                                                         *)

LEMMA SeatCountBound ==
  ASSUME NEW n \in Nat, 2 <= n, n <= MaxPlayers
  PROVE  /\ SeatCount(n) \in Nat
         /\ 3 <= SeatCount(n)
         /\ SeatCount(n) <= SeatCount(MaxPlayers)
<1>1. CASE n <= 3 /\ MaxPlayers <= 3
  BY <1>1, PlayersAssumption DEF SeatCount, ShadowCount
<1>2. CASE n <= 3 /\ ~(MaxPlayers <= 3)
  BY <1>2, PlayersAssumption DEF SeatCount, ShadowCount
<1>3. CASE ~(n <= 3) /\ ~(MaxPlayers <= 3)
  BY <1>3, PlayersAssumption DEF SeatCount, ShadowCount
<1>. QED BY <1>1, <1>2, <1>3, PlayersAssumption

LEMMA MaxSeatsBound == MaxSeats \in Nat /\ 3 <= MaxSeats
<1>1. MaxPlayers \in Nat /\ 2 <= MaxPlayers
  BY PlayersAssumption
<1>. QED BY <1>1, SeatCountBound DEF MaxSeats

-----------------------------------------------------------------------------
(* What each operator does to the fields of a state                        *)

\* The fields no operator touches once the table is set.
SameTable(s, t) ==
  /\ t.matchId = s.matchId /\ t.lastNow = s.lastNow
  /\ t.members = s.members /\ t.ready = s.ready /\ t.seats = s.seats

\* What EnterPhase(s, next, at, d) returns.
Entered(s, t, next, at, d) ==
  /\ t \in GameState /\ SameTable(s, t)
  /\ t.phase = next /\ t.phaseToken = s.phaseToken + 1
  /\ t.deadlineAt = d /\ t.loggedAt = at /\ t.phaseAt = at
  /\ t.round = s.round /\ t.answers = s.answers /\ t.debate = s.debate
  /\ t.votes = s.votes /\ t.result = s.result /\ t.revision = s.revision

LEMMA EnterPhaseFields ==
  ASSUME NEW s \in GameState, NEW next \in Phase, NEW at \in Nat,
         NEW d \in Nat \cup {NoTime}
  PROVE  Entered(s, EnterPhase(s, next, at, d), next, at, d)
<1>1. s.phaseToken + 1 \in Nat
  BY DEF GameState
<1>. QED BY <1>1 DEF EnterPhase, Entered, GameState, SameTable

\* What the operators that open a window return.
RoundBegun(s, t, r, at) ==
  /\ t \in GameState /\ SameTable(s, t)
  /\ t.phase = "answering" /\ t.phaseToken = s.phaseToken + 1
  /\ t.deadlineAt = at + ANSWER_MS /\ t.loggedAt = at /\ t.phaseAt = at
  /\ t.round = r /\ t.answers = s.answers /\ t.debate = s.debate
  /\ t.votes = s.votes /\ t.result = s.result /\ t.revision = s.revision

DebateBegun(s, t, at) ==
  /\ t \in GameState /\ SameTable(s, t)
  /\ t.phase = "debating" /\ t.phaseToken = s.phaseToken + 1
  /\ t.deadlineAt = at + ACCUSATION_MS /\ t.loggedAt = at /\ t.phaseAt = at
  /\ t.round = s.round /\ t.answers = s.answers
  /\ t.debate = [NoDebate EXCEPT !.globalDeadlineAt = at + DEBATE_MS]
  /\ t.votes = s.votes /\ t.result = s.result /\ t.revision = s.revision

VotingBegun(s, t, at) ==
  /\ t \in GameState /\ SameTable(s, t)
  /\ t.phase = "voting" /\ t.phaseToken = s.phaseToken + 1
  /\ t.deadlineAt = at + VOTE_MS /\ t.loggedAt = at /\ t.phaseAt = at
  /\ t.round = s.round /\ t.answers = s.answers /\ t.debate = s.debate
  /\ t.votes = s.votes /\ t.result = s.result /\ t.revision = s.revision

Finished(s, t, at) ==
  /\ t \in GameState /\ SameTable(s, t)
  /\ t.phase = "revealed" /\ t.phaseToken = s.phaseToken + 1
  /\ t.deadlineAt = NoTime /\ t.loggedAt = at /\ t.phaseAt = at
  /\ t.round = s.round /\ t.answers = s.answers /\ t.debate = s.debate
  /\ t.votes = s.votes /\ t.result = Settle(s.seats, s.votes)
  /\ t.revision = s.revision

\* A debate that moves to its next step.
StepBegun(s, t, at) ==
  /\ t \in GameState /\ SameTable(s, t)
  /\ t.phase = s.phase /\ t.phaseToken = s.phaseToken + 1
  /\ t.deadlineAt = Earlier(at + StepMs(NextStep(s.debate).step), s.debate.globalDeadlineAt)
  /\ t.loggedAt = s.loggedAt /\ t.phaseAt = s.phaseAt
  /\ t.round = s.round /\ t.answers = s.answers /\ t.debate = NextStep(s.debate)
  /\ t.votes = s.votes /\ t.result = s.result /\ t.revision = s.revision

LEMMA BeginRoundFields ==
  ASSUME NEW s \in GameState, NEW r \in Round, NEW at \in Nat
  PROVE  RoundBegun(s, BeginRound(s, r, at), r, at)
<1>1. at + ANSWER_MS \in Nat /\ s.phaseToken + 1 \in Nat
  BY TimesAssumption DEF GameState
<1>2. r \in 0..LastRound
  BY RoundsAssumption DEF Round
<1>. QED BY <1>1, <1>2 DEF RoundBegun, BeginRound, EnterPhase, GameState, SameTable, Phase

LEMMA BeginDebateFields ==
  ASSUME NEW s \in GameState, NEW at \in Nat
  PROVE  DebateBegun(s, BeginDebate(s, at), at)
<1>. DEFINE d == [NoDebate EXCEPT !.globalDeadlineAt = at + DEBATE_MS]
            u == [s EXCEPT !.debate = d]
            due == at + ACCUSATION_MS
            t == BeginDebate(s, at)
<1>1. at + DEBATE_MS \in Nat /\ 0 \in 0..MaxSeats
  BY TimesAssumption, MaxSeatsBound
<1>2. d \in Debate
  BY <1>1 DEF NoDebate, Debate, DebateStep, NoSeat
<1>3. due \in Nat \cup {NoTime} /\ "debating" \in Phase
  BY TimesAssumption DEF Phase
<1>4. t = EnterPhase(u, "debating", at, due)
  BY DEF BeginDebate
<1>. HIDE DEF d, due, t
<1>5. /\ u \in GameState /\ u.debate = d /\ SameTable(s, u) /\ u.phaseToken = s.phaseToken
      /\ u.round = s.round /\ u.answers = s.answers
      /\ u.votes = s.votes /\ u.result = s.result /\ u.revision = s.revision
  BY <1>2 DEF GameState, SameTable
<1>. HIDE DEF u
<1>6. Entered(u, t, "debating", at, due)
  BY <1>3, <1>4, <1>5, EnterPhaseFields
<1>7. DebateBegun(s, t, at)
  BY <1>5, <1>6 DEF d, due, SameTable, Entered, DebateBegun
<1>. QED BY <1>7 DEF t

LEMMA BeginVotingFields ==
  ASSUME NEW s \in GameState, NEW at \in Nat
  PROVE  VotingBegun(s, BeginVoting(s, at), at)
<1>1. at + VOTE_MS \in Nat /\ s.phaseToken + 1 \in Nat
  BY TimesAssumption DEF GameState
<1>. QED BY <1>1 DEF VotingBegun, BeginVoting, EnterPhase, GameState, SameTable, Phase

LEMMA SettleType ==
  ASSUME NEW s \in GameState, Len(s.seats) <= MaxSeats
  PROVE  Settle(s.seats, s.votes) \in Result
<1>1. Len(s.seats) \in Nat
  BY DEF GameState
<1>2. MaxSeats \in Nat
  BY MaxSeatsBound
<1>3. 1..Len(s.seats) \subseteq SeatNo
  BY <1>1, <1>2 DEF SeatNo
<1>4. Eliminated(s.seats, s.votes) \subseteq SeatNo
  BY <1>3 DEF Eliminated
<1>. QED BY <1>4 DEF Settle, Result

LEMMA FinishFields ==
  ASSUME NEW s \in GameState, Len(s.seats) <= MaxSeats, NEW at \in Nat
  PROVE  Finished(s, Finish(s, at), at)
<1>1. s.phaseToken + 1 \in Nat
  BY DEF GameState
<1>2. Settle(s.seats, s.votes) \in Result
  BY SettleType
<1>. QED BY <1>1, <1>2 DEF Finished, Finish, EnterPhase, GameState, SameTable, Phase, NoTime

\* A step that leads nowhere else than the next one of the debate, or to the vote.
LEMMA NextDebateFields ==
  ASSUME NEW s \in GameState, NEW at \in Nat, s.debate.globalDeadlineAt \in Nat
  PROVE  IF NextStep(s.debate).turnIndex = Len(s.seats)
         THEN VotingBegun([s EXCEPT !.debate = NextStep(s.debate)], NextDebate(s, at), at)
         ELSE StepBegun(s, NextDebate(s, at), at)
<1>. DEFINE d == NextStep(s.debate)
            m == [s EXCEPT !.debate = d]
            t == NextDebate(s, at)
<1>1. d \in Debate /\ d.globalDeadlineAt = s.debate.globalDeadlineAt
  <2>1. s.debate \in Debate
    BY DEF GameState
  <2>2. s.debate.turnIndex + 1 \in Nat /\ NoSeat \in 0..MaxSeats
    BY <2>1, MaxSeatsBound DEF NoSeat, Debate
  <2>3. CASE s.debate.step = "accusation"
    BY <2>1, <2>3 DEF NextStep, Debate, DebateStep
  <2>4. CASE s.debate.step = "response"
    BY <2>1, <2>4 DEF NextStep, Debate, DebateStep
  <2>5. CASE s.debate.step = "followup"
    BY <2>1, <2>2, <2>5 DEF NextStep, Debate, DebateStep
  <2>. QED BY <2>1, <2>3, <2>4, <2>5 DEF Debate, DebateStep
<1>2. /\ m \in GameState /\ SameTable(s, m) /\ m.debate = d /\ m.phase = s.phase
      /\ m.phaseToken = s.phaseToken /\ m.loggedAt = s.loggedAt /\ m.phaseAt = s.phaseAt
      /\ m.round = s.round /\ m.answers = s.answers
      /\ m.votes = s.votes /\ m.result = s.result /\ m.revision = s.revision
  <2>. HIDE DEF d
  <2>. QED BY <1>1 DEF GameState, SameTable
<1>3. CASE d.turnIndex = Len(s.seats)
  <2>1. t = BeginVoting(m, at)
    BY <1>3 DEF NextDebate
  <2>2. VotingBegun(m, BeginVoting(m, at), at)
    <3>. HIDE DEF m
    <3>. QED BY <1>2, BeginVotingFields
  <2>. QED BY <1>3, <2>1, <2>2
<1>4. CASE d.turnIndex # Len(s.seats)
  <2>. DEFINE due == Earlier(at + StepMs(d.step), d.globalDeadlineAt)
  <2>1. due \in Nat
    <3>. HIDE DEF d
    <3>1. StepMs(d.step) \in Nat
      BY <1>1, TimesAssumption DEF StepMs, Debate, DebateStep
    <3>. QED BY <1>1, <3>1 DEF Earlier
  <2>2. t = [m EXCEPT !.phaseToken = @ + 1, !.deadlineAt = due]
    BY <1>4, Zenon DEF NextDebate
  <2>3. m.phaseToken + 1 \in Nat
    <3>. HIDE DEF m
    <3>. QED BY <1>2 DEF GameState
  <2>. HIDE DEF m, due, t, d
  <2>4. /\ t \in GameState /\ SameTable(m, t) /\ t.phaseToken = m.phaseToken + 1
        /\ t.debate = m.debate /\ t.deadlineAt = due /\ t.phase = m.phase
        /\ t.round = m.round /\ t.answers = m.answers
        /\ t.votes = m.votes /\ t.result = m.result /\ t.revision = m.revision
        /\ t.loggedAt = m.loggedAt /\ t.phaseAt = m.phaseAt
    BY <1>2, <2>1, <2>2, <2>3 DEF GameState, SameTable
  <2>5. StepBegun(s, t, at)
    BY <1>1, <1>2, <2>4 DEF SameTable, StepBegun, due, d
  <2>. QED BY <1>4, <2>5 DEF d, t
<1>. QED BY <1>3, <1>4

-----------------------------------------------------------------------------
(* Well-formed states: what the validator asks, but for the deadline, which *)
(* lies in the past while the deadline loop runs.                           *)

Core(s) ==
  /\ s \in GameState
  /\ ValidMembers(s) /\ ValidSeating(s) /\ ValidPhaseFields(s)
  /\ ValidAnswers(s) /\ ValidVotes(s) /\ ValidLog(s) /\ ValidResult(s)

LEMMA SeatBound ==
  ASSUME NEW s \in GameState, ValidMembers(s), ValidSeating(s), Started(s)
  PROVE  /\ Len(s.seats) \in Nat /\ 3 <= Len(s.seats) /\ Len(s.seats) <= MaxSeats
         /\ SeatIds(s) = 1..Len(s.seats) /\ SeatIds(s) \subseteq SeatNo
<1>. DEFINE n == Cardinality(s.members)
<1>1. n \in Nat /\ 2 <= n /\ n <= MaxPlayers
  <2>1. IsFiniteSet(s.members) /\ n <= MaxPlayers
    BY DEF ValidMembers
  <2>2. n >= MinPlayers
    BY DEF ValidMembers, Started
  <2>3. n \in Nat
    BY <2>1, FS_CardinalityType
  <2>. QED BY <2>1, <2>2, <2>3, PlayersAssumption
<1>. HIDE DEF n
<1>2. Len(s.seats) = RoleCounts(n).human + RoleCounts(n).shadow + RoleCounts(n).ai
  BY DEF ValidSeating, ValidSeats, n
<1>3. Len(s.seats) = SeatCount(n)
  BY <1>1, <1>2 DEF RoleCounts, SeatCount, ShadowCount
<1>4. /\ SeatCount(n) \in Nat /\ 3 <= SeatCount(n)
      /\ SeatCount(n) <= SeatCount(MaxPlayers)
  BY <1>1, SeatCountBound
<1>5. Len(s.seats) \in Nat /\ 3 <= Len(s.seats) /\ Len(s.seats) <= MaxSeats
  BY <1>3, <1>4 DEF MaxSeats
<1>. QED BY <1>5, MaxSeatsBound DEF SeatIds, SeatNo

\* The table, once set, stays valid.
LEMMA TableKept ==
  ASSUME NEW s \in GameState, NEW t \in GameState, SameTable(s, t), Started(s), Started(t),
         ValidMembers(s), ValidSeating(s)
  PROVE  ValidMembers(t) /\ ValidSeating(t) /\ SeatIds(t) = SeatIds(s)
<1>1. t.members = s.members /\ t.ready = s.ready /\ t.seats = s.seats
  BY DEF SameTable
<1>2. ValidSeats(s, s.seats) <=> ValidSeats(t, t.seats)
  BY <1>1 DEF ValidSeats
<1>. QED BY <1>1, <1>2 DEF ValidMembers, ValidSeating, Started, SeatIds

LEMMA VotesKept ==
  ASSUME NEW s \in GameState, NEW t \in GameState, SameTable(s, t), t.votes = s.votes,
         ValidVotes(s), s.phase \notin {"voting", "revealed"}, t.phase # "revealed"
  PROVE  ValidVotes(t)
<1>1. Voted(t) = Voted(s) /\ SeatIds(t) = SeatIds(s)
  BY DEF Voted, SeatIds, SameTable
<1>. QED BY <1>1 DEF ValidVotes

LEMMA AnswersKept ==
  ASSUME NEW s \in GameState, NEW t \in GameState, SameTable(s, t), t.answers = s.answers,
         ValidAnswers(s), Started(s), s.phase # "answering",
         Started(t), t.phase # "answering"
  PROVE  ValidAnswers(t)
<1>1. SeatIds(t) = SeatIds(s) /\ \A r \in Round : Answered(t, r) = Answered(s, r)
  BY DEF Answered, SeatIds, SameTable
<1>. QED BY <1>1 DEF ValidAnswers

\* The revision is no part of what the validator asks, beyond its type.
LEMMA NumberedCore ==
  ASSUME NEW s, Core(s)
  PROVE  Core([s EXCEPT !.revision = @ + 1])
<1>. DEFINE t == [s EXCEPT !.revision = @ + 1]
<1>1. s \in GameState
  BY DEF Core
<1>2. s.revision + 1 \in Nat
  BY <1>1 DEF GameState
<1>3. /\ t \in GameState /\ SameTable(s, t) /\ t.phase = s.phase
      /\ t.deadlineAt = s.deadlineAt /\ t.loggedAt = s.loggedAt /\ t.round = s.round
      /\ t.answers = s.answers /\ t.debate = s.debate
      /\ t.votes = s.votes /\ t.result = s.result
  BY <1>1, <1>2 DEF GameState, SameTable
<1>. HIDE DEF t
<1>4. ValidMembers(t) /\ ValidSeating(t)
  BY <1>3 DEF Core, ValidMembers, ValidSeating, ValidSeats, Started, SameTable
<1>5. ValidPhaseFields(t) /\ ValidLog(t) /\ ValidResult(t)
  BY <1>3 DEF Core, ValidPhaseFields, ValidLog, ValidResult, Started, SameTable
<1>6. ValidAnswers(t)
  <2>1. SeatIds(t) = SeatIds(s) /\ \A r \in Round : Answered(t, r) = Answered(s, r)
    BY <1>3 DEF Answered, SeatIds, SameTable
  <2>. QED BY <1>3, <2>1 DEF Core, ValidAnswers, Started
<1>7. ValidVotes(t)
  <2>1. Voted(t) = Voted(s) /\ SeatIds(t) = SeatIds(s)
    BY <1>3 DEF Voted, SeatIds, SameTable
  <2>. QED BY <1>3, <2>1 DEF Core, ValidVotes, IsTarget
<1>. QED BY <1>3, <1>4, <1>5, <1>6, <1>7 DEF Core, t


-----------------------------------------------------------------------------
(* What the expiry of a window writes for those who said nothing.          *)

\* All but the answers and the votes.
Unmoved(s, t) ==
  /\ t.phase = s.phase /\ t.phaseToken = s.phaseToken /\ t.revision = s.revision
  /\ t.round = s.round /\ t.deadlineAt = s.deadlineAt /\ t.debate = s.debate
  /\ t.result = s.result /\ t.loggedAt = s.loggedAt /\ t.phaseAt = s.phaseAt

\* What a seat has said stays as it is.
Heard(s, t) ==
  /\ \A r \in Round, i \in SeatNo :
       s.answers[r][i] # "none" => t.answers[r][i] = s.answers[r][i]
  /\ \A i \in SeatNo : s.votes[i] # NotVoted => t.votes[i] = s.votes[i]

Filled(s, t) ==
  /\ t \in GameState /\ SameTable(s, t) /\ Unmoved(s, t) /\ t.votes = s.votes /\ Heard(s, t)
  /\ Answered(t, s.round) = Answered(s, s.round) \cup SeatIds(s)
  /\ \A r \in Round : r # s.round => Answered(t, r) = Answered(s, r)

Abstained(s, t) ==
  /\ t \in GameState /\ SameTable(s, t) /\ Unmoved(s, t) /\ t.answers = s.answers /\ Heard(s, t)
  /\ Voted(t) = Voted(s) \cup SeatIds(s)
  /\ \A i \in SeatNo : t.votes[i] = s.votes[i] \/ t.votes[i] = NoSeat

LEMMA FillAnswersFields ==
  ASSUME NEW s \in GameState, s.round \in Round, SeatIds(s) \subseteq SeatNo
  PROVE  Filled(s, FillAnswers(s))
<1>. DEFINE row == [i \in SeatNo |->
              IF i \in SeatIds(s) /\ s.answers[s.round][i] = "none" THEN "default"
              ELSE s.answers[s.round][i]]
            all == [s.answers EXCEPT ![s.round] = row]
            t == FillAnswers(s)
<1>1. s.answers \in [Round -> [SeatNo -> Answer]]
  BY DEF GameState
<1>2. row \in [SeatNo -> Answer]
  BY <1>1 DEF Answer
<1>3. t = [s EXCEPT !.answers = all]
  BY DEF FillAnswers
<1>4. \A i \in SeatNo : row[i] # "none" <=> s.answers[s.round][i] # "none" \/ i \in SeatIds(s)
  OBVIOUS
<1>4a. \A i \in SeatNo : s.answers[s.round][i] # "none" => row[i] = s.answers[s.round][i]
  OBVIOUS
<1>. HIDE DEF row
<1>5. /\ all \in [Round -> [SeatNo -> Answer]] /\ all[s.round] = row
      /\ \A r \in Round : r # s.round => all[r] = s.answers[r]
  BY <1>1, <1>2
<1>. HIDE DEF all, t
<1>6. t \in GameState /\ SameTable(s, t) /\ Unmoved(s, t) /\ t.votes = s.votes /\ t.answers = all
  BY <1>3, <1>5 DEF GameState, SameTable, Unmoved
<1>7. Answered(t, s.round) = Answered(s, s.round) \cup SeatIds(s)
  BY <1>4, <1>5, <1>6 DEF Answered
<1>8. \A r \in Round : r # s.round => Answered(t, r) = Answered(s, r)
  BY <1>5, <1>6 DEF Answered
<1>9. Heard(s, t)
  <2>1. \A r \in Round, i \in SeatNo : s.answers[r][i] # "none" => all[r][i] = s.answers[r][i]
    BY <1>4a, <1>5
  <2>. QED BY <1>6, <2>1 DEF Heard
<1>10. Filled(s, t)
  BY <1>6, <1>7, <1>8, <1>9 DEF Filled
<1>. QED BY <1>10 DEF t

LEMMA AbstainAllFields ==
  ASSUME NEW s \in GameState, SeatIds(s) \subseteq SeatNo
  PROVE  Abstained(s, AbstainAll(s))
<1>. DEFINE row == [i \in SeatNo |->
              IF i \in SeatIds(s) /\ s.votes[i] = NotVoted THEN NoSeat ELSE s.votes[i]]
            t == AbstainAll(s)
<1>1. s.votes \in [SeatNo -> {NotVoted} \cup 0..MaxSeats] /\ NoSeat \in 0..MaxSeats
  BY MaxSeatsBound DEF GameState, NoSeat
<1>2. row \in [SeatNo -> {NotVoted} \cup 0..MaxSeats]
  BY <1>1
<1>3. t = [s EXCEPT !.votes = row]
  BY DEF AbstainAll
<1>4. /\ \A i \in SeatNo : row[i] # NotVoted <=> s.votes[i] # NotVoted \/ i \in SeatIds(s)
      /\ \A i \in SeatNo : row[i] = s.votes[i] \/ row[i] = NoSeat
      /\ \A i \in SeatNo : s.votes[i] # NotVoted => row[i] = s.votes[i]
  BY DEF NoSeat, NotVoted
<1>. HIDE DEF row, t
<1>5. t \in GameState /\ SameTable(s, t) /\ Unmoved(s, t) /\ t.answers = s.answers /\ t.votes = row
  BY <1>2, <1>3 DEF GameState, SameTable, Unmoved
<1>6. Voted(t) = Voted(s) \cup SeatIds(s)
  BY <1>4, <1>5 DEF Voted
<1>7. Heard(s, t)
  BY <1>4, <1>5 DEF Heard
<1>8. Abstained(s, t)
  BY <1>4, <1>5, <1>6, <1>7 DEF Abstained
<1>. QED BY <1>8 DEF t

-----------------------------------------------------------------------------
(* One expired deadline                                                    *)

\* The next window of a match: a well-formed state, further on than before.
Onward(s, t) == Core(t) /\ SameTable(s, t) /\ Progress(t) > Progress(s)

LEMMA ExpireAnsweringCore ==
  ASSUME NEW s, Core(s), s.phase = "answering", Due(s, s.lastNow)
  PROVE  Onward(s, ExpireAnswering(s, s.deadlineAt))
<1>. DEFINE at == s.deadlineAt
            u == FillAnswers(s)
            t == EndRound(u, at)
<1>1. /\ s \in GameState /\ ValidMembers(s) /\ ValidSeating(s) /\ ValidPhaseFields(s)
      /\ ValidAnswers(s) /\ ValidVotes(s) /\ ValidResult(s) /\ Started(s)
  BY DEF Core, Started
<1>2. at \in Nat /\ at <= s.lastNow /\ s.lastNow \in Nat
  BY <1>1 DEF Due, GameState, NoTime
<1>3. s.round \in Round /\ SeatIds(s) \subseteq SeatNo
  BY <1>1, SeatBound DEF ValidPhaseFields
<1>4. Filled(s, u)
  BY <1>1, <1>3, FillAnswersFields
<1>5. t = ExpireAnswering(s, s.deadlineAt)
  BY DEF ExpireAnswering
<1>. HIDE DEF at, u
<1>6. u \in GameState /\ SameTable(s, u) /\ u.round = s.round
  BY <1>4 DEF Filled, Unmoved
<1>7. \A r \in Round : r <= s.round => Answered(u, r) = SeatIds(s)
  BY <1>1, <1>3, <1>4 DEF Filled, ValidAnswers, Round
<1>8. \A r \in Round : r > s.round => Answered(u, r) = {}
  BY <1>1, <1>3, <1>4 DEF Filled, ValidAnswers, Round
<1>9. CASE s.round < LastRound
  <2>. DEFINE n == s.round + 1
  <2>1. n \in Round /\ t = BeginRound(u, n, at)
    BY <1>3, <1>6, <1>9, RoundsAssumption DEF EndRound, Round
  <2>. HIDE DEF n, t
  <2>2. RoundBegun(u, t, n, at)
    BY <1>2, <1>6, <2>1, BeginRoundFields
  <2>3. t \in GameState /\ SameTable(s, t) /\ t.phase = "answering" /\ t.round = n
        /\ t.answers = u.answers /\ t.votes = s.votes /\ t.debate = s.debate
        /\ t.result = s.result /\ t.loggedAt = at /\ t.deadlineAt = at + ANSWER_MS
    BY <1>4, <1>6, <2>2 DEF RoundBegun, SameTable, Filled, Unmoved
  <2>4. ValidMembers(t) /\ ValidSeating(t) /\ SeatIds(t) = SeatIds(s)
    BY <1>1, <2>3, TableKept DEF Started
  <2>5. ValidVotes(t)
    BY <1>1, <2>3, VotesKept
  <2>6. ValidAnswers(t)
    <3>1. \A r \in Round : Answered(t, r) = Answered(u, r)
      BY <2>3 DEF Answered
    <3>2. \A r \in Round : (r < n <=> r <= s.round) /\ (r > n => r > s.round)
      BY <1>3 DEF n, Round
    <3>3. \A r \in Round : Answered(u, r) \subseteq SeatIds(s)
      BY <1>3, <1>7, <1>8 DEF Round
    <3>. QED BY <1>7, <1>8, <2>3, <2>4, <3>1, <3>2, <3>3 DEF ValidAnswers, Started
  <2>7. ValidPhaseFields(t) /\ ValidLog(t) /\ ValidResult(t)
    <3>1. t.deadlineAt # NoTime
      BY <1>2, <2>3, TimesAssumption DEF NoTime
    <3>. QED BY <1>1, <1>2, <2>1, <2>3, <3>1
           DEF ValidPhaseFields, ValidLog, ValidResult, Started, SameTable
  <2>8. Progress(t) > Progress(s)
    BY <1>3, <2>3 DEF Progress, n, Round
  <2>9. Onward(s, t)
    BY <2>3, <2>4, <2>5, <2>6, <2>7, <2>8 DEF Core, Onward
  <2>. QED BY <1>5, <2>9 DEF t
<1>10. CASE ~(s.round < LastRound)
  <2>1. s.round = LastRound /\ t = BeginDebate(u, at)
    BY <1>3, <1>6, <1>10, RoundsAssumption DEF EndRound, Round
  <2>. HIDE DEF t
  <2>2. DebateBegun(u, t, at)
    BY <1>2, <1>6, <2>1, BeginDebateFields
  <2>3. t \in GameState /\ SameTable(s, t) /\ t.phase = "debating" /\ t.round = s.round
        /\ t.answers = u.answers /\ t.votes = s.votes
        /\ t.debate = [NoDebate EXCEPT !.globalDeadlineAt = at + DEBATE_MS]
        /\ t.result = s.result /\ t.loggedAt = at /\ t.deadlineAt = at + ACCUSATION_MS
    BY <1>4, <1>6, <2>2 DEF DebateBegun, SameTable, Filled, Unmoved
  <2>4. ValidMembers(t) /\ ValidSeating(t) /\ SeatIds(t) = SeatIds(s)
    BY <1>1, <2>3, TableKept DEF Started
  <2>5. ValidVotes(t)
    BY <1>1, <2>3, VotesKept
  <2>6. ValidAnswers(t)
    <3>1. \A r \in Round : Answered(t, r) = SeatIds(s)
      BY <1>7, <2>1, <2>3 DEF Answered, Round
    <3>. QED BY <2>3, <2>4, <3>1 DEF ValidAnswers, Started
  <2>7. t.debate.turnIndex = 0 /\ t.debate.step = "accusation"
        /\ t.debate.globalDeadlineAt = at + DEBATE_MS
    BY <2>3 DEF NoDebate
  <2>8. ValidPhaseFields(t)
    <3>1. t.deadlineAt # NoTime /\ t.debate.globalDeadlineAt # NoTime
          /\ t.deadlineAt <= t.debate.globalDeadlineAt
      BY <1>2, <2>3, <2>7, TimesAssumption DEF NoTime
    <3>2. t.debate.turnIndex < Len(t.seats)
      BY <2>3, <2>4, <2>7, SeatBound DEF Started
    <3>. QED BY <1>3, <2>3, <3>1, <3>2 DEF ValidPhaseFields, Started
  <2>9. ValidLog(t) /\ ValidResult(t)
    BY <1>1, <1>2, <2>3 DEF ValidLog, ValidResult, SameTable
  <2>10. Progress(t) > Progress(s)
    BY <2>1, <2>3, <2>7, RoundsAssumption DEF Progress, StepIndex
  <2>11. Onward(s, t)
    BY <2>3, <2>4, <2>5, <2>6, <2>8, <2>9, <2>10 DEF Core, Onward
  <2>. QED BY <1>5, <2>11 DEF t
<1>. QED BY <1>9, <1>10

\* A debate turned into the vote, whatever its last step changed in it.
LEMMA VotingCore ==
  ASSUME NEW s, Core(s), s.phase = "debating", NEW at \in Nat, at <= s.lastNow,
         NEW m \in GameState, SameTable(s, m), m.round = s.round, m.answers = s.answers,
         m.votes = s.votes, m.result = s.result,
         m.debate.globalDeadlineAt = s.debate.globalDeadlineAt,
         NEW t, VotingBegun(m, t, at)
  PROVE  Onward(s, t)
<1>1. /\ s \in GameState /\ ValidMembers(s) /\ ValidSeating(s) /\ ValidPhaseFields(s)
      /\ ValidAnswers(s) /\ ValidVotes(s) /\ ValidResult(s) /\ Started(s)
  BY DEF Core, Started
<1>2. /\ t \in GameState /\ SameTable(s, t) /\ t.phase = "voting" /\ t.round = s.round
      /\ t.answers = s.answers /\ t.votes = s.votes /\ t.result = s.result
      /\ t.debate.globalDeadlineAt = s.debate.globalDeadlineAt
      /\ t.loggedAt = at /\ t.deadlineAt = at + VOTE_MS
  BY DEF VotingBegun, SameTable
<1>3. ValidMembers(t) /\ ValidSeating(t)
  BY <1>1, <1>2, TableKept DEF Started
<1>4. ValidVotes(t)
  BY <1>1, <1>2, VotesKept
<1>5. ValidAnswers(t)
  BY <1>1, <1>2, AnswersKept DEF Started
<1>6. ValidPhaseFields(t)
  <2>1. t.deadlineAt # NoTime
    BY <1>2, TimesAssumption DEF NoTime
  <2>. QED BY <1>1, <1>2, <2>1 DEF ValidPhaseFields, Started
<1>7. ValidLog(t) /\ ValidResult(t)
  BY <1>1, <1>2 DEF ValidLog, ValidResult, SameTable
<1>8. Progress(t) > Progress(s)
  <2>1. s.debate \in Debate
    BY <1>1 DEF GameState
  <2>2. /\ s.debate.turnIndex \in Nat /\ s.debate.turnIndex < Len(s.seats)
        /\ Len(s.seats) \in Nat /\ Len(s.seats) <= MaxSeats
    BY <1>1, <2>1, SeatBound DEF ValidPhaseFields, Debate
  <2>. DEFINE turn == s.debate.turnIndex
              step == StepIndex(s.debate.step)
              len == Len(s.seats)
  <2>3. step \in 0..2
    BY <2>1 DEF StepIndex, Debate, DebateStep
  <2>4. Progress(s) = 2 + LastRound + 3 * turn + step
    BY DEF Progress
  <2>5. Progress(t) = 2 + LastRound + 3 * MaxSeats
    BY <1>2 DEF Progress
  <2>6. turn \in Nat /\ turn < len /\ len \in Nat /\ len <= MaxSeats
    BY <2>2
  <2>. HIDE DEF turn, step, len
  <2>. QED BY <2>3, <2>4, <2>5, <2>6, MaxSeatsBound, RoundsAssumption
<1>. QED BY <1>2, <1>3, <1>4, <1>5, <1>6, <1>7, <1>8 DEF Core, Onward

LEMMA NextDebateCore ==
  ASSUME NEW s, Core(s), s.phase = "debating", NEW at \in Nat, at <= s.lastNow
  PROVE  Onward(s, NextDebate(s, at))
<1>. DEFINE d == NextStep(s.debate)
            m == [s EXCEPT !.debate = d]
            t == NextDebate(s, at)
<1>1. /\ s \in GameState /\ ValidMembers(s) /\ ValidSeating(s) /\ ValidPhaseFields(s)
      /\ ValidAnswers(s) /\ ValidVotes(s) /\ ValidResult(s) /\ ValidLog(s) /\ Started(s)
  BY DEF Core, Started
<1>2. /\ s.debate \in Debate /\ s.debate.globalDeadlineAt \in Nat
      /\ s.debate.turnIndex \in Nat /\ s.debate.turnIndex < Len(s.seats)
      /\ Len(s.seats) \in Nat /\ Len(s.seats) <= MaxSeats
  <2>1. s.debate \in Debate
    BY <1>1 DEF GameState
  <2>. QED BY <1>1, <2>1, SeatBound DEF ValidPhaseFields, Debate
\* What the next step is.
<1>3. /\ d \in Debate /\ d.globalDeadlineAt = s.debate.globalDeadlineAt
      /\ d.turnIndex <= s.debate.turnIndex + 1 /\ d.turnIndex \in Nat
      /\ 3 * d.turnIndex + StepIndex(d.step)
           > 3 * s.debate.turnIndex + StepIndex(s.debate.step)
  <2>1. s.debate.turnIndex + 1 \in Nat /\ NoSeat \in 0..MaxSeats
    BY <1>2, MaxSeatsBound DEF NoSeat
  <2>2. CASE s.debate.step = "accusation"
    <3>1. d = [s.debate EXCEPT !.step = "response"]
      BY <2>2 DEF NextStep
    <3>. HIDE DEF d
    <3>. QED BY <1>2, <2>2, <3>1 DEF Debate, DebateStep, StepIndex
  <2>3. CASE s.debate.step = "response"
    <3>1. d = [s.debate EXCEPT !.step = "followup"]
      BY <2>3 DEF NextStep
    <3>. HIDE DEF d
    <3>. QED BY <1>2, <2>3, <3>1 DEF Debate, DebateStep, StepIndex
  <2>4. CASE s.debate.step = "followup"
    <3>1. d = [s.debate EXCEPT !.turnIndex = @ + 1, !.step = "accusation",
                               !.targetSeat = NoSeat]
      BY <2>4 DEF NextStep
    <3>. HIDE DEF d
    <3>2. d \in Debate /\ d.globalDeadlineAt = s.debate.globalDeadlineAt
          /\ d.turnIndex = s.debate.turnIndex + 1 /\ d.step = "accusation"
      BY <1>2, <2>1, <3>1 DEF Debate, DebateStep
    <3>. QED BY <1>2, <2>4, <3>2 DEF StepIndex
  <2>. QED BY <1>2, <2>2, <2>3, <2>4 DEF Debate, DebateStep
<1>4. /\ m \in GameState /\ SameTable(s, m) /\ m.round = s.round /\ m.answers = s.answers
      /\ m.votes = s.votes /\ m.result = s.result
      /\ m.debate.globalDeadlineAt = s.debate.globalDeadlineAt
  <2>. HIDE DEF d
  <2>. QED BY <1>1, <1>3 DEF GameState, SameTable
<1>5. IF d.turnIndex = Len(s.seats) THEN VotingBegun(m, t, at) ELSE StepBegun(s, t, at)
  BY <1>1, <1>2, NextDebateFields
<1>6. CASE d.turnIndex = Len(s.seats)
  <2>1. VotingBegun(m, t, at)
    BY <1>5, <1>6
  <2>. HIDE DEF m, t
  <2>2. Onward(s, t)
    BY <1>4, <2>1, VotingCore
  <2>. QED BY <2>2 DEF t
<1>7. CASE d.turnIndex # Len(s.seats)
  <2>1. StepBegun(s, t, at)
    BY <1>5, <1>7
  <2>2. t.deadlineAt = Earlier(at + StepMs(d.step), s.debate.globalDeadlineAt)
        /\ t.debate = d
    BY <2>1 DEF StepBegun
  <2>3. StepMs(d.step) \in Nat
    <3>. HIDE DEF d
    <3>. QED BY <1>3, TimesAssumption DEF StepMs, Debate, DebateStep
  <2>. HIDE DEF d, t
  <2>4. t.deadlineAt \in Nat /\ t.deadlineAt <= t.debate.globalDeadlineAt
        /\ t.debate.globalDeadlineAt \in Nat /\ t.debate.turnIndex < Len(s.seats)
    <3>. DEFINE due == at + StepMs(d.step)
                end == s.debate.globalDeadlineAt
                turn == s.debate.turnIndex
                next == d.turnIndex
                len == Len(s.seats)
    <3>1. due \in Nat /\ end \in Nat
      BY <1>2, <2>3
    <3>2. next \in Nat /\ turn \in Nat /\ len \in Nat
          /\ next <= turn + 1 /\ turn < len /\ next # len
      BY <1>2, <1>3, <1>7
    <3>3. t.deadlineAt = Earlier(due, end) /\ t.debate.globalDeadlineAt = end
          /\ t.debate.turnIndex = next
      BY <1>3, <2>2
    <3>. HIDE DEF due, end, turn, next, len
    <3>4. Earlier(due, end) \in Nat /\ Earlier(due, end) <= end
      BY <3>1 DEF Earlier
    <3>5. next < len
      BY <3>2
    <3>. QED BY <3>1, <3>3, <3>4, <3>5 DEF len
  <2>5. /\ t \in GameState /\ SameTable(s, t) /\ t.phase = "debating" /\ t.round = s.round
        /\ t.answers = s.answers /\ t.votes = s.votes /\ t.result = s.result
        /\ t.loggedAt = s.loggedAt
    BY <2>1 DEF StepBegun
  <2>6. ValidMembers(t) /\ ValidSeating(t)
    BY <1>1, <2>5, TableKept DEF Started
  <2>7. ValidVotes(t)
    BY <1>1, <2>5, VotesKept
  <2>8. ValidAnswers(t)
    BY <1>1, <2>5, AnswersKept DEF Started
  <2>9. ValidPhaseFields(t)
    BY <1>1, <2>4, <2>5 DEF ValidPhaseFields, Started, NoTime, SameTable
  <2>10. ValidLog(t) /\ ValidResult(t)
    BY <1>1, <2>5 DEF ValidLog, ValidResult, SameTable
  <2>11. Progress(t) > Progress(s)
    <3>1. Progress(t) = 2 + LastRound + 3 * d.turnIndex + StepIndex(d.step)
      BY <2>2, <2>5 DEF Progress
    <3>2. Progress(s) = 2 + LastRound + 3 * s.debate.turnIndex + StepIndex(s.debate.step)
      BY DEF Progress
    <3>3. StepIndex(d.step) \in 0..2 /\ StepIndex(s.debate.step) \in 0..2
      BY <1>2, <1>3 DEF StepIndex, Debate, DebateStep
    <3>. DEFINE x == 3 * d.turnIndex + StepIndex(d.step)
                y == 3 * s.debate.turnIndex + StepIndex(s.debate.step)
    <3>4. x > y /\ x \in Nat /\ y \in Nat
      BY SMTT(60), <1>2, <1>3, <3>3
    <3>5. Progress(t) = 2 + LastRound + x /\ Progress(s) = 2 + LastRound + y
      BY SMTT(60), <1>2, <1>3, <3>1, <3>2, <3>3, RoundsAssumption
    <3>. HIDE DEF x, y
    <3>. QED BY <3>4, <3>5, RoundsAssumption
  <2>12. Onward(s, t)
    BY <2>5, <2>6, <2>7, <2>8, <2>9, <2>10, <2>11 DEF Core, Onward
  <2>. QED BY <2>12 DEF t
<1>. QED BY <1>6, <1>7

\* Touching the log or the accused seat of a debate leaves the rest of it alone.
LEMMA SpokenCore ==
  ASSUME NEW s, Core(s), s.phase = "debating", NEW at \in Nat, at <= s.lastNow,
         NEW seat \in 0..MaxSeats,
         NEW u, \/ u = Logged(s, at)
                \/ u = Logged([s EXCEPT !.debate.targetSeat = seat], at)
  PROVE  /\ Core(u) /\ SameTable(s, u) /\ Progress(u) = Progress(s)
         /\ u.phase = s.phase /\ u.phaseToken = s.phaseToken /\ u.revision = s.revision
<1>1. /\ s \in GameState /\ ValidMembers(s) /\ ValidSeating(s) /\ ValidPhaseFields(s)
      /\ ValidAnswers(s) /\ ValidVotes(s) /\ ValidResult(s) /\ ValidLog(s) /\ Started(s)
      /\ s.debate \in Debate
  BY DEF Core, Started, GameState
<1>2. PICK d \in Debate :
        /\ u = [s EXCEPT !.debate = d, !.loggedAt = at]
        /\ d.turnIndex = s.debate.turnIndex /\ d.step = s.debate.step
        /\ d.globalDeadlineAt = s.debate.globalDeadlineAt
  <2>1. CASE u = Logged(s, at)
    <3>. DEFINE d == s.debate
    <3>1. u = [s EXCEPT !.debate = d, !.loggedAt = at]
      BY <1>1, <2>1 DEF Logged, GameState
    <3>. QED BY <1>1, <3>1
  <2>2. CASE u = Logged([s EXCEPT !.debate.targetSeat = seat], at)
    <3>. DEFINE d == [s.debate EXCEPT !.targetSeat = seat]
    <3>1. u = [s EXCEPT !.debate = d, !.loggedAt = at]
      BY <2>2 DEF Logged
    <3>2. d \in Debate /\ d.turnIndex = s.debate.turnIndex /\ d.step = s.debate.step
          /\ d.globalDeadlineAt = s.debate.globalDeadlineAt
      BY <1>1 DEF Debate
    <3>. QED BY <3>1, <3>2
  <2>. QED BY <2>1, <2>2
<1>3. /\ u \in GameState /\ SameTable(s, u) /\ u.phase = s.phase /\ u.phaseToken = s.phaseToken
      /\ u.revision = s.revision /\ u.round = s.round /\ u.answers = s.answers
      /\ u.debate = d /\ u.deadlineAt = s.deadlineAt /\ u.votes = s.votes
      /\ u.result = s.result /\ u.loggedAt = at
  BY <1>1, <1>2 DEF GameState, SameTable
<1>4. ValidMembers(u) /\ ValidSeating(u)
  BY <1>1, <1>3, TableKept DEF Started
<1>5. ValidVotes(u)
  BY <1>1, <1>3, VotesKept
<1>6. ValidAnswers(u)
  BY <1>1, <1>3, AnswersKept DEF Started
<1>7. ValidPhaseFields(u) /\ ValidResult(u) /\ ValidLog(u)
  BY <1>1, <1>2, <1>3 DEF ValidPhaseFields, ValidResult, ValidLog, Started, SameTable
<1>8. Progress(u) = Progress(s)
  BY <1>2, <1>3 DEF Progress
<1>. QED BY <1>3, <1>4, <1>5, <1>6, <1>7, <1>8 DEF Core

\* The seat that a silent accuser is taken to accuse: its neighbour.
LEMMA NextSeatType ==
  ASSUME NEW s \in GameState, ValidMembers(s), ValidSeating(s), Started(s)
  PROVE  (Accuser(s) % Len(s.seats)) + 1 \in 0..MaxSeats
<1>. DEFINE a == Accuser(s)
            n == Len(s.seats)
            next == (a % n) + 1
<1>1. n \in Nat /\ 3 <= n /\ n <= MaxSeats
  BY SeatBound
<1>2. a \in Nat
  BY DEF Accuser, GameState, Debate
<1>3. a % n \in 0..(n - 1)
  <2>. HIDE DEF a, n
  <2>1. a \in Nat /\ n \in Nat /\ n > 0 => a % n \in 0..(n - 1)
    OBVIOUS
  <2>. QED BY <1>1, <1>2, <2>1
<1>. HIDE DEF a, n
<1>4. next \in 0..MaxSeats
  BY <1>1, <1>3, MaxSeatsBound
<1>. QED BY <1>4 DEF a, n

LEMMA ExpireDebatingCore ==
  ASSUME NEW s, Core(s), s.phase = "debating", Due(s, s.lastNow)
  PROVE  Onward(s, ExpireDebating(s, s.deadlineAt))
<1>. DEFINE at == s.deadlineAt
            t == ExpireDebating(s, at)
<1>1. /\ s \in GameState /\ ValidMembers(s) /\ ValidSeating(s) /\ ValidPhaseFields(s)
      /\ Started(s)
  BY DEF Core, Started
<1>2. at \in Nat /\ at <= s.lastNow
  BY <1>1 DEF Due, GameState, NoTime
<1>. HIDE DEF at
<1>3. CASE at >= s.debate.globalDeadlineAt
  <2>1. t = BeginVoting(s, at)
    BY <1>3 DEF ExpireDebating
  <2>2. VotingBegun(s, BeginVoting(s, at), at)
    BY <1>1, <1>2, BeginVotingFields
  <2>3. SameTable(s, s)
    BY DEF SameTable
  <2>4. Onward(s, BeginVoting(s, at))
    BY <1>1, <1>2, <2>2, <2>3, VotingCore
  <2>. QED BY <2>1, <2>4 DEF at
<1>4. CASE ~(at >= s.debate.globalDeadlineAt)
  <2>. DEFINE seat == (Accuser(s) % Len(s.seats)) + 1
              u == IF s.debate.step = "accusation"
                   THEN Logged([s EXCEPT !.debate.targetSeat = seat], at)
                   ELSE Logged(s, at)
  <2>1. t = NextDebate(u, at)
    BY <1>4 DEF ExpireDebating
  <2>2. seat \in 0..MaxSeats
    BY <1>1, NextSeatType
  <2>. HIDE DEF seat
  <2>3. Core(u) /\ SameTable(s, u) /\ Progress(u) = Progress(s) /\ u.phase = "debating"
    <3>1. u = Logged(s, at) \/ u = Logged([s EXCEPT !.debate.targetSeat = seat], at)
      OBVIOUS
    <3>. HIDE DEF u
    <3>. QED BY <1>2, <2>2, <3>1, SpokenCore
  <2>. HIDE DEF u, t
  <2>4. Onward(u, NextDebate(u, at))
    BY <1>2, <2>3, NextDebateCore DEF SameTable
  <2>5. Onward(s, t)
    BY <2>1, <2>3, <2>4 DEF Onward, SameTable
  <2>. QED BY <2>5 DEF t, at
<1>. QED BY <1>3, <1>4

\* A finished vote.
LEMMA FinishCore ==
  ASSUME NEW s, Core(s), s.phase = "voting", NEW at \in Nat, at <= s.lastNow,
         NEW u \in GameState, SameTable(s, u), u.round = s.round, u.debate = s.debate,
         u.answers = s.answers, Voted(u) = SeatIds(s),
         \A i \in Voted(u) : u.votes[i] = NoSeat \/ IsTarget(s, i, u.votes[i])
  PROVE  Onward(s, Finish(u, at))
<1>. DEFINE t == Finish(u, at)
<1>1. /\ s \in GameState /\ ValidMembers(s) /\ ValidSeating(s) /\ ValidPhaseFields(s)
      /\ ValidAnswers(s) /\ Started(s)
  BY DEF Core, Started
<1>2. Len(u.seats) <= MaxSeats
  BY <1>1, SeatBound DEF SameTable
<1>3. Finished(u, t, at)
  BY <1>2, FinishFields
<1>. HIDE DEF t
<1>4. /\ t \in GameState /\ SameTable(s, t) /\ t.phase = "revealed" /\ t.round = s.round
      /\ t.answers = s.answers /\ t.votes = u.votes /\ t.debate = s.debate
      /\ t.result = Settle(t.seats, t.votes) /\ t.loggedAt = at /\ t.deadlineAt = NoTime
  BY <1>3 DEF Finished, SameTable
<1>5. ValidMembers(t) /\ ValidSeating(t) /\ SeatIds(t) = SeatIds(s)
  BY <1>1, <1>4, TableKept DEF Started
<1>6. ValidVotes(t)
  <2>1. Voted(t) = SeatIds(t)
    BY <1>4, <1>5 DEF Voted
  <2>2. \A i \in Voted(t) : t.votes[i] = NoSeat \/ IsTarget(t, i, t.votes[i])
    BY <1>4, <1>5, <2>1 DEF IsTarget
  <2>. QED BY <1>4, <2>1, <2>2 DEF ValidVotes
<1>7. ValidAnswers(t)
  BY <1>1, <1>4, AnswersKept DEF Started
<1>8. ValidPhaseFields(t) /\ ValidResult(t) /\ ValidLog(t)
  BY <1>1, <1>4 DEF ValidPhaseFields, ValidResult, ValidLog, Started, SameTable
<1>9. Progress(t) > Progress(s)
  BY <1>4, MaxSeatsBound, RoundsAssumption DEF Progress
<1>10. Onward(s, t)
  BY <1>4, <1>5, <1>6, <1>7, <1>8, <1>9 DEF Onward, Core
<1>. QED BY <1>10 DEF t

LEMMA ExpireVotingCore ==
  ASSUME NEW s, Core(s), s.phase = "voting", Due(s, s.lastNow)
  PROVE  Onward(s, ExpireVoting(s, s.deadlineAt))
<1>. DEFINE at == s.deadlineAt
            u == AbstainAll(s)
<1>1. /\ s \in GameState /\ ValidMembers(s) /\ ValidSeating(s) /\ ValidVotes(s) /\ Started(s)
  BY DEF Core, Started
<1>2. at \in Nat /\ at <= s.lastNow
  BY <1>1 DEF Due, GameState, NoTime
<1>3. SeatIds(s) \subseteq SeatNo
  BY <1>1, SeatBound
<1>4. Abstained(s, u)
  BY <1>1, <1>3, AbstainAllFields
<1>. HIDE DEF at, u
<1>5. Voted(u) = SeatIds(s)
  BY <1>1, <1>4 DEF Abstained, ValidVotes
<1>6. \A i \in Voted(u) : u.votes[i] = NoSeat \/ IsTarget(s, i, u.votes[i])
  <2>. SUFFICES ASSUME NEW i \in SeatIds(s), u.votes[i] # NoSeat
               PROVE  IsTarget(s, i, u.votes[i])
    BY <1>5
  <2>1. u.votes[i] = s.votes[i] /\ u.votes[i] # NotVoted
    BY <1>3, <1>4, <1>5 DEF Abstained, Voted
  <2>2. i \in Voted(s)
    BY <1>3, <2>1 DEF Voted
  <2>. QED BY <1>1, <2>1, <2>2 DEF ValidVotes
<1>7. Onward(s, Finish(u, at))
  BY <1>2, <1>4, <1>5, <1>6, FinishCore DEF Abstained, Unmoved
<1>. QED BY <1>7 DEF ExpireVoting, at, u

\* One iteration of the deadline loop.
LEMMA ExpireCore ==
  ASSUME NEW s, Core(s), Due(s, s.lastNow)
  PROVE  Onward(s, Expire(s))
<1>. DEFINE next == CASE s.phase = "answering" -> ExpireAnswering(s, s.deadlineAt)
                      [] s.phase = "debating"  -> ExpireDebating(s, s.deadlineAt)
                      [] s.phase = "voting"    -> ExpireVoting(s, s.deadlineAt)
            t == [next EXCEPT !.revision = @ + 1]
<1>1. s.phase \in {"answering", "debating", "voting"}
  BY DEF Core, Due, ValidPhaseFields, Started, GameState, Phase
<1>2. Onward(s, next)
  <2>1. CASE s.phase = "answering"
    BY <2>1, ExpireAnsweringCore
  <2>2. CASE s.phase = "debating"
    BY <2>2, ExpireDebatingCore
  <2>3. CASE s.phase = "voting"
    BY <2>3, ExpireVotingCore
  <2>. QED BY <1>1, <2>1, <2>2, <2>3
<1>3. t = Expire(s)
  BY DEF Expire
<1>. HIDE DEF next
<1>4. Core(t)
  BY <1>2, NumberedCore DEF Onward
<1>5. SameTable(s, t) /\ Progress(t) = Progress(next)
  <2>1. next \in GameState
    BY <1>2 DEF Onward, Core
  <2>2. t.phase = next.phase /\ t.round = next.round /\ t.debate = next.debate
        /\ SameTable(next, t)
    BY <2>1 DEF GameState, SameTable
  <2>. QED BY <1>2, <2>2 DEF Onward, SameTable, Progress
<1>. QED BY <1>2, <1>3, <1>4, <1>5 DEF Onward

-----------------------------------------------------------------------------
(* How a window stands to the time it began.  This too holds in the middle *)
(* of the deadline loop.                                                   *)

Timely(s) ==
  /\ s.deadlineAt # NoTime => s.loggedAt <= s.deadlineAt
  /\ s.phase = "answering" =>
       /\ s.deadlineAt <= s.phaseAt + ANSWER_MS + READ_PAUSE_MS
       /\ (\E i \in SeatIds(s) : s.answers[s.round][i] = "none") =>
            s.deadlineAt = s.phaseAt + ANSWER_MS
  /\ s.phase = "debating" => s.debate.globalDeadlineAt = s.phaseAt + DEBATE_MS
  /\ s.phase = "voting" =>
       /\ s.deadlineAt = s.phaseAt + VOTE_MS
       /\ s.phaseAt <= s.debate.globalDeadlineAt
       /\ \/ s.debate.turnIndex = Len(s.seats)
          \/ s.phaseAt = s.debate.globalDeadlineAt

\* An effect on a match under way: later, with nothing said taken back, and timely.
Moved(s, t) ==
  /\ t.phaseToken > s.phaseToken /\ t.loggedAt >= s.loggedAt /\ t.revision = s.revision
  /\ Heard(s, t) /\ Timely(t)

LEMMA ExpireAnsweringMoves ==
  ASSUME NEW s, Core(s), Timely(s), s.phase = "answering", Due(s, s.lastNow)
  PROVE  Moved(s, ExpireAnswering(s, s.deadlineAt))
<1>. DEFINE at == s.deadlineAt
            u == FillAnswers(s)
            t == EndRound(u, at)
<1>1. /\ s \in GameState /\ ValidMembers(s) /\ ValidSeating(s) /\ ValidPhaseFields(s)
      /\ Started(s) /\ s.phaseToken \in Nat
  BY DEF Core, Started, GameState
<1>2. at \in Nat /\ s.loggedAt <= at /\ s.loggedAt \in Nat
  BY <1>1 DEF Due, GameState, NoTime, Timely
<1>3. s.round \in Round /\ SeatIds(s) \subseteq SeatNo
  BY <1>1, SeatBound DEF ValidPhaseFields
<1>4. Filled(s, u)
  BY <1>1, <1>3, FillAnswersFields
<1>5. t = ExpireAnswering(s, s.deadlineAt)
  BY DEF ExpireAnswering
<1>. HIDE DEF at, u
<1>6. /\ u \in GameState /\ u.round = s.round /\ u.phaseToken = s.phaseToken
      /\ u.revision = s.revision /\ Heard(s, u)
  BY <1>4 DEF Filled, Unmoved
<1>7. CASE s.round < LastRound
  <2>. DEFINE n == s.round + 1
  <2>1. n \in Round /\ t = BeginRound(u, n, at)
    BY <1>3, <1>6, <1>7, RoundsAssumption DEF EndRound, Round
  <2>. HIDE DEF n, t
  <2>2. RoundBegun(u, t, n, at)
    BY <1>2, <1>6, <2>1, BeginRoundFields
  <2>3. Timely(t)
    BY <1>2, <2>2, TimesAssumption DEF RoundBegun, Timely
  <2>4. Moved(s, t)
    BY <1>1, <1>2, <1>6, <2>2, <2>3 DEF Moved, RoundBegun, Heard
  <2>. QED BY <1>5, <2>4 DEF t
<1>8. CASE ~(s.round < LastRound)
  <2>1. t = BeginDebate(u, at)
    BY <1>6, <1>8 DEF EndRound
  <2>. HIDE DEF t
  <2>2. DebateBegun(u, t, at)
    BY <1>2, <1>6, <2>1, BeginDebateFields
  <2>3. t.debate.globalDeadlineAt = at + DEBATE_MS
    BY <2>2 DEF DebateBegun, NoDebate
  <2>4. Timely(t)
    BY <1>2, <2>2, <2>3, TimesAssumption DEF DebateBegun, Timely
  <2>5. Moved(s, t)
    BY <1>1, <1>2, <1>6, <2>2, <2>4 DEF Moved, DebateBegun, Heard
  <2>. QED BY <1>5, <2>5 DEF t
<1>. QED BY <1>7, <1>8

\* The next step of a debate, at a moment that its total time does not exclude.
LEMMA NextDebateMoves ==
  ASSUME NEW s, Core(s), Timely(s), s.phase = "debating", NEW at \in Nat, s.loggedAt <= at,
         at <= s.debate.globalDeadlineAt
  PROVE  Moved(s, NextDebate(s, at))
<1>. DEFINE d == NextStep(s.debate)
            m == [s EXCEPT !.debate = d]
            t == NextDebate(s, at)
            end == s.debate.globalDeadlineAt
<1>1. /\ s \in GameState /\ ValidPhaseFields(s) /\ s.phaseToken \in Nat /\ s.loggedAt \in Nat
      /\ s.phaseAt \in Nat /\ s.debate \in Debate /\ end \in Nat
  <2>1. s \in GameState /\ ValidPhaseFields(s)
    BY DEF Core
  <2>2. s.debate \in Debate
    BY <2>1 DEF GameState
  <2>. QED BY <2>1, <2>2 DEF GameState, Debate, ValidPhaseFields
<1>2. IF d.turnIndex = Len(s.seats) THEN VotingBegun(m, t, at) ELSE StepBegun(s, t, at)
  BY <1>1, NextDebateFields
<1>3. d.globalDeadlineAt = end /\ d.step \in DebateStep
  <2>1. CASE s.debate.step = "accusation"
    BY <1>1, <2>1 DEF NextStep, Debate, DebateStep
  <2>2. CASE s.debate.step = "response"
    BY <1>1, <2>2 DEF NextStep, Debate, DebateStep
  <2>3. CASE s.debate.step = "followup"
    BY <1>1, <2>3 DEF NextStep, Debate, DebateStep
  <2>. QED BY <1>1, <2>1, <2>2, <2>3 DEF Debate, DebateStep
<1>4. StepMs(d.step) \in Nat
  <2>. HIDE DEF d
  <2>. QED BY <1>3, TimesAssumption DEF StepMs, DebateStep
<1>. HIDE DEF d, t
<1>5. /\ m.phaseToken = s.phaseToken /\ m.revision = s.revision /\ m.answers = s.answers
      /\ m.votes = s.votes /\ m.debate = d /\ m.seats = s.seats
  BY <1>1 DEF GameState
<1>. HIDE DEF m
<1>6. CASE d.turnIndex = Len(s.seats)
  <2>1. VotingBegun(m, t, at)
    BY <1>2, <1>6
  <2>2. Timely(t)
    BY <1>1, <1>3, <1>5, <1>6, <2>1, TimesAssumption DEF VotingBegun, Timely, SameTable
  <2>3. Moved(s, t)
    BY <1>1, <1>5, <2>1, <2>2 DEF Moved, VotingBegun, Heard
  <2>. QED BY <2>3 DEF t
<1>7. CASE d.turnIndex # Len(s.seats)
  <2>1. StepBegun(s, t, at)
    BY <1>2, <1>7
  <2>2. t.deadlineAt = Earlier(at + StepMs(d.step), end) /\ t.debate = d
    BY <2>1 DEF StepBegun, d
  <2>3. t.deadlineAt \in Nat /\ t.deadlineAt >= at
    BY <1>1, <1>4, <2>2 DEF Earlier
  <2>4. Timely(t)
    BY <1>1, <1>3, <2>1, <2>2, <2>3 DEF StepBegun, Timely
  <2>5. Moved(s, t)
    BY <1>1, <2>1, <2>4 DEF Moved, StepBegun, Heard
  <2>. QED BY <2>5 DEF t
<1>. QED BY <1>6, <1>7

\* What is said in a debate, before its next step begins.
LEMMA SpokenMoves ==
  ASSUME NEW s, Core(s), Timely(s), s.phase = "debating", NEW at \in Nat, at <= s.deadlineAt,
         s.loggedAt <= at, NEW seat,
         NEW u, \/ u = Logged(s, at)
                \/ u = Logged([s EXCEPT !.debate.targetSeat = seat], at)
  PROVE  /\ Timely(u) /\ u.loggedAt = at /\ u.revision = s.revision
         /\ u.phaseToken = s.phaseToken /\ u.answers = s.answers /\ u.votes = s.votes
         /\ u.debate.globalDeadlineAt = s.debate.globalDeadlineAt
<1>1. s \in GameState /\ s.debate \in Debate
  BY DEF Core, GameState
<1>2. /\ u.loggedAt = at /\ u.revision = s.revision /\ u.phaseToken = s.phaseToken
      /\ u.answers = s.answers /\ u.votes = s.votes /\ u.phase = s.phase
      /\ u.deadlineAt = s.deadlineAt /\ u.phaseAt = s.phaseAt
      /\ u.debate.globalDeadlineAt = s.debate.globalDeadlineAt
  <2>1. CASE u = Logged(s, at)
    BY <1>1, <2>1 DEF Logged, GameState
  <2>2. CASE u = Logged([s EXCEPT !.debate.targetSeat = seat], at)
    BY <1>1, <2>2 DEF Logged, GameState, Debate
  <2>. QED BY <2>1, <2>2
<1>. QED BY <1>2 DEF Timely

LEMMA ExpireDebatingMoves ==
  ASSUME NEW s, Core(s), Timely(s), s.phase = "debating", Due(s, s.lastNow)
  PROVE  Moved(s, ExpireDebating(s, s.deadlineAt))
<1>. DEFINE at == s.deadlineAt
            t == ExpireDebating(s, at)
<1>1. /\ s \in GameState /\ ValidMembers(s) /\ ValidSeating(s) /\ ValidPhaseFields(s)
      /\ Started(s) /\ s.phaseToken \in Nat /\ s.phaseAt \in Nat /\ s.loggedAt \in Nat
      /\ s.debate \in Debate
  BY DEF Core, Started, GameState
<1>2. at \in Nat /\ at <= s.lastNow /\ s.loggedAt <= at /\ at <= s.debate.globalDeadlineAt
  BY <1>1 DEF Due, GameState, NoTime, Timely, ValidPhaseFields
<1>. HIDE DEF at
<1>3. CASE at >= s.debate.globalDeadlineAt
  <2>1. t = BeginVoting(s, at)
    BY <1>3 DEF ExpireDebating
  <2>. HIDE DEF t
  <2>2. VotingBegun(s, t, at)
    BY <1>1, <1>2, <2>1, BeginVotingFields
  <2>3. s.debate.globalDeadlineAt = at
    BY <1>1, <1>2, <1>3 DEF Debate, NoTime
  <2>4. Timely(t)
    BY <1>2, <2>2, <2>3, TimesAssumption DEF VotingBegun, Timely
  <2>5. Moved(s, t)
    BY <1>1, <1>2, <2>2, <2>4 DEF Moved, VotingBegun, Heard
  <2>. QED BY <2>5 DEF t, at
<1>4. CASE ~(at >= s.debate.globalDeadlineAt)
  <2>. DEFINE seat == (Accuser(s) % Len(s.seats)) + 1
              u == IF s.debate.step = "accusation"
                   THEN Logged([s EXCEPT !.debate.targetSeat = seat], at)
                   ELSE Logged(s, at)
  <2>1. t = NextDebate(u, at)
    BY <1>4 DEF ExpireDebating
  <2>2. seat \in 0..MaxSeats
    BY <1>1, NextSeatType
  <2>. HIDE DEF seat
  <2>3. u = Logged(s, at) \/ u = Logged([s EXCEPT !.debate.targetSeat = seat], at)
    OBVIOUS
  <2>. HIDE DEF u, t
  <2>4. Core(u) /\ u.phase = "debating" /\ u.lastNow = s.lastNow
    BY <1>2, <2>2, <2>3, SpokenCore DEF SameTable
  <2>5. /\ Timely(u) /\ u.loggedAt = at /\ u.revision = s.revision
        /\ u.phaseToken = s.phaseToken /\ u.answers = s.answers /\ u.votes = s.votes
        /\ u.debate.globalDeadlineAt = s.debate.globalDeadlineAt
    <3>1. at <= s.deadlineAt
      BY <1>2 DEF at
    <3>. QED BY <1>2, <2>3, <3>1, SpokenMoves
  <2>6. Moved(u, NextDebate(u, at))
    BY <1>2, <2>4, <2>5, NextDebateMoves
  <2>7. Moved(s, t)
    <3>1. t.loggedAt \in Nat
      BY <1>2, <2>1, <2>4, NextDebateCore DEF Onward, Core, GameState
    <3>. QED BY <1>1, <1>2, <2>1, <2>5, <2>6, <3>1 DEF Moved, Heard
  <2>. QED BY <2>7 DEF t, at
<1>. QED BY <1>3, <1>4

\* The end of the match, whatever the votes are by then.
LEMMA FinishMoves ==
  ASSUME NEW s, Core(s), s.phase = "voting", NEW at \in Nat, s.loggedAt <= at,
         NEW u \in GameState, SameTable(s, u), u.phaseToken = s.phaseToken,
         u.revision = s.revision, Heard(s, u)
  PROVE  Moved(s, Finish(u, at))
<1>. DEFINE t == Finish(u, at)
<1>1. /\ s \in GameState /\ ValidMembers(s) /\ ValidSeating(s) /\ Started(s)
      /\ s.phaseToken \in Nat /\ s.loggedAt \in Nat
  BY DEF Core, Started, GameState
<1>2. Len(u.seats) <= MaxSeats
  BY <1>1, SeatBound DEF SameTable
<1>3. Finished(u, t, at)
  BY <1>2, FinishFields
<1>. HIDE DEF t
<1>4. Moved(s, t)
  BY <1>1, <1>3 DEF Finished, Moved, Heard, Timely
<1>. QED BY <1>4 DEF t

LEMMA ExpireVotingMoves ==
  ASSUME NEW s, Core(s), Timely(s), s.phase = "voting", Due(s, s.lastNow)
  PROVE  Moved(s, ExpireVoting(s, s.deadlineAt))
<1>. DEFINE at == s.deadlineAt
            u == AbstainAll(s)
<1>1. /\ s \in GameState /\ ValidMembers(s) /\ ValidSeating(s) /\ Started(s)
  BY DEF Core, Started
<1>2. at \in Nat /\ s.loggedAt <= at
  BY <1>1 DEF Due, GameState, NoTime, Timely
<1>3. Abstained(s, u)
  BY <1>1, SeatBound, AbstainAllFields
<1>. HIDE DEF at, u
<1>4. Moved(s, Finish(u, at))
  BY <1>2, <1>3, FinishMoves DEF Abstained, Unmoved
<1>. QED BY <1>4 DEF ExpireVoting, at, u

\* One iteration of the deadline loop takes a revision of its own.
LEMMA ExpireMoves ==
  ASSUME NEW s, Core(s), Timely(s), Due(s, s.lastNow)
  PROVE  /\ Expire(s).phaseToken > s.phaseToken /\ Expire(s).loggedAt >= s.loggedAt
         /\ Expire(s).revision = s.revision + 1
         /\ Heard(s, Expire(s)) /\ Timely(Expire(s))
<1>. DEFINE next == CASE s.phase = "answering" -> ExpireAnswering(s, s.deadlineAt)
                      [] s.phase = "debating"  -> ExpireDebating(s, s.deadlineAt)
                      [] s.phase = "voting"    -> ExpireVoting(s, s.deadlineAt)
            t == [next EXCEPT !.revision = @ + 1]
<1>1. s.phase \in {"answering", "debating", "voting"}
  BY DEF Core, Due, ValidPhaseFields, Started, GameState, Phase
<1>2. Onward(s, next) /\ Moved(s, next)
  <2>1. CASE s.phase = "answering"
    BY <2>1, ExpireAnsweringCore, ExpireAnsweringMoves
  <2>2. CASE s.phase = "debating"
    BY <2>2, ExpireDebatingCore, ExpireDebatingMoves
  <2>3. CASE s.phase = "voting"
    BY <2>3, ExpireVotingCore, ExpireVotingMoves
  <2>. QED BY <1>1, <2>1, <2>2, <2>3
<1>3. t = Expire(s)
  BY DEF Expire
<1>. HIDE DEF next
<1>4. /\ next \in GameState /\ t.phase = next.phase /\ t.round = next.round
      /\ t.debate = next.debate /\ t.deadlineAt = next.deadlineAt /\ t.phaseAt = next.phaseAt
      /\ t.loggedAt = next.loggedAt /\ t.answers = next.answers /\ t.votes = next.votes
      /\ t.seats = next.seats /\ t.phaseToken = next.phaseToken
      /\ t.revision = next.revision + 1
  BY <1>2 DEF Onward, Core, GameState
<1>. HIDE DEF t
<1>5. Timely(t) /\ Heard(s, t)
  BY <1>2, <1>4 DEF Moved, Timely, Heard, SeatIds
<1>. QED BY <1>2, <1>3, <1>4, <1>5 DEF Moved

-----------------------------------------------------------------------------
(* The deadline loop: every iteration leads further on, and a match has no *)
(* more windows than the loop has iterations, so it ends with nothing due. *)

Runs(s, now, f) ==
  f = [n \in Nat |-> IF n = 0 THEN s ELSE ExpireIfDue(now)[f[n - 1]]]

LEMMA ExpiredRun ==
  ASSUME NEW s, NEW now
  PROVE  \E f : Runs(s, now, f) /\ Expired(s, now) = f[MaxExpiries]
<1>. DEFINE F == ExpireIfDue(now)
            run == CHOOSE f : f = [n \in Nat |-> IF n = 0 THEN s ELSE F[f[n - 1]]]
<1>1. \E f : f = [n \in Nat |-> IF n = 0 THEN s ELSE F[f[n - 1]]]
  <2>. HIDE DEF F
  <2>. QED BY IteratesExist
<1>2. Runs(s, now, run)
  BY <1>1 DEF Runs
<1>3. Expired(s, now) = run[MaxExpiries]
  BY DEF Expired
<1>. QED BY <1>2, <1>3

\* How far a match has come, and how far it can be while a deadline is still ahead.
LEMMA ProgressType ==
  ASSUME NEW t, Core(t)
  PROVE  /\ Progress(t) \in Nat
         /\ Due(t, t.lastNow) => Progress(t) >= 2 /\ Progress(t) <= 2 + LastRound + 3 * MaxSeats
<1>1. /\ t \in GameState /\ ValidMembers(t) /\ ValidSeating(t) /\ ValidPhaseFields(t)
      /\ t.debate \in Debate
  BY DEF Core, GameState
<1>2. CASE t.phase = "answering"
  <2>1. t.round \in Nat /\ 1 <= t.round /\ t.round <= LastRound
    BY <1>1, <1>2, RoundsAssumption DEF ValidPhaseFields, Started, Round
  <2>2. Progress(t) = 1 + t.round
    BY <1>2 DEF Progress
  <2>. QED BY <2>1, <2>2, RoundsAssumption, MaxSeatsBound
<1>3. CASE t.phase = "debating"
  <2>. DEFINE turn == t.debate.turnIndex
              step == StepIndex(t.debate.step)
              len == Len(t.seats)
  <2>1. step \in 0..2
    BY <1>1 DEF StepIndex, Debate, DebateStep
  <2>2. turn \in Nat /\ turn < len /\ len \in Nat /\ len <= MaxSeats
    BY <1>1, <1>3, SeatBound DEF ValidPhaseFields, Debate, Started
  <2>3. Progress(t) = 2 + LastRound + 3 * turn + step
    BY <1>3 DEF Progress
  <2>. HIDE DEF turn, step, len
  <2>. QED BY <2>1, <2>2, <2>3, RoundsAssumption, MaxSeatsBound
<1>4. CASE t.phase = "voting"
  BY <1>4, RoundsAssumption, MaxSeatsBound DEF Progress
<1>5. CASE t.phase \in {"lobby", "preparing", "revealed"}
  <2>1. ~Due(t, t.lastNow)
    BY <1>1, <1>5 DEF ValidPhaseFields, Started, Due
  <2>. QED BY <1>5, <2>1, RoundsAssumption, MaxSeatsBound DEF Progress
<1>. QED BY <1>1, <1>2, <1>3, <1>4, <1>5 DEF GameState, Phase

\* What the loop keeps, whatever the number of deadlines it replays.
LEMMA ExpiredCore ==
  ASSUME NEW s, Core(s)
  PROVE  /\ Core(Expired(s, s.lastNow)) /\ SameTable(s, Expired(s, s.lastNow))
         /\ Progress(Expired(s, s.lastNow)) >= Progress(s)
         /\ ~Due(Expired(s, s.lastNow), s.lastNow)
<1>. DEFINE now == s.lastNow
<1>1. PICK f : Runs(s, now, f) /\ Expired(s, now) = f[MaxExpiries]
  BY ExpiredRun
<1>. DEFINE Good(n) == /\ Core(f[n]) /\ SameTable(s, f[n])
                       /\ Progress(f[n]) \in Nat /\ Progress(f[n]) >= Progress(s)
                       /\ Due(f[n], now) => Progress(f[n]) >= 2 + n
            S == {n \in Nat : Good(n)}
<1>2. ASSUME NEW t, Core(t)
      PROVE  /\ Progress(t) \in Nat
             /\ Due(t, t.lastNow) => Progress(t) >= 2 /\ Progress(t) <= 2 + LastRound + 3 * MaxSeats
  BY <1>2, ProgressType
<1>3. f[0] = s /\ \A n \in Nat : f[n + 1] = ExpireIfDue(now)[f[n]]
  BY <1>1 DEF Runs
<1>4. ASSUME NEW t \in GameState
      PROVE  ExpireIfDue(now)[t] = IF Due(t, now) THEN Expire(t) ELSE t
  BY DEF ExpireIfDue
<1>. HIDE DEF now
<1>5. Good(0)
  <2>1. SameTable(s, s)
    BY DEF SameTable
  <2>2. Progress(s) \in Nat /\ (Due(s, now) => Progress(s) >= 2)
    BY <1>2 DEF now
  <2>. QED BY <1>3, <2>1, <2>2
<1>6. ASSUME NEW n \in Nat, Good(n) PROVE Good(n + 1)
  <2>. DEFINE t == f[n]
              u == f[n + 1]
  <2>1. Core(t) /\ SameTable(s, t) /\ t \in GameState /\ t.lastNow = now
    BY <1>6 DEF Core, SameTable, now
  <2>2. u = IF Due(t, now) THEN Expire(t) ELSE t
    BY <1>3, <1>4, <2>1
  <2>3. Progress(s) \in Nat /\ Progress(t) \in Nat
    BY <1>2, <2>1
  <2>4. CASE Due(t, now)
    <3>1. Onward(t, u)
      BY <2>1, <2>2, <2>4, ExpireCore
    <3>2. Progress(u) \in Nat /\ Core(u) /\ SameTable(s, u)
      BY <1>2, <2>1, <3>1 DEF Onward, SameTable
    <3>3. Progress(u) > Progress(t) /\ Progress(t) >= 2 + n
          /\ Progress(t) >= Progress(s)
      BY <1>6, <2>4, <3>1 DEF Onward
    <3>. HIDE DEF t, u
    <3>4. Progress(u) >= 2 + (n + 1) /\ Progress(u) >= Progress(s)
      BY <2>3, <3>2, <3>3
    <3>. QED BY <3>2, <3>4 DEF u
  <2>5. CASE ~Due(t, now)
    <3>1. u = t
      BY <2>2, <2>5
    <3>. QED BY <1>6, <2>5, <3>1
  <2>. QED BY <2>4, <2>5
<1>. HIDE DEF Good
<1>7. S = Nat
  <2>1. 0 \in S /\ \A n \in S : n + 1 \in S
    BY <1>5, <1>6
  <2>. QED BY <2>1, SetInduction
<1>8. MaxExpiries \in Nat /\ MaxExpiries = LastRound + 3 * MaxSeats + 1
  BY RoundsAssumption, MaxSeatsBound DEF MaxExpiries
<1>. DEFINE t == f[MaxExpiries]
<1>9. Good(MaxExpiries)
  BY <1>7, <1>8
<1>10. Core(t) /\ SameTable(s, t) /\ Progress(t) >= Progress(s) /\ Progress(t) \in Nat
       /\ (Due(t, now) => Progress(t) >= 2 + MaxExpiries)
  BY <1>9 DEF Good
<1>11. t.lastNow = now
  BY <1>10 DEF SameTable, now
<1>12. ~Due(t, now)
  <2>. SUFFICES ASSUME Due(t, now) PROVE FALSE
    OBVIOUS
  <2>1. Progress(t) >= 2 + MaxExpiries /\ Progress(t) <= 2 + LastRound + 3 * MaxSeats
    BY <1>2, <1>10, <1>11
  <2>. HIDE DEF t
  <2>. QED BY <1>8, <1>10, <2>1, RoundsAssumption, MaxSeatsBound
<1>. QED BY <1>1, <1>10, <1>12 DEF now

\* Whatever one expired deadline preserves, the loop preserves.
LEMMA ExpiredKeeps ==
  ASSUME NEW s, Core(s), NEW G, s \in G,
         \A t \in G : Core(t) /\ SameTable(s, t) /\ Due(t, s.lastNow) => Expire(t) \in G
  PROVE  Expired(s, s.lastNow) \in G
<1>. DEFINE now == s.lastNow
<1>1. PICK f : Runs(s, now, f) /\ Expired(s, now) = f[MaxExpiries]
  BY ExpiredRun
<1>. DEFINE Good(n) == f[n] \in G /\ Core(f[n]) /\ SameTable(s, f[n])
            S == {n \in Nat : Good(n)}
<1>2. f[0] = s /\ \A n \in Nat : f[n + 1] = ExpireIfDue(now)[f[n]]
  BY <1>1 DEF Runs
<1>3. Good(0)
  BY <1>2 DEF SameTable
<1>4. ASSUME NEW n \in Nat, Good(n) PROVE Good(n + 1)
  <2>. DEFINE t == f[n]
  <2>1. t \in GameState /\ t.lastNow = now
    BY <1>4 DEF Core, SameTable
  <2>2. f[n + 1] = IF Due(t, now) THEN Expire(t) ELSE t
    BY <1>2, <2>1 DEF ExpireIfDue
  <2>3. CASE Due(t, now)
    <3>1. Onward(t, Expire(t))
      BY <1>4, <2>1, <2>3, ExpireCore
    <3>. QED BY <1>4, <2>2, <2>3, <3>1 DEF Onward, SameTable
  <2>. QED BY <1>4, <2>2, <2>3
<1>. HIDE DEF Good
<1>5. S = Nat
  <2>1. 0 \in S /\ \A n \in S : n + 1 \in S
    BY <1>3, <1>4
  <2>. QED BY <2>1, SetInduction
<1>6. MaxExpiries \in Nat
  BY RoundsAssumption, MaxSeatsBound DEF MaxExpiries
<1>. QED BY <1>1, <1>5, <1>6 DEF Good

\* With nothing due the loop does nothing.
LEMMA ExpiredIdle ==
  ASSUME NEW s, Core(s), ~Due(s, s.lastNow)
  PROVE  Expired(s, s.lastNow) = s
<1>1. Expired(s, s.lastNow) \in {s}
  BY ExpiredKeeps
<1>. QED BY <1>1

\* The loop may begin with its second iteration.
LEMMA ExpiredUnfold ==
  ASSUME NEW s, Core(s), Due(s, s.lastNow)
  PROVE  Expired(Expire(s), s.lastNow) = Expired(s, s.lastNow)
<1>. DEFINE now == s.lastNow
            F == ExpireIfDue(now)
<1>1. PICK f : Runs(s, now, f) /\ Expired(s, now) = f[MaxExpiries]
  BY ExpiredRun
<1>2. PICK h : Runs(Expire(s), now, h) /\ Expired(Expire(s), now) = h[MaxExpiries]
  BY ExpiredRun
<1>3. F[s] = Expire(s)
  BY DEF Core, ExpireIfDue
<1>. HIDE DEF F
<1>4. f[0] = s /\ \A n \in Nat : f[n + 1] = F[f[n]]
  BY <1>1 DEF Runs, F
<1>5. h[0] = Expire(s) /\ \A n \in Nat : h[n + 1] = F[h[n]]
  BY <1>2 DEF Runs, F
<1>. DEFINE S == {n \in Nat : h[n] = f[n + 1]}
<1>6. 0 \in S
  BY <1>3, <1>4, <1>5
<1>7. ASSUME NEW n \in S PROVE n + 1 \in S
  <2>1. n \in Nat /\ h[n] = f[n + 1]
    OBVIOUS
  <2>2. h[n + 1] = F[h[n]] /\ f[(n + 1) + 1] = F[f[n + 1]]
    BY <1>4, <1>5, <2>1
  <2>. QED BY <2>1, <2>2
<1>8. S = Nat
  BY <1>6, <1>7, SetInduction
<1>9. MaxExpiries \in Nat
  BY RoundsAssumption, MaxSeatsBound DEF MaxExpiries
<1>10. h[MaxExpiries] = F[f[MaxExpiries]]
  BY <1>4, <1>8, <1>9
<1>11. F[f[MaxExpiries]] = f[MaxExpiries]
  BY <1>1, ExpiredCore DEF F, ExpireIfDue, Core
<1>. QED BY <1>1, <1>2, <1>10, <1>11

\* A state the validator passes: what a stored room holds between two calls.
Valid(s) == Core(s) /\ ValidDeadline(s)

LEMMA ValidMeaning ==
  ASSUME NEW s
  PROVE  Valid(s) <=> s \in GameState /\ ValidState(s)
BY DEF Valid, Core, ValidState

\* Setting the clock forward, before the deadlines are replayed.
LEMMA ClockCore ==
  ASSUME NEW s, Core(s), NEW now \in Nat, now >= s.lastNow
  PROVE  /\ Core([s EXCEPT !.lastNow = now]) /\ [s EXCEPT !.lastNow = now].lastNow = now
         /\ Progress([s EXCEPT !.lastNow = now]) = Progress(s)
<1>. DEFINE t == [s EXCEPT !.lastNow = now]
<1>1. s \in GameState
  BY DEF Core
<1>2. /\ t \in GameState /\ t.phase = s.phase /\ t.lastNow = now
      /\ t.members = s.members /\ t.ready = s.ready /\ t.seats = s.seats
      /\ t.deadlineAt = s.deadlineAt /\ t.loggedAt = s.loggedAt /\ t.round = s.round
      /\ t.answers = s.answers /\ t.debate = s.debate
      /\ t.votes = s.votes /\ t.result = s.result
  BY <1>1 DEF GameState
<1>. HIDE DEF t
<1>3. ValidMembers(t) /\ ValidSeating(t)
  BY <1>2 DEF Core, ValidMembers, ValidSeating, ValidSeats, Started
<1>4. ValidPhaseFields(t) /\ ValidResult(t)
  BY <1>2 DEF Core, ValidPhaseFields, ValidResult, Started
<1>5. ValidLog(t)
  <2>1. s.loggedAt <= s.lastNow /\ s.loggedAt \in Nat /\ s.lastNow \in Nat
    BY <1>1 DEF Core, ValidLog, GameState
  <2>. QED BY <1>2, <2>1 DEF ValidLog
<1>6. ValidAnswers(t)
  <2>1. SeatIds(t) = SeatIds(s) /\ \A r \in Round : Answered(t, r) = Answered(s, r)
    BY <1>2 DEF Answered, SeatIds
  <2>. QED BY <1>2, <2>1 DEF Core, ValidAnswers, Started
<1>7. ValidVotes(t)
  <2>1. Voted(t) = Voted(s) /\ SeatIds(t) = SeatIds(s)
    BY <1>2 DEF Voted, SeatIds
  <2>. QED BY <1>2, <2>1 DEF Core, ValidVotes, IsTarget
<1>8. Progress(t) = Progress(s)
  BY <1>2 DEF Progress
<1>9. Core(t)
  BY <1>2, <1>3, <1>4, <1>5, <1>6, <1>7 DEF Core
<1>. QED BY <1>2, <1>8, <1>9 DEF t

\* Advancing time leaves a valid state in which no deadline is due.
AdvancedTo(s, t, now) ==
  /\ Valid(t) /\ t.lastNow = now
  /\ t.matchId = s.matchId /\ t.members = s.members /\ t.ready = s.ready
  /\ t.seats = s.seats /\ Progress(t) >= Progress(s)

LEMMA AdvanceTimeValid ==
  ASSUME NEW s, Core(s), NEW now \in Nat, now >= s.lastNow
  PROVE  AdvancedTo(s, AdvanceTime(s, now), now)
<1>. DEFINE u == [s EXCEPT !.lastNow = now]
            t == Expired(u, now)
<1>1. Core(u) /\ u.lastNow = now /\ Progress(u) = Progress(s)
  BY ClockCore
<1>2. u.matchId = s.matchId /\ u.members = s.members /\ u.ready = s.ready
      /\ u.seats = s.seats
  BY DEF Core, GameState
<1>3. t = AdvanceTime(s, now)
  BY DEF AdvanceTime
<1>. HIDE DEF u
<1>4. Core(t) /\ SameTable(u, t) /\ Progress(t) >= Progress(u) /\ ~Due(t, now)
  BY <1>1, ExpiredCore
<1>. HIDE DEF t
<1>5. t \in GameState /\ t.lastNow = now
  BY <1>1, <1>4 DEF Core, SameTable
<1>6. ValidDeadline(t)
  BY <1>4, <1>5 DEF ValidDeadline, Due, GameState, NoTime
<1>7. AdvancedTo(s, t, now)
  BY <1>1, <1>2, <1>4, <1>5, <1>6 DEF AdvancedTo, Valid, SameTable
<1>. QED BY <1>3, <1>7

LEMMA NumberedValid ==
  ASSUME NEW s, Valid(s)
  PROVE  Valid([s EXCEPT !.revision = @ + 1])
<1>. DEFINE t == [s EXCEPT !.revision = @ + 1]
<1>1. Core(t)
  BY NumberedCore DEF Valid
<1>2. t.deadlineAt = s.deadlineAt /\ t.lastNow = s.lastNow
  BY DEF Valid, Core, GameState
<1>. HIDE DEF t
<1>3. Valid(t)
  BY <1>1, <1>2 DEF Valid, ValidDeadline
<1>. QED BY <1>3 DEF t

-----------------------------------------------------------------------------
(* The commands, each on a valid state whose clock has just been set       *)

LEMMA JoinValid ==
  ASSUME NEW s, Valid(s), NEW p \in Participants, MayJoin(s, Participant(p))
  PROVE  Valid(Join(s, p))
<1>. DEFINE t == Join(s, p)
<1>1. /\ s \in GameState /\ ValidMembers(s) /\ ValidSeating(s) /\ ValidPhaseFields(s)
      /\ ValidAnswers(s) /\ ValidVotes(s) /\ ValidResult(s) /\ ValidLog(s)
      /\ ValidDeadline(s) /\ s.phase = "lobby" /\ ~Started(s)
      /\ Cardinality(s.members) < MaxPlayers
  BY DEF Valid, Core, MayJoin, Started
<1>2. s.members \cup {p} \in SUBSET Participants
  BY <1>1 DEF GameState
<1>3. /\ t \in GameState /\ t.phase = s.phase /\ t.lastNow = s.lastNow
      /\ t.members = s.members \cup {p} /\ t.ready = s.ready /\ t.seats = s.seats
      /\ t.deadlineAt = s.deadlineAt /\ t.loggedAt = s.loggedAt /\ t.round = s.round
      /\ t.answers = s.answers /\ t.debate = s.debate
      /\ t.votes = s.votes /\ t.result = s.result
  BY <1>1, <1>2 DEF Join, GameState
<1>. HIDE DEF t
<1>4. ValidMembers(t)
  <2>1. IsFiniteSet(s.members) /\ Cardinality(s.members) \in Nat /\ p \notin s.members
    BY <1>1, FS_CardinalityType DEF ValidMembers, MayJoin, Participant
  <2>2. /\ IsFiniteSet(s.members \cup {p})
        /\ Cardinality(s.members \cup {p}) = Cardinality(s.members) + 1
    BY <2>1, FS_AddElement
  <2>3. Cardinality(t.members) <= MaxPlayers
    BY <1>1, <1>3, <2>1, <2>2, PlayersAssumption
  <2>. QED BY <1>1, <1>3, <2>2, <2>3 DEF ValidMembers
<1>5. ValidSeating(t) /\ ValidPhaseFields(t) /\ ValidResult(t) /\ ValidLog(t)
      /\ ValidDeadline(t)
  BY <1>1, <1>3
     DEF ValidSeating, ValidPhaseFields, ValidResult, ValidLog, ValidDeadline, Started
<1>6. ValidAnswers(t)
  <2>1. SeatIds(t) = SeatIds(s) /\ \A r \in Round : Answered(t, r) = Answered(s, r)
    BY <1>3 DEF Answered, SeatIds
  <2>. QED BY <1>1, <1>3, <2>1 DEF ValidAnswers, Started
<1>7. ValidVotes(t)
  <2>1. Voted(t) = Voted(s) /\ SeatIds(t) = SeatIds(s)
    BY <1>3 DEF Voted, SeatIds
  <2>. QED BY <1>1, <1>3, <2>1 DEF ValidVotes
<1>8. Valid(t)
  BY <1>3, <1>4, <1>5, <1>6, <1>7 DEF Valid, Core
<1>. QED BY <1>8 DEF t

LEMMA SetReadyValid ==
  ASSUME NEW s, Valid(s), NEW p \in Participants, NEW ready \in BOOLEAN,
         MayReady(s, Participant(p))
  PROVE  Valid(SetReady(s, p, ready, s.lastNow))
<1>. DEFINE all == IF ready THEN s.ready \cup {p} ELSE s.ready \ {p}
            u == [s EXCEPT !.ready = all]
            t == SetReady(s, p, ready, s.lastNow)
<1>1. /\ s \in GameState /\ ValidMembers(s) /\ ValidSeating(s) /\ ValidPhaseFields(s)
      /\ ValidAnswers(s) /\ ValidVotes(s) /\ ValidResult(s) /\ ValidLog(s)
      /\ ValidDeadline(s) /\ s.phase = "lobby" /\ p \in s.members
      /\ s.lastNow \in Nat /\ s.phaseToken + 1 \in Nat
  BY DEF Valid, Core, MayReady, Participant, GameState
<1>2. all \subseteq s.members /\ all \in SUBSET Participants
  BY <1>1 DEF ValidMembers, GameState
<1>3. t = IF Cardinality(u.members) >= MinPlayers /\ u.members \subseteq u.ready
          THEN EnterPhase(u, "preparing", s.lastNow, NoTime) ELSE u
  BY DEF SetReady
<1>. HIDE DEF all
<1>4. /\ u \in GameState /\ u.phase = s.phase /\ u.lastNow = s.lastNow
      /\ u.members = s.members /\ u.ready = all /\ u.seats = s.seats
      /\ u.deadlineAt = s.deadlineAt /\ u.loggedAt = s.loggedAt /\ u.round = s.round
      /\ u.answers = s.answers /\ u.debate = s.debate
      /\ u.votes = s.votes /\ u.result = s.result
  BY <1>1, <1>2 DEF GameState
<1>. HIDE DEF u, t
<1>5. /\ t \in GameState /\ t.lastNow = s.lastNow
      /\ t.members = s.members /\ t.ready = all /\ t.seats = s.seats
      /\ t.deadlineAt = NoTime /\ t.round = s.round
      /\ t.answers = s.answers /\ t.debate = s.debate
      /\ t.votes = s.votes /\ t.result = s.result /\ t.loggedAt <= s.lastNow
      /\ \/ t.phase = "lobby"
         \/ /\ t.phase = "preparing" /\ s.members \subseteq all
            /\ Cardinality(s.members) >= MinPlayers
  <2>1. s.deadlineAt = NoTime
    BY <1>1 DEF ValidPhaseFields, Started
  <2>2. CASE t = u
    BY <1>1, <1>4, <2>1, <2>2 DEF ValidLog
  <2>3. CASE /\ t = EnterPhase(u, "preparing", s.lastNow, NoTime)
             /\ Cardinality(u.members) >= MinPlayers /\ u.members \subseteq u.ready
    <3>1. Entered(u, t, "preparing", s.lastNow, NoTime)
      BY <1>1, <1>4, <2>3, EnterPhaseFields DEF Phase
    <3>. QED BY <1>1, <1>4, <2>3, <3>1 DEF Entered, SameTable
  <2>. QED BY <1>3, <2>2, <2>3
<1>6. ~Started(t) /\ ~Started(s)
  BY <1>1, <1>5 DEF Started
<1>7. ValidMembers(t)
  BY <1>1, <1>2, <1>5 DEF ValidMembers
<1>8. ValidSeating(t) /\ ValidPhaseFields(t) /\ ValidResult(t) /\ ValidLog(t)
      /\ ValidDeadline(t)
  BY <1>1, <1>5, <1>6
     DEF ValidSeating, ValidPhaseFields, ValidResult, ValidLog, ValidDeadline, Started
<1>9. ValidAnswers(t)
  <2>1. SeatIds(t) = SeatIds(s) /\ \A r \in Round : Answered(t, r) = Answered(s, r)
    BY <1>5 DEF Answered, SeatIds
  <2>. QED BY <1>1, <1>5, <1>6, <2>1 DEF ValidAnswers
<1>10. ValidVotes(t)
  <2>1. Voted(t) = Voted(s) /\ SeatIds(t) = SeatIds(s)
    BY <1>5 DEF Voted, SeatIds
  <2>. QED BY <1>1, <1>5, <2>1 DEF ValidVotes
<1>11. Valid(t)
  BY <1>5, <1>7, <1>8, <1>9, <1>10 DEF Valid, Core
<1>. QED BY <1>11 DEF t

LEMMA ResolveTopicValid ==
  ASSUME NEW s, Valid(s), s.phase = "preparing", NEW seats \in Seq(Seat),
         ValidSeats(s, seats)
  PROVE  Valid(ResolveTopic(s, seats, s.lastNow))
<1>. DEFINE u == [s EXCEPT !.seats = seats]
            now == s.lastNow
            t == BeginRound(u, 1, now)
<1>1. /\ s \in GameState /\ ValidMembers(s) /\ ValidPhaseFields(s)
      /\ ValidAnswers(s) /\ ValidVotes(s) /\ ValidResult(s)
      /\ now \in Nat /\ ~Started(s) /\ 1 \in Round
  BY RoundsAssumption DEF Valid, Core, Started, GameState, Round
<1>2. /\ u \in GameState /\ u.lastNow = now /\ u.members = s.members /\ u.ready = s.ready
      /\ u.seats = seats /\ u.answers = s.answers /\ u.debate = s.debate
      /\ u.votes = s.votes /\ u.result = s.result
  BY <1>1 DEF GameState
<1>3. t = ResolveTopic(s, seats, s.lastNow)
  BY DEF ResolveTopic
<1>. HIDE DEF u, now
<1>4. RoundBegun(u, t, 1, now)
  BY <1>1, <1>2, BeginRoundFields
<1>. HIDE DEF t
<1>5. /\ t \in GameState /\ t.phase = "answering" /\ t.lastNow = now
      /\ t.members = s.members /\ t.ready = s.ready /\ t.seats = seats
      /\ t.deadlineAt = now + ANSWER_MS /\ t.loggedAt = now /\ t.round = 1
      /\ t.answers = s.answers /\ t.debate = s.debate
      /\ t.votes = s.votes /\ t.result = s.result
  BY <1>2, <1>4 DEF RoundBegun, SameTable
<1>6. ValidMembers(t) /\ ValidSeating(t)
  BY SMTT(60), <1>1, <1>5 DEF ValidMembers, ValidSeating, ValidSeats, Started
<1>7. t.deadlineAt # NoTime /\ t.deadlineAt >= now
  BY <1>1, <1>5, TimesAssumption DEF NoTime
<1>8. ValidPhaseFields(t) /\ ValidResult(t) /\ ValidLog(t) /\ ValidDeadline(t)
  BY <1>1, <1>5, <1>7
     DEF ValidPhaseFields, ValidResult, ValidLog, ValidDeadline, Started
<1>9. ValidAnswers(t)
  <2>1. \A r \in Round : Answered(t, r) = Answered(s, r) /\ Answered(s, r) = {}
    BY <1>1, <1>5 DEF Answered, ValidAnswers
  <2>2. \A r \in Round : ~(r < 1)
    BY DEF Round
  <2>. QED BY <1>5, <2>1, <2>2 DEF ValidAnswers, Started
<1>10. ValidVotes(t)
  <2>1. Voted(t) = {}
    BY <1>1, <1>5 DEF Voted, ValidVotes, Started
  <2>. QED BY <1>5, <2>1 DEF ValidVotes
<1>11. Valid(t)
  BY <1>5, <1>6, <1>8, <1>9, <1>10 DEF Valid, Core
<1>. QED BY <1>3, <1>11

LEMMA AddAnswerValid ==
  ASSUME NEW s, Valid(s), s.phase = "answering", NEW seat \in SeatIds(s)
  PROVE  Valid(AddAnswer(s, seat, s.lastNow))
<1>. DEFINE now == s.lastNow
            row == [s.answers[s.round] EXCEPT ![seat] = "own"]
            all == [s.answers EXCEPT ![s.round] = row]
            u == [s EXCEPT !.answers = all, !.loggedAt = now]
            t == AddAnswer(s, seat, now)
<1>1. /\ s \in GameState /\ ValidMembers(s) /\ ValidSeating(s) /\ ValidPhaseFields(s)
      /\ ValidAnswers(s) /\ ValidVotes(s) /\ ValidResult(s) /\ ValidDeadline(s)
      /\ now \in Nat /\ Started(s) /\ s.answers \in [Round -> [SeatNo -> Answer]]
  BY DEF Valid, Core, Started, GameState
<1>2. s.round \in Round /\ SeatIds(s) \subseteq SeatNo
  BY <1>1, SeatBound DEF ValidPhaseFields
<1>3. row \in [SeatNo -> Answer] /\ \A i \in SeatNo : row[i] # "none"
                                      <=> s.answers[s.round][i] # "none" \/ i = seat
  BY <1>1, <1>2 DEF Answer
<1>4. t = IF \A i \in SeatIds(u) : u.answers[u.round][i] # "none"
          THEN HoldRound(u, now) ELSE u
  BY DEF AddAnswer, Logged
<1>. HIDE DEF row
<1>5. /\ all \in [Round -> [SeatNo -> Answer]] /\ all[s.round] = row
      /\ \A r \in Round : r # s.round => all[r] = s.answers[r]
  BY <1>1, <1>2, <1>3
<1>. HIDE DEF now, all
<1>6. /\ u \in GameState /\ SameTable(s, u) /\ u.phase = s.phase /\ u.round = s.round
      /\ u.answers = all /\ u.debate = s.debate /\ u.deadlineAt = s.deadlineAt
      /\ u.votes = s.votes /\ u.result = s.result /\ u.loggedAt = now
  BY <1>1, <1>5 DEF GameState, SameTable
<1>. HIDE DEF u, t
<1>7. /\ t \in GameState /\ SameTable(s, t) /\ t.phase = s.phase /\ t.round = s.round
      /\ t.answers = all /\ t.debate = s.debate /\ t.lastNow = now
      /\ t.votes = s.votes /\ t.result = s.result /\ t.loggedAt = now
      /\ t.deadlineAt \in Nat /\ t.deadlineAt >= now
  <2>1. CASE t = u
    <3>1. s.deadlineAt \in Nat /\ s.deadlineAt >= now
      BY <1>1 DEF ValidPhaseFields, ValidDeadline, GameState, NoTime, now
    <3>. QED BY <1>6, <2>1, <3>1 DEF SameTable, now
  <2>2. CASE t = HoldRound(u, now)
    <3>1. now + READ_PAUSE_MS \in Nat /\ now + READ_PAUSE_MS >= now
      BY <1>1, TimesAssumption
    <3>2. /\ t \in GameState /\ SameTable(u, t) /\ t.phase = u.phase /\ t.round = u.round
          /\ t.answers = u.answers /\ t.debate = u.debate
          /\ t.votes = u.votes /\ t.result = u.result /\ t.loggedAt = u.loggedAt
          /\ t.deadlineAt = now + READ_PAUSE_MS
      BY <1>6, <2>2, <3>1 DEF HoldRound, GameState, SameTable
    <3>. QED BY <1>6, <3>1, <3>2 DEF SameTable, now
  <2>. QED BY <1>4, <2>1, <2>2
<1>8. ValidMembers(t) /\ ValidSeating(t) /\ SeatIds(t) = SeatIds(s)
  BY <1>1, <1>7, TableKept DEF Started
<1>9. ValidVotes(t)
  BY <1>1, <1>7, VotesKept
<1>10. ValidAnswers(t)
  <2>1. Answered(t, s.round) \subseteq SeatIds(s)
    BY <1>1, <1>2, <1>3, <1>5, <1>7 DEF Answered, ValidAnswers
  <2>2. \A r \in Round : r # s.round => Answered(t, r) = Answered(s, r)
    BY <1>5, <1>7 DEF Answered
  <2>3. \A r \in Round : r < s.round \/ r > s.round => r # s.round
    BY <1>2 DEF Round
  <2>. QED BY <1>1, <1>7, <1>8, <2>1, <2>2, <2>3 DEF ValidAnswers, Started
<1>11. ValidPhaseFields(t) /\ ValidResult(t) /\ ValidLog(t) /\ ValidDeadline(t)
  BY <1>1, <1>7
     DEF ValidPhaseFields, ValidResult, ValidLog, ValidDeadline, Started, NoTime, SameTable
<1>12. Valid(t)
  BY <1>7, <1>8, <1>9, <1>10, <1>11 DEF Valid, Core
<1>. QED BY <1>12 DEF t, now

LEMMA AddVoteValid ==
  ASSUME NEW s, Valid(s), s.phase = "voting", NEW seat \in SeatIds(s),
         NEW target, IsTarget(s, seat, target)
  PROVE  Valid(AddVote(s, seat, target, s.lastNow))
<1>. DEFINE now == s.lastNow
            all == [s.votes EXCEPT ![seat] = target]
            u == [s EXCEPT !.votes = all, !.loggedAt = now]
            t == AddVote(s, seat, target, now)
<1>1. /\ s \in GameState /\ ValidMembers(s) /\ ValidSeating(s) /\ ValidPhaseFields(s)
      /\ ValidAnswers(s) /\ ValidVotes(s) /\ ValidResult(s) /\ ValidDeadline(s)
      /\ now \in Nat /\ Started(s) /\ s.votes \in [SeatNo -> {NotVoted} \cup 0..MaxSeats]
  BY DEF Valid, Core, Started, GameState
<1>2. SeatIds(s) \subseteq SeatNo /\ SeatNo \subseteq 0..MaxSeats /\ NotVoted \notin SeatNo
  BY <1>1, SeatBound, MaxSeatsBound DEF SeatNo, NotVoted
<1>3. target \in SeatIds(s)
  BY DEF IsTarget
<1>4. t = IF \A i \in SeatIds(u) : u.votes[i] # NotVoted THEN Finish(u, now) ELSE u
  BY DEF AddVote, Logged
<1>5. /\ all \in [SeatNo -> {NotVoted} \cup 0..MaxSeats] /\ all[seat] = target
      /\ \A i \in SeatNo : i # seat => all[i] = s.votes[i]
  BY <1>1, <1>2, <1>3
<1>. HIDE DEF now, all
<1>6. /\ u \in GameState /\ SameTable(s, u) /\ u.phase = s.phase /\ u.round = s.round
      /\ u.answers = s.answers /\ u.debate = s.debate /\ u.deadlineAt = s.deadlineAt
      /\ u.votes = all /\ u.result = s.result /\ u.loggedAt = now
  BY <1>1, <1>5 DEF GameState, SameTable
<1>. HIDE DEF u, t
<1>7. /\ Voted(u) \subseteq SeatIds(s)
      /\ \A i \in Voted(u) : u.votes[i] = NoSeat \/ IsTarget(s, i, u.votes[i])
  <2>. SUFFICES ASSUME NEW i \in Voted(u)
               PROVE  /\ i \in SeatIds(s)
                      /\ u.votes[i] = NoSeat \/ IsTarget(s, i, u.votes[i])
    OBVIOUS
  <2>1. i \in SeatNo /\ u.votes[i] = all[i] /\ all[i] # NotVoted
    BY <1>6 DEF Voted
  <2>2. CASE i = seat
    BY <1>5, <2>1, <2>2
  <2>3. CASE i # seat
    <3>1. i \in Voted(s) /\ u.votes[i] = s.votes[i]
      BY <1>5, <2>1, <2>3 DEF Voted
    <3>. QED BY <1>1, <3>1 DEF ValidVotes
  <2>. QED BY <2>2, <2>3
<1>8. SeatIds(u) = SeatIds(s)
  BY <1>6 DEF SeatIds, SameTable
<1>9. CASE \A i \in SeatIds(u) : u.votes[i] # NotVoted
  <2>1. Voted(u) = SeatIds(s)
    BY <1>2, <1>7, <1>8, <1>9 DEF Voted
  <2>2. t = Finish(u, now)
    BY <1>4, <1>9
  <2>3. Core(s) /\ now <= s.lastNow
    BY <1>1 DEF Valid, now
  <2>4. Onward(s, t)
    BY <1>1, <1>6, <1>7, <2>1, <2>2, <2>3, FinishCore
  <2>5. t.deadlineAt = NoTime
    <3>1. Len(u.seats) <= MaxSeats
      BY <1>1, <1>6, SeatBound DEF SameTable
    <3>2. Finished(u, t, now)
      BY <1>1, <1>6, <2>2, <3>1, FinishFields
    <3>. QED BY <3>2 DEF Finished
  <2>6. Valid(t)
    BY <2>4, <2>5 DEF Onward, Valid, ValidDeadline
  <2>. QED BY <2>6 DEF t, now
<1>10. CASE ~(\A i \in SeatIds(u) : u.votes[i] # NotVoted)
  <2>1. t = u
    BY <1>4, <1>10
  <2>2. ValidMembers(u) /\ ValidSeating(u)
    BY <1>1, <1>6, TableKept DEF Started
  <2>3. ValidVotes(u)
    <3>1. \A i \in Voted(u) : u.votes[i] = NoSeat \/ IsTarget(u, i, u.votes[i])
      BY <1>7, <1>8 DEF IsTarget
    <3>. QED BY <1>6, <1>7, <1>8, <3>1 DEF ValidVotes
  <2>4. ValidAnswers(u)
    BY <1>1, <1>6, AnswersKept DEF Started
  <2>5. ValidPhaseFields(u) /\ ValidResult(u) /\ ValidDeadline(u)
    BY <1>1, <1>6 DEF ValidPhaseFields, ValidResult, ValidDeadline, Started, SameTable
  <2>6. ValidLog(u)
    BY <1>1, <1>6 DEF ValidLog, SameTable, now
  <2>7. Valid(t)
    BY <1>6, <2>1, <2>2, <2>3, <2>4, <2>5, <2>6 DEF Valid, Core
  <2>. QED BY <2>7 DEF t, now
<1>. QED BY <1>9, <1>10

\* A speech in the debate: the deadline of the step it opens has not passed.
LEMMA NextDebateValid ==
  ASSUME NEW s, Valid(s), s.phase = "debating"
  PROVE  Valid(NextDebate(s, s.lastNow))
<1>. DEFINE now == s.lastNow
            t == NextDebate(s, now)
            m == [s EXCEPT !.debate = NextStep(s.debate)]
<1>1. /\ Core(s) /\ s \in GameState /\ now \in Nat /\ now <= s.lastNow
      /\ s.debate.globalDeadlineAt \in Nat /\ now <= s.debate.globalDeadlineAt
  <2>1. s \in GameState /\ ValidPhaseFields(s) /\ ValidDeadline(s)
    BY DEF Valid, Core
  <2>2. /\ s.debate \in Debate /\ s.lastNow \in Nat
        /\ s.deadlineAt \in Nat /\ s.deadlineAt >= s.lastNow
        /\ s.debate.globalDeadlineAt # NoTime
        /\ s.deadlineAt <= s.debate.globalDeadlineAt
    BY <2>1 DEF ValidPhaseFields, ValidDeadline, GameState, NoTime, Started
  <2>3. s.debate.globalDeadlineAt \in Nat
    BY <2>2 DEF Debate
  <2>. QED BY <2>1, <2>2, <2>3 DEF Valid
<1>2. Onward(s, t)
  <2>. HIDE DEF now
  <2>. QED BY <1>1, NextDebateCore
<1>3. IF NextStep(s.debate).turnIndex = Len(s.seats)
      THEN VotingBegun(m, t, now) ELSE StepBegun(s, t, now)
  <2>. HIDE DEF now
  <2>. QED BY <1>1, NextDebateFields
<1>. HIDE DEF t, m
<1>4. t.lastNow = now
  BY <1>2 DEF Onward, SameTable
<1>5. t.deadlineAt >= now
  <2>1. CASE VotingBegun(m, t, now)
    <3>1. t.deadlineAt = now + VOTE_MS
      BY <2>1 DEF VotingBegun
    <3>. QED BY <1>1, <3>1, TimesAssumption
  <2>2. CASE StepBegun(s, t, now)
    <3>. DEFINE end == s.debate.globalDeadlineAt
                ms == StepMs(NextStep(s.debate).step)
    <3>1. t.deadlineAt = Earlier(now + ms, end)
      BY <2>2 DEF StepBegun
    <3>2. ms \in Nat
      <4>1. s.debate \in Debate
        BY <1>1 DEF GameState
      <4>2. NextStep(s.debate).step \in DebateStep
        <5>1. CASE s.debate.step = "accusation"
          BY <4>1, <5>1 DEF NextStep, Debate, DebateStep
        <5>2. CASE s.debate.step = "response"
          BY <4>1, <5>2 DEF NextStep, Debate, DebateStep
        <5>3. CASE s.debate.step = "followup"
          BY <4>1, <5>3 DEF NextStep, Debate, DebateStep
        <5>. QED BY <4>1, <5>1, <5>2, <5>3 DEF Debate, DebateStep
      <4>. QED BY <4>2, TimesAssumption DEF StepMs, DebateStep
    <3>3. end \in Nat /\ now <= end
      BY <1>1
    <3>. HIDE DEF end, ms
    <3>. QED BY <1>1, <3>1, <3>2, <3>3 DEF Earlier
  <2>. QED BY <1>3, <2>1, <2>2
<1>6. Valid(t)
  BY <1>2, <1>4, <1>5 DEF Onward, Valid, ValidDeadline
<1>. QED BY <1>6 DEF t

LEMMA AccuseValid ==
  ASSUME NEW s, Valid(s), s.phase = "debating", NEW target \in SeatIds(s)
  PROVE  Valid(Accuse(s, target, s.lastNow))
<1>. DEFINE now == s.lastNow
            u == Logged([s EXCEPT !.debate.targetSeat = target], now)
<1>1. Core(s) /\ now \in Nat /\ now <= s.lastNow /\ target \in 0..MaxSeats
  <2>1. s \in GameState /\ SeatIds(s) \subseteq SeatNo
    BY SeatBound DEF Valid, Core, Started
  <2>. QED BY <2>1, MaxSeatsBound DEF Valid, GameState, SeatNo
<1>2. Core(u) /\ SameTable(s, u) /\ u.phase = s.phase
  BY <1>1, SpokenCore
<1>3. u.deadlineAt = s.deadlineAt /\ u.lastNow = now
  BY DEF Logged, Valid, Core, GameState
<1>. HIDE DEF u
<1>4. Valid(u)
  BY <1>2, <1>3 DEF Valid, ValidDeadline
<1>5. Valid(NextDebate(u, u.lastNow))
  BY <1>2, <1>4, NextDebateValid
<1>. QED BY <1>3, <1>5 DEF Accuse, u

LEMMA SpeakValid ==
  ASSUME NEW s, Valid(s), s.phase = "debating"
  PROVE  Valid(Speak(s, s.lastNow))
<1>. DEFINE now == s.lastNow
            u == Logged(s, now)
<1>1. Core(s) /\ now \in Nat /\ now <= s.lastNow /\ 0 \in 0..MaxSeats
  BY MaxSeatsBound DEF Valid, Core, GameState
<1>2. Core(u) /\ SameTable(s, u) /\ u.phase = s.phase
  BY <1>1, SpokenCore
<1>3. u.deadlineAt = s.deadlineAt /\ u.lastNow = now
  BY DEF Logged, Valid, Core, GameState
<1>. HIDE DEF u
<1>4. Valid(u)
  BY <1>2, <1>3 DEF Valid, ValidDeadline
<1>5. Valid(NextDebate(u, u.lastNow))
  BY <1>2, <1>4, NextDebateValid
<1>. QED BY <1>3, <1>5 DEF Speak, u

-----------------------------------------------------------------------------
(* What a command may do to the match: one that is taken leaves everything *)
(* said in place, fills in no default, and either keeps the window or      *)
(* opens a later one under a new token.                                    *)

SameWindow(s, t) ==
  /\ t.phase = s.phase /\ t.round = s.round
  /\ t.debate.turnIndex = s.debate.turnIndex /\ t.debate.step = s.debate.step

Lawful(s, t) ==
  /\ t.lastNow = s.lastNow /\ t.loggedAt >= s.loggedAt /\ t.revision = s.revision
  /\ Progress(t) >= Progress(s)
  /\ t.phaseToken > s.phaseToken \/ (t.phaseToken = s.phaseToken /\ SameWindow(s, t))
  /\ s.phase # "lobby" => t.members = s.members
  /\ Started(s) => t.seats = s.seats
  /\ Heard(s, t) /\ Timely(t)
  /\ \A r \in Round, i \in SeatNo : t.answers[r][i] = "default" => s.answers[r][i] = "default"

LEMMA MovedLawful ==
  ASSUME NEW s, Core(s), NEW t, Onward(s, t), Moved(s, t), t.answers = s.answers
  PROVE  Lawful(s, t)
<1>1. Progress(s) \in Nat /\ Progress(t) \in Nat
  BY ProgressType DEF Onward
<1>. QED BY <1>1 DEF Lawful, Onward, Moved, SameTable

LEMMA JoinLawful ==
  ASSUME NEW s, Valid(s), Timely(s), NEW p \in Participants, MayJoin(s, Participant(p))
  PROVE  Lawful(s, Join(s, p))
<1>. DEFINE t == Join(s, p)
<1>1. s \in GameState /\ s.phase = "lobby" /\ Progress(s) = 0
  BY DEF Valid, Core, MayJoin, Progress
<1>2. /\ t.phase = s.phase /\ t.lastNow = s.lastNow /\ t.revision = s.revision
      /\ t.phaseToken = s.phaseToken /\ t.round = s.round /\ t.debate = s.debate
      /\ t.answers = s.answers /\ t.votes = s.votes /\ t.loggedAt = s.loggedAt
      /\ t.deadlineAt = s.deadlineAt
  BY <1>1 DEF Join, GameState
<1>. HIDE DEF t
<1>3. Progress(t) = 0 /\ ~Started(s) /\ s.loggedAt \in Nat
  BY <1>1, <1>2 DEF Progress, Started, GameState
<1>4. Timely(t) /\ Heard(s, t)
  BY <1>1, <1>2 DEF Timely, Heard
<1>5. Lawful(s, t)
  BY <1>1, <1>2, <1>3, <1>4 DEF Lawful, SameWindow
<1>. QED BY <1>5 DEF t

LEMMA SetReadyLawful ==
  ASSUME NEW s, Valid(s), Timely(s), NEW p \in Participants, NEW ready \in BOOLEAN,
         MayReady(s, Participant(p))
  PROVE  Lawful(s, SetReady(s, p, ready, s.lastNow))
<1>. DEFINE all == IF ready THEN s.ready \cup {p} ELSE s.ready \ {p}
            u == [s EXCEPT !.ready = all]
            t == SetReady(s, p, ready, s.lastNow)
<1>1. /\ s \in GameState /\ s.phase = "lobby" /\ Progress(s) = 0 /\ ~Started(s)
      /\ ValidMembers(s) /\ s.deadlineAt = NoTime
      /\ s.loggedAt \in Nat /\ s.lastNow \in Nat /\ s.loggedAt <= s.lastNow /\ s.phaseToken \in Nat
      /\ p \in Participants
  BY DEF Valid, Core, MayReady, Progress, Started, GameState, ValidLog, ValidPhaseFields
<1>2. t = IF Cardinality(u.members) >= MinPlayers /\ u.members \subseteq u.ready
          THEN EnterPhase(u, "preparing", s.lastNow, NoTime) ELSE u
  BY DEF SetReady
<1>3. all \in SUBSET Participants
  BY <1>1 DEF GameState
<1>. HIDE DEF all
<1>4. /\ u \in GameState /\ Progress(u) = 0
      /\ u.phase = s.phase /\ u.lastNow = s.lastNow /\ u.revision = s.revision
      /\ u.phaseToken = s.phaseToken /\ u.round = s.round /\ u.debate = s.debate
      /\ u.answers = s.answers /\ u.votes = s.votes /\ u.loggedAt = s.loggedAt
      /\ u.deadlineAt = s.deadlineAt
  BY <1>1, <1>3 DEF GameState, Progress
<1>. HIDE DEF u, t
<1>5. CASE t = u
  <2>1. Timely(t) /\ Heard(s, t)
    BY <1>1, <1>4, <1>5 DEF Timely, Heard
  <2>. QED BY <1>1, <1>4, <1>5, <2>1 DEF Lawful, SameWindow, t
<1>6. CASE t = EnterPhase(u, "preparing", s.lastNow, NoTime)
  <2>1. Entered(u, t, "preparing", s.lastNow, NoTime)
    BY <1>1, <1>4, <1>6, EnterPhaseFields DEF Phase
  <2>2. Progress(t) = 1
    BY <2>1 DEF Entered, Progress
  <2>3. Timely(t) /\ Heard(s, t)
    BY <1>4, <2>1 DEF Timely, Heard, Entered
  <2>4. Lawful(s, t)
    BY <1>1, <1>4, <2>1, <2>2, <2>3 DEF Lawful, Entered, SameTable
  <2>. QED BY <2>4 DEF t
<1>. QED BY <1>2, <1>5, <1>6

LEMMA ResolveTopicLawful ==
  ASSUME NEW s, Valid(s), Timely(s), s.phase = "preparing", NEW seats \in Seq(Seat)
  PROVE  Lawful(s, ResolveTopic(s, seats, s.lastNow))
<1>. DEFINE u == [s EXCEPT !.seats = seats]
            now == s.lastNow
            t == BeginRound(u, 1, now)
<1>1. /\ s \in GameState /\ now \in Nat /\ ~Started(s) /\ 1 \in Round /\ Progress(s) = 1
      /\ s.loggedAt <= now /\ s.loggedAt \in Nat /\ s.phaseToken \in Nat
  BY RoundsAssumption DEF Valid, Core, Started, GameState, Round, ValidLog, Progress
<1>2. /\ u \in GameState /\ u.lastNow = now /\ u.members = s.members
      /\ u.answers = s.answers /\ u.votes = s.votes /\ u.phaseToken = s.phaseToken
      /\ u.revision = s.revision
  BY <1>1 DEF GameState
<1>3. t = ResolveTopic(s, seats, s.lastNow)
  BY DEF ResolveTopic
<1>. HIDE DEF u, now
<1>4. RoundBegun(u, t, 1, now)
  BY <1>1, <1>2, BeginRoundFields
<1>. HIDE DEF t
<1>5. Progress(t) = 2
  BY <1>4 DEF RoundBegun, Progress
<1>6. Timely(t) /\ Heard(s, t)
  BY <1>1, <1>2, <1>4, TimesAssumption DEF RoundBegun, Timely, Heard
<1>7. Lawful(s, t)
  BY <1>1, <1>2, <1>4, <1>5, <1>6 DEF Lawful, RoundBegun, SameTable, now
<1>. QED BY <1>3, <1>7

LEMMA AddAnswerLawful ==
  ASSUME NEW s, Valid(s), Timely(s), s.phase = "answering", NEW seat \in SeatIds(s),
         s.answers[s.round][seat] = "none"
  PROVE  Lawful(s, AddAnswer(s, seat, s.lastNow))
<1>. DEFINE now == s.lastNow
            row == [s.answers[s.round] EXCEPT ![seat] = "own"]
            all == [s.answers EXCEPT ![s.round] = row]
            u == [s EXCEPT !.answers = all, !.loggedAt = now]
            t == AddAnswer(s, seat, now)
<1>1. /\ s \in GameState /\ ValidMembers(s) /\ ValidSeating(s) /\ ValidPhaseFields(s)
      /\ now \in Nat /\ Started(s) /\ s.answers \in [Round -> [SeatNo -> Answer]]
      /\ s.loggedAt <= now /\ s.loggedAt \in Nat /\ s.phaseToken \in Nat /\ s.phaseAt \in Nat
      /\ s.deadlineAt \in Nat /\ s.deadlineAt >= now
  BY DEF Valid, Core, Started, GameState, ValidLog, ValidDeadline, ValidPhaseFields, NoTime
<1>2. s.round \in Round /\ SeatIds(s) \subseteq SeatNo
  BY <1>1, SeatBound DEF ValidPhaseFields
<1>3. s.deadlineAt = s.phaseAt + ANSWER_MS
  BY <1>2 DEF Timely
<1>4. t = IF \A i \in SeatIds(u) : u.answers[u.round][i] # "none"
          THEN HoldRound(u, now) ELSE u
  BY DEF AddAnswer, Logged
<1>5. \A r \in Round, i \in SeatNo :
        /\ s.answers[r][i] # "none" => all[r][i] = s.answers[r][i]
        /\ all[r][i] = "default" => s.answers[r][i] = "default"
        /\ r = s.round /\ all[r][i] = "none" => s.answers[r][i] = "none"
  BY <1>1, <1>2
<1>6. all \in [Round -> [SeatNo -> Answer]]
  BY <1>1, <1>2 DEF Answer
<1>. HIDE DEF now, all
<1>7. /\ u \in GameState /\ SameTable(s, u) /\ u.phase = s.phase /\ u.round = s.round
      /\ u.answers = all /\ u.debate = s.debate /\ u.deadlineAt = s.deadlineAt
      /\ u.votes = s.votes /\ u.loggedAt = now /\ u.phaseAt = s.phaseAt
      /\ u.phaseToken = s.phaseToken /\ u.revision = s.revision
  BY <1>1, <1>6 DEF GameState, SameTable
<1>. HIDE DEF u, t
<1>8. /\ SameTable(s, t) /\ t.phase = s.phase /\ t.round = s.round
      /\ t.answers = all /\ t.debate = s.debate
      /\ t.votes = s.votes /\ t.loggedAt = now /\ t.phaseAt = s.phaseAt
      /\ t.phaseToken = s.phaseToken /\ t.revision = s.revision
      /\ t.deadlineAt >= now
      /\ \/ t.deadlineAt = s.deadlineAt
         \/ /\ t.deadlineAt = now + READ_PAUSE_MS
            /\ \A i \in SeatIds(s) : all[s.round][i] # "none"
  <2>1. SeatIds(u) = SeatIds(s)
    BY <1>7 DEF SeatIds, SameTable
  <2>2. CASE t = u
    BY <1>1, <1>7, <2>2
  <2>3. CASE t = HoldRound(u, now) /\ \A i \in SeatIds(u) : u.answers[u.round][i] # "none"
    <3>1. /\ SameTable(u, t) /\ t.phase = u.phase /\ t.round = u.round
          /\ t.answers = u.answers /\ t.debate = u.debate
          /\ t.votes = u.votes /\ t.loggedAt = u.loggedAt /\ t.phaseAt = u.phaseAt
          /\ t.phaseToken = u.phaseToken /\ t.revision = u.revision
          /\ t.deadlineAt = now + READ_PAUSE_MS
      BY <1>7, <2>3 DEF HoldRound, GameState, SameTable
    <3>2. t.deadlineAt >= now
      BY <1>1, <3>1, TimesAssumption
    <3>. QED BY <1>7, <2>1, <2>3, <3>1, <3>2 DEF SameTable
  <2>. QED BY <1>4, <2>2, <2>3
<1>9. SeatIds(t) = SeatIds(s)
  BY <1>8 DEF SeatIds, SameTable
<1>10. Timely(t)
  <2>1. t.deadlineAt <= t.phaseAt + ANSWER_MS + READ_PAUSE_MS
    BY <1>1, <1>3, <1>8, TimesAssumption
  <2>2. (\E i \in SeatIds(t) : t.answers[t.round][i] = "none") => t.deadlineAt = t.phaseAt + ANSWER_MS
    BY <1>3, <1>8, <1>9
  <2>. QED BY <1>8, <2>1, <2>2 DEF Timely
<1>11. Progress(t) = Progress(s) /\ Progress(s) \in Nat
  BY <1>8, ProgressType DEF Valid, Progress
<1>12. Heard(s, t) /\ SameWindow(s, t)
  BY <1>5, <1>8 DEF Heard, SameWindow
<1>13. Lawful(s, t)
  BY <1>1, <1>5, <1>8, <1>10, <1>11, <1>12 DEF Lawful, SameTable
<1>. QED BY <1>13 DEF t, now

LEMMA AddVoteLawful ==
  ASSUME NEW s, Valid(s), Timely(s), s.phase = "voting", NEW seat \in SeatIds(s),
         NEW target, IsTarget(s, seat, target), s.votes[seat] = NotVoted
  PROVE  Lawful(s, AddVote(s, seat, target, s.lastNow))
<1>. DEFINE now == s.lastNow
            all == [s.votes EXCEPT ![seat] = target]
            u == [s EXCEPT !.votes = all, !.loggedAt = now]
            t == AddVote(s, seat, target, now)
<1>1. /\ s \in GameState /\ ValidMembers(s) /\ ValidSeating(s) /\ ValidPhaseFields(s)
      /\ now \in Nat /\ Started(s) /\ s.votes \in [SeatNo -> {NotVoted} \cup 0..MaxSeats]
      /\ s.loggedAt <= now /\ s.loggedAt \in Nat /\ s.phaseToken \in Nat
      /\ s.deadlineAt \in Nat /\ s.deadlineAt >= now
  BY DEF Valid, Core, Started, GameState, ValidLog, ValidDeadline, ValidPhaseFields, NoTime
<1>2. SeatIds(s) \subseteq SeatNo /\ target \in 0..MaxSeats
  BY <1>1, SeatBound, MaxSeatsBound DEF SeatNo, IsTarget
<1>3. t = IF \A i \in SeatIds(u) : u.votes[i] # NotVoted THEN Finish(u, now) ELSE u
  BY DEF AddVote, Logged
<1>4. /\ all \in [SeatNo -> {NotVoted} \cup 0..MaxSeats]
      /\ \A i \in SeatNo : s.votes[i] # NotVoted => all[i] = s.votes[i]
  BY <1>1, <1>2
<1>. HIDE DEF now, all
<1>5. /\ u \in GameState /\ SameTable(s, u) /\ u.phase = s.phase /\ u.round = s.round
      /\ u.answers = s.answers /\ u.debate = s.debate /\ u.deadlineAt = s.deadlineAt
      /\ u.votes = all /\ u.loggedAt = now /\ u.phaseAt = s.phaseAt
      /\ u.phaseToken = s.phaseToken /\ u.revision = s.revision
  BY <1>1, <1>4 DEF GameState, SameTable
<1>6. Heard(s, u)
  BY <1>4, <1>5 DEF Heard
<1>. HIDE DEF u, t
<1>7. CASE t = u
  <2>1. Timely(t)
    BY <1>1, <1>5, <1>7 DEF Timely, SameTable
  <2>2. Progress(t) = Progress(s) /\ Progress(s) \in Nat
    BY <1>5, <1>7, ProgressType DEF Valid, Progress
  <2>3. Lawful(s, t)
    BY <1>1, <1>5, <1>6, <1>7, <2>1, <2>2 DEF Lawful, SameWindow, SameTable
  <2>. QED BY <2>3 DEF t, now
<1>8. CASE t = Finish(u, now)
  <2>1. Core(s)
    BY DEF Valid
  <2>2. Moved(s, t)
    BY <1>1, <1>5, <1>6, <1>8, <2>1, FinishMoves
  <2>3. Len(u.seats) <= MaxSeats
    BY <1>1, <1>5, SeatBound DEF SameTable
  <2>4. Finished(u, t, now)
    BY <1>1, <1>5, <1>8, <2>3, FinishFields
  <2>5. Progress(s) = 2 + LastRound + 3 * MaxSeats /\ Progress(t) = 3 + LastRound + 3 * MaxSeats
    BY <2>4 DEF Progress, Finished
  <2>6. Progress(t) >= Progress(s)
    BY <2>5, RoundsAssumption, MaxSeatsBound
  <2>7. Lawful(s, t)
    BY <1>5, <2>2, <2>4, <2>6 DEF Lawful, Moved, Finished, SameTable
  <2>. QED BY <2>7 DEF t, now
<1>. QED BY <1>3, <1>7, <1>8

LEMMA SpeechLawful ==
  ASSUME NEW s, Valid(s), Timely(s), s.phase = "debating", NEW seat \in 0..MaxSeats,
         NEW u, \/ u = Logged(s, s.lastNow)
                \/ u = Logged([s EXCEPT !.debate.targetSeat = seat], s.lastNow)
  PROVE  Lawful(s, NextDebate(u, s.lastNow))
<1>. DEFINE now == s.lastNow
            t == NextDebate(u, now)
<1>1. /\ s \in GameState /\ Core(s) /\ now \in Nat /\ now <= s.lastNow /\ s.debate \in Debate
      /\ s.loggedAt <= now /\ s.loggedAt \in Nat
      /\ s.deadlineAt \in Nat /\ s.deadlineAt >= now
      /\ s.debate.globalDeadlineAt # NoTime /\ s.deadlineAt <= s.debate.globalDeadlineAt
  BY DEF Valid, Core, GameState, ValidLog, ValidDeadline, ValidPhaseFields, NoTime
<1>2. s.debate.globalDeadlineAt \in Nat /\ now <= s.debate.globalDeadlineAt
  BY <1>1 DEF Debate
<1>. HIDE DEF now
<1>3. u = Logged(s, now) \/ u = Logged([s EXCEPT !.debate.targetSeat = seat], now)
  BY DEF now
<1>4. Core(u) /\ SameTable(s, u) /\ u.phase = "debating" /\ Progress(u) = Progress(s)
  BY <1>1, <1>3, SpokenCore
<1>5. /\ Timely(u) /\ u.loggedAt = now /\ u.revision = s.revision
      /\ u.phaseToken = s.phaseToken /\ u.answers = s.answers /\ u.votes = s.votes
      /\ u.debate.globalDeadlineAt = s.debate.globalDeadlineAt
  BY <1>1, <1>3, SpokenMoves
<1>6. Moved(u, t) /\ Onward(u, t)
  <2>1. now <= u.lastNow
    BY <1>1, <1>4 DEF SameTable
  <2>. QED BY <1>1, <1>2, <1>4, <1>5, <2>1, NextDebateMoves, NextDebateCore
<1>7. t.answers = u.answers
  <2>. DEFINE m == [u EXCEPT !.debate = NextStep(u.debate)]
  <2>1. u \in GameState /\ m.answers = u.answers
    BY <1>4 DEF Core, GameState
  <2>2. IF NextStep(u.debate).turnIndex = Len(u.seats)
        THEN VotingBegun(m, t, now) ELSE StepBegun(u, t, now)
    BY <1>1, <1>2, <1>5, <2>1, NextDebateFields
  <2>. QED BY <2>1, <2>2 DEF VotingBegun, StepBegun
<1>. HIDE DEF t
<1>8. Lawful(u, t)
  BY <1>4, <1>6, <1>7, MovedLawful
<1>9. t.loggedAt \in Nat /\ Started(u)
  BY <1>4, <1>6 DEF Onward, Core, GameState, Started
<1>10. Lawful(s, t)
  <2>1. SameTable(s, t) /\ Heard(s, t) /\ Timely(t)
    BY <1>4, <1>5, <1>6 DEF Onward, SameTable, Moved, Heard
  <2>2. t.phaseToken > s.phaseToken /\ t.loggedAt >= s.loggedAt /\ t.revision = s.revision
    BY <1>1, <1>5, <1>6, <1>9 DEF Moved
  <2>3. Progress(t) >= Progress(s)
    BY <1>4, <1>8 DEF Lawful
  <2>. QED BY <1>5, <1>7, <2>1, <2>2, <2>3 DEF Lawful, SameTable
<1>. QED BY <1>10 DEF t, now

LEMMA AccuseLawful ==
  ASSUME NEW s, Valid(s), Timely(s), s.phase = "debating", NEW target \in SeatIds(s)
  PROVE  Lawful(s, Accuse(s, target, s.lastNow))
<1>. DEFINE u == Logged([s EXCEPT !.debate.targetSeat = target], s.lastNow)
<1>1. SeatIds(s) \subseteq 0..MaxSeats
  BY SeatBound, MaxSeatsBound DEF Valid, Core, Started, SeatNo
<1>2. Accuse(s, target, s.lastNow) = NextDebate(u, s.lastNow)
  BY DEF Accuse
<1>3. Lawful(s, NextDebate(u, s.lastNow))
  BY <1>1, SpeechLawful
<1>. QED BY <1>2, <1>3

LEMMA SpeakLawful ==
  ASSUME NEW s, Valid(s), Timely(s), s.phase = "debating"
  PROVE  Lawful(s, Speak(s, s.lastNow))
<1>. DEFINE u == Logged(s, s.lastNow)
<1>1. 0 \in 0..MaxSeats
  BY MaxSeatsBound
<1>2. Speak(s, s.lastNow) = NextDebate(u, s.lastNow)
  BY DEF Speak
<1>. HIDE DEF u
<1>3. u = Logged(s, s.lastNow)
  BY DEF u
<1>4. Lawful(s, NextDebate(u, s.lastNow))
  BY <1>1, <1>3, SpeechLawful
<1>. QED BY <1>2, <1>4

-----------------------------------------------------------------------------
(* What any call may do to the match: the deadlines it replays and the     *)
(* command it carries add up to one relation between the state before and  *)
(* the state after.                                                        *)

Numbered(s, t) == t.revision > s.revision \/ t = [s EXCEPT !.lastNow = t.lastNow]

Follows(s, t) ==
  /\ Core(t) /\ Timely(t)
  /\ t.lastNow >= s.lastNow /\ t.loggedAt >= s.loggedAt /\ Progress(t) >= Progress(s)
  /\ t.phaseToken > s.phaseToken \/ (t.phaseToken = s.phaseToken /\ SameWindow(s, t))
  /\ t.revision >= s.revision /\ Numbered(s, t)
  /\ s.phase # "lobby" => t.members = s.members
  /\ Started(s) => t.seats = s.seats
  /\ Heard(s, t)

\* The phases in the order of a match.
LEMMA ProgressPhase ==
  ASSUME NEW s, Core(s)
  PROVE  /\ Progress(s) \in Nat
         /\ s.phase # "lobby" <=> Progress(s) >= 1
         /\ Started(s) <=> Progress(s) >= 2
<1>1. Progress(s) \in Nat /\ s.phase \in Phase /\ s \in GameState
  BY ProgressType DEF Core, GameState
<1>2. CASE s.phase = "lobby"
  BY <1>2 DEF Progress, Started
<1>3. CASE s.phase = "preparing"
  BY <1>3 DEF Progress, Started
<1>4. CASE s.phase = "answering"
  <2>1. s.round \in Nat /\ s.round >= 1
    BY <1>4, RoundsAssumption DEF Core, ValidPhaseFields, Started, Round
  <2>. QED BY <1>1, <1>4, <2>1 DEF Progress, Started
<1>5. CASE s.phase = "debating"
  <2>1. s.debate.turnIndex \in Nat /\ StepIndex(s.debate.step) \in Nat
    BY <1>1 DEF GameState, Debate, DebateStep, StepIndex
  <2>. QED BY <1>1, <1>5, <2>1, RoundsAssumption DEF Progress, Started
<1>6. CASE s.phase = "voting"
  BY <1>1, <1>6, RoundsAssumption, MaxSeatsBound DEF Progress, Started
<1>7. CASE s.phase = "revealed"
  BY <1>1, <1>7, RoundsAssumption, MaxSeatsBound DEF Progress, Started
<1>. QED BY <1>1, <1>2, <1>3, <1>4, <1>5, <1>6, <1>7 DEF Phase

LEMMA FollowsTransitive ==
  ASSUME NEW r, Core(r), NEW s, NEW t, Follows(r, s), Follows(s, t)
  PROVE  Follows(r, t)
<1>1. /\ r \in GameState /\ s \in GameState /\ t \in GameState
      /\ Core(s) /\ Core(t)
  BY DEF Follows, Core
<1>2. /\ Progress(r) \in Nat /\ Progress(s) \in Nat /\ Progress(t) \in Nat
      /\ r.phase # "lobby" => s.phase # "lobby"
      /\ Started(r) => Started(s)
  BY <1>1, ProgressPhase DEF Follows
<1>3. /\ \A f \in {r, s, t} : f.lastNow \in Nat /\ f.loggedAt \in Nat
                              /\ f.phaseToken \in Nat /\ f.revision \in Nat
  BY <1>1 DEF GameState
<1>4. /\ t.lastNow >= r.lastNow /\ t.loggedAt >= r.loggedAt /\ Progress(t) >= Progress(r)
      /\ t.revision >= r.revision
  BY <1>2, <1>3 DEF Follows
<1>5. t.phaseToken > r.phaseToken \/ (t.phaseToken = r.phaseToken /\ SameWindow(r, t))
  BY <1>3 DEF Follows, SameWindow
<1>6. Numbered(r, t)
  <2>1. CASE s.revision > r.revision \/ t.revision > s.revision
    BY <1>3, <2>1 DEF Follows, Numbered
  <2>2. CASE s = [r EXCEPT !.lastNow = s.lastNow] /\ t = [s EXCEPT !.lastNow = t.lastNow]
    <3>1. [s EXCEPT !.lastNow = t.lastNow] = [r EXCEPT !.lastNow = t.lastNow]
      BY <1>1, <2>2 DEF GameState
    <3>. QED BY <2>2, <3>1 DEF Numbered
  <2>. QED BY <2>1, <2>2 DEF Follows, Numbered
<1>7. /\ r.phase # "lobby" => t.members = r.members
      /\ Started(r) => t.seats = r.seats
  BY <1>2 DEF Follows
<1>8. Heard(r, t)
  BY DEF Follows, Heard
<1>. QED BY <1>4, <1>5, <1>6, <1>7, <1>8 DEF Follows

LEMMA ClockFollows ==
  ASSUME NEW s, Core(s), Timely(s), NEW now \in Nat, now >= s.lastNow
  PROVE  Follows(s, [s EXCEPT !.lastNow = now])
<1>. DEFINE t == [s EXCEPT !.lastNow = now]
<1>1. Core(t) /\ t.lastNow = now /\ Progress(t) = Progress(s) /\ Progress(s) \in Nat
  BY ClockCore, ProgressType
<1>2. s \in GameState
  BY DEF Core
<1>3. /\ t.phase = s.phase /\ t.phaseToken = s.phaseToken /\ t.revision = s.revision
      /\ t.members = s.members /\ t.seats = s.seats /\ t.phaseAt = s.phaseAt
      /\ t.deadlineAt = s.deadlineAt /\ t.loggedAt = s.loggedAt /\ t.round = s.round
      /\ t.answers = s.answers /\ t.debate = s.debate /\ t.votes = s.votes
  BY <1>2 DEF GameState
<1>4. t = [s EXCEPT !.lastNow = t.lastNow] /\ s.loggedAt \in Nat /\ s.revision \in Nat
  BY <1>1, <1>2 DEF GameState
<1>. HIDE DEF t
<1>5. Timely(t) /\ Heard(s, t) /\ SameWindow(s, t) /\ Numbered(s, t)
  BY <1>3, <1>4 DEF Timely, Heard, SameWindow, SeatIds, Numbered
<1>6. Follows(s, t)
  BY <1>1, <1>3, <1>4, <1>5 DEF Follows
<1>. QED BY <1>6 DEF t

LEMMA ExpireFollows ==
  ASSUME NEW s, Core(s), Timely(s), Due(s, s.lastNow)
  PROVE  Follows(s, Expire(s))
<1>. DEFINE t == Expire(s)
<1>1. /\ Onward(s, t) /\ t.phaseToken > s.phaseToken /\ t.loggedAt >= s.loggedAt
      /\ t.revision = s.revision + 1 /\ Heard(s, t) /\ Timely(t)
  BY ExpireCore, ExpireMoves
<1>. HIDE DEF t
<1>2. Core(t) /\ SameTable(s, t) /\ Progress(t) > Progress(s)
  BY <1>1 DEF Onward
<1>3. /\ Progress(s) \in Nat /\ Progress(t) \in Nat /\ s.revision \in Nat /\ s.lastNow \in Nat
  BY <1>2, ProgressType DEF Core, GameState
<1>4. Follows(s, t)
  BY <1>1, <1>2, <1>3 DEF Follows, Numbered, SameTable
<1>. QED BY <1>4 DEF t

\* Time that passes, whatever it expires, only carries the match on.
LEMMA AdvanceTimeFollows ==
  ASSUME NEW s, Core(s), Timely(s), NEW now \in Nat, now >= s.lastNow
  PROVE  Follows(s, AdvanceTime(s, now))
<1>. DEFINE u == [s EXCEPT !.lastNow = now]
            G == {t \in GameState : Follows(s, t)}
<1>1. Core(u) /\ u.lastNow = now /\ Follows(s, u)
  BY ClockCore, ClockFollows
<1>2. Expired(u, now) = AdvanceTime(s, now)
  BY DEF AdvanceTime
<1>. HIDE DEF u
<1>3. ASSUME NEW t \in G, Core(t), SameTable(u, t), Due(t, u.lastNow)
      PROVE  Expire(t) \in G
  <2>1. Follows(s, t) /\ Timely(t) /\ Due(t, t.lastNow)
    BY <1>3 DEF Follows, SameTable
  <2>2. Follows(t, Expire(t))
    BY <1>3, <2>1, ExpireFollows
  <2>3. Follows(s, Expire(t))
    BY <1>3, <2>1, <2>2, FollowsTransitive
  <2>. QED BY <2>3 DEF Follows, Core
<1>4. u \in G
  BY <1>1 DEF Core
<1>5. Expired(u, u.lastNow) \in G
  <2>. HIDE DEF G
  <2>. QED BY <1>1, <1>3, <1>4, ExpiredKeeps
<1>. QED BY <1>1, <1>2, <1>5

\* A command that was taken gives a state of its own revision.
LEMMA LawfulFollows ==
  ASSUME NEW s, Core(s), NEW v, Core(v), Lawful(s, v)
  PROVE  Follows(s, [v EXCEPT !.revision = @ + 1])
<1>. DEFINE t == [v EXCEPT !.revision = @ + 1]
<1>1. Core(t) /\ v \in GameState /\ s \in GameState
  BY NumberedCore DEF Core
<1>2. /\ t.phase = v.phase /\ t.phaseToken = v.phaseToken /\ t.revision = v.revision + 1
      /\ t.members = v.members /\ t.seats = v.seats /\ t.phaseAt = v.phaseAt
      /\ t.deadlineAt = v.deadlineAt /\ t.loggedAt = v.loggedAt /\ t.round = v.round
      /\ t.answers = v.answers /\ t.debate = v.debate /\ t.votes = v.votes
      /\ t.lastNow = v.lastNow
  BY <1>1 DEF GameState
<1>. HIDE DEF t
<1>3. Progress(t) = Progress(v) /\ Timely(t) /\ Heard(s, t)
  BY <1>2 DEF Progress, Timely, Heard, SeatIds, Lawful
<1>4. s.revision \in Nat /\ s.lastNow \in Nat
  BY <1>1 DEF GameState
<1>5. t.phaseToken > s.phaseToken \/ (t.phaseToken = s.phaseToken /\ SameWindow(s, t))
  BY <1>2 DEF Lawful, SameWindow
<1>6. Follows(s, t)
  BY <1>1, <1>2, <1>3, <1>4, <1>5 DEF Follows, Lawful, Numbered
<1>. QED BY <1>6 DEF t

-----------------------------------------------------------------------------
(* Twins: two states of one match that differ at most in their clocks and  *)
(* in who sits where.  The rules do not look at either, but for the result *)
(* of the vote: whatever happens to one twin happens to the other.         *)

Twin(s, u) ==
  /\ s \in GameState /\ u \in GameState
  /\ u.matchId = s.matchId /\ u.phase = s.phase /\ u.phaseToken = s.phaseToken
  /\ u.revision = s.revision /\ u.members = s.members /\ u.ready = s.ready
  /\ Len(u.seats) = Len(s.seats) /\ u.round = s.round /\ u.answers = s.answers
  /\ u.debate = s.debate /\ u.deadlineAt = s.deadlineAt /\ u.votes = s.votes
  /\ u.loggedAt = s.loggedAt /\ u.phaseAt = s.phaseAt

LEMMA RoundTwin ==
  ASSUME NEW s, NEW u, Twin(s, u), NEW t, NEW v, NEW r, NEW at,
         RoundBegun(s, t, r, at), RoundBegun(u, v, r, at)
  PROVE  Twin(t, v)
BY DEF Twin, RoundBegun, SameTable

LEMMA DebateTwin ==
  ASSUME NEW s, NEW u, Twin(s, u), NEW t, NEW v, NEW at,
         DebateBegun(s, t, at), DebateBegun(u, v, at)
  PROVE  Twin(t, v)
BY DEF Twin, DebateBegun, SameTable

LEMMA VotingTwin ==
  ASSUME NEW s, NEW u, Twin(s, u), NEW t, NEW v, NEW at,
         VotingBegun(s, t, at), VotingBegun(u, v, at)
  PROVE  Twin(t, v)
BY DEF Twin, VotingBegun, SameTable

LEMMA FinishTwin ==
  ASSUME NEW s, NEW u, Twin(s, u), NEW t, NEW v, NEW at,
         Finished(s, t, at), Finished(u, v, at)
  PROVE  Twin(t, v)
BY DEF Twin, Finished, SameTable

LEMMA StepTwin ==
  ASSUME NEW s, NEW u, Twin(s, u), NEW t, NEW v, NEW at,
         StepBegun(s, t, at), StepBegun(u, v, at)
  PROVE  Twin(t, v)
BY DEF Twin, StepBegun, SameTable

LEMMA FillAnswersTwin ==
  ASSUME NEW s, NEW u, Twin(s, u), s.round \in Round, SeatIds(s) \subseteq SeatNo
  PROVE  Twin(FillAnswers(s), FillAnswers(u))
<1>. DEFINE row == [i \in SeatNo |->
              IF i \in SeatIds(s) /\ s.answers[s.round][i] = "none" THEN "default"
              ELSE s.answers[s.round][i]]
            all == [s.answers EXCEPT ![s.round] = row]
            t == FillAnswers(s)
            v == FillAnswers(u)
<1>1. SeatIds(u) = SeatIds(s) /\ u.answers = s.answers /\ u.round = s.round
  BY DEF Twin, SeatIds
<1>2. t = [s EXCEPT !.answers = all] /\ v = [u EXCEPT !.answers = all]
  BY <1>1 DEF FillAnswers
<1>. HIDE DEF all
<1>3. Filled(s, t) /\ Filled(u, v)
  BY <1>1, FillAnswersFields DEF Twin
<1>. HIDE DEF t, v
<1>4. t.answers = all /\ v.answers = all
  BY <1>2 DEF Twin, GameState
<1>5. Twin(t, v)
  BY <1>3, <1>4 DEF Twin, Filled, Unmoved, SameTable
<1>. QED BY <1>5 DEF t, v

LEMMA AbstainAllTwin ==
  ASSUME NEW s, NEW u, Twin(s, u), SeatIds(s) \subseteq SeatNo
  PROVE  Twin(AbstainAll(s), AbstainAll(u))
<1>. DEFINE row == [i \in SeatNo |->
              IF i \in SeatIds(s) /\ s.votes[i] = NotVoted THEN NoSeat ELSE s.votes[i]]
            t == AbstainAll(s)
            v == AbstainAll(u)
<1>1. SeatIds(u) = SeatIds(s) /\ u.votes = s.votes
  BY DEF Twin, SeatIds
<1>2. t = [s EXCEPT !.votes = row] /\ v = [u EXCEPT !.votes = row]
  BY <1>1 DEF AbstainAll
<1>. HIDE DEF row
<1>3. Abstained(s, t) /\ Abstained(u, v)
  BY <1>1, AbstainAllFields DEF Twin
<1>. HIDE DEF t, v
<1>4. t.votes = row /\ v.votes = row
  BY <1>2 DEF Twin, GameState
<1>5. Twin(t, v)
  BY <1>3, <1>4 DEF Twin, Abstained, Unmoved, SameTable
<1>. QED BY <1>5 DEF t, v

LEMMA NextDebateTwin ==
  ASSUME NEW s, NEW u, Twin(s, u), NEW at \in Nat, s.debate.globalDeadlineAt \in Nat
  PROVE  Twin(NextDebate(s, at), NextDebate(u, at))
<1>. DEFINE d == NextStep(s.debate)
            m == [s EXCEPT !.debate = d]
            n == [u EXCEPT !.debate = d]
            t == NextDebate(s, at)
            v == NextDebate(u, at)
<1>1. s \in GameState /\ u \in GameState /\ u.debate = s.debate /\ Len(u.seats) = Len(s.seats)
  BY DEF Twin
<1>2. /\ IF d.turnIndex = Len(s.seats) THEN VotingBegun(m, t, at) ELSE StepBegun(s, t, at)
      /\ IF d.turnIndex = Len(s.seats) THEN VotingBegun(n, v, at) ELSE StepBegun(u, v, at)
  BY <1>1, NextDebateFields
<1>. HIDE DEF d, t, v
<1>3. ASSUME d.turnIndex = Len(s.seats) PROVE Twin(t, v)
  <2>1. /\ Len(n.seats) = Len(m.seats)
        /\ n.matchId = m.matchId /\ n.phaseToken = m.phaseToken
        /\ n.revision = m.revision /\ n.members = m.members /\ n.ready = m.ready
        /\ n.round = m.round /\ n.answers = m.answers /\ n.debate = m.debate
        /\ n.votes = m.votes
    BY <1>1 DEF Twin, GameState
  <2>. HIDE DEF m, n
  <2>. QED BY <1>2, <1>3, <2>1 DEF VotingBegun, SameTable, Twin
<1>4. ASSUME d.turnIndex # Len(s.seats) PROVE Twin(t, v)
  BY <1>2, <1>4, StepTwin
<1>5. Twin(t, v)
  BY <1>3, <1>4
<1>. QED BY <1>5 DEF t, v

LEMMA LoggedTwin ==
  ASSUME NEW s, NEW u, Twin(s, u), NEW at \in Nat
  PROVE  Twin(Logged(s, at), Logged(u, at))
BY DEF Twin, Logged, GameState

LEMMA TargetTwin ==
  ASSUME NEW s, NEW u, Twin(s, u), NEW seat \in 0..MaxSeats
  PROVE  Twin([s EXCEPT !.debate.targetSeat = seat], [u EXCEPT !.debate.targetSeat = seat])
<1>. DEFINE d == [s.debate EXCEPT !.targetSeat = seat]
<1>1. d \in Debate /\ u.debate = s.debate
  BY DEF Twin, GameState, Debate
<1>2. /\ [s EXCEPT !.debate.targetSeat = seat] = [s EXCEPT !.debate = d]
      /\ [u EXCEPT !.debate.targetSeat = seat] = [u EXCEPT !.debate = d]
  BY <1>1
<1>. HIDE DEF d
<1>3. Twin([s EXCEPT !.debate = d], [u EXCEPT !.debate = d])
  BY <1>1 DEF Twin, GameState
<1>. QED BY <1>2, <1>3

LEMMA NumberedTwin ==
  ASSUME NEW s, NEW u, Twin(s, u)
  PROVE  Twin([s EXCEPT !.revision = @ + 1], [u EXCEPT !.revision = @ + 1])
<1>. DEFINE n == s.revision + 1
<1>1. n \in Nat /\ u.revision + 1 = n
  BY DEF Twin, GameState
<1>2. /\ [s EXCEPT !.revision = @ + 1] = [s EXCEPT !.revision = n]
      /\ [u EXCEPT !.revision = @ + 1] = [u EXCEPT !.revision = n]
  BY <1>1
<1>. HIDE DEF n
<1>3. Twin([s EXCEPT !.revision = n], [u EXCEPT !.revision = n])
  BY <1>1 DEF Twin, GameState
<1>. QED BY <1>2, <1>3

LEMMA ExpireTwin ==
  ASSUME NEW s, Core(s), Due(s, s.lastNow), NEW u, Core(u), Twin(s, u)
  PROVE  Twin(Expire(s), Expire(u))
<1>. DEFINE at == s.deadlineAt
            next == CASE s.phase = "answering" -> ExpireAnswering(s, at)
                      [] s.phase = "debating"  -> ExpireDebating(s, at)
                      [] s.phase = "voting"    -> ExpireVoting(s, at)
            other == CASE s.phase = "answering" -> ExpireAnswering(u, at)
                       [] s.phase = "debating"  -> ExpireDebating(u, at)
                       [] s.phase = "voting"    -> ExpireVoting(u, at)
<1>1. /\ s.phase \in {"answering", "debating", "voting"} /\ at \in Nat
      /\ s \in GameState /\ ValidMembers(s) /\ ValidSeating(s) /\ Started(s)
      /\ s.round \in Round /\ u.deadlineAt = at /\ u.phase = s.phase /\ u.round = s.round
      /\ u.debate = s.debate /\ u \in GameState
  BY DEF Core, Due, ValidPhaseFields, Started, GameState, Phase, Twin, NoTime
<1>2. /\ SeatIds(s) \subseteq SeatNo /\ Len(s.seats) <= MaxSeats
      /\ Len(u.seats) = Len(s.seats) /\ Accuser(u) = Accuser(s) /\ SeatIds(u) = SeatIds(s)
  BY <1>1, SeatBound DEF Twin, Accuser, SeatIds
<1>3. Twin(next, other)
  <2>. HIDE DEF at
  <2>1. CASE s.phase = "answering"
    <3>. DEFINE t == FillAnswers(s)
                v == FillAnswers(u)
    <3>0. Filled(s, t) /\ Filled(u, v) /\ Twin(t, v)
      BY <1>1, <1>2, FillAnswersTwin, FillAnswersFields
    <3>1. Twin(t, v) /\ t.round = s.round /\ v.round = s.round /\ v \in GameState
      BY <1>1, <3>0 DEF Twin, Filled, Unmoved
    <3>. HIDE DEF t, v
    <3>2. CASE s.round < LastRound
      <4>1. s.round + 1 \in Round
        BY <1>1, <3>2, RoundsAssumption DEF Round
      <4>2. /\ RoundBegun(t, BeginRound(t, s.round + 1, at), s.round + 1, at)
            /\ RoundBegun(v, BeginRound(v, s.round + 1, at), s.round + 1, at)
        BY <1>1, <3>1, <4>1, BeginRoundFields DEF Twin
      <4>3. Twin(EndRound(t, at), EndRound(v, at))
        BY <3>1, <3>2, <4>2, RoundTwin DEF EndRound
      <4>. QED BY <2>1, <4>3 DEF ExpireAnswering, t, v
    <3>3. CASE ~(s.round < LastRound)
      <4>1. DebateBegun(t, BeginDebate(t, at), at) /\ DebateBegun(v, BeginDebate(v, at), at)
        BY <1>1, <3>1, BeginDebateFields DEF Twin
      <4>2. Twin(EndRound(t, at), EndRound(v, at))
        BY <3>1, <3>3, <4>1, DebateTwin DEF EndRound
      <4>. QED BY <2>1, <4>2 DEF ExpireAnswering, t, v
    <3>. QED BY <3>2, <3>3
  <2>2. CASE s.phase = "debating"
    <3>1. s.debate.globalDeadlineAt \in Nat
      BY <2>2 DEF Core, ValidPhaseFields, GameState, Debate
    <3>2. CASE at >= s.debate.globalDeadlineAt
      <4>1. VotingBegun(s, BeginVoting(s, at), at) /\ VotingBegun(u, BeginVoting(u, at), at)
        BY <1>1, BeginVotingFields
      <4>2. next = BeginVoting(s, at) /\ other = BeginVoting(u, at)
        BY <1>1, <2>2, <3>2 DEF ExpireDebating
      <4>. QED BY <4>1, <4>2, VotingTwin
    <3>3. CASE ~(at >= s.debate.globalDeadlineAt) /\ s.debate.step = "accusation"
      <4>. DEFINE seat == (Accuser(s) % Len(s.seats)) + 1
                  t == [s EXCEPT !.debate.targetSeat = seat]
                  v == [u EXCEPT !.debate.targetSeat = seat]
      <4>1. seat \in 0..MaxSeats
        BY <1>1, NextSeatType
      <4>2. next = NextDebate(Logged(t, at), at) /\ other = NextDebate(Logged(v, at), at)
        BY <1>1, <1>2, <2>2, <3>3 DEF ExpireDebating
      <4>. HIDE DEF seat
      <4>3. Twin(t, v) /\ t.debate.globalDeadlineAt = s.debate.globalDeadlineAt
        BY <1>1, <4>1, TargetTwin DEF GameState, Debate
      <4>. HIDE DEF t, v
      <4>4. Twin(Logged(t, at), Logged(v, at)) /\ Logged(t, at).debate = t.debate
        BY <1>1, <4>3, LoggedTwin DEF Logged, Twin, GameState
      <4>. QED BY <1>1, <3>1, <4>2, <4>3, <4>4, NextDebateTwin
    <3>4. CASE ~(at >= s.debate.globalDeadlineAt) /\ s.debate.step # "accusation"
      <4>1. next = NextDebate(Logged(s, at), at) /\ other = NextDebate(Logged(u, at), at)
        BY <1>1, <2>2, <3>4 DEF ExpireDebating
      <4>2. Twin(Logged(s, at), Logged(u, at)) /\ Logged(s, at).debate = s.debate
        BY <1>1, LoggedTwin DEF Logged, GameState
      <4>. QED BY <1>1, <3>1, <4>1, <4>2, NextDebateTwin
    <3>. QED BY <3>2, <3>3, <3>4
  <2>3. CASE s.phase = "voting"
    <3>. DEFINE t == AbstainAll(s)
                v == AbstainAll(u)
    <3>1. Abstained(s, t) /\ Abstained(u, v) /\ Twin(t, v)
      BY <1>1, <1>2, AbstainAllTwin, AbstainAllFields
    <3>1a. t.seats = s.seats /\ v.seats = u.seats
      BY <3>1 DEF Abstained, SameTable
    <3>2. next = Finish(t, at) /\ other = Finish(v, at)
      BY <2>3 DEF ExpireVoting
    <3>. HIDE DEF t, v
    <3>3. Finished(t, Finish(t, at), at) /\ Finished(v, Finish(v, at), at)
      BY <1>1, <1>2, <3>1, <3>1a, FinishFields DEF Twin
    <3>. QED BY <3>1, <3>2, <3>3, FinishTwin
  <2>. QED BY <1>1, <2>1, <2>2, <2>3
<1>4. /\ Expire(s) = [next EXCEPT !.revision = @ + 1]
      /\ Expire(u) = [other EXCEPT !.revision = @ + 1]
  BY <1>1 DEF Expire
<1>. HIDE DEF next, other
<1>5. Twin([next EXCEPT !.revision = @ + 1], [other EXCEPT !.revision = @ + 1])
  BY <1>3, NumberedTwin
<1>. QED BY <1>4, <1>5

\* The deadline loop treats twins alike, and stops for both at once.
LEMMA ExpiredTwin ==
  ASSUME NEW s, Core(s), NEW u, Core(u), Twin(s, u), u.lastNow = s.lastNow
  PROVE  Twin(Expired(s, s.lastNow), Expired(u, s.lastNow))
<1>. DEFINE now == s.lastNow
            Match(t, w) == /\ Core(w) /\ Twin(t, w) /\ w.lastNow = now
                           /\ Expired(w, now) = Expired(u, now)
            G == {t \in GameState : \E w : Match(t, w)}
            t == Expired(s, now)
<1>1. s \in G
  BY DEF Core
<1>2. ASSUME NEW x \in G, Core(x), SameTable(s, x), Due(x, now)
      PROVE  Expire(x) \in G
  <2>1. PICK w : Match(x, w)
    BY <1>2
  <2>2. x.lastNow = now /\ w.deadlineAt = x.deadlineAt
    BY <1>2, <2>1 DEF SameTable, Twin
  <2>3. Due(w, now)
    BY <1>2, <2>2 DEF Due
  <2>4. Onward(w, Expire(w)) /\ Expired(Expire(w), now) = Expired(w, now)
    BY <2>1, <2>3, ExpireCore, ExpiredUnfold
  <2>5. Twin(Expire(x), Expire(w))
    BY <1>2, <2>1, <2>2, ExpireTwin
  <2>6. Match(Expire(x), Expire(w))
    BY <2>1, <2>4, <2>5 DEF Onward, SameTable
  <2>. QED BY <2>5, <2>6 DEF Twin
<1>3. t \in G
  <2>. HIDE DEF G
  <2>. QED BY <1>1, <1>2, ExpiredKeeps
<1>4. ~Due(t, now) /\ Core(t)
  BY ExpiredCore
<1>. HIDE DEF t
<1>5. PICK w : Match(t, w)
  BY <1>3
<1>6. ~Due(w, now)
  BY <1>4, <1>5 DEF Due, Twin
<1>7. Expired(w, now) = w
  BY <1>5, <1>6, ExpiredIdle
<1>. QED BY <1>5, <1>7 DEF t

LEMMA ClockTwin ==
  ASSUME NEW s, NEW u, Twin(s, u), NEW now \in Nat, NEW then \in Nat
  PROVE  Twin([s EXCEPT !.lastNow = now], [u EXCEPT !.lastNow = then])
BY DEF Twin, GameState

LEMMA AdvanceTimeTwin ==
  ASSUME NEW s, Core(s), NEW u, Core(u), Twin(s, u),
         NEW now \in Nat, now >= s.lastNow, now >= u.lastNow
  PROVE  Twin(AdvanceTime(s, now), AdvanceTime(u, now))
<1>. DEFINE t == [s EXCEPT !.lastNow = now]
            v == [u EXCEPT !.lastNow = now]
<1>1. Core(t) /\ t.lastNow = now /\ Core(v) /\ v.lastNow = now
  BY ClockCore
<1>2. Twin(t, v)
  BY ClockTwin
<1>3. AdvanceTime(s, now) = Expired(t, now) /\ AdvanceTime(u, now) = Expired(v, now)
  BY DEF AdvanceTime
<1>. HIDE DEF t, v
<1>. QED BY <1>1, <1>2, <1>3, ExpiredTwin

\* Twins with the same table and the same clock are one and the same state.
LEMMA TwinIdentity ==
  ASSUME NEW s, Core(s), NEW u, Core(u), Twin(s, u), u.seats = s.seats,
         u.lastNow = s.lastNow
  PROVE  u = s
<1>1. u.result = s.result
  BY DEF Core, ValidResult, Twin
<1>. DEFINE Copy(t) ==
              [matchId |-> t.matchId, phase |-> t.phase, phaseToken |-> t.phaseToken,
               revision |-> t.revision, lastNow |-> t.lastNow, members |-> t.members,
               ready |-> t.ready, seats |-> t.seats, round |-> t.round,
               answers |-> t.answers, debate |-> t.debate, deadlineAt |-> t.deadlineAt,
               votes |-> t.votes, result |-> t.result, loggedAt |-> t.loggedAt,
               phaseAt |-> t.phaseAt]
<1>2. \A t \in GameState : t = Copy(t)
  BY DEF GameState
<1>3. Copy(u) = Copy(s)
  BY <1>1 DEF Twin
<1>4. s \in GameState /\ u \in GameState
  BY DEF Twin
<1>. HIDE DEF Copy
<1>5. s = Copy(s) /\ u = Copy(u)
  BY <1>2, <1>4
<1>. QED BY <1>3, <1>5

(***************************************************************************)
(* A deadline is replayed at its own time, so that it does not matter when *)
(* the loop gets to it: going through an earlier moment changes nothing.   *)
(***************************************************************************)
LEMMA AdvanceTimeTwice ==
  ASSUME NEW s, Core(s), NEW early \in Nat, NEW late \in Nat,
         s.lastNow <= early, early <= late
  PROVE  AdvanceTime(AdvanceTime(s, early), late) = AdvanceTime(s, late)
<1>. DEFINE At(t, now) == [t EXCEPT !.lastNow = now]
            a == At(s, early)
            b == At(s, late)
            G == {t \in GameState : Expired(At(t, late), late) = Expired(b, late)}
            end == Expired(a, early)
<1>1. s \in GameState /\ s.lastNow \in Nat /\ s.lastNow <= late
  BY DEF Core, GameState
<1>2. Core(a) /\ a.lastNow = early /\ a \in GameState
  BY ClockCore DEF Core
<1>3. At(a, late) = b
  BY <1>1 DEF GameState
<1>4. ASSUME NEW t \in G, Core(t), SameTable(a, t), Due(t, early)
      PROVE  Expire(t) \in G
  <2>. DEFINE w == At(t, late)
              x == Expire(t)
              y == Expire(w)
  <2>1. t.lastNow = early /\ t \in GameState /\ t.deadlineAt \in Nat \cup {NoTime}
    BY <1>2, <1>4 DEF SameTable, Core, GameState
  <2>2. Core(w) /\ w.lastNow = late
    BY <1>4, <2>1, ClockCore
  <2>3. Twin(t, w) /\ w.seats = t.seats /\ w.deadlineAt = t.deadlineAt
    BY <2>1 DEF Twin, GameState
  <2>4. Expired(w, late) = Expired(b, late)
    BY <1>4
  <2>. HIDE DEF w
  <2>5. Due(w, late)
    <3>1. t.deadlineAt # NoTime /\ early >= t.deadlineAt
      BY <1>4 DEF Due
    <3>2. late >= t.deadlineAt
      BY <2>1, <3>1 DEF NoTime
    <3>. QED BY <2>3, <3>1, <3>2 DEF Due
  <2>6. Onward(t, x) /\ Onward(w, y) /\ Expired(y, late) = Expired(w, late)
    BY <1>4, <2>1, <2>2, <2>5, ExpireCore, ExpiredUnfold
  <2>7. Twin(x, y)
    BY <1>4, <2>1, <2>2, <2>3, ExpireTwin
  <2>. HIDE DEF x, y
  <2>8. y = At(x, late)
    <3>1. Core(At(x, late)) /\ At(x, late).lastNow = late
      BY <2>1, <2>6, ClockCore DEF Onward, SameTable
    <3>2. Twin(At(x, late), y) /\ At(x, late).seats = x.seats
      BY <2>7 DEF Twin, GameState
    <3>3. Core(y) /\ y.lastNow = late /\ y.seats = x.seats
      BY <2>2, <2>3, <2>6 DEF Onward, SameTable
    <3>4. At(x, late).seats = y.seats /\ At(x, late).lastNow = y.lastNow
      BY <3>1, <3>2, <3>3
    <3>. DEFINE z == At(x, late)
    <3>5. Core(z) /\ Core(y) /\ Twin(z, y) /\ y.seats = z.seats /\ y.lastNow = z.lastNow
      BY <3>1, <3>2, <3>3, <3>4
    <3>. HIDE DEF z
    <3>6. y = z
      BY <3>5, TwinIdentity
    <3>. QED BY <3>6 DEF z
  <2>9. x \in GameState
    BY <2>6 DEF Onward, Core
  <2>. QED BY <2>4, <2>6, <2>8, <2>9 DEF x
<1>5. end \in G
  <2>1. a \in G
    BY <1>2, <1>3
  <2>. HIDE DEF G, a
  <2>. QED BY <1>2, <1>4, <2>1, ExpiredKeeps
<1>6. /\ AdvanceTime(s, early) = end /\ AdvanceTime(s, late) = Expired(b, late)
      /\ AdvanceTime(end, late) = Expired(At(end, late), late)
  BY DEF AdvanceTime
<1>. HIDE DEF end, b, At
<1>. QED BY <1>5, <1>6

-----------------------------------------------------------------------------
(* Commands and views treat twins alike                                    *)

LEMMA AddAnswerTwin ==
  ASSUME NEW s, NEW u, Twin(s, u), s.round \in Round, NEW seat \in SeatNo, NEW now \in Nat
  PROVE  Twin(AddAnswer(s, seat, now), AddAnswer(u, seat, now))
<1>. DEFINE all == [s.answers EXCEPT ![s.round] = [@ EXCEPT ![seat] = "own"]]
            t == [s EXCEPT !.answers = all, !.loggedAt = now]
            v == [u EXCEPT !.answers = all, !.loggedAt = now]
            full == \A i \in SeatIds(t) : t.answers[t.round][i] # "none"
<1>1. /\ s \in GameState /\ u \in GameState /\ u.answers = s.answers /\ u.round = s.round
      /\ s.answers \in [Round -> [SeatNo -> Answer]]
  BY DEF Twin, GameState
<1>2. all \in [Round -> [SeatNo -> Answer]]
  BY <1>1 DEF Answer
<1>3. /\ AddAnswer(s, seat, now) = IF full THEN HoldRound(t, now) ELSE t
      /\ AddAnswer(u, seat, now) = IF \A i \in SeatIds(v) : v.answers[v.round][i] # "none"
                                   THEN HoldRound(v, now) ELSE v
  BY <1>1 DEF AddAnswer, Logged
<1>. HIDE DEF all
<1>4. Twin(t, v)
  BY <1>1, <1>2 DEF Twin, GameState
<1>. HIDE DEF t, v
<1>5. full <=> \A i \in SeatIds(v) : v.answers[v.round][i] # "none"
  BY <1>4 DEF Twin, SeatIds
<1>6. Twin(HoldRound(t, now), HoldRound(v, now))
  <2>. DEFINE due == now + READ_PAUSE_MS
  <2>1. due \in Nat
    BY TimesAssumption
  <2>2. HoldRound(t, now) = [t EXCEPT !.deadlineAt = due]
        /\ HoldRound(v, now) = [v EXCEPT !.deadlineAt = due]
    BY DEF HoldRound
  <2>. HIDE DEF due
  <2>3. Twin([t EXCEPT !.deadlineAt = due], [v EXCEPT !.deadlineAt = due])
    BY <1>4, <2>1 DEF Twin, GameState
  <2>. QED BY <2>2, <2>3
<1>. HIDE DEF full
<1>7. CASE full
  BY <1>3, <1>5, <1>6, <1>7
<1>8. CASE ~full
  BY <1>3, <1>4, <1>5, <1>8
<1>. QED BY <1>7, <1>8

LEMMA AddVoteTwin ==
  ASSUME NEW s, NEW u, Twin(s, u), Len(s.seats) <= MaxSeats, NEW seat \in SeatNo,
         NEW target \in SeatNo, NEW now \in Nat
  PROVE  Twin(AddVote(s, seat, target, now), AddVote(u, seat, target, now))
<1>. DEFINE all == [s.votes EXCEPT ![seat] = target]
            t == [s EXCEPT !.votes = all, !.loggedAt = now]
            v == [u EXCEPT !.votes = all, !.loggedAt = now]
            full == \A i \in SeatIds(t) : t.votes[i] # NotVoted
<1>1. /\ s \in GameState /\ u \in GameState /\ u.votes = s.votes
      /\ s.votes \in [SeatNo -> {NotVoted} \cup 0..MaxSeats]
      /\ target \in 0..MaxSeats
  BY MaxSeatsBound DEF Twin, GameState, SeatNo
<1>2. all \in [SeatNo -> {NotVoted} \cup 0..MaxSeats]
  BY <1>1
<1>3. /\ AddVote(s, seat, target, now) = IF full THEN Finish(t, now) ELSE t
      /\ AddVote(u, seat, target, now) = IF \A i \in SeatIds(v) : v.votes[i] # NotVoted
                                         THEN Finish(v, now) ELSE v
  BY <1>1 DEF AddVote, Logged
<1>. HIDE DEF all
<1>4. Twin(t, v) /\ t.seats = s.seats /\ v.seats = u.seats
  BY <1>1, <1>2 DEF Twin, GameState
<1>. HIDE DEF t, v
<1>5. full <=> \A i \in SeatIds(v) : v.votes[i] # NotVoted
  BY <1>4 DEF Twin, SeatIds
<1>6. Twin(Finish(t, now), Finish(v, now))
  <2>1. Finished(t, Finish(t, now), now) /\ Finished(v, Finish(v, now), now)
    BY <1>4, FinishFields DEF Twin
  <2>. QED BY <1>4, <2>1, FinishTwin
<1>. HIDE DEF full
<1>7. CASE full
  BY <1>3, <1>5, <1>6, <1>7
<1>8. CASE ~full
  BY <1>3, <1>4, <1>5, <1>8
<1>. QED BY <1>7, <1>8

LEMMA SpeakTwin ==
  ASSUME NEW s, NEW u, Twin(s, u), s.debate.globalDeadlineAt \in Nat, NEW now \in Nat
  PROVE  Twin(Speak(s, now), Speak(u, now))
<1>1. Twin(Logged(s, now), Logged(u, now)) /\ Logged(s, now).debate = s.debate
  BY LoggedTwin DEF Logged, Twin, GameState
<1>. QED BY <1>1, NextDebateTwin DEF Speak

LEMMA AccuseTwin ==
  ASSUME NEW s, NEW u, Twin(s, u), s.debate.globalDeadlineAt \in Nat,
         NEW target \in SeatNo, NEW now \in Nat
  PROVE  Twin(Accuse(s, target, now), Accuse(u, target, now))
<1>. DEFINE t == [s EXCEPT !.debate.targetSeat = target]
            v == [u EXCEPT !.debate.targetSeat = target]
<1>1. target \in 0..MaxSeats
  BY MaxSeatsBound DEF SeatNo
<1>2. Twin(t, v) /\ t.debate.globalDeadlineAt = s.debate.globalDeadlineAt
  BY <1>1, TargetTwin DEF Twin, GameState, Debate
<1>3. /\ Accuse(s, target, now) = Speak(t, now)
      /\ Accuse(u, target, now) = Speak(v, now)
  BY DEF Accuse, Speak
<1>. HIDE DEF t, v
<1>. QED BY <1>2, <1>3, SpeakTwin

(***************************************************************************)
(* A watcher who has the same seats, with the same roles, in both twins is *)
(* shown the same until the end.                                           *)
(***************************************************************************)
Unaware(s, u, p) ==
  p # NoOne =>
    /\ ActingSeats(u, Participant(p)) = ActingSeats(s, Participant(p))
    /\ \A i \in ActingSeats(s, Participant(p)) : u.seats[i].role = s.seats[i].role

LEMMA OfferedTwin ==
  ASSUME NEW s, NEW u, Twin(s, u), NEW p, Unaware(s, u, p), p # NoOne
  PROVE  Offered(u, p) = Offered(s, p)
<1>1. Accuser(u) = Accuser(s) /\ ActingSeats(u, Participant(p)) = ActingSeats(s, Participant(p))
  BY DEF Twin, Accuser, Unaware
<1>2. /\ u.phase = s.phase /\ u.members = s.members /\ u.answers = s.answers
      /\ u.round = s.round /\ u.votes = s.votes /\ u.debate = s.debate
  BY DEF Twin
<1>. QED BY <1>1, <1>2 DEF Offered

LEMMA ViewTwin ==
  ASSUME NEW s, NEW u, Twin(s, u), u.lastNow = s.lastNow, NEW p, Unaware(s, u, p),
         s.phase # "revealed"
  PROVE  View(u, p) = View(s, p)
<1>. DEFINE Self(t) == IF p = NoOne THEN {} ELSE ActingSeats(t, Participant(p))
<1>1. Self(u) = Self(s) /\ \A i \in Self(s) : u.seats[i].role = s.seats[i].role
  BY DEF Unaware
<1>. HIDE DEF Self
<1>2. {<<i, u.seats[i].role>> : i \in Self(u)} = {<<i, s.seats[i].role>> : i \in Self(s)}
  BY <1>1
<1>3. p # NoOne => Offered(u, p) = Offered(s, p)
  BY OfferedTwin
<1>4. SeatIds(u) = SeatIds(s) /\ SeatsShown(u) = SeatsShown(s) /\ Accuser(u) = Accuser(s)
  BY DEF Twin, SeatIds, SeatsShown, Accuser
<1>5. /\ u.matchId = s.matchId /\ u.phase = s.phase /\ u.phaseToken = s.phaseToken
      /\ u.revision = s.revision /\ u.members = s.members /\ u.ready = s.ready
      /\ u.round = s.round /\ u.answers = s.answers
      /\ u.debate = s.debate /\ u.deadlineAt = s.deadlineAt /\ u.votes = s.votes
      /\ u.loggedAt = s.loggedAt /\ u.phaseAt = s.phaseAt
  BY DEF Twin
<1>. DEFINE When(shown, value) == IF shown THEN {value} ELSE {}
            Shown(t) ==
              [matchId |-> t.matchId, revision |-> t.revision, phaseToken |-> t.phaseToken,
               phase |-> t.phase, serverNow |-> t.lastNow, deadlineAt |-> t.deadlineAt,
               round |-> t.round,
               lobby   |-> When(t.phase = "lobby",
                                <<Cardinality(t.members), Cardinality(t.ready),
                                  {p} \cap t.members, {p} \cap t.ready>>),
               self    |-> {<<i, t.seats[i].role>> : i \in Self(t)},
               seats   |-> SeatsShown(t),
               answers |-> t.answers, votes |-> t.votes, log |-> <<t.loggedAt, t.phaseAt>>,
               debate  |-> When(t.phase = "debating", <<t.debate, Accuser(t)>>),
               result  |-> When(t.phase = "revealed",
                                <<t.result, [i \in SeatIds(t) |-> t.seats[i].role]>>),
               actions |-> IF p = NoOne THEN {} ELSE Offered(t, p)]
<1>6. View(u, p) = Shown(u) /\ View(s, p) = Shown(s)
  BY DEF View, Self
<1>7. Shown(u) = Shown(s)
  BY <1>2, <1>3, <1>4, <1>5
<1>. QED BY <1>6, <1>7

-----------------------------------------------------------------------------
(* One command of whatever actor                                           *)

\* A drawn seating is a sequence of seats.
LEMMA AssignSeatsType ==
  ASSUME NEW members \in SUBSET Participants, IsFiniteSet(members),
         2 <= Cardinality(members), Cardinality(members) <= MaxPlayers,
         NEW seats \in AssignSeats(members)
  PROVE  seats \in Seq(Seat)
<1>. DEFINE n == SeatCount(Cardinality(members))
<1>1. n \in Nat
  <2>1. Cardinality(members) \in Nat
    BY FS_CardinalityType
  <2>. QED BY <2>1, SeatCountBound
<1>2. PICK owner \in [1..n -> members \cup {NoOne}], shadows \in SUBSET members :
        seats = Seating(owner, shadows)
  BY DEF AssignSeats
<1>. HIDE DEF n
<1>3. \A i \in 1..n : owner[i] \in Participants \cup {NoOne}
  BY <1>2
<1>4. Seating(owner, shadows) \in [1..n -> Seat]
  BY <1>2, <1>3 DEF Seating, Seat, Role
<1>. QED BY <1>1, <1>2, <1>4

\* Where each element of B is the image of one place, B has as many places as elements.
PlacesOf(places, owner, p) == {i \in places : owner[i] = p}
PlacesIn(places, owner, B) == {i \in places : owner[i] \in B}

LEMMA OnePlaceEach ==
  ASSUME NEW places, IsFiniteSet(places), NEW owner, NEW B, IsFiniteSet(B),
         \A p \in B : Cardinality(PlacesOf(places, owner, p)) = 1
  PROVE  /\ Cardinality(PlacesIn(places, owner, B)) = Cardinality(B)
         /\ \A p \in B : \E i \in places : owner[i] = p
         /\ \A i, j \in places : owner[i] = owner[j] /\ owner[i] \in B => i = j
<1>. DEFINE C == {i \in places : owner[i] \in B}
            f == [i \in C |-> owner[i]]
<1>1. \A p \in B : \E i : {j \in places : owner[j] = p} = {i}
  <2>. SUFFICES ASSUME NEW p \in B PROVE \E i : {j \in places : owner[j] = p} = {i}
    OBVIOUS
  <2>. DEFINE P == {j \in places : owner[j] = p}
  <2>1. IsFiniteSet(P)
    BY FS_Subset
  <2>2. Cardinality(P) = 1
    BY DEF PlacesOf
  <2>. HIDE DEF P
  <2>3. \E i : P = {i}
    BY <2>1, <2>2, FS_Singleton
  <2>. QED BY <2>3 DEF P
<1>2. \A p \in B : \E i \in places : owner[i] = p
  BY <1>1
<1>3. \A i, j \in places : owner[i] = owner[j] /\ owner[i] \in B => i = j
  <2>. SUFFICES ASSUME NEW i \in places, NEW j \in places, owner[i] = owner[j], owner[i] \in B
                PROVE  i = j
    OBVIOUS
  <2>1. PICK x : {y \in places : owner[y] = owner[i]} = {x}
    BY <1>1
  <2>. QED BY <2>1
<1>4. f \in Bijection(C, B)
  <2>1. f \in [C -> B] /\ \A p \in B : \E i \in C : f[i] = p
    BY <1>2
  <2>2. \A i, j \in C : f[i] = f[j] => i = j
    BY <1>3
  <2>. HIDE DEF f, C
  <2>. QED BY <2>1, <2>2 DEF Bijection, Injection, Surjection, IsInjective
<1>5. IsFiniteSet(C) /\ ExistsBijection(C, B)
  <2>1. IsFiniteSet(C)
    BY FS_Subset
  <2>. HIDE DEF f, C
  <2>. QED BY <1>4, <2>1 DEF ExistsBijection
<1>6. Cardinality(C) = Cardinality(B)
  <2>. HIDE DEF C
  <2>. QED BY <1>5, FS_Bijection
<1>. QED BY <1>2, <1>3, <1>6 DEF PlacesIn

(***************************************************************************)
(* Whatever the two shuffles of assignSeats draw, the seating is the one   *)
(* that resolve-topic asks for.                                            *)
(***************************************************************************)
LEMMA AssignSeatsValid ==
  ASSUME NEW s, s.members \in SUBSET Participants, IsFiniteSet(s.members),
         2 <= Cardinality(s.members), Cardinality(s.members) <= MaxPlayers,
         NEW seats \in AssignSeats(s.members)
  PROVE  ValidSeats(s, seats)
<1>. DEFINE members == s.members
            m == Cardinality(members)
            k == ShadowCount(m)
            n == SeatCount(m)
            places == 1..n
<1>1. m \in Nat /\ 2 <= m /\ n \in Nat /\ k \in Nat /\ n = 2 * m - k /\ k <= m
  <2>1. m \in Nat
    BY FS_CardinalityType
  <2>. HIDE DEF m
  <2>. QED BY <2>1, SeatCountBound DEF m, SeatCount, ShadowCount
<1>2. PICK owner \in [places -> members \cup {NoOne}], shadows \in SUBSET members :
        /\ seats = Seating(owner, shadows) /\ Cardinality(shadows) = k
        /\ \A p \in members : Cardinality(PlacesOf(places, owner, p)) = 1
  BY DEF AssignSeats, PlacesOf
<1>. HIDE DEF m, n, k
<1>3. IsFiniteSet(places) /\ Cardinality(places) = n
  BY <1>1, FS_Interval
<1>4. NoOne \notin members
  BY ParticipantsAssumption
<1>5. seats \in Seq(Seat) /\ Len(seats) = n
  <2>1. \A i \in places : owner[i] \in Participants \cup {NoOne}
    BY <1>2
  <2>2. Seating(owner, shadows) \in [places -> Seat]
    BY <1>2, <2>1 DEF Seating, Seat, Role
  <2>3. seats \in [1..n -> Seat] /\ n \in Nat
    BY <1>1, <1>2, <2>2
  <2>. HIDE DEF places
  <2>. QED BY <2>3
<1>6. 1..Len(seats) = places
  BY <1>5
<1>. HIDE DEF places
<1>7. \A i \in places :
        /\ seats[i].participantId = owner[i]
        /\ seats[i].role = IF owner[i] = NoOne THEN "ai"
                           ELSE IF owner[i] \in shadows THEN "shadow" ELSE "human"
  BY <1>2 DEF Seating
<1>. DEFINE Of(role) == {i \in places : seats[i].role = role}
            In(B) == PlacesIn(places, owner, B)
<1>8. /\ Of("human") = In(members \ shadows) /\ Of("shadow") = In(shadows)
      /\ Of("ai") = places \ In(members)
  BY <1>2, <1>4, <1>7 DEF PlacesIn
<1>9. \A B \in SUBSET members : IsFiniteSet(B) /\ Cardinality(In(B)) = Cardinality(B)
  <2>. SUFFICES ASSUME NEW B \in SUBSET members
                PROVE  IsFiniteSet(B) /\ Cardinality(In(B)) = Cardinality(B)
    OBVIOUS
  <2>1. IsFiniteSet(B)
    BY FS_Subset
  <2>2. \A p \in B : Cardinality(PlacesOf(places, owner, p)) = 1
    BY <1>2
  <2>. QED BY <1>3, <2>1, <2>2, OnePlaceEach
<1>10. /\ \A p \in members : \E i \in places : owner[i] = p
       /\ \A i, j \in places : owner[i] = owner[j] /\ owner[i] \in members => i = j
  <2>1. IsFiniteSet(members) /\ \A p \in members : Cardinality(PlacesOf(places, owner, p)) = 1
    BY <1>2
  <2>2. /\ Cardinality(PlacesIn(places, owner, members)) = Cardinality(members)
        /\ \A p \in members : \E i \in places : owner[i] = p
        /\ \A i, j \in places : owner[i] = owner[j] /\ owner[i] \in members => i = j
    <3>. HIDE DEF members
    <3>. QED BY <1>3, <2>1, OnePlaceEach
  <2>. QED BY <2>2
<1>11. Cardinality(Of("human")) = m - k
  <2>1. Cardinality(members \ shadows) = Cardinality(members) - Cardinality(members \cap shadows)
    BY FS_Difference
  <2>2. members \cap shadows = shadows /\ (members \ shadows) \in SUBSET members
    OBVIOUS
  <2>3. Cardinality(In(members \ shadows)) = Cardinality(members \ shadows)
    BY <1>9, <2>2
  <2>. QED BY <1>2, <1>8, <2>1, <2>2, <2>3 DEF m
<1>12. Cardinality(Of("shadow")) = k
  <2>1. Cardinality(In(shadows)) = Cardinality(shadows)
    BY <1>9
  <2>. QED BY <1>2, <1>8, <2>1
<1>13. Cardinality(Of("ai")) = n - m
  <2>1. Cardinality(In(members)) = m
    BY <1>9 DEF m
  <2>2. Cardinality(places \ In(members)) = Cardinality(places) - Cardinality(places \cap In(members))
    BY <1>3, FS_Difference
  <2>3. places \cap In(members) = In(members)
    BY DEF PlacesIn
  <2>. QED BY <1>3, <1>8, <2>1, <2>2, <2>3
<1>. DEFINE counts == RoleCounts(m)
<1>14. counts.human = m - k /\ counts.shadow = k /\ counts.ai = n - m /\ n = (m - k) + k + (n - m)
  BY <1>1 DEF RoleCounts, k
<1>15. \A role \in Role : Cardinality(Of(role)) = counts[role]
  BY <1>11, <1>12, <1>13, <1>14 DEF Role
<1>. DEFINE players == {i \in places : seats[i].role # "ai"}
<1>16. /\ players = In(members)
       /\ \A i \in places : seats[i].role = "ai" => seats[i].participantId = NoOne
       /\ \A i \in players : seats[i].participantId \in members
       /\ \A i, j \in players : seats[i].participantId = seats[j].participantId => i = j
       /\ {seats[i].participantId : i \in players} = members
  BY <1>2, <1>4, <1>7, <1>10 DEF PlacesIn
<1>17. Len(seats) = counts.human + counts.shadow + counts.ai
  BY <1>5, <1>14
<1>. QED BY <1>6, <1>15, <1>16, <1>17, Zenon DEF ValidSeats, m

\* The seat that a player who has one acts for.
LEMMA ActingSeatType ==
  ASSUME NEW s, NEW actor, ActingSeats(s, actor) # {}
  PROVE  ActingSeat(s, actor) \in SeatIds(s)
BY DEF ActingSeat, ActingSeats

\* How many may sit down once the lobby is left.
LEMMA MembersBound ==
  ASSUME NEW s, Valid(s), s.phase # "lobby"
  PROVE  /\ s.members \in SUBSET Participants /\ IsFiniteSet(s.members)
         /\ 2 <= Cardinality(s.members) /\ Cardinality(s.members) <= MaxPlayers
<1>1. /\ s.members \in SUBSET Participants /\ IsFiniteSet(s.members)
      /\ Cardinality(s.members) <= MaxPlayers /\ Cardinality(s.members) >= MinPlayers
  BY DEF Valid, Core, GameState, ValidMembers
<1>2. Cardinality(s.members) \in Nat
  BY <1>1, FS_CardinalityType
<1>. QED BY <1>1, <1>2, PlayersAssumption

\* A command is refused, or leaves a valid state by a lawful effect and takes a revision.
Sound(s) == Valid(s) /\ Timely(s)
Lands(s, v) == Valid(v) /\ Lawful(s, v)
Effect(s, t) == t = s \/ \E v : Lands(s, v) /\ t = [v EXCEPT !.revision = @ + 1]

\* What is asked of a command whatever its sender meant by it.
WellFormed(actor, c) ==
  /\ actor.kind = "participant" => actor.id \in Participants
  /\ c.type = "ready" => c.ready \in BOOLEAN
  /\ c.type = "resolve-topic" => c.seats \in Seq(Seat)

LEMMA AcceptedLands ==
  ASSUME NEW s, Sound(s), NEW actor, NEW c, WellFormed(actor, c), Accepts(s, actor, c)
  PROVE  Lands(s, Apply(s, actor, c, s.lastNow))
<1>. DEFINE now == s.lastNow
            seat == ActingSeat(s, actor)
            p == actor.id
<1>1. Valid(s) /\ Timely(s)
  BY DEF Sound
<1>2. CASE c.type = "join"
  <2>1. MayJoin(s, actor)
    BY <1>2 DEF Accepts
  <2>2. p \in Participants /\ MayJoin(s, Participant(p))
    BY <2>1 DEF MayJoin, Participant, WellFormed
  <2>3. Apply(s, actor, c, now) = Join(s, p)
    BY <1>2 DEF Apply
  <2>. QED BY <1>1, <2>2, <2>3, JoinValid, JoinLawful DEF Lands
<1>3. CASE c.type = "ready"
  <2>1. MayReady(s, actor) /\ c.ready \in BOOLEAN
    BY <1>3 DEF Accepts, WellFormed
  <2>2. p \in Participants /\ MayReady(s, Participant(p))
    BY <2>1 DEF MayReady, Participant, WellFormed
  <2>3. Apply(s, actor, c, now) = SetReady(s, p, c.ready, now)
    BY <1>3 DEF Apply
  <2>. QED BY <1>1, <2>1, <2>2, <2>3, SetReadyValid, SetReadyLawful DEF Lands
<1>4. CASE c.type = "resolve-topic"
  <2>1. s.phase = "preparing" /\ ValidSeats(s, c.seats) /\ c.seats \in Seq(Seat)
    BY <1>4 DEF Accepts, MayResolve, WellFormed
  <2>2. Apply(s, actor, c, now) = ResolveTopic(s, c.seats, now)
    BY <1>4 DEF Apply
  <2>. QED BY <1>1, <2>1, <2>2, ResolveTopicValid, ResolveTopicLawful DEF Lands
<1>5. CASE c.type = "answer"
  <2>1. /\ seat \in SeatIds(s) /\ s.phase = "answering"
        /\ s.answers[s.round][seat] = "none"
    BY <1>5, ActingSeatType DEF Accepts, MayAnswer
  <2>2. Apply(s, actor, c, now) = AddAnswer(s, seat, now)
    BY <1>5 DEF Apply
  <2>. HIDE DEF seat
  <2>. QED BY <1>1, <2>1, <2>2, AddAnswerValid, AddAnswerLawful DEF Lands
<1>6. CASE c.type = "vote"
  <2>1. /\ seat \in SeatIds(s) /\ s.phase = "voting"
        /\ IsTarget(s, seat, c.target) /\ s.votes[seat] = NotVoted
    BY <1>6, ActingSeatType DEF Accepts, MayVote
  <2>2. Apply(s, actor, c, now) = AddVote(s, seat, c.target, now)
    BY <1>6 DEF Apply
  <2>. HIDE DEF seat
  <2>. QED BY <1>1, <2>1, <2>2, AddVoteValid, AddVoteLawful DEF Lands
<1>7. CASE c.type = "accuse"
  <2>1. c.target \in SeatIds(s) /\ s.phase = "debating"
    BY <1>7 DEF Accepts, MayAccuse, IsTarget
  <2>2. Apply(s, actor, c, now) = Accuse(s, c.target, now)
    BY <1>7 DEF Apply
  <2>. QED BY <1>1, <2>1, <2>2, AccuseValid, AccuseLawful DEF Lands
<1>8. CASE c.type \in {"respond", "followup", "skip-followup"}
  <2>1. s.phase = "debating"
    BY <1>8 DEF Accepts, MayRespond, MayFollowUp
  <2>2. Apply(s, actor, c, now) = Speak(s, now)
    BY <1>8 DEF Apply
  <2>. QED BY <1>1, <2>1, <2>2, SpeakValid, SpeakLawful DEF Lands
<1>. QED BY <1>2, <1>3, <1>4, <1>5, <1>6, <1>7, <1>8 DEF Accepts

\* decide() takes a command or leaves the state as it is.
LEMMA DecideEffect ==
  ASSUME NEW s, Sound(s), NEW actor, NEW envelope, WellFormed(actor, envelope.command)
  PROVE  Effect(s, Decide(s, actor, envelope, s.lastNow).state)
<1>. DEFINE c == envelope.command
            next == Apply(s, actor, c, s.lastNow)
            t == Decide(s, actor, envelope, s.lastNow).state
<1>1. t = s \/ (Accepts(s, actor, c) /\ t = [next EXCEPT !.revision = @ + 1])
  BY Zenon DEF Decide
<1>2. Accepts(s, actor, c) => Lands(s, next)
  BY AcceptedLands
<1>. HIDE DEF next, t
<1>3. Effect(s, t)
  BY <1>1, <1>2 DEF Effect
<1>. QED BY <1>3 DEF t

\* Advancing time is sound and follows.
LEMMA AdvanceTimeSound ==
  ASSUME NEW s, Sound(s), NEW now \in Nat, now >= s.lastNow
  PROVE  /\ Sound(AdvanceTime(s, now)) /\ Follows(s, AdvanceTime(s, now))
         /\ AdvanceTime(s, now).lastNow = now
<1>1. Core(s) /\ Timely(s)
  BY DEF Sound, Valid
<1>2. Valid(AdvanceTime(s, now)) /\ AdvanceTime(s, now).lastNow = now
  BY <1>1, AdvanceTimeValid DEF AdvancedTo
<1>3. Follows(s, AdvanceTime(s, now))
  BY <1>1, AdvanceTimeFollows
<1>. QED BY <1>2, <1>3 DEF Sound, Follows

\* A command's effect is one of the things that may follow a state.
LEMMA EffectFollows ==
  ASSUME NEW s, Sound(s), NEW t, Follows(s, t), Sound(t), NEW u, Effect(t, u)
  PROVE  Sound(u) /\ Follows(s, u) /\ u.lastNow = t.lastNow
<1>1. Core(s) /\ Core(t)
  BY DEF Sound, Valid
<1>2. ASSUME NEW v, Lands(t, v), u = [v EXCEPT !.revision = @ + 1]
      PROVE  Sound(u) /\ Follows(s, u) /\ u.lastNow = t.lastNow
  <2>1. Valid(u) /\ Core(v) /\ v.lastNow = t.lastNow
    BY <1>2, NumberedValid DEF Lands, Valid, Lawful
  <2>2. u.lastNow = v.lastNow
    BY <1>2, <2>1 DEF Core, GameState
  <2>3. Follows(t, u)
    BY <1>1, <1>2, <2>1, LawfulFollows DEF Lands
  <2>4. Follows(s, u)
    BY <1>1, <2>3, FollowsTransitive
  <2>. QED BY <2>1, <2>2, <2>4 DEF Sound, Follows
<1>. QED BY <1>2 DEF Effect
-----------------------------------------------------------------------------
(* A game that has just been created                                       *)

LEMMA CreateGameValid ==
  ASSUME NEW m \in MatchIds
  PROVE  Valid(CreateGame(m, 0))
<1>. DEFINE s == CreateGame(m, 0)
<1>1. NoDebate \in Debate /\ NoResult \in Result
  BY MaxSeatsBound DEF NoDebate, Debate, DebateStep, NoSeat, NoTime, NoResult, Result
<1>2. <<>> \in Seq(Seat) /\ 0 \in 0..LastRound
  BY RoundsAssumption
<1>3. s \in GameState
  BY <1>1, <1>2 DEF CreateGame, GameState, Phase, NoTime, Answer, NotVoted
<1>4. /\ s.phase = "lobby" /\ s.members = {} /\ s.ready = {} /\ s.seats = <<>>
      /\ s.round = 0 /\ s.debate = NoDebate /\ s.deadlineAt = NoTime
      /\ s.loggedAt = 0 /\ s.lastNow = 0 /\ s.result = NoResult
      /\ s.answers = [r \in Round |-> [i \in SeatNo |-> "none"]]
      /\ s.votes = [i \in SeatNo |-> NotVoted]
  BY DEF CreateGame
<1>. HIDE DEF s
<1>5. Answered(s, 1) = {} /\ \A r \in Round : Answered(s, r) = {}
  BY <1>4, RoundsAssumption DEF Answered, Round
<1>6. Voted(s) = {}
  BY <1>4 DEF Voted
<1>7. ValidMembers(s)
  BY <1>4, FS_EmptySet, PlayersAssumption DEF ValidMembers
<1>8. ValidSeating(s) /\ ValidPhaseFields(s) /\ ValidLog(s) /\ ValidResult(s)
      /\ ValidDeadline(s)
  BY <1>4 DEF ValidSeating, ValidPhaseFields, ValidLog, ValidResult, ValidDeadline, Started
<1>9. ValidAnswers(s) /\ ValidVotes(s)
  BY <1>4, <1>5, <1>6 DEF ValidAnswers, ValidVotes, Started
<1>10. Valid(s)
  BY <1>3, <1>7, <1>8, <1>9 DEF Valid, Core
<1>. QED BY <1>10 DEF s

LEMMA CreateGameTimely ==
  ASSUME NEW m \in MatchIds
  PROVE  Timely(CreateGame(m, 0))
BY DEF Timely, CreateGame
=============================================================================
