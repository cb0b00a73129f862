----------------------------- MODULE RoomRuntime -----------------------------
(***************************************************************************)
(* A room of src/application/room-runtime.ts: the runtime objects that may *)
(* hold it, the stored record they share, and the players who send them    *)
(* commands.  A runtime runs its jobs one at a time from a queue; a job    *)
(* that changes the record stops at the save of the new one, so that a     *)
(* save may fail, a rival may win, or the process may die in between.      *)
(* The game in the record is the one of GameRules.                         *)
(*                                                                         *)
(* Abstractions: a fingerprint is the request itself; of an error code it  *)
(* is kept whether it is recorded; the timers that delay an AI seat (its   *)
(* beat), time out a provider and space retries may end at any moment.     *)
(***************************************************************************)
EXTENDS GameRules

CONSTANTS
  Runtimes,          \* runtime objects, in one process or several
  CommandIds,
  MaxReceipts,
  Candidates,        \* number of topic candidates
  TopicBackoffMs, TopicMaxBackoffMs,
  Early,             \* how early a timer may fire, by the clock that deadlines are read on
  Calls,             \* bound: which players try which commands, under which ids
  Seatings,          \* bound: the outcomes of the seat draw that are tried
  Contents,          \* bound: the outcomes of the content checks that are tried
  MaxRequests,       \* bound: requests the players make
  MaxQueue,          \* bound: calls that wait behind the job that runs
  StartUntil,        \* bound: a match that is played has started by then
  CrashUntil,        \* bound: no crash later than this
  SetBack,           \* bound: how far a restarted machine's clock may have been set back
  Horizon            \* bound: the clock stops here

ASSUME RuntimeAssumption ==
  /\ MaxReceipts \in Nat \ {0} /\ Candidates \in Nat \ {0} /\ Early \in Nat
  /\ TopicBackoffMs \in Nat \ {0} /\ TopicMaxBackoffMs \in Nat
  /\ TopicBackoffMs <= TopicMaxBackoffMs

\* What the gateway lets through of a player's command, and the join of an admission.
PlayerCommand ==
  [type : {"join"}] \cup [type : {"ready"}, ready : BOOLEAN]
  \cup [type : {"answer"}, round : Round, valid : Contents]
  \cup [type : {"vote"}, target : SeatNo]
  \cup [type : {"accuse"}, target : SeatNo, valid : Contents]
  \cup [type : {"respond", "followup", "skip-followup"}, valid : Contents]

\* The players of a table that may start.
Tables ==
  {members \in SUBSET Participants : IsFiniteSet(members)
                                     /\ Cardinality(members) \in MinPlayers..MaxPlayers}

ASSUME RoomBoundsAssumption ==
  /\ MaxRequests \in Nat /\ MaxQueue \in Nat
  /\ StartUntil \in Nat /\ CrashUntil \in Nat /\ SetBack \in Nat /\ Horizon \in Nat
  /\ StartUntil <= Horizon
  /\ Calls \subseteq [participant : Participants, commandId : CommandIds, command : PlayerCommand]
  /\ Contents \subseteq BOOLEAN
  /\ Seatings \subseteq UNION {AssignSeats(members) : members \in Tables}

VARIABLES
  clock,   \* the wall clock of the machine
  store,   \* the record in the room store
  mem,     \* what each runtime object holds
  sent,    \* requests on their way: lost, delayed, repeated or reordered at will
  acks,    \* the recorded outcomes that players have been told
  seen     \* the newest revision a player has been shown

vars == <<clock, store, mem, sent, acks, seen>>

-----------------------------------------------------------------------------
(* Data                                                                    *)

Request == [commandId : CommandIds, phaseToken : Nat, command : {x.command : x \in Calls}]
Ack == [ok : BOOLEAN, revision : Nat]
Receipt == [participant : Participants, request : Request, ack : Ack]
Preparation == [candidateIndex : 0..(Candidates - 1), cycles : Nat, retryAt : Nat]
Record == [version : Nat, state : GameState, receipts : SUBSET Receipt,
           preparation : Preparation]

TopicKey == 0    \* the key of the topic task; an AI seat's task has its seat
TaskKey == 0..MaxSeats

Down == [status |-> "down"]
Idle == [stage |-> "idle"]

Alive(r) == mem[r].status # "down"

\* Neither closing nor closed.
Running(m) == m.status \in {"opening", "open"}

\* Mutant: opening a stored room starts its match over.
OpenedAfresh ==
  [status |-> "opening", job |-> Idle,
   record |-> [store EXCEPT !.state = CreateGame(store.state.matchId, clock)],
   queue |-> <<[kind |-> "open"]>>, tasks |-> {}, attempts |-> {},
   taskToken |-> -1, wake |-> NoTime, retries |-> {}]

\* A runtime that has just loaded the stored record.
Opened ==
  [status |-> "opening", record |-> store, job |-> Idle,
   queue |-> <<[kind |-> "open"]>>, tasks |-> {}, attempts |-> {},
   taskToken |-> -1, wake |-> NoTime, retries |-> {}]

InitWith(state) ==
  /\ clock = state.lastNow
  /\ \E i \in 0..(Candidates - 1) :
       store = [version |-> 0, state |-> state, receipts |-> {},
                preparation |-> [candidateIndex |-> i, cycles |-> 0, retryAt |-> 0]]
  /\ mem = [r \in Runtimes |-> Down]
  /\ sent = {} /\ acks = {} /\ seen = 0

\* The room has just been created.
Init == \E m \in MatchIds : InitWith(CreateGame(m, 0))

-----------------------------------------------------------------------------
(* Tasks and the wake timer                                                *)

\* Mutant: the clock is believed when it has been set back.
NowRaw(m) == clock

Now(m) == IF clock > m.record.state.lastNow THEN clock ELSE m.record.state.lastNow

\* The AI seats that have something to say in this window.
AiWork(s) ==
  {i \in SeatsOf(s, "ai") :
     \/ s.phase = "answering" /\ s.answers[s.round][i] = "none"
     \/ s.phase = "voting" /\ s.votes[i] = NotVoted
     \/ s.phase = "debating" /\ i = IF s.debate.step = "response"
                                    THEN s.debate.targetSeat ELSE Accuser(s)}

Task(m, key) == [key |-> key, token |-> m.record.state.phaseToken, settled |-> FALSE]

\* Tasks of an earlier window are aborted and forgotten.
Forget(m) ==
  IF m.taskToken = m.record.state.phaseToken THEN m
  ELSE [m EXCEPT !.tasks = {}, !.attempts = {}, !.taskToken = m.record.state.phaseToken]

StartTopic(m) ==
  IF \E t \in m.tasks : t.key = TopicKey THEN m
  ELSE [m EXCEPT !.tasks = @ \cup {Task(m, TopicKey)}]

StartAi(m) ==
  LET new == AiWork(m.record.state) \ m.attempts
  IN [m EXCEPT !.attempts = @ \cup new, !.tasks = @ \cup {Task(m, i) : i \in new}]

WakeAt(record, now) ==
  IF record.state.deadlineAt # NoTime THEN record.state.deadlineAt
  ELSE IF record.state.phase = "preparing" /\ record.preparation.retryAt > now
       THEN record.preparation.retryAt ELSE NoTime

Reconcile(m) ==
  LET now   == Now(m)
      woken == [Forget(m) EXCEPT !.wake = WakeAt(m.record, now)]
  IN CASE Due(m.record.state, now) -> woken
       [] m.record.state.phase = "preparing" ->
            IF m.record.preparation.retryAt > now THEN woken ELSE StartTopic(woken)
       [] OTHER -> StartAi(woken)

\* Jobs behind a stopped runtime's could only fail: they are dropped with it.
Stop(m) == [m EXCEPT !.status = "closed", !.job = Idle, !.queue = <<>>, !.tasks = {},
                     !.wake = NoTime, !.retries = {}]

-----------------------------------------------------------------------------
(* Jobs: what each does up to its save                                     *)

Saving(m, j, step, next) ==
  [m EXCEPT !.job = [stage |-> "saving", of |-> j, step |-> step,
                     next |-> [next EXCEPT !.version = m.record.version + 1]]]

Advanced(m) == [m.record EXCEPT !.state = AdvanceTime(@, Now(m))]

\* expire() commits only what changed the revision.
MustExpire(m) == Advanced(m).state.revision # m.record.state.revision

Envelope(m, token, command) ==
  [matchId |-> m.record.state.matchId, phaseToken |-> token, command |-> command]

Dispatched(m, p, q) ==
  LET result == Transition(m.record.state, Participant(p),
                           Envelope(m, q.phaseToken, q.command), Now(m))
  IN [m.record EXCEPT
        !.state = result.state,
        !.receipts = @ \cup {[participant |-> p, request |-> q,
                              ack |-> [ok |-> result.ok, revision |-> result.state.revision]]}]

\* Mutant: only what was accepted is remembered.
PreviousAccepted(record, p, commandId) ==
  {x \in record.receipts : x.participant = p /\ x.request.commandId = commandId /\ x.ack.ok}

Previous(record, p, commandId) ==
  {x \in record.receipts : x.participant = p /\ x.request.commandId = commandId}

LiveTask(m, task) ==
  /\ \E t \in m.tasks : t.key = task.key /\ t.token = task.token
  /\ m.record.state.phaseToken = task.token

EndTask(m, task) ==
  Reconcile([m EXCEPT !.tasks = {t \in @ : t.key # task.key}])

Backoff(cycles) ==
  Earlier(TopicMaxBackoffMs,
          TopicBackoffMs * 2 ^ (IF cycles > 20 THEN 20 ELSE IF cycles = 0 THEN 0 ELSE cycles - 1))

\* Mutant: the candidates run out one too late.
NextCandidateBeyond(m) ==
  LET wrapped == m.record.preparation.candidateIndex = Candidates
      cycles  == m.record.preparation.cycles + (IF wrapped THEN 1 ELSE 0)
  IN [m.record EXCEPT !.preparation =
        [candidateIndex |-> IF wrapped THEN 0 ELSE @.candidateIndex + 1,
         cycles |-> cycles,
         retryAt |-> Now(m) + (IF wrapped THEN Backoff(cycles) ELSE 0)]]

\* The next candidate; after the last one, the first again and a pause.
NextCandidate(m) ==
  LET wrapped == m.record.preparation.candidateIndex = Candidates - 1
      cycles  == m.record.preparation.cycles + (IF wrapped THEN 1 ELSE 0)
  IN [m.record EXCEPT !.preparation =
        [candidateIndex |-> IF wrapped THEN 0 ELSE @.candidateIndex + 1,
         cycles |-> cycles,
         retryAt |-> Now(m) + (IF wrapped THEN Backoff(cycles) ELSE 0)]]

\* What the rules make of a resolved topic and a draw of the seats.
Resolutions(m) ==
  {Transition(m.record.state, System,
     Envelope(m, m.record.state.phaseToken,
              [type |-> "resolve-topic", valid |-> valid, seats |-> seats]),
     Now(m)) : valid \in Contents, seats \in Seatings}

\* A topic that the rules refuse has failed like one that did not come.
TopicDecided(m, j, x) ==
  Saving(m, j, "last", IF x.ok THEN [m.record EXCEPT !.state = x.state] ELSE NextCandidate(m))

TopicReceived(m, j) ==
  IF j.outcome = "failed" THEN {Saving(m, j, "last", NextCandidate(m))}
  ELSE {TopicDecided(m, j, x) : x \in Resolutions(m)}

\* What an AI seat may say; the kinds it must not say are refused like invalid ones.
AiCommands(s) ==
  CASE s.phase = "answering" -> [type : {"answer"}, round : {s.round}, valid : Contents]
    [] s.phase = "voting"    -> [type : {"vote"}, target : SeatIds(s)]
    [] s.phase = "debating"  ->
         CASE s.debate.step = "accusation" ->
                [type : {"accuse"}, target : SeatIds(s), valid : Contents]
           [] s.debate.step = "response" -> [type : {"respond"}, valid : Contents]
           [] s.debate.step = "followup" ->
                [type : {"followup", "skip-followup"}, valid : Contents]

AiReceived(m, j) ==
  LET results == {Transition(m.record.state, AiPlayer(j.task.key),
                    Envelope(m, j.task.token, c), Now(m)) : c \in AiCommands(m.record.state)}
  IN IF j.outcome = "failed" THEN {EndTask(m, j.task)}
     ELSE {IF x.ok THEN Saving(m, j, "last", [m.record EXCEPT !.state = x.state])
           ELSE EndTask(m, j.task) : x \in results}

\* The memories that receive() may lead to.
Received(m, j) ==
  IF j.task.key = TopicKey THEN TopicReceived(m, j) ELSE AiReceived(m, j)

-----------------------------------------------------------------------------
(* The queue runs one job at a time                                        *)

Front(r, kind) ==
  /\ Alive(r) /\ mem[r].job = Idle
  /\ mem[r].queue # <<>> /\ Head(mem[r].queue).kind = kind

Popped(r) == [mem[r] EXCEPT !.queue = Tail(@)]

RunDispatch(r) ==
  /\ Front(r, "dispatch")
  /\ LET m == Popped(r)
         j == Head(mem[r].queue)
         previous == Previous(m.record, j.participant, j.request.commandId)
     IN \/ /\ previous # {}
           /\ mem' = [mem EXCEPT ![r] = m]
           /\ acks' = acks \cup {x \in previous : x.request = j.request}
        \/ /\ previous = {} /\ Cardinality(m.record.receipts) >= MaxReceipts
           /\ mem' = [mem EXCEPT ![r] = m]
           /\ UNCHANGED acks
        \/ /\ previous = {} /\ Cardinality(m.record.receipts) < MaxReceipts
           /\ mem' = [mem EXCEPT ![r] =
                        Saving(m, j, "last", Dispatched(m, j.participant, j.request))]
           /\ UNCHANGED acks
  /\ UNCHANGED <<clock, store, sent, seen>>

Newest(a, b) == IF a > b THEN a ELSE b

\* Mutant: the view is sent while its state is being saved.
RunSyncEager(r) ==
  /\ Front(r, "sync")
  /\ LET m == Popped(r)
         j == Head(mem[r].queue)
     IN /\ mem' = [mem EXCEPT ![r] =
                     IF MustExpire(m) THEN Saving(m, j, "last", Advanced(m)) ELSE m]
        /\ seen' = Newest(seen, Advanced(m).state.revision)
  /\ UNCHANGED <<clock, store, sent, acks>>

\* sync() and the wake timer catch up with the deadlines that have passed.
RunSync(r) ==
  /\ Front(r, "sync")
  /\ LET m == Popped(r)
         j == Head(mem[r].queue)
     IN IF MustExpire(m)
        THEN /\ mem' = [mem EXCEPT ![r] = Saving(m, j, "last", Advanced(m))]
             /\ UNCHANGED seen
        ELSE /\ mem' = [mem EXCEPT ![r] = m]
             /\ seen' = Newest(seen, m.record.state.revision)
  /\ UNCHANGED <<clock, store, sent, acks>>

RunExpire(r) ==
  /\ Front(r, "expire")
  /\ LET m == Popped(r)
         j == Head(mem[r].queue)
     IN mem' = [mem EXCEPT ![r] = IF Running(m) /\ MustExpire(m)
                                  THEN Saving(m, j, "last", Advanced(m)) ELSE m]
  /\ UNCHANGED <<clock, store, sent, acks, seen>>

RunOpen(r) ==
  /\ Front(r, "open")
  /\ LET m == Popped(r)
         j == Head(mem[r].queue)
     IN mem' = [mem EXCEPT ![r] = IF MustExpire(m) THEN Saving(m, j, "last", Advanced(m))
                                  ELSE Reconcile([m EXCEPT !.status = "open"])]
  /\ UNCHANGED <<clock, store, sent, acks, seen>>

RunReceive(r) ==
  /\ Front(r, "receive")
  /\ LET m == Popped(r)
         j == Head(mem[r].queue)
         live == Running(m) /\ LiveTask(m, j.task)
     IN \/ ~live /\ mem' = [mem EXCEPT ![r] = m]
        \/ /\ live /\ MustExpire(m)
           /\ mem' = [mem EXCEPT ![r] = Saving(m, j, "expire", Advanced(m))]
        \/ /\ live /\ ~MustExpire(m)
           /\ \E n \in Received(m, j) : mem' = [mem EXCEPT ![r] = n]
  /\ UNCHANGED <<clock, store, sent, acks, seen>>

RunClose(r) ==
  /\ Front(r, "close")
  /\ mem' = [mem EXCEPT ![r] = Stop(mem[r])]
  /\ UNCHANGED <<clock, store, sent, acks, seen>>

RunCloseIfLobby(r) ==
  /\ Front(r, "closeIfLobby")
  /\ LET m == Popped(r)
     IN mem' = [mem EXCEPT ![r] = IF m.status = "open" /\ m.record.state.phase = "lobby"
                                  THEN Stop(m) ELSE m]
  /\ UNCHANGED <<clock, store, sent, acks, seen>>

-----------------------------------------------------------------------------
(* The save of a job's record and what follows it                          *)

At(r, stage) == Alive(r) /\ mem[r].job.stage = stage

\* Mutant: a failed background job is not tried again.
SaveFailsDropped(r) ==
  /\ At(r, "saving")
  /\ mem' = [mem EXCEPT ![r] = IF mem[r].job.of.kind = "open" THEN Down
                               ELSE [mem[r] EXCEPT !.job = Idle]]
  /\ UNCHANGED <<clock, store, sent, acks, seen>>

\* Mutant: the player is told the outcome though it could not be saved.
SaveFailsAnswered(r) ==
  /\ At(r, "saving")
  /\ LET m == [mem[r] EXCEPT !.job = Idle]
         j == mem[r].job.of
     IN /\ mem' = [mem EXCEPT ![r] =
             CASE j.kind = "open" -> Down
               [] j.kind \in {"expire", "receive"} -> [m EXCEPT !.retries = @ \cup {j}]
               [] OTHER -> m]
        /\ acks' = IF j.kind # "dispatch" THEN acks
                   ELSE acks \cup Previous(mem[r].job.next, j.participant, j.request.commandId)
  /\ UNCHANGED <<clock, store, sent, seen>>

\* An exception of the store means that nothing was written.
SaveFails(r) ==
  /\ At(r, "saving")
  /\ LET m == [mem[r] EXCEPT !.job = Idle]
         j == mem[r].job.of
     IN mem' = [mem EXCEPT ![r] =
          CASE j.kind = "open" -> Down
            [] j.kind \in {"expire", "receive"} -> [m EXCEPT !.retries = @ \cup {j}]
            [] OTHER -> m]
  /\ UNCHANGED <<clock, store, sent, acks, seen>>

\* Mutant: the store takes whatever it is given.
SaveBlind(r) ==
  /\ At(r, "saving")
  /\ store' = mem[r].job.next
  /\ mem' = [mem EXCEPT ![r].job.stage = "saved"]
  /\ UNCHANGED <<clock, sent, acks, seen>>

\* The store accepts a record only on top of the version it was made from.
Save(r) ==
  /\ At(r, "saving")
  /\ store.version = mem[r].record.version
  /\ store' = mem[r].job.next
  /\ mem' = [mem EXCEPT ![r].job.stage = "saved"]
  /\ UNCHANGED <<clock, sent, acks, seen>>

Conflict(r) ==
  /\ At(r, "saving")
  /\ store.version # mem[r].record.version
  /\ mem' = [mem EXCEPT ![r] = IF mem[r].job.of.kind = "open" THEN Down ELSE Stop(mem[r])]
  /\ UNCHANGED <<clock, store, sent, acks, seen>>

\* commit() returns: subscribers get the view, timers and tasks follow, the job goes on.
Resume(r) ==
  /\ At(r, "saved")
  /\ LET j    == mem[r].job.of
         next == mem[r].job.next
         m    == Reconcile([mem[r] EXCEPT !.record = next, !.job = Idle])
     IN /\ seen' = IF next.state.revision # mem[r].record.state.revision
                   THEN Newest(seen, next.state.revision) ELSE seen
        /\ acks' = IF j.kind # "dispatch" THEN acks
                   ELSE acks \cup Previous(next, j.participant, j.request.commandId)
        /\ \/ /\ j.kind \in {"dispatch", "sync", "expire"}
              /\ mem' = [mem EXCEPT ![r] = m]
           \/ /\ j.kind = "open"
              /\ mem' = [mem EXCEPT ![r] = [m EXCEPT !.status = "open"]]
           \/ /\ j.kind = "receive" /\ mem[r].job.step = "expire"
              /\ \E n \in IF LiveTask(m, j.task) THEN Received(m, j) ELSE {m} :
                   mem' = [mem EXCEPT ![r] = n]
           \/ /\ j.kind = "receive" /\ mem[r].job.step = "last"
              /\ mem' = [mem EXCEPT ![r] = EndTask(m, j.task)]
  /\ UNCHANGED <<clock, store, sent>>

-----------------------------------------------------------------------------
(* What reaches a runtime from outside its queue                           *)

Enqueue(m, j) == [m EXCEPT !.queue = Append(@, j)]

Open(r) ==
  /\ ~Alive(r)
  /\ mem' = [mem EXCEPT ![r] = Opened]
  /\ UNCHANGED <<clock, store, sent, acks, seen>>

Callable(r) == mem[r].status = "open" /\ Len(mem[r].queue) < MaxQueue

\* A player sends a command for the window that is stored.
Send ==
  /\ Cardinality(sent) < MaxRequests
  /\ \E x \in Calls :
       sent' = sent \cup {[participant |-> x.participant,
                 request |-> [commandId |-> x.commandId, command |-> x.command,
                              phaseToken |-> store.state.phaseToken]]}
  /\ UNCHANGED <<clock, store, mem, acks, seen>>

Dispatch(r) ==
  /\ Callable(r)
  /\ \E x \in sent :
       mem' = [mem EXCEPT ![r] = Enqueue(@, [kind |-> "dispatch", request |-> x.request,
                                             participant |-> x.participant])]
  /\ UNCHANGED <<clock, store, sent, acks, seen>>

Sync(r) ==
  /\ Callable(r)
  /\ mem' = [mem EXCEPT ![r] = Enqueue(@, [kind |-> "sync"])]
  /\ UNCHANGED <<clock, store, sent, acks, seen>>

\* A new subscriber is shown the committed record at once, whatever the queue does.
Subscribe(r) ==
  /\ mem[r].status = "open"
  /\ seen' = Newest(seen, mem[r].record.state.revision)
  /\ UNCHANGED <<clock, store, mem, sent, acks>>

Close(r) ==
  /\ mem[r].status = "open"
  /\ mem' = [mem EXCEPT ![r] = Enqueue([@ EXCEPT !.status = "closing"], [kind |-> "close"])]
  /\ UNCHANGED <<clock, store, sent, acks, seen>>

CloseIfLobby(r) ==
  /\ Callable(r)
  /\ mem' = [mem EXCEPT ![r] = Enqueue(@, [kind |-> "closeIfLobby"])]
  /\ UNCHANGED <<clock, store, sent, acks, seen>>

\* background(): nothing is queued once the room is closing.
Background(m, j) == IF Running(m) THEN Enqueue(m, j) ELSE m

\* A provider answers, fails or runs out of time.
Settled(m, task) == [m EXCEPT !.tasks = (@ \ {task}) \cup {[task EXCEPT !.settled = TRUE]}]

TaskEnds(r) ==
  /\ Alive(r)
  /\ \E task \in mem[r].tasks, outcome \in {"answered", "failed"} :
       /\ ~task.settled
       /\ mem' = [mem EXCEPT ![r] = Background(Settled(@, task),
            [kind |-> "receive", outcome |-> outcome,
             task |-> [key |-> task.key, token |-> task.token]])]
  /\ UNCHANGED <<clock, store, sent, acks, seen>>

\* The wake timer: of a deadline, or of the pause between topic candidates.
Wake(r) ==
  /\ Alive(r) /\ mem[r].wake # NoTime /\ clock + Early >= mem[r].wake
  /\ LET m == [mem[r] EXCEPT !.wake = NoTime]
     IN mem' = [mem EXCEPT ![r] = IF m.record.state.phase = "preparing" THEN Reconcile(m)
                                  ELSE Background(m, [kind |-> "expire"])]
  /\ UNCHANGED <<clock, store, sent, acks, seen>>

\* The timer of a background job that the store failed.
Retry(r) ==
  /\ Alive(r)
  /\ \E j \in mem[r].retries :
       mem' = [mem EXCEPT ![r] = Background([mem[r] EXCEPT !.retries = @ \ {j}], j)]
  /\ UNCHANGED <<clock, store, sent, acks, seen>>

\* The process dies; its machine may come back with the clock set back.
Crash(r) ==
  /\ Alive(r) /\ clock <= CrashUntil
  /\ mem' = [mem EXCEPT ![r] = Down]
  /\ clock' \in (IF \E other \in Runtimes \ {r} : Alive(other) THEN {clock}
                 ELSE (clock - SetBack)..clock) \cap Nat
  /\ UNCHANGED <<store, sent, acks, seen>>

\* A stopped runtime goes with its process; the next process opens the room again.
Exit(r) ==
  /\ mem[r].status = "closed"
  /\ mem' = [mem EXCEPT ![r] = Down]
  /\ UNCHANGED <<clock, store, sent, acks, seen>>

Tick ==
  /\ clock < IF Started(store.state) THEN Horizon ELSE StartUntil
  /\ clock' = clock + 1
  /\ UNCHANGED <<store, mem, sent, acks, seen>>

Work(r) ==
  \/ RunDispatch(r) \/ RunSync(r) \/ RunExpire(r) \/ RunOpen(r) \/ RunReceive(r)
  \/ RunClose(r) \/ RunCloseIfLobby(r) \/ Resume(r) \/ Conflict(r)

Next ==
  \/ Send \/ Tick
  \/ \E r \in Runtimes :
       \/ Work(r) \/ SaveFails(r) \/ Save(r)
       \/ Open(r) \/ Dispatch(r) \/ Sync(r) \/ Subscribe(r) \/ Close(r) \/ CloseIfLobby(r)
       \/ TaskEnds(r) \/ Wake(r) \/ Retry(r)
       \/ Crash(r) \/ Exit(r)

Spec == Init /\ [][Next]_vars

(***************************************************************************)
(* Jobs, timers and the clock run; a server that stopped is started again  *)
(* and opens its rooms; the store does not fail for ever.  Nobody need     *)
(* connect, send or answer anything.                                       *)
(***************************************************************************)
Fairness ==
  /\ WF_vars(Tick)
  /\ \A r \in Runtimes :
       /\ WF_vars(Work(r)) /\ SF_vars(Save(r))
       /\ WF_vars(Wake(r)) /\ WF_vars(Retry(r))
       /\ WF_vars(Exit(r)) /\ WF_vars(Open(r))

-----------------------------------------------------------------------------
(* Invariants                                                              *)

Job ==
  [kind : {"open", "sync", "expire", "close", "closeIfLobby"}]
  \cup [kind : {"dispatch"}, participant : Participants, request : Request]
  \cup [kind : {"receive"}, outcome : {"answered", "failed"},
        task : [key : TaskKey, token : Nat]]

RuntimeOK(m) ==
  /\ m.status \in {"opening", "open", "closing", "closed"}
  /\ m.record \in Record
  /\ m.job = Idle \/ /\ m.job.stage \in {"saving", "saved"} /\ m.job.of \in Job
                     /\ m.job.step \in {"expire", "last"} /\ m.job.next \in Record
  /\ m.queue \in Seq(Job)
  /\ m.tasks \subseteq [key : TaskKey, token : Nat, settled : BOOLEAN]
  /\ m.attempts \subseteq SeatNo
  /\ m.taskToken \in Nat \cup {-1} /\ m.wake \in Nat \cup {NoTime}
  /\ m.retries \subseteq Job

TypeOK ==
  /\ clock \in Nat /\ store \in Record /\ seen \in Nat
  /\ \A r \in Runtimes : mem[r] = Down \/ RuntimeOK(mem[r])
  /\ sent \subseteq [participant : Participants, request : Request]
  /\ acks \subseteq Receipt

(***************************************************************************)
(* However often a command is sent again, after a lost answer, a crash or  *)
(* to a second runtime, it is decided once.                                *)
(***************************************************************************)
DecidedOnce ==
  \A x, y \in store.receipts :
    x.participant = y.participant /\ x.request.commandId = y.request.commandId => x = y

(***************************************************************************)
(* What a player was told of a command is stored, and stays stored through *)
(* failed saves, crashes and conflicts: no outcome is announced and lost.  *)
(***************************************************************************)
AckIsDurable == acks \subseteq store.receipts

(***************************************************************************)
(* No player is ever shown a state that is not stored: a crash never takes *)
(* back what was on a screen.                                              *)
(***************************************************************************)
SeenIsDurable == seen <= store.state.revision

(***************************************************************************)
(* A version number stands for one record: a runtime whose version is the  *)
(* stored one holds the stored record, and none is ahead of the store, so  *)
(* that comparing versions is enough to keep a stale writer out.           *)
(***************************************************************************)
VersionNamesRecord ==
  \A r \in Runtimes :
    Alive(r) => /\ mem[r].record.version <= store.version
                /\ mem[r].record.version = store.version => mem[r].record = store

(***************************************************************************)
(* A room that is open and has nothing to do will be woken: by its timer   *)
(* at a deadline, by the topic it waits for or by the pause between        *)
(* candidates, or by the retry of what the store failed.                   *)
(***************************************************************************)
NeverStranded ==
  \A r \in Runtimes :
    /\ Alive(r) /\ mem[r].status = "open"
    /\ mem[r].job = Idle /\ mem[r].queue = <<>> /\ mem[r].retries = {}
    => /\ mem[r].record.state.deadlineAt # NoTime =>
            mem[r].wake = mem[r].record.state.deadlineAt
       /\ mem[r].record.state.phase = "preparing" =>
            \/ mem[r].wake # NoTime
            \/ \E t \in mem[r].tasks : t.key = TopicKey /\ ~t.settled

-----------------------------------------------------------------------------
(* Action and temporal properties                                          *)

Match == INSTANCE Game WITH
  game <- store.state, LobbyUntil <- Horizon, LobbyRevisions <- MaxRequests

(***************************************************************************)
(* What is stored is a game of module Game: every change of the stored     *)
(* state is one call of the rules on the state stored before, however the  *)
(* jobs, their failed saves, late results, rivals and crashes interleave.  *)
(***************************************************************************)
ImplementsGame == Match!Spec

\* The same of a room that was stored before: its steps are steps of Game.
StepsAreGameSteps == [][Match!Next]_(store.state)

(***************************************************************************)
(* The time of a match that has started goes on while nobody is connected, *)
(* through crashes and failing saves, until its result is stored.          *)
(***************************************************************************)
MatchKeepsTime == Started(store.state) ~> store.state.phase = "revealed"

=============================================================================
