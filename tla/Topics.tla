--------------------------------- MODULE Topics ---------------------------------
(***************************************************************************)
(* Where a room gets its topic (src/topics): the curated packs and the     *)
(* rolling pool of questions behind one list of candidates, the cache in   *)
(* front of them, in a file or in memory, the platform client that sends   *)
(* one request at a time, the task that refreshes the pool, and the rooms  *)
(* that go from candidate to candidate until one resolves.                 *)
(*                                                                         *)
(* Abstractions: a topic, an answer and a request are their outcome; times *)
(* (request intervals, retries, retention, back-off) may be over at any    *)
(* moment; the safety checks of texts are part of whether a source         *)
(* resolves.  Of the records the verified ones are kept: a failed one      *)
(* matters to nobody, unless it is read from the file over a verified one. *)
(* The modes without a platform hold their topics ready and have no cache. *)
(* A file is replaced in one step, but torn for whoever reads it, or dies, *)
(* while it is written.  A crash ends a behaviour: the next process begins *)
(* in Init, with what it left; the snapshot of the pool is read only then. *)
(***************************************************************************)
EXTENDS Naturals, Sequences, SequencesExt, FiniteSets

CONSTANTS
  Curated,      \* the candidates of the packs, in order
  Questions,    \* the questions that the platform may recommend
  Rooms,
  Warmer,       \* the refresh task as a caller of the cache
  MaxPool,      \* the cap of the rolling pool (ZHIHU_TOPIC_CANDIDATE_MAX)
  MaxBatch,     \* how many questions the platform is asked for (.._COUNT)
  LockTries,    \* attempts to take the lock of the cache (thirty in the code)
  Queries,      \* searches for a curated question
  Attempts,     \* calls of the models for the content of one question
  Setups,       \* bound: the configurations that are tried, and in which of them there is a shutdown
  Snapshots,    \* bound: the snapshots of the pool that a process may find
  MaxRounds,    \* bound: refreshes of one process
  MaxFlights    \* bound: cold resolves under way

\* createTopicProvider(): what the environment chooses between, and whether there will be a shutdown.
Configurations ==
  [mode : {"static", "local", "verified", "recommended"}, persistent : BOOLEAN,
   order : {"curated-first", "dynamic-first"}, fallback : {"static", "fail"},
   rolling : BOOLEAN, warmNew : BOOLEAN, stops : BOOLEAN]

ASSUME TopicsAssumption ==
  /\ Curated \in Seq(STRING) /\ Warmer \notin Rooms
  /\ MaxPool \in Nat \ {0} /\ MaxBatch \in Nat \ {0} /\ LockTries \in Nat \ {0} /\ Queries \in Nat \ {0}
  /\ Attempts \in Nat \ {0}
  /\ Setups \subseteq Configurations
  /\ MaxFlights \in Nat \ {0} /\ MaxRounds \in Nat

Candidates == ToSet(Curated) \cup Questions
Callers == Rooms \cup {Warmer}
Flights == 1..MaxFlights

VARIABLES
  disk,       \* the cache file and its lock directory
  pool,       \* the rolling pool, oldest first
  setup,      \* the configuration of the process
  cache,      \* the cache of the rooms' provider: whether its file is read, or was locked at start
  records,    \* its verified records
  flights,    \* the cold resolves under way, one a candidate (inFlight)
  line,       \* the requests of the platform client; the first waits its interval or is sent
  calls,      \* the resolve() that each caller waits for
  rooms,      \* the persisted candidate index of each room, or that it has its topic
  refresher   \* the refresh task

vars == <<disk, pool, setup, cache, records, flights, line, calls, rooms, refresher>>

Free == [cand |-> "none", by |-> Warmer, at |-> "free", tries |-> 0, ok |-> FALSE,
         aborted |-> FALSE]
NoCall == [at |-> "none", cand |-> "none", flight |-> 0, next |-> 0]
Resting(rounds) == [at |-> "idle", added |-> <<>>, rounds |-> rounds, closed |-> FALSE]

-----------------------------------------------------------------------------
(* Answers to callers                                                      *)

\* The curated packs and the rolling pool, either first.
Listed == IF setup.order = "curated-first" THEN Curated \o pool ELSE pool \o Curated

\* Only these modes ask the platform, through a cache.
Platform == setup.mode \in {"verified", "recommended"}

\* startTopic(): a candidate that fails is followed by the next of the list as it was.
AfterTopic(call, ok) ==
  IF ok THEN [at |-> "ready", index |-> 0] ELSE [at |-> "preparing", index |-> call.next]

Warmed(callers) == IF Warmer \in callers THEN [refresher EXCEPT !.added = Tail(@)] ELSE refresher

Tell(callers, ok) ==
  /\ calls' = [c \in Callers |-> IF c \in callers THEN NoCall ELSE calls[c]]
  /\ rooms' = [r \in Rooms |-> IF r \in callers THEN AfterTopic(calls[r], ok) ELSE rooms[r]]
  /\ refresher' = Warmed(callers)

Waiting(f) == {c \in Callers : calls[c].at = "flight" /\ calls[c].flight = f}

-----------------------------------------------------------------------------
(* The cache                                                               *)

\* Mutant: a cold resolve is not shared.
RunningUnshared(cand) == {}

\* The cold resolve of a candidate that others may wait for.
Running(cand) == {f \in Flights : flights[f].cand = cand}

\* resolve(), with the records once the file is read or passed over; one may have expired.
Look(c, call, known) ==
  \/ /\ call.cand \in known
     /\ records' = known
     /\ calls' = [calls EXCEPT ![c] = NoCall]
     /\ rooms' = [r \in Rooms |-> IF r = c THEN AfterTopic(call, TRUE) ELSE rooms[r]]
     /\ refresher' = Warmed({c})
     /\ flights' = flights
  \/ /\ records' = known \ {call.cand}
     /\ IF Running(call.cand) # {}
        THEN \E f \in Running(call.cand) :
               /\ calls' = [calls EXCEPT ![c] = [call EXCEPT !.at = "flight", !.flight = f]]
               /\ flights' = flights
        ELSE \E f \in Flights :
               /\ flights[f] = Free /\ \A g \in 1..(f - 1) : flights[g] # Free
               /\ flights' = [flights EXCEPT ![f] =
                    [Free EXCEPT !.cand = call.cand, !.by = c, !.at = "begin", !.tries = LockTries]]
               /\ calls' = [calls EXCEPT ![c] = [call EXCEPT !.at = "flight", !.flight = f]]
     /\ UNCHANGED <<rooms, refresher>>

(***************************************************************************)
(* resolve(): the first caller reads the file; `loaded` is set before it   *)
(* has, so that callers meanwhile see the records that there are.          *)
(***************************************************************************)
Resolve(c, call) ==
  /\ calls[c] = NoCall
  /\ IF cache.file = "unread"
     THEN /\ cache' = [cache EXCEPT !.file = "reading"]
          /\ calls' = [calls EXCEPT ![c] = [call EXCEPT !.at = "file"]]
          /\ UNCHANGED <<records, flights, rooms, refresher>>
     ELSE cache' = cache /\ Look(c, call, records)

\* The packs of the static and the local mode.
Ready(r, call) ==
  /\ rooms' = [rooms EXCEPT ![r] = AfterTopic(call, call.cand \in ToSet(Curated))]
  /\ UNCHANGED <<cache, records, flights, calls, refresher>>

Writing(f) == flights[f].at = "save"

Readable == {disk.records} \cup {{} : f \in {g \in Flights : Writing(g)}}

\* The file is read, or unreadable: its records replace those made meanwhile.
FileRead ==
  /\ cache.file = "reading"
  /\ cache' = [cache EXCEPT !.file = "read"]
  /\ \E found \in Readable : \E kept \in SUBSET records :
       LET readers == {c \in Callers : calls[c].at = "file"}
           gone    == {c \in Callers : calls[c].at = "aborted"}
       IN IF readers = {}
          THEN records' = found \cup kept /\ flights' = flights /\ Tell(gone, FALSE)
          ELSE \E c \in readers : Look(c, calls[c], found \cup kept)
  /\ UNCHANGED <<disk, pool, setup, line>>

(***************************************************************************)
(* The source has resolved or failed.  The file cache records either and   *)
(* saves; the memory cache keeps a topic, and answers at once.             *)
(***************************************************************************)
Recorded(cand, ok) == IF ok THEN records \cup {cand} ELSE records \ {cand}

Settled(f, ok) ==
  IF setup.persistent
  THEN /\ records' = Recorded(flights[f].cand, ok)
       /\ flights' = [flights EXCEPT ![f].at = "save", ![f].tries = 0, ![f].ok = ok]
       /\ UNCHANGED <<calls, rooms, refresher>>
  ELSE /\ records' = IF ok THEN Recorded(flights[f].cand, ok) ELSE records
       /\ flights' = [flights EXCEPT ![f] = Free]
       /\ Tell(Waiting(f), ok)

\* The lock is released whatever happened, and everybody who waits is answered.
Landed(f, ok) ==
  /\ flights' = [flights EXCEPT ![f] = Free]
  /\ Tell(Waiting(f), ok)

Save(f) ==
  /\ Writing(f)
  /\ disk' = [disk EXCEPT !.records = records, !.locked = FALSE]
  /\ Landed(f, flights[f].ok)
  /\ UNCHANGED <<pool, setup, cache, records, line>>

\* Mutant: the lock stays when a failure cannot be saved.
SaveFailsLocked(f) ==
  /\ Writing(f) /\ ~flights[f].ok
  /\ Landed(f, FALSE)
  /\ UNCHANGED <<disk, pool, setup, cache, records, line>>

\* A topic that cannot be saved is recorded as a failure, which is saved in its turn.
SaveFails(f) ==
  /\ Writing(f)
  /\ IF flights[f].ok
     THEN /\ records' = Recorded(flights[f].cand, FALSE)
          /\ flights' = [flights EXCEPT ![f].ok = FALSE]
          /\ UNCHANGED <<disk, calls, rooms, refresher>>
     ELSE /\ disk' = [disk EXCEPT !.locked = FALSE]
          /\ Landed(f, FALSE)
          /\ records' = records
  /\ UNCHANGED <<pool, setup, cache, line>>

-----------------------------------------------------------------------------
(* The sources and the platform client                                     *)

Request(by) == [by |-> by, aborted |-> FALSE]
Refresh == 0

\* The union of the sources does not ask for who has gone, or for what was dropped.
NotFound(f) ==
  setup.mode = "recommended" /\ (flights[f].aborted \/ flights[f].cand \notin ToSet(Listed))

\* screenTitle(): a question of the pool may have a title that cannot be shown.
TitleMayBeUnsafe(f) == flights[f].cand \in Questions

\* The owner of the candidate asks the platform: for its answers, or by the first query.
Ask(f) ==
  /\ flights' = [flights EXCEPT ![f].at = "line", ![f].tries = Queries]
  /\ line' = Append(line, Request(f))
  /\ UNCHANGED <<records, calls, rooms, refresher>>

(***************************************************************************)
(* The file cache takes its lock (mkdir, thirty times; giving up leaves no *)
(* record).  Then the union looks for the owner of the candidate, which    *)
(* may have been dropped, and the owner asks the platform.                 *)
(***************************************************************************)
Begin(f) ==
  /\ flights[f].at = "begin"
  /\ IF setup.persistent /\ disk.locked
     THEN /\ IF flights[f].tries > 1
             THEN /\ flights' = [flights EXCEPT ![f].tries = @ - 1]
                  /\ UNCHANGED <<calls, rooms, refresher>>
             ELSE Landed(f, FALSE)
          /\ UNCHANGED <<disk, records, line>>
     ELSE /\ disk' = [disk EXCEPT !.locked = setup.persistent]
          /\ \/ /\ NotFound(f) \/ TitleMayBeUnsafe(f)
                /\ Settled(f, FALSE) /\ line' = line
             \/ ~NotFound(f) /\ Ask(f)
  /\ UNCHANGED <<pool, setup, cache>>

Aborted(request) == IF request.by = Refresh THEN request.aborted ELSE flights[request.by].aborted

\* A refresh is over, well or not.
Rested == [Resting(refresher.rounds + 1) EXCEPT !.closed = refresher.closed]

\* A request whose signal is aborted ends, but only when it is its turn.
Turn ==
  /\ line # <<>> /\ Aborted(Head(line))
  /\ line' = Tail(line)
  /\ IF Head(line).by = Refresh
     THEN refresher' = Rested /\ UNCHANGED <<records, flights, calls, rooms>>
     ELSE Settled(Head(line).by, FALSE)
  /\ UNCHANGED <<disk, pool, setup, cache>>

\* requestNow(): no answer, a refusal, or one that is too large or not understood.
Refused(f) == line' = Tail(line) /\ Settled(f, FALSE)

\* A pack is verified if the question that was found is its own.
Confirmed(f) == \E same \in BOOLEAN : Settled(f, same)

\* A curated question is searched for, by one query after another, with a safe answer.
Searched(f) ==
  /\ flights[f].cand \in ToSet(Curated)
  /\ \/ line' = Tail(line) /\ Confirmed(f)
     \/ /\ flights[f].tries > 1
        /\ line' = Append(Tail(line), Request(f))
        /\ flights' = [flights EXCEPT ![f].tries = @ - 1]
        /\ UNCHANGED <<records, calls, rooms, refresher>>

\* selectAnswer(): the first safe answer goes to the models, or there is none.
Selected(f) ==
  \/ /\ flights' = [flights EXCEPT ![f].at = "write", ![f].tries = Attempts]
     /\ UNCHANGED <<records, calls, rooms, refresher>>
  \/ Settled(f, FALSE)

\* Of a recommended question one page of answers is listed.
Paged(f) == flights[f].cand \in Questions /\ line' = Tail(line) /\ Selected(f)

Answer ==
  /\ line # <<>> /\ Head(line).by # Refresh /\ ~Aborted(Head(line))
  /\ LET f == Head(line).by IN Refused(f) \/ Searched(f) \/ Paged(f)
  /\ UNCHANGED <<disk, pool, setup, cache>>

\* The models gave no usable content: fixed texts stand in, unless the setup wants none.
Substituted(f) == ~flights[f].aborted /\ setup.fallback = "static"

(***************************************************************************)
(* generate(): one model after the other, and all of them again, are asked *)
(* within one deadline, until one writes what passes the checks.           *)
(***************************************************************************)
Write(f) ==
  /\ flights[f].at = "write"
  /\ \/ ~flights[f].aborted /\ Settled(f, TRUE)
     \/ /\ ~flights[f].aborted /\ flights[f].tries > 1
        /\ flights' = [flights EXCEPT ![f].tries = @ - 1]
        /\ UNCHANGED <<records, calls, rooms, refresher>>
     \/ Settled(f, Substituted(f))
  /\ UNCHANGED <<disk, pool, setup, cache, line>>

-----------------------------------------------------------------------------
(* Rooms                                                                   *)

Prepare(r) ==
  /\ rooms[r].at = "preparing"
  /\ LET index == rooms[r].index % Len(Listed)
         call  == [NoCall EXCEPT !.cand = Listed[index + 1],
                                 !.next = IF index + 1 >= Len(Listed) THEN 0 ELSE index + 1]
     IN IF Platform THEN Resolve(r, call) ELSE Ready(r, call)
  /\ UNCHANGED <<disk, pool, setup, line>>

\* Mutant: the signal of a caller does not reach what it began.
AbortUnheard(c) == flights' = flights

Abort(c) ==
  flights' = [f \in Flights |->
                IF flights[f] # Free /\ flights[f].by = c
                THEN [flights[f] EXCEPT !.aborted = TRUE] ELSE flights[f]]

(***************************************************************************)
(* A caller's time is up: its signal aborts the cold resolve that it       *)
(* began, for all who wait for it.  A room goes on without the answer; the *)
(* refresh task waits for what becomes of its call.                        *)
(***************************************************************************)
Overdue == [calls EXCEPT ![Warmer].at = IF @ = "file" THEN "aborted" ELSE @]

Timeout(c) ==
  /\ calls[c] # NoCall
  /\ IF c = Warmer THEN calls' = Overdue /\ UNCHANGED <<rooms, refresher>> ELSE Tell({c}, FALSE)
  /\ Abort(c)
  /\ UNCHANGED <<disk, pool, setup, cache, records, line>>

-----------------------------------------------------------------------------
(* The refresh task                                                        *)

\* startRefresher(): an interval of zero switches the task off.
Refreshing == setup.mode = "recommended" /\ setup.rolling

\* One refresh at a time; the interval begins again when it is over.
Tick ==
  /\ Refreshing /\ ~refresher.closed
  /\ refresher.at = "idle" /\ refresher.rounds < MaxRounds
  /\ refresher' = [refresher EXCEPT !.at = "fetch"]
  /\ line' = Append(line, Request(Refresh))
  /\ UNCHANGED <<disk, pool, setup, cache, records, flights, calls, rooms>>

Cancelled ==
  [i \in DOMAIN line |-> IF line[i].by = Refresh THEN [line[i] EXCEPT !.aborted = TRUE] ELSE line[i]]

RefreshTimeout ==
  /\ refresher.at = "fetch" /\ line # Cancelled
  /\ line' = Cancelled
  /\ UNCHANGED <<disk, pool, setup, cache, records, flights, calls, rooms, refresher>>

\* close(), at a shutdown while rooms go on: what the task has under way is aborted.
CloseRefresher ==
  /\ Refreshing /\ setup.stops /\ ~refresher.closed
  /\ refresher' = [refresher EXCEPT !.closed = TRUE]
  /\ line' = Cancelled
  /\ calls' = Overdue
  /\ Abort(Warmer)
  /\ UNCHANGED <<disk, pool, setup, cache, records, rooms>>

Batches == {SetToSeq(batch) : batch \in {qs \in SUBSET Questions : Cardinality(qs) <= MaxBatch}}

Trimmed(list) == SubSeq(list, IF Len(list) > MaxPool THEN Len(list) - MaxPool + 1 ELSE 1, Len(list))

Unlisted(batch) == SelectSeq(batch, LAMBDA q : q \notin ToSet(Listed))

\* The platform recommends: what the list does not hold is appended, the oldest go.
Fetched(batch) ==
  /\ line # <<>> /\ Head(line).by = Refresh /\ ~Aborted(Head(line))
  /\ line' = Tail(line)
  /\ pool' = IF batch = <<>> THEN pool ELSE Trimmed(pool \o Unlisted(batch))
  /\ refresher' = IF batch = <<>> THEN Rested
                  ELSE [refresher EXCEPT !.at = "persist", !.added = Unlisted(batch)]
  /\ UNCHANGED <<disk, setup, cache, records, flights, calls, rooms>>

\* The snapshot is saved, or the refresh counts as failed: the pool stays as it is now.
Persist ==
  /\ refresher.at = "persist"
  /\ \/ setup.warmNew /\ refresher' = [refresher EXCEPT !.at = "warm"]
     \/ refresher' = Rested
  /\ UNCHANGED <<disk, pool, setup, cache, records, flights, line, calls, rooms>>

\* The new candidates are resolved one after another.
Warm ==
  /\ refresher.at = "warm" /\ calls[Warmer] = NoCall
  /\ IF refresher.added = <<>> \/ refresher.closed
     THEN refresher' = Rested /\ UNCHANGED <<cache, records, flights, calls, rooms>>
     ELSE Resolve(Warmer, [NoCall EXCEPT !.cand = Head(refresher.added)])
  /\ UNCHANGED <<disk, pool, setup, line>>

-----------------------------------------------------------------------------
(* Start                                                                   *)

\* fetchSeed(): nothing, when the platform fails or is late, counts as no question.
FetchedSeeds == Batches

\* loadSeed(): a snapshot that is torn, or of another version, counts as missing.
Loaded(snapshot) == {snapshot, <<>>}

(***************************************************************************)
(* resolveSeed(): a fresh snapshot, else what the platform recommends if   *)
(* it answers in time, else the snapshot as it is, else nothing.           *)
(***************************************************************************)
Seeds(snapshot) ==
  {IF fresh /\ stored # <<>> THEN stored ELSE IF fetched # <<>> THEN fetched ELSE stored :
     fresh \in BOOLEAN, fetched \in FetchedSeeds, stored \in Loaded(snapshot)}

\* openTopicProvider(): only the recommended mode has a pool.
Booted(snapshot) == IF setup.mode = "recommended" THEN Seeds(snapshot) ELSE {<<>>}

(***************************************************************************)
(* A process starts with what the last one left when it stopped or died:   *)
(* a snapshot of the pool, records in the cache file (none, if it is torn),*)
(* the rooms' indices, and the lock, which nobody will release, if the     *)
(* process died holding it.                                                *)
(***************************************************************************)
Init ==
  /\ setup \in Setups
  /\ \E snapshot \in Snapshots :
       /\ pool \in Booted(snapshot)
       /\ IF setup.persistent /\ Platform
          THEN /\ disk \in [records : SUBSET ToSet(Curated \o snapshot), locked : BOOLEAN]
               /\ cache = [file |-> "unread", barred |-> disk.locked]
          ELSE /\ disk = [records |-> {}, locked |-> FALSE]
               /\ cache = [file |-> "read", barred |-> FALSE]
  /\ records = {}
  /\ flights = [f \in Flights |-> Free] /\ line = <<>>
  /\ calls = [c \in Callers |-> NoCall]
  /\ rooms \in [Rooms -> [at : {"preparing"}, index : {0, 1}]]
  /\ refresher = Resting(0)

Fly(f) == Begin(f) \/ Save(f) \/ SaveFails(f) \/ Write(f)

Next ==
  \/ FileRead
  \/ \E f \in Flights : Fly(f)
  \/ Turn \/ Answer
  \/ \E r \in Rooms : Prepare(r)
  \/ \E c \in Callers : Timeout(c)
  \/ Tick \/ RefreshTimeout \/ CloseRefresher \/ \E batch \in Batches : Fetched(batch)
  \/ Persist \/ Warm

Spec == Init /\ [][Next]_vars

(***************************************************************************)
(* Timers fire, files are written, and the steps between awaits are taken; *)
(* neither the platform nor a model need ever answer.                      *)
(***************************************************************************)
FairSpec ==
  /\ Spec
  /\ WF_vars(Turn) /\ WF_vars(RefreshTimeout)
  /\ \A f \in Flights : WF_vars(Fly(f))
  /\ \A c \in Callers : WF_vars(Timeout(c))

-----------------------------------------------------------------------------
(* Properties                                                              *)

Holders == {f \in Flights : flights[f].at \in {"line", "write", "save"}}

(***************************************************************************)
(* Of the cold resolves of the file cache at most one is past the lock,    *)
(* and the lock directory is there exactly as long, whatever fails: only a *)
(* process that died leaves one behind.                                    *)
(***************************************************************************)
LockHasOwner ==
  setup.persistent =>
    /\ \A f, g \in Holders : f = g
    /\ Holders # {} => disk.locked
    /\ disk.locked => Holders # {} \/ cache.barred

(***************************************************************************)
(* recommended-topic-provider.ts: a source is asked "once per candidate    *)
(* per TTL rather than once per game".  No two cold resolves of one        *)
(* candidate are under way, and none is for a candidate that is verified   *)
(* when it begins or comes to be verified by somebody else: only the file  *)
(* can do that, because the callers after the first do not wait for it.    *)
(***************************************************************************)
AsksOnce ==
  \A f \in Flights :
    /\ flights[f] = Free /\ flights'[f] # Free =>
         /\ \A g \in Flights : flights[g].cand # flights'[f].cand
         /\ flights'[f].cand \notin records'
    /\ flights'[f].at \in {"begin", "line", "write"} /\ flights'[f].cand \in records' =>
         flights'[f].cand \in records \/ cache.file = "reading"

AskedOnce == [][AsksOnce]_vars

(***************************************************************************)
(* However the platform, the models and the lock behave, every cold        *)
(* resolve comes to an end: nobody keeps waiting for it, and it keeps      *)
(* neither the lock nor a place in the line.                               *)
(***************************************************************************)
ColdResolvesEnd == \A f \in Flights : flights[f] # Free ~> flights[f] = Free
=============================================================================
