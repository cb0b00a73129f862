------------------------------ MODULE RoomProofs ------------------------------
(***************************************************************************)
(* Proofs about RoomRuntime: whatever the runtimes, the store, the callers *)
(* and the processes do, a version names one record, what was acknowledged *)
(* stays stored, a command is decided once, no view is ahead of the store, *)
(* and the stored state is a game of module Game.                          *)
(***************************************************************************)
EXTENDS RoomRuntime, GameRulesProofs, TLAPS

Fields == {"status", "record", "job", "queue", "tasks", "attempts", "taskToken",
           "wake", "retries"}

\* No two receipts of one player under one command id.
Once(receipts) ==
  \A x, y \in receipts :
    x.participant = y.participant /\ x.request.commandId = y.request.commandId => x = y

\* A record that may still lack its version.
Draft(x) == /\ DOMAIN x = {"version", "state", "receipts", "preparation"}
            /\ Once(x.receipts)

Behind(a, b) ==
  /\ a.version <= b.version
  /\ a.version = b.version => a = b
  /\ a.receipts \subseteq b.receipts

\* What a runtime holds and is about to save, against what is stored.
Safe(m, stored) ==
  /\ DOMAIN m = Fields
  /\ Draft(m.record) /\ m.record.version \in Nat /\ Behind(m.record, stored)
  /\ m.job.stage \in {"idle", "saving", "saved"}
  /\ m.job.stage # "idle" => /\ DOMAIN m.job = {"stage", "of", "step", "next"}
                             /\ Draft(m.job.next) /\ m.job.next.version \in Nat
  /\ m.job.stage = "saving" => /\ m.job.next.version = m.record.version + 1
                               /\ m.record.receipts \subseteq m.job.next.receipts
  /\ m.job.stage = "saved" => Behind(m.job.next, stored)

(***************************************************************************)
(* The inductive invariant.  A stored record never changes but to its      *)
(* successor, so a runtime's record is an earlier one, or the stored one.  *)
(***************************************************************************)
SafeRoom ==
  /\ DOMAIN mem = Runtimes
  /\ Draft(store) /\ store.version \in Nat
  /\ acks \subseteq store.receipts
  /\ \A r \in Runtimes : mem[r] = Down \/ Safe(mem[r], store)

-----------------------------------------------------------------------------
(* What the helpers of a runtime leave alone                               *)

Kept(m, n) == DOMAIN n = Fields /\ n.record = m.record /\ n.job = m.job

LEMMA KeptSafe ==
  ASSUME NEW m, NEW n, NEW stored, Safe(m, stored), Kept(m, n)
  PROVE  Safe(n, stored)
  BY DEF Safe, Kept

LEMMA ReconcileKept ==
  ASSUME NEW m, DOMAIN m = Fields
  PROVE  Kept(m, Reconcile(m))
<1>1. Kept(m, Forget(m))
  BY DEF Kept, Forget, Fields
<1>. DEFINE woken == [Forget(m) EXCEPT !.wake = WakeAt(m.record, Now(m))]
<1>2. Kept(m, woken)
  BY <1>1 DEF Kept, Fields
<1>. HIDE DEF woken
<1>3. Kept(m, StartTopic(woken))
  BY <1>2 DEF Kept, StartTopic, Fields
<1>4. Kept(m, StartAi(woken))
  BY <1>2 DEF Kept, StartAi, Fields
<1>5. Reconcile(m) \in {woken, StartTopic(woken), StartAi(woken)}
  BY DEF Reconcile, woken
<1>. QED BY <1>2, <1>3, <1>4, <1>5

LEMMA EndTaskKept ==
  ASSUME NEW m, NEW task, DOMAIN m = Fields
  PROVE  Kept(m, EndTask(m, task))
<1>. DEFINE n == [m EXCEPT !.tasks = {t \in @ : t.key # task.key}]
<1>1. Kept(m, n)
  BY DEF Kept, Fields
<1>. HIDE DEF n
<1>2. Kept(n, Reconcile(n))
  BY <1>1, ReconcileKept DEF Kept
<1>. QED BY <1>1, <1>2 DEF EndTask, Kept, n

LEMMA StopSafe ==
  ASSUME NEW m, NEW stored, Safe(m, stored)
  PROVE  Safe(Stop(m), stored)
  BY DEF Safe, Stop, Fields, Idle

LEMMA IdleSafe ==
  ASSUME NEW m, NEW stored, Safe(m, stored)
  PROVE  Safe([m EXCEPT !.job = Idle], stored)
  BY DEF Safe, Fields, Idle

-----------------------------------------------------------------------------
(* Jobs prepare a successor of the runtime's record                        *)

LEMMA SavingSafe ==
  ASSUME NEW m, NEW j, NEW step, NEW next, NEW stored,
         Safe(m, stored), Draft(next), m.record.receipts \subseteq next.receipts
  PROVE  Safe(Saving(m, j, step, next), stored)
<1>. DEFINE numbered == [next EXCEPT !.version = m.record.version + 1]
            job == [stage |-> "saving", of |-> j, step |-> step, next |-> numbered]
<1>1. /\ Draft(numbered) /\ numbered.version = m.record.version + 1
      /\ numbered.version \in Nat /\ numbered.receipts = next.receipts
  BY DEF Draft, Safe
<1>. HIDE DEF numbered
<1>2. /\ DOMAIN job = {"stage", "of", "step", "next"}
      /\ job.stage = "saving" /\ job.next = numbered
  OBVIOUS
<1>. HIDE DEF job
<1>3. Saving(m, j, step, next) = [m EXCEPT !.job = job]
  BY DEF Saving, job, numbered
<1>4. /\ DOMAIN Saving(m, j, step, next) = Fields
      /\ Saving(m, j, step, next).record = m.record
      /\ Saving(m, j, step, next).job = job
  BY <1>3 DEF Safe, Fields
<1>. QED BY <1>1, <1>2, <1>4 DEF Safe

LEMMA AdvancedDraft ==
  ASSUME NEW m, NEW stored, Safe(m, stored)
  PROVE  Draft(Advanced(m)) /\ Advanced(m).receipts = m.record.receipts
  BY DEF Safe, Draft, Advanced

LEMMA NextCandidateDraft ==
  ASSUME NEW m, NEW stored, Safe(m, stored)
  PROVE  Draft(NextCandidate(m)) /\ NextCandidate(m).receipts = m.record.receipts
<1>1. \E p : NextCandidate(m) = [m.record EXCEPT !.preparation = p]
  BY DEF NextCandidate
<1>. QED BY <1>1 DEF Safe, Draft

LEMMA StateDraft ==
  ASSUME NEW m, NEW stored, NEW state, Safe(m, stored)
  PROVE  /\ Draft([m.record EXCEPT !.state = state])
         /\ [m.record EXCEPT !.state = state].receipts = m.record.receipts
  BY DEF Safe, Draft

LEMMA DispatchedDraft ==
  ASSUME NEW m, NEW stored, NEW p, NEW q, Safe(m, stored),
         Previous(m.record, p, q.commandId) = {}
  PROVE  Draft(Dispatched(m, p, q)) /\ m.record.receipts \subseteq Dispatched(m, p, q).receipts
<1>1. PICK state, ack :
        Dispatched(m, p, q) =
          [m.record EXCEPT !.state = state,
             !.receipts = @ \cup {[participant |-> p, request |-> q, ack |-> ack]}]
  BY DEF Dispatched
<1>. DEFINE new == [participant |-> p, request |-> q, ack |-> ack]
<1>2. new.participant = p /\ new.request = q
  OBVIOUS
<1>. HIDE DEF new
<1>3. Dispatched(m, p, q).receipts = m.record.receipts \cup {new}
  BY <1>1 DEF new, Safe, Draft
<1>4. \A x \in m.record.receipts : ~(x.participant = p /\ x.request.commandId = q.commandId)
  BY DEF Previous
<1>5. Once(m.record.receipts \cup {new})
  BY <1>2, <1>4 DEF Safe, Draft, Once
<1>6. DOMAIN Dispatched(m, p, q) = {"version", "state", "receipts", "preparation"}
  BY <1>1 DEF Safe, Draft
<1>. QED BY <1>3, <1>5, <1>6 DEF Draft

LEMMA ReceivedSafe ==
  ASSUME NEW m, NEW stored, NEW j, NEW n \in Received(m, j), Safe(m, stored)
  PROVE  Safe(n, stored)
<1>1. Safe(Saving(m, j, "last", NextCandidate(m)), stored)
  BY NextCandidateDraft, SavingSafe
<1>2. \A state : Safe(Saving(m, j, "last", [m.record EXCEPT !.state = state]), stored)
  BY StateDraft, SavingSafe
<1>3. Safe(EndTask(m, j.task), stored)
  BY EndTaskKept, KeptSafe DEF Safe
<1>4. CASE n \in TopicReceived(m, j)
  <2>1. n = Saving(m, j, "last", NextCandidate(m)) \/ \E x : n = TopicDecided(m, j, x)
    BY <1>4 DEF TopicReceived
  <2>2. \A x : Safe(TopicDecided(m, j, x), stored)
    BY <1>1, <1>2 DEF TopicDecided
  <2>. QED BY <1>1, <2>1, <2>2
<1>5. CASE n \in AiReceived(m, j)
  BY <1>2, <1>3, <1>5 DEF AiReceived
<1>. QED BY <1>4, <1>5 DEF Received

-----------------------------------------------------------------------------
(* The invariant is kept                                                   *)

\* A step of one runtime that does not write.
LEMMA OneRuntime ==
  ASSUME SafeRoom, NEW r \in Runtimes, NEW n,
         n = Down \/ Safe(n, store),
         mem' = [mem EXCEPT ![r] = n], store' = store, acks' \subseteq store.receipts
  PROVE  SafeRoom'
<1>1. DOMAIN mem' = Runtimes
  BY DEF SafeRoom
<1>2. ASSUME NEW q \in Runtimes
      PROVE  mem'[q] = Down \/ Safe(mem'[q], store)
  <2>1. CASE q = r
    BY <2>1 DEF SafeRoom
  <2>2. CASE q # r
    BY <2>2 DEF SafeRoom
  <2>. QED BY <2>1, <2>2
<1>. QED BY <1>1, <1>2 DEF SafeRoom

LEMMA AliveSafe ==
  ASSUME SafeRoom, NEW r \in Runtimes, Alive(r)
  PROVE  Safe(mem[r], store) /\ mem[r] # Down
  BY DEF SafeRoom, Alive, Down

LEMMA PoppedSafe ==
  ASSUME SafeRoom, NEW r \in Runtimes, Alive(r)
  PROVE  Safe(Popped(r), store) /\ Popped(r).record = mem[r].record
<1>1. Safe(mem[r], store)
  BY AliveSafe
<1>2. Kept(mem[r], Popped(r))
  BY <1>1 DEF Popped, Kept, Safe, Fields
<1>. QED BY <1>1, <1>2, KeptSafe DEF Kept

\* Catching up, or doing without it.
LEMMA CatchUpSafe ==
  ASSUME NEW m, NEW j, NEW step, NEW stored, Safe(m, stored)
  PROVE  Safe(Saving(m, j, step, Advanced(m)), stored)
  BY AdvancedDraft, SavingSafe

LEMMA RunDispatchSafe ==
  ASSUME SafeRoom, NEW r \in Runtimes, RunDispatch(r)
  PROVE  SafeRoom'
<1>. DEFINE m == Popped(r)
            j == Head(mem[r].queue)
            previous == Previous(m.record, j.participant, j.request.commandId)
<1>1. Alive(r) /\ Safe(m, store)
  BY PoppedSafe DEF RunDispatch, Front
<1>2. m.record.receipts \subseteq store.receipts
  BY <1>1 DEF Safe, Behind
<1>3. acks \subseteq store.receipts
  BY DEF SafeRoom
<1>4. CASE /\ mem' = [mem EXCEPT ![r] = m]
           /\ acks' = acks \cup {x \in previous : x.request = j.request}
  <2>1. acks' \subseteq store.receipts
    BY <1>2, <1>3, <1>4 DEF Previous
  <2>. QED BY <1>1, <1>4, <2>1, OneRuntime DEF RunDispatch
<1>5. CASE mem' = [mem EXCEPT ![r] = m] /\ UNCHANGED acks
  BY <1>1, <1>3, <1>5, OneRuntime DEF RunDispatch
<1>6. CASE /\ previous = {}
           /\ mem' = [mem EXCEPT ![r] =
                        Saving(m, j, "last", Dispatched(m, j.participant, j.request))]
           /\ UNCHANGED acks
  <2>. HIDE DEF m, j
  <2>1. Safe(Saving(m, j, "last", Dispatched(m, j.participant, j.request)), store)
    BY <1>1, <1>6, DispatchedDraft, SavingSafe
  <2>. QED BY <2>1, <1>3, <1>6, OneRuntime DEF RunDispatch
<1>. QED BY <1>4, <1>5, <1>6 DEF RunDispatch

LEMMA RunCatchUpSafe ==
  ASSUME SafeRoom, NEW r \in Runtimes, RunSync(r) \/ RunExpire(r) \/ RunOpen(r)
  PROVE  SafeRoom'
<1>. DEFINE m == Popped(r)
            j == Head(mem[r].queue)
            opened == [m EXCEPT !.status = "open"]
<1>1. Safe(m, store) /\ acks \subseteq store.receipts /\ DOMAIN m = Fields
  BY PoppedSafe DEF RunSync, RunExpire, RunOpen, Front, SafeRoom, Safe
<1>. HIDE DEF m, j
<1>2. Safe(Saving(m, j, "last", Advanced(m)), store)
  BY <1>1, CatchUpSafe
<1>3. Kept(m, opened)
  BY <1>1 DEF Kept, Fields
<1>4. Safe(opened, store)
  BY <1>1, <1>3, KeptSafe
<1>. HIDE DEF opened
<1>5. Safe(Reconcile(opened), store)
  BY <1>3, <1>4, ReconcileKept, KeptSafe DEF Kept
<1>6. /\ store' = store /\ acks' = acks
      /\ \E n \in {m, Saving(m, j, "last", Advanced(m)), Reconcile(opened)} :
            mem' = [mem EXCEPT ![r] = n]
  BY DEF RunSync, RunExpire, RunOpen, m, j, opened
<1>. QED BY <1>1, <1>2, <1>5, <1>6, OneRuntime

LEMMA RunReceiveSafe ==
  ASSUME SafeRoom, NEW r \in Runtimes, RunReceive(r)
  PROVE  SafeRoom'
<1>. DEFINE m == Popped(r)
            j == Head(mem[r].queue)
<1>1. Safe(m, store) /\ acks \subseteq store.receipts
  BY PoppedSafe DEF RunReceive, Front, SafeRoom
<1>. HIDE DEF m, j
<1>2. Safe(Saving(m, j, "expire", Advanced(m)), store)
  BY <1>1, CatchUpSafe
<1>3. \A n \in Received(m, j) : Safe(n, store)
  BY <1>1, ReceivedSafe
<1>4. /\ store' = store /\ acks' = acks
      /\ \E n \in {m, Saving(m, j, "expire", Advanced(m))} \cup Received(m, j) :
            mem' = [mem EXCEPT ![r] = n]
  BY DEF RunReceive, m, j
<1>. QED BY <1>1, <1>2, <1>3, <1>4, OneRuntime

LEMMA RunCloseSafe ==
  ASSUME SafeRoom, NEW r \in Runtimes, RunClose(r) \/ RunCloseIfLobby(r)
  PROVE  SafeRoom'
<1>1. /\ Safe(mem[r], store) /\ Safe(Popped(r), store)
      /\ acks \subseteq store.receipts
  BY AliveSafe, PoppedSafe DEF RunClose, RunCloseIfLobby, Front, SafeRoom
<1>2. Safe(Stop(mem[r]), store) /\ Safe(Stop(Popped(r)), store)
  BY <1>1, StopSafe
<1>3. /\ store' = store /\ acks' = acks
      /\ \E n \in {Popped(r), Stop(mem[r]), Stop(Popped(r))} : mem' = [mem EXCEPT ![r] = n]
  BY DEF RunClose, RunCloseIfLobby
<1>. QED BY <1>1, <1>2, <1>3, OneRuntime

LEMMA SaveFailsSafe ==
  ASSUME SafeRoom, NEW r \in Runtimes, SaveFails(r) \/ Conflict(r)
  PROVE  SafeRoom'
<1>. DEFINE m == [mem[r] EXCEPT !.job = Idle]
            j == mem[r].job.of
            retried == [m EXCEPT !.retries = @ \cup {j}]
<1>1. Safe(mem[r], store) /\ acks \subseteq store.receipts
  BY AliveSafe DEF SaveFails, Conflict, At, SafeRoom
<1>2. Safe(Stop(mem[r]), store)
  BY <1>1, StopSafe
<1>3. Safe(m, store)
  BY <1>1, IdleSafe
<1>4. Kept(m, retried)
  BY <1>3 DEF Kept, Safe, Fields
<1>5. Safe(retried, store)
  BY <1>3, <1>4, KeptSafe
<1>6. store' = store /\ acks' = acks
  BY DEF SaveFails, Conflict
<1>7. CASE Conflict(r)
  <2>1. \E n \in {Down, Stop(mem[r])} : mem' = [mem EXCEPT ![r] = n]
    BY <1>7 DEF Conflict
  <2>. QED BY <1>1, <1>2, <1>6, <2>1, OneRuntime
<1>8. CASE SaveFails(r)
  <2>1. \E n \in {Down, retried, m} : mem' = [mem EXCEPT ![r] = n]
    BY <1>8 DEF SaveFails
  <2>. QED BY <1>1, <1>3, <1>5, <1>6, <2>1, OneRuntime
<1>. QED BY <1>7, <1>8

(***************************************************************************)
(* The one step that writes.  The version it expects is the stored one, so *)
(* the runtime's record is the stored one and the new record its successor.*)
(***************************************************************************)
LEMMA SaveSafe ==
  ASSUME SafeRoom, NEW r \in Runtimes, Save(r)
  PROVE  SafeRoom'
<1>. DEFINE next == mem[r].job.next
            saved == [mem[r].job EXCEPT !.stage = "saved"]
<1>1. Safe(mem[r], store) /\ mem[r].job.stage = "saving"
  BY AliveSafe DEF Save, At
<1>2. mem[r].record = store
  BY <1>1 DEF Save, Safe, Behind
<1>3. /\ store' = next /\ acks' = acks
      /\ mem' = [mem EXCEPT ![r] = [mem[r] EXCEPT !.job = saved]]
  BY DEF Save, saved, next
<1>4. /\ Draft(next) /\ next.version \in Nat
      /\ next.version = store.version + 1 /\ store.receipts \subseteq next.receipts
  BY <1>1, <1>2 DEF Safe
<1>5. store.version \in Nat
  BY DEF SafeRoom
<1>6. ASSUME NEW x, x.version \in Nat, Behind(x, store)
      PROVE  Behind(x, next)
  BY <1>4, <1>5, <1>6 DEF Behind
<1>7. ASSUME NEW m, Safe(m, store)
      PROVE  Safe(m, next)
  <2>1. Behind(m.record, next)
    BY <1>6, <1>7 DEF Safe
  <2>2. m.job.stage = "saved" => Behind(m.job.next, next)
    BY <1>6, <1>7 DEF Safe
  <2>. QED BY <1>7, <2>1, <2>2 DEF Safe
<1>8. Safe([mem[r] EXCEPT !.job = saved], next)
  <2>. DEFINE n == [mem[r] EXCEPT !.job = saved]
  <2>1. DOMAIN n = Fields /\ n.record = mem[r].record /\ n.job = saved
    BY <1>1 DEF Safe, Fields
  <2>2. /\ saved.stage = "saved" /\ saved.next = next
        /\ DOMAIN saved = {"stage", "of", "step", "next"}
    BY <1>1 DEF Safe
  <2>. HIDE DEF n, saved
  <2>3. Safe(mem[r], next)
    BY <1>1, <1>7
  <2>4. Behind(next, next)
    BY <1>4 DEF Behind
  <2>. HIDE DEF next
  <2>5. Safe(n, next)
    BY <1>4, <2>1, <2>2, <2>3, <2>4 DEF Safe
  <2>. QED BY <2>5 DEF n, saved
<1>. HIDE DEF next, saved
<1>9. ASSUME NEW q \in Runtimes
      PROVE  mem'[q] = Down \/ Safe(mem'[q], store')
  <2>1. CASE q = r
    BY <1>3, <1>8, <2>1 DEF SafeRoom
  <2>2. CASE q # r
    <3>1. mem'[q] = mem[q]
      BY <1>3, <2>2 DEF SafeRoom
    <3>2. mem[q] = Down \/ Safe(mem[q], store)
      BY DEF SafeRoom
    <3>. QED BY <1>3, <1>7, <3>1, <3>2
  <2>. QED BY <2>1, <2>2
<1>10. DOMAIN mem' = Runtimes /\ acks' \subseteq store'.receipts
  BY <1>3, <1>4 DEF SafeRoom
<1>. QED BY <1>3, <1>4, <1>9, <1>10 DEF SafeRoom

LEMMA ResumeSafe ==
  ASSUME SafeRoom, NEW r \in Runtimes, Resume(r)
  PROVE  SafeRoom'
<1>. DEFINE j == mem[r].job.of
            next == mem[r].job.next
            taken == [mem[r] EXCEPT !.record = next, !.job = Idle]
            m == Reconcile(taken)
            opened == [m EXCEPT !.status = "open"]
<1>1. /\ Safe(mem[r], store) /\ mem[r].job.stage = "saved"
      /\ acks \subseteq store.receipts
  BY AliveSafe DEF Resume, At, SafeRoom
<1>2. Draft(next) /\ next.version \in Nat /\ Behind(next, store)
  BY <1>1 DEF Safe
<1>3. DOMAIN taken = Fields /\ taken.record = next /\ taken.job = Idle
  BY <1>1 DEF Safe, Fields
<1>. HIDE DEF taken
<1>4. Safe(taken, store)
  BY <1>2, <1>3 DEF Safe, Idle
<1>5. Safe(m, store)
  BY <1>3, <1>4, ReconcileKept, KeptSafe
<1>. HIDE DEF m
<1>6. Safe(opened, store)
  <2>1. Kept(m, opened)
    BY <1>5 DEF Kept, Safe, Fields
  <2>. QED BY <1>5, <2>1, KeptSafe
<1>7. Safe(EndTask(m, j.task), store)
  BY <1>5, EndTaskKept, KeptSafe DEF Safe
<1>. HIDE DEF j
<1>8. \A n \in Received(m, j) : Safe(n, store)
  BY <1>5, ReceivedSafe
<1>9. store' = store /\ acks' \subseteq store.receipts
  <2>1. next.receipts \subseteq store.receipts
    BY <1>2 DEF Behind
  <2>2. \E p, id : acks' \subseteq acks \cup Previous(next, p, id)
    BY DEF Resume
  <2>. QED BY <1>1, <2>1, <2>2 DEF Resume, Previous
<1>. HIDE DEF opened, next
<1>10. \E n \in {m, opened, EndTask(m, j.task)} \cup Received(m, j) :
         mem' = [mem EXCEPT ![r] = n]
  BY DEF Resume, m, taken, opened, next, j
<1>. QED BY <1>5, <1>6, <1>7, <1>8, <1>9, <1>10, OneRuntime

\* Calls, providers and timers touch the queue, the tasks and the timers only.
LEMMA OutsideSafe ==
  ASSUME SafeRoom, NEW r \in Runtimes,
         \/ Dispatch(r) \/ Sync(r) \/ Close(r) \/ CloseIfLobby(r)
         \/ TaskEnds(r) \/ Wake(r) \/ Retry(r)
  PROVE  SafeRoom'
<1>1. ASSUME NEW m, NEW j, DOMAIN m = Fields
      PROVE  /\ Kept(m, Enqueue(m, j)) /\ Kept(m, Background(m, j))
             /\ \A task : Kept(m, Settled(m, task))
             /\ Kept(m, [m EXCEPT !.status = "closing"])
             /\ Kept(m, [m EXCEPT !.wake = NoTime])
             /\ Kept(m, [m EXCEPT !.retries = @ \ {j}])
  BY <1>1 DEF Kept, Enqueue, Background, Settled, Fields
<1>2. Safe(mem[r], store) /\ DOMAIN mem[r] = Fields /\ acks \subseteq store.receipts
  <2>1. Alive(r)
    BY DEF Dispatch, Sync, Close, CloseIfLobby, TaskEnds, Wake, Retry, Callable, Alive
  <2>. QED BY <2>1, AliveSafe DEF Safe, SafeRoom
<1>3. \E n : mem' = [mem EXCEPT ![r] = n] /\ Kept(mem[r], n)
  <2>1. CASE Dispatch(r) \/ Sync(r) \/ CloseIfLobby(r)
    BY <1>1, <1>2, <2>1 DEF Dispatch, Sync, CloseIfLobby
  <2>2. CASE Close(r)
    <3>. DEFINE m == [mem[r] EXCEPT !.status = "closing"]
    <3>1. Kept(mem[r], m) /\ DOMAIN m = Fields
      BY <1>1, <1>2 DEF Kept
    <3>2. mem' = [mem EXCEPT ![r] = Enqueue(m, [kind |-> "close"])]
      BY <2>2 DEF Close
    <3>. HIDE DEF m
    <3>3. Kept(mem[r], Enqueue(m, [kind |-> "close"]))
      BY <1>1, <3>1 DEF Kept
    <3>. QED BY <3>2, <3>3
  <2>3. CASE TaskEnds(r)
    <3>1. PICK task, j : mem' = [mem EXCEPT ![r] = Background(Settled(mem[r], task), j)]
      BY <2>3 DEF TaskEnds
    <3>. DEFINE m == Settled(mem[r], task)
    <3>2. Kept(mem[r], m) /\ DOMAIN m = Fields
      BY <1>1, <1>2 DEF Kept
    <3>3. mem' = [mem EXCEPT ![r] = Background(m, j)]
      BY <3>1
    <3>. HIDE DEF m
    <3>4. Kept(mem[r], Background(m, j))
      BY <1>1, <3>2 DEF Kept
    <3>. QED BY <3>3, <3>4
  <2>4. CASE Wake(r)
    <3>. DEFINE m == [mem[r] EXCEPT !.wake = NoTime]
    <3>1. Kept(mem[r], m) /\ DOMAIN m = Fields
      BY <1>1, <1>2 DEF Kept
    <3>2. \E n \in {Reconcile(m), Background(m, [kind |-> "expire"])} :
            mem' = [mem EXCEPT ![r] = n]
      BY <2>4 DEF Wake
    <3>. HIDE DEF m
    <3>3. Kept(m, Reconcile(m)) /\ Kept(m, Background(m, [kind |-> "expire"]))
      BY <1>1, <3>1, ReconcileKept
    <3>. QED BY <3>1, <3>2, <3>3 DEF Kept
  <2>5. CASE Retry(r)
    <3>1. PICK j : mem' = [mem EXCEPT ![r] =
                             Background([mem[r] EXCEPT !.retries = @ \ {j}], j)]
      BY <2>5 DEF Retry
    <3>. DEFINE m == [mem[r] EXCEPT !.retries = @ \ {j}]
    <3>2. Kept(mem[r], m) /\ DOMAIN m = Fields
      BY <1>1, <1>2 DEF Kept
    <3>3. mem' = [mem EXCEPT ![r] = Background(m, j)]
      BY <3>1
    <3>. HIDE DEF m
    <3>4. Kept(mem[r], Background(m, j))
      BY <1>1, <3>2 DEF Kept
    <3>. QED BY <3>3, <3>4
  <2>. QED BY <2>1, <2>2, <2>3, <2>4, <2>5
<1>4. store' = store /\ acks' = acks
  BY DEF Dispatch, Sync, Close, CloseIfLobby, TaskEnds, Wake, Retry
<1>5. PICK n : mem' = [mem EXCEPT ![r] = n] /\ Kept(mem[r], n)
  BY <1>3
<1>6. Safe(n, store)
  BY <1>2, <1>5, KeptSafe
<1>. QED BY <1>2, <1>4, <1>5, <1>6, OneRuntime

\* Opening takes over the stored record; a process that goes takes its memory with it.
LEMMA ProcessSafe ==
  ASSUME SafeRoom, NEW r \in Runtimes, Open(r) \/ Crash(r) \/ Exit(r)
  PROVE  SafeRoom'
<1>1. Safe(Opened, store)
  BY DEF Opened, Safe, SafeRoom, Behind, Idle, Fields
<1>2. /\ store' = store /\ acks' \subseteq store.receipts
      /\ \E n \in {Down, Opened} : mem' = [mem EXCEPT ![r] = n]
  BY DEF Open, Crash, Exit, SafeRoom
<1>. QED BY <1>1, <1>2, OneRuntime

LEMMA InitSafe ==
  ASSUME Init
  PROVE  SafeRoom
<1>1. PICK state, p : store = [version |-> 0, state |-> state, receipts |-> {}, preparation |-> p]
  BY DEF Init, InitWith
<1>2. mem = [r \in Runtimes |-> Down] /\ acks = {}
  BY DEF Init, InitWith
<1>. QED BY <1>1, <1>2 DEF SafeRoom, Draft, Once

LEMMA NextSafe ==
  ASSUME SafeRoom, [Next]_vars
  PROVE  SafeRoom'
<1>1. CASE \/ Send \/ Tick \/ UNCHANGED vars \/ \E r \in Runtimes : Subscribe(r)
  <2>1. mem' = mem /\ store' = store /\ acks' = acks
    BY <1>1 DEF Send, Tick, Subscribe, vars
  <2>. QED BY <2>1 DEF SafeRoom
<1>2. ASSUME NEW r \in Runtimes, Work(r) PROVE SafeRoom'
  BY <1>2, RunDispatchSafe, RunCatchUpSafe, RunReceiveSafe, RunCloseSafe, SaveFailsSafe,
     ResumeSafe DEF Work
<1>3. ASSUME NEW r \in Runtimes,
             \/ Dispatch(r) \/ Sync(r) \/ Close(r) \/ CloseIfLobby(r)
             \/ TaskEnds(r) \/ Wake(r) \/ Retry(r)
      PROVE  SafeRoom'
  BY <1>3, OutsideSafe
<1>4. ASSUME NEW r \in Runtimes, SaveFails(r) \/ Save(r) \/ Open(r) \/ Crash(r) \/ Exit(r)
      PROVE  SafeRoom'
  BY <1>4, SaveFailsSafe, SaveSafe, ProcessSafe
<1>. QED BY <1>1, <1>2, <1>3, <1>4 DEF Next

-----------------------------------------------------------------------------
(* What the rules make of a record's state.  Every result is sound and     *)
(* follows the state it was made from; one that is made from the stored    *)
(* state with a token of it is a step of module Game.                      *)

Reaches(s, t) == Sound(t) /\ Follows(s, t) /\ t.lastNow <= Horizon

LEMMA ReachesItself ==
  ASSUME NEW s, Sound(s), s.lastNow <= Horizon
  PROVE  Reaches(s, s)
<1>1. Core(s) /\ Timely(s) /\ s \in GameState
  BY DEF Sound, Valid, Core
<1>2. Progress(s) \in Nat
  BY <1>1, ProgressType
<1>3. /\ s.lastNow \in Nat /\ s.loggedAt \in Nat /\ s.revision \in Nat
      /\ s = [s EXCEPT !.lastNow = s.lastNow]
  BY <1>1 DEF GameState
<1>. QED BY <1>1, <1>2, <1>3 DEF Reaches, Follows, Numbered, SameWindow, Heard

LEMMA RulesReach ==
  ASSUME NEW s, Sound(s), NEW now \in Nat, s.lastNow <= now, now <= Horizon,
         NEW actor, NEW envelope, WellFormed(actor, envelope.command)
  PROVE  /\ Reaches(s, AdvanceTime(s, now))
         /\ Reaches(s, Transition(s, actor, envelope, now).state)
<1>. DEFINE current == AdvanceTime(s, now)
            t == Decide(current, actor, envelope, now).state
<1>1. Sound(current) /\ Follows(s, current) /\ current.lastNow = now
  BY AdvanceTimeSound
<1>. HIDE DEF current
<1>2. Effect(current, t)
  BY <1>1, DecideEffect
<1>3. Transition(s, actor, envelope, now).state = t
  BY DEF Transition, current
<1>. HIDE DEF t
<1>4. Sound(t) /\ Follows(s, t) /\ t.lastNow = now
  BY <1>1, <1>2, EffectFollows
<1>5. Reaches(s, current) /\ Reaches(s, t)
  BY <1>1, <1>4 DEF Reaches
<1>. QED BY <1>3, <1>5 DEF current

\* In a lobby time changes nothing, and only players are heard.
LEMMA LobbyStaysLobby ==
  ASSUME NEW s, Sound(s), NEW now \in Nat, s.lastNow <= now, s.phase = "lobby"
  PROVE  /\ AdvanceTime(s, now).phase = "lobby"
         /\ AdvanceTime(s, now).revision = s.revision
<1>. DEFINE u == [s EXCEPT !.lastNow = now]
<1>1. Core(s) /\ s.deadlineAt = NoTime /\ s \in GameState
  BY DEF Sound, Valid, Core, ValidPhaseFields, Started
<1>2. Core(u) /\ u.lastNow = now
  BY <1>1, ClockCore
<1>3. u.deadlineAt = NoTime /\ u.phase = "lobby" /\ u.revision = s.revision
  BY <1>1 DEF GameState
<1>. HIDE DEF u
<1>4. Expired(u, now) = u
  BY <1>2, <1>3, ExpiredIdle DEF Due
<1>. QED BY <1>3, <1>4 DEF AdvanceTime, u

\* A match that has left its lobby does not come back to it.
LEMMA LobbyIsFirst ==
  ASSUME NEW s, Sound(s), NEW t, Follows(s, t), t.phase = "lobby"
  PROVE  s.phase = "lobby"
<1>1. Core(s) /\ Core(t) /\ Progress(t) >= Progress(s)
  BY DEF Sound, Valid, Follows
<1>. QED BY <1>1, ProgressPhase

LEMMA LobbyNumbers ==
  ASSUME NEW s, Sound(s), NEW now \in Nat, s.lastNow <= now, now <= Horizon,
         NEW actor, NEW envelope, WellFormed(actor, envelope.command),
         Transition(s, actor, envelope, now).state.phase = "lobby"
  PROVE  /\ s.phase = "lobby"
         /\ \/ Transition(s, actor, envelope, now).state.revision = s.revision
            \/ /\ actor.kind = "participant"
               /\ Transition(s, actor, envelope, now).state.revision = s.revision + 1
<1>. DEFINE current == AdvanceTime(s, now)
            t == Decide(current, actor, envelope, now).state
            next == Apply(current, actor, envelope.command, now)
<1>1. Transition(s, actor, envelope, now).state = t
  BY DEF Transition
<1>2. s.phase = "lobby"
  BY RulesReach, LobbyIsFirst DEF Reaches
<1>3. current.phase = "lobby" /\ current.revision = s.revision
  BY <1>2, LobbyStaysLobby
<1>4. Sound(current) /\ current.lastNow = now
  BY AdvanceTimeSound
<1>5. \/ t = current
      \/ Accepts(current, actor, envelope.command) /\ t = [next EXCEPT !.revision = @ + 1]
  BY Zenon DEF Decide
<1>. HIDE DEF current
<1>6. ASSUME Accepts(current, actor, envelope.command), t = [next EXCEPT !.revision = @ + 1]
      PROVE  actor.kind = "participant" /\ t.revision = s.revision + 1
  <2>1. Lands(current, next)
    BY <1>4, <1>6, AcceptedLands
  <2>. HIDE DEF next, t
  <2>2. next \in GameState /\ next.revision = s.revision
    BY <1>3, <2>1 DEF Lands, Valid, Core, Lawful
  <2>3. actor.kind = "participant"
    BY <1>3, <1>6
       DEF Accepts, MayJoin, MayReady, MayResolve, MayAnswer, MayVote, MayAccuse, MayRespond,
           MayFollowUp
  <2>. QED BY <1>6, <2>2, <2>3 DEF GameState
<1>. HIDE DEF t
<1>. QED BY <1>1, <1>2, <1>3, <1>5, <1>6

-----------------------------------------------------------------------------
(* Steps of module Game, as a relation of states                           *)

Asks(s, actor, c) ==
  \/ /\ actor \in {Participant(p) : p \in Participants} /\ c \in PlayerCommand
     /\ c.type = "ready" => s.revision < MaxRequests
  \/ /\ actor \in {AiPlayer(i) : i \in SeatNo} /\ c \in PlayerCommand
     /\ c.type \notin {"join", "ready"}
  \/ /\ actor = System /\ s.phase = "preparing"
     /\ \E seats \in AssignSeats(s.members), valid \in Contents :
          c = [type |-> "resolve-topic", valid |-> valid, seats |-> seats]

Submitted(s, c) == [matchId |-> s.matchId, phaseToken |-> s.phaseToken, command |-> c]

GameStep(s, t) ==
  \E now \in s.lastNow..Horizon :
    \/ t = AdvanceTime(s, now)
    \/ \E actor, c : /\ Asks(s, actor, c)
                     /\ t = Decide(AdvanceTime(s, now), actor, Submitted(s, c), now).state

\* A command with a token of the window or an older one is a command of the window, or void.
LEMMA TransitionSteps ==
  ASSUME NEW s, Sound(s), NEW now \in Nat, s.lastNow <= now, now <= Horizon,
         NEW actor, NEW envelope, WellFormed(actor, envelope.command),
         envelope.matchId = s.matchId,
         envelope.phaseToken \in Int, envelope.phaseToken <= s.phaseToken,
         Transition(s, actor, envelope, now).ok => Asks(s, actor, envelope.command)
  PROVE  GameStep(s, Transition(s, actor, envelope, now).state)
<1>. DEFINE current == AdvanceTime(s, now)
            c == envelope.command
            x == Decide(current, actor, envelope, now)
            next == [Apply(current, actor, c, now) EXCEPT !.revision = @ + 1]
<1>1. Transition(s, actor, envelope, now) = x
  BY DEF Transition
<1>2. now \in s.lastNow..Horizon /\ s.phaseToken \in Nat
  <2>1. s.lastNow \in Nat /\ s.phaseToken \in Nat
    BY DEF Sound, Valid, Core, GameState
  <2>. QED BY <2>1, RoomBoundsAssumption
<1>3. Follows(s, current)
  BY AdvanceTimeSound
<1>4. current.phaseToken \in Nat /\ current.phaseToken >= s.phaseToken
  BY <1>2, <1>3 DEF Follows, Core, GameState
<1>. HIDE DEF current
<1>5. CASE ~x.ok
  <2>1. x.state = current
    BY <1>5 DEF Decide
  <2>. QED BY <1>1, <1>2, <2>1 DEF GameStep, current
<1>6. CASE x.ok
  <2>1. /\ envelope.matchId = current.matchId /\ envelope.phaseToken = current.phaseToken
        /\ Accepts(current, actor, c) /\ x.state = next
    BY <1>6 DEF Decide
  <2>2. s.phaseToken = current.phaseToken
    BY <1>2, <1>4, <2>1
  <2>3. /\ Submitted(s, c).matchId = current.matchId
        /\ Submitted(s, c).phaseToken = current.phaseToken
        /\ Submitted(s, c).command = c
    BY <2>1, <2>2 DEF Submitted
  <2>. HIDE DEF next, c
  <2>4. Decide(current, actor, Submitted(s, c), now).state = next
    BY <2>1, <2>3 DEF Decide, next, c
  <2>5. Asks(s, actor, c)
    BY <1>1, <1>6 DEF c
  <2>. QED BY <1>1, <1>2, <2>1, <2>4, <2>5 DEF GameStep, current
<1>. QED BY <1>5, <1>6

-----------------------------------------------------------------------------
(* The second invariant: what is stored, held and about to be saved is     *)
(* sound, and what is about to be saved in the place of the stored state   *)
(* is made from it by a step of Game.                                      *)

Pairs(receipts) == {[participant |-> y.participant, request |-> y.request] : y \in receipts}

\* A record with the receipts of requests that were made; each counts for one lobby revision.
Account(x, calls) ==
  /\ x \in Record /\ Sound(x.state) /\ x.state.lastNow <= Horizon
  /\ IsFiniteSet(x.receipts) /\ Pairs(x.receipts) \subseteq calls
  /\ x.state.phase = "lobby" => x.state.revision <= Cardinality(x.receipts)

From(j, calls) ==
  j.kind = "dispatch" => [participant |-> j.participant, request |-> j.request] \in calls

Made(s, t) == t = s \/ GameStep(s, t)

\* A runtime's record, and the job that is to replace it.
Prepares(m, stored, calls) ==
  /\ Account(m.record, calls) /\ m.record.state.revision <= stored.state.revision
  /\ m.job.stage # "idle" => /\ Account(m.job.next, calls) /\ From(m.job.of, calls)
                             /\ Follows(m.record.state, m.job.next.state)
  /\ m.job.stage = "saving" /\ m.record.version = stored.version =>
       Made(m.record.state, m.job.next.state)
  /\ m.job.stage = "saved" => m.job.next.state.revision <= stored.state.revision

\* Tasks are of the window they were started in; AI seats have some only in a match under way.
Lively == {"answering", "debating", "voting"}

Assigned(m) ==
  /\ m.taskToken <= m.record.state.phaseToken
  /\ \A t \in m.tasks :
       /\ t.token = m.taskToken
       /\ t.token = m.record.state.phaseToken /\ t.key # TopicKey =>
            m.record.state.phase \in Lively

\* Dispatched requests were made; only background jobs are tried again.
Queued(m, calls) ==
  /\ \A i \in 1..Len(m.queue) : From(m.queue[i], calls)
  /\ \A j \in m.retries : j.kind \in {"expire", "receive"}

Holds(m, stored, calls) ==
  /\ DOMAIN m = Fields /\ RuntimeOK(m) /\ Assigned(m) /\ Queued(m, calls)
  /\ Prepares(m, stored, calls)

SoundRoom ==
  /\ clock \in 0..Horizon
  /\ Account(store, sent)
  /\ sent \subseteq [participant : Participants, request : Request]
  /\ IsFiniteSet(sent) /\ Cardinality(sent) <= MaxRequests
  /\ \A x \in sent : x.request.phaseToken <= store.state.phaseToken
  /\ seen \in Nat /\ seen <= store.state.revision
  /\ \A r \in Runtimes : mem[r] = Down \/ Holds(mem[r], store, sent)

-----------------------------------------------------------------------------
(* Tasks and timers                                                        *)

\* The same record, job, queue, status and retries.
Tended(m, n) ==
  /\ Kept(m, n) /\ n.queue = m.queue /\ n.status = m.status /\ n.retries = m.retries

LEMMA AccountFacts ==
  ASSUME NEW x, NEW calls, Account(x, calls)
  PROVE  /\ x \in Record /\ x.state \in GameState /\ x.state.phaseToken \in Nat
         /\ x.state.lastNow \in Nat /\ x.state.revision \in Nat
         /\ x.state.deadlineAt \in Nat \cup {NoTime} /\ x.preparation.retryAt \in Nat
  BY DEF Account, Record, GameState, Preparation

LEMMA NowBounds ==
  ASSUME NEW m, NEW calls, Account(m.record, calls), clock \in 0..Horizon
  PROVE  /\ Now(m) \in Nat /\ m.record.state.lastNow <= Now(m) /\ Now(m) <= Horizon
<1>1. m.record.state.lastNow \in Nat /\ m.record.state.lastNow <= Horizon
  BY DEF Account, Record, GameState
<1>2. clock \in Nat /\ clock <= Horizon
  BY RoomBoundsAssumption
<1>. QED BY <1>1, <1>2 DEF Now

LEMMA AiWorkType ==
  ASSUME NEW s, Sound(s)
  PROVE  /\ AiWork(s) \subseteq SeatNo
         /\ AiWork(s) # {} => s.phase \in Lively
<1>1. Core(s)
  BY DEF Sound, Valid
<1>2. CASE Started(s)
  <2>1. SeatIds(s) \subseteq SeatNo
    BY <1>1, <1>2, SeatBound DEF Core
  <2>. QED BY <2>1 DEF AiWork, SeatsOf, Lively
<1>3. CASE ~Started(s)
  <2>1. s.seats = <<>> /\ SeatIds(s) = {}
    BY <1>1, <1>3 DEF Core, ValidSeating, SeatIds
  <2>. QED BY <2>1 DEF AiWork, SeatsOf
<1>. QED BY <1>2, <1>3

LEMMA ForgetHolds ==
  ASSUME NEW m, NEW calls, DOMAIN m = Fields, RuntimeOK(m), Assigned(m),
         Account(m.record, calls)
  PROVE  /\ Tended(m, Forget(m)) /\ RuntimeOK(Forget(m)) /\ Assigned(Forget(m))
         /\ Forget(m).taskToken = m.record.state.phaseToken
<1>1. m.record.state.phaseToken \in Nat
  BY AccountFacts
<1>2. CASE m.taskToken = m.record.state.phaseToken
  BY <1>2 DEF Forget, Tended, Kept
<1>3. CASE m.taskToken # m.record.state.phaseToken
  <2>. DEFINE n == [m EXCEPT !.tasks = {}, !.attempts = {},
                             !.taskToken = m.record.state.phaseToken]
  <2>1. /\ Tended(m, n) /\ n.tasks = {} /\ n.attempts = {} /\ n.wake = m.wake
        /\ n.taskToken = m.record.state.phaseToken
    BY DEF Tended, Kept, Fields
  <2>2. Forget(m) = n
    BY <1>3 DEF Forget
  <2>. HIDE DEF n
  <2>3. RuntimeOK(n) /\ Assigned(n)
    BY <1>1, <2>1 DEF RuntimeOK, Assigned, Tended, Kept
  <2>. QED BY <2>1, <2>2, <2>3
<1>. QED BY <1>2, <1>3

\* Adding tasks for the present window, and a wake time.
LEMMA StartHolds ==
  ASSUME NEW m, NEW calls, RuntimeOK(m), Assigned(m), Account(m.record, calls),
         m.taskToken = m.record.state.phaseToken,
         NEW n, Tended(m, n), n.taskToken = m.taskToken,
         n.attempts \subseteq SeatNo, n.wake \in Nat \cup {NoTime},
         NEW keys \in SUBSET TaskKey, n.tasks = m.tasks \cup {Task(m, i) : i \in keys},
         keys \subseteq {TopicKey} \/ m.record.state.phase \in Lively
  PROVE  RuntimeOK(n) /\ Assigned(n)
<1>1. m.record.state.phaseToken \in Nat
  BY AccountFacts
<1>2. ASSUME NEW i \in keys
      PROVE  /\ Task(m, i) \in [key : TaskKey, token : Nat, settled : BOOLEAN]
             /\ Task(m, i).token = m.taskToken
             /\ Task(m, i).key # TopicKey => m.record.state.phase \in Lively
  BY <1>1 DEF Task
<1>3. n.tasks \subseteq [key : TaskKey, token : Nat, settled : BOOLEAN]
  BY <1>2 DEF RuntimeOK
<1>4. n.record = m.record /\ n.job = m.job /\ n.queue = m.queue /\ n.status = m.status
      /\ n.retries = m.retries
  BY DEF Tended, Kept
<1>5. RuntimeOK(n)
  BY <1>3, <1>4 DEF RuntimeOK
<1>6. Assigned(n)
  BY <1>2, <1>4 DEF Assigned
<1>. QED BY <1>5, <1>6

LEMMA ReconcileHolds ==
  ASSUME NEW m, NEW calls, DOMAIN m = Fields, RuntimeOK(m), Assigned(m),
         Account(m.record, calls)
  PROVE  /\ Tended(m, Reconcile(m)) /\ RuntimeOK(Reconcile(m)) /\ Assigned(Reconcile(m))
<1>. DEFINE f == Forget(m)
            w == WakeAt(m.record, Now(m))
            woken == [f EXCEPT !.wake = w]
            new == AiWork(m.record.state) \ woken.attempts
<1>1. /\ Tended(m, f) /\ RuntimeOK(f) /\ Assigned(f)
      /\ f.taskToken = m.record.state.phaseToken
  BY ForgetHolds
<1>2. w \in Nat \cup {NoTime}
  BY AccountFacts DEF WakeAt
<1>. HIDE DEF f, w
<1>3. /\ Tended(f, woken) /\ Tended(m, woken) /\ woken.tasks = f.tasks
      /\ woken.taskToken = f.taskToken /\ woken.attempts = f.attempts /\ woken.wake = w
  BY <1>1 DEF Tended, Kept, Fields
<1>4. Account(f.record, calls) /\ f.record = m.record
  BY <1>1 DEF Tended, Kept
<1>5. woken.tasks = f.tasks \cup {Task(f, i) : i \in {}}
  BY <1>3
<1>6. RuntimeOK(woken) /\ Assigned(woken)
  <2>1. f.attempts \subseteq SeatNo /\ {} \in SUBSET TaskKey
    BY <1>1 DEF RuntimeOK
  <2>. QED BY <1>1, <1>2, <1>3, <1>4, <1>5, <2>1, StartHolds
<1>. HIDE DEF woken
<1>7. /\ woken.record = m.record /\ DOMAIN woken = Fields /\ woken.attempts \subseteq SeatNo
      /\ woken.taskToken = woken.record.state.phaseToken /\ woken.wake \in Nat \cup {NoTime}
  BY <1>1, <1>3, <1>6 DEF Tended, Kept, RuntimeOK
<1>8. /\ Tended(m, StartTopic(woken)) /\ RuntimeOK(StartTopic(woken))
      /\ Assigned(StartTopic(woken))
  <2>1. CASE StartTopic(woken) = woken
    BY <1>3, <1>6, <2>1
  <2>2. CASE StartTopic(woken) # woken
    <3>. DEFINE n == [woken EXCEPT !.tasks = @ \cup {Task(woken, TopicKey)}]
    <3>1. StartTopic(woken) = n
      BY <2>2 DEF StartTopic
    <3>2. /\ Tended(woken, n) /\ n.taskToken = woken.taskToken /\ n.attempts = woken.attempts
          /\ n.wake = woken.wake /\ n.tasks = woken.tasks \cup {Task(woken, i) : i \in {TopicKey}}
      BY <1>7 DEF Tended, Kept, Fields
    <3>. HIDE DEF n
    <3>3. {TopicKey} \in SUBSET TaskKey
      BY MaxSeatsBound DEF TopicKey, TaskKey
    <3>4. RuntimeOK(n) /\ Assigned(n)
      BY <1>4, <1>6, <1>7, <3>2, <3>3, StartHolds
    <3>. QED BY <1>3, <3>1, <3>2, <3>4 DEF Tended, Kept
  <2>. QED BY <2>1, <2>2
<1>9. /\ Tended(m, StartAi(woken)) /\ RuntimeOK(StartAi(woken)) /\ Assigned(StartAi(woken))
  <2>. DEFINE n == [woken EXCEPT !.attempts = @ \cup new,
                                 !.tasks = @ \cup {Task(woken, i) : i \in new}]
  <2>1. StartAi(woken) = n
    BY <1>7 DEF StartAi
  <2>2. /\ new \subseteq SeatNo
        /\ new # {} => m.record.state.phase \in Lively
    BY AiWorkType DEF Account
  <2>. HIDE DEF new
  <2>3. /\ Tended(woken, n) /\ n.taskToken = woken.taskToken
        /\ n.attempts = woken.attempts \cup new /\ n.wake = woken.wake
        /\ n.tasks = woken.tasks \cup {Task(woken, i) : i \in new}
    BY <1>7 DEF Tended, Kept, Fields
  <2>. HIDE DEF n
  <2>4. new \in SUBSET TaskKey
    BY <2>2, MaxSeatsBound DEF SeatNo, TaskKey
  <2>5. new \subseteq {TopicKey} \/ woken.record.state.phase \in Lively
    BY <1>7, <2>2
  <2>6. RuntimeOK(n) /\ Assigned(n)
    BY <1>4, <1>6, <1>7, <2>2, <2>3, <2>4, <2>5, StartHolds
  <2>. QED BY <1>3, <2>1, <2>3, <2>6 DEF Tended, Kept
<1>10. Reconcile(m) \in {woken, StartTopic(woken), StartAi(woken)}
  BY DEF Reconcile, woken, f, w
<1>. QED BY <1>3, <1>6, <1>8, <1>9, <1>10

LEMMA TendedHolds ==
  ASSUME NEW m, NEW stored, NEW calls, Holds(m, stored, calls),
         NEW n, Tended(m, n), RuntimeOK(n), Assigned(n)
  PROVE  Holds(n, stored, calls)
  BY DEF Holds, Tended, Kept, Queued, Prepares

LEMMA ReconciledHolds ==
  ASSUME NEW m, NEW stored, NEW calls, Holds(m, stored, calls)
  PROVE  Holds(Reconcile(m), stored, calls)
<1>1. /\ DOMAIN m = Fields /\ RuntimeOK(m) /\ Assigned(m) /\ Account(m.record, calls)
  BY DEF Holds, Prepares
<1>. QED BY <1>1, ReconcileHolds, TendedHolds

\* Fewer tasks, another wake time, fewer retries.
LEMMA TrimmedHolds ==
  ASSUME NEW m, NEW stored, NEW calls, Holds(m, stored, calls),
         NEW n, Kept(m, n), n.queue = m.queue, n.status \in {m.status, "open", "closing"},
         n.attempts = m.attempts, n.taskToken = m.taskToken,
         n.tasks \subseteq m.tasks, n.wake \in {m.wake, NoTime}, n.retries \subseteq m.retries
  PROVE  Holds(n, stored, calls)
<1>1. RuntimeOK(n)
  BY DEF Holds, RuntimeOK, Kept
<1>2. Assigned(n)
  BY DEF Holds, Assigned, Kept
<1>. QED BY <1>1, <1>2 DEF Holds, Kept, Queued, Prepares

LEMMA EndTaskHolds ==
  ASSUME NEW m, NEW stored, NEW calls, NEW task, Holds(m, stored, calls)
  PROVE  Holds(EndTask(m, task), stored, calls)
<1>. DEFINE n == [m EXCEPT !.tasks = {t \in @ : t.key # task.key}]
<1>1. /\ Kept(m, n) /\ n.queue = m.queue /\ n.status = m.status /\ n.attempts = m.attempts
      /\ n.taskToken = m.taskToken /\ n.tasks \subseteq m.tasks /\ n.wake = m.wake
      /\ n.retries = m.retries
  BY DEF Holds, Kept, Fields
<1>. HIDE DEF n
<1>2. Holds(n, stored, calls)
  BY <1>1, TrimmedHolds
<1>. QED BY <1>2, ReconciledHolds DEF EndTask, n

LEMMA StopHolds ==
  ASSUME NEW m, NEW stored, NEW calls, Holds(m, stored, calls)
  PROVE  Holds(Stop(m), stored, calls)
<1>. DEFINE n == Stop(m)
<1>1. /\ DOMAIN n = Fields /\ n.status = "closed" /\ n.job = Idle /\ n.queue = <<>>
      /\ n.tasks = {} /\ n.wake = NoTime /\ n.retries = {}
      /\ n.record = m.record /\ n.attempts = m.attempts /\ n.taskToken = m.taskToken
  BY DEF Stop, Holds, Fields
<1>. HIDE DEF n
<1>2. RuntimeOK(n) /\ Assigned(n) /\ Queued(n, calls)
  BY <1>1 DEF Holds, RuntimeOK, Assigned, Queued
<1>3. Prepares(n, stored, calls)
  BY <1>1 DEF Holds, Prepares, Idle
<1>4. Holds(n, stored, calls)
  BY <1>1, <1>2, <1>3 DEF Holds
<1>. QED BY <1>4 DEF n

\* The job ends without a new record.
LEMMA IdleHolds ==
  ASSUME NEW m, NEW stored, NEW calls, Holds(m, stored, calls)
  PROVE  Holds([m EXCEPT !.job = Idle], stored, calls)
<1>. DEFINE n == [m EXCEPT !.job = Idle]
<1>1. /\ DOMAIN n = Fields /\ n.status = m.status /\ n.job = Idle /\ n.queue = m.queue
      /\ n.tasks = m.tasks /\ n.wake = m.wake /\ n.retries = m.retries
      /\ n.record = m.record /\ n.attempts = m.attempts /\ n.taskToken = m.taskToken
  BY DEF Holds, Fields
<1>. HIDE DEF n
<1>2. RuntimeOK(n) /\ Assigned(n) /\ Queued(n, calls)
  BY <1>1 DEF Holds, RuntimeOK, Assigned, Queued
<1>3. Prepares(n, stored, calls)
  BY <1>1 DEF Holds, Prepares, Idle
<1>4. Holds(n, stored, calls)
  BY <1>1, <1>2, <1>3 DEF Holds
<1>. QED BY <1>4 DEF n

-----------------------------------------------------------------------------
(* Jobs                                                                    *)

LEMMA SavingHolds ==
  ASSUME NEW m, NEW stored, NEW calls, Holds(m, stored, calls),
         NEW j \in Job, From(j, calls), NEW step \in {"expire", "last"},
         NEW next, Account(next, calls), Follows(m.record.state, next.state),
         m.record.version = stored.version => Made(m.record.state, next.state)
  PROVE  Holds(Saving(m, j, step, next), stored, calls)
<1>. DEFINE numbered == [next EXCEPT !.version = m.record.version + 1]
            job == [stage |-> "saving", of |-> j, step |-> step, next |-> numbered]
            n == Saving(m, j, step, next)
<1>1. m.record.version \in Nat /\ next \in Record
  BY DEF Holds, RuntimeOK, Record, Account
<1>2. /\ numbered \in Record /\ numbered.state = next.state /\ numbered.receipts = next.receipts
  BY <1>1 DEF Record
<1>. HIDE DEF numbered
<1>3. Account(numbered, calls)
  BY <1>2 DEF Account
<1>4. job.stage = "saving" /\ job.of = j /\ job.step = step /\ job.next = numbered
  OBVIOUS
<1>. HIDE DEF job
<1>5. Saving(m, j, step, next) = [m EXCEPT !.job = job]
  BY DEF Saving, job, numbered
<1>6. /\ DOMAIN n = Fields /\ n.status = m.status /\ n.job = job /\ n.queue = m.queue
      /\ n.tasks = m.tasks /\ n.wake = m.wake /\ n.retries = m.retries
      /\ n.record = m.record /\ n.attempts = m.attempts /\ n.taskToken = m.taskToken
  BY <1>5 DEF Holds, Fields
<1>. HIDE DEF n
<1>7. RuntimeOK(n)
  BY <1>2, <1>4, <1>6 DEF Holds, RuntimeOK
<1>8. Assigned(n) /\ Queued(n, calls)
  BY <1>6 DEF Holds, Assigned, Queued
<1>9. Prepares(n, stored, calls)
  BY <1>2, <1>3, <1>4, <1>6 DEF Holds, Prepares
<1>10. Holds(n, stored, calls)
  BY <1>6, <1>7, <1>8, <1>9 DEF Holds
<1>. QED BY <1>10 DEF n

LEMMA StateAccount ==
  ASSUME NEW x, NEW calls, Account(x, calls), NEW t, Reaches(x.state, t),
         t.phase = "lobby" => t.revision <= Cardinality(x.receipts)
  PROVE  Account([x EXCEPT !.state = t], calls)
<1>. DEFINE y == [x EXCEPT !.state = t]
<1>1. t \in GameState /\ Sound(t) /\ t.lastNow <= Horizon
  BY DEF Reaches, Sound, Valid, Core
<1>2. /\ y \in Record /\ y.state = t /\ y.receipts = x.receipts
  BY <1>1 DEF Account, Record
<1>. HIDE DEF y
<1>3. Account(y, calls)
  BY <1>1, <1>2 DEF Account
<1>. QED BY <1>3 DEF y

LEMMA AdvancedAccount ==
  ASSUME NEW m, NEW calls, Account(m.record, calls), clock \in 0..Horizon
  PROVE  /\ Account(Advanced(m), calls) /\ Follows(m.record.state, Advanced(m).state)
         /\ Made(m.record.state, Advanced(m).state)
<1>. DEFINE s == m.record.state
            now == Now(m)
            t == AdvanceTime(s, now)
<1>1. /\ now \in Nat /\ s.lastNow <= now /\ now <= Horizon /\ s.lastNow \in Nat
      /\ Sound(s) /\ m.record \in Record
  BY NowBounds, AccountFacts DEF Account
<1>2. Sound(t) /\ Follows(s, t) /\ t.lastNow = now
  BY <1>1, AdvanceTimeSound
<1>3. t.phase = "lobby" => t.revision <= Cardinality(m.record.receipts)
  BY <1>1, <1>2, LobbyIsFirst, LobbyStaysLobby DEF Account
<1>4. Made(s, t)
  BY <1>1, RoomBoundsAssumption DEF Made, GameStep
<1>5. Advanced(m) = [m.record EXCEPT !.state = t]
  BY <1>1 DEF Advanced, Record
<1>. HIDE DEF t
<1>6. Account([m.record EXCEPT !.state = t], calls)
  BY <1>1, <1>2, <1>3, StateAccount DEF Reaches
<1>7. Advanced(m).state = t
  BY <1>1, <1>5 DEF Record
<1>. QED BY <1>2, <1>4, <1>5, <1>6, <1>7

LEMMA BackoffType ==
  ASSUME NEW cycles \in Nat
  PROVE  Backoff(cycles) \in Nat
<1>. DEFINE k == IF cycles > 20 THEN 20 ELSE IF cycles = 0 THEN 0 ELSE cycles - 1
<1>1. k \in 0..20
  OBVIOUS
<1>2. 0..20 = {0, 1, 2, 3, 4, 5, 6, 7, 8, 9, 10, 11, 12, 13, 14, 15, 16, 17, 18, 19, 20}
  OBVIOUS
<1>3. /\ 2^0 \in Nat /\ 2^1 \in Nat /\ 2^2 \in Nat /\ 2^3 \in Nat /\ 2^4 \in Nat
      /\ 2^5 \in Nat /\ 2^6 \in Nat /\ 2^7 \in Nat /\ 2^8 \in Nat /\ 2^9 \in Nat
      /\ 2^10 \in Nat /\ 2^11 \in Nat /\ 2^12 \in Nat /\ 2^13 \in Nat /\ 2^14 \in Nat
      /\ 2^15 \in Nat /\ 2^16 \in Nat /\ 2^17 \in Nat /\ 2^18 \in Nat /\ 2^19 \in Nat
      /\ 2^20 \in Nat
  OBVIOUS
<1>. DEFINE power == 2 ^ k
<1>. HIDE DEF k
<1>4. power \in Nat
  BY <1>1, <1>2, <1>3, Zenon
<1>. HIDE DEF power
<1>5. TopicBackoffMs * power \in Nat
  BY <1>4, RuntimeAssumption
<1>6. Backoff(cycles) = Earlier(TopicMaxBackoffMs, TopicBackoffMs * power)
  BY DEF Backoff, power, k
<1>. QED BY <1>5, <1>6, RuntimeAssumption DEF Earlier

LEMMA NextCandidateAccount ==
  ASSUME NEW m, NEW calls, Account(m.record, calls), clock \in 0..Horizon
  PROVE  Account(NextCandidate(m), calls) /\ NextCandidate(m).state = m.record.state
<1>. DEFINE old == m.record.preparation
            wrapped == old.candidateIndex = Candidates - 1
            cycles == old.cycles + (IF wrapped THEN 1 ELSE 0)
            new == [candidateIndex |-> IF wrapped THEN 0 ELSE old.candidateIndex + 1,
                    cycles |-> cycles,
                    retryAt |-> Now(m) + (IF wrapped THEN Backoff(cycles) ELSE 0)]
            y == [m.record EXCEPT !.preparation = new]
<1>1. /\ m.record \in Record /\ old \in Preparation /\ Candidates \in Nat
      /\ Now(m) \in Nat
  BY NowBounds, RuntimeAssumption DEF Account, Record
<1>2. cycles \in Nat
  BY <1>1 DEF Preparation
<1>3. Backoff(cycles) \in Nat
  BY <1>2, BackoffType
<1>4. (IF wrapped THEN 0 ELSE old.candidateIndex + 1) \in 0..(Candidates - 1)
  BY <1>1, RuntimeAssumption DEF Preparation
<1>5. new \in Preparation
  BY <1>1, <1>2, <1>3, <1>4 DEF Preparation
<1>6. NextCandidate(m) = y
  BY <1>1 DEF NextCandidate, Record
<1>. HIDE DEF new
<1>7. y \in Record /\ y.state = m.record.state /\ y.receipts = m.record.receipts
  BY <1>1, <1>5 DEF Record
<1>. HIDE DEF y
<1>. QED BY <1>6, <1>7 DEF Account

\* What a dispatched command may be.
LEMMA PlayerCommandFacts ==
  ASSUME NEW c \in PlayerCommand
  PROVE  /\ c.type \in {"join", "ready", "answer", "vote", "accuse", "respond", "followup",
                        "skip-followup"}
         /\ c.type = "ready" => c.ready \in BOOLEAN
  BY DEF PlayerCommand

\* A command that was not decided yet is a request that no receipt stands for.
LEMMA RequestsOutnumber ==
  ASSUME NEW receipts, IsFiniteSet(receipts), Once(receipts),
         NEW calls, IsFiniteSet(calls), Pairs(receipts) \subseteq calls,
         NEW p, NEW q, [participant |-> p, request |-> q] \in calls,
         \A x \in receipts : ~(x.participant = p /\ x.request.commandId = q.commandId)
  PROVE  Cardinality(receipts) < Cardinality(calls)
<1>. DEFINE pq == [participant |-> p, request |-> q]
            pair(y) == [participant |-> y.participant, request |-> y.request]
            others == calls \ {pq}
            f == [y \in receipts |-> pair(y)]
<1>1. ASSUME NEW y \in receipts
      PROVE  pair(y) \in others
  <2>1. pair(y) \in calls
    BY DEF Pairs
  <2>2. pair(y).participant = y.participant /\ pair(y).request = y.request
    OBVIOUS
  <2>3. pq.participant = p /\ pq.request = q
    OBVIOUS
  <2>4. pair(y) # pq
    BY <2>2, <2>3
  <2>. QED BY <2>1, <2>4
<1>2. ASSUME NEW y \in receipts, NEW z \in receipts, pair(y) = pair(z)
      PROVE  y = z
  <2>1. y.participant = z.participant /\ y.request = z.request
    BY <1>2
  <2>. QED BY <2>1 DEF Once
<1>. HIDE DEF pair, others
<1>3. f \in Injection(receipts, others)
  BY <1>1, <1>2 DEF Injection, IsInjective
<1>4. /\ IsFiniteSet(others) /\ Cardinality(others) = Cardinality(calls) - 1
      /\ Cardinality(calls) \in Nat
  BY FS_RemoveElement, FS_CardinalityType DEF others
<1>5. Cardinality(receipts) <= Cardinality(others)
  BY <1>3, <1>4, FS_Injection
<1>6. Cardinality(receipts) \in Nat
  BY FS_CardinalityType
<1>. QED BY <1>4, <1>5, <1>6

LEMMA DispatchedAccount ==
  ASSUME NEW m, NEW calls, Account(m.record, calls), Once(m.record.receipts),
         clock \in 0..Horizon,
         IsFiniteSet(calls), Cardinality(calls) <= MaxRequests,
         NEW p \in Participants, NEW q \in Request, [participant |-> p, request |-> q] \in calls,
         Previous(m.record, p, q.commandId) = {}
  PROVE  /\ Account(Dispatched(m, p, q), calls)
         /\ Follows(m.record.state, Dispatched(m, p, q).state)
         /\ q.phaseToken <= m.record.state.phaseToken =>
              Made(m.record.state, Dispatched(m, p, q).state)
<1>. DEFINE s == m.record.state
            old == m.record.receipts
            now == Now(m)
            actor == Participant(p)
            envelope == Envelope(m, q.phaseToken, q.command)
            x == Transition(s, actor, envelope, now)
            new == [participant |-> p, request |-> q,
                    ack |-> [ok |-> x.ok, revision |-> x.state.revision]]
            y == [m.record EXCEPT !.state = x.state, !.receipts = @ \cup {new}]
<1>1. /\ now \in Nat /\ s.lastNow <= now /\ now <= Horizon /\ s.lastNow \in Nat
      /\ Sound(s) /\ m.record \in Record /\ s.revision \in Nat
      /\ IsFiniteSet(old) /\ Pairs(old) \subseteq calls
      /\ s.phase = "lobby" => s.revision <= Cardinality(old)
  BY NowBounds, AccountFacts DEF Account
<1>2. q.command \in PlayerCommand /\ q.phaseToken \in Nat
  BY RoomBoundsAssumption DEF Request
<1>3. /\ envelope.command = q.command /\ envelope.phaseToken = q.phaseToken
      /\ envelope.matchId = s.matchId
  BY DEF Envelope
<1>4. WellFormed(actor, envelope.command)
  BY <1>2, <1>3, PlayerCommandFacts DEF WellFormed, Participant
<1>5. \A z \in old : ~(z.participant = p /\ z.request.commandId = q.commandId)
  BY DEF Previous
<1>6. Cardinality(old) < Cardinality(calls)
  BY <1>1, <1>5, RequestsOutnumber
<1>7. Cardinality(old) \in Nat /\ Cardinality(calls) \in Nat
  BY <1>1, FS_CardinalityType
<1>8. Dispatched(m, p, q) = y
  BY DEF Dispatched
<1>9. x.ok \in BOOLEAN
  BY DEF Transition, Decide
<1>10. ASSUME x.ok
       PROVE  Asks(s, actor, q.command)
  <2>1. ASSUME q.command.type = "ready"
        PROVE  s.revision < MaxRequests
    <3>. DEFINE current == AdvanceTime(s, now)
    <3>1. Accepts(current, actor, q.command)
      BY <1>3, <1>10 DEF Transition, Decide
    <3>. HIDE DEF current
    <3>2. current.phase = "lobby"
      BY <2>1, <3>1 DEF Accepts, MayReady
    <3>3. Follows(s, current)
      BY <1>1, AdvanceTimeSound DEF current
    <3>4. s.phase = "lobby"
      BY <1>1, <3>2, <3>3, LobbyIsFirst
    <3>. QED BY <1>1, <1>6, <1>7, <3>4, RoomBoundsAssumption
  <2>2. actor \in {Participant(z) : z \in Participants}
    OBVIOUS
  <2>. QED BY <1>2, <2>1, <2>2 DEF Asks
<1>. HIDE DEF envelope, actor, now, s
<1>11. Reaches(s, x.state)
  BY <1>1, <1>4, RulesReach
<1>12. q.phaseToken <= s.phaseToken => Made(s, x.state)
  <2>. SUFFICES ASSUME q.phaseToken <= s.phaseToken
                PROVE  Made(s, x.state)
    OBVIOUS
  <2>1. envelope.phaseToken \in Int /\ envelope.phaseToken <= s.phaseToken
    BY <1>2, <1>3
  <2>2. x.ok => Asks(s, actor, envelope.command)
    BY <1>3, <1>10
  <2>3. GameStep(s, x.state)
    BY <1>1, <1>3, <1>4, <2>1, <2>2, TransitionSteps
  <2>. QED BY <2>3 DEF Made
<1>13. x.state.phase = "lobby" => x.state.revision <= Cardinality(old) + 1
  <2>. SUFFICES ASSUME x.state.phase = "lobby"
                PROVE  x.state.revision <= Cardinality(old) + 1
    OBVIOUS
  <2>1. /\ s.phase = "lobby"
        /\ x.state.revision = s.revision \/ x.state.revision = s.revision + 1
    BY <1>1, <1>4, LobbyNumbers
  <2>. QED BY <1>1, <1>7, <2>1
<1>14. x.state \in GameState
  BY <1>11 DEF Reaches, Sound, Valid, Core
<1>15. new \in Receipt
  BY <1>9, <1>14 DEF Receipt, Ack, GameState
<1>16. new.participant = p /\ new.request = q
  OBVIOUS
<1>. HIDE DEF new, x
<1>17. new \notin old
  BY <1>5, <1>16
<1>18. IsFiniteSet(old \cup {new}) /\ Cardinality(old \cup {new}) = Cardinality(old) + 1
  BY <1>1, <1>17, FS_AddElement
<1>19. Pairs(old \cup {new}) \subseteq calls
  BY <1>1, <1>16 DEF Pairs
<1>20. /\ y \in Record /\ y.state = x.state /\ y.receipts = old \cup {new}
  BY <1>1, <1>14, <1>15 DEF Record
<1>. HIDE DEF y
<1>21. Account(y, calls)
  BY <1>11, <1>13, <1>18, <1>19, <1>20 DEF Account, Reaches
<1>. QED BY <1>8, <1>11, <1>12, <1>20, <1>21 DEF Reaches, s

\* What the system or an AI seat is allowed to do in the runtime's window.
LEMMA DecidedAccount ==
  ASSUME NEW m, NEW calls, Account(m.record, calls), clock \in 0..Horizon,
         NEW actor, actor.kind # "participant", NEW c, WellFormed(actor, c),
         NEW x, x = Transition(m.record.state, actor,
                               Envelope(m, m.record.state.phaseToken, c), Now(m)),
         x.ok => Asks(m.record.state, actor, c)
  PROVE  /\ Account([m.record EXCEPT !.state = x.state], calls)
         /\ [m.record EXCEPT !.state = x.state].state = x.state
         /\ Follows(m.record.state, x.state) /\ Made(m.record.state, x.state)
<1>. DEFINE s == m.record.state
            now == Now(m)
            envelope == Envelope(m, s.phaseToken, c)
<1>1. /\ now \in Nat /\ s.lastNow <= now /\ now <= Horizon /\ s.lastNow \in Nat
      /\ Sound(s) /\ m.record \in Record /\ s.phaseToken \in Nat
      /\ s.phase = "lobby" => s.revision <= Cardinality(m.record.receipts)
  BY NowBounds, AccountFacts DEF Account
<1>2. /\ envelope.command = c /\ envelope.phaseToken = s.phaseToken
      /\ envelope.matchId = s.matchId
  BY DEF Envelope
<1>3. x = Transition(s, actor, envelope, now)
  OBVIOUS
<1>. HIDE DEF envelope, now, s
<1>4. Reaches(s, x.state)
  BY <1>1, <1>2, <1>3, RulesReach
<1>5. x.state.phase = "lobby" => x.state.revision <= Cardinality(m.record.receipts)
  BY <1>1, <1>2, <1>3, LobbyNumbers
<1>6. Made(s, x.state)
  <2>1. envelope.phaseToken \in Int /\ envelope.phaseToken <= s.phaseToken
    BY <1>1, <1>2
  <2>2. Transition(s, actor, envelope, now).ok => Asks(s, actor, envelope.command)
    BY <1>2, <1>3 DEF s
  <2>3. GameStep(s, x.state)
    BY <1>1, <1>2, <1>3, <2>1, <2>2, TransitionSteps
  <2>. QED BY <2>3 DEF Made
<1>7. Account([m.record EXCEPT !.state = x.state], calls)
  BY <1>4, <1>5, StateAccount DEF s
<1>8. [m.record EXCEPT !.state = x.state].state = x.state
  BY <1>1 DEF Record
<1>. QED BY <1>4, <1>6, <1>7, <1>8 DEF Reaches, s

\* A draw that the rules take in a room that is preparing is one of its own players.
LEMMA DrawnSeats ==
  ASSUME NEW s, Sound(s), NEW now \in Nat, s.lastNow <= now,
         NEW seats \in Seatings, NEW c, c.seats = seats,
         MayResolve(AdvanceTime(s, now), System, c)
  PROVE  s.phase = "preparing" /\ seats \in AssignSeats(s.members)
<1>. DEFINE t == AdvanceTime(s, now)
<1>1. Sound(t) /\ Follows(s, t)
  BY AdvanceTimeSound
<1>2. t.phase = "preparing" /\ ValidSeats(t, seats)
  BY DEF MayResolve
<1>3. s.phase # "lobby"
  BY <1>2, LobbyStaysLobby
<1>. HIDE DEF t
<1>4. Core(s) /\ Core(t)
  BY <1>1 DEF Sound, Valid
<1>5. Progress(t) >= Progress(s) /\ ~Started(t)
  BY <1>1, <1>2 DEF Follows, Started
<1>6. ~Started(s)
  BY <1>4, <1>5, ProgressPhase
<1>7. s.phase = "preparing" /\ t.members = s.members
  BY <1>1, <1>3, <1>6 DEF Follows, Started
<1>8. PICK members \in Tables : seats \in AssignSeats(members)
  BY RoomBoundsAssumption
<1>. DEFINE u == [members |-> members]
<1>9. /\ members \in SUBSET Participants /\ IsFiniteSet(members)
      /\ 2 <= Cardinality(members) /\ Cardinality(members) <= MaxPlayers
  BY PlayersAssumption, FS_CardinalityType DEF Tables
<1>10. u.members = members
  OBVIOUS
<1>. HIDE DEF u
<1>11. ValidSeats(u, seats)
  BY <1>8, <1>9, <1>10, AssignSeatsValid
<1>12. t.members = u.members
  BY <1>2, <1>11 DEF ValidSeats
<1>. QED BY <1>7, <1>8, <1>10, <1>12

LEMMA SeatingsType ==
  ASSUME NEW seats \in Seatings
  PROVE  seats \in Seq(Seat)
<1>1. PICK members \in Tables : seats \in AssignSeats(members)
  BY RoomBoundsAssumption
<1>2. /\ members \in SUBSET Participants /\ IsFiniteSet(members)
      /\ 2 <= Cardinality(members) /\ Cardinality(members) <= MaxPlayers
  BY PlayersAssumption, FS_CardinalityType DEF Tables
<1>. QED BY <1>1, <1>2, AssignSeatsType

LEMMA ResolutionsAccount ==
  ASSUME NEW m, NEW calls, Account(m.record, calls), clock \in 0..Horizon,
         NEW x \in Resolutions(m)
  PROVE  /\ Account([m.record EXCEPT !.state = x.state], calls)
         /\ [m.record EXCEPT !.state = x.state].state = x.state
         /\ Follows(m.record.state, x.state) /\ Made(m.record.state, x.state)
<1>. DEFINE s == m.record.state
<1>1. PICK valid \in Contents, seats \in Seatings :
        x = Transition(s, System,
              Envelope(m, s.phaseToken,
                       [type |-> "resolve-topic", valid |-> valid, seats |-> seats]), Now(m))
  BY DEF Resolutions
<1>. DEFINE c == [type |-> "resolve-topic", valid |-> valid, seats |-> seats]
<1>2. c.type = "resolve-topic" /\ c.seats = seats
  OBVIOUS
<1>3. System.kind = "system"
  BY DEF System
<1>4. WellFormed(System, c)
  BY <1>2, <1>3, SeatingsType DEF WellFormed
<1>5. x.ok => Asks(s, System, c)
  <2>. SUFFICES ASSUME x.ok PROVE Asks(s, System, c)
    OBVIOUS
  <2>1. Accepts(AdvanceTime(s, Now(m)), System, c)
    BY <1>1 DEF Transition, Decide, Envelope
  <2>2. MayResolve(AdvanceTime(s, Now(m)), System, c)
    BY <1>2, <2>1 DEF Accepts
  <2>3. Sound(s) /\ Now(m) \in Nat /\ s.lastNow <= Now(m)
    BY NowBounds DEF Account
  <2>4. s.phase = "preparing" /\ seats \in AssignSeats(s.members)
    BY <1>2, <2>2, <2>3, DrawnSeats
  <2>. QED BY <2>4 DEF Asks
<1>6. x = Transition(s, System, Envelope(m, s.phaseToken, c), Now(m))
  BY <1>1
<1>. HIDE DEF c
<1>. QED BY <1>3, <1>4, <1>5, <1>6, DecidedAccount

LEMMA AiCommandsType ==
  ASSUME NEW s, Sound(s), s.phase \in Lively, NEW c \in AiCommands(s)
  PROVE  c \in PlayerCommand /\ c.type \notin {"join", "ready", "resolve-topic"}
<1>1. Core(s) /\ Started(s)
  BY DEF Sound, Valid, Lively, Started
<1>2. SeatIds(s) \subseteq SeatNo /\ s.round \in Round /\ s.debate.step \in DebateStep
  BY <1>1, SeatBound DEF Core, ValidPhaseFields, GameState, Debate
<1>3. CASE s.phase = "answering"
  <2>1. c \in [type : {"answer"}, round : {s.round}, valid : Contents]
    BY <1>3 DEF AiCommands
  <2>. QED BY <1>2, <2>1 DEF PlayerCommand
<1>4. CASE s.phase = "voting"
  <2>1. c \in [type : {"vote"}, target : SeatIds(s)]
    BY <1>4 DEF AiCommands
  <2>. QED BY <1>2, <2>1 DEF PlayerCommand
<1>5. CASE s.phase = "debating"
  <2>1. \/ c \in [type : {"accuse"}, target : SeatIds(s), valid : Contents]
        \/ c \in [type : {"respond"}, valid : Contents]
        \/ c \in [type : {"followup", "skip-followup"}, valid : Contents]
    BY <1>2, <1>5 DEF AiCommands, DebateStep
  <2>. QED BY <1>2, <2>1 DEF PlayerCommand
<1>. QED BY <1>3, <1>4, <1>5 DEF Lively

\* What receive() makes of a task of the present window.
LEMMA ReceivedHolds ==
  ASSUME NEW m, NEW stored, NEW calls, Holds(m, stored, calls), clock \in 0..Horizon,
         NEW j \in Job, j.kind = "receive", LiveTask(m, j.task),
         NEW n \in Received(m, j)
  PROVE  Holds(n, stored, calls)
<1>. DEFINE s == m.record.state
<1>1. Account(m.record, calls) /\ Sound(s) /\ s.lastNow <= Horizon
  BY DEF Holds, Prepares, Account
<1>2. From(j, calls) /\ "last" \in {"expire", "last"}
  BY DEF From
<1>3. /\ Account(NextCandidate(m), calls) /\ Follows(s, NextCandidate(m).state)
      /\ Made(s, NextCandidate(m).state)
  <2>1. Account(NextCandidate(m), calls) /\ NextCandidate(m).state = s
    BY <1>1, NextCandidateAccount
  <2>2. Follows(s, s)
    BY <1>1, ReachesItself DEF Reaches
  <2>. QED BY <2>1, <2>2 DEF Made
<1>4. Holds(Saving(m, j, "last", NextCandidate(m)), stored, calls)
  BY <1>2, <1>3, SavingHolds
<1>5. Holds(EndTask(m, j.task), stored, calls)
  BY EndTaskHolds
<1>6. ASSUME NEW x, Account([m.record EXCEPT !.state = x.state], calls),
             [m.record EXCEPT !.state = x.state].state = x.state,
             Follows(s, x.state), Made(s, x.state)
      PROVE  Holds(Saving(m, j, "last", [m.record EXCEPT !.state = x.state]), stored, calls)
  <2>. DEFINE next == [m.record EXCEPT !.state = x.state]
  <2>1. Account(next, calls) /\ Follows(s, next.state) /\ Made(s, next.state)
    BY <1>6
  <2>. HIDE DEF next
  <2>2. Holds(Saving(m, j, "last", next), stored, calls)
    BY <1>2, <2>1, SavingHolds
  <2>. QED BY <2>2 DEF next
<1>7. CASE j.task.key = TopicKey
  <2>1. \/ n = Saving(m, j, "last", NextCandidate(m))
        \/ \E x \in Resolutions(m) : n = TopicDecided(m, j, x)
    BY <1>7 DEF Received, TopicReceived
  <2>2. ASSUME NEW x \in Resolutions(m), n = TopicDecided(m, j, x)
        PROVE  Holds(n, stored, calls)
    <3>1. Holds(Saving(m, j, "last", [m.record EXCEPT !.state = x.state]), stored, calls)
      BY <1>1, <1>6, ResolutionsAccount
    <3>2. \/ n = Saving(m, j, "last", [m.record EXCEPT !.state = x.state])
          \/ n = Saving(m, j, "last", NextCandidate(m))
      BY <2>2 DEF TopicDecided
    <3>. QED BY <1>4, <3>1, <3>2
  <2>. QED BY <1>4, <2>1, <2>2
<1>8. CASE j.task.key # TopicKey
  <2>. DEFINE actor == AiPlayer(j.task.key)
  <2>1. PICK t \in m.tasks : t.key = j.task.key /\ t.token = j.task.token
    BY DEF LiveTask
  <2>2. s.phaseToken = j.task.token
    BY DEF LiveTask
  <2>3. s.phase \in Lively
    BY <1>8, <2>1, <2>2 DEF Holds, Assigned
  <2>4. j.task.key \in SeatNo
    BY <1>8, MaxSeatsBound DEF Job, TaskKey, TopicKey, SeatNo
  <2>5. \/ n = EndTask(m, j.task)
        \/ \E c \in AiCommands(s) : \E x :
             /\ x = Transition(s, actor, Envelope(m, j.task.token, c), Now(m))
             /\ n \in {EndTask(m, j.task),
                       Saving(m, j, "last", [m.record EXCEPT !.state = x.state])}
    BY <1>8 DEF Received, AiReceived
  <2>6. ASSUME NEW c \in AiCommands(s), NEW x,
               x = Transition(s, actor, Envelope(m, j.task.token, c), Now(m))
        PROVE  Holds(Saving(m, j, "last", [m.record EXCEPT !.state = x.state]), stored, calls)
    <3>1. c \in PlayerCommand /\ c.type \notin {"join", "ready", "resolve-topic"}
      BY <1>1, <2>3, AiCommandsType
    <3>2. actor.kind = "ai" /\ actor \in {AiPlayer(i) : i \in SeatNo}
      BY <2>4 DEF AiPlayer
    <3>. HIDE DEF actor
    <3>3. WellFormed(actor, c)
      BY <3>1, <3>2 DEF WellFormed
    <3>4. Asks(s, actor, c)
      BY <3>1, <3>2 DEF Asks
    <3>5. x = Transition(s, actor, Envelope(m, s.phaseToken, c), Now(m))
      BY <2>2, <2>6
    <3>6. /\ Account([m.record EXCEPT !.state = x.state], calls)
          /\ [m.record EXCEPT !.state = x.state].state = x.state
          /\ Follows(s, x.state) /\ Made(s, x.state)
      BY <1>1, <3>2, <3>3, <3>4, <3>5, DecidedAccount
    <3>. QED BY <1>6, <3>6
  <2>. QED BY <1>5, <2>5, <2>6
<1>. QED BY <1>7, <1>8

\* The runtime catches up with the deadlines first.
LEMMA CatchUpHolds ==
  ASSUME NEW m, NEW stored, NEW calls, Holds(m, stored, calls), clock \in 0..Horizon,
         NEW j \in Job, From(j, calls), NEW step \in {"expire", "last"}
  PROVE  Holds(Saving(m, j, step, Advanced(m)), stored, calls)
<1>1. Account(m.record, calls)
  BY DEF Holds, Prepares
<1>2. /\ Account(Advanced(m), calls) /\ Follows(m.record.state, Advanced(m).state)
      /\ Made(m.record.state, Advanced(m).state)
  BY <1>1, AdvancedAccount
<1>. QED BY <1>2, SavingHolds

LEMMA EnqueueHolds ==
  ASSUME NEW m, NEW stored, NEW calls, Holds(m, stored, calls), NEW j \in Job, From(j, calls)
  PROVE  Holds(Enqueue(m, j), stored, calls) /\ Holds(Background(m, j), stored, calls)
<1>. DEFINE n == Enqueue(m, j)
<1>1. m.queue \in Seq(Job)
  BY DEF Holds, RuntimeOK
<1>2. /\ Kept(m, n) /\ n.queue = Append(m.queue, j) /\ n.status = m.status
      /\ n.attempts = m.attempts /\ n.taskToken = m.taskToken /\ n.tasks = m.tasks
      /\ n.wake = m.wake /\ n.retries = m.retries
  BY DEF Holds, Enqueue, Kept, Fields
<1>3. n = Enqueue(m, j)
  OBVIOUS
<1>. HIDE DEF n
<1>4. n.queue \in Seq(Job) /\ \A i \in 1..Len(n.queue) : From(n.queue[i], calls)
  <2>1. n.queue \in Seq(Job) /\ Len(n.queue) = Len(m.queue) + 1
    BY <1>1, <1>2
  <2>2. \A i \in 1..Len(n.queue) :
          n.queue[i] = IF i = Len(m.queue) + 1 THEN j ELSE m.queue[i]
    BY <1>1, <1>2
  <2>3. \A i \in 1..Len(n.queue) : i = Len(m.queue) + 1 \/ i \in 1..Len(m.queue)
    BY <1>1, <2>1
  <2>4. \A i \in 1..Len(m.queue) : From(m.queue[i], calls)
    BY DEF Holds, Queued
  <2>. QED BY <2>1, <2>2, <2>3, <2>4
<1>5. RuntimeOK(n) /\ Assigned(n) /\ Queued(n, calls)
  BY <1>2, <1>4 DEF Holds, RuntimeOK, Assigned, Queued, Kept
<1>6. Holds(n, stored, calls)
  BY <1>2, <1>5 DEF Holds, Kept, Prepares
<1>. QED BY <1>3, <1>6 DEF Background

LEMMA SettledHolds ==
  ASSUME NEW m, NEW stored, NEW calls, Holds(m, stored, calls), NEW task \in m.tasks
  PROVE  Holds(Settled(m, task), stored, calls)
<1>. DEFINE n == Settled(m, task)
            done == [task EXCEPT !.settled = TRUE]
<1>1. task \in [key : TaskKey, token : Nat, settled : BOOLEAN]
  BY DEF Holds, RuntimeOK
<1>2. /\ done \in [key : TaskKey, token : Nat, settled : BOOLEAN]
      /\ done.key = task.key /\ done.token = task.token
  BY <1>1
<1>3. /\ Tended(m, n) /\ n.attempts = m.attempts /\ n.taskToken = m.taskToken
      /\ n.tasks = (m.tasks \ {task}) \cup {done} /\ n.wake = m.wake
  BY DEF Holds, Settled, Tended, Kept, Fields
<1>4. n = Settled(m, task)
  OBVIOUS
<1>. HIDE DEF n, done
<1>5. RuntimeOK(n)
  BY <1>2, <1>3 DEF Holds, RuntimeOK, Tended, Kept
<1>6. Assigned(n)
  BY <1>2, <1>3 DEF Holds, Assigned, Tended, Kept
<1>. QED BY <1>3, <1>4, <1>5, <1>6, TendedHolds

-----------------------------------------------------------------------------
(* The second invariant is kept                                            *)

LEMMA OneHolder ==
  ASSUME SafeRoom, SoundRoom, NEW r \in Runtimes, NEW n,
         n = Down \/ Holds(n, store, sent),
         mem' = [mem EXCEPT ![r] = n], store' = store, sent' = sent,
         clock' \in 0..Horizon, seen' \in Nat, seen' <= store.state.revision
  PROVE  SoundRoom'
<1>1. ASSUME NEW q \in Runtimes
      PROVE  mem'[q] = Down \/ Holds(mem'[q], store, sent)
  <2>1. CASE q = r
    BY <2>1 DEF SafeRoom
  <2>2. CASE q # r
    BY <2>2 DEF SafeRoom, SoundRoom
  <2>. QED BY <2>1, <2>2
<1>. QED BY <1>1 DEF SoundRoom

LEMMA AliveHolds ==
  ASSUME SoundRoom, NEW r \in Runtimes, Alive(r)
  PROVE  /\ Holds(mem[r], store, sent) /\ clock \in 0..Horizon
         /\ seen \in Nat /\ seen <= store.state.revision
  BY DEF SoundRoom, Alive, Down

LEMMA PoppedHolds ==
  ASSUME SoundRoom, NEW r \in Runtimes, Alive(r), mem[r].queue # <<>>
  PROVE  /\ Holds(Popped(r), store, sent) /\ Head(mem[r].queue) \in Job
         /\ From(Head(mem[r].queue), sent)
<1>. DEFINE m == mem[r]
            n == [m EXCEPT !.queue = Tail(@)]
<1>1. Holds(m, store, sent)
  BY AliveHolds
<1>2. m.queue \in Seq(Job)
  BY <1>1 DEF Holds, RuntimeOK
<1>3. /\ Kept(m, n) /\ n.queue = Tail(m.queue) /\ n.status = m.status
      /\ n.attempts = m.attempts /\ n.taskToken = m.taskToken /\ n.tasks = m.tasks
      /\ n.wake = m.wake /\ n.retries = m.retries
  BY <1>1 DEF Holds, Kept, Fields
<1>4. n = Popped(r) /\ m.queue # <<>>
  BY DEF Popped
<1>. HIDE DEF n, m
<1>5. /\ Head(m.queue) \in Job /\ Head(m.queue) = m.queue[1] /\ 1 \in 1..Len(m.queue)
      /\ Tail(m.queue) \in Seq(Job) /\ Len(Tail(m.queue)) = Len(m.queue) - 1
      /\ \A i \in 1..Len(Tail(m.queue)) :
           Tail(m.queue)[i] = m.queue[i + 1] /\ i + 1 \in 1..Len(m.queue)
  BY <1>2, <1>4
<1>6. \A i \in 1..Len(m.queue) : From(m.queue[i], sent)
  BY <1>1 DEF Holds, Queued
<1>7. RuntimeOK(n)
  BY <1>1, <1>3, <1>5 DEF Holds, RuntimeOK, Kept
<1>8. Queued(n, sent)
  BY <1>1, <1>3, <1>5, <1>6 DEF Holds, Queued
<1>9. Assigned(n)
  BY <1>1, <1>3 DEF Holds, Assigned, Kept
<1>10. Holds(n, store, sent)
  BY <1>1, <1>3, <1>7, <1>8, <1>9 DEF Holds, Kept, Prepares
<1>. QED BY <1>4, <1>5, <1>6, <1>10 DEF m

LEMMA RunDispatchHolds ==
  ASSUME SafeRoom, SoundRoom, NEW r \in Runtimes, RunDispatch(r)
  PROVE  SoundRoom'
<1>. DEFINE m == Popped(r)
            j == Head(mem[r].queue)
            p == j.participant
            q == j.request
            next == Dispatched(m, p, q)
<1>1. /\ Holds(m, store, sent) /\ j \in Job /\ From(j, sent) /\ j.kind = "dispatch"
      /\ Safe(m, store) /\ clock \in 0..Horizon /\ seen \in Nat /\ seen <= store.state.revision
  BY PoppedSafe, PoppedHolds, AliveHolds DEF RunDispatch, Front
<1>2. /\ store' = store /\ sent' = sent /\ clock' = clock /\ seen' = seen
      /\ \/ mem' = [mem EXCEPT ![r] = m]
         \/ /\ Previous(m.record, p, q.commandId) = {}
            /\ mem' = [mem EXCEPT ![r] = Saving(m, j, "last", next)]
  BY DEF RunDispatch
<1>3. p \in Participants /\ q \in Request /\ [participant |-> p, request |-> q] \in sent
  BY <1>1 DEF Job, From
<1>4. /\ IsFiniteSet(sent) /\ Cardinality(sent) <= MaxRequests
      /\ q.phaseToken <= store.state.phaseToken
  <2>. DEFINE pq == [participant |-> p, request |-> q]
  <2>1. pq \in sent /\ pq.request = q
    BY <1>3
  <2>. HIDE DEF pq, q
  <2>. QED BY <2>1 DEF SoundRoom
<1>5. Account(m.record, sent) /\ Once(m.record.receipts)
  BY <1>1 DEF Holds, Prepares, Safe, Draft
<1>6. m.record.version = store.version => m.record = store
  BY <1>1 DEF Safe, Behind
<1>. HIDE DEF m, j
<1>7. ASSUME Previous(m.record, p, q.commandId) = {}
      PROVE  Holds(Saving(m, j, "last", next), store, sent)
  <2>. HIDE DEF p, q
  <2>1. /\ Account(next, sent) /\ Follows(m.record.state, next.state)
        /\ q.phaseToken <= m.record.state.phaseToken => Made(m.record.state, next.state)
    BY <1>1, <1>3, <1>4, <1>5, <1>7, DispatchedAccount
  <2>2. m.record.version = store.version => Made(m.record.state, next.state)
    BY <1>4, <1>6, <2>1
  <2>. HIDE DEF next
  <2>. QED BY <1>1, <2>1, <2>2, SavingHolds
<1>. HIDE DEF p, q, next
<1>. QED BY <1>1, <1>2, <1>7, OneHolder

LEMMA RunCatchUpHolds ==
  ASSUME SafeRoom, SoundRoom, NEW r \in Runtimes, RunSync(r) \/ RunExpire(r) \/ RunOpen(r)
  PROVE  SoundRoom'
<1>. DEFINE m == Popped(r)
            j == Head(mem[r].queue)
            opened == [m EXCEPT !.status = "open"]
<1>1. /\ Holds(m, store, sent) /\ j \in Job /\ From(j, sent)
      /\ clock \in 0..Horizon /\ seen \in Nat /\ seen <= store.state.revision
  BY PoppedHolds, AliveHolds DEF RunSync, RunExpire, RunOpen, Front
<1>2. /\ store' = store /\ sent' = sent /\ clock' = clock
      /\ seen' \in {seen, Newest(seen, m.record.state.revision)}
      /\ \E n \in {m, Saving(m, j, "last", Advanced(m)), Reconcile(opened)} :
            mem' = [mem EXCEPT ![r] = n]
  BY DEF RunSync, RunExpire, RunOpen
<1>. HIDE DEF m, j
<1>3. Holds(Saving(m, j, "last", Advanced(m)), store, sent)
  BY <1>1, CatchUpHolds
<1>4. Holds(opened, store, sent)
  <2>1. /\ Kept(m, opened) /\ opened.queue = m.queue /\ opened.status = "open"
        /\ opened.attempts = m.attempts /\ opened.taskToken = m.taskToken
        /\ opened.tasks = m.tasks /\ opened.wake = m.wake /\ opened.retries = m.retries
    BY <1>1 DEF Holds, Kept, Fields
  <2>. HIDE DEF opened
  <2>. QED BY <1>1, <2>1, TrimmedHolds
<1>5. Holds(Reconcile(opened), store, sent)
  BY <1>4, ReconciledHolds
<1>6. seen' \in Nat /\ seen' <= store.state.revision
  <2>1. /\ m.record.state.revision \in Nat /\ m.record.state.revision <= store.state.revision
    BY <1>1, AccountFacts DEF Holds, Prepares
  <2>. QED BY <1>1, <1>2, <2>1 DEF Newest
<1>. QED BY <1>1, <1>2, <1>3, <1>5, <1>6, OneHolder

LEMMA RunReceiveHolds ==
  ASSUME SafeRoom, SoundRoom, NEW r \in Runtimes, RunReceive(r)
  PROVE  SoundRoom'
<1>. DEFINE m == Popped(r)
            j == Head(mem[r].queue)
<1>1. /\ Holds(m, store, sent) /\ j \in Job /\ From(j, sent) /\ j.kind = "receive"
      /\ clock \in 0..Horizon /\ seen \in Nat /\ seen <= store.state.revision
  BY PoppedHolds, AliveHolds DEF RunReceive, Front
<1>2. /\ store' = store /\ sent' = sent /\ clock' = clock /\ seen' = seen
      /\ \/ \E n \in {m, Saving(m, j, "expire", Advanced(m))} : mem' = [mem EXCEPT ![r] = n]
         \/ LiveTask(m, j.task) /\ \E n \in Received(m, j) : mem' = [mem EXCEPT ![r] = n]
  BY DEF RunReceive
<1>. HIDE DEF m, j
<1>3. Holds(Saving(m, j, "expire", Advanced(m)), store, sent)
  BY <1>1, CatchUpHolds
<1>4. LiveTask(m, j.task) => \A n \in Received(m, j) : Holds(n, store, sent)
  BY <1>1, ReceivedHolds
<1>. QED BY <1>1, <1>2, <1>3, <1>4, OneHolder

LEMMA RunCloseHolds ==
  ASSUME SafeRoom, SoundRoom, NEW r \in Runtimes, RunClose(r) \/ RunCloseIfLobby(r)
  PROVE  SoundRoom'
<1>1. /\ Holds(mem[r], store, sent) /\ Holds(Popped(r), store, sent)
      /\ clock \in 0..Horizon /\ seen \in Nat /\ seen <= store.state.revision
  BY PoppedHolds, AliveHolds DEF RunClose, RunCloseIfLobby, Front
<1>2. Holds(Stop(mem[r]), store, sent) /\ Holds(Stop(Popped(r)), store, sent)
  BY <1>1, StopHolds
<1>3. /\ store' = store /\ sent' = sent /\ clock' = clock /\ seen' = seen
      /\ \E n \in {Popped(r), Stop(mem[r]), Stop(Popped(r))} : mem' = [mem EXCEPT ![r] = n]
  BY DEF RunClose, RunCloseIfLobby
<1>. QED BY <1>1, <1>2, <1>3, OneHolder

LEMMA JobFacts ==
  ASSUME NEW m, NEW stored, NEW calls, Holds(m, stored, calls), m.job.stage # "idle"
  PROVE  /\ m.job.of \in Job /\ From(m.job.of, calls) /\ m.job.step \in {"expire", "last"}
         /\ m.job.next \in Record /\ Account(m.job.next, calls)
         /\ Follows(m.record.state, m.job.next.state)
<1>1. m.job # Idle
  BY DEF Idle
<1>. QED BY <1>1 DEF Holds, RuntimeOK, Prepares

LEMMA SaveFailsHolds ==
  ASSUME SafeRoom, SoundRoom, NEW r \in Runtimes, SaveFails(r) \/ Conflict(r)
  PROVE  SoundRoom'
<1>. DEFINE m == [mem[r] EXCEPT !.job = Idle]
            j == mem[r].job.of
            retried == [m EXCEPT !.retries = @ \cup {j}]
<1>1. /\ Holds(mem[r], store, sent) /\ mem[r].job.stage # "idle"
      /\ clock \in 0..Horizon /\ seen \in Nat /\ seen <= store.state.revision
  BY AliveHolds DEF SaveFails, Conflict, At
<1>2. Holds(Stop(mem[r]), store, sent)
  BY <1>1, StopHolds
<1>3. Holds(m, store, sent)
  BY <1>1, IdleHolds
<1>4. j \in Job
  BY <1>1, JobFacts
<1>5. /\ store' = store /\ sent' = sent /\ clock' = clock /\ seen' = seen
      /\ \/ \E n \in {Down, Stop(mem[r]), m} : mem' = [mem EXCEPT ![r] = n]
         \/ j.kind \in {"expire", "receive"} /\ mem' = [mem EXCEPT ![r] = retried]
  BY DEF SaveFails, Conflict
<1>. HIDE DEF m, j
<1>6. ASSUME j.kind \in {"expire", "receive"}
      PROVE  Holds(retried, store, sent)
  <2>1. /\ Kept(m, retried) /\ retried.queue = m.queue /\ retried.status = m.status
        /\ retried.attempts = m.attempts /\ retried.taskToken = m.taskToken
        /\ retried.tasks = m.tasks /\ retried.wake = m.wake
        /\ retried.retries = m.retries \cup {j}
    BY <1>3 DEF Holds, Kept, Fields
  <2>. HIDE DEF retried
  <2>2. RuntimeOK(retried)
    BY <1>3, <1>4, <2>1 DEF Holds, RuntimeOK, Kept
  <2>3. Queued(retried, sent)
    BY <1>3, <1>6, <2>1 DEF Holds, Queued
  <2>4. Assigned(retried)
    BY <1>3, <2>1 DEF Holds, Assigned, Kept
  <2>. QED BY <1>3, <2>1, <2>2, <2>3, <2>4 DEF Holds, Kept, Prepares
<1>. HIDE DEF retried
<1>. QED BY <1>1, <1>2, <1>3, <1>5, <1>6, OneHolder

(***************************************************************************)
(* The step that writes: the runtime's record is the stored one, so that   *)
(* the stored state makes a step of Game; no other runtime is about to     *)
(* save on top of the new version.                                         *)
(***************************************************************************)
LEMMA SaveSteps ==
  ASSUME SafeRoom, SoundRoom, NEW r \in Runtimes, Save(r)
  PROVE  /\ store' = mem[r].job.next /\ Account(store', sent)
         /\ store'.version = store.version + 1 /\ store.version \in Nat
         /\ Follows(store.state, store'.state) /\ Made(store.state, store'.state)
<1>1. /\ Safe(mem[r], store) /\ Holds(mem[r], store, sent) /\ mem[r].job.stage = "saving"
  BY AliveSafe, AliveHolds DEF Save, At
<1>2. mem[r].record = store
  BY <1>1 DEF Save, Safe, Behind
<1>3. store' = mem[r].job.next
  BY DEF Save
<1>4. /\ Account(mem[r].job.next, sent) /\ Follows(mem[r].record.state, mem[r].job.next.state)
  BY <1>1, JobFacts
<1>5. Made(mem[r].record.state, mem[r].job.next.state)
  BY <1>1, <1>2 DEF Holds, Prepares
<1>6. mem[r].job.next.version = store.version + 1 /\ store.version \in Nat
  BY <1>1, <1>2 DEF Safe, SafeRoom
<1>. QED BY <1>2, <1>3, <1>4, <1>5, <1>6

LEMMA SaveHolds ==
  ASSUME SafeRoom, SoundRoom, NEW r \in Runtimes, Save(r)
  PROVE  SoundRoom'
<1>. DEFINE next == mem[r].job.next
            saved == [mem[r].job EXCEPT !.stage = "saved"]
            n == [mem[r] EXCEPT !.job = saved]
<1>1. /\ Holds(mem[r], store, sent) /\ mem[r].job.stage = "saving"
      /\ Safe(mem[r], store)
  BY AliveSafe, AliveHolds DEF Save, At
<1>2. /\ store' = next /\ sent' = sent /\ clock' = clock /\ seen' = seen
      /\ mem' = [mem EXCEPT ![r] = n]
  BY DEF Save
<1>3. /\ Account(next, sent) /\ next.version = store.version + 1 /\ store.version \in Nat
      /\ Follows(store.state, next.state)
  BY <1>2, SaveSteps
<1>4. /\ next.state.revision >= store.state.revision
      /\ next.state.phaseToken >= store.state.phaseToken
      /\ next.state.revision \in Nat /\ store.state.revision \in Nat
      /\ next.state.phaseToken \in Nat /\ store.state.phaseToken \in Nat
  BY <1>3, AccountFacts DEF Follows, SoundRoom
<1>5. ASSUME NEW m, Safe(m, store), Holds(m, store, sent)
      PROVE  /\ m.record.state.revision <= next.state.revision
             /\ m.job.stage = "saved" => m.job.next.state.revision <= next.state.revision
             /\ m.record.version # next.version
  <2>1. /\ m.record.state.revision \in Nat /\ m.record.state.revision <= store.state.revision
        /\ m.record.version \in Nat /\ m.record.version <= store.version
    BY <1>5, AccountFacts DEF Holds, Prepares, Safe, Behind
  <2>2. m.job.stage = "saved" => /\ m.job.next.state.revision \in Nat
                                 /\ m.job.next.state.revision <= store.state.revision
    BY <1>5, JobFacts, AccountFacts DEF Holds, Prepares
  <2>. QED BY <1>3, <1>4, <2>1, <2>2
<1>6. ASSUME NEW m, Safe(m, store), Holds(m, store, sent)
      PROVE  Holds(m, next, sent)
  BY <1>5, <1>6 DEF Holds, Prepares
<1>7. Holds(n, next, sent)
  <2>1. /\ mem[r].job.of \in Job /\ From(mem[r].job.of, sent)
        /\ mem[r].job.step \in {"expire", "last"} /\ next \in Record
        /\ Follows(mem[r].record.state, next.state)
    BY <1>1, JobFacts
  <2>2. /\ DOMAIN n = Fields /\ n.record = mem[r].record /\ n.job = saved
        /\ n.queue = mem[r].queue /\ n.status = mem[r].status
        /\ n.attempts = mem[r].attempts /\ n.taskToken = mem[r].taskToken
        /\ n.tasks = mem[r].tasks /\ n.wake = mem[r].wake /\ n.retries = mem[r].retries
    BY <1>1 DEF Holds, Fields
  <2>3. /\ saved.stage = "saved" /\ saved.of = mem[r].job.of /\ saved.step = mem[r].job.step
        /\ saved.next = next
    BY <1>1 DEF Safe
  <2>4. mem[r].record.state.revision <= next.state.revision
    BY <1>1, <1>5
  <2>. HIDE DEF n, saved, next
  <2>5. RuntimeOK(n)
    BY <1>1, <2>1, <2>2, <2>3 DEF Holds, RuntimeOK
  <2>6. Assigned(n) /\ Queued(n, sent)
    BY <1>1, <2>2 DEF Holds, Assigned, Queued
  <2>7. next.state.revision <= next.state.revision
    BY <1>4
  <2>8. Prepares(n, next, sent)
    BY <1>1, <1>3, <2>1, <2>2, <2>3, <2>4, <2>7 DEF Holds, Prepares
  <2>. QED BY <2>2, <2>5, <2>6, <2>8 DEF Holds
<1>. HIDE DEF next, saved, n
<1>8. ASSUME NEW q \in Runtimes
      PROVE  mem'[q] = Down \/ Holds(mem'[q], next, sent)
  <2>1. CASE q = r
    BY <1>2, <1>7, <2>1 DEF SafeRoom
  <2>2. CASE q # r
    <3>1. mem'[q] = mem[q]
      BY <1>2, <2>2 DEF SafeRoom
    <3>2. mem[q] = Down \/ (Safe(mem[q], store) /\ Holds(mem[q], store, sent))
      BY DEF SafeRoom, SoundRoom
    <3>. QED BY <1>6, <3>1, <3>2
  <2>. QED BY <2>1, <2>2
<1>9. seen' \in Nat /\ seen' <= next.state.revision
  BY <1>2, <1>4 DEF SoundRoom
<1>10. \A x \in sent : x.request.phaseToken <= next.state.phaseToken
  <2>. SUFFICES ASSUME NEW x \in sent PROVE x.request.phaseToken <= next.state.phaseToken
    OBVIOUS
  <2>1. x.request.phaseToken \in Nat /\ x.request.phaseToken <= store.state.phaseToken
    BY DEF SoundRoom, Request
  <2>. QED BY <1>4, <2>1
<1>. QED BY <1>2, <1>3, <1>8, <1>9, <1>10 DEF SoundRoom

\* The record changes under the tasks: those of an older window are not of the new one.
LEMMA TakenHolds ==
  ASSUME NEW m, NEW stored, NEW calls, Holds(m, stored, calls), m.job.stage = "saved"
  PROVE  Holds([m EXCEPT !.record = m.job.next, !.job = Idle], stored, calls)
<1>. DEFINE next == m.job.next
            n == [m EXCEPT !.record = next, !.job = Idle]
<1>1. /\ next \in Record /\ Account(next, calls) /\ Follows(m.record.state, next.state)
  BY JobFacts
<1>2. next.state.revision <= stored.state.revision
  BY DEF Holds, Prepares
<1>3. /\ DOMAIN n = Fields /\ n.record = next /\ n.job = Idle /\ n.queue = m.queue
      /\ n.status = m.status /\ n.attempts = m.attempts /\ n.taskToken = m.taskToken
      /\ n.tasks = m.tasks /\ n.wake = m.wake /\ n.retries = m.retries
  BY DEF Holds, Fields
<1>. HIDE DEF next
<1>4. /\ m.record.state.phaseToken \in Nat /\ next.state.phaseToken \in Nat
      /\ m.taskToken \in Nat \cup {-1} /\ m.taskToken <= m.record.state.phaseToken
  BY <1>1, AccountFacts DEF Holds, Prepares, RuntimeOK, Assigned
<1>5. \/ next.state.phaseToken > m.record.state.phaseToken
      \/ /\ next.state.phaseToken = m.record.state.phaseToken
         /\ next.state.phase = m.record.state.phase
  BY <1>1 DEF Follows, SameWindow
<1>. HIDE DEF n
<1>6. Assigned(n)
  <2>1. n.taskToken <= n.record.state.phaseToken
    BY <1>3, <1>4, <1>5
  <2>2. ASSUME NEW t \in n.tasks
        PROVE  /\ t.token = n.taskToken
               /\ t.token = n.record.state.phaseToken /\ t.key # TopicKey =>
                    n.record.state.phase \in Lively
    BY <1>3, <1>4, <1>5 DEF Holds, Assigned
  <2>. QED BY <2>1, <2>2 DEF Assigned
<1>7. RuntimeOK(n) /\ Queued(n, calls)
  BY <1>1, <1>3 DEF Holds, RuntimeOK, Queued
<1>8. Prepares(n, stored, calls)
  BY <1>1, <1>2, <1>3 DEF Prepares, Idle
<1>. QED BY <1>3, <1>6, <1>7, <1>8 DEF Holds, n, next

LEMMA OpenedHolds ==
  ASSUME NEW m, NEW stored, NEW calls, Holds(m, stored, calls)
  PROVE  Holds([m EXCEPT !.status = "open"], stored, calls)
<1>. DEFINE n == [m EXCEPT !.status = "open"]
<1>1. /\ Kept(m, n) /\ n.queue = m.queue /\ n.status = "open"
      /\ n.attempts = m.attempts /\ n.taskToken = m.taskToken
      /\ n.tasks = m.tasks /\ n.wake = m.wake /\ n.retries = m.retries
  BY DEF Holds, Kept, Fields
<1>. HIDE DEF n
<1>2. Holds(n, stored, calls)
  BY <1>1, TrimmedHolds
<1>. QED BY <1>2 DEF n

LEMMA ResumeHolds ==
  ASSUME SafeRoom, SoundRoom, NEW r \in Runtimes, Resume(r)
  PROVE  SoundRoom'
<1>. DEFINE j == mem[r].job.of
            next == mem[r].job.next
            taken == [mem[r] EXCEPT !.record = next, !.job = Idle]
            m == Reconcile(taken)
            opened == [m EXCEPT !.status = "open"]
<1>1. /\ Holds(mem[r], store, sent) /\ mem[r].job.stage = "saved" /\ j \in Job
      /\ clock \in 0..Horizon /\ seen \in Nat /\ seen <= store.state.revision
      /\ next.state.revision \in Nat /\ next.state.revision <= store.state.revision
  <2>1. /\ Holds(mem[r], store, sent) /\ mem[r].job.stage = "saved"
        /\ clock \in 0..Horizon /\ seen \in Nat /\ seen <= store.state.revision
    BY AliveHolds DEF Resume, At
  <2>2. j \in Job /\ Account(next, sent)
    BY <2>1, JobFacts
  <2>3. next.state.revision <= store.state.revision
    BY <2>1 DEF Holds, Prepares
  <2>. QED BY <2>1, <2>2, <2>3, AccountFacts
<1>2. Holds(taken, store, sent)
  BY <1>1, TakenHolds
<1>. HIDE DEF taken
<1>3. Holds(m, store, sent)
  BY <1>2, ReconciledHolds
<1>. HIDE DEF m
<1>4. Holds(opened, store, sent) /\ Holds(EndTask(m, j.task), store, sent)
  BY <1>3, OpenedHolds, EndTaskHolds
<1>5. /\ store' = store /\ sent' = sent /\ clock' = clock
      /\ seen' \in {seen, Newest(seen, next.state.revision)}
      /\ \/ \E n \in {m, opened, EndTask(m, j.task)} : mem' = [mem EXCEPT ![r] = n]
         \/ /\ j.kind = "receive" /\ LiveTask(m, j.task)
            /\ \E n \in Received(m, j) : mem' = [mem EXCEPT ![r] = n]
  BY DEF Resume, m, taken, opened, next, j
<1>. HIDE DEF opened, next, j
<1>6. j.kind = "receive" /\ LiveTask(m, j.task) =>
        \A n \in Received(m, j) : Holds(n, store, sent)
  BY <1>1, <1>3, ReceivedHolds
<1>7. seen' \in Nat /\ seen' <= store.state.revision
  BY <1>1, <1>5 DEF Newest
<1>. QED BY <1>1, <1>3, <1>4, <1>5, <1>6, <1>7, OneHolder

LEMMA CallHolds ==
  ASSUME SafeRoom, SoundRoom, NEW r \in Runtimes,
         Dispatch(r) \/ Sync(r) \/ Close(r) \/ CloseIfLobby(r)
  PROVE  SoundRoom'
<1>1. /\ Holds(mem[r], store, sent)
      /\ clock \in 0..Horizon /\ seen \in Nat /\ seen <= store.state.revision
  <2>1. Alive(r)
    BY DEF Dispatch, Sync, Close, CloseIfLobby, Callable, Alive
  <2>. QED BY <2>1, AliveHolds
<1>2. store' = store /\ sent' = sent /\ clock' = clock /\ seen' = seen
  BY DEF Dispatch, Sync, Close, CloseIfLobby
<1>3. CASE Dispatch(r)
  <2>1. PICK x \in sent :
          mem' = [mem EXCEPT ![r] = Enqueue(mem[r], [kind |-> "dispatch", request |-> x.request,
                                                     participant |-> x.participant])]
    BY <1>3 DEF Dispatch
  <2>. DEFINE j == [kind |-> "dispatch", request |-> x.request, participant |-> x.participant]
  <2>2. x \in [participant : Participants, request : Request]
    BY DEF SoundRoom
  <2>3. j \in Job /\ From(j, sent)
    BY <2>2 DEF Job, From
  <2>4. mem' = [mem EXCEPT ![r] = Enqueue(mem[r], j)]
    BY <2>1
  <2>. HIDE DEF j
  <2>. QED BY <1>1, <1>2, <2>3, <2>4, EnqueueHolds, OneHolder
<1>4. CASE Sync(r) \/ CloseIfLobby(r)
  <2>1. \E kind \in {"sync", "closeIfLobby"} :
          mem' = [mem EXCEPT ![r] = Enqueue(mem[r], [kind |-> kind])]
    BY <1>4 DEF Sync, CloseIfLobby
  <2>2. \A kind \in {"sync", "closeIfLobby"} : [kind |-> kind] \in Job /\ From([kind |-> kind], sent)
    BY DEF Job, From
  <2>. QED BY <1>1, <1>2, <2>1, <2>2, EnqueueHolds, OneHolder
<1>5. CASE Close(r)
  <2>. DEFINE m == [mem[r] EXCEPT !.status = "closing"]
              j == [kind |-> "close"]
  <2>1. mem' = [mem EXCEPT ![r] = Enqueue(m, j)]
    BY <1>5 DEF Close
  <2>2. /\ Kept(mem[r], m) /\ m.queue = mem[r].queue /\ m.status = "closing"
        /\ m.attempts = mem[r].attempts /\ m.taskToken = mem[r].taskToken
        /\ m.tasks = mem[r].tasks /\ m.wake = mem[r].wake /\ m.retries = mem[r].retries
    BY <1>1 DEF Holds, Kept, Fields
  <2>3. j \in Job /\ From(j, sent)
    BY DEF Job, From
  <2>. HIDE DEF m, j
  <2>4. Holds(m, store, sent)
    BY <1>1, <2>2, TrimmedHolds
  <2>. QED BY <1>1, <1>2, <2>1, <2>3, <2>4, EnqueueHolds, OneHolder
<1>. QED BY <1>3, <1>4, <1>5

LEMMA TimerHolds ==
  ASSUME SafeRoom, SoundRoom, NEW r \in Runtimes, TaskEnds(r) \/ Wake(r) \/ Retry(r)
  PROVE  SoundRoom'
<1>1. /\ Holds(mem[r], store, sent)
      /\ clock \in 0..Horizon /\ seen \in Nat /\ seen <= store.state.revision
  BY AliveHolds DEF TaskEnds, Wake, Retry
<1>2. store' = store /\ sent' = sent /\ clock' = clock /\ seen' = seen
  BY DEF TaskEnds, Wake, Retry
<1>3. CASE TaskEnds(r)
  <2>1. PICK task \in mem[r].tasks, outcome \in {"answered", "failed"} :
          mem' = [mem EXCEPT ![r] = Background(Settled(mem[r], task),
                   [kind |-> "receive", outcome |-> outcome,
                    task |-> [key |-> task.key, token |-> task.token]])]
    BY <1>3 DEF TaskEnds
  <2>. DEFINE j == [kind |-> "receive", outcome |-> outcome,
                    task |-> [key |-> task.key, token |-> task.token]]
              m == Settled(mem[r], task)
  <2>2. task \in [key : TaskKey, token : Nat, settled : BOOLEAN]
    BY <1>1 DEF Holds, RuntimeOK
  <2>3. j \in Job /\ From(j, sent)
    BY <2>2 DEF Job, From
  <2>4. Holds(m, store, sent)
    BY <1>1, SettledHolds
  <2>5. mem' = [mem EXCEPT ![r] = Background(m, j)]
    BY <2>1
  <2>. HIDE DEF j, m
  <2>. QED BY <1>1, <1>2, <2>3, <2>4, <2>5, EnqueueHolds, OneHolder
<1>4. CASE Wake(r)
  <2>. DEFINE m == [mem[r] EXCEPT !.wake = NoTime]
              j == [kind |-> "expire"]
  <2>1. \E n \in {Reconcile(m), Background(m, j)} : mem' = [mem EXCEPT ![r] = n]
    BY <1>4 DEF Wake
  <2>2. /\ Kept(mem[r], m) /\ m.queue = mem[r].queue /\ m.status = mem[r].status
        /\ m.attempts = mem[r].attempts /\ m.taskToken = mem[r].taskToken
        /\ m.tasks = mem[r].tasks /\ m.wake = NoTime /\ m.retries = mem[r].retries
    BY <1>1 DEF Holds, Kept, Fields
  <2>3. j \in Job /\ From(j, sent)
    BY DEF Job, From
  <2>. HIDE DEF m, j
  <2>4. Holds(m, store, sent)
    BY <1>1, <2>2, TrimmedHolds
  <2>5. Holds(Reconcile(m), store, sent) /\ Holds(Background(m, j), store, sent)
    BY <2>3, <2>4, ReconciledHolds, EnqueueHolds
  <2>. QED BY <1>1, <1>2, <2>1, <2>5, OneHolder
<1>5. CASE Retry(r)
  <2>1. PICK j \in mem[r].retries :
          mem' = [mem EXCEPT ![r] = Background([mem[r] EXCEPT !.retries = @ \ {j}], j)]
    BY <1>5 DEF Retry
  <2>. DEFINE m == [mem[r] EXCEPT !.retries = @ \ {j}]
  <2>2. /\ Kept(mem[r], m) /\ m.queue = mem[r].queue /\ m.status = mem[r].status
        /\ m.attempts = mem[r].attempts /\ m.taskToken = mem[r].taskToken
        /\ m.tasks = mem[r].tasks /\ m.wake = mem[r].wake
        /\ m.retries = mem[r].retries \ {j}
    BY <1>1 DEF Holds, Kept, Fields
  <2>3. mem' = [mem EXCEPT ![r] = Background(m, j)]
    BY <2>1
  <2>. HIDE DEF m
  <2>4. j \in Job /\ From(j, sent)
    BY <1>1 DEF Holds, RuntimeOK, Queued, From
  <2>5. Holds(m, store, sent)
    BY <1>1, <2>2, TrimmedHolds
  <2>. QED BY <1>1, <1>2, <2>3, <2>4, <2>5, EnqueueHolds, OneHolder
<1>. QED BY <1>3, <1>4, <1>5

LEMMA ProcessHolds ==
  ASSUME SafeRoom, SoundRoom, NEW r \in Runtimes, Open(r) \/ Crash(r) \/ Exit(r)
  PROVE  SoundRoom'
<1>. DEFINE n == Opened
<1>1. /\ n.status = "opening" /\ n.record = store /\ n.job = Idle
      /\ n.queue = <<[kind |-> "open"]>> /\ n.tasks = {} /\ n.attempts = {}
      /\ n.taskToken = -1 /\ n.wake = NoTime /\ n.retries = {} /\ DOMAIN n = Fields
  BY DEF Opened, Fields
<1>2. /\ Account(store, sent) /\ store \in Record /\ store.state.phaseToken \in Nat
      /\ store.state.revision \in Nat
  BY AccountFacts DEF SoundRoom
<1>. HIDE DEF n
<1>3. [kind |-> "open"] \in Job /\ From([kind |-> "open"], sent)
  BY DEF Job, From
<1>4. n.queue \in Seq(Job) /\ \A i \in 1..Len(n.queue) : From(n.queue[i], sent)
  BY <1>1, <1>3
<1>5. RuntimeOK(n)
  BY <1>1, <1>2, <1>4 DEF RuntimeOK
<1>6. Assigned(n) /\ Queued(n, sent)
  BY <1>1, <1>2, <1>4 DEF Assigned, Queued
<1>7. Prepares(n, store, sent)
  BY <1>1, <1>2 DEF Prepares, Idle
<1>8. Holds(n, store, sent)
  BY <1>1, <1>5, <1>6, <1>7 DEF Holds
<1>9. /\ store' = store /\ sent' = sent /\ seen' = seen
      /\ \E x \in {Down, n} : mem' = [mem EXCEPT ![r] = x]
  BY DEF Open, Crash, Exit, n
<1>10. clock' \in 0..Horizon
  <2>1. clock \in 0..Horizon
    BY DEF SoundRoom
  <2>2. CASE Open(r) \/ Exit(r)
    BY <2>1, <2>2 DEF Open, Exit
  <2>3. CASE Crash(r)
    <3>1. clock' \in Nat /\ (clock' \in {clock} \/ clock' \in (clock - SetBack)..clock)
      BY <2>3 DEF Crash
    <3>. QED BY <2>1, <3>1, RoomBoundsAssumption
  <2>. QED BY <2>2, <2>3
<1>11. seen \in Nat /\ seen <= store.state.revision
  BY DEF SoundRoom
<1>. QED BY <1>8, <1>9, <1>10, <1>11, OneHolder

LEMMA MoreHolds ==
  ASSUME NEW m, NEW stored, NEW calls, Holds(m, stored, calls), NEW more, calls \subseteq more
  PROVE  Holds(m, stored, more)
<1>1. \A x : Account(x, calls) => Account(x, more)
  BY DEF Account
<1>2. \A j : From(j, calls) => From(j, more)
  BY DEF From
<1>3. Queued(m, more)
  BY <1>2 DEF Holds, Queued
<1>4. Prepares(m, stored, more)
  BY <1>1, <1>2 DEF Holds, Prepares
<1>. QED BY <1>3, <1>4 DEF Holds

LEMMA SendHolds ==
  ASSUME SoundRoom, Send
  PROVE  SoundRoom'
<1>1. PICK x \in Calls :
        sent' = sent \cup {[participant |-> x.participant,
                  request |-> [commandId |-> x.commandId, command |-> x.command,
                               phaseToken |-> store.state.phaseToken]]}
  BY DEF Send
<1>. DEFINE new == [participant |-> x.participant,
                    request |-> [commandId |-> x.commandId, command |-> x.command,
                                 phaseToken |-> store.state.phaseToken]]
<1>2. store.state.phaseToken \in Nat /\ Account(store, sent)
  BY AccountFacts DEF SoundRoom
<1>3. x \in [participant : Participants, commandId : CommandIds, command : PlayerCommand]
  BY RoomBoundsAssumption
<1>4. /\ new \in [participant : Participants, request : Request]
      /\ new.request.phaseToken = store.state.phaseToken
  BY <1>2, <1>3 DEF Request
<1>5. sent' = sent \cup {new}
  BY <1>1
<1>. HIDE DEF new
<1>6. IsFiniteSet(sent') /\ Cardinality(sent') <= MaxRequests
  <2>1. /\ IsFiniteSet(sent) /\ Cardinality(sent) \in Nat /\ Cardinality(sent) < MaxRequests
    BY FS_CardinalityType DEF Send, SoundRoom
  <2>2. /\ IsFiniteSet(sent \cup {new})
        /\ Cardinality(sent \cup {new}) \in {Cardinality(sent), Cardinality(sent) + 1}
    BY <2>1, FS_AddElement
  <2>. QED BY <1>5, <2>1, <2>2, RoomBoundsAssumption
<1>7. /\ store' = store /\ mem' = mem /\ clock' = clock /\ seen' = seen
      /\ sent \subseteq sent'
  BY <1>5 DEF Send
<1>8. Account(store, sent')
  BY <1>2, <1>7 DEF Account
<1>9. \A r \in Runtimes : mem'[r] = Down \/ Holds(mem'[r], store, sent')
  BY <1>7, MoreHolds DEF SoundRoom
<1>10. /\ sent' \subseteq [participant : Participants, request : Request]
       /\ \A y \in sent' : y.request.phaseToken <= store.state.phaseToken
  BY <1>2, <1>4, <1>5 DEF SoundRoom
<1>. QED BY <1>6, <1>7, <1>8, <1>9, <1>10 DEF SoundRoom

LEMMA QuietHolds ==
  ASSUME SafeRoom, SoundRoom,
         Tick \/ UNCHANGED vars \/ \E r \in Runtimes : Subscribe(r)
  PROVE  SoundRoom'
<1>1. store' = store /\ sent' = sent /\ mem' = mem
  BY DEF Tick, vars, Subscribe
<1>2. /\ clock \in 0..Horizon /\ seen \in Nat /\ seen <= store.state.revision
      /\ store.state.revision \in Nat
  BY AccountFacts DEF SoundRoom
<1>3. clock' \in 0..Horizon /\ seen' \in Nat /\ seen' <= store.state.revision
  <2>1. CASE Tick
    <3>1. clock' = clock + 1 /\ seen' = seen /\ clock < Horizon
      BY <1>2, <2>1, RoomBoundsAssumption DEF Tick
    <3>. QED BY <1>2, <3>1, RoomBoundsAssumption
  <2>2. CASE UNCHANGED vars
    BY <1>2, <2>2 DEF vars
  <2>3. CASE \E r \in Runtimes : Subscribe(r)
    <3>1. PICK r \in Runtimes : Subscribe(r)
      BY <2>3
    <3>2. /\ Alive(r) /\ clock' = clock
          /\ seen' = Newest(seen, mem[r].record.state.revision)
      BY <3>1 DEF Subscribe, Alive
    <3>3. /\ mem[r].record.state.revision \in Nat
          /\ mem[r].record.state.revision <= store.state.revision
      BY <3>2, AliveHolds, AccountFacts DEF Holds, Prepares
    <3>. QED BY <1>2, <3>2, <3>3 DEF Newest
  <2>. QED BY <2>1, <2>2, <2>3
<1>. QED BY <1>1, <1>3 DEF SoundRoom

LEMMA InitHolds ==
  ASSUME Init
  PROVE  SoundRoom
<1>1. PICK id \in MatchIds : InitWith(CreateGame(id, 0))
  BY DEF Init
<1>. DEFINE s == CreateGame(id, 0)
<1>2. Sound(s)
  BY CreateGameValid, CreateGameTimely DEF Sound
<1>3. s.lastNow = 0 /\ s.revision = 0 /\ s \in GameState
  BY <1>2 DEF CreateGame, Sound, Valid, Core
<1>. HIDE DEF s
<1>4. PICK i \in 0..(Candidates - 1) :
        store = [version |-> 0, state |-> s, receipts |-> {},
                 preparation |-> [candidateIndex |-> i, cycles |-> 0, retryAt |-> 0]]
  BY <1>1 DEF InitWith, s
<1>5. /\ store \in Record /\ store.state = s /\ store.receipts = {}
  BY <1>3, <1>4 DEF Record, Preparation
<1>6. /\ clock = 0 /\ mem = [r \in Runtimes |-> Down] /\ sent = {} /\ seen = 0
  BY <1>1, <1>3 DEF InitWith, s
<1>7. 0 <= Horizon /\ 0 <= MaxRequests /\ 0 \in 0..Horizon
  BY RoomBoundsAssumption
<1>8. IsFiniteSet({}) /\ Cardinality({}) = 0
  BY FS_EmptySet
<1>9. Account(store, sent)
  BY <1>2, <1>3, <1>5, <1>7, <1>8 DEF Account, Pairs
<1>. QED BY <1>3, <1>5, <1>6, <1>7, <1>8, <1>9 DEF SoundRoom

LEMMA NextHolds ==
  ASSUME SafeRoom, SoundRoom, [Next]_vars
  PROVE  SoundRoom'
<1>1. CASE Send
  BY <1>1, SendHolds
<1>2. CASE Tick \/ UNCHANGED vars \/ \E r \in Runtimes : Subscribe(r)
  BY <1>2, QuietHolds
<1>3. ASSUME NEW r \in Runtimes, Work(r) PROVE SoundRoom'
  BY <1>3, RunDispatchHolds, RunCatchUpHolds, RunReceiveHolds, RunCloseHolds, SaveFailsHolds,
     ResumeHolds DEF Work
<1>4. ASSUME NEW r \in Runtimes,
             \/ Dispatch(r) \/ Sync(r) \/ Close(r) \/ CloseIfLobby(r)
             \/ TaskEnds(r) \/ Wake(r) \/ Retry(r)
      PROVE  SoundRoom'
  BY <1>4, CallHolds, TimerHolds
<1>5. ASSUME NEW r \in Runtimes, SaveFails(r) \/ Save(r) \/ Open(r) \/ Crash(r) \/ Exit(r)
      PROVE  SoundRoom'
  BY <1>5, SaveFailsHolds, SaveHolds, ProcessHolds
<1>. QED BY <1>1, <1>2, <1>3, <1>4, <1>5 DEF Next

-----------------------------------------------------------------------------
(* The stored state is a game of module Game.  Match!X is X with constants *)
(* in the place of themselves; the bridges say so for what the steps need. *)

LEMMA SameTypes ==
  /\ Match!SeatNo = SeatNo /\ Match!Round = Round /\ Match!GameState = GameState
  /\ Match!MaxExpiries = MaxExpiries
BY DEF Match!SeatNo, Match!MaxSeats, Match!SeatCount, Match!ShadowCount, Match!Round,
       Match!GameState, Match!Phase, Match!Seat, Match!Role, Match!Answer, Match!Debate,
       Match!DebateStep, Match!Result, Match!NoTime, Match!NotVoted, Match!MaxExpiries,
       SeatNo, MaxSeats, SeatCount, ShadowCount, Round, GameState, Phase, Seat, Role, Answer,
       Debate, DebateStep, Result, NoTime, NotVoted, MaxExpiries

LEMMA SameWindows ==
  /\ \A s, at : /\ Match!BeginRound(s, s.round + 1, at) = BeginRound(s, s.round + 1, at)
                /\ Match!EndRound(s, at) = EndRound(s, at)
                /\ Match!BeginVoting(s, at) = BeginVoting(s, at)
                /\ Match!NextDebate(s, at) = NextDebate(s, at)
                /\ Match!Finish(s, at) = Finish(s, at)
                /\ Match!HoldRound(s, at) = HoldRound(s, at)
                /\ Match!Logged(s, at) = Logged(s, at)
  /\ \A s, round, at : Match!BeginRound(s, round, at) = BeginRound(s, round, at)
  /\ \A s, next, at, d : Match!EnterPhase(s, next, at, d) = EnterPhase(s, next, at, d)
BY DEF Match!EndRound, Match!BeginRound, Match!BeginDebate, Match!BeginVoting,
       Match!NextDebate, Match!Finish, Match!HoldRound, Match!Logged, Match!EnterPhase,
       Match!NoDebate, Match!NextStep, Match!StepMs, Match!Earlier, Match!Settle,
       Match!Eliminated, Match!NoSeat, Match!NoTime,
       EndRound, BeginRound, BeginDebate, BeginVoting, NextDebate, Finish, HoldRound, Logged,
       EnterPhase, NoDebate, NextStep, StepMs, Earlier, Settle, Eliminated, NoSeat, NoTime

LEMMA SameTime == \A s, now : Match!AdvanceTime(s, now) = AdvanceTime(s, now)
<1>1. \A s : Match!FillAnswers(s) = FillAnswers(s) /\ Match!AbstainAll(s) = AbstainAll(s)
  BY SameTypes DEF Match!FillAnswers, Match!AbstainAll, Match!SeatIds, Match!NoSeat,
     Match!NotVoted, FillAnswers, AbstainAll, SeatIds, NoSeat, NotVoted
<1>2. \A s, at : /\ Match!ExpireAnswering(s, at) = ExpireAnswering(s, at)
                 /\ Match!ExpireDebating(s, at) = ExpireDebating(s, at)
                 /\ Match!ExpireVoting(s, at) = ExpireVoting(s, at)
  BY <1>1, SameWindows DEF Match!ExpireAnswering, Match!ExpireDebating, Match!ExpireVoting,
     Match!Accuser, ExpireAnswering, ExpireDebating, ExpireVoting, Accuser
<1>3. \A s : Match!Expire(s) = Expire(s)
  BY <1>2 DEF Match!Expire, Expire
<1>4. \A s, now : Match!Due(s, now) = Due(s, now)
  BY DEF Match!Due, Due, Match!NoTime, NoTime
<1>5. \A now : Match!ExpireIfDue(now) = ExpireIfDue(now)
  BY <1>3, <1>4, SameTypes DEF Match!ExpireIfDue, ExpireIfDue
<1>. QED BY <1>5, SameTypes DEF Match!AdvanceTime, Match!Expired, AdvanceTime, Expired

LEMMA SameCardinality == \A S : Match!Cardinality(S) = Cardinality(S)
BY DEF Match!Cardinality, Match!IsFiniteSet, Cardinality, IsFiniteSet

LEMMA SameActors ==
  /\ Match!System = System
  /\ \A p : Match!Participant(p) = Participant(p)
  /\ \A i : Match!AiPlayer(i) = AiPlayer(i)
  /\ \A s, actor : Match!ActingSeat(s, actor) = ActingSeat(s, actor)
  /\ \A s, actor : Match!ActingSeats(s, actor) = ActingSeats(s, actor)
BY DEF Match!System, Match!Participant, Match!AiPlayer, Match!ActingSeat, Match!ActingSeats,
       Match!SeatIds, System, Participant, AiPlayer, ActingSeat, ActingSeats, SeatIds

LEMMA SameSeating == \A members : Match!AssignSeats(members) = AssignSeats(members)
BY SameCardinality
   DEF Match!AssignSeats, Match!SeatCount, Match!ShadowCount, Match!Seating, AssignSeats,
       SeatCount, ShadowCount, Seating

LEMMA SameCreation == \A m : Match!CreateGame(m, 0) = CreateGame(m, 0)
BY SameTypes
   DEF Match!CreateGame, Match!NoDebate, Match!NoResult, Match!NoSeat, Match!NoTime,
       Match!NotVoted, CreateGame, NoDebate, NoResult, NoSeat, NoTime, NotVoted

LEMMA SameDecisions ==
  \A s, actor, envelope, now : Match!Decide(s, actor, envelope, now) = Decide(s, actor, envelope, now)
<1>1. \A s, seats : Match!ValidSeats(s, seats) = ValidSeats(s, seats)
  BY SameCardinality
     DEF Match!ValidSeats, Match!RoleCounts, Match!ShadowCount, Match!Role,
         ValidSeats, RoleCounts, ShadowCount, Role
<1>2. \A s, actor : /\ Match!MayJoin(s, actor) = MayJoin(s, actor)
                    /\ Match!MayReady(s, actor) = MayReady(s, actor)
  BY SameCardinality DEF Match!MayJoin, Match!MayReady, MayJoin, MayReady
<1>3. \A s, actor, c : Match!MayResolve(s, actor, c) = MayResolve(s, actor, c)
  BY <1>1 DEF Match!MayResolve, MayResolve
<1>4. \A s, seat, c : /\ Match!MayAnswer(s, seat, c) = MayAnswer(s, seat, c)
                      /\ Match!MayVote(s, seat, c) = MayVote(s, seat, c)
                      /\ Match!MayAccuse(s, seat, c) = MayAccuse(s, seat, c)
                      /\ Match!MayRespond(s, seat, c) = MayRespond(s, seat, c)
                      /\ Match!MayFollowUp(s, seat) = MayFollowUp(s, seat)
  BY DEF Match!MayAnswer, Match!MayVote, Match!IsTarget, Match!SeatIds, Match!MayAccuse,
         Match!MayRespond, Match!MayFollowUp, Match!Accuser, Match!NotVoted,
         MayAnswer, MayVote, IsTarget, SeatIds, MayAccuse, MayRespond, MayFollowUp, Accuser,
         NotVoted
<1>5. \A s, actor, c : Match!Accepts(s, actor, c) = Accepts(s, actor, c)
  BY <1>2, <1>3, <1>4, SameActors DEF Match!Accepts, Accepts
<1>6. /\ \A s, p : Match!Join(s, p) = Join(s, p)
      /\ \A s, p, ready, now : Match!SetReady(s, p, ready, now) = SetReady(s, p, ready, now)
      /\ \A s, seats, now : Match!ResolveTopic(s, seats, now) = ResolveTopic(s, seats, now)
  BY SameWindows, SameCardinality DEF Match!Join, Match!SetReady, Match!ResolveTopic, Match!NoTime,
     Join, SetReady, ResolveTopic, NoTime
<1>7. /\ \A s, seat, now : Match!AddAnswer(s, seat, now) = AddAnswer(s, seat, now)
      /\ \A s, seat, target, now :
           Match!AddVote(s, seat, target, now) = AddVote(s, seat, target, now)
  BY SameWindows DEF Match!AddAnswer, Match!AddVote, Match!SeatIds, Match!NotVoted,
     AddAnswer, AddVote, SeatIds, NotVoted
<1>8. /\ \A s, target, now : Match!Accuse(s, target, now) = Accuse(s, target, now)
      /\ \A s, now : Match!Speak(s, now) = Speak(s, now)
  BY SameWindows DEF Match!Accuse, Match!Speak, Accuse, Speak
<1>. DEFINE kinds == {"join", "ready", "resolve-topic", "answer", "vote", "accuse", "respond",
                      "followup", "skip-followup"}
<1>9. ASSUME NEW s, NEW actor, NEW c, NEW now, c.type \in kinds
      PROVE  Match!Apply(s, actor, c, now) = Apply(s, actor, c, now)
  BY <1>6, <1>7, <1>8, <1>9, SameActors DEF Match!Apply, Apply
<1>10. \A s, actor, c : Accepts(s, actor, c) => c.type \in kinds
  BY DEF Accepts
<1>11. ASSUME NEW s, NEW actor, NEW e, NEW now
       PROVE  Match!Decide(s, actor, e, now) = Decide(s, actor, e, now)
  <2>1. Match!Accepts(s, actor, e.command) = Accepts(s, actor, e.command)
    BY <1>5
  <2>2. CASE Accepts(s, actor, e.command)
    <3>1. Match!Apply(s, actor, e.command, now) = Apply(s, actor, e.command, now)
      BY <1>9, <1>10, <2>2
    <3>. QED BY <2>1, <3>1 DEF Match!Decide, Decide
  <2>3. CASE ~Accepts(s, actor, e.command)
    BY <2>1, <2>3 DEF Match!Decide, Decide
  <2>. QED BY <2>2, <2>3
<1>. QED BY <1>11

\* A step of the relation is one of the actions of Game.
LEMMA MatchSteps ==
  ASSUME Sound(store.state), GameStep(store.state, store'.state)
  PROVE  Match!Next
<1>. DEFINE s == store.state
<1>1. PICK now \in s.lastNow..Horizon :
        \/ store'.state = AdvanceTime(s, now)
        \/ \E actor, c :
             /\ Asks(s, actor, c)
             /\ store'.state = Decide(AdvanceTime(s, now), actor, Submitted(s, c), now).state
  BY DEF GameStep
<1>. DEFINE current == Match!AdvanceTime(s, now)
<1>2. current = AdvanceTime(s, now)
  BY SameTime
<1>3. now \in Match!Time /\ now <= Horizon
  <2>1. s.lastNow \in Nat
    BY DEF Sound, Valid, Core, GameState
  <2>. QED BY <2>1, RoomBoundsAssumption DEF Match!Time
<1>. HIDE DEF current
<1>4. ASSUME NEW actor, NEW c,
             store'.state = Decide(AdvanceTime(s, now), actor, Submitted(s, c), now).state
      PROVE  Match!Submit(current, now, actor, c)
  <2>1. s.matchId \in MatchIds /\ s.phaseToken \in Nat
    BY DEF Sound, Valid, Core, GameState
  <2>2. s.phaseToken \in Match!SeenTokens
    BY <2>1 DEF Match!SeenTokens
  <2>3. store'.state = Match!Decide(current, actor,
                         [matchId |-> s.matchId, phaseToken |-> s.phaseToken, command |-> c],
                         now).state
    BY <1>2, <1>4, SameDecisions DEF Submitted
  <2>. QED BY <2>1, <2>2, <2>3 DEF Match!Submit
<1>5. ASSUME NEW actor, NEW c, Asks(s, actor, c), Match!Submit(current, now, actor, c)
      PROVE  Match!Step(current, now)
  <2>1. CASE c \in PlayerCommand /\ c.type \in {"join", "ready"}
    <3>1. PICK p \in Participants : actor = Match!Participant(p)
      BY <1>5, <2>1, SameActors DEF Asks, System, PlayerCommand
    <3>2. CASE c.type = "join"
      <4>1. c = [type |-> "join"]
        BY <2>1, <3>2 DEF PlayerCommand
      <4>. QED BY <1>3, <1>5, <3>1, <4>1 DEF Match!Step, Match!JoinRoom
    <3>3. CASE c.type = "ready"
      <4>1. c = [type |-> "ready", ready |-> c.ready] /\ c.ready \in BOOLEAN
        BY <2>1, <3>3 DEF PlayerCommand
      <4>2. s.revision < MaxRequests
        BY <1>5, <3>3 DEF Asks
      <4>3. Match!Ready(current, now)
        BY <1>3, <1>5, <3>1, <4>1, <4>2 DEF Match!Ready
      <4>. QED BY <4>3 DEF Match!Step
    <3>. QED BY <2>1, <3>2, <3>3
  <2>2. CASE actor \in Match!Players /\ c \in PlayerCommand /\ c.type \notin {"join", "ready"}
    <3>1. CASE c.type = "answer"
      <4>1. /\ c = [type |-> "answer", round |-> c.round, valid |-> c.valid]
            /\ c.round \in Match!Round /\ c.valid \in Contents
        BY <2>2, <3>1, SameTypes DEF PlayerCommand
      <4>2. Match!GiveAnswer(current, now)
        BY <1>5, <2>2, <4>1 DEF Match!GiveAnswer
      <4>. QED BY <4>2 DEF Match!Step
    <3>2. CASE c.type = "vote"
      <4>1. c = [type |-> "vote", target |-> c.target] /\ c.target \in Match!SeatNo
        BY <2>2, <3>2, SameTypes DEF PlayerCommand
      <4>2. Match!CastVote(current, now)
        BY <1>5, <2>2, <4>1 DEF Match!CastVote
      <4>. QED BY <4>2 DEF Match!Step
    <3>3. CASE c.type = "accuse"
      <4>1. /\ c = [type |-> "accuse", target |-> c.target, valid |-> c.valid]
            /\ c.target \in Match!SeatNo /\ c.valid \in Contents
        BY <2>2, <3>3, SameTypes DEF PlayerCommand
      <4>2. Match!MakeAccusation(current, now)
        BY <1>5, <2>2, <4>1 DEF Match!MakeAccusation
      <4>. QED BY <4>2 DEF Match!Step
    <3>4. CASE c.type \in {"respond", "followup", "skip-followup"}
      <4>1. /\ c = [type |-> c.type, valid |-> c.valid]
            /\ c.type \in Match!Speech /\ c.valid \in Contents
        BY <2>2, <3>4 DEF PlayerCommand, Match!Speech
      <4>2. Match!Reply(current, now)
        BY <1>5, <2>2, <4>1 DEF Match!Reply
      <4>. QED BY <4>2 DEF Match!Step
    <3>. QED BY <2>2, <3>1, <3>2, <3>3, <3>4, PlayerCommandFacts
  <2>3. CASE /\ actor = System /\ s.phase = "preparing"
             /\ \E seats \in AssignSeats(s.members), valid \in Contents :
                  c = [type |-> "resolve-topic", valid |-> valid, seats |-> seats]
    <3>1. Match!Resolve(current, now)
      BY <1>3, <1>5, <2>3, SameActors, SameSeating DEF Match!Resolve
    <3>. QED BY <3>1 DEF Match!Step
  <2>4. actor \in {Participant(p) : p \in Participants} \cup {AiPlayer(i) : i \in SeatNo}
          => actor \in Match!Players
    BY SameActors, SameTypes DEF Match!Players
  <2>. QED BY <1>5, <2>1, <2>2, <2>3, <2>4 DEF Asks
<1>6. store'.state = AdvanceTime(s, now) => Match!Step(current, now)
  BY <1>2 DEF Match!Step, Match!Tick
<1>7. Match!Step(current, now)
  BY <1>1, <1>4, <1>5, <1>6
<1>. QED BY <1>3, <1>7 DEF Match!Next, current

\* Only Save writes, and it writes a step.
LEMMA StoreSteps ==
  ASSUME SafeRoom, SoundRoom, [Next]_vars
  PROVE  [Match!Next]_(store.state)
<1>1. store' = store \/ \E r \in Runtimes : Save(r)
  BY DEF Next, vars, Work, Send, Tick, RunDispatch, RunSync, RunExpire, RunOpen, RunReceive,
         RunClose, RunCloseIfLobby, Resume, Conflict, SaveFails, Open, Dispatch, Sync,
         Subscribe, Close, CloseIfLobby, TaskEnds, Wake, Retry, Crash, Exit
<1>2. CASE store' = store
  BY <1>2
<1>3. CASE \E r \in Runtimes : Save(r)
  <2>1. Made(store.state, store'.state) /\ Sound(store.state)
    BY <1>3, SaveSteps DEF SoundRoom, Account
  <2>. QED BY <2>1, MatchSteps DEF Made
<1>. QED BY <1>1, <1>2, <1>3

LEMMA InitStarts ==
  ASSUME Init
  PROVE  Match!Init
<1>1. PICK m \in MatchIds : InitWith(CreateGame(m, 0))
  BY DEF Init
<1>2. store.state = CreateGame(m, 0)
  BY <1>1 DEF InitWith
<1>. QED BY <1>2, SameCreation DEF Match!Init

-----------------------------------------------------------------------------
(* The third invariant: an open room always has something that will wake   *)
(* it.  It needs timers that do not fire before their time by the clock    *)
(* that deadlines are read on.                                             *)

\* The jobs that will still run: waiting, waiting for their retry, or running.
Jobs(m) ==
  {m.queue[i] : i \in 1..Len(m.queue)} \cup m.retries
  \cup (IF m.job.stage = "idle" THEN {} ELSE {m.job.of})

\* A room is opened once, before anything else.
Opens(m) ==
  /\ \A i \in 1..Len(m.queue) : m.queue[i].kind = "open" =>
       i = 1 /\ m.status = "opening" /\ m.job.stage = "idle"
  /\ m.job.stage # "idle" => (m.job.of.kind = "open" => m.status = "opening")

\* A topic that has come is on its way into the record.
Delivered(m, jobs) ==
  \A t \in m.tasks :
    t.key = TopicKey /\ t.settled /\ t.token = m.record.state.phaseToken =>
      \E j \in jobs : j.kind = "receive" /\ j.task = [key |-> t.key, token |-> t.token]

\* The timer is set to the deadline, or has fired at it.
Timed(m, jobs, now) ==
  m.record.state.deadlineAt # NoTime =>
    \/ m.wake = m.record.state.deadlineAt
    \/ now >= m.record.state.deadlineAt /\ \E j \in jobs : j.kind = "expire"

\* A topic is awaited, or the pause before the next attempt.
Prepared(m) ==
  m.record.state.phase = "preparing" =>
    \/ m.wake # NoTime
    \/ \E t \in m.tasks : t.key = TopicKey /\ t.token = m.record.state.phaseToken

Watched(m, jobs, now) ==
  /\ Running(m) => Delivered(m, jobs)
  /\ m.status = "open" => Timed(m, jobs, now) /\ Prepared(m)

Attended(m, now) == Opens(m) /\ Watched(m, Jobs(m), now)

AllAttended == \A r \in Runtimes : mem[r] = Down \/ Attended(mem[r], clock)

\* No job of m is to open it: it has been opened, or j is the one.
Opening(m, j) ==
  /\ m.job = Idle /\ \A i \in 1..Len(m.queue) : m.queue[i].kind # "open"
  /\ j.kind = "open" => m.status = "opening"

\* A runtime that has taken up the job j and not yet done with it.
Takes(m, j, now) == Opening(m, j) /\ Watched(m, Jobs(m) \cup {j}, now)

\* A deadline that has passed changes the revision, so that it is committed.
LEMMA DueMoves ==
  ASSUME NEW s, Sound(s), NEW now \in Nat, s.lastNow <= now, Due(s, now)
  PROVE  AdvanceTime(s, now).revision # s.revision
<1>. DEFINE u == [s EXCEPT !.lastNow = now]
            t == AdvanceTime(s, now)
<1>1. Core(s) /\ s \in GameState
  BY DEF Sound, Valid, Core
<1>2. Core(u) /\ u.lastNow = now
  BY <1>1, ClockCore
<1>3. t = Expired(u, u.lastNow)
  BY <1>2 DEF AdvanceTime
<1>4. ~Due(t, now)
  BY <1>2, <1>3, ExpiredCore
<1>5. Numbered(s, t) /\ t.revision \in Nat /\ s.revision \in Nat
  <2>1. Follows(s, t)
    BY AdvanceTimeSound
  <2>. QED BY <1>1, <2>1 DEF Follows, Core, GameState
<1>. HIDE DEF u, t
<1>6. t # [s EXCEPT !.lastNow = t.lastNow]
  <2>1. [s EXCEPT !.lastNow = t.lastNow].deadlineAt = s.deadlineAt
    BY <1>1 DEF GameState
  <2>. QED BY <1>4, <2>1 DEF Due
<1>7. t.revision # s.revision
  BY <1>5, <1>6 DEF Numbered
<1>. QED BY <1>7 DEF t

LEMMA MoreJobs ==
  ASSUME NEW m, NEW n, NEW jobs, NEW more, jobs \subseteq more, NEW now, Watched(m, jobs, now),
         n.record = m.record, n.wake = m.wake, n.tasks = m.tasks,
         n.status \in {m.status, "closing", "closed"}
  PROVE  Watched(n, more, now)
<1>1. /\ Delivered(m, jobs) => Delivered(n, more)
      /\ Timed(m, jobs, now) => Timed(n, more, now)
      /\ Prepared(m) => Prepared(n)
  BY DEF Delivered, Timed, Prepared
<1>2. /\ Running(n) => Running(m)
      /\ n.status = "open" => m.status = "open"
  BY DEF Running
<1>. QED BY <1>1, <1>2 DEF Watched

LEMMA IdleJobs ==
  ASSUME NEW m, m.job = Idle
  PROVE  Jobs(m) = {m.queue[i] : i \in 1..Len(m.queue)} \cup m.retries
  BY DEF Jobs, Idle

\* Without a job to open it, a memory that takes no job up is attended when it is watched.
LEMMA WatchedAttends ==
  ASSUME NEW m, NEW now, NEW j, Opening(m, j), Watched(m, Jobs(m), now)
  PROVE  Attended(m, now)
<1>1. Opens(m)
  BY DEF Opening, Opens, Idle
<1>. QED BY <1>1 DEF Attended

\* What was done with a job that is neither a deadline nor a result needs it no more.
LEMMA DoneAttends ==
  ASSUME NEW m, NEW now, NEW j, Takes(m, j, now), j.kind \notin {"expire", "receive"}
  PROVE  Attended(m, now)
<1>1. /\ Delivered(m, Jobs(m) \cup {j}) => Delivered(m, Jobs(m))
      /\ Timed(m, Jobs(m) \cup {j}, now) => Timed(m, Jobs(m), now)
  BY DEF Delivered, Timed
<1>2. Opening(m, j) /\ Watched(m, Jobs(m), now)
  BY <1>1 DEF Takes, Watched
<1>. QED BY <1>2, WatchedAttends

LEMMA ReconcileWatches ==
  ASSUME NEW m, NEW calls, DOMAIN m = Fields, RuntimeOK(m), Assigned(m),
         Account(m.record, calls), NEW jobs, NEW now, Delivered(m, jobs)
  PROVE  /\ Delivered(Reconcile(m), jobs) /\ \A any : Timed(Reconcile(m), any, now)
         /\ Prepared(Reconcile(m)) /\ Tended(m, Reconcile(m))
<1>. DEFINE n == Reconcile(m)
            s == m.record.state
            w == WakeAt(m.record, Now(m))
            woken == [Forget(m) EXCEPT !.wake = w]
<1>1. /\ Tended(m, Forget(m)) /\ Assigned(Forget(m))
      /\ Forget(m).taskToken = s.phaseToken
  BY ForgetHolds
<1>2. Forget(m).tasks \subseteq m.tasks
  BY DEF Forget, Fields
<1>3. /\ woken.record = m.record /\ DOMAIN woken = Fields /\ woken.wake = w
      /\ woken.tasks = Forget(m).tasks
  BY <1>1 DEF Tended, Kept, Fields
<1>4. \A t \in woken.tasks : t.token = s.phaseToken
  BY <1>1, <1>3 DEF Assigned
<1>5. /\ n \in {woken, StartTopic(woken), StartAi(woken)}
      /\ /\ ~Due(s, Now(m)) /\ s.phase = "preparing"
         /\ ~(m.record.preparation.retryAt > Now(m))
         => n = StartTopic(woken)
  BY DEF Reconcile
<1>. HIDE DEF woken
<1>6. /\ StartTopic(woken).wake = w /\ StartAi(woken).wake = w
      /\ \A t \in StartTopic(woken).tasks \cup StartAi(woken).tasks :
           t.settled => t \in woken.tasks
      /\ \E t \in StartTopic(woken).tasks : t.key = TopicKey /\ t.token = s.phaseToken
  <2>1. /\ StartTopic(woken).wake = w
        /\ \A t \in StartTopic(woken).tasks : t.settled => t \in woken.tasks
        /\ \E t \in StartTopic(woken).tasks : t.key = TopicKey /\ t.token = s.phaseToken
    <3>1. CASE \E t \in woken.tasks : t.key = TopicKey
      BY <1>3, <1>4, <3>1 DEF StartTopic
    <3>2. CASE ~\E t \in woken.tasks : t.key = TopicKey
      <4>. DEFINE new == Task(woken, TopicKey)
      <4>1. /\ StartTopic(woken).wake = w /\ StartTopic(woken).tasks = woken.tasks \cup {new}
        BY <1>3, <3>2 DEF StartTopic, Fields
      <4>2. new.key = TopicKey /\ new.token = s.phaseToken /\ ~new.settled
        BY <1>3 DEF Task
      <4>. HIDE DEF new
      <4>. QED BY <4>1, <4>2
    <3>. QED BY <3>1, <3>2
  <2>2. /\ StartAi(woken).wake = w
        /\ \A t \in StartAi(woken).tasks : t.settled => t \in woken.tasks
    <3>. DEFINE new == AiWork(woken.record.state) \ woken.attempts
    <3>1. /\ StartAi(woken).wake = w
          /\ StartAi(woken).tasks = woken.tasks \cup {Task(woken, i) : i \in new}
      BY <1>3 DEF StartAi, Fields
    <3>2. \A i \in new : ~Task(woken, i).settled
      BY DEF Task
    <3>. HIDE DEF new
    <3>. QED BY <3>1, <3>2
  <2>. QED BY <2>1, <2>2
<1>7. Tended(m, n)
  BY ReconcileHolds
<1>8. /\ n.wake = w /\ \A t \in n.tasks : t.settled => t \in m.tasks
  BY <1>2, <1>3, <1>5, <1>6
<1>9. n.record = m.record
  BY <1>7 DEF Tended, Kept
<1>10. Delivered(n, jobs)
  BY <1>8, <1>9 DEF Delivered
<1>11. \A any : Timed(n, any, now)
  BY <1>8, <1>9 DEF Timed, WakeAt
<1>12. Prepared(n)
  <2>. SUFFICES ASSUME s.phase = "preparing"
                PROVE  n.wake # NoTime
                       \/ \E t \in n.tasks : t.key = TopicKey /\ t.token = s.phaseToken
    BY <1>9 DEF Prepared
  <2>1. s.deadlineAt = NoTime /\ m.record.preparation.retryAt \in Nat
    <3>1. Core(s)
      BY DEF Account, Sound, Valid
    <3>. QED BY <3>1, AccountFacts DEF Core, ValidPhaseFields, Started
  <2>2. ~Due(s, Now(m))
    BY <2>1 DEF Due
  <2>3. CASE m.record.preparation.retryAt > Now(m)
    BY <1>8, <2>1, <2>3 DEF WakeAt, NoTime
  <2>4. CASE ~(m.record.preparation.retryAt > Now(m))
    BY <1>5, <1>6, <2>2, <2>4
  <2>. QED BY <2>3, <2>4
<1>. QED BY <1>7, <1>10, <1>11, <1>12

LEMMA ReconcileAttends ==
  ASSUME NEW m, NEW stored, NEW calls, Holds(m, stored, calls), NEW now, NEW j,
         Opening(m, j), Running(m) => Delivered(m, Jobs(m))
  PROVE  Attended(Reconcile(m), now)
<1>. DEFINE n == Reconcile(m)
<1>1. /\ DOMAIN m = Fields /\ RuntimeOK(m) /\ Assigned(m) /\ Account(m.record, calls)
  BY DEF Holds, Prepares
<1>2. Tended(m, n)
  BY <1>1, ReconcileHolds
<1>3. Running(m) => /\ Delivered(n, Jobs(m)) /\ Timed(n, Jobs(m), now) /\ Prepared(n)
  BY <1>1, ReconcileWatches
<1>. HIDE DEF n
<1>4. Jobs(n) = Jobs(m)
  BY <1>2 DEF Jobs, Tended, Kept
<1>5. (Running(n) <=> Running(m)) /\ (n.status = "open" => Running(m))
  BY <1>2 DEF Tended, Running
<1>6. Opening(n, j)
  BY <1>2 DEF Opening, Tended, Kept
<1>7. Watched(n, Jobs(n), now)
  BY <1>3, <1>4, <1>5 DEF Watched
<1>8. Attended(n, now)
  BY <1>6, <1>7, WatchedAttends
<1>. QED BY <1>8 DEF n

\* The topic task that ends takes its result with it.
LEMMA EndTaskAttends ==
  ASSUME NEW m, NEW stored, NEW calls, Holds(m, stored, calls), NEW now,
         NEW j, j.kind = "receive", Takes(m, j, now)
  PROVE  Attended(EndTask(m, j.task), now)
<1>. DEFINE n == [m EXCEPT !.tasks = {t \in @ : t.key # j.task.key}]
<1>1. /\ Kept(m, n) /\ n.queue = m.queue /\ n.status = m.status /\ n.attempts = m.attempts
      /\ n.taskToken = m.taskToken /\ n.tasks = {t \in m.tasks : t.key # j.task.key}
      /\ n.wake = m.wake /\ n.retries = m.retries
  BY DEF Holds, Kept, Fields
<1>. HIDE DEF n
<1>2. Holds(n, stored, calls)
  BY <1>1, TrimmedHolds
<1>3. Opening(n, j) /\ Jobs(n) = Jobs(m)
  BY <1>1 DEF Takes, Opening, Jobs, Kept
<1>4. Running(n) => Delivered(n, Jobs(n))
  <2>. SUFFICES ASSUME Running(n), NEW t \in n.tasks,
                       t.key = TopicKey, t.settled, t.token = n.record.state.phaseToken
                PROVE  \E i \in Jobs(n) : i.kind = "receive"
                                          /\ i.task = [key |-> t.key, token |-> t.token]
    BY DEF Delivered
  <2>1. Delivered(m, Jobs(m) \cup {j}) /\ t \in m.tasks /\ t.key # j.task.key
        /\ n.record = m.record
    BY <1>1 DEF Takes, Watched, Running, Kept
  <2>2. PICK i \in Jobs(m) \cup {j} :
          i.kind = "receive" /\ i.task = [key |-> t.key, token |-> t.token]
    BY <2>1 DEF Delivered
  <2>3. i.task.key = t.key
    BY <2>2
  <2>4. i # j
    BY <2>1, <2>3
  <2>. QED BY <1>3, <2>2, <2>4
<1>5. Attended(Reconcile(n), now)
  BY <1>2, <1>3, <1>4, ReconcileAttends
<1>. QED BY <1>5 DEF EndTask, n

LEMMA SavingAttends ==
  ASSUME NEW m, DOMAIN m = Fields, NEW now, NEW j, Takes(m, j, now), NEW step, NEW next
  PROVE  Attended(Saving(m, j, step, next), now)
<1>. DEFINE numbered == [next EXCEPT !.version = m.record.version + 1]
            job == [stage |-> "saving", of |-> j, step |-> step, next |-> numbered]
            n == Saving(m, j, step, next)
<1>1. job.stage = "saving" /\ job.of = j
  OBVIOUS
<1>. HIDE DEF job, numbered
<1>2. n = [m EXCEPT !.job = job]
  BY DEF Saving, job, numbered
<1>3. /\ n.job = job /\ n.record = m.record /\ n.wake = m.wake /\ n.tasks = m.tasks
      /\ n.status = m.status /\ n.queue = m.queue /\ n.retries = m.retries
  BY <1>2 DEF Fields
<1>. HIDE DEF n
<1>4. Jobs(n) = Jobs(m) \cup {j}
  BY <1>1, <1>3, IdleJobs DEF Jobs, Takes, Opening
<1>5. Opens(n)
  BY <1>1, <1>3 DEF Opens, Takes, Opening
<1>6. Watched(n, Jobs(n), now)
  BY <1>3, <1>4, MoreJobs DEF Takes
<1>7. Attended(n, now)
  BY <1>5, <1>6 DEF Attended
<1>. QED BY <1>7 DEF n

LEMMA ReceivedAttends ==
  ASSUME NEW m, NEW stored, NEW calls, Holds(m, stored, calls), NEW now,
         NEW j, j.kind = "receive", Takes(m, j, now), NEW n \in Received(m, j)
  PROVE  Attended(n, now)
<1>1. DOMAIN m = Fields
  BY DEF Holds
<1>2. \A step, next : Attended(Saving(m, j, step, next), now)
  BY <1>1, SavingAttends
<1>3. Attended(EndTask(m, j.task), now)
  BY EndTaskAttends
<1>4. n = EndTask(m, j.task) \/ \E next : n = Saving(m, j, "last", next)
  <2>1. CASE j.task.key = TopicKey
    BY <2>1 DEF Received, TopicReceived, TopicDecided
  <2>2. CASE j.task.key # TopicKey
    BY <2>2 DEF Received, AiReceived
  <2>. QED BY <2>1, <2>2
<1>. QED BY <1>2, <1>3, <1>4

\* A result whose task is not live is nobody's: it may go.
LEMMA StaleAttends ==
  ASSUME NEW m, NEW now, NEW j, j.kind = "receive", Takes(m, j, now),
         Running(m) => ~LiveTask(m, j.task)
  PROVE  Attended(m, now)
<1>1. ASSUME Running(m) PROVE Delivered(m, Jobs(m))
  <2>. SUFFICES ASSUME NEW t \in m.tasks, t.key = TopicKey, t.settled,
                       t.token = m.record.state.phaseToken
                PROVE  \E i \in Jobs(m) : i.kind = "receive"
                                          /\ i.task = [key |-> t.key, token |-> t.token]
    BY DEF Delivered
  <2>1. PICK i \in Jobs(m) \cup {j} :
          i.kind = "receive" /\ i.task = [key |-> t.key, token |-> t.token]
    BY <1>1 DEF Takes, Watched, Delivered
  <2>2. i.task.key = t.key /\ i.task.token = t.token
    BY <2>1
  <2>3. i # j
    BY <1>1, <2>2 DEF LiveTask
  <2>. QED BY <2>1, <2>3
<1>2. Timed(m, Jobs(m) \cup {j}, now) => Timed(m, Jobs(m), now)
  BY DEF Timed
<1>3. Opening(m, j) /\ Watched(m, Jobs(m), now)
  BY <1>1, <1>2 DEF Takes, Watched
<1>. QED BY <1>3, WatchedAttends

\* With nothing to catch up on, no deadline has passed, and the timer is still set.
LEMMA CaughtUpAttends ==
  ASSUME NEW m, NEW stored, NEW calls, Holds(m, stored, calls), clock \in 0..Horizon,
         NEW j, j.kind = "expire", Takes(m, j, clock), Running(m) => ~MustExpire(m)
  PROVE  Attended(m, clock)
<1>. DEFINE s == m.record.state
<1>1. Account(m.record, calls) /\ Sound(s) /\ s \in GameState
  BY DEF Holds, Prepares, Account, Sound, Valid, Core
<1>2. Now(m) \in Nat /\ s.lastNow <= Now(m) /\ clock \in Nat /\ clock <= Now(m)
  <2>1. Now(m) \in Nat /\ s.lastNow <= Now(m) /\ clock \in Nat
    BY <1>1, NowBounds, RoomBoundsAssumption
  <2>2. s.lastNow \in Nat
    BY <1>1 DEF GameState
  <2>. QED BY <2>1, <2>2 DEF Now
<1>3. Due(s, clock) => MustExpire(m)
  <2>1. s.deadlineAt \in Nat \cup {NoTime}
    BY <1>1 DEF GameState
  <2>2. Due(s, clock) => Due(s, Now(m))
    BY <1>2, <2>1 DEF Due, NoTime
  <2>3. Advanced(m).state = AdvanceTime(s, Now(m))
    BY <1>1 DEF Advanced, Account, Record
  <2>. QED BY <1>1, <1>2, <2>2, <2>3, DueMoves DEF MustExpire
<1>4. ASSUME m.status = "open" PROVE Timed(m, Jobs(m), clock)
  <2>1. Timed(m, Jobs(m) \cup {j}, clock) /\ ~Due(s, clock)
    BY <1>3, <1>4 DEF Takes, Watched, Running
  <2>. QED BY <2>1 DEF Timed, Due
<1>5. Delivered(m, Jobs(m) \cup {j}) => Delivered(m, Jobs(m))
  BY DEF Delivered
<1>6. Opening(m, j) /\ Watched(m, Jobs(m), clock)
  BY <1>4, <1>5 DEF Takes, Watched
<1>. QED BY <1>6, WatchedAttends

LEMMA StopAttends ==
  ASSUME NEW m, DOMAIN m = Fields, NEW now
  PROVE  Attended(Stop(m), now)
<1>. DEFINE n == Stop(m)
<1>1. n.status = "closed" /\ n.job = Idle /\ n.queue = <<>>
  BY DEF Stop, Fields
<1>. HIDE DEF n
<1>2. Attended(n, now)
  BY <1>1 DEF Attended, Opens, Watched, Running, Idle
<1>. QED BY <1>2 DEF n

-----------------------------------------------------------------------------
(* The third invariant is kept                                             *)

LEMMA OneAttended ==
  ASSUME SafeRoom, AllAttended, NEW r \in Runtimes, NEW n,
         n = Down \/ Attended(n, clock), mem' = [mem EXCEPT ![r] = n], clock' = clock
  PROVE  AllAttended'
<1>1. ASSUME NEW q \in Runtimes
      PROVE  mem'[q] = Down \/ Attended(mem'[q], clock)
  <2>1. CASE q = r
    BY <2>1 DEF SafeRoom
  <2>2. CASE q # r
    BY <2>2 DEF SafeRoom, AllAttended
  <2>. QED BY <2>1, <2>2
<1>. QED BY <1>1 DEF AllAttended

LEMMA AliveAttended ==
  ASSUME AllAttended, NEW r \in Runtimes, Alive(r)
  PROVE  Attended(mem[r], clock)
  BY DEF AllAttended, Alive, Down

\* Taking up a job leaves it the only one that is missing.
LEMMA PoppedTakes ==
  ASSUME SoundRoom, AllAttended, NEW r \in Runtimes,
         Alive(r), mem[r].job = Idle, mem[r].queue # <<>>
  PROVE  Takes(Popped(r), Head(mem[r].queue), clock)
<1>. DEFINE m == mem[r]
            j == Head(m.queue)
            n == [m EXCEPT !.queue = Tail(@)]
<1>1. DOMAIN m = Fields /\ m.queue \in Seq(Job) /\ m.queue # <<>> /\ m.job = Idle
  BY AliveHolds DEF Holds, RuntimeOK
<1>2. Attended(m, clock)
  BY AliveAttended
<1>3. /\ n.queue = Tail(m.queue) /\ n.status = m.status /\ n.tasks = m.tasks
      /\ n.wake = m.wake /\ n.retries = m.retries /\ n.record = m.record /\ n.job = m.job
  BY <1>1 DEF Fields
<1>4. n = Popped(r)
  BY DEF Popped
<1>. HIDE DEF n, m
<1>5. /\ j = m.queue[1] /\ Len(m.queue) \in Nat \ {0}
      /\ Len(n.queue) = Len(m.queue) - 1
      /\ \A i \in 1..Len(n.queue) : n.queue[i] = m.queue[i + 1]
  BY <1>1, <1>3
<1>. HIDE DEF j
<1>6. Jobs(m) \subseteq Jobs(n) \cup {j}
  <2>1. Jobs(m) = {m.queue[i] : i \in 1..Len(m.queue)} \cup m.retries
    BY <1>1, IdleJobs
  <2>2. Jobs(n) = {n.queue[i] : i \in 1..Len(n.queue)} \cup m.retries
    BY <1>1, <1>3, IdleJobs
  <2>3. ASSUME NEW i \in 1..Len(m.queue)
        PROVE  m.queue[i] = j \/ \E k \in 1..Len(n.queue) : m.queue[i] = n.queue[k]
    <3>1. CASE i = 1
      BY <1>5, <3>1
    <3>2. CASE i # 1
      <4>1. i - 1 \in 1..Len(n.queue) /\ (i - 1) + 1 = i
        BY <1>5, <3>2
      <4>2. n.queue[i - 1] = m.queue[(i - 1) + 1]
        BY <1>5, <4>1
      <4>. QED BY <4>1, <4>2
    <3>. QED BY <3>1, <3>2
  <2>. QED BY <2>1, <2>2, <2>3
<1>7. Opening(n, j)
  <2>1. \A i \in 1..Len(m.queue) : m.queue[i].kind = "open" => i = 1 /\ m.status = "opening"
    BY <1>2 DEF Attended, Opens
  <2>2. ASSUME NEW i \in 1..Len(n.queue) PROVE n.queue[i].kind # "open"
    <3>1. i + 1 \in 1..Len(m.queue) /\ i + 1 # 1 /\ n.queue[i] = m.queue[i + 1]
      BY <1>5
    <3>. QED BY <2>1, <3>1
  <2>3. 1 \in 1..Len(m.queue)
    BY <1>5
  <2>. QED BY <1>1, <1>3, <1>5, <2>1, <2>2, <2>3 DEF Opening
<1>8. Watched(n, Jobs(n) \cup {j}, clock)
  BY <1>2, <1>3, <1>6, MoreJobs DEF Attended
<1>. QED BY <1>4, <1>7, <1>8 DEF Takes, j, m

LEMMA RunAttends ==
  ASSUME SafeRoom, SoundRoom, AllAttended, NEW r \in Runtimes,
         \/ RunDispatch(r) \/ RunSync(r) \/ RunExpire(r) \/ RunOpen(r) \/ RunReceive(r)
         \/ RunClose(r) \/ RunCloseIfLobby(r)
  PROVE  AllAttended'
<1>. DEFINE m == Popped(r)
            j == Head(mem[r].queue)
<1>1. /\ Takes(m, j, clock) /\ Holds(m, store, sent) /\ clock \in 0..Horizon
      /\ Holds(mem[r], store, sent) /\ DOMAIN m = Fields /\ DOMAIN mem[r] = Fields
  <2>1. Alive(r) /\ mem[r].job = Idle /\ mem[r].queue # <<>>
    BY DEF RunDispatch, RunSync, RunExpire, RunOpen, RunReceive, RunClose, RunCloseIfLobby,
           Front
  <2>. QED BY <2>1, PoppedTakes, PoppedHolds, AliveHolds DEF Holds
<1>2. \A step, next : Attended(Saving(m, j, step, next), clock)
  BY <1>1, SavingAttends
<1>3. Attended(Stop(mem[r]), clock) /\ Attended(Stop(m), clock)
  BY <1>1, StopAttends
<1>4. clock' = clock
  BY DEF RunDispatch, RunSync, RunExpire, RunOpen, RunReceive, RunClose, RunCloseIfLobby
<1>5. j.kind \notin {"expire", "receive"} => Attended(m, clock)
  BY <1>1, DoneAttends
<1>6. CASE RunDispatch(r) \/ RunSync(r)
  <2>1. j.kind \notin {"expire", "receive"}
    BY <1>6 DEF RunDispatch, RunSync, Front
  <2>2. \/ mem' = [mem EXCEPT ![r] = m]
        \/ \E next : mem' = [mem EXCEPT ![r] = Saving(m, j, "last", next)]
    BY <1>6 DEF RunDispatch, RunSync
  <2>. HIDE DEF m, j
  <2>. QED BY <1>2, <1>4, <1>5, <2>1, <2>2, OneAttended
<1>7. CASE RunExpire(r)
  <2>1. j.kind = "expire"
    BY <1>7 DEF RunExpire, Front
  <2>2. mem' = [mem EXCEPT ![r] = IF Running(m) /\ MustExpire(m)
                                  THEN Saving(m, j, "last", Advanced(m)) ELSE m]
    BY <1>7 DEF RunExpire
  <2>. HIDE DEF m, j
  <2>3. CASE Running(m) /\ MustExpire(m)
    <3>1. mem' = [mem EXCEPT ![r] = Saving(m, j, "last", Advanced(m))]
      BY <2>2, <2>3
    <3>. QED BY <1>2, <1>4, <3>1, OneAttended
  <2>4. CASE ~(Running(m) /\ MustExpire(m))
    <3>1. Attended(m, clock)
      BY <1>1, <2>1, <2>4, CaughtUpAttends
    <3>2. mem' = [mem EXCEPT ![r] = m]
      BY <2>2, <2>4
    <3>. QED BY <1>4, <3>1, <3>2, OneAttended
  <2>. QED BY <2>3, <2>4
<1>8. CASE RunOpen(r)
  <2>. DEFINE opened == [m EXCEPT !.status = "open"]
  <2>1. j.kind = "open"
    BY <1>8 DEF RunOpen, Front
  <2>2. \/ mem' = [mem EXCEPT ![r] = Saving(m, j, "last", Advanced(m))]
        \/ mem' = [mem EXCEPT ![r] = Reconcile(opened)]
    BY <1>8 DEF RunOpen
  <2>. HIDE DEF m, j
  <2>3. /\ Kept(m, opened) /\ opened.queue = m.queue /\ opened.status = "open"
        /\ opened.attempts = m.attempts /\ opened.taskToken = m.taskToken
        /\ opened.tasks = m.tasks /\ opened.wake = m.wake /\ opened.retries = m.retries
    BY <1>1 DEF Kept, Fields
  <2>. HIDE DEF opened
  <2>4. Holds(opened, store, sent)
    BY <1>1, <2>3, TrimmedHolds
  <2>5. Running(opened) => Delivered(opened, Jobs(opened))
    <3>1. Running(m)
      BY <1>1, <2>1 DEF Takes, Opening, Running
    <3>2. Delivered(m, Jobs(m) \cup {j})
      BY <1>1, <3>1 DEF Takes, Watched
    <3>3. Delivered(m, Jobs(m))
      BY <2>1, <3>2 DEF Delivered
    <3>4. Jobs(opened) = Jobs(m)
      BY <2>3 DEF Jobs, Kept
    <3>. QED BY <2>3, <3>3, <3>4 DEF Delivered, Kept
  <2>6. Opening(opened, [kind |-> "sync"])
    BY <1>1, <2>3 DEF Takes, Opening, Kept
  <2>7. Attended(Reconcile(opened), clock)
    BY <2>4, <2>5, <2>6, ReconcileAttends
  <2>. QED BY <1>2, <1>4, <2>2, <2>7, OneAttended
<1>9. CASE RunReceive(r)
  <2>1. j.kind = "receive"
    BY <1>9 DEF RunReceive, Front
  <2>2. \/ ~(Running(m) /\ LiveTask(m, j.task)) /\ mem' = [mem EXCEPT ![r] = m]
        \/ mem' = [mem EXCEPT ![r] = Saving(m, j, "expire", Advanced(m))]
        \/ \E n \in Received(m, j) : mem' = [mem EXCEPT ![r] = n]
    BY <1>9 DEF RunReceive
  <2>. HIDE DEF m, j
  <2>3. ~(Running(m) /\ LiveTask(m, j.task)) => Attended(m, clock)
    BY <1>1, <2>1, StaleAttends
  <2>4. \A n \in Received(m, j) : Attended(n, clock)
    BY <1>1, <2>1, ReceivedAttends
  <2>. QED BY <1>2, <1>4, <2>2, <2>3, <2>4, OneAttended
<1>10. CASE RunClose(r) \/ RunCloseIfLobby(r)
  <2>1. j.kind \notin {"expire", "receive"}
    BY <1>10 DEF RunClose, RunCloseIfLobby, Front
  <2>2. \E n \in {m, Stop(mem[r]), Stop(m)} : mem' = [mem EXCEPT ![r] = n]
    BY <1>10 DEF RunClose, RunCloseIfLobby
  <2>. HIDE DEF m, j
  <2>. QED BY <1>3, <1>4, <1>5, <2>1, <2>2, OneAttended
<1>. QED BY <1>6, <1>7, <1>8, <1>9, <1>10

LEMMA SaveAttends ==
  ASSUME SafeRoom, SoundRoom, AllAttended, NEW r \in Runtimes,
         SaveFails(r) \/ Save(r) \/ Conflict(r)
  PROVE  AllAttended'
<1>. DEFINE j == mem[r].job.of
<1>1. /\ Holds(mem[r], store, sent) /\ Attended(mem[r], clock)
      /\ Safe(mem[r], store) /\ mem[r].job.stage = "saving" /\ DOMAIN mem[r] = Fields
      /\ clock' = clock
  BY AliveHolds, AliveSafe, AliveAttended DEF SaveFails, Save, Conflict, At, Holds
<1>2. CASE SaveFails(r)
  <2>. DEFINE m == [mem[r] EXCEPT !.job = Idle]
              retried == [m EXCEPT !.retries = @ \cup {j}]
  <2>1. \/ mem' = [mem EXCEPT ![r] = Down]
        \/ j.kind \in {"expire", "receive"} /\ mem' = [mem EXCEPT ![r] = retried]
        \/ j.kind \notin {"expire", "receive"} /\ mem' = [mem EXCEPT ![r] = m]
    BY <1>2 DEF SaveFails
  <2>2. /\ m.job = Idle /\ m.record = mem[r].record /\ m.wake = mem[r].wake
        /\ m.tasks = mem[r].tasks /\ m.status = mem[r].status /\ m.queue = mem[r].queue
        /\ m.retries = mem[r].retries /\ DOMAIN m = Fields
    BY <1>1 DEF Fields
  <2>. HIDE DEF m
  <2>3. /\ retried.job = Idle /\ retried.record = mem[r].record /\ retried.wake = mem[r].wake
        /\ retried.tasks = mem[r].tasks /\ retried.status = mem[r].status
        /\ retried.queue = mem[r].queue /\ retried.retries = mem[r].retries \cup {j}
    BY <2>2 DEF Fields
  <2>. HIDE DEF retried
  <2>4. Jobs(m) \cup {j} = Jobs(mem[r]) /\ Jobs(retried) = Jobs(mem[r])
    BY <1>1, <2>2, <2>3, IdleJobs DEF Jobs
  <2>5. \A k : k.kind # "open" => Opening(m, k) /\ Opening(retried, k)
    BY <1>1, <2>2, <2>3 DEF Opening, Attended, Opens
  <2>6. Watched(m, Jobs(m) \cup {j}, clock) /\ Watched(retried, Jobs(retried), clock)
    BY <1>1, <2>2, <2>3, <2>4, MoreJobs DEF Attended
  <2>7. j.kind # "open" => Takes(m, j, clock)
    BY <2>5, <2>6 DEF Takes
  <2>8. Attended(retried, clock)
    <3>1. Opening(retried, [kind |-> "sync"])
      BY <2>5
    <3>. QED BY <2>6, <3>1, WatchedAttends
  <2>9. j.kind \notin {"expire", "receive"} => j.kind = "open" \/ Attended(m, clock)
    BY <2>7, DoneAttends
  <2>10. j.kind = "open" => mem' = [mem EXCEPT ![r] = Down]
    BY <1>2 DEF SaveFails
  <2>. HIDE DEF j
  <2>. QED BY <1>1, <2>1, <2>8, <2>9, <2>10, OneAttended
<1>3. CASE Save(r)
  <2>. DEFINE saved == [mem[r].job EXCEPT !.stage = "saved"]
              n == [mem[r] EXCEPT !.job = saved]
  <2>1. mem' = [mem EXCEPT ![r] = n]
    BY <1>3 DEF Save
  <2>2. saved.stage = "saved" /\ saved.of = j
    BY <1>1 DEF Safe
  <2>. HIDE DEF saved
  <2>3. /\ n.job = saved /\ n.record = mem[r].record /\ n.wake = mem[r].wake
        /\ n.tasks = mem[r].tasks /\ n.status = mem[r].status /\ n.queue = mem[r].queue
        /\ n.retries = mem[r].retries
    BY <1>1 DEF Fields
  <2>. HIDE DEF n
  <2>4. Jobs(n) = Jobs(mem[r])
    BY <1>1, <2>2, <2>3 DEF Jobs
  <2>5. Opens(n)
    BY <1>1, <2>2, <2>3 DEF Attended, Opens
  <2>6. Watched(n, Jobs(n), clock)
    BY <1>1, <2>3, <2>4, MoreJobs DEF Attended
  <2>. QED BY <1>1, <2>1, <2>5, <2>6, OneAttended DEF Attended
<1>4. CASE Conflict(r)
  <2>1. Attended(Stop(mem[r]), clock)
    BY <1>1, StopAttends
  <2>2. \E n \in {Down, Stop(mem[r])} : mem' = [mem EXCEPT ![r] = n]
    BY <1>4 DEF Conflict
  <2>. QED BY <1>1, <2>1, <2>2, OneAttended
<1>. QED BY <1>2, <1>3, <1>4

\* The new record of a job that resumes keeps the results that are still of its window.
LEMMA ResumeTakes ==
  ASSUME SoundRoom, AllAttended, NEW r \in Runtimes, Alive(r), mem[r].job.stage = "saved",
         NEW m, m = Reconcile([mem[r] EXCEPT !.record = mem[r].job.next, !.job = Idle])
  PROVE  /\ Takes(m, mem[r].job.of, clock) /\ Holds(m, store, sent)
         /\ Running(m) => Timed(m, Jobs(m), clock) /\ Prepared(m)
<1>. DEFINE old == mem[r]
            j == old.job.of
            n == [old EXCEPT !.record = old.job.next, !.job = Idle]
<1>1. Holds(old, store, sent) /\ Attended(old, clock) /\ DOMAIN old = Fields
  BY AliveHolds, AliveAttended DEF Holds
<1>2. Holds(n, store, sent)
  BY <1>1, TakenHolds
<1>3. /\ n.record = old.job.next /\ n.job = Idle /\ n.tasks = old.tasks /\ n.queue = old.queue
      /\ n.status = old.status /\ n.retries = old.retries
  BY <1>1 DEF Fields
<1>4. m = Reconcile(n) /\ old.job.stage = "saved"
  OBVIOUS
<1>5. /\ old.record.state.phaseToken \in Nat /\ n.record.state.phaseToken \in Nat
      /\ n.record.state.phaseToken >= old.record.state.phaseToken
      /\ old.taskToken \in Nat \cup {-1} /\ old.taskToken <= old.record.state.phaseToken
      /\ \A t \in old.tasks : t.token = old.taskToken
  <2>1. /\ Account(old.record, sent) /\ Account(old.job.next, sent)
        /\ Follows(old.record.state, old.job.next.state)
    BY <1>1, <1>4, JobFacts DEF Holds, Prepares
  <2>2. /\ old.record.state.phaseToken \in Nat /\ old.job.next.state.phaseToken \in Nat
    BY <2>1, AccountFacts
  <2>3. old.job.next.state.phaseToken >= old.record.state.phaseToken
    BY <2>1, <2>2 DEF Follows
  <2>. QED BY <1>1, <1>3, <2>2, <2>3 DEF Holds, Assigned, RuntimeOK
<1>. HIDE DEF n, old, j
<1>6. Jobs(old) = Jobs(n) \cup {j}
  BY <1>3, <1>4, IdleJobs DEF Jobs, j
<1>7. Running(n) => Delivered(n, Jobs(n) \cup {j})
  <2>. SUFFICES ASSUME Running(n), NEW t \in n.tasks,
                       t.key = TopicKey, t.settled, t.token = n.record.state.phaseToken
                PROVE  \E i \in Jobs(n) \cup {j} :
                         i.kind = "receive" /\ i.task = [key |-> t.key, token |-> t.token]
    BY DEF Delivered
  <2>1. t \in old.tasks /\ Delivered(old, Jobs(old))
    BY <1>1, <1>3 DEF Attended, Watched, Running
  <2>2. t.token = old.record.state.phaseToken
    BY <1>5, <2>1
  <2>. QED BY <1>6, <2>1, <2>2 DEF Delivered
<1>8. /\ DOMAIN n = Fields /\ RuntimeOK(n) /\ Assigned(n) /\ Account(n.record, sent)
  BY <1>2 DEF Holds, Prepares
<1>9. Tended(n, m)
  BY <1>4, <1>8, ReconcileHolds
<1>10. Jobs(m) = Jobs(n)
  BY <1>9 DEF Jobs, Tended, Kept
<1>11. Running(n) =>
         /\ Delivered(m, Jobs(n) \cup {j}) /\ Prepared(m)
         /\ Timed(m, Jobs(n) \cup {j}, clock) /\ Timed(m, Jobs(n), clock)
  BY <1>4, <1>7, <1>8, ReconcileWatches
<1>12. Watched(m, Jobs(m) \cup {j}, clock)
  BY <1>9, <1>10, <1>11 DEF Watched, Tended, Running
<1>13. Opening(m, j)
  BY <1>1, <1>3, <1>4, <1>9 DEF Opening, Tended, Kept, Attended, Opens, j
<1>14. Holds(m, store, sent)
  BY <1>2, <1>4, ReconciledHolds
<1>15. Running(m) => Timed(m, Jobs(m), clock) /\ Prepared(m)
  BY <1>9, <1>10, <1>11 DEF Tended, Running
<1>. QED BY <1>12, <1>13, <1>14, <1>15 DEF Takes, j, old

LEMMA ResumeAttends ==
  ASSUME SafeRoom, SoundRoom, AllAttended, NEW r \in Runtimes, Resume(r)
  PROVE  AllAttended'
<1>. DEFINE j == mem[r].job.of
            taken == [mem[r] EXCEPT !.record = mem[r].job.next, !.job = Idle]
            m == Reconcile(taken)
            opened == [m EXCEPT !.status = "open"]
<1>1. Alive(r) /\ mem[r].job.stage = "saved" /\ clock' = clock
  BY DEF Resume, At
<1>2. /\ Takes(m, j, clock) /\ Holds(m, store, sent) /\ DOMAIN m = Fields
      /\ Running(m) => Timed(m, Jobs(m), clock) /\ Prepared(m)
  BY <1>1, ResumeTakes DEF Holds
<1>3. /\ j.kind \in {"dispatch", "sync"} => mem' = [mem EXCEPT ![r] = m]
      /\ j.kind = "expire" => mem' = [mem EXCEPT ![r] = m]
      /\ j.kind = "open" => mem' = [mem EXCEPT ![r] = opened]
      /\ j.kind = "receive" =>
           \/ \E n \in Received(m, j) : mem' = [mem EXCEPT ![r] = n]
           \/ ~LiveTask(m, j.task) /\ mem' = [mem EXCEPT ![r] = m]
           \/ mem' = [mem EXCEPT ![r] = EndTask(m, j.task)]
      /\ j.kind \in {"dispatch", "sync", "expire", "open", "receive"}
  BY DEF Resume, m, taken, opened, j
<1>. HIDE DEF m, taken, j
<1>4. CASE j.kind \in {"dispatch", "sync"}
  <2>1. Attended(m, clock)
    BY <1>2, <1>4, DoneAttends
  <2>. QED BY <1>1, <1>3, <1>4, <2>1, OneAttended
<1>5. CASE j.kind = "expire"
  <2>1. Delivered(m, Jobs(m) \cup {j}) => Delivered(m, Jobs(m))
    BY <1>5 DEF Delivered
  <2>2. m.status = "open" => Running(m)
    BY DEF Running
  <2>3. Opening(m, j) /\ Watched(m, Jobs(m), clock)
    BY <1>2, <2>1, <2>2 DEF Takes, Watched
  <2>4. Attended(m, clock)
    BY <2>3, WatchedAttends
  <2>. QED BY <1>1, <1>3, <1>5, <2>4, OneAttended
<1>6. CASE j.kind = "open"
  <2>1. /\ opened.job = m.job /\ opened.record = m.record /\ opened.wake = m.wake
        /\ opened.tasks = m.tasks /\ opened.status = "open" /\ opened.queue = m.queue
        /\ opened.retries = m.retries
    BY <1>2 DEF Fields
  <2>2. Running(m) /\ Opening(m, j)
    BY <1>2, <1>6 DEF Takes, Opening, Running
  <2>3. /\ Delivered(m, Jobs(m) \cup {j}) /\ Timed(m, Jobs(m), clock) /\ Prepared(m)
    BY <1>2, <2>2 DEF Takes, Watched
  <2>4. Jobs(opened) = Jobs(m)
    BY <2>1 DEF Jobs
  <2>. HIDE DEF opened
  <2>5. /\ Delivered(opened, Jobs(opened)) /\ Timed(opened, Jobs(opened), clock)
        /\ Prepared(opened)
    BY <1>6, <2>1, <2>3, <2>4 DEF Delivered, Timed, Prepared
  <2>6. Opening(opened, [kind |-> "sync"])
    BY <2>1, <2>2 DEF Opening
  <2>7. Attended(opened, clock)
    BY <2>5, <2>6, WatchedAttends DEF Watched
  <2>. QED BY <1>1, <1>3, <1>6, <2>7, OneAttended
<1>7. CASE j.kind = "receive"
  <2>1. \A n \in Received(m, j) : Attended(n, clock)
    BY <1>2, <1>7, ReceivedAttends
  <2>2. ~LiveTask(m, j.task) => Attended(m, clock)
    BY <1>2, <1>7, StaleAttends
  <2>3. Attended(EndTask(m, j.task), clock)
    BY <1>2, <1>7, EndTaskAttends
  <2>. QED BY <1>1, <1>3, <1>7, <2>1, <2>2, <2>3, OneAttended
<1>. QED BY <1>3, <1>4, <1>5, <1>6, <1>7

\* A job that joins the queue is not the one that opens the room.
LEMMA EnqueueAttends ==
  ASSUME NEW m, DOMAIN m = Fields, m.queue \in Seq(Job), Opens(m), NEW now,
         NEW j, j.kind # "open", Watched(m, Jobs(m) \cup {j}, now)
  PROVE  Attended(Enqueue(m, j), now)
<1>. DEFINE n == Enqueue(m, j)
<1>1. /\ n.queue = Append(m.queue, j) /\ n.status = m.status /\ n.job = m.job
      /\ n.tasks = m.tasks /\ n.wake = m.wake /\ n.retries = m.retries /\ n.record = m.record
  BY DEF Enqueue, Fields
<1>. HIDE DEF n
<1>2. /\ Len(n.queue) = Len(m.queue) + 1 /\ Len(m.queue) \in Nat
      /\ \A i \in 1..Len(m.queue) : n.queue[i] = m.queue[i]
      /\ n.queue[Len(m.queue) + 1] = j
  BY <1>1
<1>3. \A i \in 1..Len(n.queue) : i \in 1..Len(m.queue) \/ i = Len(m.queue) + 1
  BY <1>2
<1>4. Opens(n)
  BY <1>1, <1>2, <1>3 DEF Opens
<1>5. Jobs(m) \cup {j} \subseteq Jobs(n)
  <2>1. 1..Len(m.queue) \subseteq 1..Len(n.queue) /\ Len(m.queue) + 1 \in 1..Len(n.queue)
    BY <1>2
  <2>2. \A x \in Jobs(m) \cup {j} : x \in Jobs(n)
    BY <1>1, <1>2, <2>1 DEF Jobs
  <2>. QED BY <2>2
<1>6. Watched(n, Jobs(n), now)
  BY <1>1, <1>5, MoreJobs
<1>7. Attended(n, now)
  BY <1>4, <1>6 DEF Attended
<1>. QED BY <1>7 DEF n

\* background() drops a job only where nothing is watched any more.
LEMMA BackgroundAttends ==
  ASSUME NEW m, DOMAIN m = Fields, m.queue \in Seq(Job), Opens(m), NEW now,
         NEW j, j.kind # "open", Watched(m, Jobs(m) \cup {j}, now)
  PROVE  Attended(Background(m, j), now)
<1>1. CASE Running(m)
  BY <1>1, EnqueueAttends DEF Background
<1>2. CASE ~Running(m)
  BY <1>2 DEF Background, Attended, Watched, Running
<1>. QED BY <1>1, <1>2

LEMMA CallAttends ==
  ASSUME SafeRoom, SoundRoom, AllAttended, NEW r \in Runtimes,
         Dispatch(r) \/ Sync(r) \/ Close(r) \/ CloseIfLobby(r)
  PROVE  AllAttended'
<1>1. /\ mem[r].status = "open" /\ clock' = clock /\ Alive(r)
  BY DEF Dispatch, Sync, Close, CloseIfLobby, Callable, Alive
<1>2. /\ DOMAIN mem[r] = Fields /\ mem[r].queue \in Seq(Job)
      /\ Opens(mem[r]) /\ Watched(mem[r], Jobs(mem[r]), clock)
  BY <1>1, AliveHolds, AliveAttended DEF Holds, RuntimeOK, Attended
<1>3. CASE Dispatch(r) \/ Sync(r) \/ CloseIfLobby(r)
  <2>1. PICK j : j.kind # "open" /\ mem' = [mem EXCEPT ![r] = Enqueue(mem[r], j)]
    BY <1>3 DEF Dispatch, Sync, CloseIfLobby
  <2>2. Watched(mem[r], Jobs(mem[r]) \cup {j}, clock)
    BY <1>2, MoreJobs
  <2>3. Attended(Enqueue(mem[r], j), clock)
    BY <1>2, <2>1, <2>2, EnqueueAttends
  <2>. QED BY <1>1, <2>1, <2>3, OneAttended
<1>4. CASE Close(r)
  <2>. DEFINE m == [mem[r] EXCEPT !.status = "closing"]
              j == [kind |-> "close"]
  <2>1. mem' = [mem EXCEPT ![r] = Enqueue(m, j)]
    BY <1>4 DEF Close
  <2>2. /\ DOMAIN m = Fields /\ m.queue = mem[r].queue /\ m.status = "closing"
        /\ m.job = mem[r].job
    BY <1>2 DEF Fields
  <2>3. j.kind # "open"
    OBVIOUS
  <2>. HIDE DEF m, j
  <2>4. Opens(m) /\ Watched(m, Jobs(m) \cup {j}, clock)
    BY <1>1, <1>2, <2>2 DEF Opens, Watched, Running
  <2>5. Attended(Enqueue(m, j), clock)
    BY <1>2, <2>2, <2>3, <2>4, EnqueueAttends
  <2>. QED BY <1>1, <2>1, <2>5, OneAttended
<1>. QED BY <1>3, <1>4

LEMMA TaskEndsAttends ==
  ASSUME SafeRoom, SoundRoom, AllAttended, NEW r \in Runtimes, TaskEnds(r)
  PROVE  AllAttended'
<1>. DEFINE old == mem[r]
<1>1. PICK task \in old.tasks, outcome \in {"answered", "failed"} :
        mem' = [mem EXCEPT ![r] = Background(Settled(old, task),
                 [kind |-> "receive", outcome |-> outcome,
                  task |-> [key |-> task.key, token |-> task.token]])]
  BY DEF TaskEnds
<1>. DEFINE j == [kind |-> "receive", outcome |-> outcome,
                  task |-> [key |-> task.key, token |-> task.token]]
            done == [task EXCEPT !.settled = TRUE]
            m == Settled(old, task)
<1>2. mem' = [mem EXCEPT ![r] = Background(m, j)] /\ clock' = clock
  BY <1>1 DEF TaskEnds
<1>3. j.kind = "receive" /\ j.task = [key |-> task.key, token |-> task.token]
  OBVIOUS
<1>4. /\ DOMAIN old = Fields /\ old.queue \in Seq(Job)
      /\ Opens(old) /\ Watched(old, Jobs(old), clock)
      /\ task \in [key : TaskKey, token : Nat, settled : BOOLEAN]
  BY AliveHolds, AliveAttended DEF Holds, RuntimeOK, Attended, TaskEnds
<1>5. /\ DOMAIN m = Fields /\ m.queue = old.queue /\ m.status = old.status /\ m.job = old.job
      /\ m.record = old.record /\ m.wake = old.wake /\ m.retries = old.retries
      /\ m.tasks = (old.tasks \ {task}) \cup {done}
  BY <1>4 DEF Settled, Fields
<1>6. done.key = task.key /\ done.token = task.token
  BY <1>4
<1>. HIDE DEF old, j, done, m
<1>7. Opens(m) /\ Jobs(m) = Jobs(old)
  BY <1>4, <1>5 DEF Opens, Jobs
<1>8. Delivered(old, Jobs(old)) => Delivered(m, Jobs(m) \cup {j})
  <2>. SUFFICES ASSUME Delivered(old, Jobs(old)), NEW t \in m.tasks,
                       t.key = TopicKey, t.settled, t.token = m.record.state.phaseToken
                PROVE  \E i \in Jobs(m) \cup {j} :
                         i.kind = "receive" /\ i.task = [key |-> t.key, token |-> t.token]
    BY DEF Delivered
  <2>1. CASE t = done
    BY <1>3, <1>6, <2>1
  <2>2. CASE t # done
    BY <1>5, <1>7, <2>2 DEF Delivered
  <2>. QED BY <2>1, <2>2
<1>9. /\ Timed(old, Jobs(old), clock) => Timed(m, Jobs(m) \cup {j}, clock)
      /\ Prepared(old) => Prepared(m)
  <2>1. Timed(old, Jobs(old), clock) => Timed(m, Jobs(m) \cup {j}, clock)
    BY <1>5, <1>7 DEF Timed
  <2>2. \A t \in old.tasks : \E u \in m.tasks : u.key = t.key /\ u.token = t.token
    BY <1>5, <1>6
  <2>3. Prepared(old) => Prepared(m)
    BY <1>5, <2>2 DEF Prepared
  <2>. QED BY <2>1, <2>3
<1>10. Watched(m, Jobs(m) \cup {j}, clock)
  BY <1>4, <1>5, <1>8, <1>9 DEF Watched, Running
<1>11. Attended(Background(m, j), clock)
  BY <1>3, <1>4, <1>5, <1>7, <1>10, BackgroundAttends
<1>. QED BY <1>2, <1>11, OneAttended

\* The wake timer fires at its time, or later.
LEMMA WakeAttends ==
  ASSUME Early = 0, SafeRoom, SoundRoom, AllAttended, NEW r \in Runtimes, Wake(r)
  PROVE  AllAttended'
<1>. DEFINE old == mem[r]
            m == [old EXCEPT !.wake = NoTime]
            j == [kind |-> "expire"]
            s == old.record.state
<1>1. /\ Holds(old, store, sent) /\ Opens(old) /\ Watched(old, Jobs(old), clock)
      /\ DOMAIN old = Fields /\ old.queue \in Seq(Job) /\ clock \in Nat
  BY AliveHolds, AliveAttended, RoomBoundsAssumption DEF Wake, Attended, Holds, RuntimeOK
<1>2. old.wake # NoTime /\ clock >= old.wake /\ clock' = clock
  BY <1>1 DEF Wake
<1>3. /\ Kept(old, m) /\ m.queue = old.queue /\ m.status = old.status
      /\ m.attempts = old.attempts /\ m.taskToken = old.taskToken
      /\ m.tasks = old.tasks /\ m.wake = NoTime /\ m.retries = old.retries
  BY <1>1 DEF Kept, Fields
<1>4. /\ s.phase = "preparing" => mem' = [mem EXCEPT ![r] = Reconcile(m)]
      /\ s.phase # "preparing" => mem' = [mem EXCEPT ![r] = Background(m, j)]
  BY <1>3 DEF Wake, Kept
<1>5. j.kind = "expire"
  OBVIOUS
<1>. HIDE DEF m, j
<1>6. Holds(m, store, sent)
  BY <1>1, <1>3, TrimmedHolds
<1>. HIDE DEF old
<1>7. /\ Opens(m) /\ Jobs(m) = Jobs(old) /\ m.record = old.record
      /\ Delivered(old, Jobs(old)) => Delivered(m, Jobs(m))
  BY <1>1, <1>3 DEF Opens, Jobs, Kept, Delivered
<1>8. CASE s.phase = "preparing"
  <2>. DEFINE n == Reconcile(m)
  <2>1. /\ DOMAIN m = Fields /\ RuntimeOK(m) /\ Assigned(m) /\ Account(m.record, sent)
    BY <1>6 DEF Holds, Prepares
  <2>2. Tended(m, n)
    BY <2>1, ReconcileHolds
  <2>3. Running(m) => /\ Delivered(n, Jobs(m)) /\ Timed(n, Jobs(m), clock) /\ Prepared(n)
    BY <1>1, <1>3, <1>7, <2>1, ReconcileWatches DEF Watched, Running
  <2>. HIDE DEF n
  <2>4. Jobs(n) = Jobs(m) /\ Opens(n)
    BY <1>7, <2>2 DEF Jobs, Opens, Tended, Kept
  <2>5. Attended(n, clock)
    BY <2>2, <2>3, <2>4 DEF Attended, Watched, Running, Tended
  <2>. QED BY <1>2, <1>4, <1>8, <2>5, OneAttended DEF n
<1>9. CASE s.phase # "preparing"
  <2>1. Delivered(old, Jobs(old)) => Delivered(m, Jobs(m) \cup {j})
    BY <1>7 DEF Delivered
  <2>2. Timed(old, Jobs(old), clock) => Timed(m, Jobs(m) \cup {j}, clock)
    BY <1>2, <1>5, <1>7 DEF Timed
  <2>3. Prepared(m)
    BY <1>7, <1>9 DEF Prepared
  <2>4. Watched(m, Jobs(m) \cup {j}, clock)
    BY <1>1, <1>3, <2>1, <2>2, <2>3 DEF Watched, Running
  <2>5. Attended(Background(m, j), clock)
    BY <1>1, <1>3, <1>5, <1>7, <2>4, BackgroundAttends DEF Kept
  <2>. QED BY <1>2, <1>4, <1>9, <2>5, OneAttended
<1>. QED BY <1>8, <1>9

LEMMA RetryAttends ==
  ASSUME SafeRoom, SoundRoom, AllAttended, NEW r \in Runtimes, Retry(r)
  PROVE  AllAttended'
<1>. DEFINE old == mem[r]
<1>1. PICK j \in old.retries :
        mem' = [mem EXCEPT ![r] = Background([old EXCEPT !.retries = @ \ {j}], j)]
  BY DEF Retry
<1>. DEFINE m == [old EXCEPT !.retries = @ \ {j}]
<1>2. /\ DOMAIN old = Fields /\ old.queue \in Seq(Job) /\ j.kind # "open" /\ clock' = clock
      /\ Opens(old) /\ Watched(old, Jobs(old), clock)
  BY AliveHolds, AliveAttended DEF Retry, Holds, RuntimeOK, Queued, Attended
<1>3. /\ DOMAIN m = Fields /\ m.queue = old.queue /\ m.status = old.status /\ m.job = old.job
      /\ m.record = old.record /\ m.wake = old.wake /\ m.tasks = old.tasks
      /\ m.retries = old.retries \ {j}
  BY <1>2 DEF Fields
<1>4. mem' = [mem EXCEPT ![r] = Background(m, j)]
  BY <1>1
<1>. HIDE DEF old, m
<1>5. Opens(m) /\ Jobs(old) \subseteq Jobs(m) \cup {j}
  BY <1>2, <1>3 DEF Opens, Jobs
<1>6. Watched(m, Jobs(m) \cup {j}, clock)
  BY <1>2, <1>3, <1>5, MoreJobs
<1>7. Attended(Background(m, j), clock)
  BY <1>2, <1>3, <1>5, <1>6, BackgroundAttends
<1>. QED BY <1>2, <1>4, <1>7, OneAttended

LEMMA ProcessAttends ==
  ASSUME SafeRoom, SoundRoom, AllAttended, NEW r \in Runtimes, Open(r) \/ Crash(r) \/ Exit(r)
  PROVE  AllAttended'
<1>1. CASE Open(r) \/ Exit(r)
  <2>1. Attended(Opened, clock)
    <3>. DEFINE n == Opened
    <3>1. /\ n.status = "opening" /\ n.job = Idle /\ n.queue = <<[kind |-> "open"]>>
          /\ n.tasks = {}
      BY DEF Opened
    <3>. HIDE DEF n
    <3>2. Opens(n)
      BY <3>1 DEF Opens, Idle
    <3>3. Watched(n, Jobs(n), clock)
      BY <3>1 DEF Watched, Delivered
    <3>. QED BY <3>2, <3>3 DEF Attended, n
  <2>2. clock' = clock /\ \E n \in {Down, Opened} : mem' = [mem EXCEPT ![r] = n]
    BY <1>1 DEF Open, Exit
  <2>. QED BY <2>1, <2>2, OneAttended
<1>2. CASE Crash(r)
  <2>1. mem' = [mem EXCEPT ![r] = Down]
    BY <1>2 DEF Crash
  <2>2. CASE \E other \in Runtimes \ {r} : Alive(other)
    <3>1. clock' = clock
      BY <1>2, <2>2 DEF Crash
    <3>. QED BY <2>1, <3>1, OneAttended
  <2>3. CASE ~\E other \in Runtimes \ {r} : Alive(other)
    <3>1. ASSUME NEW q \in Runtimes PROVE mem'[q] = Down
      <4>1. CASE q = r
        BY <2>1, <4>1 DEF SafeRoom
      <4>2. CASE q # r
        <5>1. mem'[q] = mem[q] /\ ~Alive(q)
          BY <2>1, <2>3, <4>2 DEF SafeRoom
        <5>2. ~Holds(mem[q], store, sent)
          BY <5>1 DEF Alive, Holds, RuntimeOK
        <5>. QED BY <5>1, <5>2 DEF SoundRoom
      <4>. QED BY <4>1, <4>2
    <3>. QED BY <3>1 DEF AllAttended
  <2>. QED BY <2>2, <2>3
<1>. QED BY <1>1, <1>2

LEMMA QuietAttends ==
  ASSUME SafeRoom, SoundRoom, AllAttended,
         Send \/ Tick \/ UNCHANGED vars \/ \E r \in Runtimes : Subscribe(r)
  PROVE  AllAttended'
<1>1. mem' = mem /\ clock \in Nat
  BY RoomBoundsAssumption DEF Send, Tick, vars, Subscribe, SoundRoom
<1>2. clock' \in Nat /\ clock <= clock'
  BY <1>1 DEF Send, Tick, vars, Subscribe
<1>3. ASSUME NEW r \in Runtimes, mem[r] # Down
      PROVE  Attended(mem[r], clock')
  <2>1. Attended(mem[r], clock) /\ mem[r].record.state.deadlineAt \in Nat \cup {NoTime}
    BY <1>3, AccountFacts DEF AllAttended, SoundRoom, Holds, Prepares
  <2>. DEFINE m == mem[r]
  <2>. HIDE DEF m
  <2>2. Timed(m, Jobs(m), clock) => Timed(m, Jobs(m), clock')
    BY <1>1, <1>2, <2>1 DEF Timed, NoTime, m
  <2>. QED BY <2>1, <2>2 DEF Attended, Watched, m
<1>. QED BY <1>1, <1>3 DEF AllAttended

LEMMA InitAttends ==
  ASSUME Init
  PROVE  AllAttended
  BY DEF Init, InitWith, AllAttended

LEMMA NextAttends ==
  ASSUME Early = 0, SafeRoom, SoundRoom, AllAttended, [Next]_vars
  PROVE  AllAttended'
<1>1. CASE Send \/ Tick \/ UNCHANGED vars \/ \E r \in Runtimes : Subscribe(r)
  BY <1>1, QuietAttends
<1>2. ASSUME NEW r \in Runtimes, Work(r) PROVE AllAttended'
  BY <1>2, RunAttends, ResumeAttends, SaveAttends DEF Work
<1>3. ASSUME NEW r \in Runtimes,
             \/ Dispatch(r) \/ Sync(r) \/ Close(r) \/ CloseIfLobby(r)
             \/ TaskEnds(r) \/ Wake(r) \/ Retry(r)
      PROVE  AllAttended'
  BY <1>3, CallAttends, TaskEndsAttends, WakeAttends, RetryAttends
<1>4. ASSUME NEW r \in Runtimes, SaveFails(r) \/ Save(r) \/ Open(r) \/ Crash(r) \/ Exit(r)
      PROVE  AllAttended'
  BY <1>4, SaveAttends, ProcessAttends
<1>. QED BY <1>1, <1>2, <1>3, <1>4 DEF Next

-----------------------------------------------------------------------------
(* The theorems                                                            *)

\* The inductive invariant, for any number of runtimes, players and commands.
THEOREM RoomIsSafe == Spec => []SafeRoom
<1>1. Init => SafeRoom
  BY InitSafe
<1>2. SafeRoom /\ [Next]_vars => SafeRoom'
  BY NextSafe
<1>. QED BY <1>1, <1>2, PTL DEF Spec

(***************************************************************************)
(* Two runtimes that hold the same version hold the same record, and none  *)
(* is ahead of the store: the compare-and-swap of save() is enough.        *)
(***************************************************************************)
THEOREM VersionsAreNames == Spec => []VersionNamesRecord
<1>1. SafeRoom => VersionNamesRecord
  BY AliveSafe DEF VersionNamesRecord, Safe, Behind
<1>. QED BY <1>1, RoomIsSafe, PTL

\* What dispatch() told a player is in the store and stays there.
THEOREM AcksAreDurable == Spec => []AckIsDurable
<1>1. SafeRoom => AckIsDurable
  BY DEF SafeRoom, AckIsDurable
<1>. QED BY <1>1, RoomIsSafe, PTL

\* dispatch() decides a player's command id once, over all runtimes and restarts.
THEOREM CommandsAreDecidedOnce == Spec => []DecidedOnce
<1>1. SafeRoom => DecidedOnce
  BY DEF SafeRoom, Draft, Once, DecidedOnce
<1>. QED BY <1>1, RoomIsSafe, PTL

(***************************************************************************)
(* The second inductive invariant: every stored, held and prepared state   *)
(* is one that the rules can reach and the validator accepts.              *)
(***************************************************************************)
THEOREM RoomIsSound == Spec => [](SafeRoom /\ SoundRoom)
<1>1. Init => SafeRoom /\ SoundRoom
  BY InitSafe, InitHolds
<1>2. SafeRoom /\ SoundRoom /\ [Next]_vars => (SafeRoom /\ SoundRoom)'
  BY NextSafe, NextHolds
<1>. QED BY <1>1, <1>2, PTL DEF Spec

\* The stored record and what the runtimes hold of it keep the types of room-runtime.ts.
THEOREM RoomType == Spec => []TypeOK
<1>1. ASSUME SafeRoom, SoundRoom
      PROVE  TypeOK
  <2>1. clock \in Nat /\ store \in Record /\ seen \in Nat
    BY <1>1, RoomBoundsAssumption DEF SoundRoom, Account
  <2>2. \A r \in Runtimes : mem[r] = Down \/ RuntimeOK(mem[r])
    BY <1>1 DEF SoundRoom, Holds
  <2>3. acks \subseteq Receipt
    BY <1>1, <2>1 DEF SafeRoom, Record
  <2>. QED BY <1>1, <2>1, <2>2, <2>3 DEF TypeOK, SoundRoom
<1>. QED BY <1>1, RoomIsSound, PTL

(***************************************************************************)
(* Views are sent of committed records only: no subscriber is ever ahead   *)
(* of the store, so a crash takes nothing back.                            *)
(***************************************************************************)
THEOREM ViewsAreDurable == Spec => []SeenIsDurable
<1>1. SoundRoom => SeenIsDurable
  BY DEF SoundRoom, SeenIsDurable
<1>. QED BY <1>1, RoomIsSound, PTL

(***************************************************************************)
(* Every change of the stored state is one call of the rules of            *)
(* transition.ts on the state stored before: the runtime, its queue, late  *)
(* results, rivals and crashes add no behaviour to the game.               *)
(***************************************************************************)
THEOREM StoreStepsAreGameSteps == Spec => StepsAreGameSteps
<1>1. SafeRoom /\ SoundRoom /\ [Next]_vars => [Match!Next]_(store.state)
  BY StoreSteps
<1>. QED BY <1>1, RoomIsSound, PTL DEF Spec, StepsAreGameSteps

(***************************************************************************)
(* The refinement: the stored state of a room that is created is a         *)
(* behaviour of module Game, for which GameProofs shows the rest.          *)
(***************************************************************************)
THEOREM RoomImplementsGame == Spec => ImplementsGame
<1>1. Init => Match!Init
  BY InitStarts
<1>. QED BY <1>1, StoreStepsAreGameSteps, PTL
     DEF Spec, StepsAreGameSteps, ImplementsGame, Match!Spec

(***************************************************************************)
(* The third inductive invariant, where no timer fires before its time by  *)
(* the clock that deadlines are read on.                                   *)
(***************************************************************************)
THEOREM RoomIsAttended ==
  ASSUME Early = 0
  PROVE  Spec => [](SafeRoom /\ SoundRoom /\ AllAttended)
<1>1. Init => SafeRoom /\ SoundRoom /\ AllAttended
  BY InitSafe, InitHolds, InitAttends
<1>2. SafeRoom /\ SoundRoom /\ AllAttended /\ [Next]_vars
      => (SafeRoom /\ SoundRoom /\ AllAttended)'
  BY NextSafe, NextHolds, NextAttends
<1>. QED BY <1>1, <1>2, PTL DEF Spec

(***************************************************************************)
(* An open room that has nothing to do has its timer set, its topic on the *)
(* way or its pause running: reconcile() after every change is enough, if  *)
(* setTimeout is never early.  MCRoomEarly shows what an early one does.   *)
(***************************************************************************)
THEOREM NobodyIsStranded ==
  ASSUME Early = 0
  PROVE  Spec => []NeverStranded
<1>1. ASSUME SoundRoom, AllAttended
      PROVE  NeverStranded
  <2>. SUFFICES ASSUME NEW r \in Runtimes, Alive(r), mem[r].status = "open",
                       mem[r].job = Idle, mem[r].queue = <<>>, mem[r].retries = {}
                PROVE  /\ mem[r].record.state.deadlineAt # NoTime =>
                            mem[r].wake = mem[r].record.state.deadlineAt
                       /\ mem[r].record.state.phase = "preparing" =>
                            \/ mem[r].wake # NoTime
                            \/ \E t \in mem[r].tasks : t.key = TopicKey /\ ~t.settled
    BY DEF NeverStranded
  <2>1. Watched(mem[r], Jobs(mem[r]), clock)
    BY <1>1, AliveAttended DEF Attended
  <2>2. Jobs(mem[r]) = {}
    BY DEF Jobs, Idle
  <2>. QED BY <2>1, <2>2 DEF Watched, Running, Delivered, Timed, Prepared
<1>. QED BY <1>1, RoomIsAttended, PTL
=============================================================================
