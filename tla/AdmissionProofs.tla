--------------------------- MODULE AdmissionProofs ---------------------------
(***************************************************************************)
(* Proofs about Admission, for any requests, capacity and times, with any  *)
(* failures, restarts, deletions and repetitions: the types and the        *)
(* chairs, a player's session has its seat, what ended stays ended (from   *)
(* IInv), and what a refusal ends and what it leaves alone (from           *)
(* Answerable, a second invariant on top of it).                           *)
(***************************************************************************)
EXTENDS Admission, FiniteSetTheorems, TLAPS

\* A player is through only when the room has its receipt; earlier lives count for nothing.
Receipted ==
  \A c \in calls : c.kind = "admission" =>
    /\ c.life <= room.life
    /\ c.at = "welcome" /\ c.mode = "player" /\ c.life = room.life
       => room.receipts[c.req] = "joined"

Seated ==
  /\ IF room.there THEN room.life # 0 ELSE past.handed = {}
  /\ \A q \in Requests : room.receipts[q] = "joined" => q \in room.members
  /\ AdmittedIsMember
  /\ Receipted

IInv == TypeOK /\ Seated

-----------------------------------------------------------------------------
(* Types                                                                   *)

Kinds == {"issue", "find", "dispatch", "refused", "stopped", "welcome"}

LEMMA NewAdmission ==
  ASSUME NEW i \in Free, NEW q \in Requests, NEW mode \in Modes, NEW life \in 1..MaxLives
  PROVE  Admission(i, q, mode, life) \in Call
<1>1. i \in CallIds
  BY DEF Free
<1>. QED BY <1>1, AdmissionAssumption DEF Admission, Call

Moved(c, at, time) == [c EXCEPT !.at = at, !.time = time]

LEMMA MovedCall ==
  ASSUME NEW c \in Call, c.kind = "admission", NEW at \in Kinds, NEW time \in 0..MaxNow
  PROVE  /\ Moved(c, at, time) \in Call
         /\ Moved(c, at, time).kind = "admission" /\ Moved(c, at, time).at = at
         /\ Moved(c, at, time).req = c.req /\ Moved(c, at, time).mode = c.mode
         /\ Moved(c, at, time).life = c.life
<1>1. c \in [kind : {"admission"}, id : CallIds, at : Kinds, req : Requests,
             mode : Modes, life : 1..MaxLives, time : 0..MaxNow]
  BY DEF Call, Kinds
<1>. QED BY <1>1 DEF Call, Kinds, Moved

RoomType ==
  [life : 0..MaxLives, there : BOOLEAN, open : BOOLEAN, phase : {"lobby", "started", "full"},
   members : SUBSET Requests, receipts : [Requests -> {"none", "joined", "refused"}]]

LEMMA NewRoomTyped ==
  ASSUME NEW life \in 0..MaxLives
  PROVE  /\ NewRoom(life) \in RoomType
         /\ NewRoom(life).members = {} /\ NewRoom(life).life = life
         /\ \A q \in Requests : NewRoom(life).receipts[q] = "none"
BY DEF NewRoom, RoomType

\* A join keeps the types, the chairs and every receipt and member there was.
LEMMA JoinedTyped ==
  ASSUME room \in RoomType, Cardinality(room.members) <= Capacity, NEW q \in Requests
  PROVE  /\ Joined(q) \in RoomType
         /\ Cardinality(Joined(q).members) <= Capacity
         /\ Joined(q).life = room.life /\ Joined(q).there = room.there
         /\ room.members \subseteq Joined(q).members
         /\ \A p \in Requests : Joined(q).receipts[p] = room.receipts[p] \/ p = q
         /\ room.receipts[q] = "joined" => Joined(q).receipts[q] = "joined"
         /\ Joined(q).receipts[q] = "joined" /\ room.receipts[q] # "joined"
            => q \in Joined(q).members
<1>. DEFINE seated == [room EXCEPT !.members = @ \cup {q}, !.receipts[q] = "joined"]
<1>1. CASE Joined(q) = room
  BY <1>1
<1>2. CASE Joined(q) = [room EXCEPT !.receipts[q] = "refused"] /\ room.receipts[q] = "none"
  BY <1>2 DEF RoomType
<1>3. CASE Joined(q) = seated /\ room.receipts[q] = "none" /\ Cardinality(room.members) < Capacity
  <2>1. /\ seated.members = room.members \cup {q}
        /\ seated.receipts = [room.receipts EXCEPT ![q] = "joined"]
        /\ seated.life = room.life /\ seated.there = room.there
        /\ seated \in RoomType
    BY DEF RoomType
  <2>2. IsFiniteSet(room.members)
    BY FS_Subset, AdmissionAssumption DEF RoomType
  <2>3. /\ Cardinality(room.members) \in Nat
        /\ Cardinality(room.members \cup {q}) =
             IF q \in room.members THEN Cardinality(room.members) ELSE Cardinality(room.members) + 1
    BY <2>2, FS_CardinalityType, FS_AddElement
  <2>4. Cardinality(seated.members) <= Capacity
    BY <1>3, <2>1, <2>3, AdmissionAssumption
  <2>. HIDE DEF seated
  <2>. QED BY <1>3, <2>1, <2>4 DEF RoomType
<1>. QED BY <1>1, <1>2, <1>3 DEF Joined

\* A revocation changes one mark of a session, and only to "revoked".
LEMMA RevokedTyped ==
  ASSUME TypeOK, NEW q \in Requests, NEW whom \in {"refused", "stopped", "admin"}
  PROVE  /\ RevokedBy(q, whom) \in [Requests -> Session \cup {NoRecord}]
         /\ \A p \in Requests : RevokedBy(q, whom)[p] = table[p] \/ RevokedBy(q, whom)[p].revoked # "no"
<1>1. table \in [Requests -> Session \cup {NoRecord}]
  BY DEF TypeOK
<1>2. CASE RevokedBy(q, whom) = table
  BY <1>1, <1>2
<1>3. CASE table[q] # NoRecord /\ RevokedBy(q, whom) = [table EXCEPT ![q].revoked = whom]
  <2>. DEFINE record == [table[q] EXCEPT !.revoked = whom]
  <2>1. table[q] \in Session
    BY <1>1, <1>3
  <2>2. record \in Session /\ record.revoked # "no"
    BY <2>1 DEF Session
  <2>3. RevokedBy(q, whom) = [table EXCEPT ![q] = record]
    BY <1>3
  <2>. HIDE DEF record
  <2>. QED BY <1>1, <2>2, <2>3
<1>. QED BY <1>2, <1>3 DEF RevokedBy

-----------------------------------------------------------------------------
(* The invariant                                                           *)

LEMMA InitSafe == Init => IInv
<1>1. Init => TypeOK
  <2>. SUFFICES ASSUME Init PROVE TypeOK
    OBVIOUS
  <2>1. /\ room.members = {} /\ room \in RoomType
    <3>. DEFINE n == NewRoom(0)
    <3>1. n \in RoomType /\ n.members = {}
      BY NewRoomTyped, AdmissionAssumption
    <3>2. room = [n EXCEPT !.there = FALSE, !.open = FALSE]
      BY DEF Init
    <3>. HIDE DEF n
    <3>. QED BY <3>1, <3>2 DEF RoomType
  <2>2. Cardinality({}) = 0
    BY FS_EmptySet
  <2>. QED BY <2>1, <2>2, AdmissionAssumption DEF Init, TypeOK, RoomType
<1>2. Init => Seated
  BY DEF Init, Seated, AdmittedIsMember, Receipted, NewRoom
<1>. QED BY <1>1, <1>2 DEF IInv

\* A call ends, or goes on without being through.
LEMMA CallMoves ==
  ASSUME IInv, NEW c \in calls, c.kind = "admission", NEW at \in Kinds, NEW time \in 0..MaxNow,
         at # "welcome" \/ c.mode # "player",
         \/ calls' = calls \ {c}
         \/ calls' = (calls \ {c}) \cup {[c EXCEPT !.at = at, !.time = time]},
         room' = room
  PROVE  calls' \subseteq Call /\ Receipted'
<1>1. c \in Call /\ calls \subseteq Call
  BY DEF IInv, TypeOK
<1>2. /\ Moved(c, at, time) \in Call
      /\ Moved(c, at, time).at = at /\ Moved(c, at, time).mode = c.mode
      /\ Moved(c, at, time).life = c.life
  BY <1>1, MovedCall
<1>3. \A e \in calls' : e \in calls \/ e = Moved(c, at, time)
  BY DEF Moved
<1>. QED BY <1>1, <1>2, <1>3 DEF IInv, Seated, Receipted

LEMMA IssueSafe == ASSUME IInv, NEW c \in calls, Issue(c) PROVE IInv'
<1>. USE DEF IInv
<1>1. c \in Call /\ c.kind = "admission" /\ UNCHANGED <<room, now, past>>
  BY DEF Issue, TypeOK
<1>2. c.req \in Requests /\ c.mode \in Modes
  BY <1>1 DEF Call
<1>3. now \in 0..MaxNow /\ 0 \in 0..MaxNow
  BY AdmissionAssumption DEF TypeOK
<1>4. calls' \subseteq Call /\ Receipted'
  <2>1. CASE calls' = calls \ {c}
    BY <1>1, <1>3, <2>1, CallMoves DEF Kinds
  <2>2. CASE Goes(c, Onward(c))
    <3>1. CASE c.mode = "player"
      BY <1>1, <1>3, <2>2, <3>1, CallMoves DEF Kinds, Goes, Onward
    <3>2. CASE c.mode # "player"
      BY <1>1, <1>3, <2>2, <3>2, CallMoves DEF Kinds, Goes, Onward
    <3>. QED BY <3>1, <3>2
  <2>3. CASE calls' = (calls \ {c}) \cup {[c EXCEPT !.at = "find", !.time = now]}
    BY <1>1, <1>3, <2>3, CallMoves DEF Kinds
  <2>. QED BY <2>1, <2>2, <2>3 DEF Issue
<1>5. table' \in [Requests -> Session \cup {NoRecord}]
  <2>1. [viewer |-> c.mode, created |-> now, seen |-> now, revoked |-> "no"] \in Session
    BY <1>2, <1>3 DEF Session
  <2>. QED BY <2>1 DEF Issue, TypeOK
<1>6. TypeOK'
  BY <1>1, <1>4, <1>5 DEF TypeOK
<1>. QED BY <1>1, <1>4, <1>6 DEF Seated, AdmittedIsMember

LEMMA FoundSafe == ASSUME IInv, NEW c \in calls, Found(c) PROVE IInv'
<1>. USE DEF IInv
<1>1. c.kind = "admission" /\ UNCHANGED <<table, room, now, past>>
  BY DEF Found
<1>2. 0 \in 0..MaxNow
  BY AdmissionAssumption
<1>3. calls' \subseteq Call /\ Receipted'
  <2>1. CASE calls' = calls \ {c}
    BY <1>1, <1>2, <2>1, CallMoves DEF Kinds
  <2>2. CASE Goes(c, Onward(c))
    <3>1. CASE c.mode = "player"
      BY <1>1, <1>2, <2>2, <3>1, CallMoves DEF Kinds, Goes, Onward
    <3>2. CASE c.mode # "player"
      BY <1>1, <1>2, <2>2, <3>2, CallMoves DEF Kinds, Goes, Onward
    <3>. QED BY <3>1, <3>2
  <2>. QED BY <2>1, <2>2 DEF Found
<1>4. TypeOK'
  BY <1>1, <1>3 DEF TypeOK
<1>. QED BY <1>1, <1>3, <1>4 DEF Seated, AdmittedIsMember

LEMMA DispatchSafe == ASSUME IInv, NEW c \in calls, Dispatch(c) PROVE IInv'
<1>. USE DEF IInv
<1>1. /\ c \in Call /\ c.kind = "admission" /\ c.at = "dispatch"
      /\ UNCHANGED <<table, now, past>> /\ 0 \in 0..MaxNow
  BY AdmissionAssumption DEF Dispatch, TypeOK
<1>2. c.req \in Requests /\ room \in RoomType /\ Cardinality(room.members) <= Capacity
  BY <1>1 DEF Call, TypeOK, RoomType
<1>3. CASE room.open /\ room.life = c.life /\ room' = Joined(c.req) /\ Goes(c, Verdict(c.req))
  <2>. DEFINE q == c.req
              d == Moved(c, Verdict(q), 0)
  <2>1. /\ room' \in RoomType /\ Cardinality(room'.members) <= Capacity
        /\ room'.life = room.life /\ room'.there = room.there
        /\ room.members \subseteq room'.members
        /\ \A p \in Requests : room'.receipts[p] = room.receipts[p] \/ p = q
        /\ room.receipts[q] = "joined" => room'.receipts[q] = "joined"
        /\ room'.receipts[q] = "joined" /\ room.receipts[q] # "joined" => q \in room'.members
    BY <1>2, <1>3, JoinedTyped
  <2>2. Verdict(q) \in Kinds /\ (Verdict(q) = "welcome" => room'.receipts[q] = "joined")
    BY <1>3 DEF Verdict, Kinds
  <2>3. /\ d \in Call /\ d.at = Verdict(q) /\ d.req = q /\ d.life = c.life
        /\ calls' = (calls \ {c}) \cup {d}
    <3>1. calls' = (calls \ {c}) \cup {d}
      BY <1>3 DEF Goes, Moved
    <3>. HIDE DEF d
    <3>2. d = Moved(c, Verdict(q), 0)
      BY DEF d
    <3>. QED BY <1>1, <2>2, <3>1, <3>2, MovedCall
  <2>. HIDE DEF d
  <2>4. TypeOK'
    BY <1>1, <2>1, <2>3 DEF TypeOK, RoomType
  <2>5. Receipted'
    <3>. SUFFICES ASSUME NEW e \in calls', e.kind = "admission"
                  PROVE  /\ e.life <= room'.life
                         /\ e.at = "welcome" /\ e.mode = "player" /\ e.life = room'.life
                            => room'.receipts[e.req] = "joined"
      BY DEF Receipted
    <3>1. CASE e = d
      BY <1>1, <2>1, <2>2, <2>3, <3>1 DEF Seated, Receipted
    <3>2. CASE e \in calls
      <4>1. e.req \in Requests
        BY <3>2 DEF TypeOK, Call
      <4>. QED BY <2>1, <3>2, <4>1 DEF Seated, Receipted
    <3>. QED BY <2>3, <3>1, <3>2
  <2>6. \A p \in Requests : room'.receipts[p] = "joined" => p \in room'.members
    BY <2>1 DEF Seated
  <2>7. AdmittedIsMember'
    BY <1>1, <2>1 DEF Seated, AdmittedIsMember
  <2>. QED BY <1>1, <2>1, <2>4, <2>5, <2>6, <2>7 DEF Seated
<1>4. CASE room' = room /\ (calls' = calls \ {c} \/ Goes(c, "stopped"))
  <2>1. calls' \subseteq Call /\ Receipted'
    BY <1>1, <1>4, CallMoves DEF Kinds, Goes
  <2>2. TypeOK'
    BY <1>1, <1>4, <2>1 DEF TypeOK
  <2>. QED BY <1>1, <1>4, <2>1, <2>2 DEF Seated, AdmittedIsMember
<1>. QED BY <1>3, <1>4 DEF Dispatch

\* Where the room and the calls are what they were, the table alone may disturb the invariant.
LEMMA TableSafe ==
  ASSUME IInv, table' \in [Requests -> Session \cup {NoRecord}], calls' \subseteq calls,
         UNCHANGED <<room, now, past>>
  PROVE  IInv'
BY DEF IInv, TypeOK, Seated, AdmittedIsMember, Receipted

LEMMA HandOutSafe == ASSUME IInv, NEW c \in calls, HandOut(c) PROVE IInv'
<1>. USE DEF IInv
<1>1. /\ c \in Call /\ c.kind = "admission" /\ c.at = "welcome"
      /\ calls' = calls \ {c} /\ UNCHANGED <<table, room, now>>
  BY DEF HandOut, TypeOK
<1>2. c.req \in Requests /\ c.mode \in Modes
  BY <1>1 DEF Call
<1>3. CASE past' = past
  BY <1>1, <1>3 DEF TypeOK, Seated, AdmittedIsMember, Receipted
<1>4. CASE /\ room.there /\ c.life = room.life
           /\ past' = [past EXCEPT !.handed = @ \cup {<<c.req, c.mode>>}]
  <2>1. past'.handed = past.handed \cup {<<c.req, c.mode>>} /\ past'.cut = past.cut
    BY <1>4 DEF TypeOK
  <2>2. TypeOK'
    BY <1>1, <1>2, <1>4 DEF TypeOK
  <2>3. c.mode = "player" => c.req \in room.members /\ room.receipts[c.req] = "joined"
    BY <1>1, <1>2, <1>4 DEF Seated, Receipted
  <2>4. AdmittedIsMember'
    BY <1>1, <2>1, <2>3 DEF Seated, AdmittedIsMember
  <2>. QED BY <1>1, <1>4, <2>2, <2>4 DEF Seated, Receipted
<1>. QED BY <1>3, <1>4 DEF HandOut

LEMMA LostTyped ==
  ASSUME NEW failed \in SUBSET Call
  PROVE  Lost(failed) \subseteq Requests
BY DEF Lost, Call

LEMMA StoreFailsSafe == ASSUME IInv, NEW c \in calls, StoreFails(c) PROVE IInv'
<1>1. /\ c \in Call /\ c.kind = "admission" /\ calls' = calls \ {c}
      /\ past' = [past EXCEPT !.cut = @ \cup Lost({c})] /\ UNCHANGED <<table, room, now>>
  BY DEF StoreFails, IInv, TypeOK
<1>2. Lost({c}) \subseteq Requests
  BY <1>1, LostTyped DEF IInv, TypeOK
<1>3. TypeOK' /\ past'.handed = past.handed
  BY <1>1, <1>2 DEF IInv, TypeOK
<1>. QED BY <1>1, <1>3 DEF IInv, Seated, AdmittedIsMember, Receipted

LEMMA ActivateSafe == ASSUME IInv, NEW c \in calls, Activate(c) PROVE IInv'
<1>1. c \in Call /\ c.kind = "authorization" /\ calls' = calls \ {c} /\ UNCHANGED <<room, now, past>>
  BY DEF Activate, IInv, TypeOK
<1>2. c.req \in Requests
  BY <1>1 DEF Call
<1>3. Touched(c) \in [Requests -> Session \cup {NoRecord}]
  <2>1. CASE Touches(c.req)
    <3>. DEFINE record == [table[c.req] EXCEPT !.seen = now]
    <3>1. table[c.req] \in Session /\ now \in 0..MaxNow
      BY <1>2, <2>1 DEF Touches, InForce, IInv, TypeOK
    <3>2. record \in Session
      BY <3>1 DEF Session
    <3>3. Touched(c) = [table EXCEPT ![c.req] = record]
      BY <2>1 DEF Touched
    <3>. HIDE DEF record
    <3>. QED BY ZenonT(60), <3>2, <3>3 DEF IInv, TypeOK
  <2>2. CASE ~Touches(c.req)
    BY <2>2 DEF Touched, IInv, TypeOK
  <2>. QED BY <2>1, <2>2
<1>. QED BY <1>1, <1>3, TableSafe DEF Activate, IInv, TypeOK

\* The room may close, start, fill and come back: its members and receipts are kept.
LEMMA RoomSafe ==
  ASSUME IInv, room' \in RoomType, room'.life = room.life, room'.there = room.there,
         room'.members = room.members, room'.receipts = room.receipts,
         calls' \subseteq calls, UNCHANGED <<table, now>>,
         past'.handed = past.handed, past' \in [handed : SUBSET (Requests \X Modes), cut : SUBSET Requests]
  PROVE  IInv'
BY DEF IInv, TypeOK, RoomType, Seated, AdmittedIsMember, Receipted

LEMMA RoomIsAlive == IInv /\ room.there => room.life \in 1..MaxLives
BY DEF IInv, Seated, TypeOK

LEMMA EnterSafe ==
  ASSUME IInv, NEW i \in Free, NEW q \in Requests, NEW mode \in Modes,
         CreateRoom(i, q, mode) \/ JoinRoom(i, q, mode)
  PROVE  IInv'
<1>. USE DEF IInv
<1>. DEFINE call(life) == Admission(i, q, mode, life)
<1>1. CASE CreateRoom(i, q, mode)
  <2>1. /\ room.life + 1 \in 1..MaxLives /\ room.life + 1 \in 0..MaxLives /\ room.life \in Nat
        /\ past.handed = {} /\ ~room.there
    BY <1>1, AdmissionAssumption DEF CreateRoom, TypeOK, Seated
  <2>2. /\ room' \in RoomType /\ room'.members = {} /\ room'.life = room.life + 1
        /\ \A p \in Requests : room'.receipts[p] = "none"
    BY <1>1, <2>1, NewRoomTyped DEF CreateRoom
  <2>3. call(room.life + 1) \in Call
    BY <2>1, NewAdmission
  <2>4. call(room.life + 1).at = "issue" /\ call(room.life + 1).life = room.life + 1
    BY DEF Admission
  <2>5. calls' = calls \cup {call(room.life + 1)} /\ UNCHANGED <<table, now, past>>
    BY <1>1 DEF CreateRoom
  <2>. HIDE DEF call
  <2>6. TypeOK'
    <3>1. Cardinality(room'.members) = 0
      BY <2>2, FS_EmptySet
    <3>. QED BY <2>2, <2>3, <2>5, <3>1, AdmissionAssumption DEF TypeOK, RoomType
  <2>7. Receipted'
    <3>1. \A c \in calls : c.kind = "admission" => c.life \in Nat /\ c.life <= room.life
      BY AdmissionAssumption DEF Seated, Receipted, TypeOK, Call
    <3>. QED BY <2>1, <2>2, <2>4, <2>5, <3>1 DEF Receipted
  <2>. QED BY <2>1, <2>2, <2>5, <2>6, <2>7 DEF Seated, AdmittedIsMember
<1>2. CASE JoinRoom(i, q, mode)
  <2>1. room.life \in 1..MaxLives
    BY <1>2, RoomIsAlive DEF JoinRoom
  <2>2. call(room.life) \in Call
    BY <2>1, NewAdmission
  <2>3. call(room.life).at = "issue" /\ call(room.life).life = room.life
    BY DEF Admission
  <2>4. calls' = calls \cup {call(room.life)} /\ UNCHANGED <<table, room, now, past>>
    BY <1>2 DEF JoinRoom
  <2>. HIDE DEF call
  <2>5. TypeOK'
    BY <2>2, <2>4 DEF TypeOK
  <2>6. Receipted'
    BY <2>1, <2>3, <2>4 DEF Seated, Receipted
  <2>. QED BY <2>4, <2>5, <2>6 DEF Seated, AdmittedIsMember
<1>. QED BY <1>1, <1>2

LEMMA AuthorizeSafe == ASSUME IInv, NEW i \in Free, NEW q \in Requests, Authorize(i, q) PROVE IInv'
<1>. DEFINE call == [kind |-> "authorization", id |-> i, req |-> q, record |-> table[q]]
<1>1. call \in Call /\ call.kind = "authorization"
  BY DEF Authorize, IInv, TypeOK, Call, Free
<1>2. calls' = calls \cup {call} /\ UNCHANGED <<table, room, now, past>>
  BY DEF Authorize
<1>. HIDE DEF call
<1>3. TypeOK'
  BY <1>1, <1>2 DEF IInv, TypeOK
<1>. QED BY <1>1, <1>2, <1>3 DEF IInv, Seated, AdmittedIsMember, Receipted

LEMMA DeleteSafe == ASSUME IInv, DeleteRoom PROVE IInv'
<1>1. /\ room' = [room EXCEPT !.there = FALSE, !.open = FALSE]
      /\ past' = [handed |-> {}, cut |-> {}] /\ UNCHANGED <<calls, now>>
      /\ table' \in [Requests -> Session \cup {NoRecord}]
  BY DEF DeleteRoom
<1>2. /\ room' \in RoomType /\ room'.life = room.life
      /\ room'.members = room.members /\ room'.receipts = room.receipts
  BY <1>1 DEF IInv, TypeOK, RoomType
<1>3. TypeOK'
  BY <1>1, <1>2 DEF IInv, TypeOK, RoomType
<1>. QED BY <1>1, <1>2, <1>3 DEF IInv, Seated, AdmittedIsMember, Receipted

LEMMA RestartSafe == ASSUME IInv, Restart PROVE IInv'
<1>1. /\ room' = [room EXCEPT !.open = room.there] /\ calls' = {} /\ UNCHANGED <<table, now>>
      /\ past' = [past EXCEPT !.cut = @ \cup Lost(calls)]
  BY DEF Restart
<1>2. Lost(calls) \subseteq Requests
  BY LostTyped DEF IInv, TypeOK
<1>3. /\ past' \in [handed : SUBSET (Requests \X Modes), cut : SUBSET Requests]
      /\ past'.handed = past.handed
  BY <1>1, <1>2 DEF IInv, TypeOK
<1>4. /\ room' \in RoomType /\ room'.life = room.life /\ room'.there = room.there
      /\ room'.members = room.members /\ room'.receipts = room.receipts
  BY <1>1 DEF IInv, TypeOK, RoomType
<1>. QED BY <1>1, <1>3, <1>4, RoomSafe

LEMMA NextSafe == IInv /\ [Next]_vars => IInv'
<1>. SUFFICES ASSUME IInv, [Next]_vars PROVE IInv'
  OBVIOUS
<1>1. CASE UNCHANGED vars
  BY <1>1 DEF vars, IInv, TypeOK, Seated, AdmittedIsMember, Receipted
<1>2. ASSUME NEW q \in Requests, NEW i \in Free, NEW mode \in Modes,
             CreateRoom(i, q, mode) \/ JoinRoom(i, q, mode)
      PROVE  IInv'
  BY <1>2, EnterSafe
<1>3. ASSUME NEW q \in Requests, NEW i \in Free, Authorize(i, q) PROVE IInv'
  BY <1>3, AuthorizeSafe
<1>4. ASSUME NEW c \in calls,
             Issue(c) \/ Found(c) \/ Dispatch(c) \/ HandOut(c) \/ StoreFails(c) \/ Activate(c)
      PROVE  IInv'
  BY <1>4, IssueSafe, FoundSafe, DispatchSafe, HandOutSafe, StoreFailsSafe, ActivateSafe
<1>5. ASSUME NEW c \in calls, Revoke(c) PROVE IInv'
  <2>1. c.req \in Requests
    BY DEF IInv, TypeOK, Call
  <2>. QED BY <1>5, <2>1, RevokedTyped, TableSafe DEF Revoke, IInv
<1>6. ASSUME NEW q \in Requests, AdminRevoke(q) PROVE IInv'
  BY <1>6, RevokedTyped, TableSafe DEF AdminRevoke, IInv
<1>7. CASE CleanUp
  <2>1. table' \in [Requests -> Session \cup {NoRecord}]
    BY <1>7 DEF CleanUp, IInv, TypeOK
  <2>. QED BY <1>7, <2>1, TableSafe DEF CleanUp
<1>8. CASE Start \/ FillReceipts \/ CloseRuntime
  <2>1. /\ room' \in RoomType /\ room'.life = room.life /\ room'.there = room.there
        /\ room'.members = room.members /\ room'.receipts = room.receipts
    BY ZenonT(60), <1>8 DEF Start, FillReceipts, CloseRuntime, IInv, TypeOK, RoomType
  <2>. QED BY <1>8, <2>1, RoomSafe DEF Start, FillReceipts, CloseRuntime, IInv, TypeOK
<1>9. CASE Tick
  BY <1>9, AdmissionAssumption DEF Tick, IInv, TypeOK, Seated, AdmittedIsMember, Receipted
<1>. QED BY <1>1, <1>2, <1>3, <1>4, <1>5, <1>6, <1>7, <1>8, <1>9, DeleteSafe, RestartSafe DEF Next

-----------------------------------------------------------------------------
(* Refusals: the second invariant                                          *)

\* No sessions without their room.
Emptied == ~room.there => \A q \in Requests : table[q] = NoRecord

\* The room refuses the join of q, now and for ever.
Refuses(q) ==
  \/ room.receipts[q] = "refused"
  \/ room.receipts[q] = "none" /\ room.phase = "full"

\* Whoever is being refused, or was and lost the session for it, is refused for good.
RefusedStays ==
  /\ \A c \in calls :
       c.kind = "admission" /\ c.at = "refused" /\ c.life = room.life => Refuses(c.req)
  /\ \A q \in Requests : table[q] # NoRecord /\ table[q].revoked = "refused" => Refuses(q)

\* A call of q that is to take its session back, or may still have to.
Owing(q, c) ==
  c.kind = "admission" /\ c.req = q /\ c.at \in {"dispatch", "refused", "stopped"}

\* A refused player's session that is in force waits for a call, unless that one was cut off.
Owed(q) ==
  /\ room.there /\ room.receipts[q] = "refused" /\ q \notin past.cut
  /\ InForce(q) /\ table[q].viewer = "player"

Tracked == \A q \in Requests : Owed(q) => \E c \in calls : Owing(q, c)

Answerable == Emptied /\ RefusedStays /\ Tracked

\* What a step may make of one session.
Issued(q, c) ==
  /\ Issue(c) /\ c.req = q /\ room.there /\ table[q] = NoRecord
  /\ Goes(c, Onward(c)) /\ table'[q].viewer = c.mode /\ table'[q].revoked = "no"

Taken(q, c) == Revoke(c) /\ c.req = q

Kept(q) ==
  \/ table'[q] = NoRecord
  \/ /\ table[q] # NoRecord /\ table'[q].revoked = table[q].revoked
     /\ table'[q].viewer = table[q].viewer /\ table'[q].created = table[q].created

LEMMA SessionSteps ==
  ASSUME IInv, Next, NEW q \in Requests
  PROVE  \/ Kept(q)
         \/ \E c \in calls : Issued(q, c)
         \/ /\ table[q] # NoRecord /\ table'[q].revoked # "no" /\ UNCHANGED <<room, past>>
            /\ table'[q].revoked = "refused" =>
                 \E c \in calls : Taken(q, c) /\ c.at = "refused" /\ c.life = room.life
<1>1. table \in [Requests -> Session \cup {NoRecord}]
  BY DEF IInv, TypeOK
<1>2. CASE table'[q] = table[q] \/ table'[q] = NoRecord
  BY <1>2 DEF Kept
<1>3. ASSUME NEW c \in calls, Issue(c), table'[q] # table[q]
      PROVE  Issued(q, c)
  <2>1. /\ room.there /\ table[c.req] = NoRecord /\ Goes(c, Onward(c))
        /\ table' = [table EXCEPT ![c.req] =
             [viewer |-> c.mode, created |-> now, seen |-> now, revoked |-> "no"]]
    BY <1>3 DEF Issue
  <2>2. c.req = q
    BY <1>1, <1>3, <2>1
  <2>. QED BY <1>1, <1>3, <2>1, <2>2 DEF Issued
<1>4. ASSUME NEW c \in calls, Activate(c) PROVE Kept(q)
  <2>1. CASE table' = table
    BY <2>1 DEF Kept
  <2>2. CASE table' = [table EXCEPT ![c.req].seen = now] /\ Touches(c.req)
    <3>1. CASE c.req # q
      BY <1>1, <2>2, <3>1 DEF Kept
    <3>2. CASE c.req = q
      <4>1. table[q] \in Session /\ table[q] # NoRecord
        BY <1>1, <2>2, <3>2 DEF Touches, InForce
      <4>2. table'[q] = [table[q] EXCEPT !.seen = now]
        BY <1>1, <2>2, <3>2
      <4>. QED BY <4>1, <4>2 DEF Kept, Session
    <3>. QED BY <3>1, <3>2
  <2>. QED BY <1>4, <2>1, <2>2 DEF Activate, Touched
<1>5. ASSUME NEW p \in Requests, NEW whom \in {"refused", "stopped", "admin"},
             table' = RevokedBy(p, whom), table'[q] # table[q]
      PROVE  p = q /\ table[q] # NoRecord /\ table'[q].revoked = whom
  <2>1. /\ table[p] # NoRecord /\ table' = [table EXCEPT ![p].revoked = whom]
    BY <1>5 DEF RevokedBy
  <2>2. p = q
    BY <1>1, <1>5, <2>1
  <2>3. table'[q] = [table[q] EXCEPT !.revoked = whom] /\ table[q] \in Session
    BY <1>1, <2>1, <2>2
  <2>. QED BY <2>1, <2>2, <2>3 DEF Session
<1>6. ASSUME NEW c \in calls, Revoke(c), table'[q] # table[q]
      PROVE  /\ table[q] # NoRecord /\ table'[q].revoked # "no" /\ UNCHANGED <<room, past>>
             /\ table'[q].revoked = "refused" =>
                  Taken(q, c) /\ c.at = "refused" /\ c.life = room.life
  <2>. DEFINE whom == IF c.life = room.life THEN c.at ELSE "stopped"
  <2>1. c.req \in Requests /\ whom \in {"refused", "stopped", "admin"}
        /\ table' = RevokedBy(c.req, whom)
    BY <1>6 DEF IInv, TypeOK, Call, Revoke
  <2>2. c.req = q /\ table[q] # NoRecord /\ table'[q].revoked = whom
    BY <1>5, <1>6, <2>1
  <2>. QED BY <1>6, <2>1, <2>2 DEF Taken, Revoke
<1>7. ASSUME NEW p \in Requests, AdminRevoke(p), table'[q] # table[q]
      PROVE  table[q] # NoRecord /\ table'[q].revoked = "admin" /\ UNCHANGED <<room, past>>
  BY <1>5, <1>7 DEF AdminRevoke
<1>8. ASSUME NEW c \in calls, Found(c) \/ Dispatch(c) \/ HandOut(c) \/ StoreFails(c)
      PROVE  table' = table
  BY <1>8 DEF Found, Dispatch, HandOut, StoreFails
<1>9. ASSUME NEW p \in Requests, NEW i \in Free, NEW mode \in Modes,
             CreateRoom(i, p, mode) \/ JoinRoom(i, p, mode)
      PROVE  table' = table
  BY <1>9 DEF CreateRoom, JoinRoom
<1>10. ASSUME NEW p \in Requests, NEW i \in Free, Authorize(i, p) PROVE table' = table
  BY <1>10 DEF Authorize
<1>11. CASE Start \/ FillReceipts \/ CloseRuntime \/ Restart \/ Tick
  BY <1>2, <1>11 DEF Start, FillReceipts, CloseRuntime, Restart, Tick
<1>12. CASE CleanUp \/ DeleteRoom
  BY <1>2, <1>12 DEF CleanUp, DeleteRoom
<1>. QED BY <1>2, <1>3, <1>4, <1>6, <1>7, <1>8, <1>9, <1>10, <1>11, <1>12 DEF Next

\* What a step may make of the room, while it stays the same room.
LEMMA RoomSteps ==
  ASSUME IInv, Next, room'.life = room.life, NEW q \in Requests
  PROVE  /\ room'.there => room.there
         /\ Refuses(q) => Refuses(q)'
         /\ room'.receipts[q] # room.receipts[q] =>
              \E c \in calls : Dispatch(c) /\ c.req = q /\ Goes(c, Verdict(q))
                               /\ room' = Joined(q) /\ room.life = c.life
<1>1. room \in RoomType
  BY DEF IInv, TypeOK, RoomType
<1>2. CASE room' = room
  BY <1>2 DEF Refuses
<1>3. ASSUME NEW c \in calls, Dispatch(c), room' # room
      PROVE  /\ room'.there = room.there
             /\ Refuses(q) => Refuses(q)'
             /\ room'.receipts[q] # room.receipts[q] =>
                  Dispatch(c) /\ c.req = q /\ Goes(c, Verdict(q))
                  /\ room' = Joined(q) /\ room.life = c.life
  <2>1. /\ room' = Joined(c.req) /\ c.req \in Requests /\ Goes(c, Verdict(c.req))
        /\ room.life = c.life
    BY <1>3 DEF Dispatch, IInv, TypeOK, Call
  <2>2. /\ room.receipts[c.req] = "none" /\ room.phase # "full"
        /\ \/ room' = [room EXCEPT !.members = @ \cup {c.req}, !.receipts[c.req] = "joined"]
           \/ room' = [room EXCEPT !.receipts[c.req] = "refused"]
    BY <1>3, <2>1 DEF Joined
  <2>3. \A p \in Requests : p # c.req => room'.receipts[p] = room.receipts[p]
    BY <1>1, <2>1, <2>2 DEF RoomType
  <2>4. room'.there = room.there /\ room'.phase = room.phase
    BY ZenonT(60), <1>1, <2>2 DEF RoomType
  <2>5. Refuses(q) => q # c.req
    BY <2>2 DEF Refuses
  <2>6. Refuses(q) => Refuses(q)'
    BY <2>3, <2>4, <2>5 DEF Refuses
  <2>7. room'.receipts[q] # room.receipts[q] => q = c.req
    BY <2>3
  <2>. QED BY <1>3, <2>1, <2>4, <2>6, <2>7
<1>4. CASE Start \/ FillReceipts \/ CloseRuntime \/ Restart \/ DeleteRoom
  <2>1. /\ room'.receipts = room.receipts /\ (room'.there => room.there)
        /\ room.phase = "full" => room'.phase = "full"
    BY <1>1, <1>4 DEF Start, FillReceipts, CloseRuntime, Restart, DeleteRoom, RoomType
  <2>. QED BY <2>1 DEF Refuses
<1>5. ASSUME NEW p \in Requests, NEW i \in Free, NEW mode \in Modes, CreateRoom(i, p, mode)
      PROVE  FALSE
  <2>1. room'.life = room.life + 1 /\ room.life \in Nat
    BY <1>5, AdmissionAssumption DEF CreateRoom, NewRoom, IInv, TypeOK
  <2>. QED BY <2>1
<1>6. ASSUME NEW p \in Requests, NEW i \in Free, NEW mode \in Modes,
             JoinRoom(i, p, mode)
      PROVE  room' = room
  BY <1>6 DEF JoinRoom
<1>7. ASSUME NEW p \in Requests, NEW i \in Free, Authorize(i, p) PROVE room' = room
  BY <1>7 DEF Authorize
<1>8. ASSUME NEW c \in calls,
             Issue(c) \/ Found(c) \/ Revoke(c) \/ HandOut(c) \/ StoreFails(c) \/ Activate(c)
      PROVE  room' = room
  BY <1>8 DEF Issue, Found, Revoke, HandOut, StoreFails, Activate
<1>9. ASSUME NEW p \in Requests, AdminRevoke(p) PROVE room' = room
  BY <1>9 DEF AdminRevoke
<1>10. CASE CleanUp \/ Tick
  BY <1>2, <1>10 DEF CleanUp, Tick
<1>. QED BY <1>2, <1>3, <1>4, <1>5, <1>6, <1>7, <1>8, <1>9, <1>10 DEF Next

\* The room is the same, or it goes, or it is created anew.
LEMMA RoomStays ==
  ASSUME IInv, Next
  PROVE  \/ room'.there = room.there /\ room'.life = room.life
         \/ DeleteRoom /\ room'.life = room.life /\ ~room'.there
         \/ \E q \in Requests, i \in Free, mode \in Modes : CreateRoom(i, q, mode)
<1>1. room \in RoomType
  BY DEF IInv, TypeOK, RoomType
<1>2. CASE room' = room
  BY <1>2
<1>3. ASSUME NEW c \in calls, Dispatch(c) PROVE room'.there = room.there /\ room'.life = room.life
  <2>1. c.req \in Requests
    BY <1>3 DEF Dispatch, IInv, TypeOK, Call
  <2>2. CASE room' = Joined(c.req)
    BY <1>1, <2>1, <2>2, JoinedTyped DEF IInv, TypeOK
  <2>. QED BY <1>3, <2>2 DEF Dispatch
<1>4. CASE Start \/ FillReceipts \/ CloseRuntime \/ Restart
  BY ZenonT(60), <1>1, <1>4 DEF Start, FillReceipts, CloseRuntime, Restart, RoomType
<1>5. DeleteRoom => room'.life = room.life /\ ~room'.there
  BY ZenonT(60), <1>1 DEF DeleteRoom, RoomType
<1>6. ASSUME NEW p \in Requests, NEW i \in Free, NEW mode \in Modes, JoinRoom(i, p, mode)
      PROVE  room' = room
  BY <1>6 DEF JoinRoom
<1>7. ASSUME NEW p \in Requests, NEW i \in Free, Authorize(i, p) PROVE room' = room
  BY <1>7 DEF Authorize
<1>8. ASSUME NEW c \in calls,
             Issue(c) \/ Found(c) \/ Revoke(c) \/ HandOut(c) \/ StoreFails(c) \/ Activate(c)
      PROVE  room' = room
  BY <1>8 DEF Issue, Found, Revoke, HandOut, StoreFails, Activate
<1>9. ASSUME NEW p \in Requests, AdminRevoke(p) PROVE room' = room
  BY <1>9 DEF AdminRevoke
<1>10. CASE CleanUp \/ Tick
  BY <1>2, <1>10 DEF CleanUp, Tick
<1>. QED BY <1>2, <1>3, <1>4, <1>5, <1>6, <1>7, <1>8, <1>9, <1>10 DEF Next

LEMMA EmptiedKept == ASSUME IInv, Emptied, Next PROVE Emptied'
<1>. SUFFICES ASSUME ~room'.there, NEW q \in Requests PROVE table'[q] = NoRecord
  BY DEF Emptied
<1>1. CASE DeleteRoom
  BY <1>1 DEF DeleteRoom
<1>2. CASE room'.there = room.there
  <2>1. table[q] = NoRecord
    BY <1>2 DEF Emptied
  <2>2. ASSUME NEW c \in calls PROVE ~Issued(q, c)
    BY <1>2 DEF Issued
  <2>. QED BY <2>1, <2>2, SessionSteps DEF Kept
<1>3. ASSUME NEW p \in Requests, NEW i \in Free, NEW mode \in Modes, CreateRoom(i, p, mode)
      PROVE  FALSE
  BY <1>3 DEF CreateRoom, NewRoom
<1>. QED BY <1>1, <1>2, <1>3, RoomStays

-----------------------------------------------------------------------------
(* Who is being refused                                                    *)

\* A join that is not welcome is refused from then on.
LEMMA VerdictRefuses ==
  ASSUME room \in RoomType, NEW q \in Requests, room' = Joined(q), Verdict(q) = "refused"
  PROVE  Refuses(q)'
<1>1. Joined(q).receipts[q] # "joined"
  BY DEF Verdict
<1>2. CASE Joined(q) = room /\ (room.receipts[q] # "none" \/ room.phase = "full")
  BY <1>1, <1>2 DEF Refuses, RoomType
<1>3. CASE Joined(q) = [room EXCEPT !.members = @ \cup {q}, !.receipts[q] = "joined"]
  BY <1>1, <1>3 DEF RoomType
<1>4. CASE Joined(q) = [room EXCEPT !.receipts[q] = "refused"]
  BY <1>4 DEF Refuses, RoomType
<1>. QED BY <1>2, <1>3, <1>4 DEF Joined

\* A call is on its way to a refusal since the room gave it.
LEMMA RefusedCalls ==
  ASSUME IInv, Next, NEW e \in calls', e.kind = "admission", e.at = "refused"
  PROVE  e \in calls \/ Refuses(e.req)'
<1>. USE DEF IInv, TypeOK
<1>1. ASSUME NEW c \in calls, NEW at \in Kinds \ {"refused"}, NEW time \in 0..MaxNow,
             c.kind = "admission",
             calls' = (calls \ {c}) \cup {[c EXCEPT !.at = at, !.time = time]}
      PROVE  e \in calls
  <2>1. c \in Call /\ at \in Kinds
    OBVIOUS
  <2>2. Moved(c, at, time).at = at
    BY <1>1, <2>1, MovedCall
  <2>3. e \in calls \/ e = Moved(c, at, time)
    BY <1>1 DEF Moved
  <2>. QED BY <2>2, <2>3
<1>2. 0 \in 0..MaxNow /\ now \in 0..MaxNow
  BY AdmissionAssumption
<1>3. CASE calls' \subseteq calls
  BY <1>3
<1>4. ASSUME NEW c \in calls, Issue(c) \/ Found(c) PROVE e \in calls
  <2>1. c.kind = "admission"
    BY <1>4 DEF Issue, Found
  <2>2. \/ calls' = calls \ {c}
        \/ Goes(c, Onward(c))
        \/ calls' = (calls \ {c}) \cup {[c EXCEPT !.at = "find", !.time = now]}
    BY <1>4 DEF Issue, Found
  <2>3. Onward(c) \in Kinds \ {"refused"} /\ "find" \in Kinds \ {"refused"}
    BY DEF Onward, Kinds
  <2>4. CASE Goes(c, Onward(c))
    BY <1>1, <1>2, <2>1, <2>3, <2>4 DEF Goes
  <2>5. CASE calls' = (calls \ {c}) \cup {[c EXCEPT !.at = "find", !.time = now]}
    BY <1>1, <1>2, <2>1, <2>3, <2>5
  <2>. QED BY <2>2, <2>4, <2>5
<1>5. ASSUME NEW c \in calls, Dispatch(c) PROVE e \in calls \/ Refuses(e.req)'
  <2>1. c \in Call /\ c.kind = "admission" /\ c.req \in Requests /\ room \in RoomType
    BY <1>5 DEF Dispatch, Call, RoomType
  <2>2. CASE room' = Joined(c.req) /\ Goes(c, Verdict(c.req))
    <3>1. Verdict(c.req) \in Kinds
      BY DEF Verdict, Kinds
    <3>2. Moved(c, Verdict(c.req), 0).at = Verdict(c.req) /\ Moved(c, Verdict(c.req), 0).req = c.req
      BY <1>2, <2>1, <3>1, MovedCall
    <3>3. e \in calls \/ e = Moved(c, Verdict(c.req), 0)
      BY <2>2 DEF Goes, Moved
    <3>. QED BY <2>1, <2>2, <3>2, <3>3, VerdictRefuses
  <2>3. CASE Goes(c, "stopped")
    <3>1. "stopped" \in Kinds \ {"refused"}
      BY DEF Kinds
    <3>. QED BY <1>1, <1>2, <2>1, <2>3, <3>1 DEF Goes
  <2>. QED BY <1>5, <2>2, <2>3 DEF Dispatch
<1>6. ASSUME NEW p \in Requests, NEW i \in Free, NEW mode \in Modes,
             CreateRoom(i, p, mode) \/ JoinRoom(i, p, mode)
      PROVE  e \in calls
  BY <1>6 DEF CreateRoom, JoinRoom, Admission
<1>7. ASSUME NEW p \in Requests, NEW i \in Free, Authorize(i, p) PROVE e \in calls
  BY <1>7 DEF Authorize
<1>8. ASSUME NEW c \in calls, Revoke(c) \/ HandOut(c) \/ StoreFails(c) \/ Activate(c)
      PROVE  e \in calls
  BY <1>8 DEF Revoke, HandOut, StoreFails, Activate
<1>9. ASSUME NEW p \in Requests, AdminRevoke(p) PROVE e \in calls
  BY <1>9 DEF AdminRevoke
<1>10. CASE CleanUp \/ Start \/ FillReceipts \/ CloseRuntime \/ DeleteRoom \/ Restart \/ Tick
  BY <1>10 DEF CleanUp, Start, FillReceipts, CloseRuntime, DeleteRoom, Restart, Tick
<1>. QED BY <1>4, <1>5, <1>6, <1>7, <1>8, <1>9, <1>10 DEF Next

LEMMA RefusedStaysKept == ASSUME IInv, Emptied, RefusedStays, Next PROVE RefusedStays'
<1>1. \A e \in calls : e.kind = "admission" => e.life <= room.life /\ e.life \in Nat
  BY AdmissionAssumption DEF IInv, TypeOK, Call, Seated, Receipted
<1>2. \A e \in calls : e.kind = "admission" => e.req \in Requests
  BY DEF IInv, TypeOK, Call
<1>3. CASE room'.life = room.life
  <2>1. ASSUME NEW e \in calls', e.kind = "admission", e.at = "refused", e.life = room'.life
        PROVE  Refuses(e.req)'
    <3>1. CASE e \in calls
      <4>1. Refuses(e.req) /\ e.req \in Requests
        BY <1>2, <1>3, <2>1, <3>1 DEF RefusedStays
      <4>. QED BY <1>3, <4>1, RoomSteps
    <3>. QED BY <2>1, <3>1, RefusedCalls
  <2>2. ASSUME NEW q \in Requests, table'[q] # NoRecord, table'[q].revoked = "refused"
        PROVE  Refuses(q)'
    <3>1. Refuses(q)
      <4>1. CASE Kept(q)
        BY <2>2, <4>1 DEF Kept, RefusedStays
      <4>2. ASSUME NEW c \in calls PROVE ~Issued(q, c)
        BY <2>2 DEF Issued
      <4>3. ASSUME NEW c \in calls, Taken(q, c), c.at = "refused", c.life = room.life
            PROVE  Refuses(q)
        BY <4>3 DEF Taken, Revoke, RefusedStays
      <4>. QED BY <2>2, <4>1, <4>2, <4>3, SessionSteps
    <3>. QED BY <1>3, <3>1, RoomSteps
  <2>. QED BY <2>1, <2>2 DEF RefusedStays
<1>4. ASSUME NEW p \in Requests, NEW i \in Free, NEW mode \in Modes, CreateRoom(i, p, mode)
      PROVE  RefusedStays'
  <2>1. /\ ~room.there /\ room'.life = room.life + 1 /\ table' = table
        /\ calls' = calls \cup {Admission(i, p, mode, room.life + 1)}
    BY <1>4 DEF CreateRoom, NewRoom
  <2>2. \A q \in Requests : table[q] = NoRecord
    BY <2>1 DEF Emptied
  <2>3. Admission(i, p, mode, room.life + 1).at = "issue"
    BY DEF Admission
  <2>4. room.life \in Nat
    BY AdmissionAssumption DEF IInv, TypeOK
  <2>5. ASSUME NEW e \in calls', e.kind = "admission", e.at = "refused", e.life = room'.life
        PROVE  FALSE
    <3>1. e \in calls
      BY <2>1, <2>3, <2>5
    <3>. QED BY <1>1, <2>1, <2>4, <2>5, <3>1
  <2>. QED BY <2>1, <2>2, <2>5 DEF RefusedStays
<1>. QED BY <1>3, <1>4, RoomStays

-----------------------------------------------------------------------------
(* Whose session is still to be taken back                                 *)

\* What was cut off stays so; the time goes on.
LEMMA PastSteps ==
  ASSUME IInv, Next
  PROVE  /\ DeleteRoom \/ past.cut \subseteq past'.cut
         /\ now <= now'
<1>1. past \in [handed : SUBSET (Requests \X Modes), cut : SUBSET Requests] /\ now \in Nat
  BY AdmissionAssumption DEF IInv, TypeOK
<1>2. CASE UNCHANGED <<past, now>>
  BY <1>1, <1>2
<1>3. ASSUME NEW c \in calls, HandOut(c) \/ StoreFails(c)
      PROVE  past.cut \subseteq past'.cut /\ now' = now
  BY <1>1, <1>3 DEF HandOut, StoreFails
<1>4. CASE Restart
  BY <1>1, <1>4 DEF Restart
<1>5. CASE Tick
  BY <1>1, <1>5 DEF Tick
<1>6. CASE DeleteRoom
  BY <1>1, <1>6 DEF DeleteRoom
<1>7. ASSUME NEW p \in Requests, NEW i \in Free, NEW mode \in Modes,
             CreateRoom(i, p, mode) \/ JoinRoom(i, p, mode)
      PROVE  UNCHANGED <<past, now>>
  BY <1>7 DEF CreateRoom, JoinRoom
<1>8. ASSUME NEW p \in Requests, NEW i \in Free, Authorize(i, p) PROVE UNCHANGED <<past, now>>
  BY <1>8 DEF Authorize
<1>9. ASSUME NEW c \in calls, Issue(c) \/ Found(c) \/ Dispatch(c) \/ Revoke(c) \/ Activate(c)
      PROVE  UNCHANGED <<past, now>>
  BY <1>9 DEF Issue, Found, Dispatch, Revoke, Activate
<1>10. ASSUME NEW p \in Requests, AdminRevoke(p) PROVE UNCHANGED <<past, now>>
  BY <1>10 DEF AdminRevoke
<1>11. CASE CleanUp \/ Start \/ FillReceipts \/ CloseRuntime
  BY <1>2, <1>11 DEF CleanUp, Start, FillReceipts, CloseRuntime
<1>. QED BY <1>1, <1>2, <1>3, <1>4, <1>5, <1>6, <1>7, <1>8, <1>9, <1>10, <1>11 DEF Next

\* A call that owes an end to the session of one who is refused owes it still, or ends it, or is
\* cut off.
LEMMA OwingSteps ==
  ASSUME IInv, Next, NEW q \in Requests, NEW c \in calls, Owing(q, c),
         room.receipts[q] = "refused"
  PROVE  \/ \E e \in calls' : Owing(q, e)
         \/ q \in past'.cut
         \/ Revoke(c)
<1>1. c \in Call /\ c.kind = "admission" /\ c.req = q /\ c.at \in {"dispatch", "refused", "stopped"}
  BY DEF IInv, TypeOK, Owing
<1>2. past \in [handed : SUBSET (Requests \X Modes), cut : SUBSET Requests]
  BY DEF IInv, TypeOK
<1>3. CASE c \in calls'
  BY <1>3
<1>4. ASSUME NEW at \in {"refused", "stopped"}, Goes(c, at)
      PROVE  \E e \in calls' : Owing(q, e)
  <2>1. at \in Kinds /\ 0 \in 0..MaxNow
    BY AdmissionAssumption DEF Kinds
  <2>2. /\ Moved(c, at, 0).kind = "admission" /\ Moved(c, at, 0).at = at
        /\ Moved(c, at, 0).req = q
    BY <1>1, <2>1, MovedCall
  <2>3. Moved(c, at, 0) \in calls'
    BY <1>4 DEF Goes, Moved
  <2>. QED BY <2>2, <2>3 DEF Owing
<1>5. ASSUME NEW d \in calls,
             \/ Issue(d) \/ Found(d) \/ Dispatch(d) \/ Revoke(d) \/ HandOut(d) \/ StoreFails(d)
             \/ Activate(d)
      PROVE  d = c \/ c \in calls'
  BY <1>5 DEF Issue, Found, Dispatch, Revoke, HandOut, StoreFails, Activate, Goes
<1>6. ~Issue(c) /\ ~Found(c) /\ ~HandOut(c) /\ ~Activate(c)
  BY <1>1 DEF Issue, Found, HandOut, Activate
<1>7. CASE Dispatch(c)
  <2>1. Joined(q) = room /\ Verdict(q) = "refused"
    BY DEF Joined, Verdict
  <2>2. Goes(c, "refused") \/ Goes(c, "stopped")
    BY <1>1, <1>7, <2>1 DEF Dispatch
  <2>. QED BY <1>4, <2>2
<1>8. CASE StoreFails(c)
  <2>1. q \in Lost({c})
    BY <1>1 DEF Lost
  <2>2. past'.cut = past.cut \cup Lost({c})
    BY <1>2, <1>8 DEF StoreFails
  <2>. QED BY <2>1, <2>2
<1>9. CASE Restart
  <2>1. q \in Lost(calls)
    BY <1>1 DEF Lost
  <2>2. past'.cut = past.cut \cup Lost(calls)
    BY <1>2, <1>9 DEF Restart
  <2>. QED BY <2>1, <2>2
<1>10. ASSUME NEW p \in Requests, NEW i \in Free, NEW mode \in Modes,
              CreateRoom(i, p, mode) \/ JoinRoom(i, p, mode)
       PROVE  c \in calls'
  BY <1>10 DEF CreateRoom, JoinRoom
<1>11. ASSUME NEW p \in Requests, NEW i \in Free, Authorize(i, p) PROVE c \in calls'
  BY <1>11 DEF Authorize
<1>12. ASSUME NEW p \in Requests, AdminRevoke(p) PROVE c \in calls'
  BY <1>12 DEF AdminRevoke
<1>13. CASE CleanUp \/ Start \/ FillReceipts \/ CloseRuntime \/ DeleteRoom \/ Tick
  BY <1>3, <1>13 DEF CleanUp, Start, FillReceipts, CloseRuntime, DeleteRoom, Tick
<1>. QED BY <1>3, <1>5, <1>6, <1>7, <1>8, <1>9, <1>10, <1>11, <1>12, <1>13 DEF Next

\* A session that stays in force was in force.
LEMMA ForceKept ==
  ASSUME IInv, Next, NEW q \in Requests, Kept(q), InForce(q)'
  PROVE  InForce(q) /\ table'[q].viewer = table[q].viewer /\ table'[q].revoked = "no"
<1>1. /\ table[q] # NoRecord /\ table'[q].revoked = table[q].revoked
      /\ table'[q].viewer = table[q].viewer /\ table'[q].created = table[q].created
  BY DEF Kept, InForce
<1>2. table[q].created \in Nat /\ now \in Nat /\ SessionTtl \in Nat
  BY <1>1, AdmissionAssumption DEF IInv, TypeOK, Session
<1>3. now' \in Nat /\ now <= now'
  <2>1. IInv'
    BY NextSafe
  <2>. QED BY <2>1, PastSteps, AdmissionAssumption DEF IInv, TypeOK
<1>. QED BY <1>1, <1>2, <1>3 DEF InForce, Ended, Expires

LEMMA TrackedKept == ASSUME IInv, Tracked, Next PROVE Tracked'
<1>. SUFFICES ASSUME NEW q \in Requests, Owed(q)' PROVE \E e \in calls' : Owing(q, e)
  BY DEF Tracked, Owing
<1>1. /\ room'.there /\ room'.receipts[q] = "refused" /\ q \notin past'.cut
      /\ InForce(q)' /\ table'[q].viewer = "player" /\ table'[q].revoked = "no"
  BY DEF Owed, InForce, Ended
<1>2. room'.there = room.there /\ room'.life = room.life /\ ~DeleteRoom
  <2>1. ASSUME NEW p \in Requests, NEW i \in Free, NEW mode \in Modes, CreateRoom(i, p, mode)
        PROVE  FALSE
    <3>1. room' = NewRoom(room.life + 1)
      BY <2>1 DEF CreateRoom
    <3>. QED BY <1>1, <3>1 DEF NewRoom
  <2>2. DeleteRoom => ~room'.there
    BY ZenonT(60) DEF DeleteRoom, IInv, TypeOK
  <2>. QED BY <1>1, <2>1, <2>2, RoomStays
<1>3. q \notin past.cut
  BY <1>1, <1>2, PastSteps
<1>4. CASE room.receipts[q] # room'.receipts[q]
  <2>1. PICK c \in calls : Dispatch(c) /\ c.req = q /\ Goes(c, Verdict(q)) /\ room' = Joined(q)
    BY <1>2, <1>4, RoomSteps
  <2>2. Verdict(q) = "refused" /\ c \in Call /\ c.kind = "admission"
    BY <1>1, <2>1 DEF Verdict, Dispatch, IInv, TypeOK
  <2>3. Moved(c, "refused", 0) \in calls'
    BY <2>1, <2>2 DEF Goes, Moved
  <2>4. /\ Moved(c, "refused", 0).kind = "admission" /\ Moved(c, "refused", 0).at = "refused"
        /\ Moved(c, "refused", 0).req = c.req
    BY <2>2, MovedCall, AdmissionAssumption DEF Kinds
  <2>. QED BY <2>1, <2>3, <2>4 DEF Owing
<1>5. CASE room.receipts[q] = room'.receipts[q] /\ Kept(q)
  <2>1. Owed(q)
    BY <1>1, <1>2, <1>3, <1>5, ForceKept DEF Owed
  <2>2. PICK c \in calls : Owing(q, c)
    BY <2>1 DEF Tracked
  <2>3. ~Revoke(c)
    <3>1. SUFFICES ASSUME Revoke(c) PROVE FALSE
      OBVIOUS
    <3>2. table[q] # NoRecord /\ table[q].revoked = "no"
      BY <1>1, <1>5 DEF Kept, InForce
    <3>3. table' = [table EXCEPT ![q].revoked = IF c.life = room.life THEN c.at ELSE "stopped"]
      BY <2>2, <3>1, <3>2 DEF Revoke, RevokedBy, Owing
    <3>4. table[q] \in Session /\ table \in [Requests -> Session \cup {NoRecord}]
      BY <3>2 DEF IInv, TypeOK
    <3>5. table'[q].revoked = IF c.life = room.life THEN c.at ELSE "stopped"
      BY <3>3, <3>4 DEF Session
    <3>. QED BY <1>1, <2>2, <3>5 DEF Owing
  <2>. QED BY <1>1, <1>5, <2>2, <2>3, OwingSteps
<1>6. ASSUME NEW c \in calls, Issued(q, c) PROVE \E e \in calls' : Owing(q, e)
  <2>1. c \in Call /\ c.kind = "admission" /\ c.req = q /\ Onward(c) = "dispatch"
    BY <1>1, <1>6 DEF Issued, Issue, Onward, IInv, TypeOK
  <2>2. Moved(c, "dispatch", 0) \in calls'
    BY <1>6, <2>1 DEF Issued, Goes, Moved
  <2>3. "dispatch" \in Kinds /\ 0 \in 0..MaxNow
    BY AdmissionAssumption DEF Kinds
  <2>4. /\ Moved(c, "dispatch", 0).kind = "admission" /\ Moved(c, "dispatch", 0).at = "dispatch"
        /\ Moved(c, "dispatch", 0).req = q
    BY <2>1, <2>3, MovedCall
  <2>. QED BY <2>2, <2>4 DEF Owing
<1>. QED BY <1>1, <1>4, <1>5, <1>6, SessionSteps

LEMMA AnswerableKept == IInv /\ Answerable /\ [Next]_vars => Answerable'
<1>1. ASSUME UNCHANGED vars, Answerable PROVE Answerable'
  BY <1>1 DEF vars, Answerable, Emptied, RefusedStays, Refuses, Tracked, Owed, Owing, InForce, Ended
<1>. QED BY <1>1, EmptiedKept, RefusedStaysKept, TrackedKept DEF Answerable

LEMMA InitAnswerable == Init => Answerable
BY DEF Init, Answerable, Emptied, RefusedStays, Tracked, Owed, InForce

LEMMA RefusedHold == IInv /\ Answerable => RefusedHoldsNothing
<1>. SUFFICES ASSUME IInv, Answerable, NEW q \in Requests,
                     room.receipts[q] = "refused", room.there, q \notin past.cut,
                     \A c \in calls : c.req # q, InForce(q), table[q].viewer # "spectator"
              PROVE  FALSE
  BY DEF RefusedHoldsNothing
<1>1. table[q].viewer = "player"
  BY AdmissionAssumption DEF IInv, TypeOK, Session, InForce
<1>2. Owed(q)
  BY <1>1 DEF Owed
<1>. QED BY <1>2 DEF Answerable, Tracked, Owing

LEMMA HandedKept == IInv /\ Answerable => HandedOutStays
BY DEF IInv, Seated, AdmittedIsMember, Answerable, RefusedStays, Refuses, HandedOutStays

-----------------------------------------------------------------------------
(* Theorems                                                                *)

(***************************************************************************)
(* The inductive invariant of admission: types, chairs, and a receipt      *)
(* behind every player who is through.                                     *)
(***************************************************************************)
THEOREM AdmissionSafe == Spec => []IInv
BY InitSafe, NextSafe, PTL DEF Spec

(***************************************************************************)
(* Every part of the state keeps its type, and a room seats no more        *)
(* players than it has chairs.                                             *)
(***************************************************************************)
THEOREM AdmissionTyped == Spec => []TypeOK
<1>1. IInv => TypeOK
  BY DEF IInv
<1>. QED BY <1>1, AdmissionSafe, PTL

(***************************************************************************)
(* Whoever was handed a player's session of the room sits in it, whatever  *)
(* fails or is repeated between storing the session and taking the seat.   *)
(***************************************************************************)
THEOREM PlayersAreSeated == Spec => []AdmittedIsMember
<1>1. IInv => AdmittedIsMember
  BY DEF IInv, Seated
<1>. QED BY <1>1, AdmissionSafe, PTL

(***************************************************************************)
(* No step, an authorization that read a session before its end included,  *)
(* brings an ended session back.                                           *)
(***************************************************************************)
THEOREM NoSessionComesBack == Spec => EndedStaysEnded
<1>1. IInv /\ [Next]_vars => [StaysEnded]_vars
  <2>. SUFFICES ASSUME IInv, Next, NEW q \in Requests,
                       table[q] # NoRecord, Ended(table[q], now), table'[q] # NoRecord
                PROVE  Ended(table'[q], now)
    BY DEF vars, StaysEnded
  <2>1. CASE table'[q] = table[q]
    BY <2>1
  <2>2. CASE table'[q].revoked # "no"
    BY <2>2 DEF Ended
  <2>3. ASSUME NEW c \in calls, Issue(c) PROVE table'[q] = table[q]
    BY <2>3 DEF Issue, IInv, TypeOK
  <2>4. ASSUME NEW c \in calls, Activate(c) PROVE table'[q] = table[q]
    BY <2>4 DEF Activate, Touched, Touches, InForce, IInv, TypeOK
  <2>5. ASSUME NEW p \in Requests, NEW whom \in {"refused", "stopped", "admin"}, table' = RevokedBy(p, whom)
        PROVE  table'[q] = table[q] \/ table'[q].revoked # "no"
    BY <2>5, RevokedTyped DEF IInv
  <2>6. ASSUME NEW c \in calls, Revoke(c) PROVE table'[q] = table[q] \/ table'[q].revoked # "no"
    <3>1. c.req \in Requests
      BY DEF IInv, TypeOK, Call
    <3>. QED BY <2>5, <2>6, <3>1 DEF Revoke
  <2>7. ASSUME NEW p \in Requests, AdminRevoke(p)
        PROVE  table'[q] = table[q] \/ table'[q].revoked # "no"
    BY <2>5, <2>7 DEF AdminRevoke
  <2>8. CASE CleanUp \/ DeleteRoom
    BY <2>8 DEF CleanUp, DeleteRoom
  <2>9. ASSUME NEW c \in calls, Found(c) \/ Dispatch(c) \/ HandOut(c) \/ StoreFails(c)
        PROVE  table' = table
    BY <2>9 DEF Found, Dispatch, HandOut, StoreFails
  <2>10. ASSUME NEW p \in Requests, NEW i \in Free, NEW mode \in Modes,
                CreateRoom(i, p, mode) \/ JoinRoom(i, p, mode)
         PROVE  table' = table
    BY <2>10 DEF CreateRoom, JoinRoom
  <2>11. ASSUME NEW p \in Requests, NEW i \in Free, Authorize(i, p) PROVE table' = table
    BY <2>11 DEF Authorize
  <2>12. CASE Start \/ FillReceipts \/ CloseRuntime \/ Restart \/ Tick
    BY <2>1, <2>12 DEF Start, FillReceipts, CloseRuntime, Restart, Tick
  <2>. QED BY <2>1, <2>2, <2>3, <2>4, <2>6, <2>7, <2>8, <2>9, <2>10, <2>11, <2>12 DEF Next
<1>. QED BY <1>1, AdmissionSafe, PTL DEF Spec, EndedStaysEnded

(***************************************************************************)
(* The second invariant: no sessions without their room, a refusal is for  *)
(* good, and a refused player's session in force still has the call that   *)
(* will end it, or that call was cut off.                                  *)
(***************************************************************************)
THEOREM RefusalsAreKept == Spec => [](IInv /\ Answerable)
<1>1. Init => IInv /\ Answerable
  BY InitSafe, InitAnswerable
<1>2. IInv /\ Answerable /\ [Next]_vars => (IInv /\ Answerable)'
  BY NextSafe, AnswerableKept
<1>. QED BY <1>1, <1>2, PTL DEF Spec

(***************************************************************************)
(* Once its calls are through, a request that the room refused for good    *)
(* holds no player's session, however often and in whatever order it was   *)
(* repeated, unless a join or a revocation of it was cut off.              *)
(***************************************************************************)
THEOREM RefusedLeaveNothing == Spec => []RefusedHoldsNothing
BY RefusalsAreKept, RefusedHold, PTL

(***************************************************************************)
(* A refusal never revokes a player's session that was handed out in this  *)
(* life of the room, by whichever of the repeated calls.                   *)
(***************************************************************************)
THEOREM HandedOutIsKept == Spec => []HandedOutStays
BY RefusalsAreKept, HandedKept, PTL
=============================================================================
