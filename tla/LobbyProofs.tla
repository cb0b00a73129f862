------------------------------ MODULE LobbyProofs ------------------------------
(***************************************************************************)
(* The theorems of PublicLobby: of a room at most one runtime is live, a   *)
(* match that has started is not deleted, and whoever sits in a public     *)
(* room holds the ticket that names it.  The first two follow from IInv,   *)
(* what holds of each room; the third from Seated, what the matchmaking    *)
(* task knows while it waits, on top of it.                                *)
(***************************************************************************)
EXTENDS PublicLobby, FiniteSetTheorems, TLAPS

-----------------------------------------------------------------------------
(* The invariant                                                           *)

IsSequence(q) == \E S : q \in Seq(S)

RowFields == {"match", "version", "phase", "seats"}

IsRow(row) ==
  /\ DOMAIN row = RowFields /\ row.version \in Nat
  /\ row.phase \in {"none", "lobby", "playing", "revealed"}

\* A public room is saved once a seat and once to start: its versions tell its phases apart.
Numbered(row) ==
  /\ row.phase \in {"none", "lobby"} =>
       row.version <= 2 /\ (Cardinality(row.seats) = 2 => row.version = 2)
  /\ row.phase \in {"playing", "revealed"} => row.version >= 3

RowOK(r, row) == IsRow(row) /\ (r \in PublicRooms => Numbered(row))

Up(k) == runtimes[k].status \in {"opening", "open"}

\* A runtime holds what is stored; of a public lobby no more is needed than that it is one.
Synced(r, row, record) ==
  \/ row = record
  \/ r \in PublicRooms /\ record.phase \in {"none", "lobby"}

\* What holds of each room, whatever happens to the others.
RoomOK(r) ==
  /\ RowOK(r, rows[r])
  /\ registry.map[r] # 0 => registry.map[r] \in DOMAIN runtimes /\ runtimes[registry.map[r]].room = r
  /\ \A k \in DOMAIN runtimes : runtimes[k].room = r /\ Up(k) =>
       /\ registry.map[r] = k
       /\ RowOK(r, runtimes[k].record) /\ Synced(r, rows[r], runtimes[k].record)
  /\ \A old \in cleaning : old.room = r => rows[r].phase = "revealed"
  /\ matches[r] = 0 => rows[r] = NoRow /\ \A k \in DOMAIN runtimes : runtimes[k].room # r

RegistryType == [map : [Rooms -> Nat], deleting : SUBSET Rooms, closing : BOOLEAN]

Form ==
  /\ DOMAIN rows = Rooms /\ matches \in [Rooms -> Nat]
  /\ registry \in RegistryType
  /\ IsSequence(runtimes)
  /\ \A k \in DOMAIN runtimes :
       runtimes[k].room \in Rooms /\ DOMAIN runtimes[k] = {"room", "status", "match", "record"}
  /\ \A old \in cleaning : old.room \in Rooms
  /\ \A a, b \in cleaning : a.room = b.room => a = b

\* A row that was loaded is not one of a room that never was.
Loaded(r, wait) == wait.at = "load" /\ wait.row # NoRow => matches[r] # 0

CallsOK ==
  /\ DOMAIN calls = 1..MaxCalls
  /\ \A c \in 1..MaxCalls : calls[c] # NoCall =>
       /\ calls[c].room \in Rooms /\ Loaded(calls[c].room, calls[c].wait)
       /\ calls[c].wait.runtime = 0

\* The runtime that the task was given is one of the room that it asked for.
Got(r, wait) ==
  wait.runtime # 0 => wait.runtime \in DOMAIN runtimes /\ runtimes[wait.runtime].room = r

Little(row) ==
  /\ row.phase \in {"none", "lobby"}
  /\ \/ row.seats = {} /\ row.version = 0
     \/ Cardinality(row.seats) = 1 /\ row.version = 1

\* The room that is being filled has not both of its players.
Fills == task.at \in {"join", "rollback"} \/ (task.at = "create" /\ task.wait # Nothing)

FewSeats ==
  /\ Little(rows[task.room])
  /\ \A k \in DOMAIN runtimes : runtimes[k].room = task.room /\ Up(k) => Little(runtimes[k].record)

TaskForm ==
  /\ DOMAIN task = DOMAIN Idle /\ DOMAIN task.wait = DOMAIN Nothing
  /\ task.at \notin {"idle", "sweep", "queue"} => task.room \in PublicRooms
  /\ task.at \in {"idle", "sweep", "queue"} => task.wait = Nothing
  /\ Loaded(task.room, task.wait) /\ Got(task.room, task.wait)
  /\ task.at = "closing" => task.wait.runtime # 0
  /\ task.at \in {"deleting", "undo"} /\ task.wait.row.phase \in {"none", "lobby"} =>
       task.wait.row.version \in Nat /\ task.wait.row.version <= 2
  /\ task.at = "undo" => task.wait.row.phase \in {"none", "lobby"}

TaskOK == TaskForm /\ (Fills => FewSeats)

RegistryOK == Form /\ \A r \in Rooms : RoomOK(r)

IInv == RegistryOK /\ CallsOK /\ TaskOK

-----------------------------------------------------------------------------
(* Sequences of runtimes, rows                                             *)

LEMMA Indices ==
  ASSUME NEW q, IsSequence(q)
  PROVE  Len(q) \in Nat /\ DOMAIN q = 1..Len(q)
BY DEF IsSequence

LEMMA OneChanged ==
  ASSUME NEW q, IsSequence(q), NEW k, NEW x, NEW p, p = [q EXCEPT ![k] = x]
  PROVE  /\ IsSequence(p) /\ DOMAIN p = DOMAIN q
         /\ k \in DOMAIN q => p[k] = x
         /\ \A j \in DOMAIN q : j # k => p[j] = q[j]
<1>. PICK S : q \in Seq(S)
  BY DEF IsSequence
<1>. DEFINE T == S \cup {x}
<1>1. q \in [1..Len(q) -> T] /\ x \in T /\ Len(q) \in Nat
  OBVIOUS
<1>. HIDE DEF T
<1>2. p \in [1..Len(q) -> T]
  BY <1>1
<1>3. p \in Seq(T)
  BY <1>1, <1>2
<1>. QED BY <1>1, <1>3 DEF IsSequence

LEMMA OneMore ==
  ASSUME NEW q, IsSequence(q), NEW x
  PROVE  /\ IsSequence(Append(q, x)) /\ DOMAIN Append(q, x) = 1..(Len(q) + 1)
         /\ Append(q, x)[Len(q) + 1] = x
         /\ \A j \in DOMAIN q : Append(q, x)[j] = q[j] /\ j # Len(q) + 1
<1>. PICK S : q \in Seq(S)
  BY DEF IsSequence
<1>. DEFINE T == S \cup {x}
<1>1. q \in Seq(T) /\ x \in T
  OBVIOUS
<1>. HIDE DEF T
<1>2. Append(q, x) \in Seq(T)
  BY <1>1
<1>. QED BY <1>1, <1>2 DEF IsSequence

LEMMA NoRowIsOK == /\ NoRow.phase = "none" /\ NoRow.version = 0 /\ NoRow.seats = {}
                   /\ \A r : RowOK(r, NoRow)
<1>1. Cardinality({}) = 0
  BY FS_EmptySet
<1>. QED BY <1>1 DEF NoRow, RowOK, IsRow, RowFields, Numbered

LEMMA FreshIsOK == ASSUME NEW m PROVE /\ Fresh(m).phase = "lobby" /\ Fresh(m).version = 0
                                      /\ Fresh(m).seats = {} /\ \A r : RowOK(r, Fresh(m))
<1>1. Cardinality({}) = 0
  BY FS_EmptySet
<1>. QED BY <1>1 DEF Fresh, RowOK, IsRow, RowFields, Numbered

\* A step that touches one room only.
LEMMA OtherRooms ==
  ASSUME RegistryOK, NEW r,
         DOMAIN rows' = Rooms, \A s \in Rooms \ {r} : rows'[s] = rows[s],
         \A s \in Rooms \ {r} : matches'[s] = matches[s],
         \A s \in Rooms \ {r} : registry'.map[s] = registry.map[s],
         DOMAIN runtimes \subseteq DOMAIN runtimes',
         \A k \in DOMAIN runtimes : runtimes'[k].room = runtimes[k].room,
         \A k \in DOMAIN runtimes' : runtimes'[k].room # r =>
           k \in DOMAIN runtimes /\ runtimes'[k] = runtimes[k],
         cleaning' \subseteq cleaning
  PROVE  \A s \in Rooms \ {r} : RoomOK(s)'
<1>. SUFFICES ASSUME NEW s \in Rooms \ {r} PROVE RoomOK(s)'
  OBVIOUS
<1>1. RoomOK(s)
  BY DEF RegistryOK
<1>2. RowOK(s, rows'[s])
  BY <1>1 DEF RoomOK
<1>3. registry'.map[s] # 0 => registry'.map[s] \in DOMAIN runtimes' /\ runtimes'[registry'.map[s]].room = s
  BY <1>1 DEF RoomOK
<1>4. ASSUME NEW k \in DOMAIN runtimes', runtimes'[k].room = s, Up(k)'
      PROVE  /\ registry'.map[s] = k
             /\ RowOK(s, runtimes'[k].record) /\ Synced(s, rows'[s], runtimes'[k].record)
  <2>1. k \in DOMAIN runtimes /\ runtimes'[k] = runtimes[k] /\ Up(k)
    BY <1>4 DEF Up
  <2>2. rows'[s] = rows[s] /\ registry'.map[s] = registry.map[s] /\ runtimes[k].room = s
    BY <1>4, <2>1
  <2>. QED BY <1>1, <2>1, <2>2 DEF RoomOK
<1>5. \A old \in cleaning' : old.room = s => rows'[s].phase = "revealed"
  BY <1>1 DEF RoomOK
<1>6. matches'[s] = 0 => rows'[s] = NoRow /\ \A k \in DOMAIN runtimes' : runtimes'[k].room # s
  BY <1>1 DEF RoomOK
<1>. QED BY <1>2, <1>3, <1>4, <1>5, <1>6 DEF RoomOK

-----------------------------------------------------------------------------
(* The registry and the runtimes                                           *)

\* What there was stays, but for the state of some runtimes.
RuntimesStay ==
  /\ DOMAIN runtimes \subseteq DOMAIN runtimes'
  /\ \A k \in DOMAIN runtimes : runtimes'[k].room = runtimes[k].room

LEMMA MapChanged ==
  ASSUME NEW g \in RegistryType, NEW r \in Rooms, NEW n \in Nat,
         NEW h, h = [g EXCEPT !.map[r] = n]
  PROVE  /\ h \in RegistryType
         /\ h.deleting = g.deleting /\ h.closing = g.closing
         /\ h.map[r] = n /\ \A s \in Rooms \ {r} : h.map[s] = g.map[s]
<1>1. g.map \in [Rooms -> Nat]
  BY DEF RegistryType
<1>2. [g.map EXCEPT ![r] = n] \in [Rooms -> Nat]
  BY <1>1
<1>. QED BY <1>1, <1>2 DEF RegistryType

LEMMA OpenedOK ==
  ASSUME RegistryOK, NEW r \in Rooms, NEW m, Opened(r, m), ~AlreadyOpen(r),
         matches' \in [Rooms -> Nat], matches'[r] # 0,
         \A s \in Rooms \ {r} : matches'[s] = matches[s], UNCHANGED <<rows, cleaning>>
  PROVE  /\ RegistryOK' /\ RuntimesStay
         /\ registry'.map[r] \in DOMAIN runtimes' /\ runtimes'[registry'.map[r]].room = r
         /\ \A k \in DOMAIN runtimes : runtimes'[k] = runtimes[k]
         /\ \A k \in DOMAIN runtimes' \ DOMAIN runtimes :
              runtimes'[k].room = r /\ runtimes'[k].record = rows[r]
<1>. DEFINE n == Len(runtimes) + 1
            x == [room |-> r, status |-> "opening", match |-> m, record |-> rows[r]]
<1>1. Form /\ RoomOK(r)
  BY DEF RegistryOK
<1>2. IsSequence(runtimes) /\ Len(runtimes) \in Nat /\ DOMAIN runtimes = 1..Len(runtimes)
  BY <1>1, Indices DEF Form
<1>3. runtimes' = Append(runtimes, x)
  BY DEF Opened
<1>. HIDE DEF x
<1>4. /\ IsSequence(runtimes') /\ DOMAIN runtimes' = 1..n /\ runtimes'[n] = x
      /\ \A j \in DOMAIN runtimes : runtimes'[j] = runtimes[j] /\ j # n
  BY <1>2, <1>3, OneMore
<1>5. /\ registry' \in RegistryType
      /\ registry'.map[r] = n /\ n \in Nat
      /\ \A s \in Rooms \ {r} : registry'.map[s] = registry.map[s]
  <2>1. registry \in RegistryType /\ n \in Nat /\ registry' = [registry EXCEPT !.map[r] = n]
    BY <1>1, <1>2 DEF Opened, Form
  <2>. QED BY <2>1, MapChanged
<1>6. DOMAIN runtimes \subseteq DOMAIN runtimes' /\ n \in DOMAIN runtimes'
  BY <1>2, <1>4
<1>7. \A k \in DOMAIN runtimes' : k = n \/ (k \in DOMAIN runtimes /\ runtimes'[k] = runtimes[k])
  BY <1>2, <1>4
<1>8. x.room = r /\ x.status = "opening" /\ x.record = rows[r]
      /\ DOMAIN x = {"room", "status", "match", "record"}
  BY DEF x
<1>. HIDE DEF n
<1>9. Form'
  BY <1>1, <1>4, <1>5, <1>7, <1>8 DEF Form
<1>10. \A s \in Rooms \ {r} : RoomOK(s)'
  <2>1. \A k \in DOMAIN runtimes : runtimes'[k].room = runtimes[k].room
    BY <1>4
  <2>2. \A k \in DOMAIN runtimes' : runtimes'[k].room # r => k \in DOMAIN runtimes /\ runtimes'[k] = runtimes[k]
    BY <1>4, <1>7, <1>8
  <2>. QED BY <1>1, <1>5, <1>6, <2>1, <2>2, OtherRooms DEF Form
<1>11. RoomOK(r)'
  <2>1. ASSUME NEW k \in DOMAIN runtimes', runtimes'[k].room = r, Up(k)'
        PROVE  /\ registry'.map[r] = k
               /\ RowOK(r, runtimes'[k].record) /\ Synced(r, rows'[r], runtimes'[k].record)
    <3>1. CASE k = n
      BY <1>1, <1>4, <1>5, <1>8, <3>1 DEF RoomOK, Synced
    <3>2. CASE k # n
      <4>1. k \in DOMAIN runtimes /\ runtimes'[k] = runtimes[k]
        BY <1>7, <3>2
      <4>2. Up(k)
        BY <2>1, <4>1 DEF Up
      <4>3. registry.map[r] = k /\ k \in 1..Len(runtimes)
        BY <1>1, <1>2, <2>1, <4>1, <4>2 DEF RoomOK
      <4>. QED BY <1>2, <4>3 DEF AlreadyOpen
    <3>. QED BY <3>1, <3>2
  <2>2. RowOK(r, rows'[r]) /\ (\A old \in cleaning' : old.room = r => rows'[r].phase = "revealed")
    BY <1>1 DEF RoomOK
  <2>3. registry'.map[r] \in DOMAIN runtimes' /\ runtimes'[registry'.map[r]].room = r
    BY <1>4, <1>5, <1>6, <1>8
  <2>. QED BY <2>1, <2>2, <2>3 DEF RoomOK
<1>12. RegistryOK'
  BY <1>9, <1>10, <1>11 DEF RegistryOK
<1>. QED BY <1>4, <1>5, <1>6, <1>7, <1>8, <1>12 DEF RuntimesStay

\* The runtime that the map names becomes x, and nothing but its room is touched.
Becomes(k, r, x) ==
  /\ r = runtimes[k].room /\ registry.map[r] = k
  /\ runtimes' = [runtimes EXCEPT ![k] = x] /\ x.room = r /\ DOMAIN x = DOMAIN runtimes[k]
  /\ registry' \in RegistryType /\ \A s \in Rooms \ {r} : registry'.map[s] = registry.map[s]
  /\ registry'.map[r] \in {0, k}
  /\ DOMAIN rows' = Rooms /\ \A s \in Rooms \ {r} : rows'[s] = rows[s]
  /\ RowOK(r, rows'[r])
  /\ x.status \in {"opening", "open"} =>
       registry'.map[r] = k /\ RowOK(r, x.record) /\ Synced(r, rows'[r], x.record)
  /\ matches' = matches /\ cleaning' \subseteq cleaning
  /\ \A old \in cleaning' : old.room = r => rows'[r].phase = "revealed"

LEMMA RuntimeChanged ==
  ASSUME RegistryOK, NEW k \in DOMAIN runtimes, NEW r, NEW x, Becomes(k, r, x)
  PROVE  /\ RegistryOK' /\ RuntimesStay /\ runtimes'[k] = x /\ DOMAIN runtimes' = DOMAIN runtimes
         /\ \A j \in DOMAIN runtimes : j # k => runtimes'[j] = runtimes[j]
<1>. USE DEF Becomes
<1>1. Form /\ r \in Rooms
  BY DEF RegistryOK, Form
<1>2. RoomOK(r)
  BY <1>1 DEF RegistryOK
<1>3. /\ IsSequence(runtimes') /\ DOMAIN runtimes' = DOMAIN runtimes /\ runtimes'[k] = x
      /\ \A j \in DOMAIN runtimes : j # k => runtimes'[j] = runtimes[j]
  BY <1>1, OneChanged DEF Form
<1>4. Form'
  BY <1>1, <1>3 DEF Form
<1>5. \A j \in DOMAIN runtimes : runtimes'[j].room = runtimes[j].room
  BY <1>3
<1>6. \A s \in Rooms \ {r} : RoomOK(s)'
  BY <1>3, <1>5, OtherRooms
<1>7. RoomOK(r)'
  <2>1. ASSUME NEW j \in DOMAIN runtimes', runtimes'[j].room = r, Up(j)'
        PROVE  /\ registry'.map[r] = j
               /\ RowOK(r, runtimes'[j].record) /\ Synced(r, rows'[r], runtimes'[j].record)
    <3>1. CASE j = k
      BY <1>3, <2>1, <3>1 DEF Up
    <3>2. CASE j # k
      <4>1. Up(j) /\ runtimes[j].room = r /\ j \in DOMAIN runtimes
        BY <1>3, <2>1, <3>2 DEF Up
      <4>. QED BY <1>2, <3>2, <4>1 DEF RoomOK
    <3>. QED BY <3>1, <3>2
  <2>2. registry'.map[r] # 0 => registry'.map[r] \in DOMAIN runtimes' /\ runtimes'[registry'.map[r]].room = r
    BY <1>3
  <2>3. matches'[r] # 0
    BY <1>2 DEF RoomOK
  <2>. QED BY <2>1, <2>2, <2>3 DEF RoomOK
<1>8. RegistryOK'
  BY <1>4, <1>6, <1>7 DEF RegistryOK
<1>. QED BY <1>3, <1>5, <1>8 DEF RuntimesStay

\* A row goes, under no runtime that needs it.
Goes(r) ==
  /\ UNCHANGED <<runtimes, matches>>
  /\ registry' \in RegistryType /\ \A s \in Rooms : registry'.map[s] = registry.map[s]
  /\ rows' = rows \/ rows' = [rows EXCEPT ![r] = NoRow]
  /\ \A k \in DOMAIN runtimes : runtimes[k].room = r /\ Up(k) => Synced(r, rows'[r], runtimes[k].record)
  /\ cleaning' \subseteq cleaning
  /\ \A old \in cleaning' : old.room = r => rows'[r].phase = "revealed"

LEMMA RowChanged == ASSUME RegistryOK, NEW r \in Rooms, Goes(r) PROVE RegistryOK'
<1>. USE DEF Goes
<1>1. Form /\ RoomOK(r)
  BY DEF RegistryOK
<1>2. Form' /\ rows'[r] \in {NoRow, rows[r]} /\ \A s \in Rooms \ {r} : rows'[s] = rows[s]
  BY <1>1 DEF Form
<1>3. \A s \in Rooms \ {r} : RoomOK(s)'
  BY <1>2, OtherRooms DEF Form
<1>4. RowOK(r, rows'[r])
  BY <1>1, <1>2, NoRowIsOK DEF RoomOK
<1>5. RoomOK(r)'
  BY <1>1, <1>2, <1>4 DEF RoomOK, Up
<1>. QED BY <1>2, <1>3, <1>5 DEF RegistryOK

LEMMA UpIsMapped ==
  ASSUME RegistryOK, NEW k \in DOMAIN runtimes, Up(k)
  PROVE  /\ runtimes[k].room \in Rooms /\ registry.map[runtimes[k].room] = k
         /\ RowOK(runtimes[k].room, runtimes[k].record)
         /\ Synced(runtimes[k].room, rows[runtimes[k].room], runtimes[k].record)
         /\ matches[runtimes[k].room] # 0
<1>1. runtimes[k].room \in Rooms
  BY DEF RegistryOK, Form
<1>. QED BY <1>1 DEF RegistryOK, RoomOK

LEMMA OpenOK ==
  ASSUME RegistryOK, NEW k \in DOMAIN runtimes, NEW r, r = runtimes[k].room, Open(k)
  PROVE  /\ RegistryOK' /\ RuntimesStay /\ DOMAIN runtimes' = DOMAIN runtimes
         /\ \A j \in DOMAIN runtimes : j # k => runtimes'[j] = runtimes[j]
         /\ runtimes[k].status = "opening"
         /\ \/ runtimes'[k].status = "refused" /\ rows' = rows
            \/ runtimes'[k].record = runtimes[k].record /\ rows' = rows
            \/ /\ runtimes'[k].record = Fresh(runtimes[k].match)
               /\ rows' = [rows EXCEPT ![r] = Fresh(runtimes[k].match)]
<1>. DEFINE seen == runtimes[k].record
            record == IF seen = NoRow THEN Fresh(runtimes[k].match) ELSE seen
<1>1. /\ Up(k) /\ Form /\ r \in Rooms /\ RoomOK(r) /\ registry.map[r] = k
      /\ RowOK(r, seen) /\ Synced(r, rows[r], seen)
  BY UpIsMapped DEF Open, Opening, Up, RegistryOK
<1>2. runtimes[k].status = "opening" /\ UNCHANGED <<matches, cleaning>>
  BY DEF Open, Opening
<1>3. CASE /\ runtimes' = [runtimes EXCEPT ![k].status = "refused"]
           /\ registry' = [registry EXCEPT !.map[r] = 0] /\ rows' = rows
  <2>. DEFINE x == [runtimes[k] EXCEPT !.status = "refused"]
  <2>1. x.status = "refused" /\ x.room = r /\ DOMAIN x = DOMAIN runtimes[k]
    BY <1>1 DEF Form
  <2>2. runtimes' = [runtimes EXCEPT ![k] = x]
    BY <1>3
  <2>3. registry' \in RegistryType /\ registry'.map[r] = 0
        /\ \A s \in Rooms \ {r} : registry'.map[s] = registry.map[s]
    <3>1. registry \in RegistryType /\ registry' = [registry EXCEPT !.map[r] = 0] /\ 0 \in Nat
      BY <1>1, <1>3 DEF Form
    <3>. QED BY <1>1, <3>1, MapChanged
  <2>. HIDE DEF x
  <2>4. RowOK(r, rows'[r]) /\ DOMAIN rows' = Rooms
        /\ \A old \in cleaning' : old.room = r => rows'[r].phase = "revealed"
    BY <1>1, <1>2, <1>3 DEF RoomOK, Form
  <2>5. /\ RegistryOK' /\ RuntimesStay /\ runtimes'[k] = x /\ DOMAIN runtimes' = DOMAIN runtimes
        /\ \A j \in DOMAIN runtimes : j # k => runtimes'[j] = runtimes[j]
    <3>1. Becomes(k, r, x)
      BY <1>1, <1>2, <1>3, <2>1, <2>2, <2>3, <2>4 DEF Becomes
    <3>. QED BY <3>1, RuntimeChanged
  <2>. QED BY <1>2, <1>3, <2>1, <2>5
<1>4. CASE /\ seen = NoRow => rows[r] = NoRow
           /\ runtimes' = [runtimes EXCEPT ![k].status = "open", ![k].record = record]
           /\ rows' = (IF seen = NoRow THEN [rows EXCEPT ![r] = record] ELSE rows)
           /\ registry' = registry
  <2>. DEFINE x == [runtimes[k] EXCEPT !.status = "open", !.record = record]
  <2>1. x.record = record /\ x.room = r /\ DOMAIN x = DOMAIN runtimes[k]
    BY <1>1 DEF Form
  <2>2. runtimes' = [runtimes EXCEPT ![k] = x]
    BY <1>4
  <2>. HIDE DEF x
  <2>3. RowOK(r, record)
    BY <1>1, FreshIsOK
  <2>4. /\ DOMAIN rows' = Rooms /\ \A s \in Rooms \ {r} : rows'[s] = rows[s]
        /\ rows'[r] = (IF seen = NoRow THEN record ELSE rows[r])
    BY <1>1, <1>4 DEF Form
  <2>5. RowOK(r, rows'[r]) /\ Synced(r, rows'[r], record)
    BY <1>1, <2>3, <2>4 DEF RoomOK, Synced
  <2>6. \A old \in cleaning' : old.room = r => rows'[r].phase = "revealed"
    BY <1>1, <1>2, <1>4, <2>4, NoRowIsOK DEF RoomOK
  <2>7. /\ RegistryOK' /\ RuntimesStay /\ runtimes'[k] = x /\ DOMAIN runtimes' = DOMAIN runtimes
        /\ \A j \in DOMAIN runtimes : j # k => runtimes'[j] = runtimes[j]
    <3>1. Becomes(k, r, x)
      BY <1>1, <1>2, <1>4, <2>1, <2>2, <2>4, <2>5, <2>6 DEF Becomes, Form
    <3>. QED BY <3>1, RuntimeChanged
  <2>. QED BY <1>2, <1>4, <2>1, <2>7
<1>. QED BY <1>3, <1>4 DEF Open

\* A runtime stops.
LEMMA Stops ==
  ASSUME RegistryOK, NEW k \in DOMAIN runtimes, NEW r, r = runtimes[k].room, registry.map[r] = k,
         runtimes' = [runtimes EXCEPT ![k].status = "closed"],
         registry' = registry \/ registry' = [registry EXCEPT !.map[r] = 0],
         rows' = rows, UNCHANGED <<matches, cleaning>>
  PROVE  /\ RegistryOK' /\ RuntimesStay /\ runtimes'[k].status = "closed"
         /\ DOMAIN runtimes' = DOMAIN runtimes
         /\ \A j \in DOMAIN runtimes : j # k => runtimes'[j] = runtimes[j]
<1>1. Form /\ r \in Rooms /\ RoomOK(r)
  BY DEF RegistryOK, Form
<1>. DEFINE x == [runtimes[k] EXCEPT !.status = "closed"]
<1>2. x.status = "closed" /\ x.room = r /\ DOMAIN x = DOMAIN runtimes[k]
  BY <1>1 DEF Form
<1>3. runtimes' = [runtimes EXCEPT ![k] = x]
  OBVIOUS
<1>4. registry' \in RegistryType /\ registry'.map[r] \in {0, k}
      /\ \A s \in Rooms \ {r} : registry'.map[s] = registry.map[s]
  <2>1. CASE registry' = registry
    BY <1>1, <2>1 DEF Form
  <2>2. CASE registry' = [registry EXCEPT !.map[r] = 0]
    <3>1. registry \in RegistryType /\ 0 \in Nat
      BY <1>1 DEF Form
    <3>. QED BY <1>1, <2>2, <3>1, MapChanged
  <2>. QED BY <2>1, <2>2
<1>. HIDE DEF x
<1>5. RowOK(r, rows'[r]) /\ DOMAIN rows' = Rooms
      /\ \A old \in cleaning' : old.room = r => rows'[r].phase = "revealed"
  BY <1>1 DEF RoomOK, Form
<1>6. Becomes(k, r, x)
  BY <1>2, <1>3, <1>4, <1>5 DEF Becomes
<1>. QED BY <1>2, <1>6, RuntimeChanged

\* A runtime saves a command at the stored version.
LEMMA SavedOK ==
  ASSUME RegistryOK, NEW k \in DOMAIN runtimes, NEW r, r = runtimes[k].room, Live(k), Current(k),
         NEW record, Saved(k, record), NEW next, next = [record EXCEPT !.version = @ + 1],
         RowOK(r, next), rows[r].phase # "revealed", UNCHANGED <<matches, registry, cleaning>>
  PROVE  /\ RegistryOK' /\ RuntimesStay /\ DOMAIN runtimes' = DOMAIN runtimes
         /\ runtimes'[k].record = next /\ runtimes'[k].status = "open"
         /\ \A j \in DOMAIN runtimes : j # k => runtimes'[j] = runtimes[j]
         /\ rows'[r] = next /\ \A s \in Rooms \ {r} : rows'[s] = rows[s]
<1>1. Up(k) /\ Form /\ r \in Rooms /\ RoomOK(r) /\ registry.map[r] = k
  BY UpIsMapped DEF Live, Up, RegistryOK
<1>2. rows' = [rows EXCEPT ![r] = next] /\ runtimes' = [runtimes EXCEPT ![k].record = next]
  BY DEF Saved
<1>. DEFINE x == [runtimes[k] EXCEPT !.record = next]
<1>3. x.record = next /\ x.status = "open" /\ x.room = r /\ DOMAIN x = DOMAIN runtimes[k]
  BY <1>1 DEF Form, Live
<1>4. runtimes' = [runtimes EXCEPT ![k] = x]
  BY <1>2
<1>. HIDE DEF x
<1>5. DOMAIN rows' = Rooms /\ rows'[r] = next /\ \A s \in Rooms \ {r} : rows'[s] = rows[s]
  BY <1>1, <1>2 DEF Form
<1>6. \A old \in cleaning' : old.room = r => rows'[r].phase = "revealed"
  BY <1>1 DEF RoomOK
<1>7. Becomes(k, r, x)
  BY <1>1, <1>3, <1>4, <1>5, <1>6 DEF Becomes, Synced, Form
<1>. QED BY <1>3, <1>5, <1>7, RuntimeChanged

LEMMA MoveOK ==
  ASSUME RegistryOK, NEW k \in DOMAIN runtimes, NEW r, r = runtimes[k].room, Move(k)
  PROVE  /\ RegistryOK' /\ RuntimesStay /\ DOMAIN runtimes' = DOMAIN runtimes
         /\ \A j \in DOMAIN runtimes : j # k => runtimes'[j] = runtimes[j]
         /\ \A s \in Rooms \ {r} : rows'[s] = rows[s]
         /\ runtimes[k].record.phase = "playing" =>
              runtimes'[k].status = "open" /\ runtimes'[k].record.phase = "revealed"
<1>. DEFINE old == runtimes[k].record
            record == [old EXCEPT !.phase = NextPhase(old)]
            next == [record EXCEPT !.version = @ + 1]
<1>1. /\ Live(k) /\ MayMove(r, old) /\ Saved(k, record)
      /\ UNCHANGED <<matches, registry, cleaning>>
  BY DEF Move
<1>2. /\ Up(k) /\ Form /\ r \in Rooms /\ RoomOK(r) /\ registry.map[r] = k
      /\ RowOK(r, old) /\ Synced(r, rows[r], old)
  BY <1>1, UpIsMapped DEF Live, Up, RegistryOK
<1>3. CASE Current(k)
  <2>1. /\ DOMAIN next = RowFields /\ next.version = old.version + 1
        /\ next.phase = NextPhase(old) /\ next.seats = old.seats
    BY <1>2 DEF RowOK, IsRow, RowFields
  <2>. HIDE DEF next
  <2>2. RowOK(r, next)
    <3>1. IsRow(next)
      BY <1>2, <2>1 DEF RowOK, IsRow, NextPhase
    <3>2. ASSUME r \in PublicRooms PROVE Numbered(next)
      <4>1. r \notin Tables
        BY <3>2, LobbyAssumption
      <4>. QED BY <1>1, <1>2, <2>1, <3>2, <4>1 DEF RowOK, IsRow, Numbered, NextPhase, MayMove
    <3>. QED BY <3>1, <3>2 DEF RowOK
  <2>3. rows[r].phase # "revealed"
    <3>1. CASE rows[r] = old
      BY <1>1, <3>1 DEF MayMove
    <3>2. CASE r \in PublicRooms /\ old.phase \in {"none", "lobby"}
      <4>1. old.version <= 2 /\ rows[r].version = old.version /\ RowOK(r, rows[r])
        BY <1>2, <1>3, <3>2 DEF RowOK, Numbered, Current, RoomOK
      <4>. QED BY <3>2, <4>1 DEF RowOK, IsRow, Numbered
    <3>. QED BY <1>2, <3>1, <3>2 DEF Synced
  <2>4. next = [record EXCEPT !.version = @ + 1]
    BY DEF next
  <2>5. old.phase = "playing" => next.phase = "revealed"
    BY <2>1 DEF NextPhase
  <2>. HIDE DEF record
  <2>6. /\ RegistryOK' /\ RuntimesStay /\ DOMAIN runtimes' = DOMAIN runtimes
        /\ runtimes'[k].record = next /\ runtimes'[k].status = "open"
        /\ \A j \in DOMAIN runtimes : j # k => runtimes'[j] = runtimes[j]
        /\ \A s \in Rooms \ {r} : rows'[s] = rows[s]
    BY <1>1, <1>3, <2>2, <2>3, <2>4, SavedOK
  <2>. QED BY <2>5, <2>6
<1>4. CASE ~Current(k)
  <2>1. runtimes' = [runtimes EXCEPT ![k].status = "closed"] /\ rows' = rows
    BY <1>1, <1>4 DEF Saved
  <2>2. old.phase # "playing"
    <3>1. rows[r] # old
      BY <1>2, <1>4, NoRowIsOK, <1>1 DEF Current, MayMove
    <3>. QED BY <1>2, <3>1 DEF Synced
  <2>3. UNCHANGED <<matches, cleaning>> /\ registry' = registry
    BY <1>1
  <2>. QED BY <1>2, <2>1, <2>2, <2>3, Stops
<1>. QED BY <1>3, <1>4

\* The runtime of a room, if there is one, is closed and taken out of the map, and the row may go.
LEMMA EvictedOK ==
  ASSUME RegistryOK, NEW r \in Rooms, Evicted(r), registry' = [registry EXCEPT !.map[r] = 0],
         rows' = rows \/ rows' = [rows EXCEPT ![r] = NoRow],
         matches' = matches, cleaning' \subseteq cleaning,
         \A old \in cleaning' : old.room = r => rows'[r].phase = "revealed"
  PROVE  /\ RegistryOK' /\ RuntimesStay /\ DOMAIN runtimes' = DOMAIN runtimes
         /\ \A j \in DOMAIN runtimes : runtimes[j].room # r => runtimes'[j] = runtimes[j]
         /\ \A j \in DOMAIN runtimes : runtimes[j].room = r => ~Up(j)'
<1>. DEFINE k == registry.map[r]
<1>1. Form /\ RoomOK(r)
  BY DEF RegistryOK
<1>2. registry' \in RegistryType /\ registry'.map[r] = 0
      /\ \A s \in Rooms \ {r} : registry'.map[s] = registry.map[s]
  <2>1. registry \in RegistryType /\ 0 \in Nat
    BY <1>1 DEF Form
  <2>. QED BY <2>1, MapChanged, SMTT(60)
<1>3. /\ DOMAIN rows' = Rooms /\ \A s \in Rooms \ {r} : rows'[s] = rows[s]
      /\ RowOK(r, rows'[r])
  BY <1>1, NoRowIsOK DEF Form, RoomOK
<1>4. CASE k = 0
  <2>1. runtimes' = runtimes
    BY <1>4 DEF Evicted
  <2>2. ASSUME NEW j \in DOMAIN runtimes, runtimes[j].room = r PROVE ~Up(j)
    <3>1. Up(j) => j = 0
      BY <1>1, <1>4, <2>2 DEF RoomOK
    <3>2. DOMAIN runtimes = 1..Len(runtimes)
      BY <1>1, Indices DEF Form
    <3>. QED BY <3>1, <3>2
  <2>3. Form'
    BY <1>1, <1>2, <1>3, <2>1 DEF Form
  <2>4. \A s \in Rooms \ {r} : RoomOK(s)'
    BY <1>2, <1>3, <2>1, OtherRooms
  <2>5. RoomOK(r)'
    BY <1>1, <1>2, <1>3, <2>1, <2>2 DEF RoomOK, Up
  <2>. QED BY <2>1, <2>2, <2>3, <2>4, <2>5 DEF RegistryOK, RuntimesStay, Up
<1>5. CASE k # 0
  <2>. DEFINE x == [runtimes[k] EXCEPT !.status = "closed"]
  <2>1. k \in DOMAIN runtimes /\ runtimes[k].room = r
    BY <1>1, <1>5 DEF RoomOK
  <2>2. runtimes' = [runtimes EXCEPT ![k] = x]
    BY <1>5 DEF Evicted
  <2>3. x.status = "closed" /\ x.room = r /\ DOMAIN x = DOMAIN runtimes[k]
    BY <1>1, <2>1 DEF Form
  <2>. HIDE DEF x
  <2>4. Becomes(k, r, x)
    BY <1>2, <1>3, <2>1, <2>2, <2>3 DEF Becomes
  <2>5. /\ RegistryOK' /\ RuntimesStay /\ runtimes'[k] = x /\ DOMAIN runtimes' = DOMAIN runtimes
        /\ \A j \in DOMAIN runtimes : j # k => runtimes'[j] = runtimes[j]
    BY <2>1, <2>4, RuntimeChanged
  <2>6. ASSUME NEW j \in DOMAIN runtimes, runtimes[j].room = r PROVE ~Up(j)'
    BY <1>1, <2>3, <2>5, <2>6 DEF RoomOK, Up
  <2>. QED BY <2>1, <2>5, <2>6
<1>. QED BY <1>4, <1>5

\* A public row that is deleted as a lobby's is no started match's: the versions differ.
LEMMA LobbyDeleted ==
  ASSUME RegistryOK, NEW r \in PublicRooms, NEW v, v \in Nat => v <= 2, Deleted(r, v),
         registry' = [registry EXCEPT !.deleting = @ \ {r}], UNCHANGED <<matches, runtimes, cleaning>>
  PROVE  RegistryOK'
<1>1. Form /\ r \in Rooms /\ RoomOK(r)
  BY DEF RegistryOK, Rooms
<1>2. registry' \in RegistryType /\ \A s \in Rooms : registry'.map[s] = registry.map[s]
  BY <1>1 DEF Form, RegistryType
<1>3. CASE rows' = rows
  <2>1. Goes(r)
    BY <1>1, <1>2, <1>3 DEF Goes, RoomOK
  <2>. QED BY <1>1, <2>1, RowChanged
<1>4. CASE rows' = [rows EXCEPT ![r] = NoRow] /\ rows[r].version = v
  <2>1. rows[r].phase \in {"none", "lobby"}
    BY <1>1, <1>4 DEF RoomOK, RowOK, IsRow, Numbered
  <2>2. \A old \in cleaning : old.room # r
    BY <1>1, <2>1 DEF RoomOK
  <2>3. \A k \in DOMAIN runtimes : runtimes[k].room = r /\ Up(k) => Synced(r, rows'[r], runtimes[k].record)
    BY <1>1, <2>1 DEF RoomOK, Synced
  <2>4. Goes(r)
    BY <1>2, <1>4, <2>2, <2>3 DEF Goes
  <2>. QED BY <1>1, <2>4, RowChanged
<1>. QED BY <1>3, <1>4 DEF Deleted

LEMMA CleanUpOK == ASSUME RegistryOK, CleanUp PROVE RegistryOK'
<1>1. Form /\ UNCHANGED <<rows, matches, runtimes, registry>>
  BY DEF CleanUp, RegistryOK
<1>2. PICK old \in SUBSET {r \in Rooms : rows[r].phase = "revealed"} :
        cleaning' = {[room |-> r, version |-> rows[r].version] : r \in old}
  BY DEF CleanUp
<1>3. \A o \in cleaning' : o.room \in old /\ o = [room |-> o.room, version |-> rows[o.room].version]
  BY <1>2
<1>4. Form'
  BY <1>1, <1>3 DEF Form
<1>5. ASSUME NEW r \in Rooms PROVE RoomOK(r)'
  BY <1>1, <1>3 DEF RegistryOK, RoomOK, Up
<1>. QED BY <1>4, <1>5 DEF RegistryOK

LEMMA CleanedUpOK ==
  ASSUME RegistryOK, NEW old \in cleaning, CleanedUp(old)
  PROVE  /\ RegistryOK' /\ RuntimesStay /\ DOMAIN runtimes' = DOMAIN runtimes
         /\ \A j \in DOMAIN runtimes : runtimes[j].room # old.room => runtimes'[j] = runtimes[j]
         /\ \A j \in DOMAIN runtimes : runtimes[j].room = old.room => ~Up(j)'
         /\ rows' = rows \/ rows' = [rows EXCEPT ![old.room] = NoRow]
<1>1. old.room \in Rooms /\ \A o \in cleaning' : o \in cleaning /\ o.room # old.room
  BY DEF RegistryOK, Form, CleanedUp
<1>2. rows' = rows \/ rows' = [rows EXCEPT ![old.room] = NoRow]
  BY DEF CleanedUp, Deleted
<1>3. /\ Evicted(old.room) /\ registry' = [registry EXCEPT !.map[old.room] = 0]
      /\ matches' = matches /\ cleaning' \subseteq cleaning
  BY DEF CleanedUp
<1>. QED BY <1>1, <1>2, <1>3, EvictedOK

LEMMA ClosedOK ==
  ASSUME RegistryOK, Closed
  PROVE  /\ RegistryOK' /\ RuntimesStay /\ DOMAIN runtimes' = DOMAIN runtimes
         /\ \A k \in DOMAIN runtimes : ~Up(k)'
<1>1. Form /\ \A r \in Rooms : RoomOK(r)
  BY DEF RegistryOK
<1>2. UNCHANGED <<rows, matches, cleaning>> /\ registry' = [registry EXCEPT !.map = [r \in Rooms |-> 0]]
  BY DEF Closed
<1>3. registry' \in RegistryType /\ \A r \in Rooms : registry'.map[r] = 0
  BY <1>1, <1>2 DEF Form, RegistryType
<1>4. /\ DOMAIN runtimes' = DOMAIN runtimes
      /\ \A k \in DOMAIN runtimes :
           runtimes'[k] = IF registry.map[runtimes[k].room] = k
                          THEN [runtimes[k] EXCEPT !.status = "closed"] ELSE runtimes[k]
  BY DEF Closed
<1>5. \A k \in DOMAIN runtimes :
        runtimes'[k].room = runtimes[k].room /\ DOMAIN runtimes'[k] = DOMAIN runtimes[k]
  BY <1>1, <1>4 DEF Form
<1>6. ASSUME NEW k \in DOMAIN runtimes PROVE ~Up(k)'
  <2>1. CASE registry.map[runtimes[k].room] = k
    BY <1>1, <1>4, <2>1 DEF Form, Up
  <2>2. CASE registry.map[runtimes[k].room] # k
    <3>1. ~Up(k)
      BY <2>2, UpIsMapped
    <3>. QED BY <1>4, <2>2, <3>1 DEF Up
  <2>. QED BY <2>1, <2>2
<1>7. IsSequence(runtimes')
  <2>. DEFINE T == {runtimes'[k] : k \in DOMAIN runtimes}
  <2>1. DOMAIN runtimes = 1..Len(runtimes) /\ Len(runtimes) \in Nat
    BY <1>1, Indices DEF Form
  <2>2. runtimes' \in [1..Len(runtimes) -> T]
    BY <2>1 DEF Closed
  <2>. HIDE DEF T
  <2>3. runtimes' \in Seq(T)
    BY <2>1, <2>2
  <2>. QED BY <2>3 DEF IsSequence
<1>8. Form'
  BY <1>1, <1>2, <1>3, <1>4, <1>5, <1>7 DEF Form
<1>9. ASSUME NEW r \in Rooms PROVE RoomOK(r)'
  BY <1>1, <1>2, <1>3, <1>4, <1>5, <1>6 DEF RoomOK
<1>. QED BY <1>4, <1>5, <1>6, <1>8, <1>9 DEF RegistryOK, RuntimesStay

-----------------------------------------------------------------------------
(* Calls and the task                                                      *)

\* A room that has been is not forgotten.
Grows == \A r \in Rooms : matches[r] # 0 => matches'[r] # 0

LEMMA CallsStay == ASSUME CallsOK, Grows, calls' = calls PROVE CallsOK'
BY DEF CallsOK, Grows, Loaded

LEMMA TaskFormStays ==
  ASSUME TaskForm, task' = task, RuntimesStay, Grows PROVE TaskForm'
<1>1. Got(task.room, task.wait)'
  BY DEF TaskForm, Got, RuntimesStay
<1>2. Loaded(task.room, task.wait)'
  <2>1. task.wait.at = "load" => task.room \in Rooms
    BY DEF TaskForm, Nothing, Wait, Rooms
  <2>. QED BY <2>1 DEF TaskForm, Loaded, Grows
<1>. QED BY <1>1, <1>2 DEF TaskForm

LEMMA RegistryStays ==
  ASSUME RegistryOK, UNCHANGED <<rows, matches, runtimes, cleaning>>,
         registry' \in RegistryType, registry'.map = registry.map
  PROVE  RegistryOK' /\ RuntimesStay /\ Grows
BY DEF RegistryOK, Form, RoomOK, Up, RuntimesStay, Grows

LEMMA GettingOK ==
  ASSUME RegistryOK, NEW r \in Rooms
  PROVE  /\ DOMAIN Getting(r) = DOMAIN Nothing
         /\ Loaded(r, Getting(r)) /\ Got(r, Getting(r))
<1>1. RoomOK(r)
  BY DEF RegistryOK
<1>. QED BY <1>1 DEF Getting, Nothing, Wait, Loaded, Got, RoomOK

LEMMA CreatingOK ==
  ASSUME NEW r
  PROVE  /\ DOMAIN Creating(r) = DOMAIN Nothing
         /\ Loaded(r, Creating(r)) /\ Got(r, Creating(r))
BY DEF Creating, Nothing, Wait, Loaded, Got

\* An answer opens at most one runtime, of the row as it is.
LEMMA ProgressOK ==
  ASSUME RegistryOK, NEW r \in Rooms, NEW wait, NEW next \in Answers, Progress(r, wait, next),
         Loaded(r, wait), Got(r, wait), UNCHANGED <<rows, cleaning>>
  PROVE  /\ RegistryOK' /\ RuntimesStay /\ Grows
         /\ DOMAIN next = DOMAIN Nothing /\ Loaded(r, next)' /\ Got(r, next)'
         /\ \A k \in DOMAIN runtimes : runtimes'[k] = runtimes[k]
         /\ \A k \in DOMAIN runtimes' \ DOMAIN runtimes :
              runtimes'[k].room = r /\ runtimes'[k].record = rows[r]
<1>1. RoomOK(r) /\ Form
  BY DEF RegistryOK
<1>2. DOMAIN next = DOMAIN Nothing /\ Loaded(r, next)'
  BY DEF Answers, Nothing, Wait, Loaded
<1>3. CASE UNCHANGED <<matches, runtimes, registry>> /\ next.runtime \in {0, wait.runtime}
  <2>1. RegistryOK' /\ RuntimesStay /\ Grows
    BY <1>1, <1>3, RegistryStays DEF Form
  <2>. QED BY <1>2, <1>3, <2>1 DEF Got
<1>4. CASE /\ wait.at = "load" /\ wait.row # NoRow /\ next = Wait("opening", registry'.map[r], NoRow)
           /\ AlreadyOpen(r) /\ UNCHANGED <<matches, runtimes, registry>>
  <2>1. RegistryOK' /\ RuntimesStay /\ Grows
    BY <1>1, <1>4, RegistryStays DEF Form
  <2>. QED BY <1>1, <1>2, <1>4, <2>1 DEF Got, Wait, RoomOK
<1>5. CASE /\ ~AlreadyOpen(r) /\ next = Wait("opening", registry'.map[r], NoRow)
           /\ \/ wait.at = "load" /\ wait.row # NoRow /\ Opened(r, wait.row.match) /\ matches' = matches
              \/ Opened(r, matches[r] + 1) /\ matches' = [matches EXCEPT ![r] = @ + 1]
  <2>1. matches' \in [Rooms -> Nat] /\ matches'[r] # 0 /\ \A s \in Rooms \ {r} : matches'[s] = matches[s]
    BY <1>1, <1>5 DEF Form, Loaded
  <2>2. PICK m : Opened(r, m)
    BY <1>5
  <2>3. /\ RegistryOK' /\ RuntimesStay
        /\ registry'.map[r] \in DOMAIN runtimes' /\ runtimes'[registry'.map[r]].room = r
        /\ \A k \in DOMAIN runtimes : runtimes'[k] = runtimes[k]
        /\ \A k \in DOMAIN runtimes' \ DOMAIN runtimes :
             runtimes'[k].room = r /\ runtimes'[k].record = rows[r]
    BY <1>5, <2>1, <2>2, OpenedOK
  <2>. QED BY <1>2, <1>5, <2>1, <2>3 DEF Got, Wait, Grows
<1>6. next = Nothing => next.runtime = 0
  BY DEF Nothing, Wait
<1>7. \A k : Wait("got", k, NoRow).runtime = k /\ Wait("failed", 0, NoRow).runtime = 0
  BY DEF Wait
<1>. QED BY <1>3, <1>4, <1>5, <1>6, <1>7 DEF Progress
-----------------------------------------------------------------------------
(* The steps of matchmaking                                                *)

\* What is live and playing stays so, or its match ends.
Kept ==
  \A k \in DOMAIN runtimes : Live(k) /\ runtimes[k].record.phase = "playing" =>
    Live(k)' /\ runtimes'[k].record.phase \in {"playing", "revealed"}

\* A step of the task, or of a call, that touches neither a room nor a runtime.
Quiet ==
  /\ UNCHANGED <<rows, matches, runtimes, cleaning>>
  /\ registry' \in RegistryType /\ registry'.map = registry.map

LEMMA QuietOK ==
  ASSUME RegistryOK, Quiet PROVE RegistryOK' /\ RuntimesStay /\ Grows /\ Kept
<1>1. RegistryOK' /\ RuntimesStay /\ Grows
  BY RegistryStays DEF Quiet
<1>2. Kept
  BY DEF Quiet, Kept, Live
<1>. QED BY <1>1, <1>2

LEMMA RestingOK ==
  ASSUME DOMAIN task' = DOMAIN Idle, task'.at \in {"idle", "sweep", "queue"}, task'.wait = Nothing
  PROVE  TaskOK'
BY DEF TaskOK, TaskForm, Fills, Loaded, Got, Nothing, Wait

LEMMA IdleFields == /\ DOMAIN Idle = {"at", "user", "action", "checked", "room", "wait"}
                    /\ Idle.at = "idle" /\ Idle.wait = Nothing
                    /\ DOMAIN Nothing = {"at", "runtime", "row"}
                    /\ Nothing.at = "got" /\ Nothing.runtime = 0
BY DEF Idle, Nothing, Wait

LEMMA PublicIsRoom == PublicRooms \subseteq Rooms
BY DEF Rooms

\* The task asks for a room, and nothing else happens.
LEMMA AsksOK ==
  ASSUME RegistryOK, NEW r \in PublicRooms, Quiet, registry' = registry,
         DOMAIN task' = DOMAIN Idle, task'.at \in {"lobby", "resume", "join"},
         task'.room = r, task'.wait = Getting(r),
         task'.at = "join" => Fills /\ FewSeats /\ task.room = r
  PROVE  TaskOK'
<1>1. DOMAIN Getting(r) = DOMAIN Nothing /\ Loaded(r, Getting(r)) /\ Got(r, Getting(r))
  BY GettingOK, PublicIsRoom
<1>2. Loaded(r, task.wait)' /\ Got(r, task.wait)'
  BY <1>1 DEF Quiet, Loaded, Got
<1>3. TaskForm'
  BY <1>1, <1>2 DEF TaskForm
<1>4. Fills' => FewSeats'
  BY DEF Fills, FewSeats, Up, Quiet
<1>. QED BY <1>3, <1>4 DEF TaskOK

LEMMA SweepRoomOK == ASSUME IInv, NEW r \in PublicRooms, SweepRoom(r) PROVE Quiet /\ TaskOK'
<1>1. RegistryOK /\ DOMAIN task = DOMAIN Idle /\ Quiet /\ registry' = registry
  BY DEF IInv, TaskOK, TaskForm, SweepRoom, Quiet, RegistryOK, Form
<1>2. /\ DOMAIN task' = DOMAIN Idle /\ task'.at = "lobby" /\ task'.room = r
      /\ task'.wait = Getting(r)
  BY <1>1, IdleFields DEF SweepRoom
<1>. QED BY <1>1, <1>2, AsksOK

LEMMA UpdateOK ==
  ASSUME IInv, NEW u, NEW action, Update(u, action) PROVE Quiet /\ TaskOK'
<1>1. RegistryOK /\ Quiet /\ registry' = registry
  BY DEF IInv, Update, Quiet, RegistryOK, Form
<1>. DEFINE serving == [Idle EXCEPT !.at = "queue", !.user = u, !.action = action]
<1>2. DOMAIN serving = DOMAIN Idle /\ serving.at = "queue" /\ serving.wait = Nothing
  BY IdleFields
<1>3. CASE task' = serving
  BY <1>1, <1>2, <1>3, RestingOK
<1>4. CASE \E r \in PublicRooms :
             task' = [serving EXCEPT !.at = "resume", !.room = r, !.wait = Getting(r)]
  <2>. PICK r \in PublicRooms :
         task' = [serving EXCEPT !.at = "resume", !.room = r, !.wait = Getting(r)]
    BY <1>4
  <2>. HIDE DEF serving
  <2>1. /\ DOMAIN task' = DOMAIN Idle /\ task'.at = "resume" /\ task'.room = r
        /\ task'.wait = Getting(r)
    BY <1>2, IdleFields
  <2>. QED BY <1>1, <2>1, AsksOK
<1>. QED BY <1>3, <1>4 DEF Update

LEMMA CreatedOK == ASSUME IInv, Created PROVE Quiet /\ TaskOK'
<1>1. /\ RegistryOK /\ TaskOK /\ DOMAIN task = DOMAIN Idle /\ Quiet /\ registry' = registry
      /\ task.room \in PublicRooms
  BY DEF IInv, TaskOK, TaskForm, Created, Quiet, RegistryOK, Form
<1>2. /\ DOMAIN task' = DOMAIN Idle /\ task'.at = "join" /\ task'.room = task.room
      /\ task'.wait = Getting(task.room)
  BY <1>1, IdleFields DEF Created
<1>3. Fills /\ FewSeats
  BY <1>1, IdleFields DEF TaskOK, Fills, Created
<1>. QED BY <1>1, <1>2, <1>3, AsksOK

\* A room that was never there has nobody in it.
LEMMA QueueOK == ASSUME IInv, Queue PROVE Quiet /\ TaskOK'
<1>1. RegistryOK /\ DOMAIN task = DOMAIN Idle /\ Quiet /\ registry' = registry
  BY DEF IInv, TaskOK, TaskForm, Queue, Quiet, RegistryOK, Form
<1>2. CASE Done
  BY <1>1, <1>2, IdleFields, RestingOK DEF Done
<1>3. CASE \E r \in PublicRooms :
             /\ matches[r] = 0 \/ registry.map[r] # 0
             /\ task' = [task EXCEPT !.at = "create", !.room = r, !.wait = Creating(r)]
  <2>. PICK r \in PublicRooms :
         /\ matches[r] = 0 \/ registry.map[r] # 0
         /\ task' = [task EXCEPT !.at = "create", !.room = r, !.wait = Creating(r)]
    BY <1>3
  <2>1. /\ DOMAIN task' = DOMAIN Idle /\ task'.at = "create" /\ task'.room = r
        /\ task'.wait = Creating(r)
    BY <1>1, IdleFields
  <2>2. DOMAIN Creating(r) = DOMAIN Nothing /\ Loaded(r, Creating(r)) /\ Got(r, Creating(r))
    BY CreatingOK
  <2>3. Loaded(r, task.wait)' /\ Got(r, task.wait)'
    BY <1>1, <2>1, <2>2 DEF Quiet, Loaded, Got
  <2>4. TaskForm'
    BY <2>1, <2>2, <2>3 DEF TaskForm
  <2>5. ASSUME Creating(r) # Nothing
        PROVE  rows[r] = NoRow /\ \A k \in DOMAIN runtimes : runtimes[k].room # r
    <3>1. registry.map[r] = 0
      BY <2>5 DEF Creating
    <3>2. RoomOK(r)
      BY <1>1, PublicIsRoom DEF RegistryOK
    <3>. QED BY <3>1, <3>2 DEF RoomOK
  <2>6. Fills' => FewSeats'
    <3>1. SUFFICES ASSUME Fills' PROVE FewSeats'
      OBVIOUS
    <3>2. rows[r] = NoRow /\ \A k \in DOMAIN runtimes : runtimes[k].room # r
      BY <2>1, <2>5, <3>1 DEF Fills
    <3>. QED BY <1>1, <2>1, <3>2, NoRowIsOK DEF FewSeats, Quiet, Little
  <2>. QED BY <1>1, <2>4, <2>6 DEF TaskOK
<1>. QED BY <1>2, <1>3 DEF Queue
\* The tasks that rest after the step, or begin with a sweep.
LEMMA RestsOK ==
  ASSUME IInv, Sweep \/ NoLobby \/ EndSweep \/ Resume \/ Failed PROVE Quiet /\ TaskOK'
<1>1. /\ RegistryOK /\ TaskOK /\ Quiet /\ registry' = registry
      /\ DOMAIN task = DOMAIN Idle
  BY DEF IInv, TaskOK, TaskForm, Sweep, NoLobby, EndSweep, Resume, Failed, Quiet, RegistryOK, Form
<1>2. CASE task' \in {Idle, [Idle EXCEPT !.at = "sweep"]}
  BY <1>1, <1>2, IdleFields, RestingOK
<1>3. CASE Swept
  <2>1. DOMAIN task' = DOMAIN Idle /\ task'.at = "sweep" /\ task'.wait = Nothing
    BY <1>1, <1>3, IdleFields DEF Swept
  <2>. QED BY <1>1, <2>1, RestingOK
<1>4. CASE task' = [task EXCEPT !.at = "queue", !.room = NoRoom, !.wait = Nothing]
  <2>1. DOMAIN task' = DOMAIN Idle /\ task'.at = "queue" /\ task'.wait = Nothing
    BY <1>1, <1>4, IdleFields
  <2>. QED BY <1>1, <2>1, RestingOK
<1>5. CASE task' = task
  <2>1. Grows /\ RuntimesStay
    BY <1>1, QuietOK
  <2>2. TaskForm'
    BY <1>1, <1>5, <2>1, TaskFormStays DEF TaskOK
  <2>3. Fills' => FewSeats'
    BY <1>1, <1>5 DEF TaskOK, Fills, FewSeats, Quiet, Up
  <2>. QED BY <1>1, <2>2, <2>3 DEF TaskOK
<1>. QED BY <1>2, <1>3, <1>4, <1>5 DEF Sweep, NoLobby, EndSweep, Resume, Failed, Done

\* The room of a task is marked as being deleted, and the task goes on with what it has.
LEMMA MarksOK ==
  ASSUME IInv, MarkLobby \/ NotSeated PROVE Quiet /\ TaskOK'
<1>1. /\ RegistryOK /\ TaskOK /\ DOMAIN task = DOMAIN Idle /\ task.room \in PublicRooms
      /\ registry \in RegistryType /\ UNCHANGED <<rows, matches, runtimes, cleaning>>
      /\ registry' = [registry EXCEPT !.deleting = @ \cup {task.room}]
  BY DEF IInv, TaskOK, TaskForm, MarkLobby, NotSeated, RegistryOK, Form
<1>2. Quiet
  BY <1>1, PublicIsRoom DEF RegistryType, Quiet
<1>3. \/ /\ task.wait.runtime # 0 /\ task' = [task EXCEPT !.at = "closing"]
      \/ /\ task.at = "join" /\ task' = [task EXCEPT !.at = "rollback"]
  BY DEF MarkLobby, NotSeated
<1>4. /\ DOMAIN task' = DOMAIN Idle /\ task'.room = task.room /\ task'.wait = task.wait
      /\ \/ task'.at = "closing" /\ task.wait.runtime # 0
         \/ task'.at = "rollback" /\ task.at = "join"
  BY <1>1, <1>3, IdleFields
<1>5. DOMAIN task.wait = DOMAIN Nothing /\ Loaded(task.room, task.wait) /\ Got(task.room, task.wait)
  BY <1>1 DEF TaskOK, TaskForm
<1>6. Loaded(task.room, task.wait)' /\ Got(task.room, task.wait)'
  BY <1>2, <1>4, <1>5 DEF Quiet, Loaded, Got
<1>7. TaskForm'
  BY <1>1, <1>4, <1>5, <1>6 DEF TaskForm
<1>8. Fills' => FewSeats'
  BY <1>1, <1>4 DEF TaskOK, Fills, FewSeats, Up
<1>. QED BY <1>2, <1>7, <1>8 DEF TaskOK

\* What the task holds is kept by a step of others that spares the room that is being filled.
LEMMA TaskStays ==
  ASSUME TaskOK, task' = task, RuntimesStay, Grows, Fills => FewSeats' PROVE TaskOK'
BY TaskFormStays DEF TaskOK, Fills

\* The registry answers the task.
LEMMA AnsweredOK ==
  ASSUME IInv, Answered PROVE RegistryOK' /\ RuntimesStay /\ Grows /\ Kept /\ TaskOK'
<1>1. /\ RegistryOK /\ TaskOK /\ DOMAIN task = DOMAIN Idle /\ UNCHANGED <<rows, cleaning>>
      /\ task.at \in {"lobby", "resume", "create", "join"} /\ task.room \in PublicRooms
      /\ Loaded(task.room, task.wait) /\ Got(task.room, task.wait)
      /\ task.wait.at # "got"
  BY DEF IInv, TaskOK, TaskForm, Answered
<1>2. PICK next \in Answers : Progress(task.room, task.wait, next) /\ task' = [task EXCEPT !.wait = next]
  BY DEF Answered
<1>3. /\ RegistryOK' /\ RuntimesStay /\ Grows
      /\ DOMAIN next = DOMAIN Nothing /\ Loaded(task.room, next)' /\ Got(task.room, next)'
      /\ \A k \in DOMAIN runtimes : runtimes'[k] = runtimes[k]
      /\ \A k \in DOMAIN runtimes' \ DOMAIN runtimes :
           runtimes'[k].room = task.room /\ runtimes'[k].record = rows[task.room]
  BY <1>1, <1>2, ProgressOK, PublicIsRoom
<1>4. Kept
  BY <1>3 DEF Kept, Live
<1>5. DOMAIN task' = DOMAIN Idle /\ task'.at = task.at /\ task'.room = task.room /\ task'.wait = next
  BY <1>1, <1>2, IdleFields
<1>6. TaskForm'
  <2>1. Loaded(task.room, task.wait)' /\ Got(task.room, task.wait)'
    BY <1>3, <1>5 DEF Loaded, Got
  <2>. QED BY <1>1, <1>3, <1>5, <2>1 DEF TaskForm
<1>7. Fills' => FewSeats'
  <2>1. Fills' => Fills
    BY <1>1, <1>5, IdleFields DEF Fills
  <2>. QED BY <1>1, <1>3, <1>5, <2>1 DEF TaskOK, FewSeats, Up
<1>. QED BY <1>3, <1>4, <1>6, <1>7 DEF TaskOK
-----------------------------------------------------------------------------
(* The steps of rooms, calls and the cleanup                               *)

LEMMA FillsPublic == ASSUME TaskOK, Fills PROVE task.room \in PublicRooms /\ task.room \in Rooms
BY PublicIsRoom DEF TaskOK, TaskForm, Fills

LEMMA LittleIsLobby ==
  ASSUME NEW row, Little(row) PROVE row.phase \in {"none", "lobby"} /\ Cardinality(row.seats) # 2
<1>1. Cardinality({}) = 0
  BY FS_EmptySet
<1>. QED BY <1>1 DEF Little

LEMMA MoveStep ==
  ASSUME IInv, NEW k \in DOMAIN runtimes, Move(k)
  PROVE  RegistryOK' /\ RuntimesStay /\ Grows /\ Kept /\ TaskOK'
<1>. DEFINE r == runtimes[k].room
<1>1. /\ RegistryOK /\ TaskOK /\ UNCHANGED <<matches, task>>
      /\ Up(k) /\ MayMove(r, runtimes[k].record)
  BY DEF IInv, Move, Live, Up
<1>2. /\ RegistryOK' /\ RuntimesStay /\ DOMAIN runtimes' = DOMAIN runtimes
      /\ \A j \in DOMAIN runtimes : j # k => runtimes'[j] = runtimes[j]
      /\ \A s \in Rooms \ {r} : rows'[s] = rows[s]
      /\ runtimes[k].record.phase = "playing" =>
           runtimes'[k].status = "open" /\ runtimes'[k].record.phase = "revealed"
  BY <1>1, MoveOK
<1>3. Grows /\ Kept
  BY <1>1, <1>2 DEF Grows, Kept, Live
<1>4. ASSUME Fills PROVE FewSeats'
  <2>1. task.room \in PublicRooms /\ task.room \in Rooms /\ FewSeats
    BY <1>1, <1>4, FillsPublic DEF TaskOK
  <2>2. r # task.room
    <3>1. SUFFICES ASSUME r = task.room PROVE FALSE
      OBVIOUS
    <3>2. Little(runtimes[k].record)
      BY <1>1, <2>1, <3>1 DEF FewSeats
    <3>3. r \notin Tables
      BY <2>1, <3>1, LobbyAssumption
    <3>. QED BY <1>1, <3>2, <3>3, LittleIsLobby DEF MayMove
  <2>. QED BY <1>1, <1>2, <2>1, <2>2 DEF FewSeats, Up, RuntimesStay
<1>. QED BY <1>1, <1>2, <1>3, <1>4, TaskStays

LEMMA OpenStep ==
  ASSUME IInv, NEW k \in DOMAIN runtimes, Open(k)
  PROVE  RegistryOK' /\ RuntimesStay /\ Grows /\ Kept /\ TaskOK'
<1>. DEFINE r == runtimes[k].room
            new == Fresh(runtimes[k].match)
<1>1. /\ RegistryOK /\ TaskOK /\ UNCHANGED <<matches, task>> /\ Up(k)
      /\ DOMAIN rows = Rooms
  BY DEF IInv, Open, Opening, Up, RegistryOK, Form
<1>2. /\ RegistryOK' /\ RuntimesStay /\ DOMAIN runtimes' = DOMAIN runtimes
      /\ \A j \in DOMAIN runtimes : j # k => runtimes'[j] = runtimes[j]
      /\ runtimes[k].status = "opening"
      /\ \/ runtimes'[k].status = "refused" /\ rows' = rows
         \/ runtimes'[k].record = runtimes[k].record /\ rows' = rows
         \/ runtimes'[k].record = new /\ rows' = [rows EXCEPT ![r] = new]
  BY <1>1, OpenOK
<1>3. Little(new)
  BY FreshIsOK DEF Little
<1>. HIDE DEF new
<1>4. Grows /\ Kept
  BY <1>1, <1>2 DEF Grows, Kept, Live
<1>5. ASSUME Fills PROVE FewSeats'
  <2>1. task.room \in Rooms /\ FewSeats
    BY <1>1, <1>5, FillsPublic DEF TaskOK
  <2>2. Little(rows'[task.room])
    BY <1>1, <1>2, <1>3, <2>1 DEF FewSeats
  <2>3. ASSUME NEW j \in DOMAIN runtimes, runtimes'[j].room = task.room, Up(j)'
        PROVE  Little(runtimes'[j].record)
    <3>1. CASE j # k
      BY <1>2, <2>1, <2>3, <3>1 DEF FewSeats, Up
    <3>2. CASE j = k
      <4>1. runtimes[k].room = task.room /\ runtimes'[k].status # "refused"
        BY <1>2, <2>3, <3>2 DEF RuntimesStay, Up
      <4>. QED BY <1>1, <1>2, <1>3, <2>1, <3>2, <4>1 DEF FewSeats
    <3>. QED BY <3>1, <3>2
  <2>. QED BY <1>1, <1>2, <2>2, <2>3 DEF FewSeats
<1>. QED BY <1>1, <1>2, <1>4, <1>5, TaskStays

LEMMA VisitStep ==
  ASSUME IInv, NEW c \in 1..MaxCalls, NEW r \in Rooms, Visit(c, r)
  PROVE  Quiet /\ TaskOK' /\ CallsOK'
<1>1. /\ RegistryOK /\ TaskOK /\ CallsOK /\ Quiet /\ task' = task
  BY DEF IInv, Visit, Quiet, RegistryOK, Form
<1>2. RuntimesStay /\ Grows
  BY <1>1, QuietOK
<1>3. TaskOK'
  <2>1. Fills => FewSeats'
    BY <1>1 DEF TaskOK, FewSeats, Up, Quiet
  <2>. QED BY <1>1, <1>2, <2>1, TaskStays
<1>4. CallsOK'
  <2>1. PICK wait : /\ wait \in {Getting(r), Creating(r)} /\ wait.at \in {"load", "create"}
                    /\ calls' = [calls EXCEPT ![c] = [room |-> r, wait |-> wait]]
    BY DEF Visit
  <2>2. Loaded(r, wait)
    BY <1>1, <2>1, GettingOK, CreatingOK
  <2>3. Loaded(r, wait)' /\ wait.runtime = 0
    BY <1>2, <2>1, <2>2 DEF Loaded, Grows, Getting, Creating, Wait, Nothing
  <2>. QED BY <1>1, <1>2, <2>1, <2>3 DEF CallsOK, Loaded, Grows
<1>. QED BY <1>1, <1>3, <1>4

\* The registry answers a call.
LEMMA VisitedStep ==
  ASSUME IInv, NEW c \in 1..MaxCalls, Visited(c)
  PROVE  RegistryOK' /\ RuntimesStay /\ Grows /\ Kept /\ TaskOK' /\ CallsOK'
<1>. DEFINE r == calls[c].room
<1>1. /\ RegistryOK /\ TaskOK /\ CallsOK /\ UNCHANGED <<rows, cleaning, task>>
      /\ r \in Rooms /\ Loaded(r, calls[c].wait) /\ Got(r, calls[c].wait)
  BY DEF IInv, Visited, CallsOK, Got
<1>2. PICK next \in Answers : Progress(r, calls[c].wait, next)
  BY DEF Visited
<1>3. /\ RegistryOK' /\ RuntimesStay /\ Grows
      /\ \A k \in DOMAIN runtimes : runtimes'[k] = runtimes[k]
      /\ \A k \in DOMAIN runtimes' \ DOMAIN runtimes :
           runtimes'[k].room = r /\ runtimes'[k].record = rows[r]
  BY <1>1, <1>2, ProgressOK
<1>4. Kept
  BY <1>3 DEF Kept, Live
<1>5. TaskOK'
  <2>1. Fills => FewSeats'
    BY <1>1, <1>3 DEF TaskOK, FewSeats, Up
  <2>. QED BY <1>1, <1>3, <2>1, TaskStays
<1>6. CallsOK'
  BY <1>1, <1>3 DEF CallsOK, Visited, Loaded, Grows
<1>. QED BY <1>3, <1>4, <1>5, <1>6
LEMMA CleanUpStep ==
  ASSUME IInv, CleanUp
  PROVE  RegistryOK' /\ RuntimesStay /\ Grows /\ Kept /\ TaskOK'
<1>1. RegistryOK /\ TaskOK /\ UNCHANGED <<rows, matches, runtimes, task>>
  BY DEF IInv, CleanUp
<1>2. RuntimesStay /\ Grows /\ Kept
  BY <1>1 DEF RuntimesStay, Grows, Kept, Live
<1>3. Fills => FewSeats'
  BY <1>1 DEF TaskOK, FewSeats, Up
<1>. QED BY <1>1, <1>2, <1>3, CleanUpOK, TaskStays

\* What is cleaned up is over: no match that goes on, and no room that is being filled.
LEMMA CleanedUpStep ==
  ASSUME IInv, NEW old \in cleaning, CleanedUp(old)
  PROVE  RegistryOK' /\ RuntimesStay /\ Grows /\ Kept /\ TaskOK'
<1>. DEFINE r == old.room
<1>1. /\ RegistryOK /\ TaskOK /\ UNCHANGED <<matches, task>>
      /\ r \in Rooms /\ rows[r].phase = "revealed"
  BY DEF IInv, CleanedUp, RegistryOK, Form, RoomOK
<1>2. /\ RegistryOK' /\ RuntimesStay /\ DOMAIN runtimes' = DOMAIN runtimes
      /\ \A j \in DOMAIN runtimes : runtimes[j].room # r => runtimes'[j] = runtimes[j]
      /\ rows' = rows \/ rows' = [rows EXCEPT ![r] = NoRow]
  BY <1>1, CleanedUpOK
<1>3. Kept
  <2>1. ASSUME NEW k \in DOMAIN runtimes, Live(k), runtimes[k].record.phase = "playing"
        PROVE  runtimes[k].room # r
    BY <1>1, <2>1, UpIsMapped DEF Synced, Live, Up
  <2>. QED BY <1>2, <2>1 DEF Kept, Live
<1>4. ASSUME Fills PROVE FewSeats'
  <2>1. FewSeats /\ task.room # r /\ task.room \in Rooms
    BY <1>1, <1>4, FillsPublic, LittleIsLobby DEF TaskOK, FewSeats
  <2>2. rows'[task.room] = rows[task.room]
    BY <1>1, <1>2, <2>1 DEF RegistryOK, Form
  <2>. QED BY <1>1, <1>2, <2>1, <2>2 DEF FewSeats, Up, RuntimesStay
<1>5. Grows
  BY <1>1 DEF Grows
<1>. QED BY <1>1, <1>2, <1>3, <1>4, <1>5, TaskStays

LEMMA CloseStep == ASSUME IInv, Close PROVE Quiet /\ TaskOK'
<1>1. /\ TaskOK /\ task' = task /\ registry \in RegistryType
      /\ registry' = [registry EXCEPT !.closing = TRUE]
      /\ UNCHANGED <<rows, matches, runtimes, cleaning>>
  BY DEF IInv, Close, RegistryOK, Form
<1>2. Quiet
  BY <1>1 DEF Quiet, RegistryType
<1>3. RuntimesStay /\ Grows
  BY <1>2, QuietOK DEF IInv
<1>4. Fills => FewSeats'
  BY <1>1 DEF TaskOK, FewSeats, Up
<1>. QED BY <1>1, <1>2, <1>3, <1>4, TaskStays

LEMMA ClosedStep ==
  ASSUME IInv, Closed
  PROVE  RegistryOK' /\ RuntimesStay /\ Grows /\ TaskOK' /\ registry.closing /\ rows' = rows
<1>1. RegistryOK /\ TaskOK /\ registry.closing /\ UNCHANGED <<rows, matches, task>>
  BY DEF IInv, Closed
<1>2. /\ RegistryOK' /\ RuntimesStay /\ DOMAIN runtimes' = DOMAIN runtimes
      /\ \A k \in DOMAIN runtimes : ~Up(k)'
  BY <1>1, ClosedOK
<1>3. Grows
  BY <1>1 DEF Grows
<1>4. Fills => FewSeats'
  BY <1>1, <1>2 DEF TaskOK, FewSeats
<1>. QED BY <1>1, <1>2, <1>3, <1>4, TaskStays

-----------------------------------------------------------------------------
(* The steps of matchmaking that touch a room                              *)

LEMMA RollbackStep ==
  ASSUME IInv, Rollback
  PROVE  RegistryOK' /\ RuntimesStay /\ Grows /\ Kept /\ TaskOK'
<1>. DEFINE r == task.room
<1>1. /\ RegistryOK /\ TaskOK /\ UNCHANGED <<rows, matches, cleaning>>
      /\ r \in PublicRooms /\ r \in Rooms /\ Fills /\ FewSeats
      /\ DOMAIN task = DOMAIN Idle /\ DOMAIN rows = Rooms
      /\ \A old \in cleaning : old.room = r => rows[r].phase = "revealed"
  BY FillsPublic DEF IInv, Rollback, TaskOK, TaskForm, Fills, RegistryOK, Form, RoomOK
<1>2. /\ RegistryOK' /\ RuntimesStay
      /\ \A j \in DOMAIN runtimes : runtimes[j].room # r => runtimes'[j] = runtimes[j]
  BY <1>1, EvictedOK DEF Rollback
<1>3. Kept
  <2>1. ASSUME NEW k \in DOMAIN runtimes, Live(k), runtimes[k].record.phase = "playing"
        PROVE  runtimes[k].room # r
    BY <1>1, <2>1, LittleIsLobby DEF FewSeats, Live, Up
  <2>. QED BY <1>2, <2>1 DEF Kept, Live
<1>4. TaskOK'
  <2>1. /\ DOMAIN task' = DOMAIN Idle /\ task'.at = "undo" /\ task'.room = r
        /\ task'.wait = Wait("got", 0, rows[r])
    BY <1>1, IdleFields DEF Rollback
  <2>2. /\ DOMAIN task'.wait = DOMAIN Nothing /\ task'.wait.at = "got" /\ task'.wait.runtime = 0
        /\ task'.wait.row = rows[r]
    BY <2>1, IdleFields DEF Wait
  <2>3. rows[r].phase \in {"none", "lobby"} /\ rows[r].version \in Nat /\ rows[r].version <= 2
    BY <1>1 DEF FewSeats, Little
  <2>4. TaskForm'
    BY <1>1, <2>1, <2>2, <2>3 DEF TaskForm, Loaded, Got
  <2>. QED BY <2>1, <2>4 DEF TaskOK, Fills
<1>5. Grows
  BY <1>1 DEF Grows
<1>. QED BY <1>2, <1>3, <1>4, <1>5

\* A lobby's row is deleted, or is left alone.
LEMMA LobbyGoes ==
  ASSUME IInv, NEW r \in PublicRooms, NEW v, v \in Nat => v <= 2, Deleted(r, v) \/ rows' = rows,
         registry' = [registry EXCEPT !.deleting = @ \ {r}], UNCHANGED <<matches, runtimes, cleaning>>
  PROVE  RegistryOK' /\ RuntimesStay /\ Grows /\ Kept
<1>1. RegistryOK /\ registry \in RegistryType
  BY DEF IInv, RegistryOK, Form
<1>2. RuntimesStay /\ Grows /\ Kept
  BY DEF RuntimesStay, Grows, Kept, Live
<1>3. CASE Deleted(r, v)
  BY <1>1, <1>2, <1>3, LobbyDeleted
<1>4. CASE rows' = rows
  <2>1. registry' \in RegistryType /\ registry'.map = registry.map
    BY <1>1 DEF RegistryType
  <2>. QED BY <1>1, <1>2, <1>4, <2>1, RegistryStays
<1>. QED BY <1>3, <1>4

LEMMA UndoStep ==
  ASSUME IInv, Undo PROVE RegistryOK' /\ RuntimesStay /\ Grows /\ Kept /\ TaskOK'
<1>1. /\ task.room \in PublicRooms /\ task.wait.row.version <= 2
  BY DEF IInv, TaskOK, TaskForm, Undo
<1>2. RegistryOK' /\ RuntimesStay /\ Grows /\ Kept
  BY <1>1, LobbyGoes DEF Undo
<1>3. TaskOK'
  BY IdleFields, RestingOK DEF Undo, Done
<1>. QED BY <1>2, <1>3

LEMMA DeleteLobbyStep ==
  ASSUME IInv, DeleteLobby PROVE RegistryOK' /\ RuntimesStay /\ Grows /\ Kept /\ TaskOK'
<1>1. /\ task.room \in PublicRooms /\ DOMAIN task = DOMAIN Idle
      /\ task.wait.row.phase = "lobby" => task.wait.row.version <= 2
  BY DEF IInv, TaskOK, TaskForm, DeleteLobby
<1>2. /\ registry' = [registry EXCEPT !.deleting = @ \ {task.room}]
      /\ UNCHANGED <<matches, runtimes, cleaning>> /\ Swept
      /\ \/ task.wait.row.phase = "lobby" /\ Deleted(task.room, task.wait.row.version)
         \/ rows' = rows
  BY DEF DeleteLobby
<1>3. RegistryOK' /\ RuntimesStay /\ Grows /\ Kept
  <2>1. CASE task.wait.row.phase = "lobby" /\ Deleted(task.room, task.wait.row.version)
    BY <1>1, <1>2, <2>1, LobbyGoes
  <2>2. CASE rows' = rows
    <3>1. 0 \in Nat => 0 <= 2
      OBVIOUS
    <3>. QED BY <1>1, <1>2, <2>2, <3>1, LobbyGoes
  <2>. QED BY <1>2, <2>1, <2>2
<1>4. DOMAIN task' = DOMAIN Idle /\ task'.at = "sweep" /\ task'.wait = Nothing
  BY <1>1, <1>2, IdleFields DEF Swept
<1>. QED BY <1>3, <1>4, RestingOK
LEMMA CloseLobbyStep ==
  ASSUME IInv, CloseLobby PROVE RegistryOK' /\ RuntimesStay /\ Grows /\ Kept /\ TaskOK'
<1>. DEFINE k == task.wait.runtime
            r == task.room
<1>1. /\ RegistryOK /\ TaskOK /\ DOMAIN task = DOMAIN Idle /\ DOMAIN task.wait = DOMAIN Nothing
      /\ r \in PublicRooms /\ r \in Rooms /\ k \in DOMAIN runtimes /\ runtimes[k].room = r
      /\ UNCHANGED <<rows, matches, cleaning>>
  BY PublicIsRoom DEF IInv, TaskOK, TaskForm, Got, CloseLobby
<1>2. Grows
  BY <1>1 DEF Grows
<1>3. CASE LobbyCloses(k)
  <2>1. /\ runtimes' = [runtimes EXCEPT ![k].status = "closed"]
        /\ registry' = [registry EXCEPT !.map[r] = 0]
        /\ task' = [task EXCEPT !.at = "deleting", !.wait.row = rows[r]]
    BY <1>3 DEF CloseLobby
  <2>2. registry.map[r] = k /\ RoomOK(r)
    BY <1>1, <1>3, UpIsMapped DEF LobbyCloses, Live, Up, RegistryOK
  <2>3. /\ RegistryOK' /\ RuntimesStay
        /\ \A j \in DOMAIN runtimes : j # k => runtimes'[j] = runtimes[j]
    BY <1>1, <2>1, <2>2, Stops
  <2>4. Kept
    BY <1>3, <2>3 DEF Kept, LobbyCloses, Live
  <2>5. /\ DOMAIN task' = DOMAIN Idle /\ task'.at = "deleting" /\ task'.room = r
        /\ task'.wait = [task.wait EXCEPT !.row = rows[r]]
    BY <1>1, <2>1, IdleFields
  <2>6. DOMAIN task'.wait = DOMAIN Nothing /\ task'.wait.runtime = k /\ task'.wait.row = rows[r]
    BY <1>1, <2>5, IdleFields
  <2>7. rows[r].phase \in {"none", "lobby"} => rows[r].version \in Nat /\ rows[r].version <= 2
    BY <1>1, <2>2 DEF RoomOK, RowOK, IsRow, Numbered
  <2>8. Loaded(task.room, task.wait)' /\ Got(task.room, task.wait)'
    BY <1>1, <2>2, <2>3, <2>5, <2>6 DEF Loaded, Got, RoomOK, RuntimesStay
  <2>9. TaskForm'
    BY <1>1, <2>5, <2>6, <2>7, <2>8 DEF TaskForm
  <2>. QED BY <1>2, <2>3, <2>4, <2>5, <2>9 DEF TaskOK, Fills
<1>4. CASE ~LobbyCloses(k)
  <2>1. registry' = [registry EXCEPT !.deleting = @ \ {r}] /\ Swept /\ runtimes' = runtimes
    BY <1>4 DEF CloseLobby
  <2>2. 0 \in Nat => 0 <= 2
    OBVIOUS
  <2>3. RegistryOK' /\ RuntimesStay /\ Kept
    BY <1>1, <2>1, <2>2, LobbyGoes
  <2>4. DOMAIN task' = DOMAIN Idle /\ task'.at = "sweep" /\ task'.wait = Nothing
    BY <1>1, <2>1, IdleFields DEF Swept
  <2>. QED BY <1>2, <2>3, <2>4, RestingOK
<1>. QED BY <1>3, <1>4

\* One more seat in a room that has at most one.
LEMMA SeatTaken ==
  ASSUME NEW row, IsRow(row), Little(row), NEW u, NEW taken, taken = [row EXCEPT !.seats = @ \cup {u}],
         NEW next, next = [taken EXCEPT !.version = @ + 1]
  PROVE  /\ next.phase = row.phase /\ \A r : RowOK(r, next)
         /\ Cardinality(row.seats) # 1 => Little(next)
<1>1. /\ DOMAIN next = RowFields /\ next.version = row.version + 1
      /\ next.phase = row.phase /\ next.seats = row.seats \cup {u}
  BY DEF IsRow, RowFields
<1>2. Cardinality({u}) = 1
  BY FS_Singleton
<1>3. row.seats = {} => Cardinality(next.seats) = 1
  BY <1>1, <1>2
<1>4. IsRow(next)
  BY <1>1 DEF IsRow
<1>5. Numbered(next)
  BY <1>1, <1>3 DEF Little, Numbered
<1>. QED BY <1>1, <1>3, <1>4, <1>5 DEF RowOK, Little

LEMMA SeatStep ==
  ASSUME IInv, Seat PROVE RegistryOK' /\ RuntimesStay /\ Grows /\ Kept /\ TaskOK'
<1>. DEFINE k == task.wait.runtime
            r == task.room
            record == runtimes[k].record
            u == Waiting[IF Cardinality(record.seats) = 1 THEN 2 ELSE 1].user
            taken == [record EXCEPT !.seats = @ \cup {u}]
            next == [taken EXCEPT !.version = @ + 1]
<1>1. /\ RegistryOK /\ TaskOK /\ DOMAIN task = DOMAIN Idle
      /\ r \in PublicRooms /\ r \in Rooms /\ k \in DOMAIN runtimes /\ runtimes[k].room = r
      /\ Fills /\ FewSeats /\ task.at = "join"
  BY PublicIsRoom DEF IInv, TaskOK, TaskForm, Got, Seat, Fills
<1>2. /\ Live(k) /\ Current(k) /\ Saved(k, taken) /\ UNCHANGED <<matches, registry, cleaning>>
      /\ \/ Done
         \/ Cardinality(record.seats) # 1 /\ task' = [task EXCEPT !.wait = Wait("opening", k, NoRow)]
  BY DEF Seat
<1>3. IsRow(record) /\ Little(record) /\ Little(rows[r])
  BY <1>1, <1>2, UpIsMapped DEF FewSeats, Live, Up, RowOK
<1>4. next = [taken EXCEPT !.version = @ + 1]
  OBVIOUS
<1>. HIDE DEF next, record, u
<1>5. /\ next.phase = record.phase /\ RowOK(r, next)
      /\ Cardinality(record.seats) # 1 => Little(next)
  BY <1>3, <1>4, SeatTaken
<1>. HIDE DEF taken
<1>. USE DEF record
<1>6. /\ RegistryOK' /\ RuntimesStay /\ DOMAIN runtimes' = DOMAIN runtimes
      /\ runtimes'[k].record = next /\ runtimes'[k].status = "open"
      /\ \A j \in DOMAIN runtimes : j # k => runtimes'[j] = runtimes[j]
      /\ rows'[r] = next
  <2>1. rows[r].phase # "revealed"
    BY <1>3, LittleIsLobby
  <2>. QED BY <1>1, <1>2, <1>4, <1>5, <2>1, SavedOK
<1>7. Grows
  BY <1>2 DEF Grows
<1>8. Kept
  BY <1>5, <1>6 DEF Kept, Live
<1>9. CASE Done
  BY <1>6, <1>7, <1>8, <1>9, IdleFields, RestingOK DEF Done
<1>10. CASE Cardinality(record.seats) # 1 /\ task' = [task EXCEPT !.wait = Wait("opening", k, NoRow)]
  <2>1. /\ DOMAIN task' = DOMAIN Idle /\ task'.at = "join" /\ task'.room = r
        /\ task'.wait = Wait("opening", k, NoRow)
    BY <1>1, <1>10, IdleFields
  <2>2. /\ DOMAIN task'.wait = DOMAIN Nothing /\ task'.wait.at = "opening" /\ task'.wait.runtime = k
    BY <2>1, IdleFields DEF Wait
  <2>3. TaskForm'
    BY <1>1, <1>6, <2>1, <2>2 DEF TaskForm, Loaded, Got, RuntimesStay
  <2>4. FewSeats'
    <3>1. Little(next)
      BY <1>5, <1>10
    <3>2. ASSUME NEW j \in DOMAIN runtimes, runtimes'[j].room = r, Up(j)', j # k PROVE FALSE
      <4>1. Up(j) /\ runtimes[j].room = r /\ Up(k)
        BY <1>2, <1>6, <3>2 DEF Up, Live
      <4>. QED BY <1>1, <3>2, <4>1, UpIsMapped
    <3>. QED BY <1>6, <2>1, <3>1, <3>2 DEF FewSeats
  <2>. QED BY <1>6, <1>7, <1>8, <2>3, <2>4 DEF TaskOK
<1>. QED BY <1>2, <1>9, <1>10
-----------------------------------------------------------------------------
(* The theorems                                                            *)

\* The runtimes that are recovered, each of a room of its own.
LEMMA Recovered ==
  ASSUME NEW S, IsFiniteSet(S)
  PROVE  LET q == SetToSeq(S)
         IN  /\ Len(q) = Cardinality(S) /\ q \in Seq(S)
             /\ \A j, k \in 1..Len(q) : q[j] = q[k] => j = k
             /\ \A x \in S : \E k \in 1..Len(q) : q[k] = x
<1>. DEFINE n == Cardinality(S)
            q == SetToSeq(S)
<1>1. n \in Nat /\ ExistsBijection(1..n, S)
  BY FS_CardinalityType
<1>2. \E f \in [1..n -> S] : IsInjective(f)
  BY <1>1 DEF ExistsBijection, Bijection, Injection
<1>3. q \in [1..n -> S] /\ IsInjective(q)
  BY <1>2 DEF SetToSeq
<1>. HIDE DEF q
<1>4. q \in Surjection(1..n, S)
  <2>1. IsFiniteSet(1..n) /\ Cardinality(1..n) = n
    BY <1>1, FS_Interval
  <2>2. q \in Injection(1..n, S)
    BY <1>3 DEF Injection
  <2>. HIDE DEF n
  <2>. QED BY <2>1, <2>2, FS_Injection DEF n
<1>5. q \in Seq(S) /\ Len(q) = n
  BY <1>1, <1>3
<1>. QED BY <1>3, <1>4, <1>5 DEF IsInjective, Surjection, q

LEMMA Starts == ASSUME Init PROVE IInv
<1>0. PICK stored \in [Rooms -> Stored] :
       LET live == {r \in Rooms : stored[r].phase = "playing"}
           recovered == SetToSeq(live)
       IN /\ rows = stored
          /\ matches = [r \in Rooms |-> IF rows[r] = NoRow THEN 0 ELSE 1]
          /\ runtimes = [k \in 1..Len(recovered) |->
                           [room |-> recovered[k], status |-> "open", match |-> 1,
                            record |-> stored[recovered[k]]]]
          /\ registry = [map |-> [r \in Rooms |->
                                   IF r \in live
                                   THEN CHOOSE k \in 1..Len(recovered) : recovered[k] = r ELSE 0],
                         deleting |-> {}, closing |-> FALSE]
  BY DEF Init
<1>. DEFINE live == {r \in Rooms : stored[r].phase = "playing"}
            q == SetToSeq(live)
<1>1. IsFiniteSet(live)
  BY LobbyAssumption, FS_Subset DEF Rooms
<1>. HIDE DEF live
<1>2. /\ q \in Seq(live) /\ Len(q) \in Nat
      /\ \A j, k \in 1..Len(q) : q[j] = q[k] => j = k
      /\ \A x \in live : \E k \in 1..Len(q) : q[k] = x
  BY <1>1, Recovered, FS_CardinalityType
<1>3. /\ rows = stored
      /\ matches = [r \in Rooms |-> IF rows[r] = NoRow THEN 0 ELSE 1]
      /\ runtimes = [k \in 1..Len(q) |-> [room |-> q[k], status |-> "open", match |-> 1,
                                          record |-> stored[q[k]]]]
      /\ registry = [map |-> [r \in Rooms |->
                                IF r \in live THEN CHOOSE k \in 1..Len(q) : q[k] = r ELSE 0],
                     deleting |-> {}, closing |-> FALSE]
  BY <1>0 DEF live
<1>. HIDE DEF q
<1>4. \A r \in live : r \in Rooms /\ stored[r].phase = "playing"
  BY DEF live
<1>5. \A r \in live : registry.map[r] \in 1..Len(q) /\ q[registry.map[r]] = r
  BY <1>2, <1>3, <1>4
<1>6. \A r \in Rooms \ live : registry.map[r] = 0
  BY <1>3
<1>7. /\ DOMAIN runtimes = 1..Len(q)
      /\ \A k \in 1..Len(q) : /\ runtimes[k].room = q[k] /\ q[k] \in live
                              /\ runtimes[k].record = stored[q[k]] /\ Up(k)
                              /\ DOMAIN runtimes[k] = {"room", "status", "match", "record"}
  BY <1>2, <1>3 DEF Up
<1>8. \A r \in Rooms : RowOK(r, rows[r])
  <2>1. TAKE r \in Rooms
  <2>2. stored[r] = NoRow \/ /\ DOMAIN stored[r] = RowFields /\ stored[r].version = 3
                             /\ stored[r].phase \in {"playing", "revealed"}
    BY DEF Stored, RowFields
  <2>3. rows[r] = stored[r]
    BY <1>3
  <2>. QED BY <2>2, <2>3, NoRowIsOK, SMTT(60) DEF RowOK, IsRow, Numbered
<1>9. Form
  <2>1. registry \in RegistryType
    <3>1. \A r \in Rooms : registry.map[r] \in Nat
      BY <1>2, <1>5, <1>6
    <3>2. registry.map \in [Rooms -> Nat]
      BY <1>3, <3>1
    <3>. QED BY <1>3, <3>2, SMTT(60) DEF RegistryType
  <2>2. IsSequence(runtimes)
    <3>. DEFINE T == {runtimes[k] : k \in 1..Len(q)}
    <3>1. runtimes \in [1..Len(q) -> T]
      BY <1>3
    <3>. HIDE DEF T
    <3>2. runtimes \in Seq(T)
      BY <1>2, <3>1, SMTT(60)
    <3>. QED BY <3>2 DEF IsSequence
  <2>. QED BY <1>3, <1>4, <1>7, <2>1, <2>2 DEF Form, Init
<1>10. ASSUME NEW r \in Rooms PROVE RoomOK(r)
  <2>1. registry.map[r] # 0 => registry.map[r] \in DOMAIN runtimes /\ runtimes[registry.map[r]].room = r
    BY <1>5, <1>6, <1>7
  <2>2. ASSUME NEW k \in DOMAIN runtimes, runtimes[k].room = r
        PROVE  registry.map[r] = k /\ rows[r] = runtimes[k].record /\ rows[r] # NoRow
    <3>1. k \in 1..Len(q) /\ q[k] = r /\ r \in live
      BY <1>7, <2>2
    <3>2. rows[r] = stored[r] /\ stored[r].phase = "playing"
      BY <1>3, <1>4, <3>1
    <3>3. registry.map[r] \in 1..Len(q) /\ q[registry.map[r]] = r
      BY <1>5, <3>1
    <3>4. registry.map[r] = k
      BY <1>2, <3>1, <3>3, ZenonT(60)
    <3>5. runtimes[k].record = stored[r]
      BY <1>7, <3>1
    <3>. QED BY <3>2, <3>4, <3>5, NoRowIsOK
  <2>3. cleaning = {}
    BY DEF Init
  <2>. QED BY <1>3, <1>8, <2>1, <2>2, <2>3 DEF RoomOK, Synced
<1>11. CallsOK
  BY DEF CallsOK, Init
<1>12. TaskOK
  BY IdleFields DEF Init, TaskOK, TaskForm, Fills, Loaded, Got
<1>. QED BY <1>9, <1>10, <1>11, <1>12 DEF IInv, RegistryOK

\* A runtime of a started match holds a row that is there.
LEMMA StartedIsStored ==
  ASSUME RegistryOK', RuntimesStay, Kept PROVE MatchStays
<1>. SUFFICES ASSUME NEW k \in DOMAIN runtimes, Live(k), runtimes[k].record.phase = "playing"
              PROVE  rows'[runtimes[k].room] # NoRow /\ runtimes'[k].status = "open"
  BY DEF MatchStays
<1>1. /\ k \in DOMAIN runtimes' /\ runtimes'[k].room = runtimes[k].room
      /\ runtimes'[k].status = "open" /\ runtimes'[k].record.phase \in {"playing", "revealed"}
  BY DEF RuntimesStay, Kept, Live
<1>2. Synced(runtimes[k].room, rows'[runtimes[k].room], runtimes'[k].record)
  BY <1>1 DEF RegistryOK, Form, RoomOK, Up
<1>. QED BY <1>1, <1>2, NoRowIsOK DEF Synced

LEMMA Steps == ASSUME IInv, [Next]_vars PROVE IInv' /\ MatchStays
<1>1. RegistryOK /\ TaskOK /\ CallsOK
  BY DEF IInv
<1>2. ASSUME RegistryOK', RuntimesStay, Grows, Kept, TaskOK', calls' = calls \/ CallsOK'
      PROVE  IInv' /\ MatchStays
  BY <1>1, <1>2, CallsStay, StartedIsStored DEF IInv
<1>3. ASSUME Quiet, TaskOK', calls' = calls \/ CallsOK' PROVE IInv' /\ MatchStays
  BY <1>1, <1>2, <1>3, QuietOK
<1>4. CASE UNCHANGED vars
  <2>1. Quiet
    BY <1>1, <1>4 DEF vars, Quiet, RegistryOK, Form
  <2>2. TaskOK'
    BY <1>1, <1>4 DEF vars, TaskOK, TaskForm, Fills, FewSeats, Loaded, Got, Up
  <2>. QED BY <1>3, <1>4, <2>1, <2>2 DEF vars
<1>5. ASSUME NEW k \in DOMAIN runtimes, Move(k) PROVE IInv' /\ MatchStays
  BY <1>2, <1>5, MoveStep DEF Move
<1>6. ASSUME NEW k \in DOMAIN runtimes, Open(k) PROVE IInv' /\ MatchStays
  BY <1>2, <1>6, OpenStep DEF Open
<1>7. ASSUME NEW r \in PublicRooms, SweepRoom(r) PROVE IInv' /\ MatchStays
  BY <1>3, <1>7, SweepRoomOK DEF SweepRoom
<1>8. ASSUME NEW c \in 1..MaxCalls, Visited(c) PROVE IInv' /\ MatchStays
  BY <1>2, <1>8, VisitedStep
<1>9. ASSUME NEW c \in 1..MaxCalls, NEW r \in Rooms, Visit(c, r) PROVE IInv' /\ MatchStays
  BY <1>3, <1>9, VisitStep
<1>10. CASE CleanUp
  BY <1>2, <1>10, CleanUpStep DEF CleanUp
<1>11. ASSUME NEW old \in cleaning, CleanedUp(old) PROVE IInv' /\ MatchStays
  BY <1>2, <1>11, CleanedUpStep DEF CleanedUp
<1>12. ASSUME NEW u, NEW action, Update(u, action) PROVE IInv' /\ MatchStays
  BY <1>3, <1>12, UpdateOK DEF Update
<1>13. CASE Sweep \/ NoLobby \/ EndSweep \/ Resume \/ Failed
  <2>1. calls' = calls
    BY <1>13 DEF Sweep, NoLobby, EndSweep, Resume, Failed
  <2>. QED BY <1>3, <1>13, <2>1, RestsOK
<1>14. CASE MarkLobby \/ NotSeated
  <2>1. calls' = calls
    BY <1>14 DEF MarkLobby, NotSeated
  <2>. QED BY <1>3, <1>14, <2>1, MarksOK
<1>15. CASE CloseLobby
  BY <1>2, <1>15, CloseLobbyStep DEF CloseLobby
<1>16. CASE DeleteLobby
  BY <1>2, <1>16, DeleteLobbyStep DEF DeleteLobby
<1>17. CASE Queue
  BY <1>3, <1>17, QueueOK DEF Queue
<1>18. CASE Answered
  BY <1>2, <1>18, AnsweredOK DEF Answered
<1>19. CASE Created
  BY <1>3, <1>19, CreatedOK DEF Created
<1>20. CASE Seat
  BY <1>2, <1>20, SeatStep DEF Seat
<1>21. CASE Rollback
  BY <1>2, <1>21, RollbackStep DEF Rollback
<1>22. CASE Undo
  BY <1>2, <1>22, UndoStep DEF Undo
<1>23. CASE Close
  BY <1>3, <1>23, CloseStep DEF Close
<1>24. CASE Closed
  <2>1. RegistryOK' /\ RuntimesStay /\ Grows /\ TaskOK' /\ registry.closing /\ rows' = rows
    BY <1>24, ClosedStep
  <2>2. IInv'
    BY <1>1, <1>24, <2>1, CallsStay DEF IInv, Closed
  <2>3. ASSUME NEW k \in DOMAIN runtimes, Live(k), runtimes[k].record.phase = "playing"
        PROVE  rows[runtimes[k].room] # NoRow
    BY <1>1, <2>3, UpIsMapped, NoRowIsOK DEF Synced, Live, Up
  <2>. QED BY <2>1, <2>2, <2>3 DEF MatchStays
<1>. QED BY <1>4, <1>5, <1>6, <1>7, <1>8, <1>9, <1>10, <1>11, <1>12, <1>13, <1>14, <1>15, <1>16,
            <1>17, <1>18, <1>19, <1>20, <1>21, <1>22, <1>23, <1>24 DEF Next

(***************************************************************************)
(* The inductive invariant: the map names every runtime that is opening or *)
(* open, each holds what is stored, and the versions of a public room tell *)
(* whether its match has started (room-registry.ts, matchmaking.ts).       *)
(***************************************************************************)
THEOREM LobbyIsSound == Spec => []IInv
BY Starts, Steps, PTL DEF Spec

(***************************************************************************)
(* Of a room at most one runtime is live: whoever is opening or open is    *)
(* the one that the map names (room-registry.ts).                          *)
(***************************************************************************)
THEOREM RoomHasOneRuntime == Spec => []OneLive
<1>1. IInv => OneLive
  BY UpIsMapped DEF IInv, OneLive, Live, Up
<1>. QED BY <1>1, LobbyIsSound, PTL

(***************************************************************************)
(* A match that has started keeps its row and its runtime, whatever the    *)
(* sweep, the cleanup and a pairing had decided before (closeIfLobby()).   *)
(***************************************************************************)
THEOREM StartedMatchStays == Spec => StartedStays
<1>1. IInv /\ [Next]_vars => [MatchStays]_vars
  BY Steps
<1>. QED BY <1>1, LobbyIsSound, PTL DEF Spec, StartedStays

-----------------------------------------------------------------------------
(* The queue                                                               *)

\* What is picked from a sequence: the elements that are in the set, each in its place.
LEMMA PickedInOrder ==
  ASSUME NEW q, IsSequence(q), NEW S
  PROVE  /\ IsSequence(InOrder(q, S)) /\ Len(InOrder(q, S)) \in Nat
         /\ DOMAIN InOrder(q, S) = 1..Len(InOrder(q, S))
         /\ ToSet(InOrder(q, S)) = ToSet(q) \cap S
<1>. DEFINE places == {i \in DOMAIN q : q[i] \in S}
            Upto(i) == {j \in places : j <= i}
            count == [i \in places |-> Cardinality(Upto(i))]
            Place(n) == CHOOSE i \in places : Cardinality(Upto(i)) = n
            c == Cardinality(places)
<1>1. Len(q) \in Nat /\ DOMAIN q = 1..Len(q)
  BY Indices
<1>2. IsFiniteSet(places) /\ places \subseteq Int
  <2>1. IsFiniteSet(1..Len(q))
    BY <1>1, FS_Interval
  <2>2. places \subseteq 1..Len(q)
    BY <1>1
  <2>. HIDE DEF places
  <2>3. IsFiniteSet(places)
    BY <2>1, <2>2, FS_Subset
  <2>. QED BY <1>1, <2>2, <2>3
<1>. HIDE DEF places
<1>3. c \in Nat /\ IsFiniteSet(1..c) /\ Cardinality(1..c) = c
  <2>1. c \in Nat
    BY <1>2, FS_CardinalityType
  <2>. HIDE DEF c
  <2>. QED BY <2>1, FS_Interval
<1>4. ASSUME NEW i \in places PROVE IsFiniteSet(Upto(i)) /\ Cardinality(Upto(i)) \in 1..c
  <2>1. Upto(i) \subseteq places /\ i \in Upto(i)
    BY <1>2
  <2>. HIDE DEF Upto
  <2>2. IsFiniteSet(Upto(i)) /\ Cardinality(Upto(i)) <= c /\ Cardinality(Upto(i)) \in Nat
    BY <1>2, <2>1, FS_Subset, FS_CardinalityType
  <2>3. Cardinality(Upto(i)) # 0
    BY <2>1, <2>2, FS_EmptySet
  <2>. HIDE DEF c
  <2>. QED BY <1>3, <2>2, <2>3
<1>5. ASSUME NEW i \in places, NEW j \in places, i < j PROVE Cardinality(Upto(i)) # Cardinality(Upto(j))
  <2>. i \in Int /\ j \in Int /\ ~(j <= i)
    BY <1>2, <1>5
  <2>1. ASSUME NEW x \in Upto(i) PROVE x \in Upto(j)
    <3>1. x \in places /\ x \in Int /\ x <= i
      BY <1>2
    <3>. QED BY <1>5, <3>1
  <2>2. j \in Upto(j) /\ j \notin Upto(i)
    OBVIOUS
  <2>3. IsFiniteSet(Upto(j))
    BY <1>4
  <2>. HIDE DEF Upto
  <2>. QED BY <2>1, <2>2, <2>3, FS_Subset
<1>6. ASSUME NEW i \in places, NEW j \in places, Cardinality(Upto(i)) = Cardinality(Upto(j)) PROVE i = j
  <2>1. i < j \/ j < i \/ i = j
    BY <1>2
  <2>. HIDE DEF Upto
  <2>. QED BY <1>5, <1>6, <2>1
<1>7. \A n \in 1..c : \E i \in places : Cardinality(Upto(i)) = n
  <2>1. count \in [places -> 1..c]
    BY <1>4
  <2>2. \A i, j \in places : count[i] = count[j] => i = j
    BY <1>6
  <2>3. count \in Injection(places, 1..c)
    BY <2>1, <2>2, ZenonT(30) DEF Injection, IsInjective
  <2>4. count \in Surjection(places, 1..c)
    <3>. HIDE DEF count
    <3>1. Cardinality(places) = Cardinality(1..c)
      BY <1>3
    <3>. HIDE DEF c
    <3>. QED BY <1>3, <2>3, <3>1, FS_Injection
  <2>5. \A n \in 1..c : \E i \in places : count[i] = n
    BY <2>4 DEF Surjection
  <2>. QED BY <2>5
<1>8. \A n \in 1..c : Place(n) \in places /\ Cardinality(Upto(Place(n))) = n
  BY <1>7
<1>9. InOrder(q, S) = [n \in 1..c |-> q[Place(n)]]
  BY DEF InOrder, places
<1>10. \A n \in 1..c : InOrder(q, S)[n] \in ToSet(q) \cap S
  <2>1. \A i \in places : q[i] \in ToSet(q) \cap S
    BY DEF places, ToSet
  <2>. HIDE DEF Place, c
  <2>. QED BY <1>8, <1>9, <2>1
<1>11. IsSequence(InOrder(q, S)) /\ Len(InOrder(q, S)) = c
  <2>. HIDE DEF Place, c
  <2>1. InOrder(q, S) \in [1..c -> ToSet(q) \cap S]
    BY <1>9, <1>10
  <2>2. InOrder(q, S) \in Seq(ToSet(q) \cap S)
    BY <1>3, <2>1
  <2>. QED BY <1>3, <2>1, <2>2 DEF IsSequence
<1>12. ASSUME NEW x \in ToSet(q) \cap S PROVE \E n \in 1..c : InOrder(q, S)[n] = x
  <2>1. PICK i \in places : q[i] = x
    BY DEF ToSet, places
  <2>2. Cardinality(Upto(i)) \in 1..c
    BY <1>4
  <2>3. Place(Cardinality(Upto(i))) = i
    <3>1. Place(Cardinality(Upto(i))) \in places /\ Cardinality(Upto(Place(Cardinality(Upto(i))))) = Cardinality(Upto(i))
      BY <1>8, <2>2
    <3>. HIDE DEF Place, Upto
    <3>. QED BY <1>6, <3>1
  <2>. HIDE DEF Place, Upto, c
  <2>. QED BY <1>9, <2>1, <2>2, <2>3
<1>13. DOMAIN InOrder(q, S) = 1..c
  BY <1>9
<1>. HIDE DEF c
<1>14. ToSet(InOrder(q, S)) = ToSet(q) \cap S
  <2>1. \A x : x \in ToSet(InOrder(q, S)) <=> \E n \in 1..c : InOrder(q, S)[n] = x
    BY <1>13, Zenon DEF ToSet
  <2>. QED BY <1>10, <1>12, <2>1
<1>. QED BY <1>3, <1>11, <1>13, <1>14

-----------------------------------------------------------------------------
(* The second invariant: rows and the records of runtimes                  *)

Phases == {"lobby", "playing", "revealed"}

\* A match in phase p may have come to phase q since.
NoLater(p, q) ==
  /\ p \in {"playing", "revealed"} => q \in {"playing", "revealed"}
  /\ p = "revealed" => q = "revealed"

\* A runtime that has been opened has a record, and the map names none that was not.
Whole ==
  /\ \A r \in Rooms : /\ rows[r] = NoRow \/ rows[r].phase \in Phases
                      /\ registry.map[r] # 0 => runtimes[registry.map[r]].status # "refused"
  /\ \A k \in DOMAIN runtimes :
       /\ runtimes[k].status \in {"opening", "open", "closed", "refused"}
       /\ runtimes[k].status = "opening" => runtimes[k].record = NoRow \/ runtimes[k].record.phase \in Phases
       /\ runtimes[k].status \in {"open", "closed"} => runtimes[k].record.phase \in Phases

\* Who may still save holds what is stored; no runtime is ahead of a public room with players in it.
History(r) ==
  \A k \in DOMAIN runtimes : runtimes[k].room = r =>
    /\ Up(k) => rows[r] = NoRow \/ runtimes[k].record = rows[r]
    /\ rows[r].seats # {} => NoLater(runtimes[k].record.phase, rows[r].phase)

Past == Whole /\ \A r \in PublicRooms : History(r)

\* What a step makes of a runtime.
Alters(k) ==
  \/ k \in DOMAIN runtimes /\ runtimes'[k] = runtimes[k]
  \/ /\ k \notin DOMAIN runtimes /\ runtimes'[k].status = "opening"
     /\ runtimes'[k].record = rows'[runtimes'[k].room]
  \/ /\ k \in DOMAIN runtimes
     /\ \/ /\ runtimes'[k].status = "open" /\ Up(k) /\ runtimes'[k].record.phase \in Phases
           /\ runtimes'[k].record \in {runtimes[k].record, rows'[runtimes[k].room]}
        \/ /\ runtimes'[k].status = "refused" /\ runtimes[k].status = "opening"
           /\ runtimes'[k].record = runtimes[k].record /\ registry'.map[runtimes[k].room] # k
        \/ /\ runtimes'[k].status = "closed" /\ runtimes[k].status \in {"open", "closed"}
           /\ runtimes'[k].record = runtimes[k].record

\* What a step makes of a row: nobody is seated.
Moves(r) ==
  \/ rows'[r] \in {rows[r], NoRow}
  \/ /\ \E k \in DOMAIN runtimes' : runtimes'[k].room = r /\ Up(k)' /\ runtimes'[k].record = rows'[r]
     /\ rows'[r].phase \in Phases
     /\ rows'[r].seats = {} \/ /\ MayMove(r, rows[r]) /\ rows'[r].seats = rows[r].seats
                               /\ rows'[r].phase = NextPhase(rows[r])

Plain ==
  /\ RuntimesStay
  /\ \A k \in DOMAIN runtimes' : Alters(k)
  /\ \A r \in Rooms : /\ registry'.map[r] \in {0, registry.map[r]} \/ registry'.map[r] \notin DOMAIN runtimes
                      /\ Moves(r)

LEMMA PlainPast == ASSUME IInv, IInv', Past, Plain PROVE Past'
<1>1. /\ RegistryOK /\ RegistryOK' /\ RuntimesStay
      /\ \A k \in DOMAIN runtimes' : Alters(k) /\ runtimes'[k].room \in Rooms
  BY DEF IInv, Plain, RegistryOK, Form
<1>2. NoRow.phase = "none" /\ NoRow.seats = {}
  BY NoRowIsOK
<1>3. \A r \in Rooms : rows'[r] = NoRow \/ rows'[r].phase \in Phases
  BY DEF Past, Whole, Plain, Moves
<1>4. ASSUME NEW k \in DOMAIN runtimes'
      PROVE  /\ runtimes'[k].status \in {"opening", "open", "closed", "refused"}
             /\ runtimes'[k].status = "opening" => runtimes'[k].record = NoRow \/ runtimes'[k].record.phase \in Phases
             /\ runtimes'[k].status \in {"open", "closed"} => runtimes'[k].record.phase \in Phases
  <2>1. CASE k \in DOMAIN runtimes /\ runtimes'[k] = runtimes[k]
    BY <2>1 DEF Past, Whole
  <2>2. CASE k \notin DOMAIN runtimes /\ runtimes'[k].status = "opening" /\ runtimes'[k].record = rows'[runtimes'[k].room]
    BY <1>1, <1>3, <2>2
  <2>3. CASE runtimes'[k].status = "open" /\ runtimes'[k].record.phase \in Phases
    BY <2>3
  <2>4. CASE runtimes'[k].status = "refused"
    BY <2>4
  <2>5. CASE /\ k \in DOMAIN runtimes /\ runtimes'[k].status = "closed" /\ runtimes[k].status \in {"open", "closed"}
             /\ runtimes'[k].record = runtimes[k].record
    BY <2>5 DEF Past, Whole
  <2>. QED BY <1>1, <2>1, <2>2, <2>3, <2>4, <2>5 DEF Alters
<1>5. ASSUME NEW r \in Rooms, registry'.map[r] # 0
      PROVE  runtimes'[registry'.map[r]].status # "refused"
  <2>. DEFINE k == registry'.map[r]
  <2>1. k \in DOMAIN runtimes' /\ runtimes'[k].room = r /\ Alters(k)
    BY <1>1, <1>5 DEF RegistryOK, RoomOK
  <2>2. k \notin DOMAIN runtimes \/ registry.map[r] = k
    BY <1>5 DEF Plain
  <2>3. k \in DOMAIN runtimes => runtimes[k].room = r /\ runtimes[k].status # "refused"
    BY <1>5, <2>1, <2>2 DEF Past, Whole, RuntimesStay, Plain
  <2>. HIDE DEF k
  <2>4. runtimes'[k].status # "refused" \/ registry'.map[r] # k
    BY <2>1, <2>3 DEF Alters
  <2>. QED BY <2>4 DEF k
<1>6. Whole'
  BY <1>3, <1>4, <1>5 DEF Whole
<1>7. ASSUME NEW r \in PublicRooms, NEW k \in DOMAIN runtimes', runtimes'[k].room = r
      PROVE  /\ Up(k)' => rows'[r] = NoRow \/ runtimes'[k].record = rows'[r]
             /\ rows'[r].seats # {} => NoLater(runtimes'[k].record.phase, rows'[r].phase)
  <2>1. r \in Rooms /\ Moves(r) /\ Alters(k)
    BY PublicIsRoom DEF Plain
  <2>2. CASE runtimes'[k].record = rows'[r]
    BY <2>2 DEF NoLater
  <2>3. CASE k \in DOMAIN runtimes /\ runtimes'[k].record = runtimes[k].record /\ (Up(k)' => Up(k))
    <3>1. runtimes[k].room = r
      BY <1>7, <2>3 DEF Plain, RuntimesStay
    <3>2. /\ Up(k) => rows[r] = NoRow \/ runtimes[k].record = rows[r]
          /\ rows[r].seats # {} => NoLater(runtimes[k].record.phase, rows[r].phase)
      BY <2>3, <3>1 DEF Past, History
    <3>3. CASE rows'[r] \in {rows[r], NoRow}
      BY <1>2, <2>3, <3>2, <3>3
    <3>4. CASE /\ \E j \in DOMAIN runtimes' : runtimes'[j].room = r /\ Up(j)' /\ runtimes'[j].record = rows'[r]
               /\ rows'[r].seats = {} \/ /\ MayMove(r, rows[r]) /\ rows'[r].seats = rows[r].seats
                                         /\ rows'[r].phase = NextPhase(rows[r])
      <4>1. Up(k)' => runtimes'[k].record = rows'[r]
        BY <1>1, <1>7, <2>1, <3>4 DEF RegistryOK, RoomOK
      <4>2. ASSUME rows'[r].seats # {} PROVE NoLater(rows[r].phase, rows'[r].phase) /\ rows[r].seats # {}
        BY <3>4, <4>2 DEF NoLater, NextPhase, MayMove
      <4>. QED BY <2>3, <3>2, <4>1, <4>2 DEF NoLater
    <3>. QED BY <2>1, <3>3, <3>4 DEF Moves
  <2>4. \/ runtimes'[k].record = rows'[r]
        \/ k \in DOMAIN runtimes /\ runtimes'[k].record = runtimes[k].record /\ (Up(k)' => Up(k))
    BY <1>1, <1>7, <2>1 DEF Alters, Up, RuntimesStay
  <2>. QED BY <2>2, <2>3, <2>4
<1>. QED BY <1>6, <1>7 DEF Past, History

\* Nothing is done to the rooms.
LEMMA StillPlain ==
  ASSUME UNCHANGED <<rows, runtimes>>, registry'.map = registry.map PROVE Plain
BY DEF Plain, RuntimesStay, Alters, Moves

\* One runtime changes.
LEMMA OneAlters ==
  ASSUME Form, NEW k \in DOMAIN runtimes, NEW x, runtimes' = [runtimes EXCEPT ![k] = x],
         x.room = runtimes[k].room, runtimes'[k] = x => Alters(k)
  PROVE  /\ runtimes'[k] = x /\ RuntimesStay /\ DOMAIN runtimes' = DOMAIN runtimes
         /\ \A j \in DOMAIN runtimes' : Alters(j)
<1>1. /\ DOMAIN runtimes' = DOMAIN runtimes /\ runtimes'[k] = x
      /\ \A j \in DOMAIN runtimes : j # k => runtimes'[j] = runtimes[j]
  BY OneChanged DEF Form
<1>. QED BY <1>1 DEF Alters, RuntimesStay

\* One row changes, or goes.
LEMMA OneMoves ==
  ASSUME Form, NEW r \in Rooms, rows' = rows \/ (\E row : rows' = [rows EXCEPT ![r] = row]), Moves(r)
  PROVE  \A s \in Rooms : Moves(s)
<1>1. \A s \in Rooms \ {r} : rows'[s] = rows[s]
  BY DEF Form
<1>. QED BY <1>1 DEF Moves

LEMMA RowGoes ==
  ASSUME Form, NEW r \in Rooms, rows' = rows \/ rows' = [rows EXCEPT ![r] = NoRow]
  PROVE  \A s \in Rooms : Moves(s)
<1>1. rows'[r] \in {rows[r], NoRow}
  BY DEF Form
<1>. QED BY <1>1, OneMoves DEF Moves

LEMMA GonePlain ==
  ASSUME Form, NEW r \in Rooms, rows' = rows \/ rows' = [rows EXCEPT ![r] = NoRow],
         runtimes' = runtimes, registry'.map = registry.map
  PROVE  Plain
BY RowGoes DEF Plain, RuntimesStay, Alters

LEMMA MovePlain == ASSUME IInv, Past, NEW k \in DOMAIN runtimes, Move(k) PROVE Plain
<1>. DEFINE r == runtimes[k].room
            old == runtimes[k].record
            record == [old EXCEPT !.phase = NextPhase(old)]
            next == [record EXCEPT !.version = @ + 1]
<1>1. /\ RegistryOK /\ Form /\ Live(k) /\ Up(k) /\ MayMove(r, old) /\ Saved(k, record)
      /\ UNCHANGED <<matches, registry, cleaning>> /\ r \in Rooms
      /\ RowOK(r, old) /\ Synced(r, rows[r], old)
  BY UpIsMapped DEF IInv, Move, Live, Up, RegistryOK
<1>2. CASE Current(k)
  <2>1. /\ next.phase = NextPhase(old) /\ next.seats = old.seats /\ next.phase \in Phases
    BY <1>1 DEF RowOK, IsRow, RowFields, NextPhase, Phases
  <2>2. old = rows[r]
    BY <1>1, <1>2, PublicIsRoom DEF Current, Past, History, Synced
  <2>3. rows' = [rows EXCEPT ![r] = next] /\ runtimes' = [runtimes EXCEPT ![k].record = next]
    BY <1>1, <1>2 DEF Saved
  <2>. HIDE DEF next, record
  <2>4. rows'[r] = next
    BY <1>1, <2>3 DEF Form
  <2>. DEFINE x == [runtimes[k] EXCEPT !.record = next]
  <2>5. runtimes' = [runtimes EXCEPT ![k] = x] /\ x.room = r /\ x.status = "open" /\ x.record = next
    BY <1>1, <2>3 DEF Form, Live
  <2>. HIDE DEF x
  <2>6. runtimes'[k] = x => Alters(k)
    BY <1>1, <2>1, <2>4, <2>5 DEF Alters
  <2>7. /\ runtimes'[k] = x /\ RuntimesStay /\ DOMAIN runtimes' = DOMAIN runtimes
        /\ \A j \in DOMAIN runtimes' : Alters(j)
    BY <1>1, <2>5, <2>6, OneAlters
  <2>8. Moves(r)
    BY <1>1, <2>1, <2>2, <2>4, <2>5, <2>7 DEF Moves, Up
  <2>. QED BY <1>1, <2>3, <2>7, <2>8, OneMoves DEF Plain
<1>3. CASE ~Current(k)
  <2>. DEFINE x == [runtimes[k] EXCEPT !.status = "closed"]
  <2>1. runtimes' = [runtimes EXCEPT ![k] = x] /\ rows' = rows
    BY <1>1, <1>3 DEF Saved
  <2>2. x.room = r /\ x.status = "closed" /\ x.record = old
    BY <1>1 DEF Form
  <2>. HIDE DEF x
  <2>3. runtimes'[k] = x => Alters(k)
    BY <1>1, <2>2 DEF Alters, Live
  <2>. QED BY <1>1, <2>1, <2>2, <2>3, OneAlters DEF Plain, Moves
<1>. QED BY <1>2, <1>3

LEMMA OpenPlain == ASSUME IInv, Past, NEW k \in DOMAIN runtimes, Open(k) PROVE Plain
<1>. DEFINE r == runtimes[k].room
            seen == runtimes[k].record
            record == IF seen = NoRow THEN Fresh(runtimes[k].match) ELSE seen
<1>1. /\ RegistryOK /\ Form /\ Up(k) /\ runtimes[k].status = "opening" /\ r \in Rooms
      /\ registry \in RegistryType /\ registry.map[r] = k /\ k # 0
  <2>1. DOMAIN runtimes = 1..Len(runtimes)
    BY Indices DEF IInv, RegistryOK, Form
  <2>2. Up(k) /\ runtimes[k].status = "opening"
    BY DEF Open, Opening, Up
  <2>. QED BY <2>1, <2>2, UpIsMapped DEF IInv, RegistryOK, Form
<1>2. CASE /\ runtimes' = [runtimes EXCEPT ![k].status = "refused"]
           /\ registry' = [registry EXCEPT !.map[r] = 0] /\ rows' = rows
  <2>. DEFINE x == [runtimes[k] EXCEPT !.status = "refused"]
  <2>1. runtimes' = [runtimes EXCEPT ![k] = x] /\ x.room = r /\ x.status = "refused" /\ x.record = seen
    BY <1>1, <1>2 DEF Form
  <2>. HIDE DEF x
  <2>2. registry'.map[r] = 0 /\ \A s \in Rooms \ {r} : registry'.map[s] = registry.map[s]
    <3>1. 0 \in Nat
      OBVIOUS
    <3>. QED BY <1>1, <1>2, <3>1, MapChanged
  <2>3. runtimes'[k] = x => Alters(k)
    BY <1>1, <2>1, <2>2 DEF Alters
  <2>. QED BY <1>1, <1>2, <2>1, <2>2, <2>3, OneAlters DEF Plain, Moves
<1>3. CASE /\ seen = NoRow => rows[r] = NoRow
           /\ runtimes' = [runtimes EXCEPT ![k].status = "open", ![k].record = record]
           /\ rows' = (IF seen = NoRow THEN [rows EXCEPT ![r] = record] ELSE rows)
           /\ registry' = registry
  <2>. DEFINE x == [runtimes[k] EXCEPT !.status = "open", !.record = record]
  <2>1. runtimes' = [runtimes EXCEPT ![k] = x] /\ x.room = r /\ x.status = "open" /\ x.record = record
    BY <1>1, <1>3 DEF Form
  <2>. HIDE DEF x
  <2>2. seen = NoRow => rows'[r] = record /\ record.phase = "lobby" /\ record.seats = {}
    BY <1>1, <1>3, FreshIsOK DEF Form
  <2>3. seen # NoRow => record = seen /\ record.phase \in Phases
    BY <1>1 DEF Past, Whole
  <2>. HIDE DEF record, seen
  <2>. USE DEF seen
  <2>4. runtimes'[k] = x => Alters(k)
    BY <1>1, <2>1, <2>2, <2>3 DEF Alters, Phases
  <2>5. /\ runtimes'[k] = x /\ RuntimesStay /\ DOMAIN runtimes' = DOMAIN runtimes
        /\ \A j \in DOMAIN runtimes' : Alters(j)
    BY <1>1, <2>1, <2>4, OneAlters
  <2>6. Moves(r)
    <3>1. CASE seen = NoRow
      BY <1>1, <2>1, <2>2, <2>5, <3>1 DEF Moves, Up, Phases
    <3>2. CASE seen # NoRow
      BY <1>3, <3>2 DEF Moves
    <3>. QED BY <3>1, <3>2
  <2>. QED BY <1>1, <1>3, <2>5, <2>6, OneMoves DEF Plain
<1>. QED BY <1>2, <1>3 DEF Open

\* A runtime that the map names has stopped, or none did.
LEMMA EvictedPlain ==
  ASSUME IInv, Past, NEW r \in Rooms, Evicted(r), registry' = [registry EXCEPT !.map[r] = 0],
         rows' = rows \/ rows' = [rows EXCEPT ![r] = NoRow]
  PROVE  Plain
<1>. DEFINE k == registry.map[r]
<1>1. Form /\ RoomOK(r) /\ registry \in RegistryType
  BY DEF IInv, RegistryOK, Form
<1>2. registry'.map[r] = 0 /\ \A s \in Rooms \ {r} : registry'.map[s] = registry.map[s]
  <2>1. 0 \in Nat
    OBVIOUS
  <2>. QED BY <1>1, <2>1, MapChanged
<1>3. \A s \in Rooms : Moves(s)
  BY <1>1, RowGoes
<1>4. RuntimesStay /\ \A j \in DOMAIN runtimes' : Alters(j)
  <2>1. CASE k = 0
    BY <2>1 DEF Evicted, RuntimesStay, Alters
  <2>2. CASE k # 0
    <3>. DEFINE x == [runtimes[k] EXCEPT !.status = "closed"]
    <3>1. k \in DOMAIN runtimes /\ runtimes[k].room = r /\ runtimes[k].status \in {"open", "closed"}
      BY <1>1, <2>2 DEF RoomOK, Evicted, Opening, Past, Whole
    <3>2. /\ runtimes' = [runtimes EXCEPT ![k] = x]
          /\ x.room = r /\ x.status = "closed" /\ x.record = runtimes[k].record
      BY <1>1, <2>2, <3>1 DEF Evicted, Form
    <3>. HIDE DEF x, k
    <3>3. runtimes'[k] = x => Alters(k)
      BY <3>1, <3>2 DEF Alters
    <3>. QED BY <1>1, <3>1, <3>2, <3>3, OneAlters
  <2>. QED BY <2>1, <2>2
<1>. QED BY <1>2, <1>3, <1>4 DEF Plain

\* An answer of the registry opens a runtime, or does nothing.
LEMMA ProgressPlain ==
  ASSUME IInv, NEW r \in Rooms, NEW wait, NEW next, Progress(r, wait, next), rows' = rows
  PROVE  Plain
<1>1. CASE UNCHANGED <<runtimes, registry>>
  BY <1>1, StillPlain
<1>2. CASE \E m : Opened(r, m)
  <2>. PICK m : Opened(r, m)
    BY <1>2
  <2>. DEFINE n == Len(runtimes) + 1
              x == [room |-> r, status |-> "opening", match |-> m, record |-> rows[r]]
  <2>1. Form /\ registry \in RegistryType /\ IsSequence(runtimes)
    BY DEF IInv, RegistryOK, Form
  <2>2. Len(runtimes) \in Nat /\ DOMAIN runtimes = 1..Len(runtimes)
    BY <2>1, Indices
  <2>3. runtimes' = Append(runtimes, x) /\ registry' = [registry EXCEPT !.map[r] = n]
    BY DEF Opened
  <2>4. x.room = r /\ x.status = "opening" /\ x.record = rows'[r]
    OBVIOUS
  <2>. HIDE DEF x
  <2>5. /\ DOMAIN runtimes' = 1..n /\ runtimes'[n] = x
        /\ \A j \in DOMAIN runtimes : runtimes'[j] = runtimes[j] /\ j # n
    BY <2>1, <2>3, OneMore
  <2>6. n \in Nat /\ n \notin DOMAIN runtimes /\ DOMAIN runtimes \subseteq DOMAIN runtimes'
        /\ \A j \in DOMAIN runtimes' : j = n \/ j \in DOMAIN runtimes
    BY <2>2, <2>5
  <2>. HIDE DEF n
  <2>7. registry'.map[r] = n /\ \A s \in Rooms \ {r} : registry'.map[s] = registry.map[s]
    BY <2>1, <2>3, <2>6, MapChanged
  <2>8. \A j \in DOMAIN runtimes' : Alters(j)
    BY <2>4, <2>5, <2>6 DEF Alters
  <2>. QED BY <2>5, <2>6, <2>7, <2>8 DEF Plain, RuntimesStay, Moves
<1>. QED BY <1>1, <1>2 DEF Progress

LEMMA CloseLobbyPlain == ASSUME IInv, Past, CloseLobby PROVE Plain
<1>. DEFINE k == task.wait.runtime
            r == task.room
<1>1. /\ Form /\ registry \in RegistryType /\ k \in DOMAIN runtimes /\ runtimes[k].room = r /\ r \in Rooms
      /\ rows' = rows
  BY PublicIsRoom DEF IInv, RegistryOK, Form, CloseLobby, TaskOK, TaskForm, Got
<1>2. CASE LobbyCloses(k)
  <2>. DEFINE x == [runtimes[k] EXCEPT !.status = "closed"]
  <2>1. runtimes' = [runtimes EXCEPT ![k] = x] /\ registry' = [registry EXCEPT !.map[r] = 0]
    BY <1>2 DEF CloseLobby
  <2>2. x.room = r /\ x.status = "closed" /\ x.record = runtimes[k].record /\ runtimes[k].status = "open"
    BY <1>1, <1>2 DEF Form, LobbyCloses, Live
  <2>3. registry'.map[r] = 0 /\ \A s \in Rooms \ {r} : registry'.map[s] = registry.map[s]
    <3>1. 0 \in Nat
      OBVIOUS
    <3>. QED BY <1>1, <2>1, <3>1, MapChanged
  <2>. HIDE DEF x, k
  <2>4. runtimes'[k] = x => Alters(k)
    BY <1>1, <2>2 DEF Alters
  <2>. QED BY <1>1, <2>1, <2>2, <2>3, <2>4, OneAlters DEF Plain, Moves
<1>3. CASE ~LobbyCloses(k)
  BY <1>1, <1>3, StillPlain DEF CloseLobby, RegistryType
<1>. QED BY <1>2, <1>3

-----------------------------------------------------------------------------
(* The second invariant: the tickets and what the task knows               *)

\* An account has one ticket.
TicketForm ==
  /\ IsSequence(tickets)
  /\ \A t \in ToSet(tickets) :
       DOMAIN t = {"user", "room", "watched"} /\ t.room \in PublicRooms \cup {NoRoom}
  /\ \A s, t \in ToSet(tickets) : s.user = t.user => s = t

\* What SeatIsTicketed says of one room.
Ticketed(r) ==
  rows[r].phase \in {"lobby", "playing"} =>
    \A u \in rows[r].seats : \E t \in ToSet(tickets) :
      t.user = u /\ t.room = r /\ (t.watched \/ rows[r].phase = "playing")

\* The room that is being filled, or taken back.
Exempt(r) == task.room = r /\ task.at \in {"join", "rollback", "undo"}

\* Only the task's room is marked.
Marked ==
  registry.deleting = IF task.at \in {"closing", "deleting", "rollback", "undo"} THEN {task.room} ELSE {}

\* Where the registry has no room, nobody sits, and so it stays.
Vacant ==
  \/ /\ task.at \in {"lobby", "resume"}
     /\ \/ task.wait.at = "load" /\ task.wait.row = NoRow
        \/ task.wait.at = "got" /\ task.wait.runtime = 0
  \/ task.at = "deleting" /\ task.wait.row = NoRow
  \/ task.at = "create" /\ task.wait # Nothing
  => rows[task.room].seats = {}

\* The account's ticket is still what it was when the task took the account up.
Serves ==
  \A t \in ToSet(tickets) : t.user = task.user =>
    /\ task.at = "resume" => t.room = task.room
    /\ task.at = "queue" => t.room = NoRoom

\* The pair still waits; in its room is nobody yet, or the first of the two.
Pairs ==
  /\ task.at \in {"create", "join"} => Len(Waiting) >= 2
  /\ task.at = "join" => rows[task.room].seats = {} \/ rows[task.room].seats = {Waiting[1].user}

\* What is undone is the row that was read.
Undoes ==
  task.at = "undo" =>
    rows[task.room].seats = {} \/ (rows[task.room] = task.wait.row /\ Little(rows[task.room]))

\* The room of a pairing has no runtime from a later time.
Recent ==
  Fills => \A k \in DOMAIN runtimes :
             runtimes[k].room = task.room => runtimes[k].record.phase \in {"none", "lobby"}

\* The task is handed runtimes that have been opened, and creates a room only to fill it.
Handed ==
  /\ task.wait.runtime # 0 /\ (task.wait.at = "got" \/ task.at \in {"closing", "deleting"}) =>
       runtimes[task.wait.runtime].status \in {"open", "closed"}
  /\ task.wait.at = "opening" \/ task.at = "deleting" => task.wait.runtime # 0
  /\ task.wait.at = "create" => task.at = "create"

Errand == Marked /\ Vacant /\ Serves /\ Pairs /\ Undoes /\ Recent /\ Handed

Places == TicketForm /\ Errand /\ \A r \in PublicRooms : Exempt(r) \/ Ticketed(r)

\* The server that closes forgets the tickets.
Seated == registry.closing \/ (Past /\ Places)

LEMMA TicketsPicked ==
  ASSUME TicketForm, NEW S, tickets' = InOrder(tickets, S)
  PROVE  TicketForm' /\ ToSet(tickets') = ToSet(tickets) \cap S
<1>1. IsSequence(tickets') /\ ToSet(tickets') = ToSet(tickets) \cap S
  BY PickedInOrder DEF TicketForm
<1>. QED BY <1>1 DEF TicketForm

LEMMA WaitingTwo ==
  ASSUME TicketForm, Len(Waiting) >= 2, NEW i \in {1, 2}
  PROVE  Waiting[i] \in ToSet(tickets) /\ Waiting[i].room = NoRoom
<1>. DEFINE S == {t \in ToSet(tickets) : t.room = NoRoom}
<1>1. /\ DOMAIN Waiting = 1..Len(Waiting) /\ Len(Waiting) \in Nat
      /\ ToSet(Waiting) = ToSet(tickets) \cap S
  BY PickedInOrder DEF TicketForm, Waiting
<1>2. i \in DOMAIN Waiting
  BY <1>1
<1>3. Waiting[i] \in ToSet(Waiting)
  BY <1>2 DEF ToSet
<1>. QED BY <1>1, <1>3

\* Each ticket is written anew, without its owner.
LEMMA TicketsRewritten ==
  ASSUME TicketForm, DOMAIN tickets' = DOMAIN tickets,
         \A i \in DOMAIN tickets : /\ tickets'[i].user = tickets[i].user
                                   /\ DOMAIN tickets'[i] = DOMAIN tickets[i]
                                   /\ tickets'[i].room \in PublicRooms \cup {NoRoom},
         \A i, j \in DOMAIN tickets : tickets[i] = tickets[j] => tickets'[i] = tickets'[j],
         NEW f, tickets' = [i \in DOMAIN tickets |-> f[i]]
  PROVE  TicketForm'
<1>1. DOMAIN tickets = 1..Len(tickets) /\ Len(tickets) \in Nat
  BY Indices DEF TicketForm
<1>2. IsSequence(tickets')
  <2>. DEFINE T == {tickets'[i] : i \in DOMAIN tickets}
  <2>1. tickets' \in [1..Len(tickets) -> T]
    BY <1>1
  <2>. HIDE DEF T
  <2>2. tickets' \in Seq(T)
    BY <1>1, <2>1
  <2>. QED BY <2>2 DEF IsSequence
<1>3. ToSet(tickets') = {tickets'[i] : i \in DOMAIN tickets} /\ ToSet(tickets) = {tickets[i] : i \in DOMAIN tickets}
  BY DEF ToSet
<1>4. ASSUME NEW s \in ToSet(tickets'), NEW t \in ToSet(tickets'), s.user = t.user PROVE s = t
  <2>1. PICK i \in DOMAIN tickets, j \in DOMAIN tickets : s = tickets'[i] /\ t = tickets'[j]
    BY <1>3
  <2>2. tickets[i] = tickets[j]
    BY <1>3, <1>4, <2>1 DEF TicketForm
  <2>. QED BY <2>1, <2>2
<1>5. \A t \in ToSet(tickets') :
        DOMAIN t = {"user", "room", "watched"} /\ t.room \in PublicRooms \cup {NoRoom}
  BY <1>3 DEF TicketForm
<1>. QED BY <1>2, <1>4, <1>5 DEF TicketForm

\* The tickets of those who sit in the room stay.
Keeps(r) ==
  rows[r].phase \in {"lobby", "playing"} =>
    \A t \in ToSet(tickets) : t.room = r /\ t.user \in rows[r].seats => t \in ToSet(tickets')

LEMMA TicketedStays ==
  ASSUME NEW r, Ticketed(r), Moves(r), Keeps(r) PROVE Ticketed(r)'
<1>1. NoRow.phase = "none"
  BY NoRowIsOK
<1>. SUFFICES ASSUME rows'[r].phase \in {"lobby", "playing"}, NEW u \in rows'[r].seats
              PROVE  \E t \in ToSet(tickets') :
                       t.user = u /\ t.room = r /\ (t.watched \/ rows'[r].phase = "playing")
  BY DEF Ticketed
<1>2. /\ u \in rows[r].seats /\ rows[r].phase \in {"lobby", "playing"}
      /\ rows'[r].phase = rows[r].phase \/ rows'[r].phase = "playing"
  BY <1>1 DEF Moves, MayMove, NextPhase
<1>3. PICK t \in ToSet(tickets) : t.user = u /\ t.room = r /\ (t.watched \/ rows[r].phase = "playing")
  BY <1>2 DEF Ticketed
<1>. QED BY <1>2, <1>3 DEF Keeps

LEMMA SameTickets == ASSUME tickets' = tickets PROVE \A r : Keeps(r)
BY DEF Keeps

LEMMA NobodyTicketed == ASSUME NEW r, rows[r].seats = {} PROVE Ticketed(r)
BY DEF Ticketed

\* Nobody is seated where nobody sits.
LEMMA StaysVacant == ASSUME NEW r, Moves(r), rows[r].seats = {} PROVE rows'[r].seats = {}
BY NoRowIsOK DEF Moves

\* A task that rests has nothing to say.
LEMMA RestsErrand ==
  ASSUME task'.at \in {"idle", "sweep"}, task'.wait = Nothing, registry'.deleting = {} PROVE Errand'
<1>1. Nothing.at = "got" /\ Nothing.runtime = 0
  BY IdleFields
<1>. QED BY <1>1 DEF Errand, Marked, Vacant, Serves, Pairs, Undoes, Recent, Handed, Fills

\* The steps of others.
LEMMA OthersErrand ==
  ASSUME IInv, IInv', Past, Errand, Plain, UNCHANGED <<task, tickets>>,
         registry'.deleting = registry.deleting
  PROVE  Errand'
<1>. DEFINE r == task.room
<1>1. /\ TaskOK /\ TaskOK' /\ RegistryOK'
      /\ task.at \notin {"idle", "sweep", "queue"} => r \in PublicRooms /\ Moves(r)
  BY PublicIsRoom DEF IInv, TaskOK, TaskForm, Plain
<1>2. Marked' /\ Serves'
  BY DEF Errand, Marked, Serves
<1>3. Vacant'
  BY <1>1, StaysVacant DEF Errand, Vacant
<1>4. Pairs'
  <2>1. Waiting' = Waiting
    BY DEF Waiting
  <2>2. task.at = "join" => rows'[r].seats \in {{}, rows[r].seats}
    BY <1>1, NoRowIsOK DEF Moves
  <2>. QED BY <2>1, <2>2 DEF Errand, Pairs
<1>5. Undoes'
  <2>. SUFFICES ASSUME task.at = "undo"
                PROVE  rows'[r].seats = {} \/ (rows'[r] = task.wait.row /\ Little(rows'[r]))
    BY DEF Undoes
  <2>1. CASE rows[r].seats = {}
    BY <1>1, <2>1, StaysVacant
  <2>2. CASE rows[r] = task.wait.row /\ Little(rows[r])
    <3>1. ~MayMove(r, rows[r])
      BY <1>1, <2>2, LittleIsLobby, LobbyAssumption DEF MayMove
    <3>. QED BY <1>1, <2>2, <3>1, NoRowIsOK DEF Moves
  <2>. QED BY <2>1, <2>2 DEF Errand, Undoes
<1>6. Recent'
  <2>. SUFFICES ASSUME Fills, NEW k \in DOMAIN runtimes', runtimes'[k].room = r
                PROVE  runtimes'[k].record.phase \in {"none", "lobby"}
    BY DEF Recent, Fills
  <2>1. Little(rows'[r])
    BY <1>1 DEF TaskOK, Fills, FewSeats
  <2>2. rows'[r].phase \in {"none", "lobby"}
    BY <2>1 DEF Little
  <2>3. k \in DOMAIN runtimes => runtimes[k].room = r /\ runtimes[k].record.phase \in {"none", "lobby"}
    BY DEF Plain, RuntimesStay, Errand, Recent
  <2>4. Alters(k)
    BY DEF Plain
  <2>. QED BY <2>2, <2>3, <2>4 DEF Alters
<1>7. Handed'
  <2>. DEFINE k == task.wait.runtime
  <2>1. k # 0 => k \in DOMAIN runtimes
    BY <1>1 DEF TaskOK, TaskForm, Got
  <2>2. k \in DOMAIN runtimes => Alters(k)
    BY DEF Plain, RuntimesStay
  <2>. QED BY <2>1, <2>2 DEF Errand, Handed, Alters, Up
<1>. QED BY <1>2, <1>3, <1>4, <1>5, <1>6, <1>7 DEF Errand

LEMMA OthersPlaces ==
  ASSUME IInv, IInv', Past, Places, Plain, UNCHANGED <<task, tickets>>,
         registry'.deleting = registry.deleting
  PROVE  Past' /\ Places'
<1>1. Past' /\ Errand'
  BY PlainPast, OthersErrand DEF Places
<1>2. TicketForm'
  BY DEF Places, TicketForm
<1>3. \A r \in PublicRooms : Exempt(r)' \/ Ticketed(r)'
  BY TicketedStays, SameTickets, PublicIsRoom DEF Places, Plain, Exempt
<1>. QED BY <1>1, <1>2, <1>3 DEF Places

\* Who rests, or goes on with the room, leaves every other room its tickets.
LEMMA PlacesFollow ==
  ASSUME IInv, IInv', Past, Places, Plain, TicketForm', Errand',
         \A r \in PublicRooms : Exempt(r)' \/ Ticketed(r)' \/ (~Exempt(r) /\ Keeps(r))
  PROVE  Past' /\ Places'
<1>1. Past'
  BY PlainPast
<1>2. \A r \in PublicRooms : Exempt(r)' \/ Ticketed(r)'
  BY TicketedStays, PublicIsRoom DEF Places, Plain
<1>. QED BY <1>1, <1>2 DEF Places

LEMMA QuietPlain == ASSUME Quiet PROVE Plain
BY StillPlain DEF Quiet

\* The registry is asked for a room that is not marked.
LEMMA GettingAsks ==
  ASSUME IInv, Past, NEW r \in PublicRooms, registry.deleting = {}, NEW w, w = Getting(r)
  PROVE  /\ w.at = "load" => w.row = rows[r]
         /\ w.at = "got" \/ w.at = "opening" => w.runtime # 0
         /\ w.at # "create"
         /\ w.at = "got" => runtimes[w.runtime].status \in {"open", "closed"}
<1>1. r \in Rooms /\ RoomOK(r)
  BY PublicIsRoom DEF IInv, RegistryOK
<1>. DEFINE k == registry.map[r]
<1>2. CASE k = 0
  <2>1. w = Wait("load", 0, rows[r])
    BY <1>2 DEF Getting
  <2>. QED BY <2>1 DEF Wait
<1>3. CASE k # 0
  <2>1. w = Wait(IF Opening(k) THEN "opening" ELSE "got", k, NoRow)
    BY <1>3 DEF Getting
  <2>2. k \in DOMAIN runtimes /\ runtimes[k].status \in {"opening", "open", "closed"}
    BY <1>1, <1>3 DEF RoomOK, Past, Whole
  <2>. HIDE DEF k
  <2>. QED BY <1>3, <2>1, <2>2 DEF Wait, Opening
<1>. QED BY <1>2, <1>3

LEMMA TicketsCut ==
  ASSUME TicketForm, NEW users, tickets' = Without(TicketsOf(users))
  PROVE  /\ TicketForm'
         /\ \A t : t \in ToSet(tickets') <=> t \in ToSet(tickets) /\ t.user \notin users
<1>1. TicketForm' /\ ToSet(tickets') = ToSet(tickets) \cap (ToSet(tickets) \ TicketsOf(users))
  BY TicketsPicked DEF Without
<1>. QED BY <1>1 DEF TicketsOf

LEMMA ExpiredCut ==
  ASSUME TicketForm, NEW r, Expired(r)
  PROVE  /\ TicketForm'
         /\ \A t : t \in ToSet(tickets') <=> t \in ToSet(tickets) /\ t.room # r
<1>1. TicketForm' /\ ToSet(tickets') = ToSet(tickets) \cap (ToSet(tickets) \ TicketsFor(r))
  BY TicketsPicked DEF Without, Expired
<1>. QED BY <1>1 DEF TicketsFor

\* Whose match goes on has not lapsed.
LEMMA LapsedCut ==
  ASSUME TicketForm, NEW users \in Lapsed, tickets' = Without(TicketsOf(users))
  PROVE  TicketForm' /\ \A r \in PublicRooms : Keeps(r)
<1>1. /\ TicketForm'
      /\ \A t : t \in ToSet(tickets') <=> t \in ToSet(tickets) /\ t.user \notin users
  BY TicketsCut
<1>2. ASSUME NEW r \in PublicRooms, rows[r].phase \in {"lobby", "playing"},
             NEW t \in ToSet(tickets), t.room = r
      PROVE  t.user \notin users
  <2>. SUFFICES ASSUME t.user \in users PROVE FALSE
    OBVIOUS
  <2>1. PICK j \in DOMAIN tickets :
          /\ tickets[j].user = t.user
          /\ tickets[j].room # NoRoom => rows[tickets[j].room].phase \in {"none", "revealed"}
    BY DEF Lapsed
  <2>2. tickets[j] = t
    BY <2>1 DEF TicketForm, ToSet
  <2>. QED BY <1>2, <2>1, <2>2, LobbyAssumption
<1>. QED BY <1>1, <1>2 DEF Keeps

\* The task is with no room that is excepted.
LEMMA TaskIsElsewhere ==
  ASSUME Places, task.at \notin {"join", "rollback", "undo"}
  PROVE  \A r \in PublicRooms : Ticketed(r) /\ ~Exempt(r)
BY DEF Places, Exempt


-----------------------------------------------------------------------------
(* The steps of matchmaking and the tickets                                *)

\* The task rests, or goes on with the sweep.
LEMMA RestsPlaces ==
  ASSUME IInv, IInv', Past, Places, Sweep \/ NoLobby \/ EndSweep \/ Failed PROVE Past' /\ Places'
<1>1. /\ Quiet /\ registry' = registry /\ DOMAIN task = DOMAIN Idle /\ TicketForm
      /\ task.at \in {"idle", "lobby", "sweep", "resume", "create"}
      /\ Errand
  BY RestsOK DEF IInv, TaskOK, TaskForm, Sweep, NoLobby, EndSweep, Failed, Places
<1>2. Plain /\ \A r \in PublicRooms : Ticketed(r) /\ ~Exempt(r)
  BY <1>1, QuietPlain, TaskIsElsewhere
<1>3. Errand'
  <2>1. registry'.deleting = {}
    BY <1>1 DEF Errand, Marked
  <2>2. task'.at \in {"idle", "sweep"} /\ task'.wait = Nothing
    BY <1>1, IdleFields DEF Sweep, NoLobby, EndSweep, Failed, Done, Swept
  <2>. QED BY <2>1, <2>2, RestsErrand
<1>4. TicketForm' /\ \A r \in PublicRooms : Keeps(r)
  <2>1. CASE tickets' = tickets
    BY <1>1, <2>1 DEF TicketForm, Keeps
  <2>2. CASE NoLobby
    <3>1. rows[task.room].seats = {}
      BY <1>1, <2>2, IdleFields DEF NoLobby, Errand, Vacant
    <3>2. /\ TicketForm'
          /\ \A t : t \in ToSet(tickets') <=> t \in ToSet(tickets) /\ t.room # task.room
      BY <1>1, <2>2, ExpiredCut DEF NoLobby
    <3>. QED BY <3>1, <3>2 DEF Keeps
  <2>3. CASE EndSweep
    BY <1>1, <2>3, LapsedCut DEF EndSweep
  <2>. QED BY <2>1, <2>2, <2>3 DEF Sweep, Failed
<1>. QED BY <1>2, <1>3, <1>4, PlacesFollow

LEMMA SweepRoomPlaces ==
  ASSUME IInv, IInv', Past, Places, NEW r \in PublicRooms, SweepRoom(r) PROVE Past' /\ Places'
<1>1. /\ Quiet /\ UNCHANGED <<registry, tickets, rows, runtimes>> /\ TicketForm /\ Errand
      /\ task.at = "sweep" /\ DOMAIN task = DOMAIN Idle
  BY SweepRoomOK DEF IInv, TaskOK, TaskForm, SweepRoom, Places
<1>2. Plain /\ \A s \in PublicRooms : Ticketed(s) /\ ~Exempt(s)
  BY <1>1, QuietPlain, TaskIsElsewhere
<1>3. task'.at = "lobby" /\ task'.room = r /\ task'.wait = Getting(r)
  BY <1>1, IdleFields DEF SweepRoom
<1>4. registry.deleting = {}
  BY <1>1 DEF Errand, Marked
<1>5. Errand'
  BY <1>1, <1>3, <1>4, GettingAsks, NoRowIsOK
     DEF Errand, Marked, Vacant, Serves, Pairs, Undoes, Recent, Handed, Fills
<1>6. TicketForm' /\ \A s \in PublicRooms : Keeps(s)
  BY <1>1 DEF TicketForm, Keeps
<1>. QED BY <1>2, <1>5, <1>6, PlacesFollow

LEMMA UpdatePlaces ==
  ASSUME IInv, IInv', Past, Places, NEW u, NEW action, Update(u, action) PROVE Past' /\ Places'
<1>1. /\ Quiet /\ UNCHANGED <<registry, rows, runtimes>> /\ TicketForm /\ Errand
      /\ task.at = "sweep"
  BY UpdateOK DEF Update, Places
<1>2. Plain /\ \A s \in PublicRooms : Ticketed(s) /\ ~Exempt(s)
  BY <1>1, QuietPlain, TaskIsElsewhere
<1>3. registry.deleting = {}
  BY <1>1 DEF Errand, Marked
<1>4. TicketForm' /\ \A s \in PublicRooms : Keeps(s)
  BY <1>1, LapsedCut DEF Update
<1>. DEFINE serving == [Idle EXCEPT !.at = "queue", !.user = u, !.action = action]
<1>5. /\ DOMAIN serving = DOMAIN Idle /\ serving.at = "queue" /\ serving.wait = Nothing
      /\ serving.user = u /\ Nothing.at = "got" /\ Nothing.runtime = 0
  BY IdleFields
<1>6. Errand'
  <2>1. CASE /\ \A i \in DOMAIN tickets' : tickets'[i].user = u => tickets'[i].room = NoRoom
             /\ task' = serving
    <3>1. \A t \in ToSet(tickets') : t.user = u => t.room = NoRoom
      BY <2>1 DEF ToSet
    <3>. HIDE DEF serving
    <3>. QED BY <1>1, <1>3, <1>5, <2>1, <3>1
         DEF Errand, Marked, Vacant, Serves, Pairs, Undoes, Recent, Handed, Fills
  <2>2. CASE \E r \in PublicRooms :
               /\ \E i \in DOMAIN tickets' : tickets'[i].user = u /\ tickets'[i].room = r
               /\ task' = [serving EXCEPT !.at = "resume", !.room = r, !.wait = Getting(r)]
    <3>. PICK r \in PublicRooms :
               /\ \E i \in DOMAIN tickets' : tickets'[i].user = u /\ tickets'[i].room = r
               /\ task' = [serving EXCEPT !.at = "resume", !.room = r, !.wait = Getting(r)]
      BY <2>2
    <3>. HIDE DEF serving
    <3>1. task'.at = "resume" /\ task'.room = r /\ task'.user = u /\ task'.wait = Getting(r)
      BY <1>5, IdleFields
    <3>2. \A t \in ToSet(tickets') : t.user = u => t.room = r
      BY <1>4 DEF TicketForm, ToSet
    <3>. QED BY <1>1, <1>3, <3>1, <3>2, GettingAsks, NoRowIsOK
         DEF Errand, Marked, Vacant, Serves, Pairs, Undoes, Recent, Handed, Fills
  <2>. QED BY <2>1, <2>2 DEF Update
<1>. QED BY <1>2, <1>4, <1>6, PlacesFollow

LEMMA ResumePlaces == ASSUME IInv, IInv', Past, Places, Resume PROVE Past' /\ Places'
<1>. DEFINE r == task.room
            k == task.wait.runtime
<1>1. /\ Quiet /\ UNCHANGED <<registry, rows, runtimes>> /\ TicketForm /\ Errand
      /\ task.at = "resume" /\ task.wait.at = "got" /\ DOMAIN task = DOMAIN Idle /\ r \in PublicRooms
      /\ k # 0 => k \in DOMAIN runtimes /\ runtimes[k].room = r
  BY RestsOK DEF IInv, TaskOK, TaskForm, Got, Resume, Places
<1>2. Plain /\ (\A s \in PublicRooms : Ticketed(s) /\ ~Exempt(s)) /\ registry.deleting = {}
  BY <1>1, QuietPlain, TaskIsElsewhere DEF Errand, Marked
<1>3. CASE Done /\ tickets' = tickets
  <2>1. Errand'
    BY <1>1, <1>2, <1>3, IdleFields, RestsErrand DEF Done
  <2>2. TicketForm' /\ \A s \in PublicRooms : Keeps(s)
    BY <1>1, <1>3 DEF TicketForm, Keeps
  <2>. QED BY <1>2, <2>1, <2>2, PlacesFollow
<1>4. CASE /\ k = 0 \/ runtimes[k].record.phase = "revealed"
           /\ task' = [task EXCEPT !.at = "queue", !.room = NoRoom, !.wait = Nothing]
           /\ tickets' = Without(TicketsOf({task.user}))
  <2>1. /\ TicketForm'
        /\ \A t : t \in ToSet(tickets') <=> t \in ToSet(tickets) /\ t.user # task.user
    BY <1>1, <1>4, TicketsCut
  <2>2. /\ task'.at = "queue" /\ task'.wait = Nothing /\ task'.user = task.user
        /\ Nothing.at = "got" /\ Nothing.runtime = 0
    BY <1>1, <1>4, IdleFields
  <2>3. Errand'
    BY <1>1, <1>2, <2>1, <2>2 DEF Errand, Marked, Vacant, Serves, Pairs, Undoes, Recent, Handed, Fills
  <2>4. rows[r].seats = {} \/ rows[r].phase = "revealed"
    <3>1. CASE k = 0
      BY <1>1, <3>1 DEF Errand, Vacant
    <3>2. CASE k # 0
      BY <1>1, <1>4, <3>2 DEF Past, History, NoLater
    <3>. QED BY <3>1, <3>2
  <2>5. \A s \in PublicRooms : Keeps(s)
    BY <1>1, <2>1, <2>4 DEF Keeps, Errand, Serves
  <2>. QED BY <1>2, <2>1, <2>3, <2>5, PlacesFollow
<1>. QED BY <1>3, <1>4 DEF Resume

LEMMA QueuedForm ==
  ASSUME TicketForm, tickets' = Queued(task.user, task.action),
         \A t \in ToSet(tickets) : t.user = task.user => t.room = NoRoom
  PROVE  TicketForm' /\ \A s \in PublicRooms : Keeps(s)
<1>. DEFINE u == task.user
<1>1. CASE tickets' = Without(TicketsOf({u}))
  <2>1. /\ TicketForm'
        /\ \A t : t \in ToSet(tickets') <=> t \in ToSet(tickets) /\ t.user # u
    BY <1>1, TicketsCut
  <2>. QED BY <2>1, LobbyAssumption DEF Keeps
<1>2. CASE /\ \A i \in DOMAIN tickets : tickets[i].user # u
           /\ tickets' = Append(tickets, Ticket(u))
  <2>1. /\ IsSequence(tickets') /\ DOMAIN tickets' = 1..(Len(tickets) + 1)
        /\ tickets'[Len(tickets) + 1] = Ticket(u)
        /\ \A j \in DOMAIN tickets : tickets'[j] = tickets[j] /\ j # Len(tickets) + 1
        /\ Len(tickets) \in Nat /\ DOMAIN tickets = 1..Len(tickets)
    BY <1>2, OneMore, Indices DEF TicketForm
  <2>2. \A t : t \in ToSet(tickets') <=> t \in ToSet(tickets) \/ t = Ticket(u)
    <3>1. \A j \in DOMAIN tickets' : j \in DOMAIN tickets \/ j = Len(tickets) + 1
      BY <2>1
    <3>2. DOMAIN tickets \subseteq DOMAIN tickets' /\ Len(tickets) + 1 \in DOMAIN tickets'
      BY <2>1
    <3>. QED BY <2>1, <3>1, <3>2 DEF ToSet
  <2>3. Ticket(u).user = u /\ Ticket(u).room = NoRoom /\ DOMAIN Ticket(u) = {"user", "room", "watched"}
    BY DEF Ticket
  <2>4. \A t \in ToSet(tickets) : t.user # u
    BY <1>2 DEF ToSet
  <2>5. TicketForm'
    BY <2>1, <2>2, <2>3, <2>4 DEF TicketForm
  <2>. QED BY <2>2, <2>5 DEF Keeps
<1>3. CASE tickets' = tickets
  BY <1>3 DEF TicketForm, Keeps
<1>. QED BY <1>1, <1>2, <1>3 DEF Queued

LEMMA QueuePlaces == ASSUME IInv, IInv', Past, Places, Queue PROVE Past' /\ Places'
<1>1. /\ Quiet /\ UNCHANGED <<registry, rows, runtimes>> /\ TicketForm /\ Errand
      /\ task.at = "queue" /\ DOMAIN task = DOMAIN Idle /\ RegistryOK
  BY QueueOK DEF IInv, TaskOK, TaskForm, Queue, Places
<1>2. Plain /\ (\A s \in PublicRooms : Ticketed(s) /\ ~Exempt(s)) /\ registry.deleting = {}
  BY <1>1, QuietPlain, TaskIsElsewhere DEF Errand, Marked
<1>3. TicketForm' /\ \A s \in PublicRooms : Keeps(s)
  BY <1>1, QueuedForm DEF Queue, Errand, Serves
<1>4. CASE Done
  <2>1. Errand'
    BY <1>1, <1>2, <1>4, IdleFields, RestsErrand DEF Done
  <2>. QED BY <1>2, <1>3, <2>1, PlacesFollow
<1>5. CASE /\ Len(Waiting') >= 2
           /\ \E r \in PublicRooms :
               /\ matches[r] = 0 \/ registry.map[r] # 0
               /\ task' = [task EXCEPT !.at = "create", !.room = r, !.wait = Creating(r)]
  <2>. PICK r \in PublicRooms :
               /\ matches[r] = 0 \/ registry.map[r] # 0
               /\ task' = [task EXCEPT !.at = "create", !.room = r, !.wait = Creating(r)]
    BY <1>5
  <2>1. task'.at = "create" /\ task'.room = r /\ task'.wait = Creating(r)
    BY <1>1, IdleFields
  <2>2. Creating(r) # Nothing => rows[r] = NoRow /\ \A k \in DOMAIN runtimes : runtimes[k].room # r
    <3>1. Creating(r) # Nothing => registry.map[r] = 0
      BY DEF Creating
    <3>2. RoomOK(r)
      BY <1>1, PublicIsRoom DEF RegistryOK
    <3>. QED BY <3>1, <3>2 DEF RoomOK
  <2>3. Creating(r).runtime = 0 /\ Creating(r).at \in {"got", "create"}
    BY DEF Creating, Wait, Nothing
  <2>4. Errand'
    BY <1>1, <1>2, <1>5, <2>1, <2>2, <2>3, NoRowIsOK
       DEF Errand, Marked, Vacant, Serves, Pairs, Undoes, Recent, Handed, Fills
  <2>. QED BY <1>2, <1>3, <2>4, PlacesFollow
<1>. QED BY <1>4, <1>5 DEF Queue

LEMMA CreatedPlaces == ASSUME IInv, IInv', Past, Places, Created PROVE Past' /\ Places'
<1>. DEFINE r == task.room
<1>1. /\ Quiet /\ UNCHANGED <<registry, rows, runtimes, tickets>> /\ TicketForm /\ Errand
      /\ task.at = "create" /\ task.wait.runtime # 0 /\ DOMAIN task = DOMAIN Idle /\ r \in PublicRooms
  BY CreatedOK DEF IInv, TaskOK, TaskForm, Created, Places
<1>2. Plain /\ (\A s \in PublicRooms : Ticketed(s) /\ ~Exempt(s)) /\ registry.deleting = {}
  BY <1>1, QuietPlain, TaskIsElsewhere DEF Errand, Marked
<1>3. task'.at = "join" /\ task'.room = r /\ task'.wait = Getting(r)
  BY <1>1, IdleFields DEF Created
<1>4. Fills /\ rows[r].seats = {} /\ Waiting' = Waiting
  BY <1>1, IdleFields DEF Fills, Errand, Vacant, Waiting
<1>5. Errand'
  BY <1>1, <1>2, <1>3, <1>4, GettingAsks
     DEF Errand, Marked, Vacant, Serves, Pairs, Undoes, Recent, Handed, Fills
<1>6. TicketForm' /\ \A s \in PublicRooms : Keeps(s)
  BY <1>1 DEF TicketForm, Keeps
<1>. QED BY <1>2, <1>5, <1>6, PlacesFollow

\* The room of the task is marked.
LEMMA MarksPlaces ==
  ASSUME IInv, IInv', Past, Places, MarkLobby \/ NotSeated PROVE Past' /\ Places'
<1>. DEFINE r == task.room
<1>1. /\ Quiet /\ UNCHANGED <<rows, runtimes, tickets>> /\ TicketForm /\ Errand
      /\ registry' = [registry EXCEPT !.deleting = @ \cup {r}] /\ registry \in RegistryType
      /\ DOMAIN task = DOMAIN Idle /\ r \in PublicRooms
      /\ \/ task.at = "lobby" /\ task.wait.at = "got" /\ task' = [task EXCEPT !.at = "closing"]
         \/ task.at = "join" /\ task.wait.at \in {"got", "failed"} /\ task' = [task EXCEPT !.at = "rollback"]
  BY MarksOK DEF IInv, RegistryOK, Form, TaskOK, TaskForm, MarkLobby, NotSeated, Places
<1>2. Plain
  BY <1>1, QuietPlain
<1>3. /\ task'.room = r /\ task'.wait = task.wait
      /\ \/ task.at = "lobby" /\ task.wait.at = "got" /\ task'.at = "closing"
         \/ task.at = "join" /\ task.wait.at \in {"got", "failed"} /\ task'.at = "rollback"
  BY <1>1, IdleFields
<1>4. registry'.deleting = {r}
  BY <1>1 DEF RegistryType, Errand, Marked
<1>5. Errand'
  BY <1>1, <1>3, <1>4 DEF Errand, Marked, Vacant, Serves, Pairs, Undoes, Recent, Handed, Fills
<1>6. TicketForm' /\ \A s \in PublicRooms : Keeps(s)
  BY <1>1 DEF TicketForm, Keeps
<1>7. \A s \in PublicRooms : Exempt(s) => Exempt(s)'
  BY <1>1, <1>3 DEF Exempt
<1>. QED BY <1>2, <1>5, <1>6, <1>7, PlacesFollow

LEMMA AnsweredPlaces == ASSUME IInv, IInv', Past, Places, Answered PROVE Past' /\ Places'
<1>. DEFINE r == task.room
            w == task.wait
<1>1. /\ UNCHANGED <<rows, cleaning, tickets>> /\ TicketForm /\ Errand /\ RegistryOK /\ TaskOK
      /\ w.at \in {"load", "create", "opening"} /\ task.at \in {"lobby", "resume", "create", "join"}
      /\ DOMAIN task = DOMAIN Idle /\ r \in PublicRooms /\ r \in Rooms
      /\ Loaded(r, w) /\ Got(r, w)
  BY PublicIsRoom DEF IInv, TaskOK, TaskForm, Answered, Places
<1>2. PICK next \in Answers : Progress(r, w, next) /\ task' = [task EXCEPT !.wait = next]
  BY DEF Answered
<1>3. Plain
  BY <1>1, <1>2, ProgressPlain
<1>4. task'.at = task.at /\ task'.room = r /\ task'.user = task.user /\ task'.wait = next
  BY <1>1, <1>2, IdleFields
<1>5. /\ \A k \in DOMAIN runtimes : runtimes'[k] = runtimes[k]
      /\ \A k \in DOMAIN runtimes' \ DOMAIN runtimes :
           runtimes'[k].room = r /\ runtimes'[k].record = rows[r]
      /\ RuntimesStay /\ RegistryOK'
  BY <1>1, <1>2, ProgressOK
<1>6. registry'.deleting = {}
  <2>1. registry.deleting = {} /\ registry \in RegistryType
    BY <1>1 DEF Errand, Marked, RegistryOK, Form
  <2>2. registry'.deleting = registry.deleting
    BY <1>2, <2>1 DEF Progress, Opened, RegistryType
  <2>. QED BY <2>1, <2>2
<1>7. /\ next.at \in {"opening", "got", "failed"}
      /\ next.at = "opening" => next.runtime # 0
      /\ next.at = "got" /\ next.runtime = 0 => (w.at = "load" /\ w.row = NoRow) \/ w.at = "create"
      /\ next.at = "got" /\ next.runtime # 0 =>
           runtimes'[next.runtime].status \in {"open", "closed"}
  <2>1. CASE next = Nothing /\ ((w.at = "load" /\ w.row = NoRow) \/ w.at = "create")
    BY <2>1, IdleFields
  <2>2. CASE next = Wait("opening", registry'.map[r], NoRow) /\ registry'.map[r] # 0
    BY <2>2 DEF Wait
  <2>3. CASE /\ w.at = "opening" /\ ~Opening(w.runtime) /\ runtimes' = runtimes
             /\ next = (IF runtimes[w.runtime].status = "refused" THEN Wait("failed", 0, NoRow)
                        ELSE Wait("got", w.runtime, NoRow))
    <3>1. w.runtime # 0 /\ w.runtime \in DOMAIN runtimes
      BY <1>1, <2>3 DEF Errand, Handed, Got
    <3>2. runtimes[w.runtime].status \in {"open", "closed", "refused"}
      BY <2>3, <3>1 DEF Past, Whole, Opening
    <3>. QED BY <2>3, <3>1, <3>2 DEF Wait
  <2>4. ASSUME NEW m, Opened(r, m) PROVE registry'.map[r] # 0
    <3>1. Len(runtimes) \in Nat /\ registry \in RegistryType
      BY <1>1, Indices DEF RegistryOK, Form
    <3>2. Len(runtimes) + 1 \in Nat /\ Len(runtimes) + 1 # 0
      BY <3>1
    <3>. QED BY <1>1, <2>4, <3>1, <3>2, MapChanged DEF Opened
  <2>. QED BY <1>2, <2>1, <2>2, <2>3, <2>4 DEF Progress, AlreadyOpen
<1>8. w # Nothing /\ Waiting' = Waiting
  BY <1>1, IdleFields DEF Waiting
<1>9. Fills' => Fills
  BY <1>1, <1>4, <1>8 DEF Fills
<1>10. Recent'
  <2>1. Fills => rows[r].phase \in {"none", "lobby"}
    BY <1>1 DEF TaskOK, FewSeats, Little
  <2>. QED BY <1>1, <1>4, <1>5, <1>9, <2>1 DEF Recent, Errand
<1>11. Errand'
  <2>1. Marked' /\ Serves' /\ Pairs' /\ Undoes'
    BY <1>1, <1>4, <1>6, <1>8 DEF Errand, Marked, Serves, Pairs, Undoes
  <2>2. Vacant'
    BY <1>1, <1>4, <1>7, <1>8 DEF Errand, Vacant, Handed
  <2>3. Handed'
    BY <1>1, <1>4, <1>7 DEF Handed
  <2>. QED BY <1>10, <2>1, <2>2, <2>3 DEF Errand
<1>12. TicketForm' /\ \A s \in PublicRooms : Keeps(s)
  BY <1>1 DEF TicketForm, Keeps
<1>13. \A s \in PublicRooms : Exempt(s) => Exempt(s)'
  BY <1>1, <1>4 DEF Exempt
<1>. QED BY <1>3, <1>11, <1>12, <1>13, PlacesFollow

\* A room that is no lobby any more is not looked at again.
LEMMA SurvivesForm ==
  ASSUME Past, TicketForm, NEW r \in PublicRooms, r = task.room, Ticketed(r), NEW k \in DOMAIN runtimes,
         runtimes[k].room = r, runtimes[k].status \in {"open", "closed"}, Survives(k), rows' = rows
  PROVE  TicketForm' /\ Ticketed(r)' /\ \A s \in PublicRooms \ {r} : Keeps(s)
<1>1. CASE tickets' = tickets
  BY <1>1 DEF TicketForm, Keeps, Ticketed
<1>2. CASE runtimes[k].record.phase # "lobby" /\ Unwatched(r)
  <2>. DEFINE f == [i \in DOMAIN tickets |->
                     IF tickets[i].room = r THEN [tickets[i] EXCEPT !.watched = FALSE] ELSE tickets[i]]
  <2>1. tickets' = [i \in DOMAIN tickets |-> f[i]] /\ tickets' = f
    BY <1>2 DEF Unwatched
  <2>2. DOMAIN tickets' = DOMAIN tickets
    BY <2>1
  <2>3. \A i \in DOMAIN tickets : tickets[i] \in ToSet(tickets) /\ tickets'[i] \in ToSet(tickets')
    BY <2>2 DEF ToSet
  <2>4. \A i \in DOMAIN tickets : /\ tickets'[i].user = tickets[i].user
                                  /\ DOMAIN tickets'[i] = DOMAIN tickets[i]
                                  /\ tickets'[i].room = tickets[i].room
                                  /\ tickets[i].room # r => tickets'[i] = tickets[i]
    BY <2>1, <2>3 DEF TicketForm
  <2>5. \A i, j \in DOMAIN tickets : tickets[i] = tickets[j] => tickets'[i] = tickets'[j]
    BY <2>1
  <2>6. \A i \in DOMAIN tickets : tickets'[i].room \in PublicRooms \cup {NoRoom}
    BY <2>3, <2>4 DEF TicketForm
  <2>. HIDE DEF f
  <2>7. TicketForm'
    BY <2>1, <2>2, <2>4, <2>5, <2>6, TicketsRewritten
  <2>8. \A s \in PublicRooms \ {r} : Keeps(s)
    BY <2>3, <2>4 DEF Keeps, ToSet
  <2>9. rows[r].seats = {} \/ rows[r].phase # "lobby"
    BY <1>2 DEF Past, Whole, History, NoLater, Phases
  <2>10. ASSUME rows[r].phase = "playing", NEW u \in rows[r].seats
         PROVE  \E t \in ToSet(tickets') : t.user = u /\ t.room = r
    <3>1. PICK t \in ToSet(tickets) : t.user = u /\ t.room = r
      BY <2>10 DEF Ticketed
    <3>2. PICK i \in DOMAIN tickets : tickets[i] = t
      BY DEF ToSet
    <3>. QED BY <2>3, <2>4, <3>1, <3>2
  <2>11. Ticketed(r)'
    BY <2>9, <2>10 DEF Ticketed
  <2>. QED BY <2>7, <2>8, <2>11
<1>. QED BY <1>1, <1>2 DEF Survives

LEMMA CloseLobbyPlaces == ASSUME IInv, IInv', Past, Places, CloseLobby PROVE Past' /\ Places'
<1>. PICK r \in PublicRooms : r = task.room
  BY DEF IInv, TaskOK, TaskForm, CloseLobby
<1>. DEFINE k == task.wait.runtime
<1>1. /\ TicketForm /\ Errand /\ registry \in RegistryType /\ rows' = rows
      /\ task.at = "closing" /\ DOMAIN task = DOMAIN Idle /\ DOMAIN task.wait = DOMAIN Nothing
      /\ r \in PublicRooms /\ k # 0 /\ k \in DOMAIN runtimes /\ runtimes[k].room = r /\ Form
  BY DEF IInv, RegistryOK, Form, TaskOK, TaskForm, Got, CloseLobby, Places
<1>2. Plain /\ \A s \in PublicRooms : Ticketed(s) /\ ~Exempt(s)
  BY <1>1, CloseLobbyPlain, TaskIsElsewhere
<1>3. registry.deleting = {r} /\ runtimes[k].status \in {"open", "closed"}
  BY <1>1 DEF Errand, Marked, Handed
<1>4. CASE LobbyCloses(k)
  <2>1. /\ runtimes' = [runtimes EXCEPT ![k].status = "closed"]
        /\ registry' = [registry EXCEPT !.map[r] = 0]
        /\ task' = [task EXCEPT !.at = "deleting", !.wait.row = rows[r]]
        /\ tickets' = tickets
    BY <1>4 DEF CloseLobby
  <2>2. /\ task'.at = "deleting" /\ task'.room = r /\ task'.wait = [task.wait EXCEPT !.row = rows[r]]
    BY <1>1, <2>1, IdleFields
  <2>3. task'.wait.row = rows[r] /\ task'.wait.runtime = k /\ task'.wait.at = task.wait.at
    BY <1>1, <2>2, IdleFields
  <2>4. registry'.deleting = {r} /\ runtimes'[k].status = "closed"
    BY <1>1, <1>3, <2>1 DEF RegistryType, Form
  <2>5. Errand'
    BY <1>1, <2>1, <2>2, <2>3, <2>4, NoRowIsOK
       DEF Errand, Marked, Vacant, Serves, Pairs, Undoes, Recent, Handed, Fills
  <2>6. TicketForm' /\ \A s \in PublicRooms : Keeps(s)
    BY <1>1, <2>1 DEF TicketForm, Keeps
  <2>. QED BY <1>2, <2>5, <2>6, PlacesFollow
<1>5. CASE ~LobbyCloses(k)
  <2>1. registry' = [registry EXCEPT !.deleting = @ \ {r}] /\ Survives(k) /\ Swept
    BY <1>5 DEF CloseLobby
  <2>2. task'.at = "sweep" /\ task'.wait = Nothing /\ registry'.deleting = {}
    BY <1>1, <1>3, <2>1, IdleFields DEF Swept, RegistryType
  <2>3. Errand'
    BY <2>2, RestsErrand
  <2>4. TicketForm' /\ Ticketed(r)' /\ \A s \in PublicRooms \ {r} : Keeps(s)
    BY <1>1, <1>2, <1>3, <2>1, SurvivesForm
  <2>. QED BY <1>2, <2>3, <2>4, PlacesFollow
<1>. QED BY <1>4, <1>5

LEMMA DeleteLobbyPlaces == ASSUME IInv, IInv', Past, Places, DeleteLobby PROVE Past' /\ Places'
<1>. PICK r \in PublicRooms : r = task.room
  BY DEF IInv, TaskOK, TaskForm, DeleteLobby
<1>. DEFINE k == task.wait.runtime
            row == task.wait.row
            gone == row = NoRow \/ (row.phase = "lobby" /\ rows[r] # NoRow
                                    /\ rows[r].version = row.version)
<1>1. /\ TicketForm /\ Errand /\ registry \in RegistryType /\ Form
      /\ task.at = "deleting" /\ DOMAIN task = DOMAIN Idle
      /\ r \in Rooms /\ (k # 0 => k \in DOMAIN runtimes /\ runtimes[k].room = r)
      /\ UNCHANGED runtimes /\ Swept
      /\ registry' = [registry EXCEPT !.deleting = @ \ {r}]
  BY PublicIsRoom DEF IInv, RegistryOK, Form, TaskOK, TaskForm, Got, DeleteLobby, Places
<1>2. \A s \in PublicRooms : Ticketed(s) /\ ~Exempt(s)
  BY <1>1, TaskIsElsewhere
<1>3. k # 0 /\ registry.deleting = {r} /\ runtimes[k].status \in {"open", "closed"}
  BY <1>1 DEF Errand, Marked, Handed
<1>4. IF row.phase = "lobby" THEN Deleted(r, row.version) ELSE rows' = rows
  BY DEF DeleteLobby
<1>5. Plain
  <2>1. rows' = rows \/ rows' = [rows EXCEPT ![r] = NoRow]
    BY <1>4 DEF Deleted
  <2>2. registry'.map = registry.map
    BY <1>1 DEF RegistryType
  <2>. QED BY <1>1, <2>1, <2>2, GonePlain
<1>6. Errand'
  <2>1. task'.at = "sweep" /\ task'.wait = Nothing /\ registry'.deleting = {}
    BY <1>1, <1>3, IdleFields DEF Swept, RegistryType
  <2>. QED BY <2>1, RestsErrand
<1>7. CASE gone
  <2>1. Expired(r)
    BY <1>7 DEF DeleteLobby
  <2>2. /\ TicketForm'
        /\ \A t : t \in ToSet(tickets') <=> t \in ToSet(tickets) /\ t.room # r
    BY <1>1, <2>1, ExpiredCut
  <2>3. rows'[r].seats = {}
    <3>1. CASE row = NoRow
      BY <1>1, <1>4, <3>1, NoRowIsOK DEF Errand, Vacant
    <3>2. CASE row # NoRow
      BY <1>1, <1>4, <1>7, <3>2, NoRowIsOK DEF Deleted, Form
    <3>. QED BY <3>1, <3>2
  <2>4. Ticketed(r)'
    BY <2>3 DEF Ticketed
  <2>5. \A s \in PublicRooms \ {r} : Keeps(s)
    BY <2>2 DEF Keeps
  <2>. QED BY <1>2, <1>5, <1>6, <2>2, <2>4, <2>5, PlacesFollow
<1>8. CASE ~gone
  <2>1. Survives(k) /\ rows' = rows
    BY <1>4, <1>8 DEF DeleteLobby, Deleted
  <2>2. TicketForm' /\ Ticketed(r)' /\ \A s \in PublicRooms \ {r} : Keeps(s)
    BY <1>1, <1>2, <1>3, <2>1, SurvivesForm
  <2>. QED BY <1>2, <1>5, <1>6, <2>2, PlacesFollow
<1>. QED BY <1>7, <1>8

LEMMA RollbackPlaces == ASSUME IInv, IInv', Past, Places, Rollback PROVE Past' /\ Places'
<1>. DEFINE r == task.room
<1>1. /\ TicketForm /\ Errand /\ registry \in RegistryType /\ TaskOK /\ Fills
      /\ UNCHANGED <<rows, tickets>>
      /\ task.at = "rollback" /\ DOMAIN task = DOMAIN Idle /\ r \in PublicRooms /\ r \in Rooms
      /\ Evicted(r) /\ registry' = [registry EXCEPT !.map[r] = 0]
      /\ task' = [task EXCEPT !.at = "undo", !.wait = Wait("got", 0, rows[r])]
  BY PublicIsRoom DEF IInv, RegistryOK, Form, TaskOK, TaskForm, Rollback, Places, Fills
<1>2. Plain
  BY <1>1, EvictedPlain
<1>3. /\ task'.at = "undo" /\ task'.room = r
      /\ task'.wait.at = "got" /\ task'.wait.runtime = 0 /\ task'.wait.row = rows[r]
  BY <1>1, IdleFields DEF Wait
<1>4. registry'.deleting = registry.deleting
  BY <1>1 DEF RegistryType
<1>5. Errand'
  BY <1>1, <1>3, <1>4 DEF Errand, Marked, Vacant, Serves, Pairs, Undoes, Recent, Handed, Fills,
                          TaskOK, FewSeats
<1>6. TicketForm' /\ \A s \in PublicRooms : Keeps(s)
  BY <1>1 DEF TicketForm, Keeps
<1>7. \A s \in PublicRooms : Exempt(s) => Exempt(s)'
  BY <1>1, <1>3 DEF Exempt
<1>. QED BY <1>2, <1>5, <1>6, <1>7, PlacesFollow

LEMMA UndoPlaces == ASSUME IInv, IInv', Past, Places, Undo PROVE Past' /\ Places'
<1>. PICK r \in PublicRooms : r = task.room
  BY DEF IInv, TaskOK, TaskForm, Undo
<1>1. /\ TicketForm /\ Errand /\ registry \in RegistryType /\ Form
      /\ UNCHANGED <<runtimes, tickets>> /\ Done
      /\ task.at = "undo" /\ r \in PublicRooms /\ r \in Rooms
      /\ registry' = [registry EXCEPT !.deleting = @ \ {r}]
      /\ IF task.wait.row = NoRow THEN rows' = rows ELSE Deleted(r, task.wait.row.version)
  BY PublicIsRoom DEF IInv, RegistryOK, Form, TaskOK, TaskForm, Undo, Places
<1>2. Plain
  <2>1. rows' = rows \/ rows' = [rows EXCEPT ![r] = NoRow]
    BY <1>1 DEF Deleted
  <2>2. registry'.map = registry.map
    BY <1>1 DEF RegistryType
  <2>. QED BY <1>1, <2>1, <2>2, GonePlain
<1>3. Errand'
  <2>1. registry.deleting = {r} /\ registry'.deleting = {}
    BY <1>1 DEF Errand, Marked, RegistryType
  <2>. QED BY <1>1, <2>1, IdleFields, RestsErrand DEF Done
<1>4. rows'[r].seats = {}
  BY <1>1, NoRowIsOK DEF Errand, Undoes, Deleted, Form
<1>5. Ticketed(r)'
  BY <1>4 DEF Ticketed
<1>6. TicketForm' /\ \A s \in PublicRooms : Keeps(s)
  BY <1>1 DEF TicketForm, Keeps
<1>7. \A s \in PublicRooms \ {r} : ~Exempt(s)
  BY DEF Exempt
<1>. QED BY <1>2, <1>3, <1>5, <1>6, <1>7, PlacesFollow

\* The seat that is taken: the next of the two, in the room as it is stored.
Sits(k, r, u, next) ==
  /\ rows[r].phase = "lobby" /\ Up(k) /\ runtimes[k].record = rows[r]
  /\ next.phase = "lobby" /\ next.seats = rows[r].seats \cup {u}
  /\ rows'[r] = next /\ \A s \in Rooms \ {r} : rows'[s] = rows[s]
  /\ DOMAIN runtimes' = DOMAIN runtimes
  /\ runtimes'[k].record = next /\ runtimes'[k].status = "open" /\ runtimes'[k].room = r
  /\ \A j \in DOMAIN runtimes : j # k => runtimes'[j] = runtimes[j]

LEMMA SeatSits ==
  ASSUME IInv, Past, Seat, NEW r, r = task.room, NEW k, k = task.wait.runtime,
         NEW u, u = Waiting[IF Cardinality(rows[r].seats) = 1 THEN 2 ELSE 1].user
  PROVE  \E next : Sits(k, r, u, next)
<1>1. /\ Form /\ r \in PublicRooms /\ r \in Rooms /\ k \in DOMAIN runtimes /\ runtimes[k].room = r
      /\ Live(k) /\ Up(k) /\ Current(k) /\ Little(rows[r]) /\ IsRow(rows[r])
  BY PublicIsRoom DEF IInv, RegistryOK, RoomOK, RowOK, TaskOK, TaskForm, Got, Seat, Fills, FewSeats, Live, Up
<1>2. runtimes[k].record = rows[r] /\ rows[r].phase = "lobby"
  BY <1>1 DEF Past, History, Whole, Current, Phases, Little
<1>. DEFINE taken == [rows[r] EXCEPT !.seats = @ \cup {u}]
            next == [taken EXCEPT !.version = @ + 1]
            x == [runtimes[k] EXCEPT !.record = next]
<1>3. Saved(k, taken)
  BY <1>2 DEF Seat
<1>4. rows' = [rows EXCEPT ![r] = next] /\ runtimes' = [runtimes EXCEPT ![k] = x]
  BY <1>1, <1>3 DEF Saved
<1>5. next.phase = "lobby" /\ next.seats = rows[r].seats \cup {u}
  BY <1>1, <1>2 DEF IsRow, RowFields
<1>. HIDE DEF next
<1>6. x.record = next /\ x.status = "open" /\ x.room = r
  BY <1>1 DEF Form, Live
<1>. HIDE DEF x
<1>7. /\ DOMAIN runtimes' = DOMAIN runtimes /\ runtimes'[k] = x
      /\ \A j \in DOMAIN runtimes : j # k => runtimes'[j] = runtimes[j]
  BY <1>1, <1>4, OneChanged DEF Form
<1>8. rows'[r] = next /\ \A s \in Rooms \ {r} : rows'[s] = rows[s]
  BY <1>1, <1>4 DEF Form
<1>9. Sits(k, r, u, next)
  BY <1>1, <1>2, <1>5, <1>6, <1>7, <1>8 DEF Sits
<1>. QED BY <1>9

LEMMA SeatPast ==
  ASSUME IInv, IInv', Past, NEW r \in PublicRooms, NEW k \in DOMAIN runtimes, NEW u, NEW next,
         Sits(k, r, u, next), registry' = registry,
         \A j \in DOMAIN runtimes : runtimes[j].room = r => runtimes[j].record.phase \in {"none", "lobby"}
  PROVE  Past'
<1>. USE DEF Sits
<1>1. RegistryOK' /\ r \in Rooms
  BY PublicIsRoom DEF IInv
<1>2. Whole'
  <2>1. \A s \in Rooms : rows'[s] = NoRow \/ rows'[s].phase \in Phases
    <3>1. rows'[r].phase \in Phases
      BY DEF Phases
    <3>. QED BY <3>1 DEF Past, Whole
  <2>2. \A s \in Rooms : registry'.map[s] # 0 => runtimes'[registry'.map[s]].status # "refused"
    <3>1. \A s \in Rooms : registry.map[s] # 0 => registry.map[s] \in DOMAIN runtimes
      BY DEF IInv, RegistryOK, RoomOK
    <3>. QED BY <3>1 DEF Past, Whole
  <2>3. ASSUME NEW j \in DOMAIN runtimes'
        PROVE  /\ runtimes'[j].status \in {"opening", "open", "closed", "refused"}
               /\ runtimes'[j].status = "opening" => runtimes'[j].record = NoRow \/ runtimes'[j].record.phase \in Phases
               /\ runtimes'[j].status \in {"open", "closed"} => runtimes'[j].record.phase \in Phases
    <3>1. CASE j = k
      BY <3>1 DEF Phases
    <3>2. CASE j # k
      BY <3>2 DEF Past, Whole
    <3>. QED BY <3>1, <3>2
  <2>. QED BY <2>1, <2>2, <2>3 DEF Whole
<1>3. ASSUME NEW s \in PublicRooms, s # r PROVE History(s)'
  <2>1. History(s) /\ rows'[s] = rows[s]
    BY <1>3, PublicIsRoom DEF Past
  <2>. QED BY <1>3, <2>1 DEF History, Up
<1>4. History(r)'
  <2>1. ASSUME NEW j \in DOMAIN runtimes', runtimes'[j].room = r, j # k
        PROVE  ~Up(j)' /\ runtimes'[j].record.phase \in {"none", "lobby"}
    <3>1. Up(k)' /\ k \in DOMAIN runtimes'
      BY DEF Up
    <3>2. Up(j)' => j = k
      BY <1>1, <2>1, <3>1 DEF RegistryOK, RoomOK
    <3>. QED BY <2>1, <3>2
  <2>. QED BY <2>1 DEF History, NoLater
<1>. QED BY <1>2, <1>3, <1>4 DEF Past

LEMMA AssignedForm ==
  ASSUME TicketForm, Len(Waiting) >= 2, NEW r \in PublicRooms, tickets' = Assigned(r)
  PROVE  /\ TicketForm' /\ \A s \in PublicRooms : Keeps(s)
         /\ \A i \in {1, 2} : \E t \in ToSet(tickets') :
              t.user = Waiting[i].user /\ t.room = r /\ t.watched
<1>. DEFINE pair == {Waiting[1].user, Waiting[2].user}
            f == [i \in DOMAIN tickets |->
                   IF tickets[i].user \in pair THEN [tickets[i] EXCEPT !.room = r, !.watched = TRUE]
                   ELSE tickets[i]]
<1>1. tickets' = f /\ tickets' = [i \in DOMAIN tickets |-> f[i]] /\ DOMAIN tickets' = DOMAIN tickets
  BY DEF Assigned
<1>2. \A i \in DOMAIN tickets : tickets[i] \in ToSet(tickets) /\ tickets'[i] \in ToSet(tickets')
  BY <1>1 DEF ToSet
<1>3. /\ Waiting[1] \in ToSet(tickets) /\ Waiting[1].room = NoRoom
      /\ Waiting[2] \in ToSet(tickets) /\ Waiting[2].room = NoRoom
  BY WaitingTwo
<1>. HIDE DEF pair
<1>4. \A i \in DOMAIN tickets :
        /\ tickets'[i].user = tickets[i].user /\ DOMAIN tickets'[i] = DOMAIN tickets[i]
        /\ tickets'[i].room \in {tickets[i].room, r}
        /\ tickets[i].user \in pair => tickets'[i].room = r /\ tickets'[i].watched
        /\ tickets[i].user \notin pair => tickets'[i] = tickets[i]
  <2>1. TAKE i \in DOMAIN tickets
  <2>2. DOMAIN tickets[i] = {"user", "room", "watched"}
    BY <1>2 DEF TicketForm
  <2>3. CASE tickets[i].user \in pair
    <3>1. tickets'[i] = [tickets[i] EXCEPT !.room = r, !.watched = TRUE]
      BY <1>1, <2>3
    <3>. QED BY <2>2, <2>3, <3>1
  <2>4. CASE tickets[i].user \notin pair
    BY <1>1, <2>4
  <2>. QED BY <2>3, <2>4
<1>5. \A i, j \in DOMAIN tickets : tickets[i] = tickets[j] => tickets'[i] = tickets'[j]
  BY <1>1
<1>6. \A i \in DOMAIN tickets : tickets'[i].room \in PublicRooms \cup {NoRoom}
  BY <1>2, <1>4 DEF TicketForm
<1>. HIDE DEF f
<1>7. TicketForm'
  BY <1>1, <1>4, <1>5, <1>6, TicketsRewritten
<1>8. ASSUME NEW s \in PublicRooms, NEW t \in ToSet(tickets), t.room = s PROVE t \in ToSet(tickets')
  <2>1. t.user \notin pair
    BY <1>3, <1>8, LobbyAssumption DEF TicketForm, pair
  <2>2. PICK i \in DOMAIN tickets : tickets[i] = t
    BY DEF ToSet
  <2>. QED BY <1>2, <1>4, <2>1, <2>2
<1>9. ASSUME NEW w \in ToSet(tickets), w.user \in pair
      PROVE  \E t \in ToSet(tickets') : t.user = w.user /\ t.room = r /\ t.watched
  <2>1. PICK i \in DOMAIN tickets : tickets[i] = w
    BY DEF ToSet
  <2>. QED BY <1>2, <1>4, <1>9, <2>1
<1>10. Waiting[1].user \in pair /\ Waiting[2].user \in pair
  BY DEF pair
<1>. QED BY <1>3, <1>7, <1>8, <1>9, <1>10 DEF Keeps

LEMMA SeatPlaces == ASSUME IInv, IInv', Past, Places, Seat PROVE Past' /\ Places'
<1>. PICK r \in PublicRooms : r = task.room
  BY DEF IInv, TaskOK, TaskForm, Seat
<1>. DEFINE k == task.wait.runtime
            second == Cardinality(rows[r].seats) = 1
            u == Waiting[IF second THEN 2 ELSE 1].user
<1>1. /\ r \in Rooms /\ k # 0 /\ k \in DOMAIN runtimes /\ runtimes[k].room = r
      /\ task.at = "join" /\ DOMAIN task = DOMAIN Idle /\ Fills /\ TicketForm /\ Errand
      /\ registry' = registry
  BY PublicIsRoom DEF IInv, TaskOK, TaskForm, Got, Seat, Fills, Places
<1>2. PICK next : Sits(k, r, u, next)
  BY SeatSits
<1>3. Past'
  <2>1. \A j \in DOMAIN runtimes : runtimes[j].room = r => runtimes[j].record.phase \in {"none", "lobby"}
    BY <1>1 DEF Errand, Recent
  <2>. HIDE DEF k, u
  <2>. QED BY <1>1, <1>2, <2>1, SeatPast
<1>4. registry.deleting = {} /\ Len(Waiting) >= 2 /\ (rows[r].seats = {} \/ rows[r].seats = {Waiting[1].user})
  BY <1>1 DEF Errand, Marked, Pairs
<1>5. Cardinality({}) = 0 /\ Cardinality({Waiting[1].user}) = 1
  BY FS_EmptySet, FS_Singleton
<1>6. \A s \in PublicRooms \ {r} : Ticketed(s) /\ Moves(s)
  BY <1>2, PublicIsRoom DEF Places, Exempt, Sits, Moves
<1>7. CASE second
  <2>1. tickets' = Assigned(r) /\ Done
    BY <1>2, <1>7 DEF Seat, Sits
  <2>2. /\ TicketForm' /\ \A s \in PublicRooms : Keeps(s)
        /\ \A i \in {1, 2} : \E t \in ToSet(tickets') :
             t.user = Waiting[i].user /\ t.room = r /\ t.watched
    BY <1>1, <1>4, <2>1, AssignedForm
  <2>3. rows'[r].seats = {Waiting[1].user, Waiting[2].user}
    BY <1>2, <1>4, <1>5, <1>7 DEF Sits
  <2>4. Ticketed(r)'
    BY <2>2, <2>3 DEF Ticketed
  <2>5. \A s \in PublicRooms : Ticketed(s)'
    BY <1>6, <2>2, <2>4, TicketedStays
  <2>6. Errand'
    BY <1>1, <1>4, <2>1, IdleFields, RestsErrand DEF Done
  <2>. QED BY <1>3, <2>2, <2>5, <2>6 DEF Places
<1>8. CASE ~second
  <2>1. tickets' = tickets /\ task' = [task EXCEPT !.wait = Wait("opening", k, NoRow)]
    BY <1>2, <1>8 DEF Seat, Sits
  <2>2. /\ task'.at = "join" /\ task'.room = r /\ task'.user = task.user
        /\ task'.wait.at = "opening" /\ task'.wait.runtime = k
    BY <1>1, <2>1, IdleFields DEF Wait
  <2>3. rows'[r].seats = {Waiting[1].user} /\ Waiting' = Waiting
    BY <1>2, <1>4, <1>5, <1>8, <2>1 DEF Sits, Waiting
  <2>4. Recent'
    BY <1>1, <1>2, <2>2 DEF Errand, Recent, Sits
  <2>5. Errand'
    BY <1>1, <1>4, <2>2, <2>3, <2>4 DEF Errand, Marked, Vacant, Serves, Pairs, Undoes, Handed
  <2>6. TicketForm' /\ \A s \in PublicRooms : Keeps(s)
    BY <1>1, <2>1 DEF TicketForm, Keeps
  <2>7. \A s \in PublicRooms : Exempt(s)' \/ Ticketed(s)'
    <3>1. Exempt(r)'
      BY <2>2 DEF Exempt
    <3>. QED BY <1>6, <2>6, <3>1, TicketedStays
  <2>. QED BY <1>3, <2>5, <2>6, <2>7 DEF Places
<1>. QED BY <1>7, <1>8

-----------------------------------------------------------------------------
(* The theorem about the tickets                                           *)

LEMMA StartsSeated == ASSUME Init PROVE Seated
<1>1. PICK stored, q :
        /\ stored \in [Rooms -> Stored]
        /\ rows = stored
        /\ runtimes = [k \in 1..Len(q) |-> [room |-> q[k], status |-> "open", match |-> 1,
                                            record |-> stored[q[k]]]]
        /\ \A r \in Rooms : stored[r].phase # "playing" => registry.map[r] = 0
        /\ registry.deleting = {}
  <2>1. PICK stored \in [Rooms -> Stored] :
       LET live == {r \in Rooms : stored[r].phase = "playing"}
           recovered == SetToSeq(live)
       IN /\ rows = stored
          /\ runtimes = [k \in 1..Len(recovered) |->
                           [room |-> recovered[k], status |-> "open", match |-> 1,
                            record |-> stored[recovered[k]]]]
          /\ registry = [map |-> [r \in Rooms |->
                                   IF r \in live
                                   THEN CHOOSE k \in 1..Len(recovered) : recovered[k] = r ELSE 0],
                         deleting |-> {}, closing |-> FALSE]
    BY DEF Init
  <2>. QED BY <2>1
<1>2. /\ IInv /\ tickets = <<>> /\ task = Idle
  BY Starts DEF Init
<1>3. \A r \in Rooms : stored[r] = NoRow \/ (stored[r].phase \in {"playing", "revealed"} /\ stored[r].seats = {})
  BY <1>1 DEF Stored
<1>4. \A r \in Rooms : rows[r].seats = {}
  BY <1>1, <1>3, NoRowIsOK
<1>5. \A k \in DOMAIN runtimes : /\ runtimes[k].status = "open" /\ runtimes[k].room \in Rooms
                                 /\ runtimes[k].record = rows[runtimes[k].room]
  BY <1>1, <1>2 DEF IInv, RegistryOK, Form
<1>6. Whole
  <2>1. \A r \in Rooms : registry.map[r] # 0 => registry.map[r] \in DOMAIN runtimes
    BY <1>2 DEF IInv, RegistryOK, RoomOK
  <2>2. ASSUME NEW k \in DOMAIN runtimes PROVE runtimes[k].record.phase \in Phases
    <3>1. k \in 1..Len(q) /\ runtimes[k].room = q[k]
      BY <1>1
    <3>2. RoomOK(q[k]) /\ Up(k) /\ q[k] \in Rooms
      BY <1>2, <1>5, <3>1 DEF IInv, RegistryOK, Up
    <3>3. registry.map[q[k]] = k /\ k # 0
      BY <3>1, <3>2 DEF RoomOK
    <3>4. stored[q[k]].phase = "playing"
      BY <1>1, <3>2, <3>3
    <3>. QED BY <1>1, <3>1, <3>4 DEF Phases
  <2>. QED BY <1>1, <1>3, <1>5, <2>1, <2>2 DEF Whole, Phases
<1>7. \A r \in PublicRooms : History(r) /\ Ticketed(r)
  BY <1>4, <1>5, PublicIsRoom DEF History, Ticketed
<1>8. TicketForm
  <2>1. IsSequence(tickets)
    <3>1. tickets \in Seq({})
      BY <1>2
    <3>. QED BY <3>1 DEF IsSequence
  <2>2. ToSet(tickets) = {}
    BY <1>2 DEF ToSet
  <2>. QED BY <2>1, <2>2 DEF TicketForm
<1>9. Errand
  BY <1>1, <1>2, IdleFields DEF Errand, Marked, Vacant, Serves, Pairs, Undoes, Recent, Handed, Fills
<1>. QED BY <1>6, <1>7, <1>8, <1>9 DEF Seated, Past, Places

\* A server that closes stays so.
LEMMA ClosingStays == ASSUME IInv, [Next]_vars, registry.closing PROVE registry'.closing
<1>1. registry \in RegistryType
  BY DEF IInv, RegistryOK, Form
<1>2. ASSUME NEW g, \/ g = registry
                    \/ \E r, n : g = [registry EXCEPT !.map[r] = n]
                    \/ \E f : g = [registry EXCEPT !.map = f]
                    \/ \E S : g = [registry EXCEPT !.deleting = S]
                    \/ \E r, n, S : g = [registry EXCEPT !.map[r] = n, !.deleting = S]
      PROVE  g.closing
  BY <1>1, <1>2 DEF RegistryType
<1>3. CASE UNCHANGED registry
  BY <1>3
<1>4. ASSUME NEW r, NEW wait, NEW next, Progress(r, wait, next) PROVE registry'.closing
  BY <1>2, <1>4 DEF Progress, Opened
<1>5. CASE Answered
  BY <1>4, <1>5 DEF Answered
<1>6. ASSUME NEW c, Visited(c) PROVE registry'.closing
  BY <1>4, <1>6 DEF Visited
<1>7. ASSUME NEW k, Open(k) PROVE registry'.closing
  BY <1>2, <1>7 DEF Open
<1>8. ASSUME NEW old, CleanedUp(old) PROVE registry'.closing
  BY <1>2, <1>8 DEF CleanedUp
<1>9. CASE MarkLobby \/ NotSeated \/ DeleteLobby \/ Undo \/ Rollback \/ Closed
  BY <1>2, <1>9 DEF MarkLobby, NotSeated, DeleteLobby, Undo, Rollback, Closed
<1>10. CASE CloseLobby
  BY <1>2, <1>10 DEF CloseLobby
<1>11. CASE Close
  BY <1>11 DEF Close
<1>12. ASSUME NEW k, Move(k) PROVE registry' = registry
  BY <1>12 DEF Move
<1>13. ASSUME NEW r, SweepRoom(r) PROVE registry' = registry
  BY <1>13 DEF SweepRoom
<1>14. ASSUME NEW c, NEW r, Visit(c, r) PROVE registry' = registry
  BY <1>14 DEF Visit
<1>15. ASSUME NEW u, NEW action, Update(u, action) PROVE registry' = registry
  BY <1>15 DEF Update
<1>16. CASE CleanUp \/ Sweep \/ NoLobby \/ EndSweep \/ Resume \/ Queue \/ Failed \/ Created \/ Seat
  BY <1>3, <1>16 DEF CleanUp, Sweep, NoLobby, EndSweep, Resume, Queue, Failed, Created, Seat
<1>. QED BY <1>3, <1>5, <1>6, <1>7, <1>8, <1>9, <1>10, <1>11, <1>12, <1>13, <1>14, <1>15, <1>16
         DEF Next, vars

LEMMA SeatedSteps == ASSUME IInv, Seated, [Next]_vars PROVE Seated'
<1>1. IInv' /\ RegistryOK /\ Form
  BY Steps DEF IInv, RegistryOK
<1>2. CASE registry.closing
  BY <1>2, ClosingStays DEF Seated
<1>. SUFFICES ASSUME Past, Places PROVE registry'.closing \/ (Past' /\ Places')
  BY <1>2 DEF Seated
<1>3. ASSUME Plain, UNCHANGED <<task, tickets>>, registry'.deleting = registry.deleting
      PROVE  Past' /\ Places'
  BY <1>1, <1>3, OthersPlaces
<1>4. CASE UNCHANGED vars
  BY <1>3, <1>4, StillPlain DEF vars
<1>5. ASSUME NEW k \in DOMAIN runtimes, Move(k) PROVE Past' /\ Places'
  BY <1>3, <1>5, MovePlain DEF Move
<1>6. ASSUME NEW k \in DOMAIN runtimes, Open(k) PROVE Past' /\ Places'
  <2>1. registry'.deleting = registry.deleting
    BY <1>1, <1>6 DEF Open, Form, RegistryType
  <2>. QED BY <1>3, <1>6, <2>1, OpenPlain DEF Open
<1>7. ASSUME NEW c \in 1..MaxCalls, Visited(c) PROVE Past' /\ Places'
  <2>1. calls[c].room \in Rooms /\ rows' = rows
    BY <1>7 DEF IInv, CallsOK, Visited
  <2>2. PICK next : Progress(calls[c].room, calls[c].wait, next)
    BY <1>7 DEF Visited
  <2>3. registry'.deleting = registry.deleting
    BY <1>1, <2>2 DEF Progress, Opened, Form, RegistryType
  <2>. QED BY <1>3, <1>7, <2>1, <2>2, <2>3, ProgressPlain DEF Visited
<1>8. ASSUME NEW c, NEW r, Visit(c, r) PROVE Past' /\ Places'
  BY <1>3, <1>8, StillPlain DEF Visit
<1>9. CASE CleanUp
  BY <1>3, <1>9, StillPlain DEF CleanUp
<1>10. ASSUME NEW old \in cleaning, CleanedUp(old) PROVE Past' /\ Places'
  <2>1. /\ old.room \in Rooms /\ Evicted(old.room) /\ registry' = [registry EXCEPT !.map[old.room] = 0]
        /\ rows' = rows \/ rows' = [rows EXCEPT ![old.room] = NoRow]
    BY <1>1, <1>10 DEF CleanedUp, Deleted, Form
  <2>2. registry'.deleting = registry.deleting
    BY <1>1, <2>1 DEF Form, RegistryType
  <2>. QED BY <1>3, <1>10, <2>1, <2>2, EvictedPlain DEF CleanedUp
<1>11. ASSUME NEW r \in PublicRooms, SweepRoom(r) PROVE Past' /\ Places'
  BY <1>1, <1>11, SweepRoomPlaces
<1>12. ASSUME NEW u, NEW action, Update(u, action) PROVE Past' /\ Places'
  BY <1>1, <1>12, UpdatePlaces
<1>13. CASE Sweep \/ NoLobby \/ EndSweep \/ Failed
  BY <1>1, <1>13, RestsPlaces
<1>14. CASE MarkLobby \/ NotSeated
  BY <1>1, <1>14, MarksPlaces
<1>15. CASE CloseLobby
  BY <1>1, <1>15, CloseLobbyPlaces
<1>16. CASE DeleteLobby
  BY <1>1, <1>16, DeleteLobbyPlaces
<1>17. CASE Resume
  BY <1>1, <1>17, ResumePlaces
<1>18. CASE Queue
  BY <1>1, <1>18, QueuePlaces
<1>19. CASE Answered
  BY <1>1, <1>19, AnsweredPlaces
<1>20. CASE Created
  BY <1>1, <1>20, CreatedPlaces
<1>21. CASE Seat
  BY <1>1, <1>21, SeatPlaces
<1>22. CASE Rollback
  BY <1>1, <1>22, RollbackPlaces
<1>23. CASE Undo
  BY <1>1, <1>23, UndoPlaces
<1>24. CASE Close
  BY <1>1, <1>24 DEF Close, Form, RegistryType
<1>25. CASE Closed
  BY <1>25, ClosingStays DEF Closed
<1>. QED BY <1>4, <1>5, <1>6, <1>7, <1>8, <1>9, <1>10, <1>11, <1>12, <1>13, <1>14, <1>15, <1>16,
            <1>17, <1>18, <1>19, <1>20, <1>21, <1>22, <1>23, <1>24, <1>25 DEF Next

(***************************************************************************)
(* The second inductive invariant: what the task knows of its room and of  *)
(* the tickets stays true while it waits (matchmaking.ts, execute()).      *)
(***************************************************************************)
THEOREM PlacesAreSound == Spec => []Seated
<1>1. IInv /\ Seated /\ [Next]_vars => Seated'
  BY SeatedSteps
<1>. QED BY <1>1, StartsSeated, LobbyIsSound, PTL DEF Spec

(***************************************************************************)
(* An account has at most one place: whoever sits in a public room that is *)
(* not over holds the ticket that names it, and a sweep will come back to  *)
(* a lobby (docs/operations/zhihu-login-matchmaking.md).                   *)
(***************************************************************************)
THEOREM SeatsAreTicketed == Spec => []SeatIsTicketed
<1>1. Seated => SeatIsTicketed
  <2>. SUFFICES ASSUME Places, NEW r \in PublicRooms, task.room # r,
                       rows[r].phase \in {"lobby", "playing"}, NEW u \in rows[r].seats
                PROVE  \E i \in DOMAIN tickets : /\ tickets[i].user = u /\ tickets[i].room = r
                                                 /\ tickets[i].watched \/ rows[r].phase = "playing"
    BY DEF Seated, SeatIsTicketed
  <2>1. PICK t \in ToSet(tickets) : t.user = u /\ t.room = r /\ (t.watched \/ rows[r].phase = "playing")
    BY DEF Places, Exempt, Ticketed
  <2>2. PICK i \in DOMAIN tickets : tickets[i] = t
    BY DEF ToSet
  <2>. QED BY <2>1, <2>2
<1>. QED BY <1>1, PlacesAreSound, PTL
=============================================================================
