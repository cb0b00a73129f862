------------------------------ MODULE PublicLobby ------------------------------
(***************************************************************************)
(* The rooms of a server process and the public queue that fills some of   *)
(* them: src/server/room-registry.ts, with the runtimes it opens, closes   *)
(* and deletes, and src/server/matchmaking.ts, which pairs accounts and    *)
(* sweeps lobbies that nobody starts.  A call is cut where it awaits the   *)
(* store or a runtime; the store does what it is asked at once and answers *)
(* at any later time.                                                      *)
(*                                                                         *)
(* Abstractions: a runtime's job is one step (RoomRuntime), and of its     *)
(* record the version, the phase and the seats are kept; ages (two minutes *)
(* of a lobby, thirty seconds of a waiting page, the retention of a        *)
(* result) may be over at any moment; an admission is its join; sessions   *)
(* stay in force as long as the matches they are for.                      *)
(***************************************************************************)
EXTENDS Naturals, Sequences, SequencesExt, FiniteSets

CONSTANTS
  Users,
  PublicRooms,    \* the names that matchmaking draws, one a pairing
  Tables,         \* the names that players choose
  NoRoom,
  MaxRuntimes,    \* bound: runtimes opened
  MaxMatches,     \* bound: matches of one room
  MaxCalls        \* bound: calls from outside under way

ASSUME LobbyAssumption ==
  /\ MaxRuntimes \in Nat /\ MaxMatches \in Nat \ {0} /\ MaxCalls \in Nat
  /\ NoRoom \notin PublicRooms \cup Tables
  /\ PublicRooms \cap Tables = {} /\ IsFiniteSet(PublicRooms \cup Tables)

Rooms == PublicRooms \cup Tables

VARIABLES
  rows,       \* the room table of the store
  matches,    \* of each room: the matches begun under its name
  runtimes,   \* the runtime objects, in the order they were opened
  registry,   \* the registry: its map, the rooms being deleted, closing
  calls,      \* calls from outside that wait for the store
  cleaning,   \* the rooms, at their versions, that the cleanup still has to delete
  tickets,    \* the queue of matchmaking, oldest first
  task        \* the one matchmaking task that runs

vars == <<rows, matches, runtimes, registry, calls, cleaning, tickets, task>>

NoRow == [match |-> 0, version |-> 0, phase |-> "none", seats |-> {}]
Fresh(match) == [match |-> match, version |-> 0, phase |-> "lobby", seats |-> {}]

-----------------------------------------------------------------------------
(* The store and the runtimes                                              *)

Opening(k) == runtimes[k].status = "opening"
Live(k) == runtimes[k].status = "open"

\* save(): the row is replaced if it is there at the version of the runtime's record.
Current(k) ==
  LET row == rows[runtimes[k].room]
  IN row # NoRow /\ row.version = runtimes[k].record.version

\* A command is saved; a runtime that comes too late stops, and stays in the map.
Saved(k, record) ==
  LET next == [record EXCEPT !.version = @ + 1]
  IN IF Current(k)
     THEN /\ rows' = [rows EXCEPT ![runtimes[k].room] = next]
          /\ runtimes' = [runtimes EXCEPT ![k].record = next]
     ELSE /\ runtimes' = [runtimes EXCEPT ![k].status = "closed"]
          /\ rows' = rows

NextPhase(row) == IF row.phase = "lobby" THEN "playing" ELSE "revealed"

MayMove(r, row) ==
  \/ row.phase = "playing"
  \/ row.phase = "lobby" /\ (r \in Tables \/ Cardinality(row.seats) = 2)

\* The players start the match, or end it.
Move(k) ==
  /\ Live(k) /\ MayMove(runtimes[k].room, runtimes[k].record)
  /\ Saved(k, [runtimes[k].record EXCEPT !.phase = NextPhase(runtimes[k].record)])
  /\ UNCHANGED <<matches, registry, calls, cleaning, tickets, task>>

-----------------------------------------------------------------------------
(* The registry: getting and creating rooms                                *)

Wait(at, k, row) == [at |-> at, runtime |-> k, row |-> row]
Nothing == Wait("got", 0, NoRow)
NoCall == [room |-> NoRoom, wait |-> Nothing]
Answers == [at : {"opening", "got", "failed"}, runtime : 0..MaxRuntimes, row : {NoRow}]

\* RoomRuntime.open(): its promise is in the map before it has loaded anything.
Opened(r, match) ==
  /\ Len(runtimes) < MaxRuntimes
  /\ runtimes' = Append(runtimes, [room |-> r, status |-> "opening", match |-> match,
                                   record |-> rows[r]])
  /\ registry' = [registry EXCEPT !.map[r] = Len(runtimes) + 1]

\* The start of get(): nothing, a runtime, one to wait for, or the row as it is now.
Getting(r) ==
  LET k == registry.map[r]
  IN IF r \in registry.deleting THEN Nothing
     ELSE IF k = 0 THEN Wait("load", 0, rows[r])
     ELSE Wait(IF Opening(k) THEN "opening" ELSE "got", k, NoRow)

\* The start of create().
Creating(r) ==
  IF r \in registry.deleting \/ registry.map[r] # 0 THEN Nothing
  ELSE Wait("create", 0, rows[r])

\* Mutant: get() does not look at the map again.
AlreadyOpenBlind(r) == FALSE

\* Somebody has opened the room while its row was loaded.
AlreadyOpen(r) == registry.map[r] # 0

(***************************************************************************)
(* One answer to a caller of get() or create(): load() has answered and    *)
(* the map is looked at again, or the runtime is open, or could not be.  A *)
(* runtime that has stopped since is handed out like any other.            *)
(***************************************************************************)
Progress(r, wait, next) ==
  \/ /\ wait.at = "load" /\ wait.row = NoRow
     /\ next = Nothing
     /\ UNCHANGED <<matches, runtimes, registry>>
  \/ /\ wait.at = "load" /\ wait.row # NoRow
     /\ IF AlreadyOpen(r) THEN UNCHANGED <<runtimes, registry>> ELSE Opened(r, wait.row.match)
     /\ next = Wait("opening", registry'.map[r], NoRow)
     /\ UNCHANGED matches
  \/ /\ wait.at = "create" /\ (wait.row # NoRow \/ AlreadyOpen(r))
     /\ next = Nothing
     /\ UNCHANGED <<matches, runtimes, registry>>
  \/ /\ wait.at = "create" /\ wait.row = NoRow /\ ~AlreadyOpen(r)
     /\ Opened(r, matches[r] + 1)
     /\ matches' = [matches EXCEPT ![r] = @ + 1]
     /\ next = Wait("opening", registry'.map[r], NoRow)
  \/ /\ wait.at = "opening" /\ ~Opening(wait.runtime)
     /\ next = IF runtimes[wait.runtime].status = "refused" THEN Wait("failed", 0, NoRow)
               ELSE Wait("got", wait.runtime, NoRow)
     /\ UNCHANGED <<matches, runtimes, registry>>

(***************************************************************************)
(* The load inside open() has answered.  A room that was not there is      *)
(* created; a row that came into being meanwhile, or one of another match, *)
(* refuses the runtime, and so does a store that fails; whoever opened it  *)
(* takes it out of the map.                                                *)
(***************************************************************************)
Open(k) ==
  /\ Opening(k)
  /\ LET r == runtimes[k].room
         seen == runtimes[k].record
         record == IF seen = NoRow THEN Fresh(runtimes[k].match) ELSE seen
         conflict == IF seen = NoRow THEN rows[r] # NoRow ELSE seen.match # runtimes[k].match
     IN \E refused \in {conflict, TRUE} :
        IF refused
        THEN /\ runtimes' = [runtimes EXCEPT ![k].status = "refused"]
             /\ registry' = [registry EXCEPT !.map[r] = 0]
             /\ rows' = rows
        ELSE /\ runtimes' = [runtimes EXCEPT ![k].status = "open", ![k].record = record]
             /\ rows' = IF seen = NoRow THEN [rows EXCEPT ![r] = record] ELSE rows
             /\ registry' = registry
  /\ UNCHANGED <<matches, calls, cleaning, tickets, task>>

(***************************************************************************)
(* A player's page comes for a room, or founds one.  A call that is        *)
(* answered without the store, or that waits for a runtime another caller  *)
(* opens, changes nothing and is left out.                                 *)
(***************************************************************************)
Visit(c, r) ==
  /\ ~registry.closing
  /\ calls[c] = NoCall
  /\ \E wait \in {Getting(r)} \cup
                 (IF r \in Tables /\ matches[r] < MaxMatches THEN {Creating(r)} ELSE {}) :
       /\ wait.at \in {"load", "create"}
       /\ calls' = [calls EXCEPT ![c] = [room |-> r, wait |-> wait]]
  /\ UNCHANGED <<rows, matches, runtimes, registry, cleaning, tickets, task>>

Visited(c) ==
  /\ calls[c] # NoCall
  /\ \E next \in Answers : Progress(calls[c].room, calls[c].wait, next)
  /\ calls' = [calls EXCEPT ![c] = NoCall]
  /\ UNCHANGED <<rows, cleaning, tickets, task>>

-----------------------------------------------------------------------------
(* The registry: deleting rooms                                            *)

\* delete() in the store: the row goes if it is still there at the version that was read.
Deleted(r, version) ==
  rows' = IF rows[r] # NoRow /\ rows[r].version = version
          THEN [rows EXCEPT ![r] = NoRow] ELSE rows

\* A runtime is closed and taken out of the map; one that is opening is waited for.
Evicted(r) ==
  LET k == registry.map[r]
  IN /\ k # 0 => ~Opening(k)
     /\ runtimes' = IF k = 0 THEN runtimes ELSE [runtimes EXCEPT ![k].status = "closed"]

\* cleanupExpired() lists the results that are old enough,
CleanUp ==
  /\ ~registry.closing /\ cleaning = {}
  /\ LET revealed == {r \in Rooms : rows[r].phase = "revealed"}
     IN \E old \in (SUBSET revealed) \ {{}} :
          cleaning' = {[room |-> r, version |-> rows[r].version] : r \in old}
  /\ UNCHANGED <<rows, matches, runtimes, registry, calls, tickets, task>>

\* and deletes one after another.
CleanedUp(old) ==
  /\ old \in cleaning
  /\ cleaning' = cleaning \ {old}
  /\ Evicted(old.room)
  /\ registry' = [registry EXCEPT !.map[old.room] = 0]
  /\ Deleted(old.room, old.version)
  /\ UNCHANGED <<matches, calls, tickets, task>>

\* Mutant: a lobby is closed without asking whether it still is one.
LobbyClosesBlind(k) == Live(k)

\* closeIfLobby(): the ready commands that were queued before are through.
LobbyCloses(k) == Live(k) /\ runtimes[k].record.phase = "lobby"

-----------------------------------------------------------------------------
(* Matchmaking: one task runs at a time                                    *)

Idle == [at |-> "idle", user |-> "none", action |-> "none", checked |-> {}, room |-> NoRoom,
         wait |-> Nothing]

Ticket(u) == [user |-> u, room |-> NoRoom, watched |-> FALSE]
TicketsOf(users) == {t \in ToSet(tickets) : t.user \in users}
TicketsFor(r) == {t \in ToSet(tickets) : t.room = r}

\* The elements of q that are in S, in their order: the first, the second and so on.  It is
\* written out, for SelectSeq takes an operator and could not be proved about.
InOrder(q, S) ==
  LET places == {i \in DOMAIN q : q[i] \in S}
      Place(n) == CHOOSE i \in places : Cardinality({j \in places : j <= i}) = n
  IN [n \in 1..Cardinality(places) |-> q[Place(n)]]

Without(gone) == InOrder(tickets, ToSet(tickets) \ gone)
Waiting == InOrder(tickets, {t \in ToSet(tickets) : t.room = NoRoom})

Done == task' = Idle

\* The timer asks for a sweep; a task of an account begins with one.
Sweep ==
  /\ task.at = "idle" /\ ~registry.closing
  /\ task' = [Idle EXCEPT !.at = "sweep"]
  /\ UNCHANGED <<rows, matches, runtimes, registry, calls, cleaning, tickets>>

\* A lobby that was assigned two minutes ago is looked at, once.
SweepRoom(r) ==
  /\ task.at = "sweep" /\ r \notin task.checked
  /\ \E i \in DOMAIN tickets : tickets[i].room = r /\ tickets[i].watched
  /\ task' = [task EXCEPT !.at = "lobby", !.room = r, !.checked = @ \cup {r}, !.wait = Getting(r)]
  /\ UNCHANGED <<rows, matches, runtimes, registry, calls, cleaning, tickets>>

\* The runtime is there: deleteLobby() gets it again and marks the room.
MarkLobby ==
  /\ task.at = "lobby" /\ task.wait.at = "got" /\ task.wait.runtime # 0
  /\ task' = [task EXCEPT !.at = "closing"]
  /\ registry' = [registry EXCEPT !.deleting = @ \cup {task.room}]
  /\ UNCHANGED <<rows, matches, runtimes, calls, cleaning, tickets>>

\* What the sweep makes of a room: its tickets go, or are not looked at again.
Expired(r) == tickets' = Without(TicketsFor(r))

Unwatched(r) ==
  tickets' = [i \in DOMAIN tickets |->
                IF tickets[i].room = r THEN [tickets[i] EXCEPT !.watched = FALSE] ELSE tickets[i]]

Swept == task' = [task EXCEPT !.at = "sweep", !.room = NoRoom, !.wait = Nothing]

Survives(k) ==
  IF runtimes[k].record.phase = "lobby" THEN tickets' = tickets ELSE Unwatched(task.room)

NoLobby ==
  /\ task.at = "lobby" /\ task.wait = Nothing
  /\ Expired(task.room) /\ Swept
  /\ UNCHANGED <<rows, matches, runtimes, registry, calls, cleaning>>

CloseLobby ==
  /\ task.at = "closing"
  /\ LET k == task.wait.runtime
         r == task.room
     IN IF LobbyCloses(k)
        THEN /\ runtimes' = [runtimes EXCEPT ![k].status = "closed"]
             /\ registry' = [registry EXCEPT !.map[r] = 0]
             /\ task' = [task EXCEPT !.at = "deleting", !.wait.row = rows[r]]
             /\ tickets' = tickets
        ELSE /\ registry' = [registry EXCEPT !.deleting = @ \ {r}]
             /\ Survives(k) /\ Swept
             /\ runtimes' = runtimes
  /\ UNCHANGED <<rows, matches, calls, cleaning>>

\* The row that was read is deleted if it is a lobby's and still the same.
DeleteLobby ==
  /\ task.at = "deleting"
  /\ LET r == task.room
         row == task.wait.row
         gone == row = NoRow \/ (row.phase = "lobby" /\ rows[r] # NoRow
                                 /\ rows[r].version = row.version)
     IN /\ IF row.phase = "lobby" THEN Deleted(r, row.version) ELSE rows' = rows
        /\ IF gone THEN Expired(r) ELSE Survives(task.wait.runtime)
        /\ registry' = [registry EXCEPT !.deleting = @ \ {r}]
  /\ Swept
  /\ UNCHANGED <<matches, runtimes, calls, cleaning>>

\* The pages that have not been heard of, and those whose match is long over.
Lapsed ==
  SUBSET {tickets[i].user : i \in {j \in DOMAIN tickets :
            tickets[j].room # NoRoom => rows[tickets[j].room].phase \in {"none", "revealed"}}}

EndSweep ==
  /\ task.at = "sweep"
  /\ \E users \in Lapsed : tickets' = Without(TicketsOf(users))
  /\ Done
  /\ UNCHANGED <<rows, matches, runtimes, registry, calls, cleaning>>

\* update(): a page polls, joins or cancels; a ticket that names a room is resumed.
Update(u, action) ==
  /\ task.at = "sweep"
  /\ \E users \in Lapsed : tickets' = Without(TicketsOf(users))
  /\ LET serving == [Idle EXCEPT !.at = "queue", !.user = u, !.action = action]
     IN \/ /\ \A i \in DOMAIN tickets' : tickets'[i].user = u => tickets'[i].room = NoRoom
           /\ task' = serving
        \/ \E r \in PublicRooms :
             /\ \E i \in DOMAIN tickets' : tickets'[i].user = u /\ tickets'[i].room = r
             /\ task' = [serving EXCEPT !.at = "resume", !.room = r, !.wait = Getting(r)]
  /\ UNCHANGED <<rows, matches, runtimes, registry, calls, cleaning>>

\* The match goes on, or the account has none any more.
Resume ==
  /\ task.at = "resume" /\ task.wait.at = "got"
  /\ LET k == task.wait.runtime
     IN IF k # 0 /\ runtimes[k].record.phase # "revealed"
        THEN Done /\ tickets' = tickets
        ELSE /\ task' = [task EXCEPT !.at = "queue", !.room = NoRoom, !.wait = Nothing]
             /\ tickets' = Without(TicketsOf({task.user}))
  /\ UNCHANGED <<rows, matches, runtimes, registry, calls, cleaning>>

Queued(u, action) ==
  IF action = "cancel" THEN Without(TicketsOf({u}))
  ELSE IF action = "join" /\ \A i \in DOMAIN tickets : tickets[i].user # u
       THEN Append(tickets, Ticket(u))
  ELSE tickets

(***************************************************************************)
(* The account joins, waits on or leaves; with two that wait a room is     *)
(* created for them, under a name that may by chance be taken.             *)
(***************************************************************************)
Queue ==
  /\ task.at = "queue"
  /\ tickets' = Queued(task.user, task.action)
  /\ LET waits == \E i \in DOMAIN tickets' : tickets'[i].user = task.user
     IN IF waits /\ Len(Waiting') >= 2
        THEN \E r \in PublicRooms :
               /\ matches[r] = 0 \/ registry.map[r] # 0
               /\ task' = [task EXCEPT !.at = "create", !.room = r, !.wait = Creating(r)]
        ELSE Done
  /\ UNCHANGED <<rows, matches, runtimes, registry, calls, cleaning>>

\* The registry answers the task.
Answered ==
  /\ task.wait.at \in {"load", "create", "opening"}
  /\ task.at \in {"lobby", "resume", "create", "join"}
  /\ \E next \in Answers :
       /\ Progress(task.room, task.wait, next)
       /\ task' = [task EXCEPT !.wait = next]
  /\ UNCHANGED <<rows, calls, cleaning, tickets>>

\* A failure ends the task, and no ticket is changed.
Failed ==
  /\ \/ task.at \in {"lobby", "resume", "create"} /\ task.wait.at = "failed"
     \/ task.at = "create" /\ task.wait = Nothing
  /\ Done
  /\ UNCHANGED <<rows, matches, runtimes, registry, calls, cleaning, tickets>>

\* The room is there: the first of the two is admitted.
Created ==
  /\ task.at = "create" /\ task.wait.at = "got" /\ task.wait.runtime # 0
  /\ task' = [task EXCEPT !.at = "join", !.wait = Getting(task.room)]
  /\ UNCHANGED <<rows, matches, runtimes, registry, calls, cleaning, tickets>>

Assigned(r) ==
  LET pair == {Waiting[1].user, Waiting[2].user}
  IN [i \in DOMAIN tickets |->
        IF tickets[i].user \in pair THEN [tickets[i] EXCEPT !.room = r, !.watched = TRUE]
        ELSE tickets[i]]

\* A seat for the first, then for the second; with both taken the tickets name the room.
Seat ==
  /\ task.at = "join" /\ task.wait.at = "got" /\ task.wait.runtime # 0
  /\ LET k == task.wait.runtime
         record == runtimes[k].record
         second == Cardinality(record.seats) = 1
         u == Waiting[IF second THEN 2 ELSE 1].user
     IN /\ Live(k) /\ Current(k)
        /\ Saved(k, [record EXCEPT !.seats = @ \cup {u}])
        /\ IF second THEN tickets' = Assigned(task.room) /\ Done
           ELSE /\ task' = [task EXCEPT !.wait = Wait("opening", k, NoRow)]
                /\ tickets' = tickets
  /\ UNCHANGED <<matches, registry, calls, cleaning>>

\* Mutant: the room of a failed pairing stays.
NotSeatedKept ==
  /\ task.at = "join" /\ task.wait.at \in {"got", "failed"}
  /\ Done
  /\ UNCHANGED <<rows, matches, runtimes, registry, calls, cleaning, tickets>>

\* An admission fails: the room that was created goes again.
NotSeated ==
  /\ task.at = "join" /\ task.wait.at \in {"got", "failed"}
  /\ task' = [task EXCEPT !.at = "rollback"]
  /\ registry' = [registry EXCEPT !.deleting = @ \cup {task.room}]
  /\ UNCHANGED <<rows, matches, runtimes, calls, cleaning, tickets>>

\* delete(): the runtime is closed, then the row read,
Rollback ==
  /\ task.at = "rollback"
  /\ Evicted(task.room)
  /\ registry' = [registry EXCEPT !.map[task.room] = 0]
  /\ task' = [task EXCEPT !.at = "undo", !.wait = Wait("got", 0, rows[task.room])]
  /\ UNCHANGED <<rows, matches, calls, cleaning, tickets>>

\* and deleted.
Undo ==
  /\ task.at = "undo"
  /\ IF task.wait.row = NoRow THEN rows' = rows ELSE Deleted(task.room, task.wait.row.version)
  /\ registry' = [registry EXCEPT !.deleting = @ \ {task.room}]
  /\ Done
  /\ UNCHANGED <<matches, runtimes, calls, cleaning, tickets>>

-----------------------------------------------------------------------------
(* Start and stop                                                          *)

\* A match that has started was saved three times at least: for its seats and its start.
Stored == {NoRow} \cup [match : {1}, version : {3}, phase : {"playing", "revealed"}, seats : {{}}]

(***************************************************************************)
(* initialize(): every room that is not over is opened before the server   *)
(* listens.  The tickets of an earlier process are gone, and its players'  *)
(* seats with them (docs/operations: one process, no failover).            *)
(***************************************************************************)
Init ==
  /\ \E stored \in [Rooms -> Stored] :
       LET live == {r \in Rooms : stored[r].phase = "playing"}
           recovered == SetToSeq(live)
       IN /\ rows = stored
          /\ matches = [r \in Rooms |-> IF rows[r] = NoRow THEN 0 ELSE 1]
          /\ runtimes = [k \in 1..Len(recovered) |->
                           [room |-> recovered[k], status |-> "open", match |-> 1,
                            record |-> stored[recovered[k]]]]
          /\ registry = [map |-> [r \in Rooms |->
                                   IF r \in live
                                   THEN CHOOSE k \in 1..Len(recovered) : recovered[k] = r ELSE 0],
                         deleting |-> {}, closing |-> FALSE]
  /\ calls = [c \in 1..MaxCalls |-> NoCall] /\ cleaning = {} /\ tickets = <<>> /\ task = Idle

\* Matchmaking is closed first; then, after the cleanup, the runtimes that are there.
Close ==
  /\ task = Idle /\ ~registry.closing
  /\ registry' = [registry EXCEPT !.closing = TRUE]
  /\ tickets' = <<>>
  /\ UNCHANGED <<rows, matches, runtimes, calls, cleaning, task>>

Closed ==
  /\ registry.closing /\ cleaning = {}
  /\ \A r \in Rooms : registry.map[r] # 0 => ~Opening(registry.map[r])
  /\ runtimes' = [k \in DOMAIN runtimes |->
                    IF registry.map[runtimes[k].room] = k
                    THEN [runtimes[k] EXCEPT !.status = "closed"] ELSE runtimes[k]]
  /\ registry' = [registry EXCEPT !.map = [r \in Rooms |-> 0]]
  /\ UNCHANGED <<rows, matches, calls, cleaning, tickets, task>>

Next ==
  \/ \E k \in DOMAIN runtimes : Move(k) \/ Open(k)
  \/ \E r \in PublicRooms : SweepRoom(r)
  \/ \E c \in 1..MaxCalls : Visited(c) \/ \E r \in Rooms : Visit(c, r)
  \/ CleanUp \/ \E old \in cleaning : CleanedUp(old)
  \/ \E u \in Users, action \in {"join", "poll", "cancel"} : Update(u, action)
  \/ Sweep \/ MarkLobby \/ NoLobby \/ CloseLobby \/ DeleteLobby \/ EndSweep
  \/ Resume \/ Queue \/ Answered \/ Failed \/ Created \/ Seat \/ NotSeated
  \/ Rollback \/ Undo
  \/ Close \/ Closed

Spec == Init /\ [][Next]_vars

-----------------------------------------------------------------------------
(* Properties                                                              *)

(***************************************************************************)
(* However calls for a room, its cleanup and its deletion overlap, at most *)
(* one runtime of it is live: two would answer from different records.     *)
(***************************************************************************)
OneLive ==
  \A j, k \in DOMAIN runtimes :
    Live(j) /\ Live(k) /\ runtimes[j].room = runtimes[k].room => j = k

(***************************************************************************)
(* docs/operations/zhihu-login-matchmaking.md: an account has at most one  *)
(* place.  Whoever sits in a public room that is not over holds the ticket *)
(* that names it, so that nobody is paired anew; and as long as the room   *)
(* is a lobby a sweep will come back to it.  Only the room that is being   *)
(* filled or taken back is excepted.                                       *)
(***************************************************************************)
SeatIsTicketed ==
  registry.closing \/
  \A r \in PublicRooms : rows[r].phase \in {"lobby", "playing"} /\ task.room # r =>
    \A u \in rows[r].seats :
      \E i \in DOMAIN tickets :
        /\ tickets[i].user = u /\ tickets[i].room = r
        /\ tickets[i].watched \/ rows[r].phase = "playing"

(***************************************************************************)
(* room-runtime.ts, closeIfLobby(): "queued ready commands win in order".  *)
(* A match that has started keeps its row and its runtime until it is over *)
(* or the server closes, though the sweep, the cleanup and a failed        *)
(* pairing decide to delete the room before they do.                       *)
(***************************************************************************)
MatchStays ==
  \A k \in DOMAIN runtimes :
    Live(k) /\ runtimes[k].record.phase = "playing" =>
      /\ rows'[runtimes[k].room] # NoRow
      /\ runtimes'[k].status = "open" \/ registry.closing

StartedStays == [][MatchStays]_vars
=============================================================================
