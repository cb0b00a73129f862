------------------------------ MODULE Admission ------------------------------
(***************************************************************************)
(* Entering a room: AdmissionService.admit of server/admission-service.ts  *)
(* over SessionService of server/session.ts and the session table of       *)
(* repository/sqlite-persistence.ts.  A request id is turned into one      *)
(* session and one join command, whatever is repeated; sessions are        *)
(* authorised, touched, revoked, and cleaned up meanwhile.                 *)
(*                                                                         *)
(* Abstractions: there is one room, and of its runtime only what a join    *)
(* meets (RoomRuntime has the rest); a session is named by the request id  *)
(* it is derived from, and its token is always the right one.              *)
(***************************************************************************)
EXTENDS Naturals, FiniteSets

CONSTANTS
  Requests,       \* request ids
  NoRecord,
  Modes,          \* as what one may ask to enter
  Capacity,       \* humans at the table
  AdmissionTtl, SessionTtl, TouchInterval,
  Closes,         \* may the runtime stop while its room stays
  MaxLives,       \* bound: how often the room is created
  CallIds,        \* bound: as many calls wait at the same time
  MaxNow          \* bound: the clock

ASSUME AdmissionAssumption ==
  /\ IsFiniteSet(Requests) /\ Modes \subseteq {"player", "spectator"}
  /\ Capacity \in Nat \ {0} /\ Closes \in BOOLEAN
  /\ AdmissionTtl \in Nat \ {0} /\ SessionTtl \in Nat /\ AdmissionTtl < SessionTtl
  /\ TouchInterval \in Nat \ {0}
  /\ MaxLives \in Nat \ {0} /\ MaxNow \in Nat

VARIABLES
  table,      \* the session of each request
  room,       \* life, row, runtime, phase, members, receipts of joins
  calls,      \* what waits for a store or the room
  now,        \* Date.now
  past        \* of the properties: what was handed out, and what was cut off

vars == <<table, room, calls, now, past>>

-----------------------------------------------------------------------------

Session ==
  [viewer : Modes, created : 0..MaxNow, seen : 0..MaxNow,
   revoked : {"no", "refused", "stopped", "admin"}]

Expires(record) == record.created + SessionTtl

Ended(record, time) == record.revoked # "no" \/ Expires(record) <= time

InForce(q) == table[q] # NoRecord /\ ~Ended(table[q], now)

\* Names for another call.
Free == {i \in CallIds : \A c \in calls : c.id # i}

NewRoom(life) ==
  [life |-> life, there |-> TRUE, open |-> TRUE, phase |-> "lobby", members |-> {},
   receipts |-> [q \in Requests |-> "none"]]

Admission(i, q, mode, life) ==
  [kind |-> "admission", id |-> i, req |-> q, mode |-> mode, at |-> "issue",
   life |-> life, time |-> 0]

Init ==
  /\ table = [q \in Requests |-> NoRecord]
  /\ room = [NewRoom(0) EXCEPT !.there = FALSE, !.open = FALSE]
  /\ calls = {}
  /\ now = 0
  /\ past = [handed |-> {}, cut |-> {}]

-----------------------------------------------------------------------------
(* Admission                                                               *)

\* A room is created by the first who asks for it.
CreateRoom(i, q, mode) ==
  /\ ~room.there /\ room.life < MaxLives
  /\ room' = NewRoom(room.life + 1)
  /\ calls' = calls \cup {Admission(i, q, mode, room.life + 1)}
  /\ UNCHANGED <<table, now, past>>

\* The registry hands out the runtime it has, a stopped one too.
JoinRoom(i, q, mode) ==
  /\ room.there
  /\ calls' = calls \cup {Admission(i, q, mode, room.life)}
  /\ UNCHANGED <<table, room, now, past>>

\* The time of issue() matters to the find only.
Goes(c, at) == calls' = (calls \ {c}) \cup {[c EXCEPT !.at = at, !.time = 0]}

\* Mutant: the seat can wait.
OnwardUnseated(c) == "welcome"

\* A player joins next; a spectator is in.
Onward(c) == IF c.mode = "player" THEN "dispatch" ELSE "welcome"

\* The first half of issue(): the row is inserted, unless there is one or there is no room.
Issue(c) ==
  /\ c \in calls /\ c.kind = "admission" /\ c.at = "issue"
  /\ \/ /\ ~room.there
        /\ calls' = calls \ {c}
        /\ UNCHANGED table
     \/ /\ room.there /\ table[c.req] = NoRecord
        /\ table' = [table EXCEPT ![c.req] =
             [viewer |-> c.mode, created |-> now, seen |-> now, revoked |-> "no"]]
        /\ Goes(c, Onward(c))
     \/ /\ room.there /\ table[c.req] # NoRecord
        /\ calls' = (calls \ {c}) \cup {[c EXCEPT !.at = "find", !.time = now]}
        /\ UNCHANGED table
  /\ UNCHANGED <<room, now, past>>

\* The second half: a repeated request gets the session of the first, for a while.
Found(c) ==
  /\ c \in calls /\ c.kind = "admission" /\ c.at = "find"
  /\ LET record == table[c.req]
     IN IF /\ record # NoRecord /\ record.viewer = c.mode
           /\ ~Ended(record, c.time) /\ c.time <= record.created + AdmissionTtl
        THEN Goes(c, Onward(c))
        ELSE calls' = calls \ {c}
  /\ UNCHANGED <<table, room, now, past>>

\* Mutant: whoever asks sits down.
JoinedCrowded(q) ==
  IF room.receipts[q] # "none" \/ room.phase = "full" THEN room
  ELSE IF room.phase = "lobby"
  THEN [room EXCEPT !.members = @ \cup {q}, !.receipts[q] = "joined"]
  ELSE [room EXCEPT !.receipts[q] = "refused"]

\* The join command in the room: decided once, and its receipt is kept; a room that has all
\* the receipts it can keep decides nothing any more.
Joined(q) ==
  IF room.receipts[q] # "none" \/ room.phase = "full" THEN room
  ELSE IF room.phase = "lobby" /\ Cardinality(room.members) < Capacity
  THEN [room EXCEPT !.members = @ \cup {q}, !.receipts[q] = "joined"]
  ELSE [room EXCEPT !.receipts[q] = "refused"]

\* Mutant: a repeated join is judged anew, and its player is seated already.
VerdictAnew(q) ==
  IF room.receipts[q] = "none" /\ Joined(q).receipts[q] = "joined" THEN "welcome" ELSE "refused"

Verdict(q) == IF Joined(q).receipts[q] = "joined" THEN "welcome" ELSE "refused"

\* Mutant: a refusal that is repeated has nothing to revoke.
DispatchTold(c) ==
  /\ c \in calls /\ c.kind = "admission" /\ c.at = "dispatch"
  /\ \/ /\ room.open /\ room.life = c.life
        /\ room' = Joined(c.req)
        /\ IF room.receipts[c.req] = "refused" THEN calls' = calls \ {c}
           ELSE Goes(c, Verdict(c.req))
     \/ /\ ~(room.open /\ room.life = c.life)
        /\ Goes(c, "stopped")
        /\ UNCHANGED room
  /\ UNCHANGED <<table, now, past>>

\* dispatch() on the runtime the call was given; a failing store decides nothing.
Dispatch(c) ==
  /\ c \in calls /\ c.kind = "admission" /\ c.at = "dispatch"
  /\ \/ /\ room.open /\ room.life = c.life
        /\ room' = Joined(c.req)
        /\ Goes(c, Verdict(c.req))
     \/ /\ room.open /\ room.life = c.life /\ room.receipts[c.req] = "none" /\ room.phase # "full"
        /\ calls' = calls \ {c}
        /\ UNCHANGED room
     \/ /\ ~(room.open /\ room.life = c.life)
        /\ Goes(c, "stopped")
        /\ UNCHANGED room
  /\ UNCHANGED <<table, now, past>>

RevokedBy(q, whom) ==
  IF table[q] # NoRecord /\ table[q].revoked = "no" THEN [table EXCEPT ![q].revoked = whom]
  ELSE table

\* A refusal for good ends the session, also that of a runtime that has stopped, and of one
\* that has stopped since with its room.
Revoke(c) ==
  /\ c \in calls /\ c.kind = "admission" /\ c.at \in {"refused", "stopped"}
  /\ calls' = calls \ {c}
  /\ table' = RevokedBy(c.req, IF c.life = room.life THEN c.at ELSE "stopped")
  /\ UNCHANGED <<room, now, past>>

\* The answer: the session's token is the client's.
HandOut(c) ==
  /\ c \in calls /\ c.kind = "admission" /\ c.at = "welcome"
  /\ calls' = calls \ {c}
  /\ past' = IF room.there /\ c.life = room.life
             THEN [past EXCEPT !.handed = @ \cup {<<c.req, c.mode>>}]
             ELSE past
  /\ UNCHANGED <<table, room, now>>

\* Whose join or revocation is lost with these calls.
Lost(failed) ==
  {c.req : c \in {d \in failed : /\ d.kind = "admission"
                                 /\ d.at \in {"dispatch", "refused", "stopped"}}}

\* The session table fails a call of an admission.
StoreFails(c) ==
  /\ c \in calls /\ c.kind = "admission" /\ c.at \in {"issue", "find", "refused", "stopped"}
  /\ calls' = calls \ {c}
  /\ past' = [past EXCEPT !.cut = @ \cup Lost({c})]
  /\ UNCHANGED <<table, room, now>>

-----------------------------------------------------------------------------
(* Sessions in use                                                         *)

\* authorize() and verify() read the session first.
Authorize(i, q) ==
  /\ \E mode \in Modes : <<q, mode>> \in past.handed
  /\ table[q] # NoRecord
  /\ calls' = calls \cup {[kind |-> "authorization", id |-> i, req |-> q, record |-> table[q]]}
  /\ UNCHANGED <<table, room, now, past>>

\* The table takes a touch of a session in force that was not seen as late as this.
Touches(q) == InForce(q) /\ table[q].seen < now

\* Mutant: what was read is written back.
TouchedWhole(c) ==
  IF table[c.req] = NoRecord THEN table
  ELSE [table EXCEPT ![c.req] = [c.record EXCEPT !.seen = now]]

Touched(c) == IF Touches(c.req) THEN [table EXCEPT ![c.req].seen = now] ELSE table

\* activate(): what was read decides, and the touch where one is due.
Activates(c) ==
  /\ ~Ended(c.record, now)
  /\ now < c.record.seen + TouchInterval \/ Touches(c.req)

Activate(c) ==
  /\ c \in calls /\ c.kind = "authorization"
  /\ calls' = calls \ {c}
  /\ table' = IF ~Ended(c.record, now) /\ now >= c.record.seen + TouchInterval THEN Touched(c)
              ELSE table
  /\ UNCHANGED <<room, now, past>>

AdminRevoke(q) ==
  /\ InForce(q)
  /\ table' = RevokedBy(q, "admin")
  /\ UNCHANGED <<room, calls, now, past>>

\* deleteExpired()
CleanUp ==
  /\ table' = [q \in Requests |-> IF table[q] # NoRecord /\ Ended(table[q], now) THEN NoRecord
                                 ELSE table[q]]
  /\ table' # table
  /\ UNCHANGED <<room, calls, now, past>>

-----------------------------------------------------------------------------
(* The room and the process                                                *)

\* The members are ready.
Start ==
  /\ room.open /\ room.phase = "lobby" /\ room.members # {}
  /\ room' = [room EXCEPT !.phase = "started"]
  /\ UNCHANGED <<table, calls, now, past>>

\* The commands of those who are in reach the receipt limit, in whatever phase; no join
\* gets as far as the phase then.
FillReceipts ==
  /\ room.open /\ room.phase # "full" /\ room.members # {}
  /\ room' = [room EXCEPT !.phase = "full"]
  /\ UNCHANGED <<table, calls, now, past>>

\* The runtime stops: the server closes, or a save of it was overtaken.
CloseRuntime ==
  /\ Closes /\ room.open
  /\ room' = [room EXCEPT !.open = FALSE]
  /\ UNCHANGED <<table, calls, now, past>>

\* The room goes, and its sessions with it.
DeleteRoom ==
  /\ room.there
  /\ room' = [room EXCEPT !.there = FALSE, !.open = FALSE]
  /\ table' = [q \in Requests |-> NoRecord]
  /\ past' = [handed |-> {}, cut |-> {}]
  /\ UNCHANGED <<calls, now>>

\* The process starts anew and opens the room it finds; what waited is lost.
Restart ==
  /\ calls' = {}
  /\ room' = [room EXCEPT !.open = room.there]
  /\ past' = [past EXCEPT !.cut = @ \cup Lost(calls)]
  /\ UNCHANGED <<table, now>>

Tick ==
  /\ now < MaxNow
  /\ now' = now + 1
  /\ UNCHANGED <<table, room, calls, past>>

Next ==
  \/ \E q \in Requests, i \in Free :
       \/ \E mode \in Modes : CreateRoom(i, q, mode) \/ JoinRoom(i, q, mode)
       \/ Authorize(i, q)
  \/ \E c \in calls :
       \/ Issue(c) \/ Found(c) \/ Dispatch(c) \/ Revoke(c) \/ HandOut(c) \/ StoreFails(c)
       \/ Activate(c)
  \/ \E q \in Requests : AdminRevoke(q)
  \/ CleanUp \/ Start \/ FillReceipts \/ CloseRuntime \/ DeleteRoom \/ Restart \/ Tick

Spec == Init /\ [][Next]_vars

-----------------------------------------------------------------------------
(* Properties                                                              *)

Call ==
  [kind : {"admission"}, id : CallIds, req : Requests, mode : Modes,
   at : {"issue", "find", "dispatch", "refused", "stopped", "welcome"},
   life : 1..MaxLives, time : 0..MaxNow]
  \cup [kind : {"authorization"}, id : CallIds, req : Requests, record : Session]

\* No more players sit down than there are chairs.
TypeOK ==
  /\ table \in [Requests -> Session \cup {NoRecord}]
  /\ room \in [life : 0..MaxLives, there : BOOLEAN, open : BOOLEAN,
               phase : {"lobby", "started", "full"}, members : SUBSET Requests,
               receipts : [Requests -> {"none", "joined", "refused"}]]
  /\ Cardinality(room.members) <= Capacity
  /\ calls \subseteq Call /\ now \in 0..MaxNow
  /\ past \in [handed : SUBSET (Requests \X Modes), cut : SUBSET Requests]

(***************************************************************************)
(* docs/contracts/backend.md:29: who holds a player's session of the room  *)
(* sits in it, though the session is stored in one step and the seat in    *)
(* another, and either may be repeated.                                    *)
(***************************************************************************)
AdmittedIsMember ==
  \A q \in Requests : <<q, "player">> \in past.handed =>
    q \in room.members /\ room.receipts[q] = "joined"

(***************************************************************************)
(* docs/contracts/backend.md:57: a request that the room refused for good  *)
(* holds no player's session once its calls are through, however often it  *)
(* was repeated, unless a join or a revocation of it was cut off.          *)
(***************************************************************************)
RefusedHoldsNothing ==
  \A q \in Requests :
    (/\ room.receipts[q] = "refused" /\ room.there
     /\ q \notin past.cut /\ \A c \in calls : c.req # q
     /\ InForce(q))
    => table[q].viewer = "spectator"

StaysEnded ==
  \A q \in Requests :
    table[q] # NoRecord /\ Ended(table[q], now) /\ table'[q] # NoRecord => Ended(table'[q], now)

(***************************************************************************)
(* A session that ran out or was revoked is never in force again as long   *)
(* as its row is there: an authorization that read it before must not      *)
(* bring it back.                                                          *)
(***************************************************************************)
EndedStaysEnded == [][StaysEnded]_vars

(***************************************************************************)
(* docs/contracts/backend.md:57: an admission that the room refuses for    *)
(* good revokes the session that it just created, and never one that an    *)
(* earlier attempt was handed.  (A runtime that has stopped is another     *)
(* matter: what it does not admit is revoked whoever holds it, and what it *)
(* refused before, too, when its room has been created anew meanwhile.)    *)
(***************************************************************************)
HandedOutStays ==
  \A q \in Requests :
    <<q, "player">> \in past.handed => table[q] = NoRecord \/ table[q].revoked # "refused"

(***************************************************************************)
(* docs/architecture/socket-protocol.md:34: an authorization refuses, and  *)
(* a connection ends, when the session has run out or was revoked.         *)
(***************************************************************************)
LiveIsAuthorized ==
  \A c \in calls : c.kind = "authorization" /\ InForce(c.req) => Activates(c)
=============================================================================
