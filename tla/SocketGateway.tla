---------------------------- MODULE SocketGateway ----------------------------
(***************************************************************************)
(* The sockets of src/server/socket-gateway.ts in front of one room: the   *)
(* connections they hold, the session each speaks for, the subscriptions   *)
(* to the room's views and the quota of connections per address.  Every    *)
(* handler awaits the session store or the room, and what it does then is  *)
(* a step of its own: sockets come and go, sessions end and the room moves *)
(* on in between.                                                          *)
(*                                                                         *)
(* Abstractions: admission is reduced to its session being in force when   *)
(* it was looked up; inputs that are refused and rate limits change        *)
(* nothing; a command or a sync is a request, and what the room makes of   *)
(* it is a Publish at any time; equal calls of one socket count as one.    *)
(***************************************************************************)
EXTENDS Naturals, FiniteSets

CONSTANTS
  Sockets, NoSocket,
  Sessions, NoSession,
  Ips,
  MaxPerIp,       \* maxConnectionsPerIp
  MaxCalls,       \* bound: calls that wait at the same time
  MaxRevision     \* bound: views that the room publishes

ASSUME GatewayAssumption ==
  /\ MaxPerIp \in Nat \ {0} /\ MaxCalls \in Nat /\ MaxRevision \in Nat
  /\ NoSocket \notin Sockets /\ NoSession \notin Sessions /\ "none" \notin Ips
  /\ IsFiniteSet(Sockets)

VARIABLES
  gw,         \* the gateway: its maps and its sockets
  calls,      \* what waits for the session store or the room
  sessions,   \* of each session: is it in force
  room,       \* the room's revision, and whether its runtime runs
  pushed,     \* of each session: the newest revision broadcast to it
  endedAt     \* of each session: the room's revision when it ended

vars == <<gw, calls, sessions, room, pushed, endedAt>>

-----------------------------------------------------------------------------
(* The maps of the gateway                                                 *)

NoTransport == [ip |-> "none", authenticated |-> FALSE]

Connected(a) == a \in gw.sockets

\* Mutant: the subscription outlives its connection.
DetachSubscribed(g, a) ==
  IF g.connections[a] = NoSession THEN g
  ELSE [g EXCEPT
    !.connections[a] = NoSession,
    !.activeSessions = [s \in Sessions |-> IF s = g.connections[a] /\ @[s] = a THEN NoSocket
                                           ELSE @[s]]]

\* unsubscribe() does nothing when the room has dropped its subscribers itself.
Detach(g, a) ==
  IF g.connections[a] = NoSession THEN g
  ELSE [g EXCEPT
    !.subscribers[a] = [s \in Sessions |-> IF s = g.connections[a] /\ @[s] > 0 THEN @[s] - 1
                                           ELSE @[s]],
    !.connections[a] = NoSession,
    !.activeSessions = [s \in Sessions |-> IF s = g.connections[a] /\ @[s] = a THEN NoSocket
                                           ELSE @[s]]]

\* Mutant: the place is given back and the transport kept.
ReleaseKept(g, a) ==
  IF g.transports[a] = NoTransport THEN g
  ELSE [g EXCEPT !.counts[g.transports[a].ip] = IF @ <= 1 THEN 0 ELSE @ - 1]

Release(g, a) ==
  IF g.transports[a] = NoTransport THEN g
  ELSE [g EXCEPT !.counts[g.transports[a].ip] = IF @ <= 1 THEN 0 ELSE @ - 1,
                 !.transports[a] = NoTransport]

\* A socket is closed by either side; its disconnect handler runs at once.
Disconnected(g, a) ==
  [Release(Detach(g, a), a) EXCEPT !.sockets = @ \ {a}]

\* The socket that spoke for the session so far is told and disconnected.
TakenOver(g, a, s) ==
  IF g.activeSessions[s] \in {NoSocket, a} THEN g
  ELSE Disconnected(g, g.activeSessions[s])

Installed(g, a, s) ==
  [g EXCEPT !.connections[a] = s,
            !.activeSessions[s] = a,
            !.subscribers[a][s] = @ + 1,
            !.transports[a].authenticated = g.transports[a] # NoTransport]

Init ==
  /\ gw = [sockets |-> {},
           transports |-> [a \in Sockets |-> NoTransport],
           counts |-> [ip \in Ips |-> 0],
           connections |-> [a \in Sockets |-> NoSession],
           activeSessions |-> [s \in Sessions |-> NoSocket],
           subscribers |-> [a \in Sockets |-> [s \in Sessions |-> 0]]]
  /\ calls = {}
  /\ sessions = [s \in Sessions |-> TRUE]
  /\ room = [revision |-> 0, open |-> TRUE]
  /\ pushed = [s \in Sessions |-> 0]
  /\ endedAt = [s \in Sessions |-> MaxRevision]

-----------------------------------------------------------------------------
(* Sockets                                                                 *)

\* A new socket; above the quota of its address it is refused before it is known.
\* A name is used again when nothing of the socket that had it is under way.
Connect(a, ip) ==
  /\ ~Connected(a) /\ \A c \in calls : c.socket # a
  /\ gw.counts[ip] < MaxPerIp
  /\ gw' = [gw EXCEPT !.sockets = @ \cup {a},
                      !.transports[a] = [ip |-> ip, authenticated |-> FALSE],
                      !.counts[ip] = @ + 1]
  /\ UNCHANGED <<calls, sessions, room, pushed, endedAt>>

Disconnect(a) ==
  /\ Connected(a)
  /\ gw' = Disconnected(gw, a)
  /\ UNCHANGED <<calls, sessions, room, pushed, endedAt>>

\* The timer of a socket that has not entered a room.
UnauthenticatedTimeout(a) ==
  /\ gw.transports[a] # NoTransport /\ ~gw.transports[a].authenticated
  /\ gw' = Disconnected(gw, a)
  /\ UNCHANGED <<calls, sessions, room, pushed, endedAt>>

-----------------------------------------------------------------------------
(* Entering a room                                                         *)

Push(a, s, revision) ==
  [kind |-> "push", socket |-> a, session |-> s, revision |-> revision, live |-> sessions[s]]

\* create, join or resume has found the session and waits for the room's view.
Admit(a, s) ==
  /\ Connected(a) /\ sessions[s] /\ Cardinality(calls) < MaxCalls
  /\ calls' = calls \cup {[kind |-> "attach", socket |-> a, session |-> s]}
  /\ UNCHANGED <<gw, sessions, room, pushed, endedAt>>

\* Mutant: nobody looks whether the socket is still there.
AttachBlind(c) ==
  /\ c \in calls /\ c.kind = "attach"
  /\ LET g == TakenOver(Detach(gw, c.socket), c.socket, c.session)
     IN \/ /\ room.open
           /\ gw' = Installed(g, c.socket, c.session)
           /\ calls' = (calls \ {c}) \cup {Push(c.socket, c.session, room.revision)}
        \/ /\ ~room.open
           /\ gw' \in {gw, g}
           /\ calls' = calls \ {c}
  /\ UNCHANGED <<sessions, room, pushed, endedAt>>

(***************************************************************************)
(* The view is there.  From here nothing is awaited until the socket is    *)
(* the session's; its first view is pushed like every other.  When the     *)
(* room has closed, the sync fails, or the subscription after the takeover.*)
(***************************************************************************)
Attach(c) ==
  /\ c \in calls /\ c.kind = "attach"
  /\ LET g == TakenOver(Detach(gw, c.socket), c.socket, c.session)
     IN \/ /\ Connected(c.socket) /\ room.open
           /\ gw' = Installed(g, c.socket, c.session)
           /\ calls' = (calls \ {c}) \cup {Push(c.socket, c.session, room.revision)}
        \/ /\ Connected(c.socket) /\ ~room.open
           /\ gw' \in {gw, g}
           /\ calls' = calls \ {c}
        \/ /\ ~Connected(c.socket)
           /\ calls' = calls \ {c}
           /\ UNCHANGED gw
  /\ UNCHANGED <<sessions, room, pushed, endedAt>>

-----------------------------------------------------------------------------
(* Being in a room                                                         *)

\* What authorize() may answer: a session may end while it is looked at, and the store may
\* refuse the touch of one in force (LiveIsAuthorized of Admission).
Authorized(c) == {live \in BOOLEAN : live => c.live}

\* A command or a sync; what it does to the room is up to the room.
Request(a) ==
  /\ gw.connections[a] # NoSession /\ Cardinality(calls) < MaxCalls
  /\ LET s == gw.connections[a]
     IN calls' = calls \cup {[kind |-> "request", socket |-> a, session |-> s,
                              live |-> sessions[s]]}
  /\ UNCHANGED <<gw, sessions, room, pushed, endedAt>>

\* expire(): whatever the socket speaks for by now.
Expired(a) == IF Connected(a) THEN Disconnected(gw, a) ELSE gw

Requested(c) ==
  /\ c \in calls /\ c.kind = "request"
  /\ \E live \in Authorized(c) : gw' = IF live THEN gw ELSE Expired(c.socket)
  /\ calls' = calls \ {c}
  /\ UNCHANGED <<sessions, room, pushed, endedAt>>

\* The room shows a new state to its subscribers; each is authorized first.
Publish ==
  /\ room.open /\ room.revision < MaxRevision
  /\ room' = [room EXCEPT !.revision = @ + 1]
  /\ calls' = calls \cup UNION {{Push(a, s, room.revision + 1) :
                                  s \in {t \in Sessions : gw.subscribers[a][t] > 0}} : a \in Sockets}
  /\ UNCHANGED <<gw, sessions, pushed, endedAt>>

Newest(a, b) == IF a > b THEN a ELSE b

\* Mutant: the session the connection was made with is believed.
PushedUnchecked(c) ==
  /\ c \in calls /\ c.kind = "push"
  /\ calls' = calls \ {c}
  /\ pushed' = IF gw.connections[c.socket] # c.session THEN pushed
               ELSE [pushed EXCEPT ![c.session] = Newest(@, c.revision)]
  /\ UNCHANGED <<gw, sessions, room, endedAt>>

Pushed(c) ==
  /\ c \in calls /\ c.kind = "push"
  /\ calls' = calls \ {c}
  /\ \/ /\ gw.connections[c.socket] # c.session
        /\ UNCHANGED <<gw, pushed>>
     \/ /\ gw.connections[c.socket] = c.session /\ TRUE \in Authorized(c)
        /\ pushed' = [pushed EXCEPT ![c.session] = Newest(@, c.revision)]
        /\ UNCHANGED gw
     \/ /\ gw.connections[c.socket] = c.session /\ FALSE \in Authorized(c)
        /\ gw' = Expired(c.socket)
        /\ UNCHANGED pushed
  /\ UNCHANGED <<sessions, room, endedAt>>

\* The session store fails a call: a push is dropped, a caller gets an error.
Unavailable(c) ==
  /\ c \in calls
  /\ calls' = calls \ {c}
  /\ UNCHANGED <<gw, sessions, room, pushed, endedAt>>

-----------------------------------------------------------------------------
(* Around the gateway                                                      *)

\* A session runs out or is revoked.
EndSession(s) ==
  /\ sessions[s]
  /\ sessions' = [sessions EXCEPT ![s] = FALSE]
  /\ endedAt' = [endedAt EXCEPT ![s] = room.revision]
  /\ UNCHANGED <<gw, calls, room, pushed>>

\* The runtime stops and forgets its subscribers; the connections stay.
CloseRoom ==
  /\ room.open
  /\ room' = [room EXCEPT !.open = FALSE]
  /\ gw' = [gw EXCEPT !.subscribers = [a \in Sockets |-> [s \in Sessions |-> 0]]]
  /\ UNCHANGED <<calls, sessions, pushed, endedAt>>

Next ==
  \/ \E a \in Sockets :
       \/ \E ip \in Ips : Connect(a, ip)
       \/ Disconnect(a) \/ UnauthenticatedTimeout(a) \/ Request(a)
       \/ \E s \in Sessions : Admit(a, s)
  \/ \E c \in calls : Attach(c) \/ Requested(c) \/ Pushed(c) \/ Unavailable(c)
  \/ Publish \/ CloseRoom
  \/ \E s \in Sessions : EndSession(s)

Spec == Init /\ [][Next]_vars

-----------------------------------------------------------------------------
(* Invariants                                                              *)

Call ==
  [kind : {"attach"}, socket : Sockets, session : Sessions]
  \cup [kind : {"request"}, socket : Sockets, session : Sessions, live : BOOLEAN]
  \cup [kind : {"push"}, socket : Sockets, session : Sessions, live : BOOLEAN,
        revision : 0..MaxRevision]

\* The types of the gateway's maps.
TypeOK ==
  /\ gw \in [sockets : SUBSET Sockets,
             transports : [Sockets -> [ip : Ips, authenticated : BOOLEAN] \cup {NoTransport}],
             counts : [Ips -> 0..MaxPerIp],
             connections : [Sockets -> Sessions \cup {NoSession}],
             activeSessions : [Sessions -> Sockets \cup {NoSocket}],
             subscribers : [Sockets -> [Sessions -> Nat]]]
  /\ calls \subseteq Call
  /\ sessions \in [Sessions -> BOOLEAN]
  /\ room \in [revision : 0..MaxRevision, open : BOOLEAN]
  /\ pushed \in [Sessions -> 0..MaxRevision] /\ endedAt \in [Sessions -> 0..MaxRevision]

(***************************************************************************)
(* Comment of attach() and docs/contracts/backend.md:55: two pages that    *)
(* resume one session at once never both keep it, and the table of active  *)
(* sockets names the one that does.  A socket that goes while its          *)
(* admission waits for the room leaves no connection behind, which nothing *)
(* would ever remove and which would keep the session from others.         *)
(***************************************************************************)
OneWriter ==
  /\ \A a \in Sockets, s \in Sessions : gw.connections[a] = s <=> gw.activeSessions[s] = a
  /\ \A a \in Sockets :
       gw.connections[a] # NoSession => Connected(a) /\ gw.transports[a].authenticated

(***************************************************************************)
(* A socket is subscribed exactly to the views of the session it speaks    *)
(* for: entering for another session, or the same again, ends what was.    *)
(***************************************************************************)
SubscribedOnce ==
  \A a \in Sockets, s \in Sessions :
    gw.subscribers[a][s] = IF room.open /\ gw.connections[a] = s THEN 1 ELSE 0

(***************************************************************************)
(* The quota counts the sockets that are there: refused ones, timeouts,    *)
(* takeovers and expiries neither leak a place nor give one back twice,    *)
(* and no address holds more than its share.                               *)
(***************************************************************************)
QuotaIsExact ==
  /\ \A a \in Sockets : Connected(a) <=> gw.transports[a] # NoTransport
  /\ \A ip \in Ips :
       /\ gw.counts[ip] = Cardinality({a \in gw.sockets : gw.transports[a].ip = ip})
       /\ gw.counts[ip] <= MaxPerIp

(***************************************************************************)
(* docs/contracts/backend.md:57: a session that was revoked or ran out is  *)
(* broadcast nothing that the room decided afterwards, though its          *)
(* connection and its subscription may still be there.                     *)
(***************************************************************************)
EndedSeesNoMore == \A s \in Sessions : pushed[s] <= endedAt[s]
=============================================================================
