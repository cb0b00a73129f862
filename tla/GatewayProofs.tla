---------------------------- MODULE GatewayProofs ----------------------------
(***************************************************************************)
(* Proofs about SocketGateway, for any number of sockets, sessions and     *)
(* addresses and any quota.  The maps of the gateway are kept in step by   *)
(* Detach, Release and what takes over; each has its lemma.                *)
(***************************************************************************)
EXTENDS SocketGateway, FiniteSetTheorems, TLAPS

-----------------------------------------------------------------------------
(* The invariants of the maps, of any value they may have                  *)

Maps(g) ==
  g \in [sockets : SUBSET Sockets,
         transports : [Sockets -> [ip : Ips, authenticated : BOOLEAN] \cup {NoTransport}],
         counts : [Ips -> 0..MaxPerIp],
         connections : [Sockets -> Sessions \cup {NoSession}],
         activeSessions : [Sessions -> Sockets \cup {NoSocket}],
         subscribers : [Sockets -> [Sessions -> Nat]]]

Owned(g) ==
  \A a \in Sockets, s \in Sessions : g.connections[a] = s <=> g.activeSessions[s] = a

Present(g) ==
  \A a \in Sockets :
    g.connections[a] # NoSession => a \in g.sockets /\ g.transports[a].authenticated

Subscribed(g, open) ==
  \A a \in Sockets, s \in Sessions :
    g.subscribers[a][s] = IF open /\ g.connections[a] = s THEN 1 ELSE 0

From(g, ip) == {a \in g.sockets : g.transports[a].ip = ip}

Counted(g) ==
  /\ \A a \in Sockets : a \in g.sockets <=> g.transports[a] # NoTransport
  /\ \A ip \in Ips : g.counts[ip] = Cardinality(From(g, ip))

Sound(g, open) ==
  Maps(g) /\ Owned(g) /\ Present(g) /\ Subscribed(g, open) /\ Counted(g)

\* What else a map operation leaves alone.
Same(g, h) == h.sockets = g.sockets /\ h.transports = g.transports /\ h.counts = g.counts

-----------------------------------------------------------------------------

LEMMA DetachSound ==
  ASSUME NEW g, NEW open \in BOOLEAN, NEW a \in Sockets, Sound(g, open)
  PROVE  /\ Sound(Detach(g, a), open) /\ Same(g, Detach(g, a))
         /\ Detach(g, a).connections[a] = NoSession
         /\ \A b \in Sockets \ {a} : Detach(g, a).connections[b] = g.connections[b]
<1>. DEFINE h == Detach(g, a)
            one == [s \in Sessions |->
                     IF s = g.connections[a] /\ g.subscribers[a][s] > 0
                     THEN g.subscribers[a][s] - 1 ELSE g.subscribers[a][s]]
            act == [s \in Sessions |->
                     IF s = g.connections[a] /\ g.activeSessions[s] = a THEN NoSocket
                     ELSE g.activeSessions[s]]
<1>1. CASE g.connections[a] = NoSession
  BY <1>1 DEF Detach, Same
<1>2. CASE g.connections[a] # NoSession
  <2>1. Maps(g)
    BY DEF Sound
  <2>2. h = [g EXCEPT !.subscribers[a] = one, !.connections[a] = NoSession,
                      !.activeSessions = act]
    BY <1>2 DEF Detach
  <2>3. /\ h.sockets = g.sockets /\ h.transports = g.transports /\ h.counts = g.counts
        /\ h.connections = [g.connections EXCEPT ![a] = NoSession]
        /\ h.activeSessions = act
        /\ h.subscribers = [g.subscribers EXCEPT ![a] = one]
    BY <2>1, <2>2 DEF Maps
  <2>4. one \in [Sessions -> Nat] /\ act \in [Sessions -> Sockets \cup {NoSocket}]
    BY <2>1 DEF Maps
  <2>5. Maps(h)
    <3>1. /\ h.connections \in [Sockets -> Sessions \cup {NoSession}]
          /\ h.subscribers \in [Sockets -> [Sessions -> Nat]]
      BY <2>1, <2>3, <2>4 DEF Maps
    <3>2. DOMAIN h = DOMAIN g
      BY <2>1, <2>2 DEF Maps
    <3>. HIDE DEF h, one, act
    <3>3. h = [sockets |-> h.sockets, transports |-> h.transports, counts |-> h.counts,
               connections |-> h.connections, activeSessions |-> h.activeSessions,
               subscribers |-> h.subscribers]
      BY <2>1, <2>2 DEF Maps
    <3>. QED BY <2>1, <2>3, <2>4, <3>1, <3>3 DEF Maps
  <2>6. Owned(h)
    BY <1>2, <2>1, <2>3, GatewayAssumption DEF Owned, Sound, Maps
  <2>7. Present(h)
    BY <2>1, <2>3 DEF Present, Sound, Maps
  <2>8. Subscribed(h, open)
    BY <1>2, <2>1, <2>3, <2>4, GatewayAssumption DEF Subscribed, Sound, Maps
  <2>9. Counted(h)
    BY <2>3 DEF Counted, Sound, From
  <2>. HIDE DEF h, one, act
  <2>10. /\ h.connections[a] = NoSession
         /\ \A b \in Sockets \ {a} : h.connections[b] = g.connections[b]
    BY <2>1, <2>3 DEF Maps
  <2>. QED BY <2>3, <2>5, <2>6, <2>7, <2>8, <2>9, <2>10 DEF Sound, Same, h
<1>. QED BY <1>1, <1>2

\* Everything of a socket goes at once.
LEMMA DisconnectedSound ==
  ASSUME NEW g, NEW open \in BOOLEAN, NEW a \in Sockets, Sound(g, open)
  PROVE  /\ Sound(Disconnected(g, a), open)
         /\ Disconnected(g, a).sockets = g.sockets \ {a}
         /\ Disconnected(g, a).connections[a] = NoSession
         /\ \A b \in Sockets \ {a} : Disconnected(g, a).connections[b] = g.connections[b]
<1>. DEFINE d == Detach(g, a)
            h == Disconnected(g, a)
            ip == g.transports[a].ip
<1>1. /\ Sound(d, open) /\ Maps(d) /\ d.sockets = g.sockets /\ d.transports = g.transports
      /\ d.connections[a] = NoSession
      /\ \A b \in Sockets \ {a} : d.connections[b] = g.connections[b]
  BY DetachSound DEF Sound, Same
<1>. HIDE DEF d
<1>2. CASE d.transports[a] = NoTransport
  <2>1. a \notin d.sockets
    BY <1>1, <1>2 DEF Sound, Counted
  <2>2. h = [d EXCEPT !.sockets = @ \ {a}]
    BY <1>2 DEF Disconnected, Release, d
  <2>3. h = d /\ d.sockets = d.sockets \ {a}
    BY <1>1, <2>1, <2>2 DEF Maps
  <2>. QED BY <1>1, <2>3
<1>3. CASE d.transports[a] # NoTransport
  <2>. DEFINE counts == [d.counts EXCEPT ![ip] = IF @ <= 1 THEN 0 ELSE @ - 1]
  <2>1. a \in d.sockets /\ ip \in Ips /\ a \in From(d, ip) /\ IsFiniteSet(From(d, ip))
    <3>1. a \in d.sockets
      BY <1>1, <1>3 DEF Sound, Counted
    <3>2. d.transports[a] \in [ip : Ips, authenticated : BOOLEAN]
      BY <1>1, <1>3 DEF Maps
    <3>3. From(d, ip) \subseteq Sockets
      BY <1>1 DEF From, Maps
    <3>. QED BY <1>1, <3>1, <3>2, <3>3, FS_Subset, GatewayAssumption DEF From
  <2>2. h = [d EXCEPT !.counts[ip] = IF @ <= 1 THEN 0 ELSE @ - 1,
                      !.transports[a] = NoTransport, !.sockets = @ \ {a}]
    BY <1>1, <1>3 DEF Disconnected, Release, d
  <2>3. /\ h.sockets = d.sockets \ {a} /\ h.connections = d.connections
        /\ h.transports = [d.transports EXCEPT ![a] = NoTransport]
        /\ h.counts = counts
        /\ h.activeSessions = d.activeSessions /\ h.subscribers = d.subscribers
    BY <1>1, <2>2 DEF Maps
  <2>4. d.counts[ip] \in 0..MaxPerIp /\ d.counts[ip] = Cardinality(From(d, ip))
    BY <1>1, <2>1 DEF Maps, Sound, Counted
  <2>5. Cardinality(From(d, ip) \ {a}) = Cardinality(From(d, ip)) - 1
    BY <2>1, FS_RemoveElement
  <2>6. Cardinality(From(d, ip) \ {a}) \in Nat
    BY <2>1, FS_RemoveElement, FS_CardinalityType
  <2>7. counts[ip] = Cardinality(From(d, ip) \ {a}) /\ counts \in [Ips -> 0..MaxPerIp]
    <3>1. counts[ip] = Cardinality(From(d, ip) \ {a})
      BY <1>1, <2>1, <2>4, <2>5, <2>6 DEF Maps
    <3>2. counts[ip] \in 0..MaxPerIp
      BY <2>4, <2>5, <2>6, <3>1, GatewayAssumption
    <3>. QED BY <1>1, <2>1, <3>1, <3>2 DEF Maps
  <2>8. Maps(h)
    <3>1. /\ h.transports \in [Sockets -> [ip : Ips, authenticated : BOOLEAN] \cup {NoTransport}]
          /\ h.sockets \in SUBSET Sockets
      BY <1>1, <2>3 DEF Maps
    <3>. HIDE DEF h, counts, ip
    <3>2. h = [sockets |-> h.sockets, transports |-> h.transports, counts |-> h.counts,
               connections |-> h.connections, activeSessions |-> h.activeSessions,
               subscribers |-> h.subscribers]
      BY <1>1, <2>2 DEF Maps
    <3>. QED BY <1>1, <2>3, <2>7, <3>1, <3>2 DEF Maps
  <2>9. Owned(h) /\ Subscribed(h, open)
    BY <1>1, <2>3 DEF Sound, Owned, Subscribed
  <2>10. Present(h)
    BY <1>1, <2>3 DEF Sound, Present, Maps
  <2>11. Counted(h)
    <3>1. ASSUME NEW b \in Sockets
          PROVE  b \in h.sockets <=> h.transports[b] # NoTransport
      BY <1>1, <2>3 DEF Sound, Counted, Maps
    <3>2. ASSUME NEW other \in Ips
          PROVE  h.counts[other] = Cardinality(From(h, other))
      <4>1. From(h, other) = From(d, other) \ {a}
        BY <1>1, <2>3 DEF From, Maps
      <4>2. CASE other = ip
        BY <2>3, <2>7, <4>1, <4>2
      <4>3. CASE other # ip
        <5>1. a \notin From(d, other)
          BY <1>1, <4>3 DEF From
        <5>2. From(h, other) = From(d, other)
          BY <4>1, <5>1
        <5>3. h.counts[other] = d.counts[other]
          BY <1>1, <2>3, <4>3 DEF Maps
        <5>. QED BY <1>1, <5>2, <5>3 DEF Sound, Counted
      <4>. QED BY <4>2, <4>3
    <3>. QED BY <3>1, <3>2 DEF Counted
  <2>. HIDE DEF h
  <2>. QED BY <1>1, <2>3, <2>8, <2>9, <2>10, <2>11 DEF Sound, h
<1>. QED BY <1>2, <1>3

\* Whoever spoke for the session so far no longer does.
LEMMA TakenOverSound ==
  ASSUME NEW g, NEW open \in BOOLEAN, NEW a \in Sockets, NEW s \in Sessions,
         Sound(g, open), g.connections[a] = NoSession, a \in g.sockets
  PROVE  /\ Sound(TakenOver(g, a, s), open)
         /\ TakenOver(g, a, s).connections[a] = NoSession
         /\ TakenOver(g, a, s).activeSessions[s] = NoSocket
         /\ a \in TakenOver(g, a, s).sockets
<1>. DEFINE b == g.activeSessions[s]
            h == TakenOver(g, a, s)
<1>1. b \in Sockets \cup {NoSocket} /\ b # a
  BY GatewayAssumption DEF Sound, Maps, Owned
<1>2. CASE b = NoSocket
  BY <1>2 DEF TakenOver
<1>3. CASE b # NoSocket
  <2>1. h = Disconnected(g, b) /\ b \in Sockets
    BY <1>1, <1>3 DEF TakenOver
  <2>2. /\ Sound(h, open) /\ h.sockets = g.sockets \ {b} /\ h.connections[b] = NoSession
        /\ \A x \in Sockets \ {b} : h.connections[x] = g.connections[x]
    BY SMTT(60), <2>1, DisconnectedSound
  <2>3. ASSUME h.activeSessions[s] # NoSocket
        PROVE  FALSE
    <3>. DEFINE x == h.activeSessions[s]
    <3>. HIDE DEF h
    <3>1. x \in Sockets
      BY <2>2, <2>3 DEF Sound, Maps
    <3>2. h.connections[x] = s
      BY <2>2, <3>1 DEF Sound, Owned
    <3>3. x # b /\ g.connections[x] = s
      BY <2>2, <3>1, <3>2, GatewayAssumption
    <3>4. g.activeSessions[s] = x
      BY <3>1, <3>3 DEF Sound, Owned
    <3>. QED BY <3>3, <3>4
  <2>. HIDE DEF h
  <2>4. h.connections[a] = NoSession /\ a \in h.sockets
    BY <1>1, <2>2
  <2>. QED BY <2>2, <2>3, <2>4 DEF h
<1>. QED BY <1>2, <1>3

\* The session is free, and so is the socket.
LEMMA InstalledSound ==
  ASSUME NEW g, NEW a \in Sockets, NEW s \in Sessions, Sound(g, TRUE), a \in g.sockets,
         g.connections[a] = NoSession, g.activeSessions[s] = NoSocket
  PROVE  Sound(Installed(g, a, s), TRUE)
<1>. DEFINE h == Installed(g, a, s)
            tr == [g.transports EXCEPT ![a].authenticated = g.transports[a] # NoTransport]
            sub == [g.subscribers[a] EXCEPT ![s] = @ + 1]
<1>1. Maps(g) /\ Owned(g) /\ Present(g) /\ Subscribed(g, TRUE) /\ Counted(g)
  BY DEF Sound
<1>2. /\ h.sockets = g.sockets /\ h.counts = g.counts /\ h.transports = tr
      /\ h.connections = [g.connections EXCEPT ![a] = s]
      /\ h.activeSessions = [g.activeSessions EXCEPT ![s] = a]
      /\ h.subscribers = [g.subscribers EXCEPT ![a] = sub]
      /\ h = [g EXCEPT !.connections = [g.connections EXCEPT ![a] = s],
                       !.activeSessions = [g.activeSessions EXCEPT ![s] = a],
                       !.subscribers = [g.subscribers EXCEPT ![a] = sub],
                       !.transports = tr]
  BY <1>1 DEF Installed, Maps
<1>3. g.transports[a] # NoTransport /\ g.transports[a] \in [ip : Ips, authenticated : BOOLEAN]
  BY <1>1 DEF Counted, Maps
<1>4. /\ tr \in [Sockets -> [ip : Ips, authenticated : BOOLEAN] \cup {NoTransport}]
      /\ tr[a].authenticated /\ tr[a].ip = g.transports[a].ip
      /\ tr[a] \in [ip : Ips, authenticated : BOOLEAN]
      /\ \A x \in Sockets \ {a} : tr[x] = g.transports[x]
  BY <1>1, <1>3 DEF Maps
<1>5. sub \in [Sessions -> Nat]
  BY <1>1 DEF Maps
<1>. HIDE DEF h, tr, sub
<1>6. Maps(h)
  <2>1. /\ h.connections \in [Sockets -> Sessions \cup {NoSession}]
        /\ h.activeSessions \in [Sessions -> Sockets \cup {NoSocket}]
        /\ h.subscribers \in [Sockets -> [Sessions -> Nat]]
    BY <1>1, <1>2, <1>5 DEF Maps
  <2>2. h = [sockets |-> h.sockets, transports |-> h.transports, counts |-> h.counts,
             connections |-> h.connections, activeSessions |-> h.activeSessions,
             subscribers |-> h.subscribers]
    BY <1>1, <1>2 DEF Maps
  <2>. QED BY <1>1, <1>2, <1>4, <2>1, <2>2 DEF Maps
<1>7. Owned(h)
  BY <1>1, <1>2, GatewayAssumption DEF Owned, Maps
<1>8. Present(h)
  BY <1>1, <1>2, <1>4 DEF Present, Maps
<1>9. Subscribed(h, TRUE)
  <2>1. h.subscribers[a] = sub
    BY <1>1, <1>2 DEF Maps
  <2>2. \A r \in Sessions : g.subscribers[a][r] = 0
    BY <1>1, GatewayAssumption DEF Subscribed
  <2>3. \A r \in Sessions : h.subscribers[a][r] = IF r = s THEN 1 ELSE 0
    BY <1>1, <2>1, <2>2 DEF Maps, sub
  <2>4. h.connections[a] = s
    BY <1>1, <1>2 DEF Maps
  <2>5. ASSUME NEW x \in Sockets \ {a}
        PROVE  h.subscribers[x] = g.subscribers[x] /\ h.connections[x] = g.connections[x]
    BY <1>1, <1>2 DEF Maps
  <2>6. ASSUME NEW x \in Sockets, NEW r \in Sessions
        PROVE  h.subscribers[x][r] = IF h.connections[x] = r THEN 1 ELSE 0
    BY <1>1, <2>3, <2>4, <2>5 DEF Subscribed
  <2>. QED BY <2>6 DEF Subscribed
<1>10. Counted(h)
  <2>1. ASSUME NEW x \in Sockets
        PROVE  x \in h.sockets <=> h.transports[x] # NoTransport
    <3>1. tr[a] # NoTransport
      BY <1>4, GatewayAssumption DEF NoTransport
    <3>. QED BY <1>1, <1>2, <1>3, <1>4, <3>1 DEF Counted
  <2>2. ASSUME NEW ip \in Ips
        PROVE  From(h, ip) = From(g, ip)
    <3>1. \A x \in g.sockets : h.transports[x].ip = g.transports[x].ip
      BY <1>1, <1>2, <1>4 DEF Maps
    <3>. QED BY <1>2, <3>1 DEF From
  <2>. QED BY <1>1, <1>2, <2>1, <2>2 DEF Counted
<1>. QED BY <1>6, <1>7, <1>8, <1>9, <1>10 DEF Sound, h

\* A new socket finds room in the quota of its address.
LEMMA ConnectedSound ==
  ASSUME NEW g, NEW open \in BOOLEAN, NEW a \in Sockets, NEW ip \in Ips,
         Sound(g, open), a \notin g.sockets, g.counts[ip] < MaxPerIp
  PROVE  Sound([g EXCEPT !.sockets = @ \cup {a},
                         !.transports[a] = [ip |-> ip, authenticated |-> FALSE],
                         !.counts[ip] = @ + 1], open)
<1>. DEFINE fresh == [ip |-> ip, authenticated |-> FALSE]
            h == [g EXCEPT !.sockets = @ \cup {a}, !.transports[a] = fresh, !.counts[ip] = @ + 1]
<1>1. Maps(g) /\ Owned(g) /\ Present(g) /\ Subscribed(g, open) /\ Counted(g)
  BY DEF Sound
<1>2. /\ h.sockets = g.sockets \cup {a} /\ h.transports = [g.transports EXCEPT ![a] = fresh]
      /\ h.counts = [g.counts EXCEPT ![ip] = @ + 1]
      /\ h.connections = g.connections /\ h.activeSessions = g.activeSessions
      /\ h.subscribers = g.subscribers
      /\ h = [g EXCEPT !.sockets = g.sockets \cup {a},
                       !.transports = [g.transports EXCEPT ![a] = fresh],
                       !.counts = [g.counts EXCEPT ![ip] = @ + 1]]
  BY <1>1 DEF Maps
<1>3. fresh # NoTransport /\ fresh.ip = ip /\ fresh \in [ip : Ips, authenticated : BOOLEAN]
  BY GatewayAssumption DEF NoTransport
<1>. HIDE DEF h, fresh
<1>4. Maps(h)
  <2>1. g.counts[ip] + 1 \in 0..MaxPerIp
    BY <1>1, GatewayAssumption DEF Maps
  <2>2. /\ h.transports \in [Sockets -> [ip : Ips, authenticated : BOOLEAN] \cup {NoTransport}]
        /\ h.counts \in [Ips -> 0..MaxPerIp] /\ h.sockets \subseteq Sockets
    BY <1>1, <1>2, <1>3, <2>1 DEF Maps
  <2>3. h = [sockets |-> h.sockets, transports |-> h.transports, counts |-> h.counts,
             connections |-> h.connections, activeSessions |-> h.activeSessions,
             subscribers |-> h.subscribers]
    BY <1>1, <1>2 DEF Maps
  <2>. QED BY <1>1, <1>2, <2>2, <2>3 DEF Maps
<1>5. Owned(h) /\ Subscribed(h, open)
  BY <1>1, <1>2 DEF Owned, Subscribed
<1>6. Present(h)
  BY <1>1, <1>2 DEF Present, Maps
<1>7. Counted(h)
  <2>1. ASSUME NEW x \in Sockets
        PROVE  x \in h.sockets <=> h.transports[x] # NoTransport
    BY <1>1, <1>2, <1>3 DEF Counted, Maps
  <2>2. ASSUME NEW other \in Ips
        PROVE  h.counts[other] = Cardinality(From(h, other))
    <3>1. a \notin From(g, other) /\ IsFiniteSet(From(g, other))
      <4>1. From(g, other) \subseteq Sockets
        BY <1>1 DEF From, Maps
      <4>. QED BY <4>1, FS_Subset, GatewayAssumption DEF From
    <3>2. From(h, other) = IF other = ip THEN From(g, other) \cup {a} ELSE From(g, other)
      <4>1. h.transports[a].ip = ip /\ \A x \in g.sockets : h.transports[x] = g.transports[x]
        BY <1>1, <1>2, <1>3 DEF Maps
      <4>. QED BY <1>2, <4>1 DEF From
    <3>3. g.counts[other] = Cardinality(From(g, other)) /\ g.counts[other] \in Nat
      BY <1>1, GatewayAssumption DEF Counted, Maps
    <3>4. Cardinality(From(g, other) \cup {a}) = Cardinality(From(g, other)) + 1
      BY <3>1, FS_AddElement
    <3>5. h.counts[other] = IF other = ip THEN g.counts[other] + 1 ELSE g.counts[other]
      BY <1>1, <1>2 DEF Maps
    <3>. QED BY <3>2, <3>3, <3>4, <3>5
  <2>. QED BY <2>1, <2>2 DEF Counted
<1>. QED BY <1>4, <1>5, <1>6, <1>7 DEF Sound, h, fresh

\* A room that closes drops all its subscribers.
LEMMA ClosedSound ==
  ASSUME NEW g, NEW open \in BOOLEAN, Sound(g, open)
  PROVE  Sound([g EXCEPT !.subscribers = [a \in Sockets |-> [s \in Sessions |-> 0]]], FALSE)
<1>. DEFINE none == [a \in Sockets |-> [s \in Sessions |-> 0]]
            h == [g EXCEPT !.subscribers = none]
<1>1. Maps(g) /\ Owned(g) /\ Present(g) /\ Counted(g)
  BY DEF Sound
<1>2. /\ h.sockets = g.sockets /\ h.transports = g.transports /\ h.counts = g.counts
      /\ h.connections = g.connections /\ h.activeSessions = g.activeSessions
      /\ h.subscribers = none /\ h = [g EXCEPT !.subscribers = none]
  BY <1>1 DEF Maps
<1>3. none \in [Sockets -> [Sessions -> Nat]] /\ \A a \in Sockets, s \in Sessions : none[a][s] = 0
  OBVIOUS
<1>. HIDE DEF h, none
<1>4. h = [sockets |-> h.sockets, transports |-> h.transports, counts |-> h.counts,
           connections |-> h.connections, activeSessions |-> h.activeSessions,
           subscribers |-> h.subscribers]
  BY <1>1, <1>2 DEF Maps
<1>5. Maps(h)
  BY <1>1, <1>2, <1>3, <1>4 DEF Maps
<1>6. Owned(h) /\ Present(h) /\ Counted(h) /\ Subscribed(h, FALSE)
  BY <1>1, <1>2, <1>3 DEF Owned, Present, Counted, Subscribed, From
<1>. QED BY <1>5, <1>6 DEF Sound, h, none

-----------------------------------------------------------------------------
(***************************************************************************)
(* The inductive invariant.  What is under way matters to                  *)
(* EndedSeesNoMore: a push whose authorization saw the session in force    *)
(* carries a view from before its end.                                     *)
(***************************************************************************)

PushCall == [kind : {"push"}, socket : Sockets, session : Sessions, live : BOOLEAN,
             revision : 0..MaxRevision]

Delivery ==
  /\ calls \subseteq Call
  /\ sessions \in [Sessions -> BOOLEAN]
  /\ room \in [revision : 0..MaxRevision, open : BOOLEAN]
  /\ pushed \in [Sessions -> 0..MaxRevision] /\ endedAt \in [Sessions -> 0..MaxRevision]

Timely ==
  /\ \A c \in calls : c.kind = "push" =>
       c.revision <= room.revision /\ (c.live => c.revision <= endedAt[c.session])
  /\ \A s \in Sessions :
       pushed[s] <= room.revision /\ pushed[s] <= endedAt[s] /\
       (sessions[s] => endedAt[s] = MaxRevision)

IInv == Sound(gw, room.open) /\ Delivery /\ Timely

LEMMA GatewayInit == Init => IInv
<1>. SUFFICES ASSUME Init
              PROVE  IInv
  OBVIOUS
<1>1. Delivery /\ Timely
  BY GatewayAssumption DEF Init, Delivery, Timely
<1>2. Maps(gw)
  BY GatewayAssumption DEF Init, Maps
<1>3. Owned(gw) /\ Present(gw) /\ Subscribed(gw, room.open)
  BY GatewayAssumption DEF Init, Owned, Present, Subscribed
<1>4. Counted(gw)
  <2>1. \A ip \in Ips : From(gw, ip) = {}
    BY DEF Init, From
  <2>. QED BY <2>1, FS_EmptySet DEF Init, Counted
<1>. QED BY <1>1, <1>2, <1>3, <1>4 DEF IInv, Sound

\* A call that leaves takes nothing along.
LEMMA CallDone ==
  ASSUME IInv, NEW c \in calls, calls' = calls \ {c}, UNCHANGED <<sessions, room, pushed, endedAt>>
  PROVE  (Delivery /\ Timely)'
BY DEF IInv, Delivery, Timely

\* A push that starts carries the room's view of now.
LEMMA PushTimely ==
  ASSUME IInv, NEW a \in Sockets, NEW s \in Sessions, NEW r \in 0..MaxRevision
  PROVE  /\ Push(a, s, r) \in Call /\ Push(a, s, r).kind = "push"
         /\ Push(a, s, r).revision = r
         /\ Push(a, s, r).live => r <= endedAt[Push(a, s, r).session]
BY DEF IInv, Delivery, Timely, Push, Call

\* Who is cut off, is cut off whole.
LEMMA ExpiredSound ==
  ASSUME IInv, NEW a \in Sockets
  PROVE  Sound(Expired(a), room.open)
<1>1. room.open \in BOOLEAN
  BY DEF IInv, Delivery
<1>. QED BY <1>1, DisconnectedSound DEF IInv, Expired

LEMMA AttachKeeps ==
  ASSUME IInv, NEW c \in calls, Attach(c)
  PROVE  IInv'
<1>. DEFINE a == c.socket
            s == c.session
            d == Detach(gw, a)
            g == TakenOver(d, a, s)
            p == Push(a, s, room.revision)
<1>1. a \in Sockets /\ s \in Sessions /\ room.open \in BOOLEAN /\ room.revision \in 0..MaxRevision
  BY DEF IInv, Delivery, Call
<1>2. /\ Sound(d, room.open) /\ d.connections[a] = NoSession /\ d.sockets = gw.sockets
  BY <1>1, DetachSound DEF IInv, Same
<1>. HIDE DEF a, s, d
<1>3. ASSUME Connected(a)
      PROVE  /\ Sound(g, room.open) /\ g.connections[a] = NoSession
             /\ g.activeSessions[s] = NoSocket /\ a \in g.sockets
  BY <1>1, <1>2, <1>3, TakenOverSound DEF Connected
<1>. HIDE DEF g
<1>4. CASE /\ Connected(a) /\ room.open
           /\ gw' = Installed(g, a, s)
           /\ calls' = (calls \ {c}) \cup {p}
  <2>1. room.open = TRUE /\ UNCHANGED <<sessions, room, pushed, endedAt>>
    BY <1>1, <1>4 DEF Attach
  <2>2. Sound(gw', room'.open)
    BY <1>1, <1>3, <1>4, <2>1, InstalledSound
  <2>3. /\ p \in Call /\ p.kind = "push" /\ p.revision = room.revision
        /\ p.live => room.revision <= endedAt[p.session]
    BY <1>1, PushTimely
  <2>. HIDE DEF p
  <2>4. Delivery'
    BY <1>4, <2>1, <2>3 DEF IInv, Delivery
  <2>5. Timely'
    BY <1>1, <1>4, <2>1, <2>3 DEF IInv, Timely
  <2>. QED BY <2>2, <2>4, <2>5 DEF IInv
<1>5. CASE /\ Connected(a) /\ ~room.open
           /\ gw' \in {gw, g}
           /\ calls' = calls \ {c}
  <2>1. UNCHANGED <<sessions, room, pushed, endedAt>>
    BY DEF Attach
  <2>. QED BY <1>3, <1>5, <2>1, CallDone DEF IInv
<1>6. CASE ~Connected(a) /\ calls' = calls \ {c} /\ UNCHANGED gw
  <2>1. UNCHANGED <<sessions, room, pushed, endedAt>>
    BY DEF Attach
  <2>. QED BY <1>6, <2>1, CallDone DEF IInv
<1>. QED BY <1>4, <1>5, <1>6 DEF Attach, a, s, d, g, p

LEMMA PushedKeeps ==
  ASSUME IInv, NEW c \in calls, Pushed(c)
  PROVE  IInv'
<1>1. c \in PushCall /\ c.kind = "push"
  BY DEF IInv, Delivery, Pushed, Call, PushCall
<1>2. calls' = calls \ {c} /\ UNCHANGED <<sessions, room, endedAt>>
  BY DEF Pushed
<1>3. CASE UNCHANGED <<gw, pushed>>
  BY <1>2, <1>3, CallDone DEF IInv
<1>4. CASE /\ TRUE \in Authorized(c) /\ UNCHANGED gw
           /\ pushed' = [pushed EXCEPT ![c.session] = Newest(@, c.revision)]
  <2>1. c.live
    BY <1>4 DEF Authorized
  <2>2. c.revision <= room.revision /\ c.revision <= endedAt[c.session]
    BY <1>1, <2>1 DEF IInv, Timely
  <2>3. c.session \in Sessions /\ c.revision \in 0..MaxRevision
    BY <1>1 DEF PushCall
  <2>4. Delivery'
    BY <1>2, <1>4, <2>3 DEF IInv, Delivery, Newest
  <2>5. Timely'
    BY <1>2, <1>4, <2>2, <2>3 DEF IInv, Delivery, Timely, Newest
  <2>. QED BY <1>2, <1>4, <2>4, <2>5 DEF IInv
<1>5. CASE gw' = Expired(c.socket) /\ UNCHANGED pushed
  <2>1. c.socket \in Sockets
    BY <1>1 DEF PushCall
  <2>. QED BY <1>2, <1>5, <2>1, ExpiredSound, CallDone DEF IInv
<1>. QED BY <1>3, <1>4, <1>5 DEF Pushed

LEMMA RequestedKeeps ==
  ASSUME IInv, NEW c \in calls, Requested(c)
  PROVE  IInv'
<1>1. c.socket \in Sockets
  BY DEF IInv, Delivery, Call
<1>2. calls' = calls \ {c} /\ UNCHANGED <<sessions, room, pushed, endedAt>>
  BY DEF Requested
<1>3. gw' = gw \/ gw' = Expired(c.socket)
  BY DEF Requested
<1>. QED BY <1>1, <1>2, <1>3, ExpiredSound, CallDone DEF IInv

LEMMA PublishKeeps ==
  ASSUME IInv, Publish
  PROVE  IInv'
<1>1. /\ room' = [room EXCEPT !.revision = @ + 1] /\ room.open
      /\ UNCHANGED <<gw, sessions, pushed, endedAt>>
  BY DEF Publish
<1>2. /\ room.revision \in 0..MaxRevision /\ room.revision + 1 \in 0..MaxRevision
      /\ room' \in [revision : 0..MaxRevision, open : BOOLEAN]
      /\ room'.revision = room.revision + 1 /\ room'.open = room.open
  <2>1. room \in [revision : 0..MaxRevision, open : BOOLEAN] /\ room.revision < MaxRevision
    BY DEF IInv, Delivery, Publish
  <2>2. room.revision \in 0..MaxRevision /\ room.revision + 1 \in 0..MaxRevision
    BY <2>1, GatewayAssumption
  <2>. QED BY <1>1, <2>1, <2>2
<1>3. ASSUME NEW c \in calls', c \notin calls
      PROVE  /\ c \in Call /\ c.kind = "push" /\ c.revision = room.revision + 1
             /\ c.live => c.revision <= endedAt[c.session]
  <2>1. PICK a \in Sockets, s \in Sessions : c = Push(a, s, room.revision + 1)
    BY <1>3 DEF Publish
  <2>. QED BY <1>2, <2>1, PushTimely
<1>4. Delivery'
  BY <1>1, <1>2, <1>3 DEF IInv, Delivery
<1>5. Timely'
  <2>1. ASSUME NEW c \in calls', c.kind = "push"
        PROVE  c.revision <= room'.revision /\ (c.live => c.revision <= endedAt'[c.session])
    <3>1. CASE c \in calls
      <4>1. c.revision \in 0..MaxRevision
        BY <2>1, <3>1 DEF IInv, Delivery, Call
      <4>. QED BY <1>1, <1>2, <2>1, <3>1, <4>1 DEF IInv, Timely
    <3>2. CASE c \notin calls
      BY <1>1, <1>2, <1>3, <3>2
    <3>. QED BY <3>1, <3>2
  <2>2. ASSUME NEW s \in Sessions
        PROVE  pushed'[s] <= room'.revision
    BY <1>1, <1>2 DEF IInv, Delivery, Timely
  <2>. QED BY <1>1, <2>1, <2>2 DEF IInv, Timely
<1>. QED BY <1>1, <1>2, <1>4, <1>5 DEF IInv

LEMMA EndKeeps ==
  ASSUME IInv, NEW s \in Sessions, EndSession(s)
  PROVE  IInv'
<1>1. /\ sessions' = [sessions EXCEPT ![s] = FALSE] /\ UNCHANGED <<gw, calls, room, pushed>>
      /\ endedAt' = [endedAt EXCEPT ![s] = room.revision]
  BY DEF EndSession
<1>2. Delivery'
  BY <1>1 DEF IInv, Delivery
<1>3. Timely'
  <2>1. ASSUME NEW c \in calls, c.kind = "push"
        PROVE  c.revision <= room.revision /\ (c.live => c.revision <= endedAt'[c.session])
    <3>1. c.session \in Sessions
      BY DEF IInv, Delivery, Call
    <3>. QED BY <1>1, <2>1, <3>1 DEF IInv, Delivery, Timely
  <2>2. ASSUME NEW r \in Sessions
        PROVE  /\ pushed[r] <= room.revision /\ pushed[r] <= endedAt'[r]
               /\ sessions'[r] => endedAt'[r] = MaxRevision
    BY <1>1 DEF IInv, Delivery, Timely
  <2>. QED BY <1>1, <2>1, <2>2 DEF Timely
<1>. QED BY <1>1, <1>2, <1>3 DEF IInv

LEMMA GatewayNext == IInv /\ [Next]_vars => IInv'
<1>. SUFFICES ASSUME IInv, [Next]_vars
              PROVE  IInv'
  OBVIOUS
<1>1. room.open \in BOOLEAN
  BY DEF IInv, Delivery
<1>2. ASSUME NEW a \in Sockets, NEW ip \in Ips, Connect(a, ip)
      PROVE  IInv'
  <2>1. Sound(gw', room.open)
    BY <1>1, <1>2, ConnectedSound DEF Connect, Connected, IInv
  <2>. QED BY <1>2, <2>1 DEF Connect, IInv, Delivery, Timely
<1>3. ASSUME NEW a \in Sockets, Disconnect(a) \/ UnauthenticatedTimeout(a)
      PROVE  IInv'
  <2>1. Sound(gw', room.open)
    BY <1>1, <1>3, DisconnectedSound DEF Disconnect, UnauthenticatedTimeout, IInv
  <2>. QED BY <1>3, <2>1 DEF Disconnect, UnauthenticatedTimeout, IInv, Delivery, Timely
<1>4. ASSUME NEW a \in Sockets, NEW s \in Sessions, Admit(a, s)
      PROVE  IInv'
  BY <1>4 DEF Admit, IInv, Delivery, Timely, Call
<1>5. ASSUME NEW a \in Sockets, Request(a)
      PROVE  IInv'
  <2>1. gw.connections[a] \in Sessions
    BY <1>5 DEF Request, IInv, Sound, Maps
  <2>. QED BY <1>5, <2>1 DEF Request, IInv, Delivery, Timely, Call
<1>6. ASSUME NEW c \in calls, Unavailable(c)
      PROVE  IInv'
  BY <1>6, CallDone DEF Unavailable, IInv
<1>7. ASSUME CloseRoom
      PROVE  IInv'
  <2>1. /\ room' = [room EXCEPT !.open = FALSE]
        /\ UNCHANGED <<calls, sessions, pushed, endedAt>>
    BY <1>7 DEF CloseRoom
  <2>2. /\ room' \in [revision : 0..MaxRevision, open : BOOLEAN]
        /\ room'.revision = room.revision /\ room'.open = FALSE
    BY <2>1 DEF IInv, Delivery
  <2>3. Sound(gw', FALSE)
    BY <1>1, <1>7, ClosedSound DEF CloseRoom, IInv
  <2>4. (Delivery /\ Timely)'
    BY <2>1, <2>2 DEF IInv, Delivery, Timely
  <2>. QED BY <2>2, <2>3, <2>4 DEF IInv
<1>8. CASE UNCHANGED vars
  BY <1>8 DEF vars, IInv, Delivery, Timely
<1>. QED
  BY <1>2, <1>3, <1>4, <1>5, <1>6, <1>7, <1>8,
     AttachKeeps, PushedKeeps, RequestedKeeps, PublishKeeps, EndKeeps DEF Next

-----------------------------------------------------------------------------
(* The theorems                                                            *)

THEOREM GatewaySound == Spec => []IInv
BY GatewayInit, GatewayNext, PTL DEF Spec

\* Every map of the gateway keeps its type.
THEOREM GatewayTyped == Spec => []TypeOK
<1>1. IInv => TypeOK
  BY DEF IInv, Sound, Maps, Delivery, TypeOK
<1>. QED BY <1>1, GatewaySound, PTL

\* One socket speaks for a session, it is the one in the table, and it is still there.
THEOREM SessionHasOneWriter == Spec => []OneWriter
<1>1. IInv => OneWriter
  BY DEF IInv, Sound, Owned, Present, Connected, OneWriter
<1>. QED BY <1>1, GatewaySound, PTL

\* The subscriptions of a socket are those of its connection.
THEOREM SubscriptionsFollowConnections == Spec => []SubscribedOnce
<1>1. IInv => SubscribedOnce
  BY DEF IInv, Sound, Subscribed, SubscribedOnce
<1>. QED BY <1>1, GatewaySound, PTL

\* The quota counts the sockets that are there, neither more nor fewer, and is not exceeded.
THEOREM QuotaCountsSockets == Spec => []QuotaIsExact
<1>1. IInv => QuotaIsExact
  BY GatewayAssumption DEF IInv, Sound, Counted, From, Maps, QuotaIsExact, Connected
<1>. QED BY <1>1, GatewaySound, PTL

\* A session that ended is broadcast nothing decided after its end.
THEOREM NoBroadcastAfterTheEnd == Spec => []EndedSeesNoMore
<1>1. IInv => EndedSeesNoMore
  BY DEF IInv, Timely, EndedSeesNoMore
<1>. QED BY <1>1, GatewaySound, PTL
=============================================================================
