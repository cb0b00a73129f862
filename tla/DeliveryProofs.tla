---------------------------- MODULE DeliveryProofs ----------------------------
(***************************************************************************)
(* What the page owes the user (ClientDelivery): every command accounted   *)
(* for, an end to every wait, a screen that never goes back and commands   *)
(* in their order, for any sessions, commands, connections, attempts and   *)
(* revisions.  The first two depend on the order of what comes down only;  *)
(* the other two also on what is asked over each connection and answered,  *)
(* and the last on what travels towards the server and is authorised.      *)
(***************************************************************************)
EXTENDS ClientDelivery, TLAPS

\* What the packets are made of does not matter.
IsSequence(q) == \E S : q \in Seq(S)

LEMMA Elements ==
  ASSUME NEW q, IsSequence(q)
  PROVE  Len(q) \in Nat /\ (q # <<>> => Len(q) > 0)
<1>. PICK S : q \in Seq(S)
  BY DEF IsSequence
<1>. QED OBVIOUS

LEMMA JoinSequences ==
  ASSUME NEW p, NEW q, IsSequence(p), IsSequence(q)
  PROVE  /\ IsSequence(p \o q) /\ Len(p \o q) = Len(p) + Len(q)
         /\ \A i \in 1..Len(p) : (p \o q)[i] = p[i]
         /\ \A i \in 1..Len(q) : (p \o q)[Len(p) + i] = q[i]
<1>. PICK S : p \in Seq(S)
  BY DEF IsSequence
<1>. PICK T : q \in Seq(T)
  BY DEF IsSequence
<1>. DEFINE U == S \cup T
<1>1. p \in Seq(U) /\ q \in Seq(U)
  OBVIOUS
<1>. HIDE DEF U
<1>2. p \o q \in Seq(U)
  BY <1>1
<1>. QED BY <1>1, <1>2 DEF IsSequence

LEMMA TailSequence ==
  ASSUME NEW q, IsSequence(q), q # <<>>
  PROVE  /\ IsSequence(Tail(q)) /\ Len(Tail(q)) = Len(q) - 1 /\ Head(q) = q[1]
         /\ \A i \in 1..Len(Tail(q)) : Tail(q)[i] = q[i + 1]
<1>. PICK S : q \in Seq(S)
  BY DEF IsSequence
<1>1. Tail(q) \in Seq(S)
  OBVIOUS
<1>. QED BY <1>1 DEF IsSequence

LEMMA ShortSequences ==
  /\ IsSequence(<<>>)
  /\ \A x : IsSequence(<<x>>) /\ Len(<<x>>) = 1 /\ <<x>>[1] = x
  /\ \A x, y : IsSequence(<<x, y>>) /\ Len(<<x, y>>) = 2 /\ <<x, y>>[1] = x /\ <<x, y>>[2] = y
<1>1. <<>> \in Seq({})
  OBVIOUS
<1>2. ASSUME NEW x PROVE <<x>> \in Seq({x}) /\ Len(<<x>>) = 1 /\ <<x>>[1] = x
  OBVIOUS
<1>3. ASSUME NEW x, NEW y
      PROVE  <<x, y>> \in Seq({x, y}) /\ Len(<<x, y>>) = 2 /\ <<x, y>>[1] = x /\ <<x, y>>[2] = y
  OBVIOUS
<1>. QED BY ZenonT(60), <1>1, <1>2, <1>3 DEF IsSequence

-----------------------------------------------------------------------------
(* What comes down to the page                                             *)

Final == {"ok", "refused"}

\* An acceptance or a refusal of a command is the room's decision on it, by the decisions d.
Honest(x, d) ==
  x.type = "answer" /\ x.command \in Commands =>
    x.result # "none" /\ (x.result \in Final => d[x.command] = x.result)

\* Packets in the order they are sent: a hang-up is announced, a takeover is followed by one.
Orderly(q) ==
  \A i \in 1..Len(q) :
    /\ q[i].type = "bye" /\ i > 1 => q[i - 1].type \in {"replaced", "expired"}
    /\ q[i].type = "replaced" => i < Len(q) /\ q[i + 1].type = "bye"

Arriving(q, d) == IsSequence(q) /\ (\A i \in 1..Len(q) : Honest(q[i], d)) /\ Orderly(q)

\* What the server sends in one step does not begin with a hang-up.
Sent(q, d) == Arriving(q, d) /\ q # <<>> /\ q[1].type # "bye"

HasBye(q) == \E i \in 1..Len(q) : q[i].type = "bye"

LEMMA ArrivesAfter ==
  ASSUME NEW p, NEW q, NEW d, Arriving(p, d), Sent(q, d)
  PROVE  /\ Arriving(p \o q, d) /\ p \o q # <<>>
         /\ (p \o q)[1] = IF p = <<>> THEN q[1] ELSE p[1]
         /\ HasBye(p) => HasBye(p \o q)
<1>. DEFINE r == p \o q
<1>1. IsSequence(p) /\ IsSequence(q) /\ q # <<>>
  BY DEF Arriving, Sent
<1>2. Len(p) \in Nat /\ Len(q) \in Nat /\ Len(q) > 0 /\ (p # <<>> => Len(p) > 0)
  BY <1>1, Elements
<1>3. /\ IsSequence(r) /\ Len(r) = Len(p) + Len(q)
      /\ \A i \in 1..Len(p) : r[i] = p[i]
      /\ \A i \in 1..Len(q) : r[Len(p) + i] = q[i]
  BY <1>1, JoinSequences
<1>4. p = <<>> => Len(p) = 0
  OBVIOUS
<1>. HIDE DEF r
<1>5. \A i \in 1..Len(r) : i \in 1..Len(p) \/ i - Len(p) \in 1..Len(q)
  BY <1>2, <1>3
<1>6. \A i \in 1..Len(r) : i \notin 1..Len(p) => r[i] = q[i - Len(p)]
  <2>. SUFFICES ASSUME NEW i \in 1..Len(r), i \notin 1..Len(p) PROVE r[i] = q[i - Len(p)]
    OBVIOUS
  <2>1. i - Len(p) \in 1..Len(q) /\ Len(p) + (i - Len(p)) = i
    BY <1>2, <1>5
  <2>. QED BY <1>3, <2>1
<1>7. \A i \in 1..Len(r) : Honest(r[i], d)
  BY <1>3, <1>5, <1>6 DEF Arriving, Sent
<1>8. \A i \in 1..Len(r) : r[i].type = "bye" /\ i > 1 => r[i - 1].type \in {"replaced", "expired"}
  <2>. SUFFICES ASSUME NEW i \in 1..Len(r), r[i].type = "bye", i > 1
                PROVE  r[i - 1].type \in {"replaced", "expired"}
    OBVIOUS
  <2>1. CASE i \in 1..Len(p)
    <3>1. i - 1 \in 1..Len(p)
      BY <1>2, <2>1
    <3>. QED BY <1>3, <2>1, <3>1 DEF Arriving, Orderly
  <2>2. CASE i \notin 1..Len(p)
    <3>1. i - Len(p) \in 1..Len(q) /\ q[i - Len(p)].type = "bye"
      BY <1>5, <1>6, <2>2
    <3>2. i - Len(p) > 1
      BY <3>1, <1>2 DEF Sent
    <3>3. (i - Len(p)) - 1 \in 1..Len(q) /\ Len(p) + ((i - Len(p)) - 1) = i - 1
      BY <1>2, <3>1, <3>2
    <3>4. q[(i - Len(p)) - 1].type \in {"replaced", "expired"}
      BY <3>1, <3>2 DEF Sent, Arriving, Orderly
    <3>. QED BY <1>3, <3>3, <3>4
  <2>. QED BY <2>1, <2>2
<1>9. \A i \in 1..Len(r) : r[i].type = "replaced" => i < Len(r) /\ r[i + 1].type = "bye"
  <2>. SUFFICES ASSUME NEW i \in 1..Len(r), r[i].type = "replaced"
                PROVE  i < Len(r) /\ r[i + 1].type = "bye"
    OBVIOUS
  <2>1. CASE i \in 1..Len(p)
    <3>1. i < Len(p) /\ p[i + 1].type = "bye"
      BY <1>3, <2>1 DEF Arriving, Orderly
    <3>2. i + 1 \in 1..Len(p) /\ i < Len(r)
      BY <1>2, <1>3, <2>1, <3>1
    <3>. QED BY <1>3, <3>1, <3>2
  <2>2. CASE i \notin 1..Len(p)
    <3>1. i - Len(p) \in 1..Len(q) /\ q[i - Len(p)].type = "replaced"
      BY <1>5, <1>6, <2>2
    <3>2. i - Len(p) < Len(q) /\ q[(i - Len(p)) + 1].type = "bye"
      BY <3>1 DEF Sent, Arriving, Orderly
    <3>3. (i - Len(p)) + 1 \in 1..Len(q) /\ Len(p) + ((i - Len(p)) + 1) = i + 1 /\ i < Len(r)
      BY SMTT(60), <1>2, <1>3, <3>1, <3>2
    <3>. QED BY <1>3, <3>2, <3>3
  <2>. QED BY <2>1, <2>2
<1>10. Arriving(r, d)
  BY <1>3, <1>7, <1>8, <1>9 DEF Arriving, Orderly
<1>11. r # <<>> /\ r[1] = IF p = <<>> THEN q[1] ELSE p[1]
  <2>1. CASE p = <<>>
    <3>1. 1 \in 1..Len(q) /\ r[Len(p) + 1] = q[1]
      BY <1>2, <1>3
    <3>. QED BY <1>2, <1>3, <1>4, <2>1, <3>1
  <2>2. CASE p # <<>>
    BY <1>2, <1>3, <2>2
  <2>. QED BY <2>1, <2>2
<1>12. HasBye(p) => HasBye(r)
  BY <1>2, <1>3 DEF HasBye
<1>. QED BY <1>10, <1>11, <1>12 DEF r

\* The first packet is received.
LEMMA ArrivesNext ==
  ASSUME NEW q, NEW d, Arriving(q, d), q # <<>>
  PROVE  /\ Arriving(Tail(q), d) /\ Head(q) = q[1] /\ Honest(Head(q), d)
         /\ Tail(q) # <<>> /\ Tail(q)[1].type = "bye" => Head(q).type \in {"replaced", "expired"}
         /\ Head(q).type = "replaced" => HasBye(Tail(q))
         /\ HasBye(q) /\ Head(q).type # "bye" => HasBye(Tail(q))
<1>. DEFINE r == Tail(q)
<1>1. IsSequence(q)
  BY DEF Arriving
<1>2. Len(q) \in Nat /\ Len(q) > 0
  BY <1>1, Elements
<1>3. /\ IsSequence(r) /\ Len(r) = Len(q) - 1 /\ Head(q) = q[1]
      /\ \A i \in 1..Len(r) : r[i] = q[i + 1]
  BY <1>1, TailSequence
<1>. HIDE DEF r
<1>4. r # <<>> => Len(r) > 0
  BY <1>3, Elements
<1>5. \A i \in 1..Len(r) : i + 1 \in 1..Len(q)
  BY <1>2, <1>3
<1>6. \A i \in 1..Len(r) : Honest(r[i], d)
  BY <1>3, <1>5 DEF Arriving
<1>7. \A i \in 1..Len(r) : r[i].type = "bye" /\ i > 1 => r[i - 1].type \in {"replaced", "expired"}
  <2>. SUFFICES ASSUME NEW i \in 1..Len(r), r[i].type = "bye", i > 1
                PROVE  r[i - 1].type \in {"replaced", "expired"}
    OBVIOUS
  <2>1. i + 1 \in 1..Len(q) /\ i + 1 > 1 /\ (i + 1) - 1 = i /\ i - 1 \in 1..Len(r) /\ (i - 1) + 1 = i
    BY <1>2, <1>3, <1>5
  <2>. QED BY <1>3, <2>1 DEF Arriving, Orderly
<1>8. \A i \in 1..Len(r) : r[i].type = "replaced" => i < Len(r) /\ r[i + 1].type = "bye"
  <2>. SUFFICES ASSUME NEW i \in 1..Len(r), r[i].type = "replaced"
                PROVE  i < Len(r) /\ r[i + 1].type = "bye"
    OBVIOUS
  <2>1. i + 1 \in 1..Len(q) /\ q[i + 1].type = "replaced"
    BY <1>3, <1>5
  <2>2. i + 1 < Len(q) /\ q[(i + 1) + 1].type = "bye"
    BY <2>1 DEF Arriving, Orderly
  <2>3. i + 1 \in 1..Len(r)
    BY <1>2, <1>3, <2>1, <2>2
  <2>. QED BY <1>3, <2>2, <2>3
<1>9. Arriving(r, d)
  BY <1>3, <1>6, <1>7, <1>8 DEF Arriving, Orderly
<1>10. Head(q) = q[1] /\ 1 \in 1..Len(q) /\ Honest(Head(q), d)
  BY <1>2, <1>3 DEF Arriving
<1>11. r # <<>> /\ r[1].type = "bye" => Head(q).type \in {"replaced", "expired"}
  <2>. SUFFICES ASSUME r # <<>>, r[1].type = "bye" PROVE q[1].type \in {"replaced", "expired"}
    BY <1>3
  <2>1. 1 \in 1..Len(r) /\ 2 \in 1..Len(q) /\ r[1] = q[2] /\ 2 > 1 /\ 2 - 1 = 1
    BY <1>2, <1>3, <1>4
  <2>. QED BY <2>1 DEF Arriving, Orderly
<1>12. Head(q).type = "replaced" => HasBye(r)
  <2>. SUFFICES ASSUME q[1].type = "replaced" PROVE HasBye(r)
    BY <1>3
  <2>1. 1 < Len(q) /\ q[1 + 1].type = "bye"
    BY <1>10 DEF Arriving, Orderly
  <2>2. 1 \in 1..Len(r) /\ r[1] = q[1 + 1]
    BY <1>2, <1>3, <2>1
  <2>. QED BY <2>1, <2>2 DEF HasBye
<1>13. HasBye(q) /\ Head(q).type # "bye" => HasBye(r)
  <2>. SUFFICES ASSUME NEW i \in 1..Len(q), q[i].type = "bye", Head(q).type # "bye" PROVE HasBye(r)
    BY DEF HasBye
  <2>1. i # 1
    BY <1>10
  <2>2. i - 1 \in 1..Len(r) /\ (i - 1) + 1 = i
    BY <1>2, <1>3, <2>1
  <2>. QED BY <1>3, <2>2 DEF HasBye
<1>. QED BY <1>9, <1>10, <1>11, <1>12, <1>13 DEF r

-----------------------------------------------------------------------------
(* The sessions that the two speak of                                      *)

\* Packets and calls, but for those of some types, are for a session.
Speak(q, silent) == IsSequence(q) /\ \A i \in 1..Len(q) : q[i].type \notin silent => q[i].session \in Sessions

LEMMA SpeakJoined ==
  ASSUME NEW p, NEW q, NEW silent, Speak(p, silent), Speak(q, silent)
  PROVE  Speak(p \o q, silent)
<1>. DEFINE r == p \o q
<1>1. /\ IsSequence(r) /\ Len(r) = Len(p) + Len(q)
      /\ \A i \in 1..Len(p) : r[i] = p[i]
      /\ \A i \in 1..Len(q) : r[Len(p) + i] = q[i]
  BY JoinSequences DEF Speak
<1>2. Len(p) \in Nat /\ Len(q) \in Nat
  BY Elements DEF Speak
<1>. HIDE DEF r
<1>3. ASSUME NEW i \in 1..Len(r), r[i].type \notin silent PROVE r[i].session \in Sessions
  <2>1. CASE i \in 1..Len(p)
    BY <1>1, <1>3, <2>1 DEF Speak
  <2>2. CASE i \notin 1..Len(p)
    <3>1. i - Len(p) \in 1..Len(q) /\ Len(p) + (i - Len(p)) = i
      BY <1>1, <1>2, <2>2
    <3>. QED BY <1>1, <1>3, <3>1 DEF Speak
  <2>. QED BY <2>1, <2>2
<1>. QED BY <1>1, <1>3 DEF Speak, r

LEMMA SpeakAppended ==
  ASSUME NEW q, NEW x, NEW silent, Speak(q, silent), x.type \notin silent => x.session \in Sessions
  PROVE  Speak(Append(q, x), silent)
<1>1. Append(q, x) = q \o <<x>>
  <2>. PICK S : q \in Seq(S)
    BY DEF Speak, IsSequence
  <2>. q \in Seq(S \cup {x})
    OBVIOUS
  <2>. QED OBVIOUS
<1>2. Speak(<<x>>, silent)
  BY ShortSequences DEF Speak
<1>. QED BY <1>1, <1>2, SpeakJoined

LEMMA SpeakNext ==
  ASSUME NEW q, NEW silent, Speak(q, silent), q # <<>>
  PROVE  Speak(Tail(q), silent) /\ (Head(q).type \notin silent => Head(q).session \in Sessions)
<1>1. Len(q) \in Nat /\ Len(q) > 0
  BY Elements DEF Speak
<1>2. /\ IsSequence(Tail(q)) /\ Len(Tail(q)) = Len(q) - 1 /\ Head(q) = q[1]
      /\ \A i \in 1..Len(Tail(q)) : Tail(q)[i] = q[i + 1]
  BY TailSequence DEF Speak
<1>. QED BY <1>1, <1>2 DEF Speak

LEMMA SpeakWithoutFirst ==
  ASSUME NEW q, NEW silent, Speak(q, silent), q # <<>>
  PROVE  Speak(RemoveAt(q, 1), silent) /\ (q[1].type \notin silent => q[1].session \in Sessions)
<1>1. RemoveAt(q, 1) = Tail(q) /\ q[1] = Head(q)
  <2>. PICK S : q \in Seq(S)
    BY DEF Speak, IsSequence
  <2>1. SubSeq(q, 1, 0) = <<>> /\ SubSeq(q, 2, Len(q)) = Tail(q) /\ Tail(q) \in Seq(S)
    OBVIOUS
  <2>. QED BY <2>1 DEF RemoveAt
<1>. QED BY <1>1, SpeakNext

LEMMA SpeakNothing == \A silent : Speak(<<>>, silent)
BY ShortSequences DEF Speak

LEMMA SpeakOne ==
  ASSUME NEW x, NEW silent, x.type \notin silent => x.session \in Sessions
  PROVE  Speak(<<x>>, silent)
BY ShortSequences DEF Speak

-----------------------------------------------------------------------------
(* The invariant                                                           *)

Fields == {"conn", "dialing", "token", "pending", "attempts", "timer", "request", "busy", "shown"}

\* The parts of CommandIsAccountedFor, and that only what was submitted is pending or told of.
Outbox ==
  /\ DOMAIN page = Fields /\ page.pending \in Commands \cup {NoCommand}
  /\ DOMAIN told = Commands /\ DOMAIN issued = Commands
  /\ decided \in [Commands -> {"none"} \cup Final]
  /\ \A c \in Commands : issued[c] = NoSession => told[c] = "none" /\ page.pending # c
  /\ CommandIsAccountedFor

\* A hang-up is read with nothing pending and nothing shown.
Coming ==
  /\ Arriving(down, decided)
  /\ down # <<>> /\ down[1].type = "bye" => page.pending = NoCommand /\ page.shown = NoView

Owed == BusyIsOwed /\ (page.conn # 0 => page.dialing)

IInv == Outbox /\ Coming /\ Owed

\* The page has its session from the server, or from the way it was let in.
Named(p) ==
  /\ p.token \in Sessions \cup {NoSession}
  /\ p.request = NoRequest \/ p.request.session \in Sessions
  /\ p.shown = NoView \/ p.shown.session \in Sessions

LEMMA NotACommand == NoCommand \notin Commands
BY DeliveryAssumption DEF NoCommand, Commands

LEMMA Initially == Init => IInv
<1>. SUFFICES ASSUME Init PROVE IInv
  OBVIOUS
<1>1. DOMAIN page = Fields /\ page.pending = NoCommand /\ ~page.busy /\ page.conn = 0
  BY DEF Init, Fresh, Fields
<1>2. Outbox
  BY <1>1, NotACommand DEF Init, Outbox, CommandIsAccountedFor, Final
<1>3. Coming
  BY ShortSequences DEF Init, Coming, Arriving, Orderly
<1>4. Owed
  BY <1>1 DEF Owed, BusyIsOwed
<1>. QED BY <1>2, <1>3, <1>4 DEF IInv

\* The page's record of commands does not change.
LEMMA Quiet ==
  ASSUME Outbox, DOMAIN page' = Fields, page'.pending = page.pending, UNCHANGED <<told, issued, decided>>
  PROVE  Outbox'
BY DEF Outbox, CommandIsAccountedFor

\* The pending command is given up.
LEMMA GivesUp ==
  ASSUME Outbox, DOMAIN page' = Fields, page'.pending = NoCommand, told' = GivenUp,
         UNCHANGED <<issued, decided>>
  PROVE  Outbox'
<1>1. CASE page.pending = NoCommand
  BY <1>1, Quiet DEF GivenUp
<1>2. CASE page.pending # NoCommand
  <2>1. /\ page.pending \in Commands /\ DOMAIN told' = Commands /\ told'[page.pending] = "given up"
        /\ \A c \in Commands \ {page.pending} : told'[c] = told[c]
    BY <1>2 DEF GivenUp, Outbox
  <2>. QED BY ZenonT(60), <1>2, <2>1, NotACommand DEF Outbox, CommandIsAccountedFor, Final
<1>. QED BY <1>1, <1>2

\* The room's decisions are final.
Sticks(d, e) == \A c \in Commands : d[c] \in Final => e[c] = d[c]

LEMMA ArrivesLater ==
  ASSUME NEW q, NEW d, NEW e, Arriving(q, d), Sticks(d, e)
  PROVE  Arriving(q, e)
<1>. ASSUME NEW x, Honest(x, d) PROVE Honest(x, e)
  BY DEF Honest, Sticks
<1>. QED BY DEF Arriving

\* The server sends something, or nothing, and the page is as it was.
LEMMA ServerSends ==
  ASSUME IInv, UNCHANGED <<page, told, issued, decided>>,
         down' = down \/ \E n, packets : Sent(packets, decided) /\ down' = Emitted(n, packets)
  PROVE  IInv'
<1>1. Outbox'
  BY Quiet DEF IInv, Outbox
<1>2. CASE down' = down
  BY <1>1, <1>2 DEF IInv, Coming, Owed, BusyIsOwed
<1>3. CASE \E packets : Sent(packets, decided) /\ down' = down \o packets
  <2>. PICK packets : Sent(packets, decided) /\ down' = down \o packets
    BY <1>3
  <2>1. /\ Arriving(down', decided')
        /\ down'[1] = IF down = <<>> THEN packets[1] ELSE down[1]
        /\ HasBye(down) => HasBye(down')
    BY ArrivesAfter DEF IInv, Coming
  <2>2. Coming'
    BY <2>1 DEF IInv, Coming, Sent
  <2>3. Owed'
    BY <2>1 DEF IInv, Owed, BusyIsOwed, HasBye
  <2>. QED BY <1>1, <2>2, <2>3 DEF IInv
<1>. QED BY <1>2, <1>3 DEF Emitted

-----------------------------------------------------------------------------
(* The steps of the server and of others                                   *)

LEMMA OnePacket ==
  ASSUME NEW x, NEW d, Honest(x, d), x.type # "bye", x.type # "replaced"
  PROVE  Sent(<<x>>, d)
BY ShortSequences DEF Sent, Arriving, Orderly

\* The announcement of a hang-up, and the hang-up.
LEMMA LastPackets ==
  ASSUME NEW x, NEW y, NEW d, x.type \in {"replaced", "expired"}, y.type = "bye"
  PROVE  Sent(<<x, y>>, d)
<1>. DEFINE q == <<x, y>>
<1>1. IsSequence(q) /\ Len(q) = 2 /\ q[1] = x /\ q[2] = y /\ q # <<>>
  BY ShortSequences
<1>. HIDE DEF q
<1>2. \A i \in 1..Len(q) : i = 1 \/ i = 2
  BY <1>1
<1>3. \A i \in 1..Len(q) : Honest(q[i], d)
  BY <1>1, <1>2 DEF Honest
<1>4. Orderly(q)
  BY <1>1, <1>2 DEF Orderly
<1>5. Sent(q, d)
  BY <1>1, <1>3, <1>4 DEF Sent, Arriving
<1>. QED BY <1>5 DEF q

LEMMA PacketsAreSent ==
  ASSUME NEW d
  PROVE  /\ \A e, ok : Sent(<<EntryAnswer(e, ok)>>, d)
         /\ \A c : Sent(<<Answer(c, "failed")>>, d)
         /\ Sent(Replaced, d)
         /\ Sent(<<[type |-> "expired"], [type |-> "bye"]>>, d)
         /\ \A s, n : Sent(<<[type |-> "state", session |-> s, revision |-> n]>>, d)
<1>1. ASSUME NEW e, NEW ok PROVE Sent(<<EntryAnswer(e, ok)>>, d)
  <2>. EntryAnswer(e, ok).type = "entered"
    BY DEF EntryAnswer
  <2>. QED BY OnePacket DEF Honest
<1>2. ASSUME NEW c PROVE Sent(<<Answer(c, "failed")>>, d)
  <2>. Answer(c, "failed").type = "answer" /\ Honest(Answer(c, "failed"), d)
    BY DEF Answer, Honest, Final
  <2>. QED BY OnePacket
<1>3. Sent(Replaced, d) /\ Sent(<<[type |-> "expired"], [type |-> "bye"]>>, d)
  BY LastPackets DEF Replaced
<1>4. ASSUME NEW s, NEW n PROVE Sent(<<[type |-> "state", session |-> s, revision |-> n]>>, d)
  BY OnePacket DEF Honest
<1>. QED BY <1>1, <1>2, <1>3, <1>4

LEMMA ExpireSends ==
  ASSUME NEW n, NEW packets, Expire(n, packets), NEW d, packets = <<>> \/ Sent(packets, d)
  PROVE  \E ps : Sent(ps, d) /\ down' = Emitted(n, ps)
<1>. DEFINE last == <<[type |-> "expired"], [type |-> "bye"]>>
<1>1. Sent(last, d)
  BY PacketsAreSent
<1>. HIDE DEF last
<1>2. down' = Emitted(n, packets \o last)
  BY DEF Expire, last
<1>3. CASE packets = <<>>
  <2>1. Arriving(<<>>, d)
    BY ShortSequences DEF Arriving, Orderly
  <2>2. Sent(<<>> \o last, d)
    BY <1>1, <2>1, ArrivesAfter DEF Sent
  <2>. QED BY <1>2, <1>3, <2>2
<1>4. CASE packets # <<>>
  <2>1. Sent(packets \o last, d)
    BY <1>1, <1>4, ArrivesAfter DEF Sent
  <2>. QED BY <1>2, <2>1
<1>. QED BY <1>3, <1>4

LEMMA RefuseAtOnceSteps == ASSUME IInv, NEW n, RefuseAtOnce(n) PROVE IInv'
BY ServerSends, PacketsAreSent DEF RefuseAtOnce, user

LEMMA AttachSteps == ASSUME IInv, NEW e, Attach(e) PROVE IInv'
BY ServerSends, PacketsAreSent DEF Attach, user

LEMMA RefuseSteps == ASSUME IInv, NEW e, Refuse(e) PROVE IInv'
BY ServerSends, PacketsAreSent DEF Refuse, user

LEMMA PushSteps == ASSUME IInv, NEW i, AuthorizePush(i) PROVE IInv'
BY ServerSends, PacketsAreSent, ExpireSends DEF AuthorizePush, user

LEMMA OtherPageSteps == ASSUME IInv, NEW s, OtherPage(s) PROVE IInv'
BY ServerSends, PacketsAreSent DEF OtherPage, user

\* The room decides: its answer is honest, and no earlier one ceases to be.
LEMMA DispatchSteps == ASSUME IInv, NEW i, Dispatch(i) PROVE IInv'
<1>. DEFINE c == calls[i].command
            s == calls[i].session
<1>1. PICK verdict \in Verdicts(c, s) :
        /\ down' = Emitted(calls[i].conn, <<Answer(c, verdict)>>)
        /\ decided' = [decided EXCEPT ![c] = IF verdict \in {"ok", "refused"} THEN verdict ELSE @]
  BY DEF Dispatch
<1>2. UNCHANGED <<page, told, issued>>
  BY DEF Dispatch, user
<1>. HIDE DEF c, s
<1>3. decided \in [Commands -> {"none"} \cup Final]
  BY DEF IInv, Outbox
<1>4. c \in Commands /\ verdict \in Final => decided[c] = "none" \/ decided[c] = verdict
  BY <1>3 DEF Verdicts, Final
<1>5. c \in Commands => verdict # "none"
  BY <1>3 DEF Verdicts, Final
<1>6. decided' \in [Commands -> {"none"} \cup Final] /\ Sticks(decided, decided')
  BY <1>1, <1>3, <1>4 DEF Sticks, Final
<1>7. Honest(Answer(c, verdict), decided')
  BY <1>1, <1>3, <1>5 DEF Honest, Answer, Final
<1>8. Sent(<<Answer(c, verdict)>>, decided')
  <2>. Answer(c, verdict).type = "answer"
    BY DEF Answer
  <2>. QED BY <1>7, OnePacket
<1>9. Outbox'
  BY <1>2, <1>6 DEF IInv, Outbox, CommandIsAccountedFor, Sticks, Final
<1>10. Arriving(down, decided')
  BY <1>6, ArrivesLater DEF IInv, Coming
<1>11. CASE down' = down
  BY <1>2, <1>9, <1>10, <1>11 DEF IInv, Coming, Owed, BusyIsOwed
<1>12. CASE down' = down \o <<Answer(c, verdict)>>
  <2>. DEFINE q == <<Answer(c, verdict)>>
  <2>. HIDE DEF q
  <2>1. /\ Arriving(down', decided')
        /\ down'[1] = IF down = <<>> THEN q[1] ELSE down[1]
        /\ HasBye(down) => HasBye(down')
    BY <1>8, <1>10, <1>12, ArrivesAfter DEF q
  <2>2. q[1].type # "bye"
    BY <1>8 DEF Sent, q
  <2>3. Coming'
    BY <1>2, <2>1, <2>2 DEF IInv, Coming
  <2>4. Owed'
    BY <1>2, <2>1 DEF IInv, Owed, BusyIsOwed, HasBye
  <2>. QED BY <1>9, <2>3, <2>4 DEF IInv
<1>. QED BY <1>1, <1>11, <1>12 DEF Emitted

LEMMA CommandSteps == ASSUME IInv, NEW i, AuthorizeCommand(i) PROVE IInv'
<1>1. CASE Dispatch(i)
  BY <1>1, DispatchSteps
<1>2. CASE /\ Expire(calls[i].conn, <<Answer(calls[i].command, "failed")>>)
           /\ UNCHANGED <<page, decided, user>>
  <2>1. Sent(<<Answer(calls[i].command, "failed")>>, decided)
    BY PacketsAreSent
  <2>2. \E ps : Sent(ps, decided) /\ down' = Emitted(calls[i].conn, ps)
    BY <1>2, <2>1, ExpireSends
  <2>. QED BY <1>2, <2>2, ServerSends DEF user
<1>. QED BY <1>1, <1>2 DEF AuthorizeCommand

-----------------------------------------------------------------------------
(* The steps of the page                                                   *)

\* What the page's operations leave as it is.
LEMMA Forms ==
  ASSUME NEW p, DOMAIN p = Fields
  PROVE  /\ DOMAIN Paused(p) = Fields /\ Paused(p).pending = p.pending /\ Paused(p).busy = p.busy
         /\ Named(p) => /\ Named(Paused(p)) /\ Named(Cleared(p)) /\ Named(Attempt(p))
                        /\ Named(Disconnected(p)) /\ Named(Forgotten(p))
         /\ DOMAIN Cleared(p) = Fields /\ Cleared(p).pending = NoCommand
         /\ Cleared(p).conn = p.conn /\ Cleared(p).dialing = p.dialing
         /\ DOMAIN Attempt(p) = Fields /\ Attempt(p).pending = p.pending /\ Attempt(p).timer
         /\ Attempt(p).conn = p.conn /\ Attempt(p).dialing = p.dialing /\ Attempt(p).shown = p.shown
         /\ DOMAIN Disconnected(p) = Fields /\ Disconnected(p).pending = p.pending
         /\ Disconnected(p).conn = 0 /\ Disconnected(p).dialing = p.dialing
         /\ Disconnected(p).busy => p.pending # NoCommand
         /\ DOMAIN Forgotten(p) = Fields /\ Forgotten(p).pending = NoCommand /\ Forgotten(p).shown = NoView
         /\ Forgotten(p).conn = p.conn /\ Forgotten(p).dialing = p.dialing /\ Forgotten(p).busy = p.busy
BY DEF Fields, Paused, Cleared, Attempt, Disconnected, Forgotten, Named

LEMMA AskingForm ==
  ASSUME NEW p, DOMAIN p = Fields, NEW request
  PROVE  /\ DOMAIN Asking(p, request) = Fields /\ Asking(p, request).pending = p.pending
         /\ Asking(p, request).request = request /\ Asking(p, request).shown = p.shown
         /\ Asking(p, request).conn = p.conn /\ Asking(p, request).dialing = p.dialing
BY DEF Fields, Asking

\* The page takes up another connection, or none: nothing comes down, and it makes the next one itself.
LEMMA Redials ==
  ASSUME Outbox', down' = <<>>, page'.conn = 0, page'.dialing
  PROVE  IInv'
<1>1. Coming'
  BY ShortSequences DEF Coming, Arriving, Orderly
<1>2. Owed'
  BY DEF Owed, BusyIsOwed
<1>. QED BY <1>1, <1>2 DEF IInv

LEMMA ConnectSteps == ASSUME IInv, NEW n \in Conns, Connect(n) PROVE IInv'
<1>. DEFINE up == [page EXCEPT !.conn = n]
            resume == [kind |-> "resume", session |-> page.token]
<1>1. /\ DOMAIN up = Fields /\ up.pending = page.pending /\ up.dialing = page.dialing /\ up.shown = page.shown
      /\ up.conn = n
  BY DEF IInv, Outbox, Fields
<1>2. UNCHANGED <<down, issued, decided>> /\ page.dialing
  BY DEF Connect, server
<1>3. resume # NoRequest
  <2>. resume.kind # NoRequest.kind
    BY DEF NoRequest
  <2>. QED OBVIOUS
<1>. HIDE DEF up, resume
<1>4. CASE page' = [Cleared(up) EXCEPT !.busy = FALSE] /\ told' = GivenUp
  <2>1. /\ DOMAIN page' = Fields /\ page'.pending = NoCommand /\ ~page'.busy /\ page'.dialing
        /\ page'.shown = page.shown
    BY <1>1, <1>2, <1>4, Forms DEF Fields, Cleared
  <2>2. Outbox'
    BY <1>2, <1>4, <2>1, GivesUp DEF IInv
  <2>3. Coming' /\ Owed'
    BY <1>2, <2>1 DEF IInv, Coming, Owed, BusyIsOwed
  <2>. QED BY <2>2, <2>3 DEF IInv
<1>5. CASE page' = Asking(up, resume) /\ told' = told
  <2>1. /\ DOMAIN page' = Fields /\ page'.pending = page.pending /\ page'.request # NoRequest
        /\ page'.dialing /\ page'.shown = page.shown
    BY <1>1, <1>2, <1>3, <1>5, AskingForm
  <2>2. Outbox'
    BY <1>2, <1>5, <2>1, Quiet DEF IInv
  <2>3. Coming' /\ Owed'
    BY <1>2, <2>1 DEF IInv, Coming, Owed, BusyIsOwed
  <2>. QED BY <2>2, <2>3 DEF IInv
<1>. QED BY <1>4, <1>5 DEF Connect, up, resume

LEMMA LinkLostSteps == IInv /\ LinkLost => IInv'
<1>. SUFFICES ASSUME IInv, LinkLost PROVE IInv'
  OBVIOUS
<1>1. page.dialing
  BY DeliveryAssumption DEF LinkLost, IInv, Owed
<1>2. DOMAIN page' = Fields /\ page'.pending = page.pending /\ page'.conn = 0 /\ page'.dialing /\ down' = <<>>
  BY <1>1, Forms DEF LinkLost, IInv, Outbox
<1>. QED BY <1>2, Quiet, Redials DEF LinkLost, server, user, IInv

LEMMA ReloadSteps == IInv /\ Reload => IInv'
<1>. SUFFICES ASSUME IInv, Reload PROVE IInv'
  OBVIOUS
<1>1. DOMAIN page' = Fields /\ page'.pending = page.pending /\ page'.conn = 0 /\ page'.dialing /\ down' = <<>>
  BY DEF Reload, Fresh, Fields
<1>. QED BY <1>1, Quiet, Redials DEF Reload, server, user, IInv

LEMMA LeaveSteps == IInv /\ Leave => IInv'
<1>. SUFFICES ASSUME IInv, Leave PROVE IInv'
  OBVIOUS
<1>1. /\ DOMAIN Disconnected(Forgotten(page)) = Fields /\ Disconnected(Forgotten(page)).pending = NoCommand
      /\ Disconnected(Forgotten(page)).conn = 0
  BY Forms DEF IInv, Outbox
<1>2. DOMAIN page' = Fields /\ page'.pending = NoCommand /\ page'.conn = 0 /\ page'.dialing /\ down' = <<>>
  BY <1>1 DEF Leave, Fields
<1>. QED BY <1>2, GivesUp, Redials DEF Leave, server, IInv

\* The page asks to be let in.
LEMMA AskSteps ==
  ASSUME IInv, NEW p, NEW request, DOMAIN p = Fields, p.pending = page.pending, p.shown = page.shown,
         p.conn = page.conn, p.dialing = page.dialing, request # NoRequest,
         page' = Asking(p, request), UNCHANGED <<down, told, issued, decided>>
  PROVE  IInv'
<1>1. /\ DOMAIN page' = Fields /\ page'.pending = page.pending /\ page'.request # NoRequest
      /\ page'.conn = page.conn /\ page'.dialing = page.dialing /\ page'.shown = page.shown
  BY AskingForm
<1>2. Outbox'
  BY <1>1, Quiet DEF IInv
<1>3. Coming' /\ Owed'
  BY <1>1 DEF IInv, Coming, Owed, BusyIsOwed
<1>. QED BY <1>2, <1>3 DEF IInv

LEMMA EnterSteps == ASSUME IInv, NEW s, Enter(s) PROVE IInv'
<1>. DEFINE request == [kind |-> "enter", session |-> s]
<1>1. request # NoRequest
  <2>. request.kind # NoRequest.kind
    BY DEF NoRequest
  <2>. QED OBVIOUS
<1>2. page' = Asking(page, request) /\ UNCHANGED <<down, decided, told, issued>>
  BY DEF Enter, user
<1>. QED BY <1>1, <1>2, AskSteps DEF IInv, Outbox

LEMMA FoundSteps == ASSUME IInv, NEW s, Found(s) PROVE IInv'
<1>. DEFINE request == [kind |-> "matched", session |-> s]
            p == [page EXCEPT !.token = s]
<1>1. request # NoRequest
  <2>. request.kind # NoRequest.kind
    BY DEF NoRequest
  <2>. QED OBVIOUS
<1>2. page' = [Asking(page, request) EXCEPT !.token = s] /\ UNCHANGED <<down, decided, told, issued>>
  BY DEF Found, user
<1>3. /\ DOMAIN p = Fields /\ p.pending = page.pending /\ p.shown = page.shown
      /\ p.conn = page.conn /\ p.dialing = page.dialing
  BY DEF IInv, Outbox, Fields
<1>4. Asking(p, request) = [Asking(page, request) EXCEPT !.token = s]
  BY DEF Asking, IInv, Outbox, Fields
<1>. QED BY <1>1, <1>2, <1>3, <1>4, AskSteps

LEMMA RequestTimeoutSteps == IInv /\ RequestTimeout => IInv'
<1>. SUFFICES ASSUME IInv, RequestTimeout PROVE IInv'
  OBVIOUS
<1>1. /\ DOMAIN page' = Fields /\ page'.pending = page.pending /\ ~page'.busy
      /\ page'.conn = page.conn /\ page'.dialing = page.dialing /\ page'.shown = page.shown
  BY DEF RequestTimeout, IInv, Outbox, Fields
<1>2. UNCHANGED <<down, told, issued, decided>>
  BY DEF RequestTimeout, server, user
<1>3. Outbox'
  BY <1>1, <1>2, Quiet DEF IInv
<1>. QED BY <1>1, <1>2, <1>3 DEF IInv, Coming, Owed, BusyIsOwed

LEMMA CommandTimeoutSteps == IInv /\ CommandTimeout => IInv'
<1>. SUFFICES ASSUME IInv, CommandTimeout PROVE IInv'
  OBVIOUS
<1>. DOMAIN page = Fields
  BY DEF IInv, Outbox
<1>1. /\ DOMAIN page' = Fields /\ page'.pending = page.pending /\ (page'.busy => page'.timer)
      /\ page'.conn = page.conn /\ page'.dialing = page.dialing /\ page'.shown = page.shown
  <2>1. CASE page' = Attempt(page)
    BY <2>1, Forms
  <2>2. CASE page' = [Paused(page) EXCEPT !.busy = FALSE]
    BY <2>2 DEF Paused, Fields
  <2>. QED BY <2>1, <2>2 DEF CommandTimeout
<1>2. UNCHANGED <<down, told, issued, decided>>
  BY DEF CommandTimeout, server, user
<1>3. Outbox'
  BY <1>1, <1>2, Quiet DEF IInv
<1>. QED BY <1>1, <1>2, <1>3 DEF IInv, Coming, Owed, BusyIsOwed

\* A command is new, so that nothing was told of it.
LEMMA SubmitSteps == ASSUME IInv, Named(page), NEW c \in Commands, Submit(c) PROVE IInv'
<1>. DEFINE p == [page EXCEPT !.pending = c, !.attempts = 0, !.busy = TRUE]
<1>1. /\ DOMAIN p = Fields /\ p.pending = c
      /\ p.conn = page.conn /\ p.dialing = page.dialing /\ p.shown = page.shown
  BY DEF IInv, Outbox, Fields
<1>2. page' = Attempt(p) /\ UNCHANGED <<down, told, decided>>
  BY DEF Submit, server
<1>. HIDE DEF p
<1>3. /\ DOMAIN page' = Fields /\ page'.pending = c /\ page'.timer
      /\ page'.conn = page.conn /\ page'.dialing = page.dialing
  BY <1>1, <1>2, Forms
<1>4. /\ page.pending = NoCommand /\ issued[c] = NoSession /\ page.shown # NoView
      /\ issued' = [issued EXCEPT ![c] = page.shown.session]
  BY DEF Submit, MayAct
<1>5. told[c] = "none"
  BY <1>4 DEF IInv, Outbox
<1>6. Outbox'
  <2>. page.shown.session # NoSession
    BY <1>4, DeliveryAssumption DEF Named
  <2>. QED BY <1>2, <1>3, <1>4, <1>5, NotACommand DEF IInv, Outbox, CommandIsAccountedFor
<1>7. ~(down # <<>> /\ down[1].type = "bye")
  BY <1>4 DEF IInv, Coming
<1>. QED BY <1>2, <1>3, <1>6, <1>7 DEF IInv, Coming, Owed, BusyIsOwed

\* What is heard.
LEMMA Heard ==
  ASSUME IInv, Receive
  PROVE  /\ down # <<>> /\ Received = down[1] /\ Honest(Received, decided)
         /\ DOMAIN page = Fields /\ UNCHANGED <<issued, decided>>
         /\ Received.type # "bye" =>
              /\ Arriving(down', decided) /\ (HasBye(down) => HasBye(down'))
              /\ Received.type \notin {"replaced", "expired"} => ~(down' # <<>> /\ down'[1].type = "bye")
         /\ Received.type = "replaced" => HasBye(down')
BY ArrivesNext DEF Receive, Received, IInv, Outbox, Coming, server

LEMMA EntryAnsweredSteps == IInv /\ Receive /\ EntryAnswered => IInv'
<1>. SUFFICES ASSUME IInv, Receive, EntryAnswered PROVE IInv'
  OBVIOUS
<1>. DEFINE p == [page EXCEPT !.request = NoRequest, !.busy = FALSE]
            in == [p EXCEPT !.shown = [session |-> Received.session, revision |-> Received.revision]]
            again == [in EXCEPT !.busy = TRUE, !.attempts = 0]
<1>1. /\ DOMAIN p = Fields /\ p.pending = page.pending /\ ~p.busy
      /\ p.conn = page.conn /\ p.dialing = page.dialing
      /\ DOMAIN in = Fields /\ in.pending = page.pending /\ ~in.busy
      /\ in.conn = page.conn /\ in.dialing = page.dialing
      /\ DOMAIN again = Fields /\ again.pending = page.pending /\ again.conn = page.conn
      /\ again.dialing = page.dialing
  BY Heard DEF Fields
<1>2. Received.type = "entered"
  BY DEF EntryAnswered
<1>3. \/ page' = page /\ told' = told
      \/ page' = Attempt(again) /\ told' = told
      \/ page' \in {in, [in EXCEPT !.token = Received.session]} /\ told' = told
      \/ page' = Forgotten(p) /\ told' = GivenUp
      \/ page' = p /\ told' = told
  BY DEF EntryAnswered
<1>4. [in EXCEPT !.token = Received.session].pending = page.pending
  BY <1>1 DEF Fields
<1>5. LET t == [in EXCEPT !.token = Received.session]
      IN DOMAIN t = Fields /\ ~t.busy /\ t.conn = page.conn /\ t.dialing = page.dialing
  BY <1>1 DEF Fields
<1>. HIDE DEF p, in, again
<1>6. /\ DOMAIN page' = Fields /\ page'.conn = page.conn /\ page'.dialing = page.dialing
      /\ page' = page \/ ~page'.busy \/ page'.timer
      /\ \/ page'.pending = page.pending /\ told' = told
         \/ page'.pending = NoCommand /\ told' = GivenUp
  <2>1. CASE page' = page /\ told' = told
    BY <2>1, Heard
  <2>2. CASE page' = Attempt(again) /\ told' = told
    BY <1>1, <2>2, Forms
  <2>3. CASE page' \in {in, [in EXCEPT !.token = Received.session]} /\ told' = told
    BY <1>1, <1>4, <1>5, <2>3
  <2>4. CASE page' = Forgotten(p) /\ told' = GivenUp
    BY <1>1, <2>4, Forms
  <2>5. CASE page' = p /\ told' = told
    BY <1>1, <2>5
  <2>. QED BY <1>3, <2>1, <2>2, <2>3, <2>4, <2>5
<1>7. Outbox'
  BY <1>6, Heard, Quiet, GivesUp DEF IInv
<1>8. Coming'
  BY <1>2, Heard DEF Coming
<1>9. Owed'
  BY <1>2, <1>6, Heard DEF IInv, Owed, BusyIsOwed, HasBye
<1>. QED BY <1>7, <1>8, <1>9 DEF IInv

LEMMA CommandAnsweredSteps == IInv /\ Receive /\ CommandAnswered => IInv'
<1>. SUFFICES ASSUME IInv, Receive, CommandAnswered PROVE IInv'
  OBVIOUS
<1>1. Received.type = "answer"
  BY DEF CommandAnswered
<1>2. CASE page' = page /\ told' = told
  <2>1. Outbox'
    BY <1>2, Heard, Quiet DEF IInv
  <2>2. Coming' /\ Owed'
    BY <1>1, <1>2, Heard DEF IInv, Coming, Owed, BusyIsOwed, HasBye
  <2>. QED BY <2>1, <2>2 DEF IInv
<1>3. CASE /\ page.pending = Received.command
           /\ page' = [Cleared(page) EXCEPT !.busy = FALSE]
           /\ told' = [told EXCEPT ![page.pending] = Received.result]
  <2>1. /\ DOMAIN page' = Fields /\ page'.pending = NoCommand /\ ~page'.busy
        /\ page'.conn = page.conn /\ page'.dialing = page.dialing
    BY <1>3, Heard, Forms DEF Fields
  <2>2. page.pending \in Commands =>
          Received.result # "none" /\ (Received.result \in Final => decided[page.pending] = Received.result)
    BY <1>1, <1>3, Heard DEF Honest
  <2>3. Outbox'
    BY <1>3, <2>1, <2>2, Heard, NotACommand DEF IInv, Outbox, CommandIsAccountedFor, Final
  <2>4. Coming' /\ Owed'
    BY <1>1, <2>1, Heard DEF IInv, Coming, Owed, BusyIsOwed
  <2>. QED BY <2>3, <2>4 DEF IInv
<1>. QED BY <1>2, <1>3 DEF CommandAnswered

LEMMA ViewShownSteps == IInv /\ Receive /\ ViewShown => IInv'
<1>. SUFFICES ASSUME IInv, Receive, ViewShown PROVE IInv'
  OBVIOUS
<1>1. Received.type = "state" /\ told' = told
  BY DEF ViewShown
<1>2. /\ DOMAIN page' = Fields /\ page'.pending = page.pending /\ page'.busy = page.busy
      /\ page'.conn = page.conn /\ page'.dialing = page.dialing /\ page'.request = page.request
      /\ page'.timer = page.timer
  BY Heard DEF ViewShown, Fields
<1>3. Outbox'
  BY <1>1, <1>2, Heard, Quiet DEF IInv
<1>4. Coming' /\ Owed'
  BY <1>1, <1>2, Heard DEF IInv, Coming, Owed, BusyIsOwed, HasBye
<1>. QED BY <1>3, <1>4 DEF IInv

LEMMA SessionGoneSteps == IInv /\ Receive /\ SessionGone => IInv'
<1>. SUFFICES ASSUME IInv, Receive, SessionGone PROVE IInv'
  OBVIOUS
<1>1. Received.type \in {"replaced", "expired"} /\ told' = GivenUp
  BY DEF SessionGone
<1>2. /\ DOMAIN page' = Fields /\ page'.pending = NoCommand /\ page'.shown = NoView
      /\ page'.conn = page.conn /\ page'.dialing = page.dialing
      /\ page'.busy => Received.type = "replaced"
  <2>. DEFINE p == Forgotten(page)
  <2>1. /\ DOMAIN p = Fields /\ p.pending = NoCommand /\ p.shown = NoView
        /\ p.conn = page.conn /\ p.dialing = page.dialing
    BY Heard, Forms
  <2>2. page' = [p EXCEPT !.busy = @ /\ Received.type = "replaced"]
    BY DEF SessionGone
  <2>. HIDE DEF p
  <2>. QED BY <2>1, <2>2 DEF Fields
<1>3. Outbox'
  BY <1>1, <1>2, Heard, GivesUp DEF IInv
<1>4. Coming'
  BY <1>1, <1>2, Heard DEF Coming
<1>5. Owed'
  BY <1>2, Heard DEF IInv, Owed, BusyIsOwed, HasBye
<1>. QED BY <1>3, <1>4, <1>5 DEF IInv

\* Nothing is pending when the server hangs up, so that the page does not wait.
LEMMA ServerHangsUpSteps == IInv /\ Receive /\ ServerHangsUp => IInv'
<1>. SUFFICES ASSUME IInv, Receive, ServerHangsUp PROVE IInv'
  OBVIOUS
<1>1. Received.type = "bye" /\ page.pending = NoCommand
  BY Heard DEF ServerHangsUp, IInv, Coming
<1>2. down' = <<>> /\ told' = told
  BY <1>1 DEF Receive, ServerHangsUp
<1>3. /\ DOMAIN page' = Fields /\ page'.pending = page.pending /\ page'.conn = 0 /\ ~page'.busy
  BY <1>1, Heard, Forms DEF ServerHangsUp, Fields
<1>4. Outbox'
  BY <1>2, <1>3, Heard, Quiet DEF IInv
<1>5. Coming' /\ Owed'
  BY <1>2, <1>3, ShortSequences DEF Coming, Arriving, Orderly, Owed, BusyIsOwed
<1>. QED BY <1>4, <1>5 DEF IInv

LEMMA ReceiveSteps == IInv /\ Receive => IInv'
BY EntryAnsweredSteps, CommandAnsweredSteps, ViewShownSteps, SessionGoneSteps, ServerHangsUpSteps DEF Receive

-----------------------------------------------------------------------------
(* Whatever names a session names one that was handed out                  *)

NoTypes == {}
Silent == {"answer", "replaced", "expired", "bye"}

Wire ==
  /\ DOMAIN links = Conns
  /\ \A n \in Conns : DOMAIN links[n] = {"open", "used", "up"} /\ Speak(links[n].up, {"command"})

Bound(g) == DOMAIN g.bound = Conns /\ \A n \in Conns : g.bound[n] \in Sessions \cup {NoSession}

Calling == Speak(calls, NoTypes)

Shown == Speak(down, Silent)

Sourced == Named(page) /\ Wire /\ (\A e \in entries : e.session \in Sessions) /\ Calling /\ Shown /\ Bound(gw)

LEMMA SourcedInitially == Init => Sourced
BY SpeakNothing DEF Init, Fresh, Sourced, Named, Wire, Calling, Shown, Bound

LEMMA WireSent ==
  ASSUME Wire, NEW n, NEW packet, packet.type # "command" => packet.session \in Sessions,
         links' = SentUp(n, packet) \/ links' = Closed(n) \/ links' = links
  PROVE  Wire'
<1>1. CASE links' = SentUp(n, packet)
  <2>1. n \in Conns => Speak(Append(links[n].up, packet), {"command"})
    BY SpeakAppended DEF Wire
  <2>. QED BY <1>1, <2>1 DEF Wire, SentUp
<1>2. CASE links' = Closed(n)
  BY <1>2, SpeakNothing DEF Wire, Closed
<1>. QED BY <1>1, <1>2 DEF Wire

LEMMA WireRead ==
  ASSUME Wire, NEW n \in Conns, links[n].up # <<>>, links' = [links EXCEPT ![n].up = Tail(@)]
  PROVE  Wire' /\ (Head(links[n].up).type # "command" => Head(links[n].up).session \in Sessions)
<1>1. /\ Speak(Tail(links[n].up), {"command"})
      /\ (Head(links[n].up).type # "command" => Head(links[n].up).session \in Sessions)
  BY SpeakNext DEF Wire
<1>. QED BY <1>1 DEF Wire

LEMMA BoundStays == \A g, n : Bound(g) => Bound(Detached(g, n))
BY DEF Bound, Detached

LEMMA ShownAfter ==
  ASSUME Shown, NEW n, NEW packets, Speak(packets, Silent), down' = Emitted(n, packets)
  PROVE  Shown'
BY SpeakJoined DEF Shown, Emitted

LEMMA PacketsSpeak ==
  /\ \A e, ok : e.session \in Sessions => Speak(<<EntryAnswer(e, ok)>>, Silent)
  /\ \A c, result : Speak(<<Answer(c, result)>>, Silent)
  /\ Speak(Replaced, Silent)
  /\ Speak(<<[type |-> "expired"], [type |-> "bye"]>>, Silent)
<1>1. ASSUME NEW e, NEW ok, e.session \in Sessions PROVE Speak(<<EntryAnswer(e, ok)>>, Silent)
  <2>. EntryAnswer(e, ok).session = e.session
    BY DEF EntryAnswer
  <2>. QED BY <1>1, SpeakOne
<1>2. ASSUME NEW c, NEW result PROVE Speak(<<Answer(c, result)>>, Silent)
  BY SpeakOne DEF Answer, Silent
<1>3. \A x, y : x.type \in Silent /\ y.type \in Silent => Speak(<<x, y>>, Silent)
  <2>. SUFFICES ASSUME NEW x, NEW y, x.type \in Silent, y.type \in Silent PROVE Speak(<<x, y>>, Silent)
    OBVIOUS
  <2>1. IsSequence(<<x, y>>) /\ Len(<<x, y>>) = 2 /\ <<x, y>>[1] = x /\ <<x, y>>[2] = y
    BY ShortSequences
  <2>2. \A i \in 1..2 : i = 1 \/ i = 2
    OBVIOUS
  <2>. QED BY <2>1, <2>2 DEF Speak
<1>. QED BY <1>1, <1>2, <1>3 DEF Replaced, Silent

LEMMA ExpireSpeaks ==
  ASSUME Wire, Shown, Bound(gw), NEW n, NEW packets, Speak(packets, Silent), Expire(n, packets)
  PROVE  Wire' /\ Shown' /\ Bound(gw')
<1>1. Speak(packets \o <<[type |-> "expired"], [type |-> "bye"]>>, Silent)
  BY PacketsSpeak, SpeakJoined
<1>2. Shown'
  BY <1>1, ShownAfter DEF Expire
<1>3. Wire'
  BY SpeakNothing DEF Expire, Closed, Wire
<1>. QED BY <1>2, <1>3, BoundStays DEF Expire

LEMMA PushesSpeak == \A s \in Sessions : Speak(Pushes(s), NoTypes)
<1>. SUFFICES ASSUME NEW s \in Sessions PROVE Speak(Pushes(s), NoTypes)
  OBVIOUS
<1>. Push(gw.active[s], s, rooms[s] + 1).session = s
  BY DEF Push
<1>. QED BY SpeakNothing, SpeakOne DEF Pushes

\* The first authorisation is answered.
LEMMA FirstCall ==
  ASSUME Calling, NEW i \in Answerable
  PROVE  /\ Speak(Without(i), NoTypes)
         /\ calls[i].session \in Sessions
<1>1. i = 1 /\ calls # <<>>
  BY DEF Answerable
<1>2. calls[1].type \notin NoTypes => calls[1].session \in Sessions
  BY <1>1, SpeakWithoutFirst DEF Calling
<1>. QED BY <1>1, <1>2, SpeakWithoutFirst DEF Calling, Without, NoTypes

-----------------------------------------------------------------------------
(* ... in every step of the server and of others                           *)

LEMMA HearEntrySourced == ASSUME Sourced, NEW n \in Conns, HearEntry(n) PROVE Sourced'
<1>. DEFINE e == [conn |-> n, kind |-> Head(links[n].up).kind, session |-> Head(links[n].up).session]
<1>1. /\ links[n].up # <<>> /\ Head(links[n].up).type = "enter"
      /\ links' = [links EXCEPT ![n].up = Tail(@)] /\ entries' = entries \cup {e}
      /\ UNCHANGED <<page, down, gw, calls>>
  BY DEF HearEntry
<1>2. Wire' /\ e.session \in Sessions
  BY <1>1, WireRead DEF Sourced
<1>. HIDE DEF e
<1>3. \A f \in entries' : f.session \in Sessions
  BY <1>1, <1>2 DEF Sourced
<1>. QED BY <1>1, <1>2, <1>3 DEF Sourced, Calling, Shown

LEMMA HearCommandSourced == ASSUME Sourced, NEW n \in Conns, HearCommand(n) PROVE Sourced'
<1>1. /\ links[n].up # <<>> /\ links' = [links EXCEPT ![n].up = Tail(@)] /\ gw.bound[n] # NoSession
      /\ UNCHANGED <<page, down, gw, entries>>
  BY DEF HearCommand
<1>2. Wire'
  BY <1>1, WireRead DEF Sourced
<1>3. gw.bound[n] \in Sessions
  BY <1>1 DEF Sourced, Bound
<1>4. PICK call : calls' = Append(calls, call) /\ call.session = gw.bound[n]
  BY DEF HearCommand
<1>5. Calling'
  BY <1>3, <1>4, SpeakAppended DEF Sourced, Calling
<1>. QED BY <1>1, <1>2, <1>5 DEF Sourced, Shown

LEMMA RefuseAtOnceSourced == ASSUME Sourced, NEW n \in Conns, RefuseAtOnce(n) PROVE Sourced'
<1>1. /\ links[n].up # <<>> /\ links' = [links EXCEPT ![n].up = Tail(@)]
      /\ UNCHANGED <<page, gw, entries, calls>>
  BY DEF RefuseAtOnce
<1>2. Wire'
  BY <1>1, WireRead DEF Sourced
<1>3. Head(links[n].up).type # "command" => Head(links[n].up).session \in Sessions
  BY <1>1, WireRead DEF Sourced
<1>4. Shown'
  BY <1>3, PacketsSpeak, ShownAfter DEF RefuseAtOnce, Sourced
<1>. QED BY <1>1, <1>2, <1>4 DEF Sourced, Calling

LEMMA AttachSourced == ASSUME Sourced, NEW e \in entries, Attach(e) PROVE Sourced'
<1>. DEFINE n == e.conn
            s == e.session
            k == IF gw.active[s] = n THEN 0 ELSE gw.active[s]
            g == Detached(IF k = 0 THEN gw ELSE Detached(gw, k), n)
<1>1. s \in Sessions
  BY DEF Sourced
<1>2. Bound(g)
  BY BoundStays DEF Sourced
<1>3. /\ links' = IF k = 0 THEN links ELSE Closed(k)
      /\ gw' = [bound |-> [g.bound EXCEPT ![n] = s], active |-> [g.active EXCEPT ![s] = n]]
      /\ down' = IF k # 0 /\ page.conn = k THEN Emitted(k, Replaced) ELSE Emitted(n, <<EntryAnswer(e, TRUE)>>)
      /\ calls' = Append(calls, Push(n, s, rooms[s]))
      /\ entries' = entries \ {e} /\ page' = page
  BY DEF Attach
<1>. HIDE DEF n, s, k, g
<1>4. Bound(gw')
  BY <1>1, <1>2, <1>3 DEF Bound
<1>5. Wire'
  BY <1>3, SpeakNothing DEF Sourced, Wire, Closed
<1>6. Shown'
  BY <1>1, <1>3, PacketsSpeak, ShownAfter DEF Sourced, s
<1>7. Calling'
  <2>. Push(n, s, rooms[s]).session = s
    BY DEF Push
  <2>. QED BY <1>1, <1>3, SpeakAppended DEF Sourced, Calling
<1>. QED BY <1>3, <1>4, <1>5, <1>6, <1>7 DEF Sourced

LEMMA RefuseSourced == ASSUME Sourced, NEW e \in entries, Refuse(e) PROVE Sourced'
<1>1. Shown'
  BY PacketsSpeak, ShownAfter DEF Refuse, Sourced
<1>. QED BY <1>1 DEF Refuse, Sourced, Wire, Calling

LEMMA DispatchSourced == ASSUME Sourced, NEW i \in Answerable, Dispatch(i) PROVE Sourced'
<1>1. calls[i].session \in Sessions /\ Speak(Without(i), NoTypes)
  BY FirstCall DEF Dispatch, Sourced
<1>2. Calling'
  <2>1. Speak(Without(i) \o Pushes(calls[i].session), NoTypes)
    BY <1>1, PushesSpeak, SpeakJoined
  <2>2. Speak(Without(i) \o <<>>, NoTypes)
    BY <1>1, SpeakNothing, SpeakJoined
  <2>. QED BY <2>1, <2>2 DEF Dispatch, Calling
<1>3. Shown'
  BY PacketsSpeak, ShownAfter DEF Dispatch, Sourced
<1>. QED BY <1>2, <1>3 DEF Dispatch, Sourced, Wire

LEMMA CommandSourced == ASSUME Sourced, NEW i \in Answerable, AuthorizeCommand(i) PROVE Sourced'
<1>1. CASE Dispatch(i)
  BY <1>1, DispatchSourced
<1>2. CASE /\ Expire(calls[i].conn, <<Answer(calls[i].command, "failed")>>)
           /\ calls' = Without(i) /\ UNCHANGED <<page, entries>>
  <2>1. Wire' /\ Shown' /\ Bound(gw')
    BY <1>2, PacketsSpeak, ExpireSpeaks DEF Sourced
  <2>. QED BY <1>2, <2>1, FirstCall DEF Sourced, Calling
<1>. QED BY <1>1, <1>2 DEF AuthorizeCommand

LEMMA PushSourced == ASSUME Sourced, NEW i \in Answerable, AuthorizePush(i) PROVE Sourced'
<1>1. calls[i].session \in Sessions /\ calls' = Without(i) /\ UNCHANGED <<page, entries>>
  BY FirstCall DEF AuthorizePush, Sourced
<1>2. Calling'
  BY <1>1, FirstCall DEF Sourced, Calling
<1>. DEFINE view == [type |-> "state", session |-> calls[i].session, revision |-> calls[i].revision]
<1>3. Speak(<<view>>, Silent)
  BY <1>1, SpeakOne
<1>4. \/ UNCHANGED <<gw, links, down>>
      \/ down' = Emitted(calls[i].conn, <<view>>) /\ UNCHANGED <<gw, links>>
      \/ Expire(calls[i].conn, <<>>)
  BY DEF AuthorizePush
<1>. HIDE DEF view
<1>5. Wire' /\ Shown' /\ Bound(gw')
  <2>1. CASE UNCHANGED <<gw, links, down>>
    BY <2>1 DEF Sourced, Wire, Shown
  <2>2. CASE down' = Emitted(calls[i].conn, <<view>>) /\ UNCHANGED <<gw, links>>
    BY <1>3, <2>2, ShownAfter DEF Sourced, Wire
  <2>3. CASE Expire(calls[i].conn, <<>>)
    BY <2>3, SpeakNothing, ExpireSpeaks DEF Sourced
  <2>. QED BY <1>4, <2>1, <2>2, <2>3
<1>. QED BY <1>1, <1>2, <1>5 DEF Sourced

LEMMA OthersSourced ==
  ASSUME Sourced, \/ \E n \in Conns : ServerLoses(n)
                  \/ \E s \in Sessions : Publish(s) \/ EndSession(s) \/ OtherPage(s)
                  \/ Restart
  PROVE  Sourced'
<1>1. CASE \E n \in Conns : ServerLoses(n)
  BY <1>1, BoundStays, SpeakNothing DEF ServerLoses, Sourced, Wire, Closed, Calling, Shown
<1>2. CASE \E s \in Sessions : Publish(s)
  BY <1>2, PushesSpeak, SpeakJoined DEF Publish, Sourced, Wire, Calling, Shown
<1>3. CASE \E s \in Sessions : EndSession(s)
  BY <1>3 DEF EndSession, Sourced, Wire, Calling, Shown
<1>4. CASE \E s \in Sessions : OtherPage(s)
  <2>1. PICK s \in Sessions : OtherPage(s)
    BY <1>4
  <2>2. Shown'
    BY <2>1, PacketsSpeak, ShownAfter DEF OtherPage, Sourced
  <2>3. Wire'
    BY <2>1, SpeakNothing DEF OtherPage, Sourced, Wire, Closed
  <2>. QED BY <2>1, <2>2, <2>3, BoundStays DEF OtherPage, Sourced, Calling
<1>5. CASE Restart
  BY <1>5, SpeakNothing DEF Restart, Sourced, Wire, Calling, Shown, Bound
<1>. QED BY <1>1, <1>2, <1>3, <1>4, <1>5

-----------------------------------------------------------------------------
(* ... and in every step of the page                                       *)

\* The page changes, and may send a packet.
LEMMA PageSourced ==
  ASSUME Sourced, Named(page'), down' = down \/ down' = <<>>, UNCHANGED <<gw, entries, calls>>,
         Wire'
  PROVE  Sourced'
<1>1. Shown'
  BY SpeakNothing DEF Sourced, Shown
<1>. QED BY <1>1 DEF Sourced, Calling

LEMMA CommandPacketSent ==
  ASSUME Wire, links' = links \/ \E n, c : links' = SentUp(n, CommandPacket(c))
  PROVE  Wire'
<1>. \A c : CommandPacket(c).type = "command"
  BY DEF CommandPacket
<1>1. CASE links' = links
  BY <1>1 DEF Wire
<1>2. CASE \E n, c : links' = SentUp(n, CommandPacket(c))
  BY <1>2, WireSent
<1>. QED BY <1>1, <1>2

LEMMA ConnectSourced == ASSUME Sourced, DOMAIN page = Fields, NEW n \in Conns, Connect(n) PROVE Sourced'
<1>. DEFINE up == [page EXCEPT !.conn = n]
            resume == [kind |-> "resume", session |-> page.token]
<1>1. DOMAIN up = Fields /\ Named(up)
  BY DEF Sourced, Named, Fields
<1>2. resume.session = page.token /\ EntryPacket(resume).session = page.token
  BY DEF EntryPacket
<1>3. UNCHANGED <<down, gw, entries, calls>>
  BY DEF Connect, server
<1>4. \/ /\ page' = [Cleared(up) EXCEPT !.busy = FALSE]
         /\ links' = [links EXCEPT ![n] = [open |-> TRUE, used |-> TRUE, up |-> <<>>]]
      \/ /\ page.token # NoSession /\ page' = Asking(up, resume)
         /\ links' = [links EXCEPT ![n] = [open |-> TRUE, used |-> TRUE, up |-> <<EntryPacket(resume)>>]]
  BY DEF Connect
<1>. HIDE DEF up, resume
<1>5. Named(page')
  <2>1. CASE page' = [Cleared(up) EXCEPT !.busy = FALSE]
    <3>1. DOMAIN Cleared(up) = Fields /\ Named(Cleared(up))
      BY <1>1, Forms
    <3>. QED BY <2>1, <3>1 DEF Named, Fields
  <2>2. CASE page.token # NoSession /\ page' = Asking(up, resume)
    BY <1>1, <1>2, <2>2 DEF Asking, Named, Fields, Sourced
  <2>. QED BY <1>4, <2>1, <2>2
<1>6. Wire'
  <2>1. CASE links' = [links EXCEPT ![n] = [open |-> TRUE, used |-> TRUE, up |-> <<>>]]
    BY <2>1, SpeakNothing DEF Sourced, Wire
  <2>2. CASE /\ page.token # NoSession
             /\ links' = [links EXCEPT ![n] = [open |-> TRUE, used |-> TRUE, up |-> <<EntryPacket(resume)>>]]
    <3>1. Speak(<<EntryPacket(resume)>>, {"command"})
      BY <1>2, <2>2, SpeakOne DEF Sourced, Named
    <3>. QED BY <2>2, <3>1 DEF Sourced, Wire
  <2>. QED BY <1>4, <2>1, <2>2
<1>. QED BY <1>3, <1>5, <1>6, PageSourced

\* The page loses its connection, its session or its patience.
LEMMA LettingGoSourced ==
  ASSUME Sourced, DOMAIN page = Fields, LinkLost \/ Reload \/ Leave \/ RequestTimeout \/ CommandTimeout
  PROVE  Sourced'
<1>. Named(page) /\ Wire
  BY DEF Sourced
<1>1. CASE LinkLost
  <2>1. Named(page')
    BY <1>1, Forms DEF LinkLost
  <2>. QED BY <1>1, <2>1, PageSourced DEF LinkLost, server, Wire
<1>2. CASE Reload
  <2>1. Named(page')
    BY <1>2 DEF Reload, Fresh, Named
  <2>. QED BY <1>2, <2>1, PageSourced DEF Reload, server, Wire
<1>3. CASE Leave
  <2>1. DOMAIN Disconnected(Forgotten(page)) = Fields /\ Named(Disconnected(Forgotten(page)))
    BY Forms
  <2>2. Named(page')
    BY <1>3, <2>1 DEF Leave, Named, Fields
  <2>. QED BY <1>3, <2>2, PageSourced DEF Leave, server, Wire
<1>4. CASE RequestTimeout
  <2>1. Named(page')
    BY <1>4 DEF RequestTimeout, Named, Fields
  <2>. QED BY <1>4, <2>1, PageSourced DEF RequestTimeout, server, Wire
<1>5. CASE CommandTimeout
  <2>1. Named(page')
    <3>1. CASE page' = Attempt(page)
      BY <3>1, Forms
    <3>2. CASE page' = [Paused(page) EXCEPT !.busy = FALSE]
      BY <3>2 DEF Paused, Named, Fields
    <3>. QED BY <1>5, <3>1, <3>2 DEF CommandTimeout
  <2>2. Wire'
    BY <1>5, CommandPacketSent DEF CommandTimeout
  <2>. QED BY <1>5, <2>1, <2>2, PageSourced DEF CommandTimeout, server
<1>. QED BY <1>1, <1>2, <1>3, <1>4, <1>5

LEMMA EntrySourced ==
  ASSUME Sourced, DOMAIN page = Fields, NEW s \in Sessions, Enter(s) \/ Found(s)
  PROVE  Sourced'
<1>1. PICK request : /\ request.session = s /\ links' = SentUp(page.conn, EntryPacket(request))
                     /\ page' = Asking(page, request) \/ page' = [Asking(page, request) EXCEPT !.token = s]
                     /\ UNCHANGED <<down, gw, entries, calls>>
  BY DEF Enter, Found
<1>2. Named(page')
  BY <1>1 DEF Asking, Named, Fields, Sourced
<1>3. EntryPacket(request).session = s
  BY <1>1 DEF EntryPacket
<1>4. Wire'
  BY <1>1, <1>3, WireSent DEF Sourced
<1>. QED BY <1>1, <1>2, <1>4, PageSourced

LEMMA SubmitSourced == ASSUME Sourced, DOMAIN page = Fields, NEW c \in Commands, Submit(c) PROVE Sourced'
<1>. DEFINE p == [page EXCEPT !.pending = c, !.attempts = 0, !.busy = TRUE]
<1>1. DOMAIN p = Fields /\ Named(p)
  BY DEF Sourced, Named, Fields
<1>2. /\ page' = Attempt(p) /\ links' = SentUp(page.conn, CommandPacket(c))
      /\ UNCHANGED <<down, gw, entries, calls>>
  BY DEF Submit, server
<1>. HIDE DEF p
<1>3. Named(page')
  BY <1>1, <1>2, Forms
<1>4. Wire'
  BY <1>2, CommandPacketSent DEF Sourced
<1>. QED BY <1>2, <1>3, <1>4, PageSourced

\* A view is taken from a packet that names its session, or from the answer to the page's request.
LEMMA ReceiveSourced == ASSUME Sourced, DOMAIN page = Fields, Receive PROVE Sourced'
<1>1. down # <<>> /\ down' \in {<<>>, Tail(down)} /\ UNCHANGED <<gw, entries, calls>>
  BY DEF Receive, server
<1>2. Shown' /\ (Received.type \notin Silent => Received.session \in Sessions)
  BY <1>1, SpeakNext, SpeakNothing DEF Sourced, Shown, Received
<1>. Named(page) /\ Wire
  BY DEF Sourced
<1>3. CASE EntryAnswered
  <2>. DEFINE p == [page EXCEPT !.request = NoRequest, !.busy = FALSE]
              in == [p EXCEPT !.shown = [session |-> Received.session, revision |-> Received.revision]]
              again == [in EXCEPT !.busy = TRUE, !.attempts = 0]
  <2>1. DOMAIN p = Fields /\ Named(p) /\ DOMAIN in = Fields /\ DOMAIN again = Fields
    BY DEF Named, Fields
  <2>2. Received.session \in Sessions
    BY <1>2, <1>3 DEF EntryAnswered, Silent
  <2>3. Named(in) /\ Named(again) /\ Named([in EXCEPT !.token = Received.session])
    BY <2>2 DEF Named, Fields
  <2>4. \/ page' = page
        \/ page' = Attempt(again)
        \/ page' \in {in, [in EXCEPT !.token = Received.session]}
        \/ page' \in {Forgotten(p), p}
    BY <1>3 DEF EntryAnswered
  <2>5. links' = links \/ \E n, c : links' = SentUp(n, CommandPacket(c))
    BY <1>3 DEF EntryAnswered
  <2>6. Wire'
    BY <2>5, CommandPacketSent
  <2>. HIDE DEF p, in, again
  <2>7. Named(page')
    BY <2>1, <2>3, <2>4, Forms
  <2>. QED BY <1>1, <1>2, <2>6, <2>7 DEF Sourced, Calling
<1>4. CASE CommandAnswered
  <2>1. DOMAIN Cleared(page) = Fields /\ Named(Cleared(page))
    BY Forms
  <2>2. Named(page') /\ links' = links
    BY <1>4, <2>1 DEF CommandAnswered, Named, Fields
  <2>. QED BY <1>1, <1>2, <2>2 DEF Sourced, Calling, Wire
<1>5. CASE ViewShown
  <2>1. Named(page') /\ links' = links
    BY <1>2, <1>5 DEF ViewShown, Named, Fields, Silent
  <2>. QED BY <1>1, <1>2, <2>1 DEF Sourced, Calling, Wire
<1>6. CASE SessionGone
  <2>1. DOMAIN Forgotten(page) = Fields /\ Named(Forgotten(page))
    BY Forms
  <2>2. Named(page') /\ links' = links
    BY <1>6, <2>1 DEF SessionGone, Named, Fields
  <2>. QED BY <1>1, <1>2, <2>2 DEF Sourced, Calling, Wire
<1>7. CASE ServerHangsUp
  <2>1. DOMAIN Disconnected(page) = Fields /\ Named(Disconnected(page))
    BY Forms
  <2>2. Named(page') /\ links' = links
    BY <1>7, <2>1 DEF ServerHangsUp, Named, Fields
  <2>. QED BY <1>1, <1>2, <2>2 DEF Sourced, Calling, Wire
<1>. QED BY <1>3, <1>4, <1>5, <1>6, <1>7 DEF Receive

-----------------------------------------------------------------------------
(* Every step                                                              *)

\* A step of the server or of others that sends nothing to the page.
LEMMA SilentSteps ==
  ASSUME IInv, \/ \E n \in Conns : HearEntry(n) \/ HearCommand(n) \/ ServerLoses(n)
               \/ \E s \in Sessions : Publish(s) \/ EndSession(s)
               \/ Restart
  PROVE  IInv'
BY ServerSends DEF HearEntry, HearCommand, ServerLoses, Publish, EndSession, Restart, user

LEMMA Steps == Sourced /\ IInv /\ [Next]_vars => Sourced' /\ IInv'
<1>. SUFFICES ASSUME Sourced, IInv, [Next]_vars PROVE Sourced' /\ IInv'
  OBVIOUS
<1>. DOMAIN page = Fields /\ Named(page)
  BY DEF IInv, Outbox, Sourced
<1>1. ASSUME NEW n \in Conns, Connect(n) PROVE Sourced' /\ IInv'
  BY <1>1, ConnectSteps, ConnectSourced
<1>2. CASE \/ \E n \in Conns : HearEntry(n) \/ HearCommand(n) \/ ServerLoses(n)
           \/ \E s \in Sessions : Publish(s) \/ EndSession(s)
           \/ Restart
  BY <1>2, SilentSteps, HearEntrySourced, HearCommandSourced, OthersSourced
<1>3. ASSUME NEW n \in Conns, RefuseAtOnce(n) PROVE Sourced' /\ IInv'
  BY <1>3, RefuseAtOnceSteps, RefuseAtOnceSourced
<1>4. CASE LinkLost \/ Reload \/ Leave \/ RequestTimeout \/ CommandTimeout
  BY <1>4, LinkLostSteps, ReloadSteps, LeaveSteps, RequestTimeoutSteps, CommandTimeoutSteps, LettingGoSourced
<1>5. CASE Receive
  BY <1>5, ReceiveSteps, ReceiveSourced
<1>6. ASSUME NEW c \in Commands, Submit(c) PROVE Sourced' /\ IInv'
  BY <1>6, SubmitSteps, SubmitSourced
<1>7. ASSUME NEW s \in Sessions, Enter(s) \/ Found(s) PROVE Sourced' /\ IInv'
  BY <1>7, EnterSteps, FoundSteps, EntrySourced
<1>8. ASSUME NEW s \in Sessions, OtherPage(s) PROVE Sourced' /\ IInv'
  BY <1>8, OtherPageSteps, OthersSourced
<1>9. ASSUME NEW e \in entries, Attach(e) \/ Refuse(e) PROVE Sourced' /\ IInv'
  BY <1>9, AttachSteps, RefuseSteps, AttachSourced, RefuseSourced
<1>10. ASSUME NEW i \in Answerable, AuthorizeCommand(i) \/ AuthorizePush(i) PROVE Sourced' /\ IInv'
  BY <1>10, CommandSteps, PushSteps, CommandSourced, PushSourced
<1>11. CASE UNCHANGED vars
  <2>1. IInv'
    BY <1>11, ServerSends DEF vars
  <2>. QED BY <1>11, <2>1 DEF vars, Sourced, Wire, Calling, Shown
<1>. QED BY <1>1, <1>2, <1>3, <1>4, <1>5, <1>6, <1>7, <1>8, <1>9, <1>10, <1>11 DEF Next

LEMMA Holds == Spec => [](Sourced /\ IInv)
<1>1. Init => Sourced /\ IInv
  BY Initially, SourcedInitially
<1>2. Sourced /\ IInv /\ [Next]_vars => Sourced' /\ IInv'
  BY Steps
<1>. QED BY <1>1, <1>2, PTL DEF Spec

-----------------------------------------------------------------------------
(* Queues: packets and authorisations leave at the front and join at the   *)
(* end                                                                     *)

In(q) == {q[i] : i \in 1..Len(q)}

\* The packets that bring views; a refusal carries the revision of the room as well.
Viewing == {"entered", "state"}

\* What authorisations are asked for.
Errands == {"command", "push"}

\* r is what is left of q at the end, then perhaps x, then what is neither awaited nor a view.
Moves(q, r, x) ==
  /\ IsSequence(q) /\ IsSequence(r)
  /\ \E k \in Nat : \A i \in 1..Len(r) :
       \/ i + k \in 1..Len(q) /\ r[i] = q[i + k]
       \/ i + k = Len(q) + 1 /\ r[i] = x
       \/ i + k > Len(q) /\ r[i].type \in Silent

-----------------------------------------------------------------------------
(* The connections and what is asked over them                             *)

\* A connection speaks for the session whose connection it is.
Paired(g) ==
  /\ g.active \in [Sessions -> Conns \cup {0}]
  /\ Bound(g)
  /\ \A n \in Conns, s \in Sessions : g.bound[n] = s <=> g.active[s] = n

Standing ==
  /\ page.conn \in Conns \cup {0}
  /\ rooms \in [Sessions -> Nat] /\ DOMAIN sessions = Sessions
  /\ Paired(gw)
  /\ \A n \in Conns : /\ gw.bound[n] # NoSession => links[n].open
                      /\ links[n].open \/ links[n].up # <<>> => links[n].used
  /\ \A e \in entries : e.conn \in Conns /\ links[e.conn].used
  /\ \A a \in In(calls) : a.type \in Errands => a.conn \in Conns /\ links[a.conn].used
  /\ page.conn = 0 => down = <<>> /\ ~page.timer
  /\ page.conn # 0 => links[page.conn].used

\* Session s is asked for on connection n, in the way that kind says.
Asked(n, s, kind) ==
  \/ \E x \in In(links[n].up) : x.type = "enter" /\ x.session = s /\ x.kind = kind
  \/ \E e \in entries : e.conn = n /\ e.session = s /\ e.kind = kind

Mentioned(s) ==
  \/ page.token = s \/ page.shown.session = s \/ gw.active[s] # 0
  \/ \E n \in Conns : UnderWay(n, s)
  \/ \E a \in In(calls) : a.type \in Errands /\ a.session = s
  \/ \E x \in In(down) : x.type \in Viewing /\ x.session = s
  \/ \E c \in Commands : issued[c] = s

\* A session that has not been handed out is not spoken of.
Unknown == \A s \in Sessions : sessions[s] = "new" => ~Mentioned(s)

\* Connection n has been let in for session s, or refused.
Settled(n, s) ==
  \/ gw.active[s] = n
  \/ \E a \in In(calls) : a.type = "push" /\ a.conn = n /\ a.session = s
  \/ page.conn = n /\ \E x \in In(down) : x.type \in Viewing /\ x.session = s

\* The requests of q are for different sessions.
Apart(q) ==
  \A i, j \in 1..Len(q) :
    i # j /\ q[i].type = "enter" /\ q[j].type = "enter" => q[i].session # q[j].session

Distinct ==
  /\ \A n \in Conns : Apart(links[n].up) /\ \A x \in In(links[n].up) : x.type \in {"enter", "command"}
  /\ \A n \in Conns : \A x \in In(links[n].up), e \in entries :
       x.type = "enter" /\ e.conn = n => x.session # e.session
  /\ \A d, e \in entries : d.conn = e.conn /\ d.session = e.session => d = e

\* A session is asked for once on a connection, and nothing comes of it before that is answered.
Once == Distinct /\ \A n \in Conns, s \in Sessions : Settled(n, s) => ~UnderWay(n, s)

-----------------------------------------------------------------------------
(* Views come in order                                                     *)

\* The views of q, and the pushes of q, are in order.
Rising(q) ==
  \A i, j \in 1..Len(q) :
    i < j /\ q[i].type \in Viewing /\ q[j].type \in Viewing /\ q[i].session = q[j].session
      => q[i].revision <= q[j].revision

RisingPushes(q) ==
  \A i, j \in 1..Len(q) :
    i < j /\ q[i].type = "push" /\ q[j].type = "push" /\ q[i].session = q[j].session /\ q[i].conn = q[j].conn
      => q[i].revision <= q[j].revision

\* Nothing is newer than the room, the screen is behind what comes down, and that behind the pushes.
Views ==
  /\ Rising(down) /\ RisingPushes(calls)
  /\ \A x \in In(down) : x.type \in Viewing =>
       /\ x.revision \in Nat /\ x.revision <= rooms[x.session]
       /\ x.session = page.shown.session => page.shown.revision <= x.revision
  /\ \A a \in In(calls) : a.type = "push" =>
       /\ a.revision \in Nat /\ a.revision <= rooms[a.session]
       /\ a.conn = page.conn =>
            /\ a.session = page.shown.session => page.shown.revision <= a.revision
            /\ \A x \in In(down) : x.type \in Viewing /\ x.session = a.session => x.revision <= a.revision
  /\ page.shown # NoView => page.shown.revision \in Nat /\ page.shown.revision <= rooms[page.shown.session]

-----------------------------------------------------------------------------
(* How queues move                                                         *)

LEMMA MovesElements ==
  ASSUME NEW q, NEW r, NEW x, Moves(q, r, x)
  PROVE  \A y \in In(r) : y \in In(q) \/ y = x \/ y.type \in Silent
<1>. SUFFICES ASSUME NEW y \in In(r), y # x, y.type \notin Silent PROVE y \in In(q)
  OBVIOUS
<1>1. PICK k \in Nat : \A i \in 1..Len(r) :
        \/ i + k \in 1..Len(q) /\ r[i] = q[i + k]
        \/ i + k = Len(q) + 1 /\ r[i] = x
        \/ i + k > Len(q) /\ r[i].type \in Silent
  BY DEF Moves
<1>2. PICK i \in 1..Len(r) : r[i] = y
  BY DEF In
<1>3. i + k \in 1..Len(q) /\ r[i] = q[i + k]
  BY <1>1, <1>2
<1>. QED BY <1>2, <1>3 DEF In

LEMMA StaysMoves ==
  ASSUME NEW q, IsSequence(q), NEW x
  PROVE  Moves(q, q, x)
<1>1. Len(q) \in Nat
  BY Elements
<1>2. \A i \in 1..Len(q) : i + 0 \in 1..Len(q) /\ q[i] = q[i + 0]
  BY <1>1
<1>. QED BY <1>2 DEF Moves

LEMMA EmptyMoves ==
  ASSUME NEW q, IsSequence(q), NEW x
  PROVE  Moves(q, <<>>, x)
<1>1. IsSequence(<<>>) /\ Len(<<>>) = 0
  BY ShortSequences
<1>2. \A i \in 1..Len(<<>>) : FALSE
  BY <1>1
<1>3. 0 \in Nat
  OBVIOUS
<1>. QED BY <1>1, <1>2, <1>3 DEF Moves

LEMMA TailMoves ==
  ASSUME NEW q, IsSequence(q), q # <<>>, NEW x
  PROVE  Moves(q, Tail(q), x)
<1>1. Len(q) \in Nat /\ Len(q) > 0
  BY Elements
<1>2. /\ IsSequence(Tail(q)) /\ Len(Tail(q)) = Len(q) - 1
      /\ \A i \in 1..Len(Tail(q)) : Tail(q)[i] = q[i + 1]
  BY TailSequence
<1>3. \A i \in 1..Len(Tail(q)) : i + 1 \in 1..Len(q) /\ Tail(q)[i] = q[i + 1]
  BY <1>1, <1>2
<1>4. 1 \in Nat
  OBVIOUS
<1>. QED BY <1>2, <1>3, <1>4 DEF Moves

\* Packets are sent, of which the first may matter.
LEMMA SendsMoves ==
  ASSUME NEW q, IsSequence(q), NEW p, IsSequence(p), NEW x,
         \A i \in 1..Len(p) : (i = 1 /\ p[i] = x) \/ p[i].type \in Silent
  PROVE  Moves(q, q \o p, x)
<1>. DEFINE r == q \o p
<1>1. Len(q) \in Nat /\ Len(p) \in Nat
  BY Elements
<1>2. /\ IsSequence(r) /\ Len(r) = Len(q) + Len(p)
      /\ \A i \in 1..Len(q) : r[i] = q[i]
      /\ \A i \in 1..Len(p) : r[Len(q) + i] = p[i]
  BY JoinSequences
<1>. HIDE DEF r
<1>3. ASSUME NEW i \in 1..Len(r)
      PROVE  \/ i + 0 \in 1..Len(q) /\ r[i] = q[i + 0]
             \/ i + 0 = Len(q) + 1 /\ r[i] = x
             \/ i + 0 > Len(q) /\ r[i].type \in Silent
  <2>1. CASE i \in 1..Len(q)
    <3>. i + 0 = i
      OBVIOUS
    <3>. QED BY <1>2, <2>1
  <2>2. CASE i \notin 1..Len(q)
    <3>1. i - Len(q) \in 1..Len(p) /\ Len(q) + (i - Len(q)) = i /\ i + 0 > Len(q)
      BY <1>1, <1>2, <2>2
    <3>2. r[i] = p[i - Len(q)]
      BY <1>2, <3>1
    <3>3. CASE i - Len(q) = 1 /\ p[i - Len(q)] = x
      <4>. i + 0 = Len(q) + 1
        BY <1>1, <3>1, <3>3
      <4>. QED BY <3>2, <3>3
    <3>. QED BY <3>1, <3>2, <3>3
  <2>. QED BY <2>1, <2>2
<1>4. 0 \in Nat
  OBVIOUS
<1>. QED BY <1>2, <1>3, <1>4 DEF Moves, r

LEMMA AppendIsJoin ==
  ASSUME NEW q, IsSequence(q), NEW x
  PROVE  Append(q, x) = q \o <<x>>
<1>. PICK S : q \in Seq(S)
  BY DEF IsSequence
<1>. q \in Seq(S \cup {x})
  OBVIOUS
<1>. QED OBVIOUS

LEMMA AppendMoves ==
  ASSUME NEW q, IsSequence(q), NEW x
  PROVE  Moves(q, Append(q, x), x)
<1>1. IsSequence(<<x>>) /\ \A i \in 1..Len(<<x>>) : i = 1 /\ <<x>>[i] = x
  BY ShortSequences
<1>. QED BY <1>1, SendsMoves, AppendIsJoin

\* The first is taken, and something may join.
LEMMA TailSendsMoves ==
  ASSUME NEW q, IsSequence(q), q # <<>>, NEW p, IsSequence(p), NEW x,
         \A i \in 1..Len(p) : i = 1 /\ p[i] = x
  PROVE  Moves(q, Tail(q) \o p, x)
<1>. DEFINE t == Tail(q)
            r == t \o p
<1>1. Len(q) \in Nat /\ Len(q) > 0 /\ Len(p) \in Nat
  BY Elements
<1>2. /\ IsSequence(t) /\ Len(t) = Len(q) - 1
      /\ \A i \in 1..Len(t) : t[i] = q[i + 1]
  BY TailSequence
<1>. HIDE DEF t
<1>3. /\ IsSequence(r) /\ Len(r) = Len(t) + Len(p)
      /\ \A i \in 1..Len(t) : r[i] = t[i]
      /\ \A i \in 1..Len(p) : r[Len(t) + i] = p[i]
  BY <1>2, JoinSequences
<1>. HIDE DEF r
<1>4. ASSUME NEW i \in 1..Len(r)
      PROVE  \/ i + 1 \in 1..Len(q) /\ r[i] = q[i + 1]
             \/ i + 1 = Len(q) + 1 /\ r[i] = x
  <2>1. CASE i \in 1..Len(t)
    <3>. i + 1 \in 1..Len(q)
      BY <1>1, <1>2, <2>1
    <3>. QED BY <1>2, <1>3, <2>1
  <2>2. CASE i \notin 1..Len(t)
    <3>1. i - Len(t) \in 1..Len(p) /\ Len(t) + (i - Len(t)) = i
      BY <1>1, <1>2, <1>3, <2>2
    <3>2. r[i] = p[i - Len(t)] /\ i - Len(t) = 1 /\ p[i - Len(t)] = x
      BY <1>3, <3>1
    <3>3. i + 1 = Len(q) + 1
      BY <1>1, <1>2, <3>2
    <3>. QED BY <3>2, <3>3
  <2>. QED BY <2>1, <2>2
<1>5. 1 \in Nat
  OBVIOUS
<1>. QED BY <1>3, <1>4, <1>5 DEF Moves, r, t

\* What is in a queue.
LEMMA ElementsOf ==
  /\ In(<<>>) = {}
  /\ \A q : IsSequence(q) /\ q # <<>> => In(Tail(q)) \subseteq In(q) /\ Head(q) \in In(q) /\ q[1] = Head(q)
  /\ \A q, x : IsSequence(q) => In(Append(q, x)) = In(q) \cup {x}
<1>1. In(<<>>) = {}
  <2>. Len(<<>>) = 0 /\ 1..0 = {}
    OBVIOUS
  <2>. QED BY DEF In
<1>2. ASSUME NEW q, IsSequence(q), q # <<>>
      PROVE  In(Tail(q)) \subseteq In(q) /\ Head(q) \in In(q) /\ q[1] = Head(q)
  <2>1. Len(q) \in Nat /\ Len(q) > 0
    BY <1>2, Elements
  <2>2. /\ IsSequence(Tail(q)) /\ Len(Tail(q)) = Len(q) - 1 /\ Head(q) = q[1]
        /\ \A i \in 1..Len(Tail(q)) : Tail(q)[i] = q[i + 1]
    BY <1>2, TailSequence
  <2>3. \A i \in 1..Len(Tail(q)) : i + 1 \in 1..Len(q)
    BY <2>1, <2>2
  <2>4. 1 \in 1..Len(q)
    BY <2>1
  <2>. QED BY <2>2, <2>3, <2>4 DEF In
<1>3. ASSUME NEW q, NEW x, IsSequence(q) PROVE In(Append(q, x)) = In(q) \cup {x}
  <2>1. /\ IsSequence(<<x>>) /\ Len(<<x>>) = 1 /\ <<x>>[1] = x
    BY ShortSequences
  <2>2. Len(q) \in Nat
    BY <1>3, Elements
  <2>. DEFINE r == q \o <<x>>
  <2>3. /\ Len(r) = Len(q) + 1 /\ r = Append(q, x)
        /\ \A i \in 1..Len(q) : r[i] = q[i]
        /\ \A i \in 1..1 : r[Len(q) + i] = x
    <3>. \A i \in 1..1 : i = 1
      OBVIOUS
    <3>. QED BY <1>3, <2>1, JoinSequences, AppendIsJoin
  <2>. HIDE DEF r
  <2>4. r[Len(q) + 1] = x /\ Len(q) + 1 \in 1..Len(r)
    BY <2>2, <2>3
  <2>5. \A i \in 1..Len(r) : i \in 1..Len(q) \/ i = Len(q) + 1
    BY <2>2, <2>3
  <2>6. \A i \in 1..Len(q) : i \in 1..Len(r)
    BY <2>2, <2>3
  <2>. QED BY <2>3, <2>4, <2>5, <2>6 DEF In
<1>. QED BY <1>1, <1>2, <1>3

LEMMA RisingMoves ==
  ASSUME NEW q, NEW r, NEW x, Moves(q, r, x), Rising(q),
         x.type \in Viewing =>
           \A y \in In(q) : y.type \in Viewing /\ y.session = x.session => y.revision <= x.revision,
         x.type \in Viewing => x.revision \in Nat
  PROVE  Rising(r)
<1>1. PICK k \in Nat : \A i \in 1..Len(r) :
        \/ i + k \in 1..Len(q) /\ r[i] = q[i + k]
        \/ i + k = Len(q) + 1 /\ r[i] = x
        \/ i + k > Len(q) /\ r[i].type \in Silent
  BY DEF Moves
<1>2. Len(q) \in Nat /\ Len(r) \in Nat
  BY Elements DEF Moves
<1>3. Viewing \cap Silent = {}
  BY DEF Viewing, Silent
<1>. SUFFICES ASSUME NEW i \in 1..Len(r), NEW j \in 1..Len(r), i < j,
                     r[i].type \in Viewing, r[j].type \in Viewing, r[i].session = r[j].session
              PROVE  r[i].revision <= r[j].revision
  BY DEF Rising
<1>4. /\ (i + k \in 1..Len(q) /\ r[i] = q[i + k]) \/ (i + k = Len(q) + 1 /\ r[i] = x)
      /\ (j + k \in 1..Len(q) /\ r[j] = q[j + k]) \/ (j + k = Len(q) + 1 /\ r[j] = x)
  BY <1>1, <1>3
<1>5. i + k < j + k
  BY <1>2
<1>6. CASE j + k \in 1..Len(q) /\ r[j] = q[j + k]
  <2>1. i + k \in 1..Len(q) /\ r[i] = q[i + k]
    BY <1>2, <1>4, <1>5, <1>6
  <2>. QED BY <1>5, <1>6, <2>1 DEF Rising
<1>7. CASE j + k = Len(q) + 1 /\ r[j] = x
  <2>1. i + k \in 1..Len(q) /\ r[i] = q[i + k]
    BY <1>2, <1>4, <1>5, <1>7
  <2>2. r[i] \in In(q)
    BY <2>1 DEF In
  <2>. QED BY <1>7, <2>2
<1>. QED BY <1>4, <1>6, <1>7

LEMMA RisingPushesMoves ==
  ASSUME NEW q, NEW r, NEW x, Moves(q, r, x), RisingPushes(q),
         x.type = "push" =>
           \A y \in In(q) : y.type = "push" /\ y.session = x.session /\ y.conn = x.conn
             => y.revision <= x.revision
  PROVE  RisingPushes(r)
<1>1. PICK k \in Nat : \A i \in 1..Len(r) :
        \/ i + k \in 1..Len(q) /\ r[i] = q[i + k]
        \/ i + k = Len(q) + 1 /\ r[i] = x
        \/ i + k > Len(q) /\ r[i].type \in Silent
  BY DEF Moves
<1>2. Len(q) \in Nat /\ Len(r) \in Nat
  BY Elements DEF Moves
<1>3. "push" \notin Silent
  BY DEF Silent
<1>. SUFFICES ASSUME NEW i \in 1..Len(r), NEW j \in 1..Len(r), i < j, r[i].type = "push", r[j].type = "push",
                     r[i].session = r[j].session, r[i].conn = r[j].conn
              PROVE  r[i].revision <= r[j].revision
  BY DEF RisingPushes
<1>4. /\ (i + k \in 1..Len(q) /\ r[i] = q[i + k]) \/ (i + k = Len(q) + 1 /\ r[i] = x)
      /\ (j + k \in 1..Len(q) /\ r[j] = q[j + k]) \/ (j + k = Len(q) + 1 /\ r[j] = x)
  BY <1>1, <1>3
<1>5. i + k < j + k
  BY <1>2
<1>6. CASE j + k \in 1..Len(q) /\ r[j] = q[j + k]
  <2>1. i + k \in 1..Len(q) /\ r[i] = q[i + k]
    BY <1>2, <1>4, <1>5, <1>6
  <2>. QED BY <1>5, <1>6, <2>1 DEF RisingPushes
<1>7. CASE j + k = Len(q) + 1 /\ r[j] = x
  <2>1. i + k \in 1..Len(q) /\ r[i] = q[i + k]
    BY <1>2, <1>4, <1>5, <1>7
  <2>2. r[i] \in In(q)
    BY <2>1 DEF In
  <2>. QED BY <1>7, <2>2
<1>. QED BY <1>4, <1>6, <1>7

\* A request for a session that is not asked for yet joins the others.
LEMMA ApartMoves ==
  ASSUME NEW q, NEW r, NEW x, Moves(q, r, x), Apart(q),
         x.type = "enter" => \A y \in In(q) : y.type = "enter" => y.session # x.session
  PROVE  Apart(r)
<1>1. PICK k \in Nat : \A i \in 1..Len(r) :
        \/ i + k \in 1..Len(q) /\ r[i] = q[i + k]
        \/ i + k = Len(q) + 1 /\ r[i] = x
        \/ i + k > Len(q) /\ r[i].type \in Silent
  BY DEF Moves
<1>2. Len(q) \in Nat /\ Len(r) \in Nat
  BY Elements DEF Moves
<1>3. "enter" \notin Silent
  BY DEF Silent
<1>. SUFFICES ASSUME NEW i \in 1..Len(r), NEW j \in 1..Len(r), i # j, r[i].type = "enter", r[j].type = "enter"
              PROVE  r[i].session # r[j].session
  BY DEF Apart
<1>4. /\ (i + k \in 1..Len(q) /\ r[i] = q[i + k]) \/ (i + k = Len(q) + 1 /\ r[i] = x)
      /\ (j + k \in 1..Len(q) /\ r[j] = q[j + k]) \/ (j + k = Len(q) + 1 /\ r[j] = x)
  BY <1>1, <1>3
<1>5. i + k # j + k
  BY <1>2
<1>6. CASE /\ i + k \in 1..Len(q) /\ r[i] = q[i + k]
           /\ j + k \in 1..Len(q) /\ r[j] = q[j + k]
  BY <1>5, <1>6 DEF Apart
<1>7. CASE j + k = Len(q) + 1 /\ r[j] = x
  <2>1. i + k \in 1..Len(q) /\ r[i] = q[i + k]
    BY <1>2, <1>4, <1>5, <1>7
  <2>2. r[i] \in In(q)
    BY <2>1 DEF In
  <2>. QED BY <1>7, <2>2
<1>8. CASE i + k = Len(q) + 1 /\ r[i] = x
  <2>1. j + k \in 1..Len(q) /\ r[j] = q[j + k]
    BY <1>2, <1>4, <1>5, <1>8
  <2>2. r[j] \in In(q)
    BY <2>1 DEF In
  <2>. QED BY <1>8, <2>2
<1>. QED BY <1>4, <1>6, <1>7, <1>8

-----------------------------------------------------------------------------
(* What is on the screen, in the queues and in the rooms                   *)

\* At most x comes down and a is to be authorised, and neither is older than what is there.
LEMMA ViewsStay ==
  ASSUME Views, NEW x, NEW a, Moves(down, down', x), Moves(calls, calls', a),
         \A s \in Sessions : rooms[s] \in Nat /\ rooms'[s] \in Nat /\ rooms[s] <= rooms'[s],
         \A y \in In(down) : y.type \in Viewing => y.session \in Sessions,
         \A c \in In(calls) : c.session \in Sessions,
         page.shown # NoView => page.shown.session \in Sessions,
         page'.shown = page.shown \/ page'.shown = NoView,
         \/ page'.conn = page.conn
         \/ down' = <<>> /\ \A c \in In(calls') : c.type = "push" => c.conn # page'.conn,
         x.type \in Viewing =>
           /\ x.revision \in Nat /\ x.revision <= rooms'[x.session]
           /\ x.session = page.shown.session => page.shown.revision <= x.revision
           /\ \A y \in In(down) : y.type \in Viewing /\ y.session = x.session => y.revision <= x.revision
           /\ \A c \in In(calls') : c.type = "push" /\ c.conn = page.conn /\ c.session = x.session
                => x.revision <= c.revision,
         a.type = "push" => a.session \in Sessions /\ a.revision = rooms'[a.session],
         \A y \in In(down') : y.type \in Viewing => y.session \in Sessions,
         \A c \in In(calls') : c.session \in Sessions
  PROVE  Views'
<1>1. \A y \in In(down') : y.type \in Viewing => y \in In(down) \/ y = x
  <2>. Viewing \cap Silent = {}
    BY DEF Viewing, Silent
  <2>. QED BY MovesElements
<1>2. \A c \in In(calls') : c.type = "push" => c \in In(calls) \/ c = a
  <2>. "push" \notin Silent
    BY DEF Silent
  <2>. QED BY MovesElements
<1>3. Rising(down')
  BY RisingMoves DEF Views
<1>4. a.type = "push" =>
        \A c \in In(calls) : c.type = "push" /\ c.session = a.session => c.revision <= a.revision
  BY DEF Views
<1>5. RisingPushes(calls')
  BY <1>4, RisingPushesMoves DEF Views
<1>6. NoView.session = NoSession /\ NoSession \notin Sessions
  BY DeliveryAssumption DEF NoView
<1>7. ASSUME NEW y \in In(down'), y.type \in Viewing
      PROVE  /\ y.revision \in Nat /\ y.revision <= rooms'[y.session]
             /\ y.session = page'.shown.session => page'.shown.revision <= y.revision
  <2>1. CASE y \in In(down)
    <3>1. /\ y.revision \in Nat /\ y.revision <= rooms[y.session] /\ y.session \in Sessions
          /\ y.session = page.shown.session => page.shown.revision <= y.revision
      BY <1>7, <2>1 DEF Views
    <3>2. rooms[y.session] \in Nat /\ rooms'[y.session] \in Nat /\ rooms[y.session] <= rooms'[y.session]
      BY <3>1
    <3>. QED BY <1>6, <1>7, <3>1, <3>2
  <2>2. CASE y = x
    BY <1>6, <1>7, <2>2
  <2>. QED BY <1>1, <1>7, <2>1, <2>2
<1>8. ASSUME NEW c \in In(calls'), c.type = "push"
      PROVE  c.revision \in Nat /\ c.revision <= rooms'[c.session]
  <2>1. CASE c \in In(calls)
    <3>1. c.revision \in Nat /\ c.revision <= rooms[c.session] /\ c.session \in Sessions
      BY <1>8, <2>1 DEF Views
    <3>2. rooms[c.session] \in Nat /\ rooms'[c.session] \in Nat /\ rooms[c.session] <= rooms'[c.session]
      BY <3>1
    <3>. QED BY <3>1, <3>2
  <2>2. CASE c = a
    BY <1>8, <2>2
  <2>. QED BY <1>2, <1>8, <2>1, <2>2
<1>9. ASSUME page.shown # NoView
      PROVE  page.shown.revision \in Nat /\ page.shown.revision <= rooms'[page.shown.session]
  <2>1. /\ page.shown.revision \in Nat /\ page.shown.revision <= rooms[page.shown.session]
        /\ page.shown.session \in Sessions
    BY <1>9 DEF Views
  <2>2. /\ rooms[page.shown.session] \in Nat /\ rooms'[page.shown.session] \in Nat
        /\ rooms[page.shown.session] <= rooms'[page.shown.session]
    BY <2>1
  <2>. QED BY <2>1, <2>2
<1>10. ASSUME NEW c \in In(calls'), c.type = "push", c.conn = page'.conn
       PROVE  /\ c.session = page'.shown.session => page'.shown.revision <= c.revision
              /\ \A y \in In(down') : y.type \in Viewing /\ y.session = c.session => y.revision <= c.revision
  <2>1. page'.conn = page.conn
    BY <1>10
  <2>2. c.session = page'.shown.session => page'.shown = page.shown /\ page.shown # NoView
    BY <1>6, <1>10
  <2>3. c.session = page'.shown.session => page'.shown.revision <= c.revision
    <3>1. CASE c \in In(calls)
      BY <1>10, <2>1, <2>2, <3>1 DEF Views
    <3>2. CASE c = a
      BY <1>9, <1>10, <2>2, <3>2
    <3>. QED BY <1>2, <1>10, <3>1, <3>2
  <2>4. ASSUME NEW y \in In(down'), y.type \in Viewing, y.session = c.session PROVE y.revision <= c.revision
    <3>1. CASE y = x
      BY <1>10, <2>1, <2>4, <3>1
    <3>2. CASE y \in In(down) /\ c \in In(calls)
      BY <1>10, <2>1, <2>4, <3>2 DEF Views
    <3>3. CASE c = a
      BY <1>7, <1>10, <2>4, <3>3
    <3>. QED BY <1>1, <1>2, <1>10, <2>4, <3>1, <3>2, <3>3
  <2>. QED BY <2>3, <2>4
<1>11. page'.shown # NoView =>
         page'.shown.revision \in Nat /\ page'.shown.revision <= rooms'[page'.shown.session]
  BY <1>9
<1>. QED BY <1>3, <1>5, <1>7, <1>8, <1>10, <1>11 DEF Views

-----------------------------------------------------------------------------
(* The connections: a page without one receives nothing, and what the      *)
(* server still does for one is done for one that was made                 *)

LEMMA ConnNumbers == Conns \subseteq Nat /\ 0 \notin Conns
BY DeliveryAssumption DEF Conns

LEMMA LinksSent ==
  ASSUME Wire, NEW n \in Conns, NEW packet, links' = SentUp(n, packet)
  PROVE  \A k \in Conns : /\ links'[k].open = links[k].open /\ links'[k].used = links[k].used
                          /\ \/ links'[k].up = links[k].up
                             \/ k = n /\ links[n].open /\ links'[k].up = Append(links[k].up, packet)
BY DEF Wire, SentUp

LEMMA LinksClosed ==
  ASSUME Wire, NEW n \in Conns, links' = Closed(n)
  PROVE  \A k \in Conns : IF k = n THEN ~links'[k].open /\ links'[k].used /\ links'[k].up = <<>>
                                   ELSE links'[k] = links[k]
BY DEF Wire, Closed

LEMMA LinksRead ==
  ASSUME Wire, NEW n \in Conns, links' = [links EXCEPT ![n].up = Tail(@)]
  PROVE  \A k \in Conns : /\ links'[k].open = links[k].open /\ links'[k].used = links[k].used
                          /\ links'[k].up = IF k = n THEN Tail(links[k].up) ELSE links[k].up
BY DEF Wire

LEMMA DetachedIs ==
  ASSUME NEW g, Paired(g), NEW n \in Conns \cup {0}
  PROVE  /\ Paired(Detached(g, n))
         /\ \A k \in Conns : Detached(g, n).bound[k] = IF k = n THEN NoSession ELSE g.bound[k]
         /\ \A s \in Sessions : Detached(g, n).active[s] = IF g.active[s] = n THEN 0 ELSE g.active[s]
<1>1. DOMAIN g.bound = Conns /\ DOMAIN g.active = Sessions
  BY DEF Paired, Bound
<1>2. /\ \A k \in Conns : Detached(g, n).bound[k] = IF k = n THEN NoSession ELSE g.bound[k]
      /\ \A s \in Sessions : Detached(g, n).active[s] = IF g.active[s] = n THEN 0 ELSE g.active[s]
  BY <1>1 DEF Detached
<1>3. Bound(Detached(g, n)) /\ Detached(g, n).active \in [Sessions -> Conns \cup {0}]
  BY BoundStays DEF Paired, Detached
<1>4. ASSUME NEW k \in Conns, NEW s \in Sessions
      PROVE  Detached(g, n).bound[k] = s <=> Detached(g, n).active[s] = k
  <2>1. (g.bound[k] = s <=> g.active[s] = k) /\ k # 0 /\ s # NoSession
    BY ConnNumbers, DeliveryAssumption DEF Paired
  <2>. QED BY <1>2, <2>1
<1>. QED BY <1>2, <1>3, <1>4 DEF Paired

LEMMA AttachedIs ==
  ASSUME NEW g, Paired(g), NEW n \in Conns, NEW s \in Sessions, g.bound[n] = NoSession, g.active[s] = 0
  PROVE  Paired([bound |-> [g.bound EXCEPT ![n] = s], active |-> [g.active EXCEPT ![s] = n]])
<1>. DEFINE h == [bound |-> [g.bound EXCEPT ![n] = s], active |-> [g.active EXCEPT ![s] = n]]
<1>1. DOMAIN g.bound = Conns /\ DOMAIN g.active = Sessions
  BY DEF Paired, Bound
<1>2. h.bound = [g.bound EXCEPT ![n] = s] /\ h.active = [g.active EXCEPT ![s] = n]
  OBVIOUS
<1>. HIDE DEF h
<1>3. /\ \A k \in Conns : h.bound[k] = IF k = n THEN s ELSE g.bound[k]
      /\ \A t \in Sessions : h.active[t] = IF t = s THEN n ELSE g.active[t]
      /\ DOMAIN h.bound = Conns /\ h.active \in [Sessions -> Conns \cup {0}]
  BY <1>1, <1>2 DEF Paired
<1>4. Bound(h)
  BY <1>3 DEF Paired, Bound
<1>5. ASSUME NEW k \in Conns, NEW t \in Sessions PROVE h.bound[k] = t <=> h.active[t] = k
  <2>1. /\ (g.bound[k] = t <=> g.active[t] = k) /\ (g.bound[n] = t <=> g.active[t] = n)
        /\ (g.bound[k] = s <=> g.active[s] = k)
        /\ k # 0 /\ t # NoSession
    BY ConnNumbers, DeliveryAssumption DEF Paired
  <2>. QED BY <1>3, <2>1
<1>6. Paired(h)
  BY <1>3, <1>4, <1>5 DEF Paired
<1>. QED BY <1>6 DEF h

LEMMA StandingStays ==
  ASSUME Standing, rooms' \in [Sessions -> Nat], DOMAIN sessions' = Sessions, Paired(gw'),
         \A n \in Conns : /\ links[n].used => links'[n].used
                          /\ gw'.bound[n] # NoSession => links'[n].open
                          /\ links'[n].open \/ links'[n].up # <<>> => links'[n].used,
         \A e \in entries' : e \in entries \/ (e.conn \in Conns /\ links'[e.conn].used),
         \A a \in In(calls') : a.type \in Errands =>
           a \in In(calls) \/ (a.conn \in Conns /\ links'[a.conn].used),
         \/ page'.conn = page.conn /\ (page.conn = 0 => down' = <<>> /\ ~page'.timer)
         \/ page'.conn = 0 /\ down' = <<>> /\ ~page'.timer
         \/ page'.conn \in Conns /\ links'[page'.conn].used
  PROVE  Standing'
<1>1. page'.conn \in Conns \cup {0} /\ (page'.conn = 0 => down' = <<>> /\ ~page'.timer)
  BY ConnNumbers DEF Standing
<1>2. page'.conn # 0 => links'[page'.conn].used
  BY DEF Standing
<1>3. \A e \in entries' : e.conn \in Conns /\ links'[e.conn].used
  BY DEF Standing
<1>4. \A a \in In(calls') : a.type \in Errands => a.conn \in Conns /\ links'[a.conn].used
  BY DEF Standing
<1>. QED BY <1>1, <1>2, <1>3, <1>4 DEF Standing

LEMMA StandingInitially == Init => Standing
<1>. SUFFICES ASSUME Init PROVE Standing
  OBVIOUS
<1>1. Paired(gw)
  BY ConnNumbers, DeliveryAssumption DEF Init, Paired, Bound
<1>2. Len(calls) = 0 /\ In(calls) = {}
  <2>1. Len(calls) = 0 /\ 1..0 = {}
    BY DEF Init
  <2>. QED BY <2>1 DEF In
<1>. QED BY <1>1, <1>2 DEF Init, Standing, Fresh

\* The session, the screen, the connection and the timer after the page's operations.
LEMMA PageForms ==
  ASSUME NEW p, DOMAIN p = Fields
  PROVE  /\ Cleared(p).token = p.token /\ Cleared(p).shown = p.shown /\ ~Cleared(p).timer
         /\ Attempt(p).token = p.token
         /\ Disconnected(p).token = p.token /\ Disconnected(p).shown = p.shown /\ ~Disconnected(p).timer
         /\ Forgotten(p).token = NoSession /\ Forgotten(p).shown = NoView
         /\ ~Forgotten(p).timer /\ Paused(p).token = p.token
         /\ Paused(p).shown = p.shown /\ Paused(p).conn = p.conn
         /\ ~Paused(p).timer
         /\ \A request : Asking(p, request).token = p.token /\ Asking(p, request).timer = p.timer
BY DEF Fields, Paused, Cleared, Attempt, Disconnected, Forgotten, Asking

-----------------------------------------------------------------------------
(* What every step of the server and of others comes to                    *)

\* Something that matters in no queue.
Nothing == [type |-> "bye"]

\* Command a is the first on a connection that speaks for its session, and is read.
IsHeard(a) ==
  \E n \in Conns :
    /\ gw.bound[n] = a.session /\ links[n].up # <<>>
    /\ a.type = "command" /\ Head(links[n].up).type = "command" /\ a.command = Head(links[n].up).command
    /\ links'[n].up = Tail(links[n].up)

\* Packets are read in their order, x answers what was asked for, and so does a but for commands.
Answers(x, a) ==
  /\ \A n \in Conns : /\ Moves(links[n].up, links'[n].up, Nothing)
                      /\ In(links'[n].up) \subseteq In(links[n].up)
  /\ \A n \in Conns, s \in Sessions : \A kind : Asked(n, s, kind)' => Asked(n, s, kind)
  /\ \A n \in Conns, s \in Sessions : gw'.active[s] = n => gw.active[s] = n \/ UnderWay(n, s)
  /\ x.type \in Viewing => x.type = "state" \/ Asked(page.conn, x.session, x.kind)
  /\ a.type \in Errands => a.type = "push" \/ IsHeard(a)

\* At most x comes down and a is to be authorised; what is asked is read, and may be answered.
Serves(x, a) ==
  /\ Answers(x, a)
  /\ UNCHANGED <<page, user>>
  /\ Moves(down, down', x) /\ Moves(calls, calls', a) /\ (page.conn = 0 => down' = <<>>)
  /\ \A n \in Conns : /\ links[n].used => links'[n].used
                      /\ links'[n].open \/ links'[n].up # <<>> => links'[n].used
                      /\ gw'.bound[n] # NoSession => links'[n].open
  /\ Paired(gw') /\ rooms' \in [Sessions -> Nat] /\ DOMAIN sessions' = Sessions
  /\ \A s \in Sessions : rooms[s] <= rooms'[s] /\ (sessions'[s] = "new" => sessions[s] = "new")
  /\ Distinct' /\ \A n \in Conns, s \in Sessions : UnderWay(n, s)' => UnderWay(n, s)
  /\ \A e \in entries' : e.conn \in Conns /\ links'[e.conn].used
  /\ a.type \in Errands => /\ a.conn \in Conns /\ links'[a.conn].used
                           /\ a.session \in Sessions /\ Mentioned(a.session)
  /\ a.type = "push" => a.revision = rooms'[a.session]
  /\ \A n \in Conns, s \in Sessions :
       \/ gw'.active[s] = n /\ gw.active[s] # n
       \/ a.type = "push" /\ a.conn = n /\ a.session = s
       \/ x.type \in Viewing /\ page.conn = n /\ x.session = s
       => Mentioned(s) /\ ~UnderWay(n, s)'
  /\ x.type \in Viewing =>
       /\ x.session \in Sessions /\ page.conn \in Conns
       /\ x.revision \in Nat /\ x.revision <= rooms'[x.session]
       /\ x.session = page.shown.session => page.shown.revision <= x.revision
       /\ \A y \in In(down) : y.type \in Viewing /\ y.session = x.session => y.revision <= x.revision
       /\ \A c \in In(calls') : c.type = "push" /\ c.conn = page.conn /\ c.session = x.session
            => x.revision <= c.revision

LEMMA UnderWayIs ==
  \A n, s : UnderWay(n, s) <=> \/ \E x \in In(links[n].up) : x.type = "enter" /\ x.session = s
                               \/ \E e \in entries : e.conn = n /\ e.session = s
BY DEF UnderWay, In

LEMMA SpokenFor ==
  ASSUME Sourced
  PROVE  /\ \A x \in In(down) : x.type \in Viewing => x.session \in Sessions
         /\ \A a \in In(calls) : a.session \in Sessions
         /\ page.shown # NoView => page.shown.session \in Sessions
<1>1. Viewing \cap Silent = {}
  BY DEF Viewing, Silent
<1>2. \A x \in In(down) : x.type \in Viewing => x.session \in Sessions
  BY <1>1 DEF Sourced, Shown, Speak, In
<1>3. \A a \in In(calls) : a.session \in Sessions
  BY DEF Sourced, Calling, Speak, NoTypes, In
<1>. QED BY <1>2, <1>3 DEF Sourced, Named

LEMMA SpokenForThen ==
  ASSUME Sourced'
  PROVE  /\ \A x \in In(down') : x.type \in Viewing => x.session \in Sessions
         /\ \A a \in In(calls') : a.session \in Sessions
         /\ page'.shown # NoView => page'.shown.session \in Sessions
<1>1. Viewing \cap Silent = {}
  BY DEF Viewing, Silent
<1>2. \A x \in In(down') : x.type \in Viewing => x.session \in Sessions
  BY <1>1 DEF Sourced, Shown, Speak, In
<1>3. \A a \in In(calls') : a.session \in Sessions
  BY DEF Sourced, Calling, Speak, NoTypes, In
<1>. QED BY <1>2, <1>3 DEF Sourced, Named

\* The parts of the invariant that are about what comes of requests, and about views.
Screen == Standing /\ Unknown /\ Once /\ Views

LEMMA ServingStays ==
  ASSUME Sourced, Sourced', Screen, NEW x, NEW a, Serves(x, a)
  PROVE  Screen'
<1>. Standing /\ Unknown /\ Once /\ Views
  BY DEF Screen
<1>1. \A c \in In(calls') : c.type \in Errands => c \in In(calls) \/ c = a
  <2>. Errands \cap Silent = {}
    BY DEF Errands, Silent
  <2>. QED BY MovesElements DEF Serves
<1>2. \A y \in In(down') : y.type \in Viewing => y \in In(down) \/ y = x
  <2>. Viewing \cap Silent = {}
    BY DEF Viewing, Silent
  <2>. QED BY MovesElements DEF Serves
<1>. page' = page /\ UNCHANGED <<issued>>
  BY DEF Serves, user
<1>3. Standing'
  <2>1. \A c \in In(calls') : c.type \in Errands => c \in In(calls) \/ (c.conn \in Conns /\ links'[c.conn].used)
    BY <1>1 DEF Serves
  <2>2. page'.conn = page.conn /\ (page.conn = 0 => down' = <<>> /\ ~page'.timer)
    BY DEF Serves, Standing
  <2>. QED BY <2>1, <2>2, StandingStays DEF Serves
<1>4. Unknown'
  <2>. SUFFICES ASSUME NEW s \in Sessions, sessions'[s] = "new", Mentioned(s)' PROVE FALSE
    BY DEF Unknown
  <2>1. ~Mentioned(s)
    BY DEF Unknown, Serves
  <2>2. gw'.active[s] = 0
    BY <2>1 DEF Serves, Mentioned, Paired
  <2>3. \A n \in Conns : ~UnderWay(n, s)'
    BY <2>1 DEF Serves, Mentioned
  <2>4. \A c \in In(calls') : c.type \in Errands => c.session # s
    BY <1>1, <2>1 DEF Serves, Mentioned
  <2>5. \A y \in In(down') : y.type \in Viewing => y.session # s
    BY <1>2, <2>1 DEF Serves, Mentioned
  <2>. QED BY <2>1, <2>2, <2>3, <2>4, <2>5 DEF Mentioned
<1>5. Once'
  <2>. SUFFICES ASSUME NEW n \in Conns, NEW s \in Sessions, Settled(n, s)', UnderWay(n, s)' PROVE FALSE
    BY DEF Once, Serves
  <2>1. UnderWay(n, s) /\ ~Settled(n, s)
    BY DEF Serves, Once
  <2>2. gw'.active[s] # n
    BY <2>1, ConnNumbers DEF Serves, Settled
  <2>3. \A c \in In(calls') : c.type = "push" /\ c.conn = n => c.session # s
    <3>. "push" \in Errands
      BY DEF Errands
    <3>. QED BY <1>1, <2>1 DEF Serves, Settled
  <2>4. page.conn = n => \A y \in In(down') : y.type \in Viewing => y.session # s
    BY <1>2, <2>1 DEF Serves, Settled
  <2>. QED BY <2>2, <2>3, <2>4 DEF Settled
<1>6. Views'
  <2>1. \A s \in Sessions : rooms[s] \in Nat /\ rooms'[s] \in Nat /\ rooms[s] <= rooms'[s]
    BY DEF Serves, Standing
  <2>2. /\ x.type \in Viewing =>
             /\ x.revision \in Nat /\ x.revision <= rooms'[x.session]
             /\ x.session = page.shown.session => page.shown.revision <= x.revision
             /\ \A y \in In(down) : y.type \in Viewing /\ y.session = x.session => y.revision <= x.revision
             /\ \A c \in In(calls') : c.type = "push" /\ c.conn = page.conn /\ c.session = x.session
                  => x.revision <= c.revision
        /\ a.type = "push" => a.session \in Sessions /\ a.revision = rooms'[a.session]
    <3>. "push" \in Errands
      BY DEF Errands
    <3>. QED BY DEF Serves
  <2>3. Moves(down, down', x) /\ Moves(calls, calls', a)
    BY DEF Serves
  <2>. QED BY <2>1, <2>2, <2>3, SpokenFor, SpokenForThen, ViewsStay
<1>. QED BY <1>3, <1>4, <1>5, <1>6 DEF Screen

LEMMA ReadsOnly ==
  ASSUME Distinct, \A k \in Conns : Moves(links[k].up, links'[k].up, Nothing), entries' \subseteq entries,
         \A k \in Conns : In(links'[k].up) \subseteq In(links[k].up)
  PROVE  /\ Distinct' /\ \A n \in Conns, s \in Sessions : UnderWay(n, s)' => UnderWay(n, s)
<1>1. \A k \in Conns : \A x \in In(links'[k].up) : x \in In(links[k].up)
  OBVIOUS
<1>2. \A k \in Conns : Apart(links'[k].up)
  <2>. Nothing.type # "enter"
    BY DEF Nothing
  <2>. QED BY ApartMoves DEF Distinct
<1>3. Distinct'
  BY <1>1, <1>2 DEF Distinct
<1>4. ASSUME NEW n \in Conns, NEW s \in Sessions, UnderWay(n, s)' PROVE UnderWay(n, s)
  <2>1. \/ \E x \in In(links'[n].up) : x.type = "enter" /\ x.session = s
        \/ \E e \in entries' : e.conn = n /\ e.session = s
    BY <1>4 DEF UnderWay, In
  <2>. QED BY <1>1, <2>1, UnderWayIs
<1>. QED BY <1>3, <1>4

LEMMA NothingIsAsked ==
  /\ Nothing.type \notin Viewing /\ Nothing.type \notin Errands
  /\ Nothing.type # "push" /\ Nothing.type \in Silent
BY DEF Nothing, Viewing, Errands, Silent

LEMMA QuietLinks ==
  ASSUME Wire, NEW n,
         \/ links' = links
         \/ n \in Conns /\ links' = Closed(n)
         \/ n \in Conns /\ links[n].up # <<>> /\ links' = [links EXCEPT ![n].up = Tail(@)]
  PROVE  \A k \in Conns : /\ Moves(links[k].up, links'[k].up, Nothing)
                          /\ In(links'[k].up) \subseteq In(links[k].up)
<1>. SUFFICES ASSUME NEW k \in Conns
              PROVE  Moves(links[k].up, links'[k].up, Nothing) /\ In(links'[k].up) \subseteq In(links[k].up)
  OBVIOUS
<1>. IsSequence(links[k].up)
  BY DEF Wire, Speak
<1>1. CASE links' = links
  BY <1>1, StaysMoves
<1>2. CASE n \in Conns /\ links' = Closed(n)
  BY <1>2, LinksClosed, StaysMoves, EmptyMoves, ElementsOf
<1>3. CASE n \in Conns /\ links[n].up # <<>> /\ links' = [links EXCEPT ![n].up = Tail(@)]
  BY <1>3, LinksRead, StaysMoves, TailMoves, ElementsOf
<1>. QED BY <1>1, <1>2, <1>3

\* A connection is read or closed, or none is.
LEMMA LinksStand ==
  ASSUME Wire, Standing, NEW n,
         \/ gw' = gw /\ links' = links
         \/ n \in Conns /\ gw' = gw /\ links[n].up # <<>> /\ links' = [links EXCEPT ![n].up = Tail(@)]
         \/ n \in Conns /\ links' = Closed(n) /\ (gw' = Detached(gw, n) \/ (gw' = gw /\ ~links[n].open))
  PROVE  /\ Paired(gw')
         /\ \A s \in Sessions : gw'.active[s] = gw.active[s] \/ gw'.active[s] = 0
         /\ \A k \in Conns : /\ links[k].used => links'[k].used
                             /\ links'[k].open \/ links'[k].up # <<>> => links'[k].used
                             /\ gw'.bound[k] # NoSession => links'[k].open
<1>1. CASE gw' = gw /\ links' = links
  BY <1>1 DEF Standing
<1>2. CASE n \in Conns /\ gw' = gw /\ links[n].up # <<>> /\ links' = [links EXCEPT ![n].up = Tail(@)]
  BY <1>2, LinksRead DEF Standing
<1>3. CASE n \in Conns /\ links' = Closed(n) /\ gw' = gw /\ ~links[n].open
  <2>1. gw'.bound[n] = NoSession /\ Paired(gw') /\ gw' = gw
    BY <1>3 DEF Standing
  <2>2. \A k \in Conns : /\ k = n => ~links'[k].open /\ links'[k].used /\ links'[k].up = <<>>
                         /\ k # n => links'[k] = links[k]
    BY <1>3, LinksClosed
  <2>. QED BY <2>1, <2>2 DEF Standing
<1>4. CASE n \in Conns /\ links' = Closed(n) /\ gw' = Detached(gw, n)
  <2>1. Paired(gw') /\ \A s \in Sessions : gw'.active[s] = gw.active[s] \/ gw'.active[s] = 0
    BY <1>4, DetachedIs DEF Standing
  <2>2. \A k \in Conns : gw'.bound[k] = IF k = n THEN NoSession ELSE gw.bound[k]
    BY <1>4, DetachedIs DEF Standing
  <2>. QED BY <1>4, <2>1, <2>2, LinksClosed DEF Standing
<1>. QED BY <1>1, <1>2, <1>3, <1>4

\* A step that lets nobody in.
LEMMA ServesQuietly ==
  ASSUME Sourced, Screen, NEW x, NEW a, UNCHANGED <<page, user>>,
         Moves(down, down', x), page.conn = 0 => down' = down, Moves(calls, calls', a), NEW n,
         \/ gw' = gw /\ links' = links
         \/ n \in Conns /\ gw' = gw /\ links[n].up # <<>> /\ links' = [links EXCEPT ![n].up = Tail(@)]
         \/ n \in Conns /\ links' = Closed(n) /\ (gw' = Detached(gw, n) \/ (gw' = gw /\ ~links[n].open)),
         entries' \subseteq entries, rooms' \in [Sessions -> Nat], DOMAIN sessions' = Sessions,
         \A s \in Sessions : rooms[s] <= rooms'[s] /\ (sessions'[s] = "new" => sessions[s] = "new"),
         a.type \in Errands => /\ a.conn \in Conns /\ links[a.conn].used
                               /\ a.session \in Sessions /\ Mentioned(a.session),
         a.type = "push" => gw.active[a.session] = a.conn /\ a.revision = rooms'[a.session],
         a.type \in Errands => a.type = "push" \/ IsHeard(a),
         x.type \in Viewing => x.type = "state" \/ Asked(page.conn, x.session, x.kind),
         \A k \in Conns, s \in Sessions :
           x.type \in Viewing /\ page.conn = k /\ x.session = s => Mentioned(s) /\ ~UnderWay(k, s)',
         x.type \in Viewing =>
           /\ x.session \in Sessions /\ page.conn \in Conns
           /\ x.revision \in Nat /\ x.revision <= rooms'[x.session]
           /\ x.session = page.shown.session => page.shown.revision <= x.revision
           /\ \A y \in In(down) : y.type \in Viewing /\ y.session = x.session => y.revision <= x.revision
           /\ \A c \in In(calls') : c.type = "push" /\ c.conn = page.conn /\ c.session = x.session
                => x.revision <= c.revision
  PROVE  Serves(x, a)
<1>. Wire /\ Standing /\ Unknown /\ Once /\ Views
  BY DEF Screen, Sourced
<1>1. \A k \in Conns : /\ Moves(links[k].up, links'[k].up, Nothing)
                       /\ In(links'[k].up) \subseteq In(links[k].up)
  BY QuietLinks
<1>2. Distinct' /\ \A k \in Conns, s \in Sessions : UnderWay(k, s)' => UnderWay(k, s)
  BY <1>1, ReadsOnly DEF Once, Standing
<1>3. /\ Paired(gw')
      /\ \A s \in Sessions : gw'.active[s] = gw.active[s] \/ gw'.active[s] = 0
      /\ \A k \in Conns : /\ links[k].used => links'[k].used
                          /\ links'[k].open \/ links'[k].up # <<>> => links'[k].used
                          /\ gw'.bound[k] # NoSession => links'[k].open
  BY LinksStand
<1>4. /\ Paired(gw')
      /\ \A s \in Sessions : gw'.active[s] = gw.active[s] \/ gw'.active[s] = 0
  BY <1>3
<1>5. \A k \in Conns : /\ links[k].used => links'[k].used
                       /\ links'[k].open \/ links'[k].up # <<>> => links'[k].used
                       /\ gw'.bound[k] # NoSession => links'[k].open
  BY <1>3
<1>6. \A e \in entries' : e.conn \in Conns /\ links'[e.conn].used
  BY <1>5 DEF Standing
<1>7. page.conn = 0 => down' = <<>>
  BY DEF Standing
<1>8. ASSUME NEW k \in Conns, NEW s \in Sessions, a.type = "push" /\ a.conn = k /\ a.session = s
      PROVE  Mentioned(s) /\ ~UnderWay(k, s)'
  <2>1. gw.active[s] = k /\ k # 0
    BY <1>8, ConnNumbers
  <2>2. ~UnderWay(k, s)
    BY <2>1 DEF Once, Settled
  <2>. QED BY <1>2, <2>1, <2>2 DEF Mentioned
<1>9. ~\E k \in Conns, s \in Sessions : gw'.active[s] = k /\ gw.active[s] # k
  BY <1>4, ConnNumbers
<1>10. \A k \in Conns, s \in Sessions :
         \/ gw'.active[s] = k /\ gw.active[s] # k
         \/ a.type = "push" /\ a.conn = k /\ a.session = s
         \/ x.type \in Viewing /\ page.conn = k /\ x.session = s
         => Mentioned(s) /\ ~UnderWay(k, s)'
  BY <1>8, <1>9
<1>11. a.type \in Errands => /\ a.conn \in Conns /\ links'[a.conn].used
                             /\ a.session \in Sessions /\ Mentioned(a.session)
  BY <1>5
<1>12. a.type = "push" => a.revision = rooms'[a.session]
  OBVIOUS
<1>13. \A k \in Conns, s \in Sessions : \A kind : Asked(k, s, kind)' => Asked(k, s, kind)
  BY <1>1 DEF Asked
<1>14. Answers(x, a)
  BY <1>1, <1>4, <1>13, ConnNumbers DEF Answers
<1>. QED BY <1>2, <1>4, <1>5, <1>6, <1>7, <1>10, <1>11, <1>12, <1>14 DEF Serves

LEMMA Emits ==
  ASSUME Shown, NEW n \in Conns, NEW packets, IsSequence(packets), NEW x,
         \A i \in 1..Len(packets) : (i = 1 /\ packets[i] = x) \/ packets[i].type \in Silent,
         down' = Emitted(n, packets)
  PROVE  Moves(down, down', x) /\ (page.conn # n => down' = down) /\ (page.conn = 0 => down' = down)
<1>. IsSequence(down)
  BY DEF Shown, Speak
<1>1. down' = down \/ down' = down \o packets
  BY DEF Emitted
<1>2. Moves(down, down', x)
  BY <1>1, StaysMoves, SendsMoves
<1>. QED BY <1>2, ConnNumbers DEF Emitted

LEMMA SilentPackets ==
  /\ \A x, y : x.type \in Silent /\ y.type \in Silent =>
       IsSequence(<<x, y>>) /\ \A i \in 1..Len(<<x, y>>) : <<x, y>>[i].type \in Silent
  /\ \A x : x.type \in Silent => IsSequence(<<x>>) /\ \A i \in 1..Len(<<x>>) : <<x>>[i].type \in Silent
<1>1. ASSUME NEW x, NEW y, x.type \in Silent, y.type \in Silent
      PROVE  IsSequence(<<x, y>>) /\ \A i \in 1..Len(<<x, y>>) : <<x, y>>[i].type \in Silent
  <2>1. IsSequence(<<x, y>>) /\ Len(<<x, y>>) = 2 /\ <<x, y>>[1] = x /\ <<x, y>>[2] = y
    BY ShortSequences
  <2>2. \A i \in 1..2 : i = 1 \/ i = 2
    OBVIOUS
  <2>. QED BY <1>1, <2>1, <2>2
<1>2. ASSUME NEW x, x.type \in Silent
      PROVE  IsSequence(<<x>>) /\ \A i \in 1..Len(<<x>>) : <<x>>[i].type \in Silent
  <2>1. IsSequence(<<x>>) /\ Len(<<x>>) = 1 /\ <<x>>[1] = x
    BY ShortSequences
  <2>2. \A i \in 1..1 : i = 1
    OBVIOUS
  <2>. QED BY <1>2, <2>1, <2>2
<1>. QED BY <1>1, <1>2

LEMMA OnlyOne == \A x : IsSequence(<<x>>) /\ \A i \in 1..Len(<<x>>) : i = 1 /\ <<x>>[i] = x
<1>. SUFFICES ASSUME NEW x PROVE IsSequence(<<x>>) /\ \A i \in 1..Len(<<x>>) : i = 1 /\ <<x>>[i] = x
  OBVIOUS
<1>. QED BY ShortSequences

\* What is not a view comes down.
LEMMA EmitsQuietly ==
  ASSUME Shown, NEW n \in Conns,
         \/ down' = down \/ down' = Emitted(n, Replaced)
         \/ \E c, result : down' = Emitted(n, <<Answer(c, result)>>)
  PROVE  Moves(down, down', Nothing) /\ (page.conn = 0 => down' = down)
<1>1. CASE down' = down
  BY <1>1, StaysMoves DEF Shown, Speak
<1>2. CASE down' = Emitted(n, Replaced)
  <2>1. IsSequence(Replaced) /\ \A i \in 1..Len(Replaced) : Replaced[i].type \in Silent
    BY SilentPackets DEF Replaced, Silent
  <2>. QED BY <1>2, <2>1, Emits
<1>3. ASSUME NEW c, NEW result, down' = Emitted(n, <<Answer(c, result)>>)
      PROVE  Moves(down, down', Nothing) /\ (page.conn = 0 => down' = down)
  <2>. DEFINE q == <<Answer(c, result)>>
  <2>1. IsSequence(q) /\ \A i \in 1..Len(q) : q[i].type \in Silent
    BY SilentPackets DEF Answer, Silent
  <2>. HIDE DEF q
  <2>. QED BY <1>3, <2>1, Emits DEF q
<1>. QED BY <1>1, <1>2, <1>3

LEMMA ExpiresQuietly ==
  ASSUME Shown, NEW n \in Conns, NEW packets,
         packets = <<>> \/ (\E c, result : packets = <<Answer(c, result)>>),
         Expire(n, packets)
  PROVE  /\ Moves(down, down', Nothing) /\ (page.conn = 0 => down' = down)
         /\ links' = Closed(n) /\ (gw' = Detached(gw, n) \/ (gw' = gw /\ ~links[n].open))
<1>. DEFINE last == <<[type |-> "expired"], [type |-> "bye"]>>
            q == packets \o last
<1>1. IsSequence(last) /\ \A i \in 1..Len(last) : last[i].type \in Silent
  BY SilentPackets DEF Silent
<1>2. IsSequence(packets) /\ \A i \in 1..Len(packets) : packets[i].type \in Silent
  <2>1. CASE packets = <<>>
    <3>1. Len(packets) = 0
      BY <2>1
    <3>. QED BY <2>1, <3>1, ShortSequences
  <2>2. ASSUME NEW c, NEW result, packets = <<Answer(c, result)>>
        PROVE  IsSequence(packets) /\ \A i \in 1..Len(packets) : packets[i].type \in Silent
    <3>. Answer(c, result).type \in Silent
      BY DEF Answer, Silent
    <3>. QED BY <2>2, SilentPackets
  <2>. QED BY <2>1, <2>2
<1>. HIDE DEF last
<1>3. /\ IsSequence(q) /\ Len(q) = Len(packets) + Len(last)
      /\ \A i \in 1..Len(packets) : q[i] = packets[i]
      /\ \A i \in 1..Len(last) : q[Len(packets) + i] = last[i]
  BY <1>1, <1>2, JoinSequences
<1>4. Len(packets) \in Nat /\ Len(last) \in Nat
  BY <1>1, <1>2, Elements
<1>5. down' = Emitted(n, q) /\ links' = Closed(n) /\ gw' = IF links[n].open THEN Detached(gw, n) ELSE gw
  BY DEF Expire, last
<1>. HIDE DEF q
<1>6. ASSUME NEW i \in 1..Len(q) PROVE q[i].type \in Silent
  <2>1. CASE i \in 1..Len(packets)
    BY <1>2, <1>3, <2>1
  <2>2. CASE i \notin 1..Len(packets)
    <3>. i - Len(packets) \in 1..Len(last) /\ Len(packets) + (i - Len(packets)) = i
      BY <1>3, <1>4, <2>2
    <3>. QED BY <1>1, <1>3
  <2>. QED BY <2>1, <2>2
<1>7. Moves(down, down', Nothing) /\ (page.conn = 0 => down' = down)
  BY <1>3, <1>5, <1>6, Emits
<1>. QED BY <1>5, <1>7

LEMMA FirstMoves ==
  ASSUME Calling, NEW i \in Answerable, NEW a
  PROVE  /\ Without(i) = Tail(calls) /\ Moves(calls, Without(i), a)
         /\ calls[i] = Head(calls) /\ calls[i] \in In(calls)
         /\ \A p : IsSequence(p) /\ (\A j \in 1..Len(p) : j = 1 /\ p[j] = a) => Moves(calls, Without(i) \o p, a)
<1>1. i = 1 /\ calls # <<>> /\ IsSequence(calls)
  BY DEF Answerable, Calling, Speak
<1>2. Without(i) = Tail(calls) /\ calls[i] = Head(calls)
  <2>. PICK S : calls \in Seq(S)
    BY <1>1 DEF IsSequence
  <2>1. SubSeq(calls, 1, 0) = <<>> /\ SubSeq(calls, 2, Len(calls)) = Tail(calls) /\ Tail(calls) \in Seq(S)
    BY <1>1
  <2>. QED BY <1>1, <2>1 DEF Without, RemoveAt
<1>3. calls[i] \in In(calls)
  <2>. Len(calls) \in Nat /\ Len(calls) > 0
    BY <1>1, Elements
  <2>. QED BY <1>1 DEF In
<1>. QED BY <1>1, <1>2, <1>3, TailMoves, TailSendsMoves

\* The room's own revision is not behind anything that comes down, or is shown.
LEMMA EntryFits ==
  ASSUME Sourced, Screen, NEW e, NEW ok, e.session \in Sessions, UNCHANGED rooms,
         NEW n \in Conns, page.conn = n, UnderWay(n, e.session), NEW x, x = EntryAnswer(e, ok),
         \A c \in In(calls') : c.type = "push" =>
           c \in In(calls) \/ (c.session \in Sessions /\ c.revision = rooms[c.session])
  PROVE  /\ x.session = e.session /\ x.session \in Sessions /\ page.conn \in Conns
         /\ x.revision \in Nat /\ x.revision <= rooms'[x.session]
         /\ x.session = page.shown.session => page.shown.revision <= x.revision
         /\ \A y \in In(down) : y.type \in Viewing /\ y.session = x.session => y.revision <= x.revision
         /\ \A c \in In(calls') : c.type = "push" /\ c.conn = page.conn /\ c.session = x.session
              => x.revision <= c.revision
<1>. Standing /\ Once /\ Views
  BY DEF Screen
<1>1. x.session = e.session /\ x.revision = rooms[e.session] /\ rooms[e.session] \in Nat
  BY DEF EntryAnswer, Standing
<1>2. page.shown.session = e.session => page.shown # NoView
  BY DeliveryAssumption DEF NoView
<1>3. \A c \in In(calls) : c.type = "push" /\ c.conn = n => c.session # e.session
  BY DEF Once, Settled
<1>. QED BY <1>1, <1>2, <1>3 DEF Views

LEMMA HearCommandServes ==
  ASSUME Sourced, Screen, NEW n \in Conns, HearCommand(n)
  PROVE  \E x, a : Serves(x, a)
<1>. DEFINE a == [type |-> "command", conn |-> n, session |-> gw.bound[n],
                  command |-> Head(links[n].up).command, revision |-> 0,
                  live |-> sessions[gw.bound[n]] = "live"]
<1>1. /\ links[n].up # <<>> /\ links' = [links EXCEPT ![n].up = Tail(@)] /\ calls' = Append(calls, a)
      /\ gw.bound[n] # NoSession
      /\ UNCHANGED <<page, down, gw, entries, sessions, rooms, user>>
  BY DEF HearCommand
<1>2. gw.bound[n] \in Sessions /\ gw.active[gw.bound[n]] = n /\ links[n].used
  BY <1>1 DEF Sourced, Bound, Screen, Standing, Paired
<1>3. a.type = "command" /\ a.conn = n /\ a.session = gw.bound[n]
  OBVIOUS
<1>. HIDE DEF a
<1>4. Moves(down, down', Nothing) /\ Moves(calls, calls', a)
  BY <1>1, StaysMoves, AppendMoves DEF Sourced, Shown, Calling, Speak
<1>5. Mentioned(a.session)
  BY <1>2, <1>3, ConnNumbers DEF Mentioned
<1>6. /\ rooms' \in [Sessions -> Nat] /\ DOMAIN sessions' = Sessions
      /\ \A s \in Sessions : rooms[s] <= rooms'[s] /\ (sessions'[s] = "new" => sessions[s] = "new")
  BY <1>1 DEF Screen, Standing
<1>7. IsHeard(a)
  BY <1>1, <1>2, <1>3, LinksRead DEF HearCommand, IsHeard, Sourced, a
<1>8. Serves(Nothing, a)
  BY <1>1, <1>2, <1>3, <1>4, <1>5, <1>6, <1>7, NothingIsAsked, ServesQuietly
<1>. QED BY <1>8

\* Rooms and sessions as they were.
LEMMA NothingHappens ==
  ASSUME Screen, UNCHANGED <<rooms, sessions>>
  PROVE  /\ rooms' \in [Sessions -> Nat] /\ DOMAIN sessions' = Sessions
         /\ \A s \in Sessions : rooms[s] <= rooms'[s] /\ (sessions'[s] = "new" => sessions[s] = "new")
BY DEF Screen, Standing

LEMMA CommandExpiresServes ==
  ASSUME Sourced, Screen, NEW i \in Answerable, calls[i].type = "command",
         Expire(calls[i].conn, <<Answer(calls[i].command, "failed")>>), calls' = Without(i),
         UNCHANGED <<page, entries, sessions, rooms, user>>
  PROVE  \E x, a : Serves(x, a)
<1>1. calls[i] \in In(calls) /\ Moves(calls, calls', Nothing)
  BY FirstMoves DEF Sourced
<1>2. calls[i].conn \in Conns
  BY <1>1 DEF Screen, Standing, Errands
<1>3. /\ Moves(down, down', Nothing) /\ (page.conn = 0 => down' = down)
      /\ links' = Closed(calls[i].conn)
      /\ (gw' = Detached(gw, calls[i].conn) \/ (gw' = gw /\ ~links[calls[i].conn].open))
  BY <1>2, ExpiresQuietly DEF Sourced
<1>4. Serves(Nothing, Nothing)
  BY <1>1, <1>2, <1>3, NothingIsAsked, NothingHappens, ServesQuietly
<1>. QED BY <1>4

LEMMA LosesServes ==
  ASSUME Sourced, Screen, NEW n \in Conns, ServerLoses(n)
  PROVE  \E x, a : Serves(x, a)
<1>1. Moves(calls, calls', Nothing) /\ Moves(down, down', Nothing) /\ down' = down
  BY StaysMoves DEF ServerLoses, Sourced, Calling, Shown, Speak
<1>2. Serves(Nothing, Nothing)
  BY <1>1, NothingIsAsked, NothingHappens, ServesQuietly DEF ServerLoses
<1>. QED BY <1>2

LEMMA OtherPageServes ==
  ASSUME Sourced, Screen, NEW s \in Sessions, OtherPage(s)
  PROVE  \E x, a : Serves(x, a)
<1>1. gw.active[s] \in Conns
  BY DEF OtherPage, Screen, Standing, Paired
<1>2. Moves(down, down', Nothing) /\ (page.conn = 0 => down' = down)
  BY <1>1, EmitsQuietly DEF OtherPage, Sourced
<1>3. Moves(calls, calls', Nothing)
  BY StaysMoves DEF OtherPage, Sourced, Calling, Speak
<1>4. Serves(Nothing, Nothing)
  BY <1>1, <1>2, <1>3, NothingIsAsked, NothingHappens, ServesQuietly DEF OtherPage
<1>. QED BY <1>4

LEMMA EndSessionServes ==
  ASSUME Sourced, Screen, NEW s \in Sessions, EndSession(s)
  PROVE  \E x, a : Serves(x, a)
<1>1. /\ Moves(calls, calls', Nothing) /\ Moves(down, down', Nothing) /\ down' = down
      /\ UNCHANGED <<page, gw, links, entries, rooms, user>>
  BY StaysMoves DEF EndSession, Sourced, Calling, Shown, Speak
<1>2. /\ rooms' \in [Sessions -> Nat] /\ DOMAIN sessions' = Sessions
      /\ \A t \in Sessions : rooms[t] <= rooms'[t] /\ (sessions'[t] = "new" => sessions[t] = "new")
  BY DEF EndSession, Screen, Standing
<1>3. Serves(Nothing, Nothing)
  BY <1>1, <1>2, NothingIsAsked, ServesQuietly
<1>. QED BY <1>3

\* The room moves, and its view is to be pushed to the session's connection.
LEMMA PushesAre ==
  ASSUME Sourced, Screen, NEW s \in Sessions, rooms' = [rooms EXCEPT ![s] = @ + 1]
  PROVE  /\ rooms' \in [Sessions -> Nat] /\ \A t \in Sessions : rooms[t] <= rooms'[t]
         /\ \E a : /\ IsSequence(Pushes(s)) /\ \A j \in 1..Len(Pushes(s)) : j = 1 /\ Pushes(s)[j] = a
                   /\ a.type \in Errands => /\ a.conn \in Conns /\ links[a.conn].used
                                            /\ a.session \in Sessions /\ Mentioned(a.session)
                   /\ a.type \in Errands => a.type = "push"
                   /\ a.type = "push" => gw.active[a.session] = a.conn /\ a.revision = rooms'[a.session]
<1>1. rooms \in [Sessions -> Nat] /\ Paired(gw)
  BY DEF Screen, Standing
<1>2. rooms' \in [Sessions -> Nat] /\ \A t \in Sessions : rooms[t] <= rooms'[t]
  BY <1>1
<1>3. rooms'[s] = rooms[s] + 1
  BY <1>1
<1>4. CASE gw.active[s] = 0
  <2>1. IsSequence(Pushes(s)) /\ \A j \in 1..Len(Pushes(s)) : FALSE
    <3>. Len(<<>>) = 0 /\ 1..0 = {}
      OBVIOUS
    <3>. QED BY <1>4, ShortSequences DEF Pushes
  <2>. QED BY <1>2, <2>1, NothingIsAsked
<1>5. CASE gw.active[s] # 0
  <2>. DEFINE a == Push(gw.active[s], s, rooms[s] + 1)
  <2>1. IsSequence(<<a>>) /\ \A j \in 1..Len(<<a>>) : j = 1 /\ <<a>>[j] = a
    BY ShortSequences
  <2>2. Pushes(s) = <<a>>
    BY <1>5 DEF Pushes
  <2>3. a.conn = gw.active[s] /\ a.session = s /\ a.revision = rooms'[s] /\ a.type = "push"
    BY <1>3 DEF Push
  <2>4. gw.active[s] \in Conns /\ gw.bound[gw.active[s]] = s
    BY <1>1, <1>5 DEF Paired
  <2>5. links[gw.active[s]].used /\ Mentioned(s)
    BY <1>5, <2>4, DeliveryAssumption DEF Screen, Standing, Mentioned
  <2>. HIDE DEF a
  <2>. QED BY <1>2, <2>1, <2>2, <2>3, <2>4, <2>5
<1>. QED BY <1>4, <1>5

LEMMA PublishServes ==
  ASSUME Sourced, Screen, NEW s \in Sessions, Publish(s)
  PROVE  \E x, a : Serves(x, a)
<1>1. /\ rooms' = [rooms EXCEPT ![s] = @ + 1] /\ calls' = calls \o Pushes(s)
      /\ UNCHANGED <<page, links, down, gw, entries, sessions, user>>
  BY DEF Publish
<1>2. PICK a : /\ IsSequence(Pushes(s)) /\ \A j \in 1..Len(Pushes(s)) : j = 1 /\ Pushes(s)[j] = a
               /\ a.type \in Errands => /\ a.conn \in Conns /\ links[a.conn].used
                                        /\ a.session \in Sessions /\ Mentioned(a.session)
               /\ a.type \in Errands => a.type = "push"
               /\ a.type = "push" => gw.active[a.session] = a.conn /\ a.revision = rooms'[a.session]
  BY <1>1, PushesAre
<1>3. Moves(calls, calls', a) /\ Moves(down, down', Nothing)
  BY <1>1, <1>2, SendsMoves, StaysMoves DEF Sourced, Calling, Shown, Speak
<1>4. /\ rooms' \in [Sessions -> Nat] /\ DOMAIN sessions' = Sessions
      /\ \A t \in Sessions : rooms[t] <= rooms'[t] /\ (sessions'[t] = "new" => sessions[t] = "new")
  BY <1>1, PushesAre DEF Screen, Standing
<1>5. Serves(Nothing, a)
  BY <1>1, <1>2, <1>3, <1>4, NothingIsAsked, ServesQuietly
<1>. QED BY <1>5

LEMMA DispatchServes ==
  ASSUME Sourced, Screen, NEW i \in Answerable, Dispatch(i)
  PROVE  \E x, a : Serves(x, a)
<1>. DEFINE s == calls[i].session
<1>1. /\ \E c, verdict : down' = Emitted(calls[i].conn, <<Answer(c, verdict)>>)
      /\ \/ rooms' = [rooms EXCEPT ![s] = @ + 1] /\ calls' = Without(i) \o Pushes(s)
         \/ rooms' = [rooms EXCEPT ![s] = @] /\ calls' = Without(i) \o <<>>
      /\ calls[i].type = "command" /\ UNCHANGED <<page, links, gw, entries, sessions, user>>
  BY DEF Dispatch
<1>2. calls[i].conn \in Conns /\ s \in Sessions
  BY <1>1, FirstMoves, FirstCall DEF Sourced, Screen, Standing, Errands
<1>3. Moves(down, down', Nothing) /\ (page.conn = 0 => down' = down)
  BY <1>1, <1>2, EmitsQuietly DEF Sourced
<1>. HIDE DEF s
<1>4. CASE rooms' = [rooms EXCEPT ![s] = @ + 1] /\ calls' = Without(i) \o Pushes(s)
  <2>1. PICK a : /\ IsSequence(Pushes(s)) /\ \A j \in 1..Len(Pushes(s)) : j = 1 /\ Pushes(s)[j] = a
                 /\ a.type \in Errands => /\ a.conn \in Conns /\ links[a.conn].used
                                          /\ a.session \in Sessions /\ Mentioned(a.session)
                 /\ a.type \in Errands => a.type = "push"
                 /\ a.type = "push" => gw.active[a.session] = a.conn /\ a.revision = rooms'[a.session]
    BY <1>2, <1>4, PushesAre
  <2>2. Moves(calls, calls', a)
    BY <1>4, <2>1, FirstMoves DEF Sourced
  <2>3. /\ rooms' \in [Sessions -> Nat] /\ DOMAIN sessions' = Sessions
        /\ \A t \in Sessions : rooms[t] <= rooms'[t] /\ (sessions'[t] = "new" => sessions[t] = "new")
    BY <1>1, <1>2, <1>4, PushesAre DEF Screen, Standing
  <2>4. Serves(Nothing, a)
    BY <1>1, <1>3, <2>1, <2>2, <2>3, NothingIsAsked, ServesQuietly
  <2>. QED BY <2>4
<1>5. CASE rooms' = [rooms EXCEPT ![s] = @] /\ calls' = Without(i) \o <<>>
  <2>1. IsSequence(<<>>) /\ \A j \in 1..Len(<<>>) : j = 1 /\ <<>>[j] = Nothing
    <3>. Len(<<>>) = 0 /\ 1..0 = {}
      OBVIOUS
    <3>. QED BY ShortSequences
  <2>2. Moves(calls, calls', Nothing)
    BY <1>5, <2>1, FirstMoves DEF Sourced
  <2>3. rooms' = rooms
    BY <1>5 DEF Screen, Standing
  <2>4. Serves(Nothing, Nothing)
    BY <1>1, <1>3, <2>2, <2>3, NothingIsAsked, NothingHappens, ServesQuietly
  <2>. QED BY <2>4
<1>. QED BY <1>1, <1>4, <1>5

\* A request that is read is no longer to be read.
LEMMA HeadIsGone ==
  ASSUME Wire, Distinct, NEW n \in Conns, links[n].up # <<>>, Head(links[n].up).type = "enter",
         links' = [links EXCEPT ![n].up = Tail(@)]
  PROVE  /\ UnderWay(n, Head(links[n].up).session)
         /\ \A x \in In(links'[n].up) : x.type = "enter" => x.session # Head(links[n].up).session
         /\ \A e \in entries : e.conn = n => e.session # Head(links[n].up).session
<1>. DEFINE q == links[n].up
<1>1. IsSequence(q) /\ q # <<>> /\ Apart(q) /\ links'[n].up = Tail(q)
  BY LinksRead DEF Wire, Speak, Distinct
<1>2. Head(q) \in In(q) /\ q[1] = Head(q)
  BY <1>1, ElementsOf
<1>3. UnderWay(n, Head(q).session)
  BY <1>2, UnderWayIs
<1>4. \A e \in entries : e.conn = n => e.session # Head(q).session
  BY <1>2 DEF Distinct
<1>5. ASSUME NEW x \in In(Tail(q)), x.type = "enter" PROVE x.session # Head(q).session
  <2>1. /\ Len(q) \in Nat /\ Len(q) > 0 /\ Len(Tail(q)) = Len(q) - 1
        /\ \A i \in 1..Len(Tail(q)) : Tail(q)[i] = q[i + 1]
    BY <1>1, Elements, TailSequence
  <2>. HIDE DEF q
  <2>2. PICK i \in 1..Len(Tail(q)) : x = Tail(q)[i]
    BY DEF In
  <2>3. i + 1 \in 1..Len(q) /\ 1 \in 1..Len(q) /\ i + 1 # 1 /\ x = q[i + 1]
    BY <2>1, <2>2
  <2>. QED BY <1>1, <1>2, <1>5, <2>3 DEF Apart, q
<1>. QED BY <1>1, <1>3, <1>4, <1>5

LEMMA HearEntryServes ==
  ASSUME Sourced, Screen, NEW n \in Conns, HearEntry(n)
  PROVE  \E x, a : Serves(x, a)
<1>. DEFINE e == [conn |-> n, kind |-> Head(links[n].up).kind, session |-> Head(links[n].up).session]
            s == Head(links[n].up).session
<1>1. /\ links[n].up # <<>> /\ Head(links[n].up).type = "enter" /\ links' = [links EXCEPT ![n].up = Tail(@)]
      /\ entries' = entries \cup {e} /\ e.conn = n /\ e.session = s
      /\ UNCHANGED <<page, down, gw, calls, sessions, rooms, user>>
  BY DEF HearEntry
<1>. Wire /\ Distinct /\ Standing
  BY DEF Sourced, Screen, Once
<1>2. /\ UnderWay(n, s)
      /\ \A x \in In(links'[n].up) : x.type = "enter" => x.session # s
      /\ \A d \in entries : d.conn = n => d.session # s
  BY <1>1, HeadIsGone
<1>3. \A k \in Conns : /\ Moves(links[k].up, links'[k].up, Nothing)
                       /\ In(links'[k].up) \subseteq In(links[k].up)
  BY <1>1, QuietLinks
<1>. HIDE DEF e, s
<1>4. \A k \in Conns : Apart(links'[k].up)
  <2>. Nothing.type # "enter"
    BY DEF Nothing
  <2>. QED BY <1>3, ApartMoves DEF Distinct
<1>5. Distinct'
  <2>1. ASSUME NEW k \in Conns, NEW x \in In(links'[k].up), NEW d \in entries', x.type = "enter", d.conn = k
        PROVE  x.session # d.session
    BY <1>1, <1>2, <1>3, <2>1 DEF Distinct
  <2>2. ASSUME NEW d \in entries', NEW f \in entries', d.conn = f.conn, d.session = f.session PROVE d = f
    BY <1>1, <1>2, <2>2 DEF Distinct
  <2>. QED BY <1>3, <1>4, <2>1, <2>2 DEF Distinct
<1>6. ASSUME NEW k \in Conns, NEW t \in Sessions, UnderWay(k, t)' PROVE UnderWay(k, t)
  <2>1. \/ \E x \in In(links'[k].up) : x.type = "enter" /\ x.session = t
        \/ \E d \in entries' : d.conn = k /\ d.session = t
    BY <1>6 DEF UnderWay, In
  <2>. QED BY <1>1, <1>2, <1>3, <2>1, UnderWayIs
<1>7. Moves(down, down', Nothing) /\ Moves(calls, calls', Nothing)
  BY <1>1, StaysMoves DEF Sourced, Calling, Shown, Speak
<1>8. \A k \in Conns : /\ links[k].used => links'[k].used
                       /\ links'[k].open \/ links'[k].up # <<>> => links'[k].used
                       /\ gw'.bound[k] # NoSession => links'[k].open
  BY <1>1, LinksRead DEF Standing
<1>9. \A d \in entries' : d.conn \in Conns /\ links'[d.conn].used
  <2>1. links[n].used
    BY <1>1 DEF Standing
  <2>. QED BY <1>1, <1>8, <2>1 DEF Standing
<1>10. page.conn = 0 => down' = <<>>
  BY <1>1 DEF Standing
<1>11. Paired(gw')
  BY <1>1 DEF Standing
<1>13. \A k \in Conns, t \in Sessions : \A kind : Asked(k, t, kind)' => Asked(k, t, kind)
  <2>. SUFFICES ASSUME NEW k \in Conns, NEW t \in Sessions, NEW kind, Asked(k, t, kind)' PROVE Asked(k, t, kind)
    OBVIOUS
  <2>1. IsSequence(links[n].up) /\ Head(links[n].up) \in In(links[n].up)
    BY <1>1, ElementsOf DEF Wire, Speak
  <2>2. e.kind = Head(links[n].up).kind /\ s = Head(links[n].up).session
    BY DEF e, s
  <2>. QED BY <1>1, <1>3, <2>1, <2>2 DEF Asked
<1>14. Answers(Nothing, Nothing)
  BY <1>1, <1>3, <1>13, NothingIsAsked DEF Answers
<1>12. Serves(Nothing, Nothing)
  BY <1>1, <1>5, <1>6, <1>7, <1>8, <1>9, <1>10, <1>11, <1>14, NothingIsAsked, NothingHappens DEF Serves
<1>. QED BY <1>12

LEMMA RefuseAtOnceServes ==
  ASSUME Sourced, Screen, NEW n \in Conns, RefuseAtOnce(n)
  PROVE  \E x, a : Serves(x, a)
<1>. DEFINE packet == Head(links[n].up)
<1>1. /\ links[n].up # <<>> /\ links' = [links EXCEPT ![n].up = Tail(@)]
      /\ down' = Emitted(n, <<IF packet.type = "command" THEN Answer(packet.command, "failed")
                              ELSE EntryAnswer(packet, FALSE)>>)
      /\ UNCHANGED <<page, gw, entries, calls, sessions, rooms, user>>
  BY DEF RefuseAtOnce
<1>2. Moves(calls, calls', Nothing) /\ calls' = calls
  BY <1>1, StaysMoves DEF Sourced, Calling, Speak
<1>3. packet.type \in {"enter", "command"}
  <2>. links[n].up # <<>> /\ IsSequence(links[n].up)
    BY <1>1 DEF Sourced, Wire, Speak
  <2>. QED BY ElementsOf DEF Screen, Once, Distinct
<1>. HIDE DEF packet
<1>4. CASE packet.type = "command"
  <2>1. Moves(down, down', Nothing) /\ (page.conn = 0 => down' = down)
    BY <1>1, <1>4, EmitsQuietly DEF Sourced
  <2>2. Serves(Nothing, Nothing)
    BY <1>1, <1>2, <2>1, NothingIsAsked, NothingHappens, ServesQuietly
  <2>. QED BY <2>2
<1>5. CASE packet.type = "enter"
  <2>. DEFINE x == EntryAnswer(packet, FALSE)
  <2>1. x.type = "entered" /\ x.session = packet.session /\ x.kind = packet.kind
    BY DEF EntryAnswer
  <2>2. IsSequence(<<x>>) /\ \A i \in 1..Len(<<x>>) : i = 1 /\ <<x>>[i] = x
    BY OnlyOne
  <2>3. down' = Emitted(n, <<x>>)
    BY <1>1, <1>5
  <2>4. /\ Moves(down, down', x) /\ (page.conn # n => down' = down) /\ (page.conn = 0 => down' = down)
    <3>. HIDE DEF x
    <3>. QED BY <2>2, <2>3, Emits DEF Sourced
  <2>5. CASE page.conn # n
    <3>1. Moves(down, down', Nothing)
      BY <2>4, <2>5, StaysMoves DEF Sourced, Shown, Speak
    <3>2. Serves(Nothing, Nothing)
      BY <1>1, <1>2, <2>4, <3>1, NothingIsAsked, NothingHappens, ServesQuietly
    <3>. QED BY <3>2
  <2>6. CASE page.conn = n
    <3>1. packet.session \in Sessions
      BY <1>1, <1>5, WireRead DEF Sourced, packet
    <3>. PICK t \in Sessions : t = packet.session
      BY <3>1
    <3>2. /\ UnderWay(n, packet.session)
          /\ \A y \in In(links'[n].up) : y.type = "enter" => y.session # packet.session
          /\ \A e \in entries : e.conn = n => e.session # packet.session
      BY <1>1, <1>5, HeadIsGone DEF packet, Sourced, Screen, Once
    <3>3. ~UnderWay(n, t)'
      BY <1>1, <3>2 DEF UnderWay, In
    <3>4. Mentioned(packet.session)
      BY <3>2 DEF Mentioned
    <3>5. rooms' = rooms
      BY <1>1
    <3>6. /\ x.session \in Sessions /\ page.conn \in Conns
          /\ x.revision \in Nat /\ x.revision <= rooms'[x.session]
          /\ x.session = page.shown.session => page.shown.revision <= x.revision
          /\ \A y \in In(down) : y.type \in Viewing /\ y.session = x.session => y.revision <= x.revision
          /\ \A c \in In(calls') : c.type = "push" /\ c.conn = page.conn /\ c.session = x.session
               => x.revision <= c.revision
      BY <1>2, <2>6, <3>1, <3>2, <3>5, EntryFits
    <3>7. \A k \in Conns, s \in Sessions :
            x.type \in Viewing /\ page.conn = k /\ x.session = s => Mentioned(s) /\ ~UnderWay(k, s)'
      BY <2>1, <2>6, <3>3, <3>4
    <3>9. Asked(page.conn, x.session, x.kind)
      <4>1. Head(links[n].up) \in In(links[n].up)
        BY <1>1, ElementsOf DEF Sourced, Wire, Speak
      <4>. QED BY <1>5, <2>1, <2>6, <4>1 DEF Asked, packet
    <3>. HIDE DEF x
    <3>8. Serves(x, Nothing)
      BY <1>1, <1>2, <2>4, <3>6, <3>7, <3>9, NothingIsAsked, NothingHappens, ServesQuietly
    <3>. QED BY <3>8
  <2>. QED BY <2>5, <2>6
<1>. QED BY <1>3, <1>4, <1>5

\* An admission that is answered is under way no more.
LEMMA EntryIsGone ==
  ASSUME Distinct, NEW e \in entries, e.conn \in Conns, entries' = entries \ {e},
         In(links'[e.conn].up) \subseteq In(links[e.conn].up)
  PROVE  /\ UnderWay(e.conn, e.session)
         /\ \A n, s : n = e.conn /\ s = e.session => ~UnderWay(n, s)'
<1>1. UnderWay(e.conn, e.session)
  BY UnderWayIs
<1>2. ASSUME NEW n, NEW s, n = e.conn, s = e.session PROVE ~UnderWay(n, s)'
  <2>1. \A x \in In(links'[n].up) : x.type = "enter" => x.session # s
    BY <1>2 DEF Distinct
  <2>2. \A d \in entries' : d.conn = n => d.session # s
    BY <1>2 DEF Distinct
  <2>. QED BY <2>1, <2>2 DEF UnderWay, In
<1>. QED BY <1>1, <1>2

LEMMA RefuseServes ==
  ASSUME Sourced, Screen, NEW e \in entries, Refuse(e)
  PROVE  \E x, a : Serves(x, a)
<1>. DEFINE x == EntryAnswer(e, FALSE)
            n == e.conn
            t == e.session
<1>1. /\ entries' = entries \ {e} /\ down' = Emitted(n, <<x>>)
      /\ UNCHANGED <<page, links, gw, calls, sessions, rooms, user>>
  BY DEF Refuse
<1>2. Moves(calls, calls', Nothing) /\ calls' = calls
  BY <1>1, StaysMoves DEF Sourced, Calling, Speak
<1>3. n \in Conns /\ t \in Sessions
  BY DEF Sourced, Screen, Standing
<1>4. x.type = "entered" /\ x.session = t /\ x.kind = e.kind
  BY DEF EntryAnswer
<1>5. IsSequence(<<x>>) /\ \A i \in 1..Len(<<x>>) : i = 1 /\ <<x>>[i] = x
  BY OnlyOne
<1>6. /\ Moves(down, down', x) /\ (page.conn # n => down' = down) /\ (page.conn = 0 => down' = down)
  <2>. HIDE DEF x, n
  <2>. QED BY <1>1, <1>3, <1>5, Emits DEF Sourced
<1>7. UnderWay(n, t) /\ ~UnderWay(n, t)'
  <2>. Distinct /\ links' = links
    BY <1>1 DEF Screen, Once
  <2>. QED BY <1>1, <1>3, EntryIsGone
<1>8. CASE page.conn # n
  <2>1. Moves(down, down', Nothing)
    BY <1>6, <1>8, StaysMoves DEF Sourced, Shown, Speak
  <2>2. Serves(Nothing, Nothing)
    BY <1>1, <1>2, <1>6, <2>1, NothingIsAsked, NothingHappens, ServesQuietly
  <2>. QED BY <2>2
<1>9. CASE page.conn = n
  <2>1. Mentioned(t)
    BY <1>3, <1>7 DEF Mentioned
  <2>2. /\ x.session \in Sessions /\ page.conn \in Conns
        /\ x.revision \in Nat /\ x.revision <= rooms'[x.session]
        /\ x.session = page.shown.session => page.shown.revision <= x.revision
        /\ \A y \in In(down) : y.type \in Viewing /\ y.session = x.session => y.revision <= x.revision
        /\ \A c \in In(calls') : c.type = "push" /\ c.conn = page.conn /\ c.session = x.session
             => x.revision <= c.revision
    BY <1>1, <1>2, <1>3, <1>7, <1>9, EntryFits
  <2>3. \A k \in Conns, s \in Sessions :
          x.type \in Viewing /\ page.conn = k /\ x.session = s => Mentioned(s) /\ ~UnderWay(k, s)'
    BY <1>4, <1>7, <1>9, <2>1
  <2>5. Asked(page.conn, x.session, x.kind)
    BY <1>4, <1>9 DEF Asked
  <2>. HIDE DEF x, n, t
  <2>4. Serves(x, Nothing)
    BY <1>1, <1>2, <1>6, <2>2, <2>3, <2>5, NothingIsAsked, NothingHappens, ServesQuietly
  <2>. QED BY <2>4
<1>. QED BY <1>8, <1>9

\* The first push is overtaken by none for the same connection and session.
LEMMA FirstPush ==
  ASSUME Calling, RisingPushes(calls), NEW i \in Answerable, calls[i].type = "push"
  PROVE  \A c \in In(Without(i)) : c.type = "push" /\ c.conn = calls[i].conn /\ c.session = calls[i].session
           => calls[i].revision <= c.revision
<1>. SUFFICES ASSUME NEW c \in In(Without(i)), c.type = "push", c.conn = calls[i].conn,
                     c.session = calls[i].session
              PROVE  calls[i].revision <= c.revision
  OBVIOUS
<1>1. i = 1 /\ calls # <<>> /\ IsSequence(calls) /\ Without(i) = Tail(calls)
  BY FirstMoves DEF Answerable, Calling, Speak
<1>2. /\ Len(calls) \in Nat /\ Len(calls) > 0 /\ Len(Tail(calls)) = Len(calls) - 1
      /\ \A j \in 1..Len(Tail(calls)) : Tail(calls)[j] = calls[j + 1]
  BY <1>1, Elements, TailSequence
<1>3. PICK j \in 1..Len(Tail(calls)) : c = Tail(calls)[j]
  BY <1>1 DEF In
<1>4. j + 1 \in 1..Len(calls) /\ 1 \in 1..Len(calls) /\ 1 < j + 1 /\ c = calls[j + 1]
  BY <1>2, <1>3
<1>. QED BY <1>1, <1>4 DEF RisingPushes

LEMMA AuthorizePushServes ==
  ASSUME Sourced, Screen, NEW i \in Answerable, AuthorizePush(i)
  PROVE  \E x, a : Serves(x, a)
<1>1. PICK p : p = calls[i]
  OBVIOUS
<1>. DEFINE n == p.conn
            s == p.session
            x == [type |-> "state", session |-> s, revision |-> p.revision]
<1>2. /\ p.type = "push" /\ calls' = Without(i) /\ UNCHANGED <<page, entries, sessions, rooms, user>>
      /\ \/ UNCHANGED <<gw, links, down>>
         \/ down' = Emitted(n, <<x>>) /\ UNCHANGED <<gw, links>>
         \/ Expire(n, <<>>)
  BY <1>1 DEF AuthorizePush
<1>3. p \in In(calls) /\ Moves(calls, calls', Nothing)
  BY <1>1, <1>2, FirstMoves DEF Sourced
<1>4. n \in Conns /\ s \in Sessions
  BY <1>2, <1>3, SpokenFor DEF Screen, Standing, Errands
<1>. HIDE DEF n, s
<1>5. CASE UNCHANGED <<gw, links, down>>
  <2>1. Moves(down, down', Nothing) /\ down' = down
    BY <1>5, StaysMoves DEF Sourced, Shown, Speak
  <2>2. Serves(Nothing, Nothing)
    BY <1>2, <1>3, <1>5, <2>1, NothingIsAsked, NothingHappens, ServesQuietly
  <2>. QED BY <2>2
<1>6. CASE down' = Emitted(n, <<x>>) /\ UNCHANGED <<gw, links>>
  <2>1. x.type = "state" /\ x.session = s /\ x.revision = p.revision
    OBVIOUS
  <2>2. IsSequence(<<x>>) /\ \A j \in 1..Len(<<x>>) : j = 1 /\ <<x>>[j] = x
    BY OnlyOne
  <2>. HIDE DEF x
  <2>3. /\ Moves(down, down', x) /\ (page.conn # n => down' = down) /\ (page.conn = 0 => down' = down)
    BY <1>4, <1>6, <2>2, Emits DEF Sourced
  <2>4. CASE page.conn # n
    <3>1. Moves(down, down', Nothing)
      BY <2>3, <2>4, StaysMoves DEF Sourced, Shown, Speak
    <3>2. Serves(Nothing, Nothing)
      BY <1>2, <1>3, <1>6, <2>3, <3>1, NothingIsAsked, NothingHappens, ServesQuietly
    <3>. QED BY <3>2
  <2>5. CASE page.conn = n
    <3>1. Settled(n, s) /\ Mentioned(s)
      BY <1>2, <1>3 DEF Settled, Mentioned, Errands, n, s
    <3>2. ~UnderWay(n, s)
      BY <1>4, <3>1 DEF Screen, Once
    <3>3. \A k \in Conns, t \in Sessions : ~UnderWay(k, t) => ~UnderWay(k, t)'
      BY <1>2, <1>6 DEF UnderWay
    <3>4. \A k \in Conns, t \in Sessions :
            x.type \in Viewing /\ page.conn = k /\ x.session = t => Mentioned(t) /\ ~UnderWay(k, t)'
      BY <2>1, <2>5, <3>1, <3>2, <3>3
    <3>5. \A c \in In(calls') : c.type = "push" /\ c.conn = page.conn /\ c.session = x.session
            => x.revision <= c.revision
      BY <1>1, <1>2, <2>1, <2>5, FirstPush DEF Sourced, Screen, Views, n, s
    <3>6. /\ x.session \in Sessions /\ page.conn \in Conns
          /\ x.revision \in Nat /\ x.revision <= rooms'[x.session]
          /\ x.session = page.shown.session => page.shown.revision <= x.revision
          /\ \A y \in In(down) : y.type \in Viewing /\ y.session = x.session => y.revision <= x.revision
      BY <1>2, <1>3, <1>4, <2>1, <2>5 DEF Screen, Views, n, s
    <3>7. Serves(x, Nothing)
      BY <1>2, <1>3, <1>6, <2>1, <2>3, <3>4, <3>5, <3>6, NothingIsAsked, NothingHappens, ServesQuietly
    <3>. QED BY <3>7
  <2>. QED BY <2>4, <2>5
<1>7. CASE Expire(n, <<>>)
  <2>1. /\ Moves(down, down', Nothing) /\ (page.conn = 0 => down' = down)
        /\ links' = Closed(n) /\ (gw' = Detached(gw, n) \/ (gw' = gw /\ ~links[n].open))
    BY <1>4, <1>7, ExpiresQuietly DEF Sourced
  <2>2. Serves(Nothing, Nothing)
    BY <1>2, <1>3, <1>4, <2>1, NothingIsAsked, NothingHappens, ServesQuietly
  <2>. QED BY <2>2
<1>. QED BY <1>2, <1>5, <1>6, <1>7

LEMMA RestartServes ==
  ASSUME Sourced, Screen, Restart
  PROVE  \E x, a : Serves(x, a)
<1>. Standing /\ Wire
  BY DEF Screen, Sourced
<1>1. /\ \A n \in Conns : links'[n].used = links[n].used /\ ~links'[n].open /\ links'[n].up = <<>>
      /\ entries' = {} /\ calls' = <<>>
      /\ gw'.bound = [n \in Conns |-> NoSession] /\ gw'.active = [s \in Sessions |-> 0]
      /\ UNCHANGED <<page, down, sessions, rooms, user>>
  BY DEF Restart, Wire
<1>2. Paired(gw')
  BY <1>1, ConnNumbers, DeliveryAssumption DEF Paired, Bound
<1>3. \A n \in Conns : In(links'[n].up) = {} /\ Len(links'[n].up) = 0
  BY <1>1, ElementsOf
<1>4. \A n \in Conns, s \in Sessions : ~UnderWay(n, s)'
  <2>. 1..0 = {}
    OBVIOUS
  <2>. QED BY <1>1, <1>3 DEF UnderWay
<1>5. Distinct'
  <2>. 1..0 = {}
    OBVIOUS
  <2>. QED BY <1>1, <1>3 DEF Distinct, Apart
<1>6. Moves(calls, calls', Nothing) /\ Moves(down, down', Nothing) /\ (page.conn = 0 => down' = <<>>)
  BY <1>1, StaysMoves, EmptyMoves DEF Sourced, Calling, Shown, Speak, Standing
<1>8. \A n \in Conns, s \in Sessions : \A kind : ~Asked(n, s, kind)'
  BY <1>1, <1>3 DEF Asked
<1>9. \A n \in Conns : Moves(links[n].up, links'[n].up, Nothing) /\ In(links'[n].up) \subseteq In(links[n].up)
  <2>. SUFFICES ASSUME NEW n \in Conns
                PROVE  Moves(links[n].up, links'[n].up, Nothing) /\ In(links'[n].up) \subseteq In(links[n].up)
    OBVIOUS
  <2>1. IsSequence(links[n].up) /\ links'[n].up = <<>> /\ In(links'[n].up) = {}
    BY <1>1, <1>3 DEF Wire, Speak
  <2>. QED BY <2>1, EmptyMoves
<1>10. Answers(Nothing, Nothing)
  BY <1>1, <1>8, <1>9, ConnNumbers, NothingIsAsked DEF Answers
<1>7. Serves(Nothing, Nothing)
  BY <1>1, <1>2, <1>4, <1>5, <1>6, <1>10, ConnNumbers, NothingIsAsked, NothingHappens DEF Serves
<1>. QED BY <1>7

\* The connection that is let in speaks for the session, and the one before does no more.
LEMMA AttachIs ==
  ASSUME Wire, Standing, NEW e \in entries, Attach(e), NEW n, n = e.conn, NEW s \in Sessions, s = e.session
  PROVE  /\ n \in Conns /\ Paired(gw')
         /\ \A t \in Sessions :
              gw'.active[t] = gw.active[t] \/ gw'.active[t] = 0 \/ (t = s /\ gw'.active[t] = n)
         /\ \A j \in Conns : /\ links[j].used => links'[j].used
                             /\ links'[j].open \/ links'[j].up # <<>> => links'[j].used
                             /\ gw'.bound[j] # NoSession => links'[j].open
                             /\ Moves(links[j].up, links'[j].up, Nothing)
                             /\ In(links'[j].up) \subseteq In(links[j].up)
         /\ \/ \E k \in Conns : down' = Emitted(k, Replaced)
            \/ down' = Emitted(n, <<EntryAnswer(e, TRUE)>>)
<1>. DEFINE k == IF gw.active[s] = n THEN 0 ELSE gw.active[s]
            h == IF k = 0 THEN gw ELSE Detached(gw, k)
            g == Detached(h, n)
<1>1. /\ links[n].open /\ links' = (IF k = 0 THEN links ELSE Closed(k))
      /\ gw' = [bound |-> [g.bound EXCEPT ![n] = s], active |-> [g.active EXCEPT ![s] = n]]
      /\ down' = IF k # 0 /\ page.conn = k THEN Emitted(k, Replaced) ELSE Emitted(n, <<EntryAnswer(e, TRUE)>>)
  BY DEF Attach
<1>2. n \in Conns /\ k \in Conns \cup {0} /\ k # n /\ (gw.active[s] = n \/ gw.active[s] = k)
  BY ConnNumbers DEF Standing, Paired
<1>. HIDE DEF k
<1>3. /\ Paired(h)
      /\ \A j \in Conns : h.bound[j] = (IF j = k THEN NoSession ELSE gw.bound[j])
      /\ \A t \in Sessions : h.active[t] = (IF gw.active[t] = k THEN 0 ELSE gw.active[t])
  <2>1. CASE k = 0
    BY <2>1, ConnNumbers DEF Standing
  <2>2. CASE k # 0
    BY <1>2, <2>2, DetachedIs DEF Standing
  <2>. QED BY <2>1, <2>2
<1>. HIDE DEF h
<1>4. /\ Paired(g)
      /\ \A j \in Conns : g.bound[j] = (IF j = n THEN NoSession ELSE h.bound[j])
      /\ \A t \in Sessions : g.active[t] = (IF h.active[t] = n THEN 0 ELSE h.active[t])
  BY <1>2, <1>3, DetachedIs
<1>. HIDE DEF g
<1>5. g.bound[n] = NoSession /\ g.active[s] = 0
  BY <1>2, <1>3, <1>4
<1>6. Paired(gw')
  BY <1>1, <1>2, <1>4, <1>5, AttachedIs
<1>7. \A t \in Sessions : gw'.active[t] = gw.active[t] \/ gw'.active[t] = 0 \/ (t = s /\ gw'.active[t] = n)
  BY <1>1, <1>3, <1>4 DEF Paired
<1>8. \A j \in Conns : /\ links[j].used => links'[j].used
                       /\ links'[j].open \/ links'[j].up # <<>> => links'[j].used
                       /\ j # k => links'[j] = links[j]
  <2>1. CASE k = 0
    BY <1>1, <2>1 DEF Standing
  <2>2. CASE k # 0
    BY <1>1, <1>2, <2>2, LinksClosed DEF Standing
  <2>. QED BY <2>1, <2>2
<1>9. \A j \in Conns : gw'.bound[j] # NoSession => links'[j].open
  <2>. SUFFICES ASSUME NEW j \in Conns, gw'.bound[j] # NoSession PROVE links'[j].open
    OBVIOUS
  <2>1. DOMAIN g.bound = Conns
    BY <1>4 DEF Paired, Bound
  <2>2. gw'.bound[j] = IF j = n THEN s ELSE g.bound[j]
    BY <1>1, <2>1
  <2>3. j = n \/ (j # k /\ gw.bound[j] # NoSession)
    BY <1>3, <1>4, <2>2
  <2>. QED BY <1>1, <1>2, <1>8, <2>3 DEF Standing
<1>10. \A j \in Conns : Moves(links[j].up, links'[j].up, Nothing) /\ In(links'[j].up) \subseteq In(links[j].up)
  BY <1>1, <1>2, QuietLinks
<1>11. \/ \E j \in Conns : down' = Emitted(j, Replaced)
       \/ down' = Emitted(n, <<EntryAnswer(e, TRUE)>>)
  BY <1>1, <1>2
<1>. QED BY <1>2, <1>6, <1>7, <1>8, <1>9, <1>10, <1>11

LEMMA AttachServes ==
  ASSUME Sourced, Screen, NEW e \in entries, Attach(e)
  PROVE  \E x, a : Serves(x, a)
<1>1. PICK n, s : n = e.conn /\ s = e.session
  OBVIOUS
<1>. Standing /\ Wire /\ Distinct
  BY DEF Screen, Sourced, Once
<1>2. s \in Sessions
  BY <1>1 DEF Sourced
<1>3. /\ n \in Conns /\ Paired(gw')
      /\ \A t \in Sessions : gw'.active[t] = gw.active[t] \/ gw'.active[t] = 0 \/ (t = s /\ gw'.active[t] = n)
      /\ \A j \in Conns : /\ links[j].used => links'[j].used
                          /\ links'[j].open \/ links'[j].up # <<>> => links'[j].used
                          /\ gw'.bound[j] # NoSession => links'[j].open
                          /\ Moves(links[j].up, links'[j].up, Nothing)
                          /\ In(links'[j].up) \subseteq In(links[j].up)
      /\ \/ \E k \in Conns : down' = Emitted(k, Replaced)
         \/ down' = Emitted(n, <<EntryAnswer(e, TRUE)>>)
  BY <1>1, <1>2, AttachIs
<1>4. /\ entries' = entries \ {e} /\ calls' = Append(calls, Push(n, s, rooms[s]))
      /\ UNCHANGED <<page, sessions, rooms, user>>
  BY <1>1 DEF Attach
<1>5. UnderWay(n, s) /\ ~UnderWay(n, s)'
  BY <1>1, <1>3, <1>4, EntryIsGone
<1>6. Mentioned(s)
  BY <1>3, <1>5 DEF Mentioned
<1>7. Distinct' /\ \A k \in Conns, t \in Sessions : UnderWay(k, t)' => UnderWay(k, t)
  BY <1>3, <1>4, ReadsOnly
<1>. DEFINE a == Push(n, s, rooms[s])
<1>8. a.type = "push" /\ a.conn = n /\ a.session = s /\ a.revision = rooms'[a.session]
  BY <1>4 DEF Push
<1>. HIDE DEF a
<1>9. Moves(calls, calls', a) /\ In(calls') = In(calls) \cup {a}
  BY <1>4, AppendMoves, ElementsOf DEF a, Sourced, Calling, Speak
<1>10. \A d \in entries' : d.conn \in Conns /\ links'[d.conn].used
  BY <1>3, <1>4 DEF Standing
<1>11. links'[n].used
  BY <1>1, <1>3 DEF Standing
<1>12. \A k \in Conns, t \in Sessions :
         \/ gw'.active[t] = k /\ gw.active[t] # k
         \/ a.type = "push" /\ a.conn = k /\ a.session = t
         => k = n /\ t = s
  BY <1>3, <1>8, ConnNumbers
<1>13. ASSUME NEW x, Moves(down, down', x), page.conn = 0 => down' = down,
              \A k \in Conns, t \in Sessions :
                x.type \in Viewing /\ page.conn = k /\ x.session = t => k = n /\ t = s,
              x.type \in Viewing =>
                /\ x.session \in Sessions /\ page.conn \in Conns
                /\ x.revision \in Nat /\ x.revision <= rooms'[x.session]
                /\ x.session = page.shown.session => page.shown.revision <= x.revision
                /\ \A y \in In(down) : y.type \in Viewing /\ y.session = x.session => y.revision <= x.revision
                /\ \A c \in In(calls') : c.type = "push" /\ c.conn = page.conn /\ c.session = x.session
                     => x.revision <= c.revision,
              x.type \in Viewing => x.type = "state" \/ Asked(page.conn, x.session, x.kind)
       PROVE  Serves(x, a)
  <2>3. \A k \in Conns, t \in Sessions : \A kind : Asked(k, t, kind)' => Asked(k, t, kind)
    BY <1>3, <1>4 DEF Asked
  <2>4. Answers(x, a)
    BY <1>3, <1>5, <1>8, <1>13, <2>3, ConnNumbers DEF Answers
  <2>1. \A k \in Conns, t \in Sessions :
          \/ gw'.active[t] = k /\ gw.active[t] # k
          \/ a.type = "push" /\ a.conn = k /\ a.session = t
          \/ x.type \in Viewing /\ page.conn = k /\ x.session = t
          => Mentioned(t) /\ ~UnderWay(k, t)'
    BY <1>5, <1>6, <1>12, <1>13
  <2>2. page.conn = 0 => down' = <<>>
    BY <1>13 DEF Standing
  <2>. QED BY <1>2, <1>3, <1>4, <1>6, <1>7, <1>8, <1>9, <1>10, <1>11, <1>13, <2>1, <2>2, <2>4,
            NothingHappens DEF Serves
<1>14. CASE \E k \in Conns : down' = Emitted(k, Replaced)
  <2>1. Moves(down, down', Nothing) /\ (page.conn = 0 => down' = down)
    BY <1>14, EmitsQuietly DEF Sourced
  <2>2. Serves(Nothing, a)
    BY <1>13, <2>1, NothingIsAsked
  <2>. QED BY <2>2
<1>15. CASE down' = Emitted(n, <<EntryAnswer(e, TRUE)>>)
  <2>. DEFINE x == EntryAnswer(e, TRUE)
  <2>1. x.type = "entered" /\ x.session = s /\ x.kind = e.kind
    BY <1>1 DEF EntryAnswer
  <2>2. IsSequence(<<x>>) /\ \A j \in 1..Len(<<x>>) : j = 1 /\ <<x>>[j] = x
    BY OnlyOne
  <2>3. /\ Moves(down, down', x) /\ (page.conn # n => down' = down) /\ (page.conn = 0 => down' = down)
    <3>. HIDE DEF x
    <3>. QED BY <1>3, <1>15, <2>2, Emits DEF Sourced, x
  <2>4. CASE page.conn # n
    <3>1. Moves(down, down', Nothing)
      BY <2>3, <2>4, StaysMoves DEF Sourced, Shown, Speak
    <3>2. Serves(Nothing, a)
      BY <1>13, <2>3, <3>1, NothingIsAsked
    <3>. QED BY <3>2
  <2>5. CASE page.conn = n
    <3>1. \A c \in In(calls') : c.type = "push" =>
            c \in In(calls) \/ (c.session \in Sessions /\ c.revision = rooms[c.session])
      BY <1>2, <1>4, <1>8, <1>9
    <3>2. /\ x.session \in Sessions /\ page.conn \in Conns
          /\ x.revision \in Nat /\ x.revision <= rooms'[x.session]
          /\ x.session = page.shown.session => page.shown.revision <= x.revision
          /\ \A y \in In(down) : y.type \in Viewing /\ y.session = x.session => y.revision <= x.revision
          /\ \A c \in In(calls') : c.type = "push" /\ c.conn = page.conn /\ c.session = x.session
               => x.revision <= c.revision
      BY <1>1, <1>2, <1>3, <1>4, <1>5, <2>5, <3>1, EntryFits
    <3>3. \A k \in Conns, t \in Sessions :
            x.type \in Viewing /\ page.conn = k /\ x.session = t => k = n /\ t = s
      BY <2>1, <2>5
    <3>5. Asked(page.conn, x.session, x.kind)
      BY <1>1, <2>1, <2>5 DEF Asked
    <3>. HIDE DEF x
    <3>4. Serves(x, a)
      BY <1>13, <2>3, <3>2, <3>3, <3>5
    <3>. QED BY <3>4
  <2>. QED BY <2>4, <2>5
<1>. QED BY <1>3, <1>14, <1>15

-----------------------------------------------------------------------------
(* The screen in the steps of the page                                     *)

\* The views after a step of the page that shows nothing new.
LEMMA ViewsKept ==
  ASSUME Sourced, Sourced', Screen, UNCHANGED <<calls, rooms>>, Moves(down, down', Nothing),
         page'.shown = page.shown \/ page'.shown = NoView,
         \/ page'.conn = page.conn
         \/ down' = <<>> /\ \A c \in In(calls) : c.type = "push" => c.conn # page'.conn
  PROVE  Views' /\ ScreenMovesOn
<1>. Views /\ Standing
  BY DEF Screen
<1>1. Moves(calls, calls', Nothing)
  BY StaysMoves DEF Sourced, Calling, Speak
<1>2. \A s \in Sessions : rooms[s] \in Nat /\ rooms'[s] \in Nat /\ rooms[s] <= rooms'[s]
  BY DEF Standing
<1>3. Views'
  BY <1>1, <1>2, SpokenFor, SpokenForThen, NothingIsAsked, ViewsStay
<1>4. page.shown # NoView => page.shown.session # NoSession /\ page.shown.revision \in Nat
  BY SpokenFor, DeliveryAssumption DEF Views
<1>5. NoView.session = NoSession
  BY DEF NoView
<1>6. ScreenMovesOn
  BY <1>4, <1>5 DEF ScreenMovesOn
<1>. QED BY <1>3, <1>6

\* A view that has come down is shown.
LEMMA ViewsReceived ==
  ASSUME Sourced, Sourced', Screen, UNCHANGED <<calls, rooms>>, down # <<>>, down' = Tail(down),
         page'.conn = page.conn, Received.type \in Viewing,
         page'.shown = [session |-> Received.session, revision |-> Received.revision]
  PROVE  Views' /\ ScreenMovesOn
<1>. Views /\ Standing /\ IsSequence(down)
  BY DEF Screen, Sourced, Shown, Speak
<1>1. Received \in In(down) /\ Received = down[1] /\ In(down') \subseteq In(down)
  BY ElementsOf DEF Received
<1>2. Moves(down, down', Nothing)
  BY TailMoves
<1>3. Rising(down')
  BY <1>2, RisingMoves, NothingIsAsked DEF Views
<1>4. ASSUME NEW x \in In(down'), x.type \in Viewing, x.session = Received.session
      PROVE  Received.revision <= x.revision
  <2>1. /\ Len(down) \in Nat /\ Len(down) > 0 /\ Len(Tail(down)) = Len(down) - 1
        /\ \A i \in 1..Len(Tail(down)) : Tail(down)[i] = down[i + 1]
    BY Elements, TailSequence
  <2>2. PICK i \in 1..Len(Tail(down)) : x = Tail(down)[i]
    BY DEF In
  <2>3. i + 1 \in 1..Len(down) /\ 1 \in 1..Len(down) /\ 1 < i + 1 /\ x = down[i + 1]
    BY <2>1, <2>2
  <2>. QED BY <1>1, <1>4, <2>3 DEF Views, Rising
<1>5. Received.revision \in Nat /\ Received.revision <= rooms[Received.session] /\ Received.session \in Sessions
  BY <1>1, SpokenFor DEF Views
<1>6. page'.shown.session = Received.session /\ page'.shown.revision = Received.revision
  OBVIOUS
<1>7. ASSUME NEW a \in In(calls), a.type = "push", a.conn = page.conn, a.session = Received.session
      PROVE  Received.revision <= a.revision
  BY <1>1, <1>7 DEF Views
<1>8. Views'
  <2>1. \A x \in In(down') : x.type \in Viewing =>
          /\ x.revision \in Nat /\ x.revision <= rooms'[x.session]
          /\ x.session = page'.shown.session => page'.shown.revision <= x.revision
    BY <1>1, <1>4, <1>6 DEF Views
  <2>2. \A a \in In(calls') : a.type = "push" =>
          /\ a.revision \in Nat /\ a.revision <= rooms'[a.session]
          /\ a.conn = page'.conn =>
               /\ a.session = page'.shown.session => page'.shown.revision <= a.revision
               /\ \A x \in In(down') : x.type \in Viewing /\ x.session = a.session => x.revision <= a.revision
    BY <1>1, <1>6, <1>7 DEF Views
  <2>3. page'.shown.revision \in Nat /\ page'.shown.revision <= rooms'[page'.shown.session]
    BY <1>5, <1>6
  <2>. QED BY <1>3, <2>1, <2>2, <2>3 DEF Views
<1>9. ScreenMovesOn
  <2>. SUFFICES ASSUME page.shown # NoView, page'.shown.session = page.shown.session
                PROVE  page.shown.revision <= Received.revision
    BY <1>5, <1>6 DEF ScreenMovesOn, Views
  <2>. QED BY <1>1, <1>6 DEF Views
<1>. QED BY <1>8, <1>9

\* The page keeps its connection or has none, sends a command or nothing, and speaks of what it knows.
LEMMA PageGoesOn ==
  ASSUME Sourced, Sourced', Screen, UNCHANGED <<gw, entries, calls, rooms, sessions>>,
         In(down') \subseteq In(down),
         links' = links \/ (page.conn # 0 /\ \E c : links' = SentUp(page.conn, CommandPacket(c))),
         \/ page'.conn = page.conn /\ (page.conn = 0 => down' = <<>> /\ ~page'.timer)
         \/ page'.conn = 0 /\ down' = <<>> /\ ~page'.timer,
         page'.token \in {page.token, NoSession} \/ Mentioned(page'.token),
         page'.shown \in {page.shown, NoView} \/ Mentioned(page'.shown.session),
         \A c \in Commands : issued'[c] = issued[c] \/ Mentioned(issued'[c]),
         Views'
  PROVE  Screen'
<1>. Wire /\ Standing /\ Unknown /\ Once /\ Distinct
  BY DEF Screen, Sourced, Once
<1>1. ASSUME NEW k \in Conns
      PROVE  /\ links'[k].open = links[k].open /\ links'[k].used = links[k].used
             /\ Apart(links'[k].up)
             /\ \A x \in In(links'[k].up) : x \in In(links[k].up) \/ x.type = "command"
             /\ links'[k].up = links[k].up \/ links[k].open
  <2>1. CASE links' = links
    BY <2>1 DEF Distinct
  <2>2. ASSUME NEW c, page.conn # 0, links' = SentUp(page.conn, CommandPacket(c))
        PROVE  /\ links'[k].open = links[k].open /\ links'[k].used = links[k].used
               /\ Apart(links'[k].up)
               /\ \A x \in In(links'[k].up) : x \in In(links[k].up) \/ x.type = "command"
               /\ links'[k].up = links[k].up \/ links[k].open
    <3>. DEFINE packet == CommandPacket(c)
    <3>1. packet.type = "command" /\ packet.type # "enter"
      BY DEF CommandPacket
    <3>2. page.conn \in Conns /\ IsSequence(links[k].up)
      BY <2>2 DEF Standing, Wire, Speak
    <3>. HIDE DEF packet
    <3>3. /\ links'[k].open = links[k].open /\ links'[k].used = links[k].used
          /\ \/ links'[k].up = links[k].up
             \/ links[k].open /\ links'[k].up = Append(links[k].up, packet)
      BY <2>2, <3>2, LinksSent DEF packet
    <3>4. CASE links'[k].up = links[k].up
      BY <3>3, <3>4 DEF Distinct
    <3>5. CASE links[k].open /\ links'[k].up = Append(links[k].up, packet)
      <4>1. Moves(links[k].up, links'[k].up, packet) /\ In(links'[k].up) = In(links[k].up) \cup {packet}
        BY <3>2, <3>5, AppendMoves, ElementsOf
      <4>2. Apart(links'[k].up)
        BY <3>1, <4>1, ApartMoves DEF Distinct
      <4>. QED BY <3>1, <3>3, <3>5, <4>1, <4>2
    <3>. QED BY <3>3, <3>4, <3>5
  <2>. QED BY <2>1, <2>2
<1>2. \A k \in Conns, s \in Sessions : UnderWay(k, s)' => UnderWay(k, s)
  <2>. SUFFICES ASSUME NEW k \in Conns, NEW s \in Sessions, UnderWay(k, s)' PROVE UnderWay(k, s)
    OBVIOUS
  <2>1. \/ \E x \in In(links'[k].up) : x.type = "enter" /\ x.session = s
        \/ \E e \in entries : e.conn = k /\ e.session = s
    BY DEF UnderWay, In
  <2>. QED BY <1>1, <2>1, UnderWayIs
<1>3. Standing'
  <2>. \A k \in Conns : /\ links[k].used => links'[k].used
                        /\ links'[k].open \/ links'[k].up # <<>> => links'[k].used
                        /\ gw'.bound[k] # NoSession => links'[k].open
    BY <1>1 DEF Standing
  <2>. QED BY StandingStays DEF Standing
<1>4. Unknown'
  <2>. SUFFICES ASSUME NEW s \in Sessions, sessions'[s] = "new", Mentioned(s)' PROVE FALSE
    BY DEF Unknown
  <2>1. ~Mentioned(s) /\ s # NoSession /\ NoView.session = NoSession
    BY DeliveryAssumption DEF Unknown, NoView
  <2>2. page'.token # s /\ page'.shown.session # s /\ \A c \in Commands : issued'[c] # s
    BY <2>1 DEF Mentioned
  <2>. QED BY <1>2, <2>1, <2>2 DEF Mentioned
<1>5. Distinct'
  BY <1>1 DEF Distinct
<1>6. Once'
  <2>. \A k \in Conns, s \in Sessions : Settled(k, s)' => Settled(k, s)
    BY ConnNumbers DEF Settled
  <2>. QED BY <1>2, <1>5 DEF Once
<1>. QED BY <1>3, <1>4, <1>6 DEF Screen

\* The page shows nothing new.
LEMMA PageStays ==
  ASSUME Sourced, Sourced', Screen, UNCHANGED <<gw, entries, calls, rooms, sessions>>,
         links' = links \/ (page.conn # 0 /\ \E c : links' = SentUp(page.conn, CommandPacket(c))),
         down' = down \/ down' = <<>> \/ (down # <<>> /\ down' = Tail(down)),
         \/ page'.conn = page.conn /\ (page.conn = 0 /\ page'.timer => page.timer)
         \/ page'.conn = 0 /\ down' = <<>> /\ ~page'.timer,
         page'.token \in {page.token, NoSession} \/ Mentioned(page'.token),
         page'.shown \in {page.shown, NoView},
         \A c \in Commands : issued'[c] = issued[c] \/ Mentioned(issued'[c])
  PROVE  Screen' /\ ScreenMovesOn
<1>. Standing /\ IsSequence(down)
  BY DEF Screen, Sourced, Shown, Speak
<1>1. Moves(down, down', Nothing) /\ In(down') \subseteq In(down)
  <2>1. CASE down' = down
    BY <2>1, StaysMoves
  <2>2. CASE down' = <<>>
    BY <2>2, EmptyMoves, ElementsOf
  <2>3. CASE down # <<>> /\ down' = Tail(down)
    BY <2>3, TailMoves, ElementsOf
  <2>. QED BY <2>1, <2>2, <2>3
<1>2. page.conn = 0 => down' = <<>> /\ ~page.timer
  BY DEF Standing
<1>3. \/ page'.conn = page.conn /\ (page.conn = 0 => down' = <<>> /\ ~page'.timer)
      \/ page'.conn = 0 /\ down' = <<>> /\ ~page'.timer
  BY <1>2
<1>4. ASSUME page'.conn # page.conn
      PROVE  down' = <<>> /\ \A c \in In(calls) : c.type = "push" => c.conn # page'.conn
  <2>. page'.conn = 0 /\ down' = <<>> /\ "push" \in Errands
    BY <1>4 DEF Errands
  <2>. QED BY ConnNumbers DEF Standing
<1>5. Views' /\ ScreenMovesOn
  BY <1>1, <1>4, ViewsKept
<1>6. Screen'
  BY <1>1, <1>3, <1>5, PageGoesOn
<1>. QED BY <1>5, <1>6

LEMMA LinkLostScreen ==
  ASSUME Sourced, Sourced', DOMAIN page = Fields, Screen, LinkLost
  PROVE  Screen' /\ ScreenMovesOn
<1>1. /\ page' = Disconnected(page) /\ down' = <<>>
      /\ UNCHANGED <<links, gw, entries, calls, rooms, sessions, issued>>
  BY DEF LinkLost, server, user
<1>2. page'.conn = 0 /\ ~page'.timer /\ page'.token = page.token /\ page'.shown = page.shown
  BY <1>1, Forms, PageForms
<1>. QED BY <1>1, <1>2, PageStays

LEMMA ReloadScreen ==
  ASSUME Sourced, Sourced', DOMAIN page = Fields, Screen, Reload
  PROVE  Screen' /\ ScreenMovesOn
<1>1. /\ page' = Fresh(page.token, page.pending) /\ down' = <<>>
      /\ UNCHANGED <<links, gw, entries, calls, rooms, sessions, issued>>
  BY DEF Reload, server, user
<1>2. page'.conn = 0 /\ ~page'.timer /\ page'.token = page.token /\ page'.shown = NoView
  BY <1>1 DEF Fresh
<1>. QED BY <1>1, <1>2, PageStays

LEMMA LeaveScreen ==
  ASSUME Sourced, Sourced', DOMAIN page = Fields, Screen, Leave
  PROVE  Screen' /\ ScreenMovesOn
<1>. DEFINE f == Forgotten(page)
            d == Disconnected(f)
<1>1. /\ page' = [d EXCEPT !.dialing = TRUE] /\ down' = <<>>
      /\ UNCHANGED <<links, gw, entries, calls, rooms, sessions, issued>>
  BY DEF Leave, server
<1>2. DOMAIN f = Fields /\ f.token = NoSession /\ f.shown = NoView
  BY Forms, PageForms
<1>. HIDE DEF f
<1>3. DOMAIN d = Fields /\ d.conn = 0 /\ ~d.timer /\ d.token = NoSession /\ d.shown = NoView
  BY <1>2, Forms, PageForms
<1>. HIDE DEF d
<1>4. page'.conn = 0 /\ ~page'.timer /\ page'.token = NoSession /\ page'.shown = NoView
  BY <1>1, <1>3 DEF Fields
<1>. QED BY <1>1, <1>4, PageStays

LEMMA TimeoutScreen ==
  ASSUME Sourced, Sourced', DOMAIN page = Fields, Screen, RequestTimeout \/ CommandTimeout
  PROVE  Screen' /\ ScreenMovesOn
<1>. Standing
  BY DEF Screen
<1>1. UNCHANGED <<down, gw, entries, calls, rooms, sessions, issued>>
  BY DEF RequestTimeout, CommandTimeout, server, user
<1>2. CASE RequestTimeout
  <2>1. /\ page'.conn = page.conn /\ page'.timer = page.timer
        /\ page'.token = page.token /\ page'.shown = page.shown /\ links' = links
    BY <1>2 DEF RequestTimeout, Fields
  <2>. QED BY <1>1, <2>1, PageStays
<1>3. CASE CommandTimeout
  <2>1. page.conn # 0
    BY <1>3 DEF CommandTimeout, Standing
  <2>2. links' = links \/ \E c : links' = SentUp(page.conn, CommandPacket(c))
    BY <1>3 DEF CommandTimeout
  <2>3. page' = Attempt(page) \/ page' = [Paused(page) EXCEPT !.busy = FALSE]
    BY <1>3 DEF CommandTimeout
  <2>4. page'.conn = page.conn /\ page'.token = page.token /\ page'.shown = page.shown
    <3>. DOMAIN Paused(page) = Fields
      BY Forms
    <3>1. CASE page' = Attempt(page)
      BY <3>1, Forms, PageForms
    <3>2. CASE page' = [Paused(page) EXCEPT !.busy = FALSE]
      BY <3>2, PageForms DEF Fields
    <3>. QED BY <2>3, <3>1, <3>2
  <2>. QED BY <1>1, <2>1, <2>2, <2>4, PageStays
<1>. QED BY <1>2, <1>3

LEMMA SubmitScreen ==
  ASSUME Sourced, Sourced', DOMAIN page = Fields, DOMAIN issued = Commands, Screen,
         NEW c \in Commands, Submit(c)
  PROVE  Screen' /\ ScreenMovesOn
<1>. DEFINE p == [page EXCEPT !.pending = c, !.attempts = 0, !.busy = TRUE]
<1>1. DOMAIN p = Fields /\ p.conn = page.conn /\ p.token = page.token /\ p.shown = page.shown
  BY DEF Fields
<1>2. /\ page' = Attempt(p) /\ links' = SentUp(page.conn, CommandPacket(c)) /\ page.conn # 0
      /\ UNCHANGED <<down, gw, entries, calls, rooms, sessions>>
      /\ issued' = [issued EXCEPT ![c] = page.shown.session]
  BY DEF Submit, server, MayAct
<1>. HIDE DEF p
<1>3. page'.conn = page.conn /\ page'.token = page.token /\ page'.shown = page.shown
  BY <1>1, <1>2, Forms, PageForms
<1>4. \A b \in Commands : issued'[b] = issued[b] \/ Mentioned(issued'[b])
  BY <1>2 DEF Mentioned
<1>. QED BY <1>2, <1>3, <1>4, PageStays

\* What is heard, where it matters what is shown.
LEMMA ReceiveScreen ==
  ASSUME Sourced, Sourced', DOMAIN page = Fields, Screen, Receive
  PROVE  Screen' /\ ScreenMovesOn
<1>. Standing /\ Named(page) /\ IsSequence(down)
  BY DEF Screen, Sourced, Shown, Speak
<1>1. /\ down # <<>> /\ down' = (IF Received.type = "bye" THEN <<>> ELSE Tail(down))
      /\ UNCHANGED <<gw, entries, calls, rooms, sessions, issued>> /\ page.conn # 0
  BY DEF Receive, server, Standing
<1>2. Received \in In(down) /\ (Received.type \in Viewing => Mentioned(Received.session))
  <2>. Received \in In(down)
    BY <1>1, ElementsOf DEF Received
  <2>. QED BY DEF Mentioned
<1>3. ASSUME EntryAnswered PROVE Screen' /\ ScreenMovesOn
  <2>. DEFINE p == [page EXCEPT !.request = NoRequest, !.busy = FALSE]
              in == [p EXCEPT !.shown = [session |-> Received.session, revision |-> Received.revision]]
              again == [in EXCEPT !.busy = TRUE, !.attempts = 0]
  <2>1. Received.type = "entered" /\ Received.type \in Viewing
    BY <1>3 DEF EntryAnswered, Viewing
  <2>2. /\ DOMAIN p = Fields /\ p.conn = page.conn /\ p.token = page.token /\ p.shown = page.shown
        /\ DOMAIN in = Fields /\ in.conn = page.conn /\ in.token = page.token
        /\ in.shown = [session |-> Received.session, revision |-> Received.revision]
    BY DEF Fields
  <2>3. /\ \/ page' = page \/ page' = p \/ page' = Forgotten(p)
           \/ page' = Attempt(again) \/ page' = in \/ page' = [in EXCEPT !.token = Received.session]
        /\ links' = links \/ \E c : links' = SentUp(page.conn, CommandPacket(c))
    BY <1>3 DEF EntryAnswered
  <2>4. DOMAIN again = Fields /\ again.conn = page.conn /\ again.token = page.token /\ again.shown = in.shown
    BY <2>2 DEF Fields
  <2>5. LET t == [in EXCEPT !.token = Received.session]
        IN t.conn = page.conn /\ t.token = Received.session /\ t.shown = in.shown
    BY <2>2 DEF Fields
  <2>. HIDE DEF p, in, again
  <2>6. CASE page' = page \/ page' = p \/ page' = Forgotten(p)
    <3>1. /\ page'.conn = page.conn /\ page'.token \in {page.token, NoSession}
          /\ page'.shown \in {page.shown, NoView}
      BY <2>2, <2>6, Forms, PageForms
    <3>. QED BY <1>1, <2>1, <2>3, <3>1, PageStays
  <2>7. CASE page' = Attempt(again) \/ page' = in \/ page' = [in EXCEPT !.token = Received.session]
    <3>1. /\ page'.conn = page.conn /\ page'.token \in {page.token, Received.session}
          /\ page'.shown = [session |-> Received.session, revision |-> Received.revision]
      <4>1. CASE page' = Attempt(again)
        <5>. /\ Attempt(again).conn = again.conn /\ Attempt(again).token = again.token
             /\ Attempt(again).shown = again.shown
          BY <2>4, Forms, PageForms
        <5>. QED BY <2>2, <2>4, <4>1
      <4>2. CASE page' = in
        BY <2>2, <4>2
      <4>3. CASE page' = [in EXCEPT !.token = Received.session]
        BY <2>2, <2>5, <4>3
      <4>. QED BY <2>7, <4>1, <4>2, <4>3
    <3>2. down' = Tail(down) /\ In(down') \subseteq In(down)
      BY <1>1, <2>1, ElementsOf
    <3>3. Views' /\ ScreenMovesOn
      BY <1>1, <2>1, <3>1, <3>2, ViewsReceived
    <3>4. Mentioned(page'.shown.session) /\ (page'.token = page.token \/ Mentioned(page'.token))
      BY <1>2, <2>1, <3>1
    <3>5. Screen'
      BY <1>1, <2>3, <3>1, <3>2, <3>3, <3>4, PageGoesOn
    <3>. QED BY <3>3, <3>5
  <2>. QED BY <2>3, <2>6, <2>7
<1>4. ASSUME ViewShown PROVE Screen' /\ ScreenMovesOn
  <2>1. Received.type = "state" /\ Received.type \in Viewing /\ links' = links
    BY <1>4 DEF ViewShown, Viewing
  <2>2. /\ page'.conn = page.conn /\ page'.token = page.token
        /\ page'.shown = [session |-> Received.session, revision |-> Received.revision]
    BY <1>4 DEF ViewShown, Fields
  <2>3. down' = Tail(down) /\ In(down') \subseteq In(down)
    BY <1>1, <2>1, ElementsOf
  <2>4. Views' /\ ScreenMovesOn
    BY <1>1, <2>1, <2>2, <2>3, ViewsReceived
  <2>5. Mentioned(page'.shown.session)
    BY <1>2, <2>1, <2>2
  <2>6. Screen'
    BY <1>1, <2>1, <2>2, <2>3, <2>4, <2>5, PageGoesOn
  <2>. QED BY <2>4, <2>6
<1>5. ASSUME CommandAnswered \/ SessionGone \/ ServerHangsUp
      PROVE  /\ links' = links /\ page'.token \in {page.token, NoSession}
             /\ page'.shown \in {page.shown, NoView}
             /\ page'.conn = page.conn \/ (page'.conn = 0 /\ ~page'.timer /\ Received.type = "bye")
  <2>1. CASE CommandAnswered
    <3>. DOMAIN Cleared(page) = Fields /\ Cleared(page).conn = page.conn
         /\ Cleared(page).token = page.token /\ Cleared(page).shown = page.shown
      BY Forms, PageForms
    <3>. QED BY <2>1 DEF CommandAnswered, Fields
  <2>2. CASE SessionGone
    <3>. DOMAIN Forgotten(page) = Fields /\ Forgotten(page).conn = page.conn
         /\ Forgotten(page).token = NoSession /\ Forgotten(page).shown = NoView
      BY Forms, PageForms
    <3>. QED BY <2>2 DEF SessionGone, Fields
  <2>3. CASE ServerHangsUp
    <3>. DOMAIN Disconnected(page) = Fields /\ Disconnected(page).conn = 0 /\ ~Disconnected(page).timer
         /\ Disconnected(page).token = page.token /\ Disconnected(page).shown = page.shown
      BY Forms, PageForms
    <3>. QED BY <2>3 DEF ServerHangsUp, Fields
  <2>. QED BY <1>5, <2>1, <2>2, <2>3
<1>6. ASSUME CommandAnswered \/ SessionGone \/ ServerHangsUp PROVE Screen' /\ ScreenMovesOn
  BY <1>1, <1>5, <1>6, PageStays
<1>. QED BY <1>3, <1>4, <1>6 DEF Receive

\* A session is asked for that was not spoken of.
LEMMA AskScreen ==
  ASSUME Sourced, Sourced', DOMAIN page = Fields, Screen, NEW s \in Sessions, Enter(s) \/ Found(s)
  PROVE  Screen' /\ ScreenMovesOn
<1>. Standing /\ Wire /\ Unknown /\ Once /\ Distinct /\ IsSequence(down)
  BY DEF Screen, Sourced, Once, Shown, Speak
<1>1. PICK request : /\ request.session = s /\ links' = SentUp(page.conn, EntryPacket(request))
                     /\ page' = Asking(page, request) \/ page' = [Asking(page, request) EXCEPT !.token = s]
  BY DEF Enter, Found
<1>2. /\ UNCHANGED <<down, gw, entries, calls, rooms, issued>> /\ page.conn # 0
      /\ sessions[s] = "new" /\ sessions' = [sessions EXCEPT ![s] = "live"]
  BY DEF Enter, Found, user, Suspended, Polled
<1>3. page'.conn = page.conn /\ page'.shown = page.shown /\ page'.token \in {page.token, s}
  <2>. DEFINE p == Asking(page, request)
  <2>1. DOMAIN p = Fields /\ p.conn = page.conn /\ p.shown = page.shown /\ p.token = page.token
    BY DEF Asking, Fields
  <2>2. page' = p \/ page' = [p EXCEPT !.token = s]
    BY <1>1
  <2>. HIDE DEF p
  <2>. QED BY <2>1, <2>2 DEF Fields
<1>4. ~Mentioned(s)
  BY <1>2 DEF Unknown
<1>. DEFINE packet == EntryPacket(request)
            n == page.conn
<1>5. packet.type = "enter" /\ packet.session = s /\ n \in Conns
  BY <1>1, <1>2 DEF EntryPacket, Standing
<1>. HIDE DEF packet
<1>6. \A k \in Conns :
        /\ links'[k].open = links[k].open /\ links'[k].used = links[k].used
        /\ \/ links'[k].up = links[k].up
           \/ /\ k = n /\ links[k].open
              /\ Moves(links[k].up, links'[k].up, packet) /\ In(links'[k].up) = In(links[k].up) \cup {packet}
  <2>. SUFFICES ASSUME NEW k \in Conns
                PROVE  /\ links'[k].open = links[k].open /\ links'[k].used = links[k].used
                       /\ \/ links'[k].up = links[k].up
                          \/ /\ k = n /\ links[k].open
                             /\ Moves(links[k].up, links'[k].up, packet)
                             /\ In(links'[k].up) = In(links[k].up) \cup {packet}
    OBVIOUS
  <2>1. IsSequence(links[k].up) /\ links' = SentUp(n, packet)
    BY <1>1 DEF Wire, Speak, packet
  <2>. HIDE DEF n
  <2>2. /\ links'[k].open = links[k].open /\ links'[k].used = links[k].used
        /\ \/ links'[k].up = links[k].up
           \/ k = n /\ links[n].open /\ links'[k].up = Append(links[k].up, packet)
    BY <1>5, <2>1, LinksSent
  <2>3. /\ Moves(links[k].up, Append(links[k].up, packet), packet)
        /\ In(Append(links[k].up, packet)) = In(links[k].up) \cup {packet}
    BY <2>1, AppendMoves, ElementsOf
  <2>. QED BY <2>2, <2>3
<1>. HIDE DEF n
<1>7. \A k \in Conns, t \in Sessions : UnderWay(k, t)' => UnderWay(k, t) \/ t = s
  <2>. SUFFICES ASSUME NEW k \in Conns, NEW t \in Sessions, UnderWay(k, t)', t # s PROVE UnderWay(k, t)
    OBVIOUS
  <2>1. \/ \E x \in In(links'[k].up) : x.type = "enter" /\ x.session = t
        \/ \E e \in entries : e.conn = k /\ e.session = t
    BY <1>2 DEF UnderWay, In
  <2>. QED BY <1>5, <1>6, <2>1, UnderWayIs
<1>8. \A k \in Conns : /\ \A x \in In(links[k].up) : x.type = "enter" => x.session # s
                       /\ \A e \in entries : e.conn = k => e.session # s
  BY <1>4, UnderWayIs DEF Mentioned
<1>9. Distinct'
  <2>1. \A k \in Conns : Apart(links'[k].up)
    BY <1>5, <1>6, <1>8, ApartMoves DEF Distinct
  <2>2. \A k \in Conns : \A x \in In(links'[k].up) : x.type \in {"enter", "command"}
    BY <1>5, <1>6 DEF Distinct
  <2>3. \A k \in Conns : \A x \in In(links'[k].up), e \in entries :
          x.type = "enter" /\ e.conn = k => x.session # e.session
    BY <1>5, <1>6, <1>8 DEF Distinct
  <2>. QED BY <1>2, <2>1, <2>2, <2>3 DEF Distinct
<1>10. Once'
  <2>. SUFFICES ASSUME NEW k \in Conns, NEW t \in Sessions, Settled(k, t)', UnderWay(k, t)' PROVE FALSE
    BY <1>9 DEF Once
  <2>1. Settled(k, t)
    BY <1>2, <1>3 DEF Settled
  <2>2. t = s
    BY <1>7, <2>1 DEF Once
  <2>3. \/ gw.active[s] = k
        \/ \E a \in In(calls) : a.type = "push" /\ a.session = s
        \/ \E x \in In(down) : x.type \in Viewing /\ x.session = s
    BY <2>1, <2>2 DEF Settled
  <2>. "push" \in Errands
    BY DEF Errands
  <2>. QED BY <1>4, <2>3, ConnNumbers DEF Mentioned
<1>11. Unknown'
  <2>. SUFFICES ASSUME NEW t \in Sessions, sessions'[t] = "new", Mentioned(t)' PROVE FALSE
    BY DEF Unknown
  <2>1. t # s /\ sessions[t] = "new"
    BY <1>2 DEF Standing
  <2>2. ~Mentioned(t)
    BY <2>1 DEF Unknown
  <2>. QED BY <1>2, <1>3, <1>7, <2>1, <2>2 DEF Mentioned
<1>12. Standing'
  <2>1. page'.conn \in Conns /\ links'[page'.conn].used
    BY <1>2, <1>3, <1>5, <1>6 DEF Standing, n
  <2>2. \A k \in Conns : /\ links[k].used => links'[k].used
                         /\ links'[k].open \/ links'[k].up # <<>> => links'[k].used
                         /\ gw'.bound[k] # NoSession => links'[k].open
    BY <1>2, <1>6 DEF Standing
  <2>3. Paired(gw') /\ rooms' \in [Sessions -> Nat] /\ DOMAIN sessions' = Sessions
    BY <1>2 DEF Standing
  <2>4. entries' = entries /\ calls' = calls
    BY <1>2
  <2>. QED BY <2>1, <2>2, <2>3, <2>4, StandingStays
<1>13. Views' /\ ScreenMovesOn
  BY <1>2, <1>3, StaysMoves, ViewsKept
<1>. QED BY <1>10, <1>11, <1>12, <1>13 DEF Screen

\* A connection that is new to the server.
LEMMA ConnectScreen ==
  ASSUME Sourced, Sourced', DOMAIN page = Fields, Screen, NEW n \in Conns, Connect(n)
  PROVE  Screen' /\ ScreenMovesOn
<1>. Standing /\ Wire /\ Unknown /\ Once /\ Distinct
  BY DEF Screen, Sourced, Once
<1>1. /\ UNCHANGED <<down, gw, entries, calls, rooms, sessions, issued>> /\ page.conn = 0 /\ down = <<>>
      /\ ~links[n].used
  BY DEF Connect, server, Standing
<1>. DEFINE up == [page EXCEPT !.conn = n]
            resume == [kind |-> "resume", session |-> page.token]
            packet == EntryPacket(resume)
<1>2. PICK q : /\ q = <<>> \/ (page.token # NoSession /\ q = <<packet>>)
               /\ links' = [links EXCEPT ![n] = [open |-> TRUE, used |-> TRUE, up |-> q]]
  BY DEF Connect
<1>3. page'.conn = n /\ page'.shown = page.shown /\ page'.token = page.token
  <2>1. DOMAIN up = Fields /\ up.conn = n /\ up.shown = page.shown /\ up.token = page.token
    BY DEF Fields
  <2>2. page' = [Cleared(up) EXCEPT !.busy = FALSE] \/ page' = Asking(up, resume)
    BY DEF Connect
  <2>. HIDE DEF up, resume
  <2>3. DOMAIN Cleared(up) = Fields
    BY <2>1, Forms
  <2>. QED BY <2>1, <2>2, <2>3, Forms, AskingForm, PageForms DEF Fields
<1>4. packet.type = "enter" /\ packet.session = page.token
  BY DEF EntryPacket
<1>. HIDE DEF packet
<1>5. \A k \in Conns : IF k = n THEN links'[k].open /\ links'[k].used /\ links'[k].up = q
                                 ELSE links'[k] = links[k]
  BY <1>2 DEF Wire
<1>6. In(q) \subseteq {packet} /\ Apart(q) /\ (page.token = NoSession => In(q) = {})
  <2>1. CASE q = <<>>
    <3>. Len(q) = 0 /\ 1..0 = {}
      BY <2>1
    <3>. QED BY DEF In, Apart
  <2>2. CASE q = <<packet>> /\ page.token # NoSession
    <3>. Len(q) = 1 /\ 1..1 = {1} /\ q[1] = packet
      BY <2>2
    <3>. QED BY <2>2 DEF In, Apart
  <2>. QED BY <1>2, <2>1, <2>2
<1>7. /\ \A e \in entries : e.conn # n
      /\ \A a \in In(calls) : a.type \in Errands => a.conn # n
      /\ \A s \in Sessions : gw.active[s] # n
  <2>1. gw.bound[n] = NoSession
    BY <1>1 DEF Standing
  <2>. QED BY <1>1, <2>1, DeliveryAssumption DEF Standing, Paired
<1>8. \A k \in Conns, t \in Sessions : UnderWay(k, t)' => UnderWay(k, t) \/ (k = n /\ t = page.token)
  <2>. SUFFICES ASSUME NEW k \in Conns, NEW t \in Sessions, UnderWay(k, t)'
                PROVE  UnderWay(k, t) \/ (k = n /\ t = page.token)
    OBVIOUS
  <2>1. \/ \E x \in In(links'[k].up) : x.type = "enter" /\ x.session = t
        \/ \E e \in entries : e.conn = k /\ e.session = t
    BY <1>1 DEF UnderWay, In
  <2>. QED BY <1>4, <1>5, <1>6, <2>1, UnderWayIs
<1>9. Distinct'
  <2>1. \A k \in Conns : Apart(links'[k].up) /\ \A x \in In(links'[k].up) : x.type \in {"enter", "command"}
    BY <1>4, <1>5, <1>6 DEF Distinct
  <2>2. \A k \in Conns : \A x \in In(links'[k].up), e \in entries :
          x.type = "enter" /\ e.conn = k => x.session # e.session
    BY <1>5, <1>7 DEF Distinct
  <2>. QED BY <1>1, <2>1, <2>2 DEF Distinct
<1>10. Once'
  <2>. SUFFICES ASSUME NEW k \in Conns, NEW t \in Sessions, Settled(k, t)', UnderWay(k, t)' PROVE FALSE
    BY <1>9 DEF Once
  <2>1. In(down') = {}
    BY <1>1, ElementsOf
  <2>2. Settled(k, t) /\ k # n
    <3>. "push" \in Errands
      BY DEF Errands
    <3>. QED BY <1>1, <1>7, <2>1 DEF Settled
  <2>. QED BY <1>8, <2>2 DEF Once
<1>11. Unknown'
  <2>. SUFFICES ASSUME NEW t \in Sessions, sessions'[t] = "new", Mentioned(t)' PROVE FALSE
    BY DEF Unknown
  <2>1. ~Mentioned(t)
    BY <1>1 DEF Unknown
  <2>. QED BY <1>1, <1>3, <1>8, <2>1 DEF Mentioned
<1>12. Standing'
  <2>1. page'.conn \in Conns /\ links'[page'.conn].used
    BY <1>3, <1>5
  <2>2. \A k \in Conns : /\ links[k].used => links'[k].used
                         /\ links'[k].open \/ links'[k].up # <<>> => links'[k].used
                         /\ gw'.bound[k] # NoSession => links'[k].open
    BY <1>1, <1>5 DEF Standing
  <2>3. Paired(gw') /\ rooms' \in [Sessions -> Nat] /\ DOMAIN sessions' = Sessions
    BY <1>1 DEF Standing
  <2>4. entries' = entries /\ calls' = calls
    BY <1>1
  <2>. QED BY <2>1, <2>2, <2>3, <2>4, StandingStays
<1>13. Views' /\ ScreenMovesOn
  <2>1. Moves(down, down', Nothing)
    BY <1>1, ShortSequences, EmptyMoves
  <2>2. down' = <<>> /\ \A c \in In(calls) : c.type = "push" => c.conn # page'.conn
    <3>. "push" \in Errands
      BY DEF Errands
    <3>. QED BY <1>1, <1>3, <1>7
  <2>. QED BY <1>1, <1>3, <2>1, <2>2, ViewsKept
<1>. QED BY <1>10, <1>11, <1>12, <1>13 DEF Screen

LEMMA ScreenInitially == Init => Screen
<1>. SUFFICES ASSUME Init PROVE Screen
  OBVIOUS
<1>1. Standing
  BY StandingInitially
<1>2. /\ In(down) = {} /\ In(calls) = {} /\ entries = {} /\ down = <<>> /\ calls = <<>>
      /\ page.conn = 0 /\ page.token = NoSession /\ page.shown = NoView /\ NoView.session = NoSession
      /\ NoSession \notin Sessions
  BY ElementsOf, DeliveryAssumption DEF Init, Fresh, NoView
<1>3. \A n \in Conns : links[n].up = <<>> /\ In(links[n].up) = {}
  BY ElementsOf DEF Init
<1>4. \A n \in Conns : \A s : ~UnderWay(n, s)
  BY <1>2, <1>3, UnderWayIs
<1>5. /\ \A s \in Sessions : gw.active[s] = 0
      /\ \A c \in Commands : issued[c] = NoSession
  BY DEF Init
<1>6. Unknown
  BY <1>2, <1>4, <1>5 DEF Unknown, Mentioned
<1>7. Len(<<>>) = 0 /\ 1..0 = {}
  OBVIOUS
<1>8. Apart(<<>>) /\ Rising(<<>>) /\ RisingPushes(<<>>)
  BY <1>7 DEF Apart, Rising, RisingPushes
<1>9. Once
  BY <1>2, <1>3, <1>4, <1>8 DEF Once, Distinct
<1>10. Views
  BY <1>2, <1>8 DEF Views
<1>. QED BY <1>1, <1>6, <1>9, <1>10 DEF Screen

\* What the server does shows only when it is received.
LEMMA ServedScreen ==
  ASSUME Sourced, Sourced', Screen, \E x, a : Serves(x, a)
  PROVE  Screen' /\ ScreenMovesOn
<1>1. Screen' /\ page' = page
  BY ServingStays DEF Serves
<1>2. page.shown # NoView => page.shown.revision \in Nat
  BY DEF Screen, Views
<1>. QED BY <1>1, <1>2 DEF ScreenMovesOn

LEMMA ScreenSteps ==
  ASSUME Sourced, IInv, Screen, [Next]_vars
  PROVE  Screen' /\ ScreenMovesOn
<1>1. Sourced' /\ DOMAIN page = Fields /\ DOMAIN issued = Commands
  BY Steps DEF IInv, Outbox
<1>2. ASSUME NEW n \in Conns, Connect(n) PROVE Screen' /\ ScreenMovesOn
  BY <1>1, <1>2, ConnectScreen
<1>3. ASSUME NEW n \in Conns, HearEntry(n) \/ HearCommand(n) \/ RefuseAtOnce(n) \/ ServerLoses(n)
      PROVE  \E x, a : Serves(x, a)
  BY <1>1, <1>3, HearEntryServes, HearCommandServes, RefuseAtOnceServes, LosesServes
<1>4. CASE LinkLost \/ Reload \/ Leave \/ RequestTimeout \/ CommandTimeout
  BY <1>1, <1>4, LinkLostScreen, ReloadScreen, LeaveScreen, TimeoutScreen
<1>5. CASE Receive
  BY <1>1, <1>5, ReceiveScreen
<1>6. ASSUME NEW c \in Commands, Submit(c) PROVE Screen' /\ ScreenMovesOn
  BY <1>1, <1>6, SubmitScreen
<1>7. ASSUME NEW s \in Sessions, Enter(s) \/ Found(s) PROVE Screen' /\ ScreenMovesOn
  BY <1>1, <1>7, AskScreen
<1>8. ASSUME NEW s \in Sessions, Publish(s) \/ EndSession(s) \/ OtherPage(s) PROVE \E x, a : Serves(x, a)
  BY <1>1, <1>8, PublishServes, EndSessionServes, OtherPageServes
<1>9. ASSUME Restart PROVE \E x, a : Serves(x, a)
  BY <1>1, <1>9, RestartServes
<1>10. ASSUME NEW e \in entries, Attach(e) \/ Refuse(e) PROVE \E x, a : Serves(x, a)
  BY <1>1, <1>10, AttachServes, RefuseServes
<1>11. ASSUME NEW i \in Answerable, AuthorizeCommand(i) \/ AuthorizePush(i) PROVE \E x, a : Serves(x, a)
  <2>1. CASE AuthorizePush(i)
    BY <1>1, <2>1, AuthorizePushServes
  <2>2. CASE AuthorizeCommand(i)
    BY <1>1, <2>2, DispatchServes, CommandExpiresServes DEF AuthorizeCommand
  <2>. QED BY <1>11, <2>1, <2>2
<1>12. CASE UNCHANGED vars
  <2>1. page.shown # NoView => page.shown.revision \in Nat
    BY DEF Screen, Views
  <2>2. ScreenMovesOn
    BY <1>12, <2>1 DEF vars, ScreenMovesOn
  <2>3. Screen'
    BY <1>12 DEF vars, Screen, Standing, Unknown, Mentioned, UnderWay, Once, Distinct, Settled, Views
  <2>. QED BY <2>2, <2>3
<1>. QED BY <1>1, <1>2, <1>3, <1>4, <1>5, <1>6, <1>7, <1>8, <1>9, <1>10, <1>11, <1>12, ServedScreen DEF Next

LEMMA ScreenHolds == Spec => [](Sourced /\ IInv /\ Screen)
<1>1. Init => Sourced /\ IInv /\ Screen
  BY Initially, SourcedInitially, ScreenInitially
<1>2. Sourced /\ IInv /\ Screen /\ [Next]_vars => Sourced' /\ IInv' /\ Screen'
  BY Steps, ScreenSteps
<1>. QED BY <1>1, <1>2, PTL DEF Spec

-----------------------------------------------------------------------------
(* Commands in the order in which they were submitted                      *)

\* An authorisation for a command of the very match that it was written for.
Own(a) == a.type = "command" /\ issued[a.command] = a.session

\* The room has accepted the command, or is about to be asked.
Reached(c) == decided[c] = "ok" \/ \E a \in In(calls) : Own(a) /\ a.command = c

\* Both are of one match, and b must not come after c.
Before(b, c) == b < c /\ b \notin early /\ issued[b] = issued[c] /\ issued[b] # NoSession

Sorted(q) ==
  \A i, j \in 1..Len(q) :
    i < j /\ q[i].type = "command" /\ q[j].type = "command" => q[i].command <= q[j].command

InLine(q) ==
  \A i, j \in 1..Len(q) :
    i < j /\ Own(q[i]) /\ Own(q[j]) /\ q[i].session = q[j].session /\ q[j].command \notin early
      => q[i].command <= q[j].command

\* Only what was submitted is on its way, and the last submitted is the one that is pending.
Submitted ==
  /\ issued \in [Commands -> Sessions \cup {NoSession}]
  /\ \A b, c \in Commands : b < c /\ issued[c] # NoSession => issued[b] # NoSession /\ page.pending # b
  /\ \A n \in Conns : \A x \in In(links[n].up) :
       x.type = "command" => x.command \in Commands /\ issued[x.command] # NoSession
  /\ \A a \in In(calls) : a.type = "command" => a.command \in Commands /\ issued[a.command] # NoSession
  /\ \A c \in Commands : decided[c] = "ok" => issued[c] # NoSession

\* A command is sent over a connection that has been let in for its session or will not be, but early ones.
LetIn ==
  /\ \A n \in Conns : \A x \in In(links[n].up) :
       x.type = "command" /\ x.command \notin early => ~UnderWay(n, issued[x.command])
  /\ page.timer => /\ page.pending # NoCommand
                   /\ page.pending \notin early => ~UnderWay(page.conn, issued[page.pending])

\* What could still be heard or decided is in order, also after what the room has got already.
Lined ==
  /\ \A n \in Conns : Sorted(links[n].up)
  /\ InLine(calls)
  /\ \A b, c \in Commands : Before(b, c) /\ Reached(c) =>
       \A n \in Conns : gw.bound[n] = issued[b] =>
         \A x \in In(links[n].up) : ~(x.type = "command" /\ x.command = b)
  /\ \A b, c \in Commands : Before(b, c) /\ decided[c] = "ok" =>
       \A a \in In(calls) : Own(a) => a.command # b

Unseen(s) == page.shown.session # s /\ \A c \in Commands : issued[c] # s

Resumes(s) ==
  \/ \E x \in In(down) : x.type = "entered" /\ x.kind = "resume" /\ x.session = s
  \/ page.conn # 0 /\ Asked(page.conn, s, "resume")

\* One session is resumed on the page's connection, and what else is asked for there is new to it.
Founds ==
  /\ \A s \in Sessions : \A kind : page.conn # 0 /\ Asked(page.conn, s, kind) /\ kind # "resume" => Unseen(s)
  /\ \A s, t \in Sessions : Resumes(s) /\ Resumes(t) => s = t

Order == Submitted /\ LetIn /\ Lined /\ Founds

LEMMA CommandNumbers == Commands \subseteq Nat
BY DeliveryAssumption DEF Commands

LEMMA UnderWayAsked == \A n, s : UnderWay(n, s) <=> \E kind : Asked(n, s, kind)
<1>. SUFFICES ASSUME NEW n, NEW s PROVE UnderWay(n, s) <=> \E kind : Asked(n, s, kind)
  OBVIOUS
<1>1. ASSUME UnderWay(n, s) PROVE \E kind : Asked(n, s, kind)
  <2>1. CASE \E x \in In(links[n].up) : x.type = "enter" /\ x.session = s
    BY <2>1 DEF Asked
  <2>2. CASE \E e \in entries : e.conn = n /\ e.session = s
    BY <2>2 DEF Asked
  <2>. QED BY <1>1, <2>1, <2>2, UnderWayIs
<1>2. ASSUME NEW kind, Asked(n, s, kind) PROVE UnderWay(n, s)
  BY <1>2, UnderWayIs DEF Asked
<1>. QED BY <1>1, <1>2

LEMMA SortedMoves ==
  ASSUME NEW q, NEW r, NEW x, Moves(q, r, x), Sorted(q),
         x.type = "command" => \A y \in In(q) : y.type = "command" => y.command <= x.command
  PROVE  Sorted(r)
<1>1. PICK k \in Nat : \A i \in 1..Len(r) :
        \/ i + k \in 1..Len(q) /\ r[i] = q[i + k]
        \/ i + k = Len(q) + 1 /\ r[i] = x
        \/ i + k > Len(q) /\ r[i].type \in Silent
  BY DEF Moves
<1>2. Len(q) \in Nat /\ Len(r) \in Nat
  BY Elements DEF Moves
<1>3. "command" \notin Silent
  BY DEF Silent
<1>. SUFFICES ASSUME NEW i \in 1..Len(r), NEW j \in 1..Len(r), i < j,
                     r[i].type = "command", r[j].type = "command"
              PROVE  r[i].command <= r[j].command
  BY DEF Sorted
<1>4. /\ (i + k \in 1..Len(q) /\ r[i] = q[i + k]) \/ (i + k = Len(q) + 1 /\ r[i] = x)
      /\ (j + k \in 1..Len(q) /\ r[j] = q[j + k]) \/ (j + k = Len(q) + 1 /\ r[j] = x)
  BY <1>1, <1>3
<1>5. i + k < j + k
  BY <1>2
<1>6. CASE j + k \in 1..Len(q) /\ r[j] = q[j + k]
  <2>1. i + k \in 1..Len(q) /\ r[i] = q[i + k]
    BY <1>2, <1>4, <1>5, <1>6
  <2>. QED BY <1>5, <1>6, <2>1 DEF Sorted
<1>7. CASE j + k = Len(q) + 1 /\ r[j] = x
  <2>1. i + k \in 1..Len(q) /\ r[i] = q[i + k]
    BY <1>2, <1>4, <1>5, <1>7
  <2>2. r[i] \in In(q)
    BY <2>1 DEF In
  <2>. QED BY <1>7, <2>2
<1>. QED BY <1>4, <1>6, <1>7

LEMMA InLineMoves ==
  ASSUME NEW q, NEW r, NEW x, Moves(q, r, x), InLine(q),
         Own(x) /\ x.command \notin early =>
           \A y \in In(q) : Own(y) /\ y.session = x.session => y.command <= x.command
  PROVE  InLine(r)
<1>1. PICK k \in Nat : \A i \in 1..Len(r) :
        \/ i + k \in 1..Len(q) /\ r[i] = q[i + k]
        \/ i + k = Len(q) + 1 /\ r[i] = x
        \/ i + k > Len(q) /\ r[i].type \in Silent
  BY DEF Moves
<1>2. Len(q) \in Nat /\ Len(r) \in Nat
  BY Elements DEF Moves
<1>3. \A y : Own(y) => y.type \notin Silent
  BY DEF Silent, Own
<1>. SUFFICES ASSUME NEW i \in 1..Len(r), NEW j \in 1..Len(r), i < j, Own(r[i]), Own(r[j]),
                     r[i].session = r[j].session, r[j].command \notin early
              PROVE  r[i].command <= r[j].command
  BY DEF InLine
<1>4. /\ (i + k \in 1..Len(q) /\ r[i] = q[i + k]) \/ (i + k = Len(q) + 1 /\ r[i] = x)
      /\ (j + k \in 1..Len(q) /\ r[j] = q[j + k]) \/ (j + k = Len(q) + 1 /\ r[j] = x)
  BY <1>1, <1>3
<1>5. i + k < j + k
  BY <1>2
<1>6. CASE j + k \in 1..Len(q) /\ r[j] = q[j + k]
  <2>1. i + k \in 1..Len(q) /\ r[i] = q[i + k]
    BY <1>2, <1>4, <1>5, <1>6
  <2>. QED BY <1>5, <1>6, <2>1 DEF InLine
<1>7. CASE j + k = Len(q) + 1 /\ r[j] = x
  <2>1. i + k \in 1..Len(q) /\ r[i] = q[i + k]
    BY <1>2, <1>4, <1>5, <1>7
  <2>2. r[i] \in In(q)
    BY <2>1 DEF In
  <2>. QED BY <1>7, <2>2
<1>. QED BY <1>4, <1>6, <1>7

\* What is behind the first in a queue comes after it.
LEMMA FirstOfSorted ==
  ASSUME NEW q, IsSequence(q), q # <<>>, Sorted(q), Head(q).type = "command",
         NEW x \in In(Tail(q)), x.type = "command"
  PROVE  Head(q).command <= x.command
<1>1. /\ Len(q) \in Nat /\ Len(q) > 0 /\ Len(Tail(q)) = Len(q) - 1 /\ Head(q) = q[1]
      /\ \A j \in 1..Len(Tail(q)) : Tail(q)[j] = q[j + 1]
  BY Elements, TailSequence
<1>2. PICK j \in 1..Len(Tail(q)) : x = Tail(q)[j]
  BY DEF In
<1>3. j + 1 \in 1..Len(q) /\ 1 \in 1..Len(q) /\ 1 < j + 1 /\ x = q[j + 1]
  BY <1>1, <1>2
<1>. QED BY <1>1, <1>3 DEF Sorted

LEMMA FirstInLine ==
  ASSUME NEW q, IsSequence(q), q # <<>>, InLine(q), Own(q[1]),
         NEW y \in In(q), Own(y), y.session = q[1].session, y.command \notin early, y.command # q[1].command
  PROVE  q[1].command <= y.command
<1>1. Len(q) \in Nat /\ Len(q) > 0
  BY Elements
<1>2. PICK j \in 1..Len(q) : y = q[j]
  BY DEF In
<1>3. 1 \in 1..Len(q) /\ 1 < j
  BY <1>1, <1>2
<1>. QED BY <1>2, <1>3 DEF InLine

\* The command that the room is asked to decide next, if this step decides one.
Decides(c) == calls # <<>> /\ Own(calls[1]) /\ calls[1].command = c

\* In every step of the server and of others what is heard and decided stays in order.
LEMMA OrderServed ==
  ASSUME Sourced, IInv, Screen, Order, NEW x, NEW a, Serves(x, a),
         \A c \in Commands : decided'[c] = "ok" => decided[c] = "ok" \/ Decides(c)
  PROVE  Order' /\ InOrder
<1>. /\ Standing /\ Once /\ Submitted /\ LetIn /\ Lined /\ Founds /\ Wire /\ Answers(x, a) /\ IsSequence(calls)
     /\ page' = page /\ issued' = issued /\ early' = early
  BY DEF Screen, Order, Sourced, Calling, Speak, Serves, user
<1>1. ASSUME NEW c \in In(calls'), c.type = "command" PROVE c \in In(calls) \/ (c = a /\ IsHeard(a))
  <2>1. "command" \in Errands /\ "command" \notin Silent
    BY DEF Errands, Silent
  <2>2. c \in In(calls) \/ c = a
    BY <1>1, <2>1, MovesElements DEF Serves
  <2>. QED BY <1>1, <2>1, <2>2 DEF Answers
<1>2. \A n \in Conns : \A y \in In(links'[n].up) : y \in In(links[n].up)
  BY DEF Answers
<1>3. \A n \in Conns, s \in Sessions : UnderWay(n, s)' => UnderWay(n, s)
  BY DEF Serves
<1>4. ASSUME IsHeard(a)
      PROVE  \E n \in Conns :
               /\ IsSequence(links[n].up) /\ links[n].up # <<>> /\ Sorted(links[n].up)
               /\ gw.bound[n] = a.session /\ links'[n].up = Tail(links[n].up)
               /\ Head(links[n].up) \in In(links[n].up) /\ Head(links[n].up).type = "command"
               /\ Head(links[n].up).command = a.command
               /\ a.command \in Commands /\ issued[a.command] \in Sessions
  <2>1. PICK n \in Conns : /\ gw.bound[n] = a.session /\ links[n].up # <<>>
                           /\ Head(links[n].up).type = "command" /\ a.command = Head(links[n].up).command
                           /\ links'[n].up = Tail(links[n].up)
    BY <1>4 DEF IsHeard
  <2>2. IsSequence(links[n].up) /\ Head(links[n].up) \in In(links[n].up) /\ Sorted(links[n].up)
    BY <2>1, ElementsOf DEF Wire, Speak, Lined
  <2>3. a.command \in Commands /\ issued[a.command] \in Sessions
    BY <2>1, <2>2 DEF Submitted
  <2>. QED BY <2>1, <2>2, <2>3
<1>5. \A c \in Commands : decided'[c] = "ok" => Reached(c)
  <2>. SUFFICES ASSUME NEW c \in Commands, Decides(c) PROVE Reached(c)
    BY DEF Reached
  <2>1. calls[1] \in In(calls)
    <3>. Len(calls) \in Nat /\ Len(calls) > 0
      BY Elements DEF Decides
    <3>. QED BY DEF In
  <2>. QED BY <2>1 DEF Reached, Decides
<1>6. Submitted'
  <2>1. \A c \in In(calls') : c.type = "command" => c.command \in Commands /\ issued[c.command] # NoSession
    BY <1>1, <1>4, DeliveryAssumption DEF Submitted
  <2>2. \A c \in Commands : decided'[c] = "ok" => issued[c] # NoSession
    BY <1>5 DEF Reached, Submitted, Own
  <2>. QED BY <1>2, <2>1, <2>2 DEF Submitted
<1>7. LetIn'
  <2>1. ASSUME NEW n \in Conns, NEW y \in In(links'[n].up), y.type = "command", y.command \notin early
        PROVE  ~UnderWay(n, issued[y.command])'
    <3>1. PICK t \in Sessions : issued[y.command] = t
      BY <1>2, <2>1 DEF Submitted
    <3>2. ~UnderWay(n, t)
      BY <1>2, <2>1, <3>1 DEF LetIn
    <3>3. ~UnderWay(n, t)'
      BY <1>3, <3>2
    <3>. QED BY <3>1, <3>3 DEF UnderWay
  <2>2. ASSUME page.timer, page.pending \notin early
        PROVE  ~UnderWay(page.conn, issued[page.pending])'
    <3>1. PICK k \in Conns : page.conn = k
      BY <2>2 DEF Standing
    <3>2. PICK c \in Commands : page.pending = c /\ c \notin early
      BY <2>2 DEF LetIn, IInv, Outbox
    <3>3. ~UnderWay(k, issued[c])
      BY <2>2, <3>1, <3>2 DEF LetIn
    <3>4. ASSUME NEW t \in Sessions, issued[c] = t PROVE ~UnderWay(k, issued[c])'
      <4>1. ~UnderWay(k, t)'
        BY <1>3, <3>3, <3>4
      <4>. QED BY <3>4, <4>1 DEF UnderWay
    <3>5. issued[c] \in Sessions
      BY <3>2 DEF Submitted, IInv, Outbox
    <3>6. ~UnderWay(k, issued[c])'
      BY <3>4, <3>5
    <3>. QED BY <3>1, <3>2, <3>6 DEF UnderWay
  <2>3. page.timer => page.pending # NoCommand
    BY DEF LetIn
  <2>. QED BY <2>1, <2>2, <2>3 DEF LetIn
<1>8. ASSUME NEW n \in Conns, NEW b \in Commands, NEW c \in Commands, Before(b, c), gw.bound[n] = issued[b],
             NEW y \in In(links[n].up), y.type = "command", y.command = b
      PROVE  ~Reached(c)
  BY <1>8 DEF Lined
<1>9. InLine(calls')
  <2>1. ASSUME Own(a), a.command \notin early, NEW y \in In(calls), Own(y), y.session = a.session
        PROVE  y.command <= a.command
    <3>1. IsHeard(a) /\ a.type = "command" /\ issued[a.command] = a.session
      BY <2>1 DEF Own, Answers, Errands
    <3>2. y.type = "command" /\ y.command \in Commands /\ issued[y.command] = a.session /\ Reached(y.command)
      BY <2>1 DEF Own, Submitted, Reached
    <3>3. PICK n \in Conns : /\ gw.bound[n] = a.session
                             /\ Head(links[n].up) \in In(links[n].up) /\ Head(links[n].up).type = "command"
                             /\ Head(links[n].up).command = a.command
                             /\ a.command \in Commands /\ issued[a.command] \in Sessions
      BY <1>4, <3>1
    <3>4. ~Before(a.command, y.command)
      BY <1>8, <3>1, <3>2, <3>3
    <3>5. issued[a.command] # NoSession
      BY <3>3, DeliveryAssumption
    <3>6. ~(a.command < y.command)
      BY <2>1, <3>1, <3>2, <3>4, <3>5 DEF Before
    <3>. QED BY <3>2, <3>3, <3>6, CommandNumbers
  <2>. QED BY <2>1, InLineMoves DEF Lined, Serves
<1>10. ASSUME NEW b \in Commands, NEW c \in Commands, Before(b, c), Reached(c)', NEW n \in Conns,
              gw'.bound[n] = issued[b], NEW y \in In(links'[n].up), y.type = "command", y.command = b
       PROVE  FALSE
  <2>1. y \in In(links[n].up)
    BY <1>2, <1>10
  <2>2. PICK s \in Sessions : issued[b] = s /\ issued[c] = s
    BY <1>10 DEF Before, Submitted
  <2>3. b \in Nat /\ c \in Nat /\ b < c /\ b \notin early
    BY <1>10, CommandNumbers DEF Before
  <2>4. ~UnderWay(n, s)
    BY <1>10, <2>1, <2>2, <2>3 DEF LetIn
  <2>5. gw.bound[n] = s
    <3>1. gw'.active[s] = n
      BY <1>10, <2>2 DEF Serves, Paired
    <3>2. gw.active[s] = n
      BY <2>4, <3>1 DEF Answers
    <3>. QED BY <3>2 DEF Standing, Paired
  <2>6. ~Reached(c)
    BY <1>8, <1>10, <2>1, <2>2, <2>5
  <2>7. decided'[c] # "ok"
    BY <1>5, <2>6
  <2>8. PICK d \in In(calls') : d.type = "command" /\ d.command = c /\ d.session = s
    BY <1>10, <2>2, <2>7 DEF Reached, Own
  <2>9. d \notin In(calls)
    BY <2>2, <2>6, <2>8 DEF Reached, Own
  <2>10. d = a /\ IsHeard(a)
    BY <1>1, <2>8, <2>9
  <2>11. PICK k \in Conns : /\ IsSequence(links[k].up) /\ links[k].up # <<>> /\ Sorted(links[k].up)
                            /\ gw.bound[k] = s /\ links'[k].up = Tail(links[k].up)
                            /\ Head(links[k].up).type = "command" /\ Head(links[k].up).command = c
    BY <1>4, <2>8, <2>10
  <2>12. k = n
    BY <2>5, <2>11 DEF Standing, Paired
  <2>13. Head(links[k].up).command <= y.command
    BY <1>10, <2>11, <2>12, FirstOfSorted
  <2>. QED BY <1>10, <2>3, <2>11, <2>13
<1>11. ASSUME NEW b \in Commands, NEW c \in Commands, Before(b, c), decided'[c] = "ok",
              NEW d \in In(calls'), Own(d), d.command = b
       PROVE  FALSE
  <2>1. PICK s \in Sessions : issued[b] = s /\ issued[c] = s /\ d.session = s /\ d.type = "command"
    BY <1>11 DEF Before, Submitted, Own
  <2>2. Reached(c)
    BY <1>5, <1>11
  <2>3. b \in Nat /\ c \in Nat /\ b < c /\ b \notin early
    BY <1>11, CommandNumbers DEF Before
  <2>4. CASE d \in In(calls)
    <3>1. decided[c] # "ok"
      BY <1>11, <2>4 DEF Lined
    <3>2. Decides(c)
      BY <1>11, <3>1
    <3>3. calls[1].session = s /\ InLine(calls)
      BY <2>1, <3>2 DEF Decides, Own, Lined
    <3>4. calls[1].command <= d.command
      BY <1>11, <2>1, <2>3, <2>4, <3>2, <3>3, FirstInLine DEF Decides
    <3>. QED BY <1>11, <2>3, <3>2, <3>4 DEF Decides
  <2>5. CASE d = a /\ IsHeard(a)
    <3>1. PICK n \in Conns : /\ gw.bound[n] = s
                             /\ Head(links[n].up) \in In(links[n].up) /\ Head(links[n].up).type = "command"
                             /\ Head(links[n].up).command = b
      BY <1>4, <1>11, <2>1, <2>5
    <3>. QED BY <1>8, <1>11, <2>1, <2>2, <3>1
  <2>. QED BY <1>1, <2>1, <2>4, <2>5
<1>12. Lined'
  <2>1. \A n \in Conns : Sorted(links'[n].up)
    <3>1. Nothing.type # "command"
      BY DEF Nothing
    <3>. QED BY <3>1, SortedMoves DEF Lined, Answers
  <2>2. ASSUME NEW b \in Commands, NEW c \in Commands, Before(b, c)', Reached(c)'
        PROVE  \A n \in Conns : gw'.bound[n] = issued'[b] =>
                 \A y \in In(links'[n].up) : ~(y.type = "command" /\ y.command = b)
    <3>1. Before(b, c)
      BY <2>2 DEF Before
    <3>. QED BY <1>10, <2>2, <3>1
  <2>3. ASSUME NEW b \in Commands, NEW c \in Commands, Before(b, c)', decided'[c] = "ok"
        PROVE  \A d \in In(calls') : Own(d)' => d.command # b
    <3>1. Before(b, c)
      BY <2>3 DEF Before
    <3>. SUFFICES ASSUME NEW d \in In(calls'), Own(d)', d.command = b PROVE FALSE
      OBVIOUS
    <3>2. Own(d)
      BY DEF Own
    <3>. QED BY <1>11, <2>3, <3>1, <3>2
  <2>4. InLine(calls)'
    BY <1>9 DEF InLine, Own
  <2>. QED BY <2>1, <2>2, <2>3, <2>4 DEF Lined
<1>13. Founds'
  <2>1. ASSUME NEW s \in Sessions, NEW kind, page.conn # 0, Asked(page.conn, s, kind)', kind # "resume"
        PROVE  Unseen(s)'
    <3>1. PICK k \in Conns : page.conn = k
      BY <2>1 DEF Standing
    <3>2. Asked(k, s, kind)'
      BY <2>1, <3>1 DEF Asked
    <3>3. Asked(k, s, kind)
      BY <3>2 DEF Answers
    <3>4. Unseen(s)
      BY <2>1, <3>1, <3>3 DEF Founds
    <3>. QED BY <3>4 DEF Unseen
  <2>2. ASSUME NEW s \in Sessions, Resumes(s)' PROVE Resumes(s)
    <3>1. CASE page.conn # 0 /\ Asked(page.conn, s, "resume")'
      <4>1. PICK k \in Conns : page.conn = k
        BY <3>1 DEF Standing
      <4>2. Asked(k, s, "resume")'
        BY <3>1, <4>1 DEF Asked
      <4>3. Asked(k, s, "resume")
        BY <4>2 DEF Answers
      <4>. QED BY <3>1, <4>1, <4>3 DEF Resumes
    <3>2. ASSUME NEW y \in In(down'), y.type = "entered", y.kind = "resume", y.session = s PROVE Resumes(s)
      <4>1. "entered" \notin Silent /\ "entered" \in Viewing
        BY DEF Silent, Viewing
      <4>2. y \in In(down) \/ y = x
        BY <3>2, <4>1, MovesElements DEF Serves
      <4>3. CASE y \in In(down)
        BY <3>2, <4>3 DEF Resumes
      <4>4. CASE y = x
        <5>1. page.conn \in Conns
          BY <3>2, <4>1, <4>4 DEF Serves
        <5>2. Asked(page.conn, s, "resume")
          BY <3>2, <4>1, <4>4 DEF Answers
        <5>. QED BY <5>1, <5>2, ConnNumbers DEF Resumes
      <4>. QED BY <4>2, <4>3, <4>4
    <3>. QED BY <2>2, <3>1, <3>2 DEF Resumes
  <2>3. page'.conn = page.conn
    OBVIOUS
  <2>. QED BY <2>1, <2>2, <2>3 DEF Founds
<1>14. InOrder
  <2>. SUFFICES ASSUME NEW b \in Commands, NEW c \in Commands, b < c, b \notin early, issued[b] = issued[c],
                       decided[c] = "ok", decided[b] # "ok", decided'[b] = "ok"
                PROVE  FALSE
    BY DEF InOrder
  <2>1. Decides(b)
    OBVIOUS
  <2>2. Before(b, c)
    BY DEF Before, Submitted
  <2>3. calls[1] \in In(calls)
    <3>. Len(calls) \in Nat /\ Len(calls) > 0
      BY <2>1, Elements DEF Decides
    <3>. QED BY DEF In
  <2>. QED BY <2>1, <2>2, <2>3 DEF Decides, Lined
<1>. QED BY <1>6, <1>7, <1>12, <1>13, <1>14 DEF Order

\* Nothing is sent but, perhaps, the command that is pending, on a connection that has been let in.
LEMMA OrderKept ==
  ASSUME Sourced, IInv, Screen, Order, UNCHANGED <<gw, entries, calls, decided, issued, early>>,
         In(down') \subseteq In(down),
         \/ links' = links
         \/ /\ links' = SentUp(page.conn, CommandPacket(page.pending))
            /\ page.conn # 0 /\ page.pending # NoCommand
            /\ page.pending \notin early => ~UnderWay(page.conn, issued[page.pending]),
         page'.pending \in {page.pending, NoCommand},
         page'.timer =>
           /\ page'.pending # NoCommand /\ page'.conn = page.conn /\ page.conn # 0
           /\ page.pending \notin early => ~UnderWay(page.conn, issued[page.pending]),
         page'.conn = page.conn \/ page'.conn = 0,
         \/ page'.shown.session \in {page.shown.session, NoSession}
         \/ page.conn # 0 /\ Settled(page.conn, page'.shown.session)
  PROVE  Order' /\ InOrder
<1>. /\ Standing /\ Once /\ Submitted /\ LetIn /\ Lined /\ Founds /\ Wire
     /\ page.pending \in Commands \cup {NoCommand} /\ NoCommand \notin Commands
  BY NotACommand DEF Screen, Order, Sourced, IInv, Outbox
<1>1. \A n \in Conns :
        \/ links'[n].up = links[n].up
        \/ /\ Moves(links[n].up, links'[n].up, CommandPacket(page.pending))
           /\ In(links'[n].up) = In(links[n].up) \cup {CommandPacket(page.pending)}
           /\ n = page.conn /\ page.pending \in Commands
           /\ page.pending \notin early => ~UnderWay(page.conn, issued[page.pending])
  <2>. SUFFICES ASSUME NEW n \in Conns, links'[n].up # links[n].up
                PROVE  /\ Moves(links[n].up, links'[n].up, CommandPacket(page.pending))
                       /\ In(links'[n].up) = In(links[n].up) \cup {CommandPacket(page.pending)}
                       /\ n = page.conn
    OBVIOUS
  <2>1. PICK k \in Conns : page.conn = k
    BY DEF Standing
  <2>2. IsSequence(links[n].up) /\ links' = SentUp(k, CommandPacket(page.pending))
    BY <2>1 DEF Wire, Speak
  <2>3. n = k /\ links'[n].up = Append(links[n].up, CommandPacket(page.pending))
    BY <2>2, LinksSent
  <2>. QED BY <2>1, <2>2, <2>3, AppendMoves, ElementsOf
<1>2. CommandPacket(page.pending).type = "command" /\ CommandPacket(page.pending).command = page.pending
  BY DEF CommandPacket
<1>3. \A n \in Conns : \A x \in In(links'[n].up) :
        \/ x \in In(links[n].up)
        \/ /\ x.type = "command" /\ x.command = page.pending /\ n = page.conn /\ page.pending \in Commands
           /\ page.pending \notin early => ~UnderWay(page.conn, issued[page.pending])
  BY <1>1, <1>2
<1>4. \A n \in Conns : \A s, kind : Asked(n, s, kind)' => Asked(n, s, kind)
  BY <1>3 DEF Asked
<1>5. \A n \in Conns : \A s : UnderWay(n, s)' => UnderWay(n, s)
  <2>. SUFFICES ASSUME NEW n \in Conns, NEW s, UnderWay(n, s)' PROVE UnderWay(n, s)
    OBVIOUS
  <2>1. \/ \E x \in In(links'[n].up) : x.type = "enter" /\ x.session = s
        \/ \E e \in entries : e.conn = n /\ e.session = s
    BY DEF UnderWay, In
  <2>. QED BY <1>3, <2>1, UnderWayIs
<1>6. page.pending \in Commands => issued[page.pending] # NoSession
  BY DEF IInv, Outbox
<1>7. Submitted'
  <2>1. \A b, c \in Commands : b < c /\ issued[c] # NoSession => issued[b] # NoSession /\ page'.pending # b
    BY DEF Submitted
  <2>2. \A n \in Conns : \A x \in In(links'[n].up) :
          x.type = "command" => x.command \in Commands /\ issued[x.command] # NoSession
    BY <1>3, <1>6 DEF Submitted
  <2>. QED BY <2>1, <2>2 DEF Submitted
<1>8. LetIn'
  <2>1. ASSUME NEW n \in Conns, NEW y \in In(links'[n].up), y.type = "command", y.command \notin early
        PROVE  ~UnderWay(n, issued[y.command])'
    <3>1. ~UnderWay(n, issued[y.command])
      BY <1>3, <2>1 DEF LetIn
    <3>2. PICK t : issued[y.command] = t
      OBVIOUS
    <3>3. ~UnderWay(n, t)'
      BY <1>5, <3>1, <3>2
    <3>. QED BY <3>2, <3>3 DEF UnderWay
  <2>2. ASSUME page'.timer, page'.pending \notin early
        PROVE  ~UnderWay(page.conn, issued[page.pending])'
    <3>1. PICK k \in Conns : page.conn = k /\ page'.conn = k
      BY <2>2 DEF Standing
    <3>2. PICK t : issued[page.pending] = t /\ issued'[page'.pending] = t
      BY <2>2
    <3>3. ~UnderWay(k, t)
      BY <2>2, <3>1, <3>2
    <3>4. ~UnderWay(k, t)'
      BY <1>5, <3>3
    <3>. QED BY <3>1, <3>2, <3>4 DEF UnderWay
  <2>3. page'.timer => page'.pending # NoCommand
    OBVIOUS
  <2>. QED BY <2>1, <2>2, <2>3 DEF LetIn
<1>9. Lined'
  <2>1. ASSUME NEW n \in Conns PROVE Sorted(links'[n].up)
    <3>1. CASE links'[n].up = links[n].up
      BY <3>1 DEF Lined
    <3>2. CASE Moves(links[n].up, links'[n].up, CommandPacket(page.pending)) /\ page.pending \in Commands
      <4>. SUFFICES ASSUME NEW y \in In(links[n].up), y.type = "command" PROVE y.command <= page.pending
        BY <1>2, <3>2, SortedMoves DEF Lined
      <4>1. y.command \in Commands /\ issued[y.command] # NoSession
        BY DEF Submitted
      <4>2. ASSUME NEW b \in Commands, page.pending = b, b < y.command PROVE FALSE
        BY <4>1, <4>2 DEF Submitted
      <4>3. y.command \in Nat /\ page.pending \in Nat /\ ~(page.pending < y.command)
        BY <3>2, <4>1, <4>2, CommandNumbers
      <4>. QED BY <4>3
    <3>. QED BY <1>1, <3>1, <3>2
  <2>2. ASSUME NEW b \in Commands, NEW c \in Commands, Before(b, c)', Reached(c)'
        PROVE  \A n \in Conns : gw'.bound[n] = issued'[b] =>
                 \A y \in In(links'[n].up) : ~(y.type = "command" /\ y.command = b)
    <3>1. Before(b, c) /\ Reached(c)
      BY <2>2 DEF Before, Reached, Own
    <3>2. issued[c] # NoSession /\ b < c
      BY <3>1 DEF Before
    <3>3. page.pending # b
      BY <3>2 DEF Submitted
    <3>. QED BY <1>3, <3>1, <3>3 DEF Lined
  <2>3. ASSUME NEW b \in Commands, NEW c \in Commands, Before(b, c)', decided'[c] = "ok"
        PROVE  \A d \in In(calls') : Own(d)' => d.command # b
    <3>1. Before(b, c)
      BY <2>3 DEF Before
    <3>. QED BY <2>3, <3>1 DEF Lined, Own
  <2>4. InLine(calls)'
    BY DEF InLine, Own, Lined
  <2>. QED BY <2>1, <2>2, <2>3, <2>4 DEF Lined
<1>10. Founds'
  <2>1. ASSUME NEW s \in Sessions, NEW kind, page'.conn # 0, Asked(page.conn, s, kind)', kind # "resume"
        PROVE  Unseen(s)'
    <3>1. PICK k \in Conns : page.conn = k /\ page'.conn = k
      BY <2>1 DEF Standing
    <3>2. Asked(k, s, kind)'
      BY <2>1, <3>1 DEF Asked
    <3>3. Asked(k, s, kind)
      BY <1>4, <3>2
    <3>4. Unseen(s)
      BY <2>1, <3>1, <3>3, ConnNumbers DEF Founds
    <3>5. UnderWay(k, s)
      BY <3>3, UnderWayAsked
    <3>6. ~Settled(k, s) /\ s # NoSession
      BY <3>5, DeliveryAssumption DEF Once
    <3>. QED BY <3>1, <3>4, <3>6 DEF Unseen
  <2>2. ASSUME NEW s \in Sessions, Resumes(s)' PROVE Resumes(s)
    <3>1. CASE page'.conn # 0 /\ Asked(page.conn, s, "resume")'
      <4>1. PICK k \in Conns : page.conn = k /\ page'.conn = k
        BY <3>1 DEF Standing
      <4>2. Asked(k, s, "resume")'
        BY <3>1, <4>1 DEF Asked
      <4>. QED BY <1>4, <4>1, <4>2, ConnNumbers DEF Resumes
    <3>2. ASSUME NEW y \in In(down'), y.type = "entered", y.kind = "resume", y.session = s PROVE Resumes(s)
      BY <3>2 DEF Resumes
    <3>. QED BY <2>2, <3>1, <3>2 DEF Resumes
  <2>. QED BY <2>1, <2>2 DEF Founds
<1>11. InOrder
  BY DEF InOrder
<1>. QED BY <1>7, <1>8, <1>9, <1>10, <1>11 DEF Order

LEMMA LetGoOrder ==
  ASSUME Sourced, IInv, Screen, Order, LinkLost \/ Reload \/ Leave
  PROVE  Order' /\ InOrder
<1>. DOMAIN page = Fields
  BY DEF IInv, Outbox
<1>1. UNCHANGED <<links, gw, entries, calls, decided, issued, early>> /\ In(down') \subseteq In(down)
  BY ElementsOf DEF LinkLost, Reload, Leave, server, user
<1>2. /\ page'.conn = 0 /\ ~page'.timer /\ page'.pending \in {page.pending, NoCommand}
      /\ page'.shown.session \in {page.shown.session, NoSession}
  <2>. NoView.session = NoSession
    BY DEF NoView
  <2>1. CASE LinkLost
    BY <2>1, Forms, PageForms DEF LinkLost
  <2>2. CASE Reload
    BY <2>2 DEF Reload, Fresh
  <2>3. CASE Leave
    <3>. DEFINE f == Forgotten(page)
                d == Disconnected(f)
    <3>1. DOMAIN f = Fields /\ f.pending = NoCommand /\ f.shown = NoView
      BY Forms
    <3>. HIDE DEF f
    <3>2. DOMAIN d = Fields /\ d.conn = 0 /\ ~d.timer /\ d.pending = NoCommand /\ d.shown = NoView
      BY <3>1, Forms, PageForms
    <3>3. page' = [d EXCEPT !.dialing = TRUE]
      BY <2>3 DEF Leave, f
    <3>. HIDE DEF d
    <3>. QED BY <3>2, <3>3 DEF Fields
  <2>. QED BY <2>1, <2>2, <2>3
<1>. QED BY <1>1, <1>2, OrderKept

\* The command that is sent again is the one that was sent before, on the same connection.
LEMMA TimeoutOrder ==
  ASSUME Sourced, IInv, Screen, Order, RequestTimeout \/ CommandTimeout
  PROVE  Order' /\ InOrder
<1>. DOMAIN page = Fields /\ Standing /\ LetIn
  BY DEF IInv, Outbox, Screen, Order
<1>1. UNCHANGED <<down, gw, entries, calls, decided, issued, early>>
  BY DEF RequestTimeout, CommandTimeout, server, user
<1>2. page.timer => /\ page.conn # 0 /\ page.pending # NoCommand
                    /\ page.pending \notin early => ~UnderWay(page.conn, issued[page.pending])
  BY DEF Standing, LetIn
<1>3. CASE RequestTimeout
  <2>1. /\ page'.conn = page.conn /\ page'.timer = page.timer /\ page'.pending = page.pending
        /\ page'.shown = page.shown /\ links' = links
    BY <1>3 DEF RequestTimeout, Fields
  <2>. QED BY <1>1, <1>2, <2>1, OrderKept
<1>4. CASE CommandTimeout
  <2>1. links' = links \/ links' = SentUp(page.conn, CommandPacket(page.pending))
    BY <1>4 DEF CommandTimeout
  <2>2. page' = Attempt(page) \/ page' = [Paused(page) EXCEPT !.busy = FALSE]
    BY <1>4 DEF CommandTimeout
  <2>3. page'.conn = page.conn /\ page'.pending = page.pending /\ page'.shown = page.shown
    <3>. DOMAIN Paused(page) = Fields
      BY Forms
    <3>1. CASE page' = Attempt(page)
      BY <3>1, Forms, PageForms
    <3>2. CASE page' = [Paused(page) EXCEPT !.busy = FALSE]
      BY <3>2, Forms, PageForms DEF Fields
    <3>. QED BY <2>2, <3>1, <3>2
  <2>4. page.timer
    BY <1>4 DEF CommandTimeout
  <2>. QED BY <1>1, <1>2, <2>1, <2>3, <2>4, OrderKept
<1>. QED BY <1>3, <1>4

\* When the session is resumed, nothing else that the pending command could be of is asked for.
LEMMA ReceiveOrder ==
  ASSUME Sourced, IInv, Screen, Order, Receive
  PROVE  Order' /\ InOrder
<1>. /\ Standing /\ Once /\ LetIn /\ Founds /\ Submitted /\ DOMAIN page = Fields /\ IsSequence(down)
     /\ NoView.session = NoSession
  BY DEF Screen, Order, IInv, Outbox, Sourced, Shown, Speak, NoView
<1>1. /\ down # <<>> /\ down' = (IF Received.type = "bye" THEN <<>> ELSE Tail(down))
      /\ UNCHANGED <<gw, entries, calls, decided, issued, early>> /\ page.conn # 0
  BY DEF Receive, server, Standing
<1>2. In(down') \subseteq In(down) /\ Received \in In(down)
  BY <1>1, ElementsOf DEF Received
<1>3. Received.type \in Viewing => Settled(page.conn, Received.session) /\ Received.session \in Sessions
  BY <1>2, SpokenFor DEF Settled
<1>4. page.timer => /\ page.pending # NoCommand
                    /\ page.pending \notin early => ~UnderWay(page.conn, issued[page.pending])
  BY DEF LetIn
<1>5. CASE EntryAnswered
  <2>. DEFINE p == [page EXCEPT !.request = NoRequest, !.busy = FALSE]
              in == [p EXCEPT !.shown = [session |-> Received.session, revision |-> Received.revision]]
              again == [in EXCEPT !.busy = TRUE, !.attempts = 0]
              named == [in EXCEPT !.token = Received.session]
  <2>1. Received.type = "entered" /\ Received.type \in Viewing
    BY <1>5 DEF EntryAnswered, Viewing
  <2>2. /\ DOMAIN p = Fields /\ p.conn = page.conn /\ p.shown = page.shown
        /\ p.pending = page.pending /\ p.timer = page.timer
        /\ DOMAIN in = Fields /\ in.conn = page.conn /\ in.pending = page.pending /\ in.timer = page.timer
        /\ in.shown.session = Received.session
    BY DEF Fields
  <2>3. \/ page' \in {page, p, Forgotten(p), in, named} /\ links' = links
        \/ /\ page' = Attempt(again) /\ links' = SentUp(page.conn, CommandPacket(page.pending))
           /\ page.pending # NoCommand /\ Received.kind = "resume"
    BY <1>5 DEF EntryAnswered
  <2>4. /\ DOMAIN again = Fields /\ again.conn = page.conn /\ again.pending = page.pending
        /\ again.shown = in.shown
        /\ named.conn = page.conn /\ named.pending = page.pending /\ named.timer = page.timer
        /\ named.shown = in.shown
    BY <2>2 DEF Fields
  <2>. HIDE DEF p, in, again, named
  <2>5. CASE page' \in {page, p, Forgotten(p), in, named} /\ links' = links
    <3>1. /\ page'.conn = page.conn /\ page'.pending \in {page.pending, NoCommand}
          /\ page'.timer => page.timer /\ page'.pending = page.pending
          /\ page'.shown.session \in {page.shown.session, NoSession, Received.session}
      <4>1. CASE page' \in {page, p, in, named}
        BY <2>2, <2>4, <4>1
      <4>2. CASE page' = Forgotten(p)
        BY <2>2, <4>2, Forms, PageForms
      <4>. QED BY <2>5, <4>1, <4>2
    <3>. QED BY <1>1, <1>2, <1>3, <1>4, <2>1, <2>5, <3>1, OrderKept
  <2>6. CASE /\ page' = Attempt(again) /\ links' = SentUp(page.conn, CommandPacket(page.pending))
             /\ page.pending # NoCommand /\ Received.kind = "resume"
    <3>1. page'.conn = page.conn /\ page'.pending = page.pending /\ page'.shown.session = Received.session
      BY <2>2, <2>4, <2>6, Forms, PageForms
    <3>2. ~UnderWay(page.conn, issued[page.pending])
      <4>1. PICK c \in Commands, s \in Sessions : page.pending = c /\ issued[c] = s
        BY <2>6 DEF IInv, Outbox, Submitted
      <4>2. PICK t \in Sessions : Received.session = t /\ Resumes(t) /\ Settled(page.conn, t)
        BY <1>2, <1>3, <2>1, <2>6 DEF Resumes
      <4>. SUFFICES ASSUME UnderWay(page.conn, s) PROVE FALSE
        BY <4>1
      <4>3. PICK kind : Asked(page.conn, s, kind)
        BY UnderWayAsked
      <4>4. kind = "resume"
        BY <1>1, <4>1, <4>3 DEF Founds, Unseen
      <4>5. s = t
        BY <1>1, <4>2, <4>3, <4>4 DEF Founds, Resumes
      <4>. QED BY <1>1, <4>2, <4>5 DEF Once, Standing
    <3>. QED BY <1>1, <1>2, <1>3, <2>1, <2>6, <3>1, <3>2, OrderKept
  <2>. QED BY <2>3, <2>5, <2>6
<1>6. CASE ViewShown
  <2>1. Received.type = "state" /\ Received.type \in Viewing /\ links' = links
    BY <1>6 DEF ViewShown, Viewing
  <2>2. /\ page'.conn = page.conn /\ page'.pending = page.pending /\ page'.timer = page.timer
        /\ page'.shown.session = Received.session
    BY <1>6 DEF ViewShown, Fields
  <2>. QED BY <1>1, <1>2, <1>3, <1>4, <2>1, <2>2, OrderKept
<1>7. CASE CommandAnswered \/ SessionGone \/ ServerHangsUp
  <2>1. /\ links' = links /\ page'.pending \in {page.pending, NoCommand}
        /\ page'.shown.session \in {page.shown.session, NoSession}
        /\ page'.timer => page'.pending = page.pending /\ page.timer /\ page'.conn = page.conn
        /\ page'.conn = page.conn \/ page'.conn = 0
    <3>1. CASE CommandAnswered
      <4>. /\ DOMAIN Cleared(page) = Fields /\ Cleared(page).conn = page.conn /\ ~Cleared(page).timer
           /\ Cleared(page).pending = NoCommand /\ Cleared(page).shown = page.shown
        BY Forms, PageForms
      <4>. QED BY <3>1 DEF CommandAnswered, Fields
    <3>2. CASE SessionGone
      <4>. /\ DOMAIN Forgotten(page) = Fields /\ Forgotten(page).conn = page.conn
           /\ ~Forgotten(page).timer
           /\ Forgotten(page).pending = NoCommand /\ Forgotten(page).shown = NoView
        BY Forms, PageForms
      <4>. QED BY <3>2 DEF SessionGone, Fields
    <3>3. CASE ServerHangsUp
      <4>. /\ DOMAIN Disconnected(page) = Fields /\ Disconnected(page).conn = 0
           /\ ~Disconnected(page).timer
           /\ Disconnected(page).pending = page.pending /\ Disconnected(page).shown = page.shown
        BY Forms, PageForms
      <4>. QED BY <3>3 DEF ServerHangsUp, Fields
    <3>. QED BY <1>7, <3>1, <3>2, <3>3
  <2>. QED BY <1>1, <1>2, <1>4, <2>1, OrderKept
<1>. QED BY <1>5, <1>6, <1>7 DEF Receive

\* A command is the last that was submitted, and marked if its connection has not been let in.
LEMMA SubmitOrder ==
  ASSUME Sourced, IInv, Screen, Order, NEW c \in Commands, Submit(c)
  PROVE  Order' /\ InOrder
<1>. DEFINE p == [page EXCEPT !.pending = c, !.attempts = 0, !.busy = TRUE]
<1>. /\ Standing /\ Submitted /\ LetIn /\ Lined /\ Founds /\ Wire
     /\ DOMAIN page = Fields /\ c \in Nat /\ c # NoCommand
  BY NotACommand, CommandNumbers DEF Screen, Order, Sourced, IInv, Outbox
<1>1. DOMAIN p = Fields /\ p.conn = page.conn /\ p.shown = page.shown /\ p.pending = c
  BY DEF Fields
<1>2. /\ page' = Attempt(p) /\ links' = SentUp(page.conn, CommandPacket(c))
      /\ UNCHANGED <<down, gw, entries, calls, decided>>
      /\ issued[c] = NoSession /\ \A b \in Commands : b < c => issued[b] # NoSession
  BY DEF Submit, server
<1>. HIDE DEF p
<1>3. page'.conn = page.conn /\ page'.shown = page.shown /\ page'.pending = c
  BY <1>1, <1>2, Forms
<1>4. PICK k \in Conns : page.conn = k
  BY DEF Submit, MayAct, Standing
<1>5. PICK s \in Sessions : page.shown.session = s
  BY SpokenFor DEF Submit, MayAct
<1>6. /\ issued' = [issued EXCEPT ![c] = s]
      /\ early' = IF UnderWay(k, s) THEN early \cup {c} ELSE early
  BY <1>4, <1>5 DEF Submit
<1>7. /\ issued' \in [Commands -> Sessions \cup {NoSession}] /\ issued'[c] = s /\ s # NoSession
      /\ \A b \in Commands : b # c => issued'[b] = issued[b] /\ (b \in early' <=> b \in early)
      /\ \A b \in Commands : issued[b] # NoSession => b # c
      /\ c \notin early' => ~UnderWay(k, s)
  BY <1>2, <1>6, DeliveryAssumption DEF Submitted
<1>8. CommandPacket(c).type = "command" /\ CommandPacket(c).command = c
  BY DEF CommandPacket
<1>9. \A n \in Conns :
        \/ links'[n].up = links[n].up
        \/ /\ n = k /\ Moves(links[n].up, links'[n].up, CommandPacket(c))
           /\ In(links'[n].up) = In(links[n].up) \cup {CommandPacket(c)}
  <2>. SUFFICES ASSUME NEW n \in Conns, links'[n].up # links[n].up
                PROVE  /\ n = k /\ Moves(links[n].up, links'[n].up, CommandPacket(c))
                       /\ In(links'[n].up) = In(links[n].up) \cup {CommandPacket(c)}
    OBVIOUS
  <2>1. IsSequence(links[n].up) /\ links' = SentUp(k, CommandPacket(c))
    BY <1>2, <1>4 DEF Wire, Speak
  <2>2. n = k /\ links'[n].up = Append(links[n].up, CommandPacket(c))
    BY <2>1, LinksSent
  <2>. QED BY <2>1, <2>2, AppendMoves, ElementsOf
<1>10. \A n \in Conns : \A x \in In(links'[n].up) :
         x \in In(links[n].up) \/ (x.type = "command" /\ x.command = c /\ n = k)
  BY <1>8, <1>9
<1>11. \A n \in Conns : \A t, kind : Asked(n, t, kind)' => Asked(n, t, kind)
  BY <1>2, <1>10 DEF Asked
<1>12. \A n \in Conns : \A t : UnderWay(n, t)' => UnderWay(n, t)
  <2>. SUFFICES ASSUME NEW n \in Conns, NEW t, UnderWay(n, t)' PROVE UnderWay(n, t)
    OBVIOUS
  <2>1. \/ \E x \in In(links'[n].up) : x.type = "enter" /\ x.session = t
        \/ \E e \in entries : e.conn = n /\ e.session = t
    BY <1>2 DEF UnderWay, In
  <2>. QED BY <1>10, <2>1, UnderWayIs
<1>13. Submitted'
  <2>1. ASSUME NEW b \in Commands, NEW d \in Commands, b < d, issued'[d] # NoSession
        PROVE  issued'[b] # NoSession /\ page'.pending # b
    <3>1. CASE d = c
      <4>. b # c /\ issued[b] # NoSession
        BY <1>2, <2>1, <3>1
      <4>. QED BY <1>3, <1>7
    <3>2. CASE d # c
      <4>. issued[b] # NoSession
        BY <1>7, <2>1, <3>2 DEF Submitted
      <4>. QED BY <1>3, <1>7
    <3>. QED BY <3>1, <3>2
  <2>2. \A n \in Conns : \A x \in In(links'[n].up) :
          x.type = "command" => x.command \in Commands /\ issued'[x.command] # NoSession
    BY <1>7, <1>10 DEF Submitted
  <2>3. \A a \in In(calls) : a.type = "command" => a.command \in Commands /\ issued'[a.command] # NoSession
    BY <1>7 DEF Submitted
  <2>4. \A b \in Commands : decided[b] = "ok" => issued'[b] # NoSession
    BY <1>7 DEF Submitted
  <2>. QED BY <1>2, <1>7, <2>1, <2>2, <2>3, <2>4 DEF Submitted
<1>14. LetIn'
  <2>1. ASSUME NEW n \in Conns, NEW y \in In(links'[n].up), y.type = "command", y.command \notin early'
        PROVE  ~UnderWay(n, issued[y.command])'
    <3>1. PICK t : issued'[y.command] = t
      OBVIOUS
    <3>2. CASE y \in In(links[n].up)
      <4>1. y.command \in Commands /\ issued[y.command] # NoSession
        BY <2>1, <3>2 DEF Submitted
      <4>2. issued[y.command] = t /\ y.command \notin early
        BY <1>7, <2>1, <3>1, <4>1
      <4>3. ~UnderWay(n, t)
        BY <2>1, <3>2, <4>2 DEF LetIn
      <4>4. ~UnderWay(n, t)'
        BY <1>12, <4>3
      <4>. QED BY <3>1, <4>4 DEF UnderWay
    <3>3. CASE y.command = c /\ n = k
      <4>1. ~UnderWay(n, t) /\ t = s
        BY <1>7, <2>1, <3>1, <3>3
      <4>2. ~UnderWay(n, t)'
        BY <1>12, <4>1
      <4>. QED BY <3>1, <4>2 DEF UnderWay
    <3>. QED BY <1>10, <3>2, <3>3
  <2>2. ASSUME page'.pending \notin early' PROVE ~UnderWay(page.conn, issued[page.pending])'
    <3>1. ~UnderWay(k, s)'
      BY <1>3, <1>7, <1>12, <2>2
    <3>2. page'.conn = k /\ issued'[page'.pending] = s
      BY <1>3, <1>4, <1>7
    <3>. QED BY <3>1, <3>2 DEF UnderWay
  <2>. QED BY <1>3, <2>1, <2>2 DEF LetIn
<1>15. /\ \A a \in In(calls) : Own(a)' <=> Own(a)
       /\ \A d \in Commands : Reached(d)' => Reached(d) /\ issued[d] # NoSession
  <2>1. \A a \in In(calls) : a.type = "command" =>
          a.command \in Commands /\ issued[a.command] # NoSession /\ issued'[a.command] = issued[a.command]
    BY <1>7 DEF Submitted
  <2>2. \A a \in In(calls) : Own(a)' <=> Own(a)
    BY <2>1 DEF Own
  <2>3. \A a \in In(calls) : Own(a) => issued[a.command] # NoSession
    BY <2>1 DEF Own
  <2>4. \A d \in Commands : decided[d] = "ok" => issued[d] # NoSession
    BY DEF Submitted
  <2>. QED BY <1>2, <2>2, <2>3, <2>4 DEF Reached
<1>16. ASSUME NEW b \in Commands, NEW d \in Commands, Before(b, d)', issued[d] # NoSession
       PROVE  Before(b, d) /\ b # c
  <2>1. b < d /\ b \notin early'
    BY <1>16 DEF Before
  <2>2. issued[b] # NoSession /\ b # c /\ d # c
    BY <1>7, <1>16, <2>1 DEF Submitted
  <2>. QED BY <1>7, <1>16, <2>2 DEF Before
<1>17. Lined'
  <2>1. ASSUME NEW n \in Conns PROVE Sorted(links'[n].up)
    <3>1. CASE links'[n].up = links[n].up
      BY <3>1 DEF Lined
    <3>2. CASE Moves(links[n].up, links'[n].up, CommandPacket(c))
      <4>. SUFFICES ASSUME NEW y \in In(links[n].up), y.type = "command" PROVE y.command <= c
        BY <1>8, <3>2, SortedMoves DEF Lined
      <4>1. y.command \in Commands /\ issued[y.command] # NoSession
        BY DEF Submitted
      <4>2. ~(c < y.command)
        BY <1>2, <4>1 DEF Submitted
      <4>3. y.command \in Nat /\ c \in Nat
        BY <4>1, CommandNumbers
      <4>. QED BY <4>2, <4>3
    <3>. QED BY <1>9, <3>1, <3>2
  <2>2. ASSUME NEW b \in Commands, NEW d \in Commands, Before(b, d)', Reached(d)'
        PROVE  \A n \in Conns : gw'.bound[n] = issued'[b] =>
                 \A y \in In(links'[n].up) : ~(y.type = "command" /\ y.command = b)
    <3>1. Before(b, d) /\ Reached(d) /\ b # c
      BY <1>15, <1>16, <2>2
    <3>2. issued'[b] = issued[b] /\ gw' = gw
      BY <1>2, <1>7, <3>1
    <3>. QED BY <1>10, <3>1, <3>2 DEF Lined
  <2>3. ASSUME NEW b \in Commands, NEW d \in Commands, Before(b, d)', decided'[d] = "ok"
        PROVE  \A a \in In(calls') : Own(a)' => a.command # b
    <3>1. decided[d] = "ok" /\ issued[d] # NoSession
      BY <1>2, <2>3 DEF Submitted
    <3>2. Before(b, d)
      BY <1>16, <2>3, <3>1
    <3>. QED BY <1>2, <1>15, <3>1, <3>2 DEF Lined
  <2>4. InLine(calls)'
    <3>1. \A i \in 1..Len(calls) : calls[i] \in In(calls)
      BY DEF In
    <3>2. \A i \in 1..Len(calls) :
            Own(calls[i]) /\ calls[i].command \notin early' => calls[i].command \notin early
      BY <1>6
    <3>3. \A i \in 1..Len(calls) : Own(calls[i])' => Own(calls[i])
      <4>. SUFFICES ASSUME NEW i \in 1..Len(calls), Own(calls[i])' PROVE Own(calls[i])
        OBVIOUS
      <4>1. PICK a \in In(calls) : a = calls[i]
        BY <3>1
      <4>. QED BY <1>2, <1>15, <4>1 DEF Own
    <3>. QED BY <1>2, <3>2, <3>3 DEF InLine, Lined
  <2>. QED BY <2>1, <2>2, <2>3, <2>4 DEF Lined
<1>18. Founds'
  <2>1. ASSUME NEW t \in Sessions, NEW kind, Asked(page.conn, t, kind)', kind # "resume"
        PROVE  Unseen(t)'
    <3>1. Asked(k, t, kind)'
      BY <1>3, <1>4, <2>1 DEF Asked
    <3>2. Unseen(t)
      BY <1>4, <1>11, <2>1, <3>1, ConnNumbers DEF Founds
    <3>. QED BY <1>3, <1>5, <1>7, <3>2 DEF Unseen
  <2>2. ASSUME NEW t \in Sessions, Resumes(t)' PROVE Resumes(t)
    <3>1. CASE Asked(page.conn, t, "resume")'
      <4>1. Asked(k, t, "resume")'
        BY <1>3, <1>4, <3>1 DEF Asked
      <4>. QED BY <1>4, <1>11, <4>1, ConnNumbers DEF Resumes
    <3>2. ASSUME NEW y \in In(down'), y.type = "entered", y.kind = "resume", y.session = t PROVE Resumes(t)
      BY <1>2, <3>2 DEF Resumes
    <3>. QED BY <2>2, <3>1, <3>2 DEF Resumes
  <2>. QED BY <2>1, <2>2 DEF Founds
<1>19. InOrder
  BY <1>2 DEF InOrder
<1>. QED BY <1>13, <1>14, <1>17, <1>18, <1>19 DEF Order

\* A session is asked for that was not spoken of, so that no command is of its match.
LEMMA AskOrder ==
  ASSUME Sourced, IInv, Screen, Order, NEW s \in Sessions, Enter(s) \/ Found(s)
  PROVE  Order' /\ InOrder
<1>. /\ Standing /\ Submitted /\ LetIn /\ Lined /\ Founds /\ Wire /\ Unknown
     /\ DOMAIN page = Fields
  BY DEF Screen, Order, Sourced, IInv, Outbox
<1>1. PICK request : /\ request.session = s /\ request.kind # "resume"
                     /\ links' = SentUp(page.conn, EntryPacket(request))
                     /\ page' = Asking(page, request) \/ page' = [Asking(page, request) EXCEPT !.token = s]
  BY DEF Enter, Found
<1>2. /\ UNCHANGED <<down, gw, entries, calls, decided, issued, early>> /\ page.conn # 0
      /\ sessions[s] = "new"
  BY DEF Enter, Found, user, Suspended, Polled
<1>3. /\ page'.conn = page.conn /\ page'.shown = page.shown
      /\ page'.pending = page.pending /\ page'.timer = page.timer
  <2>. DEFINE p == Asking(page, request)
  <2>1. /\ DOMAIN p = Fields /\ p.conn = page.conn /\ p.shown = page.shown
        /\ p.pending = page.pending /\ p.timer = page.timer
    BY DEF Asking, Fields
  <2>2. page' = p \/ page' = [p EXCEPT !.token = s]
    BY <1>1
  <2>. HIDE DEF p
  <2>. QED BY <2>1, <2>2 DEF Fields
<1>4. Unseen(s)
  <2>. ~Mentioned(s)
    BY <1>2 DEF Unknown
  <2>. QED BY DEF Mentioned, Unseen
<1>5. PICK k \in Conns : page.conn = k
  BY <1>2 DEF Standing
<1>. DEFINE packet == EntryPacket(request)
<1>6. packet.type = "enter" /\ packet.session = s /\ packet.kind # "resume"
  BY <1>1 DEF EntryPacket
<1>7. links' = SentUp(k, packet)
  BY <1>1, <1>5
<1>. HIDE DEF packet
<1>8. \A n \in Conns :
        \/ links'[n].up = links[n].up
        \/ /\ n = k /\ Moves(links[n].up, links'[n].up, packet)
           /\ In(links'[n].up) = In(links[n].up) \cup {packet}
  <2>. SUFFICES ASSUME NEW n \in Conns, links'[n].up # links[n].up
                PROVE  /\ n = k /\ Moves(links[n].up, links'[n].up, packet)
                       /\ In(links'[n].up) = In(links[n].up) \cup {packet}
    OBVIOUS
  <2>1. IsSequence(links[n].up)
    BY DEF Wire, Speak
  <2>2. n = k /\ links'[n].up = Append(links[n].up, packet)
    BY <1>7, <2>1, LinksSent
  <2>. QED BY <2>1, <2>2, AppendMoves, ElementsOf
<1>9. \A n \in Conns : \A x \in In(links'[n].up) : x \in In(links[n].up) \/ x = packet
  BY <1>8
<1>10. \A n \in Conns : \A t, kind : Asked(n, t, kind)' => Asked(n, t, kind) \/ (t = s /\ kind # "resume")
  BY <1>2, <1>6, <1>9 DEF Asked
<1>11. \A n \in Conns : \A t : UnderWay(n, t)' => UnderWay(n, t) \/ t = s
  <2>. SUFFICES ASSUME NEW n \in Conns, NEW t, UnderWay(n, t)', t # s PROVE UnderWay(n, t)
    OBVIOUS
  <2>1. \/ \E x \in In(links'[n].up) : x.type = "enter" /\ x.session = t
        \/ \E e \in entries : e.conn = n /\ e.session = t
    BY <1>2 DEF UnderWay, In
  <2>. QED BY <1>6, <1>9, <2>1, UnderWayIs
<1>12. Submitted'
  BY <1>2, <1>3, <1>6, <1>9 DEF Submitted
<1>13. LetIn'
  <2>1. ASSUME NEW n \in Conns, NEW y \in In(links'[n].up), y.type = "command", y.command \notin early
        PROVE  ~UnderWay(n, issued[y.command])'
    <3>1. y \in In(links[n].up)
      BY <1>6, <1>9, <2>1
    <3>2. PICK c \in Commands : y.command = c
      BY <2>1, <3>1 DEF Submitted
    <3>3. PICK t : issued[c] = t /\ issued'[c] = t
      BY <1>2
    <3>4. ~UnderWay(n, t) /\ t # s
      BY <1>4, <2>1, <3>1, <3>2, <3>3 DEF LetIn, Unseen
    <3>5. ~UnderWay(n, t)'
      BY <1>11, <3>4
    <3>. QED BY <3>2, <3>3, <3>5 DEF UnderWay
  <2>2. ASSUME page.timer, page.pending \notin early PROVE ~UnderWay(page.conn, issued[page.pending])'
    <3>1. PICK c \in Commands : page.pending = c
      BY <2>2 DEF LetIn, IInv, Outbox
    <3>2. PICK t : issued[c] = t /\ issued'[c] = t
      BY <1>2
    <3>3. ~UnderWay(k, t) /\ t # s
      BY <1>4, <1>5, <2>2, <3>1, <3>2 DEF LetIn, Unseen
    <3>4. ~UnderWay(k, t)'
      BY <1>11, <3>3
    <3>5. page'.conn = k /\ issued'[page'.pending] = t
      BY <1>3, <1>5, <3>1, <3>2
    <3>. QED BY <3>4, <3>5 DEF UnderWay
  <2>3. page.timer => page.pending # NoCommand
    BY DEF LetIn
  <2>. QED BY <1>2, <1>3, <2>1, <2>2, <2>3 DEF LetIn
<1>14. Lined'
  <2>1. ASSUME NEW n \in Conns PROVE Sorted(links'[n].up)
    <3>. packet.type # "command" /\ Sorted(links[n].up)
      BY <1>6 DEF Lined
    <3>. QED BY <1>8, SortedMoves
  <2>2. ASSUME NEW b \in Commands, NEW c \in Commands, Before(b, c)', Reached(c)'
        PROVE  \A n \in Conns : gw'.bound[n] = issued'[b] =>
                 \A y \in In(links'[n].up) : ~(y.type = "command" /\ y.command = b)
    <3>1. Before(b, c) /\ Reached(c)
      BY <1>2, <2>2 DEF Before, Reached, Own
    <3>. QED BY <1>2, <1>6, <1>9, <3>1 DEF Lined
  <2>3. ASSUME NEW b \in Commands, NEW c \in Commands, Before(b, c)', decided'[c] = "ok"
        PROVE  \A d \in In(calls') : Own(d)' => d.command # b
    <3>1. Before(b, c)
      BY <1>2, <2>3 DEF Before
    <3>. QED BY <1>2, <2>3, <3>1 DEF Lined, Own
  <2>4. InLine(calls)'
    BY <1>2 DEF InLine, Own, Lined
  <2>. QED BY <2>1, <2>2, <2>3, <2>4 DEF Lined
<1>15. Founds'
  <2>1. ASSUME NEW t \in Sessions, NEW kind, Asked(page.conn, t, kind)', kind # "resume"
        PROVE  Unseen(t)'
    <3>1. Asked(k, t, kind)'
      BY <1>3, <1>5, <2>1 DEF Asked
    <3>2. Asked(k, t, kind) \/ t = s
      BY <1>10, <3>1
    <3>3. Unseen(t)
      BY <1>4, <1>5, <2>1, <3>2, ConnNumbers DEF Founds
    <3>. QED BY <1>2, <1>3, <3>3 DEF Unseen
  <2>2. ASSUME NEW t \in Sessions, Resumes(t)' PROVE Resumes(t)
    <3>1. CASE Asked(page.conn, t, "resume")'
      <4>1. Asked(k, t, "resume")'
        BY <1>3, <1>5, <3>1 DEF Asked
      <4>. QED BY <1>5, <1>10, <4>1, ConnNumbers DEF Resumes
    <3>2. ASSUME NEW y \in In(down'), y.type = "entered", y.kind = "resume", y.session = t PROVE Resumes(t)
      BY <1>2, <3>2 DEF Resumes
    <3>. QED BY <2>2, <3>1, <3>2 DEF Resumes
  <2>. QED BY <2>1, <2>2 DEF Founds
<1>16. InOrder
  BY <1>2 DEF InOrder
<1>. QED BY <1>12, <1>13, <1>14, <1>15, <1>16 DEF Order

\* On a new connection nothing was asked for.
LEMMA ConnectOrder ==
  ASSUME Sourced, IInv, Screen, Order, NEW n \in Conns, Connect(n)
  PROVE  Order' /\ InOrder
<1>. /\ Standing /\ Submitted /\ LetIn /\ Lined /\ Founds /\ Wire
     /\ DOMAIN page = Fields /\ page.pending \in Commands \cup {NoCommand} /\ NoCommand \notin Commands
  BY NotACommand DEF Screen, Order, Sourced, IInv, Outbox
<1>1. /\ UNCHANGED <<down, gw, entries, calls, decided, issued, early>> /\ page.conn = 0 /\ down = <<>>
      /\ ~links[n].used /\ ~page.timer
  BY DEF Connect, server, Standing
<1>. DEFINE up == [page EXCEPT !.conn = n]
            resume == [kind |-> "resume", session |-> page.token]
            packet == EntryPacket(resume)
<1>2. PICK q : /\ q = <<>> \/ q = <<packet>>
               /\ links' = [links EXCEPT ![n] = [open |-> TRUE, used |-> TRUE, up |-> q]]
  BY DEF Connect
<1>3. /\ page'.conn = n /\ page'.shown = page.shown /\ ~page'.timer
      /\ page'.pending \in {page.pending, NoCommand}
  <2>1. /\ DOMAIN up = Fields /\ up.conn = n /\ up.shown = page.shown
        /\ up.pending = page.pending /\ up.timer = page.timer
    BY DEF Fields
  <2>2. page' = [Cleared(up) EXCEPT !.busy = FALSE] \/ page' = Asking(up, resume)
    BY DEF Connect
  <2>. HIDE DEF up, resume
  <2>3. DOMAIN Cleared(up) = Fields /\ ~Cleared(up).timer
    BY <2>1, Forms, PageForms
  <2>. QED BY <1>1, <2>1, <2>2, <2>3, Forms, AskingForm, PageForms DEF Fields
<1>4. packet.type = "enter" /\ packet.session = page.token /\ packet.kind = "resume"
  BY DEF EntryPacket
<1>. HIDE DEF packet
<1>5. \A k \in Conns : links'[k].up = IF k = n THEN q ELSE links[k].up
  BY <1>2 DEF Wire
<1>6. In(q) \subseteq {packet} /\ Sorted(q)
  <2>1. CASE q = <<>>
    <3>. Len(q) = 0 /\ 1..0 = {}
      BY <2>1
    <3>. QED BY DEF In, Sorted
  <2>2. CASE q = <<packet>>
    <3>. Len(q) = 1 /\ 1..1 = {1} /\ q[1] = packet
      BY <2>2
    <3>. QED BY <2>2 DEF In, Sorted
  <2>. QED BY <1>2, <2>1, <2>2
<1>7. \A e \in entries : e.conn # n
  BY <1>1 DEF Standing
<1>8. \A k \in Conns : \A x \in In(links'[k].up) : x.type = "command" => k # n /\ x \in In(links[k].up)
  BY <1>4, <1>5, <1>6
<1>9. \A t, kind : Asked(n, t, kind)' => t = page.token /\ kind = "resume"
  BY <1>1, <1>4, <1>5, <1>6, <1>7 DEF Asked
<1>10. \A k \in Conns : \A t : k # n /\ UnderWay(k, t)' => UnderWay(k, t)
  <2>. SUFFICES ASSUME NEW k \in Conns, NEW t, UnderWay(k, t)', k # n PROVE UnderWay(k, t)
    OBVIOUS
  <2>1. \/ \E x \in In(links'[k].up) : x.type = "enter" /\ x.session = t
        \/ \E e \in entries : e.conn = k /\ e.session = t
    BY <1>1 DEF UnderWay, In
  <2>. QED BY <1>5, <2>1, UnderWayIs
<1>11. Submitted'
  <2>1. \A b, c \in Commands : b < c /\ issued[c] # NoSession => issued[b] # NoSession /\ page'.pending # b
    BY <1>3 DEF Submitted
  <2>. QED BY <1>1, <1>8, <2>1 DEF Submitted
<1>12. LetIn'
  <2>1. ASSUME NEW k \in Conns, NEW y \in In(links'[k].up), y.type = "command", y.command \notin early
        PROVE  ~UnderWay(k, issued[y.command])'
    <3>1. PICK t : issued[y.command] = t /\ issued'[y.command] = t
      BY <1>1
    <3>2. k # n /\ ~UnderWay(k, t)
      BY <1>8, <2>1, <3>1 DEF LetIn
    <3>3. ~UnderWay(k, t)'
      BY <1>10, <3>2
    <3>. QED BY <3>1, <3>3 DEF UnderWay
  <2>. QED BY <1>1, <1>3, <2>1 DEF LetIn
<1>13. Lined'
  <2>1. \A k \in Conns : Sorted(links'[k].up)
    BY <1>5, <1>6 DEF Lined
  <2>2. ASSUME NEW b \in Commands, NEW c \in Commands, Before(b, c)', Reached(c)'
        PROVE  \A k \in Conns : gw'.bound[k] = issued'[b] =>
                 \A y \in In(links'[k].up) : ~(y.type = "command" /\ y.command = b)
    <3>1. Before(b, c) /\ Reached(c)
      BY <1>1, <2>2 DEF Before, Reached, Own
    <3>. QED BY <1>1, <1>8, <3>1 DEF Lined
  <2>3. ASSUME NEW b \in Commands, NEW c \in Commands, Before(b, c)', decided'[c] = "ok"
        PROVE  \A d \in In(calls') : Own(d)' => d.command # b
    <3>1. Before(b, c)
      BY <1>1, <2>3 DEF Before
    <3>. QED BY <1>1, <2>3, <3>1 DEF Lined, Own
  <2>4. InLine(calls)'
    BY <1>1 DEF InLine, Own, Lined
  <2>. QED BY <2>1, <2>2, <2>3, <2>4 DEF Lined
<1>14. Founds'
  <2>1. ASSUME NEW t, NEW kind, Asked(page.conn, t, kind)' PROVE t = page.token /\ kind = "resume"
    <3>1. Asked(n, t, kind)'
      BY <1>3, <2>1 DEF Asked
    <3>. QED BY <1>9, <3>1
  <2>2. ASSUME NEW t \in Sessions, Resumes(t)' PROVE t = page.token
    <3>1. In(down') = {}
      BY <1>1, ElementsOf
    <3>. QED BY <2>1, <2>2, <3>1 DEF Resumes
  <2>. QED BY <2>1, <2>2 DEF Founds
<1>15. InOrder
  BY <1>1 DEF InOrder
<1>. QED BY <1>11, <1>12, <1>13, <1>14, <1>15 DEF Order

LEMMA OrderInitially == Init => Order
<1>. SUFFICES ASSUME Init PROVE Order
  OBVIOUS
<1>1. /\ In(down) = {} /\ In(calls) = {} /\ entries = {} /\ calls = <<>>
      /\ page.conn = 0 /\ ~page.timer
      /\ \A n \in Conns : links[n].up = <<>> /\ In(links[n].up) = {}
      /\ \A c \in Commands : issued[c] = NoSession /\ decided[c] # "ok"
  BY ElementsOf DEF Init, Fresh
<1>2. Len(<<>>) = 0 /\ 1..0 = {}
  OBVIOUS
<1>3. Submitted
  BY <1>1 DEF Init, Submitted
<1>4. LetIn
  BY <1>1 DEF LetIn
<1>5. Lined
  BY <1>1, <1>2 DEF Lined, Sorted, InLine, Reached
<1>6. Founds
  BY <1>1 DEF Founds, Resumes
<1>. QED BY <1>3, <1>4, <1>5, <1>6 DEF Order

\* The room accepts a command for its own match only, and only what is authorised next.
LEMMA DispatchDecides ==
  ASSUME IInv, Calling, NEW i \in Answerable, Dispatch(i)
  PROVE  \A c \in Commands : decided'[c] = "ok" => decided[c] = "ok" \/ Decides(c)
<1>. SUFFICES ASSUME NEW c \in Commands, decided'[c] = "ok", decided[c] # "ok" PROVE Decides(c)
  OBVIOUS
<1>1. i = 1 /\ calls # <<>>
  BY DEF Answerable
<1>2. PICK verdict \in Verdicts(calls[1].command, calls[1].session) :
        decided' = [decided EXCEPT ![calls[1].command] = IF verdict \in {"ok", "refused"} THEN verdict ELSE @]
  BY <1>1 DEF Dispatch
<1>3. calls[1].command = c /\ verdict = "ok"
  BY <1>2 DEF IInv, Outbox
<1>4. issued[c] = calls[1].session
  BY <1>2, <1>3 DEF Verdicts
<1>. QED BY <1>1, <1>3, <1>4 DEF Decides, Own, Dispatch

LEMMA OrderSteps ==
  ASSUME Sourced, IInv, Screen, Order, [Next]_vars
  PROVE  Order' /\ InOrder
<1>1. Sourced' /\ Calling
  BY Steps DEF Sourced
<1>. DEFINE Served == \E x, a : Serves(x, a)
            Same == decided' = decided
<1>2. ASSUME Served, \A c \in Commands : decided'[c] = "ok" => decided[c] = "ok" \/ Decides(c)
      PROVE  Order' /\ InOrder
  BY <1>2, OrderServed
<1>3. ASSUME NEW n \in Conns, Connect(n) PROVE Order' /\ InOrder
  BY <1>3, ConnectOrder
<1>4. ASSUME NEW n \in Conns, HearEntry(n) \/ HearCommand(n) \/ RefuseAtOnce(n) \/ ServerLoses(n)
      PROVE  Served /\ Same
  <2>1. Served
    BY <1>1, <1>4, HearEntryServes, HearCommandServes, RefuseAtOnceServes, LosesServes
  <2>2. Same
    BY <1>4 DEF HearEntry, HearCommand, RefuseAtOnce, ServerLoses
  <2>. QED BY <2>1, <2>2
<1>5. CASE LinkLost \/ Reload \/ Leave \/ RequestTimeout \/ CommandTimeout
  BY <1>5, LetGoOrder, TimeoutOrder
<1>6. CASE Receive
  BY <1>6, ReceiveOrder
<1>7. ASSUME NEW c \in Commands, Submit(c) PROVE Order' /\ InOrder
  BY <1>7, SubmitOrder
<1>8. ASSUME NEW s \in Sessions, Enter(s) \/ Found(s) PROVE Order' /\ InOrder
  BY <1>8, AskOrder
<1>9. ASSUME NEW s \in Sessions, Publish(s) \/ EndSession(s) \/ OtherPage(s) PROVE Served /\ Same
  <2>1. Served
    BY <1>1, <1>9, PublishServes, EndSessionServes, OtherPageServes
  <2>2. Same
    BY <1>9 DEF Publish, EndSession, OtherPage
  <2>. QED BY <2>1, <2>2
<1>10. ASSUME Restart PROVE Served /\ Same
  <2>1. Served
    BY <1>1, <1>10, RestartServes
  <2>2. Same
    BY <1>10 DEF Restart
  <2>. QED BY <2>1, <2>2
<1>11. ASSUME NEW e \in entries, Attach(e) \/ Refuse(e) PROVE Served /\ Same
  <2>1. Served
    BY <1>1, <1>11, AttachServes, RefuseServes
  <2>2. Same
    BY <1>11 DEF Attach, Refuse
  <2>. QED BY <2>1, <2>2
<1>12. ASSUME NEW i \in Answerable, AuthorizeCommand(i) \/ AuthorizePush(i) PROVE Order' /\ InOrder
  <2>1. CASE AuthorizePush(i)
    <3>1. Served
      BY <1>1, <2>1, AuthorizePushServes
    <3>2. Same
      BY <2>1 DEF AuthorizePush
    <3>. QED BY <1>2, <3>1, <3>2
  <2>2. CASE AuthorizeCommand(i)
    <3>1. Served
      BY <1>1, <2>2, DispatchServes, CommandExpiresServes DEF AuthorizeCommand
    <3>2. \A c \in Commands : decided'[c] = "ok" => decided[c] = "ok" \/ Decides(c)
      BY <1>1, <2>2, DispatchDecides DEF AuthorizeCommand
    <3>. QED BY <1>2, <3>1, <3>2
  <2>. QED BY <1>12, <2>1, <2>2
<1>13. CASE UNCHANGED vars
  <2>1. InOrder
    BY <1>13 DEF vars, InOrder
  <2>2. Submitted' /\ LetIn'
    BY <1>13 DEF vars, Order, Submitted, LetIn, UnderWay
  <2>3. Lined'
    BY <1>13 DEF vars, Order, Lined, Sorted, InLine, Before, Reached, Own
  <2>4. Founds'
    BY <1>13 DEF vars, Order, Founds, Resumes, Unseen, Asked
  <2>. QED BY <2>1, <2>2, <2>3, <2>4 DEF Order
<1>14. ASSUME Served, Same PROVE Order' /\ InOrder
  BY <1>2, <1>14
<1>. HIDE DEF Served, Same
<1>. QED BY <1>3, <1>4, <1>5, <1>6, <1>7, <1>8, <1>9, <1>10, <1>11, <1>12, <1>13, <1>14 DEF Next

-----------------------------------------------------------------------------
(* The theorems                                                            *)

(***************************************************************************)
(* command-outbox.ts, use-game-session.ts: for any number of commands,     *)
(* connections, sessions and attempts, a submitted command is pending or   *)
(* the page was told what became of it, and what it was told of the room's *)
(* decision is that decision.                                              *)
(***************************************************************************)
THEOREM NoCommandIsLost == Spec => []CommandIsAccountedFor
<1>1. IInv => CommandIsAccountedFor
  BY DEF IInv, Outbox
<1>. QED BY <1>1, Holds, PTL

(***************************************************************************)
(* use-game-session.ts: a page that is busy has a timer, a connection to   *)
(* make or a hang-up to read, each of which ends it: no answer, loss,      *)
(* takeover or restart leaves it blocked with nothing to come.             *)
(***************************************************************************)
THEOREM WaitingIsOwed == Spec => []BusyIsOwed
<1>1. IInv => BusyIsOwed
  BY DEF IInv, Owed
<1>. QED BY <1>1, Holds, PTL

(***************************************************************************)
(* use-game-session.ts takes every view it is sent; that none is older     *)
(* than the one on the screen is the doing of the connection, of the       *)
(* authorisations that are answered in order, and of the answer to an      *)
(* entry coming before any view: for any number of connections, sessions   *)
(* and moves, in every order of losses, takeovers, restarts and answers.   *)
(***************************************************************************)
THEOREM ScreenMovesForward == Spec => ScreenNeverGoesBack
<1>1. Sourced /\ IInv /\ Screen /\ [Next]_vars => [ScreenMovesOn]_vars
  BY ScreenSteps
<1>2. Spec => [](Sourced /\ IInv /\ Screen)
  BY ScreenHolds
<1>. QED BY <1>1, <1>2, PTL DEF Spec, ScreenNeverGoesBack

(***************************************************************************)
(* The room and its sequence numbers know nothing of the order in which a  *)
(* page submitted its commands.  That none is accepted after a later one   *)
(* of the same match follows from one being pending at a time, the order   *)
(* on each connection, the first authorisation being answered first, and a *)
(* connection being bound to one session only while it is the session's    *)
(* own: for any number of commands, connections and sessions, but for      *)
(* commands given on a connection that was still to be let in.             *)
(***************************************************************************)
THEOREM CommandsStayInOrder == Spec => CommandsInOrder
<1>1. Init => Sourced /\ IInv /\ Screen /\ Order
  BY Initially, SourcedInitially, ScreenInitially, OrderInitially
<1>2. Sourced /\ IInv /\ Screen /\ Order /\ [Next]_vars => Sourced' /\ IInv' /\ Screen' /\ Order'
  BY Steps, ScreenSteps, OrderSteps
<1>3. Sourced /\ IInv /\ Screen /\ Order /\ [Next]_vars => [InOrder]_vars
  BY OrderSteps
<1>. QED BY <1>1, <1>2, <1>3, PTL DEF Spec, CommandsInOrder
================================================================================
