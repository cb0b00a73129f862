---------------------------- MODULE ClientDelivery ----------------------------
(***************************************************************************)
(* One browser page and the server it talks to: the page's outbox and      *)
(* session hook (src/client), the connections it makes one after another,  *)
(* and the gateway's side of them.  A connection carries packets in order  *)
(* both ways; either end may find it lost before the other, and what was   *)
(* not delivered by then is gone.  The page may be reloaded, taken over by *)
(* another page and refused; the server may restart.                       *)
(*                                                                         *)
(* Abstractions: a session stands for the seat it speaks for and for its   *)
(* match, so that a command is written for a session; the room decides a   *)
(* new command as it likes and keeps the receipt (RoomRuntime); an         *)
(* admission may end in any order (Admission).  The session store answers  *)
(* in the order it is asked, as repository/sqlite-persistence.ts does.     *)
(***************************************************************************)
EXTENDS Naturals, Sequences, SequencesExt

CONSTANTS
  Sessions, NoSession,
  Matched,        \* the sessions that matchmaking hands out; the others are entered for
  MaxCommands,    \* bound: commands of the page, numbered as it submits them
  MaxAttempts,    \* maxAttempts of the outbox
  MaxConns,       \* bound: connections of the page
  MaxRevision     \* bound: revisions of a room up to which others move in it

ASSUME DeliveryAssumption ==
  /\ MaxCommands \in Nat /\ MaxAttempts \in Nat \ {0}
  /\ MaxConns \in Nat /\ MaxRevision \in Nat
  /\ NoSession \notin Sessions /\ Matched \subseteq Sessions

VARIABLES
  page,       \* the page: its storage, its outbox and what it shows
  links,      \* of each connection: whether the server holds it, and what it will still read
  down,       \* the packets on their way to the page, on the connection that it has
  gw,         \* the gateway: the session of each connection, and the connection of each session
  entries,    \* admissions under way
  calls,      \* authorisations the session store still owes, in the order they were asked
  sessions,   \* of each session: handed out, and in force
  rooms,      \* of each session's room: its revision
  decided,    \* of each command: what the room has decided, its receipt
  issued,     \* of each command: the session it was written for
  early,      \* commands submitted over a connection that was still being let in
  told        \* of each command: what the page was told in the end

vars == <<page, links, down, gw, entries, calls, sessions, rooms, decided, issued, early,
          told>>

server == <<gw, entries, calls, sessions, rooms, decided>>
user == <<issued, early, told>>

Conns == 1..MaxConns
Commands == 1..MaxCommands
NoCommand == 0
NoView == [session |-> NoSession, revision |-> 0]
NoRequest == [kind |-> "none", session |-> NoSession]

-----------------------------------------------------------------------------
(* The wire                                                                *)

\* A packet on a connection that the server has closed goes nowhere.
SentUp(n, packet) ==
  [links EXCEPT ![n].up = IF links[n].open THEN Append(@, packet) ELSE @]

\* What the server emits on connection n reaches the page while that is the page's.
Emitted(n, packets) ==
  IF page.conn = n /\ links[n].open THEN down \o packets ELSE down

Closed(n) == [links EXCEPT ![n] = [open |-> FALSE, used |-> TRUE, up |-> <<>>]]

-----------------------------------------------------------------------------
(* The outbox                                                              *)

Paused(p) == [p EXCEPT !.timer = FALSE]

Cleared(p) == [p EXCEPT !.timer = FALSE, !.pending = NoCommand, !.attempts = 0]

\* The next attempt of the pending command: the timer is set and the packet sent.
Attempt(p) == [p EXCEPT !.attempts = @ + 1, !.timer = TRUE]

CommandPacket(c) == [type |-> "command", command |-> c]

\* The command that clear() gives up, if one is pending.
GivenUp == IF page.pending = NoCommand THEN told ELSE [told EXCEPT ![page.pending] = "given up"]

-----------------------------------------------------------------------------
(* The page                                                                *)

Fresh(token, pending) ==
  [conn |-> 0, dialing |-> TRUE, token |-> token, pending |-> pending, attempts |-> 0,
   timer |-> FALSE, request |-> NoRequest, busy |-> pending # NoCommand, shown |-> NoView]

(***************************************************************************)
(* The disconnect handler; the socket then fails the request it still owes *)
(* an answer, whose callback ends the entering.                            *)
(***************************************************************************)
Disconnected(p) ==
  [Paused(p) EXCEPT !.conn = 0, !.request = NoRequest,
                    !.busy = p.pending # NoCommand /\ p.request = NoRequest]

\* Leaving the session behind: the token goes, and the outbox with it.
Forgotten(p) == [Cleared(p) EXCEPT !.token = NoSession, !.shown = NoView]

Init ==
  /\ page = Fresh(NoSession, NoCommand)
  /\ links = [n \in Conns |-> [open |-> FALSE, used |-> FALSE, up |-> <<>>]]
  /\ down = <<>>
  /\ gw = [bound |-> [n \in Conns |-> NoSession], active |-> [s \in Sessions |-> 0]]
  /\ entries = {}
  /\ calls = <<>>
  /\ sessions = [s \in Sessions |-> "new"]
  /\ rooms = [s \in Sessions |-> 0]
  /\ decided = [c \in Commands |-> "none"]
  /\ issued = [c \in Commands |-> NoSession]
  /\ early = {}
  /\ told = [c \in Commands |-> "none"]

EntryPacket(request) == [type |-> "enter", kind |-> request.kind, session |-> request.session]

\* The page asks to be let in and waits.
Asking(p, request) == [p EXCEPT !.request = request, !.busy = TRUE]

\* The connect handler: a stored session is resumed, else there is nothing to confirm.
Connect(n) ==
  /\ page.conn = 0 /\ page.dialing
  /\ ~links[n].used /\ \A k \in Conns : k < n => links[k].used
  /\ LET up == [page EXCEPT !.conn = n]
         resume == [kind |-> "resume", session |-> page.token]
     IN IF page.token = NoSession
        THEN /\ page' = [Cleared(up) EXCEPT !.busy = FALSE]
             /\ links' = [links EXCEPT ![n] = [open |-> TRUE, used |-> TRUE, up |-> <<>>]]
             /\ told' = GivenUp
        ELSE /\ page' = Asking(up, resume)
             /\ links' = [links EXCEPT ![n] = [open |-> TRUE, used |-> TRUE,
                                               up |-> <<EntryPacket(resume)>>]]
             /\ told' = told
  /\ UNCHANGED <<down, server, issued, early>>

\* The page loses its connection and will make another one.
LinkLost ==
  /\ page.conn \in 1..(MaxConns - 1)
  /\ page' = Disconnected(page)
  /\ down' = <<>>
  /\ UNCHANGED <<links, server, user>>

\* The page is loaded anew, from what the tab has stored.
Reload ==
  /\ \E n \in Conns : ~links[n].used
  /\ page' = Fresh(page.token, page.pending)
  /\ down' = <<>>
  /\ UNCHANGED <<links, server, user>>

\* leave(), and the way to a rematch: the connection is made anew without a session.
Leave ==
  /\ page.conn \in 1..(MaxConns - 1) /\ page.shown # NoView
  /\ page' = [Disconnected(Forgotten(page)) EXCEPT !.dialing = TRUE]
  /\ down' = <<>>
  /\ told' = GivenUp
  /\ UNCHANGED <<links, server, issued, early>>

\* Nothing else may be asked for while the page is in a room, waits or has no connection.
Suspended(p) == p.conn = 0 \/ p.busy \/ p.shown # NoView

\* create and join; the session stands for the request's id, too.
Enter(s) ==
  /\ ~Suspended(page) /\ page.request = NoRequest
  /\ s \notin Matched /\ sessions[s] = "new"
  /\ LET request == [kind |-> "enter", session |-> s]
     IN page' = Asking(page, request) /\ links' = SentUp(page.conn, EntryPacket(request))
  /\ sessions' = [sessions EXCEPT ![s] = "live"]
  /\ UNCHANGED <<down, gw, entries, calls, rooms, decided, user>>

\* A poll is asked while nothing is suspended, and its answer is heard only if nothing is by then.
Polled(s) == s \in Matched /\ sessions[s] = "new" /\ ~Suspended(page)

\* It brings the place that matchmaking has found: that is stored at once, then resumed.
Found(s) ==
  /\ Polled(s) /\ page.request = NoRequest
  /\ LET request == [kind |-> "matched", session |-> s]
     IN /\ page' = [Asking(page, request) EXCEPT !.token = s]
        /\ links' = SentUp(page.conn, EntryPacket(request))
  /\ sessions' = [sessions EXCEPT ![s] = "live"]
  /\ UNCHANGED <<down, gw, entries, calls, rooms, decided, user>>

\* Ten seconds without an answer.
RequestTimeout ==
  /\ page.request # NoRequest
  /\ page' = [page EXCEPT !.request = NoRequest, !.busy = FALSE]
  /\ UNCHANGED <<links, down, server, user>>

\* What the page has asked on connection n for session s has not been answered yet.
UnderWay(n, s) ==
  \/ \E i \in 1..Len(links[n].up) : links[n].up[i].type = "enter" /\ links[n].up[i].session = s
  \/ \E e \in entries : e.conn = n /\ e.session = s

MayAct == page.conn # 0 /\ page.shown # NoView /\ ~page.busy

\* The user acts on what is shown, also when it is shown from before and the page has given up
\* waiting to be let in again; the outbox takes one command at a time.
Submit(c) ==
  /\ MayAct /\ page.pending = NoCommand
  /\ issued[c] = NoSession /\ \A b \in Commands : b < c => issued[b] # NoSession
  /\ page' = Attempt([page EXCEPT !.pending = c, !.attempts = 0, !.busy = TRUE])
  /\ links' = SentUp(page.conn, CommandPacket(c))
  /\ issued' = [issued EXCEPT ![c] = page.shown.session]
  /\ early' = IF UnderWay(page.conn, page.shown.session) THEN early \cup {c} ELSE early
  /\ UNCHANGED <<down, server, told>>

\* Mutant: when the attempts are used up the page goes on waiting.
CommandTimeoutSilent ==
  /\ page.timer
  /\ IF page.attempts < MaxAttempts
     THEN page' = Attempt(page) /\ links' = SentUp(page.conn, CommandPacket(page.pending))
     ELSE page' = Paused(page) /\ links' = links
  /\ UNCHANGED <<down, server, user>>

\* Five seconds without an answer: once more, or the outcome is uncertain.
CommandTimeout ==
  /\ page.timer
  /\ IF page.attempts < MaxAttempts
     THEN page' = Attempt(page) /\ links' = SentUp(page.conn, CommandPacket(page.pending))
     ELSE page' = [Paused(page) EXCEPT !.busy = FALSE] /\ links' = links
  /\ UNCHANGED <<down, server, user>>

-----------------------------------------------------------------------------
(* What the page receives                                                  *)

Received == Head(down)

\* The answer to the request the page still waits for; later ones are dropped.
EntryAnswered ==
  /\ Received.type = "entered"
  /\ LET p == [page EXCEPT !.request = NoRequest, !.busy = FALSE]
         s == Received.session
         in == [p EXCEPT !.shown = [session |-> s, revision |-> Received.revision]]
     IN \/ /\ page.request # [kind |-> Received.kind, session |-> s]
           /\ UNCHANGED <<page, links, told>>
        \/ /\ page.request = [kind |-> Received.kind, session |-> s] /\ Received.ok
           /\ IF Received.kind = "resume"
              THEN IF page.pending # NoCommand
                   THEN /\ page' = Attempt([in EXCEPT !.busy = TRUE, !.attempts = 0])
                        /\ links' = SentUp(page.conn, CommandPacket(page.pending))
                   ELSE page' = in /\ links' = links
              ELSE page' = [in EXCEPT !.token = s] /\ links' = links
           /\ told' = told
        \/ /\ page.request = [kind |-> Received.kind, session |-> s] /\ ~Received.ok
           /\ page' = IF Received.kind = "resume" THEN Forgotten(p) ELSE p
           /\ told' = IF Received.kind = "resume" THEN GivenUp ELSE told
           /\ links' = links

\* Mutant: any answer is taken for the pending command's.
CommandAnsweredAny ==
  /\ Received.type = "answer"
  /\ IF page.pending # NoCommand
     THEN /\ page' = [Cleared(page) EXCEPT !.busy = FALSE]
          /\ told' = [told EXCEPT ![page.pending] = Received.result]
     ELSE page' = page /\ told' = told
  /\ links' = links

\* The first answer to the pending command settles it; another one is of no interest.
CommandAnswered ==
  /\ Received.type = "answer"
  /\ IF page.pending = Received.command
     THEN /\ page' = [Cleared(page) EXCEPT !.busy = FALSE]
          /\ told' = [told EXCEPT ![page.pending] = Received.result]
     ELSE page' = page /\ told' = told
  /\ links' = links

ViewShown ==
  /\ Received.type = "state"
  /\ page' = [page EXCEPT !.shown = [session |-> Received.session,
                                     revision |-> Received.revision]]
  /\ UNCHANGED <<links, told>>

\* Another page has the session, or it has ended.
SessionGone ==
  /\ Received.type \in {"replaced", "expired"}
  /\ page' = [Forgotten(page) EXCEPT !.busy = @ /\ Received.type = "replaced"]
  /\ told' = GivenUp /\ links' = links

\* A connection that the server has ended is not made again by itself.
ServerHangsUp ==
  /\ Received.type = "bye"
  /\ page' = [Disconnected(page) EXCEPT !.dialing = FALSE]
  /\ UNCHANGED <<links, told>>

Receive ==
  /\ down # <<>>
  /\ down' = IF Received.type = "bye" THEN <<>> ELSE Tail(down)
  /\ EntryAnswered \/ CommandAnswered \/ ViewShown \/ SessionGone \/ ServerHangsUp
  /\ UNCHANGED <<server, issued, early>>

-----------------------------------------------------------------------------
(* The gateway                                                             *)

EntryAnswer(e, ok) ==
  [type |-> "entered", kind |-> e.kind, session |-> e.session, ok |-> ok,
   revision |-> rooms[e.session]]

Answer(c, result) == [type |-> "answer", command |-> c, result |-> result]

Detached(g, n) ==
  [bound |-> [g.bound EXCEPT ![n] = NoSession],
   active |-> [s \in Sessions |-> IF g.active[s] = n THEN 0 ELSE g.active[s]]]

Push(n, s, revision) ==
  [type |-> "push", conn |-> n, session |-> s, command |-> NoCommand,
   revision |-> revision, live |-> sessions[s] = "live"]

\* create, join and resume wait for the admission.
HearEntry(n) ==
  /\ links[n].up # <<>> /\ Head(links[n].up).type = "enter"
  /\ LET e == [conn |-> n, kind |-> Head(links[n].up).kind, session |-> Head(links[n].up).session]
         read == [links EXCEPT ![n].up = Tail(@)]
     IN links' = read /\ entries' = entries \cup {e}
  /\ UNCHANGED <<page, down, gw, calls, sessions, rooms, decided, user>>

\* A command's session is authorised first.
HearCommand(n) ==
  /\ links[n].up # <<>> /\ Head(links[n].up).type = "command"
  /\ gw.bound[n] # NoSession
  /\ links' = [links EXCEPT ![n].up = Tail(@)]
  /\ calls' = Append(calls, [type |-> "command", conn |-> n, session |-> gw.bound[n],
                             command |-> Head(links[n].up).command, revision |-> 0,
                             live |-> sessions[gw.bound[n]] = "live"])
  /\ UNCHANGED <<page, down, gw, entries, sessions, rooms, decided, user>>

\* What is malformed, too much for the rate limit or not for this connection is refused at once.
RefuseAtOnce(n) ==
  /\ links[n].up # <<>>
  /\ links' = [links EXCEPT ![n].up = Tail(@)]
  /\ LET packet == Head(links[n].up)
     IN down' = Emitted(n, <<IF packet.type = "command" THEN Answer(packet.command, "failed")
                             ELSE EntryAnswer(packet, FALSE)>>)
  /\ UNCHANGED <<page, gw, entries, calls, sessions, rooms, decided, user>>

Replaced == <<[type |-> "replaced"], [type |-> "bye"]>>

\* The admission is through: the connection that spoke for the session so far is told and ended,
\* this one becomes the session's, and its first view is pushed.
Attach(e) ==
  /\ e \in entries /\ links[e.conn].open /\ sessions[e.session] = "live"
  /\ entries' = entries \ {e}
  /\ LET n == e.conn
         s == e.session
         k == IF gw.active[s] = n THEN 0 ELSE gw.active[s]
         g == Detached(IF k = 0 THEN gw ELSE Detached(gw, k), n)
     IN /\ links' = IF k = 0 THEN links ELSE Closed(k)
        /\ gw' = [bound |-> [g.bound EXCEPT ![n] = s], active |-> [g.active EXCEPT ![s] = n]]
        /\ down' = IF k # 0 /\ page.conn = k THEN Emitted(k, Replaced)
                   ELSE Emitted(n, <<EntryAnswer(e, TRUE)>>)
        /\ calls' = Append(calls, Push(n, s, rooms[s]))
  /\ UNCHANGED <<page, sessions, rooms, decided, user>>

\* The session is not in force, the room not available, or the page gone meanwhile.
Refuse(e) ==
  /\ e \in entries
  /\ entries' = entries \ {e}
  /\ down' = Emitted(e.conn, <<EntryAnswer(e, FALSE)>>)
  /\ UNCHANGED <<page, links, gw, calls, sessions, rooms, decided, user>>

\* expire(): whatever the connection speaks for by now.
Expire(n, packets) ==
  /\ gw' = IF links[n].open THEN Detached(gw, n) ELSE gw
  /\ down' = Emitted(n, packets \o <<[type |-> "expired"], [type |-> "bye"]>>)
  /\ links' = Closed(n)

\* Mutant: the session store answers in any order.
AnswerableAny == 1..Len(calls)

\* The authorisations that may be answered next: the one that was asked first.
Answerable == IF calls = <<>> THEN {} ELSE {1}

\* Views for everybody who is in the room, each behind an authorisation of its own.
Pushes(s) == IF gw.active[s] = 0 THEN <<>> ELSE <<Push(gw.active[s], s, rooms[s] + 1)>>

Without(i) == RemoveAt(calls, i)

(***************************************************************************)
(* What the room may say of a command: a repeated one gets its receipt,    *)
(* one written for another match is refused, a new one is decided.  A room *)
(* that has closed or cannot save decides nothing.                         *)
(***************************************************************************)
Verdicts(c, s) ==
  {"failed"} \cup (IF issued[c] # s THEN {"wrong match"}
                  ELSE IF decided[c] = "none" THEN {"ok", "refused"} ELSE {decided[c]})

\* An accepted command moves the room; everybody in it gets a view.
Dispatch(i) ==
  /\ calls[i].type = "command"
  /\ LET c == calls[i].command
         s == calls[i].session
     IN \E verdict \in Verdicts(c, s) :
          LET moves == verdict = "ok" /\ decided[c] = "none"
          IN /\ down' = Emitted(calls[i].conn, <<Answer(c, verdict)>>)
             /\ decided' = [decided EXCEPT ![c] = IF verdict \in {"ok", "refused"} THEN verdict ELSE @]
             /\ rooms' = [rooms EXCEPT ![s] = IF moves THEN @ + 1 ELSE @]
             /\ calls' = Without(i) \o (IF moves THEN Pushes(s) ELSE <<>>)
  /\ UNCHANGED <<page, links, gw, entries, sessions, user>>

\* The authorisation of a command whose session is in force, or of one that has ended.
AuthorizeCommand(i) ==
  \/ calls[i].live /\ Dispatch(i)
  \/ /\ ~calls[i].live /\ calls[i].type = "command"
     /\ Expire(calls[i].conn, <<Answer(calls[i].command, "failed")>>)
     /\ calls' = Without(i)
     /\ UNCHANGED <<page, entries, sessions, rooms, decided, user>>

AuthorizePush(i) ==
  /\ calls[i].type = "push"
  /\ calls' = Without(i)
  /\ LET n == calls[i].conn
         view == [type |-> "state", session |-> calls[i].session, revision |-> calls[i].revision]
     IN \/ /\ gw.bound[n] # calls[i].session
           /\ UNCHANGED <<gw, links, down>>
        \/ /\ gw.bound[n] = calls[i].session /\ calls[i].live
           /\ down' = Emitted(n, <<view>>) /\ UNCHANGED <<gw, links>>
        \/ /\ gw.bound[n] = calls[i].session /\ ~calls[i].live
           /\ Expire(n, <<>>)
  /\ UNCHANGED <<page, entries, sessions, rooms, decided, user>>

\* The server finds a connection lost.
ServerLoses(n) ==
  /\ links[n].open /\ page.conn # n
  /\ links' = Closed(n)
  /\ gw' = Detached(gw, n)
  /\ UNCHANGED <<page, down, entries, calls, sessions, rooms, decided, user>>

-----------------------------------------------------------------------------
(* Around the two                                                          *)

\* Somebody else moves in the room.
Publish(s) ==
  /\ rooms[s] < MaxRevision /\ sessions[s] # "new"
  /\ rooms' = [rooms EXCEPT ![s] = @ + 1]
  /\ calls' = calls \o Pushes(s)
  /\ UNCHANGED <<page, links, down, gw, entries, sessions, decided, user>>

EndSession(s) ==
  /\ sessions[s] = "live"
  /\ sessions' = [sessions EXCEPT ![s] = "ended"]
  /\ UNCHANGED <<page, links, down, gw, entries, calls, rooms, decided, user>>

\* A copy of the tab resumes the session.
OtherPage(s) ==
  /\ gw.active[s] # 0
  /\ down' = Emitted(gw.active[s], Replaced)
  /\ links' = Closed(gw.active[s])
  /\ gw' = Detached(gw, gw.active[s])
  /\ UNCHANGED <<page, entries, calls, sessions, rooms, decided, user>>

\* The server process dies and starts again; the page will find out.
Restart ==
  /\ page.conn < MaxConns /\ \E n \in Conns : links[n].open
  /\ links' = [n \in Conns |-> [links[n] EXCEPT !.open = FALSE, !.up = <<>>]]
  /\ gw' = [bound |-> [n \in Conns |-> NoSession], active |-> [s \in Sessions |-> 0]]
  /\ entries' = {} /\ calls' = <<>>
  /\ UNCHANGED <<page, down, sessions, rooms, decided, user>>

Next ==
  \/ \E n \in Conns : Connect(n) \/ HearEntry(n) \/ HearCommand(n)
                       \/ RefuseAtOnce(n) \/ ServerLoses(n)
  \/ LinkLost \/ Reload \/ Leave \/ RequestTimeout \/ CommandTimeout \/ Receive \/ Restart
  \/ \E c \in Commands : Submit(c)
  \/ \E s \in Sessions : Enter(s) \/ Found(s) \/ Publish(s) \/ EndSession(s) \/ OtherPage(s)
  \/ \E e \in entries : Attach(e) \/ Refuse(e)
  \/ \E i \in Answerable : AuthorizeCommand(i) \/ AuthorizePush(i)

Spec == Init /\ [][Next]_vars

\* Timers fire, packets that have arrived are handled, and a lost connection is made again.
FairSpec ==
  /\ Spec
  /\ WF_vars(CommandTimeout) /\ WF_vars(RequestTimeout)
  /\ WF_vars(Receive)
  /\ WF_vars(\E n \in Conns : Connect(n))

-----------------------------------------------------------------------------
(* Properties                                                              *)

(***************************************************************************)
(* docs/architecture/command-retry.md: a command that was submitted stays  *)
(* in the outbox over timeouts, reconnections and reloads until it is      *)
(* answered or given up with its session, and an acceptance or a refusal   *)
(* that the page is told is the room's own decision on that very command.  *)
(***************************************************************************)
CommandIsAccountedFor ==
  \A c \in Commands :
    /\ issued[c] # NoSession => page.pending = c \/ told[c] # "none"
    /\ page.pending = c => told[c] = "none"
    /\ told[c] \in {"ok", "refused"} => decided[c] = told[c]

(***************************************************************************)
(* The room never accepts a command after one that the same seat submitted *)
(* later, though commands are authorised side by side, sent again, and     *)
(* left behind on connections that the page has given up.  The exception   *)
(* are commands that the user gave before the connection was let in: such  *)
(* a connection may be let in, and the command heard, after all later ones.*)
(***************************************************************************)
InOrder ==
  \A b, c \in Commands :
    b < c /\ b \notin early /\ issued[b] = issued[c] /\ decided[c] = "ok" /\ decided[b] # "ok"
      => decided'[b] # "ok"

CommandsInOrder == [][InOrder]_vars

(***************************************************************************)
(* A view replaces the one on screen without a look at its revision, and   *)
(* still the screen never goes back within a match.                        *)
(***************************************************************************)
ScreenMovesOn ==
  page.shown # NoView /\ page'.shown.session = page.shown.session
    => page'.shown.revision >= page.shown.revision

ScreenNeverGoesBack == [][ScreenMovesOn]_vars

(***************************************************************************)
(* While the page is busy something is under way that will end it: a timer *)
(* of a request or a command, a connection to be made, or the end of one.  *)
(***************************************************************************)
BusyIsOwed ==
  page.busy => \/ page.request # NoRequest \/ page.timer
               \/ page.conn = 0 /\ page.dialing
               \/ \E i \in 1..Len(down) : down[i].type = "bye"

(***************************************************************************)
(* Whatever is lost, refused or taken over, the page does not stay blocked *)
(* behind a request or a command.                                          *)
(***************************************************************************)
BusyEnds == page.busy ~> ~page.busy
=============================================================================
