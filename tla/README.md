# Verification of the Human-Touch Roundtable server

TLA+ models of the game server in `src/`, the TLC runs that check them on small
instances, and proofs checked by TLAPS. The game is a social-deduction match:
players fill a table, a topic is found, seats are drawn (humans, shadows who
play an AI, AI seats), three rounds of answers are given, every seat accuses
another in a debate with three steps a turn, all vote, and the result is
revealed. The server has to keep the match going whatever its players,
its store, its providers and its own process do.

Paths below are relative to `src/src/`.

## The system

| part | state it keeps | operations | talks to |
|---|---|---|---|
| game core `game/`, `contracts/rules.ts` | none: pure functions on a `GameState` | `createGame`, `transition`, `advanceTime`, `settle`, `project` | called by the runtime |
| room runtime `application/room-runtime.ts` | the record it last saved, a queue of jobs, wake timer, tasks, AI attempts, subscribers | `open`, `dispatch`, `sync`, `subscribe`, `close`, `closeIfLobby`; wake, task and retry timers | core, store, topic and AI providers |
| persistence `repository/` | one row per room with a version, sessions | `load`, `save` (compare and swap on the version), `list`, `delete`; validation of what is loaded | runtime, registry, sessions |
| room registry `server/room-registry.ts` | map of runtimes, set of rooms being deleted | `initialize`, `create`, `get`, `delete`, `deleteLobby`, `cleanupExpired`, `close` | store, runtimes |
| sessions, admission `server/session.ts`, `admission-service.ts` | session records | `issue`, `verify`, `authorize`, `revoke`; `create`, `join`, `resume` | registry, runtime, session store |
| socket gateway `server/socket-gateway.ts` | connections, active socket per session, quotas | attach, detach, commands, sync | admission, runtime, clients |
| client `client/` | outbox with one pending command, the view on screen | submit, retry, acknowledge, resume | gateway |
| matchmaking `server/matchmaking.ts` | tickets | join, poll, cancel, sweep | admission, registry |
| rate limits `server/rate-limit.ts` | buckets, connection counts | `allow`, `acquire`, `release` | gateway |
| topics `topics/` | caches, in-flight requests, candidate lists | `resolve`, refresh | runtime, HTTP |
| AI gateway `ai/` | none between calls | attempts with fallback and timeout | runtime, HTTP |
| login `server/zhihu-oauth.ts` | OAuth states, login sessions | `start`, `finish`, `identify` | browser, provider |
| the rest | wiring, health, admin, content filter, metrics, UI | | |

**How they interact.** A command goes client → gateway → `RoomRuntime.dispatch`
→ `transition` → `RoomStore.save` → acknowledgement and views. A runtime runs
one job at a time; while a job awaits its save, everything outside the queue
(subscriptions, provider answers, timers, a second runtime on the same store,
the death of the process) goes on. All time is passive: `advanceTime` is called
by every command, by `sync`, by the wake timer and when a room is opened, and
replays the deadlines that have passed.

**What is hard.** Deadlines that are replayed late; windows told apart by a
token; a save that fails, loses or is followed by a crash; a command sent again;
results of providers that arrive after their window; timers that have to be
there when nobody is connected; a stored record that has to be loadable; a room
that is deleted while somebody is on the way to it; a command that is repeated
over reconnections; a lock that outlives its holder. The list with source lines is
`hazards` in `PROJECT.json`, each with the properties that are about it.

**What makes each part correct.** Core: windows only move forward, nothing said
is lost or replaced, no phase is stretched or cut short, the result is the one
the rules define, every state can be stored and loaded, and a view tells nothing
of who is who. Runtime: what is acknowledged or shown is stored, a command is
decided once, every stored state is the outcome of a call of the rules on the
state stored before, and a match goes on by itself. Registry and matchmaking: at
most one live runtime a room, a started match is not deleted, nobody sits where
his ticket does not say. Admission: a session belongs to a participant that
joined. Gateway: one connection per session, no view after its end. Client: a
command is pending until it is decided, and the page does not stay blocked.
Topics: a candidate is asked for once, and every request comes to an end.

## Modules

| module | models |
|---|---|
| `GameRules` | the core as operators: `GameState`, `AdvanceTime`, `Transition`, `Settle`, `Offered`, `AssignSeats`, `ValidState` |
| `Game` | one match as a state machine over `GameRules`: what the room promises |
| `RoomRuntime` | the runtime objects, the store and the callers; refines `Game` |
| `SocketGateway` | the sockets in front of one room: connections, takeover, subscriptions, expiry, quota |
| `Admission` | sessions and the two-step admission to one room: issue, join, revoke, authorize, clean up |
| `ClientDelivery` | one page with its outbox and session hook, its connections, and the gateway's side of them |
| `PublicLobby` | the registry of rooms and the matchmaking queue that fills some of them |
| `Topics` | the topic sources, the cache with its file lock, the platform client, the refresh task, and the rooms that ask |
| `MCGame`, `MCRoom`, `MCGateway`, `MCAdmission`, `MCDelivery`, `MCLobby`, `MCTopics` | instances for TLC |
| `GameRulesProofs`, `GameProofs` | lemmas about iterating a function, for the deadline loop, and about the operators; the theorems of `Game` |
| `RoomProofs` | the theorems of `RoomRuntime` |
| `GatewayProofs` | the theorems of `SocketGateway` |
| `AdmissionProofs` | the theorems of `Admission` |
| `DeliveryProofs` | the theorems of `ClientDelivery` |
| `TopicsProofs` | the theorems of `Topics` |
| `LobbyProofs` | the theorems of `PublicLobby` |

Definitions whose comment begins with "Mutant:" are plausible mistakes, not the
code. They stand before the definition they would replace and show that each
checked property can fail.

### GameRules and Game

`GameState` has the fields of `game/model.ts` with these abstractions: seats are
numbers in display order and `NoSeat` is null; an answer is `none`, `own` or
`default`; a text is whether it passes the content checks; the log is the time
of its last entry. `phaseAt` is the one field that the code does not have: it remembers when the
phase began, and only properties read it. Durations, table sizes and the number
of rounds are constants with the ordering between them that `contracts/rules.ts` has.

`Transition(s, actor, envelope, now)` has the parts of `transition` in its
order: advance time, compare match and token, check the actor, apply. A command's guard is `May…`, its
effect the operator of its name. `AdvanceTime` iterates `Expire` as the loop of
`advanceTime` does; the iteration is a recursive function over `Nat`, so that it
can be proved about.

An action of `Game` is one call. Every call carries a time `now` not before the
last; `Step(AdvanceTime(game, now), now)` computes the late deadlines once for
all actions. Tokens are the current or the previous one: an older token differs
from the current one just as the previous does.

`View(s, actor)` is what `project()` shows a participant, `Offered` its list of
actions. `RolesStayHidden` compares the view of a game with the views of all
games in which the other seats have other roles or owners, now and after any
move of a player: before the reveal they must be equal.

### RoomRuntime

`mem[r]` is a runtime object: `status`, its committed `record`, the `job` that
runs, the `queue` behind it, `tasks`, `attempts`, `taskToken`, the `wake` timer
and the `retries` timers. `store` is the row of the room. A job is two or three
steps, cut at the awaits of the code:

- `RunDispatch`, `RunSync`, `RunExpire`, `RunOpen`, `RunReceive` run from the
  front of the queue to the `save` inside `commit()` (or to the end, if nothing is saved);
- `Save`, `SaveFails` and `Conflict` are what the store does: the record is
  written if the version is the expected one, an exception means that nothing was written;
- `Resume` is the rest of `commit()` and of the job: views, `reconcile()`, acknowledgement.

A save that was written and whose answer is still on its way is the job's stage
`saved`; a `Crash` there loses the acknowledgement but not the record. `receive`
of a task may save twice, first an expiry and then its own result.

Outside the queue: `Send`, `Dispatch`, `Sync`, `Subscribe`, `Close`,
`CloseIfLobby` are calls, `TaskEnds` a provider that answers, fails or times
out, `Wake` and `Retry` timers, `Tick` the wall clock, `Crash`, `Exit` and
`Open` the processes. `sent` is never emptied, so that a request may be delivered again, late,
in another order or never.

Abstractions: a request's fingerprint is the request itself; an error code is not
kept; the beat an AI seat waits is part of its task, which may end at
any moment; provider timeouts and retry delays may be over at any moment, so
that runs cover every order of them. Jobs behind a stopped runtime's are
dropped: in the code they only fail. The creation of a record is its initial
state. A process here serves one room, so that a crash takes one runtime, and the clock is set
back only when no other runtime is up.

### SocketGateway

`gw` has the three maps of the gateway (`connections`, `activeSessions`,
`transports`), the counts of its `ConnectionQuota`, the sockets that are
connected and, of each socket, the subscriptions that the room still calls.
`calls` is what is being awaited. A handler is cut at its awaits:

- `Admit` is `create`, `join` or `resume` up to the point where the session is
  found; `Attach` is the rest of `attach()` after the room's view is there,
  which awaits nothing: check, detach, takeover, subscription, maps. A takeover
  disconnects the other socket at once, handler included (`Disconnected`).
- `Request` and `Requested` are a command or a sync before and after
  `authorize()`; `Expired` is `expire()`, which cuts whatever the socket speaks for by then.
- `Publish` is the room showing a new state; every subscription starts a `push`,
  which `Pushed` ends with the broadcast, an expiry, or nothing.
- `Unavailable` is a failing session store, `EndSession` a revocation or a
  session that runs out, `CloseRoom` the runtime's `stop()`.

`live` of a call says whether the session was in force when `authorize()` began;
its answer is drawn from `Authorized`, as the session may end while the store is asked,
and the store may refuse one in force (finding `session_touch`).
`pushed` and `endedAt` exist for the properties only. Input checks and rate
limits change nothing here and are left out; the sockets all have one room,
since entering another one goes through the same `detach()`.

### Admission

`table` is the session table, one row a request id (a session's id is derived
from the room's and the request's, so the two stand for each other), `room` what
a join meets: its life (a deleted room may be created anew), whether its runtime
is open, phase (`full` stands for any phase once the receipts are at their limit), members and the
receipts of the joins. `calls` is what is being awaited:

- `CreateRoom` and `JoinRoom` begin an admission; `Issue` is the insert of
  `issue()`, `Found` its other half for a request that has a session already,
  which compares the time `issue()` began with; `Dispatch` is the join command,
  `Revoke` the end of a session whose join was refused for good, `HandOut` the answer.
- `Authorize` is the read of `authorize()` and `verify()`, `Activate` the rest:
  what was read decides, and the touch where one is due.
- `AdminRevoke`, `CleanUp`, `DeleteRoom` (with the table's cascade), `Start`,
  `FillReceipts`, `CloseRuntime`, `Restart` and `Tick` are the world around. A
  restart loses every call; `StoreFails` fails one.

`past` exists for the properties only: what was handed out, and which requests
had a join or a revocation cut off. Tokens are taken to be the right ones.

### ClientDelivery

`page` is the browser's page: the session it has stored, the outbox's pending
command with its attempts and timer, the request under way, the connection, and
the view on screen. `links` and `down` are the packets on the wire, `gw` the
gateway's maps, `entries` and `calls` what the server awaits, `rooms`,
`sessions` and `decided` the room behind it; `issued`, `early` and `told` exist for
the properties only.

- `Submit`, `Enter`, `Leave`, `Reload`, `Found` (a poll of matchmaking) are the user's and the hook's calls,
  `CommandTimeout` and `RequestTimeout` the timers, `Connect` and `LinkLost` the
  socket; `Receive` handles the next packet: an answer to an entry or a command,
  a view, the end of the session, or the server hanging up.
- `HearEntry` and `HearCommand` take a packet on the server's side, `RefuseAtOnce`
  refuses it there (rate limit, no session, input), `Attach` and `Refuse` end an entry,
  `AuthorizeCommand` and `AuthorizePush` are the rest of a command or a view
  after `authorize()`, with the expiry where it fails: of whatever session the
  socket speaks for by then, as `socket-gateway.ts:238` has it.
- `Publish` is a move of somebody else, `EndSession` a revocation, `OtherPage` a
  second tab, `ServerLoses` and `Restart` the failures.

A page has one connection at a time; packets that the server has not read when
a connection ends are lost, and the ends notice that in either order. A
connection that the server hangs up is not made again by itself.

### PublicLobby

`registry.map` names the runtime of each room, `deleting` the rooms under
deletion; `runtimes` is every runtime object ever opened, so that one that has left the
map may still be live. A handler is cut at its awaits:

- `Visit` and `Visited` are `get()` before and after `load()`, `Open` the end of a runtime's opening,
  `CleanUp` and `CleanedUp` are `cleanupExpired()`, one deletion after another;
  `Close` and `Closed` are the server's shutdown.
- `Update` is a `join`, `poll` or `cancel` of the queue; its task goes through
  `Queue`, `Answered` (or `Failed`), `Created`, `Seat` (or `NotSeated`) for either account,
  and through `Rollback` and `Undo` when a step has failed; `Resume` answers an account whose
  ticket names a room, or lets it queue anew when that match is over.
- `Sweep`, `SweepRoom`, `MarkLobby`, `NoLobby`, `CloseLobby`, `DeleteLobby`,
  `EndSweep` are the sweep of lobbies nobody starts; `Move` is a player who starts or ends the match.

Two branches of the code never happen in this model: a runtime of this process that
loses a save (one process has one live runtime a room: `OneLive`), and a
sweep's deletion that finds the row gone. Rooms that a failed rollback leaves
behind, and runtimes that a pending `get()` opens after the shutdown, are in the
model; no property forbids them. A restart loses the tickets, so that their owners
may be paired anew: `Init` begins without them.

### Topics

`setup` is what the environment chooses (mode, file or memory, the order of the
sources, what stands in when a source fails). `flights` are the cold resolves
with their stages (begin, line, write, save), `line` the platform client's one
line of requests, `disk` the cache file and its lock directory, `refresher` the
task that refills the rolling `pool`.

- `Prepare` is a room that asks for its next candidate, from `RoomRuntime`'s
  task down to `resolve()` of the cache: a hit, a shared cold resolve, or a new one. `Timeout` is the
  signal of a caller (`attempt-signal.ts`), which aborts the request of a cold
  resolve only if the caller was its first.
- `Begin`, `Turn`, `Answer`, `Write`, `Save`, `SaveFails` are a cold resolve: taking
  the lock (again and again), the searches one interval apart, the models' attempts and the
  fixed text that stands in, the file.
- `FileRead` is the end of the first read of the cache file.
- `Tick`, `RefreshTimeout`, `Fetched`, `Persist`, `Warm`, `CloseRefresher` are the refresh
  task: fetch, merge into the pool, trim it, store the snapshot, warm what is new.

## Runs

| run | question | instance |
|---|---|---|
| `game_rules` | safety of every interleaving of a table's calls | 3 participants for 2 places (3 seats), 2 rounds, valid and invalid contents, durations 1–2, calls up to time 4 |
| `room_lobby` | a room from its creation, and refinement of `Game` | 4 requests, each may be repeated; crashes; failing saves |
| `room_play` | topic, AI seats, deadlines, restarts | a room about to start, 2 requests, receipt limit 1, clock up to 1 and set back by 1 |
| `room_rivals` | two runtimes of one room | 1 request, symmetric runtimes |
| `room_time` | a match goes on with nobody connected | the whole match, 2 topic candidates, failing saves, crashes until time 1 |
| `gateway` | sockets that come, go and take over while calls wait | 3 sockets, 2 sessions, 2 addresses with a quota of 2, 2 waiting calls, 1 new view |
| `admission` | two players, one chair, every request repeated, a room that closes and goes | 2 requests, 2 waiting calls, admission time 1, session time 2, touch interval 1, clock up to 2 |
| `delivery` | a page, its commands and its connections, whatever is lost | 2 sessions (one from matchmaking), 2 commands, 2 attempts, 2 connections, 1 move of somebody else |
| `public_lobby` | two accounts, a pairing, a room of friends, cleanup, sweep and shutdown | 2 accounts, a public room and a table, either may be stored already; 3 runtimes, 1 match a room, 2 waiting calls |
| `topics` | rooms, refresh task and lock over four configurations | 1 curated candidate, 2 questions, pool of 1, 1 room, 2 cold resolves, 1 refresh, lock taken in 2 attempts or not, 2 searches, 2 attempts of the models |
| `session_touch` | is a session in force authorized | violated, see Findings |
| `room_early` | a match goes on, with early timers | violated, see Findings |

**Why the bounds suffice.** Two players are the smallest table, and it has one
seat of each role, so that every guard on roles and every order of speakers
occurs; a third participant meets the full table and looks on. A second round
is where one round follows another, and a third
would repeat it. Durations of 1 and 2 with a time step of 1 give calls before, at and
after each deadline, several deadlines in one call, and a debate whose time ends
within a step. A late call meets the deadlines of both rounds at once; `LobbyRevisions` bounds how often players change their minds.
What depends on the size of the table is proved (below). One job
runs and one waits (`MaxQueue`), which is what the code distinguishes: jobs see
only the committed record. Two requests under one id are the smallest case of a
reused id. One crash or failed save can come between any two steps, and more
than one may happen. Two runtimes are enough for a conflict, which is between a
writer and the store. `StartUntil`, `CrashUntil`, `SetBack` and `Horizon` bound
the clock; a horizon of 5 lets a match that starts at 1 end with all durations 1.
`RoomBoundsAssumption` says what the proofs need of the bounds: `Calls` are commands
that the gateway lets through, `Seatings` draws of a table that may start, and a match
starts within the horizon.

In `gateway` three sockets and two sessions give a takeover while a third socket
waits for either session and a socket that changes sessions; the quota of 2 can
be reached and left again. `MaxCalls` bounds what clients have under way (the
pushes of the room come on top): two calls that race is what every hazard here
takes. One new view is the smallest case of a view from after a session's end.
Sockets, sessions and addresses are symmetric; no property is temporal.

In `admission` two requests for one chair give a refusal, and two waiting calls
a request that races with its own repetition or with an authorization. With the
times 1 and 2 and a clock up to 2 a repetition is in time or late, and a session
is touched, runs out and is cleaned up. Players only, in one life of the room:
a spectator's admission is a player's without the join, and rooms that come back
are covered by the proof. Names of calls and requests are symmetric.

In `delivery` two connections are one that is lost with a command on it and the
one that sends it again, and two attempts the first and the last. `OneExtra` keeps a behaviour
to one of three extras (a second session, a second command, a move of somebody
else), and commands to one attempt in the first of them; it cuts only steps of users
and of the world, none that the fairness speaks of.

In `public_lobby` two accounts are a pairing. Two waiting calls with a cleanup
and a matchmaking task beside them are four in one room at once; three runtimes
let a room's runtime be opened again while the other room has one. Rooms of
an earlier process may be stored, with a match or a result; its tickets are gone. Accounts are symmetric.

In `topics` the four configurations are the ones the code takes different ways in: no
platform; the curated packs with a file cache; a rolling pool with a file cache
and warming; a rolling pool in memory, tried first, where nothing stands in and the server stops.
One room and the warmer are two callers that share a resolve or wait in line behind each other;
the pool's cap of 1 with two questions is reached and trimmed.

The deadlock check is off in `delivery` (a page that was thrown out and
is not loaded again has stopped), `public_lobby` (a server that was shut down) and `topics`
(a room that has its topic, after the last refresh of the bound). Elsewhere time
may always pass, and a runtime may always be opened or asked.

**What the runs show.**

- `game_rules`: `CatchUpIsPrompt` (an outage does not change the match, only
  delays it), `PhaseIsBounded`, `DebateIsHeardOut` and `NoEarlyDefault` (the reading pause
  neither stretches a round nor takes a slow player's time), `TokenNamesWindow` (a command cannot land in a
  window it was not written for), `NothingIsTakenBack`, `VisibleChangeIsNumbered`,
  `OfferedIsAccepted` (the views and the rules agree), `HumanWinIsExact`,
  `Reloadable`, and `RolesStayHidden`: no view, and no change of a view, tells
  the roles before the reveal.
- The room runs: `AckIsDurable`, `DecidedOnce`, `SeenIsDurable` (nothing
  announced is lost, nothing is decided twice, nothing shown is taken back),
  `VersionNamesRecord` (the version check is enough against a second writer),
  `NeverStranded` and `MatchKeepsTime` (somebody always holds the timer),
  `ImplementsGame` and `StepsAreGameSteps` (every stored state is one call of
  the rules away from the one before).
- `gateway`: `OneWriter` (two pages that resume at once, or a page that goes
  while it resumes, leave one connection or none), `SubscribedOnce`,
  `QuotaIsExact`, and `EndedSeesNoMore`: an ended session may keep its socket
  until the next view, but is broadcast nothing newer than its end.
- `admission`: `AdmittedIsMember` and `RefusedHoldsNothing` (the session and the
  seat, stored in two transactions, stay in step), `HandedOutStays` (a repeated
  request that the room refuses does not lose what its first attempt got) and
  `EndedStaysEnded` (a touch writes one column, so that what was read before the
  end brings nothing back).
- `delivery`: `CommandIsAccountedFor` (a command is pending or the page was told
  what became of it, and "accepted" or "refused" is what the room decided),
  `CommandsInOrder` (packets left behind on a lost connection do not overtake
  later commands, but for commands that were given before the connection was let
  in, see Findings), `ScreenNeverGoesBack` (without comparing revisions, by the
  order in which the session store answers) and `BusyEnds`. The order rests on the store
  answering in the order it is asked, which SQLite does.
- `public_lobby`: `OneLive`, `SeatIsTicketed` (whoever sits in a public room has
  the ticket that names it, and a sweep will come back to its lobby) and
  `StartedStays` (nothing that decided to delete a lobby deletes the match that
  started meanwhile).
- `topics`: `LockHasOwner`, `AskedOnce` (no candidate is asked for twice at a time, or
  when it is known, but in the window of the file's first read) and `ColdResolvesEnd`.

**Refinement.** `ImplementsGame` is `Game!Spec` with `game <- store.state`: what
the store holds is a game. The mapping is the identity on the stored state;
every step that does not write is a stutter. `StepsAreGameSteps` is the step
half of it, for rooms that were stored before the run begins.

**Fairness.** `RoomRuntime` says who moves a match on: its jobs run (the event loop), the
clock ticks, set timers fire (`Wake`, `Retry`), a stopped process is started
again and opens its rooms (`ServerContext.initialize()`, with the supervisor of
`deploy/`), and a save that is tried again and again succeeds at last (strong fairness of
`Save`: the store may fail any finite number of times in a row). Nothing is
assumed of players, clients, topic or AI providers. `MatchKeepsTime` needs one
more thing, `Early = 0`: no timer fires before the clock shows its time.
`ClientDelivery` assumes only what the browser does: its timers fire, packets
that have arrived are handled, a lost connection is made again (weak
fairness of `CommandTimeout`, `RequestTimeout`, `Receive`, `Connect`); the
server need not do anything. `Topics` assumes that timers fire, files are
written and the steps between awaits are taken (`Turn`, `RefreshTimeout`, `Fly`,
`Timeout`); neither the platform nor a model need ever answer, nor the lock be free.

## Findings

- `room_early`: the wake timer calls `expire()`, which does nothing if
  the wall clock has not reached the deadline, and nothing sets the timer again.
  The delay is counted by `setTimeout`, the deadline compared with `Date.now`;
  when the timer is early by the latter (rounding, a clock set back), a match that nobody
  calls stands still until a player, a sync or a restart comes.
  `docs/contracts/backend.md:31` promises that time goes on when nobody reconnects.
- `session_touch`: the SQLite touch changes a row only if it was last seen
  earlier. Two authorizations of one session that both read it before either
  touches it, in the same millisecond and when a touch is due, are such a case:
  the second one's `UPDATE` changes nothing, `activate()` takes that for the
  session's end and the gateway disconnects a page whose session is in force.
  The memory store, which the tests use, answers true. `docs/architecture/socket-protocol.md:34`
  ends connections on expiry and revocation only. Both authorizations begin
  in one turn of the event loop when two packets arrive in one frame.

Not runs of their own, but met on the way:

- `settlement.ts:15` and `docs/contracts/backend.md:20` keep the winner
  "ai" for old records "so that they still load"; `validate-room-record.ts:125-127`
  settles the match again and refuses every record that differs.
- `docs/contracts/backend.md:57` says that an admission
  refused for good revokes the session it just created. A repeated one that meets a runtime
  that has stopped meanwhile (`ROOM_CLOSED`, `ROOM_CONFLICT`; a runtime stopped
  by a conflict stays in the registry's map) revokes the session that the first
  attempt was handed. `Admission` marks it `stopped`, and
  `HandedOutStays` speaks of the other refusals only. Likewise a call of a
  deleted room may revoke the session of the same request in a new room of that name.
- At the receipt limit (`room-runtime.ts:99`) every further command is refused
  for the rest of the match, though repeated ones still get their answer.
- A command that was executed and whose answer was lost may be told as failed: its
  repetition meets the rate limit, an ended session or a closed room
  (`docs/architecture/command-retry.md`, rule 6, promises the first answer). So
  `CommandIsAccountedFor` speaks of the room's answers only. After its session was replaced a pending
  command is sent again under the new one, where its token refuses it.
- A page that still shows a view from before a lost connection may give a command before
  the new connection is let in (`use-game-session.ts` only asks whether there is a
  connection). This connection may be lost in turn, the command told as failed, and later
  commands accepted over the next one, before the server gets to the first: it
  lets that connection in, which takes the session over, and accepts the command after the later
  ones. It takes three connections; the proof of `CommandsInOrder` stopped there, and the
  property excepts just these commands (`early`).
- `PersistentTopicCache` sets `loaded` before it has read the file: until then a
  second caller asks anew for what the file has, and what the file has replaces
  the answer. `AskedOnce` excepts just this window.
- A process that dies with the lock of the cache leaves its directory for ever:
  every cold resolve then ends with `TOPIC_CACHE_LOCK_TIMEOUT` (`cache.barred`).
- A snapshot of the pool that cannot be stored counts as a failed refresh, though the
  pool has changed by then (`docs/architecture/topic-provider.md:42` and `:81` say it stays).
- The abort of the caller that began a cold resolve fails it for all that share it.

## Proofs

`GameProofs` proves, for every number of participants, table size within
`MinPlayers..MaxPlayers`, number of rounds and durations that meet `RulesAssumption`:

| theorem | states |
|---|---|
| `GameIsValid`, `GameIsSound` | `Spec => []Valid(game)` and `Spec => []Sound(game)`, the inductive invariants |
| `StepsFollow` | `Spec => [][Follows(game, game')]_game`, what any call may do |
| `GameType` | `TypeOK` |
| `GameIsReloadable` | `Reloadable`: every reachable game passes the stored-room validator |
| `VictoryIsExact` | `HumanWinIsExact` |
| `PhasesAreBounded` | `PhaseIsBounded` |
| `DebatesAreHeardOut` | `DebateIsHeardOut` |
| `CatchUpsArePrompt` | `CatchUpIsPrompt` |
| `OffersAreAccepted` | `OfferedIsAccepted` |
| `RolesAreHidden` | `RolesStayHidden` |
| `TokensNameWindows`, `NothingTakenBack`, `VisibleChangesAreNumbered`, `NoDefaultIsEarly` | the four action properties of `Game` |

**The argument.** `Reloadable` is not inductive in the middle of a call: while
`advanceTime` replays deadlines, `lastNow` is already the call's time and the
deadlines lie behind it. So the invariant is split: `Core(s)` is what holds even
then (types, and the validator without its clause on the deadline), and `Valid(s)` is `Core(s)` with the
deadline not in the past. `ExpireCore` shows that one round of the loop keeps
`Core`; `ExpiredRun` and `ExpiredCore` carry it through the iteration, for which
`IteratesExist` proves that the recursive function exists; what the loop leaves is not due, which gives
`AdvanceTimeValid`: from `Core` to `Valid`. One lemma per effect (`JoinValid`,
`SetReadyValid`, `ResolveTopicValid`, `AddAnswerValid`, `AddVoteValid`,
`AccuseValid`, `SpeakValid`) keeps `Valid`, and `GameProofs` has one lemma for
each action. `VictoryIsExact` needs a counting argument, as there are as many
humans as AI seats (`RoleCounts`): votes that hit every AI seat are a
surjection from a set onto one of its own size, hence one-to-one.

How long a window lasts is no part of the validator. `Sound(s)` adds `Timely(s)`,
which relates the deadline to the time the phase began (`phaseAt`): an
answering round that still waits for somebody has its full time, a complete one at most a
reading pause more, and a vote that opens before the debate's end was preceded by the
last turn. The action properties speak of one call, which may replay many deadlines and
apply a command: `Follows(s, t)` is a transitive relation that one deadline
(`ExpireFollows`), a run of them (`AdvanceTimeFollows`) and one effect (`EffectFollows`)
each have, and from which the properties are read off. `NoEarlyDefault`
needs more than `Follows`, for it has to tell the deadlines that were replayed from the
command: `NextEffect` splits every step of `Game` into the two. `CatchUpIsPrompt` is
`AdvanceTimeTwice`: the deadlines that are due at the earlier time are the first of those that
are due at the later one, since a new window's deadline lies behind the one that opened it.

`RolesStayHidden` compares two games, so that the proof follows both: a `Twin` of a
state differs in clocks and seating only. Every deadline and every effect leads twins to twins
(`RoundTwin` and so on), and twins in which a participant has the same seat look alike to him
(`TwinsLookAlike`). Only the result of the vote looks at the seating, and it is revealed.
`OfferedIsAccepted` has one formula in the middle (`Open`) that both the view's list and the guards
of the rules are shown to amount to.

`RoomProofs` proves, for any number of runtimes, players, commands and
candidates, with any failing saves, crashes, clock set-backs and early timers
(no early timers in the last two):

| theorem | states |
|---|---|
| `RoomIsSafe` | `Spec => []SafeRoom`, the first inductive invariant |
| `VersionsAreNames` | `VersionNamesRecord` |
| `AcksAreDurable` | `AckIsDurable` |
| `CommandsAreDecidedOnce` | `DecidedOnce` |
| `RoomIsSound` | `Spec => [](SafeRoom /\ SoundRoom)`, the second |
| `RoomType` | `TypeOK` |
| `ViewsAreDurable` | `SeenIsDurable` |
| `StoreStepsAreGameSteps` | `StepsAreGameSteps` |
| `RoomImplementsGame` | `ImplementsGame`, the refinement |
| `RoomIsAttended` | with `Early = 0`, `AllAttended`, the third |
| `NobodyIsStranded` | with `Early = 0`, `NeverStranded` |

**The argument.** Acknowledgements, decisions and versions are not inductive alone: a runtime that is about
to save knows nothing of what a rival has stored meanwhile. `SafeRoom` relates every
runtime to the store: its record is `Behind` the stored one (an older version,
or the same record), and the record it is saving is the successor of its own,
with all its receipts and at most one per player and id. `SaveSafe` is
the core: `Save` is enabled only at the stored version, so the runtime's record *is*
the stored one and what is written is its successor, which leaves every other
runtime behind. All other steps change one runtime only (`OneRuntime`), most of
them nothing but its queue, tasks or timers (`Kept`). This much uses no fact
about the rules: any pure function in the place of `Transition` would do.

The refinement does. `SoundRoom` says of the stored record, of every runtime's and of every one
about to be saved that its state is a `Sound` game, and of a save at the stored version that
it is `Made` from the stored state by one step of `Game` (`GameStep`, the next-state
relation as a relation of states). What makes it inductive is what the runtimes remember
of older windows: a request, a task or a queued result carries a token that is no newer than
the record's, and a command with an old token is void, so that it is a step of `Game` whichever old token it is
(`TransitionSteps`). Results of AI seats are accepted only where their
task belongs to the window under way (`Assigned`). The bounds come into it once: a lobby's revision is at
most its number of receipts, and these are of requests that were made, so that a ready
player of the room is one of `Game` (`Account`). `SaveSafe` then turns `Made` into a step: the record that was
expected is the stored one. `Match!` is `Game` with the room's constants; `StoreSteps` carries the steps over.

`AllAttended` follows every pending matter from one holder to the next: a deadline has its timer, or an
`expire` job that the timer has started and that finds the deadline passed; a topic is
awaited, or on its way in a `receive` job, waiting or being retried, or there is a pause
running. A job that is being run counts until `reconcile()` sets the timer and tasks
anew (`Takes`). That an `expire` job finds its deadline passed is what `Early = 0` says; without it the
theorem is false, as the run `room_early` shows.

`GatewayProofs` proves the invariants of `gateway` for any finite set of
sockets, any sessions and addresses, any quota and any number of views:

| theorem | states |
|---|---|
| `GatewaySound` | `Spec => []IInv`, the inductive invariant |
| `GatewayTyped` | `TypeOK`, with the quota as the range of the counts |
| `SessionHasOneWriter` | `OneWriter` |
| `SubscriptionsFollowConnections` | `SubscribedOnce` |
| `QuotaCountsSockets` | `QuotaIsExact` |
| `NoBroadcastAfterTheEnd` | `EndedSeesNoMore` |

**The argument.** The maps of a gateway are judged as a value: `Sound(g, open)`
is a predicate of any `g`, and each helper has a lemma that says what it keeps
(`DetachSound`, `DisconnectedSound`, `TakenOverSound`, `InstalledSound`,
`ConnectedSound`, `ClosedSound`), so that an action that calls several of them
chains lemmas as the code chains calls. `InstalledSound` needs the
session to be free, which only `TakenOverSound` gives: without the takeover the
proof stops where the code would go wrong. `EndedSeesNoMore` is not inductive
because of the pushes under way; `Timely` adds that a push that found its
session in force carries a view from before the session's end. The counts are
cardinalities, so the proofs of connecting and disconnecting add and remove one
element (`FS_AddElement`, `FS_RemoveElement`).

`AdmissionProofs` proves, for any finite set of requests, any capacity and any times,
with stores that fail, runtimes that stop, rooms that go and come back, and restarts:

| theorem | states |
|---|---|
| `AdmissionSafe` | `Spec => []IInv`, the inductive invariant |
| `AdmissionTyped` | `TypeOK`, with the number of chairs |
| `PlayersAreSeated` | `AdmittedIsMember` |
| `NoSessionComesBack` | `EndedStaysEnded`, an action property |
| `RefusalsAreKept` | `Spec => [](IInv /\ Answerable)`, the second inductive invariant |
| `RefusedLeaveNothing` | `RefusedHoldsNothing` |
| `HandedOutIsKept` | `HandedOutStays` |

**The argument.** `AdmittedIsMember` speaks of what was handed out and knows
nothing of the calls under way. `Receipted` adds that a player's call that is
through (`welcome`) has its receipt in the present life of the room, if it
belongs to that life; the receipt is never taken back (`JoinedTyped`), and a
member is never lost. A new life has a higher number than any call, so calls of
an earlier one cannot be mistaken for its own. `NoSessionComesBack` is the same
invariant with a case for each writer of the table.

The other two need to know who is being refused. `RefusedStays`: a call that is
about to revoke, or has revoked, belongs to a request that the room refuses now and for
ever, by its receipt or because it is full; and a receipt that says "in" is never one of these, so
what was handed out is safe. `Tracked`: the session in force of a refused player has a call on its
way that will end it, unless one was cut off by a failing store or a restart, which `past.cut` remembers. For that a
request's calls must not lose each other's work: a repetition finds the session or its end, and the
receipt it meets is the first one's. `Emptied`, that a room's sessions go with it,
keeps one life's sessions out of the next. Both hold of the rooms' later lives too, which the run leaves out.

`DeliveryProofs` proves, for any number of commands, attempts, connections, sessions and
moves of others, with everything that the model lets be lost:

| theorem | states |
|---|---|
| `NoCommandIsLost` | `CommandIsAccountedFor` |
| `WaitingIsOwed` | `BusyIsOwed`: a busy page has a timer, a connection to make or a hang-up to read |
| `ScreenMovesForward` | `ScreenNeverGoesBack`, an action property |
| `CommandsStayInOrder` | `CommandsInOrder`, an action property |

**The argument.** For the first two, `IInv` has three parts. `Outbox`: the pending command is one
that was submitted and not yet answered, and a timer or a connection is owed to
it. `Coming`: whatever is on its way down to the page is honest. An acceptance
or refusal that a packet carries is the room's decision, and as `decided` is
never revised it is still so when the page reads it; after a hang-up nothing
follows. `Owed` is `BusyIsOwed` with what it needs of a page between two
connections. Beside them `Sourced` says that every session named in a packet,
an entry or a call was handed out: a view of a session nobody has would free
the page's session for another. The order of packets matters for these only on the
way down. `BusyEnds` itself needs fairness and is model-checked.

`Screen` is what keeps the screen from going back. `Views`: the screen is behind what
comes down, that behind the pushes that wait for their authorisation, and that behind the room; the queues
themselves rise. The gateway sends a view outside this order once, in its answer to an entry, and that
is why `Once` is needed: a connection asks for a session once, and until that is answered
nothing of the session is on its way there. `Standing` and `Unknown` say what belongs to which
connection, and that a session which was not handed out is spoken of nowhere. Queues change
in one way (`Moves`: some leave at the front, one joins at the end), for which there is one
lemma a property, and most steps are a case of that.

`Order` adds the commands. A command goes up after the ones before it (`Sorted`), the authorisations of a
session are answered in order (`InLine`), and when one has reached the room none before it can be
heard any more: the connection that has it does not speak for its session (`Lined`).
Getting in again would change that; so `LetIn` says that a connection with a command on it has been let
in already, or never will be. That is false of commands given too `early`, and true
of a session entered by matchmaking only because what a page finds is new to it (`Founds`).

`TopicsProofs` proves, for any candidates, rooms, configurations and bounds:

| theorem | states |
|---|---|
| `LockIsOwned` | `LockHasOwner` |
| `CandidatesAreAskedOnce` | `AskedOnce`, an action property |

**The argument.** That the lock has one owner depends on every stage of a cold
resolve and on the line of requests, which run side by side. `Shape` says which
fields there are, `Lined` that a request in the line belongs
to a cold resolve at the stage `line`, and no two to the same one. So the answer
or the abort of a request moves a resolve that is at that stage and
holds the lock; the lock is taken only on the way out of `begin`, when it is
free, and given back on the three ways out: a failed or aborted request, a file
written, a file that could not be written. One lemma per action.

`AskedOnce` rests on `Alone`: the cold resolves under way are for different candidates.
A caller begins one only where none is under way for its candidate and nothing is
known of it, and this is looked up and entered without an await in between; an answer becomes
known when its resolve is done asking (`GoesOn`). No lock is needed for it, so the proof
shows the map of the promises in flight to be enough within a process.

`LobbyProofs` proves, for any accounts, finite sets of rooms, numbers of runtimes,
matches and calls:

| theorem | states |
|---|---|
| `LobbyIsSound` | `Spec => []IInv`, the inductive invariant |
| `RoomHasOneRuntime` | `OneLive` |
| `StartedMatchStays` | `StartedStays`, an action property |
| `PlacesAreSound` | `Spec => []Seated`, the second inductive invariant |
| `SeatsAreTicketed` | `SeatIsTicketed` |

**The argument.** `RoomOK(r)` is what holds of one room whatever happens to the
others: the map names the one runtime of it that is opening or open, and that runtime
holds the stored row. It leaves one case open, which the model does not reach and the
theorems need not exclude: that `deleteLobby()` or the rollback of a pairing deletes a
public lobby under a runtime that was opened meanwhile, whose next save would stop it.
That they never delete a started match is a matter of versions: of a public room the seats and the start are each one save, so
a row at version 2 or below is a lobby's (`Numbered`), and a delete that was
decided on one finds the row of a started match at a later version
(`LobbyDeleted`). For that the pairing must not fill the room that it takes back:
`FewSeats` says that the room it works on has at most one player, so nobody can start it.
`OtherRooms` frames a step that touches one room, `RuntimeChanged` and `RowChanged` are its
two forms, and there is one lemma per action.

`SeatIsTicketed` needs a second invariant, `Seated`, on top of `IInv`. It has two parts:

- `Past` is about rows and records. Of a public room with players in it no runtime, stopped
  ones included, has a record of a later phase than the row (`NoLater`), and who may still save holds
  what is stored (`History`). The sweep and `Resume` drop or unmark tickets after a look at the phase of a
  runtime that may have stopped long ago; `History` is why they are right to.
- `Places` is about the tickets and the task. Every public room but the one that the task fills
  or takes back is `Ticketed`; an account has one ticket (`TicketForm`); and what the task read
  before an await still holds after it (`Errand`): where the registry had no room nobody sits
  (`Vacant`), the account's ticket is what it was (`Serves`), the pair waits and only its first has a
  seat (`Pairs`), a rollback deletes the row it read (`Undoes`), and the runtime that
  the task was given has been opened (`Handed`). It rests on matchmaking
  being one task at a time: a second one would change the tickets between two steps of the first.

`Plain` sums up a step that seats nobody, `PlainPast` shows that it keeps `Past`, and
`OthersPlaces` that the steps of calls, runtimes and the cleanup keep `Places`. A step of
the task has a lemma of its own. `Seat` is the one step that is not `Plain`: it makes the room
`Ticketed` together with its second player (`AssignedForm`). The tickets are filtered with
`InOrder` and not with `SelectSeq`, whose argument is an operator, which the
provers cannot instantiate; `PickedInOrder` states what it returns. A server that closes
forgets its tickets, hence the `registry.closing` in both.

**Only model-checked:** what is out of the prover's reach: liveness under fairness (`MatchKeepsTime`,
`BusyEnds`, `ColdResolvesEnd`) and what a recursive definition computes for every input.

## Not modelled

- **Login** (`server/zhihu-oauth.ts`, `account-http.ts`): one OAuth round trip in
  one handler, a map of single-use states and a capped map of sessions. Nothing
  else reads them but the account that matchmaking is given. (Its cap is checked before the awaits of
  `finish()`, so that several logins at once may exceed it.)
- **Token buckets** (`server/rate-limit.ts`): one map changed by one synchronous
  call. A page sees a bucket as one more way for a command to fail
  (`RefuseAtOnce`). The quota of connections is in `SocketGateway`.
- **AI gateway** (`ai/`): a sequential loop over providers without state between
  calls. `RoomRuntime` sees it as a task with any outcome at any time, which is
  all it promises.
- **Server context, administration, health**: wiring and read-only endpoints. The
  order of start and shutdown, and an administrator's revocation, are actions of
  `RoomRuntime`, `PublicLobby`, `Topics` and `Admission`.
- **Within modelled parts**: token digests and cookies, migrations and SQL, the
  encoding of records, input checks, the generation, parsing and
  filtering of texts: what they decide is an input of the models.
- **Content safety, metrics, logging, user interface**: stateless, or state that
  nothing in the protocol depends on.
- **Composition**: the modules meet at interfaces that each abstracts (a room is
  `RoomRuntime` to itself, a record to `PublicLobby`, a decision to
  `ClientDelivery`); only `RoomRuntime` and `Game` are connected by a checked refinement.
