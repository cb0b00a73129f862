------------------------------ MODULE TopicsProofs ------------------------------
(***************************************************************************)
(* The lock of the topic cache (Topics!LockHasOwner), and that nothing is  *)
(* asked for twice (Topics!AskedOnce), for any candidates, rooms,          *)
(* configurations and bounds.  A cold resolve goes from the lock into the  *)
(* line of requests, so that the invariant has to say where the requests   *)
(* in the line come from; that cold resolves under way are for different   *)
(* candidates is an invariant of its own, Alone.                           *)
(***************************************************************************)
EXTENDS Topics, TLAPS

\* What EXCEPT needs to know of the records.
Shape ==
  /\ DOMAIN flights = Flights /\ \A f \in Flights : "at" \in DOMAIN flights[f]
  /\ "locked" \in DOMAIN disk /\ "barred" \in DOMAIN cache
  /\ setup.persistent \in BOOLEAN

LineRequest == [by : 0..MaxFlights, aborted : BOOLEAN]

\* A request in the line is the refresh task's, or the only one of a cold resolve that waits for it.
Orderly(q, fl) ==
  /\ q \in Seq(LineRequest)
  /\ \A i \in 1..Len(q) : q[i].by # Refresh => fl[q[i].by].at = "line"
  /\ \A i, j \in 1..Len(q) : q[i].by = q[j].by /\ q[i].by # Refresh => i = j

Lined == Orderly(line, flights)

IInv == Shape /\ Lined /\ LockHasOwner

-----------------------------------------------------------------------------
(* Steps that leave the lock alone                                         *)

\* The same resolves are past the lock, and nobody takes or releases it.
LockUntouched ==
  /\ setup' = setup /\ cache'.barred = cache.barred /\ disk'.locked = disk.locked
  /\ "locked" \in DOMAIN disk' /\ "barred" \in DOMAIN cache'
  /\ DOMAIN flights' = Flights
  /\ \A f \in Flights : "at" \in DOMAIN flights'[f]
  /\ \A f \in Flights : flights[f].at = "line" => flights'[f].at = "line"
  /\ \A f \in Flights :
       flights'[f].at \in {"line", "write", "save"} <=> flights[f].at \in {"line", "write", "save"}

\* What is in the line is the same, as far as the invariant looks at it.
LineUntouched ==
  /\ line' \in Seq(LineRequest) /\ Len(line') = Len(line)
  /\ \A i \in 1..Len(line) : line'[i].by = line[i].by

LEMMA Named ==
  ASSUME NEW q \in Seq(LineRequest)
  PROVE  /\ Len(q) \in Nat
         /\ \A i \in 1..Len(q) : q[i] \in LineRequest /\ q[i].by \in 0..MaxFlights
<1>1. \A i \in 1..Len(q) : q[i] \in LineRequest
  OBVIOUS
<1>. QED BY <1>1 DEF LineRequest

LEMMA Untouched == IInv /\ LockUntouched /\ LineUntouched => IInv'
<1>. SUFFICES ASSUME IInv, LockUntouched, LineUntouched PROVE IInv'
  OBVIOUS
<1>1. Shape'
  BY DEF IInv, Shape, LockUntouched
<1>2. Lined'
  <2>. Len(line) \in Nat
    BY DEF IInv, Lined, Orderly
  <2>1. \A i \in 1..Len(line) : line[i].by \in 0..MaxFlights
    BY Named DEF IInv, Lined, Orderly
  <2>2. \A i \in 1..Len(line') : line'[i].by # Refresh => flights'[line'[i].by].at = "line"
    BY SMTT(60), <2>1, TopicsAssumption DEF IInv, Lined, Orderly, LockUntouched, LineUntouched, Refresh, Flights
  <2>3. \A i, j \in 1..Len(line') : line'[i].by = line'[j].by /\ line'[i].by # Refresh => i = j
    BY DEF IInv, Lined, Orderly, LineUntouched, Refresh
  <2>. QED BY <2>2, <2>3 DEF Lined, Orderly, LineUntouched, Refresh
<1>3. Holders' = Holders
  BY DEF LockUntouched, Holders
<1>4. LockHasOwner'
  BY <1>3 DEF IInv, LockHasOwner, LockUntouched
<1>. QED BY <1>1, <1>2, <1>4 DEF IInv

-----------------------------------------------------------------------------
(* The line                                                                *)

\* The first request goes; if it was a cold resolve's, no other one is.
LEMMA FirstGoes ==
  ASSUME NEW q, NEW fl, Orderly(q, fl), q # <<>>
  PROVE  /\ Orderly(Tail(q), fl)
         /\ Head(q) \in LineRequest
         /\ Head(q).by # Refresh => /\ Head(q).by \in Flights /\ fl[Head(q).by].at = "line"
                                    /\ \A i \in 1..Len(Tail(q)) : Tail(q)[i].by # Head(q).by
<1>. q \in Seq(LineRequest) /\ Len(q) \in Nat /\ Len(q) > 0
  BY DEF Orderly
<1>1. Tail(q) \in Seq(LineRequest) /\ Len(Tail(q)) = Len(q) - 1
  OBVIOUS
<1>2. \A i \in 1..Len(Tail(q)) : i + 1 \in 1..Len(q) /\ Tail(q)[i] = q[i + 1]
  OBVIOUS
<1>3. Head(q) = q[1] /\ 1 \in 1..Len(q) /\ q[1].by \in 0..MaxFlights /\ q[1] \in LineRequest
  BY Named
<1>4. Orderly(Tail(q), fl)
  BY <1>1, <1>2 DEF Orderly
<1>5. Head(q).by # Refresh => Head(q).by \in Flights /\ fl[Head(q).by].at = "line"
  BY <1>3, TopicsAssumption DEF Orderly, Refresh, Flights
<1>6. Head(q).by # Refresh => \A i \in 1..Len(Tail(q)) : Tail(q)[i].by # Head(q).by
  BY <1>1, <1>2, <1>3 DEF Orderly
<1>. QED BY <1>3, <1>4, <1>5, <1>6

\* A resolve that has no request in the line may change.
LEMMA OthersStay ==
  ASSUME NEW q, NEW fl, NEW fm, NEW f, Orderly(q, fl),
         \A i \in 1..Len(q) : q[i].by # f,
         \A g \in Flights \ {f} : fm[g].at = fl[g].at
  PROVE  Orderly(q, fm)
<1>. \A i \in 1..Len(q) : q[i].by \in 0..MaxFlights
  BY Named DEF Orderly
<1>. QED BY TopicsAssumption DEF Orderly, Refresh, Flights

\* The resolve whose request goes first may change.
Leads(q, f) == q # <<>> /\ Head(q).by = f

LEMMA RestStay ==
  ASSUME NEW q, NEW fl, NEW fm, NEW f \in Flights, Orderly(q, fl), Leads(q, f),
         \A g \in Flights \ {f} : fm[g].at = fl[g].at
  PROVE  /\ Orderly(Tail(q), fm)
         /\ \A i \in 1..Len(Tail(q)) : Tail(q)[i].by # f
<1>1. f # Refresh
  BY TopicsAssumption DEF Refresh, Flights
<1>2. Orderly(Tail(q), fl) /\ \A i \in 1..Len(Tail(q)) : Tail(q)[i].by # f
  BY <1>1, FirstGoes DEF Leads
<1>. QED BY <1>2, OthersStay

\* A request is put at the end: the refresh task's, or one of a resolve that had none.
LEMMA LastComes ==
  ASSUME NEW q, NEW fl, NEW by \in 0..MaxFlights, Orderly(q, fl),
         by # Refresh => fl[by].at = "line" /\ \A i \in 1..Len(q) : q[i].by # by
  PROVE  Orderly(Append(q, Request(by)), fl)
<1>. DEFINE r == Append(q, Request(by))
<1>1. Request(by) \in LineRequest /\ Request(by).by = by
  BY DEF Request, LineRequest
<1>. HIDE DEF LineRequest
<1>2. q \in Seq(LineRequest) /\ Len(q) \in Nat
  BY DEF Orderly
<1>3. r \in Seq(LineRequest) /\ Len(r) = Len(q) + 1 /\ r[Len(q) + 1] = Request(by)
  BY <1>1, <1>2
<1>4. \A i \in 1..Len(q) : r[i] = q[i]
  BY <1>1, <1>2
<1>5. \A i \in 1..Len(r) : i \in 1..Len(q) \/ i = Len(q) + 1
  BY <1>2, <1>3
<1>. HIDE DEF r
<1>6. \A i \in 1..Len(r) : r[i].by # Refresh => fl[r[i].by].at = "line"
  BY <1>1, <1>3, <1>4, <1>5 DEF Orderly
<1>7. \A i, j \in 1..Len(r) : r[i].by = r[j].by /\ r[i].by # Refresh => i = j
  BY <1>1, <1>3, <1>4, <1>5 DEF Orderly
<1>. QED BY <1>3, <1>6, <1>7 DEF Orderly, r

-----------------------------------------------------------------------------
(* The lock                                                                *)

Past(f) == flights[f].at \in {"line", "write", "save"}

\* A resolve that is past the lock stays so, takes the free lock, or releases it.
KeepsLock(f) == Past(f) /\ disk'.locked = disk.locked /\ (setup.persistent => Past(f)')

TakesLock(f) ==
  /\ ~Past(f) /\ disk'.locked = setup.persistent
  /\ setup.persistent => ~disk.locked /\ Past(f)'

ReleasesLock(f) == setup.persistent => Past(f) /\ ~disk'.locked /\ ~Past(f)'

\* One resolve moves.
Moves(f) ==
  /\ setup' = setup /\ cache'.barred = cache.barred
  /\ "locked" \in DOMAIN disk' /\ "barred" \in DOMAIN cache'
  /\ DOMAIN flights' = Flights /\ "at" \in DOMAIN flights'[f]
  /\ \A g \in Flights \ {f} : flights'[g] = flights[g]

LEMMA MovesWell ==
  ASSUME IInv, NEW f \in Flights, Moves(f),
         KeepsLock(f) \/ TakesLock(f) \/ ReleasesLock(f), Orderly(line', flights')
  PROVE  IInv'
<1>1. Shape'
  BY DEF IInv, Shape, Moves
<1>2. Lined'
  BY DEF Lined
<1>3. LockHasOwner'
  <2>. SUFFICES ASSUME setup.persistent
                PROVE  /\ \A g, h \in Holders' : g = h
                       /\ Holders' # {} => disk'.locked
                       /\ disk'.locked => Holders' # {} \/ cache'.barred
    BY DEF LockHasOwner, Moves
  <2>. /\ \A g, h \in Holders : g = h
       /\ Holders # {} => disk.locked
       /\ disk.locked => Holders # {} \/ cache.barred
    BY DEF IInv, LockHasOwner
  <2>1. \A g \in Flights \ {f} : g \in Holders' <=> g \in Holders
    BY DEF Holders, Moves
  <2>2. Holders \subseteq Flights /\ Holders' \subseteq Flights
    BY DEF Holders
  <2>3. (f \in Holders <=> Past(f)) /\ (f \in Holders' <=> Past(f)')
    BY DEF Holders, Past
  <2>4. CASE KeepsLock(f)
    BY <2>1, <2>2, <2>3, <2>4 DEF KeepsLock, Moves
  <2>5. CASE TakesLock(f)
    BY <2>1, <2>2, <2>3, <2>5 DEF TakesLock, Moves
  <2>6. CASE ReleasesLock(f)
    BY <2>1, <2>2, <2>3, <2>6 DEF ReleasesLock, Moves
  <2>. QED BY <2>4, <2>5, <2>6
<1>. QED BY <1>1, <1>2, <1>3 DEF IInv

LEMMA FreeIsFree == Free.at = "free" /\ "at" \in DOMAIN Free
BY DEF Free

\* The file cache goes on to save what it has learnt; the memory cache is done.
LEMMA SettledMoves ==
  ASSUME IInv, NEW f \in Flights, NEW ok, Settled(f, ok)
  PROVE  /\ DOMAIN flights' = Flights /\ "at" \in DOMAIN flights'[f]
         /\ \A g \in Flights \ {f} : flights'[g] = flights[g]
         /\ flights'[f].at \in {"save", "free"}
         /\ setup.persistent => flights'[f].at = "save"
<1>. DOMAIN flights = Flights /\ "at" \in DOMAIN flights[f]
  BY DEF IInv, Shape
<1>1. CASE setup.persistent
  BY <1>1 DEF Settled
<1>2. CASE ~setup.persistent
  BY <1>2, FreeIsFree DEF Settled
<1>. QED BY <1>1, <1>2

-----------------------------------------------------------------------------
(* The steps                                                               *)

LEMMA Initially == Init => IInv
<1>. SUFFICES ASSUME Init PROVE IInv
  OBVIOUS
<1>1. setup.persistent \in BOOLEAN
  BY TopicsAssumption DEF Init, Configurations
<1>2. /\ "locked" \in DOMAIN disk /\ "barred" \in DOMAIN cache
      /\ setup.persistent => (disk.locked => cache.barred)
  BY DEF Init
<1>3. DOMAIN flights = Flights /\ \A f \in Flights : flights[f] = Free
  BY DEF Init
<1>4. Shape
  BY <1>1, <1>2, <1>3, FreeIsFree DEF Shape
<1>5. Lined
  BY DEF Init, Lined, Orderly
<1>6. Holders = {}
  BY <1>3, FreeIsFree DEF Holders
<1>. QED BY <1>2, <1>4, <1>5, <1>6 DEF IInv, LockHasOwner

LEMMA SameLine == IInv /\ line' = line => LineUntouched
<1>. SUFFICES ASSUME IInv, line' = line PROVE LineUntouched
  OBVIOUS
<1>. line \in Seq(LineRequest)
  BY DEF IInv, Lined, Orderly
<1>. QED BY DEF LineUntouched

\* Nothing that the invariant looks at changes.
LEMMA Elsewhere ==
  ASSUME IInv, UNCHANGED <<disk, setup, flights>>, LineUntouched,
         cache'.barred = cache.barred, "barred" \in DOMAIN cache'
  PROVE  IInv'
<1>. LockUntouched
  BY DEF IInv, Shape, LockUntouched
<1>. QED BY Untouched

\* A lookup at most begins a cold resolve, which is not past the lock.
LEMMA LookBegins ==
  ASSUME IInv, NEW c, NEW call, NEW known, Look(c, call, known),
         UNCHANGED <<disk, setup, line>>, cache'.barred = cache.barred, "barred" \in DOMAIN cache'
  PROVE  IInv'
<1>1. CASE flights' = flights
  BY <1>1, SameLine, Elsewhere
<1>2. CASE flights' # flights
  <2>. PICK f \in Flights :
         /\ flights[f] = Free
         /\ flights' = [flights EXCEPT ![f] =
              [Free EXCEPT !.cand = call.cand, !.by = c, !.at = "begin", !.tries = LockTries]]
    BY <1>2 DEF Look
  <2>. DEFINE new == [Free EXCEPT !.cand = call.cand, !.by = c, !.at = "begin", !.tries = LockTries]
  <2>1. new.at = "begin" /\ "at" \in DOMAIN new /\ Free.at = "free"
    BY DEF Free
  <2>. HIDE DEF new
  <2>2. DOMAIN flights' = Flights /\ flights'[f] = new /\ \A g \in Flights \ {f} : flights'[g] = flights[g]
    BY DEF IInv, Shape, new
  <2>3. LockUntouched
    BY <2>1, <2>2 DEF IInv, Shape, LockUntouched
  <2>. QED BY <2>3, SameLine, Untouched
<1>. QED BY <1>1, <1>2

LEMMA ResolveSteps ==
  ASSUME IInv, NEW c, NEW call, Resolve(c, call), UNCHANGED <<disk, setup, line>>
  PROVE  IInv'
<1>1. CASE cache.file = "unread"
  BY <1>1, SameLine, Elsewhere DEF Resolve, IInv, Shape
<1>2. CASE cache.file # "unread"
  BY <1>2, LookBegins DEF Resolve, IInv, Shape
<1>. QED BY <1>1, <1>2

LEMMA FileReadSteps == IInv /\ FileRead => IInv'
<1>. SUFFICES ASSUME IInv, FileRead PROVE IInv'
  OBVIOUS
<1>. cache'.barred = cache.barred /\ "barred" \in DOMAIN cache' /\ UNCHANGED <<disk, setup, line>>
  BY DEF FileRead, IInv, Shape
<1>1. flights' = flights \/ \E c, call, known : Look(c, call, known)
  BY DEF FileRead
<1>. QED BY <1>1, LookBegins, SameLine, Elsewhere

LEMMA PrepareSteps == ASSUME IInv, NEW r \in Rooms, Prepare(r) PROVE IInv'
<1>1. UNCHANGED <<disk, setup, line>>
  BY DEF Prepare
<1>2. \/ \E call : Resolve(r, call)
      \/ UNCHANGED <<cache, flights>>
  BY DEF Prepare, Ready
<1>. QED BY <1>1, <1>2, ResolveSteps, SameLine, Elsewhere DEF IInv, Shape

LEMMA WarmSteps == IInv /\ Warm => IInv'
<1>. SUFFICES ASSUME IInv, Warm PROVE IInv'
  OBVIOUS
<1>1. UNCHANGED <<disk, setup, line>>
  BY DEF Warm
<1>2. \/ \E call : Resolve(Warmer, call)
      \/ UNCHANGED <<cache, flights>>
  BY DEF Warm
<1>. QED BY <1>1, <1>2, ResolveSteps, SameLine, Elsewhere DEF IInv, Shape

\* A resolve that does not wait in the line has no request there.
LEMMA NoRequest ==
  ASSUME IInv, NEW f \in Flights, flights[f].at # "line"
  PROVE  \A i \in 1..Len(line) : line[i].by # f
<1>. f # Refresh
  BY TopicsAssumption DEF Refresh, Flights
<1>. QED BY DEF IInv, Lined, Orderly

LEMMA LineKept ==
  ASSUME IInv, NEW f \in Flights, flights[f].at # "line",
         \A g \in Flights \ {f} : flights'[g] = flights[g]
  PROVE  Orderly(line, flights')
<1>1. \A i \in 1..Len(line) : line[i].by # f
  BY NoRequest
<1>2. \A g \in Flights \ {f} : flights'[g].at = flights[g].at
  OBVIOUS
<1>3. Orderly(line, flights)
  BY DEF IInv, Lined
<1>. QED BY ZenonT(60), <1>1, <1>2, <1>3, OthersStay

LEMMA LineGoes ==
  ASSUME IInv, NEW f \in Flights, Leads(line, f),
         \A g \in Flights \ {f} : flights'[g] = flights[g]
  PROVE  Orderly(Tail(line), flights') /\ \A i \in 1..Len(Tail(line)) : Tail(line)[i].by # f
<1>1. \A g \in Flights \ {f} : flights'[g].at = flights[g].at
  OBVIOUS
<1>2. Orderly(line, flights)
  BY DEF IInv, Lined
<1>. QED BY <1>1, <1>2, RestStay

LEMMA LandedMoves ==
  ASSUME IInv, NEW f \in Flights, NEW ok, Landed(f, ok)
  PROVE  /\ DOMAIN flights' = Flights /\ "at" \in DOMAIN flights'[f] /\ flights'[f].at = "free"
         /\ \A g \in Flights \ {f} : flights'[g] = flights[g]
BY FreeIsFree DEF Landed, IInv, Shape

LEMMA SaveSteps == ASSUME IInv, NEW f \in Flights, Save(f) PROVE IInv'
<1>1. Moves(f) /\ flights'[f].at = "free" /\ line' = line /\ ~disk'.locked
  BY LandedMoves DEF Save, Moves, IInv, Shape
<1>2. flights[f].at = "save"
  BY DEF Save, Writing
<1>3. ReleasesLock(f)
  BY <1>1, <1>2 DEF ReleasesLock, Past
<1>4. Orderly(line', flights')
  BY <1>1, <1>2, LineKept DEF Moves
<1>. QED BY <1>1, <1>3, <1>4, MovesWell

LEMMA SaveFailsSteps == ASSUME IInv, NEW f \in Flights, SaveFails(f) PROVE IInv'
<1>. flights[f].at = "save" /\ line' = line
  BY DEF SaveFails, Writing
<1>1. CASE flights[f].ok
  <2>1. /\ DOMAIN flights' = Flights
        /\ \A g \in Flights : "at" \in DOMAIN flights'[g] /\ flights'[g].at = flights[g].at
    BY <1>1 DEF SaveFails, IInv, Shape
  <2>2. LockUntouched
    BY <1>1, <2>1 DEF SaveFails, LockUntouched, IInv, Shape
  <2>. QED BY <2>2, SameLine, Untouched
<1>2. CASE ~flights[f].ok
  <2>1. Moves(f) /\ flights'[f].at = "free" /\ ~disk'.locked
    BY <1>2, LandedMoves DEF SaveFails, Moves, IInv, Shape
  <2>2. ReleasesLock(f)
    BY <2>1 DEF ReleasesLock, Past
  <2>3. Orderly(line', flights')
    BY <2>1, LineKept DEF Moves
  <2>. QED BY <2>1, <2>2, <2>3, MovesWell
<1>. QED BY <1>1, <1>2

LEMMA WriteSteps == ASSUME IInv, NEW f \in Flights, Write(f) PROVE IInv'
<1>. flights[f].at = "write" /\ UNCHANGED <<disk, setup, cache, line>>
  BY DEF Write
<1>1. CASE flights' = [flights EXCEPT ![f].tries = @ - 1]
  <2>1. /\ DOMAIN flights' = Flights
        /\ \A g \in Flights : "at" \in DOMAIN flights'[g] /\ flights'[g].at = flights[g].at
    BY <1>1 DEF IInv, Shape
  <2>2. LockUntouched
    BY <2>1 DEF LockUntouched, IInv, Shape
  <2>. QED BY <2>2, SameLine, Untouched
<1>2. ASSUME NEW ok, Settled(f, ok) PROVE IInv'
  <2>1. Moves(f) /\ KeepsLock(f)
    BY <1>2, SettledMoves DEF Moves, KeepsLock, Past, IInv, Shape
  <2>2. Orderly(line', flights')
    BY <2>1, LineKept DEF Moves
  <2>. QED BY <2>1, <2>2, MovesWell
<1>. QED BY <1>1, <1>2 DEF Write

\* The lock is taken: there is nothing to find, or the first request is put in the line.
LEMMA BeginSteps == ASSUME IInv, NEW f \in Flights, Begin(f) PROVE IInv'
<1>. flights[f].at = "begin" /\ UNCHANGED <<setup, cache>>
  BY DEF Begin
<1>1. CASE setup.persistent /\ disk.locked
  <2>1. /\ DOMAIN flights' = Flights
        /\ \A g \in Flights : "at" \in DOMAIN flights'[g]
        /\ \A g \in Flights \ {f} : flights'[g] = flights[g]
        /\ flights'[f].at \in {"begin", "free"}
        /\ UNCHANGED <<disk, line>>
    <3>1. CASE flights[f].tries > 1
      BY <1>1, <3>1 DEF Begin, IInv, Shape
    <3>2. CASE ~(flights[f].tries > 1)
      BY <1>1, <3>2, LandedMoves DEF Begin, IInv, Shape
    <3>. QED BY <3>1, <3>2
  <2>2. LockUntouched
    BY <2>1 DEF LockUntouched, IInv, Shape
  <2>. QED BY <2>1, <2>2, SameLine, Untouched
<1>2. CASE ~(setup.persistent /\ disk.locked)
  <2>1. "locked" \in DOMAIN disk' /\ disk'.locked = setup.persistent
    BY <1>2 DEF Begin, IInv, Shape
  <2>2. CASE Settled(f, FALSE) /\ line' = line
    <3>1. Moves(f) /\ TakesLock(f)
      BY <1>2, <2>1, <2>2, SettledMoves DEF Moves, TakesLock, Past, IInv, Shape
    <3>2. Orderly(line', flights')
      BY <2>2, <3>1, LineKept DEF Moves
    <3>. QED BY <3>1, <3>2, MovesWell
  <2>3. CASE Ask(f)
    <3>1. /\ DOMAIN flights' = Flights /\ "at" \in DOMAIN flights'[f] /\ flights'[f].at = "line"
          /\ \A g \in Flights \ {f} : flights'[g] = flights[g]
          /\ line' = Append(line, Request(f))
      BY <2>3 DEF Ask, IInv, Shape
    <3>2. Moves(f) /\ TakesLock(f)
      BY <1>2, <2>1, <3>1 DEF Moves, TakesLock, Past, IInv, Shape
    <3>3. Orderly(line, flights')
      BY <3>1, LineKept
    <3>4. f \in 0..MaxFlights
      BY TopicsAssumption DEF Flights
    <3>5. Orderly(line', flights')
      BY <3>1, <3>3, <3>4, NoRequest, LastComes
    <3>. QED BY <3>2, <3>5, MovesWell
  <2>. QED BY <1>2, <2>2, <2>3 DEF Begin
<1>. QED BY <1>1, <1>2

\* The first request of the line has been answered, and its resolve is settled or goes on.
LEMMA FirstSettled ==
  ASSUME IInv, line # <<>>, Head(line).by # Refresh, line' = Tail(line), UNCHANGED <<disk, setup, cache>>,
         NEW ok, Settled(Head(line).by, ok)
  PROVE  IInv'
<1>. PICK f \in Flights : f = Head(line).by
  BY FirstGoes DEF IInv, Lined
<1>1. flights[f].at = "line"
  BY FirstGoes DEF IInv, Lined
<1>2. Settled(f, ok)
  OBVIOUS
<1>3. \A g \in Flights \ {f} : flights'[g] = flights[g]
  BY <1>2, SettledMoves
<1>4. Moves(f) /\ KeepsLock(f)
  BY <1>1, <1>2, SettledMoves DEF Moves, KeepsLock, Past, IInv, Shape
<1>5. Orderly(line', flights')
  BY <1>3, LineGoes DEF Leads
<1>. QED BY <1>1, <1>4, <1>5, MovesWell

\* The refresh task's request goes.
LEMMA RefreshGoes ==
  ASSUME IInv, line # <<>>, Head(line).by = Refresh, line' = Tail(line), UNCHANGED <<disk, setup, cache, flights>>
  PROVE  IInv'
<1>1. Orderly(line', flights')
  BY FirstGoes DEF IInv, Lined
<1>. QED BY <1>1 DEF IInv, Shape, Lined, LockHasOwner, Holders

LEMMA TurnSteps == IInv /\ Turn => IInv'
BY FirstSettled, RefreshGoes DEF Turn

LEMMA AnswerSteps == IInv /\ Answer => IInv'
<1>. SUFFICES ASSUME IInv, Answer PROVE IInv'
  OBVIOUS
<1>1. line # <<>> /\ Head(line).by # Refresh /\ UNCHANGED <<disk, setup, cache>>
  BY DEF Answer
<1>. PICK f \in Flights : f = Head(line).by
  BY <1>1, FirstGoes DEF IInv, Lined
<1>2. flights[f].at = "line"
  BY <1>1, FirstGoes DEF IInv, Lined
<1>3. CASE line' = Tail(line) /\ \E ok : Settled(f, ok)
  BY <1>1, <1>3, FirstSettled
<1>4. CASE /\ line' = Append(Tail(line), Request(f))
           /\ flights' = [flights EXCEPT ![f].tries = @ - 1]
  <2>1. /\ DOMAIN flights' = Flights
        /\ \A g \in Flights : "at" \in DOMAIN flights'[g] /\ flights'[g].at = flights[g].at
    BY <1>2, <1>4 DEF IInv, Shape
  <2>. \A g \in Flights \ {f} : flights'[g] = flights[g]
    BY <1>2, <1>4 DEF IInv, Shape
  <2>2. Moves(f) /\ KeepsLock(f)
    BY <1>1, <1>2, <2>1 DEF Moves, KeepsLock, Past, IInv, Shape
  <2>3. Orderly(Tail(line), flights') /\ \A i \in 1..Len(Tail(line)) : Tail(line)[i].by # f
    BY <1>1, <2>1, LineGoes DEF Leads
  <2>4. f \in 0..MaxFlights
    BY <1>2, TopicsAssumption DEF Flights
  <2>5. flights'[f].at = "line"
    BY <1>2, <2>1
  <2>6. Orderly(line', flights')
    BY <1>4, <2>3, <2>4, <2>5, LastComes
  <2>. QED BY <1>2, <2>2, <2>6, MovesWell
<1>5. CASE /\ line' = Tail(line)
           /\ flights' = [flights EXCEPT ![f].at = "write", ![f].tries = Attempts]
  <2>1. /\ DOMAIN flights' = Flights /\ "at" \in DOMAIN flights'[f] /\ flights'[f].at = "write"
        /\ \A g \in Flights \ {f} : flights'[g] = flights[g]
    BY <1>2, <1>5 DEF IInv, Shape
  <2>2. Moves(f) /\ KeepsLock(f)
    BY <1>1, <1>2, <2>1 DEF Moves, KeepsLock, Past, IInv, Shape
  <2>3. Orderly(line', flights')
    BY <1>1, <1>5, <2>1, LineGoes DEF Leads
  <2>. QED BY <1>2, <2>2, <2>3, MovesWell
<1>. QED BY <1>3, <1>4, <1>5 DEF Answer, Refused, Searched, Confirmed, Paged, Selected

\* A signal only marks what it aborts.
LEMMA AbortMarks == ASSUME IInv, NEW c, Abort(c), UNCHANGED <<disk, setup, cache>> PROVE LockUntouched
<1>1. /\ DOMAIN flights' = Flights
      /\ \A g \in Flights : "at" \in DOMAIN flights'[g] /\ flights'[g].at = flights[g].at
  BY DEF Abort, IInv, Shape
<1>. QED BY <1>1 DEF LockUntouched, IInv, Shape

LEMMA CancelMarks == IInv /\ line' = Cancelled => LineUntouched
<1>. SUFFICES ASSUME IInv, line' = Cancelled PROVE LineUntouched
  OBVIOUS
<1>. line \in Seq(LineRequest) /\ Len(line) \in Nat /\ DOMAIN line = 1..Len(line)
  BY DEF IInv, Lined, Orderly
<1>. DEFINE mark(i) == IF line[i].by = Refresh THEN [line[i] EXCEPT !.aborted = TRUE] ELSE line[i]
<1>1. \A i \in 1..Len(line) : mark(i) \in LineRequest /\ mark(i).by = line[i].by
  <2>1. \A i \in 1..Len(line) : line[i] \in LineRequest
    BY Named
  <2>. QED BY <2>1 DEF LineRequest
<1>2. line' = [i \in 1..Len(line) |-> mark(i)]
  BY DEF Cancelled
<1>. HIDE DEF mark
<1>3. line' \in Seq(LineRequest) /\ Len(line') = Len(line)
  BY <1>1, <1>2
<1>4. \A i \in 1..Len(line) : line'[i].by = line[i].by
  BY <1>1, <1>2
<1>. QED BY <1>3, <1>4 DEF LineUntouched

LEMMA TickSteps == IInv /\ Tick => IInv'
<1>. SUFFICES ASSUME IInv, Tick PROVE IInv'
  OBVIOUS
<1>1. UNCHANGED <<disk, setup, cache, flights>> /\ line' = Append(line, Request(Refresh))
  BY DEF Tick
<1>2. Refresh \in 0..MaxFlights
  BY TopicsAssumption DEF Refresh
<1>3. Orderly(line', flights')
  BY <1>1, <1>2, LastComes DEF IInv, Lined
<1>. QED BY <1>1, <1>3 DEF IInv, Shape, Lined, LockHasOwner, Holders

LEMMA Steps == IInv /\ [Next]_vars => IInv'
<1>. SUFFICES ASSUME IInv, [Next]_vars PROVE IInv'
  OBVIOUS
<1>1. CASE FileRead
  BY <1>1, FileReadSteps
<1>2. ASSUME NEW f \in Flights, Fly(f) PROVE IInv'
  BY <1>2, BeginSteps, SaveSteps, SaveFailsSteps, WriteSteps DEF Fly
<1>3. CASE Turn \/ Answer
  BY <1>3, TurnSteps, AnswerSteps
<1>4. CASE \E r \in Rooms : Prepare(r)
  BY <1>4, PrepareSteps
<1>5. CASE \E c \in Callers : Timeout(c)
  BY <1>5, AbortMarks, SameLine, Untouched DEF Timeout
<1>6. CASE Tick
  BY <1>6, TickSteps
<1>7. CASE RefreshTimeout
  BY <1>7, CancelMarks, Elsewhere DEF RefreshTimeout, IInv, Shape
<1>8. CASE CloseRefresher
  BY <1>8, AbortMarks, CancelMarks, Untouched DEF CloseRefresher
<1>9. CASE \E batch \in Batches : Fetched(batch)
  BY <1>9, RefreshGoes DEF Fetched
<1>10. CASE Persist
  BY <1>10, SameLine, Elsewhere DEF Persist, IInv, Shape
<1>11. CASE Warm
  BY <1>11, WarmSteps
<1>12. CASE UNCHANGED vars
  BY <1>12, SameLine, Elsewhere DEF vars, IInv, Shape
<1>. QED BY <1>1, <1>2, <1>3, <1>4, <1>5, <1>6, <1>7, <1>8, <1>9, <1>10, <1>11, <1>12 DEF Next

(***************************************************************************)
(* topic-cache-lock.ts, persistent-topic-cache.ts: however many cold       *)
(* resolves there are, and whatever fails, is aborted or shut down, at     *)
(* most one of them is past the lock of the file cache, and the lock       *)
(* directory is there for as long as one is: a process leaves it behind    *)
(* only if it found it.                                                    *)
(***************************************************************************)
THEOREM LockIsOwned == Spec => []LockHasOwner
<1>1. Init => IInv
  BY Initially
<1>2. IInv /\ [Next]_vars => IInv'
  BY Steps
<1>3. IInv => LockHasOwner
  BY DEF IInv
<1>. QED BY <1>1, <1>2, <1>3, PTL DEF Spec

-----------------------------------------------------------------------------
(* No candidate is asked for twice                                         *)

UnderWay(f) == flights[f].at # "free"

\* The cold resolves under way are for different candidates.
Alone ==
  /\ \A f \in Flights : "cand" \in DOMAIN flights[f]
  /\ \A f, g \in Flights : f # g /\ UnderWay(f) /\ UnderWay(g) => flights[f].cand # flights[g].cand

\* Only signals, or nothing at all, reach the cold resolves, and nothing is learnt but from the file.
Stays ==
  /\ \A f \in Flights : /\ "cand" \in DOMAIN flights'[f]
                        /\ flights'[f].at = flights[f].at /\ flights'[f].cand = flights[f].cand
                        /\ flights[f] = Free => flights'[f] = Free
  /\ records' \subseteq records \/ cache.file = "reading"

LEMMA StaysAlone == ASSUME IInv, Alone, Stays PROVE Alone' /\ AsksOnce
<1>1. Alone'
  BY DEF Alone, Stays, UnderWay
<1>2. AsksOnce
  BY DEF Stays, AsksOnce
<1>. QED BY <1>1, <1>2

\* A cold resolve goes on, or ends; what is learnt of its candidate is learnt when it is done asking.
GoesOn(f) ==
  /\ UnderWay(f) /\ \A g \in Flights \ {f} : flights'[g] = flights[g]
  /\ "cand" \in DOMAIN flights'[f]
  /\ flights'[f].at = "free" \/ flights'[f].cand = flights[f].cand
  /\ \/ records' \subseteq records
     \/ /\ records' \subseteq records \cup {flights[f].cand}
        /\ flights'[f].at \in {"save", "free"}

LEMMA GoesOnAlone == ASSUME IInv, Alone, NEW f \in Flights, GoesOn(f) PROVE Alone' /\ AsksOnce
<1>. UnderWay(f) /\ flights[f] # Free /\ \A g \in Flights \ {f} : flights'[g] = flights[g]
  BY FreeIsFree DEF GoesOn, UnderWay
<1>1. Alone'
  BY DEF Alone, GoesOn, UnderWay
<1>2. ASSUME NEW g \in Flights, flights[g] = Free, flights'[g] # Free PROVE FALSE
  BY <1>2
<1>3. ASSUME NEW g \in Flights, flights'[g].at \in {"begin", "line", "write"},
             flights'[g].cand \in records', flights'[g].cand \notin records
      PROVE  FALSE
  <2>1. flights'[g].cand = flights[f].cand /\ flights'[f].at \in {"save", "free"}
    BY <1>3 DEF GoesOn
  <2>2. g # f /\ flights'[g] = flights[g] /\ UnderWay(g)
    BY <1>3, <2>1 DEF UnderWay
  <2>. QED BY <2>1, <2>2 DEF Alone
<1>. QED BY <1>1, <1>2, <1>3 DEF AsksOnce

\* A cold resolve begins for a candidate that nobody asks for.
Begun(f, cand) ==
  /\ flights[f] = Free /\ "cand" \in DOMAIN flights'[f] /\ flights'[f].cand = cand
  /\ \A g \in Flights \ {f} : flights'[g] = flights[g]
  /\ Running(cand) = {} /\ cand \notin records'
  /\ records' \subseteq records \/ cache.file = "reading"

LEMMA BegunAlone ==
  ASSUME IInv, Alone, NEW f \in Flights, NEW cand, Begun(f, cand) PROVE Alone' /\ AsksOnce
<1>. \A g \in Flights : flights[g].cand # cand
  BY DEF Begun, Running
<1>1. Alone'
  BY DEF Alone, Begun, UnderWay
<1>2. AsksOnce
  BY DEF Begun, AsksOnce
<1>. QED BY <1>1, <1>2

LEMMA FreeCandidate == "cand" \in DOMAIN Free
BY DEF Free

LEMMA LookAlone ==
  ASSUME IInv, Alone, NEW c, NEW call, NEW known, Look(c, call, known),
         known \subseteq records \/ cache.file = "reading"
  PROVE  Alone' /\ AsksOnce
<1>1. records' \subseteq records \/ cache.file = "reading"
  BY DEF Look
<1>2. CASE flights' = flights
  BY <1>1, <1>2, StaysAlone DEF Stays, Alone
<1>3. CASE flights' # flights
  <2>. PICK f \in Flights :
         /\ flights[f] = Free /\ Running(call.cand) = {} /\ records' = known \ {call.cand}
         /\ flights' = [flights EXCEPT ![f] =
              [Free EXCEPT !.cand = call.cand, !.by = c, !.at = "begin", !.tries = LockTries]]
    BY <1>3 DEF Look
  <2>. DEFINE new == [Free EXCEPT !.cand = call.cand, !.by = c, !.at = "begin", !.tries = LockTries]
  <2>1. "cand" \in DOMAIN new /\ new.cand = call.cand
    BY DEF Free
  <2>. HIDE DEF new
  <2>2. flights'[f] = new /\ \A g \in Flights \ {f} : flights'[g] = flights[g]
    BY DEF IInv, Shape, new
  <2>3. Begun(f, call.cand)
    BY <1>1, <2>1, <2>2 DEF Begun
  <2>. QED BY <2>3, BegunAlone
<1>. QED BY <1>2, <1>3

LEMMA ResolveAlone == ASSUME IInv, Alone, NEW c, NEW call, Resolve(c, call) PROVE Alone' /\ AsksOnce
<1>1. CASE cache.file = "unread"
  BY <1>1, StaysAlone DEF Resolve, Stays, Alone
<1>2. CASE cache.file # "unread"
  BY <1>2, LookAlone DEF Resolve
<1>. QED BY <1>1, <1>2

\* Nothing happens to the cold resolves, or to what is known.
LEMMA QuietAlone == ASSUME IInv, Alone, UNCHANGED <<flights, records>> PROVE Alone' /\ AsksOnce
BY StaysAlone DEF Stays, Alone

LEMMA SettledAlone ==
  ASSUME IInv, Alone, NEW f \in Flights, UnderWay(f), NEW ok, Settled(f, ok)
  PROVE  Alone' /\ AsksOnce
<1>. DOMAIN flights = Flights /\ "cand" \in DOMAIN flights[f]
  BY DEF IInv, Shape, Alone
<1>1. records' \subseteq records \cup {flights[f].cand}
  BY DEF Settled, Recorded
<1>2. CASE setup.persistent
  <2>1. flights' = [flights EXCEPT ![f] = [@ EXCEPT !.at = "save", !.tries = 0, !.ok = ok]]
    BY <1>2 DEF Settled, IInv, Shape
  <2>2. /\ "cand" \in DOMAIN flights'[f] /\ flights'[f].cand = flights[f].cand
        /\ flights'[f].at = "save" /\ \A g \in Flights \ {f} : flights'[g] = flights[g]
    BY <2>1 DEF IInv, Shape
  <2>3. GoesOn(f)
    BY <1>1, <2>2 DEF GoesOn
  <2>. QED BY <2>3, GoesOnAlone
<1>3. CASE ~setup.persistent
  <2>1. flights'[f] = Free /\ \A g \in Flights \ {f} : flights'[g] = flights[g]
    BY <1>3 DEF Settled
  <2>2. GoesOn(f)
    BY <1>1, <2>1, FreeIsFree, FreeCandidate DEF GoesOn
  <2>. QED BY <2>2, GoesOnAlone
<1>. QED BY <1>2, <1>3

LEMMA LandedAlone ==
  ASSUME IInv, Alone, NEW f \in Flights, UnderWay(f), NEW ok, Landed(f, ok), records' = records
  PROVE  Alone' /\ AsksOnce
<1>1. flights'[f] = Free /\ \A g \in Flights \ {f} : flights'[g] = flights[g]
  BY DEF Landed, IInv, Shape
<1>2. GoesOn(f)
  BY <1>1, FreeIsFree, FreeCandidate DEF GoesOn
<1>. QED BY <1>2, GoesOnAlone

\* The next attempt, the next query, the first of either, or a topic that could not be saved.
LEMMA NextTry ==
  ASSUME IInv, Alone, NEW f \in Flights, UnderWay(f), records' \subseteq records,
         \/ flights' = [flights EXCEPT ![f].tries = @ - 1]
         \/ flights' = [flights EXCEPT ![f].ok = FALSE]
         \/ \E at, tries : flights' = [flights EXCEPT ![f].at = at, ![f].tries = tries]
  PROVE  Alone' /\ AsksOnce
<1>. DOMAIN flights = Flights /\ "cand" \in DOMAIN flights[f]
  BY DEF IInv, Shape, Alone
<1>1. \A g \in Flights \ {f} : flights'[g] = flights[g]
  OBVIOUS
<1>2. "cand" \in DOMAIN flights'[f] /\ flights'[f].cand = flights[f].cand
  OBVIOUS
<1>3. GoesOn(f)
  BY <1>1, <1>2 DEF GoesOn
<1>. QED BY <1>3, GoesOnAlone

LEMMA FlyAlone == ASSUME IInv, Alone, NEW f \in Flights, Fly(f) PROVE Alone' /\ AsksOnce
<1>1. CASE Begin(f)
  <2>. UnderWay(f)
    BY <1>1 DEF Begin, UnderWay
  <2>1. \/ records' = records /\ flights' = [flights EXCEPT ![f].tries = @ - 1]
        \/ records' = records /\ Landed(f, FALSE)
        \/ Settled(f, FALSE)
        \/ Ask(f)
    BY <1>1 DEF Begin
  <2>2. CASE Ask(f)
    BY <2>2, NextTry DEF Ask
  <2>. QED BY <2>1, <2>2, NextTry, LandedAlone, SettledAlone
<1>2. CASE Save(f)
  BY <1>2, LandedAlone DEF Save, Writing, UnderWay
<1>3. CASE SaveFails(f)
  <2>. UnderWay(f)
    BY <1>3 DEF SaveFails, Writing, UnderWay
  <2>1. CASE flights[f].ok
    <3>1. records' \subseteq records /\ flights' = [flights EXCEPT ![f].ok = FALSE]
      BY <1>3, <2>1 DEF SaveFails, Recorded
    <3>. QED BY <3>1, NextTry
  <2>2. CASE ~flights[f].ok
    BY <1>3, <2>2, LandedAlone DEF SaveFails
  <2>. QED BY <2>1, <2>2
<1>4. CASE Write(f)
  <2>. UnderWay(f)
    BY <1>4 DEF Write, UnderWay
  <2>1. \/ records' = records /\ flights' = [flights EXCEPT ![f].tries = @ - 1]
        \/ \E ok : Settled(f, ok)
    BY <1>4 DEF Write
  <2>. QED BY <2>1, NextTry, SettledAlone
<1>. QED BY <1>1, <1>2, <1>3, <1>4 DEF Fly

\* A request that is first in the line is a cold resolve's that is under way, or the refresh task's.
LEMMA FirstUnderWay ==
  ASSUME IInv, line # <<>>, Head(line).by # Refresh
  PROVE  Head(line).by \in Flights /\ UnderWay(Head(line).by)
BY FirstGoes DEF IInv, Lined, UnderWay

LEMMA LineAlone == ASSUME IInv, Alone, Turn \/ Answer PROVE Alone' /\ AsksOnce
<1>1. CASE Turn /\ Head(line).by = Refresh
  BY <1>1, QuietAlone DEF Turn
<1>2. CASE Turn /\ Head(line).by # Refresh
  BY <1>2, FirstUnderWay, SettledAlone DEF Turn
<1>3. CASE Answer
  <2>. PICK f \in Flights : f = Head(line).by /\ UnderWay(f)
    BY <1>3, FirstUnderWay DEF Answer
  <2>1. \/ \E ok : Settled(f, ok)
        \/ records' = records /\ flights' = [flights EXCEPT ![f].tries = @ - 1]
        \/ records' = records /\ flights' = [flights EXCEPT ![f].at = "write", ![f].tries = Attempts]
    BY <1>3 DEF Answer, Refused, Searched, Confirmed, Paged, Selected
  <2>. QED BY <2>1, SettledAlone, NextTry
<1>. QED BY <1>1, <1>2, <1>3

LEMMA AbortAlone == ASSUME IInv, Alone, NEW c, Abort(c), records' = records PROVE Alone' /\ AsksOnce
<1>1. \A g \in Flights : /\ "cand" \in DOMAIN flights'[g] /\ flights'[g].at = flights[g].at
                         /\ flights'[g].cand = flights[g].cand
                         /\ flights[g] = Free => flights'[g] = Free
  BY DEF Abort, IInv, Shape, Alone
<1>. QED BY <1>1, StaysAlone DEF Stays

LEMMA AloneSteps == ASSUME IInv, Alone, [Next]_vars PROVE Alone' /\ [AsksOnce]_vars
<1>1. CASE FileRead
  <2>. cache.file = "reading"
    BY <1>1 DEF FileRead
  <2>1. flights' = flights \/ \E c, call, known : Look(c, call, known)
    BY <1>1 DEF FileRead
  <2>. QED BY <2>1, LookAlone, StaysAlone DEF Stays, Alone
<1>2. CASE \E f \in Flights : Fly(f)
  BY <1>2, FlyAlone
<1>3. CASE Turn \/ Answer
  BY <1>3, LineAlone
<1>4. CASE \E r \in Rooms : Prepare(r)
  <2>1. (\E c, call : Resolve(c, call)) \/ UNCHANGED <<flights, records>>
    BY <1>4 DEF Prepare, Ready
  <2>. QED BY <2>1, ResolveAlone, QuietAlone
<1>5. CASE (\E c \in Callers : Timeout(c)) \/ CloseRefresher
  BY <1>5, AbortAlone DEF Timeout, CloseRefresher
<1>6. CASE Tick \/ RefreshTimeout \/ Persist \/ \E batch \in Batches : Fetched(batch)
  BY <1>6, QuietAlone DEF Tick, RefreshTimeout, Persist, Fetched
<1>7. CASE Warm
  <2>1. (\E c, call : Resolve(c, call)) \/ UNCHANGED <<flights, records>>
    BY <1>7 DEF Warm
  <2>. QED BY <2>1, ResolveAlone, QuietAlone
<1>8. CASE UNCHANGED vars
  BY <1>8, QuietAlone DEF vars
<1>. QED BY <1>1, <1>2, <1>3, <1>4, <1>5, <1>6, <1>7, <1>8 DEF Next

(***************************************************************************)
(* cached-topic-provider.ts, persistent-topic-cache.ts: for any callers    *)
(* and candidates, in every order of failures, aborts and shutdowns, a     *)
(* candidate that is asked for, or known, is not asked for again, but for  *)
(* what the file brings while it is read for the first time.               *)
(***************************************************************************)
THEOREM CandidatesAreAskedOnce == Spec => AskedOnce
<1>1. Init => IInv /\ Alone
  <2>1. Init => Alone
    BY FreeIsFree, FreeCandidate DEF Init, Alone, UnderWay
  <2>. QED BY <2>1, Initially
<1>2. IInv /\ Alone /\ [Next]_vars => IInv' /\ Alone' /\ [AsksOnce]_vars
  BY Steps, AloneSteps
<1>. QED BY <1>1, <1>2, PTL DEF Spec, AskedOnce
=============================================================================
