-------------------------------- MODULE MCRoom --------------------------------
(* Instances of RoomRuntime for TLC. *)
EXTENDS RoomRuntime, TLC

CONSTANTS p1, p2, c1, c2

\* One seating of two players: the shadow, the AI and the human in this order.
OneSeating ==
  {<<[role |-> "shadow", participantId |-> p1], [role |-> "ai", participantId |-> NoOne],
     [role |-> "human", participantId |-> p2]>>}

Call(p, id, command) == [participant |-> p, commandId |-> id, command |-> command]

\* The second player gives the same id to two commands.
LobbyCalls ==
  {Call(p1, c1, [type |-> "join"]), Call(p1, c2, [type |-> "ready", ready |-> TRUE]),
   Call(p2, c1, [type |-> "join"]), Call(p2, c2, [type |-> "ready", ready |-> TRUE]),
   Call(p2, c1, [type |-> "ready", ready |-> TRUE])}

PlayCalls ==
  {Call(p2, c1, [type |-> "answer", round |-> 1, valid |-> TRUE]),
   Call(p2, c2, [type |-> "vote", target |-> 2])}

RivalCalls == {Call(p2, c1, [type |-> "answer", round |-> 1, valid |-> TRUE])}

\* A stored room whose table is full and ready and has no topic yet.
FullTable ==
  LET joined == Join(Join(CreateGame(CHOOSE m \in MatchIds : TRUE, 0), p1), p2)
  IN SetReady(SetReady(joined, p1, TRUE, 0), p2, TRUE, 0)

SpecReady == InitWith(FullTable) /\ [][Next]_vars

FairSpecReady == SpecReady /\ Fairness

Alike == Permutations(Runtimes)
=============================================================================
