------------------------------ MODULE MCDelivery ------------------------------
(* An instance of ClientDelivery for TLC. *)
EXTENDS ClientDelivery, FiniteSets

(***************************************************************************)
(* Bound: a behaviour has one of three things more than the least: a       *)
(* second session, a second command, or a move of somebody else; with a    *)
(* second session commands are sent again by reconnecting only.            *)
(***************************************************************************)
SecondSession == Cardinality({s \in Sessions : sessions[s] # "new"}) > 1
SecondCommand == Cardinality({c \in Commands : issued[c] # NoSession}) > 1
SomebodyElse ==
  \E s \in Sessions :
    rooms[s] > Cardinality({c \in Commands : issued[c] = s /\ decided[c] = "ok"})

Extra(thing) == IF thing THEN 1 ELSE 0

OneExtra ==
  /\ Extra(SecondSession) + Extra(SecondCommand) + Extra(SomebodyElse) <= 1
  /\ SecondSession => page.attempts <= 1
=============================================================================
