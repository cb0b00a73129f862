-------------------------------- MODULE MCTopics --------------------------------
(* An instance of Topics for TLC. *)
EXTENDS Topics

CuratedList == <<"k1">>
SnapshotSet == {<<>>, <<"q1">>}

\* Without a platform, without a pool, and the two kinds of cache with one.
Plain ==
  [mode |-> "static", persistent |-> FALSE, order |-> "curated-first", fallback |-> "static",
   rolling |-> FALSE, warmNew |-> FALSE, stops |-> FALSE]

Verified == [Plain EXCEPT !.mode = "verified", !.persistent = TRUE]

Filed == [Verified EXCEPT !.mode = "recommended", !.rolling = TRUE, !.warmNew = TRUE]

InMemory ==
  [Filed EXCEPT !.persistent = FALSE, !.order = "dynamic-first", !.fallback = "fail", !.stops = TRUE]

SetupSet == {Plain, Verified, Filed, InMemory}
=============================================================================
