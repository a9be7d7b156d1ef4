--------------------------- MODULE MCVisDQMIndex ---------------------------
(* Values of the constants of VisDQMIndex for the model checker.           *)
EXTENDS VisDQMIndex

NothingImported == <<>>
OneImported == <<"s1">>
TwoImported == <<"s1", "s2">>

Promised == INSTANCE AtomicIndex WITH
              index <- IF "late" \in accidents THEN <<>> ELSE Committed,
              sound <- "late" \notin accidents

(* "Each index generation is read and updated atomically" (VisDQMIndex.h), *)
(* whatever a dead updater has left behind: "If the requested file already *)
(* exists, it is truncated, which allows the callers to restart failed /   *)
(* died / aborted transactions which did not manage to fully clean up      *)
(* after themselves" (VisDQMIndex.cc).                                     *)
AlwaysAtomic == Promised!Spec
==============================================================================
