--------------------------- MODULE MCReceiveDaemon ---------------------------
(* Every name alone, twice; and three uploads of a few names.              *)
EXTENDS ReceiveDaemon

Offline(run, primary, processed, rundep) ==
  [kind |-> "offline", version |-> 1, run |-> run, parts |-> 3, primary |-> primary,
   processed |-> processed, rundep |-> rundep, cmssw |-> FALSE]
SomeNames ==
  [kind : {"offline"}, version : {1, 2}, run : {0, 1, 20000}, parts : {3, 4}, primary : Primaries,
   processed : Processed, rundep : BOOLEAN, cmssw : BOOLEAN]
  \cup {[Offline(run, "other", "unknown", FALSE) EXCEPT !.kind = kind, !.version = v] :
          run \in {10000, 20000}, kind \in {"online", "other"}, v \in {1, 2}}
Trap == Offline(30000, "other", "release", TRUE)
SomeMixes ==
  {{n} : n \in SomeNames} \cup
  {{Offline(20000, "other", "era", FALSE), Offline(20000, "RelValX", "release", TRUE),
    Offline(1, "other", "unknown", FALSE)},
   {Trap, Offline(20000, "other", "era", FALSE)}}
================================================================================
