-------------------------------- MODULE MCIndex --------------------------------
(***************************************************************************)
(* The index on disk, one instance in each behaviour: updates that fail    *)
(* and die, with a sample that is imported, removed and imported again;    *)
(* updates in which the versions of files wrap around and full files push  *)
(* new samples on to the next; and threads that serve one sample while it  *)
(* is updated and their reloads fail.                                      *)
(***************************************************************************)
EXTENDS ArchiveSource

VARIABLE active

TwoImported == <<"s1", "s2">>

Wrap ==
  INSTANCE VisDQMIndex WITH
    Removable <- {"s2", "s4"}, Versions <- 2, FileLimit <- 3, MaxCrashes <- 0

Serving ==
  INSTANCE ArchiveSource WITH
    Samples <- {"s2"}, Objects <- {"o1"}, Imported <- <<"s2">>, Importable <- {"s2"},
    Removable <- {}, MaxIndex <- 0, MaxTx <- 1, MaxCrashes <- 0

--------------------------------------------------------------------------------
IndexInit ==
  /\ active \in {"update", "wrap", "serve"}
  /\ CASE active = "update" -> Init
       [] active = "wrap" -> Wrap!Init
       [] active = "serve" -> Serving!Init
  /\ Serving!ServerInit

IndexNext ==
  /\ UNCHANGED active
  /\ \/ active = "update" /\ Next /\ UNCHANGED server
     \/ active = "wrap" /\ Wrap!Next /\ UNCHANGED server
     \/ active = "serve" /\ Serving!Both

(* The machine does not stand still while a thread, or the updater once it *)
(* runs, can go on; which of them goes on is left open.                    *)
Work ==
  /\ active = "serve"
  /\ \/ Serving!Update /\ UNCHANGED server
     \/ \E t \in Threads : Serving!Serve(t) /\ UNCHANGED vars

IndexSpec == IndexInit /\ [][IndexNext]_<<active, allvars>> /\ WF_allvars(Work)

--------------------------------------------------------------------------------
(* A data file that some committed generation has named is never written   *)
(* again, only removed, so that readers may keep it open, until versions   *)
(* wrap around ("the data contents remain valid and consistent as long as  *)
(* those files remain open", VisDQMIndex.h).                               *)
PublishedUntouched == [][active # "wrap" => Untouched]_vars
================================================================================
