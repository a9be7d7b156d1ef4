------------------------------- MODULE MCClients -------------------------------
(***************************************************************************)
(* What comes to the server and goes from it beside its pages, one part in *)
(* each behaviour: uploads and their handlers, the receive daemon,         *)
(* and the client that lists the server's directories.                     *)
(***************************************************************************)
EXTENDS MCReceiveDaemon

CONSTANTS
  Threads, Requests, MaxPuts, MaxFaults, Nobody, Empty,  \* uploads
  Handles, Tree, Roots, MaxErrors                        \* listing

VARIABLES
  active,                                                \* the part of this behaviour
  file, mark, temps, lock, put, answer, request, puts, taker, received, faults,
  environ, ssl, queue, free, sent, npending, at, asked, errors, responses, failures

receiveVars == vars
uploadVars == <<file, mark, temps, lock, put, answer, request, puts, taker, received, faults>>
listVars == <<environ, ssl, queue, free, sent, npending, at, asked, errors, responses, failures>>

Directories ==
  [d \in {"/", "a", "b", "c", "d", "r", "s"} |->
     CASE d = "/" -> {"a", "b", "c"} [] d = "a" -> {"d"} [] d = "r" -> {"s"} [] OTHER -> {}]

Put == INSTANCE Uploads WITH asked <- request, daemon <- taker
List == INSTANCE RequestManager

ASSUME UploadsAssumption == Put!Parameters
ASSUME ListAssumption == List!Forest

--------------------------------------------------------------------------------
RootOrder == <<"/", "r">>

(* The uploads that TLC tries: the handlers of DQM/GUI.py, and what can be *)
(* wrong with what is sent to them.                                        *)
SomeRequests ==
  {[handler |-> "data", args |-> "fine", body |-> b] : b \in {"whole", "foreign"}}
    \cup {[handler |-> "snapshot", args |-> "fine", body |-> b] : b \in {"whole", "short"}}
    \cup {[handler |-> "layout", args |-> a, body |-> "whole"] : a \in {"fine", "stranger"}}

ClientsInit ==
  /\ active \in {"receive", "uploads", "list"}
  (* A part that is not used begins in one way. *)
  /\ IF active = "receive" THEN TRUE ELSE mix = (CHOOSE m \in Mixes : TRUE)
  /\ IF active = "list" THEN TRUE ELSE environ = (CHOOSE e \in List!Environments : TRUE)
  /\ Init /\ Put!Init /\ List!Init

ClientsNext ==
  /\ UNCHANGED active
  /\ \/ active = "receive" /\ Next /\ UNCHANGED <<uploadVars, listVars>>
     \/ active = "uploads" /\ Put!Step /\ UNCHANGED <<receiveVars, listVars>>
     \/ active = "list" /\ List!Next /\ UNCHANGED <<receiveVars, uploadVars>>

allVars == <<active, receiveVars, uploadVars, listVars>>

(* The process of the daemon and the threads of the server run while they  *)
(* have something to do, and curl ends every transfer.                     *)
Running(t) ==
  /\ UNCHANGED active
  /\ \/ active = "receive" /\ t = 1 /\ Working /\ UNCHANGED <<uploadVars, listVars>>
     \/ active = "uploads" /\ Put!Answering(t) /\ UNCHANGED <<receiveVars, listVars>>
     \/ active = "list" /\ t = 1 /\ List!Pump /\ UNCHANGED <<receiveVars, uploadVars>>

ClientsSpec ==
  /\ ClientsInit /\ [][ClientsNext]_allVars
  /\ \A t \in Threads : WF_allVars(Running(t))
  /\ SF_listVars(active = "list" /\ List!Ends)

--------------------------------------------------------------------------------
(* The properties of the parts by the names the configuration can use.     *)
(* A data file or a snapshot is the whole body of one upload, and the      *)
(* .origin of a data file is its own, whatever fails or takes them at the  *)
(* same time (DQM/GUI.py, lines 222-306).                                  *)
WholeFiles == Put!OnlyWholeFiles /\ Put!OwnOrigin

(* Two uploads of one name do not get the same version (DQM/GUI.py, lines  *)
(* 255-262).                                                               *)
NeverOverwritten == Put!NeverOverwritten

(* A listing shows every directory once, whatever requests fail            *)
(* (Core/HTTP.py, lines 126-163).                                          *)
ListingComplete == List!ListingComplete

(* An upload that waits, a thread with a request, a process() that runs.   *)
Busy(k) ==
  CASE active = "receive" -> Waiting(k) /\ ~\E i \in Uploaded : Waiting(i) /\ Trips(i)
    [] active = "uploads" -> ~Put!At(k, "idle")
    [] active = "list" -> at \notin {"start", "returned", "ended"}

(* What is begun ends: a complete file is received or marked, unless       *)
(* another breaks the rounds; an upload is answered and gives its lock     *)
(* back; process() returns.                                                *)
WorkEnds == \A k \in Threads : Busy(k) ~> ~Busy(k)
================================================================================
