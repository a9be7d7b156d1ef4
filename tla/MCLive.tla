-------------------------------- MODULE MCLive --------------------------------
(***************************************************************************)
(* The network, one instance in each behaviour: histograms that change and *)
(* go, under way when the connection of the viewer breaks; the same with   *)
(* fewer changes and requests that are given up, for what must happen in   *)
(* the end; and a source with two histograms, whose lists come in parts.   *)
(***************************************************************************)
EXTENDS DQMNet

VARIABLE active

Changing == INSTANCE DQMNet WITH Removes <- TRUE, MaxChanges <- 2, MaxExpired <- 0

Double ==
  INSTANCE DQMNet WITH
    Names <- {"a", "b"}, Breakable <- {}, MaxChanges <- 3, MaxAsks <- 0

--------------------------------------------------------------------------------
LiveInit ==
  /\ active \in {"settle", "change", "double"}
  /\ CASE active = "settle" -> Init
       [] active = "change" -> Changing!Init
       [] active = "double" -> Double!Init

LiveNext ==
  /\ UNCHANGED active
  /\ \/ active = "settle" /\ Next
     \/ active = "change" /\ Changing!Next
     \/ active = "double" /\ Double!Next

(* The event loop of every node goes round, and threads are scheduled.     *)
Runs(A) == active = "settle" /\ A
LiveSpec ==
  /\ LiveInit /\ [][LiveNext]_<<active, vars>>
  /\ \A m \in Clients : WF_vars(Runs(Connect(m)))
  /\ \A c \in Conns : WF_vars(Runs(Accept(c)))
  /\ \A n \in Nodes, c \in Conns : WF_vars(Runs(LosePeer(n, c))) /\ WF_vars(Runs(Handle(n, c)))
  /\ \A n \in Nodes : WF_vars(Runs(Flush(n)))
  /\ \A n \in Nodes, s \in Slots : WF_vars(Runs(Expire(n, s)))
  /\ \A f \in Fetchers : WF_vars(Runs(FetchRequest(f))) /\ WF_vars(Runs(FetchWake(f)))

--------------------------------------------------------------------------------
(* What the viewer lists is in the end what the source has (DQMNet.cc,     *)
(* lines 690-700).                                                         *)
ListsConverge == active = "settle" => Converges

(* A fetch ends, whatever becomes of the connections (serverext.cc, lines  *)
(* 2800-2850).                                                             *)
FetchesEnd == active = "settle" => FetchEnds

(* Where no source removes an object it is forgotten only together with    *)
(* its connection, although lists are processed and passed on in parts     *)
(* (DQMNet.cc, lines 540-560).                                             *)
ObjectsStayListed ==
  [][active # "change" =>
       \A n \in Nodes : \A c \in peers'[n] : DOMAIN objs[n][c] \subseteq DOMAIN objs'[n][c]]_vars
================================================================================
