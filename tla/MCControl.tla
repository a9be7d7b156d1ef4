------------------------------ MODULE MCControl ------------------------------
(* A server with the layout files of the repository, two supermodules of   *)
(* the thirty-six.                                                         *)
EXTENDS Control
L == INSTANCE Layouts WITH Supermodules <- {"EB-01", "EB+01"}
Shipped == 1

(* Of each file, what is shown by none of its layouts in the end, though   *)
(* one was registered to show it: the calls of a file hide nothing of each *)
(* other, but that those for the PN diodes of the pedestals have one path  *)
(* (eb-layouts.py, lines 136 and 143).                                     *)
Calls == [dt |-> L!dtlayout, eb |-> L!eblayout, l1t |-> L!l1tlayout]
Hidden ==
  [f \in DOMAIN Calls |->
     LET table == L!Registered(Calls[f])
         shows == UNION {Calls[f][k].shows : k \in DOMAIN Calls[f]}
     IN {SubSeq(object, 1, 3) : object \in shows \ UNION {table[p] : p \in DOMAIN table}}]
Known == {<<"Pedestal", "quality", gain>> : gain \in {"PNs G01", "PNs G16"}}
===============================================================================
