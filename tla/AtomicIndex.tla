----------------------------- MODULE AtomicIndex -----------------------------
(***************************************************************************)
(* What the DQM index promises to the programs that use it (the comment of *)
(* class VisDQMIndex, VisDQMIndex.h): the index is a numbered list of      *)
(* samples, every sample holds monitor element objects in a summary file   *)
(* and in a data file, and an update happens entirely or not at all.       *)
(***************************************************************************)
EXTENDS Integers, Sequences

CONSTANTS
  Samples,     \* the (dataset, version, run) identities
  Objects,     \* the monitor element names
  Kinds,       \* the two halves of a sample, "info" and "data"
  Importable,  \* the samples an import may bring
  Removable,   \* the samples a removal may name
  Stamps       \* the import times

VARIABLES
  index,   \* the list of samples
  sound    \* whether the promise still stands

Record == [id    : Samples,
           shown : BOOLEAN,
           held  : [Kinds -> SUBSET (Objects \X Stamps)]]

TypeOK == index \in Seq(Record) /\ sound \in BOOLEAN

Positions(id) == {n \in DOMAIN index : index[n].id = id}

First(S) == CHOOSE n \in S : \A m \in S : n <= m

(* Imported objects replace those of the same name and leave the others.   *)
Refresh(held, objs, t) ==
  [k \in Kinds |-> {p \in held[k] : p[1] \notin objs} \cup (objs \X {t})]

AddNew(id, objs, t) ==
  /\ Positions(id) = {}
  /\ index' = Append(index,
                     [id    |-> id,
                      shown |-> TRUE,
                      held  |-> [k \in Kinds |-> objs \X {t}]])

(* A sample that was removed stays hidden when it is imported again:       *)
(* addFiles gives a count of objects to new samples only.                  *)
AddAgain(id, objs, t) ==
  /\ Positions(id) # {}
  /\ index' = [index EXCEPT ![First(Positions(id))].held = Refresh(@, objs, t)]

(* A removed sample keeps its number but holds nothing and is not shown.   *)
Remove(id) ==
  /\ Positions(id) # {}
  /\ LET n == First(Positions(id))
     IN  index' = [index EXCEPT ![n].shown = FALSE,
                                ![n].held = [k \in Kinds |-> {}]]

Update ==
  \/ \E id \in Importable, objs \in SUBSET Objects, t \in Stamps :
        objs # {} /\ (AddNew(id, objs, t) \/ AddAgain(id, objs, t))
  \/ \E id \in Removable : Remove(id)

(* Nothing is promised any more.  When that may happen is the implementing *)
(* specification's to say.                                                 *)
Lose == sound' = FALSE /\ index' = <<>>

Next == sound /\ ((Update /\ UNCHANGED sound) \/ Lose)

Spec == TypeOK /\ [][Next]_<<index, sound>>
==============================================================================
