------------------------------ MODULE Overlays ------------------------------
(***************************************************************************)
(* A plot with references drawn over it: the browser names the object and  *)
(* the references with a label each (Canvas.js), the overlay source pairs  *)
(* objects and labels and leaves out what no source provides               *)
(* (DQMOverlaySource.plot), the back-end collects the objects and drops    *)
(* those that cannot be drawn together (VisDQMOverlaySource::plot).        *)
(***************************************************************************)
EXTENDS Integers, Sequences, SequencesExt

CONSTANTS
  MaxReferences,
  None

VARIABLES
  link,    \* the address: objects and labels
  wanted,  \* ghost: of each reference the label it should get
  final,   \* what is passed to the back-end, or None when plot() raises
  drawn,   \* what is drawn, with its labels
  at

vars == <<link, wanted, final, drawn, at>>

(* An object: the source it is asked of, its run, what it turns out to be. *)
Sources == {"archive", "live"}
Types == {"histogram", "profile", "missing"}
Object(src, run, type) == [src |-> src, run |-> run, type |-> type]
Objects == [src : {"archive", "live", "unknown", "gone"}, run : {0}, type : Types]

(* A reference as the user defines it: of another run or of the same, with *)
(* a label or without.  References to live and unknown objects are sought  *)
(* in the archive.                                                         *)
References == [run : {None, 1, 2}, label : {None, "A", "B"}, type : Types]
Referred(main, ref) ==
  Object(IF main.src \in {"live", "unknown"} THEN "archive" ELSE main.src,
         IF ref.run = None THEN main.run ELSE ref.run, ref.type)
RunLabel(run) == <<"run", run>>
LabelOf(main, ref) ==
  IF ref.label # None THEN <<"label", ref.label>> ELSE RunLabel(Referred(main, ref).run)

Init ==
  /\ \E main \in Objects, refs \in UNION {[1 .. n -> References] : n \in 1 .. MaxReferences} :
     \E old \in BOOLEAN :  \* an address from before labels
       /\ link = [objs |-> <<main>> \o [i \in DOMAIN refs |-> Referred(main, refs[i])],
                  labels |-> IF old THEN <<>> ELSE [i \in DOMAIN refs |-> LabelOf(main, refs[i])]]
       /\ wanted = [i \in DOMAIN refs |->
                     IF old THEN RunLabel(Referred(main, refs[i]).run) ELSE LabelOf(main, refs[i])]
  /\ final = None /\ drawn = <<>> /\ at = "asked"

(* Slip: the label of the object itself is left out. *)
PairedBare(acc, i, o) ==
  [labels |-> IF i > Len(acc.labels) THEN Append(acc.labels, RunLabel(o.run)) ELSE acc.labels,
   final |-> acc.final, raised |-> acc.raised]

(* One object of the loop: the object itself gets the label "Ignore" put   *)
(* before the others, a reference without one its run.  An index beyond    *)
(* the labels, or as many labels as objects missing at the end, raises.    *)
Paired(acc, i, o) ==
  [labels |-> IF i = 1 THEN <<<<"Ignore">>>> \o acc.labels
              ELSE IF i > Len(acc.labels) THEN Append(acc.labels, RunLabel(o.run))
              ELSE acc.labels,
   final |-> acc.final, raised |-> acc.raised]

Take(acc, i, o) ==
  LET p == Paired(acc, i, o)
  IN IF o.src \notin Sources THEN acc
     ELSE IF i > Len(p.labels) THEN [p EXCEPT !.raised = TRUE]
     ELSE [p EXCEPT !.final = Append(@, [object |-> o, index |-> i, label |-> p.labels[i]])]

Pair ==
  /\ at = "asked"
  /\ LET acc == FoldLeft(LAMBDA a, i : Take(a, i, link.objs[i]),
                         [labels |-> link.labels, final |-> <<>>, raised |-> FALSE],
                         [i \in DOMAIN link.objs |-> i])
     IN IF ~acc.raised /\ Len(acc.labels) = Len(link.objs)
        THEN final' = acc.final /\ at' = "paired"
        ELSE final' = None /\ at' = "failed"
  /\ UNCHANGED <<link, wanted, drawn>>

(* The back-end: what is there, and of the type of the first.  The label   *)
(* goes with the place among those that are drawn; the first shows none.   *)
Collect ==
  /\ at = "paired"
  /\ drawn' = FoldLeft(LAMBDA d, f :
       IF f.object.type = "missing" \/ (d # <<>> /\ d[1].object.type # f.object.type) THEN d
       ELSE Append(d, f), <<>>, final)
  /\ at' = "drawn"
  /\ UNCHANGED <<link, wanted, final>>

Next == Pair \/ Collect
Spec == Init /\ [][Next]_vars

--------------------------------------------------------------------------------
OwnLabel(d) == \A k \in 2 .. Len(d) : d[k].label = wanted[d[k].index - 1]

NextLabel(d) ==
  \A k \in 2 .. Len(d) :
    d[k].label = IF d[k].index \in DOMAIN wanted THEN wanted[d[k].index] ELSE RunLabel(d[k].object.run)

(* Every reference drawn over an object bears the label it was given, or   *)
(* its run where the address is from before labels, also when references   *)
(* before it are missing or of another type.  An object nothing is known   *)
(* of costs its references their labels: each bears the label of the one   *)
(* after it and the last its run, and an address from before labels is an  *)
(* error, like one that names a source the server no longer has (plot,     *)
(* lines 629-647).                                                         *)
LabelsKept ==
  LET src == link.objs[1].src IN
  /\ src \in Sources => at # "failed" /\ OwnLabel(drawn)
  /\ src = "unknown" =>
       IF link.labels = <<>> THEN at \in {"asked", "failed"}
       ELSE at # "failed" /\ NextLabel(drawn)
  /\ src = "gone" => at \in {"asked", "failed"}

(* "the symmetry will be kept between obj and reflabel (modulo the insert  *)
(* below)" (DQM/GUI.py, lines 623-624).                                    *)
SymmetryKept == OwnLabel(drawn)
=============================================================================
