-------------------------------- MODULE MCPages --------------------------------
(***************************************************************************)
(* What the pages of the server show, one part in each behaviour: the DQM  *)
(* workspaces and the overview workspaces as users go through them, the    *)
(* event display, references drawn over an object, and the layouts and the *)
(* plug-in the server is started with.                                     *)
(***************************************************************************)
EXTENDS MCWorkspaces

LayoutOrder == <<"dt", "eb", "l1t">>

CONSTANTS MaxPlots, Wrong, LAYOUTS, MaxEdits, MaxKills

VARIABLES
  active,                                 \* the part of this behaviour
  page, kept, visitor, starts,      \* overview
  snapshots, display, view, removals,     \* event display
  link, wanted, final, drawn, at,         \* overlays
  files, newer, sources, binaries, json, ctl, server, edits, kills, arrives  \* start

dqmVars == vars
overviewVars == <<page, kept, visitor, starts>>
displayVars == <<snapshots, display, view, removals>>
overlayVars == <<link, wanted, final, drawn, at>>
startVars == <<files, newer, sources, binaries, json, ctl, server, edits, kills, arrives>>

Users2 == INSTANCE OverviewUsers
Overview ==
  INSTANCE OverviewWorkspaces WITH session <- page, saved <- kept, user <- visitor,
    restarts <- starts, Users <- Users2!SomeUsers

Display ==
  INSTANCE EventDisplay WITH session <- display, Dates <- {1, 2}, Times <- {9, 10, 11},
    MaxRemovals <- 1

Overlay == INSTANCE Overlays WITH MaxReferences <- 2

Control == INSTANCE MCControl WITH Versions <- {1, 2}, Broken <- {2}

--------------------------------------------------------------------------------
PagesInit ==
  /\ active \in {"dqm", "overview", "display", "overlay", "start"}
  /\ IF active = "start" THEN TRUE ELSE files = [f \in {LAYOUTS[k] : k \in DOMAIN LAYOUTS} |-> None]
  /\ Init /\ Overview!Init /\ Display!Init /\ Control!Init
  (* A part that is not used begins in one way. *)
  /\ active # "dqm" => config = (CHOOSE c \in SomeConfigs : TRUE) /\ user = Navigator
  /\ active # "overview" => visitor = Users2!Visitor
  /\ IF active = "overlay" THEN Overlay!Init
     ELSE link = None /\ wanted = None /\ final = None /\ drawn = <<>> /\ at = "not asked"

PagesNext ==
  /\ UNCHANGED active
  /\ \/ active = "dqm" /\ Next /\ UNCHANGED <<overviewVars, displayVars, overlayVars, startVars>>
     \/ active = "overview" /\ Overview!Next /\ UNCHANGED <<dqmVars, displayVars, overlayVars, startVars>>
     \/ active = "display" /\ Display!Next /\ UNCHANGED <<dqmVars, overviewVars, overlayVars, startVars>>
     \/ active = "overlay" /\ Overlay!Next /\ UNCHANGED <<dqmVars, overviewVars, displayVars, startVars>>
     \/ active = "start" /\ Control!Next
        /\ UNCHANGED <<dqmVars, overviewVars, displayVars, overlayVars>>

allVars == <<active, dqmVars, overviewVars, displayVars, overlayVars, startVars>>

PagesSpec == PagesInit /\ [][PagesNext]_allVars

--------------------------------------------------------------------------------
(* The properties of the parts by the names the configuration can use.     *)
(* A production plot shows what its fields say, though _updateURLs does    *)
(* one plot at a time (Overview/ProdMon.py, lines 191-230).                *)
PlotsDescribed == Overview!PlotsDescribed

(* A session whose page cannot be drawn can be mended by closing a plot or *)
(* moving to another (Overview/ProdMon.py, lines 310-360).                 *)
CanBeMended == Overview!CanBeMended

(* The end of a period is the end of what the user typed, in the unit he   *)
(* chose (Overview/PhEDEx.py, lines 1085-1160).                            *)
PeriodMatches == Overview!PeriodMatches

(* What monControl starts has the last change of every file, but for the   *)
(* changes it cannot tell (bin/monControl, lines 79-154), and no call of a *)
(* layout file of the repository hides an object of another, but for the   *)
(* two that are known (etc/config).                                        *)
Hidden == Control!Hidden
LayoutsArrive ==
  /\ Control!EditsArrive
  /\ [](server # None =>
         \A f \in DOMAIN Hidden : <<f, Control!Shipped>> \in server.layouts =>
           Hidden[f] = IF f = "eb" THEN Control!Known ELSE {})

(* Who has chosen an event goes on seeing it while others arrive, or the   *)
(* one before it when one of an earlier time arrives late                  *)
(* (DQM/EventDisplay.py, lines 196-229).                                   *)
ImageStays == Display!ImageStays

(* References drawn over an object bear their own labels, and those of an  *)
(* object that is not known each the next one's (DQM/GUI.py, lines         *)
(* 629-647).                                                               *)
LabelsKept == active = "overlay" => Overlay!LabelsKept
================================================================================
