--------------------------- MODULE OverviewSources ---------------------------
(***************************************************************************)
(* The two sources of the overview whose threads share data under locks:   *)
(* the transfer plots, with their caches of images and of rows, and the    *)
(* use of the disk of the analysis facility.  They are in one process and  *)
(* have nothing in common; their parameters and their state are declared   *)
(* here together, and what must hold of them.                              *)
(***************************************************************************)
EXTENDS Integers

CONSTANTS
  Requests, Images, Drawing, Interval, Asks, ImageLife, RowsLife,  \* transfer plots
  MaxClock, MaxBusy, MaxFailures,                                  \* bounds of theirs
  Readers, DiskPlots, rxlist, Reports, Totals,                     \* the disk
  None

VARIABLES
  clock, source, imgcache, entry, rows, pc, requested, since, cached, began, data, drawn, failures,
  lock, cafstop, stopping, provider, disk, total, pcs, group, shown

phedexVars == <<clock, source, imgcache, entry, rows, pc, requested, since, cached, began, data,
                drawn, failures>>
diskVars == <<lock, cafstop, stopping, provider, disk, total, pcs, group, shown>>

PhEDEx ==
  INSTANCE PhEDExSource WITH asked <- requested, answer <- drawn, MaxTime <- MaxClock

CAF ==
  INSTANCE CAFData WITH stopme <- cafstop, data <- disk, pc <- pcs, Requests <- Readers,
    Answers <- Reports, Groups <- DiskPlots

ASSUME SourcesAssumption == PhEDEx!Parameters /\ CAF!Parameters

--------------------------------------------------------------------------------
(* Transfer plots are not drawn from rows older than the two caches allow  *)
(* together, however long a request waited for their locks, and one life   *)
(* of an image more for every drawing that failed, whose entry is valid    *)
(* again before it is drawn (Overview/PhEDEx.py, lines 668-720, 936-956).  *)
ImagesRecent == PhEDEx!ImagesRecent

(* Plots of the disk show one refresh, not one that is half done           *)
(* (Overview/CAF.py, lines 60-62).                                         *)
ValuesWhole == CAF!ValuesWhole

(* A request ends, though queries and drawings fail and the services never *)
(* answer: who holds a lock of the transfer plots gives it back            *)
(* (Overview/PhEDEx.py, lines 668-735), and the lock of the disk plots is  *)
(* free while the services are asked (Overview/CAF.py, line 45).  Only     *)
(* the thread of the disk that dies of an answer it cannot read leaves     *)
(* requests waiting.                                                       *)
RequestsEnd == PhEDEx!PlotsAnswered /\ CAF!ValuesAnswered
==============================================================================
