------------------------------- MODULE MCSources -------------------------------
(***************************************************************************)
(* What the overview shows of other services, one source in each behaviour:*)
(* the plots that are drawn of their data, the caches and locks of the     *)
(* transfer plots, the images of other monitoring pages, the use of the    *)
(* disk of the analysis facility, and the pages on distributed transfers.  *)
(* The sources share the process of the server and no data.                *)
(***************************************************************************)
EXTENDS MCOverviewPlots, OverviewSources

VARIABLES
  active,                                            \* the source of this behaviour
  infosrc, pictures, imgstop, scraper, misses, whole,
  ddtclock, links, starts, page, pages

plotVars == vars
imageVars == <<infosrc, pictures, imgstop, scraper, misses, whole>>
pageVars == <<ddtclock, links, starts, page, pages>>

Scraper ==
  INSTANCE ImageScraper WITH images <- pictures, stopme <- imgstop, failures <- misses, Naps <- 2,
    MaxFailures <- 1

Transfers ==
  INSTANCE DDT WITH clock <- ddtclock, images <- links, Start0 <- 84600, Step <- 1800,
    MaxTicks <- 3, MaxStarts <- 2, MaxPages <- 1, Missing <- NoValue

--------------------------------------------------------------------------------
SomeDrawings == ("week" :> "chart") @@ ("hour" :> "table") @@ ("odd" :> "unknown")
SomeIntervals == ("week" :> <<0, 9>>) @@ ("hour" :> <<4, 5>>) @@ ("odd" :> <<0, 9>>)
Ask(image, part) == [image |-> image, part |-> part]
SomeAsks == <<{Ask("week", "plot"), Ask("hour", "info")},
              {Ask("week", "plot+legend"), Ask("hour", "info"), Ask("odd", "plot")},
              {Ask("week", "plot")}>>
OthersAtWork == <<0, 1, 0>>

(* The labels of overview-conf.py, a data set for each and one for none.   *)
DiskLabels == << [label |-> "alca", matches |-> {"AlCa"}], [label |-> "comm", matches |-> {"Cosmic"}],
                 [label |-> "phys", matches |-> {"AlCa", "Cosmic", "Higgs"}] >>
DiskBlock(ds, size, ctime) == [ds |-> ds, size |-> size, ctime |-> ctime]
DiskAnswers ==
  {<<DiskBlock("Higgs", 1, 3), DiskBlock("Cosmic", 2, 5), DiskBlock("Higgs", 2, 2)>>,
   <<DiskBlock("AlCa", 1, 1), DiskBlock("?", 0, 0)>>,  \* the last one malformed
   <<DiskBlock("Cosmic", 1, 4), DiskBlock("AlCa", 3, 3)>>}
DiskGroups ==
  {[label |-> "other", what |-> w] : w \in {"bydate", "bysize", "percent"}}
    \cup {[label |-> l, what |-> "percent"] : l \in {"phys", "?"}}
DiskSizes == {4}

--------------------------------------------------------------------------------
SourcesInit ==
  /\ active \in {"plots", "phedex", "images", "disk", "pages"}
  /\ Init /\ PhEDEx!Init /\ Scraper!Init /\ CAF!Init /\ Transfers!Init
  (* A source that is not asked begins in one way. *)
  /\ active # "plots" => which = CHOOSE w \in DOMAIN Worlds : TRUE
  /\ active # "images" => infosrc = Scraper!CompTier0Source
  /\ active # "disk" => group = [r \in Readers |-> CHOOSE g \in DiskPlots : TRUE]

SourcesNext ==
  /\ UNCHANGED active
  /\ \/ active = "plots" /\ Next /\ UNCHANGED <<phedexVars, imageVars, diskVars, pageVars>>
     \/ active = "phedex" /\ PhEDEx!Next /\ UNCHANGED <<plotVars, imageVars, diskVars, pageVars>>
     \/ active = "images" /\ Scraper!Next /\ UNCHANGED <<plotVars, phedexVars, diskVars, pageVars>>
     \/ active = "disk" /\ CAF!Next /\ UNCHANGED <<plotVars, phedexVars, imageVars, pageVars>>
     \/ active = "pages" /\ Transfers!Next /\ UNCHANGED <<plotVars, phedexVars, imageVars, diskVars>>

allVars == <<active, plotVars, phedexVars, imageVars, diskVars, pageVars>>

SourcesSpec ==
  /\ SourcesInit /\ [][SourcesNext]_allVars
  /\ \A r \in Requests : WF_phedexVars(active = "phedex" /\ PhEDEx!Step(r))
  /\ SF_diskVars(active = "disk" /\ CAF!Provide) /\ SF_diskVars(active = "disk" /\ CAF!Stop)
  /\ \A r \in Readers : SF_diskVars(active = "disk" /\ CAF!Values(r))

--------------------------------------------------------------------------------
(* Whatever way transfers and jobs are grouped and drawn, no row that was  *)
(* read and passes the filters is left out of a picture or counted twice,  *)
(* and the series cover the whole period that was asked for                *)
(* (Overview/PhEDEx.py, lines 458-887; Overview/ProdMon.py, lines 700-1044)*)
NothingLeftOut == SeriesCover /\ EveryByteDrawn /\ EveryBlockCounted /\ EveryJobDrawn

(* A legend has every series, or says how many it leaves out; the rings of *)
(* a file light chart are nested (Core/Plot.py, lines 488-541, 586-700).   *)
DrawingsWhole == LegendComplete /\ WedgesNested

(* Images of other services are never those of another page, and each is   *)
(* under its own name as long as the page read last was whole, whatever    *)
(* was missing or one too many before (Overview/GUI.py, lines 288-310);    *)
(* the eight pictures of a site are of that site and of the same hours     *)
(* (Overview/DDT.py, lines 16-204).                                        *)
PagesComplete == Scraper!PagesComplete /\ Transfers!PagesAgree
================================================================================
