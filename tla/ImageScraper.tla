---------------------------- MODULE ImageScraper ----------------------------
(***************************************************************************)
(* The images the overview server borrows from pages of other services     *)
(* (Overview/GUI.py, WebImageScraper): one thread per source goes through  *)
(* a table of documents, takes the k-th picture a page shows under a       *)
(* configured path as the k-th configured image, and publishes what it     *)
(* could fetch; requests are answered from what was published last.  The   *)
(* tables of the Tier-0 and CAF sources are those of Tier0.py and CAF.py,  *)
(* the images asked for those of the pages in Tier0.js and CAF.js.         *)
(***************************************************************************)
EXTENDS Integers, Sequences, SequencesExt, FiniteSetsExt, TLC

CONSTANTS
  Naps,         \* period / 0.5 s
  MaxFailures,  \* bound: fetches that fail, pages that are not whole
  None          \* no image

VARIABLES
  infosrc,      \* the documents of the source
  images,       \* the picture published under each name
  stopme,       \* the server exits
  scraper,      \* the thread: where it is, what it has at hand
  failures,     \* fetches that failed and pages that were not whole so far
  whole         \* ghost: the documents of which the page that was read last
                \* was whole, and all its pictures came

vars == <<infosrc, images, stopme, scraper, failures, whole>>

--------------------------------------------------------------------------------
(* A document: the page, the path its pictures have, their names in order. *)
Document(page, pics, match) == [html |-> page, images |-> pics, match |-> match]

lemonimg(prov, kind, pics, match, entity) ==
  Document(<<"lemon", prov, kind, entity>>, pics, match)
lrfimg(pics, match, queue) == Document(<<"lrf", queue>>, pics, match)
slsimg(pics, match, id, more) == Document(<<"sls", id, more>>, pics, match)

(* Of a batch of nodes: a page has the picture of the load and those of    *)
(* the processors and the network, under two paths.                        *)
Utilization(prov, cluster, entity) ==
  LET pics(kinds) == [k \in DOMAIN kinds |-> cluster \o kinds[k]] IN
  << lemonimg(prov, "info", pics(<<"_load_average">>), "cache/", entity),
     lemonimg(prov, "info", pics(<<"_cpu_utilization", "_net_utilization">>),
              "/lemon-" \o prov \o "/images/", entity) >>

CompTier0Source ==
  Utilization("status", "t0exp", "c2cms/t0export")
  \o Utilization("status", "t1transfer", "c2cms/t1transfer")
  \o Utilization("web", "cmst0", "lxbatch/cmst0")
  \o Utilization("web", "cmsproc", "lxbatch/cmsproc")
  \o << lrfimg(<<"tier0_jobs">>, "/lrf-lsf/images/", "cmst0"),
        slsimg(<<"tier0export_space">>, "graph.php", "CASTORCMS_T0EXPORT", "space") >>

(* The same of the analysis facility, on a page for each path; its queues. *)
(* The order of documents with pages and names of their own does not count.*)
Clusters ==
  << <<"web", "lxbatch-cmscaf", "lxbatch/cmscaf">>, <<"web", "lxbatch-cmsexpress", "lxbatch/cmsexpress">>,
     <<"web", "lxbatch-cmsinter", "lxbatch/cmsinter">>, <<"status", "c2cms-cmscaf", "c2cms/cmscaf">>,
     <<"status", "c2cms-cmscafuser", "c2cms/cmscafuser">> >>
Queues ==
  << <<"job-queue-caf1nh", "cmscaf1nh">>, <<"job-queue-caf1nd", "cmscaf1nd">>,
     <<"job-queue-caf1nw", "cmscaf1nw">>, <<"job-queue-cmsexpress", "cmsexpress">> >>

CAFPlotSource ==
  FlattenSeq([k \in DOMAIN Clusters |->
    LET prov == Clusters[k][1]  cluster == Clusters[k][2]  entity == Clusters[k][3] IN
    << lemonimg(prov, "info", <<cluster \o "-cpu", cluster \o "-net">>,
                "/lemon-" \o prov \o "/images/", entity),
       lemonimg(prov, "metric_distribution", <<cluster \o "-loadavg">>, "cache/", entity) >>])
  \o << slsimg(<<"avail">>, "graph.php", "CASTORCMS_CMSCAF", "availability"),
        slsimg(<<"disk-free">>, "graph.php", "CASTORCMS_CMSCAF", "free"),
        slsimg(<<"diskuser-free">>, "graph.php", "CASTORCMS_CMSCAFUSER", "free") >>
  \o [k \in DOMAIN Queues |-> lrfimg(<<Queues[k][1]>>, "rrd_RUN_d.gif", Queues[k][2])]

(* What the pages of the workspaces ask for (Tier0.js, CAF.js).            *)
Tier0Page ==
  {c \o p : c \in {"t0exp", "t1transfer", "cmst0", "cmsproc"},
            p \in {"_load_average", "_cpu_utilization", "_net_utilization"}}
    \cup {"tier0_jobs", "tier0export_space"}

CAFPages ==
  {c \o p : c \in {"c2cms-cmscaf", "c2cms-cmscafuser", "lxbatch-cmscaf",
                   "lxbatch-cmsexpress", "lxbatch-cmsinter"},
            p \in {"-cpu", "-net", "-loadavg"}}
    \cup {"job-queue-caf1nh", "job-queue-caf1nd", "job-queue-caf1nw",
          "job-queue-cmsexpress", "disk-free", "diskuser-free"}

Asked == IF infosrc = CompTier0Source THEN Tier0Page ELSE CAFPages

Names(docs) == UNION {ToSet(docs[d].images) : d \in DOMAIN docs}

--------------------------------------------------------------------------------
(* A page as the other service shows it: picture tags, each a sequence of  *)
(* attributes.  A whole page holds the pictures of all documents about it, *)
(* in order, among others, and maybe one more under the path after them;   *)
(* any other page lacks one of them, or has one more before them.          *)
Attribute(name, path, pic) == [name |-> name, path |-> path, pic |-> pic]
Bare == Attribute("", "", "")
Tag(path, pic) == <<Attribute("alt", "", ""), Attribute("src", path, pic)>>
Other == <<Attribute("src", "/icons/", "logo"), Attribute("width", "", ""), Bare,
           Attribute("src", "cache/", "hidden")>>

Pictures(doc) == [k \in DOMAIN doc.images |-> Tag(doc.match, doc.images[k])]

Shown(doc) ==
  LET about == SelectSeq(infosrc, LAMBDA d : d.html = doc.html)
  IN FlattenSeq([k \in DOMAIN about |-> Pictures(about[k])])

WholePages(doc) ==
  LET shown == Shown(doc)
  IN {shown, FlattenSeq([k \in DOMAIN shown |-> <<Other, shown[k]>>]),
      shown \o <<Tag(doc.match, "logo")>>}

OddPages(doc) ==
  LET shown == Shown(doc)
  IN {RemoveAt(shown, k) : k \in {j \in DOMAIN shown : shown[j][2].path = doc.match}}
       \cup {<<Tag(doc.match, "logo")>> \o shown}

(* The attributes of a tag up to the first one that is no name="value".    *)
Readable(tag) ==
  SubSeq(tag, 1, Min({k \in DOMAIN tag : tag[k] = Bare} \cup {Len(tag) + 1}) - 1)

(* Slip: every picture counts, also one that does not match. *)
FoundAll(doc, page) ==
  FlattenSeq([k \in DOMAIN page |->
    SelectSeq(Readable(page[k]), LAMBDA a : a.name = "src")])

(* The pictures of a page under the path of the document.                  *)
Found(doc, page) ==
  FlattenSeq([k \in DOMAIN page |->
    SelectSeq(Readable(page[k]), LAMBDA a : a.name = "src" /\ a.path = doc.match)])

(* imgrefs: one picture too many ends the search, what is found stays.     *)
Refs(doc, page) ==
  LET found == Found(doc, page)
      n == Min({Len(found), Len(doc.images)})
  IN [name \in {doc.images[k] : k \in 1 .. n} |->
        found[CHOOSE k \in 1 .. n : doc.images[k] = name].pic]

--------------------------------------------------------------------------------
At(step, doc, page, refs, naps) ==
  [at |-> step, doc |-> doc, page |-> page, refs |-> refs, naps |-> naps]
NoRefs == [n \in {} |-> None]

Init ==
  /\ infosrc \in {CompTier0Source, CAFPlotSource}
  /\ images = [n \in Names(infosrc) |-> None]
  /\ stopme = FALSE
  /\ scraper = At("top", 0, "none", NoRefs, 0)
  /\ failures = 0
  /\ whole = {}

(* stop(): the exit of the server.                                         *)
Stop ==
  /\ ~stopme
  /\ stopme' = TRUE
  /\ UNCHANGED <<infosrc, images, scraper, failures, whole>>

Begin ==
  /\ scraper.at = "top"
  /\ scraper' = IF stopme THEN At("ended", 0, "none", NoRefs, 0) ELSE At("page", 1, "none", NoRefs, 0)
  /\ UNCHANGED <<infosrc, images, stopme, failures, whole>>

Read(page, kind) == scraper' = At("images", scraper.doc, kind, Refs(infosrc[scraper.doc], page), 0)

ReadPage ==
  /\ scraper.at = "page"
  /\ \E page \in WholePages(infosrc[scraper.doc]) : Read(page, "whole")
  /\ UNCHANGED <<infosrc, images, stopme, failures, whole>>

ReadOddPage ==
  /\ scraper.at = "page" /\ failures < MaxFailures
  /\ \E page \in OddPages(infosrc[scraper.doc]) : Read(page, "odd")
  /\ failures' = failures + 1
  /\ UNCHANGED <<infosrc, images, stopme, whole>>

(* The page cannot be read: the images published before are left.          *)
PageFails ==
  /\ scraper.at = "page" /\ failures < MaxFailures
  /\ scraper' = At("images", scraper.doc, "none", NoRefs, 0)
  /\ failures' = failures + 1
  /\ UNCHANGED <<infosrc, images, stopme, whole>>

(* Each picture in turn; one that cannot be fetched becomes None.          *)
FetchImages ==
  /\ scraper.at = "images"
  /\ \E lost \in SUBSET DOMAIN scraper.refs :
       /\ failures + Cardinality(lost) <= MaxFailures
       /\ scraper' = [scraper EXCEPT !.at = "publish",
            !.refs = [n \in DOMAIN @ |-> IF n \in lost THEN None ELSE @[n]]]
       /\ failures' = failures + Cardinality(lost)
  /\ UNCHANGED <<infosrc, images, stopme, whole>>

Publish ==
  /\ scraper.at = "publish"
  /\ images' = scraper.refs @@ images
  /\ scraper' = IF scraper.doc < Len(infosrc) THEN At("page", scraper.doc + 1, "none", NoRefs, 0)
                ELSE At("nap", 0, "none", NoRefs, 0)
  /\ whole' = CASE scraper.page = "none" -> whole
                [] scraper.page = "whole" /\ None \notin Range(scraper.refs) -> whole \cup {scraper.doc}
                [] OTHER -> whole \ {scraper.doc}
  /\ UNCHANGED <<infosrc, stopme, failures>>

Nap ==
  /\ scraper.at = "nap"
  /\ scraper' = IF stopme \/ scraper.naps = Naps THEN At("top", 0, "none", NoRefs, 0)
                ELSE [scraper EXCEPT !.naps = @ + 1]
  /\ UNCHANGED <<infosrc, images, stopme, failures, whole>>

Scrape == Begin \/ ReadPage \/ ReadOddPage \/ PageFails \/ FetchImages \/ Publish \/ Nap
Next == Stop \/ Scrape

(* The thread runs on, and what it asks other services for is answered or  *)
(* refused: urlopen is given no timeout, so this is assumed of the network.*)
Spec == Init /\ [][Next]_vars /\ WF_vars(Scrape)

(* ImageScraperSource.plot: what a request for an image shows.             *)
Plot(name) == IF name \in DOMAIN images THEN images[name] ELSE None

--------------------------------------------------------------------------------
(* Images are known by their place on a page, and a picture that is        *)
(* missing, or one too many, gives the names after it the wrong picture    *)
(* until the next round, and the last name the one of an earlier round     *)
(* (run, lines 288-310).  What holds whatever pages show and whatever      *)
(* fails: a name never shows a picture of another page or path; all names  *)
(* of a document are right as soon as a whole page was read, after any     *)
(* rounds, and stay right while its page cannot be read; and every image   *)
(* the pages of a workspace ask for is of some document.                   *)
PicturesOf(doc) ==
  {"logo"} \cup UNION {ToSet(infosrc[d].images) :
                      d \in {e \in DOMAIN infosrc : infosrc[e].html = doc.html /\ infosrc[e].match = doc.match}}

PagesComplete ==
  /\ Asked \subseteq Names(infosrc)
  /\ \A d \in DOMAIN infosrc : \A n \in ToSet(infosrc[d].images) :
       /\ Plot(n) \in PicturesOf(infosrc[d]) \cup {None}
       /\ d \in whole => Plot(n) = n
=============================================================================
