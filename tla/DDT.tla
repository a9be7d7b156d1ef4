--------------------------------- MODULE DDT ---------------------------------
(***************************************************************************)
(* The pages on distributed data transfers (Overview/DDT.py, DDT.js): one  *)
(* for each site, of eight pictures, which the browser asks for one by one *)
(* and the server takes from the graphs of another service.  The source    *)
(* makes the links when it is created, with the time of that moment.       *)
(***************************************************************************)
EXTENDS Integers, Sequences, SequencesExt

CONSTANTS
  Start0,     \* when the first server starts, in seconds
  Step,       \* bound: the seconds between two moments of the model
  MaxTicks,   \* bound: moments
  MaxStarts,  \* bound: servers
  MaxPages,   \* bound: pages opened
  Missing,    \* the answer to a request that raised
  None        \* no server, no page

VARIABLES
  clock,      \* the time
  images,     \* of the running server: by site its links, or None
  starts,     \* servers so far
  page,       \* the page in the browser: its site and the pictures that came
  pages       \* pages so far

vars == <<clock, images, starts, page, pages>>

Hour == 3600
CERN == "T0_CH_CERN"
T1 == {"T1_CH_CERN", "T1_DE_FZK", "T1_ES_PIC", "T1_FR_CCIN2P3", "T1_IT_CNAF", "T1_TW_ASGC",
       "T1_UK_RAL", "T1_US_FNAL"}
CAF == "T2_CH_CAF"

(* The nodes of a site: itself and its kinds of storage; and patterns.     *)
Node(site) == <<site, "">>
Tape(site) == <<site, "MSS">>
Export(site) == <<site, "Export">>
Buffer(site) == <<site, "Buffer">>
Anywhere == <<".*", "">>
Tier1 == <<"T1.*", "">>
Tier01 == <<"^T[01]", "">>

(* A link: the graph, about a destination or a link, in bins of so many    *)
(* seconds, with or without tape, over a window; from, to or at a node.    *)
graphlnk(base, link, span, no_mss, window, ends) ==
  [base |-> base, link |-> link, span |-> span, no_mss |-> no_mss, window |-> window, ends |-> ends]
At(node) == [node |-> node]
Between(from, to) == [from_node |-> from, to_node |-> to]

OfCERN(w) ==
  LET between == Between(Export(CERN), Tape(CERN))
      exports == Between(Export(CERN), Tier1)
  IN << graphlnk("request", "dest", 3600, FALSE, w, At(Tape(CERN))),
        graphlnk("pending", "dest", 3600, FALSE, w, Between(Anywhere, Node(CERN))),
        graphlnk("pending", "link", 600, FALSE, w, exports),
        graphlnk("quality_all", "link", 3600, FALSE, w, exports),
        graphlnk("pending", "link", 3600, FALSE, w, between),
        graphlnk("quantity", "link", 3600, FALSE, w, between),
        graphlnk("idle", "link", 3600, FALSE, w, At(Tape(CERN))),
        graphlnk("request", "dest", 3600, FALSE, w, At(Tape(CERN))) >>

OfSite(s, w) ==
  << graphlnk("request", "dest", 3600, FALSE, w, At(Node(s))),
     graphlnk("pending", "dest", 3600, FALSE, w, Between(Anywhere, Node(s))),
     graphlnk("pending", "link", 300, TRUE, w, Between(Tier01, Node(s))),
     graphlnk("quality_all", "link", 3600, TRUE, w, Between(Tier01, Node(s))),
     graphlnk("quantity", "link", 3600, FALSE, w, Between(Anywhere, Buffer(s))),
     graphlnk("quantity", "link", 3600, FALSE, w, Between(Anywhere, Node(s))),
     graphlnk("idle", "link", 3600, FALSE, w, At(Node(s))),
     graphlnk("request", "dest", 3600, FALSE, w, At(Node(s))) >>

(* Twelve hours to the last full one.                                      *)
Window(t) == <<(t \div Hour) * Hour - 12 * Hour, (t \div Hour) * Hour>>

Links(t) ==
  [s \in T1 \cup {CERN, CAF} |-> IF s = CERN THEN OfCERN(Window(t)) ELSE OfSite(s, Window(t))]

(* The pages the workspace has, which names the sites again.               *)
Sites ==
  {"T0_CH_CERN", "T1_CH_CERN", "T1_DE_FZK", "T1_ES_PIC", "T1_FR_CCIN2P3", "T1_IT_CNAF",
   "T1_TW_ASGC", "T1_UK_RAL", "T1_US_FNAL", "T2_CH_CAF"}

Init ==
  /\ clock = Start0
  /\ images = None /\ starts = 0
  /\ page = None /\ pages = 0

--------------------------------------------------------------------------------
Start ==
  /\ images = None /\ starts < MaxStarts
  /\ images' = Links(clock)
  /\ starts' = starts + 1
  /\ UNCHANGED <<clock, page, pages>>

End ==
  /\ images # None
  /\ images' = None
  /\ UNCHANGED <<clock, starts, page, pages>>

(* The browser shows the page of a site.                                   *)
Open(site) ==
  /\ images # None /\ pages < MaxPages
  /\ pages' = pages + 1
  /\ page' = [site |-> site, came |-> <<>>]
  /\ UNCHANGED <<clock, images, starts>>

(* Slip: the links are those of the moment of the request.                 *)
PlotNow(life) ==
  /\ images # None /\ page # None /\ Len(page.came) < 8
  /\ page' = [page EXCEPT !.came = Append(@,
                [life |-> life,
                 link |-> IF page.site \in DOMAIN images THEN Links(clock)[page.site][Len(@) + 1]
                          ELSE Missing])]
  /\ UNCHANGED <<clock, images, starts, pages>>

(* plot(site, n): the next picture of the page.                            *)
Plot(life) ==
  /\ images # None /\ page # None /\ Len(page.came) < 8
  /\ page' = [page EXCEPT !.came = Append(@,
                [life |-> life,
                 link |-> IF page.site \in DOMAIN images THEN images[page.site][Len(@) + 1]
                          ELSE Missing])]
  /\ UNCHANGED <<clock, images, starts, pages>>

Tick ==
  /\ clock < Start0 + MaxTicks * Step
  /\ clock' = clock + Step
  /\ UNCHANGED <<images, starts, page, pages>>

Next == Start \/ End \/ (\E site \in Sites : Open(site)) \/ Plot(starts) \/ Tick

Spec == Init /\ [][Next]_vars

--------------------------------------------------------------------------------
(* DDT.py:16, 107, 206, 234: each site the workspace has a page of has all *)
(* eight pictures; each is about that site; and those of a page that came  *)
(* from one server are of the same twelve hours, however long the browser  *)
(* took to ask for them.                                                   *)
About(link) == {link.ends[e][1] : e \in DOMAIN link.ends}

PagesAgree ==
  page # None =>
    \A i \in DOMAIN page.came :
      LET one == page.came[i] IN
      /\ one.link # Missing /\ page.site \in About(one.link)
      /\ one.link.window[2] - one.link.window[1] = 12 * Hour /\ one.link.window[2] <= clock
      /\ \A j \in DOMAIN page.came :
           one.life = page.came[j].life => one.link.window = page.came[j].link.window
================================================================================
