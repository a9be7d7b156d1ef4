------------------------- MODULE OverviewWorkspaces -------------------------
(***************************************************************************)
(* The sessions of the overview server: the workspace class all of them    *)
(* share (Overview/GUI.py) and the ones for production (ProdMon.py), for   *)
(* transfers (PhEDEx.py), for disk use (FileLight.py) and for the simple   *)
(* pages (CAF.py, DDT.py, Tier0.py, the bus line of Example.py).  A        *)
(* session is the dictionary of the code: a function on the keys it has,   *)
(* the plots of ProdMon a list in it.  A request is one step, as the       *)
(* session is locked for its length (module Sessions).                     *)
(***************************************************************************)
EXTENDS Naturals, Sequences, SequencesExt, FiniteSetsExt, TLC

CONSTANTS
  Users,        \* bound: the requests one user makes, a set for each user
  Texts,        \* parameter values that need not be anything in particular
  Junk,         \* a parameter given twice: a list where a string is expected
  MaxPlots,     \* bound: open plots
  MaxRestarts,  \* bound
  Wrong,        \* a date there is not
  None

VARIABLES
  session,   \* the session in memory, or None
  saved,     \* the session as last handed to the session store, or None
  user,      \* who uses the server
  restarts

vars == <<session, saved, user, restarts>>

(* The workspaces by their tags, the first one first, and the labels of    *)
(* their views: given in the class, or made of the name.                   *)
Tags == <<"prodmon", "phedex", "filelight", "caf", "ddt", "tier0", "tpg">>

ProdMonViews == <<"summary", "plot">>
PhEDExViews ==
  <<"transfer-rate", "transfer-volume", "rate-vs-quality", "block-latency",
    "region-cross-rates">>
FileLightViews == <<"site", "group">>
CAFViews ==
  <<"storage-pools-performance", "lsf-performance", "job-summary", "disk-monitoring">>
DDTViews ==
  <<"distributed-data-transfers", "t0chcern", "t1chcern", "t1defzk", "t1espic",
    "t1frccin2p3", "t1itcnaf", "t1twasgc", "t1ukral", "t1usfnal", "t2chcaf">>
Tier0Views == <<"tier-0-workflows-summary">>
TPGViews == <<"query">>

Labels ==
  [prodmon |-> ProdMonViews, phedex |-> PhEDExViews, filelight |-> FileLightViews,
   caf |-> CAFViews, ddt |-> DDTViews, tier0 |-> Tier0Views, tpg |-> TPGViews]

ViewKey(tag) == CASE tag = "prodmon" -> "prodmon.view" [] tag = "phedex" -> "phedex.view"
                  [] tag = "filelight" -> "filelight.view" [] tag = "caf" -> "caf.view"
                  [] tag = "ddt" -> "ddt.view" [] tag = "tier0" -> "tier0.view"
                  [] tag = "tpg" -> "tpg.view"

Nothing == [k \in {} |-> k]  \* {}
Given(args, k) == k \in DOMAIN args
Get(f, k, default) == IF k \in DOMAIN f THEN f[k] ELSE default

--------------------------------------------------------------------------------
(* sessiondef of each workspace.                                           *)
Sessiondef(tag) ==
  CASE tag = "prodmon" -> ("prodmon.view" :> "summary")
    [] tag = "phedex" -> ("phedex.db.prod" :> "yes") @@ ("phedex.db.debug" :> "yes")
    [] tag = "filelight" -> ("filelight.view" :> "site")
    [] tag = "tpg" -> ("tpg.view" :> "query") @@ ("tpg.line" :> "16662")
                        @@ ("tpg.direction" :> "r") @@ ("tpg.stop" :> "1")
    [] OTHER -> Nothing

(* plotdef: a plot as it is opened first.  It has no URL until it is shown. *)
(* The last field is not of the code: an error cut short the request that  *)
(* changed the plot, and none has gone over it since.                      *)
NoURL == [path |-> <<>>, opts |-> Nothing, filters |-> Nothing]
Auto(what, sortby) == <<what, sortby>>  \* _composeTitle
NoTitle == <<>>

Plotdef ==
  [sortby |-> "site", what |-> "evts_read_any", job_type |-> "Any", graph |-> "bar",
   regex |-> "null", group |-> "null", use_period |-> "true", period |-> "48",
   starttime |-> "", endtime |-> "", size |-> "800", filters |-> <<>>,
   title |-> NoTitle, oldtitle |-> NoTitle, url |-> NoURL, torn |-> FALSE]

(* What sessionGraph and the view take, of which the image size stands for *)
(* three numbers.                                                          *)
PlotParameters == <<"sortby", "what", "job_type", "starttime", "endtime", "regex", "graph",
                    "group", "size", "period", "use_period", "title">>

Verified ==
  [sortby |-> {"site", "wf", "dts", "exit_code"},
   what |-> {"evts_read_any", "dts_timings", "time_by_span"},
   job_type |-> {"Any", "Merge", "Processing"},
   graph |-> {"bar", "pie", "cumulative", "baobab"},
   use_period |-> {"true", "false"},
   period |-> {"48", "8760"}, size |-> {"320", "800"},
   starttime |-> {"2011-01-01 00:00:00"}, endtime |-> {"2011-02-01 00:00:00"}]

(* _verify: a value that is not allowed is replaced by the default.        *)
Verify(key, value) ==
  IF Given(Verified, key) /\ value \notin Verified[key] THEN Plotdef[key] ELSE value

(* The parameters of the picture that _updateURLs puts in its address.     *)
Filters(p) == [n \in {f[1] : f \in ToSet(p.filters)} |->
                 p.filters[Max({i \in DOMAIN p.filters : p.filters[i][1] = n})][2]]
Named(p) == {k \in {"regex", "group"} : p[k] \notin {"", "null"}}
Times(p) == IF p.use_period = "true" THEN {"period"} ELSE {"starttime", "endtime"}

URL(p) == [path |-> <<p.what, p.sortby, p.graph, p.job_type>>,
           opts |-> [k \in Named(p) \cup Times(p) \cup {"size"} |-> p[k]],
           filters |-> Filters(p)]

(* Some quantities have no other graph.                                    *)
Drawable(p) ==
  IF p.what = "dts_timings" \/ (p.what = "time_by_span" /\ p.graph = "pie")
  THEN [p EXCEPT !.graph = "bar"] ELSE p

(* A title the user has given stays; another is looked up by quantity and  *)
(* order, and it is an error when these are not known.                     *)
Composable(p) ==
  p.title # p.oldtitle \/ (p.what \in Verified.what /\ p.sortby \in Verified.sortby)
Retitled(p) ==
  CASE ~Composable(p) -> [p EXCEPT !.torn = TRUE]
    [] Composable(p) /\ p.title # p.oldtitle -> [p EXCEPT !.torn = FALSE]
    [] OTHER -> [p EXCEPT !.title = Auto(p.what, p.sortby),
                          !.oldtitle = Auto(p.what, p.sortby), !.torn = FALSE]

(* Slip: the address is made before the graph is corrected.                *)
UpdatedEarly(p) == Retitled([Drawable(p) EXCEPT !.url = URL(p)])

(* _updateURLs: the graph, the address, and at last the title.             *)
Updated(p) == LET q == Drawable(p) IN Retitled([q EXCEPT !.url = URL(q)])

--------------------------------------------------------------------------------
Open(v) == v["prodmon.plot.open"]
Current(v) == v["prodmon.plot.current"]
HasPlots(v) == Given(v, "prodmon.plot.open")
InRange(v) == HasPlots(v) /\ Current(v) + 1 \in DOMAIN Open(v)
Plot(v) == Open(v)[Current(v) + 1]

WithPlots(v, plots, current) ==
  ("prodmon.plot.open" :> plots) @@ ("prodmon.plot.current" :> current) @@ v
WithPlot(v, p) == WithPlots(v, [Open(v) EXCEPT ![Current(v) + 1] = p], Current(v))
Refreshed(v) == [v |-> WithPlot(v, Updated(Plot(v))), ok |-> Composable(Plot(v))]

(* The parameters before the first that is given twice: unquoting it is an *)
(* error, and what was set before stays.  Bound: a link names them in the  *)
(* order of the list.                                                      *)
Place(k) == CHOOSE i \in DOMAIN PlotParameters : PlotParameters[i] = k
Doubled(args) == {k \in DOMAIN args : args[k] = Junk}
Before(args) == {k \in DOMAIN args \cap ToSet(PlotParameters) :
                   \A j \in Doubled(args) \cap ToSet(PlotParameters) : Place(k) < Place(j)}

SetIn(p, args) ==
  LET done == Before(args) IN [k \in DOMAIN p |-> IF k \in done THEN Verify(k, args[k]) ELSE p[k]]

(* A link is taken at its word: _verify only tells whether there is        *)
(* anything, and the text that is set is the one in the link.              *)
Anything(k, value) == Verify(k, value) # (IF k = "title" THEN NoTitle ELSE "")
Taken(p, args) ==
  LET done == {k \in Before(args) : Anything(k, args[k])}
  IN [k \in DOMAIN p |-> IF k \in done THEN args[k] ELSE p[k]]

(* What is left of a plot when the request that changes it fails.          *)
CutShort(p, q) == [q EXCEPT !.torn = p.torn \/ p # q]

(* The filters a pair of lists separated by bars stands for: one filter if *)
(* either has no bar.  A text is the sequence of its parts between bars.   *)
FiltersOf(names, values) ==
  IF Len(names) > 1 /\ Len(values) > 1
  THEN [i \in 1 .. Min({Len(names), Len(values)}) |-> <<<<names[i]>>, <<values[i]>>>>]
  ELSE <<<<names, values>>>>

(* initialiseSession of the plot view, called with the arguments of a link *)
(* ("new" opens another plot) or without any; they are taken in the order  *)
(* of PlotParameters.  The second field tells whether it gets to its end.  *)
ShowPlot(v, args) ==
  LET has == v @@ ("prodmon.plot.open" :> <<Plotdef>>) @@ ("prodmon.plot.current" :> 0)
      shown == IF Given(args, "new") /\ InRange(has)
               THEN WithPlots(has, Append(Open(has), Plot(has)), Len(Open(has)))
               ELSE has
      p == Plot(shown)
      q == Taken(p, args)
      filtered == IF {"filter_name", "filter_value"} \subseteq DOMAIN args
                  THEN [q EXCEPT !.filters = FiltersOf(args["filter_name"], args["filter_value"])]
                  ELSE q
  IN IF ~InRange(has) THEN [v |-> has, ok |-> FALSE]
     ELSE IF Doubled(args) # {} THEN [v |-> WithPlot(shown, CutShort(p, q)), ok |-> FALSE]
     ELSE Refreshed(WithPlot(shown, filtered))

(* viewdef of the disk views.                                              *)
Disk(label) ==
  CASE label = "site" -> ("filelight.site.site" :> "null") @@ ("filelight.site.scheme" :> "prod")
                           @@ ("filelight.site.width" :> "1200")
    [] label = "group" -> ("filelight.group.group" :> "null")
                            @@ ("filelight.group.width" :> "800")

(* initialiseSession of a view.  The disk views look for the bare names of *)
(* their settings, which are never there: each call sets them all back.    *)
ViewInitialised(v, tag, label, args) ==
  CASE tag = "prodmon" /\ label = "plot" -> ShowPlot(v, args)
    [] tag = "filelight" -> [v |-> Disk(label) @@ v, ok |-> TRUE]
    [] OTHER -> [v |-> v, ok |-> TRUE]

(* _getView: the view of that label, the first if there is none.           *)
GetView(tag, label) == IF label \in ToSet(Labels[tag]) THEN label ELSE Labels[tag][1]

(* initialiseSession of a workspace: what is there stays.                  *)
Initialised(v, tag) ==
  LET key == ViewKey(tag)
      u == v @@ (key :> Labels[tag][1]) @@ ("comp.menu" :> "none") @@ Sessiondef(tag)
  IN ViewInitialised(u, tag, GetView(tag, u[key]), Nothing)

--------------------------------------------------------------------------------
(* Whether the page of a session can be drawn: what its view reads is      *)
(* there.                                                                  *)
Shows(v) ==
  LET tag == v["core.workspace"]
      label == GetView(tag, v[ViewKey(tag)])
  IN /\ Given(v, ViewKey(tag)) /\ Given(v, "comp.menu")
     /\ tag = "prodmon" /\ label = "plot" => InRange(v)
     /\ tag = "filelight" => DOMAIN Disk(label) \subseteq DOMAIN v

(* A handler that saves before it answers, and one that raises.            *)
Save(v) == session' = v /\ saved' = v /\ UNCHANGED <<user, restarts>>
Raise(v) == session' = v /\ UNCHANGED <<saved, user, restarts>>
SaveOrRaise(r) == IF r.ok THEN Save(r.v) ELSE Raise(r.v)

(* start(): _newSession initialises the first workspace after the other,   *)
(* then the one asked for sets the view of the URL.  Without an answer the *)
(* user never learns the name of the session.                              *)
Start(tag, args) ==
  LET new == [k \in {"core.workspace"} |-> tag]
      all == FoldLeft(LAMBDA v, t : Initialised(v, t).v, new, Tags)
      u == IF Given(args, "view") THEN (ViewKey(tag) :> args["view"]) @@ all ELSE all
  IN
  /\ session = None
  /\ Get(args, "view", Labels[tag][1]) \in ToSet(Labels[tag])
  /\ Save(Initialised(u, tag).v)

(* sessionWorkspace: the sub-menu is closed, and the core switches.        *)
GoTo(tag) ==
  LET u == ("comp.submenu" :> "none") @@ ("core.workspace" :> tag) @@ session
  IN SaveOrRaise(Initialised(u, tag))

ResetWorkspace(tag) == SaveOrRaise(Initialised(session, tag))

SetView(tag, args) ==
  LET label == Get(args, "name", Labels[tag][1])
      u == (ViewKey(tag) :> label) @@ session
  IN IF label \notin ToSet(Labels[tag]) THEN Raise(session)
     ELSE SaveOrRaise(ViewInitialised(u, tag, label, args))

(* sessionSetSubMenu: what it sets is not what the page shows, and its own *)
(* default is refused.                                                     *)
SetSubMenu(args) ==
  LET n == Get(args, "n", "data") IN
  IF n \in {"none", "workspace", "view"} THEN Save(("comp.submenu" :> n) @@ session)
  ELSE Raise(session)

(* sessionPanel: there is one panel; its values are looked at in turn.     *)
Panel(args) ==
  LET good(k) == Given(args, k) =>
                   args[k] \in IF k = "show" THEN {"yes", "no"} ELSE {"0", "5"}
      put(v, k) == IF Given(args, k)
                   THEN ((CASE k = "show" -> "comp.panel.tools.show" [] k = "x" -> "comp.panel.tools.x"
                            [] k = "y" -> "comp.panel.tools.y") :> args[k]) @@ v
                   ELSE v
      upto == IF ~good("show") THEN <<>> ELSE IF ~good("x") THEN <<"show">>
              ELSE IF ~good("y") THEN <<"show", "x">> ELSE <<"show", "x", "y">>
      v == FoldLeft(put, session, upto)
  IN IF Get(args, "n", Junk) # "tools" THEN Raise(session)
     ELSE IF Len(upto) = 3 THEN Save(v) ELSE Raise(v)

--------------------------------------------------------------------------------
(* The tabs of ProdMon.                                                    *)
Graph(args) ==
  LET given == [k \in {j \in DOMAIN args : args[j] # ""} |-> args[k]] IN
  IF ~InRange(session) THEN Raise(session)
  ELSE LET p == Plot(session) q == SetIn(p, given) IN
       IF Doubled(given) # {} THEN Raise(WithPlot(session, CutShort(p, q)))
       ELSE SaveOrRaise(Refreshed(WithPlot(session, q)))

FilterPlot(args) ==
  LET p == Plot(session)
      set == IF {"name", "value"} \subseteq DOMAIN args
             THEN [p EXCEPT !.filters = FiltersOf(args["name"], args["value"])] ELSE p
      q == IF Given(args, "clear") THEN [set EXCEPT !.filters = <<>>] ELSE set
  IN IF ~InRange(session) THEN Raise(session) ELSE SaveOrRaise(Refreshed(WithPlot(session, q)))

(* Slip: the next plot is counted among those there were before.           *)
ClosedLate(v, index) ==
  LET left == IF index + 1 \in DOMAIN Open(v) THEN RemoveAt(Open(v), index + 1) ELSE Open(v)
      plots == IF left = <<>> THEN <<Plotdef>> ELSE left
      u == WithPlots(v, plots, (Current(v) + 1) % Len(Open(v)))
  IN IF InRange(u) THEN Refreshed(u) ELSE [v |-> u, ok |-> FALSE]

(* What sessionClose makes of a session: the plot goes, the one after the  *)
(* current is shown, and there is always one.  Its title may be one that   *)
(* cannot be composed: then the request fails.                             *)
Closed(v, index) ==
  LET left == IF index + 1 \in DOMAIN Open(v) THEN RemoveAt(Open(v), index + 1) ELSE Open(v)
      plots == IF left = <<>> THEN <<Plotdef>> ELSE left
  IN Refreshed(WithPlots(v, plots, (Current(v) + 1) % Len(plots)))

Close(args) ==
  IF HasPlots(session) THEN SaveOrRaise(Closed(session, Get(args, "index", Current(session))))
  ELSE Raise(session)

(* sessionAdd: before the plot of that index, or at the end.  At the end,  *)
(* the index is taken after the plot was appended and names none: the      *)
(* session is saved, and its page cannot be drawn.  No address is made.    *)
Add(args) ==
  LET copied == Given(args, "copy")
      new == IF copied THEN Plot(session) ELSE Plotdef
      plots == Open(session)
      index == Get(args, "index", Len(plots))
  IN CASE ~HasPlots(session) \/ (copied /\ ~InRange(session)) -> Raise(session)
       [] OTHER ->
            Save(IF index + 1 \in DOMAIN plots
                 THEN WithPlots(session, InsertAt(plots, index + 1, new), index)
                 ELSE WithPlots(session, Append(plots, new), Len(plots) + 1))

Moved(v, index) == WithPlots(v, Open(v), index % Len(Open(v)))

Move(args) ==
  CASE ~Given(args, "index") -> Save(session)
    [] Given(args, "index") /\ HasPlots(session) ->
         Save(Moved(session, args["index"]))
    [] OTHER -> Raise(session)

--------------------------------------------------------------------------------
(* sessionAlter of the transfers: what it takes for each option, others    *)
(* are ignored.  Two numbers of a size or three, the last optional.        *)
AlterKey ==
  [qty |-> "phedex.qty", grouping |-> "phedex.grouping", links |-> "phedex.links",
   detail |-> "phedex.detail", unit |-> "phedex.range.unit", linlog |-> "phedex.range.linlog",
   bins |-> "phedex.range.bins", from |-> "phedex.filter.from"]

AlterTakes ==
  [qty |-> {"source", "destination", "link"}, grouping |-> {"db", "node", "site"},
   links |-> {"nonmss", "mss", "all"}, detail |-> {"completed-block-latency-summary"},
   unit |-> {"time", "time-vs-size"}, linlog |-> {"lin", "log"}, bins |-> {"", "10"},
   from |-> Texts]

AlterTransfers(args) ==
  LET opt == Get(args, "opt", "") val == Get(args, "val", "") IN
  IF Given(AlterKey, opt) /\ val \in AlterTakes[opt]
  THEN Save((AlterKey[opt] :> val) @@ session) ELSE Save(session)

ResizeTransfers(args) ==
  LET v == args["size"] IN
  Save(CASE Len(v) < 2 -> session
         [] Len(v) = 2 -> ("phedex.size.width" :> v[1]) @@ ("phedex.size.height" :> v[2]) @@ session
         [] Len(v) > 2 -> ("phedex.size.width" :> v[1]) @@ ("phedex.size.height" :> v[2])
                            @@ ("phedex.size.dpi" :> v[3]) @@ session)

(* A date as its digits: a week or a month, a day, an hour.  The end it    *)
(* stands for is an error when there is no such day; the end of a month is *)
(* a day before the first of the next, and there is no month after the     *)
(* twelfth.                                                                *)
Spans == {"hour", "day", "week", "month", "year"}
Readable(span, upto) == IF span = "week" THEN upto.form = "6" ELSE upto.form \in {"6", "8", "8+4"}
EndOf(span, upto) ==
  CASE span = "week" -> [kind |-> "monday", of |-> upto]
    [] span # "week" /\ upto.form = "6" ->
         IF upto.month + 1 \in 1 .. 12 THEN [kind |-> "month", of |-> upto] ELSE Wrong
    [] OTHER -> IF upto.month \in 1 .. 12 THEN [kind |-> "day", of |-> upto] ELSE Wrong

PeriodKeys == {"phedex.period.time", "phedex.period.span", "phedex.period.upto",
               "phedex.period.end"}

(* Slip: the end of the last period is forgotten in the list.              *)
WithoutSomePeriod(v) == [k \in DOMAIN v \ (PeriodKeys \ {"phedex.period.end"}) |-> v[k]]

(* sessionPeriod begins anew.                                              *)
WithoutPeriod(v) == [k \in DOMAIN v \ PeriodKeys |-> v[k]]

Period(args) ==
  LET span == Get(args, "span", "hour")
      timed == IF Given(args, "time") THEN ("phedex.period.time" :> args["time"]) @@ WithoutPeriod(session)
               ELSE WithoutPeriod(session)
      v == IF span \in Spans THEN ("phedex.period.span" :> span) @@ timed ELSE timed
      read == Get(v, "phedex.period.span", "hour")
      upto == args["upto"]
      end == EndOf(read, upto)
  IN CASE ~Given(args, "upto") -> Save(v)
       [] Given(args, "upto") /\ ~Readable(read, upto) -> Save(v)
       [] Given(args, "upto") /\ Readable(read, upto) /\ end = Wrong ->
            Raise(("phedex.period.upto" :> upto) @@ v)
       [] OTHER -> Save(("phedex.period.upto" :> upto) @@ ("phedex.period.end" :> end) @@ v)

(* sessionDatabases: anything but yes is no; a label nobody knows is kept. *)
Databases(args) ==
  Save([k \in DOMAIN args |-> IF args[k] = "yes" THEN "yes" ELSE "no"] @@ session)

(* sessionOpt of the disk views.                                           *)
DiskKey == [site |-> "filelight.site.site", scheme |-> "filelight.site.scheme",
            group |-> "filelight.group.group"]
Option(args) ==
  LET label == GetView("filelight", session["filelight.view"])
      mine == {DiskKey[k] : k \in DOMAIN args} \cap DOMAIN Disk(label)
  IN Save([k \in mine |-> args[CHOOSE a \in DOMAIN args : DiskKey[a] = k]] @@ session)

(* sessionAlter of the bus: a line has no direction yet, a direction no    *)
(* stop.  A wrong value gets no answer.                                    *)
BusTakes == [line |-> {"1", "16662"}, direction |-> {"a", "r"}, stop |-> {"1", "16662"}]

AlterBus(args) ==
  LET field == Get(args, "field", "") value == Get(args, "value", "") IN
  IF ~Given(BusTakes, field) THEN Save(session)
  ELSE IF value \notin BusTakes[field] THEN UNCHANGED vars
  ELSE Save(CASE field = "line" -> ("tpg.line" :> value) @@ ("tpg.direction" :> "null")
                                     @@ ("tpg.stop" :> "null") @@ session
              [] field = "direction" -> ("tpg.direction" :> value) @@ ("tpg.stop" :> "null")
                                          @@ session
              [] field = "stop" -> ("tpg.stop" :> value) @@ session)

--------------------------------------------------------------------------------
(* Room for another plot.                                                  *)
Room(args) == Given(args, "new") /\ HasPlots(session) => Len(Open(session)) < MaxPlots

(* session(): the method is looked up in the workspace of the session.     *)
Call(r) ==
  LET tag == session["core.workspace"] args == r.args IN
  \/ r.method = "workspace" /\ GoTo(r.args["name"])
  \/ r.method = "resetWorkspace" /\ ResetWorkspace(tag)
  \/ r.method = "view" /\ Room(args) /\ SetView(tag, args)
  \/ r.method = "setSubMenu" /\ SetSubMenu(args)
  \/ r.method = "panel" /\ Panel(args)
  \/ tag = "prodmon" /\ r.method = "graph" /\ Graph(args)
  \/ tag = "prodmon" /\ r.method = "filters" /\ FilterPlot(args)
  \/ tag = "prodmon" /\ r.method = "close" /\ Close(args)
  \/ tag = "prodmon" /\ r.method = "add" /\ Room("new" :> "1") /\ Add(args)
  \/ tag = "prodmon" /\ r.method = "move" /\ Move(args)
  \/ tag = "phedex" /\ r.method = "alter" /\ AlterTransfers(args)
  \/ tag = "phedex" /\ r.method = "resize" /\ ResizeTransfers(args)
  \/ tag = "phedex" /\ r.method = "period" /\ Period(args)
  \/ tag = "phedex" /\ r.method = "databases" /\ Databases(args)
  \/ tag = "filelight" /\ r.method = "opt" /\ Option(args)
  \/ tag = "tpg" /\ r.method = "alter" /\ AlterBus(args)

(* The server starts again, or a request finds the session in its file.    *)
Restart ==
  /\ restarts < MaxRestarts
  /\ restarts' = restarts + 1
  /\ session' = None
  /\ UNCHANGED <<saved, user>>

Load ==
  /\ session = None /\ saved # None
  /\ session' = saved
  /\ UNCHANGED <<saved, user, restarts>>

Init ==
  /\ session = None /\ saved = None
  /\ user \in Users
  /\ restarts = 0

Next ==
  \/ \E r \in user :
       IF r.method = "start" THEN saved = None /\ Start(r.name, r.args)
       ELSE session # None /\ Call(r)
  \/ Restart
  \/ Load

Spec == Init /\ [][Next]_vars

--------------------------------------------------------------------------------
(* A plot that has an address shows what its fields say: the picture, its  *)
(* filters and times and, unless the user named it, its title are those of *)
(* the parameters the page lists.  _updateURLs does one plot at a time,    *)
(* and eight handlers change plots or which of them is the current one.    *)
(* Only a plot whose last change ended in an error may differ, until the   *)
(* next request that goes over it; the others of the session may not.      *)
PlotsDescribed ==
  session # None /\ HasPlots(session) =>
    \A p \in ToSet(Open(session)) :
      p.url # NoURL /\ ~p.torn =>
        /\ p.url = URL(p)
        /\ p.title = p.oldtitle => p.title = Auto(p.what, p.sortby)

(* The only page that cannot be drawn is one whose current plot is the one *)
(* after the last, as sessionAdd leaves it.  Moving to any plot mends the  *)
(* session and is saved.  Closing any mends it in memory, and is saved     *)
(* unless the plot it comes to has a title that cannot be composed.        *)
CanBeMended ==
  session # None =>
    \/ Shows(session)
    \/ /\ session["core.workspace"] = "prodmon" /\ HasPlots(session)
       /\ Current(session) = Len(Open(session))
       /\ \A i \in 0 .. Len(Open(session)) :
            LET closed == Closed(session, i) IN
            /\ Shows(Moved(session, i))
            /\ Shows(closed.v)
            /\ closed.ok \/ ~Composable(Plot(closed.v))

(* ProdMon.py says of the address of a picture that its parts are "already *)
(* verified that none of these should contain special characters".  The    *)
(* view of a link sets what the link says, so this is not so.              *)
AddressVerified ==
  session # None /\ HasPlots(session) =>
    \A p \in ToSet(Open(session)) :
      \A k \in {"what", "sortby", "graph", "job_type"} : p[k] \in Verified[k]

(* The end of the period is always the end of what the user typed, in the  *)
(* unit of time he chose, even after a date that was refused.              *)
PeriodMatches ==
  session # None =>
    /\ Given(session, "phedex.period.end") =>
         /\ Given(session, "phedex.period.upto")
         /\ session["phedex.period.end"] =
              EndOf(Get(session, "phedex.period.span", "hour"), session["phedex.period.upto"])
    /\ Given(session, "phedex.period.upto") /\ ~Given(session, "phedex.period.end") =>
         EndOf(Get(session, "phedex.period.span", "hour"), session["phedex.period.upto"]) = Wrong
================================================================================
