----------------------------- MODULE OverviewPlots -----------------------------
(***************************************************************************)
(* Plots of the overview from the request to the image: the transfers of   *)
(* PhEDEx (Overview/PhEDEx.py, plot), the production monitor               *)
(* (Overview/ProdMon.py, plot, _plotMaker) and the data at sites and of    *)
(* groups (Overview/FileLight.py, plot).  Each source keeps images under a *)
(* key it makes of the request.  What is in the databases is given by the  *)
(* world, which does not change here; time goes by between requests.       *)
(***************************************************************************)
EXTENDS Integers, Sequences, FiniteSetsExt

CONSTANTS
  Worlds,           \* by name: what the databases and services have
  TransferAsks, ProductionAsks, SiteAsks, GroupAsks,
  Repeated,         \* bound: by source, the requests that come one after the other
  AllNames, NoValue,
  MaxLegend,        \* entries of a legend at most
  Pause, MaxPauses, \* seconds that go by at a time; bound
  MaxRequests       \* bound

C == INSTANCE Charts
T == INSTANCE TransferData
P == INSTANCE ProdMonData
F == INSTANCE FileLightData

VARIABLES
  which,    \* the world of this behaviour
  ticks,
  images,   \* by source: the images it keeps, [key, valid, ask, image]
  asked,    \* the request that was answered last, its source and its time
  answer,   \* its image, and the request it was drawn for, and when
  requests

vars == <<which, ticks, images, asked, answer, requests>>

Sources == {"transfers", "production", "site", "group"}
Nothing == [kind |-> "nothing"]

world == Worlds[which]
now == world.now + ticks * Pause

Init ==
  /\ which \in DOMAIN Worlds
  /\ ticks = 0
  /\ images = [s \in Sources |-> {}]
  /\ asked = [source |-> "none"]
  /\ answer = [image |-> Nothing]
  /\ requests = 0

(* Bound: time goes by, and another request comes, only after one of some. *)
GoesOn == asked.ask \in Repeated[asked.source]
Comes(source, asks) ==
  IF requests = 0 THEN asks
  ELSE IF requests < MaxRequests /\ asked.source = source /\ GoesOn THEN Repeated[source]
  ELSE {}

(* An image that is kept is the answer while it is valid; otherwise one is *)
(* drawn, and kept unless that failed.                                     *)
Answer(source, ask, key, life, image) ==
  LET kept == {e \in images[source] : e.key = key /\ now <= e.valid}
      new == [key |-> key, valid |-> now + life, ask |-> ask, image |-> image]
      others == {e \in images[source] : e.key # key}
  IN
  /\ requests' = requests + 1
  /\ asked' = [source |-> source, ask |-> ask, at |-> now]
  /\ IF kept # {}
     THEN /\ \E e \in kept : answer' = [ask |-> e.ask, at |-> e.valid - life, image |-> e.image]
          /\ UNCHANGED images
     ELSE /\ answer' = [ask |-> ask, at |-> now, image |-> image]
          /\ images' = [images EXCEPT ![source] =
                          IF image.kind = "failed" THEN others ELSE others \cup {new}]
  /\ UNCHANGED <<which, ticks>>

Failed == [kind |-> "failed"]

--------------------------------------------------------------------------------
(* Transfers.  The databases are read one after the other, each its nodes, *)
(* its link events and its blocks.                                         *)
Bounds(ask, t) == T!queryTimeBounds(ask.span, ask.start, ask.end, t)

Instances(ask) ==
  SelectSeq(world.databases, LAMBDA db : db \in T!databases(C!ToSet(world.databases), ask.where))

Read(ask, d) ==
  LET dbs == Instances(ask)
      start == IF world.wide THEN 0 ELSE d.start
      end == IF world.wide THEN Max({now, d.end}) ELSE d.end
  IN [i \in DOMAIN dbs |->
        [name |-> dbs[i].name, nodes |-> dbs[i].nodes,
         rows |-> T!fetchLinkEvents(dbs[i].events, d.querybin, start, end),
         blocks |-> T!fetchBlockLatency(dbs[i].blocks, d.start, d.end)]]

DatabaseNames == {world.databases[i].name : i \in DOMAIN world.databases}

(* What plot sets in the attributes of some plots.                         *)
PlotOptions(ask) ==
  T!linkOptions(IF ask.what = "region-cross-rate" THEN T!RegionAttrs(ask.attrs)
                ELSE IF ask.what = "completed-block-latency-summary"
                THEN [ask.attrs EXCEPT !.qty = "destination"] ELSE ask.attrs)

DrawVolume(series, volume, legend) ==
  [kind |-> "bars", series |-> series, data |-> volume, legend |-> legend,
   bars |-> C!Bars(volume, legend, FALSE),
   entries |-> C!Truncated(C!_getLegend(volume, legend, FALSE), MaxLegend)]

DrawQuality(quality, legend) ==
  [kind |-> "scatter", data |-> quality, letters |-> C!Letters(quality, legend),
   numbers |-> C!Numbers(quality, legend)]

DrawLatency(ask, blocks, legend) ==
  LET values == T!LatencyValues(blocks)
      range == T!LatencyRange(values, ask.ymin, ask.ymax)
  IN IF T!LatencyFails(values, ask.log, range) THEN Failed
     ELSE [kind |-> "latency", data |-> blocks, legend |-> legend,
           bins |-> T!LatencyBins(blocks, ask.log, ask.bins, range)]

DrawLinks(what, series, rows, legend) ==
  CASE what = "link-bytes" -> DrawVolume(series, T!LinkBytes(rows), legend)
    [] what = "link-rate" -> [kind |-> "rates", series |-> series, data |-> T!LinkRate(rows, series)]
    [] what = "rate-vs-quality" -> DrawQuality(T!RateVsQuality(rows), legend)
    [] what = "region-cross-rate" -> [kind |-> "table", data |-> rows, table |-> T!RegionTable(rows)]

DrawRows(ask, d, dbs, series, rows) ==
  IF ask.what = "completed-block-latency-summary"
  THEN DrawLatency(ask, T!blockLatencyData(d, dbs, series), T!makeLegend(d, dbs, rows, DatabaseNames))
  ELSE IF T!LinksFail(dbs) THEN Failed
  ELSE DrawLinks(ask.what, series, rows, T!makeLegend(d, dbs, rows, DatabaseNames))

DrawRead(ask, d, dbs, series) == DrawRows(ask, d, dbs, series, T!linkData(d, dbs, series))

DrawWithin(ask, b) ==
  DrawRead(ask, PlotOptions(ask), Read(ask, b), T!timeseries(b.span, b.start, b.end))

DrawTransfers(ask) == DrawWithin(ask, Bounds(ask, now))

PlotTransfers ==
  \E ask \in Comes("transfers", TransferAsks) :
    Answer("transfers", ask, ask, 60, DrawTransfers(ask))

--------------------------------------------------------------------------------
(* Production.  The names depend on what the rows are sorted by; those of  *)
(* the busiest sites are read for the same time, of all jobs.              *)
Result(q) == world.rows[P!getURL(q).sortby]
Busiest(q) ==
  P!TopOf(SelectSeq(world.rows[q.sortby], LAMBDA r : TRUE), world.top)

DrawPie(names, slices) ==
  [kind |-> "pie", data |-> slices, legend |-> names, slices |-> C!Slices(slices)]

DrawTree(tree) ==
  [kind |-> "baobab", tree |-> tree, wedges |-> C!Wedges(tree, 0, 0, tree.value)]

DrawBaobab(q, values) ==
  DrawTree(F!Tree([b \in {P!Branch(q, n) : n \in DOMAIN values} |->
                     values[CHOOSE n \in DOMAIN values : P!Branch(q, n) = b]], <<>>))

DrawBars(series, data, names) ==
  [kind |-> "bars", series |-> series, data |-> data, legend |-> names,
   bars |-> C!Bars(data, names, TRUE),
   entries |-> C!Truncated(C!_getLegend(data, names, TRUE), MaxLegend)]

DrawSurfaces(data, names) ==
  [kind |-> "surfaces", data |-> data, legend |-> names, surfaces |-> C!Surfaces(data, names, TRUE)]

DrawResult(q, result, top, names) ==
  CASE q.plot = "pie" -> DrawPie(names, P!PieData(q, top, result))
    [] q.plot = "baobab" -> DrawBaobab(q, P!BaobabData(q, result))
    [] q.plot \in {"bar", "cumulative"} /\ P!SeriesFails(q, result) -> Failed
    [] q.plot = "bar" /\ ~P!SeriesFails(q, result) ->
         DrawBars(P!_getSeries(q, result), P!SeriesData(q, top, result), names)
    [] q.plot = "cumulative" /\ ~P!SeriesFails(q, result) ->
         DrawSurfaces(P!SeriesData(q, top, result), names)

DrawProduction(q) ==
  IF P!isValid(q, now)
  THEN DrawResult(q, Result(q), Busiest(q), P!Names(q, Busiest(q), Result(q)))
  ELSE Failed

(* The requests that have a plot: a summary, or a query of four parts.     *)
ProductionPlots == ProductionAsks \cup {P!Summary(kind) : kind \in {"site", "wf", "team"}}

PlotProduction ==
  \E ask \in Comes("production", ProductionPlots) :
    LET q == P!Query(ask.path, ask.attrs, now)
    IN Answer("production", ask, P!imageKey(q), 1800, DrawProduction(q))

--------------------------------------------------------------------------------
(* Sites and groups.                                                       *)
PlotSite ==
  \E ask \in Comes("site", SiteAsks) :
    Answer("site", ask, F!SiteKey(ask.site, ask.attrs), 3600,
           DrawTree(F!Tree(F!Transform(ask.attrs, F!NodeData(world.blocks[ask.site])), <<>>)))

PlotGroup ==
  \E ask \in Comes("group", GroupAsks) :
    Answer("group", ask, F!GroupKey(ask.group, ask.attrs), 3600,
           DrawTree(F!Tree(F!GroupSizes(F!GroupData(world.usage[ask.group])), <<>>)))

Tick ==
  /\ requests > 0 /\ GoesOn
  /\ ticks < MaxPauses
  /\ ticks' = ticks + 1
  /\ UNCHANGED <<which, images, asked, answer, requests>>

Next == PlotTransfers \/ PlotProduction \/ PlotSite \/ PlotGroup \/ Tick

Spec == Init /\ [][Next]_vars

--------------------------------------------------------------------------------
Sum(S, f(_)) == MapThenSumSet(f, S)
Positions(seqs) == {<<i, j>> : i \in DOMAIN seqs, j \in UNION {DOMAIN seqs[i] : i \in DOMAIN seqs}}
AllBars(bars) == {bars[p[1]][p[2]] : p \in {x \in Positions(bars) : x[2] \in DOMAIN bars[x[1]]}}
Heights(bars) ==
  Sum({x \in Positions(bars) : x[2] \in DOMAIN bars[x[1]]}, LAMBDA x : bars[x[1]][x[2]].height)

Covers(series, d, ask, at) ==
  /\ series[1][1] = d.start /\ series[Len(series)][2] >= d.end
  /\ \A i \in 1 .. Len(series) - 1 : series[i][2] = series[i + 1][1]
  /\ ask.end <= 0 => d.end >= at
  /\ d.span \in {"hour", "day", "week"} =>
       /\ d.end - d.start <= T!Limit(d.span)
       /\ T!HasTicks(d.span, series)
       /\ Cardinality(T!Ticks(d.span, series)) <= T!MaxTicks

(* Common.py:70, PhEDEx.py:246: the time series of a plot begins where the *)
(* time asked for begins and covers it without gaps, is not longer than the*)
(* limits say, and its axis has at most 12 ticks.                          *)
SeriesCover ==
  answer.image.kind = "bars" /\ asked.source = "transfers" =>
    Covers(answer.image.series, Bounds(answer.ask, answer.at), answer.ask, answer.at)

Passing(db, d, o) ==
  {e \in db.events : d.start <= e.time /\ e.time < d.end /\ T!Passes(o, e.dest, e.src)}
Shown(ask, d, o) ==
  Sum(C!ToSet(Instances(ask)), LAMBDA db : Sum(Passing(db, d, o), LAMBDA e : e.bytes))

BytesOf(image) ==
  CASE image.kind = "bars" -> Heights(image.bars)
    [] image.kind = "table" -> Sum(T!Regions \X T!Regions, LAMBDA r : image.table[r[1]][r[2]])
    [] image.kind = "scatter" -> Sum(DOMAIN image.data, LAMBDA k : image.data[k].bytes)
    [] image.kind = "rates" ->
         Sum(DOMAIN image.data, LAMBDA i :
           Sum(DOMAIN image.data[i], LAMBDA k : image.data[i][k].bytes))

(* PhEDEx.py:458: whatever way transfers are grouped, every transfer of    *)
(* the time that passes the filters is shown once: the bars, the bubbles   *)
(* and the table of regions have all its bytes.  Where a database has no   *)
(* nodes this is not so (RowsAtHand), and the table of regions fails when  *)
(* the sources have groups of their own.                                   *)
EveryByteDrawn ==
  LET image == answer.image IN
  /\ asked.source = "transfers" /\ image.kind \in {"bars", "table", "scatter", "rates"}
  /\ \A db \in C!ToSet(Instances(answer.ask)) : db.nodes # {}
  /\ image.kind = "table" => answer.ask.attrs.srcgrouping \in {"same", "region"}
  => BytesOf(image) = Shown(answer.ask, Bounds(answer.ask, answer.at), PlotOptions(answer.ask))

BlocksShown(db, ask, d, o) ==
  {b \in db.blocks :
     /\ d.start <= b.tdone /\ b.tdone < d.end /\ b.tdone > b.first
     /\ T!Passes([o EXCEPT !.srcfilter = AllNames], b.dest, b.dest)
     /\ b.hours >= (IF ask.ymin >= 0 THEN Max({1, ask.ymin}) ELSE 0)
     /\ ask.ymax < 0 \/ b.hours <= Max({10, ask.ymax})}
AllBlocksShown(ask, d, o) ==
  Sum(C!ToSet(Instances(ask)), LAMBDA db : Cardinality(BlocksShown(db, ask, d, o)))

(* PhEDEx.py:859, 887: in a map of latencies that is drawn, on either      *)
(* axis, each block that was completed in the time, and took no less and   *)
(* no more than what is shown, is counted in one bin of those the map has, *)
(* its last one included.  On the logarithmic axis a map is drawn only if  *)
(* the request says where it begins (LatencyFails).                        *)
EveryBlockCounted ==
  LET bins == answer.image.bins IN
  answer.image.kind = "latency" =>
    /\ \A k \in DOMAIN bins : C!ColumnFits(bins[k], answer.ask.bins)
    /\ Sum(DOMAIN bins, LAMBDA k : Sum(DOMAIN bins[k], LAMBDA b : bins[k][b]))
         = AllBlocksShown(answer.ask, Bounds(answer.ask, answer.at), PlotOptions(answer.ask))

(* ProdMon.py:700-1044: the four kinds of plot are of the same rows, those *)
(* above 0 whose names pass the filter: slices, bars, the last heights of  *)
(* the surfaces and the inner ring of wedges add up to them.               *)
EveryJobDrawn ==
  asked.source = "production" =>
    LET q == P!Query(answer.ask.path, answer.ask.attrs, answer.at)
        rows == Result(q)
        image == answer.image
        total == Sum({i \in DOMAIN rows : rows[i].value > 0 /\
                                         (q.regex = NoValue \/ rows[i].name \in q.matches)},
                     LAMBDA i : rows[i].value)
    IN CASE image.kind = "failed" -> TRUE
         [] image.kind = "pie" -> Sum(C!ToSet(image.slices), LAMBDA s : s.value) = total
         [] image.kind = "bars" -> Heights(image.bars) = total
         [] image.kind = "surfaces" -> C!Last(image.surfaces)[Len(image.data)] = total
         [] image.kind = "baobab" ->
              Sum({w \in image.wedges : w.bottom = 1}, LAMBDA w : w.width) = total

(* Plot.py:506, 1255, 1310: what is drawn can be told from the legend, and *)
(* pointed at: each bar with a height is that of an item of the legend,    *)
(* no two entries are in one place, and all are within the columns and     *)
(* rows the image is made for; or the legend says that it is not complete. *)
(* A pie has a slice for each item.  For transfers this needs a list of    *)
(* nodes that is not older than the rows.                                  *)
NodesKnown(ask) ==
  \A db \in C!ToSet(Instances(ask)) : \A e \in db.events : {e.src, e.dest} \subseteq db.nodes

LegendComplete ==
  /\ answer.image.kind = "pie" => C!PieDrawn(answer.image.data, answer.image.legend)
  /\ answer.image.kind = "bars" /\ (asked.source = "transfers" => NodesKnown(answer.ask)) =>
       LET image == answer.image
           entries == image.entries
           n == Len(entries)
           drawn == {b.key : b \in {x \in AllBars(image.bars) : x.height > 0}}
       IN /\ C!MapDrawn(image.data, image.legend)
          /\ drawn \subseteq C!ToSet(entries) \/ C!NoKey \in C!ToSet(entries)
          /\ n <= MaxLegend + 1
          /\ \A columns \in 1 .. 4 : \A i \in DOMAIN entries :
               /\ C!Place(i, n, columns).column < columns
               /\ \A j \in 1 .. i - 1 : C!Place(i, n, columns) # C!Place(j, n, columns)

(* Plot.py:586: wedges of one ring do not overlap, and each stands on one  *)
(* of the ring below that is at least as wide.                             *)
WedgesNested ==
  answer.image.kind = "baobab" =>
    LET End(w) == w.left + w.width IN
    \A w \in answer.image.wedges :
      /\ \A v \in answer.image.wedges :
           v = w \/ v.bottom # w.bottom \/ End(v) <= w.left \/ End(w) <= v.left
      /\ w.bottom > 0 =>
           \E v \in answer.image.wedges :
             v.bottom = w.bottom - 1 /\ ~v.low /\ v.left <= w.left /\ End(w) <= End(v)

(* ProdMon.py:1458, FileLight.py:171: an image from the cache is of the    *)
(* same kind and time, and, unless a text of the two requests has a mark   *)
(* of the keys in it or says False, of all that was asked for, but for     *)
(* titles and labels, which the keys leave out.                            *)
Subject(q) == <<q.what, q.sortby, q.plot, q.job_type, q.starttime, q.endtime>>
SameButTitles(q, r) ==
  [q EXCEPT !.notitle = r.notitle, !.nolabels = r.nolabels] = r

Clear(text) == {"|", ":", "False"} \cap C!ToSet(text) = {}
ClearQuery(q) ==
  /\ q.regex = NoValue \/ Clear(q.regex)
  /\ \A f \in DOMAIN q.filters : Clear(q.filters[f])
ClearSite(attrs) == \A f \in {"custodial", "incomplete", "subscribed", "filter"} \cap DOMAIN attrs :
                     Clear(attrs[f])

QueryAsked == P!Query(asked.ask.path, asked.ask.attrs, asked.at)
QueryDrawn == P!Query(answer.ask.path, answer.ask.attrs, answer.at)

AsAsked ==
  /\ asked.source = "production" =>
       /\ Subject(QueryAsked) = Subject(QueryDrawn)
       /\ ClearQuery(QueryAsked) /\ ClearQuery(QueryDrawn) => SameButTitles(QueryAsked, QueryDrawn)
  /\ asked.source = "site" =>
       /\ asked.ask.site = answer.ask.site
       /\ ClearSite(asked.ask.attrs) /\ ClearSite(answer.ask.attrs) => asked.ask = answer.ask
  /\ asked.source = "group" => asked.ask = answer.ask

(* ProdMon.py:1374: what the key of a plot is said to consider: the whole  *)
(* request.  This is not so for titles, nor for texts with marks in them.  *)
KeyConsidersAll ==
  asked.source \in {"production", "site"} =>
    IF asked.source = "production" THEN QueryAsked = QueryDrawn ELSE asked.ask = answer.ask
================================================================================
