------------------------------ MODULE TransferData ------------------------------
(***************************************************************************)
(* What a plot of transfers is drawn from (Overview/PhEDEx.py): the rows   *)
(* of the databases, those that pass what the request asks for, added up   *)
(* by interval of time and by group of nodes.  The name of a node is the   *)
(* sequence of its parts: T1_DE_KIT_Buffer is <<"T1", "DE", "KIT",         *)
(* "Buffer">>.  A row of link events has the beginning of its time bin, the*)
(* two nodes, and four numbers; groups are sequences too, so that all keys *)
(* are.  Filters are the sets of names they match.                         *)
(***************************************************************************)
EXTENDS TimeSeries, SequencesExt

CONSTANT AllNames   \* no filter

--------------------------------------------------------------------------------
groupByNode(name) == name

Storage == {"Buffer", "Disk", "Export", "MSS"}
groupBySite(name) ==
  IF Len(name) > 1 /\ Last(name) \in Storage THEN Front(name) ELSE name

groupByCountry(name) == IF Len(name) > 2 THEN <<name[2]>> ELSE name
groupByTier(name) == IF Len(name) > 1 THEN <<name[1]>> ELSE name

(* The centre that serves the country of the node; all countries have two  *)
(* letters.                                                                *)
Centre(country) ==
  CASE country \in {"TW", "KR"} -> "ASGC"
    [] country \in {"RU", "IN", "GR"} -> "CERN"
    [] country \in {"IT", "AT", "HU"} -> "CNAF"
    [] country \in {"US", "BR"} -> "FNAL"
    [] country \in {"DE", "PL"} -> "FZK"
    [] country \in {"FR", "BE", "CN"} -> "IN2P3"
    [] country \in {"ES", "PT"} -> "PIC"
    [] country \in {"UK", "EE", "FI"} -> "RAL"
    [] OTHER -> "Other"

groupByRegion(name) ==
  CASE Len(name) < 3 \/ name[1] \notin {"T0", "T1", "T2", "T3"} -> <<"Other">>
    [] Len(name) >= 3 /\ name[1] = "T0" -> <<"T0">>
    [] name = <<"T2", "CH", "CAF">> -> <<"CAF">>
    [] name = <<"T2", "CH", "CSCS">> -> <<"FZK">>
    [] Len(name) >= 3 /\ name[1] \in {"T1", "T2", "T3"} /\ name[2] = "CH" /\ name[3] = "CERN" ->
         <<"CERN">>
    [] OTHER -> <<Centre(name[2])>>

GROUP_BY(grouping, name) ==
  CASE grouping = "node" -> groupByNode(name)
    [] grouping = "site" -> groupBySite(name)
    [] grouping = "country" -> groupByCountry(name)
    [] grouping = "region" -> groupByRegion(name)
    [] grouping = "tier" -> groupByTier(name)

--------------------------------------------------------------------------------
(* _linkOptions: what is asked, or what is usual where that makes no sense.*)
Or(x, values, usual) == IF x \in values THEN x ELSE usual
Groupings == {"db", "node", "site", "country", "region", "tier"}

linkOptions(attrs) ==
  LET grouping == Or(attrs.grouping, Groupings, "node")
      src == Or(attrs.srcgrouping, Groupings \cup {"same"}, "same")
  IN [qty |-> Or(attrs.qty, {"source", "destination", "link"}, "destination"),
      links |-> Or(attrs.links, {"mss", "nonmss", "all"}, "nonmss"),
      grouping |-> grouping,
      srcgrouping |-> IF src = "same" THEN grouping ELSE src,
      srcfilter |-> attrs.from, destfilter |-> attrs.to]

(* A link is <<destination, source>>.                                      *)
keyfunc(d, db, dest, src) ==
  CASE d.qty = "link" /\ "db" \in {d.grouping, d.srcgrouping} -> db
    [] d.qty = "link" /\ "db" \notin {d.grouping, d.srcgrouping} ->
         <<GROUP_BY(d.grouping, dest), GROUP_BY(d.srcgrouping, src)>>
    [] d.qty # "link" /\ d.grouping = "db" -> db
    [] d.qty = "source" /\ d.grouping # "db" -> GROUP_BY(d.grouping, src)
    [] d.qty = "destination" /\ d.grouping # "db" -> GROUP_BY(d.grouping, dest)

Mss(name) == \E i \in 2 .. Len(name) : name[i] = "MSS"

Passes(d, dest, src) ==
  /\ CASE d.links = "mss" /\ d.qty = "destination" -> Mss(dest)
       [] d.links = "mss" /\ d.qty = "source" -> Mss(src)
       [] d.links = "mss" /\ d.qty = "link" -> Mss(src) \/ Mss(dest)
       [] d.links = "nonmss" -> ~Mss(src) /\ ~Mss(dest)
       [] d.links = "all" -> TRUE
  /\ d.srcfilter = AllNames \/ src \in d.srcfilter
  /\ d.destfilter = AllNames \/ dest \in d.destfilter

--------------------------------------------------------------------------------
(* _fetchLinkEvents: what happened, [time, dest, src] and the numbers, is  *)
(* added up by time bin and link.  Rows that are in the cache for a longer *)
(* time are used for a shorter one as they are.                            *)
Fields == {"bytes", "done", "failed", "tried"}

fetchLinkEvents(events, span, start, end) ==
  LET asked == {e \in events : start <= e.time /\ e.time < end}
      Bin(e) == (e.time \div span) * span
  IN {[bin |-> k[1], dest |-> k[2], src |-> k[3],
       sums |-> [f \in Fields |-> MapThenSumSet(LAMBDA e : e[f],
                  {e \in asked : <<Bin(e), e.dest, e.src>> = k})]] :
        k \in {<<Bin(e), e.dest, e.src>> : e \in asked}}

(* fetchBlockLatency: the blocks that were complete in that time, not at   *)
(* once.                                                                   *)
fetchBlockLatency(blocks, start, end) ==
  {b \in blocks : start <= b.tdone /\ b.tdone < end /\ b.tdone > b.first}

--------------------------------------------------------------------------------
(* numpy.digitize over the ends of the intervals, with a 0 before them: 1  *)
(* is before the first, and the first interval is 2.                       *)
Digitize(t, series) ==
  1 + Cardinality({i \in DOMAIN series : series[i][1] <= t})
    + (IF t >= series[Len(series)][2] THEN 1 ELSE 0)

(* Slip: the first interval is taken for what is before it.                *)
OutsideWide(t, series) == Digitize(t, series) \in {1, 2, Len(series) + 2}

Outside(t, series) == Digitize(t, series) \in {1, Len(series) + 2}

(* The databases are read in a row; one is [name, nodes, rows, blocks].    *)
(* Its rows are read once for each of its nodes: for one without nodes the *)
(* rows of the one before are still at hand, and a first one without nodes *)
(* fails.                                                                  *)
LinksFail(dbs) == dbs # <<>> /\ dbs[1].nodes = {}
RowsAtHand(dbs, i) == dbs[Max({j \in 1 .. i : dbs[j].nodes # {}})].rows

Counted(d, dbs, series) ==
  LET Wanted(r) == ~Outside(r.bin, series) /\ Passes(d, r.dest, r.src)
  IN UNION {{<<i, r>> : r \in {s \in RowsAtHand(dbs, i) : Wanted(s)}} : i \in DOMAIN dbs}

RowKey(d, dbs, c) == keyfunc(d, dbs[c[1]].name, c[2].dest, c[2].src)

Sums(rows) == [f \in Fields |-> MapThenSumSet(LAMBDA c : c[2].sums[f], rows)]

(* _linkData: for each interval, what each key has.                        *)
linkData(d, dbs, series) ==
  LET all == Counted(d, dbs, series) IN
  [n \in DOMAIN series |->
     LET here == {c \in all : Digitize(c[2].bin, series) = n + 1}
     IN [k \in {RowKey(d, dbs, c) : c \in here} |->
           Sums({c \in here : RowKey(d, dbs, c) = k})]]

(* _blockLatencyData: for each interval, the blocks each key has got; by   *)
(* database, since the same block may be in several.                       *)
blockLatencyData(d, dbs, series) ==
  LET Wanted(b) ==
        /\ ~Outside(b.tdone, series)
        /\ d.links = "mss" => Mss(b.dest)
        /\ d.links = "nonmss" => ~Mss(b.dest)
        /\ d.destfilter = AllNames \/ b.dest \in d.destfilter
      all == UNION {{<<i, b>> : b \in {c \in dbs[i].blocks : Wanted(c)}} : i \in DOMAIN dbs}
      Key(c) == keyfunc(d, dbs[c[1]].name, c[2].dest, c[2].dest)
  IN [n \in DOMAIN series |->
        LET here == {c \in all : Digitize(c[2].tdone, series) = n + 1}
        IN [k \in {Key(c) : c \in here} |-> {c \in here : Key(c) = k}]]

--------------------------------------------------------------------------------
(* _makeLegend, without the colours: for links the keys of the data, for   *)
(* all else the databases or the nodes known to them.  The last item is    *)
(* for intervals without data.                                             *)
Known(dbs) == UNION {dbs[i].nodes : i \in DOMAIN dbs}

makeLegend(d, dbs, data, param) ==
  LET keys == CASE d.qty = "link" -> UNION {DOMAIN data[i] : i \in DOMAIN data}
                [] d.qty # "link" /\ d.grouping = "db" -> param
                [] OTHER -> {GROUP_BY(d.grouping, n) : n \in Known(dbs)}
  IN Append(SetToSeq(keys), <<>>)

(* _databases: by label, or all of a class; db has those of the source.    *)
databases(db, names) ==
  UNION {IF \E x \in db : x.label = n THEN {x \in db : x.label = n}
         ELSE {x \in db : x.class = n} : n \in names}

--------------------------------------------------------------------------------
(* plot().  Volumes and rates leave out what has no bytes; a rate is the   *)
(* number of bytes, over the seconds of its interval.                      *)
Positive(row) == {k \in DOMAIN row : row[k].bytes > 0}
LinkBytes(data) == [i \in DOMAIN data |-> [k \in Positive(data[i]) |-> data[i][k].bytes]]
LinkRate(data, series) ==
  [i \in DOMAIN data |-> [k \in Positive(data[i]) |->
     [bytes |-> data[i][k].bytes, seconds |-> series[i][2] - series[i][1]]]]

(* rate-vs-quality: of each key, all its bytes, and the share of transfers *)
(* done among those done and failed.                                       *)
RateVsQuality(data) ==
  LET keys == UNION {DOMAIN data[i] : i \in DOMAIN data}
      Sum(k, f) == MapThenSumSet(LAMBDA i : data[i][k][f], {i \in DOMAIN data : k \in DOMAIN data[i]})
  IN [k \in {x \in keys : Sum(x, "done") > 0} |->
        [bytes |-> Sum(k, "bytes"), done |-> Sum(k, "done"),
         ended |-> Sum(k, "done") + Sum(k, "failed")]]

(* region-cross-rate: bytes by region of destination and of source.  The   *)
(* request is turned into one for links of regions, but the groups of the  *)
(* sources stay what was asked.                                            *)
Regions == {"ASGC", "CERN", "CNAF", "FNAL", "FZK", "IN2P3", "PIC", "RAL", "T0", "CAF", "Other"}
RegionAttrs(attrs) == [attrs EXCEPT !.qty = "link", !.grouping = "region"]
RegionTable(data) ==
  [to \in Regions |-> [from \in Regions |->
     MapThenSumSet(LAMBDA i : data[i][<<<<to>>, <<from>>>>].bytes,
                   {i \in DOMAIN data : <<<<to>>, <<from>>>> \in DOMAIN data[i]})]]

(* Slip: so that no value is in the bin after the last.                    *)
InRangeHalf(v, low, high) == low <= v /\ v < high

InRange(v, low, high) == low <= v /\ v <= high

(* completed-block-latency-summary: of each key, the number of blocks by   *)
(* bin of hours, b.hours being the latency of a block.  The range is from  *)
(* 0, or from what the request says, to the highest; values outside are    *)
(* left out.                                                               *)
LatencyRange(values, ymin, ymax) ==
  [low  |-> IF ymin >= 0 THEN Max({1, ymin}) ELSE 0,
   high |-> IF ymax >= 0 THEN Max({10, ymax}) ELSE Max(values \cup {0})]

(* Bins have equal widths, or widths that grow by equal factors.           *)
LinearBin(v, nbins, r) == ((v - r.low) * nbins) \div (r.high - r.low)
LogBin(v, nbins, r) ==
  Max({b \in 0 .. nbins : v ^ nbins * r.low ^ b >= r.high ^ b * r.low ^ nbins})

(* The logarithm, which is what a request gets that says nothing, needs    *)
(* both ends above 0; a range without width divides by 0 at the first      *)
(* block that is in it.                                                    *)
LatencyFails(values, log, r) ==
  \/ log /\ (r.low = 0 \/ r.high = 0)
  \/ r.low = r.high /\ r.low \in values

LatencyOf(data, k) == UNION {data[i][k] : i \in {j \in DOMAIN data : k \in DOMAIN data[j]}}
LatencyKeys(data) == UNION {DOMAIN data[i] : i \in DOMAIN data}
LatencyValues(data) == {c[2].hours : c \in UNION {LatencyOf(data, k) : k \in LatencyKeys(data)}}

LatencyBins(data, log, nbins, r) ==
  LET Bin(v) == IF log THEN LogBin(v, nbins, r) ELSE LinearBin(v, nbins, r)
  IN [k \in LatencyKeys(data) |->
        LET shown == {c \in LatencyOf(data, k) : InRange(c[2].hours, r.low, r.high)}
        IN [b \in {Bin(c[2].hours) : c \in shown} |->
              Cardinality({c \in shown : Bin(c[2].hours) = b})]]
================================================================================
