------------------------------ MODULE ProdMonData ------------------------------
(***************************************************************************)
(* What a plot of the production monitor is drawn from                     *)
(* (Overview/ProdMon.py): the query a request is turned into, the keys it  *)
(* is cached under and the URL it is read from, and how the rows that come *)
(* back are filtered, grouped and added up.  A name is the sequence of its *)
(* parts, whatever divides them ("_" of sites, "-" of workflows, "/" of    *)
(* datasets).  A text of a request, an expression that names have to match *)
(* or a filter of the query, is a sequence too, with the marks | and : that*)
(* the keys of the cache are made with as parts of their own; matches is   *)
(* the set of names that the expression finds.                             *)
(***************************************************************************)
EXTENDS Integers, Sequences, FiniteSetsExt, SequencesExt

CONSTANT NoValue   \* of a parameter that is not given, or empty

HourLong == 3600
DayLong == 86400
TwoDays == 172800
SevenDays == 604800

--------------------------------------------------------------------------------
(* ProdMonQuery.  The time a request is about: as it says, if that makes   *)
(* sense, and otherwise the last 48 hours; rounded down to hours.          *)
Rounded(t) == t - (t % HourLong)

Times(attrs, now) ==
  CASE attrs.start # NoValue /\ attrs.end # NoValue ->
         IF attrs.start < attrs.end /\ attrs.end < now
         THEN <<attrs.start, attrs.end>> ELSE <<now - TwoDays, now>>
    [] ~(attrs.start # NoValue /\ attrs.end # NoValue) /\ attrs.period # NoValue ->
         <<now - attrs.period * HourLong, now>>
    [] OTHER -> <<now - TwoDays, now>>

Default(x, usual) == IF x = NoValue THEN usual ELSE x
Types == {"pdf", "ps", "eps", "png", "svg", "json"}

(* Filters are a function from some of the sort keys to texts.             *)
Query(path, attrs, now) ==
  [what |-> path.what, sortby |-> path.sortby, plot |-> path.plot, job_type |-> path.job_type,
   starttime |-> Rounded(Times(attrs, now)[1]), endtime |-> Rounded(Times(attrs, now)[2]),
   filters |-> attrs.filters, regex |-> attrs.regex, matches |-> attrs.matches,
   group |-> attrs.group,
   size |-> Default(attrs.size, "800x600x72"),
   type |-> IF attrs.type \in Types THEN attrs.type ELSE "png",
   notitle |-> attrs.notitle, nolabels |-> attrs.nolabels]

SortKeys == {"site", "wf", "dts", "exit_code", "prod_team", "prod_agent"}
Whats == {"evts_read_any", "jobs_success_rates", "dts_timings", "wf_summary"}
Plots == {"bar", "pie", "cumulative", "baobab"}
JobTypes == {"Merge", "Any", "Processing"}

(* plot: the summaries the page of the production monitor shows are pies   *)
(* of two days, asked for by a name.                                       *)
Summary(kind) ==
  [path |-> [what |-> "evts_read_any", plot |-> "pie", job_type |-> "Any",
             sortby |-> IF kind = "team" THEN "prod_team" ELSE kind],
   attrs |-> [start |-> NoValue, end |-> NoValue, period |-> 48, filters |-> [k \in {} |-> ""],
              regex |-> NoValue, matches |-> {}, size |-> "400x300x72", type |-> "png",
              group |-> CASE kind = "site" -> "top5site" [] kind = "wf" -> "top5wf"
                          [] kind = "team" -> NoValue,
              notitle |-> TRUE, nolabels |-> TRUE]]

(* isValid: what is asked is known, or two of the four are and it is about *)
(* the table of workflows.                                                 *)
isValid(q, now) ==
  LET matched == Cardinality({i \in 1 .. 4 :
                   <<q.what \in Whats, q.sortby \in SortKeys, q.plot \in Plots,
                     q.job_type \in JobTypes>>[i]})
  IN /\ matched = 4 \/ (matched = 2 /\ q.what = "wf_summary" /\ q.plot = "data")
     /\ q.starttime <= q.endtime /\ q.endtime <= now

getURL(q) ==
  [what |-> q.what, sortby |-> q.sortby, plot |-> IF q.plot = "baobab" THEN "pie" ELSE q.plot,
   job_type |-> q.job_type, starttime |-> q.starttime, endtime |-> q.endtime,
   filters |-> q.filters]

(* cacheKey: of the rows, and of the image; what is written one after the  *)
(* other, so that a text with the marks in it reads as something else.     *)
Filter(q, f) == <<"|", "f", ":", f, ":">> \o q.filters[f]
FilterKeys == <<"site", "wf", "dts", "prod_team", "prod_agent", "exit_code">>
Filters(q) ==
  LET given == SelectSeq(FilterKeys, LAMBDA f : f \in DOMAIN q.filters)
  IN FoldLeft(LAMBDA key, f : key \o (IF key = <<>> THEN <<>> ELSE <<"|">>) \o Filter(q, f),
              <<>>, given)

rowsKey(q) ==
  <<q.what, "|", q.sortby, "|", q.plot, "|", q.job_type, "|", q.starttime, "|", q.endtime>>
    \o Filters(q)

(* Slip: the key of an image has not how the rows are grouped.             *)
imageKeyBare(q) ==
  rowsKey(q) \o <<"|", q.type, "|", q.size>>
    \o (IF q.regex = NoValue THEN <<>> ELSE <<"|", "regex", ":">> \o q.regex)

imageKey(q) ==
  rowsKey(q) \o <<"|", q.type, "|", q.size>>
    \o (IF q.regex = NoValue THEN <<>> ELSE <<"|", "regex", ":">> \o q.regex)
    \o (IF q.group = NoValue THEN <<>> ELSE <<"|", "group", ":", q.group>>)

(* One day for seven days and more.                                        *)
getInterval(q) == IF q.endtime - q.starttime >= SevenDays THEN DayLong ELSE HourLong

--------------------------------------------------------------------------------
(* The names that are shown as one.  The groups there are depend on what   *)
(* the rows are sorted by; top is the list of the busiest five.            *)
_groupSite(mode, top, name) ==
  CASE mode = "tier" -> <<name[1]>>
    [] mode = "country" -> IF Len(name) > 1 THEN <<name[2]>> ELSE name
    [] mode = "tiercountry" -> IF Len(name) > 1 THEN <<name[1], name[2]>> ELSE name
    [] mode = "top5site" -> IF name \in top THEN name ELSE <<"Other">>

(* A mode that is a number keeps so many parts.                            *)
_groupWF(mode, top, name) ==
  LET parts == CASE mode = "1" -> 1 [] mode = "2" -> 2 [] OTHER -> 3
  IN IF mode = "top5wf" THEN (IF name \in top THEN name ELSE <<"Other">>)
     ELSE IF Len(name) > parts THEN SubSeq(name, 1, parts) ELSE name

(* Of a dataset: generator, campaign, conditions and tiers, in this order. *)
(* One that has not as many parts makes the plot fail.                     *)
DtsPart(mode) ==
  CASE mode = "generator" -> 1 [] mode = "campaign" -> 2 [] mode = "conditions" -> 3
    [] mode = "tiers" -> 4
_groupDTS(mode, name) ==
  CASE mode = "merged" -> <<IF "unmerged" \in ToSet(name) THEN "UnMerged" ELSE "Merged">>
    [] mode # "merged" /\ DtsPart(mode) <= Len(name) -> <<name[DtsPart(mode)]>>
    [] OTHER -> <<"fails">>

(* An exit code is the number of its ten thousands, and what is below.     *)
_groupCode(mode, name) == IF Len(name) > 1 THEN <<name[1], "xxxx">> ELSE name

Groups(sortby) ==
  CASE sortby = "site" -> {"tier", "country", "tiercountry", "top5site"}
    [] sortby = "wf" -> {"1", "2", "3", "top5wf"}
    [] sortby = "dts" -> {"generator", "campaign", "conditions", "tiers", "merged"}
    [] sortby = "exit_code" -> {"10k"}
    [] sortby \in {"prod_team", "prod_agent"} -> {}

Group(q, top, name) ==
  CASE q.group \notin Groups(q.sortby) -> name
    [] q.group \in Groups(q.sortby) /\ q.sortby = "site" -> _groupSite(q.group, top, name)
    [] q.group \in Groups(q.sortby) /\ q.sortby = "wf" -> _groupWF(q.group, top, name)
    [] q.group \in Groups(q.sortby) /\ q.sortby = "dts" -> _groupDTS(q.group, name)
    [] q.group \in Groups(q.sortby) /\ q.sortby = "exit_code" -> _groupCode(q.group, name)

(* The five with the largest values, the later of equal ones first.        *)
TopOf(items, n) ==
  LET order == SetToSortSeq(DOMAIN items, LAMBDA i, j :
                 items[i].value > items[j].value \/ (items[i].value = items[j].value /\ i > j))
  IN {items[order[i]].name : i \in {j \in DOMAIN order : j <= n}}

--------------------------------------------------------------------------------
(* The rows: a sequence of [name, value, epoch].  They count if their name *)
(* passes and their value is above 0.                                      *)
Counts(q, item) == (q.regex = NoValue \/ item.name \in q.matches) /\ item.value > 0

Used(q, result) == {i \in DOMAIN result : Counts(q, result[i])}
SumBy(result, used, key) ==
  [k \in {key[i] : i \in used} |->
     MapThenSumSet(LAMBDA i : result[i].value, {i \in used : key[i] = k})]
Grouped(q, top, result) == [i \in DOMAIN result |-> Group(q, top, result[i].name)]

(* _plotPie: by group.  _plotBaobab: by name, without the groups.          *)
PieData(q, top, result) == SumBy(result, Used(q, result), Grouped(q, top, result))
BaobabData(q, result) == SumBy(result, Used(q, result), [i \in DOMAIN result |-> result[i].name])

(* Where a name is in the tree: in no more than three parts.               *)
Branch(q, name) ==
  IF q.sortby \in {"site", "wf", "dts"}
  THEN IF Len(name) <= 3 THEN [i \in DOMAIN name |-> <<name[i]>>]
       ELSE <<<<name[1]>>, <<name[2]>>, SubSeq(name, 3, Len(name))>>
  ELSE <<name>>

(* _getSeries: from the first epoch to the last, or of the whole time when *)
(* there are no rows.                                                      *)
Epochs(result) == {result[i].epoch : i \in DOMAIN result}
_getSeries(q, result) ==
  LET interval == getInterval(q)
      first == IF result = <<>> THEN q.starttime ELSE Min(Epochs(result))
      count == IF result = <<>> THEN (q.endtime - q.starttime) \div interval
               ELSE (Max(Epochs(result)) - first) \div interval + 1
  IN [i \in 1 .. count |-> <<first + (i - 1) * interval, first + i * interval>>]

(* _plotBar and _plotCumulative fail for a row whose epoch is not that of  *)
(* an interval, and when there is no interval at all.                      *)
SeriesFails(q, result) ==
  \/ _getSeries(q, result) = <<>>
  \/ \E i \in Used(q, result) :
       \A n \in DOMAIN _getSeries(q, result) :
         _getSeries(q, result)[n][1] # result[i].epoch

(* By interval and group.  An interval without rows gets a 0 for the first *)
(* name of all, so that it has something to draw.                          *)
Names(q, top, result) ==
  LET GroupOf(i) == Group(q, top, result[i].name)
      AddNew(names, i) == IF Contains(names, GroupOf(i)) THEN names ELSE Append(names, GroupOf(i))
  IN FoldLeft(AddNew, <<>>, SetToSortSeq(Used(q, result), LAMBDA i, j : i < j))

(* Slip: a row that comes after another of its group takes its place.      *)
SeriesDataLast(q, top, result) ==
  LET series == _getSeries(q, result)
      used == Used(q, result)
  IN [n \in DOMAIN series |->
        LET here == {i \in used : result[i].epoch = series[n][1]}
            GroupOf(i) == Group(q, top, result[i].name)
        IN IF here = {} /\ used # {} THEN [k \in {Names(q, top, result)[1]} |-> 0]
           ELSE [k \in {GroupOf(i) : i \in here} |->
                   result[Max({i \in here : GroupOf(i) = k})].value]]

SeriesData(q, top, result) ==
  LET series == _getSeries(q, result)
      used == Used(q, result)
  IN [n \in DOMAIN series |->
        LET here == {i \in used : result[i].epoch = series[n][1]} IN
        IF here = {} /\ used # {} THEN [k \in {Names(q, top, result)[1]} |-> 0]
        ELSE SumBy(result, here, Grouped(q, top, result))]
================================================================================
