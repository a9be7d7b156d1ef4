---------------------------- MODULE MCOverviewPlots ----------------------------
EXTENDS OverviewPlots, TLC

(* The 3rd of March 2008, a Monday, 10:20.                                 *)
Monday == T!MonthStart(12 * 2008 + 2) + 2 * T!Day
Then == Monday + 10 * T!Hour + 1200

Kit == <<"T1", "DE", "KIT", "Buffer">>
KitTape == <<"T1", "DE", "KIT", "MSS">>
Cern == <<"T0", "CH", "CERN", "Export">>
Cscs == <<"T2", "CH", "CSCS">>
Odd == <<"Elsewhere">>
Nodes == {Kit, KitTape, Cern, Cscs, Odd}

Event(time, dest, src, bytes, done, failed) ==
  [time |-> time, dest |-> dest, src |-> src, bytes |-> bytes, done |-> done,
   failed |-> failed, tried |-> done + failed]
Block(tdone, dest, hours) == [tdone |-> tdone, first |-> 0, dest |-> dest, hours |-> hours]

ProdEvents ==
  {Event(Then - 60, Kit, Cern, 5, 1, 0), Event(Then - 120, Kit, Cern, 7, 2, 1),
   Event(Then - 2 * T!Hour, KitTape, Cern, 11, 1, 0), Event(Monday, Cscs, Kit, 13, 1, 3),
   Event(Monday - 1, Odd, Cscs, 17, 1, 0), Event(Then - 96 * T!Hour - 1200, Cern, Kit, 19, 1, 1),
   Event(Monday - 40 * T!Day, Kit, Cscs, 23, 4, 0), Event(Monday - 400 * T!Day, Cscs, Cern, 29, 1, 0)}
DebugEvents == {Event(Then - 60, Kit, Cern, 31, 1, 0), Event(Monday - 1, Cscs, Kit, 37, 1, 1)}
Blocks == {Block(Then - 60, Kit, 3), Block(Then - 120, KitTape, 40), Block(Monday, Cscs, 12),
           Block(Monday - 1, Odd, 12), Block(Monday - 50 * T!Day, Kit, 7)}

Database(label, class, nodes, events, blocks) ==
  [label |-> label, class |-> class, name |-> <<label>>, nodes |-> nodes, events |-> events,
   blocks |-> blocks]
Prod == Database("prod", "main", Nodes, ProdEvents, Blocks)
Debug == Database("debug", "main", Nodes, DebugEvents, {Block(Then - 60, Kit, 3)})

Item(name, value, epoch) == [name |-> name, value |-> value, epoch |-> epoch]
Nine == Monday + 9 * T!Hour
SiteRows == <<Item(<<"T1", "DE", "KIT">>, 5, Nine), Item(<<"T2", "DE", "DESY">>, 700, Nine),
              Item(<<"T2", "CH", "CSCS">>, 3, Nine - T!Hour), Item(<<"T1", "DE", "KIT">>, 2, Nine - 4 * T!Hour),
              Item(<<"Odd">>, 0, Nine), Item(<<"T2", "DE", "DESY">>, 40, Nine)>>
WorkflowRows == <<Item(<<"a", "b", "c", "d">>, 5, Nine), Item(<<"a", "b", "e">>, 7, Nine - T!Hour),
                  Item(<<"a">>, 11, Nine), Item(<<"f", "b">>, 1, Nine)>>
TeamRows == <<Item(<<"x">>, 8, Nine), Item(<<"y">>, 9, Nine), Item(<<"x">>, 1, Nine)>>
SomeRows == ("site" :> SiteRows) @@ ("wf" :> WorkflowRows) @@ ("prod_team" :> TeamRows)
NoRows == [sortby \in DOMAIN SomeRows |-> <<>>]

BlockName(dataset, prod, cond, tiers) ==
  [dataset |-> dataset, prod |-> prod, cond |-> cond, tiers |-> tiers, id |-> "1"]
Copy(name, known, size, complete, custodial, replicas) ==
  [name |-> name, known |-> known, size |-> size, complete |-> complete, custodial |-> custodial,
   subscribed |-> TRUE, group |-> "higgs", replicas |-> replicas]
SiteBlocks ==
  {Copy(BlockName("min", "Summer", "v1", "RECO"), TRUE, 50, TRUE, TRUE, 1),
   Copy(BlockName("min", "Summer", "v1", "RECO"), TRUE, 20, TRUE, FALSE, 1),
   Copy(BlockName("top", "Summer", "v2", "RAW"), TRUE, 1, FALSE, TRUE, 1),
   Copy(BlockName("top", "Fall", "v2", "RAW"), TRUE, 900, TRUE, TRUE, 1),
   Copy(BlockName("low", "Fall", "v2", "RAW"), TRUE, 2, TRUE, TRUE, 1),
   Copy(BlockName("odd", "", "", ""), FALSE, 30, TRUE, TRUE, 1),
   Copy(BlockName("min", "Fall", "v2", "RAW"), TRUE, 400, TRUE, TRUE, 2)}
Usage == ("higgs" :> ((Kit :> <<60>>) @@ (Cscs :> <<7>>) @@ (Odd :> <<>>) @@ (Cern :> <<500>>)))

World(databases, wide, rows) ==
  [now |-> Then, databases |-> databases, wide |-> wide, rows |-> rows, top |-> 1,
   blocks |-> ("KIT" :> SiteBlocks), usage |-> Usage]
SomeWorlds ==
  <<World(<<Prod, Debug>>, FALSE, SomeRows), World(<<Debug, Prod>>, TRUE, NoRows),
    World(<<[Prod EXCEPT !.nodes = @ \ {Cscs}], [Debug EXCEPT !.nodes = {}]>>, FALSE, SomeRows)>>

--------------------------------------------------------------------------------
Attrs(qty, links, grouping, srcgrouping, from, to) ==
  [qty |-> qty, links |-> links, grouping |-> grouping, srcgrouping |-> srcgrouping,
   from |-> from, to |-> to]
Transfer(what, where, span, start, end, attrs, log, ymin, ymax) ==
  [what |-> what, where |-> where, span |-> span, start |-> start, end |-> end, attrs |-> attrs,
   log |-> log, bins |-> 4, ymin |-> ymin, ymax |-> ymax]
Plain == Attrs("destination", "all", "node", "same", AllNames, AllNames)
Kinds == {"link-bytes", "link-rate", "rate-vs-quality", "region-cross-rate"}

Times ==
  {Transfer("link-bytes", {"main"}, span, start, end, Plain, TRUE, -1, -1) :
     span \in T!Spans, start \in {-1, 0, Monday - 3 * T!Day + 5, Monday - 3000 * T!Day},
     end \in {-1, Monday, Monday - 1}}
Options ==
  {Transfer(what, {"debug", "none"}, "day", -1, -1, Plain, TRUE, -1, -1) : what \in Kinds}
  \cup
  {Transfer(what, {"main"}, "day", -1, -1, Attrs(qty, links, grouping, src, from, AllNames), TRUE, -1, -1) :
     what \in Kinds, qty \in {"source", "link", "odd"},
     links \in {"mss", "nonmss", "all"}, grouping \in {"db", "node", "site", "country", "region", "tier"},
     src \in {"same", "db", "site"}, from \in {AllNames, {Cern, Kit}}}
Latencies ==
  {Transfer("completed-block-latency-summary", {"prod"}, span, -1, -1,
            Attrs("link", links, "site", "same", AllNames, AllNames), log, ymin, ymax) :
     span \in {"day", "hour"}, links \in {"mss", "nonmss", "all"}, ymin \in {-1, 0, 4}, ymax \in {-1, 0, 12},
     log \in BOOLEAN}
SomeTransfers == Times \cup Options \cup Latencies

Regex(text, matches) == [text |-> text, matches |-> matches]
AnyName == Regex(NoValue, {})
Kits == Regex(<<"KIT">>, {<<"T1", "DE", "KIT">>})
KitOrB == Regex(<<"KIT", "b.e">>, {<<"T1", "DE", "KIT">>, <<"a", "b", "e">>})

Production(sortby, plot, period, regex, group, size, filters, notitle) ==
  [path |-> [what |-> "evts_read_any", sortby |-> sortby, plot |-> plot, job_type |-> "Any"],
   attrs |-> [start |-> NoValue, end |-> NoValue, period |-> period, filters |-> filters,
              regex |-> regex.text, matches |-> regex.matches, group |-> group, size |-> size, type |-> "png",
              notitle |-> notitle, nolabels |-> FALSE]]
NoFilters == [k \in {} |-> ""]
(* Of these the first two have one key, and the last two.                  *)
SomeFilters ==
  {Production("site", "bar", NoValue, AnyName, "tier", NoValue, filters, FALSE) :
     filters \in {("wf" :> <<"x", "|", "|", "f", ":", "dts", ":", "y">>),
                  ("wf" :> <<"x">>) @@ ("dts" :> <<"y">>), ("wf" :> <<"x">>)}}
  \cup {Production("site", "bar", NoValue, Regex(<<"KIT", "|", "group", ":", "tier">>, {}), NoValue,
                   NoValue, NoFilters, FALSE),
        Production("site", "bar", NoValue, Kits, "tier", NoValue, NoFilters, FALSE)}
SomeGroups(sortby) ==
  IF sortby = "site" THEN {NoValue, "tier", "tiercountry", "top5site"} ELSE {NoValue, "1", "2", "top5wf"}
SomeProductions ==
  UNION {
    {Production(sortby, plot, period, regex, group, NoValue, NoFilters, notitle) :
       plot \in {"bar", "pie", "cumulative", "baobab", "odd"}, group \in SomeGroups(sortby), notitle \in BOOLEAN,
       period \in {NoValue, 0, 200}, regex \in {AnyName, KitOrB}}
    : sortby \in {"site", "wf"}}
  \cup SomeFilters

(* Parameters that are given: none, or one with its text.                  *)
Give(name, texts) == {<<>>} \cup {name :> t : t \in texts}
MinLow == {"min", "low", "odd"}

SiteAsk(given, matches) ==
  [site |-> "KIT", attrs |-> [type |-> "png", size |-> "1000x1000", matches |-> matches] @@ given]
SomeSites ==
  {SiteAsk(incomplete @@ custodial @@ filter @@ scheme, IF filter = <<>> THEN {} ELSE MinLow) :
     incomplete \in Give("incomplete", {<<"yes">>}), custodial \in Give("custodial", {<<"yes">>}),
     filter \in Give("filter", {<<"min", "low">>}),
     scheme \in Give("scheme", {F!UsualScheme, <<"custodial", ":", "odd", ":", "prod">>, <<"odd">>})}
GroupSomeAsks ==
  {[group |-> "higgs", attrs |-> [type |-> type, size |-> "1000x1000"]] : type \in {"png", "svg"}}

Repetitions ==
  [transfers |-> {Transfer("link-bytes", {"main"}, "hour", -1, -1, Plain, TRUE, -1, -1)},
   production |->
     {Production("site", plot, period, AnyName, group, NoValue, NoFilters, notitle) :
        plot \in {"bar", "pie"}, period \in {NoValue, 200}, group \in {NoValue, "tier"}, notitle \in BOOLEAN}
     \cup {Production("site", "pie", 48, AnyName, "top5site", "400x300x72", NoFilters, FALSE)}
     \cup SomeFilters,
   (* Two of these have one key, and two others.                           *)
   site |-> {SiteAsk(<<>>, {}), SiteAsk("custodial" :> <<"False">>, {}),
             SiteAsk(("filter" :> <<"min", ":", "prod">>) @@ ("scheme" :> <<"odd">>), {}),
             SiteAsk(("filter" :> <<"min">>) @@ ("scheme" :> <<"prod", ":", "odd">>), {"min"})},
   group |-> GroupSomeAsks]
================================================================================
