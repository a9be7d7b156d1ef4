---------------------------- MODULE OverviewUsers ----------------------------
(* The users of the overview workspaces for TLC, one for each kind of use: *)
(* the requests each of them makes.                                        *)
EXTENDS Naturals, TLC

CONSTANTS Junk, Nothing

R(method, args) == [method |-> method, args |-> args]
S(name, args) == [method |-> "start", name |-> name, args |-> args]
Go(name) == R("workspace", "name" :> name)
E == Nothing

Plotter ==
  {S("prodmon", "view" :> "plot"), R("graph", "what" :> "dts_timings"),
   R("graph", ("what" :> "evts_read_any") @@ ("graph" :> "pie")),
   R("graph", ("sortby" :> "wf") @@ ("title" :> <<"mine">>)),
   R("add", ("copy" :> "yes") @@ ("index" :> 0)), R("add", "index" :> 5),
   R("close", "index" :> 0), R("move", "index" :> 1), R("view", E), R("view", "name" :> "plot")}

Timer ==
  {S("prodmon", "view" :> "plot"), S("prodmon", E),
   R("graph", ("use_period" :> "false") @@ ("starttime" :> "x") @@ ("endtime" :> "2011-02-01 00:00:00")),
   R("graph", ("use_period" :> "true") @@ ("period" :> "0") @@ ("size" :> "320")),
   R("graph", ("what" :> "time_by_span") @@ ("graph" :> "pie") @@ ("regex" :> Junk)),
   R("graph", ("group" :> "tier") @@ ("regex" :> "")), R("close", E),
   R("add", E), R("move", E), Go("prodmon"), Go("tpg"), R("resetWorkspace", E)}

Linker ==
  {S("prodmon", E), R("view", ("name" :> "plot") @@ ("new" :> "1") @@ ("what" :> "dts_timings")),
   R("view", ("name" :> "plot") @@ ("filter_name" :> <<"site", "wf">>)
       @@ ("filter_value" :> <<"x", "x">>)),
   R("view", ("name" :> "plot") @@ ("new" :> "1") @@ ("sortby" :> "wf") @@ ("graph" :> Junk)),
   R("view", "name" :> "nowhere"), R("filters", ("name" :> <<"site">>) @@ ("value" :> <<"x">>)),
   R("filters", ("name" :> <<"site", "dts">>) @@ ("value" :> <<"x">>)),
   R("filters", "clear" :> "true"), R("graph", "title" :> <<"mine">>),
   R("add", "copy" :> "yes"), R("add", "index" :> 1), R("close", "index" :> 1)}

Stranger ==
  {S("prodmon", E), R("view", "name" :> "plot"),
   R("view", ("name" :> "plot") @@ ("new" :> "1") @@ ("what" :> "x") @@ ("starttime" :> "x")),
   R("graph", "title" :> <<"mine">>), R("graph", "what" :> "dts_timings"),
   R("add", ("copy" :> "yes") @@ ("index" :> 0)), R("add", E), R("move", "index" :> 1),
   R("close", "index" :> 1)}

Day(m) == [form |-> "8", month |-> m]
Carrier ==
  {S("phedex", E), R("period", ("span" :> "week") @@ ("upto" :> [form |-> "6", month |-> 50])),
   R("period", ("span" :> "month") @@ ("upto" :> [form |-> "6", month |-> 11]) @@ ("time" :> "5")),
   R("period", ("span" :> "month") @@ ("upto" :> [form |-> "6", month |-> 12])),
   R("period", ("span" :> "century") @@ ("upto" :> Day(7))), R("period", "span" :> "day"),
   R("period", ("span" :> "week") @@ ("upto" :> Day(7))),
   R("period", ("span" :> "hour") @@ ("upto" :> [form |-> "8+4", month |-> 13])),
   R("databases", "phedex.db.prod" :> "no"), R("databases", "phedex.db.x" :> "maybe"),
   R("alter", ("opt" :> "qty") @@ ("val" :> "link")), R("alter", ("opt" :> "qty") @@ ("val" :> "x")),
   R("alter", ("opt" :> "from") @@ ("val" :> "x")),
   R("resize", "size" :> <<"5">>), R("resize", "size" :> <<"5", "6">>),
   R("resize", "size" :> <<"5", "6", "7">>), R("view", "name" :> "block-latency")}

Visitor ==
  {S("filelight", "view" :> "group"), S("caf", "view" :> "plot"), S("ddt", "view" :> "t0chcern"),
   Go("filelight"), Go("tpg"), Go("caf"), R("opt", "site" :> "x"), R("opt", "group" :> "x"),
   R("view", E), R("view", "name" :> "group"), R("resetWorkspace", E),
   R("alter", ("field" :> "line") @@ ("value" :> "1")), R("alter", ("field" :> "line") @@ ("value" :> "x")),
   R("alter", ("field" :> "direction") @@ ("value" :> "a")), R("alter", ("field" :> "stop") @@ ("value" :> "1")),
   R("alter", E), R("setSubMenu", E), R("setSubMenu", "n" :> "view"),
   R("panel", ("n" :> "tools") @@ ("show" :> "yes") @@ ("x" :> "5")),
   R("panel", ("n" :> "tools") @@ ("x" :> "0") @@ ("y" :> "far")), R("panel", "n" :> "help")}

SomeUsers == {Plotter, Timer, Linker, Stranger, Carrier, Visitor}
================================================================================
