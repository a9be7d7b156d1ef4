---------------------------- MODULE MCWorkspaces ----------------------------
(* Instances of the DQM workspaces for TLC: one user for each kind of use, *)
(* so that a behaviour exercises the methods that touch the same data.     *)
EXTENDS DQMWorkspaces, TLC

SomeKinds == ("Summary" :> "plain") @@ ("Tracker" :> "content") @@ ("Shift" :> "shift")
               @@ ("Sample" :> "sample") @@ ("Play" :> "play")

SomeConfigs == {<<"Summary", "Tracker", "Shift", "Sample", "Play">>,
                <<"Shift", "Summary", "Sample", "Play">>}

R(method, args) == [method |-> method, args |-> args]
S(name, args) == [method |-> "start", name |-> name, args |-> args]
Go(name) == R("workspace", "name" :> name)
E == Nothing

Navigator ==
  {S("Summary", E), S("Tracker", E), Go("Tracker"), Go("Shift"), R("chooseSample", E), R("play", E),
   R("return", E), R("stop", E), R("step", "pos" :> "1"), R("state", E)}

Sampler ==
  {S("Summary", E), R("chooseSample", "vary" :> "run"), R("chooseSample", "vary" :> Junk),
   R("modify", "pat" :> "x"), R("modify", ("order" :> "run") @@ ("dynsearch" :> Junk)),
   R("select", ("type" :> "mc") @@ ("importversion" :> "0") @@ ("runnr" :> "1")),
   R("select", ("type" :> "data") @@ ("importversion" :> "0") @@ ("runnr" :> Junk)),
   R("select", E)}

Setter ==
  {S("Summary", "size" :> "L"), S("Summary", "zoom" :> "yes"),
   R("setFilter", "n" :> "alarms"), R("setFilter", "n" :> Junk),
   R("setSize", "sz" :> "XL"), R("setSize", E),
   R("setReference", ("position" :> "stacked") @@ ("r1" :> "none") @@ ("r3" :> Junk)),
   R("setStripChart", ("type" :> "x-mean") @@ ("n" :> Junk) @@ ("axis" :> "time")),
   R("setSubMenu", E)}

Chooser ==
  {S("Tracker", "root" :> "o1"), S("Shift", "root" :> "o1"), S("Tracker", "focus" :> "bad"),
   R("setRoot", "n" :> "o1"), R("setRoot", "n" :> "bad"),
   R("setRoot", "n" :> Junk), R("setFocus", "n" :> "o1"), R("setFocus", "n" :> "bad"),
   R("setFocus", E), R("resetWorkspace", E), R("state", E), Go("Shift"), Go("Tracker")}

Collector ==
  {S("Tracker", E), S("Tracker", ("reset" :> "yes") @@ ("add" :> "o1")), S("Summary", "add" :> "o1"),
   S("Tracker", ("add" :> "bad") @@ ("zoom" :> "no")), Go("Tracker"), R("resetWorkspace", E),
   R("play", E), R("interval", "v" :> "1"), R("interval", E), R("stop", E)}

Shifter ==
  {S("Shift", "root" :> "o1"), R("setRoot", "n" :> "00 Shift/x"), R("setRoot", "n" :> "o1"),
   R("state", E), R("changeRun", E)}

Image(opt, val) == R("alterImage", ("o" :> "o1") @@ ("opt" :> opt) @@ ("value" :> val))
Painter ==
  {S("Tracker", E), Image("withref", "yes"), Image("withref", ""), Image("xtype", "log"),
   Image("xmin", "1.5"), Image("xmin", ""), Image("drawopts", ""), Image("colour", "1"),
   R("alterImage", ("o" :> "o2") @@ ("opt" :> "xmin") @@ ("value" :> "")),
   R("alterImage", "o" :> "o1"), R("resetWorkspace", E)}

Arranger ==
  {S("Summary", E), R("panel", ("n" :> "help") @@ ("show" :> "yes") @@ ("x" :> "5")),
   R("panel", "n" :> Junk), R("setZoom", ("x" :> "1") @@ ("y" :> Junk) @@ ("w" :> "5")),
   R("setZoom", "show" :> "no"), R("setCertZoom", ("w" :> "5") @@ ("h" :> "1")),
   R("setJsonZoom", ("show" :> "no") @@ ("x" :> "1")), R("setJsonmode", "mode" :> "yes"),
   R("setJSrootmode", E)}

SomeUsers == {Navigator, Sampler, Setter, Chooser, Collector, Painter, Arranger, Shifter}
================================================================================
