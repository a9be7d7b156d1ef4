--------------------------- MODULE DQMWorkspaces ---------------------------
(***************************************************************************)
(* The session methods of the DQM workspaces (DQM/GUI.py): what each AJAX  *)
(* call does to the session of a user, what of it is handed to the session *)
(* store, and what a server that starts again makes of it.  A session is   *)
(* locked for the length of a request (module Sessions), so a request is   *)
(* one step here.  Nearly all parameters go through _set, which assigns    *)
(* them one by one in a fixed order and stops at the first it rejects:     *)
(* what it has assigned before stays.                                      *)
(***************************************************************************)
EXTENDS Naturals, Sequences, FiniteSets, Functions, SequencesExt, FiniteSetsExt

CONSTANTS
  SessionIds,
  Workspaces,   \* names of workspaces
  Kind,         \* class of each: "plain", "content", "shift", "sample", "play"
  Contents,     \* workspaces configured with a quick collection
  Configs,      \* configurations: sequences of workspaces, visible ones first
  LeftAlone,    \* bound: sessions that are started and not used
  Users,        \* bound: the requests one user makes, a set for each user
  Texts,        \* parameter values that need not be anything in particular
  Unsafe,       \* names _checkObjectName does not like
  Runs,         \* run numbers
  Junk,         \* a value of the wrong type or form
  MaxRestarts,  \* bound
  Default,      \* the dictionaries of sessiondef, the class attribute
  None

VARIABLES
  config,    \* the workspaces of the running server
  session,   \* by id: the scalars of a session in memory, or None
  dicts,     \* the mutable dictionaries: those of sessiondef and of each session
  saved,     \* by id: the session as last handed to the session store, or None
  failed,    \* sessions whose last change was cut short by an error
  warnings,  \* by workspace: names it has warned about
  user,      \* who uses the server
  restarts

vars == <<config, session, dicts, saved, failed, warnings, user, restarts>>

ASSUME WorkspacesAssumption ==
  /\ Kind \in [Workspaces -> {"plain", "content", "shift", "sample", "play"}]
  /\ Configs \subseteq Seq(Workspaces) /\ "" \notin Workspaces
  /\ \A c \in Configs : c # <<>> /\ Kind[c[1]] \notin {"sample", "play"}
  /\ MaxRestarts \in Nat /\ Default \notin SessionIds

(* _workspace: the workspace of that name, the first if there is none.     *)
Workspace(name) == IF name \in Range(config) THEN name ELSE config[1]

--------------------------------------------------------------------------------
(* The parameters of _set, in the order in which it looks at them.         *)
Order ==
  <<"samplevary", "sampleorder", "sampleprevws", "samplepat", "sampledynsearch",
    "sampletype", "sampleimportversion", "dataset", "runnr", "qplot", "filter",
    "showstats", "showerrbars", "referenceshow", "referencepos", "referencenorm",
    "referenceobj1", "referenceobj2", "referenceobj3", "referenceobj4", "striptype",
    "stripruns", "stripomit", "stripaxis", "search", "submenu", "size", "playprevws",
    "playinterval", "playpos", "root", "focus", "reset", "add", "zoom", "certzoom">>

References == {"referenceshow", "referencepos", "referencenorm", "referenceobj1",
               "referenceobj2", "referenceobj3", "referenceobj4"}
OfWorkspace == {"root", "focus", "reset", "add"}
Zooms == {"zoom", "certzoom"}  \* whether these windows show
Scalars == Range(Order) \ (References \cup OfWorkspace \cup Zooms)

Windows == {"help", "custom", "tools", "zoom", "certzoom", "json"}

YesNo == {"yes", "no"}
Drawn == {"object", "num-entries", "x-mean", "y-mean", "z-mean"}
Digits == {"0", "1", "5", "100"}

(* The values _set accepts for the parameters that choose among a few, and *)
(* for those that must be digits or an object of comparison.               *)
Accepts(p) ==
  CASE p = "samplevary" -> {"any", "run", "dataset"}
    [] p = "sampleorder" -> {"run", "dataset"}
    [] p \in {"sampleprevws", "playprevws"} -> Range(config)
    [] p \in {"sampledynsearch", "zoom", "certzoom"} -> YesNo
    [] p = "sampletype" -> {"live", "data", "mc"}
    [] p = "filter" -> {"all", "alarms", "nonalarms"}
    [] p = "referenceshow" -> {"all", "none", "customise"}
    [] p = "referencepos" -> {"overlay", "ratiooverlay", "on-side", "stacked"}
    [] p \in References \ {"referenceshow", "referencepos", "referencenorm"} ->
         {"refobj", "none", "other"}
    [] p = "striptype" -> Drawn
    [] p = "stripomit" -> {"empty", "none"}
    [] p = "stripaxis" -> {"run", "time"}
    [] p = "submenu" -> {"data", "service", "workspace"}
    [] p = "size" -> {"XS", "S", "M", "L", "XL"}
    [] p \in {"sampleimportversion", "runnr"} -> Runs
    [] p = "stripruns" -> Digits \cup {""}
    [] p \in {"playinterval", "playpos"} -> Digits
    [] OTHER -> Texts \cup {""}

(* What is kept of an accepted value: an interval of 0 is the default, and *)
(* others are brought between 2 and 99.                                    *)
Kept(p, x) ==
  IF p # "playinterval" THEN x
  ELSE CASE x = "0" -> "5" [] x = "1" -> "2" [] x = "100" -> "99" [] OTHER -> x

(* sessiondef.                                                             *)
InitialScalars ==
  [p \in Scalars |->
     CASE p = "samplevary" -> "any" [] p = "sampleorder" -> "dataset"
       [] p = "sampledynsearch" -> "yes" [] p = "playinterval" -> "5"
       [] p = "playpos" -> "0" [] p = "filter" -> "all" [] p = "striptype" -> "object"
       [] p = "stripomit" -> "none" [] p = "stripaxis" -> "run"
       [] p = "submenu" -> "data" [] p = "size" -> "M" [] OTHER -> ""]

Nothing == [x \in {} |-> x]  \* {}

InitialDicts ==
  [reference |-> [p \in References |->
                    CASE p = "referenceshow" -> "customise"
                      [] p = "referencepos" -> "overlay"
                      [] p = "referencenorm" -> "True"
                      [] p = "referenceobj1" -> "refobj"
                      [] OTHER -> "none"],
   root |-> Nothing, focus |-> Nothing, drawopts |-> Nothing, myobjs |-> Nothing]

Init ==
  /\ config \in Configs
  /\ session = [s \in SessionIds |-> None]
  /\ dicts = [i \in SessionIds \cup {Default} |-> InitialDicts]
  /\ saved = [s \in SessionIds |-> None]
  /\ failed = {}
  /\ warnings = [w \in Workspaces |-> {}]
  /\ user \in Users
  /\ restarts = 0

--------------------------------------------------------------------------------
With(f, k, x) == [i \in DOMAIN f \cup {k} |-> IF i = k THEN x ELSE f[i]]
Without(f, k) == [i \in DOMAIN f \ {k} |-> f[i]]

(* A session in one piece: its scalars and its dictionaries.               *)
View(s) == IF session[s] = None THEN None
           ELSE [scalars |-> session[s], dicts |-> dicts[session[s].dicts]]

(* A request leaves session s as v.                                        *)
Put(s, v) ==
  /\ session' = [session EXCEPT ![s] = v.scalars]
  /\ dicts' = [dicts EXCEPT ![v.scalars.dicts] = v.dicts]

(* A handler that saves the session before it answers, one that does not,  *)
(* and one that raises.                                                    *)
Save(s, v) ==
  /\ Put(s, v)
  /\ saved' = [saved EXCEPT ![s] = v]
  /\ failed' = failed \ {s}
  /\ UNCHANGED <<config, user, restarts>>

Leave(s, v) ==
  /\ Put(s, v)
  /\ UNCHANGED <<config, saved, failed, user, restarts>>

Raise(s, v) ==
  /\ Put(s, v)
  /\ failed' = failed \cup {s}
  /\ UNCHANGED <<config, saved, user, restarts>>

(* _checkObjectName: an unsafe name is an error the first time a workspace *)
(* meets it.                                                               *)
Complains(w, name) == name \in Unsafe \ warnings[w]

(* The objects "add" extends must be in a list: the quick collection of    *)
(* the configuration is a tuple, and a workspace without one has nothing.  *)
(* One object is added at a time.                                          *)
Extends(v, w, args) ==
  \/ "reset" \in DOMAIN args /\ args["reset"] = "yes"
  \/ w \in DOMAIN v.dicts.myobjs /\ v.dicts.myobjs[w].list

Rejects(v, w, args, p) ==
  CASE p = "reset" -> FALSE
    [] p = "add" -> ~Extends(v, w, args) \/ Complains(w, args[p])
    [] p \in {"root", "focus"} -> args[p] = Junk \/ Complains(w, args[p])
    [] OTHER -> args[p] \notin Accepts(p)

Position(p) == CHOOSE i \in DOMAIN Order : Order[i] = p
Rejected(v, w, args) == {p \in DOMAIN args : Rejects(v, w, args, p)}

(* The parameters before the first one that is rejected.                   *)
Accepted(v, w, args) ==
  {p \in DOMAIN args : \A q \in Rejected(v, w, args) : Position(p) < Position(q)}

(* What _set makes of a session, whether it returns or raises.             *)
Assign(v, w, args) ==
  LET done == Accepted(v, w, args)
      Objs == IF "reset" \in done /\ args["reset"] = "yes"
              THEN With(v.dicts.myobjs, w, [list |-> TRUE, names |-> {}])
              ELSE v.dicts.myobjs
  IN [scalars |-> [v.scalars EXCEPT
        !.set = [p \in Scalars |-> IF p \in done THEN Kept(p, args[p]) ELSE @[p]],
        !.windows = [x \in Windows |-> IF x \in done \cap Zooms
                                       THEN With(@[x], "show", args[x]) ELSE @[x]]],
      dicts |-> [v.dicts EXCEPT
        !.reference = [p \in References |-> IF p \in done THEN args[p] ELSE @[p]],
        !.root = IF "root" \in done THEN With(@, w, args["root"]) ELSE @,
        !.focus = IF "focus" \notin done THEN @
                  ELSE IF args["focus"] = "" THEN Without(@, w)
                  ELSE With(@, w, args["focus"]),
        !.myobjs = IF "add" \in done
                   THEN With(Objs, w, [list |-> TRUE, names |-> Objs[w].names \cup {args["add"]}])
                   ELSE Objs]]

(* The warnings a call of _set adds.                                       *)
Warns(v, w, args) ==
  LET first == {p \in Rejected(v, w, args) :
                  \A q \in Rejected(v, w, args) : Position(p) <= Position(q)}
  IN {args[p] : p \in {q \in first \cap {"root", "focus", "add"} : args[q] \in Unsafe}}

Warn(w, names) == warnings' = [warnings EXCEPT ![w] = @ \cup names]

Succeeds(v, w, args) == Rejected(v, w, args) = {}

(* The common handler: _set, save, answer.                                 *)
SetThenSave(s, w, args) ==
  LET v == View(s) IN
  /\ IF Succeeds(v, w, args) THEN Save(s, Assign(v, w, args))
                             ELSE Raise(s, Assign(v, w, args))
  /\ Warn(w, Warns(v, w, args))

--------------------------------------------------------------------------------
ShiftRoot == "00 Shift"
IsShift(name) == name \in {ShiftRoot, "00 Shift/x"}

(* initialiseSession of a workspace: a quick collection and the root of a  *)
(* shift workspace.  The variables of sessiondef are there already.        *)
Initialised(v, w) ==
  LET filled == w \notin DOMAIN v.dicts.myobjs /\ w \in Contents
      objs == IF filled THEN With(v.dicts.myobjs, w, [list |-> FALSE, names |-> {"quick"}])
                        ELSE v.dicts.myobjs
      root == CASE Kind[w] = "shift" -> With(v.dicts.root, w, ShiftRoot)
                [] Kind[w] # "shift" /\ filled -> With(v.dicts.root, w, "Quick collection")
                [] OTHER -> v.dicts.root
  IN [v EXCEPT !.dicts.myobjs = objs, !.dicts.root = root]

(* The values of sessiondef are copied into each session.                  *)
NewScalars(s) == [workspace |-> config[1], dicts |-> s, set |-> InitialScalars,
                  windows |-> [x \in Windows |-> Nothing]]

(* _newSession and the source that prepares the sample, then start() of    *)
(* the workspace with the parameters of the URL.  A start that raises      *)
(* never tells the user the name of the session.                           *)
Start(s, name, args) ==
  LET new == [scalars |-> NewScalars(s), dicts |-> dicts[NewScalars(s).dicts]]
      v == FoldLeft(Initialised, new, config)
      w == Workspace(name)
  IN
  /\ session[s] = None
  /\ \E r \in Runs :
       LET u == [v EXCEPT !.scalars.workspace = w, !.scalars.set["runnr"] = r] IN
       IF Succeeds(u, w, args) THEN Save(s, Assign(u, w, args))
       ELSE UNCHANGED <<config, session, dicts, saved, failed, user, restarts>>
  /\ Warn(w, Warns(v, w, args))

(* The server starts again, perhaps with other workspaces.                 *)
Restart ==
  /\ restarts < MaxRestarts
  /\ restarts' = restarts + 1
  /\ config' \in Configs
  /\ session' = [s \in SessionIds |-> None]
  /\ dicts' = [i \in SessionIds \cup {Default} |-> InitialDicts]
  /\ failed' = {}
  /\ warnings' = [w \in Workspaces |-> {}]
  /\ UNCHANGED <<saved, user>>

(* A request for a session that is in a file only.                         *)
Load(s) ==
  /\ session[s] = None /\ saved[s] # None
  /\ Put(s, [saved[s] EXCEPT !.scalars.dicts = s])
  /\ UNCHANGED <<config, saved, failed, warnings, user, restarts>>

--------------------------------------------------------------------------------
(* The methods that pass some of their arguments to _set and save: for     *)
(* each, the parameter an argument becomes.                                *)
Passes ==
  [setQualityPlot |-> [n |-> "qplot"],
   setFilter |-> [n |-> "filter"],
   setStats |-> [showstats |-> "showstats"],
   setErrbars |-> [showerrbars |-> "showerrbars"],
   setReference |-> [position |-> "referencepos", show |-> "referenceshow",
                     norm |-> "referencenorm", r1 |-> "referenceobj1",
                     r2 |-> "referenceobj2", r3 |-> "referenceobj3",
                     r4 |-> "referenceobj4"],
   setStripChart |-> [type |-> "striptype", n |-> "stripruns", axis |-> "stripaxis",
                      omit |-> "stripomit"],
   setSubMenu |-> [n |-> "submenu"],
   setSearch |-> [rx |-> "search"],
   setSize |-> [sz |-> "size"]]

(* What a missing argument is taken for.                                   *)
MissingAs ==
  [setQualityPlot |-> [n |-> ""], setFilter |-> [n |-> "all"],
   setSubMenu |-> [n |-> "data"], setSearch |-> [rx |-> ""]]

(* The parameters of a call: arguments renamed, missing ones filled in.    *)
Renamed(passes, defaults, args) ==
  LET given == (DOMAIN args \cup DOMAIN defaults) \cap DOMAIN passes
      value(a) == IF a \in DOMAIN args THEN args[a] ELSE defaults[a]
  IN [p \in {passes[a] : a \in given} |->
        value(CHOOSE a \in given : passes[a] = p)]

SetParameters(s, w, method, args) ==
  /\ method \in DOMAIN Passes
  /\ SetThenSave(s, w, Renamed(Passes[method],
       IF method \in DOMAIN MissingAs THEN MissingAs[method] ELSE Nothing, args))

(* sessionWorkspace of the server, also used by the methods below.         *)
Switched(v, name) ==
  Initialised([v EXCEPT !.scalars.workspace = Workspace(name)], Workspace(name))

Argument(args, a, default) == IF a \in DOMAIN args THEN args[a] ELSE default

(* sessionWorkspace of a DQM workspace.                                    *)
SwitchWorkspace(s, args) ==
  LET v == [View(s) EXCEPT !.scalars.set["submenu"] = "data"] IN
  /\ Save(s, Switched(v, Argument(args, "name", v.scalars.workspace)))
  /\ UNCHANGED warnings

(* Remember where the user is, and switch to a hidden workspace.  With a   *)
(* workspace that is no longer configured there is nothing to remember.    *)
SwitchTo(s, w, hidden, args) ==
  LET v == View(s) IN
  /\ IF Succeeds(v, w, args) THEN Save(s, Switched(Assign(v, w, args), hidden))
                             ELSE Raise(s, Assign(v, w, args))
  /\ UNCHANGED warnings

ChooseSample(s, w, args) ==
  SwitchTo(s, w, "Sample",
    [samplevary |-> Argument(args, "vary", "any"),
     sampleorder |-> Argument(args, "order", "dataset"),
     sampledynsearch |-> Argument(args, "dynsearch", "yes"),
     sampleprevws |-> session[s].workspace])

Play(s, w, args) == SwitchTo(s, w, "Play", [playprevws |-> session[s].workspace])

(* Slip: where the user came from is not forgotten.                        *)
ReturnedStill(v, prevws) == Switched(v, v.scalars.set[prevws])

(* sessionReturn of the sample workspace, sessionStop of the play one.     *)
Returned(v, prevws) ==
  Switched([v EXCEPT !.scalars.set[prevws] = ""], v.scalars.set[prevws])

Return(s, w) ==
  /\ Kind[w] = "sample"
  /\ Save(s, Returned(View(s), "sampleprevws"))
  /\ UNCHANGED warnings

StopPlay(s, w) ==
  /\ Kind[w] = "play"
  /\ Save(s, Returned(View(s), "playprevws"))
  /\ UNCHANGED warnings

(* sessionModify of the sample workspace.                                  *)
Modify(s, w, args) ==
  /\ Kind[w] = "sample"
  /\ SetThenSave(s, w, Renamed([vary |-> "samplevary", order |-> "sampleorder",
       pat |-> "samplepat", dynsearch |-> "sampledynsearch"], Nothing, args))

(* sessionSelect: an import version that is no number stops it before      *)
(* anything is assigned.                                                   *)
Select(s, w, args) ==
  LET v == View(s)
      ps == Renamed([type |-> "sampletype", importversion |-> "sampleimportversion",
                     dataset |-> "dataset", runnr |-> "runnr"], Nothing, args)
  IN
  /\ Kind[w] = "sample"
  /\ CASE Argument(args, "importversion", Junk) \notin Runs -> Raise(s, v)
       [] Argument(args, "importversion", Junk) \in Runs /\ Succeeds(v, w, ps) ->
            Save(s, Returned(Assign(v, w, ps), "sampleprevws"))
       [] OTHER -> Raise(s, Assign(v, w, ps))
  /\ UNCHANGED warnings

(* sessionInterval and sessionStep: their defaults are numbers, which _set *)
(* takes for a wrong type.  A step is not saved.                           *)
Interval(s, w, args) ==
  /\ Kind[w] = "play"
  /\ SetThenSave(s, w, [playinterval |-> Argument(args, "v", Junk)])

StepPlay(s, w, args) ==
  LET ps == [playpos |-> Argument(args, "pos", Junk)] IN
  /\ Kind[w] = "play"
  /\ IF Succeeds(View(s), w, ps) THEN Leave(s, Assign(View(s), w, ps)) ELSE Raise(s, View(s))
  /\ UNCHANGED warnings

--------------------------------------------------------------------------------
(* sessionSetRoot: a new root has no focus.  The shift workspace ignores   *)
(* roots that are not its own.                                             *)
SetRoot(s, w, args) ==
  LET v == View(s)
      ps == [root |-> Argument(args, "n", "")]
      u == Assign(v, w, ps)
  IN
  /\ CASE Kind[w] = "shift" /\ ~IsShift(ps.root) ->
            IF ps.root = Junk THEN Raise(s, v) ELSE Leave(s, v)
       [] (Kind[w] # "shift" \/ IsShift(ps.root)) /\ Succeeds(v, w, ps) ->
            Save(s, [u EXCEPT !.dicts.focus = Without(@, w)])
       [] OTHER -> Raise(s, u)
  /\ IF Kind[w] = "shift" THEN UNCHANGED warnings ELSE Warn(w, Warns(v, w, ps))

SetFocus(s, w, args) ==
  SetThenSave(s, w, [focus |-> Argument(args, "n", "")])

(* Slip: the root that is put back is not saved.                          *)
ShowStateUnsaved(s, w) ==
  LET v == View(s)
      root == IF w \in DOMAIN v.dicts.root THEN v.dicts.root[w] ELSE ""
  IN
  /\ IF Kind[w] = "shift" /\ ~IsShift(root)
     THEN Leave(s, [v EXCEPT !.dicts.root = With(@, w, ShiftRoot)])
     ELSE Leave(s, v)
  /\ UNCHANGED warnings

(* What a workspace does when the page asks for its state: the shift one   *)
(* puts its root back, whatever the session had.                           *)
ShowState(s, w) ==
  LET v == View(s)
      root == IF w \in DOMAIN v.dicts.root THEN v.dicts.root[w] ELSE ""
  IN
  /\ IF Kind[w] = "shift" /\ ~IsShift(root)
     THEN Save(s, [v EXCEPT !.dicts.root = With(@, w, ShiftRoot)])
     ELSE Leave(s, v)
  /\ UNCHANGED warnings

(* sessionResetWorkspace of the content workspaces.                        *)
Reset(s, w) ==
  LET v == View(s)
      cleared == [scalars |-> [v.scalars EXCEPT !.set["playprevws"] = "",
                                 !.set["playpos"] = "0", !.set["size"] = "M"],
                  dicts |-> [v.dicts EXCEPT !.focus = Without(@, w),
                               !.drawopts = Without(@, w), !.myobjs = Without(@, w)]]
  IN
  /\ Kind[w] \in {"content", "shift"}
  /\ Save(s, Initialised(cleared, w))
  /\ UNCHANGED warnings

--------------------------------------------------------------------------------
(* The values sessionAlterImage accepts.  It means to take an empty value  *)
(* of withref for "def" and compares where it should assign.               *)
ImageAccepts(opt) ==
  CASE opt = "withref" -> {"def", "yes", "no"}
    [] opt = "drawopts" -> {"", "COLZ"}
    [] opt \in {"xtype", "ytype", "ztype"} -> {"def", "lin", "log"}
    [] opt \in {"xmin", "xmax", "ymin", "ymax", "zmin", "zmax"} -> {"", "1.5"}
    [] OTHER -> {}

At(f, k) == IF k \in DOMAIN f THEN f[k] ELSE Nothing

(* The options of an image with one of them set, or taken away when its    *)
(* value is empty; what has become empty goes too.                         *)
Altered(v, w, o, opt, val) ==
  LET ofW == At(v.dicts.drawopts, w)
      opts == IF val = "" THEN Without(At(ofW, o), opt) ELSE With(At(ofW, o), opt, val)
      objs == IF opts = Nothing THEN Without(ofW, o) ELSE With(ofW, o, opts)
  IN [v EXCEPT !.dicts.drawopts =
        IF objs = Nothing THEN Without(@, w) ELSE With(@, w, objs)]

AlterImage(s, w, args) ==
  /\ Kind[w] \in {"content", "shift"}
  /\ IF /\ {"o", "opt", "value"} \subseteq DOMAIN args
        /\ args["o"] # Junk
        /\ args["value"] \in ImageAccepts(args["opt"])
     THEN Save(s, Altered(View(s), w, args["o"], args["opt"], args["value"]))
     ELSE Raise(s, View(s))
  /\ UNCHANGED warnings

--------------------------------------------------------------------------------
(* The methods that move windows take their arguments in this order, and   *)
(* stop at the first that is not yes or no, or a number.                   *)
Geometry == <<"show", "x", "y", "w", "h">>
Fields(window) == CASE window \in {"help", "custom", "tools"} -> {"show", "x", "y"}
                    [] window \in {"zoom", "certzoom"} -> Range(Geometry)
                    [] window = "json" -> {"x", "y", "w", "h"}

Moved(v, window, args) ==
  LET given == DOMAIN args \cap Fields(window)
      place(a) == CHOOSE i \in DOMAIN Geometry : Geometry[i] = a
      wrong == {a \in given : args[a] \notin IF a = "show" THEN YesNo ELSE Digits}
      done == {a \in given : \A b \in wrong : place(a) < place(b)}
  IN [ok |-> wrong = {},
      v |-> [v EXCEPT !.scalars.windows[window] =
               [a \in DOMAIN @ \cup done |-> IF a \in done THEN args[a] ELSE @[a]]]]

MoveWindow(s, window, args) ==
  LET m == Moved(View(s), window, args) IN
  /\ IF m.ok THEN Save(s, m.v) ELSE Raise(s, m.v)
  /\ UNCHANGED warnings

(* sessionPanel names its window.                                          *)
Panel(s, args) ==
  IF Argument(args, "n", Junk) \in {"help", "custom", "tools"}
  THEN MoveWindow(s, args["n"], args)
  ELSE Raise(s, View(s)) /\ UNCHANGED warnings

SetZoom(s, args) == MoveWindow(s, "zoom", args)
SetCertZoom(s, args) == MoveWindow(s, "certzoom", args)
SetJsonZoom(s, args) == MoveWindow(s, "json", args)

(* sessionSetJsonmode, sessionSetJSrootmode: other values are ignored.     *)
SetMode(s, mode, args) ==
  LET x == Argument(args, "mode", Junk)
      v == View(s)
  IN
  /\ Save(s, IF x \in YesNo THEN [v EXCEPT !.scalars.windows["zoom"] = With(@, mode, x)]
                            ELSE v)
  /\ UNCHANGED warnings

(* sessionChangeRun: the native workspace picks the next run.              *)
ChangeRun(s) ==
  /\ \E r \in Runs : Save(s, [View(s) EXCEPT !.scalars.set["runnr"] = r])
  /\ UNCHANGED warnings

--------------------------------------------------------------------------------
(* session(): the method is looked up in the workspace of the session.  A  *)
(* method it does not have is an invalid URL.                              *)
Call(s, r) ==
  LET w == Workspace(session[s].workspace) args == r.args IN
  \/ SetParameters(s, w, r.method, args)
  \/ r.method = "workspace" /\ SwitchWorkspace(s, args)
  \/ r.method = "chooseSample" /\ ChooseSample(s, w, args)
  \/ r.method = "play" /\ Play(s, w, args)
  \/ r.method = "return" /\ Return(s, w)
  \/ r.method = "stop" /\ StopPlay(s, w)
  \/ r.method = "modify" /\ Modify(s, w, args)
  \/ r.method = "select" /\ Select(s, w, args)
  \/ r.method = "interval" /\ Interval(s, w, args)
  \/ r.method = "step" /\ StepPlay(s, w, args)
  \/ r.method = "setRoot" /\ SetRoot(s, w, args)
  \/ r.method = "setFocus" /\ SetFocus(s, w, args)
  \/ r.method = "state" /\ ShowState(s, w)
  \/ r.method = "resetWorkspace" /\ Reset(s, w)
  \/ r.method = "alterImage" /\ AlterImage(s, w, args)
  \/ r.method = "panel" /\ Panel(s, args)
  \/ r.method = "setZoom" /\ SetZoom(s, args)
  \/ r.method = "setCertZoom" /\ SetCertZoom(s, args)
  \/ r.method = "setJsonZoom" /\ SetJsonZoom(s, args)
  \/ r.method = "setJsonmode" /\ SetMode(s, "jsonmode", args)
  \/ r.method = "setJSrootmode" /\ SetMode(s, "jsrootmode", args)
  \/ r.method = "changeRun" /\ ChangeRun(s)

Next ==
  \/ \E s \in SessionIds, r \in user :
       IF r.method = "start" THEN Start(s, r.name, r.args)
       ELSE session[s] # None /\ s \notin LeftAlone /\ Call(s, r)
  \/ \E s \in SessionIds : Load(s)
  \/ Restart

Spec == Init /\ [][Next]_vars

--------------------------------------------------------------------------------
(* A session whose requests were answered is what a restarted server would *)
(* show: every handler hands over what it changed, except for the position *)
(* of the slide show.                                                      *)
Lasting(v) == [v EXCEPT !.scalars.set["playpos"] = "0", !.scalars.dicts = Default]

AnsweredIsSaved ==
  \A s \in SessionIds :
    session[s] # None /\ s \notin failed => Lasting(View(s)) = Lasting(saved[s])

(* From the hidden workspaces, entered from anywhere and from each other,  *)
(* their own buttons lead back to a workspace the user knows.              *)
Pressed(v) ==
  LET kind == Kind[Workspace(v.scalars.workspace)] IN
  CASE kind = "sample" -> Returned(v, "sampleprevws")
    [] kind = "play" -> Returned(v, "playprevws")
    [] OTHER -> v

WayBack ==
  \A s \in SessionIds : session[s] # None =>
    LET v == Pressed(Pressed(Pressed(View(s)))) IN
    Kind[Workspace(v.scalars.workspace)] \notin {"sample", "play"}

================================================================================
