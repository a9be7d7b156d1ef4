------------------------------- MODULE Control -------------------------------
(***************************************************************************)
(* What has to be up to date before a server starts (bin/monControl): the  *)
(* render plug-in, compiled when no binary bears the finger print of its   *)
(* sources (Core/Defs.py), and layouts.json, made of the layout files when *)
(* one of them is newer.  A server reads layouts.json when it starts       *)
(* (DQMLayoutSource).  Files are edited at any time, also while monControl *)
(* is at work, and monControl may be interrupted.                          *)
(***************************************************************************)
EXTENDS Integers, Sequences, SequencesExt, FiniteSetsExt

CONSTANTS
  LAYOUTS,      \* the layout files of the configuration, in order
  Versions,     \* what a file may hold
  Broken,       \* the versions that raise half way
  MaxEdits,     \* bound: changes of files
  MaxKills,     \* bound: interruptions and failed compilations
  None

VARIABLES
  files,        \* of each layout file its version, or None
  newer,        \* the files that were last changed after layouts.json was
  sources,      \* the version of the sources of the plug-in
  binaries,     \* the binaries there are: the versions they are named for
  json,         \* layouts.json: its items (None: cut short), or None
  ctl,          \* monControl: where it is, what it has at hand
  server,       \* the layouts and plug-in a running server has, or None
  edits, kills,
  arrives       \* ghost: files whose last change the next start must bring

vars == <<files, newer, sources, binaries, json, ctl, server, edits, kills, arrives>>

Idle == [at |-> "idle", regenerate |-> FALSE, old |-> {}, id |-> 0,
         todo |-> <<>>, dqmitems |-> {}, allLayouts |-> {}]

Existing == {f \in ToSet(LAYOUTS) : files[f] # None}

Init ==
  /\ files \in [ToSet(LAYOUTS) -> Versions \cup {None}] /\ newer = {}
  /\ sources = 0 /\ binaries = {}
  /\ json = None /\ ctl = Idle /\ server = None
  /\ edits = 0 /\ kills = 0
  /\ arrives = Existing

--------------------------------------------------------------------------------
(* Somebody changes a layout file.  It is newer than layouts.json then,    *)
(* unless both were written at the same tick of the clock or the file is   *)
(* put in place with an older time: nothing tells monControl of these, nor *)
(* of a change while it reads the files.                                   *)
Edit(f) ==
  /\ edits < MaxEdits /\ edits' = edits + 1
  /\ \E v \in Versions, later \in BOOLEAN :
       /\ files' = [files EXCEPT ![f] = v]
       /\ newer' = IF later THEN newer \cup {f} ELSE newer \ {f}
       /\ arrives' = IF (later \/ json = None) /\ ctl.at # "import"
                     THEN arrives \cup {f} ELSE arrives \ {f}
  /\ UNCHANGED <<sources, binaries, json, ctl, server, kills>>

Delete(f) ==
  /\ files[f] # None
  /\ edits < MaxEdits /\ edits' = edits + 1
  /\ files' = [files EXCEPT ![f] = None]
  /\ newer' = newer \ {f}
  /\ arrives' = arrives \ {f}
  /\ UNCHANGED <<sources, binaries, json, ctl, server, kills>>

EditPlugin ==
  /\ edits < MaxEdits /\ edits' = edits + 1
  /\ sources' = sources + 1
  /\ UNCHANGED <<files, newer, binaries, json, ctl, server, kills, arrives>>

(* _makePlugin: the finger print of the sources names the binary; all      *)
(* others are old.                                                         *)
Load ==
  /\ ctl.at = "idle"
  /\ ctl' = [Idle EXCEPT !.at = "remove", !.id = sources,
               !.regenerate = sources \notin binaries, !.old = binaries \ {sources}]
  /\ UNCHANGED <<files, newer, sources, binaries, json, server, edits, kills, arrives>>

(* build: the old binaries go first, ...                                   *)
RemoveOld ==
  /\ ctl.at = "remove"
  /\ binaries' = binaries \ ctl.old
  /\ ctl' = [ctl EXCEPT !.at = IF ctl.regenerate THEN "make" ELSE "check"]
  /\ UNCHANGED <<files, newer, sources, json, server, edits, kills, arrives>>

(* ... then make builds the new one, or fails and monControl exits.        *)
Make ==
  /\ ctl.at = "make"
  /\ \/ /\ binaries' = binaries \cup {ctl.id}
        /\ ctl' = [ctl EXCEPT !.at = "check"]
        /\ UNCHANGED kills
     \/ /\ kills < MaxKills /\ kills' = kills + 1
        /\ ctl' = Idle
        /\ UNCHANGED binaries
  /\ UNCHANGED <<files, newer, sources, json, server, edits, arrives>>

(* Slip: the loop ends with the first file, newer or not.                  *)
NewerFirst == LET there == SelectSeq(LAYOUTS, LAMBDA f : f \in Existing)
              IN there # <<>> /\ there[1] \in newer

(* buildlayouts: is a layout file newer than layouts.json?  Opening it to  *)
(* write cuts it short at once.                                            *)
Newer == newer \cap Existing # {}

Check ==
  /\ ctl.at = "check"
  /\ IF json = None \/ Newer
     THEN /\ json' = [items |-> None] /\ newer' = {} /\ arrives' = Existing
          /\ ctl' = [ctl EXCEPT !.at = "import",
                       !.todo = SelectSeq(LAYOUTS, LAMBDA f : f \in Existing)]
     ELSE ctl' = [ctl EXCEPT !.at = "start"] /\ UNCHANGED <<json, newer, arrives>>
  /\ UNCHANGED <<files, sources, binaries, server, edits, kills>>

(* One file: what it registers before it raises stays in the dictionary    *)
(* all files share, and comes along with the next one that does not raise. *)
Import ==
  /\ ctl.at = "import" /\ ctl.todo # <<>>
  /\ LET f == Head(ctl.todo)
         got == ctl.dqmitems \cup ({<<f, files[f]>>} \ {<<f, None>>})
     IN ctl' = [ctl EXCEPT !.todo = Tail(@), !.dqmitems = got,
                  !.allLayouts = IF files[f] \in Broken \cup {None} THEN @ ELSE got]
  /\ UNCHANGED <<files, newer, sources, binaries, json, server, edits, kills, arrives>>

Write ==
  /\ ctl.at = "import" /\ ctl.todo = <<>>
  /\ json' = [items |-> ctl.allLayouts] /\ newer' = {}
  /\ ctl' = [ctl EXCEPT !.at = "start"]
  /\ UNCHANGED <<files, sources, binaries, server, edits, kills, arrives>>

(* The server: it cannot start without the binary of its configuration, or *)
(* with a layouts.json that is no JSON.                                    *)
Loaded == IF json = None THEN {} ELSE json.items
Serving ==
  IF sources \notin binaries \/ Loaded = None THEN None
  ELSE [layouts |-> Loaded, plugin |-> sources]

Start ==
  /\ ctl.at = "start"
  /\ server' = Serving
  /\ ctl' = Idle
  /\ UNCHANGED <<files, newer, sources, binaries, json, edits, kills, arrives>>

(* The server is started again without monControl's builds.                *)
Restart ==
  /\ server' = Serving
  /\ UNCHANGED <<files, newer, sources, binaries, json, ctl, edits, kills, arrives>>

(* An interruption.  While layouts.json is written it is lost, and newer   *)
(* than all the files.                                                     *)
Kill ==
  /\ ctl.at # "idle" /\ kills < MaxKills
  /\ kills' = kills + 1
  /\ ctl' = Idle
  /\ arrives' = IF ctl.at = "import" THEN {} ELSE arrives
  /\ UNCHANGED <<files, newer, sources, binaries, json, server, edits>>

Next ==
  \/ \E f \in ToSet(LAYOUTS) : Edit(f) \/ Delete(f)
  \/ EditPlugin \/ Load \/ RemoveOld \/ Make \/ Check \/ Import \/ Write
  \/ Start \/ Restart \/ Kill

Spec == Init /\ [][Next]_vars

--------------------------------------------------------------------------------
(* Whenever monControl comes to the start of the server, the layouts are   *)
(* those of the files: of each that was changed and newer than the last    *)
(* layouts.json, however many changes, removals, failed compilations and   *)
(* interruptions come in between, and of all of them if layouts.json was   *)
(* made anew.  Not certain are only a change while the files are read, one *)
(* that leaves the file no newer, and all of them after an interruption of *)
(* the writing until one is changed again.  A file that raises keeps no    *)
(* other from arriving; what it has registered by then comes along when a  *)
(* file after it does not raise.  The plug-in is the one of the            *)
(* configuration that was read (buildlayouts, lines 79-110; build, lines   *)
(* 121-154).                                                               *)
Certain == arrives \cap Existing
BroughtAlong(f) ==
  \E i, k \in DOMAIN LAYOUTS :
    i <= k /\ LAYOUTS[i] = f /\ LAYOUTS[k] \in Certain /\ files[LAYOUTS[k]] \notin Broken
UpToDate ==
  /\ \A f \in Certain : BroughtAlong(f) => json.items # None /\ <<f, files[f]>> \in json.items
  /\ ctl.id \in binaries
EditsArrive == [][ctl.at # "start" /\ ctl'.at = "start" => UpToDate']_vars
=============================================================================
