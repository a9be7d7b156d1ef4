---------------------------- MODULE ReceiveDaemon ----------------------------
(***************************************************************************)
(* The receive daemon (bin/visDQMReceiveDaemon), round by round: it finds  *)
(* the complete files in the directory of the uploads, classifies them by  *)
(* their names, puts them in order, and verifies and moves them one by one *)
(* to the repository, each under a version of its own, and announces them  *)
(* to the next daemon.  An exception ends the round.  The module Uploads   *)
(* has what happens between the daemon and the server over one file; here  *)
(* files come complete, and a round finds those that are there.            *)
(***************************************************************************)
EXTENDS DQMFileNames, FiniteSets

CONSTANTS
  Mixes,       \* sets of names; the files of a behaviour have those of one
  MaxUploads,  \* bound: files
  MaxKills,    \* bound: kills of the daemon
  None

(* Every name has the fields a pattern looks at.                           *)
ASSUME MixesAssumption == Mixes \subseteq SUBSET Names

VARIABLES
  mix,         \* the names of this behaviour
  files,       \* by upload: its name, slot, whether its contents are good, and where it is
  repo,        \* the data in the repository: name, area, version, upload
  infos,       \* the descriptions there: name, version
  announced,   \* <<name, version>> that the next daemon was told
  daemon,      \* its step, the files it has still to do, the one it is at, its version
  kills        \* kills so far

vars == <<mix, files, repo, infos, announced, daemon, kills>>

Uploaded == DOMAIN files
Versions == 1 .. MaxUploads + MaxKills + 1  \* a file or a killed round takes one
Rest == [at |-> "sleep", todo |-> {}, file |-> None, version |-> 0]

Init ==
  /\ mix \in Mixes
  /\ files = <<>> /\ repo = {} /\ infos = {} /\ announced = {}
  /\ daemon = Rest /\ kills = 0

(* The slot of a name is free when neither file nor .origin has it: a file *)
(* marked .bad stays.                                                      *)
Taken(n) == {files[i].slot : i \in {j \in Uploaded : files[j].name = n /\ files[j].at # "gone"}}
FreeSlot(n) ==
  CHOOSE s \in 1 .. MaxUploads + 1 :
    s \notin Taken(n) /\ \A r \in 1 .. MaxUploads + 1 : r < s => r \in Taken(n)

(* The server keeps one more file.                                         *)
Upload(n, good) ==
  /\ Cardinality(Uploaded) < MaxUploads
  /\ files' = [i \in Uploaded \cup {Cardinality(Uploaded) + 1} |->
                 IF i \in Uploaded THEN files[i]
                 ELSE [name |-> n, slot |-> FreeSlot(n), good |-> good, at |-> "waits"]]
  /\ UNCHANGED <<mix, repo, infos, announced, daemon, kills>>

--------------------------------------------------------------------------------
(* checkDataset: the processed dataset begins with an era, which is a      *)
(* release for release validation and for nothing else.                    *)
IsRelVal(class) == class \in {"relval_data", "relval_mc", "relval_rundepmc"}
checkDataset(class, n) ==
  /\ n.processed # "unknown"
  /\ IsRelVal(class) <=> n.processed = "release"
  /\ ~IsRelVal(class) => n.processed # "cmsswEra"

(* What finaliseOneFile asserts of a file of a class; if it does not hold  *)
(* the exception ends the round.                                           *)
Asserts(class, n) ==
  CASE class = "online_data" -> n.run > 1
    [] class = "offline_data" ->
         ~RXRELVALMC(n) /\ ~RXRELVALDATA(n) /\ ~RXRELVALRUNDEPMC(n) /\ ~RXRUNDEPMC(n) /\ n.run > 1
    [] class = "relval_data" ->
         ~RXRELVALMC(n) /\ ~RXRELVALRUNDEPMC(n) /\ ~RXRUNDEPMC(n) /\ RXRELVALDATA(n) /\ n.run > 1
    [] class = "relval_mc" -> RXRELVALMC(n) /\ n.run = 1
    [] class = "relval_rundepmc" -> RXRELVALRUNDEPMC(n) /\ n.run > 1
    [] class = "simulated" -> ~RXRELVALMC(n) /\ ~RXRELVALDATA(n) /\ n.run = 1
    [] class = "simulated_rundep" ->
         ~RXRELVALMC(n) /\ ~RXRELVALRUNDEPMC(n) /\ ~RXRELVALDATA(n) /\ n.run > 1

Area(class) ==
  CASE class = "online_data" -> "OnlineData"
    [] class = "offline_data" -> "OfflineData"
    [] class = "relval_data" -> "RelValData"
    [] class \in {"relval_mc", "relval_rundepmc"} -> "RelVal"
    [] class = "simulated" -> "MonteCarlo"
    [] class = "simulated_rundep" -> "MonteCarlo_RunDep"

Class(i) == classifyDQMFile(files[i].name)
Trips(i) == files[i].good /\ Class(i) # Refused /\ ~Asserts(Class(i), files[i].name)
Waiting(i) == i \in Uploaded /\ files[i].at = "waits"

(* orderFiles: by run, by release, by dataset, the newest first, and files *)
(* of one name by their slots.  Releases and datasets have no order here.  *)
Before(i, j) ==
  LET a == files[i]
      b == files[j]
  IN \/ a.name.run > b.name.run
     \/ a.name.run = b.name.run /\ IsRelVal(Class(i)) /\ ~IsRelVal(Class(j))
     \/ a.name = b.name /\ a.slot < b.slot

(* findNewFiles: those with a name that is refused are marked .bad.        *)
FindNewFiles ==
  /\ daemon.at = "sleep"
  /\ files' = [i \in Uploaded |->
                 IF Waiting(i) /\ Class(i) = Refused THEN [files[i] EXCEPT !.at = "bad"]
                 ELSE files[i]]
  /\ daemon' = [Rest EXCEPT !.at = "next", !.todo = {i \in Uploaded : files'[i].at = "waits"}]
  /\ UNCHANGED <<mix, repo, infos, announced, kills>>

(* The turn of a file: nothing that is left of the round goes before it.   *)
Turn(i) ==
  /\ daemon.at = "next" /\ i \in daemon.todo
  /\ \A j \in daemon.todo : ~Before(j, i)

MarkBad(i) == files' = [files EXCEPT ![i].at = "bad"]
Done(i) == daemon' = [daemon EXCEPT !.todo = @ \ {i}]

Passes(i) == Class(i) = "online_data" \/ checkDataset(Class(i), files[i].name)

(* Slip: a dataset that does not pass is only left out.                    *)
RejectQuiet(i) ==
  /\ Turn(i)
  /\ ~files[i].good \/ (~Trips(i) /\ ~Passes(i))
  /\ IF files[i].good THEN UNCHANGED files ELSE MarkBad(i)
  /\ Done(i)
  /\ UNCHANGED <<mix, repo, infos, announced, kills>>

(* finaliseOneFile: the contents are not as they should, or the dataset.   *)
Reject(i) ==
  /\ Turn(i)
  /\ ~files[i].good \/ (~Trips(i) /\ ~Passes(i))
  /\ MarkBad(i)
  /\ Done(i)
  /\ UNCHANGED <<mix, repo, infos, announced, kills>>

(* An assertion fails, and with it the round.                              *)
Break(i) ==
  /\ Turn(i)
  /\ Trips(i)
  /\ daemon' = Rest
  /\ UNCHANGED <<mix, files, repo, infos, announced, kills>>

(* Slip: the version is that of the name.                                  *)
FreeNot(n, v) == v = 1

(* assignUniqueVersion: the first that has no description.                 *)
Free(n, v) == <<n, v>> \notin infos /\ \A u \in 1 .. v - 1 : <<n, u>> \in infos

Accept(i) ==
  /\ Turn(i)
  /\ files[i].good /\ ~Trips(i) /\ Passes(i)
  /\ \E v \in Versions :
       /\ Free(files[i].name, v)
       /\ daemon' = [at |-> "describe", todo |-> daemon.todo \ {i}, file |-> i, version |-> v]
  /\ UNCHANGED <<mix, files, repo, infos, announced, kills>>

Name == files[daemon.file].name
GoOn(step) == daemon' = [daemon EXCEPT !.at = step]

(* The description first, then the data, then the .origin is removed.      *)
Describe ==
  /\ daemon.at = "describe"
  /\ infos' = infos \cup {<<Name, daemon.version>>}
  /\ GoOn("move")
  /\ UNCHANGED <<mix, files, repo, announced, kills>>

Move ==
  /\ daemon.at = "move"
  /\ repo' = {e \in repo : e.name # Name \/ e.version # daemon.version}
               \cup {[name |-> Name, area |-> Area(Class(daemon.file)), version |-> daemon.version,
                      file |-> daemon.file]}
  /\ files' = [files EXCEPT ![daemon.file].at = "taken"]
  /\ GoOn("forget")
  /\ UNCHANGED <<mix, infos, announced, kills>>

Forget ==
  /\ daemon.at = "forget"
  /\ files' = [files EXCEPT ![daemon.file].at = "gone"]
  /\ GoOn("announce")
  /\ UNCHANGED <<mix, repo, infos, announced, kills>>

Announce ==
  /\ daemon.at = "announce"
  /\ announced' = announced \cup {<<Name, daemon.version>>}
  /\ daemon' = [daemon EXCEPT !.at = "next", !.file = None, !.version = 0]
  /\ UNCHANGED <<mix, files, repo, infos, kills>>

Sleep ==
  /\ daemon.at = "next" /\ daemon.todo = {}
  /\ daemon' = Rest
  /\ UNCHANGED <<mix, files, repo, infos, announced, kills>>

(* The daemon is killed and started again.                                 *)
Kill ==
  /\ daemon.at # "sleep" /\ kills < MaxKills
  /\ kills' = kills + 1
  /\ daemon' = Rest
  /\ UNCHANGED <<mix, files, repo, infos, announced>>

Working ==
  \/ FindNewFiles \/ Sleep \/ Describe \/ Move \/ Forget \/ Announce
  \/ \E i \in Uploaded : Reject(i) \/ Break(i) \/ Accept(i)

Next ==
  \/ \E n \in mix, good \in BOOLEAN : Upload(n, good)
  \/ Working
  \/ Kill

Spec == Init /\ [][Next]_vars

(* The process of the daemon runs, and is started again after a kill.      *)
FairSpec == Spec /\ WF_vars(Working)

--------------------------------------------------------------------------------
(* What an area is for: release validation apart from other data, and      *)
(* simulation, which has run number 1 or says that it depends on the run,  *)
(* apart from data.                                                        *)
AreaFor(n) ==
  CASE n.kind = "online" -> "OnlineData"
    [] n.kind # "online" /\ n.processed = "release" ->
         IF n.run = 1 \/ n.rundep THEN "RelVal" ELSE "RelValData"
    [] n.kind # "online" /\ n.processed # "release" ->
         IF n.run = 1 THEN "MonteCarlo" ELSE IF n.rundep THEN "MonteCarlo_RunDep" ELSE "OfflineData"

(* visDQMUtils.py:33, visDQMReceiveDaemon:262: whatever is received is in  *)
(* the area for its kind of data, so that the five patterns, the           *)
(* assertions and checkDataset agree.  There is one exception: a primary   *)
(* dataset that begins with RelVal, and is not with a release, or is       *)
(* RelVal alone, is not known as simulation when it depends on the run.    *)
RightPlace ==
  \A e \in repo :
    \/ e.area = AreaFor(e.name)
    \/ e.name.primary # "other" /\ e.name.rundep /\ ~RXRELVALMC(e.name)

(* visDQMReceiveDaemon:181: data in the repository is never replaced, and  *)
(* only described data is there, although a killed daemon may have         *)
(* described a version it never moved a file to.                           *)
NothingReplaced ==
  [][/\ repo \subseteq repo'
     /\ \A e \in repo' : <<e.name, e.version>> \in infos']_vars

(* "If anything bad happened, barf but keep going": a file that the daemon *)
(* can receive is received or marked whatever other files there are.       *)
KeepsGoing == \A i \in 1 .. MaxUploads : (Waiting(i) /\ ~Trips(i)) ~> ~Waiting(i)

(* "ascending by file name (= original version)": of two files of one name *)
(* in the repository the one uploaded later has the higher version.        *)
VersionsInOrder ==
  \A e, f \in repo : e.name = f.name /\ e.version < f.version => e.file < f.file
================================================================================
