---------------------------- MODULE ClientsProofs ----------------------------
(***************************************************************************)
(* What comes to the server and goes from it, for any clients, files,      *)
(* connections and failures: what the daemon receives is in the area for   *)
(* its kind and never replaced; uploads stay whole and apart; a listing    *)
(* shows every directory once.                                             *)
(***************************************************************************)
EXTENDS MCClients, Sequences, FiniteSetTheorems, TLAPS

--------------------------------------------------------------------------------
(* A name the daemon receives.                                             *)
Admitted(n) ==
  LET class == classifyDQMFile(n)
  IN class # Refused /\ Asserts(class, n) /\ (class = "online_data" \/ checkDataset(class, n))

AsAreaFor(n) ==
  \/ Area(classifyDQMFile(n)) = AreaFor(n)
  \/ n.primary # "other" /\ n.rundep /\ ~RXRELVALMC(n)

(* The patterns, the assertions and checkDataset leave each kind of name   *)
(* one area.                                                               *)
LEMMA OneArea ==
  ASSUME NEW n \in Names, Admitted(n)
  PROVE  AsAreaFor(n)
<1> DEFINE class == classifyDQMFile(n)
<1>1. CASE n.kind = "online"
  <2>1. class = OnlineClass(n)
    BY <1>1 DEF classifyDQMFile
  <2>2. class = "online_data"
    BY <2>1 DEF Admitted, OnlineClass, Numbered
  <2>3. Area(class) = "OnlineData"
    BY <2>2 DEF Area
  <2> QED
    BY <1>1, <2>3 DEF AsAreaFor, AreaFor
<1>2. CASE n.kind = "other"
  BY <1>2 DEF Admitted, classifyDQMFile
<1>3. CASE n.kind = "offline"
  <2>1. class = OfflineClass(n)
    BY <1>3 DEF classifyDQMFile
  <2>3. n.run \in Nat /\ n.rundep \in BOOLEAN /\ n.primary \in Primaries /\ n.processed \in Processed
    BY DEF Names
  <2>2. /\ RXDATASET(n) /\ n.version = 1 /\ n.run >= 1
        /\ class # Refused
    BY <2>1, <2>3 DEF Admitted, OfflineClass
  <2>4. class = IF RXRUNDEPMC(n) THEN Numbered(n, n.run # 1, "simulated_rundep")
         ELSE IF RXRELVALRUNDEPMC(n) THEN Numbered(n, n.run # 1, "relval_rundepmc")
         ELSE IF RXRELVALMC(n) THEN Numbered(n, n.run = 1, "relval_mc")
         ELSE IF RXRELVALDATA(n) THEN Numbered(n, n.run # 1, "relval_data")
         ELSE IF HasCMSSW(n) THEN Refused
         ELSE IF n.run > 1 THEN "offline_data" ELSE "simulated"
    BY <2>1, <2>2 DEF OfflineClass
  <2>5. AreaFor(n) = IF n.processed = "release"
                     THEN IF n.run = 1 \/ n.rundep THEN "RelVal" ELSE "RelValData"
                     ELSE IF n.run = 1 THEN "MonteCarlo"
                     ELSE IF n.rundep THEN "MonteCarlo_RunDep" ELSE "OfflineData"
    BY <1>3 DEF AreaFor
  <2>6. CASE RXRUNDEPMC(n)
    <3>1. class = "simulated_rundep" /\ n.run # 1
      BY <2>2, <2>4, <2>6 DEF Numbered
    <3>2. ~RXRELVALDATA(n)
      BY <3>1 DEF Admitted, Asserts
    <3> QED
      BY <2>5, <2>6, <3>1, <3>2 DEF AsAreaFor, Area, RXRELVALDATA, RXRUNDEPMC
  <2>7. CASE ~RXRUNDEPMC(n) /\ RXRELVALRUNDEPMC(n)
    <3>1. class = "relval_rundepmc"
      BY <2>2, <2>4, <2>7 DEF Numbered
    <3> QED
      BY <2>5, <2>7, <3>1 DEF AsAreaFor, Area, RXRELVALRUNDEPMC, RXRELVALMC
  <2>8. CASE ~RXRUNDEPMC(n) /\ ~RXRELVALRUNDEPMC(n) /\ RXRELVALMC(n)
    <3>1. class = "relval_mc" /\ n.run = 1
      BY <2>2, <2>4, <2>8 DEF Numbered
    <3> QED
      BY <2>5, <2>8, <3>1 DEF AsAreaFor, Area, RXRELVALMC
  <2>9. CASE ~RXRUNDEPMC(n) /\ ~RXRELVALRUNDEPMC(n) /\ ~RXRELVALMC(n) /\ RXRELVALDATA(n)
    <3>1. class = "relval_data" /\ n.run # 1
      BY <2>2, <2>4, <2>9 DEF Numbered
    <3> QED
      BY <2>3, <2>5, <2>9, <3>1
      DEF AsAreaFor, Area, RXRELVALDATA, RXRELVALMC, RXRELVALRUNDEPMC, RXRUNDEPMC, Primaries
  <2>10. CASE ~RXRUNDEPMC(n) /\ ~RXRELVALRUNDEPMC(n) /\ ~RXRELVALMC(n) /\ ~RXRELVALDATA(n)
    <3>1. class = IF n.run > 1 THEN "offline_data" ELSE "simulated"
      BY <2>2, <2>4, <2>10
    <3>2. n.run > 1 <=> n.run # 1
      BY <2>2, <2>3
    <3> QED
      BY <2>3, <2>5, <2>10, <3>1, <3>2
      DEF AsAreaFor, Area, RXRELVALDATA, RXRELVALMC, RXRUNDEPMC, Primaries
  <2> QED
    BY <2>6, <2>7, <2>8, <2>9, <2>10
<1> QED
  BY <1>1, <1>2, <1>3 DEF Names

--------------------------------------------------------------------------------
IsFile(r) == r = [name |-> r.name, slot |-> r.slot, good |-> r.good, at |-> r.at]
IsDaemon(d) == d = [at |-> d.at, todo |-> d.todo, file |-> d.file, version |-> d.version]

Shapes ==
  /\ mix \subseteq Names
  /\ files = [i \in Uploaded |-> files[i]]
  /\ \A i \in Uploaded : IsFile(files[i]) /\ files[i].name \in Names
  /\ IsDaemon(daemon)

(* What is left of a round has names that are not refused.                 *)
RoundFound == \A i \in daemon.todo : i \in Uploaded /\ Class(i) # Refused

(* The file that is being moved has a version of its own.                  *)
OwnVersion ==
  /\ daemon.at \in {"describe", "move", "forget"} => daemon.file \in Uploaded
  /\ daemon.at \in {"describe", "move"} =>
    /\ Admitted(Name)
    /\ \A e \in repo : e.name # Name \/ e.version # daemon.version
    /\ daemon.at = "move" => <<Name, daemon.version>> \in infos

Repository ==
  \A e \in repo :
    /\ <<e.name, e.version>> \in infos
    /\ e.name \in Names /\ Admitted(e.name)
    /\ e.area = Area(classifyDQMFile(e.name))

Inv == Shapes /\ RoundFound /\ OwnVersion /\ Repository

LEMMA InitInv == Init => Inv
<1> SUFFICES ASSUME Init PROVE Inv
  OBVIOUS
<1>1. mix \subseteq Names
  BY MixesAssumption DEF Init
<1>2. Uploaded = {} /\ files = [i \in Uploaded |-> files[i]]
  BY DEF Init, Uploaded
<1> QED
  BY <1>1, <1>2 DEF Init, Inv, Shapes, RoundFound, OwnVersion, Repository, Rest, IsDaemon

(* Names stay what they are.                                               *)
NamesStay ==
  \A i \in Uploaded : i \in Uploaded' /\ files'[i].name = files[i].name

LEMMA ChangedPlace ==
  ASSUME Shapes, NEW i \in Uploaded, NEW place, files' = [files EXCEPT ![i].at = place]
  PROVE  /\ NamesStay
         /\ files' = [j \in Uploaded' |-> files'[j]]
         /\ \A j \in Uploaded' : IsFile(files'[j]) /\ files'[j].name \in Names
<1>1. Uploaded' = Uploaded
  BY DEF Uploaded
<1>2. \A j \in Uploaded : files'[j] = IF j = i THEN [files[i] EXCEPT !.at = place] ELSE files[j]
  BY DEF Shapes
<1>3. [files[i] EXCEPT !.at = place]
        = [name |-> files[i].name, slot |-> files[i].slot, good |-> files[i].good, at |-> place]
  BY DEF Shapes, IsFile
<1>4. \A j \in Uploaded : files'[j].name = files[j].name /\ IsFile(files'[j])
  BY <1>2, <1>3 DEF Shapes, IsFile
<1>5. files' = [j \in Uploaded' |-> files'[j]]
  BY <1>1 DEF Uploaded
<1> QED
  BY <1>1, <1>4, <1>5 DEF Shapes, NamesStay

LEMMA SameFiles ==
  ASSUME Shapes, UNCHANGED files
  PROVE  /\ NamesStay
         /\ files' = [j \in Uploaded' |-> files'[j]]
         /\ \A j \in Uploaded' : IsFile(files'[j]) /\ files'[j].name \in Names
BY DEF Shapes, Uploaded, NamesStay

(* A step of the daemon that changes its own state and perhaps the place   *)
(* of a file.                                                              *)
LEMMA DaemonStep ==
  ASSUME Inv, mix' = mix, repo' = repo, infos \subseteq infos',
         IsDaemon(daemon'),
         \A i \in daemon'.todo : i \in daemon.todo,
         files' = files \/ \E i \in Uploaded, p \in {"bad", "gone"} : files' = [files EXCEPT ![i].at = p]
  PROVE  Shapes' /\ RoundFound' /\ Repository' /\ NamesStay
<1>1. /\ NamesStay
      /\ files' = [j \in Uploaded' |-> files'[j]]
      /\ \A j \in Uploaded' : IsFile(files'[j]) /\ files'[j].name \in Names
  BY SameFiles, ChangedPlace DEF Inv
<1>2. Shapes'
  BY <1>1 DEF Inv, Shapes
<1>3. RoundFound'
  BY <1>1 DEF Inv, RoundFound, NamesStay, Class
<1>4. Repository'
  BY DEF Inv, Repository
<1> QED
  BY <1>1, <1>2, <1>3, <1>4

LEMMA NextInv == Inv /\ [Next]_vars => Inv'
<1> SUFFICES ASSUME Inv, [Next]_vars PROVE Inv'
  OBVIOUS
<1> USE DEF Inv
<1>1. ASSUME NEW n \in mix, NEW good \in BOOLEAN, Upload(n, good) PROVE Inv'
  <2> DEFINE new == [name |-> n, slot |-> FreeSlot(n), good |-> good, at |-> "waits"]
             k == Cardinality(Uploaded) + 1
  <2>1. files' = [i \in Uploaded \cup {k} |-> IF i \in Uploaded THEN files[i] ELSE new]
    BY <1>1 DEF Upload
  <2>2. Uploaded' = Uploaded \cup {k}
    BY <2>1 DEF Uploaded
  <2>3. /\ NamesStay
        /\ \A i \in Uploaded' : IsFile(files'[i]) /\ files'[i].name \in Names
    BY <2>1, <2>2 DEF NamesStay, Shapes, IsFile
  <2>4. files' = [i \in Uploaded' |-> files'[i]]
    BY <2>1, <2>2
  <2>5. Shapes'
    BY <1>1, <2>3, <2>4 DEF Upload, Shapes
  <2>6. RoundFound'
    BY <1>1, <2>3 DEF Upload, RoundFound, NamesStay, Class
  <2>7. OwnVersion'
    BY <1>1, <2>3 DEF Upload, OwnVersion, NamesStay, Name
  <2> QED
    BY <1>1, <2>5, <2>6, <2>7 DEF Upload, Repository
<1>2. CASE FindNewFiles
  <2> DEFINE marked(i) == IF Waiting(i) /\ Class(i) = Refused THEN [files[i] EXCEPT !.at = "bad"] ELSE files[i]
  <2>1. files' = [i \in Uploaded |-> marked(i)] /\ Uploaded' = Uploaded
    BY <1>2 DEF FindNewFiles, Uploaded
  <2>2. \A i \in Uploaded : [files[i] EXCEPT !.at = "bad"]
          = [name |-> files[i].name, slot |-> files[i].slot, good |-> files[i].good, at |-> "bad"]
    BY DEF Shapes, IsFile
  <2>3. \A i \in Uploaded : IsFile(files'[i]) /\ files'[i].name = files[i].name
    BY <2>1, <2>2 DEF Shapes, IsFile
  <2>4. daemon' = [at |-> "next", todo |-> {i \in Uploaded : files'[i].at = "waits"},
                   file |-> None, version |-> 0]
    BY <1>2 DEF FindNewFiles, Rest
  <2>5. Shapes'
    BY <1>2, <2>1, <2>3, <2>4 DEF FindNewFiles, Shapes, IsDaemon
  <2>6. \A i \in Uploaded : files'[i].at = "waits" => Class(i) # Refused
    BY <2>1, <2>2 DEF Waiting
  <2>7. RoundFound'
    BY <2>1, <2>3, <2>4, <2>6 DEF RoundFound, Class
  <2> QED
    BY <1>2, <2>4, <2>5, <2>7 DEF FindNewFiles, OwnVersion, Repository
<1>3. CASE Sleep \/ Kill
  <2>1. daemon' = [at |-> "sleep", todo |-> {}, file |-> None, version |-> 0]
    BY <1>3 DEF Sleep, Kill, Rest
  <2>2. Shapes' /\ RoundFound' /\ Repository'
    BY <1>3, <2>1, DaemonStep DEF Sleep, Kill, IsDaemon
  <2> QED
    BY <2>1, <2>2 DEF OwnVersion
<1>4. ASSUME NEW i \in Uploaded, Reject(i) PROVE Inv'
  <2>1. daemon' = [at |-> "next", todo |-> daemon.todo \ {i}, file |-> daemon.file,
                   version |-> daemon.version]
    BY <1>4 DEF Reject, Turn, Done, Shapes, IsDaemon
  <2>2. Shapes' /\ RoundFound' /\ Repository'
    BY <1>4, <2>1, DaemonStep DEF Reject, MarkBad, IsDaemon
  <2> QED
    BY <2>1, <2>2 DEF OwnVersion
<1>5. ASSUME NEW i \in Uploaded, Break(i) PROVE Inv'
  <2>1. daemon' = [at |-> "sleep", todo |-> {}, file |-> None, version |-> 0]
    BY <1>5 DEF Break, Rest
  <2>2. Shapes' /\ RoundFound' /\ Repository'
    BY <1>5, <2>1, DaemonStep DEF Break, IsDaemon
  <2> QED
    BY <2>1, <2>2 DEF OwnVersion
<1>6. ASSUME NEW i \in Uploaded, Accept(i) PROVE Inv'
  <2>1. PICK v \in Versions :
          /\ Free(files[i].name, v)
          /\ daemon' = [at |-> "describe", todo |-> daemon.todo \ {i}, file |-> i, version |-> v]
    BY <1>6 DEF Accept
  <2>2. Shapes' /\ RoundFound' /\ Repository' /\ NamesStay
    BY <1>6, <2>1, DaemonStep DEF Accept, IsDaemon
  <2>3. Name' = files[i].name /\ i \in Uploaded'
    BY <2>1, <2>2 DEF Name, NamesStay
  <2>4. Admitted(files[i].name)
    BY <1>6 DEF Accept, Turn, RoundFound, Trips, Passes, Admitted, Class
  <2>5. \A e \in repo' : e.name # files[i].name \/ e.version # v
    BY <1>6, <2>1 DEF Accept, Free, Repository
  <2> QED
    BY <2>1, <2>2, <2>3, <2>4, <2>5 DEF OwnVersion
<1>7. CASE Describe
  <2>1. daemon' = [at |-> "move", todo |-> daemon.todo, file |-> daemon.file, version |-> daemon.version]
    BY <1>7 DEF Describe, GoOn, Shapes, IsDaemon
  <2>2. Shapes' /\ RoundFound' /\ Repository' /\ NamesStay
    BY <1>7, <2>1, DaemonStep DEF Describe, IsDaemon
  <2>3. Name' = Name /\ daemon.file \in Uploaded'
    BY <1>7, <2>1, <2>2 DEF Describe, OwnVersion, Name, NamesStay
  <2> QED
    BY <1>7, <2>1, <2>2, <2>3 DEF Describe, OwnVersion
<1>8. CASE Move
  <2> DEFINE entry == [name |-> Name, area |-> Area(Class(daemon.file)), version |-> daemon.version,
                       file |-> daemon.file]
  <2>1. daemon' = [at |-> "forget", todo |-> daemon.todo, file |-> daemon.file, version |-> daemon.version]
    BY <1>8 DEF Move, GoOn, Shapes, IsDaemon
  <2>2. /\ NamesStay
        /\ files' = [j \in Uploaded' |-> files'[j]]
        /\ \A j \in Uploaded' : IsFile(files'[j]) /\ files'[j].name \in Names
    <3>1. daemon.file \in Uploaded /\ files' = [files EXCEPT ![daemon.file].at = "taken"]
      BY <1>8 DEF Move, OwnVersion
    <3> QED
      BY <3>1, ChangedPlace
  <2>3. Shapes'
    BY <1>8, <2>1, <2>2 DEF Move, Shapes, IsDaemon
  <2>4. RoundFound'
    BY <2>1, <2>2 DEF RoundFound, NamesStay, Class
  <2>5. \A e \in repo' : e \in repo \/ e = entry
    BY <1>8 DEF Move
  <2>6. /\ <<Name, daemon.version>> \in infos /\ Admitted(Name) /\ Name \in Names
    BY <1>8 DEF Move, OwnVersion, Shapes, Name
  <2>7. Class(daemon.file) = classifyDQMFile(Name)
    BY DEF Class, Name
  <2>8. Repository'
    <3> SUFFICES ASSUME NEW e \in repo'
                 PROVE  /\ <<e.name, e.version>> \in infos
                        /\ e.name \in Names /\ Admitted(e.name)
                        /\ e.area = Area(classifyDQMFile(e.name))
      BY <1>8 DEF Move, Repository
    <3>1. CASE e \in repo
      BY <3>1 DEF Repository
    <3>2. CASE e = entry
      <4>1. e.name = Name /\ e.version = daemon.version /\ e.area = Area(Class(daemon.file))
        BY <3>2
      <4> QED
        BY <4>1, <2>6, <2>7
    <3> QED
      BY <2>5, <3>1, <3>2
  <2>9. daemon.file \in Uploaded'
    BY <1>8, <2>2 DEF Move, OwnVersion, NamesStay
  <2> QED
    BY <2>1, <2>3, <2>4, <2>8, <2>9 DEF OwnVersion
<1>9. CASE Forget
  <2>1. daemon' = [at |-> "announce", todo |-> daemon.todo, file |-> daemon.file, version |-> daemon.version]
    BY <1>9 DEF Forget, GoOn, Shapes, IsDaemon
  <2>2. daemon.file \in Uploaded
    BY <1>9 DEF Forget, OwnVersion
  <2>3. Shapes' /\ RoundFound' /\ Repository'
    BY <1>9, <2>1, <2>2, DaemonStep DEF Forget, IsDaemon
  <2> QED
    BY <2>1, <2>3 DEF OwnVersion
<1>10. CASE Announce
  <2>1. daemon' = [at |-> "next", todo |-> daemon.todo, file |-> None, version |-> 0]
    BY <1>10 DEF Announce, Shapes, IsDaemon
  <2>2. Shapes' /\ RoundFound' /\ Repository'
    BY <1>10, <2>1, DaemonStep DEF Announce, IsDaemon
  <2> QED
    BY <2>1, <2>2 DEF OwnVersion
<1>11. CASE UNCHANGED vars
  BY <1>11 DEF vars, Shapes, RoundFound, OwnVersion, Repository, Uploaded, Class, Name
<1> QED
  BY <1>1, <1>2, <1>3, <1>4, <1>5, <1>6, <1>7, <1>8, <1>9, <1>10, <1>11 DEF Next, Working

LEMMA Receives ==
  /\ ClientsInit => Inv
  /\ Inv /\ [ClientsNext]_allVars => Inv' /\ [Next]_vars
<1>1. ClientsInit => Inv
  BY InitInv DEF ClientsInit
<1>2. [ClientsNext]_allVars => [Next]_vars
  BY DEF ClientsNext, allVars, receiveVars
<1>3. QED
  BY <1>1, <1>2, NextInv

(* visDQMUtils.py:33, visDQMReceiveDaemon:262: whatever is received is in  *)
(* the area for its kind of data.                                          *)
THEOREM ReceivedInPlace == ClientsSpec => []RightPlace
<1>1. Inv => RightPlace
  BY OneArea DEF Inv, Repository, RightPlace, AsAreaFor
<1> QED
  BY Receives, <1>1, PTL DEF ClientsSpec

(* visDQMReceiveDaemon:181: data in the repository is never replaced, and  *)
(* is described.                                                           *)
THEOREM ReceivedIsKept == ClientsSpec => NothingReplaced
<1> DEFINE Kept == repo \subseteq repo' /\ \A e \in repo' : <<e.name, e.version>> \in infos'
<1>1. Inv /\ Inv' /\ [Next]_vars => [Kept]_vars
  <2> SUFFICES ASSUME Inv, Inv', [Next]_vars PROVE Kept
    OBVIOUS
  <2>1. \A e \in repo' : <<e.name, e.version>> \in infos'
    BY DEF Inv, Repository
  <2>2. CASE Move
    BY <2>1, <2>2 DEF Move, Inv, OwnVersion
  <2>3. CASE ~Move
    <3>1. repo' = repo
      BY <2>3 DEF Next, Working, vars, Upload, FindNewFiles, Sleep, Describe, Forget, Announce,
                  Reject, Break, Accept, Kill
    <3> QED
      BY <2>1, <3>1
  <2> QED
    BY <2>2, <2>3
<1> QED
  BY Receives, <1>1, PTL DEF ClientsSpec, NothingReplaced

--------------------------------------------------------------------------------
(* The uploads.  What UploadsProofs proves is about its own instance of    *)
(* the handlers, which takes the same steps.                               *)
P == INSTANCE UploadsProofs WITH asked <- request, daemon <- taker

LEMMA SameHandlerSteps ==
  ASSUME NEW t
  PROVE  /\ Put!Lock(t) => P!Lock(t)
         /\ Put!SeekFile(t) => P!SeekFile(t)
         /\ Put!SeekMark(t) => P!SeekMark(t)
         /\ Put!RefuseTaken(t) => P!RefuseTaken(t)
         /\ Put!MakeTemp(t) => P!MakeTemp(t)
         /\ Put!Write(t) => P!Write(t)
         /\ Put!Verify(t) => P!Verify(t)
         /\ Put!Move(t) => P!Move(t)
         /\ Put!OpenMark(t) => P!OpenMark(t)
         /\ Put!Describe(t) => P!Describe(t)
         /\ Put!Succeed(t) => P!Succeed(t)
         /\ Put!Truncate(t) => P!Truncate(t)
         /\ Put!Fail(t) => P!Fail(t)
         /\ Put!SeeFile(t) => P!SeeFile(t)
         /\ Put!RemoveFile(t) => P!RemoveFile(t)
         /\ Put!SeeMark(t) => P!SeeMark(t)
         /\ Put!RemoveMark(t) => P!RemoveMark(t)
         /\ Put!RemoveTemp(t) => P!RemoveTemp(t)
         /\ Put!Raise(t) => P!Raise(t)
<1> USE DEF Put!At, P!At, Put!Goto, P!Goto, Put!Handler, P!Handler, Put!RestOfPut,
            P!RestOfPut, Put!disk, P!disk, Put!reception, P!reception, Put!OK, P!OK,
            Put!FailExecute, P!FailExecute, Put!Idle, P!Idle, Put!Finish, P!Finish,
            Put!GiveUp, P!GiveUp
<1>1. Put!Lock(t) => P!Lock(t)
  BY DEF Put!Lock, P!Lock
<1>2. Put!SeekFile(t) => P!SeekFile(t)
  BY DEF Put!SeekFile, P!SeekFile, Put!File, P!File
<1>3. Put!SeekMark(t) => P!SeekMark(t)
  BY DEF Put!SeekMark, P!SeekMark, Put!Mark, P!Mark
<1>4. Put!RefuseTaken(t) => P!RefuseTaken(t)
  BY DEF Put!RefuseTaken, P!RefuseTaken, Put!ErrorExists, P!ErrorExists, Put!File, P!File,
         Put!Mark, P!Mark
<1>5. Put!MakeTemp(t) => P!MakeTemp(t)
  BY DEF Put!MakeTemp, P!MakeTemp
<1>6. Put!Write(t) => P!Write(t)
  BY DEF Put!Write, P!Write
<1>7. Put!Verify(t) => P!Verify(t)
  BY DEF Put!Verify, P!Verify, Put!DataBody, P!DataBody, Put!ErrorParameter,
         P!ErrorParameter, Put!SnapshotBody, P!SnapshotBody
<1>8. Put!Move(t) => P!Move(t)
  BY DEF Put!Move, P!Move, Put!PutFile, P!PutFile
<1>9. Put!OpenMark(t) => P!OpenMark(t)
  BY DEF Put!OpenMark, P!OpenMark, Put!PutMark, P!PutMark
<1>10. Put!Describe(t) => P!Describe(t)
  BY DEF Put!Describe, P!Describe, Put!PutMark, P!PutMark
<1>11. Put!Succeed(t) => P!Succeed(t)
  BY DEF Put!Succeed, P!Succeed
<1>12. Put!Truncate(t) => P!Truncate(t)
  BY DEF Put!Truncate, P!Truncate, Put!PutFile, P!PutFile
<1>13. Put!Fail(t) => P!Fail(t)
  BY DEF Put!Fail, P!Fail
<1>14. Put!SeeFile(t) => P!SeeFile(t)
  BY DEF Put!SeeFile, P!SeeFile, Put!File, P!File
<1>15. Put!RemoveFile(t) => P!RemoveFile(t)
  BY DEF Put!RemoveFile, P!RemoveFile, Put!File, P!File, Put!PutFile, P!PutFile
<1>16. Put!SeeMark(t) => P!SeeMark(t)
  BY DEF Put!SeeMark, P!SeeMark, Put!Mark, P!Mark
<1>17. Put!RemoveMark(t) => P!RemoveMark(t)
  BY DEF Put!RemoveMark, P!RemoveMark, Put!Mark, P!Mark, Put!PutMark, P!PutMark
<1>18. Put!RemoveTemp(t) => P!RemoveTemp(t)
  BY DEF Put!RemoveTemp, P!RemoveTemp
<1>19. Put!Raise(t) => P!Raise(t)
  BY DEF Put!Raise, P!Raise
<1>20. QED
  BY <1>1, <1>2, <1>3, <1>4, <1>5, <1>6, <1>7, <1>8, <1>9, <1>10, <1>11, <1>12, <1>13, <1>14, <1>15, <1>16, <1>17, <1>18, <1>19

LEMMA SameArrivals ==
  ASSUME NEW t, NEW r, Put!Begin(t, r)
  PROVE  P!Begin(t, r)
<1>1. Put!Verdict(r) = P!Verdict(r)
  BY DEF Put!Verdict, P!Verdict, Put!Allowed, P!Allowed, Put!Authentication,
         P!Authentication, Put!BadRequest, P!BadRequest, Put!Broken, P!Broken,
         Put!CheckData, P!CheckData, Put!CheckSnapshot, P!CheckSnapshot, Put!Checks,
         P!Checks, Put!Convention, P!Convention, Put!ErrorExists, P!ErrorExists,
         Put!ErrorParameter, P!ErrorParameter, Put!NoFile, P!NoFile, Put!OK, P!OK,
         Put!Unauthorized, P!Unauthorized
<1>2. Put!OK = P!OK
  BY DEF Put!OK, P!OK
<1>3. QED
  BY <1>1, <1>2 DEF Put!Begin, P!Begin, Put!At, P!At, Put!disk, P!disk, Put!reception, P!reception

LEMMA SameOtherSteps ==
  /\ Put!Kill => P!Kill
  /\ Put!LookAt => P!LookAt
  /\ Put!Examine => P!Examine
  /\ Put!TakeFile => P!TakeFile
  /\ Put!ForgetOrigin => P!ForgetOrigin
  /\ \A v : Put!Notice(v) => P!Notice(v)
<1> USE DEF Put!Server, P!Server, Put!Rest, P!Rest, Put!Spoil, P!Spoil, Put!Data, P!Data,
            Put!Origin, P!Origin
<1>1. Put!Kill => P!Kill
  BY DEF Put!Kill, P!Kill, Put!At, P!At, Put!Handlers, P!Handlers, Put!Idle, P!Idle,
         Put!Ids, P!Ids, Put!Killed, P!Killed, Put!OK, P!OK, Put!disk, P!disk,
         Put!reception, P!reception
<1>2. Put!LookAt => P!LookAt
  BY DEF Put!LookAt, P!LookAt
<1>3. Put!Examine => P!Examine
  BY DEF Put!Examine, P!Examine, Put!First, P!First
<1>4. Put!TakeFile => P!TakeFile
  BY DEF Put!TakeFile, P!TakeFile
<1>5. Put!ForgetOrigin => P!ForgetOrigin
  BY DEF Put!ForgetOrigin, P!ForgetOrigin
<1>6. \A v : Put!Notice(v) => P!Notice(v)
  BY DEF Put!Notice, P!Notice, Put!Ids, P!Ids, Put!disk, P!disk
<1>7. QED
  BY <1>1, <1>2, <1>3, <1>4, <1>5, <1>6

LEMMA SameSpec ==
  /\ Put!Init => P!Init
  /\ [Put!Step]_uploadVars => [P!Step]_P!vars
<1>1. Put!Init => P!Init
  BY DEF Put!Init, P!Init, Put!Handlers, P!Handlers, Put!Slots, P!Slots, Put!Ids, P!Ids,
         Put!Idle, P!Idle, Put!OK, P!OK, Put!Rest, P!Rest, Put!Pending, P!Pending
<1>2. Put!Step => P!Step
  <2>1. \A t : Put!Answering(t) => P!Answering(t)
    BY SameHandlerSteps DEF Put!Answering, P!Answering
  <2>2. Put!Receiving => P!Receiving
    BY SameOtherSteps DEF Put!Receiving, P!Receiving, Put!Slots, P!Slots
  <2>3. QED
    BY <2>1, <2>2, SameHandlerSteps, SameArrivals, SameOtherSteps DEF Put!Step, P!Step
<1>3. QED
  BY <1>1, <1>2 DEF uploadVars, P!vars

LEMMA SameParts ==
  /\ ClientsInit => P!Init
  /\ [ClientsNext]_allVars => [P!Step]_P!vars
<1>1. ClientsInit => P!Init
  BY SameSpec DEF ClientsInit
<1>2. [ClientsNext]_allVars => [Put!Step]_uploadVars
  BY DEF ClientsNext, allVars
<1>3. QED
  BY <1>1, <1>2, SameSpec

LEMMA UploadsParameters == P!Parameters
BY UploadsAssumption DEF Put!Parameters, P!Parameters, Put!RequestType, P!RequestType,
   Put!Handlers, P!Handlers, Put!Ids, P!Ids

(* A data file or a snapshot is the whole body of one upload, and the      *)
(* .origin of a data file is its own, whatever fails or takes them at the  *)
(* same time (DQM/GUI.py, lines 222-306).                                  *)
THEOREM UploadsWhole == ClientsSpec => []WholeFiles
<1>1. P!Spec => []P!OnlyWholeFiles
  BY UploadsParameters, P!WholeFiles
<1>2. P!Spec => []P!OwnOrigin
  BY UploadsParameters, P!OwnOrigins
<1>3. P!OnlyWholeFiles /\ P!OwnOrigin => WholeFiles
  BY DEF WholeFiles, Put!OnlyWholeFiles, P!OnlyWholeFiles, Put!OwnOrigin, P!OwnOrigin,
         Put!Slots, P!Slots, Put!Ids, P!Ids, Put!Data, P!Data, Put!Origin, P!Origin
<1>4. QED
  BY <1>1, <1>2, <1>3, SameParts, PTL DEF ClientsSpec, P!Spec

(* No upload is given the version of another (DQM/GUI.py, lines 255-262).  *)
THEOREM UploadsApart == ClientsSpec => NeverOverwritten
<1> DEFINE Apart == \A v \in P!Slots : P!Data(v) # None => P!Data(v)' \in {P!Data(v), None}
<1>1. P!Spec => [][Apart]_P!vars
  BY UploadsParameters, P!NothingOverwritten DEF P!NeverOverwritten
<1>2. [Apart]_P!vars =>
        [\A v \in Put!Slots : Put!Data(v) # None => Put!Data(v)' \in {Put!Data(v), None}]_Put!vars
  BY DEF Put!Slots, P!Slots, Put!Data, P!Data, Put!vars, P!vars
<1> HIDE DEF Apart
<1>3. QED
  BY <1>1, <1>2, SameParts, PTL DEF ClientsSpec, P!Spec, NeverOverwritten, Put!NeverOverwritten

--------------------------------------------------------------------------------
(* The listing.  Instances have names of their own for what the standard   *)
(* modules define.                                                         *)
LEMMA SameNotions ==
  ASSUME NEW S
  PROVE  /\ List!Cardinality(S) = Cardinality(S)
         /\ List!IsFiniteSet(S) <=> IsFiniteSet(S)
<1>1. List!Cardinality(S) = Cardinality(S)
  BY DEF List!Cardinality, Cardinality
<1>2. List!IsFiniteSet(S) <=> IsFiniteSet(S)
  BY DEF List!IsFiniteSet, IsFiniteSet
<1>3. QED
  BY <1>1, <1>2

(* Counting in sequences.                                                  *)
Places(s, d) == {i \in DOMAIN s : s[i] = d}

LEMMA TimesIsPlaces ==
  ASSUME NEW s, NEW d
  PROVE  List!Times(s, d) = Cardinality(Places(s, d))
BY SameNotions DEF List!Times, Places

LEMMA PlacesFinite ==
  ASSUME NEW S, NEW s \in Seq(S), NEW d
  PROVE  /\ List!Times(s, d) = Cardinality(Places(s, d))
         /\ IsFiniteSet(Places(s, d)) /\ List!Times(s, d) \in Nat
         /\ List!Times(s, d) = 0 <=> Places(s, d) = {}
<1>1. List!Times(s, d) = Cardinality(Places(s, d))
  BY TimesIsPlaces
<1>2. IsFiniteSet(Places(s, d))
  <2> DEFINE n == Len(s)
             I == 1 .. n
  <2>1. n \in Nat /\ Places(s, d) \in SUBSET I
    BY DEF Places
  <2>2. IsFiniteSet(I)
    <3> HIDE DEF n
    <3>1. QED
      BY <2>1, FS_Interval
  <2> HIDE DEF I
  <2>3. QED
    BY <2>1, <2>2, FS_Subset
<1>3. QED
  BY <1>1, <1>2, FS_CardinalityType, FS_EmptySet

LEMMA Shifted ==
  ASSUME NEW A \in SUBSET Int, IsFiniteSet(A), NEW k \in Int
  PROVE  /\ IsFiniteSet({i + k : i \in A})
         /\ Cardinality({i + k : i \in A}) = Cardinality(A)
<1> DEFINE B == {i + k : i \in A}
           f == [i \in A |-> i + k]
<1>1. f \in Bijection(A, B)
  BY DEF Bijection, Injection, Surjection, IsInjective
<1>2. ExistsBijection(A, B)
  BY <1>1 DEF ExistsBijection
<1> HIDE DEF B
<1>3. QED
  BY <1>2, FS_Bijection DEF B

LEMMA TimesEmpty ==
  ASSUME NEW d
  PROVE  List!Times(<<>>, d) = 0
<1>1. {i \in DOMAIN <<>> : <<>>[i] = d} = {}
  OBVIOUS
<1>2. QED
  BY <1>1, TimesIsPlaces, FS_EmptySet DEF Places

LEMMA TimesAppend ==
  ASSUME NEW S, NEW s \in Seq(S), NEW x \in S, NEW d
  PROVE  List!Times(Append(s, x), d) = List!Times(s, d) + IF x = d THEN 1 ELSE 0
<1> DEFINE A == Places(s, d)
           n == Len(s) + 1
<1>1. Places(Append(s, x), d) = IF x = d THEN A \cup {n} ELSE A
  BY DEF Places
<1>2. n \notin A
  BY DEF Places
<1>3. IsFiniteSet(A) /\ Cardinality(A) \in Nat /\ List!Times(s, d) = Cardinality(A)
  BY PlacesFinite
<1>4. List!Times(Append(s, x), d) = Cardinality(Places(Append(s, x), d))
  BY TimesIsPlaces
<1> HIDE DEF A, n
<1>5. Cardinality(A \cup {n}) = Cardinality(A) + 1
  BY <1>2, <1>3, FS_AddElement
<1>6. QED
  BY <1>1, <1>3, <1>4, <1>5

LEMMA InAppend ==
  ASSUME NEW S, NEW s \in Seq(S), NEW x \in S
  PROVE  List!ToSet(Append(s, x)) = List!ToSet(s) \cup {x}
<1>1. /\ DOMAIN s = 1 .. Len(s) /\ DOMAIN Append(s, x) = 1 .. Len(s) + 1 /\ Len(s) \in Nat
      /\ \A i \in 1 .. Len(s) : Append(s, x)[i] = s[i]
      /\ Append(s, x)[Len(s) + 1] = x
  OBVIOUS
<1>2. ASSUME NEW y \in List!ToSet(Append(s, x)) PROVE y \in List!ToSet(s) \cup {x}
  BY <1>1 DEF List!ToSet
<1>3. ASSUME NEW y \in List!ToSet(s) PROVE y \in List!ToSet(Append(s, x))
  BY <1>1 DEF List!ToSet
<1>4. x \in List!ToSet(Append(s, x))
  BY <1>1 DEF List!ToSet
<1>5. QED
  BY <1>2, <1>3, <1>4

LEMMA TimesTail ==
  ASSUME NEW S, NEW s \in Seq(S), s # <<>>, NEW d
  PROVE  List!Times(s, d) = List!Times(Tail(s), d) + IF Head(s) = d THEN 1 ELSE 0
<1> DEFINE A == Places(s, d)
           B == Places(Tail(s), d)
           one == 1
           C == {i + one : i \in B}
<1>1. A = IF Head(s) = d THEN C \cup {1} ELSE C
  <2>1. C = {i \in 2 .. Len(s) : s[i] = d}
    <3>1. Tail(s) \in Seq(S) /\ Len(Tail(s)) = Len(s) - 1 /\ Len(s) \in Nat \ {0}
      OBVIOUS
    <3>2. \A i \in 1 .. Len(s) - 1 : Tail(s)[i] = s[i + 1]
      OBVIOUS
    <3>3. ASSUME NEW j \in C PROVE j \in 2 .. Len(s) /\ s[j] = d
      BY <3>1, <3>2 DEF Places
    <3>4. ASSUME NEW j \in 2 .. Len(s), s[j] = d PROVE j \in C
      <4>1. j - 1 \in B
        BY <3>1, <3>2, <3>4 DEF Places
      <4>2. j = (j - 1) + 1
        OBVIOUS
      <4>3. QED
        BY <4>1, <4>2
    <3> HIDE DEF C
    <3>5. QED
      BY <3>3, <3>4
  <2>2. Head(s) = s[1] /\ DOMAIN s = {1} \cup (2 .. Len(s))
    <3>1. Len(s) \in Nat \ {0} /\ DOMAIN s = 1 .. Len(s) /\ Head(s) = s[1]
      OBVIOUS
    <3>2. QED
      BY <3>1
  <2> HIDE DEF C
  <2>3. QED
    BY <2>1, <2>2 DEF Places
<1>2. 1 \notin C
  BY DEF Places
<1>3. IsFiniteSet(B) /\ Cardinality(B) \in Nat /\ List!Times(Tail(s), d) = Cardinality(B)
  <2>1. Tail(s) \in Seq(S)
    OBVIOUS
  <2>2. QED
    BY <2>1, PlacesFinite
<1>4. IsFiniteSet(C) /\ Cardinality(C) = Cardinality(B)
  <2>1. B \in SUBSET Int /\ one \in Int
    BY DEF Places
  <2> HIDE DEF B, one
  <2>2. QED
    BY <1>3, <2>1, Shifted
<1>5. List!Times(s, d) = Cardinality(A)
  BY PlacesFinite
<1> HIDE DEF A, B, C
<1>6. Cardinality(C \cup {1}) = Cardinality(C) + 1
  BY <1>2, <1>4, FS_AddElement
<1>7. QED
  BY <1>1, <1>3, <1>4, <1>5, <1>6

LEMMA TimesBoth ==
  ASSUME NEW S, NEW s \in Seq(S), NEW t \in Seq(S), NEW d
  PROVE  List!Times(s \o t, d) = List!Times(s, d) + List!Times(t, d)
<1> DEFINE A == Places(s, d)
           B == Places(t, d)
           n == Len(s)
           C == {i + n : i \in B}
<1>1. Places(s \o t, d) = A \cup C
  <2>1. /\ s \o t \in Seq(S) /\ Len(s) \in Nat /\ Len(t) \in Nat
        /\ Len(s \o t) = Len(s) + Len(t)
        /\ \A i \in 1 .. Len(s) : (s \o t)[i] = s[i]
        /\ \A i \in 1 .. Len(t) : (s \o t)[i + Len(s)] = t[i]
    OBVIOUS
  <2>2. ASSUME NEW j \in Places(s \o t, d) PROVE j \in A \cup C
    <3>1. j \in 1 .. Len(s) + Len(t) /\ (s \o t)[j] = d
      BY <2>1 DEF Places
    <3>2. CASE j <= Len(s)
      BY <2>1, <3>1, <3>2 DEF Places
    <3>3. CASE j > Len(s)
      <4>1. j - n \in 1 .. Len(t) /\ j = (j - n) + n
        BY <2>1, <3>1, <3>3
      <4>2. j - n \in B
        BY <2>1, <3>1, <4>1 DEF Places
      <4>3. QED
        BY <4>1, <4>2
    <3>4. QED
      BY <2>1, <3>1, <3>2, <3>3
  <2>3. ASSUME NEW j \in A PROVE j \in Places(s \o t, d)
    BY <2>1 DEF Places
  <2>4. ASSUME NEW j \in C PROVE j \in Places(s \o t, d)
    BY <2>1 DEF Places
  <2> HIDE DEF C, A
  <2>5. QED
    BY <2>2, <2>3, <2>4
<1>2. A \cap C = {}
  BY DEF Places
<1>3. /\ IsFiniteSet(A) /\ Cardinality(A) \in Nat /\ List!Times(s, d) = Cardinality(A)
      /\ IsFiniteSet(B) /\ Cardinality(B) \in Nat /\ List!Times(t, d) = Cardinality(B)
  BY PlacesFinite
<1>4. IsFiniteSet(C) /\ Cardinality(C) = Cardinality(B)
  <2>1. B \in SUBSET Int /\ n \in Int
    BY DEF Places
  <2> HIDE DEF B, n
  <2>2. QED
    BY <1>3, <2>1, Shifted
<1>5. List!Times(s \o t, d) = Cardinality(Places(s \o t, d))
  BY TimesIsPlaces
<1> HIDE DEF A, B, C
<1>6. Cardinality(A \cup C) = Cardinality(A) + Cardinality(C)
  <2>1. Cardinality(A \cap C) = 0
    BY <1>2, FS_EmptySet
  <2>2. Cardinality(A \cup C) = Cardinality(A) + Cardinality(C) - Cardinality(A \cap C)
    BY <1>3, <1>4, FS_Union
  <2>3. QED
    BY <1>3, <1>4, <2>1, <2>2
<1>7. QED
  BY <1>1, <1>3, <1>4, <1>5, <1>6

(* SetToSeq: each element of a finite set once.                            *)
LEMMA EachOnce ==
  ASSUME NEW S, IsFiniteSet(S)
  PROVE  /\ List!SetToSeq(S) \in Seq(S) /\ Len(List!SetToSeq(S)) = Cardinality(S)
         /\ List!IsInjective(List!SetToSeq(S)) /\ List!ToSet(List!SetToSeq(S)) = S
         /\ \A d : List!Times(List!SetToSeq(S), d) = IF d \in S THEN 1 ELSE 0
<1> DEFINE n == Cardinality(S)
           f == List!SetToSeq(S)
<1>1. n \in Nat /\ ExistsBijection(1 .. n, S)
  BY FS_CardinalityType
<1>2. \E g : g \in [1 .. n -> S] /\ List!IsInjective(g)
  BY <1>1 DEF ExistsBijection, Bijection, Injection, IsInjective, List!IsInjective
<1>3. f \in [1 .. n -> S] /\ List!IsInjective(f)
  BY <1>2, SameNotions DEF List!SetToSeq
<1>4. f \in Surjection(1 .. n, S)
  <2>1. IsFiniteSet(1 .. n) /\ Cardinality(1 .. n) = n
    <3> HIDE DEF n
    <3>1. QED
      BY <1>1, FS_Interval
  <2>2. f \in Injection(1 .. n, S)
    BY <1>3 DEF Injection, IsInjective, List!IsInjective
  <2> DEFINE I == 1 .. n
  <2> HIDE DEF f, I
  <2>3. QED
    BY <2>1, <2>2, FS_Injection
<1> HIDE DEF f, n
<1>5. f \in Seq(S) /\ Len(f) = n /\ DOMAIN f = 1 .. n
  BY <1>1, <1>3
<1>6. \A d \in S : \E i \in 1 .. n : f[i] = d
  BY <1>4 DEF Surjection
<1>7. List!ToSet(f) = S
  BY <1>3, <1>5, <1>6 DEF List!ToSet
<1>8. ASSUME NEW d PROVE List!Times(f, d) = IF d \in S THEN 1 ELSE 0
  <2>1. List!Times(f, d) = Cardinality(Places(f, d))
    BY <1>5, PlacesFinite
  <2>2. CASE d \in S
    <3>1. PICK i \in 1 .. n : f[i] = d
      BY <1>6, <2>2
    <3>2. Places(f, d) = {i}
      BY <1>3, <1>5, <3>1 DEF Places, List!IsInjective
    <3>3. QED
      BY <2>1, <2>2, <3>2, FS_Singleton
  <2>3. CASE d \notin S
    <3>1. Places(f, d) = {}
      BY <1>3, <1>5, <2>3 DEF Places
    <3>2. QED
      BY <2>1, <2>3, <3>1, FS_EmptySet
  <2>4. QED
    BY <2>2, <2>3
<1>9. QED
  BY <1>3, <1>5, <1>7, <1>8 DEF f, n

--------------------------------------------------------------------------------
(* Every directory that is expected is in one place: answered, reported,   *)
(* waiting in the queue, or on one connection; and every connection is     *)
(* either free or in use.                                                  *)
Directory == DOMAIN Tree
Sending(d) == {h \in DOMAIN sent : sent[h].task = d}

ListTypes ==
  /\ queue \in Seq(Directory) /\ free \in Seq(Handles)
  /\ DOMAIN sent \subseteq Handles
  /\ sent \in [DOMAIN sent -> [task : Directory, state : {"sent", "ok", "err"}]]
  /\ asked \in 0 .. Len(Roots)
  /\ responses \in Seq(Directory) /\ failures \in Seq(Directory)

Connections ==
  /\ npending = Cardinality(DOMAIN sent)
  /\ List!IsInjective(free)
  /\ at \notin {"start", "ended"} =>
       List!ToSet(free) = Handles \ DOMAIN sent /\ Len(free) + npending = Cardinality(Handles)

Copies(d) ==
  List!Times(responses, d) + List!Times(failures, d) + List!Times(queue, d)
    + Cardinality(Sending(d))
Once == \A d \in Directory : Copies(d) = IF List!Expected(d) THEN 1 ELSE 0

Idle == at \in {"start", "returned", "ended"} => queue = <<>> /\ DOMAIN sent = {}

ListInv == ListTypes /\ Connections /\ Once /\ Idle

LEMMA ListForest ==
  /\ IsFiniteSet(Handles)
  /\ \A d \in Directory : IsFiniteSet(Tree[d]) /\ Tree[d] \subseteq Directory
  /\ \A d, e \in Directory : d # e => Tree[d] \cap Tree[e] = {}
  /\ Roots \in Seq(Directory)
  /\ \A i, j \in DOMAIN Roots : Roots[i] = Roots[j] => i = j
  /\ \A i \in DOMAIN Roots, d \in Directory : Roots[i] \notin Tree[d]
BY ListAssumption, SameNotions DEF List!Forest, List!IsInjective, Directory

LEMMA PartsFinite ==
  ASSUME ListTypes, NEW d
  PROVE  /\ IsFiniteSet(DOMAIN sent) /\ Cardinality(DOMAIN sent) \in Nat
         /\ IsFiniteSet(Sending(d)) /\ Cardinality(Sending(d)) \in Nat
         /\ List!Times(responses, d) \in Nat /\ List!Times(failures, d) \in Nat
         /\ List!Times(queue, d) \in Nat
<1>1. IsFiniteSet(DOMAIN sent)
  BY ListForest, FS_Subset DEF ListTypes
<1>2. Sending(d) \in SUBSET DOMAIN sent
  BY DEF Sending
<1>3. IsFiniteSet(Sending(d))
  BY <1>1, <1>2, FS_Subset
<1>4. QED
  BY <1>1, <1>3, FS_CardinalityType, PlacesFinite DEF ListTypes

LEMMA ListInitInv == List!Init => ListInv
<1> SUFFICES ASSUME List!Init
             PROVE  ListInv
  OBVIOUS
<1>1. /\ queue = <<>> /\ free = <<>> /\ DOMAIN sent = {} /\ npending = 0 /\ at = "start"
      /\ asked = 0 /\ responses = <<>> /\ failures = <<>>
  BY DEF List!Init
<1>2. ListTypes
  <2>1. sent = [h \in {} |-> None]
    BY DEF List!Init
  <2>2. Len(Roots) \in Nat
    BY ListForest
  <2>3. QED
    BY <1>1, <2>1, <2>2 DEF ListTypes
<1>3. Connections
  BY <1>1, FS_EmptySet DEF Connections, List!IsInjective
<1>4. Once
  <2>1. ASSUME NEW d \in Directory PROVE Copies(d) = 0 /\ ~List!Expected(d)
    <3>1. Sending(d) = {}
      BY <1>1 DEF Sending
    <3>2. List!ToSet(responses) = {}
      BY <1>1 DEF List!ToSet
    <3>3. ~List!Expected(d)
      BY <1>1, <3>2 DEF List!Expected
    <3>4. List!Times(responses, d) = 0 /\ List!Times(failures, d) = 0 /\ List!Times(queue, d) = 0
      BY <1>1, TimesEmpty
    <3>5. Cardinality(Sending(d)) = 0
      BY <3>1, FS_EmptySet
    <3>6. QED
      BY <3>3, <3>4, <3>5 DEF Copies
  <2>2. QED
    BY <2>1 DEF Once
<1>5. Idle
  BY <1>1 DEF Idle
<1>6. QED
  BY <1>2, <1>3, <1>4, <1>5 DEF ListInv

(* What does not move a task.                                              *)
LEMMA TasksStay ==
  ASSUME ListInv, UNCHANGED <<queue, sent, asked, responses, failures>>
  PROVE  Once'
BY ZenonT(60) DEF ListInv, Once, Copies, Sending, List!Expected, List!Times, List!ToSet

LEMMA StartInv ==
  ASSUME ListInv, List!Start
  PROVE  ListInv'
<1>1. /\ UNCHANGED <<queue, sent, npending, asked, responses, failures>>
      /\ \/ at' = "ended" /\ free' = free
         \/ at' = "returned" /\ free' = List!SetToSeq(Handles)
      /\ at = "start"
  BY DEF List!Start
<1>2. queue = <<>> /\ DOMAIN sent = {}
  BY <1>1 DEF ListInv, Idle
<1>3. CASE at' = "ended" /\ free' = free
  <2>1. ListTypes' /\ Connections' /\ Idle'
    BY <1>1, <1>2, <1>3 DEF ListInv, ListTypes, Connections, Idle, List!IsInjective
  <2>2. QED
    BY <1>1, <2>1, TasksStay DEF ListInv
<1>4. CASE at' = "returned" /\ free' = List!SetToSeq(Handles)
  <2>1. /\ free' \in Seq(Handles) /\ Len(free') = Cardinality(Handles)
        /\ List!IsInjective(free') /\ List!ToSet(free') = Handles
    BY <1>4, ListForest, EachOnce
  <2>2. ListTypes'
    BY <1>1, <2>1 DEF ListInv, ListTypes
  <2>3. npending = 0 /\ Cardinality(Handles) \in Nat
    BY <1>2, FS_EmptySet, FS_CardinalityType, ListForest DEF ListInv, Connections
  <2>4. Connections'
    <3>1. npending' = Cardinality(DOMAIN sent')
      BY <1>1 DEF ListInv, Connections
    <3>2. List!IsInjective(free)'
      BY <2>1 DEF List!IsInjective
    <3>3. List!ToSet(free)' = Handles
      BY <2>1 DEF List!ToSet
    <3>4. Len(free)' + npending' = Cardinality(Handles) /\ DOMAIN sent' = {}
      BY <1>1, <1>2, <2>1, <2>3
    <3>5. QED
      BY <3>1, <3>2, <3>3, <3>4 DEF Connections
  <2>5. Idle'
    BY <1>1, <1>2 DEF Idle
  <2>6. QED
    BY <1>1, <2>2, <2>4, <2>5, TasksStay DEF ListInv
<1>5. QED
  BY <1>1, <1>3, <1>4

LEMMA QuietInv ==
  ASSUME ListInv, UNCHANGED <<queue, free, sent, npending, asked, responses, failures>>,
         at \notin {"start", "ended"}, at' \notin {"start", "ended"},
         at' = "returned" => queue = <<>> /\ npending = 0
  PROVE  ListInv'
<1>1. ListTypes'
  BY DEF ListInv, ListTypes
<1>2. Connections'
  BY DEF ListInv, Connections, List!IsInjective, List!ToSet
<1>3. Idle'
  <2>1. at' = "returned" => DOMAIN sent = {}
    BY PartsFinite, FS_EmptySet DEF ListInv, Connections
  <2>2. QED
    BY <2>1 DEF Idle
<1>4. QED
  BY <1>1, <1>2, <1>3, TasksStay DEF ListInv

LEMMA ProcessInv ==
  ASSUME ListInv, List!Process
  PROVE  ListInv'
<1> DEFINE r == Roots[asked + 1]
<1>1. /\ at = "returned" /\ asked < Len(Roots) /\ asked' = asked + 1
      /\ queue' = Append(queue, r) /\ npending' = 0 /\ at' = "top"
      /\ UNCHANGED <<free, sent, responses, failures>>
  BY DEF List!Process
<1>2. queue = <<>> /\ DOMAIN sent = {}
  BY <1>1 DEF ListInv, Idle
<1>3. asked \in Nat /\ Len(Roots) \in Nat /\ asked + 1 \in DOMAIN Roots /\ r \in Directory
  BY <1>1, ListForest DEF ListInv, ListTypes
<1>4. ListTypes'
  BY <1>1, <1>3 DEF ListInv, ListTypes
<1>5. Connections'
  <2>1. npending = 0
    BY <1>2, FS_EmptySet DEF ListInv, Connections
  <2>2. QED
    BY <1>1, <2>1 DEF ListInv, Connections, List!IsInjective, List!ToSet
<1>6. Idle'
  BY <1>1 DEF Idle
<1>7. Once'
  <2>1. ASSUME NEW d \in Directory
        PROVE  Copies(d)' = IF List!Expected(d)' THEN 1 ELSE 0
    <3>1. Copies(d)' = Copies(d) + IF r = d THEN 1 ELSE 0
      <4>1. List!Times(Append(queue, r), d) = List!Times(queue, d) + IF r = d THEN 1 ELSE 0
        <5> HIDE DEF r
        <5>1. QED
          BY <1>3, TimesAppend DEF ListInv, ListTypes
      <4>2. /\ List!Times(queue', d) = List!Times(queue, d) + IF r = d THEN 1 ELSE 0
            /\ Sending(d)' = Sending(d)
        BY <1>1, <4>1 DEF Sending
      <4>3. Copies(d)' = List!Times(responses, d) + List!Times(failures, d)
                           + List!Times(queue', d) + Cardinality(Sending(d))
        BY <1>1, <4>2 DEF Copies, List!Times
      <4>4. QED
        BY <4>2, <4>3, PartsFinite DEF Copies, ListInv
    <3>2. List!Expected(d)' <=> List!Expected(d) \/ r = d
      <4>1. List!Expected(d)' <=> \/ \E i \in 1 .. asked + 1 : Roots[i] = d
                                  \/ \E e \in List!ToSet(responses) : d \in Tree[e]
        BY <1>1 DEF List!Expected, List!ToSet
      <4>2. \A i : i \in 1 .. asked + 1 <=> i \in 1 .. asked \/ i = asked + 1
        BY <1>3
      <4>3. QED
        BY <4>1, <4>2 DEF List!Expected
    <3>3. r = d => ~List!Expected(d)
      <4>1. ASSUME r = d, NEW i \in 1 .. asked, Roots[i] = d PROVE FALSE
        <5>1. i \in DOMAIN Roots /\ i # asked + 1
          BY <1>3, <1>1, ListForest
        <5>2. QED
          BY <1>3, <4>1, <5>1, ListForest
      <4>2. ASSUME r = d, NEW e \in List!ToSet(responses), d \in Tree[e] PROVE FALSE
        <5>1. e \in Directory
          BY DEF ListInv, ListTypes, List!ToSet
        <5>2. QED
          BY <1>3, <4>2, <5>1, ListForest
      <4>3. QED
        BY <4>1, <4>2 DEF List!Expected
    <3>4. QED
      BY <3>1, <3>2, <3>3 DEF ListInv, Once
  <2>2. QED
    BY <2>1 DEF Once
<1>8. QED
  BY <1>4, <1>5, <1>6, <1>7 DEF ListInv

LEMMA FillInv ==
  ASSUME ListInv, List!Fill
  PROVE  ListInv'
<1>1. at = "fill" /\ UNCHANGED <<asked, responses, failures>>
  BY DEF List!Fill
<1>2. CASE queue # <<>> /\ free # <<>>
  <2> DEFINE c == List!Last(free)
             t == Head(queue)
  <2>1. /\ free' = List!Front(free) /\ queue' = Tail(queue)
        /\ sent' = [h \in DOMAIN sent \cup {c} |->
                      IF h = c THEN [task |-> t, state |-> "sent"] ELSE sent[h]]
        /\ npending' = npending + 1 /\ at' = at
    BY <1>2 DEF List!Fill
  <2>2. /\ queue \in Seq(Directory) /\ free \in Seq(Handles) /\ List!IsInjective(free)
        /\ List!ToSet(free) = Handles \ DOMAIN sent
    BY <1>1 DEF ListInv, ListTypes, Connections
  <2>3. /\ Len(free) \in Nat \ {0} /\ c = free[Len(free)] /\ c \in Handles \ DOMAIN sent
        /\ t \in Directory /\ queue' \in Seq(Directory)
    BY <1>2, <2>1, <2>2 DEF List!ToSet, List!Last
  <2>4. /\ free' \in Seq(Handles) /\ Len(free') = Len(free) - 1
        /\ \A i \in 1 .. Len(free) - 1 : free'[i] = free[i]
    <3>1. free' = [i \in 1 .. Len(free) - 1 |-> free[i]]
      BY <2>1, <2>2, <2>3 DEF List!Front
    <3>2. \A i \in 1 .. Len(free) - 1 : free[i] \in Handles
      BY <2>2, <2>3
    <3> DEFINE n == Len(free) - 1
    <3>3. n \in Nat /\ free' \in [1 .. n -> Handles]
      BY <2>3, <3>1, <3>2
    <3>4. free' \in Seq(Handles) /\ Len(free') = n
      BY <3>3
    <3>5. QED
      BY <3>1, <3>4
  <2> HIDE DEF c, t
  <2>0. DOMAIN free = 1 .. Len(free) /\ DOMAIN free' = 1 .. Len(free) - 1
    BY <2>2, <2>4
  <2>5. DOMAIN sent' = DOMAIN sent \cup {c}
    BY <2>1
  <2>6. ListTypes'
    <3>1. sent' \in [DOMAIN sent' -> [task : Directory, state : {"sent", "ok", "err"}]]
      BY <2>1, <2>3 DEF ListInv, ListTypes
    <3>2. QED
      BY <1>1, <2>3, <2>4, <2>5, <3>1 DEF ListInv, ListTypes
  <2>7. Connections'
    <3>1. npending' = Cardinality(DOMAIN sent')
      BY <2>1, <2>3, <2>5, PartsFinite, FS_AddElement DEF ListInv, Connections
    <3>2. List!IsInjective(free)'
      <4>1. ASSUME NEW i \in DOMAIN free', NEW j \in DOMAIN free', free'[i] = free'[j]
            PROVE  i = j
        <5>1. /\ i \in DOMAIN free /\ j \in DOMAIN free
              /\ free'[i] = free[i] /\ free'[j] = free[j]
          BY <2>0, <2>3, <2>4
        <5>2. QED
          BY <2>2, <4>1, <5>1 DEF List!IsInjective
      <4>2. QED
        BY <4>1 DEF List!IsInjective
    <3>3. List!ToSet(free)' = Handles \ DOMAIN sent'
      <4>1. List!ToSet(free)' = List!ToSet(free) \ {c}
        <5>1. ASSUME NEW x \in List!ToSet(free)' PROVE x \in List!ToSet(free) /\ x # c
          <6>1. PICK i \in 1 .. Len(free) - 1 : x = free'[i]
            BY <2>0 DEF List!ToSet
          <6>a. x = free[i]
            BY <2>4, <6>1
          <6>b. i \in 1 .. Len(free) /\ Len(free) \in 1 .. Len(free) /\ i # Len(free)
            BY <2>3, <6>1, SMTT(30)
          <6>2. x = free[i] /\ i \in DOMAIN free /\ Len(free) \in DOMAIN free /\ i # Len(free)
            BY <2>0, <6>a, <6>b
          <6>3. QED
            BY <2>2, <2>3, <6>2 DEF List!ToSet, List!IsInjective
        <5>2. ASSUME NEW x \in List!ToSet(free), x # c PROVE x \in List!ToSet(free)'
          BY <2>0, <2>3, <2>4, <5>2 DEF List!ToSet
        <5>3. QED
          BY <5>1, <5>2
      <4>2. QED
        BY <2>2, <2>5, <4>1
    <3>4. Len(free)' + npending' = Len(free) + npending
      <4>1. npending \in Nat
        BY PartsFinite DEF ListInv, Connections
      <4>2. QED
        BY <2>1, <2>3, <2>4, <4>1
    <3>5. QED
      BY <1>1, <3>1, <3>2, <3>3, <3>4 DEF ListInv, Connections
  <2>8. Once'
    <3>1. ASSUME NEW d \in Directory
          PROVE  Copies(d)' = Copies(d) /\ List!Expected(d)' = List!Expected(d)
      <4>1. List!Times(queue, d) = List!Times(queue', d) + IF t = d THEN 1 ELSE 0
        BY <1>2, <2>1, <2>2, TimesTail DEF t
      <4>2. Sending(d)' = IF t = d THEN Sending(d) \cup {c} ELSE Sending(d)
        BY <2>1, <2>3, <2>5 DEF Sending
      <4>3. c \notin Sending(d)
        BY <2>3 DEF Sending
      <4>4. Cardinality(Sending(d)') = Cardinality(Sending(d)) + IF t = d THEN 1 ELSE 0
        <5>1. IsFiniteSet(Sending(d)) /\ Cardinality(Sending(d)) \in Nat
          BY PartsFinite DEF ListInv
        <5>2. Cardinality(Sending(d) \cup {c}) = Cardinality(Sending(d)) + 1
          BY <4>3, <5>1, FS_AddElement
        <5>3. QED
          BY <4>2, <5>1, <5>2
      <4>5. List!Times(queue', d) \in Nat
        BY <2>3, PlacesFinite
      <4>6. Copies(d)' = List!Times(responses, d) + List!Times(failures, d)
                           + List!Times(queue', d) + Cardinality(Sending(d)')
        BY <1>1 DEF Copies, List!Times
      <4>7. List!Expected(d)' = List!Expected(d)
        BY <1>1 DEF List!Expected, List!ToSet
      <4>8. QED
        BY <4>1, <4>4, <4>5, <4>6, <4>7, PartsFinite DEF ListInv, Copies
    <3>2. QED
      BY <3>1 DEF ListInv, Once
  <2>9. Idle'
    BY <1>1, <2>1 DEF Idle
  <2>10. QED
    BY <2>6, <2>7, <2>8, <2>9 DEF ListInv
<1>3. CASE ~(queue # <<>> /\ free # <<>>)
  <2>1. at' = "perform" /\ UNCHANGED <<queue, free, sent, npending>>
    BY <1>3 DEF List!Fill
  <2>2. QED
    BY <1>1, <2>1, QuietInv
<1>4. QED
  BY <1>2, <1>3

LEMMA PerformInv ==
  ASSUME ListInv, List!Perform
  PROVE  ListInv'
<1>1. /\ at = "perform" /\ at' = "collect"
      /\ UNCHANGED <<queue, free, npending, asked, responses, failures>>
  BY DEF List!Perform
<1>2. PICK done \in SUBSET List!InState("sent"), bad \in SUBSET List!InState("sent") :
        sent' = [h \in DOMAIN sent |->
                   IF h \in bad THEN [sent[h] EXCEPT !.state = "err"]
                   ELSE IF h \in done THEN [sent[h] EXCEPT !.state = "ok"] ELSE sent[h]]
  BY DEF List!Perform
<1>3. DOMAIN sent' = DOMAIN sent
  BY <1>2
<1>4. \A h \in DOMAIN sent : /\ sent'[h] \in [task : Directory, state : {"sent", "ok", "err"}]
                             /\ sent'[h].task = sent[h].task
  BY <1>2 DEF ListInv, ListTypes
<1>5. sent' \in [DOMAIN sent' -> [task : Directory, state : {"sent", "ok", "err"}]]
  BY <1>2, <1>3, <1>4
<1>6. ListTypes'
  BY <1>1, <1>3, <1>5 DEF ListInv, ListTypes
<1>7. Connections'
  BY <1>1, <1>3 DEF ListInv, Connections, List!IsInjective, List!ToSet
<1>8. Once'
  <2>1. ASSUME NEW d \in Directory PROVE Sending(d)' = Sending(d)
    BY <1>3, <1>4 DEF Sending
  <2>2. ASSUME NEW d \in Directory
        PROVE  Copies(d)' = Copies(d) /\ List!Expected(d)' = List!Expected(d)
    BY <1>1, <2>1 DEF Copies, List!Times, List!Expected, List!ToSet
  <2>3. QED
    BY <2>2 DEF ListInv, Once
<1>9. Idle'
  BY <1>1 DEF Idle
<1>10. QED
  BY <1>6, <1>7, <1>8, <1>9 DEF ListInv

(* A connection that is done with its task is free again.                  *)
LEMMA Released ==
  ASSUME ListInv, at = "collect", at' = at, NEW h \in DOMAIN sent,
         sent' = List!Without(h), free' = Append(free, h), npending' = npending - 1
  PROVE  /\ DOMAIN sent' \subseteq Handles
         /\ sent' \in [DOMAIN sent' -> [task : Directory, state : {"sent", "ok", "err"}]]
         /\ free' \in Seq(Handles) /\ Connections'
         /\ \A d : Cardinality(Sending(d)) =
                     Cardinality(Sending(d)') + IF sent[h].task = d THEN 1 ELSE 0
         /\ \A d : Cardinality(Sending(d)') \in Nat
<1>1. sent' = [g \in DOMAIN sent \ {h} |-> sent[g]]
  BY DEF List!Without
<1>2. DOMAIN sent' = DOMAIN sent \ {h} /\ \A g \in DOMAIN sent' : sent'[g] = sent[g]
  BY <1>1
<1>3. sent' \in [DOMAIN sent' -> [task : Directory, state : {"sent", "ok", "err"}]]
  BY <1>1, <1>2 DEF ListInv, ListTypes
<1>4. h \in Handles /\ free \in Seq(Handles)
  BY DEF ListInv, ListTypes
<1>5. /\ free' \in Seq(Handles) /\ Len(free') = Len(free) + 1 /\ Len(free) \in Nat
      /\ DOMAIN free = 1 .. Len(free) /\ DOMAIN free' = 1 .. Len(free) + 1
      /\ \A i \in 1 .. Len(free) : free'[i] = free[i]
      /\ free'[Len(free) + 1] = h
  BY <1>4
<1>6. h \notin List!ToSet(free)
  BY DEF ListInv, Connections
<1>7. Connections'
  <2>1. npending' = Cardinality(DOMAIN sent') /\ npending \in Nat /\ npending' \in Nat
    <3>1. IsFiniteSet(DOMAIN sent')
      BY <1>2, PartsFinite, FS_RemoveElement DEF ListInv
    <3>2. Cardinality(DOMAIN sent') = Cardinality(DOMAIN sent) - 1
      BY <1>2, PartsFinite, FS_RemoveElement DEF ListInv
    <3>3. QED
      BY <3>1, <3>2, PartsFinite, FS_CardinalityType DEF ListInv, Connections
  <2>2. List!IsInjective(free)'
    BY <1>5, <1>6 DEF ListInv, Connections, List!IsInjective, List!ToSet
  <2>3. List!ToSet(free)' = List!ToSet(free) \cup {h}
    <3>1. ASSUME NEW x \in List!ToSet(free)' PROVE x \in List!ToSet(free) \cup {h}
      BY <1>5 DEF List!ToSet
    <3>2. ASSUME NEW x \in List!ToSet(free) PROVE x \in List!ToSet(free)'
      BY <1>5 DEF List!ToSet
    <3>3. h \in List!ToSet(free)'
      BY <1>5 DEF List!ToSet
    <3>4. QED
      BY <3>1, <3>2, <3>3
  <2>4. List!ToSet(free)' = Handles \ DOMAIN sent'
    BY <1>2, <1>4, <2>3 DEF ListInv, Connections
  <2>5. Len(free)' + npending' = Len(free) + npending
    BY <1>5, <2>1
  <2>6. QED
    BY <2>1, <2>2, <2>4, <2>5 DEF ListInv, Connections
<1>8. ASSUME NEW d
      PROVE  /\ Cardinality(Sending(d)) =
                  Cardinality(Sending(d)') + IF sent[h].task = d THEN 1 ELSE 0
             /\ Cardinality(Sending(d)') \in Nat
  <2>1. Sending(d)' = IF sent[h].task = d THEN Sending(d) \ {h} ELSE Sending(d)
    BY <1>2 DEF Sending
  <2>2. sent[h].task = d => h \in Sending(d)
    BY DEF Sending
  <2>3. IsFiniteSet(Sending(d)) /\ Cardinality(Sending(d)) \in Nat
    BY PartsFinite DEF ListInv
  <2>4. IsFiniteSet(Sending(d) \ {h}) /\ Cardinality(Sending(d) \ {h}) \in Nat
        /\ (h \in Sending(d) => Cardinality(Sending(d) \ {h}) = Cardinality(Sending(d)) - 1)
    BY <2>3, FS_RemoveElement, FS_CardinalityType
  <2>5. QED
    BY <2>1, <2>2, <2>3, <2>4
<1>9. QED
  BY <1>2, <1>3, <1>5, <1>7, <1>8 DEF ListInv, ListTypes

LEMMA RespondInv ==
  ASSUME ListInv, List!Respond
  PROVE  ListInv'
<1>1. /\ at = "collect" /\ at' = at /\ UNCHANGED <<asked, failures>>
  BY DEF List!Respond
<1>2. PICK h \in List!InState("ok") :
        /\ sent' = List!Without(h)
        /\ queue' = queue \o List!SetToSeq(Tree[sent[h].task])
        /\ responses' = Append(responses, sent[h].task)
        /\ free' = Append(free, h)
        /\ npending' = npending - 1
  BY DEF List!Respond
<1> DEFINE t == sent[h].task
           more == List!SetToSeq(Tree[t])
<1>3. h \in DOMAIN sent /\ t \in Directory
  BY DEF List!InState, ListInv, ListTypes
<1>4. /\ DOMAIN sent' \subseteq Handles
      /\ sent' \in [DOMAIN sent' -> [task : Directory, state : {"sent", "ok", "err"}]]
      /\ free' \in Seq(Handles) /\ Connections'
      /\ \A d : Cardinality(Sending(d)) =
                  Cardinality(Sending(d)') + IF t = d THEN 1 ELSE 0
      /\ \A d : Cardinality(Sending(d)') \in Nat
  BY <1>1, <1>2, <1>3, Released
<1>5. /\ more \in Seq(Tree[t])
      /\ \A d : List!Times(more, d) = IF d \in Tree[t] THEN 1 ELSE 0
  BY <1>3, ListForest, EachOnce
<1>6. more \in Seq(Directory)
  BY <1>3, <1>5, ListForest
<1>7. /\ queue' = queue \o more /\ responses' = Append(responses, t)
      /\ queue \in Seq(Directory) /\ responses \in Seq(Directory)
  BY <1>2 DEF ListInv, ListTypes
<1> HIDE DEF t, more
<1>8. ListTypes'
  BY <1>1, <1>3, <1>4, <1>6, <1>7 DEF ListInv, ListTypes
<1>9. Idle'
  BY <1>1 DEF Idle
<1>10. Once'
  <2>1. ASSUME NEW d \in Directory
        PROVE  Copies(d)' = IF List!Expected(d)' THEN 1 ELSE 0
    <3>1. List!Times(queue', d) = List!Times(queue, d) + IF d \in Tree[t] THEN 1 ELSE 0
      BY <1>5, <1>6, <1>7, TimesBoth
    <3>2. List!Times(responses', d) = List!Times(responses, d) + IF t = d THEN 1 ELSE 0
      BY <1>3, <1>7, TimesAppend
    <3>3. Cardinality(Sending(d)) = Cardinality(Sending(d)') + IF t = d THEN 1 ELSE 0
      BY <1>4
    <3>4. Copies(d)' = List!Times(responses', d) + List!Times(failures, d)
                         + List!Times(queue', d) + Cardinality(Sending(d)')
      BY <1>1 DEF Copies, List!Times
    <3>5. /\ List!Times(responses, d) \in Nat /\ List!Times(failures, d) \in Nat
          /\ List!Times(queue, d) \in Nat /\ Cardinality(Sending(d)) \in Nat
          /\ Cardinality(Sending(d)') \in Nat
      BY <1>4, PartsFinite DEF ListInv
    <3>6. Copies(d)' = Copies(d) + IF d \in Tree[t] THEN 1 ELSE 0
      BY <3>1, <3>2, <3>3, <3>4, <3>5 DEF Copies
    <3>7. List!Expected(d)' <=> List!Expected(d) \/ d \in Tree[t]
      <4>1. List!ToSet(responses') = List!ToSet(responses) \cup {t}
        BY <1>3, <1>7, InAppend
      <4>2. List!Expected(d)' <=> \/ \E i \in 1 .. asked : Roots[i] = d
                                  \/ \E e \in List!ToSet(responses') : d \in Tree[e]
        BY <1>1 DEF List!Expected, List!ToSet
      <4>3. QED
        BY <4>1, <4>2 DEF List!Expected
    <3>8. d \in Tree[t] => ~List!Expected(d)
      <4>1. ASSUME d \in Tree[t], NEW i \in 1 .. asked, Roots[i] = d PROVE FALSE
        <5>1. i \in DOMAIN Roots
          BY ListForest DEF ListInv, ListTypes
        <5>2. QED
          BY <1>3, <4>1, <5>1, ListForest
      <4>2. ASSUME d \in Tree[t], NEW e \in List!ToSet(responses), d \in Tree[e] PROVE FALSE
        <5>1. e \in Directory
          BY <1>7 DEF List!ToSet
        <5>2. e = t
          BY <1>3, <4>2, <5>1, ListForest
        <5>3. List!Times(responses, t) \in Nat /\ List!Times(responses, t) # 0
          <6>1. Places(responses, t) # {}
            BY <4>2, <5>2 DEF List!ToSet, Places
          <6>2. QED
            BY <1>7, <6>1, PlacesFinite
        <5>4. /\ List!Times(failures, t) \in Nat /\ List!Times(queue, t) \in Nat
              /\ Cardinality(Sending(t)) \in Nat
          BY PartsFinite DEF ListInv
        <5>5. Cardinality(Sending(t)) # 0
          BY <1>4, <5>4
        <5>6. Copies(t) \in {0, 1}
          BY <1>3 DEF ListInv, Once
        <5>7. QED
          BY <5>3, <5>4, <5>5, <5>6 DEF Copies
      <4>3. QED
        BY <4>1, <4>2 DEF List!Expected
    <3>9. Copies(d) = IF List!Expected(d) THEN 1 ELSE 0
      BY DEF ListInv, Once
    <3>10. QED
      BY <3>6, <3>7, <3>8, <3>9
  <2>2. QED
    BY <2>1 DEF Once
<1>11. QED
  BY <1>4, <1>8, <1>9, <1>10 DEF ListInv

LEMMA ReportErrorInv ==
  ASSUME ListInv, List!ReportError
  PROVE  ListInv'
<1>1. /\ at = "collect" /\ at' = at /\ UNCHANGED <<queue, asked, responses>>
  BY DEF List!ReportError
<1>2. PICK h \in List!InState("err") :
        /\ sent' = List!Without(h)
        /\ failures' = Append(failures, sent[h].task)
        /\ free' = Append(free, h)
        /\ npending' = npending - 1
  BY DEF List!ReportError
<1> DEFINE t == sent[h].task
<1>3. h \in DOMAIN sent /\ t \in Directory
  BY DEF List!InState, ListInv, ListTypes
<1>4. /\ DOMAIN sent' \subseteq Handles
      /\ sent' \in [DOMAIN sent' -> [task : Directory, state : {"sent", "ok", "err"}]]
      /\ free' \in Seq(Handles) /\ Connections'
      /\ \A d : Cardinality(Sending(d)) =
                  Cardinality(Sending(d)') + IF t = d THEN 1 ELSE 0
      /\ \A d : Cardinality(Sending(d)') \in Nat
  BY <1>1, <1>2, <1>3, Released
<1>5. failures' = Append(failures, t) /\ failures \in Seq(Directory)
  BY <1>2 DEF ListInv, ListTypes
<1> HIDE DEF t
<1>6. ListTypes'
  BY <1>1, <1>3, <1>4, <1>5 DEF ListInv, ListTypes
<1>7. Idle'
  BY <1>1 DEF Idle
<1>8. Once'
  <2>1. ASSUME NEW d \in Directory
        PROVE  Copies(d)' = Copies(d) /\ List!Expected(d)' = List!Expected(d)
    <3>1. List!Times(failures', d) = List!Times(failures, d) + IF t = d THEN 1 ELSE 0
      BY <1>3, <1>5, TimesAppend
    <3>2. Cardinality(Sending(d)) = Cardinality(Sending(d)') + IF t = d THEN 1 ELSE 0
      BY <1>4
    <3>3. Copies(d)' = List!Times(responses, d) + List!Times(failures', d)
                         + List!Times(queue, d) + Cardinality(Sending(d)')
      BY <1>1 DEF Copies, List!Times
    <3>4. /\ List!Times(responses, d) \in Nat /\ List!Times(failures, d) \in Nat
          /\ List!Times(queue, d) \in Nat /\ Cardinality(Sending(d)) \in Nat
          /\ Cardinality(Sending(d)') \in Nat
      BY <1>4, PartsFinite DEF ListInv
    <3>5. Copies(d)' = Copies(d)
      BY <3>1, <3>2, <3>3, <3>4 DEF Copies
    <3>6. List!Expected(d)' = List!Expected(d)
      BY <1>1 DEF List!Expected, List!ToSet
    <3>7. QED
      BY <3>5, <3>6
  <2>2. QED
    BY <2>1 DEF ListInv, Once
<1>9. QED
  BY <1>4, <1>6, <1>7, <1>8 DEF ListInv

LEMMA ListStepInv ==
  ASSUME ListInv, [List!Next]_listVars
  PROVE  ListInv'
<1>1. CASE List!Start
  BY <1>1, StartInv
<1>2. CASE List!Process
  BY <1>2, ProcessInv
<1>3. CASE List!Top
  <2>1. /\ at = "top" /\ at' = IF List!Unfinished THEN "fill" ELSE "returned"
        /\ UNCHANGED <<queue, free, sent, npending, asked, responses, failures>>
    BY <1>3 DEF List!Top, List!transfers
  <2>2. npending \in Nat
    BY PartsFinite DEF ListInv, Connections
  <2>3. ~List!Unfinished => queue = <<>> /\ npending = 0
    BY <2>2 DEF List!Unfinished
  <2>4. QED
    BY <2>1, <2>3, QuietInv
<1>4. CASE List!Fill
  BY <1>4, FillInv
<1>5. CASE List!Respond
  BY <1>5, RespondInv
<1>6. CASE List!ReportError
  BY <1>6, ReportErrorInv
<1>7. CASE List!Select
  <2>1. /\ at = "collect" /\ at' = "top"
        /\ UNCHANGED <<queue, free, sent, npending, asked, responses, failures>>
    BY <1>7 DEF List!Select, List!transfers
  <2>2. QED
    BY <2>1, QuietInv
<1>8. CASE List!Perform
  BY <1>8, PerformInv
<1>9. CASE UNCHANGED listVars
  <2>1. UNCHANGED <<queue, free, sent, npending, at, asked, responses, failures>>
    BY <1>9 DEF listVars
  <2>2. ListTypes' /\ Connections' /\ Idle'
    BY <2>1 DEF ListInv, ListTypes, Connections, Idle, List!IsInjective, List!ToSet
  <2>3. QED
    BY <2>1, <2>2, TasksStay DEF ListInv
<1>10. QED
  BY <1>1, <1>2, <1>3, <1>4, <1>5, <1>6, <1>7, <1>8, <1>9 DEF List!Next, List!Pump

LEMMA ListInvComplete == ListInv => ListingComplete
<1> SUFFICES ASSUME ListInv, at = "returned"
             PROVE  /\ \A d \in DOMAIN Tree : List!Times(responses, d) + List!Times(failures, d) =
                                                IF List!Expected(d) THEN 1 ELSE 0
                    /\ queue = <<>> /\ DOMAIN sent = {}
                    /\ List!ToSet(free) = Handles /\ Len(free) = List!Cardinality(Handles)
  BY DEF ListingComplete, List!ListingComplete
<1>1. queue = <<>> /\ DOMAIN sent = {}
  BY DEF ListInv, Idle
<1>2. npending = 0
  BY <1>1, FS_EmptySet DEF ListInv, Connections
<1>3. List!ToSet(free) = Handles /\ Len(free) = List!Cardinality(Handles)
  BY <1>1, <1>2, SameNotions DEF ListInv, ListTypes, Connections
<1>4. ASSUME NEW d \in DOMAIN Tree
      PROVE  List!Times(responses, d) + List!Times(failures, d) =
               IF List!Expected(d) THEN 1 ELSE 0
  <2>1. Sending(d) = {}
    BY <1>1 DEF Sending
  <2>2. Cardinality(Sending(d)) = 0 /\ List!Times(queue, d) = 0
    BY <1>1, <2>1, FS_EmptySet, TimesEmpty
  <2>3. Copies(d) = IF List!Expected(d) THEN 1 ELSE 0
    BY DEF ListInv, Once, Directory
  <2>4. QED
    BY <2>2, <2>3, PartsFinite DEF Copies, ListInv
<1>5. QED
  BY <1>1, <1>3, <1>4

(* A listing shows every directory once, whatever requests fail and in     *)
(* whatever order they end (Core/HTTP.py, lines 126-163).                  *)
THEOREM ListingTrue == ClientsSpec => []ListingComplete
<1>1. ClientsInit => ListInv
  BY ListInitInv DEF ClientsInit
<1>2. ListInv /\ [ClientsNext]_allVars => ListInv'
  <2>1. [ClientsNext]_allVars => [List!Next]_listVars
    BY DEF ClientsNext, allVars
  <2>2. QED
    BY <2>1, ListStepInv
<1>3. QED
  BY <1>1, <1>2, ListInvComplete, PTL DEF ClientsSpec

================================================================================
