------------------------------ MODULE Uploads ------------------------------
(***************************************************************************)
(* What clients send to the server to keep: data files (DQMFileAccess.put, *)
(* which files each of them under the first free version), event display   *)
(* snapshots (EVDSnapshotUpload.store, which refuses a name that is        *)
(* taken) and layouts (DQMLayoutAccess.put).  Each handler has a lock of   *)
(* its own; it works in a temporary file, moves that in place and leaves a *)
(* marker beside it: .origin or .info.  The receive daemon, another        *)
(* process, takes data files with their markers from the upload directory. *)
(*                                                                         *)
(* Python threads of this server change only where one blocks, so what a   *)
(* handler does between two system calls is one step.                      *)
(***************************************************************************)
EXTENDS Naturals, FiniteSets

CONSTANTS
  Threads,      \* HTTP threads
  Requests,     \* the requests that are made
  MaxPuts,      \* bound: requests
  MaxFaults,    \* bound: failing system calls and kills of the server
  Nobody,         \* the owner of a lock nobody holds
  None,         \* no file, no marker, no request
  Empty         \* a file opened for writing

Handlers == {"data", "snapshot", "layout"}
Ids == 1 .. MaxPuts
Slots == 1 .. MaxPuts  \* the versions of one file name: each put takes one at most

VARIABLES
  file,      \* by handler and slot: whose data is under the final name, or None
  mark,      \* by handler and slot: whose .origin or .info, Empty, or None
  temps,     \* uploads with a temporary file
  lock,      \* by handler: the thread that holds its lock
  put,       \* by thread: the request it serves
  answer,    \* by upload: the status sent to the client
  asked,     \* by upload: its request
  puts,      \* requests so far
  daemon,    \* the receive daemon: its step, the files it found, the one it is at
  received,  \* <<data, info>> of the files in the repository
  faults     \* failing calls and kills so far

vars == <<file, mark, temps, lock, put, answer, asked, puts, daemon, received, faults>>

disk == <<file, mark, temps>>
reception == <<daemon, received>>

(* A request: the handler, what its arguments are worth, and its body.     *)
(* The body of a data file is "foreign" without the five bytes of a ROOT   *)
(* file, and "short" when its size is not the one announced.               *)
RequestType == [handler : Handlers,
                args : {"fine", "frontEnd", "stranger", "noFile", "noSize", "badName",
                        "badCode", "bothNames"},
                body : {"whole", "short", "foreign"}]

(* Requests to take for a small instance: data files, good ones and some   *)
(* that are refused after the upload.                                      *)
DataFiles == [handler : {"data"}, args : {"fine"}, body : {"whole", "foreign"}]

(* The parameters are what their names say.                                *)
Parameters ==
  /\ MaxPuts \in Nat
  /\ Requests \subseteq RequestType
  /\ Nobody \notin Threads
  /\ None \notin Ids /\ Empty \notin Ids

OK == 100
BadRequest == 200
ErrorParameter == 300
ErrorExists == 301
FailExecute == 400
Unauthorized == 401
Broken == 500
Killed == 1  \* the client lost its connection
Pending == 0

(* _check: a parameter that is missing or repeated, and one that does not  *)
(* match its pattern.  Of the two errors DQMUpload has for a missing one   *)
(* only the first, the status of an object that exists, is ever sent.      *)
CheckData(r) == IF r.args = "noSize" THEN ErrorExists
                ELSE IF r.args = "badName" THEN BadRequest ELSE OK
CheckSnapshot(r) == IF r.args \in {"noSize", "badName"} THEN BadRequest ELSE OK

(* A request with the headers of an authenticating front end: the handler  *)
(* sorts a view of the header names, which has no sort, and the exception  *)
(* leaves the handler.                                                     *)
Authentication(r) == IF r.args = "frontEnd" THEN Broken ELSE OK

(* The naming convention of data files.                                    *)
Convention(r) == IF r.args \in {"badCode", "bothNames"} THEN ErrorParameter ELSE OK

NoFile(r) == IF r.args = "noFile" THEN BadRequest ELSE OK
Allowed(r) == IF r.args = "stranger" THEN Unauthorized ELSE OK

(* The checks of a handler in their order: the status of the first that    *)
(* fails, or OK.                                                           *)
Checks(r) ==
  CASE r.handler = "data" ->
         <<Authentication(r), NoFile(r), CheckData(r), Convention(r)>>
    [] r.handler = "snapshot" -> <<NoFile(r), CheckSnapshot(r)>>
    [] r.handler = "layout" -> <<Allowed(r), NoFile(r)>>

Verdict(r) ==
  LET failed == {i \in DOMAIN Checks(r) : Checks(r)[i] # OK} IN
  IF failed = {} THEN OK
  ELSE Checks(r)[CHOOSE i \in failed : \A j \in failed : i <= j]

Idle == [at |-> "idle", id |-> 0, slot |-> 1, code |-> OK]

Steps == {"idle", "seek", "seekMark", "lock", "temp", "write", "verify", "move",
          "mark", "describe", "unlock", "truncate", "fail", "seeFile", "rmFile",
          "seeMark", "rmMark", "seeTemp", "rmTemp"}

Rest == [at |-> "scan", slot |-> 1, sum |-> 0, found |-> {}]

TypeOK ==
  /\ file \in [Handlers -> [Slots -> Ids \cup {None, Empty}]]
  /\ mark \in [Handlers -> [Slots -> Ids \cup {None, Empty}]]
  /\ temps \subseteq Ids
  /\ lock \in [Handlers -> Threads \cup {Nobody}]
  /\ put \in [Threads -> [at : Steps, id : Ids \cup {0}, slot : Slots,
                      code : {OK, ErrorParameter, FailExecute}]]
  /\ answer \in [Ids -> Nat]
  /\ asked \in [Ids -> Requests \cup {None}]
  /\ puts \in 0 .. MaxPuts /\ faults \in 0 .. MaxFaults

Init ==
  /\ file = [h \in Handlers |-> [v \in Slots |-> None]]
  /\ mark = [h \in Handlers |-> [v \in Slots |-> None]]
  /\ temps = {}
  /\ lock = [h \in Handlers |-> Nobody]
  /\ put = [t \in Threads |-> Idle]
  /\ answer = [i \in Ids |-> Pending]
  /\ asked = [i \in Ids |-> None]
  /\ puts = 0
  /\ daemon = Rest
  /\ received = {}
  /\ faults = 0

Handler(t) == asked[put[t].id].handler
At(t, step) == put[t].at = step
Goto(t, step) == put' = [put EXCEPT ![t].at = step]
Finish(t, status) ==
  /\ put' = [put EXCEPT ![t] = Idle]
  /\ answer' = [answer EXCEPT ![put[t].id] = status]
File(t) == file[Handler(t)][put[t].slot]
Mark(t) == mark[Handler(t)][put[t].slot]
PutFile(t, x) == file' = [file EXCEPT ![Handler(t)][put[t].slot] = x]
PutMark(t, x) == mark' = [mark EXCEPT ![Handler(t)][put[t].slot] = x]
RestOfPut == <<lock, answer, asked, puts, reception, faults>>

--------------------------------------------------------------------------------
(* A request arrives and its arguments are checked.  Only the snapshot     *)
(* store looks for the name before it takes the lock.  Bound: the requests *)
(* of a behaviour are for one handler, as handlers share nothing.          *)
Begin(t, r) ==
  /\ At(t, "idle") /\ puts < MaxPuts
  /\ puts > 0 => r.handler = asked[1].handler
  /\ puts' = puts + 1
  /\ asked' = [asked EXCEPT ![puts + 1] = r]
  /\ IF Verdict(r) = OK
     THEN /\ put' = [put EXCEPT ![t] = [at |-> IF r.handler = "snapshot" THEN "seek"
                                               ELSE "lock",
                                        id |-> puts + 1, slot |-> 1, code |-> OK]]
          /\ UNCHANGED answer
     ELSE /\ answer' = [answer EXCEPT ![puts + 1] = Verdict(r)]
          /\ UNCHANGED put
  /\ UNCHANGED <<disk, lock, reception, faults>>

(* Slip: the lock is not there, or one for each request.                   *)
LockNothing(t) ==
  /\ At(t, "lock")
  /\ lock' = [lock EXCEPT ![Handler(t)] = t]
  /\ Goto(t, CASE Handler(t) = "data" -> "seek"
               [] Handler(t) = "snapshot" -> "temp"
               [] Handler(t) = "layout" -> "truncate")
  /\ UNCHANGED <<disk, answer, asked, puts, reception, faults>>

(* Waiting for the lock ends when its owner gives it back.                 *)
Lock(t) ==
  /\ At(t, "lock") /\ lock[Handler(t)] = Nobody
  /\ lock' = [lock EXCEPT ![Handler(t)] = t]
  /\ Goto(t, CASE Handler(t) = "data" -> "seek"
               [] Handler(t) = "snapshot" -> "temp"
               [] Handler(t) = "layout" -> "truncate")
  /\ UNCHANGED <<disk, answer, asked, puts, reception, faults>>

(* os.path.exists(fname) in the search for a version.                      *)
SeekFile(t) ==
  /\ At(t, "seek") /\ Handler(t) = "data"
  /\ IF File(t) = None THEN Goto(t, "seekMark")
     ELSE put' = [put EXCEPT ![t].slot = @ + 1]
  /\ UNCHANGED <<disk, RestOfPut>>

(* Slip: the version is free when no file has it.                          *)
SeekMarkNot(t) ==
  /\ At(t, "seekMark") /\ Handler(t) = "data"
  /\ Goto(t, "temp")
  /\ UNCHANGED <<disk, RestOfPut>>

(* os.path.exists(fname + ".origin"): a version is free when both names    *)
(* are.                                                                    *)
SeekMark(t) ==
  /\ At(t, "seekMark") /\ Handler(t) = "data"
  /\ IF Mark(t) = None THEN Goto(t, "temp")
     ELSE put' = [put EXCEPT ![t].at = "seek", ![t].slot = @ + 1]
  /\ UNCHANGED <<disk, RestOfPut>>

(* A snapshot is refused when its file or its .info is there.  Nothing     *)
(* keeps them from appearing before the lock is taken.                     *)
RefuseTaken(t) ==
  /\ put[t].at \in {"seek", "seekMark"} /\ Handler(t) = "snapshot"
  /\ IF IF At(t, "seek") THEN File(t) # None ELSE Mark(t) # None
     THEN Finish(t, ErrorExists)
     ELSE Goto(t, IF At(t, "seek") THEN "seekMark" ELSE "lock") /\ UNCHANGED answer
  /\ UNCHANGED <<disk, lock, asked, puts, reception, faults>>

MakeTemp(t) ==
  /\ At(t, "temp")
  /\ temps' = temps \cup {put[t].id}
  /\ Goto(t, "write")
  /\ UNCHANGED <<file, mark, RestOfPut>>

Write(t) ==
  /\ At(t, "write")
  /\ Goto(t, "verify")
  /\ UNCHANGED <<disk, RestOfPut>>

(* Slip: moved in place first, verified after.                             *)
VerifyNothing(t) ==
  /\ At(t, "verify")
  /\ Goto(t, "move")
  /\ UNCHANGED <<disk, RestOfPut>>

GiveUp(t, status) == put' = [put EXCEPT ![t].at = "fail", ![t].code = status]

(* What the handlers make of a body: its first five bytes and its size for *)
(* a data file, its size for a snapshot.                                   *)
DataBody(b) == CASE b = "foreign" -> ErrorParameter
                 [] b = "short" -> FailExecute
                 [] b = "whole" -> OK
SnapshotBody(b) == IF b = "short" THEN FailExecute ELSE OK

Verify(t) ==
  LET b == asked[put[t].id].body
      code == IF Handler(t) = "data" THEN DataBody(b) ELSE SnapshotBody(b)
  IN
  /\ At(t, "verify")
  /\ IF code = OK THEN Goto(t, "move") ELSE GiveUp(t, code)
  /\ UNCHANGED <<disk, RestOfPut>>

(* shutil.move within a directory renames, over whatever is there.         *)
Move(t) ==
  /\ At(t, "move")
  /\ temps' = temps \ {put[t].id}
  /\ PutFile(t, put[t].id)
  /\ Goto(t, "mark")
  /\ UNCHANGED <<mark, RestOfPut>>

(* open(..., "w") of the marker.                                           *)
OpenMark(t) ==
  /\ At(t, "mark")
  /\ PutMark(t, Empty)
  /\ Goto(t, "describe")
  /\ UNCHANGED <<file, temps, RestOfPut>>

Describe(t) ==
  /\ At(t, "describe")
  /\ PutMark(t, put[t].id)
  /\ Goto(t, "unlock")
  /\ UNCHANGED <<file, temps, RestOfPut>>

(* Slip: the handler answers and keeps its lock.                           *)
SucceedLocked(t) ==
  /\ At(t, "unlock")
  /\ UNCHANGED lock
  /\ Finish(t, OK)
  /\ UNCHANGED <<disk, asked, puts, reception, faults>>

Succeed(t) ==
  /\ At(t, "unlock")
  /\ lock' = [lock EXCEPT ![Handler(t)] = Nobody]
  /\ Finish(t, OK)
  /\ UNCHANGED <<disk, asked, puts, reception, faults>>

(* The layout handler opens the only name it has with "w", reads the body  *)
(* to its end without keeping any, and raises when it adds bytes to a      *)
(* string.                                                                 *)
Truncate(t) ==
  /\ At(t, "truncate")
  /\ PutFile(t, Empty)
  /\ GiveUp(t, FailExecute)
  /\ UNCHANGED <<mark, temps, RestOfPut>>

--------------------------------------------------------------------------------
(* A system call of the try block raises.                                  *)
Raise(t) ==
  /\ put[t].at \in {"temp", "write", "move", "mark", "describe", "truncate"}
  /\ faults < MaxFaults
  /\ faults' = faults + 1
  /\ GiveUp(t, FailExecute)
  /\ UNCHANGED <<disk, lock, answer, asked, puts, reception>>

(* The except clause gives the lock back before it cleans up.              *)
Fail(t) ==
  /\ At(t, "fail")
  /\ lock' = [lock EXCEPT ![Handler(t)] = Nobody]
  /\ Goto(t, "seeFile")
  /\ UNCHANGED <<disk, answer, asked, puts, reception, faults>>

SeeFile(t) ==
  /\ At(t, "seeFile")
  /\ Goto(t, CASE File(t) # None -> "rmFile"
               [] File(t) = None /\ Handler(t) = "layout" -> "seeTemp"
               [] OTHER -> "seeMark")
  /\ UNCHANGED <<disk, RestOfPut>>

(* os.remove of a file that has gone raises: the rest is not done.         *)
RemoveFile(t) ==
  /\ At(t, "rmFile")
  /\ IF File(t) = None
     THEN Finish(t, FailExecute)
     ELSE Goto(t, IF Handler(t) = "layout" THEN "seeTemp" ELSE "seeMark") /\ UNCHANGED answer
  /\ PutFile(t, None)
  /\ UNCHANGED <<mark, temps, lock, asked, puts, reception, faults>>

SeeMark(t) ==
  /\ At(t, "seeMark")
  /\ Goto(t, IF Mark(t) = None THEN "seeTemp" ELSE "rmMark")
  /\ UNCHANGED <<disk, RestOfPut>>

RemoveMark(t) ==
  /\ At(t, "rmMark")
  /\ IF Mark(t) = None THEN Finish(t, FailExecute)
                       ELSE Goto(t, "seeTemp") /\ UNCHANGED answer
  /\ PutMark(t, None)
  /\ UNCHANGED <<file, temps, lock, asked, puts, reception, faults>>

(* Nobody else touches a temporary file.                                   *)
RemoveTemp(t) ==
  /\ At(t, "seeTemp")
  /\ temps' = temps \ {put[t].id}
  /\ Finish(t, put[t].code)
  /\ UNCHANGED <<file, mark, lock, asked, puts, reception, faults>>

(* The server dies and starts again: no handler cleans up.                 *)
Kill ==
  /\ faults < MaxFaults
  /\ \E t \in Threads : ~At(t, "idle")
  /\ faults' = faults + 1
  /\ answer' = [i \in Ids |-> IF \E t \in Threads : put[t].id = i THEN Killed ELSE answer[i]]
  /\ put' = [t \in Threads |-> Idle]
  /\ lock' = [h \in Handlers |-> Nobody]
  /\ UNCHANGED <<disk, asked, puts, reception>>

--------------------------------------------------------------------------------
(* The receive daemon collects the data files that have a complete .origin *)
(* and the announced size; in a second pass it verifies each and moves it  *)
(* to the repository.  An exception ends the round.                        *)
Data(v) == file["data"][v]
Origin(v) == mark["data"][v]
Server == <<temps, lock, put, answer, asked, puts, faults>>

Spoil(v) == mark' = [mark EXCEPT !["data"][v] = None]

(* What .origin says of one file the walk met.                             *)
Notice(v) ==
  /\ daemon.at = "scan" /\ Origin(v) \in Ids
  /\ \A f \in daemon.found : f[1] # v
  /\ daemon' = [daemon EXCEPT !.at = "look", !.slot = v, !.sum = Origin(v)]
  /\ UNCHANGED <<disk, received, Server>>

(* verifyDQMFile: with no file there, or one of another size, .origin is   *)
(* renamed to .bad.                                                        *)
LookAt ==
  LET v == daemon.slot IN
  /\ daemon.at = "look"
  /\ \/ /\ Data(v) # None
        /\ daemon' = [daemon EXCEPT !.at = "scan", !.found = @ \cup {<<v, daemon.sum>>}]
        /\ UNCHANGED mark
     \/ /\ Data(v) # daemon.sum
        /\ daemon' = [daemon EXCEPT !.at = "scan"]
        /\ Spoil(v)
  /\ UNCHANGED <<file, received, Server>>

(* The found files in the order of their versions.                         *)
First(f) == f \in daemon.found /\ \A g \in daemon.found : f[1] <= g[1]

(* Checksum, header and what ROOT makes of the contents.                   *)
Examine ==
  \E f \in daemon.found :
    /\ daemon.at = "scan" /\ First(f)
    /\ CASE Data(f[1]) = f[2] ->
              /\ daemon' = [at |-> "take", slot |-> f[1], sum |-> f[2],
                            found |-> daemon.found \ {f}]
              /\ UNCHANGED mark
         [] Data(f[1]) = None -> daemon' = Rest /\ UNCHANGED mark
         [] OTHER -> /\ daemon' = [daemon EXCEPT !.found = @ \ {f}]
                     /\ Spoil(f[1])
    /\ UNCHANGED <<file, received, Server>>

(* os.rename of the file into the repository, beside its description.      *)
TakeFile ==
  LET v == daemon.slot IN
  /\ daemon.at = "take"
  /\ IF Data(v) = None
     THEN daemon' = Rest /\ UNCHANGED <<file, received>>
     ELSE /\ received' = received \cup {<<Data(v), daemon.sum>>}
          /\ file' = [file EXCEPT !["data"][v] = None]
          /\ daemon' = [daemon EXCEPT !.at = "forget"]
  /\ UNCHANGED <<mark, Server>>

(* os.remove of .origin.                                                   *)
ForgetOrigin ==
  /\ daemon.at = "forget"
  /\ IF Origin(daemon.slot) = None THEN daemon' = Rest
                                   ELSE daemon' = [daemon EXCEPT !.at = "scan"]
  /\ Spoil(daemon.slot)
  /\ UNCHANGED <<file, received, Server>>

--------------------------------------------------------------------------------
Answering(t) ==
  \/ Lock(t) \/ SeekFile(t) \/ SeekMark(t) \/ RefuseTaken(t) \/ MakeTemp(t)
  \/ Write(t) \/ Verify(t) \/ Move(t) \/ OpenMark(t) \/ Describe(t) \/ Succeed(t) \/ Truncate(t) \/ Fail(t)
  \/ SeeFile(t) \/ RemoveFile(t) \/ SeeMark(t) \/ RemoveMark(t) \/ RemoveTemp(t)

Receiving ==
  \/ \E v \in Slots : Notice(v)
  \/ LookAt \/ Examine \/ TakeFile \/ ForgetOrigin

Step ==
  \/ \E t \in Threads : \/ \E r \in Requests : Begin(t, r)
                         \/ Answering(t)
                         \/ Raise(t)
  \/ Kill
  \/ Receiving

Spec == Init /\ [][Step]_vars

(* A thread at a system call returns from it, and the daemon's process     *)
(* runs.  Requests, faults and kills need not happen.                      *)
FairSpec == Spec /\ \A t \in Threads : WF_vars(Answering(t))

--------------------------------------------------------------------------------
(* What is under a final name is the whole body of one upload, and a ROOT  *)
(* file where one is promised, whenever a reader or a crash looks at it:   *)
(* the handlers write to a temporary file, verify it, then rename it.      *)
OnlyWholeFiles ==
  \A h \in {"data", "snapshot"}, v \in Slots :
    file[h][v] \in Ids =>
      /\ asked[file[h][v]].body # "short"
      /\ h = "data" => asked[file[h][v]].body # "foreign"

(* The .origin of a data file never describes the data of another upload,  *)
(* although failed uploads clean up the names of a version after they gave *)
(* the lock back, and the daemon takes file and .origin one by one: the    *)
(* search for a version looks at both names.                               *)
OwnOrigin ==
  \A v \in Slots : Origin(v) \in Ids => Data(v) \in {None, Origin(v)}

(* "multiple concurrent uploads can't yield the same version number" (the  *)
(* comment on the search): no data file is ever renamed over another.      *)
NeverOverwritten ==
  [][\A v \in Slots : Data(v) # None => Data(v)' \in {Data(v), None}]_vars

(* A client told "Requested operation succeeded" finds its data on the     *)
(* server, under its name or in the repository.                            *)
AcknowledgedKept ==
  \A i \in Ids : answer[i] = OK =>
    \/ \E h \in Handlers, v \in Slots : file[h][v] = i
    \/ \E p \in received : p[1] = i
================================================================================
