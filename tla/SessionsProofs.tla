---------------------------- MODULE SessionsProofs ----------------------------
(***************************************************************************)
(* What the two kinds of locks and the session thread give for any number  *)
(* of threads, sessions, requests and failures.                            *)
(*                                                                         *)
(* A session may have several objects in the life of a server: it leaves   *)
(* the memory and is loaded again.  The invariant says which of them the   *)
(* threads may hold, and where the last saved state of a session is.       *)
(***************************************************************************)
EXTENDS Sessions, FiniteSetTheorems, TLAPS

Starting == {"purge", "mkstemp", "create", "put"}
Working == {"work", "save", "page", "stat", "release"}

Unsaved(n) == save[n].dirty \/ saver.batch[n].dirty

(* What a thread knows of its object, step by step.                        *)
Places ==
  \A t \in Threads :
    /\ thread[t].obj <= made
    /\ thread[t].obj # 0 => heap[thread[t].obj].name = thread[t].name
    /\ thread[t].at \in {"put", "wait", "work", "save", "release"} =>
         thread[t].obj # 0
    /\ thread[t].at \in {"idle", "purge", "mkstemp", "create", "load"} =>
         thread[t].obj = 0
    /\ thread[t].kind = "stranger" => thread[t].obj = 0

(* The lock of an object is that of the thread inside it, and the object   *)
(* is the one the others find, or one that is locked for good.             *)
Locked ==
  \A t \in Threads :
    thread[t].obj # 0 /\ thread[t].at \in Working =>
      heap[thread[t].obj].lock = t

Owned ==
  \A o \in Objects, t \in Threads : heap[o].lock = t =>
    thread[t].obj = o /\ thread[t].at \in Working

Current ==
  \A t \in Threads :
    thread[t].obj # 0 /\ thread[t].at # "put" =>
      \/ thread[t].at = "wait" /\ heap[thread[t].obj].lock = Gone
      \/ /\ sessions[thread[t].name] = thread[t].obj
         /\ ~heap[thread[t].obj].old

(* A thread at a file has the server to itself.                            *)
ServerLocked ==
  \A t \in Threads :
    /\ thread[t].at \in {"load", "stat"} => lock = t
    /\ thread[t].at = "load" => sessions[thread[t].name] = 0

(* A session that has to be written is in memory and does not leave it.    *)
InMemory ==
  \A n \in Names :
    /\ sessions[n] <= made
    /\ sessions[n] # 0 => heap[sessions[n]].name = n
    /\ Unsaved(n) => sessions[n] # 0 /\ ~heap[sessions[n]].old

(* The name of a new session is its thread's alone.                        *)
NewNames ==
  \A t \in Threads : thread[t].at \in Starting =>
    /\ thread[t].kind = "start"
    /\ sessions[thread[t].name] = 0
    /\ disk[thread[t].name].state # "full"
    /\ \A u \in Threads \ {t} :
         thread[u].at \in Starting => thread[u].name # thread[t].name

(* A round of the session thread; the last one begins when no request is   *)
(* left.                                                                   *)
Rounds ==
  /\ saver.at \in {"grab", "ended"} => \A n \in Names : ~saver.batch[n].dirty
  /\ saver.at = "grab" => ~saver.last
  /\ saver.at = "ended" => saver.last
  /\ saver.at \in {"remove", "rename"} => saver.batch[saver.now].dirty
  /\ saver.last => stopme /\ \A n \in Names : save[n].dirty => save[n].data \subseteq lost[n]
  /\ stopme => \A t \in Threads : thread[t].at = "idle"

(* The state of a session that was saved last.                             *)
Saved(n) ==
  IF save[n].dirty THEN save[n].data
  ELSE IF saver.batch[n].dirty THEN saver.batch[n].data
  ELSE disk[n].data

(* Every change a client was told of was saved, and is in the session in   *)
(* memory; so is one that a client is about to be told of.                 *)
EmptyFiles == \A n \in Names : disk[n].state # "full" => disk[n].data = {}

Acknowledged ==
  \A n \in Names :
    /\ acked[n] \ lost[n] \subseteq Saved(n)
    /\ sessions[n] # 0 => acked[n] \ lost[n] \subseteq heap[sessions[n]].data

Answering ==
  \A t \in Threads : thread[t].update # 0 =>
    /\ thread[t].at \in {"save", "release"}
    /\ thread[t].update \in heap[thread[t].obj].data
    /\ thread[t].at = "release" =>
         thread[t].update \in Saved(thread[t].name) \cup lost[thread[t].name]

Told == EmptyFiles /\ Acknowledged /\ Answering
Locks ==
  Places /\ Locked /\ Owned /\ Current /\ ServerLocked /\ InMemory /\ NewNames
IInv == TypeOK /\ Locks /\ Rounds /\ Told

Request ==
  [at : Steps, kind : Kinds, name : Names, obj : 0 .. MaxObjects,
   update : 0 .. MaxUpdates]

LEMMA StepType ==
  ASSUME TypeOK, NEW t \in Threads, NEW s \in Steps, Goto(t, s)
  PROVE  thread' \in [Threads -> Request]
  BY DEF TypeOK, Goto, Request

LEMMA RestType == TypeOK => Resting \in Request
  BY SessionsAssumption DEF TypeOK, Resting, Request, Steps, Kinds

LEMMA ObjectType ==
  ASSUME IInv, NEW t \in Threads, thread[t].obj # 0
  PROVE  /\ thread[t].obj \in Objects
         /\ heap[thread[t].obj] \in Session
         /\ heap[thread[t].obj].name = thread[t].name
  BY SessionsAssumption DEF IInv, TypeOK, Objects, Locks, Places

LEMMA LockType ==
  ASSUME IInv, NEW t \in Threads, NEW h \in Holders, thread[t].obj # 0,
         \/ heap' = [heap EXCEPT ![thread[t].obj].lock = h]
         \/ heap' = [heap EXCEPT ![thread[t].obj].lock = h,
                                 ![thread[t].obj].old = FALSE]
  PROVE  heap' \in [Objects -> Session]
<1> DEFINE o == thread[t].obj
<1>1. o \in Objects /\ heap[o] \in Session /\ heap \in [Objects -> Session]
  BY ObjectType DEF IInv, TypeOK
<1>2. /\ [heap[o] EXCEPT !.lock = h] \in Session
      /\ [heap[o] EXCEPT !.lock = h, !.old = FALSE] \in Session
  BY <1>1 DEF Session
<1> HIDE DEF o
<1>3. CASE heap' = [heap EXCEPT ![o].lock = h]
  BY <1>1, <1>2, <1>3
<1>4. CASE heap' = [heap EXCEPT ![o].lock = h, ![o].old = FALSE]
  BY <1>1, <1>2, <1>4
<1>5. QED
  BY <1>3, <1>4 DEF o


LEMMA Indices ==
  ASSUME IInv
  PROVE  /\ made \in Nat
         /\ \A n \in Names :
              sessions[n] \in Nat /\ (sessions[n] # 0 => sessions[n] \in Objects)
         /\ \A t \in Threads :
              /\ thread[t].name \in Names /\ thread[t].obj \in Nat
              /\ thread[t].obj # 0 => thread[t].obj \in Objects
  BY SessionsAssumption DEF IInv, TypeOK, Objects

(* What the steps leave of threads and objects, field by field.            *)
Others(t) == \A u \in Threads \ {t} : thread'[u] = thread[u]
OtherObjects(o) == \A p \in Objects \ {o} : heap'[p] = heap[p]
OtherNames(n) == \A m \in Names \ {n} : sessions'[m] = sessions[m]

Went(t, s) ==
  /\ thread'[t].at = s /\ thread'[t].obj = thread[t].obj
  /\ thread'[t].kind = thread[t].kind /\ thread'[t].name = thread[t].name
  /\ thread'[t].update = thread[t].update
  /\ Others(t)

Rested(t) ==
  /\ thread'[t].at = "idle" /\ thread'[t].obj = 0
  /\ thread'[t].kind = "call" /\ thread'[t].update = 0
  /\ Others(t)

Touched(t, h, data, old) ==
  LET o == thread[t].obj IN
  /\ heap'[o].lock = h /\ heap'[o].data = data /\ heap'[o].old = old
  /\ heap'[o].name = thread[t].name /\ heap[o].name = thread[t].name
  /\ OtherObjects(o)

LEMMA Going ==
  ASSUME TypeOK, NEW t \in Threads, NEW s, Goto(t, s)
  PROVE  Went(t, s)
  BY DEF TypeOK, Goto, Went, Others

LEMMA Rests ==
  ASSUME TypeOK, NEW t \in Threads, thread' = [thread EXCEPT ![t] = Resting]
  PROVE  Rested(t)
  BY DEF TypeOK, Resting, Rested, Others

LEMMA Locking ==
  ASSUME IInv, NEW t \in Threads, NEW h, thread[t].obj # 0,
         heap' = [heap EXCEPT ![thread[t].obj].lock = h]
  PROVE  Touched(t, h, heap[thread[t].obj].data, heap[thread[t].obj].old)
  BY ObjectType DEF IInv, TypeOK, Session, Touched, OtherObjects

LEMMA LockingAnew ==
  ASSUME IInv, NEW t \in Threads, NEW h, thread[t].obj # 0,
         heap' = [heap EXCEPT ![thread[t].obj].lock = h, ![thread[t].obj].old = FALSE]
  PROVE  Touched(t, h, heap[thread[t].obj].data, FALSE)
  BY ObjectType DEF IInv, TypeOK, Session, Touched, OtherObjects

Handed(t) ==
  LET n == thread[t].name IN
  /\ n \in Names /\ sessions'[n] = thread[t].obj /\ OtherNames(n)
  /\ save'[n].dirty /\ save'[n].data = heap[thread[t].obj].data
  /\ \A m \in Names \ {n} : save'[m] = save[m]
  /\ UNCHANGED <<made, acked, disk, saver, stopme, lost>>

LEMMA Saving ==
  ASSUME IInv, NEW t \in Threads, NEW s, thread[t].obj # 0, SaveSession(t, s)
  PROVE  /\ Touched(t, heap[thread[t].obj].lock, heap[thread[t].obj].data, FALSE)
         /\ Handed(t) /\ Went(t, s) /\ lock = Nobody /\ UNCHANGED lock
<1>1. Went(t, s)
  BY Going DEF IInv, SaveSession
<1>2. Handed(t)
  BY ObjectType DEF IInv, TypeOK, SaveSession, Hand, Handed, OtherNames
<1>3. Touched(t, heap[thread[t].obj].lock, heap[thread[t].obj].data, FALSE)
  BY ObjectType DEF IInv, TypeOK, Session, SaveSession, Touched, OtherObjects
<1>4. QED
  BY <1>1, <1>2, <1>3 DEF SaveSession

LEMMA Changing ==
  ASSUME IInv, NEW t \in Threads, NEW s, thread[t].obj # 0, Change(t, s)
  PROVE  /\ Touched(t, heap[thread[t].obj].lock,
                    heap[thread[t].obj].data \cup {updates + 1},
                    heap[thread[t].obj].old)
         /\ thread'[t].at = s /\ thread'[t].obj = thread[t].obj
         /\ thread'[t].kind = thread[t].kind /\ thread'[t].name = thread[t].name
         /\ thread'[t].update = IF s = "save" THEN updates + 1 ELSE 0
         /\ Others(t)
         /\ UNCHANGED <<lock, sessions, made, acked, disk, save, saver, stopme, lost>>
<1>1. Touched(t, heap[thread[t].obj].lock,
                 heap[thread[t].obj].data \cup {updates + 1},
                 heap[thread[t].obj].old)
  BY ObjectType DEF IInv, TypeOK, Session, Change, Touched, OtherObjects
<1>2. QED
  BY <1>1 DEF IInv, TypeOK, Change, Others, files

LEMMA AnswersKept ==
  ASSUME IInv, NEW t \in Threads, Others(t), thread'[t].update = 0,
         UNCHANGED <<disk, save, saver, lost>>,
         \A u \in Threads : thread[u].obj # 0 =>
           heap'[thread[u].obj].data = heap[thread[u].obj].data
  PROVE  Answering'
<1>1. ASSUME NEW u \in Threads, thread'[u].update # 0
      PROVE  /\ thread'[u] = thread[u] /\ thread[u].update # 0
             /\ thread[u].obj # 0
  BY <1>1 DEF IInv, Locks, Places, Told, Answering, Others
<1>2. \A n : Saved(n)' = Saved(n)
  BY DEF Saved
<1>3. QED
  BY <1>1, <1>2 DEF IInv, Told, Answering

LEMMA SavingType ==
  ASSUME IInv, NEW t \in Threads, NEW s \in Steps, thread[t].obj # 0,
         SaveSession(t, s)
  PROVE  TypeOK'
<1> USE SessionsAssumption DEF IInv
<1>1. thread[t].obj \in Objects
  BY DEF TypeOK, Objects
<1>2. heap[thread[t].obj] \in Session /\ heap[thread[t].obj].name \in Names
  BY <1>1 DEF TypeOK, Session
<1>3. heap' \in [Objects -> Session]
  BY <1>1, <1>2 DEF TypeOK, SaveSession, Session
<1>4. save' \in [Names -> Copy]
  BY <1>1, <1>2 DEF TypeOK, SaveSession, Hand, Session, Copy
<1>5. sessions' \in [Names -> 0 .. MaxObjects]
  BY <1>1, <1>2 DEF TypeOK, SaveSession
<1>6. QED
  BY <1>3, <1>4, <1>5, StepType DEF TypeOK, SaveSession, Request

LEMMA ChangingType ==
  ASSUME IInv, NEW t \in Threads, NEW s \in Steps, thread[t].obj # 0,
         Change(t, s)
  PROVE  TypeOK'
<1> USE SessionsAssumption DEF IInv
<1>1. thread[t].obj \in Objects
  BY DEF TypeOK, Objects
<1>2. updates + 1 \in Updates /\ updates + 1 \in 0 .. MaxUpdates
  BY DEF TypeOK, Change, Updates
<1>3. heap[thread[t].obj] \in Session
  BY <1>1 DEF TypeOK
<1>4. heap' \in [Objects -> Session]
  BY <1>1, <1>2, <1>3 DEF TypeOK, Change, Session
<1>5. thread' \in [Threads -> Request]
  <2>1. PICK u \in 0 .. MaxUpdates :
          thread' = [thread EXCEPT ![t].at = s, ![t].update = u]
    <3>1. (IF s = "save" THEN updates + 1 ELSE 0) \in 0 .. MaxUpdates
      BY <1>2, SessionsAssumption
    <3>2. QED
      BY <3>1 DEF Change
  <2>2. [thread[t] EXCEPT !.at = s, !.update = u] \in Request
    BY DEF TypeOK, Request
  <2>3. QED
    BY <2>1, <2>2 DEF TypeOK, Request
<1>6. QED
  BY <1>2, <1>4, <1>5 DEF TypeOK, Change, Request, files

LEMMA PurgeKeeps ==
  ASSUME IInv, NEW t \in Threads, Purge(t)
  PROVE  IInv'
<1>1. /\ thread[t].at = "purge" /\ Went(t, "mkstemp")
      /\ \A n \in Names :
           sessions'[n] = IF sessions[n] # 0 /\ heap[sessions[n]].old THEN 0
                          ELSE sessions[n]
      /\ UNCHANGED <<lock, heap, made, acked, disk, save, saver, stopme, lost>>
  BY Going DEF Purge, At, files, IInv, TypeOK
<1>2. TypeOK'
  <2>1. sessions' \in [Names -> 0 .. MaxObjects]
    BY SessionsAssumption DEF IInv, TypeOK, Purge
  <2>2. thread' \in [Threads -> Request]
    BY StepType DEF IInv, Purge, Steps
  <2>3. QED
    BY <2>1, <2>2 DEF IInv, TypeOK, Purge, Request, files
<1>3. Places' /\ Locked' /\ Owned'
  BY <1>1, Indices, SessionsAssumption
  DEF IInv, Locks, Places, Went, Others, Locked, Working, Owned
<1>4. Current' /\ ServerLocked'
  BY <1>1, Indices, SessionsAssumption
  DEF IInv, Locks, Places, Current, Working, Locked, TypeOK, Went, Others,
      ServerLocked
<1>5. InMemory' /\ NewNames'
  BY <1>1, Indices, SessionsAssumption
  DEF IInv, Locks, Places, InMemory, Unsaved, Went, Others, NewNames, Starting,
      ServerLocked, Current
<1>6. Rounds'
  BY <1>1, Indices, SessionsAssumption
  DEF IInv, Rounds, Went, Others
<1>7. EmptyFiles' /\ Acknowledged' /\ Answering'
  BY <1>1, Indices, SessionsAssumption
  DEF IInv, Told, EmptyFiles, EmptyFile, Went, Others, Locks, Places,
      Acknowledged, Saved, NewNames, Starting, Answering, Current, InMemory,
      Unsaved, Locked, Working
<1>. QED
  BY <1>2, <1>3, <1>4, <1>5, <1>6, <1>7
  DEF IInv, Locks, Told

LEMMA MakeFileKeeps ==
  ASSUME IInv, NEW t \in Threads, MakeFile(t)
  PROVE  IInv'
<1>1. /\ thread[t].at = "mkstemp" /\ Went(t, "create")
      /\ thread[t].name \in Names /\ disk'[thread[t].name] = EmptyFile
      /\ \A n \in Names \ {thread[t].name} : disk'[n] = disk[n]
      /\ UNCHANGED <<lock, sessions, heap, made, acked, save, saver, stopme, lost>>
  BY Going DEF MakeFile, At, IInv, TypeOK
<1>2. TypeOK'
  <2>1. disk' \in [Names -> File]
    BY DEF IInv, TypeOK, MakeFile, File, EmptyFile
  <2>2. QED
    BY <2>1, StepType DEF IInv, TypeOK, MakeFile, Request, Steps
<1>3. Places' /\ Locked' /\ Owned' /\ Current' /\ ServerLocked' /\ InMemory'
  BY <1>1, Indices, SessionsAssumption
  DEF IInv, Locks, Places, Went, Others, Locked, Working, Owned, Current,
      ServerLocked, InMemory, Unsaved
<1>4. Rounds'
  BY <1>1, Indices, SessionsAssumption
  DEF IInv, Rounds, Went, Others
<1>5. EmptyFiles' /\ Acknowledged' /\ Answering'
  BY <1>1, Indices
  DEF IInv, Told, EmptyFiles, EmptyFile, Went, Others, Locks, Acknowledged,
      Saved, NewNames, Starting, Answering
<1>6. NewNames'
  <2>1. EmptyFile.state # "full"
    BY DEF EmptyFile
  <2>2. SUFFICES ASSUME NEW u \in Threads, (thread[u].at \in Starting)'
                 PROVE  /\ (thread[u].kind = "start")'
                        /\ (sessions[thread[u].name] = 0)'
                        /\ (disk[thread[u].name].state # "full")'
                        /\ \A v \in Threads \ {u} :
                             (thread[v].at \in Starting
                                => thread[v].name # thread[u].name)'
    BY DEF NewNames
  <2>3. thread[u].at \in Starting /\ thread'[u].name = thread[u].name
    BY <1>1, <2>2 DEF Starting, Went, Others
  <2>4. \A v \in Threads : thread'[v].at \in Starting => thread[v].at \in Starting
    BY <1>1 DEF Starting, Went, Others
  <2>5. \A v \in Threads : thread'[v].name = thread[v].name
    BY <1>1 DEF Went, Others
  <2>6. /\ thread[u].kind = "start" /\ thread'[u].kind = thread[u].kind
        /\ sessions[thread[u].name] = 0 /\ disk[thread[u].name].state # "full"
        /\ \A v \in Threads \ {u} : thread[v].at \in Starting
                                      => thread[v].name # thread[u].name
    BY <1>1, <2>3 DEF IInv, Locks, NewNames, Went, Others
  <2>7. QED
    BY <1>1, <2>1, <2>3, <2>4, <2>5, <2>6, Indices
<1>. QED
  BY <1>2, <1>3, <1>4, <1>5, <1>6
  DEF IInv, Locks, Told

LEMMA CreateKeeps ==
  ASSUME IInv, NEW t \in Threads, Create(t)
  PROVE  IInv'
<1>1. /\ thread[t].at = "create" /\ made + 1 \in Objects /\ made \in Nat
      /\ thread'[t].at = "put" /\ thread'[t].obj = made + 1
      /\ thread'[t].kind = thread[t].kind /\ thread'[t].name = thread[t].name
      /\ thread'[t].update = thread[t].update
      /\ Others(t)
      /\ heap'[made + 1].name = thread[t].name /\ heap'[made + 1].lock = Nobody
      /\ OtherObjects(made + 1)
      /\ made' = made + 1
      /\ UNCHANGED <<lock, sessions, acked, disk, save, saver, stopme, lost>>
  BY SessionsAssumption DEF Others, OtherObjects, Create, At, files, IInv, TypeOK, Objects
<1>2. TypeOK'
  <2> USE SessionsAssumption DEF IInv
  <2>1. made + 1 \in Objects /\ made + 1 \in 0 .. MaxObjects
    BY DEF TypeOK, Create, Objects
  <2>2. heap' \in [Objects -> Session]
    BY <2>1 DEF TypeOK, Create, Session, Holders
  <2>3. thread' \in [Threads -> Request]
    <3>1. [thread[t] EXCEPT !.at = "put", !.obj = made + 1] \in Request
      BY <2>1, ZenonT(60) DEF TypeOK, Request, Steps
    <3>2. QED
      BY <3>1 DEF TypeOK, Create, Request
  <2>4. QED
    BY <2>1, <2>2, <2>3 DEF TypeOK, Create, Request, files
<1>3. Locked' /\ Owned' /\ Current' /\ ServerLocked' /\ InMemory' /\ NewNames'
  BY <1>1, Indices, SessionsAssumption
  DEF IInv, Locks, Places, Locked, Working, Others, OtherObjects, Owned,
      Current, ServerLocked, InMemory, Unsaved, NewNames, Starting
<1>4. Rounds'
  BY <1>1, Indices, SessionsAssumption
  DEF IInv, Rounds, Others, OtherObjects
<1>5. EmptyFiles' /\ Acknowledged' /\ Answering'
  BY <1>1, Indices
  DEF IInv, Told, EmptyFiles, Others, OtherObjects, Locks, Places,
      Acknowledged, Saved, Answering, InMemory
<1>6. Places'
  <2>1. \A u \in Threads : thread[u].obj \in Nat /\ thread[u].obj # made + 1
    BY <1>1, Indices DEF IInv, Locks, Places
  <2>2. \A u \in Threads \ {t} : thread[u].obj # 0 =>
          heap'[thread[u].obj].name = heap[thread[u].obj].name
    BY <1>1, <2>1, Indices DEF OtherObjects
  <2>3. ASSUME NEW u \in Threads \ {t}
        PROVE  /\ thread'[u].obj <= made'
               /\ thread'[u].obj # 0 =>
                    heap'[thread'[u].obj].name = thread'[u].name
    <3>1. thread[u].obj <= made /\ thread'[u] = thread[u]
      BY <1>1 DEF IInv, Locks, Places, Others
    <3>2. QED
      BY <1>1, <2>1, <2>2, <3>1 DEF IInv, Locks, Places
  <2>4. thread[t].kind # "stranger"
    BY <1>1 DEF IInv, Locks, NewNames, Starting
  <2>5. QED
    BY <1>1, <2>1, <2>3, <2>4 DEF IInv, Locks, Places, Others
<1>. QED
  BY <1>2, <1>3, <1>4, <1>5, <1>6
  DEF IInv, Locks, Told

LEMMA PutKeeps ==
  ASSUME IInv, NEW t \in Threads, Put(t)
  PROVE  IInv'
<1>1. thread[t].at = "put" /\ thread[t].obj # 0 /\ SaveSession(t, "get")
  BY DEF Put, At, IInv, Locks, Places
<1>2. /\ Touched(t, heap[thread[t].obj].lock, heap[thread[t].obj].data, FALSE)
      /\ Handed(t) /\ Went(t, "get") /\ lock = Nobody /\ UNCHANGED lock
      /\ thread[t].at = "put" /\ thread[t].obj # 0
  BY <1>1, Saving
<1>3. TypeOK'
  BY <1>1, SavingType DEF Steps
<1>4. Places' /\ Locked' /\ Owned'
  BY <1>2, Indices, SessionsAssumption, SMTT(30)
  DEF IInv, Locks, Places, Went, Touched, Handed, Others, OtherObjects,
      OtherNames, Locked, Working, Owned
<1>5. ServerLocked' /\ InMemory' /\ NewNames'
  <2>1. ServerLocked'
    BY <1>2, Indices, SessionsAssumption, SMTT(30)
    DEF IInv, Locks, Places, ServerLocked, Went, Touched, Handed, Others, OtherObjects,
        OtherNames
  <2>2. InMemory'
    BY <1>2, Indices, SessionsAssumption, SMTT(30)
    DEF IInv, Locks, Places, Went, Touched, Handed, Others, OtherObjects, OtherNames, InMemory,
        Unsaved
  <2>3. NewNames'
    BY <1>2, Indices, SMTT(30)
    DEF IInv, Locks, Places, Went, Touched, Handed, Others, OtherObjects, OtherNames, NewNames,
        Starting
  <2>4. QED
    BY <2>1, <2>2, <2>3
<1>6. Rounds'
  BY <1>2, Indices, SessionsAssumption
  DEF IInv, Rounds, Went, Touched, Handed, Others, OtherObjects, OtherNames
<1>7. EmptyFiles'
  BY <1>2, Indices, SessionsAssumption
  DEF IInv, Told, EmptyFiles, EmptyFile, Went, Touched, Handed, Others,
      OtherObjects, OtherNames
<1>8. Current'
  <2>1. \A u \in Threads \ {t} : thread[u].obj # 0 /\ thread[u].at # "put" =>
          \/ thread[u].name # thread[t].name
          \/ thread[u].at = "wait" /\ heap[thread[u].obj].lock = Gone
    BY <1>2 DEF IInv, Locks, Current, NewNames, Starting
  <2>2. \A u \in Threads \ {t} : thread[u].obj # 0 =>
          heap'[thread[u].obj].lock = heap[thread[u].obj].lock
    BY <1>2, Indices DEF Touched, OtherObjects
  <2>3. \A u \in Threads : thread[u].obj # 0 /\ ~heap[thread[u].obj].old
          => ~heap'[thread[u].obj].old
    BY <1>2, Indices DEF Touched, OtherObjects
  <2>4. \A u \in Threads \ {t} : thread[u].name # thread[t].name =>
          sessions'[thread[u].name] = sessions[thread[u].name]
    BY <1>2, Indices DEF Handed, OtherNames
  <2>5. sessions'[thread[t].name] = thread[t].obj
        /\ ~heap'[thread[t].obj].old
    BY <1>2 DEF Touched, Handed
  <2>6. QED
    BY <1>2, <2>1, <2>2, <2>3, <2>4, <2>5
    DEF IInv, Locks, Current, Went, Others
<1>9. Acknowledged'
  <2>1. sessions[thread[t].name] = 0 /\ disk[thread[t].name].state # "full"
    BY <1>2 DEF IInv, Locks, NewNames, Starting
  <2>2. ~Unsaved(thread[t].name) /\ disk[thread[t].name].data = {}
    BY <1>2, <2>1 DEF IInv, Locks, InMemory, Told, EmptyFiles, Handed
  <2>3. acked[thread[t].name] \subseteq lost[thread[t].name]
    BY <1>2, <2>2 DEF IInv, Told, Acknowledged, Saved, Unsaved, Handed
  <2>4. ASSUME NEW n \in Names, n # thread[t].name
        PROVE  /\ (acked[n] \ lost[n] \subseteq Saved(n))'
               /\ (sessions[n] # 0 => acked[n] \ lost[n] \subseteq heap[sessions[n]].data)'
    <3>1. /\ acked[n] \ lost[n] \subseteq Saved(n)
          /\ sessions[n] # 0 => acked[n] \ lost[n] \subseteq heap[sessions[n]].data
      BY <1>2, <2>4 DEF IInv, Told, Acknowledged, Handed
    <3>2. Saved(n)' = Saved(n)
      BY <1>2, <2>4 DEF Saved, Handed
    <3>3. sessions[n] # 0 => heap'[sessions[n]].data = heap[sessions[n]].data
      BY <1>2, Indices DEF Touched, OtherObjects
    <3>4. QED
      BY <1>2, <2>4, <3>1, <3>2, <3>3 DEF Handed, OtherNames
  <2>5. QED
    BY <1>2, <2>3, <2>4 DEF Acknowledged, Handed
<1>10. Answering'
  <2>1. \A u \in Threads \ {t} : thread[u].update # 0 =>
          thread[u].obj # 0 /\ thread[u].at \in {"save", "release"}
    BY DEF IInv, Locks, Places, Told, Answering
  <2>2. \A u \in Threads \ {t} :
          thread[u].update # 0 => thread[u].name # thread[t].name
    BY <1>2, <2>1 DEF IInv, Locks, Current, NewNames, Starting
  <2>3. thread[t].update = 0
    BY <1>2 DEF IInv, Told, Answering
  <2>4. \A n \in Names \ {thread[t].name} : Saved(n)' = Saved(n)
    BY <1>2 DEF Saved, Handed
  <2>5. \A u \in Threads : thread[u].obj # 0 =>
          heap'[thread[u].obj].data = heap[thread[u].obj].data
    BY <1>2, Indices DEF Touched, OtherObjects
  <2>6. QED
    BY <1>2, <2>1, <2>2, <2>3, <2>4, <2>5, Indices
    DEF IInv, Told, Answering, Went, Others, Handed
<1>. QED
  BY <1>3, <1>4, <1>5, <1>6, <1>7, <1>8, <1>9, <1>10
  DEF IInv, Locks, Told

LEMMA GetFromDiskKeeps ==
  ASSUME IInv, NEW t \in Threads, GetFromDisk(t)
  PROVE  IInv'
<1>1. /\ thread[t].at = "get" /\ Went(t, "load")
      /\ lock = Nobody /\ lock' = t /\ sessions[thread[t].name] = 0
      /\ UNCHANGED <<sessions, heap, made, acked, disk, save, saver, stopme, lost>>
  BY Going DEF IInv, GetFromDisk, At, files
<1>2. TypeOK'
    BY StepType DEF IInv, TypeOK, GetFromDisk, Request, files, Steps, Holders
<1>3. Places' /\ Locked' /\ Owned' /\ Current' /\ ServerLocked' /\ InMemory' /\ NewNames'
  BY <1>1, Indices, SessionsAssumption
  DEF IInv, Locks, Places, Current, Went, Others, Locked, Working, Owned,
      ServerLocked, InMemory, Unsaved, NewNames, Starting
<1>4. Rounds'
  BY <1>1, Indices, SessionsAssumption
  DEF IInv, Rounds, Went, Others
<1>5. EmptyFiles' /\ Acknowledged' /\ Answering'
  BY <1>1
  DEF IInv, Told, EmptyFiles, Went, Others, Acknowledged, Saved, Answering
<1>. QED
  BY <1>2, <1>3, <1>4, <1>5
  DEF IInv, Locks, Told

LEMMA LoadNothingKeeps ==
  ASSUME IInv, NEW t \in Threads, LoadNothing(t)
  PROVE  IInv'
<1>1. /\ thread[t].at = "load" /\ Went(t, "page") /\ lock' = Nobody
      /\ UNCHANGED <<sessions, heap, made, acked, disk, save, saver, stopme, lost>>
  BY Going DEF IInv, LoadNothing, At, files
<1>2. TypeOK'
    BY StepType DEF IInv, TypeOK, LoadNothing, Request, files, Steps, Holders
<1>3. Places' /\ Locked' /\ Owned' /\ Current' /\ ServerLocked' /\ InMemory' /\ NewNames'
  BY <1>1, Indices, SessionsAssumption, SMTT(30)
  DEF IInv, Locks, Places, Went, Others, Locked, Working, Owned, Current,
      ServerLocked, InMemory, Unsaved, NewNames, Starting
<1>4. Rounds'
  BY <1>1, Indices, SessionsAssumption
  DEF IInv, Rounds, Went, Others
<1>5. EmptyFiles' /\ Acknowledged' /\ Answering'
  BY <1>1, Indices, SessionsAssumption
  DEF IInv, Told, EmptyFiles, EmptyFile, Went, Others, Locks, Places,
      Acknowledged, Saved, NewNames, Starting, Answering, Current, InMemory,
      Unsaved, Locked, Working
<1>. QED
  BY <1>2, <1>3, <1>4, <1>5
  DEF IInv, Locks, Told

LEMMA LockSessionKeeps ==
  ASSUME IInv, NEW t \in Threads, LockSession(t)
  PROVE  IInv'
<1>1. /\ thread[t].at = "wait" /\ thread[t].obj # 0 /\ Went(t, "work")
      /\ heap[thread[t].obj].lock = Nobody
      /\ Touched(t, t, heap[thread[t].obj].data, FALSE)
      /\ UNCHANGED <<lock, sessions, made, acked, disk, save, saver, stopme, lost>>
  <2>1. thread[t].at = "wait" /\ thread[t].obj # 0
    BY DEF LockSession, At, IInv, Locks, Places
  <2>2. QED
    BY <2>1, Going, LockingAnew DEF LockSession, files, IInv
<1>2. TypeOK'
  <2>1. heap' \in [Objects -> Session]
    BY LockType DEF IInv, LockSession, Holders, Locks, Places, At
  <2>2. QED
    BY <2>1, StepType, SMTT(30) DEF IInv, TypeOK, LockSession, Request, files, Steps
<1>3. Places' /\ Locked' /\ Owned' /\ Current' /\ ServerLocked' /\ InMemory' /\ NewNames'
  <2>1. Places'
    BY <1>1, Indices, SessionsAssumption
    DEF IInv, Locks, Places, Went, Touched, Others, OtherObjects
  <2>2. Locked'
    BY <1>1, Indices, SessionsAssumption
    DEF IInv, Locks, Locked, Working, Places, Went, Touched, Others, OtherObjects
  <2>3. Owned'
    BY <1>1, Indices, SessionsAssumption
    DEF IInv, Locks, Owned, Locked, Working, Places, Went, Touched, Others, OtherObjects
  <2>4. Current'
    BY <1>1, Indices, SessionsAssumption
    DEF IInv, Locks, Current, Locked, Working, Places, InMemory, Went, Touched, Others, OtherObjects
  <2>5. ServerLocked'
    BY <1>1, Indices, SessionsAssumption
    DEF IInv, Locks, ServerLocked, Current, InMemory, Went, Touched, Others, OtherObjects
  <2>6. InMemory'
    BY <1>1, Indices, SessionsAssumption
    DEF IInv, Locks, InMemory, Unsaved, Current, Went, Touched, Others, OtherObjects
  <2>7. NewNames'
    BY <1>1, Indices, SessionsAssumption
    DEF IInv, Locks, NewNames, Starting, Went, Touched, Others, OtherObjects
  <2>8. QED
    BY <2>1, <2>2, <2>3, <2>4, <2>5, <2>6, <2>7
<1>4. Rounds'
  BY <1>1, Indices, SessionsAssumption
  DEF IInv, Rounds, Went, Touched, Others, OtherObjects
<1>5. EmptyFiles'
  BY <1>1, Indices, SessionsAssumption
  DEF IInv, Told, EmptyFiles, EmptyFile, Went, Touched, Others, OtherObjects
<1>6. Acknowledged' /\ Answering'
  <2>1. \A o \in Objects : heap'[o].data = heap[o].data
    BY <1>1, Indices DEF Touched, OtherObjects
  <2>2. \A n : Saved(n)' = Saved(n)
    BY <1>1 DEF Saved
  <2>3. Acknowledged'
    BY <1>1, <2>1, <2>2, Indices DEF IInv, Told, Acknowledged
  <2>4. \A u \in Threads : thread'[u].update # 0 =>
          u # t /\ thread[u].obj \in Objects /\ thread'[u] = thread[u]
    BY <1>1, Indices DEF IInv, Locks, Places, Told, Answering, Went, Others
  <2>5. Answering'
    BY <1>1, <2>1, <2>2, <2>4 DEF IInv, Told, Answering
  <2>6. QED
    BY <2>3, <2>5
<1>. QED
  BY <1>2, <1>3, <1>4, <1>5, <1>6
  DEF IInv, Locks, Told

LEMMA ChangeAndSaveKeeps ==
  ASSUME IInv, NEW t \in Threads, ChangeAndSave(t)
  PROVE  IInv'
<1>1. thread[t].at = "work" /\ thread[t].obj # 0 /\ Change(t, "save")
  BY DEF ChangeAndSave, At, IInv, Locks, Places
<1>2. /\ thread[t].at = "work" /\ thread[t].obj # 0
      /\ Touched(t, heap[thread[t].obj].lock,
                 heap[thread[t].obj].data \cup {updates + 1},
                 heap[thread[t].obj].old)
      /\ thread'[t].at = "save" /\ thread'[t].obj = thread[t].obj
      /\ thread'[t].kind = thread[t].kind /\ thread'[t].name = thread[t].name
      /\ thread'[t].update = updates + 1 /\ Others(t)
      /\ UNCHANGED <<lock, sessions, made, acked, disk, save, saver, stopme, lost>>
  BY <1>1, Changing
<1>3. TypeOK'
  BY <1>1, ChangingType DEF Steps
<1>4. Places' /\ Locked' /\ Owned' /\ Current' /\ ServerLocked' /\ InMemory' /\ NewNames'
  <2>1. Places'
    BY <1>2, Indices, SessionsAssumption
    DEF IInv, Locks, Places, Touched, Others, OtherObjects
  <2>2. Locked'
    BY <1>2, Indices, SessionsAssumption
    DEF IInv, Locks, Locked, Working, Places, Touched, Others, OtherObjects
  <2>3. Owned'
    BY <1>2, Indices, SessionsAssumption
    DEF IInv, Locks, Owned, Locked, Working, Places, Touched, Others, OtherObjects
  <2>4. Current'
    BY <1>2, Indices, SessionsAssumption
    DEF IInv, Locks, Current, Locked, Working, Places, InMemory, Touched, Others, OtherObjects
  <2>5. ServerLocked'
    BY <1>2, Indices, SessionsAssumption
    DEF IInv, Locks, ServerLocked, Current, InMemory, Touched, Others, OtherObjects
  <2>6. InMemory'
    BY <1>2, Indices, SessionsAssumption
    DEF IInv, Locks, InMemory, Unsaved, Current, Touched, Others, OtherObjects
  <2>7. NewNames'
    BY <1>2, Indices, SessionsAssumption
    DEF IInv, Locks, NewNames, Starting, Touched, Others, OtherObjects
  <2>8. QED
    BY <2>1, <2>2, <2>3, <2>4, <2>5, <2>6, <2>7
<1>5. Rounds'
  BY <1>2, Indices, SessionsAssumption
  DEF IInv, Rounds, Touched, Others, OtherObjects
<1>6. EmptyFiles'
  BY <1>2, Indices, SessionsAssumption
  DEF IInv, Told, EmptyFiles, EmptyFile, Touched, Others, OtherObjects
<1>7. Acknowledged'
  BY <1>2, Indices, SMTT(30) DEF IInv, Told, Acknowledged, Saved, Touched, OtherObjects
<1>8. Answering'
  BY <1>2, Indices
  DEF IInv, Locks, Told, Places, Answering, Saved, Touched, Others,
      OtherObjects
<1>. QED
  BY <1>3, <1>4, <1>5, <1>6, <1>7, <1>8
  DEF IInv, Locks, Told

LEMMA ChangeOnlyKeeps ==
  ASSUME IInv, NEW t \in Threads, ChangeOnly(t)
  PROVE  IInv'
<1>1. thread[t].at = "work" /\ thread[t].obj # 0 /\ Change(t, "release")
  BY DEF ChangeOnly, At, IInv, Locks, Places
<1>2. /\ thread[t].at = "work" /\ thread[t].obj # 0
      /\ Touched(t, heap[thread[t].obj].lock,
                 heap[thread[t].obj].data \cup {updates + 1},
                 heap[thread[t].obj].old)
      /\ thread'[t].at = "release" /\ thread'[t].obj = thread[t].obj
      /\ thread'[t].kind = thread[t].kind /\ thread'[t].name = thread[t].name
      /\ thread'[t].update = 0 /\ Others(t)
      /\ UNCHANGED <<lock, sessions, made, acked, disk, save, saver, stopme, lost>>
  BY <1>1, Changing
<1>3. TypeOK'
  BY <1>1, ChangingType DEF Steps
<1>4. Places' /\ Locked' /\ Owned'
  BY <1>2, Indices, SessionsAssumption
  DEF IInv, Locks, Places, Touched, Others, OtherObjects, Locked, Working,
      Owned
<1>5. Current' /\ ServerLocked' /\ InMemory' /\ NewNames'
  BY <1>2, Indices
  DEF IInv, Locks, Current, Touched, Others, OtherObjects, ServerLocked,
      InMemory, Unsaved, NewNames, Starting
<1>6. Rounds'
  BY <1>2, Indices, SessionsAssumption
  DEF IInv, Rounds, Touched, Others, OtherObjects
<1>7. EmptyFiles'
  BY <1>2, Indices, SessionsAssumption
  DEF IInv, Told, EmptyFiles, EmptyFile, Touched, Others, OtherObjects
<1>8. Acknowledged'
  BY <1>2, Indices, SMTT(30) DEF IInv, Told, Acknowledged, Saved, Touched, OtherObjects
<1>9. Answering'
  BY <1>2, Indices
  DEF IInv, Locks, Told, Places, Answering, Saved, Touched, Others,
      OtherObjects
<1>. QED
  BY <1>3, <1>4, <1>5, <1>6, <1>7, <1>8, <1>9
  DEF IInv, Locks, Told

LEMMA JustReadKeeps ==
  ASSUME IInv, NEW t \in Threads, JustRead(t)
  PROVE  IInv'
<1>1. /\ thread[t].at = "work"
      /\ (Went(t, "page") \/ Went(t, "release"))
      /\ UNCHANGED <<lock, sessions, heap, made, acked, disk, save, saver, stopme, lost>>
  BY Going DEF IInv, JustRead, At, files
<1>2. TypeOK'
  <2>1. thread' \in [Threads -> Request]
    BY StepType DEF IInv, JustRead, Steps
  <2>2. QED
    BY <2>1 DEF IInv, TypeOK, JustRead, Request, files
<1>3. Places' /\ Locked' /\ Owned' /\ Current' /\ ServerLocked' /\ InMemory' /\ NewNames'
  BY <1>1
  DEF IInv, Locks, Places, Went, Others, Locked, Working, Owned, Current,
      ServerLocked, InMemory, Unsaved, NewNames, Starting
<1>4. Rounds'
  BY <1>1, Indices, SessionsAssumption
  DEF IInv, Rounds, Went, Others
<1>5. EmptyFiles' /\ Acknowledged' /\ Answering'
  BY <1>1
  DEF IInv, Told, EmptyFiles, Went, Others, Acknowledged, Saved, Answering
<1>. QED
  BY <1>2, <1>3, <1>4, <1>5
  DEF IInv, Locks, Told

LEMMA StartRaisesKeeps ==
  ASSUME IInv, NEW t \in Threads, StartRaises(t)
  PROVE  IInv'
<1>1. /\ thread[t].at = "work" /\ thread[t].obj # 0
      /\ Touched(t, Gone, heap[thread[t].obj].data, heap[thread[t].obj].old)
      /\ Rested(t)
      /\ UNCHANGED <<lock, sessions, made, acked, disk, save, saver, stopme, lost>>
  <2>1. thread[t].at = "work" /\ thread[t].obj # 0
    BY DEF StartRaises, At, IInv, Locks, Places
  <2>2. QED
    BY <2>1, Rests, Locking DEF StartRaises, files, IInv
<1>2. TypeOK'
  <2>1. heap' \in [Objects -> Session]
    BY LockType DEF IInv, StartRaises, Holders, Locks, Places, At
  <2>2. thread' \in [Threads -> Request]
    BY RestType DEF IInv, TypeOK, StartRaises, Request
  <2>3. QED
    BY <2>1, <2>2 DEF IInv, TypeOK, StartRaises, Request, files
<1>3. Locked' /\ Owned' /\ Current' /\ ServerLocked' /\ InMemory' /\ NewNames'
  BY <1>1, Indices, SessionsAssumption
  DEF IInv, Locks, Locked, Working, Rested, Touched, Others, OtherObjects,
      Owned, Current, ServerLocked, InMemory, Unsaved, NewNames, Starting
<1>4. Rounds'
  BY <1>1, Indices, SessionsAssumption
  DEF IInv, Rounds, Rested, Touched, Others, OtherObjects
<1>5. EmptyFiles'
  BY <1>1, Indices, SessionsAssumption
  DEF IInv, Told, EmptyFiles, EmptyFile, Rested, Touched, Others, OtherObjects
<1>6. Acknowledged'
  BY <1>1, Indices, SMTT(30) DEF IInv, Told, Acknowledged, Saved, Touched, OtherObjects
<1>7. Answering'
  BY <1>1, AnswersKept, Indices DEF Rested, Touched, OtherObjects
<1>8. Places'
  <2>1. \A u \in Threads : thread[u].obj # 0 =>
          heap'[thread[u].obj].name = heap[thread[u].obj].name
    BY <1>1, Indices DEF Touched, OtherObjects
  <2>2. QED
    BY <1>1, <2>1, Indices DEF IInv, Locks, Places, Rested, Others
<1>. QED
  BY <1>2, <1>3, <1>4, <1>5, <1>6, <1>7, <1>8
  DEF IInv, Locks, Told

LEMMA SaveKeeps ==
  ASSUME IInv, NEW t \in Threads, Save(t)
  PROVE  IInv'
<1>1. thread[t].at = "save" /\ thread[t].obj # 0 /\ SaveSession(t, "release")
  BY DEF Save, At, IInv, Locks, Places
<1>2. /\ Touched(t, heap[thread[t].obj].lock, heap[thread[t].obj].data, FALSE)
      /\ Handed(t) /\ Went(t, "release") /\ lock = Nobody /\ UNCHANGED lock
      /\ thread[t].at = "save" /\ thread[t].obj # 0
  BY <1>1, Saving
<1>3. TypeOK'
  BY <1>1, SavingType DEF Steps
<1>4. Places' /\ Locked' /\ Owned'
  BY <1>2, Indices
  DEF IInv, Locks, Places, Went, Touched, Handed, Others, OtherObjects,
      Locked, Working, Owned
<1>5. Current' /\ ServerLocked'
  BY <1>2, Indices
  DEF IInv, Locks, Current, Went, Touched, Handed, Others, OtherObjects,
      OtherNames, ServerLocked
<1>6. InMemory' /\ NewNames'
  BY <1>2, Indices
  DEF IInv, Locks, InMemory, Unsaved, Went, Touched, Handed, Others,
      OtherObjects, OtherNames, NewNames, Starting, ServerLocked, Current
<1>7. Rounds'
  BY <1>2, Indices, SessionsAssumption
  DEF IInv, Rounds, Went, Touched, Handed, Others, OtherObjects, OtherNames
<1>8. EmptyFiles'
  BY <1>2, Indices, SessionsAssumption
  DEF IInv, Told, EmptyFiles, EmptyFile, Went, Touched, Handed, Others,
      OtherObjects, OtherNames
<1>9. Answering'
  <2>1. \A o \in Objects : heap'[o].data = heap[o].data
    BY <1>2, Indices DEF Touched, OtherObjects
  <2>2. \A u \in Threads : thread'[u].update # 0 =>
          /\ thread[u].update # 0 /\ thread'[u].update = thread[u].update
          /\ thread'[u].name = thread[u].name /\ thread'[u].obj = thread[u].obj
          /\ thread[u].obj \in Objects /\ thread[u].at \in {"save", "release"}
          /\ thread'[u].at \in {"save", "release"}
          /\ u # t => thread'[u] = thread[u]
    BY <1>2, Indices DEF IInv, Locks, Places, Told, Answering, Went, Others
  <2>3. ASSUME NEW u \in Threads, thread[u].at = "release", u # t
        PROVE  thread[u].name # thread[t].name
    <3>1. thread[u].obj # 0
      BY <2>3 DEF IInv, Locks, Places
    <3>2. heap[thread[u].obj].lock = u /\ heap[thread[t].obj].lock = t
      BY <1>2, <2>3, <3>1 DEF IInv, Locks, Locked, Working
    <3>3. /\ sessions[thread[u].name] = thread[u].obj
          /\ sessions[thread[t].name] = thread[t].obj
      BY <1>2, <2>3, <3>1 DEF IInv, Locks, Current
    <3>4. QED
      BY <2>3, <3>2, <3>3
  <2>4. \A n \in Names : IF n = thread[t].name
                        THEN Saved(n)' = heap[thread[t].obj].data
                        ELSE Saved(n)' = Saved(n)
    BY <1>2 DEF Handed, Saved
  <2>5. ASSUME NEW u \in Threads, thread'[u].update # 0,
               thread'[u].at = "release"
        PROVE  \A n : n = thread'[u].name => thread'[u].update \in Saved(n)' \cup lost'[n]
    <3>1. CASE u = t
      BY <2>2, <2>4, <2>5, <3>1, Indices DEF IInv, Told, Answering
    <3>2. CASE u # t
      BY <1>2, <2>2, <2>3, <2>4, <2>5, <3>2, Indices
         DEF IInv, Told, Answering, Handed
    <3>3. QED
      BY <3>1, <3>2
  <2>6. ASSUME NEW u \in Threads, thread'[u].update # 0
        PROVE  thread'[u].update \in heap'[thread'[u].obj].data
    BY <2>1, <2>2, <2>6 DEF IInv, Told, Answering
  <2>7. QED
    BY <2>2, <2>5, <2>6 DEF Answering
<1>10. Acknowledged'
  <2>1. sessions[thread[t].name] = thread[t].obj
    BY <1>2 DEF IInv, Locks, Current
  <2>2. SUFFICES ASSUME NEW n \in Names
                 PROVE  /\ (acked[n] \ lost[n] \subseteq Saved(n))'
                        /\ (sessions[n] # 0 =>
                              acked[n] \ lost[n] \subseteq heap[sessions[n]].data)'
    BY DEF Acknowledged
  <2>3. /\ acked[n] \ lost[n] \subseteq Saved(n)
        /\ sessions[n] # 0 => acked[n] \ lost[n] \subseteq heap[sessions[n]].data
        /\ acked'[n] = acked[n] /\ lost'[n] = lost[n]
    BY <1>2, SMTT(30) DEF IInv, Told, Acknowledged, Handed
  <2>4. CASE n = thread[t].name
    BY <1>2, <2>1, <2>3, <2>4 DEF Saved, Handed, Touched
  <2>5. CASE n # thread[t].name
    <3>1. Saved(n)' = Saved(n) /\ sessions'[n] = sessions[n]
      BY <1>2, <2>5 DEF Saved, Handed, OtherNames
    <3>2. sessions[n] # 0 => heap'[sessions[n]].data = heap[sessions[n]].data
      BY <1>2, Indices DEF Touched, OtherObjects
    <3>3. QED
      BY <2>3, <3>1, <3>2
  <2>6. QED
    BY <2>4, <2>5
<1>. QED
  BY <1>3, <1>4, <1>5, <1>6, <1>7, <1>8, <1>9, <1>10
  DEF IInv, Locks, Told

LEMMA OpenPageKeeps ==
  ASSUME IInv, NEW t \in Threads, OpenPage(t)
  PROVE  IInv'
<1>1. /\ thread[t].at = "page" /\ Went(t, "stat") /\ lock = Nobody /\ lock' = t
      /\ UNCHANGED <<sessions, heap, made, acked, disk, save, saver, stopme, lost>>
  BY Going DEF IInv, OpenPage, At, files
<1>2. TypeOK'
    BY StepType DEF IInv, TypeOK, OpenPage, Request, files, Steps, Holders
<1>3. Places' /\ Locked' /\ Owned' /\ Current' /\ ServerLocked' /\ InMemory' /\ NewNames'
  BY <1>1, Indices, SessionsAssumption
  DEF IInv, Locks, Places, Went, Others, Locked, Working, Owned, Current,
      ServerLocked, InMemory, Unsaved, NewNames, Starting
<1>4. Rounds'
  BY <1>1, Indices, SessionsAssumption
  DEF IInv, Rounds, Went, Others
<1>5. EmptyFiles' /\ Acknowledged' /\ Answering'
  BY <1>1
  DEF IInv, Told, EmptyFiles, Went, Others, Acknowledged, Saved, Answering
<1>. QED
  BY <1>2, <1>3, <1>4, <1>5
  DEF IInv, Locks, Told

LEMMA RefreshPageKeeps ==
  ASSUME IInv, NEW t \in Threads, RefreshPage(t)
  PROVE  IInv'
<1>1. /\ thread[t].at = "stat" /\ lock' \in {Nobody, Gone}
      /\ IF thread[t].obj = 0 THEN Rested(t) ELSE Went(t, "release")
      /\ UNCHANGED <<sessions, heap, made, acked, disk, save, saver, stopme, lost>>
  <2>1. thread[t].obj # 0 => Goto(t, "release")
    BY DEF RefreshPage, Goto, IInv, TypeOK
  <2>2. QED
    BY <2>1, Going, Rests DEF RefreshPage, At, files, IInv
<1>2. TypeOK'
  <2>1. thread' \in [Threads -> Request]
    <3>1. [thread[t] EXCEPT !.at = "release"] \in Request
      BY DEF IInv, TypeOK, Request, Steps
    <3>2. QED
      BY <3>1, RestType DEF IInv, TypeOK, RefreshPage, Request
  <2>2. QED
    BY <2>1 DEF IInv, TypeOK, RefreshPage, Request, files, Holders
<1>3. Places' /\ Locked' /\ Current' /\ ServerLocked' /\ InMemory' /\ NewNames'
  BY <1>1, Indices, SessionsAssumption
  DEF IInv, Locks, Places, Went, Rested, Others, Locked, Working, Current,
      ServerLocked, InMemory, Unsaved, NewNames, Starting
<1>4. Rounds'
  BY <1>1, Indices, SessionsAssumption
  DEF IInv, Rounds, Went, Rested, Others
<1>5. EmptyFiles' /\ Acknowledged' /\ Answering'
  BY <1>1
  DEF IInv, Told, EmptyFiles, Went, Rested, Others, Acknowledged, Saved,
      Answering
<1>6. Owned'
  <2>1. CASE thread[t].obj = 0
    BY <1>1, <2>1, Indices DEF IInv, Locks, Owned, Rested, Others, Objects
  <2>2. CASE thread[t].obj # 0
    BY <1>1, <2>2 DEF IInv, Locks, Owned, Working, Went, Others
  <2>3. QED
    BY <2>1, <2>2
<1>. QED
  BY <1>2, <1>3, <1>4, <1>5, <1>6
  DEF IInv, Locks, Told

LEMMA ReleaseKeeps ==
  ASSUME IInv, NEW t \in Threads, Release(t)
  PROVE  IInv'
<1>1. /\ thread[t].at = "release" /\ thread[t].obj # 0
      /\ thread[t].name \in Names
      /\ Touched(t, Nobody, heap[thread[t].obj].data, heap[thread[t].obj].old)
      /\ Rested(t)
      /\ acked'[thread[t].name] \subseteq acked[thread[t].name] \cup
           (IF thread[t].update = 0 THEN {} ELSE {thread[t].update})
      /\ \A n \in Names \ {thread[t].name} : acked'[n] = acked[n]
      /\ UNCHANGED <<lock, sessions, made, disk, save, saver, stopme, lost>>
  <2>1. thread[t].obj # 0
    BY DEF Release, At, IInv, Locks, Places
  <2>2. QED
    BY <2>1, ObjectType, Rests, Locking DEF Release, At, files, IInv, TypeOK
<1>2. TypeOK'
  <2>1. heap' \in [Objects -> Session]
    BY LockType DEF IInv, Release, Holders, Locks, Places, At
  <2>2. thread' \in [Threads -> Request]
    BY RestType DEF IInv, TypeOK, Release, Request
  <2>3. acked' \in [Names -> SUBSET Updates]
    <3>1. thread[t].obj # 0 /\ thread[t].update \in 0 .. MaxUpdates
      BY DEF IInv, TypeOK, Release, Locks, Places, At
    <3>2. (IF thread[t].update = 0 THEN {} ELSE {thread[t].update}) \in SUBSET Updates
      BY <3>1, SessionsAssumption, SMTT(30) DEF Updates
    <3>3. QED
      BY <3>1, <3>2, ObjectType DEF IInv, TypeOK, Release, Session
  <2>4. QED
    BY <2>1, <2>2, <2>3 DEF IInv, TypeOK, Release, Request, files
<1>3. Locked' /\ Owned' /\ Current' /\ ServerLocked' /\ InMemory' /\ NewNames'
  BY <1>1, Indices, SessionsAssumption, SMTT(30)
  DEF IInv, Locks, Locked, Working, Rested, Touched, Others, OtherObjects,
      Owned, Current, ServerLocked, InMemory, Unsaved, NewNames, Starting
<1>4. Rounds'
  BY <1>1, Indices, SessionsAssumption
  DEF IInv, Rounds, Rested, Touched, Others, OtherObjects
<1>5. EmptyFiles'
  BY <1>1 DEF IInv, Told, EmptyFiles
<1>6. Acknowledged'
  <2> SUFFICES ASSUME NEW n \in Names
               PROVE  /\ acked'[n] \ lost'[n] \subseteq Saved(n)'
                      /\ sessions[n] # 0 => acked'[n] \ lost'[n] \subseteq heap'[sessions[n]].data
    BY <1>1 DEF Acknowledged
  <2> DEFINE o == thread[t].obj
             u == thread[t].update
  <2>1. Saved(n)' = Saved(n)
    BY <1>1 DEF Saved
  <2>2. sessions[n] # 0 => heap'[sessions[n]].data = heap[sessions[n]].data
    BY <1>1, Indices DEF Touched, OtherObjects
  <2>3. acked[n] \ lost[n] \subseteq Saved(n) /\ (sessions[n] # 0 => acked[n] \ lost[n] \subseteq heap[sessions[n]].data)
    BY DEF IInv, Told, Acknowledged
  <2>4. CASE n # thread[t].name \/ u = 0
    BY <1>1, <2>1, <2>2, <2>3, <2>4
  <2>5. CASE n = thread[t].name /\ u # 0
    <3>1. u \in heap[o].data /\ u \in Saved(n) \cup lost[n]
      BY <1>1, <2>5 DEF IInv, Told, Answering
    <3>2. sessions[n] = o
      BY <1>1, <2>5 DEF IInv, Locks, Current
    <3>3. QED
      BY <1>1, <2>1, <2>2, <2>3, <2>5, <3>1, <3>2
  <2>6. QED
    BY <2>4, <2>5
<1>7. Answering'
  BY <1>1, AnswersKept, Indices DEF Rested, Touched, OtherObjects
<1>8. Places'
  <2>1. \A u \in Threads : thread[u].obj # 0 =>
          heap'[thread[u].obj].name = heap[thread[u].obj].name
    BY <1>1, Indices DEF Touched, OtherObjects
  <2>2. QED
    BY <1>1, <2>1, Indices DEF IInv, Locks, Places, Rested, Others
<1>. QED
  BY <1>2, <1>3, <1>4, <1>5, <1>6, <1>7, <1>8
  DEF IInv, Locks, Told

(* _getSession gives the object out, makes the request wait, or neither.   *)
LEMMA TakingType ==
  ASSUME TypeOK, NEW t \in Threads, NEW o \in Objects, NEW h \in [Objects -> Session],
         Take(t, o, h)
  PROVE  thread' \in [Threads -> Request] /\ heap' \in [Objects -> Session]
<1>1. thread[t] \in Request /\ o \in 0 .. MaxObjects /\ t \in Holders
  BY SessionsAssumption DEF TypeOK, Request, Objects, Holders
<1>2. /\ [thread[t] EXCEPT !.at = "page"] \in Request
      /\ [thread[t] EXCEPT !.at = "work", !.obj = o] \in Request
      /\ [thread[t] EXCEPT !.at = "wait", !.obj = o] \in Request
  BY <1>1 DEF Request, Steps
<1>3. [h[o] EXCEPT !.lock = t, !.old = FALSE] \in Session
  BY <1>1 DEF Session
<1>4. CASE thread[t].kind = "stranger"
  BY <1>2, <1>4 DEF Take, TypeOK, Request
<1>5. CASE thread[t].kind # "stranger" /\ h[o].lock = Nobody
  <2>1. thread' \in [Threads -> Request]
    <3>1. thread' = [thread EXCEPT ![t] = [thread[t] EXCEPT !.at = "work", !.obj = o]]
      BY <1>5 DEF Take
    <3>2. QED
      BY <1>2, <3>1 DEF TypeOK, Request
  <2>2. heap' = [h EXCEPT ![o] = [h[o] EXCEPT !.lock = t, !.old = FALSE]]
    BY <1>5 DEF Take
  <2>3. heap' \in [Objects -> Session]
    BY <1>3, <2>2
  <2>4. QED
    BY <2>1, <2>3
<1>6. CASE thread[t].kind # "stranger" /\ h[o].lock # Nobody
  BY <1>2, <1>6, ZenonT(60) DEF Take, TypeOK, Request
<1>7. QED
  BY <1>4, <1>5, <1>6

Given(t, at, o) ==
  /\ thread'[t].at = at /\ thread'[t].obj = o
  /\ thread'[t].kind = thread[t].kind /\ thread'[t].name = thread[t].name
  /\ thread'[t].update = thread[t].update
  /\ Others(t)

LEMMA Taking ==
  ASSUME TypeOK, NEW t \in Threads, NEW o \in Objects, NEW h \in [Objects -> Session],
         Take(t, o, h)
  PROVE  \/ thread[t].kind = "stranger" /\ Went(t, "page") /\ heap' = h
         \/ /\ thread[t].kind # "stranger" /\ h[o].lock = Nobody
            /\ Given(t, "work", o)
            /\ heap'[o].lock = t /\ ~heap'[o].old
            /\ heap'[o].name = h[o].name /\ heap'[o].data = h[o].data
            /\ \A p \in Objects \ {o} : heap'[p] = h[p]
         \/ /\ thread[t].kind # "stranger" /\ h[o].lock # Nobody
            /\ Given(t, "wait", o) /\ heap' = h
<1>1. CASE thread[t].kind = "stranger"
  BY <1>1 DEF Take, TypeOK, Went, Others
<1>2. CASE thread[t].kind # "stranger" /\ h[o].lock = Nobody
  BY <1>2 DEF Take, TypeOK, Given, Others, Session
<1>3. CASE thread[t].kind # "stranger" /\ h[o].lock # Nobody
  BY <1>3 DEF Take, TypeOK, Given, Others
<1>4. QED
  BY <1>1, <1>2, <1>3

LEMMA MemoryToPage ==
  ASSUME IInv, NEW t \in Threads,
         thread[t].at = "get", sessions[thread[t].name] # 0,
         UNCHANGED <<lock, sessions, made, acked, disk, save, saver, stopme, lost>>,
         thread[t].kind = "stranger", Went(t, "page"), UNCHANGED heap
  PROVE  Locks' /\ Rounds' /\ Told'
<1>1. Places' /\ Locked' /\ Owned' /\ Current' /\ ServerLocked' /\ InMemory' /\ NewNames'
  BY Indices, SessionsAssumption
  DEF IInv, Locks, Places, Went, Others, Locked, Working, Owned, Current,
      ServerLocked, InMemory, Unsaved, NewNames, Starting
<1>2. Rounds'
  BY Indices, SessionsAssumption
  DEF IInv, Rounds, Went, Others
<1>3. EmptyFiles' /\ Acknowledged' /\ Answering'
  BY Indices, SessionsAssumption
  DEF IInv, Told, EmptyFiles, EmptyFile, Went, Others, Locks, Places,
      Acknowledged, Saved, NewNames, Starting, Answering, Current, InMemory,
      Unsaved, Locked, Working
<1>. QED
  BY <1>1, <1>2, <1>3
  DEF Locks, Told

LEMMA MemoryEntered ==
  ASSUME IInv, NEW t \in Threads,
         thread[t].at = "get", sessions[thread[t].name] # 0,
         UNCHANGED <<lock, sessions, made, acked, disk, save, saver, stopme, lost>>,
         thread[t].kind # "stranger", Given(t, "work", sessions[thread[t].name]),
         heap[sessions[thread[t].name]].lock = Nobody,
         heap'[sessions[thread[t].name]].lock = t,
         ~heap'[sessions[thread[t].name]].old,
         heap'[sessions[thread[t].name]].name = thread[t].name,
         heap'[sessions[thread[t].name]].data = heap[sessions[thread[t].name]].data,
         OtherObjects(sessions[thread[t].name])
  PROVE  Locks' /\ Rounds' /\ Told'
<1>1. Locked' /\ Owned' /\ Current' /\ ServerLocked' /\ InMemory' /\ NewNames'
  <2>1. Locked'
    BY Indices, SessionsAssumption
    DEF IInv, Locks, Locked, Working, Places, Given, Others, OtherObjects
  <2>2. Owned'
    BY Indices, SessionsAssumption, SMTT(30)
    DEF IInv, Locks, Owned, Locked, Working, Places, Given, Others, OtherObjects
  <2>3. Current'
    BY Indices, SessionsAssumption
    DEF IInv, Locks, Current, Locked, Working, Places, InMemory, Given, Others, OtherObjects
  <2>4. ServerLocked'
    BY Indices, SessionsAssumption
    DEF IInv, Locks, ServerLocked, Current, InMemory, Given, Others, OtherObjects
  <2>5. InMemory'
    BY Indices, SessionsAssumption
    DEF IInv, Locks, InMemory, Unsaved, Current, Given, Others, OtherObjects
  <2>6. NewNames'
    BY Indices, SessionsAssumption
    DEF IInv, Locks, NewNames, Starting, Given, Others, OtherObjects
  <2>7. QED
    BY <2>1, <2>2, <2>3, <2>4, <2>5, <2>6
<1>2. Rounds'
  BY Indices, SessionsAssumption
  DEF IInv, Rounds, Given, Others, OtherObjects
<1>3. EmptyFiles'
  BY Indices, SessionsAssumption
  DEF IInv, Told, EmptyFiles, EmptyFile, Given, Others, OtherObjects
<1>4. Places'
  <2>1. thread'[t].obj <= made' /\ thread'[t].obj # 0
        /\ heap'[thread'[t].obj].name = thread'[t].name
    BY Indices DEF IInv, Locks, InMemory, Given
  <2>2. \A u \in Threads : thread[u].obj # 0 =>
          heap'[thread[u].obj].name = heap[thread[u].obj].name
    BY Indices DEF IInv, Locks, InMemory, OtherObjects
  <2>3. QED
    BY <2>1, <2>2 DEF IInv, Locks, Places, Given, Others
<1>5. Acknowledged'
  <2>1. \A n \in Names : sessions[n] # 0 =>
          heap'[sessions[n]].data = heap[sessions[n]].data
    BY Indices DEF OtherObjects
  <2>2. QED
    BY <2>1 DEF IInv, Told, Acknowledged, Saved
<1>6. Answering'
  <2>1. \A u \in Threads : thread[u].obj # 0 =>
          heap'[thread[u].obj].data = heap[thread[u].obj].data
    BY Indices DEF OtherObjects
  <2>2. thread[t].update = 0 /\ thread'[t].update = 0
    BY DEF IInv, Told, Answering, Given
  <2>3. \A n \in Names : Saved(n)' = Saved(n)
    BY DEF Saved
  <2>4. \A u \in Threads : thread[u].update # 0 => thread[u].obj # 0
    BY DEF IInv, Locks, Places, Told, Answering
  <2>5. QED
    BY <2>1, <2>2, <2>3, <2>4, Indices DEF IInv, Told, Answering, Given, Others
<1>. QED
  BY <1>1, <1>2, <1>3, <1>4, <1>5, <1>6
  DEF Locks, Told

LEMMA MemoryWaits ==
  ASSUME IInv, NEW t \in Threads,
         thread[t].at = "get", sessions[thread[t].name] # 0,
         UNCHANGED <<lock, sessions, made, acked, disk, save, saver, stopme, lost>>,
         thread[t].kind # "stranger", Given(t, "wait", sessions[thread[t].name]),
         heap[sessions[thread[t].name]].lock # Nobody, UNCHANGED heap
  PROVE  Locks' /\ Rounds' /\ Told'
<1>1. Places' /\ Locked' /\ Owned' /\ ServerLocked' /\ InMemory' /\ NewNames'
  BY Indices, SessionsAssumption
  DEF IInv, Locks, Places, InMemory, Given, Others, Locked, Working, Owned,
      ServerLocked, Unsaved, NewNames, Starting, Current
<1>2. Rounds'
  BY Indices, SessionsAssumption
  DEF IInv, Rounds, Given, Others
<1>3. EmptyFiles' /\ Acknowledged' /\ Answering'
  BY DEF IInv, Told, EmptyFiles, Given, Others, Acknowledged, Saved, Answering
<1>4. Current'
  <2> DEFINE o == sessions[thread[t].name]
  <2>1. o \in Objects /\ heap[o].lock \in Threads \cup {Gone}
    BY Indices DEF IInv, TypeOK, Session, Holders
  <2>2. ASSUME NEW u \in Threads, heap[o].lock = u
        PROVE  ~heap[o].old
    BY <2>1, <2>2, Indices DEF IInv, Locks, Owned, Current, Working
  <2>3. heap[o].lock = Gone \/ ~heap[o].old
    BY <2>1, <2>2
  <2>4. QED
    BY <2>3 DEF IInv, Locks, Current, Given, Others
<1>. QED
  BY <1>1, <1>2, <1>3, <1>4
  DEF Locks, Told

LEMMA LoadToPage ==
  ASSUME IInv, NEW t \in Threads,
         thread[t].at = "load", disk[thread[t].name].state = "full",
         made + 1 \in Objects, made' = made + 1, lock' = Nobody,
         sessions' = [sessions EXCEPT ![thread[t].name] = made + 1],
         UNCHANGED <<acked, disk, save, saver, stopme, lost>>,
         thread[t].kind = "stranger", Went(t, "page"),
         heap'[made + 1].name = thread[t].name, heap'[made + 1].lock = Nobody,
         heap'[made + 1].data = disk[thread[t].name].data,
         OtherObjects(made + 1)
  PROVE  Locks' /\ Rounds' /\ Told'
<1>1. /\ sessions'[thread[t].name] = made + 1 /\ OtherNames(thread[t].name)
      /\ thread[t].name \in Names
  BY DEF IInv, TypeOK, OtherNames
<1>2. Places' /\ Locked' /\ Owned' /\ ServerLocked' /\ NewNames'
  BY <1>1, Indices, SessionsAssumption
  DEF IInv, Locks, Places, Went, Others, OtherObjects, OtherNames, Locked,
      Working, Owned, ServerLocked, NewNames, Starting, Current
<1>3. Rounds'
  BY <1>1, Indices, SessionsAssumption
  DEF IInv, Rounds, Went, Others, OtherObjects, OtherNames
<1>4. EmptyFiles' /\ Answering'
  <2>1. thread[t].update = 0
    BY DEF IInv, Told, Answering
  <2>2. \A u \in Threads : thread[u].obj # 0 =>
          heap'[thread[u].obj].data = heap[thread[u].obj].data
    BY Indices DEF IInv, Locks, Places, OtherObjects
  <2>3. QED
    BY <2>1, <2>2, AnswersKept DEF IInv, Told, EmptyFiles, Went
<1>5. Current'
  <2>1. \A u \in Threads \ {t} : thread[u].obj # 0 /\ thread[u].at # "put" =>
          \/ thread[u].name # thread[t].name
          \/ thread[u].at = "wait" /\ heap[thread[u].obj].lock = Gone
    BY DEF IInv, Locks, Current, ServerLocked
  <2>2. \A u \in Threads : thread[u].obj # 0 =>
          heap'[thread[u].obj] = heap[thread[u].obj]
    BY Indices DEF IInv, Locks, Places, OtherObjects
  <2>3. \A u \in Threads \ {t} : thread[u].name # thread[t].name =>
          sessions'[thread[u].name] = sessions[thread[u].name]
    BY Indices DEF OtherNames
  <2>4. thread'[t].obj = 0
    BY DEF IInv, Locks, Places, Went
  <2>5. QED
    BY <2>1, <2>2, <2>3, <2>4 DEF IInv, Locks, Current, Went, Others
<1>6. InMemory'
  <2>1. ~Unsaved(thread[t].name)
    BY <1>1 DEF IInv, Locks, InMemory, ServerLocked
  <2>2. \A n \in Names : sessions[n] # 0 => heap'[sessions[n]] = heap[sessions[n]]
    BY Indices DEF IInv, Locks, InMemory, OtherObjects
  <2>3. QED
    BY <1>1, <2>1, <2>2, Indices DEF IInv, Locks, InMemory, Unsaved, OtherNames
<1>7. Acknowledged'
  <2>1. ~Unsaved(thread[t].name)
    BY <1>1 DEF IInv, Locks, InMemory, ServerLocked
  <2>2. SUFFICES ASSUME NEW n \in Names
                 PROVE  /\ (acked[n] \ lost[n] \subseteq Saved(n))'
                        /\ (sessions[n] # 0 =>
                              acked[n] \ lost[n] \subseteq heap[sessions[n]].data)'
    BY DEF Acknowledged
  <2>3. /\ acked'[n] \ lost'[n] \subseteq Saved(n) /\ Saved(n)' = Saved(n)
        /\ sessions[n] # 0 => acked'[n] \ lost'[n] \subseteq heap[sessions[n]].data
    BY <2>2, SMTT(30) DEF IInv, Told, Acknowledged, Saved
  <2>4. CASE n = thread[t].name
    BY <1>1, <2>1, <2>3, <2>4 DEF Saved, Unsaved
  <2>5. CASE n # thread[t].name
    <3>1. sessions'[n] = sessions[n]
      BY <1>1, <2>5 DEF OtherNames
    <3>2. sessions[n] # 0 => heap'[sessions[n]] = heap[sessions[n]]
      BY Indices DEF IInv, Locks, InMemory, OtherObjects
    <3>3. QED
      BY <2>3, <3>1, <3>2
  <2>6. QED
    BY <2>4, <2>5
<1>. QED
  BY <1>2, <1>3, <1>4, <1>5, <1>6, <1>7
  DEF Locks, Told

LEMMA LoadEntered ==
  ASSUME IInv, NEW t \in Threads,
         thread[t].at = "load", disk[thread[t].name].state = "full",
         made + 1 \in Objects, made' = made + 1, lock' = Nobody,
         sessions' = [sessions EXCEPT ![thread[t].name] = made + 1],
         UNCHANGED <<acked, disk, save, saver, stopme, lost>>,
         thread[t].kind # "stranger", Given(t, "work", made + 1),
         heap'[made + 1].name = thread[t].name, heap'[made + 1].lock = t,
         heap'[made + 1].data = disk[thread[t].name].data,
         ~heap'[made + 1].old, OtherObjects(made + 1)
  PROVE  Locks' /\ Rounds' /\ Told'
<1>1. /\ sessions'[thread[t].name] = made + 1 /\ OtherNames(thread[t].name)
      /\ thread[t].name \in Names
  BY SMTT(30) DEF IInv, TypeOK, OtherNames
<1>2. Places' /\ Locked' /\ Owned' /\ ServerLocked' /\ InMemory' /\ NewNames'
  BY <1>1, Indices, SMTT(30)
  DEF IInv, Locks, Places, Given, Others, OtherObjects, Locked, Working,
      Owned, ServerLocked, InMemory, Unsaved, NewNames, Starting
<1>3. Rounds'
  BY <1>1, Indices, SessionsAssumption
  DEF IInv, Rounds, Given, Others, OtherObjects, OtherNames
<1>4. EmptyFiles' /\ Answering'
  BY <1>1, Indices
  DEF IInv, Told, EmptyFiles, Given, Others, OtherObjects, Locks, Places,
      Answering, Saved
<1>5. Current'
  <2>1. \A u \in Threads \ {t} : thread[u].obj # 0 /\ thread[u].at # "put" =>
          \/ thread[u].name # thread[t].name
          \/ thread[u].at = "wait" /\ heap[thread[u].obj].lock = Gone
    BY DEF IInv, Locks, Current, ServerLocked
  <2>2. \A u \in Threads : thread[u].obj # 0 =>
          heap'[thread[u].obj] = heap[thread[u].obj]
    BY Indices DEF IInv, Locks, Places, OtherObjects
  <2>3. \A u \in Threads \ {t} : thread[u].name # thread[t].name =>
          sessions'[thread[u].name] = sessions[thread[u].name]
    BY Indices DEF OtherNames
  <2>4. QED
    BY <1>1, <2>1, <2>2, <2>3 DEF IInv, Locks, Current, Given, Others
<1>6. Acknowledged'
  <2>1. ~Unsaved(thread[t].name)
    BY <1>1 DEF IInv, Locks, InMemory, ServerLocked
  <2>2. SUFFICES ASSUME NEW n \in Names
                 PROVE  /\ (acked[n] \ lost[n] \subseteq Saved(n))'
                        /\ (sessions[n] # 0 =>
                              acked[n] \ lost[n] \subseteq heap[sessions[n]].data)'
    BY DEF Acknowledged
  <2>3. /\ acked'[n] \ lost'[n] \subseteq Saved(n) /\ Saved(n)' = Saved(n)
        /\ sessions[n] # 0 => acked'[n] \ lost'[n] \subseteq heap[sessions[n]].data
    BY <2>2, SMTT(30) DEF IInv, Told, Acknowledged, Saved
  <2>4. CASE n = thread[t].name
    BY <1>1, <2>1, <2>3, <2>4 DEF Saved, Unsaved
  <2>5. CASE n # thread[t].name
    <3>1. sessions'[n] = sessions[n]
      BY <1>1, <2>5 DEF OtherNames
    <3>2. sessions[n] # 0 => heap'[sessions[n]] = heap[sessions[n]]
      BY Indices DEF IInv, Locks, InMemory, OtherObjects
    <3>3. QED
      BY <2>3, <3>1, <3>2
  <2>6. QED
    BY <2>4, <2>5
<1>. QED
  BY <1>2, <1>3, <1>4, <1>5, <1>6
  DEF Locks, Told

LEMMA GetFromMemoryKeeps ==
  ASSUME IInv, NEW t \in Threads, GetFromMemory(t)
  PROVE  IInv'
<1> DEFINE o == sessions[thread[t].name]
<1>1. /\ thread[t].at = "get" /\ o # 0 /\ o \in Objects /\ Take(t, o, heap)
      /\ heap[o].name = thread[t].name /\ heap \in [Objects -> Session]
      /\ UNCHANGED <<lock, sessions, made, acked, disk, save, saver, stopme, lost,
                     updates, stored>>
  BY Indices DEF GetFromMemory, At, files, IInv, TypeOK, Locks, InMemory
<1>2. TypeOK'
  BY <1>1, TakingType DEF IInv, TypeOK, Request
<1>3. CASE thread[t].kind = "stranger" /\ Went(t, "page") /\ heap' = heap
  BY <1>1, <1>2, <1>3, MemoryToPage, SMTT(30) DEF IInv
<1>4. CASE /\ thread[t].kind # "stranger" /\ heap[o].lock = Nobody
           /\ Given(t, "work", o)
           /\ heap'[o].lock = t /\ ~heap'[o].old
           /\ heap'[o].name = heap[o].name /\ heap'[o].data = heap[o].data
           /\ \A p \in Objects \ {o} : heap'[p] = heap[p]
  BY <1>1, <1>2, <1>4, MemoryEntered DEF IInv, OtherObjects
<1>5. CASE /\ thread[t].kind # "stranger" /\ heap[o].lock # Nobody
           /\ Given(t, "wait", o) /\ heap' = heap
  BY <1>1, <1>2, <1>5, MemoryWaits DEF IInv
<1>6. QED
  BY <1>1, <1>3, <1>4, <1>5, Taking DEF IInv

LEMMA LoadKeeps ==
  ASSUME IInv, NEW t \in Threads, Load(t)
  PROVE  IInv'
<1> DEFINE o == made + 1
           n == thread[t].name
<1>1. PICK old \in BOOLEAN :
        Take(t, o, [heap EXCEPT ![o] =
          [name |-> n, data |-> disk[n].data, lock |-> Nobody, old |-> old]])
  BY DEF Load
<1> DEFINE h == [heap EXCEPT ![o] =
          [name |-> n, data |-> disk[n].data, lock |-> Nobody, old |-> old]]
<1>2. /\ thread[t].at = "load" /\ disk[n].state = "full" /\ n \in Names
      /\ o \in Objects /\ made' = o /\ lock' = Nobody
      /\ sessions' = [sessions EXCEPT ![n] = o]
      /\ UNCHANGED <<acked, disk, save, saver, stopme, lost, updates, stored>>
  BY SessionsAssumption DEF Load, At, files, IInv, TypeOK, Objects
<1>3. h \in [Objects -> Session]
  <2>1. [name |-> n, data |-> disk[n].data, lock |-> Nobody, old |-> old] \in Session
    BY <1>2 DEF IInv, TypeOK, Session, Holders, File
  <2>2. QED
    BY <2>1 DEF IInv, TypeOK
<1>4. /\ h[o].name = n /\ h[o].data = disk[n].data /\ h[o].lock = Nobody
      /\ \A p \in Objects \ {o} : h[p] = heap[p]
  BY <1>2 DEF IInv, TypeOK
<1> HIDE DEF h
<1>5. TypeOK'
  <2>1. thread' \in [Threads -> Request] /\ heap' \in [Objects -> Session]
    BY <1>1, <1>2, <1>3, TakingType DEF IInv, h
  <2>2. sessions' \in [Names -> 0 .. MaxObjects] /\ made' \in 0 .. MaxObjects
    BY <1>2, SessionsAssumption DEF IInv, TypeOK, Objects
  <2>3. QED
    BY <1>2, <2>1, <2>2 DEF IInv, TypeOK, Request, Holders
<1>6. CASE thread[t].kind = "stranger" /\ Went(t, "page") /\ heap' = h
  BY <1>2, <1>4, <1>5, <1>6, LoadToPage DEF IInv, OtherObjects
<1>7. CASE /\ thread[t].kind # "stranger" /\ h[o].lock = Nobody
           /\ Given(t, "work", o)
           /\ heap'[o].lock = t /\ ~heap'[o].old
           /\ heap'[o].name = h[o].name /\ heap'[o].data = h[o].data
           /\ \A p \in Objects \ {o} : heap'[p] = h[p]
  BY <1>2, <1>4, <1>5, <1>7, LoadEntered DEF IInv, OtherObjects
<1>8. QED
  BY <1>1, <1>2, <1>3, <1>4, <1>6, <1>7, Taking, ZenonT(60) DEF IInv, h

LEMMA WrittenType ==
  TypeOK => Written \in [at : SaverSteps, batch : [Names -> Copy], now : Names,
                         last : BOOLEAN]
<1>1. Nothing \in Copy /\ "write" \in SaverSteps
  BY DEF Nothing, Copy, SaverSteps
<1>2. QED
  BY <1>1 DEF TypeOK, Written

LEMMA NewProcessType ==
  ASSUME NewProcess
  PROVE  /\ lock' \in Holders /\ sessions' \in [Names -> 0 .. MaxObjects]
         /\ heap' \in [Objects -> Session] /\ made' \in 0 .. MaxObjects
         /\ save' \in [Names -> Copy]
         /\ saver' \in [at : SaverSteps, batch : [Names -> Copy], now : Names,
                        last : BOOLEAN]
         /\ stopme' \in BOOLEAN /\ thread' \in [Threads -> Request]
<1>1. (CHOOSE n \in Names : TRUE) \in Names
  BY SessionsAssumption
<1> DEFINE some == CHOOSE n \in Names : TRUE
<1>2. [name |-> some, data |-> {}, lock |-> Nobody, old |-> FALSE] \in Session
  BY <1>1 DEF Session, Holders
<1>3. Nothing \in Copy
  BY DEF Nothing, Copy
<1>4. Resting \in Request
  BY <1>1, SessionsAssumption DEF Resting, Request, Steps, Kinds
<1>5. SaverStarts \in [at : SaverSteps, batch : [Names -> Copy], now : Names,
                       last : BOOLEAN]
  BY <1>1, <1>3 DEF SaverStarts, SaverSteps
<1> HIDE DEF some
<1>6. heap' \in [Objects -> Session]
  <2>1. heap' = [o \in Objects |-> [name |-> some, data |-> {}, lock |-> Nobody,
                                   old |-> FALSE]]
    BY DEF NewProcess, some
  <2>2. QED
    BY <1>2, <2>1
<1>7. thread' \in [Threads -> Request]
  BY <1>4 DEF NewProcess
<1>8. saver' \in [at : SaverSteps, batch : [Names -> Copy], now : Names,
                  last : BOOLEAN]
  BY <1>5 DEF NewProcess
<1>9. save' \in [Names -> Copy]
  BY <1>3 DEF NewProcess
<1>10. sessions' \in [Names -> 0 .. MaxObjects] /\ made' \in 0 .. MaxObjects
  BY SessionsAssumption DEF NewProcess
<1>11. QED
  BY <1>6, <1>7, <1>8, <1>9, <1>10 DEF NewProcess, Holders

LEMMA BeginKeeps ==
  ASSUME IInv, NEW t \in Threads, NEW kind \in Kinds, NEW n \in Names, Begin(t, kind, n)
  PROVE  IInv'
<1>1. /\ thread[t].at = "idle" /\ ~stopme
      /\ kind = "start" => /\ disk[n].state = "absent" /\ sessions[n] = 0
                           /\ ~InUse(n)
      /\ thread'[t].at = (IF kind = "start" THEN "purge" ELSE "get")
      /\ thread'[t].kind = kind /\ thread'[t].name = n
      /\ thread'[t].obj = 0 /\ thread'[t].update = 0 /\ Others(t)
      /\ UNCHANGED <<lock, sessions, heap, made, acked, disk, save, saver, stopme, lost>>
  BY DEF Begin, At, files, Others, IInv, TypeOK
<1>2. TypeOK'
  <2>1. [at |-> IF kind = "start" THEN "purge" ELSE "get", kind |-> kind,
         name |-> n, obj |-> 0, update |-> 0] \in Request
    BY SessionsAssumption DEF IInv, TypeOK, Request, Steps
  <2>2. QED
    BY <2>1 DEF Begin, files, IInv, TypeOK, Request
<1>3. Places' /\ Locked' /\ Owned' /\ Current' /\ ServerLocked' /\ InMemory' /\ NewNames'
  BY <1>1, Indices, SessionsAssumption
  DEF IInv, Locks, Places, Others, Locked, Working, Owned, Current,
      ServerLocked, InMemory, Unsaved, NewNames, Starting, InUse, At
<1>4. Rounds'
  BY <1>1, Indices, SessionsAssumption
  DEF IInv, Rounds, Others
<1>5. EmptyFiles' /\ Acknowledged' /\ Answering'
  BY <1>1, Indices, SessionsAssumption
  DEF IInv, Told, EmptyFiles, EmptyFile, Others, Locks, Places, Acknowledged,
      Saved, NewNames, Starting, Answering, Current, InMemory, Unsaved, Locked,
      Working
<1>. QED
  BY <1>2, <1>3, <1>4, <1>5
  DEF IInv, Locks, Told

LEMMA GrabKeeps ==
  ASSUME IInv, Grab
  PROVE  IInv'
<1>1. /\ saver.at = "grab" /\ saver'.at = "write" /\ saver'.batch = save
      /\ saver'.last = stopme /\ \A n \in Names : save'[n] = Nothing
      /\ ~Nothing.dirty
      /\ UNCHANGED <<lock, sessions, heap, made, thread, acked, disk, stopme, lost>>
  BY DEF Grab, web, IInv, TypeOK, Nothing
<1>2. TypeOK'
  <2>1. Nothing \in Copy /\ "write" \in SaverSteps
    BY DEF Nothing, Copy, SaverSteps
  <2>2. QED
    BY <2>1 DEF Grab, web, IInv, TypeOK
<1>3. Places' /\ Locked' /\ Owned' /\ Current' /\ ServerLocked' /\ InMemory' /\ NewNames'
  BY <1>1, Indices, SessionsAssumption
  DEF IInv, Locks, Places, Locked, Working, Owned, Current, ServerLocked,
      InMemory, Unsaved, NewNames, Starting
<1>4. Rounds'
  BY <1>1, Indices, SessionsAssumption
  DEF IInv, Rounds
<1>5. EmptyFiles'
  BY <1>1, Indices, SessionsAssumption
  DEF IInv, Told, EmptyFiles, EmptyFile
<1>6. Acknowledged'
  <2>1. \A n \in Names : Saved(n)' = Saved(n)
    BY <1>1 DEF IInv, Rounds, Saved
  <2>2. QED
    BY <1>1, <2>1 DEF IInv, Told, Acknowledged
<1>7. Answering'
  <2>1. \A n \in Names : Saved(n)' = Saved(n)
    BY <1>1 DEF IInv, Rounds, Saved
  <2>2. QED
    BY <1>1, <2>1, Indices DEF IInv, Told, Answering
<1>. QED
  BY <1>2, <1>3, <1>4, <1>5, <1>6, <1>7
  DEF IInv, Locks, Told

LEMMA WriteTmpKeeps ==
  ASSUME IInv, NEW n \in Names, WriteTmp(n)
  PROVE  IInv'
<1>1. /\ saver.at = "write" /\ saver.batch[n].dirty
      /\ saver'.at = "remove" /\ saver'.now = n
      /\ saver'.batch = saver.batch /\ saver'.last = saver.last
      /\ UNCHANGED <<lock, sessions, heap, made, thread, acked, disk, save, stopme, lost>>
  BY DEF WriteTmp, Dirty, web, IInv, TypeOK
<1>2. TypeOK'
  BY DEF WriteTmp, SaverSteps, web, IInv, TypeOK
<1>3. Places' /\ Locked' /\ Owned' /\ Current' /\ ServerLocked' /\ InMemory' /\ NewNames'
  BY <1>1, Indices, SessionsAssumption
  DEF IInv, Locks, Places, Locked, Working, Owned, Current, ServerLocked,
      InMemory, Unsaved, NewNames, Starting
<1>4. Rounds'
  BY <1>1, Indices, SessionsAssumption
  DEF IInv, Rounds
<1>5. EmptyFiles' /\ Acknowledged' /\ Answering'
  BY <1>1, Indices, SessionsAssumption
  DEF IInv, Told, EmptyFiles, EmptyFile, Locks, Places, Acknowledged, Saved,
      NewNames, Starting, Answering, Current, InMemory, Unsaved, Locked,
      Working
<1>. QED
  BY <1>2, <1>3, <1>4, <1>5
  DEF IInv, Locks, Told

LEMMA RemoveOldKeeps ==
  ASSUME IInv, RemoveOld
  PROVE  IInv'
<1>1. /\ saver.at = "remove" /\ saver'.at = "rename" /\ saver'.now = saver.now
      /\ saver'.batch = saver.batch /\ saver'.last = saver.last
      /\ saver.now \in Names /\ saver.batch[saver.now].dirty
      /\ disk'[saver.now] = AbsentFile
      /\ AbsentFile.data = {} /\ AbsentFile.state # "full"
      /\ \A n \in Names \ {saver.now} : disk'[n] = disk[n]
      /\ UNCHANGED <<lock, sessions, heap, made, thread, acked, save, stopme, lost>>
  BY DEF RemoveOld, web, IInv, TypeOK, Rounds, AbsentFile
<1>2. TypeOK'
  <2>1. AbsentFile \in File /\ "rename" \in SaverSteps
    BY DEF AbsentFile, File, SaverSteps
  <2>2. QED
    BY <2>1 DEF RemoveOld, web, IInv, TypeOK
<1>3. Places' /\ Locked' /\ Owned' /\ Current' /\ ServerLocked' /\ InMemory' /\ NewNames'
  BY <1>1, Indices, SessionsAssumption
  DEF IInv, Locks, Places, Locked, Working, Owned, Current, ServerLocked,
      InMemory, Unsaved, NewNames, Starting
<1>4. Rounds'
  BY <1>1, Indices, SessionsAssumption
  DEF IInv, Rounds
<1>5. EmptyFiles' /\ Acknowledged' /\ Answering'
  BY <1>1, Indices, SessionsAssumption
  DEF IInv, Told, EmptyFiles, EmptyFile, Locks, Places, Acknowledged, Saved,
      NewNames, Starting, Answering, Current, InMemory, Unsaved, Locked,
      Working
<1>. QED
  BY <1>2, <1>3, <1>4, <1>5
  DEF IInv, Locks, Told

LEMMA RenameKeeps ==
  ASSUME IInv, Rename
  PROVE  IInv'
<1>1. /\ saver.at = "rename" /\ saver'.at = "write" /\ saver'.last = saver.last
      /\ saver.now \in Names /\ saver.batch[saver.now].dirty
      /\ ~saver'.batch[saver.now].dirty
      /\ \A n \in Names \ {saver.now} : saver'.batch[n] = saver.batch[n]
      /\ disk'[saver.now].state = "full"
      /\ disk'[saver.now].data = saver.batch[saver.now].data
      /\ \A n \in Names \ {saver.now} : disk'[n] = disk[n]
      /\ UNCHANGED <<lock, sessions, heap, made, thread, acked, save, stopme, lost>>
  BY DEF Rename, Written, Full, Nothing, web, IInv, TypeOK, Rounds
<1>2. TypeOK'
  <2>1. saver' \in [at : SaverSteps, batch : [Names -> Copy], now : Names,
                    last : BOOLEAN]
    BY WrittenType DEF Rename, IInv
  <2>2. disk' \in [Names -> File]
    <3>1. saver.batch[saver.now] \in Copy /\ saver.now \in Names
      BY DEF IInv, TypeOK
    <3>2. Full(saver.batch[saver.now].data) \in File
      BY <3>1 DEF Full, File, Copy
    <3>3. QED
      BY <3>1, <3>2 DEF Rename, IInv, TypeOK
  <2>3. stored' \subseteq Names
    BY DEF Rename, IInv, TypeOK
  <2>4. QED
    BY <2>1, <2>2, <2>3 DEF Rename, web, IInv, TypeOK
<1>3. Places' /\ Locked' /\ Owned' /\ Current' /\ ServerLocked' /\ InMemory' /\ NewNames'
  BY <1>1, Indices, SessionsAssumption
  DEF IInv, Locks, Places, Locked, Working, Owned, Current, ServerLocked,
      InMemory, Unsaved, NewNames, Starting
<1>4. Rounds'
  BY <1>1, Indices, SessionsAssumption
  DEF IInv, Rounds
<1>5. EmptyFiles' /\ Acknowledged' /\ Answering'
  BY <1>1, Indices DEF IInv, Told, EmptyFiles, Acknowledged, Saved, Answering
<1>. QED
  BY <1>2, <1>3, <1>4, <1>5
  DEF IInv, Locks, Told

LEMMA RenameFailsKeeps ==
  ASSUME IInv, RenameFails
  PROVE  IInv'
<1>1. /\ saver.at = "rename" /\ saver'.at = "write" /\ saver'.last = saver.last
      /\ saver.now \in Names /\ saver.batch[saver.now].dirty
      /\ ~saver'.batch[saver.now].dirty
      /\ \A n \in Names \ {saver.now} : saver'.batch[n] = saver.batch[n]
      /\ save'[saver.now] = saver.batch[saver.now]
      /\ \A n \in Names \ {saver.now} : save'[n] = save[n]
      /\ lost'[saver.now] = lost[saver.now] \cup Taken
      /\ \A n \in Names \ {saver.now} : lost'[n] = lost[n]
      /\ UNCHANGED <<lock, sessions, heap, made, thread, acked, disk, stopme>>
  BY DEF RenameFails, Written, Nothing, web, IInv, TypeOK, Rounds
<1>2. TypeOK'
  <2>1. saver' \in [at : SaverSteps, batch : [Names -> Copy], now : Names,
                    last : BOOLEAN]
    BY WrittenType DEF RenameFails, IInv
  <2>2. lost' \in [Names -> SUBSET Updates]
    <3>1. Taken \in SUBSET Updates
      BY DEF Taken, IInv, TypeOK, Copy
    <3>2. QED
      BY <3>1 DEF RenameFails, IInv, TypeOK
  <2>3. QED
    BY <2>1, <2>2 DEF RenameFails, web, IInv, TypeOK
<1>3. Places' /\ Locked' /\ Owned' /\ Current' /\ ServerLocked' /\ InMemory' /\ NewNames'
  BY <1>1, Indices, SessionsAssumption
  DEF IInv, Locks, Places, Locked, Working, Owned, Current, ServerLocked,
      InMemory, Unsaved, NewNames, Starting
<1>4. Rounds'
  BY <1>1, Indices, SessionsAssumption
  DEF IInv, Rounds, Taken
<1>5. EmptyFiles'
  BY <1>1 DEF IInv, Told, EmptyFiles
<1>6. ASSUME NEW n \in Names
      PROVE  Saved(n) \ lost'[n] \subseteq Saved(n)' /\ lost[n] \subseteq lost'[n]
  <2>1. CASE n # saver.now
    BY <1>1, <2>1 DEF Saved
  <2>2. CASE n = saver.now
    <3>1. Saved(n)' = saver.batch[n].data
      BY <1>1, <2>2 DEF Saved
    <3>2. CASE ~save[n].dirty
      BY <1>1, <2>2, <3>1, <3>2 DEF Saved
    <3>3. CASE save[n].dirty /\ ~saver.last
      BY <1>1, <2>2, <3>1, <3>3 DEF Saved, Taken
    <3>4. CASE save[n].dirty /\ saver.last
      BY <1>1, <2>2, <3>1, <3>4 DEF Saved, Taken, IInv, Rounds
    <3>5. QED
      BY <3>2, <3>3, <3>4
  <2>3. QED
    BY <2>1, <2>2
<1>7. Acknowledged'
  BY <1>1, <1>6 DEF IInv, Told, Acknowledged
<1>8. Answering'
  BY <1>1, <1>6, Indices DEF IInv, Told, Answering
<1>. QED
  BY <1>2, <1>3, <1>4, <1>5, <1>7, <1>8
  DEF IInv, Locks, Told

LEMMA WriteFailsKeeps ==
  ASSUME IInv, WriteFails
  PROVE  IInv'
<1>1. /\ saver.at = "write" /\ saver'.at = "dead" /\ \A n \in Names : lost'[n] = Updates
      /\ saver'.batch = saver.batch /\ saver'.last = saver.last
      /\ UNCHANGED <<lock, sessions, heap, made, thread, acked, disk, save, stopme>>
  BY DEF WriteFails, web, IInv, TypeOK
<1>2. TypeOK'
  BY DEF WriteFails, SaverSteps, web, IInv, TypeOK
<1>3. Places' /\ Locked' /\ Owned' /\ Current' /\ ServerLocked' /\ InMemory' /\ NewNames'
  BY <1>1, Indices, SessionsAssumption
  DEF IInv, Locks, Places, Locked, Working, Owned, Current, ServerLocked,
      InMemory, Unsaved, NewNames, Starting
<1>4. Rounds'
  BY <1>1, Indices, SessionsAssumption
  DEF IInv, TypeOK, Copy, Rounds
<1>5. EmptyFiles'
  BY <1>1 DEF IInv, Told, EmptyFiles
<1>6. Acknowledged'
  BY <1>1 DEF IInv, TypeOK, Acknowledged
<1>7. Answering'
  <2>1. \A t \in Threads : thread[t].update # 0 => thread[t].update \in Updates
    BY SessionsAssumption DEF IInv, TypeOK, Updates
  <2>2. QED
    BY <1>1, <2>1, Indices DEF IInv, Told, Answering
<1>. QED
  BY <1>2, <1>3, <1>4, <1>5, <1>6, <1>7
  DEF IInv, Locks, Told

LEMMA RoundEndsKeeps ==
  ASSUME IInv, RoundEnds
  PROVE  IInv'
<1>1. /\ saver.at = "write" /\ \A n \in Names : ~saver.batch[n].dirty
      /\ saver'.at = (IF saver.last THEN "ended" ELSE "grab")
      /\ saver'.batch = saver.batch /\ saver'.last = saver.last
      /\ UNCHANGED <<lock, sessions, heap, made, thread, acked, disk, save, stopme, lost>>
  BY DEF RoundEnds, Dirty, web, IInv, TypeOK
<1>2. TypeOK'
  BY DEF RoundEnds, SaverSteps, web, IInv, TypeOK
<1>3. Places' /\ Locked' /\ Owned' /\ Current' /\ ServerLocked' /\ InMemory' /\ NewNames'
  BY <1>1, Indices, SessionsAssumption
  DEF IInv, Locks, Places, Locked, Working, Owned, Current, ServerLocked,
      InMemory, Unsaved, NewNames, Starting
<1>4. Rounds'
  BY <1>1, Indices, SessionsAssumption
  DEF IInv, Rounds
<1>5. EmptyFiles' /\ Acknowledged' /\ Answering'
  BY <1>1, Indices, SessionsAssumption
  DEF IInv, Told, EmptyFiles, EmptyFile, Locks, Places, Acknowledged, Saved,
      NewNames, Starting, Answering, Current, InMemory, Unsaved, Locked,
      Working
<1>. QED
  BY <1>2, <1>3, <1>4, <1>5
  DEF IInv, Locks, Told

LEMMA StopKeeps ==
  ASSUME IInv, Stop
  PROVE  IInv'
<1>1. /\ stopme' = TRUE /\ \A t \in Threads : thread[t].at = "idle"
      /\ UNCHANGED <<lock, sessions, heap, made, thread, acked, disk, save, saver, lost>>
  BY DEF Stop, At, web
<1>2. TypeOK'
  BY DEF Stop, web, IInv, TypeOK
<1>3. Places' /\ Locked' /\ Owned' /\ Current' /\ ServerLocked' /\ InMemory' /\ NewNames'
  BY <1>1, Indices, SessionsAssumption
  DEF IInv, Locks, Places, Locked, Working, Owned, Current, ServerLocked,
      InMemory, Unsaved, NewNames, Starting
<1>4. Rounds'
  BY <1>1, Indices, SessionsAssumption
  DEF IInv, Rounds
<1>5. EmptyFiles' /\ Acknowledged' /\ Answering'
  BY <1>1, Indices, SessionsAssumption
  DEF IInv, Told, EmptyFiles, EmptyFile, Locks, Places, Acknowledged, Saved,
      NewNames, Starting, Answering, Current, InMemory, Unsaved, Locked,
      Working
<1>. QED
  BY <1>2, <1>3, <1>4, <1>5
  DEF IInv, Locks, Told

LEMMA GrowOldKeeps ==
  ASSUME IInv, GrowOld
  PROVE  IInv'
<1>1. /\ \A o \in Objects :
           /\ heap'[o].lock = heap[o].lock /\ heap'[o].name = heap[o].name
           /\ heap'[o].data = heap[o].data
           /\ heap'[o].old <=> \/ heap[o].old
                               \/ /\ sessions[heap[o].name] = o
                                  /\ ~InUse(heap[o].name)
      /\ UNCHANGED <<lock, sessions, made, thread, acked, disk, save, saver, stopme, lost>>
  BY ZenonT(60) DEF GrowOld, files, IInv, TypeOK, Session
<1>2. TypeOK'
  <2>1. \A o \in Objects, old \in BOOLEAN :
          [heap[o] EXCEPT !.old = old] \in Session
    BY DEF IInv, TypeOK, Session
  <2> DEFINE Aged(o) == [heap[o] EXCEPT !.old = @ \/ (sessions[heap[o].name] = o
                                                 /\ ~InUse(heap[o].name))]
  <2>a. \A o \in Objects : Aged(o) \in Session
    <3>1. TAKE o \in Objects
    <3>2. heap[o].old \in BOOLEAN
      BY DEF IInv, TypeOK, Session
    <3>3. (heap[o].old \/ (sessions[heap[o].name] = o /\ ~InUse(heap[o].name)))
            \in BOOLEAN
      OBVIOUS
    <3>4. QED
      BY <2>1, <3>3, Zenon
  <2>b. heap' = [o \in Objects |-> Aged(o)]
    BY DEF GrowOld
  <2>c. heap' \in [Objects -> Session]
    BY <2>a, <2>b, Zenon
  <2>2. QED
    BY <2>c DEF GrowOld, files, IInv, TypeOK
<1>3. Places' /\ Locked' /\ Owned' /\ Current' /\ ServerLocked' /\ InMemory' /\ NewNames'
  BY <1>1, Indices, SessionsAssumption, SMTT(30)
  DEF IInv, Locks, Places, Locked, Working, Owned, Current, InUse, At,
      ServerLocked, InMemory, Unsaved, NewNames, Starting
<1>4. Rounds'
  BY <1>1, Indices, SessionsAssumption
  DEF IInv, Rounds
<1>5. EmptyFiles' /\ Acknowledged' /\ Answering'
  BY <1>1, Indices, SessionsAssumption
  DEF IInv, Told, EmptyFiles, EmptyFile, Locks, Places, Acknowledged, Saved,
      NewNames, Starting, Answering, Current, InMemory, Unsaved, Locked,
      Working
<1>. QED
  BY <1>2, <1>3, <1>4, <1>5
  DEF IInv, Locks, Told

LEMMA KillKeeps ==
  ASSUME IInv, Kill
  PROVE  IInv'
<1>1. /\ lock' = Nobody /\ \A n \in Names : sessions'[n] = 0 /\ ~save'[n].dirty
      /\ \A o \in Objects : heap'[o].lock = Nobody
      /\ made' = 0 /\ ~stopme' /\ saver'.at = "grab" /\ ~saver'.last
      /\ \A n \in Names : ~saver'.batch[n].dirty
      /\ \A t \in Threads : /\ thread'[t].at = "idle" /\ thread'[t].obj = 0
                            /\ thread'[t].kind = "call" /\ thread'[t].update = 0
      /\ \A n \in Names : acked'[n] = acked[n] \cap disk[n].data
      /\ \A n \in Names : lost'[n] = {}
      /\ UNCHANGED disk
  BY DEF Kill, NewProcess, SaverStarts, Resting, Nothing
<1>2. TypeOK'
  <2>1. /\ acked' \in [Names -> SUBSET Updates]
        /\ lost' \in [Names -> SUBSET Updates]
    BY DEF Kill, IInv, TypeOK
  <2>2. QED
    BY <2>1, NewProcessType DEF Kill, IInv, TypeOK, Request
<1>3. Places' /\ Locked' /\ Owned' /\ Current' /\ ServerLocked' /\ InMemory' /\ NewNames'
  BY <1>1, Indices, SessionsAssumption
  DEF IInv, Locks, Places, Locked, Working, Owned, Current, ServerLocked,
      InMemory, Unsaved, NewNames, Starting
<1>4. Rounds'
  BY <1>1, Indices, SessionsAssumption
  DEF IInv, Rounds
<1>5. EmptyFiles' /\ Acknowledged' /\ Answering'
  BY <1>1, Indices, SessionsAssumption
  DEF IInv, Told, EmptyFiles, EmptyFile, Locks, Places, Acknowledged, Saved,
      NewNames, Starting, Answering, Current, InMemory, Unsaved, Locked,
      Working
<1>. QED
  BY <1>2, <1>3, <1>4, <1>5
  DEF IInv, Locks, Told

LEMMA RestartKeeps ==
  ASSUME IInv, Restart
  PROVE  IInv'
<1>1. /\ lock' = Nobody /\ \A n \in Names : sessions'[n] = 0 /\ ~save'[n].dirty
      /\ \A o \in Objects : heap'[o].lock = Nobody
      /\ made' = 0 /\ ~stopme' /\ saver'.at = "grab" /\ ~saver'.last
      /\ \A n \in Names : ~saver'.batch[n].dirty
      /\ \A t \in Threads : /\ thread'[t].at = "idle" /\ thread'[t].obj = 0
                            /\ thread'[t].kind = "call" /\ thread'[t].update = 0
      /\ saver.at = "ended"
      /\ \A n \in Names : acked'[n] = acked[n] \ lost[n] /\ lost'[n] = {}
      /\ UNCHANGED disk
  BY DEF Restart, NewProcess, SaverStarts, Resting, Nothing
<1>2. TypeOK'
  <2>1. /\ acked' \in [Names -> SUBSET Updates]
        /\ lost' \in [Names -> SUBSET Updates]
    BY DEF Restart, IInv, TypeOK
  <2>2. QED
    BY <2>1, NewProcessType DEF Restart, IInv, TypeOK, Request
<1>3. Places' /\ Locked' /\ Owned' /\ Current' /\ ServerLocked' /\ InMemory' /\ NewNames'
  BY <1>1, Indices, SessionsAssumption
  DEF IInv, Locks, Places, Locked, Working, Owned, Current, ServerLocked,
      InMemory, Unsaved, NewNames, Starting
<1>4. Rounds'
  BY <1>1, Indices, SessionsAssumption
  DEF IInv, Rounds
<1>5. EmptyFiles'
  BY <1>1 DEF IInv, Told, EmptyFiles
<1>6. Acknowledged'
  <2>1. \A n \in Names : Saved(n) \ lost[n] \subseteq disk[n].data
    BY <1>1 DEF IInv, Rounds, Saved
  <2>2. QED
    BY <1>1, <2>1 DEF IInv, Told, Acknowledged, Saved
<1>7. Answering'
  BY <1>1 DEF Answering
<1>. QED
  BY <1>2, <1>3, <1>4, <1>5, <1>6, <1>7
  DEF IInv, Locks, Told

--------------------------------------------------------------------------------
LEMMA InitHolds == Init => IInv
<1> SUFFICES ASSUME Init PROVE IInv
  OBVIOUS
<1> DEFINE some == CHOOSE n \in Names : TRUE
<1>1. some \in Names
  BY SessionsAssumption
<1>2. TypeOK
  <2>1. [name |-> some, data |-> {}, lock |-> Nobody, old |-> FALSE] \in Session
    BY <1>1 DEF Session, Holders
  <2>2. Nothing \in Copy
    BY DEF Nothing, Copy
  <2>3. Resting \in Request
    BY <1>1, SessionsAssumption DEF Resting, Request, Steps, Kinds
  <2>4. saver \in [at : SaverSteps, batch : [Names -> Copy], now : Names,
                   last : BOOLEAN]
    BY <1>1, <2>2 DEF Init, SaverStarts, SaverSteps
  <2>5. Full({}) \in File /\ AbsentFile \in File
    BY DEF Full, AbsentFile, File
  <2> HIDE DEF some
  <2>6. heap \in [Objects -> Session]
    <3>1. heap = [o \in Objects |-> [name |-> some, data |-> {}, lock |-> Nobody,
                                     old |-> FALSE]]
      BY DEF Init, some
    <3>2. QED
      BY <2>1, <3>1
  <2>7. disk \in [Names -> File] /\ save \in [Names -> Copy]
    BY <2>2, <2>5 DEF Init
  <2>8. thread \in [Threads -> Request]
    BY <2>3 DEF Init
  <2>9. sessions \in [Names -> 0 .. MaxObjects]
    BY SessionsAssumption DEF Init
  <2>10. acked \in [Names -> SUBSET Updates]
    BY DEF Init
  <2>11. stopme \in BOOLEAN
    BY DEF Init
  <2>12. /\ lock \in Holders /\ made \in 0 .. MaxObjects
         /\ updates \in 0 .. MaxUpdates /\ stored \subseteq Names
         /\ lost \in [Names -> SUBSET Updates]
    <3>1. /\ lock = Nobody /\ made = 0 /\ updates = 0
          /\ stored = Known /\ lost = [n \in Names |-> {}]
      BY DEF Init
    <3>2. QED
      BY <3>1, SessionsAssumption DEF Holders
  <2>13. QED
    BY <2>4, <2>6, <2>7, <2>8, <2>9, <2>10, <2>11, <2>12 DEF TypeOK, Request
<1>3. /\ lock = Nobody /\ made = 0 /\ ~stopme
      /\ \A n \in Names : sessions[n] = 0 /\ ~save[n].dirty /\ acked[n] = {}
                          /\ ~saver.batch[n].dirty
                          /\ disk[n].data = {}
      /\ \A o \in Objects : heap[o].lock = Nobody
      /\ saver.at = "grab" /\ ~saver.last
      /\ \A t \in Threads : /\ thread[t].at = "idle" /\ thread[t].obj = 0
                            /\ thread[t].kind = "call" /\ thread[t].update = 0
  BY DEF Init, SaverStarts, Resting, Nothing, Full, AbsentFile
<1>4. Locks
  BY <1>3, SessionsAssumption
  DEF Locks, Places, Locked, Owned, Current, ServerLocked, InMemory, NewNames,
      Unsaved, Starting, Working
<1>5. Rounds /\ Told
  BY <1>3 DEF Rounds, Told, EmptyFiles, Acknowledged, Answering
<1>6. QED
  BY <1>2, <1>4, <1>5 DEF IInv

LEMMA ThreadKeeps ==
  ASSUME IInv, NEW t \in Threads, ThreadStep(t)
  PROVE  IInv'
  BY PurgeKeeps, MakeFileKeeps, CreateKeeps, PutKeeps, GetFromMemoryKeeps,
     GetFromDiskKeeps, LoadKeeps, LoadNothingKeeps, LockSessionKeeps,
     ChangeAndSaveKeeps, ChangeOnlyKeeps, JustReadKeeps, StartRaisesKeeps,
     SaveKeeps, OpenPageKeeps, RefreshPageKeeps, ReleaseKeeps, SMTT(30)
  DEF ThreadStep

LEMMA StutterKeeps == IInv /\ UNCHANGED vars => IInv'
  BY DEF vars, IInv, TypeOK, Locks, Places, Locked, Owned, Current, ServerLocked,
         InMemory, Unsaved, NewNames, Rounds, Told, EmptyFiles, Acknowledged,
         Answering, Saved

LEMMA StepKeeps == IInv /\ [Next]_vars => IInv'
<1> SUFFICES ASSUME IInv, [Next]_vars PROVE IInv'
  OBVIOUS
<1>1. ASSUME NEW t \in Threads, ThreadStep(t) PROVE IInv'
  BY <1>1, ThreadKeeps
<1>2. ASSUME NEW t \in Threads, NEW kind \in Kinds, NEW n \in Names, Begin(t, kind, n)
      PROVE  IInv'
  BY <1>2, BeginKeeps
<1>3. CASE SaverStep
  BY <1>3, GrabKeeps, RoundEndsKeeps, RemoveOldKeeps, RenameKeeps, WriteTmpKeeps
  DEF SaverStep
<1>4. CASE WriteFails \/ RenameFails \/ Stop \/ GrowOld \/ Kill \/ Restart
  BY <1>4, WriteFailsKeeps, RenameFailsKeeps, StopKeeps, GrowOldKeeps, KillKeeps,
     RestartKeeps
<1>5. CASE UNCHANGED vars
  BY <1>5, StutterKeeps
<1>6. QED
  BY <1>1, <1>2, <1>3, <1>4, <1>5 DEF Next

LEMMA Invariance == Spec => []IInv
  BY InitHolds, StepKeeps, PTL DEF Spec

(* The state of the web server has its type in every reachable state       *)
(* (GUI.py, lines 58-463, 601-772).                                        *)
THEOREM SessionsTypeCorrect == Spec => []TypeOK
<1>1. IInv => TypeOK
  BY DEF IInv
<1>2. QED
  BY <1>1, Invariance, PTL

(* No two requests are ever at work on a session, whether it stayed in     *)
(* memory or left it and came back as another object with another lock     *)
(* (_getSession, GUI.py, lines 420-463).                                   *)
THEOREM OneRequestAtATime == Spec => []OneAtATime
<1>1. IInv => OneAtATime
  <2> SUFFICES ASSUME IInv, NEW n \in Names PROVE Cardinality(Inside(n)) <= 1
    BY DEF OneAtATime
  <2>1. ASSUME NEW t \in Inside(n), NEW u \in Inside(n) PROVE t = u
    <3>1. ASSUME NEW v \in Inside(n)
          PROVE  /\ v \in Threads /\ thread[v].obj = sessions[n]
                 /\ heap[thread[v].obj].lock = v
      BY DEF IInv, Locks, Inside, Places, Current, Locked, Working
    <3>2. QED
      BY <3>1
  <2>2. CASE Inside(n) = {}
    BY <2>2, FS_EmptySet
  <2>3. CASE Inside(n) # {}
    <3>1. PICK t \in Inside(n) : TRUE
      BY <2>3
    <3>2. Inside(n) = {t}
      BY <2>1, <3>1
    <3>3. QED
      BY <3>2, FS_Singleton
  <2>4. QED
    BY <2>2, <2>3
<1>2. QED
  BY <1>1, Invariance, PTL

(* Whatever is purged, reloaded, restarted or killed, a change that a      *)
(* client was told of is in the session the next request sees, from memory *)
(* or from the file.  A failed rename takes no more than the newer of two  *)
(* copies that wait to be written, or the last one of a server that stops; *)
(* the promise ends when the session thread dies (SessionThread and        *)
(* _getSession, GUI.py, lines 52-124, 420-463).                            *)
THEOREM ChangesKept == Spec => []NoUpdateLost
<1>1. IInv => NoUpdateLost
  BY DEF IInv, Told, Acknowledged, Saved, NoUpdateLost
<1>2. QED
  BY <1>1, Invariance, PTL

(* When the session thread has nothing left to write, and when it has      *)
(* ended, every change a client was told of is on disk, except what a      *)
(* failed rename put older data over, what it could not put back in the    *)
(* last round, and everything once a failed write has ended the thread     *)
(* (SessionThread.run and stop, GUI.py, lines 87-124).                     *)
THEOREM AllFlushed == Spec => []Flushed
<1>1. IInv => Flushed
  BY DEF IInv, Told, Acknowledged, Saved, Flushed, Rounds
<1>2. QED
  BY <1>1, Invariance, PTL
================================================================================
