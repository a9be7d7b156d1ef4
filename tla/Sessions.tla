------------------------------ MODULE Sessions ------------------------------
(***************************************************************************)
(* The sessions of the web server (Core/GUI.py).  Request threads find a   *)
(* session in memory or load it from its file, lock it, change it and hand *)
(* a copy to a thread that writes the files.  Sessions nobody used for 15  *)
(* minutes leave the memory whenever somebody starts a new one.            *)
(*                                                                         *)
(* The server runs with a thread switch interval of hours (GUI.py, lines   *)
(* 3-8; bin/monGui, line 206): threads change at locks that are taken and  *)
(* at file operations only.  A step here is the code from one such point   *)
(* to the next.                                                            *)
(***************************************************************************)
EXTENDS Integers, FiniteSets

CONSTANTS
  Threads,      \* HTTP threads
  Names,        \* session ids
  Known,        \* the sessions that have a file when the server starts
  MaxUpdates,   \* bound: changes made to sessions
  MaxObjects,   \* bound: session objects made between two restarts
  MaxRequests,  \* bound: requests
  MaxFaults,    \* bound: kills of the server and file operations that fail
  Nobody, Gone  \* a free lock, a lock whose holder left without releasing it

ASSUME SessionsAssumption ==
  /\ Known \subseteq Names /\ Names # {}
  /\ MaxUpdates \in Nat /\ MaxObjects \in Nat /\ MaxRequests \in Nat
  /\ MaxFaults \in Nat
  /\ Nobody \notin Threads /\ Gone \notin Threads /\ Nobody # Gone

(* What a session holds is told apart by the changes that made it.         *)
Updates == 1 .. MaxUpdates
Objects == 1 .. MaxObjects
Holders == Threads \cup {Nobody, Gone}

VARIABLES
  lock,      \* Server.lock
  sessions,  \* Server.sessions: the object of a session, 0 if not in memory
  heap,      \* the session objects, those no longer in sessions included
  made,      \* objects made so far
  disk,      \* the session files
  save,      \* SessionThread._save
  saver,     \* the session thread
  stopme,    \* SessionThread._stopme
  thread,    \* the HTTP threads
  updates,   \* changes made so far
  requests, faults,
  acked,     \* the changes each session's clients were told of
  stored,    \* the sessions whose file was complete at some time
  lost       \* the changes that failed file operations took, session by session

vars == <<lock, sessions, heap, made, disk, save, saver, stopme, thread,
          updates, requests, faults, acked, stored, lost>>
web == <<lock, sessions, heap, made, thread, updates, requests, acked>>
files == <<disk, save, saver, stopme, stored, lost>>

File == [state : {"absent", "empty", "full"}, data : SUBSET Updates]
Copy == [dirty : BOOLEAN, data : SUBSET Updates]
Session == [name : Names, data : SUBSET Updates, lock : Holders, old : BOOLEAN]

Nothing == [dirty |-> FALSE, data |-> {}]
AbsentFile == [state |-> "absent", data |-> {}]
EmptyFile == [state |-> "empty", data |-> {}]
Full(data) == [state |-> "full", data |-> data]

Kinds == {"start", "call", "stranger"}
Steps == {"idle", "purge", "mkstemp", "create", "put", "get", "load", "wait",
          "work", "save", "page", "stat", "release"}

SaverStarts == [at |-> "grab", batch |-> [n \in Names |-> Nothing],
                now |-> CHOOSE n \in Names : TRUE, last |-> FALSE]
Resting == [at |-> "idle", kind |-> "call", name |-> CHOOSE n \in Names : TRUE,
            obj |-> 0, update |-> 0]

Init ==
  /\ lock = Nobody
  /\ sessions = [n \in Names |-> 0]
  /\ heap = [o \in Objects |->
               [name |-> CHOOSE n \in Names : TRUE, data |-> {},
                lock |-> Nobody, old |-> FALSE]]
  /\ made = 0
  /\ disk = [n \in Names |-> IF n \in Known THEN Full({}) ELSE AbsentFile]
  /\ save = [n \in Names |-> Nothing]
  /\ saver = SaverStarts
  /\ stopme = FALSE
  /\ thread = [t \in Threads |-> Resting]
  /\ updates = 0 /\ requests = 0 /\ faults = 0
  /\ acked = [n \in Names |-> {}]
  /\ stored = Known
  /\ lost = [n \in Names |-> {}]

--------------------------------------------------------------------------------
(* Requests.                                                               *)
Goto(t, step) == thread' = [thread EXCEPT ![t].at = step]
At(t, step) == thread[t].at = step

(* Some request is for the session, or it has to be written.               *)
InUse(n) ==
  \/ save[n].dirty \/ saver.batch[n].dirty
  \/ \E t \in Threads : ~At(t, "idle") /\ thread[t].name = n

(* start() makes a session under a name that has no file, session() is     *)
(* called with one; the client may be another than the session's.          *)
Begin(t, kind, n) ==
  /\ At(t, "idle") /\ ~stopme /\ requests < MaxRequests
  /\ kind = "start" =>
       /\ disk[n].state = "absent" /\ n \notin stored
       /\ sessions[n] = 0 /\ ~InUse(n)
  /\ thread' = [thread EXCEPT ![t] =
       [at |-> IF kind = "start" THEN "purge" ELSE "get", kind |-> kind,
        name |-> n, obj |-> 0, update |-> 0]]
  /\ requests' = requests + 1
  /\ UNCHANGED <<lock, sessions, heap, made, updates, acked, faults, files>>

(* Slip: sessions leave the memory whatever their age.                     *)
PurgeAll(t) ==
  /\ At(t, "purge") /\ lock = Nobody
  /\ sessions' = [n \in Names |-> 0]
  /\ Goto(t, "mkstemp")
  /\ UNCHANGED <<lock, heap, made, updates, requests, acked, faults, files>>

(* _newSession: old sessions leave the memory ...                          *)
Purge(t) ==
  /\ At(t, "purge") /\ lock = Nobody
  /\ sessions' = [n \in Names |->
       IF sessions[n] # 0 /\ heap[sessions[n]].old THEN 0 ELSE sessions[n]]
  /\ Goto(t, "mkstemp")
  /\ UNCHANGED <<lock, heap, made, updates, requests, acked, faults, files>>

(* ... an empty file reserves the new name ...                             *)
MakeFile(t) ==
  /\ At(t, "mkstemp")
  /\ disk' = [disk EXCEPT ![thread[t].name] = EmptyFile]
  /\ Goto(t, "create")
  /\ UNCHANGED <<lock, sessions, heap, made, updates, requests, acked, faults,
                 save, saver, stopme, stored, lost>>

(* ... and the workspaces and sources fill a new session in.               *)
Create(t) ==
  /\ At(t, "create") /\ made < MaxObjects
  /\ made' = made + 1
  /\ heap' = [heap EXCEPT ![made + 1] =
       [name |-> thread[t].name, data |-> {}, lock |-> Nobody, old |-> FALSE]]
  /\ thread' = [thread EXCEPT ![t].at = "put", ![t].obj = made + 1]
  /\ UNCHANGED <<lock, sessions, updates, requests, acked, faults, files>>

(* SessionThread.save.                                                     *)
Hand(n, data) == save' = [save EXCEPT ![n] = [dirty |-> TRUE, data |-> data]]

(* _saveSession: the object the thread holds becomes the session, a copy   *)
(* of it goes to the session thread.                                       *)
SaveSession(t, next) ==
  LET o == thread[t].obj
      n == heap[o].name IN
  /\ lock = Nobody
  /\ heap' = [heap EXCEPT ![o].old = FALSE]
  /\ sessions' = [sessions EXCEPT ![n] = o]
  /\ Hand(n, heap[o].data)
  /\ Goto(t, next)
  /\ UNCHANGED <<lock, made, updates, requests, acked, faults,
                 disk, saver, stopme, stored, lost>>

Put(t) == At(t, "put") /\ SaveSession(t, "get")

(* Slip: a session that is locked is not waited for.                       *)
TakeAtOnce(t, o, h) ==
  IF thread[t].kind = "stranger"
  THEN thread' = [thread EXCEPT ![t].at = "page"] /\ heap' = h
  ELSE /\ thread' = [thread EXCEPT ![t].at = "work", ![t].obj = o]
       /\ heap' = [h EXCEPT ![o].lock = t, ![o].old = FALSE]

(* _getSession with the session in memory: its lock is taken at once if it *)
(* is free.  The session of another client is not given out.               *)
Take(t, o, h) ==
  IF thread[t].kind = "stranger"
  THEN thread' = [thread EXCEPT ![t].at = "page"] /\ heap' = h
  ELSE IF h[o].lock = Nobody
  THEN /\ thread' = [thread EXCEPT ![t].at = "work", ![t].obj = o]
       /\ heap' = [h EXCEPT ![o].lock = t, ![o].old = FALSE]
  ELSE thread' = [thread EXCEPT ![t].at = "wait", ![t].obj = o] /\ heap' = h

GetFromMemory(t) ==
  LET n == thread[t].name IN
  /\ At(t, "get") /\ lock = Nobody /\ sessions[n] # 0
  /\ Take(t, sessions[n], heap)
  /\ UNCHANGED <<lock, sessions, made, updates, requests, acked, faults, files>>

(* Otherwise the file is looked for, with the server locked.               *)
GetFromDisk(t) ==
  /\ At(t, "get") /\ lock = Nobody /\ sessions[thread[t].name] = 0
  /\ lock' = t
  /\ Goto(t, "load")
  /\ UNCHANGED <<sessions, heap, made, updates, requests, acked, faults, files>>

Load(t) ==
  LET n == thread[t].name IN
  /\ At(t, "load") /\ disk[n].state = "full" /\ made < MaxObjects
  /\ lock' = Nobody
  /\ made' = made + 1
  /\ sessions' = [sessions EXCEPT ![n] = made + 1]
  /\ \E old \in BOOLEAN :  \* the stamp comes from the file
       Take(t, made + 1, [heap EXCEPT ![made + 1] =
         [name |-> n, data |-> disk[n].data, lock |-> Nobody, old |-> old]])
  /\ UNCHANGED <<updates, requests, acked, faults, files>>

(* No file, or one that cannot be read: the answer is the "invalid" page.  *)
LoadNothing(t) ==
  /\ At(t, "load") /\ disk[thread[t].name].state # "full"
  /\ lock' = Nobody
  /\ Goto(t, "page")
  /\ UNCHANGED <<sessions, heap, made, updates, requests, acked, faults, files>>

LockSession(t) ==
  LET o == thread[t].obj IN
  /\ At(t, "wait") /\ heap[o].lock = Nobody
  /\ heap' = [heap EXCEPT ![o].lock = t, ![o].old = FALSE]
  /\ Goto(t, "work")
  /\ UNCHANGED <<lock, sessions, made, updates, requests, acked, faults, files>>

(* The session is changed; _saveSession follows unless the method does not *)
(* save, or raises half way.                                               *)
Change(t, next) ==
  LET o == thread[t].obj IN
  /\ updates < MaxUpdates
  /\ updates' = updates + 1
  /\ heap' = [heap EXCEPT ![o].data = @ \cup {updates + 1}]
  /\ thread' = [thread EXCEPT ![t].at = next,
                  ![t].update = IF next = "save" THEN updates + 1 ELSE 0]
  /\ UNCHANGED <<lock, sessions, made, requests, acked, faults, files>>

ChangeAndSave(t) == At(t, "work") /\ Change(t, "save")

ChangeOnly(t) ==
  At(t, "work") /\ thread[t].kind = "call" /\ Change(t, "release")

(* sessionIndex renders a template; other methods only read the session.   *)
JustRead(t) ==
  /\ At(t, "work") /\ thread[t].kind = "call"
  /\ \E next \in {"page", "release"} : Goto(t, next)
  /\ UNCHANGED <<lock, sessions, heap, made, updates, requests, acked, faults,
                 files>>

(* start() has no finally clause: when the workspace raises on what the    *)
(* URL says, the new session stays locked for good.                        *)
StartRaises(t) ==
  LET o == thread[t].obj IN
  /\ At(t, "work") /\ thread[t].kind = "start"
  /\ heap' = [heap EXCEPT ![o].lock = Gone]
  /\ thread' = [thread EXCEPT ![t] = Resting]
  /\ UNCHANGED <<lock, sessions, made, updates, requests, acked, faults, files>>

Save(t) == At(t, "save") /\ SaveSession(t, "release")

(* _maybeRefreshFile keeps the server locked while it looks at the file of *)
(* a template; if that fails the lock is not released.                     *)
OpenPage(t) ==
  /\ At(t, "page") /\ lock = Nobody
  /\ lock' = t
  /\ Goto(t, "stat")
  /\ UNCHANGED <<sessions, heap, made, updates, requests, acked, faults, files>>

RefreshPage(t) ==
  /\ At(t, "stat")
  /\ \/ lock' = Nobody /\ UNCHANGED faults
     \/ faults < MaxFaults /\ faults' = faults + 1 /\ lock' = Gone
  /\ thread' = [thread EXCEPT ![t] =
       IF thread[t].obj = 0 THEN Resting ELSE [@ EXCEPT !.at = "release"]]
  /\ UNCHANGED <<sessions, heap, made, updates, requests, acked, files>>

(* Slip: the answer leaves, the lock stays.                                *)
ReleaseNothing(t) ==
  LET u == thread[t].update IN
  /\ At(t, "release")
  /\ acked' = [acked EXCEPT ![thread[t].name] = @ \cup (IF u = 0 THEN {} ELSE {u})]
  /\ thread' = [thread EXCEPT ![t] = Resting]
  /\ UNCHANGED <<lock, sessions, heap, made, updates, requests, faults, files>>

(* _releaseSession, and the answer.                                        *)
Release(t) ==
  LET o == thread[t].obj
      u == thread[t].update IN
  /\ At(t, "release")
  /\ heap' = [heap EXCEPT ![o].lock = Nobody]
  /\ acked' = [acked EXCEPT ![heap[o].name] = @ \cup (IF u = 0 THEN {} ELSE {u})]
  /\ thread' = [thread EXCEPT ![t] = Resting]
  /\ UNCHANGED <<lock, sessions, made, updates, requests, faults, files>>

--------------------------------------------------------------------------------
(* The session thread.                                                     *)
Dirty == {n \in Names : saver.batch[n].dirty}

(* A round begins with everything that was saved since the last one; the   *)
(* rounds that find nothing and do not end the thread change nothing.      *)
Grab ==
  /\ saver.at = "grab"
  /\ stopme \/ \E n \in Names : save[n].dirty
  /\ saver' = [saver EXCEPT !.at = "write", !.batch = save, !.last = stopme]
  /\ save' = [n \in Names |-> Nothing]
  /\ UNCHANGED <<web, faults, disk, stopme, stored, lost>>

SaverSteps == {"grab", "write", "remove", "rename", "ended", "dead"}

(* One session after the other is pickled into a temporary file, which     *)
(* nobody else reads, ...                                                  *)
WriteTmp(n) ==
  /\ saver.at = "write" /\ n \in Dirty
  /\ saver' = [saver EXCEPT !.at = "remove", !.now = n]
  /\ UNCHANGED <<web, faults, disk, save, stopme, stored, lost>>

(* ... the session file is removed, and the temporary file takes its name. *)
RemoveOld ==
  /\ saver.at = "remove"
  /\ disk' = [disk EXCEPT ![saver.now] = AbsentFile]
  /\ saver' = [saver EXCEPT !.at = "rename"]
  /\ UNCHANGED <<web, faults, save, stopme, stored, lost>>

Written == [saver EXCEPT !.at = "write", !.batch[saver.now] = Nothing]

Rename ==
  /\ saver.at = "rename"
  /\ disk' = [disk EXCEPT ![saver.now] = Full(saver.batch[saver.now].data)]
  /\ stored' = stored \cup {saver.now}
  /\ saver' = Written
  /\ UNCHANGED <<web, faults, save, stopme, lost>>

(* A failed rename puts the data back for the next round, over what was    *)
(* saved meanwhile.  After the last round there is none.                   *)
Taken ==
  IF saver.last THEN saver.batch[saver.now].data
  ELSE save[saver.now].data \ saver.batch[saver.now].data

(* Slip: the data of a failed rename is not put back.                      *)
RenameForgets ==
  /\ saver.at = "rename" /\ faults < MaxFaults
  /\ faults' = faults + 1
  /\ lost' = [lost EXCEPT ![saver.now] = @ \cup Taken]
  /\ saver' = Written
  /\ UNCHANGED <<web, disk, save, stopme, stored>>

RenameFails ==
  /\ saver.at = "rename" /\ faults < MaxFaults
  /\ faults' = faults + 1
  /\ save' = [save EXCEPT ![saver.now] = saver.batch[saver.now]]
  /\ lost' = [lost EXCEPT ![saver.now] = @ \cup Taken]
  /\ saver' = Written
  /\ UNCHANGED <<web, disk, stopme, stored>>

(* No exception of open() or pickle.dump() is caught: the thread ends, and *)
(* nothing is written any more, what clients are yet to be told included.  *)
WriteFails ==
  /\ saver.at = "write" /\ Dirty # {} /\ faults < MaxFaults
  /\ faults' = faults + 1
  /\ lost' = [n \in Names |-> Updates]
  /\ saver' = [saver EXCEPT !.at = "dead"]
  /\ UNCHANGED <<web, disk, save, stopme, stored>>

RoundEnds ==
  /\ saver.at = "write" /\ Dirty = {}
  /\ saver' = [saver EXCEPT !.at = IF saver.last THEN "ended" ELSE "grab"]
  /\ UNCHANGED <<web, faults, disk, save, stopme, stored, lost>>

(* The engine stops the HTTP server, with its threads, before the others.  *)
Stop ==
  /\ ~stopme /\ \A t \in Threads : At(t, "idle")
  /\ stopme' = TRUE
  /\ UNCHANGED <<web, faults, disk, save, saver, stored, lost>>

--------------------------------------------------------------------------------
(* Fifteen minutes pass.  Requests and rounds of the session thread do not *)
(* take that long, so only sessions nobody uses and nobody has to write    *)
(* become old.                                                             *)
GrowOld ==
  /\ \E n \in Names : sessions[n] # 0 /\ ~InUse(n) /\ ~heap[sessions[n]].old
  /\ heap' = [o \in Objects |->
       [heap[o] EXCEPT !.old = @ \/ (sessions[heap[o].name] = o
                                      /\ ~InUse(heap[o].name))]]
  /\ UNCHANGED <<lock, sessions, made, thread, updates, requests, acked, faults,
                 files>>

(* The memory of a server that starts.                                     *)
NewProcess ==
  /\ lock' = Nobody
  /\ sessions' = [n \in Names |-> 0]
  /\ heap' = [o \in Objects |->
               [name |-> CHOOSE n \in Names : TRUE, data |-> {},
                lock |-> Nobody, old |-> FALSE]]
  /\ made' = 0
  /\ save' = [n \in Names |-> Nothing]
  /\ saver' = SaverStarts
  /\ stopme' = FALSE
  /\ thread' = [t \in Threads |-> Resting]

(* SIGKILL, or a crash, and the restart by the parent process.  What had   *)
(* not been written is gone: "about once a second" is what is promised.    *)
Kill ==
  /\ faults < MaxFaults
  /\ faults' = faults + 1
  /\ NewProcess
  /\ acked' = [n \in Names |-> acked[n] \cap disk[n].data]
  /\ lost' = [n \in Names |-> {}]
  /\ UNCHANGED <<disk, updates, requests, stored>>

(* An orderly stop lets the session thread finish: only what a failed file *)
(* operation took is gone.                                                 *)
Restart ==
  /\ saver.at = "ended"
  /\ NewProcess
  /\ acked' = [n \in Names |-> acked[n] \ lost[n]]
  /\ lost' = [n \in Names |-> {}]
  /\ UNCHANGED <<disk, updates, requests, faults, stored>>

ThreadStep(t) ==
  /\ ~At(t, "idle")
  /\ \/ Purge(t) \/ MakeFile(t) \/ Create(t) \/ Put(t) \/ GetFromMemory(t)
     \/ GetFromDisk(t) \/ Load(t) \/ LoadNothing(t) \/ LockSession(t)
     \/ ChangeAndSave(t) \/ ChangeOnly(t) \/ JustRead(t) \/ StartRaises(t)
     \/ Save(t) \/ OpenPage(t) \/ RefreshPage(t) \/ Release(t)

SaverStep ==
  \/ Grab \/ RoundEnds
  \/ RemoveOld \/ Rename \/ \E n \in Names : WriteTmp(n)

Next ==
  \/ \E t \in Threads :
       ThreadStep(t) \/ \E kind \in Kinds, n \in Names : Begin(t, kind, n)
  \/ SaverStep \/ WriteFails \/ RenameFails
  \/ Stop \/ GrowOld \/ Kill \/ Restart

Spec == Init /\ [][Next]_vars

(* The threads are scheduled, and the waiters for a lock get it in turn.   *)
FairSpec == Spec /\ \A t \in Threads : SF_vars(ThreadStep(t))

--------------------------------------------------------------------------------
TypeOK ==
  /\ lock \in Holders
  /\ sessions \in [Names -> 0 .. MaxObjects]
  /\ heap \in [Objects -> Session]
  /\ made \in 0 .. MaxObjects
  /\ disk \in [Names -> File]
  /\ save \in [Names -> Copy]
  /\ saver \in [at : SaverSteps, batch : [Names -> Copy], now : Names,
               last : BOOLEAN]
  /\ stopme \in BOOLEAN
  /\ thread \in [Threads -> [at : Steps, kind : Kinds, name : Names,
                             obj : 0 .. MaxObjects, update : 0 .. MaxUpdates]]
  /\ updates \in 0 .. MaxUpdates
  /\ acked \in [Names -> SUBSET Updates]
  /\ stored \subseteq Names
  /\ lost \in [Names -> SUBSET Updates]

(* The threads that may touch the data of a session.                       *)
Inside(n) ==
  {t \in Threads : /\ thread[t].obj # 0 /\ heap[thread[t].obj].name = n
                   /\ thread[t].at \in {"work", "save", "page", "stat", "release"}}

(* A session is worked on by one request at a time, also when it left the  *)
(* memory and was loaded again (_getSession: "making sure all other        *)
(* threads have released the session", GUI.py, line 423).                  *)
OneAtATime == \A n \in Names : Cardinality(Inside(n)) <= 1

(* A change a client was told of is in the session the next request sees,  *)
(* from memory or from its file, after any purge, restart or kill that     *)
(* found it written.  A failed rename takes the newer of two copies when   *)
(* both wait to be written, or the last one of a server that stops, and    *)
(* nothing else; a failed write ends the session thread, and the promise   *)
(* (SessionThread.run, GUI.py, lines 93-124).                              *)
NoUpdateLost ==
  \A n \in Names :
    IF sessions[n] # 0 THEN acked[n] \ lost[n] \subseteq heap[sessions[n]].data
    ELSE \/ save[n].dirty \/ saver.batch[n].dirty
         \/ acked[n] \ lost[n] \subseteq disk[n].data

(* Once the session thread has nothing left to write, and when it has      *)
(* ended, every change a client was told of is on disk, except what a      *)
(* failed rename or write has taken as above (SessionThread.stop: "stop    *)
(* after it has flushed all the data to disk", GUI.py, line 88).           *)
Flushed ==
  \A n \in Names :
    saver.at = "ended" \/ ~(save[n].dirty \/ saver.batch[n].dirty) =>
      acked[n] \ lost[n] \subseteq disk[n].data

(* Every request gets its answer unless a failure left the server locked,  *)
(* or the request is for a session that start() left locked (GUI.py, lines *)
(* 420-463, 601-772).  The threads are alike: one stands for all of them.  *)
RequestsEnd ==
  LET t == CHOOSE t \in Threads : TRUE IN
    ~At(t, "idle") ~>
      \/ At(t, "idle") \/ lock = Gone
      \/ thread[t].obj # 0 /\ heap[thread[t].obj].lock = Gone

(* "As safe a manner as possible to avoid data loss if the server crashes  *)
(* or is restarted, and even if it is terminated forcefully with SIGKILL"  *)
(* (GUI.py, lines 55-58): a session that had a file still has one.         *)
SessionsSurvive ==
  [][NewProcess => \A n \in stored : disk'[n].state = "full"]_vars
=============================================================================
