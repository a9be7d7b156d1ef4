---------------------------- MODULE ArchiveSource ----------------------------
(***************************************************************************)
(* The server's view of the index: VisDQMArchiveSource and its watcher     *)
(* thread VisDQMArchiveWatch (serverext.cc) serve requests for objects     *)
(* from several threads while the tool of module VisDQMIndex updates the   *)
(* files under them.                                                       *)
(***************************************************************************)
EXTENDS VisDQMIndex

CONSTANTS
  Threads,     \* the threads that serve requests
  MaxAsks,     \* bound: requests made
  MaxTries,    \* failed tries after which a request is given up (10)
  Unopened,    \* a file that has no entry in infoFiles_ or dataFiles_
  Nobody       \* no holder of the write lock

ASSUME ServerAssumption ==
  MaxAsks \in Nat /\ MaxTries \in Nat \ {0} /\ Nobody \notin Threads

VARIABLES
  wrlock,      \* lock_: the thread that holds it for writing
  rdlock,      \* lock_: the threads that hold it for reading
  retry,       \* retry_: a file could not be read
  changed,     \* watch_.changed_: the generation file has changed
  watched,     \* watch_.mtime_, the time being told by the generation
  loaded,      \* the generation whose master samples_ was read from
  samples,     \* samples_
  whole,       \* history: samples_ is the whole list of that generation
  handles,     \* infoFiles_ and dataFiles_
  tpc,         \* where each thread is
  req,         \* the sample and object each thread was asked for
  tries,       \* ntries
  si,          \* the number of the sample found, and its record
  slot,        \* what became of the memory of that record since
  opening,     \* the file about to be opened
  answer,      \* what each thread found in the info and the data file
  nasks        \* requests made so far

server == <<wrlock, rdlock, retry, changed, watched, loaded, samples, whole,
            handles, tpc, req, tries, si, slot, opening, answer, nasks>>
allvars == <<vars, server>>

Missing == [k \in Kinds |-> Null]

NoSample == [n |-> 0, files |-> [k \in Kinds |-> FirstFile]]

(* The watcher looks once before its thread starts, so a change is pending. *)
ServerInit ==
  /\ wrlock = Nobody /\ rdlock = {}
  /\ retry = FALSE /\ changed = TRUE /\ watched = gen /\ loaded = 0
  /\ samples = <<>> /\ whole = FALSE /\ handles = [f \in File |-> Unopened]
  /\ tpc = [t \in Threads |-> "idle"]
  /\ req = [t \in Threads |-> Null]
  /\ tries = [t \in Threads |-> 0]
  /\ si = [t \in Threads |-> NoSample]
  /\ slot = [t \in Threads |-> "intact"]
  /\ opening = [t \in Threads |-> FirstFile]
  /\ answer = [t \in Threads |-> Missing]
  /\ nasks = 0

------------------------------------------------------------------------------
Goto(t, phase) == tpc' = [tpc EXCEPT ![t] = phase]

Free == wrlock = Nobody /\ rdlock = {}

(* What a request keeps on its stack, and what one try of it does.         *)
try == <<si, slot, opening>>
stack == <<req, tries, try>>

EndTry(t) ==
  /\ si' = [si EXCEPT ![t] = NoSample]
  /\ slot' = [slot EXCEPT ![t] = "intact"]
  /\ opening' = [opening EXCEPT ![t] = FirstFile]

EndRequest(t) ==
  /\ Goto(t, "idle")
  /\ req' = [req EXCEPT ![t] = Null]
  /\ tries' = [tries EXCEPT ![t] = 0]
  /\ EndTry(t)

Release(t) ==
  /\ wrlock' = IF wrlock = t THEN Nobody ELSE wrlock
  /\ rdlock' = rdlock \ {t}

(* VisDQMArchiveWatch::checkForUpdate(), every 30 seconds.                 *)
CheckForUpdate ==
  /\ watched # gen
  /\ watched' = gen
  /\ changed' = TRUE
  /\ UNCHANGED <<wrlock, rdlock, retry, loaded, samples, whole, handles, tpc, req,
                 tries, si, slot, opening, answer, nasks>>

Ask(t, id, o) ==
  /\ tpc[t] = "idle"
  /\ nasks < MaxAsks
  /\ nasks' = nasks + 1
  /\ req' = [req EXCEPT ![t] = <<id, o>>]
  /\ tries' = [tries EXCEPT ![t] = 1]
  /\ answer' = [answer EXCEPT ![t] = Missing]
  /\ Goto(t, "retry")
  /\ UNCHANGED <<wrlock, rdlock, retry, changed, watched, loaded, samples, whole,
                 handles, si, slot, opening>>

(* maybeReloadIndex(): look at retry_ under the read lock, ...             *)
CheckRetry(t) ==
  /\ tpc[t] = "retry"
  /\ wrlock = Nobody
  /\ Goto(t, IF retry THEN "wretry" ELSE "watch")
  /\ UNCHANGED <<wrlock, rdlock, retry, changed, watched, loaded, samples, whole,
                 handles, req, tries, si, slot, opening, answer, nasks>>

(* ... and at the watcher's flag.                                          *)
CheckWatch(t) ==
  /\ tpc[t] = "watch"
  /\ Goto(t, IF changed THEN "wwatch" ELSE "find")
  /\ UNCHANGED <<wrlock, rdlock, retry, changed, watched, loaded, samples, whole,
                 handles, req, tries, si, slot, opening, answer, nasks>>

(* reset(): drop what was read of the old generation and both flags.       *)
Reset ==
  /\ samples' = <<>>
  /\ whole' = FALSE
  /\ handles' = [f \in File |-> Unopened]
  /\ changed' = FALSE
  /\ retry' = FALSE
  /\ \E fate \in {"refilled", "moved"} :
       slot' = [u \in Threads |-> IF tpc[u] \in {"upinfo", "updata"}
                                  THEN fate ELSE slot[u]]

(* Take the write lock, look at the flag again, and reset if it still is.  *)
MaybeReset(t, at, flag, load, skip) ==
  /\ tpc[t] = at
  /\ Free
  /\ \/ /\ flag
        /\ wrlock' = t
        /\ Reset
        /\ Goto(t, load)
     \/ /\ ~flag
        /\ Goto(t, skip)
        /\ UNCHANGED <<wrlock, retry, changed, samples, whole, handles, slot>>
  /\ UNCHANGED <<rdlock, watched, loaded, req, tries, si, opening, answer,
                 nasks>>

ResetForRetry(t) == MaybeReset(t, "wretry", retry, "lretry", "watch")
ResetForChange(t) == MaybeReset(t, "wwatch", changed, "lwatch", "find")

(* loadIndex(): beginRead() waits for the lock of the generation file and  *)
(* opens the master of the current generation; what it reads from then on  *)
(* is the contents of that file, ...                                       *)
BeginRead(t) ==
  /\ tpc[t] \in {"lretry", "lwatch"}
  /\ pc # "publish"
  /\ master[gen] # Null
  /\ loaded' = gen
  /\ samples' = master[gen]
  /\ Goto(t, IF tpc[t] = "lretry" THEN "rretry" ELSE "rwatch")
  /\ UNCHANGED <<wrlock, rdlock, retry, changed, watched, whole, handles, req,
                 tries, si, slot, opening, answer, nasks>>

(* Slip: lower the flag after reading the index instead of before.         *)
FinishReadThenClear(t) ==
  /\ tpc[t] \in {"rretry", "rwatch"}
  /\ changed' = FALSE
  /\ whole' = TRUE
  /\ Release(t)
  /\ Goto(t, IF tpc[t] = "rretry" THEN "watch" ELSE "find")
  /\ UNCHANGED <<retry, watched, loaded, samples, handles, req, tries, si, slot,
                 opening, answer, nasks>>

(* ... and while it reads, the updater and the watcher go on.              *)
FinishRead(t) ==
  /\ tpc[t] \in {"rretry", "rwatch"}
  /\ whole' = TRUE
  /\ Release(t)
  /\ Goto(t, IF tpc[t] = "rretry" THEN "watch" ELSE "find")
  /\ UNCHANGED <<retry, changed, watched, loaded, samples, handles, req, tries,
                 si, slot, opening, answer, nasks>>

(* beginRead() throws: the generation file cannot be read, or its master   *)
(* cannot be opened.  Both flags are down by now.                          *)
FailToBeginRead(t) ==
  /\ tpc[t] \in {"lretry", "lwatch"}
  /\ Release(t)
  /\ Goto(t, "failed")
  /\ UNCHANGED <<retry, changed, watched, loaded, samples, whole, handles, req,
                 tries, si, slot, opening, answer, nasks>>

(* loadIndex() throws in the middle: samples_ has some of the samples.     *)
FailToRead(t) ==
  /\ tpc[t] \in {"rretry", "rwatch"}
  /\ \E n \in 0 .. Len(samples) : samples' = SubSeq(samples, 1, n)
  /\ Release(t)
  /\ Goto(t, "failed")
  /\ UNCHANGED <<retry, changed, watched, loaded, whole, handles, req, tries,
                 si, slot, opening, answer, nasks>>

(* findSample() under the read lock; removed samples are passed over.      *)
FindSample(t) ==
  /\ tpc[t] = "find"
  /\ wrlock = Nobody
  /\ LET hits == {n \in Positions(samples, req[t][1]) : samples[n].shown}
     IN  \/ /\ hits = {}
            /\ EndRequest(t)
            /\ UNCHANGED rdlock
         \/ /\ hits # {}
            /\ rdlock' = rdlock \cup {t}
            /\ si' = [si EXCEPT ![t] = [n |-> First(hits),
                                        files |-> samples[First(hits)].files]]
            /\ slot' = [slot EXCEPT ![t] = "intact"]
            /\ Goto(t, "info")
            /\ UNCHANGED <<req, tries, opening>>
  /\ UNCHANGED <<wrlock, retry, changed, watched, loaded, samples, whole, handles,
                 answer, nasks>>

(* What si->files[k] reads.  A reload clears samples_ and fills it again:  *)
(* the slot then holds the new record of that number or, if the list has   *)
(* moved to other memory, still the old one.                               *)
Named(t, k) ==
  IF slot[t] = "refilled" /\ si[t].n \in DOMAIN samples
  THEN samples[si[t].n].files[k]
  ELSE si[t].files[k]

(* What the key of the request has in an open file: the time of import.    *)
Lookup(h, n, o) ==
  IF h # Null /\ \E e \in h : e[1] = n /\ e[2] = o
  THEN (CHOOSE e \in h : e[1] = n /\ e[2] = o)[3]
  ELSE Null

(* An object keeps what an earlier try put there unless this one finds it. *)
Fill(t, k, s) == [answer EXCEPT ![t][k] = IF s = Null THEN @ ELSE s]

(* The data file is consulted if the object, now or in an earlier try, was *)
(* found to be a histogram in the info file.                               *)
Wants(t, k, s) == k = "info" /\ (s # Null \/ answer[t]["info"] # Null)

ReadFrom(t, k, h) ==
  LET s == Lookup(h, si[t].n, req[t][2])
  IN  /\ answer' = Fill(t, k, s)
      /\ \/ /\ Wants(t, k, s)
            /\ Goto(t, "data")
            /\ UNCHANGED <<wrlock, rdlock, stack>>
         \/ /\ ~Wants(t, k, s)
            /\ EndRequest(t)
            /\ Release(t)

Step(k, atinfo, atdata) == IF k = "info" THEN atinfo ELSE atdata

(* open(): use the file if the map has it, else let go of the lock ...     *)
UseFile(t, k) ==
  /\ tpc[t] = k
  /\ LET h == handles[<<k, Named(t, k)>>]
     IN  \/ /\ h # Unopened
            /\ ReadFrom(t, k, h)
         \/ /\ h = Unopened
            /\ Release(t)
            /\ Goto(t, Step(k, "upinfo", "updata"))
            /\ UNCHANGED <<answer, stack>>
  /\ UNCHANGED <<retry, changed, watched, loaded, samples, whole, handles, nasks>>

(* ... and take it for writing, look at the map again, and see if the file *)
(* exists; one that does not is remembered as a null pointer.              *)
UpgradeLock(t, k) ==
  /\ tpc[t] = Step(k, "upinfo", "updata")
  /\ Free
  /\ LET no == Named(t, k)
         f == <<k, no>>
         h == IF handles[f] = Unopened THEN Null ELSE handles[f]
         s == Lookup(h, si[t].n, req[t][2])
     IN  \/ /\ handles[f] # Unopened \/ ~Exists(f)
            /\ handles' = [handles EXCEPT ![f] = h]
            /\ answer' = Fill(t, k, s)
            /\ \/ /\ Wants(t, k, s)
                  /\ wrlock' = t
                  /\ Goto(t, "data")
                  /\ UNCHANGED stack
               \/ /\ ~Wants(t, k, s)
                  /\ wrlock' = Nobody
                  /\ EndRequest(t)
         \/ /\ handles[f] = Unopened /\ Exists(f)
            /\ opening' = [opening EXCEPT ![t] = no]
            /\ wrlock' = t
            /\ Goto(t, Step(k, "openinfo", "opendata"))
            /\ UNCHANGED <<handles, answer, req, tries, si, slot>>
  /\ UNCHANGED <<rdlock, retry, changed, watched, loaded, samples, whole, nasks>>

(* Slip: an exception from the open leaves the lock held.                  *)
OpenFileKeepingLock(t, k) ==
  /\ tpc[t] = Step(k, "openinfo", "opendata")
  /\ LET f == <<k, opening[t]>>
     IN  \/ /\ Exists(f)
            /\ handles' = [handles EXCEPT ![f] = files[f]]
            /\ ReadFrom(t, k, files[f])
         \/ /\ ~Exists(f)
            /\ Goto(t, "failed")
            /\ EndTry(t)
            /\ UNCHANGED <<wrlock, rdlock, handles, answer, req, tries>>
  /\ UNCHANGED <<retry, changed, watched, loaded, samples, whole, nasks>>

(* Open the file that was seen to exist; it may be gone by now.            *)
OpenFile(t, k) ==
  /\ tpc[t] = Step(k, "openinfo", "opendata")
  /\ LET f == <<k, opening[t]>>
     IN  \/ /\ Exists(f)
            /\ handles' = [handles EXCEPT ![f] = files[f]]
            /\ ReadFrom(t, k, files[f])
         \/ /\ ~Exists(f)
            /\ Release(t)
            /\ Goto(t, "failed")
            /\ EndTry(t)
            /\ UNCHANGED <<handles, answer, req, tries>>
  /\ UNCHANGED <<retry, changed, watched, loaded, samples, whole, nasks>>

(* fileReadFailure(): ask for a reload and try again, or give up.          *)
FileReadFailure(t) ==
  /\ tpc[t] = "failed"
  /\ Free
  /\ retry' = TRUE
  /\ \/ /\ tries[t] > MaxTries
        /\ EndRequest(t)
     \/ /\ tries[t] <= MaxTries
        /\ Goto(t, "retry")
        /\ tries' = [tries EXCEPT ![t] = @ + 1]
        /\ UNCHANGED <<req, try>>
  /\ UNCHANGED <<wrlock, rdlock, changed, watched, loaded, samples, whole, handles,
                 answer, nasks>>

Serve(t) ==
  \/ CheckRetry(t) \/ CheckWatch(t) \/ ResetForRetry(t) \/ ResetForChange(t)
  \/ BeginRead(t) \/ FinishRead(t) \/ FailToBeginRead(t) \/ FailToRead(t)
  \/ FindSample(t) \/ FileReadFailure(t)
  \/ \E k \in Kinds : UseFile(t, k) \/ UpgradeLock(t, k) \/ OpenFile(t, k)

ServerNext ==
  \/ CheckForUpdate
  \/ \E t \in Threads :
       \/ \E id \in Samples, o \in Objects : Ask(t, id, o)
       \/ Serve(t)

Both ==
  \/ Next /\ UNCHANGED server
  \/ ServerNext /\ UNCHANGED vars

ServerSpec == Init /\ ServerInit /\ [][Both]_allvars

------------------------------------------------------------------------------
(* No commit the watcher saw is lost, though a reload lowers both flags    *)
(* first and may then fail: with the flags down, no reload under way and   *)
(* no thread about to report one that failed, the server has the whole     *)
(* list of a generation no older than the one the watcher saw.             *)
NoUpdateLost ==
  wrlock = Nobody /\ ~changed /\ ~retry /\ (\A t \in Threads : tpc[t] # "failed") =>
    whole /\ loaded >= watched

(* "Whenever reader upgrades the index generation id, it must close all    *)
(* its previously open data files": the open files are those of the loaded *)
(* catalogue.  With more than one thread they are not, see the README.     *)
HandlesOfLoaded ==
  wrlock = Nobody =>
    \A f \in File : handles[f] # Unopened => f \in NamedBy(samples)

(* "Readers always see a fully consistent state of the index": the two     *)
(* halves of an answer come from the same import.  With more than one      *)
(* thread they do not, see the README.                                     *)
ConsistentAnswer ==
  \A t \in Threads :
    /\ tpc[t] = "idle"
    /\ answer[t]["info"] # Null /\ answer[t]["data"] # Null
    => answer[t]["info"] = answer[t]["data"]

(* Every request ends, in spite of reloads, lock upgrades and retries.     *)
EveryRequestAnswered ==
  \A t \in Threads : tpc[t] # "idle" ~> tpc[t] = "idle"
==============================================================================
