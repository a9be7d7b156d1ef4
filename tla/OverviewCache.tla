--------------------------- MODULE OverviewCache ---------------------------
(***************************************************************************)
(* The response cache of the overview server (Core/Cache.py): a dictionary *)
(* of produced data under one lock, a thread that removes what has         *)
(* expired, and request threads that look a key up and produce the data    *)
(* when it is missing.  lockedCacheFetch lets the other requests for a key *)
(* wait, for a limited time, while one of them produces it.  Every method  *)
(* holds the lock only while it runs, so each of their calls is one step   *)
(* and everything between two calls is open to the other threads.          *)
(***************************************************************************)
EXTENDS Integers, FiniteSets, Functions, FiniteSetsExt

CONSTANTS
  Fetchers,    \* request threads and asynchronous fillers
  Keys,        \* the keys they ask for
  Lifetimes,   \* lifetimes producers return, in passes of the cleaner
  Sizes,       \* sizes of pickled data
  ItemLimit,   \* itemlimit
  SizeLimit,   \* sizelimit
  WaitRounds,  \* wait_expiry / wait_interval
  MaxTime,     \* bound: the clock
  MaxFetches,  \* bound: fetches that are started
  Missing      \* no entry under a key

ASSUME CacheAssumption ==
  /\ Lifetimes \subseteq Nat /\ Sizes \subseteq Nat
  /\ ItemLimit \in Nat /\ SizeLimit \in Nat /\ WaitRounds \in Nat
  /\ MaxTime \in Nat /\ MaxFetches \in Nat
  /\ Missing \notin [expiry : Nat, size : Nat]

VARIABLES
  now,        \* time.time(), in intervals of the cleaner
  passed,     \* the cleaner has run in this interval
  stopme,     \* stop() was called
  ended,      \* run() has returned
  cache,      \* the entry of each key, or Missing
  cachesize,
  wanted,     \* cacheevents: some request has announced that it produces
  fetch,      \* what each thread is doing
  started     \* fetches started so far

vars == <<now, passed, stopme, ended, cache, cachesize, wanted, fetch, started>>

Entry == [expiry : Nat, size : Nat]

(* cacheFetch, lockedCacheFetch and the worker of asyncCacheFill.          *)
Kinds == {"plain", "locked", "async"}

(* The call a thread makes next.  "idle" has answered its request, with    *)
(* data, with None, or with an exception.                                  *)
Steps == {"idle", "look", "read", "flag", "wait", "relook", "set", "make",
          "insert", "clear"}
Answers == {"data", "none", "raised"}

Fetch == [at : Steps, kind : Kinds, key : Keys, rounds : 0 .. WaitRounds,
          answer : Answers, life : Lifetimes \cup {0}]

Exists(k) == cache[k] # Missing

(* The bytes of the entries of a dictionary.                               *)
Bytes(c) == MapThenSumSet(LAMBDA k : c[k].size, {k \in Keys : c[k] # Missing})

Items(c) == Cardinality({k \in Keys : c[k] # Missing})

Init ==
  /\ now = 0 /\ passed = FALSE /\ stopme = FALSE /\ ended = FALSE
  /\ cache = [k \in Keys |-> Missing]
  /\ cachesize = 0
  /\ wanted = [k \in Keys |-> FALSE]
  /\ \E k \in Keys :
       fetch = [f \in Fetchers |-> [at |-> "idle", kind |-> "plain", key |-> k,
                  rounds |-> 0, answer |-> "none", life |-> 0]]
  /\ started = 0

--------------------------------------------------------------------------------
(* _remove: forget an entry and give its bytes back.                       *)
Forget(ks) ==
  /\ cache' = [k \in Keys |-> IF k \in ks THEN Missing ELSE cache[k]]
  /\ cachesize' = cachesize -
       MapThenSumSet(LAMBDA k : cache[k].size, {k \in ks : Exists(k)})

(* stop(), called when the engine stops.                                   *)
Stop ==
  /\ ~stopme
  /\ stopme' = TRUE
  /\ UNCHANGED <<now, passed, ended, cache, cachesize, wanted, fetch, started>>

(* Slip: the cleaner compares with the previous round.                     *)
ExpiredLate == {k \in Keys : Exists(k) /\ cache[k].expiry < now - 1}

Expired == {k \in Keys : Exists(k) /\ cache[k].expiry < now}

(* One round of run(): expired entries go, and with them the announcement  *)
(* that somebody produces them.                                            *)
Clean ==
  /\ ~ended /\ ~stopme /\ ~passed
  /\ passed' = TRUE
  /\ Forget(Expired)
  /\ wanted' = [k \in Keys |-> wanted[k] /\ k \notin Expired]
  /\ UNCHANGED <<now, stopme, ended, fetch, started>>

(* The round of run() that finds stopme set.                               *)
CleanerEnds ==
  /\ ~ended /\ stopme
  /\ ended' = TRUE
  /\ UNCHANGED <<now, passed, stopme, cache, cachesize, wanted, fetch, started>>

(* The cleaner sleeps one interval between its rounds.                     *)
Tick ==
  /\ now < MaxTime
  /\ passed \/ ended
  /\ now' = now + 1
  /\ passed' = FALSE
  /\ UNCHANGED <<stopme, ended, cache, cachesize, wanted, fetch, started>>

(* remove(), offered to any thread.                                        *)
Remove(k) ==
  /\ Exists(k)
  /\ Forget({k})
  /\ UNCHANGED <<now, passed, stopme, ended, wanted, fetch, started>>

--------------------------------------------------------------------------------
(* key_wait_get: no announcement counts as False.                          *)
Announced(k) == wanted[k]

(* key_wait_set.                                                           *)
Announce(k, flag) == wanted' = [wanted EXCEPT ![k] = flag]

Goto(f, step) == fetch' = [fetch EXCEPT ![f].at = step]
Answer(f, a) == fetch' = [fetch EXCEPT ![f].at = "idle", ![f].answer = a]

(* Slip: no finally clause, an exception skips the rest.                   *)
LeaveWithoutFinally(f, a) ==
  fetch' = [fetch EXCEPT
              ![f].at = IF fetch[f].kind = "locked" /\ a # "raised"
                        THEN "clear" ELSE "idle",
              ![f].answer = IF fetch[f].kind = "async" THEN "none" ELSE a,
              ![f].life = 0]

(* A thread leaves f_produce and its insert; lockedCacheFetch still has    *)
(* its finally clause to run.  The worker keeps its exceptions to itself.  *)
Leave(f, a) ==
  LET last == IF fetch[f].kind = "async" THEN "none" ELSE a IN
  fetch' = [fetch EXCEPT ![f].at = IF fetch[f].kind = "locked" THEN "clear"
                                                               ELSE "idle",
                         ![f].answer = last, ![f].life = 0]

Unshared == <<now, passed, stopme, ended, cache, cachesize, wanted, started>>

Start(f, kind, k) ==
  /\ fetch[f].at = "idle" /\ started < MaxFetches
  /\ fetch' = [fetch EXCEPT ![f] = [at |-> "look", kind |-> kind, key |-> k,
                 rounds |-> 0, answer |-> "none", life |-> 0]]
  /\ started' = started + 1
  /\ UNCHANGED <<now, passed, stopme, ended, cache, cachesize, wanted>>

(* "cachekey in self": present data is read by a second call, the worker   *)
(* has nothing to do with it.                                              *)
Look(f) ==
  LET k == fetch[f].key IN
  /\ fetch[f].at = "look"
  /\ CASE Exists(k) /\ fetch[f].kind = "async" -> Answer(f, "none")
       [] Exists(k) /\ fetch[f].kind # "async" -> Goto(f, "read")
       [] ~Exists(k) /\ fetch[f].kind = "locked" -> Goto(f, "flag")
       [] ~Exists(k) /\ fetch[f].kind # "locked" -> Goto(f, "make")
  /\ UNCHANGED Unshared

(* "self[cachekey]": the entry may have gone since, and None is returned.  *)
Read(f) ==
  /\ fetch[f].at = "read"
  /\ Answer(f, IF Exists(fetch[f].key) THEN "data" ELSE "none")
  /\ UNCHANGED Unshared

(* key_wait_get before the decision to wait.                               *)
SeeFlag(f) ==
  /\ fetch[f].at = "flag"
  /\ IF Announced(fetch[f].key)
     THEN fetch' = [fetch EXCEPT ![f].at = "wait", ![f].rounds = WaitRounds]
     ELSE Goto(f, "set")
  /\ UNCHANGED Unshared

(* Slip: the loop forgets to count its rounds.                             *)
WaitRoundUncounted(f) ==
  /\ fetch[f].at = "wait"
  /\ IF Announced(fetch[f].key) THEN UNCHANGED fetch ELSE Goto(f, "relook")
  /\ UNCHANGED Unshared

(* A round of the waiting loop: one more look at the flag, then sleep.     *)
WaitRound(f) ==
  /\ fetch[f].at = "wait"
  /\ IF fetch[f].rounds > 0 /\ Announced(fetch[f].key)
     THEN fetch' = [fetch EXCEPT ![f].rounds = @ - 1]
     ELSE Goto(f, "relook")
  /\ UNCHANGED Unshared

Relook(f) ==
  /\ fetch[f].at = "relook"
  /\ Goto(f, IF Exists(fetch[f].key) THEN "read" ELSE "set")
  /\ UNCHANGED Unshared

(* key_wait_set(cachekey, True): nothing checks the flag again.            *)
SetFlag(f) ==
  /\ fetch[f].at = "set"
  /\ Announce(fetch[f].key, TRUE)
  /\ Goto(f, "make")
  /\ UNCHANGED <<now, passed, stopme, ended, cache, cachesize, started>>

(* f_produce returns data and its lifetime, or raises.  Data without a     *)
(* lifetime are handed out and not kept.                                   *)
Make(f) ==
  /\ fetch[f].at = "make"
  /\ \/ Leave(f, "raised")
     \/ \E life \in Lifetimes :
          IF life > 0
          THEN fetch' = [fetch EXCEPT ![f].at = "insert", ![f].life = life,
                                      ![f].answer = "data"]
          ELSE Leave(f, "data")
  /\ UNCHANGED Unshared

(* Slip: the old entry is overwritten, not removed first.                  *)
InsertOver(f) ==
  LET k == fetch[f].key IN
  /\ fetch[f].at = "insert"
  /\ \E size \in Sizes :
       /\ cache' = [cache EXCEPT ![k] = [expiry |-> fetch[f].life + now,
                                         size |-> size]]
       /\ cachesize' = cachesize + size
       /\ Leave(f, fetch[f].answer)
  /\ UNCHANGED <<now, passed, stopme, ended, wanted, started>>

(* insert(): the new entry is stored first, replacing an old one.  Over a  *)
(* limit the culling that follows raises AttributeError (_cull_num is not  *)
(* defined, sys.maxint is not in Python 3): the entry stays and the        *)
(* exception goes up.  Data that cannot be pickled are not stored.         *)
Insert(f) ==
  LET k == fetch[f].key IN
  /\ fetch[f].at = "insert"
  /\ \/ /\ Leave(f, fetch[f].answer)
        /\ UNCHANGED <<cache, cachesize>>
     \/ \E size \in Sizes :
          /\ cache' = [cache EXCEPT ![k] = [expiry |-> fetch[f].life + now,
                                            size |-> size]]
          /\ cachesize' = cachesize + size -
               (IF Exists(k) THEN cache[k].size ELSE 0)
          /\ Leave(f, IF Items(cache') > ItemLimit \/ cachesize' > SizeLimit
                      THEN "raised" ELSE fetch[f].answer)
  /\ UNCHANGED <<now, passed, stopme, ended, wanted, started>>

(* The finally clause: key_wait_set(cachekey, False).                      *)
ClearFlag(f) ==
  /\ fetch[f].at = "clear"
  /\ Announce(fetch[f].key, FALSE)
  /\ Goto(f, "idle")
  /\ UNCHANGED <<now, passed, stopme, ended, cache, cachesize, started>>

Waiting(f) == WaitRound(f) \/ Relook(f)

Next ==
  \/ Stop \/ Clean \/ CleanerEnds \/ Tick
  \/ \E k \in Keys : Remove(k)
  \/ \E f \in Fetchers :
       \/ \E kind \in Kinds, k \in Keys : Start(f, kind, k)
       \/ Look(f) \/ Read(f) \/ SeeFlag(f) \/ Waiting(f) \/ SetFlag(f)
       \/ Make(f) \/ Insert(f) \/ ClearFlag(f)

Spec == Init /\ [][Next]_vars

(* A waiting thread is scheduled again after its sleep.  Nothing is        *)
(* assumed of f_produce: it may read a page of another service for ever.   *)
FairSpec == Spec /\ \A f \in Fetchers : WF_vars(Waiting(f))

--------------------------------------------------------------------------------
TypeOK ==
  /\ now \in Nat /\ started \in Nat
  /\ passed \in BOOLEAN /\ stopme \in BOOLEAN /\ ended \in BOOLEAN
  /\ cache \in [Keys -> Entry \cup {Missing}]
  /\ wanted \in [Keys -> BOOLEAN]
  /\ fetch \in [Fetchers -> Fetch]

(* cachesize is what the entries hold, whatever was inserted twice,        *)
(* removed, expired, or stored by an insert that then raised: the size     *)
(* limit (_insert, line 115) and cachesize() rely on it.                   *)
BytesAccounted == cachesize = Bytes(cache)

(* Somebody is at work behind every announcement, so nobody waits for a    *)
(* producer that failed (the finally clauses of lockedCacheFetch, lines    *)
(* 307 and 323).                                                           *)
Producing(f, k) ==
  /\ fetch[f].kind = "locked" /\ fetch[f].key = k
  /\ fetch[f].at \in {"make", "insert", "clear"}

AnnouncedIsProduced ==
  \A k \in Keys : wanted[k] => \E f \in Fetchers : Producing(f, k)

(* While the cleaner runs, no data outlive their lifetime by more than one *)
(* of its intervals, whoever put them there and whoever inserted meanwhile *)
(* (run, lines 65-87): the reader of an entry never looks at its expiry.   *)
NothingStale ==
  ~stopme => \A k \in Keys :
    Exists(k) => cache[k].expiry >= IF passed THEN now ELSE now - 1

(* A request that waits for another one stops waiting, even if that one    *)
(* never ends (wait_expiry, lines 279-284).                                *)
WaitEnds ==
  \A f \in Fetchers : fetch[f].at = "wait" ~> fetch[f].at \notin {"wait", "relook"}

(* insert "triggers volume cleaning if the new cache size exceeds the      *)
(* maximum" (Cache.py, line 121): no finished insert leaves more.          *)
WithinLimits == Items(cache) <= ItemLimit /\ cachesize <= SizeLimit
=============================================================================
