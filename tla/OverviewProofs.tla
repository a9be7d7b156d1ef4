--------------------------- MODULE OverviewProofs ---------------------------
(***************************************************************************)
(* The overview server for any number of threads, keys, images, requests   *)
(* and answers of the services: what the lock discipline and the finally   *)
(* clauses of its cache give, what keeps the images of the transfer plots  *)
(* recent, and why the plots of the disk never show half a refresh.        *)
(*                                                                         *)
(* In the cache, announcements and expiry each need only the types; the    *)
(* sum of the sizes needs the facts about sums over a set of keys that     *)
(* precede it.                                                             *)
(***************************************************************************)
EXTENDS OverviewCache, OverviewSources, Sequences, FiniteSetTheorems, SequenceTheorems,
        WellFoundedInduction, TLAPS

(* The steps of a thread between its start and its end.                    *)
Work(f) ==
  Look(f) \/ Read(f) \/ SeeFlag(f) \/ Waiting(f) \/ SetFlag(f) \/ Make(f)
  \/ Insert(f) \/ ClearFlag(f)

LEMMA LifeIsNat ==
  ASSUME TypeOK, NEW f \in Fetchers
  PROVE  fetch[f].life \in Nat
<1>1. fetch[f] \in Fetch
  BY DEF TypeOK
<1>2. fetch[f].life \in Lifetimes \cup {0}
  BY <1>1 DEF Fetch
<1>3. \A l \in Lifetimes : l \in Nat
  BY CacheAssumption
<1>4. CASE fetch[f].life \in Lifetimes
  BY <1>3, <1>4, Zenon
<1>5. CASE fetch[f].life = 0
  BY <1>5
<1>6. QED
  BY <1>2, <1>4, <1>5

(* Leaving the production keeps the record of a fetch in its type.         *)
LEMMA LeaveType ==
  ASSUME TypeOK, NEW f \in Fetchers, NEW a \in Answers, Leave(f, a)
  PROVE  fetch' \in [Fetchers -> Fetch]
<1>1. PICK s \in Steps, b \in Answers :
        fetch' = [fetch EXCEPT ![f].at = s, ![f].answer = b, ![f].life = 0]
  <2>1. CASE fetch[f].kind = "locked"
    BY <2>1 DEF Leave, Steps
  <2>2. CASE fetch[f].kind = "async"
    BY <2>2 DEF Leave, Steps, Answers
  <2>3. CASE fetch[f].kind = "plain"
    BY <2>3 DEF Leave, Steps
  <2>4. QED
    BY <2>1, <2>2, <2>3 DEF TypeOK, Fetch, Kinds
<1>2. QED
  BY <1>1, ZenonT(60) DEF TypeOK, Fetch

LEMMA GotoType ==
  ASSUME TypeOK, NEW f \in Fetchers, NEW s \in Steps, Goto(f, s)
  PROVE  fetch' \in [Fetchers -> Fetch]
  BY DEF TypeOK, Goto, Fetch

LEMMA AnswerType ==
  ASSUME TypeOK, NEW f \in Fetchers, NEW a \in Answers, Answer(f, a)
  PROVE  fetch' \in [Fetchers -> Fetch]
  BY ZenonT(60) DEF TypeOK, Answer, Fetch, Steps

LEMMA WorkType ==
  ASSUME TypeOK, NEW f \in Fetchers, Work(f)
  PROVE  TypeOK'
<1>1. CASE Look(f)
  BY <1>1, GotoType, AnswerType DEF TypeOK, Look, Unshared, Steps, Answers
<1>2. CASE Read(f)
  BY <1>2, AnswerType DEF TypeOK, Read, Unshared, Answers
<1>3. CASE SeeFlag(f)
  <2>1. CASE Announced(fetch[f].key)
    BY <1>3, <2>1, CacheAssumption
    DEF TypeOK, SeeFlag, Unshared, Fetch, Steps
  <2>2. CASE ~Announced(fetch[f].key)
    BY <1>3, <2>2, GotoType DEF TypeOK, SeeFlag, Unshared, Steps
  <2>3. QED
    BY <2>1, <2>2
<1>4. CASE WaitRound(f)
  <2>1. CASE fetch[f].rounds > 0 /\ Announced(fetch[f].key)
    BY <1>4, <2>1, CacheAssumption DEF TypeOK, WaitRound, Unshared, Fetch
  <2>2. CASE ~(fetch[f].rounds > 0 /\ Announced(fetch[f].key))
    BY <1>4, <2>2, GotoType DEF TypeOK, WaitRound, Unshared, Steps
  <2>3. QED
    BY <2>1, <2>2
<1>5. CASE Relook(f)
  BY <1>5, GotoType DEF TypeOK, Relook, Unshared, Steps
<1>6. CASE SetFlag(f)
  BY <1>6, GotoType DEF TypeOK, SetFlag, Announce, Steps, Fetch
<1>7. CASE Make(f)
  <2>1. CASE Leave(f, "raised") \/ Leave(f, "data")
    BY <1>7, <2>1, LeaveType DEF TypeOK, Make, Unshared, Answers
  <2>2. CASE \E life \in Lifetimes :
               fetch' = [fetch EXCEPT ![f].at = "insert", ![f].life = life,
                                      ![f].answer = "data"]
    <3>1. PICK life \in Lifetimes :
            fetch' = [fetch EXCEPT ![f].at = "insert", ![f].life = life,
                                   ![f].answer = "data"]
      BY <2>2
    <3>2. fetch' \in [Fetchers -> Fetch]
      <4>1. [fetch[f] EXCEPT !.at = "insert", !.life = life, !.answer = "data"]
              \in Fetch
        BY DEF TypeOK, Fetch, Steps, Answers
      <4>2. QED
        BY <3>1, <4>1 DEF TypeOK
    <3>3. QED
      BY <1>7, <3>2 DEF TypeOK, Make, Unshared
  <2>3. QED
    BY <1>7, <2>1, <2>2 DEF Make
<1>8. CASE Insert(f)
  <2>1. fetch[f].answer \in Answers /\ fetch[f].life \in Nat
        /\ fetch[f].key \in Keys
    <3>1. fetch[f] \in Fetch
      BY DEF TypeOK
    <3>3. fetch[f].answer \in Answers /\ fetch[f].key \in Keys
      BY <3>1 DEF Fetch
    <3>4. QED
      BY <3>3, LifeIsNat
  <2>2. fetch' \in [Fetchers -> Fetch]
    BY <1>8, <2>1, LeaveType DEF Insert, Answers
  <2>3. cache' \in [Keys -> Entry \cup {Missing}]
    <3>1. CASE UNCHANGED cache
      BY <3>1 DEF TypeOK
    <3>2. ASSUME NEW size \in Sizes,
                 cache' = [cache EXCEPT ![fetch[f].key] =
                             [expiry |-> fetch[f].life + now, size |-> size]]
          PROVE  cache' \in [Keys -> Entry \cup {Missing}]
      <4>1. fetch[f].life + now \in Nat /\ size \in Nat
        BY <2>1, CacheAssumption DEF TypeOK
      <4>2. [expiry |-> fetch[f].life + now, size |-> size] \in Entry
        BY <4>1 DEF Entry
      <4>3. QED
        BY <2>1, <3>2, <4>2 DEF TypeOK
    <3>3. QED
      BY <1>8, <3>1, <3>2 DEF Insert
  <2>4. QED
    BY <1>8, <2>2, <2>3 DEF TypeOK, Insert
<1>9. CASE ClearFlag(f)
  BY <1>9, GotoType DEF TypeOK, ClearFlag, Announce, Steps, Fetch
<1>10. QED
  BY <1>1, <1>2, <1>3, <1>4, <1>5, <1>6, <1>7, <1>8, <1>9 DEF Work, Waiting

(* The state of the cache has its type in every reachable state            *)
(* (OverviewCache.__init__, lines 18-52, and every method after it).       *)
THEOREM CacheTypeCorrect == Spec => []TypeOK
<1>1. Init => TypeOK
  <2> SUFFICES ASSUME Init
               PROVE  TypeOK
    OBVIOUS
  <2>1. PICK k \in Keys :
          fetch = [f \in Fetchers |-> [at |-> "idle", kind |-> "plain",
                     key |-> k, rounds |-> 0, answer |-> "none", life |-> 0]]
    BY DEF Init
  <2>2. fetch \in [Fetchers -> Fetch]
    BY <2>1, CacheAssumption DEF Fetch, Steps, Kinds, Answers
  <2>3. QED
    BY <2>2 DEF Init, TypeOK
<1>2. TypeOK /\ [Next]_vars => TypeOK'
  <2> SUFFICES ASSUME TypeOK, [Next]_vars
               PROVE  TypeOK'
    OBVIOUS
  <2>1. CASE Stop \/ Tick \/ CleanerEnds
    <3>1. now' \in Nat
      BY <2>1 DEF TypeOK, Stop, Tick, CleanerEnds
    <3>4. passed' \in BOOLEAN
      BY <2>1 DEF TypeOK, Stop, Tick, CleanerEnds
    <3>5. stopme' \in BOOLEAN
      BY <2>1 DEF TypeOK, Stop, Tick, CleanerEnds
    <3>6. ended' \in BOOLEAN
      BY <2>1 DEF TypeOK, Stop, Tick, CleanerEnds
    <3>2. UNCHANGED <<cache, wanted, fetch, started>>
      BY <2>1 DEF Stop, Tick, CleanerEnds
    <3>3. QED
      BY <3>1, <3>2, <3>4, <3>5, <3>6 DEF TypeOK
  <2>2. CASE Clean
    BY <2>2 DEF TypeOK, Clean, Forget
  <2>3. ASSUME NEW k \in Keys, Remove(k)
        PROVE  TypeOK'
    BY <2>3 DEF TypeOK, Remove, Forget
  <2>4. ASSUME NEW f \in Fetchers, NEW kind \in Kinds, NEW k \in Keys,
               Start(f, kind, k)
        PROVE  TypeOK'
    BY <2>4, CacheAssumption DEF TypeOK, Start, Fetch, Steps, Answers
  <2>5. ASSUME NEW f \in Fetchers, Work(f)
        PROVE  TypeOK'
    BY <2>5, WorkType
  <2>6. CASE UNCHANGED vars
    BY <2>6 DEF TypeOK, vars
  <2>7. QED
    BY <2>1, <2>2, <2>3, <2>4, <2>5, <2>6 DEF Next, Work
<1>3. QED
  BY <1>1, <1>2, PTL DEF Spec

--------------------------------------------------------------------------------
(* Only lockedCacheFetch looks at the announcements.                       *)
OnlyLocked ==
  \A f \in Fetchers :
    fetch[f].at \in {"flag", "wait", "relook", "set", "clear"} =>
      fetch[f].kind = "locked"

LEMMA WorkLocked ==
  ASSUME TypeOK, OnlyLocked, NEW f \in Fetchers, Work(f)
  PROVE  OnlyLocked'
<1>1. CASE Look(f)
  <2>1. ASSUME NEW s \in {"idle", "read", "make"}, NEW a,
               fetch' = [fetch EXCEPT ![f].at = s]
               \/ fetch' = [fetch EXCEPT ![f].at = s, ![f].answer = a]
        PROVE  OnlyLocked'
    BY <2>1 DEF OnlyLocked, TypeOK, Fetch
  <2>2. CASE Goto(f, "flag") /\ fetch[f].kind = "locked"
    BY <2>2 DEF Goto, OnlyLocked, TypeOK, Fetch
  <2>3. fetch[f].kind \in Kinds
    BY DEF TypeOK, Fetch
  <2>4. QED
    BY <1>1, <2>1, <2>2, <2>3 DEF Look, Goto, Answer, Kinds
<1>2. CASE Read(f)
  BY <1>2 DEF Read, Answer, OnlyLocked, TypeOK, Fetch
<1>3. CASE SeeFlag(f)
  BY <1>3 DEF SeeFlag, Goto, OnlyLocked, TypeOK, Fetch
<1>4. CASE WaitRound(f) \/ Relook(f)
  BY <1>4 DEF WaitRound, Relook, Goto, OnlyLocked, TypeOK, Fetch
<1>5. CASE SetFlag(f) \/ ClearFlag(f)
  BY <1>5 DEF SetFlag, ClearFlag, Goto, OnlyLocked, TypeOK, Fetch
<1>6. ASSUME NEW a, Leave(f, a)
      PROVE  OnlyLocked'
  BY <1>6 DEF Leave, OnlyLocked, TypeOK, Fetch
<1>7. CASE Make(f)
  <2>1. ASSUME NEW life \in Lifetimes,
               fetch' = [fetch EXCEPT ![f].at = "insert", ![f].life = life,
                                      ![f].answer = "data"]
        PROVE  OnlyLocked'
    BY <2>1 DEF OnlyLocked, TypeOK, Fetch
  <2>2. QED
    BY <1>6, <1>7, <2>1 DEF Make
<1>8. CASE Insert(f)
  BY <1>6, <1>8 DEF Insert
<1>9. QED
  BY <1>1, <1>2, <1>3, <1>4, <1>5, <1>7, <1>8 DEF Work, Waiting

(* A step that leaves the announcements as they are and takes no producer  *)
(* away from its work keeps AnnouncedIsProduced.                           *)
LEMMA ProducersStay ==
  ASSUME AnnouncedIsProduced,
         \A k \in Keys : wanted'[k] => wanted[k],
         \A k \in Keys : \A f \in Fetchers :
           wanted'[k] /\ Producing(f, k) => Producing(f, k)'
  PROVE  AnnouncedIsProduced'
  BY DEF AnnouncedIsProduced

LEMMA WorkAnnounced ==
  ASSUME TypeOK, OnlyLocked, AnnouncedIsProduced, NEW f \in Fetchers, Work(f)
  PROVE  AnnouncedIsProduced'
<1>1. CASE Look(f)
  BY <1>1, ProducersStay
  DEF Look, Goto, Answer, Unshared, Producing, TypeOK, Fetch
<1>2. CASE Read(f)
  BY <1>2, ProducersStay
  DEF Read, Answer, Unshared, Producing, TypeOK, Fetch
<1>3. CASE SeeFlag(f)
  BY <1>3, ProducersStay
  DEF SeeFlag, Goto, Unshared, Producing, TypeOK, Fetch
<1>4. CASE WaitRound(f)
  BY <1>4, ProducersStay
  DEF WaitRound, Goto, Unshared, Producing, TypeOK, Fetch
<1>5. CASE Relook(f)
  BY <1>5, ProducersStay
  DEF Relook, Goto, Unshared, Producing, TypeOK, Fetch
<1>6. CASE SetFlag(f)
  <2>1. fetch[f].key \in Keys
    BY DEF TypeOK, Fetch
  <2>2. \A k \in Keys : wanted'[k] => wanted[k] \/ k = fetch[f].key
    BY <1>6, <2>1 DEF SetFlag, Announce, TypeOK
  <2>3. \A g \in Fetchers, k \in Keys : Producing(g, k) => Producing(g, k)'
    BY <1>6 DEF SetFlag, Announce, Goto, Producing, TypeOK, Fetch
  <2>4. \A k \in Keys : k = fetch[f].key => Producing(f, k)'
    <3>1. fetch[f].kind = "locked"
      BY <1>6 DEF SetFlag, OnlyLocked
    <3>2. fetch'[f] = [fetch[f] EXCEPT !.at = "make"]
      BY <1>6 DEF SetFlag, Announce, Goto, TypeOK
    <3>3. fetch'[f].at = "make" /\ fetch'[f].kind = "locked"
          /\ fetch'[f].key = fetch[f].key
      BY <3>1, <3>2 DEF TypeOK, Fetch
    <3>4. QED
      BY <3>3 DEF Producing
  <2>5. ASSUME NEW k \in Keys, wanted'[k]
        PROVE  \E g \in Fetchers : Producing(g, k)'
    <3>1. CASE k = fetch[f].key
      BY <2>4, <3>1
    <3>2. CASE k # fetch[f].key
      <4>1. PICK g \in Fetchers : Producing(g, k)
        BY <2>2, <2>5, <3>2 DEF AnnouncedIsProduced
      <4>2. QED
        BY <2>3, <4>1
    <3>3. QED
      BY <3>1, <3>2
  <2>6. QED
    BY <2>5 DEF AnnouncedIsProduced
<1>7. CASE Make(f)
  <2>1. \A a \in Answers : Leave(f, a) /\ fetch[f].at = "make" =>
          \A g \in Fetchers, k \in Keys : Producing(g, k) => Producing(g, k)'
    BY DEF Leave, Producing, TypeOK, Fetch
  <2>2. \A g \in Fetchers, k \in Keys : Producing(g, k) => Producing(g, k)'
    <3>1. CASE Leave(f, "raised") \/ Leave(f, "data")
      BY <1>7, <3>1, <2>1 DEF Make, Answers
    <3>2. ASSUME NEW life \in Lifetimes,
                 fetch' = [fetch EXCEPT ![f].at = "insert", ![f].life = life,
                                        ![f].answer = "data"]
          PROVE  \A g \in Fetchers, k \in Keys :
                   Producing(g, k) => Producing(g, k)'
      BY <3>2 DEF Producing, TypeOK, Fetch
    <3>3. QED
      BY <1>7, <3>1, <3>2 DEF Make
  <2>3. QED
    BY <1>7, <2>2, ProducersStay DEF Make, Unshared
<1>8. CASE Insert(f)
  <2>1. PICK a : Leave(f, a)
    BY <1>8 DEF Insert
  <2>2. \A g \in Fetchers, k \in Keys : Producing(g, k) => Producing(g, k)'
    BY <2>1 DEF Leave, Producing, TypeOK, Fetch
  <2>3. QED
    BY <1>8, <2>2, ProducersStay DEF Insert
<1>9. CASE ClearFlag(f)
  <2>1. fetch[f].key \in Keys
    BY DEF TypeOK, Fetch
  <2>2. \A k \in Keys : wanted'[k] => wanted[k] /\ k # fetch[f].key
    BY <1>9, <2>1 DEF ClearFlag, Announce, TypeOK
  <2>3. \A g \in Fetchers, k \in Keys :
          k # fetch[f].key /\ Producing(g, k) => Producing(g, k)'
    BY <1>9 DEF ClearFlag, Announce, Goto, Producing, TypeOK, Fetch
  <2>4. QED
    BY <2>2, <2>3, ProducersStay
<1>10. QED
  BY <1>1, <1>2, <1>3, <1>4, <1>5, <1>6, <1>7, <1>8, <1>9 DEF Work, Waiting

(* An announcement has a producer at work behind it, for any threads and   *)
(* keys (lockedCacheFetch, lines 270-314): an exception of f_produce or of *)
(* the insert never leaves a key announced.                                *)
THEOREM NobodyWaitsInVain == Spec => []AnnouncedIsProduced
<1> DEFINE Inv == OnlyLocked /\ AnnouncedIsProduced
<1>1. Init => Inv
  BY DEF Init, AnnouncedIsProduced, OnlyLocked
<1>2. TypeOK /\ Inv /\ [Next]_vars => Inv'
  <2> SUFFICES ASSUME TypeOK, OnlyLocked, AnnouncedIsProduced, [Next]_vars
               PROVE  OnlyLocked' /\ AnnouncedIsProduced'
    OBVIOUS
  <2>1. CASE Stop \/ Tick \/ CleanerEnds \/ UNCHANGED vars
    <3>1. UNCHANGED <<fetch, wanted>>
      BY <2>1 DEF Stop, Tick, CleanerEnds, vars
    <3>2. QED
      BY <3>1, ProducersStay DEF OnlyLocked, Producing
  <2>2. CASE Clean
    BY <2>2, ProducersStay DEF Clean, OnlyLocked, Producing
  <2>3. ASSUME NEW k \in Keys, Remove(k)
        PROVE  OnlyLocked' /\ AnnouncedIsProduced'
    BY <2>3, ProducersStay DEF Remove, OnlyLocked, Producing
  <2>4. ASSUME NEW f \in Fetchers, NEW kind \in Kinds, NEW k \in Keys,
               Start(f, kind, k)
        PROVE  OnlyLocked' /\ AnnouncedIsProduced'
    BY <2>4, ProducersStay DEF Start, OnlyLocked, Producing, TypeOK, Fetch
  <2>5. ASSUME NEW f \in Fetchers, Work(f)
        PROVE  OnlyLocked' /\ AnnouncedIsProduced'
    BY <2>5, WorkAnnounced, WorkLocked
  <2>6. QED
    BY <2>1, <2>2, <2>3, <2>4, <2>5 DEF Next, Work
<1>3. QED
  BY <1>1, <1>2, CacheTypeCorrect, PTL DEF Spec

--------------------------------------------------------------------------------
(* run() returns only after stop().                                        *)
EndedStopped == ended => stopme

(* A step in which no entry ages keeps NothingStale.                       *)
LEMMA NoneAges ==
  ASSUME TypeOK, NothingStale, UNCHANGED <<now, passed, stopme>>,
         \A k \in Keys : cache'[k] # Missing =>
           \/ cache'[k] = cache[k]
           \/ cache'[k].expiry \in Nat /\ cache'[k].expiry >= now
  PROVE  NothingStale'
  BY DEF TypeOK, NothingStale, Exists, Entry

(* While the cleaner runs no entry outlives its lifetime by more than one  *)
(* of its intervals (run, lines 65-87), for any threads, keys and times.   *)
THEOREM ExpiredEntriesGo == Spec => []NothingStale
<1>1. Init => NothingStale /\ EndedStopped
  BY DEF Init, NothingStale, Exists, EndedStopped
<1>2. TypeOK /\ NothingStale /\ EndedStopped /\ [Next]_vars => NothingStale'
  <2> SUFFICES ASSUME TypeOK, NothingStale, EndedStopped, [Next]_vars
               PROVE  NothingStale'
    OBVIOUS
  <2>1. CASE Stop
    BY <2>1 DEF Stop, NothingStale
  <2>2. CASE Clean
    <3>1. \A k \in Keys : cache'[k] # Missing =>
            /\ cache'[k] = cache[k] /\ Exists(k) /\ ~(cache[k].expiry < now)
      <4>1. cache' = [k \in Keys |-> IF k \in Expired THEN Missing ELSE cache[k]]
        BY <2>2 DEF Clean, Forget
      <4>2. QED
        BY <4>1 DEF Expired, Exists
    <3>2. \A k \in Keys : Exists(k) => cache[k].expiry \in Nat
      BY DEF TypeOK, Exists, Entry
    <3>3. QED
      BY <2>2, <3>1, <3>2 DEF Clean, NothingStale, Exists, TypeOK
  <2>3. CASE CleanerEnds
    BY <2>3 DEF CleanerEnds, NothingStale, Exists
  <2>4. CASE Tick
    <3>1. \A k \in Keys : Exists(k) => cache[k].expiry \in Nat
      BY DEF TypeOK, Exists, Entry
    <3>2. stopme \/ passed
      BY <2>4 DEF Tick, EndedStopped
    <3>3. QED
      BY <2>4, <3>1, <3>2 DEF Tick, NothingStale, Exists, TypeOK
  <2>5. ASSUME NEW k \in Keys, Remove(k)
        PROVE  NothingStale'
    BY <2>5, NoneAges DEF Remove, Forget
  <2>6. ASSUME NEW f \in Fetchers, NEW kind \in Kinds, NEW k \in Keys,
               Start(f, kind, k)
        PROVE  NothingStale'
    BY <2>6, NoneAges DEF Start
  <2>7. ASSUME NEW f \in Fetchers, Work(f)
        PROVE  NothingStale'
    <3>1. CASE Insert(f)
      <4>1. fetch[f].life + now >= now /\ fetch[f].life + now \in Nat
        <5>1. fetch[f].life \in Nat /\ now \in Nat
          BY LifeIsNat DEF TypeOK
        <5>2. QED
          BY <5>1
      <4>2. \A k \in Keys : cache'[k] # cache[k] =>
              cache'[k].expiry = fetch[f].life + now
        <5>1. ASSUME NEW size \in Sizes,
                     cache' = [cache EXCEPT ![fetch[f].key] =
                                [expiry |-> fetch[f].life + now, size |-> size]],
                     NEW k \in Keys, cache'[k] # cache[k]
              PROVE  cache'[k].expiry = fetch[f].life + now
          BY <5>1 DEF TypeOK
        <5>2. QED
          BY <3>1, <5>1 DEF Insert
      <4>3. QED
        BY <3>1, <4>1, <4>2, NoneAges DEF Insert
    <3>2. CASE ~Insert(f)
      BY <2>7, <3>2, NoneAges
      DEF Work, Look, Read, SeeFlag, Waiting, WaitRound, Relook, SetFlag, Make,
          ClearFlag, Unshared
    <3>3. QED
      BY <3>1, <3>2
  <2>8. CASE UNCHANGED vars
    BY <2>8, SMTT(30) DEF vars, NothingStale, Exists
  <2>9. QED
    BY <2>1, <2>2, <2>3, <2>4, <2>5, <2>6, <2>7, <2>8 DEF Next, Work
<1>3. EndedStopped /\ [Next]_vars => EndedStopped'
  BY DEF EndedStopped, Next, vars, Stop, Clean, CleanerEnds, Tick, Remove, Start,
         Look, Read, SeeFlag, Waiting, WaitRound, Relook, SetFlag, Make, Insert,
         ClearFlag, Unshared
<1>4. QED
  BY <1>1, <1>2, <1>3, CacheTypeCorrect, PTL DEF Spec

--------------------------------------------------------------------------------
(***************************************************************************)
(* Sums over a finite set of keys.  The induction behind them is done once *)
(* and by hand: a sum of sizes is the number of bytes in the set of bytes  *)
(* below, whose cardinality the theorems about finite sets give.           *)
(***************************************************************************)
Sum(c, S) == MapThenSumSet(LAMBDA k : c[k].size, S)

(* The bytes of the entries under the keys S, one by one.                  *)
Block(c, k) == {k} \X (1 .. c[k].size)
Blocks(c, S) == UNION {Block(c, k) : k \in S}

Sized(c, S) == IsFiniteSet(S) /\ \A k \in S : c[k].size \in Nat

LEMMA BlockSize ==
  ASSUME NEW c, NEW k, c[k].size \in Nat
  PROVE  IsFiniteSet(Block(c, k)) /\ Cardinality(Block(c, k)) = c[k].size
<1>1. IsFiniteSet({k}) /\ Cardinality({k}) = 1
  BY FS_Singleton
<1>2. IsFiniteSet(1 .. c[k].size) /\ Cardinality(1 .. c[k].size) = c[k].size
  <2> DEFINE n == c[k].size
  <2>1. 1 \in Int /\ n \in Int
    OBVIOUS
  <2>2. /\ IsFiniteSet(1 .. n)
        /\ Cardinality(1 .. n) = IF 1 > n THEN 0 ELSE n - 1 + 1
    <3> HIDE DEF n
    <3>1. QED
      BY <2>1, FS_Interval
  <2>3. (IF 1 > n THEN 0 ELSE n - 1 + 1) = n
    OBVIOUS
  <2>4. QED
    BY <2>2, <2>3
<1>3. /\ IsFiniteSet({k} \X (1 .. c[k].size))
      /\ Cardinality({k} \X (1 .. c[k].size)) = 1 * c[k].size
  BY <1>1, <1>2, FS_Product, ZenonT(60)
<1>4. QED
  BY <1>3 DEF Block

LEMMA BlocksFinite ==
  ASSUME NEW c, NEW S, Sized(c, S)
  PROVE  IsFiniteSet(Blocks(c, S))
<1> DEFINE T == {Block(c, k) : k \in S}
           f == [k \in S |-> Block(c, k)]
<1>1. f \in Surjection(S, T)
  BY DEF Surjection
<1>2. IsFiniteSet(T)
  BY <1>1, FS_Surjection DEF Sized
<1>3. \A B \in T : IsFiniteSet(B)
  BY BlockSize DEF Sized
<1>4. QED
  BY <1>2, <1>3, FS_UNION DEF Blocks

LEMMA BlocksUnion ==
  ASSUME NEW c, NEW S, NEW T
  PROVE  /\ Blocks(c, S \cup T) = Blocks(c, S) \cup Blocks(c, T)
         /\ S \cap T = {} => Blocks(c, S) \cap Blocks(c, T) = {}
<1>1. Blocks(c, S \cup T) = Blocks(c, S) \cup Blocks(c, T)
  BY DEF Blocks
<1>2. \A U : \A b \in Blocks(c, U) : b[1] \in U
  BY DEF Blocks, Block
<1>3. QED
  BY <1>1, <1>2

(* The bytes of two disjoint sets of keys.                                 *)
LEMMA BlocksAdd ==
  ASSUME NEW c, NEW S, NEW T, Sized(c, S), Sized(c, T), S \cap T = {}
  PROVE  Cardinality(Blocks(c, S \cup T)) =
           Cardinality(Blocks(c, S)) + Cardinality(Blocks(c, T))
<1>1. IsFiniteSet(Blocks(c, S)) /\ IsFiniteSet(Blocks(c, T))
  BY BlocksFinite
<1>2. Blocks(c, S) \cap Blocks(c, T) = {}
  BY BlocksUnion
<1>3. Cardinality(Blocks(c, S) \cup Blocks(c, T)) =
        Cardinality(Blocks(c, S)) + Cardinality(Blocks(c, T)) - 0
  BY <1>1, <1>2, FS_Union, FS_EmptySet
<1>4. Cardinality(Blocks(c, S)) \in Nat /\ Cardinality(Blocks(c, T)) \in Nat
  BY <1>1, FS_CardinalityType
<1>5. Blocks(c, S \cup T) = Blocks(c, S) \cup Blocks(c, T)
  BY BlocksUnion
<1>6. Cardinality(Blocks(c, S)) + Cardinality(Blocks(c, T)) - 0 =
        Cardinality(Blocks(c, S)) + Cardinality(Blocks(c, T))
  BY <1>4
<1>7. QED
  BY <1>3, <1>5, <1>6, Zenon

LEMMA BlocksOfOne ==
  ASSUME NEW c, NEW k, c[k].size \in Nat
  PROVE  Sized(c, {k}) /\ Cardinality(Blocks(c, {k})) = c[k].size
<1>1. Blocks(c, {k}) = Block(c, k)
  BY DEF Blocks
<1>2. QED
  BY <1>1, BlockSize, FS_Singleton DEF Sized

(* The recursion MapThenSumSet stands for.                                 *)
Pick(s) == CHOOSE x \in s : TRUE
Folded(c, it, s) == IF s = {} THEN 0 ELSE c[Pick(s)].size + it[s \ {Pick(s)}]
Recursion(c, it, S) == it = [s \in SUBSET S |-> Folded(c, it, s)]

LEMMA SumIsFold ==
  ASSUME NEW c, NEW S
  PROVE  Sum(c, S) = (CHOOSE it : Recursion(c, it, S))[S]
  BY DEF Sum, MapThenSumSet, MapThenFoldSet, Recursion, Folded, Pick

LEMMA FoldExists ==
  ASSUME NEW c, NEW S, Sized(c, S)
  PROVE  Recursion(c, [s \in SUBSET S |-> Cardinality(Blocks(c, s))], S)
<1> DEFINE W == [s \in SUBSET S |-> Cardinality(Blocks(c, s))]
<1>1. ASSUME NEW s \in SUBSET S
      PROVE  Cardinality(Blocks(c, s)) = Folded(c, W, s)
  <2>1. CASE s = {}
    BY <2>1, FS_EmptySet DEF Folded, Blocks
  <2>2. CASE s # {}
    <3>1. Pick(s) \in s
      BY <2>2 DEF Pick
    <3>2. c[Pick(s)].size \in Nat
      BY <3>1 DEF Sized
    <3>3. Sized(c, s \ {Pick(s)})
      BY FS_Subset DEF Sized
    <3>4. s = {Pick(s)} \cup (s \ {Pick(s)})
      BY <3>1
    <3>5. Cardinality(Blocks(c, s)) =
            c[Pick(s)].size + Cardinality(Blocks(c, s \ {Pick(s)}))
      <4>1. Sized(c, {Pick(s)})
            /\ Cardinality(Blocks(c, {Pick(s)})) = c[Pick(s)].size
        BY <3>2, BlocksOfOne
      <4>2. Cardinality(Blocks(c, {Pick(s)} \cup (s \ {Pick(s)}))) =
              Cardinality(Blocks(c, {Pick(s)})) + Cardinality(Blocks(c, s \ {Pick(s)}))
        BY <3>3, <4>1, BlocksAdd
      <4>3. QED
        BY <3>4, <4>1, <4>2
    <3>6. W[s \ {Pick(s)}] = Cardinality(Blocks(c, s \ {Pick(s)}))
      OBVIOUS
    <3>7. QED
      BY <2>2, <3>5, <3>6 DEF Folded
  <2>3. QED
    BY <2>1, <2>2
<1>2. QED
  BY <1>1 DEF Recursion

(* A smallest set of keys on which two solutions differed would be empty.  *)
LEMMA FoldUnique ==
  ASSUME NEW c, NEW S, IsFiniteSet(S), NEW f, NEW g,
         Recursion(c, f, S), Recursion(c, g, S)
  PROVE  f[S] = g[S]
<1> DEFINE Differ == {s \in SUBSET S : f[s] # g[s]}
<1> SUFFICES ASSUME S \in Differ
             PROVE  FALSE
  OBVIOUS
<1>1. IsWellFoundedOn(StrictSubsetOrdering(S), SUBSET S)
  BY FS_StrictSubsetOrderingWellFounded, FS_FiniteSubsetsOfFinite
<1>2. PICK s \in Differ : \A t \in Differ : <<t, s>> \notin StrictSubsetOrdering(S)
  <2>1. Differ \subseteq SUBSET S /\ Differ # {}
    OBVIOUS
  <2> HIDE DEF Differ
  <2>2. QED
    BY <1>1, <2>1, WFMin
<1>3. f[s] = Folded(c, f, s) /\ g[s] = Folded(c, g, s)
  BY DEF Recursion
<1>4. s # {}
  BY <1>3 DEF Folded
<1>5. Pick(s) \in s
  BY <1>4 DEF Pick
<1>6. <<s \ {Pick(s)}, s>> \in StrictSubsetOrdering(S)
  BY <1>5 DEF StrictSubsetOrdering
<1>7. f[s \ {Pick(s)}] = g[s \ {Pick(s)}]
  BY <1>2, <1>6
<1>8. QED
  BY <1>3, <1>4, <1>7 DEF Folded

LEMMA SumIsBlocks ==
  ASSUME NEW c, NEW S, Sized(c, S)
  PROVE  Sum(c, S) = Cardinality(Blocks(c, S))
<1> DEFINE W == [s \in SUBSET S |-> Cardinality(Blocks(c, s))]
           it == CHOOSE f : Recursion(c, f, S)
<1>1. Recursion(c, W, S)
  BY FoldExists
<1>2. Recursion(c, it, S)
  <2> HIDE DEF W
  <2>1. QED
    BY <1>1
<1>3. it[S] = W[S]
  <2> HIDE DEF W, it
  <2>1. QED
    BY <1>1, <1>2, FoldUnique DEF Sized
<1>4. QED
  BY <1>3, SumIsFold

(* The sum over two disjoint sets, over one key, and of the same sizes.    *)
LEMMA SumAdd ==
  ASSUME NEW c, NEW S, NEW T, Sized(c, S), Sized(c, T), S \cap T = {}
  PROVE  Sum(c, S \cup T) = Sum(c, S) + Sum(c, T)
<1>1. Sized(c, S \cup T)
  BY FS_Union DEF Sized
<1>2. QED
  BY <1>1, SumIsBlocks, BlocksAdd

LEMMA SumOfOne ==
  ASSUME NEW c, NEW k, c[k].size \in Nat
  PROVE  Sized(c, {k}) /\ Sum(c, {k}) = c[k].size
  BY BlocksOfOne, SumIsBlocks, ZenonT(60)

LEMMA SumSame ==
  ASSUME NEW c, NEW d, NEW S, Sized(c, S), \A k \in S : d[k].size = c[k].size
  PROVE  Sized(d, S) /\ Sum(d, S) = Sum(c, S)
<1>1. Sized(d, S)
  BY DEF Sized
<1>2. \A k \in S : Block(d, k) = Block(c, k)
  BY DEF Block
<1>3. Blocks(d, S) = Blocks(c, S)
  BY <1>2 DEF Blocks
<1>4. QED
  BY <1>1, <1>3, SumIsBlocks

LEMMA SumNat ==
  ASSUME NEW c, NEW S, Sized(c, S)
  PROVE  Sum(c, S) \in Nat
  BY SumIsBlocks, BlocksFinite, FS_CardinalityType

--------------------------------------------------------------------------------
Held(c) == {k \in Keys : c[k] # Missing}

(* However many keys there are, finitely many have an entry.               *)
FinitelyMany == IsFiniteSet(Held(cache))

LEMMA BytesAreSum == \A c : Bytes(c) = Sum(c, Held(c))
  BY DEF Bytes, Sum, Held

LEMMA EntrySized ==
  ASSUME TypeOK, FinitelyMany, NEW S \in SUBSET Held(cache)
  PROVE  Sized(cache, S)
<1>1. \A k \in Held(cache) : cache[k].size \in Nat
  BY DEF TypeOK, Entry, Held
<1>2. IsFiniteSet(S)
  BY FS_Subset DEF FinitelyMany
<1>3. QED
  BY <1>1, <1>2 DEF Sized

LEMMA ForgetAccounted ==
  ASSUME TypeOK, FinitelyMany, BytesAccounted, NEW ks \in SUBSET Keys, Forget(ks)
  PROVE  FinitelyMany' /\ BytesAccounted'
<1> DEFINE gone == {k \in ks : Exists(k)}
           rest == Held(cache) \ ks
<1>1. /\ Held(cache') = rest /\ Held(cache) = rest \cup gone
      /\ rest \cap gone = {}
  BY DEF Forget, Held, Exists, TypeOK
<1>2. \A k \in rest : cache'[k].size = cache[k].size
  BY DEF Forget, Held
<1>3. cachesize' = cachesize - Sum(cache, gone)
  BY DEF Forget, Sum
<1> HIDE DEF rest, gone
<1>4. Sized(cache, rest) /\ Sized(cache, gone)
  BY <1>1, EntrySized
<1>5. cachesize = Sum(cache, rest) + Sum(cache, gone)
  BY <1>1, <1>4, SumAdd, BytesAreSum DEF BytesAccounted
<1>6. Sum(cache, rest) \in Nat /\ Sum(cache, gone) \in Nat
  BY <1>4, SumNat
<1>7. cachesize' = Sum(cache, rest)
  BY <1>3, <1>5, <1>6
<1>8. Sum(cache', rest) = Sum(cache, rest)
  BY <1>2, <1>4, SumSame
<1>9. BytesAccounted'
  BY <1>1, <1>7, <1>8, BytesAreSum DEF BytesAccounted
<1>10. FinitelyMany'
  BY <1>1, <1>4 DEF FinitelyMany, Sized
<1>11. QED
  BY <1>9, <1>10

(* A new entry replaces the old one in the sum.                            *)
LEMMA StoreAccounted ==
  ASSUME TypeOK, FinitelyMany, BytesAccounted, NEW k \in Keys,
         NEW e \in Entry, cache' = [cache EXCEPT ![k] = e],
         cachesize' = cachesize + e.size -
           (IF Exists(k) THEN cache[k].size ELSE 0)
  PROVE  FinitelyMany' /\ BytesAccounted'
<1> DEFINE rest == Held(cache) \ {k}
<1>0. e # Missing /\ e.size \in Nat
  BY CacheAssumption DEF Entry
<1>1. Held(cache') = rest \cup {k} /\ rest \cap {k} = {}
  BY <1>0 DEF Held, TypeOK
<1>2. cache'[k].size = e.size /\ \A j \in rest : cache'[j].size = cache[j].size
  BY DEF Held, TypeOK
<1>3. Sized(cache, rest) /\ Sum(cache, rest) \in Nat
  BY EntrySized, SumNat
<1>4. cachesize = Sum(cache, rest) + (IF Exists(k) THEN cache[k].size ELSE 0)
  <2>1. CASE Exists(k)
    <3>1. Held(cache) = rest \cup {k} /\ {k} \in SUBSET Held(cache)
      BY <2>1 DEF Held, Exists
    <3>2. cache[k].size \in Nat
      BY <3>1, EntrySized DEF Sized
    <3> HIDE DEF rest
    <3>3. Sum(cache, {k}) = cache[k].size /\ Sized(cache, {k})
      BY <3>2, SumOfOne
    <3>4. Sum(cache, Held(cache)) = Sum(cache, rest) + Sum(cache, {k})
      BY <1>1, <1>3, <3>1, <3>3, SumAdd
    <3>5. cachesize = Sum(cache, Held(cache))
      BY BytesAreSum DEF BytesAccounted
    <3>6. QED
      BY <2>1, <3>3, <3>4, <3>5
  <2>2. CASE ~Exists(k)
    <3>1. Held(cache) = rest
      BY <2>2 DEF Held, Exists
    <3> HIDE DEF rest
    <3>2. cachesize = Sum(cache, rest)
      BY <3>1, BytesAreSum DEF BytesAccounted
    <3>3. QED
      BY <1>3, <2>2, <3>2
  <2>3. QED
    BY <2>1, <2>2
<1> HIDE DEF rest
<1>5. cachesize' = Sum(cache, rest) + e.size
  <2>1. Exists(k) => cache[k].size \in Nat
    BY DEF TypeOK, Entry, Exists
  <2>2. QED
    BY <1>0, <1>3, <1>4, <2>1
<1>6. Sized(cache', rest) /\ Sum(cache', rest) = Sum(cache, rest)
  BY <1>2, <1>3, SumSame
<1>7. Sized(cache', {k}) /\ Sum(cache', {k}) = e.size
  BY <1>0, <1>2, SumOfOne
<1>8. Sum(cache', Held(cache')) = Sum(cache', rest) + Sum(cache', {k})
  <2>1. \A c : Sized(c, rest) /\ Sized(c, {k}) =>
                Sum(c, rest \cup {k}) = Sum(c, rest) + Sum(c, {k})
    BY <1>1, SumAdd
  <2>2. QED
    BY <1>1, <1>6, <1>7, <2>1
<1>9. BytesAccounted'
  <2>1. cachesize' = Sum(cache', Held(cache'))
    BY <1>5, <1>6, <1>7, <1>8
  <2>2. QED
    BY <2>1, BytesAreSum DEF BytesAccounted
<1>10. FinitelyMany'
  <2>1. IsFiniteSet(rest \cup {k})
    BY <1>3, FS_AddElement DEF Sized
  <2>2. QED
    BY <1>1, <2>1 DEF FinitelyMany
<1>11. QED
  BY <1>9, <1>10

(* cachesize is the sum of the sizes of the entries, whatever is inserted  *)
(* over, removed, expired or stored by an insert that raises (_insert and  *)
(* _remove, lines 108-145), for any number of keys and any sizes.          *)
THEOREM BytesCounted == Spec => []BytesAccounted
<1> DEFINE Inv == FinitelyMany /\ BytesAccounted
<1>1. Init => Inv
  <2> SUFFICES ASSUME Init
               PROVE  Inv
    OBVIOUS
  <2>1. Held(cache) = {}
    BY DEF Init, Held
  <2>2. Sized(cache, {}) /\ Sum(cache, {}) = 0
    <3>1. Sized(cache, {}) /\ Blocks(cache, {}) = {}
      BY FS_EmptySet DEF Sized, Blocks
    <3>2. QED
      BY <3>1, SumIsBlocks, FS_EmptySet
  <2>3. QED
    BY <2>1, <2>2, BytesAreSum DEF Init, FinitelyMany, BytesAccounted, Sized
<1>2. TypeOK /\ Inv /\ [Next]_vars => Inv'
  <2> SUFFICES ASSUME TypeOK, FinitelyMany, BytesAccounted, [Next]_vars
               PROVE  FinitelyMany' /\ BytesAccounted'
    OBVIOUS
  <2>1. CASE UNCHANGED <<cache, cachesize>>
    BY <2>1 DEF FinitelyMany, BytesAccounted
  <2>2. CASE Clean
    BY <2>2, ForgetAccounted DEF Clean, Expired
  <2>3. ASSUME NEW k \in Keys, Remove(k)
        PROVE  FinitelyMany' /\ BytesAccounted'
    BY <2>3, ForgetAccounted DEF Remove
  <2>4. ASSUME NEW f \in Fetchers, Insert(f), ~UNCHANGED <<cache, cachesize>>
        PROVE  FinitelyMany' /\ BytesAccounted'
    <3> DEFINE k == fetch[f].key
               e(size) == [expiry |-> fetch[f].life + now, size |-> size]
    <3>1. PICK size \in Sizes :
            /\ cache' = [cache EXCEPT ![k] = e(size)]
            /\ cachesize' = cachesize + size -
                 (IF Exists(k) THEN cache[k].size ELSE 0)
      BY <2>4 DEF Insert
    <3>2. k \in Keys
      BY DEF TypeOK, Fetch
    <3>3. e(size) \in Entry /\ e(size).size = size
      <4>1. fetch[f].life \in Nat /\ now \in Nat /\ size \in Nat
        BY LifeIsNat, CacheAssumption DEF TypeOK
      <4>2. QED
        BY <4>1 DEF Entry
    <3> HIDE DEF k, e
    <3>4. QED
      BY <3>1, <3>2, <3>3, StoreAccounted
  <2>5. QED
    <3>1. ASSUME NEW f \in Fetchers, Work(f), ~Insert(f)
          PROVE  UNCHANGED <<cache, cachesize>>
      BY <3>1
      DEF Work, Look, Read, SeeFlag, Waiting, WaitRound, Relook, SetFlag, Make,
          ClearFlag, Unshared
    <3>2. CASE Next
      <4>1. CASE Stop \/ CleanerEnds \/ Tick
        BY <2>1, <4>1 DEF Stop, CleanerEnds, Tick
      <4>2. ASSUME NEW f \in Fetchers, NEW kind \in Kinds, NEW k \in Keys,
                   Start(f, kind, k)
            PROVE  FinitelyMany' /\ BytesAccounted'
        BY <2>1, <4>2 DEF Start
      <4>3. ASSUME NEW f \in Fetchers, Work(f)
            PROVE  FinitelyMany' /\ BytesAccounted'
        BY <2>1, <2>4, <3>1, <4>3
      <4>4. QED
        BY <2>2, <2>3, <3>2, <4>1, <4>2, <4>3 DEF Next, Work
    <3>3. CASE UNCHANGED vars
      BY <2>1, <3>3 DEF vars
    <3>4. QED
      BY <3>2, <3>3
<1>3. QED
  BY <1>1, <1>2, CacheTypeCorrect, PTL DEF Spec

--------------------------------------------------------------------------------
(* The transfer plots (PhEDExSource).  An image is kept in an entry with a *)
(* lock, made by one request and shared by those that ask for it later;    *)
(* the age of an image is bounded wherever a request is on its way.        *)

(* Rows read at some time, for some interval, and images drawn of them.    *)
RowsRead == [at : Nat, valid : Nat, for : Int \X Int]
Drawn == [image : Images, at : Nat, for : Int \X Int]
Entries == [lock : Requests \cup {None}, valid : Nat, kept : [PhEDEx!Parts -> Drawn \cup {None}]]
Busy == {"query", "rows", "draw"}
InUse == {"lock"} \cup Busy

(* The types of the state of the transfer plots.                           *)
PlotsType ==
  /\ clock \in Nat
  /\ imgcache \in [Images -> Requests \cup {None}]
  /\ entry \in [Requests -> Entries]
  /\ rows \in [PhEDEx!Intervals -> RowsRead \cup {None}]
  /\ pc \in [Requests -> {"idle", "look", "done"} \cup InUse]
  /\ requested \in [Requests -> (UNION {Asks[r] : r \in Requests}) \cup {None}]
  /\ since \in [Requests -> Nat]
  /\ cached \in [Requests -> Requests \cup {None}]
  /\ began \in [Requests -> Nat]
  /\ data \in [Requests -> Drawn \cup {None}]
  /\ drawn \in [Requests -> Drawn \cup {None}]
  /\ failures \in Nat

(* What a request has at each place, and that only its owner is at work on *)
(* an entry.                                                               *)
Placed(r) ==
  /\ pc[r] \in {"look"} \cup InUse => requested[r] \in Asks[r]
  /\ pc[r] \in InUse <=> cached[r] # None
  /\ pc[r] \in Busy => entry[cached[r]].lock = r
  /\ pc[r] = "draw" => data[r] # None
  /\ pc[r] # "done" => drawn[r] = None
  /\ pc[r] \in {"idle", "look"} => \A p \in PhEDEx!Parts : entry[r].kept[p] = None
  /\ cached[r] # None => pc[cached[r]] \notin {"idle", "look"}

(* Who asked before the time t, and whose entry is valid until then.       *)
Enough(r, t) ==
  /\ entry[cached[r]].valid <= t
  /\ \A q \in Requests : cached[q] = cached[r] => since[q] <= t

(* How long a part can be valid, by what has failed; when it is used last, *)
(* and that none of the parts in an entry is used after that.              *)
Life == ImageLife * (1 + failures)
LastUse(d, life) == d.at + RowsLife + life
Lasts(e, t, life) ==
  \A p \in PhEDEx!Parts : e.kept[p] # None => t <= LastUse(e.kept[p], life)

(* The bound on the age of an image that holds at each place of a request. *)
Timely(r) ==
  /\ since[r] <= clock /\ began[r] <= clock
  /\ entry[r].valid <= clock + ImageLife
  /\ Lasts(entry[r], entry[r].valid, Life)
  /\ cached[r] # None => Lasts(entry[cached[r]], since[r], Life)
  /\ pc[r] = "rows" => since[r] <= began[r] /\ Enough(r, began[r] + ImageLife)
  /\ pc[r] = "draw" => since[r] <= data[r].at + RowsLife /\ Enough(r, LastUse(data[r], ImageLife))
  /\ drawn[r] # None => since[r] <= LastUse(drawn[r], Life)

(* Rows are kept for RowsLife, and an entry in the cache is some request's *)
(* that has made it.                                                       *)
PlotsInv ==
  /\ PlotsType
  /\ \A k \in PhEDEx!Intervals : rows[k] # None => rows[k].valid = rows[k].at + RowsLife
  /\ \A i \in Images : imgcache[i] # None => pc[imgcache[i]] \notin {"idle", "look"}
  /\ \A r \in Requests : Placed(r) /\ Timely(r)

--------------------------------------------------------------------------------
LEMMA PlotsParameters ==
  /\ ImageLife \in Nat /\ RowsLife \in Nat
  /\ Interval \in [Images -> Int \X Int]
  /\ PhEDEx!Intervals \subseteq Int \X Int
  /\ \A i \in Images : Interval[i] \in PhEDEx!Intervals
  /\ \A r \in Requests : \A a \in Asks[r] : a.image \in Images
  /\ None \notin Requests /\ None \notin Drawn /\ None \notin RowsRead
<1>1. PhEDEx!Parameters
  BY SourcesAssumption
<1>2. Interval \in [Images -> Int \X Int]
  BY <1>1 DEF PhEDEx!Parameters
<1>3. PhEDEx!Intervals \subseteq Int \X Int /\ \A i \in Images : Interval[i] \in PhEDEx!Intervals
  BY <1>2 DEF PhEDEx!Intervals
<1>4. QED
  BY <1>1, <1>2, <1>3 DEF PhEDEx!Parameters, Drawn, RowsRead

(* Among the intervals in the cache that have all that is asked, there is  *)
(* one that is within no other of them.                                    *)
LEMMA KeyIsInterval ==
  ASSUME NEW t \in PhEDEx!Intervals
  PROVE  PhEDEx!KeyOf(t) \in PhEDEx!Intervals
<1> DEFINE A == PhEDEx!Around(t)
           Spare(u) == (t[1] - u[1]) + (u[2] - t[2])
           Spares == {Spare(u) : u \in A}
<1>1. A \subseteq PhEDEx!Intervals /\ \A u \in A : PhEDEx!Within(t, u)
  BY DEF PhEDEx!Around
<1>2. t \in Int \X Int /\ \A u \in A : u \in Int \X Int
  BY <1>1, PlotsParameters
<1>3. \A u \in A : Spare(u) \in Nat
  BY <1>1, <1>2 DEF PhEDEx!Within
<1>4. CASE A = {}
  BY <1>4 DEF PhEDEx!KeyOf
<1>5. CASE A # {}
  <2>1. PICK n \in Spares : \A m \in Spares : ~(<<m, n>> \in OpToRel(<, Nat))
    <3>1. Spares \subseteq Nat /\ Spares # {}
      BY <1>3, <1>5
    <3> HIDE DEF Spares
    <3>2. QED
      BY <3>1, NatLessThanWellFounded, WFMin
  <2>2. PICK u \in A : n = Spare(u)
    OBVIOUS
  <2>3. \A v \in A : ~(Spare(v) < Spare(u))
    BY <1>3, <2>1, <2>2 DEF OpToRel
  <2>4. ASSUME NEW v \in A, PhEDEx!Within(v, u)
        PROVE  v = u
    <3>1. /\ v = <<v[1], v[2]>> /\ u = <<u[1], u[2]>>
          /\ v[1] \in Int /\ v[2] \in Int /\ u[1] \in Int /\ u[2] \in Int
          /\ t[1] \in Int /\ t[2] \in Int
      BY <1>2
    <3>2. u[1] <= v[1] /\ v[2] <= u[2] /\ ~(Spare(v) < Spare(u))
      BY <2>3, <2>4 DEF PhEDEx!Within
    <3>3. v[1] = u[1] /\ v[2] = u[2]
      BY <3>1, <3>2
    <3>4. QED
      BY <3>1, <3>3
  <2>5. \E w \in A : \A v \in A : PhEDEx!Within(v, w) => v = w
    BY <2>4
  <2> DEFINE least == CHOOSE w \in A : \A v \in A : PhEDEx!Within(v, w) => v = w
  <2>6. least \in A
    BY <2>5
  <2>7. PhEDEx!KeyOf(t) = least
    BY <1>5 DEF PhEDEx!KeyOf
  <2>8. QED
    BY <1>1, <2>6, <2>7
<1>6. QED
  BY <1>4, <1>5

--------------------------------------------------------------------------------
LEMMA PlotsInit == PhEDEx!Init => PlotsInv
<1> SUFFICES ASSUME PhEDEx!Init PROVE PlotsInv
  OBVIOUS
<1>1. PlotsType
  BY PlotsParameters DEF PhEDEx!Init, PhEDEx!Empty, PlotsType, Entries, InUse
<1>2. \A r \in Requests : Placed(r)
  BY PlotsParameters DEF PhEDEx!Init, PhEDEx!Empty, Placed, InUse, Busy
<1>3. ASSUME NEW r \in Requests
      PROVE  Timely(r)
  <2>1. /\ pc[r] = "idle" /\ since[r] = 0 /\ began[r] = 0 /\ clock = 0 /\ cached[r] = None
        /\ drawn[r] = None /\ entry[r] = PhEDEx!Empty
    BY DEF PhEDEx!Init
  <2>2. entry[r].valid = 0 /\ \A p \in PhEDEx!Parts : entry[r].kept[p] = None
    BY <2>1 DEF PhEDEx!Empty
  <2>3. QED
    BY <2>1, <2>2, PlotsParameters DEF Timely, Lasts
<1>4. QED
  BY <1>1, <1>2, <1>3, PlotsParameters DEF PhEDEx!Init, PlotsInv

--------------------------------------------------------------------------------
LEMMA LifeNumber == failures \in Nat => Life \in Nat
<1>1. ImageLife \in Nat
  BY PlotsParameters
<1>2. QED
  BY <1>1 DEF Life

(* A failure lengthens what is left to the parts by the life of an image.  *)
LEMMA LifeGrows ==
  ASSUME failures \in Nat, failures' \in {failures, failures + 1}
  PROVE  /\ Life \in Nat /\ Life' \in Nat /\ Life <= Life' /\ ImageLife <= Life
         /\ failures' = failures => Life' = Life
         /\ failures' = failures + 1 => Life' = Life + ImageLife
<1>1. ImageLife \in Nat
  BY PlotsParameters
<1>2. \A n \in Nat : /\ ImageLife * (1 + n) \in Nat
                     /\ ImageLife * (1 + (n + 1)) = ImageLife * (1 + n) + ImageLife
                     /\ ImageLife * (1 + n) = ImageLife + ImageLife * n
                     /\ ImageLife * n \in Nat
  BY <1>1
<1>3. /\ Life \in Nat /\ ImageLife <= Life
      /\ ImageLife * (1 + (failures + 1)) = Life + ImageLife
  <2>1. Life = ImageLife + ImageLife * failures /\ ImageLife * failures \in Nat
    BY <1>2 DEF Life
  <2>2. ImageLife * (1 + (failures + 1)) = Life + ImageLife
    BY <1>2 DEF Life
  <2>3. QED
    BY <1>1, <2>1, <2>2
<1>4. CASE failures' = failures
  BY <1>3, <1>4 DEF Life
<1>5. CASE failures' = failures + 1
  <2>1. Life' = Life + ImageLife
    BY <1>3, <1>5 DEF Life
  <2>2. QED
    BY <1>1, <1>3, <1>5, <2>1
<1>6. QED
  BY <1>4, <1>5

(* What lasts, lasts as long when the parts are left more.                 *)
LEMMA LastsLonger ==
  ASSUME NEW e \in Entries, NEW t \in Nat, NEW s \in Nat, NEW l \in Nat, NEW m \in Nat,
         Lasts(e, t, l), s <= t, l <= m
  PROVE  Lasts(e, s, m)
<1>1. ASSUME NEW p \in PhEDEx!Parts, e.kept[p] # None
      PROVE  s <= LastUse(e.kept[p], m)
  <2>1. e.kept[p] \in Drawn
    BY <1>1 DEF Entries
  <2>2. e.kept[p].at \in Nat /\ RowsLife \in Nat
    BY <2>1, PlotsParameters DEF Drawn
  <2>3. t <= e.kept[p].at + RowsLife + l
    BY <1>1 DEF Lasts, LastUse
  <2>4. QED
    BY <2>2, <2>3 DEF LastUse
<1>2. QED
  BY <1>1 DEF Lasts

(* A request that leaves lets its entry go as it is, or with the image it  *)
(* drew.                                                                   *)
LEMMA LeaveKeeps ==
  ASSUME PlotsInv, NEW r \in Requests, NEW e \in Entries, NEW x \in Drawn \cup {None},
         pc[r] \in InUse, PhEDEx!Leave(r, e, x),
         clock' = clock, since' = since, imgcache' = imgcache, rows' = rows,
         began' \in [Requests -> Nat], \A q \in Requests : began'[q] \in {began[q], 0},
         \A q \in Requests \ {r} : began'[q] = began[q],
         entry[cached[r]].lock \in {r, None},
         failures' \in {failures, failures + 1},
         e.valid <= clock + ImageLife, Lasts(e, e.valid, Life'),
         \A q \in Requests : cached[q] = cached[r] => Lasts(e, since[q], Life'),
         x # None => since[r] <= LastUse(x, Life')
  PROVE  PlotsInv'
<1> DEFINE c == cached[r]
           f == [e EXCEPT !.lock = None]
<1>1. /\ c \in Requests /\ c # None /\ cached[r] # None
      /\ None \notin Requests
  BY PlotsParameters DEF PlotsInv, PlotsType, Placed
<1>2. f \in Entries /\ f.lock = None /\ f.valid = e.valid /\ f.kept = e.kept
  BY DEF Entries
<1>20. failures \in Nat /\ failures' \in Nat
  BY DEF PlotsInv, PlotsType
<1>21. Life \in Nat /\ Life' \in Nat /\ Life <= Life'
  BY <1>20, LifeGrows
<1>3. /\ entry' = [entry EXCEPT ![c] = f]
      /\ drawn' = [drawn EXCEPT ![r] = x]
      /\ requested' = [requested EXCEPT ![r] = None]
      /\ cached' = [cached EXCEPT ![r] = None]
      /\ data' = [data EXCEPT ![r] = None]
      /\ pc' = [pc EXCEPT ![r] = "done"]
  BY DEF PhEDEx!Leave, PhEDEx!Goto
<1> HIDE DEF f, c
<1>4. PlotsType'
  BY <1>1, <1>2, <1>3, <1>20 DEF PlotsInv, PlotsType
<1>5. /\ entry'[c] = f
      /\ \A q \in Requests \ {c} : entry'[q] = entry[q]
      /\ pc'[r] = "done" /\ cached'[r] = None /\ drawn'[r] = x /\ requested'[r] = None
      /\ \A q \in Requests \ {r} : /\ pc'[q] = pc[q] /\ cached'[q] = cached[q]
                                   /\ drawn'[q] = drawn[q] /\ data'[q] = data[q]
                                   /\ requested'[q] = requested[q]
  BY <1>1, <1>3 DEF PlotsInv, PlotsType
<1>6. pc[c] \notin {"idle", "look"} /\ pc'[c] \notin {"idle", "look"}
  BY <1>1, <1>5 DEF PlotsInv, Placed, c
<1>7. ASSUME NEW q \in Requests \ {r}, pc[q] \in Busy
      PROVE  cached[q] # c /\ cached[q] \in Requests
  BY <1>7, <1>1 DEF PlotsInv, Placed, PlotsType, c, InUse
<1>8. \A q \in Requests : pc[q] \notin {"idle", "look"} => pc'[q] \notin {"idle", "look"}
  BY <1>5
<1>9. \A i \in Images : imgcache'[i] # None => pc'[imgcache'[i]] \notin {"idle", "look"}
  BY <1>8 DEF PlotsInv, PlotsType
<1>10. ASSUME NEW q \in Requests
       PROVE  Placed(q)'
  <2>1. CASE q = r
    <3>1. pc'[q] = "done" /\ cached'[q] = None
      BY <1>5, <2>1
    <3>2. QED
      BY <3>1 DEF Placed, InUse, Busy
  <2>2. CASE q # r
    <3>1. Placed(q)
      BY DEF PlotsInv
    <3>2. /\ pc'[q] = pc[q] /\ cached'[q] = cached[q] /\ requested'[q] = requested[q]
          /\ data'[q] = data[q] /\ drawn'[q] = drawn[q]
      BY <1>5, <2>2
    <3>3. pc[q] \in Busy => entry'[cached[q]] = entry[cached[q]]
      BY <1>5, <1>7, <2>2
    <3>4. pc[q] \in {"idle", "look"} => entry'[q] = entry[q]
      BY <1>5, <1>6
    <3>5. cached[q] # None => pc'[cached[q]] \notin {"idle", "look"}
      BY <3>1, <1>8 DEF Placed, PlotsInv, PlotsType
    <3>6. QED
      BY <3>1, <3>2, <3>3, <3>4, <3>5 DEF Placed
  <2>3. QED
    BY <2>1, <2>2
<1>11. ASSUME NEW q \in Requests
       PROVE  Timely(q)'
  <2>1. Timely(q) /\ Placed(q)
    BY DEF PlotsInv
  <2>2. since'[q] <= clock' /\ began'[q] <= clock'
    BY <2>1 DEF Timely, PlotsInv, PlotsType
  <2>3. entry'[q].valid <= clock' + ImageLife
    BY <2>1, <1>2, <1>5 DEF Timely
  <2>4. Lasts(entry'[q], entry'[q].valid, Life')
    <3>1. CASE q = c
      BY <3>1, <1>2, <1>5 DEF Lasts
    <3>2. CASE q # c
      <4>1. entry'[q] = entry[q] /\ entry[q] \in Entries /\ entry[q].valid \in Nat
        BY <3>2, <1>5 DEF PlotsInv, PlotsType, Entries
      <4>2. Lasts(entry[q], entry[q].valid, Life)
        BY <2>1 DEF Timely
      <4>3. QED
        BY <4>1, <4>2, <1>21, LastsLonger
    <3>3. QED
      BY <3>1, <3>2
  <2>5. CASE q = r
    <3>1. pc'[q] = "done" /\ cached'[q] = None /\ drawn'[q] = x /\ since'[q] = since[r]
      BY <2>5, <1>5
    <3>2. drawn'[q] # None => since'[q] <= LastUse(drawn'[q], Life')
      BY <3>1
    <3>3. QED
      BY <2>2, <2>3, <2>4, <3>1, <3>2 DEF Timely
  <2>6. CASE q # r
    <3>1. /\ pc'[q] = pc[q] /\ cached'[q] = cached[q] /\ drawn'[q] = drawn[q]
          /\ data'[q] = data[q] /\ began'[q] = began[q] /\ since'[q] = since[q]
      BY <1>5, <2>6
    <3>2. cached'[q] # None => Lasts(entry'[cached'[q]], since'[q], Life')
      <4>1. CASE cached[q] = c
        BY <4>1, <3>1, <1>2, <1>5 DEF c, Lasts
      <4>2. CASE cached[q] # c /\ cached[q] # None
        <5>1. entry'[cached[q]] = entry[cached[q]] /\ entry[cached[q]] \in Entries /\ since[q] \in Nat
          BY <4>2, <1>5 DEF PlotsInv, PlotsType
        <5>2. Lasts(entry[cached[q]], since[q], Life)
          BY <4>2, <2>1 DEF Timely
        <5>3. QED
          BY <5>1, <5>2, <3>1, <1>21, LastsLonger
      <4>3. QED
        BY <4>1, <4>2, <3>1
    <3>3. ASSUME NEW t, pc[q] \in Busy, Enough(q, t)
          PROVE  Enough(q, t)'
      <4>1. entry'[cached[q]] = entry[cached[q]]
        BY <3>3, <1>5, <1>7, <2>6
      <4>2. \A p \in Requests : cached'[p] = cached'[q] => cached[p] = cached[q]
        BY <3>1, <3>3, <1>5, <1>7, <1>1, <2>6
      <4>3. t' = t => Enough(q, t)'
        BY <3>1, <3>3, <4>1, <4>2 DEF Enough
      <4>4. QED
        BY <4>3
    <3>4. drawn'[q] # None => since'[q] <= LastUse(drawn'[q], Life')
      <4>1. ASSUME drawn[q] # None
            PROVE  since[q] <= LastUse(drawn[q], Life')
        <5>1. drawn[q] \in Drawn /\ since[q] \in Nat
          BY <4>1 DEF PlotsInv, PlotsType
        <5>2. drawn[q].at \in Nat
          BY <5>1 DEF Drawn
        <5>3. since[q] <= drawn[q].at + RowsLife + Life
          BY <4>1, <2>1 DEF Timely, LastUse
        <5>4. QED
          BY <5>1, <5>2, <5>3, <1>21, PlotsParameters DEF LastUse
      <4>2. QED
        BY <4>1, <3>1
    <3>5. pc'[q] = "rows" => since'[q] <= began'[q] /\ Enough(q, began[q] + ImageLife)'
      BY <2>1, <3>1, <3>3 DEF Timely, Busy
    <3>6. pc'[q] = "draw" => since'[q] <= data'[q].at + RowsLife /\ Enough(q, LastUse(data[q], ImageLife))'
      BY <2>1, <3>1, <3>3 DEF Timely, Busy, LastUse
    <3>7. QED
      BY <2>2, <2>3, <2>4, <3>1, <3>2, <3>4, <3>5, <3>6 DEF Timely, LastUse, Enough
  <2>7. QED
    BY <2>5, <2>6
<1>12. \A k \in PhEDEx!Intervals : rows'[k] # None => rows'[k].valid = rows'[k].at + RowsLife
  BY DEF PlotsInv
<1>13. QED
  BY <1>4, <1>9, <1>10, <1>11, <1>12 DEF PlotsInv, PhEDEx!Intervals

(* The steps by which a request leaves.                                    *)
Leaves(r) ==
  \/ (PhEDEx!Lock(r) /\ pc'[r] = "done") \/ PhEDEx!FetchFails(r)
  \/ PhEDEx!Draw(r) \/ PhEDEx!PrepareFails(r) \/ PhEDEx!DrawFails(r)

LEMMA OwnEntry ==
  ASSUME PlotsInv, NEW r \in Requests, pc[r] \in InUse
  PROVE  /\ cached[r] \in Requests /\ entry[cached[r]] \in Entries
         /\ Timely(cached[r])
         /\ \A q \in Requests : cached[q] = cached[r] => Lasts(entry[cached[r]], since[q], Life)
<1>1. cached[r] \in Requests /\ cached[r] # None
  BY DEF PlotsInv, PlotsType, Placed
<1>2. ASSUME NEW q \in Requests, cached[q] = cached[r]
      PROVE  Lasts(entry[cached[r]], since[q], Life)
  <2>1. Timely(q)
    BY DEF PlotsInv
  <2>2. QED
    BY <1>1, <1>2, <2>1 DEF Timely
<1>3. QED
  BY <1>1, <1>2 DEF PlotsInv, PlotsType

(* The entry with the time the request gives it, and the parts in it that  *)
(* are of what the request draws.                                          *)
LEMMA WithParts ==
  ASSUME PlotsInv, NEW r \in Requests, pc[r] = "draw", NEW parts,
         NEW others \in [PhEDEx!Parts -> Drawn \cup {None}]
  PROVE  /\ PhEDEx!With(r, parts, others) \in Entries
         /\ PhEDEx!With(r, parts, others).lock = r
         /\ PhEDEx!With(r, parts, others).valid = since[r] + ImageLife
         /\ since[r] + ImageLife <= clock + ImageLife
         /\ \A p \in PhEDEx!Parts :
              PhEDEx!With(r, parts, others).kept[p] = IF p \in parts THEN data[r] ELSE others[p]
         /\ data[r] \in Drawn /\ since[r] + ImageLife <= LastUse(data[r], ImageLife)
         /\ \A q \in Requests : cached[q] = cached[r] => since[q] <= LastUse(data[r], ImageLife)
<1> DEFINE e == entry[cached[r]]
           kept == [p \in PhEDEx!Parts |-> IF p \in parts THEN data[r] ELSE others[p]]
<1>1. pc[r] \in InUse /\ pc[r] \in Busy
  BY DEF InUse, Busy
<1>2. e \in Entries /\ Placed(r) /\ Timely(r)
  BY <1>1, OwnEntry DEF PlotsInv
<1>3. data[r] \in Drawn /\ e.lock = r
  BY <1>1, <1>2 DEF PlotsInv, PlotsType, Placed
<1>4. /\ since[r] \in Nat /\ clock \in Nat /\ since[r] <= clock /\ ImageLife \in Nat
      /\ RowsLife \in Nat /\ data[r].at \in Nat
  BY <1>2, <1>3, PlotsParameters DEF PlotsInv, PlotsType, Timely, Drawn
<1>5. PhEDEx!With(r, parts, others) = [e EXCEPT !.valid = since[r] + ImageLife, !.kept = kept]
  BY DEF PhEDEx!With, PhEDEx!ValidUntil
<1>6. kept \in [PhEDEx!Parts -> Drawn \cup {None}]
  BY <1>3
<1>7. since[r] <= data[r].at + RowsLife /\ Enough(r, LastUse(data[r], ImageLife))
  BY <1>2 DEF Timely
<1>8. since[r] + ImageLife <= LastUse(data[r], ImageLife) /\ since[r] + ImageLife <= clock + ImageLife
  BY <1>4, <1>7 DEF LastUse
<1>9. since[r] + ImageLife \in Nat
  BY <1>4
<1>10. \A p \in PhEDEx!Parts : kept[p] = IF p \in parts THEN data[r] ELSE others[p]
  OBVIOUS
<1> HIDE DEF e, kept
<1>11. /\ PhEDEx!With(r, parts, others) \in Entries
       /\ PhEDEx!With(r, parts, others).lock = r
       /\ PhEDEx!With(r, parts, others).valid = since[r] + ImageLife
       /\ PhEDEx!With(r, parts, others).kept = kept
  BY <1>2, <1>3, <1>5, <1>6, <1>9 DEF Entries
<1>12. QED
  BY <1>3, <1>7, <1>8, <1>10, <1>11 DEF Enough

LEMMA FailsKeeps ==
  ASSUME PlotsInv, NEW r \in Requests, pc[r] \in Busy, PhEDEx!Fails(r, entry[cached[r]]),
         clock' = clock, since' = since, imgcache' = imgcache, rows' = rows,
         began' = began \/ began' = [began EXCEPT ![r] = 0]
  PROVE  PlotsInv'
<1> DEFINE e == entry[cached[r]]
<1>1. pc[r] \in InUse
  BY DEF InUse
<1>2. e \in Entries /\ Timely(cached[r])
  BY <1>1, OwnEntry
<1>3. PhEDEx!Leave(r, e, None) /\ None \in Drawn \cup {None} /\ failures' = failures + 1
  BY DEF PhEDEx!Fails
<1>4. e.lock \in {r, None}
  BY DEF PlotsInv, Placed
<1>5. e.valid <= clock + ImageLife /\ Lasts(e, e.valid, Life)
  BY <1>2 DEF Timely
<1>6. \A q \in Requests : cached[q] = cached[r] => Lasts(e, since[q], Life)
  BY <1>1, OwnEntry
<1>7. /\ began' \in [Requests -> Nat] /\ \A q \in Requests : began'[q] \in {began[q], 0}
      /\ \A q \in Requests \ {r} : began'[q] = began[q]
  BY DEF PlotsInv, PlotsType
<1> HIDE DEF e
<1>8. Life \in Nat /\ Life' \in Nat /\ Life <= Life'
  BY <1>3, LifeGrows DEF PlotsInv, PlotsType
<1>9. ASSUME NEW t \in Nat, Lasts(e, t, Life)
      PROVE  Lasts(e, t, Life')
  BY <1>2, <1>8, <1>9, LastsLonger
<1>10. e.valid \in Nat /\ \A q \in Requests : since[q] \in Nat
  BY <1>2 DEF Entries, PlotsInv, PlotsType
<1>11. /\ Lasts(e, e.valid, Life')
       /\ \A q \in Requests : cached[q] = cached[r] => Lasts(e, since[q], Life')
  BY <1>5, <1>6, <1>9, <1>10
<1>12. QED
  BY <1>1, <1>2, <1>3, <1>4, <1>5, <1>7, <1>11, LeaveKeeps DEF e

(* The parts that the drawing did not reach are valid for the life of an   *)
(* image after the time of this request, and so once more as long as they  *)
(* were at most.                                                           *)
LEMMA DrawFailsKeeps ==
  ASSUME PlotsInv, NEW r \in Requests, PhEDEx!DrawFails(r)
  PROVE  PlotsInv'
<1> DEFINE e == entry[cached[r]]
<1>1. pc[r] = "draw" /\ pc[r] \in InUse /\ pc[r] \in Busy
  BY DEF PhEDEx!DrawFails, InUse, Busy
<1>2. PICK parts : PhEDEx!Fails(r, PhEDEx!With(r, parts, e.kept))
  BY DEF PhEDEx!DrawFails
<1> DEFINE f == PhEDEx!With(r, parts, e.kept)
<1>3. e \in Entries /\ cached[r] \in Requests
      /\ \A q \in Requests : cached[q] = cached[r] => Lasts(e, since[q], Life)
  BY <1>1, OwnEntry
<1>4. e.kept \in [PhEDEx!Parts -> Drawn \cup {None}]
  BY <1>3 DEF Entries
<1>5. /\ f \in Entries /\ f.lock = r /\ f.valid = since[r] + ImageLife
      /\ since[r] + ImageLife <= clock + ImageLife
      /\ \A p \in PhEDEx!Parts : f.kept[p] = IF p \in parts THEN data[r] ELSE e.kept[p]
      /\ data[r] \in Drawn /\ since[r] + ImageLife <= LastUse(data[r], ImageLife)
      /\ \A q \in Requests : cached[q] = cached[r] => since[q] <= LastUse(data[r], ImageLife)
  BY <1>1, <1>4, WithParts
<1>6. PhEDEx!Leave(r, f, None) /\ failures' = failures + 1
  BY <1>2 DEF PhEDEx!Fails
<1>7. /\ clock' = clock /\ since' = since /\ imgcache' = imgcache /\ rows' = rows
      /\ began' = began
  BY DEF PhEDEx!DrawFails
<1>8. /\ Life \in Nat /\ Life' \in Nat /\ ImageLife <= Life /\ Life' = Life + ImageLife
      /\ ImageLife \in Nat /\ RowsLife \in Nat
  BY <1>6, LifeGrows, PlotsParameters DEF PlotsInv, PlotsType
<1>9. data[r].at \in Nat /\ \A q \in Requests : since[q] \in Nat
  BY <1>5 DEF PlotsInv, PlotsType, Drawn
<1> HIDE DEF e, f
<1>10. ASSUME NEW q \in Requests, cached[q] = cached[r], NEW n \in {0, ImageLife},
              since[q] + n <= LastUse(data[r], ImageLife)
       PROVE  Lasts(f, since[q] + n, Life')
  <2>1. ASSUME NEW p \in PhEDEx!Parts, f.kept[p] # None
        PROVE  since[q] + n <= LastUse(f.kept[p], Life')
    <3>1. CASE p \in parts
      <4>1. f.kept[p] = data[r]
        BY <1>5, <2>1, <3>1
      <4>2. n \in Nat /\ since[q] \in Nat
        BY <1>8, <1>9
      <4>3. QED
        BY <1>8, <1>9, <1>10, <4>1, <4>2 DEF LastUse
    <3>2. CASE p \notin parts
      <4>1. f.kept[p] = e.kept[p]
        BY <1>5, <2>1, <3>2
      <4>2. since[q] <= LastUse(e.kept[p], Life) /\ e.kept[p] \in Drawn
        BY <1>3, <1>4, <1>10, <2>1, <4>1 DEF Lasts
      <4>3. e.kept[p].at \in Nat /\ n \in Nat /\ n <= ImageLife /\ since[q] \in Nat
        BY <1>8, <1>9, <4>2 DEF Drawn
      <4>4. QED
        BY <1>8, <4>1, <4>2, <4>3 DEF LastUse
    <3>3. QED
      BY <3>1, <3>2
  <2>2. QED
    BY <2>1 DEF Lasts
<1>11. Lasts(f, f.valid, Life')
  BY <1>5, <1>10
<1>12. ASSUME NEW q \in Requests, cached[q] = cached[r]
       PROVE  Lasts(f, since[q], Life')
  <2>1. since[q] + 0 = since[q]
    BY <1>9
  <2>2. QED
    BY <1>5, <1>10, <1>12, <2>1
<1>13. began' \in [Requests -> Nat] /\ \A q \in Requests : began'[q] = began[q]
  BY <1>7 DEF PlotsInv, PlotsType
<1>14. e.lock = r
  BY <1>1 DEF PlotsInv, Placed, e
<1>15. f.valid <= clock + ImageLife
  BY <1>5
<1>16. None \in Drawn \cup {None}
  OBVIOUS
<1>17. entry[cached[r]].lock \in {r, None}
  BY <1>14 DEF e
<1>18. QED
  BY <1>1, <1>5, <1>6, <1>7, <1>11, <1>12, <1>13, <1>15, <1>16, <1>17, LeaveKeeps

LEMMA DrawKeeps ==
  ASSUME PlotsInv, NEW r \in Requests, PhEDEx!Draw(r)
  PROVE  PlotsInv'
<1> DEFINE f == PhEDEx!With(r, PhEDEx!PartsOf(r), PhEDEx!Empty.kept)
<1>1. pc[r] = "draw" /\ pc[r] \in InUse /\ pc[r] \in Busy
  BY DEF PhEDEx!Draw, InUse, Busy
<1>2. /\ PhEDEx!Empty.kept \in [PhEDEx!Parts -> Drawn \cup {None}]
      /\ \A p \in PhEDEx!Parts : PhEDEx!Empty.kept[p] = None
  BY DEF PhEDEx!Empty
<1>3. /\ f \in Entries /\ f.lock = r /\ f.valid = since[r] + ImageLife
      /\ since[r] + ImageLife <= clock + ImageLife
      /\ \A p \in PhEDEx!Parts : f.kept[p] \in {data[r], None}
      /\ data[r] \in Drawn /\ since[r] + ImageLife <= LastUse(data[r], ImageLife)
      /\ \A q \in Requests : cached[q] = cached[r] => since[q] <= LastUse(data[r], ImageLife)
  <2>1. /\ f \in Entries /\ f.lock = r /\ f.valid = since[r] + ImageLife
        /\ since[r] + ImageLife <= clock + ImageLife
        /\ \A p \in PhEDEx!Parts :
             f.kept[p] = IF p \in PhEDEx!PartsOf(r) THEN data[r] ELSE PhEDEx!Empty.kept[p]
        /\ data[r] \in Drawn /\ since[r] + ImageLife <= LastUse(data[r], ImageLife)
        /\ \A q \in Requests : cached[q] = cached[r] => since[q] <= LastUse(data[r], ImageLife)
    BY <1>1, <1>2, WithParts
  <2> HIDE DEF f
  <2>2. QED
    BY <1>2, <2>1
<1>4. PhEDEx!Leave(r, f, data[r])
  BY DEF PhEDEx!Draw
<1>5. /\ clock' = clock /\ since' = since /\ imgcache' = imgcache /\ rows' = rows
      /\ began' = began /\ failures' = failures
  BY DEF PhEDEx!Draw
<1>6. /\ Life \in Nat /\ Life' = Life /\ ImageLife <= Life
      /\ ImageLife \in Nat /\ RowsLife \in Nat
  BY <1>5, LifeGrows, PlotsParameters DEF PlotsInv, PlotsType
<1>7. data[r].at \in Nat /\ \A q \in Requests : since[q] \in Nat
  BY <1>3 DEF PlotsInv, PlotsType, Drawn
<1> HIDE DEF f
<1>8. ASSUME NEW t \in Nat, t <= LastUse(data[r], ImageLife)
      PROVE  t <= LastUse(data[r], Life') /\ Lasts(f, t, Life')
  <2>1. t <= LastUse(data[r], Life')
    BY <1>6, <1>7, <1>8 DEF LastUse
  <2>2. QED
    BY <1>3, <2>1 DEF Lasts
<1>9. Lasts(f, f.valid, Life')
  <2>1. since[r] + ImageLife \in Nat
    BY <1>6, <1>7
  <2>2. QED
    BY <1>3, <1>8, <2>1
<1>10. \A q \in Requests : cached[q] = cached[r] => Lasts(f, since[q], Life')
  BY <1>3, <1>7, <1>8
<1>11. since[r] <= LastUse(data[r], Life')
  BY <1>3, <1>7, <1>8
<1>12. began' \in [Requests -> Nat] /\ \A q \in Requests : began'[q] = began[q]
  BY <1>5 DEF PlotsInv, PlotsType
<1>13. f.valid <= clock + ImageLife /\ data[r] \in Drawn \cup {None} /\ f \in Entries
  BY <1>3
<1>14. entry[cached[r]].lock \in {r, None}
  BY <1>1 DEF PlotsInv, Placed
<1>15. QED
  BY <1>1, <1>4, <1>5, <1>9, <1>10, <1>11, <1>12, <1>13, <1>14, LeaveKeeps

LEMMA LeavesKeep ==
  ASSUME PlotsInv, NEW r \in Requests, Leaves(r)
  PROVE  PlotsInv'
<1> DEFINE e == entry[cached[r]]
<1>1. CASE PhEDEx!Lock(r) /\ pc'[r] = "done"
  <2>1. pc[r] = "lock" /\ pc[r] \in InUse /\ e.lock = None
    BY <1>1 DEF PhEDEx!Lock, InUse
  <2>2. e \in Entries /\ Timely(cached[r]) /\ cached[r] \in Requests
    BY <2>1, OwnEntry
  <2>3. PICK x : /\ PhEDEx!Leave(r, e, x)
                 /\ x = None \/ \E p \in PhEDEx!Parts : x = e.kept[p]
    <3>1. pc[r] = "lock" /\ pc \in [Requests -> {"idle", "look", "done"} \cup InUse]
      BY <2>1 DEF PlotsInv, PlotsType
    <3>2. ~PhEDEx!Goto(r, "query")
      BY <3>1, <1>1 DEF PhEDEx!Goto
    <3>3. QED
      BY <3>2, <1>1 DEF PhEDEx!Lock, PhEDEx!Has
  <2>4. x \in Drawn \cup {None}
    BY <2>2, <2>3 DEF Entries
  <2>5. /\ clock' = clock /\ since' = since /\ imgcache' = imgcache /\ rows' = rows
        /\ began' = began /\ failures' = failures
    BY <1>1 DEF PhEDEx!Lock
  <2>6. Life' = Life
    BY <2>5, LifeGrows DEF PlotsInv, PlotsType
  <2>7. e.valid <= clock + ImageLife /\ Lasts(e, e.valid, Life)
    BY <2>2 DEF Timely
  <2>8. \A q \in Requests : cached[q] = cached[r] => Lasts(e, since[q], Life)
    BY <2>1, OwnEntry
  <2>9. x # None => since[r] <= LastUse(x, Life)
    BY <2>3, <2>8 DEF Lasts
  <2>10. began' \in [Requests -> Nat] /\ \A q \in Requests : began'[q] = began[q]
    BY <2>5 DEF PlotsInv, PlotsType
  <2> HIDE DEF e
  <2>11. QED
    BY <2>1, <2>2, <2>3, <2>4, <2>5, <2>6, <2>7, <2>8, <2>9, <2>10, LeaveKeeps DEF e
<1>2. CASE PhEDEx!FetchFails(r)
  BY <1>2, FailsKeeps DEF PhEDEx!FetchFails, Busy
<1>3. CASE PhEDEx!PrepareFails(r)
  BY <1>3, FailsKeeps DEF PhEDEx!PrepareFails, Busy
<1>4. CASE PhEDEx!Draw(r) \/ PhEDEx!DrawFails(r)
  BY <1>4, DrawKeeps, DrawFailsKeeps
<1>5. QED
  BY <1>1, <1>2, <1>3, <1>4 DEF Leaves

(* What a step of a request cannot disturb: the others, as long as clock,  *)
(* entries and times are what they were.                                   *)
LEMMA OthersTimely ==
  ASSUME PlotsInv, NEW q \in Requests, NEW r \in Requests, q # r,
         clock' = clock, failures' = failures, since' \in [Requests -> Nat],
         \A p \in Requests : entry'[p].valid = entry[p].valid /\ entry'[p].kept = entry[p].kept,
         since'[q] = since[q], began'[q] = began[q], drawn'[q] = drawn[q], data'[q] = data[q],
         pc'[q] = pc[q], cached'[q] = cached[q],
         cached'[r] # cached[r] \/ since'[r] # since[r] =>
           (pc[q] \in Busy /\ cached'[r] = cached[q] => since'[r] <= entry[cached[q]].valid),
         \A p \in Requests \ {r} : since'[p] = since[p] /\ cached'[p] = cached[p]
  PROVE  Timely(q)'
<1>1. Timely(q) /\ Placed(q)
  BY DEF PlotsInv
<1>2. /\ entry'[q].valid = entry[q].valid /\ entry'[q].kept = entry[q].kept
      /\ cached[q] # None => /\ entry'[cached[q]].valid = entry[cached[q]].valid
                             /\ entry'[cached[q]].kept = entry[cached[q]].kept
  BY DEF PlotsInv, PlotsType
<1>3. ASSUME NEW t \in Nat, pc[q] \in Busy, Enough(q, t)
      PROVE  Enough(q, t)'
  <2>1. cached[q] # None /\ cached[q] \in Requests /\ entry[cached[q]].valid \in Nat
    BY <1>1, <1>3 DEF PlotsInv, PlotsType, Placed, InUse, Entries
  <2>2. entry'[cached'[q]].valid <= t
    BY <1>2, <1>3, <2>1 DEF Enough
  <2>3. ASSUME NEW p \in Requests, cached'[p] = cached'[q]
        PROVE  since'[p] <= t
    <3>1. CASE p # r \/ (cached'[p] = cached[p] /\ since'[p] = since[p])
      BY <3>1, <2>3, <1>3 DEF Enough
    <3>2. CASE p = r /\ ~(cached'[p] = cached[p] /\ since'[p] = since[p])
      <4>1. since'[p] <= entry[cached[q]].valid
        BY <3>2, <2>3, <1>3
      <4>2. entry[cached[q]].valid <= t
        BY <1>3 DEF Enough
      <4>3. since'[p] \in Nat
        OBVIOUS
      <4>4. QED
        BY <4>1, <4>2, <4>3, <2>1
    <3>3. QED
      BY <3>1, <3>2
  <2>4. QED
    BY <2>2, <2>3 DEF Enough
<1>4. /\ since'[q] <= clock' /\ began'[q] <= clock' /\ entry'[q].valid <= clock' + ImageLife
      /\ Lasts(entry'[q], entry'[q].valid, Life)
      /\ cached'[q] # None => Lasts(entry'[cached'[q]], since'[q], Life)
      /\ drawn'[q] # None => since'[q] <= LastUse(drawn'[q], Life)
      /\ Life' = Life
  BY <1>1, <1>2 DEF Timely, Lasts, Life
<1>5. pc'[q] = "rows" => since'[q] <= began'[q] /\ Enough(q, began[q] + ImageLife)'
  <2>1. began[q] + ImageLife \in Nat
    BY PlotsParameters DEF PlotsInv, PlotsType
  <2>2. QED
    BY <1>1, <1>3, <2>1 DEF Timely, Busy
<1>6. pc'[q] = "draw" => since'[q] <= data'[q].at + RowsLife /\ Enough(q, LastUse(data[q], ImageLife))'
  <2>1. ASSUME pc[q] = "draw"
        PROVE  LastUse(data[q], ImageLife) \in Nat
    <3>1. data[q] \in Drawn
      BY <1>1, <2>1 DEF PlotsInv, PlotsType, Placed
    <3>2. QED
      BY <3>1, PlotsParameters DEF LastUse, Drawn
  <2>2. QED
    BY <1>1, <1>3, <2>1 DEF Timely, Busy
<1>7. QED
  BY <1>4, <1>5, <1>6 DEF Timely, LastUse, Lasts, Enough

LEMMA ArriveKeeps ==
  ASSUME PlotsInv, NEW r \in Requests, PhEDEx!Arrive(r)
  PROVE  PlotsInv'
<1>1. PICK a \in Asks[r] : requested' = [requested EXCEPT ![r] = a]
  BY DEF PhEDEx!Arrive
<1>2. /\ pc[r] = "idle" /\ since' = [since EXCEPT ![r] = clock] /\ pc' = [pc EXCEPT ![r] = "look"]
      /\ clock' = clock /\ imgcache' = imgcache /\ entry' = entry /\ rows' = rows
      /\ cached' = cached /\ began' = began /\ data' = data /\ drawn' = drawn
      /\ failures' = failures
  BY DEF PhEDEx!Arrive, PhEDEx!Goto
<1>3. PlotsType'
  BY <1>1, <1>2 DEF PlotsInv, PlotsType
<1>4. /\ pc'[r] = "look" /\ since'[r] = clock /\ requested'[r] = a
      /\ \A q \in Requests \ {r} : pc'[q] = pc[q] /\ since'[q] = since[q]
                                   /\ requested'[q] = requested[q]
  BY <1>1, <1>2 DEF PlotsInv, PlotsType
<1>5. \A q \in Requests : pc[q] \notin {"idle", "look"} => pc'[q] \notin {"idle", "look"}
  BY <1>2, <1>4
<1>6. cached[r] = None /\ drawn[r] = None /\ since[r] <= clock /\ clock \in Nat
      /\ \A p \in PhEDEx!Parts : entry[r].kept[p] = None
  BY <1>2 DEF PlotsInv, Placed, Timely, PlotsType, InUse, Busy
<1>7. ASSUME NEW q \in Requests
      PROVE  Placed(q)'
  <2>1. Placed(q)
    BY DEF PlotsInv
  <2>2. cached[q] # None => pc'[cached[q]] \notin {"idle", "look"}
    BY <2>1, <1>5 DEF Placed, PlotsInv, PlotsType
  <2>3. CASE q = r
    <3>1. pc'[q] = "look" /\ requested'[q] \in Asks[q] /\ cached'[q] = None /\ drawn'[q] = None
          /\ \A p \in PhEDEx!Parts : entry'[q].kept[p] = None
      BY <2>3, <1>2, <1>4, <1>6
    <3>2. QED
      BY <3>1 DEF Placed, InUse, Busy
  <2>4. CASE q # r
    BY <2>1, <2>2, <2>4, <1>2, <1>4 DEF Placed
  <2>5. QED
    BY <2>3, <2>4
<1>8. ASSUME NEW q \in Requests
      PROVE  Timely(q)'
  <2>1. CASE q = r
    <3>1. Timely(r)
      BY DEF PlotsInv
    <3>2. /\ pc'[q] = "look" /\ cached'[q] = None /\ drawn'[q] = None /\ since'[q] <= clock'
          /\ began'[q] <= clock'
      BY <2>1, <1>2, <1>4, <1>6, <3>1 DEF Timely
    <3>3. /\ entry'[q].valid <= clock' + ImageLife
          /\ \A p \in PhEDEx!Parts : entry'[q].kept[p] = None
      BY <2>1, <1>2, <1>6, <3>1 DEF Timely
    <3>4. QED
      BY <3>2, <3>3 DEF Timely, Lasts
  <2>2. CASE q # r
    <3>1. pc[q] \in Busy => cached[q] # None
      BY DEF PlotsInv, Placed, InUse
    <3>2. since' \in [Requests -> Nat]
      BY <1>3 DEF PlotsType
    <3>3. QED
      BY <2>2, <1>2, <1>4, <1>6, <3>1, <3>2, OthersTimely
  <2>3. QED
    BY <2>1, <2>2
<1>9. /\ \A k \in PhEDEx!Intervals : rows'[k] # None => rows'[k].valid = rows'[k].at + RowsLife
      /\ \A i \in Images : imgcache'[i] # None => pc'[imgcache'[i]] \notin {"idle", "look"}
  BY <1>2, <1>5 DEF PlotsInv, PlotsType
<1>10. QED
  BY <1>3, <1>7, <1>8, <1>9 DEF PlotsInv, PhEDEx!Intervals

LEMMA LookUpKeeps ==
  ASSUME PlotsInv, NEW r \in Requests, PhEDEx!LookUp(r)
  PROVE  PlotsInv'
<1> DEFINE left == PhEDEx!Pruned(since[r])
           im == PhEDEx!Image(r)
<1>1. /\ pc[r] = "look" /\ pc' = [pc EXCEPT ![r] = "lock"]
      /\ clock' = clock /\ entry' = entry /\ rows' = rows /\ requested' = requested
      /\ since' = since /\ began' = began /\ data' = data /\ drawn' = drawn
      /\ failures' = failures
  BY DEF PhEDEx!LookUp, PhEDEx!Goto
<1>2. requested[r] \in Asks[r] /\ im \in Images
  BY <1>1, PlotsParameters DEF PlotsInv, Placed, PhEDEx!Image
<1>3. left \in [Images -> Requests \cup {None}] /\ \A i \in Images : left[i] \in {None, imgcache[i]}
  BY DEF PhEDEx!Pruned, PlotsInv, PlotsType
<1>4. left[im] # None => entry[left[im]].valid >= since[r]
  <2>1. since[r] \in Nat /\ (left[im] # None => imgcache[im] \in Requests /\ imgcache[im] # None
                                                /\ left[im] = imgcache[im])
    BY <1>2, <1>3 DEF PlotsInv, PlotsType
  <2>2. left[im] # None => entry[imgcache[im]].valid \in Nat
    BY <2>1 DEF PlotsInv, PlotsType, Entries
  <2>3. left[im] # None => ~(entry[imgcache[im]].valid < since[r])
    BY <1>2, <2>1 DEF PhEDEx!Pruned
  <2>4. QED
    BY <2>1, <2>2, <2>3
<1>5. left[im] # None => pc[left[im]] \notin {"idle", "look"}
  BY <1>2, <1>3 DEF PlotsInv
<1> DEFINE c == IF left[im] = None THEN r ELSE left[im]
<1>6. /\ imgcache' = IF left[im] = None THEN [left EXCEPT ![im] = r] ELSE left
      /\ cached' = [cached EXCEPT ![r] = c]
  BY DEF PhEDEx!LookUp
<1>7. c \in Requests /\ c # None /\ (c # r => pc[c] \notin {"idle", "look"})
  BY <1>2, <1>3, <1>5, PlotsParameters
<1>8. \A i \in Images : imgcache'[i] \in {None, r, imgcache[i]}
  BY <1>2, <1>3, <1>6
<1>9. (c = r /\ \A p \in PhEDEx!Parts : entry[c].kept[p] = None) \/ entry[c].valid >= since[r]
  BY <1>1, <1>4 DEF PlotsInv, Placed
<1> HIDE DEF left, im, c
<1>10. PlotsType'
  <2>1. imgcache' \in [Images -> Requests \cup {None}]
    BY <1>2, <1>3, <1>6
  <2>2. QED
    BY <1>1, <1>6, <1>7, <2>1 DEF PlotsInv, PlotsType, InUse
<1>11. /\ pc'[r] = "lock" /\ cached'[r] = c
       /\ \A q \in Requests \ {r} : pc'[q] = pc[q] /\ cached'[q] = cached[q]
  BY <1>1, <1>6 DEF PlotsInv, PlotsType
<1>12. \A q \in Requests : pc[q] \notin {"idle", "look"} => pc'[q] \notin {"idle", "look"}
  BY <1>11
<1>13. \A i \in Images : imgcache'[i] # None => pc'[imgcache'[i]] \notin {"idle", "look"}
  BY <1>8, <1>11, <1>12 DEF PlotsInv, PlotsType
<1>14. ASSUME NEW q \in Requests
       PROVE  Placed(q)'
  <2>1. Placed(q)
    BY DEF PlotsInv
  <2>2. CASE q = r
    <3>1. pc'[q] = "lock" /\ requested'[q] \in Asks[q] /\ cached'[q] = c /\ c # None
          /\ pc'[c] \notin {"idle", "look"} /\ drawn'[q] = None
      BY <2>2, <1>1, <1>2, <1>7, <1>11, <1>12 DEF PlotsInv, Placed
    <3>2. QED
      BY <3>1 DEF Placed, InUse, Busy
  <2>3. CASE q # r
    <3>1. cached[q] # None => pc'[cached[q]] \notin {"idle", "look"}
      BY <2>1, <1>12 DEF Placed, PlotsInv, PlotsType
    <3>2. QED
      BY <2>1, <2>3, <3>1, <1>1, <1>11 DEF Placed
  <2>4. QED
    BY <2>2, <2>3
<1>15. ASSUME NEW q \in Requests
       PROVE  Timely(q)'
  <2>1. CASE q = r
    <3>1. Timely(r) /\ Timely(c) /\ Placed(r)
      BY <1>7 DEF PlotsInv
    <3>2. Lasts(entry[c], since[r], Life)
      <4>1. entry[c] \in Entries /\ since[r] \in Nat /\ entry[c].valid \in Nat /\ Life \in Nat
        BY <1>7, LifeNumber DEF PlotsInv, PlotsType, Entries
      <4>2. CASE \A p \in PhEDEx!Parts : entry[c].kept[p] = None
        BY <4>2 DEF Lasts
      <4>3. CASE entry[c].valid >= since[r]
        <5>1. Lasts(entry[c], entry[c].valid, Life) /\ since[r] <= entry[c].valid /\ Life <= Life
          BY <4>1, <4>3, <3>1 DEF Timely
        <5>2. QED
          BY <4>1, <5>1, LastsLonger
      <4>4. QED
        BY <1>9, <4>2, <4>3
    <3>3. drawn[r] = None
      BY <1>1, <3>1 DEF Placed
    <3>4. Life' = Life
      BY <1>1 DEF Life
    <3>5. QED
      BY <2>1, <1>1, <1>11, <3>1, <3>2, <3>3, <3>4 DEF Timely, Lasts, LastUse
  <2>2. CASE q # r
    <3>1. pc[q] \in Busy /\ cached'[r] = cached[q] => since'[r] <= entry[cached[q]].valid
      <4>1. pc[q] \in Busy => cached[q] # None /\ pc[cached[q]] \notin {"idle", "look"}
        BY DEF PlotsInv, Placed, InUse
      <4>2. pc[q] \in Busy /\ cached[q] = c => c # r
        BY <4>1, <1>1
      <4>3. since[r] \in Nat /\ entry[c].valid \in Nat
        BY <1>7 DEF PlotsInv, PlotsType, Entries
      <4>4. QED
        BY <4>2, <4>3, <1>1, <1>9, <1>11
    <3>2. since' \in [Requests -> Nat]
      BY <1>10 DEF PlotsType
    <3>3. QED
      BY <2>2, <1>1, <1>11, <3>1, <3>2, OthersTimely
  <2>3. QED
    BY <2>1, <2>2
<1>16. \A k \in PhEDEx!Intervals : rows'[k] # None => rows'[k].valid = rows'[k].at + RowsLife
  BY <1>1 DEF PlotsInv
<1>17. QED
  BY <1>10, <1>13, <1>14, <1>15, <1>16 DEF PlotsInv, PhEDEx!Intervals

LEMMA AcquireKeeps ==
  ASSUME PlotsInv, NEW r \in Requests, PhEDEx!Lock(r), pc'[r] # "done"
  PROVE  PlotsInv'
<1> DEFINE c == cached[r]
<1>1. pc[r] = "lock" /\ pc[r] \in InUse /\ entry[c].lock = None
  BY DEF PhEDEx!Lock, InUse
<1>2. c \in Requests /\ c # None /\ cached[r] # None
  BY <1>1, PlotsParameters DEF PlotsInv, PlotsType, Placed
<1>3. pc \in [Requests -> {"idle", "look", "done"} \cup InUse]
  BY DEF PlotsInv, PlotsType
<1>4. \A e, x : ~PhEDEx!Leave(r, e, x)
  BY <1>3 DEF PhEDEx!Leave, PhEDEx!Goto
<1>5. /\ entry' = [entry EXCEPT ![c].lock = r]
      /\ pc' = [pc EXCEPT ![r] = "query"]
      /\ requested' = requested /\ cached' = cached /\ data' = data /\ drawn' = drawn
  BY <1>4 DEF PhEDEx!Lock, PhEDEx!Goto
<1>6. /\ clock' = clock /\ imgcache' = imgcache /\ rows' = rows /\ since' = since
      /\ began' = began /\ failures' = failures
  BY DEF PhEDEx!Lock
<1>7. /\ entry'[c].lock = r
      /\ \A q \in Requests : entry'[q].valid = entry[q].valid /\ entry'[q].kept = entry[q].kept
      /\ \A q \in Requests \ {c} : entry'[q] = entry[q]
      /\ entry' \in [Requests -> Entries]
  BY <1>2, <1>5 DEF PlotsInv, PlotsType, Entries
<1>8. /\ pc'[r] = "query" /\ \A q \in Requests \ {r} : pc'[q] = pc[q]
      /\ \A q \in Requests : pc[q] \notin {"idle", "look"} => pc'[q] \notin {"idle", "look"}
  BY <1>1, <1>3, <1>5
<1>9. PlotsType'
  BY <1>3, <1>5, <1>6, <1>7 DEF PlotsInv, PlotsType, InUse, Busy
<1>10. ASSUME NEW q \in Requests \ {r}, pc[q] \in Busy
       PROVE  cached[q] # c
  BY <1>1, <1>10, PlotsParameters DEF PlotsInv, Placed
<1> HIDE DEF c
<1>11. ASSUME NEW q \in Requests
       PROVE  Placed(q)'
  <2>1. Placed(q)
    BY DEF PlotsInv
  <2>2. cached[q] # None => pc'[cached[q]] \notin {"idle", "look"}
    BY <2>1, <1>8 DEF Placed, PlotsInv, PlotsType
  <2>3. entry'[q].kept = entry[q].kept
    BY <1>7
  <2>4. CASE q = r
    <3>1. pc'[q] = "query" /\ entry'[cached[q]].lock = q /\ requested'[q] \in Asks[q] /\ cached[q] # None
          /\ drawn'[q] = None
      BY <2>1, <2>4, <1>1, <1>2, <1>5, <1>7, <1>8 DEF Placed, c
    <3>2. QED
      BY <3>1, <2>2, <1>5 DEF Placed, InUse, Busy
  <2>5. CASE q # r
    <3>1. pc[q] \in Busy => entry'[cached[q]] = entry[cached[q]]
      BY <2>1, <2>5, <1>7, <1>10 DEF Placed, PlotsInv, PlotsType, InUse
    <3>2. QED
      BY <2>1, <2>2, <2>3, <2>5, <3>1, <1>5, <1>8 DEF Placed
  <2>6. QED
    BY <2>4, <2>5
<1>12. ASSUME NEW q \in Requests
       PROVE  Timely(q)'
  <2>1. CASE q = r
    <3>1. Timely(r)
      BY DEF PlotsInv
    <3>2. drawn[r] = None
      BY <1>1 DEF PlotsInv, Placed
    <3>3. entry'[cached[r]].kept = entry[cached[r]].kept
      BY <1>2, <1>7 DEF c
    <3>4. QED
      BY <2>1, <1>5, <1>6, <1>7, <1>8, <3>1, <3>2, <3>3 DEF Timely, Lasts, LastUse, Life
  <2>2. CASE q # r
    <3>1. since' \in [Requests -> Nat]
      BY <1>9 DEF PlotsType
    <3>2. QED
      BY <2>2, <1>5, <1>6, <1>7, <1>8, <3>1, OthersTimely
  <2>3. QED
    BY <2>1, <2>2
<1>13. /\ \A k \in PhEDEx!Intervals : rows'[k] # None => rows'[k].valid = rows'[k].at + RowsLife
       /\ \A i \in Images : imgcache'[i] # None => pc'[imgcache'[i]] \notin {"idle", "look"}
  BY <1>6, <1>8 DEF PlotsInv, PlotsType
<1>14. QED
  BY <1>9, <1>11, <1>12, <1>13 DEF PlotsInv, PhEDEx!Intervals

(* The query begins no earlier than anything that its request and the      *)
(* others with this entry have seen.                                       *)
LEMMA TakeKeeps ==
  ASSUME PlotsInv, NEW r \in Requests, PhEDEx!Take(r)
  PROVE  PlotsInv'
<1>1. /\ pc[r] = "query" /\ pc' = [pc EXCEPT ![r] = "rows"]
      /\ began' = [began EXCEPT ![r] = clock]
      /\ clock' = clock /\ imgcache' = imgcache /\ entry' = entry /\ rows' = rows
      /\ requested' = requested /\ since' = since /\ cached' = cached /\ data' = data
      /\ drawn' = drawn /\ failures' = failures
  BY DEF PhEDEx!Take, PhEDEx!Goto
<1>2. PlotsType'
  BY <1>1 DEF PlotsInv, PlotsType, InUse, Busy
<1>3. /\ pc'[r] = "rows" /\ began'[r] = clock
      /\ \A q \in Requests \ {r} : pc'[q] = pc[q] /\ began'[q] = began[q]
      /\ \A q \in Requests : pc[q] \notin {"idle", "look"} => pc'[q] \notin {"idle", "look"}
  BY <1>1 DEF PlotsInv, PlotsType
<1>4. ASSUME NEW q \in Requests
      PROVE  Placed(q)'
  <2>1. Placed(q)
    BY DEF PlotsInv
  <2>2. cached[q] # None => pc'[cached[q]] \notin {"idle", "look"}
    BY <2>1, <1>3 DEF Placed, PlotsInv, PlotsType
  <2>3. QED
    BY <2>1, <2>2, <1>1, <1>3 DEF Placed, InUse, Busy
<1>5. ASSUME NEW q \in Requests
      PROVE  Timely(q)'
  <2>1. CASE q = r
    <3>1. Timely(r) /\ Placed(r) /\ cached[r] \in Requests
      BY <1>1 DEF PlotsInv, PlotsType, Placed, InUse, Busy
    <3>2. clock \in Nat /\ \A p \in Requests : since[p] \in Nat /\ since[p] <= clock
      BY DEF PlotsInv, PlotsType, Timely
    <3>3. entry[cached[r]].valid <= clock + ImageLife
      BY <3>1 DEF PlotsInv, Timely
    <3>4. ASSUME NEW p \in Requests
          PROVE  since[p] <= clock + ImageLife
      <4>1. since[p] \in Nat /\ since[p] <= clock /\ ImageLife \in Nat
        BY <3>2, PlotsParameters
      <4>2. QED
        BY <3>2, <4>1
    <3>5. Enough(r, began[r] + ImageLife)'
      BY <3>3, <3>4, <1>1, <1>3 DEF Enough
    <3>6. drawn[r] = None
      BY <3>1, <1>1 DEF Placed
    <3>7. QED
      BY <2>1, <1>1, <1>3, <3>1, <3>2, <3>5, <3>6 DEF Timely, Lasts, LastUse, Life, Enough
  <2>2. CASE q # r
    <3>1. since' \in [Requests -> Nat]
      BY <1>2 DEF PlotsType
    <3>2. QED
      BY <2>2, <1>1, <1>3, <3>1, OthersTimely
  <2>3. QED
    BY <2>1, <2>2
<1>6. /\ \A k \in PhEDEx!Intervals : rows'[k] # None => rows'[k].valid = rows'[k].at + RowsLife
      /\ \A i \in Images : imgcache'[i] # None => pc'[imgcache'[i]] \notin {"idle", "look"}
  BY <1>1, <1>3 DEF PlotsInv, PlotsType
<1>7. QED
  BY <1>2, <1>4, <1>5, <1>6 DEF PlotsInv, PhEDEx!Intervals

(* The rows are no older, when the query begins, than the life of their    *)
(* cache.                                                                  *)
LEMMA FetchKeeps ==
  ASSUME PlotsInv, NEW r \in Requests, PhEDEx!Fetch(r)
  PROVE  PlotsInv'
<1> DEFINE im == PhEDEx!Image(r)
           t == Interval[im]
           k == PhEDEx!KeyOf(t)
           new == [at |-> began[r], valid |-> began[r] + RowsLife, for |-> t]
           used == IF PhEDEx!Valid(k, began[r]) THEN rows[k] ELSE new
           all == [rows EXCEPT ![k] = used]
           d == [image |-> im, at |-> used.at, for |-> used.for]
<1>1. /\ pc[r] = "rows" /\ pc' = [pc EXCEPT ![r] = "draw"]
      /\ data' = [data EXCEPT ![r] = d]
      /\ rows' = [u \in PhEDEx!Intervals |-> IF all[u] # None /\ all[u].valid < clock THEN None
                                             ELSE all[u]]
      /\ began' = [began EXCEPT ![r] = 0]
      /\ clock' = clock /\ imgcache' = imgcache /\ entry' = entry /\ requested' = requested
      /\ since' = since /\ cached' = cached /\ drawn' = drawn /\ failures' = failures
  BY DEF PhEDEx!Fetch, PhEDEx!Goto
<1>2. im \in Images /\ t \in PhEDEx!Intervals /\ t \in Int \X Int /\ k \in PhEDEx!Intervals
  <2>1. requested[r] \in Asks[r]
    BY <1>1 DEF PlotsInv, Placed, InUse, Busy
  <2>2. im \in Images
    BY <2>1, PlotsParameters DEF PhEDEx!Image
  <2> HIDE DEF im
  <2>3. t \in PhEDEx!Intervals /\ t \in Int \X Int
    BY <2>2, PlotsParameters
  <2> HIDE DEF t
  <2>4. QED
    BY <2>2, <2>3, KeyIsInterval
<1> HIDE DEF im, t, k
<1>3. began[r] \in Nat /\ RowsLife \in Nat /\ ImageLife \in Nat
  BY PlotsParameters DEF PlotsInv, PlotsType
<1>4. /\ used \in RowsRead /\ used.valid = used.at + RowsLife
      /\ began[r] <= used.at + RowsLife
  <2>1. CASE PhEDEx!Valid(k, began[r])
    <3>1. rows[k] # None /\ began[r] <= rows[k].valid
      BY <2>1 DEF PhEDEx!Valid
    <3>2. rows[k] \in RowsRead /\ rows[k].valid = rows[k].at + RowsLife
      BY <1>2, <3>1 DEF PlotsInv, PlotsType
    <3>3. used = rows[k]
      BY <2>1
    <3>4. QED
      BY <3>1, <3>2, <3>3
  <2>2. CASE ~PhEDEx!Valid(k, began[r])
    <3>1. used = new
      BY <2>2
    <3>2. new \in RowsRead /\ new.valid = began[r] + RowsLife /\ new.at = began[r]
      BY <1>2, <1>3 DEF RowsRead
    <3>3. QED
      BY <1>3, <3>1, <3>2
  <2>3. QED
    BY <2>1, <2>2
<1> HIDE DEF used
<1>5. d \in Drawn /\ d.at = used.at /\ d.at \in Nat
  BY <1>2, <1>4 DEF Drawn, RowsRead
<1>6. d # None
  BY <1>5, PlotsParameters
<1>7. \A u \in PhEDEx!Intervals : all[u] = IF u = k THEN used ELSE rows[u]
  BY DEF PlotsInv, PlotsType
<1> HIDE DEF all, d
<1>8. /\ rows' \in [PhEDEx!Intervals -> RowsRead \cup {None}]
      /\ \A u \in PhEDEx!Intervals : rows'[u] # None => rows'[u].valid = rows'[u].at + RowsLife
  <2>1. \A u \in PhEDEx!Intervals : rows'[u] \in {None, used, rows[u]}
    BY <1>1, <1>7
  <2>2. \A u \in PhEDEx!Intervals : rows[u] \in RowsRead \cup {None}
    BY DEF PlotsInv, PlotsType
  <2>3. QED
    BY <1>1, <1>4, <2>1, <2>2 DEF PlotsInv
<1>9. PlotsType'
  BY <1>1, <1>5, <1>8 DEF PlotsInv, PlotsType, InUse, Busy, PhEDEx!Intervals
<1>10. /\ pc'[r] = "draw" /\ began'[r] = 0 /\ data'[r] = d
       /\ \A q \in Requests \ {r} : pc'[q] = pc[q] /\ began'[q] = began[q] /\ data'[q] = data[q]
       /\ \A q \in Requests : pc[q] \notin {"idle", "look"} => pc'[q] \notin {"idle", "look"}
  BY <1>1 DEF PlotsInv, PlotsType
<1>11. ASSUME NEW q \in Requests
       PROVE  Placed(q)'
  <2>1. Placed(q)
    BY DEF PlotsInv
  <2>2. cached[q] # None => pc'[cached[q]] \notin {"idle", "look"}
    BY <2>1, <1>10 DEF Placed, PlotsInv, PlotsType
  <2>3. QED
    BY <2>1, <2>2, <1>1, <1>6, <1>10 DEF Placed, InUse, Busy
<1>12. ASSUME NEW q \in Requests
       PROVE  Timely(q)'
  <2>1. CASE q = r
    <3>1. Timely(r) /\ Placed(r) /\ cached[r] \in Requests
      BY <1>1 DEF PlotsInv, PlotsType, Placed, InUse, Busy
    <3>2. since[r] <= began[r] /\ Enough(r, began[r] + ImageLife)
      BY <1>1, <3>1 DEF Timely
    <3>3. /\ \A p \in Requests : since[p] \in Nat
          /\ entry[cached[r]].valid \in Nat /\ clock \in Nat
      BY <3>1 DEF PlotsInv, PlotsType, Entries
    <3>4. since[r] <= d.at + RowsLife /\ began[r] + ImageLife <= LastUse(d, ImageLife)
          /\ LastUse(d, ImageLife) \in Nat
      BY <1>3, <1>4, <1>5, <3>2, <3>3 DEF LastUse
    <3>5. /\ entry[cached[r]].valid <= LastUse(d, ImageLife)
          /\ \A p \in Requests : cached[p] = cached[r] => since[p] <= LastUse(d, ImageLife)
      BY <1>3, <3>2, <3>3, <3>4 DEF Enough
    <3>6. Enough(r, LastUse(data[r], ImageLife))'
      BY <3>5, <1>1, <1>10 DEF Enough, LastUse
    <3>7. drawn[r] = None
      BY <3>1, <1>1 DEF Placed
    <3>8. QED
      BY <2>1, <1>1, <1>10, <3>1, <3>3, <3>4, <3>6, <3>7 DEF Timely, Lasts, LastUse, Life, Enough
  <2>2. CASE q # r
    <3>1. since' \in [Requests -> Nat]
      BY <1>9 DEF PlotsType
    <3>2. QED
      BY <2>2, <1>1, <1>10, <3>1, OthersTimely
  <2>3. QED
    BY <2>1, <2>2
<1>13. \A i \in Images : imgcache'[i] # None => pc'[imgcache'[i]] \notin {"idle", "look"}
  BY <1>1, <1>10 DEF PlotsInv, PlotsType
<1>14. QED
  BY <1>8, <1>9, <1>11, <1>12, <1>13 DEF PlotsInv, PhEDEx!Intervals

LEMMA TickKeeps ==
  ASSUME PlotsInv, PhEDEx!Tick
  PROVE  PlotsInv'
<1>1. /\ clock' = clock + 1 /\ imgcache' = imgcache /\ entry' = entry /\ rows' = rows
      /\ pc' = pc /\ requested' = requested /\ since' = since /\ cached' = cached
      /\ began' = began /\ data' = data /\ drawn' = drawn /\ failures' = failures
  BY DEF PhEDEx!Tick
<1>2. PlotsType'
  BY <1>1 DEF PlotsInv, PlotsType
<1>3. \A r \in Requests : Placed(r)'
  BY <1>1 DEF PlotsInv, Placed
<1>4. ASSUME NEW r \in Requests
      PROVE  Timely(r)'
  <2>1. Timely(r)
    BY DEF PlotsInv
  <2>2. clock \in Nat /\ since[r] \in Nat /\ began[r] \in Nat /\ entry[r].valid \in Nat
    BY DEF PlotsInv, PlotsType, Entries
  <2>3. since[r] <= clock' /\ began[r] <= clock' /\ entry[r].valid <= clock' + ImageLife
    BY <1>1, <2>1, <2>2, PlotsParameters DEF Timely
  <2>4. QED
    BY <1>1, <2>1, <2>3 DEF Timely, Lasts, LastUse, Life, Enough
<1>5. QED
  BY <1>1, <1>2, <1>3, <1>4 DEF PlotsInv, PhEDEx!Intervals

(* Images are drawn of rows that were read, when they were asked for, no   *)
(* longer ago than both caches keep what they have, and the life of an     *)
(* image more for every query or drawing that failed, for any number of    *)
(* requests, any images and intervals, and any lives of the caches,        *)
(* however long a request waits for the locks (PhEDEx.py, lines 668-946).  *)
THEOREM ImagesStayRecent == PhEDEx!Spec => []ImagesRecent
<1>1. ASSUME PlotsInv, [PhEDEx!Next]_(PhEDEx!vars)
      PROVE  PlotsInv'
  <2>1. CASE PhEDEx!Tick
    BY <1>1, <2>1, TickKeeps
  <2>2. ASSUME NEW r \in Requests, PhEDEx!Arrive(r)
        PROVE  PlotsInv'
    BY <1>1, <2>2, ArriveKeeps
  <2>3. ASSUME NEW r \in Requests, PhEDEx!Step(r)
        PROVE  PlotsInv'
    <3>1. CASE Leaves(r)
      BY <1>1, <2>3, <3>1, LeavesKeep
    <3>2. CASE ~Leaves(r)
      BY <1>1, <2>3, <3>2, LookUpKeeps, AcquireKeeps, TakeKeeps, FetchKeeps
      DEF PhEDEx!Step, Leaves
    <3>3. QED
      BY <3>1, <3>2
  <2>4. CASE UNCHANGED PhEDEx!vars
    BY <1>1, <2>4 DEF PhEDEx!vars, PlotsInv, PlotsType, Placed, Timely, Lasts, LastUse, Life,
                      Enough, PhEDEx!Intervals
  <2>5. QED
    BY <1>1, <2>1, <2>2, <2>3, <2>4 DEF PhEDEx!Next
<1>2. PlotsInv => ImagesRecent
  <2> SUFFICES ASSUME PlotsInv, NEW r \in Requests, drawn[r] # None
               PROVE  drawn[r].at + RowsLife + ImageLife * (1 + failures) >= since[r]
    BY DEF ImagesRecent, PhEDEx!ImagesRecent
  <2>1. drawn[r] \in Drawn /\ since[r] \in Nat
    BY DEF PlotsInv, PlotsType
  <2>2. drawn[r].at \in Nat
    BY <2>1 DEF Drawn
  <2>3. since[r] <= LastUse(drawn[r], Life)
    BY DEF PlotsInv, Timely
  <2>4. Life \in Nat
    BY LifeNumber DEF PlotsInv, PlotsType
  <2>5. since[r] <= drawn[r].at + RowsLife + Life
    BY <2>3 DEF LastUse
  <2>6. QED
    BY <2>1, <2>2, <2>5 DEF Life
<1>3. QED
  BY <1>1, <1>2, PlotsInit, PTL DEF PhEDEx!Spec

--------------------------------------------------------------------------------
(* The plots of the disk (CAFData).                                        *)

(* The blocks of an answer are counted one after the other: the values are *)
(* those of the solution f of the fold at the set of the places so far.    *)
Top(t) == CHOOSE x \in t : \A y \in t : x >= y
Counting(blocks, f, t) ==
  IF t = {} THEN CAF!NoData ELSE CAF!Accumulate(f[t \ {Top(t)}], blocks[Top(t)])
Counts(blocks, f, n) == f = [t \in SUBSET (1 .. n) |-> Counting(blocks, f, t)]
Sofar(blocks, n) == (CHOOSE f : Counts(blocks, f, n))[1 .. n]

LEMMA TopIsMember ==
  ASSUME NEW n \in Nat, NEW t \in SUBSET (1 .. n), t # {}
  PROVE  Top(t) \in t /\ \A y \in t : Top(t) >= y
<1> DEFINE Bounds == {b \in Nat : \A y \in t : y <= b}
<1>1. PICK b \in Bounds : \A c \in Bounds : <<c, b>> \notin OpToRel(<, Nat)
  <2>1. Bounds \subseteq Nat /\ n \in Bounds
    OBVIOUS
  <2> HIDE DEF Bounds
  <2>2. QED
    BY <2>1, NatLessThanWellFounded, WFMin
<1>2. b \in t
  <2> SUFFICES ASSUME b \notin t
               PROVE  FALSE
    OBVIOUS
  <2>1. \A y \in t : y \in Nat /\ y >= 1 /\ y <= b - 1
    OBVIOUS
  <2>2. b - 1 \in Bounds
    <3>1. PICK y : y \in t
      OBVIOUS
    <3>2. b \in Nat /\ b - 1 \in Nat
      BY <2>1, <3>1
    <3>3. QED
      BY <2>1, <3>2
  <2>3. <<b - 1, b>> \in OpToRel(<, Nat)
    BY <2>2 DEF OpToRel
  <2>4. QED
    BY <1>1, <2>2, <2>3
<1>3. \E x \in t : \A y \in t : x >= y
  BY <1>2
<1>4. QED
  BY <1>3 DEF Top

LEMMA CountsSmaller ==
  ASSUME NEW n \in Nat, NEW t \in SUBSET (1 .. n), t # {}
  PROVE  Top(t) \in 1 .. n /\ t \ {Top(t)} \in SUBSET (1 .. n - 1)
<1>1. Top(t) \in t /\ \A y \in t : Top(t) >= y
  BY TopIsMember
<1>2. ASSUME NEW y \in t \ {Top(t)}
      PROVE  y \in 1 .. n - 1
  <2>1. y \in t /\ y # Top(t) /\ Top(t) >= y /\ Top(t) \in t
    BY <1>1
  <2>2. y \in 1 .. n /\ Top(t) \in 1 .. n
    BY <2>1
  <2> HIDE DEF Top
  <2>3. QED
    BY <2>1, <2>2
<1>3. QED
  BY <1>1, <1>2

LEMMA CountsExist ==
  ASSUME NEW blocks, NEW n \in Nat
  PROVE  \E f : Counts(blocks, f, n)
<1> DEFINE Bad == {m \in Nat : ~\E f : Counts(blocks, f, m)}
<1> SUFFICES ASSUME Bad # {}
             PROVE  FALSE
  OBVIOUS
<1>1. PICK m \in Bad : \A k \in Bad : <<k, m>> \notin OpToRel(<, Nat)
  <2>1. Bad \subseteq Nat
    OBVIOUS
  <2> HIDE DEF Bad
  <2>2. QED
    BY <2>1, NatLessThanWellFounded, WFMin
<1> DEFINE g == IF m = 0 THEN [t \in {} |-> CAF!NoData] ELSE CHOOSE f : Counts(blocks, f, m - 1)
           h == [t \in SUBSET (1 .. m) |-> Counting(blocks, g, t)]
<1>2. m # 0 => Counts(blocks, g, m - 1)
  <2>1. CASE m # 0
    <3>1. m - 1 \in Nat /\ <<m - 1, m>> \in OpToRel(<, Nat)
      BY <2>1 DEF OpToRel
    <3>2. \E f : Counts(blocks, f, m - 1)
      BY <1>1, <3>1
    <3>3. QED
      BY <2>1, <3>2
  <2>2. QED
    BY <2>1
<1> HIDE DEF g
<1>3. ASSUME NEW t \in SUBSET (1 .. m)
      PROVE  h[t] = Counting(blocks, h, t)
  <2>1. CASE t = {}
    BY <2>1 DEF Counting
  <2>2. CASE t # {}
    <3> DEFINE r == t \ {Top(t)}
    <3>1. m # 0
      <4>1. PICK x \in t : x \in 1 .. m
        BY <2>2
      <4>2. QED
        BY <4>1
    <3>2. r \in SUBSET (1 .. m - 1) /\ r \in SUBSET (1 .. m)
      BY <2>2, CountsSmaller
    <3>3. g[r] = Counting(blocks, g, r)
      BY <1>2, <3>1, <3>2 DEF Counts
    <3>4. h[r] = g[r]
      BY <3>2, <3>3
    <3>5. h[t] = Counting(blocks, g, t)
      OBVIOUS
    <3> HIDE DEF h
    <3>6. QED
      BY <2>2, <3>4, <3>5 DEF Counting
  <2>3. QED
    BY <2>1, <2>2
<1>4. h = [t \in SUBSET (1 .. m) |-> h[t]]
  OBVIOUS
<1> HIDE DEF h
<1>5. Counts(blocks, h, m)
  BY <1>3, <1>4 DEF Counts
<1>6. QED
  BY <1>5

LEMMA CountsAgree ==
  ASSUME NEW blocks, NEW n \in Nat, NEW m \in Nat, n <= m, NEW f, NEW g,
         Counts(blocks, f, n), Counts(blocks, g, m)
  PROVE  f[1 .. n] = g[1 .. n]
<1> DEFINE S == 1 .. n
           Differ == {t \in SUBSET S : f[t] # g[t]}
<1> SUFFICES ASSUME Differ # {}
             PROVE  FALSE
  OBVIOUS
<1>1. PICK t \in Differ : \A r \in Differ : <<r, t>> \notin StrictSubsetOrdering(S)
  <2>1. Differ \subseteq SUBSET S
    OBVIOUS
  <2>2. IsFiniteSet(S)
    BY FS_Interval
  <2> HIDE DEF Differ, S
  <2>3. QED
    BY <2>1, <2>2, FS_StrictSubsetOrderingWellFounded, FS_FiniteSubsetsOfFinite, WFMin
<1>2. S \subseteq 1 .. m
  OBVIOUS
<1>3. f[t] = Counting(blocks, f, t) /\ g[t] = Counting(blocks, g, t)
  BY <1>2 DEF Counts
<1>4. t # {}
  BY <1>3 DEF Counting
<1>5. Top(t) \in t
  BY <1>4, TopIsMember
<1>6. <<t \ {Top(t)}, t>> \in StrictSubsetOrdering(S)
  BY <1>5 DEF StrictSubsetOrdering
<1>7. f[t \ {Top(t)}] = g[t \ {Top(t)}]
  BY <1>1, <1>6
<1>8. QED
  BY <1>3, <1>4, <1>7 DEF Counting

(* No block is counted before the first, one more at each step, and all in *)
(* the end.                                                                *)
LEMMA NothingSofar ==
  ASSUME NEW blocks
  PROVE  Sofar(blocks, 0) = CAF!NoData
<1> DEFINE f == CHOOSE f : Counts(blocks, f, 0)
<1>1. Counts(blocks, f, 0)
  BY CountsExist
<1> HIDE DEF f
<1>2. f[{}] = CAF!NoData
  BY <1>1 DEF Counts, Counting
<1>3. 1 .. 0 = {}
  OBVIOUS
<1>4. QED
  BY <1>2, <1>3 DEF Sofar, f

LEMMA OneMore ==
  ASSUME NEW blocks, NEW n \in Nat
  PROVE  Sofar(blocks, n + 1) = CAF!Accumulate(Sofar(blocks, n), blocks[n + 1])
<1> DEFINE f == CHOOSE f : Counts(blocks, f, n)
           g == CHOOSE g : Counts(blocks, g, n + 1)
           t == 1 .. n + 1
<1>1. Counts(blocks, f, n) /\ Counts(blocks, g, n + 1)
  <2>1. \E h : Counts(blocks, h, n)
    BY CountsExist
  <2>2. \E h : Counts(blocks, h, n + 1)
    BY CountsExist
  <2>3. QED
    BY <2>1, <2>2
<1>2. Sofar(blocks, n) = f[1 .. n] /\ Sofar(blocks, n + 1) = g[t]
  BY DEF Sofar
<1> HIDE DEF f, g
<1>3. f[1 .. n] = g[1 .. n]
  BY <1>1, CountsAgree
<1>4. Top(t) = n + 1
  <2>1. t # {} /\ n + 1 \in t
    OBVIOUS
  <2>2. n + 1 \in Nat /\ t \in SUBSET (1 .. n + 1)
    OBVIOUS
  <2> HIDE DEF t
  <2>3. Top(t) \in t /\ Top(t) >= n + 1
    BY <2>1, <2>2, TopIsMember
  <2>4. Top(t) \in 1 .. n + 1
    BY <2>2, <2>3
  <2>5. QED
    BY <2>3, <2>4
<1>5. t \ {n + 1} = 1 .. n /\ t # {} /\ t \in SUBSET (1 .. n + 1)
  OBVIOUS
<1>6. g[t] = Counting(blocks, g, t)
  BY <1>1, <1>5 DEF Counts
<1> HIDE DEF t
<1>7. g[t] = CAF!Accumulate(g[1 .. n], blocks[n + 1])
  BY <1>4, <1>5, <1>6 DEF Counting
<1>8. QED
  BY <1>2, <1>3, <1>7

LEMMA AllSofar ==
  ASSUME NEW blocks, NEW n \in Nat, DOMAIN blocks = 1 .. n
  PROVE  CAF!AllOf(blocks) = Sofar(blocks, n)
  BY DEF CAF!AllOf, CAF!FoldLeft, CAF!MapThenFoldSet, CAF!Max, Sofar, Counts, Counting, Top

--------------------------------------------------------------------------------
Spots ==
  {"start", "loop", "fetch", "reacquire", "fill", "total", "wait", "wake", "dead", "ended"}
WithLock == {"loop", "fill", "total", "dead"}

(* The values of a whole answer.                                           *)
Refreshed(d) == \E blocks \in Reports \cup {<<>>} : d = CAF!AllOf(blocks)

(* Some blocks of an answer have been counted, the rest is at hand.        *)
Filling(b, n) ==
  /\ n \in 0 .. Len(b) - 1
  /\ disk = Sofar(b, n)
  /\ Len(provider.news) = Len(b) - n
  /\ \A i \in 1 .. Len(b) - n : provider.news[i] = b[n + i]

(* The lock is the thread's where it writes, and the values are those of a *)
(* whole answer wherever it does not.                                      *)
DiskInv ==
  /\ provider.at \in Spots /\ DOMAIN provider = {"at", "news", "size"}
  /\ provider = [k \in DOMAIN provider |-> provider[k]]
  /\ lock = IF provider.at \in WithLock THEN "provider" ELSE None
  /\ total \in Totals \cup {0} /\ provider.size \in Totals \cup {None}
  /\ provider.at = "reacquire" => provider.news \in Reports \cup {<<>>}
  /\ provider.at \notin {"fill", "dead"} => Refreshed(disk)
  /\ provider.at = "fill" =>
       \E b \in Reports : \E n \in Nat : provider.news \in Seq(CAF!ToSet(b)) /\ Filling(b, n)
  /\ shown = [r \in Readers |-> shown[r]]
  /\ group = [r \in Readers |-> group[r]]
  /\ ValuesWhole

LEMMA DiskParameters ==
  /\ \A b \in Reports : b \in Seq(CAF!ToSet(b))
  /\ None # "provider"
  BY SourcesAssumption DEF CAF!Parameters

LEMMA NothingRefreshed == Refreshed(CAF!NoData)
<1>1. CAF!AllOf(<<>>) = Sofar(<<>>, 0)
  <2>1. DOMAIN <<>> = 1 .. 0
    OBVIOUS
  <2>2. QED
    BY <2>1, AllSofar
<1>2. QED
  BY <1>1, NothingSofar DEF Refreshed

LEMMA DiskInit == CAF!Init => DiskInv
<1> SUFFICES ASSUME CAF!Init PROVE DiskInv
  OBVIOUS
<1>1. provider = [at |-> "start", news |-> <<>>, size |-> None]
  BY DEF CAF!Init, CAF!Step
<1>2. lock = None /\ total = 0 /\ Refreshed(disk)
  BY NothingRefreshed DEF CAF!Init
<1>3. ValuesWhole /\ shown = [r \in Readers |-> shown[r]]
  BY DEF CAF!Init, ValuesWhole, CAF!ValuesWhole
<1>4. group = [r \in Readers |-> group[r]]
  BY DEF CAF!Init
<1>5. QED
  BY <1>1, <1>2, <1>3, <1>4 DEF DiskInv, Spots, WithLock

(* A step of the thread shows nothing to anybody.                          *)
LEMMA ShownStays ==
  ASSUME DiskInv, shown' = shown, group' = group
  PROVE  /\ shown' = [r \in Readers |-> shown'[r]]
         /\ group' = [r \in Readers |-> group'[r]]
         /\ ValuesWhole'
<1>1. ValuesWhole'
  BY DEF DiskInv, ValuesWhole, CAF!ValuesWhole
<1>2. QED
  BY <1>1 DEF DiskInv

(* The lock, the size and the record of the thread after one of its steps. *)
LEMMA ThreadKeeps ==
  ASSUME DiskInv, NEW at \in Spots, NEW news, NEW size \in Totals \cup {None},
         provider' = [at |-> at, news |-> news, size |-> size],
         lock' = IF at \in WithLock THEN "provider" ELSE None,
         total' \in Totals \cup {0}, shown' = shown, group' = group,
         at = "reacquire" => news \in Reports \cup {<<>>},
         at \notin {"fill", "dead"} => Refreshed(disk'),
         at = "fill" =>
           \E b \in Reports : \E n \in Nat : news \in Seq(CAF!ToSet(b)) /\ Filling(b, n)'
  PROVE  DiskInv'
<1>1. /\ provider'.at = at /\ provider'.news = news /\ provider'.size = size
      /\ DOMAIN provider' = {"at", "news", "size"}
      /\ provider' = [k \in DOMAIN provider' |-> provider'[k]]
  OBVIOUS
<1>2. Refreshed(disk') => Refreshed(disk)'
  BY DEF Refreshed
<1>3. /\ shown' = [r \in Readers |-> shown'[r]]
      /\ group' = [r \in Readers |-> group'[r]]
      /\ ValuesWhole'
  BY ShownStays
<1>4. at = "fill" =>
        \E b \in Reports : \E n \in Nat : provider'.news \in Seq(CAF!ToSet(b)) /\ Filling(b, n)'
  BY <1>1
<1>5. QED
  BY <1>1, <1>2, <1>3, <1>4 DEF DiskInv

LEMMA ThreadRecord ==
  ASSUME DiskInv
  PROVE  /\ provider = [at |-> provider.at, news |-> provider.news, size |-> provider.size]
         /\ provider.at \in Spots /\ provider.size \in Totals \cup {None}
         /\ lock = IF provider.at \in WithLock THEN "provider" ELSE None
         /\ total \in Totals \cup {0} /\ None # "provider"
  BY DiskParameters DEF DiskInv

(* The thread begins a refresh: it counts from the first block.            *)
LEMMA ReacquireKeeps ==
  ASSUME DiskInv, CAF!Reacquire
  PROVE  DiskInv'
<1>1. /\ provider.at = "reacquire" /\ lock' = "provider"
      /\ total' = total /\ shown' = shown /\ group' = group
  BY DEF CAF!Reacquire, CAF!reqvars
<1>2. provider.news \in Reports \cup {<<>>}
  BY <1>1 DEF DiskInv
<1>3. CASE provider.news = <<>>
  <2>1. provider' = [at |-> "total", news |-> <<>>, size |-> provider.size]
    BY <1>3, ThreadRecord DEF CAF!Reacquire
  <2>2. Refreshed(disk')
    BY <1>1, <1>3 DEF DiskInv, CAF!Reacquire
  <2>3. QED
    BY <1>1, <2>1, <2>2, ThreadRecord, ThreadKeeps DEF Spots, WithLock
<1>4. CASE provider.news # <<>>
  <2> DEFINE b == provider.news
  <2>1. provider' = [at |-> "fill", news |-> b, size |-> provider.size]
    BY <1>4, ThreadRecord DEF CAF!Reacquire
  <2>2. disk' = CAF!NoData
    BY <1>4 DEF CAF!Reacquire
  <2>3. b \in Reports /\ b \in Seq(CAF!ToSet(b))
    BY <1>2, <1>4, DiskParameters
  <2>4. Len(b) \in Nat /\ Len(b) # 0
    BY <1>4, <2>3, EmptySeq
  <2>5. Filling(b, 0)'
    BY <2>1, <2>2, <2>3, <2>4, NothingSofar DEF Filling
  <2>6. QED
    BY <1>1, <2>1, <2>3, <2>5, ThreadRecord, ThreadKeeps DEF Spots, WithLock
<1>5. QED
  BY <1>3, <1>4

(* What is left of an answer after one more block.                         *)
LEMMA RestOfAnswer ==
  ASSUME NEW S, NEW b \in Seq(S), NEW rest \in Seq(S), NEW n \in 0 .. Len(b) - 1,
         Len(rest) = Len(b) - n, \A i \in 1 .. Len(b) - n : rest[i] = b[n + i]
  PROVE  /\ Head(rest) = b[n + 1]
         /\ Len(rest) = 1 => n + 1 = Len(b)
         /\ Len(rest) # 1 =>
              /\ n + 1 \in 0 .. Len(b) - 1 /\ Tail(rest) \in Seq(S)
              /\ Len(Tail(rest)) = Len(b) - (n + 1)
              /\ \A i \in 1 .. Len(b) - (n + 1) : Tail(rest)[i] = b[(n + 1) + i]
<1>1. Len(b) \in Nat /\ n \in Nat /\ n <= Len(b) - 1 /\ DOMAIN b = 1 .. Len(b)
  OBVIOUS
<1>2. rest # <<>>
  BY <1>1, EmptySeq
<1>3. /\ Head(rest) = rest[1] /\ Tail(rest) \in Seq(S) /\ Len(Tail(rest)) = Len(rest) - 1
      /\ \A i \in 1 .. Len(rest) - 1 : Tail(rest)[i] = rest[i + 1]
  BY <1>2, HeadTailProperties
<1>4. Head(rest) = b[n + 1]
  <2>1. 1 \in 1 .. Len(b) - n
    BY <1>1
  <2>2. QED
    BY <1>3, <2>1
<1>5. Len(rest) = 1 => n + 1 = Len(b)
  <2>1. \A k, m \in Nat : m - k = 1 => k + 1 = m
    OBVIOUS
  <2>2. QED
    BY <1>1, <2>1
<1>6. Len(rest) # 1 => n + 1 \in 0 .. Len(b) - 1
  BY <1>1
<1>7. Len(Tail(rest)) = Len(b) - (n + 1)
  BY <1>1, <1>3
<1>8. ASSUME NEW i \in 1 .. Len(b) - (n + 1)
      PROVE  Tail(rest)[i] = b[(n + 1) + i]
  <2>1. i \in 1 .. Len(rest) - 1 /\ i + 1 \in 1 .. Len(b) - n /\ n + (i + 1) = (n + 1) + i
    BY <1>1
  <2>2. QED
    BY <1>3, <2>1
<1>9. QED
  BY <1>3, <1>4, <1>5, <1>6, <1>7, <1>8

LEMMA FillKeeps ==
  ASSUME DiskInv, CAF!Fill
  PROVE  DiskInv'
<1>1. /\ provider.at = "fill" /\ lock' = lock /\ lock = "provider"
      /\ total' = total /\ shown' = shown /\ group' = group
  BY ThreadRecord DEF CAF!Fill, CAF!reqvars, WithLock
<1>2. CASE Head(provider.news) = CAF!Malformed
  <2>1. provider' = [at |-> "dead", news |-> <<>>, size |-> None]
    BY <1>2 DEF CAF!Fill, CAF!Step
  <2>2. QED
    BY <1>1, <2>1, ThreadRecord, ThreadKeeps DEF Spots, WithLock
<1>3. CASE Head(provider.news) # CAF!Malformed
  <2>1. PICK b \in Reports, n \in Nat : provider.news \in Seq(CAF!ToSet(b)) /\ Filling(b, n)
    BY <1>1 DEF DiskInv
  <2>2. PICK rest : rest = provider.news
    OBVIOUS
  <2>3. b \in Seq(CAF!ToSet(b)) /\ rest \in Seq(CAF!ToSet(b))
    BY <2>1, <2>2, DiskParameters
  <2>4. /\ n \in 0 .. Len(b) - 1 /\ Len(rest) = Len(b) - n
        /\ \A i \in 1 .. Len(b) - n : rest[i] = b[n + i]
    BY <2>1, <2>2 DEF Filling
  <2>5. /\ Head(rest) = b[n + 1]
        /\ Len(rest) = 1 => n + 1 = Len(b)
        /\ Len(rest) # 1 =>
             /\ n + 1 \in 0 .. Len(b) - 1 /\ Tail(rest) \in Seq(CAF!ToSet(b))
             /\ Len(Tail(rest)) = Len(b) - (n + 1)
             /\ \A i \in 1 .. Len(b) - (n + 1) : Tail(rest)[i] = b[(n + 1) + i]
    BY <2>3, <2>4, RestOfAnswer
  <2>6. disk' = Sofar(b, n + 1)
    <3>1. disk' = CAF!Accumulate(disk, b[n + 1])
      BY <1>3, <2>2, <2>5 DEF CAF!Fill
    <3>2. disk = Sofar(b, n)
      BY <2>1 DEF Filling
    <3>3. QED
      BY <3>1, <3>2, OneMore
  <2>7. provider' = [at |-> IF Len(rest) = 1 THEN "total" ELSE "fill", news |-> Tail(rest),
                     size |-> provider.size]
    BY <1>3, <2>2, ThreadRecord DEF CAF!Fill
  <2>8. CASE Len(rest) = 1
    <3>1. DOMAIN b = 1 .. n + 1
      BY <2>3, <2>5, <2>8
    <3>2. disk' = CAF!AllOf(b)
      BY <2>6, <3>1, AllSofar
    <3>3. Refreshed(disk')
      BY <3>2 DEF Refreshed
    <3>4. provider' = [at |-> "total", news |-> Tail(rest), size |-> provider.size]
      BY <2>7, <2>8
    <3>5. QED
      BY <1>1, <3>3, <3>4, ThreadRecord, ThreadKeeps DEF Spots, WithLock
  <2>9. CASE Len(rest) # 1
    <3>1. provider' = [at |-> "fill", news |-> Tail(rest), size |-> provider.size]
      BY <2>7, <2>9
    <3>2. provider'.news = Tail(rest)
      BY <3>1
    <3>3. Filling(b, n + 1)'
      BY <2>5, <2>6, <2>9, <3>2 DEF Filling
    <3>4. n + 1 \in Nat /\ Tail(rest) \in Seq(CAF!ToSet(b))
      BY <2>5, <2>9
    <3>5. QED
      BY <1>1, <3>1, <3>3, <3>4, ThreadRecord, ThreadKeeps DEF Spots, WithLock
  <2>10. QED
    BY <2>8, <2>9
<1>4. QED
  BY <1>2, <1>3

(* The other steps of the thread, and the exit that wakes it, leave the    *)
(* values alone.                                                           *)
Moves == CAF!Start \/ CAF!Loop \/ CAF!Fetch \/ CAF!Total \/ CAF!TimeOut \/ CAF!Wake \/ CAF!Stop

LEMMA MoveKeeps ==
  ASSUME DiskInv, shown' = shown, group' = group, Refreshed(disk'), total' \in Totals \cup {0},
         NEW at \in Spots \ {"fill"}, NEW news, NEW size \in Totals \cup {None},
         provider' = [at |-> at, news |-> news, size |-> size],
         lock' = IF at \in WithLock THEN "provider" ELSE None,
         at = "reacquire" => news \in Reports \cup {<<>>}
  PROVE  DiskInv'
  BY ThreadKeeps

LEMMA MovesKeep ==
  ASSUME DiskInv, Moves
  PROVE  DiskInv'
<1>1. disk' = disk /\ shown' = shown /\ group' = group /\ provider.at \notin {"fill", "dead"}
  BY ThreadRecord
  DEF Moves, CAF!Start, CAF!Loop, CAF!Fetch, CAF!Total, CAF!TimeOut, CAF!Wake, CAF!Stop,
      CAF!reqvars, WithLock
<1>2. Refreshed(disk')
  BY <1>1 DEF DiskInv
<1>3. total' \in Totals \cup {0}
  BY ThreadRecord
  DEF Moves, CAF!Start, CAF!Loop, CAF!Fetch, CAF!Total, CAF!TimeOut, CAF!Wake, CAF!Stop
<1>4. CASE CAF!Start
  <2>1. provider' = [at |-> "loop", news |-> <<>>, size |-> None] /\ lock' = "provider"
    BY <1>4 DEF CAF!Start, CAF!Step
  <2>2. QED
    BY <1>1, <1>2, <1>3, <2>1, MoveKeeps DEF Spots, WithLock
<1>5. CASE CAF!Loop
  <2>1. \E at \in {"ended", "fetch"} : provider' = [at |-> at, news |-> <<>>, size |-> None]
    BY <1>5 DEF CAF!Loop, CAF!Step
  <2>2. lock' = None
    BY <1>5 DEF CAF!Loop
  <2>3. QED
    BY <1>1, <1>2, <1>3, <2>1, <2>2, MoveKeeps DEF Spots, WithLock
<1>6. CASE CAF!Fetch
  <2>1. PICK news \in Reports \cup {<<>>}, size \in Totals \cup {None} :
          provider' = [at |-> "reacquire", news |-> news, size |-> size]
    BY <1>6 DEF CAF!Fetch, CAF!Step
  <2>2. lock' = None
    BY <1>6, ThreadRecord DEF CAF!Fetch, WithLock
  <2>3. QED
    BY <1>1, <1>2, <1>3, <2>1, <2>2, MoveKeeps DEF Spots, WithLock
<1>7. CASE CAF!Total
  <2>1. provider' = [at |-> "wait", news |-> <<>>, size |-> None] /\ lock' = None
    BY <1>7 DEF CAF!Total, CAF!Step
  <2>2. QED
    BY <1>1, <1>2, <1>3, <2>1, MoveKeeps DEF Spots, WithLock
<1>8. CASE CAF!TimeOut
  <2>1. provider' = [at |-> "wake", news |-> <<>>, size |-> None]
    BY <1>8 DEF CAF!TimeOut, CAF!Step
  <2>2. lock' = None
    BY <1>8, ThreadRecord DEF CAF!TimeOut, WithLock
  <2>3. QED
    BY <1>1, <1>2, <1>3, <2>1, <2>2, MoveKeeps DEF Spots, WithLock
<1>9. CASE CAF!Wake
  <2>1. provider' = [at |-> "loop", news |-> <<>>, size |-> None] /\ lock' = "provider"
    BY <1>9 DEF CAF!Wake, CAF!Step
  <2>2. QED
    BY <1>1, <1>2, <1>3, <2>1, MoveKeeps DEF Spots, WithLock
<1>10. CASE CAF!Stop
  <2>1. lock' = None /\ lock = None /\ provider.at \notin WithLock
    BY <1>10, ThreadRecord DEF CAF!Stop
  <2>2. CASE provider.at = "wait"
    <3>1. provider' = [at |-> "wake", news |-> <<>>, size |-> None]
      BY <1>10, <2>2 DEF CAF!Stop, CAF!Step
    <3>2. QED
      BY <1>1, <1>2, <1>3, <2>1, <3>1, MoveKeeps DEF Spots, WithLock
  <2>3. CASE provider.at # "wait"
    <3>1. provider' = provider
      BY <1>10, <2>3 DEF CAF!Stop
    <3>2. provider.at = "reacquire" => provider.news \in Reports \cup {<<>>}
      BY DEF DiskInv
    <3>3. QED
      BY <1>1, <1>2, <1>3, <2>1, <3>1, <3>2, ThreadRecord, MoveKeeps
  <2>4. QED
    BY <2>2, <2>3
<1>11. QED
  BY <1>4, <1>5, <1>6, <1>7, <1>8, <1>9, <1>10 DEF Moves

(* A request gets the values when the thread has not the lock.             *)
LEMMA RequestKeeps ==
  ASSUME DiskInv, provider' = provider, lock' = lock, total' = total, disk' = disk,
         shown' = [r \in Readers |-> shown'[r]], group' = [r \in Readers |-> group'[r]],
         ValuesWhole'
  PROVE  DiskInv'
<1>1. Refreshed(disk) => Refreshed(disk)'
  BY DEF Refreshed
<1>2. provider.at = "fill" =>
        \E b \in Reports : \E n \in Nat : provider'.news \in Seq(CAF!ToSet(b)) /\ Filling(b, n)'
  BY DEF DiskInv, Filling
<1>3. QED
  BY <1>1, <1>2 DEF DiskInv

LEMMA AskKeeps ==
  ASSUME DiskInv, NEW r \in Readers, CAF!Ask(r) \/ CAF!Values(r)
  PROVE  DiskInv'
<1>1. provider' = provider /\ lock' = lock /\ total' = total /\ disk' = disk
  BY DEF CAF!Ask, CAF!Values
<1>2. CASE CAF!Ask(r)
  <2>1. PICK g \in DiskPlots : group' = [group EXCEPT ![r] = g]
    BY <1>2 DEF CAF!Ask
  <2>2. shown' = [shown EXCEPT ![r] = None]
    BY <1>2 DEF CAF!Ask
  <2>3. ASSUME NEW q \in Readers, shown'[q] # None
        PROVE  CAF!Whole(group'[q], shown'[q])
    <3>1. group'[q] = group[q] /\ shown'[q] = shown[q]
      BY <2>1, <2>2, <2>3 DEF DiskInv
    <3>2. QED
      BY <2>3, <3>1 DEF DiskInv, ValuesWhole, CAF!ValuesWhole
  <2>4. ValuesWhole'
    BY <2>3 DEF ValuesWhole, CAF!ValuesWhole
  <2>5. QED
    BY <1>1, <2>1, <2>2, <2>4, RequestKeeps DEF DiskInv
<1>3. CASE CAF!Values(r)
  <2>1. shown' = [shown EXCEPT ![r] = CAF!Plot(group[r], disk, total)] /\ group' = group
        /\ lock = None
    BY <1>3 DEF CAF!Values
  <2>2. provider.at \notin {"fill", "dead"}
    BY <2>1, ThreadRecord DEF WithLock
  <2>3. PICK blocks \in Reports \cup {<<>>} : disk = CAF!AllOf(blocks)
    BY <2>2 DEF DiskInv, Refreshed
  <2>4. ASSUME NEW q \in Readers, shown'[q] # None
        PROVE  CAF!Whole(group'[q], shown'[q])
    <3>1. CASE q = r
      <4>1. shown'[q] = CAF!Plot(group'[q], CAF!AllOf(blocks), total)
        BY <2>1, <2>3, <3>1 DEF DiskInv
      <4>2. QED
        BY <4>1, ThreadRecord DEF CAF!Whole
    <3>2. CASE q # r
      BY <2>1, <2>4, <3>2 DEF DiskInv, ValuesWhole, CAF!ValuesWhole
    <3>3. QED
      BY <3>1, <3>2
  <2>5. ValuesWhole'
    BY <2>4 DEF ValuesWhole, CAF!ValuesWhole
  <2>6. QED
    BY <1>1, <2>1, <2>5, RequestKeeps DEF DiskInv
<1>4. QED
  BY <1>2, <1>3

(* Plots of the disk show one whole refresh, for any answers of the other  *)
(* services and any number of requests, whenever they come while the       *)
(* thread counts the blocks of a new one (CAF.py, lines 45-102).           *)
THEOREM DiskValuesWhole == CAF!Spec => []ValuesWhole
<1>1. ASSUME DiskInv, [CAF!Next]_(CAF!vars)
      PROVE  DiskInv'
  <2>1. CASE Moves
    BY <1>1, <2>1, MovesKeep
  <2>2. CASE CAF!Reacquire \/ CAF!Fill
    BY <1>1, <2>2, ReacquireKeeps, FillKeeps
  <2>3. ASSUME NEW r \in Readers, CAF!Ask(r) \/ CAF!Values(r)
        PROVE  DiskInv'
    BY <1>1, <2>3, AskKeeps
  <2>4. CASE CAF!Exit \/ UNCHANGED CAF!vars
    <3>1. /\ provider' = provider /\ lock' = lock /\ total' = total /\ disk' = disk
          /\ shown' = shown /\ group' = group
      BY <2>4 DEF CAF!Exit, CAF!vars, CAF!reqvars
    <3>2. QED
      BY <1>1, <3>1, ShownStays, RequestKeeps
  <2>5. QED
    BY <1>1, <2>1, <2>2, <2>3, <2>4 DEF CAF!Next, CAF!Provide, Moves
<1>2. DiskInv => ValuesWhole
  BY DEF DiskInv
<1>3. QED
  BY <1>1, <1>2, DiskInit, PTL DEF CAF!Spec
=============================================================================
