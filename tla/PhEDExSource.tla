----------------------------- MODULE PhEDExSource -----------------------------
(***************************************************************************)
(* How requests for transfer plots share their work (Overview/PhEDEx.py,   *)
(* PhEDExSource.plot and the query caches).  The HTTP threads look an      *)
(* image up in a table under the lock of the source; each entry of the     *)
(* table has a lock of its own, held while the image is drawn.  The rows   *)
(* the image is drawn from are cached by the interval of time they are     *)
(* for, under the lock of the source again.  What is drawn from the rows   *)
(* is module TransferData.                                                 *)
(***************************************************************************)
EXTENDS Integers, FiniteSets

CONSTANTS
  Requests,    \* numbers: they come in this order
  Images,      \* image keys: what is drawn, of which databases, and how
  Drawing,     \* of each image: "chart", "table", or "unknown" to the source
  Interval,    \* of each image: <<start, end>> of its time series
  Asks,        \* by request: what it may ask, an image and a part of it
  ImageLife,   \* 60 seconds
  RowsLife,    \* 300 seconds
  MaxTime,     \* bound
  MaxBusy,     \* bound, by request: how many are at work when it comes
  MaxFailures, \* bound
  None

Parameters ==
  /\ ImageLife \in Nat /\ RowsLife \in Nat
  /\ Interval \in [Images -> Int \X Int]
  /\ \A r \in Requests : \A a \in Asks[r] : a.image \in Images
  /\ None \notin Requests
  /\ None \notin [image : Images, at : Nat, for : Int \X Int]
  /\ None \notin [at : Nat, valid : Nat, for : Int \X Int]

VARIABLES
  clock,
  source,     \* the request that has the lock of the source, or None
  imgcache,   \* by image: the request that made its entry, or None
  entry,      \* by request: the entry it made
  rows,       \* by interval: the cached rows of the link events, or None
  pc,         \* by request: where it is
  asked,      \* by request: image and part, or None
  since,      \* by request: "now", read once
  cached,     \* by request: the entry it uses, or None
  began,      \* by request: when its query began
  data,       \* by request: the rows it draws, or None
  answer,     \* by request: what it was answered, or None
  failures

vars == <<clock, source, imgcache, entry, rows, pc, asked, since, cached, began, data,
          answer, failures>>

Intervals == {Interval[i] : i \in Images}
Parts == {"plot", "legend", "info"}
Empty == [lock |-> None, valid |-> 0, kept |-> [p \in Parts |-> None]]

Init ==
  /\ clock = 0
  /\ source = None
  /\ imgcache = [i \in Images |-> None]
  /\ entry = [r \in Requests |-> Empty]
  /\ rows = [t \in Intervals |-> None]
  /\ pc = [r \in Requests |-> "idle"]
  /\ asked = [r \in Requests |-> None]
  /\ since = [r \in Requests |-> 0]
  /\ cached = [r \in Requests |-> None]
  /\ began = [r \in Requests |-> 0]
  /\ data = [r \in Requests |-> None]
  /\ answer = [r \in Requests |-> None]
  /\ failures = 0

Image(r) == asked[r].image
Goto(r, l) == pc' = [pc EXCEPT ![r] = l]

--------------------------------------------------------------------------------
(* plot(): the database instances are listed under the lock of the source, *)
(* and the time is read.                                                   *)
Arrive(r) ==
  /\ pc[r] = "idle" /\ source = None
  /\ \A q \in Requests : q < r => pc[q] # "idle"
  /\ Cardinality({q \in Requests : pc[q] \notin {"idle", "done"}}) <= MaxBusy[r]
  /\ \E a \in Asks[r] : asked' = [asked EXCEPT ![r] = a]
  /\ since' = [since EXCEPT ![r] = clock]
  /\ Goto(r, "look")
  /\ UNCHANGED <<clock, source, imgcache, entry, rows, cached, began, data, answer, failures>>

(* Images that are no longer valid go, those that are being drawn among    *)
(* them: an entry is made with a validity of 0.                            *)
Pruned(now) == [i \in Images |-> IF imgcache[i] # None /\ entry[imgcache[i]].valid < now
                                 THEN None ELSE imgcache[i]]

LookUp(r) ==
  LET left == Pruned(since[r]) IN
  /\ pc[r] = "look" /\ source = None
  /\ IF left[Image(r)] = None
     THEN /\ imgcache' = [left EXCEPT ![Image(r)] = r]
          /\ cached' = [cached EXCEPT ![r] = r]
     ELSE /\ imgcache' = left
          /\ cached' = [cached EXCEPT ![r] = left[Image(r)]]
  /\ Goto(r, "lock")
  /\ UNCHANGED <<clock, source, entry, rows, asked, since, began, data, answer, failures>>

(* cached.get(part): plot and legend stitched together are never kept.     *)
Has(e, part) == part \in Parts /\ e.kept[part] # None

(* The request ends with that answer, the lock of its entry free, come     *)
(* what may.                                                               *)
Leave(r, e, x) ==
  /\ entry' = [entry EXCEPT ![cached[r]] = [e EXCEPT !.lock = None]]
  /\ answer' = [answer EXCEPT ![r] = x]
  /\ asked' = [asked EXCEPT ![r] = None]
  /\ cached' = [cached EXCEPT ![r] = None]
  /\ data' = [data EXCEPT ![r] = None]
  /\ Goto(r, "done")

Lock(r) ==
  LET e == entry[cached[r]] IN
  /\ pc[r] = "lock" /\ e.lock = None
  /\ CASE Has(e, asked[r].part) -> Leave(r, e, e.kept[asked[r].part])
       [] ~Has(e, asked[r].part) /\ Drawing[Image(r)] = "unknown" -> Leave(r, e, None)
       [] OTHER -> /\ entry' = [entry EXCEPT ![cached[r]].lock = r]
                   /\ Goto(r, "query")
                   /\ UNCHANGED <<asked, cached, data, answer>>
  /\ UNCHANGED <<clock, source, imgcache, rows, since, began, failures>>

--------------------------------------------------------------------------------
(* _linkData and _queryTimeSeries, with the lock of the source.            *)
Take(r) ==
  /\ pc[r] = "query" /\ source = None
  /\ source' = r
  /\ began' = [began EXCEPT ![r] = clock]
  /\ Goto(r, "rows")
  /\ UNCHANGED <<clock, imgcache, entry, rows, asked, since, cached, data, answer, failures>>

(* The interval the rows are looked for under: the narrowest in the cache  *)
(* that has all of what is asked, even if its rows are out of date.        *)
Within(t, u) == u[1] <= t[1] /\ t[2] <= u[2]
Around(t) == {u \in Intervals : rows[u] # None /\ Within(t, u)}
KeyOf(t) == IF Around(t) = {} THEN t
            ELSE CHOOSE u \in Around(t) : \A v \in Around(t) : Within(v, u) => v = u

Valid(k, now) == rows[k] # None /\ now <= rows[k].valid

(* Rows that are out of date are read again, for what is asked now, and    *)
(* put where the old ones were.  Old rows of all intervals go.             *)
Fetch(r) ==
  LET t == Interval[Image(r)]
      k == KeyOf(t)
      new == [at |-> began[r], valid |-> began[r] + RowsLife, for |-> t]
      used == IF Valid(k, began[r]) THEN rows[k] ELSE new
      all == [rows EXCEPT ![k] = used]
  IN
  /\ pc[r] = "rows"
  /\ data' = [data EXCEPT ![r] = [image |-> Image(r), at |-> used.at, for |-> used.for]]
  /\ rows' = [u \in Intervals |-> IF all[u] # None /\ all[u].valid < clock THEN None ELSE all[u]]
  /\ source' = None
  /\ began' = [began EXCEPT ![r] = 0]
  /\ Goto(r, "draw")
  /\ UNCHANGED <<clock, imgcache, entry, asked, since, cached, answer, failures>>

Fails(r, e) ==
  /\ failures < MaxFailures
  /\ failures' = failures + 1
  /\ Leave(r, e, None)

(* Slip: the lock of the source is not released when a query fails.        *)
FetchFailsLocked(r) ==
  /\ pc[r] = "rows" /\ ~Valid(KeyOf(Interval[Image(r)]), began[r])
  /\ Fails(r, entry[cached[r]])
  /\ began' = [began EXCEPT ![r] = 0]
  /\ UNCHANGED <<clock, source, imgcache, rows, since>>

FetchFails(r) ==
  /\ pc[r] = "rows" /\ ~Valid(KeyOf(Interval[Image(r)]), began[r])
  /\ Fails(r, entry[cached[r]])
  /\ source' = None
  /\ began' = [began EXCEPT ![r] = 0]
  /\ UNCHANGED <<clock, imgcache, rows, since>>

--------------------------------------------------------------------------------
(* Slip: the image is valid from when it is drawn.                         *)
ValidUntilLate(r) == clock + ImageLife

(* The image is valid from when it was asked for.                          *)
ValidUntil(r) == since[r] + ImageLife

(* First the entry gets its new validity, then one part after the other is *)
(* drawn and kept; a table has no image, and is its own information.       *)
With(r, parts, others) ==
  [entry[cached[r]] EXCEPT !.valid = ValidUntil(r),
     !.kept = [p \in Parts |-> IF p \in parts THEN data[r] ELSE others[p]]]

PartsOf(r) == IF Drawing[Image(r)] = "table" THEN {"info"} ELSE Parts

Draw(r) ==
  /\ pc[r] = "draw"
  /\ Leave(r, With(r, PartsOf(r), Empty.kept), data[r])
  /\ UNCHANGED <<clock, source, imgcache, rows, since, began, failures>>

(* What is to be drawn cannot be made of the rows.                         *)
PrepareFails(r) ==
  /\ pc[r] = "draw"
  /\ Fails(r, entry[cached[r]])
  /\ UNCHANGED <<clock, source, imgcache, rows, since, began>>

(* A part cannot be drawn, or the two not be stitched together: the parts  *)
(* that were kept before live on with the new validity.                    *)
DrawFails(r) ==
  /\ pc[r] = "draw" /\ Drawing[Image(r)] = "chart"
  /\ \E parts \in {{}, {"plot"}, {"plot", "legend"}, Parts} : Fails(r, With(r, parts, entry[cached[r]].kept))
  /\ UNCHANGED <<clock, source, imgcache, rows, since, began>>

Tick ==
  /\ clock < MaxTime
  /\ clock' = clock + 1
  /\ UNCHANGED <<source, imgcache, entry, rows, pc, asked, since, cached, began, data, answer,
                 failures>>

Step(r) ==
  \/ LookUp(r) \/ Lock(r) \/ Take(r) \/ Fetch(r) \/ FetchFails(r)
  \/ Draw(r) \/ PrepareFails(r) \/ DrawFails(r)

Next == Tick \/ \E r \in Requests : Arrive(r) \/ Step(r)

(* A thread of the server goes on when it can; queries and drawings end.   *)
Fairness == \A r \in Requests : WF_vars(Step(r))

Spec == Init /\ [][Next]_vars /\ Fairness

--------------------------------------------------------------------------------
(* Two caches in a row, one of them read with a time that was taken before *)
(* waiting for two locks: an image is drawn from rows read no longer ago,  *)
(* when it was asked for, than the lives of both caches together.  Every   *)
(* drawing that fails can add the life of an image to this, since it makes *)
(* the parts of an older one valid again; nothing else can.                *)
ImagesRecent ==
  \A r \in Requests :
    answer[r] # None => answer[r].at + RowsLife + ImageLife * (1 + failures) >= since[r]

(* Every request is answered or fails: whoever has a lock gives it back,   *)
(* and the two locks are never waited for in a circle.                     *)
PlotsAnswered == \A r \in Requests : (pc[r] = "look") ~> (pc[r] = "done")

(* PhEDEx.py:673: "We need to protect access to the cache with a lock, and *)
(* also lock the individual cache entry so that concurrent accesses will   *)
(* access the same data": two requests for one image do not both draw it   *)
(* at the same time.                                                       *)
DrawnOnce ==
  \A r, s \in Requests :
    /\ r # s
    /\ {pc[r], pc[s]} \subseteq {"query", "rows", "draw"}
    => Image(r) # Image(s)
================================================================================
