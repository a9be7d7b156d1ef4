------------------------------- MODULE CAFData -------------------------------
(***************************************************************************)
(* The disk usage of the CAF (Overview/CAF.py): a thread that asks PhEDEx  *)
(* for the blocks at the site and the storage for its size, sorts the      *)
(* blocks by data set under labels, and sleeps; and requests that show the *)
(* data sets of a label or their share of the disk.  One lock is held by   *)
(* whoever reads or writes the values; the thread lets it go while it asks *)
(* and while it sleeps.                                                    *)
(***************************************************************************)
EXTENDS Integers, Sequences, SequencesExt, FiniteSetsExt

CONSTANTS
  Requests,     \* requests for plots
  Groups,       \* the plots asked for
  rxlist,       \* labels in order, each with the data sets its regexp matches
  Answers,      \* what PhEDEx may answer: sequences of blocks
  Totals,       \* sizes of the disk the storage may report
  None

Parameters ==
  /\ \A blocks \in Answers : blocks \in Seq(ToSet(blocks))
  /\ None # "provider"

VARIABLES
  lock,         \* who holds it
  stopme,       \* the server exits
  stopping,     \* the exit handler: "not yet", "stop", "done"
  provider,     \* the thread: where it is, what it has fetched
  data,         \* the data sets of each label: their size and oldest block
  total,        \* the size of the disk
  pc, group, shown  \* of each request: where it is, its plot, what it got

vars == <<lock, stopme, stopping, provider, data, total, pc, group, shown>>
reqvars == <<pc, group, shown>>

Labels == {rxlist[i].label : i \in DOMAIN rxlist} \cup {"other"}

(* A block: its data set, size and age; one without a replica is Malformed.*)
Malformed == [ds |-> "?", size |-> 0, ctime |-> 0]
NoData == [l \in {} |-> None]

Matching(ds) == {i \in DOMAIN rxlist : ds \in rxlist[i].matches}

(* The labels one block is counted under.  The accumulation stands in the  *)
(* body of the loop over the regexps, after the break: it runs once for    *)
(* each regexp before the first that matches, and always for "other".      *)
TimesCounted(ds) ==
  IF Matching(ds) = {} THEN Len(rxlist) ELSE Min(Matching(ds)) - 1

Entry(sets, ds) == IF ds \in DOMAIN sets THEN sets[ds] ELSE None

Counted(entry, block, n) ==
  IF entry = None THEN [size |-> n * block.size, ctime |-> block.ctime]
  ELSE [size |-> entry.size + n * block.size, ctime |-> Min({entry.ctime, block.ctime})]

Put(f, k, v) == [x \in DOMAIN f \cup {k} |-> IF x = k THEN v ELSE f[x]]

Accumulate(d, block) ==
  LET n == TimesCounted(block.ds)
      sets == IF "other" \in DOMAIN d THEN d["other"] ELSE NoData
  IN IF n = 0 THEN d
     ELSE Put(d, "other", Put(sets, block.ds, Counted(Entry(sets, block.ds), block, n)))

AllOf(blocks) == FoldLeft(Accumulate, NoData, blocks)

Sets(d, label) == IF label \in DOMAIN d THEN d[label] ELSE NoData

--------------------------------------------------------------------------------
Step(at, news, size) == [at |-> at, news |-> news, size |-> size]

Init ==
  /\ lock = None /\ stopme = FALSE /\ stopping = "not yet"
  /\ provider = Step("start", <<>>, None)
  /\ data = NoData /\ total = 0
  /\ pc = [r \in Requests |-> "idle"]
  /\ group \in [Requests -> Groups]
  /\ shown = [r \in Requests |-> None]

(* run: the thread takes the lock it will mostly hold.                     *)
Start ==
  /\ provider.at = "start" /\ lock = None
  /\ lock' = "provider"
  /\ provider' = Step("loop", <<>>, None)
  /\ UNCHANGED <<stopme, stopping, data, total, reqvars>>

(* Slip: the lock is kept while the services are asked.                    *)
LoopLocked ==
  /\ provider.at = "loop"
  /\ provider' = Step(IF stopme THEN "ended" ELSE "fetch", <<>>, None)
  /\ lock' = IF stopme THEN None ELSE lock
  /\ UNCHANGED <<stopme, stopping, data, total, reqvars>>

Loop ==
  /\ provider.at = "loop"
  /\ provider' = Step(IF stopme THEN "ended" ELSE "fetch", <<>>, None)
  /\ lock' = None
  /\ UNCHANGED <<stopme, stopping, data, total, reqvars>>

(* Both services are asked without the lock; either may fail.              *)
Fetch ==
  /\ provider.at = "fetch"
  /\ \E news \in Answers \cup {<<>>}, size \in Totals \cup {None} :
       provider' = Step("reacquire", news, size)
  /\ UNCHANGED <<lock, stopme, stopping, data, total, reqvars>>

(* Slip: the new values are worked out before the lock is taken again.     *)
ReacquireLate ==
  /\ provider.at = "reacquire"
  /\ IF provider.news = <<>>
     THEN provider' = [provider EXCEPT !.at = "total"] /\ UNCHANGED data
     ELSE /\ provider' = [provider EXCEPT !.at = "fill"]
          /\ data' = NoData
  /\ UNCHANGED <<lock, stopme, stopping, total, reqvars>>

Reacquire ==
  /\ provider.at = "reacquire" /\ lock = None
  /\ lock' = "provider"
  /\ IF provider.news = <<>>
     THEN provider' = [provider EXCEPT !.at = "total"] /\ UNCHANGED data
     ELSE /\ provider' = [provider EXCEPT !.at = "fill"]
          /\ data' = NoData
  /\ UNCHANGED <<stopme, stopping, total, reqvars>>

(* One block; the data of a malformed one raise, and the thread ends with  *)
(* the lock in its hands.                                                  *)
Fill ==
  /\ provider.at = "fill"
  /\ IF Head(provider.news) = Malformed
     THEN provider' = Step("dead", <<>>, None) /\ UNCHANGED data
     ELSE /\ data' = Accumulate(data, Head(provider.news))
          /\ provider' = [provider EXCEPT !.news = Tail(@),
               !.at = IF Len(provider.news) = 1 THEN "total" ELSE "fill"]
  /\ UNCHANGED <<lock, stopme, stopping, total, reqvars>>

(* The size of the disk, then wakeup.wait(1800), which lets the lock go.   *)
Total ==
  /\ provider.at = "total"
  /\ total' = IF provider.size = None THEN total ELSE provider.size
  /\ provider' = Step("wait", <<>>, None)
  /\ lock' = None
  /\ UNCHANGED <<stopme, stopping, data, reqvars>>

(* The half hour is over.                                                  *)
TimeOut ==
  /\ provider.at = "wait"
  /\ provider' = Step("wake", <<>>, None)
  /\ UNCHANGED <<lock, stopme, stopping, data, total, reqvars>>

Wake ==
  /\ provider.at = "wake" /\ lock = None
  /\ lock' = "provider"
  /\ provider' = Step("loop", <<>>, None)
  /\ UNCHANGED <<stopme, stopping, data, total, reqvars>>

(* stop(): the exit of the server sets the flag and wakes the thread.      *)
Exit ==
  /\ stopping = "not yet"
  /\ stopping' = "stop"
  /\ UNCHANGED <<lock, stopme, provider, data, total, reqvars>>

Stop ==
  /\ stopping = "stop" /\ lock = None
  /\ stopping' = "done" /\ stopme' = TRUE
  /\ provider' = IF provider.at = "wait" THEN Step("wake", <<>>, None) ELSE provider
  /\ UNCHANGED <<lock, data, total, reqvars>>

--------------------------------------------------------------------------------
(* getdata: the data sets of a label, by size or age, the largest first;   *)
(* getfrac: their size and the size of the disk.                           *)
getdata(d, label, key) ==
  LET sets == Sets(d, label)
  IN SetToSortSeq({[ds |-> s, size |-> sets[s].size, ctime |-> sets[s].ctime] : s \in DOMAIN sets},
       LAMBDA a, b : a[key] > b[key])

getfrac(d, t, label) ==
  [size |-> MapThenSumSet(LAMBDA s : Sets(d, label)[s].size, DOMAIN Sets(d, label)), of |-> t]

(* The names of the plots: what is shown of which label.                   *)
Plot(g, d, t) ==
  IF g.label \notin {"alca", "comm", "phys", "other"} THEN None
  ELSE IF g.what = "percent" THEN getfrac(d, t, g.label)
       ELSE getdata(d, g.label, IF g.what = "bydate" THEN "ctime" ELSE "size")

Ask(r) ==
  /\ pc[r] = "idle"
  /\ pc' = [pc EXCEPT ![r] = "values"]
  /\ \E g \in Groups : group' = [group EXCEPT ![r] = g]
  /\ shown' = [shown EXCEPT ![r] = None]
  /\ UNCHANGED <<lock, stopme, stopping, provider, data, total>>

(* values(): both under the lock; the plot is made of them afterwards.     *)
Values(r) ==
  /\ pc[r] = "values" /\ lock = None
  /\ shown' = [shown EXCEPT ![r] = Plot(group[r], data, total)]
  /\ pc' = [pc EXCEPT ![r] = "idle"]
  /\ UNCHANGED <<lock, stopme, stopping, provider, data, total, group>>

Provide == Start \/ Loop \/ Reacquire \/ Fill \/ Total \/ Wake
Next ==
  \/ Provide \/ Fetch \/ TimeOut \/ Exit \/ Stop
  \/ \E r \in Requests : Ask(r) \/ Values(r)

(* The thread goes on where it does not ask another service, and whoever   *)
(* waits for the lock gets it some time.                                   *)
Spec == Init /\ [][Next]_vars
FairSpec ==
  /\ Spec /\ SF_vars(Provide) /\ SF_vars(Stop)
  /\ \A r \in Requests : SF_vars(Values(r))

--------------------------------------------------------------------------------
(* A request shows the values of one refresh, never those of a refresh     *)
(* that is still sorting its blocks (refresh, lines 60-62).                *)
Whole(g, s) ==
  \E blocks \in Answers \cup {<<>>}, t \in Totals \cup {0} : s = Plot(g, AllOf(blocks), t)
ValuesWhole == \A r \in Requests : shown[r] # None => Whole(group[r], shown[r])

(* Requests are answered even when the services never are: "Let lock go    *)
(* first" (refresh, line 45).  Only a thread that died leaves them waiting.*)
ValuesAnswered ==
  \A r \in Requests : pc[r] = "values" ~> (pc[r] = "idle" \/ provider.at = "dead")

(* "Assign each dataset to the first label in rxlist which matches the     *)
(* dataset name" (CAF.py, lines 66-67).                                    *)
LabelOf(ds) == IF Matching(ds) = {} THEN "other" ELSE rxlist[Min(Matching(ds))].label
FirstLabel ==
  provider.at = "wait" =>
    \A label \in Labels : \A ds \in DOMAIN Sets(data, label) : LabelOf(ds) = label

(* "Exit early on server shutdown" (CAF.py, line 104): a thread told to    *)
(* stop does not go to sleep for half an hour.                             *)
ExitsEarly == ~(stopme /\ provider.at = "wait")
=============================================================================
