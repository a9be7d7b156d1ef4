---------------------------- MODULE UploadsProofs ----------------------------
(***************************************************************************)
(* What is uploaded stays whole and apart, for any threads, requests,      *)
(* failing system calls and kills, however the handlers and the receive    *)
(* daemon interleave.                                                      *)
(***************************************************************************)
EXTENDS Uploads, TLAPS

------------------------------------------------------------------------------
(* The inductive invariant                                                 *)

Writing == {"temp", "write", "verify", "move"}
Moved == {"mark", "describe", "unlock"}

(* The steps a handler makes under its lock.                               *)
Locked(h) ==
  Writing \cup Moved \cup {"truncate", "fail"}
    \cup (IF h = "data" THEN {"seek", "seekMark"} ELSE {})

(* A body that the handler does not refuse.                                *)
Sound(h, i) ==
  /\ asked[i].body # "short"
  /\ h = "data" => asked[i].body # "foreign"

Types ==
  /\ Parameters
  /\ puts \in 0 .. MaxPuts
  /\ file \in [Handlers -> [Slots -> Ids \cup {None, Empty}]]
  /\ mark \in [Handlers -> [Slots -> Ids \cup {None, Empty}]]
  /\ DOMAIN lock = Handlers
  /\ put \in [Threads -> [at : Steps, id : Nat, slot : Nat, code : Nat]]
  /\ DOMAIN asked = Ids
  /\ \A i \in 1 .. puts : asked[i] \in RequestType

(* The names of the version a data file is to get, at each step.           *)
Version(i, at, v) ==
  v \in Slots =>
    /\ at = "seekMark" => Data(v) = None
    /\ at \in Writing => Data(v) = None /\ Origin(v) = None
    /\ at \in {"mark", "describe"} => Data(v) \in {None, i} /\ Origin(v) \notin Ids

(* What a thread that serves upload i of handler h relies on.              *)
Serving(t, h, i, at, v) ==
  /\ i \in 1 .. puts
  /\ at \in Locked(h) => lock[h] = t
  /\ h = "layout" => at \notin Writing \cup Moved
  /\ at = "truncate" => h = "layout"
  /\ h # "layout" /\ at \in {"move"} \cup Moved => Sound(h, i)
  /\ h = "data" => Version(i, at, v)

Claim(t) ==
  ~At(t, "idle") => Serving(t, Handler(t), put[t].id, put[t].at, put[t].slot)

Stored ==
  \A h \in {"data", "snapshot"}, v \in Slots :
    file[h][v] \in Ids => file[h][v] \in 1 .. puts /\ Sound(h, file[h][v])

Inv ==
  /\ Types /\ Stored /\ OwnOrigin
  /\ \A t \in Threads : Claim(t)

LEMMA InitInv == Parameters /\ Init => Inv
<1> SUFFICES ASSUME Parameters, Init PROVE Inv
  OBVIOUS
<1>1. Idle \in [at : Steps, id : Nat, slot : Nat, code : Nat]
  BY DEF Idle, Steps, OK
<1>2. Types
  BY <1>1 DEF Init, Types, Parameters
<1>3. Stored /\ OwnOrigin
  BY DEF Init, Stored, OwnOrigin, Parameters, Data, Origin, Handlers
<1>4. \A t \in Threads : Claim(t)
  BY DEF Init, Claim, At, Idle
<1>5. QED
  BY <1>2, <1>3, <1>4 DEF Inv

------------------------------------------------------------------------------
(* Steps that leave what others rely on                                    *)

(* What files and markers get anew they get from the owner of the lock.    *)
Adds(t, h) ==
  \A g \in Handlers, v \in Slots :
    \/ /\ file'[g][v] \in {file[g][v], None}
       /\ mark'[g][v] \in {mark[g][v], None}
    \/ g = h /\ lock[h] = t

LEMMA OthersKeep ==
  ASSUME Inv, NEW t, NEW h \in Handlers, Adds(t, h),
         puts' \in Nat, puts <= puts', \A i \in 1 .. puts : asked'[i] = asked[i],
         \A g \in Handlers : lock'[g] = lock[g] \/ lock[g] \in {t, Nobody},
         NEW u \in Threads, u # t, put'[u] = put[u]
  PROVE  Claim(u)'
<1> SUFFICES ASSUME put[u].at # "idle" PROVE Claim(u)'
  BY DEF Claim, At
<1>1. PICK i, at, v, g : /\ i = put[u].id /\ at = put[u].at /\ v = put[u].slot
                         /\ g = asked[i].handler
  OBVIOUS
<1>2. /\ Serving(u, g, i, at, v) /\ puts \in Nat /\ Parameters /\ g \in Handlers
  <2>1. Serving(u, g, i, at, v) /\ puts \in Nat /\ Parameters
    BY <1>1 DEF Inv, Claim, At, Types, Handler
  <2>2. asked[i] \in RequestType
    BY <2>1 DEF Inv, Types, Serving
  <2>3. QED
    BY <1>1, <2>1, <2>2 DEF RequestType
<1>3. i \in 1 .. puts' /\ asked'[i] = asked[i]
  BY <1>2 DEF Serving
<1>4. at \in Locked(g) => lock[g] = u /\ lock'[g] = u
  BY <1>2 DEF Serving, Parameters
<1>5. Sound(g, i) => Sound(g, i)'
  BY <1>3 DEF Sound
<1>6. g = "data" => Version(i, at, v)'
  <2> SUFFICES ASSUME g = "data", v \in Slots,
                      at \in Writing \cup {"seekMark", "mark", "describe"}
               PROVE  /\ at = "seekMark" => Data(v)' = None
                      /\ at \in Writing => Data(v)' = None /\ Origin(v)' = None
                      /\ at \in {"mark", "describe"} =>
                           Data(v)' \in {None, i} /\ Origin(v)' \notin Ids
    BY DEF Version, Writing
  <2>1. lock[g] = u
    BY <1>4 DEF Locked, Moved
  <2>2. Data(v)' \in {Data(v), None} /\ Origin(v)' \in {Origin(v), None}
    BY <1>2, <2>1 DEF Adds, Data, Origin, Handlers
  <2>3. QED
    BY <1>2, <2>2 DEF Version, Serving, Parameters
<1>7. Serving(u, g, i, at, v)'
  BY <1>2, <1>3, <1>4, <1>5, <1>6 DEF Serving
<1>8. QED
  BY <1>1, <1>3, <1>7 DEF Claim, At, Handler

(* A step that loses names, or none, leaves what is stored whole and apart. *)
Loses ==
  \A g \in Handlers, v \in Slots : /\ file'[g][v] \in {file[g][v], None}
                                   /\ mark'[g][v] \in {mark[g][v], None}

LEMMA LosesKeep ==
  ASSUME Inv, Loses, puts' \in Nat, puts <= puts',
         \A i \in 1 .. puts : asked'[i] = asked[i]
  PROVE  Stored' /\ OwnOrigin'
<1>1. Parameters /\ puts \in Nat
  BY DEF Inv, Types
<1>2. ASSUME NEW h \in {"data", "snapshot"}, NEW v \in Slots, NEW i \in Ids,
             i = file'[h][v]
      PROVE  i \in 1 .. puts' /\ Sound(h, i)'
  <2>1. file[h][v] = i
    BY <1>1, <1>2 DEF Loses, Handlers, Parameters
  <2>2. i \in 1 .. puts /\ Sound(h, i)
    BY <2>1 DEF Inv, Stored
  <2>3. i \in 1 .. puts' /\ asked'[i] = asked[i]
    BY <1>1, <2>2
  <2>4. QED
    BY <2>2, <2>3 DEF Sound
<1>3. ASSUME NEW v \in Slots, Origin(v)' \in Ids
      PROVE  Data(v)' \in {None, Origin(v)'}
  <2>1. Origin(v)' \in {Origin(v), None} /\ Data(v)' \in {Data(v), None}
    BY DEF Loses, Origin, Data, Handlers
  <2>2. QED
    BY <1>1, <1>3, <2>1 DEF Inv, OwnOrigin, Parameters
<1>4. Stored'
  BY <1>2 DEF Stored, Sound
<1>5. QED
  BY <1>3, <1>4 DEF OwnOrigin

(* A step of the thread t that serves a request.                           *)
Others(t) == \A u \in Threads : u # t => put'[u] = put[u]

Records == [at : Steps, id : Nat, slot : Nat, code : Nat]

Cells == [Handlers -> [Slots -> Ids \cup {None, Empty}]]

LEMMA Acting ==
  ASSUME Inv, NEW t \in Threads, ~At(t, "idle")
  PROVE  \E i \in 1 .. puts, h \in Handlers, v \in Nat, at \in Steps :
           /\ i = put[t].id /\ v = put[t].slot /\ at = put[t].at
           /\ h = Handler(t) /\ asked[i] \in RequestType /\ h = asked[i].handler
           /\ Serving(t, h, i, at, v)
<1>1. /\ put[t] \in Records /\ puts \in Nat
      /\ Serving(t, Handler(t), put[t].id, put[t].at, put[t].slot)
  BY DEF Inv, Types, Claim, Records
<1>2. put[t].id \in 1 .. puts
  BY <1>1 DEF Serving
<1>3. asked[put[t].id] \in RequestType
  BY <1>2 DEF Inv, Types
<1>4. Handler(t) \in Handlers
  BY <1>3 DEF Handler, RequestType
<1>5. QED
  BY <1>1, <1>2, <1>3, <1>4 DEF Records, Handler

LEMMA ThreadStep ==
  ASSUME Inv, NEW t \in Threads, NEW h \in Handlers, NEW i \in 1 .. puts,
         h = asked[i].handler, UNCHANGED <<asked, puts>>,
         put' \in [Threads -> Records], Others(t),
         file' \in Cells, mark' \in Cells, DOMAIN lock' = Handlers,
         Adds(t, h), \A g \in Handlers : lock'[g] = lock[g] \/ lock[g] \in {t, Nobody},
         Stored', OwnOrigin',
         \/ put'[t].at = "idle"
         \/ /\ put'[t].id = i
            /\ \A at, v : at = put'[t].at /\ v = put'[t].slot => Serving(t, h, i, at, v)'
  PROVE  Inv'
<1>1. Types'
  BY DEF Inv, Types, Parameters, Records, Cells
<1>2. ASSUME NEW u \in Threads, u # t PROVE Claim(u)'
  BY <1>2, OthersKeep DEF Others, Inv, Types
<1>3. Claim(t)'
  <2>1. CASE put'[t].at = "idle"
    BY <2>1 DEF Claim, At
  <2>2. CASE /\ put'[t].id = i
             /\ \A at, v : at = put'[t].at /\ v = put'[t].slot =>
                             Serving(t, h, i, at, v)'
    <3>1. PICK at, v : at = put'[t].at /\ v = put'[t].slot
      OBVIOUS
    <3>2. Serving(t, h, i, at, v)' /\ Handler(t)' = h
      BY <2>2, <3>1 DEF Handler
    <3>3. QED
      BY <2>2, <3>1, <3>2 DEF Claim
  <2>3. QED
    BY <2>1, <2>2
<1>4. QED
  BY <1>1, <1>2, <1>3 DEF Inv

(* A step that goes on without writing a name.                             *)
LEMMA LosingStep ==
  ASSUME Inv, NEW t \in Threads, NEW h \in Handlers, NEW i \in 1 .. puts,
         h = asked[i].handler, UNCHANGED <<asked, puts>>,
         put' \in [Threads -> Records], Others(t),
         file' \in Cells, mark' \in Cells, DOMAIN lock' = Handlers, Loses,
         \A g \in Handlers : lock'[g] = lock[g] \/ lock[g] \in {t, Nobody},
         \/ put'[t].at = "idle"
         \/ /\ put'[t].id = i
            /\ \A at, v : at = put'[t].at /\ v = put'[t].slot => Serving(t, h, i, at, v)'
  PROVE  Inv'
<1>1. Adds(t, h)
  BY DEF Loses, Adds
<1>2. Stored' /\ OwnOrigin'
  BY LosesKeep DEF Inv, Types
<1>3. QED
  BY <1>1, <1>2, ThreadStep

Changed(f, h, v, x) == [f EXCEPT ![h][v] = x]

LEMMA SomeCell ==
  ASSUME NEW f \in Cells, NEW h \in Handlers, NEW v, NEW x \in Ids \cup {None, Empty}
  PROVE  /\ Changed(f, h, v, x) \in Cells
         /\ \A k \in Handlers, w \in Slots :
              Changed(f, h, v, x)[k][w] = IF k = h /\ w = v THEN x ELSE f[k][w]
<1>1. Changed(f, h, v, x) = [k \in Handlers |-> IF k = h THEN [f[h] EXCEPT ![v] = x] ELSE f[k]]
  BY DEF Cells, Changed
<1>2. \A k \in Handlers : f[k] \in [Slots -> Ids \cup {None, Empty}]
  BY DEF Cells
<1>3. [f[h] EXCEPT ![v] = x] \in [Slots -> Ids \cup {None, Empty}]
  BY <1>2
<1>4. QED
  BY <1>1, <1>2, <1>3 DEF Cells

LEMMA GotoStep ==
  ASSUME put \in [Threads -> Records], NEW t \in Threads, NEW to \in Steps, Goto(t, to)
  PROVE  /\ put' \in [Threads -> Records] /\ Others(t)
         /\ put'[t].at = to /\ put'[t].id = put[t].id /\ put'[t].slot = put[t].slot
  BY DEF Goto, Others, Records

LEMMA FinishStep ==
  ASSUME put \in [Threads -> Records], NEW t \in Threads, NEW status, Finish(t, status)
  PROVE  put' \in [Threads -> Records] /\ Others(t) /\ put'[t].at = "idle"
<1>1. Idle \in Records /\ Idle.at = "idle"
  BY DEF Idle, Records, Steps, OK
<1>2. put' = [put EXCEPT ![t] = Idle]
  BY DEF Finish
<1> QED
  BY <1>1, <1>2 DEF Others

LEMMA GiveUpStep ==
  ASSUME put \in [Threads -> Records], NEW t \in Threads, NEW code \in Nat,
         GiveUp(t, code)
  PROVE  /\ put' \in [Threads -> Records] /\ Others(t)
         /\ put'[t].at = "fail" /\ put'[t].id = put[t].id /\ put'[t].slot = put[t].slot
  BY DEF GiveUp, Others, Records, Steps

------------------------------------------------------------------------------
(* The steps of a handler                                                  *)

LEMMA BeginInv ==
  ASSUME Inv, NEW t \in Threads, NEW r \in Requests, Begin(t, r)
  PROVE  Inv'
<1> DEFINE i == puts + 1
<1>1. /\ Types /\ puts \in Nat /\ puts < MaxPuts /\ MaxPuts \in Nat
      /\ i \in Ids /\ At(t, "idle") /\ r \in RequestType
      /\ put \in [Threads -> Records]
  <2>1. /\ Types /\ MaxPuts \in Nat /\ puts \in 0 .. MaxPuts
        /\ Requests \subseteq RequestType /\ put \in [Threads -> Records]
    BY DEF Inv, Types, Parameters, Records
  <2>2. At(t, "idle") /\ puts < MaxPuts
    BY DEF Begin
  <2>3. QED
    BY <2>1, <2>2 DEF Ids
<1>2. /\ puts' = i /\ asked' = [asked EXCEPT ![i] = r]
      /\ UNCHANGED <<file, mark, lock>>
      /\ \/ put' = put
         \/ put' = [put EXCEPT ![t] = [at |-> IF r.handler = "snapshot" THEN "seek"
                                              ELSE "lock",
                                       id |-> i, slot |-> 1, code |-> OK]]
  BY DEF Begin, disk
<1>3. \A j \in 1 .. puts : asked'[j] = asked[j]
  BY <1>1, <1>2 DEF Types
<1>4. asked'[i] = r /\ DOMAIN asked' = Ids
  BY <1>1, <1>2 DEF Types
<1>5. put' \in [Threads -> Records] /\ Others(t)
  BY <1>1, <1>2 DEF Records, Steps, OK, Others
<1>6. Types'
  <2>1. \A j \in 1 .. puts' : asked'[j] \in RequestType
    BY <1>1, <1>2, <1>3, <1>4 DEF Types
  <2>2. puts' \in 0 .. MaxPuts
    BY <1>1, <1>2
  <2>3. QED
    BY <1>1, <1>2, <1>4, <1>5, <2>1, <2>2 DEF Types, Parameters, Records
<1>7. Stored' /\ OwnOrigin'
  BY <1>1, <1>2, <1>3, LosesKeep DEF Loses
<1>8. ASSUME NEW u \in Threads, u # t PROVE Claim(u)'
  <2>1. Adds(t, "data") /\ "data" \in Handlers
    BY <1>2 DEF Adds, Handlers
  <2>2. /\ \A g \in Handlers : lock'[g] = lock[g]
        /\ put'[u] = put[u] /\ puts' \in Nat /\ puts <= puts'
    BY <1>1, <1>2, <1>5, <1>8 DEF Others
  <2>3. QED
    BY <1>3, <1>8, <2>1, <2>2, OthersKeep
<1>9. Claim(t)'
  <2>1. CASE put' = put
    BY <1>1, <2>1 DEF Claim, At
  <2>2. CASE put' = [put EXCEPT ![t] = [at |-> IF r.handler = "snapshot" THEN "seek"
                                               ELSE "lock",
                                        id |-> i, slot |-> 1, code |-> OK]]
    <3>1. /\ put'[t].at = IF r.handler = "snapshot" THEN "seek" ELSE "lock"
          /\ put'[t].id = i /\ Handler(t)' = r.handler
      BY <1>1, <1>4, <2>2 DEF Handler
    <3>2. r.handler \in Handlers
      BY <1>1 DEF RequestType
    <3>3. ASSUME NEW at, NEW h \in Handlers, NEW v, NEW j, j = i,
                 \/ at = "lock"
                 \/ at = "seek" /\ h = "snapshot"
          PROVE  Serving(t, h, j, at, v)'
      BY <1>1, <1>2, <3>3 DEF Serving, Locked, Writing, Moved, Version, Handlers
    <3>4. QED
      BY <3>1, <3>2, <3>3 DEF Claim
  <2>3. QED
    BY <1>2, <2>1, <2>2
<1>10. QED
  BY <1>6, <1>7, <1>8, <1>9 DEF Inv

(* The steps that write no names.                                          *)
LEMMA AtWork ==
  ASSUME Inv
  PROVE  /\ Types /\ put \in [Threads -> Records] /\ file \in Cells /\ mark \in Cells
         /\ DOMAIN lock = Handlers /\ puts \in Nat
         /\ UNCHANGED <<file, mark>> => Loses
  BY DEF Inv, Types, Records, Cells, Loses

LEMMA QuietStep ==
  ASSUME Inv, NEW t \in Threads, NEW h \in Handlers, NEW i \in 1 .. puts,
         h = asked[i].handler, UNCHANGED <<asked, puts, file, mark>>,
         put' \in [Threads -> Records], Others(t), DOMAIN lock' = Handlers,
         \A g \in Handlers : lock'[g] = lock[g] \/ lock[g] \in {t, Nobody},
         \/ put'[t].at = "idle"
         \/ /\ put'[t].id = i
            /\ \A at, v : at = put'[t].at /\ v = put'[t].slot => Serving(t, h, i, at, v)'
  PROVE  Inv'
  BY AtWork, LosingStep

(* A step of a thread to another of its steps.                             *)
LEMMA GoOn ==
  ASSUME Inv, NEW t \in Threads, NEW i \in 1 .. puts, NEW h \in Handlers, NEW v,
         i = put[t].id, v = put[t].slot, h = asked[i].handler,
         NEW to \in Steps, Goto(t, to), Serving(t, h, i, to, v),
         UNCHANGED <<file, mark, lock, asked, puts>>
  PROVE  Inv'
<1>1. /\ put' \in [Threads -> Records] /\ Others(t)
      /\ put'[t].at = to /\ put'[t].id = i /\ put'[t].slot = v
  BY AtWork, GotoStep
<1>2. Serving(t, h, i, to, v)'
  BY DEF Serving, Version, Sound, Data, Origin
<1>3. DOMAIN lock' = Handlers
  BY AtWork
<1>4. QED
  BY <1>1, <1>2, <1>3, QuietStep

(* The end of a request.                                                   *)
LEMMA FinishInv ==
  ASSUME Inv, NEW t \in Threads, ~At(t, "idle"), NEW status, Finish(t, status),
         Loses, file' \in Cells, mark' \in Cells, DOMAIN lock' = Handlers,
         \A g \in Handlers : lock'[g] = lock[g] \/ lock[g] \in {t, Nobody},
         UNCHANGED <<asked, puts>>
  PROVE  Inv'
<1>1. PICK i \in 1 .. puts, h \in Handlers : h = asked[i].handler
  BY Acting
<1>2. put' \in [Threads -> Records] /\ Others(t) /\ put'[t].at = "idle"
  BY AtWork, FinishStep
<1>3. QED
  BY <1>1, <1>2, LosingStep

(* What the except clause does after it gave the lock back.                *)
Cleaning == {"seeFile", "rmFile", "seeMark", "rmMark", "seeTemp"}

LEMMA CleanUp ==
  ASSUME Inv, NEW t \in Threads, ~At(t, "idle"), NEW to \in Cleaning, Goto(t, to),
         Loses, file' \in Cells, mark' \in Cells, DOMAIN lock' = Handlers,
         \A g \in Handlers : lock'[g] = lock[g] \/ lock[g] \in {t, Nobody},
         UNCHANGED <<asked, puts>>
  PROVE  Inv'
<1>1. PICK i \in 1 .. puts, h \in Handlers : i = put[t].id /\ h = asked[i].handler
  BY Acting
<1>2. /\ put' \in [Threads -> Records] /\ Others(t)
      /\ put'[t].at = to /\ put'[t].id = i
  BY <1>1, AtWork, GotoStep DEF Cleaning, Steps
<1>3. \A v : Serving(t, h, i, to, v)'
  BY DEF Serving, Locked, Writing, Moved, Version, Cleaning
<1>4. QED
  BY <1>1, <1>2, <1>3, LosingStep

LEMMA LockInv ==
  ASSUME Inv, NEW t \in Threads, Lock(t)
  PROVE  Inv'
<1>1. PICK i \in 1 .. puts, h \in Handlers, v \in Nat, at \in Steps :
           /\ i = put[t].id /\ v = put[t].slot /\ at = put[t].at
           /\ h = Handler(t) /\ asked[i] \in RequestType /\ h = asked[i].handler
           /\ Serving(t, h, i, at, v)
  BY Acting DEF Lock, At
<1>2. PICK to : to = CASE h = "data" -> "seek" [] h = "snapshot" -> "temp"
                       [] h = "layout" -> "truncate"
  BY SMTT(30)
<1>3. /\ at = "lock" /\ lock[h] = Nobody /\ lock' = [lock EXCEPT ![h] = t]
      /\ Goto(t, to) /\ UNCHANGED <<asked, puts, file, mark>>
  BY <1>1, <1>2 DEF Lock, At, disk
<1>4. to \in Steps
  BY <1>2 DEF Steps, Handlers
<1>5. /\ put' \in [Threads -> Records] /\ Others(t)
      /\ put'[t].at = to /\ put'[t].id = i
  BY <1>1, <1>3, <1>4, AtWork, GotoStep
<1>6. /\ DOMAIN lock' = Handlers /\ lock'[h] = t
      /\ \A g \in Handlers : lock'[g] = lock[g] \/ lock[g] \in {t, Nobody}
  BY <1>3, AtWork
<1>7. \A w : Serving(t, h, i, to, w)'
  BY <1>1, <1>2, <1>3, <1>6 DEF Serving, Locked, Writing, Moved, Version, Handlers
<1>8. QED
  BY <1>1, <1>3, <1>5, <1>6, <1>7, QuietStep

(* The search for a version.                                               *)
LEMMA SeekInv ==
  ASSUME Inv, NEW t \in Threads, SeekFile(t) \/ SeekMark(t)
  PROVE  Inv'
<1>1. PICK i \in 1 .. puts, h \in Handlers, v \in Nat, at \in Steps :
           /\ i = put[t].id /\ v = put[t].slot /\ at = put[t].at
           /\ h = Handler(t) /\ asked[i] \in RequestType /\ h = asked[i].handler
           /\ Serving(t, h, i, at, v)
  BY Acting DEF SeekFile, SeekMark, At
<1>2. /\ UNCHANGED <<file, mark, lock, asked, puts>> /\ h = "data" /\ lock[h] = t
      /\ i \in 1 .. puts
  BY <1>1 DEF SeekFile, SeekMark, disk, RestOfPut, At, Serving, Locked
<1>3. ASSUME NEW to \in {"seekMark", "temp"}, Goto(t, to),
             v \in Slots => /\ Data(v) = None
                            /\ to = "temp" => Origin(v) = None
      PROVE  Inv'
  <2>1. Serving(t, h, i, to, v)
    BY <1>2, <1>3 DEF Serving, Version, Writing, Moved
  <2>2. to \in Steps
    BY <1>3 DEF Steps
  <2>3. QED
    BY <1>1, <1>2, <1>3, <2>1, <2>2, GoOn
<1>4. ASSUME put' = [put EXCEPT ![t].at = "seek", ![t].slot = v + 1]
      PROVE  Inv'
  <2>1. /\ put' \in [Threads -> Records] /\ Others(t)
        /\ put'[t].at = "seek" /\ put'[t].id = i
    BY <1>1, <1>4, AtWork DEF Records, Steps, Others
  <2>2. \A w : Serving(t, h, i, "seek", w)'
    BY <1>2 DEF Serving, Version, Writing, Moved
  <2>3. DOMAIN lock' = Handlers /\ \A g \in Handlers : lock'[g] = lock[g] \/ lock[g] \in {t, Nobody}
    BY <1>2, AtWork
  <2>4. \A a, w : a = put'[t].at /\ w = put'[t].slot => Serving(t, h, i, a, w)'
    BY <2>1, <2>2
  <2>5. h = asked[i].handler /\ UNCHANGED <<asked, puts, file, mark>>
    BY <1>1, <1>2
  <2>6. QED
    BY <2>1, <2>3, <2>4, <2>5, QuietStep
<1>5. CASE SeekFile(t)
  <2>1. CASE File(t) = None
    <3>1. Goto(t, "seekMark") /\ (v \in Slots => Data(v) = None)
      BY <1>1, <1>2, <1>5, <2>1 DEF SeekFile, File, Data
    <3>2. QED
      BY <1>3, <3>1
  <2>2. CASE File(t) # None
    <3>1. put' = [put EXCEPT ![t].slot = v + 1] /\ put[t].at = "seek"
      BY <1>1, <1>5, <2>2 DEF SeekFile, At
    <3>2. put' = [put EXCEPT ![t].at = "seek", ![t].slot = v + 1]
      BY <3>1, AtWork DEF Records
    <3>3. QED
      BY <1>4, <3>2
  <2>3. QED
    BY <2>1, <2>2
<1>6. CASE SeekMark(t)
  <2>1. CASE Mark(t) = None
    <3>1. Goto(t, "temp") /\ (v \in Slots => Origin(v) = None)
      BY <1>1, <1>2, <1>6, <2>1 DEF SeekMark, Mark, Origin
    <3>2. v \in Slots => Data(v) = None
      BY <1>1, <1>2, <1>6 DEF SeekMark, At, Serving, Version
    <3>3. QED
      BY <1>3, <3>1, <3>2
  <2>2. CASE Mark(t) # None
    BY <1>1, <1>4, <1>6, <2>2 DEF SeekMark
  <2>3. QED
    BY <2>1, <2>2
<1>7. QED
  BY <1>5, <1>6

LEMMA RefuseInv ==
  ASSUME Inv, NEW t \in Threads, RefuseTaken(t)
  PROVE  Inv'
<1>1. PICK i \in 1 .. puts, h \in Handlers, v \in Nat, at \in Steps :
           /\ i = put[t].id /\ v = put[t].slot /\ at = put[t].at
           /\ h = Handler(t) /\ asked[i] \in RequestType /\ h = asked[i].handler
           /\ Serving(t, h, i, at, v)
  BY Acting DEF RefuseTaken, At
<1>2. /\ UNCHANGED <<file, mark, lock, asked, puts>> /\ h = "snapshot" /\ ~At(t, "idle")
      /\ \/ Finish(t, ErrorExists) \/ Goto(t, "seekMark") \/ Goto(t, "lock")
  BY <1>1 DEF RefuseTaken, disk, At
<1>3. CASE Finish(t, ErrorExists)
  BY <1>2, <1>3, AtWork, FinishInv
<1>4. ASSUME NEW to \in {"seekMark", "lock"}, Goto(t, to)
      PROVE  Inv'
  <2>1. Serving(t, h, i, to, v) /\ to \in Steps
    BY <1>2, <1>4 DEF Serving, Version, Writing, Moved, Locked, Steps
  <2>2. QED
    BY <1>1, <1>2, <1>4, <2>1, GoOn
<1>5. QED
  BY <1>2, <1>3, <1>4

LEMMA TempInv ==
  ASSUME Inv, NEW t \in Threads, MakeTemp(t) \/ Write(t)
  PROVE  Inv'
<1>1. PICK i \in 1 .. puts, h \in Handlers, v \in Nat, at \in Steps :
           /\ i = put[t].id /\ v = put[t].slot /\ at = put[t].at
           /\ h = Handler(t) /\ asked[i] \in RequestType /\ h = asked[i].handler
           /\ Serving(t, h, i, at, v)
  BY Acting DEF MakeTemp, Write, At
<1>2. /\ UNCHANGED <<file, mark, lock, asked, puts>> /\ at \in Writing
      /\ Goto(t, "write") \/ Goto(t, "verify")
  BY <1>1 DEF MakeTemp, Write, disk, RestOfPut, At, Writing
<1>3. ASSUME NEW to \in {"write", "verify"}, Goto(t, to)
      PROVE  Inv'
  <2>1. Serving(t, h, i, to, v) /\ to \in Steps
    BY <1>1, <1>2, <1>3 DEF Serving, Version, Writing, Moved, Locked, Steps
  <2>2. QED
    BY <1>1, <1>2, <1>3, <2>1, GoOn
<1>4. QED
  BY <1>2, <1>3

(* The handler raises: it has the lock until the except clause.            *)
LEMMA GiveUpInv ==
  ASSUME Inv, NEW t \in Threads,
         put[t].at \in Writing \cup Moved \cup {"truncate"},
         NEW code \in Nat, GiveUp(t, code), UNCHANGED <<mark, lock, asked, puts>>,
         file' \in Cells, Adds(t, Handler(t)), Stored', OwnOrigin'
  PROVE  Inv'
<1>1. PICK i \in 1 .. puts, h \in Handlers, v \in Nat, at \in Steps :
           /\ i = put[t].id /\ v = put[t].slot /\ at = put[t].at
           /\ h = Handler(t) /\ asked[i] \in RequestType /\ h = asked[i].handler
           /\ Serving(t, h, i, at, v)
  BY Acting DEF At, Writing, Moved
<1>2. /\ put' \in [Threads -> Records] /\ Others(t)
      /\ put'[t].at = "fail" /\ put'[t].id = i
  BY <1>1, AtWork, GiveUpStep
<1>3. lock[h] = t
  BY <1>1 DEF Serving, Locked
<1>4. \A w : Serving(t, h, i, "fail", w)'
  BY <1>3 DEF Serving, Version, Writing, Moved
<1>5. mark' \in Cells /\ DOMAIN lock' = Handlers
  BY AtWork
<1>6. QED
  BY <1>1, <1>2, <1>4, <1>5, ThreadStep

LEMMA VerifyInv ==
  ASSUME Inv, NEW t \in Threads, Verify(t)
  PROVE  Inv'
<1>1. PICK i \in 1 .. puts, h \in Handlers, v \in Nat, at \in Steps :
           /\ i = put[t].id /\ v = put[t].slot /\ at = put[t].at
           /\ h = Handler(t) /\ asked[i] \in RequestType /\ h = asked[i].handler
           /\ Serving(t, h, i, at, v)
  BY Acting DEF Verify, At
<1>2. PICK code : code = IF h = "data" THEN DataBody(asked[i].body)
                                       ELSE SnapshotBody(asked[i].body)
  OBVIOUS
<1>3. /\ UNCHANGED <<file, mark, lock, asked, puts>> /\ at = "verify"
      /\ IF code = OK THEN Goto(t, "move") ELSE GiveUp(t, code)
  BY <1>1, <1>2 DEF Verify, disk, RestOfPut, At
<1>4. code \in Nat /\ (code = OK => Sound(h, i))
  <2>1. asked[i].body \in {"whole", "short", "foreign"}
    BY <1>1 DEF RequestType
  <2>2. QED
    BY <1>2, <2>1 DEF DataBody, SnapshotBody, Sound, OK, FailExecute, ErrorParameter
<1>5. CASE code = OK
  <2>1. Serving(t, h, i, "move", v) /\ "move" \in Steps
    BY <1>1, <1>3, <1>4, <1>5 DEF Serving, Version, Writing, Moved, Locked, Steps
  <2>2. QED
    BY <1>1, <1>3, <1>5, <2>1, GoOn
<1>6. CASE code # OK
  <2>1. Adds(t, Handler(t)) /\ Stored' /\ OwnOrigin' /\ file' \in Cells
    BY <1>1, <1>3, AtWork, LosesKeep DEF Adds
  <2>2. QED
    BY <1>1, <1>3, <1>4, <1>6, <2>1, GiveUpInv DEF Writing
<1>7. QED
  BY <1>5, <1>6

LEMMA RaiseInv ==
  ASSUME Inv, NEW t \in Threads, Raise(t)
  PROVE  Inv'
<1>1. /\ UNCHANGED <<file, mark, lock, asked, puts>> /\ GiveUp(t, FailExecute)
      /\ put[t].at \in Writing \cup Moved \cup {"truncate"}
  BY DEF Raise, disk, Writing, Moved
<1>2. Adds(t, Handler(t)) /\ Stored' /\ OwnOrigin' /\ file' \in Cells
  BY <1>1, AtWork, LosesKeep DEF Adds
<1>3. FailExecute \in Nat
  BY DEF FailExecute
<1>4. QED
  BY <1>1, <1>2, <1>3, GiveUpInv

LEMMA TruncateInv ==
  ASSUME Inv, NEW t \in Threads, Truncate(t)
  PROVE  Inv'
<1>1. PICK i \in 1 .. puts, h \in Handlers, v \in Nat, at \in Steps :
           /\ i = put[t].id /\ v = put[t].slot /\ at = put[t].at
           /\ h = Handler(t) /\ asked[i] \in RequestType /\ h = asked[i].handler
           /\ Serving(t, h, i, at, v)
  BY Acting DEF Truncate, At
<1>2. /\ UNCHANGED <<mark, lock, asked, puts>> /\ GiveUp(t, FailExecute)
      /\ file' = Changed(file, h, v, Empty) /\ at = "truncate"
  BY <1>1 DEF Truncate, PutFile, Changed, RestOfPut, At
<1>3. /\ file' \in Cells
      /\ \A k \in Handlers, w \in Slots :
           file'[k][w] = IF k = h /\ w = v THEN Empty ELSE file[k][w]
  BY <1>2, AtWork, SomeCell
<1>4. lock[h] = t
  BY <1>1, <1>2 DEF Serving, Locked
<1>5. Adds(t, Handler(t))
  BY <1>1, <1>2, <1>3, <1>4 DEF Adds
<1>6. Stored'
  BY <1>2, <1>3 DEF Inv, Stored, Handlers, Types, Parameters, Sound
<1>7. OwnOrigin'
  BY <1>1, <1>2, <1>3 DEF Inv, OwnOrigin, Handlers, Data, Origin, Serving
<1>8. put[t].at \in Writing \cup Moved \cup {"truncate"} /\ FailExecute \in Nat
  BY <1>1, <1>2, SMTT(30) DEF FailExecute
<1>9. QED
  BY <1>2, <1>3, <1>5, <1>6, <1>7, <1>8, GiveUpInv

(* The file gets its name, then its marker.                                *)
LEMMA MoveInv ==
  ASSUME Inv, NEW t \in Threads, Move(t)
  PROVE  Inv'
<1>1. PICK i \in 1 .. puts, h \in Handlers, v \in Nat, at \in Steps :
           /\ i = put[t].id /\ v = put[t].slot /\ at = put[t].at
           /\ h = Handler(t) /\ asked[i] \in RequestType /\ h = asked[i].handler
           /\ Serving(t, h, i, at, v)
  BY Acting DEF Move, At
<1>2. /\ UNCHANGED <<mark, lock, asked, puts>> /\ Goto(t, "mark")
      /\ file' = Changed(file, h, v, i) /\ at = "move"
  BY <1>1 DEF Move, PutFile, Changed, RestOfPut, At
<1>3. /\ lock[h] = t /\ h # "layout" /\ Sound(h, i) /\ i \in Ids
      /\ h = "data" /\ v \in Slots => Data(v) = None /\ Origin(v) = None
  <2>1. MaxPuts \in Nat /\ puts \in 0 .. MaxPuts
    BY DEF Inv, Types, Parameters
  <2>2. QED
    BY <1>1, <1>2, <2>1 DEF Serving, Locked, Writing, Version, Ids
<1>4. /\ file' \in Cells /\ mark' \in Cells
      /\ \A k \in Handlers, w \in Slots :
           file'[k][w] = IF k = h /\ w = v THEN i ELSE file[k][w]
  BY <1>2, <1>3, AtWork, SomeCell
<1>5. Adds(t, h)
  BY <1>2, <1>3, <1>4 DEF Adds
<1>6. Stored'
  <2> SUFFICES ASSUME NEW k \in {"data", "snapshot"}, NEW w \in Slots, NEW j \in Ids,
                      j = file'[k][w]
               PROVE  j \in 1 .. puts' /\ Sound(k, j)'
    BY DEF Stored, Sound
  <2>1. k \in Handlers /\ asked' = asked /\ puts' = puts
    BY <1>2 DEF Handlers
  <2>2. CASE k = h /\ w = v
    BY <1>3, <1>4, <2>1, <2>2 DEF Sound
  <2>3. CASE ~(k = h /\ w = v)
    BY <1>4, <2>1, <2>3 DEF Inv, Stored, Sound
  <2>4. QED
    BY <2>2, <2>3
<1>7. OwnOrigin'
  BY <1>2, <1>3, <1>4 DEF Inv, OwnOrigin, Handlers, Data, Origin, Types, Parameters
<1>8. /\ put' \in [Threads -> Records] /\ Others(t)
      /\ put'[t].at = "mark" /\ put'[t].id = i /\ put'[t].slot = v
  BY <1>1, <1>2, AtWork, GotoStep DEF Steps
<1>9. Serving(t, h, i, "mark", v)'
  <2>1. h = "data" /\ v \in Slots => Data(v)' = i /\ Origin(v)' = None
    BY <1>2, <1>3, <1>4 DEF Data, Origin
  <2>2. Sound(h, i)'
    BY <1>2, <1>3 DEF Sound
  <2>3. QED
    BY <1>1, <1>2, <1>3, <2>1, <2>2
       DEF Serving, Version, Writing, Moved, Locked, Inv, Types, Parameters
<1>10. DOMAIN lock' = Handlers
  BY <1>2, AtWork, SMTT(30)
<1>11. QED
  BY <1>1, <1>2, <1>4, <1>5, <1>6, <1>7, <1>8, <1>9, <1>10, ThreadStep

LEMMA MarkInv ==
  ASSUME Inv, NEW t \in Threads, OpenMark(t) \/ Describe(t)
  PROVE  Inv'
<1>1. PICK i \in 1 .. puts, h \in Handlers, v \in Nat, at \in Steps :
           /\ i = put[t].id /\ v = put[t].slot /\ at = put[t].at
           /\ h = Handler(t) /\ asked[i] \in RequestType /\ h = asked[i].handler
           /\ Serving(t, h, i, at, v)
  BY Acting, SMTT(30) DEF OpenMark, Describe, At
<1>2. PICK x, to :
        /\ UNCHANGED <<file, lock, asked, puts>> /\ Goto(t, to)
        /\ mark' = Changed(mark, h, v, x) /\ at \in {"mark", "describe"}
        /\ \/ x = Empty /\ to = "describe"
           \/ x = i /\ to = "unlock"
  BY <1>1 DEF OpenMark, Describe, PutMark, Changed, RestOfPut, At
<1>3. /\ lock[h] = t /\ h # "layout" /\ Sound(h, i) /\ i \in Ids /\ to \in Steps
      /\ x \in Ids \cup {None, Empty}
      /\ h = "data" /\ v \in Slots => Data(v) \in {None, i}
  <2>1. MaxPuts \in Nat /\ puts \in 0 .. MaxPuts
    BY DEF Inv, Types, Parameters
  <2>2. QED
    BY <1>1, <1>2, <2>1 DEF Serving, Locked, Moved, Version, Ids, Steps
<1>4. /\ file' \in Cells /\ mark' \in Cells
      /\ \A k \in Handlers, w \in Slots :
           mark'[k][w] = IF k = h /\ w = v THEN x ELSE mark[k][w]
  BY <1>2, <1>3, AtWork, SomeCell
<1>5. Adds(t, h)
  BY <1>2, <1>3, <1>4 DEF Adds
<1>6. Stored'
  BY <1>2 DEF Inv, Stored, Sound
<1>7. OwnOrigin'
  BY <1>2, <1>3, <1>4 DEF Inv, OwnOrigin, Handlers, Data, Origin, Types, Parameters
<1>8. /\ put' \in [Threads -> Records] /\ Others(t)
      /\ put'[t].at = to /\ put'[t].id = i /\ put'[t].slot = v
  BY <1>1, <1>2, <1>3, AtWork, GotoStep
<1>9. Serving(t, h, i, to, v)'
  <2>1. h = "data" /\ v \in Slots => Data(v)' \in {None, i} /\ Origin(v)' = x
    BY <1>2, <1>3, <1>4 DEF Data, Origin
  <2>2. Sound(h, i)'
    BY <1>2, <1>3 DEF Sound
  <2>3. QED
    BY <1>1, <1>2, <1>3, <2>1, <2>2
       DEF Serving, Version, Writing, Moved, Locked, Inv, Types, Parameters
<1>10. DOMAIN lock' = Handlers
  BY <1>2, AtWork
<1>11. QED
  BY <1>1, <1>2, <1>4, <1>5, <1>6, <1>7, <1>8, <1>9, <1>10, ThreadStep

LEMMA EndInv ==
  ASSUME Inv, NEW t \in Threads, Succeed(t) \/ RemoveTemp(t)
  PROVE  Inv'
<1>1. /\ ~At(t, "idle") /\ UNCHANGED <<file, mark, asked, puts>>
      /\ \E status : Finish(t, status)
  BY DEF Succeed, RemoveTemp, disk, At
<1>2. /\ DOMAIN lock' = Handlers
      /\ \A g \in Handlers : lock'[g] = lock[g] \/ lock[g] \in {t, Nobody}
  <2>1. CASE RemoveTemp(t)
    BY <2>1, AtWork DEF RemoveTemp
  <2>2. CASE Succeed(t)
    <3>1. PICK i \in 1 .. puts, h \in Handlers, v \in Nat, at \in Steps :
               at = put[t].at /\ h = Handler(t) /\ Serving(t, h, i, at, v)
      BY <1>1, Acting
    <3>2. lock[h] = t /\ lock' = [lock EXCEPT ![h] = Nobody]
      BY <2>2, <3>1 DEF Succeed, Serving, Locked, Moved, At
    <3>3. QED
      BY <3>2, AtWork
  <2>3. QED
    BY <2>1, <2>2
<1>3. QED
  BY <1>1, <1>2, AtWork, FinishInv

LEMMA FailInv ==
  ASSUME Inv, NEW t \in Threads, Fail(t)
  PROVE  Inv'
<1>1. /\ ~At(t, "idle") /\ UNCHANGED <<file, mark, asked, puts>>
      /\ Goto(t, "seeFile")
  BY DEF Fail, disk, At
<1>2. PICK i \in 1 .. puts, h \in Handlers, v \in Nat, at \in Steps :
           at = put[t].at /\ h = Handler(t) /\ Serving(t, h, i, at, v)
  BY <1>1, Acting
<1>3. lock[h] = t /\ lock' = [lock EXCEPT ![h] = Nobody]
  BY <1>2 DEF Fail, Serving, Locked, At
<1>4. /\ DOMAIN lock' = Handlers
      /\ \A g \in Handlers : lock'[g] = lock[g] \/ lock[g] \in {t, Nobody}
  BY <1>3, AtWork
<1>5. QED
  BY <1>1, <1>4, AtWork, CleanUp DEF Cleaning

LEMMA SeeInv ==
  ASSUME Inv, NEW t \in Threads, SeeFile(t) \/ SeeMark(t)
  PROVE  Inv'
<1>1. /\ ~At(t, "idle") /\ UNCHANGED <<file, mark, lock, asked, puts>>
      /\ \E to \in Cleaning : Goto(t, to)
  BY DEF SeeFile, SeeMark, disk, RestOfPut, At, Cleaning
<1>2. QED
  BY <1>1, AtWork, CleanUp

(* The cleanup removes names of any upload; it adds none.                  *)
LEMMA RemoveInv ==
  ASSUME Inv, NEW t \in Threads, RemoveFile(t) \/ RemoveMark(t)
  PROVE  Inv'
<1>1. PICK h \in Handlers, v \in Nat : h = Handler(t) /\ v = put[t].slot
  BY Acting DEF RemoveFile, RemoveMark, At
<1>2. /\ ~At(t, "idle") /\ UNCHANGED <<lock, asked, puts>>
      /\ \/ \E status : Finish(t, status)
         \/ \E to \in Cleaning : Goto(t, to)
      /\ file' = file \/ file' = Changed(file, h, v, None)
      /\ mark' = mark \/ mark' = Changed(mark, h, v, None)
  BY <1>1 DEF RemoveFile, RemoveMark, PutFile, PutMark, Changed, At, Cleaning
<1>3. file' \in Cells /\ mark' \in Cells /\ Loses
  BY <1>2, AtWork, SomeCell DEF Loses
<1>4. DOMAIN lock' = Handlers
  BY <1>2, AtWork
<1>5. QED
  BY <1>2, <1>3, <1>4, FinishInv, CleanUp

------------------------------------------------------------------------------
(* The server dies, and the receive daemon                                 *)

LEMMA KillInv ==
  ASSUME Inv, Kill
  PROVE  Inv'
<1>1. /\ put' = [t \in Threads |-> Idle] /\ lock' = [h \in Handlers |-> Nobody]
      /\ UNCHANGED <<file, mark, asked, puts>>
  BY DEF Kill, disk
<1>2. Idle \in Records /\ Idle.at = "idle"
  BY DEF Idle, Records, Steps, OK
<1>3. Types'
  BY <1>1, <1>2 DEF Inv, Types, Parameters, Records
<1>4. Stored' /\ OwnOrigin'
  BY <1>1, AtWork, LosesKeep
<1>5. \A t \in Threads : Claim(t)'
  BY <1>1, <1>2 DEF Claim, At
<1>6. QED
  BY <1>3, <1>4, <1>5 DEF Inv

(* The daemon only takes names away.                                       *)
LEMMA ReceivingLoses ==
  ASSUME Inv, Receiving
  PROVE  /\ UNCHANGED <<lock, put, asked, puts>>
         /\ file' \in Cells /\ mark' \in Cells /\ Loses
<1>1. UNCHANGED <<lock, put, asked, puts>>
  BY DEF Receiving, Notice, LookAt, Examine, TakeFile, ForgetOrigin, Server
<1>2. \/ UNCHANGED <<file, mark>>
      \/ \E v : file' = Changed(file, "data", v, None) /\ UNCHANGED mark
      \/ \E v : mark' = Changed(mark, "data", v, None) /\ UNCHANGED file
  <2>1. CASE \E v \in Slots : Notice(v)
    BY <2>1 DEF Notice, disk
  <2>2. CASE LookAt
    BY <2>2 DEF LookAt, Spoil, Changed
  <2>3. CASE Examine
    BY <2>3 DEF Examine, Spoil, Changed
  <2>4. CASE TakeFile
    BY <2>4 DEF TakeFile, Changed
  <2>5. CASE ForgetOrigin
    BY <2>5 DEF ForgetOrigin, Spoil, Changed
  <2>6. QED
    BY <2>1, <2>2, <2>3, <2>4, <2>5 DEF Receiving
<1>3. "data" \in Handlers
  BY DEF Handlers
<1>4. QED
  BY <1>1, <1>2, <1>3, AtWork, SomeCell DEF Loses

LEMMA ReceivingInv ==
  ASSUME Inv, Receiving
  PROVE  Inv'
<1>1. /\ UNCHANGED <<lock, put, asked, puts>>
      /\ file' \in Cells /\ mark' \in Cells /\ Loses /\ puts \in Nat
  BY ReceivingLoses, AtWork
<1>2. Types'
  BY <1>1 DEF Inv, Types, Parameters, Cells
<1>3. Stored' /\ OwnOrigin'
  BY <1>1, LosesKeep
<1>4. ASSUME NEW u \in Threads PROVE Claim(u)'
  <2>1. Adds(Nobody, "data") /\ "data" \in Handlers
    BY <1>1 DEF Adds, Loses, Handlers
  <2>2. u # Nobody
    BY DEF Inv, Types, Parameters
  <2>3. QED
    BY <1>1, <2>1, <2>2, OthersKeep
<1>5. QED
  BY <1>2, <1>3, <1>4 DEF Inv

------------------------------------------------------------------------------
LEMMA NextInv == Inv /\ [Step]_vars => Inv'
<1> SUFFICES ASSUME Inv, [Step]_vars PROVE Inv'
  OBVIOUS
<1>1. ASSUME NEW t \in Threads, Answering(t) PROVE Inv'
  BY <1>1, LockInv, SeekInv, RefuseInv, TempInv, VerifyInv, MoveInv, MarkInv, EndInv,
     TruncateInv, FailInv, SeeInv, RemoveInv DEF Answering
<1>2. CASE UNCHANGED vars
  <2>1. UNCHANGED <<file, mark, lock, put, asked, puts>>
    BY <1>2 DEF vars
  <2>2. Types' /\ Stored' /\ OwnOrigin'
    BY <2>1 DEF Inv, Types, Parameters, Stored, Sound, OwnOrigin, Data, Origin
  <2>3. \A t \in Threads : Claim(t)'
    BY <2>1 DEF Inv, Claim, At, Handler, Serving, Version, Sound, Data, Origin
  <2>4. QED
    BY <2>2, <2>3 DEF Inv
<1>3. QED
  BY <1>1, <1>2, BeginInv, RaiseInv, KillInv, ReceivingInv DEF Step

LEMMA Invariance == Parameters /\ Spec => []Inv
BY InitInv, NextInv, PTL DEF Spec

(* What is under the final name of a data file or a snapshot is a whole    *)
(* body that passed the checks of its handler, whoever looks and whenever  *)
(* the server dies (DQMFileAccess.put and EVDSnapshotUpload.store).        *)
THEOREM WholeFiles ==
  ASSUME Parameters
  PROVE  Spec => []OnlyWholeFiles
<1>1. Inv => OnlyWholeFiles
  BY DEF Inv, Stored, Sound, OnlyWholeFiles
<1>2. QED
  BY <1>1, Invariance, PTL

(* The .origin of a data file never describes the data of another upload,  *)
(* although failed uploads clean up without the lock and the daemon takes  *)
(* the two files one by one (GUI.py, lines 255-306).                       *)
THEOREM OwnOrigins ==
  ASSUME Parameters
  PROVE  Spec => []OwnOrigin
<1>1. Inv => OwnOrigin
  BY DEF Inv
<1>2. QED
  BY <1>1, Invariance, PTL

(* No two uploads get the same version: no data file is ever renamed over  *)
(* another (the search for a version and the rename, GUI.py, lines         *)
(* 255-275).                                                               *)
THEOREM NothingOverwritten ==
  ASSUME Parameters
  PROVE  Spec => NeverOverwritten
<1> DEFINE Kept == \A v \in Slots : Data(v) # None => Data(v)' \in {Data(v), None}
<1>1. ASSUME Inv, [Step]_vars PROVE Kept
  <2>1. Loses => Kept
    BY DEF Loses, Handlers, Data
  <2>2. file' = file => Kept
    BY DEF Data
  <2>3. ASSUME NEW t \in Threads, Move(t) PROVE Kept
    <3>1. PICK i \in 1 .. puts, h \in Handlers, v \in Nat, at \in Steps :
             /\ i = put[t].id /\ v = put[t].slot /\ at = put[t].at
             /\ h = Handler(t) /\ Serving(t, h, i, at, v)
      BY <1>1, <2>3, Acting DEF Move, At
    <3>2. file' = Changed(file, h, v, i) /\ at = "move"
      BY <2>3, <3>1 DEF Move, PutFile, At, Changed
    <3>3. /\ i \in Ids
          /\ h = "data" /\ v \in Slots => Data(v) = None
      <4>1. MaxPuts \in Nat /\ puts \in 0 .. MaxPuts
        BY <1>1 DEF Inv, Types, Parameters
      <4>2. QED
        BY <3>1, <3>2, <4>1 DEF Serving, Writing, Version, Ids
    <3>4. \A k \in Handlers, w \in Slots :
             file'[k][w] = IF k = h /\ w = v THEN i ELSE file[k][w]
      BY <1>1, <3>2, <3>3, AtWork, SomeCell
    <3>5. QED
      BY <3>3, <3>4 DEF Data, Handlers
  <2>4. ASSUME NEW t \in Threads, Truncate(t) PROVE Kept
    <3>1. PICK i \in 1 .. puts, h \in Handlers, v \in Nat, at \in Steps :
             /\ i = put[t].id /\ v = put[t].slot /\ at = put[t].at
             /\ h = Handler(t) /\ Serving(t, h, i, at, v)
      BY <1>1, <2>4, Acting DEF Truncate, At
    <3>2. file' = Changed(file, h, v, Empty) /\ h = "layout"
      BY <2>4, <3>1 DEF Truncate, PutFile, At, Changed, Serving
    <3>3. \A k \in Handlers, w \in Slots :
             file'[k][w] = IF k = h /\ w = v THEN Empty ELSE file[k][w]
      BY <1>1, <3>2, AtWork, SomeCell
    <3>4. QED
      BY <3>2, <3>3 DEF Data, Handlers
  <2>5. ASSUME NEW t \in Threads, RemoveFile(t) PROVE Kept
    <3>1. PICK h \in Handlers, v \in Nat : h = Handler(t) /\ v = put[t].slot
      BY <1>1, <2>5, Acting DEF RemoveFile, At
    <3>2. file' = Changed(file, h, v, None)
      BY <2>5, <3>1 DEF RemoveFile, PutFile, Changed
    <3>3. QED
      BY <1>1, <3>2, AtWork, SomeCell DEF Data, Handlers
  <2>6. CASE \E t \in Threads : Answering(t) \/ Raise(t) \/ \E r \in Requests : Begin(t, r)
    BY <2>2, <2>3, <2>4, <2>5, <2>6
       DEF Answering, Raise, Begin, disk, RestOfPut, Lock, SeekFile, SeekMark,
           RefuseTaken, MakeTemp, Write, Verify, OpenMark, Describe, Succeed, Fail,
           SeeFile, SeeMark, RemoveMark, RemoveTemp
  <2>7. CASE Kill \/ UNCHANGED vars
    BY <2>2, <2>7 DEF Kill, disk, vars
  <2>8. CASE Receiving
    BY <1>1, <2>1, <2>8, ReceivingLoses
  <2>9. QED
    BY <1>1, <2>6, <2>7, <2>8 DEF Step
<1>2. QED
  BY <1>1, Invariance, PTL DEF Spec, NeverOverwritten
==============================================================================
