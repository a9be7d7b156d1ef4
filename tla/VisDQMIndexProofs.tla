-------------------------- MODULE VisDQMIndexProofs --------------------------
(***************************************************************************)
(* Proofs about the index of module VisDQMIndex: type correctness, and     *)
(* that the files of the committed catalogue are always on disk, with the  *)
(* lemmas about file numbers and catalogues they rest on.                  *)
(***************************************************************************)
EXTENDS VisDQMIndex, SequenceTheorems, WellFoundedInduction, TLAPS

------------------------------------------------------------------------------
(* Facts about the operators of the model                                  *)

(* Every non-empty set of naturals has a least element.                    *)
LEMMA LeastElement ==
  ASSUME NEW T \in SUBSET Nat, T # {}
  PROVE  \E x \in T : \A y \in T : x <= y
<1>1. \E x \in T : \A y \in T : <<y, x>> \notin OpToRel(<, Nat)
  BY NatLessThanWellFounded, WFMin
<1>2. PICK x \in T : \A y \in T : <<y, x>> \notin OpToRel(<, Nat)
  BY <1>1
<1>3. \A y \in T : ~(y < x)
  BY <1>2 DEF OpToRel
<1> QED
  BY <1>3

(* A function on 1 .. n is a sequence of length n.                         *)
LEMMA FunctionIsSeq ==
  ASSUME NEW S, NEW n \in Nat, NEW f \in [1 .. n -> S]
  PROVE  f \in Seq(S) /\ Len(f) = n
  OBVIOUS

(* The next version of a file number is another number of the same index.  *)
LEMMA NextVersionType ==
  ASSUME NEW f \in FileNo
  PROVE  /\ NextVersion(f) \in FileNo
         /\ NextVersion(f).idx = f.idx
         /\ NextVersion(f) # f
<1>1. Versions \in Nat /\ Versions > 1
  BY BoundsAssumption
<1>2. f.ver \in 0 .. (Versions - 1)
  BY DEF FileNo
<1>3. (f.ver + 1) % Versions \in 0 .. (Versions - 1)
  BY <1>1, <1>2
<1>4. (f.ver + 1) % Versions # f.ver
  <2>1. CASE f.ver + 1 < Versions
    BY <1>1, <1>2, <2>1
  <2>2. CASE f.ver + 1 = Versions
    BY <1>1, <1>2, <2>2
  <2> QED
    BY <1>1, <1>2, <2>1, <2>2
<1> QED
  BY <1>3, <1>4 DEF NextVersion, FileNo

(* contract() steps to a file number, if it does not carry too far.        *)
LEMMA ContractNumberType ==
  ASSUME NEW f \in FileNo, ContractNumber(f).idx <= MaxIndex
  PROVE  ContractNumber(f) \in FileNo
  BY BoundsAssumption DEF ContractNumber, FileNo

(* A sample record names file numbers.                                     *)
LEMMA FilesOfSamples ==
  ASSUME NEW list \in Seq(SampleRecord), NEW n \in DOMAIN list, NEW k \in Kinds
  PROVE  list[n].files[k] \in FileNo
<1>1. list[n] \in SampleRecord
  OBVIOUS
<1> QED
  BY <1>1 DEF SampleRecord

(* File numbers ordered as by NoLater have a last one.                    *)
LEMMA LastOfFiles ==
  ASSUME NEW S \in SUBSET FileNo, S # {}
  PROVE  \E f \in S : \A g \in S : NoLater(g, f)
<1> DEFINE rest(f) == MaxIndex - f.idx
           I == {rest(f) : f \in S}
<1>1. I \in SUBSET Nat /\ I # {}
  BY BoundsAssumption DEF FileNo
<1>2. PICK i \in I : \A j \in I : i <= j
  BY <1>1, LeastElement
<1>3. PICK f1 \in S : rest(f1) = i
  OBVIOUS
<1> DEFINE T == {g \in S : g.idx = f1.idx}
           left(g) == Versions - g.ver
           J == {left(g) : g \in T}
<1>4. J \in SUBSET Nat /\ J # {}
  BY BoundsAssumption DEF FileNo
<1>5. PICK j \in J : \A l \in J : j <= l
  BY <1>4, LeastElement
<1>6. PICK f \in T : left(f) = j
  OBVIOUS
<1>7. \A g \in S : NoLater(g, f)
  <2> SUFFICES ASSUME NEW g \in S PROVE NoLater(g, f)
    OBVIOUS
  <2>1. rest(f1) <= rest(g)
    BY <1>2, <1>3
  <2>2. g.idx <= f.idx
    BY <2>1, <1>6, BoundsAssumption DEF FileNo
  <2>3. CASE g.idx = f.idx
    <3>1. left(f) <= left(g)
      BY <1>5, <1>6, <2>3
    <3> QED
      BY <3>1, <2>3, <1>6, BoundsAssumption DEF FileNo, NoLater
  <2>4. CASE g.idx # f.idx
    BY <2>2, <2>4 DEF FileNo, NoLater
  <2> QED
    BY <2>3, <2>4
<1> QED
  BY <1>6, <1>7

(* LastFile is the last of the files a list of samples names, or the first *)
(* file if it names none.                                                  *)
LEMMA LastFileIsLast ==
  ASSUME NEW list \in Seq(SampleRecord), NEW k \in Kinds
  PROVE  /\ LastFile(list, k) \in FileNo
         /\ \/ LastFile(list, k) = FirstFile
            \/ \E n \in DOMAIN list : LastFile(list, k) = list[n].files[k]
         /\ \A n \in DOMAIN list : NoLater(list[n].files[k], LastFile(list, k))
<1> DEFINE named == {list[n].files[k] : n \in DOMAIN list} \cup {FirstFile}
<1>1. FirstFile \in FileNo
  BY BoundsAssumption DEF FirstFile, FileNo
<1>2. \A n \in DOMAIN list : list[n].files[k] \in FileNo
  BY FilesOfSamples
<1>3. named \in SUBSET FileNo /\ named # {}
  BY <1>1, <1>2
<1>4. \E f \in named : \A g \in named : NoLater(g, f)
  BY <1>3, LastOfFiles
<1>5. /\ LastFile(list, k) \in named
      /\ \A g \in named : NoLater(g, LastFile(list, k))
  BY <1>4 DEF LastFile
<1> QED
  BY <1>3, <1>5

(* Sharing moves exactly the samples of the rewritten files.               *)
LEMMA ShareType ==
  ASSUME NEW list \in Seq(SampleRecord), NEW target \in [Kinds -> FileNo]
  PROVE  /\ Share(list, target) \in Seq(SampleRecord)
         /\ Len(Share(list, target)) = Len(list)
         /\ \A n \in DOMAIN list, k \in Kinds :
              Share(list, target)[n].files[k] =
                IF list[n].files[k].idx = target[k].idx THEN target[k]
                                                        ELSE list[n].files[k]
<1> DEFINE moved(n) == [k \in Kinds |->
             IF list[n].files[k].idx = target[k].idx THEN target[k]
                                                     ELSE list[n].files[k]]
<1>1. \A n \in DOMAIN list : moved(n) \in [Kinds -> FileNo]
  BY FilesOfSamples
<1>2. \A n \in DOMAIN list : Share(list, target)[n] =
                                [list[n] EXCEPT !.files = moved(n)]
  BY DEF Share
<1>3. \A n \in DOMAIN list : /\ Share(list, target)[n] \in SampleRecord
                             /\ Share(list, target)[n].files = moved(n)
  <2> SUFFICES ASSUME NEW n \in DOMAIN list
               PROVE  /\ Share(list, target)[n] \in SampleRecord
                      /\ Share(list, target)[n].files = moved(n)
    OBVIOUS
  <2>1. list[n] \in SampleRecord
    OBVIOUS
  <2>2. moved(n) \in [Kinds -> FileNo]
    BY <1>1
  <2> HIDE DEF moved
  <2> QED
    BY <1>2, <2>1, <2>2 DEF SampleRecord
<1>4. Share(list, target) \in [1 .. Len(list) -> SampleRecord]
  <2>1. DOMAIN list = 1 .. Len(list)
    OBVIOUS
  <2>2. /\ DOMAIN Share(list, target) = DOMAIN list
        /\ Share(list, target) = [n \in DOMAIN list |-> Share(list, target)[n]]
    BY DEF Share
  <2> QED
    BY <1>3, <2>1, <2>2
<1>5. /\ Share(list, target) \in Seq(SampleRecord)
      /\ Len(Share(list, target)) = Len(list)
  BY <1>4, FunctionIsSeq
<1> QED
  BY <1>3, <1>5, ZenonT(60)

(* The files the transaction leaves its sample in.                         *)
Target == IF pos = 0 THEN [k \in Kinds |-> LastFile(cat, k)]
                     ELSE cat[pos].files

(* The target is one file number of each kind.                             *)
LEMMA TargetType ==
  ASSUME cat \in Seq(SampleRecord), pos \in 0 .. Len(cat)
  PROVE  Target \in [Kinds -> FileNo]
<1>1. CASE pos = 0
  BY <1>1, LastFileIsLast DEF Target
<1>2. CASE pos # 0
  <2>1. cat[pos] \in SampleRecord
    BY <1>2
  <2> QED
    BY <1>2, <2>1 DEF Target, SampleRecord
<1> QED
  BY <1>1, <1>2

(* The new catalogue is the shared list of samples.                        *)
LEMMA NewCatalogueType ==
  ASSUME cat \in Seq(SampleRecord), pos \in 0 .. Len(cat)
  PROVE  /\ NewCatalogue \in Seq(SampleRecord)
         /\ DOMAIN NewCatalogue = DOMAIN cat
         /\ \A n \in DOMAIN cat, k \in Kinds :
              NewCatalogue[n].files[k] = Share(cat, Target)[n].files[k]
<1> DEFINE shared == Share(cat, Target)
<1>1. shared \in Seq(SampleRecord) /\ Len(shared) = Len(cat)
  BY TargetType, ShareType
<1>2. NewCatalogue = IF op.op = "remove" /\ pos # 0
                     THEN [shared EXCEPT ![pos].shown = FALSE]
                     ELSE shared
  BY DEF NewCatalogue, Target
<1>3. CASE op.op = "remove" /\ pos # 0
  <2>1. shared[pos] \in SampleRecord /\ pos \in DOMAIN shared
    BY <1>1, <1>3
  <2>2. [shared[pos] EXCEPT !.shown = FALSE] \in SampleRecord
    BY <2>1 DEF SampleRecord
  <2>3. NewCatalogue = [shared EXCEPT ![pos] =
                           [shared[pos] EXCEPT !.shown = FALSE]]
    BY <1>2, <1>3, <2>1
  <2>4. [shared[pos] EXCEPT !.shown = FALSE].files = shared[pos].files
    BY <2>1 DEF SampleRecord
  <2> QED
    BY <1>1, <2>1, <2>2, <2>3, <2>4
<1>4. CASE ~(op.op = "remove" /\ pos # 0)
  BY <1>1, <1>2, <1>4
<1> QED
  BY <1>3, <1>4

------------------------------------------------------------------------------
(* Type correctness                                                        *)

Uncommitted == {"open", "write", "commit", "publish", "undo"}

(* How the generation, the transaction and the master catalogues relate.   *)
Control ==
  /\ gen <= ntx
  /\ master[gen] \in Seq(SampleRecord)
  /\ pc # "idle" => op \in Request /\ txgen < ntx
  /\ pc \in {"open", "write"} => pos # 0
  /\ pc \in Uncommitted => txgen = gen
  /\ pc \in {"dropmaster", "dropfiles"} => gen = txgen + 1
  /\ pc = "publish" => master[txgen + 1] \in Seq(SampleRecord)

TypeInv == TypeOK /\ Control

(* Writing and removing a file change that file only.                      *)
LEMMA WriteType ==
  ASSUME TypeOK, NEW f \in File, NEW entries \in SUBSET Entry, Write(f, entries)
  PROVE  /\ DOMAIN files' = DOMAIN files \cup {f}
         /\ DOMAIN files' \subseteq File /\ files' \in [DOMAIN files' -> SUBSET Entry]
         /\ \A g \in DOMAIN files : g # f => files'[g] = files[g]
  BY DEF TypeOK, Write

(* Removing a file leaves the others as they are.                          *)
LEMMA RemoveType ==
  ASSUME TypeOK, NEW f, Remove(f)
  PROVE  /\ DOMAIN files' = DOMAIN files \ {f}
         /\ DOMAIN files' \subseteq File /\ files' \in [DOMAIN files' -> SUBSET Entry]
         /\ \A g \in DOMAIN files' : files'[g] = files[g]
  BY DEF TypeOK, Remove

(* The bounds are numbers, and the usual members are there.                *)
LEMMA Bounds ==
  /\ Len(Imported) \in Nat /\ DOMAIN Imported = 1 .. Len(Imported)
  /\ Versions \in Nat /\ Versions > 1 /\ Versions >= Len(Imported)
  /\ MaxIndex \in Nat /\ MaxTx \in Nat /\ MaxCrashes \in Nat
  /\ Gens = 0 .. (Len(Imported) + MaxTx)
  /\ Stamps = 1 .. (Len(Imported) + MaxTx)
  /\ FirstFile \in FileNo
  /\ "info" \in Kinds /\ "data" \in Kinds
  BY SamplesAssumption, BoundsAssumption DEF Gens, Stamps, FirstFile, FileNo, Kinds

(* The index starts with a list of samples.                                *)
LEMMA PreloadedType == Preloaded \in Seq(SampleRecord)
<1>1. \A n \in DOMAIN Imported :
        [idx |-> 0, ver |-> Len(Imported) - 1] \in FileNo
  BY Bounds DEF FileNo
<1>2. Preloaded \in [1 .. Len(Imported) -> SampleRecord]
  BY <1>1, Bounds, SamplesAssumption DEF Preloaded, SampleRecord
<1> QED
  BY <1>2, Bounds, FunctionIsSeq

(* The invariant holds at the start.                                       *)
LEMMA TypeInit == Init => TypeInv
<1> SUFFICES ASSUME Init PROVE TypeInv
  OBVIOUS
<1> USE DEF Init
<1>1. gen \in Gens /\ ntx \in 0 .. (Len(Imported) + MaxTx)
  BY Bounds
<1>2. /\ master \in [Gens -> Seq(SampleRecord) \cup {Null}]
      /\ master[gen] \in Seq(SampleRecord)
  BY <1>1, PreloadedType
<1>3. NamedBy(Preloaded) \subseteq File
  <2>1. \A n \in DOMAIN Preloaded, k \in Kinds :
          Preloaded[n].files[k] \in FileNo
    BY PreloadedType, FilesOfSamples
  <2> QED
    BY <2>1 DEF NamedBy, File
<1>4. DOMAIN files \subseteq File /\ files \in [DOMAIN files -> SUBSET Entry]
  <2>1. {<<n, o, n>> : n \in DOMAIN Imported, o \in Objects} \in SUBSET Entry
    BY Bounds DEF Entry
  <2> QED
    BY <1>3, <2>1
<1>5. /\ cat \in Seq(SampleRecord) /\ pos \in 0 .. Len(cat)
      /\ txgen \in Gens /\ ncrashes \in 0 .. MaxCrashes
  BY Bounds
<1>6. /\ pc \in Phases /\ op \in Request \cup {Null} /\ kind \in Kinds
      /\ wfile \in FileNo
      /\ newfiles \in Seq(File) /\ oldfiles \in Seq(File)
  BY Bounds DEF Phases
<1>7. TypeOK
  BY <1>1, <1>2, <1>3, <1>4, <1>5, <1>6 DEF TypeOK
<1>8. Control
  BY <1>1, <1>2, Bounds DEF Control, Uncommitted
<1> QED
  BY <1>7, <1>8 DEF TypeInv

(* What a process that is gone leaves behind.                              *)
LEMMA ExitType ==
  ASSUME Exit
  PROVE  /\ pc' \in Phases /\ pc' = "idle" /\ op' \in Request \cup {Null}
         /\ txgen' \in Gens /\ cat' \in Seq(SampleRecord)
         /\ pos' \in 0 .. Len(cat') /\ kind' \in Kinds /\ wfile' \in FileNo
         /\ newfiles' \in Seq(File) /\ oldfiles' \in Seq(File)
  BY Bounds DEF Exit, Phases

(* A transaction that starts knows the generation, and touches no          *)
(* catalogue but the next one.                                             *)
LEMMA BeginType ==
  ASSUME TypeInv, NEW what \in Ops, NEW id \in Samples,
         NEW objs \in SUBSET Objects, BeginUpdate(what, id, objs)
  PROVE  /\ gen' \in Gens /\ gen' = gen
         /\ master' \in [Gens -> Seq(SampleRecord) \cup {Null}]
         /\ master'[gen'] \in Seq(SampleRecord) /\ master'[gen'] = master[gen]
         /\ op' \in Request /\ txgen' \in Gens /\ txgen' = gen'
         /\ ntx' \in 0 .. (Len(Imported) + MaxTx) /\ gen' < ntx'
<1> USE DEF BeginUpdate, TypeInv, TypeOK
<1>1. /\ ntx' = ntx + 1 /\ ntx' \in 0 .. (Len(Imported) + MaxTx)
      /\ gen' = gen /\ txgen' = gen /\ gen <= ntx
  BY Bounds, SMTT(30) DEF Control
<1>2. gen < ntx' /\ ntx' \in Stamps
  BY <1>1, Bounds, SMTT(30)
<1>3. op' \in Request
  BY <1>2 DEF Request
<1>4. /\ master' \in [Gens -> Seq(SampleRecord) \cup {Null}]
      /\ master'[gen] = master[gen]
  <2>1. gen # gen + 1
    BY Bounds, SMTT(30)
  <2>2. <<>> \in Seq(SampleRecord)
    OBVIOUS
  <2>3. master' = [master EXCEPT ![gen + 1] = <<>>]
    OBVIOUS
  <2> QED
    BY <2>1, <2>2, <2>3
<1>5. master[gen] \in Seq(SampleRecord)
  BY DEF Control
<1> QED
  BY <1>1, <1>2, <1>3, <1>4, <1>5

(* Starting a transaction on a good list keeps the invariant.              *)
LEMMA TypeBegin ==
  ASSUME TypeInv, NEW what \in Ops, NEW id \in Samples,
         NEW objs \in SUBSET Objects, BeginUpdate(what, id, objs),
         cat' \in Seq(SampleRecord), pos' \in 0 .. Len(cat'),
         accidents' \subseteq Accidents,
         \/ pc' = "commit"
         \/ pc' = "open" /\ pos' # 0
  PROVE  TypeInv'
<1>1. TypeOK'
  BY BeginType DEF TypeInv, TypeOK, BeginUpdate, Phases
<1>2. /\ master'[gen'] \in Seq(SampleRecord) /\ op' \in Request
      /\ txgen' = gen' /\ txgen' < ntx' /\ gen' <= ntx'
  BY BeginType, Bounds
<1>3. Control'
  BY <1>2 DEF Control, Uncommitted
<1> QED
  BY <1>1, <1>3 DEF TypeInv

(* The first of a set of sample numbers.                                   *)
LEMMA FirstPosition ==
  ASSUME NEW list \in Seq(SampleRecord), NEW id, Positions(list, id) # {}
  PROVE  /\ First(Positions(list, id)) \in 1 .. Len(list)
         /\ First(Positions(list, id)) # 0
<1>1. Positions(list, id) \in SUBSET Nat /\ Positions(list, id) \subseteq 1 .. Len(list)
  BY DEF Positions
<1>2. \E n \in Positions(list, id) : \A m \in Positions(list, id) : n <= m
  BY <1>1, LeastElement
<1>3. First(Positions(list, id)) \in Positions(list, id)
  BY <1>2 DEF First
<1> QED
  BY <1>1, <1>3

(* All four beginnings do.                                                 *)
LEMMA TypeBeginAny ==
  ASSUME TypeInv, NEW id \in Samples, NEW objs \in SUBSET Objects,
         \/ BeginAddNew(id, objs) \/ BeginAddAgain(id, objs)
         \/ BeginRemove(id) \/ BeginRemoveNothing(id)
  PROVE  TypeInv'
<1>1. master[gen] \in Seq(SampleRecord)
  BY DEF TypeInv, Control
<1>a. accidents' \subseteq Accidents
  <2>1. accidents' \in {accidents, accidents \cup {"leftover"}}
    BY DEF BeginAddNew, BeginAddAgain, BeginRemove, BeginRemoveNothing
  <2> QED
    BY <2>1 DEF TypeInv, TypeOK, Accidents
<1>2. CASE BeginAddNew(id, objs)
  <2> DEFINE place == [k \in Kinds |-> Place(master[gen], k)]
             record == [id |-> id, files |-> place, shown |-> TRUE]
  <2>1. \A k \in Kinds : Place(master[gen], k).idx <= MaxIndex
    BY <1>2 DEF BeginAddNew
  <2>2. \A k \in Kinds : Place(master[gen], k) \in FileNo
    <3> SUFFICES ASSUME NEW k \in Kinds PROVE Place(master[gen], k) \in FileNo
      OBVIOUS
    <3>1. LastFile(master[gen], k) \in FileNo
      BY <1>1, LastFileIsLast
    <3>2. Place(master[gen], k).idx <= MaxIndex
      BY <2>1
    <3> QED
      BY <3>1, <3>2, Bounds DEF Place, FileNo
  <2>3. record \in SampleRecord
    BY <2>2 DEF SampleRecord
  <2>4. cat' = Append(master[gen], record) /\ pos' = Len(master[gen]) + 1
    BY <1>2 DEF BeginAddNew
  <2>5. cat' \in Seq(SampleRecord) /\ pos' \in 0 .. Len(cat') /\ pos' # 0
    <3> HIDE DEF record
    <3> QED
      BY <1>1, <2>3, <2>4
  <2>6. BeginUpdate("add", id, objs) /\ pc' = "open" /\ "add" \in Ops
    BY <1>2 DEF BeginAddNew, Ops
  <2> QED
    BY <2>5, <2>6, <1>a, TypeBegin
<1>3. CASE BeginAddAgain(id, objs)
  <2>1. BeginUpdate("add", id, objs) /\ pc' = "open" /\ "add" \in Ops
    BY <1>3 DEF BeginAddAgain, Ops
  <2>2. cat' \in Seq(SampleRecord) /\ pos' \in 0 .. Len(cat') /\ pos' # 0
    BY <1>1, <1>3, FirstPosition DEF BeginAddAgain
  <2> QED
    BY <2>1, <2>2, <1>a, TypeBegin
<1>4. CASE BeginRemove(id)
  <2>1. BeginUpdate("remove", id, {}) /\ pc' = "open" /\ "remove" \in Ops
    BY <1>4 DEF BeginRemove, Ops
  <2>2. cat' \in Seq(SampleRecord) /\ pos' \in 0 .. Len(cat') /\ pos' # 0
    BY <1>1, <1>4, FirstPosition DEF BeginRemove
  <2> QED
    BY <2>1, <2>2, <1>a, TypeBegin
<1>5. CASE BeginRemoveNothing(id)
  <2>1. BeginUpdate("remove", id, {}) /\ pc' = "commit" /\ "remove" \in Ops
    BY <1>5 DEF BeginRemoveNothing, Ops
  <2>2. cat' \in Seq(SampleRecord) /\ pos' \in 0 .. Len(cat')
    BY <1>1, <1>5 DEF BeginRemoveNothing
  <2> QED
    BY <2>1, <2>2, <1>a, TypeBegin
<1> QED
  BY <1>2, <1>3, <1>4, <1>5

(* OpenFiles keeps the invariant.                                          *)
LEMMA TypeOpenFiles == ASSUME TypeInv, OpenFiles PROVE TypeInv'
<1> USE DEF OpenFiles
<1>1. pos \in DOMAIN cat /\ kind \in Kinds
  BY DEF TypeInv, TypeOK, Control
<1>2. cat[pos].files[kind] \in FileNo
  BY <1>1, FilesOfSamples DEF TypeInv, TypeOK
<1>3. wfile' \in FileNo
  BY <1>2, NextVersionType
<1>4. DOMAIN files' \subseteq File /\ files' \in [DOMAIN files' -> SUBSET Entry]
  <2>1. <<kind, wfile'>> \in File /\ {} \in SUBSET Entry
    BY <1>1, <1>3 DEF File
  <2>2. Write(<<kind, wfile'>>, {})
    OBVIOUS
  <2> QED
    BY <2>1, <2>2, WriteType DEF TypeInv
<1>5. TypeOK'
  BY <1>3, <1>4 DEF TypeInv, TypeOK, Phases
<1>6. Control'
  BY DEF TypeInv, Control, Uncommitted
<1> QED
  BY <1>5, <1>6 DEF TypeInv

(* What the updater writes to a data file.                                 *)
LEMMA ContentType ==
  ASSUME TypeOK, op \in Request, pos \in Nat \ {0}, NEW k \in Kinds,
         NEW no \in FileNo
  PROVE  /\ Content(<<k, no>>) \in SUBSET Entry
         /\ \A old \in SUBSET Entry :
              /\ Extended(old, pos, op.objs, op.t) \in SUBSET Entry
              /\ Contracted(old, pos) \in SUBSET Entry
<1>1. Content(<<k, no>>) \in SUBSET Entry
  BY DEF TypeOK, Content, Exists, File
<1>2. ASSUME NEW old \in SUBSET Entry
      PROVE  /\ Extended(old, pos, op.objs, op.t) \in SUBSET Entry
             /\ Contracted(old, pos) \in SUBSET Entry
  <2>1. op.objs \in SUBSET Objects /\ op.t \in Stamps
    BY DEF Request
  <2>2. ({pos} \X op.objs \X {op.t}) \in SUBSET Entry
    BY <2>1 DEF Entry
  <2> QED
    BY <2>2 DEF Extended, Contracted
<1> QED
  BY <1>1, <1>2

(* WriteFile keeps the invariant.                                          *)
LEMMA TypeWriteFile == ASSUME TypeInv, WriteFile PROVE TypeInv'
<1> DEFINE current == cat[pos].files[kind]
           number == IF op.op = "add" THEN ExtendNumber(current)
                                      ELSE ContractNumber(current)
           old == IF wfile # current THEN Content(<<kind, current>>) ELSE {}
           new == IF op.op = "add" THEN Extended(old, pos, op.objs, op.t)
                                   ELSE Contracted(old, pos)
<1>1. /\ pos \in DOMAIN cat /\ pos \in Nat \ {0} /\ kind \in Kinds
      /\ op \in Request /\ wfile \in FileNo /\ cat \in Seq(SampleRecord)
  BY DEF WriteFile, TypeInv, TypeOK, Control
<1>2. current \in FileNo
  BY <1>1, FilesOfSamples
<1>3. number.idx <= MaxIndex
  BY DEF WriteFile
<1>4. number \in FileNo
  BY <1>2, <1>3, NextVersionType, ContractNumberType DEF ExtendNumber
<1>5. new \in SUBSET Entry
  BY <1>1, <1>2, ContentType DEF TypeInv
<1>6. Write(<<kind, wfile>>, new)
  BY DEF WriteFile
<1>7. DOMAIN files' \subseteq File /\ files' \in [DOMAIN files' -> SUBSET Entry]
  <2> HIDE DEF new
  <2>1. <<kind, wfile>> \in File
    BY <1>1 DEF File
  <2> QED
    BY <1>5, <1>6, <2>1, WriteType DEF TypeInv
<1>8. /\ cat' = IF wfile # current
                THEN [cat EXCEPT ![pos].files[kind] = number] ELSE cat
      /\ oldfiles' = IF wfile # current
                     THEN Append(oldfiles, <<kind, current>>) ELSE oldfiles
      /\ newfiles' = Append(newfiles, <<kind, wfile>>)
      /\ pc' \in {"open", "commit"} /\ kind' = "info"
      /\ UNCHANGED <<gen, master, op, txgen, pos, wfile, ntx, ncrashes, published>>
      /\ accidents' \in {accidents, accidents \cup {"carry"}}
  BY DEF WriteFile
<1> HIDE DEF current, number
<1>9. cat' \in Seq(SampleRecord) /\ Len(cat') = Len(cat)
  <2>1. cat[pos] \in SampleRecord
    BY <1>1
  <2>2. [cat[pos] EXCEPT !.files[kind] = number] \in SampleRecord
    BY <1>1, <1>4, <2>1 DEF SampleRecord
  <2>3. [cat EXCEPT ![pos].files[kind] = number] =
          [cat EXCEPT ![pos] = [cat[pos] EXCEPT !.files[kind] = number]]
    BY <1>1, <2>1 DEF SampleRecord
  <2> QED
    BY <1>1, <1>8, <2>2, <2>3, ExceptSeq
<1>10. newfiles' \in Seq(File) /\ oldfiles' \in Seq(File)
  <2>1. <<kind, current>> \in File /\ <<kind, wfile>> \in File
    BY <1>1, <1>2 DEF File
  <2> QED
    BY <2>1, <1>8 DEF TypeInv, TypeOK
<1>11. TypeOK'
  <2>1. accidents' \subseteq Accidents
    BY <1>8 DEF TypeInv, TypeOK, Accidents
  <2> QED
    BY <1>7, <1>8, <1>9, <1>10, <2>1, Bounds DEF TypeInv, TypeOK, Phases
<1>12. Control'
  BY <1>1, <1>8 DEF TypeInv, Control, Uncommitted, WriteFile
<1> QED
  BY <1>11, <1>12 DEF TypeInv

(* CloseMaster keeps the invariant.                                        *)
LEMMA TypeCloseMaster == ASSUME TypeInv, CloseMaster PROVE TypeInv'
<1>1. NewCatalogue \in Seq(SampleRecord)
  BY NewCatalogueType DEF TypeInv, TypeOK
<1>2. /\ pc = "commit" /\ pc' = "publish" /\ txgen = gen /\ gen \in Gens
      /\ master' = [master EXCEPT ![txgen + 1] = NewCatalogue]
      /\ UNCHANGED <<gen, files, memory, ntx, ncrashes, published, accidents>>
  BY DEF CloseMaster, TypeInv, TypeOK
<1> HIDE DEF NewCatalogue
<1>3. /\ gen \in Nat /\ txgen + 1 \in Gens /\ gen # txgen + 1
  BY <1>2, Bounds, SMTT(30) DEF TypeInv, TypeOK, Control
<1>4. TypeOK'
  BY <1>1, <1>2 DEF TypeInv, TypeOK, Phases, memory
<1>5. Control'
  BY <1>1, <1>2, <1>3 DEF TypeInv, TypeOK, Control, Uncommitted, memory
<1> QED
  BY <1>4, <1>5 DEF TypeInv

(* WriteGeneration keeps the invariant.                                    *)
LEMMA TypeWriteGeneration == ASSUME TypeInv, WriteGeneration PROVE TypeInv'
<1> USE DEF WriteGeneration, memory
<1>1. /\ gen' = txgen + 1 /\ txgen + 1 \in Gens /\ txgen + 1 <= ntx
  BY Bounds, SMTT(30) DEF TypeInv, TypeOK, Control
<1>2. master[txgen + 1] \in Seq(SampleRecord)
  BY DEF TypeInv, Control
<1>3. published' \subseteq File
  BY <1>2, FilesOfSamples DEF TypeInv, TypeOK, NamedBy, File
<1>4. TypeOK'
  BY <1>1, <1>3 DEF TypeInv, TypeOK, Phases
<1>5. Control'
  BY <1>1, <1>2 DEF TypeInv, Control, Uncommitted
<1> QED
  BY <1>4, <1>5 DEF TypeInv

(* RemoveOldMaster keeps the invariant.                                    *)
LEMMA TypeRemoveOldMaster == ASSUME TypeInv, RemoveOldMaster PROVE TypeInv'
<1> USE DEF RemoveOldMaster
<1>1. gen = txgen + 1 /\ txgen \in Nat
  BY Bounds DEF TypeInv, TypeOK, Control
<1>2. TypeOK'
  BY DEF TypeInv, TypeOK, Phases
<1>3. Control'
  BY <1>1 DEF TypeInv, TypeOK, Control, Uncommitted
<1> QED
  BY <1>2, <1>3 DEF TypeInv

(* RemoveOldFile keeps the invariant.                                      *)
LEMMA TypeRemoveOldFile == ASSUME TypeInv, RemoveOldFile PROVE TypeInv'
<1> USE DEF RemoveOldFile
<1>1. Tail(oldfiles) \in Seq(File)
  BY HeadTailProperties DEF TypeInv, TypeOK
<1>2. TypeOK'
  BY <1>1, RemoveType DEF TypeInv, TypeOK
<1>3. Control'
  BY DEF TypeInv, Control, Uncommitted
<1> QED
  BY <1>2, <1>3 DEF TypeInv

(* So does a process that ends.                                            *)
LEMMA TypeExit ==
  ASSUME TypeInv, Exit,
         UNCHANGED <<gen, files, ntx, published, accidents>>,
         ncrashes' \in 0 .. MaxCrashes,
         master' \in [Gens -> Seq(SampleRecord) \cup {Null}],
         master'[gen] = master[gen]
  PROVE  TypeInv'
<1>1. TypeOK'
  BY ExitType DEF TypeInv, TypeOK
<1>2. Control'
  BY ExitType DEF TypeInv, Control, Uncommitted
<1> QED
  BY <1>1, <1>2 DEF TypeInv

(* EndUpdate keeps the invariant.                                          *)
LEMMA TypeEndUpdate == ASSUME TypeInv, EndUpdate PROVE TypeInv'
  BY TypeExit DEF EndUpdate, disk, TypeInv, TypeOK

(* Fail keeps the invariant.                                               *)
LEMMA TypeFail == ASSUME TypeInv, Fail PROVE TypeInv'
<1> USE DEF Fail, memory
<1>1. gen = txgen /\ gen \in Nat /\ gen # txgen + 1
  BY Bounds, SMTT(30) DEF TypeInv, TypeOK, Control, Uncommitted
<1>2. TypeOK'
  BY DEF TypeInv, TypeOK, Phases
<1>3. Control'
  BY <1>1 DEF TypeInv, TypeOK, Control, Uncommitted
<1> QED
  BY <1>2, <1>3 DEF TypeInv

(* UndoFile keeps the invariant.                                           *)
LEMMA TypeUndoFile == ASSUME TypeInv, UndoFile PROVE TypeInv'
<1> USE DEF UndoFile
<1>1. Tail(newfiles) \in Seq(File)
  BY HeadTailProperties DEF TypeInv, TypeOK
<1>2. TypeOK'
  BY <1>1, RemoveType DEF TypeInv, TypeOK
<1>3. Control'
  BY DEF TypeInv, Control, Uncommitted
<1> QED
  BY <1>2, <1>3 DEF TypeInv

(* CancelUpdate keeps the invariant.                                       *)
LEMMA TypeCancelUpdate == ASSUME TypeInv, CancelUpdate PROVE TypeInv'
<1>1. gen = txgen /\ gen \in Nat /\ gen # txgen + 1
  BY Bounds DEF TypeInv, TypeOK, Control, Uncommitted, CancelUpdate
<1>2. /\ master' \in [Gens -> Seq(SampleRecord) \cup {Null}]
      /\ master'[gen] = master[gen]
  BY <1>1 DEF TypeInv, TypeOK, CancelUpdate
<1>3. Exit /\ UNCHANGED <<gen, files, ntx, published, accidents>>
      /\ ncrashes' \in 0 .. MaxCrashes
  BY DEF CancelUpdate, TypeInv, TypeOK
<1> QED
  BY <1>2, <1>3, TypeExit

(* Crash keeps the invariant.                                              *)
LEMMA TypeCrash == ASSUME TypeInv, Crash PROVE TypeInv'
<1>1. ncrashes' \in 0 .. MaxCrashes
  BY Bounds, SMTT(30) DEF Crash, TypeInv, TypeOK
<1>2. Exit /\ UNCHANGED <<gen, files, ntx, published, accidents, master>>
  BY DEF Crash, disk
<1> QED
  BY <1>1, <1>2, TypeExit DEF TypeInv, TypeOK

(* A failure after the commit takes the committed master away, and the     *)
(* index with it: all that follows is the end of that transaction.         *)
LateInv ==
  /\ TypeOK
  /\ "late" \in accidents
  /\ master[gen] = Null
  /\ pc \in {"idle", "undo"}
  /\ pc = "undo" => txgen + 1 = gen

LEMMA TypeFailAfterCommit ==
  ASSUME TypeInv, FailAfterCommit
  PROVE  LateInv'
<1>1. /\ pc \in {"dropmaster", "dropfiles"} /\ pc' = "undo"
      /\ accidents' = accidents \cup {"late"}
      /\ UNCHANGED <<gen, files, memory, ntx, ncrashes, published>>
  BY DEF FailAfterCommit
<1>2. PICK old \in {master[txgen], Null} :
        master' = [master EXCEPT ![txgen] = old, ![txgen + 1] = Null]
  BY DEF FailAfterCommit
<1>3. gen = txgen + 1 /\ gen \in Gens /\ txgen \in Gens
  BY <1>1 DEF TypeInv, TypeOK, Control
<1>4. master' \in [Gens -> Seq(SampleRecord) \cup {Null}] /\ master'[gen] = Null
  <2>1. old \in Seq(SampleRecord) \cup {Null}
    BY <1>3 DEF TypeInv, TypeOK
  <2> QED
    BY <1>2, <1>3, <2>1 DEF TypeInv, TypeOK
<1>5. accidents' \subseteq Accidents
  BY <1>1 DEF TypeInv, TypeOK, Accidents
<1>6. TypeOK'
  BY <1>1, <1>4, <1>5 DEF TypeInv, TypeOK, memory, Phases
<1> QED
  BY <1>1, <1>3, <1>4, <1>6 DEF LateInv, memory

(* Without a master no transaction begins, and one that is being undone    *)
(* ends.                                                                   *)
LEMMA LateNext == LateInv /\ [Next]_vars => LateInv'
<1> SUFFICES ASSUME LateInv, [Next]_vars PROVE LateInv'
  OBVIOUS
<1> USE DEF LateInv
<1>1. CASE UndoFile
  <2> USE <1>1 DEF UndoFile
  <2>1. Tail(newfiles) \in Seq(File)
    BY HeadTailProperties DEF TypeOK
  <2>2. TypeOK'
    BY <2>1, RemoveType DEF TypeOK
  <2> QED
    BY <2>2
<1>2. CASE CancelUpdate
  <2>1. /\ Exit /\ gen = txgen + 1
        /\ UNCHANGED <<gen, files, ntx, ncrashes, published, accidents>>
        /\ master' = [master EXCEPT ![gen] = Null]
    BY <1>2 DEF CancelUpdate
  <2>2. master' \in [Gens -> Seq(SampleRecord) \cup {Null}] /\ master'[gen] = Null
    BY <2>1 DEF TypeOK
  <2>3. TypeOK'
    BY <2>1, <2>2, ExitType DEF TypeOK
  <2> QED
    BY <2>1, <2>2, <2>3, ExitType
<1>3. CASE Crash
  <2>1. Exit /\ UNCHANGED <<gen, files, master, ntx, published, accidents>>
    BY <1>3 DEF Crash, disk
  <2>2. ncrashes' \in 0 .. MaxCrashes
    BY <1>3, Bounds DEF Crash, TypeOK
  <2>3. TypeOK'
    BY <2>1, <2>2, ExitType DEF TypeOK
  <2> QED
    BY <2>1, <2>3, ExitType
<1>4. CASE UNCHANGED vars
  BY <1>4 DEF vars, TypeOK
<1>5. ASSUME Next PROVE UndoFile \/ CancelUpdate \/ Crash
  BY <1>5 DEF Next, Update, BeginAddNew, BeginAddAgain, BeginRemove,
              BeginRemoveNothing, BeginUpdate, OpenFiles, WriteFile, CloseMaster,
              WriteGeneration, RemoveOldMaster, RemoveOldFile, EndUpdate, Fail,
              FailAfterCommit
<1> QED
  BY <1>1, <1>2, <1>3, <1>4, <1>5

(* Every other step keeps the invariant.                                   *)
LEMMA TypeNext ==
  ASSUME TypeInv, [Next]_vars
  PROVE  TypeInv' \/ (FailAfterCommit /\ LateInv')
<1>1. CASE \E id \in Importable, objs \in (SUBSET Objects) \ {{}} :
             BeginAddNew(id, objs) \/ BeginAddAgain(id, objs)
  BY <1>1, SamplesAssumption, TypeBeginAny
<1>2. CASE \E id \in Removable : BeginRemove(id) \/ BeginRemoveNothing(id)
  <2>1. {} \in SUBSET Objects
    OBVIOUS
  <2> QED
    BY <1>2, <2>1, SamplesAssumption, TypeBeginAny
<1>3. CASE Update
  BY <1>3, TypeOpenFiles, TypeWriteFile, TypeCloseMaster, TypeWriteGeneration,
     TypeRemoveOldMaster, TypeRemoveOldFile, TypeEndUpdate, TypeUndoFile,
     TypeCancelUpdate DEF Update
<1>4. CASE Fail
  BY <1>4, TypeFail
<1>5. CASE FailAfterCommit
  BY <1>5, TypeFailAfterCommit
<1>6. CASE Crash
  BY <1>6, TypeCrash
<1>7. CASE UNCHANGED vars
  BY <1>7 DEF vars, TypeInv, TypeOK, Control, Uncommitted
<1> QED
  BY <1>1, <1>2, <1>3, <1>4, <1>5, <1>6, <1>7 DEF Next

(* The variables always have their types: file numbers stay within 16-bit  *)
(* versions, and the steps of a transaction happen with what they need in  *)
(* hand.                                                                   *)
THEOREM TypeCorrect == Spec => []TypeOK
<1>1. Init => TypeInv
  BY TypeInit
<1>2. (TypeInv \/ LateInv) /\ [Next]_vars => (TypeInv \/ LateInv)'
  BY TypeNext, LateNext
<1>3. TypeInv \/ LateInv => TypeOK
  BY DEF TypeInv, LateInv
<1> QED
  BY <1>1, <1>2, <1>3, PTL DEF Spec

------------------------------------------------------------------------------
(* Every file the committed catalogue names is on disk                     *)

(* No file is updated so often that its versions begin again.              *)
NoWrap == Versions > Len(Imported) + MaxTx

(* No removal has recorded the wrong number of a file at its last version, *)
(* and no transaction has failed after its commit.                         *)
Intact == "carry" \notin accidents /\ "late" \notin accidents

(* A version that g updates can have led to.                               *)
InReach(no, g) == NoWrap => no.ver <= g

(* All samples that are in one file are in the same version of it.         *)
Fits(list, k, no) ==
  \A n \in DOMAIN list : list[n].files[k].idx = no.idx => list[n].files[k] = no

Tidy(list, g) ==
  \A k \in Kinds, n \in DOMAIN list :
    Fits(list, k, list[n].files[k]) /\ InReach(list[n].files[k], g)

AllThere(list) == \A f \in NamedBy(list) : Exists(f)

Apart(seq, list) == \A i \in DOMAIN seq : seq[i] \notin NamedBy(list)

Changing == pc \in {"open", "write"} \/ (pc = "commit" /\ pos # 0)

(* Whether the file of kind k has been written.                            *)
Done(k) == pc = "commit" \/ (kind = "info" /\ k = "data")

(* The files of the changing sample: before a file is written its number   *)
(* fits the committed catalogue, then it is the new file.                  *)
Ready(k) ==
  LET no == cat[pos].files[k]
  IN  IF Done(k)
      THEN /\ Exists(<<k, no>>) /\ <<k, no>> \notin NamedBy(master[gen])
           /\ InReach(no, gen + 1)
      ELSE Fits(master[gen], k, no) /\ InReach(no, gen)

(* The file being written is new.                                          *)
Writing ==
  LET no == cat[pos].files[kind]
  IN  /\ wfile \in {no, NextVersion(no)}
      /\ Exists(<<kind, wfile>>) /\ <<kind, wfile>> \notin NamedBy(master[gen])

(* The files to be removed are old versions of those just written.         *)
Superseded ==
  \A i \in DOMAIN oldfiles :
    LET k == oldfiles[i][1]
        no == oldfiles[i][2]
    IN  /\ Done(k)
        /\ no.idx = cat[pos].files[k].idx
        /\ no # cat[pos].files[k]

Transaction ==
  /\ Changing =>
       /\ \A n \in DOMAIN cat : n # pos =>
            n \in DOMAIN master[gen] /\ cat[n] = master[gen][n]
       /\ \A k \in Kinds : Ready(k)
       /\ Superseded
  /\ pc = "write" => Writing
  /\ pc = "commit" /\ pos = 0 => cat = master[gen] /\ oldfiles = <<>>
  /\ pc = "publish" =>
       /\ Tidy(master[txgen + 1], gen + 1)
       /\ AllThere(master[txgen + 1])
       /\ Apart(oldfiles, master[txgen + 1])
  /\ pc \in Uncommitted => Apart(newfiles, master[gen])
  /\ pc \in {"dropmaster", "dropfiles"} => Apart(oldfiles, master[gen])
  /\ pc \in {"idle", "open"} /\ kind = "data" => newfiles = <<>> /\ oldfiles = <<>>
  /\ pc = "idle" => kind = "data"

FilesInv ==
  /\ Intact /\ TypeInv
  /\ Tidy(master[gen], gen) /\ AllThere(master[gen])
  /\ Transaction

(* Before the commit the next generation is not the current one.           *)
LEMMA NextGeneration ==
  ASSUME TypeInv, pc \in Uncommitted
  PROVE  gen # txgen + 1 /\ gen \in Gens /\ txgen + 1 \in Gens
<1>1. gen \in Gens /\ txgen = gen /\ txgen < ntx /\ ntx <= Len(Imported) + MaxTx
  BY Bounds DEF TypeInv, TypeOK, Control, Uncommitted
<1>2. ntx \in Nat
  BY Bounds DEF TypeInv, TypeOK
<1> QED
  BY <1>1, <1>2, Bounds

(* The files a list of samples names.                                      *)
LEMMA NamedFiles ==
  ASSUME NEW list \in Seq(SampleRecord)
  PROVE  /\ NamedBy(list) \subseteq File
         /\ \A k, no : <<k, no>> \in NamedBy(list)
              <=> k \in Kinds /\ \E n \in DOMAIN list : list[n].files[k] = no
<1>1. \A k, no : <<k, no>> \in NamedBy(list)
        <=> k \in Kinds /\ \E n \in DOMAIN list : list[n].files[k] = no
  BY DEF NamedBy
<1>2. NamedBy(list) \subseteq File
  BY FilesOfSamples DEF NamedBy, File
<1> QED
  BY <1>1, <1>2

(* The number of the last file fits a tidy list.                           *)
LEMMA LastFits ==
  ASSUME NEW list \in Seq(SampleRecord), NEW g \in Nat, Tidy(list, g),
         NEW k \in Kinds
  PROVE  Fits(list, k, LastFile(list, k)) /\ InReach(LastFile(list, k), g)
<1> DEFINE last == LastFile(list, k)
<1>1. /\ last \in FileNo
      /\ last = FirstFile \/ \E n \in DOMAIN list : last = list[n].files[k]
      /\ \A n \in DOMAIN list : NoLater(list[n].files[k], last)
  BY LastFileIsLast
<1> HIDE DEF last
<1>2. CASE \E n \in DOMAIN list : last = list[n].files[k]
  BY <1>2 DEF Tidy, last
<1>3. CASE last = FirstFile
  <2>1. ASSUME NEW n \in DOMAIN list, list[n].files[k].idx = last.idx
        PROVE  list[n].files[k] = last
    <3>1. list[n].files[k] \in FileNo
      BY FilesOfSamples
    <3>2. NoLater(list[n].files[k], last)
      BY <1>1
    <3>3. list[n].files[k].idx = 0 /\ list[n].files[k].ver = 0
      BY <1>3, <2>1, <3>1, <3>2, Bounds DEF NoLater, FirstFile, FileNo
    <3> QED
      BY <1>3, <3>1, <3>3 DEF FirstFile, FileNo
  <2>2. InReach(last, g)
    BY <1>3 DEF InReach, FirstFile
  <2> QED
    BY <2>1, <2>2 DEF Fits, last
<1> QED
  BY <1>1, <1>2, <1>3

(* So does the number a new sample gets.                                   *)
LEMMA PlaceFits ==
  ASSUME NEW list \in Seq(SampleRecord), NEW g \in Nat, Tidy(list, g),
         NEW k \in Kinds
  PROVE  Fits(list, k, Place(list, k)) /\ InReach(Place(list, k), g)
<1> DEFINE last == LastFile(list, k)
<1>1. /\ last \in FileNo
      /\ \A n \in DOMAIN list : NoLater(list[n].files[k], last)
  BY LastFileIsLast
<1>2. CASE Place(list, k) = last
  BY <1>2, LastFits
<1>3. CASE Place(list, k) = [idx |-> last.idx + 1, ver |-> 0]
  <2>1. \A n \in DOMAIN list : list[n].files[k].idx # last.idx + 1
    <3> SUFFICES ASSUME NEW n \in DOMAIN list
                 PROVE  list[n].files[k].idx # last.idx + 1
      OBVIOUS
    <3>1. list[n].files[k] \in FileNo
      BY FilesOfSamples
    <3> QED
      BY <1>1, <3>1, Bounds, SMTT(30) DEF NoLater, FileNo
  <2> QED
    BY <1>3, <2>1 DEF Fits, InReach
<1> QED
  BY <1>2, <1>3 DEF Place

(* As long as versions do not run out, both ways to step a number agree.   *)
LEMMA StepsAgree ==
  ASSUME NEW no \in FileNo, NEW g \in Nat, InReach(no, g),
         g + 1 <= Len(Imported) + MaxTx
  PROVE  /\ InReach(NextVersion(no), g + 1)
         /\ no.ver + 1 # Versions => ContractNumber(no) = NextVersion(no)
<1>a. no.ver + 1 # Versions => ContractNumber(no) = NextVersion(no)
  <2> SUFFICES ASSUME no.ver + 1 # Versions PROVE ContractNumber(no) = NextVersion(no)
    OBVIOUS
  <2>1. no.ver \in Nat /\ no.ver + 1 < Versions
    BY Bounds DEF FileNo
  <2>2. (no.ver + 1) % Versions = no.ver + 1
    BY <2>1, Bounds
  <2> QED
    BY <2>1, <2>2 DEF NextVersion, ContractNumber
<1>1. CASE ~NoWrap
  BY <1>1, <1>a DEF InReach
<1>2. CASE NoWrap
  <2>1. no.ver \in Nat /\ no.ver <= g /\ no.ver + 1 < Versions
    BY <1>2, Bounds DEF NoWrap, InReach, FileNo
  <2>2. (no.ver + 1) % Versions = no.ver + 1
    BY <2>1, Bounds
  <2> QED
    BY <1>a, <2>1, <2>2 DEF NextVersion, InReach, FileNo
<1> QED
  BY <1>1, <1>2

(* A number in reach stays so.                                             *)
LEMMA InReachLater ==
  ASSUME NEW no \in FileNo, NEW g \in Nat, InReach(no, g)
  PROVE  InReach(no, g + 1)
<1>1. no.ver \in Nat
  BY Bounds DEF FileNo
<1> QED
  BY <1>1 DEF InReach

(* An index as it is before the model starts.                              *)
LEMMA FilesInit == Init => FilesInv
<1> SUFFICES ASSUME Init PROVE FilesInv
  OBVIOUS
<1>1. TypeInv
  BY TypeInit
<1>2. master[gen] = Preloaded /\ gen = Len(Imported) /\ gen \in Nat
  BY Bounds DEF Init
<1>3. Tidy(Preloaded, Len(Imported))
  BY Bounds DEF Tidy, Fits, InReach, Preloaded
<1>4. AllThere(Preloaded)
  BY DEF AllThere, Exists, Init
<1>5. Transaction
  BY DEF Init, Transaction, Changing, Uncommitted
<1>6. Intact
  BY DEF Init, Intact
<1> QED
  BY <1>1, <1>2, <1>3, <1>4, <1>5, <1>6 DEF FilesInv

(* A process that is gone leaves the committed catalogue as it is.         *)
LEMMA FilesExit ==
  ASSUME FilesInv, TypeInv', Intact', Exit, UNCHANGED <<gen, files>>,
         master'[gen] = master[gen]
  PROVE  FilesInv'
<1>1. Tidy(master'[gen'], gen') /\ AllThere(master[gen])'
  BY DEF FilesInv, AllThere, Exists
<1>2. Transaction'
  BY DEF Exit, Transaction, Changing, Uncommitted
<1> QED
  BY <1>1, <1>2 DEF FilesInv

(* A transaction that starts leaves the committed catalogue as it is, and  *)
(* the files of its sample fit it.                                         *)
LEMMA FilesBegin ==
  ASSUME FilesInv, TypeInv', Intact', NEW what \in Ops, NEW id \in Samples,
         NEW objs \in SUBSET Objects, BeginUpdate(what, id, objs),
         \/ /\ pc' = "open"
            /\ \A n \in DOMAIN cat' : n # pos' =>
                 n \in DOMAIN master[gen] /\ cat'[n] = master[gen][n]
            /\ \A k \in Kinds : /\ Fits(master[gen], k, cat'[pos'].files[k])
                                /\ InReach(cat'[pos'].files[k], gen)
         \/ pc' = "commit" /\ pos' = 0 /\ cat' = master[gen]
  PROVE  FilesInv'
<1>1. /\ gen' = gen /\ files' = files /\ master'[gen'] = master[gen]
      /\ op'.op = what
  BY BeginType DEF BeginUpdate, FilesInv
<1>2. /\ newfiles' = <<>> /\ oldfiles' = <<>> /\ kind' = "data"
  BY DEF BeginUpdate, FilesInv, Transaction
<1>3. Tidy(master'[gen'], gen') /\ AllThere(master[gen])'
  BY <1>1 DEF FilesInv, AllThere, Exists
<1>4. Transaction'
  <2>1. CASE pc' = "open"
    <3>1. \A k \in Kinds : Ready(k)'
      BY <1>1, <1>2, <2>1 DEF Ready, Done
    <3> QED
      BY <1>1, <1>2, <2>1, <3>1 DEF Transaction, Changing, Uncommitted,
                                    Superseded, Apart
  <2>2. CASE pc' = "commit" /\ pos' = 0 /\ cat' = master[gen]
    BY <1>1, <1>2, <2>2 DEF Transaction, Changing, Uncommitted, Apart
  <2> QED
    BY <2>1, <2>2
<1> QED
  BY <1>3, <1>4 DEF FilesInv

(* All four beginnings keep the invariant.                                 *)
LEMMA FilesBeginAny ==
  ASSUME FilesInv, TypeInv', Intact', NEW id \in Samples, NEW objs \in SUBSET Objects,
         \/ BeginAddNew(id, objs) \/ BeginAddAgain(id, objs)
         \/ BeginRemove(id) \/ BeginRemoveNothing(id)
  PROVE  FilesInv'
<1> DEFINE list == master[gen]
<1>1. list \in Seq(SampleRecord) /\ gen \in Nat /\ Tidy(list, gen)
  BY Bounds DEF FilesInv, TypeInv, TypeOK, Control
<1>2. {} \in SUBSET Objects /\ "add" \in Ops /\ "remove" \in Ops
  BY DEF Ops
<1> HIDE DEF list
<1>3. CASE BeginAddNew(id, objs)
  <2> DEFINE place == [k \in Kinds |-> Place(list, k)]
             new == [id |-> id, files |-> place, shown |-> TRUE]
  <2>1. /\ BeginUpdate("add", id, objs) /\ pc' = "open"
        /\ cat' = Append(list, new) /\ pos' = Len(list) + 1
    BY <1>3 DEF BeginAddNew, list
  <2>2. \A k \in Kinds : /\ Fits(list, k, place[k])
                         /\ InReach(place[k], gen)
    BY <1>1, PlaceFits
  <2> HIDE DEF place
  <2>3. /\ cat'[pos'].files = place
        /\ \A n \in DOMAIN cat' : n # pos' =>
             n \in DOMAIN list /\ cat'[n] = list[n]
    BY <1>1, <2>1
  <2> QED
    BY <1>2, <2>1, <2>2, <2>3, FilesBegin DEF list
<1>4. ASSUME Positions(list, id) # {}, cat' = list,
             pos' = First(Positions(list, id))
      PROVE  /\ \A n \in DOMAIN cat' : n # pos' =>
                  n \in DOMAIN list /\ cat'[n] = list[n]
             /\ \A k \in Kinds : /\ Fits(list, k, cat'[pos'].files[k])
                                 /\ InReach(cat'[pos'].files[k], gen)
  BY <1>1, <1>4, FirstPosition DEF Tidy
<1>5. CASE BeginAddAgain(id, objs)
  BY <1>2, <1>4, <1>5, FilesBegin DEF BeginAddAgain, list
<1>6. CASE BeginRemove(id)
  BY <1>2, <1>4, <1>6, FilesBegin DEF BeginRemove, list
<1>7. CASE BeginRemoveNothing(id)
  BY <1>2, <1>7, FilesBegin DEF BeginRemoveNothing, list
<1> QED
  BY <1>3, <1>5, <1>6, <1>7

(* The next version of the number of a file about to be written is not in  *)
(* the committed catalogue, and nor is the number itself if there is no    *)
(* such file.                                                              *)
LEMMA NewNumber ==
  ASSUME FilesInv, pc = "open"
  PROVE  LET no == cat[pos].files[kind]
         IN  /\ <<kind, NextVersion(no)>> \notin NamedBy(master[gen])
             /\ ~Exists(<<kind, no>>) => <<kind, no>> \notin NamedBy(master[gen])
<1> DEFINE no == cat[pos].files[kind]
<1>1. /\ kind \in Kinds /\ master[gen] \in Seq(SampleRecord)
      /\ no \in FileNo
  BY FilesOfSamples DEF FilesInv, TypeInv, TypeOK, Control
<1>2. Fits(master[gen], kind, no)
  BY <1>1 DEF FilesInv, Transaction, Changing, Ready, Done, Kinds
<1> HIDE DEF no
<1>3. <<kind, NextVersion(no)>> \notin NamedBy(master[gen])
  BY <1>1, <1>2, NamedFiles, NextVersionType DEF Fits
<1>4. ~Exists(<<kind, no>>) => <<kind, no>> \notin NamedBy(master[gen])
  BY DEF FilesInv, AllThere
<1> QED
  BY <1>3, <1>4 DEF no

(* OpenFiles keeps the invariant: the file it truncates is new.            *)
LEMMA FilesOpenFiles == ASSUME FilesInv, TypeInv', Intact', OpenFiles PROVE FilesInv'
<1> DEFINE current == cat[pos].files[kind]
<1>1. /\ kind \in Kinds /\ current \in FileNo
      /\ \A k \in Kinds : cat[pos].files[k] \in FileNo
  BY FilesOfSamples DEF FilesInv, TypeInv, TypeOK, Control, OpenFiles
<1>2. /\ wfile' = IF Exists(<<kind, current>>) THEN NextVersion(current)
                                               ELSE current
      /\ Write(<<kind, wfile'>>, {}) /\ pc = "open" /\ pc' = "write"
      /\ UNCHANGED <<gen, master, op, txgen, cat, pos, kind, newfiles,
                     oldfiles, ntx, ncrashes, published>>
  BY DEF OpenFiles
<1>3. DOMAIN files' = DOMAIN files \cup {<<kind, wfile'>>}
  BY <1>2 DEF Write
<1>4. <<kind, wfile'>> \notin NamedBy(master[gen])
  BY <1>2, NewNumber
<1>5. wfile' \in {current, NextVersion(current)}
  BY <1>2
<1> HIDE DEF current
<1>6. Tidy(master'[gen'], gen') /\ AllThere(master[gen])'
  BY <1>2, <1>3 DEF FilesInv, AllThere, Exists
<1>7. Writing'
  BY <1>2, <1>3, <1>4, <1>5 DEF Writing, Exists, current
<1>8. \A k \in Kinds : Ready(k)'
  BY <1>2, <1>3 DEF FilesInv, Transaction, Changing, Ready, Done, Exists
<1>9. Superseded'
  BY <1>2 DEF FilesInv, Transaction, Changing, Superseded, Done
<1>10. Transaction'
  BY <1>2, <1>7, <1>8, <1>9
     DEF FilesInv, Transaction, Changing, Uncommitted
<1> QED
  BY <1>6, <1>10 DEF FilesInv

(* WriteFile keeps the invariant: it finishes the new file, and the sample *)
(* moves to it.                                                            *)
LEMMA FilesWriteFile == ASSUME FilesInv, TypeInv', Intact', WriteFile PROVE FilesInv'
<1> DEFINE current == cat[pos].files[kind]
           number == IF op.op = "add" THEN ExtendNumber(current)
                                      ELSE ContractNumber(current)
<1>1. /\ kind \in Kinds /\ pos \in DOMAIN cat /\ cat \in Seq(SampleRecord)
      /\ cat[pos] \in SampleRecord /\ current \in FileNo
      /\ master[gen] \in Seq(SampleRecord)
      /\ op \in Request /\ gen \in Nat /\ gen + 1 <= Len(Imported) + MaxTx
      /\ newfiles \in Seq(File) /\ oldfiles \in Seq(File)
  <2>1. TypeOK /\ Control /\ pc = "write"
    BY DEF FilesInv, TypeInv, WriteFile
  <2>2. /\ kind \in Kinds /\ cat \in Seq(SampleRecord)
        /\ newfiles \in Seq(File) /\ oldfiles \in Seq(File)
        /\ pos \in 0 .. Len(cat) /\ pos # 0
    BY <2>1 DEF TypeOK, Control
  <2>3. /\ pos \in DOMAIN cat /\ cat[pos] \in SampleRecord
        /\ current \in FileNo
    BY <2>2, FilesOfSamples
  <2>4. /\ master[gen] \in Seq(SampleRecord) /\ op \in Request
        /\ txgen = gen /\ txgen < ntx
    BY <2>1 DEF Control, Uncommitted
  <2>5. gen \in Nat /\ gen + 1 <= Len(Imported) + MaxTx
    BY <2>1, <2>4, Bounds DEF TypeOK
  <2> QED
    BY <2>2, <2>3, <2>4, <2>5
<1>2. /\ pc = "write" /\ kind' = "info"
      /\ pc' = IF kind = "data" THEN "open" ELSE "commit"
      /\ DOMAIN files' = DOMAIN files \cup {<<kind, wfile>>}
      /\ cat' = IF wfile # current
                THEN [cat EXCEPT ![pos].files[kind] = number] ELSE cat
      /\ oldfiles' = IF wfile # current
                     THEN Append(oldfiles, <<kind, current>>) ELSE oldfiles
      /\ newfiles' = Append(newfiles, <<kind, wfile>>)
      /\ UNCHANGED <<gen, master, op, txgen, pos, wfile, ntx, ncrashes, published>>
  BY DEF WriteFile, Write
<1>3. /\ wfile \in {current, NextVersion(current)}
      /\ Exists(<<kind, wfile>>) /\ <<kind, wfile>> \notin NamedBy(master[gen])
      /\ InReach(current, gen)
  <2>1. kind \in {"info", "data"} /\ ~Done(kind)
    BY <1>1, <1>2 DEF Kinds, Done
  <2> QED
    BY <1>1, <1>2, <2>1
       DEF FilesInv, Transaction, Writing, Changing, Ready
<1>4. wfile # current => number = wfile
  <2>1. op.op \in {"add", "remove"}
    BY <1>1 DEF Request, Ops
  <2>2. wfile # current /\ op.op = "remove" => current.ver + 1 # Versions
    BY DEF WriteFile, Intact
  <2> QED
    BY <1>1, <1>3, <2>1, <2>2, StepsAgree DEF ExtendNumber
<1>5. InReach(wfile, gen + 1)
  <2>1. InReach(NextVersion(current), gen + 1)
    BY <1>1, <1>3, StepsAgree
  <2>2. InReach(current, gen + 1)
    BY <1>1, <1>3, InReachLater
  <2> QED
    BY <1>3, <2>1, <2>2
<1>6. wfile.idx = current.idx
  BY <1>1, <1>3, NextVersionType
<1> HIDE DEF number
<1>7. /\ \A n \in DOMAIN cat' : n # pos => n \in DOMAIN cat /\ cat'[n] = cat[n]
      /\ cat'[pos].files[kind] = wfile
      /\ \A k \in Kinds : k # kind => cat'[pos].files[k] = cat[pos].files[k]
  BY <1>1, <1>2, <1>4 DEF SampleRecord
<1> HIDE DEF current
<1>8. Tidy(master'[gen'], gen') /\ AllThere(master[gen])'
  BY <1>2 DEF FilesInv, AllThere, Exists
<1>9. \A k \in Kinds : Ready(k)'
  <2> SUFFICES ASSUME NEW k \in Kinds PROVE Ready(k)'
    OBVIOUS
  <2>1. CASE k = kind
    <3>1. Done(k)'
      BY <1>1, <1>2, <2>1 DEF Done, Kinds
    <3> QED
      BY <1>2, <1>3, <1>5, <1>7, <2>1, <3>1 DEF Ready, Exists
  <2>2. CASE k # kind
    <3>1. Ready(k) /\ Done(k)' = Done(k)
      BY <1>1, <1>2, <2>2 DEF FilesInv, Transaction, Changing, Done, Kinds
    <3> QED
      BY <1>2, <1>7, <2>2, <3>1 DEF Ready, Exists
  <2> QED
    BY <2>1, <2>2
<1>10. Superseded'
  <2> SUFFICES ASSUME NEW i \in DOMAIN oldfiles', NEW k, NEW no,
                      k = oldfiles'[i][1], no = oldfiles'[i][2]
               PROVE  /\ Done(k)'
                      /\ no.idx = cat'[pos'].files[k].idx
                      /\ no # cat'[pos'].files[k]
    BY DEF Superseded, Done
  <2>1. CASE i \in DOMAIN oldfiles
    <3>1. oldfiles'[i] = oldfiles[i] /\ oldfiles[i] \in File
      BY <1>1, <1>2, <2>1
    <3>2. /\ oldfiles[i][1] \in Kinds /\ Done(oldfiles[i][1])
          /\ oldfiles[i][2].idx = cat[pos].files[oldfiles[i][1]].idx
          /\ oldfiles[i][2] # cat[pos].files[oldfiles[i][1]]
      BY <1>2, <2>1, <3>1 DEF FilesInv, Transaction, Changing, Superseded, File
    <3>3. k # kind /\ Done(k)'
      BY <1>1, <1>2, <3>1, <3>2 DEF Done, Kinds
    <3> QED
      BY <1>2, <1>7, <3>1, <3>2, <3>3
  <2>2. CASE i \notin DOMAIN oldfiles
    <3>1. wfile # current /\ oldfiles'[i] = <<kind, current>>
      BY <1>1, <1>2, <2>2
    <3>2. k = kind /\ no = current
      BY <3>1
    <3>3. Done(k)'
      BY <1>1, <1>2, <3>2 DEF Done, Kinds
    <3> QED
      BY <1>2, <1>6, <1>7, <3>1, <3>2, <3>3
  <2> QED
    BY <2>1, <2>2
<1>11. Apart(newfiles, master[gen])'
  <2>1. Apart(newfiles, master[gen])
    BY <1>2 DEF FilesInv, Transaction, Uncommitted
  <2> QED
    BY <1>1, <1>2, <1>3, <2>1 DEF Apart
<1>12. Transaction'
  <2>1. \A n \in DOMAIN cat' : n # pos' =>
          n \in DOMAIN master'[gen'] /\ cat'[n] = master'[gen'][n]
    BY <1>2, <1>7 DEF FilesInv, Transaction, Changing
  <2>2. pos # 0 /\ pc' \in {"open", "commit"}
    BY <1>1, <1>2
  <2> QED
    BY <1>2, <1>9, <1>10, <1>11, <2>1, <2>2 DEF Transaction, Uncommitted
<1> QED
  BY <1>8, <1>12 DEF FilesInv

(* The new catalogue is tidy, its files are on disk, and the superseded    *)
(* files are none of them.                                                 *)
LEMMA NewCatalogueComplete ==
  ASSUME FilesInv, CloseMaster
  PROVE  /\ Tidy(NewCatalogue, gen + 1) /\ AllThere(NewCatalogue)
         /\ Apart(oldfiles, NewCatalogue)
<1>1. /\ pc = "commit" /\ cat \in Seq(SampleRecord) /\ pos \in 0 .. Len(cat)
      /\ master[gen] \in Seq(SampleRecord) /\ gen \in Nat
      /\ oldfiles \in Seq(File)
  BY Bounds DEF CloseMaster, FilesInv, TypeInv, TypeOK, Control
<1>2. Target \in [Kinds -> FileNo]
  BY <1>1, TargetType
<1> DEFINE new(n, k) == IF cat[n].files[k].idx = Target[k].idx
                        THEN Target[k] ELSE cat[n].files[k]
<1>3. /\ NewCatalogue \in Seq(SampleRecord)
      /\ DOMAIN NewCatalogue = DOMAIN cat
      /\ \A n \in DOMAIN cat, k \in Kinds : NewCatalogue[n].files[k] = new(n, k)
  <2>1. \A n \in DOMAIN cat, k \in Kinds :
          Share(cat, Target)[n].files[k] = new(n, k)
    BY <1>1, <1>2, ShareType
  <2> QED
    BY <1>1, <2>1, NewCatalogueType
<1>4. \A n \in DOMAIN cat, k \in Kinds : cat[n].files[k] \in FileNo
  BY <1>1, FilesOfSamples
<1> HIDE DEF NewCatalogue
<1>5. SUFFICES ASSUME NEW n \in DOMAIN cat, NEW k \in Kinds
               PROVE  /\ \A m \in DOMAIN cat :
                           new(m, k).idx = new(n, k).idx => new(m, k) = new(n, k)
                      /\ InReach(new(n, k), gen + 1)
                      /\ Exists(<<k, new(n, k)>>)
                      /\ \A i \in DOMAIN oldfiles : oldfiles[i] # <<k, new(n, k)>>
  <2> HIDE DEF new
  <2>1. NamedBy(NewCatalogue) = {<<k, new(n, k)>> : k \in Kinds, n \in DOMAIN cat}
    BY <1>3 DEF NamedBy
  <2>2. (\A n \in DOMAIN cat, k \in Kinds : Exists(<<k, new(n, k)>>))
          => AllThere(NewCatalogue)
    BY <2>1 DEF AllThere
  <2>3. (\A n \in DOMAIN cat, k \in Kinds, i \in DOMAIN oldfiles :
           oldfiles[i] # <<k, new(n, k)>>)
          => Apart(oldfiles, NewCatalogue)
    BY <2>1 DEF Apart
  <2>4. (\A n \in DOMAIN cat, k \in Kinds :
           /\ \A m \in DOMAIN cat :
                new(m, k).idx = new(n, k).idx => new(m, k) = new(n, k)
           /\ InReach(new(n, k), gen + 1))
          => Tidy(NewCatalogue, gen + 1)
    BY <1>3 DEF Tidy, Fits
  <2> QED
    BY <2>2, <2>3, <2>4
<1>6. CASE pos = 0
  <2>1. cat = master[gen] /\ oldfiles = <<>>
    BY <1>1, <1>6 DEF FilesInv, Transaction
  <2>2. Tidy(cat, gen) /\ Target[k] = LastFile(cat, k)
    BY <1>6, <2>1 DEF FilesInv, Target
  <2>3. Fits(cat, k, Target[k])
    BY <1>1, <2>2, LastFits
  <2>4. \A m \in DOMAIN cat : new(m, k) = cat[m].files[k]
    BY <2>3 DEF Fits
  <2>5. Exists(<<k, cat[n].files[k]>>)
    BY <1>1, <2>1, NamedFiles DEF FilesInv, AllThere
  <2>6. InReach(cat[n].files[k], gen + 1)
    BY <1>1, <1>4, <2>2, InReachLater DEF Tidy
  <2> QED
    BY <2>1, <2>2, <2>4, <2>5, <2>6 DEF Tidy, Fits
<1>7. CASE pos # 0
  <2>1. Target[k] = cat[pos].files[k] /\ pos \in DOMAIN cat
    BY <1>1, <1>7 DEF Target
  <2>2. /\ \A m \in DOMAIN cat : m # pos =>
             m \in DOMAIN master[gen] /\ cat[m] = master[gen][m]
        /\ Ready(k) /\ Done(k) /\ Superseded
    BY <1>1, <1>7 DEF FilesInv, Transaction, Changing, Done
  <2>3. Exists(<<k, Target[k]>>) /\ InReach(Target[k], gen + 1)
    BY <2>1, <2>2 DEF Ready
  <2>4. Tidy(master[gen], gen)
    BY DEF FilesInv
  <2>5. new(n, k) = Target[k] \/ (n # pos /\ new(n, k).idx # Target[k].idx
                                  /\ new(n, k) = cat[n].files[k])
    BY <2>1
  <2>6. \A m \in DOMAIN cat :
          new(m, k).idx = new(n, k).idx => new(m, k) = new(n, k)
    BY <2>1, <2>2, <2>4, <2>5 DEF Tidy, Fits
  <2>7. Exists(<<k, new(n, k)>>) /\ InReach(new(n, k), gen + 1)
    <3>1. CASE new(n, k) = Target[k]
      BY <2>3, <3>1
    <3>2. CASE n # pos /\ new(n, k) = cat[n].files[k]
      <4>1. n \in DOMAIN master[gen] /\ new(n, k) = master[gen][n].files[k]
        BY <2>2, <3>2
      <4>2. Exists(<<k, new(n, k)>>)
        BY <1>1, <4>1, NamedFiles DEF FilesInv, AllThere
      <4>3. InReach(master[gen][n].files[k], gen + 1)
        BY <1>1, <2>4, <4>1, FilesOfSamples, InReachLater DEF Tidy
      <4> QED
        BY <4>1, <4>2, <4>3
    <3> QED
      BY <2>5, <3>1, <3>2
  <2>8. \A i \in DOMAIN oldfiles : oldfiles[i] # <<k, new(n, k)>>
    BY <2>1, <2>2 DEF Superseded
  <2> QED
    BY <2>6, <2>7, <2>8
<1> QED
  BY <1>6, <1>7
(* CloseMaster keeps the invariant.                                        *)
LEMMA FilesCloseMaster == ASSUME FilesInv, TypeInv', Intact', CloseMaster PROVE FilesInv'
<1>1. /\ Tidy(NewCatalogue, gen + 1) /\ AllThere(NewCatalogue)
      /\ Apart(oldfiles, NewCatalogue)
  BY NewCatalogueComplete
<1>2. /\ pc = "commit" /\ pc' = "publish" /\ txgen = gen
      /\ master' = [master EXCEPT ![txgen + 1] = NewCatalogue]
      /\ UNCHANGED <<gen, files, memory, ntx, ncrashes, published>>
  BY DEF CloseMaster
<1> HIDE DEF NewCatalogue
<1>3. master'[gen] = master[gen] /\ master'[txgen + 1] = NewCatalogue
  <2>1. /\ master \in [Gens -> Seq(SampleRecord) \cup {Null}]
        /\ txgen + 1 \in Gens /\ gen # txgen + 1
    BY <1>2, NextGeneration DEF FilesInv, TypeInv, TypeOK, Uncommitted
  <2> QED
    BY <1>2, <2>1
<1>4. Tidy(master'[gen'], gen') /\ AllThere(master[gen])'
  BY <1>2, <1>3 DEF FilesInv, AllThere, Exists
<1>5. /\ Tidy(master[txgen + 1], gen + 1)' /\ AllThere(master[txgen + 1])'
      /\ Apart(oldfiles, master[txgen + 1])'
  BY <1>1, <1>2, <1>3 DEF memory, AllThere, Exists, Tidy, Apart
<1>6. Transaction'
  BY <1>2, <1>3, <1>5
     DEF FilesInv, Transaction, Changing, Uncommitted, memory, Apart
<1> QED
  BY <1>4, <1>6 DEF FilesInv

(* WriteGeneration keeps the invariant: what was to be committed now is.   *)
LEMMA FilesWriteGeneration ==
  ASSUME FilesInv, TypeInv', Intact', WriteGeneration
  PROVE  FilesInv'
<1>1. /\ pc = "publish" /\ pc' = "dropmaster" /\ gen' = txgen + 1 /\ txgen = gen
      /\ UNCHANGED <<master, files, memory, ntx, ncrashes>>
  BY DEF WriteGeneration, FilesInv, TypeInv, Control, Uncommitted
<1>2. /\ Tidy(master'[gen'], gen') /\ AllThere(master[gen])'
      /\ Apart(oldfiles, master[gen])'
  BY <1>1 DEF FilesInv, Transaction, memory, AllThere, Exists, Apart
<1>3. Transaction'
  BY <1>1, <1>2 DEF FilesInv, Transaction, Changing, Uncommitted, memory
<1> QED
  BY <1>2, <1>3 DEF FilesInv

(* RemoveOldMaster keeps the invariant.                                    *)
LEMMA FilesRemoveOldMaster ==
  ASSUME FilesInv, TypeInv', Intact', RemoveOldMaster
  PROVE  FilesInv'
<1>1. /\ pc = "dropmaster" /\ pc' = "dropfiles"
      /\ master' = [master EXCEPT ![txgen] = Null]
      /\ UNCHANGED <<gen, files, op, txgen, cat, pos, kind, wfile, oldfiles,
                     ntx, ncrashes, published>>
  BY DEF RemoveOldMaster
<1>2. master'[gen] = master[gen]
  <2>1. gen # txgen /\ gen \in Gens
    BY <1>1, Bounds DEF FilesInv, TypeInv, TypeOK, Control
  <2> QED
    BY <1>1, <2>1 DEF FilesInv, TypeInv, TypeOK
<1>3. Tidy(master'[gen'], gen') /\ AllThere(master[gen])'
  BY <1>1, <1>2 DEF FilesInv, AllThere, Exists
<1>4. Transaction'
  BY <1>1, <1>2 DEF FilesInv, Transaction, Changing, Uncommitted, Apart
<1> QED
  BY <1>3, <1>4 DEF FilesInv

(* A file that the committed catalogue does not name may go.               *)
LEMMA RemoveUnnamed ==
  ASSUME FilesInv, NEW f, f \notin NamedBy(master[gen]), Remove(f),
         UNCHANGED <<gen, master>>
  PROVE  Tidy(master'[gen'], gen') /\ AllThere(master[gen])'
<1>1. DOMAIN files' = DOMAIN files \ {f}
  BY DEF Remove
<1> QED
  BY <1>1 DEF FilesInv, AllThere, Exists

(* What holds of a sequence of files holds of its tail.                    *)
LEMMA TailApart ==
  ASSUME NEW seq \in Seq(File), seq # <<>>, NEW list, Apart(seq, list)
  PROVE  /\ Head(seq) \notin NamedBy(list)
         /\ Apart(Tail(seq), list)
  BY DEF Apart

(* RemoveOldFile keeps the invariant: the committed catalogue does not     *)
(* name the old file.                                                      *)
LEMMA FilesRemoveOldFile ==
  ASSUME FilesInv, TypeInv', Intact', RemoveOldFile
  PROVE  FilesInv'
<1>1. /\ pc = "dropfiles" /\ oldfiles # <<>> /\ Remove(Head(oldfiles))
      /\ oldfiles' = Tail(oldfiles)
      /\ UNCHANGED <<gen, master, pc, op, txgen, cat, pos, kind, wfile,
                     newfiles, ntx, ncrashes, published>>
  BY DEF RemoveOldFile
<1>2. Apart(oldfiles, master[gen]) /\ oldfiles \in Seq(File)
  BY <1>1 DEF FilesInv, Transaction, TypeInv, TypeOK
<1>3. /\ Head(oldfiles) \notin NamedBy(master[gen])
      /\ Apart(Tail(oldfiles), master[gen])
  BY <1>1, <1>2, TailApart
<1>4. Tidy(master'[gen'], gen') /\ AllThere(master[gen])'
  BY <1>1, <1>3, RemoveUnnamed
<1>5. Transaction'
  BY <1>1, <1>3 DEF FilesInv, Transaction, Changing, Uncommitted, Apart
<1> QED
  BY <1>4, <1>5 DEF FilesInv

(* UndoFile keeps the invariant: the committed catalogue does not name the *)
(* new file.                                                               *)
LEMMA FilesUndoFile == ASSUME FilesInv, TypeInv', Intact', UndoFile PROVE FilesInv'
<1>1. /\ pc = "undo" /\ newfiles # <<>> /\ Remove(Head(newfiles))
      /\ newfiles' = Tail(newfiles)
      /\ UNCHANGED <<gen, master, pc, op, txgen, cat, pos, kind, wfile,
                     oldfiles, ntx, ncrashes, published>>
  BY DEF UndoFile
<1>2. Apart(newfiles, master[gen]) /\ newfiles \in Seq(File)
  BY <1>1 DEF FilesInv, Transaction, TypeInv, TypeOK, Uncommitted
<1>3. /\ Head(newfiles) \notin NamedBy(master[gen])
      /\ Apart(Tail(newfiles), master[gen])
  BY <1>1, <1>2, TailApart
<1>4. Tidy(master'[gen'], gen') /\ AllThere(master[gen])'
  BY <1>1, <1>3, RemoveUnnamed
<1>5. Transaction'
  BY <1>1, <1>3 DEF FilesInv, Transaction, Changing, Uncommitted, Apart
<1> QED
  BY <1>4, <1>5 DEF FilesInv

(* Fail keeps the invariant: it removes the master of the next generation. *)
LEMMA FilesFail == ASSUME FilesInv, TypeInv', Intact', Fail PROVE FilesInv'
<1>1. /\ pc \in {"open", "write", "commit", "publish"} /\ pc' = "undo"
      /\ master' = [master EXCEPT ![txgen + 1] = Null]
      /\ UNCHANGED <<gen, files, memory, ntx, ncrashes, published>>
  BY DEF Fail
<1>2. master'[gen] = master[gen]
  <2>1. gen # txgen + 1 /\ gen \in Gens
    BY <1>1, NextGeneration DEF FilesInv, Uncommitted
  <2> QED
    BY <1>1, <2>1 DEF FilesInv, TypeInv, TypeOK
<1>3. Tidy(master'[gen'], gen') /\ AllThere(master[gen])'
  BY <1>1, <1>2 DEF FilesInv, AllThere, Exists
<1>4. Transaction'
  BY <1>1, <1>2 DEF FilesInv, Transaction, Changing, Uncommitted, Apart, memory
<1> QED
  BY <1>3, <1>4 DEF FilesInv

(* So do the three ways the process ends.                                  *)
LEMMA FilesExitAny ==
  ASSUME FilesInv, TypeInv', Intact', EndUpdate \/ CancelUpdate \/ Crash
  PROVE  FilesInv'
<1>1. CASE EndUpdate
  BY <1>1, FilesExit DEF EndUpdate, disk
<1>2. CASE CancelUpdate
  <2>1. gen # txgen + 1 /\ gen \in Gens
    BY <1>2, NextGeneration DEF FilesInv, Uncommitted, CancelUpdate
  <2>2. master'[gen] = master[gen]
    BY <1>2, <2>1 DEF CancelUpdate, FilesInv, TypeInv, TypeOK
  <2> QED
    BY <1>2, <2>2, FilesExit DEF CancelUpdate
<1>3. CASE Crash
  BY <1>3, FilesExit DEF Crash, disk
<1> QED
  BY <1>1, <1>2, <1>3

(* As long as the index is intact, every step keeps the invariant.         *)
LEMMA FilesNext ==
  ASSUME FilesInv, [Next]_vars, TypeInv', Intact'
  PROVE  FilesInv'
<1>1. CASE \E id \in Importable, objs \in (SUBSET Objects) \ {{}} :
             BeginAddNew(id, objs) \/ BeginAddAgain(id, objs)
  BY <1>1, SamplesAssumption, FilesBeginAny
<1>2. CASE \E id \in Removable : BeginRemove(id) \/ BeginRemoveNothing(id)
  <2>1. {} \in SUBSET Objects
    OBVIOUS
  <2> QED
    BY <1>2, <2>1, SamplesAssumption, FilesBeginAny
<1>3. CASE Update
  BY <1>3, FilesOpenFiles, FilesWriteFile, FilesCloseMaster,
     FilesWriteGeneration, FilesRemoveOldMaster, FilesRemoveOldFile,
     FilesExitAny, FilesUndoFile DEF Update
<1>4. CASE Fail
  BY <1>4, FilesFail
<1>5. CASE FailAfterCommit
  BY <1>5 DEF FailAfterCommit, Intact
<1>6. CASE Crash
  BY <1>6, FilesExitAny
<1>7. CASE UNCHANGED vars
  <2> USE <1>7 DEF vars
  <2>1. Tidy(master'[gen'], gen') /\ AllThere(master[gen])'
    BY DEF FilesInv, AllThere, Exists
  <2>2. Transaction'
    BY DEF FilesInv, Transaction, Changing, Uncommitted, Apart, Ready, Done,
           Superseded, Writing, Exists, AllThere
  <2> QED
    BY <2>1, <2>2 DEF FilesInv
<1> QED
  BY <1>1, <1>2, <1>3, <1>4, <1>5, <1>6, <1>7 DEF Next

(* Accidents are not undone, and only a failure after the commit is late.  *)
LEMMA AccidentsGrow ==
  ASSUME [Next]_vars
  PROVE  /\ accidents \subseteq accidents'
         /\ "late" \in accidents' => "late" \in accidents \/ FailAfterCommit
         /\ "carry" \in accidents' => "carry" \in accidents \/ WriteFile
  BY DEF Next, Update, BeginAddNew, BeginAddAgain, BeginRemove,
         BeginRemoveNothing, OpenFiles, WriteFile, CloseMaster, WriteGeneration,
         RemoveOldMaster, RemoveOldFile, EndUpdate, Fail, FailAfterCommit,
         UndoFile, CancelUpdate, Crash, vars

(* Either the files are as they should be, or a removal has carried, or    *)
(* the master is gone.                                                     *)
IndexInv == FilesInv \/ (TypeInv /\ "carry" \in accidents) \/ LateInv

LEMMA IndexNext == IndexInv /\ [Next]_vars => IndexInv'
<1> SUFFICES ASSUME IndexInv, [Next]_vars PROVE IndexInv'
  OBVIOUS
<1>1. CASE LateInv
  BY <1>1, LateNext DEF IndexInv
<1>2. CASE TypeInv /\ "carry" \in accidents
  BY <1>2, TypeNext, AccidentsGrow DEF IndexInv
<1>3. CASE FilesInv
  <2>1. TypeInv' \/ LateInv'
    BY <1>3, TypeNext DEF FilesInv
  <2>2. CASE TypeInv' /\ Intact'
    BY <1>3, <2>2, FilesNext DEF IndexInv
  <2>3. CASE TypeInv' /\ ~Intact'
    <3>1. ASSUME FailAfterCommit PROVE LateInv'
      BY <1>3, <3>1, TypeFailAfterCommit DEF FilesInv
    <3>2. "late" \in accidents' => FailAfterCommit
      BY <1>3, AccidentsGrow DEF FilesInv, Intact
    <3> QED
      BY <2>3, <3>1, <3>2 DEF Intact, IndexInv
  <2> QED
    BY <2>1, <2>2, <2>3 DEF IndexInv
<1> QED
  BY <1>1, <1>2, <1>3 DEF IndexInv

(* Every file the committed catalogue names is on disk, whatever the       *)
(* updater was doing when it failed or died, unless a removal has carried  *)
(* a version; and the catalogue itself is there unless the updater failed  *)
(* after a commit.                                                         *)
THEOREM CatalogueComplete == Spec => []CatalogueFilesExist
<1>1. Init => IndexInv
  BY FilesInit DEF IndexInv
<1>2. IndexInv /\ [Next]_vars => IndexInv'
  BY IndexNext
<1>3. IndexInv => CatalogueFilesExist
  <2>1. CASE LateInv
    BY <2>1 DEF LateInv, CatalogueFilesExist
  <2>2. CASE TypeInv /\ "carry" \in accidents
    BY <2>2, NullAssumption DEF TypeInv, Control, CatalogueFilesExist
  <2>3. CASE FilesInv
    BY <2>3, NullAssumption
       DEF FilesInv, TypeInv, Control, AllThere, CatalogueFilesExist
  <2> QED
    BY <2>1, <2>2, <2>3 DEF IndexInv
<1> QED
  BY <1>1, <1>2, <1>3, PTL DEF Spec
=============================================================================
