--------------------------- MODULE AtomicIndexProofs ---------------------------
(***************************************************************************)
(* What the index promises to its readers, for any samples, objects and    *)
(* bounds: an update happens in one step or not at all, the server misses  *)
(* none, and the data files it may have open are not written to.           *)
(*                                                                         *)
(* The invariant of VisDQMIndexProofs says where the files of the index    *)
(* are; this one says what is in them.                                     *)
(***************************************************************************)
EXTENDS ArchiveSource, VisDQMIndexProofs

(* The entries of a file, and those of a sample in a file.                 *)
Held(fs, f) == IF f \in DOMAIN fs THEN fs[f] ELSE {}
Of(fs, f, n) == {x \in Held(fs, f) : x[1] = n}
In(fs, list, k, n) == Of(fs, <<k, list[n].files[k]>>, n)

(* The files a list of samples names hold entries of these samples only.   *)
Known(fs, list) ==
  \A k \in Kinds, n \in DOMAIN list :
    \A e \in Held(fs, <<k, list[n].files[k]>>) : e[1] \in DOMAIN list

Consistent == Known(files, master[gen])

(* The transaction is about the first sample of its name, or a new one.    *)
Under == pc \in {"open", "write", "commit", "publish"} /\ pos # 0

Old == pos \in DOMAIN master[gen]

Asked ==
  /\ op.op = "add" => op.objs # {} /\ op.id \in Importable
  /\ op.op = "remove" => op.id \in Removable /\ Old
  /\ Old => /\ Positions(master[gen], op.id) # {}
            /\ pos = First(Positions(master[gen], op.id))
  /\ ~Old => /\ Positions(master[gen], op.id) = {}
             /\ pos = Len(master[gen]) + 1

Copied ==
  /\ DOMAIN cat = DOMAIN master[gen] \cup {pos}
  /\ cat[pos].id = op.id
  /\ cat[pos].shown = IF Old THEN master[gen][pos].shown ELSE TRUE

(* The entries of the sample before and after the transaction.             *)
Before(k) == IF Old THEN In(files, master[gen], k, pos) ELSE {}

Added(entries, n, objs, t) ==
  {e \in entries : e[2] \notin objs} \cup ({n} \X objs \X {t})

After(k) == IF op.op = "add" THEN Added(Before(k), pos, op.objs, op.t) ELSE {}

(* The file to copy from is that of the sample, or has nothing under the   *)
(* number of the new sample.                                               *)
Source(k) ==
  IF Old THEN cat[pos].files[k] = master[gen][pos].files[k]
  ELSE \A e \in Held(files, <<k, cat[pos].files[k]>>) : e[1] \in DOMAIN master[gen]

(* The new file has what the sample holds now, and all that the others do. *)
Updated(k, no) ==
  /\ \A e \in Held(files, <<k, no>>) : e[1] \in DOMAIN master[gen] \cup {pos}
  /\ \A n \in DOMAIN master[gen] :
       n # pos /\ master[gen][n].files[k].idx = no.idx =>
         Of(files, <<k, no>>, n) = In(files, master[gen], k, n)
  /\ Of(files, <<k, no>>, pos) = After(k)

Written ==
  \A k \in Kinds :
    LET no == cat[pos].files[k]
    IN  /\ IF Done(k) THEN Updated(k, no) ELSE Source(k)
        /\ Old => no.idx = master[gen][pos].files[k].idx

(* The next catalogue.                                                     *)
Result(list) ==
  /\ DOMAIN list = DOMAIN master[gen] \cup {pos}
  /\ \A n \in DOMAIN master[gen] : n # pos =>
       /\ list[n].id = master[gen][n].id
       /\ list[n].shown = master[gen][n].shown
       /\ \A k \in Kinds :
            In(files, list, k, n) = In(files, master[gen], k, n)
  /\ \A n \in DOMAIN master[gen], k \in Kinds :
       list[n].files[k].idx = master[gen][n].files[k].idx
  /\ list[pos].id = op.id
  /\ list[pos].shown = IF op.op = "remove" THEN FALSE
                       ELSE IF Old THEN master[gen][pos].shown ELSE TRUE
  /\ \A k \in Kinds : In(files, list, k, pos) = After(k)
  /\ Known(files, list)

Pending ==
  /\ Under => Asked
  /\ Changing => Copied /\ Written
  /\ pc = "publish" =>
       IF pos = 0 THEN master[txgen + 1] = master[gen]
       ELSE Result(master[txgen + 1])

ContentInv == FilesInv /\ accidents = {} /\ Consistent /\ Pending

------------------------------------------------------------------------------
(* What the steps before and after the commit leave alone                  *)

(* The catalogue of the current generation and the files it names.         *)
Kept ==
  /\ gen' = gen /\ master'[gen] = master[gen]
  /\ \A f \in NamedBy(master[gen]) : Held(files', f) = Held(files, f)

OtherFiles(f) == \A g : g # f => Held(files', g) = Held(files, g)

LEMMA BeginKeeps ==
  ASSUME FilesInv, NEW what, NEW id, NEW objs, BeginUpdate(what, id, objs)
  PROVE  Kept
<1>1. gen \in Gens /\ gen \in Nat /\ master \in [Gens -> Seq(SampleRecord) \cup {Null}]
  BY Bounds DEF FilesInv, TypeInv, TypeOK
<1>2. gen' = gen /\ files' = files /\ master' = [master EXCEPT ![gen + 1] = <<>>]
  BY DEF BeginUpdate
<1>3. gen # gen + 1
  BY <1>1
<1>4. QED
  BY <1>1, <1>2, <1>3 DEF Kept, Held

LEMMA OpenFilesKeeps ==
  ASSUME FilesInv, OpenFiles
  PROVE  /\ Kept /\ <<kind, wfile'>> \notin NamedBy(master[gen])
         /\ Held(files', <<kind, wfile'>>) = {} /\ OtherFiles(<<kind, wfile'>>)
<1> DEFINE no == cat[pos].files[kind]
           out == IF Exists(<<kind, no>>) THEN NextVersion(no) ELSE no
<1>1. /\ pc = "open" /\ wfile' = out /\ Write(<<kind, out>>, {})
      /\ UNCHANGED <<gen, master>>
  BY DEF OpenFiles
<1>2. no \in FileNo /\ kind \in Kinds
  BY <1>1, FilesOfSamples DEF FilesInv, TypeInv, TypeOK, Control
<1>3. out \in FileNo
  BY <1>2, NextVersionType
<1>4. <<kind, out>> \notin NamedBy(master[gen])
  BY <1>1, NewNumber
<1>5. <<kind, out>> \in File
  BY <1>2, <1>3 DEF File
<1> HIDE DEF out
<1>6. OtherFiles(<<kind, out>>) /\ Held(files', <<kind, out>>) = {}
  BY <1>1 DEF Write, Held, OtherFiles
<1>7. QED
  BY <1>1, <1>4, <1>6 DEF Kept, OtherFiles

(* What goes into a file that is written.                                  *)
Entries ==
  LET current == cat[pos].files[kind]
      old == IF wfile # current THEN Held(files, <<kind, current>>) ELSE {}
  IN  IF op.op = "add" THEN Extended(old, pos, op.objs, op.t)
                       ELSE Contracted(old, pos)

LEMMA WriteFileKeeps ==
  ASSUME FilesInv, WriteFile
  PROVE  /\ Kept /\ <<kind, wfile>> \notin NamedBy(master[gen])
         /\ Held(files', <<kind, wfile>>) = Entries /\ OtherFiles(<<kind, wfile>>)
<1>1. /\ pc = "write" /\ Write(<<kind, wfile>>, Entries)
      /\ UNCHANGED <<gen, master>>
  BY DEF WriteFile, Entries, Content, Exists, Held
<1>2. <<kind, wfile>> \notin NamedBy(master[gen]) /\ <<kind, wfile>> \in File
  BY <1>1 DEF FilesInv, TypeInv, TypeOK, Transaction, Writing, File
<1>3. OtherFiles(<<kind, wfile>>) /\ Held(files', <<kind, wfile>>) = Entries
  BY <1>1 DEF Write, Held, OtherFiles
<1>4. QED
  BY <1>1, <1>2, <1>3 DEF Kept, OtherFiles

LEMMA CloseKeeps ==
  ASSUME FilesInv, pc \in Uncommitted, NEW new,
         master' = [master EXCEPT ![txgen + 1] = new], UNCHANGED <<gen, files>>
  PROVE  Kept
<1>1. gen # txgen + 1 /\ gen \in Gens
  BY NextGeneration DEF FilesInv
<1>2. QED
  BY <1>1 DEF Kept, Held, FilesInv, TypeInv, TypeOK

LEMMA UnnamedKeeps ==
  ASSUME FilesInv, NEW seq \in Seq(File), seq # <<>>, Apart(seq, master[gen]),
         Remove(Head(seq)), UNCHANGED <<gen, master>>
  PROVE  Kept
<1>1. Head(seq) \notin NamedBy(master[gen])
  BY TailApart
<1>2. OtherFiles(Head(seq))
  BY DEF Remove, Held, OtherFiles
<1>3. QED
  BY <1>1, <1>2 DEF Kept, OtherFiles

(* Only the write of the generation changes what readers see.              *)
LEMMA StepKeepsFiles ==
  ASSUME FilesInv, Next, ~WriteGeneration, ~FailAfterCommit
  PROVE  Kept
<1>1. ASSUME NEW id, NEW objs,
             \/ BeginAddNew(id, objs) \/ BeginAddAgain(id, objs)
             \/ BeginRemove(id) \/ BeginRemoveNothing(id)
      PROVE  Kept
  BY <1>1, BeginKeeps DEF BeginAddNew, BeginAddAgain, BeginRemove, BeginRemoveNothing
<1>2. CASE OpenFiles
  BY <1>2, OpenFilesKeeps
<1>3. CASE WriteFile
  BY <1>3, WriteFileKeeps
<1>4. CASE CloseMaster \/ Fail \/ CancelUpdate
  BY <1>4, CloseKeeps DEF CloseMaster, Fail, CancelUpdate, Uncommitted
<1>5. CASE RemoveOldMaster
  <2>1. gen = txgen + 1 /\ txgen \in Nat
    BY <1>5, Bounds DEF RemoveOldMaster, FilesInv, TypeInv, TypeOK, Control
  <2>2. /\ master' = [master EXCEPT ![txgen] = Null] /\ gen' = gen /\ files' = files
    BY <1>5 DEF RemoveOldMaster
  <2>3. gen # txgen
    BY <2>1
  <2>4. QED
    BY <2>2, <2>3 DEF Kept, Held, FilesInv, TypeInv, TypeOK
<1>6. CASE RemoveOldFile
  BY <1>6, UnnamedKeeps
  DEF RemoveOldFile, FilesInv, TypeInv, TypeOK, Transaction
<1>7. CASE UndoFile
  BY <1>7, UnnamedKeeps
  DEF UndoFile, FilesInv, TypeInv, TypeOK, Transaction, Uncommitted
<1>8. CASE EndUpdate \/ Crash
  BY <1>8 DEF EndUpdate, Crash, disk, Kept, Held
<1>9. QED
  BY <1>1, <1>2, <1>3, <1>4, <1>5, <1>6, <1>7, <1>8 DEF Next, Update

LEMMA RowsKept ==
  ASSUME TypeInv, Kept
  PROVE  /\ \A k \in Kinds, n \in DOMAIN master[gen] :
              /\ Held(files', <<k, master[gen][n].files[k]>>)
                   = Held(files, <<k, master[gen][n].files[k]>>)
              /\ In(files', master[gen], k, n) = In(files, master[gen], k, n)
         /\ Consistent => Consistent'
<1>1. \A k \in Kinds, n \in DOMAIN master[gen] :
        Held(files', <<k, master[gen][n].files[k]>>)
          = Held(files, <<k, master[gen][n].files[k]>>)
  BY DEF Kept, NamedBy
<1>2. Known(files, master[gen]) => Known(files', master[gen])
  BY <1>1 DEF Known
<1>3. QED
  BY <1>1, <1>2 DEF Consistent, In, Of, Kept

(* The list that readers see, with the files read as above.                *)
View(fs, list) ==
  [n \in DOMAIN list |->
    [id    |-> list[n].id,
     shown |-> list[n].shown,
     held  |-> [k \in Kinds |-> {<<e[2], e[3]>> : e \in In(fs, list, k, n)}]]]

LEMMA CommittedIsView == Committed = View(files, master[gen])
  BY DEF Committed, View, In, Of, Held, Content, Exists

LEMMA ViewKept ==
  ASSUME TypeInv, Kept
  PROVE  View(files', master'[gen']) = View(files, master[gen])
  BY RowsKept DEF View, Kept

(* Between transactions nothing is pending.                                *)
LEMMA NothingPending ==
  ASSUME pc' \in {"idle", "undo", "dropmaster", "dropfiles"}
  PROVE  Pending'
  BY DEF Pending, Under, Changing

LEMMA Transacting ==
  ASSUME ContentInv, pc \in {"open", "write"}
  PROVE  /\ TypeInv /\ gen \in Nat /\ txgen = gen
         /\ master[gen] \in Seq(SampleRecord) /\ cat \in Seq(SampleRecord)
         /\ pos \in DOMAIN cat /\ pos \in Nat \ {0} /\ kind \in Kinds
         /\ op \in Request
         /\ Changing /\ Under /\ Asked /\ Copied /\ Written
         /\ \A k \in Kinds : Ready(k) /\ (Done(k) <=> kind = "info" /\ k = "data")
         /\ ~Done(kind)
<1>1. TypeInv /\ Changing /\ Transaction /\ gen \in Nat
  BY Bounds DEF ContentInv, FilesInv, TypeInv, TypeOK, Changing
<1>2. pos # 0 /\ op \in Request /\ txgen = gen /\ master[gen] \in Seq(SampleRecord)
  BY <1>1 DEF TypeInv, Control, Uncommitted
<1>3. Under /\ Asked /\ Copied /\ Written
  BY <1>1, <1>2 DEF ContentInv, Pending, Under
<1>4. \A k \in Kinds : Ready(k)
  BY <1>1 DEF Transaction
<1>5. QED
  BY <1>1, <1>2, <1>3, <1>4 DEF Done, TypeInv, TypeOK

LEMMA FirstIsIn ==
  ASSUME NEW list \in Seq(SampleRecord), NEW id, Positions(list, id) # {}
  PROVE  /\ First(Positions(list, id)) \in DOMAIN list
         /\ list[First(Positions(list, id))].id = id
<1>1. Positions(list, id) \in SUBSET Nat
  BY DEF Positions
<1>2. \E n \in Positions(list, id) : \A m \in Positions(list, id) : n <= m
  BY <1>1, LeastElement
<1>3. First(Positions(list, id)) \in Positions(list, id)
  BY <1>2 DEF First
<1>4. QED
  BY <1>3 DEF Positions

(* A new sample goes where no entry has its number, unless a dead updater  *)
(* has left some there.                                                    *)
LEMMA PlaceIsFresh ==
  ASSUME ContentInv, NEW k \in Kinds, NEW no, ~Leftover(k, no)
  PROVE  \A e \in Held(files, <<k, no>>) : e[1] \in DOMAIN master[gen]
<1>1. CASE <<k, no>> \in NamedBy(master[gen])
  <2>1. PICK n \in DOMAIN master[gen] : master[gen][n].files[k] = no
    BY <1>1 DEF NamedBy
  <2>2. QED
    BY <2>1 DEF ContentInv, Consistent, Known
<1>2. CASE Content(<<k, no>>) = {}
  BY <1>2 DEF Content, Exists, Held
<1>3. QED
  BY <1>1, <1>2 DEF Leftover

------------------------------------------------------------------------------
(* The steps of a transaction                                              *)

LEMMA AddNewKeeps ==
  ASSUME ContentInv, TypeInv', Kept, NEW id \in Importable,
         NEW objs \in (SUBSET Objects) \ {{}}, BeginAddNew(id, objs),
         accidents' = {}
  PROVE  Pending'
<1> DEFINE list == master[gen]
           place == [k \in Kinds |-> Place(list, k)]
           new == [id |-> id, files |-> place, shown |-> TRUE]
<1>1. /\ pc = "idle" /\ pc' = "open" /\ kind = "data" /\ kind' = kind
      /\ files' = files /\ master'[gen'] = list /\ gen' = gen
      /\ op' = [op |-> "add", id |-> id, objs |-> objs, t |-> ntx + 1]
      /\ cat' = Append(list, new) /\ pos' = Len(list) + 1
      /\ Positions(list, id) = {}
      /\ \A k \in Kinds : ~Leftover(k, Place(list, k))
  BY DEF BeginAddNew, BeginUpdate, ContentInv, FilesInv, Transaction, Kept
<1>2. list \in Seq(SampleRecord) /\ DOMAIN list = 1 .. Len(list) /\ Len(list) \in Nat
  BY DEF ContentInv, FilesInv, TypeInv, Control
<1>3. ~Old' /\ pos' # 0
  BY <1>1, <1>2 DEF Old
<1>4. Asked'
  BY <1>1, <1>3 DEF Asked
<1>5. /\ DOMAIN cat' = DOMAIN list \cup {pos'}
      /\ cat'[pos'].id = id /\ cat'[pos'].shown = TRUE /\ cat'[pos'].files = place
  <2>1. cat' = Append(list, new) /\ pos' = Len(list) + 1
    BY <1>1
  <2>2. new.id = id /\ new.shown = TRUE /\ new.files = place
    OBVIOUS
  <2> HIDE DEF new, place
  <2>3. QED
    BY <1>2, <2>1, <2>2
<1>6. Copied'
  <2>1. op'.id = id
    BY <1>1
  <2>2. QED
    BY <1>1, <1>3, <1>5, <2>1 DEF Copied
<1>7. Written'
  <2> SUFFICES ASSUME NEW k \in Kinds PROVE Source(k)' /\ ~Done(k)'
    BY <1>3 DEF Written
  <2>1. ~Done(k)'
    BY <1>1 DEF Done
  <2>2. \A e \in Held(files, <<k, Place(list, k)>>) : e[1] \in DOMAIN list
    BY <1>1, PlaceIsFresh
  <2>3. cat'[pos'].files[k] = Place(list, k)
    BY <1>5
  <2>4. QED
    BY <1>1, <1>3, <2>1, <2>2, <2>3 DEF Source
<1>8. QED
  BY <1>1, <1>4, <1>6, <1>7 DEF Pending

(* An update of a sample that the index has begins with its record.        *)
LEMMA KnownKeeps ==
  ASSUME ContentInv, TypeInv', Kept, NEW id, NEW objs, NEW what \in Ops,
         \/ what = "add" /\ id \in Importable /\ objs # {}
         \/ what = "remove" /\ id \in Removable,
         BeginUpdate(what, id, objs), Positions(master[gen], id) # {},
         cat' = master[gen], pos' = First(Positions(master[gen], id)), pc' = "open"
  PROVE  Pending'
<1> DEFINE list == master[gen]
<1>1. /\ kind' = "data" /\ files' = files /\ master'[gen'] = list /\ gen' = gen
      /\ op'.op = what /\ op'.id = id /\ op'.objs = objs
  BY DEF BeginUpdate, ContentInv, FilesInv, Transaction, Kept
<1>2. list \in Seq(SampleRecord)
  BY DEF ContentInv, FilesInv, TypeInv, Control
<1>3. pos' \in DOMAIN list /\ list[pos'].id = id
  BY <1>2, FirstIsIn
<1>4. Old'
  BY <1>1, <1>3 DEF Old
<1>5. Asked'
  BY <1>1, <1>4 DEF Asked
<1>7. Copied'
  BY <1>1, <1>3, <1>4 DEF Copied
<1>8. Written'
  BY <1>1, <1>4 DEF Written, Source, Done
<1>9. QED
  BY <1>1, <1>5, <1>7, <1>8 DEF Pending

(* A removal that finds no such sample.                                    *)
LEMMA NothingKeeps ==
  ASSUME ContentInv, NEW id, BeginRemoveNothing(id)
  PROVE  Pending'
  BY DEF BeginRemoveNothing, Pending, Under, Changing

LEMMA OpenFilesContent ==
  ASSUME ContentInv, TypeInv', Kept, OpenFiles
  PROVE  Pending'
<1>1. /\ pc = "open" /\ pc' = "write"
      /\ UNCHANGED <<op, cat, pos, kind, newfiles>>
  BY DEF OpenFiles
<1> DEFINE f == <<kind, wfile'>>
<1>2. Held(files', f) = {} /\ OtherFiles(f) /\ f \notin NamedBy(master[gen])
  BY OpenFilesKeeps DEF ContentInv
<1>3. /\ Asked /\ Copied /\ Written /\ Changing /\ kind \in Kinds
      /\ \A k \in Kinds : Done(k) <=> kind = "info" /\ k = "data"
  BY <1>1, Transacting
<1>4. /\ gen' = gen /\ master'[gen'] = master[gen]
      /\ \A k \in Kinds, n \in DOMAIN master[gen] :
           In(files', master[gen], k, n) = In(files, master[gen], k, n)
  BY RowsKept DEF Kept, ContentInv, FilesInv
<1> HIDE DEF f
<1>5. \A k : Done(k)' <=> Done(k)
  BY <1>1 DEF Done
<1>6. Old' <=> Old
  BY <1>1, <1>4 DEF Old
<1>7. Asked' /\ Copied'
  BY <1>1, <1>3, <1>4, <1>6 DEF Asked, Copied
<1>8. Written'
  <2> SUFFICES ASSUME NEW k \in Kinds
               PROVE  /\ Done(k) => Updated(k, cat[pos].files[k])'
                      /\ ~Done(k) => Source(k)'
                      /\ Old => cat[pos].files[k].idx = master[gen][pos].files[k].idx
    BY <1>1, <1>4, <1>5, <1>6 DEF Written
  <2>1. ASSUME Done(k) PROVE Updated(k, cat[pos].files[k])'
    <3>1. k # kind
      BY <1>3, <2>1
    <3>2. \A no : Held(files', <<k, no>>) = Held(files, <<k, no>>)
      BY <1>2, <3>1 DEF OtherFiles, f
    <3>3. After(k)' = After(k)
      BY <1>1, <1>4, <1>6 DEF After, Before, Old
    <3>4. Updated(k, cat[pos].files[k])
      BY <1>3, <2>1 DEF Written
    <3>5. QED
      BY <1>1, <1>4, <3>2, <3>3, <3>4 DEF Updated, Of
  <2>2. ASSUME ~Done(k) PROVE Source(k)'
    <3>1. Source(k)
      BY <1>3, <2>2 DEF Written
    <3>2. \A g : Held(files', g) \in {{}, Held(files, g)}
      BY <1>2 DEF OtherFiles
    <3>3. QED
      BY <1>1, <1>4, <1>6, <3>1, <3>2 DEF Source
  <2>3. Old => cat[pos].files[k].idx = master[gen][pos].files[k].idx
    BY <1>3 DEF Written
  <2>4. QED
    BY <2>1, <2>2, <2>3
<1>10. QED
  BY <1>1, <1>7, <1>8 DEF Pending

LEMMA WriteFileContent ==
  ASSUME ContentInv, TypeInv', Kept, WriteFile, accidents' = {}
  PROVE  Pending'
<1> DEFINE no == cat[pos].files[kind]
           f == <<kind, wfile>>
           old == IF wfile # no THEN Held(files, <<kind, no>>) ELSE {}
<1>1. /\ pc = "write" /\ pc' = IF kind = "data" THEN "open" ELSE "commit"
      /\ kind' = "info" /\ pos' = pos /\ op' = op
      /\ newfiles' = Append(newfiles, f)
  BY DEF WriteFile
<1>2. /\ Asked /\ Copied /\ Written /\ Changing /\ kind \in Kinds
      /\ \A k \in Kinds : Ready(k) /\ (Done(k) <=> kind = "info" /\ k = "data")
      /\ cat \in Seq(SampleRecord) /\ pos \in DOMAIN cat /\ pos \in Nat \ {0}
      /\ op \in Request /\ gen \in Nat /\ TypeInv
  BY <1>1, Transacting
<1>3. /\ Held(files', f) = Entries /\ OtherFiles(f) /\ f \notin NamedBy(master[gen])
  BY WriteFileKeeps DEF ContentInv
<1> PICK kd \in Kinds, nf \in FileNo : kd = kind /\ nf = wfile
  BY <1>2 DEF TypeInv, TypeOK
<1>4. /\ gen' = gen /\ master'[gen'] = master[gen]
      /\ \A k \in Kinds, n \in DOMAIN master[gen] :
           /\ In(files', master[gen], k, n) = In(files, master[gen], k, n)
           /\ Held(files', <<k, master[gen][n].files[k]>>)
                = Held(files, <<k, master[gen][n].files[k]>>)
  BY RowsKept DEF Kept, ContentInv, FilesInv
<1>5. no \in FileNo /\ wfile \in {no, NextVersion(no)} /\ wfile.idx = no.idx
  <2>1. no \in FileNo
    BY <1>2, FilesOfSamples
  <2>2. wfile \in {no, NextVersion(no)}
    BY <1>1 DEF ContentInv, FilesInv, Transaction, Writing
  <2>3. QED
    BY <2>1, <2>2, NextVersionType
(* The catalogue gets the number of the file that was written.             *)
<1>6. /\ \A n \in DOMAIN cat : n # pos => cat'[n] = cat[n]
      /\ DOMAIN cat' = DOMAIN cat
      /\ cat'[pos].id = cat[pos].id /\ cat'[pos].shown = cat[pos].shown
      /\ cat'[pos].files[kind] = wfile
      /\ \A k \in Kinds : k # kind => cat'[pos].files[k] = cat[pos].files[k]
  <2>1. cat[pos] \in SampleRecord
    BY <1>2
  <2>2. CASE wfile = no
    BY <1>1, <2>2 DEF WriteFile
  <2>3. CASE wfile # no
    <3>1. wfile = NextVersion(no)
      BY <1>5, <2>3
    <3>2. InReach(no, gen) /\ gen + 1 <= Len(Imported) + MaxTx
      <4>1. InReach(no, gen)
        BY <1>2 DEF Ready
      <4>2. gen \in Nat /\ txgen < ntx /\ txgen = gen /\ ntx \in 0 .. (Len(Imported) + MaxTx)
        BY <1>1, <1>2, Transacting DEF TypeInv, TypeOK, Control
      <4>3. QED
        BY <4>1, <4>2, Bounds
    <3>3. op.op = "remove" => no.ver + 1 # Versions
      BY <2>3 DEF WriteFile
    <3>4. op.op \in Ops
      BY <1>2 DEF Request
    <3>5. (IF op.op = "add" THEN ExtendNumber(no) ELSE ContractNumber(no)) = wfile
      BY <1>2, <1>5, <3>1, <3>2, <3>3, <3>4, StepsAgree
      DEF ExtendNumber, Ops
    <3>6. cat' = [cat EXCEPT ![pos].files[kind] = wfile]
      BY <2>3, <3>5 DEF WriteFile
    <3>7. QED
      BY <1>2, <2>1, <3>6 DEF SampleRecord
  <2>4. QED
    BY <2>2, <2>3
<1>7. /\ Done(kd)' /\ ~Done(kd)
      /\ \A k \in Kinds : k # kd => (Done(k)' <=> Done(k))
  BY <1>1, <1>2 DEF Done, Kinds
<1>8. Old' <=> Old
  BY <1>1, <1>4 DEF Old
<1>9. Asked' /\ Copied'
  BY <1>1, <1>2, <1>4, <1>6, <1>8 DEF Asked, Copied
<1>10. \A k \in Kinds : After(k)' = After(k)
  BY <1>1, <1>4, <1>8 DEF After, Before, Old
<1>11. Source(kind) /\ Fits(master[gen], kind, no)
  BY <1>2, <1>7 DEF Written, Ready
(* A file that the catalogue names is copied.                              *)
<1>12. \A n \in DOMAIN master[gen] :
         master[gen][n].files[kind].idx = no.idx =>
           master[gen][n].files[kind] = no /\ wfile # no
  <2> SUFFICES ASSUME NEW n \in DOMAIN master[gen], master[gen][n].files[kind].idx = no.idx
               PROVE  master[gen][n].files[kind] = no /\ wfile # no
    OBVIOUS
  <2>1. master[gen][n].files[kind] = no
    BY <1>11 DEF Fits
  <2>2. <<kind, no>> \in NamedBy(master[gen])
    BY <1>2, <2>1 DEF NamedBy
  <2>3. QED
    BY <1>3, <2>1, <2>2
<1>13. pos \notin DOMAIN master[gen] =>
         \A e \in Held(files, <<kind, no>>) : e[1] \in DOMAIN master[gen]
  BY <1>11 DEF Source, Old
<1>14. \A e \in old : e[1] \in DOMAIN master[gen]
  <2>1. CASE Old
    <3>1. no = master[gen][pos].files[kind] /\ pos \in DOMAIN master[gen]
      BY <1>11, <2>1 DEF Source, Old
    <3>2. QED
      BY <1>2, <3>1 DEF ContentInv, Consistent, Known
  <2>2. CASE ~Old
    BY <1>13, <2>2 DEF Old
  <2>3. QED
    BY <2>1, <2>2
<1>15. {x \in old : x[1] = pos} = Before(kind)
  <2>1. CASE Old
    <3>1. no = master[gen][pos].files[kind] /\ pos \in DOMAIN master[gen]
      BY <1>11, <2>1 DEF Source, Old
    <3>2. wfile # no
      BY <1>12, <3>1
    <3>3. QED
      BY <2>1, <3>1, <3>2 DEF Before, In, Of
  <2>2. CASE ~Old
    BY <1>14, <2>2 DEF Before, Old
  <2>3. QED
    BY <2>1, <2>2
<1>16. /\ Entries = IF op.op = "add" THEN Extended(old, pos, op.objs, op.t)
                                     ELSE Contracted(old, pos)
  BY DEF Entries
<1> HIDE DEF old
<1>17. /\ \A e \in Entries : e[1] \in DOMAIN master[gen] \cup {pos}
       /\ {x \in Entries : x[1] = pos} = After(kind)
       /\ \A n : n # pos => {x \in Entries : x[1] = n} = {x \in old : x[1] = n}
  <2>1. CASE op.op = "add"
    <3>1. \A e : e \in Entries <=>
            \/ e \in old /\ ~(e[1] = pos /\ e[2] \in op.objs)
            \/ e \in {pos} \X op.objs \X {op.t}
      BY <1>16, <2>1 DEF Extended
    <3>2. \A e \in {pos} \X op.objs \X {op.t} : e[1] = pos
      OBVIOUS
    <3>3. After(kind) = {e \in {x \in old : x[1] = pos} : e[2] \notin op.objs}
                          \cup ({pos} \X op.objs \X {op.t})
      BY <1>15, <2>1 DEF After, Added
    <3> HIDE DEF Entries
    <3>4. QED
      BY <1>14, <3>1, <3>2, <3>3
  <2>2. CASE op.op # "add"
    BY <1>14, <1>16, <2>2 DEF After, Contracted
  <2>3. QED
    BY <2>1, <2>2
<1>18. Updated(kd, nf)'
  <2>1. \A n \in DOMAIN master[gen] :
          n # pos /\ master[gen][n].files[kind].idx = wfile.idx =>
            {x \in old : x[1] = n} = In(files, master[gen], kind, n)
    BY <1>5, <1>12 DEF In, Of, old
  <2>2. Held(files', <<kd, nf>>) = Entries
    BY <1>3
  <2> HIDE DEF Entries
  <2>3. \A n : Of(files', <<kd, nf>>, n) = {x \in Entries : x[1] = n}
    BY <2>2 DEF Of
  <2>4. Of(files', <<kd, nf>>, pos) = After(kd)'
    BY <1>10, <1>17, <2>3
  <2>5. \A n \in DOMAIN master[gen] :
          n # pos /\ master[gen][n].files[kd].idx = nf.idx =>
            Of(files', <<kd, nf>>, n) = In(files', master[gen], kd, n)
    BY <1>4, <1>17, <2>1, <2>3, ZenonT(60)
  <2>6. QED
    BY <1>1, <1>4, <1>17, <2>2, <2>4, <2>5 DEF Updated
<1>19. Written'
  <2> SUFFICES ASSUME NEW k \in Kinds
               PROVE  /\ Done(k)' => Updated(k, cat[pos].files[k])'
                      /\ ~Done(k)' => Source(k)'
                      /\ Old => cat'[pos].files[k].idx = master[gen][pos].files[k].idx
    BY <1>1, <1>4, <1>8 DEF Written
  <2>1. Old => cat[pos].files[k].idx = master[gen][pos].files[k].idx
    BY <1>2 DEF Written
  <2>2. CASE k = kd
    <3>1. cat'[pos'].files[k] = nf
      BY <1>1, <1>6, <2>2
    <3>2. Updated(k, cat[pos].files[k])'
      BY <1>18, <2>2, <3>1 DEF Updated
    <3>3. QED
      BY <1>1, <1>5, <1>7, <2>1, <2>2, <3>1, <3>2
  <2>3. CASE k # kd
    <3>1. \A n : Held(files', <<k, n>>) = Held(files, <<k, n>>)
      BY <1>3, <2>3 DEF OtherFiles
    <3>2. cat'[pos'].files[k] = cat[pos].files[k]
      BY <1>1, <1>6, <2>3
    <3>3. Done(k)' => Updated(k, cat[pos].files[k])'
      <4>1. Done(k) => Updated(k, cat[pos].files[k])
        BY <1>2 DEF Written
      <4>2. PICK new \in FileNo : new = cat[pos].files[k]
        BY <1>2, FilesOfSamples
      <4>3. /\ \A n : Of(files', <<k, new>>, n) = Of(files, <<k, new>>, n)
            /\ Held(files', <<k, new>>) = Held(files, <<k, new>>)
        BY <3>1 DEF Of
      <4>4. Updated(k, new) => Updated(k, new)'
        BY <1>1, <1>4, <1>10, <4>3 DEF Updated
      <4>5. QED
        BY <1>7, <2>3, <3>2, <4>1, <4>2, <4>4 DEF Updated
    <3>4. ~Done(k)' => Source(k)'
      <4>1. ~Done(k) => Source(k)
        BY <1>2 DEF Written
      <4>2. QED
        BY <1>1, <1>4, <1>7, <1>8, <2>3, <3>1, <3>2, <4>1 DEF Source
    <3>5. QED
      BY <1>1, <2>1, <3>2, <3>3, <3>4
  <2>4. QED
    BY <2>2, <2>3
<1>21. QED
  BY <1>1, <1>9, <1>19 DEF Pending

(* The next catalogue keeps the names, and hides a removed sample.         *)
LEMMA CatalogueNames ==
  ASSUME cat \in Seq(SampleRecord), pos \in 0 .. Len(cat)
  PROVE  \A n \in DOMAIN cat :
           /\ NewCatalogue[n].id = cat[n].id
           /\ NewCatalogue[n].shown =
                IF op.op = "remove" /\ n = pos THEN FALSE ELSE cat[n].shown
<1> DEFINE shared == Share(cat, Target)
<1>1. \A n \in DOMAIN cat : cat[n] \in SampleRecord
  OBVIOUS
<1>2. /\ DOMAIN shared = DOMAIN cat
      /\ \A n \in DOMAIN cat : shared[n] \in SampleRecord
      /\ \A n \in DOMAIN cat : shared[n].id = cat[n].id /\ shared[n].shown = cat[n].shown
  <2>1. /\ shared \in Seq(SampleRecord) /\ Len(shared) = Len(cat)
    BY TargetType, ShareType
  <2>2. \A n \in DOMAIN cat : shared[n].id = cat[n].id /\ shared[n].shown = cat[n].shown
    BY <1>1 DEF Share, SampleRecord
  <2>3. QED
    BY <2>1, <2>2
<1>3. NewCatalogue = IF op.op = "remove" /\ pos # 0
                     THEN [shared EXCEPT ![pos].shown = FALSE] ELSE shared
  BY DEF NewCatalogue, Target
<1> HIDE DEF shared
<1>4. 0 \notin DOMAIN cat
  OBVIOUS
<1>5. QED
  BY <1>2, <1>3, <1>4 DEF SampleRecord

LEMMA CatalogueResult ==
  ASSUME ContentInv, pc = "commit", pos # 0
  PROVE  Result(NewCatalogue)
<1> DEFINE list == master[gen]
<1>1. /\ cat \in Seq(SampleRecord) /\ pos \in DOMAIN cat /\ pos \in 0 .. Len(cat)
      /\ list \in Seq(SampleRecord) /\ op \in Request
  BY DEF ContentInv, FilesInv, TypeInv, TypeOK, Control
<1>2. /\ Asked /\ Copied /\ DOMAIN cat = DOMAIN list \cup {pos}
      /\ \A k \in Kinds : /\ Updated(k, cat[pos].files[k])
                          /\ Old => cat[pos].files[k].idx = list[pos].files[k].idx
      /\ \A n \in DOMAIN cat : n # pos => n \in DOMAIN list /\ cat[n] = list[n]
  BY DEF ContentInv, Pending, Under, Changing, Copied, Written, Done, FilesInv, Transaction
<1>3. Target = cat[pos].files /\ Target \in [Kinds -> FileNo]
  BY <1>1, TargetType DEF Target
<1>4. /\ DOMAIN NewCatalogue = DOMAIN cat
      /\ \A n \in DOMAIN cat, k \in Kinds :
           NewCatalogue[n].files[k] =
             IF cat[n].files[k].idx = cat[pos].files[k].idx THEN cat[pos].files[k]
                                                            ELSE cat[n].files[k]
  <2>1. /\ DOMAIN NewCatalogue = DOMAIN cat
        /\ \A n \in DOMAIN cat, k \in Kinds :
             NewCatalogue[n].files[k] = Share(cat, Target)[n].files[k]
    BY <1>1, NewCatalogueType
  <2>2. \A n \in DOMAIN cat, k \in Kinds :
          Share(cat, Target)[n].files[k] =
            IF cat[n].files[k].idx = Target[k].idx THEN Target[k] ELSE cat[n].files[k]
    BY <1>1, <1>3, ShareType
  <2>3. QED
    BY <1>3, <2>1, <2>2
<1>5. \A n \in DOMAIN cat :
        /\ NewCatalogue[n].id = cat[n].id
        /\ NewCatalogue[n].shown =
             IF op.op = "remove" /\ n = pos THEN FALSE ELSE cat[n].shown
  BY <1>1, CatalogueNames
<1>6. \A k \in Kinds : In(files, NewCatalogue, k, pos) = After(k)
  BY <1>1, <1>2, <1>4 DEF In, Updated
<1>7. \A n \in DOMAIN list, k \in Kinds :
        n # pos => In(files, NewCatalogue, k, n) = In(files, list, k, n)
  <2> SUFFICES ASSUME NEW n \in DOMAIN list, NEW k \in Kinds, n # pos
               PROVE  In(files, NewCatalogue, k, n) = In(files, list, k, n)
    OBVIOUS
  <2>1. n \in DOMAIN cat /\ cat[n] = list[n]
    BY <1>2
  <2>2. CASE list[n].files[k].idx = cat[pos].files[k].idx
    <3>1. NewCatalogue[n].files[k] = cat[pos].files[k]
      BY <1>4, <2>1, <2>2
    <3>2. Of(files, <<k, cat[pos].files[k]>>, n) = In(files, list, k, n)
      BY <1>2, <2>2 DEF Updated
    <3>3. QED
      BY <3>1, <3>2 DEF In
  <2>3. CASE list[n].files[k].idx # cat[pos].files[k].idx
    BY <1>4, <2>1, <2>3 DEF In
  <2>4. QED
    BY <2>2, <2>3
<1>8. \A n \in DOMAIN list, k \in Kinds :
        NewCatalogue[n].files[k].idx = list[n].files[k].idx
  BY <1>1, <1>2, <1>4 DEF Old
<1>9. Known(files, NewCatalogue)
  <2> SUFFICES ASSUME NEW k \in Kinds, NEW n \in DOMAIN cat,
                      NEW e \in Held(files, <<k, NewCatalogue[n].files[k]>>)
               PROVE  e[1] \in DOMAIN cat
    BY <1>4 DEF Known
  <2>1. CASE NewCatalogue[n].files[k] = cat[pos].files[k]
    BY <1>2, <2>1 DEF Updated
  <2>2. CASE NewCatalogue[n].files[k] # cat[pos].files[k]
    <3>1. n # pos /\ NewCatalogue[n].files[k] = cat[n].files[k]
      BY <1>1, <1>4, <2>2
    <3>2. n \in DOMAIN list /\ cat[n] = list[n]
      BY <1>2, <3>1
    <3>3. Known(files, list)
      BY DEF ContentInv, Consistent
    <3>4. QED
      BY <1>2, <3>1, <3>2, <3>3 DEF Known
  <2>3. QED
    BY <2>1, <2>2
<1>10. /\ NewCatalogue[pos].id = op.id
       /\ NewCatalogue[pos].shown = IF op.op = "remove" THEN FALSE
                                    ELSE IF Old THEN list[pos].shown ELSE TRUE
  BY <1>1, <1>2, <1>5 DEF Copied
<1>11. \A n \in DOMAIN list : n # pos =>
         NewCatalogue[n].id = list[n].id /\ NewCatalogue[n].shown = list[n].shown
  BY <1>2, <1>5
<1> HIDE DEF list
<1>12. QED
  BY <1>2, <1>4, <1>6, <1>7, <1>8, <1>9, <1>10, <1>11 DEF Result, list

(* A removal that finds nothing writes the catalogue out as it was.        *)
LEMMA CatalogueSame ==
  ASSUME ContentInv, pc = "commit", pos = 0
  PROVE  NewCatalogue = master[gen]
<1>1. /\ cat \in Seq(SampleRecord) /\ cat = master[gen] /\ gen \in Nat
      /\ Tidy(cat, gen)
  BY Bounds DEF ContentInv, FilesInv, TypeInv, TypeOK, Transaction
<1>2. /\ NewCatalogue = Share(cat, Target)
      /\ \A k \in Kinds : Target[k] = LastFile(cat, k)
  BY DEF NewCatalogue, Target
<1>3. \A n \in DOMAIN cat, k \in Kinds :
        cat[n].files[k].idx = Target[k].idx => cat[n].files[k] = Target[k]
  BY <1>1, <1>2, LastFits DEF Fits
<1>4. ASSUME NEW n \in DOMAIN cat PROVE Share(cat, Target)[n] = cat[n]
  <2> DEFINE moved == [k \in Kinds |-> IF cat[n].files[k].idx = Target[k].idx
                                       THEN Target[k] ELSE cat[n].files[k]]
  <2>1. cat[n] \in SampleRecord
    BY <1>1
  <2>2. moved = cat[n].files
    BY <1>3, <2>1 DEF SampleRecord
  <2>3. Share(cat, Target)[n] = [cat[n] EXCEPT !.files = moved]
    BY DEF Share
  <2> HIDE DEF moved
  <2>4. QED
    BY <2>1, <2>2, <2>3 DEF SampleRecord
<1>5. Share(cat, Target) = [n \in DOMAIN cat |-> Share(cat, Target)[n]]
  BY DEF Share
<1>6. Share(cat, Target) = [n \in DOMAIN cat |-> cat[n]]
  BY <1>4, <1>5
<1>7. cat = [n \in DOMAIN cat |-> cat[n]]
  BY <1>1
<1>8. QED
  BY <1>1, <1>2, <1>6, <1>7

LEMMA CloseMasterContent ==
  ASSUME ContentInv, Kept, CloseMaster
  PROVE  Pending'
<1>1. /\ pc = "commit" /\ pc' = "publish" /\ master'[txgen + 1] = NewCatalogue
      /\ UNCHANGED <<files, op, txgen, pos, newfiles>>
      /\ gen' = gen /\ master'[gen'] = master[gen]
  <2>1. txgen + 1 \in Gens
    BY NextGeneration DEF ContentInv, FilesInv, CloseMaster, Uncommitted
  <2>2. QED
    BY <2>1 DEF CloseMaster, memory, Kept, ContentInv, FilesInv, TypeInv, TypeOK
<1>2. pos # 0 => Asked'
  BY <1>1 DEF ContentInv, Pending, Under, Asked, Old
<1>3. pos # 0 => Result(master[txgen + 1])'
  <2> SUFFICES ASSUME pos # 0 PROVE Result(master[txgen + 1])'
    OBVIOUS
  <2>1. Result(NewCatalogue)
    BY <1>1, CatalogueResult
  <2>2. \A k \in Kinds : After(k)' = After(k)
    BY <1>1 DEF After, Before, Old
  <2>3. QED
    <3>1. /\ files' = files /\ pos' = pos /\ op' = op /\ master'[gen'] = master[gen]
          /\ master'[txgen' + 1] = NewCatalogue /\ Old' = Old
      BY <1>1 DEF Old
    <3> HIDE DEF NewCatalogue
    <3>2. QED
      BY <2>1, <2>2, <3>1 DEF Result
<1>4. pos = 0 => master'[txgen + 1] = master[gen]
  BY <1>1, CatalogueSame
<1>7. QED
  BY <1>1, <1>2, <1>3, <1>4 DEF Pending, Changing, Under

(* The write of the generation, and the atomic step it is.                 *)
LEMMA WriteGenerationContent ==
  ASSUME ContentInv, TypeInv', WriteGeneration
  PROVE  Consistent' /\ Pending'
<1> DEFINE new == master[txgen + 1]
<1>1. /\ pc = "publish" /\ pc' = "dropmaster" /\ master'[gen'] = new /\ gen' = txgen + 1
      /\ UNCHANGED <<files, op, pos, newfiles>>
  BY DEF WriteGeneration, memory
<1>2. /\ pos # 0 => Asked /\ Result(new)
      /\ pos = 0 => new = master[gen]
      /\ op \in Request /\ new \in Seq(SampleRecord) /\ master[gen] \in Seq(SampleRecord)
  BY <1>1 DEF ContentInv, Pending, Under, FilesInv, TypeInv, TypeOK, Control
<1> HIDE DEF new
<1>3. Consistent'
  <2>1. Known(files, new)
    BY <1>2 DEF Result, ContentInv, Consistent
  <2>2. QED
    BY <1>1, <2>1 DEF Consistent
<1>4. QED
  BY <1>1, <1>3, NothingPending

LEMMA NothingAfter ==
  ASSUME \/ RemoveOldMaster \/ RemoveOldFile \/ EndUpdate \/ UndoFile
         \/ CancelUpdate \/ Fail \/ Crash
  PROVE  Pending'
<1>1. pc' \in {"idle", "undo", "dropfiles"}
  BY DEF RemoveOldMaster, RemoveOldFile, EndUpdate, UndoFile, CancelUpdate, Fail,
         Crash, Exit
<1>2. QED
  BY <1>1, NothingPending

LEMMA ContentInit ==
  ASSUME Init
  PROVE  ContentInv
<1>1. FilesInv
  BY FilesInit
<1>2. /\ gen = Len(Imported) /\ gen \in Gens /\ master[gen] = Preloaded
      /\ pc = "idle" /\ pos = 0 /\ kind = "data" /\ accidents = {}
      /\ files = [f \in NamedBy(Preloaded) |->
                    {<<n, o, n>> : n \in DOMAIN Imported, o \in Objects}]
  BY Bounds DEF Init
<1>3. DOMAIN Preloaded = DOMAIN Imported
  BY DEF Preloaded
<1>4. \A f : \A e \in Held(files, f) : e[1] \in DOMAIN Imported
  BY <1>2 DEF Held
<1>5. Consistent
  BY <1>2, <1>3, <1>4 DEF Consistent, Known
<1>6. Pending
  BY <1>2 DEF Pending, Under, Changing
<1>7. QED
  BY <1>1, <1>2, <1>5, <1>6 DEF ContentInv

LEMMA BeginContent ==
  ASSUME ContentInv, TypeInv', Kept, accidents' = {},
         \/ \E id \in Importable, objs \in (SUBSET Objects) \ {{}} :
              BeginAddNew(id, objs) \/ BeginAddAgain(id, objs)
         \/ \E id \in Removable : BeginRemove(id) \/ BeginRemoveNothing(id)
  PROVE  Pending'
<1>1. ASSUME NEW id \in Importable, NEW objs \in (SUBSET Objects) \ {{}}, BeginAddNew(id, objs)
      PROVE  Pending'
  BY <1>1, AddNewKeeps
<1>2. ASSUME NEW id \in Importable, NEW objs \in (SUBSET Objects) \ {{}}, BeginAddAgain(id, objs)
      PROVE  Pending'
  BY <1>2, KnownKeeps DEF BeginAddAgain, Ops
<1>3. ASSUME NEW id \in Removable, BeginRemove(id)
      PROVE  Pending'
  BY <1>3, KnownKeeps DEF BeginRemove, Ops
<1>4. ASSUME NEW id \in Removable, BeginRemoveNothing(id)
      PROVE  Pending'
  BY <1>4, NothingKeeps
<1>5. QED
  BY <1>1, <1>2, <1>3, <1>4

(* Until an accident happens, every step keeps the invariant.              *)
LEMMA ContentNext ==
  ASSUME ContentInv, [Next]_vars, accidents' = {}
  PROVE  ContentInv'
<1>1. FilesInv' /\ TypeInv' /\ ~FailAfterCommit
  <2>1. ~FailAfterCommit /\ Intact'
    BY DEF FailAfterCommit, Intact
  <2>2. TypeInv'
    BY <2>1, TypeNext DEF ContentInv, FilesInv
  <2>3. QED
    BY <2>1, <2>2, FilesNext DEF ContentInv
<1>2. CASE UNCHANGED vars
  <2>1. Consistent'
    BY <1>2 DEF vars, ContentInv, Consistent
  <2>3. Pending'
    <3>1. /\ Under' <=> Under
          /\ Changing' <=> Changing
          /\ Asked => Asked'
          /\ Copied => Copied'
      BY <1>2 DEF vars, Under, Changing, Asked, Old, Copied
    <3>2. \A k : /\ Source(k) => Source(k)'
                 /\ Done(k)' <=> Done(k)
                 /\ After(k)' = After(k)
      BY <1>2 DEF vars, Source, Old, Done, After, Before
    <3>3. Written => Written'
      BY <1>2, <3>2 DEF vars, Written, Updated, Old
    <3>4. pc = "publish" /\ pos # 0 =>
            (Result(master[txgen + 1]) => Result(master[txgen + 1])')
      BY <1>2, <3>2 DEF vars, Result, Old
    <3>5. QED
      BY <1>2, <3>1, <3>3, <3>4 DEF vars, ContentInv, Pending
  <2>4. QED
    BY <1>1, <2>1, <2>3 DEF ContentInv
<1>3. CASE WriteGeneration
  BY <1>1, <1>3, WriteGenerationContent DEF ContentInv
<1>4. CASE Next /\ ~WriteGeneration
  <2>1. Kept /\ Consistent'
    BY <1>1, <1>4, StepKeepsFiles, RowsKept DEF ContentInv, FilesInv
  <2>2. Pending'
    <3>1. CASE OpenFiles
      BY <1>1, <2>1, <3>1, OpenFilesContent
    <3>2. CASE WriteFile
      BY <1>1, <2>1, <3>2, WriteFileContent
    <3>3. CASE CloseMaster
      BY <2>1, <3>3, CloseMasterContent
    <3>4. CASE \/ RemoveOldMaster \/ RemoveOldFile \/ EndUpdate \/ UndoFile
               \/ CancelUpdate \/ Fail \/ Crash
      BY <3>4, NothingAfter
    <3>5. QED
      BY <1>1, <1>4, <2>1, <3>1, <3>2, <3>3, <3>4, BeginContent DEF Next, Update
  <2>3. QED
    BY <1>1, <2>1, <2>2 DEF ContentInv
<1>5. QED
  BY <1>2, <1>3, <1>4

(* Before an accident the files hold what they should; after one nothing   *)
(* is claimed.                                                             *)
AtomicInv == ContentInv \/ accidents # {}

LEMMA AtomicInvariant == Spec => []AtomicInv
<1>1. Init => AtomicInv
  BY ContentInit DEF AtomicInv
<1>2. AtomicInv /\ [Next]_vars => AtomicInv'
  BY ContentNext, AccidentsGrow DEF AtomicInv
<1>3. QED
  BY <1>1, <1>2, PTL DEF Spec

------------------------------------------------------------------------------
(* The files, catalogues and generations implement the list of samples     *)

Image(entries) == {<<e[2], e[3]>> : e \in entries}

LEMMA ViewFields ==
  ASSUME NEW list \in Seq(SampleRecord), NEW fs
  PROVE  /\ DOMAIN View(fs, list) = 1 .. Len(list)
         /\ Len(View(fs, list)) = Len(list)
         /\ \A n \in DOMAIN list :
              View(fs, list)[n] =
                [id |-> list[n].id, shown |-> list[n].shown,
                 held |-> [k \in Kinds |-> Image(In(fs, list, k, n))]]
  BY DEF View, Image

LEMMA ViewType ==
  ASSUME NEW list \in Seq(SampleRecord), NEW fs, \A f : Held(fs, f) \subseteq Entry
  PROVE  View(fs, list) \in Seq(Abs!Record)
<1>1. ASSUME NEW n \in DOMAIN list
      PROVE  View(fs, list)[n] \in Abs!Record
  <2>1. \A k \in Kinds : Image(In(fs, list, k, n)) \in SUBSET (Objects \X Stamps)
    BY DEF Image, In, Of, Entry
  <2>2. list[n] \in SampleRecord
    OBVIOUS
  <2> DEFINE held == [k \in Kinds |-> Image(In(fs, list, k, n))]
  <2>3. held \in [Kinds -> SUBSET (Objects \X Stamps)]
    BY <2>1
  <2>4. list[n].id \in Samples /\ list[n].shown \in BOOLEAN
    BY <2>2 DEF SampleRecord
  <2> HIDE DEF held
  <2>5. [id |-> list[n].id, shown |-> list[n].shown, held |-> held]
          \in Abs!Record
    BY <2>3, <2>4 DEF Abs!Record
  <2>6. QED
    BY <2>5, ViewFields DEF held
<1>2. /\ View(fs, list) \in [1 .. Len(list) -> Abs!Record]
      /\ Len(list) \in Nat
  <2>1. View(fs, list)
          = [n \in DOMAIN list |-> View(fs, list)[n]]
    BY DEF View
  <2>2. DOMAIN list = 1 .. Len(list) /\ Len(list) \in Nat
    OBVIOUS
  <2>3. QED
    BY <1>1, <2>1, <2>2
<1>3. QED
  BY <1>2, FunctionIsSeq

(* The entries of a sample before and after an import, as rows.            *)
Replaced(rows, objs, t) == {p \in rows : p[1] \notin objs} \cup (objs \X {t})

LEMMA ImageOfAdded ==
  ASSUME NEW S, NEW n, NEW objs, NEW t
  PROVE  Image(Added(S, n, objs, t)) = Replaced(Image(S), objs, t)
<1> DEFINE A == {e \in S : e[2] \notin objs}
           B == {n} \X objs \X {t}
<1>1. Image(A) = {p \in Image(S) : p[1] \notin objs}
  BY DEF Image
<1>2. Image(B) = objs \X {t}
  <2>1. ASSUME NEW p \in objs \X {t} PROVE p \in Image({n} \X objs \X {t})
    <3>1. <<n, p[1], t>> \in {n} \X objs \X {t} /\ p = <<p[1], t>>
      OBVIOUS
    <3>2. QED
      BY <3>1 DEF Image
  <2>2. ASSUME NEW p \in Image({n} \X objs \X {t}) PROVE p \in objs \X {t}
    BY DEF Image
  <2>3. QED
    BY <2>1, <2>2
<1> HIDE DEF A, B
<1>3. Image(A \cup B) = Image(A) \cup Image(B)
  BY DEF Image
<1>4. Added(S, n, objs, t) = A \cup B
  BY DEF Added, A, B
<1>5. QED
  BY <1>1, <1>2, <1>3, <1>4 DEF Replaced

(* A sequence of records that differs from another in one of them.         *)
LEMMA RecordChanged ==
  ASSUME NEW r \in Abs!Record, NEW q \in Abs!Record, r.id = q.id
  PROVE  [[r EXCEPT !.shown = q.shown] EXCEPT !.held = q.held] = q
  BY DEF Abs!Record

Changed(s, n, shown, held) ==
  [s EXCEPT ![n].shown = shown, ![n].held = held]

LEMMA OneChanged ==
  ASSUME NEW s \in Seq(Abs!Record), NEW t \in Seq(Abs!Record),
         DOMAIN t = DOMAIN s, NEW n \in DOMAIN s,
         s[n].id = t[n].id, \A m \in DOMAIN s : m # n => t[m] = s[m]
  PROVE  t = Changed(s, n, t[n].shown, t[n].held)
<1> DEFINE shown == t[n].shown
           held == t[n].held
<1>1. s[n] \in Abs!Record /\ t[n] \in Abs!Record
  OBVIOUS
<1>2. PICK u : u = [s EXCEPT ![n].shown = shown]
  OBVIOUS
<1>3. /\ u[n] = [s[n] EXCEPT !.shown = shown] /\ DOMAIN u = DOMAIN s
      /\ \A m \in DOMAIN s : m # n => u[m] = s[m]
  BY <1>2
<1>4. PICK v : v = [u EXCEPT ![n].held = held]
  OBVIOUS
<1>5. /\ v[n] = [u[n] EXCEPT !.held = held] /\ DOMAIN v = DOMAIN s
      /\ \A m \in DOMAIN s : m # n => v[m] = s[m]
  BY <1>3, <1>4
<1>6. v[n] = t[n]
  <2>1. [[s[n] EXCEPT !.shown = shown] EXCEPT !.held = held] = t[n]
    BY <1>1, RecordChanged
  <2>2. v[n] = [[s[n] EXCEPT !.shown = shown] EXCEPT !.held = held]
    BY <1>3, <1>5
  <2>3. QED
    BY <2>1, <2>2
<1>7. v = [m \in DOMAIN v |-> v[m]]
  BY <1>4
<1>8. t = [m \in DOMAIN t |-> t[m]]
  OBVIOUS
<1>9. v = t
  BY <1>5, <1>6, <1>7, <1>8
<1>10. QED
  BY <1>2, <1>4, <1>9 DEF Changed

LEMMA HeldChanged ==
  ASSUME NEW s \in Seq(Abs!Record), NEW t \in Seq(Abs!Record),
         DOMAIN t = DOMAIN s, NEW n \in DOMAIN s, s[n].id = t[n].id,
         s[n].shown = t[n].shown, \A m \in DOMAIN s : m # n => t[m] = s[m]
  PROVE  t = [s EXCEPT ![n].held = t[n].held]
<1> DEFINE held == t[n].held
<1>1. s[n] \in Abs!Record /\ t[n] \in Abs!Record
  OBVIOUS
<1>2. PICK v : v = [s EXCEPT ![n].held = held]
  OBVIOUS
<1>3. /\ v[n] = [s[n] EXCEPT !.held = held] /\ DOMAIN v = DOMAIN s
      /\ \A m \in DOMAIN s : m # n => v[m] = s[m]
  BY <1>2
<1>4. v[n] = t[n]
  BY <1>1, <1>3 DEF Abs!Record
<1>5. v = [m \in DOMAIN v |-> v[m]]
  BY <1>2
<1>6. t = [m \in DOMAIN t |-> t[m]]
  OBVIOUS
<1>7. v = t
  BY <1>3, <1>4, <1>5, <1>6
<1>8. QED
  BY <1>2, <1>7

(* What the write of the generation does to the rows of the samples.       *)
LEMMA CommitIsStep ==
  ASSUME ContentInv, ContentInv', WriteGeneration
  PROVE  Abs!Update \/ Committed' = Committed
<1> DEFINE new == master[txgen + 1]
           old == master[gen]
           list == View(files, old)
           next == View(files, new)
<1>1. /\ pc = "publish" /\ master'[gen'] = new /\ files' = files
      /\ pos # 0 => Asked /\ Result(new)
      /\ pos = 0 => new = old
      /\ op \in Request /\ new \in Seq(SampleRecord) /\ old \in Seq(SampleRecord)
      /\ TypeInv /\ TypeInv' /\ pos \in Nat
      /\ accidents = {} /\ accidents' = {}
  BY DEF WriteGeneration, ContentInv, Pending, Under, FilesInv, TypeInv, TypeOK, Control
<1>2. Committed = list /\ Committed' = next
  <2>1. Committed = list
    BY CommittedIsView
  <2>2. Committed' = View(files', master'[gen'])
    BY DEF Committed, View, In, Of, Held, Content, Exists
  <2>3. QED
    BY <1>1, <2>1, <2>2
<1>3. list \in Seq(Abs!Record) /\ next \in Seq(Abs!Record)
  <2>1. \A f : Held(files, f) \subseteq Entry
    BY <1>1 DEF TypeInv, TypeOK, Held
  <2>2. QED
    BY <1>1, <2>1, ViewType
<1>4. /\ DOMAIN list = DOMAIN old /\ DOMAIN next = DOMAIN new
      /\ \A n \in DOMAIN old :
           list[n] = [id |-> old[n].id, shown |-> old[n].shown,
                      held |-> [k \in Kinds |-> Image(In(files, old, k, n))]]
      /\ \A n \in DOMAIN new :
           next[n] = [id |-> new[n].id, shown |-> new[n].shown,
                      held |-> [k \in Kinds |-> Image(In(files, new, k, n))]]
  BY <1>1, ViewFields
<1> HIDE DEF new, old, list, next
<1>5. CASE pos = 0
  BY <1>1, <1>2, <1>5 DEF list, next
<1>6. CASE pos # 0
  <2>1. Asked /\ Result(new)
    BY <1>1, <1>6
  <2>2. \A n \in DOMAIN old : n # pos => next[n] = list[n] /\ n \in DOMAIN next
    <3>1. \A n \in DOMAIN old : n # pos =>
            /\ n \in DOMAIN new /\ new[n].id = old[n].id /\ new[n].shown = old[n].shown
            /\ \A k \in Kinds : In(files, new, k, n) = In(files, old, k, n)
      BY <2>1 DEF Result, old
    <3>2. QED
      BY <1>4, <3>1
  <2>3. /\ pos \in DOMAIN new /\ new[pos].id = op.id
        /\ op.op # "add" => new[pos].shown = FALSE
        /\ op.op = "add" => new[pos].shown = IF Old THEN old[pos].shown ELSE TRUE
        /\ \A k \in Kinds : In(files, new, k, pos) = After(k)
        /\ DOMAIN new = DOMAIN old \cup {pos}
    <3>1. pos \in DOMAIN new
      BY <2>1 DEF Result
    <3>2. op.op # "add" => op.op = "remove"
      BY <1>1 DEF Request, Ops
    <3>3. QED
      BY <2>1, <3>1, <3>2 DEF Result, old
  <2>4. next[pos] = [id |-> op.id, shown |-> new[pos].shown,
                     held |-> [k \in Kinds |-> Image(After(k))]]
    BY <1>4, <2>3, ZenonT(60)
  <2>5. Abs!Positions(op.id) = Positions(old, op.id)
    BY <1>1, <1>2, <1>4 DEF Abs!Positions, Positions
  <2>6. CASE op.op = "add" /\ ~Old
    <3>1. Abs!AddNew(op.id, op.objs, op.t)
      <4> DEFINE new2 == [id |-> op.id, shown |-> TRUE,
                          held |-> [k \in Kinds |-> op.objs \X {op.t}]]
      <4>1. Abs!Positions(op.id) = {} /\ pos = Len(old) + 1
        BY <2>1, <2>5, <2>6 DEF Asked, old
      <4>2. \A k \in Kinds : Image(After(k)) = op.objs \X {op.t}
        <5>1. \A k \in Kinds : After(k) = Added({}, pos, op.objs, op.t)
          BY <2>6 DEF After, Before
        <5>2. Image(Added({}, pos, op.objs, op.t)) = Replaced(Image({}), op.objs, op.t)
          BY ImageOfAdded
        <5>3. Replaced(Image({}), op.objs, op.t) = op.objs \X {op.t}
          BY DEF Image, Replaced
        <5>4. QED
          BY <5>1, <5>2, <5>3
      <4>3. next[pos] = new2
        BY <2>3, <2>4, <2>6, <4>2
      <4> HIDE DEF new2
      <4>4. next = Append(list, new2)
        <5>1. /\ DOMAIN list = 1 .. Len(list) /\ DOMAIN old = 1 .. Len(old)
              /\ Len(old) \in Nat /\ Len(list) \in Nat
          BY <1>1, <1>3
        <5>2. Len(list) = Len(old)
          BY <1>1, ViewFields DEF list
        <5>3. DOMAIN next = 1 .. Len(list) + 1
          BY <1>4, <2>3, <4>1, <5>1, <5>2
        <5>4. \A n \in 1 .. Len(list) : next[n] = list[n]
          BY <2>2, <4>1, <5>1, <5>2
        <5>5. next[Len(list) + 1] = new2
          BY <4>1, <4>3, <5>2
        <5>6. QED
          BY <1>3, <5>1, <5>3, <5>4, <5>5
      <4>5. QED
        BY <1>1, <1>2, <4>1, <4>4 DEF Abs!AddNew, new2
    <3>2. QED
      BY <1>1, <2>1, <2>6, <3>1 DEF Abs!Update, Asked, Request
  <2>7. ASSUME Old
        PROVE  /\ Abs!Positions(op.id) # {}
               /\ pos = Abs!First(Abs!Positions(op.id))
               /\ pos \in DOMAIN list /\ DOMAIN next = DOMAIN list
               /\ old[pos].id = op.id
    <3>1. /\ Positions(old, op.id) # {} /\ pos = First(Positions(old, op.id))
          /\ pos \in DOMAIN old
      BY <2>1, <2>7 DEF Asked, Old, old
    <3>2. old[pos].id = op.id
      BY <1>1, <3>1, FirstIsIn
    <3>3. \A S : Abs!First(S) = First(S)
      BY DEF Abs!First, First
    <3>4. DOMAIN next = DOMAIN list
      BY <1>4, <2>3, <3>1
    <3>5. QED
      BY <1>4, <2>5, <3>1, <3>2, <3>3, <3>4
  <2>8. CASE op.op = "add" /\ Old
    <3> DEFINE held == [k \in Kinds |-> Replaced(list[pos].held[k], op.objs, op.t)]
    <3>1. \A k \in Kinds : Image(After(k)) = Replaced(list[pos].held[k], op.objs, op.t)
      <4> SUFFICES ASSUME NEW k \in Kinds
                   PROVE  Image(After(k)) = Replaced(list[pos].held[k], op.objs, op.t)
        OBVIOUS
      <4>1. After(k) = Added(In(files, old, k, pos), pos, op.objs, op.t)
        BY <2>8 DEF After, Before, old
      <4>2. list[pos].held[k] = Image(In(files, old, k, pos))
        BY <1>4, <2>7, <2>8
      <4>3. QED
        BY <4>1, <4>2, ImageOfAdded
    <3>2. next[pos] = [id |-> op.id, shown |-> old[pos].shown, held |-> held]
      BY <2>3, <2>4, <2>8, <3>1
    <3>3. held = Abs!Refresh(list[pos].held, op.objs, op.t)
      BY DEF Abs!Refresh, Replaced
    <3> HIDE DEF held
    <3>4. next = [list EXCEPT ![pos].held = held]
      <4>1. list[pos] = [id |-> op.id, shown |-> old[pos].shown,
                         held |-> [k \in Kinds |-> Image(In(files, old, k, pos))]]
        BY <1>4, <2>7, <2>8
      <4>2. /\ pos \in DOMAIN list /\ DOMAIN next = DOMAIN list
            /\ \A n \in DOMAIN list : n # pos => next[n] = list[n]
        BY <1>4, <2>2, <2>7, <2>8
      <4>3. /\ next[pos].shown = list[pos].shown /\ next[pos].held = held
            /\ next[pos].id = list[pos].id
        BY <2>7, <2>8, <3>2, <4>1
      <4>4. next = [list EXCEPT ![pos].held = next[pos].held]
        BY <1>3, <4>2, <4>3, HeldChanged
      <4>5. QED
        BY <4>3, <4>4
    <3>5. Abs!AddAgain(op.id, op.objs, op.t)
      BY <1>1, <1>2, <2>7, <2>8, <3>3, <3>4 DEF Abs!AddAgain
    <3>6. QED
      BY <1>1, <2>1, <2>8, <3>5 DEF Abs!Update, Asked, Request
  <2>9. CASE op.op # "add"
    <3>1. Old /\ op.id \in Removable
      BY <1>1, <2>1, <2>9 DEF Asked, Request, Ops
    <3> DEFINE held == [k \in Kinds |-> {}]
    <3>2. next[pos] = [id |-> op.id, shown |-> FALSE, held |-> held]
      <4>1. \A k \in Kinds : Image(After(k)) = {}
        BY <2>9 DEF After, Image
      <4>2. QED
        BY <2>3, <2>4, <2>9, <4>1
    <3> HIDE DEF held
    <3>3. next = [list EXCEPT ![pos].shown = FALSE, ![pos].held = held]
      <4>1. list[pos] = [id |-> op.id, shown |-> old[pos].shown,
                         held |-> [k \in Kinds |-> Image(In(files, old, k, pos))]]
        BY <1>4, <2>7, <3>1
      <4>2. /\ pos \in DOMAIN list /\ DOMAIN next = DOMAIN list
            /\ \A n \in DOMAIN list : n # pos => next[n] = list[n]
        BY <1>4, <2>2, <2>7, <3>1
      <4>3. /\ next[pos].shown = FALSE /\ next[pos].held = held
            /\ list[pos].id = next[pos].id
        BY <2>7, <3>1, <3>2, <4>1
      <4>4. next = Changed(list, pos, next[pos].shown, next[pos].held)
        BY <1>3, <4>2, <4>3, OneChanged
      <4>5. QED
        BY <4>3, <4>4 DEF Changed
    <3>4. Abs!Remove(op.id)
      BY <1>1, <1>2, <2>7, <3>1, <3>3 DEF Abs!Remove, held
    <3>5. QED
      BY <3>1, <3>4 DEF Abs!Update
  <2>10. QED
    BY <2>6, <2>8, <2>9
<1>7. QED
  BY <1>5, <1>6

LEMMA StepsImplement ==
  ASSUME AtomicInv, AtomicInv', [Next]_vars
  PROVE  [Abs!Next]_<<IF accidents = {} THEN Committed ELSE <<>>, accidents = {}>>
<1>1. CASE accidents # {}
  <2>1. accidents' # {}
    BY <1>1, AccidentsGrow
  <2>2. QED
    BY <1>1, <2>1
<1>2. CASE accidents = {} /\ accidents' # {}
  BY <1>2 DEF Abs!Next, Abs!Lose
<1>3. CASE accidents = {} /\ accidents' = {}
  <2>1. ContentInv /\ ContentInv'
    BY <1>3 DEF AtomicInv
  <2>2. Abs!Update \/ Committed' = Committed
    <3>1. CASE UNCHANGED vars
      BY <3>1 DEF vars, Committed, Content, Exists
    <3>2. CASE WriteGeneration
      BY <2>1, <3>2, CommitIsStep
    <3>3. CASE Next /\ ~WriteGeneration
      <4>1. ~FailAfterCommit
        BY <1>3 DEF FailAfterCommit
      <4>2. Kept /\ TypeInv
        BY <2>1, <3>3, <4>1, StepKeepsFiles DEF ContentInv, FilesInv
      <4>3. Committed' = View(files', master'[gen'])
        BY DEF Committed, View, In, Of, Held, Content, Exists
      <4>4. QED
        BY <4>2, <4>3, ViewKept, CommittedIsView
    <3>4. QED
      BY <3>1, <3>2, <3>3
  <2>3. QED
    BY <1>3, <2>2 DEF Abs!Next
<1>4. QED
  BY <1>1, <1>2, <1>3

LEMMA StartImplements ==
  ASSUME Init
  PROVE  Abs!TypeOK
<1>1. ContentInv
  BY ContentInit
<1>2. /\ master[gen] \in Seq(SampleRecord)
      /\ \A f : Held(files, f) \subseteq Entry
  <2>1. TypeOK /\ master[gen] \in Seq(SampleRecord)
    BY <1>1 DEF ContentInv, FilesInv, TypeInv, Control
  <2>2. \A f \in DOMAIN files : files[f] \in SUBSET Entry
    BY <2>1 DEF TypeOK
  <2>3. QED
    BY <2>1, <2>2 DEF Held
<1>3. View(files, master[gen]) \in Seq(Abs!Record)
  BY <1>2, ViewType
<1>4. Committed \in Seq(Abs!Record) /\ accidents = {}
  BY <1>1, <1>3, CommittedIsView DEF ContentInv
<1>5. QED
  BY <1>4 DEF Abs!TypeOK

(* An import or a removal of samples happens for the readers of the index  *)
(* in one step or not at all, whatever fails or dies at whatever point, as *)
(* long as none of the accidents happens: the data files, catalogues and   *)
(* generations that addFiles, removeFiles and VisDQMIndex write implement  *)
(* the list of samples of AtomicIndex, which promises nothing afterwards.  *)
THEOREM IndexAtomic == Spec => AtomicSpec
<1>1. Init => Abs!TypeOK
  BY StartImplements
<1>2. AtomicInv /\ AtomicInv' /\ [Next]_vars =>
        [Abs!Next]_<<IF accidents = {} THEN Committed ELSE <<>>, accidents = {}>>
  BY StepsImplement
<1>3. QED
  BY <1>1, <1>2, AtomicInvariant, PTL DEF Spec, AtomicSpec, Abs!Spec

------------------------------------------------------------------------------
(* The count of objects that hides a removed sample                        *)

LEMMA ShownAreHeld ==
  NumObjectsTrue <=>
    (accidents = {} =>
       \A n \in DOMAIN master[gen], k \in Kinds :
         master[gen][n].shown => In(files, master[gen], k, n) # {})
  BY DEF NumObjectsTrue, In, Of, Held, Content, Exists

LEMMA CountsInit ==
  ASSUME Init, Objects # {}
  PROVE  NumObjectsTrue
<1>1. /\ master[gen] = Preloaded
      /\ files = [f \in NamedBy(Preloaded) |->
                    {<<n, o, n>> : n \in DOMAIN Imported, o \in Objects}]
  BY Bounds DEF Init
<1> SUFFICES ASSUME NEW n \in DOMAIN Preloaded, NEW k \in Kinds
             PROVE  \E e \in Content(<<k, Preloaded[n].files[k]>>) : e[1] = n
  BY <1>1 DEF NumObjectsTrue
<1>2. n \in DOMAIN Imported
  BY DEF Preloaded
<1>3. <<k, Preloaded[n].files[k]>> \in NamedBy(Preloaded)
  BY DEF NamedBy
<1>4. PICK o \in Objects : TRUE
  OBVIOUS
<1>5. <<n, o, n>> \in Content(<<k, Preloaded[n].files[k]>>)
  BY <1>1, <1>2, <1>3 DEF Content, Exists
<1>6. QED
  BY <1>5

LEMMA CountsNext ==
  ASSUME ContentInv, NumObjectsTrue, [Next]_vars, accidents' = {}
  PROVE  NumObjectsTrue'
<1> DEFINE old == master[gen]
<1>1. \A n \in DOMAIN old, k \in Kinds : old[n].shown => In(files, old, k, n) # {}
  BY ShownAreHeld DEF ContentInv
<1>2. NumObjectsTrue' <=>
        \A n \in DOMAIN master'[gen'], k \in Kinds :
          master'[gen'][n].shown => In(files', master'[gen'], k, n) # {}
  BY DEF NumObjectsTrue, In, Of, Held, Content, Exists
<1>3. CASE UNCHANGED vars
  BY <1>1, <1>2, <1>3 DEF vars
<1>4. CASE WriteGeneration
  <2> DEFINE new == master[txgen + 1]
  <2>1. /\ master'[gen'] = new /\ files' = files /\ op \in Request
        /\ pos # 0 => Asked /\ Result(new)
        /\ pos = 0 => new = old
    BY <1>4 DEF WriteGeneration, ContentInv, Pending, Under, FilesInv, TypeInv,
                TypeOK, Control
  <2> HIDE DEF new
  <2>2. CASE pos = 0
    BY <1>1, <1>2, <2>1, <2>2
  <2>3. ASSUME pos # 0, NEW n \in DOMAIN new, NEW k \in Kinds, new[n].shown
        PROVE  In(files, new, k, n) # {}
    <3>1. CASE n # pos
      <4>1. n \in DOMAIN old
        BY <2>1, <2>3, <3>1 DEF Result
      <4>2. /\ new[n].shown = old[n].shown
            /\ In(files, new, k, n) = In(files, old, k, n)
        BY <2>1, <2>3, <3>1, <4>1 DEF Result
      <4>3. QED
        BY <1>1, <2>3, <4>1, <4>2
    <3>2. CASE n = pos
      <4>1. /\ op.op # "remove" /\ op.op \in Ops
            /\ In(files, new, k, pos) = After(k)
        BY <2>1, <2>3, <3>2 DEF Result, Request
      <4>2. op.op = "add" /\ op.objs # {}
        BY <2>1, <2>3, <4>1 DEF Asked, Ops
      <4>3. \A o \in op.objs : <<pos, o, op.t>> \in {pos} \X op.objs \X {op.t}
        OBVIOUS
      <4>4. After(k) # {}
        BY <4>2, <4>3 DEF After, Added
      <4>5. QED
        BY <3>2, <4>1, <4>4
    <3>3. QED
      BY <3>1, <3>2
  <2>4. QED
    BY <1>2, <2>1, <2>2, <2>3
<1>5. CASE Next /\ ~WriteGeneration
  <2>1. ~FailAfterCommit
    BY DEF FailAfterCommit
  <2>2. Kept /\ TypeInv
    BY <1>5, <2>1, StepKeepsFiles DEF ContentInv, FilesInv
  <2>3. master'[gen'] = old
    BY <2>2 DEF Kept
  <2>4. \A n \in DOMAIN old, k \in Kinds :
          In(files', old, k, n) = In(files, old, k, n)
    BY <2>2, RowsKept
  <2>5. QED
    BY <1>1, <1>2, <2>3, <2>4
<1>6. QED
  BY <1>3, <1>4, <1>5

(* A sample that findSample may offer, going by the count of objects, has  *)
(* some in its info and in its data file, as long as no accident happens:  *)
(* whatever is imported, removed and imported again, and whatever fails or *)
(* dies on the way.                                                        *)
THEOREM ObjectCountsTrue ==
  ASSUME Objects # {}
  PROVE  Spec => []NumObjectsTrue
<1>1. Init => NumObjectsTrue
  BY CountsInit
<1>2. AtomicInv /\ NumObjectsTrue /\ [Next]_vars => NumObjectsTrue'
  <2> SUFFICES ASSUME AtomicInv, NumObjectsTrue, [Next]_vars PROVE NumObjectsTrue'
    OBVIOUS
  <2>1. CASE accidents' = {}
    BY <2>1, CountsNext, AccidentsGrow DEF AtomicInv
  <2>2. CASE accidents' # {}
    BY <2>2 DEF NumObjectsTrue
  <2>3. QED
    BY <2>1, <2>2
<1>3. QED
  BY <1>1, <1>2, AtomicInvariant, PTL DEF Spec

------------------------------------------------------------------------------
(* The server and the watcher                                              *)

(* The steps of a reload, all made under the write lock.                   *)
Reloading == {"lretry", "lwatch", "rretry", "rwatch"}

IndexType == TypeInv \/ LateInv

(* With both flags down, either the server has all of a generation that is *)
(* no older than the one the watcher saw, or some thread is about to read  *)
(* it again or to report that it could not.                                *)
WatchInv ==
  /\ IndexType
  /\ watched \in Nat /\ loaded \in Nat /\ watched <= gen
  /\ DOMAIN tpc = Threads
  /\ \A t \in Threads : tpc[t] \in Reloading => wrlock = t
  /\ ~changed /\ ~retry =>
       /\ \/ loaded >= watched
          \/ \E t \in Threads : tpc[t] \in {"lretry", "lwatch", "failed"}
       /\ whole \/ \E t \in Threads : tpc[t] \in Reloading \cup {"failed"}

LEMMA IndexTypeNext == IndexType /\ [Next]_vars => IndexType'
  BY TypeNext, LateNext DEF IndexType

LEMMA IndexTypeOK == IndexType => TypeOK /\ gen \in Nat
  BY Bounds DEF IndexType, TypeInv, LateInv, TypeOK

LEMMA GenerationGrows ==
  ASSUME IndexType, [Next]_vars
  PROVE  gen \in Nat /\ gen' \in Nat /\ gen <= gen'
<1>1. IndexType'
  BY IndexTypeNext
<1>2. gen \in Nat /\ gen' \in Nat
  <2>1. TypeOK'
    BY <1>1 DEF IndexType, TypeInv, LateInv
  <2>2. QED
    BY <2>1, IndexTypeOK, Bounds DEF TypeOK
<1>3. CASE WriteGeneration
  BY <1>2, <1>3 DEF WriteGeneration, IndexType, LateInv, TypeInv, Control, Uncommitted
<1>4. CASE Next /\ ~WriteGeneration
  <2>1. gen' = gen
    BY <1>4 DEF Next, Update, BeginAddNew, BeginAddAgain, BeginRemove,
                BeginRemoveNothing, BeginUpdate, OpenFiles, WriteFile,
                CloseMaster, RemoveOldMaster, RemoveOldFile, EndUpdate, Fail,
                FailAfterCommit, UndoFile, CancelUpdate, Crash, disk, vars
  <2>2. QED
    BY <1>2, <2>1, SMTT(30)
<1>5. CASE UNCHANGED vars
  BY <1>2, <1>5 DEF vars
<1>6. QED
  BY <1>2, <1>3, <1>4, <1>5

LEMMA WatchInit == Init /\ ServerInit => WatchInv
<1> SUFFICES ASSUME Init, ServerInit PROVE WatchInv
  OBVIOUS
<1>1. IndexType
  BY TypeInit DEF IndexType
<1>2. gen \in Nat
  BY <1>1, IndexTypeOK
<1>3. QED
  BY <1>1, <1>2 DEF WatchInv, ServerInit, Reloading

(* A step of one thread that is not about the reload.                      *)
LEMMA ThreadKeeps ==
  ASSUME WatchInv, IndexType', NEW t \in Threads,
         tpc[t] \notin Reloading \cup {"failed"},
         DOMAIN tpc' = Threads, tpc'[t] \notin Reloading,
         \A u \in Threads : u # t => tpc'[u] = tpc[u],
         wrlock \notin Threads \ {t} => wrlock' \notin Threads \ {t},
         wrlock \in Threads \ {t} => wrlock' = wrlock,
         UNCHANGED <<changed, retry, watched, loaded, whole, gen>>
  PROVE  WatchInv'
<1>1. \A u \in Threads : tpc'[u] \in Reloading => wrlock' = u
  BY DEF WatchInv
<1>2. \A u \in Threads : tpc[u] \in Reloading \cup {"failed"} => tpc'[u] = tpc[u]
  OBVIOUS
<1>3. ~changed' /\ ~retry' =>
        \/ loaded' >= watched'
        \/ \E u \in Threads : tpc'[u] \in {"lretry", "lwatch", "failed"}
  BY <1>2 DEF WatchInv, Reloading
<1>4. ~changed' /\ ~retry' =>
        whole' \/ \E u \in Threads : tpc'[u] \in Reloading \cup {"failed"}
  BY <1>2 DEF WatchInv
<1>5. QED
  BY <1>1, <1>3, <1>4 DEF WatchInv

(* What the server may do to the lock and to where its threads are.        *)
LEMMA ServerKeeps ==
  ASSUME WatchInv, ServerNext, UNCHANGED vars
  PROVE  WatchInv'
<1>1. /\ IndexType' /\ UNCHANGED gen /\ gen \in Nat /\ Nobody \notin Threads
  <2>1. IndexType' /\ UNCHANGED gen
    BY IndexTypeNext DEF WatchInv, vars
  <2>2. gen \in Nat
    BY IndexTypeOK DEF WatchInv
  <2>3. QED
    BY <2>1, <2>2, ServerAssumption
<1>2. CASE CheckForUpdate
  BY <1>1, <1>2 DEF CheckForUpdate, WatchInv
<1>3. ASSUME NEW t \in Threads, NEW id \in Samples, NEW o \in Objects, Ask(t, id, o)
      PROVE  WatchInv'
  BY <1>1, <1>3, ThreadKeeps DEF Ask, Goto, WatchInv, Reloading
<1>4. ASSUME NEW t \in Threads, CheckRetry(t) \/ CheckWatch(t) PROVE WatchInv'
  BY <1>1, <1>4, ThreadKeeps DEF CheckRetry, CheckWatch, Goto, WatchInv, Reloading
<1>5. ASSUME NEW t \in Threads, FindSample(t) PROVE WatchInv'
  BY <1>1, <1>5, ThreadKeeps DEF FindSample, EndRequest, Goto, WatchInv, Reloading
<1>6. ASSUME NEW t \in Threads, FileReadFailure(t) PROVE WatchInv'
  BY <1>1, <1>6 DEF FileReadFailure, EndRequest, Goto, WatchInv, Reloading
<1>7. ASSUME NEW t \in Threads, NEW at, NEW load, NEW skip, NEW flag,
             MaybeReset(t, at, flag, load, skip),
             at \notin Reloading \cup {"failed"}, skip \notin Reloading,
             load \in {"lretry", "lwatch"}
      PROVE  WatchInv'
  <2>1. CASE flag
    BY <1>1, <1>7, <2>1 DEF MaybeReset, Free, Reset, Goto, WatchInv, Reloading
  <2>2. CASE ~flag
    BY <1>1, <1>7, <2>2, ThreadKeeps DEF MaybeReset, Goto, WatchInv, Reloading
  <2>3. QED
    BY <2>1, <2>2
<1>8. ASSUME NEW t \in Threads, ResetForRetry(t) \/ ResetForChange(t)
      PROVE  WatchInv'
  BY <1>7, <1>8 DEF ResetForRetry, ResetForChange, Reloading
<1>9. ASSUME NEW t \in Threads, BeginRead(t) PROVE WatchInv'
  BY <1>1, <1>9 DEF BeginRead, Goto, WatchInv, Reloading
<1>10. ASSUME NEW t \in Threads, FinishRead(t) PROVE WatchInv'
  <2>1. wrlock = t
    BY <1>1, <1>10 DEF FinishRead, WatchInv, Reloading
  <2>2. QED
    BY <1>1, <1>10, <2>1 DEF FinishRead, Release, Goto, WatchInv, Reloading
<1>11. ASSUME NEW t \in Threads, NEW k \in Kinds,
              UseFile(t, k) \/ UpgradeLock(t, k) \/ OpenFile(t, k)
       PROVE  WatchInv'
  <2>1. /\ tpc[t] \notin Reloading \cup {"failed"} /\ DOMAIN tpc' = Threads
        /\ tpc'[t] \notin Reloading /\ \A u \in Threads : u # t => tpc'[u] = tpc[u]
    BY <1>11 DEF UseFile, UpgradeLock, OpenFile, ReadFrom, EndRequest, Goto, Step,
                 WatchInv, Reloading, Kinds
  <2>2. /\ wrlock' \in {wrlock, t, Nobody}
        /\ wrlock' # wrlock => wrlock \notin Threads \ {t}
    BY <1>1, <1>11 DEF UseFile, UpgradeLock, OpenFile, ReadFrom, Release, Free
  <2>3. UNCHANGED <<changed, retry, watched, loaded, whole>>
    BY <1>11 DEF UseFile, UpgradeLock, OpenFile
  <2>4. QED
    BY <1>1, <2>1, <2>2, <2>3, ThreadKeeps
<1>12. ASSUME NEW t \in Threads, FailToBeginRead(t) \/ FailToRead(t) PROVE WatchInv'
  <2>1. /\ wrlock = t /\ wrlock' = Nobody /\ tpc' = [tpc EXCEPT ![t] = "failed"]
        /\ UNCHANGED <<changed, retry, watched, loaded>>
    BY <1>1, <1>12 DEF FailToBeginRead, FailToRead, Release, Goto, WatchInv, Reloading
  <2>2. QED
    BY <1>1, <2>1 DEF WatchInv, Reloading
<1>13. QED
  BY <1>2, <1>3, <1>4, <1>5, <1>6, <1>8, <1>9, <1>10, <1>11, <1>12
     DEF ServerNext, Serve

LEMMA WatchNext == WatchInv /\ [Both]_allvars => WatchInv'
<1> SUFFICES ASSUME WatchInv, [Both]_allvars PROVE WatchInv'
  OBVIOUS
<1>1. CASE [Next]_vars /\ UNCHANGED server
  <2>1. IndexType' /\ gen \in Nat /\ gen' \in Nat /\ gen <= gen'
    BY <1>1, IndexTypeNext, GenerationGrows DEF WatchInv
  <2>2. UNCHANGED <<wrlock, changed, retry, watched, loaded, whole, tpc>>
    BY <1>1 DEF server
  <2>3. QED
    BY <2>1, <2>2 DEF WatchInv
<1>2. CASE ServerNext /\ UNCHANGED vars
  BY <1>2, ServerKeeps
<1>3. QED
  BY <1>1, <1>2 DEF Both, allvars

(* The watcher never misses a commit: however the updates, the checks of   *)
(* the generation file and the threads of the server interleave, and       *)
(* whatever a reload fails at, with both flags down the server has all of  *)
(* a generation no older than the one the watcher saw, unless a reload is  *)
(* under way or about to report its failure.                               *)
THEOREM NoCommitMissed == ServerSpec => []NoUpdateLost
<1>1. Init /\ ServerInit => WatchInv
  BY WatchInit
<1>2. WatchInv /\ [Both]_allvars => WatchInv'
  BY WatchNext
<1>3. WatchInv => NoUpdateLost
  BY ServerAssumption DEF WatchInv, NoUpdateLost, Reloading
<1>4. QED
  BY <1>1, <1>2, <1>3, PTL DEF ServerSpec

------------------------------------------------------------------------------
(* The files a reader may have open                                        *)

(* A later version of the same file is in the list.                        *)
Covers(list, f) ==
  \E n \in DOMAIN list :
    LET no == list[n].files[f[1]]
    IN  no.idx = f[2].idx /\ f[2].ver <= no.ver

(* The samples of a list stay in their files, and versions only go up.     *)
Advances(list, next) ==
  \A n \in DOMAIN list, k \in Kinds :
    /\ n \in DOMAIN next
    /\ next[n].files[k].idx = list[n].files[k].idx
    /\ list[n].files[k].ver <= next[n].files[k].ver

(* The sample in hand is ahead of the samples it shares its files with.    *)
Ahead ==
  /\ DOMAIN master[gen] \subseteq DOMAIN cat
  /\ \A n \in DOMAIN master[gen], k \in Kinds :
       LET no == master[gen][n].files[k]
       IN  /\ no.idx = cat[pos].files[k].idx => no.ver <= cat[pos].files[k].ver
           /\ n = pos => no.idx = cat[pos].files[k].idx

VersionsInv ==
  /\ FilesInv /\ NoWrap
  /\ \A f \in published : f[1] \in Kinds /\ Covers(master[gen], f)
  /\ Changing => Ahead
  /\ pc = "publish" => Advances(master[gen], master[txgen + 1])
  /\ pc = "write" => <<kind, wfile>> \notin published

LEMMA VersionsInit == Init /\ NoWrap => VersionsInv
<1> SUFFICES ASSUME Init, NoWrap PROVE VersionsInv
  OBVIOUS
<1>1. FilesInv
  BY FilesInit
<1>2. master[gen] = Preloaded /\ published = NamedBy(Preloaded) /\ pc = "idle"
  BY Bounds DEF Init
<1>3. \A k \in Kinds, n \in DOMAIN Preloaded :
        Preloaded[n].files[k].ver <= Preloaded[n].files[k].ver
  BY PreloadedType, FilesOfSamples, Bounds DEF FileNo
<1>4. \A f \in NamedBy(Preloaded) : f[1] \in Kinds /\ Covers(Preloaded, f)
  BY <1>3 DEF NamedBy, Covers
<1>5. QED
  BY <1>1, <1>2, <1>4 DEF VersionsInv, Changing

(* As long as versions do not begin again, the next one is later.          *)
LEMMA NextIsLater ==
  ASSUME NoWrap, NEW no \in FileNo, NEW g \in Nat, InReach(no, g),
         g + 1 <= Len(Imported) + MaxTx
  PROVE  /\ no.ver \in Nat
         /\ NextVersion(no).idx = no.idx /\ NextVersion(no).ver = no.ver + 1
         /\ ContractNumber(no) = NextVersion(no)
<1>1. no.ver \in Nat /\ no.ver <= g /\ no.ver + 1 < Versions
  BY Bounds DEF NoWrap, InReach, FileNo
<1>2. (no.ver + 1) % Versions = no.ver + 1
  BY <1>1, Bounds
<1>3. QED
  BY <1>1, <1>2 DEF NextVersion, ContractNumber, FileNo

(* The sample of a transaction begins in the files of the catalogue or in  *)
(* new ones.                                                               *)
LEMMA BeginAhead ==
  ASSUME VersionsInv, Kept, NEW list \in Seq(SampleRecord), list = master[gen],
         NEW sample \in SampleRecord,
         \/ cat' = list /\ pos' \in DOMAIN list
         \/ /\ cat' = Append(list, sample) /\ pos' = Len(list) + 1
            /\ \A k \in Kinds : sample.files[k] = Place(list, k)
  PROVE  Ahead'
<1>1. gen \in Nat /\ Tidy(list, gen)
  BY Bounds DEF VersionsInv, FilesInv, TypeInv, TypeOK
<1>2. \A k \in Kinds, n \in DOMAIN list :
        /\ n \in DOMAIN cat'
        /\ list[n].files[k].idx = cat'[pos'].files[k].idx =>
             list[n].files[k] = cat'[pos'].files[k]
        /\ n = pos' => list[n].files[k] = cat'[pos'].files[k]
  <2>1. CASE cat' = list /\ pos' \in DOMAIN list
    BY <1>1, <2>1 DEF Tidy, Fits
  <2>2. CASE /\ cat' = Append(list, sample) /\ pos' = Len(list) + 1
             /\ \A k \in Kinds : sample.files[k] = Place(list, k)
    <3>1. /\ cat'[pos'] = sample /\ pos' \notin DOMAIN list
          /\ \A n \in DOMAIN list : n \in DOMAIN cat'
      BY <2>2
    <3>2. \A k \in Kinds : Fits(list, k, Place(list, k))
      BY <1>1, PlaceFits
    <3>3. QED
      BY <2>2, <3>1, <3>2 DEF Fits
  <2>3. QED
    BY <2>1, <2>2
<1>3. \A k \in Kinds, n \in DOMAIN list : list[n].files[k].ver \in Nat
  BY FilesOfSamples, Bounds DEF FileNo
<1>4. gen' = gen /\ master'[gen'] = list
  BY DEF Kept
<1>5. \A k \in Kinds, n \in DOMAIN list :
        list[n].files[k].idx = cat'[pos'].files[k].idx =>
          list[n].files[k].ver <= cat'[pos'].files[k].ver
  BY <1>2, <1>3
<1>6. DOMAIN list \subseteq DOMAIN cat'
  BY <1>2 DEF Kinds
<1>7. QED
  BY <1>2, <1>4, <1>5, <1>6 DEF Ahead

(* The file that is opened for writing has never been published.           *)
LEMMA NeverPublished ==
  ASSUME VersionsInv, OpenFiles
  PROVE  <<kind, wfile'>> \notin published
<1> DEFINE no == cat[pos].files[kind]
<1>1. /\ pc = "open" /\ kind \in Kinds /\ master[gen] \in Seq(SampleRecord)
      /\ no \in FileNo /\ gen \in Nat /\ gen + 1 <= Len(Imported) + MaxTx
  <2>1. /\ pc = "open" /\ kind \in Kinds /\ gen \in Nat /\ ntx \in Nat
        /\ ntx <= Len(Imported) + MaxTx
    BY Bounds DEF VersionsInv, FilesInv, TypeInv, TypeOK, OpenFiles
  <2>2. /\ txgen = gen /\ txgen < ntx /\ master[gen] \in Seq(SampleRecord)
        /\ cat \in Seq(SampleRecord) /\ pos \in DOMAIN cat
    BY <2>1 DEF VersionsInv, FilesInv, TypeInv, TypeOK, Control, Uncommitted
  <2>3. QED
    BY <2>1, <2>2, FilesOfSamples, Bounds
<1>2. wfile' = IF Exists(<<kind, no>>) THEN NextVersion(no) ELSE no
  BY DEF OpenFiles
<1>3. Fits(master[gen], kind, no) /\ InReach(no, gen)
  <2>1. Changing /\ ~Done(kind)
    BY <1>1 DEF Changing, Done, Kinds
  <2>2. QED
    BY <1>1, <2>1 DEF VersionsInv, FilesInv, Transaction, Ready
<1>4. /\ NextVersion(no).idx = no.idx /\ NextVersion(no).ver = no.ver + 1
      /\ no.ver \in Nat
  BY <1>1, <1>3, NextIsLater DEF VersionsInv
<1> HIDE DEF no
<1>5. SUFFICES ASSUME <<kind, wfile'>> \in published PROVE FALSE
  OBVIOUS
<1>6. PICK n \in DOMAIN master[gen] :
        /\ master[gen][n].files[kind].idx = wfile'.idx
        /\ wfile'.ver <= master[gen][n].files[kind].ver
  BY <1>5 DEF VersionsInv, Covers
<1>7. master[gen][n].files[kind] = no
  <2>1. wfile'.idx = no.idx
    BY <1>2, <1>4
  <2>2. QED
    BY <1>3, <1>6, <2>1 DEF Fits
<1>8. Exists(<<kind, no>>)
  BY <1>1, <1>7, NamedFiles DEF VersionsInv, FilesInv, AllThere
<1>9. QED
  BY <1>2, <1>4, <1>6, <1>7, <1>8

(* The number of a written file replaces an earlier one of the sample.     *)
LEMMA WriteAhead ==
  ASSUME VersionsInv, WriteFile, Kept
  PROVE  Ahead'
<1> DEFINE no == cat[pos].files[kind]
           number == IF op.op = "add" THEN ExtendNumber(no)
                                      ELSE ContractNumber(no)
<1>1. /\ Ahead /\ pos \in DOMAIN cat /\ cat \in Seq(SampleRecord)
      /\ cat[pos] \in SampleRecord /\ kind \in Kinds
      /\ no \in FileNo /\ pos' = pos /\ master[gen] \in Seq(SampleRecord)
      /\ gen \in Nat /\ gen + 1 <= Len(Imported) + MaxTx
  <2>1. /\ pc = "write" /\ kind \in Kinds /\ gen \in Nat /\ ntx \in Nat
        /\ ntx <= Len(Imported) + MaxTx /\ pos' = pos
    BY Bounds DEF VersionsInv, FilesInv, TypeInv, TypeOK, WriteFile
  <2>2. /\ txgen = gen /\ txgen < ntx /\ master[gen] \in Seq(SampleRecord)
        /\ cat \in Seq(SampleRecord) /\ pos \in DOMAIN cat
    BY <2>1 DEF VersionsInv, FilesInv, TypeInv, TypeOK, Control, Uncommitted
  <2>3. Ahead
    BY <2>1 DEF VersionsInv, Changing
  <2>4. QED
    BY <2>1, <2>2, <2>3, FilesOfSamples, Bounds
<1>2. InReach(no, gen)
  <2>1. pc = "write" /\ Changing /\ ~Done(kind)
    BY <1>1 DEF WriteFile, Changing, Done, Kinds
  <2>2. QED
    BY <1>1, <2>1 DEF VersionsInv, FilesInv, Transaction, Ready
<1>3. /\ number.idx = no.idx /\ number.ver = no.ver + 1 /\ no.ver \in Nat
  BY <1>1, <1>2, NextIsLater DEF VersionsInv, ExtendNumber
<1>4. cat' = IF wfile # no THEN [cat EXCEPT ![pos].files[kind] = number] ELSE cat
  BY DEF WriteFile
<1> HIDE DEF no, number
<1>5. /\ DOMAIN cat' = DOMAIN cat
      /\ \A k \in Kinds : k # kind => cat'[pos].files[k] = cat[pos].files[k]
      /\ cat'[pos].files[kind] \in {no, number}
  BY <1>1, <1>4 DEF SampleRecord, no
<1>6. \A n \in DOMAIN master[gen], k \in Kinds :
        LET at == master[gen][n].files[k]
        IN  /\ at.ver \in Nat
            /\ at.idx = cat'[pos].files[k].idx => at.ver <= cat'[pos].files[k].ver
            /\ n = pos => at.idx = cat'[pos].files[k].idx
  <2> SUFFICES ASSUME NEW n \in DOMAIN master[gen], NEW k \in Kinds
               PROVE  LET at == master[gen][n].files[k]
                      IN  /\ at.ver \in Nat
                          /\ at.idx = cat'[pos].files[k].idx =>
                               at.ver <= cat'[pos].files[k].ver
                          /\ n = pos => at.idx = cat'[pos].files[k].idx
    OBVIOUS
  <2>1. master[gen][n].files[k].ver \in Nat
    BY <1>1, FilesOfSamples, Bounds, SMTT(30) DEF FileNo
  <2>2. CASE k # kind
    BY <1>1, <1>5, <2>1, <2>2 DEF Ahead
  <2>3. CASE k = kind
    <3>1. LET at == master[gen][n].files[kind]
          IN  /\ at.idx = no.idx => at.ver <= no.ver
              /\ n = pos => at.idx = no.idx
      BY <1>1 DEF Ahead, no
    <3>2. QED
      BY <1>3, <1>5, <2>1, <2>3, <3>1
  <2>4. QED
    BY <2>2, <2>3
<1>7. gen' = gen /\ master'[gen'] = master[gen]
  BY DEF Kept
<1>8. QED
  BY <1>1, <1>5, <1>6, <1>7 DEF Ahead

LEMMA CatalogueAdvances ==
  ASSUME VersionsInv, pc = "commit"
  PROVE  Advances(master[gen], NewCatalogue)
<1> DEFINE old == master[gen]
           new == NewCatalogue
<1>1. /\ cat \in Seq(SampleRecord) /\ pos \in 0 .. Len(cat) /\ gen \in Nat
      /\ old \in Seq(SampleRecord)
  BY Bounds DEF VersionsInv, FilesInv, TypeInv, TypeOK, Control, Uncommitted
<1>2. /\ DOMAIN new = DOMAIN cat
      /\ \A n \in DOMAIN cat, k \in Kinds :
           new[n].files[k] =
             IF cat[n].files[k].idx = Target[k].idx THEN Target[k]
                                                    ELSE cat[n].files[k]
  BY <1>1, TargetType, ShareType, NewCatalogueType, SMTT(30)
<1> HIDE DEF new
<1>3. \A n \in DOMAIN old, k \in Kinds : old[n].files[k].ver \in Nat
  BY <1>1, FilesOfSamples, Bounds, SMTT(30) DEF FileNo
<1>4. CASE pos = 0
  <2>1. cat = old /\ Tidy(old, gen)
    BY <1>4 DEF VersionsInv, FilesInv, Transaction
  <2>2. \A k \in Kinds : Fits(old, k, Target[k])
    BY <1>1, <1>4, <2>1, LastFits DEF Target
  <2>3. \A n \in DOMAIN old, k \in Kinds : new[n].files[k] = old[n].files[k]
    BY <1>2, <2>1, <2>2 DEF Fits
  <2>4. QED
    BY <1>2, <1>3, <2>1, <2>3 DEF Advances, new
<1>5. CASE pos # 0
  <2>1. /\ Ahead /\ \A k \in Kinds : Target[k] = cat[pos].files[k]
        /\ \A n \in DOMAIN cat : n # pos => cat[n] = old[n]
    BY <1>5 DEF VersionsInv, FilesInv, Transaction, Changing, Target
  <2>2. DOMAIN old \subseteq DOMAIN cat
    BY <2>1 DEF Ahead
  <2> SUFFICES ASSUME NEW n \in DOMAIN old, NEW k \in Kinds
               PROVE  /\ n \in DOMAIN new
                      /\ new[n].files[k].idx = old[n].files[k].idx
                      /\ old[n].files[k].ver <= new[n].files[k].ver
    BY DEF Advances, new
  <2>3. LET no == old[n].files[k]
        IN  /\ no.idx = cat[pos].files[k].idx => no.ver <= cat[pos].files[k].ver
            /\ n = pos => no.idx = cat[pos].files[k].idx
    BY <2>1 DEF Ahead
  <2>4. CASE n = pos
    BY <1>2, <2>1, <2>2, <2>3, <2>4
  <2>5. CASE n # pos
    <3>1. cat[n].files[k] = old[n].files[k] /\ n \in DOMAIN cat
      BY <2>1, <2>2, <2>5
    <3>2. QED
      BY <1>2, <1>3, <2>1, <2>3, <3>1
  <2>6. QED
    BY <2>4, <2>5
<1>6. QED
  BY <1>4, <1>5

(* The files of a new generation cover all that were published.            *)
LEMMA GenerationCovers ==
  ASSUME VersionsInv, TypeInv', WriteGeneration
  PROVE  \A f \in published' : f[1] \in Kinds /\ Covers(master'[gen'], f)
<1> DEFINE old == master[gen]
           new == master[txgen + 1]
<1>1. /\ Advances(old, new) /\ master'[gen'] = new
      /\ published' = published \cup NamedBy(new)
      /\ old \in Seq(SampleRecord) /\ new \in Seq(SampleRecord)
      /\ published \subseteq File
  BY DEF WriteGeneration, VersionsInv, FilesInv, TypeInv, TypeOK, Control, Uncommitted
<1>2. /\ \A n \in DOMAIN old, k \in Kinds : old[n].files[k].ver \in Nat
      /\ \A n \in DOMAIN new, k \in Kinds : new[n].files[k].ver \in Nat
  BY <1>1, FilesOfSamples, Bounds DEF FileNo
<1>3. \A f \in published : f[1] \in Kinds /\ f[2].ver \in Nat /\ Covers(old, f)
  BY <1>1, Bounds DEF VersionsInv, File, FileNo
<1> HIDE DEF old, new
<1>4. ASSUME NEW f \in published PROVE f[1] \in Kinds /\ Covers(new, f)
  <2>1. PICK n \in DOMAIN old : /\ old[n].files[f[1]].idx = f[2].idx
                                /\ f[2].ver <= old[n].files[f[1]].ver
    BY <1>3 DEF Covers
  <2>2. /\ n \in DOMAIN new /\ f[1] \in Kinds
        /\ new[n].files[f[1]].idx = old[n].files[f[1]].idx
        /\ old[n].files[f[1]].ver <= new[n].files[f[1]].ver
    BY <1>1, <1>3 DEF Advances
  <2>3. f[2].ver <= new[n].files[f[1]].ver
    BY <1>2, <1>3, <2>1, <2>2
  <2>4. QED
    BY <2>1, <2>2, <2>3 DEF Covers
<1>5. \A f \in NamedBy(new) : f[1] \in Kinds /\ Covers(new, f)
  BY <1>2 DEF NamedBy, Covers
<1>6. QED
  BY <1>1, <1>4, <1>5

(* A removal carries no version number as long as none is the last.        *)
LEMMA StaysIntact ==
  ASSUME VersionsInv, [Next]_vars, ~FailAfterCommit
  PROVE  Intact' /\ TypeInv'
<1>1. TypeInv'
  BY TypeNext DEF VersionsInv, FilesInv
<1>2. CASE WriteFile
  <2> DEFINE no == cat[pos].files[kind]
  <2>1. /\ pc = "write" /\ kind \in Kinds /\ gen \in Nat /\ ntx \in Nat
        /\ ntx <= Len(Imported) + MaxTx
    BY <1>2, Bounds DEF VersionsInv, FilesInv, TypeInv, TypeOK, WriteFile
  <2>2. /\ txgen = gen /\ txgen < ntx /\ cat \in Seq(SampleRecord) /\ pos \in DOMAIN cat
    BY <2>1 DEF VersionsInv, FilesInv, TypeInv, TypeOK, Control, Uncommitted
  <2>3. no \in FileNo
    BY <2>1, <2>2, FilesOfSamples
  <2>4. Changing /\ ~Done(kind)
    BY <2>1 DEF Changing, Done, Kinds
  <2>5. InReach(no, gen)
    BY <2>1, <2>4 DEF VersionsInv, FilesInv, Transaction, Ready
  <2>6. no.ver + 1 # Versions
    <3>1. no.ver \in Nat /\ no.ver <= gen
      BY <2>3, <2>5, Bounds DEF VersionsInv, InReach, FileNo
    <3>2. QED
      BY <2>1, <2>2, <3>1, Bounds DEF VersionsInv, NoWrap
  <2>7. accidents' = accidents
    BY <1>2, <2>6 DEF WriteFile
  <2>8. QED
    BY <1>1, <2>7 DEF VersionsInv, FilesInv, Intact
<1>3. CASE ~WriteFile
  BY <1>1, <1>3, AccidentsGrow DEF VersionsInv, FilesInv, Intact
<1>4. QED
  BY <1>2, <1>3

LEMMA VersionsNext ==
  ASSUME VersionsInv, [Next]_vars, ~FailAfterCommit
  PROVE  VersionsInv'
<1>1. FilesInv' /\ TypeInv' /\ FilesInv /\ TypeInv /\ NoWrap
  BY StaysIntact, FilesNext DEF VersionsInv, FilesInv
<1>2. CASE UNCHANGED vars
  BY <1>1, <1>2 DEF vars, VersionsInv, Changing, Ahead
<1>3. CASE WriteGeneration
  BY <1>1, <1>3, GenerationCovers DEF WriteGeneration, VersionsInv, Changing
<1>4. CASE Next /\ ~WriteGeneration
  <2>1. Kept
    BY <1>1, <1>4, StepKeepsFiles, SMTT(30)
  <2>2. published' = published
    BY <1>4 DEF Next, Update, BeginAddNew, BeginAddAgain, BeginRemove,
                BeginRemoveNothing, BeginUpdate, OpenFiles, WriteFile, CloseMaster,
                RemoveOldMaster, RemoveOldFile, EndUpdate, Fail, UndoFile,
                CancelUpdate, Crash
  <2>3. \A f \in published' : f[1] \in Kinds /\ Covers(master'[gen'], f)
    BY <2>1, <2>2 DEF VersionsInv, Kept
  <2>4. ASSUME NEW id, NEW objs, \/ BeginAddNew(id, objs) \/ BeginAddAgain(id, objs)
                                 \/ BeginRemove(id)
        PROVE  pc' = "open" /\ Ahead'
    <3>1. master[gen] \in Seq(SampleRecord) /\ cat' \in Seq(SampleRecord)
      BY <1>1, <2>4 DEF TypeInv, TypeOK, Control, BeginAddNew, BeginAddAgain,
                        BeginRemove, BeginUpdate, Uncommitted
    <3>2. CASE BeginAddNew(id, objs)
      <4> DEFINE sample == [id |-> id, shown |-> TRUE,
                            files |-> [k \in Kinds |-> Place(master[gen], k)]]
      <4>1. /\ cat' = Append(master[gen], sample) /\ pos' = Len(master[gen]) + 1
            /\ pc' = "open" /\ \A k \in Kinds : sample.files[k] = Place(master[gen], k)
        BY <3>2 DEF BeginAddNew
      <4> HIDE DEF sample
      <4>2. sample \in SampleRecord
        <5>1. cat'[Len(master[gen]) + 1] = sample
          BY <3>1, <4>1
        <5>2. Len(master[gen]) + 1 \in DOMAIN cat'
          BY <3>1, <4>1
        <5>3. QED
          BY <3>1, <5>1, <5>2
      <4>3. QED
        BY <2>1, <3>1, <4>1, <4>2, BeginAhead
    <3>3. CASE BeginAddAgain(id, objs) \/ BeginRemove(id)
      <4>1. cat' = master[gen] /\ pos' = First(Positions(master[gen], id)) /\ pc' = "open"
            /\ Positions(master[gen], id) # {}
        BY <3>3 DEF BeginAddAgain, BeginRemove
      <4>2. pos' \in DOMAIN master[gen]
        BY <3>1, <4>1, FirstIsIn
      <4>3. master[gen][pos'] \in SampleRecord
        BY <3>1, <4>2
      <4>4. QED
        BY <2>1, <3>1, <4>1, <4>2, <4>3, BeginAhead
    <3>4. QED
      BY <2>4, <3>2, <3>3
  <2>5. ASSUME NEW id, BeginRemoveNothing(id)
        PROVE  pc' = "commit" /\ pos' = 0
    BY <2>5 DEF BeginRemoveNothing
  <2>6. CASE OpenFiles
    <3>1. /\ Changing /\ pc' = "write" /\ UNCHANGED <<gen, master, cat, pos, kind>>
      BY <2>6 DEF OpenFiles, Changing
    <3>2. <<kind', wfile'>> \notin published'
      BY <2>2, <2>6, <3>1, NeverPublished
    <3>3. Ahead'
      BY <3>1 DEF VersionsInv, Ahead
    <3>4. QED
      BY <1>1, <2>3, <3>1, <3>2, <3>3 DEF VersionsInv
  <2>7. CASE WriteFile
    <3>1. pc' \in {"open", "commit"}
      BY <2>7 DEF WriteFile
    <3>2. QED
      BY <1>1, <2>1, <2>3, <2>7, <3>1, WriteAhead DEF VersionsInv
  <2>8. CASE CloseMaster
    <3>1. pc = "commit" /\ pc' = "publish" /\ txgen' = txgen
          /\ master' = [master EXCEPT ![txgen + 1] = NewCatalogue]
      BY <2>8 DEF CloseMaster, memory
    <3>2. master'[txgen' + 1] = NewCatalogue
      BY <1>1, <3>1, NextGeneration DEF Uncommitted, TypeInv, TypeOK
    <3>3. Advances(master'[gen'], master'[txgen' + 1])
      BY <2>1, <3>1, <3>2, CatalogueAdvances DEF Kept
    <3>4. QED
      BY <1>1, <2>3, <3>1, <3>3 DEF VersionsInv, Changing
  <2>9. CASE \/ RemoveOldMaster \/ RemoveOldFile \/ EndUpdate \/ UndoFile
             \/ CancelUpdate \/ Fail \/ Crash
    <3>1. pc' \in {"dropfiles", "undo", "idle"}
      BY <2>9 DEF RemoveOldMaster, RemoveOldFile, EndUpdate, UndoFile,
                  CancelUpdate, Fail, Crash, Exit
    <3>2. QED
      BY <1>1, <2>3, <3>1 DEF VersionsInv, Changing
  <2>10. CASE \E id, objs : \/ BeginAddNew(id, objs) \/ BeginAddAgain(id, objs)
                            \/ BeginRemove(id)
    <3>1. pc' = "open" /\ Ahead'
      BY <2>4, <2>10
    <3>2. QED
      BY <1>1, <2>3, <3>1 DEF VersionsInv
  <2>11. CASE \E id : BeginRemoveNothing(id)
    <3>1. pc' = "commit" /\ pos' = 0
      BY <2>5, <2>11
    <3>2. QED
      BY <1>1, <2>3, <3>1 DEF VersionsInv, Changing
  <2>12. QED
    BY <1>4, <2>6, <2>7, <2>8, <2>9, <2>10, <2>11 DEF Next, Update
<1>5. QED
  BY <1>2, <1>3, <1>4

(* After a failure that came too late nothing is written any more.         *)
VersionsOrLate == VersionsInv \/ LateInv

LEMMA StepLeavesPublished ==
  VersionsOrLate /\ [Next]_vars => [Untouched]_vars
<1> SUFFICES ASSUME VersionsOrLate, Next PROVE Untouched
  OBVIOUS
<1>1. ASSUME NEW f, f \notin published, NEW entries, Write(f, entries)
      PROVE  Untouched
  BY <1>1 DEF Write, Untouched
<1>2. ASSUME NEW f, Remove(f) PROVE Untouched
  BY <1>2 DEF Remove, Untouched
<1>3. ASSUME files' = files PROVE Untouched
  BY <1>3 DEF Untouched
<1>4. CASE OpenFiles
  <2>1. Write(<<kind, wfile'>>, {})
    BY <1>4 DEF OpenFiles
  <2>2. VersionsInv
    BY <1>4 DEF OpenFiles, VersionsOrLate, LateInv
  <2>3. QED
    BY <1>1, <1>4, <2>1, <2>2, NeverPublished
<1>5. CASE WriteFile
  <2>1. \E entries : Write(<<kind, wfile>>, entries)
    BY <1>5 DEF WriteFile
  <2>2. <<kind, wfile>> \notin published
    BY <1>5 DEF WriteFile, VersionsOrLate, VersionsInv, LateInv
  <2>3. QED
    BY <1>1, <2>1, <2>2
<1>6. CASE RemoveOldFile \/ UndoFile
  BY <1>2, <1>6 DEF RemoveOldFile, UndoFile
<1>7. CASE ~(OpenFiles \/ WriteFile \/ RemoveOldFile \/ UndoFile)
  <2>1. files' = files
    BY <1>7 DEF Next, Update, BeginAddNew, BeginAddAgain, BeginRemove,
                BeginRemoveNothing, BeginUpdate, CloseMaster, WriteGeneration,
                RemoveOldMaster, EndUpdate, Fail, FailAfterCommit, CancelUpdate,
                Crash, disk
  <2>2. QED
    BY <1>3, <2>1
<1>8. QED
  BY <1>4, <1>5, <1>6, <1>7

(* A data file that a committed generation has named is only ever removed, *)
(* never written to, so that a reader may keep it open whatever updates,   *)
(* failures and deaths come after ("the data contents remain valid and     *)
(* consistent as long as those files remain open", VisDQMIndex.h), as long *)
(* as no file is updated so often that its 16-bit versions begin again.    *)
THEOREM PublishedNeverWritten ==
  ASSUME NoWrap
  PROVE  Spec => [][Untouched]_vars
<1>1. Init => VersionsOrLate
  BY VersionsInit DEF VersionsOrLate
<1>2. VersionsOrLate /\ [Next]_vars => VersionsOrLate'
  <2> SUFFICES ASSUME VersionsOrLate, [Next]_vars PROVE VersionsOrLate'
    OBVIOUS
  <2>1. CASE LateInv
    BY <2>1, LateNext DEF VersionsOrLate
  <2>2. CASE VersionsInv /\ FailAfterCommit
    BY <2>2, TypeFailAfterCommit DEF VersionsInv, FilesInv, VersionsOrLate
  <2>3. CASE VersionsInv /\ ~FailAfterCommit
    BY <2>3, VersionsNext DEF VersionsOrLate
  <2>4. QED
    BY <2>1, <2>2, <2>3 DEF VersionsOrLate
<1>3. VersionsOrLate /\ [Next]_vars => [Untouched]_vars
  BY StepLeavesPublished
<1>4. QED
  BY <1>1, <1>2, <1>3, PTL DEF Spec
================================================================================
