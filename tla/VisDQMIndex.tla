----------------------------- MODULE VisDQMIndex -----------------------------
(***************************************************************************)
(* The on-disk DQM index and the tool that updates it: the transactions of *)
(* VisDQMIndex.cc and the add and remove operations of index.cc, one       *)
(* updater at a time (the daemons take <index>/lock around the tool).  The *)
(* updater may fail at any step, which makes it remove its new files, even *)
(* when they are committed already, or die, which removes nothing.         *)
(***************************************************************************)
EXTENDS Integers, Sequences, FiniteSets

CONSTANTS
  Samples,     \* the (dataset, version, run) identities
  Objects,     \* the monitor element names
  Imported,    \* the samples imported before the model starts, in order
  Importable,  \* the samples an import may bring
  Removable,   \* the samples a removal may name
  Versions,    \* how many versions a file number can tell apart (2^16)
  FileLimit,   \* entries above which a file takes no new sample (500 MB)
  MaxIndex,    \* bound: the highest file index
  MaxTx,       \* bound: update transactions started
  MaxCrashes,  \* bound: deaths of the updater
  Null         \* no master of a generation, no request in hand

ASSUME SamplesAssumption ==
  /\ Importable \subseteq Samples /\ Removable \subseteq Samples
  /\ Imported \in Seq(Samples)
  /\ \A m, n \in DOMAIN Imported : Imported[m] = Imported[n] => m = n
ASSUME BoundsAssumption ==
  /\ Versions \in Nat /\ Versions > 1 /\ Versions >= Len(Imported)
  /\ FileLimit \in Nat /\ MaxIndex \in Nat
  /\ MaxTx \in Nat /\ MaxCrashes \in Nat

Kinds == {"info", "data"}
Ops == {"add", "remove"}
Stamps == 1 .. (Len(Imported) + MaxTx)
Gens == 0 .. (Len(Imported) + MaxTx)

FileNo == [idx : 0 .. MaxIndex, ver : 0 .. (Versions - 1)]
File == Kinds \X FileNo

(* A data file maps the key (sample number, object) to what was imported   *)
(* for it, told apart by the time of the import.                           *)
Entry == (Nat \ {0}) \X Objects \X Stamps

(* A row of the master catalogue.  numObjects matters only as being zero.  *)
SampleRecord == [id    : Samples,
                 files : [Kinds -> FileNo],
                 shown : BOOLEAN]

ASSUME NullAssumption == Null \notin Seq(SampleRecord)

(* What the tool is asked to do, and the time it takes for its transaction *)
Request == [op : Ops, id : Samples, objs : SUBSET Objects, t : Stamps]

VARIABLES
  gen,        \* the generation file
  master,     \* the master-<gen>.dqm files
  files,      \* the info/ and data/ files: what is in those that exist
  pc,         \* where the updater is
  op,         \* the operation of the transaction
  txgen,      \* VisDQMIndex::generation_ of the updater
  cat,        \* the updater's copy of the sample list
  pos,        \* the number of the sample it changes, 0 for none
  kind,       \* the kind of file it is writing
  wfile,      \* the number of the file it is writing
  newfiles,   \* the files to delete if the transaction fails
  oldfiles,   \* the files to delete once it is committed
  ntx,        \* transactions started so far, and the time of the last
  ncrashes,   \* deaths so far
  published,  \* history: files some committed catalogue has named
  accidents   \* history: what happened that an index does not survive whole

disk == <<gen, master, files>>
memory == <<op, txgen, cat, pos, kind, wfile, newfiles, oldfiles>>
vars == <<gen, master, files, pc, op, txgen, cat, pos, kind, wfile,
          newfiles, oldfiles, ntx, ncrashes, published, accidents>>

(* late: the updater failed after it had committed.                        *)
(* carry: a removal stepped the number of a file past its last version.    *)
(* leftover: a new sample went to a file that a dead updater had left.     *)
Accidents == {"late", "carry", "leftover"}

Phases == {"idle", "open", "write", "commit", "publish", "dropmaster",
           "dropfiles", "undo"}

TypeOK ==
  /\ gen \in Gens
  /\ master \in [Gens -> Seq(SampleRecord) \cup {Null}]
  /\ DOMAIN files \subseteq File
  /\ files \in [DOMAIN files -> SUBSET Entry]
  /\ pc \in Phases
  /\ op \in Request \cup {Null}
  /\ txgen \in Gens
  /\ cat \in Seq(SampleRecord)
  /\ pos \in 0 .. Len(cat)
  /\ kind \in Kinds
  /\ wfile \in FileNo
  /\ newfiles \in Seq(File)
  /\ oldfiles \in Seq(File)
  /\ ntx \in 0 .. (Len(Imported) + MaxTx)
  /\ ncrashes \in 0 .. MaxCrashes
  /\ published \subseteq File
  /\ accidents \subseteq Accidents

------------------------------------------------------------------------------
(* File numbers and file contents                                          *)

Exists(f) == f \in DOMAIN files

(* VisDQMIndex::size(), counting entries; zero if there is no such file.   *)
Size(f) == IF Exists(f) THEN Cardinality(files[f]) ELSE 0

Content(f) == IF Exists(f) THEN files[f] ELSE {}

Write(f, entries) ==
  files' = [g \in DOMAIN files \cup {f} |-> IF g = f THEN entries ELSE files[g]]

Remove(f) == files' = [g \in DOMAIN files \ {f} |-> files[g]]

(* The order of file numbers seen as 32-bit integers.                      *)
NoLater(m, n) == m.idx < n.idx \/ (m.idx = n.idx /\ m.ver <= n.ver)

FirstFile == [idx |-> 0, ver |-> 0]

(* The last file of a kind that a list of samples names.                   *)
LastFile(list, k) ==
  LET named == {list[n].files[k] : n \in DOMAIN list} \cup {FirstFile}
  IN  CHOOSE f \in named : \A g \in named : NoLater(g, f)

(* Where a new sample goes: the last file, or a new one if that is full.   *)
Place(list, k) ==
  LET last == LastFile(list, k)
  IN  IF Size(<<k, last>>) > FileLimit
      THEN [idx |-> last.idx + 1, ver |-> 0]
      ELSE last

(* Slip: write the new version over the old one.                           *)
NextVersionInPlace(f) == f

(* The name of the next version: the low 16 bits wrap.                     *)
NextVersion(f) == [f EXCEPT !.ver = (@ + 1) % Versions]

(* Slip: the low 16 bits carry.                                            *)
ExtendNumberCarry(f) ==
  IF f.ver + 1 < Versions THEN [f EXCEPT !.ver = @ + 1]
                          ELSE [idx |-> f.idx + 1, ver |-> 0]

(* extend() steps the low 16 bits of the number in the sample record, ...  *)
ExtendNumber(f) == NextVersion(f)

(* ... contract() steps the whole 32-bit number, so it carries.            *)
ContractNumber(f) ==
  IF f.ver + 1 < Versions THEN [f EXCEPT !.ver = @ + 1]
                          ELSE [idx |-> f.idx + 1, ver |-> 0]

(* Slip: lose the objects of the sample that the import does not bring.    *)
ExtendedLosing(old, n, objs, t) ==
  {e \in old : e[1] # n} \cup ({n} \X objs \X {t})

(* extend(): new entries go in, those they replace go out.                 *)
Extended(old, n, objs, t) ==
  {e \in old : ~(e[1] = n /\ e[2] \in objs)} \cup ({n} \X objs \X {t})

(* contract(): the entries of the sample go out.                           *)
Contracted(old, n) == {e \in old : e[1] # n}

(* Slip: forget the other samples of the file.                             *)
ShareNone(list, target) == list
(* Every sample in the file just rewritten moves to its new version.       *)
Share(list, target) ==
  [n \in DOMAIN list |->
    [list[n] EXCEPT !.files =
       [k \in Kinds |-> IF @[k].idx = target[k].idx THEN target[k]
                                                    ELSE @[k]]]]

Positions(list, id) == {n \in DOMAIN list : list[n].id = id}

First(S) == CHOOSE n \in S : \A m \in S : n <= m

NamedBy(list) == {<<k, list[n].files[k]>> : k \in Kinds, n \in DOMAIN list}

------------------------------------------------------------------------------
(* An index as `visDQMIndex create` and the imports of Imported, one after *)
(* the other into the first file, leave it.                                *)

Preloaded ==
  [n \in DOMAIN Imported |->
    [id    |-> Imported[n],
     files |-> [k \in Kinds |-> [idx |-> 0, ver |-> Len(Imported) - 1]],
     shown |-> TRUE]]

Init ==
  /\ gen = Len(Imported)
  /\ master = [g \in Gens |-> IF g = gen THEN Preloaded ELSE Null]
  /\ files = [f \in NamedBy(Preloaded) |->
                {<<n, o, n>> : n \in DOMAIN Imported, o \in Objects}]
  /\ pc = "idle" /\ op = Null /\ txgen = 0 /\ cat = <<>> /\ pos = 0
  /\ kind = "data" /\ wfile = FirstFile /\ newfiles = <<>> /\ oldfiles = <<>>
  /\ ntx = Len(Imported) /\ ncrashes = 0
  /\ published = NamedBy(Preloaded)
  /\ accidents = {}

(* The process is gone and with it all it had in memory.                   *)
Exit ==
  /\ pc' = "idle" /\ op' = Null /\ txgen' = 0 /\ cat' = <<>> /\ pos' = 0
  /\ kind' = "data" /\ wfile' = FirstFile /\ newfiles' = <<>>
  /\ oldfiles' = <<>>

(* beginUpdate(): read the generation, open its master, truncate the next. *)
(* Without a master the tool ends as it began.                             *)
BeginUpdate(what, id, objs) ==
  /\ pc = "idle"
  /\ master[gen] # Null
  /\ ntx < Len(Imported) + MaxTx
  /\ ntx' = ntx + 1
  /\ op' = [op |-> what, id |-> id, objs |-> objs, t |-> ntx + 1]
  /\ txgen' = gen
  /\ master' = [master EXCEPT ![gen + 1] = <<>>]
  /\ UNCHANGED <<gen, files, kind, wfile, newfiles, oldfiles, ncrashes,
                 published>>

(* A file with entries that no sample of the catalogue is in.              *)
Leftover(k, no) == Content(<<k, no>>) # {} /\ <<k, no>> \notin NamedBy(master[gen])

(* Add a sample the index does not know: it goes to the last files.        *)
BeginAddNew(id, objs) ==
  /\ BeginUpdate("add", id, objs)
  /\ Positions(master[gen], id) = {}
  /\ LET place == [k \in Kinds |-> Place(master[gen], k)]
     IN  /\ \A k \in Kinds : place[k].idx <= MaxIndex
         /\ cat' = Append(master[gen],
                          [id |-> id, files |-> place, shown |-> TRUE])
         /\ accidents' = IF \E k \in Kinds : Leftover(k, place[k])
                         THEN accidents \cup {"leftover"} ELSE accidents
  /\ pos' = Len(master[gen]) + 1
  /\ pc' = "open"

(* Add to a sample the index knows: it is updated in place.                *)
BeginAddAgain(id, objs) ==
  /\ BeginUpdate("add", id, objs)
  /\ Positions(master[gen], id) # {}
  /\ cat' = master[gen]
  /\ pos' = First(Positions(master[gen], id))
  /\ pc' = "open"
  /\ UNCHANGED accidents

BeginRemove(id) ==
  /\ BeginUpdate("remove", id, {})
  /\ Positions(master[gen], id) # {}
  /\ cat' = master[gen]
  /\ pos' = First(Positions(master[gen], id))
  /\ pc' = "open"
  /\ UNCHANGED accidents

(* A removal that finds no such sample still commits a new generation.     *)
BeginRemoveNothing(id) ==
  /\ BeginUpdate("remove", id, {})
  /\ Positions(master[gen], id) = {}
  /\ cat' = master[gen]
  /\ pos' = 0
  /\ pc' = "commit"
  /\ UNCHANGED accidents

(* Open the data file to copy from, if it is there, and the one to write.  *)
OpenFiles ==
  /\ pc = "open"
  /\ LET current == cat[pos].files[kind]
         out == IF Exists(<<kind, current>>) THEN NextVersion(current)
                                             ELSE current
     IN  /\ wfile' = out
         /\ Write(<<kind, out>>, {})
  /\ pc' = "write"
  /\ UNCHANGED <<gen, master, op, txgen, cat, pos, kind, newfiles, oldfiles,
                 ntx, ncrashes, published, accidents>>

(* Finish and close the data file, note it, and go to the next kind.       *)
WriteFile ==
  /\ pc = "write"
  /\ LET current == cat[pos].files[kind]
         copying == wfile # current
         old == IF copying THEN Content(<<kind, current>>) ELSE {}
         number == IF op.op = "add" THEN ExtendNumber(current)
                                    ELSE ContractNumber(current)
     IN  /\ number.idx <= MaxIndex
         /\ Write(<<kind, wfile>>,
                  IF op.op = "add" THEN Extended(old, pos, op.objs, op.t)
                                   ELSE Contracted(old, pos))
         /\ cat' = IF copying
                   THEN [cat EXCEPT ![pos].files[kind] = number]
                   ELSE cat
         /\ oldfiles' = IF copying
                        THEN Append(oldfiles, <<kind, current>>)
                        ELSE oldfiles
         /\ newfiles' = Append(newfiles, <<kind, wfile>>)
         /\ accidents' = IF copying /\ op.op = "remove" /\ current.ver + 1 = Versions
                         THEN accidents \cup {"carry"} ELSE accidents
  /\ kind' = "info"
  /\ pc' = IF kind = "data" THEN "open" ELSE "commit"
  /\ UNCHANGED <<gen, master, op, txgen, pos, wfile, ntx, ncrashes, published>>

(* Slip: leave numObjects of a removed sample alone.                       *)
NewCatalogueKeeping ==
  LET target == IF pos = 0 THEN [k \in Kinds |-> LastFile(cat, k)]
                           ELSE cat[pos].files
  IN  Share(cat, target)

(* The sample list as it goes to the new master catalogue.                 *)
NewCatalogue ==
  LET target == IF pos = 0 THEN [k \in Kinds |-> LastFile(cat, k)]
                           ELSE cat[pos].files
      shared == Share(cat, target)
  IN  IF op.op = "remove" /\ pos # 0
      THEN [shared EXCEPT ![pos].shown = FALSE]
      ELSE shared

(* commitUpdate(), holding the write lock on the generation file: check    *)
(* that the generation is still the one the update began with, and close   *)
(* the new master, ...                                                     *)
CloseMaster ==
  /\ pc = "commit"
  /\ txgen = gen
  /\ master' = [master EXCEPT ![txgen + 1] = NewCatalogue]
  /\ pc' = "publish"
  /\ UNCHANGED <<gen, files, memory, ntx, ncrashes, published, accidents>>

(* ... write the generation and drop the lock, ...                         *)
WriteGeneration ==
  /\ pc = "publish"
  /\ gen' = txgen + 1
  /\ published' = published \cup NamedBy(master[txgen + 1])
  /\ pc' = "dropmaster"
  /\ UNCHANGED <<master, files, memory, ntx, ncrashes, accidents>>

(* ... and remove the old master.                                          *)
RemoveOldMaster ==
  /\ pc = "dropmaster"
  /\ master' = [master EXCEPT ![txgen] = Null]
  /\ newfiles' = <<>>
  /\ pc' = "dropfiles"
  /\ UNCHANGED <<gen, files, op, txgen, cat, pos, kind, wfile, oldfiles, ntx,
                 ncrashes, published, accidents>>

RemoveOldFile ==
  /\ pc = "dropfiles"
  /\ oldfiles # <<>>
  /\ Remove(Head(oldfiles))
  /\ oldfiles' = Tail(oldfiles)
  /\ UNCHANGED <<gen, master, pc, op, txgen, cat, pos, kind, wfile, newfiles,
                 ntx, ncrashes, published, accidents>>

EndUpdate ==
  /\ pc = "dropfiles"
  /\ oldfiles = <<>>
  /\ Exit
  /\ UNCHANGED <<disk, ntx, ncrashes, published, accidents>>

(* An exception before the commit: the handler starts to undo the new      *)
(* files, the first of which is the new master.                            *)
Fail ==
  /\ pc \in {"open", "write", "commit", "publish"}
  /\ master' = [master EXCEPT ![txgen + 1] = Null]
  /\ pc' = "undo"
  /\ UNCHANGED <<gen, files, memory, ntx, ncrashes, published, accidents>>

(* An exception after the commit, in the tail of commitUpdate() or while   *)
(* the old files are removed: the handler removes the same files, or the   *)
(* new master alone once newfiles is empty, although they are committed.   *)
(* The old master may be removed already when the tail fails.              *)
FailAfterCommit ==
  /\ pc \in {"dropmaster", "dropfiles"}
  /\ \E old \in {master[txgen], Null} :
        master' = [master EXCEPT ![txgen] = old, ![txgen + 1] = Null]
  /\ pc' = "undo"
  /\ accidents' = accidents \cup {"late"}
  /\ UNCHANGED <<gen, files, memory, ntx, ncrashes, published>>

UndoFile ==
  /\ pc = "undo"
  /\ newfiles # <<>>
  /\ Remove(Head(newfiles))
  /\ newfiles' = Tail(newfiles)
  /\ UNCHANGED <<gen, master, pc, op, txgen, cat, pos, kind, wfile, oldfiles,
                 ntx, ncrashes, published, accidents>>

CancelUpdate ==
  /\ pc = "undo"
  /\ newfiles = <<>>
  /\ master' = [master EXCEPT ![txgen + 1] = Null]
  /\ Exit
  /\ UNCHANGED <<gen, files, ntx, ncrashes, published, accidents>>

(* The updater dies; the kernel drops its lock.                            *)
Crash ==
  /\ pc # "idle"
  /\ ncrashes < MaxCrashes
  /\ ncrashes' = ncrashes + 1
  /\ Exit
  /\ UNCHANGED <<disk, ntx, published, accidents>>

Update ==
  \/ OpenFiles \/ WriteFile \/ CloseMaster \/ WriteGeneration
  \/ RemoveOldMaster \/ RemoveOldFile \/ EndUpdate
  \/ UndoFile \/ CancelUpdate

Next ==
  \/ \E id \in Importable, objs \in (SUBSET Objects) \ {{}} :
        BeginAddNew(id, objs) \/ BeginAddAgain(id, objs)
  \/ \E id \in Removable : BeginRemove(id) \/ BeginRemoveNothing(id)
  \/ Update
  \/ Fail
  \/ FailAfterCommit
  \/ Crash

Spec == Init /\ [][Next]_vars

------------------------------------------------------------------------------
(* A reader that can open the catalogue of the current generation finds    *)
(* every data file it names, whatever the updater was doing when it failed *)
(* or died: files go only once no catalogue names them, and after the      *)
(* commit the handler removes the catalogue before its files.  The         *)
(* catalogue itself is gone only if the updater failed after the commit.   *)
(* Nothing is claimed once a removal has carried a version number.         *)
CatalogueFilesExist ==
  /\ master[gen] = Null => "late" \in accidents
  /\ master[gen] # Null /\ "carry" \notin accidents =>
       \A f \in NamedBy(master[gen]) : Exists(f)

(* A data file that some committed generation has named is never written   *)
(* again, only removed, so that readers may keep it open ("the data        *)
(* contents remain valid and consistent as long as those files remain      *)
(* open", VisDQMIndex.h).                                                  *)
Untouched ==
  \A f \in published \cap DOMAIN files' : f \in DOMAIN files /\ files'[f] = files[f]

(* A sample the server may offer (findSample goes by numObjects) has       *)
(* objects in both its files.  The converse is not so: a removed sample    *)
(* that is imported again has objects, and is not offered (AddAgain).      *)
NumObjectsTrue ==
  accidents = {} =>
    \A n \in DOMAIN master[gen], k \in Kinds :
      master[gen][n].shown =>
        \E e \in Content(<<k, master[gen][n].files[k]>>) : e[1] = n

(* What a reader of the current generation sees of the index.              *)
Committed ==
  [n \in DOMAIN master[gen] |->
    [id    |-> master[gen][n].id,
     shown |-> master[gen][n].shown,
     held  |-> [k \in Kinds |->
                 {<<e[2], e[3]>> :
                    e \in {x \in Content(<<k, master[gen][n].files[k]>>) :
                             x[1] = n}}]]]

Abs == INSTANCE AtomicIndex WITH
         index <- IF accidents = {} THEN Committed ELSE <<>>,
         sound <- accidents = {}

(* Every update of the index happens in one step or not at all: the files, *)
(* catalogues and generations implement the atomic list of samples, until  *)
(* one of the accidents, each of which the code lets happen.               *)
AtomicSpec == Abs!Spec

==============================================================================
