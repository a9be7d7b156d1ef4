# A TLA+ verification of the CMS DQM GUI

The repository holds the data quality monitoring (DQM) GUI of the CMS
experiment: an index of histograms on disk, the tool and the daemons that fill
it, a web server that reads it, a network layer that collects histograms from
running jobs, render processes that draw them, and a second web server, the
overview, that draws what other services of the experiment know.  This
directory models the parts that carry a protocol or decide what a user sees,
checks them with TLC and proves the main results with TLAPS.

## The system

| part | state | operations | partners |
|---|---|---|---|
| index on disk (`VisDQMIndex.cc`, `index.cc`) | generation file, `master-<gen>.dqm`, `info/` and `data/` files | begin, commit and cancel an update; add, remove, merge, remap, stream | daemons start the tool; the server reads |
| archive source (`serverext.cc`, `VisDQMArchiveSource`) | the loaded catalogue, open files, the watcher's flag, a retry flag | reload, open, answer requests | request threads, index on disk |
| network core (`DQMNet.cc`, `DQMNet.h`) and live source | peers with objects, queues, masks; waiting requests; a flush flag | message handlers, connect, lose a peer, flush, time out, fetch | sources, collectors, viewers |
| web server core (`Core/GUI.py`) | sessions in memory and on disk, the table of sessions to write | start, find, lock, save, purge a session; write files | request threads, workspaces |
| response cache (`Core/Cache.py`) | entries with expiry and size, announcements | look up, produce once, expire, limit | overview sources |
| DQM workspaces (`DQM/GUI.py`, `DQM/EventDisplay.py`) | the dictionary of a session | some thirty AJAX calls | sessions, browser |
| uploads (`DQM/GUI.py`) | files and markers in the upload areas, a lock per handler | put a data file, a snapshot, a layout | receive daemon |
| import pipeline (`bin/visDQMReceiveDaemon`, `...ImportDaemon`, ...) | drop boxes, the repository of files | receive, import, delete, merge, export | each other, through files |
| overview workspaces (`Overview/GUI.py`, `ProdMon.py`, `PhEDEx.py`, ...) | the dictionary of a session with open plots, periods, filters | AJAX calls | sessions, browser |
| overview sources (`PhEDEx.py`, `ProdMon.py`, `FileLight.py`, `CAF.py`, `DDT.py`, `Tier0.py`, `Core/Plot.py`) | caches of rows and images, values of a refresh | poll, query, group, add up, draw | other services |
| start of a server (`bin/monControl`, `Core/Defs.py`, `etc/config`) | layouts.json, plug-in binaries | rebuild what is out of date, start | layout files, servers |
| command line clients (`Core/HTTP.py`, `Core/X509.py`, `bin/dqm-*`) | queue of requests, connections | pump requests, list directories | web server |
| data file, buffer cache, string tables, render link, monitor elements, archival daemons | see "Not modelled" | | |

How they interact: sources push lists of histograms over TCP to a collector,
which passes them to viewers; clients upload histogram files to the web server,
the receive daemon moves them to the repository, the import daemon runs the
index tool under a lock file; the web server reads the index through shared
files and the collector through its network thread.  Both web servers share the
session store; each page of a browser is drawn from the session, which AJAX
calls change.  The overview asks other services, keeps rows and images for a
while and draws charts of them.

What is hard: an updater and readers that share files without a common lock; an
updater, a daemon or a server that fails or dies between two writes; threads
that give a lock up to take a stronger one, or hold one while they wait for
another; lists that arrive in parts, are passed on in parts and are cut short
by a broken connection; answers that come after the request has timed out; an
exception half way through a handler that has already changed the session;
caches in a row with ages of their own; plots whose rows are filtered, binned and
summed up in separate loops.

What makes each part correct:

- index: an update happens entirely or not at all; every file the catalogue
  names exists; a file once published is never written again;
- archive source: no update is missed, every request ends;
- network: old data are never shown as new, no object is forgotten while a list
  is under way, viewers end up with what the sources have, every fetch ends,
  nobody waits on behalf of a peer that is gone;
- sessions: one request of a session at a time, nothing a client was told of is
  lost, an orderly stop writes everything;
- response cache: the size it compares with its limit is the real one, nobody waits for a
  producer that is gone, nothing stale stays;
- workspaces: what was answered is what is saved and shown, a session can always be
  mended;
- uploads and reception: only whole files, never one in place of another, each in
  the area of its kind;
- overview sources: no row lost or counted twice, pictures are of what was asked
  for and not older than the caches allow.

`PROJECT.json` lists all components, the ones left out with the reason, and
under `hazards` the places in the code where this could go wrong.

## The modules

| module | models | kind |
|---|---|---|
| `AtomicIndex` | what the comment of `class VisDQMIndex` promises | abstract specification |
| `VisDQMIndex` | transactions of `VisDQMIndex.cc`, `add` and `remove` of `index.cc` | detailed specification |
| `ArchiveSource` | `VisDQMArchiveSource` and its watcher, with the updater of `VisDQMIndex` | composition |
| `DQMNet` | `DQMNet.cc`, `DQMNet.h`, the live thread and `fetch()` of `serverext.cc` | a network of nodes |
| `Sessions` | the session store of `Core/GUI.py`: request threads, session thread, kills and restarts | threads |
| `OverviewCache` | `Core/Cache.py` and `lockedCacheFetch` | threads |
| `DQMWorkspaces` | the session methods of `DQM/GUI.py` | one user's calls |
| `EventDisplay` | the workspace and source of `DQM/EventDisplay.py` | a user and arriving snapshots |
| `Overlays` | references over an object, from `Canvas.js` over `DQM/GUI.py` to `serverext.cc` | a pipeline |
| `Uploads` | the three upload handlers of `DQM/GUI.py`, and the daemon as far as one file goes | threads and a process |
| `DQMFileNames` | the classification of names in `DQM/visDQMUtils.py` | operators |
| `ReceiveDaemon` | the rounds of `bin/visDQMReceiveDaemon` over many files | a process, killed and restarted |
| `RequestManager` | `Core/HTTP.py`, `Core/X509.py` and a client that lists directories | an event loop |
| `OverviewWorkspaces` | the session methods of the seven overview workspaces | one user's calls |
| `OverviewPlots` | plots from request to image: `PhEDEx.py`, `ProdMon.py`, `FileLight.py` with their caches of images | composition of the next five |
| `TimeSeries`, `TransferData`, `ProdMonData`, `FileLightData`, `Charts` | time series and ticks; what a plot is drawn from, by source; what the classes of `Core/Plot.py` draw | operators |
| `PhEDExSource` | the two caches and two locks of the transfer plots | threads |
| `ImageScraper` | the thread of `WebImageScraper`, with the tables of `Tier0.py` and `CAF.py` | a thread |
| `CAFData` | the thread of `CAFDataProvider` and the requests of `CAFDiskSource` | threads |
| `OverviewSources` | `PhEDExSource` and `CAFData` in one server, and what must hold of the two | composition |
| `DDT` | the pages of `DDT.py` | requests and restarts |
| `Control` | `bin/monControl` and the fingerprints of `Core/Defs.py` | a script, interrupted |
| `Layouts` | the layout files of `etc/config` | operators |
| `VisDQMIndexProofs`, `AtomicIndexProofs`, `DQMNetProofs`, `OverviewProofs`, `SessionsProofs`, `UploadsProofs`, `DQMWorkspacesProofs`, `ClientsProofs` | theorems: the last one about `ReceiveDaemon`, `RequestManager` and `Uploads` as `MCClients` composes them, `OverviewProofs` about `OverviewCache` and `OverviewSources`, the others about the module they are named for | proofs |
| `MC...`, `OverviewUsers` | instances, and the users and worlds they are made of | model checking |

Operators whose comment begins with "Slip" are plausible mistakes in the
operator that follows them.  No specification uses them; each shows, put in the
place of that operator, that some property is able to fail.

Parts that share no state are checked together, to keep the runs few: an MC
module has a variable `active`, chosen at the start and never changed, that
says which of its parts moves in a behaviour, and each part is an instance with
variables of its own.  The union of the parts' behaviours is what TLC goes
through; nothing of one part depends on another.

### The index on disk

State: `gen` is the generation file, `master[g]` the file `master-<g>.dqm`,
`files` the contents of the data files by kind and number.  A file number is the
pair of the file index and the 16-bit version the code keeps in one 32-bit word;
`Versions` stands for 2^16 and the places where the code carries into the index
(`ContractNumber`) or wraps within 16 bits (`ExtendNumber`, `NextVersion`) are
apart.  A data file is a set of entries (sample number, object, time of import).
The rest is the memory of the updater.

| action | code |
|---|---|
| `BeginAddNew`, `BeginAddAgain` | `addFiles`: `beginUpdate`, find or make the sample record, choose the last file or a new one |
| `BeginRemove`, `BeginRemoveNothing` | `removeFiles`, the sample found or not |
| `OpenFiles`, `WriteFile` | `extend` and `contract`, once for each kind: open source and target, write, finish, note old and new file |
| `CloseMaster`, `WriteGeneration`, `RemoveOldMaster` | `commitUpdate` |
| `RemoveOldFile`, `EndUpdate` | the loop over `oldfiles` |
| `Fail`, `FailAfterCommit`, `UndoFile`, `CancelUpdate` | an exception before or after the generation is written, the handler and `cancelUpdate` |
| `Crash` | the tool is killed; the kernel drops its file lock |

`AtomicSpec` says that this implements `AtomicIndex`: the refinement mapping
`Committed` reads the committed catalogue and the files it names; all steps but
`WriteGeneration` are stutters.  The code does not keep the promise always: an
exception after the generation is written makes the handler delete files that are
committed (`late`), a removal at the last version carries into the file index
while it writes version 0 of the same index (`carry`, `index.cc:934`), and an import
into a file number where a dead updater left a file merges that file (`leftover`).  All
three are steps of the model; the history variable `accidents` records them, and
`AtomicIndex` may give its promise up (`Lose`) at the step of the first one and not before.

Abstractions: a sample is one identity (the code compares dataset, version and
run in one place and leaves the version out in another); an import brings one
sample; file sizes count entries; streamer infos and the data format are left
out; one updater at a time.

### The archive source of the server

State: the read-write lock (`rdlock`, `wrlock`), the flags `retry` and `changed`
with the watcher's `watched` generation, the loaded catalogue (`loaded`,
`samples`), the open files (`handles`, which hold what was in the file when it
was opened: an unlinked file lives on), and of every thread its place in
`getdata()`, `maybeReloadIndex()` or `open()`, what it was asked for, the sample
iterator it holds (`si`, and in `slot` what a reload made of the memory it points
to), and the answer so far.

`Ask` starts a request; `CheckRetry`, `CheckWatch`, `MaybeReset`, `BeginRead` and
`FinishRead` are `maybeReloadIndex()` with the lock upgrades as steps of their
own, `FailToBeginRead` and `FailToRead` its exceptions: the flag of the watcher is down
by then, the old list or a part of the new one stays, and the request reports
the failure by setting `retry`; `FindSample`, `Lookup`, `UseFile`, `UpgradeLock`, `OpenFile`, `Fill` follow
`getdata()` and `open()`; `FileReadFailure` is the handler and the retry loop;
`CheckForUpdate` is the watcher.  The specification interleaves them with all
actions of `VisDQMIndex`.

A file that is gone when it is opened is remembered as a null pointer and read
as an empty file; a retried request keeps what the failed try filled in.  Both
are in the model as they are in the code (`serverext.cc:3306`, `:3357`): an object every generation holds can be
answered as missing, and a sample that vanished between two tries as half there.

### The network

Nodes form a star: a hub (the collector), sources that update it and viewers
that listen to it.  All run the same handlers.  `objs[n][p]` are the objects node
`n` has from peer `p` (`Local` for its own), with version, version of the data
they carry, the flags STALE and DEAD and whether they were asked for.  A queue of
`wire` is everything one end of a connection has sent and the other not yet
processed: send queue, socket, incoming buffer.  `waits` is `waiting_`, `waiting` the
counter in `Peer`, `fetch`, `wants` and `answered` are the request threads inside
`VisDQMLiveThread::fetch()` with their phantom peers.

| action | code |
|---|---|
| `Connect`, `Accept`, `Break`, `LosePeer` | `run()`, `onPeerConnect()`, the network, `losePeer()` with `removePeer()` |
| `Change`, `RemoveLocal`, `Flush` | `updateLocalObject()`, `removeLocalExcept()`, `sendObjectListToPeers()` |
| `Stall` | `onPeerData()` for a peer with `MAX_PEER_WAITREQS` requests waiting |
| `HandleListen`, `HandleGetObject`, `HandleListBegin`, `HandleListEnd`, `HandleObject`, `HandleNone` | the branches of `onMessage()` |
| `Expire` | the loop over `waiting_` in `run()` |
| `FetchLook`, `FetchRequest`, `FetchWake` | `fetch()`: the first look, the request in the name of a phantom peer, the loop around `pthread_cond_wait` |

Abstractions: `LIST_OBJECTS` and `UPDATE_ME`, which leave in one bucket and are
handled in one go, are one message; messages of one batch are processed in steps
of their own; a byte in the wake-up pipe and `flush_` are one flag; the list is
sent in any order (the code walks a hash map); a request may expire at any time,
because time is not modelled; every client has connected once at the start
(`run()` connects before it sends anything).  Incremental lists, the NEW flag,
scalar objects, half-closed connections and malformed messages are left out.

### The sessions of a web server

`lock` is `Server.lock`, `sessions` the table of sessions in memory, `heap` the
session objects (one that has left the table may still be in the hands of a
request), `disk` the session files, `save` the table of copies to write, `saver`
the session thread.

| action | code |
|---|---|
| `Begin`, `Purge`, `MakeFile`, `Create`, `Put`, `StartRaises` | a new session: sessions nobody used for 15 minutes leave the memory, a file name is taken, the object is made |
| `GetFromMemory`, `GetFromDisk`, `Load`, `LoadNothing`, `Take`, `LockSession` | `_getSession` |
| `Change`, `ChangeOnly`, `ChangeAndSave`, `JustRead`, `SaveSession`, `Release` | the handlers and `_saveSession`, `_releaseSession` |
| `OpenPage`, `RefreshPage` | `index()`: the page is made from the session, and may raise |
| `Grab`, `WriteTmp`, `RemoveOld`, `Rename`, `WriteFails`, `RenameFails`, `RoundEnds`, `Stop` | `SessionThread.run` and `stop` |
| `Kill`, `Restart`, `GrowOld` | SIGKILL, an orderly restart, time going by |

The history variable `lost` has the changes a failed file operation takes: a rename
that fails puts its data back into `save`, over a newer copy if one came meanwhile (`Taken`);
in the last round there is nobody left to write what was put back; an exception of
`open` or `pickle.dump` ends the session thread for good.

The server sets the thread switch interval to hours (`Core/GUI.py:3-8`), so that
threads change only where one blocks: at locks and file operations.  A step is
the code between two such points.  This is the atomicity of all modules about
the Python servers.  What a session holds is told apart by the changes that made
it; what the changes do is in `DQMWorkspaces` and `OverviewWorkspaces`, where a
request is one step because the session is locked for its length.

### The response cache

`cache`, `cachesize` and `wanted` are the attributes of `OverviewCache`; each
method that takes the lock is one step.  `Look`, `Read`, `SeeFlag`, `WaitRound`,
`Relook`, `SetFlag`, `Make`, `Insert`, `ClearFlag` are the calls of `cacheFetch`,
`lockedCacheFetch` and the worker of `asyncCacheFill` in their order; `Clean` is one
pass of the cleaner, which `Tick` lets happen once an interval.  A producer
returns, raises or never comes back.

### The workspaces

A session of `DQMWorkspaces` is a record of its scalars and a reference to its
dictionaries: `sessiondef` is a class attribute, and its dictionaries are those
of every session that has not replaced them.  `Call` dispatches a request to the
method of the page as CherryPy does.  `_set` is `SetParameters`: it assigns
parameter after parameter and raises at the first it rejects.  Handlers that hand
the session to the store do so through `Save`.  `Restart` brings a server up with
another configuration, which may lack the workspace a session is in.

`OverviewWorkspaces` keeps a session as the function from keys to values it is in
the code.  The plots of the production workspace are a list in it, with the
current one by index; `Updated` is `_updateURLs`, which may fail at its end (`Composable`);
`Closed`, `Add`, `Move`, `Graph`, `FilterPlot`, `ShowPlot` are the handlers.  `Graph` sets the
verified value (`SetIn`), a link the value it bears (`Taken`).  A request that fails half way
leaves the plot it changed marked as `torn`, a mark the code does not have, until the
next that goes over the plot; `Period` and `EndOf` those of the transfers.
A page that cannot be drawn raises (`Shows`).

`EventDisplay` follows `store`, `_state` and `plot` of the event display, with snapshots in any
order of their names; `Overlays` pairs
references and labels along the way an address takes from the browser to the
back-end.

### Uploads, reception and clients

`Uploads` takes each handler system call by system call: search for a version
(`SeekFile`, `SeekMark`), the temporary file (`MakeTemp`, `Write`), `Verify`,
`Move`, the marker (`OpenMark`, `Describe`), `Succeed`; any call may fail (`Raise`),
and the except clause (`Fail` to `RemoveTemp`) runs after the lock was given back,
as in the code.  The daemon's `LookAt`, `Examine`, `TakeFile`, `ForgetOrigin`, `Spoil` run
beside it.  `ReceiveDaemon` has the rounds over many files: `FindNewFiles` with the
patterns of `DQMFileNames`, `Turn`, `Reject`, `Accept`, `Describe`, `Move`, `Forget`,
`Announce`, `Break` for an assertion that ends the round, `Kill`.

`RequestManager` is the loop of `process()`: `Fill`, `Perform`, and the responses in
any order (`Respond`, `ReportError`), whose call-backs add requests.

### The overview

`OverviewPlots` takes a request for a plot through its source: the time series
(`TimeSeries`), rows that pass the filters, grouped and added up (`TransferData`,
`ProdMonData`, `FileLightData`), the cache of images, and the chart (`Charts`).  What
the databases hold is a `world` that does not change; time goes by between
requests.  A name is the sequence of its parts, a filter the set of names it
matches; the texts of a request are sequences of words and marks, so that keys, which
are joined with `|` and `:`, are joined as the code does.  The latency map has both axes.  `PhEDExSource` has the order of locks and caches around the same
drawing, with queries and drawings that fail; `CAFData` and `ImageScraper` the
polling threads; `DDT` the links made when a server starts.

The code of the overview was written for Python 2 and partly does not run on
Python 3 (`from urllib import quote_plus` in `Overview/GUI.py:2` and `DDT.py:2`,
`execfile` in `PhEDEx.py`, `sort(cmp)` in `CAF.py`, mixtures of bytes and text in
`Core/HTTP.py`, `ProdMon.py` and the scraper).  The handlers are modelled as they are
written.

### The start of a server

`Control` is `monControl`: `Load`, `RemoveOld`, `Make`, `Check`, `Import`, `Write`,
`Start`, one step for each file operation that others could see, with edits,
deletions and interruptions in between.  Of the times of files only that is kept which
`buildlayouts` asks: which are newer than layouts.json (`newer`).  A change may leave a file
no newer: in the same tick of the clock, or put in place with an older time.  The ghost
`arrives` holds the files whose last change the next start must bring: it loses a file that is
changed so or while the files are read, and all files when the writing is interrupted.  `Layouts` are the calls the layout files
of `etc/config` make, in order.

## The runs

| run | parts and instance | shows |
|---|---|---|
| `Index` | `update`: 4 samples, 2 imported, 3 transactions, one death, a sample that is imported, removed and imported again; `wrap`: 2 versions, files full after 3 entries, imports and removals; `serve`: two threads, one import, 2 requests, reloads that fail | `CatalogueFilesExist`, `NumObjectsTrue`, `NoUpdateLost`, `PublishedUntouched`, `AtomicSpec`, `EveryRequestAnswered` |
| `Live` | a source and a viewer around the collector: `change`: a histogram changes and is removed, the viewer's connection breaks, one fetch; `settle`: the same with requests that are given up and connections made again; `double`: two histograms, three changes | `FreshData`, `WaitersCounted`, `ListsConverge`, `FetchesEnd`, `ObjectsStayListed` |
| `Cache` | two threads, two keys, three fetches, limits of one entry and two bytes | `BytesAccounted`, `AnnouncedIsProduced`, `NothingStale`, `WaitEnds` |
| `Sessions` | two threads, two sessions, two changes, three requests, one fault | `OneAtATime`, `NoUpdateLost`, `Flushed`, `RequestsEnd` |
| `Sources` | `plots`: three worlds of databases and each of some 1100 requests, some of them one after the other, so that they meet in the caches; `phedex`: three requests, three images, the parts of an image, a query or a drawing that fails; `images`: the documents of `Tier0.py` and `CAF.py`, over any rounds, with one page that cannot be read, lacks a picture or has one too many, or one picture that does not come; `disk`: a reader and three answers; `pages`: every site over two starts | `NothingLeftOut`, `DrawingsWhole`, `AsAsked`, `ImagesRecent`, `PagesComplete`, `ValuesWhole`, `RequestsEnd` |
| `Pages` | `dqm`: two sessions, five workspaces, eight kinds of user, one restart; `overview`: six kinds of user, three plots; `display`: two days of three snapshots, in any order; `overlay`: objects of every kind of source, two references; `start`: three layout files, two edits, one interruption | `AnsweredIsSaved`, `WayBack`, `PlotsDescribed`, `CanBeMended`, `PeriodMatches`, `LabelsKept`, `LayoutsArrive`, `ImageStays` |
| `Clients` | `uploads`: two threads, three uploads, one fault; `receive`: every kind of name twice and mixes of names, one kill; `list`: two connections, seven directories, two errors | `RightPlace`, `WholeFiles`, `ListingComplete`, `NothingReplaced`, `NeverOverwritten`, `WorkEnds` |
| `IndexPhantom` | nothing imported, 2 imports, one death | **violated** `AlwaysAtomic`: a leftover file is merged into the next import |
| `LiveReconnect` | the source's connection breaks and is made again | **violated** `Converges`: the source sends nothing until something changes |
| `SessionsKilled` | a kill between two file operations | **violated** `SessionsSurvive`: the session is gone |
| `UploadLost` | one failing call among two uploads | **violated** `AcknowledgedKept`: a failed upload removes the file of an acknowledged one |
| `ReceptionStarves` | one file that trips an assertion | **violated** `KeepsGoing`: files after it are never received |

The violated runs are disagreements of the code with what it says of itself,
quoted under `findings` in `PROJECT.json`.

Bounds.  Index: two samples share a file, which is what sharing needs; a third
import into it and a removal are the longest sequence in which a file is
rewritten while an older version of it is still on disk; one death suffices
because a death forgets the memory and the disk is arbitrary afterwards only as
far as that one interrupted transaction made it.  `PublishedUntouched` is not asked of the `wrap` part: names come
back after 2^16 versions.
Server: two threads for one to reload under the other.  Network:
one client of each role and two versions are enough for old and new data to meet,
two histograms for a list to be passed on in parts, two connections
of a client for what a broken one leaves behind.  `MaxExpired` bounds the
requests the hub gives up, because a viewer that gets an object without data asks
again; `Slots` never runs out with `MaxWait` requests of every peer and one of every thread.
Cache: two fetches meet at a key, and a third finds what they left; the limits
are such that one entry is allowed and two are too many.  Sessions: three
requests are one that works, one that waits, and one whose start purges the
memory; one fault, since after a kill the memory is as at the start and the
files are as that one write left them.  Uploads: two versions of one name and a
third upload that meets the clean-up of the first.  Reception: all fields of a
name are enumerated; two files meet at each decision.  Plots: each request alone
goes through all its code, and two in a row are what caches need; the worlds have
storage and tape nodes, nodes that are not in the list, blocks at the bounds of a
period and an empty database.  Transfers: one request draws, one fails to draw what it can reuse, and a
third comes to what both left (`OthersAtWork` lets it come when no other is at work, and the
second while the first is); rows are read again at every tick (`RowsLife` 0), which is
the least the caches can add up to.  Workspaces: a user makes requests of one kind of
use, with good, bad and missing values of each parameter; the kinds together
call every method.

`CHECK_DEADLOCK` is off everywhere: an index with no transaction left, a server
with no request left, a network with nothing more to send and a client that has
returned are at rest.

## Fairness

Safety needs none.  Index and archive source: the machine does not stand still
while a request thread or an updater that has begun can go on (weak fairness of
`Work`, all of them together); which of them goes on is left open, and nothing is
assumed of the watcher, of new requests or of new updates.  Network: every event
loop goes round (`Accept`, `LosePeer`, `Handle`, `Flush`, `Expire`, `Connect` for
each node, connection and wait-list cell), and threads that can run do; nothing
is assumed of histograms that change, of requests, or of connections that break.
Cache: only that a waiting thread runs again after its sleep; a producer may hang
for ever.  Sessions: strong fairness of the request threads, whose steps wait for
locks that the others take and give back: the locks are handed to waiters in
turn; what is required of one thread is required of all, for they are alike.  Transfer plots: weak fairness of each request, which keeps two locks in a
fixed order; the disk of the analysis facility: strong fairness, for its one lock,
but none for what it asks of other services.  Image scraper: nothing in `Sources`.
Uploads and reception: threads and the process run on; faults, kills and
uploads need not happen.  Listing: the loop runs, and every transfer ends, within
curl's time-out of 300 seconds; strong, because the loop also does other work.

## What is proved

All proofs are for every value of the constants, from the named assumptions in
the modules: finitely many nodes, names and wait-list cells, the hub is not a
client, `Free`, `Local`, `Null` and `Missing` are none of the values they stand
beside, bounds and lifetimes are naturals, at least two versions, all samples of
`Imported` distinct, names have the fields of a name, configurations are sequences
of workspaces and no workspace is called "", the directories of a server are a
forest, uploads are of the kinds there are, an image of transfers has its interval of
times, what a service answers about the disk is a sequence of blocks.

- `TypeCorrect` (`VisDQMIndexProofs`): `TypeOK` of the index.  The invariant
  `TypeInv` adds `Control`: the generation never exceeds the number of
  transactions, its master is always there, the updater's generation equals the
  committed one until the commit and is one less after it.  Without that, a step
  could index `master` outside its domain or store the generation of a master
  that is not a catalogue.
- `CatalogueComplete` (`VisDQMIndexProofs`): `CatalogueFilesExist`, wherever the updater
  fails or dies.  There are no hypotheses; the property itself says what is left after a
  failure behind the commit (no catalogue, or one whose files are there) and
  ends at a removal that carries, described above.  The invariant `FilesInv`
  says that all samples in one file are in the same version of it (`Tidy`),
  which makes the next version of a number a name nobody uses; what the updater
  has done so far for each kind of file (`Ready`, `Writing`); that the files to be
  deleted on failure are none of the committed ones, and that those to be deleted
  after the commit are named by neither the new catalogue nor, once it is
  written, the committed one (`Superseded`, `Apart`).  `NewCatalogueComplete` is
  the heart of it: the sharing step of the commit makes the catalogue tidy again.
  `LateInv` takes its place after a failure behind the commit.
- `IndexAtomic` (`AtomicIndexProofs`): the index implements `AtomicIndex`: readers
  see an import or a removal whole or not at all, wherever the updater fails before
  the commit or dies, up to the first accident.  Its
  invariant `ContentInv` goes beyond `FilesInv` from where files are to what is in
  them: a file the committed catalogue names holds the entries of its samples and of
  no others, and what the updater has written for its own catalogue is what the
  old one says with this update applied, as far as it has got.
  The only steps that are not stutters of `AtomicIndex` are `WriteGeneration` and the
  steps of an accident (`AccidentsGrow` says which they are);
  for all the others one shows that the list readers see (`View`) stays.  That a
  removed sample stays hidden when it is imported again is part of `AtomicIndex`, as
  it is in the code (`index.cc:1576`, `:1804`).
- `ObjectCountsTrue` (`AtomicIndexProofs`): `NumObjectsTrue`, from the same invariant,
  if there is some object for an import to bring.
- `NoCommitMissed` (`AtomicIndexProofs`): `NoUpdateLost` of the archive source, for any
  threads and any updates, with reloads that fail, without hypotheses.  `WatchInv` says that
  while both flags are down, the list in memory is whole and no older than what the watcher saw, or a thread that
  has the lock for itself is still about to read it or to report that it could not: the flag is lowered before
  the index is read, so an update in between raises it again.
- `PublishedNeverWritten` (`AtomicIndexProofs`): an action property: a file some
  committed generation has named is removed or left, never written.  Its invariant
  `VersionsInv` says that the committed catalogue is at or past every version ever
  published of a number (`Covers`) and that an update only goes forward from there
  (`Advances`), so that the version it writes is none of them; the hypothesis is
  `NoWrap`, more versions than updates.  `PublishedUntouched` is the same for the parts of `MCIndex`.
- `NetTypeCorrect`, `DataAreFresh`, `WaitListCorrect` (`DQMNetProofs`): `TypeOK`,
  `FreshData` and `WaitersCounted` of the network, from one inductive invariant
  `IInv` with three parts.  `Data` says that all objects and all messages under way
  are fresh: unless marked stale, data carry the version they come with; `FreshData`
  alone is not inductive because it says nothing of the wire.  `Requests` says
  that the counts agree with the wait list (`Counted`), that every cell belongs
  to an open connection or to a thread that sleeps or was woken (`Attached`), and
  that a thread has at most one cell and none once it is answered
  (`OneRequest`): without the last, a thread could return and leave a second
  request behind.  That counts never get negative follows from `Counted`, so types
  and counts are proved together.  One lemma per action shows that it keeps all three.
- `CacheTypeCorrect`, `NobodyWaitsInVain`, `ExpiredEntriesGo`, `BytesCounted`
  (`OverviewProofs`): `TypeOK`, `AnnouncedIsProduced`, `NothingStale` and
  `BytesAccounted` of the response cache, for any threads, keys, sizes and lifetimes.  `AnnouncedIsProduced`
  is inductive once one knows that only locked fetches reach the steps around
  the flag (`OnlyLocked`); `NothingStale` needs that a cleaner that has ended was
  stopped (`EndedStopped`).  `BytesAccounted` is about a sum over all keys, which the
  prover cannot take by induction: `SumIsBlocks` shows that it is the number of
  elements of a set, pairs of a key and a number below its size, since there is only one
  function that satisfies the recursion of the fold (`FoldUnique`).  From there on
  sums are added and split as sets are.  There may be infinitely many keys, as
  long as finitely many have an entry (`FinitelyMany`, part of the invariant).
- `ImagesStayRecent` (`OverviewProofs`): `ImagesRecent` of the transfer plots, for any
  requests, images, intervals and lives of the two caches, with the life of an image more for
every query or drawing that failed: the new validity of an entry is set before its parts are drawn
(`PhEDEx.py:939`), so one that fails makes the parts of an older drawing valid again.  The
  time a request took is compared with the age of an image only after two locks,
  so the invariant has a bound for each place in between (`Timely`): an entry that keeps an
  image is valid no longer than each of its parts may be used (`Lasts`, `LastUse`), and whoever has found the
  entry asked before that; while its owner reads rows and draws, all who
  share the entry asked no later than the new image may be used (`Enough`).  `Placed`
  is the discipline of the locks behind it: only the request that has the lock of an entry works
  on it, and an entry in the cache belongs to a request that has made one.  A request
  that finds the entry while its owner draws is the case a first attempt missed: `Enough` has to
  speak of every request that shares the entry, not of the owner alone.
- `DiskValuesWhole` (`OverviewProofs`): `ValuesWhole` of the plots of the disk, for any
  labels, answers and readers.  While the thread counts, the table is the fold of
  the first `n` blocks of an answer and the rest is at hand (`Filling`), and the thread has
  the lock; wherever it has not, the table is that of a whole answer (`DiskInv`).  A
  thread that died of a malformed block leaves half a table and keeps the lock for
  good, which is why no request ever sees it.  That one more step of the loop is one more
  step of the fold (`OneMore`) is no induction either: both are values of the only
  function that satisfies the recursion (`CountsExist`, `CountsAgree`).
- `SessionsTypeCorrect`, `OneRequestAtATime`, `ChangesKept`, `AllFlushed`
  (`SessionsProofs`): `TypeOK`, `OneAtATime`, `NoUpdateLost` and `Flushed` of the sessions,
  for any names, threads and bounds, through purges, restarts and kills.  The
  difficulty is that a session which left the memory comes back as another object
  with another lock, while a request still waits for the old one.  `Locks` says that
  an object with a request in it is the one in the table (`Current`), that the lock
  belongs to exactly that request (`Locked`, `Owned`), that
  a session with anything to write does not leave the memory (`InMemory`), and that
  a new name is one thread's (`NewNames`).  `Told` follows a change a client was
  told of through the three places its last copy may be in: the table of
  copies to write, the batch of the session thread, the file (`Saved`).  What a
  failed rename takes is `lost`, change by change: the lemma about it
  (`RenameFailsKeeps`) shows that it is the difference between the copy it overwrites and
  the one it puts back, or all of the copy in the last round, and never more.
- `WholeFiles`, `OwnOrigins`, `NothingOverwritten` (`UploadsProofs`): `OnlyWholeFiles`,
  `OwnOrigin` and the action property `NeverOverwritten` of the uploads, for any threads,
  requests, failing calls and kills; `Parameters` says that the constants are what
  their names say.  What an upload found out about a version stays true until it
  uses it (`Version`): all that is added is added by the owner of the lock,
  and all that happens without the lock, the clean-up of a failed upload and the
  receive daemon, only takes names away (`Loses`).  `OthersKeep` is that argument for
  a step of any thread.  `UploadsWhole` and `UploadsApart` (`ClientsProofs`) state them of
  `MCClients`, under the names the run `Clients` checks.
- `ListingTrue` (`ClientsProofs`): `ListingComplete`, for any forest of directories, any
  roots, connections and failures.  The invariant (`ListInv`) says that a directory
  which is expected has exactly one copy of its task in four places, answered,
  failed, waiting or on a connection, and any other directory none (`Once`); and that every
  connection is either free, once, or in use and counted (`Connections`).  That a
  task is not queued a second time, when a directory's listing comes, is what `Forest` is for: a
  directory is in no other one, and its own listing comes once, for it has one task.  The lemmas
  about `Times` count the places of a task in a sequence as elements of a set.
- `SessionsShaped`, `AnswersKept`, `WayBackKnown` (`DQMWorkspacesProofs`): `Shaped`,
  `AnsweredIsSaved` and `WayBack` of the DQM workspaces, for any sessions, workspaces,
  configurations, users and restarts.  `Shaped` says that every session in memory and in the
  store has the parts a session has; without it nothing could be said of the
  updates of its parts.  Each of the handlers is shown to do one of three things
  (`Handled`): it saves what it leaves in memory, it raises, or it changes nothing but
  the position of the slide show; `AnsweredIsSaved` follows from that alone
  (`HandledKeeps`).  `_set` goes through its arguments with a fold over a sequence:
  `FoldView` shows that a fold keeps the shape of what it changes, by the smallest set
  of places on which it would not.  `WayBack` holds of any three presses in
  any session of that shape (`ThreePresses`).
- `ReceivedInPlace`, `ReceivedIsKept` (`ClientsProofs`): `RightPlace` and
  `NothingReplaced` of the receive daemon, for any names, files and kills.  The
  first rests on a lemma about the patterns alone: whatever `finaliseOneFile`
  lets through its assertions and `checkDataset` has the area its class says.
  For the second the invariant keeps the shape of files, that a round works on
  files it found, and that the version chosen is not in the repository while
  its file is described and moved (`OwnVersion`).

Only model-checked: everything about plots and the overview workspaces, most of which is
what functions compute from data (the sums, charts, names and filters of the
overview), `LabelsKept`, `LayoutsArrive` and `ImageStays`, which are of that kind too; the
images and pages made of other services' data (`PagesComplete`); and the liveness properties, which are out of
reach of the prover.  Nothing recursive is used in a module with proofs.

## Where code and text disagree

Beside the five violated runs, these were met.  The first group is stated in
the modules without a run: adding the name to the configuration named shows it.

| statement | where | what happens |
|---|---|---|
| `ConsistentAnswer`, `HandlesOfLoaded` of `ArchiveSource` | `serverext.cc:3300` | two threads and two imports: an answer mixes both imports, and files of the old catalogue stay open |
| `AllProcessed` of `DQMNet`, with two threads of a viewer | `DQMNet.cc:743`, `:778` | a peer at its limit of waiting requests has its next message forgotten in the buffer |
| `WithinLimits` of `OverviewCache` | `Cache.py:89-121` | the limits are never enforced: `_insert` calls `_cull_num`, which does not exist, and `_get_oldest` reads `sys.maxint`, which Python 3 does not have; the insert raises with the entry stored |
| `DrawnOnce` of `PhEDExSource` | `PhEDEx.py:673` | an entry that is still being drawn is valid until 0: the next request prunes it and draws the same image again |
| `SymmetryKept` of `Overlays` | `DQM/GUI.py:623`, `:633` | "the symmetry will be kept between obj and reflabel": when the object itself is of an unknown source no label is put in for it, and the others shift by one; `LabelsKept` says what they are then |
| `AddressVerified` of `OverviewWorkspaces` | `ProdMon.py:203`, `:119` | "already verified that none of these should contain special characters": the view of a link sets what the link says, and asks `_verify` only whether there is anything |
| `ImageServed` of `EventDisplay` | `DQM/EventDisplay.py:159`, `:169` | "the sub-url where we serve images": the picture is opened as text, which Python 3 refuses for a PNG file |
| `KeyConsidersAll` of `OverviewPlots` | `ProdMon.py:1374`, `:1491`; `FileLight.py:177` | "known parameters which need to be considered in the plot cache key": `notitle` and `nolabels` are not in it, texts with a `\|` or a `:` in them can make the same key of different requests, and `custodial=False` has the key of no `custodial` and is drawn as if it were on; `AsAsked` says what holds without these |
| `FirstLabel`, `ExitsEarly` of `CAFData` | `CAF.py:65`, `:102` | the code that stores a data set is inside the loop over labels: it goes under "other" once for each label it does not match, and never under its own; a thread told to stop sleeps for half an hour |
| `VersionsInOrder` of `ReceiveDaemon`, three uploads | `visDQMReceiveDaemon:190` | a file uploaded later may get the lower version |

Stated as what the code does: a removed sample that is imported again stays hidden
(`AddAgain` of `AtomicIndex`; `index.cc:1576`, `:1804`); a failed rename of a session file
puts older data over newer (`Taken` of `Sessions`; `Core/GUI.py:119`), against
"stop after it has flushed all the data to disk" (`Core/GUI.py:88`).

Smaller ones, read and not stated: a latency map on a logarithmic axis, the default, without `ymin` divides by zero,
for the smallest value starts at 0 and its logarithm is taken (`PhEDEx.py:839`, `:854`, `:874`): it is never drawn
(`LatencyFails`);
`ProdMon.py:1336` says 30 minutes where the code has 3600 seconds; the second
quality layout of the PN diodes in `eb-layouts.py` (lines 136, 143) takes the path of
the first (`LayoutsArrive` says that nothing else is hidden); a production plot added at the end is made the current one by an index after the
last, and no page of the session can be drawn until it is closed or another is chosen (`ProdMon.py:326`; `CanBeMended`); data sets whose primary name begins with RelVal, with `rundepMC` and without a
release, are received as data (the exception in `RightPlace`); a legend of
exactly `max_legend` entries bears the remark that some were truncated (`Plot.py:489`); two of the eight
pictures of a DDT page are one query; a picture that is missing on a foreign page, or one too many before others, gives
the names after it the wrong picture until the next round (`OddPages` of `ImageScraper`; `Overview/GUI.py:307`).

## Not modelled

| part | why |
|---|---|
| index: merge, remap, stream, two writers | merging and streaming copy whole catalogues through the transactions that are modelled; two writers are next in the plan |
| data file, buffer cache (`VisDQMFile.cc`, `VisDQMCache.cc`) | compression threads and rings of buffers: planned |
| render link and renderer | image queue and process restarts: planned |
| other daemons of the pipeline, archival daemons | polling scripts over directories like the receive daemon, without shared locks: planned after it |
| string tables, comparisons | pure data structures |
| certification sources, strip charts, JSON output | formatting |
| monitor elements and quality tests | numerical code over ROOT objects |
| browser interface, except the addresses `Canvas.js` makes | user interface |
| generated code, build glue, sound alarms | no protocol of their own |

Plan: two writers at once in `VisDQMIndex`; `VisDQMFile` with its threads; the render link; the import and
delete daemons behind `ReceiveDaemon`.
