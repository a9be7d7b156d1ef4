------------------------------- MODULE DQMNet -------------------------------
(***************************************************************************)
(* The network of live monitoring (DQMNet.cc, DQMNet.h): sources push the  *)
(* list of their histograms to a collector, viewers (the live thread of    *)
(* the web server, serverext.cc) listen to it, and the contents of a       *)
(* histogram travel only when somebody asks for them.  All nodes run the   *)
(* same code; a connection is one TCP stream, opened by the client, that   *)
(* may break.                                                              *)
(***************************************************************************)
EXTENDS Integers, Sequences, FiniteSets

CONSTANTS
  Hub,        \* the collector
  Sources,    \* nodes that update the collector
  Viewers,    \* nodes that listen to the collector
  Names,      \* the histograms
  Threads,    \* request threads of a viewer
  Breakable,  \* the clients whose connections may break
  Removes,    \* whether sources remove histograms
  MaxWait,    \* requests a peer may have waiting (MAX_PEER_WAITREQS)
  Slots,      \* bound: the cells of the wait list
  MaxConns,   \* bound: connections a client makes
  MaxChanges, \* bound: changes to the histograms of the sources
  MaxAsks,    \* bound: fetches
  MaxExpired, \* bound: requests the collector gives up
  Local,      \* the peer that holds the node's own objects (local_)
  Free        \* an empty cell, no histogram

Clients == Sources \cup Viewers
Nodes == Clients \cup {Hub}
Conns == Clients \X (1 .. MaxConns)
Ends == Conns \cup {Local}
Fetchers == Viewers \X {"fetch"} \X Threads

(* Who may wait for an object: a connected peer or a phantom one.          *)
Parties == Conns \cup Fetchers

ASSUME NodesAssumption ==
  /\ Hub \notin Clients /\ Sources \cap Viewers = {}
  /\ IsFiniteSet(Clients)
  /\ Breakable \subseteq Clients /\ Removes \in BOOLEAN
ASSUME PeersAssumption == Local \notin Conns
ASSUME BoundsAssumption ==
  /\ MaxWait \in Nat \ {0} /\ MaxConns \in Nat \ {0}
  /\ MaxChanges \in Nat /\ MaxAsks \in Nat /\ MaxExpired \in Nat
  /\ IsFiniteSet(Slots) /\ IsFiniteSet(Names)

(* A histogram: its version, the version its rawdata belongs to (0 if it   *)
(* has none), the STALE and DEAD flags, and whether lastreq is set.        *)
Object == [version : Nat, data : Nat, stale : BOOLEAN, dead : BOOLEAN,
           asked : BOOLEAN]

Message ==
  [type : {"LISTEN", "LIST_BEGIN", "LIST_END"}]
  \cup [type : {"GET_OBJECT", "NONE"}, name : Names]
  \cup [type : {"OBJECT"}, name : Names, version : Nat, data : Nat,
        stale : BOOLEAN, dead : BOOLEAN]

(* A queue holds what one end of a connection has sent and the other has   *)
(* not processed: the send queue, the socket and the incoming buffer.      *)
Queues == Conns \X Nodes

WaitObject == [peer : Parties, name : Names]

ASSUME FreeAssumption == Free \notin WaitObject

VARIABLES
  made,      \* connections each client has made
  backlog,   \* connections not yet accepted
  peers,     \* the connections each node has open
  cut,       \* broken connections
  feeds,     \* peers that get updates (Peer::update)
  wire,      \* the queues
  stalled,   \* queues all of whose bytes were read and left in incoming
  objs,      \* the objects of each peer
  flush,     \* flush_, or a byte in the wake-up pipe that will set it
  waits,     \* waiting_
  waiting,   \* Peer::waiting
  items,     \* VisDQMLiveThread::items_: the versions a viewer lists
  fetch,     \* where each request thread is
  wants,     \* the histogram it fetches
  answered,  \* whether its phantom peer has something in sendq
  nchanges,  \* changes so far, and the version of the last
  nasks,     \* fetches so far
  nexpired   \* requests the collector has given up

links == <<made, backlog, peers, cut>>
requests == <<fetch, wants, answered>>
counts == <<nchanges, nasks, nexpired>>
vars == <<made, backlog, peers, cut, feeds, wire, stalled, objs, flush, waits,
          waiting, items, fetch, wants, answered, nchanges, nasks,
          nexpired>>

TypeOK ==
  /\ made \in [Clients -> 1 .. MaxConns]
  /\ backlog \subseteq Conns /\ cut \subseteq Conns
  /\ peers \in [Nodes -> SUBSET Conns]
  /\ feeds \in [Nodes -> SUBSET Conns]
  /\ wire \in [Queues -> Seq(Message)]
  /\ stalled \subseteq Queues
  /\ DOMAIN objs = Nodes
  /\ \A n \in Nodes :
       /\ DOMAIN objs[n] = Ends
       /\ \A p \in Ends : /\ DOMAIN objs[n][p] \subseteq Names
                          /\ objs[n][p] \in [DOMAIN objs[n][p] -> Object]
  /\ flush \in [Nodes -> BOOLEAN]
  /\ waits \in [Nodes -> [Slots -> WaitObject \cup {Free}]]
  /\ waiting \in [Nodes -> [Parties -> Nat]]
  /\ DOMAIN items = Viewers
  /\ \A v \in Viewers : /\ DOMAIN items[v] \subseteq Names
                        /\ items[v] \in [DOMAIN items[v] -> Nat]
  /\ fetch \in [Fetchers -> {"idle", "request", "sleep", "woken"}]
  /\ wants \in [Fetchers -> Names \cup {Free}]
  /\ answered \in [Fetchers -> BOOLEAN]
  /\ nchanges \in 0 .. MaxChanges
  /\ nasks \in 0 .. MaxAsks
  /\ nexpired \in 0 .. MaxExpired

------------------------------------------------------------------------------
(* Connections and messages                                                *)

In(c, n) == <<c, n>>
Out(c, n) == <<c, IF n = Hub THEN c[1] ELSE Hub>>

(* What is sent on a broken connection goes nowhere.                       *)
Post(w, c, n, msgs) ==
  IF c \in Conns \ cut THEN [w EXCEPT ![Out(c, n)] = @ \o msgs] ELSE w

Consume(c, n) == [wire EXCEPT ![In(c, n)] = Tail(@)]

(* New bytes wake the receiver, who then looks at the older ones too.      *)
Transmit(w) ==
  /\ wire' = w
  /\ stalled' = {q \in stalled : w[q] = wire[q]}

Get(x) == [type |-> "GET_OBJECT", name |-> x]
None(x) == [type |-> "NONE", name |-> x]
Begin == [type |-> "LIST_BEGIN"]
End == [type |-> "LIST_END"]

(* LIST_OBJECTS and UPDATE_ME, which leave in one bucket of 16 bytes and   *)
(* are processed in one go.                                                *)
Listen == [type |-> "LISTEN"]

(* Slip: send the DEAD flag along.                                         *)
ObjectMessageDead(x, o, withdata) ==
  [type |-> "OBJECT", name |-> x, version |-> o.version,
   data |-> IF withdata THEN o.data ELSE 0, stale |-> o.stale, dead |-> o.dead]

(* sendObjectToPeer(): all flags but DEAD, and the data if wanted.         *)
ObjectMessage(x, o, withdata) ==
  [type |-> "OBJECT", name |-> x, version |-> o.version,
   data |-> IF withdata THEN o.data ELSE 0, stale |-> o.stale, dead |-> FALSE]

Nothing == [x \in {} |-> 0]

(* findObject(0, x): the map of peers is in no particular order, so it may *)
(* find the object of any peer that has one.                               *)
Owners(n, x) == {p \in Ends : x \in DOMAIN objs[n][p]}

(* sendObjectListToPeer(): the full list, in no particular order; objects  *)
(* somebody has asked for go with their data.                              *)
Listings(n) ==
  LET known == {e \in Ends \X Names : e[2] \in DOMAIN objs[n][e[1]]}
      orders == {f \in [1 .. Cardinality(known) -> known] :
                   \A i, j \in DOMAIN f : f[i] = f[j] => i = j}
  IN  {<<Begin>>
       \o [i \in DOMAIN f |->
             LET o == objs[n][f[i][1]][f[i][2]]
             IN  ObjectMessage(f[i][2], o, o.asked)]
       \o <<End>> : f \in orders}

------------------------------------------------------------------------------
(* The wait list                                                           *)

Held(n, S, p) == {s \in S : waits[n][s] # Free /\ waits[n][s].peer = p}

For(n, x) == {s \in Slots : waits[n][s] # Free /\ waits[n][s].name = x}

(* Whoever is in pthread_cond_wait() looks again.                          *)
Broadcast(n) ==
  [f \in Fetchers |-> IF f[1] = n /\ fetch[f] = "sleep" THEN "woken"
                                                        ELSE fetch[f]]

(* waitForData(): ask the owner and put the peer on the wait list.         *)
WaitForData(n, who, x, owner, w) ==
  LET cells == {s \in Slots : waits[n][s] = Free}
      cell == CHOOSE s \in cells : TRUE
  IN  /\ cells # {}
      /\ Transmit(Post(w, owner, n, <<Get(x)>>))
      /\ waits' = [waits EXCEPT ![n][cell] = [peer |-> who, name |-> x]]
      /\ waiting' = [waiting EXCEPT ![n][who] = @ + 1]

(* Slip: do not wake the threads.                                          *)
ReleaseQuietly(n, S, m, w) ==
  LET copies(p) == [i \in 1 .. Cardinality(Held(n, S, p)) |-> m]
  IN  /\ Transmit([q \in Queues |->
                    IF q[1] \notin cut /\ q = Out(q[1], n)
                    THEN w[q] \o copies(q[1]) ELSE w[q]])
      /\ waits' = [waits EXCEPT ![n] =
                     [s \in Slots |-> IF s \in S THEN Free ELSE @[s]]]
      /\ waiting' = [waiting EXCEPT ![n] =
                       [p \in Parties |-> @[p] - Cardinality(Held(n, S, p))]]
      /\ answered' = [f \in Fetchers |->
                        answered[f] \/ (f[1] = n /\ Held(n, S, f) # {})]
      /\ UNCHANGED <<fetch, wants>>

(* releaseFromWait() for the cells S, with the answer m; w is what is on   *)
(* the wire otherwise.                                                     *)
Release(n, S, m, w) ==
  LET copies(p) == [i \in 1 .. Cardinality(Held(n, S, p)) |-> m]
  IN  /\ Transmit([q \in Queues |->
                    IF q[1] \notin cut /\ q = Out(q[1], n)
                    THEN w[q] \o copies(q[1]) ELSE w[q]])
      /\ waits' = [waits EXCEPT ![n] =
                     [s \in Slots |-> IF s \in S THEN Free ELSE @[s]]]
      /\ waiting' = [waiting EXCEPT ![n] =
                       [p \in Parties |-> @[p] - Cardinality(Held(n, S, p))]]
      /\ answered' = [f \in Fetchers |->
                        answered[f] \/ (f[1] = n /\ Held(n, S, f) # {})]
      /\ fetch' = IF S = {} THEN fetch ELSE Broadcast(n)
      /\ UNCHANGED wants

------------------------------------------------------------------------------
(* Connections come and go                                                 *)

(* Every client connects as soon as it runs.                               *)
Greeting(c) == IF c[1] \in Viewers THEN <<Listen>> ELSE <<>>

First == {<<m, 1>> : m \in Clients}

Init ==
  /\ made = [m \in Clients |-> 1] /\ backlog = First /\ cut = {}
  /\ peers = [n \in Nodes |-> {c \in First : c[1] = n}]
  /\ feeds = [n \in Nodes |-> {c \in First : c[1] = n /\ n \in Sources}]
  /\ wire = [q \in Queues |-> IF q[1] \in First /\ q[2] = Hub THEN Greeting(q[1])
                                                              ELSE <<>>]
  /\ stalled = {}
  /\ objs = [n \in Nodes |-> [p \in Ends |-> Nothing]]
  /\ flush = [n \in Nodes |-> FALSE]
  /\ waits = [n \in Nodes |-> [s \in Slots |-> Free]]
  /\ waiting = [n \in Nodes |-> [p \in Parties |-> 0]]
  /\ items = [v \in Viewers |-> Nothing]
  /\ fetch = [f \in Fetchers |-> "idle"]
  /\ wants = [f \in Fetchers |-> Free]
  /\ answered = [f \in Fetchers |-> FALSE]
  /\ nchanges = 0 /\ nasks = 0 /\ nexpired = 0

(* run(): a client without a connection makes a new one.  A viewer queues  *)
(* a request for updates; a source gets updates sent, but none is due.     *)
Connect(m) ==
  LET c == <<m, made[m] + 1>>
  IN  /\ peers[m] = {}
      /\ made[m] < MaxConns
      /\ made' = [made EXCEPT ![m] = @ + 1]
      /\ backlog' = backlog \cup {c}
      /\ peers' = [peers EXCEPT ![m] = {c}]
      /\ feeds' = [feeds EXCEPT ![m] = IF m \in Sources THEN {c} ELSE {}]
      /\ wire' = [wire EXCEPT ![Out(c, m)] = Greeting(c)]
      /\ UNCHANGED <<cut, stalled, objs, flush, waits, waiting, items, requests,
                     counts>>

(* onPeerConnect()                                                         *)
Accept(c) ==
  /\ c \in backlog
  /\ backlog' = backlog \ {c}
  /\ peers' = [peers EXCEPT ![Hub] = @ \cup {c}]
  /\ UNCHANGED <<made, cut, feeds, wire, stalled, objs, flush, waits, waiting,
                 items, requests, counts>>

(* The network gives up on a connection.  Either end may still process     *)
(* what has reached it.                                                    *)
Break(c) ==
  /\ c[1] \in Breakable
  /\ c[2] <= made[c[1]] /\ c[2] < MaxConns
  /\ c \notin cut
  /\ cut' = cut \cup {c}
  /\ UNCHANGED <<made, backlog, peers, feeds, wire, stalled, objs, flush, waits,
                 waiting, items, requests, counts>>

(* Slip: leave the requests of the lost peer on the wait list.             *)
LosePeerKeepingWaits(n, c) ==
  /\ c \in cut \cap peers[n]
  /\ peers' = [peers EXCEPT ![n] = @ \ {c}]
  /\ feeds' = [feeds EXCEPT ![n] = @ \ {c}]
  /\ waiting' = [waiting EXCEPT ![n][c] = 0]
  /\ wire' = [wire EXCEPT ![In(c, n)] = <<>>]
  /\ stalled' = stalled \ {In(c, n)}
  /\ objs' = [objs EXCEPT ![n][c] = Nothing]
  /\ flush' = [flush EXCEPT ![n] = @ \/ DOMAIN objs[n][c] # {}]
  /\ fetch' = Broadcast(n)
  /\ UNCHANGED <<made, backlog, cut, waits, items, wants, answered, counts>>

(* losePeer() and removePeer(): the requests of the peer are forgotten,    *)
(* its objects are gone, and everyone else is told if there were any.      *)
LosePeer(n, c) ==
  /\ c \in cut \cap peers[n]
  /\ peers' = [peers EXCEPT ![n] = @ \ {c}]
  /\ feeds' = [feeds EXCEPT ![n] = @ \ {c}]
  /\ waits' = [waits EXCEPT ![n] =
                 [s \in Slots |-> IF s \in Held(n, Slots, c) THEN Free ELSE @[s]]]
  /\ waiting' = [waiting EXCEPT ![n][c] = 0]
  /\ wire' = [wire EXCEPT ![In(c, n)] = <<>>]
  /\ stalled' = stalled \ {In(c, n)}
  /\ objs' = [objs EXCEPT ![n][c] = Nothing]
  /\ flush' = [flush EXCEPT ![n] = @ \/ DOMAIN objs[n][c] # {}]
  /\ fetch' = Broadcast(n)
  /\ UNCHANGED <<made, backlog, cut, items, wants, answered, counts>>

------------------------------------------------------------------------------
(* The histograms of the sources                                           *)

(* updateLocalObject() and sendLocalChanges(): lastreq stays as it is.     *)
Change(n, x) ==
  LET old == objs[n][Local]
      new == [version |-> nchanges + 1, data |-> nchanges + 1,
              stale |-> FALSE, dead |-> FALSE,
              asked |-> x \in DOMAIN old /\ old[x].asked]
  IN  /\ nchanges < MaxChanges
      /\ nchanges' = nchanges + 1
      /\ objs' = [objs EXCEPT ![n][Local] =
                    [y \in DOMAIN old \cup {x} |-> IF y = x THEN new ELSE old[y]]]
      /\ flush' = [flush EXCEPT ![n] = TRUE]
      /\ UNCHANGED <<links, feeds, wire, stalled, waits, waiting, items, requests,
                     nasks, nexpired>>

(* removeLocalExcept() and sendLocalChanges()                              *)
RemoveLocal(n, x) ==
  LET old == objs[n][Local]
  IN  /\ Removes
      /\ x \in DOMAIN old
      /\ nchanges < MaxChanges
      /\ nchanges' = nchanges + 1
      /\ objs' = [objs EXCEPT ![n][Local] = [y \in DOMAIN old \ {x} |-> old[y]]]
      /\ flush' = [flush EXCEPT ![n] = TRUE]
      /\ UNCHANGED <<links, feeds, wire, stalled, waits, waiting, items, requests,
                     nasks, nexpired>>

(* sendObjectListToPeers(): always the full list.                          *)
Flush(n) ==
  /\ flush[n]
  /\ flush' = [flush EXCEPT ![n] = FALSE]
  /\ \E list \in Listings(n) :
       Transmit([q \in Queues |->
                  IF q[1] \in feeds[n] \ cut /\ q = Out(q[1], n)
                  THEN wire[q] \o list ELSE wire[q]])
  /\ UNCHANGED <<links, feeds, objs, waits, waiting, items, requests, counts>>

------------------------------------------------------------------------------
(* Messages                                                                *)

(* onPeerData(): process the next message unless the peer waits for too    *)
(* many objects.                                                           *)
Receive(n, c, type) ==
  /\ c \in peers[n]
  /\ wire[In(c, n)] # <<>>
  /\ Head(wire[In(c, n)]).type = type
  /\ In(c, n) \notin stalled
  /\ waiting[n][c] < MaxWait

(* If it does, what has arrived is read but left in the incoming buffer,   *)
(* and the selector only tells of new bytes.                               *)
Stall(n, c) ==
  /\ c \in peers[n]
  /\ wire[In(c, n)] # <<>>
  /\ In(c, n) \notin stalled
  /\ waiting[n][c] >= MaxWait
  /\ stalled' = stalled \cup {In(c, n)}
  /\ UNCHANGED <<links, feeds, wire, objs, flush, waits, waiting, items, requests,
                 counts>>

(* Send the list of objects, and updates from now on.                      *)
HandleListen(n, c) ==
  /\ Receive(n, c, "LISTEN")
  /\ \E list \in Listings(n) : Transmit(Post(Consume(c, n), c, n, list))
  /\ feeds' = [feeds EXCEPT ![n] = @ \cup {c}]
  /\ UNCHANGED <<links, objs, flush, waits, waiting, items, requests, counts>>

(* What becomes of a request for x at n: nobody has it, or it is there, or *)
(* it has to be fetched from its owner.                                    *)
Unknown(n, x) == Owners(n, x) = {}

Fresh(o) == o.data # 0 /\ ~o.stale

NoteRequest(n, p, x) == objs' = [objs EXCEPT ![n][p][x].asked = TRUE]

HandleGetObject(n, c) ==
  LET x == Head(wire[In(c, n)]).name
      w == Consume(c, n)
  IN  /\ Receive(n, c, "GET_OBJECT")
      /\ \/ /\ Unknown(n, x)
            /\ Transmit(Post(w, c, n, <<None(x)>>))
            /\ UNCHANGED <<objs, waits, waiting>>
         \/ \E p \in Owners(n, x) :
              /\ NoteRequest(n, p, x)
              /\ \/ /\ Fresh(objs[n][p][x])
                    /\ Transmit(Post(w, c, n,
                                     <<ObjectMessage(x, objs[n][p][x], TRUE)>>))
                    /\ UNCHANGED <<waits, waiting>>
                 \/ /\ ~Fresh(objs[n][p][x])
                    /\ WaitForData(n, c, x, p, w)
      /\ UNCHANGED <<links, feeds, flush, items, requests, counts>>

(* markObjectsDead(): all objects of the peer may be dead; those nobody    *)
(* has asked for in five minutes count as never asked for.                 *)
HandleListBegin(n, c) ==
  LET mine == objs[n][c]
  IN  /\ Receive(n, c, "LIST_BEGIN")
      /\ Transmit(Consume(c, n))
      /\ \E recent \in SUBSET {x \in DOMAIN mine : mine[x].asked} :
           objs' = [objs EXCEPT ![n][c] =
                     [x \in DOMAIN mine |->
                       [mine[x] EXCEPT !.dead = TRUE, !.asked = x \in recent]]]
      /\ UNCHANGED <<links, feeds, flush, waits, waiting, items, requests, counts>>

Alive(mine) ==
  LET living == {x \in DOMAIN mine : ~mine[x].dead}
  IN  [x \in living |-> mine[x]]

(* What the live thread lists once it has a full update.                   *)
Replica(mine) == [x \in DOMAIN mine |-> mine[x].version]

(* Slip: do not pass the update on.                                        *)
HandleListEndSilently(n, c) ==
  /\ Receive(n, c, "LIST_END")
  /\ Transmit(Consume(c, n))
  /\ objs' = [objs EXCEPT ![n][c] = Alive(@)]
  /\ items' = IF n \in Viewers
              THEN [items EXCEPT ![n] = Replica(Alive(objs[n][c]))] ELSE items
  /\ UNCHANGED <<links, feeds, flush, waits, waiting, requests, counts>>

(* purgeDeadObjects(), and tell the others.                                *)
HandleListEnd(n, c) ==
  /\ Receive(n, c, "LIST_END")
  /\ Transmit(Consume(c, n))
  /\ objs' = [objs EXCEPT ![n][c] = Alive(@)]
  /\ flush' = [flush EXCEPT ![n] = TRUE]
  /\ items' = IF n \in Viewers
              THEN [items EXCEPT ![n] = Replica(Alive(objs[n][c]))] ELSE items
  /\ UNCHANGED <<links, feeds, waits, waiting, requests, counts>>

(* Slip: do not mark old data stale.                                       *)
UpdatedUnmarked(mine, m) ==
  LET known == m.name \in DOMAIN mine
      olddata == IF known THEN mine[m.name].data ELSE 0
  IN  [version |-> m.version,
       data    |-> IF m.data # 0 THEN m.data ELSE olddata,
       stale   |-> m.stale,
       dead    |-> m.dead,
       asked   |-> known /\ mine[m.name].asked]

(* The object a message makes of the one known so far: without data it     *)
(* leaves the old data there and marks them stale.                         *)
Updated(mine, m) ==
  LET known == m.name \in DOMAIN mine
      olddata == IF known THEN mine[m.name].data ELSE 0
  IN  [version |-> m.version,
       data    |-> IF m.data # 0 THEN m.data ELSE olddata,
       stale   |-> m.stale \/ (m.data = 0 /\ olddata # 0),
       dead    |-> m.dead,
       asked   |-> known /\ mine[m.name].asked]

HandleObject(n, c) ==
  LET m == Head(wire[In(c, n)])
      x == m.name
      mine == objs[n][c]
      new == Updated(mine, m)
      w == IF new.asked /\ m.data = 0
           THEN Post(Consume(c, n), c, n, <<Get(x)>>) ELSE Consume(c, n)
  IN  /\ Receive(n, c, "OBJECT")
      /\ objs' = [objs EXCEPT ![n][c] =
                    [y \in DOMAIN mine \cup {x} |->
                       IF y = x THEN new ELSE mine[y]]]
      /\ Release(n, IF m.data # 0 THEN For(n, x) ELSE {},
                 ObjectMessage(x, new, TRUE), w)
      /\ UNCHANGED <<links, feeds, flush, items, counts>>

(* If the object is known it is killed, with all that are tentatively dead *)
(* already, and whoever waits for the name is let go.                      *)
HandleNone(n, c) ==
  LET x == Head(wire[In(c, n)]).name
      mine == objs[n][c]
  IN  /\ Receive(n, c, "NONE")
      /\ objs' = IF x \in DOMAIN mine
                 THEN [objs EXCEPT ![n][c] =
                         Alive([mine EXCEPT ![x].dead = TRUE])]
                 ELSE objs
      /\ Release(n, For(n, x), None(x), Consume(c, n))
      /\ UNCHANGED <<links, feeds, flush, items, counts>>

Handle(n, c) ==
  \/ HandleListen(n, c) \/ HandleGetObject(n, c)
  \/ HandleListBegin(n, c) \/ HandleListEnd(n, c)
  \/ HandleObject(n, c) \/ HandleNone(n, c)

------------------------------------------------------------------------------
(* Time                                                                    *)

(* A viewer that gets an object without its data asks again, so every      *)
(* request the collector gives up may bring another one.                   *)
CountExpired(n) ==
  \/ n # Hub /\ UNCHANGED nexpired
  \/ n = Hub /\ nexpired < MaxExpired /\ nexpired' = nexpired + 1

(* run(): a peer that has waited too long is released with what there is.  *)
(* Time is not modelled: whether waitStale_ or waitMax_ applies decides    *)
(* only how soon that is.                                                  *)
Expire(n, s) ==
  LET x == waits[n][s].name
  IN  /\ waits[n][s] # Free
      /\ \/ /\ Unknown(n, x)
            /\ Release(n, {s}, None(x), wire)
         \/ \E p \in Owners(n, x) :
              Release(n, {s}, ObjectMessage(x, objs[n][p][x], TRUE), wire)
      /\ CountExpired(n)
      /\ UNCHANGED <<links, feeds, objs, flush, items, nchanges, nasks>>

------------------------------------------------------------------------------
(* VisDQMLiveThread::fetch(), on the threads of the web server             *)

(* Look for the object; unless it is there and fresh, go on.               *)
FetchLook(f, x) ==
  /\ fetch[f] = "idle"
  /\ nasks < MaxAsks
  /\ nasks' = nasks + 1
  /\ \/ /\ Unknown(f[1], x)
        /\ fetch' = [fetch EXCEPT ![f] = "request"]
        /\ wants' = [wants EXCEPT ![f] = x]
        /\ UNCHANGED objs
     \/ \E p \in Owners(f[1], x) :
          /\ NoteRequest(f[1], p, x)
          /\ \/ /\ Fresh(objs[f[1]][p][x])
                /\ UNCHANGED <<fetch, wants>>
             \/ /\ ~Fresh(objs[f[1]][p][x])
                /\ fetch' = [fetch EXCEPT ![f] = "request"]
                /\ wants' = [wants EXCEPT ![f] = x]
  /\ UNCHANGED <<links, feeds, wire, stalled, flush, waits, waiting, items,
                 answered, nchanges, nexpired>>

Return(f, others) ==
  /\ fetch' = [others EXCEPT ![f] = "idle"]
  /\ wants' = [wants EXCEPT ![f] = Free]
  /\ answered' = [answered EXCEPT ![f] = FALSE]

(* Issue the request as if from a phantom peer, and go to sleep unless it  *)
(* is answered at once.                                                    *)
FetchRequest(f) ==
  LET n == f[1]
      x == wants[f]
  IN  /\ fetch[f] = "request"
      /\ \/ /\ Unknown(n, x)
            /\ Return(f, fetch)
            /\ UNCHANGED <<objs, wire, stalled, waits, waiting>>
         \/ \E p \in Owners(n, x) :
              /\ NoteRequest(n, p, x)
              /\ \/ /\ Fresh(objs[n][p][x])
                    /\ Return(f, Broadcast(n))
                    /\ UNCHANGED <<wire, stalled, waits, waiting>>
                 \/ /\ ~Fresh(objs[n][p][x])
                    /\ WaitForData(n, f, x, p, wire)
                    /\ fetch' = [fetch EXCEPT ![f] = "sleep"]
                    /\ UNCHANGED <<wants, answered>>
      /\ UNCHANGED <<links, feeds, flush, items, counts>>

(* Look for the reply; the loop also ends when there are no peers, but the *)
(* local one is always there.                                              *)
FetchWake(f) ==
  /\ fetch[f] = "woken"
  /\ \/ /\ answered[f]
        /\ Return(f, fetch)
     \/ /\ ~answered[f]
        /\ fetch' = [fetch EXCEPT ![f] = "sleep"]
        /\ UNCHANGED <<wants, answered>>
  /\ UNCHANGED <<links, feeds, wire, stalled, objs, flush, waits, waiting, items,
                 counts>>

------------------------------------------------------------------------------
Next ==
  \/ \E m \in Clients : Connect(m)
  \/ \E c \in Conns : Accept(c) \/ Break(c)
  \/ \E n \in Nodes, c \in Conns : LosePeer(n, c) \/ Stall(n, c) \/ Handle(n, c)
  \/ \E n \in Sources, x \in Names : Change(n, x) \/ RemoveLocal(n, x)
  \/ \E n \in Nodes : Flush(n)
  \/ \E n \in Nodes, s \in Slots : Expire(n, s)
  \/ \E f \in Fetchers :
       (\E x \in Names : FetchLook(f, x)) \/ FetchRequest(f) \/ FetchWake(f)

Spec == Init /\ [][Next]_vars

(* The event loop of every node goes round, and threads are scheduled.     *)
Fairness ==
  /\ \A m \in Clients : WF_vars(Connect(m))
  /\ \A c \in Conns : WF_vars(Accept(c))
  /\ \A n \in Nodes, c \in Conns : WF_vars(LosePeer(n, c)) /\ WF_vars(Handle(n, c))
  /\ \A n \in Nodes : WF_vars(Flush(n))
  /\ \A n \in Nodes, s \in Slots : WF_vars(Expire(n, s))
  /\ \A f \in Fetchers : WF_vars(FetchRequest(f)) /\ WF_vars(FetchWake(f))

FairSpec == Spec /\ Fairness

------------------------------------------------------------------------------
(* Peer::waiting counts the entries of the peer on the wait list (the      *)
(* assertion in releaseFromWait), and every entry points to a peer that is *)
(* still there: an open connection, or a thread still inside fetch().      *)
WaitersCounted ==
  \A n \in Nodes :
    /\ \A p \in Parties : waiting[n][p] = Cardinality(Held(n, Slots, p))
    /\ \A s \in Slots : waits[n][s] # Free =>
         LET p == waits[n][s].peer
         IN  \/ p \in peers[n]
             \/ p \in Fetchers /\ p[1] = n /\ fetch[p] \in {"sleep", "woken"}

(* Data that are not marked stale belong to the version they come with, at *)
(* every node: onMessage() sets STALE when a list brings a version without  *)
(* data for an object whose data it has, and the flag travels along.       *)
FreshData ==
  \A n \in Nodes, p \in Ends :
    \A x \in DOMAIN objs[n][p] :
      Fresh(objs[n][p][x]) => objs[n][p][x].data = objs[n][p][x].version

(* What the viewers list is in the end what the sources have: connections  *)
(* lost are made again ("we will eventually recreate everything if/when    *)
(* the data server comes back").                                           *)
Converges ==
  <>[](\A v \in Viewers :
         /\ DOMAIN items[v] = UNION {DOMAIN objs[m][Local] : m \in Sources}
         /\ \A x \in DOMAIN items[v] :
              \E m \in Sources : /\ x \in DOMAIN objs[m][Local]
                                 /\ items[v][x] = objs[m][Local][x].version)

(* A request for an object ends, whatever becomes of the connections       *)
(* ("we do force terminate the wait after a while").                       *)
FetchEnds == \A f \in Fetchers : fetch[f] # "idle" ~> fetch[f] = "idle"

(* Complete requests in the incoming buffer of a peer that may have more   *)
(* requests waiting get processed ("first receive what we can get out the  *)
(* socket, the process all complete requests").                            *)
AllProcessed ==
  \A n \in Nodes, c \in Conns :
    In(c, n) \in stalled /\ waiting[n][c] < MaxWait ~> In(c, n) \notin stalled
==============================================================================
