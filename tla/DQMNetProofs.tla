---------------------------- MODULE DQMNetProofs ----------------------------
(***************************************************************************)
(* Proofs about the network of module DQMNet: type correctness, that old   *)
(* data never pass for new ones, and that the wait list and the counts of  *)
(* waiting requests agree.                                                 *)
(***************************************************************************)
EXTENDS DQMNet, FiniteSetTheorems, SequenceTheorems, TLAPS

(* Objects and messages whose data, unless marked stale, are those of the  *)
(* version they come with.                                                 *)
FreshObject == {o \in Object : Fresh(o) => o.data = o.version}

FreshMessage ==
  {m \in Message : m.type = "OBJECT" /\ Fresh(m) => m.data = m.version}

Wires == [Queues -> Seq(FreshMessage)]

ObjectMap(o) ==
  /\ DOMAIN o \subseteq Names
  /\ o \in [DOMAIN o -> FreshObject]

Objects(os) ==
  /\ DOMAIN os = Nodes
  /\ \A n \in Nodes : /\ DOMAIN os[n] = Ends
                      /\ \A p \in Ends : ObjectMap(os[n][p])

------------------------------------------------------------------------------
(* Messages                                                                *)

(* A function on 1 .. n is a sequence of length n.                         *)
LEMMA FunctionIsSeq ==
  ASSUME NEW S, NEW n \in Nat, NEW f \in [1 .. n -> S]
  PROVE  f \in Seq(S) /\ Len(f) = n
  OBVIOUS

(* The messages without data are fresh.                                    *)
LEMMA SmallMessages ==
  /\ Begin \in FreshMessage /\ End \in FreshMessage /\ Listen \in FreshMessage
  /\ \A x \in Names : Get(x) \in FreshMessage /\ None(x) \in FreshMessage
  BY DEF FreshMessage, Message, Begin, End, Listen, Get, None, Fresh

(* An object is sent with its version, and with its data or with none.     *)
LEMMA ObjectMessageFresh ==
  ASSUME NEW x \in Names, NEW o \in FreshObject, NEW b \in BOOLEAN
  PROVE  ObjectMessage(x, o, b) \in FreshMessage
<1> DEFINE m == ObjectMessage(x, o, b)
<1>1. o \in Object
  BY DEF FreshObject
<1>2. m \in Message
  BY <1>1 DEF ObjectMessage, Message, Object
<1>3. m.version = o.version /\ m.stale = o.stale /\ m.data \in {0, o.data}
  BY DEF ObjectMessage
<1>4. Fresh(m) => m.data = m.version
  BY <1>3 DEF FreshObject, Fresh
<1> QED
  BY <1>2, <1>4 DEF FreshMessage

(* A node reads a queue of each of its connections.                        *)
LEMMA QueueOf ==
  ASSUME NEW c \in Conns, NEW n \in Nodes
  PROVE  In(c, n) \in Queues
  BY DEF In, Queues

(* What is posted is appended to a queue, or lost.                         *)
LEMMA PostType ==
  ASSUME NEW w \in Wires, NEW c, NEW n, NEW msgs \in Seq(FreshMessage)
  PROVE  Post(w, c, n, msgs) \in Wires
<1> DEFINE q == Out(c, n)
<1>1. CASE q \in Queues
  <2>1. w[q] \o msgs \in Seq(FreshMessage)
    BY <1>1 DEF Wires
  <2> QED
    BY <2>1 DEF Post, Wires
<1>2. CASE q \notin Queues
  BY <1>2 DEF Post, Wires
<1> QED
  BY <1>1, <1>2

(* A single message is a sequence of messages.                             *)
LEMMA OneMessage ==
  ASSUME NEW m \in FreshMessage
  PROVE  <<m>> \in Seq(FreshMessage)
  OBVIOUS

(* Processing a message leaves a queue of messages.                        *)
LEMMA ConsumeType ==
  ASSUME wire \in Wires, NEW c \in Conns, NEW n \in Nodes,
         wire[In(c, n)] # <<>>
  PROVE  Consume(c, n) \in Wires /\ Head(wire[In(c, n)]) \in FreshMessage
<1>1. wire[In(c, n)] \in Seq(FreshMessage)
  BY QueueOf DEF Wires
<1>2. /\ Tail(wire[In(c, n)]) \in Seq(FreshMessage)
      /\ Head(wire[In(c, n)]) \in FreshMessage
  BY <1>1
<1> QED
  BY <1>2 DEF Consume, Wires

(* The wire takes the queues it is given.                                  *)
LEMMA TransmitType ==
  ASSUME NEW w \in Wires, Transmit(w), stalled \subseteq Queues
  PROVE  wire' \in Wires /\ stalled' \subseteq Queues
  BY DEF Transmit

(* The list of a node is a sequence of objects between two marks.          *)
LEMMA ListingsType ==
  ASSUME Objects(objs), NEW n \in Nodes, NEW list \in Listings(n)
  PROVE  list \in Seq(FreshMessage)
<1> DEFINE known == {e \in Ends \X Names : e[2] \in DOMAIN objs[n][e[1]]}
           line(e) == ObjectMessage(e[2], objs[n][e[1]][e[2]],
                                    objs[n][e[1]][e[2]].asked)
<1>1. Cardinality(known) \in Nat
  <2>1. IsFiniteSet(1 .. MaxConns) /\ IsFiniteSet(Names)
    BY BoundsAssumption, FS_Interval
  <2>2. IsFiniteSet(Clients)
    BY NodesAssumption
  <2>3. IsFiniteSet(Conns)
    BY <2>1, <2>2, FS_Product DEF Conns
  <2>4. IsFiniteSet(Ends)
    BY <2>3, FS_AddElement DEF Ends
  <2>5. IsFiniteSet(Ends \X Names)
    BY <2>1, <2>4, FS_Product
  <2>6. IsFiniteSet(known)
    BY <2>5, FS_Subset
  <2> QED
    BY <2>6, FS_CardinalityType
<1>2. \A e \in known : line(e) \in FreshMessage
  <2> SUFFICES ASSUME NEW e \in known PROVE line(e) \in FreshMessage
    OBVIOUS
  <2>1. e[1] \in Ends /\ e[2] \in Names /\ e[2] \in DOMAIN objs[n][e[1]]
    OBVIOUS
  <2>2. objs[n][e[1]][e[2]] \in FreshObject
    BY <2>1 DEF Objects, ObjectMap
  <2>3. objs[n][e[1]][e[2]].asked \in BOOLEAN
    BY <2>2, SMTT(30) DEF FreshObject, Object
  <2> QED
    BY <2>1, <2>2, <2>3, ObjectMessageFresh
<1>3. PICK f \in [1 .. Cardinality(known) -> known] :
        list = <<Begin>> \o [i \in DOMAIN f |-> line(f[i])] \o <<End>>
  BY DEF Listings
<1> DEFINE body == [i \in DOMAIN f |-> line(f[i])]
<1>4. body \in [1 .. Cardinality(known) -> FreshMessage]
  <2> HIDE DEF line, known
  <2> QED
    BY <1>2, SMTT(30)
<1>5. body \in Seq(FreshMessage)
  BY <1>1, <1>4, FunctionIsSeq
<1> HIDE DEF body
<1>6. <<Begin>> \in Seq(FreshMessage) /\ <<End>> \in Seq(FreshMessage)
  BY SmallMessages
<1>7. list = <<Begin>> \o body \o <<End>>
  BY <1>3 DEF body
<1> QED
  BY <1>5, <1>6, <1>7

------------------------------------------------------------------------------
(* The wait list                                                           *)

RequestTypes ==
  /\ waits \in [Nodes -> [Slots -> WaitObject \cup {Free}]]
  /\ waiting \in [Nodes -> [Parties -> Nat]]
  /\ fetch \in [Fetchers -> {"idle", "request", "sleep", "woken"}]
  /\ wants \in [Fetchers -> Names \cup {Free}]
  /\ answered \in [Fetchers -> BOOLEAN]
  /\ \A f \in Fetchers : fetch[f] = "request" => wants[f] \in Names

(* Peer::waiting counts the cells of the peer.                             *)
Counted ==
  \A n \in Nodes, p \in Parties : waiting[n][p] = Cardinality(Held(n, Slots, p))

(* Every cell belongs to a peer that is still there.                       *)
Attached ==
  \A n \in Nodes, s \in Slots : waits[n][s] # Free =>
    LET p == waits[n][s].peer
    IN  \/ p \in peers[n]
        \/ p \in Fetchers /\ p[1] = n /\ fetch[p] \in {"sleep", "woken"}

(* A thread has one request at most, and none once it is answered.         *)
OneRequest ==
  \A f \in Fetchers :
    /\ \A s, t \in Held(f[1], Slots, f) : s = t
    /\ Held(f[1], Slots, f) # {} =>
         fetch[f] \in {"sleep", "woken"} /\ ~answered[f]
    /\ answered[f] => fetch[f] \in {"sleep", "woken"}

Requests == RequestTypes /\ Counted /\ Attached /\ OneRequest

(* A peer holds finitely many cells.                                       *)
LEMMA HeldFinite ==
  ASSUME NEW n, NEW S \in SUBSET Slots, NEW p
  PROVE  /\ Held(n, S, p) \subseteq Slots
         /\ IsFiniteSet(Held(n, S, p))
         /\ Cardinality(Held(n, S, p)) \in Nat
<1>1. Held(n, S, p) \subseteq Slots
  BY DEF Held
<1>2. IsFiniteSet(Slots)
  BY BoundsAssumption
<1> QED
  BY <1>1, <1>2, FS_Subset, FS_CardinalityType

(* A connection is not a thread.                                           *)
LEMMA Apart ==
  ASSUME NEW c \in Conns, NEW f \in Fetchers
  PROVE  c # f
  BY DEF Conns, Fetchers

(* A thread belongs to a viewer, and may wait.                             *)
LEMMA FetcherNode ==
  ASSUME NEW f \in Fetchers
  PROVE  f[1] \in Viewers /\ f[1] \in Nodes /\ f \in Parties
  BY DEF Fetchers, Nodes, Clients, Parties

(* What leaves the wait list alone and no peer behind keeps it right.      *)
LEMMA RequestsKept ==
  ASSUME Requests, UNCHANGED <<waits, waiting, requests>>,
         \A n \in Nodes : peers[n] \subseteq peers'[n]
  PROVE  Requests'
<1>1. RequestTypes'
  BY DEF Requests, RequestTypes, requests
<1>2. \A n, S, p : Held(n, S, p)' = Held(n, S, p)
  BY DEF Held, requests
<1>3. Counted'
  BY <1>2 DEF Requests, Counted, requests
<1>4. Attached'
  BY DEF Requests, Attached, requests
<1>5. OneRequest'
  BY <1>2 DEF Requests, OneRequest, requests
<1> QED
  BY <1>1, <1>3, <1>4, <1>5 DEF Requests

(* A broadcast only turns sleepers into woken threads.                     *)
LEMMA BroadcastType ==
  ASSUME RequestTypes, NEW n
  PROVE  /\ Broadcast(n) \in [Fetchers -> {"idle", "request", "sleep", "woken"}]
         /\ \A f \in Fetchers :
              /\ Broadcast(n)[f] \in {"sleep", "woken"}
                   <=> fetch[f] \in {"sleep", "woken"}
              /\ Broadcast(n)[f] \notin {"sleep", "woken"}
                   => Broadcast(n)[f] = fetch[f]
  BY DEF RequestTypes, Broadcast

(* Releasing any cells keeps the wait list right.                          *)
LEMMA ReleaseKeeps ==
  ASSUME Requests, NEW n \in Nodes, NEW S \in SUBSET Slots, NEW m, NEW w,
         Release(n, S, m, w), peers' = peers
  PROVE  Requests'
<1>0. RequestTypes /\ Counted /\ Attached /\ OneRequest
  BY DEF Requests
<1>1. /\ waits' = [waits EXCEPT ![n] =
                     [s \in Slots |-> IF s \in S THEN Free ELSE @[s]]]
      /\ waiting' = [waiting EXCEPT ![n] =
                       [p \in Parties |-> @[p] - Cardinality(Held(n, S, p))]]
      /\ answered' = [f \in Fetchers |->
                        answered[f] \/ (f[1] = n /\ Held(n, S, f) # {})]
      /\ fetch' = IF S = {} THEN fetch ELSE Broadcast(n)
      /\ wants' = wants
  BY DEF Release
<1>2. waits' \in [Nodes -> [Slots -> WaitObject \cup {Free}]]
  BY <1>0, <1>1 DEF RequestTypes
<1>3. \A k \in Nodes, s \in Slots :
        waits'[k][s] = IF k = n /\ s \in S THEN Free ELSE waits[k][s]
  BY <1>0, <1>1 DEF RequestTypes
<1>4. \A p : Held(n, Slots, p)' = Held(n, Slots, p) \ Held(n, S, p)
  BY <1>3 DEF Held
<1>5. \A k \in Nodes \ {n} : \A p : Held(k, Slots, p)' = Held(k, Slots, p)
  BY <1>3 DEF Held
<1>6. Counted' /\ waiting' \in [Nodes -> [Parties -> Nat]]
  <2>1. \A p \in Parties : /\ waiting'[n][p] = Cardinality(Held(n, Slots, p)')
                           /\ waiting'[n][p] \in Nat
    <3> SUFFICES ASSUME NEW p \in Parties
                 PROVE  /\ waiting'[n][p] = Cardinality(Held(n, Slots, p)')
                        /\ waiting'[n][p] \in Nat
      OBVIOUS
    <3> DEFINE A == Held(n, Slots, p)
               B == Held(n, S, p)
    <3>0. Slots \in SUBSET Slots
      OBVIOUS
    <3>1. IsFiniteSet(A) /\ IsFiniteSet(B) /\ B \subseteq A
      <4>1. IsFiniteSet(A)
        BY <3>0, HeldFinite
      <4>2. IsFiniteSet(B)
        BY HeldFinite
      <4>3. B \subseteq A
        BY DEF Held
      <4> QED
        BY <4>1, <4>2, <4>3
    <3>2. /\ Cardinality(A \ B) = Cardinality(A) - Cardinality(A \cap B)
          /\ Cardinality(A \ B) \in Nat
      BY <3>1, FS_Difference, FS_CardinalityType
    <3>3. A \cap B = B
      BY <3>1
    <3>4. waiting'[n][p] = waiting[n][p] - Cardinality(B)
      BY <1>0, <1>1 DEF RequestTypes
    <3>5. waiting[n][p] = Cardinality(A)
      BY <1>0 DEF Counted
    <3>6. Held(n, Slots, p)' = A \ B
      BY <1>4
    <3> HIDE DEF A, B
    <3> QED
      BY <3>2, <3>3, <3>4, <3>5, <3>6
  <2>2. \A k \in Nodes \ {n} : waiting'[k] = waiting[k]
    BY <1>0, <1>1 DEF RequestTypes
  <2>3. Counted'
    <3> SUFFICES ASSUME NEW k \in Nodes, NEW p \in Parties
                 PROVE  waiting'[k][p] = Cardinality(Held(k, Slots, p)')
      BY DEF Counted
    <3>1. CASE k = n
      BY <2>1, <3>1
    <3>2. CASE k # n
      BY <3>2, <2>2, <1>0, <1>5 DEF Counted
    <3> QED
      BY <3>1, <3>2
  <2>4. waiting'[n] \in [Parties -> Nat]
    <3>1. waiting'[n] = [p \in Parties |->
                           waiting[n][p] - Cardinality(Held(n, S, p))]
      BY <1>0, <1>1 DEF RequestTypes
    <3> QED
      BY <3>1, <2>1
  <2>5. waiting' \in [Nodes -> [Parties -> Nat]]
    BY <2>4, <1>0, <1>1 DEF RequestTypes
  <2> QED
    BY <2>3, <2>5
<1>7. /\ fetch' \in [Fetchers -> {"idle", "request", "sleep", "woken"}]
      /\ \A f \in Fetchers :
           /\ fetch'[f] \in {"sleep", "woken"} <=> fetch[f] \in {"sleep", "woken"}
           /\ fetch'[f] \notin {"sleep", "woken"} => fetch'[f] = fetch[f]
  <2>1. CASE S = {}
    BY <2>1, <1>0, <1>1 DEF RequestTypes
  <2>2. CASE S # {}
    BY <2>2, <1>0, <1>1, BroadcastType
  <2> QED
    BY <2>1, <2>2
<1>8. answered' \in [Fetchers -> BOOLEAN]
  BY <1>0, <1>1 DEF RequestTypes
<1>9. RequestTypes'
  BY <1>0, <1>1, <1>2, <1>6, <1>7, <1>8 DEF RequestTypes
<1>10. Attached'
  BY <1>0, <1>3, <1>7 DEF Attached
<1>11. OneRequest'
  <2> SUFFICES ASSUME NEW f \in Fetchers
               PROVE  /\ \A s, t \in Held(f[1], Slots, f)' : s = t
                      /\ Held(f[1], Slots, f)' # {} =>
                           fetch'[f] \in {"sleep", "woken"} /\ ~answered'[f]
                      /\ answered'[f] => fetch'[f] \in {"sleep", "woken"}
    BY DEF OneRequest
  <2>0. f[1] \in Nodes
    BY FetcherNode
  <2>1. /\ \A s, t \in Held(f[1], Slots, f) : s = t
        /\ Held(f[1], Slots, f) # {} =>
             fetch[f] \in {"sleep", "woken"} /\ ~answered[f]
        /\ answered[f] => fetch[f] \in {"sleep", "woken"}
    BY <1>0 DEF OneRequest
  <2>2. answered'[f] <=> (answered[f] \/ (f[1] = n /\ Held(n, S, f) # {}))
    BY <1>1
  <2>3. CASE f[1] = n
    <3>1. Held(n, S, f) \subseteq Held(n, Slots, f)
      BY DEF Held
    <3>2. Held(n, Slots, f)' = Held(n, Slots, f) \ Held(n, S, f)
      BY <1>4
    <3> QED
      BY <2>1, <2>2, <2>3, <3>1, <3>2, <1>7
  <2>4. CASE f[1] # n
    <3>1. Held(f[1], Slots, f)' = Held(f[1], Slots, f)
      BY <1>5, <2>0, <2>4
    <3> QED
      BY <2>1, <2>2, <2>4, <3>1, <1>7
  <2> QED
    BY <2>3, <2>4
<1> QED
  BY <1>6, <1>9, <1>10, <1>11 DEF Requests

(* A peer that is there, or a thread about to sleep, may wait.             *)
LEMMA WaitKeeps ==
  ASSUME Requests, NEW n \in Nodes, NEW who \in Parties, NEW x \in Names,
         NEW owner, NEW w, WaitForData(n, who, x, owner, w),
         peers' = peers, wants' = wants, answered' = answered,
         \/ who \in Conns /\ who \in peers[n] /\ fetch' = fetch
         \/ /\ who \in Fetchers /\ who[1] = n /\ fetch[who] = "request"
            /\ fetch' = [fetch EXCEPT ![who] = "sleep"]
  PROVE  Requests'
<1>0. RequestTypes /\ Counted /\ Attached /\ OneRequest
  BY DEF Requests
<1> DEFINE cells == {s \in Slots : waits[n][s] = Free}
           cell == CHOOSE s \in cells : TRUE
           entry == [peer |-> who, name |-> x]
<1>1. /\ cells # {}
      /\ waits' = [waits EXCEPT ![n][cell] = entry]
      /\ waiting' = [waiting EXCEPT ![n][who] = @ + 1]
  BY DEF WaitForData
<1>2. cell \in Slots /\ waits[n][cell] = Free
  BY <1>1
<1> HIDE DEF cell, cells
<1>3. entry \in WaitObject /\ entry # Free /\ entry.peer = who
  BY FreeAssumption DEF WaitObject
<1> HIDE DEF entry
<1>4. /\ waits' \in [Nodes -> [Slots -> WaitObject \cup {Free}]]
      /\ \A k \in Nodes, s \in Slots :
           waits'[k][s] = IF k = n /\ s = cell THEN entry ELSE waits[k][s]
  BY <1>0, <1>1, <1>2, <1>3 DEF RequestTypes
<1>5. Held(n, Slots, who)' = Held(n, Slots, who) \cup {cell}
  BY <1>2, <1>3, <1>4 DEF Held
<1>6. cell \notin Held(n, Slots, who)
  BY <1>2 DEF Held
<1>7. \A k \in Nodes : \A p : k # n \/ p # who
        => Held(k, Slots, p)' = Held(k, Slots, p)
  BY <1>2, <1>3, <1>4 DEF Held
<1>8. /\ waiting' \in [Nodes -> [Parties -> Nat]]
      /\ \A k \in Nodes, p \in Parties :
           waiting'[k][p] = IF k = n /\ p = who THEN waiting[k][p] + 1
                                                ELSE waiting[k][p]
  BY <1>0, <1>1 DEF RequestTypes
<1>9. Counted'
  <2>1. Slots \in SUBSET Slots
    OBVIOUS
  <2>2. Cardinality(Held(n, Slots, who) \cup {cell})
          = Cardinality(Held(n, Slots, who)) + 1
    BY <1>6, <2>1, HeldFinite, FS_AddElement
  <2>3. waiting'[n][who] = Cardinality(Held(n, Slots, who)')
    BY <1>0, <1>5, <1>8, <2>2 DEF Counted
  <2> QED
    BY <1>0, <1>7, <1>8, <2>3 DEF Counted
<1>10. /\ fetch' \in [Fetchers -> {"idle", "request", "sleep", "woken"}]
       /\ \A f \in Fetchers : f # who => fetch'[f] = fetch[f]
       /\ who \in Fetchers => who[1] = n /\ fetch[who] = "request"
                              /\ fetch'[who] = "sleep"
  BY <1>0, Apart DEF RequestTypes
<1>11. RequestTypes'
  BY <1>0, <1>4, <1>8, <1>10 DEF RequestTypes
<1>12. Attached'
  <2> SUFFICES ASSUME NEW k \in Nodes, NEW s \in Slots, waits'[k][s] # Free
               PROVE  LET p == waits'[k][s].peer
                      IN  \/ p \in peers'[k]
                          \/ /\ p \in Fetchers /\ p[1] = k
                             /\ fetch'[p] \in {"sleep", "woken"}
    BY DEF Attached
  <2>1. CASE k = n /\ s = cell
    <3>1. waits'[k][s] = entry
      BY <1>4, <2>1
    <3> QED
      BY <2>1, <3>1, <1>3, <1>10
  <2>2. CASE ~(k = n /\ s = cell)
    <3>1. waits'[k][s] = waits[k][s]
      BY <1>4, <2>2
    <3>2. \/ waits[k][s].peer \in peers[k]
          \/ /\ waits[k][s].peer \in Fetchers /\ waits[k][s].peer[1] = k
             /\ fetch[waits[k][s].peer] \in {"sleep", "woken"}
      BY <1>0, <3>1 DEF Attached
    <3> QED
      BY <3>1, <3>2, <1>10
  <2> QED
    BY <2>1, <2>2
<1>13. OneRequest'
  <2> SUFFICES ASSUME NEW f \in Fetchers
               PROVE  /\ \A s, t \in Held(f[1], Slots, f)' : s = t
                      /\ Held(f[1], Slots, f)' # {} =>
                           fetch'[f] \in {"sleep", "woken"} /\ ~answered'[f]
                      /\ answered'[f] => fetch'[f] \in {"sleep", "woken"}
    BY DEF OneRequest
  <2>0. f[1] \in Nodes
    BY FetcherNode
  <2>1. /\ \A s, t \in Held(f[1], Slots, f) : s = t
        /\ Held(f[1], Slots, f) # {} =>
             fetch[f] \in {"sleep", "woken"} /\ ~answered[f]
        /\ answered[f] => fetch[f] \in {"sleep", "woken"}
    BY <1>0 DEF OneRequest
  <2>2. CASE f = who
    <3>1. f[1] = n /\ fetch[f] = "request" /\ fetch'[f] = "sleep"
      BY <2>2, <1>10
    <3>2. Held(f[1], Slots, f) = {} /\ ~answered[f]
      BY <2>1, <3>1
    <3>3. Held(f[1], Slots, f)' = {cell}
      BY <1>5, <2>2, <3>1, <3>2
    <3> QED
      BY <3>1, <3>2, <3>3
  <2>3. CASE f # who
    <3>1. Held(f[1], Slots, f)' = Held(f[1], Slots, f)
      BY <1>7, <2>0, <2>3
    <3> QED
      BY <2>1, <2>3, <3>1, <1>10
  <2> QED
    BY <2>2, <2>3
<1> QED
  BY <1>9, <1>11, <1>12, <1>13 DEF Requests

(* A thread without a request on the list may go where it likes.           *)
LEMMA ThreadKeeps ==
  ASSUME Requests, UNCHANGED <<waits, waiting, peers>>,
         NEW f \in Fetchers, Held(f[1], Slots, f) = {},
         NEW others \in [Fetchers -> {"idle", "request", "sleep", "woken"}],
         \A g \in Fetchers : /\ others[g] \in {"sleep", "woken"}
                                  <=> fetch[g] \in {"sleep", "woken"}
                             /\ others[g] \notin {"sleep", "woken"}
                                  => others[g] = fetch[g],
         NEW to \in {"idle", "request"}, NEW x \in Names \cup {Free},
         to = "request" => x \in Names,
         fetch' = [others EXCEPT ![f] = to],
         wants' = [wants EXCEPT ![f] = x],
         answered' = [answered EXCEPT ![f] = FALSE]
  PROVE  Requests'
<1>0. RequestTypes /\ Counted /\ Attached /\ OneRequest
  BY DEF Requests
<1>1. \A n, S, p : Held(n, S, p)' = Held(n, S, p)
  BY DEF Held
<1>2. RequestTypes'
  BY <1>0 DEF RequestTypes
<1>3. Counted'
  BY <1>0, <1>1 DEF Counted
<1>4. Attached'
  <2> SUFFICES ASSUME NEW k \in Nodes, NEW s \in Slots, waits[k][s] # Free
               PROVE  LET p == waits[k][s].peer
                      IN  \/ p \in peers[k]
                          \/ /\ p \in Fetchers /\ p[1] = k
                             /\ fetch'[p] \in {"sleep", "woken"}
    BY DEF Attached
  <2>1. \/ waits[k][s].peer \in peers[k]
        \/ /\ waits[k][s].peer \in Fetchers /\ waits[k][s].peer[1] = k
           /\ fetch[waits[k][s].peer] \in {"sleep", "woken"}
    BY <1>0 DEF Attached
  <2>2. waits[k][s].peer = f /\ f[1] = k => FALSE
    BY DEF Held
  <2> QED
    BY <2>1, <2>2
<1>5. OneRequest'
  BY <1>0, <1>1 DEF OneRequest, RequestTypes
<1> QED
  BY <1>2, <1>3, <1>4, <1>5 DEF Requests

(* Losing a peer takes its requests off the list.                          *)
LEMMA LosePeerKeeps ==
  ASSUME Requests, NEW n \in Nodes, NEW c \in Conns,
         peers \in [Nodes -> SUBSET Conns], LosePeer(n, c)
  PROVE  Requests'
<1>0. RequestTypes /\ Counted /\ Attached /\ OneRequest
  BY DEF Requests
<1>1. /\ peers' = [peers EXCEPT ![n] = @ \ {c}]
      /\ waits' = [waits EXCEPT ![n] =
           [s \in Slots |-> IF s \in Held(n, Slots, c) THEN Free ELSE @[s]]]
      /\ waiting' = [waiting EXCEPT ![n][c] = 0]
      /\ fetch' = Broadcast(n)
      /\ UNCHANGED <<wants, answered>>
  BY DEF LosePeer
<1>2. waits' \in [Nodes -> [Slots -> WaitObject \cup {Free}]]
  BY <1>0, <1>1 DEF RequestTypes
<1>3. \A k \in Nodes, s \in Slots :
        waits'[k][s] = IF k = n /\ s \in Held(n, Slots, c) THEN Free
                                                           ELSE waits[k][s]
  BY <1>0, <1>1 DEF RequestTypes
<1>4. Held(n, Slots, c)' = {}
  BY <1>3 DEF Held
<1>5. \A k \in Nodes : \A p : k # n \/ p # c
        => Held(k, Slots, p)' = Held(k, Slots, p)
  BY <1>3 DEF Held
<1>6. /\ waiting' \in [Nodes -> [Parties -> Nat]]
      /\ \A k \in Nodes, p \in Parties :
           waiting'[k][p] = IF k = n /\ p = c THEN 0 ELSE waiting[k][p]
  BY <1>0, <1>1 DEF RequestTypes
<1>7. Counted'
  <2> SUFFICES ASSUME NEW k \in Nodes, NEW p \in Parties
               PROVE  waiting'[k][p] = Cardinality(Held(k, Slots, p)')
    BY DEF Counted
  <2>1. CASE k = n /\ p = c
    BY <2>1, <1>4, <1>6, FS_EmptySet
  <2>2. CASE ~(k = n /\ p = c)
    BY <2>2, <1>0, <1>5, <1>6 DEF Counted
  <2> QED
    BY <2>1, <2>2
<1>8. RequestTypes'
  BY <1>0, <1>1, <1>2, <1>6, BroadcastType DEF RequestTypes
<1>9. Attached'
  <2> SUFFICES ASSUME NEW k \in Nodes, NEW s \in Slots, waits'[k][s] # Free
               PROVE  LET p == waits'[k][s].peer
                      IN  \/ p \in peers'[k]
                          \/ /\ p \in Fetchers /\ p[1] = k
                             /\ fetch'[p] \in {"sleep", "woken"}
    BY DEF Attached
  <2>1. waits'[k][s] = waits[k][s] /\ ~(k = n /\ s \in Held(n, Slots, c))
    BY <1>3
  <2>2. k = n => waits[k][s].peer # c
    BY <2>1 DEF Held
  <2>3. \/ waits[k][s].peer \in peers[k]
        \/ /\ waits[k][s].peer \in Fetchers /\ waits[k][s].peer[1] = k
           /\ fetch[waits[k][s].peer] \in {"sleep", "woken"}
    BY <1>0, <2>1 DEF Attached
  <2> QED
    BY <1>0, <1>1, <2>1, <2>2, <2>3, BroadcastType
<1>10. OneRequest'
  <2> SUFFICES ASSUME NEW f \in Fetchers
               PROVE  /\ \A s, t \in Held(f[1], Slots, f)' : s = t
                      /\ Held(f[1], Slots, f)' # {} =>
                           fetch'[f] \in {"sleep", "woken"} /\ ~answered'[f]
                      /\ answered'[f] => fetch'[f] \in {"sleep", "woken"}
    BY DEF OneRequest
  <2>1. Held(f[1], Slots, f)' = Held(f[1], Slots, f)
    BY <1>5, FetcherNode, Apart
  <2> QED
    BY <1>0, <1>1, <2>1, BroadcastType DEF OneRequest
<1> QED
  BY <1>7, <1>8, <1>9, <1>10 DEF Requests

------------------------------------------------------------------------------
(* The objects                                                             *)

(* One map of objects may be replaced by another.                          *)
LEMMA ObjectsExcept ==
  ASSUME Objects(objs), NEW n \in Nodes, NEW p \in Ends,
         NEW new, ObjectMap(new)
  PROVE  Objects([objs EXCEPT ![n][p] = new])
  BY DEF Objects

(* The objects in the maps are fresh.                                      *)
LEMMA ObjectThere ==
  ASSUME Objects(objs), NEW n \in Nodes, NEW p \in Ends,
         NEW x \in DOMAIN objs[n][p]
  PROVE  /\ ObjectMap(objs[n][p]) /\ x \in Names
         /\ objs[n][p][x] \in FreshObject /\ objs[n][p][x] \in Object
  BY DEF Objects, ObjectMap, FreshObject

(* The owners of a name have an object of that name.                       *)
LEMMA OwnersThere ==
  ASSUME NEW n, NEW x, NEW p \in Owners(n, x)
  PROVE  p \in Ends /\ x \in DOMAIN objs[n][p]
  BY DEF Owners

(* Noting a request leaves the objects fresh.                              *)
LEMMA NoteRequestType ==
  ASSUME Objects(objs), NEW n \in Nodes, NEW p \in Ends,
         NEW x \in DOMAIN objs[n][p], NoteRequest(n, p, x)
  PROVE  Objects(objs')
<1> DEFINE o == objs[n][p][x]
           new == [objs[n][p] EXCEPT ![x] = [o EXCEPT !.asked = TRUE]]
<1>1. objs' = [objs EXCEPT ![n][p] = new]
  BY DEF NoteRequest
<1>2. ObjectMap(objs[n][p]) /\ o \in FreshObject
  BY ObjectThere
<1>3. [o EXCEPT !.asked = TRUE] \in FreshObject
  BY <1>2 DEF FreshObject, Object, Fresh
<1>4. ObjectMap(new)
  BY <1>2, <1>3 DEF ObjectMap
<1> HIDE DEF new
<1> QED
  BY <1>1, <1>4, ObjectsExcept

(* Purging the dead leaves a map of objects.                               *)
LEMMA AliveType ==
  ASSUME NEW o, ObjectMap(o)
  PROVE  ObjectMap(Alive(o))
  BY DEF ObjectMap, Alive

(* The empty map is one.                                                   *)
LEMMA NothingType == ObjectMap(Nothing)
  BY DEF ObjectMap, Nothing

(* Data that come without a version of their own are marked stale.         *)
LEMMA UpdatedFresh ==
  ASSUME NEW o, ObjectMap(o), NEW m \in FreshMessage, m.type = "OBJECT"
  PROVE  Updated(o, m) \in FreshObject /\ m.name \in Names
<1> DEFINE olddata == IF m.name \in DOMAIN o THEN o[m.name].data ELSE 0
           old == m.stale \/ (m.data = 0 /\ olddata # 0)
           asked == m.name \in DOMAIN o /\ o[m.name].asked
<1>1. /\ m.name \in Names /\ m.version \in Nat /\ m.data \in Nat
      /\ m.stale \in BOOLEAN /\ m.dead \in BOOLEAN
      /\ m.data # 0 /\ ~m.stale => m.data = m.version
  BY DEF FreshMessage, Message, Fresh
<1>2. \A x \in DOMAIN o : o[x] \in Object
  BY DEF ObjectMap, FreshObject
<1>3. olddata \in Nat
  BY <1>2 DEF Object
<1>4. m.name \in DOMAIN o => o[m.name].asked \in BOOLEAN
  BY <1>2 DEF Object
<1>5. Updated(o, m) = [version |-> m.version,
         data    |-> IF m.data # 0 THEN m.data ELSE olddata,
         stale   |-> old,
         dead    |-> m.dead,
         asked   |-> asked]
  BY DEF Updated
<1>a. old \in BOOLEAN /\ asked \in BOOLEAN
  BY <1>1, <1>4
<1>b. old \/ (~m.stale /\ (m.data = 0 => olddata = 0))
  OBVIOUS
<1> HIDE DEF olddata, old, asked
<1>6. Updated(o, m) \in Object
  BY <1>1, <1>3, <1>a, <1>5 DEF Object
<1>7. /\ Updated(o, m).version = m.version
      /\ Updated(o, m).data = IF m.data # 0 THEN m.data ELSE olddata
  BY <1>5
<1>8. Updated(o, m).stale = old
  BY <1>5
<1>9. Fresh(Updated(o, m)) => Updated(o, m).data = Updated(o, m).version
  <2> SUFFICES ASSUME Updated(o, m).data # 0, ~Updated(o, m).stale
               PROVE  Updated(o, m).data = Updated(o, m).version
    BY DEF Fresh
  <2>1. ~m.stale /\ (m.data = 0 => olddata = 0)
    BY <1>b, <1>8
  <2> QED
    BY <1>1, <1>7, <2>1
<1> QED
  BY <1>1, <1>6, <1>9 DEF FreshObject

(* What is released and what else is sent are fresh messages.              *)
LEMMA ReleaseWires ==
  ASSUME RequestTypes, NEW n \in Nodes, NEW S \in SUBSET Slots,
         NEW m \in FreshMessage, NEW w \in Wires, Release(n, S, m, w),
         stalled \subseteq Queues
  PROVE  wire' \in Wires /\ stalled' \subseteq Queues
<1> DEFINE copies(p) == [i \in 1 .. Cardinality(Held(n, S, p)) |-> m]
           sent == [q \in Queues |->
                     IF q[1] \notin cut /\ q = Out(q[1], n)
                     THEN w[q] \o copies(q[1]) ELSE w[q]]
<1>1. Transmit(sent)
  BY DEF Release
<1>2. \A p : copies(p) \in Seq(FreshMessage)
  BY HeldFinite, FunctionIsSeq
<1> HIDE DEF copies
<1>3. \A q \in Queues : w[q] \in Seq(FreshMessage)
  BY DEF Wires
<1>4. sent \in Wires
  BY <1>2, <1>3 DEF Wires
<1> HIDE DEF sent
<1> QED
  BY <1>1, <1>4, TransmitType

------------------------------------------------------------------------------
(* The inductive invariant                                                 *)

Links ==
  /\ made \in [Clients -> 1 .. MaxConns]
  /\ backlog \subseteq Conns /\ cut \subseteq Conns
  /\ peers \in [Nodes -> SUBSET Conns]
  /\ feeds \in [Nodes -> SUBSET Conns]
  /\ nchanges \in 0 .. MaxChanges
  /\ nasks \in 0 .. MaxAsks
  /\ nexpired \in 0 .. MaxExpired

Data ==
  /\ wire \in Wires
  /\ stalled \subseteq Queues
  /\ Objects(objs)
  /\ flush \in [Nodes -> BOOLEAN]
  /\ DOMAIN items = Viewers
  /\ \A v \in Viewers : /\ DOMAIN items[v] \subseteq Names
                        /\ items[v] \in [DOMAIN items[v] -> Nat]

IInv == Links /\ Data /\ Requests

(* Nothing changes the links but what names them.                          *)
LEMMA LinksKept ==
  ASSUME Links, UNCHANGED <<made, backlog, cut, peers, feeds, counts>>
  PROVE  Links'
  BY DEF Links, counts

(* Nothing changes the data but what names them.                           *)
LEMMA DataKept ==
  ASSUME Data, UNCHANGED <<wire, stalled, objs, flush, items>>
  PROVE  Data'
  BY DEF Data, Objects

(* It holds at the start.                                                  *)
LEMMA InitIInv == Init => IInv
<1> SUFFICES ASSUME Init PROVE IInv
  OBVIOUS
<1>1. Links
  <2>1. First \subseteq Conns /\ 1 \in 1 .. MaxConns
    BY BoundsAssumption DEF First, Conns
  <2> QED
    BY <2>1, BoundsAssumption DEF Init, Links
<1>2. Data
  <2>1. wire \in Wires
    <3>1. \A c : Greeting(c) \in Seq(FreshMessage)
      BY SmallMessages DEF Greeting
    <3>2. <<>> \in Seq(FreshMessage)
      OBVIOUS
    <3> QED
      BY <3>1, <3>2 DEF Init, Wires
  <2>2. Objects(objs)
    BY NothingType DEF Init, Objects
  <2>3. /\ DOMAIN Nothing = {}
        /\ Nothing \in [{} -> Nat]
    BY DEF Nothing
  <2> QED
    BY <2>1, <2>2, <2>3 DEF Init, Data
<1>3. Requests
  <2>1. \A n \in Nodes : \A p : Held(n, Slots, p) = {}
    BY DEF Init, Held
  <2>2. RequestTypes
    BY DEF Init, RequestTypes
  <2>3. Counted
    BY <2>1, FS_EmptySet DEF Init, Counted
  <2>4. Attached
    BY DEF Init, Attached
  <2>5. OneRequest
    BY <2>1, FetcherNode DEF Init, OneRequest
  <2> QED
    BY <2>2, <2>3, <2>4, <2>5 DEF Requests
<1> QED
  BY <1>1, <1>2, <1>3 DEF IInv

------------------------------------------------------------------------------
(* Every step keeps it                                                     *)

(* Connect keeps the invariant.                                            *)
LEMMA ConnectStep ==
  ASSUME IInv, NEW m \in Clients, Connect(m)
  PROVE  IInv'
<1> DEFINE c == <<m, made[m] + 1>>
<1>0. Links /\ Data /\ Requests /\ m \in Nodes
  BY DEF IInv, Nodes
<1>1. made[m] \in 1 .. MaxConns /\ made[m] < MaxConns
  BY <1>0 DEF Connect, Links
<1>2. made[m] + 1 \in 1 .. MaxConns /\ c \in Conns
  BY <1>1, BoundsAssumption DEF Conns
<1>3. Links'
  <2>1. /\ made' = [made EXCEPT ![m] = @ + 1]
        /\ backlog' = backlog \cup {c}
        /\ peers' = [peers EXCEPT ![m] = {c}]
        /\ feeds' = [feeds EXCEPT ![m] = IF m \in Sources THEN {c} ELSE {}]
        /\ UNCHANGED <<cut, counts>>
    BY DEF Connect
  <2> HIDE DEF c
  <2> QED
    BY <1>0, <1>2, <2>1 DEF Links, counts
<1>4. Data'
  <2>1. Greeting(c) \in Seq(FreshMessage)
    BY SmallMessages DEF Greeting
  <2>2. wire' = [wire EXCEPT ![Out(c, m)] = Greeting(c)]
    BY DEF Connect
  <2>3. wire' \in Wires
    BY <1>0, <2>1, <2>2 DEF Data, Wires
  <2> QED
    BY <1>0, <2>3 DEF Connect, Data, Objects
<1>5. Requests'
  <2>1. UNCHANGED <<waits, waiting, requests>>
    BY DEF Connect
  <2>2. \A n \in Nodes : peers[n] \subseteq peers'[n]
    BY <1>0 DEF Connect, Links
  <2> QED
    BY <1>0, <2>1, <2>2, RequestsKept
<1> QED
  BY <1>3, <1>4, <1>5 DEF IInv

(* Accept keeps the invariant.                                             *)
LEMMA AcceptStep ==
  ASSUME IInv, NEW c \in Conns, Accept(c)
  PROVE  IInv'
<1>0. Links /\ Data /\ Requests /\ Hub \in Nodes
  BY DEF IInv, Nodes
<1>1. Links'
  BY <1>0 DEF Accept, Links, counts
<1>2. Data'
  BY <1>0, DataKept DEF Accept
<1>3. \A n \in Nodes : peers[n] \subseteq peers'[n]
  BY <1>0 DEF Accept, Links
<1>4. Requests'
  BY <1>0, <1>3, RequestsKept DEF Accept
<1> QED
  BY <1>1, <1>2, <1>4 DEF IInv

(* Break keeps the invariant.                                              *)
LEMMA BreakStep ==
  ASSUME IInv, NEW c \in Conns, Break(c)
  PROVE  IInv'
<1>0. Links /\ Data /\ Requests
  BY DEF IInv
<1>1. Links'
  BY <1>0 DEF Break, Links, counts
<1>2. Data'
  BY <1>0, DataKept DEF Break
<1>3. Requests'
  BY <1>0, RequestsKept DEF Break
<1> QED
  BY <1>1, <1>2, <1>3 DEF IInv

(* LosePeer keeps the invariant.                                           *)
LEMMA LosePeerStep ==
  ASSUME IInv, NEW n \in Nodes, NEW c \in Conns, LosePeer(n, c)
  PROVE  IInv'
<1>0. Links /\ Data /\ Requests /\ c \in Ends
  BY DEF IInv, Ends
<1>1. Links'
  BY <1>0 DEF LosePeer, Links, counts
<1>2. Data'
  <2>1. wire' \in Wires
    <3>1. <<>> \in Seq(FreshMessage)
      OBVIOUS
    <3> QED
      BY <1>0, <3>1 DEF LosePeer, Data, Wires
  <2>2. Objects(objs')
    BY <1>0, NothingType, ObjectsExcept DEF LosePeer, Data
  <2>3. flush' \in [Nodes -> BOOLEAN]
    BY <1>0 DEF LosePeer, Data
  <2>4. stalled' \subseteq Queues /\ items' = items
    BY <1>0 DEF LosePeer, Data
  <2> QED
    BY <1>0, <2>1, <2>2, <2>3, <2>4 DEF Data, Objects
<1>3. Requests'
  BY <1>0, LosePeerKeeps DEF Links
<1> QED
  BY <1>1, <1>2, <1>3 DEF IInv

(* Change keeps the invariant.                                             *)
LEMMA ChangeStep ==
  ASSUME IInv, NEW n \in Sources, NEW x \in Names, Change(n, x)
  PROVE  IInv'
<1> DEFINE mine == objs[n][Local]
           asked == x \in DOMAIN mine /\ mine[x].asked
           new == [version |-> nchanges + 1, data |-> nchanges + 1,
                   stale |-> FALSE, dead |-> FALSE, asked |-> asked]
           all == [y \in DOMAIN mine \cup {x} |-> IF y = x THEN new ELSE mine[y]]
<1>0. Links /\ Data /\ Requests /\ n \in Nodes /\ Local \in Ends
  BY DEF IInv, Nodes, Clients, Ends
<1>1. /\ nchanges < MaxChanges /\ nchanges' = nchanges + 1
      /\ objs' = [objs EXCEPT ![n][Local] = all]
      /\ flush' = [flush EXCEPT ![n] = TRUE]
      /\ UNCHANGED <<links, feeds, wire, stalled, waits, waiting, items, requests,
                     nasks, nexpired>>
  BY DEF Change
<1>2. Links'
  <2>1. nchanges \in Nat /\ MaxChanges \in Nat
    BY <1>0, BoundsAssumption DEF Links
  <2> QED
    BY <1>0, <1>1, <2>1 DEF Links, links
<1>3. ObjectMap(mine)
  BY <1>0 DEF Data, Objects
<1>4. asked \in BOOLEAN
  BY <1>3 DEF ObjectMap, FreshObject, Object
<1> HIDE DEF asked
<1>5. new \in FreshObject
  <2>1. nchanges + 1 \in Nat
    BY <1>0, BoundsAssumption DEF Links
  <2> QED
    BY <1>4, <2>1 DEF FreshObject, Object
<1>6. ObjectMap(all)
  <2> HIDE DEF new
  <2> QED
    BY <1>3, <1>5 DEF ObjectMap
<1> HIDE DEF all
<1>7. Data'
  <2>1. Objects(objs')
    BY <1>0, <1>1, <1>6, ObjectsExcept DEF Data
  <2>2. flush' \in [Nodes -> BOOLEAN]
    BY <1>0, <1>1 DEF Data
  <2> QED
    BY <1>0, <1>1, <2>1, <2>2 DEF Data, Objects
<1>8. Requests'
  BY <1>0, <1>1, RequestsKept DEF links
<1> QED
  BY <1>2, <1>7, <1>8 DEF IInv

(* RemoveLocal keeps the invariant.                                        *)
LEMMA RemoveLocalStep ==
  ASSUME IInv, NEW n \in Sources, NEW x \in Names, RemoveLocal(n, x)
  PROVE  IInv'
<1> DEFINE mine == objs[n][Local]
           all == [y \in DOMAIN mine \ {x} |-> mine[y]]
<1>0. Links /\ Data /\ Requests /\ n \in Nodes /\ Local \in Ends
  BY DEF IInv, Nodes, Clients, Ends
<1>1. /\ nchanges < MaxChanges /\ nchanges' = nchanges + 1
      /\ objs' = [objs EXCEPT ![n][Local] = all]
      /\ flush' = [flush EXCEPT ![n] = TRUE]
      /\ UNCHANGED <<links, feeds, wire, stalled, waits, waiting, items, requests,
                     nasks, nexpired>>
  BY DEF RemoveLocal
<1>2. Links'
  <2>1. nchanges \in Nat /\ MaxChanges \in Nat
    BY <1>0, BoundsAssumption DEF Links
  <2> QED
    BY <1>0, <1>1, <2>1 DEF Links, links
<1>3. ObjectMap(mine)
  BY <1>0 DEF Data, Objects
<1>4. ObjectMap(all)
  BY <1>3 DEF ObjectMap
<1> HIDE DEF all
<1>5. Data'
  <2>1. Objects(objs')
    BY <1>0, <1>1, <1>4, ObjectsExcept DEF Data
  <2>2. flush' \in [Nodes -> BOOLEAN]
    BY <1>0, <1>1 DEF Data
  <2> QED
    BY <1>0, <1>1, <2>1, <2>2 DEF Data, Objects
<1>6. Requests'
  BY <1>0, <1>1, RequestsKept DEF links
<1> QED
  BY <1>2, <1>5, <1>6 DEF IInv

(* Flush keeps the invariant.                                              *)
LEMMA FlushStep ==
  ASSUME IInv, NEW n \in Nodes, Flush(n)
  PROVE  IInv'
<1>0. Links /\ Data /\ Requests
  BY DEF IInv
<1>1. PICK list \in Listings(n) :
        Transmit([q \in Queues |->
                   IF q[1] \in feeds[n] \ cut /\ q = Out(q[1], n)
                   THEN wire[q] \o list ELSE wire[q]])
  BY DEF Flush
<1> DEFINE sent == [q \in Queues |->
                     IF q[1] \in feeds[n] \ cut /\ q = Out(q[1], n)
                     THEN wire[q] \o list ELSE wire[q]]
<1>2. list \in Seq(FreshMessage)
  BY <1>0, ListingsType DEF Data
<1>3. sent \in Wires
  <2>1. \A q \in Queues : wire[q] \in Seq(FreshMessage)
    BY <1>0 DEF Data, Wires
  <2> QED
    BY <1>2, <2>1 DEF Wires
<1> HIDE DEF sent
<1>4. wire' \in Wires /\ stalled' \subseteq Queues
  BY <1>0, <1>1, <1>3, TransmitType DEF Data, sent
<1>5. flush' \in [Nodes -> BOOLEAN]
  BY <1>0 DEF Flush, Data
<1>6. UNCHANGED <<links, feeds, objs, waits, waiting, items, requests, counts>>
  BY DEF Flush
<1>7. Links'
  BY <1>0, <1>6, LinksKept DEF links
<1>8. Data'
  BY <1>0, <1>4, <1>5, <1>6 DEF Data, Objects
<1>9. Requests'
  BY <1>0, <1>6, RequestsKept DEF links
<1> QED
  BY <1>7, <1>8, <1>9 DEF IInv

(* Stall keeps the invariant.                                              *)
LEMMA StallStep ==
  ASSUME IInv, NEW n \in Nodes, NEW c \in Conns, Stall(n, c)
  PROVE  IInv'
<1>0. Links /\ Data /\ Requests
  BY DEF IInv
<1>1. Links'
  BY <1>0, LinksKept DEF Stall, links
<1>2. Data'
  BY <1>0, QueueOf DEF Stall, Data, Objects
<1>3. Requests'
  BY <1>0, RequestsKept DEF Stall, links
<1> QED
  BY <1>1, <1>2, <1>3 DEF IInv

(* The next message of a queue, and what is left of the queue.             *)
LEMMA ReceiveType ==
  ASSUME IInv, NEW n \in Nodes, NEW c \in Conns, NEW type, Receive(n, c, type)
  PROVE  /\ c \in peers[n] /\ c \in Ends /\ c \in Parties
         /\ Consume(c, n) \in Wires
         /\ Head(wire[In(c, n)]) \in FreshMessage
         /\ Head(wire[In(c, n)]).type = type
<1>1. wire \in Wires
  BY DEF IInv, Data
<1> QED
  BY <1>1, ConsumeType DEF Receive, Ends, Parties

(* All but the marks of a list carry a name.                               *)
LEMMA NamedMessage ==
  ASSUME NEW m \in FreshMessage, m.type \in {"GET_OBJECT", "NONE", "OBJECT"}
  PROVE  m.name \in Names
  BY DEF FreshMessage, Message

(* HandleListen keeps the invariant.                                       *)
LEMMA HandleListenStep ==
  ASSUME IInv, NEW n \in Nodes, NEW c \in Conns, HandleListen(n, c)
  PROVE  IInv'
<1>0. Links /\ Data /\ Requests
  BY DEF IInv
<1>1. Consume(c, n) \in Wires
  BY ReceiveType DEF HandleListen
<1>2. PICK list \in Listings(n) : Transmit(Post(Consume(c, n), c, n, list))
  BY DEF HandleListen
<1>3. Post(Consume(c, n), c, n, list) \in Wires
  BY <1>0, <1>1, ListingsType, PostType DEF Data
<1>4. wire' \in Wires /\ stalled' \subseteq Queues
  BY <1>0, <1>2, <1>3, TransmitType DEF Data
<1>5. /\ feeds' = [feeds EXCEPT ![n] = @ \cup {c}]
      /\ UNCHANGED <<links, objs, flush, waits, waiting, items, requests, counts>>
  BY DEF HandleListen
<1>6. Links'
  BY <1>0, <1>5 DEF Links, links, counts
<1>7. Data'
  BY <1>0, <1>4, <1>5 DEF Data, Objects
<1>8. Requests'
  BY <1>0, <1>5, RequestsKept DEF links
<1> QED
  BY <1>6, <1>7, <1>8 DEF IInv

(* A request put on the wait list sends one message.                       *)
LEMMA WaitForDataWires ==
  ASSUME NEW n, NEW who, NEW x \in Names, NEW owner, NEW w \in Wires,
         WaitForData(n, who, x, owner, w), stalled \subseteq Queues
  PROVE  wire' \in Wires /\ stalled' \subseteq Queues
<1>1. Transmit(Post(w, owner, n, <<Get(x)>>))
  BY DEF WaitForData
<1>2. <<Get(x)>> \in Seq(FreshMessage)
  BY SmallMessages
<1>3. Post(w, owner, n, <<Get(x)>>) \in Wires
  BY <1>2, PostType
<1> QED
  BY <1>1, <1>3, TransmitType

(* HandleGetObject keeps the invariant.                                    *)
LEMMA HandleGetObjectStep ==
  ASSUME IInv, NEW n \in Nodes, NEW c \in Conns, HandleGetObject(n, c)
  PROVE  IInv'
<1> DEFINE x == Head(wire[In(c, n)]).name
           w == Consume(c, n)
<1>0. Links /\ Data /\ Requests
  BY DEF IInv
<1>1. Receive(n, c, "GET_OBJECT")
  BY DEF HandleGetObject
<1>2. /\ w \in Wires /\ x \in Names
      /\ c \in peers[n] /\ c \in Conns /\ c \in Parties
  BY <1>1, ReceiveType, NamedMessage, SMTT(30)
<1>3. UNCHANGED <<links, feeds, flush, items, requests, counts>>
  BY ZenonT(60) DEF HandleGetObject
<1>4. \/ /\ Transmit(Post(w, c, n, <<None(x)>>))
         /\ UNCHANGED <<objs, waits, waiting>>
      \/ \E p \in Owners(n, x) :
           /\ NoteRequest(n, p, x)
           /\ \/ /\ Transmit(Post(w, c, n,
                                  <<ObjectMessage(x, objs[n][p][x], TRUE)>>))
                 /\ UNCHANGED <<waits, waiting>>
              \/ WaitForData(n, c, x, p, w)
  BY DEF HandleGetObject
<1> HIDE DEF x, w
<1>5. Links'
  BY <1>0, <1>3, LinksKept DEF links
<1>6. CASE /\ Transmit(Post(w, c, n, <<None(x)>>))
           /\ UNCHANGED <<objs, waits, waiting>>
  <2>1. <<None(x)>> \in Seq(FreshMessage)
    BY <1>2, SmallMessages
  <2>2. wire' \in Wires /\ stalled' \subseteq Queues
    BY <1>0, <1>2, <1>6, <2>1, PostType, TransmitType DEF Data
  <2>3. Data'
    BY <1>0, <1>3, <1>6, <2>2 DEF Data, Objects
  <2>4. Requests'
    BY <1>0, <1>3, <1>6, RequestsKept DEF links
  <2> QED
    BY <1>5, <2>3, <2>4 DEF IInv
<1>7. ASSUME NEW p \in Owners(n, x), NoteRequest(n, p, x),
             \/ /\ Transmit(Post(w, c, n,
                                 <<ObjectMessage(x, objs[n][p][x], TRUE)>>))
                /\ UNCHANGED <<waits, waiting>>
             \/ WaitForData(n, c, x, p, w)
      PROVE  IInv'
  <2>1. p \in Ends /\ x \in DOMAIN objs[n][p]
    BY OwnersThere
  <2>2. Objects(objs')
    BY <1>0, <1>7, <2>1, NoteRequestType DEF Data
  <2>3. CASE /\ Transmit(Post(w, c, n,
                              <<ObjectMessage(x, objs[n][p][x], TRUE)>>))
             /\ UNCHANGED <<waits, waiting>>
    <3>1. ObjectMessage(x, objs[n][p][x], TRUE) \in FreshMessage
      BY <1>0, <1>2, <2>1, ObjectThere, ObjectMessageFresh DEF Data
    <3>2. wire' \in Wires /\ stalled' \subseteq Queues
      BY <1>0, <1>2, <2>3, <3>1, OneMessage, PostType, TransmitType DEF Data
    <3>3. Data'
      BY <1>0, <1>3, <2>2, <3>2 DEF Data, Objects
    <3>4. Requests'
      BY <1>0, <1>3, <2>3, RequestsKept DEF links
    <3> QED
      BY <1>5, <3>3, <3>4 DEF IInv
  <2>4. CASE WaitForData(n, c, x, p, w)
    <3>1. wire' \in Wires /\ stalled' \subseteq Queues
      BY <1>0, <1>2, <2>4, WaitForDataWires DEF Data
    <3>2. Data'
      BY <1>0, <1>3, <2>2, <3>1 DEF Data, Objects
    <3>3. peers' = peers /\ wants' = wants /\ answered' = answered /\ fetch' = fetch
      BY <1>3 DEF links, requests
    <3>4. Requests'
      BY <1>0, <1>2, <2>4, <3>3, WaitKeeps
    <3> QED
      BY <1>5, <3>2, <3>4 DEF IInv
  <2> QED
    BY <1>7, <2>3, <2>4
<1> QED
  BY <1>4, <1>6, <1>7

(* HandleListBegin keeps the invariant.                                    *)
LEMMA HandleListBeginStep ==
  ASSUME IInv, NEW n \in Nodes, NEW c \in Conns, HandleListBegin(n, c)
  PROVE  IInv'
<1> DEFINE mine == objs[n][c]
<1>0. Links /\ Data /\ Requests
  BY DEF IInv
<1>1. c \in Ends /\ Consume(c, n) \in Wires
  BY ReceiveType DEF HandleListBegin
<1>2. PICK recent \in SUBSET {x \in DOMAIN mine : mine[x].asked} :
        objs' = [objs EXCEPT ![n][c] =
                  [x \in DOMAIN mine |->
                    [mine[x] EXCEPT !.dead = TRUE, !.asked = x \in recent]]]
  BY DEF HandleListBegin
<1> DEFINE new == [x \in DOMAIN mine |->
                    [mine[x] EXCEPT !.dead = TRUE, !.asked = x \in recent]]
<1>3. ObjectMap(mine)
  BY <1>0, <1>1 DEF Data, Objects
<1>4. ObjectMap(new)
  <2>1. \A x \in DOMAIN mine : mine[x] \in FreshObject
    BY <1>3 DEF ObjectMap
  <2>2. \A x \in DOMAIN mine :
          [mine[x] EXCEPT !.dead = TRUE, !.asked = x \in recent] \in FreshObject
    <3> DEFINE marked(o, b) == [o EXCEPT !.dead = TRUE, !.asked = b]
    <3>1. \A o \in FreshObject, b \in BOOLEAN : marked(o, b) \in FreshObject
      BY DEF FreshObject, Object, Fresh
    <3>2. \A x \in DOMAIN mine :
            marked(mine[x], x \in recent) \in FreshObject
      <4> SUFFICES ASSUME NEW x \in DOMAIN mine
                   PROVE  marked(mine[x], x \in recent) \in FreshObject
        OBVIOUS
      <4> DEFINE b == x \in recent
      <4>1. b \in BOOLEAN /\ mine[x] \in FreshObject
        BY <2>1
      <4> HIDE DEF b, marked
      <4>2. marked(mine[x], b) \in FreshObject
        BY <3>1, <4>1
      <4> QED
        BY <4>2 DEF b
    <3> QED
      BY <3>2
  <2> QED
    BY <1>3, <2>2 DEF ObjectMap
<1> HIDE DEF new
<1>5. Objects(objs')
  BY <1>0, <1>1, <1>2, <1>4, ObjectsExcept DEF Data, new
<1>6. wire' \in Wires /\ stalled' \subseteq Queues
  BY <1>0, <1>1, TransmitType DEF HandleListBegin, Data
<1>7. UNCHANGED <<links, feeds, flush, waits, waiting, items, requests, counts>>
  BY DEF HandleListBegin
<1>8. Links'
  BY <1>0, <1>7, LinksKept DEF links
<1>9. Data'
  BY <1>0, <1>5, <1>6, <1>7 DEF Data, Objects
<1>10. Requests'
  BY <1>0, <1>7, RequestsKept DEF links
<1> QED
  BY <1>8, <1>9, <1>10 DEF IInv

(* HandleListEnd keeps the invariant.                                      *)
LEMMA HandleListEndStep ==
  ASSUME IInv, NEW n \in Nodes, NEW c \in Conns, HandleListEnd(n, c)
  PROVE  IInv'
<1> DEFINE alive == Alive(objs[n][c])
<1>0. Links /\ Data /\ Requests
  BY DEF IInv
<1>1. c \in Ends /\ Consume(c, n) \in Wires
  BY ReceiveType DEF HandleListEnd
<1>2. ObjectMap(alive)
  BY <1>0, <1>1, AliveType DEF Data, Objects
<1> HIDE DEF alive
<1>3. /\ objs' = [objs EXCEPT ![n][c] = alive]
      /\ flush' = [flush EXCEPT ![n] = TRUE]
      /\ items' = IF n \in Viewers THEN [items EXCEPT ![n] = Replica(alive)]
                                   ELSE items
      /\ Transmit(Consume(c, n))
      /\ UNCHANGED <<links, feeds, waits, waiting, requests, counts>>
  BY DEF HandleListEnd, alive
<1>4. Objects(objs')
  BY <1>0, <1>1, <1>2, <1>3, ObjectsExcept DEF Data
<1>5. wire' \in Wires /\ stalled' \subseteq Queues
  BY <1>0, <1>1, <1>3, TransmitType DEF Data
<1>6. /\ DOMAIN Replica(alive) \subseteq Names
      /\ Replica(alive) \in [DOMAIN Replica(alive) -> Nat]
  <2>1. \A x \in DOMAIN alive : alive[x] \in Object
    BY <1>2 DEF ObjectMap, FreshObject
  <2>2. \A x \in DOMAIN alive : alive[x].version \in Nat
    BY <2>1 DEF Object
  <2> QED
    BY <1>2, <2>2 DEF ObjectMap, Replica
<1>7. /\ DOMAIN items' = Viewers
      /\ \A v \in Viewers : /\ DOMAIN items'[v] \subseteq Names
                            /\ items'[v] \in [DOMAIN items'[v] -> Nat]
  BY <1>0, <1>3, <1>6 DEF Data
<1>8. Links'
  BY <1>0, <1>3, LinksKept DEF links
<1>9. Data'
  BY <1>0, <1>3, <1>4, <1>5, <1>7 DEF Data, Objects
<1>10. Requests'
  BY <1>0, <1>3, RequestsKept DEF links
<1> QED
  BY <1>8, <1>9, <1>10 DEF IInv

(* HandleObject keeps the invariant.                                       *)
LEMMA HandleObjectStep ==
  ASSUME IInv, NEW n \in Nodes, NEW c \in Conns, HandleObject(n, c)
  PROVE  IInv'
<1> DEFINE m == Head(wire[In(c, n)])
           x == m.name
           mine == objs[n][c]
           new == Updated(mine, m)
           all == [y \in DOMAIN mine \cup {x} |-> IF y = x THEN new ELSE mine[y]]
           S == IF m.data # 0 THEN For(n, x) ELSE {}
           w == IF new.asked /\ m.data = 0
                THEN Post(Consume(c, n), c, n, <<Get(x)>>) ELSE Consume(c, n)
           answer == ObjectMessage(x, new, TRUE)
<1>0. Links /\ Data /\ Requests /\ RequestTypes
  BY DEF IInv, Requests
<1>1. /\ c \in Ends /\ Consume(c, n) \in Wires
      /\ m \in FreshMessage /\ m.type = "OBJECT"
  BY ReceiveType DEF HandleObject
<1>2. ObjectMap(mine)
  BY <1>0, <1>1 DEF Data, Objects
<1>3. new \in FreshObject /\ x \in Names
  BY <1>1, <1>2, UpdatedFresh
<1>4. /\ objs' = [objs EXCEPT ![n][c] = all]
      /\ Release(n, S, answer, w)
      /\ UNCHANGED <<links, feeds, flush, items, counts>>
  BY DEF HandleObject
<1> HIDE DEF m, x, new
<1>5. ObjectMap(all)
  BY <1>2, <1>3 DEF ObjectMap
<1>6. S \in SUBSET Slots
  BY DEF For
<1>7. answer \in FreshMessage
  BY <1>3, ObjectMessageFresh
<1>8. w \in Wires
  <2>1. <<Get(x)>> \in Seq(FreshMessage)
    BY <1>3, SmallMessages
  <2> QED
    BY <1>1, <2>1, PostType
<1> HIDE DEF all, S, w, answer
<1>9. wire' \in Wires /\ stalled' \subseteq Queues
  BY <1>0, <1>4, <1>6, <1>7, <1>8, ReleaseWires DEF Data
<1>10. Objects(objs')
  BY <1>0, <1>1, <1>4, <1>5, ObjectsExcept DEF Data
<1>11. Links'
  BY <1>0, <1>4, LinksKept DEF links
<1>12. Data'
  BY <1>0, <1>4, <1>9, <1>10 DEF Data, Objects
<1>13. Requests'
  BY <1>0, <1>4, <1>6, ReleaseKeeps DEF links
<1> QED
  BY <1>11, <1>12, <1>13 DEF IInv

(* HandleNone keeps the invariant.                                         *)
LEMMA HandleNoneStep ==
  ASSUME IInv, NEW n \in Nodes, NEW c \in Conns, HandleNone(n, c)
  PROVE  IInv'
<1> DEFINE m == Head(wire[In(c, n)])
           x == m.name
           mine == objs[n][c]
           dying == [mine EXCEPT ![x].dead = TRUE]
<1>0. Links /\ Data /\ Requests /\ RequestTypes
  BY DEF IInv, Requests
<1>1. /\ c \in Ends /\ Consume(c, n) \in Wires
      /\ m \in FreshMessage /\ m.type = "NONE"
  BY ReceiveType DEF HandleNone
<1>2. ObjectMap(mine) /\ x \in Names
  BY <1>0, <1>1, NamedMessage DEF Data, Objects
<1>3. /\ objs' = IF x \in DOMAIN mine
                 THEN [objs EXCEPT ![n][c] = Alive(dying)] ELSE objs
      /\ Release(n, For(n, x), None(x), Consume(c, n))
      /\ UNCHANGED <<links, feeds, flush, items, counts>>
  BY DEF HandleNone
<1> HIDE DEF m, x
<1>4. x \in DOMAIN mine => ObjectMap(Alive(dying))
  <2> SUFFICES ASSUME x \in DOMAIN mine PROVE ObjectMap(Alive(dying))
    OBVIOUS
  <2>1. mine[x] \in FreshObject
    BY <1>2 DEF ObjectMap
  <2>2. [mine[x] EXCEPT !.dead = TRUE] \in FreshObject
    BY <2>1 DEF FreshObject, Object, Fresh
  <2>3. ObjectMap(dying)
    BY <1>2, <2>2 DEF ObjectMap
  <2> QED
    BY <2>3, AliveType
<1> HIDE DEF dying
<1>5. For(n, x) \in SUBSET Slots /\ None(x) \in FreshMessage
  BY <1>2, SmallMessages DEF For
<1>6. wire' \in Wires /\ stalled' \subseteq Queues
  BY <1>0, <1>1, <1>3, <1>5, ReleaseWires DEF Data
<1>7. Objects(objs')
  BY <1>0, <1>1, <1>3, <1>4, ObjectsExcept DEF Data
<1>8. Links'
  BY <1>0, <1>3, LinksKept DEF links
<1>9. Data'
  BY <1>0, <1>3, <1>6, <1>7 DEF Data, Objects
<1>10. Requests'
  BY <1>0, <1>3, <1>5, ReleaseKeeps DEF links
<1> QED
  BY <1>8, <1>9, <1>10 DEF IInv

(* Expire keeps the invariant.                                             *)
LEMMA ExpireStep ==
  ASSUME IInv, NEW n \in Nodes, NEW s \in Slots, Expire(n, s)
  PROVE  IInv'
<1> DEFINE x == waits[n][s].name
<1>0. Links /\ Data /\ Requests /\ RequestTypes
  BY DEF IInv, Requests
<1>1. /\ waits[n][s] # Free
      /\ CountExpired(n)
      /\ UNCHANGED <<links, feeds, objs, flush, items, nchanges, nasks>>
  BY DEF Expire
<1>2. x \in Names
  BY <1>0, <1>1 DEF RequestTypes, WaitObject
<1>3. \E m \in FreshMessage : Release(n, {s}, m, wire)
  <2>1. CASE Release(n, {s}, None(x), wire)
    BY <1>2, <2>1, SmallMessages
  <2>2. ASSUME NEW p \in Owners(n, x),
               Release(n, {s}, ObjectMessage(x, objs[n][p][x], TRUE), wire)
        PROVE  \E m \in FreshMessage : Release(n, {s}, m, wire)
    <3>1. p \in Ends /\ x \in DOMAIN objs[n][p]
      BY OwnersThere
    <3>2. ObjectMessage(x, objs[n][p][x], TRUE) \in FreshMessage
      BY <1>0, <1>2, <3>1, ObjectThere, ObjectMessageFresh DEF Data
    <3> QED
      BY <2>2, <3>2
  <2> QED
    BY <2>1, <2>2 DEF Expire
<1>4. PICK m \in FreshMessage : Release(n, {s}, m, wire)
  BY <1>3
<1>5. wire' \in Wires /\ stalled' \subseteq Queues
  BY <1>0, <1>4, ReleaseWires DEF Data
<1>6. Links'
  <2>1. nexpired' \in 0 .. MaxExpired
    BY <1>0, <1>1, BoundsAssumption DEF Links, CountExpired
  <2> QED
    BY <1>0, <1>1, <2>1 DEF Links, links
<1>7. Data'
  BY <1>0, <1>1, <1>5 DEF Data, Objects
<1>8. Requests'
  BY <1>0, <1>1, <1>4, ReleaseKeeps DEF links
<1> QED
  BY <1>6, <1>7, <1>8 DEF IInv

(* A thread that is idle or about to ask has nothing on the wait list.     *)
LEMMA NothingHeld ==
  ASSUME Requests, NEW f \in Fetchers,
         fetch[f] \in {"idle", "request"} \/ answered[f]
  PROVE  Held(f[1], Slots, f) = {}
  BY DEF Requests, OneRequest

(* FetchLook keeps the invariant.                                          *)
LEMMA FetchLookStep ==
  ASSUME IInv, NEW f \in Fetchers, NEW x \in Names, FetchLook(f, x)
  PROVE  IInv'
<1>0. /\ Links /\ Data /\ Requests /\ RequestTypes
      /\ f[1] \in Nodes
  BY FetcherNode DEF IInv, Requests
<1>1. /\ fetch[f] = "idle" /\ nasks < MaxAsks /\ nasks' = nasks + 1
      /\ UNCHANGED <<links, feeds, wire, stalled, flush, waits, waiting, items,
                     answered, nchanges, nexpired>>
  BY DEF FetchLook
<1>2. Links'
  <2>1. nasks \in Nat /\ MaxAsks \in Nat
    BY <1>0, BoundsAssumption DEF Links
  <2> QED
    BY <1>0, <1>1, <2>1 DEF Links, links
<1>3. Objects(objs')
  <2>1. CASE objs' = objs
    BY <1>0, <2>1 DEF Data
  <2>2. ASSUME NEW p \in Owners(f[1], x), NoteRequest(f[1], p, x)
        PROVE  Objects(objs')
    BY <1>0, <2>2, OwnersThere, NoteRequestType DEF Data
  <2> QED
    BY <2>1, <2>2 DEF FetchLook
<1>4. Data'
  BY <1>0, <1>1, <1>3 DEF Data, Objects
<1>5. Requests'
  <2>1. CASE UNCHANGED <<fetch, wants>>
    BY <1>0, <1>1, <2>1, RequestsKept DEF links, requests
  <2>2. CASE /\ fetch' = [fetch EXCEPT ![f] = "request"]
             /\ wants' = [wants EXCEPT ![f] = x]
    <3>1. Held(f[1], Slots, f) = {} /\ ~answered[f]
      BY <1>0, <1>1, NothingHeld DEF Requests, OneRequest
    <3>2. answered' = [answered EXCEPT ![f] = FALSE]
      BY <1>0, <1>1, <3>1 DEF RequestTypes
    <3>3. fetch \in [Fetchers -> {"idle", "request", "sleep", "woken"}]
      BY <1>0 DEF RequestTypes
    <3>4. UNCHANGED <<waits, waiting, peers>>
      BY <1>1 DEF links
    <3> QED
      BY <1>0, <2>2, <3>1, <3>2, <3>3, <3>4, ThreadKeeps
  <2> QED
    BY <2>1, <2>2 DEF FetchLook
<1> QED
  BY <1>2, <1>4, <1>5 DEF IInv

(* A fetch that returns leaves nothing behind.                             *)
LEMMA ReturnKeeps ==
  ASSUME Requests, UNCHANGED <<waits, waiting, peers>>,
         NEW f \in Fetchers, fetch[f] = "request" \/ answered[f],
         NEW n, Return(f, fetch) \/ Return(f, Broadcast(n))
  PROVE  Requests'
<1>0. RequestTypes
  BY DEF Requests
<1>1. Held(f[1], Slots, f) = {}
  BY NothingHeld
<1>2. CASE Return(f, fetch)
  <2>1. fetch \in [Fetchers -> {"idle", "request", "sleep", "woken"}]
    BY <1>0 DEF RequestTypes
  <2> QED
    BY <1>1, <1>2, <2>1, ThreadKeeps DEF Return
<1>3. CASE Return(f, Broadcast(n))
  <2>1. /\ fetch' = [Broadcast(n) EXCEPT ![f] = "idle"]
        /\ wants' = [wants EXCEPT ![f] = Free]
        /\ answered' = [answered EXCEPT ![f] = FALSE]
    BY <1>3 DEF Return
  <2> QED
    BY <1>0, <1>1, <2>1, BroadcastType, ThreadKeeps
<1> QED
  BY <1>2, <1>3

(* FetchRequest keeps the invariant.                                       *)
LEMMA FetchRequestStep ==
  ASSUME IInv, NEW f \in Fetchers, FetchRequest(f)
  PROVE  IInv'
<1> DEFINE n == f[1]
           x == wants[f]
<1>0. /\ Links /\ Data /\ Requests /\ RequestTypes
      /\ n \in Nodes /\ f \in Parties
  BY FetcherNode DEF IInv, Requests
<1>1. /\ fetch[f] = "request"
      /\ UNCHANGED <<links, feeds, flush, items, counts>>
  BY DEF FetchRequest
<1>2. x \in Names
  BY <1>0, <1>1 DEF RequestTypes
<1>3. \/ /\ Return(f, fetch)
         /\ UNCHANGED <<objs, wire, stalled, waits, waiting>>
      \/ \E p \in Owners(n, x) :
           /\ NoteRequest(n, p, x)
           /\ \/ /\ Return(f, Broadcast(n))
                 /\ UNCHANGED <<wire, stalled, waits, waiting>>
              \/ /\ WaitForData(n, f, x, p, wire)
                 /\ fetch' = [fetch EXCEPT ![f] = "sleep"]
                 /\ UNCHANGED <<wants, answered>>
  BY DEF FetchRequest
<1>4. Links' /\ peers' = peers
  BY <1>0, <1>1, LinksKept DEF links
<1> HIDE DEF n, x
<1>5. CASE /\ Return(f, fetch)
           /\ UNCHANGED <<objs, wire, stalled, waits, waiting>>
  <2>1. Data'
    BY <1>0, <1>1, <1>5, DataKept
  <2>2. Requests'
    BY <1>0, <1>1, <1>4, <1>5, ReturnKeeps
  <2> QED
    BY <1>4, <2>1, <2>2 DEF IInv
<1>6. ASSUME NEW p \in Owners(n, x), NoteRequest(n, p, x),
             \/ /\ Return(f, Broadcast(n))
                /\ UNCHANGED <<wire, stalled, waits, waiting>>
             \/ /\ WaitForData(n, f, x, p, wire)
                /\ fetch' = [fetch EXCEPT ![f] = "sleep"]
                /\ UNCHANGED <<wants, answered>>
      PROVE  IInv'
  <2>1. Objects(objs')
    BY <1>0, <1>6, OwnersThere, NoteRequestType DEF Data
  <2>2. CASE /\ Return(f, Broadcast(n))
             /\ UNCHANGED <<wire, stalled, waits, waiting>>
    <3>1. Data'
      BY <1>0, <1>1, <2>1, <2>2 DEF Data, Objects
    <3>2. Requests'
      BY <1>0, <1>1, <1>4, <2>2, ReturnKeeps
    <3> QED
      BY <1>4, <3>1, <3>2 DEF IInv
  <2>3. CASE /\ WaitForData(n, f, x, p, wire)
             /\ fetch' = [fetch EXCEPT ![f] = "sleep"]
             /\ UNCHANGED <<wants, answered>>
    <3>1. wire' \in Wires /\ stalled' \subseteq Queues
      BY <1>0, <1>2, <2>3, WaitForDataWires DEF Data
    <3>2. Data'
      BY <1>0, <1>1, <2>1, <3>1 DEF Data, Objects
    <3>3. f[1] = n
      BY DEF n
    <3>4. Requests'
      BY <1>0, <1>1, <1>2, <1>4, <2>3, <3>3, WaitKeeps
    <3> QED
      BY <1>4, <3>2, <3>4 DEF IInv
  <2> QED
    BY <1>6, <2>2, <2>3
<1> QED
  BY <1>3, <1>5, <1>6

(* FetchWake keeps the invariant.                                          *)
LEMMA FetchWakeStep ==
  ASSUME IInv, NEW f \in Fetchers, FetchWake(f)
  PROVE  IInv'
<1>0. /\ Links /\ Data /\ Requests /\ RequestTypes /\ Attached /\ OneRequest
  BY DEF IInv, Requests
<1>1. /\ fetch[f] = "woken"
      /\ UNCHANGED <<links, feeds, wire, stalled, objs, flush, waits, waiting,
                     items, counts>>
  BY DEF FetchWake
<1>2. Links' /\ Data' /\ peers' = peers
  BY <1>0, <1>1, LinksKept, DataKept DEF links
<1>3. CASE answered[f] /\ Return(f, fetch)
  <2>1. Requests'
    BY <1>0, <1>1, <1>2, <1>3, ReturnKeeps
  <2> QED
    BY <1>2, <2>1 DEF IInv
<1>4. CASE /\ fetch' = [fetch EXCEPT ![f] = "sleep"]
           /\ UNCHANGED <<wants, answered>>
  <2>1. \A k, S, p : Held(k, S, p)' = Held(k, S, p)
    BY <1>1 DEF Held
  <2>2. \A g \in Fetchers : /\ fetch'[g] \in {"sleep", "woken"}
                                 <=> fetch[g] \in {"sleep", "woken"}
                            /\ fetch'[g] = "request" => fetch[g] = "request"
    BY <1>0, <1>1, <1>4 DEF RequestTypes
  <2>3. RequestTypes'
    BY <1>0, <1>1, <1>4, <2>2 DEF RequestTypes
  <2>4. Counted'
    BY <1>0, <1>1, <2>1 DEF Requests, Counted
  <2>5. Attached'
    BY <1>0, <1>1, <1>2, <2>2 DEF Attached
  <2>6. OneRequest'
    BY <1>0, <1>4, <2>1, <2>2 DEF OneRequest
  <2> QED
    BY <1>2, <2>3, <2>4, <2>5, <2>6 DEF IInv, Requests
<1> QED
  BY <1>3, <1>4 DEF FetchWake

------------------------------------------------------------------------------
(* The theorems                                                            *)

(* Every step, and every stutter, keeps the invariant.                     *)
LEMMA NextKeepsIInv == IInv /\ [Next]_vars => IInv'
<1> SUFFICES ASSUME IInv, [Next]_vars PROVE IInv'
  OBVIOUS
<1>1. ASSUME NEW m \in Clients, Connect(m) PROVE IInv'
  BY <1>1, ConnectStep
<1>2. ASSUME NEW c \in Conns, Accept(c) \/ Break(c) PROVE IInv'
  BY <1>2, AcceptStep, BreakStep
<1>3. ASSUME NEW n \in Nodes, NEW c \in Conns, LosePeer(n, c) \/ Stall(n, c)
      PROVE  IInv'
  BY <1>3, LosePeerStep, StallStep
<1>4. ASSUME NEW n \in Nodes, NEW c \in Conns, Handle(n, c) PROVE IInv'
  BY <1>4, HandleListenStep, HandleGetObjectStep, HandleListBeginStep,
     HandleListEndStep, HandleObjectStep, HandleNoneStep DEF Handle
<1>5. ASSUME NEW n \in Sources, NEW x \in Names, Change(n, x) \/ RemoveLocal(n, x)
      PROVE  IInv'
  BY <1>5, ChangeStep, RemoveLocalStep
<1>6. ASSUME NEW n \in Nodes, Flush(n) PROVE IInv'
  BY <1>6, FlushStep
<1>7. ASSUME NEW n \in Nodes, NEW s \in Slots, Expire(n, s) PROVE IInv'
  BY <1>7, ExpireStep
<1>8. ASSUME NEW f \in Fetchers,
             (\E x \in Names : FetchLook(f, x)) \/ FetchRequest(f) \/ FetchWake(f)
      PROVE  IInv'
  BY <1>8, FetchLookStep, FetchRequestStep, FetchWakeStep
<1>9. CASE UNCHANGED vars
  <2>1. UNCHANGED <<made, backlog, cut, peers, feeds, counts, wire, stalled, objs,
                    flush, items, waits, waiting, requests>>
    BY <1>9 DEF vars, counts, requests
  <2>2. Links' /\ Data' /\ Requests'
    BY <2>1, LinksKept, DataKept, RequestsKept DEF IInv
  <2> QED
    BY <2>2 DEF IInv
<1> QED
  BY <1>1, <1>2, <1>3, <1>4, <1>5, <1>6, <1>7, <1>8, <1>9 DEF Next

(* The invariant holds of every behaviour.                                 *)
THEOREM Inductive == Spec => []IInv
  BY InitIInv, NextKeepsIInv, PTL DEF Spec

(* The invariant implies the type invariant.                               *)
LEMMA TypesFollow == IInv => TypeOK
<1> SUFFICES ASSUME IInv PROVE TypeOK
  OBVIOUS
<1>0. Links /\ Data /\ Requests /\ RequestTypes
  BY DEF IInv, Requests
<1>1. wire \in [Queues -> Seq(Message)]
  <2>1. FreshMessage \subseteq Message
    BY DEF FreshMessage
  <2>2. \A t \in Seq(FreshMessage) : t \in Seq(Message)
    BY <2>1
  <2>3. wire \in [Queues -> Seq(FreshMessage)]
    BY <1>0 DEF Data, Wires
  <2> QED
    BY <2>2, <2>3
<1>2. \A n \in Nodes, p \in Ends :
        objs[n][p] \in [DOMAIN objs[n][p] -> Object]
  BY <1>0 DEF Data, Objects, ObjectMap, FreshObject
<1> QED
  BY <1>0, <1>1, <1>2 DEF Links, Data, Objects, ObjectMap, RequestTypes, TypeOK

(* Every variable of the network keeps its type, for any nodes, histograms *)
(* and bounds: in particular no count of waiting requests gets negative    *)
(* (the assertion in releaseFromWait).                                     *)
THEOREM NetTypeCorrect == Spec => []TypeOK
  BY Inductive, TypesFollow, PTL

(* Nowhere in the network are old data taken for those of a newer version, *)
(* however messages and connections come and go (STALE in onMessage).      *)
THEOREM DataAreFresh == Spec => []FreshData
<1>1. IInv => FreshData
  BY DEF IInv, Data, Objects, ObjectMap, FreshObject, FreshData
<1> QED
  BY <1>1, Inductive, PTL

(* The counts of waiting requests agree with the wait list, and no entry   *)
(* of the list is left behind by a peer or a thread that is gone           *)
(* (losePeer, releaseFromWait, fetch).                                     *)
THEOREM WaitListCorrect == Spec => []WaitersCounted
<1>1. IInv => WaitersCounted
  BY DEF IInv, Requests, Counted, Attached, WaitersCounted
<1> QED
  BY <1>1, Inductive, PTL
==============================================================================
