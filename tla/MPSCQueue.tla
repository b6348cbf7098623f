------------------------------ MODULE MPSCQueue ------------------------------
(* The lock-free queue on which any thread sends and one network thread
   takes: a list of nodes from _tail to _head, the first of them without an
   element.  A producer puts its node at the head with one exchange and links
   it to its predecessor with a second step; until then what lies behind is
   out of the consumer's reach.  The consumer deletes nodes as it goes.       *)
EXTENDS Naturals, Sequences, FiniteSets

CONSTANTS
  Producers,
  Elements,  \* bound: how many elements each producer enqueues
  Stub,      \* the node the queue starts with
  Null

QueueAssumption ==
  /\ Elements \in Nat
  /\ Stub \notin Producers \X (1..Elements)
  /\ Null \notin (Producers \X (1..Elements)) \cup {Stub}

Node == (Producers \X (1..Elements)) \cup {Stub}

VARIABLES
  head, tail, \* _head, _tail
  next,       \* Next of each node
  freed,      \* nodes deleted so far
  made,       \* how many elements each producer has enqueued
  prevHead,   \* of a producer between its two steps, or Null
  order,      \* nodes in the order of the exchanges
  got         \* elements in the order of Dequeue

vars == <<head, tail, next, freed, made, prevHead, order, got>>

Init ==
  /\ head = Stub /\ tail = Stub
  /\ next = [n \in Node |-> Null] /\ freed = {}
  /\ made = [p \in Producers |-> 0] /\ prevHead = [p \in Producers |-> Null]
  /\ order = <<>> /\ got = <<>>

\* Mutant: the head is loaded and then stored, and another producer's load
\* falls between.
ExchangeTorn(p, node) ==
  /\ head' = node
  /\ prevHead' = [prevHead EXCEPT ![p] =
       IF \E q \in Producers : prevHead[q] # Null
       THEN (CHOOSE n \in Node : \E q \in Producers : prevHead[q] = n) ELSE head]

Exchange(p, node) == prevHead' = [prevHead EXCEPT ![p] = head] /\ head' = node

\* new Node, whose Next is null, and the exchange.
Enqueue(p) ==
  /\ prevHead[p] = Null /\ made[p] < Elements
  /\ made' = [made EXCEPT ![p] = @ + 1]
  /\ Exchange(p, <<p, made'[p]>>)
  /\ order' = Append(order, <<p, made'[p]>>)
  /\ UNCHANGED <<tail, next, freed, got>>

Link(p) ==
  /\ prevHead[p] # Null
  /\ next' = [next EXCEPT ![prevHead[p]] = <<p, made[p]>>]
  /\ prevHead' = [prevHead EXCEPT ![p] = Null]
  /\ UNCHANGED <<head, tail, freed, made, order, got>>

DeleteTail == freed' = freed \cup {tail}

Dequeue ==
  /\ next[tail] # Null
  /\ got' = Append(got, next[tail]) /\ tail' = next[tail]
  /\ DeleteTail
  /\ UNCHANGED <<head, next, made, prevHead, order>>

Next == Dequeue \/ \E p \in Producers : Enqueue(p) \/ Link(p)

Spec == Init /\ [][Next]_vars

\* A producer that has begun is scheduled, and the consumer comes back.
FairSpec == Spec /\ WF_vars(Dequeue) /\ \A p \in Producers : WF_vars(Link(p))

-----------------------------------------------------------------------------
(* Properties *)

TypeOK ==
  /\ head \in Node /\ tail \in Node /\ freed \subseteq Node
  /\ next \in [Node -> Node \cup {Null}]
  /\ made \in [Producers -> 0..Elements]
  /\ prevHead \in [Producers -> Node \cup {Null}]
  /\ order \in Seq(Node) /\ got \in Seq(Node)

\* Elements come out in the order of the exchanges, which is the order of each
\* producer's own calls, none twice and none skipped.
InExchangeOrder ==
  /\ Len(got) <= Len(order) /\ got = SubSeq(order, 1, Len(got))
  /\ \A i, j \in 1..Len(order) : i < j /\ order[i][1] = order[j][1] => order[i][2] < order[j][2]

\* No thread touches a node the consumer has deleted: a node goes only when its
\* successor is known, so when whoever was to link it has done so.
NoUseAfterFree ==
  /\ {head, tail} \cap freed = {}
  /\ \A p \in Producers : prevHead[p] \notin freed

\* Dequeue answers "empty" although an Enqueue has returned only while some
\* producer is between its two steps, right behind the tail.
HiddenOnlyBriefly ==
  next[tail] = Null /\ got # order => \E p \in Producers : prevHead[p] = tail

\* The three: a queue, but for the moment between the two steps of Enqueue.
QueueSound == InExchangeOrder /\ NoUseAfterFree /\ HiddenOnlyBriefly

\* The consumer catches up with producers that pause, as they do when each has
\* enqueued its Elements: nothing stays hidden for ever.
EverythingComesOut == []<>(got = order)
=============================================================================
