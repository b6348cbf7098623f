--------------------------- MODULE MPSCQueue_proofs ---------------------------
(* The lock-free queue is one, for any number of producers and elements.      *)
EXTENDS MPSCQueue, DataFacts, TLAPS

\* What is before the k-th of the nodes s: the queue starts with the stub.
Before(s, k) == IF k = 1 THEN Stub ELSE s[k - 1]

\* Elements are their producers' own, in the order of each one's calls.
Numbered ==
  /\ IsInjective(order)
  /\ \A k \in 1..Len(order) : \E p \in Producers, n \in 1..Elements :
       order[k] = <<p, n>> /\ n <= made[p]
  /\ \A i, j \in 1..Len(order) : i < j /\ order[i][1] = order[j][1] => order[i][2] < order[j][2]

\* The producers are at the end of the list, the consumer where it has come to.
Ends ==
  /\ Len(got) <= Len(order) /\ \A k \in 1..Len(got) : got[k] = order[k]
  /\ head = Before(order, Len(order) + 1) /\ tail = Before(order, Len(got) + 1)
  /\ freed = {Before(order, k) : k \in 1..Len(got)}

\* A node is linked to its successor, or somebody is about to do it.
Chained ==
  /\ \A k \in 1..Len(order) :
       next[Before(order, k)] = order[k] \/ \E p \in Producers : prevHead[p] = Before(order, k)
  /\ \A n \in Node : next[n] # Null => \E k \in 1..Len(order) : n = Before(order, k) /\ next[n] = order[k]

\* Whoever is about to link a node to his own does so ahead of the consumer.
Linking ==
  \A p \in Producers : prevHead[p] # Null =>
    /\ next[prevHead[p]] = Null
    /\ \E k \in 1..Len(order) :
         k > Len(got) /\ order[k] = <<p, made[p]>> /\ prevHead[p] = Before(order, k)

IInv == TypeOK /\ Numbered /\ Ends /\ Chained /\ Linking

-----------------------------------------------------------------------------
\* Lengths and types, as the steps below need them.
LEMMA Lengths ==
  ASSUME QueueAssumption, IInv
  PROVE  /\ Len(order) \in Nat /\ Len(got) \in Nat /\ Len(got) <= Len(order)
         /\ DOMAIN order = 1..Len(order) /\ DOMAIN got = 1..Len(got)
         /\ \A k \in 1..Len(order) : order[k] \in Node /\ order[k] # Stub
         /\ \A k \in 1..(Len(order) + 1) : Before(order, k) \in Node
         /\ Null \notin Node /\ Stub \in Node /\ Elements \in Nat
<1>1. /\ Len(order) \in Nat /\ Len(got) \in Nat /\ Len(got) <= Len(order)
      /\ DOMAIN order = 1..Len(order) /\ DOMAIN got = 1..Len(got)
      /\ \A k \in 1..Len(order) : order[k] \in Node
  BY DEF IInv, TypeOK, Ends
<1>2. Null \notin Node /\ Stub \in Node /\ Elements \in Nat
  BY DEF QueueAssumption, Node
<1>3. ASSUME NEW k \in 1..Len(order) PROVE order[k] # Stub
  <2>1. PICK p \in Producers, n \in 1..Elements : order[k] = <<p, n>>
    BY DEF IInv, Numbered
  <2> QED  BY <2>1 DEF QueueAssumption
<1>4. ASSUME NEW k \in 1..(Len(order) + 1) PROVE Before(order, k) \in Node
  <2>1. k = 1 \/ k - 1 \in 1..Len(order)
    BY <1>1
  <2> QED  BY <1>1, <1>2, <2>1 DEF Before
<1> QED  BY <1>1, <1>2, <1>3, <1>4

\* No node is in the list twice.
LEMMA BeforeInjective ==
  ASSUME QueueAssumption, IInv,
         NEW i \in 1..(Len(order) + 1), NEW j \in 1..(Len(order) + 1), Before(order, i) = Before(order, j)
  PROVE  i = j
<1>1. /\ i = 1 \/ i - 1 \in 1..Len(order)
      /\ j = 1 \/ j - 1 \in 1..Len(order)
  BY Lengths
<1>2. CASE i = 1 \/ j = 1
  BY <1>1, <1>2, Lengths DEF Before
<1>3. CASE i # 1 /\ j # 1
  <2>1. order[i - 1] = order[j - 1] /\ i - 1 \in DOMAIN order /\ j - 1 \in DOMAIN order
    BY <1>1, <1>3, Lengths DEF Before
  <2>2. i - 1 = j - 1
    BY <2>1 DEF IInv, Numbered, IsInjective
  <2> QED  BY <2>2, Lengths
<1> QED  BY <1>2, <1>3

-----------------------------------------------------------------------------
(* The steps *)

\* The stub alone.
LEMMA Initially == ASSUME QueueAssumption, Init PROVE IInv
<1>1. /\ head = Stub /\ tail = Stub /\ freed = {} /\ order = <<>> /\ got = <<>>
      /\ next = [n \in Node |-> Null]
      /\ made = [p \in Producers |-> 0] /\ prevHead = [p \in Producers |-> Null]
  BY DEF Init
<1>2. IsInjective(<<>>) /\ Len(<<>>) = 0 /\ <<>> \in Seq(Node)
  BY EmptySequence
<1>3. Stub \in Node /\ 0 \in 0..Elements
  BY DEF QueueAssumption, Node
<1>4. TypeOK
  BY <1>1, <1>2, <1>3 DEF TypeOK
<1>5. Numbered /\ Ends /\ Chained /\ Linking
  BY <1>1, <1>2 DEF Numbered, Ends, Chained, Linking, Before
<1> QED  BY <1>4, <1>5 DEF IInv

\* The exchange: the new node is the last one, and behind it nothing is linked.
LEMMA EnqueueKeeps ==
  ASSUME QueueAssumption, IInv, NEW p \in Producers, Enqueue(p)
  PROVE  IInv'
<1> DEFINE node == <<p, made[p] + 1>>
           n == Len(order)
<1>1. /\ prevHead[p] = Null /\ made[p] < Elements
      /\ made' = [made EXCEPT ![p] = @ + 1]
      /\ prevHead' = [prevHead EXCEPT ![p] = head] /\ head' = node
      /\ order' = Append(order, node)
      /\ UNCHANGED <<tail, next, freed, got>>
  BY DEF Enqueue, Exchange, IInv, TypeOK
<1>2. /\ made[p] \in Nat /\ made[p] + 1 \in 1..Elements /\ node \in Node
      /\ made'[p] = made[p] + 1 /\ \A q \in Producers : q # p => made'[q] = made[q]
      /\ \A q \in Producers : made[q] \in Nat /\ made'[q] \in Nat /\ made'[q] >= made[q]
  BY <1>1, Lengths DEF IInv, TypeOK, Node
<1>3. node \notin Range(order) /\ \A k \in 1..n : order[k][1] = p => order[k][2] <= made[p]
  <2>1. ASSUME NEW k \in 1..n
        PROVE  order[k] # node /\ (order[k][1] = p => order[k][2] <= made[p])
    <3>1. PICK q \in Producers, m \in 1..Elements : order[k] = <<q, m>> /\ m <= made[q]
      BY DEF IInv, Numbered
    <3> QED  BY <1>2, <3>1, Lengths
  <2> QED  BY <2>1, Lengths DEF Range
<1>4. order \in Seq(Node) /\ n \in Nat
  BY Lengths DEF IInv, TypeOK
<1>5. /\ Len(order') = n + 1 /\ order'[n + 1] = node
      /\ \A k \in 1..n : order'[k] = order[k]
  BY <1>1, <1>2, <1>4
<1> HIDE DEF node
<1>6. \A k \in 1..(n + 1) : Before(order', k) = Before(order, k)
  <2> SUFFICES ASSUME NEW k \in 1..(n + 1) PROVE Before(order', k) = Before(order, k)
    OBVIOUS
  <2>1. k = 1 \/ k - 1 \in 1..n
    BY <1>4
  <2> QED  BY <1>5, <2>1 DEF Before
<1>7. head = Before(order, n + 1) /\ Before(order', n + 2) = node /\ head \in Node
  BY <1>4, <1>5, Lengths DEF IInv, Ends, Before
<1>8. /\ prevHead'[p] = head /\ \A q \in Producers : q # p => prevHead'[q] = prevHead[q]
  BY <1>1 DEF IInv, TypeOK
<1> HIDE DEF n
<1>9. next[head] = Null
  <2> SUFFICES ASSUME NEW k \in 1..n, head = Before(order, k) PROVE FALSE
    BY <1>7 DEF IInv, Chained, n
  <2>1. k \in 1..(Len(order) + 1) /\ n + 1 \in 1..(Len(order) + 1) /\ k # n + 1
    BY <1>4 DEF n
  <2> QED  BY <1>7, <2>1, BeforeInjective
<1>10. TypeOK'
  <2>1. made' \in [Producers -> 0..Elements]
    BY <1>1, <1>2, Lengths DEF IInv, TypeOK
  <2>2. prevHead' \in [Producers -> Node \cup {Null}]
    BY <1>1, <1>7 DEF IInv, TypeOK
  <2>3. order' \in Seq(Node)
    BY <1>1, <1>2, <1>4
  <2> QED  BY <1>1, <1>2, <2>1, <2>2, <2>3 DEF IInv, TypeOK
<1>11. Numbered'
  <2>1. IsInjective(order')
    BY <1>1, <1>2, <1>3, <1>4, InjectiveAppend DEF IInv, Numbered
  <2>2. ASSUME NEW k \in 1..(n + 1)
        PROVE  \E q \in Producers, m \in 1..Elements : order'[k] = <<q, m>> /\ m <= made'[q]
    <3>1. CASE k = n + 1
      BY <1>2, <1>5, <3>1 DEF node
    <3>2. CASE k # n + 1
      <4>1. k \in 1..n
        BY <1>4, <3>2
      <4>2. PICK q \in Producers, m \in 1..Elements : order[k] = <<q, m>> /\ m <= made[q]
        BY <4>1 DEF IInv, Numbered, n
      <4>3. m <= made'[q]
        BY <1>2, <4>2
      <4> QED  BY <1>5, <4>1, <4>2, <4>3
    <3> QED  BY <3>1, <3>2
  <2>3. ASSUME NEW i \in 1..(n + 1), NEW j \in 1..(n + 1), i < j, order'[i][1] = order'[j][1]
        PROVE  order'[i][2] < order'[j][2]
    <3>1. i \in 1..n /\ order'[i] = order[i]
      BY <1>4, <1>5, <2>3
    <3>2. CASE j = n + 1
      <4>1. order'[j][1] = p /\ order'[j][2] = made[p] + 1
        BY <1>5, <3>2 DEF node
      <4>2. order[i][2] <= made[p]
        BY <1>3, <2>3, <3>1, <4>1
      <4>3. order[i][2] \in Nat
        <5>1. PICK q \in Producers, m \in 1..Elements : order[i] = <<q, m>>
          BY <3>1 DEF IInv, Numbered, n
        <5> QED  BY <5>1, Lengths
      <4> QED  BY <1>2, <3>1, <4>1, <4>2, <4>3
    <3>3. CASE j # n + 1
      <4>1. j \in 1..n /\ order'[j] = order[j]
        BY <1>4, <1>5, <3>3
      <4> QED  BY <2>3, <3>1, <4>1 DEF IInv, Numbered, n
    <3> QED  BY <3>2, <3>3
  <2> QED  BY <1>5, <2>1, <2>2, <2>3 DEF Numbered
<1>12. Ends'
  <2>1. Len(got) \in Nat /\ Len(got) <= n
    BY Lengths DEF n
  <2>2. Len(got') <= Len(order') /\ \A k \in 1..Len(got') : got'[k] = order'[k]
    BY <1>1, <1>4, <1>5, <2>1 DEF IInv, Ends
  <2>3. head' = Before(order', Len(order') + 1)
    <3>1. Len(order') + 1 = n + 2
      BY <1>4, <1>5
    <3> QED  BY <1>1, <1>7, <3>1
  <2>4. tail' = Before(order', Len(got') + 1)
    <3>1. Len(got) + 1 \in 1..(n + 1)
      BY <1>4, <2>1
    <3> QED  BY <1>1, <1>6, <3>1 DEF IInv, Ends
  <2>5. freed' = {Before(order', k) : k \in 1..Len(got')}
    <3>1. \A k \in 1..Len(got) : k \in 1..(n + 1)
      BY <1>4, <2>1
    <3> QED  BY <1>1, <1>6, <3>1 DEF IInv, Ends
  <2> QED  BY <2>2, <2>3, <2>4, <2>5 DEF Ends
<1>13. Chained'
  <2>1. ASSUME NEW k \in 1..(n + 1)
        PROVE  next'[Before(order', k)] = order'[k] \/ \E q \in Producers : prevHead'[q] = Before(order', k)
    <3>1. CASE k = n + 1
      BY <1>6, <1>7, <1>8, <3>1
    <3>2. CASE k # n + 1
      <4>1. k \in 1..n /\ order'[k] = order[k] /\ Before(order', k) = Before(order, k)
        BY <1>4, <1>5, <1>6, <3>2
      <4>2. next[Before(order, k)] = order[k] \/ \E q \in Producers : prevHead[q] = Before(order, k)
        BY <4>1 DEF IInv, Chained, n
      <4>3. Before(order, k) # Null
        BY <4>1, Lengths DEF n
      <4> QED  BY <1>1, <1>8, <4>1, <4>2, <4>3
    <3> QED  BY <3>1, <3>2
  <2>2. ASSUME NEW m \in Node, next'[m] # Null
        PROVE  \E k \in 1..(n + 1) : m = Before(order', k) /\ next'[m] = order'[k]
    <3>1. PICK k \in 1..n : m = Before(order, k) /\ next[m] = order[k]
      BY <1>1, <2>2 DEF IInv, Chained, n
    <3>2. k \in 1..(n + 1)
      BY <1>4
    <3> QED  BY <1>1, <1>5, <1>6, <3>1, <3>2
  <2> QED  BY <1>5, <2>1, <2>2 DEF Chained
<1>14. Linking'
  <2> SUFFICES ASSUME NEW q \in Producers, prevHead'[q] # Null
               PROVE  /\ next'[prevHead'[q]] = Null
                      /\ \E k \in 1..(n + 1) :
                           k > Len(got') /\ order'[k] = <<q, made'[q]>> /\ prevHead'[q] = Before(order', k)
    BY <1>5 DEF Linking
  <2>1. CASE q = p
    <3>1. n + 1 \in 1..(n + 1) /\ n + 1 > Len(got)
      BY <1>4, Lengths DEF n
    <3>2. order'[n + 1] = <<p, made'[p]>> /\ prevHead'[p] = Before(order', n + 1)
      BY <1>2, <1>5, <1>6, <1>7, <1>8, <3>1 DEF node
    <3> QED  BY <1>1, <1>8, <1>9, <2>1, <3>1, <3>2
  <2>2. CASE q # p
    <3>1. prevHead[q] # Null /\ prevHead'[q] = prevHead[q] /\ made'[q] = made[q]
      BY <1>2, <1>8, <2>2
    <3>2. PICK k \in 1..n : k > Len(got) /\ order[k] = <<q, made[q]>> /\ prevHead[q] = Before(order, k)
      BY <3>1 DEF IInv, Linking, n
    <3>3. k \in 1..(n + 1)
      BY <1>4
    <3>4. next[prevHead[q]] = Null
      BY <3>1 DEF IInv, Linking
    <3> QED  BY <1>1, <1>5, <1>6, <3>1, <3>2, <3>3, <3>4
  <2> QED  BY <2>1, <2>2
<1> QED  BY <1>10, <1>11, <1>12, <1>13, <1>14 DEF IInv

\* The second step of Enqueue: nobody else links the same node.
LEMMA LinkKeeps ==
  ASSUME QueueAssumption, IInv, NEW p \in Producers, Link(p)
  PROVE  IInv'
<1>1. /\ prevHead[p] # Null
      /\ next' = [next EXCEPT ![prevHead[p]] = <<p, made[p]>>]
      /\ prevHead' = [prevHead EXCEPT ![p] = Null]
      /\ UNCHANGED <<head, tail, freed, made, order, got>>
  BY DEF Link
<1>2. PICK k \in 1..Len(order) :
        k > Len(got) /\ order[k] = <<p, made[p]>> /\ prevHead[p] = Before(order, k)
  BY <1>1 DEF IInv, Linking
<1>3. Before(order, k) \in Node /\ order[k] \in Node /\ k \in 1..(Len(order) + 1)
  BY Lengths
<1>4. next'[Before(order, k)] = order[k] /\ \A m \in Node : m # Before(order, k) => next'[m] = next[m]
  BY <1>1, <1>2, <1>3 DEF IInv, TypeOK
<1>5. prevHead'[p] = Null /\ \A q \in Producers : q # p => prevHead'[q] = prevHead[q]
  BY <1>1 DEF IInv, TypeOK
<1>6. \A j : Before(order', j) = Before(order, j)
  BY <1>1 DEF Before
<1>7. TypeOK'
  BY <1>1, <1>2, <1>3 DEF IInv, TypeOK
<1>8. Numbered' /\ Ends'
  <2>1. Numbered'
    BY <1>1 DEF IInv, Numbered
  <2>2. Ends'
    BY <1>1, <1>6 DEF IInv, Ends
  <2> QED  BY <2>1, <2>2
<1>9. Chained'
  <2>1. ASSUME NEW j \in 1..Len(order)
        PROVE  next'[Before(order, j)] = order[j] \/ \E q \in Producers : prevHead'[q] = Before(order, j)
    <3>1. CASE j = k
      BY <1>4, <3>1
    <3>2. CASE j # k
      <4>1. j \in 1..(Len(order) + 1) /\ Before(order, j) \in Node
        BY Lengths
      <4>2. Before(order, j) # Before(order, k)
        BY <1>3, <3>2, <4>1, BeforeInjective
      <4>3. next[Before(order, j)] = order[j] \/ \E q \in Producers : prevHead[q] = Before(order, j)
        BY DEF IInv, Chained
      <4>4. \A q \in Producers : prevHead[q] = Before(order, j) => q # p
        BY <1>2, <4>2
      <4> QED  BY <1>4, <1>5, <4>1, <4>2, <4>3, <4>4
    <3> QED  BY <3>1, <3>2
  <2>2. ASSUME NEW m \in Node, next'[m] # Null
        PROVE  \E j \in 1..Len(order) : m = Before(order, j) /\ next'[m] = order[j]
    <3>1. CASE m = Before(order, k)
      BY <1>4, <3>1
    <3>2. CASE m # Before(order, k)
      BY <1>4, <2>2, <3>2 DEF IInv, Chained
    <3> QED  BY <3>1, <3>2
  <2> QED  BY <1>1, <1>6, <2>1, <2>2 DEF Chained
<1>10. Linking'
  <2> SUFFICES ASSUME NEW q \in Producers, prevHead'[q] # Null
               PROVE  /\ next'[prevHead'[q]] = Null
                      /\ \E j \in 1..Len(order) :
                           j > Len(got) /\ order[j] = <<q, made[q]>> /\ prevHead'[q] = Before(order, j)
    BY <1>1, <1>6 DEF Linking
  <2>1. q # p /\ prevHead'[q] = prevHead[q] /\ prevHead[q] # Null
    BY <1>5
  <2>2. PICK j \in 1..Len(order) :
          j > Len(got) /\ order[j] = <<q, made[q]>> /\ prevHead[q] = Before(order, j)
    BY <2>1 DEF IInv, Linking
  <2>3. j # k /\ j \in 1..(Len(order) + 1) /\ Before(order, j) \in Node
    BY <1>2, <2>1, <2>2, Lengths
  <2>4. Before(order, j) # Before(order, k)
    BY <1>3, <2>3, BeforeInjective
  <2>5. next[prevHead[q]] = Null
    BY <2>1 DEF IInv, Linking
  <2> QED  BY <1>4, <2>1, <2>2, <2>3, <2>4, <2>5
<1> QED  BY <1>7, <1>8, <1>9, <1>10 DEF IInv

\* The consumer goes to the tail's successor, which nobody is about to link.
LEMMA DequeueKeeps ==
  ASSUME QueueAssumption, IInv, Dequeue
  PROVE  IInv'
<1> DEFINE n == Len(got)
<1>1. /\ next[tail] # Null /\ got' = Append(got, next[tail]) /\ tail' = next[tail]
      /\ freed' = freed \cup {tail}
      /\ UNCHANGED <<head, next, made, prevHead, order>>
  BY DEF Dequeue, DeleteTail
<1>2. n \in Nat /\ n <= Len(order) /\ Len(order) \in Nat
  BY Lengths
<1>3. n + 1 \in 1..(Len(order) + 1) /\ tail = Before(order, n + 1) /\ tail \in Node
  BY <1>2 DEF IInv, Ends, TypeOK
<1>4. n + 1 \in 1..Len(order) /\ next[tail] = order[n + 1]
  <2>1. PICK k \in 1..Len(order) : tail = Before(order, k) /\ next[tail] = order[k]
    BY <1>1, <1>3 DEF IInv, Chained
  <2>2. k \in 1..(Len(order) + 1)
    BY <1>2
  <2>3. k = n + 1
    BY <1>3, <2>1, <2>2, BeforeInjective
  <2> QED  BY <2>1, <2>3
<1>5. order[n + 1] \in Node
  BY <1>4, Lengths
<1>6. got \in Seq(Node)
  BY DEF IInv, TypeOK
<1>7. /\ Len(got') = n + 1 /\ got'[n + 1] = order[n + 1]
      /\ \A k \in 1..n : got'[k] = got[k]
  BY <1>1, <1>4, <1>5, <1>6
<1>8. \A j : Before(order', j) = Before(order, j)
  BY <1>1 DEF Before
<1>9. TypeOK'
  BY <1>1, <1>3, <1>4, <1>5, <1>6 DEF IInv, TypeOK
<1>10. Numbered' /\ Chained'
  <2>1. Numbered'
    BY <1>1 DEF IInv, Numbered
  <2>2. Chained'
    BY <1>1, <1>8 DEF IInv, Chained
  <2> QED  BY <2>1, <2>2
<1> HIDE DEF n
<1>11. Ends'
  <2>1. Len(got') <= Len(order') /\ \A k \in 1..Len(got') : got'[k] = order'[k]
    <3>1. ASSUME NEW k \in 1..(n + 1) PROVE got'[k] = order[k]
      <4>1. k = n + 1 \/ k \in 1..n
        BY <1>2
      <4> QED  BY <1>7, <4>1 DEF IInv, Ends, n
    <3>2. n + 1 <= Len(order)
      BY <1>2, <1>4
    <3> QED  BY <1>1, <1>7, <3>1, <3>2
  <2>2. head' = Before(order', Len(order') + 1)
    BY <1>1, <1>8 DEF IInv, Ends
  <2>3. tail' = Before(order', Len(got') + 1)
    <3>1. Before(order, n + 2) = order[n + 1]
      BY <1>2 DEF Before
    <3>2. Len(got') + 1 = n + 2
      BY <1>2, <1>7
    <3> QED  BY <1>1, <1>4, <1>8, <3>1, <3>2
  <2>4. freed' = {Before(order, k) : k \in 1..(n + 1)}
    <3>1. freed = {Before(order, k) : k \in 1..n}
      BY DEF IInv, Ends, n
    <3>2. \A k : k \in 1..(n + 1) <=> k \in 1..n \/ k = n + 1
      BY <1>2
    <3> QED  BY <1>1, <1>3, <3>1, <3>2
  <2> QED  BY <1>7, <1>8, <2>1, <2>2, <2>3, <2>4 DEF Ends
<1>12. Linking'
  <2> SUFFICES ASSUME NEW q \in Producers, prevHead[q] # Null
               PROVE  /\ next[prevHead[q]] = Null
                      /\ \E j \in 1..Len(order) :
                           j > n + 1 /\ order[j] = <<q, made[q]>> /\ prevHead[q] = Before(order, j)
    BY <1>1, <1>7, <1>8 DEF Linking
  <2>1. next[prevHead[q]] = Null
    BY DEF IInv, Linking
  <2>2. PICK j \in 1..Len(order) :
          j > n /\ order[j] = <<q, made[q]>> /\ prevHead[q] = Before(order, j)
    BY DEF IInv, Linking, n
  <2>3. j # n + 1
    BY <1>1, <1>3, <2>1, <2>2
  <2> QED  BY <1>2, <2>1, <2>2, <2>3
<1> QED  BY <1>9, <1>10, <1>11, <1>12 DEF IInv

-----------------------------------------------------------------------------
\* The list, from the stub to the head, is whole but for the links that some
\* producer is about to make.
THEOREM Invariant == ASSUME QueueAssumption PROVE Spec => []IInv
<1>1. IInv /\ [Next]_vars => IInv'
  <2> SUFFICES ASSUME IInv, [Next]_vars PROVE IInv'
    OBVIOUS
  <2>1. CASE UNCHANGED vars
    <3>1. TypeOK' /\ Numbered'
      BY <2>1 DEF vars, IInv, TypeOK, Numbered
    <3>2. Ends'
      BY <2>1 DEF vars, IInv, Ends
    <3>3. Chained' /\ Linking'
      BY <2>1 DEF vars, IInv, Chained, Linking
    <3> QED  BY <3>1, <3>2, <3>3 DEF IInv
  <2> QED  BY <2>1, EnqueueKeeps, LinkKeeps, DequeueKeeps DEF Next
<1> QED  BY <1>1, Initially, PTL DEF Spec

\* A queue, for any number of producers: elements come out in the order of the
\* exchanges, none twice and none skipped, no thread touches a deleted node, and
\* the consumer misses an element only behind a producer between its two steps.
THEOREM QueueIsSound == ASSUME QueueAssumption PROVE Spec => []QueueSound
<1>1. IInv => QueueSound
  <2> SUFFICES ASSUME IInv PROVE QueueSound
    OBVIOUS
  <2>1. InExchangeOrder
    <3>1. order \in Seq(Node) /\ got \in Seq(Node) /\ Len(got) \in Nat /\ Len(got) <= Len(order)
          /\ \A k \in 1..Len(got) : got[k] = order[k]
      BY Lengths DEF IInv, Ends, TypeOK
    <3>2. got = SubSeq(order, 1, Len(got))
      BY <3>1
    <3> QED  BY <3>1, <3>2 DEF IInv, Numbered, InExchangeOrder
  <2>2. NoUseAfterFree
    <3>1. \A k \in (Len(got) + 1)..(Len(order) + 1) : Before(order, k) \notin freed
      <4> SUFFICES ASSUME NEW k \in (Len(got) + 1)..(Len(order) + 1), NEW j \in 1..Len(got),
                          Before(order, k) = Before(order, j)
                   PROVE  FALSE
        BY DEF IInv, Ends
      <4>1. k \in 1..(Len(order) + 1) /\ j \in 1..(Len(order) + 1) /\ k # j
        BY Lengths
      <4> QED  BY <4>1, BeforeInjective
    <3>2. head \notin freed /\ tail \notin freed
      <4>1. Len(got) + 1 \in (Len(got) + 1)..(Len(order) + 1)
            /\ Len(order) + 1 \in (Len(got) + 1)..(Len(order) + 1)
        BY Lengths
      <4> QED  BY <3>1, <4>1 DEF IInv, Ends
    <3>3. ASSUME NEW p \in Producers PROVE prevHead[p] \notin freed
      <4>1. CASE prevHead[p] = Null
        BY <4>1, Lengths DEF IInv, TypeOK
      <4>2. CASE prevHead[p] # Null
        <5>1. PICK k \in 1..Len(order) : k > Len(got) /\ prevHead[p] = Before(order, k)
          BY <4>2 DEF IInv, Linking
        <5>2. k \in (Len(got) + 1)..(Len(order) + 1)
          BY <5>1, Lengths
        <5> QED  BY <3>1, <5>1, <5>2
      <4> QED  BY <4>1, <4>2
    <3> QED  BY <3>2, <3>3 DEF NoUseAfterFree
  <2>3. HiddenOnlyBriefly
    <3> SUFFICES ASSUME next[tail] = Null, got # order
                 PROVE  \E p \in Producers : prevHead[p] = tail
      BY DEF HiddenOnlyBriefly
    <3>1. Len(got) # Len(order)
      <4>1. /\ got \in Seq(Node) /\ order \in Seq(Node)
            /\ \A k \in 1..Len(got) : got[k] = order[k]
        BY DEF IInv, Ends, TypeOK
      <4> QED  BY <4>1
    <3>2. Len(got) + 1 \in 1..Len(order) /\ tail = Before(order, Len(got) + 1)
      BY <3>1, Lengths DEF IInv, Ends
    <3>3. order[Len(got) + 1] # Null
      BY <3>2, Lengths
    <3> QED  BY <3>2, <3>3 DEF IInv, Chained
  <2> QED  BY <2>1, <2>2, <2>3 DEF QueueSound
<1> QED  BY <1>1, Invariant, PTL
=============================================================================
