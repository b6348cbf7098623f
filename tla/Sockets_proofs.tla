---------------------------- MODULE Sockets_proofs ----------------------------
(* What the sockets of a network thread promise, for any number of them, any
   packets and any size of the buffers: what is sent arrives in order as far as
   it arrives, nobody uses a session that is gone, and sockets are counted.  The
   first parts are about bytes, packing and writing, without the program around
   them; then come the steps of the program.                                  *)
EXTENDS Services, DataFacts, SequenceTheorems, TLAPS

-----------------------------------------------------------------------------
(* Buffers in a row. *)

\* h gives what the first buffers of ss make together.
IsFlat(h, ss) == h[0] = <<>> /\ \A i \in 1..Len(ss) : h[i] = h[i - 1] \o ss[i]

\* What all of them make.
LEMMA FlatIs ==
  ASSUME NEW V, NEW ss \in Seq(Seq(V)), NEW h, IsFlat(h, ss)
  PROVE  Socket!FlattenSeq(ss) = h[Len(ss)]
<1> DEFINE n == Len(ss)
           flatten[i \in 1..n] == IF i = 1 THEN ss[i] ELSE flatten[i - 1] \o ss[i]
           g == [i \in 1..n |-> h[i]]
<1>0. n \in Nat /\ \A i \in 1..n : ss[i] \in Seq(V)
  OBVIOUS
<1>3. h[0] = <<>> /\ \A i \in 1..n : h[i] = h[i - 1] \o ss[i]
  BY Zenon DEF IsFlat
<1>1. CASE n = 0
  <2>1. ss = <<>>
    BY <1>1
  <2> QED BY <1>1, <2>1 DEF Socket!FlattenSeq, IsFlat
<1>2. CASE n # 0
  <2>1. Socket!FlattenSeq(ss) = flatten[n]
    BY <1>2 DEF Socket!FlattenSeq
  <2>2. h[1] = ss[1]
    <3>1. 1 \in 1..n /\ h[0] = <<>> /\ h[1] = h[0] \o ss[1]
      <4> HIDE DEF n, flatten, g
      <4>1. 1 \in 1..n /\ 1 - 1 = 0
        BY <1>0, <1>2
      <4>2. h[1] = h[1 - 1] \o ss[1]
        BY <1>3, <4>1
      <4> QED BY <1>3, <4>1, <4>2
    <3> QED BY <1>0, <3>1, ConcatEmptySeq
  <2>3. g = [i \in 1..n |-> IF i = 1 THEN ss[i] ELSE g[i - 1] \o ss[i]]
    <3>1. \A i \in 1..n : g[i] = h[i]
      OBVIOUS
    <3>2. g = [i \in 1..n |-> g[i]]
      OBVIOUS
    <3> HIDE DEF g, flatten, n
    <3>3. ASSUME NEW i \in 1..n PROVE g[i] = IF i = 1 THEN ss[i] ELSE g[i - 1] \o ss[i]
      <4>1. CASE i = 1
        BY <2>2, <3>1, <4>1
      <4>2. CASE i # 1
        <5>1. i - 1 \in 1..n
          BY <1>0, <4>2
        <5>2. h[i] = h[i - 1] \o ss[i] /\ g[i] = h[i] /\ g[i - 1] = h[i - 1]
          BY <1>3, <3>1, <5>1, Zenon
        <5> QED BY <4>2, <5>2, Zenon
      <4> QED BY <4>1, <4>2
    <3> QED BY <3>2, <3>3
  <2>4. flatten = [i \in 1..n |-> IF i = 1 THEN ss[i] ELSE flatten[i - 1] \o ss[i]]
    BY <2>3
  <2> HIDE DEF flatten, g
  <2> DEFINE T == {m \in Nat : m + 1 <= n => flatten[m + 1] = h[m + 1]}
  <2>5. 0 \in T
    <3>1. 1 \in 1..n
      BY <1>0, <1>2
    <3> QED BY <2>2, <2>4, <3>1
  <2>6. ASSUME NEW m \in T PROVE m + 1 \in T
    <3> SUFFICES ASSUME (m + 1) + 1 <= n PROVE flatten[(m + 1) + 1] = h[(m + 1) + 1]
      OBVIOUS
    <3> DEFINE k == (m + 1) + 1
    <3>1. k \in 1..n /\ k # 1 /\ k - 1 = m + 1 /\ m + 1 <= n
      BY <1>0
    <3>2. flatten[k] = flatten[k - 1] \o ss[k]
      BY <2>4, <3>1
    <3>3. h[k] = h[k - 1] \o ss[k]
      BY <1>3, <3>1
    <3>4. flatten[k - 1] = h[k - 1]
      BY <3>1
    <3> QED BY <3>2, <3>3, <3>4
  <2> HIDE DEF T
  <2>7. T = Nat
    <3>1. T \in SUBSET Nat
      BY DEF T
    <3> QED BY <2>5, <2>6, <3>1, SetInduction
  <2>8. n - 1 \in T /\ (n - 1) + 1 = n
    BY <1>0, <1>2, <2>7
  <2>9. flatten[n] = h[n]
    BY <1>0, <2>8 DEF T
  <2> QED BY <2>1, <2>9
<1> QED BY <1>1, <1>2

\* The parts exist.
LEMMA FlatExists ==
  ASSUME NEW V, NEW ss \in Seq(Seq(V))
  PROVE  \E h \in [0..Len(ss) -> Seq(V)] : IsFlat(h, ss) /\ Socket!FlattenSeq(ss) = h[Len(ss)]
<1> DEFINE n == Len(ss)
           W == Seq(V)
           step == [p \in (1..n) \X W |-> p[2] \o ss[p[1]]]
<1>1. n \in Nat /\ <<>> \in W /\ \A i \in 1..n : ss[i] \in W
  OBVIOUS
<1>2. \A i \in 1..n, w \in W : step[<<i, w>>] = w \o ss[i] /\ step[<<i, w>>] \in W
  BY <1>1, ConcatProperties
<1>3. step \in [(1..n) \X W -> W]
  BY <1>1, ConcatProperties
<1> HIDE DEF step
<1>4. PICK h \in [0..n -> W] : IsRun(h, n, <<>>, step)
  <2> HIDE DEF W, n
  <2> QED BY <1>1, <1>3, RunExists
<1>5. IsFlat(h, ss)
  <2>1. \A i \in 1..n : i - 1 \in 0..n
    BY <1>1
  <2> QED BY <1>2, <1>4, <2>1 DEF IsRun, IsFlat
<1>6. Socket!FlattenSeq(ss) = h[n]
  BY <1>5, FlatIs
<1> QED BY <1>4, <1>5, <1>6

\* A buffer more, and none.
LEMMA FlatAppend ==
  ASSUME NEW V, NEW ss \in Seq(Seq(V)), NEW x \in Seq(V)
  PROVE  /\ Socket!FlattenSeq(ss) \in Seq(V) /\ Append(ss, x) \in Seq(Seq(V))
         /\ Socket!FlattenSeq(Append(ss, x)) = Socket!FlattenSeq(ss) \o x
<1> DEFINE n == Len(ss)
           tt == Append(ss, x)
<1>1. n \in Nat /\ tt \in Seq(Seq(V)) /\ Len(tt) = n + 1 /\ tt[n + 1] = x /\ \A i \in 1..n : tt[i] = ss[i]
  OBVIOUS
<1>2. PICK h \in [0..Len(tt) -> Seq(V)] : IsFlat(h, tt) /\ Socket!FlattenSeq(tt) = h[Len(tt)]
  <2> HIDE DEF tt
  <2> QED BY <1>1, FlatExists
<1> HIDE DEF tt
<1>8. h[0] = <<>> /\ \A i \in 1..Len(tt) : h[i] = h[i - 1] \o tt[i]
  BY <1>2, Zenon DEF IsFlat
<1>3. \A i \in 1..n : h[i] = h[i - 1] \o ss[i]
  <2>1. \A i \in 1..n : i \in 1..Len(tt) /\ tt[i] = ss[i]
    BY <1>1
  <2> QED BY <1>8, <2>1, Zenon
<1>4. IsFlat(h, ss)
  BY <1>3, <1>8 DEF IsFlat
<1>5. Socket!FlattenSeq(ss) = h[n]
  BY <1>4, FlatIs
<1>6. n \in 0..Len(tt) /\ n + 1 \in 1..Len(tt) /\ (n + 1) - 1 = n
  BY <1>1
<1>7. h[n + 1] = h[n] \o x /\ h[n] \in Seq(V)
  BY <1>1, <1>2, <1>6, <1>8
<1> QED BY <1>1, <1>2, <1>5, <1>7 DEF tt

\* No buffers make nothing.
LEMMA FlatEmpty == Socket!FlattenSeq(<<>>) = <<>>
BY DEF Socket!FlattenSeq

\* The first buffer, and then the others.
LEMMA FlatHead ==
  ASSUME NEW V, NEW ss \in Seq(Seq(V)), ss # <<>>
  PROVE  /\ Head(ss) \in Seq(V) /\ Tail(ss) \in Seq(Seq(V)) /\ Socket!FlattenSeq(Tail(ss)) \in Seq(V)
         /\ Socket!FlattenSeq(ss) = Head(ss) \o Socket!FlattenSeq(Tail(ss))
<1> DEFINE n == Len(ss)
           first == Head(ss)
           tt == Tail(ss)
<1>1. /\ n \in Nat /\ n >= 1 /\ first \in Seq(V) /\ first = ss[1] /\ tt \in Seq(Seq(V)) /\ Len(tt) = n - 1
      /\ \A i \in 1..(n - 1) : tt[i] = ss[i + 1]
  BY HeadTailProperties
<1>2. PICK h \in [0..n -> Seq(V)] : IsFlat(h, ss) /\ Socket!FlattenSeq(ss) = h[n]
  BY FlatExists
<1>3. PICK g \in [0..(n - 1) -> Seq(V)] : IsFlat(g, tt) /\ Socket!FlattenSeq(tt) = g[n - 1]
  <2> HIDE DEF tt
  <2>1. PICK g \in [0..Len(tt) -> Seq(V)] : IsFlat(g, tt) /\ Socket!FlattenSeq(tt) = g[Len(tt)]
    BY <1>1, FlatExists
  <2>2. Len(tt) = n - 1
    BY <1>1
  <2> QED BY <2>1, <2>2
<1>9. h[0] = <<>> /\ \A i \in 1..n : h[i] = h[i - 1] \o ss[i]
  BY <1>2, Zenon DEF IsFlat
<1>10. g[0] = <<>> /\ \A i \in 1..Len(tt) : g[i] = g[i - 1] \o tt[i]
  BY <1>3, Zenon DEF IsFlat
<1> HIDE DEF tt, n, first
<1> DEFINE T == {m \in Nat : m <= n - 1 => h[m + 1] = first \o g[m]}
<1>4. 0 \in T
  <2>1. 1 \in 1..n /\ 1 - 1 = 0
    BY <1>1
  <2>2. h[1] = h[0] \o ss[1]
    BY <1>9, <2>1
  <2>3. <<>> \o first = first /\ first \o <<>> = first
    <3>1. first \in Seq(V)
      BY <1>1
    <3> QED BY ONLY <3>1, ConcatEmptySeq
  <2>6. 0 + 1 = 1
    OBVIOUS
  <2>4. h[1] = first /\ g[0] = <<>> /\ 0 + 1 = 1
    BY <1>1, <1>9, <1>10, <2>2, <2>3, <2>6, Zenon
  <2>5. h[0 + 1] = first \o g[0]
    BY <2>3, <2>4, Zenon
  <2> QED BY <2>5
<1>5. ASSUME NEW m \in T PROVE m + 1 \in T
  <2> SUFFICES ASSUME m + 1 <= n - 1 PROVE h[(m + 1) + 1] = first \o g[m + 1]
    OBVIOUS
  <2>1. /\ m \in Nat /\ m \in 0..(n - 1) /\ m + 1 \in 1..(n - 1) /\ (m + 1) - 1 = m
        /\ (m + 1) + 1 \in 1..n /\ ((m + 1) + 1) - 1 = m + 1
    BY <1>1
  <2>2. h[(m + 1) + 1] = h[m + 1] \o ss[(m + 1) + 1]
    BY <1>9, <2>1, Zenon
  <2>3. g[m + 1] = g[m] \o tt[m + 1] /\ tt[m + 1] = ss[(m + 1) + 1] /\ tt[m + 1] \in Seq(V)
    <3>1. m + 1 \in 1..Len(tt) /\ tt[m + 1] = ss[(m + 1) + 1] /\ tt[m + 1] \in Seq(V)
      BY <1>1, <2>1
    <3>2. g[m + 1] = g[m] \o tt[m + 1]
      BY <1>10, <2>1, <3>1, Zenon
    <3> QED BY <3>1, <3>2, Zenon
  <2>4. h[m + 1] = first \o g[m] /\ g[m] \in Seq(V)
    <3>1. m <= n - 1 /\ m \in T
      BY <2>1
    <3>2. h[m + 1] = first \o g[m]
      BY <3>1
    <3>3. g[m] \in Seq(V)
      BY <1>3, <2>1
    <3> QED BY <3>2, <3>3, Zenon
  <2>5. (first \o g[m]) \o tt[m + 1] = first \o (g[m] \o tt[m + 1])
    <3>1. first \in Seq(V)
      BY <1>1
    <3>2. g[m] \in Seq(V) /\ tt[m + 1] \in Seq(V)
      BY <2>3, <2>4, Zenon
    <3> DEFINE a == g[m]
               b == tt[m + 1]
    <3>3. a \in Seq(V) /\ b \in Seq(V)
      BY <3>2
    <3> HIDE DEF a, b, T
    <3>4. (first \o a) \o b = first \o (a \o b)
      BY ONLY <3>1, <3>3, ConcatAssociative, SMT
    <3> QED BY <3>4 DEF a, b
  <2> QED BY <2>2, <2>3, <2>4, <2>5, Zenon
<1> HIDE DEF T
<1>6. T = Nat
  <2>1. T \in SUBSET Nat
    BY DEF T
  <2> QED BY <1>4, <1>5, <2>1, SetInduction
<1>7. n - 1 \in T /\ n - 1 \in 0..(n - 1) /\ (n - 1) + 1 = n
  BY <1>1, <1>6
<1>8. h[n] = first \o g[n - 1] /\ g[n - 1] \in Seq(V)
  BY <1>7 DEF T
<1> QED BY <1>1, <1>2, <1>3, <1>8 DEF tt, first

-----------------------------------------------------------------------------
(* Bytes. *)

Packet == [n : Nat, size : Nat]

BytesOf(p) == [b \in 1..p.size |-> p.n]
PartsOf(ps) == [j \in 1..Len(ps) |-> BytesOf(ps[j])]

\* What the bytes of packets are made of.
LEMMA BytesParts ==
  ASSUME NEW ps \in Seq(Packet)
  PROVE  /\ PartsOf(ps) \in Seq(Seq(Nat)) /\ Len(PartsOf(ps)) = Len(ps)
         /\ Socket!Bytes(ps) = Socket!FlattenSeq(PartsOf(ps))
<1>1. \A p \in Packet : BytesOf(p) \in Seq(Nat)
  BY DEF Packet, BytesOf
<1>2. Len(ps) \in Nat /\ \A j \in 1..Len(ps) : ps[j] \in Packet
  OBVIOUS
<1>3. PartsOf(ps) \in Seq(Seq(Nat)) /\ Len(PartsOf(ps)) = Len(ps)
  <2>1. \A j \in 1..Len(ps) : BytesOf(ps[j]) \in Seq(Nat)
    BY <1>1, <1>2
  <2> QED BY <1>2, <2>1 DEF PartsOf
<1>4. Socket!Bytes(ps) = Socket!FlattenSeq(PartsOf(ps))
  BY DEF Socket!Bytes, PartsOf, BytesOf
<1> QED BY <1>3, <1>4

\* No packets have no bytes.
LEMMA BytesEmpty == Socket!Bytes(<<>>) = <<>>
<1>1. <<>> \in Seq(Packet)
  OBVIOUS
<1>2. PartsOf(<<>>) = <<>>
  BY DEF PartsOf
<1> QED BY <1>1, <1>2, BytesParts, FlatEmpty

\* A packet more adds its bytes behind the others.
LEMMA BytesAppend ==
  ASSUME NEW ps \in Seq(Packet), NEW p \in Packet
  PROVE  /\ Socket!Bytes(ps) \in Seq(Nat) /\ BytesOf(p) \in Seq(Nat)
         /\ Socket!Bytes(Append(ps, p)) = Socket!Bytes(ps) \o BytesOf(p)
<1>1. BytesOf(p) \in Seq(Nat) /\ Append(ps, p) \in Seq(Packet)
  BY DEF Packet, BytesOf
<1>2. PartsOf(Append(ps, p)) = Append(PartsOf(ps), BytesOf(p))
  BY DEF PartsOf
<1>3. PartsOf(ps) \in Seq(Seq(Nat))
  BY BytesParts
<1>4. /\ Socket!FlattenSeq(PartsOf(ps)) \in Seq(Nat)
      /\ Socket!FlattenSeq(Append(PartsOf(ps), BytesOf(p))) = Socket!FlattenSeq(PartsOf(ps)) \o BytesOf(p)
  BY <1>1, <1>3, FlatAppend
<1>5. /\ Socket!Bytes(ps) = Socket!FlattenSeq(PartsOf(ps))
      /\ Socket!Bytes(Append(ps, p)) = Socket!FlattenSeq(PartsOf(Append(ps, p)))
  BY <1>1, BytesParts
<1> QED BY <1>1, <1>2, <1>4, <1>5, Zenon

\* The bytes of packets are numbers of packets.
LEMMA BytesType == \A ps \in Seq(Packet) : Socket!Bytes(ps) \in Seq(Nat)
<1>1. [n |-> 0, size |-> 0] \in Packet
  BY DEF Packet
<1> QED BY <1>1, BytesAppend

\* The bytes of one packet.
LEMMA BytesOne ==
  ASSUME NEW p \in Packet
  PROVE  Socket!Bytes(<<p>>) = BytesOf(p)
<1>1. <<>> \in Seq(Packet) /\ Append(<<>>, p) = <<p>>
  OBVIOUS
<1>2. BytesOf(p) \in Seq(Nat) /\ Socket!Bytes(Append(<<>>, p)) = Socket!Bytes(<<>>) \o BytesOf(p)
  BY <1>1, BytesAppend
<1>3. Socket!Bytes(<<p>>) = <<>> \o BytesOf(p)
  BY <1>1, <1>2, BytesEmpty
<1> HIDE DEF Socket!Bytes, BytesOf
<1> QED BY <1>2, <1>3, ConcatEmptySeq

\* What bytes follow does not change a prefix.
LEMMA PrefixGrows ==
  ASSUME NEW a \in Seq(Nat), NEW b \in Seq(Nat), NEW c \in Seq(Nat), Socket!IsPrefix(a, b)
  PROVE  Socket!IsPrefix(a, b \o c)
<1>1. Len(a) \in Nat /\ Len(b) \in Nat /\ Len(a) <= Len(b)
  BY DEF Socket!IsPrefix
<1>2. \A i \in 1..Len(a) : (b \o c)[i] = b[i]
  BY <1>1
<1>3. Len(a) <= Len(b \o c)
  BY <1>1
<1>4. SubSeq(b \o c, 1, Len(a)) = SubSeq(b, 1, Len(a))
  <2>1. CASE Len(a) = 0
    BY <1>1, <2>1, SubSeqEmpty
  <2>2. CASE Len(a) # 0
    <3>1. Len(a) \in 1..Len(b) /\ 1 \in 1..Len(b)
      BY <1>1, <2>2
    <3> QED BY ONLY <3>1, b \in Seq(Nat), c \in Seq(Nat), SubSeqOfConcat1
  <2> QED BY <2>1, <2>2
<1> QED BY <1>3, <1>4 DEF Socket!IsPrefix

\* The first of two is a prefix of both.
LEMMA PrefixOfBoth ==
  ASSUME NEW a \in Seq(Nat), NEW b \in Seq(Nat)
  PROVE  Socket!IsPrefix(a, a \o b)
<1>1. Socket!IsPrefix(a, a)
  BY DEF Socket!IsPrefix
<1> QED BY <1>1, PrefixGrows

-----------------------------------------------------------------------------
(* Packing. *)

\* The largest number of a set is one of them.
LEMMA MaxIsThere ==
  ASSUME NEW n \in Nat
  PROVE  \A U \in SUBSET (1..n) : U # {} => Socket!Max(U) \in U /\ \A y \in U : Socket!Max(U) >= y
BY LargestExists DEF Socket!Max

Holder == [queue : Seq(Seq(Nat)), buffer : Seq(Nat)]

\* h gives what has been packed after the first packets.
IsPacking(h, holder, ps) == h[0] = holder /\ \A i \in 1..Len(ps) : h[i] = Socket!Pack(h[i - 1], ps[i])

\* The library's fold packs one after another.
LEMMA PackingIs ==
  ASSUME NEW holder \in Holder, NEW ps \in Seq(Packet),
         \A a \in Holder, p \in Packet : Socket!Pack(a, p) \in Holder
  PROVE  \E h \in [0..Len(ps) -> Holder] :
           IsPacking(h, holder, ps) /\ Socket!FoldLeft(Socket!Pack, holder, ps) = h[Len(ps)]
<1> DEFINE n == Len(ps)
           S == 1..n
           step == [e \in S \X Holder |-> Socket!Pack(e[2], ps[e[1]])]
           pick == [U \in SUBSET S |-> Socket!Max(U)]
<1>0. n \in Nat /\ DOMAIN ps = S /\ \A i \in S : ps[i] \in Packet
  OBVIOUS
<1>1. /\ step \in [S \X Holder -> Holder]
      /\ \A i \in S, a \in Holder : step[<<i, a>>] = Socket!Pack(a, ps[i])
  BY <1>0
<1>2. \A U \in SUBSET S : U # {} => pick[U] = Socket!Max(U) /\ pick[U] \in U /\ \A y \in U : pick[U] >= y
  BY <1>0, MaxIsThere
<1>3. IsFiniteSet(S)
  BY <1>0, FS_Interval
<1> HIDE DEF step, pick
<1>4. PICK g \in [SUBSET S -> Holder] : IsFold(g, SUBSET S, holder, step, pick)
  <2> HIDE DEF S
  <2> QED BY <1>1, <1>2, <1>3, FoldExists
<1>5. ASSUME NEW U \in SUBSET S, U # {}
      PROVE  g[U] = Socket!Pack(g[U \ {Socket!Max(U)}], ps[Socket!Max(U)])
  <2>1. pick[U] = Socket!Max(U) /\ pick[U] \in S /\ g[U \ {pick[U]}] \in Holder
    BY <1>2, <1>5
  <2>2. g[U] = step[<<pick[U], g[U \ {pick[U]}]>>]
    BY <1>4, <1>5 DEF IsFold
  <2> QED BY <1>1, <2>1, <2>2
<1> DEFINE iter[s \in SUBSET DOMAIN ps] ==
             IF s = {} THEN holder ELSE LET x == Socket!Max(s) IN Socket!Pack(iter[s \ {x}], ps[x])
<1>6. Socket!FoldLeft(Socket!Pack, holder, ps) = iter[DOMAIN ps]
  BY DEF Socket!FoldLeft, Socket!MapThenFoldSet
<1>7. \A U \in SUBSET S : iter[U] = IF U = {} THEN holder ELSE Socket!Pack(iter[U \ {Socket!Max(U)}], ps[Socket!Max(U)])
  <2> DEFINE body(f, U) == IF U = {} THEN holder ELSE Socket!Pack(f[U \ {Socket!Max(U)}], ps[Socket!Max(U)])
  <2>1. g = [U \in SUBSET DOMAIN ps |->
              IF U = {} THEN holder ELSE LET x == Socket!Max(U) IN Socket!Pack(g[U \ {x}], ps[x])]
    <3>1. \A U \in SUBSET S : g[U] = body(g, U)
      BY <1>4, <1>5 DEF IsFold
    <3>2. g = [U \in SUBSET S |-> g[U]]
      OBVIOUS
    <3> QED BY <1>0, <3>1, <3>2
  <2>2. iter = [U \in SUBSET DOMAIN ps |->
              IF U = {} THEN holder ELSE LET x == Socket!Max(U) IN Socket!Pack(iter[U \ {x}], ps[x])]
    BY <2>1
  <2> HIDE DEF iter
  <2> QED BY <1>0, <2>2
<1> HIDE DEF iter
<1> DEFINE h == [i \in 0..n |-> iter[1..i]]
<1>8. ASSUME NEW i \in S PROVE h[i] = Socket!Pack(h[i - 1], ps[i])
  <2>1. 1..i \in SUBSET S /\ 1..i # {} /\ i \in Nat /\ i >= 1 /\ i - 1 \in 0..n /\ i \in 0..n
    <3> HIDE DEF h
    <3>1. i \in Nat /\ i >= 1 /\ i - 1 \in 0..n /\ i \in 0..n /\ i \in 1..i /\ \A y \in 1..i : y \in S
      BY <1>0
    <3> QED BY <3>1
  <2>2. Socket!Max(1..i) \in 1..i /\ \A y \in 1..i : Socket!Max(1..i) >= y
    BY <2>1, MaxIsThere
  <2>3. Socket!Max(1..i) = i /\ (1..i) \ {i} = 1..(i - 1)
    BY <2>1, <2>2
  <2>4. iter[1..i] = Socket!Pack(iter[(1..i) \ {Socket!Max(1..i)}], ps[Socket!Max(1..i)])
    BY <1>7, <2>1
  <2>5. h[i] = iter[1..i] /\ h[i - 1] = iter[1..(i - 1)]
    BY <2>1
  <2> QED BY <2>3, <2>4, <2>5
<1>9. h[0] = holder /\ h[n] = iter[DOMAIN ps]
  <2>1. 0 \in 0..n /\ n \in 0..n /\ 1..0 = {} /\ {} \in SUBSET S /\ DOMAIN ps = 1..n
    BY <1>0
  <2>2. iter[{}] = holder
    BY <1>7, <2>1
  <2> QED BY <2>1, <2>2
<1> HIDE DEF h
<1>10. h \in [0..n -> Holder]
  <2> DEFINE Q == {m \in Nat : m <= n => h[m] \in Holder}
  <2>1. 0 \in Q
    BY <1>9
  <2>2. ASSUME NEW m \in Q PROVE m + 1 \in Q
    <3> SUFFICES ASSUME m + 1 <= n PROVE h[m + 1] \in Holder
      OBVIOUS
    <3>1. m + 1 \in S /\ (m + 1) - 1 = m /\ h[m] \in Holder
      BY <1>0
    <3>2. h[m + 1] = Socket!Pack(h[m], ps[m + 1])
      BY <1>8, <3>1
    <3> QED BY <1>0, <3>1, <3>2
  <2> HIDE DEF Q
  <2>3. Q = Nat
    <3>1. Q \in SUBSET Nat
      BY DEF Q
    <3> QED BY <2>1, <2>2, <3>1, SetInduction
  <2>4. \A m \in 0..n : h[m] \in Holder
    BY <1>0, <2>3 DEF Q
  <2>5. h = [i \in 0..n |-> h[i]]
    BY DEF h
  <2> QED BY <2>4, <2>5
<1>11. IsPacking(h, holder, ps)
  BY <1>8, <1>9 DEF IsPacking
<1> QED BY <1>6, <1>9, <1>10, <1>11

\* All that has been packed, in a row.
Carried(a) == Socket!FlattenSeq(a.queue) \o a.buffer

\* No buffer is empty.
Filled(q) == \A i \in 1..Len(q) : q[i] # <<>>

\* A packet that fits in a buffer.
Fitting(p) == p.size \in 1..BufferSize

\* Packing one packet adds its bytes behind all others.
LEMMA PackHolds ==
  ASSUME NEW a \in Holder, NEW p \in Packet
  PROVE  /\ Socket!Pack(a, p) \in Holder
         /\ Carried(Socket!Pack(a, p)) = Carried(a) \o BytesOf(p)
         /\ Filled(a.queue) /\ Fitting(p) => Filled(Socket!Pack(a, p).queue)
<1> DEFINE bytes == BytesOf(p)
           b == a.buffer
           q == a.queue
           flat == Socket!FlattenSeq(q)
<1>0. /\ bytes \in Seq(Nat) /\ Socket!Bytes(<<p>>) = bytes /\ p.size \in Nat /\ BufferSize \in Nat
      /\ b \in Seq(Nat) /\ q \in Seq(Seq(Nat)) /\ Len(b) \in Nat /\ a = [queue |-> q, buffer |-> b]
  <2>1. BytesOf(p) \in Seq(Nat) /\ p.size \in Nat
    BY DEF Packet, BytesOf
  <2>2. Socket!Bytes(<<p>>) = BytesOf(p)
    BY BytesOne
  <2>3. BufferSize \in Nat
    BY SocketsAssumption DEF Socket!SocketAssumption
  <2>4. b \in Seq(Nat) /\ q \in Seq(Seq(Nat)) /\ Len(b) \in Nat /\ a = [queue |-> q, buffer |-> b]
    BY DEF Holder
  <2> QED BY <2>1, <2>2, <2>3, <2>4
<1>1. flat \in Seq(Nat) /\ <<>> \in Seq(Nat) /\ Carried(a) = flat \o b
  BY <1>0, FlatAppend DEF Carried
<1> HIDE DEF bytes, b, q, flat
<1>2. ASSUME NEW x \in Seq(Nat), NEW y \in Seq(Nat)
      PROVE  /\ [queue |-> Append(q, x), buffer |-> y] \in Holder
             /\ Carried([queue |-> Append(q, x), buffer |-> y]) = (flat \o x) \o y
             /\ Filled(q) /\ x # <<>> => Filled(Append(q, x))
  <2>1. Append(q, x) \in Seq(Seq(Nat)) /\ Socket!FlattenSeq(Append(q, x)) = flat \o x
    BY <1>0, FlatAppend DEF flat
  <2>2. Filled(q) /\ x # <<>> => Filled(Append(q, x))
    <3>1. /\ Len(q) \in Nat /\ Len(Append(q, x)) = Len(q) + 1 /\ Append(q, x)[Len(q) + 1] = x
          /\ \A i \in 1..Len(q) : Append(q, x)[i] = q[i]
      BY <1>0
    <3> QED BY <3>1 DEF Filled
  <2> QED BY <2>1, <2>2 DEF Holder, Carried
<1>3. ASSUME p.size > BufferSize
      PROVE  /\ Socket!Pack(a, p) \in Holder
             /\ Carried(Socket!Pack(a, p)) = Carried(a) \o bytes
  <2>1. Socket!Pack(a, p) = [queue |-> Append(Append(q, b), bytes), buffer |-> <<>>]
    <3>1. Len(b) + p.size > BufferSize
      BY <1>0, <1>3
    <3>2. a.queue = q /\ a.buffer = b
      BY DEF q, b
    <3> QED BY <1>0, <1>3, <3>1, <3>2 DEF Socket!Pack
  <2>2. /\ Append(q, b) \in Seq(Seq(Nat)) /\ Socket!FlattenSeq(Append(q, b)) = flat \o b
        /\ flat \o b \in Seq(Nat)
    BY <1>0, <1>1, FlatAppend, ConcatProperties DEF flat
  <2>3. /\ Append(Append(q, b), bytes) \in Seq(Seq(Nat))
        /\ Socket!FlattenSeq(Append(Append(q, b), bytes)) = (flat \o b) \o bytes
    <3> DEFINE r == Append(q, b)
    <3>1. r \in Seq(Seq(Nat)) /\ Socket!FlattenSeq(r) = flat \o b
      BY <2>2
    <3> HIDE DEF r
    <3>2. Append(r, bytes) \in Seq(Seq(Nat)) /\ Socket!FlattenSeq(Append(r, bytes)) = Socket!FlattenSeq(r) \o bytes
      BY <1>0, <3>1, FlatAppend
    <3>3. Append(r, bytes) \in Seq(Seq(Nat)) /\ Socket!FlattenSeq(Append(r, bytes)) = (flat \o b) \o bytes
      BY <3>1, <3>2, Zenon
    <3> QED BY <3>3 DEF r
  <2>4. ((flat \o b) \o bytes) \o <<>> = (flat \o b) \o bytes
    <3> DEFINE c == (flat \o b) \o bytes
    <3>1. c \in Seq(Nat)
      BY <1>0, <2>2, ConcatProperties
    <3> HIDE DEF c
    <3>2. c \o <<>> = c
      BY <3>1, ConcatEmptySeq
    <3> QED BY <3>2 DEF c
  <2>5. [queue |-> Append(Append(q, b), bytes), buffer |-> <<>>] \in Holder
    BY <1>1, <2>3 DEF Holder
  <2>6. Carried([queue |-> Append(Append(q, b), bytes), buffer |-> <<>>]) = (flat \o b) \o bytes
    <3> DEFINE r == Append(Append(q, b), bytes)
    <3>1. Socket!FlattenSeq(r) = (flat \o b) \o bytes
      BY <2>3
    <3> HIDE DEF r
    <3>2. Carried([queue |-> r, buffer |-> <<>>]) = Socket!FlattenSeq(r) \o <<>>
      BY DEF Carried
    <3>3. Carried([queue |-> r, buffer |-> <<>>]) = (flat \o b) \o bytes
      BY <2>4, <3>1, <3>2, Zenon
    <3> QED BY <3>3 DEF r
  <2> QED BY <1>1, <2>1, <2>5, <2>6, Zenon
<1>4. ASSUME ~(p.size > BufferSize), Len(b) + p.size > BufferSize
      PROVE  /\ Socket!Pack(a, p) \in Holder
             /\ Carried(Socket!Pack(a, p)) = Carried(a) \o bytes
             /\ Filled(q) => Filled(Socket!Pack(a, p).queue)
  <2>1. Socket!Pack(a, p) = [queue |-> Append(q, b), buffer |-> bytes]
    <3>1. a.queue = q /\ a.buffer = b
      BY DEF q, b
    <3>2. Socket!Pack(a, p) = [queue |-> Append(q, b), buffer |-> <<>> \o bytes]
      BY <1>0, <1>4, <3>1 DEF Socket!Pack
    <3>3. <<>> \o bytes = bytes
      BY <1>0, ConcatEmptySeq
    <3> QED BY <3>2, <3>3, Zenon
  <2>2. b # <<>>
    BY <1>0, <1>4
  <2> DEFINE r == [queue |-> Append(q, b), buffer |-> bytes]
  <2>3. r \in Holder /\ Carried(r) = (flat \o b) \o bytes /\ (Filled(q) /\ b # <<>> => Filled(Append(q, b)))
    BY <1>0, <1>2
  <2>4. r.queue = Append(q, b) /\ Socket!Pack(a, p) = r
    BY <2>1
  <2> HIDE DEF r
  <2> QED BY <1>1, <2>2, <2>3, <2>4, Zenon
<1>5. ASSUME ~(p.size > BufferSize), ~(Len(b) + p.size > BufferSize)
      PROVE  /\ Socket!Pack(a, p) \in Holder
             /\ Carried(Socket!Pack(a, p)) = Carried(a) \o bytes
             /\ Filled(q) => Filled(Socket!Pack(a, p).queue)
  <2>1. Socket!Pack(a, p) = [queue |-> q, buffer |-> b \o bytes]
    <3>1. a.queue = q /\ a.buffer = b
      BY DEF q, b
    <3> QED BY <1>0, <1>5, <3>1 DEF Socket!Pack
  <2>2. b \o bytes \in Seq(Nat)
    BY <1>0, ConcatProperties
  <2>3. flat \o (b \o bytes) = (flat \o b) \o bytes
    <3>1. flat \in Seq(Nat) /\ b \in Seq(Nat) /\ bytes \in Seq(Nat)
      BY <1>0, <1>1
    <3>2. (flat \o b) \o bytes = flat \o (b \o bytes)
      BY ONLY <3>1, ConcatAssociative, SMTT(40)
    <3> QED BY <3>2, Zenon
  <2>4. Carried([queue |-> q, buffer |-> b \o bytes]) = flat \o (b \o bytes)
    <3> DEFINE c == b \o bytes
    <3> HIDE DEF c
    <3>1. Carried([queue |-> q, buffer |-> c]) = flat \o c
      BY DEF Carried, flat
    <3> QED BY <3>1 DEF c
  <2>5. [queue |-> q, buffer |-> b \o bytes] \in Holder /\ [queue |-> q, buffer |-> b \o bytes].queue = q
    BY <1>0, <2>2 DEF Holder
  <2> QED BY <1>1, <2>1, <2>3, <2>4, <2>5, Zenon
<1>6. Fitting(p) => ~(p.size > BufferSize)
  BY <1>0 DEF Fitting
<1> QED BY <1>3, <1>4, <1>5, <1>6 DEF bytes, q

\* Packing all of them adds all their bytes.
LEMMA PackingHolds ==
  ASSUME NEW holder \in Holder, NEW ps \in Seq(Packet)
  PROVE  LET all == Socket!FoldLeft(Socket!Pack, holder, ps)
         IN /\ all \in Holder
            /\ Carried(all) = Carried(holder) \o Socket!Bytes(ps)
            /\ Filled(holder.queue) /\ (\A i \in 1..Len(ps) : Fitting(ps[i])) => Filled(all.queue)
<1> DEFINE n == Len(ps)
           ss == PartsOf(ps)
<1>0. n \in Nat /\ ss \in Seq(Seq(Nat)) /\ Len(ss) = n /\ \A i \in 1..n : ps[i] \in Packet /\ ss[i] = BytesOf(ps[i])
  <2>1. ss \in Seq(Seq(Nat)) /\ Len(ss) = n
    BY BytesParts
  <2>2. n \in Nat /\ \A i \in 1..n : ps[i] \in Packet
    OBVIOUS
  <2>3. \A i \in 1..n : ss[i] = BytesOf(ps[i])
    BY DEF PartsOf
  <2> QED BY <2>1, <2>2, <2>3
<1>1. PICK h \in [0..n -> Holder] : IsPacking(h, holder, ps) /\ Socket!FoldLeft(Socket!Pack, holder, ps) = h[n]
  BY PackHolds, PackingIs
<1>2. PICK k \in [0..n -> Seq(Nat)] : IsFlat(k, ss) /\ Socket!FlattenSeq(ss) = k[n]
  <2> HIDE DEF ss, n
  <2>1. PICK k \in [0..Len(ss) -> Seq(Nat)] : IsFlat(k, ss) /\ Socket!FlattenSeq(ss) = k[Len(ss)]
    BY <1>0, FlatExists
  <2> QED BY <1>0, <2>1
<1>3. Socket!Bytes(ps) = k[n]
  BY <1>2, BytesParts
<1>h. \A i \in 1..n : h[i] = Socket!Pack(h[i - 1], ps[i]) /\ k[i] = k[i - 1] \o BytesOf(ps[i])
  BY <1>0, <1>1, <1>2, Zenon DEF IsPacking, IsFlat
<1>b. h[0] = holder /\ k[0] = <<>>
  BY <1>1, <1>2 DEF IsPacking, IsFlat
<1>4. Carried(holder) \in Seq(Nat)
  BY FlatAppend, ConcatProperties DEF Carried, Holder
<1> HIDE DEF n, ss
<1> DEFINE Fit == Filled(holder.queue) /\ \A i \in 1..n : Fitting(ps[i])
           T == {m \in Nat : m <= n => Carried(h[m]) = Carried(holder) \o k[m] /\ (Fit => Filled(h[m].queue))}
<1>5. 0 \in T
  <2>1. Carried(holder) \o <<>> = Carried(holder)
    BY ONLY <1>4, ConcatEmptySeq
  <2> HIDE DEF Fit
  <2>2. Carried(h[0]) = Carried(holder) \o k[0]
    BY <1>b, <2>1, Zenon
  <2>3. Fit => Filled(h[0].queue)
    BY <1>b DEF Fit
  <2> QED BY <2>2, <2>3
<1>6. ASSUME NEW m \in T PROVE m + 1 \in T
  <2> SUFFICES ASSUME m + 1 <= n
               PROVE  Carried(h[m + 1]) = Carried(holder) \o k[m + 1] /\ (Fit => Filled(h[m + 1].queue))
    OBVIOUS
  <2> DEFINE p == ps[m + 1]
             e == Carried(holder)
             c == k[m]
             x == BytesOf(p)
  <2>1. m + 1 \in 1..n /\ (m + 1) - 1 = m /\ m \in 0..n /\ p \in Packet /\ m <= n
    BY <1>0
  <2>2. h[m + 1] = Socket!Pack(h[m], p) /\ k[m + 1] = c \o x
    BY <1>h, <2>1, Zenon
  <2>3. Carried(h[m]) = e \o c /\ (Fit => Filled(h[m].queue))
    BY <2>1
  <2>4. h[m] \in Holder /\ c \in Seq(Nat) /\ x \in Seq(Nat) /\ e \in Seq(Nat)
    <3>1. h[m] \in Holder /\ c \in Seq(Nat) /\ e \in Seq(Nat)
      BY <1>1, <1>2, <1>4, <2>1
    <3>2. x \in Seq(Nat)
      BY <2>1, BytesAppend, EmptySeq
    <3> QED BY <3>1, <3>2
  <2>5. Carried(h[m + 1]) = Carried(h[m]) \o x /\ (Filled(h[m].queue) /\ Fitting(p) => Filled(h[m + 1].queue))
    <3> HIDE DEF p
    <3> QED BY <2>1, <2>2, <2>4, PackHolds, Zenon
  <2> HIDE DEF e, c, x, T
  <2>6. (e \o c) \o x = e \o (c \o x)
    BY ONLY <2>4, ConcatAssociative, SMTT(40)
  <2>7. Carried(h[m + 1]) = e \o k[m + 1]
    BY <2>2, <2>3, <2>5, <2>6, Zenon
  <2>8. Fit => Fitting(p)
    BY <2>1
  <2> QED BY <2>3, <2>5, <2>7, <2>8, Zenon DEF e
<1> HIDE DEF T
<1>7. T = Nat
  <2>1. T \in SUBSET Nat
    BY DEF T
  <2> QED BY <1>5, <1>6, <2>1, SetInduction
<1>8. n \in T
  BY <1>0, <1>7
<1>9. Carried(h[n]) = Carried(holder) \o k[n] /\ (Fit => Filled(h[n].queue))
  <2> HIDE DEF Fit
  <2>1. n <= n => Carried(h[n]) = Carried(holder) \o k[n] /\ (Fit => Filled(h[n].queue))
    BY <1>8, Zenon DEF T
  <2>2. n <= n
    BY <1>0
  <2> QED BY <2>1, <2>2
<1>10. h[n] \in Holder
  BY <1>0, <1>1
<1> QED BY <1>1, <1>3, <1>9, <1>10, Zenon DEF n

\* Packed: the buffers to be written hold all that has been sent.
LEMMA PackedHolds ==
  ASSUME NEW s \in Socks, writeQueue[s] \in Seq(Seq(Nat)), bufferQueue[s] \in Seq(Packet)
  PROVE  /\ Socket!Packed(s) \in Seq(Seq(Nat))
         /\ Socket!FlattenSeq(Socket!Packed(s)) = Socket!FlattenSeq(writeQueue[s]) \o Socket!Bytes(bufferQueue[s])
         /\ Filled(writeQueue[s]) /\ (\A i \in 1..Len(bufferQueue[s]) : Fitting(bufferQueue[s][i])) => Filled(Socket!Packed(s))
<1> DEFINE holder == [queue |-> writeQueue[s], buffer |-> <<>>]
           all == Socket!FoldLeft(Socket!Pack, holder, bufferQueue[s])
           flat == Socket!FlattenSeq(writeQueue[s])
<1>1. holder \in Holder /\ holder.queue = writeQueue[s] /\ holder.buffer = <<>>
  BY DEF Holder
<1>2. Socket!Packed(s) = IF all.buffer = <<>> THEN all.queue ELSE Append(all.queue, all.buffer)
  BY DEF Socket!Packed
<1>3. flat \in Seq(Nat) /\ Carried(holder) = flat
  <2>1. flat \in Seq(Nat)
    BY FlatAppend
  <2>2. Carried(holder) = flat \o <<>>
    BY DEF Carried
  <2> HIDE DEF flat, holder
  <2>3. flat \o <<>> = flat
    BY <2>1, ConcatEmptySeq
  <2> QED BY <2>1, <2>2, <2>3, Zenon
<1> HIDE DEF holder, flat
<1>4. /\ all \in Holder /\ Carried(all) = flat \o Socket!Bytes(bufferQueue[s])
      /\ Filled(writeQueue[s]) /\ (\A i \in 1..Len(bufferQueue[s]) : Fitting(bufferQueue[s][i])) => Filled(all.queue)
  <2>1. Carried(holder) = flat /\ holder.queue = writeQueue[s] /\ holder \in Holder
    BY <1>1, <1>3
  <2>2. /\ all \in Holder /\ Carried(all) = Carried(holder) \o Socket!Bytes(bufferQueue[s])
        /\ Filled(holder.queue) /\ (\A i \in 1..Len(bufferQueue[s]) : Fitting(bufferQueue[s][i])) => Filled(all.queue)
    BY <2>1, PackingHolds, Zenon
  <2> QED BY <2>1, <2>2, Zenon
<1> HIDE DEF all
<1> DEFINE q == all.queue
           b == all.buffer
<1>5. q \in Seq(Seq(Nat)) /\ b \in Seq(Nat) /\ Carried(all) = Socket!FlattenSeq(q) \o b
  BY <1>4 DEF Holder, Carried
<1> HIDE DEF q, b
<1>6. Socket!Packed(s) = IF b = <<>> THEN q ELSE Append(q, b)
  BY <1>2 DEF q, b
<1>7. Socket!Packed(s) \in Seq(Seq(Nat)) /\ Socket!FlattenSeq(Socket!Packed(s)) = Carried(all)
  <2>1. CASE b = <<>>
    <3> DEFINE f == Socket!FlattenSeq(q)
    <3>1. f \in Seq(Nat)
      BY <1>5, FlatAppend
    <3> HIDE DEF f
    <3>2. f \o <<>> = f
      BY <3>1, ConcatEmptySeq
    <3>3. Carried(all) = f \o <<>>
      BY <1>5, <2>1 DEF f
    <3>4. Socket!Packed(s) = q
      BY <1>6, <2>1
    <3> QED BY <1>5, <3>2, <3>3, <3>4, Zenon DEF f
  <2>2. CASE b # <<>>
    <3>1. Socket!Packed(s) = Append(q, b)
      BY <1>6, <2>2
    <3>2. Append(q, b) \in Seq(Seq(Nat)) /\ Socket!FlattenSeq(Append(q, b)) = Socket!FlattenSeq(q) \o b
      BY <1>5, FlatAppend
    <3> QED BY <1>5, <3>1, <3>2, Zenon
  <2> QED BY <2>1, <2>2
<1>8. Filled(q) => Filled(Socket!Packed(s))
  <2>1. Filled(q) /\ b # <<>> => Filled(Append(q, b))
    <3>1. /\ Len(q) \in Nat /\ Len(Append(q, b)) = Len(q) + 1 /\ Append(q, b)[Len(q) + 1] = b
          /\ \A i \in 1..Len(q) : Append(q, b)[i] = q[i]
      BY <1>5
    <3> QED BY <3>1 DEF Filled
  <2> QED BY <1>6, <2>1
<1> QED BY <1>4, <1>7, <1>8, Zenon DEF flat, q

\* Nothing is packed into no buffers.
LEMMA PackedNothing ==
  ASSUME NEW s \in Socks, writeQueue[s] = <<>>, bufferQueue[s] = <<>>
  PROVE  Socket!Packed(s) = <<>>
<1> DEFINE holder == [queue |-> <<>>, buffer |-> <<>>]
<1>1. holder \in Holder /\ <<>> \in Seq(Packet) /\ Len(<<>>) = 0
  BY DEF Holder
<1>2. PICK h \in [0..0 -> Holder] :
        IsPacking(h, holder, <<>>) /\ Socket!FoldLeft(Socket!Pack, holder, <<>>) = h[0]
  <2> HIDE DEF holder
  <2>1. PICK h \in [0..Len(<<>>) -> Holder] :
          IsPacking(h, holder, <<>>) /\ Socket!FoldLeft(Socket!Pack, holder, <<>>) = h[Len(<<>>)]
    BY <1>1, PackHolds, PackingIs
  <2> QED BY <1>1, <2>1
<1>3. h[0] = holder
  BY <1>2 DEF IsPacking
<1>4. Socket!FoldLeft(Socket!Pack, [queue |-> writeQueue[s], buffer |-> <<>>], bufferQueue[s]) = holder
  BY <1>2, <1>3
<1> QED BY <1>4 DEF Socket!Packed

-----------------------------------------------------------------------------
(* The stream. *)

\* Concatenation under a name: the provers take it apart wherever they see it.
Cat(s, t) == s \o t

\* The first of two is a prefix of both, and nothing behind it changes it.
LEMMA CatFacts ==
  ASSUME NEW s \in Seq(Nat), NEW t \in Seq(Nat)
  PROVE  Cat(s, t) \in Seq(Nat) /\ Cat(s, <<>>) = s /\ Socket!IsPrefix(s, Cat(s, t))
<1>1. Cat(s, t) \in Seq(Nat) /\ Cat(s, <<>>) = s
  BY ConcatProperties, ConcatEmptySeq DEF Cat
<1>2. Socket!IsPrefix(s, Cat(s, t))
  BY PrefixOfBoth, Zenon DEF Cat
<1> QED BY <1>1, <1>2

\* Three may be concatenated from either end.
LEMMA CatGroups ==
  ASSUME NEW s \in Seq(Nat), NEW t \in Seq(Nat), NEW u \in Seq(Nat)
  PROVE  Cat(Cat(s, t), u) = Cat(s, Cat(t, u))
BY ConcatAssociative, SMTT(40) DEF Cat

\* What the kernel took, then the buffers, then the packets, are all that was sent.
Flow(taken, buffers, packets, all) == Cat(taken, Cat(buffers, packets)) = all

\* A packet more; all packed; a part of what is to be written is taken.
LEMMA FlowSteps ==
  ASSUME NEW s \in Seq(Nat), NEW f \in Seq(Nat), NEW b \in Seq(Nat), NEW e \in Seq(Nat), NEW x \in Seq(Nat)
  PROVE  /\ Flow(s, f, b, e) => Flow(s, f, b \o x, e \o x) /\ Flow(s, f \o b, <<>>, e) /\ Socket!IsPrefix(s, e)
         /\ Flow(s, x \o f, b, e) => Flow(s \o x, f, b, e)
         /\ Flow(s, <<>>, <<>>, e) <=> s = e
<1>1. \A u, v \in Seq(Nat) : Cat(u, v) \in Seq(Nat) /\ Cat(u, <<>>) = u /\ Socket!IsPrefix(u, Cat(u, v))
  BY CatFacts, Zenon
<1>2. \A u, v, w \in Seq(Nat) : Cat(Cat(u, v), w) = Cat(u, Cat(v, w))
  BY CatGroups, Zenon
<1>3. <<>> \in Seq(Nat)
  OBVIOUS
<1>4. Flow(s, f, b, e) => Flow(s, f, Cat(b, x), Cat(e, x))
  <2>1. Cat(f, Cat(b, x)) = Cat(Cat(f, b), x) /\ Cat(s, Cat(Cat(f, b), x)) = Cat(Cat(s, Cat(f, b)), x)
    BY <1>1, <1>2
  <2> QED BY <2>1 DEF Flow
<1>5. Flow(s, f, b, e) => Flow(s, Cat(f, b), <<>>, e) /\ Socket!IsPrefix(s, e)
  <2>1. /\ Cat(f, b) \in Seq(Nat) /\ Cat(Cat(f, b), <<>>) = Cat(f, b)
        /\ Socket!IsPrefix(s, Cat(s, Cat(f, b)))
    BY <1>1, Zenon
  <2> QED BY <2>1, Zenon DEF Flow
<1>7. Flow(s, Cat(x, f), b, e) => Flow(Cat(s, x), f, b, e)
  <2>1. Cat(Cat(s, x), Cat(f, b)) = Cat(s, Cat(x, Cat(f, b))) /\ Cat(x, Cat(f, b)) = Cat(Cat(x, f), b)
    BY <1>1, <1>2
  <2> QED BY <2>1 DEF Flow
<1>8. Flow(s, <<>>, <<>>, e) <=> s = e
  BY <1>1, <1>3 DEF Flow
<1> QED BY <1>4, <1>5, <1>7, <1>8 DEF Cat

\* A queue of filled buffers less the first.
LEMMA FilledTail ==
  ASSUME NEW q \in Seq(Seq(Nat)), q # <<>>, Filled(q)
  PROVE  Filled(Tail(q)) /\ Head(q) # <<>>
<1>1. /\ Len(q) \in Nat /\ Len(q) >= 1 /\ Head(q) = q[1] /\ Len(Tail(q)) = Len(q) - 1
      /\ \A i \in 1..Len(Tail(q)) : Tail(q)[i] = q[i + 1]
  BY HeadTailProperties
<1> DEFINE u == Tail(q)
<1> HIDE DEF u
<1>2. \A i \in 1..Len(u) : i + 1 \in 1..Len(q) /\ u[i] = q[i + 1]
  BY <1>1 DEF u
<1>4. \A i \in 1..Len(q) : q[i] # <<>>
  BY DEF Filled
<1>5. ASSUME NEW i \in 1..Len(u) PROVE u[i] # <<>>
  BY <1>2, <1>4, Zenon
<1>3. Filled(u)
  BY <1>5 DEF Filled
<1>6. Head(q) # <<>>
  BY <1>1, <1>4
<1> QED BY <1>3, <1>6 DEF u

\* A sequence is its first k elements and the others.
LEMMA SplitAt ==
  ASSUME NEW h \in Seq(Nat), NEW k \in 0..(Len(h) - 1)
  PROVE  /\ SubSeq(h, 1, k) \in Seq(Nat) /\ SubSeq(h, k + 1, Len(h)) \in Seq(Nat)
         /\ SubSeq(h, k + 1, Len(h)) # <<>> /\ SubSeq(h, 1, k) \o SubSeq(h, k + 1, Len(h)) = h
<1> DEFINE n == Len(h)
<1>1. n \in Nat /\ k \in Nat /\ k < n
  OBVIOUS
<1>2. /\ h \in Seq(Nat) /\ 1 \in 1..(n + 1) /\ k \in (1 - 1)..n /\ n \in k..n
      /\ (\A i \in 1..k : h[i] \in Nat) /\ \A i \in (k + 1)..n : h[i] \in Nat
  <2>1. \A i \in 1..n : h[i] \in Nat
    OBVIOUS
  <2> HIDE DEF n
  <2>2. 1 \in 1..(n + 1) /\ k \in (1 - 1)..n /\ n \in k..n
    BY <1>1
  <2>3. (\A i \in 1..k : i \in 1..n) /\ \A i \in (k + 1)..n : i \in 1..n
    BY <1>1
  <2> QED BY <2>1, <2>2, <2>3
<1>3. SubSeq(h, 1, k) \o SubSeq(h, k + 1, n) = SubSeq(h, 1, n)
  BY <1>2, ConcatAdjacentSubSeq
<1>4. SubSeq(h, 1, n) = h
  BY SubSeqFull
<1>5. SubSeq(h, 1, k) \in Seq(Nat)
  BY <1>1, <1>2, SubSeqProperties
<1>6. SubSeq(h, k + 1, n) \in Seq(Nat) /\ SubSeq(h, k + 1, n) # <<>>
  <2> HIDE DEF n
  <2> DEFINE m == k + 1
             y == SubSeq(h, m, n)
  <2>1. m \in Int /\ n \in Int /\ m <= n /\ \A i \in m..n : h[i] \in Nat
    BY <1>1, <1>2
  <2> HIDE DEF m
  <2>2. y \in Seq(Nat) /\ Len(y) = IF m <= n THEN n - m + 1 ELSE 0
    BY <2>1, SubSeqProperties
  <2> HIDE DEF y
  <2>3. y # <<>>
    <3>1. Len(y) # 0
      <4> DEFINE l == Len(y)
      <4>1. l = IF m <= n THEN n - m + 1 ELSE 0
        BY <2>2
      <4> HIDE DEF l
      <4>2. l # 0
        BY ONLY <2>1, <4>1
      <4> QED BY <4>2 DEF l
    <3>2. Len(<<>>) = 0
      OBVIOUS
    <3> QED BY <3>1, <3>2, Zenon
  <2> QED BY <2>2, <2>3 DEF y, m
<1> QED BY <1>3, <1>4, <1>5, <1>6

\* The first buffer is written wholly; one that is empty is dropped.
LEMMA WroteHead ==
  ASSUME NEW q \in Seq(Seq(Nat)), q # <<>>, NEW s \in Seq(Nat), NEW b \in Seq(Nat), NEW e \in Seq(Nat),
         Flow(s, Socket!FlattenSeq(q), b, e)
  PROVE  /\ Flow(s \o Head(q), Socket!FlattenSeq(Tail(q)), b, e)
         /\ Head(q) = <<>> => Flow(s, Socket!FlattenSeq(Tail(q)), b, e)
<1> DEFINE x == Head(q)
           f == Socket!FlattenSeq(Tail(q))
<1>1. x \in Seq(Nat) /\ f \in Seq(Nat) /\ Socket!FlattenSeq(q) = x \o f
  BY FlatHead
<1> HIDE DEF x, f
<1>2. Flow(s \o x, f, b, e)
  <2>1. Flow(s, x \o f, b, e)
    BY <1>1, Zenon
  <2> QED BY <1>1, <2>1, FlowSteps, Zenon
<1>3. x = <<>> => s \o x = s
  BY ConcatEmptySeq
<1> QED BY <1>2, <1>3, Zenon DEF x, f

\* What is left of the queue after a part of the first buffer.
Left(q, k) == [q EXCEPT ![1] = SubSeq(@, k + 1, Len(@))]

\* A part of the first buffer is written, and the rest stays in front.
LEMMA WrotePart ==
  ASSUME NEW q \in Seq(Seq(Nat)), q # <<>>, NEW s \in Seq(Nat), NEW b \in Seq(Nat), NEW e \in Seq(Nat),
         NEW k \in 0..(Len(Head(q)) - 1), Flow(s, Socket!FlattenSeq(q), b, e)
  PROVE  /\ Left(q, k) \in Seq(Seq(Nat)) /\ Left(q, k) # <<>> /\ SubSeq(Head(q), 1, k) \in Seq(Nat)
         /\ Flow(s \o SubSeq(Head(q), 1, k), Socket!FlattenSeq(Left(q, k)), b, e)
         /\ Filled(q) => Filled(Left(q, k))
<1> DEFINE h == Head(q)
           x == SubSeq(h, 1, k)
           y == SubSeq(h, k + 1, Len(h))
           r == Left(q, k)
           f == Socket!FlattenSeq(Tail(q))
<1>1. h \in Seq(Nat) /\ f \in Seq(Nat) /\ Tail(q) \in Seq(Seq(Nat)) /\ Socket!FlattenSeq(q) = h \o f
  BY FlatHead
<1>2. h = q[1] /\ Len(q) \in Nat /\ Len(q) >= 1 /\ 1 \in 1..Len(q)
  BY HeadTailProperties
<1>3. x \in Seq(Nat) /\ y \in Seq(Nat) /\ x \o y = h /\ y # <<>>
  <2>1. k \in 0..(Len(h) - 1)
    OBVIOUS
  <2> HIDE DEF h
  <2> QED BY <1>1, <2>1, SplitAt
<1>4. /\ r \in Seq(Seq(Nat)) /\ Len(r) = Len(q) /\ r[1] = y /\ \A i \in 1..Len(q) : i # 1 => r[i] = q[i]
  <2> HIDE DEF y, h
  <2>1. r = [q EXCEPT ![1] = y]
    BY <1>2 DEF r, Left, y
  <2> QED BY <1>2, <1>3, <2>1, ExceptSeq
<1> HIDE DEF x, y, r
<1>5. r # <<>> /\ Head(r) = y /\ Tail(r) = Tail(q)
  <2>1. r # <<>> /\ Head(r) = y
    BY <1>2, <1>4
  <2>2. Len(Tail(r)) = Len(Tail(q)) /\ \A i \in 1..Len(Tail(r)) : Tail(r)[i] = Tail(q)[i]
    BY <1>2, <1>4, <2>1
  <2>3. Tail(r) \in Seq(Seq(Nat)) /\ Tail(q) \in Seq(Seq(Nat))
    BY <1>4, <2>1
  <2> DEFINE u == Tail(r)
             v == Tail(q)
  <2> HIDE DEF u, v
  <2>4. u = v
    <3>1. u \in Seq(Seq(Nat)) /\ v \in Seq(Seq(Nat)) /\ Len(u) = Len(v) /\ \A i \in 1..Len(u) : u[i] = v[i]
      BY <2>2, <2>3 DEF u, v
    <3> QED BY ONLY <3>1, SeqEqual
  <2> QED BY <2>1, <2>4 DEF u, v
<1>6. Socket!FlattenSeq(r) = y \o f
  <2>1. Socket!FlattenSeq(r) = Head(r) \o Socket!FlattenSeq(Tail(r))
    BY <1>4, <1>5, FlatHead
  <2> QED BY <1>5, <2>1, Zenon
<1> HIDE DEF h, f
<1>7. Flow(s \o x, y \o f, b, e)
  <2>1. Cat(Cat(x, y), f) = Cat(x, Cat(y, f)) /\ Cat(y, f) \in Seq(Nat)
    BY <1>1, <1>3, CatGroups, CatFacts
  <2>2. h \o f = x \o (y \o f) /\ y \o f \in Seq(Nat)
    BY <1>3, <2>1, Zenon DEF Cat
  <2> DEFINE g == y \o f
  <2>3. g \in Seq(Nat) /\ Flow(s, x \o g, b, e)
    BY <1>1, <2>2, Zenon
  <2> HIDE DEF g
  <2>4. Flow(s \o x, g, b, e)
    BY <1>3, <2>3, FlowSteps, Zenon
  <2> QED BY <2>4 DEF g
<1>8. Filled(q) => Filled(r)
  <2>1. \A i \in 1..Len(q) : r[i] = q[i] \/ r[i] = y
    BY <1>4
  <2> QED BY <1>3, <1>4, <2>1 DEF Filled
<1> QED BY <1>3, <1>4, <1>5, <1>6, <1>7, <1>8, Zenon DEF x, r, h

-----------------------------------------------------------------------------
(* The network thread's sockets.  What a socket's query, its session and
   _worldSession have to do with each other, and with its closing.           *)

SocketTypes ==
  /\ closed \in [Socks -> BOOLEAN] /\ closing \in [Socks -> BOOLEAN]
  /\ reading \in [Socks -> BOOLEAN] /\ pointer \in [Socks -> BOOLEAN]
  /\ closer \in [Socks -> {"nobody", "network", "world"}]
  /\ query \in [Socks -> {"none", "ip", "account", "permissions"}]
  /\ session \in [Socks -> {"none", "created", "world", "deleted"}]
  /\ updating \in [sock : Socks \cup {NoSock}, step : {"idle", "write", "queries"}]

\* Of each socket: a session is created by the answer to the account's query,
\* and lives in the network thread until its permissions are loaded; a socket
\* that is to close asks and reads no more; OnClose clears the pointer.
Attached(s) ==
  /\ s \notin accepted => session[s] = "none" /\ query[s] = "none" /\ ~reading[s] /\ ~closing[s]
  /\ query[s] \in {"ip", "account"} => session[s] = "none" /\ ~reading[s]
  /\ query[s] = "permissions" <=> session[s] = "created"
  /\ session[s] = "created" /\ ~closed[s] => pointer[s]
  /\ closing[s] => session[s] = "none" /\ query[s] = "none" /\ ~reading[s]
  /\ closer[s] # "nobody" => closed[s]
  /\ closed[s] /\ closer[s] = "nobody" => ~pointer[s]
  /\ pointer[s] => session[s] \in {"created", "world"} \/ closer[s] = "network"

\* The socket the network thread is in Update of: only its own last buffer, or
\* the world's thread, closes it meanwhile.
InUpdate ==
  updating.step # "idle" =>
    /\ updating.sock \in Socks
    /\ closed[updating.sock] =>
         closing[updating.sock] \/ session[updating.sock] \in {"world", "deleted"}

SocketInv == SocketTypes /\ InUpdate /\ \A s \in Socks : Attached(s)

\* A thread's sockets are counted, those it has and those it is to have.
CountInv ==
  /\ newSockets \subseteq accepted /\ sockets \subseteq accepted /\ newSockets \cap sockets = {}
  /\ IsFiniteSet(newSockets) /\ IsFiniteSet(sockets)
  /\ connections = Cardinality(newSockets) + Cardinality(sockets)

\* Nobody is connected at first.
LEMMA SocketInit == Socket!Init => SocketInv /\ CountInv
<1> SUFFICES ASSUME Socket!Init PROVE SocketInv /\ CountInv
  OBVIOUS
<1>1. SocketInv
  BY DEF Socket!Init, Socket!SocketsInit, SocketInv, SocketTypes, InUpdate, Attached
<1>2. CountInv
  BY FS_EmptySet DEF Socket!Init, Socket!SocketsInit, CountInv
<1> QED BY <1>1, <1>2

\* What SocketInv is about.
attachedVars == <<accepted, closed, closing, closer, reading, pointer, query, session>>

\* A step that leaves it alone, but for the socket that is to be updated.
LEMMA SocketIdle ==
  ASSUME SocketInv, UNCHANGED attachedVars, updating' \in [sock : Socks \cup {NoSock}, step : {"idle", "write", "queries"}],
         updating'.step # "idle" => updating'.sock \in Socks
                                    /\ (~closed[updating'.sock] \/ (updating.step # "idle" /\ updating'.sock = updating.sock))
  PROVE  SocketInv'
BY DEF SocketInv, SocketTypes, InUpdate, Attached, attachedVars

\* A socket is closed: by its network thread outside its Update, by it after
\* the last buffer, or by the world's thread.
LEMMA SocketCloses ==
  ASSUME SocketInv, NEW s \in Socks, NEW by \in {"network", "world"}, Socket!CloseSocket(s, by),
         reading' \in [Socks -> BOOLEAN], \A t \in Socks : reading'[t] => reading[t],
         UNCHANGED <<accepted, closing, pointer, query, session>>,
         updating' \in [sock : Socks \cup {NoSock}, step : {"idle", "write", "queries"}],
         updating'.step # "idle" => updating.step # "idle" /\ updating'.sock = updating.sock,
         closing[s] \/ session[s] \in {"world", "deleted"} \/ updating.step = "idle"
  PROVE  SocketInv'
<1>1. /\ closed' \in [Socks -> BOOLEAN] /\ closer' \in [Socks -> {"nobody", "network", "world"}]
      /\ \A t \in Socks : t # s => closed'[t] = closed[t] /\ closer'[t] = closer[t]
      /\ closed'[s] /\ (closed[s] => closer'[s] = closer[s]) /\ (~closed[s] => closer'[s] = by)
  BY DEF SocketInv, SocketTypes, Socket!CloseSocket
<1>2. SocketTypes'
  BY <1>1 DEF SocketInv, SocketTypes
<1>3. InUpdate'
  BY <1>1 DEF SocketInv, SocketTypes, InUpdate
<1>4. ASSUME NEW t \in Socks PROVE Attached(t)'
  <2>1. Attached(t) /\ UNCHANGED <<accepted, closing, pointer, query, session>> /\ (reading'[t] => reading[t])
    BY DEF SocketInv
  <2>2. CASE t # s
    <3>1. closed'[t] = closed[t] /\ closer'[t] = closer[t]
      BY <1>1, <2>2
    <3> QED BY <2>1, <3>1 DEF Attached
  <2>3. CASE t = s
    <3>1. closed'[t] /\ (closed[t] => closer'[t] = closer[t]) /\ (~closed[t] => closer'[t] # "nobody")
      BY <1>1, <2>3
    <3>2. pointer[t] => session[t] \in {"created", "world"} \/ closer'[t] = "network"
      <4>1. CASE closed[t]
        BY <2>1, <3>1, <4>1 DEF Attached
      <4>2. CASE ~closed[t]
        BY <1>1, <2>1, <2>3, <4>2 DEF Attached
      <4> QED BY <4>1, <4>2
    <3> QED BY <2>1, <3>1, <3>2 DEF Attached
  <2> QED BY <2>2, <2>3
<1> QED BY <1>2, <1>3, <1>4 DEF SocketInv

\* What HandleQueue closes.
LEMMA HandleQueueCloses ==
  ASSUME NEW s \in Socks, NEW again \in BOOLEAN, Socket!HandleQueue(s, again)
  PROVE  UNCHANGED <<closed, closer>> \/ (closing[s] /\ Socket!CloseSocket(s, "network"))
BY DEF Socket!HandleQueue, Socket!Dropped, Socket!Partly, Socket!Whole, Socket!Pop

\* The results of queries.
LEMMA ResultStep ==
  ASSUME SocketInv, Socket!ProcessReadyQueries
  PROVE  SocketInv'
<1> DEFINE s == updating.sock
<1>1. /\ updating.step = "queries" /\ s \in Socks /\ closer[s] # "network"
      /\ closed[s] => closing[s] \/ session[s] \in {"world", "deleted"}
  BY DEF Socket!ProcessReadyQueries, Socket!NetworkFree, SocketInv, InUpdate
<1>2. /\ updating' = [sock |-> NoSock, step |-> "idle"] /\ UNCHANGED <<closed, closer, accepted>>
  BY DEF Socket!ProcessReadyQueries
<1>3. CASE UNCHANGED <<closing, reading, query, pointer, session>>
  BY <1>2, <1>3, SocketIdle DEF attachedVars
<1>4. ASSUME query[s] \in {"ip", "account"}, Socket!Reject(s) PROVE SocketInv'
  BY <1>1, <1>2, <1>4 DEF Socket!Reject, Socket!DelayedCloseSocket, SocketInv, SocketTypes, InUpdate, Attached
<1>5. ASSUME query[s] = "ip", Socket!AsyncRead(s), query' = [query EXCEPT ![s] = "none"],
             UNCHANGED <<closing, pointer, session>>
      PROVE  SocketInv'
  BY <1>1, <1>2, <1>5 DEF Socket!AsyncRead, Socket!IsOpen, SocketInv, SocketTypes, InUpdate, Attached
<1>6. ASSUME query[s] = "account", Socket!NewSession(s) PROVE SocketInv'
  BY <1>1, <1>2, <1>6
     DEF Socket!NewSession, Socket!AsyncRead, Socket!IsOpen, SocketInv, SocketTypes, InUpdate, Attached
<1>7. ASSUME query[s] = "permissions", Socket!LoadSessionPermissionsCallback(s) PROVE SocketInv'
  BY <1>1, <1>2, <1>7 DEF Socket!LoadSessionPermissionsCallback, SocketInv, SocketTypes, InUpdate, Attached
<1> QED BY <1>3, <1>4, <1>5, <1>6, <1>7
        DEF Socket!ProcessReadyQueries, Socket!CheckIpCallback, Socket!HandleAuthSessionCallback, Socket!sessionVars

\* The network thread reads.
LEMMA ReadStep ==
  ASSUME SocketInv, NEW s \in Socks, Socket!ReadError(s) \/ Socket!ReadHandler(s)
  PROVE  SocketInv'
<1>1. /\ updating.step = "idle" /\ reading[s] /\ UNCHANGED <<updating, accepted, closing, pointer, session>>
      /\ \A t \in Socks : closer[t] # "network"
  BY DEF Socket!ReadError, Socket!ReadHandler, Socket!NetworkFree, Socket!sessionVars
<1>2. updating' \in [sock : Socks \cup {NoSock}, step : {"idle", "write", "queries"}]
  BY <1>1 DEF SocketInv, SocketTypes
<1>3. ASSUME Socket!CloseSocket(s, "network"), reading' = [reading EXCEPT ![s] = FALSE], UNCHANGED query
      PROVE  SocketInv'
  <2>1. reading' \in [Socks -> BOOLEAN] /\ \A t \in Socks : reading'[t] => reading[t]
    BY <1>3 DEF SocketInv, SocketTypes
  <2> QED BY <1>1, <1>2, <1>3, <2>1, SocketCloses
<1>4. ASSUME reading' = [reading EXCEPT ![s] = FALSE], UNCHANGED <<query, closed, closer>> PROVE SocketInv'
  BY <1>1, <1>4 DEF SocketInv, SocketTypes, InUpdate, Attached
<1>5. ASSUME Socket!HandleAuthSession(s), UNCHANGED <<closed, closer>> PROVE SocketInv'
  BY <1>1, <1>5 DEF Socket!HandleAuthSession, SocketInv, SocketTypes, InUpdate, Attached
<1>6. ASSUME Socket!AsyncRead(s), UNCHANGED <<query, closed, closer>> PROVE SocketInv'
  BY <1>1, <1>6 DEF Socket!AsyncRead, Socket!IsOpen, SocketInv, SocketTypes, InUpdate, Attached
<1>7. CASE Socket!ReadError(s)
  BY <1>3, <1>7 DEF Socket!ReadError, Socket!queryVars
<1>8. CASE Socket!ReadHandler(s)
  BY <1>3, <1>4, <1>5, <1>6, <1>8 DEF Socket!ReadHandler, Socket!HandleAuthSession, Socket!QueueForSession
<1> QED BY <1>7, <1>8

\* OnClose clears the pointer.
LEMMA OnCloseStep ==
  ASSUME SocketInv, NEW s \in Socks, NEW by \in {"network", "world"}, Socket!OnClose(s, by)
  PROVE  SocketInv'
BY DEF Socket!OnClose, Socket!threadVars, Socket!outVars, Socket!writeVars, Socket!queryVars,
       SocketInv, SocketTypes, InUpdate, Attached

\* The world's thread.
LEMMA WorldStep ==
  ASSUME SocketInv, NEW s \in Socks,
         Socket!SendPacket(s) \/ Socket!KickPlayer(s) \/ Socket!DeleteSession(s)
  PROVE  SocketInv'
<1>0. updating \in [sock : Socks \cup {NoSock}, step : {"idle", "write", "queries"}]
  BY DEF SocketInv, SocketTypes
<1>1. CASE Socket!SendPacket(s)
  <2>1. UNCHANGED attachedVars /\ UNCHANGED updating
    BY <1>1 DEF Socket!SendPacket, Socket!stateVars, Socket!queryVars, Socket!sessionVars, attachedVars
  <2> QED BY <1>0, <2>1, SocketIdle DEF SocketInv, InUpdate
<1>2. CASE Socket!KickPlayer(s)
  <2>1. /\ Socket!CloseSocket(s, "world") /\ session[s] = "world"
        /\ UNCHANGED <<accepted, closing, pointer, query, session>> /\ UNCHANGED <<reading, updating>>
    BY <1>2 DEF Socket!KickPlayer, Socket!WorldFree, Socket!queryVars, Socket!sessionVars
  <2>2. reading' \in [Socks -> BOOLEAN] /\ \A t \in Socks : reading'[t] => reading[t]
    BY <2>1 DEF SocketInv, SocketTypes
  <2> QED BY <1>0, <2>1, <2>2, SocketCloses
<1>3. CASE Socket!DeleteSession(s)
  <2>1. /\ session' = [session EXCEPT ![s] = "deleted"] /\ session[s] = "world" /\ closer[s] # "world"
        /\ closed[s] \/ closing[s]
        /\ UNCHANGED <<accepted, closed, closing, closer, reading, pointer, query, updating>>
    BY <1>3 DEF Socket!DeleteSession, Socket!WorldFree, Socket!IsOpen, Socket!stateVars, Socket!queryVars
  <2> QED BY <2>1 DEF SocketInv, SocketTypes, InUpdate, Attached
<1> QED BY <1>1, <1>2, <1>3

\* Every step.
LEMMA SocketStep == SocketInv /\ [Socket!Next]_Socket!vars => SocketInv'
<1> SUFFICES ASSUME SocketInv, [Socket!Next]_Socket!vars PROVE SocketInv'
  OBVIOUS
<1>0. updating \in [sock : Socks \cup {NoSock}, step : {"idle", "write", "queries"}]
  BY DEF SocketInv, SocketTypes
<1>i. ASSUME UNCHANGED attachedVars, UNCHANGED updating PROVE SocketInv'
  BY <1>0, <1>i, SocketIdle DEF SocketInv, InUpdate
<1>1. CASE UNCHANGED Socket!vars
  BY <1>i, <1>1 DEF Socket!vars, attachedVars
<1>2. ASSUME NEW s \in Socks, Socket!OnSocketOpen(s) PROVE SocketInv'
  <2>1. /\ s \notin accepted /\ accepted' = accepted \cup {s} /\ query' = [query EXCEPT ![s] = "ip"]
        /\ UNCHANGED <<closed, closing, closer, reading, pointer, session, updating>>
    BY <1>2 DEF Socket!OnSocketOpen, Socket!stateVars, Socket!sessionVars
  <2> QED BY <2>1 DEF SocketInv, SocketTypes, InUpdate, Attached
<1>3. ASSUME NEW s \in Socks, Socket!Answer(s) PROVE SocketInv'
  BY <1>i, <1>3 DEF Socket!Answer, Socket!stateVars, Socket!sessionVars, attachedVars
<1>4. ASSUME NEW s \in Socks, Socket!UpdateSocket(s) PROVE SocketInv'
  <2>1. UNCHANGED attachedVars
    BY <1>4 DEF Socket!UpdateSocket, Socket!Update, Socket!stateVars, Socket!queryVars, Socket!sessionVars, attachedVars
  <2>2. UNCHANGED updating \/ (~closed[s] /\ \E step \in {"queries", "write"} : updating' = [sock |-> s, step |-> step])
    BY <1>4 DEF Socket!UpdateSocket, Socket!Update
  <2>3. CASE UNCHANGED updating
    BY <1>i, <2>1, <2>3
  <2>4. ASSUME NEW step \in {"queries", "write"}, ~closed[s], updating' = [sock |-> s, step |-> step] PROVE SocketInv'
    BY <2>1, <2>4, SocketIdle
  <2> QED BY <2>2, <2>3, <2>4
<1>5. ASSUME Socket!AddNewSockets, UNCHANGED <<accepted, pointer, session, early>> PROVE SocketInv'
  BY <1>i, <1>5 DEF Socket!AddNewSockets, Socket!stateVars, Socket!queryVars, attachedVars
<1>6. ASSUME NEW s \in Socks, NEW again \in BOOLEAN, Socket!HandleQueue(s, again),
             UNCHANGED <<accepted, closing, reading, pointer, query, session>>,
             UNCHANGED updating \/ (updating.step = "write" /\ \E step \in {"write", "queries"} :
                                      updating' = [updating EXCEPT !.step = step])
      PROVE  SocketInv'
  <2>1. /\ updating' \in [sock : Socks \cup {NoSock}, step : {"idle", "write", "queries"}]
        /\ updating'.step # "idle" => updating.step # "idle" /\ updating'.sock = updating.sock
    BY <1>0, <1>6
  <2>2. CASE UNCHANGED <<closed, closer>>
    <3>1. UNCHANGED attachedVars
      BY <1>6, <2>2 DEF attachedVars
    <3> QED BY <2>1, <3>1, SocketIdle DEF SocketInv, InUpdate
  <2>3. CASE closing[s] /\ Socket!CloseSocket(s, "network")
    <3>1. reading' \in [Socks -> BOOLEAN] /\ \A t \in Socks : reading'[t] => reading[t]
      BY <1>6 DEF SocketInv, SocketTypes
    <3>2. UNCHANGED <<accepted, closing, pointer, query, session>>
      BY <1>6
    <3> QED BY <2>1, <2>3, <3>1, <3>2, SocketCloses
  <2> QED BY <1>6, <2>2, <2>3, HandleQueueCloses
<1>7. ASSUME NEW s \in Socks, Socket!WriteHandler(s) \/ Socket!UpdateWrites, UNCHANGED <<accepted, pointer, session, early>>
      PROVE  SocketInv'
  <2>1. CASE Socket!WriteHandler(s)
    <3>1. PICK again \in BOOLEAN : Socket!HandleQueue(s, again)
      BY <2>1 DEF Socket!WriteHandler
    <3>2. UNCHANGED <<accepted, closing, reading, pointer, query, session>> /\ UNCHANGED updating
      BY <1>7, <2>1 DEF Socket!WriteHandler, Socket!queryVars
    <3> QED BY <1>6, <3>1, <3>2
  <2>2. CASE Socket!UpdateWrites
    <3>1. PICK again \in BOOLEAN :
            /\ Socket!HandleQueue(updating.sock, again)
            /\ updating' = [updating EXCEPT !.step = IF again THEN "write" ELSE "queries"]
      BY <2>2 DEF Socket!UpdateWrites
    <3>2. UNCHANGED <<accepted, closing, reading, pointer, query, session>> /\ updating.step = "write"
      BY <1>7, <2>2 DEF Socket!UpdateWrites, Socket!NetworkFree, Socket!queryVars
    <3>3. updating.sock \in Socks
      BY <3>2 DEF SocketInv, InUpdate
    <3>4. \E step \in {"write", "queries"} : updating' = [updating EXCEPT !.step = step]
      BY <3>1
    <3> QED BY <1>6, <3>1, <3>2, <3>3, <3>4
  <2> QED BY <1>7, <2>1, <2>2
<1>8. ASSUME NEW s \in Socks, Socket!Break(s), UNCHANGED <<accepted, pointer, session, early>> PROVE SocketInv'
  BY <1>i, <1>8 DEF Socket!Break, Socket!stateVars, Socket!queryVars, attachedVars
<1> QED BY <1>1, <1>2, <1>3, <1>4, <1>5, <1>6, <1>7, <1>8, ResultStep, ReadStep, OnCloseStep, WorldStep
        DEF Socket!Next, Socket!NetworkThread, Socket!sessionVars

\* WorldSocket: for any number of sockets, whoever closes them and whenever,
\* _worldSession is set where it is used, to a session that lives.
THEOREM SessionsAreReachable == Socket!Spec => []SessionReachable
<1>1. SocketInv => SessionReachable
  <2> SUFFICES ASSUME SocketInv PROVE SessionReachable
    OBVIOUS
  <2>1. Socket!SessionAlive
    BY DEF SocketInv, Attached, Socket!SessionAlive
  <2>2. Socket!SessionThere
    BY DEF SocketInv, InUpdate, Attached, Socket!SessionThere
  <2> QED BY <2>1, <2>2 DEF SessionReachable, Socket!SessionReachable
<1> QED BY <1>1, SocketInit, SocketStep, PTL DEF Socket!Spec

\* The module's own cardinality is the one the facts on finite sets are about.
LEMMA SameCardinality == \A S : Socket!Cardinality(S) = Cardinality(S)
BY DEF Socket!Cardinality, Cardinality

\* The count over a step.
LEMMA CountStep == CountInv /\ [Socket!Next]_Socket!vars => CountInv'
<1> SUFFICES ASSUME CountInv, [Socket!Next]_Socket!vars PROVE CountInv'
  OBVIOUS
<1>n. /\ Cardinality(newSockets) \in Nat /\ Cardinality(sockets) \in Nat
      /\ connections = Cardinality(newSockets) + Cardinality(sockets)
  BY FS_CardinalityType DEF CountInv
<1>i. ASSUME UNCHANGED <<newSockets, sockets, connections, accepted>> PROVE CountInv'
  BY <1>i DEF CountInv
<1>1. ASSUME NEW s \in Socks, Socket!OnSocketOpen(s) PROVE CountInv'
  <2>1. /\ s \notin accepted /\ accepted' = accepted \cup {s} /\ newSockets' = newSockets \cup {s}
        /\ connections' = connections + 1 /\ sockets' = sockets
    BY <1>1 DEF Socket!OnSocketOpen, Socket!AddSocket
  <2>2. IsFiniteSet(newSockets') /\ Cardinality(newSockets') = Cardinality(newSockets) + 1
    BY <2>1, FS_AddElement DEF CountInv
  <2> QED BY <1>n, <2>1, <2>2 DEF CountInv
<1>2. ASSUME Socket!AddNewSockets, UNCHANGED accepted PROVE CountInv'
  <2> DEFINE open == {s \in newSockets : Socket!IsOpen(s)}
             shut == {s \in newSockets : ~Socket!IsOpen(s)}
  <2>1. /\ sockets' = sockets \cup open /\ connections' = connections - Cardinality(shut)
        /\ newSockets' = {}
    BY <1>2, SameCardinality DEF Socket!AddNewSockets
  <2>2. open \cup shut = newSockets /\ open \cap shut = {} /\ open \subseteq newSockets /\ shut \subseteq newSockets
    OBVIOUS
  <2> HIDE DEF open, shut
  <2>3. IsFiniteSet(open) /\ IsFiniteSet(shut) /\ IsFiniteSet(sockets) /\ sockets \cap open = {}
    BY <2>2, FS_Subset DEF CountInv
  <2>4. /\ Cardinality(newSockets) = Cardinality(open) + Cardinality(shut)
        /\ Cardinality(open) \in Nat /\ Cardinality(shut) \in Nat
    <3>1. Cardinality(open \cup shut) = Cardinality(open) + Cardinality(shut) - Cardinality(open \cap shut)
      BY <2>3, FS_Union
    <3>2. Cardinality(open) \in Nat /\ Cardinality(shut) \in Nat /\ Cardinality({}) = 0
      BY <2>3, FS_CardinalityType, FS_EmptySet
    <3>3. Cardinality(newSockets) = Cardinality(open) + Cardinality(shut) - Cardinality({})
      BY <2>2, <3>1, Zenon
    <3> QED BY <3>2, <3>3
  <2>5. IsFiniteSet(sockets \cup open) /\ Cardinality(sockets \cup open) = Cardinality(sockets) + Cardinality(open)
    <3>1. Cardinality(sockets \cup open) = Cardinality(sockets) + Cardinality(open) - Cardinality(sockets \cap open)
          /\ IsFiniteSet(sockets \cup open)
      BY <2>3, FS_Union
    <3>2. Cardinality({}) = 0
      BY FS_EmptySet
    <3> QED BY <1>n, <2>3, <2>4, <3>1, <3>2
  <2>6. Cardinality({}) = 0 /\ IsFiniteSet({})
    BY FS_EmptySet
  <2>7. connections' = Cardinality({}) + Cardinality(sockets \cup open)
    BY <1>n, <2>1, <2>4, <2>5, <2>6
  <2> QED BY <1>2, <2>1, <2>2, <2>5, <2>6, <2>7 DEF CountInv
<1>3. ASSUME NEW s \in Socks, Socket!Update(s), UNCHANGED accepted PROVE CountInv'
  <2>1. UNCHANGED newSockets /\ s \in sockets
    BY <1>3 DEF Socket!Update
  <2>2. CASE UNCHANGED <<sockets, connections>>
    BY <1>i, <1>3, <2>1, <2>2
  <2>3. CASE sockets' = sockets \ {s} /\ connections' = connections - 1
    <3>1. IsFiniteSet(sockets') /\ Cardinality(sockets') = Cardinality(sockets) - 1
      BY <2>1, <2>3, FS_RemoveElement DEF CountInv
    <3> QED BY <1>n, <1>3, <2>1, <2>3, <3>1 DEF CountInv
  <2> QED BY <1>3, <2>2, <2>3 DEF Socket!Update, Socket!Forget
<1>4. CASE UNCHANGED Socket!vars
  BY <1>i, <1>4 DEF Socket!vars
<1>5. ASSUME NEW s \in Socks,
             \/ Socket!Answer(s) \/ Socket!ProcessReadyQueries \/ Socket!OnClose(s, "network")
             \/ Socket!ReadError(s) \/ Socket!ReadHandler(s) \/ Socket!OnClose(s, "world")
             \/ Socket!SendPacket(s) \/ Socket!KickPlayer(s) \/ Socket!DeleteSession(s)
      PROVE  CountInv'
  BY <1>i, <1>5
     DEF Socket!Answer, Socket!ProcessReadyQueries, Socket!OnClose, Socket!ReadError, Socket!ReadHandler,
         Socket!SendPacket, Socket!KickPlayer, Socket!DeleteSession, Socket!threadVars
<1>6. ASSUME NEW s \in Socks, Socket!UpdateWrites \/ Socket!WriteHandler(s) \/ Socket!Break(s), UNCHANGED accepted
      PROVE  CountInv'
  BY <1>i, <1>6 DEF Socket!UpdateWrites, Socket!WriteHandler, Socket!Break, Socket!threadVars
<1> QED BY <1>1, <1>2, <1>3, <1>4, <1>5, <1>6 DEF Socket!Next, Socket!NetworkThread, Socket!UpdateSocket

\* NetworkThread: a thread's connections are the sockets it has and those it is
\* to have, for any number of them, also after some were closed before it saw
\* them.
THEOREM ConnectionsAreCounted == Socket!Spec => []Socket!ConnectionsCounted
<1>1. CountInv => Socket!ConnectionsCounted
  BY SameCardinality DEF CountInv, Socket!ConnectionsCounted
<1> QED BY <1>1, SocketInit, CountStep, PTL DEF Socket!Spec

-----------------------------------------------------------------------------
(* What is sent and what arrives. *)

\* What was sent is on its way: all of it, unless the socket is closed or its
\* peer has left; while the ban or the account is looked up, the socket stays
\* open; a socket without a session is only sent packets that fit in a buffer, so
\* that no buffer of it is empty; and one that is to close has its last packet in
\* the buffers already, or nothing before it there, or was rejected while what
\* came before was still being written.
Streamed(s) ==
  /\ Socket!IsPrefix(sent[s], Socket!Bytes(enqueued[s]))
  /\ ~broken[s] /\ ~closed[s] =>
       Flow(sent[s], Socket!FlattenSeq(writeQueue[s]), Socket!Bytes(bufferQueue[s]), Socket!Bytes(enqueued[s]))
  /\ s \notin accepted =>
       ~closed[s] /\ enqueued[s] = <<>> /\ bufferQueue[s] = <<>> /\ writeQueue[s] = <<>> /\ sent[s] = <<>>
  /\ query[s] \in {"ip", "account"} => ~closed[s]
  /\ session[s] = "none" =>
       Filled(writeQueue[s]) /\ \A i \in 1..Len(bufferQueue[s]) : Fitting(bufferQueue[s][i])
  /\ closing[s] /\ ~broken[s] =>
       IF closed[s]
       THEN sent[s] = Socket!Bytes(enqueued[s]) \/ (s \in early /\ sent[s] = Socket!Bytes(Socket!Front(enqueued[s])))
       ELSE \/ bufferQueue[s] = <<>> \/ writeQueue[s] = <<>>
            \/ /\ s \in early
               /\ Flow(sent[s], Socket!FlattenSeq(writeQueue[s]), <<>>, Socket!Bytes(Socket!Front(enqueued[s])))

\* Packets and buffers are sequences, of any length.
StreamTypes ==
  /\ bufferQueue \in [Socks -> Seq(Packet)] /\ enqueued \in [Socks -> Seq(Packet)]
  /\ writeQueue \in [Socks -> Seq(Seq(Nat))] /\ sent \in [Socks -> Seq(Nat)]
  /\ broken \in [Socks -> BOOLEAN]

StreamInv == StreamTypes /\ \A s \in Socks : Streamed(s)

\* Update packs all there is, and nobody sends to a socket without a session
\* until the results of its queries are taken.
Emptied ==
  updating.step # "idle" /\ session[updating.sock] = "none" => bufferQueue[updating.sock] = <<>>

\* The packets but the last are packets, and one put behind them is the last.
LEMMA FrontFacts ==
  ASSUME NEW ps \in Seq(Packet)
  PROVE  Socket!Front(ps) \in Seq(Packet) /\ \A p \in Packet : Socket!Front(Append(ps, p)) = ps
<1>1. Socket!Front(ps) \in Seq(Packet)
  BY DEF Socket!Front
<1>2. ASSUME NEW p \in Packet PROVE Socket!Front(Append(ps, p)) = ps
  BY DEF Socket!Front
<1> QED BY <1>1, <1>2

\* What a step leaves of a socket it does not write to or send to.
Calm(s) ==
  /\ bufferQueue'[s] = bufferQueue[s] /\ enqueued'[s] = enqueued[s]
  /\ writeQueue'[s] = writeQueue[s] /\ sent'[s] = sent[s]
  /\ (broken[s] => broken'[s]) /\ closed'[s] = closed[s] /\ closing'[s] = closing[s]
  /\ session'[s] = "none" => session[s] = "none"
  /\ query'[s] \in {"ip", "account"} => query'[s] = query[s]
  /\ s \in accepted => s \in accepted'
  /\ s \in early => s \in early'

\* Such a step leaves the stream of the socket as well.
LEMMA CalmStep ==
  ASSUME NEW s \in Socks, Streamed(s), Calm(s)
  PROVE  Streamed(s)'
<1> HIDE DEF Socket!Bytes, Socket!FlattenSeq, Socket!IsPrefix
<1>1. /\ Socket!Bytes(enqueued[s])' = Socket!Bytes(enqueued[s]) /\ Socket!Bytes(bufferQueue[s])' = Socket!Bytes(bufferQueue[s])
      /\ Socket!Bytes(Socket!Front(enqueued[s]))' = Socket!Bytes(Socket!Front(enqueued[s]))
      /\ Socket!FlattenSeq(writeQueue[s])' = Socket!FlattenSeq(writeQueue[s])
  BY DEF Calm
<1> QED BY <1>1 DEF Calm, Streamed

\* All is empty at first.
LEMMA StreamInit == Socket!Init => StreamInv
<1> SUFFICES ASSUME Socket!Init PROVE StreamInv
  OBVIOUS
<1>1. StreamTypes
  BY DEF Socket!Init, Socket!SocketsInit, StreamTypes
<1>2. ASSUME NEW s \in Socks PROVE Streamed(s)
  <2>1. /\ sent[s] = <<>> /\ enqueued[s] = <<>> /\ bufferQueue[s] = <<>> /\ writeQueue[s] = <<>>
        /\ ~closing[s] /\ query[s] = "none" /\ ~closed[s]
    BY DEF Socket!Init, Socket!SocketsInit
  <2>2. Socket!IsPrefix(<<>>, <<>>)
    BY DEF Socket!IsPrefix
  <2>3. Flow(<<>>, <<>>, <<>>, <<>>)
    BY FlowSteps, EmptySeq
  <2>4. Filled(<<>>) /\ \A i \in 1..Len(<<>>) : Fitting(<<>>[i])
    BY DEF Filled
  <2> QED BY <2>1, <2>2, <2>3, <2>4, BytesEmpty, FlatEmpty DEF Streamed
<1> QED BY <1>1, <1>2 DEF StreamInv

\* A buffer is written, wholly, in part, or not at all.
LEMMA WritesStep ==
  ASSUME SocketInv, StreamInv, NEW s \in Socks, NEW again \in BOOLEAN, Socket!HandleQueue(s, again),
         UNCHANGED <<accepted, closing, bufferQueue, enqueued, broken, query, session, early>>
  PROVE  StreamInv'
<1> HIDE DEF Socket!Bytes, Socket!FlattenSeq, Socket!IsPrefix
<1> DEFINE q == writeQueue[s]
           e == Socket!Bytes(enqueued[s])
           d == Socket!Bytes(Socket!Front(enqueued[s]))
           b == Socket!Bytes(bufferQueue[s])
<1>0. /\ q \in Seq(Seq(Nat)) /\ sent[s] \in Seq(Nat) /\ bufferQueue[s] \in Seq(Packet) /\ enqueued[s] \in Seq(Packet)
      /\ Streamed(s) /\ Attached(s)
  BY DEF StreamInv, StreamTypes, SocketInv
<1>1. e \in Seq(Nat) /\ b \in Seq(Nat) /\ d \in Seq(Nat)
  BY <1>0, BytesType, FrontFacts
<1>2. e' = e /\ b' = b /\ d' = d
  OBVIOUS
<1>c. ASSUME NEW x \in Seq(Nat), NEW r \in Seq(Seq(Nat)),
             sent' = [sent EXCEPT ![s] = sent[s] \o x], writeQueue' = [writeQueue EXCEPT ![s] = r],
             s \in accepted, query[s] \in {"ip", "account"} => ~closed'[s],
             \A t \in Socks : t # s => closed'[t] = closed[t],
             Flow(sent[s] \o x, Socket!FlattenSeq(r), b, e),
             session[s] = "none" => Filled(r),
             closing[s] /\ ~broken[s] =>
               IF closed'[s] THEN sent[s] \o x = e \/ (s \in early /\ sent[s] \o x = d)
               ELSE bufferQueue[s] = <<>> \/ (s \in early /\ Flow(sent[s] \o x, Socket!FlattenSeq(r), <<>>, d))
      PROVE  StreamInv'
  <2>1. /\ sent[s] \o x \in Seq(Nat) /\ sent'[s] = sent[s] \o x /\ writeQueue'[s] = r
        /\ sent' \in [Socks -> Seq(Nat)] /\ writeQueue' \in [Socks -> Seq(Seq(Nat))]
        /\ \A t \in Socks : t # s => sent'[t] = sent[t] /\ writeQueue'[t] = writeQueue[t]
    BY <1>c, ConcatProperties DEF StreamInv, StreamTypes
  <2>2. StreamTypes'
    BY <2>1 DEF StreamInv, StreamTypes
  <2>3. \A t \in Socks : t # s => Calm(t)
    BY <1>c, <2>1 DEF Calm
  <2>4. Socket!IsPrefix(sent[s] \o x, e)
    <3> DEFINE y == sent[s] \o x
               f == Socket!FlattenSeq(r)
    <3>1. y \in Seq(Nat) /\ f \in Seq(Nat) /\ Flow(y, f, b, e)
      BY <1>c, <2>1, FlatAppend
    <3> HIDE DEF y, f, e, b
    <3>2. Socket!IsPrefix(y, e)
      BY <1>1, <3>1, FlowSteps
    <3> QED BY <3>2 DEF y
  <2>5. Streamed(s)'
    BY <1>0, <1>2, <1>c, <2>1, <2>4 DEF Streamed
  <2> QED BY <2>2, <2>3, <2>5, CalmStep DEF StreamInv
<1>3. CASE q = <<>>
  <2>1. UNCHANGED <<writeQueue, sent, closed>>
    BY <1>3 DEF Socket!HandleQueue
  <2>2. \A t \in Socks : Calm(t)
    BY <2>1 DEF Calm
  <2> QED BY <2>1, <2>2, CalmStep DEF StreamInv, StreamTypes
<1>4. CASE q # <<>>
  <2>1. Socket!Dropped(s) \/ Socket!Partly(s) \/ Socket!Whole(s)
    BY <1>4 DEF Socket!HandleQueue
  <2>2. /\ Head(q) \in Seq(Nat) /\ Tail(q) \in Seq(Seq(Nat)) /\ Socket!FlattenSeq(Tail(q)) \in Seq(Nat)
        /\ Len(Tail(q)) = Len(q) - 1 /\ \A i \in 1..Len(Tail(q)) : Tail(q)[i] = q[i + 1]
    BY <1>0, <1>4, FlatHead, HeadTailProperties
  <2>3. Filled(q) => Filled(Tail(q)) /\ Head(q) # <<>>
    <3> SUFFICES ASSUME Filled(q) PROVE Filled(Tail(q)) /\ Head(q) # <<>>
      OBVIOUS
    <3>1. q \in Seq(Seq(Nat)) /\ q # <<>> /\ Filled(q)
      BY <1>0, <1>4
    <3> HIDE DEF q
    <3> QED BY <3>1, FilledTail, Zenon
  <2>4. Len(q) = 1 => Tail(q) = <<>>
    <3> DEFINE u == Tail(q)
               n == Len(q)
    <3>1. u \in Seq(Seq(Nat)) /\ Len(u) = n - 1
      BY <2>2
    <3> HIDE DEF u, n
    <3>2. n = 1 => u = <<>>
      BY <3>1
    <3> QED BY <3>2 DEF u, n
  <2>5. s \in accepted /\ (query[s] \in {"ip", "account"} => ~closed[s] /\ ~closing[s]) /\ (closing[s] => session[s] = "none")
        /\ (closing[s] /\ ~broken[s] =>
              IF closed[s] THEN sent[s] = e \/ (s \in early /\ sent[s] = d)
              ELSE bufferQueue[s] = <<>> \/ (s \in early /\ Flow(sent[s], Socket!FlattenSeq(q), <<>>, d)))
    BY <1>0, <1>4 DEF Streamed, Attached
  <2>6. session[s] = "none" => Filled(q)
    BY <1>0 DEF Streamed
  <2>7. closed' = closed \/ (closing[s] /\ closed' = [closed EXCEPT ![s] = TRUE])
    BY HandleQueueCloses DEF Socket!CloseSocket
  <2>8. closed' \in [Socks -> BOOLEAN] /\ closed \in [Socks -> BOOLEAN]
    BY <2>7 DEF SocketInv, SocketTypes
  <2>p. CASE Socket!Partly(s)
    <3>1. PICK k \in 0..(Len(Head(q)) - 1) : Socket!Taken(s, k)
      BY <2>p DEF Socket!Partly
    <3>2. ~broken[s] /\ ~closed[s] /\ UNCHANGED closed
      BY <2>p DEF Socket!Partly
    <3>3. /\ sent' = [sent EXCEPT ![s] = sent[s] \o SubSeq(Head(q), 1, k)]
          /\ writeQueue' = [writeQueue EXCEPT ![s] = Left(q, k)]
      BY <3>1 DEF Socket!Taken, Left
    <3>4. Flow(sent[s], Socket!FlattenSeq(q), b, e)
      BY <1>0, <3>2 DEF Streamed
    <3> DEFINE x == SubSeq(Head(q), 1, k)
               r == Left(q, k)
    <3>5. r \in Seq(Seq(Nat)) /\ x \in Seq(Nat) /\ Flow(sent[s] \o x, Socket!FlattenSeq(r), b, e) /\ (Filled(q) => Filled(r))
      BY <1>0, <1>1, <1>4, <3>4, WrotePart
    <3>6. sent' = [sent EXCEPT ![s] = sent[s] \o x] /\ writeQueue' = [writeQueue EXCEPT ![s] = r]
      BY <3>3
    <3> HIDE DEF x, r
    <3>7. \A t \in Socks : t # s => closed'[t] = closed[t]
      BY <3>2
    <3>8. session[s] = "none" => Filled(r)
      BY <2>6, <3>5
    <3>10. Flow(sent[s], Socket!FlattenSeq(q), <<>>, d) => Flow(sent[s] \o x, Socket!FlattenSeq(r), <<>>, d)
      <4> SUFFICES ASSUME Flow(sent[s], Socket!FlattenSeq(q), <<>>, d)
                   PROVE  Flow(sent[s] \o x, Socket!FlattenSeq(r), <<>>, d)
        OBVIOUS
      <4> HIDE DEF q, d
      <4> QED BY <1>0, <1>1, <1>4, EmptySeq, WrotePart DEF x, r
    <3>9. closing[s] /\ ~broken[s] =>
            IF closed'[s] THEN sent[s] \o x = e \/ (s \in early /\ sent[s] \o x = d)
            ELSE bufferQueue[s] = <<>> \/ (s \in early /\ Flow(sent[s] \o x, Socket!FlattenSeq(r), <<>>, d))
      BY <2>5, <3>2, <3>10
    <3>11. query[s] \in {"ip", "account"} => ~closed'[s]
      BY <2>5, <3>2
    <3> HIDE DEF q, e, b, d
    <3> QED BY <1>c, <2>5, <3>5, <3>6, <3>7, <3>8, <3>9, <3>11
  <2>d. CASE Socket!Dropped(s)
    <3>1. writeQueue' = [writeQueue EXCEPT ![s] = Tail(q)] /\ sent' = sent
      BY <2>d DEF Socket!Dropped, Socket!Pop
    <3>2. broken[s] \/ closed[s] \/ Head(q) = <<>>
      BY <2>d DEF Socket!Dropped
    <3>3. /\ \A t \in Socks : t # s => closed'[t] = closed[t]
          /\ closed'[s] = closed[s] \/ closing[s]
      BY <2>7, <2>8
    <3>4. /\ writeQueue'[s] = Tail(q) /\ writeQueue' \in [Socks -> Seq(Seq(Nat))]
          /\ \A t \in Socks : t # s => writeQueue'[t] = writeQueue[t]
      BY <2>2, <3>1 DEF StreamInv, StreamTypes
    <3>5. StreamTypes'
      BY <3>1, <3>4 DEF StreamInv, StreamTypes
    <3>6. \A t \in Socks : t # s => Calm(t)
      BY <3>1, <3>3, <3>4 DEF Calm
    <3>7. ~broken[s] /\ ~closed[s] => Flow(sent[s], Socket!FlattenSeq(Tail(q)), b, e)
      <4> SUFFICES ASSUME ~broken[s], ~closed[s] PROVE Flow(sent[s], Socket!FlattenSeq(Tail(q)), b, e)
        OBVIOUS
      <4>1. Flow(sent[s], Socket!FlattenSeq(q), b, e) /\ Head(q) = <<>>
        BY <1>0, <3>2 DEF Streamed
      <4> HIDE DEF b, e
      <4> QED BY <1>0, <1>1, <1>4, <4>1, WroteHead
    <3>8. closing[s] /\ ~broken[s] => closed[s]
      BY <2>3, <2>5, <2>6, <3>2
    <3>9. closing[s] /\ ~broken[s] => closed'[s] /\ (sent[s] = e \/ (s \in early /\ sent[s] = d))
      BY <2>5, <2>7, <2>8, <3>8
    <3>10. (~broken[s] /\ ~closed'[s] => ~closed[s]) /\ (query[s] \in {"ip", "account"} => ~closed'[s])
      BY <2>5, <2>7, <2>8
    <3>11. Streamed(s)'
      BY <1>0, <1>2, <2>3, <2>5, <2>6, <3>1, <3>4, <3>7, <3>9, <3>10 DEF Streamed
    <3> QED BY <3>5, <3>6, <3>11, CalmStep DEF StreamInv
  <2>w. CASE Socket!Whole(s)
    <3>1. ~broken[s] /\ ~closed[s] /\ sent' = [sent EXCEPT ![s] = sent[s] \o Head(q)]
          /\ writeQueue' = [writeQueue EXCEPT ![s] = Tail(q)]
      BY <2>w DEF Socket!Whole, Socket!Pop
    <3>2. Flow(sent[s], Socket!FlattenSeq(q), b, e)
      BY <1>0, <3>1 DEF Streamed
    <3>3. Flow(sent[s] \o Head(q), Socket!FlattenSeq(Tail(q)), b, e)
      <4> HIDE DEF b, e
      <4> QED BY <1>0, <1>1, <1>4, <3>2, WroteHead
    <3>4. closed'[s] => Len(q) = 1
      BY <2>w, <3>1 DEF Socket!Whole, Socket!Pop
    <3>9. Flow(sent[s], Socket!FlattenSeq(q), <<>>, d) => Flow(sent[s] \o Head(q), Socket!FlattenSeq(Tail(q)), <<>>, d)
      <4> SUFFICES ASSUME Flow(sent[s], Socket!FlattenSeq(q), <<>>, d)
                   PROVE  Flow(sent[s] \o Head(q), Socket!FlattenSeq(Tail(q)), <<>>, d)
        OBVIOUS
      <4> HIDE DEF d
      <4> QED BY <1>0, <1>1, <1>4, EmptySeq, WroteHead
    <3>5. closing[s] =>
            IF closed'[s] THEN sent[s] \o Head(q) = e \/ (s \in early /\ sent[s] \o Head(q) = d)
            ELSE bufferQueue[s] = <<>> \/ (s \in early /\ Flow(sent[s] \o Head(q), Socket!FlattenSeq(Tail(q)), <<>>, d))
      <4> DEFINE y == sent[s] \o Head(q)
                 f == Socket!FlattenSeq(Tail(q))
      <4>0. y \in Seq(Nat)
        BY <1>0, <2>2, ConcatProperties
      <4>1. closing[s] => bufferQueue[s] = <<>> \/ (s \in early /\ Flow(y, f, <<>>, d))
        BY <2>5, <3>1, <3>9
      <4>2. closed'[s] => f = <<>>
        BY <2>4, <3>4, FlatEmpty
      <4>3. bufferQueue[s] = <<>> => Flow(y, f, <<>>, e)
        BY <3>3, BytesEmpty
      <4> HIDE DEF y, f, e, b, d
      <4>4. \A z \in Seq(Nat) : Flow(y, <<>>, <<>>, z) => y = z
        BY <4>0, FlowSteps, EmptySeq
      <4>5. closing[s] => IF closed'[s] THEN y = e \/ (s \in early /\ y = d)
                          ELSE bufferQueue[s] = <<>> \/ (s \in early /\ Flow(y, f, <<>>, d))
        BY <1>1, <4>1, <4>2, <4>3, <4>4
      <4> QED BY <4>5 DEF y, f
    <3>6. \A t \in Socks : t # s => closed'[t] = closed[t]
      BY <2>7, <2>8
    <3>7. session[s] = "none" => Filled(Tail(q))
      BY <2>3, <2>6
    <3> DEFINE x == Head(q)
               r == Tail(q)
    <3>8. /\ x \in Seq(Nat) /\ r \in Seq(Seq(Nat)) /\ sent' = [sent EXCEPT ![s] = sent[s] \o x]
          /\ writeQueue' = [writeQueue EXCEPT ![s] = r]
          /\ Flow(sent[s] \o x, Socket!FlattenSeq(r), b, e)
          /\ (session[s] = "none" => Filled(r))
          /\ (closing[s] /\ ~broken[s] =>
                IF closed'[s] THEN sent[s] \o x = e \/ (s \in early /\ sent[s] \o x = d)
                ELSE bufferQueue[s] = <<>> \/ (s \in early /\ Flow(sent[s] \o x, Socket!FlattenSeq(r), <<>>, d)))
      BY <2>2, <3>1, <3>3, <3>5, <3>7
    <3>10. query[s] \in {"ip", "account"} => ~closed'[s]
      BY <2>5, <2>7, <2>8
    <3> HIDE DEF q, e, b, d, x, r
    <3> QED BY <1>c, <2>5, <3>6, <3>8, <3>10
  <2> QED BY <2>1, <2>p, <2>d, <2>w
<1> QED BY <1>3, <1>4

\* Packets are packed into buffers.
LEMMA PacksStep ==
  ASSUME SocketInv, StreamInv, NEW s \in Socks,
         bufferQueue' = [bufferQueue EXCEPT ![s] = <<>>], writeQueue' = [writeQueue EXCEPT ![s] = Socket!Packed(s)],
         UNCHANGED <<accepted, closed, closing, enqueued, sent, broken, query, session, early>>
  PROVE  StreamInv'
<1> HIDE DEF Socket!Bytes, Socket!FlattenSeq, Socket!IsPrefix, Socket!Packed
<1> DEFINE w == Socket!Packed(s)
           f == Socket!FlattenSeq(writeQueue[s])
           e == Socket!Bytes(enqueued[s])
           b == Socket!Bytes(bufferQueue[s])
<1>0. /\ writeQueue[s] \in Seq(Seq(Nat)) /\ sent[s] \in Seq(Nat)
      /\ bufferQueue[s] \in Seq(Packet) /\ enqueued[s] \in Seq(Packet)
      /\ Streamed(s) /\ Attached(s)
  BY DEF StreamInv, StreamTypes, SocketInv
<1>d. Socket!Bytes(Socket!Front(enqueued[s]))' = Socket!Bytes(Socket!Front(enqueued[s]))
  OBVIOUS
<1>1. e \in Seq(Nat) /\ b \in Seq(Nat) /\ f \in Seq(Nat) /\ e' = e
  BY <1>0, BytesType, FlatAppend
<1>2. /\ w \in Seq(Seq(Nat)) /\ Socket!FlattenSeq(w) = f \o b
      /\ Filled(writeQueue[s]) /\ (\A i \in 1..Len(bufferQueue[s]) : Fitting(bufferQueue[s][i])) => Filled(w)
  BY <1>0, PackedHolds
<1> HIDE DEF w, f, e, b
<1>3. /\ writeQueue'[s] = w /\ bufferQueue'[s] = <<>>
      /\ writeQueue' \in [Socks -> Seq(Seq(Nat))] /\ bufferQueue' \in [Socks -> Seq(Packet)]
      /\ \A t \in Socks : t # s => writeQueue'[t] = writeQueue[t] /\ bufferQueue'[t] = bufferQueue[t]
  BY <1>2 DEF StreamInv, StreamTypes, w
<1>4. StreamTypes'
  BY <1>3 DEF StreamInv, StreamTypes
<1>5. \A t \in Socks : t # s => Calm(t)
  BY <1>3 DEF Calm
<1>6. Flow(sent[s], f, b, e) => Flow(sent[s], Socket!FlattenSeq(w), <<>>, e)
  <2>1. Flow(sent[s], f, b, e) => Flow(sent[s], f \o b, <<>>, e)
    BY <1>0, <1>1, FlowSteps
  <2> QED BY <1>2, <2>1, Zenon
<1>7. bufferQueue[s] = <<>> /\ writeQueue[s] = <<>> => w = <<>>
  BY PackedNothing DEF w
<1>8. Streamed(s)'
  <2>1. /\ Socket!IsPrefix(sent[s], e)' /\ e' = e /\ Socket!Bytes(bufferQueue[s])' = <<>>
        /\ Socket!FlattenSeq(writeQueue[s])' = Socket!FlattenSeq(w)
    BY <1>0, <1>1, <1>3, BytesEmpty DEF Streamed, e
  <2>2. \A i \in 1..Len(bufferQueue'[s]) : Fitting(bufferQueue[s][i])'
    BY <1>3
  <2>3. ~broken[s] /\ ~closed[s] => Flow(sent[s], Socket!FlattenSeq(w), <<>>, e)
    BY <1>0, <1>6 DEF Streamed, f, e, b
  <2>4. session[s] = "none" => Filled(w)
    BY <1>0, <1>2 DEF Streamed
  <2>5. /\ s \notin accepted => w = <<>> /\ ~closed[s] /\ enqueued[s] = <<>> /\ sent[s] = <<>>
        /\ query[s] \in {"ip", "account"} => ~closed[s]
        /\ closing[s] /\ ~broken[s] /\ closed[s] =>
             sent[s] = e \/ (s \in early /\ sent[s] = Socket!Bytes(Socket!Front(enqueued[s])))
    BY <1>0, <1>7 DEF Streamed, e
  <2>6. (~broken[s] /\ ~closed[s] =>
          Flow(sent[s], Socket!FlattenSeq(writeQueue[s]), Socket!Bytes(bufferQueue[s]), Socket!Bytes(enqueued[s])))'
    BY <2>1, <2>3 DEF e
  <2>7. (session[s] = "none" => Filled(writeQueue[s]) /\ \A i \in 1..Len(bufferQueue[s]) : Fitting(bufferQueue[s][i]))'
    BY <1>3, <2>2, <2>4
  <2>8. (s \notin accepted =>
          ~closed[s] /\ enqueued[s] = <<>> /\ bufferQueue[s] = <<>> /\ writeQueue[s] = <<>> /\ sent[s] = <<>>)'
    BY <1>3, <2>5
  <2>9. /\ closing'[s] /\ ~broken'[s] /\ closed'[s] =>
             sent'[s] = Socket!Bytes(enqueued[s])' \/ (s \in early' /\ sent'[s] = Socket!Bytes(Socket!Front(enqueued[s]))')
        /\ bufferQueue'[s] = <<>>
    BY <1>3, <1>d, <2>1, <2>5 DEF e
  <2> QED BY <2>1, <2>5, <2>6, <2>7, <2>8, <2>9, Zenon DEF Streamed, e
<1> QED BY <1>4, <1>5, <1>8, CalmStep DEF StreamInv

\* A socket that is not to close after its last packet is closed.
LEMMA ClosesStep ==
  ASSUME SocketInv, StreamInv, NEW s \in Socks, NEW by \in {"network", "world"}, Socket!CloseSocket(s, by),
         s \in accepted, ~closing[s], query[s] \notin {"ip", "account"},
         UNCHANGED <<accepted, closing, bufferQueue, writeQueue, enqueued, sent, broken, query, session, early>>
  PROVE  StreamInv'
<1> HIDE DEF Socket!Bytes, Socket!FlattenSeq, Socket!IsPrefix
<1>1. closed'[s] /\ \A t \in Socks : t # s => closed'[t] = closed[t]
  BY DEF Socket!CloseSocket, SocketInv, SocketTypes
<1>2. \A t \in Socks : t # s => Calm(t)
  BY <1>1 DEF Calm
<1>3. /\ Socket!Bytes(enqueued[s])' = Socket!Bytes(enqueued[s]) /\ Socket!Bytes(bufferQueue[s])' = Socket!Bytes(bufferQueue[s])
      /\ Socket!Bytes(Socket!Front(enqueued[s]))' = Socket!Bytes(Socket!Front(enqueued[s]))
      /\ Socket!FlattenSeq(writeQueue[s])' = Socket!FlattenSeq(writeQueue[s])
  OBVIOUS
<1>4. Streamed(s)'
  BY <1>1, <1>3 DEF StreamInv, Streamed
<1> QED BY <1>2, <1>4, CalmStep DEF StreamInv, StreamTypes

\* A packet is sent to a socket that is open, and it may be marked for closing
\* behind it, early if the socket still writes what came before.
LEMMA SendsStep ==
  ASSUME SocketInv, StreamInv, NEW s \in Socks, NEW size \in Nat, Socket!Sent(s, size),
         s \in accepted,
         session[s] # "none" \/ (size \in 1..BufferSize /\ query[s] \in {"ip", "account"} /\ query'[s] = "none"),
         \/ UNCHANGED closing
         \/ /\ closing' = [closing EXCEPT ![s] = TRUE] /\ query[s] \in {"ip", "account"}
            /\ bufferQueue[s] = <<>> /\ (s \in early' \/ writeQueue[s] = <<>>),
         early \subseteq early',
         \A t \in Socks : query'[t] = query[t] \/ query'[t] = "none",
         UNCHANGED <<accepted, closed, writeQueue, sent, broken, session>>
  PROVE  StreamInv'
<1> HIDE DEF Socket!Bytes, Socket!FlattenSeq, Socket!IsPrefix
<1> DEFINE f == Socket!FlattenSeq(writeQueue[s])
           e == Socket!Bytes(enqueued[s])
           b == Socket!Bytes(bufferQueue[s])
           p == [n |-> Len(enqueued[s]) + 1, size |-> size]
           x == BytesOf(p)
<1>0. /\ writeQueue[s] \in Seq(Seq(Nat)) /\ sent[s] \in Seq(Nat)
      /\ bufferQueue[s] \in Seq(Packet) /\ enqueued[s] \in Seq(Packet)
      /\ Streamed(s) /\ Attached(s) /\ closing \in [Socks -> BOOLEAN]
  BY DEF StreamInv, StreamTypes, SocketInv, SocketTypes
<1>1. p \in Packet /\ p.size = size
  <2>1. Len(enqueued[s]) + 1 \in Nat
    BY <1>0
  <2> QED BY <2>1 DEF Packet
<1>2. e \in Seq(Nat) /\ b \in Seq(Nat) /\ f \in Seq(Nat) /\ x \in Seq(Nat)
  BY <1>0, <1>1, BytesAppend, FlatAppend
<1>3. \A t \in Socks : t # s => closing'[t] = closing[t]
  BY <1>0
<1> HIDE DEF p
<1>4. CASE ~Socket!IsOpen(s)
  <2>1. UNCHANGED <<bufferQueue, enqueued>>
    BY <1>4 DEF Socket!Sent, Socket!outVars
  <2>2. UNCHANGED closing
    BY <1>0, <1>4 DEF Socket!IsOpen, Streamed, Attached
  <2>3. \A t \in Socks : Calm(t)
    BY <2>1, <2>2 DEF Calm
  <2> QED BY <2>1, <2>3, CalmStep DEF StreamInv, StreamTypes
<1>5. CASE Socket!IsOpen(s)
  <2>0. ~closed[s] /\ ~closing[s]
    BY <1>5 DEF Socket!IsOpen
  <2>1. /\ bufferQueue' = [bufferQueue EXCEPT ![s] = Append(bufferQueue[s], p)]
        /\ enqueued' = [enqueued EXCEPT ![s] = Append(enqueued[s], p)]
    BY <1>5 DEF Socket!Sent, p
  <2>2. Append(bufferQueue[s], p) \in Seq(Packet) /\ Append(enqueued[s], p) \in Seq(Packet)
    BY <1>0, <1>1
  <2>3. /\ bufferQueue' \in [Socks -> Seq(Packet)] /\ enqueued' \in [Socks -> Seq(Packet)]
        /\ bufferQueue'[s] = Append(bufferQueue[s], p) /\ enqueued'[s] = Append(enqueued[s], p)
        /\ \A t \in Socks : t # s => bufferQueue'[t] = bufferQueue[t] /\ enqueued'[t] = enqueued[t]
    BY <2>1, <2>2 DEF StreamInv, StreamTypes
  <2>4. StreamTypes'
    BY <2>3 DEF StreamInv, StreamTypes
  <2>5. \A t \in Socks : t # s => Calm(t)
    BY <1>3, <2>3 DEF Calm
  <2>6. /\ Socket!Bytes(bufferQueue[s])' = b \o x /\ Socket!Bytes(enqueued[s])' = e \o x
        /\ Socket!FlattenSeq(writeQueue[s])' = f
    BY <1>0, <1>1, <2>3, BytesAppend
  <2>7. Flow(sent[s], f, b, e) => Flow(sent[s], f, b \o x, e \o x)
    <3> HIDE DEF f, b, e, x
    <3> QED BY <1>0, <1>2, FlowSteps
  <2>8. Socket!IsPrefix(sent[s], e) => Socket!IsPrefix(sent[s], e \o x)
    <3> HIDE DEF f, b, e, x
    <3> QED BY <1>0, <1>2, PrefixGrows
  <2>9. session[s] = "none" => \A i \in 1..Len(bufferQueue'[s]) : Fitting(bufferQueue'[s][i])
    <3> SUFFICES ASSUME session[s] = "none" PROVE \A i \in 1..Len(bufferQueue'[s]) : Fitting(bufferQueue'[s][i])
      OBVIOUS
    <3>1. Fitting(p) /\ \A i \in 1..Len(bufferQueue[s]) : Fitting(bufferQueue[s][i])
      BY <1>0, <1>1 DEF Fitting, Streamed
    <3>2. /\ Len(bufferQueue'[s]) = Len(bufferQueue[s]) + 1 /\ Len(bufferQueue[s]) \in Nat
          /\ bufferQueue'[s][Len(bufferQueue[s]) + 1] = p
          /\ \A i \in 1..Len(bufferQueue[s]) : bufferQueue'[s][i] = bufferQueue[s][i]
      BY <1>0, <1>1, <2>3, AppendProperties
    <3>3. \A i \in 1..Len(bufferQueue'[s]) : i = Len(bufferQueue[s]) + 1 \/ i \in 1..Len(bufferQueue[s])
      BY <3>2
    <3> QED BY <3>1, <3>2, <3>3, Zenon
  <2>11. closing'[s] /\ writeQueue[s] # <<>> => s \in early' /\ bufferQueue[s] = <<>>
    BY <1>0, <2>0
  <2>16. bufferQueue[s] = <<>> => b = <<>>
    BY BytesEmpty
  <2>17. Socket!Bytes(Socket!Front(enqueued[s]))' = e
    <3>1. Socket!Front(enqueued'[s]) = enqueued[s]
      BY <1>0, <1>1, <2>3, FrontFacts
    <3> QED BY <3>1
  <2> HIDE DEF f, b, e, x
  <2>12. ~broken[s] => Flow(sent[s], f, b \o x, e \o x)
    BY <1>0, <2>0, <2>7 DEF Streamed, f, b, e
  <2>13. Socket!IsPrefix(sent[s], e \o x)
    BY <1>0, <2>8 DEF Streamed, e
  <2>14. session[s] = "none" => Filled(writeQueue[s])
    BY <1>0 DEF Streamed
  <2>18. closing'[s] /\ ~broken[s] /\ writeQueue[s] # <<>> => s \in early' /\ Flow(sent[s], f, <<>>, e)
    <3>1. ~broken[s] => Flow(sent[s], f, b, e)
      BY <1>0, <2>0 DEF Streamed, f, b, e
    <3> QED BY <2>11, <2>16, <3>1
  <2>15. Streamed(s)'
    BY <2>0, <2>6, <2>9, <2>17, <2>18, <2>12, <2>13, <2>14 DEF Streamed, f
  <2> QED BY <2>4, <2>5, <2>15, CalmStep DEF StreamInv
<1> QED BY <1>4, <1>5

\* Every step keeps the stream.
LEMMA StreamStep == SocketInv /\ CountInv /\ StreamInv /\ Emptied /\ [Socket!Next]_Socket!vars => StreamInv'
<1> SUFFICES ASSUME SocketInv, CountInv, StreamInv, Emptied, [Socket!Next]_Socket!vars PROVE StreamInv'
  OBVIOUS
<1> DEFINE flowing == <<bufferQueue, enqueued, writeQueue, sent>>
<1>i. ASSUME UNCHANGED flowing, UNCHANGED <<closed, closing>>, broken' \in [Socks -> BOOLEAN],
             \A t \in Socks : /\ broken[t] => broken'[t]
                              /\ session'[t] = "none" => session[t] = "none"
                              /\ query'[t] \in {"ip", "account"} => query'[t] = query[t]
                              /\ t \in accepted => t \in accepted'
                              /\ t \in early => t \in early'
      PROVE  StreamInv'
  <2>1. \A t \in Socks : Calm(t)
    BY <1>i DEF Calm
  <2> QED BY <1>i, <2>1, CalmStep DEF StreamInv, StreamTypes
<1>b. broken \in [Socks -> BOOLEAN] /\ query \in [Socks -> {"none", "ip", "account", "permissions"}]
      /\ session \in [Socks -> {"none", "created", "world", "deleted"}]
  BY DEF StreamInv, StreamTypes, SocketInv, SocketTypes
<1>1. CASE UNCHANGED Socket!vars
  BY <1>b, <1>i, <1>1 DEF Socket!vars
<1>2. ASSUME NEW s \in Socks, Socket!OnSocketOpen(s) PROVE StreamInv'
  <2>1. /\ s \notin accepted /\ accepted' = accepted \cup {s} /\ query' = [query EXCEPT ![s] = "ip"]
        /\ UNCHANGED flowing /\ UNCHANGED <<closed, closing, broken, session, early>>
    BY <1>2 DEF Socket!OnSocketOpen, Socket!stateVars, Socket!outVars, Socket!writeVars, Socket!sessionVars
  <2>2. \A t \in Socks : t # s => Calm(t)
    BY <1>b, <2>1 DEF Calm
  <2>3. Streamed(s) /\ Attached(s)
    BY DEF StreamInv, SocketInv
  <2>4. /\ ~closed[s] /\ enqueued[s] = <<>> /\ bufferQueue[s] = <<>> /\ writeQueue[s] = <<>> /\ sent[s] = <<>>
        /\ session[s] = "none" /\ ~closing[s]
    BY <2>1, <2>3 DEF Streamed, Attached
  <2> HIDE DEF Socket!Bytes, Socket!FlattenSeq, Socket!IsPrefix
  <2>5. /\ Socket!Bytes(enqueued[s])' = Socket!Bytes(enqueued[s]) /\ Socket!Bytes(bufferQueue[s])' = Socket!Bytes(bufferQueue[s])
        /\ Socket!FlattenSeq(writeQueue[s])' = Socket!FlattenSeq(writeQueue[s])
    BY <2>1
  <2>7. Streamed(s)'
    BY <2>1, <2>3, <2>4, <2>5 DEF Streamed
  <2> QED BY <2>1, <2>2, <2>7, CalmStep DEF StreamInv, StreamTypes
<1>3. ASSUME NEW s \in Socks, Socket!Answer(s) PROVE StreamInv'
  BY <1>b, <1>i, <1>3 DEF Socket!Answer, Socket!stateVars, Socket!outVars, Socket!writeVars, Socket!sessionVars
<1>4. ASSUME NEW s \in Socks, Socket!UpdateSocket(s) PROVE StreamInv'
  BY <1>4, PacksStep DEF Socket!UpdateSocket, Socket!Update, Socket!stateVars, Socket!queryVars, Socket!sessionVars
<1>5. ASSUME Socket!AddNewSockets, UNCHANGED <<accepted, pointer, session, early>> PROVE StreamInv'
  BY <1>b, <1>i, <1>5 DEF Socket!AddNewSockets, Socket!stateVars, Socket!outVars, Socket!writeVars, Socket!queryVars
<1>7. ASSUME NEW s \in Socks, Socket!WriteHandler(s) \/ Socket!UpdateWrites, UNCHANGED <<accepted, pointer, session, early>>
      PROVE  StreamInv'
  <2>1. CASE Socket!WriteHandler(s)
    <3>1. PICK again \in BOOLEAN : Socket!HandleQueue(s, again)
      BY <2>1 DEF Socket!WriteHandler
    <3>2. UNCHANGED <<accepted, closing, bufferQueue, enqueued, broken, query, session, early>>
      BY <1>7, <2>1 DEF Socket!WriteHandler, Socket!queryVars, Socket!outVars
    <3> QED BY <3>1, <3>2, WritesStep
  <2>2. CASE Socket!UpdateWrites
    <3>1. PICK again \in BOOLEAN : Socket!HandleQueue(updating.sock, again)
      BY <2>2 DEF Socket!UpdateWrites
    <3>2. UNCHANGED <<accepted, closing, bufferQueue, enqueued, broken, query, session, early>> /\ updating.step = "write"
      BY <1>7, <2>2 DEF Socket!UpdateWrites, Socket!NetworkFree, Socket!queryVars, Socket!outVars
    <3>3. updating.sock \in Socks
      BY <3>2 DEF SocketInv, InUpdate
    <3> QED BY <3>1, <3>2, <3>3, WritesStep
  <2> QED BY <1>7, <2>1, <2>2
<1>8. ASSUME NEW s \in Socks, Socket!Break(s), UNCHANGED <<accepted, pointer, session, early>> PROVE StreamInv'
  BY <1>b, <1>i, <1>8 DEF Socket!Break, Socket!stateVars, Socket!outVars, Socket!writeVars, Socket!queryVars
<1>9. CASE Socket!ProcessReadyQueries
  <2> DEFINE s == updating.sock
  <2>1. /\ s \in Socks /\ Attached(s)
        /\ UNCHANGED <<accepted, closed, writeQueue, sent, broken>>
    BY <1>9 DEF Socket!ProcessReadyQueries, Socket!NetworkFree, Socket!threadVars, Socket!writeVars, SocketInv, InUpdate
  <2> HIDE DEF s
  <2>2. ASSUME UNCHANGED <<closing, bufferQueue, enqueued, query, session, early>> PROVE StreamInv'
    BY <1>b, <1>i, <2>1, <2>2
  <2>3. ASSUME NEW size \in 1..BufferSize, Socket!Sent(s, size), query[s] \in {"ip", "account"},
               query' = [query EXCEPT ![s] = "none"], UNCHANGED session,
               \/ UNCHANGED <<closing, early>>
               \/ /\ closing' = [closing EXCEPT ![s] = TRUE]
                  /\ early' = IF writeQueue[s] = <<>> THEN early ELSE early \cup {s}
        PROVE  StreamInv'
    <3>1. s \in accepted /\ size \in Nat
      BY <2>1, <2>3 DEF Attached
    <3>2. \A t \in Socks : query'[t] = query[t] \/ query'[t] = "none"
      BY <1>b, <2>3
    <3>3. query'[s] = "none"
      BY <1>b, <2>1, <2>3
    <3>4. bufferQueue[s] = <<>>
      BY <1>9, <2>1, <2>3 DEF Attached, Emptied, Socket!ProcessReadyQueries, Socket!NetworkFree, s
    <3>5. /\ early \subseteq early'
          /\ \/ UNCHANGED closing
             \/ /\ closing' = [closing EXCEPT ![s] = TRUE] /\ query[s] \in {"ip", "account"}
                /\ bufferQueue[s] = <<>> /\ (s \in early' \/ writeQueue[s] = <<>>)
      BY <2>3, <3>4
    <3> QED BY <2>1, <2>3, <3>1, <3>2, <3>3, <3>5, SendsStep
  <2>4. ASSUME UNCHANGED <<closing, bufferQueue, enqueued, early>>, query'[s] \in {"none", "permissions"},
               \A t \in Socks : t # s => query'[t] = query[t] /\ session'[t] = session[t],
               session'[s] # "none"
        PROVE  StreamInv'
    BY <1>b, <1>i, <2>1, <2>4
  <2>5. 1 \in 1..BufferSize /\ BufferSize \in 1..BufferSize
    BY SocketsAssumption DEF Socket!SocketAssumption
  <2>6. ASSUME query[s] \in {"ip", "account"}, Socket!Reject(s) PROVE StreamInv'
    <3>1. Socket!Sent(s, 1) /\ query' = [query EXCEPT ![s] = "none"] /\ UNCHANGED session
          /\ closing' = [closing EXCEPT ![s] = TRUE]
          /\ early' = IF writeQueue[s] = <<>> THEN early ELSE early \cup {s}
      BY <2>6 DEF Socket!Reject, Socket!ErrorSize, Socket!DelayedCloseSocket
    <3> QED BY <2>3, <2>5, <2>6, <3>1
  <2>7. ASSUME query[s] = "ip", Socket!Sent(s, Socket!ChallengeSize), query' = [query EXCEPT ![s] = "none"],
               UNCHANGED <<closing, pointer, session, early>>
        PROVE  StreamInv'
    BY <2>3, <2>5, <2>7 DEF Socket!ChallengeSize
  <2>8. ASSUME Socket!NewSession(s) \/ Socket!LoadSessionPermissionsCallback(s) PROVE StreamInv'
    <3>1. UNCHANGED <<closing, bufferQueue, enqueued, early>> /\ query'[s] \in {"none", "permissions"} /\ session'[s] # "none"
          /\ \A t \in Socks : t # s => query'[t] = query[t] /\ session'[t] = session[t]
      BY <1>b, <2>1, <2>8 DEF Socket!NewSession, Socket!LoadSessionPermissionsCallback, Socket!outVars
    <3> QED BY <2>4, <3>1
  <2> QED BY <1>9, <2>2, <2>6, <2>7, <2>8
          DEF Socket!ProcessReadyQueries, Socket!CheckIpCallback, Socket!HandleAuthSessionCallback, Socket!sessionVars,
              Socket!outVars, s
<1>10. ASSUME NEW s \in Socks, Socket!ReadError(s) PROVE StreamInv'
  <2>1. /\ Socket!CloseSocket(s, "network") /\ reading[s]
        /\ UNCHANGED <<accepted, closing, bufferQueue, writeQueue, enqueued, sent, broken, query, session, early>>
    BY <1>10 DEF Socket!ReadError, Socket!outVars, Socket!writeVars, Socket!queryVars, Socket!sessionVars
  <2>2. s \in accepted /\ ~closing[s] /\ query[s] \notin {"ip", "account"}
    BY <2>1 DEF SocketInv, Attached
  <2> QED BY <2>1, <2>2, ClosesStep
<1>11. ASSUME NEW s \in Socks, Socket!ReadHandler(s) PROVE StreamInv'
  <2>0. /\ reading[s] /\ ~broken[s] /\ UNCHANGED <<accepted, closing, bufferQueue, writeQueue, enqueued, sent, broken, session, early>>
    BY <1>11 DEF Socket!ReadHandler, Socket!outVars, Socket!writeVars, Socket!sessionVars
  <2>1. s \in accepted /\ ~closing[s] /\ query[s] \notin {"ip", "account"} /\ Streamed(s)
    BY <2>0 DEF SocketInv, StreamInv, Attached
  <2>2. ASSUME UNCHANGED <<closed, query>> PROVE StreamInv'
    BY <1>b, <1>i, <2>0, <2>2
  <2>3. ASSUME Socket!CloseSocket(s, "network"), UNCHANGED query PROVE StreamInv'
    BY <2>0, <2>1, <2>3, ClosesStep
  <2>4. ASSUME Socket!IsOpen(s), Socket!HandleAuthSession(s) PROVE StreamInv'
    <3> HIDE DEF Socket!Bytes, Socket!FlattenSeq, Socket!IsPrefix
    <3>1. query' = [query EXCEPT ![s] = "account"] /\ UNCHANGED closed /\ ~closed[s]
      BY <2>4 DEF Socket!HandleAuthSession, Socket!IsOpen
    <3>5. \A t \in Socks : t # s => Calm(t)
      BY <1>b, <2>0, <3>1 DEF Calm
    <3>6. /\ Socket!Bytes(enqueued[s])' = Socket!Bytes(enqueued[s]) /\ Socket!Bytes(bufferQueue[s])' = Socket!Bytes(bufferQueue[s])
          /\ Socket!FlattenSeq(writeQueue[s])' = Socket!FlattenSeq(writeQueue[s])
      BY <2>0
    <3>7. Streamed(s)'
      BY <1>b, <2>0, <2>1, <3>1, <3>6 DEF Streamed
    <3> QED BY <2>0, <3>5, <3>7, CalmStep DEF StreamInv, StreamTypes
  <2> QED BY <1>11, <2>2, <2>3, <2>4 DEF Socket!ReadHandler, Socket!QueueForSession
<1>12. ASSUME NEW s \in Socks, NEW by \in {"network", "world"}, Socket!OnClose(s, by) PROVE StreamInv'
  BY <1>b, <1>i, <1>12 DEF Socket!OnClose, Socket!outVars, Socket!writeVars, Socket!queryVars
<1>13. ASSUME NEW s \in Socks, Socket!SendPacket(s) PROVE StreamInv'
  <2>1. /\ session[s] = "world" /\ UNCHANGED <<accepted, closed, closing, writeQueue, sent, broken, query, session, early>>
        /\ \E size \in {1, BufferSize + 1} : Socket!Sent(s, size)
    BY <1>13 DEF Socket!SendPacket, Socket!WorldFree, Socket!stateVars, Socket!writeVars, Socket!queryVars, Socket!sessionVars
  <2>2. PICK size \in Nat : Socket!Sent(s, size)
    BY <2>1, SocketsAssumption DEF Socket!SocketAssumption
  <2>3. s \in accepted
    BY <2>1 DEF SocketInv, Attached
  <2> QED BY <2>1, <2>2, <2>3, SendsStep
<1>14. ASSUME NEW s \in Socks, Socket!KickPlayer(s) PROVE StreamInv'
  <2>1. /\ Socket!CloseSocket(s, "world") /\ session[s] = "world"
        /\ UNCHANGED <<accepted, closing, bufferQueue, writeQueue, enqueued, sent, broken, query, session, early>>
    BY <1>14 DEF Socket!KickPlayer, Socket!WorldFree, Socket!outVars, Socket!writeVars, Socket!queryVars, Socket!sessionVars
  <2>2. s \in accepted /\ ~closing[s] /\ query[s] \notin {"ip", "account"}
    BY <2>1 DEF SocketInv, Attached
  <2> QED BY <2>1, <2>2, ClosesStep
<1>15. ASSUME NEW s \in Socks, Socket!DeleteSession(s) PROVE StreamInv'
  BY <1>b, <1>i, <1>15 DEF Socket!DeleteSession, Socket!stateVars, Socket!outVars, Socket!writeVars, Socket!queryVars
<1> QED BY <1>1, <1>2, <1>3, <1>4, <1>5, <1>7, <1>8, <1>9, <1>10, <1>11, <1>12, <1>13, <1>14, <1>15
        DEF Socket!Next, Socket!NetworkThread, Socket!sessionVars

\* Nothing is put into the emptied queue before the results are taken.
LEMMA EmptiedStep == SocketInv /\ StreamInv /\ Emptied /\ [Socket!Next]_Socket!vars => Emptied'
<1> SUFFICES ASSUME SocketInv, StreamInv, Emptied, [Socket!Next]_Socket!vars PROVE Emptied'
  OBVIOUS
<1>0. /\ session \in [Socks -> {"none", "created", "world", "deleted"}] /\ bufferQueue \in [Socks -> Seq(Packet)]
      /\ updating.step # "idle" => updating.sock \in Socks
      /\ updating \in [sock : Socks \cup {NoSock}, step : {"idle", "write", "queries"}]
  BY DEF StreamInv, StreamTypes, SocketInv, SocketTypes, InUpdate
<1>i. ASSUME UNCHANGED <<bufferQueue, session>>, updating'.step = "idle" \/ (updating.step # "idle" /\ updating'.sock = updating.sock)
      PROVE  Emptied'
  BY <1>i DEF Emptied
<1>1. CASE UNCHANGED Socket!vars
  BY <1>i, <1>1 DEF Socket!vars
<1>2. ASSUME NEW s \in Socks,
             \/ Socket!OnSocketOpen(s) \/ Socket!Answer(s) \/ Socket!ReadError(s) \/ Socket!ReadHandler(s)
             \/ Socket!OnClose(s, "network") \/ Socket!OnClose(s, "world") \/ Socket!KickPlayer(s)
      PROVE  Emptied'
  <2>1. UNCHANGED <<bufferQueue, session, updating>>
    BY <1>2 DEF Socket!OnSocketOpen, Socket!Answer, Socket!ReadError, Socket!ReadHandler, Socket!OnClose,
                Socket!KickPlayer, Socket!outVars, Socket!sessionVars
  <2> QED BY <1>i, <2>1
<1>3. ASSUME NEW s \in Socks, Socket!AddNewSockets \/ Socket!WriteHandler(s) \/ Socket!Break(s),
             UNCHANGED <<accepted, pointer, session, early>>
      PROVE  Emptied'
  <2>1. UNCHANGED <<bufferQueue, updating>>
    BY <1>3 DEF Socket!AddNewSockets, Socket!WriteHandler, Socket!Break, Socket!outVars
  <2> QED BY <1>i, <1>3, <2>1
<1>4. ASSUME Socket!UpdateWrites, UNCHANGED <<accepted, pointer, session, early>> PROVE Emptied'
  <2>1. UNCHANGED bufferQueue /\ updating.step = "write" /\ \E step : updating' = [updating EXCEPT !.step = step]
    BY <1>4 DEF Socket!UpdateWrites, Socket!NetworkFree, Socket!outVars
  <2> QED BY <1>0, <1>i, <1>4, <2>1
<1>5. ASSUME NEW s \in Socks, Socket!UpdateSocket(s) PROVE Emptied'
  <2>1. /\ bufferQueue' = [bufferQueue EXCEPT ![s] = <<>>] /\ UNCHANGED session /\ updating.step = "idle"
        /\ UNCHANGED updating \/ updating'.sock = s
    BY <1>5 DEF Socket!UpdateSocket, Socket!Update, Socket!NetworkFree, Socket!sessionVars
  <2> QED BY <1>0, <2>1 DEF Emptied
<1>6. CASE Socket!ProcessReadyQueries
  <2>1. updating'.step = "idle"
    BY <1>6 DEF Socket!ProcessReadyQueries
  <2> QED BY <2>1 DEF Emptied
<1>7. ASSUME NEW s \in Socks, Socket!SendPacket(s) PROVE Emptied'
  <2>1. /\ session[s] = "world" /\ UNCHANGED <<session, updating>>
        /\ \A t \in Socks : t # s => bufferQueue'[t] = bufferQueue[t]
    BY <1>0, <1>7 DEF Socket!SendPacket, Socket!WorldFree, Socket!Sent, Socket!outVars, Socket!sessionVars
  <2> QED BY <1>0, <2>1 DEF Emptied
<1>8. ASSUME NEW s \in Socks, Socket!DeleteSession(s) PROVE Emptied'
  <2>1. session' = [session EXCEPT ![s] = "deleted"] /\ UNCHANGED <<bufferQueue, updating>>
    BY <1>8 DEF Socket!DeleteSession, Socket!outVars
  <2> QED BY <1>0, <2>1 DEF Emptied
<1> QED BY <1>1, <1>2, <1>3, <1>4, <1>5, <1>6, <1>7, <1>8
        DEF Socket!Next, Socket!NetworkThread, Socket!sessionVars

\* WorldSocket, Socket: for any packets and any size of the buffers, what the
\* kernel has taken is a prefix of what was sent, a client that was rejected and
\* is still there got everything before its socket closed, or everything but the
\* error response if it was rejected while the challenge was still being written,
\* and the thread's sockets are counted.
THEOREM SocketsAreSound == Socket!Spec => []SocketsSound
<1>1. StreamInv /\ CountInv => SocketsSound
  <2> SUFFICES ASSUME StreamInv, CountInv PROVE SocketsSound
    OBVIOUS
  <2>1. Socket!StreamIsPrefix /\ Socket!ToldBeforeClosing
    BY DEF StreamInv, Streamed, Socket!StreamIsPrefix, Socket!ToldBeforeClosing
  <2>2. Socket!ConnectionsCounted
    BY SameCardinality DEF CountInv, Socket!ConnectionsCounted
  <2> QED BY <2>1, <2>2 DEF SocketsSound, Socket!SocketsSound
<1>2. Socket!Init => Emptied
  BY DEF Socket!Init, Socket!SocketsInit, Emptied
<1> QED BY <1>1, <1>2, SocketInit, SocketStep, CountStep, StreamInit, StreamStep, EmptiedStep, PTL DEF Socket!Spec

-----------------------------------------------------------------------------
(* The other types *)

FlagTypes ==
  /\ accepted \subseteq Socks /\ early \subseteq Socks
  /\ writing \in [Socks -> BOOLEAN] /\ ready \in [Socks -> BOOLEAN]

\* Flags are set and connections accepted one at a time.
LEMMA FlagStep == SocketInv /\ FlagTypes /\ [Socket!Next]_Socket!vars => FlagTypes'
<1> SUFFICES ASSUME SocketInv, FlagTypes, [Socket!Next]_Socket!vars PROVE FlagTypes'
  OBVIOUS
<1>i. ASSUME UNCHANGED <<accepted, early, writing, ready>> PROVE FlagTypes'
  BY <1>i DEF FlagTypes
<1>w. ASSUME NEW s, NEW again \in BOOLEAN, Socket!HandleQueue(s, again) PROVE writing' \in [Socks -> BOOLEAN]
  BY <1>w DEF FlagTypes, Socket!HandleQueue, Socket!Dropped, Socket!Partly, Socket!Whole
<1>1. ASSUME NEW s \in Socks, Socket!OnSocketOpen(s) \/ Socket!Answer(s) PROVE FlagTypes'
  BY <1>1 DEF FlagTypes, Socket!OnSocketOpen, Socket!Answer, Socket!writeVars, Socket!sessionVars
<1>2. ASSUME NEW s \in Socks, Socket!WriteHandler(s), UNCHANGED <<accepted, pointer, session, early>> PROVE FlagTypes'
  <2>1. writing' \in [Socks -> BOOLEAN] /\ UNCHANGED ready
    BY <1>2, <1>w DEF Socket!WriteHandler, Socket!queryVars
  <2> QED BY <1>2, <2>1 DEF FlagTypes
<1>3. ASSUME Socket!UpdateWrites, UNCHANGED <<accepted, pointer, session, early>> PROVE FlagTypes'
  <2>1. writing' \in [Socks -> BOOLEAN] /\ UNCHANGED ready
    BY <1>3, <1>w DEF Socket!UpdateWrites, Socket!queryVars
  <2> QED BY <1>3, <2>1 DEF FlagTypes
<1>4. ASSUME Socket!ProcessReadyQueries PROVE FlagTypes'
  <2>1. /\ UNCHANGED <<accepted, writing>>
        /\ ready' = [ready EXCEPT ![updating.sock] = FALSE] \/ UNCHANGED ready
    BY <1>4 DEF Socket!ProcessReadyQueries, Socket!writeVars
  <2>2. early' \subseteq early \cup {updating.sock} /\ updating.step = "queries"
    BY <1>4 DEF Socket!ProcessReadyQueries, Socket!NetworkFree, Socket!CheckIpCallback, Socket!HandleAuthSessionCallback,
                Socket!Reject, Socket!NewSession, Socket!LoadSessionPermissionsCallback, Socket!sessionVars
  <2>3. updating.sock \in Socks
    BY <2>2 DEF SocketInv, InUpdate
  <2> QED BY <2>1, <2>2, <2>3 DEF FlagTypes
<1>5. CASE UNCHANGED Socket!vars
  BY <1>i, <1>5 DEF Socket!vars
<1>6. ASSUME NEW s \in Socks,
             \/ Socket!ReadError(s) \/ Socket!ReadHandler(s) \/ Socket!OnClose(s, "network")
             \/ Socket!OnClose(s, "world") \/ Socket!SendPacket(s) \/ Socket!KickPlayer(s)
             \/ Socket!DeleteSession(s)
      PROVE  FlagTypes'
  BY <1>i, <1>6
     DEF Socket!ReadError, Socket!ReadHandler, Socket!OnClose, Socket!SendPacket, Socket!KickPlayer,
         Socket!DeleteSession, Socket!writeVars, Socket!queryVars, Socket!sessionVars
<1>7. ASSUME NEW s \in Socks, Socket!Update(s) \/ Socket!AddNewSockets \/ Socket!Break(s),
             UNCHANGED <<accepted, pointer, session, early>>
      PROVE  FlagTypes'
  BY <1>i, <1>7 DEF Socket!Update, Socket!AddNewSockets, Socket!Break, Socket!writeVars, Socket!queryVars
<1> QED BY <1>1, <1>2, <1>3, <1>4, <1>5, <1>6, <1>7
        DEF Socket!Next, Socket!NetworkThread, Socket!UpdateSocket, Socket!sessionVars

\* WorldSocket: the variables of any number of sockets have their types, and no
\* thread has more sockets than there are.
LEMMA SocketTypesAre == Socket!Spec => []Socket!TypeOK
<1>1. SocketInv /\ CountInv /\ StreamInv /\ FlagTypes => Socket!TypeOK
  <2> SUFFICES ASSUME SocketInv, CountInv, StreamInv, FlagTypes PROVE Socket!TypeOK
    OBVIOUS
  <2>1. IsFiniteSet(Socks)
    BY SocketsAssumption DEF Socket!SocketAssumption, Socket!IsFiniteSet, IsFiniteSet
  <2>2. connections \in 0..Socket!Cardinality(Socks)
    <3>1. newSockets \cup sockets \subseteq Socks
      BY DEF CountInv, FlagTypes
    <3>2. /\ Cardinality(newSockets \cup sockets)
               = Cardinality(newSockets) + Cardinality(sockets) - Cardinality(newSockets \cap sockets)
          /\ Cardinality(newSockets) \in Nat /\ Cardinality(sockets) \in Nat
      BY FS_Union, FS_CardinalityType DEF CountInv
    <3>3. /\ Cardinality(newSockets \cup sockets) <= Cardinality(Socks)
          /\ Cardinality(Socks) \in Nat /\ Cardinality(newSockets \cap sockets) = 0
      BY <2>1, <3>1, FS_Subset, FS_CardinalityType, FS_EmptySet DEF CountInv
    <3>4. connections = Cardinality(newSockets) + Cardinality(sockets)
      BY DEF CountInv
    <3>5. connections \in 0..Cardinality(Socks)
      BY <3>2, <3>3, <3>4
    <3> QED BY <3>5, SameCardinality
  <2> QED BY <2>2 DEF Socket!TypeOK, SocketInv, SocketTypes, CountInv, StreamInv, StreamTypes, FlagTypes
<1>2. Socket!Init => FlagTypes
  BY DEF Socket!Init, Socket!SocketsInit, FlagTypes
<1>3. Socket!Init => Emptied
  BY DEF Socket!Init, Socket!SocketsInit, Emptied
<1> QED BY <1>1, <1>2, <1>3, FlagStep, SocketInit, SocketStep, CountStep, StreamInit, StreamStep, EmptiedStep, PTL DEF Socket!Spec
=============================================================================
