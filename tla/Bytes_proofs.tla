---------------------------- MODULE Bytes_proofs ----------------------------
(***************************************************************************)
(* Proofs about the way of bytes.  RingBuffer, for every set of bytes and  *)
(* every size: the two sides stay apart, and the ring implements the byte  *)
(* queue.  Framing, for every base, field size, limit, buffer and set of   *)
(* messages: what is written as a size field is read back, the bytes that  *)
(* no handler has seen are the frames of the messages that none has seen,  *)
(* and so messages arrive whole and in order.                              *)
(***************************************************************************)
EXTENDS MCBytes, SequenceTheorems, WellFoundedInduction, TLAPS

-----------------------------------------------------------------------------
(* The arithmetic of the pointers *)

\* A pointer that moves at most once around the store.
LEMMA Wrap ==
    ASSUME NEW p \in Cells, NEW k \in 0..Size
    PROVE  /\ Advanced(p, k) = IF p + k < Size THEN p + k ELSE p + k - Size
           /\ Advanced(p, k) \in Cells
<1>1. ASSUME NEW x \in Nat, x < Size
      PROVE  x % Size = x
  BY <1>1, RingAssumption
<1>2. ASSUME NEW x \in Nat, x >= Size, x < 2 * Size
      PROVE  x % Size = x - Size
  BY <1>2, RingAssumption
<1>3. p + k \in Nat /\ p + k < 2 * Size
  BY RingAssumption DEF Cells
<1>4. Advanced(p, k) = IF p + k < Size THEN p + k ELSE p + k - Size
  <2> DEFINE x == p + k
  <2>1. x \in Nat /\ x < 2 * Size /\ Advanced(p, k) = x % Size
    BY <1>3 DEF Advanced
  <2> HIDE DEF x
  <2>2. x % Size = IF x < Size THEN x ELSE x - Size
    BY <1>1, <1>2, <2>1, RingAssumption
  <2>3. Advanced(p, k) = IF x < Size THEN x ELSE x - Size
    BY <2>1, <2>2
  <2> QED
    BY <1>3, <2>3, RingAssumption DEF x, Cells
<1> QED
  BY <1>4, RingAssumption DEF Cells

\* Two moves that together stay within the store are one.
LEMMA WrapTwice ==
    ASSUME NEW p \in Cells, NEW j \in Nat, NEW k \in Nat, j + k <= Size
    PROVE  Advanced(Advanced(p, j), k) = Advanced(p, j + k)
<1>1. j \in 0..Size /\ k \in 0..Size /\ j + k \in 0..Size
  BY RingAssumption
<1>2. Advanced(p, j) \in Cells
  BY <1>1, Wrap
<1>3. Advanced(p, j) = IF p + j < Size THEN p + j ELSE p + j - Size
  BY <1>1, Wrap
<1>4. Advanced(p, j + k) = IF p + (j + k) < Size THEN p + (j + k) ELSE p + (j + k) - Size
  BY <1>1, Wrap
<1> DEFINE q == Advanced(p, j)
<1>5. Advanced(q, k) = IF q + k < Size THEN q + k ELSE q + k - Size
  BY <1>1, <1>2, Wrap
<1> HIDE DEF q
<1>6. q = (IF p + j < Size THEN p + j ELSE p + j - Size) /\ q \in Cells
  BY <1>2, <1>3 DEF q
<1>7. Advanced(q, k) = Advanced(p, j + k)
  BY <1>1, <1>4, <1>5, <1>6, RingAssumption DEF Cells
<1> QED
  BY <1>7 DEF q

\* Different moves within the store reach different cells.
LEMMA WrapDistinct ==
    ASSUME NEW p \in Cells, NEW j \in Cells, NEW k \in Cells, j # k
    PROVE  Advanced(p, j) # Advanced(p, k)
<1>1. j \in 0..Size /\ k \in 0..Size
  BY RingAssumption DEF Cells
<1>2. Advanced(p, j) = IF p + j < Size THEN p + j ELSE p + j - Size
  BY <1>1, Wrap
<1>3. Advanced(p, k) = IF p + k < Size THEN p + k ELSE p + k - Size
  BY <1>1, Wrap
<1> QED
  BY <1>2, <1>3, RingAssumption DEF Cells

\* The two buffers together are the cells from p on, around the end of the store.
LEMMA BuffersAre ==
    ASSUME NEW p \in Cells, NEW n \in 0..Size
    PROVE  /\ Buffers(p, n) \in Seq(Cells)
           /\ Len(Buffers(p, n)) = n
           /\ \A i \in 1..n : Buffers(p, n)[i] = Advanced(p, i - 1)
<1>1. ASSUME NEW i \in 1..n
      PROVE  Buffers(p, n)[i] = Advanced(p, i - 1) /\ Buffers(p, n)[i] \in Cells
  <2>1. i - 1 \in 0..Size
    BY RingAssumption
  <2>2. Advanced(p, i - 1) = (IF p + (i - 1) < Size THEN p + (i - 1) ELSE p + (i - 1) - Size)
        /\ Advanced(p, i - 1) \in Cells
    BY <2>1, Wrap
  <2>3. Buffers(p, n)[i] = IF i <= FirstPart(p, n) THEN p + i - 1 ELSE i - FirstPart(p, n) - 1
    BY DEF Buffers
  <2>4. FirstPart(p, n) = IF p + n < Size THEN n ELSE Size - p
    BY RingAssumption DEF FirstPart, Cells
  <2> QED
    BY <2>2, <2>3, <2>4, RingAssumption DEF Cells
<1>2. n \in Nat
  BY RingAssumption
<1>3. Buffers(p, n) \in [1..n -> Cells]
  BY <1>1 DEF Buffers
<1> QED
  BY <1>1, <1>2, <1>3

-----------------------------------------------------------------------------
(* The inductive invariant *)

\* The data lie between the pointers.
PointerInv == writep = Advanced(readp, lockless_getDataAvailable)

\* The producer's cells are free and follow the write pointer, also after the
\* consumer has freed more.
SpaceInv ==
    /\ Len(space) <= freeSpace
    /\ \A i \in 1..Len(space) : space[i] = Advanced(writep, i - 1)

\* The consumer's cells hold data and follow the read pointer, also after the
\* producer has added more; what it has read of them is still there.
ViewInv ==
    /\ Len(view) <= lockless_getDataAvailable
    /\ \A j \in 1..Len(view) : view[j] = Advanced(readp, j - 1)
    /\ \A j \in 1..Len(seen) : seen[j] = store[view[j]]

Inv == TypeOK /\ PointerInv /\ SpaceInv /\ ViewInv

\* The free cells the producer has are none of the cells with data.
LEMMA FreeIsNotData ==
    ASSUME Inv, NEW i \in 1..Len(space), NEW j \in 1..lockless_getDataAvailable
    PROVE  space[i] # Advanced(readp, j - 1)
<1> DEFINE n == lockless_getDataAvailable
<1>1. n \in 0..Size /\ n + freeSpace = Size /\ Len(space) \in Nat
  BY LenProperties, RingAssumption DEF Inv, TypeOK, lockless_getDataAvailable
<1>2. space[i] = Advanced(Advanced(readp, n), i - 1)
  BY DEF Inv, SpaceInv, PointerInv
<1>3. i <= freeSpace /\ i - 1 \in Nat /\ n \in Nat /\ n + (i - 1) <= Size
  BY <1>1, RingAssumption DEF Inv, SpaceInv, TypeOK
<1> HIDE DEF n
<1>4. space[i] = Advanced(readp, n + (i - 1))
  BY <1>2, <1>3, WrapTwice DEF Inv, TypeOK
<1>5. n + (i - 1) \in Cells /\ j - 1 \in Cells /\ n + (i - 1) # j - 1
  BY <1>1, <1>3, RingAssumption DEF Cells, n, Inv, TypeOK
<1> QED
  BY <1>4, <1>5, WrapDistinct DEF Inv, TypeOK

\* The two sides have no cell in common.
LEMMA InvApart == Inv => Apart
<1> SUFFICES ASSUME Inv, NEW i \in DOMAIN space, NEW j \in DOMAIN view
             PROVE  space[i] # view[j]
  BY DEF Apart
<1>1. i \in 1..Len(space) /\ j \in 1..Len(view) /\ Len(view) \in Nat
  BY LenProperties DEF Inv, TypeOK
<1>2. j \in 1..lockless_getDataAvailable
  BY <1>1, RingAssumption DEF Inv, ViewInv, TypeOK, lockless_getDataAvailable
<1>3. view[j] = Advanced(readp, j - 1)
  BY <1>1 DEF Inv, ViewInv
<1> QED
  BY <1>1, <1>2, <1>3, FreeIsNotData

\* The invariant holds after clear().
LEMMA InitInv == Init => Inv
<1> SUFFICES ASSUME Init PROVE Inv
  OBVIOUS
<1>1. 0 \in Cells /\ 0 \in 0..Size
  BY RingAssumption DEF Cells
<1>2. TypeOK
  <2>1. \A S : <<>> \in Seq(S) /\ Len(<<>>) = 0
    OBVIOUS
  <2> QED
    BY <1>1, <2>1, RingAssumption DEF Init, TypeOK
<1>3. PointerInv
  BY <1>1, Wrap, RingAssumption DEF Init, PointerInv, lockless_getDataAvailable, Cells
<1>4. SpaceInv /\ ViewInv
  BY RingAssumption DEF Init, SpaceInv, ViewInv, lockless_getDataAvailable
<1> QED
  BY <1>2, <1>3, <1>4 DEF Inv

\* Every step keeps the invariant.
LEMMA InvStep ==
    ASSUME Inv, [Next]_vars
    PROVE  Inv'
<1> USE DEF Inv
<1>0. /\ lockless_getDataAvailable \in 0..Size /\ freeSpace \in 0..Size /\ Size \in Nat
      /\ lockless_getDataAvailable + freeSpace = Size
      /\ Len(space) \in Nat /\ Len(view) \in Nat /\ Len(seen) \in Nat
  BY LenProperties, RingAssumption DEF TypeOK, lockless_getDataAvailable
<1>1. ASSUME GetSpaceBuffers
      PROVE  Inv'
  <2>1. /\ SpaceOffered \in Seq(Cells) /\ Len(SpaceOffered) = freeSpace
        /\ \A i \in 1..freeSpace : SpaceOffered[i] = Advanced(writep, i - 1)
    BY BuffersAre DEF TypeOK, SpaceOffered
  <2>2. filled = 0
    BY <1>1 DEF GetSpaceBuffers, TypeOK
  <2>3. TypeOK'
    BY <1>0, <1>1, <2>1, <2>2 DEF GetSpaceBuffers, TypeOK
  <2>4. SpaceInv'
    BY <1>0, <1>1, <2>1 DEF GetSpaceBuffers, SpaceInv
  <2> QED
    BY <1>1, <2>3, <2>4
       DEF GetSpaceBuffers, PointerInv, ViewInv, lockless_getDataAvailable
<1>2. ASSUME Fill
      PROVE  Inv'
  <2>1. filled + 1 \in 1..Len(space)
    BY <1>0, <1>2 DEF Fill, TypeOK
  <2>2. space[filled + 1] \in Cells
    BY <2>1, ElementOfSeq DEF TypeOK
  <2>3. TypeOK'
    BY <1>0, <1>2, <2>1, <2>2 DEF Fill, TypeOK
  <2>4. ASSUME NEW j \in 1..Len(seen)
        PROVE  seen[j] = store'[view[j]]
    <3>1. j \in DOMAIN view /\ filled + 1 \in DOMAIN space
      BY <1>0, <2>1, LenProperties DEF TypeOK
    <3>2. view[j] # space[filled + 1]
      BY <3>1, InvApart DEF Apart
    <3>3. view[j] \in Cells
      BY <3>1, LenProperties, ElementOfSeq DEF TypeOK
    <3> QED
      BY <1>2, <2>2, <3>2, <3>3 DEF Fill, TypeOK, ViewInv
  <2> QED
    BY <1>2, <2>3, <2>4
       DEF Fill, PointerInv, SpaceInv, ViewInv, lockless_getDataAvailable
<1>3. ASSUME MarkSpaceUsed
      PROVE  Inv'
  <2>1. filled \in 0..Len(space) /\ Len(space) <= freeSpace /\ filled \in 0..Size
    BY <1>0 DEF TypeOK, SpaceInv
  <2>2. writep' \in Cells
    BY <1>3, <2>1, Wrap DEF MarkSpaceUsed, TypeOK
  <2>3. freeSpace' = freeSpace - filled /\ freeSpace' \in 0..Size
    BY <1>0, <1>3, <2>1 DEF MarkSpaceUsed
  <2>4. <<>> \in Seq(Cells) /\ Len(<<>>) = 0
    OBVIOUS
  <2>5. TypeOK'
    BY <1>3, <2>2, <2>3, <2>4 DEF MarkSpaceUsed, TypeOK
  <2>6. lockless_getDataAvailable' = lockless_getDataAvailable + filled
    BY <1>0, <2>1, <2>3 DEF lockless_getDataAvailable
  <2>7. PointerInv'
    <3> DEFINE n == lockless_getDataAvailable
    <3>1. n \in Nat /\ filled \in Nat /\ n + filled <= Size
      BY <1>0, <2>1
    <3> HIDE DEF n
    <3>2. Advanced(Advanced(readp, n), filled) = Advanced(readp, n + filled)
      BY <3>1, WrapTwice DEF TypeOK
    <3>3. writep' = Advanced(Advanced(readp, n), filled) /\ readp' = readp
      BY <1>3 DEF MarkSpaceUsed, PointerInv, n
    <3> QED
      BY <2>6, <3>2, <3>3 DEF PointerInv, n
  <2>8. SpaceInv'
    BY <1>3, <2>3, <2>4 DEF MarkSpaceUsed, SpaceInv
  <2>9. ViewInv'
    BY <1>0, <1>3, <2>1, <2>6 DEF MarkSpaceUsed, ViewInv
  <2> QED
    BY <2>5, <2>7, <2>8, <2>9
<1>4. ASSUME GetDataBuffers
      PROVE  Inv'
  <2> DEFINE n == lockless_getDataAvailable
  <2>1. /\ Buffers(readp, n) \in Seq(Cells) /\ Len(Buffers(readp, n)) = n
        /\ \A i \in 1..n : Buffers(readp, n)[i] = Advanced(readp, i - 1)
    BY <1>0, BuffersAre DEF TypeOK
  <2>2. <<>> \in Seq(Cells) /\ Len(<<>>) = 0
    OBVIOUS
  <2>3. /\ DataOffered \in Seq(Cells) /\ Len(DataOffered) \in 0..n
        /\ \A i \in 1..Len(DataOffered) : DataOffered[i] = Advanced(readp, i - 1)
    BY <1>0, <2>1, <2>2 DEF DataOffered
  <2>4. Len(seen) = 0 /\ lockless_getDataAvailable' = lockless_getDataAvailable
    BY <1>0, <1>4, <2>2 DEF GetDataBuffers, TypeOK, lockless_getDataAvailable
  <2>5. TypeOK'
    BY <1>0, <1>4, <2>3, <2>4 DEF GetDataBuffers, TypeOK
  <2>6. ViewInv'
    BY <1>0, <1>4, <2>3, <2>4 DEF GetDataBuffers, ViewInv
  <2> QED
    BY <1>4, <2>4, <2>5, <2>6 DEF GetDataBuffers, PointerInv, SpaceInv
<1>5. ASSUME Look
      PROVE  Inv'
  <2> DEFINE k == Len(seen) + 1
  <2>1. k \in 1..Len(view)
    BY <1>0, <1>5 DEF Look
  <2>2. store[view[k]] \in Bytes
    BY <2>1, ElementOfSeq DEF TypeOK
  <2>3. /\ seen' \in Seq(Bytes) /\ Len(seen') = k
        /\ \A j \in 1..Len(seen) : seen'[j] = seen[j]
        /\ seen'[k] = store[view[k]]
    BY <1>5, <2>2, AppendProperties DEF Look, TypeOK
  <2>4. TypeOK'
    BY <1>0, <1>5, <2>1, <2>3 DEF Look, TypeOK
  <2>5. ASSUME NEW j \in 1..Len(seen')
        PROVE  seen'[j] = store[view[j]]
    <3>1. j \in 1..Len(seen) \/ j = k
      BY <1>0, <2>3
    <3> QED
      BY <2>3, <3>1 DEF ViewInv
  <2> QED
    BY <1>5, <2>4, <2>5 DEF Look, PointerInv, SpaceInv, ViewInv, lockless_getDataAvailable
<1>6. ASSUME MarkDataUsed
      PROVE  Inv'
  <2> DEFINE n == lockless_getDataAvailable
  <2>1. PICK amount \in 0..Len(seen) :
           /\ readp' = Advanced(readp, amount)
           /\ freeSpace' = freeSpace + amount
           /\ taken' = SubSeq(seen, 1, amount)
    BY <1>6 DEF MarkDataUsed
  <2>2. amount \in Nat /\ amount <= n /\ amount \in 0..Size
    BY <1>0, <2>1 DEF TypeOK, ViewInv
  <2>3. readp' \in Cells
    BY <2>1, <2>2, Wrap DEF TypeOK
  <2>4. freeSpace' \in 0..Size /\ n' = n - amount /\ n' \in Nat
    BY <1>0, <2>1, <2>2 DEF lockless_getDataAvailable
  <2>5. taken' \in Seq(Bytes)
    BY <1>0, <2>1, SubSeqProperties DEF TypeOK
  <2>6. <<>> \in Seq(Cells) /\ <<>> \in Seq(Bytes) /\ Len(<<>>) = 0
    OBVIOUS
  <2>7. TypeOK'
    BY <1>6, <2>3, <2>4, <2>5, <2>6 DEF MarkDataUsed, TypeOK
  <2> HIDE DEF n
  <2>8. PointerInv'
    <3>1. Advanced(Advanced(readp, amount), n - amount) = Advanced(readp, amount + (n - amount))
      BY <1>0, <2>2, <2>4, WrapTwice DEF TypeOK, n
    <3>2. amount + (n - amount) = n
      BY <1>0, <2>2 DEF n
    <3>3. writep' = Advanced(readp, n)
      BY <1>6 DEF MarkDataUsed, PointerInv, n
    <3>4. writep' = Advanced(readp', n')
      BY <2>1, <2>4, <3>1, <3>2, <3>3
    <3> QED
      BY <3>4 DEF PointerInv, n
  <2>9. SpaceInv'
    BY <1>0, <1>6, <2>1, <2>2 DEF MarkDataUsed, SpaceInv
  <2>10. ViewInv'
    BY <1>6, <2>4, <2>6 DEF MarkDataUsed, ViewInv, n
  <2> QED
    BY <2>7, <2>8, <2>9, <2>10
<1>7. ASSUME UNCHANGED vars
      PROVE  Inv'
  BY <1>7 DEF vars, TypeOK, PointerInv, SpaceInv, ViewInv, lockless_getDataAvailable
<1> QED
  BY <1>1, <1>2, <1>3, <1>4, <1>5, <1>6, <1>7 DEF Next

\* The invariant holds in every reachable state.
LEMMA InvHolds == Spec => []Inv
BY InitInv, InvStep, PTL DEF Spec

\* Indices and counts stay within the store, and no cell is with the producer and
\* with the consumer at a time, although each holds cells it was given before the
\* other one moved its pointer.
THEOREM RingCorrect == Spec => []RingInv
<1>1. Inv => RingInv
  BY InvApart DEF Inv, RingInv
<1> QED
  BY <1>1, InvHolds, PTL

-----------------------------------------------------------------------------
(* The ring implements the byte queue *)

\* The n bytes of store st from the read pointer r on.
DataAt(st, r, n) == [i \in 1..n |-> st[(r + i - 1) % Size]]

\* They are a sequence of bytes, by pointer arithmetic.
LEMMA DataAtIs ==
    ASSUME NEW st \in [Cells -> Bytes], NEW r \in Cells, NEW n \in 0..Size
    PROVE  /\ DataAt(st, r, n) \in Seq(Bytes)
           /\ Len(DataAt(st, r, n)) = n
           /\ \A i \in 1..n : DataAt(st, r, n)[i] = st[Advanced(r, i - 1)]
<1> DEFINE q == DataAt(st, r, n)
<1>1. n \in Nat
  BY RingAssumption
<1>2. ASSUME NEW i \in 1..n
      PROVE  /\ (r + i - 1) % Size = Advanced(r, i - 1)
             /\ Advanced(r, i - 1) \in Cells
  <2>1. r + i - 1 = r + (i - 1) /\ i - 1 \in 0..Size
    BY <1>1, RingAssumption DEF Cells
  <2>2. (r + i - 1) % Size = Advanced(r, i - 1)
    BY <2>1 DEF Advanced
  <2>3. Advanced(r, i - 1) \in Cells
    BY <2>1, Wrap
  <2> QED
    BY <2>2, <2>3
<1>3. \A i \in 1..n : q[i] = st[Advanced(r, i - 1)] /\ q[i] \in Bytes
  BY <1>2 DEF DataAt
<1>4. q \in [1..n -> Bytes]
  BY <1>3 DEF DataAt
<1> HIDE DEF q
<1>5. q \in Seq(Bytes) /\ Len(q) = n
  BY <1>1, <1>4
<1> QED
  BY <1>3, <1>5 DEF q

\* Every step of the ring is a step of the byte queue or leaves it alone.
LEMMA QueueStep ==
    ASSUME Inv, Inv', [Next]_vars
    PROVE  [Queue!Next]_(Queue!queueVars)
<1> USE DEF Inv
<1> DEFINE n == lockless_getDataAvailable
<1>0. /\ n \in 0..Size /\ n \in Nat /\ freeSpace \in 0..Size /\ Size \in Nat /\ n + freeSpace = Size
      /\ Len(space) \in Nat /\ Len(view) \in Nat /\ Len(seen) \in Nat
  BY LenProperties, RingAssumption DEF TypeOK, lockless_getDataAvailable
<1>a. /\ Content \in Seq(Bytes) /\ Len(Content) = n
      /\ \A i \in 1..n : Content[i] = store[Advanced(readp, i - 1)]
  <2>1. store \in [Cells -> Bytes] /\ readp \in Cells
    BY DEF TypeOK
  <2>2. Content = DataAt(store, readp, n)
    BY DEF Content, DataAt
  <2> HIDE DEF n
  <2> QED
    BY <1>0, <2>1, <2>2, DataAtIs
<1>b. /\ Content' \in Seq(Bytes) /\ Len(Content') = n'
      /\ \A i \in 1..n' : Content'[i] = store'[Advanced(readp', i - 1)]
  <2>1. TypeOK'
    OBVIOUS
  <2>2. store' \in [Cells -> Bytes] /\ readp' \in Cells /\ freeSpace' \in 0..Size
    BY <2>1 DEF TypeOK
  <2>3. Size - freeSpace' \in 0..Size
    <3>1. \A f \in 0..Size : Size - f \in 0..Size
      BY RingAssumption
    <3> QED
      BY <2>2, <3>1
  <2>4. n' = Size - freeSpace'
    BY DEF lockless_getDataAvailable
  <2>5. Content' = DataAt(store', readp', Size - freeSpace')
    BY DEF Content, DataAt, lockless_getDataAvailable
  <2> HIDE DEF n
  <2> DEFINE s == store'  r == readp'  k == Size - freeSpace'
  <2>6. s \in [Cells -> Bytes] /\ r \in Cells /\ k \in 0..Size
    BY <2>2, <2>3
  <2> HIDE DEF s, r, k
  <2>7. /\ DataAt(s, r, k) \in Seq(Bytes)
        /\ Len(DataAt(s, r, k)) = k
        /\ \A i \in 1..k : DataAt(s, r, k)[i] = s[Advanced(r, i - 1)]
    BY <2>6, DataAtIs
  <2> QED
    BY <2>4, <2>5, <2>7 DEF s, r, k
<1>1. ASSUME UNCHANGED <<store, freeSpace, readp, taken>>
      PROVE  UNCHANGED Queue!queueVars
  BY <1>1 DEF Queue!queueVars, Content, lockless_getDataAvailable
<1>2. ASSUME Fill
      PROVE  UNCHANGED Queue!queueVars
  <2>1. filled + 1 \in 1..Len(space) /\ n' = n
    BY <1>0, <1>2 DEF Fill, TypeOK, lockless_getDataAvailable
  <2>2. ASSUME NEW i \in 1..n
        PROVE  Content'[i] = Content[i]
    <3>1. space[filled + 1] # Advanced(readp, i - 1)
      BY <2>1, FreeIsNotData
    <3>2. i - 1 \in 0..Size
      BY <1>0
    <3>3. Advanced(readp, i - 1) \in Cells
      BY <3>2, Wrap DEF TypeOK
    <3>4. store'[Advanced(readp, i - 1)] = store[Advanced(readp, i - 1)] /\ readp' = readp
      BY <1>2, <3>1, <3>3 DEF Fill, TypeOK
    <3> QED
      BY <1>a, <1>b, <2>1, <3>4
  <2> HIDE DEF n
  <2>3. Content' = Content
    BY <1>a, <1>b, <2>1, <2>2, SeqEqual
  <2> QED
    BY <1>2, <2>3 DEF Fill, Queue!queueVars
<1>3. ASSUME MarkSpaceUsed
      PROVE  Queue!Put
  <2> DEFINE s == [i \in 1..filled |-> store[space[i]]]
  <2>1. filled \in Nat /\ filled <= freeSpace /\ filled <= Len(space)
    BY <1>0 DEF TypeOK, SpaceInv
  <2>2. n' = n + filled
    BY <1>0, <1>3, <2>1 DEF MarkSpaceUsed, lockless_getDataAvailable
  <2>3. s \in [1..filled -> Bytes]
    BY <1>0, <2>1, ElementOfSeq DEF TypeOK
  <2>4. s \in Seq(Bytes) /\ Len(s) = filled
    BY <2>1, <2>3
  <2>5. ASSUME NEW i \in 1..filled
        PROVE  s[i] = store[Advanced(readp, n + (i - 1))]
    <3>1. space[i] = Advanced(Advanced(readp, n), i - 1)
      BY <1>0, <2>1 DEF SpaceInv, PointerInv
    <3>2. i - 1 \in Nat /\ n + (i - 1) <= Size
      BY <1>0, <2>1
    <3> HIDE DEF n
    <3>3. space[i] = Advanced(readp, n + (i - 1))
      BY <1>0, <3>1, <3>2, WrapTwice DEF TypeOK
    <3> QED
      BY <3>3
  <2> HIDE DEF n, s
  <2>6. /\ Content \o s \in Seq(Bytes) /\ Len(Content \o s) = n + filled
        /\ \A i \in 1..(n + filled) : (Content \o s)[i] = IF i <= n THEN Content[i] ELSE s[i - n]
    BY <1>a, <2>4, ConcatProperties
  <2>7. ASSUME NEW i \in 1..(n + filled)
        PROVE  Content'[i] = (Content \o s)[i]
    <3>1. Content'[i] = store[Advanced(readp, i - 1)]
      BY <1>3, <1>b, <2>2 DEF MarkSpaceUsed
    <3>2. CASE i <= n
      BY <1>0, <1>a, <2>6, <3>1, <3>2
    <3>3. CASE i > n
      <4>1. i - n \in 1..filled /\ n + ((i - n) - 1) = i - 1
        BY <1>0, <2>1, <3>3
      <4>2. s[i - n] = store[Advanced(readp, i - 1)]
        BY <2>5, <4>1
      <4> QED
        BY <1>0, <2>6, <3>1, <3>3, <4>2
    <3>4. i <= n \/ i > n
      BY <1>0, <2>1
    <3> QED
      BY <3>2, <3>3, <3>4
  <2>8. Content' = Content \o s
    BY <1>b, <2>2, <2>6, <2>7, SeqEqual
  <2>9. filled \in 0..(Size - Len(Content))
    BY <1>0, <1>a, <2>1
  <2> QED
    BY <1>3, <2>3, <2>8, <2>9 DEF MarkSpaceUsed, Queue!Put
<1>4. ASSUME MarkDataUsed
      PROVE  Queue!Take
  <2>1. PICK amount \in 0..Len(seen) :
           /\ readp' = Advanced(readp, amount)
           /\ freeSpace' = freeSpace + amount
           /\ taken' = SubSeq(seen, 1, amount)
    BY <1>4 DEF MarkDataUsed
  <2>2. amount \in Nat /\ amount <= n /\ amount <= Len(seen) /\ Len(seen) <= Len(view)
    BY <1>0, <2>1 DEF TypeOK, ViewInv
  <2>3. n' = n - amount
    BY <1>0, <2>1, <2>2 DEF lockless_getDataAvailable
  <2>4. ASSUME NEW i \in 1..Len(seen)
        PROVE  seen[i] = Content[i]
    <3>1. i \in 1..n /\ i \in 1..Len(view)
      BY <1>0, <2>2 DEF ViewInv
    <3>2. seen[i] = store[Advanced(readp, i - 1)]
      BY <3>1 DEF ViewInv
    <3> QED
      BY <1>a, <3>1, <3>2
  <2> DEFINE x == SubSeq(seen, 1, amount)
             y == SubSeq(Content, 1, amount)
             z == SubSeq(Content, amount + 1, n)
  <2> HIDE DEF n
  <2>5. x \in Seq(Bytes) /\ Len(x) = amount /\ \A i \in 1..amount : x[i] = seen[i]
    BY <1>0, <2>2, SubSeqProperties DEF TypeOK
  <2>6. y \in Seq(Bytes) /\ Len(y) = amount /\ \A i \in 1..amount : y[i] = Content[i]
    BY <1>0, <1>a, <2>2, SubSeqProperties
  <2>7. /\ z \in Seq(Bytes) /\ Len(z) = n - amount
        /\ \A i \in 1..(n - amount) : z[i] = Content[amount + i]
    <3>1. amount + 1 \in 1..(Len(Content) + 1) /\ n \in amount..Len(Content)
      BY <1>0, <1>a, <2>2
    <3> QED
      BY <1>0, <1>a, <2>2, <3>1, SubSeqProperties
  <2>8. ASSUME NEW i \in 1..(n - amount)
        PROVE  Content'[i] = Content[amount + i]
    <3>1. Content'[i] = store[Advanced(Advanced(readp, amount), i - 1)]
      BY <1>4, <1>b, <2>1, <2>3 DEF MarkDataUsed
    <3>2. i - 1 \in Nat /\ amount + (i - 1) <= Size /\ amount + (i - 1) = (amount + i) - 1
          /\ amount + i \in 1..n
      BY <1>0, <2>2
    <3>3. Advanced(Advanced(readp, amount), i - 1) = Advanced(readp, amount + (i - 1))
      BY <2>2, <3>2, WrapTwice DEF TypeOK
    <3> QED
      BY <1>a, <3>1, <3>2, <3>3
  <2> HIDE DEF x, y, z
  <2>9. x = y
    <3>1. x \in Seq(Bytes) /\ y \in Seq(Bytes) /\ Len(x) = amount /\ Len(y) = amount
      BY <2>5, <2>6
    <3>2. \A i \in 1..amount : x[i] = y[i]
      BY <1>0, <2>2, <2>4, <2>5, <2>6
    <3> QED
      BY <3>1, <3>2, SeqEqual
  <2>10. Content' = z
    BY <1>b, <2>3, <2>7, <2>8, SeqEqual
  <2>11. taken' = SubSeq(Content, 1, amount)
    BY <2>1, <2>9 DEF x, y
  <2>12. Content' = SubSeq(Content, amount + 1, Len(Content))
    BY <1>a, <2>10 DEF z
  <2>13. amount \in 0..Len(Content)
    BY <1>0, <1>a, <2>2
  <2> QED
    BY <2>11, <2>12, <2>13 DEF Queue!Take
<1> QED
  BY <1>1, <1>2, <1>3, <1>4
     DEF Next, GetSpaceBuffers, GetDataBuffers, Look, vars, Queue!Next

\* The ring buffer is a bounded queue of bytes: what comes out is what went in, in
\* order, across the end of the store and however the two sides interleave.
THEOREM RingIsQueue == Spec => QueueKept
<1>1. Init => Queue!Init
  <2> SUFFICES ASSUME Init PROVE Queue!Init
    OBVIOUS
  <2>1. lockless_getDataAvailable = 0
    BY RingAssumption DEF Init, lockless_getDataAvailable
  <2>2. Content \in Seq(Bytes) /\ Len(Content) = 0
    <3>1. store \in [Cells -> Bytes] /\ readp \in Cells /\ 0 \in 0..Size
      BY InitInv, RingAssumption DEF Inv, TypeOK
    <3>2. Content = DataAt(store, readp, 0)
      BY <2>1 DEF Content, DataAt
    <3> QED
      BY <3>1, <3>2, DataAtIs
  <2> QED
    BY <2>2, EmptySeq DEF Init, Queue!Init
<1>2. Inv /\ Inv' /\ [Next]_vars => [Queue!Next]_(Queue!queueVars)
  BY QueueStep
<1> QED
  BY <1>1, <1>2, InvHolds, PTL DEF Spec, QueueKept, Queue!Spec

-----------------------------------------------------------------------------
(* Numbers and digits *)

\* A set that holds 0 and, with a number, the next one holds all up to N.
LEMMA UpTo ==
    ASSUME NEW N \in Nat, NEW S, 0 \in S, \A i \in 1..N : i - 1 \in S => i \in S
    PROVE  \A i \in 0..N : i \in S
<1> DEFINE T == {i \in 0..N : i \notin S}
           R == OpToRel(<, Nat)
<1> SUFFICES ASSUME T # {}
             PROVE  FALSE
  OBVIOUS
<1>1. IsWellFoundedOn(R, Nat)
  BY NatLessThanWellFounded
<1>2. T \subseteq Nat
  OBVIOUS
<1> HIDE DEF T, R
<1>3. PICK x \in T : \A y \in T : <<y, x>> \notin R
  BY <1>1, <1>2, WFMin
<1>4. x \in 0..N /\ x \notin S
  BY <1>3 DEF T
<1>5. x \in 1..N /\ x - 1 \in 0..N
  BY <1>4
<1>6. x - 1 \notin S
  BY <1>4, <1>5
<1>7. x - 1 \in T /\ x - 1 \in Nat /\ x \in Nat /\ x - 1 < x
  BY <1>5, <1>6 DEF T
<1>8. <<x - 1, x>> \in R
  BY <1>7 DEF R, OpToRel
<1> QED
  BY <1>3, <1>7, <1>8

\* f is defined on 0..N by recursion, from x with the functions F[i].
ByRecursion(f, N, D, x, F) ==
    /\ f \in [0..N -> D]
    /\ f[0] = x
    /\ \A i \in 1..N : f[i] = F[i][f[i - 1]]

\* Such a function exists.
LEMMA Recursion ==
    ASSUME NEW N \in Nat, NEW D, NEW x \in D, NEW F \in [1..N -> [D -> D]]
    PROVE  \E f : ByRecursion(f, N, D, x, F)
<1> USE DEF ByRecursion
<1> DEFINE Good(k) == \E f : ByRecursion(f, k, D, x, F)
           S == {k \in 0..N : Good(k)}
<1>1. 0 \in S
  <2>1. [i \in 0..0 |-> x] \in [0..0 -> D] /\ [i \in 0..0 |-> x][0] = x
    OBVIOUS
  <2>2. \A i \in 1..0 : FALSE
    OBVIOUS
  <2>3. Good(0)
    BY <2>1, <2>2
  <2> QED
    BY <2>3
<1>2. ASSUME NEW k \in 1..N, k - 1 \in S
      PROVE  k \in S
  <2>1. PICK f \in [0..k-1 -> D] : f[0] = x /\ \A i \in 1..k-1 : f[i] = F[i][f[i - 1]]
    BY <1>2
  <2> DEFINE g == [i \in 0..k |-> IF i = k THEN F[k][f[k - 1]] ELSE f[i]]
  <2>2. k - 1 \in 0..k-1 /\ f[k - 1] \in D /\ F[k] \in [D -> D]
    BY <1>2, <2>1
  <2>3. F[k][f[k - 1]] \in D
    BY <2>2
  <2>4. \A i \in 0..k : i # k => i \in 0..k-1
    BY <1>2
  <2>5. g \in [0..k -> D]
    BY <2>1, <2>3, <2>4
  <2>6. g[0] = x
    BY <1>2, <2>1
  <2>7. ASSUME NEW i \in 1..k
        PROVE  g[i] = F[i][g[i - 1]]
    <3>1. i - 1 \in 0..k /\ i - 1 # k /\ g[i - 1] = f[i - 1]
      BY <1>2, <2>7
    <3>2. CASE i = k
      BY <3>1, <3>2
    <3>3. CASE i # k
      <4>1. i \in 1..k-1 /\ i \in 0..k
        BY <1>2, <3>3
      <4> QED
        BY <2>1, <3>1, <3>3, <4>1
    <3> QED
      BY <3>2, <3>3
  <2> HIDE DEF g
  <2>8. Good(k)
    BY <2>5, <2>6, <2>7
  <2>9. k \in 0..N
    BY <1>2
  <2> QED
    BY <2>8, <2>9
<1> HIDE DEF S
<1>3. \A i \in 0..N : i \in S
  BY <1>1, <1>2, UpTo
<1>4. N \in 0..N
  OBVIOUS
<1> QED
  BY <1>3, <1>4 DEF S

\* Dividing by Base again and again.
LEMMA QuotientsAre ==
    ASSUME Framing!FramingAssumption, NEW n \in Nat
    PROVE  /\ Framing!Quotients(n) \in [0..FieldSize -> Nat]
           /\ Framing!Quotients(n)[0] = n
           /\ \A i \in 1..FieldSize : Framing!Quotients(n)[i] = Framing!Quotients(n)[i - 1] \div Base
<1>0. Base \in Nat \ {0, 1} /\ FieldSize \in Nat /\ FieldSize # 0
  BY DEF Framing!FramingAssumption
<1> DEFINE F == [i \in 1..FieldSize |-> [y \in Nat |-> y \div Base]]
           q == Framing!Quotients(n)
           S == {i \in 0..FieldSize : q[i] \in Nat}
<1>1. \A x \in Nat : x \div Base \in Nat
  BY <1>0
<1>2. F \in [1..FieldSize -> [Nat -> Nat]]
  BY <1>1
<1>3. \A i \in 1..FieldSize : \A x \in Nat : F[i][x] = x \div Base
  OBVIOUS
<1> HIDE DEF F
<1>4. \E f : ByRecursion(f, FieldSize, Nat, n, F)
  BY <1>0, <1>2, Recursion
<1>5. PICK f \in [0..FieldSize -> Nat] :
          f[0] = n /\ \A i \in 1..FieldSize : f[i] = F[i][f[i - 1]]
  BY <1>4 DEF ByRecursion
<1>6. \A i \in 1..FieldSize : i - 1 \in 0..FieldSize
  BY <1>0
<1>7. \A i \in 1..FieldSize : f[i] = f[i - 1] \div Base
  BY <1>3, <1>5, <1>6
<1>8. f = [i \in 0..FieldSize |-> IF i = 0 THEN n ELSE f[i - 1] \div Base]
  BY <1>0, <1>5, <1>7
<1>9. q = [i \in 0..FieldSize |-> IF i = 0 THEN n ELSE q[i - 1] \div Base]
  BY <1>8 DEF Framing!Quotients
<1> HIDE DEF q
<1>10. q[0] = n /\ \A i \in 1..FieldSize : q[i] = q[i - 1] \div Base
  <2>1. \A i \in 0..FieldSize : q[i] = IF i = 0 THEN n ELSE q[i - 1] \div Base
    BY <1>9
  <2> QED
    BY <1>0, <2>1
<1>11. 0 \in S /\ \A i \in 1..FieldSize : i - 1 \in S => i \in S
  <2>1. 0 \in S
    BY <1>0, <1>10
  <2>2. ASSUME NEW i \in 1..FieldSize, i - 1 \in S
        PROVE  i \in S
    <3>1. i \in 0..FieldSize
      BY <1>0
    <3> QED
      BY <1>1, <1>10, <2>2, <3>1
  <2> QED
    BY <2>1, <2>2
<1> HIDE DEF S
<1>12. \A i \in 0..FieldSize : i \in S
  BY <1>0, <1>11, UpTo
<1>13. q \in [0..FieldSize -> Nat]
  BY <1>9, <1>12 DEF S
<1> QED
  BY <1>10, <1>13 DEF q

\* Where the i-th digit from the top is.
Place(i, order) == IF order = "LITTLE" THEN FieldSize + 1 - i ELSE i

\* The sums of which Value is the last.
IsSums(v, s, order) ==
    /\ v \in [0..FieldSize -> Nat]
    /\ v[0] = 0
    /\ \A i \in 1..FieldSize : v[i] = v[i - 1] * Base + s[Place(i, order)]

LEMMA ValueIs ==
    ASSUME Framing!FramingAssumption, NEW order, NEW s, \A i \in 1..FieldSize : s[i] \in Nat
    PROVE  \E v : IsSums(v, s, order) /\ Framing!Value(s, order) = v[FieldSize]
<1>0. Base \in Nat /\ Base # 0 /\ FieldSize \in Nat /\ FieldSize # 0
  BY DEF Framing!FramingAssumption
<1> DEFINE d == [i \in 1..FieldSize |-> s[Place(i, order)]]
           F == [i \in 1..FieldSize |-> [y \in Nat |-> y * Base + d[i]]]
           val == CHOOSE v : v = [i \in 0..FieldSize |->
                                    IF i = 0 THEN 0 ELSE v[i - 1] * Base + s[Place(i, order)]]
           S == {i \in 0..FieldSize : val[i] \in Nat}
<1>1. \A i \in 1..FieldSize : d[i] \in Nat /\ d[i] = s[Place(i, order)]
  BY <1>0 DEF Place
<1> HIDE DEF d
<1>2. \A i \in 1..FieldSize : \A x \in Nat : x * Base + d[i] \in Nat
  BY <1>0, <1>1
<1>3. F \in [1..FieldSize -> [Nat -> Nat]]
  BY <1>2
<1>4. \A i \in 1..FieldSize : \A x \in Nat : F[i][x] = x * Base + d[i]
  OBVIOUS
<1> HIDE DEF F
<1>5. \E f : ByRecursion(f, FieldSize, Nat, 0, F)
  BY <1>0, <1>3, Recursion
<1>6. PICK f \in [0..FieldSize -> Nat] :
          f[0] = 0 /\ \A i \in 1..FieldSize : f[i] = F[i][f[i - 1]]
  BY <1>5 DEF ByRecursion
<1>7. \A i \in 1..FieldSize : i - 1 \in 0..FieldSize
  BY <1>0
<1>8. \A i \in 1..FieldSize : f[i] = f[i - 1] * Base + s[Place(i, order)]
  BY <1>1, <1>4, <1>6, <1>7
<1>9. f = [i \in 0..FieldSize |-> IF i = 0 THEN 0 ELSE f[i - 1] * Base + s[Place(i, order)]]
  BY <1>0, <1>6, <1>8
<1>10. val = [i \in 0..FieldSize |-> IF i = 0 THEN 0 ELSE val[i - 1] * Base + s[Place(i, order)]]
  BY <1>9
<1>11. Framing!Value(s, order) = val[FieldSize]
  BY DEF Framing!Value, Place
<1> HIDE DEF val
<1>12. val[0] = 0 /\ \A i \in 1..FieldSize : val[i] = val[i - 1] * Base + d[i]
  <2>1. \A i \in 0..FieldSize : val[i] = IF i = 0 THEN 0 ELSE val[i - 1] * Base + s[Place(i, order)]
    BY <1>10
  <2> QED
    BY <1>0, <1>1, <2>1
<1>13. 0 \in S /\ \A i \in 1..FieldSize : i - 1 \in S => i \in S
  <2>1. 0 \in S
    BY <1>0, <1>12
  <2>2. ASSUME NEW i \in 1..FieldSize, i - 1 \in S
        PROVE  i \in S
    <3>1. i \in 0..FieldSize
      BY <1>0
    <3> QED
      BY <1>2, <1>12, <2>2, <3>1
  <2> QED
    BY <2>1, <2>2
<1> HIDE DEF S
<1>14. \A i \in 0..FieldSize : i \in S
  BY <1>0, <1>13, UpTo
<1>15. val \in [0..FieldSize -> Nat]
  BY <1>10, <1>14 DEF S
<1> QED
  BY <1>1, <1>11, <1>12, <1>15 DEF IsSums

LEMMA ValueType ==
    ASSUME Framing!FramingAssumption, NEW order, NEW s, \A i \in 1..FieldSize : s[i] \in Nat
    PROVE  Framing!Value(s, order) \in Nat
<1>1. PICK v : IsSums(v, s, order) /\ Framing!Value(s, order) = v[FieldSize]
  BY ValueIs
<1>2. FieldSize \in 0..FieldSize
  BY DEF Framing!FramingAssumption
<1> QED
  BY <1>1, <1>2 DEF IsSums

\* The digits of a number are bytes.
LEMMA DigitsType ==
    ASSUME Framing!FramingAssumption, NEW order, NEW n \in Nat
    PROVE  /\ Framing!Digits(n, order) \in Seq(Framing!Byte)
           /\ Len(Framing!Digits(n, order)) = FieldSize
<1>0. Base \in Nat /\ Base # 0 /\ FieldSize \in Nat /\ FieldSize # 0
  BY DEF Framing!FramingAssumption
<1>1. Framing!Quotients(n) \in [0..FieldSize -> Nat]
  BY QuotientsAre
<1>2. \A x \in Nat : x % Base \in Framing!Byte
  BY <1>0 DEF Framing!Byte
<1>3. \A i \in 1..FieldSize : (IF order = "LITTLE" THEN i - 1 ELSE FieldSize - i) \in 0..FieldSize
  BY <1>0
<1>4. \A i \in 1..FieldSize :
         Framing!Quotients(n)[IF order = "LITTLE" THEN i - 1 ELSE FieldSize - i] % Base \in Framing!Byte
  BY <1>1, <1>2, <1>3
<1>5. Framing!Digits(n, order) \in [1..FieldSize -> Framing!Byte]
  BY <1>4 DEF Framing!Digits
<1> QED
  BY <1>0, <1>5

\* What was written is read: read() after write(), read_little_endian() after
\* write_little_endian().
LEMMA RoundTrip ==
    ASSUME Framing!FramingAssumption, NEW order, NEW n \in Nat, Framing!FitsField(n)
    PROVE  Framing!Value(Framing!Digits(n, order), order) = n
<1>0. Base \in Nat /\ Base # 0 /\ FieldSize \in Nat /\ FieldSize # 0
  BY DEF Framing!FramingAssumption
<1> DEFINE s == Framing!Digits(n, order)
           q == Framing!Quotients(n)
<1>1. /\ q \in [0..FieldSize -> Nat] /\ q[0] = n /\ q[FieldSize] = 0
      /\ \A i \in 1..FieldSize : q[i] = q[i - 1] \div Base
  BY QuotientsAre DEF Framing!FitsField
<1>2. \A i \in 1..FieldSize : s[i] = q[IF order = "LITTLE" THEN i - 1 ELSE FieldSize - i] % Base
  BY DEF Framing!Digits
<1>3. \A i \in 1..FieldSize : s[i] \in Nat
  BY <1>0, DigitsType DEF Framing!Byte
<1> HIDE DEF s, q
<1>4. PICK v : IsSums(v, s, order) /\ Framing!Value(s, order) = v[FieldSize]
  BY <1>3, ValueIs
<1>5. ASSUME NEW i \in 1..FieldSize
      PROVE  s[Place(i, order)] = q[FieldSize - i] % Base
  <2>1. Place(i, order) \in 1..FieldSize
    BY <1>0, <1>5 DEF Place
  <2>2. (IF order = "LITTLE" THEN Place(i, order) - 1 ELSE FieldSize - Place(i, order)) = FieldSize - i
    BY <1>0, <1>5 DEF Place
  <2> QED
    BY <1>2, <2>1, <2>2
<1> DEFINE S == {i \in 0..FieldSize : v[i] = q[FieldSize - i]}
<1>6. 0 \in S
  BY <1>0, <1>1, <1>4 DEF IsSums
<1>7. ASSUME NEW i \in 1..FieldSize, i - 1 \in S
      PROVE  i \in S
  <2> DEFINE x == q[FieldSize - i]
  <2>1. FieldSize - i \in 0..FieldSize /\ FieldSize - (i - 1) \in 1..FieldSize
        /\ FieldSize - (i - 1) - 1 = FieldSize - i /\ i \in 0..FieldSize
    BY <1>0
  <2>2. x \in Nat /\ q[FieldSize - (i - 1)] = x \div Base
    BY <1>1, <2>1
  <2>3. v[i - 1] = x \div Base
    BY <1>7, <2>2
  <2>4. v[i] = v[i - 1] * Base + (x % Base)
    <3>1. \A j \in 1..FieldSize : v[j] = v[j - 1] * Base + s[Place(j, order)]
      BY <1>4 DEF IsSums
    <3>2. s[Place(i, order)] = x % Base
      BY <1>5
    <3> QED
      BY <3>1, <3>2
  <2> HIDE DEF x
  <2>5. PICK y \in Nat : y = x \div Base
    BY <1>0, <2>2
  <2>6. x % Base = x - Base * y
    BY <1>0, <2>2, <2>5
  <2>7. y * Base = Base * y /\ Base * y \in Nat
    BY <1>0
  <2>8. v[i] = x
    <3>1. v[i] = y * Base + (x - Base * y)
      BY <2>3, <2>4, <2>5, <2>6
    <3> QED
      BY <2>2, <2>7, <3>1
  <2> QED
    BY <2>1, <2>8 DEF x
<1> HIDE DEF S
<1>8. FieldSize \in S
  <2>1. \A i \in 0..FieldSize : i \in S
    BY <1>0, <1>6, <1>7, UpTo
  <2> QED
    BY <1>0, <2>1
<1> QED
  BY <1>0, <1>1, <1>4, <1>8 DEF S, s

-----------------------------------------------------------------------------
(* A stream of frames laid end to end *)

\* off[j] is where the frames up to the j-th end in r, which holds those after the n-th.
Cut(off, r, frames, n) ==
    /\ off \in [n..Len(frames) -> Nat]
    /\ off[n] = 0 /\ off[Len(frames)] = Len(r)
    /\ \A i, j \in n..Len(frames) : i <= j => off[i] <= off[j]
    /\ \A j \in n+1..Len(frames) :
          /\ off[j] = off[j - 1] + Len(frames[j])
          /\ \A k \in 1..Len(frames[j]) : r[off[j - 1] + k] = frames[j][k]

\* r is the frames after the n-th.
Carries(r, frames, n) == \E off : Cut(off, r, frames, n)

\* What Drop leaves.
LEMMA DropIs ==
    ASSUME NEW T, NEW s \in Seq(T), NEW n \in 0..Len(s)
    PROVE  /\ Framing!Drop(s, n) \in Seq(T) /\ Len(Framing!Drop(s, n)) = Len(s) - n
           /\ \A k \in 1..Len(s) - n : Framing!Drop(s, n)[k] = s[n + k]
<1>1. Len(s) \in Nat /\ \A i \in 1..Len(s) : s[i] \in T
  OBVIOUS
<1>2. \A i \in n+1..Len(s) : s[i] \in T
  BY <1>1
<1>3. /\ SubSeq(s, n + 1, Len(s)) \in Seq(T)
      /\ Len(SubSeq(s, n + 1, Len(s))) = IF n + 1 <= Len(s) THEN Len(s) - (n + 1) + 1 ELSE 0
      /\ \A i \in 1..Len(s) - (n + 1) + 1 : SubSeq(s, n + 1, Len(s))[i] = s[(n + 1) + i - 1]
  <2>1. n + 1 \in Int /\ Len(s) \in Int
    BY <1>1
  <2> QED
    BY <1>2, <2>1, SubSeqProperties
<1>4. \A i \in 1..Len(s) - n : i \in 1..Len(s) - (n + 1) + 1 /\ (n + 1) + i - 1 = n + i
  BY <1>1
<1> QED
  BY <1>1, <1>3, <1>4 DEF Framing!Drop

\* Positions of a part of a sequence.
LEMMA Within ==
    ASSUME NEW a \in Nat, NEW l \in Nat, NEW k \in 1..l, NEW m \in Nat, a + l <= m
    PROVE  a + k \in 1..m
  OBVIOUS

\* A frame is added at the end.
LEMMA StreamPush ==
    ASSUME NEW T, NEW r \in Seq(T), NEW frames \in Seq(Seq(T)), NEW n \in 0..Len(frames),
           NEW f \in Seq(T), Carries(r, frames, n)
    PROVE  Carries(r \o f, Append(frames, f), n)
<1> DEFINE L == Len(frames)
           new == Append(frames, f)
<1>1. PICK off : Cut(off, r, frames, n)
  BY DEF Carries
<1> DEFINE o == [j \in n..L+1 |-> IF j = L + 1 THEN Len(r) + Len(f) ELSE off[j]]
<1>2. /\ L \in Nat /\ Len(r) \in Nat /\ Len(f) \in Nat /\ n \in Nat /\ n <= L
      /\ Len(new) = L + 1 /\ new[L + 1] = f /\ \A j \in 1..L : new[j] = frames[j]
  OBVIOUS
<1>3. /\ Len(r \o f) = Len(r) + Len(f)
      /\ \A k \in 1..Len(r) : (r \o f)[k] = r[k]
      /\ \A k \in 1..Len(f) : (r \o f)[Len(r) + k] = f[k]
  BY ConcatProperties
<1>4. /\ off \in [n..L -> Nat] /\ off[n] = 0 /\ off[L] = Len(r)
      /\ \A i, j \in n..L : i <= j => off[i] <= off[j]
      /\ \A j \in n+1..L :
            /\ off[j] = off[j - 1] + Len(frames[j])
            /\ \A k \in 1..Len(frames[j]) : r[off[j - 1] + k] = frames[j][k]
  BY <1>1 DEF Cut
<1> HIDE DEF L, new
<1>5. /\ \A j \in n..L : j \in n..L+1 /\ j # L + 1 /\ o[j] = off[j] /\ off[j] <= Len(r) /\ off[j] \in Nat
      /\ o[L + 1] = Len(r) + Len(f)
  <2>1. \A j \in n..L : j <= L /\ L \in n..L
    BY <1>2
  <2>2. \A j \in n..L : off[j] <= off[L]
    BY <1>4, <2>1
  <2>3. \A j \in n..L : j \in n..L+1 /\ j # L + 1
    BY <1>2
  <2>4. L + 1 \in n..L+1
    BY <1>2
  <2>5. \A j \in n..L : o[j] = off[j]
    BY <2>3
  <2>6. o[L + 1] = Len(r) + Len(f)
    BY <2>4
  <2> HIDE DEF o
  <2> QED
    BY <1>4, <2>2, <2>3, <2>5, <2>6
<1>6. \A j \in n..L+1 : j = L + 1 \/ j \in n..L
  BY <1>2
<1>7. o \in [n..L+1 -> Nat]
  <2>1. Len(r) + Len(f) \in Nat
    BY <1>2
  <2>2. \A j \in n..L+1 : (IF j = L + 1 THEN Len(r) + Len(f) ELSE off[j]) \in Nat
    BY <1>4, <1>6, <2>1
  <2> QED
    BY <2>2
<1> HIDE DEF o
<1>8. \A i, j \in n..L+1 : i <= j => o[i] <= o[j]
  <2> SUFFICES ASSUME NEW i \in n..L+1, NEW j \in n..L+1, i <= j
               PROVE  o[i] <= o[j]
    OBVIOUS
  <2>1. CASE j = L + 1
    <3>1. o[j] = Len(r) + Len(f) /\ Len(r) \in Nat /\ Len(f) \in Nat
      BY <1>2, <1>5, <2>1
    <3>2. CASE i = L + 1
      BY <2>1, <3>1, <3>2
    <3>3. CASE i \in n..L
      <4>1. o[i] <= Len(r) /\ o[i] \in Nat
        BY <1>5, <3>3
      <4> QED
        BY <3>1, <4>1
    <3> QED
      BY <1>6, <3>2, <3>3
  <2>2. CASE j # L + 1
    <3>1. j \in n..L /\ i \in n..L
      BY <1>2, <2>2
    <3> QED
      BY <1>4, <1>5, <3>1
  <2> QED
    BY <2>1, <2>2
<1>9. ASSUME NEW j \in n+1..L+1
      PROVE  /\ o[j] = o[j - 1] + Len(new[j])
             /\ \A k \in 1..Len(new[j]) : (r \o f)[o[j - 1] + k] = new[j][k]
  <2>1. j - 1 \in n..L /\ o[j - 1] = off[j - 1]
    BY <1>2, <1>5
  <2>2. CASE j = L + 1
    <3>1. o[j - 1] = Len(r) /\ o[j] = Len(r) + Len(f) /\ new[j] = f
      BY <1>2, <1>4, <1>5, <2>1, <2>2
    <3> QED
      BY <1>3, <3>1
  <2>3. CASE j # L + 1
    <3>1. j \in n+1..L /\ j \in 1..L /\ j \in n..L
      BY <1>2, <2>3
    <3>2. new[j] = frames[j] /\ o[j] = off[j]
      BY <1>2, <1>5, <3>1
    <3>3. frames[j] \in Seq(T)
      BY <3>1 DEF L
    <3>4. ASSUME NEW k \in 1..Len(frames[j])
          PROVE  (r \o f)[o[j - 1] + k] = new[j][k]
      <4>1. off[j - 1] + k \in 1..Len(r)
        <5>1. off[j] = off[j - 1] + Len(frames[j]) /\ off[j] <= Len(r) /\ off[j - 1] \in Nat
          BY <1>4, <1>5, <2>1, <3>1
        <5>2. PICK a \in Nat, l \in Nat : a = off[j - 1] /\ l = Len(frames[j])
          BY <3>3, <5>1
        <5>3. a + l <= Len(r)
          BY <5>1, <5>2
        <5>4. a + k \in 1..Len(r)
          BY <1>2, <5>2, <5>3, Within
        <5> QED
          BY <5>2, <5>4
      <4> QED
        BY <1>3, <1>4, <2>1, <3>1, <3>2, <4>1
    <3> QED
      BY <1>4, <2>1, <3>1, <3>2, <3>4
  <2> QED
    BY <2>2, <2>3
<1>10. o[n] = 0 /\ o[L + 1] = Len(r \o f)
  BY <1>2, <1>3, <1>4, <1>5
<1>11. Cut(o, r \o f, new, n)
  BY <1>2, <1>7, <1>8, <1>9, <1>10 DEF Cut
<1> QED
  BY <1>11 DEF Carries, new

\* The first frame is at the beginning, the others follow.
LEMMA StreamPop ==
    ASSUME NEW T, NEW r \in Seq(T), NEW frames \in Seq(Seq(T)), NEW n \in 0..Len(frames),
           n < Len(frames), Carries(r, frames, n)
    PROVE  /\ frames[n + 1] \in Seq(T)
           /\ Len(frames[n + 1]) <= Len(r)
           /\ \A k \in 1..Len(frames[n + 1]) : r[k] = frames[n + 1][k]
           /\ Carries(Framing!Drop(r, Len(frames[n + 1])), frames, n + 1)
<1> DEFINE L == Len(frames)
           u == Len(frames[n + 1])
           rest == Framing!Drop(r, u)
<1>1. PICK off : Cut(off, r, frames, n)
  BY DEF Carries
<1>2. /\ L \in Nat /\ Len(r) \in Nat /\ n \in Nat /\ n < L /\ n + 1 \in 1..L
      /\ \A j \in 1..L : frames[j] \in Seq(T)
  OBVIOUS
<1>3. frames[n + 1] \in Seq(T) /\ u \in Nat
  BY <1>2
<1>4. /\ off \in [n..L -> Nat] /\ off[n] = 0 /\ off[L] = Len(r)
      /\ \A i, j \in n..L : i <= j => off[i] <= off[j]
      /\ \A j \in n+1..L :
            /\ off[j] = off[j - 1] + Len(frames[j])
            /\ \A k \in 1..Len(frames[j]) : r[off[j - 1] + k] = frames[j][k]
  BY <1>1 DEF Cut
<1> HIDE DEF L
<1>5. n + 1 \in n+1..L /\ n + 1 \in n..L /\ n \in n..L /\ (n + 1) - 1 = n /\ L \in n..L
  BY <1>2
<1>6. off[n + 1] = u /\ \A k \in 1..u : r[k] = frames[n + 1][k]
  <2>0. /\ off[n + 1] = off[(n + 1) - 1] + Len(frames[n + 1])
        /\ \A k \in 1..Len(frames[n + 1]) : r[off[(n + 1) - 1] + k] = frames[n + 1][k]
    BY <1>4, <1>5
  <2>1. off[n + 1] = off[n] + u /\ \A k \in 1..u : r[off[n] + k] = frames[n + 1][k]
    BY <1>5, <2>0
  <2>2. \A k \in 1..u : off[n] + k = k
    BY <1>3, <1>4
  <2>3. off[n] + u = u
    BY <1>3, <1>4
  <2> QED
    BY <2>1, <2>2, <2>3
<1>7. u <= Len(r)
  BY <1>2, <1>4, <1>5, <1>6
<1>8. u \in 0..Len(r)
  BY <1>2, <1>3, <1>7
<1> HIDE DEF u
<1>9. /\ rest \in Seq(T) /\ Len(rest) = Len(r) - u
      /\ \A k \in 1..Len(r) - u : rest[k] = r[u + k]
  BY <1>8, DropIs
<1> HIDE DEF rest
<1> DEFINE o == [j \in n+1..L |-> off[j] - u]
<1>10. \A j \in n+1..L : j \in n..L /\ off[j] \in Nat /\ off[j] >= u /\ off[j] <= Len(r)
  <2>1. \A j \in n+1..L : j \in n..L /\ n + 1 <= j /\ j <= L
    BY <1>2
  <2>2. \A j \in n+1..L : off[n + 1] <= off[j] /\ off[j] <= off[L]
    BY <1>4, <1>5, <2>1
  <2> QED
    BY <1>4, <1>6, <2>1, <2>2
<1>11. o \in [n+1..L -> Nat] /\ \A j \in n+1..L : o[j] = off[j] - u
  BY <1>3, <1>10 DEF u
<1> HIDE DEF o
<1>12. o[n + 1] = 0 /\ o[L] = Len(rest)
  <2>1. L \in n+1..L
    BY <1>2
  <2>2. o[n + 1] = u - u /\ u \in Nat
    BY <1>3, <1>5, <1>6, <1>11 DEF u
  <2>3. o[L] = Len(r) - u
    BY <1>4, <1>11, <2>1
  <2> QED
    BY <1>9, <2>2, <2>3
<1>13. \A i, j \in n+1..L : i <= j => o[i] <= o[j]
  <2> SUFFICES ASSUME NEW i \in n+1..L, NEW j \in n+1..L, i <= j
               PROVE  o[i] <= o[j]
    OBVIOUS
  <2>1. off[i] <= off[j] /\ off[i] \in Nat /\ off[j] \in Nat /\ u \in Nat
    BY <1>3, <1>4, <1>10 DEF u
  <2> QED
    BY <1>11, <2>1
<1>14. ASSUME NEW j \in (n+1)+1..L
       PROVE  /\ o[j] = o[j - 1] + Len(frames[j])
              /\ \A k \in 1..Len(frames[j]) : rest[o[j - 1] + k] = frames[j][k]
  <2>1. j - 1 \in n+1..L /\ j \in n+1..L /\ j \in 1..L
    BY <1>2
  <2>2. off[j] = off[j - 1] + Len(frames[j]) /\ frames[j] \in Seq(T) /\ Len(frames[j]) \in Nat
    BY <1>2, <1>4, <2>1
  <2>3. o[j - 1] = off[j - 1] - u /\ o[j] = off[j] - u /\ u \in Nat
        /\ off[j - 1] \in Nat /\ off[j] \in Nat /\ off[j - 1] >= u /\ off[j] <= Len(r)
    BY <1>3, <1>10, <1>11, <2>1 DEF u
  <2>4. o[j] = o[j - 1] + Len(frames[j])
    BY <2>2, <2>3
  <2>5. ASSUME NEW k \in 1..Len(frames[j])
        PROVE  rest[o[j - 1] + k] = frames[j][k]
    <3>1. o[j - 1] + k \in 1..Len(r) - u /\ u + (o[j - 1] + k) = off[j - 1] + k
      <4>1. PICK b \in Nat, c \in Nat, l \in Nat, m \in Nat, v \in Nat :
               b = off[j - 1] /\ c = off[j] /\ l = Len(frames[j]) /\ m = Len(r) /\ v = u
        BY <1>2, <2>2, <2>3
      <4>2. c = b + l /\ b >= v /\ c <= m /\ k \in 1..l /\ o[j - 1] = b - v
        BY <2>2, <2>3, <4>1
      <4>3. b - v \in Nat /\ m - v \in Nat /\ (b - v) + l <= m - v /\ k \in Nat
        BY <4>2
      <4>4. (b - v) + k \in 1..m - v
        BY <4>2, <4>3, Within
      <4>5. v + ((b - v) + k) = b + k
        BY <4>3
      <4> QED
        BY <4>1, <4>2, <4>4, <4>5
    <3>2. r[off[j - 1] + k] = frames[j][k]
      BY <1>4, <2>1
    <3> QED
      BY <1>9, <3>1, <3>2
  <2> QED
    BY <2>4, <2>5
<1>15. Cut(o, rest, frames, n + 1)
  BY <1>11, <1>12, <1>13, <1>14 DEF Cut, L
<1>16. Carries(rest, frames, n + 1)
  BY <1>15 DEF Carries
<1> QED
  BY <1>3, <1>6, <1>7, <1>16 DEF u, rest

\* When every frame is taken nothing is left.
LEMMA StreamEnd ==
    ASSUME NEW r, NEW frames, Carries(r, frames, Len(frames))
    PROVE  Len(r) = 0
  BY DEF Carries, Cut

-----------------------------------------------------------------------------
(* Framing: types, and nothing taken that has not arrived *)

\* What is taken is there, also between two readings.
TakenInv ==
    /\ consumed <= current /\ current <= Len(data)
    /\ phase = "scanning" => current <= Len(Framing!Offered)
    /\ phase \in {"reading", "stuck"} => current = 0 /\ consumed = 0

Shapes == [leader : Leaders \cup {<<>>}, payload : Payloads]
Calls == [call : {"onComplete", "onError", "bad"}, payload : Seq(Framing!Byte)]

BaseInv == Framing!TypeOK /\ TakenInv /\ events \in Seq(Calls)

LEMMA Parameters ==
    ASSUME Framing!FramingAssumption, connection \in Connections
    PROVE  /\ Base \in Nat /\ Base > 1 /\ FieldSize \in Nat /\ FieldSize > 0
           /\ MaxBody \in Nat /\ DetectLimit \in Nat /\ MaxBody < DetectLimit
           /\ MaxRead \in Nat /\ MaxRead > 0
           /\ Framing!Fields \in {1, 2} /\ Framing!PeerOrder \in {"LITTLE", "NETWORK"}
           /\ Framing!BufferSize \in Nat /\ Framing!BufferSize > 0 /\ Framing!WebSocket \in BOOLEAN
           /\ Framing!Fields = 2 => Framing!PeerOrder = "NETWORK"
           /\ Framing!HeadSize = IF Framing!Fields = 1 THEN FieldSize ELSE FieldSize + FieldSize
           /\ Framing!HeadSize \in Nat /\ Framing!HeadSize > 0
<1>1. connection \in Framing!Kinds /\ (connection.fields = 2 => connection.order = "NETWORK")
  BY DEF Framing!FramingAssumption
<1>2. /\ Base \in Nat /\ Base > 1 /\ FieldSize \in Nat /\ FieldSize > 0
      /\ MaxBody \in Nat /\ DetectLimit \in Nat /\ MaxBody < DetectLimit
      /\ MaxRead \in Nat /\ MaxRead > 0
  BY DEF Framing!FramingAssumption
<1>3. /\ Framing!Fields \in {1, 2} /\ Framing!PeerOrder \in {"LITTLE", "NETWORK"}
      /\ Framing!BufferSize \in Nat /\ Framing!BufferSize > 0 /\ Framing!WebSocket \in BOOLEAN
      /\ Framing!Fields = 2 => Framing!PeerOrder = "NETWORK"
  BY <1>1 DEF Framing!Kinds, Framing!Fields, Framing!PeerOrder, Framing!BufferSize,
         Framing!WebSocket
<1>4. Framing!HeadSize = IF Framing!Fields = 1 THEN FieldSize ELSE FieldSize + FieldSize
  BY <1>2, <1>3 DEF Framing!HeadSize
<1> QED
  BY <1>2, <1>3, <1>4

\* A frame: a size field or two, the leader and the payload.
LEMMA EncodeIs ==
    ASSUME Framing!FramingAssumption, connection \in Connections, NEW m \in Shapes
    PROVE  /\ Framing!Encode(m) \in Seq(Framing!Byte)
           /\ m.leader \in Seq(Framing!Byte) /\ m.payload \in Seq(Framing!Byte)
           /\ Len(Framing!Encode(m)) = Framing!HeadSize + Len(m.leader) + Len(m.payload)
           /\ Framing!Fields = 1 => \A i \in 1..FieldSize :
                 Framing!Encode(m)[i] = Framing!Digits(Len(m.payload), Framing!PeerOrder)[i]
           /\ Framing!Fields = 2 => \A i \in 1..FieldSize :
                 /\ Framing!Encode(m)[i] = Framing!Digits(Len(m.leader), Framing!PeerOrder)[i]
                 /\ Framing!Encode(m)[FieldSize + i] = Framing!Digits(Len(m.payload), Framing!PeerOrder)[i]
           /\ \A i \in 1..Len(m.leader) : Framing!Encode(m)[Framing!HeadSize + i] = m.leader[i]
           /\ \A i \in 1..Len(m.payload) :
                 Framing!Encode(m)[Framing!HeadSize + Len(m.leader) + i] = m.payload[i]
<1>1. m.leader \in Seq(Framing!Byte) /\ m.payload \in Seq(Framing!Byte)
  <2>1. m.leader \in Leaders \cup {<<>>} /\ m.payload \in Payloads
    BY DEF Shapes
  <2>2. \A s \in Leaders \cup Payloads : s \in Seq(Framing!Byte)
    BY DEF Framing!FramingAssumption
  <2>3. <<>> \in Seq(Framing!Byte)
    OBVIOUS
  <2> QED
    BY <2>1, <2>2, <2>3
<1> DEFINE l == m.leader
           p == m.payload
           dl == Framing!Digits(Len(m.leader), Framing!PeerOrder)
           dp == Framing!Digits(Len(m.payload), Framing!PeerOrder)
           head == IF Framing!Fields = 1 THEN dp ELSE dl \o dp
<1>2. Len(l) \in Nat /\ Len(p) \in Nat
  BY <1>1
<1>3. dl \in Seq(Framing!Byte) /\ Len(dl) = FieldSize /\ dp \in Seq(Framing!Byte) /\ Len(dp) = FieldSize
  BY <1>2, DigitsType
<1>4. Framing!Encode(m) = (head \o l) \o p
  BY DEF Framing!Encode
<1> HIDE DEF l, p, dl, dp
<1>5. /\ head \in Seq(Framing!Byte) /\ Len(head) = Framing!HeadSize
      /\ Framing!Fields = 1 => \A i \in 1..FieldSize : head[i] = dp[i]
      /\ Framing!Fields = 2 => \A i \in 1..FieldSize : head[i] = dl[i] /\ head[FieldSize + i] = dp[i]
  <2>1. CASE Framing!Fields = 1
    BY <1>3, <2>1, Parameters
  <2>2. CASE Framing!Fields = 2
    <3>1. /\ dl \o dp \in Seq(Framing!Byte) /\ Len(dl \o dp) = Len(dl) + Len(dp)
          /\ \A i \in 1..Len(dl) : (dl \o dp)[i] = dl[i]
          /\ \A i \in 1..Len(dp) : (dl \o dp)[Len(dl) + i] = dp[i]
      BY <1>3
    <3>2. Framing!HeadSize = FieldSize + FieldSize /\ head = dl \o dp
      BY <2>2, Parameters
    <3> HIDE DEF head
    <3> QED
      BY <1>3, <2>2, <3>1, <3>2
  <2> QED
    BY <2>1, <2>2, Parameters
<1> HIDE DEF head
<1>6. l \in Seq(Framing!Byte) /\ p \in Seq(Framing!Byte)
  BY <1>1 DEF l, p
<1>7. /\ head \o l \in Seq(Framing!Byte) /\ Len(head \o l) = Framing!HeadSize + Len(l)
      /\ \A i \in 1..Framing!HeadSize : (head \o l)[i] = head[i]
      /\ \A i \in 1..Len(l) : (head \o l)[Framing!HeadSize + i] = l[i]
  <2>0. head \in Seq(Framing!Byte)
    BY <1>5
  <2>1. Len(head) = Framing!HeadSize
    BY <1>5
  <2>2. /\ head \o l \in Seq(Framing!Byte) /\ Len(head \o l) = Len(head) + Len(l)
        /\ \A i \in 1..Len(head) : (head \o l)[i] = head[i]
        /\ \A i \in 1..Len(l) : (head \o l)[Len(head) + i] = l[i]
    <3>1. l \in Seq(Framing!Byte)
      BY <1>6
    <3> QED
      BY <2>0, <3>1
  <2> QED
    BY <2>1, <2>2
<1> DEFINE hl == head \o l
           n == Framing!HeadSize + Len(l)
<1> HIDE DEF hl
<1>8. /\ hl \o p \in Seq(Framing!Byte) /\ Len(hl \o p) = n + Len(p)
      /\ \A i \in 1..n : (hl \o p)[i] = hl[i]
      /\ \A i \in 1..Len(p) : (hl \o p)[n + i] = p[i]
  <2>0. hl \in Seq(Framing!Byte) /\ Len(hl) = n /\ n \in Nat
    BY <1>6, <1>7, Parameters DEF hl
  <2> HIDE DEF n
  <2> QED
    BY <1>6, <2>0
<1>9. Framing!Encode(m) = hl \o p
  BY <1>4 DEF hl
<1>10. \A i \in 1..Framing!HeadSize : i \in 1..n /\ Framing!Encode(m)[i] = head[i]
  <2>1. \A i \in 1..Framing!HeadSize : i \in 1..n
    BY <1>6, Parameters
  <2> QED
    BY <1>7, <1>8, <1>9, <2>1 DEF hl
<1>11. \A i \in 1..Len(l) : Framing!Encode(m)[Framing!HeadSize + i] = l[i]
  <2>1. \A i \in 1..Len(l) : Framing!HeadSize + i \in 1..n
    BY <1>6, Parameters
  <2> QED
    BY <1>7, <1>8, <1>9, <2>1 DEF hl
<1>12. \A i \in 1..FieldSize :
          i \in 1..Framing!HeadSize /\ (Framing!Fields = 2 => FieldSize + i \in 1..Framing!HeadSize)
  BY Parameters
<1>13. \A i \in 1..Len(p) : Framing!Encode(m)[Framing!HeadSize + Len(l) + i] = p[i]
  BY <1>8, <1>9
<1>14. Framing!Encode(m) \in Seq(Framing!Byte) /\ Len(Framing!Encode(m)) = Framing!HeadSize + Len(l) + Len(p)
  BY <1>8, <1>9
<1>15. /\ Framing!Fields = 1 => \A i \in 1..FieldSize : Framing!Encode(m)[i] = dp[i]
       /\ Framing!Fields = 2 => \A i \in 1..FieldSize :
             Framing!Encode(m)[i] = dl[i] /\ Framing!Encode(m)[FieldSize + i] = dp[i]
  BY <1>5, <1>10, <1>12
<1> QED
  BY <1>1, <1>11, <1>13, <1>14, <1>15 DEF l, p, dl, dp

LEMMA OfferedIs ==
    ASSUME Framing!TypeOK
    PROVE  /\ Framing!Offered \in Seq(Framing!Byte)
           /\ Len(Framing!Offered) \in Nat /\ Len(Framing!Offered) <= Len(data)
           /\ Len(Framing!Offered) > 0 => Framing!Offered = data /\ Len(data) < Framing!BufferSize
<1>1. data \in Seq(Framing!Byte) /\ Len(data) \in Nat /\ <<>> \in Seq(Framing!Byte) /\ Len(<<>>) = 0
  BY DEF Framing!TypeOK
<1>2. CASE Framing!Offered = data /\ Len(data) < Framing!BufferSize
  BY <1>1, <1>2
<1>3. CASE Framing!Offered = <<>>
  <2>1. Len(Framing!Offered) = 0
    BY <1>1, <1>3
  <2> QED
    BY <1>1, <1>3, <2>1
<1> QED
  BY <1>2, <1>3 DEF Framing!Offered

\* The value of a size field, whatever the bytes.
LEMMA FieldType ==
    ASSUME Framing!FramingAssumption, Framing!TypeOK, NEW at \in Nat, NEW order
    PROVE  Framing!Value(Framing!Field(at), order) \in Nat
<1>1. Base \in Nat /\ Base > 1 /\ FieldSize \in Nat
  BY Parameters DEF Framing!TypeOK
<1>2. ASSUME NEW i \in 1..FieldSize
      PROVE  Framing!Field(at)[i] \in Nat
  <2>1. Framing!Field(at)[i] = IF at + i <= Len(Framing!Offered) THEN Framing!Offered[at + i] ELSE Base - 1
    BY DEF Framing!Field
  <2>2. CASE at + i <= Len(Framing!Offered)
    <3>1. at + i \in 1..Len(Framing!Offered)
      BY <1>1, <2>2, OfferedIs
    <3>2. Framing!Offered[at + i] \in Framing!Byte
      BY <3>1, OfferedIs
    <3> QED
      BY <1>1, <2>1, <2>2, <3>2 DEF Framing!Byte
  <2>3. CASE ~(at + i <= Len(Framing!Offered))
    BY <1>1, <2>1, <2>3
  <2> QED
    BY <2>2, <2>3
<1> QED
  BY <1>2, ValueType

\* A header: sizes, and a body that begins behind it and within the data.
LEMMA HeaderIs ==
    ASSUME Framing!FramingAssumption, Framing!TypeOK, Framing!Remaining(current) >= Framing!HeadSize,
           NEW h \in Framing!Header
    PROVE  /\ h.leader \in Nat /\ h.payload \in Nat /\ h.begin \in Nat
           /\ current + Framing!HeadSize <= h.begin /\ h.begin <= Len(Framing!Offered)
           /\ h.order \in {"DUNNO", "LITTLE", "NETWORK"}
<1>1. /\ FieldSize \in Nat /\ FieldSize > 0 /\ Framing!Fields \in {1, 2}
      /\ Framing!HeadSize = IF Framing!Fields = 1 THEN FieldSize ELSE FieldSize + FieldSize
      /\ current \in Nat /\ endianness \in {"DUNNO", "LITTLE", "NETWORK"}
  BY Parameters DEF Framing!TypeOK
<1>2. Len(Framing!Offered) \in Nat /\ Len(Framing!Offered) >= current + Framing!HeadSize
  BY <1>1, OfferedIs DEF Framing!Remaining
<1>3. current + FieldSize \in Nat
  BY <1>1
<1>4. CASE Framing!Fields = 1
  <2>1. PICK f \in Framing!ReadField(current, endianness) :
           h = [leader |-> 0, payload |-> f.size, begin |-> f.end, order |-> f.order]
    BY <1>4 DEF Framing!Header
  <2>2. /\ f.size \in Nat /\ f.order \in {"DUNNO", "LITTLE", "NETWORK"}
        /\ \/ f.end = current + FieldSize
           \/ f.end = IF current + 2 * FieldSize < Len(Framing!Offered) THEN current + 2 * FieldSize
                      ELSE Len(Framing!Offered)
    <3>1. \A o : /\ Framing!Value(Framing!Field(current), o) \in Nat
                 /\ Framing!Value(Framing!Field(current + FieldSize), o) \in Nat
      BY <1>1, <1>3, FieldType
    <3> QED
      BY <1>1, <2>1, <3>1 DEF Framing!ReadField
  <2>3. f.end \in Nat /\ current + FieldSize <= f.end /\ f.end <= Len(Framing!Offered)
    BY <1>1, <1>2, <1>4, <2>2
  <2>4. h.leader = 0 /\ h.payload = f.size /\ h.begin = f.end /\ h.order = f.order
    BY <2>1
  <2> QED
    BY <1>1, <1>4, <2>2, <2>3, <2>4
<1>5. CASE Framing!Fields = 2
  <2>1. /\ h.leader = Framing!Value(Framing!Field(current), "NETWORK")
        /\ h.payload = Framing!Value(Framing!Field(current + FieldSize), "NETWORK")
        /\ h.begin = current + Framing!HeadSize /\ h.order = endianness
    BY <1>5 DEF Framing!Header
  <2> QED
    BY <1>1, <1>2, <1>3, <2>1, FieldType
<1> QED
  BY <1>1, <1>4, <1>5

\* A reading ends: the buffer keeps what was not taken.
LEMMA FinishIs ==
    ASSUME Framing!FramingAssumption, Framing!TypeOK, TakenInv, NEW n \in Nat, Framing!FinishScan(n)
    PROVE  /\ data' \in Seq(Framing!Byte) /\ Len(data') <= Framing!BufferSize
           /\ needed' \in 0..Framing!BufferSize
           /\ phase' \in {"reading", "stuck"}
           /\ current' = 0 /\ consumed' = 0
           /\ UNCHANGED <<connection, sent, wire, events>>
<1>1. /\ Len(data) \in Nat /\ Len(data) <= Framing!BufferSize /\ Framing!BufferSize \in Nat
      /\ consumed \in 0..Len(data) /\ data \in Seq(Framing!Byte)
  BY Parameters DEF Framing!TypeOK, TakenInv
<1>2. data' \in Seq(Framing!Byte) /\ Len(data') = Len(data) - consumed
  BY <1>1, DropIs DEF Framing!FinishScan
<1> DEFINE room == Framing!BufferSize - (Len(data) - consumed)
<1>3. room \in 0..Framing!BufferSize
  BY <1>1
<1>4. needed' = IF n > room THEN room ELSE n
  BY DEF Framing!FinishScan
<1> HIDE DEF room
<1>5. needed' \in 0..Framing!BufferSize
  BY <1>1, <1>3, <1>4
<1> QED
  BY <1>1, <1>2, <1>5 DEF Framing!FinishScan

LEMMA BaseStep ==
    ASSUME Framing!FramingAssumption, BaseInv, [Framing!Next]_(Framing!vars)
    PROVE  BaseInv'
<1> USE DEF BaseInv
<1>1. /\ connection \in Connections /\ Framing!BufferSize \in Nat /\ Framing!BufferSize > 0
      /\ data \in Seq(Framing!Byte) /\ wire \in Seq(Framing!Byte) /\ Len(data) \in Nat /\ Len(wire) \in Nat
      /\ Len(data) <= Framing!BufferSize /\ current \in Nat /\ consumed \in Nat
      /\ Framing!HeadSize \in Nat /\ Framing!HeadSize > 0
  BY Parameters DEF Framing!TypeOK
<1>2. connection' = connection
  BY DEF Framing!Next, Framing!PeerSends, Framing!Receive, Framing!ReceivePiece,
         Framing!ReceiveAgain, Framing!CompleteReading, Framing!Scan, Framing!ScanHeadMissing,
         Framing!ScanNoOrder, Framing!ScanTooLarge, Framing!ScanBodyMissing, Framing!ScanMessage,
         Framing!FinishScan, Framing!Refuse, Framing!vars
<1>3. Framing!BufferSize' = Framing!BufferSize
  BY <1>2 DEF Framing!BufferSize
<1>4. ASSUME Framing!PeerSends
      PROVE  BaseInv'
  <2>1. PICK l \in Leaders \cup {<<>>}, p \in Payloads :
           /\ sent' = Append(sent, [leader |-> l, payload |-> p])
           /\ wire' = wire \o Framing!Encode([leader |-> l, payload |-> p])
    BY <1>4 DEF Framing!PeerSends
  <2>2. UNCHANGED <<data, phase, needed, current, consumed, endianness, events>> /\ Len(sent) < MaxMessages
    BY <1>4 DEF Framing!PeerSends
  <2> DEFINE m == [leader |-> l, payload |-> p]
  <2>3. m \in Shapes
    BY DEF Shapes
  <2>4. Framing!Encode(m) \in Seq(Framing!Byte)
    BY <1>1, <2>3, EncodeIs
  <2> HIDE DEF m
  <2>5. sent' \in Seq(Shapes) /\ Len(sent') = Len(sent) + 1
    BY <2>1, <2>3 DEF Framing!TypeOK, Shapes, m
  <2>6. Len(sent') <= MaxMessages
    BY <2>2, <2>5 DEF Framing!TypeOK, Framing!FramingAssumption
  <2>7. wire' \in Seq(Framing!Byte)
    BY <1>1, <2>1, <2>4 DEF m
  <2>8. Framing!TypeOK'
    BY <1>2, <1>3, <2>2, <2>5, <2>6, <2>7 DEF Framing!TypeOK, Shapes
  <2> QED
    BY <1>3, <2>2, <2>8 DEF TakenInv, Framing!Offered
<1>5. ASSUME NEW n \in 0..Len(wire), n <= Framing!Room, Framing!CompleteReading(n)
      PROVE  BaseInv'
  <2>1. /\ data' = data \o SubSeq(wire, 1, n) /\ wire' = Framing!Drop(wire, n)
        /\ phase' = "scanning" /\ needed' = 0 /\ current' = 0 /\ consumed' = 0
        /\ UNCHANGED <<sent, endianness, events>>
    BY <1>5 DEF Framing!CompleteReading
  <2>2. wire' \in Seq(Framing!Byte)
    BY <1>1, <2>1, DropIs
  <2>3. SubSeq(wire, 1, n) \in Seq(Framing!Byte) /\ Len(SubSeq(wire, 1, n)) = n
    <3>1. \A i \in 1..n : wire[i] \in Framing!Byte
      BY <1>1
    <3> QED
      BY <3>1, SubSeqProperties
  <2>4. data' \in Seq(Framing!Byte) /\ Len(data') = Len(data) + n
    BY <1>1, <2>1, <2>3
  <2>5. Len(data') <= Framing!BufferSize
    BY <1>1, <1>5, <2>4 DEF Framing!Room
  <2>6. Framing!TypeOK'
    BY <1>1, <1>2, <1>3, <2>1, <2>2, <2>4, <2>5 DEF Framing!TypeOK
  <2>7. Len(Framing!Offered') \in Nat /\ Len(data') \in Nat
    BY <2>4, <2>6, OfferedIs, <1>1 DEF Framing!Offered
  <2>8. TakenInv'
    BY <2>1, <2>7 DEF TakenInv
  <2> QED
    BY <2>1, <2>6, <2>8
<1>6. ASSUME Framing!Receive
      PROVE  BaseInv'
  <2>1. PICK n \in needed .. needed - 1 + MaxRead :
           n <= Len(wire) /\ n <= Framing!Room /\ Framing!CompleteReading(n)
    BY <1>6 DEF Framing!Receive
  <2>2. n \in 0..Len(wire)
    BY <1>1, <2>1, Parameters DEF Framing!TypeOK
  <2> QED
    BY <1>5, <2>1, <2>2
<1>7. ASSUME Framing!ReceivePiece
      PROVE  BaseInv'
  <2>1. PICK n \in 1..Len(wire) : n <= Framing!Room /\ Framing!CompleteReading(n)
    BY <1>7 DEF Framing!ReceivePiece
  <2>2. n \in 0..Len(wire)
    BY <1>1, <2>1
  <2> QED
    BY <1>5, <2>1, <2>2
<1>8. ASSUME Framing!ReceiveAgain
      PROVE  BaseInv'
  <2>1. PICK n \in 1..Len(wire) : wire' = Framing!Drop(wire, n)
    BY <1>8 DEF Framing!ReceiveAgain
  <2>2. UNCHANGED <<sent, data, phase, needed, current, consumed, endianness, events>>
    BY <1>8 DEF Framing!ReceiveAgain
  <2>3. wire' \in Seq(Framing!Byte)
    BY <1>1, <2>1, DropIs
  <2>4. Framing!TypeOK'
    BY <1>2, <1>3, <2>2, <2>3 DEF Framing!TypeOK
  <2> QED
    BY <1>3, <2>2, <2>4 DEF TakenInv, Framing!Offered
<1>9. ASSUME NEW n \in Nat, Framing!FinishScan(n), endianness' \in {"DUNNO", "LITTLE", "NETWORK"}
      PROVE  BaseInv'
  <2>1. /\ data' \in Seq(Framing!Byte) /\ Len(data') <= Framing!BufferSize /\ needed' \in 0..Framing!BufferSize
        /\ phase' \in {"reading", "stuck"} /\ current' = 0 /\ consumed' = 0
        /\ UNCHANGED <<connection, sent, wire, events>>
    BY <1>9, FinishIs
  <2>2. Framing!TypeOK'
    BY <1>3, <1>9, <2>1 DEF Framing!TypeOK
  <2>3. Len(data') \in Nat
    BY <2>1
  <2>4. TakenInv'
    BY <2>1, <2>3 DEF TakenInv
  <2> QED
    BY <2>1, <2>2, <2>4
<1>10. ASSUME Framing!Refuse, endianness' \in {"DUNNO", "LITTLE", "NETWORK"}
       PROVE  BaseInv'
  <2>1. phase' = "closed" /\ UNCHANGED <<sent, wire, data, needed, current, consumed, events>>
    BY <1>10 DEF Framing!Refuse
  <2>2. Framing!TypeOK'
    BY <1>2, <1>3, <1>10, <2>1 DEF Framing!TypeOK
  <2> QED
    BY <2>1, <2>2 DEF TakenInv
<1>11. ASSUME Framing!ScanHeadMissing
       PROVE  BaseInv'
  <2>1. /\ Framing!Remaining(current) < Framing!HeadSize /\ endianness' = endianness
        /\ Framing!FinishScan(Framing!HeadSize - Framing!Remaining(current))
    BY <1>11 DEF Framing!ScanHeadMissing, Framing!StillNeeded
  <2>2. Framing!HeadSize - Framing!Remaining(current) \in Nat
    BY <1>1, <2>1, OfferedIs DEF Framing!Remaining
  <2> QED
    BY <1>9, <2>1, <2>2 DEF Framing!TypeOK
<1>12. ASSUME Framing!ScanNoOrder
       PROVE  BaseInv'
  BY <1>10, <1>12 DEF Framing!ScanNoOrder, Framing!TypeOK
<1>13. ASSUME Framing!ScanTooLarge
       PROVE  BaseInv'
  <2>1. /\ Framing!Remaining(current) >= Framing!HeadSize /\ Framing!Refuse
        /\ \E h \in Framing!Header : endianness' = h.order
    BY <1>13 DEF Framing!ScanTooLarge
  <2> QED
    BY <1>10, <2>1, HeaderIs
<1>14. ASSUME Framing!ScanBodyMissing
       PROVE  BaseInv'
  <2>1. PICK h \in Framing!Header :
           /\ Framing!BodyMissing(h) /\ endianness' = h.order
           /\ Framing!FinishScan(Framing!StillNeeded(h.leader + h.payload, h.begin))
    BY <1>14 DEF Framing!ScanBodyMissing
  <2>2. h.leader \in Nat /\ h.payload \in Nat /\ h.begin \in Nat /\ h.order \in {"DUNNO", "LITTLE", "NETWORK"}
    BY <1>14, HeaderIs DEF Framing!ScanBodyMissing
  <2>3. Framing!StillNeeded(h.leader + h.payload, h.begin) \in Nat
    <3>1. PICK a \in Nat, b \in Nat, c \in Nat, o \in Nat :
             a = h.leader /\ b = h.payload /\ c = h.begin /\ o = Len(Framing!Offered)
      BY <2>2, OfferedIs
    <3>2. o - c < a + b
      BY <2>1, <3>1 DEF Framing!BodyMissing, Framing!Remaining
    <3>3. (a + b) - (o - c) \in Nat
      BY <3>2
    <3> QED
      BY <3>1, <3>3 DEF Framing!StillNeeded, Framing!Remaining
  <2> QED
    BY <1>9, <2>1, <2>2, <2>3
<1>15. ASSUME Framing!ScanMessage
       PROVE  BaseInv'
  <2>1. PICK h \in Framing!Header :
           /\ ~Framing!BodyMissing(h) /\ endianness' = h.order
           /\ \/ Framing!Refuse
              \/ /\ events' = Append(events, Framing!CallFor(Framing!LeaderOf(h), Framing!PayloadOf(h)))
                 /\ consumed' = consumed + Framing!Used(h)
                 /\ current' = h.begin + h.leader + h.payload
                 /\ UNCHANGED <<connection, sent, wire, data, phase, needed>>
    BY <1>15 DEF Framing!ScanMessage
  <2>2. phase = "scanning" /\ Framing!Remaining(current) >= Framing!HeadSize
    BY <1>15 DEF Framing!ScanMessage
  <2>3. /\ h.leader \in Nat /\ h.payload \in Nat /\ h.begin \in Nat
        /\ current + Framing!HeadSize <= h.begin /\ h.begin <= Len(Framing!Offered)
        /\ h.order \in {"DUNNO", "LITTLE", "NETWORK"}
    BY <2>2, HeaderIs
  <2>4. CASE Framing!Refuse
    BY <1>10, <2>1, <2>3, <2>4
  <2>5. CASE /\ events' = Append(events, Framing!CallFor(Framing!LeaderOf(h), Framing!PayloadOf(h)))
             /\ consumed' = consumed + Framing!Used(h)
             /\ current' = h.begin + h.leader + h.payload
             /\ UNCHANGED <<sent, wire, data, phase, needed>>
    <3>1. /\ Len(Framing!Offered) - h.begin >= h.leader + h.payload
          /\ Len(Framing!Offered) \in Nat /\ Len(Framing!Offered) <= Len(data)
      BY <2>1, <2>3, OfferedIs DEF Framing!BodyMissing, Framing!Remaining
    <3>2. PICK a \in Nat, b \in Nat, c \in Nat, o \in Nat :
             a = h.leader /\ b = h.payload /\ c = h.begin /\ o = Len(Framing!Offered)
      BY <2>3, <3>1
    <3>3. /\ current' \in Nat /\ current' <= Len(Framing!Offered)
          /\ consumed' \in Nat /\ consumed' <= current'
      <4>1. consumed <= current
        BY DEF TakenInv
      <4>2. PICK u \in Nat, v \in Nat, k \in Nat : u = current /\ v = consumed /\ k = Framing!HeadSize
        BY <1>1
      <4>3. u + k <= c /\ v <= u /\ o - c >= a + b
        BY <2>3, <3>1, <3>2, <4>1, <4>2
      <4>4. current' = c + a + b /\ consumed' = v + (k + a + b)
        BY <2>5, <3>2, <4>2 DEF Framing!Used
      <4>5. c + a + b \in Nat /\ c + a + b <= o /\ v + (k + a + b) \in Nat /\ v + (k + a + b) <= c + a + b
        BY <4>3
      <4> QED
        BY <3>2, <4>4, <4>5
    <3>4. Framing!CallFor(Framing!LeaderOf(h), Framing!PayloadOf(h)) \in Calls
      <4>1. Framing!PayloadOf(h) \in Seq(Framing!Byte)
        <5>1. \A i \in h.begin + h.leader + 1 .. h.begin + h.leader + h.payload :
                 i \in 1..Len(Framing!Offered)
          BY <2>3, <3>1
        <5>2. \A i \in h.begin + h.leader + 1 .. h.begin + h.leader + h.payload :
                 Framing!Offered[i] \in Framing!Byte
          BY <5>1, OfferedIs
        <5> QED
          BY <2>3, <5>2, SubSeqProperties DEF Framing!PayloadOf
      <4>2. Framing!LeaderStatus(Framing!LeaderOf(h)) \in {"onComplete", "onError", "bad"}
        BY DEF Framing!LeaderStatus
      <4> QED
        BY <4>1, <4>2 DEF Framing!CallFor, Calls
    <3>5. events' \in Seq(Calls)
      BY <2>5, <3>4
    <3>6. Framing!TypeOK'
      BY <1>2, <1>3, <2>1, <2>3, <2>5, <3>2, <3>3 DEF Framing!TypeOK
    <3>7. Framing!Offered' = Framing!Offered /\ Len(data') = Len(data)
      BY <1>3, <2>5 DEF Framing!Offered
    <3>8. TakenInv'
      BY <2>2, <2>5, <3>1, <3>2, <3>3, <3>7 DEF TakenInv
    <3> QED
      BY <3>5, <3>6, <3>8
  <2> QED
    BY <2>1, <2>4, <2>5
<1>16. ASSUME UNCHANGED Framing!vars
       PROVE  BaseInv'
  BY <1>2, <1>3, <1>16 DEF Framing!vars, Framing!TypeOK, TakenInv, Framing!Offered
<1> QED
  BY <1>4, <1>6, <1>7, <1>8, <1>11, <1>12, <1>13, <1>14, <1>15, <1>16 DEF Framing!Next,
         Framing!Scan

LEMMA DropNone ==
    ASSUME NEW T, NEW s \in Seq(T)
    PROVE  Framing!Drop(s, 0) = s
  BY SubSeqFull DEF Framing!Drop

LEMMA Associative ==
    \A r, s, t \in Seq(Framing!Byte) : (r \o s) \o t = r \o (s \o t)
  BY ConcatAssociative

\* The parts of a sequence laid together.
LEMMA Glue ==
    ASSUME NEW T, NEW s \in Seq(T), NEW n \in 0..Len(s)
    PROVE  /\ SubSeq(s, 1, n) \in Seq(T)
           /\ SubSeq(s, 1, n) \o Framing!Drop(s, n) = s
<1> DEFINE a == SubSeq(s, 1, n)
           b == Framing!Drop(s, n)
<1>1. Len(s) \in Nat /\ n \in Nat /\ \A i \in 1..n : s[i] \in T
  OBVIOUS
<1>2. a \in Seq(T) /\ Len(a) = n /\ \A i \in 1..n : a[i] = s[i]
  <2>1. /\ a \in Seq(T) /\ Len(a) = IF 1 <= n THEN n - 1 + 1 ELSE 0
        /\ \A i \in 1..n - 1 + 1 : a[i] = s[1 + i - 1]
    BY <1>1, SubSeqProperties
  <2>2. n - 1 + 1 = n /\ \A i \in 1..n : 1 + i - 1 = i
    BY <1>1
  <2> HIDE DEF a
  <2> QED
    BY <1>1, <2>1, <2>2
<1>3. b \in Seq(T) /\ Len(b) = Len(s) - n /\ \A k \in 1..Len(s) - n : b[k] = s[n + k]
  BY DropIs
<1> HIDE DEF a, b
<1>4. /\ a \o b \in Seq(T) /\ Len(a \o b) = Len(s)
      /\ \A i \in 1..Len(s) : (a \o b)[i] = IF i <= n THEN a[i] ELSE b[i - n]
  <2>1. /\ a \o b \in Seq(T) /\ Len(a \o b) = Len(a) + Len(b)
        /\ \A i \in 1..Len(a) + Len(b) : (a \o b)[i] = IF i <= Len(a) THEN a[i] ELSE b[i - Len(a)]
    BY <1>2, <1>3, ConcatProperties
  <2>2. Len(a) + Len(b) = Len(s)
    BY <1>1, <1>2, <1>3
  <2> QED
    BY <1>2, <2>1, <2>2
<1>5. ASSUME NEW i \in 1..Len(s)
      PROVE  (a \o b)[i] = s[i]
  <2>1. CASE i <= n
    <3>1. i \in 1..n
      BY <1>1, <2>1
    <3> QED
      BY <1>2, <1>4, <2>1, <3>1
  <2>2. CASE ~(i <= n)
    <3>1. i - n \in 1..Len(s) - n /\ n + (i - n) = i
      BY <1>1, <2>2
    <3>2. b[i - n] = s[n + (i - n)]
      BY <1>3, <3>1
    <3> QED
      BY <1>4, <2>2, <3>1, <3>2
  <2> QED
    BY <2>1, <2>2
<1>6. a \o b = s
  BY <1>4, <1>5, SeqEqual
<1> QED
  BY <1>2, <1>6 DEF a, b

\* Taking more from the first of two sequences.
LEMMA DropMore ==
    ASSUME NEW T, NEW s \in Seq(T), NEW w \in Seq(T), NEW a \in Nat, NEW u \in Nat, a + u <= Len(s)
    PROVE  Framing!Drop(Framing!Drop(s, a) \o w, u) = Framing!Drop(s, a + u) \o w
<1>1. Len(s) \in Nat /\ Len(w) \in Nat /\ a \in 0..Len(s) /\ a + u \in 0..Len(s)
  OBVIOUS
<1> DEFINE d == Framing!Drop(s, a)
           e == Framing!Drop(s, a + u)
           l == Len(s) - (a + u)
<1>2. d \in Seq(T) /\ Len(d) = Len(s) - a /\ \A k \in 1..Len(s) - a : d[k] = s[a + k]
  BY <1>1, DropIs
<1>3. e \in Seq(T) /\ Len(e) = l /\ \A k \in 1..l : e[k] = s[(a + u) + k]
  BY <1>1, DropIs
<1> HIDE DEF d, e
<1>4. /\ d \o w \in Seq(T) /\ Len(d \o w) = Len(d) + Len(w)
      /\ \A i \in 1..Len(d) + Len(w) : (d \o w)[i] = IF i <= Len(d) THEN d[i] ELSE w[i - Len(d)]
  BY <1>2, ConcatProperties
<1>5. /\ e \o w \in Seq(T) /\ Len(e \o w) = Len(e) + Len(w)
      /\ \A i \in 1..Len(e) + Len(w) : (e \o w)[i] = IF i <= Len(e) THEN e[i] ELSE w[i - Len(e)]
  BY <1>3, ConcatProperties
<1> DEFINE dw == d \o w
           ew == e \o w
<1> HIDE DEF dw, ew
<1>6. u \in 0..Len(dw)
  BY <1>1, <1>2, <1>4 DEF dw
<1>7. /\ Framing!Drop(dw, u) \in Seq(T) /\ Len(Framing!Drop(dw, u)) = Len(dw) - u
      /\ \A k \in 1..Len(dw) - u : Framing!Drop(dw, u)[k] = dw[u + k]
  <2>1. dw \in Seq(T)
    BY <1>4 DEF dw
  <2> QED
    BY <1>6, <2>1, DropIs
<1>8. l \in Nat /\ Len(d) = u + l /\ Len(dw) - u = l + Len(w) /\ Len(ew) = l + Len(w)
  BY <1>1, <1>2, <1>3, <1>4, <1>5 DEF dw, ew
<1>9. ASSUME NEW k \in 1..l + Len(w)
      PROVE  Framing!Drop(dw, u)[k] = ew[k]
  <2>1. PICK x \in Nat, y \in Nat, c \in Nat : x = Len(s) /\ y = Len(w) /\ c = l
    BY <1>1, <1>8
  <2>2. k \in 1..c + y /\ k \in Nat
    BY <2>1
  <2> HIDE DEF l
  <2>3. u + k \in 1..(u + c) + y /\ (u + k <= u + c <=> k <= c) /\ (u + k) - (u + c) = k - c
    BY <2>1, <2>2
  <2>4. dw[u + k] = IF k <= c THEN d[u + k] ELSE w[k - c]
    BY <1>4, <1>8, <2>1, <2>3 DEF dw
  <2>5. ew[k] = IF k <= c THEN e[k] ELSE w[k - c]
    BY <1>3, <1>5, <2>1, <2>2 DEF ew
  <2>6. ASSUME k <= c
        PROVE  d[u + k] = e[k]
    <3>1. k \in 1..l /\ u + k \in 1..Len(d) /\ a + (u + k) = (a + u) + k
      BY <1>8, <2>1, <2>2, <2>6
    <3> QED
      BY <1>2, <1>3, <3>1
  <2>7. Framing!Drop(dw, u)[k] = dw[u + k]
    BY <1>7, <1>8
  <2> QED
    BY <2>4, <2>5, <2>6, <2>7
<1> HIDE DEF l
<1>10. Framing!Drop(dw, u) = ew
  <2>1. ew \in Seq(T)
    BY <1>5 DEF ew
  <2> QED
    BY <1>7, <1>8, <1>9, <2>1, SeqEqual
<1> QED
  BY <1>10 DEF d, e, dw, ew

-----------------------------------------------------------------------------
(* Framing: the bytes to come are the messages to come *)

\* Encode and CallFor, of a connection.
FrameOn(c, m) ==
    (IF c.fields = 1 THEN Framing!Digits(Len(m.payload), c.order)
     ELSE Framing!Digits(Len(m.leader), c.order) \o Framing!Digits(Len(m.payload), c.order))
    \o m.leader \o m.payload

CallOn(c, leader, payload) ==
    LET call == IF Len(leader) + Len(payload) > MaxBody THEN "bad"
                ELSE IF c.fields = 1 THEN "onComplete"
                ELSE Framing!LeaderStatus(leader)
    IN  [call |-> call, payload |-> IF call = "onComplete" THEN payload ELSE <<>>]

LEMMA OnConnection ==
    /\ \A m : Framing!Encode(m) = FrameOn(connection, m)
    /\ \A l, p : Framing!CallFor(l, p) = CallOn(connection, l, p)
  BY DEF Framing!Encode, FrameOn, Framing!CallFor, CallOn, Framing!Fields, Framing!PeerOrder

\* What the peer has sent, framed, and the bytes that no handler has seen.
Frames == [j \in DOMAIN sent |-> FrameOn(connection, sent[j])]
Rest == Framing!Drop(data, consumed) \o wire

\* The order is settled as the peer has it, and all of a header is taken.
SettledInv ==
    /\ Framing!Fields = 1 => endianness \in {"DUNNO", "LITTLE"} /\ \A i \in DOMAIN sent : sent[i].leader = <<>>
    /\ Framing!Fields = 2 => endianness = "NETWORK" /\ \A i \in DOMAIN sent : sent[i].leader \in Leaders
    /\ current = consumed

\* The next message is one that is refused.
NextIsBad ==
    /\ Len(events) < Len(sent)
    /\ CallOn(connection, sent[Len(events) + 1].leader, sent[Len(events) + 1].payload).call = "bad"

CallsInv ==
    /\ Len(events) <= Len(sent)
    /\ \A i \in DOMAIN events : events[i] = CallOn(connection, sent[i].leader, sent[i].payload)
    /\ phase = "closed" => NextIsBad

StreamInv ==
    Framing!Understood =>
    /\ SettledInv
    /\ CallsInv
    /\ phase # "closed" => Carries(Rest, Frames, Len(events))

LEMMA FramesAre ==
    ASSUME Framing!FramingAssumption, Framing!TypeOK
    PROVE  /\ Len(sent) \in Nat /\ DOMAIN sent = 1..Len(sent)
           /\ \A j \in 1..Len(sent) : sent[j] \in Shapes /\ Frames[j] = Framing!Encode(sent[j])
           /\ Frames \in Seq(Seq(Framing!Byte)) /\ Len(Frames) = Len(sent)
<1>1. connection \in Connections /\ sent \in Seq(Shapes)
  BY DEF Framing!TypeOK, Shapes
<1>2. /\ Len(sent) \in Nat /\ DOMAIN sent = 1..Len(sent)
      /\ \A j \in 1..Len(sent) : sent[j] \in Shapes
  BY <1>1
<1>3. \A j \in 1..Len(sent) :
         Framing!Encode(sent[j]) \in Seq(Framing!Byte) /\ Framing!Encode(sent[j]) = FrameOn(connection, sent[j])
  BY <1>1, <1>2, EncodeIs, OnConnection
<1>4. Frames = [j \in 1..Len(sent) |-> FrameOn(connection, sent[j])]
  BY <1>2 DEF Frames
<1>5. /\ Frames \in [1..Len(sent) -> Seq(Framing!Byte)]
      /\ \A j \in 1..Len(sent) : Frames[j] = Framing!Encode(sent[j])
  BY <1>3, <1>4
<1>6. Frames \in Seq(Seq(Framing!Byte)) /\ Len(Frames) = Len(sent)
  BY <1>2, <1>5
<1> QED
  BY <1>2, <1>5, <1>6

\* The bytes to come begin with those in the buffer.
LEMMA RestIs ==
    ASSUME Framing!FramingAssumption, Framing!TypeOK, TakenInv
    PROVE  /\ Rest \in Seq(Framing!Byte) /\ Len(Rest) = Len(data) - consumed + Len(wire)
           /\ \A k \in 1..Len(data) - consumed : Rest[k] = data[consumed + k]
<1>1. /\ data \in Seq(Framing!Byte) /\ wire \in Seq(Framing!Byte) /\ Len(data) \in Nat /\ Len(wire) \in Nat
      /\ consumed \in 0..Len(data)
  BY DEF Framing!TypeOK, TakenInv
<1> DEFINE d == Framing!Drop(data, consumed)
<1>2. /\ d \in Seq(Framing!Byte) /\ Len(d) = Len(data) - consumed
      /\ \A k \in 1..Len(data) - consumed : d[k] = data[consumed + k]
  BY <1>1, DropIs
<1> HIDE DEF d
<1>3. /\ d \o wire \in Seq(Framing!Byte) /\ Len(d \o wire) = Len(d) + Len(wire)
      /\ \A k \in 1..Len(d) : (d \o wire)[k] = d[k]
  <2>1. d \in Seq(Framing!Byte) /\ wire \in Seq(Framing!Byte)
    BY <1>1, <1>2
  <2> QED
    BY <2>1
<1> QED
  BY <1>2, <1>3 DEF Rest, d

\* A complete header in the buffer is that of the next message.
LEMMA HeadRead ==
    ASSUME Framing!FramingAssumption, BaseInv, StreamInv, Framing!Understood, phase = "scanning",
           Framing!Remaining(current) >= Framing!HeadSize
    PROVE  /\ Framing!Offered = data /\ Len(events) \in Nat /\ Len(events) < Len(sent)
           /\ \E m \in Shapes :
                 /\ m = sent[Len(events) + 1]
                 /\ Len(Framing!Encode(m)) <= Len(Rest)
                 /\ \A k \in 1..Len(Framing!Encode(m)) : Rest[k] = Framing!Encode(m)[k]
                 /\ Carries(Framing!Drop(Rest, Len(Framing!Encode(m))), Frames, Len(events) + 1)
                 /\ Framing!Header = {[leader |-> Len(m.leader), payload |-> Len(m.payload),
                               begin |-> current + Framing!HeadSize,
                               order |-> IF Framing!Fields = 1 THEN "LITTLE" ELSE "NETWORK"]}
<1>0. Framing!TypeOK /\ TakenInv /\ events \in Seq(Calls) /\ SettledInv /\ CallsInv
      /\ Carries(Rest, Frames, Len(events))
  BY DEF BaseInv, StreamInv
<1> HIDE DEF BaseInv
<1>1. /\ connection \in Connections /\ data \in Seq(Framing!Byte) /\ Len(data) \in Nat /\ Len(wire) \in Nat
      /\ current \in Nat /\ consumed = current /\ current <= Len(data)
  BY <1>0 DEF Framing!TypeOK, TakenInv, SettledInv
<1>2. /\ FieldSize \in Nat /\ FieldSize > 0 /\ Framing!Fields \in {1, 2}
      /\ Framing!HeadSize \in Nat /\ Framing!HeadSize > 0
      /\ Framing!HeadSize = IF Framing!Fields = 1 THEN FieldSize ELSE FieldSize + FieldSize
      /\ Framing!PeerOrder = IF Framing!Fields = 1 THEN "LITTLE" ELSE "NETWORK"
  BY <1>1, Parameters DEF Framing!Understood
<1>3. Framing!Offered = data /\ current + Framing!HeadSize <= Len(data)
  <2>1. Len(Framing!Offered) \in Nat /\ Len(Framing!Offered) - current >= Framing!HeadSize
    BY <1>0, OfferedIs DEF Framing!Remaining
  <2>2. Len(Framing!Offered) > 0
    BY <1>1, <1>2, <2>1
  <2>3. Framing!Offered = data
    BY <1>0, <2>2, OfferedIs
  <2> QED
    BY <1>1, <1>2, <2>1, <2>3
<1>4. /\ Rest \in Seq(Framing!Byte) /\ Len(Rest) = Len(data) - current + Len(wire)
      /\ \A k \in 1..Len(data) - current : Rest[k] = data[current + k]
  BY <1>0, <1>1, RestIs
<1>5. Len(Rest) >= Framing!HeadSize
  BY <1>1, <1>2, <1>3, <1>4
<1>6. /\ Len(sent) \in Nat /\ Frames \in Seq(Seq(Framing!Byte)) /\ Len(Frames) = Len(sent)
      /\ \A j \in 1..Len(sent) : sent[j] \in Shapes /\ Frames[j] = Framing!Encode(sent[j])
      /\ DOMAIN sent = 1..Len(sent)
  BY <1>0, FramesAre
<1>7. Len(events) \in Nat /\ Len(events) <= Len(sent)
  BY <1>0 DEF CallsInv
<1> DEFINE n == Len(events)
<1> HIDE DEF n
<1>8. n \in Nat /\ n < Len(sent) /\ n + 1 \in 1..Len(sent) /\ n \in 0..Len(Frames)
  <2>1. ASSUME n = Len(sent)
        PROVE  FALSE
    <3>1. Carries(Rest, Frames, Len(Frames))
      BY <1>0, <1>6, <2>1 DEF n
    <3>2. Len(Rest) = 0
      BY <3>1, StreamEnd
    <3> QED
      BY <1>2, <1>5, <3>2
  <2> QED
    BY <1>6, <1>7, <2>1 DEF n
<1>9. PICK m \in Shapes : m = sent[n + 1] /\ Frames[n + 1] = Framing!Encode(m)
  BY <1>6, <1>8
<1>10. /\ Len(Framing!Encode(m)) <= Len(Rest)
       /\ \A k \in 1..Len(Framing!Encode(m)) : Rest[k] = Framing!Encode(m)[k]
       /\ Carries(Framing!Drop(Rest, Len(Framing!Encode(m))), Frames, n + 1)
  <2>1. Carries(Rest, Frames, n) /\ n < Len(Frames)
    BY <1>0, <1>6, <1>8 DEF n
  <2>2. /\ Len(Frames[n + 1]) <= Len(Rest)
        /\ \A k \in 1..Len(Frames[n + 1]) : Rest[k] = Frames[n + 1][k]
        /\ Carries(Framing!Drop(Rest, Len(Frames[n + 1])), Frames, n + 1)
    BY <1>4, <1>6, <1>8, <2>1, StreamPop
  <2> QED
    BY <1>9, <2>2
<1>11. /\ m.leader \in Seq(Framing!Byte) /\ m.payload \in Seq(Framing!Byte)
       /\ Len(Framing!Encode(m)) = Framing!HeadSize + Len(m.leader) + Len(m.payload)
       /\ Framing!Fields = 1 => \A i \in 1..FieldSize :
             Framing!Encode(m)[i] = Framing!Digits(Len(m.payload), Framing!PeerOrder)[i]
       /\ Framing!Fields = 2 => \A i \in 1..FieldSize :
             /\ Framing!Encode(m)[i] = Framing!Digits(Len(m.leader), Framing!PeerOrder)[i]
             /\ Framing!Encode(m)[FieldSize + i] = Framing!Digits(Len(m.payload), Framing!PeerOrder)[i]
  BY <1>1, EncodeIs
<1>12. Len(m.leader) \in Nat /\ Len(m.payload) \in Nat
  BY <1>11
<1>13. \A i \in 1..Framing!HeadSize : current + i <= Len(data) /\ data[current + i] = Framing!Encode(m)[i]
  <2> SUFFICES ASSUME NEW i \in 1..Framing!HeadSize
               PROVE  current + i <= Len(data) /\ data[current + i] = Framing!Encode(m)[i]
    OBVIOUS
  <2>1. PICK a \in Nat, b \in Nat : a = Len(m.leader) /\ b = Len(m.payload)
    BY <1>12
  <2>2. i \in 1..Framing!HeadSize + a + b /\ i \in 1..Len(data) - current /\ current + i <= Len(data)
    <3>1. PICK x \in Nat, c \in Nat, k \in Nat : x = Len(data) /\ c = current /\ k = Framing!HeadSize
      BY <1>1, <1>2
    <3>2. i \in 1..k /\ c + k <= x
      BY <1>3, <3>1
    <3>3. i \in 1..k + a + b /\ i \in 1..x - c /\ c + i <= x
      BY <3>2
    <3> QED
      BY <3>1, <3>3
  <2>3. i \in 1..Len(Framing!Encode(m))
    BY <1>11, <2>1, <2>2
  <2> QED
    BY <1>4, <1>10, <2>2, <2>3
<1>14. ASSUME NEW at \in Nat, NEW size \in Nat,
              \A i \in 1..FieldSize :
                 at + i <= Len(data) /\ data[at + i] = Framing!Digits(size, Framing!PeerOrder)[i],
              Framing!FitsField(size)
       PROVE  Framing!Value(Framing!Field(at), Framing!PeerOrder) = size
  <2>1. Framing!Field(at) = [i \in 1..FieldSize |-> IF at + i <= Len(data) THEN data[at + i] ELSE Base - 1]
    BY <1>3 DEF Framing!Field
  <2>2. \A i \in 1..FieldSize : Framing!Field(at)[i] = Framing!Digits(size, Framing!PeerOrder)[i]
    BY <1>14, <2>1
  <2>3. DOMAIN Framing!Digits(size, Framing!PeerOrder) = 1..FieldSize /\ DOMAIN Framing!Field(at) = 1..FieldSize
    BY <2>1 DEF Framing!Digits
  <2>4. Framing!Field(at) = Framing!Digits(size, Framing!PeerOrder)
    BY <2>1, <2>2, <2>3 DEF Framing!Digits
  <2> QED
    BY <1>14, <2>4, RoundTrip
<1>15. m.payload \in Payloads /\ Framing!FitsField(Len(m.payload))
  BY DEF Shapes, Framing!FramingAssumption
<1> DEFINE h == [leader |-> Len(m.leader), payload |-> Len(m.payload), begin |-> current + Framing!HeadSize,
                 order |-> IF Framing!Fields = 1 THEN "LITTLE" ELSE "NETWORK"]
<1>16. CASE Framing!Fields = 1
  <2>1. m.leader = <<>> /\ Len(m.leader) = 0 /\ endianness \in {"DUNNO", "LITTLE"}
    <3>1. m.leader = <<>> /\ endianness \in {"DUNNO", "LITTLE"}
      BY <1>0, <1>6, <1>8, <1>9, <1>16 DEF SettledInv
    <3>2. Len(<<>>) = 0
      OBVIOUS
    <3> QED
      BY <3>1, <3>2
  <2>2. \A i \in 1..FieldSize :
           current + i <= Len(data) /\ data[current + i] = Framing!Digits(Len(m.payload), Framing!PeerOrder)[i]
    BY <1>2, <1>11, <1>13, <1>16
  <2>3. Framing!Value(Framing!Field(current), "LITTLE") = Len(m.payload)
    BY <1>1, <1>2, <1>12, <1>14, <1>15, <1>16, <2>2
  <2>4. Len(m.payload) < DetectLimit
    BY <1>15, <1>16 DEF Framing!Understood
  <2>5. Framing!ReadField(current, endianness) =
           {[size |-> Len(m.payload), end |-> current + FieldSize, order |-> "LITTLE"]}
    <3>1. CASE endianness = "LITTLE"
      BY <2>3, <3>1 DEF Framing!ReadField
    <3>2. CASE endianness = "DUNNO"
      BY <2>3, <2>4, <3>2 DEF Framing!ReadField
    <3> QED
      BY <2>1, <3>1, <3>2
  <2> DEFINE f == [size |-> Len(m.payload), end |-> current + FieldSize, order |-> "LITTLE"]
  <2>6. Framing!Header = {[leader |-> 0, payload |-> f.size, begin |-> f.end, order |-> f.order]}
    BY <1>16, <2>5 DEF Framing!Header
  <2>7. f.size = Len(m.payload) /\ f.end = current + Framing!HeadSize /\ f.order = "LITTLE"
    BY <1>2, <1>16
  <2>8. Framing!Header = {h}
    BY <1>16, <2>1, <2>6, <2>7
  <2> QED
    BY <1>3, <1>8, <1>9, <1>10, <2>8 DEF n
<1>17. CASE Framing!Fields = 2
  <2>1. endianness = "NETWORK" /\ Framing!PeerOrder = "NETWORK" /\ m.leader \in Leaders
    BY <1>0, <1>2, <1>6, <1>8, <1>9, <1>17 DEF SettledInv
  <2>2. Framing!FitsField(Len(m.leader))
    BY <2>1 DEF Framing!FramingAssumption
  <2>3. \A i \in 1..FieldSize :
           current + i <= Len(data) /\ data[current + i] = Framing!Digits(Len(m.leader), Framing!PeerOrder)[i]
    <3>1. \A i \in 1..FieldSize : i \in 1..Framing!HeadSize
      BY <1>2, <1>17
    <3>2. \A i \in 1..FieldSize : Framing!Encode(m)[i] = Framing!Digits(Len(m.leader), Framing!PeerOrder)[i]
      BY <1>11, <1>17
    <3> QED
      BY <1>13, <3>1, <3>2
  <2>4. ASSUME NEW i \in 1..FieldSize
        PROVE  /\ (current + FieldSize) + i <= Len(data)
               /\ data[(current + FieldSize) + i] = Framing!Digits(Len(m.payload), Framing!PeerOrder)[i]
    <3>1. FieldSize + i \in 1..Framing!HeadSize /\ current + (FieldSize + i) = (current + FieldSize) + i
      BY <1>1, <1>2, <1>17
    <3>2. /\ current + (FieldSize + i) <= Len(data)
          /\ data[current + (FieldSize + i)] = Framing!Encode(m)[FieldSize + i]
      BY <1>13, <3>1
    <3> QED
      BY <1>11, <1>17, <3>1, <3>2
  <2>5. Framing!Value(Framing!Field(current), "NETWORK") = Len(m.leader)
    BY <1>1, <1>12, <1>14, <2>1, <2>2, <2>3
  <2>6. current + FieldSize \in Nat
    BY <1>1, <1>2
  <2>7. Framing!Value(Framing!Field(current + FieldSize), "NETWORK") = Len(m.payload)
    BY <1>12, <1>14, <1>15, <2>1, <2>4, <2>6
  <2>8. Framing!Header = {h}
    BY <1>17, <2>1, <2>5, <2>7 DEF Framing!Header
  <2> QED
    BY <1>3, <1>8, <1>9, <1>10, <2>8 DEF n
<1> QED
  BY <1>2, <1>16, <1>17

\* A part of a sequence, by its elements.
LEMMA PartIs ==
    ASSUME NEW T, NEW s \in Seq(T), NEW t \in Seq(T), NEW e \in Nat, NEW b \in Nat, e + b <= Len(s),
           Len(t) = b, \A i \in 1..b : s[e + i] = t[i]
    PROVE  SubSeq(s, e + 1, e + b) = t
<1> DEFINE p == SubSeq(s, e + 1, e + b)
<1>1. ASSUME NEW i \in e + 1 .. e + b
      PROVE  s[i] \in T
  <2>1. i \in 1..Len(s)
    OBVIOUS
  <2> QED
    BY <2>1
<1>2. /\ p \in Seq(T)
      /\ Len(p) = IF e + 1 <= e + b THEN e + b - (e + 1) + 1 ELSE 0
      /\ \A i \in 1..e + b - (e + 1) + 1 : p[i] = s[(e + 1) + i - 1]
  <2>1. e + 1 \in Int /\ e + b \in Int
    OBVIOUS
  <2> QED
    BY <1>1, <2>1, SubSeqProperties
<1> HIDE DEF p
<1>3. /\ e + b - (e + 1) + 1 = b
      /\ (IF e + 1 <= e + b THEN e + b - (e + 1) + 1 ELSE 0) = b
      /\ \A i \in 1..b : (e + 1) + i - 1 = e + i
  OBVIOUS
<1>4. Len(p) = b /\ \A i \in 1..b : p[i] = s[e + i]
  BY <1>2, <1>3
<1>5. p = t
  BY <1>2, <1>4, SeqEqual
<1> QED
  BY <1>5 DEF p

\* A complete body in the buffer is that of the next message, and what is left
\* after it is the messages after that.
LEMMA BodyRead ==
    ASSUME Framing!FramingAssumption, BaseInv, StreamInv, Framing!Understood, phase = "scanning",
           Framing!Remaining(current) >= Framing!HeadSize, NEW h \in Framing!Header, ~Framing!BodyMissing(h)
    PROVE  /\ Len(events) + 1 \in 1..Len(sent)
           /\ Framing!LeaderOf(h) = sent[Len(events) + 1].leader
           /\ Framing!PayloadOf(h) = sent[Len(events) + 1].payload
           /\ consumed + Framing!Used(h) = h.begin + h.leader + h.payload
           /\ Carries(Framing!Drop(data, consumed + Framing!Used(h)) \o wire, Frames, Len(events) + 1)
<1>0. Framing!TypeOK /\ TakenInv /\ SettledInv
  BY DEF BaseInv, StreamInv
<1>1. /\ data \in Seq(Framing!Byte) /\ wire \in Seq(Framing!Byte) /\ Len(data) \in Nat /\ Len(wire) \in Nat
      /\ current \in Nat /\ consumed = current /\ connection \in Connections
  BY <1>0 DEF Framing!TypeOK, SettledInv
<1>2. Framing!HeadSize \in Nat
  BY <1>1, Parameters
<1>3. PICK m \in Shapes :
         /\ Framing!Offered = data /\ Len(events) \in Nat /\ Len(events) < Len(sent)
         /\ m = sent[Len(events) + 1]
         /\ Len(Framing!Encode(m)) <= Len(Rest)
         /\ \A k \in 1..Len(Framing!Encode(m)) : Rest[k] = Framing!Encode(m)[k]
         /\ Carries(Framing!Drop(Rest, Len(Framing!Encode(m))), Frames, Len(events) + 1)
         /\ Framing!Header = {[leader |-> Len(m.leader), payload |-> Len(m.payload),
                       begin |-> current + Framing!HeadSize,
                       order |-> IF Framing!Fields = 1 THEN "LITTLE" ELSE "NETWORK"]}
  BY HeadRead
<1>4. /\ m.leader \in Seq(Framing!Byte) /\ m.payload \in Seq(Framing!Byte)
      /\ Len(Framing!Encode(m)) = Framing!HeadSize + Len(m.leader) + Len(m.payload)
      /\ \A i \in 1..Len(m.leader) : Framing!Encode(m)[Framing!HeadSize + i] = m.leader[i]
      /\ \A i \in 1..Len(m.payload) : Framing!Encode(m)[Framing!HeadSize + Len(m.leader) + i] = m.payload[i]
  BY <1>1, EncodeIs
<1>5. PICK a \in Nat, b \in Nat, c \in Nat, k \in Nat, x \in Nat :
         a = Len(m.leader) /\ b = Len(m.payload) /\ c = current /\ k = Framing!HeadSize /\ x = Len(data)
  <2>1. Len(m.leader) \in Nat /\ Len(m.payload) \in Nat
    BY <1>4
  <2>2. Len(data) \in Nat /\ current \in Nat
    BY <1>1
  <2> QED
    BY <1>2, <2>1, <2>2
<1>6. h.leader = a /\ h.payload = b /\ h.begin = c + k
  <2>1. h = [leader |-> Len(m.leader), payload |-> Len(m.payload), begin |-> current + Framing!HeadSize,
             order |-> IF Framing!Fields = 1 THEN "LITTLE" ELSE "NETWORK"]
    BY <1>3
  <2>2. h.leader = Len(m.leader) /\ h.payload = Len(m.payload) /\ h.begin = current + Framing!HeadSize
    BY <2>1
  <2> QED
    BY <1>5, <2>2
<1>7. c + k + a + b <= x
  <2>1. ~(Len(data) - h.begin < h.leader + h.payload)
    BY <1>3 DEF Framing!BodyMissing, Framing!Remaining
  <2>2. x - (c + k) >= a + b
    <3>1. ~(x - (c + k) < a + b)
      BY <1>5, <1>6, <2>1
    <3> QED
      BY <3>1
  <2> QED
    BY <2>2
<1>8. \A i \in 1..x - c : Rest[i] = data[c + i]
  BY <1>0, <1>1, <1>5, RestIs
<1>9. ASSUME NEW i \in 1..k + a + b
      PROVE  data[c + i] = Framing!Encode(m)[i] /\ c + i \in 1..x
  <2>1. i \in 1..x - c /\ c + i \in 1..x
    BY <1>7
  <2>2. i \in 1..Len(Framing!Encode(m))
    BY <1>4, <1>5
  <2> QED
    BY <1>3, <1>8, <2>1, <2>2
<1>10. Framing!LeaderOf(h) = m.leader
  <2>1. ASSUME NEW i \in 1..a
        PROVE  data[(c + k) + i] = m.leader[i] /\ (c + k) + i \in 1..x
    <3>1. k + i \in 1..k + a + b /\ c + (k + i) = (c + k) + i
      OBVIOUS
    <3> QED
      BY <1>4, <1>5, <1>9, <3>1
  <2>2. c + k \in Nat /\ (c + k) + a <= x
    BY <1>7
  <2>3. SubSeq(data, (c + k) + 1, (c + k) + a) = m.leader
    <3>1. /\ data \in Seq(Framing!Byte) /\ m.leader \in Seq(Framing!Byte)
          /\ Len(m.leader) = a /\ (c + k) + a <= Len(data)
      BY <1>1, <1>4, <1>5, <2>2
    <3>2. \A i \in 1..a : data[(c + k) + i] = m.leader[i]
      BY <2>1
    <3> QED
      BY <2>2, <3>1, <3>2, PartIs
  <2> QED
    BY <1>3, <1>6, <2>3 DEF Framing!LeaderOf
<1>11. Framing!PayloadOf(h) = m.payload
  <2> DEFINE e == c + k + a
  <2>0. e \in Nat /\ h.begin + h.leader = e /\ e + b <= x
    BY <1>6, <1>7
  <2>1. ASSUME NEW i \in 1..b
        PROVE  data[e + i] = m.payload[i]
    <3>1. k + a + i \in 1..k + a + b /\ c + (k + a + i) = e + i
      OBVIOUS
    <3>2. Framing!Encode(m)[k + a + i] = m.payload[i]
      BY <1>4, <1>5
    <3>3. data[c + (k + a + i)] = Framing!Encode(m)[k + a + i]
      BY <1>9, <3>1
    <3> QED
      BY <3>1, <3>2, <3>3
  <2> HIDE DEF e
  <2>2. SubSeq(data, e + 1, e + b) = m.payload
    <3>1. /\ data \in Seq(Framing!Byte) /\ m.payload \in Seq(Framing!Byte)
          /\ Len(m.payload) = b /\ e + b <= Len(data)
      BY <1>1, <1>4, <1>5, <2>0
    <3> QED
      BY <2>0, <2>1, <3>1, PartIs
  <2> QED
    BY <1>3, <1>6, <2>0, <2>2 DEF Framing!PayloadOf
<1>12. Framing!Used(h) = k + a + b /\ consumed + Framing!Used(h) = h.begin + h.leader + h.payload
  <2>1. Framing!Used(h) = k + a + b
    BY <1>5, <1>6 DEF Framing!Used
  <2>2. consumed = c
    BY <1>1, <1>5
  <2>3. c + (k + a + b) = (c + k) + a + b
    OBVIOUS
  <2> QED
    BY <1>6, <2>1, <2>2, <2>3
<1>13. Framing!Drop(Rest, Framing!Used(h)) = Framing!Drop(data, consumed + Framing!Used(h)) \o wire
  <2>1. Framing!Used(h) \in Nat /\ consumed \in Nat /\ consumed + Framing!Used(h) <= Len(data)
    <3>1. k + a + b \in Nat /\ c + (k + a + b) <= x
      BY <1>7
    <3>2. consumed = c /\ Framing!Used(h) = k + a + b /\ Len(data) = x
      BY <1>1, <1>5, <1>12
    <3> QED
      BY <3>1, <3>2
  <2>2. data \in Seq(Framing!Byte) /\ wire \in Seq(Framing!Byte)
    BY <1>1
  <2>3. Framing!Drop(Framing!Drop(data, consumed) \o wire, Framing!Used(h))
           = Framing!Drop(data, consumed + Framing!Used(h)) \o wire
    <3>1. \A s, w \in Seq(Framing!Byte) : \A v, u \in Nat :
             v + u <= Len(s) => Framing!Drop(Framing!Drop(s, v) \o w, u) = Framing!Drop(s, v + u) \o w
      BY DropMore
    <3>2. \A v, u \in Nat :
             v + u <= Len(data) =>
             Framing!Drop(Framing!Drop(data, v) \o wire, u) = Framing!Drop(data, v + u) \o wire
      BY <2>2, <3>1, Zenon
    <3>3. PICK v \in Nat, u \in Nat : v = consumed /\ u = Framing!Used(h)
      BY <2>1
    <3>4. v + u <= Len(data)
      BY <2>1, <3>3
    <3>5. Framing!Drop(Framing!Drop(data, v) \o wire, u) = Framing!Drop(data, v + u) \o wire
      BY <3>2, <3>4, Zenon
    <3> QED
      BY <3>3, <3>5
  <2> QED
    BY <2>3 DEF Rest
<1>14. Framing!Used(h) = Len(Framing!Encode(m))
  BY <1>4, <1>5, <1>12
<1>15. Len(events) + 1 \in 1..Len(sent)
  <2>1. Len(sent) \in Nat
    BY <1>0, FramesAre
  <2> QED
    BY <1>3, <2>1
<1> QED
  BY <1>3, <1>10, <1>11, <1>12, <1>13, <1>14, <1>15

\* A step that leaves connection, messages, calls and bytes to come as they were;
\* it may settle the order.
LEMMA StreamKept ==
    ASSUME StreamInv, phase # "closed", phase' # "closed", Rest' = Rest, current' = consumed',
           UNCHANGED <<connection, sent, events>>,
           Framing!Understood => endianness' \in {endianness,
                                          IF Framing!Fields = 1 THEN "LITTLE" ELSE "NETWORK"}
    PROVE  StreamInv'
<1>1. (Framing!Understood <=> Framing!Understood') /\ Framing!Fields' = Framing!Fields
  BY DEF Framing!Understood, Framing!WebSocket, Framing!Fields, Framing!PeerOrder
<1>2. Frames' = Frames
  BY DEF Frames
<1> SUFFICES ASSUME Framing!Understood
             PROVE  SettledInv' /\ CallsInv' /\ Carries(Rest', Frames', Len(events'))
  BY <1>1 DEF StreamInv
<1>3. SettledInv /\ CallsInv /\ Carries(Rest, Frames, Len(events))
  BY DEF StreamInv
<1>4. SettledInv'
  BY <1>1, <1>3 DEF SettledInv
<1>5. CallsInv'
  BY <1>3 DEF CallsInv
<1> QED
  BY <1>2, <1>3, <1>4, <1>5

\* A connection that is closed over a message that is refused.
LEMMA StreamClosed ==
    ASSUME StreamInv, Framing!Understood => NextIsBad, Framing!Refuse,
           Framing!Understood => endianness' = IF Framing!Fields = 1 THEN "LITTLE" ELSE "NETWORK"
    PROVE  StreamInv'
<1>1. phase' = "closed" /\ UNCHANGED <<connection, sent, consumed, current, events>>
  BY DEF Framing!Refuse
<1>2. (Framing!Understood <=> Framing!Understood') /\ Framing!Fields' = Framing!Fields
  BY <1>1 DEF Framing!Understood, Framing!WebSocket, Framing!Fields, Framing!PeerOrder
<1> SUFFICES ASSUME Framing!Understood
             PROVE  SettledInv' /\ CallsInv'
  BY <1>1, <1>2 DEF StreamInv
<1>3. SettledInv /\ CallsInv
  BY DEF StreamInv
<1>4. SettledInv'
  BY <1>1, <1>2, <1>3 DEF SettledInv
<1>5. CallsInv'
  BY <1>1, <1>3 DEF CallsInv, NextIsBad
<1> QED
  BY <1>4, <1>5

LEMMA StreamSend ==
    ASSUME Framing!FramingAssumption, BaseInv, StreamInv, Framing!PeerSends
    PROVE  StreamInv'
<1>0. Framing!TypeOK /\ TakenInv /\ events \in Seq(Calls)
  BY DEF BaseInv
<1>1. /\ connection \in Connections /\ data \in Seq(Framing!Byte) /\ wire \in Seq(Framing!Byte)
      /\ Len(data) \in Nat /\ consumed \in 0..Len(data) /\ Len(events) \in Nat /\ DOMAIN events = 1..Len(events)
  BY <1>0 DEF Framing!TypeOK, TakenInv
<1>2. PICK l \in (IF Framing!Fields = 1 THEN {<<>>} ELSE Leaders), p \in Payloads :
         /\ sent' = Append(sent, [leader |-> l, payload |-> p])
         /\ wire' = wire \o Framing!Encode([leader |-> l, payload |-> p])
  BY DEF Framing!PeerSends
<1>3. UNCHANGED <<connection, data, phase, current, consumed, endianness, events>>
  BY DEF Framing!PeerSends
<1> DEFINE m == [leader |-> l, payload |-> p]
           f == Framing!Encode(m)
<1>4. m \in Shapes /\ m.leader = l /\ m.payload = p
  BY DEF Shapes
<1>5. f \in Seq(Framing!Byte) /\ f = FrameOn(connection, m)
  BY <1>1, <1>4, EncodeIs, OnConnection
<1> HIDE DEF m, f
<1>6. (Framing!Understood <=> Framing!Understood') /\ Framing!Fields' = Framing!Fields
  BY <1>3 DEF Framing!Understood, Framing!WebSocket, Framing!Fields, Framing!PeerOrder
<1>7. /\ Len(sent) \in Nat /\ DOMAIN sent = 1..Len(sent) /\ sent \in Seq(Shapes)
      /\ Frames \in Seq(Seq(Framing!Byte)) /\ Len(Frames) = Len(sent)
  BY <1>0, FramesAre DEF Framing!TypeOK, Shapes
<1>8. /\ DOMAIN sent' = 1..Len(sent) + 1 /\ Len(sent') = Len(sent) + 1 /\ sent'[Len(sent) + 1] = m
      /\ \A i \in 1..Len(sent) : sent'[i] = sent[i]
  <2>1. sent' = Append(sent, m)
    BY <1>2 DEF m
  <2> QED
    BY <1>4, <1>7, <2>1
<1> SUFFICES ASSUME Framing!Understood
             PROVE  /\ SettledInv' /\ CallsInv'
                    /\ phase' # "closed" => Carries(Rest', Frames', Len(events'))
  BY <1>6 DEF StreamInv
<1>9. SettledInv /\ CallsInv /\ (phase # "closed" => Carries(Rest, Frames, Len(events)))
  BY DEF StreamInv
<1>10. SettledInv'
  <2>1. \A i \in 1..Len(sent) + 1 : i \in 1..Len(sent) \/ i = Len(sent) + 1
    BY <1>7
  <2>2. ASSUME Framing!Fields = 1
        PROVE  \A i \in DOMAIN sent' : sent'[i].leader = <<>>
    <3>1. m.leader = <<>> /\ \A i \in 1..Len(sent) : sent[i].leader = <<>>
      BY <1>2, <1>4, <1>7, <1>9, <2>2 DEF SettledInv
    <3> QED
      BY <1>8, <2>1, <3>1
  <2>3. ASSUME Framing!Fields = 2
        PROVE  \A i \in DOMAIN sent' : sent'[i].leader \in Leaders
    <3>1. m.leader \in Leaders /\ \A i \in 1..Len(sent) : sent[i].leader \in Leaders
      BY <1>2, <1>4, <1>7, <1>9, <2>3 DEF SettledInv
    <3> QED
      BY <1>8, <2>1, <3>1
  <2> QED
    BY <1>3, <1>6, <1>9, <2>2, <2>3 DEF SettledInv
<1>11. CallsInv'
  <2>1. Len(events) <= Len(sent)
    BY <1>9 DEF CallsInv
  <2>2. Len(events') <= Len(sent')
    BY <1>1, <1>3, <1>7, <1>8, <2>1
  <2>3. ASSUME NEW i \in DOMAIN events'
        PROVE  events'[i] = CallOn(connection', sent'[i].leader, sent'[i].payload)
    <3>1. i \in 1..Len(sent) /\ i \in DOMAIN events
      BY <1>1, <1>3, <1>7, <2>1
    <3>2. events[i] = CallOn(connection, sent[i].leader, sent[i].payload)
      BY <1>9, <3>1 DEF CallsInv
    <3> QED
      BY <1>3, <1>8, <3>1, <3>2
  <2>4. ASSUME phase' = "closed"
        PROVE  NextIsBad'
    <3>1. NextIsBad
      BY <1>3, <1>9, <2>4 DEF CallsInv
    <3>2. Len(events) < Len(sent) /\ Len(events) + 1 \in 1..Len(sent)
      BY <1>1, <1>7, <3>1 DEF NextIsBad
    <3>3. Len(events) < Len(sent') /\ sent'[Len(events) + 1] = sent[Len(events) + 1]
      BY <1>1, <1>7, <1>8, <3>2
    <3> QED
      BY <1>3, <3>1, <3>3 DEF NextIsBad
  <2> QED
    BY <2>2, <2>3, <2>4 DEF CallsInv
<1>12. Rest' = Rest \o f
  <2> DEFINE d == Framing!Drop(data, consumed)
  <2>1. d \in Seq(Framing!Byte)
    BY <1>1, DropIs
  <2>2. Rest' = d \o (wire \o f)
    BY <1>2, <1>3 DEF Rest, f, m
  <2> HIDE DEF d
  <2>3. (d \o wire) \o f = d \o (wire \o f)
    <3>1. d \in Seq(Framing!Byte) /\ wire \in Seq(Framing!Byte) /\ f \in Seq(Framing!Byte)
      BY <1>1, <1>5, <2>1
    <3> QED
      BY <3>1, Associative, Zenon
  <2> QED
    BY <2>2, <2>3 DEF Rest, d
<1>13. Frames' = Append(Frames, f)
  <2>1. Frames' = [j \in 1..Len(sent) + 1 |-> FrameOn(connection, sent'[j])]
    BY <1>3, <1>8 DEF Frames
  <2>2. Frames = [j \in 1..Len(sent) |-> FrameOn(connection, sent[j])]
    BY <1>7 DEF Frames
  <2>3. Append(Frames, f) \in Seq(Seq(Framing!Byte)) /\ Len(Append(Frames, f)) = Len(sent) + 1
        /\ Append(Frames, f)[Len(sent) + 1] = f
        /\ \A j \in 1..Len(sent) : Append(Frames, f)[j] = Frames[j]
    BY <1>5, <1>7
  <2>4. ASSUME NEW j \in 1..Len(sent) + 1
        PROVE  FrameOn(connection, sent'[j]) = Append(Frames, f)[j]
    <3>1. CASE j = Len(sent) + 1
      BY <1>5, <1>8, <2>3, <3>1
    <3>2. CASE j \in 1..Len(sent)
      BY <1>8, <2>2, <2>3, <3>2
    <3> QED
      BY <1>7, <3>1, <3>2
  <2>5. Append(Frames, f) = [j \in 1..Len(sent) + 1 |-> Append(Frames, f)[j]]
    <3>1. \A s \in Seq(Seq(Framing!Byte)) : s = [j \in 1..Len(s) |-> s[j]]
      OBVIOUS
    <3> QED
      BY <2>3, <3>1, Zenon
  <2> QED
    BY <2>1, <2>4, <2>5
<1>14. ASSUME phase' # "closed"
       PROVE  Carries(Rest', Frames', Len(events'))
  <2>1. Carries(Rest, Frames, Len(events)) /\ Len(events) \in 0..Len(Frames)
    BY <1>1, <1>3, <1>7, <1>9, <1>14 DEF CallsInv
  <2>2. Rest \in Seq(Framing!Byte)
    BY <1>0, RestIs
  <2>3. Carries(Rest \o f, Append(Frames, f), Len(events))
    BY <1>5, <1>7, <2>1, <2>2, StreamPush
  <2> QED
    BY <1>3, <1>12, <1>13, <2>3
<1> QED
  BY <1>10, <1>11, <1>14

\* Bytes go from the wire into the buffer: those to come are the same.
LEMMA StreamReceive ==
    ASSUME Framing!FramingAssumption, BaseInv, StreamInv, phase = "reading",
           NEW n \in 0..Len(wire), Framing!CompleteReading(n)
    PROVE  StreamInv'
<1>0. Framing!TypeOK /\ TakenInv
  BY DEF BaseInv
<1>1. data \in Seq(Framing!Byte) /\ wire \in Seq(Framing!Byte) /\ consumed = 0
  BY <1>0 DEF Framing!TypeOK, TakenInv
<1>2. /\ data' = data \o SubSeq(wire, 1, n) /\ wire' = Framing!Drop(wire, n)
      /\ phase' = "scanning" /\ current' = 0 /\ consumed' = 0
      /\ UNCHANGED <<connection, sent, endianness, events>>
  BY DEF Framing!CompleteReading
<1> DEFINE a == SubSeq(wire, 1, n)
           b == Framing!Drop(wire, n)
<1>3. a \in Seq(Framing!Byte) /\ b \in Seq(Framing!Byte) /\ a \o b = wire
  BY <1>1, Glue, DropIs
<1>4. data' = data \o a /\ wire' = b
  BY <1>2
<1> HIDE DEF a, b
<1>5. data \o a \in Seq(Framing!Byte)
  BY <1>1, <1>3
<1> DEFINE da == data \o a
<1>6. \A s \in Seq(Framing!Byte) : Framing!Drop(s, 0) = s
  BY DropNone
<1>7. Rest = data \o wire
  BY <1>1, <1>6 DEF Rest
<1> HIDE DEF da
<1>8. Rest' = da \o b
  <2>1. data' = da /\ wire' = b /\ consumed' = 0
    BY <1>2, <1>4 DEF da
  <2>2. Framing!Drop(da, 0) = da
    BY <1>5, <1>6 DEF da
  <2> QED
    BY <2>1, <2>2 DEF Rest
<1>9. da \o b = data \o (a \o b)
  <2>1. data \in Seq(Framing!Byte) /\ a \in Seq(Framing!Byte) /\ b \in Seq(Framing!Byte)
    BY <1>1, <1>3
  <2> QED
    BY <2>1, Associative, Zenon DEF da
<1>10. Rest' = Rest
  BY <1>3, <1>7, <1>8, <1>9
<1> QED
  BY <1>2, <1>10, StreamKept

\* checkForMessage ends and hands back what it has taken: what is left is to come.
LEMMA StreamFinish ==
    ASSUME Framing!FramingAssumption, BaseInv, StreamInv, phase = "scanning", NEW n, Framing!FinishScan(n)
    PROVE  /\ Rest' = Rest /\ current' = 0 /\ consumed' = 0 /\ phase' # "closed"
           /\ UNCHANGED <<connection, sent, events>>
<1>1. data \in Seq(Framing!Byte) /\ consumed \in 0..Len(data)
  BY DEF BaseInv, Framing!TypeOK, TakenInv
<1>2. /\ data' = Framing!Drop(data, consumed) /\ consumed' = 0 /\ current' = 0 /\ phase' # "closed"
      /\ UNCHANGED <<connection, sent, wire, events>>
  BY DEF Framing!FinishScan
<1> DEFINE d == Framing!Drop(data, consumed)
<1>3. d \in Seq(Framing!Byte)
  BY <1>1, DropIs
<1> HIDE DEF d
<1>4. Framing!Drop(d, 0) = d
  BY <1>3, DropNone
<1>5. Rest' = Framing!Drop(d, 0) \o wire
  BY <1>2 DEF Rest, d
<1> QED
  BY <1>2, <1>4, <1>5 DEF Rest, d

\* A message goes to its handler.
LEMMA StreamCall ==
    ASSUME Framing!FramingAssumption, BaseInv, StreamInv, Framing!Understood, phase = "scanning",
           Framing!Remaining(current) >= Framing!HeadSize, NEW h \in Framing!Header, ~Framing!BodyMissing(h),
           endianness' = IF Framing!Fields = 1 THEN "LITTLE" ELSE "NETWORK",
           events' = Append(events, Framing!CallFor(Framing!LeaderOf(h), Framing!PayloadOf(h))),
           consumed' = consumed + Framing!Used(h), current' = h.begin + h.leader + h.payload,
           UNCHANGED <<connection, sent, wire, data, phase>>
    PROVE  StreamInv'
<1> DEFINE e == Framing!CallFor(Framing!LeaderOf(h), Framing!PayloadOf(h))
           n == Len(events)
<1>0. Framing!TypeOK /\ events \in Seq(Calls) /\ SettledInv /\ CallsInv
  BY DEF BaseInv, StreamInv
<1>1. /\ n + 1 \in 1..Len(sent)
      /\ Framing!LeaderOf(h) = sent[n + 1].leader /\ Framing!PayloadOf(h) = sent[n + 1].payload
      /\ consumed + Framing!Used(h) = h.begin + h.leader + h.payload
      /\ Carries(Framing!Drop(data, consumed + Framing!Used(h)) \o wire, Frames, n + 1)
  BY BodyRead
<1>2. e = CallOn(connection, sent[n + 1].leader, sent[n + 1].payload)
  BY <1>1, OnConnection
<1> HIDE DEF e
<1>3. /\ Len(events') = n + 1 /\ DOMAIN events' = 1..n + 1 /\ DOMAIN events = 1..n /\ n \in Nat
      /\ events'[n + 1] = e /\ \A i \in 1..n : events'[i] = events[i]
  <2>1. events' = Append(events, e)
    BY DEF e
  <2> QED
    BY <1>0, <2>1
<1> HIDE DEF n
<1>4. Framing!Fields' = Framing!Fields /\ Frames' = Frames
  BY DEF Framing!Fields, Frames
<1>5. SettledInv'
  BY <1>0, <1>1, <1>4 DEF SettledInv
<1>6. CallsInv'
  <2>1. Len(events') <= Len(sent')
    BY <1>1, <1>3
  <2>2. ASSUME NEW i \in DOMAIN events'
        PROVE  events'[i] = CallOn(connection', sent'[i].leader, sent'[i].payload)
    <3>1. CASE i = n + 1
      BY <1>2, <1>3, <3>1
    <3>2. CASE i \in 1..n
      <4>1. events[i] = CallOn(connection, sent[i].leader, sent[i].payload)
        BY <1>0, <1>3, <3>2 DEF CallsInv
      <4> QED
        BY <1>3, <3>2, <4>1
    <3> QED
      BY <1>3, <3>1, <3>2
  <2> QED
    BY <2>1, <2>2 DEF CallsInv
<1>7. Carries(Rest', Frames', Len(events'))
  BY <1>1, <1>3, <1>4 DEF Rest
<1> QED
  BY <1>5, <1>6, <1>7 DEF StreamInv

LEMMA StreamStep ==
    ASSUME Framing!FramingAssumption, BaseInv, StreamInv, [Framing!Next]_(Framing!vars)
    PROVE  StreamInv'
<1>0. /\ Framing!TypeOK /\ TakenInv /\ connection \in Connections /\ Len(wire) \in Nat /\ needed \in Nat
      /\ MaxRead \in Nat
  BY Parameters DEF BaseInv, Framing!TypeOK
<1>1. CASE Framing!PeerSends
  BY <1>1, StreamSend
<1>2. CASE Framing!Receive
  <2>1. PICK n \in needed .. needed - 1 + MaxRead : n <= Len(wire) /\ Framing!CompleteReading(n)
    BY <1>2 DEF Framing!Receive
  <2>2. n \in 0..Len(wire) /\ phase = "reading"
    BY <1>0, <1>2, <2>1 DEF Framing!Receive
  <2> QED
    BY <2>1, <2>2, StreamReceive
<1>3. CASE Framing!ReceivePiece
  <2>1. PICK n \in 1..Len(wire) : Framing!CompleteReading(n)
    BY <1>3 DEF Framing!ReceivePiece
  <2>2. n \in 0..Len(wire) /\ phase = "reading"
    BY <1>0, <1>3, <2>1 DEF Framing!ReceivePiece
  <2> QED
    BY <2>1, <2>2, StreamReceive
<1>4. CASE Framing!ReceiveAgain
  <2>1. Framing!WebSocket /\ connection' = connection
    BY <1>4 DEF Framing!ReceiveAgain
  <2> QED
    BY <2>1 DEF StreamInv, Framing!Understood, Framing!WebSocket
<1>5. CASE Framing!ScanHeadMissing
  <2>1. /\ phase = "scanning" /\ Framing!FinishScan(Framing!StillNeeded(Framing!HeadSize, current))
        /\ endianness' = endianness
    BY <1>5 DEF Framing!ScanHeadMissing
  <2>2. /\ Rest' = Rest /\ current' = 0 /\ consumed' = 0 /\ phase' # "closed"
        /\ UNCHANGED <<connection, sent, events>>
    BY <2>1, StreamFinish
  <2> QED
    BY <2>1, <2>2, StreamKept
<1> DEFINE order == IF Framing!Fields = 1 THEN "LITTLE" ELSE "NETWORK"
           next == sent[Len(events) + 1]
<1>6. ASSUME phase = "scanning", Framing!Remaining(current) >= Framing!HeadSize, Framing!Understood
      PROVE  /\ Len(events) < Len(sent)
             /\ Framing!Header # {}
             /\ \A h \in Framing!Header :
                   /\ h.order = order
                   /\ h.leader = Len(next.leader) /\ h.payload = Len(next.payload)
  <2>1. /\ Len(events) < Len(sent)
        /\ \E m \in Shapes :
              /\ m = next
              /\ Framing!Header = {[leader |-> Len(m.leader), payload |-> Len(m.payload),
                            begin |-> current + Framing!HeadSize,
                            order |-> IF Framing!Fields = 1 THEN "LITTLE" ELSE "NETWORK"]}
    BY <1>6, HeadRead
  <2> QED
    BY <2>1
<1> HIDE DEF order, next
<1>7. CASE Framing!ScanNoOrder
  <2>1. /\ phase = "scanning" /\ Framing!Remaining(current) >= Framing!HeadSize
        /\ Framing!Header = {} /\ connection' = connection
    BY <1>7 DEF Framing!ScanNoOrder, Framing!Refuse
  <2>2. ~Framing!Understood
    BY <1>6, <2>1
  <2> QED
    BY <2>1, <2>2 DEF StreamInv, Framing!Understood, Framing!WebSocket, Framing!Fields,
           Framing!PeerOrder
<1>8. CASE Framing!ScanTooLarge
  <2>1. PICK h \in Framing!Header : h.leader + h.payload > MaxBody /\ endianness' = h.order
    BY <1>8 DEF Framing!ScanTooLarge
  <2>2. phase = "scanning" /\ Framing!Remaining(current) >= Framing!HeadSize /\ Framing!Refuse
    BY <1>8 DEF Framing!ScanTooLarge
  <2>3. ASSUME Framing!Understood
        PROVE  NextIsBad /\ endianness' = order
    <3>1. Len(events) < Len(sent) /\ Len(next.leader) + Len(next.payload) > MaxBody
          /\ endianness' = order
      BY <1>6, <2>1, <2>2, <2>3
    <3>2. CallOn(connection, next.leader, next.payload).call = "bad"
      BY <3>1 DEF CallOn
    <3> QED
      BY <3>1, <3>2 DEF NextIsBad, next
  <2> QED
    BY <2>2, <2>3, StreamClosed DEF order
<1>9. CASE Framing!ScanBodyMissing
  <2>1. PICK h \in Framing!Header :
           endianness' = h.order /\ Framing!FinishScan(Framing!StillNeeded(h.leader + h.payload, h.begin))
    BY <1>9 DEF Framing!ScanBodyMissing
  <2>2. phase = "scanning" /\ Framing!Remaining(current) >= Framing!HeadSize
    BY <1>9 DEF Framing!ScanBodyMissing
  <2>3. /\ Rest' = Rest /\ current' = 0 /\ consumed' = 0 /\ phase' # "closed"
        /\ UNCHANGED <<connection, sent, events>>
    BY <2>1, <2>2, StreamFinish
  <2>4. Framing!Understood => endianness' = order
    BY <1>6, <2>1, <2>2
  <2> QED
    BY <2>2, <2>3, <2>4, StreamKept DEF order
<1>10. CASE Framing!ScanMessage
  <2>1. PICK h \in Framing!Header :
           /\ ~Framing!BodyMissing(h) /\ endianness' = h.order
           /\ \/ Framing!CallFor(Framing!LeaderOf(h), Framing!PayloadOf(h)).call = "bad" /\ Framing!Refuse
              \/ /\ events' = Append(events, Framing!CallFor(Framing!LeaderOf(h), Framing!PayloadOf(h)))
                 /\ consumed' = consumed + Framing!Used(h)
                 /\ current' = h.begin + h.leader + h.payload
                 /\ UNCHANGED <<connection, sent, wire, data, phase, needed>>
    BY <1>10 DEF Framing!ScanMessage
  <2>2. phase = "scanning" /\ Framing!Remaining(current) >= Framing!HeadSize
    BY <1>10 DEF Framing!ScanMessage
  <2>3. CASE Framing!CallFor(Framing!LeaderOf(h), Framing!PayloadOf(h)).call = "bad" /\ Framing!Refuse
    <3>1. ASSUME Framing!Understood
          PROVE  NextIsBad /\ endianness' = order
      <4>1. Framing!LeaderOf(h) = next.leader /\ Framing!PayloadOf(h) = next.payload
        BY <2>1, <2>2, <3>1, BodyRead DEF next
      <4>2. CallOn(connection, next.leader, next.payload).call = "bad"
        BY <2>3, <4>1, OnConnection
      <4>3. Len(events) < Len(sent) /\ endianness' = order
        BY <1>6, <2>1, <2>2, <3>1
      <4> QED
        BY <4>2, <4>3 DEF NextIsBad, next
    <3> QED
      BY <2>3, <3>1, StreamClosed DEF order
  <2>4. CASE /\ events' = Append(events, Framing!CallFor(Framing!LeaderOf(h), Framing!PayloadOf(h)))
             /\ consumed' = consumed + Framing!Used(h)
             /\ current' = h.begin + h.leader + h.payload
             /\ UNCHANGED <<connection, sent, wire, data, phase, needed>>
    <3>1. CASE Framing!Understood
      <4>1. endianness' = order
        BY <1>6, <2>1, <2>2, <3>1
      <4>2. UNCHANGED <<connection, sent, wire, data, phase>>
        BY <2>4
      <4> QED
        BY <2>1, <2>2, <2>4, <3>1, <4>1, <4>2, StreamCall DEF order
    <3>2. CASE ~Framing!Understood
      BY <2>4, <3>2 DEF StreamInv, Framing!Understood, Framing!WebSocket, Framing!Fields,
             Framing!PeerOrder
    <3> QED
      BY <3>1, <3>2
  <2> QED
    BY <2>1, <2>3, <2>4
<1>11. CASE UNCHANGED Framing!vars
  BY <1>11 DEF Framing!vars, StreamInv, Framing!Understood, Framing!WebSocket, Framing!Fields,
         Framing!PeerOrder, SettledInv, CallsInv, NextIsBad, Rest, Frames
<1> QED
  BY <1>1, <1>2, <1>3, <1>4, <1>5, <1>7, <1>8, <1>9, <1>10, <1>11 DEF Framing!Next, Framing!Scan

LEMMA StreamInit ==
    ASSUME Framing!FramingAssumption, Framing!Init
    PROVE  BaseInv /\ StreamInv
<1>1. /\ connection \in Connections /\ sent = <<>> /\ wire = <<>> /\ data = <<>> /\ phase = "reading"
      /\ needed = 1 /\ current = 0 /\ consumed = 0 /\ events = <<>>
      /\ endianness = IF Framing!Fields = 1 THEN "DUNNO" ELSE "NETWORK"
  BY DEF Framing!Init
<1>2. Framing!Fields \in {1, 2} /\ Framing!BufferSize \in Nat /\ Framing!BufferSize > 0 /\ MaxMessages \in Nat
  BY <1>1, Parameters DEF Framing!FramingAssumption
<1>3. Len(<<>>) = 0 /\ DOMAIN <<>> = {} /\ \A T : <<>> \in Seq(T)
  OBVIOUS
<1>4. Framing!TypeOK
  BY <1>1, <1>2, <1>3 DEF Framing!TypeOK
<1>5. BaseInv
  BY <1>1, <1>3, <1>4 DEF BaseInv, TakenInv
<1>6. SettledInv
  BY <1>1, <1>3 DEF SettledInv
<1>7. CallsInv
  BY <1>1, <1>3 DEF CallsInv
<1>8. Carries(Rest, Frames, 0)
  <2>1. Rest \in Seq(Framing!Byte) /\ Len(Rest) = 0 - 0 + 0
    BY <1>1, <1>3, <1>5, RestIs DEF BaseInv
  <2>2. Len(Frames) = 0
    BY <1>1, <1>3, <1>4, FramesAre
  <2> DEFINE off == [j \in 0..0 |-> 0]
  <2>3. off \in [0..0 -> Nat] /\ off[0] = 0
    OBVIOUS
  <2> HIDE DEF off
  <2>4. /\ \A j \in 0 + 1 .. 0 : FALSE
        /\ \A j \in 0..0 : j = 0
    OBVIOUS
  <2>5. Cut(off, Rest, Frames, 0)
    BY <2>1, <2>2, <2>3, <2>4 DEF Cut
  <2> QED
    BY <2>5 DEF Carries
<1> QED
  BY <1>1, <1>3, <1>5, <1>6, <1>7, <1>8 DEF StreamInv

\* However bytes are cut into pieces, the handlers of a connection that is understood
\* see the messages of the peer, whole and in order, and checkForMessage takes no
\* byte that has not arrived.
THEOREM FramingCorrect ==
    Framing!Spec => []FramingInv
<1>1. Framing!Init => BaseInv /\ StreamInv
  BY FramingFits, StreamInit
<1>2. (BaseInv /\ StreamInv) /\ [Framing!Next]_(Framing!vars) => (BaseInv /\ StreamInv)'
  <2>1. ASSUME BaseInv, StreamInv, [Framing!Next]_(Framing!vars)
        PROVE  (BaseInv /\ StreamInv)'
    BY <2>1, FramingFits, BaseStep, StreamStep
  <2> QED
    BY <2>1
<1>3. BaseInv /\ StreamInv => FramingInv
  <2>1. ASSUME BaseInv, StreamInv
        PROVE  FramingInv
    <3>1. Framing!TypeOK /\ Framing!NoOverrun
      BY <2>1 DEF BaseInv, TakenInv, Framing!NoOverrun
    <3>2. Framing!InOrder
      <4>1. \A l, p : Framing!CallFor(l, p) = CallOn(connection, l, p)
        BY OnConnection
      <4>2. Framing!Understood => CallsInv
        BY <2>1 DEF StreamInv
      <4> QED
        BY <4>1, <4>2 DEF Framing!InOrder, CallsInv, NextIsBad
    <3> QED
      BY <3>1, <3>2 DEF FramingInv, Framing!FramingInv
  <2> QED
    BY <2>1
<1> QED
  BY <1>1, <1>2, <1>3, PTL DEF Framing!Spec
=============================================================================
