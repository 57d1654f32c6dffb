-------------------------- MODULE SharedBatchProofs --------------------------
(***************************************************************************)
(* Proofs about SharedBatch, for any deliveries, any number of files each, *)
(* and any interleaving of their appends: slices reach only what has been  *)
(* written, batches of up to three files are values, a lone delivery has   *)
(* two arrays to itself, and BatchOfFiles is implemented up to three files.*)
(***************************************************************************)
EXTENDS SharedBatch, TLAPS

-----------------------------------------------------------------------------
(* How append sizes its arrays: 1, 2, then at least 4 elements, of which   *)
(* the first three are in use.  So an append in place never writes to one  *)
(* of the first three.                                                     *)
Fits(len, size) ==
  /\ len \in 1 .. size
  /\ size <= 2 => len = size
  /\ size > 2 => size >= 4 /\ len >= 3

RawSlice == [array : Nat, len : Nat]

(* A slice reaches into an array of the heap, and what it reaches has been *)
(* written.                                                                *)
SliceIn(h, s) ==
  /\ s \in RawSlice
  /\ \/ s = Nil
     \/ /\ s.array \in DOMAIN h
        /\ Fits(s.len, Len(h[s.array]))
        /\ \A i \in 1 .. s.len : h[s.array][i] \in File

Heap == Seq(Seq(File \cup {Blank}))

(* What a step may do to the heap: allocate, and write the fourth or a     *)
(* later element of an array there is.                                     *)
Keeps(h, g) ==
  \A a \in DOMAIN h :
    /\ a \in DOMAIN g /\ Len(g[a]) = Len(h[a])
    /\ \A i \in DOMAIN h[a] : g[a][i] = h[a][i] \/ (g[a][i] \in File /\ i >= 4)

LEMMA NilFacts == Nil \in RawSlice /\ Nil.array = 0 /\ Nil.len = 0 /\ \A h : SliceIn(h, Nil)
  BY DEF Nil, RawSlice, SliceIn

LEMMA HeapStays == \A h : Keeps(h, h)
  BY DEF Keeps

(* What a slice reaches stays written.                                     *)
LEMMA SliceKept ==
  ASSUME NEW h \in Heap, NEW g, Keeps(h, g), NEW s, SliceIn(h, s)
  PROVE  SliceIn(g, s)
<1>1. CASE s = Nil
  BY <1>1, NilFacts
<1>2. CASE s # Nil
  <2>1. /\ s.array \in DOMAIN h /\ Fits(s.len, Len(h[s.array]))
        /\ \A i \in 1 .. s.len : h[s.array][i] \in File
    BY <1>2 DEF SliceIn
  <2>2. h[s.array] \in Seq(File \cup {Blank})
    BY <2>1 DEF Heap
  <2>3. \A i \in 1 .. s.len : i \in DOMAIN h[s.array]
    BY <2>1, <2>2 DEF Fits
  <2>4. s.array \in DOMAIN g /\ Len(g[s.array]) = Len(h[s.array])
    BY <2>1 DEF Keeps
  <2>5. \A i \in 1 .. s.len : g[s.array][i] \in File
    BY <2>1, <2>3 DEF Keeps
  <2>. QED
    BY <2>1, <2>4, <2>5 DEF SliceIn
<1>. QED
  BY <1>1, <1>2

(* append: the slice that results has the elements of the old one and the  *)
(* new one, in its array or in a fresh one; no other array is touched.     *)
LEMMA AppendFacts ==
  ASSUME heap \in Heap, NEW s, SliceIn(heap, s), NEW file \in File, AppendTo(s, file),
         NEW t, t = Longer(s)
  PROVE  /\ heap' \in Heap /\ Keeps(heap, heap') /\ SliceIn(heap', t)
         /\ t.len = s.len + 1
         /\ heap'[t.array][t.len] = file
         /\ \A i \in 1 .. s.len : heap'[t.array][i] = heap[s.array][i]
         /\ t.array = s.array \/ t.array = Len(heap) + 1
         /\ \A a \in DOMAIN heap \ {s.array} : heap'[a] = heap[a]
<1>1. s \in RawSlice /\ s.array \in Nat /\ s.len \in Nat /\ Len(heap) \in Nat
  BY DEF SliceIn, RawSlice, Heap
<1>2. t \in RawSlice /\ t.len = s.len + 1
  BY <1>1 DEF Longer, RawSlice
<1>3. \A a \in DOMAIN heap : heap[a] \in Seq(File \cup {Blank})
  BY DEF Heap
<1>4. CASE HasRoom(s)
  <2>1. /\ s # Nil /\ s.array \in DOMAIN heap /\ s.len < Len(heap[s.array])
        /\ Fits(s.len, Len(heap[s.array]))
        /\ \A i \in 1 .. s.len : heap[s.array][i] \in File
    BY <1>4 DEF SliceIn, HasRoom
  <2>. DEFINE A == heap[s.array]
              B == [A EXCEPT ![s.len + 1] = file]
  <2>2. A \in Seq(File \cup {Blank}) /\ Len(A) \in Nat /\ DOMAIN A = 1 .. Len(A)
    BY <1>3, <2>1
  <2>3. s.len >= 3 /\ s.len + 1 \in DOMAIN A
    BY <1>1, <2>1, <2>2 DEF Fits
  <2>4. /\ B \in Seq(File \cup {Blank}) /\ Len(B) = Len(A) /\ DOMAIN B = DOMAIN A
        /\ B[s.len + 1] = file
        /\ \A i \in DOMAIN A : i # s.len + 1 => B[i] = A[i]
    BY <2>2, <2>3
  <2>5. heap' = [heap EXCEPT ![s.array] = B] /\ t.array = s.array
    BY <1>4 DEF AppendTo, InPlace, Longer
  <2>. HIDE DEF A, B
  <2>6. heap' \in Heap /\ DOMAIN heap' = DOMAIN heap /\ heap'[s.array] = B
    BY <2>1, <2>4, <2>5 DEF Heap
  <2>7. \A a \in DOMAIN heap \ {s.array} : heap'[a] = heap[a]
    BY <2>5 DEF Heap
  <2>8. Keeps(heap, heap')
    <3>1. ASSUME NEW i \in DOMAIN A
          PROVE  B[i] = A[i] \/ (B[i] \in File /\ i >= 4)
      BY <1>1, <2>2, <2>3, <2>4
    <3>. QED
      BY <2>4, <2>6, <2>7, <3>1 DEF Keeps, A
  <2>9. SliceIn(heap', t)
    <3>1. Fits(t.len, Len(B))
      BY <1>1, <1>2, <2>1, <2>2, <2>4 DEF Fits, A
    <3>2. \A i \in 1 .. t.len : B[i] \in File
      <4>1. \A i \in 1 .. s.len : i \in DOMAIN A /\ A[i] \in File /\ i # s.len + 1
        BY <1>1, <2>1, <2>2, <2>3 DEF A
      <4>2. \A i \in 1 .. t.len : i \in 1 .. s.len \/ i = s.len + 1
        BY <1>1, <1>2
      <4>. QED
        BY <2>4, <4>1, <4>2
    <3>. QED
      BY <1>2, <2>1, <2>5, <2>6, <3>1, <3>2 DEF SliceIn
  <2>10. \A i \in 1 .. s.len : heap'[t.array][i] = heap[s.array][i]
    <3>1. \A i \in 1 .. s.len : i \in DOMAIN A /\ i # s.len + 1
      BY <1>1, <2>2, <2>3
    <3>. QED
      BY <2>4, <2>5, <2>6, <3>1 DEF A
  <2>. QED
    BY <1>2, <2>4, <2>5, <2>6, <2>7, <2>8, <2>9, <2>10
<1>5. CASE ~ HasRoom(s)
  <2>. DEFINE size == IF s.len = 0 THEN 1 ELSE 2 * s.len
              B == [i \in 1 .. size |-> IF i <= s.len THEN heap[s.array][i]
                                        ELSE IF i = s.len + 1 THEN file ELSE Blank]
  <2>1. \/ s = Nil /\ s.len = 0
        \/ /\ s # Nil /\ s.array \in DOMAIN heap /\ s.len = Len(heap[s.array])
           /\ Fits(s.len, Len(heap[s.array]))
           /\ \A i \in 1 .. s.len : heap[s.array][i] \in File
    <3>1. CASE s = Nil
      BY <3>1, NilFacts
    <3>2. CASE s # Nil
      BY <1>1, <1>3, <1>5, <3>2 DEF SliceIn, HasRoom, Fits
    <3>. QED
      BY <3>1, <3>2
  <2>2. size \in Nat /\ s.len + 1 \in 1 .. size /\ Fits(s.len + 1, size)
    BY <1>1, <2>1 DEF Fits
  <2>3. \A i \in 1 .. s.len : heap[s.array][i] \in File
    BY <2>1
  <2>4. /\ B \in Seq(File \cup {Blank}) /\ Len(B) = size
        /\ B[s.len + 1] = file
        /\ \A i \in 1 .. s.len : B[i] = heap[s.array][i]
    <3>. HIDE DEF size
    <3>1. B \in [1 .. size -> File \cup {Blank}]
      BY <1>1, <2>2, <2>3
    <3>2. B \in Seq(File \cup {Blank}) /\ Len(B) = size
      <4>. HIDE DEF B
      <4>. QED
        BY <2>2, <3>1
    <3>3. B[s.len + 1] = file
      BY <1>1, <2>2
    <3>4. \A i \in 1 .. s.len : i \in 1 .. size
      BY <1>1, <2>2
    <3>5. \A i \in 1 .. s.len : B[i] = heap[s.array][i]
      BY <1>1, <3>4
    <3>. QED
      BY <3>2, <3>3, <3>5
  <2>5. heap' = Append(heap, B) /\ t.array = Len(heap) + 1
    BY <1>5 DEF AppendTo, Grown, Longer
  <2>. HIDE DEF size, B
  <2>6. /\ heap' \in Heap /\ t.array \in DOMAIN heap' /\ heap'[t.array] = B
        /\ \A a \in DOMAIN heap : a \in DOMAIN heap' /\ heap'[a] = heap[a]
    BY <2>4, <2>5 DEF Heap
  <2>7. Keeps(heap, heap')
    BY <2>6 DEF Keeps
  <2>8. \A i \in 1 .. t.len : B[i] \in File
    <3>1. \A i \in 1 .. t.len : i \in 1 .. s.len \/ i = s.len + 1
      BY <1>1, <1>2
    <3>. QED
      BY <2>3, <2>4, <3>1
  <2>9. SliceIn(heap', t)
    BY <1>2, <2>2, <2>4, <2>6, <2>8 DEF SliceIn
  <2>. QED
    BY <1>2, <2>4, <2>5, <2>6, <2>7, <2>9
<1>. QED
  BY <1>4, <1>5
-----------------------------------------------------------------------------
(* What anyone holds: a batch whose two slices differ by the file at hand. *)
BatchType == [content : RawSlice, meta : RawSlice, autoMerge : BOOLEAN]

BatchIn(h, b, ahead) ==
  /\ b \in BatchType /\ SliceIn(h, b.content) /\ SliceIn(h, b.meta)
  /\ b.content.len = b.meta.len + ahead

Place == {"idle", "queue", "content", "meta", "put", "upload", "audit", "clear", "done"}

Appending == {"content", "meta", "put"}

LocalType ==
  /\ pc \in [Delivery -> Place]
  /\ next \in [Delivery -> Nat]
  /\ batch \in [Delivery -> BatchType \cup {None}]
  /\ held \in [Delivery -> BatchType \cup {None}]
  /\ sent \in [Delivery -> Seq(File)]
  /\ audited \in [Delivery -> Seq(File \X File)]
  /\ company \in [Delivery -> SUBSET Delivery]

LocalInv(d) ==
  /\ next[d] \in 1 .. FileCount[d] + 1
  /\ pc[d] \in Appending => next[d] <= FileCount[d]
  /\ pc[d] \notin Appending => batch[d] = None
  /\ pc[d] \in {"content", "put"} => BatchIn(heap, batch[d], 0)
  /\ pc[d] = "meta" => BatchIn(heap, batch[d], 1)
  /\ held[d] = None \/ BatchIn(heap, held[d], 0)

SliceInv ==
  /\ heap \in Heap
  /\ LocalType
  /\ queue = None \/ BatchIn(heap, queue, 0)
  /\ \A d \in Delivery : LocalInv(d)

LEMMA Constants ==
  /\ \A d \in Delivery : FileCount[d] \in Nat /\ FileCount[d] >= 1 /\ AutoMerge[d] \in BOOLEAN
  /\ None \notin BatchType /\ Blank \notin File
<1>1. \A d \in Delivery : FileCount[d] \in Nat \ {0} /\ AutoMerge[d] \in BOOLEAN
  BY SharedBatchAssumption DEF SharedBatchAssumption
<1>2. None \notin BatchType
  BY SharedBatchAssumption DEF SharedBatchAssumption, BatchType, RawSlice
<1>3. File \subseteq Delivery \X Nat
  BY <1>1 DEF File
<1>4. Blank \notin File
  BY <1>3, SharedBatchAssumption DEF SharedBatchAssumption
<1>. QED
  BY <1>1, <1>2, <1>4

LEMMA FileAtHand ==
  ASSUME NEW d \in Delivery, NEW i \in 1 .. FileCount[d]
  PROVE  <<d, i>> \in File
  BY DEF File

LEMMA BatchKept ==
  ASSUME NEW h \in Heap, NEW g, Keeps(h, g), NEW b, NEW ahead, BatchIn(h, b, ahead)
  PROVE  BatchIn(g, b, ahead)
  BY SliceKept DEF BatchIn

(* The elements of a slice, as a sequence of files.                        *)
LEMMA ElementsAre ==
  ASSUME heap \in Heap, NEW s, SliceIn(heap, s)
  PROVE  /\ Elements(s) \in Seq(File) /\ Len(Elements(s)) = s.len
         /\ \A i \in 1 .. s.len : Elements(s)[i] = heap[s.array][i]
<1>1. CASE s = Nil
  BY <1>1, NilFacts DEF Elements
<1>2. CASE s # Nil
  <2>1. /\ s.array \in DOMAIN heap /\ Fits(s.len, Len(heap[s.array])) /\ s.len \in Nat
        /\ \A i \in 1 .. s.len : heap[s.array][i] \in File
    BY <1>2 DEF SliceIn, RawSlice
  <2>. DEFINE A == heap[s.array]
              E == [i \in 1 .. s.len |-> A[i]]
  <2>2. A \in Seq(File \cup {Blank}) /\ Len(A) \in Nat /\ s.len <= Len(A)
    BY <2>1 DEF Heap, Fits
  <2>3. Elements(s) = SubSeq(A, 1, s.len)
    BY <1>2 DEF Elements
  <2>4. /\ Len(SubSeq(A, 1, s.len)) = s.len
        /\ SubSeq(A, 1, s.len) \in Seq(File \cup {Blank})
        /\ \A i \in 1 .. s.len : SubSeq(A, 1, s.len)[i] = A[i]
    <3>. HIDE DEF A
    <3>. QED
      BY <2>1, <2>2
  <2>5. SubSeq(A, 1, s.len) = E
    <3>. HIDE DEF A
    <3>. QED
      BY <2>1, <2>4
  <2>6. E \in Seq(File)
    <3>1. \A i \in 1 .. s.len : A[i] \in File
      BY <2>1
    <3>. HIDE DEF A
    <3>. QED
      BY <2>1, <3>1
  <2>. QED
    BY <2>3, <2>4, <2>5, <2>6
<1>. QED
  BY <1>1, <1>2

LEMMA FunctionIsSeq ==
  ASSUME NEW S, NEW n \in Nat, NEW f \in [1 .. n -> S]
  PROVE  f \in Seq(S)
  OBVIOUS

LEMMA SliceInit == Init => SliceInv
<1>. SUFFICES ASSUME Init PROVE SliceInv
  OBVIOUS
<1>1. LocalType
  BY DEF Init, LocalType, Place
<1>2. ASSUME NEW d \in Delivery PROVE LocalInv(d)
  BY Constants DEF Init, LocalInv, Appending
<1>. QED
  BY <1>1, <1>2 DEF Init, SliceInv, Heap

(* A step of d leaves the others as they are, whatever it does to arrays.  *)
LEMMA OthersKept ==
  ASSUME SliceInv, NEW d \in Delivery, Keeps(heap, heap'), NEW e \in Delivery \ {d},
         pc'[e] = pc[e], next'[e] = next[e], batch'[e] = batch[e], held'[e] = held[e]
  PROVE  LocalInv(e)'
<1>1. LocalInv(e) /\ heap \in Heap
  BY DEF SliceInv
<1>2. \A b, ahead : BatchIn(heap, b, ahead) => BatchIn(heap', b, ahead)
  BY <1>1, BatchKept
<1>. QED
  BY <1>1, <1>2 DEF LocalInv

(* Every step keeps the invariant, and the heap only grows as Keeps says.  *)
LEMMA SliceStep == SliceInv /\ [Next]_vars => SliceInv' /\ Keeps(heap, heap')
<1>. SUFFICES ASSUME SliceInv, [Next]_vars PROVE SliceInv' /\ Keeps(heap, heap')
  OBVIOUS
<1>. USE DEF SliceInv, LocalType
<1>u. CASE UNCHANGED vars
  BY <1>u, HeapStays DEF vars, LocalInv
<1>. SUFFICES ASSUME NEW d \in Delivery,
       \/ Start(d) \/ QueueRead(d) \/ AppendContent(d) \/ AppendMeta(d) \/ QueueWrite(d)
       \/ TakeUploads(d) \/ Upload(d) \/ Audit(d) \/ ClearUploads(d)
     PROVE  SliceInv' /\ Keeps(heap, heap')
  BY <1>u DEF Next
<1>d. LocalInv(d)
  OBVIOUS
<1>n. next[d] \in Nat /\ FileCount[d] \in Nat /\ FileCount[d] >= 1 /\ AutoMerge[d] \in BOOLEAN
  BY Constants
<1>o. ASSUME Keeps(heap, heap'), LocalInv(d)',
             \A e \in Delivery \ {d} : /\ pc'[e] = pc[e] /\ next'[e] = next[e]
                                       /\ batch'[e] = batch[e] /\ held'[e] = held[e]
      PROVE  \A e \in Delivery : LocalInv(e)'
  <2>1. \A e \in Delivery \ {d} : LocalInv(e)'
    BY <1>o, OthersKept
  <2>. QED
    BY <1>o, <2>1
<1>1. CASE Start(d)
  <2>1. /\ UNCHANGED <<heap, queue, next, batch, held, sent, audited>>
        /\ pc' = [pc EXCEPT ![d] = "queue"] /\ pc[d] = "idle"
        /\ company' \in [Delivery -> SUBSET Delivery]
    BY <1>1 DEF Start, Goes
  <2>2. LocalInv(d)'
    BY <1>d, <2>1 DEF LocalInv, Appending
  <2>. QED
    BY <1>o, <2>1, <2>2, HeapStays DEF Place
<1>2. CASE QueueRead(d)
  <2>1. /\ UNCHANGED <<heap, queue, next, held, sent, audited, company>>
        /\ pc' = [pc EXCEPT ![d] = "content"] /\ next[d] <= FileCount[d]
        /\ batch' = [batch EXCEPT ![d] = Opened(d)]
    BY <1>2 DEF QueueRead, Goes, More
  <2>2. BatchIn(heap, Opened(d), 0)
    <3>1. CASE queue = None
      BY <1>n, <3>1, NilFacts DEF Opened, BatchIn, BatchType
    <3>2. CASE queue # None
      <4>1. BatchIn(heap, queue, 0)
        BY <3>2
      <4>. QED
        BY <1>n, <3>2, <4>1 DEF Opened, BatchIn, BatchType
    <3>. QED
      BY <3>1, <3>2
  <2>3. Opened(d) \in BatchType
    BY <2>2 DEF BatchIn
  <2>4. LocalInv(d)'
    BY <1>d, <2>1, <2>2 DEF LocalInv, Appending
  <2>. QED
    BY <1>o, <2>1, <2>3, <2>4, HeapStays DEF Place
<1>3. CASE AppendContent(d)
  <2>1. /\ UNCHANGED <<queue, next, held, sent, audited, company>>
        /\ pc' = [pc EXCEPT ![d] = "meta"] /\ pc[d] = "content"
        /\ AppendTo(batch[d].content, <<d, next[d]>>)
        /\ batch' = [batch EXCEPT ![d].content = Longer(@)]
    BY <1>3 DEF AppendContent, Goes
  <2>2. /\ BatchIn(heap, batch[d], 0) /\ batch[d] \in BatchType
        /\ next[d] \in 1 .. FileCount[d] /\ <<d, next[d]>> \in File
    BY <1>d, <1>n, <2>1, FileAtHand DEF LocalInv, Appending, BatchIn
  <2>3. PICK s, t : s = batch[d].content /\ t = Longer(s)
    OBVIOUS
  <2>4. /\ heap' \in Heap /\ Keeps(heap, heap') /\ SliceIn(heap', t) /\ t.len = s.len + 1
    BY <2>1, <2>2, <2>3, AppendFacts DEF BatchIn
  <2>5. batch'[d] = [batch[d] EXCEPT !.content = t]
    BY <2>1, <2>3
  <2>6. BatchIn(heap', batch'[d], 1)
    <3>1. t \in RawSlice /\ s \in RawSlice /\ batch[d].meta \in RawSlice
      BY <2>2, <2>3, <2>4 DEF SliceIn, BatchType
    <3>2. /\ batch'[d] \in BatchType /\ batch'[d].content = t
          /\ batch'[d].meta = batch[d].meta
      BY <2>2, <2>5, <3>1 DEF BatchType
    <3>3. SliceIn(heap', batch[d].meta)
      BY <2>2, <2>4, SliceKept DEF BatchIn
    <3>4. t.len = batch[d].meta.len + 1
      BY <2>2, <2>3, <2>4, <3>1 DEF BatchIn, RawSlice
    <3>. QED
      BY <2>4, <3>2, <3>3, <3>4 DEF BatchIn
  <2>7. batch'[d] \in BatchType /\ pc'[d] = "meta"
    BY <2>1, <2>6 DEF BatchIn
  <2>8. \A b, ahead : BatchIn(heap, b, ahead) => BatchIn(heap', b, ahead)
    BY <2>4, BatchKept
  <2>9. LocalInv(d)'
    BY <1>d, <2>1, <2>2, <2>6, <2>7, <2>8 DEF LocalInv, Appending
  <2>10. batch' \in [Delivery -> BatchType \cup {None}]
    <3>1. batch' = [batch EXCEPT ![d] = batch'[d]]
      BY <2>1
    <3>. QED
      BY <2>7, <3>1
  <2>. QED
    BY <1>o, <2>1, <2>4, <2>8, <2>9, <2>10 DEF Place
<1>4. CASE AppendMeta(d)
  <2>1. /\ UNCHANGED <<queue, next, held, sent, audited, company>>
        /\ pc' = [pc EXCEPT ![d] = "put"] /\ pc[d] = "meta"
        /\ AppendTo(batch[d].meta, <<d, next[d]>>)
        /\ batch' = [batch EXCEPT ![d].meta = Longer(@)]
    BY <1>4 DEF AppendMeta, Goes
  <2>2. /\ BatchIn(heap, batch[d], 1) /\ batch[d] \in BatchType
        /\ next[d] \in 1 .. FileCount[d] /\ <<d, next[d]>> \in File
    BY <1>d, <1>n, <2>1, FileAtHand DEF LocalInv, Appending, BatchIn
  <2>3. PICK s, t : s = batch[d].meta /\ t = Longer(s)
    OBVIOUS
  <2>4. /\ heap' \in Heap /\ Keeps(heap, heap') /\ SliceIn(heap', t) /\ t.len = s.len + 1
    BY <2>1, <2>2, <2>3, AppendFacts DEF BatchIn
  <2>5. batch'[d] = [batch[d] EXCEPT !.meta = t]
    BY <2>1, <2>3
  <2>6. BatchIn(heap', batch'[d], 0)
    <3>1. t \in RawSlice /\ s \in RawSlice /\ batch[d].content \in RawSlice
      BY <2>2, <2>3, <2>4 DEF SliceIn, BatchType
    <3>2. /\ batch'[d] \in BatchType /\ batch'[d].meta = t
          /\ batch'[d].content = batch[d].content
      BY <2>2, <2>5, <3>1 DEF BatchType
    <3>3. SliceIn(heap', batch[d].content)
      BY <2>2, <2>4, SliceKept DEF BatchIn
    <3>4. batch[d].content.len = t.len + 0
      BY <2>2, <2>3, <2>4, <3>1 DEF BatchIn, RawSlice
    <3>. QED
      BY <2>4, <3>2, <3>3, <3>4 DEF BatchIn
  <2>7. batch'[d] \in BatchType /\ pc'[d] = "put"
    BY <2>1, <2>6 DEF BatchIn
  <2>8. \A b, ahead : BatchIn(heap, b, ahead) => BatchIn(heap', b, ahead)
    BY <2>4, BatchKept
  <2>9. LocalInv(d)'
    BY <1>d, <2>1, <2>2, <2>6, <2>7, <2>8 DEF LocalInv, Appending
  <2>10. batch' \in [Delivery -> BatchType \cup {None}]
    <3>1. batch' = [batch EXCEPT ![d] = batch'[d]]
      BY <2>1
    <3>. QED
      BY <2>7, <3>1
  <2>. QED
    BY <1>o, <2>1, <2>4, <2>8, <2>9, <2>10 DEF Place
<1>5. CASE QueueWrite(d)
  <2>1. /\ UNCHANGED <<heap, held, sent, audited, company>>
        /\ pc' = [pc EXCEPT ![d] = "queue"] /\ pc[d] = "put"
        /\ queue' = batch[d] /\ batch' = [batch EXCEPT ![d] = None]
        /\ next' = [next EXCEPT ![d] = @ + 1]
    BY <1>5 DEF QueueWrite, Goes
  <2>2. BatchIn(heap, batch[d], 0) /\ next[d] <= FileCount[d]
    BY <1>d, <2>1 DEF LocalInv, Appending
  <2>3. LocalInv(d)'
    BY <1>d, <1>n, <2>1, <2>2 DEF LocalInv, Appending
  <2>. QED
    BY <1>n, <1>o, <2>1, <2>2, <2>3, HeapStays DEF Place
<1>6. CASE TakeUploads(d)
  <2>1. /\ UNCHANGED <<heap, queue, next, batch, sent, audited, company>>
        /\ pc' = [pc EXCEPT ![d] = "upload"] /\ pc[d] = "queue"
        /\ held' = [held EXCEPT ![d] = queue]
    BY <1>6 DEF TakeUploads, Goes
  <2>2. queue \in BatchType \cup {None}
    BY DEF BatchIn
  <2>3. LocalInv(d)'
    BY <1>d, <2>1 DEF LocalInv, Appending
  <2>. QED
    BY <1>o, <2>1, <2>2, <2>3, HeapStays DEF Place
<1>7. CASE Upload(d)
  <2>1. /\ UNCHANGED <<heap, queue, next, batch, held, audited, company>>
        /\ pc' = [pc EXCEPT ![d] = "audit"] /\ pc[d] = "upload"
        /\ sent' = [sent EXCEPT ![d] = IF held[d] = None THEN <<>> ELSE Elements(held[d].content)]
    BY <1>7 DEF Upload, Goes
  <2>2. held[d] # None => Elements(held[d].content) \in Seq(File)
    BY <1>d, ElementsAre DEF LocalInv, BatchIn
  <2>3. sent' \in [Delivery -> Seq(File)]
    BY <2>1, <2>2
  <2>4. LocalInv(d)'
    BY <1>d, <2>1 DEF LocalInv, Appending
  <2>. QED
    BY <1>o, <2>1, <2>3, <2>4, HeapStays DEF Place
<1>8. CASE Audit(d)
  <2>. DEFINE C == Elements(held[d].content)
              M == Elements(held[d].meta)
              n == held[d].content.len
  <2>1. /\ UNCHANGED <<heap, queue, next, batch, held, sent, company>>
        /\ pc' = [pc EXCEPT ![d] = "clear"] /\ pc[d] = "audit"
        /\ audited' = [audited EXCEPT ![d] =
             IF held[d] = None THEN <<>> ELSE [i \in 1 .. n |-> <<C[i], M[i]>>]]
    BY <1>8 DEF Audit, Goes
  <2>2. ASSUME held[d] # None PROVE [i \in 1 .. n |-> <<C[i], M[i]>>] \in Seq(File \X File)
    <3>1. BatchIn(heap, held[d], 0) /\ n \in Nat /\ n = held[d].meta.len
      BY <1>d, <2>2 DEF LocalInv, BatchIn, BatchType, RawSlice
    <3>2. C \in Seq(File) /\ Len(C) = n /\ M \in Seq(File) /\ Len(M) = n
      BY <3>1, ElementsAre DEF BatchIn
    <3>. HIDE DEF C, M, n
    <3>3. \A i \in 1 .. n : C[i] \in File /\ M[i] \in File
      BY <3>1, <3>2
    <3>4. [i \in 1 .. n |-> <<C[i], M[i]>>] \in [1 .. n -> File \X File]
      BY <3>3
    <3>. QED
      BY <3>1, <3>4, FunctionIsSeq
  <2>3. audited' \in [Delivery -> Seq(File \X File)]
    BY <2>1, <2>2
  <2>4. LocalInv(d)'
    BY <1>d, <2>1 DEF LocalInv, Appending
  <2>. QED
    BY <1>o, <2>1, <2>3, <2>4, HeapStays DEF Place
<1>9. CASE ClearUploads(d)
  <2>1. /\ UNCHANGED <<heap, next, batch, held, sent, audited, company>>
        /\ pc' = [pc EXCEPT ![d] = "done"] /\ pc[d] = "clear"
        /\ queue' = None
    BY <1>9 DEF ClearUploads, Goes
  <2>2. LocalInv(d)'
    BY <1>d, <2>1 DEF LocalInv, Appending
  <2>. QED
    BY <1>o, <2>1, <2>2, HeapStays DEF Place
<1>. QED
  BY <1>1, <1>2, <1>3, <1>4, <1>5, <1>6, <1>7, <1>8, <1>9

(* Whoever holds a slice, its elements have been written, however many     *)
(* goroutines append to the array it reaches into.                         *)
THEOREM SlicesAreWritten == Spec => []TypeOK
<1>1. SliceInv => TypeOK
  <2>. SUFFICES ASSUME SliceInv PROVE TypeOK
    OBVIOUS
  <2>1. ASSUME NEW s, SliceIn(heap, s) PROVE s \in Slice /\ Written(s)
    <3>1. CASE s = Nil
      BY <2>1, <3>1, NilFacts DEF Slice, Written, SliceInv, Heap, RawSlice
    <3>2. CASE s # Nil
      <4>1. /\ s \in RawSlice /\ s.array \in DOMAIN heap /\ Fits(s.len, Len(heap[s.array]))
            /\ \A i \in 1 .. s.len : heap[s.array][i] \in File
        BY <2>1, <3>2 DEF SliceIn
      <4>2. heap[s.array] \in Seq(File \cup {Blank}) /\ s.array \in 0 .. Len(heap)
        BY <4>1 DEF SliceInv, Heap
      <4>3. \A i \in 1 .. s.len : i \in DOMAIN heap[s.array]
        BY <4>1, <4>2 DEF Fits
      <4>. QED
        BY <4>1, <4>2, <4>3, Constants DEF Slice, Written, RawSlice
    <3>. QED
      BY <3>1, <3>2
  <2>2. ASSUME NEW b, NEW ahead, BatchIn(heap, b, ahead)
        PROVE  b \in Batch /\ Written(b.content) /\ Written(b.meta)
    <3>1. /\ b.content \in Slice /\ Written(b.content)
          /\ b.meta \in Slice /\ Written(b.meta)
      BY <2>1, <2>2 DEF BatchIn
    <3>. QED
      BY <2>2, <3>1 DEF BatchIn, BatchType, Batch
  <2>3. \A d \in Delivery : batch[d] # None => \E ahead : BatchIn(heap, batch[d], ahead)
    BY DEF SliceInv, LocalInv, Appending
  <2>4. \A d \in Delivery : held[d] # None => BatchIn(heap, held[d], 0)
    BY DEF SliceInv, LocalInv
  <2>5. \A a \in DOMAIN heap : heap[a] \in Seq(File \cup {Blank})
    BY DEF SliceInv, Heap
  <2>6. \A d \in Delivery : next[d] \in 1 .. FileCount[d] + 1
    BY DEF SliceInv, LocalInv
  <2>7. \A b \in {queue} \cup {batch[d] : d \in Delivery} \cup {held[d] : d \in Delivery} :
          b # None => b \in Batch /\ Written(b.content) /\ Written(b.meta)
    BY <2>2, <2>3, <2>4 DEF SliceInv
  <2>. QED
    BY <2>5, <2>6, <2>7 DEF SliceInv, LocalType, Place, TypeOK
<1>. QED
  BY <1>1, SliceInit, SliceStep, PTL DEF Spec
-----------------------------------------------------------------------------
(* The first three files of a batch to be merged without review.           *)
Agrees(h, b) ==
  b.autoMerge => \A i \in 1 .. b.content.len : i <= 3 => AutoMerge[h[b.content.array][i][1]]

AgreeOf(d) ==
  /\ held[d] # None => Agrees(heap, held[d])
  /\ batch[d] # None => Agrees(heap, batch[d]) /\ (batch[d].autoMerge => AutoMerge[d])
  /\ pc[d] = "audit" /\ held[d] # None /\ held[d].autoMerge =>
       \A i \in DOMAIN sent[d] : i <= 3 => AutoMerge[sent[d][i][1]]

AgreeInv ==
  /\ queue # None => Agrees(heap, queue)
  /\ \A d \in Delivery : AgreeOf(d)

(* No append disturbs them.                                                *)
LEMMA AgreesKept ==
  ASSUME NEW h \in Heap, NEW g, Keeps(h, g),
         NEW b, NEW ahead, BatchIn(h, b, ahead), Agrees(h, b)
  PROVE  Agrees(g, b)
<1>. DEFINE a == b.content.array
<1>1. ASSUME NEW i \in 1 .. b.content.len, i <= 3 PROVE g[a][i] = h[a][i]
  <2>1. b.content # Nil
    BY <1>1, NilFacts
  <2>2. a \in DOMAIN h /\ Fits(b.content.len, Len(h[a]))
    BY <2>1 DEF BatchIn, SliceIn
  <2>3. h[a] \in Seq(File \cup {Blank})
    BY <2>2 DEF Heap
  <2>4. i \in DOMAIN h[a] /\ ~ (i >= 4)
    BY <1>1, <2>2, <2>3 DEF Fits
  <2>. QED
    BY <2>2, <2>4 DEF Keeps
<1>. QED
  BY <1>1 DEF Agrees

LEMMA AgreeInit == Init => AgreeInv
  BY DEF Init, AgreeInv, AgreeOf

(* Appending a file its own workflow wants merged keeps the agreement.     *)
LEMMA AgreesLonger ==
  ASSUME heap \in Heap, NEW b, BatchIn(heap, b, 0), Agrees(heap, b),
         NEW d \in Delivery, NEW i \in 1 .. FileCount[d],
         b.autoMerge => AutoMerge[d], AppendTo(b.content, <<d, i>>),
         NEW c, c.autoMerge = b.autoMerge, c.content = Longer(b.content)
  PROVE  Agrees(heap', c)
<1>1. PICK s, t : s = b.content /\ t = Longer(s) /\ t = c.content
  OBVIOUS
<1>2. /\ t.len = s.len + 1 /\ heap'[t.array][t.len] = <<d, i>>
      /\ \A j \in 1 .. s.len : heap'[t.array][j] = heap[s.array][j]
      /\ s.len \in Nat
  <2>1. SliceIn(heap, s) /\ AppendTo(s, <<d, i>>)
    BY <1>1 DEF BatchIn
  <2>2. s.len \in Nat
    BY <2>1 DEF SliceIn, RawSlice
  <2>3. <<d, i>> \in File
    BY FileAtHand
  <2>. QED
    BY <1>1, <2>1, <2>2, <2>3, AppendFacts
<1>3. ASSUME NEW j \in 1 .. t.len, j <= 3, b.autoMerge
      PROVE  AutoMerge[heap'[t.array][j][1]]
  <2>1. CASE j = t.len
    BY <1>2, <1>3, <2>1
  <2>2. CASE j # t.len
    <3>1. j \in 1 .. s.len
      BY <1>2, <1>3, <2>2
    <3>. QED
      BY <1>1, <1>2, <1>3, <3>1 DEF Agrees
  <2>. QED
    BY <2>1, <2>2
<1>. QED
  BY <1>1, <1>3 DEF Agrees

LEMMA AgreeStep == SliceInv /\ AgreeInv /\ [Next]_vars => AgreeInv'
<1>. SUFFICES ASSUME SliceInv, AgreeInv, [Next]_vars PROVE AgreeInv'
  OBVIOUS
<1>u. CASE UNCHANGED vars
  BY <1>u DEF vars, AgreeInv, AgreeOf
<1>. SUFFICES ASSUME NEW d \in Delivery,
       \/ Start(d) \/ QueueRead(d) \/ AppendContent(d) \/ AppendMeta(d) \/ QueueWrite(d)
       \/ TakeUploads(d) \/ Upload(d) \/ Audit(d) \/ ClearUploads(d)
     PROVE  AgreeInv'
  BY <1>u DEF Next
<1>t. /\ heap \in Heap /\ LocalType /\ LocalInv(d) /\ AgreeOf(d)
      /\ queue # None => BatchIn(heap, queue, 0) /\ Agrees(heap, queue)
      /\ Keeps(heap, heap')
  BY SliceStep DEF SliceInv, AgreeInv
<1>k. \A b, ahead : BatchIn(heap, b, ahead) /\ Agrees(heap, b) => Agrees(heap', b)
  BY <1>t, AgreesKept
<1>q. queue # None => Agrees(heap', queue)
  BY <1>t, <1>k
<1>h. held[d] # None => Agrees(heap', held[d])
  BY <1>t, <1>k DEF LocalInv, AgreeOf
<1>o. ASSUME AgreeOf(d)',
             \A e \in Delivery \ {d} : /\ pc'[e] = pc[e] /\ batch'[e] = batch[e]
                                       /\ held'[e] = held[e] /\ sent'[e] = sent[e]
      PROVE  \A e \in Delivery : AgreeOf(e)'
  <2>1. ASSUME NEW e \in Delivery \ {d} PROVE AgreeOf(e)'
    <3>1. LocalInv(e) /\ AgreeOf(e)
      BY DEF SliceInv, AgreeInv
    <3>2. held[e] # None => Agrees(heap', held[e])
      BY <1>k, <3>1 DEF LocalInv, AgreeOf
    <3>3. batch[e] # None => Agrees(heap', batch[e])
      BY <1>k, <3>1 DEF LocalInv, AgreeOf, Appending
    <3>. QED
      BY <1>o, <3>1, <3>2, <3>3 DEF AgreeOf
  <2>. QED
    BY <1>o, <2>1
<1>. USE DEF LocalType
<1>1. CASE Start(d)
  <2>1. /\ UNCHANGED <<heap, queue, batch, held, sent>>
        /\ pc' = [pc EXCEPT ![d] = "queue"]
    BY <1>1 DEF Start, Goes
  <2>2. AgreeOf(d)'
    BY <1>t, <2>1 DEF AgreeOf
  <2>. QED
    BY <1>o, <1>q, <1>t, <2>1, <2>2 DEF AgreeInv
<1>2. CASE QueueRead(d)
  <2>1. /\ UNCHANGED <<heap, queue, held, sent>>
        /\ pc' = [pc EXCEPT ![d] = "content"]
        /\ batch' = [batch EXCEPT ![d] = Opened(d)]
    BY <1>2 DEF QueueRead, Goes
  <2>2. Agrees(heap, Opened(d)) /\ (Opened(d).autoMerge => AutoMerge[d])
    <3>1. CASE queue = None
      BY <3>1, NilFacts DEF Opened, Agrees
    <3>2. CASE queue # None
      <4>1. queue \in BatchType /\ Agrees(heap, queue) /\ AutoMerge[d] \in BOOLEAN
        BY <1>t, <3>2, Constants DEF BatchIn
      <4>. QED
        BY <3>2, <4>1 DEF Opened, Agrees, BatchType
    <3>. QED
      BY <3>1, <3>2
  <2>3. AgreeOf(d)'
    BY <1>t, <2>1, <2>2 DEF AgreeOf
  <2>. QED
    BY <1>o, <1>q, <1>t, <2>1, <2>3 DEF AgreeInv
<1>3. CASE AppendContent(d)
  <2>1. /\ UNCHANGED <<queue, held, sent>>
        /\ pc' = [pc EXCEPT ![d] = "meta"] /\ pc[d] = "content"
        /\ AppendTo(batch[d].content, <<d, next[d]>>)
        /\ batch' = [batch EXCEPT ![d].content = Longer(@)]
    BY <1>3 DEF AppendContent, Goes
  <2>2. /\ BatchIn(heap, batch[d], 0) /\ batch[d] # None /\ batch[d] \in BatchType
        /\ next[d] \in 1 .. FileCount[d]
    BY <1>t, <2>1, Constants DEF LocalInv, Appending, BatchIn
  <2>3. Agrees(heap, batch[d]) /\ (batch[d].autoMerge => AutoMerge[d])
    BY <1>t, <2>2 DEF AgreeOf
  <2>4. /\ batch'[d].autoMerge = batch[d].autoMerge
        /\ batch'[d].content = Longer(batch[d].content)
    BY <1>t, <2>1, <2>2 DEF BatchType
  <2>5. Agrees(heap', batch'[d])
    BY <1>t, <2>1, <2>2, <2>3, <2>4, AgreesLonger
  <2>6. AgreeOf(d)'
    BY <1>h, <1>t, <2>1, <2>3, <2>4, <2>5 DEF AgreeOf
  <2>. QED
    BY <1>o, <1>q, <1>t, <2>1, <2>6 DEF AgreeInv
<1>4. CASE AppendMeta(d)
  <2>1. /\ UNCHANGED <<queue, held, sent>>
        /\ pc' = [pc EXCEPT ![d] = "put"] /\ pc[d] = "meta"
        /\ batch' = [batch EXCEPT ![d].meta = Longer(@)]
    BY <1>4 DEF AppendMeta, Goes
  <2>2. BatchIn(heap, batch[d], 1) /\ batch[d] # None /\ batch[d] \in BatchType
    BY <1>t, <2>1, Constants DEF LocalInv, BatchIn
  <2>3. Agrees(heap', batch[d]) /\ (batch[d].autoMerge => AutoMerge[d])
    BY <1>k, <1>t, <2>2 DEF AgreeOf
  <2>4. /\ batch'[d].autoMerge = batch[d].autoMerge
        /\ batch'[d].content = batch[d].content
    BY <1>t, <2>1, <2>2 DEF BatchType
  <2>5. Agrees(heap', batch'[d])
    BY <2>3, <2>4 DEF Agrees
  <2>6. AgreeOf(d)'
    BY <1>h, <1>t, <2>1, <2>3, <2>4, <2>5 DEF AgreeOf
  <2>. QED
    BY <1>o, <1>q, <1>t, <2>1, <2>6 DEF AgreeInv
<1>5. CASE QueueWrite(d)
  <2>1. /\ UNCHANGED <<heap, held, sent>>
        /\ pc' = [pc EXCEPT ![d] = "queue"] /\ pc[d] = "put"
        /\ queue' = batch[d] /\ batch' = [batch EXCEPT ![d] = None]
    BY <1>5 DEF QueueWrite, Goes
  <2>2. AgreeOf(d)' /\ (queue' # None => Agrees(heap', queue'))
    BY <1>t, <2>1 DEF AgreeOf
  <2>. QED
    BY <1>o, <1>t, <2>1, <2>2 DEF AgreeInv
<1>6. CASE TakeUploads(d)
  <2>1. /\ UNCHANGED <<heap, queue, batch, sent>>
        /\ pc' = [pc EXCEPT ![d] = "upload"]
        /\ held' = [held EXCEPT ![d] = queue]
    BY <1>6 DEF TakeUploads, Goes
  <2>2. AgreeOf(d)'
    BY <1>t, <2>1 DEF AgreeOf
  <2>. QED
    BY <1>o, <1>q, <1>t, <2>1, <2>2 DEF AgreeInv
<1>7. CASE Upload(d)
  <2>1. /\ UNCHANGED <<heap, queue, batch, held>>
        /\ pc' = [pc EXCEPT ![d] = "audit"]
        /\ sent' = [sent EXCEPT ![d] = IF held[d] = None THEN <<>> ELSE Elements(held[d].content)]
    BY <1>7 DEF Upload, Goes
  <2>2. ASSUME held[d] # None, held[d].autoMerge, NEW i \in DOMAIN sent'[d], i <= 3
        PROVE  AutoMerge[sent'[d][i][1]]
    <3>1. SliceIn(heap, held[d].content) /\ Agrees(heap, held[d])
      BY <1>t, <2>2 DEF LocalInv, BatchIn, AgreeOf
    <3>2. sent'[d] = Elements(held[d].content)
      BY <1>t, <2>1, <2>2
    <3>3. /\ Elements(held[d].content) \in Seq(File)
          /\ Len(Elements(held[d].content)) = held[d].content.len
          /\ \A j \in 1 .. held[d].content.len :
               Elements(held[d].content)[j] = heap[held[d].content.array][j]
      BY <1>t, <3>1, ElementsAre
    <3>4. i \in 1 .. held[d].content.len
      BY <2>2, <3>2, <3>3
    <3>. QED
      BY <2>2, <3>1, <3>2, <3>3, <3>4 DEF Agrees
  <2>3. AgreeOf(d)'
    BY <1>t, <2>1, <2>2 DEF AgreeOf
  <2>. QED
    BY <1>o, <1>q, <1>t, <2>1, <2>3 DEF AgreeInv
<1>8. CASE Audit(d)
  <2>1. /\ UNCHANGED <<heap, queue, batch, held, sent>>
        /\ pc' = [pc EXCEPT ![d] = "clear"]
    BY <1>8 DEF Audit, Goes
  <2>2. AgreeOf(d)'
    BY <1>t, <2>1 DEF AgreeOf
  <2>. QED
    BY <1>o, <1>q, <1>t, <2>1, <2>2 DEF AgreeInv
<1>9. CASE ClearUploads(d)
  <2>1. /\ UNCHANGED <<heap, batch, held, sent>>
        /\ pc' = [pc EXCEPT ![d] = "done"] /\ queue' = None
    BY <1>9 DEF ClearUploads, Goes
  <2>2. AgreeOf(d)'
    BY <1>t, <2>1 DEF AgreeOf
  <2>. QED
    BY <1>o, <1>t, <2>1, <2>2 DEF AgreeInv
<1>. QED
  BY <1>1, <1>2, <1>3, <1>4, <1>5, <1>6, <1>7, <1>8, <1>9

(* Up to three files, a batch that is merged without review has no file    *)
(* whose workflow wants one, however deliveries overlap.                   *)
THEOREM SmallBatchesAreSafe == Spec => []SmallBatchesAgree
<1>1. Init => SliceInv /\ AgreeInv
  BY SliceInit, AgreeInit
<1>2. SliceInv /\ AgreeInv /\ [Next]_vars => (SliceInv /\ AgreeInv)'
  BY SliceStep, AgreeStep
<1>3. SliceInv /\ AgreeInv => SmallBatchesAgree
  <2>. SUFFICES ASSUME SliceInv, AgreeInv, NEW d \in Delivery, pc[d] = "audit",
                       Len(sent[d]) <= 3, held[d] # None, held[d].autoMerge,
                       NEW i \in DOMAIN sent[d]
                PROVE  AutoMerge[sent[d][i][1]]
    BY DEF SmallBatchesAgree
  <2>1. sent[d] \in Seq(File)
    BY DEF SliceInv, LocalType
  <2>2. i <= 3
    BY <2>1
  <2>. QED
    BY <2>2 DEF AgreeInv, AgreeOf
<1>. QED
  BY <1>1, <1>2, <1>3, PTL DEF Spec
-----------------------------------------------------------------------------
(* A delivery that overlaps no other: the slices of the batch are a run of *)
(* its own files, in two arrays of their own.                              *)
Run(h, s, d, n) == s.len = n /\ \A i \in 1 .. n : h[s.array][i] = <<d, i>>

OwnBatch(h, b, d, n, m) ==
  /\ b # None
  /\ Run(h, b.content, d, n) /\ Run(h, b.meta, d, m)
  /\ b.autoMerge = AutoMerge[d]
  /\ b.content.array = b.meta.array => b.content = Nil /\ b.meta = Nil

Full(d) == [i \in 1 .. FileCount[d] |-> <<d, i>>]

LoneOf(d) ==
  /\ pc[d] = "queue" => IF next[d] = 1 THEN queue = None
                        ELSE OwnBatch(heap, queue, d, next[d] - 1, next[d] - 1)
  /\ pc[d] = "content" => OwnBatch(heap, batch[d], d, next[d] - 1, next[d] - 1)
  /\ pc[d] = "meta" => OwnBatch(heap, batch[d], d, next[d], next[d] - 1)
  /\ pc[d] = "put" => OwnBatch(heap, batch[d], d, next[d], next[d])
  /\ pc[d] \in {"upload", "audit", "clear"} =>
       OwnBatch(heap, held[d], d, FileCount[d], FileCount[d])
  /\ pc[d] \in {"audit", "clear"} => sent[d] = Full(d)
  /\ pc[d] = "clear" => audited[d] = [i \in 1 .. FileCount[d] |-> <<Full(d)[i], Full(d)[i]>>]

(* The last delivery to end leaves nothing in the queue.                   *)
LoneInv ==
  /\ (\A d \in Delivery : ~ InFlight(d)) => queue = None
  /\ \A d \in Delivery : pc[d] = "idle" => next[d] = 1
  /\ \A d \in Delivery : company[d] = {} /\ InFlight(d) =>
       LoneOf(d) /\ \A e \in Delivery \ {d} : ~ InFlight(e)

LEMMA LoneInit == Init => LoneInv
  BY DEF Init, LoneInv, InFlight

(* An append to one of the two slices makes the run in it one longer and   *)
(* leaves the run in the other one alone.                                  *)
LEMMA RunLonger ==
  ASSUME heap \in Heap, NEW s, SliceIn(heap, s), NEW o, SliceIn(heap, o),
         s.array = o.array => s = Nil /\ o = Nil,
         NEW d \in Delivery, NEW n \in 1 .. FileCount[d], NEW m \in Nat,
         Run(heap, s, d, n - 1), Run(heap, o, d, m),
         AppendTo(s, <<d, n>>), NEW t, t = Longer(s)
  PROVE  Run(heap', t, d, n) /\ Run(heap', o, d, m) /\ t.array # o.array
<1>1. /\ SliceIn(heap', t) /\ t.len = s.len + 1
      /\ heap'[t.array][t.len] = <<d, n>>
      /\ \A i \in 1 .. s.len : heap'[t.array][i] = heap[s.array][i]
      /\ t.array = s.array \/ t.array = Len(heap) + 1
      /\ \A a \in DOMAIN heap \ {s.array} : heap'[a] = heap[a]
  BY FileAtHand, AppendFacts
<1>2. FileCount[d] \in Nat /\ Len(heap) \in Nat /\ DOMAIN heap = 1 .. Len(heap)
  BY Constants DEF Heap
<1>3. t.len = n
  BY <1>1, <1>2 DEF Run
<1>4. Run(heap', t, d, n)
  <2>1. ASSUME NEW i \in 1 .. n PROVE heap'[t.array][i] = <<d, i>>
    <3>1. CASE i = n
      BY <1>1, <1>3, <3>1
    <3>2. CASE i # n
      <4>1. i \in 1 .. n - 1 /\ s.len = n - 1
        BY <1>2, <3>2 DEF Run
      <4>. QED
        BY <1>1, <4>1 DEF Run
    <3>. QED
      BY <3>1, <3>2
  <2>. QED
    BY <1>3, <2>1 DEF Run
<1>5. t.array # o.array
  <2>1. t # Nil /\ t.array \in Nat \ {0}
    <3>1. t # Nil
      BY <1>2, <1>3, NilFacts
    <3>2. t.array \in DOMAIN heap'
      BY <1>1, <3>1 DEF SliceIn
    <3>3. heap' \in Heap
      BY FileAtHand, AppendFacts
    <3>. QED
      BY <3>1, <3>2, <3>3 DEF Heap
  <2>2. CASE o = Nil
    BY <2>1, <2>2, NilFacts
  <2>3. CASE o # Nil
    BY <1>1, <1>2, <2>3 DEF SliceIn
  <2>. QED
    BY <2>2, <2>3
<1>6. Run(heap', o, d, m)
  <2>1. CASE o = Nil
    BY <2>1, NilFacts DEF Run
  <2>2. CASE o # Nil
    BY <1>1, <2>2 DEF Run, SliceIn
  <2>. QED
    BY <2>1, <2>2
<1>. QED
  BY <1>4, <1>5, <1>6

LEMMA LoneStep == SliceInv /\ LoneInv /\ [Next]_vars => LoneInv'
<1>. SUFFICES ASSUME SliceInv, LoneInv, [Next]_vars PROVE LoneInv'
  OBVIOUS
<1>u. CASE UNCHANGED vars
  BY <1>u DEF vars, LoneInv, LoneOf, InFlight
<1>. SUFFICES ASSUME NEW d \in Delivery,
       \/ Start(d) \/ QueueRead(d) \/ AppendContent(d) \/ AppendMeta(d) \/ QueueWrite(d)
       \/ TakeUploads(d) \/ Upload(d) \/ Audit(d) \/ ClearUploads(d)
     PROVE  LoneInv'
  BY <1>u DEF Next
<1>t. /\ heap \in Heap /\ LocalType /\ LocalInv(d)
      /\ queue = None \/ BatchIn(heap, queue, 0)
      /\ FileCount[d] \in Nat /\ FileCount[d] >= 1 /\ AutoMerge[d] \in BOOLEAN
      /\ next[d] \in 1 .. FileCount[d] + 1 /\ None \notin BatchType
  BY Constants DEF SliceInv, LocalInv
<1>. USE DEF LocalType, InFlight
<1>1. CASE Start(d)
  <2>1. /\ UNCHANGED <<heap, queue, next, batch, held, sent, audited>>
        /\ pc' = [pc EXCEPT ![d] = "queue"] /\ pc[d] = "idle"
        /\ company'[d] = {e \in Delivery : InFlight(e)}
        /\ \A e \in Delivery \ {d} :
             company'[e] = IF InFlight(e) THEN company[e] \cup {d} ELSE company[e]
    BY <1>1 DEF Start, Goes
  <2>2. ASSUME company'[d] = {}
        PROVE  queue = None /\ \A e \in Delivery \ {d} : ~ InFlight(e)'
    BY <1>t, <2>1, <2>2 DEF LoneInv
  <2>3. next[d] = 1
    BY <2>1 DEF LoneInv
  <2>4. company'[d] = {} => LoneOf(d)'
    BY <1>t, <2>1, <2>2, <2>3 DEF LoneOf
  <2>5. ASSUME NEW e \in Delivery \ {d}, company'[e] = {} PROVE ~ InFlight(e)'
    BY <1>t, <2>1, <2>5
  <2>6. InFlight(d)' /\ pc'[d] # "idle"
    BY <1>t, <2>1
  <2>7. \A e \in Delivery : pc'[e] = "idle" => next'[e] = 1
    BY <1>t, <2>1, <2>6 DEF LoneInv
  <2>. QED
    BY <2>2, <2>4, <2>5, <2>6, <2>7 DEF LoneInv
<1>g. ASSUME company' = company, InFlight(d), pc'[d] # "idle",
             \A e \in Delivery \ {d} : pc'[e] = pc[e] /\ next'[e] = next[e],
             InFlight(d)' \/ queue' = None,
             company[d] = {} /\ InFlight(d)' => LoneOf(d)'
      PROVE  LoneInv'
  <2>1. ASSUME NEW e \in Delivery \ {d}, company[e] = {} PROVE ~ InFlight(e)'
    BY <1>g, <2>1 DEF LoneInv
  <2>2. company[d] = {} => \A e \in Delivery \ {d} : ~ InFlight(e)'
    BY <1>g DEF LoneInv
  <2>3. \A e \in Delivery : pc'[e] = "idle" => next'[e] = 1
    BY <1>g DEF LoneInv
  <2>4. (\A e \in Delivery : ~ InFlight(e)') => queue' = None
    BY <1>g
  <2>. QED
    BY <1>g, <2>1, <2>2, <2>3, <2>4 DEF LoneInv
<1>l. company[d] = {} /\ InFlight(d) => LoneOf(d)
  BY DEF LoneInv
<1>2. CASE QueueRead(d)
  <2>1. /\ UNCHANGED <<heap, queue, next, held, sent, audited, company>>
        /\ pc' = [pc EXCEPT ![d] = "content"] /\ pc[d] = "queue"
        /\ batch' = [batch EXCEPT ![d] = Opened(d)]
    BY <1>2 DEF QueueRead, Goes
  <2>2. ASSUME company[d] = {}
        PROVE  OwnBatch(heap, Opened(d), d, next[d] - 1, next[d] - 1)
    <3>1. IF next[d] = 1 THEN queue = None
          ELSE OwnBatch(heap, queue, d, next[d] - 1, next[d] - 1)
      BY <1>l, <2>1, <2>2 DEF LoneOf
    <3>2. CASE queue = None
      <4>1. Opened(d) = [content |-> Nil, meta |-> Nil, autoMerge |-> AutoMerge[d]]
        BY <3>2 DEF Opened
      <4>2. Opened(d) \in BatchType
        BY <1>t, <4>1, NilFacts DEF BatchType
      <4>3. next[d] = 1
        BY <3>1, <3>2 DEF OwnBatch
      <4>. QED
        BY <1>t, <4>1, <4>2, <4>3, NilFacts DEF OwnBatch, Run
    <3>3. CASE queue # None
      <4>1. OwnBatch(heap, queue, d, next[d] - 1, next[d] - 1) /\ queue \in BatchType
        BY <1>t, <3>1, <3>3 DEF BatchIn
      <4>2. /\ Opened(d) \in BatchType /\ Opened(d).content = queue.content
            /\ Opened(d).meta = queue.meta /\ Opened(d).autoMerge = AutoMerge[d]
        BY <1>t, <3>3, <4>1 DEF Opened, BatchType, OwnBatch
      <4>. QED
        BY <1>t, <4>1, <4>2 DEF OwnBatch
    <3>. QED
      BY <3>2, <3>3
  <2>3. company[d] = {} => LoneOf(d)'
    BY <1>t, <2>1, <2>2 DEF LoneOf
  <2>. QED
    BY <1>g, <1>t, <2>1, <2>3
<1>3. CASE AppendContent(d)
  <2>1. /\ UNCHANGED <<queue, next, held, sent, audited, company>>
        /\ pc' = [pc EXCEPT ![d] = "meta"] /\ pc[d] = "content"
        /\ AppendTo(batch[d].content, <<d, next[d]>>)
        /\ batch' = [batch EXCEPT ![d].content = Longer(@)]
    BY <1>3 DEF AppendContent, Goes
  <2>2. BatchIn(heap, batch[d], 0) /\ batch[d] \in BatchType /\ next[d] \in 1 .. FileCount[d]
    BY <1>t, <2>1 DEF LocalInv, Appending, BatchIn
  <2>3. /\ batch'[d] \in BatchType /\ batch'[d].autoMerge = batch[d].autoMerge
        /\ batch'[d].content = Longer(batch[d].content) /\ batch'[d].meta = batch[d].meta
    <3>1. batch[d].content \in RawSlice /\ Len(heap) \in Nat
      BY <1>t, <2>2 DEF BatchType, Heap
    <3>2. Longer(batch[d].content) \in RawSlice
      BY <3>1 DEF Longer, RawSlice
    <3>. QED
      BY <1>t, <2>1, <2>2, <3>2 DEF BatchType
  <2>4. ASSUME company[d] = {} PROVE OwnBatch(heap', batch'[d], d, next[d], next[d] - 1)
    <3>1. OwnBatch(heap, batch[d], d, next[d] - 1, next[d] - 1)
      BY <1>l, <2>1, <2>4 DEF LoneOf
    <3>2. PICK n, s, o, t : /\ n = next[d] /\ s = batch[d].content /\ o = batch[d].meta
                            /\ t = Longer(s)
      OBVIOUS
    <3>3. /\ SliceIn(heap, s) /\ SliceIn(heap, o) /\ n \in 1 .. FileCount[d] /\ n - 1 \in Nat
          /\ s.array = o.array => s = Nil /\ o = Nil
          /\ Run(heap, s, d, n - 1) /\ Run(heap, o, d, n - 1) /\ AppendTo(s, <<d, n>>)
      BY <1>t, <2>1, <2>2, <3>1, <3>2 DEF BatchIn, OwnBatch
    <3>4. Run(heap', t, d, n) /\ Run(heap', o, d, n - 1) /\ t.array # o.array
      <4>. heap \in Heap /\ t = Longer(s)
        BY <1>t, <3>2
      <4>. DEFINE m == n - 1
      <4>. m \in Nat /\ Run(heap, o, d, m)
        BY <3>3
      <4>. HIDE DEF m
      <4>1. Run(heap', t, d, n) /\ Run(heap', o, d, m) /\ t.array # o.array
        BY <3>3, RunLonger
      <4>. QED
        BY <4>1 DEF m
    <3>. QED
      BY <1>t, <2>3, <3>1, <3>2, <3>4 DEF OwnBatch
  <2>5. company[d] = {} => LoneOf(d)'
    BY <1>t, <2>1, <2>4 DEF LoneOf
  <2>. QED
    BY <1>g, <1>t, <2>1, <2>5
<1>4. CASE AppendMeta(d)
  <2>1. /\ UNCHANGED <<queue, next, held, sent, audited, company>>
        /\ pc' = [pc EXCEPT ![d] = "put"] /\ pc[d] = "meta"
        /\ AppendTo(batch[d].meta, <<d, next[d]>>)
        /\ batch' = [batch EXCEPT ![d].meta = Longer(@)]
    BY <1>4 DEF AppendMeta, Goes
  <2>2. BatchIn(heap, batch[d], 1) /\ batch[d] \in BatchType /\ next[d] \in 1 .. FileCount[d]
    BY <1>t, <2>1 DEF LocalInv, Appending, BatchIn
  <2>3. /\ batch'[d] \in BatchType /\ batch'[d].autoMerge = batch[d].autoMerge
        /\ batch'[d].meta = Longer(batch[d].meta) /\ batch'[d].content = batch[d].content
    <3>1. batch[d].meta \in RawSlice /\ Len(heap) \in Nat
      BY <1>t, <2>2 DEF BatchType, Heap
    <3>2. Longer(batch[d].meta) \in RawSlice
      BY <3>1 DEF Longer, RawSlice
    <3>. QED
      BY <1>t, <2>1, <2>2, <3>2 DEF BatchType
  <2>4. ASSUME company[d] = {} PROVE OwnBatch(heap', batch'[d], d, next[d], next[d])
    <3>1. OwnBatch(heap, batch[d], d, next[d], next[d] - 1)
      BY <1>l, <2>1, <2>4 DEF LoneOf
    <3>2. PICK n, s, o, t : /\ n = next[d] /\ s = batch[d].meta /\ o = batch[d].content
                            /\ t = Longer(s)
      OBVIOUS
    <3>3. /\ SliceIn(heap, s) /\ SliceIn(heap, o) /\ n \in 1 .. FileCount[d] /\ n \in Nat
          /\ s.array = o.array => s = Nil /\ o = Nil
          /\ Run(heap, s, d, n - 1) /\ Run(heap, o, d, n) /\ AppendTo(s, <<d, n>>)
      BY <1>t, <2>1, <2>2, <3>1, <3>2 DEF BatchIn, OwnBatch
    <3>4. Run(heap', t, d, n) /\ Run(heap', o, d, n) /\ t.array # o.array
      <4>. heap \in Heap /\ t = Longer(s)
        BY <1>t, <3>2
      <4>. DEFINE m == n
      <4>. m \in Nat /\ Run(heap, o, d, m)
        BY <3>3
      <4>. HIDE DEF m
      <4>1. Run(heap', t, d, n) /\ Run(heap', o, d, m) /\ t.array # o.array
        BY <3>3, RunLonger
      <4>. QED
        BY <4>1 DEF m
    <3>. QED
      BY <1>t, <2>3, <3>1, <3>2, <3>4 DEF OwnBatch
  <2>5. company[d] = {} => LoneOf(d)'
    BY <1>t, <2>1, <2>4 DEF LoneOf
  <2>. QED
    BY <1>g, <1>t, <2>1, <2>5
<1>5. CASE QueueWrite(d)
  <2>1. /\ UNCHANGED <<heap, held, sent, audited, company>>
        /\ pc' = [pc EXCEPT ![d] = "queue"] /\ pc[d] = "put"
        /\ queue' = batch[d] /\ next' = [next EXCEPT ![d] = @ + 1]
    BY <1>5 DEF QueueWrite, Goes
  <2>2. next'[d] = next[d] + 1 /\ next'[d] # 1 /\ next'[d] - 1 = next[d]
    BY <1>t, <2>1
  <2>3. company[d] = {} => OwnBatch(heap, batch[d], d, next[d], next[d])
    BY <1>l, <2>1 DEF LoneOf
  <2>4. company[d] = {} => LoneOf(d)'
    BY <1>t, <2>1, <2>2, <2>3 DEF LoneOf
  <2>. QED
    BY <1>g, <1>t, <2>1, <2>4
<1>6. CASE TakeUploads(d)
  <2>1. /\ UNCHANGED <<heap, queue, next, batch, sent, audited, company>>
        /\ pc' = [pc EXCEPT ![d] = "upload"] /\ pc[d] = "queue" /\ ~ More(d)
        /\ held' = [held EXCEPT ![d] = queue]
    BY <1>6 DEF TakeUploads, Goes
  <2>2. next[d] - 1 = FileCount[d] /\ next[d] # 1
    BY <1>t, <2>1 DEF More
  <2>3. company[d] = {} => OwnBatch(heap, queue, d, FileCount[d], FileCount[d])
    BY <1>l, <2>1, <2>2 DEF LoneOf
  <2>4. company[d] = {} => LoneOf(d)'
    BY <1>t, <2>1, <2>3 DEF LoneOf
  <2>. QED
    BY <1>g, <1>t, <2>1, <2>4
<1>e. ASSUME pc[d] \in {"upload", "audit"}, company[d] = {}
      PROVE  /\ held[d] # None /\ held[d].content.len = FileCount[d]
             /\ Elements(held[d].content) = Full(d) /\ Elements(held[d].meta) = Full(d)
  <2>1. OwnBatch(heap, held[d], d, FileCount[d], FileCount[d])
    BY <1>e, <1>l DEF LoneOf
  <2>2. SliceIn(heap, held[d].content) /\ SliceIn(heap, held[d].meta)
    BY <1>t, <2>1 DEF LocalInv, BatchIn, OwnBatch
  <2>3. ASSUME NEW s, SliceIn(heap, s), Run(heap, s, d, FileCount[d])
        PROVE  Elements(s) = Full(d)
    <3>1. /\ Elements(s) \in Seq(File) /\ Len(Elements(s)) = FileCount[d]
          /\ \A i \in 1 .. FileCount[d] : Elements(s)[i] = <<d, i>>
      BY <1>t, <2>3, ElementsAre DEF Run
    <3>2. PICK u : u = Elements(s)
      OBVIOUS
    <3>3. u = [i \in 1 .. Len(u) |-> u[i]] /\ Len(u) = FileCount[d]
      BY <3>1, <3>2
    <3>. QED
      BY <3>1, <3>2, <3>3 DEF Full
  <2>. QED
    BY <2>1, <2>2, <2>3 DEF OwnBatch, Run
<1>7. CASE Upload(d)
  <2>1. /\ UNCHANGED <<heap, queue, next, batch, held, audited, company>>
        /\ pc' = [pc EXCEPT ![d] = "audit"] /\ pc[d] = "upload"
        /\ sent' = [sent EXCEPT ![d] = IF held[d] = None THEN <<>> ELSE Elements(held[d].content)]
    BY <1>7 DEF Upload, Goes
  <2>2. company[d] = {} => sent'[d] = Full(d)
    BY <1>e, <1>t, <2>1
  <2>3. company[d] = {} => LoneOf(d)'
    BY <1>l, <1>t, <2>1, <2>2 DEF LoneOf
  <2>. QED
    BY <1>g, <1>t, <2>1, <2>3
<1>8. CASE Audit(d)
  <2>1. /\ UNCHANGED <<heap, queue, next, batch, held, sent, company>>
        /\ pc' = [pc EXCEPT ![d] = "clear"] /\ pc[d] = "audit"
        /\ audited' = [audited EXCEPT ![d] =
             IF held[d] = None THEN <<>> ELSE
             [i \in 1 .. held[d].content.len |->
                <<Elements(held[d].content)[i], Elements(held[d].meta)[i]>>]]
    BY <1>8 DEF Audit, Goes
  <2>2. company[d] = {} =>
          audited'[d] = [i \in 1 .. FileCount[d] |-> <<Full(d)[i], Full(d)[i]>>]
    BY <1>e, <1>t, <2>1
  <2>3. company[d] = {} => LoneOf(d)'
    BY <1>l, <1>t, <2>1, <2>2 DEF LoneOf
  <2>. QED
    BY <1>g, <1>t, <2>1, <2>3
<1>9. CASE ClearUploads(d)
  <2>1. /\ UNCHANGED <<heap, next, batch, held, sent, audited, company>>
        /\ pc' = [pc EXCEPT ![d] = "done"] /\ pc[d] = "clear" /\ queue' = None
    BY <1>9 DEF ClearUploads, Goes
  <2>2. ~ InFlight(d)'
    BY <1>t, <2>1
  <2>. QED
    BY <1>g, <1>t, <2>1, <2>2
<1>. QED
  BY <1>1, <1>2, <1>3, <1>4, <1>5, <1>6, <1>7, <1>8, <1>9

(* A delivery that overlaps no other commits exactly its own files, in     *)
(* their order, with the settings of its workflow, and the audit says so,  *)
(* however many files it has and whatever arrays others have left behind.  *)
THEOREM LoneBatchesAreSound == Spec => []LoneBatchIsSound
<1>1. Init => SliceInv /\ LoneInv
  BY SliceInit, LoneInit
<1>2. SliceInv /\ LoneInv /\ [Next]_vars => (SliceInv /\ LoneInv)'
  BY SliceStep, LoneStep
<1>3. SliceInv /\ LoneInv => LoneBatchIsSound
  <2>. SUFFICES ASSUME SliceInv, LoneInv, NEW d \in Delivery, company[d] = {}, pc[d] = "clear"
                PROVE  /\ sent[d] = Full(d)
                       /\ audited[d] = [i \in DOMAIN Full(d) |-> <<Full(d)[i], Full(d)[i]>>]
                       /\ held[d].autoMerge = AutoMerge[d]
    BY DEF LoneBatchIsSound, Full
  <2>1. LoneOf(d)
    BY DEF LoneInv, InFlight
  <2>2. DOMAIN Full(d) = 1 .. FileCount[d]
    BY DEF Full
  <2>. QED
    BY <2>1, <2>2 DEF LoneOf, OwnBatch
<1>. QED
  BY <1>1, <1>2, <1>3, PTL DEF Spec

-----------------------------------------------------------------------------
(* Slices as lists.                                                        *)
ElementsIn(h, s) == IF s = Nil THEN <<>> ELSE SubSeq(h[s.array], 1, s.len)

ValueIn(h, b) ==
  IF b = None THEN None ELSE [files |-> ElementsIn(h, b.content), autoMerge |-> b.autoMerge]

LEMMA ElementsInAre ==
  ASSUME NEW h \in Heap, NEW s, SliceIn(h, s)
  PROVE  /\ ElementsIn(h, s) \in Seq(File) /\ Len(ElementsIn(h, s)) = s.len /\ s.len \in Nat
         /\ \A i \in 1 .. s.len : ElementsIn(h, s)[i] = h[s.array][i]
<1>1. CASE s = Nil
  BY <1>1, NilFacts DEF ElementsIn
<1>2. CASE s # Nil
  <2>1. /\ s.array \in DOMAIN h /\ Fits(s.len, Len(h[s.array])) /\ s.len \in Nat
        /\ \A i \in 1 .. s.len : h[s.array][i] \in File
    BY <1>2 DEF SliceIn, RawSlice
  <2>. DEFINE A == h[s.array]
              E == [i \in 1 .. s.len |-> A[i]]
  <2>2. A \in Seq(File \cup {Blank}) /\ Len(A) \in Nat /\ s.len <= Len(A)
    BY <2>1 DEF Heap, Fits
  <2>3. ElementsIn(h, s) = SubSeq(A, 1, s.len)
    BY <1>2 DEF ElementsIn
  <2>4. /\ Len(SubSeq(A, 1, s.len)) = s.len
        /\ SubSeq(A, 1, s.len) \in Seq(File \cup {Blank})
        /\ \A i \in 1 .. s.len : SubSeq(A, 1, s.len)[i] = A[i]
    <3>. HIDE DEF A
    <3>. QED
      BY <2>1, <2>2
  <2>5. SubSeq(A, 1, s.len) = E
    <3>. HIDE DEF A
    <3>. QED
      BY <2>1, <2>4
  <2>6. E \in Seq(File)
    <3>1. \A i \in 1 .. s.len : A[i] \in File
      BY <2>1
    <3>. HIDE DEF A
    <3>. QED
      BY <2>1, <3>1
  <2>. QED
    BY <2>1, <2>3, <2>4, <2>5, <2>6
<1>. QED
  BY <1>1, <1>2

LEMMA SameFiles ==
  ASSUME NEW u \in Seq(File), NEW v \in Seq(File), Len(u) = Len(v),
         \A i \in 1 .. Len(u) : u[i] = v[i]
  PROVE  u = v
  OBVIOUS

(* The first three elements of a slice stay as they are.                   *)
LEMMA FirstKept ==
  ASSUME NEW h \in Heap, NEW g, Keeps(h, g), NEW s, SliceIn(h, s)
  PROVE  \A i \in 1 .. s.len : i <= 3 => g[s.array][i] = h[s.array][i]
<1>. SUFFICES ASSUME NEW i \in 1 .. s.len, i <= 3 PROVE g[s.array][i] = h[s.array][i]
  OBVIOUS
<1>1. s # Nil
  BY NilFacts
<1>2. s.array \in DOMAIN h /\ Fits(s.len, Len(h[s.array]))
  BY <1>1 DEF SliceIn
<1>3. h[s.array] \in Seq(File \cup {Blank})
  BY <1>2 DEF Heap
<1>4. i \in DOMAIN h[s.array] /\ ~ (i >= 4)
  BY <1>2, <1>3 DEF Fits
<1>. QED
  BY <1>2, <1>4 DEF Keeps

(* So does the value of a batch of up to three files.                      *)
LEMMA ValueKept ==
  ASSUME NEW h \in Heap, NEW g \in Heap, Keeps(h, g), NEW b, NEW ahead,
         b = None \/ BatchIn(h, b, ahead), UpToThree(b)
  PROVE  ValueIn(g, b) = ValueIn(h, b)
<1>1. CASE b = None
  BY <1>1 DEF ValueIn
<1>2. CASE b # None
  <2>. DEFINE s == b.content
  <2>1. SliceIn(h, s) /\ s.len <= 3
    BY <1>2 DEF BatchIn, UpToThree
  <2>2. SliceIn(g, s)
    BY <2>1, SliceKept
  <2>. HIDE DEF s
  <2>3. /\ ElementsIn(h, s) \in Seq(File) /\ Len(ElementsIn(h, s)) = s.len /\ s.len \in Nat
        /\ \A i \in 1 .. s.len : ElementsIn(h, s)[i] = h[s.array][i]
    BY <2>1, ElementsInAre
  <2>4. /\ ElementsIn(g, s) \in Seq(File) /\ Len(ElementsIn(g, s)) = s.len
        /\ \A i \in 1 .. s.len : ElementsIn(g, s)[i] = g[s.array][i]
    BY <2>2, ElementsInAre
  <2>5. \A i \in 1 .. s.len : g[s.array][i] = h[s.array][i]
    <3>1. \A i \in 1 .. s.len : i <= 3
      BY <2>1, <2>3
    <3>. QED
      BY <2>1, <3>1, FirstKept
  <2>6. ElementsIn(g, s) = ElementsIn(h, s)
    BY <2>3, <2>4, <2>5, SameFiles
  <2>. QED
    BY <1>2, <2>6 DEF ValueIn, s
<1>. QED
  BY <1>1, <1>2

(* What FileMeta says of the first three files is what Content says.       *)
Paired(h, b) ==
  \A i \in 1 .. b.meta.len : i <= 3 => h[b.content.array][i] = h[b.meta.array][i]

PairOf(d) ==
  /\ held[d] # None => Paired(heap, held[d])
  /\ batch[d] # None => Paired(heap, batch[d])
  /\ pc[d] = "meta" /\ batch[d].content.len <= 3 =>
       heap[batch[d].content.array][batch[d].content.len] = <<d, next[d]>>

PairInv ==
  /\ queue # None => Paired(heap, queue)
  /\ \A d \in Delivery : PairOf(d)

LEMMA PairedKept ==
  ASSUME NEW h \in Heap, NEW g, Keeps(h, g), NEW b, NEW ahead \in {0, 1},
         BatchIn(h, b, ahead), Paired(h, b)
  PROVE  Paired(g, b)
<1>1. /\ SliceIn(h, b.content) /\ SliceIn(h, b.meta)
      /\ b.content.len = b.meta.len + ahead /\ b.meta.len \in Nat
  BY DEF BatchIn, SliceIn, RawSlice
<1>2. \A i \in 1 .. b.meta.len : i \in 1 .. b.content.len
  BY <1>1
<1>3. \A i \in 1 .. b.content.len : i <= 3 => g[b.content.array][i] = h[b.content.array][i]
  BY <1>1, FirstKept
<1>4. \A i \in 1 .. b.meta.len : i <= 3 => g[b.meta.array][i] = h[b.meta.array][i]
  BY <1>1, FirstKept
<1>. QED
  BY <1>2, <1>3, <1>4 DEF Paired

LEMMA PairInit == Init => PairInv
  BY DEF Init, PairInv, PairOf

(* What d appends to is a batch with room for the file at hand.            *)
LEMMA PairStep == SliceInv /\ PairInv /\ [Next]_vars => PairInv'
<1>. SUFFICES ASSUME SliceInv, PairInv, [Next]_vars PROVE PairInv'
  OBVIOUS
<1>u. CASE UNCHANGED vars
  BY <1>u DEF vars, PairInv, PairOf
<1>. SUFFICES ASSUME NEW d \in Delivery,
       \/ Start(d) \/ QueueRead(d) \/ AppendContent(d) \/ AppendMeta(d) \/ QueueWrite(d)
       \/ TakeUploads(d) \/ Upload(d) \/ Audit(d) \/ ClearUploads(d)
     PROVE  PairInv'
  BY <1>u DEF Next
<1>t. /\ heap \in Heap /\ LocalType /\ LocalInv(d) /\ PairOf(d)
      /\ queue # None => BatchIn(heap, queue, 0) /\ Paired(heap, queue)
      /\ Keeps(heap, heap')
  BY SliceStep DEF SliceInv, PairInv
<1>k. \A b : \A ahead \in {0, 1} : BatchIn(heap, b, ahead) /\ Paired(heap, b) => Paired(heap', b)
  BY <1>t, PairedKept
<1>q. queue # None => Paired(heap', queue)
  BY <1>t, <1>k
<1>h. held[d] # None => Paired(heap', held[d])
  BY <1>t, <1>k DEF LocalInv, PairOf
<1>b. batch[d] # None => Paired(heap', batch[d])
  BY <1>t, <1>k DEF LocalInv, PairOf, Appending
<1>o. ASSUME PairOf(d)',
             \A e \in Delivery \ {d} : /\ pc'[e] = pc[e] /\ batch'[e] = batch[e]
                                       /\ held'[e] = held[e] /\ next'[e] = next[e]
      PROVE  \A e \in Delivery : PairOf(e)'
  <2>1. ASSUME NEW e \in Delivery \ {d} PROVE PairOf(e)'
    <3>1. LocalInv(e) /\ PairOf(e)
      BY DEF SliceInv, PairInv
    <3>2. held[e] # None => Paired(heap', held[e])
      BY <1>k, <3>1 DEF LocalInv, PairOf
    <3>3. batch[e] # None => Paired(heap', batch[e])
      BY <1>k, <3>1 DEF LocalInv, PairOf, Appending
    <3>4. ASSUME pc[e] = "meta", batch[e].content.len <= 3
          PROVE  heap'[batch[e].content.array][batch[e].content.len] = <<e, next[e]>>
      <4>. DEFINE s == batch[e].content
      <4>1. SliceIn(heap, s) /\ s.len \in 1 .. s.len
        <5>1. BatchIn(heap, batch[e], 1)
          BY <3>1, <3>4 DEF LocalInv
        <5>. QED
          BY <5>1 DEF BatchIn, SliceIn, RawSlice
      <4>2. heap[s.array][s.len] = <<e, next[e]>>
        BY <3>1, <3>4 DEF PairOf
      <4>3. \A i \in 1 .. s.len : i <= 3 => heap'[s.array][i] = heap[s.array][i]
        <5>. HIDE DEF s
        <5>. QED
          BY <1>t, <4>1, FirstKept
      <4>. QED
        BY <3>4, <4>1, <4>2, <4>3
    <3>. QED
      BY <1>o, <3>1, <3>2, <3>3, <3>4 DEF PairOf
  <2>. QED
    BY <1>o, <2>1
<1>. USE DEF LocalType
<1>1. CASE Start(d)
  <2>1. /\ UNCHANGED <<heap, queue, next, batch, held>>
        /\ pc' = [pc EXCEPT ![d] = "queue"]
    BY <1>1 DEF Start, Goes
  <2>2. PairOf(d)'
    BY <1>t, <2>1 DEF PairOf
  <2>. QED
    BY <1>o, <1>q, <1>t, <2>1, <2>2 DEF PairInv
<1>2. CASE QueueRead(d)
  <2>1. /\ UNCHANGED <<heap, queue, next, held>>
        /\ pc' = [pc EXCEPT ![d] = "content"]
        /\ batch' = [batch EXCEPT ![d] = Opened(d)]
    BY <1>2 DEF QueueRead, Goes
  <2>2. Paired(heap, Opened(d))
    <3>1. CASE queue = None
      BY <3>1, NilFacts DEF Opened, Paired
    <3>2. CASE queue # None
      <4>1. queue \in BatchType /\ Paired(heap, queue) /\ AutoMerge[d] \in BOOLEAN
        BY <1>t, <3>2, Constants DEF BatchIn
      <4>. QED
        BY <3>2, <4>1 DEF Opened, Paired, BatchType
    <3>. QED
      BY <3>1, <3>2
  <2>3. PairOf(d)'
    BY <1>t, <2>1, <2>2 DEF PairOf
  <2>. QED
    BY <1>o, <1>q, <1>t, <2>1, <2>3 DEF PairInv
<1>3. CASE AppendContent(d)
  <2>. DEFINE s == batch[d].content
  <2>1. /\ UNCHANGED <<queue, next, held>>
        /\ pc' = [pc EXCEPT ![d] = "meta"] /\ pc[d] = "content"
        /\ AppendTo(s, <<d, next[d]>>)
        /\ batch' = [batch EXCEPT ![d].content = Longer(@)]
    BY <1>3 DEF AppendContent, Goes
  <2>2. /\ BatchIn(heap, batch[d], 0) /\ batch[d] \in BatchType /\ SliceIn(heap, s)
        /\ batch[d] # None /\ <<d, next[d]>> \in File
    BY <1>t, <2>1, Constants, FileAtHand DEF LocalInv, BatchIn, Appending
  <2>3. /\ batch'[d].content = Longer(s) /\ batch'[d].meta = batch[d].meta
    BY <1>t, <2>1, <2>2 DEF BatchType
  <2>. DEFINE t == Longer(s)
  <2>4. /\ t.len = s.len + 1 /\ heap'[t.array][t.len] = <<d, next[d]>>
        /\ \A i \in 1 .. s.len : heap'[t.array][i] = heap[s.array][i]
    <3>. HIDE DEF s
    <3>. QED
      BY <1>t, <2>1, <2>2, AppendFacts
  <2>5. Paired(heap', batch'[d])
    <3>1. batch[d].meta.len = s.len /\ s.len \in Nat /\ SliceIn(heap, batch[d].meta)
      BY <2>2 DEF BatchIn, BatchType, RawSlice
    <3>2. \A i \in 1 .. s.len : i <= 3 => heap[s.array][i] = heap[batch[d].meta.array][i]
      BY <1>t, <2>2, <3>1 DEF PairOf, Paired
    <3>3. \A i \in 1 .. s.len : i <= 3 =>
            heap'[batch[d].meta.array][i] = heap[batch[d].meta.array][i]
      BY <1>t, <3>1, FirstKept
    <3>. HIDE DEF s, t
    <3>. QED
      BY <2>3, <2>4, <3>1, <3>2, <3>3 DEF Paired, t
  <2>6. PairOf(d)'
    <3>. HIDE DEF s
    <3>. QED
      BY <1>h, <1>t, <2>1, <2>3, <2>4, <2>5 DEF PairOf
  <2>. QED
    BY <1>o, <1>q, <1>t, <2>1, <2>6 DEF PairInv
<1>4. CASE AppendMeta(d)
  <2>. DEFINE s == batch[d].meta
              c == batch[d].content
  <2>1. /\ UNCHANGED <<queue, next, held>>
        /\ pc' = [pc EXCEPT ![d] = "put"] /\ pc[d] = "meta"
        /\ AppendTo(s, <<d, next[d]>>)
        /\ batch' = [batch EXCEPT ![d].meta = Longer(@)]
    BY <1>4 DEF AppendMeta, Goes
  <2>2. /\ BatchIn(heap, batch[d], 1) /\ batch[d] \in BatchType
        /\ SliceIn(heap, s) /\ SliceIn(heap, c)
        /\ batch[d] # None /\ <<d, next[d]>> \in File
    BY <1>t, <2>1, Constants, FileAtHand DEF LocalInv, BatchIn, Appending
  <2>3. /\ batch'[d].meta = Longer(s) /\ batch'[d].content = c
    BY <1>t, <2>1, <2>2 DEF BatchType
  <2>. DEFINE t == Longer(s)
  <2>4. /\ t.len = s.len + 1 /\ heap'[t.array][t.len] = <<d, next[d]>>
        /\ \A i \in 1 .. s.len : heap'[t.array][i] = heap[s.array][i]
    <3>. HIDE DEF s, c
    <3>. QED
      BY <1>t, <2>1, <2>2, AppendFacts
  <2>5. Paired(heap', batch'[d])
    <3>1. c.len = s.len + 1 /\ s.len \in Nat
      BY <2>2 DEF BatchIn, BatchType, RawSlice
    <3>2. \A i \in 1 .. s.len : i <= 3 => heap[c.array][i] = heap[s.array][i]
      BY <1>t, <2>2 DEF PairOf, Paired
    <3>3. \A i \in 1 .. c.len : i <= 3 => heap'[c.array][i] = heap[c.array][i]
      <4>. HIDE DEF c, s
      <4>. QED
        BY <1>t, <2>2, FirstKept
    <3>4. c.len <= 3 => heap[c.array][c.len] = <<d, next[d]>>
      BY <1>t, <2>1 DEF PairOf
    <3>. HIDE DEF s, t, c
    <3>5. ASSUME NEW i \in 1 .. t.len, i <= 3 PROVE heap'[c.array][i] = heap'[t.array][i]
      <4>1. CASE i \in 1 .. s.len
        <5>1. i \in 1 .. c.len
          BY <3>1, <4>1
        <5>. QED
          BY <2>4, <3>2, <3>3, <3>5, <4>1, <5>1
      <4>2. CASE i = s.len + 1
        <5>1. i = c.len /\ i = t.len /\ i \in 1 .. c.len /\ c.len <= 3
          BY <2>4, <3>1, <3>5, <4>2
        <5>. QED
          BY <2>4, <3>3, <3>4, <3>5, <5>1
      <4>. QED
        BY <2>4, <3>1, <4>1, <4>2
    <3>. QED
      BY <2>3, <3>5 DEF Paired, t
  <2>6. PairOf(d)'
    <3>. HIDE DEF s
    <3>. QED
      BY <1>h, <1>t, <2>1, <2>5 DEF PairOf
  <2>. QED
    BY <1>o, <1>q, <1>t, <2>1, <2>6 DEF PairInv
<1>5. CASE QueueWrite(d)
  <2>1. /\ UNCHANGED <<heap, held>> /\ queue' = batch[d]
        /\ pc' = [pc EXCEPT ![d] = "queue"]
        /\ batch' = [batch EXCEPT ![d] = None]
        /\ next' = [next EXCEPT ![d] = next[d] + 1]
    BY <1>5 DEF QueueWrite, Goes
  <2>2. PairOf(d)'
    BY <1>t, <2>1 DEF PairOf
  <2>. QED
    BY <1>o, <1>b, <1>t, <2>1, <2>2 DEF PairInv
<1>6. CASE TakeUploads(d)
  <2>1. /\ UNCHANGED <<heap, queue, next, batch>>
        /\ pc' = [pc EXCEPT ![d] = "upload"]
        /\ held' = [held EXCEPT ![d] = queue]
    BY <1>6 DEF TakeUploads, Goes
  <2>2. PairOf(d)'
    BY <1>t, <2>1 DEF PairOf
  <2>. QED
    BY <1>o, <1>q, <1>t, <2>1, <2>2 DEF PairInv
<1>7. CASE Upload(d) \/ Audit(d)
  <2>1. /\ UNCHANGED <<heap, queue, next, batch, held>>
        /\ \E place \in {"audit", "clear"} : pc' = [pc EXCEPT ![d] = place]
    BY <1>7 DEF Upload, Audit, Goes
  <2>2. PairOf(d)'
    BY <1>t, <2>1 DEF PairOf
  <2>. QED
    BY <1>o, <1>q, <1>t, <2>1, <2>2 DEF PairInv
<1>8. CASE ClearUploads(d)
  <2>1. /\ UNCHANGED <<heap, next, batch, held>>
        /\ pc' = [pc EXCEPT ![d] = "done"] /\ queue' = None
    BY <1>8 DEF ClearUploads, Goes
  <2>2. PairOf(d)'
    BY <1>t, <2>1 DEF PairOf
  <2>. QED
    BY <1>o, <1>t, <2>1, <2>2 DEF PairInv
<1>. QED
  BY <1>1, <1>2, <1>3, <1>4, <1>5, <1>6, <1>7, <1>8

(* No record of a list is None.                                            *)
LEMMA ValueIsNone ==
  ASSUME NEW h \in Heap, NEW b, NEW ahead, b = None \/ BatchIn(h, b, ahead)
  PROVE  ValueIn(h, b) = None <=> b = None
<1>1. CASE b = None
  BY <1>1 DEF ValueIn
<1>2. CASE b # None
  <2>1. SliceIn(h, b.content) /\ b.autoMerge \in BOOLEAN
    BY <1>2 DEF BatchIn, BatchType
  <2>2. ElementsIn(h, b.content) \in Seq(File)
    BY <2>1, ElementsInAre
  <2>3. File \subseteq Delivery \X Nat
    BY SharedBatchAssumption DEF File
  <2>4. ElementsIn(h, b.content) \in Seq(Delivery \X Nat)
    BY <2>2, <2>3
  <2>5. [files |-> ElementsIn(h, b.content), autoMerge |-> b.autoMerge]
          \in [files : Seq(Delivery \X Nat), autoMerge : BOOLEAN]
    BY <2>1, <2>4
  <2>6. ValueIn(h, b) = [files |-> ElementsIn(h, b.content), autoMerge |-> b.autoMerge]
    BY <1>2 DEF ValueIn
  <2>7. None \notin [files : Seq(Delivery \X Nat), autoMerge : BOOLEAN]
    BY SharedBatchAssumption
  <2>. QED
    BY <1>2, <2>5, <2>6, <2>7
<1>. QED
  BY <1>1, <1>2

LEMMA ListsAre ==
  /\ QueueList = ValueIn(heap, queue)
  /\ BatchLists = [e \in Delivery |-> ValueIn(heap, batch[e])]
  /\ HeldLists = [e \in Delivery |-> ValueIn(heap, held[e])]
  BY DEF QueueList, BatchLists, HeldLists, Value, ValueIn, Elements, ElementsIn

(* The place of d in the list of places.                                   *)
PlaceFor(place) ==
  CASE place = "content" -> "add" [] place = "meta" -> "put" [] OTHER -> place

LEMMA PlaceForFacts ==
  /\ PlaceFor("content") = "add" /\ PlaceFor("meta") = "put" /\ PlaceFor("put") = "put"
  /\ PlaceFor("idle") = "idle" /\ PlaceFor("queue") = "queue" /\ PlaceFor("upload") = "upload"
  /\ PlaceFor("audit") = "audit" /\ PlaceFor("clear") = "clear" /\ PlaceFor("done") = "done"
  BY DEF PlaceFor

LEMMA PlacesAre == Places = [e \in Delivery |-> PlaceFor(pc[e])]
  BY DEF Places, PlaceFor

LEMMA PlacesStep ==
  ASSUME NEW d \in Delivery, NEW from, NEW to, pc \in [Delivery -> Place],
         pc[d] = from, pc' = [pc EXCEPT ![d] = to]
  PROVE  Places' = [Places EXCEPT ![d] = PlaceFor(to)] /\ Places[d] = PlaceFor(from)
<1>1. Places' = [e \in Delivery |-> PlaceFor(pc'[e])]
  BY DEF Places, PlaceFor
<1>2. \A e \in Delivery : pc'[e] = IF e = d THEN to ELSE pc[e]
  OBVIOUS
<1>. QED
  BY <1>1, <1>2, PlacesAre

(* A file is appended to the list when it is appended to content, ...      *)
LEMMA ListLonger ==
  ASSUME heap \in Heap, heap' \in Heap, NEW d \in Delivery,
         BatchIn(heap, batch[d], 0), batch[d] # None, batch[d].content.len + 1 <= 3,
         next[d] \in 1 .. FileCount[d],
         AppendTo(batch[d].content, <<d, next[d]>>),
         batch'[d] # None, batch'[d].content = Longer(batch[d].content),
         batch'[d].autoMerge = batch[d].autoMerge
  PROVE  ValueIn(heap', batch'[d])
           = [files |-> Append(ValueIn(heap, batch[d]).files, <<d, next[d]>>),
              autoMerge |-> ValueIn(heap, batch[d]).autoMerge]
<1>. DEFINE s == batch[d].content
            t == Longer(s)
            file == <<d, next[d]>>
<1>1. SliceIn(heap, s) /\ file \in File
  BY FileAtHand DEF BatchIn
<1>. HIDE DEF file
<1>2. /\ SliceIn(heap', t) /\ t.len = s.len + 1 /\ heap'[t.array][t.len] = file
      /\ \A i \in 1 .. s.len : heap'[t.array][i] = heap[s.array][i]
  <2>1. AppendTo(s, file)
    BY DEF file
  <2>. HIDE DEF s
  <2>. QED
    BY <1>1, <2>1, AppendFacts
<1>. HIDE DEF s, t
<1>3. /\ ElementsIn(heap, s) \in Seq(File) /\ Len(ElementsIn(heap, s)) = s.len /\ s.len \in Nat
      /\ \A i \in 1 .. s.len : ElementsIn(heap, s)[i] = heap[s.array][i]
  BY <1>1, ElementsInAre
<1>4. /\ ElementsIn(heap', t) \in Seq(File) /\ Len(ElementsIn(heap', t)) = t.len
      /\ \A i \in 1 .. t.len : ElementsIn(heap', t)[i] = heap'[t.array][i]
  BY <1>2, ElementsInAre
<1>5. ElementsIn(heap', t) = Append(ElementsIn(heap, s), file)
  <2>. DEFINE u == ElementsIn(heap, s)
              v == ElementsIn(heap', t)
  <2>1. /\ Append(u, file) \in Seq(File) /\ Len(Append(u, file)) = s.len + 1
        /\ Append(u, file)[s.len + 1] = file
        /\ \A i \in 1 .. s.len : Append(u, file)[i] = u[i]
    <3>. HIDE DEF u
    <3>. QED
      BY <1>1, <1>3 DEF u
  <2>2. ASSUME NEW i \in 1 .. Len(v) PROVE v[i] = Append(u, file)[i]
    <3>1. i \in 1 .. s.len \/ i = s.len + 1
      BY <1>2, <1>3, <1>4
    <3>. QED
      BY <1>2, <1>3, <1>4, <2>1, <3>1
  <2>3. v \in Seq(File) /\ Len(v) = Len(Append(u, file))
    BY <1>2, <1>4, <2>1
  <2>. HIDE DEF u, v
  <2>4. v = Append(u, file)
    BY <2>1, <2>2, <2>3, SameFiles
  <2>. QED
    BY <2>4 DEF u, v
<1>6. /\ ValueIn(heap, batch[d]) = [files |-> ElementsIn(heap, s), autoMerge |-> batch[d].autoMerge]
      /\ ValueIn(heap', batch'[d]) = [files |-> ElementsIn(heap', t), autoMerge |-> batch[d].autoMerge]
  BY DEF ValueIn, s, t
<1>. QED
  BY <1>5, <1>6 DEF file

(* ... and what FileMeta says of the files is what Content says.           *)
LEMMA PairedElements ==
  ASSUME NEW h \in Heap, NEW b, BatchIn(h, b, 0), Paired(h, b), b.content.len <= 3
  PROVE  /\ b.content.len \in Nat
         /\ DOMAIN ElementsIn(h, b.content) = 1 .. b.content.len
         /\ \A i \in 1 .. b.content.len :
              ElementsIn(h, b.meta)[i] = ElementsIn(h, b.content)[i]
<1>1. /\ SliceIn(h, b.content) /\ SliceIn(h, b.meta)
      /\ b.content.len = b.meta.len /\ b.meta.len \in Nat
  BY DEF BatchIn, SliceIn, RawSlice
<1>2. \A i \in 1 .. b.meta.len : i <= 3
  BY <1>1
<1>3. /\ ElementsIn(h, b.content) \in Seq(File) /\ Len(ElementsIn(h, b.content)) = b.content.len
      /\ \A i \in 1 .. b.content.len : ElementsIn(h, b.content)[i] = h[b.content.array][i]
  BY <1>1, ElementsInAre
<1>4. \A i \in 1 .. b.meta.len : ElementsIn(h, b.meta)[i] = h[b.meta.array][i]
  BY <1>1, ElementsInAre
<1>5. DOMAIN ElementsIn(h, b.content) = 1 .. b.content.len
  BY <1>3
<1>. QED
  BY <1>1, <1>2, <1>3, <1>4, <1>5 DEF Paired

LEMMA ListStep ==
  SliceInv /\ PairInv /\ Small' /\ [Next]_vars => [Lists!Next]_(Lists!vars)
<1>. SUFFICES ASSUME SliceInv, PairInv, Small', [Next]_vars
              PROVE  [Lists!Next]_(Lists!vars)
  OBVIOUS
<1>u. CASE UNCHANGED vars
  BY <1>u DEF vars, Lists!vars, QueueList, BatchLists, HeldLists, Places, Value, Elements
<1>. SUFFICES ASSUME NEW d \in Delivery,
       \/ Start(d) \/ QueueRead(d) \/ AppendContent(d) \/ AppendMeta(d) \/ QueueWrite(d)
       \/ TakeUploads(d) \/ Upload(d) \/ Audit(d) \/ ClearUploads(d)
     PROVE  [Lists!Next]_(Lists!vars)
  BY <1>u DEF Next
<1>t. /\ heap \in Heap /\ heap' \in Heap /\ Keeps(heap, heap') /\ LocalType /\ LocalInv(d)
      /\ pc \in [Delivery -> Place]
      /\ queue = None \/ BatchIn(heap, queue, 0)
  BY SliceStep DEF SliceInv, LocalType
<1>s. /\ UpToThree(queue') /\ \A e \in Delivery : UpToThree(batch'[e]) /\ UpToThree(held'[e])
  BY DEF Small, UpToThree
<1>l. /\ QueueList = ValueIn(heap, queue)
      /\ BatchLists = [e \in Delivery |-> ValueIn(heap, batch[e])]
      /\ HeldLists = [e \in Delivery |-> ValueIn(heap, held[e])]
      /\ QueueList' = ValueIn(heap', queue')
      /\ BatchLists' = [e \in Delivery |-> ValueIn(heap', batch'[e])]
      /\ HeldLists' = [e \in Delivery |-> ValueIn(heap', held'[e])]
  BY ListsAre DEF QueueList, BatchLists, HeldLists, Value, ValueIn, Elements, ElementsIn
<1>v. \A b : \A ahead : (b = None \/ BatchIn(heap, b, ahead)) /\ UpToThree(b) =>
        ValueIn(heap', b) = ValueIn(heap, b)
  BY <1>t, ValueKept
<1>q. ASSUME queue' = queue PROVE QueueList' = QueueList
  BY <1>l, <1>q, <1>s, <1>t, <1>v
<1>e. ASSUME NEW e \in Delivery
      PROVE  /\ batch[e] = None \/ (\E ahead : BatchIn(heap, batch[e], ahead))
             /\ held[e] = None \/ BatchIn(heap, held[e], 0)
  BY DEF SliceInv, LocalInv, Appending
<1>b. ASSUME NEW e \in Delivery, batch'[e] = batch[e]
      PROVE  ValueIn(heap', batch'[e]) = ValueIn(heap, batch[e])
  BY <1>b, <1>e, <1>s, <1>v
<1>h. ASSUME NEW e \in Delivery, held'[e] = held[e]
      PROVE  ValueIn(heap', held'[e]) = ValueIn(heap, held[e])
  BY <1>e, <1>h, <1>s, <1>v
<1>B. ASSUME batch' = batch PROVE BatchLists' = BatchLists
  BY <1>B, <1>b, <1>l
<1>H. ASSUME held' = held PROVE HeldLists' = HeldLists
  BY <1>H, <1>h, <1>l
<1>n. ASSUME Places' = [Places EXCEPT ![d] = Places[d]] PROVE Places' = Places
  BY <1>n DEF Places
<1>. USE DEF LocalType
<1>1. CASE Start(d)
  <2>1. /\ UNCHANGED <<heap, queue, next, batch, held, sent, audited>>
        /\ pc' = [pc EXCEPT ![d] = "queue"] /\ pc[d] = "idle"
    BY <1>1 DEF Start, Goes
  <2>2. Places' = [Places EXCEPT ![d] = "queue"] /\ Places[d] = "idle"
    <3>1. /\ Places' = [Places EXCEPT ![d] = PlaceFor("queue")]
          /\ Places[d] = PlaceFor("idle")
      BY <1>t, <2>1, PlacesStep
    <3>. QED
      BY <3>1, PlaceForFacts
  <2>3. Lists!Start(d)
    BY <1>q, <1>B, <1>H, <2>1, <2>2 DEF Lists!Start, Lists!Goes
  <2>. QED
    BY <2>3 DEF Lists!Next
<1>2. CASE QueueRead(d)
  <2>1. /\ UNCHANGED <<heap, queue, next, held, sent, audited>>
        /\ pc' = [pc EXCEPT ![d] = "content"] /\ pc[d] = "queue"
        /\ batch' = [batch EXCEPT ![d] = Opened(d)] /\ next[d] <= FileCount[d]
    BY <1>2 DEF QueueRead, Goes, More
  <2>2. Places' = [Places EXCEPT ![d] = "add"] /\ Places[d] = "queue"
    <3>1. /\ Places' = [Places EXCEPT ![d] = PlaceFor("content")]
          /\ Places[d] = PlaceFor("queue")
      BY <1>t, <2>1, PlacesStep
    <3>. QED
      BY <3>1, PlaceForFacts
  <2>3. ValueIn(heap', batch'[d]) =
          IF QueueList = None THEN [files |-> <<>>, autoMerge |-> AutoMerge[d]]
          ELSE [files |-> QueueList.files, autoMerge |-> QueueList.autoMerge /\ AutoMerge[d]]
    <3>1. batch'[d] = Opened(d) /\ heap' = heap
      BY <1>t, <2>1
    <3>2. QueueList = None <=> queue = None
      BY <1>l, <1>t, ValueIsNone
    <3>3. CASE queue = None
      <4>1. Opened(d) = [content |-> Nil, meta |-> Nil, autoMerge |-> AutoMerge[d]]
        BY <3>3 DEF Opened
      <4>2. Opened(d) # None
        BY <4>1, Constants, NilFacts DEF BatchType
      <4>3. ValueIn(heap, Opened(d)) = [files |-> <<>>, autoMerge |-> AutoMerge[d]]
        BY <4>1, <4>2 DEF ValueIn, ElementsIn
      <4>. QED
        BY <3>1, <3>2, <3>3, <4>3
    <3>4. CASE queue # None
      <4>1. queue \in BatchType
        BY <1>t, <3>4 DEF BatchIn
      <4>2. /\ Opened(d) = [queue EXCEPT !.autoMerge = queue.autoMerge /\ AutoMerge[d]]
        BY <3>4, Zenon DEF Opened
      <4>3. /\ Opened(d).content = queue.content
            /\ Opened(d).autoMerge = (queue.autoMerge /\ AutoMerge[d])
            /\ Opened(d) \in BatchType
        BY <4>1, <4>2, Constants DEF BatchType
      <4>4. Opened(d) # None
        BY <4>3, Constants
      <4>5. ValueIn(heap, Opened(d)) =
              [files |-> ElementsIn(heap, queue.content),
               autoMerge |-> queue.autoMerge /\ AutoMerge[d]]
        BY <4>3, <4>4, Zenon DEF ValueIn
      <4>6. QueueList.files = ElementsIn(heap, queue.content)
        BY <1>l, <3>4 DEF ValueIn
      <4>7. QueueList.autoMerge = queue.autoMerge
        BY <1>l, <3>4, Zenon DEF ValueIn
      <4>. QED
        BY <3>1, <3>2, <3>4, <4>5, <4>6, <4>7, Zenon
    <3>. QED
      BY <3>3, <3>4
  <2>4. BatchLists' = [BatchLists EXCEPT ![d] = ValueIn(heap', batch'[d])]
    BY <1>b, <1>l, <1>t, <2>1
  <2>5. Lists!Take(d)
    BY <1>q, <1>H, <2>1, <2>2, <2>3, <2>4, Zenon DEF Lists!Take, Lists!Goes
  <2>. QED
    BY <2>5 DEF Lists!Next
<1>3. CASE AppendContent(d)
  <2>1. /\ UNCHANGED <<queue, next, held, sent, audited>>
        /\ pc' = [pc EXCEPT ![d] = "meta"] /\ pc[d] = "content"
        /\ AppendTo(batch[d].content, <<d, next[d]>>)
        /\ batch' = [batch EXCEPT ![d].content = Longer(@)]
    BY <1>3 DEF AppendContent, Goes
  <2>2. Places' = [Places EXCEPT ![d] = "put"] /\ Places[d] = "add"
    <3>1. /\ Places' = [Places EXCEPT ![d] = PlaceFor("meta")]
          /\ Places[d] = PlaceFor("content")
      BY <1>t, <2>1, PlacesStep
    <3>. QED
      BY <3>1, PlaceForFacts
  <2>3. /\ BatchIn(heap, batch[d], 0) /\ batch[d] \in BatchType /\ batch[d] # None
        /\ next[d] \in 1 .. FileCount[d]
    BY <1>t, <2>1, Constants DEF LocalInv, BatchIn, Appending
  <2>4. /\ batch'[d].content = Longer(batch[d].content)
        /\ batch'[d].autoMerge = batch[d].autoMerge
    BY <1>t, <2>1, <2>3 DEF BatchType
  <2>5. batch'[d] # None
    <3>1. BatchIn(heap', batch'[d], 1)
      <4>1. LocalInv(d)' /\ pc'[d] = "meta"
        BY <1>t, <2>1, SliceStep DEF SliceInv
      <4>. QED
        BY <4>1 DEF LocalInv
    <3>. QED
      BY <3>1, Constants DEF BatchIn
  <2>6. batch[d].content.len + 1 <= 3
    <3>1. Longer(batch[d].content).len = batch[d].content.len + 1
      BY DEF Longer
    <3>. QED
      BY <1>s, <2>4, <2>5, <3>1 DEF UpToThree
  <2>7. ValueIn(heap', batch'[d])
          = [files |-> Append(BatchLists[d].files, <<d, next[d]>>),
             autoMerge |-> BatchLists[d].autoMerge]
    BY <1>l, <1>t, <2>1, <2>3, <2>4, <2>5, <2>6, ListLonger
  <2>8. BatchLists' = [BatchLists EXCEPT ![d] = ValueIn(heap', batch'[d])]
    BY <1>b, <1>l, <1>t, <2>1
  <2>9. Lists!Add(d)
    BY <1>q, <1>H, <2>1, <2>2, <2>7, <2>8 DEF Lists!Add, Lists!Goes
  <2>. QED
    BY <2>9 DEF Lists!Next
<1>4. CASE AppendMeta(d)
  <2>1. /\ UNCHANGED <<queue, next, held, sent, audited>>
        /\ pc' = [pc EXCEPT ![d] = "put"] /\ pc[d] = "meta"
        /\ batch' = [batch EXCEPT ![d].meta = Longer(@)]
    BY <1>4 DEF AppendMeta, Goes
  <2>2. Places' = Places
    <3>1. /\ Places' = [Places EXCEPT ![d] = PlaceFor("put")]
          /\ Places[d] = PlaceFor("meta")
      BY <1>t, <2>1, PlacesStep
    <3>. QED
      BY <3>1, PlaceForFacts, <1>n
  <2>3. BatchIn(heap, batch[d], 1) /\ batch[d] # None /\ batch[d] \in BatchType
    BY <1>t, <2>1, Constants DEF LocalInv, BatchIn
  <2>4. /\ batch'[d].autoMerge = batch[d].autoMerge
        /\ batch'[d].content = batch[d].content
    BY <1>t, <2>1, <2>3 DEF BatchType
  <2>5. batch'[d] # None
    <3>1. BatchIn(heap', batch'[d], 0)
      <4>1. LocalInv(d)' /\ pc'[d] = "put"
        BY <1>t, <2>1, SliceStep DEF SliceInv
      <4>. QED
        BY <4>1 DEF LocalInv
    <3>. QED
      BY <3>1, Constants DEF BatchIn
  <2>6. ValueIn(heap', batch[d]) = ValueIn(heap, batch[d])
    <3>1. UpToThree(batch[d])
      BY <1>s, <2>4, <2>5 DEF UpToThree
    <3>. QED
      BY <1>v, <2>3, <3>1
  <2>7. ValueIn(heap', batch'[d]) = ValueIn(heap', batch[d])
    BY <2>3, <2>4, <2>5 DEF ValueIn
  <2>8. BatchLists' = BatchLists
    BY <1>b, <1>l, <1>t, <2>1, <2>6, <2>7
  <2>. QED
    BY <1>q, <1>H, <2>1, <2>2, <2>8 DEF Lists!vars
<1>5. CASE QueueWrite(d)
  <2>1. /\ UNCHANGED <<heap, held, sent, audited>> /\ queue' = batch[d]
        /\ pc' = [pc EXCEPT ![d] = "queue"] /\ pc[d] = "put"
        /\ batch' = [batch EXCEPT ![d] = None]
        /\ next' = [next EXCEPT ![d] = next[d] + 1]
    BY <1>5 DEF QueueWrite, Goes
  <2>2. Places' = [Places EXCEPT ![d] = "queue"] /\ Places[d] = "put"
    <3>1. /\ Places' = [Places EXCEPT ![d] = PlaceFor("queue")]
          /\ Places[d] = PlaceFor("put")
      BY <1>t, <2>1, PlacesStep
    <3>. QED
      BY <3>1, PlaceForFacts
  <2>3. QueueList' = BatchLists[d]
    BY <1>l, <2>1
  <2>4. BatchLists' = [BatchLists EXCEPT ![d] = None]
    <3>1. ValueIn(heap', None) = None
      BY DEF ValueIn
    <3>. QED
      BY <1>b, <1>l, <1>t, <2>1, <3>1
  <2>5. Lists!Put(d)
    BY <1>H, <2>1, <2>2, <2>3, <2>4 DEF Lists!Put, Lists!Goes
  <2>. QED
    BY <2>5 DEF Lists!Next
<1>6. CASE TakeUploads(d)
  <2>1. /\ UNCHANGED <<heap, queue, next, batch, sent, audited>>
        /\ pc' = [pc EXCEPT ![d] = "upload"] /\ pc[d] = "queue"
        /\ held' = [held EXCEPT ![d] = queue] /\ ~ (next[d] <= FileCount[d])
    BY <1>6 DEF TakeUploads, Goes, More
  <2>2. Places' = [Places EXCEPT ![d] = "upload"] /\ Places[d] = "queue"
    <3>1. /\ Places' = [Places EXCEPT ![d] = PlaceFor("upload")]
          /\ Places[d] = PlaceFor("queue")
      BY <1>t, <2>1, PlacesStep
    <3>. QED
      BY <3>1, PlaceForFacts
  <2>3. HeldLists' = [HeldLists EXCEPT ![d] = QueueList]
    BY <1>h, <1>l, <1>t, <2>1
  <2>4. next[d] > FileCount[d]
    BY <1>t, <2>1, Constants
  <2>5. Lists!Hold(d)
    BY <1>q, <1>B, <2>1, <2>2, <2>3, <2>4 DEF Lists!Hold, Lists!Goes
  <2>. QED
    BY <2>5 DEF Lists!Next
<1>f. /\ HeldLists[d] = ValueIn(heap, held[d])
      /\ HeldLists[d] = None <=> held[d] = None
      /\ held[d] # None => HeldLists[d].files = ElementsIn(heap, held[d].content)
  BY <1>e, <1>l, <1>t, ValueIsNone DEF ValueIn
<1>7. CASE Upload(d)
  <2>1. /\ UNCHANGED <<heap, queue, next, batch, held, audited>>
        /\ pc' = [pc EXCEPT ![d] = "audit"] /\ pc[d] = "upload"
        /\ sent' = [sent EXCEPT ![d] =
             IF held[d] = None THEN <<>> ELSE ElementsIn(heap, held[d].content)]
    BY <1>7 DEF Upload, Goes, Elements, ElementsIn
  <2>2. Places' = [Places EXCEPT ![d] = "audit"] /\ Places[d] = "upload"
    <3>1. /\ Places' = [Places EXCEPT ![d] = PlaceFor("audit")]
          /\ Places[d] = PlaceFor("upload")
      BY <1>t, <2>1, PlacesStep
    <3>. QED
      BY <3>1, PlaceForFacts
  <2>3. sent' = [sent EXCEPT ![d] = Lists!FilesOf(HeldLists[d])]
    BY <1>f, <2>1 DEF Lists!FilesOf
  <2>4. Lists!Upload(d)
    BY <1>q, <1>B, <1>H, <2>1, <2>2, <2>3 DEF Lists!Upload, Lists!Goes
  <2>. QED
    BY <2>4 DEF Lists!Next
<1>8. CASE Audit(d)
  <2>. DEFINE files == Lists!FilesOf(HeldLists[d])
  <2>1. /\ UNCHANGED <<heap, queue, next, batch, held, sent>>
        /\ pc' = [pc EXCEPT ![d] = "clear"] /\ pc[d] = "audit"
        /\ audited' = [audited EXCEPT ![d] = IF held[d] = None THEN <<>> ELSE
             [i \in 1 .. held[d].content.len |->
                <<ElementsIn(heap, held[d].content)[i], ElementsIn(heap, held[d].meta)[i]>>]]
    BY <1>8 DEF Audit, Goes, Elements, ElementsIn
  <2>2. Places' = [Places EXCEPT ![d] = "clear"] /\ Places[d] = "audit"
    <3>1. /\ Places' = [Places EXCEPT ![d] = PlaceFor("clear")]
          /\ Places[d] = PlaceFor("audit")
      BY <1>t, <2>1, PlacesStep
    <3>. QED
      BY <3>1, PlaceForFacts
  <2>3. CASE held[d] = None
    <3>1. files = <<>>
      BY <1>f, <2>3 DEF Lists!FilesOf
    <3>2. [i \in DOMAIN files |-> <<files[i], files[i]>>] = <<>>
      BY <3>1
    <3>3. audited' = [audited EXCEPT ![d] = [i \in DOMAIN files |-> <<files[i], files[i]>>]]
      BY <2>1, <2>3, <3>2
    <3>. HIDE DEF files
    <3>4. Lists!Audit(d)
      BY <1>q, <1>B, <1>H, <2>1, <2>2, <3>3 DEF Lists!Audit, Lists!Goes, files
    <3>. QED
      BY <3>4 DEF Lists!Next
  <2>4. CASE held[d] # None
    <3>1. files = ElementsIn(heap, held[d].content)
      BY <1>f, <2>4 DEF Lists!FilesOf
    <3>2. /\ BatchIn(heap, held[d], 0) /\ Paired(heap, held[d]) /\ held[d].content.len <= 3
      BY <1>e, <1>s, <2>1, <2>4 DEF PairInv, PairOf, UpToThree
    <3>3. /\ DOMAIN files = 1 .. held[d].content.len
          /\ \A i \in 1 .. held[d].content.len : ElementsIn(heap, held[d].meta)[i] = files[i]
      BY <1>t, <3>1, <3>2, PairedElements
    <3>. HIDE DEF files
    <3>4. [i \in 1 .. held[d].content.len |->
             <<ElementsIn(heap, held[d].content)[i], ElementsIn(heap, held[d].meta)[i]>>]
            = [i \in DOMAIN files |-> <<files[i], files[i]>>]
      BY <3>1, <3>3
    <3>5. audited' = [audited EXCEPT ![d] = [i \in DOMAIN files |-> <<files[i], files[i]>>]]
      BY <2>1, <2>4, <3>4
    <3>6. Lists!Audit(d)
      BY <1>q, <1>B, <1>H, <2>1, <2>2, <3>5 DEF Lists!Audit, Lists!Goes, files
    <3>. QED
      BY <3>6 DEF Lists!Next
  <2>. QED
    BY <2>3, <2>4
<1>9. CASE ClearUploads(d)
  <2>1. /\ UNCHANGED <<heap, next, batch, held, sent, audited>>
        /\ pc' = [pc EXCEPT ![d] = "done"] /\ pc[d] = "clear" /\ queue' = None
    BY <1>9 DEF ClearUploads, Goes
  <2>2. Places' = [Places EXCEPT ![d] = "done"] /\ Places[d] = "clear"
    <3>1. /\ Places' = [Places EXCEPT ![d] = PlaceFor("done")]
          /\ Places[d] = PlaceFor("clear")
      BY <1>t, <2>1, PlacesStep
    <3>. QED
      BY <3>1, PlaceForFacts
  <2>3. QueueList' = None
    BY <1>l, <2>1 DEF ValueIn
  <2>4. Lists!Clear(d)
    BY <1>B, <1>H, <2>1, <2>2, <2>3 DEF Lists!Clear, Lists!Goes
  <2>. QED
    BY <2>4 DEF Lists!Next
<1>. QED
  BY <1>1, <1>2, <1>3, <1>4, <1>5, <1>6, <1>7, <1>8, <1>9

(* As long as no batch has more than three files, every step is one of     *)
(* BatchOfFiles: the arrays that GetFilesToUpload leaves shared never      *)
(* show, and FileMeta says what Content says.                              *)
THEOREM SlicesAreLists == Spec => ListsWhileSmall
<1>1. SliceInv /\ PairInv /\ [Next]_vars => (SliceInv /\ PairInv)'
  BY SliceStep, PairStep
<1>2. SliceInv /\ PairInv /\ [Next]_vars => [Small' => [Lists!Next]_(Lists!vars)]_vars
  BY ListStep
<1>3. Init => SliceInv /\ PairInv
  BY SliceInit, PairInit
<1>4. Init /\ [][Next]_vars => [][Small' => [Lists!Next]_(Lists!vars)]_vars
  BY <1>1, <1>2, <1>3, PTL
<1>. QED
  BY <1>4 DEF Spec, ListsWhileSmall

(* If batches never have more than three files, SharedBatch implements     *)
(* BatchOfFiles: copies of the queue are values, as the other modules      *)
(* take them (file_state_service.go, queueUpload).                         *)
THEOREM SmallBatchesAreLists == Spec /\ []Small => Lists!Spec
<1>1. Init => Lists!Init
  <2>. SUFFICES ASSUME Init PROVE Lists!Init
    OBVIOUS
  <2>. QED
    BY DEF Init, Lists!Init, QueueList, BatchLists, HeldLists, Places, Value
<1>2. SliceInv /\ PairInv /\ [Next]_vars => (SliceInv /\ PairInv)'
  BY SliceStep, PairStep
<1>3. Init => SliceInv /\ PairInv
  BY SliceInit, PairInit
<1>4. SliceInv /\ PairInv /\ Small' /\ [Next]_vars => [Lists!Next]_(Lists!vars)
  BY ListStep
<1>. QED
  BY <1>1, <1>2, <1>3, <1>4, PTL DEF Spec, Lists!Spec
=============================================================================
