---------------------------- MODULE NumbersProofs ----------------------------
(***************************************************************************)
(* Why the numbers of a shard and of the metrics are right: an ActiveRing  *)
(* is a queue, deficits stay in range and tenants are served, quanta take  *)
(* effect, counters only grow, and the summary of tenants is bounded.      *)
(***************************************************************************)
EXTENDS ShardNumbersProps, MetricsProps, FiniteSetTheorems, SequenceTheorems,
        WellFoundedInduction, TLAPS

-----------------------------------------------------------------------------
(* Least and greatest numbers.  The library's induction takes an operator;  *)
(* that every set of naturals has a least element does not.                 *)

LEMMA LeastElement ==
  ASSUME NEW S \in SUBSET Nat, S # {}
  PROVE  \E x \in S : \A y \in S : x <= y
  <1> DEFINE R == OpToRel(<, Nat)
  <1>1. IsWellFoundedOn(R, Nat)
    BY NatLessThanWellFounded, Zenon
  <1>2. \A x, y \in Nat : x < y => <<x, y>> \in R
    BY DEF OpToRel
  <1> HIDE DEF R
  <1>3. PICK x \in S : \A y \in S : ~ (<<y, x>> \in R)
    BY <1>1, WFMin, Zenon
  <1>4. \A y \in S : ~ (y < x)
    BY <1>2, <1>3, Zenon
  <1>5. \A y \in S : x <= y
    BY <1>4
  <1> QED
    BY <1>5

LEMMA GreatestElement ==
  ASSUME NEW n \in Nat, NEW S \in SUBSET (0 .. n), S # {}
  PROVE  \E x \in S : \A y \in S : y <= x
  <1> DEFINE D == {n - y : y \in S}
  <1>1. D \in SUBSET Nat /\ D # {}
    <2>1. PICK z : z \in S
      OBVIOUS
    <2>2. n - z \in D
      BY <2>1
    <2>3. \A y \in S : n - y \in Nat
      OBVIOUS
    <2> QED
      BY <2>2, <2>3
  <1>2. PICK d \in D : \A e \in D : d <= e
    BY <1>1, LeastElement, Zenon
  <1>3. PICK x \in S : d = n - x
    BY <1>2
  <1>4. \A y \in S : n - x <= n - y
    BY <1>2, <1>3
  <1> QED
    BY <1>4

-----------------------------------------------------------------------------
(* Machine integers. *)

LEMMA Widths ==
  /\ MaxI64 \in Nat /\ Word \in Nat \ {0} /\ Word = MaxI64 + MaxI64 + 2
  /\ U64 \subseteq Nat /\ \A u \in U64 : u <= MaxI64 + MaxI64 + 1
  BY ShardNumbersAssumption DEF Word, U64

LEMMA SumWraps ==
  ASSUME NEW a \in -MaxI64 - 1 .. MaxI64, NEW b \in -MaxI64 - 1 .. MaxI64
  PROVE  /\ AddI64(a, b) \in -MaxI64 - 1 .. MaxI64
         /\ a + b \in -MaxI64 - 1 .. MaxI64 => AddI64(a, b) = a + b
  <1>1. /\ (a + b + MaxI64 + 1) % Word \in 0 .. Word - 1
        /\ a + b + MaxI64 + 1 \in 0 .. Word - 1 =>
             (a + b + MaxI64 + 1) % Word = a + b + MaxI64 + 1
    <2>1. a + b + MaxI64 + 1 \in Int
      BY Widths
    <2> QED
      BY <2>1, Widths
  <1> QED
    BY <1>1, Widths DEF AddI64

LEMMA Casts ==
  ASSUME NEW u \in U64
  PROVE  /\ AsI64(u) \in -MaxI64 - 1 .. MaxI64
         /\ u # 0 => AsI64(u) # 0
         /\ AtLeastOne(u) \in U64 \ {0}
         /\ Clamped(u) \in 0 .. MaxI64
  BY Widths DEF AsI64, AtLeastOne, Clamped, U64

\* The dearest cost exists, for costs are u64.
LEMMA Dearest ==
  ASSUME NEW t \in Tenants
  PROVE  /\ Largest(t) \in 0 .. MaxI64
         /\ \A k \in CostsOf[t] : Clamped(k) <= Largest(t)
         /\ \A q : InRange(t, q) <=> 1 <= q /\ q <= MaxI64 - Largest(t) + 1
  <1> DEFINE C == {Clamped(k) : k \in CostsOf[t]}
  <1>1. CostsOf[t] \subseteq U64 /\ CostsOf[t] # {}
    BY ShardNumbersAssumption
  <1>2. C \in SUBSET (0 .. MaxI64) /\ C # {}
    BY <1>1, Casts
  <1>3. \E c \in C : \A d \in C : d <= c
    BY <1>2, GreatestElement, Widths
  <1>4. \E c \in C : \A k \in CostsOf[t] : Clamped(k) <= c
    BY <1>3
  <1>5. Largest(t) \in C /\ \A k \in CostsOf[t] : Clamped(k) <= Largest(t)
    BY <1>4, Zenon DEF Largest
  <1> QED
    BY <1>2, <1>5 DEF InRange

-----------------------------------------------------------------------------
(* ActiveRing. *)

Rings == {r \in [buf : Seq(Tenants), head : Nat] : r.head <= Len(r.buf)}
Trim(r) == r.head <= Compact \/ r.head < Len(Contents(r))

LEMMA Items ==
  ASSUME NEW r \in Rings
  PROVE  /\ Contents(r) \in Seq(Tenants) /\ Len(r.buf) \in Nat
         /\ Len(Contents(r)) = Len(r.buf) - r.head /\ RingLen(r) = Len(Contents(r))
         /\ \A i \in 1 .. Len(r.buf) - r.head : Contents(r)[i] = r.buf[r.head + i]
  <1>1. r.buf \in Seq(Tenants) /\ r.head \in Nat /\ Len(r.buf) \in Nat /\ r.head <= Len(r.buf)
    BY DEF Rings
  <1>2. /\ Contents(r) \in Seq(Tenants)
        /\ Len(Contents(r)) = Len(r.buf) - r.head
        /\ \A i \in 1 .. Len(r.buf) - r.head : Contents(r)[i] = r.buf[r.head + i]
    <2>1. \A i \in r.head + 1 .. Len(r.buf) : r.buf[i] \in Tenants
      BY <1>1
    <2> QED
      BY <1>1, <2>1 DEF Contents
  <1> QED
    BY <1>1, <1>2 DEF RingLen

LEMMA PushIsAppend ==
  ASSUME NEW r \in Rings, Trim(r), NEW t \in Tenants
  PROVE  /\ PushBack(r, t) \in Rings /\ Trim(PushBack(r, t))
         /\ Contents(PushBack(r, t)) = Append(Contents(r), t)
  <1> DEFINE s == PushBack(r, t)
  <1>1. /\ r.buf \in Seq(Tenants) /\ r.head \in Nat /\ Len(r.buf) \in Nat /\ r.head <= Len(r.buf)
        /\ r \in [buf : Seq(Tenants), head : Nat]
    BY DEF Rings
  <1>2. CASE r.head = Len(r.buf)
    <2>1. s = [buf |-> <<t>>, head |-> 0]
      BY <1>2 DEF PushBack
    <2>2. s \in Rings
      BY <2>1 DEF Rings
    <2>3. Len(Contents(r)) = 0 /\ Contents(r) \in Seq(Tenants)
      BY <1>1, <1>2, Items
    <2>4. Contents(s) = <<t>>
      <3>1. s.buf = <<t>> /\ s.head + 1 = 1 /\ <<t>> \in Seq(Tenants)
        BY <2>1
      <3>2. SubSeq(<<t>>, 1, Len(<<t>>)) = <<t>>
        BY <3>1, SubSeqFull
      <3> QED
        BY <3>1, <3>2, Zenon DEF Contents
    <2>5. Append(Contents(r), t) = <<t>>
      BY <2>3
    <2> QED
      BY <2>1, <2>2, <2>4, <2>5, ShardNumbersAssumption DEF Trim
  <1>3. CASE r.head # Len(r.buf)
    <2>1. s = [buf |-> Append(r.buf, t), head |-> r.head]
      BY <1>1, <1>3 DEF PushBack
    <2>2. /\ s \in Rings /\ s.head = r.head /\ Len(s.buf) = Len(r.buf) + 1
          /\ \A i \in 1 .. Len(r.buf) : s.buf[i] = r.buf[i]
          /\ s.buf[Len(r.buf) + 1] = t
      BY <1>1, <2>1 DEF Rings
    <2> HIDE DEF s
    <2>3. /\ Contents(s) \in Seq(Tenants) /\ Len(Contents(s)) = Len(Contents(r)) + 1
          /\ Contents(r) \in Seq(Tenants) /\ Len(Contents(r)) = Len(r.buf) - r.head
          /\ \A i \in 1 .. Len(Contents(r)) : Contents(s)[i] = Contents(r)[i]
          /\ Contents(s)[Len(Contents(r)) + 1] = t
      <3>1. /\ Contents(r) \in Seq(Tenants) /\ Len(Contents(r)) = Len(r.buf) - r.head
            /\ \A i \in 1 .. Len(r.buf) - r.head : Contents(r)[i] = r.buf[r.head + i]
        BY Items
      <3>2. /\ Contents(s) \in Seq(Tenants) /\ Len(Contents(s)) = Len(s.buf) - s.head
            /\ \A i \in 1 .. Len(s.buf) - s.head : Contents(s)[i] = s.buf[s.head + i]
        BY <2>2, Items
      <3>3. \A i \in 1 .. Len(r.buf) - r.head :
              r.head + i \in 1 .. Len(r.buf) /\ i \in 1 .. Len(s.buf) - s.head
        BY <1>1, <2>2
      <3>4. \A i \in 1 .. Len(r.buf) - r.head : Contents(s)[i] = Contents(r)[i]
        BY <2>2, <3>1, <3>2, <3>3
      <3>5. Contents(s)[Len(r.buf) - r.head + 1] = t
        BY <1>1, <2>2, <3>2
      <3> QED
        BY <1>1, <2>2, <3>1, <3>2, <3>4, <3>5
    <2>4. Contents(s) = Append(Contents(r), t)
      <3>1. /\ Append(Contents(r), t) \in Seq(Tenants)
            /\ Len(Append(Contents(r), t)) = Len(Contents(r)) + 1
            /\ \A i \in 1 .. Len(Contents(r)) : Append(Contents(r), t)[i] = Contents(r)[i]
            /\ Append(Contents(r), t)[Len(Contents(r)) + 1] = t
        BY <2>3
      <3>2. \A i \in 1 .. Len(Contents(s)) : Contents(s)[i] = Append(Contents(r), t)[i]
        BY <2>3, <3>1
      <3> QED
        BY <2>3, <3>1, <3>2, SeqEqual
    <2> QED
      BY <1>1, <2>2, <2>3, <2>4 DEF Trim, s
  <1> QED
    BY <1>2, <1>3

\* What drain(..n) leaves of a buffer.
LEMMA Drained ==
  ASSUME NEW b \in Seq(Tenants), NEW h \in Nat, h < Len(b)
  PROVE  /\ Drain(b, h + 1) \in Seq(Tenants) /\ Len(Drain(b, h + 1)) = Len(b) - h - 1
         /\ \A i \in 1 .. Len(b) - h - 1 : Drain(b, h + 1)[i] = b[h + 1 + i]
  <1>1. PICK l \in Nat : l = Len(b)
    OBVIOUS
  <1>2. PICK m \in Int : m = h + 2
    OBVIOUS
  <1>3. \A i \in m .. l : b[i] \in Tenants
    BY <1>1, <1>2
  <1>4. Drain(b, h + 1) = SubSeq(b, m, l)
    <2>1. h + 1 + 1 = m
      BY <1>2
    <2> QED
      BY <1>1, <2>1 DEF Drain
  <1>5. /\ SubSeq(b, m, l) \in Seq(Tenants)
        /\ Len(SubSeq(b, m, l)) = IF m <= l THEN l - m + 1 ELSE 0
        /\ \A i \in 1 .. l - m + 1 : SubSeq(b, m, l)[i] = b[m + i - 1]
    <2>1. l \in Int /\ m \in Int
      BY <1>1, <1>2
    <2> QED
      BY <1>3, <2>1, SubSeqProperties
  <1>6. l - m + 1 = l - h - 1 /\ (IF m <= l THEN l - m + 1 ELSE 0) = l - h - 1
    BY <1>1, <1>2
  <1>7. \A i \in Int : m + i - 1 = h + 1 + i
    BY <1>2
  <1>8. \A i \in 1 .. l - h - 1 : i \in Int
    BY <1>1
  <1>9. \A i \in 1 .. l - h - 1 : SubSeq(b, m, l)[i] = b[h + 1 + i]
    <2> SUFFICES ASSUME NEW i \in 1 .. l - h - 1 PROVE SubSeq(b, m, l)[i] = b[h + 1 + i]
      OBVIOUS
    <2>1. m + i - 1 = h + 1 + i /\ i \in 1 .. l - m + 1
      BY <1>6, <1>7, <1>8
    <2>2. SubSeq(b, m, l)[i] = b[m + i - 1]
      BY <1>5, <2>1, Zenon
    <2> QED
      BY <2>1, <2>2, Zenon
  <1>10. SubSeq(b, m, l) \in Seq(Tenants) /\ Len(SubSeq(b, m, l)) = l - h - 1
    BY <1>5, <1>6, Zenon
  <1> QED
    BY <1>1, <1>4, <1>9, <1>10

LEMMA PopIsTail ==
  ASSUME NEW r \in Rings, Len(Contents(r)) > 0
  PROVE  /\ PopFront(r) \in Rings /\ Trim(PopFront(r))
         /\ FrontOf(r) = Head(Contents(r))
         /\ Contents(PopFront(r)) = Tail(Contents(r))
  <1> DEFINE s == PopFront(r)
             n == Len(r.buf) - r.head - 1
  <1>1. /\ r.buf \in Seq(Tenants) /\ r.head \in Nat /\ Len(r.buf) \in Nat /\ r.head < Len(r.buf)
        /\ r \in [buf : Seq(Tenants), head : Nat]
        /\ Contents(r) \in Seq(Tenants) /\ Len(Contents(r)) = n + 1 /\ n \in Nat
        /\ \A i \in 1 .. n + 1 : Contents(r)[i] = r.buf[r.head + i]
    BY Items DEF Rings
  <1>2. FrontOf(r) = Head(Contents(r))
    BY <1>1 DEF FrontOf
  <1>3. /\ Tail(Contents(r)) \in Seq(Tenants) /\ Len(Tail(Contents(r))) = n
        /\ \A i \in 1 .. n : Tail(Contents(r))[i] = r.buf[r.head + 1 + i]
    BY <1>1
  <1>4. /\ s \in Rings /\ Len(s.buf) - s.head = n
        /\ \A i \in 1 .. n : s.buf[s.head + i] = r.buf[r.head + 1 + i]
        /\ s.head <= Compact \/ s.head < n
    <2> DEFINE p == [buf |-> r.buf, head |-> r.head + 1]
    <2>1. [r EXCEPT !.head = @ + 1] = p
      <3>1. \A b, h : \A q \in [buf : {b}, head : {h}] :
              [q EXCEPT !.head = @ + 1] = [buf |-> b, head |-> h + 1]
        OBVIOUS
      <3>2. r \in [buf : {r.buf}, head : {r.head}]
        BY <1>1
      <3> QED
        BY <3>1, <3>2, Zenon
    <2>0. /\ Compacts(p) => s = [buf |-> Drain(r.buf, r.head + 1), head |-> 0]
          /\ ~Compacts(p) => s = IF r.head + 1 = Len(r.buf) THEN NewRing ELSE p
      BY <2>1 DEF PopFront
    <2>2. CASE Compacts(p)
      <3>1. PICK v \in Seq(Tenants) :
              /\ v = Drain(r.buf, r.head + 1) /\ Len(v) = n
              /\ \A i \in 1 .. n : v[i] = r.buf[r.head + 1 + i]
        BY <1>1, Drained
      <3>2. s = [buf |-> v, head |-> 0]
        BY <2>0, <2>2, <3>1
      <3>3. s.head = 0 /\ s.buf = v /\ s \in Rings
        BY <1>1, <3>1, <3>2 DEF Rings
      <3>4. \A i \in 1 .. n : s.buf[s.head + i] = r.buf[r.head + 1 + i]
        <4>1. \A i \in 1 .. n : 0 + i = i
          BY <1>1
        <4> QED
          BY <3>1, <3>3, <4>1, Zenon
      <3>5. Len(s.buf) - s.head = n /\ s.head <= Compact
        BY <1>1, <3>1, <3>3, ShardNumbersAssumption
      <3> QED
        BY <3>3, <3>4, <3>5, Zenon
    <2>3. CASE ~Compacts(p) /\ r.head + 1 = Len(r.buf)
      <3>1. s = [buf |-> <<>>, head |-> 0] /\ n = 0
        BY <1>1, <2>0, <2>3 DEF NewRing
      <3>2. s.buf = <<>> /\ s.head = 0 /\ s \in Rings /\ Len(s.buf) = 0
        BY <3>1 DEF Rings
      <3>3. s.head <= Compact
        BY <3>2, ShardNumbersAssumption
      <3>4. \A i \in 1 .. n : FALSE
        BY <3>1
      <3> QED
        BY <3>1, <3>2, <3>3, <3>4
    <2>4. CASE ~Compacts(p) /\ r.head + 1 # Len(r.buf)
      <3>1. s = p
        BY <2>0, <2>4
      <3>2. p.head = r.head + 1 /\ p.buf = r.buf /\ Compact \in Nat
        BY ShardNumbersAssumption
      <3>3. r.head + 1 <= Compact \/ (r.head + 1) * 2 < Len(r.buf)
        BY <1>1, <2>4, <3>2 DEF Compacts
      <3>4. s.head = r.head + 1 /\ s.buf = r.buf /\ s \in Rings
        BY <1>1, <2>4, <3>1 DEF Rings
      <3>5. \A i \in 1 .. n : s.buf[s.head + i] = r.buf[r.head + 1 + i]
        BY <3>4
      <3>6. r.head + 1 <= Compact \/ r.head + 1 < n
        BY <1>1, <3>3
      <3>7. Len(s.buf) - s.head = n
        BY <1>1, <3>4
      <3>8. s.head <= Compact \/ s.head < n
        BY <3>4, <3>6, Zenon
      <3> QED
        BY <3>4, <3>5, <3>7, <3>8, Zenon
    <2> QED
      BY <2>2, <2>3, <2>4
  <1> HIDE DEF s, n
  <1>5. /\ Contents(s) \in Seq(Tenants) /\ Len(Contents(s)) = n
        /\ \A i \in 1 .. n : Contents(s)[i] = r.buf[r.head + 1 + i]
    BY <1>1, <1>4, Items
  <1>6. Contents(s) = Tail(Contents(r))
    BY <1>3, <1>5, SeqEqual
  <1> QED
    BY <1>2, <1>4, <1>5, <1>6 DEF Trim, s

-----------------------------------------------------------------------------
(* The shard. *)

LEMMA QuantumFits ==
  ASSUME ShardTypeInv, NEW t \in Tenants
  PROVE  /\ QuantumFor(t) \in U64 \ {0}
         /\ AsI64(QuantumFor(t)) \in -MaxI64 - 1 .. MaxI64 /\ AsI64(QuantumFor(t)) # 0
  <1>1. /\ override[t] \in U64 /\ provider \in U64 /\ AtLeastOne(BaseQuantum) \in U64 \ {0}
    BY Casts, ShardNumbersAssumption DEF ShardTypeInv
  <1>2. QuantumFor(t) \in U64 \ {0}
    BY <1>1 DEF QuantumFor
  <1> QED
    BY <1>2, Casts

LEMMA RingFacts ==
  ASSUME ShardInv
  PROVE  /\ ring \in Rings /\ Contents(ring) = order /\ Trim(ring)
         /\ order \in Seq(Tenants) /\ Len(order) \in Nat /\ DOMAIN order = 1 .. Len(order)
         /\ RingLen(ring) = Len(order) /\ left \in Nat /\ left <= Len(order)
  <1>1. /\ ring \in Rings /\ Contents(ring) = order /\ Trim(ring)
        /\ order \in Seq(Tenants) /\ left \in Nat /\ left <= Len(order)
    BY DEF ShardInv, ShardTypeInv, RingIsQueue, Rings, Trim
  <1>2. Len(order) \in Nat /\ DOMAIN order = 1 .. Len(order)
    BY <1>1
  <1>3. RingLen(ring) = Len(order)
    BY <1>1, Items
  <1> QED
    BY <1>1, <1>2, <1>3

\* What one push and one pop do to the ring and to the queue it stands for.
RingFits == ring' \in Rings /\ Trim(ring') /\ Contents(ring') = order' /\ order' \in Seq(Tenants)

LEMMA Pushed ==
  ASSUME ShardInv, NEW t \in Tenants, ring' = PushBack(ring, t), order' = Append(order, t)
  PROVE  /\ RingFits /\ Len(order') = Len(order) + 1
         /\ \A i \in DOMAIN order' : order'[i] = t \/ \E j \in DOMAIN order : order'[i] = order[j]
  <1>1. RingFits
    <2>1. ring \in Rings /\ Trim(ring) /\ Contents(ring) = order /\ order' \in Seq(Tenants)
      BY RingFacts
    <2>2. /\ PushBack(ring, t) \in Rings /\ Trim(PushBack(ring, t))
          /\ Contents(PushBack(ring, t)) = Append(order, t)
      BY <2>1, PushIsAppend
    <2> QED
      BY <2>1, <2>2 DEF RingFits
  <1>2. /\ Len(order') = Len(order) + 1 /\ DOMAIN order' = 1 .. Len(order) + 1
        /\ \A i \in 1 .. Len(order) : order'[i] = order[i]
        /\ order'[Len(order) + 1] = t
    BY RingFacts
  <1> QED
    BY <1>1, <1>2, RingFacts

LEMMA Popped ==
  ASSUME ShardInv, left > 0, NEW t \in Tenants, FrontOf(ring) = t, Unlist \/ Relist(t)
  PROVE  /\ RingFits
         /\ Len(order') \in Nat /\ left - 1 \in Nat /\ left - 1 <= Len(order')
         /\ \A i \in DOMAIN order' : \E j \in DOMAIN order : order'[i] = order[j]
         /\ \E j \in DOMAIN order : order[j] = t
  <1>1. /\ ring \in Rings /\ Contents(ring) = order /\ order \in Seq(Tenants)
        /\ Len(order) \in Nat /\ Len(order) > 0 /\ DOMAIN order = 1 .. Len(order)
        /\ left \in Nat /\ left <= Len(order)
    BY RingFacts
  <1>2. /\ PopFront(ring) \in Rings /\ Trim(PopFront(ring))
        /\ Contents(PopFront(ring)) = Tail(order) /\ t = Head(order)
    BY <1>1, PopIsTail
  <1>3. /\ Tail(order) \in Seq(Tenants) /\ Len(Tail(order)) = Len(order) - 1
        /\ DOMAIN Tail(order) = 1 .. Len(order) - 1
        /\ \A i \in 1 .. Len(order) - 1 : Tail(order)[i] = order[i + 1] /\ i + 1 \in DOMAIN order
        /\ order[1] = t /\ 1 \in DOMAIN order
    BY <1>1, <1>2
  <1>4. CASE Unlist
    <2>1. ring' = PopFront(ring) /\ order' = Tail(order)
      BY <1>4 DEF Unlist
    <2> QED
      BY <1>1, <1>2, <1>3, <2>1 DEF RingFits
  <1>5. CASE Relist(t)
    <2>1. ring' = PushBack(PopFront(ring), t) /\ order' = Append(Tail(order), t)
      BY <1>5 DEF Relist
    <2>2. /\ order' \in Seq(Tenants) /\ Len(order') = Len(order)
          /\ DOMAIN order' = 1 .. Len(order)
          /\ \A i \in 1 .. Len(order) - 1 : order'[i] = Tail(order)[i]
          /\ order'[Len(order)] = t
      BY <1>1, <1>3, <2>1
    <2>3. RingFits
      BY <1>2, <2>1, <2>2, PushIsAppend DEF RingFits
    <2>4. \A i \in DOMAIN order' : i = Len(order) \/ i \in 1 .. Len(order) - 1
      BY <1>1, <2>2
    <2>5. \A i \in DOMAIN order' : \E j \in DOMAIN order : order'[i] = order[j]
      BY <1>3, <2>2, <2>4
    <2> QED
      BY <1>1, <1>3, <2>2, <2>3, <2>5
  <1> QED
    BY <1>4, <1>5

\* Quanta of any tenant may stay or be read anew while no call is under way.
LEMMA CallsFrame ==
  ASSUME ShardInv, UNCHANGED adminVars,
         \A t \in Tenants : quantum'[t] = quantum[t] \/ quantum'[t] = AsI64(QuantumFor(t))
  PROVE  CallsTold'
  <1>1. UNCHANGED <<override, provider, admin, solo, clean>>
    BY DEF adminVars
  <1>2. \A t : QuantumFor(t)' = QuantumFor(t) /\ \A a : Covers(a, t)' <=> Covers(a, t)
    BY <1>1 DEF QuantumFor, Covers
  <1> QED
    BY <1>1, <1>2, Zenon DEF ShardInv, CallsTold

\* Quanta may be set to any i64 but 0, and may leave their range for good.
LEMMA QuantaFrame ==
  ASSUME ShardInv, quantum' \in [Tenants -> -MaxI64 - 1 .. MaxI64], SetQuanta(quantum'),
         \A t \in Tenants : quantum[t] # 0 => quantum'[t] # 0
  PROVE  /\ tame' \in [Tenants -> BOOLEAN]
         /\ \A t \in Tenants : tame'[t] => tame[t] /\ (quantum'[t] = 0 \/ InRange(t, quantum'[t]))
         /\ \A i \in DOMAIN order : quantum'[order[i]] # 0
  <1>1. tame' = [t \in Tenants |-> tame[t] /\ (quantum'[t] = 0 \/ InRange(t, quantum'[t]))]
    BY DEF SetQuanta
  <1>2. \A t \in Tenants : tame'[t] <=> tame[t] /\ (quantum'[t] = 0 \/ InRange(t, quantum'[t]))
    BY <1>1, Zenon
  <1>3. \A i \in DOMAIN order : order[i] \in Tenants /\ quantum[order[i]] # 0
    BY RingFacts DEF ShardInv, CreditsPaid
  <1>4. tame' \in [Tenants -> BOOLEAN]
    BY <1>1 DEF InRange
  <1> QED
    BY <1>2, <1>3, <1>4

\* The shard's own variables are as they were.
LEMMA ShardFrame ==
  ASSUME ShardInv, UNCHANGED <<ringVars, workVars>>,
         quantum' \in [Tenants -> -MaxI64 - 1 .. MaxI64], tame' \in [Tenants -> BOOLEAN],
         \A t \in Tenants : tame'[t] => tame[t] /\ (quantum'[t] = 0 \/ InRange(t, quantum'[t])),
         \A i \in DOMAIN order : quantum'[order[i]] # 0,
         override' \in [Tenants -> U64], provider' \in U64,
         admin' \in [Admins -> [at : {"idle", "map", "provider", "lock", "all"},
                                tenant : Tenants \cup {0}, value : U64]],
         solo' \in BOOLEAN, clean' \in [Tenants -> BOOLEAN],
         CallsTold'
  PROVE  ShardInv'
  <1>1. UNCHANGED <<ring, order, queue, deficit, left, credits>>
    BY DEF ringVars, workVars
  <1>2. ShardTypeInv'
    BY <1>1 DEF ShardInv, ShardTypeInv
  <1>3. RingIsQueue'
    BY <1>1 DEF ShardInv, RingIsQueue, Contents
  <1>4. CreditsPaid'
    BY <1>1 DEF ShardInv, CreditsPaid, InRange, Largest
  <1> QED
    BY <1>2, <1>3, <1>4 DEF ShardInv

LEMMA SameShard == ASSUME ShardInv, UNCHANGED shardVars PROVE ShardInv'
  <1> USE DEF shardVars, ringVars, workVars, adminVars
  <1>1. ShardTypeInv'
    BY DEF ShardInv, ShardTypeInv
  <1>2. RingIsQueue'
    BY DEF ShardInv, RingIsQueue, Contents
  <1>3. CreditsPaid'
    BY DEF ShardInv, CreditsPaid, InRange, Largest
  <1>4. CallsTold'
    BY CallsFrame
  <1> QED
    BY <1>1, <1>2, <1>3, <1>4 DEF ShardInv

\* Enqueue lists a tenant that was not, and gives one that is new its quantum.
LEMMA EnqueueKeeps ==
  ASSUME ShardInv, NEW t \in Tenants, NEW c \in CostsOf[t], Enqueue(t, c)
  PROVE  ShardInv'
  <1>1. /\ left = 0 /\ queue' = [queue EXCEPT ![t] = Append(@, c)]
        /\ IF \E i \in DOMAIN order : order[i] = t THEN UNCHANGED ringVars
           ELSE ring' = PushBack(ring, t) /\ order' = Append(order, t)
        /\ IF quantum[t] # 0 THEN UNCHANGED <<quantum, tame>>
           ELSE SetQuanta([quantum EXCEPT ![t] = AsI64(QuantumFor(t))])
        /\ UNCHANGED <<deficit, left, credits, adminVars>>
    BY DEF Enqueue
  <1>2. /\ RingFits /\ Len(order') \in Nat
        /\ \A i \in DOMAIN order' : order'[i] = t \/ \E j \in DOMAIN order : order'[i] = order[j]
    <2>1. CASE UNCHANGED ringVars
      <3>1. ring' = ring /\ order' = order
        BY <2>1 DEF ringVars
      <3> QED
        BY <3>1, RingFacts DEF RingFits
    <2>2. CASE ring' = PushBack(ring, t) /\ order' = Append(order, t)
      BY <2>2, Pushed, RingFacts
    <2> QED
      BY <1>1, <2>1, <2>2
  <1>3. /\ quantum' \in [Tenants -> -MaxI64 - 1 .. MaxI64] /\ tame' \in [Tenants -> BOOLEAN]
        /\ quantum'[t] # 0 /\ \A i \in DOMAIN order : quantum'[order[i]] # 0
        /\ \A u \in Tenants : tame'[u] => tame[u] /\ (quantum'[u] = 0 \/ InRange(u, quantum'[u]))
        /\ \A u \in Tenants : quantum'[u] = quantum[u] \/ quantum'[u] = AsI64(QuantumFor(u))
    <2>1. CASE quantum[t] # 0
      BY <1>1, <2>1 DEF ShardInv, ShardTypeInv, CreditsPaid
    <2>2. CASE quantum[t] = 0
      <3>1. /\ quantum' = [quantum EXCEPT ![t] = AsI64(QuantumFor(t))]
            /\ SetQuanta(quantum')
        BY <1>1, <2>2 DEF SetQuanta
      <3>2. /\ quantum \in [Tenants -> -MaxI64 - 1 .. MaxI64]
            /\ AsI64(QuantumFor(t)) \in -MaxI64 - 1 .. MaxI64 /\ AsI64(QuantumFor(t)) # 0
        BY QuantumFits DEF ShardInv, ShardTypeInv
      <3>3. /\ quantum' \in [Tenants -> -MaxI64 - 1 .. MaxI64] /\ quantum'[t] # 0
            /\ \A u \in Tenants : quantum[u] # 0 => quantum'[u] # 0
            /\ \A u \in Tenants : quantum'[u] = quantum[u] \/ quantum'[u] = AsI64(QuantumFor(u))
        BY <3>1, <3>2
      <3> QED
        BY <3>1, <3>3, QuantaFrame
    <2> QED
      BY <2>1, <2>2
  <1>4. CallsTold'
    BY <1>1, <1>3, CallsFrame
  <1>5. c \in U64 /\ queue \in [Tenants -> Seq(U64)]
    BY ShardNumbersAssumption DEF ShardInv, ShardTypeInv
  <1>6. /\ queue' \in [Tenants -> Seq(U64)]
        /\ \A u \in Tenants : \A i \in DOMAIN queue'[u] : queue'[u][i] \in CostsOf[u]
    <2>1. /\ Append(queue[t], c) \in Seq(U64)
          /\ DOMAIN Append(queue[t], c) = 1 .. Len(queue[t]) + 1
          /\ DOMAIN queue[t] = 1 .. Len(queue[t])
          /\ \A i \in 1 .. Len(queue[t]) : Append(queue[t], c)[i] = queue[t][i]
          /\ Append(queue[t], c)[Len(queue[t]) + 1] = c /\ Len(queue[t]) \in Nat
      BY <1>5
    <2>2. \A i \in DOMAIN Append(queue[t], c) : Append(queue[t], c)[i] \in CostsOf[t]
      BY <2>1 DEF ShardInv, CreditsPaid
    <2> QED
      BY <1>1, <1>5, <2>1, <2>2 DEF ShardInv, CreditsPaid
  <1>7. CreditsPaid'
    <2>1. \A i \in DOMAIN order' : quantum'[order'[i]] # 0
      BY <1>2, <1>3
    <2> QED
      BY <1>1, <1>3, <1>6, <2>1 DEF ShardInv, CreditsPaid, InRange, Largest
  <1>8. ShardTypeInv'
    <2>1. /\ ring' \in [buf : Seq(Tenants), head : Nat] /\ ring'.head <= Len(ring'.buf)
          /\ order' \in Seq(Tenants) /\ left' \in Nat /\ left' <= Len(order')
      BY <1>1, <1>2 DEF RingFits, Rings
    <2>2. UNCHANGED <<deficit, credits, override, provider, admin, solo, clean>>
      BY <1>1 DEF adminVars
    <2> QED
      BY <1>3, <1>6, <2>1, <2>2 DEF ShardInv, ShardTypeInv
  <1>9. RingIsQueue'
    BY <1>2 DEF RingFits, RingIsQueue, Trim
  <1> QED
    BY <1>4, <1>7, <1>8, <1>9 DEF ShardInv

LEMMA StartPassKeeps == ASSUME ShardInv, StartPass PROVE ShardInv'
  <1>1. /\ left' = RingLen(ring)
        /\ UNCHANGED <<ring, order, queue, deficit, credits, quantum, tame, adminVars>>
    BY DEF StartPass, ringVars
  <1>2. left' \in Nat /\ left' <= Len(order)
    BY <1>1, RingFacts
  <1>3. CallsTold'
    BY <1>1, CallsFrame
  <1>4. ShardTypeInv'
    BY <1>1, <1>2 DEF ShardInv, ShardTypeInv, adminVars
  <1>5. RingIsQueue'
    BY <1>1 DEF ShardInv, RingIsQueue, Contents
  <1>6. CreditsPaid'
    BY <1>1 DEF ShardInv, CreditsPaid, InRange, Largest
  <1> QED
    BY <1>3, <1>4, <1>5, <1>6 DEF ShardInv

\* A tenant that cannot pay is credited: its deficit stays in range, because the
\* deficit was below a cost and the quantum leaves room for that.
LEMMA CreditFits ==
  ASSUME ShardInv, NEW t \in Tenants, NEW k \in CostsOf[t], quantum[t] # 0,
         ~Pays(t, Clamped(k))
  PROVE  /\ AddI64(deficit[t], quantum[t]) \in -MaxI64 - 1 .. MaxI64
         /\ tame[t] => /\ credits[t] + 1 <= AddI64(deficit[t], quantum[t])
                       /\ credits[t] + 1 <= Largest(t)
  <1>1. /\ deficit[t] \in -MaxI64 - 1 .. MaxI64 /\ quantum[t] \in -MaxI64 - 1 .. MaxI64
        /\ credits[t] \in Nat
    BY DEF ShardInv, ShardTypeInv
  <1>2. /\ Clamped(k) \in 0 .. MaxI64 /\ Clamped(k) <= Largest(t) /\ Largest(t) \in 0 .. MaxI64
    <2>1. k \in U64
      BY ShardNumbersAssumption
    <2> QED
      BY <2>1, Casts, Dearest
  <1>3. deficit[t] < Clamped(k)
    BY <1>1, <1>2, Widths DEF Pays
  <1>4. ASSUME tame[t]
        PROVE  /\ credits[t] + 1 <= AddI64(deficit[t], quantum[t])
               /\ credits[t] + 1 <= Largest(t)
    <2>1. /\ 1 <= quantum[t] /\ quantum[t] <= MaxI64 - Largest(t) + 1
          /\ credits[t] <= deficit[t]
      BY <1>4, Dearest DEF ShardInv, CreditsPaid
    <2>2. deficit[t] + quantum[t] \in -MaxI64 - 1 .. MaxI64
      BY <1>1, <1>2, <1>3, <2>1, Widths
    <2>3. AddI64(deficit[t], quantum[t]) = deficit[t] + quantum[t]
      BY <1>1, <2>2, SumWraps
    <2> QED
      BY <1>1, <1>2, <1>3, <2>1, <2>3, Widths
  <1> QED
    BY <1>1, <1>4, SumWraps

\* What a visit may do to the ring, leave of the queue of t, and leave of its balance.
RingMoved == /\ RingFits
             /\ \A i \in DOMAIN order' : \E j \in DOMAIN order : order'[i] = order[j]

Payable(t, s) == s \in Seq(U64) /\ \A i \in DOMAIN s : s[i] \in CostsOf[t]

Balanced(t, d, k) ==
  d \in -MaxI64 - 1 .. MaxI64 /\ k \in Nat /\ (tame[t] => k <= d /\ k <= Largest(t))

VisitLeaves(t, s, d, k) ==
  /\ RingMoved /\ left' \in Nat /\ left' <= Len(order')
  /\ Payable(t, s) /\ queue' = [queue EXCEPT ![t] = s]
  /\ Balanced(t, d, k)
  /\ deficit' = [deficit EXCEPT ![t] = d] /\ credits' = [credits EXCEPT ![t] = k]
  /\ UNCHANGED <<quantum, tame, adminVars>>

\* Whatever a visit leaves in the ring, the queue and the tenant's balance.
LEMMA VisitFrame ==
  ASSUME ShardInv, NEW t \in Tenants, NEW s, NEW d, NEW k, VisitLeaves(t, s, d, k)
  PROVE  ShardInv'
  <1>0. /\ RingFits /\ left' \in Nat /\ left' <= Len(order')
        /\ \A i \in DOMAIN order' : \E j \in DOMAIN order : order'[i] = order[j]
        /\ UNCHANGED <<quantum, tame, adminVars>>
    BY DEF VisitLeaves, RingMoved
  <1>q. /\ s \in Seq(U64) /\ \A i \in DOMAIN s : s[i] \in CostsOf[t]
        /\ queue' = [queue EXCEPT ![t] = s]
    BY DEF VisitLeaves, Payable
  <1>b. /\ d \in -MaxI64 - 1 .. MaxI64 /\ k \in Nat /\ (tame[t] => k <= d /\ k <= Largest(t))
        /\ deficit' = [deficit EXCEPT ![t] = d] /\ credits' = [credits EXCEPT ![t] = k]
    BY DEF VisitLeaves, Balanced
  <1>1. /\ queue \in [Tenants -> Seq(U64)] /\ deficit \in [Tenants -> -MaxI64 - 1 .. MaxI64]
        /\ credits \in [Tenants -> Nat]
    BY DEF ShardInv, ShardTypeInv
  <1>2. ShardTypeInv'
    <2>1. /\ ring' \in [buf : Seq(Tenants), head : Nat] /\ ring'.head <= Len(ring'.buf)
          /\ order' \in Seq(Tenants)
      BY <1>0 DEF RingFits, Rings
    <2>2. /\ queue' \in [Tenants -> Seq(U64)] /\ deficit' \in [Tenants -> -MaxI64 - 1 .. MaxI64]
          /\ credits' \in [Tenants -> Nat]
      BY <1>1, <1>q, <1>b
    <2>3. UNCHANGED <<quantum, tame, override, provider, admin, solo, clean>>
      BY <1>0 DEF adminVars
    <2> QED
      BY <1>0, <2>1, <2>2, <2>3 DEF ShardInv, ShardTypeInv
  <1>3. RingIsQueue'
    BY <1>0 DEF RingFits, RingIsQueue, Trim
  <1>4. CreditsPaid'
    <2>1. \A u \in Tenants : \A i \in DOMAIN queue'[u] : queue'[u][i] \in CostsOf[u]
      BY <1>1, <1>q DEF ShardInv, CreditsPaid
    <2>2. \A i \in DOMAIN order' : quantum'[order'[i]] # 0
      BY <1>0 DEF ShardInv, CreditsPaid
    <2>3. \A u \in Tenants : tame'[u] =>
            /\ quantum'[u] = 0 \/ InRange(u, quantum'[u])
            /\ credits'[u] <= deficit'[u] /\ credits'[u] <= Largest(u)
      BY <1>0, <1>1, <1>b DEF ShardInv, CreditsPaid
    <2> QED
      BY <2>1, <2>2, <2>3 DEF CreditsPaid, InRange, Largest
  <1>5. CallsTold'
    BY <1>0, CallsFrame
  <1> QED
    BY <1>2, <1>3, <1>4, <1>5 DEF ShardInv

LEMMA VisitKeeps ==
  ASSUME ShardInv, NEW t \in Tenants, NEW n \in 0 .. Len(queue[t]), Visit(t, n)
  PROVE  ShardInv'
  <1> DEFINE q == SubSeq(queue[t], n + 1, Len(queue[t]))
             cost == Clamped(Head(q))
  <1>1. /\ left > 0 /\ FrontOf(ring) = t
        /\ \/ /\ q = <<>> /\ Unlist
              /\ queue' = [queue EXCEPT ![t] = q] /\ left' = left - 1
              /\ UNCHANGED <<deficit, credits>>
           \/ /\ q # <<>> /\ ~Pays(t, cost) /\ Relist(t)
              /\ queue' = [queue EXCEPT ![t] = q] /\ left' = left - 1
              /\ deficit' = [deficit EXCEPT ![t] = AddI64(@, quantum[t])]
              /\ credits' = [credits EXCEPT ![t] = IF @ > Largest(t) THEN @ ELSE @ + 1]
           \/ /\ q # <<>> /\ Pays(t, cost)
              /\ queue' = [queue EXCEPT ![t] = Tail(q)]
              /\ IF Tail(q) = <<>> THEN Unlist ELSE Relist(t)
              /\ \/ /\ deficit' = [deficit EXCEPT ![t] = @ - cost] /\ left' = 0
                    /\ credits' = [credits EXCEPT ![t] = 0]
                 \/ left' = left - 1 /\ UNCHANGED <<deficit, credits>>
        /\ UNCHANGED <<quantum, tame, adminVars>>
    BY DEF Visit
  <1>2. /\ RingFits /\ Len(order') \in Nat /\ left - 1 \in Nat /\ left - 1 <= Len(order')
        /\ \A i \in DOMAIN order' : \E j \in DOMAIN order : order'[i] = order[j]
        /\ \E j \in DOMAIN order : order[j] = t
    <2>1. Unlist \/ Relist(t)
      BY <1>1
    <2> HIDE DEF q
    <2> QED
      BY <1>1, <2>1, Popped
  <1>3. /\ queue[t] \in Seq(U64) /\ Len(queue[t]) \in Nat /\ DOMAIN queue[t] = 1 .. Len(queue[t])
        /\ \A i \in DOMAIN queue[t] : queue[t][i] \in CostsOf[t]
        /\ deficit \in [Tenants -> -MaxI64 - 1 .. MaxI64] /\ credits \in [Tenants -> Nat]
        /\ tame[t] => credits[t] <= deficit[t] /\ credits[t] <= Largest(t)
        /\ quantum[t] # 0
    <2>1. /\ queue[t] \in Seq(U64)
          /\ deficit \in [Tenants -> -MaxI64 - 1 .. MaxI64] /\ credits \in [Tenants -> Nat]
      BY DEF ShardInv, ShardTypeInv
    <2>2. Len(queue[t]) \in Nat /\ DOMAIN queue[t] = 1 .. Len(queue[t])
      BY <2>1
    <2>3. /\ \A i \in DOMAIN queue[t] : queue[t][i] \in CostsOf[t]
          /\ \A i \in DOMAIN order : quantum[order[i]] # 0
          /\ tame[t] => credits[t] <= deficit[t] /\ credits[t] <= Largest(t)
      BY Zenon DEF ShardInv, CreditsPaid
    <2> QED
      BY <1>2, <2>1, <2>2, <2>3, Zenon
  <1>4. q \in Seq(U64) /\ \A i \in DOMAIN q : q[i] \in CostsOf[t]
    <2>1. \A i \in n + 1 .. Len(queue[t]) : queue[t][i] \in U64
      BY <1>3
    <2>2. /\ q \in Seq(U64)
          /\ Len(q) = IF n + 1 <= Len(queue[t]) THEN Len(queue[t]) - (n + 1) + 1 ELSE 0
          /\ \A i \in 1 .. Len(queue[t]) - (n + 1) + 1 : q[i] = queue[t][n + 1 + i - 1]
      BY <1>3, <2>1, SubSeqProperties
    <2>3. \A i \in DOMAIN q : /\ i \in 1 .. Len(queue[t]) - (n + 1) + 1
                              /\ n + 1 + i - 1 \in DOMAIN queue[t]
      BY <1>3, <2>2
    <2> QED
      BY <1>3, <2>2, <2>3
  <1> HIDE DEF q
  <1>5. q # <<>> => /\ Head(q) \in CostsOf[t] /\ Tail(q) \in Seq(U64)
                    /\ \A i \in DOMAIN Tail(q) : Tail(q)[i] \in CostsOf[t]
    BY <1>4
  <1>6. deficit = [deficit EXCEPT ![t] = deficit[t]] /\ credits = [credits EXCEPT ![t] = credits[t]]
    BY <1>3
  <1>7. deficit[t] \in -MaxI64 - 1 .. MaxI64 /\ credits[t] \in Nat
    BY <1>3
  <1>0. PICK d0 \in -MaxI64 - 1 .. MaxI64, k0 \in Nat :
          /\ deficit = [deficit EXCEPT ![t] = d0] /\ credits = [credits EXCEPT ![t] = k0]
          /\ tame[t] => k0 <= d0 /\ k0 <= Largest(t)
    BY <1>3, <1>6, <1>7, Zenon
  <1>11. RingMoved /\ (q # <<>> => Payable(t, Tail(q))) /\ Payable(t, q) /\ Balanced(t, d0, k0)
    BY <1>0, <1>2, <1>4, <1>5 DEF RingMoved, Payable, Balanced
  <1>8. CASE /\ q = <<>> /\ Unlist
             /\ queue' = [queue EXCEPT ![t] = q] /\ left' = left - 1
             /\ UNCHANGED <<deficit, credits>>
    <2>1. /\ deficit' = [deficit EXCEPT ![t] = d0] /\ credits' = [credits EXCEPT ![t] = k0]
          /\ left' \in Nat /\ left' <= Len(order')
      BY <1>0, <1>2, <1>8
    <2>2. VisitLeaves(t, q, d0, k0)
      BY <1>1, <1>8, <1>11, <2>1 DEF VisitLeaves
    <2> QED
      BY <2>2, VisitFrame
  <1>9. CASE /\ q # <<>> /\ ~Pays(t, cost) /\ Relist(t)
             /\ queue' = [queue EXCEPT ![t] = q] /\ left' = left - 1
             /\ deficit' = [deficit EXCEPT ![t] = AddI64(@, quantum[t])]
             /\ credits' = [credits EXCEPT ![t] = IF @ > Largest(t) THEN @ ELSE @ + 1]
    <2>1. /\ AddI64(deficit[t], quantum[t]) \in -MaxI64 - 1 .. MaxI64
          /\ tame[t] => /\ credits[t] + 1 <= AddI64(deficit[t], quantum[t])
                        /\ credits[t] + 1 <= Largest(t)
      BY <1>3, <1>5, <1>9, CreditFits
    <2>2. PICK d \in -MaxI64 - 1 .. MaxI64 : d = AddI64(deficit[t], quantum[t])
      BY <2>1
    <2>3. PICK k \in Nat : k = IF credits[t] > Largest(t) THEN credits[t] ELSE credits[t] + 1
      BY <1>7
    <2>4. deficit' = [deficit EXCEPT ![t] = d] /\ credits' = [credits EXCEPT ![t] = k]
      BY <1>9, <2>2, <2>3
    <2>5. tame[t] => k <= d /\ k <= Largest(t)
      BY <1>3, <2>1, <2>2, <2>3, <1>7, Dearest
    <2>6. left' \in Nat /\ left' <= Len(order')
      BY <1>2, <1>9
    <2>7. Balanced(t, d, k)
      BY <2>5 DEF Balanced
    <2>8. VisitLeaves(t, q, d, k)
      BY <1>1, <1>9, <1>11, <2>4, <2>6, <2>7 DEF VisitLeaves
    <2> QED
      BY <2>8, VisitFrame
  <1>10. CASE /\ q # <<>> /\ Pays(t, cost)
              /\ queue' = [queue EXCEPT ![t] = Tail(q)]
              /\ IF Tail(q) = <<>> THEN Unlist ELSE Relist(t)
    <2>1. CASE left' = left - 1 /\ UNCHANGED <<deficit, credits>>
      <3>1. /\ deficit' = [deficit EXCEPT ![t] = d0] /\ credits' = [credits EXCEPT ![t] = k0]
            /\ left' \in Nat /\ left' <= Len(order')
        BY <1>0, <1>2, <2>1
      <3>2. VisitLeaves(t, Tail(q), d0, k0)
        BY <1>1, <1>10, <1>11, <3>1 DEF VisitLeaves
      <3> QED
        BY <3>2, VisitFrame
    <2>2. CASE /\ deficit' = [deficit EXCEPT ![t] = @ - cost] /\ left' = 0
               /\ credits' = [credits EXCEPT ![t] = 0]
      <3>1. PICK d : d = deficit[t] - cost
        OBVIOUS
      <3>2. cost \in 0 .. MaxI64
        <4>1. Head(q) \in U64
          BY <1>5, <1>10, ShardNumbersAssumption
        <4> QED
          BY <4>1, Casts
      <3> HIDE DEF cost
      <3>3. d \in -MaxI64 - 1 .. MaxI64 /\ 0 <= d
        BY <1>7, <1>10, <3>1, <3>2, Widths DEF Pays
      <3>4. deficit' = [deficit EXCEPT ![t] = d]
        BY <2>2, <3>1
      <3>5. 0 <= Largest(t) /\ 0 \in Nat /\ left' \in Nat /\ left' <= Len(order')
        BY <1>2, <2>2, Dearest
      <3>6. Balanced(t, d, 0)
        BY <3>3, <3>5 DEF Balanced
      <3>7. VisitLeaves(t, Tail(q), d, 0)
        BY <1>1, <1>10, <1>11, <2>2, <3>4, <3>5, <3>6 DEF VisitLeaves
      <3> QED
        BY <3>7, VisitFrame
    <2> QED
      BY <1>1, <1>10, <2>1, <2>2
  <1> QED
    BY <1>1, <1>8, <1>9, <1>10

-----------------------------------------------------------------------------
(* Configuring quanta. *)

LEMMA AdminFacts ==
  ASSUME ShardInv
  PROVE  /\ quantum \in [Tenants -> -MaxI64 - 1 .. MaxI64] /\ tame \in [Tenants -> BOOLEAN]
         /\ \A t \in Tenants : tame[t] => quantum[t] = 0 \/ InRange(t, quantum[t])
         /\ \A i \in DOMAIN order : quantum[order[i]] # 0
         /\ override \in [Tenants -> U64] /\ provider \in U64
         /\ admin \in [Admins -> [at : {"idle", "map", "provider", "lock", "all"},
                                  tenant : Tenants \cup {0}, value : U64]]
         /\ solo \in BOOLEAN /\ clean \in [Tenants -> BOOLEAN] /\ 0 \in U64
         /\ \A q \in {AtLeastOne(v) : v \in Quanta} \cup {0} : q \in U64
  <1>1. /\ quantum \in [Tenants -> -MaxI64 - 1 .. MaxI64] /\ tame \in [Tenants -> BOOLEAN]
        /\ override \in [Tenants -> U64] /\ provider \in U64
        /\ admin \in [Admins -> [at : {"idle", "map", "provider", "lock", "all"},
                                 tenant : Tenants \cup {0}, value : U64]]
        /\ solo \in BOOLEAN /\ clean \in [Tenants -> BOOLEAN]
    BY DEF ShardInv, ShardTypeInv
  <1>2. /\ \A t \in Tenants : tame[t] => quantum[t] = 0 \/ InRange(t, quantum[t])
        /\ \A i \in DOMAIN order : quantum[order[i]] # 0
    BY Zenon DEF ShardInv, CreditsPaid
  <1>3. 0 \in U64
    BY Widths DEF U64
  <1>4. \A v \in Quanta : AtLeastOne(v) \in U64
    BY Casts, ShardNumbersAssumption
  <1> QED
    BY <1>1, <1>2, <1>3, <1>4

\* A call begins: alone, for the tenants it names, or among others.
LEMMA StartKeeps ==
  ASSUME ShardInv, NEW a \in Admins,
         NEW call \in [at : {"map", "all"}, tenant : Tenants \cup {0}, value : U64],
         call.at = "map" => call.tenant \in Tenants,
         Start(a, call),
         override' \in [Tenants -> U64], provider' \in U64,
         \A t \in Tenants : ~(call.at = "all" \/ call.tenant = t) =>
           override'[t] = override[t] /\ provider' = provider
  PROVE  ShardInv'
  <1>1. /\ admin[a] = Idle /\ admin' = [admin EXCEPT ![a] = call]
        /\ solo' = AllIdle
        /\ clean' = IF AllIdle THEN clean ELSE [t \in Tenants |-> FALSE]
        /\ UNCHANGED <<ringVars, workVars, quantum, tame>>
    BY DEF Start
  <1>2. /\ admin' \in [Admins -> [at : {"idle", "map", "provider", "lock", "all"},
                                  tenant : Tenants \cup {0}, value : U64]]
        /\ \A b \in Admins : admin'[b] = IF b = a THEN call ELSE admin[b]
        /\ clean' \in [Tenants -> BOOLEAN] /\ solo' \in BOOLEAN
    BY <1>1, AdminFacts DEF AllIdle
  <1>3. /\ \A b \in Admins :
             /\ admin'[b].at \in {"map", "provider", "lock"} => admin'[b].tenant \in Tenants
             /\ admin'[b].at = "lock" => admin'[b].value # 0
    BY <1>2 DEF ShardInv, CallsTold
  <1>4. CallsTold'
    <2>1. CASE AllIdle
      <3>1. \A b \in Admins : admin'[b].at # "idle" => b = a /\ admin'[b] = call
        BY <1>2, <2>1 DEF AllIdle
      <3>2. ASSUME NEW t \in Tenants, clean'[t], quantum'[t] # 0,
                   \A b \in Admins : ~Covers(b, t)'
            PROVE  quantum'[t] = AsI64(QuantumFor(t))'
        <4>1. ~(call.at = "all" \/ call.tenant = t)
          <5>1. ~Covers(a, t)'
            BY <3>2
          <5> QED
            BY <1>2, <5>1 DEF Covers
        <4>2. override'[t] = override[t] /\ provider' = provider
          BY <4>1
        <4>3. QuantumFor(t)' = QuantumFor(t)
          BY <4>2 DEF QuantumFor
        <4>4. \A b \in Admins : ~Covers(b, t)
          BY <2>1 DEF AllIdle, Covers
        <4>5. quantum[t] = AsI64(QuantumFor(t))
          BY <1>1, <2>1, <3>2, <4>4 DEF ShardInv, CallsTold
        <4> QED
          BY <1>1, <4>3, <4>5 DEF AsI64
      <3>3. solo'
        BY <1>1, <2>1
      <3> QED
        BY <1>3, <3>1, <3>2, <3>3 DEF CallsTold
    <2>2. CASE ~AllIdle
      <3>1. ~solo' /\ \A t \in Tenants : ~clean'[t]
        BY <1>1, <2>2
      <3> QED
        BY <1>3, <3>1 DEF CallsTold
    <2> QED
      BY <2>1, <2>2
  <1>5. \A t \in Tenants : tame'[t] => tame[t] /\ (quantum'[t] = 0 \/ InRange(t, quantum'[t]))
    BY <1>1, AdminFacts
  <1> QED
    BY <1>1, <1>2, <1>4, <1>5, AdminFacts, ShardFrame

\* A call reads on: what it read is in force if it runs alone.
LEMMA ReadKeeps ==
  ASSUME ShardInv, NEW a \in Admins,
         NEW call \in [at : {"provider", "lock"}, tenant : Tenants, value : U64],
         Goes(a, call), admin[a].at # "idle", admin[a].at # "all", call.tenant = admin[a].tenant,
         call.at = "lock" => call.value # 0,
         solo /\ call.at = "provider" => override[call.tenant] = 0,
         solo /\ call.at = "lock" => call.value = QuantumFor(call.tenant)
  PROVE  ShardInv'
  <1>1. /\ admin' = [admin EXCEPT ![a] = call]
        /\ UNCHANGED <<ringVars, workVars, quantum, tame, override, provider, calls, solo, clean>>
    BY DEF Goes
  <1>2. /\ admin' \in [Admins -> [at : {"idle", "map", "provider", "lock", "all"},
                                  tenant : Tenants \cup {0}, value : U64]]
        /\ \A b \in Admins : admin'[b] = IF b = a THEN call ELSE admin[b]
    BY <1>1, AdminFacts
  <1>3. \A t : QuantumFor(t)' = QuantumFor(t)
    BY <1>1 DEF QuantumFor
  <1>4. \A b \in Admins : \A t : Covers(b, t)' <=> Covers(b, t)
    BY <1>2 DEF Covers
  <1>5. \A b \in Admins :
          /\ admin'[b].at \in {"map", "provider", "lock"} => admin'[b].tenant \in Tenants
          /\ admin'[b].at = "lock" => admin'[b].value # 0
    BY <1>2 DEF ShardInv, CallsTold
  <1>6. \A b \in Admins : admin'[b].at # "idle" <=> admin[b].at # "idle"
    BY <1>2
  <1>7. solo => \A b \in Admins :
            /\ admin'[b].at = "provider" => override[admin'[b].tenant] = 0
            /\ admin'[b].at = "lock" => admin'[b].value = QuantumFor(admin'[b].tenant)
    BY <1>2 DEF ShardInv, CallsTold
  <1>8. CallsTold'
    <2>1. solo => \A b, c \in Admins : admin'[b].at # "idle" /\ admin'[c].at # "idle" => b = c
      BY <1>6 DEF ShardInv, CallsTold
    <2>2. \A t \in Tenants : clean[t] /\ quantum[t] # 0 /\ (\A b \in Admins : ~Covers(b, t)') =>
            quantum[t] = AsI64(QuantumFor(t)')
      BY <1>3, <1>4 DEF ShardInv, CallsTold
    <2>3. ~solo => \A t \in Tenants : ~clean[t]
      BY DEF ShardInv, CallsTold
    <2> QED
      BY <1>1, <1>3, <1>5, <1>7, <2>1, <2>2, <2>3 DEF CallsTold, AsI64
  <1>9. \A t \in Tenants : tame'[t] => tame[t] /\ (quantum'[t] = 0 \/ InRange(t, quantum'[t]))
    BY <1>1, AdminFacts
  <1> QED
    BY <1>1, <1>2, <1>8, <1>9, AdminFacts, ShardFrame

\* A call stores the quantum of the tenants it is for.
LEMMA StoreKeeps ==
  ASSUME ShardInv, NEW a \in Admins, NEW S \in SUBSET Tenants,
         NEW q \in [Tenants -> -MaxI64 - 1 .. MaxI64], SetQuanta(q), Done(a, S),
         admin[a].at # "idle", \A t \in Tenants : Covers(a, t) <=> t \in S,
         \A t \in Tenants : quantum[t] = 0 <=> q[t] = 0,
         \A t \in Tenants \ S : q[t] = quantum[t],
         solo => \A t \in S : q[t] = 0 \/ q[t] = AsI64(QuantumFor(t))
  PROVE  ShardInv'
  <1>1. /\ quantum' = q /\ SetQuanta(quantum')
        /\ admin' = [admin EXCEPT ![a] = Idle]
        /\ clean' = [t \in Tenants |-> IF t \in S THEN solo ELSE clean[t]]
        /\ UNCHANGED <<ringVars, workVars, override, provider, calls, solo>>
    BY DEF SetQuanta, Done
  <1>2. /\ tame' \in [Tenants -> BOOLEAN]
        /\ \A t \in Tenants : tame'[t] => tame[t] /\ (quantum'[t] = 0 \/ InRange(t, quantum'[t]))
        /\ \A i \in DOMAIN order : quantum'[order[i]] # 0
    BY <1>1, QuantaFrame
  <1>3. /\ admin' \in [Admins -> [at : {"idle", "map", "provider", "lock", "all"},
                                  tenant : Tenants \cup {0}, value : U64]]
        /\ \A b \in Admins : admin'[b] = IF b = a THEN Idle ELSE admin[b]
        /\ clean' \in [Tenants -> BOOLEAN]
        /\ \A t \in Tenants : clean'[t] = IF t \in S THEN solo ELSE clean[t]
    BY <1>1, AdminFacts DEF Idle
  <1>4. \A t : QuantumFor(t)' = QuantumFor(t)
    BY <1>1 DEF QuantumFor
  <1>5. \A b \in Admins : admin'[b].at # "idle" => b # a /\ admin'[b] = admin[b]
    BY <1>3 DEF Idle
  <1>6. CallsTold'
    <2>1. \A b \in Admins :
            /\ admin'[b].at \in {"map", "provider", "lock"} => admin'[b].tenant \in Tenants
            /\ admin'[b].at = "lock" => admin'[b].value # 0
      BY <1>5 DEF ShardInv, CallsTold
    <2>2. ~solo => \A t \in Tenants : ~clean'[t]
      BY <1>3 DEF ShardInv, CallsTold
    <2>3. solo => \A b \in Admins : admin'[b].at = "idle"
      BY <1>5 DEF ShardInv, CallsTold
    <2>4. ASSUME NEW t \in Tenants, clean'[t], quantum'[t] # 0
          PROVE  quantum'[t] = AsI64(QuantumFor(t))
      <3>1. solo
        BY <2>2, <2>4
      <3>2. CASE t \in S
        BY <1>1, <2>4, <3>1, <3>2
      <3>3. CASE t \notin S
        <4>1. \A b \in Admins : ~Covers(b, t)
          BY <3>1, <3>3 DEF ShardInv, CallsTold, Covers
        <4>2. clean[t] /\ quantum[t] # 0 /\ quantum'[t] = quantum[t]
          BY <1>1, <1>3, <2>4, <3>3
        <4> QED
          BY <4>1, <4>2 DEF ShardInv, CallsTold
      <3> QED
        BY <3>2, <3>3
    <2> QED
      BY <1>1, <1>4, <2>1, <2>2, <2>3, <2>4 DEF CallsTold, AsI64
  <1> QED
    BY <1>1, <1>2, <1>3, <1>6, AdminFacts, ShardFrame

LEMMA AdminKeeps ==
  ASSUME ShardInv, NEW a \in Admins,
         \/ ReadMap(a) \/ ReadProvider(a) \/ Refresh(a) \/ RefreshAll(a)
         \/ \E t \in Tenants : \E q \in {AtLeastOne(v) : v \in Quanta} \cup {0} :
              SetOverride(a, t, q)
         \/ \E q \in {AtLeastOne(v) : v \in Quanta} \cup {0} : SetProvider(a, q)
  PROVE  ShardInv'
  <1>1. /\ admin[a] \in [at : {"idle", "map", "provider", "lock", "all"},
                         tenant : Tenants \cup {0}, value : U64]
        /\ admin[a].at \in {"map", "provider", "lock"} => admin[a].tenant \in Tenants
        /\ admin[a].at = "lock" => admin[a].value # 0
        /\ solo /\ admin[a].at = "provider" => override[admin[a].tenant] = 0
        /\ solo /\ admin[a].at = "lock" => admin[a].value = QuantumFor(admin[a].tenant)
    BY AdminFacts DEF ShardInv, CallsTold
  <1>2. CASE ReadMap(a)
    <2>1. PICK t : t = admin[a].tenant
      OBVIOUS
    <2>2. PICK call : call = [at |-> IF override[t] # 0 THEN "lock" ELSE "provider",
                              tenant |-> t, value |-> override[t]]
      OBVIOUS
    <2>3. admin[a].at = "map" /\ t \in Tenants /\ override[t] \in U64
      BY <1>1, <1>2, <2>1, AdminFacts DEF ReadMap
    <2>4. Goes(a, call)
      <3>1. [admin[a] EXCEPT !.at = IF override[t] # 0 THEN "lock" ELSE "provider",
                             !.value = override[t]] = call
        <4>1. PICK x, w : admin[a] = [at |-> x, tenant |-> t, value |-> w]
          BY <1>1, <2>1
        <4>2. PICK y : y = IF override[t] # 0 THEN "lock" ELSE "provider"
          OBVIOUS
        <4>3. [admin[a] EXCEPT !.at = y] = [at |-> y, tenant |-> t, value |-> w]
          BY <4>1
        <4>4. [[at |-> y, tenant |-> t, value |-> w] EXCEPT !.value = override[t]]
                = [at |-> y, tenant |-> t, value |-> override[t]]
          OBVIOUS
        <4> QED
          BY <2>2, <4>2, <4>3, <4>4
      <3> QED
        BY <1>2, <2>1, <3>1 DEF ReadMap
    <2>5. override[t] # 0 => QuantumFor(t) = override[t]
      BY DEF QuantumFor
    <2>6. /\ call \in [at : {"provider", "lock"}, tenant : Tenants, value : U64]
          /\ call.tenant = t
          /\ call.at = "lock" => call.value # 0 /\ call.value = QuantumFor(t)
          /\ call.at = "provider" => override[t] = 0
      BY <2>2, <2>3, <2>5
    <2> QED
      BY <2>1, <2>3, <2>4, <2>6, ReadKeeps
  <1>3. CASE ReadProvider(a)
    <2>1. PICK t : t = admin[a].tenant
      OBVIOUS
    <2>2. PICK v : v = IF provider # 0 THEN provider ELSE AtLeastOne(BaseQuantum)
      OBVIOUS
    <2>3. PICK call : call = [at |-> "lock", tenant |-> t, value |-> v]
      OBVIOUS
    <2>4. admin[a].at = "provider" /\ t \in Tenants /\ v \in U64 \ {0}
      BY <1>1, <1>3, <2>1, <2>2, AdminFacts, Casts, ShardNumbersAssumption DEF ReadProvider
    <2>5. Goes(a, call)
      <3>1. [admin[a] EXCEPT !.at = "lock", !.value = v] = call
        <4>1. PICK x, w : admin[a] = [at |-> x, tenant |-> t, value |-> w]
          BY <1>1, <2>1
        <4>2. [admin[a] EXCEPT !.at = "lock"] = [at |-> "lock", tenant |-> t, value |-> w]
          BY <4>1
        <4>3. [[at |-> "lock", tenant |-> t, value |-> w] EXCEPT !.value = v]
                = [at |-> "lock", tenant |-> t, value |-> v]
          OBVIOUS
        <4> QED
          BY <2>3, <4>2, <4>3
      <3> QED
        BY <1>3, <2>2, <3>1 DEF ReadProvider
    <2>6. solo => QuantumFor(t) = v
      BY <1>1, <2>1, <2>2, <2>4 DEF QuantumFor
    <2>7. /\ call \in [at : {"provider", "lock"}, tenant : Tenants, value : U64]
          /\ call.tenant = t /\ call.at = "lock" /\ call.value = v
      BY <2>3, <2>4
    <2> QED
      BY <2>1, <2>4, <2>5, <2>6, <2>7, ReadKeeps
  <1>4. CASE Refresh(a)
    <2>1. PICK t : t = admin[a].tenant
      OBVIOUS
    <2>2. PICK q : q = Refreshed(t, admin[a].value)
      OBVIOUS
    <2>3. admin[a].at = "lock" /\ t \in Tenants /\ SetQuanta(q) /\ Done(a, {t})
      BY <1>1, <1>4, <2>1, <2>2 DEF Refresh
    <2>4. /\ AsI64(admin[a].value) \in -MaxI64 - 1 .. MaxI64 /\ AsI64(admin[a].value) # 0
          /\ quantum \in [Tenants -> -MaxI64 - 1 .. MaxI64]
      BY <1>1, <2>3, AdminFacts, Casts
    <2>5. /\ q \in [Tenants -> -MaxI64 - 1 .. MaxI64]
          /\ \A u \in Tenants : q[u] = IF u = t /\ quantum[t] # 0
                                       THEN AsI64(admin[a].value) ELSE quantum[u]
      BY <2>2, <2>3, <2>4 DEF Refreshed
    <2>6. \A u \in Tenants : Covers(a, u) <=> u \in {t}
      BY <2>1, <2>3 DEF Covers
    <2>7. solo => q[t] = 0 \/ q[t] = AsI64(QuantumFor(t))
      BY <1>1, <2>1, <2>3, <2>5
    <2>8. \A u \in Tenants : quantum[u] = 0 <=> q[u] = 0
      BY <2>4, <2>5
    <2>9. \A u \in Tenants \ {t} : q[u] = quantum[u]
      BY <2>5
    <2> QED
      BY <2>3, <2>5, <2>6, <2>7, <2>8, <2>9, StoreKeeps
  <1>5. CASE RefreshAll(a)
    <2>1. PICK q : q = [t \in Tenants |-> IF quantum[t] = 0 THEN 0 ELSE AsI64(QuantumFor(t))]
      OBVIOUS
    <2>2. admin[a].at = "all" /\ SetQuanta(q) /\ Done(a, Tenants)
      BY <1>5, <2>1 DEF RefreshAll
    <2>3. \A t \in Tenants : /\ AsI64(QuantumFor(t)) \in -MaxI64 - 1 .. MaxI64
                             /\ AsI64(QuantumFor(t)) # 0
      BY QuantumFits DEF ShardInv
    <2>4. /\ q \in [Tenants -> -MaxI64 - 1 .. MaxI64]
          /\ \A t \in Tenants : q[t] = IF quantum[t] = 0 THEN 0 ELSE AsI64(QuantumFor(t))
      BY <2>1, <2>3, Widths
    <2>5. \A t \in Tenants : Covers(a, t) <=> t \in Tenants
      BY <2>2 DEF Covers
    <2>6. \A t \in Tenants : quantum[t] = 0 <=> q[t] = 0
      BY <2>3, <2>4
    <2>7. \A t \in Tenants : q[t] = 0 \/ q[t] = AsI64(QuantumFor(t))
      BY <2>4
    <2> QED
      BY <2>2, <2>4, <2>5, <2>6, <2>7, StoreKeeps
  <1>6. ASSUME NEW t \in Tenants, NEW q \in {AtLeastOne(v) : v \in Quanta} \cup {0},
               SetOverride(a, t, q)
        PROVE  ShardInv'
    <2>1. PICK call : call = [at |-> "map", tenant |-> t, value |-> 0]
      OBVIOUS
    <2>2. /\ Start(a, call) /\ override' = [override EXCEPT ![t] = q] /\ provider' = provider
      BY <1>6, <2>1 DEF SetOverride
    <2>3. /\ call \in [at : {"map", "all"}, tenant : Tenants \cup {0}, value : U64]
          /\ call.tenant = t /\ call.at = "map"
      BY <2>1, AdminFacts
    <2>4. q \in U64 /\ override \in [Tenants -> U64] /\ provider' \in U64
      BY <2>2, AdminFacts
    <2>5. /\ override' \in [Tenants -> U64]
          /\ \A u \in Tenants : u # t => override'[u] = override[u]
      BY <2>2, <2>4
    <2> QED
      BY <2>2, <2>3, <2>4, <2>5, StartKeeps
  <1>7. ASSUME NEW q \in {AtLeastOne(v) : v \in Quanta} \cup {0}, SetProvider(a, q)
        PROVE  ShardInv'
    <2>1. PICK call : call = [at |-> "all", tenant |-> 0, value |-> 0]
      OBVIOUS
    <2>2. Start(a, call) /\ provider' = q /\ override' = override
      BY <1>7, <2>1 DEF SetProvider
    <2>3. call \in [at : {"map", "all"}, tenant : Tenants \cup {0}, value : U64] /\ call.at = "all"
      BY <2>1, AdminFacts
    <2>4. override' \in [Tenants -> U64] /\ provider' \in U64
      BY <2>2, AdminFacts
    <2> QED
      BY <2>2, <2>3, <2>4, StartKeeps
  <1> QED
    BY <1>2, <1>3, <1>4, <1>5, <1>6, <1>7

-----------------------------------------------------------------------------
LEMMA InitShard == ShardInit => ShardInv
  <1> SUFFICES ASSUME ShardInit PROVE ShardInv
    OBVIOUS
  <1>1. /\ ring = NewRing /\ order = <<>>
        /\ queue = [t \in Tenants |-> <<>>] /\ deficit = [t \in Tenants |-> 0]
        /\ left = 0 /\ credits = [t \in Tenants |-> 0]
        /\ quantum = [t \in Tenants |-> 0] /\ tame = [t \in Tenants |-> TRUE]
        /\ override = [t \in Tenants |-> 0] /\ provider = 0
        /\ admin = [a \in Admins |-> Idle] /\ solo = TRUE /\ clean = [t \in Tenants |-> TRUE]
    BY DEF ShardInit
  <1>2. 0 \in U64 /\ 0 \in -MaxI64 - 1 .. MaxI64
    BY Widths DEF U64
  <1>3. ring = [buf |-> <<>>, head |-> 0] /\ ring.buf = <<>> /\ ring.head = 0
    BY <1>1 DEF NewRing
  <1>4. ShardTypeInv
    <2>1. ring \in [buf : Seq(Tenants), head : Nat] /\ ring.head <= Len(ring.buf)
      BY <1>3
    <2>2. /\ order \in Seq(Tenants) /\ left <= Len(order)
          /\ queue \in [Tenants -> Seq(U64)]
      BY <1>1
    <2>3. admin \in [Admins -> [at : {"idle", "map", "provider", "lock", "all"},
                                tenant : Tenants \cup {0}, value : U64]]
      BY <1>1, <1>2 DEF Idle
    <2> QED
      BY <1>1, <1>2, <2>1, <2>2, <2>3 DEF ShardTypeInv
  <1>5. RingIsQueue
    <2>1. ring \in Rings /\ Contents(ring) \in Seq(Tenants) /\ Len(Contents(ring)) = 0
      <3>1. ring \in Rings /\ Len(ring.buf) - ring.head = 0
        BY <1>3, <1>4 DEF ShardTypeInv, Rings
      <3> QED
        BY <3>1, Items
    <2>2. Contents(ring) = order
      BY <1>1, <2>1
    <2> QED
      BY <1>3, <2>2, ShardNumbersAssumption DEF RingIsQueue
  <1>6. CreditsPaid
    BY <1>1, Dearest DEF CreditsPaid
  <1>7. CallsTold
    BY <1>1 DEF CallsTold, Idle
  <1> QED
    BY <1>4, <1>5, <1>6, <1>7 DEF ShardInv

\* Rings, balances and quanta of a shard fit together in every reachable state.
THEOREM ShardInvariant == ShardSpec => []ShardInv
  <1>1. ShardInit => ShardInv
    BY InitShard
  <1>2. ShardInv /\ [ShardNext]_shardVars => ShardInv'
    <2> SUFFICES ASSUME ShardInv, [ShardNext]_shardVars PROVE ShardInv'
      OBVIOUS
    <2>1. CASE UNCHANGED shardVars
      BY <2>1, SameShard
    <2>2. CASE \E t \in Tenants : \E c \in CostsOf[t] : Enqueue(t, c)
      BY <2>2, EnqueueKeeps
    <2>3. CASE StartPass
      BY <2>3, StartPassKeeps
    <2>4. CASE \E t \in Tenants : \E n \in 0 .. Len(queue[t]) : Visit(t, n)
      BY <2>4, VisitKeeps
    <2>5. ASSUME NEW a \in Admins,
                 \/ ReadMap(a) \/ ReadProvider(a) \/ Refresh(a) \/ RefreshAll(a)
                 \/ \E t \in Tenants : \E q \in {AtLeastOne(v) : v \in Quanta} \cup {0} :
                      SetOverride(a, t, q)
                 \/ \E q \in {AtLeastOne(v) : v \in Quanta} \cup {0} : SetProvider(a, q)
          PROVE  ShardInv'
      BY <2>5, AdminKeeps
    <2> QED
      BY <2>1, <2>2, <2>3, <2>4, <2>5 DEF ShardNext
  <1> QED
    BY <1>1, <1>2, PTL DEF ShardSpec

\* Every variable of a shard has its type: a wrapped deficit and a quantum cast
\* from a u64 still fit an i64 (ShardTypeInv).
THEOREM ShardTypeCorrect == ShardSpec => []ShardTypeInv
  BY ShardInvariant, PTL DEF ShardInv

\* ActiveRing is a queue through pushes, pops and compactions (RingIsQueue).
THEOREM RingAlwaysQueue == ShardSpec => []RingIsQueue
  BY ShardInvariant, PTL DEF ShardInv

\* While its quanta stay in range a tenant's deficit never wraps and it is served
\* after at most as many credits as its dearest task costs (ServedInTime).
THEOREM AlwaysServedInTime == ShardSpec => []ServedInTime
  <1>1. ShardInv => ServedInTime
    <2> SUFFICES ASSUME ShardInv, NEW t \in Tenants, tame[t]
                 PROVE  deficit[t] >= 0 /\ credits[t] <= Largest(t)
      BY DEF ServedInTime
    <2>1. credits[t] <= deficit[t] /\ credits[t] <= Largest(t)
      BY Zenon DEF ShardInv, CreditsPaid
    <2>2. credits[t] \in Nat /\ deficit[t] \in Int
      BY Widths DEF ShardInv, ShardTypeInv
    <2> QED
      BY <2>1, <2>2
  <1> QED
    BY <1>1, ShardInvariant, PTL

\* A configuring call that ran alone takes effect (QuantumInForce).
THEOREM QuantumTakesEffect == ShardSpec => []QuantumInForce
  <1>1. ShardInv => QuantumInForce
    <2> SUFFICES ASSUME ShardInv, AllIdle, NEW t \in Tenants, clean[t], quantum[t] # 0
                 PROVE  quantum[t] = AsI64(QuantumFor(t))
      BY DEF QuantumInForce
    <2>1. \A a \in Admins : ~Covers(a, t)
      BY DEF AllIdle, Covers
    <2> QED
      BY <2>1 DEF ShardInv, CallsTold
  <1> QED
    BY <1>1, ShardInvariant, PTL

-----------------------------------------------------------------------------
(* The summary of tenants.  Its least count never falls, because counts only *)
(* grow and a newcomer takes the place of the least entry with one more than *)
(* it; so the least count bounds what was ever forgotten of a tenant.        *)

LEMMA Saturates ==
  ASSUME NEW a \in Nat, NEW d \in Nat
  PROVE  /\ MaxU64 \in Nat \ {0} /\ SaturatingAdd(a, d) \in 0 .. MaxU64
         /\ SaturatingAdd(a, d) <= a + d
         /\ a <= MaxU64 => a <= SaturatingAdd(a, d)
         /\ a <= MaxU64 => \A s \in Nat : Least(s) <= a => Least(s + d) <= SaturatingAdd(a, d)
  BY TopTenantsAssumption DEF SaturatingAdd, Least

LEMMA EntryFacts ==
  ASSUME NEW e \in Entries
  PROVE  /\ Len(e) \in Nat /\ DOMAIN e = 1 .. Len(e) /\ Capacity \in Nat /\ MaxU64 \in Nat
         /\ \A i \in DOMAIN e : /\ e[i] = [tenant |-> e[i].tenant, count |-> e[i].count]
                                /\ e[i].tenant \in Keys /\ e[i].count \in Nat
                                /\ e[i].count \in 0 .. MaxU64
         /\ Counts(e) \subseteq Nat
  <1>1. Capacity \in Nat /\ MaxU64 \in Nat
    BY TopTenantsAssumption
  <1>2. e \in Seq([tenant : Keys, count : 0 .. MaxU64])
    BY DEF Entries
  <1>3. Len(e) \in Nat /\ DOMAIN e = 1 .. Len(e)
    BY <1>2
  <1>4. \A i \in DOMAIN e : e[i] \in [tenant : Keys, count : 0 .. MaxU64]
    BY <1>2, <1>3, ElementOfSeq, Zenon
  <1>5. \A i \in DOMAIN e : /\ e[i] = [tenant |-> e[i].tenant, count |-> e[i].count]
                            /\ e[i].tenant \in Keys /\ e[i].count \in 0 .. MaxU64
    BY <1>4
  <1>6. \A i \in DOMAIN e : e[i].count \in Nat
    BY <1>1, <1>5
  <1>7. Counts(e) \subseteq Nat
    BY <1>6 DEF Counts
  <1> QED
    BY <1>1, <1>3, <1>5, <1>6, <1>7

LEMMA FloorFacts ==
  ASSUME NEW e \in Entries, Capacity > 0
  PROVE  /\ Floor(e) \in Nat /\ Floor(e) <= MaxU64
         /\ Len(e) < Capacity => Floor(e) = 0
         /\ Len(e) >= Capacity => /\ \E i \in DOMAIN e : Floor(e) = e[i].count
                                  /\ \A i \in DOMAIN e : Floor(e) <= e[i].count
  <1>1. CASE Len(e) < Capacity
    BY <1>1, EntryFacts DEF Floor
  <1>2. CASE Len(e) >= Capacity
    <2>1. Counts(e) # {}
      <3>1. 1 \in DOMAIN e
        BY <1>2, EntryFacts
      <3> QED
        BY <3>1 DEF Counts
    <2>2. \E n \in Counts(e) : \A x \in Counts(e) : n <= x
      BY <2>1, EntryFacts, LeastElement, Zenon
    <2>3. Floor(e) = CHOOSE n \in Counts(e) : \A x \in Counts(e) : n <= x
      BY <1>2, EntryFacts DEF Floor
    <2>4. Floor(e) \in Counts(e) /\ \A x \in Counts(e) : Floor(e) <= x
      BY <2>2, <2>3, Zenon
    <2> QED
      BY <1>2, <2>4, EntryFacts DEF Counts
  <1> QED
    BY <1>1, <1>2, EntryFacts

LEMMA FloorGrows ==
  ASSUME NEW e \in Entries, NEW f \in Entries, Capacity > 0,
         Len(e) <= Len(f), Len(f) <= Capacity,
         \A i \in DOMAIN e : e[i].count <= f[i].count
  PROVE  Floor(e) <= Floor(f)
  <1>1. CASE Len(e) < Capacity
    BY <1>1, FloorFacts
  <1>2. CASE Len(e) >= Capacity
    <2>1. Len(e) = Capacity /\ Len(f) = Capacity /\ DOMAIN e = DOMAIN f
      BY <1>2, EntryFacts
    <2>2. PICK i \in DOMAIN f : Floor(f) = f[i].count
      BY <2>1, FloorFacts, EntryFacts
    <2>3. Floor(e) <= e[i].count /\ e[i].count <= f[i].count
      BY <1>2, <2>1, <2>2, FloorFacts
    <2> QED
      BY <2>1, <2>2, <2>3, EntryFacts, FloorFacts
  <1> QED
    BY <1>1, <1>2, EntryFacts

\* The entry a newcomer replaces has the least count.
LEMMA Cheapest ==
  ASSUME NEW e \in Entries, Capacity > 0, Len(e) >= Capacity
  PROVE  MinIndex(e) \in DOMAIN e /\ e[MinIndex(e)].count = Floor(e)
  <1> DEFINE Low == {i \in DOMAIN e : e[i].count = Floor(e)}
             IsFirst(i) == \A j \in DOMAIN e :
               e[i].count < e[j].count \/ (e[i].count = e[j].count /\ i <= j)
  <1>1. Low \in SUBSET Nat /\ Low # {}
    BY EntryFacts, FloorFacts
  <1>2. PICK i \in Low : \A j \in Low : i <= j
    BY <1>1, LeastElement, Zenon
  <1>3. IsFirst(i) /\ i \in DOMAIN e
    <2> SUFFICES ASSUME NEW j \in DOMAIN e
                 PROVE  e[i].count < e[j].count \/ (e[i].count = e[j].count /\ i <= j)
      BY <1>2
    <2>1. e[i].count = Floor(e) /\ Floor(e) <= e[j].count /\ e[j].count \in Nat /\ Floor(e) \in Nat
      BY <1>2, EntryFacts, FloorFacts
    <2>2. CASE e[j].count = Floor(e)
      BY <1>2, <2>1, <2>2
    <2> QED
      BY <2>1, <2>2
  <1>4. MinIndex(e) = CHOOSE x \in DOMAIN e : IsFirst(x)
    BY DEF MinIndex
  <1> HIDE DEF IsFirst
  <1>5. MinIndex(e) \in DOMAIN e /\ IsFirst(MinIndex(e))
    BY <1>3, <1>4, Zenon
  <1>6. \A j \in DOMAIN e : e[MinIndex(e)].count <= e[j].count
    BY <1>5, EntryFacts DEF IsFirst
  <1> QED
    BY <1>2, <1>5, <1>6, EntryFacts, FloorFacts

\* What Record does to a summary e and the deliveries s of a tenant k.
Summary(e, s) ==
  /\ e \in Entries /\ Distinct(e) /\ s \in [Keys -> Nat]
  /\ Capacity > 0 => Len(e) <= Capacity /\ Bounded(e, s)
More(s, k) == [s EXCEPT ![k] = @ + 1]

LEMMA MoreServed ==
  ASSUME NEW s \in [Keys -> Nat], NEW k \in Keys
  PROVE  /\ More(s, k) \in [Keys -> Nat] /\ More(s, k)[k] = s[k] + 1
         /\ \A x \in Keys \ {k} : More(s, k)[x] = s[x]
  BY DEF More

LEMMA BoundedFacts ==
  ASSUME NEW e, NEW s, Summary(e, s), Capacity > 0
  PROVE  /\ e \in Entries /\ s \in [Keys -> Nat] /\ Len(e) <= Capacity
         /\ Floor(e) \in Nat /\ Floor(e) <= MaxU64
         /\ \A i, j \in DOMAIN e : e[i].tenant = e[j].tenant => i = j
         /\ \A i \in DOMAIN e : /\ Least(s[e[i].tenant]) <= e[i].count
                                /\ e[i].count <= s[e[i].tenant] + Floor(e)
         /\ \A x \in Keys \ Listed(e) : Least(s[x]) <= Floor(e)
  <1>1. e \in Entries /\ Bounded(e, s)
    BY DEF Summary
  <1>2. Floor(e) \in Nat /\ Floor(e) <= MaxU64
    BY <1>1, FloorFacts
  <1> QED
    BY <1>1, <1>2 DEF Summary, Distinct, Bounded

\* The list f is e with the entry of k, of count n, at p.
Placed(f, e, p, k, n) ==
  /\ f \in Entries /\ Len(f) <= Capacity /\ Len(e) <= Len(f)
  /\ p \in Nat /\ n \in 0 .. MaxU64 /\ p \in DOMAIN f /\ f[p] = [tenant |-> k, count |-> n]
  /\ \A i \in DOMAIN f : i # p => i \in DOMAIN e /\ f[i] = e[i] /\ e[i].tenant # k

\* One place of the list changes or is added, and its count covers the deliveries.
LEMMA PlaceKeeps ==
  ASSUME NEW e, NEW s, Summary(e, s), Capacity > 0, NEW k \in Keys,
         NEW f, NEW p, NEW n, Placed(f, e, p, k, n),
         p \in DOMAIN e => e[p].count <= n,
         p \in DOMAIN e => e[p].tenant = k \/ Least(s[e[p].tenant]) <= Floor(f),
         Least(s[k] + 1) <= n, n <= s[k] + 1 + Floor(f)
  PROVE  Summary(f, More(s, k))
  <1> DEFINE z == More(s, k)
  <1>0. /\ f \in Entries /\ Len(f) <= Capacity /\ Len(e) <= Len(f)
        /\ p \in Nat /\ n \in 0 .. MaxU64 /\ p \in DOMAIN f /\ f[p] = [tenant |-> k, count |-> n]
        /\ \A i \in DOMAIN f : i # p => i \in DOMAIN e /\ f[i] = e[i] /\ e[i].tenant # k
    BY DEF Placed
  <1> USE <1>0
  <1>1. /\ z \in [Keys -> Nat] /\ z[k] = s[k] + 1
        /\ \A x \in Keys \ {k} : z[x] = s[x]
    <2>1. s \in [Keys -> Nat]
      BY DEF Summary
    <2> QED
      BY <2>1, MoreServed, Zenon
  <1> HIDE DEF z
  <1>2. f[p].tenant = k /\ f[p].count = n /\ n \in Nat
    BY EntryFacts
  <1>3. Floor(e) <= Floor(f)
    <2>1. \A i \in DOMAIN e : e[i].count <= f[i].count
      <3> SUFFICES ASSUME NEW i \in DOMAIN e PROVE e[i].count <= f[i].count
        OBVIOUS
      <3>1. i \in DOMAIN f /\ e[i].count \in Nat
        BY EntryFacts, BoundedFacts
      <3>2. CASE i = p
        BY <1>2, <3>2
      <3>3. CASE i # p
        BY <3>1, <3>3
      <3> QED
        BY <3>2, <3>3
    <2> QED
      BY <2>1, FloorGrows, BoundedFacts
  <1>4. Floor(e) \in Nat /\ Floor(f) \in Nat
    BY FloorFacts, BoundedFacts
  <1>5. Distinct(f)
    BY <1>2, BoundedFacts DEF Distinct
  <1>6. \A i \in DOMAIN f : /\ Least(z[f[i].tenant]) <= f[i].count
                            /\ f[i].count <= z[f[i].tenant] + Floor(f)
    <2> SUFFICES ASSUME NEW i \in DOMAIN f
                 PROVE  /\ Least(z[f[i].tenant]) <= f[i].count
                        /\ f[i].count <= z[f[i].tenant] + Floor(f)
      OBVIOUS
    <2>1. CASE i = p
      BY <1>1, <1>2, <2>1
    <2>2. CASE i # p
      <3>1. i \in DOMAIN e /\ f[i] = e[i] /\ e[i].tenant # k /\ e[i].tenant \in Keys
        BY <2>2, EntryFacts, BoundedFacts
      <3>2. z[f[i].tenant] = s[e[i].tenant] /\ s[e[i].tenant] \in Nat
        BY <1>1, <3>1, BoundedFacts
      <3>3. Least(s[e[i].tenant]) <= e[i].count /\ e[i].count <= s[e[i].tenant] + Floor(e)
        BY <3>1, BoundedFacts
      <3>4. e[i].count \in Nat
        BY <3>1, EntryFacts, BoundedFacts
      <3> QED
        BY <1>3, <1>4, <3>1, <3>2, <3>3, <3>4
    <2> QED
      BY <2>1, <2>2
  <1>7. \A x \in Keys \ Listed(f) : Least(z[x]) <= Floor(f)
    <2> SUFFICES ASSUME NEW x \in Keys, x \notin Listed(f) PROVE Least(z[x]) <= Floor(f)
      OBVIOUS
    <2>1. \A i \in DOMAIN f : f[i].tenant # x
      BY DEF Listed
    <2>2. x # k /\ z[x] = s[x] /\ s[x] \in Nat
      BY <1>1, <1>2, <2>1, BoundedFacts
    <2>3. CASE \E i \in DOMAIN e : e[i].tenant = x
      <3>1. PICK i \in DOMAIN e : e[i].tenant = x
        BY <2>3
      <3>2. i \in DOMAIN f
        BY EntryFacts, BoundedFacts
      <3>3. i = p
        BY <2>1, <3>1, <3>2
      <3> QED
        BY <2>2, <3>1, <3>3
    <2>4. CASE \A i \in DOMAIN e : e[i].tenant # x
      <3>1. Least(s[x]) <= Floor(e)
        BY <2>4, BoundedFacts DEF Listed
      <3>2. Least(s[x]) \in Nat
        BY <2>2, EntryFacts, BoundedFacts DEF Least
      <3> QED
        BY <1>3, <1>4, <2>2, <3>1, <3>2
    <2> QED
      BY <2>3, <2>4
  <1> QED
    BY <1>1, <1>5, <1>6, <1>7 DEF Summary, Bounded, z

\* The four ways of Recorded: no summary kept, a listed tenant, room left, and a
\* newcomer in the place of the least entry.
LEMMA ListedKeeps ==
  ASSUME NEW e, NEW s, Summary(e, s), Capacity > 0, NEW p \in DOMAIN e
  PROVE  Summary(Recorded(e, e[p].tenant), More(s, e[p].tenant))
  <1> DEFINE k == e[p].tenant
             n == SaturatingAdd(e[p].count, 1)
             f == [i \in DOMAIN e |-> IF i = p THEN [tenant |-> k, count |-> n] ELSE e[i]]
  <1>1. /\ e \in Entries /\ s \in [Keys -> Nat] /\ k \in Keys /\ p \in Nat
        /\ e[p].count \in 0 .. MaxU64 /\ e[p].count \in Nat /\ s[k] \in Nat
    BY BoundedFacts, EntryFacts
  <1>2. Recorded(e, k) = f
    <2>1. Recorded(e, k) = [i \in DOMAIN e |-> IF e[i].tenant = k
                              THEN [e[i] EXCEPT !.count = SaturatingAdd(@, 1)] ELSE e[i]]
      BY DEF Recorded
    <2>2. \A i \in DOMAIN e : e[i].tenant = k <=> i = p
      BY BoundedFacts
    <2>3. [e[p] EXCEPT !.count = SaturatingAdd(@, 1)] = [tenant |-> k, count |-> n]
      <3>1. e[p] = [tenant |-> e[p].tenant, count |-> e[p].count]
        BY <1>1, EntryFacts
      <3> QED
        BY <3>1
    <2> QED
      BY <2>1, <2>2, <2>3
  <1>3. /\ n \in 0 .. MaxU64 /\ n \in Nat /\ n <= e[p].count + 1 /\ e[p].count <= n
        /\ \A x \in Nat : Least(x) <= e[p].count => Least(x + 1) <= n
    BY <1>1, TopTenantsAssumption DEF SaturatingAdd, Least
  <1>4. /\ DOMAIN f = DOMAIN e /\ f \in Entries /\ Len(f) = Len(e)
        /\ f[p] = [tenant |-> k, count |-> n] /\ \A i \in DOMAIN f : i # p => f[i] = e[i]
    <2>1. /\ DOMAIN f = DOMAIN e /\ f[p] = [tenant |-> k, count |-> n]
          /\ \A i \in DOMAIN f : i # p => f[i] = e[i]
      OBVIOUS
    <2>2. \A i \in DOMAIN f : f[i] \in [tenant : Keys, count : 0 .. MaxU64]
      <3>1. \A i \in DOMAIN e : e[i] \in [tenant : Keys, count : 0 .. MaxU64]
        BY <1>1, EntryFacts
      <3>2. [tenant |-> k, count |-> n] \in [tenant : Keys, count : 0 .. MaxU64]
        BY <1>1, <1>3
      <3> QED
        BY <2>1, <3>1, <3>2, Zenon
    <2>3. DOMAIN f = 1 .. Len(e) /\ Len(e) \in Nat
      BY <1>1, EntryFacts
    <2> HIDE DEF f
    <2> DEFINE T == [tenant : Keys, count : 0 .. MaxU64]
    <2>4. f \in [1 .. Len(e) -> T]
      <3>1. f = [i \in DOMAIN f |-> f[i]]
        BY DEF f
      <3> QED
        BY <2>2, <2>3, <3>1
    <2> HIDE DEF T
    <2>5. f \in Seq(T) /\ Len(f) = Len(e)
      BY <2>3, <2>4
    <2> QED
      BY <2>1, <2>5 DEF Entries, T
  <1> HIDE DEF f, n
  <1>5. Least(s[k] + 1) <= n /\ n <= s[k] + 1 + Floor(f)
    <2>1. Least(s[k]) <= e[p].count /\ e[p].count <= s[k] + Floor(e)
      BY BoundedFacts
    <2>2. Least(s[k] + 1) <= n
      BY <1>1, <1>3, <2>1
    <2>3. Floor(e) <= Floor(f)
      <3>1. \A i \in DOMAIN e : e[i].count <= f[i].count
        <4> SUFFICES ASSUME NEW i \in DOMAIN e PROVE e[i].count <= f[i].count
          OBVIOUS
        <4>1. e[i].count \in Nat /\ (i # p => f[i] = e[i])
          BY <1>1, <1>4, EntryFacts
        <4>2. CASE i = p
          BY <1>3, <1>4, <4>2
        <4> QED
          BY <4>1, <4>2
      <3>2. Len(f) <= Capacity /\ Len(e) <= Len(f)
        BY <1>1, <1>4, BoundedFacts, EntryFacts
      <3> QED
        BY <1>1, <1>4, <3>1, <3>2, FloorGrows
    <2>4. Floor(e) \in Nat /\ Floor(f) \in Nat
      BY <1>1, <1>4, FloorFacts
    <2> QED
      BY <1>1, <1>3, <2>1, <2>2, <2>3, <2>4
  <1>6. Len(f) <= Capacity /\ Len(e) <= Len(f)
    BY <1>1, <1>4, BoundedFacts, EntryFacts
  <1>7. \A i \in DOMAIN f : i # p => i \in DOMAIN e /\ f[i] = e[i] /\ e[i].tenant # k
    BY <1>4, BoundedFacts
  <1>8. Placed(f, e, p, k, n)
    BY <1>1, <1>3, <1>4, <1>6, <1>7 DEF Placed
  <1>9. k \in Keys /\ e[p].count <= n
    BY <1>1, <1>3
  <1>10. Summary(f, More(s, k))
    <2> HIDE DEF k
    <2> QED
      BY <1>5, <1>8, <1>9, PlaceKeeps DEF k
  <1> QED
    BY <1>2, <1>10

LEMMA AppendKeeps ==
  ASSUME NEW e, NEW s, Summary(e, s), Capacity > 0, NEW k \in Keys,
         k \notin Listed(e), Len(e) < Capacity
  PROVE  Summary(Recorded(e, k), More(s, k))
  <1> DEFINE r == [tenant |-> k, count |-> 1]
             f == Append(e, r)
             p == Len(e) + 1
  <1>1. e \in Entries /\ s \in [Keys -> Nat] /\ Len(e) \in Nat /\ Capacity \in Nat /\ MaxU64 \in Nat
    BY BoundedFacts, EntryFacts
  <1>2. \A i \in DOMAIN e : e[i].tenant # k
    BY DEF Listed
  <1>3. Recorded(e, k) = f
    BY <1>2 DEF Recorded
  <1>4. r \in [tenant : Keys, count : 0 .. MaxU64] /\ 1 \in 0 .. MaxU64
    BY TopTenantsAssumption
  <1>5. /\ f \in Entries /\ Len(f) = p /\ DOMAIN f = 1 .. p /\ f[p] = r
        /\ \A i \in 1 .. Len(e) : f[i] = e[i]
    <2> DEFINE T == [tenant : Keys, count : 0 .. MaxU64]
    <2>1. e \in Seq(T) /\ r \in T
      BY <1>1, <1>4 DEF Entries
    <2> HIDE DEF T, r
    <2>2. /\ f \in Seq(T) /\ Len(f) = p /\ DOMAIN f = 1 .. p /\ f[p] = r
          /\ \A i \in 1 .. Len(e) : f[i] = e[i]
      BY <1>1, <2>1
    <2> QED
      BY <2>2 DEF Entries, T
  <1> HIDE DEF f
  <1>6. s[k] \in Nat /\ s[k] = 0
    <2>1. Floor(e) = 0
      BY <1>1, FloorFacts
    <2>2. Least(s[k]) <= 0
      BY <2>1, BoundedFacts
    <2> QED
      BY <1>1, <2>2, TopTenantsAssumption DEF Least
  <1>7. Floor(f) \in Nat
    BY <1>5, FloorFacts
  <1>8. Least(s[k] + 1) <= 1 /\ 1 <= s[k] + 1 + Floor(f)
    BY <1>1, <1>6, <1>7, TopTenantsAssumption DEF Least
  <1>9. /\ Len(f) <= Capacity /\ Len(e) <= Len(f) /\ p \in Nat /\ p \in DOMAIN f /\ p \notin DOMAIN e
        /\ \A i \in DOMAIN f : i # p => i \in DOMAIN e /\ f[i] = e[i] /\ e[i].tenant # k
    <2>1. DOMAIN e = 1 .. Len(e)
      BY <1>1, EntryFacts
    <2> QED
      BY <1>1, <1>2, <1>5, <2>1
  <1> HIDE DEF p
  <1>10. f[p] = [tenant |-> k, count |-> 1]
    BY <1>5
  <1>11. Placed(f, e, p, k, 1)
    BY <1>4, <1>5, <1>9, <1>10 DEF Placed
  <1>12. Summary(f, More(s, k))
    BY <1>8, <1>9, <1>11, PlaceKeeps
  <1> QED
    BY <1>3, <1>12

LEMMA ReplaceKeeps ==
  ASSUME NEW e, NEW s, Summary(e, s), Capacity > 0, NEW k \in Keys,
         k \notin Listed(e), Len(e) >= Capacity
  PROVE  Summary(Recorded(e, k), More(s, k))
  <1> DEFINE p == MinIndex(e)
             c == e[p].count
             n == Inherited(e)
             r == [tenant |-> k, count |-> n]
             f == [e EXCEPT ![p] = r]
  <1>1. /\ e \in Entries /\ s \in [Keys -> Nat] /\ Len(e) \in Nat /\ Capacity \in Nat
        /\ MaxU64 \in Nat /\ Len(e) = Capacity /\ DOMAIN e = 1 .. Len(e)
    BY BoundedFacts, EntryFacts
  <1>2. \A i \in DOMAIN e : e[i].tenant # k
    BY DEF Listed
  <1>3. Recorded(e, k) = f
    BY <1>1, <1>2 DEF Recorded
  <1>4. p \in DOMAIN e /\ c = Floor(e) /\ p \in Nat /\ c \in Nat /\ c <= MaxU64 /\ c \in 0 .. MaxU64
    <2>1. p \in DOMAIN e /\ c = Floor(e)
      BY <1>1, Cheapest
    <2> QED
      BY <1>1, <2>1, FloorFacts
  <1> HIDE DEF p
  <1>5. /\ n \in 0 .. MaxU64 /\ n \in Nat /\ n <= c + 1 /\ c <= n
        /\ \A x \in Nat : Least(x) <= c => Least(x + 1) <= n
    <2>1. n = SaturatingAdd(c, 1)
      BY DEF Inherited, p
    <2> HIDE DEF c, n
    <2> QED
      BY <1>4, <2>1, TopTenantsAssumption DEF SaturatingAdd, Least
  <1> HIDE DEF n, c
  <1>6. /\ f \in Entries /\ Len(f) = Len(e) /\ DOMAIN f = DOMAIN e /\ f[p] = r
        /\ \A i \in DOMAIN e : i # p => f[i] = e[i]
    <2> DEFINE T == [tenant : Keys, count : 0 .. MaxU64]
    <2>1. e \in Seq(T) /\ r \in T
      BY <1>1, <1>5 DEF Entries
    <2> HIDE DEF T, r
    <2>2. /\ f \in Seq(T) /\ Len(f) = Len(e) /\ DOMAIN f = DOMAIN e /\ f[p] = r
          /\ \A i \in DOMAIN e : i # p => f[i] = e[i]
      BY <1>1, <1>4, <2>1
    <2> QED
      BY <2>2 DEF Entries, T
  <1> HIDE DEF f
  <1>7. Floor(e) <= Floor(f) /\ Floor(e) \in Nat /\ Floor(f) \in Nat
    <2>1. \A i \in DOMAIN e : e[i].count <= f[i].count
      <3> SUFFICES ASSUME NEW i \in DOMAIN e PROVE e[i].count <= f[i].count
        OBVIOUS
      <3>1. e[i].count \in Nat /\ (i # p => f[i] = e[i])
        BY <1>1, <1>6, EntryFacts
      <3>2. CASE i = p
        BY <1>5, <1>6, <3>2 DEF c
      <3> QED
        BY <3>1, <3>2
    <2>2. Len(f) <= Capacity /\ Len(e) <= Len(f)
      BY <1>1, <1>6
    <2> QED
      BY <1>1, <1>6, <2>1, <2>2, FloorGrows, FloorFacts
  <1>8. s[k] \in Nat /\ Least(s[k] + 1) <= n /\ n <= s[k] + 1 + Floor(f)
    <2>1. s[k] \in Nat /\ Least(s[k]) <= c
      BY <1>1, <1>4, BoundedFacts
    <2>2. Least(s[k] + 1) <= n
      BY <1>5, <2>1
    <2> QED
      BY <1>1, <1>4, <1>5, <1>7, <2>1, <2>2
  <1>9. Least(s[e[p].tenant]) <= Floor(f)
    <2>1. Least(s[e[p].tenant]) <= c /\ s[e[p].tenant] \in Nat
      BY <1>1, <1>4, BoundedFacts, EntryFacts DEF c
    <2>2. Least(s[e[p].tenant]) \in Nat
      BY <1>1, <2>1 DEF Least
    <2> QED
      BY <1>4, <1>7, <2>1, <2>2
  <1>10. /\ Len(f) <= Capacity /\ Len(e) <= Len(f) /\ p \in DOMAIN f /\ e[p].count <= n
         /\ \A i \in DOMAIN f : i # p => i \in DOMAIN e /\ f[i] = e[i] /\ e[i].tenant # k
    BY <1>1, <1>2, <1>4, <1>5, <1>6 DEF c
  <1>11. f[p] = [tenant |-> k, count |-> n]
    BY <1>6
  <1>12. Placed(f, e, p, k, n)
    BY <1>4, <1>5, <1>6, <1>10, <1>11 DEF Placed
  <1>13. Summary(f, More(s, k))
    BY <1>8, <1>9, <1>10, <1>12, PlaceKeeps
  <1> QED
    BY <1>3, <1>13

LEMMA RecordKeeps ==
  ASSUME SummaryFits, NEW k \in Keys, Record(k)
  PROVE  SummaryFits'
  <1>1. Summary(top, served) /\ top' = Recorded(top, k) /\ served' = More(served, k)
    BY DEF SummaryFits, Summary, Record, More
  <1>2. Summary(Recorded(top, k), More(served, k))
    <2>1. CASE Capacity = 0
      <3>1. Recorded(top, k) = top
        BY <2>1 DEF Recorded
      <3>2. More(served, k) \in [Keys -> Nat]
        BY <1>1, MoreServed DEF Summary
      <3> QED
        BY <1>1, <2>1, <3>1, <3>2 DEF Summary
    <2>2. CASE Capacity > 0 /\ k \in Listed(top)
      <3>1. PICK p \in DOMAIN top : top[p].tenant = k
        BY <2>2 DEF Listed
      <3> QED
        BY <1>1, <2>2, <3>1, ListedKeeps
    <2>3. CASE Capacity > 0 /\ k \notin Listed(top) /\ Len(top) < Capacity
      BY <1>1, <2>3, AppendKeeps
    <2>4. CASE Capacity > 0 /\ k \notin Listed(top) /\ Len(top) >= Capacity
      BY <1>1, <2>4, ReplaceKeeps
    <2>5. Capacity \in Nat /\ Len(top) \in Nat
      BY <1>1, EntryFacts DEF Summary
    <2> QED
      BY <2>1, <2>2, <2>3, <2>4, <2>5
  <1>3. Summary(top', served')
    BY <1>1, <1>2
  <1> QED
    BY <1>3 DEF SummaryFits, Summary

-----------------------------------------------------------------------------
(* The counters and the order in which stats() loads them. *)

LEMMA LoadFacts ==
  /\ Len(Bounds) \in Nat \ {0} /\ DOMAIN Bounds = 1 .. Len(Bounds)
  /\ DOMAIN LoadOrder = 1 .. Len(Bounds) + 11 /\ Len(LoadOrder) = Len(Bounds) + 11
  /\ \A i \in 1 .. Len(Bounds) : LoadOrder[i] = Bucket(i) /\ Bucket(i) # Top
  /\ LoadOrder[Len(Bounds) + 1] = Top
  /\ \A i \in 1 .. 10 : LoadOrder[Len(Bounds) + 1 + i] = Counter(Plain[i])
  /\ \A i \in 1 .. 10 : Counter(Plain[i]) # Top
  <1>1. Len(Bounds) \in Nat \ {0} /\ DOMAIN Bounds = 1 .. Len(Bounds)
    BY MetricsAssumption
  <1>2. /\ Buckets = [i \in 1 .. Len(Bounds) |-> Bucket(i)]
        /\ Plains = [i \in 1 .. 10 |-> Counter(Plain[i])]
    BY <1>1 DEF Buckets, Plains, Plain
  <1> DEFINE S == {Bucket(i) : i \in 1 .. Len(Bounds)} \cup {Counter(Plain[i]) : i \in 1 .. 10} \cup {Top}
  <1>3. Buckets \in Seq(S) /\ Plains \in Seq(S) /\ <<Top>> \in Seq(S)
    BY <1>1, <1>2
  <1>4. Len(Buckets) = Len(Bounds) /\ Len(Plains) = 10 /\ Len(<<Top>>) = 1
    BY <1>1, <1>2
  <1> HIDE DEF S
  <1> DEFINE H == Buckets \o <<Top>>
  <1>5. /\ H \in Seq(S) /\ Len(H) = Len(Bounds) + 1 /\ H[Len(Bounds) + 1] = Top
        /\ \A i \in 1 .. Len(Bounds) : H[i] = Buckets[i]
    <2>1. /\ H \in Seq(S) /\ Len(H) = Len(Buckets) + Len(<<Top>>)
          /\ \A i \in 1 .. Len(Buckets) + Len(<<Top>>) : H[i] =
                IF i <= Len(Buckets) THEN Buckets[i] ELSE <<Top>>[i - Len(Buckets)]
      BY <1>3, ConcatProperties, Zenon
    <2> HIDE DEF H
    <2>2. PICK b \in Nat : b = Len(Bounds)
      BY <1>1
    <2>3. Len(H) = b + 1 /\ \A i \in 1 .. b + 1 : H[i] = IF i <= b THEN Buckets[i] ELSE <<Top>>[i - b]
      BY <1>4, <2>1, <2>2
    <2>4. b + 1 \in 1 .. b + 1 /\ ~ (b + 1 <= b) /\ (b + 1) - b = 1 /\ <<Top>>[1] = Top
      OBVIOUS
    <2>5. H[b + 1] = Top
      BY <2>3, <2>4
    <2>6. \A i \in 1 .. b : i \in 1 .. b + 1 /\ i <= b
      OBVIOUS
    <2>7. \A i \in 1 .. b : H[i] = Buckets[i]
      BY <2>3, <2>6
    <2> QED
      BY <2>1, <2>2, <2>3, <2>5, <2>7
  <1> HIDE DEF H
  <1>6. LoadOrder = H \o Plains
    BY DEF LoadOrder, H
  <1>7. /\ LoadOrder \in Seq(S) /\ Len(LoadOrder) = Len(Bounds) + 11
        /\ \A i \in 1 .. Len(Bounds) + 1 : LoadOrder[i] = H[i]
        /\ \A i \in 1 .. 10 : LoadOrder[Len(Bounds) + 1 + i] = Plains[i]
    <2>1. /\ LoadOrder \in Seq(S) /\ Len(LoadOrder) = Len(H) + Len(Plains)
          /\ \A i \in 1 .. Len(H) + Len(Plains) : LoadOrder[i] =
                IF i <= Len(H) THEN H[i] ELSE Plains[i - Len(H)]
      <3>1. H \in Seq(S) /\ Plains \in Seq(S)
        BY <1>3, <1>5
      <3> QED
        BY <1>6, <3>1, ConcatProperties, Zenon
    <2>2. PICK b \in Nat : b = Len(Bounds)
      BY <1>1
    <2>3. \A i \in 1 .. b + 11 : LoadOrder[i] = IF i <= b + 1 THEN H[i] ELSE Plains[i - (b + 1)]
      BY <1>4, <1>5, <2>1, <2>2
    <2>4. \A i \in 1 .. 10 : b + 1 + i \in 1 .. b + 11 /\ (b + 1 + i) - (b + 1) = i /\ ~ (b + 1 + i <= b + 1)
      OBVIOUS
    <2>5. \A i \in 1 .. b + 1 : i \in 1 .. b + 11 /\ i <= b + 1
      OBVIOUS
    <2>6. Len(LoadOrder) = b + 11
      BY <1>4, <1>5, <2>1, <2>2
    <2>7. \A i \in 1 .. b + 1 : LoadOrder[i] = H[i]
      BY <2>3, <2>5, Zenon
    <2>8. \A i \in 1 .. 10 : LoadOrder[b + 1 + i] = Plains[i]
      <3> SUFFICES ASSUME NEW i \in 1 .. 10 PROVE LoadOrder[b + 1 + i] = Plains[i]
        OBVIOUS
      <3>1. b + 1 + i \in 1 .. b + 11 /\ (b + 1 + i) - (b + 1) = i /\ ~ (b + 1 + i <= b + 1)
        BY <2>4
      <3>2. LoadOrder[b + 1 + i] = Plains[(b + 1 + i) - (b + 1)]
        BY <2>3, <3>1, Zenon
      <3> QED
        BY <3>1, <3>2, Zenon
    <2> QED
      BY <2>1, <2>2, <2>6, <2>7, <2>8
  <1>8. \A i \in 1 .. Len(Bounds) : Bucket(i) # Top
    BY DEF Bucket, Top
  <1>9. \A i \in 1 .. 10 : Counter(Plain[i]) # Top
    BY DEF Counter, Top, Plain
  <1>10. DOMAIN LoadOrder = 1 .. Len(Bounds) + 11 /\ LoadOrder[Len(Bounds) + 1] = Top
    <2>1. Len(Bounds) + 1 \in 1 .. Len(Bounds) + 1
      BY <1>1
    <2>2. DOMAIN LoadOrder = 1 .. Len(LoadOrder)
      BY <1>7
    <2>3. LoadOrder[Len(Bounds) + 1] = H[Len(Bounds) + 1]
      BY <1>7, <2>1, Zenon
    <2> QED
      BY <1>5, <1>7, <2>2, <2>3
  <1>11. \A i \in 1 .. Len(Bounds) : LoadOrder[i] = Bucket(i)
    <2>1. \A i \in 1 .. Len(Bounds) : i \in 1 .. Len(Bounds) + 1
      BY <1>1
    <2> QED
      BY <1>2, <1>5, <1>7, <2>1
  <1>12. \A i \in 1 .. 10 : LoadOrder[Len(Bounds) + 1 + i] = Counter(Plain[i])
    BY <1>2, <1>7
  <1> QED
    BY <1>1, <1>7, <1>8, <1>9, <1>10, <1>11, <1>12

LEMMA CellFacts ==
  /\ \A i \in 1 .. Len(Bounds) : Bucket(i) \in Cells
  /\ \A n \in {"enqueued", "dequeued", "expired", "dropped", "rejected_global",
               "rejected_tenant", "timeout_rejected", "dropped_policy",
               "queue_time_sum_ns", "queue_time_samples"} : Counter(n) \in Cells
  /\ \A i \in DOMAIN LoadOrder : LoadOrder[i] # Top => LoadOrder[i] \in Cells
  <1>1. \A i \in 1 .. Len(Bounds) : Bucket(i) \in Cells
    BY LoadFacts DEF Cells, Buckets
  <1>2. DOMAIN Plains = 1 .. 10 /\ \A i \in 1 .. 10 : Plains[i] = Counter(Plain[i])
    BY DEF Plains, Plain
  <1>3. \A i \in 1 .. 10 : Counter(Plain[i]) \in Cells
    BY <1>2 DEF Cells
  <1>4. /\ Plain[1] = "enqueued" /\ Plain[2] = "dequeued" /\ Plain[3] = "expired"
        /\ Plain[4] = "dropped" /\ Plain[5] = "rejected_global" /\ Plain[6] = "rejected_tenant"
        /\ Plain[7] = "timeout_rejected" /\ Plain[8] = "dropped_policy"
        /\ Plain[9] = "queue_time_sum_ns" /\ Plain[10] = "queue_time_samples"
    BY DEF Plain
  <1>5. /\ Counter(Plain[1]) \in Cells /\ Counter(Plain[2]) \in Cells /\ Counter(Plain[3]) \in Cells
        /\ Counter(Plain[4]) \in Cells /\ Counter(Plain[5]) \in Cells /\ Counter(Plain[6]) \in Cells
        /\ Counter(Plain[7]) \in Cells /\ Counter(Plain[8]) \in Cells
        /\ Counter(Plain[9]) \in Cells /\ Counter(Plain[10]) \in Cells
    BY <1>3
  <1>6. \A n \in {"enqueued", "dequeued", "expired", "dropped", "rejected_global",
               "rejected_tenant", "timeout_rejected", "dropped_policy",
               "queue_time_sum_ns", "queue_time_samples"} : Counter(n) \in Cells
    BY <1>4, <1>5
  <1>7. \A i \in DOMAIN LoadOrder : LoadOrder[i] # Top => LoadOrder[i] \in Cells
    <2> SUFFICES ASSUME NEW i \in DOMAIN LoadOrder, LoadOrder[i] # Top
                 PROVE  LoadOrder[i] \in Cells
      OBVIOUS
    <2>1. CASE i \in 1 .. Len(Bounds)
      BY <1>1, <2>1, LoadFacts
    <2>2. CASE i > Len(Bounds)
      <3>1. i # Len(Bounds) + 1 /\ i \in 1 .. Len(Bounds) + 11
        BY LoadFacts
      <3>2. PICK j \in 1 .. 10 : i = Len(Bounds) + 1 + j
        <4>1. PICK b \in Nat : b = Len(Bounds)
          BY LoadFacts
        <4>2. i \in 1 .. b + 11 /\ i # b + 1 /\ i > b
          BY <2>2, <3>1, <4>1
        <4>3. i - b - 1 \in 1 .. 10 /\ i = b + 1 + (i - b - 1)
          BY <4>2
        <4> QED
          BY <4>1, <4>3
      <3> QED
        BY <1>3, <3>2, LoadFacts
    <2>3. i \in 1 .. Len(Bounds) + 11 /\ Len(Bounds) \in Nat
      BY LoadFacts
    <2> QED
      BY <2>1, <2>2, <2>3
  <1> QED
    BY <1>1, <1>6, <1>7

LEMMA BucketFacts ==
  ASSUME NEW w \in Waits
  PROVE  BucketOf(w) \in 1 .. Len(Bounds) /\ w \in Nat
  <1> DEFINE Fit == {i \in DOMAIN Bounds : w <= Bounds[i]}
  <1>1. Fit \in SUBSET Nat /\ Len(Bounds) \in Fit /\ w \in Nat
    BY MetricsAssumption
  <1>2. PICK i \in Fit : \A j \in Fit : i <= j
    BY <1>1, LeastElement
  <1>3. \E x \in DOMAIN Bounds : w <= Bounds[x] /\ \A j \in DOMAIN Bounds : w <= Bounds[j] => x <= j
    BY <1>2
  <1> QED
    BY <1>1, <1>3, LoadFacts DEF BucketOf

\* The additions of a recording go to counters.
Pending == [adds : Seq(Cells \X Nat), key : SUBSET Keys]
LEMMA RecordingFacts == Nothing \in Pending /\ Recordings \subseteq Pending
  <1> DEFINE A == Cells \X Nat
  <1>1. \A n \in {"enqueued", "dequeued", "expired", "dropped", "rejected_global",
               "rejected_tenant", "timeout_rejected", "dropped_policy",
               "queue_time_sum_ns", "queue_time_samples"} : \A d \in Nat : Once(n, d) \in A
    BY CellFacts DEF Once
  <1>2. \A i \in 1 .. Len(Bounds) : <<Bucket(i), 1>> \in A
    BY CellFacts
  <1> HIDE DEF A
  <1>3. Nothing.adds \in Seq(A) /\ Nothing \in Pending
    BY DEF Nothing, Pending, A
  <1>4. Enqueued \in Pending
    BY <1>1 DEF Enqueued, Pending, A
  <1>5. PolicyDropped \in Pending
    BY <1>1 DEF PolicyDropped, Pending, A
  <1>6. \A n \in Expiries : ExpiredTasks(n) \in Pending
    BY <1>1, MetricsAssumption DEF ExpiredTasks, Pending, A
  <1>7. \A r \in Reasons : Rejected(r) \in Pending
    <2> SUFFICES ASSUME NEW r \in Reasons PROVE Rejected(r) \in Pending
      OBVIOUS
    <2>1. Once("dropped", 1) \in A /\ Once(r, 1) \in A
      BY <1>1 DEF Reasons
    <2>2. <<Once("dropped", 1), Once(r, 1)>> \in Seq(A)
      BY <2>1
    <2> QED
      BY <2>2 DEF Rejected, Pending, A
  <1>8. \A k \in Keys, w \in Waits : Delivered(k, w) \in Pending
    <2> SUFFICES ASSUME NEW k \in Keys, NEW w \in Waits PROVE Delivered(k, w) \in Pending
      OBVIOUS
    <2>1. /\ Once("dequeued", 1) \in A /\ Once("queue_time_sum_ns", w) \in A
          /\ Once("queue_time_samples", 1) \in A /\ <<Bucket(BucketOf(w)), 1>> \in A
      BY <1>1, <1>2, BucketFacts
    <2>2. <<Once("dequeued", 1), Once("queue_time_sum_ns", w),
              Once("queue_time_samples", 1), <<Bucket(BucketOf(w)), 1>> >> \in Seq(A)
      BY <2>1
    <2> QED
      BY <2>2 DEF Delivered, Pending, A
  <1> QED
    BY <1>3, <1>4, <1>5, <1>6, <1>7, <1>8 DEF Recordings

-----------------------------------------------------------------------------
(* Sums over the buckets.  A claim about 0 .. n is climbed rung by rung: the  *)
(* indices that satisfy it are a set, and its complement has no least element.*)

LEMMA Ladder ==
  ASSUME NEW n \in Nat, NEW T, 0 \in T, \A i \in 1 .. n : i - 1 \in T => i \in T
  PROVE  \A i \in 0 .. n : i \in T
  <1> DEFINE Bad == {i \in 0 .. n : i \notin T}
  <1> SUFFICES ASSUME Bad # {} PROVE FALSE
    OBVIOUS
  <1>1. Bad \in SUBSET Nat
    OBVIOUS
  <1>2. PICK m \in Bad : \A i \in Bad : m <= i
    BY <1>1, LeastElement, Zenon
  <1>3. m \in 1 .. n /\ m - 1 \in 0 .. n /\ ~ (m <= m - 1)
    BY <1>2
  <1>4. m - 1 \notin Bad
    BY <1>2, <1>3
  <1> QED
    BY <1>2, <1>3, <1>4

\* A number computed from the one before it.
LEMMA Chain ==
  ASSUME NEW n \in Nat, NEW g \in [Nat \X (1 .. n) -> Nat]
  PROVE  \E f \in [0 .. n -> Nat] : f[0] = 0 /\ \A i \in 1 .. n : f[i] = g[<<f[i - 1], i>>]
  <1> DEFINE Fits(m, f) == f[0] = 0 /\ \A i \in 1 .. m : f[i] = g[<<f[i - 1], i>>]
             T == {m \in 0 .. n : \E f \in [0 .. m -> Nat] : Fits(m, f)}
  <1>1. 0 \in T
    <2> DEFINE z == [x \in 0 .. 0 |-> 0]
    <2>1. z \in [0 .. 0 -> Nat] /\ Fits(0, z) /\ 0 \in 0 .. n
      OBVIOUS
    <2> HIDE DEF Fits, z
    <2>2. \E f \in [0 .. 0 -> Nat] : Fits(0, f)
      BY <2>1
    <2> QED
      BY <2>1, <2>2
  <1>2. ASSUME NEW m \in 1 .. n, m - 1 \in T PROVE m \in T
    <2>1. PICK f \in [0 .. m - 1 -> Nat] : Fits(m - 1, f)
      BY <1>2
    <2> DEFINE z == [i \in 0 .. m |-> IF i = m THEN g[<<f[m - 1], m>>] ELSE f[i]]
    <2>2. f[m - 1] \in Nat /\ <<f[m - 1], m>> \in Nat \X (1 .. n)
      OBVIOUS
    <2>3. z \in [0 .. m -> Nat]
      BY <2>2
    <2>4. z[0] = 0 /\ z[m] = g[<<z[m - 1], m>>]
      <3>1. 0 \in 0 .. m /\ m \in 0 .. m /\ m - 1 \in 0 .. m /\ m # 0 /\ m - 1 # m
        OBVIOUS
      <3>2. z[0] = f[0] /\ z[m] = g[<<f[m - 1], m>>] /\ z[m - 1] = f[m - 1]
        BY <3>1
      <3> QED
        BY <2>1, <3>2
    <2>5. \A i \in 1 .. m - 1 : z[i] = f[i] /\ z[i - 1] = f[i - 1] /\ f[i] = g[<<f[i - 1], i>>]
      BY <2>1
    <2>6. \A i \in 1 .. m : i = m \/ i \in 1 .. m - 1
      OBVIOUS
    <2> HIDE DEF z
    <2>7. Fits(m, z)
      BY <2>4, <2>5, <2>6
    <2> HIDE DEF Fits
    <2>8. \E x \in [0 .. m -> Nat] : Fits(m, x)
      BY <2>3, <2>7
    <2>9. m \in 0 .. n
      OBVIOUS
    <2> QED
      BY <2>8, <2>9
  <1>3. n \in T
    <2>1. \A i \in 1 .. n : i - 1 \in T => i \in T
      BY <1>2
    <2> HIDE DEF T
    <2>2. \A i \in 0 .. n : i \in T
      BY <1>1, <2>1, Ladder, Zenon
    <2> QED
      BY <2>2
  <1> QED
    BY <1>3

LEMMA RunningFacts ==
  ASSUME NEW h \in Seq(Nat)
  PROVE  /\ Running(h) \in [0 .. Len(h) -> Nat] /\ Running(h)[0] = 0
         /\ \A i \in 1 .. Len(h) : Running(h)[i] = Running(h)[i - 1] + h[i]
  <1>1. Len(h) \in Nat /\ \A i \in 1 .. Len(h) : h[i] \in Nat
    OBVIOUS
  <1> DEFINE n == Len(h)
             g == [x \in Nat \X (1 .. n) |-> x[1] + h[x[2]]]
             Step(f) == [i \in 0 .. n |-> IF i = 0 THEN 0 ELSE f[i - 1] + h[i]]
  <1>2. g \in [Nat \X (1 .. n) -> Nat]
    BY <1>1
  <1>3. PICK f \in [0 .. n -> Nat] : f[0] = 0 /\ \A i \in 1 .. n : f[i] = g[<<f[i - 1], i>>]
    BY <1>1, <1>2, Chain
  <1>4. f = Step(f)
    <2>1. \A i \in 1 .. n : f[i] = f[i - 1] + h[i]
      <3>1. \A i \in 1 .. n : f[i - 1] \in Nat
        BY <1>1, <1>3
      <3> QED
        BY <1>3, <3>1
    <2> QED
      BY <1>1, <1>3, <2>1
  <1>5. Running(h) = CHOOSE s : s = Step(s)
    BY DEF Running
  <1> HIDE DEF Step
  <1>6. Running(h) = Step(Running(h))
    BY <1>4, <1>5, Zenon
  <1> DEFINE r == Running(h)
  <1>7. /\ DOMAIN r = 0 .. n /\ r[0] = 0 /\ r = [i \in 0 .. n |-> r[i]]
        /\ \A i \in 1 .. n : r[i] = r[i - 1] + h[i]
    BY <1>1, <1>6 DEF Step
  <1> HIDE DEF r
  <1>8. \A i \in 0 .. n : r[i] \in Nat
    <2> DEFINE T == {i \in 0 .. n : r[i] \in Nat}
    <2>1. 0 \in T
      BY <1>1, <1>7
    <2>2. \A i \in 1 .. n : i - 1 \in T => i \in T
      <3>1. \A i \in 1 .. n : r[i - 1] \in Nat => r[i] \in Nat
        <4> SUFFICES ASSUME NEW i \in 1 .. n, r[i - 1] \in Nat PROVE r[i] \in Nat
          OBVIOUS
        <4>1. PICK a, b \in Nat : a = r[i - 1] /\ b = h[i]
          BY <1>1
        <4>2. r[i] = a + b
          BY <1>7, <4>1
        <4> QED
          BY <4>2
      <3>2. \A i \in 1 .. n : i \in 0 .. n
        BY <1>1
      <3> QED
        BY <3>1, <3>2
    <2> HIDE DEF T
    <2>3. \A i \in 0 .. n : i \in T
      BY <1>1, <2>1, <2>2, Ladder
    <2> QED
      BY <2>3 DEF T
  <1>9. r \in [0 .. n -> Nat]
    BY <1>7, <1>8
  <1> QED
    BY <1>7, <1>9 DEF r

LEMMA CumulativeFacts ==
  ASSUME NEW h \in Seq(Nat)
  PROVE  /\ Len(Cumulative(h)) = Len(h) /\ DOMAIN Cumulative(h) = 1 .. Len(h)
         /\ \A i \in 1 .. Len(h) : /\ Cumulative(h)[i] \in 0 .. MaxU64
                                   /\ Cumulative(h)[i] = Least(Running(h)[i])
  <1>1. /\ Len(h) \in Nat /\ DOMAIN h = 1 .. Len(h) /\ \A i \in 1 .. Len(h) : h[i] \in Nat
        /\ MaxU64 \in Nat
    BY TopTenantsAssumption
  <1> DEFINE n == Len(h)
             g == [x \in Nat \X (1 .. n) |-> SaturatingAdd(x[1], h[x[2]])]
             Step(f) == [i \in 0 .. n |-> IF i = 0 THEN 0 ELSE SaturatingAdd(f[i - 1], h[i])]
             r == CHOOSE s : s = Step(s)
  <1>2. g \in [Nat \X (1 .. n) -> Nat]
    BY <1>1, TopTenantsAssumption DEF SaturatingAdd
  <1>3. PICK f \in [0 .. n -> Nat] : f[0] = 0 /\ \A i \in 1 .. n : f[i] = g[<<f[i - 1], i>>]
    BY <1>1, <1>2, Chain
  <1>4. f = Step(f)
    <2>1. \A i \in 1 .. n : f[i] = SaturatingAdd(f[i - 1], h[i])
      <3>1. \A i \in 1 .. n : f[i - 1] \in Nat
        BY <1>1, <1>3
      <3> QED
        BY <1>3, <3>1
    <2> QED
      BY <1>1, <1>3, <2>1
  <1>5. Cumulative(h) = [i \in 1 .. n |-> r[i]]
    BY <1>1 DEF Cumulative
  <1> HIDE DEF Step
  <1>6. r = Step(r)
    BY <1>4, Zenon
  <1> HIDE DEF r
  <1>7. r[0] = 0 /\ \A i \in 1 .. n : r[i] = SaturatingAdd(r[i - 1], h[i])
    BY <1>1, <1>6 DEF Step
  <1> DEFINE q == Running(h)
  <1>8. /\ q[0] = 0 /\ \A i \in 0 .. n : q[i] \in Nat
        /\ \A i \in 1 .. n : q[i] = q[i - 1] + h[i]
    BY RunningFacts
  <1> HIDE DEF q
  <1> DEFINE T == {i \in 0 .. n : r[i] \in 0 .. MaxU64 /\ r[i] = Least(q[i])}
  <1>9. 0 \in T
    BY <1>1, <1>7, <1>8 DEF Least
  <1>10. \A i \in 1 .. n : i - 1 \in T => i \in T
    <2> SUFFICES ASSUME NEW i \in 1 .. n, i - 1 \in T PROVE i \in T
      OBVIOUS
    <2>1. PICK a, b, c, e \in Nat : a = r[i - 1] /\ b = h[i] /\ c = q[i - 1] /\ e = q[i]
      <3>1. i - 1 \in 0 .. n /\ i \in 0 .. n
        BY <1>1
      <3>2. r[i - 1] \in Nat
        BY <1>1
      <3>3. h[i] \in Nat /\ q[i - 1] \in Nat /\ q[i] \in Nat
        BY <1>1, <1>8, <3>1
      <3> QED
        BY <3>2, <3>3, Zenon
    <2>2. e = c + b /\ a = Least(c) /\ r[i] = SaturatingAdd(a, b)
      BY <1>7, <1>8, <2>1
    <2>3. r[i] \in 0 .. MaxU64 /\ r[i] = Least(e)
      BY <1>1, <2>2 DEF SaturatingAdd, Least
    <2> QED
      BY <2>1, <2>3
  <1>11. \A i \in 0 .. n : i \in T
    <2> HIDE DEF T
    <2> QED
      BY <1>1, <1>9, <1>10, Ladder
  <1>12. \A i \in 1 .. n : Cumulative(h)[i] = r[i] /\ i \in 0 .. n
    BY <1>1, <1>5
  <1>13. Len(Cumulative(h)) = Len(h) /\ DOMAIN Cumulative(h) = 1 .. Len(h)
    BY <1>1, <1>5
  <1> QED
    BY <1>11, <1>12, <1>13 DEF q

-----------------------------------------------------------------------------
(* Counters only grow, so a snapshot is never above the counters and the next *)
(* one is never below it.                                                     *)

LEMMA PastFacts ==
  ASSUME NEW h \in Past
  PROVE  /\ h \in Seq(Nat) /\ Len(h) = Len(Bounds) /\ DOMAIN h = 1 .. Len(Bounds)
         /\ \A i \in 1 .. Len(Bounds) : h[i] \in 0 .. MaxU64
         /\ Cumulative(h)[Len(h)] \in 0 .. MaxU64
  <1>1. h \in [1 .. Len(Bounds) -> 0 .. MaxU64] /\ Len(Bounds) \in Nat \ {0}
    BY MetricsAssumption, LoadFacts
  <1>2. h \in Seq(Nat) /\ Len(h) = Len(Bounds) /\ DOMAIN h = 1 .. Len(Bounds)
    BY <1>1, TopTenantsAssumption
  <1>3. Cumulative(h)[Len(h)] \in 0 .. MaxU64
    BY <1>1, <1>2, CumulativeFacts
  <1> QED
    BY <1>1, <1>2, <1>3

LEMMA MetricsFacts ==
  ASSUME MetricsInv
  PROVE  /\ cell \in [Cells -> 0 .. MaxU64] /\ MaxU64 \in Nat
         /\ \A c \in Cells : cell[c] \in Nat /\ cell[c] <= MaxU64
         /\ todo \in [Threads -> Pending]
         /\ Len(snap) \in Nat /\ DOMAIN snap = 1 .. Len(snap) /\ Len(snap) <= Len(LoadOrder)
         /\ Len(last) \in Nat /\ DOMAIN last = 1 .. Len(last) /\ Len(last) <= Len(LoadOrder)
         /\ \A i \in DOMAIN snap : LoadOrder[i] # Top =>
              snap[i] \in Nat /\ snap[i] <= cell[LoadOrder[i]] /\ LoadOrder[i] \in Cells
         /\ \A i \in DOMAIN last : LoadOrder[i] # Top =>
              last[i] \in Nat /\ last[i] <= cell[LoadOrder[i]] /\ LoadOrder[i] \in Cells
  <1>1. /\ cell \in [Cells -> 0 .. MaxU64] /\ MaxU64 \in Nat /\ todo \in [Threads -> Pending]
        /\ Above(snap) /\ Above(last) /\ {Len(snap), Len(last)} \subseteq 0 .. Len(LoadOrder)
    BY TopTenantsAssumption DEF MetricsInv, MetricsTypeInv, LoadsFit, Pending
  <1>2. /\ Len(snap) \in Nat /\ Len(last) \in Nat
        /\ Len(snap) <= Len(LoadOrder) /\ Len(last) <= Len(LoadOrder)
    BY <1>1, LoadFacts
  <1>3. DOMAIN snap = 1 .. Len(snap) /\ DOMAIN last = 1 .. Len(last)
    BY <1>1 DEF Above
  <1>4. DOMAIN snap \subseteq DOMAIN LoadOrder /\ DOMAIN last \subseteq DOMAIN LoadOrder
    <2>0. Len(LoadOrder) \in Nat
      BY LoadFacts
    <2>1. PICK a, b, c \in Nat : a = Len(snap) /\ b = Len(last) /\ c = Len(LoadOrder)
      BY <1>2, <2>0, Zenon
    <2>2. a <= c /\ b <= c /\ DOMAIN LoadOrder = 1 .. c
      BY <1>2, <2>1, LoadFacts
    <2> QED
      BY <1>3, <2>1, <2>2
  <1> QED
    BY <1>1, <1>2, <1>3, <1>4, CellFacts DEF Above

LEMMA InitMetrics == MetricsInit => MetricsInv
  <1> SUFFICES ASSUME MetricsInit PROVE MetricsInv
    OBVIOUS
  <1> DEFINE n(h) == Cumulative(h)[Len(h)]
  <1>1. PICK h \in Past, k \in Keys :
          /\ cell = [c \in Cells |->
               IF \E i \in DOMAIN h : c = Bucket(i) THEN h[c[2]]
               ELSE IF c[1] \in {"enqueued", "dequeued", "queue_time_samples"} THEN n(h)
               ELSE 0]
          /\ served = [x \in Keys |-> IF x = k THEN n(h) ELSE 0]
          /\ top = IF n(h) = 0 \/ Capacity = 0 THEN <<>> ELSE <<[tenant |-> k, count |-> n(h)]>>
    BY DEF MetricsInit
  <1>2. /\ n(h) \in 0 .. MaxU64 /\ n(h) \in Nat /\ MaxU64 \in Nat /\ DOMAIN h = 1 .. Len(Bounds)
        /\ \A i \in DOMAIN h : h[i] \in 0 .. MaxU64
    BY PastFacts, TopTenantsAssumption
  <1> DEFINE m == n(h)
  <1>3. cell \in [Cells -> 0 .. MaxU64]
    <2>1. \A c \in Cells : (\E i \in DOMAIN h : c = Bucket(i)) => c[2] \in DOMAIN h
      BY DEF Bucket
    <2> HIDE DEF n
    <2> QED
      BY <1>1, <1>2, <2>1
  <1> HIDE DEF n
  <1>4. SummaryFits
    <2>1. served \in [Keys -> Nat] /\ served[k] = m /\ \A x \in Keys \ {k} : served[x] = 0
      BY <1>1, <1>2
    <2>2. CASE top = <<>>
      <3>1. /\ top \in Entries /\ Distinct(top) /\ Len(top) = 0 /\ DOMAIN top = {} /\ Listed(top) = {}
        BY <2>2 DEF Entries, Distinct, Listed
      <3>2. Capacity > 0 => \A x \in Keys : served[x] = 0
        BY <1>1, <1>2, <2>1, <2>2
      <3>3. ASSUME Capacity > 0 PROVE Bounded(top, served)
        <4>1. Floor(top) \in Nat
          BY <3>1, <3>3, FloorFacts
        <4>2. Least(0) <= Floor(top)
          BY <1>2, <4>1, TopTenantsAssumption DEF Least
        <4> QED
          BY <3>1, <3>2, <3>3, <4>2 DEF Bounded
      <3> QED
        BY <2>1, <3>1, <3>3, TopTenantsAssumption DEF SummaryFits
    <2>3. CASE top = <<[tenant |-> k, count |-> m]>> /\ Capacity # 0
      <3>1. [tenant |-> k, count |-> m] \in [tenant : Keys, count : 0 .. MaxU64]
        BY <1>2
      <3>2. top \in Entries
        BY <2>3, <3>1 DEF Entries
      <3>3. /\ Len(top) = 1 /\ DOMAIN top = {1}
            /\ top[1] = [tenant |-> k, count |-> m] /\ top[1].tenant = k /\ top[1].count = m
        BY <2>3
      <3>4. Capacity > 0 /\ Capacity \in Nat
        BY <2>3, TopTenantsAssumption
      <3>5. Floor(top) \in Nat /\ Least(0) <= Floor(top) /\ Least(m) <= m
        BY <1>2, <3>2, <3>4, FloorFacts, TopTenantsAssumption DEF Least
      <3>6. Listed(top) = {k}
        BY <3>3 DEF Listed
      <3>7. Bounded(top, served)
        <4>1. m <= m + Floor(top)
          BY <1>2, <3>5
        <4> QED
          BY <2>1, <3>3, <3>5, <3>6, <4>1 DEF Bounded
      <3>8. Distinct(top)
        BY <3>3 DEF Distinct
      <3> QED
        BY <2>1, <3>2, <3>3, <3>4, <3>7, <3>8 DEF SummaryFits
    <2> QED
      BY <1>1, <2>2, <2>3
  <1>5. todo = [th \in Threads |-> Nothing] /\ snap = <<>> /\ last = <<>>
    BY DEF MetricsInit
  <1>6. todo \in [Threads -> Pending]
    BY <1>5, RecordingFacts
  <1>7. \A th \in Threads : todo[th].key \subseteq Keys
    BY <1>6 DEF Pending
  <1>8. \A i \in DOMAIN top : top[i].count \in 0 .. MaxU64
    BY <1>4, EntryFacts DEF SummaryFits
  <1>9. Above(snap) /\ Above(last) /\ SnapshotsMonotone
    BY <1>5 DEF Above, SnapshotsMonotone
  <1>10. {Len(snap), Len(last)} \subseteq 0 .. Len(LoadOrder)
    BY <1>5, LoadFacts
  <1> QED
    BY <1>3, <1>4, <1>6, <1>7, <1>8, <1>9, <1>10
    DEF MetricsInv, MetricsTypeInv, LoadsFit, Pending

\* A step that keeps the snapshots and lowers no counter.
LEMMA GrowthKeeps ==
  ASSUME MetricsInv, cell' \in [Cells -> 0 .. MaxU64],
         \A c \in Cells : cell[c] <= cell'[c],
         todo' \in [Threads -> Pending], SummaryFits', UNCHANGED <<snap, last>>
  PROVE  MetricsInv'
  <1>1. \A th \in Threads : todo'[th].key \subseteq Keys
    BY DEF Pending
  <1>2. \A i \in DOMAIN top' : top'[i].count \in 0 .. MaxU64
    <2>1. top' \in Entries
      BY DEF SummaryFits
    <2> QED
      BY <2>1, EntryFacts
  <1>3. Above(snap)' /\ Above(last)'
    <2>1. \A c \in Cells : cell'[c] \in Nat
      BY MetricsFacts
    <2>2. \A i \in DOMAIN snap : LoadOrder[i] # Top => snap[i] \in Nat /\ snap[i] <= cell'[LoadOrder[i]]
      <3> SUFFICES ASSUME NEW i \in DOMAIN snap, LoadOrder[i] # Top
                   PROVE  snap[i] \in Nat /\ snap[i] <= cell'[LoadOrder[i]]
        OBVIOUS
      <3>1. PICK c \in Cells : c = LoadOrder[i]
        BY MetricsFacts
      <3>2. snap[i] \in Nat /\ snap[i] <= cell[c] /\ cell[c] \in Nat /\ cell[c] <= cell'[c] /\ cell'[c] \in Nat
        BY <2>1, <3>1, MetricsFacts
      <3> QED
        BY <3>1, <3>2
    <2>3. \A i \in DOMAIN last : LoadOrder[i] # Top => last[i] \in Nat /\ last[i] <= cell'[LoadOrder[i]]
      <3> SUFFICES ASSUME NEW i \in DOMAIN last, LoadOrder[i] # Top
                   PROVE  last[i] \in Nat /\ last[i] <= cell'[LoadOrder[i]]
        OBVIOUS
      <3>1. PICK c \in Cells : c = LoadOrder[i]
        BY MetricsFacts
      <3>2. last[i] \in Nat /\ last[i] <= cell[c] /\ cell[c] \in Nat /\ cell[c] <= cell'[c] /\ cell'[c] \in Nat
        BY <2>1, <3>1, MetricsFacts
      <3> QED
        BY <3>1, <3>2
    <2>4. snap = [i \in 1 .. Len(snap) |-> snap[i]] /\ last = [i \in 1 .. Len(last) |-> last[i]]
      BY DEF MetricsInv, LoadsFit, Above
    <2> QED
      BY <2>2, <2>3, <2>4 DEF Above
  <1>4. {Len(snap), Len(last)}' \subseteq 0 .. Len(LoadOrder)
    BY DEF MetricsInv, MetricsTypeInv
  <1>5. SnapshotsMonotone'
    BY DEF MetricsInv, SnapshotsMonotone
  <1>6. MetricsTypeInv'
    BY <1>1, <1>2, <1>4, Zenon DEF MetricsTypeInv
  <1>7. LoadsFit'
    BY <1>3, Zenon DEF LoadsFit, Pending
  <1> QED
    BY <1>5, <1>6, <1>7, Zenon DEF MetricsInv

LEMMA SummaryStays == ASSUME SummaryFits, UNCHANGED topVars PROVE SummaryFits'
  <1>1. top' = top /\ served' = served
    BY DEF topVars
  <1>2. Floor(top)' = Floor(top) /\ Listed(top)' = Listed(top) /\ Distinct(top)' = Distinct(top)
    BY <1>1 DEF Floor, Counts, Listed, Distinct
  <1>3. Bounded(top, served)' = Bounded(top, served)
    BY <1>1, <1>2, Zenon DEF Bounded
  <1> QED
    BY <1>1, <1>2, <1>3, Zenon DEF SummaryFits

LEMMA AddKeeps ==
  ASSUME MetricsInv, NEW th \in Threads, AddNext(th)
  PROVE  MetricsInv' /\ UNCHANGED <<topVars, readVars>>
  <1>1. /\ todo[th].adds \in Seq(Cells \X Nat) /\ todo[th].adds # <<>>
        /\ todo[th] \in Pending
    BY MetricsFacts DEF AddNext, Pending
  <1>2. PICK c \in Cells, d \in Nat : Head(todo[th].adds) = <<c, d>>
    BY <1>1
  <1>3. cell' = [cell EXCEPT ![c] = SaturatingAdd(@, d)]
    <2>1. cell' = [cell EXCEPT ![Head(todo[th].adds)[1]] =
                     SaturatingAdd(@, Head(todo[th].adds)[2])]
      BY DEF AddNext
    <2>2. Head(todo[th].adds)[1] = c /\ Head(todo[th].adds)[2] = d
      BY <1>2
    <2> QED
      BY <2>1, <2>2, Zenon
  <1>4. SaturatingAdd(cell[c], d) \in 0 .. MaxU64 /\ cell[c] <= SaturatingAdd(cell[c], d)
    BY MetricsFacts, Saturates
  <1>5. /\ cell' \in [Cells -> 0 .. MaxU64]
        /\ \A x \in Cells : cell[x] <= cell'[x]
    <2>1. cell' \in [Cells -> 0 .. MaxU64]
      BY <1>3, <1>4, MetricsFacts
    <2>2. cell'[c] = SaturatingAdd(cell[c], d) /\ \A x \in Cells \ {c} : cell'[x] = cell[x]
      BY <1>3, MetricsFacts
    <2>3. \A x \in Cells : cell[x] <= cell'[x]
      <3> SUFFICES ASSUME NEW x \in Cells PROVE cell[x] <= cell'[x]
        OBVIOUS
      <3>1. CASE x = c
        BY <1>4, <2>2, <3>1
      <3>2. CASE x # c
        BY <2>2, <3>2, MetricsFacts
      <3> QED
        BY <3>1, <3>2
    <2> QED
      BY <2>1, <2>3
  <1>6. todo' \in [Threads -> Pending]
    <2>1. Tail(todo[th].adds) \in Seq(Cells \X Nat)
      BY <1>1
    <2>2. [todo[th] EXCEPT !.adds = Tail(@)] \in Pending
      BY <1>1, <2>1 DEF Pending
    <2>3. todo' = [todo EXCEPT ![th] = [todo[th] EXCEPT !.adds = Tail(@)]]
      BY DEF AddNext
    <2> QED
      BY <2>2, <2>3, MetricsFacts
  <1>7. UNCHANGED <<topVars, readVars>>
    BY DEF AddNext
  <1>8. SummaryFits' /\ UNCHANGED <<snap, last>>
    BY <1>7, SummaryStays DEF MetricsInv, readVars
  <1> QED
    BY <1>5, <1>6, <1>7, <1>8, GrowthKeeps

LEMMA SameCells ==
  ASSUME MetricsInv, UNCHANGED <<cell, snap, last>>, todo' \in [Threads -> Pending], SummaryFits'
  PROVE  MetricsInv'
  <1>1. cell' \in [Cells -> 0 .. MaxU64] /\ \A c \in Cells : cell[c] <= cell'[c]
    BY MetricsFacts
  <1> QED
    BY <1>1, GrowthKeeps

LEMMA ThreadKeeps ==
  ASSUME MetricsInv, NEW th \in Threads,
         (\E r \in Recordings : Begin(th, r)) \/ RecordTop(th)
  PROVE  MetricsInv'
  <1>1. UNCHANGED <<cell, snap, last>>
    BY DEF Begin, RecordTop, readVars
  <1>2. todo' \in [Threads -> Pending]
    <2>1. PICK r \in Pending : todo' = [todo EXCEPT ![th] = r]
      BY RecordingFacts DEF Begin, RecordTop
    <2> QED
      BY <2>1, MetricsFacts
  <1>3. SummaryFits'
    <2>1. SummaryFits
      BY DEF MetricsInv
    <2>2. CASE \E r \in Recordings : Begin(th, r)
      BY <2>1, <2>2, SummaryStays DEF Begin
    <2>3. CASE RecordTop(th)
      <3>1. PICK k \in todo[th].key : Record(k)
        BY <2>3 DEF RecordTop
      <3>2. k \in Keys
        BY MetricsFacts DEF Pending
      <3> QED
        BY <2>1, <3>1, <3>2, RecordKeeps
    <2> QED
      BY <2>2, <2>3
  <1> QED
    BY <1>1, <1>2, <1>3, SameCells

\* A step of stats().
LEMMA ReadFrame ==
  ASSUME MetricsInv, UNCHANGED <<topVars, cell, todo>>,
         Above(snap'), Above(last'), SnapshotsMonotone',
         {Len(snap'), Len(last')} \subseteq 0 .. Len(LoadOrder)
  PROVE  MetricsInv'
  <1>1. SummaryFits'
    BY SummaryStays DEF MetricsInv
  <1>2. Above(snap)' /\ Above(last)'
    BY DEF Above
  <1> QED
    BY <1>1, <1>2 DEF MetricsInv, MetricsTypeInv, LoadsFit, topVars

LEMMA StartReadKeeps ==
  ASSUME MetricsInv, StartRead
  PROVE  MetricsInv' /\ Len(snap') = 1 /\ snap'[1] = cell[LoadOrder[1]] /\ DOMAIN snap' = {1}
  <1>1. last' = snap /\ snap' = <<cell[LoadOrder[1]]>> /\ UNCHANGED <<topVars, cell, todo>>
    BY DEF StartRead
  <1>2. LoadOrder[1] \in Cells /\ LoadOrder[1] # Top
    <2>1. 1 \in 1 .. Len(Bounds)
      BY LoadFacts
    <2> QED
      BY <2>1, LoadFacts, CellFacts
  <1>3. cell[LoadOrder[1]] \in Nat
    BY <1>2, MetricsFacts
  <1>4. Len(snap') = 1 /\ DOMAIN snap' = {1} /\ snap'[1] = cell[LoadOrder[1]]
    BY <1>1
  <1>5. Above(snap')
    BY <1>1, <1>3 DEF Above
  <1>6. Above(last')
    BY <1>1 DEF MetricsInv, LoadsFit
  <1>7. SnapshotsMonotone'
    BY <1>1, <1>2, <1>3, <1>4, MetricsFacts DEF SnapshotsMonotone
  <1>8. {Len(snap'), Len(last')} \subseteq 0 .. Len(LoadOrder)
    BY <1>1, <1>4, LoadFacts DEF MetricsInv, MetricsTypeInv
  <1> QED
    BY <1>1, <1>4, <1>5, <1>6, <1>7, <1>8, ReadFrame

LEMMA LoadKeeps ==
  ASSUME MetricsInv, Load
  PROVE  /\ MetricsInv' /\ Len(snap') = Len(snap) + 1 /\ DOMAIN snap' = 1 .. Len(snap) + 1
         /\ Len(snap) < Len(LoadOrder)
         /\ \A i \in DOMAIN snap : snap'[i] = snap[i]
         /\ LoadOrder[Len(snap) + 1] = Top => snap'[Len(snap) + 1] = Sorted(top)
         /\ LoadOrder[Len(snap) + 1] # Top =>
              snap'[Len(snap) + 1] = cell[LoadOrder[Len(snap) + 1]]
  <1> DEFINE c == LoadOrder[Len(snap) + 1]
             v == IF c = Top THEN Sorted(top) ELSE cell[c]
             S == {snap[i] : i \in DOMAIN snap} \cup {v}
  <1>1. /\ snap' = Append(snap, v) /\ last' = last /\ UNCHANGED <<topVars, cell, todo>>
        /\ Len(snap) # Len(LoadOrder)
    BY DEF Load, Complete
  <1>2. PICK n, m \in Nat : n = Len(snap) /\ m = Len(LoadOrder)
    <2>1. Len(snap) \in Nat /\ Len(LoadOrder) \in Nat
      BY MetricsFacts, LoadFacts
    <2> QED
      BY <2>1, Zenon
  <1>3. n < m /\ n + 1 \in DOMAIN LoadOrder /\ DOMAIN snap = 1 .. n
    <2>1. n <= m /\ n # m /\ DOMAIN snap = 1 .. n
      BY <1>1, <1>2, MetricsFacts
    <2>2. DOMAIN LoadOrder = 1 .. m
      BY <1>2, LoadFacts
    <2> QED
      BY <2>1, <2>2
  <1>4. snap \in Seq(S)
    <2>1. snap = [i \in 1 .. n |-> snap[i]]
      BY <1>2 DEF MetricsInv, LoadsFit, Above
    <2> QED
      BY <1>3, <2>1
  <1>5. c # Top => c \in Cells /\ cell[c] \in Nat
    BY <1>2, <1>3, CellFacts, MetricsFacts
  <1>6. v \in S
    OBVIOUS
  <1> HIDE DEF S, v
  <1>7. /\ snap' \in Seq(S) /\ Len(snap') = n + 1 /\ DOMAIN snap' = 1 .. n + 1 /\ snap'[n + 1] = v
        /\ \A i \in DOMAIN snap : snap'[i] = snap[i]
    BY <1>1, <1>2, <1>3, <1>4, <1>6
  <1>8. c # Top => snap'[n + 1] = cell[c]
    BY <1>7 DEF v
  <1>9. c = Top => snap'[n + 1] = Sorted(top)
    BY <1>7 DEF v
  <1>10. \A i \in DOMAIN snap' : i = n + 1 \/ i \in DOMAIN snap
    BY <1>3, <1>7
  <1> HIDE DEF c
  <1>11. Above(snap')
    <2>1. snap' = [i \in 1 .. Len(snap') |-> snap'[i]]
      BY <1>7
    <2>2. \A i \in DOMAIN snap' : LoadOrder[i] # Top => snap'[i] \in Nat /\ snap'[i] <= cell[LoadOrder[i]]
      <3> SUFFICES ASSUME NEW i \in DOMAIN snap', LoadOrder[i] # Top
                   PROVE  snap'[i] \in Nat /\ snap'[i] <= cell[LoadOrder[i]]
        OBVIOUS
      <3>1. CASE i = n + 1
        BY <1>2, <1>5, <1>8, <3>1 DEF c
      <3>2. CASE i \in DOMAIN snap
        BY <1>7, <3>2, MetricsFacts
      <3> QED
        BY <1>10, <3>1, <3>2
    <2> QED
      BY <2>1, <2>2 DEF Above
  <1>12. Above(last')
    BY <1>1 DEF MetricsInv, LoadsFit
  <1>13. SnapshotsMonotone'
    <2> SUFFICES ASSUME NEW i \in DOMAIN snap', i \in DOMAIN last, LoadOrder[i] # Top
                 PROVE  snap'[i] >= last[i]
      BY <1>1 DEF SnapshotsMonotone
    <2>1. CASE i = n + 1
      <3>1. snap'[i] = cell[c] /\ c = LoadOrder[i]
        BY <1>2, <1>8, <2>1 DEF c
      <3>2. last[i] \in Nat /\ last[i] <= cell[c] /\ cell[c] \in Nat
        BY <1>5, <3>1, MetricsFacts
      <3> QED
        BY <3>1, <3>2
    <2>2. CASE i \in DOMAIN snap
      <3>1. snap'[i] = snap[i] /\ snap[i] >= last[i]
        BY <1>7, <2>2 DEF MetricsInv, SnapshotsMonotone
      <3> QED
        BY <3>1
    <2> QED
      BY <1>10, <2>1, <2>2
  <1>14. {Len(snap'), Len(last')} \subseteq 0 .. Len(LoadOrder)
    <2>1. Len(snap') \in 0 .. m
      BY <1>3, <1>7
    <2>2. Len(last') \in 0 .. Len(LoadOrder)
      BY <1>1 DEF MetricsInv, MetricsTypeInv
    <2> QED
      BY <1>2, <2>1, <2>2
  <1>15. MetricsInv'
    BY <1>1, <1>11, <1>12, <1>13, <1>14, ReadFrame
  <1>16. Len(snap) < Len(LoadOrder)
    BY <1>2, <1>3
  <1> QED
    BY <1>2, <1>3, <1>7, <1>8, <1>9, <1>15, <1>16 DEF c

\* Types, the summary and the order of snapshots, for every number of threads,
\* buckets, tenants and deliveries.
THEOREM MetricsInvariant == MetricsSpec => []MetricsInv
  <1>1. ASSUME MetricsInv, [MetricsNext]_metricsVars PROVE MetricsInv'
    <2>1. CASE UNCHANGED metricsVars
      <3>1. SummaryFits' /\ UNCHANGED <<cell, snap, last, todo>>
        BY <1>1, <2>1, SummaryStays DEF MetricsInv, metricsVars, readVars
      <3>2. todo' \in [Threads -> Pending]
        BY <1>1, <3>1, MetricsFacts
      <3> QED
        BY <1>1, <3>1, <3>2, SameCells
    <2>2. ASSUME NEW th \in Threads,
                 (\E r \in Recordings : Begin(th, r)) \/ AddNext(th) \/ RecordTop(th)
          PROVE  MetricsInv'
      BY <1>1, <2>2, ThreadKeeps, AddKeeps
    <2>3. CASE StartRead \/ Load
      BY <1>1, <2>3, StartReadKeeps, LoadKeeps
    <2> QED
      BY <1>1, <2>1, <2>2, <2>3 DEF MetricsNext
  <1> QED
    BY <1>1, InitMetrics, PTL DEF MetricsSpec

\* Every counter, bucket and listed count is a u64 (MetricsTypeInv).
THEOREM MetricsTypeCorrect == MetricsSpec => []MetricsTypeInv
  BY MetricsInvariant, PTL DEF MetricsInv

\* No counter of a snapshot is below the snapshot before it (SnapshotsMonotone).
THEOREM SnapshotsAlwaysMonotone == MetricsSpec => []SnapshotsMonotone
  BY MetricsInvariant, PTL DEF MetricsInv

\* The summary of tenants bounds every tenant's deliveries, listed or not
\* (TopTenantsBound).
THEOREM TopTenantsAlwaysBounded == MetricsSpec => []TopTenantsBound
  <1>1. ASSUME MetricsInv, Capacity > 0 PROVE Cardinality(Listed(top)) = Len(top)
    <2>1. /\ top \in Entries /\ Len(top) \in Nat /\ DOMAIN top = 1 .. Len(top)
          /\ \A i, j \in DOMAIN top : top[i].tenant = top[j].tenant => i = j
      BY <1>1, EntryFacts DEF MetricsInv, SummaryFits, Distinct
    <2> DEFINE F == [i \in 1 .. Len(top) |-> top[i].tenant]
    <2>2. F \in Bijection(1 .. Len(top), Listed(top))
      <3>1. F \in [1 .. Len(top) -> Listed(top)]
        BY <2>1 DEF Listed
      <3>2. IsInjective(F)
        BY <2>1 DEF IsInjective
      <3>3. \A x \in Listed(top) : \E i \in 1 .. Len(top) : F[i] = x
        BY <2>1 DEF Listed
      <3> QED
        BY <3>1, <3>2, <3>3 DEF Bijection, Injection, Surjection
    <2> QED
      BY <2>1, <2>2, FS_CountingElements DEF ExistsBijection
  <1>2. MetricsInv => TopTenantsBound
    BY <1>1 DEF TopTenantsBound, MetricsInv, SummaryFits
  <1> QED
    BY <1>2, MetricsInvariant, PTL

-----------------------------------------------------------------------------
(* How a sum changes with what is summed. *)

\* RunningFacts, element by element.
LEMMA Rungs ==
  ASSUME NEW h \in Seq(Nat)
  PROVE  /\ Len(h) \in Nat /\ Running(h)[0] = 0
         /\ \A m \in 1 .. Len(h) : h[m] \in Nat /\ Running(h)[m] = Running(h)[m - 1] + h[m]
         /\ \A m \in 0 .. Len(h) : Running(h)[m] \in Nat
  <1>1. Len(h) \in Nat /\ \A m \in 1 .. Len(h) : h[m] \in Nat
    OBVIOUS
  <1> DEFINE q == Running(h)
  <1>2. /\ q \in [0 .. Len(h) -> Nat] /\ q[0] = 0
        /\ \A m \in 1 .. Len(h) : q[m] = q[m - 1] + h[m]
    BY RunningFacts
  <1> HIDE DEF q
  <1>3. \A m \in 0 .. Len(h) : q[m] \in Nat
    BY <1>2
  <1> QED
    BY <1>1, <1>2, <1>3 DEF q

LEMMA RunningGrows ==
  ASSUME NEW h \in Seq(Nat), NEW i \in 0 .. Len(h), NEW j \in 0 .. Len(h), i <= j
  PROVE  Running(h)[i] <= Running(h)[j]
  <1> DEFINE q == Running(h)
             T == {m \in 0 .. Len(h) : i <= m => q[i] <= q[m]}
  <1>1. /\ Len(h) \in Nat /\ \A m \in 1 .. Len(h) : h[m] \in Nat /\ q[m] = q[m - 1] + h[m]
        /\ \A m \in 0 .. Len(h) : q[m] \in Nat
    BY Rungs, Zenon
  <1> HIDE DEF q
  <1>2. 0 \in T
    BY <1>1
  <1>3. \A m \in 1 .. Len(h) : m - 1 \in T => m \in T
    <2> SUFFICES ASSUME NEW m \in 1 .. Len(h), m - 1 \in T, i <= m PROVE q[i] <= q[m]
      BY <1>1
    <2>1. m - 1 \in 0 .. Len(h) /\ m \in 0 .. Len(h)
      BY <1>1
    <2>2. PICK a, b, c \in Nat : a = q[m - 1] /\ b = h[m] /\ c = q[i]
      BY <1>1, <2>1
    <2>3. q[m] = a + b
      BY <1>1, <2>2
    <2>4. CASE i = m
      BY <1>1, <2>4
    <2>5. CASE i <= m - 1
      BY <2>2, <2>3, <2>5
    <2> QED
      BY <2>4, <2>5
  <1>4. \A m \in 0 .. Len(h) : m \in T
    <2> HIDE DEF T
    <2> QED
      BY <1>1, <1>2, <1>3, Ladder
  <1> QED
    BY <1>4 DEF q

LEMMA SumFacts ==
  ASSUME NEW h \in Seq(Nat)
  PROVE  /\ Sum(h) \in Nat /\ \A i \in 0 .. Len(h) : Running(h)[i] <= Sum(h)
         /\ \A i \in 1 .. Len(h) : h[i] <= Sum(h)
  <1>1. Len(h) \in Nat /\ Sum(h) = Running(h)[Len(h)]
    BY DEF Sum
  <1>2. Sum(h) \in Nat /\ \A i \in 0 .. Len(h) : Running(h)[i] <= Sum(h)
    BY <1>1, RunningFacts, RunningGrows
  <1>3. ASSUME NEW i \in 1 .. Len(h) PROVE h[i] <= Sum(h)
    <2>1. i - 1 \in 0 .. Len(h) /\ i \in 0 .. Len(h)
      BY <1>1
    <2>2. PICK a, b, c \in Nat : a = Running(h)[i - 1] /\ b = h[i] /\ c = Running(h)[i]
      <3>1. Running(h)[i - 1] \in Nat /\ h[i] \in Nat /\ Running(h)[i] \in Nat
        BY <2>1, RunningFacts
      <3> QED
        BY <3>1, Zenon
    <2>3. c = a + b /\ c <= Sum(h)
      BY <1>2, <2>1, <2>2, RunningFacts
    <2> QED
      BY <1>2, <2>2, <2>3
  <1> QED
    BY <1>2, <1>3

\* Of two histograms, one nowhere above the other, or one task ahead in a bucket.
LEMMA SumOrder ==
  ASSUME NEW h \in Seq(Nat), NEW k \in Seq(Nat), Len(h) = Len(k),
         \A i \in 1 .. Len(h) : h[i] <= k[i]
  PROVE  Sum(h) <= Sum(k)
  <1> DEFINE q == Running(h)
             r == Running(k)
             T == {m \in 0 .. Len(h) : q[m] <= r[m]}
  <1>1. /\ Len(h) \in Nat /\ q[0] = 0 /\ r[0] = 0
        /\ \A m \in 1 .. Len(h) : /\ h[m] \in Nat /\ q[m] = q[m - 1] + h[m]
                                  /\ k[m] \in Nat /\ r[m] = r[m - 1] + k[m]
        /\ \A m \in 0 .. Len(h) : q[m] \in Nat /\ r[m] \in Nat
    <2>1. /\ Len(h) \in Nat /\ q[0] = 0 /\ \A m \in 0 .. Len(h) : q[m] \in Nat
          /\ \A m \in 1 .. Len(h) : h[m] \in Nat /\ q[m] = q[m - 1] + h[m]
      BY Rungs, Zenon
    <2>2. /\ r[0] = 0 /\ \A m \in 0 .. Len(k) : r[m] \in Nat
          /\ \A m \in 1 .. Len(k) : k[m] \in Nat /\ r[m] = r[m - 1] + k[m]
      BY Rungs, Zenon
    <2> HIDE DEF q, r
    <2> QED
      BY <2>1, <2>2
  <1>2. Sum(h) = q[Len(h)] /\ Sum(k) = r[Len(h)]
    BY DEF Sum
  <1> HIDE DEF q, r
  <1>3. 0 \in T
    BY <1>1
  <1>4. \A m \in 1 .. Len(h) : m - 1 \in T => m \in T
    <2> SUFFICES ASSUME NEW m \in 1 .. Len(h), m - 1 \in T PROVE q[m] <= r[m]
      BY <1>1
    <2>1. m - 1 \in 0 .. Len(h)
      BY <1>1
    <2>2. PICK a, b, c, d \in Nat : a = q[m - 1] /\ b = h[m] /\ c = r[m - 1] /\ d = k[m]
      BY <1>1, <2>1
    <2>3. q[m] = a + b /\ r[m] = c + d /\ a <= c /\ b <= d
      BY <1>1, <2>2
    <2>4. \A x, y, z, w \in Nat : x <= z /\ y <= w => x + y <= z + w
      OBVIOUS
    <2>5. a + b <= c + d
      BY <2>3, <2>4, Zenon
    <2> QED
      BY <2>3, <2>5, Zenon
  <1>5. \A m \in 0 .. Len(h) : m \in T
    <2> HIDE DEF T
    <2> QED
      BY <1>1, <1>3, <1>4, Ladder
  <1> QED
    BY <1>1, <1>2, <1>5

LEMMA SumBump ==
  ASSUME NEW h \in Seq(Nat), NEW k \in Seq(Nat), Len(h) = Len(k), NEW j \in 1 .. Len(h),
         k[j] = h[j] + 1, \A i \in 1 .. Len(h) : i # j => k[i] = h[i]
  PROVE  Sum(k) = Sum(h) + 1
  <1> DEFINE q == Running(h)
             r == Running(k)
             T == {m \in 0 .. Len(h) : r[m] = IF m < j THEN q[m] ELSE q[m] + 1}
  <1>1. /\ Len(h) \in Nat /\ q[0] = 0 /\ r[0] = 0
        /\ \A m \in 1 .. Len(h) : /\ h[m] \in Nat /\ q[m] = q[m - 1] + h[m]
                                  /\ k[m] \in Nat /\ r[m] = r[m - 1] + k[m]
        /\ \A m \in 0 .. Len(h) : q[m] \in Nat /\ r[m] \in Nat
    <2>1. /\ Len(h) \in Nat /\ q[0] = 0 /\ \A m \in 0 .. Len(h) : q[m] \in Nat
          /\ \A m \in 1 .. Len(h) : h[m] \in Nat /\ q[m] = q[m - 1] + h[m]
      BY Rungs, Zenon
    <2>2. /\ r[0] = 0 /\ \A m \in 0 .. Len(k) : r[m] \in Nat
          /\ \A m \in 1 .. Len(k) : k[m] \in Nat /\ r[m] = r[m - 1] + k[m]
      BY Rungs, Zenon
    <2> HIDE DEF q, r
    <2> QED
      BY <2>1, <2>2
  <1>2. Sum(h) = q[Len(h)] /\ Sum(k) = r[Len(h)]
    BY DEF Sum
  <1> HIDE DEF q, r
  <1>3. 0 \in T
    BY <1>1
  <1>4. \A m \in 1 .. Len(h) : m - 1 \in T => m \in T
    <2> SUFFICES ASSUME NEW m \in 1 .. Len(h), m - 1 \in T
                 PROVE  r[m] = IF m < j THEN q[m] ELSE q[m] + 1
      BY <1>1
    <2>1. m - 1 \in 0 .. Len(h) /\ (r[m - 1] = IF m - 1 < j THEN q[m - 1] ELSE q[m - 1] + 1)
      BY <1>1
    <2>2. PICK a, b, c, d \in Nat : a = q[m - 1] /\ b = h[m] /\ c = r[m - 1] /\ d = k[m]
      BY <1>1, <2>1
    <2>3. q[m] = a + b /\ r[m] = c + d /\ (c = IF m - 1 < j THEN a ELSE a + 1)
      BY <1>1, <2>1, <2>2
    <2>4. CASE m = j
      <3>1. d = b + 1 /\ c = a
        BY <2>2, <2>3, <2>4
      <3> QED
        BY <2>3, <2>4, <3>1
    <2>5. CASE m # j
      <3>1. d = b /\ (m < j <=> m - 1 < j)
        BY <2>2, <2>5
      <3> QED
        BY <2>3, <3>1
    <2> QED
      BY <2>4, <2>5
  <1>5. \A m \in 0 .. Len(h) : m \in T
    <2> HIDE DEF T
    <2> QED
      BY <1>1, <1>3, <1>4, Ladder
  <1>6. Len(h) \in T /\ ~ (Len(h) < j)
    BY <1>1, <1>5
  <1> QED
    BY <1>1, <1>2, <1>6

LEMMA SumUnsaturated ==
  ASSUME NEW h \in Seq(Nat)
  PROVE  Cumulative(h)[Len(h)] < MaxU64 /\ Len(h) > 0 => Sum(h) = Cumulative(h)[Len(h)]
  <1>1. Sum(h) = Running(h)[Len(h)] /\ Sum(h) \in Nat /\ Len(h) \in Nat
    BY SumFacts DEF Sum
  <1> QED
    BY <1>1, CumulativeFacts, TopTenantsAssumption DEF Least

-----------------------------------------------------------------------------
(* The lead of samples over buckets, and of drops over reasons.  A thread      *)
(* between the two additions is counted in a set, and each kind of addition    *)
(* moves one counter, one thread, or both.                                     *)

IsLate(C, a) == \E c \in C : a = << <<c, 1>> >>

LEMMA LateMoves ==
  ASSUME todo \in [Threads -> Pending], NEW th \in Threads, NEW CONSTANT C,
         NEW z \in Pending, todo' = [todo EXCEPT ![th] = z]
  PROVE  /\ Cardinality(Late(C)) \in Nat /\ Cardinality(Late(C)') \in Nat
         /\ (IsLate(C, z.adds) <=> IsLate(C, todo[th].adds)) =>
              Cardinality(Late(C)') = Cardinality(Late(C))
         /\ IsLate(C, z.adds) /\ ~ IsLate(C, todo[th].adds) =>
              Cardinality(Late(C)') = Cardinality(Late(C)) + 1
         /\ ~ IsLate(C, z.adds) /\ IsLate(C, todo[th].adds) =>
              Cardinality(Late(C)') = Cardinality(Late(C)) - 1
  <1> DEFINE A == {t \in Threads : IsLate(C, todo[t].adds)}
             B == {t \in Threads : IsLate(C, todo'[t].adds)}
  <1>1. Late(C) = A /\ Late(C)' = B
    BY DEF Late, IsLate
  <1>2. IsFiniteSet(A) /\ IsFiniteSet(B)
    BY MetricsAssumption, FS_Subset
  <1>3. Cardinality(A) \in Nat /\ Cardinality(B) \in Nat
    BY <1>2, FS_CardinalityType
  <1>4. todo'[th] = z /\ \A t \in Threads \ {th} : todo'[t] = todo[t]
    OBVIOUS
  <1>5. (th \in A <=> IsLate(C, todo[th].adds)) /\ (th \in B <=> IsLate(C, z.adds))
    BY <1>4
  <1>6. \A t \in Threads \ {th} : t \in A <=> t \in B
    BY <1>4
  <1>7. A \subseteq Threads /\ B \subseteq Threads
    OBVIOUS
  <1> HIDE DEF A, B
  <1>8. (th \in A <=> th \in B) => A = B
    BY <1>6, <1>7
  <1>9. th \in B /\ th \notin A => B = A \cup {th}
    BY <1>6, <1>7
  <1>10. th \in A /\ th \notin B => B = A \ {th}
    BY <1>6, <1>7
  <1>11. th \in B /\ th \notin A => Cardinality(B) = Cardinality(A) + 1
    BY <1>2, <1>9, FS_AddElement
  <1>12. th \in A /\ th \notin B => Cardinality(B) = Cardinality(A) - 1
    BY <1>2, <1>10, FS_RemoveElement
  <1> QED
    BY <1>1, <1>3, <1>5, <1>8, <1>11, <1>12

BucketCells == {Bucket(i) : i \in DOMAIN Bounds}
ReasonCells == {Counter(r) : r \in Why}
\* What an addition a does, and what is then left.
AddsSample(a) ==
  \E i \in DOMAIN Bounds : Head(a) = <<Samples, 1>> /\ Tail(a) = << <<Bucket(i), 1>> >>
AddsBucket(a) ==
  \E i \in DOMAIN Bounds : a = << <<Bucket(i), 1>> >> /\ Head(a) = <<Bucket(i), 1>> /\ Tail(a) = <<>>
AddsDrop(a) ==
  \E r \in Why : Head(a) = <<Dropped, 1>> /\ Tail(a) = << <<Counter(r), 1>> >>
AddsReason(a) ==
  \E r \in Why : a = << <<Counter(r), 1>> >> /\ Head(a) = <<Counter(r), 1>> /\ Tail(a) = <<>>
AddsOther(a) ==
  /\ Head(a)[1] \in {Counter("enqueued"), Counter("expired"), Counter("dequeued"),
                     Counter("queue_time_sum_ns")}
  /\ ~ IsLate(BucketCells, Tail(a)) /\ ~ IsLate(ReasonCells, Tail(a))
Left == {<<>>} \cup LastAdds \cup DropAdds \cup SampleAdds \cup SumAdds \cup DeliveryAdds

LEMMA CellsApart ==
  /\ BucketCells \cap ReasonCells = {}
  /\ Samples \notin BucketCells \cup ReasonCells /\ Dropped \notin BucketCells \cup ReasonCells
  /\ Samples # Dropped
  /\ {Counter("enqueued"), Counter("expired"), Counter("dequeued"), Counter("queue_time_sum_ns")}
       \cap (BucketCells \cup ReasonCells \cup {Samples, Dropped}) = {}
  /\ \A r, x \in Why : Counter(r) = Counter(x) => r = x
  /\ \A i, j \in DOMAIN Bounds : Bucket(i) = Bucket(j) => i = j
  BY DEF BucketCells, ReasonCells, Samples, Dropped, Counter, Bucket, Why, Reasons

LEMMA LateShape ==
  ASSUME NEW C, NEW a
  PROVE  IsLate(C, a) => Len(a) = 1 /\ a[1][1] \in C
  BY DEF IsLate

LEMMA LongLeft ==
  ASSUME NEW a \in DropAdds \cup SampleAdds \cup SumAdds \cup DeliveryAdds, NEW C
  PROVE  a # <<>> /\ ~ IsLate(C, a)
  <1>1. Len(a) # 1 /\ Len(a) # 0
    BY DEF DropAdds, SampleAdds, SumAdds, DeliveryAdds
  <1> QED
    BY <1>1, LateShape

LEMMA AddKinds ==
  ASSUME NEW a \in Left, a # <<>>
  PROVE  /\ Tail(a) \in Left
         /\ \/ AddsSample(a) /\ ~ IsLate(BucketCells, a) /\ ~ IsLate(ReasonCells, a)
            \/ AddsBucket(a)
            \/ AddsDrop(a) /\ ~ IsLate(BucketCells, a) /\ ~ IsLate(ReasonCells, a)
            \/ AddsReason(a)
            \/ AddsOther(a) /\ ~ IsLate(BucketCells, a) /\ ~ IsLate(ReasonCells, a)
  <1>0. \A C : ~ IsLate(C, <<>>)
    <2>1. Len(<<>>) # 1
      OBVIOUS
    <2> QED
      BY <2>1, LateShape
  <1>1. CASE a \in DropAdds
    <2>1. PICK r \in Why : a = <<Once("dropped", 1), Once(r, 1)>>
      BY <1>1 DEF DropAdds
    <2>2. Head(a) = <<Dropped, 1>> /\ Tail(a) = << <<Counter(r), 1>> >> /\ Tail(a) = <<Once(r, 1)>>
      BY <2>1 DEF Once, Dropped
    <2>3. Tail(a) \in Left
      BY <2>2 DEF Left, LastAdds
    <2> QED
      BY <1>1, <2>2, <2>3, LongLeft DEF AddsDrop
  <1>2. CASE a \in SampleAdds
    <2>1. PICK i \in DOMAIN Bounds : a = <<Once("queue_time_samples", 1), <<Bucket(i), 1>> >>
      BY <1>2 DEF SampleAdds
    <2>2. Head(a) = <<Samples, 1>> /\ Tail(a) = << <<Bucket(i), 1>> >>
      BY <2>1 DEF Once, Samples
    <2>3. Tail(a) \in Left
      BY <2>2 DEF Left, LastAdds
    <2> QED
      BY <1>2, <2>2, <2>3, LongLeft DEF AddsSample
  <1>3. CASE a \in SumAdds
    <2>1. PICK w \in Waits, i \in DOMAIN Bounds :
            a = <<Once("queue_time_sum_ns", w), Once("queue_time_samples", 1), <<Bucket(i), 1>> >>
      BY <1>3 DEF SumAdds
    <2>2. /\ Head(a)[1] = Counter("queue_time_sum_ns")
          /\ Tail(a) = <<Once("queue_time_samples", 1), <<Bucket(i), 1>> >>
      BY <2>1 DEF Once
    <2>3. Tail(a) \in SampleAdds
      BY <2>2 DEF SampleAdds
    <2>4. AddsOther(a)
      BY <2>2, <2>3, LongLeft DEF AddsOther
    <2> QED
      BY <1>3, <2>3, <2>4, LongLeft DEF Left
  <1>4. CASE a \in DeliveryAdds
    <2>1. PICK w \in Waits, i \in DOMAIN Bounds :
            a = <<Once("dequeued", 1), Once("queue_time_sum_ns", w), Once("queue_time_samples", 1),
                  <<Bucket(i), 1>> >>
      BY <1>4 DEF DeliveryAdds
    <2>2. /\ Head(a)[1] = Counter("dequeued")
          /\ Tail(a) = <<Once("queue_time_sum_ns", w), Once("queue_time_samples", 1), <<Bucket(i), 1>> >>
      BY <2>1 DEF Once
    <2>3. Tail(a) \in SumAdds
      BY <2>2 DEF SumAdds
    <2>4. AddsOther(a)
      BY <2>2, <2>3, LongLeft DEF AddsOther
    <2> QED
      BY <1>4, <2>3, <2>4, LongLeft DEF Left
  <1>5. CASE a \in {<< <<Bucket(i), 1>> >> : i \in DOMAIN Bounds}
    <2>1. PICK i \in DOMAIN Bounds : a = << <<Bucket(i), 1>> >>
      BY <1>5
    <2>2. Head(a) = <<Bucket(i), 1>> /\ Tail(a) = <<>>
      BY <2>1
    <2> QED
      BY <2>1, <2>2 DEF AddsBucket, Left
  <1>6. CASE a \in {<<Once(r, 1)>> : r \in Why}
    <2>1. PICK r \in Why : a = << <<Counter(r), 1>> >>
      BY <1>6 DEF Once
    <2>2. Head(a) = <<Counter(r), 1>> /\ Tail(a) = <<>>
      BY <2>1
    <2> QED
      BY <2>1, <2>2 DEF AddsReason, Left
  <1>7. CASE a \in {<<Once("enqueued", 1)>>} \cup {<<Once("expired", n)>> : n \in Expiries}
    <2>1. PICK c, n : c \in {Counter("enqueued"), Counter("expired")} /\ a = << <<c, n>> >>
      BY <1>7 DEF Once
    <2>2. Head(a)[1] = c /\ Tail(a) = <<>> /\ a[1][1] = c
      BY <2>1
    <2>3. c \notin BucketCells /\ c \notin ReasonCells
      BY <2>1, CellsApart
    <2>4. ~ IsLate(BucketCells, a) /\ ~ IsLate(ReasonCells, a)
      BY <2>2, <2>3, LateShape
    <2>5. AddsOther(a)
      BY <1>0, <2>1, <2>2 DEF AddsOther
    <2> QED
      BY <2>2, <2>4, <2>5 DEF Left
  <1> QED
    BY <1>1, <1>2, <1>3, <1>4, <1>5, <1>6, <1>7 DEF Left, LastAdds

LEMMA LeadFacts ==
  ASSUME cell \in [Cells -> 0 .. MaxU64]
  PROVE  /\ InBuckets \in Seq(Nat) /\ Len(InBuckets) = Len(Bounds)
         /\ DOMAIN Bounds = 1 .. Len(Bounds)
         /\ \A i \in 1 .. Len(Bounds) : InBuckets[i] = cell[Bucket(i)] /\ Bucket(i) \in Cells
         /\ Sum(InBuckets) \in Nat
         /\ \A r \in Why : Counter(r) \in Cells /\ cell[Counter(r)] \in Nat
         /\ Samples \in Cells /\ Dropped \in Cells
         /\ cell[Samples] \in Nat /\ cell[Dropped] \in Nat /\ MaxU64 \in Nat
         /\ ByReason \in Nat /\ \A r \in Why : cell[Counter(r)] <= ByReason
  <1>1. \A c \in Cells : cell[c] \in Nat /\ cell[c] <= MaxU64
    BY TopTenantsAssumption
  <1>2. \A i \in 1 .. Len(Bounds) : Bucket(i) \in Cells
    BY CellFacts
  <1>3. /\ Len(Bounds) \in Nat /\ DOMAIN Bounds = 1 .. Len(Bounds)
    BY LoadFacts
  <1>4. \A r \in Why : Counter(r) \in Cells
    BY CellFacts DEF Why, Reasons
  <1>5. Samples \in Cells /\ Dropped \in Cells
    BY CellFacts DEF Samples, Dropped
  <1>6. /\ InBuckets \in Seq(Nat) /\ Len(InBuckets) = Len(Bounds)
        /\ \A i \in 1 .. Len(Bounds) : InBuckets[i] = cell[Bucket(i)]
    BY <1>1, <1>2, <1>3 DEF InBuckets
  <1>7. ByReason \in Nat /\ \A r \in Why : cell[Counter(r)] <= ByReason
    <2>1. PICK a, b, c, d \in Nat :
            /\ a = cell[Counter("rejected_global")] /\ b = cell[Counter("rejected_tenant")]
            /\ c = cell[Counter("timeout_rejected")] /\ d = cell[Counter("dropped_policy")]
      BY <1>1, <1>4 DEF Why, Reasons
    <2>2. ByReason = a + b + c + d
      BY <2>1 DEF ByReason
    <2>3. \A r \in Why : cell[Counter(r)] \in {a, b, c, d}
      BY <2>1 DEF Why, Reasons
    <2> QED
      BY <2>2, <2>3
  <1>8. Sum(InBuckets) \in Nat
    BY <1>6, SumFacts
  <1> QED
    BY <1>1, <1>2, <1>3, <1>4, <1>5, <1>6, <1>7, <1>8, TopTenantsAssumption

\* The buckets and reasons that one addition touches.
LEMMA BumpFacts ==
  ASSUME cell \in [Cells -> 0 .. MaxU64], NEW c \in Cells, NEW d \in Nat,
         cell' = [cell EXCEPT ![c] = SaturatingAdd(@, d)]
  PROVE  /\ cell' \in [Cells -> 0 .. MaxU64]
         /\ \A x \in Cells : x # c => cell'[x] = cell[x]
         /\ d = 1 /\ cell[c] < MaxU64 => cell'[c] = cell[c] + 1
         /\ d = 1 /\ cell'[c] < MaxU64 => cell[c] < MaxU64 /\ cell'[c] = cell[c] + 1
  <1>1. cell[c] \in Nat /\ cell[c] <= MaxU64 /\ MaxU64 \in Nat
    BY TopTenantsAssumption
  <1>2. cell'[c] = SaturatingAdd(cell[c], d) /\ SaturatingAdd(cell[c], d) \in 0 .. MaxU64
    BY <1>1, Saturates
  <1>3. cell' \in [Cells -> 0 .. MaxU64] /\ \A x \in Cells : x # c => cell'[x] = cell[x]
    BY <1>2
  <1>4. d = 1 => cell'[c] = IF cell[c] + 1 > MaxU64 THEN MaxU64 ELSE cell[c] + 1
    BY <1>2 DEF SaturatingAdd
  <1> QED
    BY <1>1, <1>3, <1>4

LEMMA BucketsFrame ==
  ASSUME cell \in [Cells -> 0 .. MaxU64], cell' \in [Cells -> 0 .. MaxU64]
  PROVE  /\ (\A i \in DOMAIN Bounds : cell'[Bucket(i)] = cell[Bucket(i)]) => InBuckets' = InBuckets
         /\ (\A r \in Why : cell'[Counter(r)] = cell[Counter(r)]) => ByReason' = ByReason
         /\ \A j \in DOMAIN Bounds :
              /\ cell'[Bucket(j)] = cell[Bucket(j)] + 1
              /\ \A i \in DOMAIN Bounds : i # j => cell'[Bucket(i)] = cell[Bucket(i)]
              => Sum(InBuckets') = Sum(InBuckets) + 1
         /\ \A j \in Why :
              /\ cell'[Counter(j)] = cell[Counter(j)] + 1
              /\ \A r \in Why : r # j => cell'[Counter(r)] = cell[Counter(r)]
              => ByReason' = ByReason + 1
  <1>1. (\A i \in DOMAIN Bounds : cell'[Bucket(i)] = cell[Bucket(i)]) => InBuckets' = InBuckets
    BY DEF InBuckets
  <1>2. (\A r \in Why : cell'[Counter(r)] = cell[Counter(r)]) => ByReason' = ByReason
    BY DEF ByReason, Why, Reasons
  <1>3. ASSUME NEW j \in DOMAIN Bounds,
               cell'[Bucket(j)] = cell[Bucket(j)] + 1,
               \A i \in DOMAIN Bounds : i # j => cell'[Bucket(i)] = cell[Bucket(i)]
        PROVE  Sum(InBuckets') = Sum(InBuckets) + 1
    <2>1. /\ InBuckets' = [i \in DOMAIN Bounds |-> cell'[Bucket(i)]]
          /\ InBuckets = [i \in DOMAIN Bounds |-> cell[Bucket(i)]]
      BY DEF InBuckets
    <2>2. InBuckets \in Seq(Nat) /\ Len(InBuckets) = Len(Bounds) /\ DOMAIN Bounds = 1 .. Len(Bounds)
      BY LeadFacts
    <2>3. InBuckets' \in Seq(Nat) /\ Len(InBuckets') = Len(Bounds)
      <3>1. \A i \in 1 .. Len(Bounds) : cell'[Bucket(i)] \in Nat
        BY CellFacts, TopTenantsAssumption
      <3>2. PICK b \in Nat : b = Len(Bounds) /\ DOMAIN Bounds = 1 .. b
        BY LoadFacts
      <3>3. InBuckets' \in [1 .. b -> Nat]
        BY <2>1, <3>1, <3>2
      <3> QED
        BY <3>2, <3>3
    <2>4. /\ InBuckets'[j] = InBuckets[j] + 1 /\ j \in 1 .. Len(InBuckets)
          /\ \A i \in 1 .. Len(InBuckets) : i # j => InBuckets'[i] = InBuckets[i]
      BY <1>3, <2>1, <2>2
    <2> QED
      BY <2>2, <2>3, <2>4, SumBump
  <1>4. ASSUME NEW j \in Why,
               cell'[Counter(j)] = cell[Counter(j)] + 1,
               \A r \in Why : r # j => cell'[Counter(r)] = cell[Counter(r)]
        PROVE  ByReason' = ByReason + 1
    <2>1. PICK a, b, c, d \in Nat :
            /\ a = cell[Counter("rejected_global")] /\ b = cell[Counter("rejected_tenant")]
            /\ c = cell[Counter("timeout_rejected")] /\ d = cell[Counter("dropped_policy")]
      BY LeadFacts DEF Why, Reasons
    <2>2. ByReason = a + b + c + d
      BY <2>1 DEF ByReason
    <2>3. /\ cell'[Counter("rejected_global")] = IF j = "rejected_global" THEN a + 1 ELSE a
          /\ cell'[Counter("rejected_tenant")] = IF j = "rejected_tenant" THEN b + 1 ELSE b
          /\ cell'[Counter("timeout_rejected")] = IF j = "timeout_rejected" THEN c + 1 ELSE c
          /\ cell'[Counter("dropped_policy")] = IF j = "dropped_policy" THEN d + 1 ELSE d
      BY <1>4, <2>1 DEF Why, Reasons
    <2>4. j \in {"rejected_global", "rejected_tenant", "timeout_rejected", "dropped_policy"}
      BY DEF Why, Reasons
    <2>5. PICK x, y, z, w \in Nat :
            /\ x = cell'[Counter("rejected_global")] /\ y = cell'[Counter("rejected_tenant")]
            /\ z = cell'[Counter("timeout_rejected")] /\ w = cell'[Counter("dropped_policy")]
      <3>1. \A e \in Cells : cell'[e] \in Nat
        BY TopTenantsAssumption
      <3>2. \A r \in Why : cell'[Counter(r)] \in Nat
        BY <3>1, LeadFacts
      <3> QED
        BY <2>4, <3>2 DEF Why, Reasons
    <2>6. ByReason' = x + y + z + w
      BY <2>5 DEF ByReason
    <2>7. x + y + z + w = a + b + c + d + 1
      BY <2>3, <2>4, <2>5
    <2> QED
      BY <2>2, <2>6, <2>7
  <1> QED
    BY <1>1, <1>2, <1>3, <1>4

LEMMA LeadKeeps ==
  ASSUME MetricsInv, LeadsKept, Remains, NEW th \in Threads, AddNext(th)
  PROVE  LeadsKept' /\ Remains'
  <1> DEFINE a == todo[th].adds
             z == [todo[th] EXCEPT !.adds = Tail(@)]
             LB == Cardinality(LateBuckets)
             LR == Cardinality(LateReasons)
  <1>1. /\ cell \in [Cells -> 0 .. MaxU64] /\ todo \in [Threads -> Pending]
        /\ todo[th] \in Pending /\ a \in Seq(Cells \X Nat) /\ a # <<>> /\ a \in Left
    BY MetricsFacts DEF AddNext, Pending, Remains, Left
  <1>2. z \in Pending /\ z.adds = Tail(a) /\ todo' = [todo EXCEPT ![th] = z]
    <2>1. Tail(a) \in Seq(Cells \X Nat)
      BY <1>1
    <2> QED
      BY <1>1, <2>1 DEF AddNext, Pending
  <1>3. PICK c \in Cells, d \in Nat : Head(a) = <<c, d>>
    <2>1. Head(a) \in Cells \X Nat
      <3> HIDE DEF a
      <3> QED
        BY <1>1
    <2> QED
      BY <2>1
  <1>4. cell' = [cell EXCEPT ![c] = SaturatingAdd(@, d)]
    <2>1. cell' = [cell EXCEPT ![Head(a)[1]] = SaturatingAdd(@, Head(a)[2])]
      BY DEF AddNext
    <2>2. Head(a)[1] = c /\ Head(a)[2] = d
      BY <1>3
    <2> QED
      BY <2>1, <2>2, Zenon
  <1>5. LateBuckets = Late(BucketCells) /\ LateReasons = Late(ReasonCells)
    BY DEF LateBuckets, LateReasons, BucketCells, ReasonCells
  <1> HIDE DEF a, z
  <1>6. /\ LB \in Nat /\ LB' \in Nat
        /\ (IsLate(BucketCells, Tail(a)) <=> IsLate(BucketCells, a)) => LB' = LB
        /\ IsLate(BucketCells, Tail(a)) /\ ~ IsLate(BucketCells, a) => LB' = LB + 1
        /\ ~ IsLate(BucketCells, Tail(a)) /\ IsLate(BucketCells, a) => LB' = LB - 1
    <2>1. LateBuckets' = Late(BucketCells)'
      BY <1>5 DEF LateBuckets, BucketCells
    <2> QED
      BY <1>1, <1>2, <1>5, <2>1, LateMoves DEF a
  <1>7. /\ LR \in Nat /\ LR' \in Nat
        /\ (IsLate(ReasonCells, Tail(a)) <=> IsLate(ReasonCells, a)) => LR' = LR
        /\ IsLate(ReasonCells, Tail(a)) /\ ~ IsLate(ReasonCells, a) => LR' = LR + 1
        /\ ~ IsLate(ReasonCells, Tail(a)) /\ IsLate(ReasonCells, a) => LR' = LR - 1
    <2>1. LateReasons' = Late(ReasonCells)'
      BY <1>5 DEF LateReasons, ReasonCells
    <2> QED
      BY <1>1, <1>2, <1>5, <2>1, LateMoves DEF a
  <1>8. /\ cell' \in [Cells -> 0 .. MaxU64]
        /\ \A x \in Cells : x # c => cell'[x] = cell[x]
        /\ d = 1 /\ cell[c] < MaxU64 => cell'[c] = cell[c] + 1
        /\ d = 1 /\ cell'[c] < MaxU64 => cell[c] < MaxU64 /\ cell'[c] = cell[c] + 1
    BY <1>1, <1>4, BumpFacts
  <1>9. /\ Samples \in Cells /\ Dropped \in Cells
        /\ \A i \in DOMAIN Bounds : Bucket(i) \in Cells /\ Bucket(i) \in BucketCells
        /\ \A r \in Why : Counter(r) \in Cells /\ Counter(r) \in ReasonCells
    BY <1>1, LeadFacts DEF BucketCells, ReasonCells
  <1>10. /\ Sum(InBuckets) \in Nat /\ ByReason \in Nat /\ MaxU64 \in Nat
         /\ cell[Samples] \in Nat /\ cell[Dropped] \in Nat
    BY <1>1, LeadFacts
  <1>11. /\ c \notin BucketCells => InBuckets' = InBuckets /\ Sum(InBuckets') = Sum(InBuckets)
         /\ c \notin ReasonCells => ByReason' = ByReason
    <2>1. c \notin BucketCells => \A i \in DOMAIN Bounds : cell'[Bucket(i)] = cell[Bucket(i)]
      BY <1>8, <1>9
    <2>2. c \notin ReasonCells => \A r \in Why : cell'[Counter(r)] = cell[Counter(r)]
      BY <1>8, <1>9
    <2> QED
      BY <1>1, <1>8, <2>1, <2>2, BucketsFrame
  <1>12. ~ IsLate(BucketCells, <<>>) /\ ~ IsLate(ReasonCells, <<>>)
    <2>1. Len(<<>>) # 1
      OBVIOUS
    <2> QED
      BY <2>1, LateShape
  <1>13. \A x : (IsLate(BucketCells, x) => ~ IsLate(ReasonCells, x))
    BY CellsApart, LateShape
  <1>14. \A i \in DOMAIN Bounds : IsLate(BucketCells, << <<Bucket(i), 1>> >>)
    BY DEF IsLate, BucketCells
  <1>15. \A r \in Why : IsLate(ReasonCells, << <<Counter(r), 1>> >>)
    BY DEF IsLate, ReasonCells
  <1> DEFINE SampleSide == cell[Samples] < MaxU64 => Sum(InBuckets) + LB = cell[Samples]
             DropSide == cell[Dropped] < MaxU64 => ByReason + LR = cell[Dropped]
  <1>16. SampleSide /\ DropSide
    BY DEF LeadsKept
  <1>17. c # Samples /\ c \notin BucketCells /\ LB' = LB => SampleSide'
    <2> SUFFICES ASSUME c # Samples, c \notin BucketCells, LB' = LB PROVE SampleSide'
      OBVIOUS
    <2>1. cell'[Samples] = cell[Samples] /\ Sum(InBuckets') = Sum(InBuckets)
      BY <1>8, <1>9, <1>11
    <2> QED
      BY <1>16, <2>1
  <1>18. c # Dropped /\ c \notin ReasonCells /\ LR' = LR => DropSide'
    <2> SUFFICES ASSUME c # Dropped, c \notin ReasonCells, LR' = LR PROVE DropSide'
      OBVIOUS
    <2>1. cell'[Dropped] = cell[Dropped] /\ ByReason' = ByReason
      BY <1>8, <1>9, <1>11
    <2> QED
      BY <1>16, <2>1
  <1>19. ASSUME AddsSample(a) /\ ~ IsLate(BucketCells, a) /\ ~ IsLate(ReasonCells, a)
         PROVE  SampleSide' /\ DropSide'
    <2>1. PICK i \in DOMAIN Bounds : c = Samples /\ d = 1 /\ Tail(a) = << <<Bucket(i), 1>> >>
      BY <1>3, <1>19 DEF AddsSample
    <2>2. LB' = LB + 1 /\ LR' = LR
      BY <1>6, <1>7, <1>13, <1>14, <1>19, <2>1
    <2>3. DropSide'
      BY <1>18, <2>1, <2>2, CellsApart
    <2>4. SampleSide'
      <3> SUFFICES ASSUME cell'[Samples] < MaxU64
                   PROVE  Sum(InBuckets') + LB' = cell'[Samples]
        OBVIOUS
      <3>1. cell[Samples] < MaxU64 /\ cell'[Samples] = cell[Samples] + 1
        BY <1>8, <2>1
      <3>2. Sum(InBuckets) + LB = cell[Samples]
        BY <1>16, <3>1
      <3>3. Sum(InBuckets') = Sum(InBuckets)
        BY <1>11, <2>1, CellsApart
      <3> QED
        BY <1>6, <1>10, <2>2, <3>1, <3>2, <3>3
    <2> QED
      BY <2>3, <2>4
  <1>20. ASSUME AddsDrop(a) /\ ~ IsLate(BucketCells, a) /\ ~ IsLate(ReasonCells, a)
         PROVE  SampleSide' /\ DropSide'
    <2>1. PICK r \in Why : c = Dropped /\ d = 1 /\ Tail(a) = << <<Counter(r), 1>> >>
      BY <1>3, <1>20 DEF AddsDrop
    <2>2. LR' = LR + 1 /\ LB' = LB
      BY <1>6, <1>7, <1>13, <1>15, <1>20, <2>1
    <2>3. SampleSide'
      BY <1>17, <2>1, <2>2, CellsApart
    <2>4. DropSide'
      <3> SUFFICES ASSUME cell'[Dropped] < MaxU64
                   PROVE  ByReason' + LR' = cell'[Dropped]
        OBVIOUS
      <3>1. cell[Dropped] < MaxU64 /\ cell'[Dropped] = cell[Dropped] + 1
        BY <1>8, <2>1
      <3>2. ByReason + LR = cell[Dropped]
        BY <1>16, <3>1
      <3>3. ByReason' = ByReason
        BY <1>11, <2>1, CellsApart
      <3> QED
        BY <1>7, <1>10, <2>2, <3>1, <3>2, <3>3
    <2> QED
      BY <2>3, <2>4
  <1>21. ASSUME AddsBucket(a)
         PROVE  SampleSide' /\ DropSide'
    <2>1. PICK i \in DOMAIN Bounds :
            c = Bucket(i) /\ d = 1 /\ a = << <<Bucket(i), 1>> >> /\ Tail(a) = <<>>
      BY <1>3, <1>21 DEF AddsBucket
    <2>2. LB' = LB - 1 /\ LR' = LR /\ c \in BucketCells
      BY <1>6, <1>7, <1>9, <1>12, <1>13, <1>14, <2>1
    <2>3. DropSide'
      BY <1>18, <2>2, CellsApart
    <2>4. SampleSide'
      <3> SUFFICES ASSUME cell'[Samples] < MaxU64
                   PROVE  Sum(InBuckets') + LB' = cell'[Samples]
        OBVIOUS
      <3>1. cell'[Samples] = cell[Samples]
        BY <1>8, <1>9, <2>2, CellsApart
      <3>2. Sum(InBuckets) + LB = cell[Samples]
        BY <1>16, <3>1
      <3>3. cell[c] \in Nat /\ cell[c] <= Sum(InBuckets)
        <4>1. /\ InBuckets \in Seq(Nat) /\ i \in 1 .. Len(InBuckets) /\ InBuckets[i] = cell[c]
          BY <1>1, <2>1, LeadFacts
        <4> QED
          BY <4>1, SumFacts
      <3>4. cell[c] < MaxU64
        BY <1>6, <1>10, <3>1, <3>2, <3>3
      <3>5. cell'[Bucket(i)] = cell[Bucket(i)] + 1
        BY <1>8, <2>1, <3>4
      <3>6. \A j \in DOMAIN Bounds : j # i => cell'[Bucket(j)] = cell[Bucket(j)]
        BY <1>8, <1>9, <2>1, CellsApart
      <3>7. Sum(InBuckets') = Sum(InBuckets) + 1
        BY <1>1, <1>8, <3>5, <3>6, BucketsFrame
      <3> QED
        BY <1>6, <1>10, <2>2, <3>1, <3>2, <3>7
    <2> QED
      BY <2>3, <2>4
  <1>22. ASSUME AddsReason(a)
         PROVE  SampleSide' /\ DropSide'
    <2>1. PICK r \in Why :
            c = Counter(r) /\ d = 1 /\ a = << <<Counter(r), 1>> >> /\ Tail(a) = <<>>
      BY <1>3, <1>22 DEF AddsReason
    <2>2. LR' = LR - 1 /\ LB' = LB /\ c \in ReasonCells
      BY <1>6, <1>7, <1>9, <1>12, <1>13, <1>15, <2>1
    <2>3. SampleSide'
      BY <1>17, <2>2, CellsApart
    <2>4. DropSide'
      <3> SUFFICES ASSUME cell'[Dropped] < MaxU64
                   PROVE  ByReason' + LR' = cell'[Dropped]
        OBVIOUS
      <3>1. cell'[Dropped] = cell[Dropped]
        BY <1>8, <1>9, <2>2, CellsApart
      <3>2. ByReason + LR = cell[Dropped]
        BY <1>16, <3>1
      <3>3. cell[c] \in Nat /\ cell[c] <= ByReason
        BY <1>1, <2>1, LeadFacts
      <3>4. cell[c] < MaxU64
        BY <1>7, <1>10, <3>1, <3>2, <3>3
      <3>5. cell'[Counter(r)] = cell[Counter(r)] + 1
        BY <1>8, <2>1, <3>4
      <3>6. \A x \in Why : x # r => cell'[Counter(x)] = cell[Counter(x)]
        BY <1>8, <1>9, <2>1, CellsApart
      <3>7. ByReason' = ByReason + 1
        BY <1>1, <1>8, <3>5, <3>6, BucketsFrame
      <3> QED
        BY <1>7, <1>10, <2>2, <3>1, <3>2, <3>7
    <2> QED
      BY <2>3, <2>4
  <1>23. ASSUME AddsOther(a) /\ ~ IsLate(BucketCells, a) /\ ~ IsLate(ReasonCells, a)
         PROVE  SampleSide' /\ DropSide'
    <2>1. c \in {Counter("enqueued"), Counter("expired"), Counter("dequeued"),
                 Counter("queue_time_sum_ns")}
      BY <1>3, <1>23 DEF AddsOther
    <2>2. LB' = LB /\ LR' = LR
      BY <1>6, <1>7, <1>23 DEF AddsOther
    <2>3. c # Samples /\ c # Dropped /\ c \notin BucketCells /\ c \notin ReasonCells
      BY <2>1, CellsApart
    <2> QED
      BY <1>17, <1>18, <2>2, <2>3
  <1>24. SampleSide' /\ DropSide'
    BY <1>1, <1>19, <1>20, <1>21, <1>22, <1>23, AddKinds
  <1>25. Remains'
    <2>1. \A t \in Threads : todo[t].adds \in Left
      BY DEF Remains, Left
    <2>2. Tail(a) \in Left
      BY <1>1, AddKinds
    <2>3. \A t \in Threads : todo'[t].adds \in Left
      BY <1>1, <1>2, <2>1, <2>2
    <2> QED
      BY <2>3 DEF Remains, Left
  <1> QED
    BY <1>24, <1>25 DEF LeadsKept

\* Beginning and ending a recording puts no thread between two additions.
LEMMA EdgesKeep ==
  ASSUME MetricsInv, LeadsKept, Remains, UNCHANGED cell, NEW th \in Threads,
         NEW z \in Pending, todo' = [todo EXCEPT ![th] = z], todo[th].adds = <<>>,
         z = Nothing \/ z \in Recordings
  PROVE  LeadsKept' /\ Remains'
  <1>1. /\ cell \in [Cells -> 0 .. MaxU64] /\ todo \in [Threads -> Pending]
    BY MetricsFacts
  <1>2. ~ IsLate(BucketCells, <<>>) /\ ~ IsLate(ReasonCells, <<>>)
    <2>1. Len(<<>>) # 1
      OBVIOUS
    <2> QED
      BY <2>1, LateShape
  <1>3. z.adds \in Left /\ ~ IsLate(BucketCells, z.adds) /\ ~ IsLate(ReasonCells, z.adds)
    <2>1. CASE z = Nothing
      BY <1>2, <2>1 DEF Nothing, Left
    <2>2. CASE z.adds \in DropAdds \cup DeliveryAdds
      BY <2>2, LongLeft DEF Left
    <2>3. CASE z.adds \in {<<Once("enqueued", 1)>>} \cup {<<Once("expired", n)>> : n \in Expiries}
      <3>1. PICK c, n : c \in {Counter("enqueued"), Counter("expired")} /\ z.adds = << <<c, n>> >>
        BY <2>3 DEF Once
      <3>2. z.adds[1][1] = c
        BY <3>1
      <3> QED
        BY <2>3, <3>1, <3>2, CellsApart, LateShape DEF Left, LastAdds
    <2>4. CASE z \in Recordings
      <3>1. z = Enqueued => z.adds \in {<<Once("enqueued", 1)>>}
        BY DEF Enqueued
      <3>2. z = PolicyDropped => z.adds \in DropAdds
        BY DEF PolicyDropped, DropAdds, Why
      <3>3. z \in {ExpiredTasks(n) : n \in Expiries} => z.adds \in {<<Once("expired", n)>> : n \in Expiries}
        BY DEF ExpiredTasks
      <3>4. z \in {Rejected(r) : r \in Reasons} => z.adds \in DropAdds
        BY DEF Rejected, DropAdds, Why
      <3>5. z \in {Delivered(k, w) : k \in Keys, w \in Waits} => z.adds \in DeliveryAdds
        <4> SUFFICES ASSUME NEW k \in Keys, NEW w \in Waits, z = Delivered(k, w)
                     PROVE  z.adds \in DeliveryAdds
          OBVIOUS
        <4>1. BucketOf(w) \in DOMAIN Bounds
          BY BucketFacts, LoadFacts
        <4> QED
          BY <4>1 DEF Delivered, DeliveryAdds
      <3> QED
        BY <2>2, <2>3, <2>4, <3>1, <3>2, <3>3, <3>4, <3>5 DEF Recordings
    <2> QED
      BY <2>1, <2>4
  <1>4. /\ LateBuckets = Late(BucketCells) /\ LateBuckets' = Late(BucketCells)'
        /\ LateReasons = Late(ReasonCells) /\ LateReasons' = Late(ReasonCells)'
    BY DEF LateBuckets, LateReasons, BucketCells, ReasonCells
  <1>5. Cardinality(LateBuckets') = Cardinality(LateBuckets)
    BY <1>1, <1>2, <1>3, <1>4, LateMoves
  <1>6. Cardinality(LateReasons') = Cardinality(LateReasons)
    BY <1>1, <1>2, <1>3, <1>4, LateMoves
  <1>7. InBuckets' = InBuckets /\ ByReason' = ByReason
    BY DEF InBuckets, ByReason
  <1>8. LeadsKept'
    BY <1>5, <1>6, <1>7 DEF LeadsKept
  <1>9. Remains'
    <2>1. \A t \in Threads : todo[t].adds \in Left
      BY DEF Remains, Left
    <2>2. \A t \in Threads : todo'[t].adds \in Left
      BY <1>1, <1>3, <2>1
    <2> QED
      BY <2>2 DEF Remains, Left
  <1> QED
    BY <1>8, <1>9

\* A recording's own steps: only Begin finds a thread idle, and it marks the read.
LEMMA RecordingReads ==
  ASSUME MetricsInv, ReadTrue, NEW th \in Threads,
         (\E r \in Recordings : Begin(th, r)) \/ AddNext(th) \/ RecordTop(th)
  PROVE  ReadTrue'
  <1>1. UNCHANGED snap
    BY DEF Begin, AddNext, RecordTop, readVars
  <1>2. overlap'
    <2>1. CASE \E r \in Recordings : Begin(th, r)
      BY <2>1 DEF Begin
    <2>2. CASE AddNext(th)
      <3>1. todo[th] # Nothing /\ overlap' = overlap
        BY <2>2 DEF AddNext, Nothing, readVars
      <3> QED
        BY <3>1 DEF ReadTrue, Quiet
    <2>3. CASE RecordTop(th)
      <3>1. todo[th] # Nothing /\ overlap' = overlap
        BY <2>3 DEF RecordTop, Nothing, readVars
      <3> QED
        BY <3>1 DEF ReadTrue, Quiet
    <2> QED
      BY <2>1, <2>2, <2>3
  <1>3. Loaded' = Loaded
    BY <1>1 DEF Loaded
  <1> QED
    BY <1>1, <1>2, <1>3 DEF ReadTrue, Complete

LEMMA StartReadTrue ==
  ASSUME MetricsInv, StartRead
  PROVE  ReadTrue'
  <1>1. /\ Len(snap') = 1 /\ DOMAIN snap' = {1} /\ snap'[1] = cell[LoadOrder[1]]
        /\ UNCHANGED <<cell, todo>> /\ overlap' = ~Quiet
    BY StartReadKeeps DEF StartRead
  <1>2. Quiet' = Quiet
    BY <1>1 DEF Quiet
  <1>3. ~ Complete'
    BY <1>1, LoadFacts DEF Complete
  <1>4. LoadOrder[1] # Top
    BY LoadFacts
  <1>5. ~ overlap' => Quiet' /\ snap'[1] = cell'[LoadOrder[1]]
    BY <1>1, <1>2
  <1>6. \A i \in DOMAIN snap' : i = 1
    BY <1>1
  <1> QED
    BY <1>3, <1>4, <1>5, <1>6, Zenon DEF ReadTrue

LEMMA SortedShape ==
  ASSUME NEW e \in Entries
  PROVE  Len(Sorted(e)) \in Nat /\ Sorted(e) = [j \in 1 .. Len(Sorted(e)) |-> Sorted(e)[j]]
  <1>1. DOMAIN e = 1 .. Len(e) /\ Len(e) \in Nat
    BY EntryFacts
  <1> DEFINE p == CHOOSE p \in [DOMAIN e -> DOMAIN e] : \A i, j \in DOMAIN e : i < j =>
             \/ e[p[i]].count > e[p[j]].count
             \/ e[p[i]].count = e[p[j]].count /\ p[i] < p[j]
  <1>2. Sorted(e) = [i \in DOMAIN e |-> e[p[i]]]
    BY DEF Sorted
  <1> HIDE DEF p
  <1> QED
    BY <1>1, <1>2

LEMMA LoadTrue ==
  ASSUME MetricsInv, LeadsKept, ReadTrue, Load
  PROVE  ReadTrue'
  <1>1. /\ Len(snap') = Len(snap) + 1 /\ DOMAIN snap' = 1 .. Len(snap) + 1
        /\ Len(snap) < Len(LoadOrder)
        /\ \A i \in DOMAIN snap : snap'[i] = snap[i]
        /\ LoadOrder[Len(snap) + 1] = Top => snap'[Len(snap) + 1] = Sorted(top)
        /\ LoadOrder[Len(snap) + 1] # Top =>
              snap'[Len(snap) + 1] = cell[LoadOrder[Len(snap) + 1]]
        /\ UNCHANGED <<topVars, cell, todo, overlap>>
    BY LoadKeeps DEF Load
  <1>2. DOMAIN snap = 1 .. Len(snap) /\ Len(snap) \in Nat
    BY MetricsFacts
  <1>3. \A i \in DOMAIN snap' : i = Len(snap) + 1 \/ i \in DOMAIN snap
    BY <1>1, <1>2
  <1>4. ~overlap' => /\ Quiet'
                     /\ \A i \in DOMAIN snap' : LoadOrder[i] # Top => snap'[i] = cell'[LoadOrder[i]]
    BY <1>1, <1>3 DEF ReadTrue, Quiet
  <1>5. ASSUME Complete', snap'[Len(snap')] < MaxU64
        PROVE  Sum(Loaded') <= snap'[Len(snap')]
    <2>1. PICK b \in Nat \ {0} : b = Len(Bounds)
      BY LoadFacts
    <2>2. Len(snap) = b + 10 /\ Len(snap') = b + 11 /\ DOMAIN Bounds = 1 .. b
      <3>1. PICK n \in Nat : n = Len(snap)
        BY <1>2
      <3>2. Len(snap') = n + 1 /\ Len(snap') = b + 11
        BY <1>1, <1>5, <2>1, <3>1, LoadFacts DEF Complete
      <3>3. n = b + 10
        BY <3>2
      <3> QED
        BY <2>1, <3>1, <3>2, <3>3, LoadFacts
    <2>3. LoadOrder[b + 11] = Samples /\ Samples # Top
      <3>1. 10 \in 1 .. 10 /\ Plain[10] = "queue_time_samples" /\ b + 1 + 10 = b + 11
        BY <2>1 DEF Plain
      <3> QED
        BY <2>1, <3>1, LoadFacts DEF Samples
    <2>4. snap'[Len(snap')] = cell[Samples]
      <3>1. Len(snap) + 1 = b + 11
        BY <2>2
      <3> QED
        BY <1>1, <2>2, <2>3, <3>1
    <2>5. /\ cell \in [Cells -> 0 .. MaxU64] /\ InBuckets \in Seq(Nat) /\ Len(InBuckets) = b
          /\ \A i \in 1 .. b : InBuckets[i] = cell[Bucket(i)]
      BY <2>1, LeadFacts, MetricsFacts
    <2>6. \A i \in 1 .. b : i \in DOMAIN snap /\ LoadOrder[i] = Bucket(i) /\ LoadOrder[i] # Top
      BY <1>2, <2>1, <2>2, LoadFacts
    <2>7. \A i \in 1 .. b : snap'[i] \in Nat /\ snap'[i] <= InBuckets[i]
      BY <1>1, <2>5, <2>6, MetricsFacts
    <2>8. Loaded' = [i \in 1 .. b |-> snap'[i]]
      BY <2>2 DEF Loaded
    <2>9. /\ Loaded' \in Seq(Nat) /\ Len(Loaded') = b
          /\ \A i \in 1 .. b : Loaded'[i] <= InBuckets[i]
      BY <2>7, <2>8
    <2>10. Sum(Loaded') <= Sum(InBuckets)
      BY <2>5, <2>9, SumOrder
    <2>11. Sum(InBuckets) + Cardinality(LateBuckets) = cell[Samples]
      BY <1>5, <2>4 DEF LeadsKept
    <2>12. Cardinality(LateBuckets) \in Nat
      <3>1. IsFiniteSet(LateBuckets)
        BY MetricsAssumption, FS_Subset DEF LateBuckets, Late
      <3> QED
        BY <3>1, FS_CardinalityType
    <2>13. Sum(InBuckets) \in Nat /\ Sum(Loaded') \in Nat /\ cell[Samples] \in Nat
      BY <2>5, <2>9, SumFacts, LeadFacts
    <2> QED
      BY <2>4, <2>10, <2>11, <2>12, <2>13
  <1>6. \A i \in DOMAIN snap' :
          LoadOrder[i] = Top => /\ Len(snap'[i]) \in Nat
                                /\ snap'[i] = [j \in 1 .. Len(snap'[i]) |-> snap'[i][j]]
    <2>1. top \in Entries
      BY DEF MetricsInv, SummaryFits
    <2>2. Len(Sorted(top)) \in Nat /\ Sorted(top) = [j \in 1 .. Len(Sorted(top)) |-> Sorted(top)[j]]
      BY <2>1, SortedShape
    <2> SUFFICES ASSUME NEW i \in DOMAIN snap', LoadOrder[i] = Top
                 PROVE  /\ Len(snap'[i]) \in Nat
                        /\ snap'[i] = [j \in 1 .. Len(snap'[i]) |-> snap'[i][j]]
      OBVIOUS
    <2>3. CASE i = Len(snap) + 1
      <3>1. snap'[i] = Sorted(top)
        BY <1>1, <2>3
      <3> QED
        BY <2>2, <3>1
    <2>4. CASE i \in DOMAIN snap
      <3>1. snap'[i] = snap[i]
        BY <1>1, <2>4
      <3> QED
        BY <2>4, <3>1 DEF ReadTrue
    <2> QED
      BY <1>3, <2>3, <2>4
  <1> QED
    BY <1>4, <1>5, <1>6 DEF ReadTrue

LEMMA InitScrape == MetricsInit => ScrapeInv
  <1> SUFFICES ASSUME MetricsInit PROVE ScrapeInv
    OBVIOUS
  <1> DEFINE n(h) == Cumulative(h)[Len(h)]
  <1>1. PICK h \in Past, k \in Keys :
          /\ cell = [c \in Cells |->
               IF \E i \in DOMAIN h : c = Bucket(i) THEN h[c[2]]
               ELSE IF c[1] \in {"enqueued", "dequeued", "queue_time_samples"} THEN n(h)
               ELSE 0]
    BY DEF MetricsInit
  <1> DEFINE m == n(h)
  <1>2. h \in Seq(Nat) /\ Len(h) = Len(Bounds) /\ Len(h) > 0 /\ DOMAIN h = 1 .. Len(Bounds) /\ m \in 0 .. MaxU64
    BY PastFacts, LoadFacts
  <1>3. m < MaxU64 => Sum(h) = m
    BY <1>2, SumUnsaturated
  <1> HIDE DEF n
  <1>4. cell \in [Cells -> 0 .. MaxU64]
    BY InitMetrics DEF MetricsInv, MetricsTypeInv
  <1>5. InBuckets = h
    <2>1. \A i \in 1 .. Len(Bounds) : cell[Bucket(i)] = h[i]
      <3> SUFFICES ASSUME NEW i \in 1 .. Len(Bounds) PROVE cell[Bucket(i)] = h[i]
        OBVIOUS
      <3>1. Bucket(i) \in Cells /\ Bucket(i)[2] = i /\ i \in DOMAIN h
        BY <1>2, CellFacts DEF Bucket
      <3> QED
        BY <1>1, <3>1
    <2>2. h = [i \in 1 .. Len(Bounds) |-> h[i]]
      BY <1>2
    <2> QED
      BY <2>1, <2>2, LoadFacts DEF InBuckets
  <1>6. \A c \in ReasonCells \cup {Samples, Dropped} : ~ \E i \in DOMAIN h : c = Bucket(i)
    BY DEF ReasonCells, Samples, Dropped, Counter, Bucket, Why, Reasons
  <1>7. cell[Samples] = m
    <2>1. Samples \in Cells /\ Samples[1] = "queue_time_samples"
      BY <1>4, LeadFacts DEF Samples, Counter
    <2> QED
      BY <1>1, <1>6, <2>1
  <1>8. cell[Dropped] = 0
    <2>1. Dropped \in Cells /\ Dropped[1] = "dropped"
      BY <1>4, LeadFacts DEF Dropped, Counter
    <2> QED
      BY <1>1, <1>6, <2>1
  <1>9. \A r \in Why : cell[Counter(r)] = 0
    <2> SUFFICES ASSUME NEW r \in Why PROVE cell[Counter(r)] = 0
      OBVIOUS
    <2>1. /\ Counter(r) \in Cells /\ Counter(r) \in ReasonCells /\ Counter(r)[1] = r
          /\ r \notin {"enqueued", "dequeued", "queue_time_samples"}
      BY <1>4, LeadFacts DEF ReasonCells, Counter, Why, Reasons
    <2> QED
      BY <1>1, <1>6, <2>1
  <1>10. ByReason = 0
    <2>1. /\ cell[Counter("rejected_global")] = 0 /\ cell[Counter("rejected_tenant")] = 0
          /\ cell[Counter("timeout_rejected")] = 0 /\ cell[Counter("dropped_policy")] = 0
      BY <1>9 DEF Why, Reasons
    <2> QED
      BY <2>1 DEF ByReason
  <1>11. \A th \in Threads : todo[th] = Nothing /\ todo[th].adds = <<>>
    BY DEF MetricsInit, Nothing
  <1>12. LateBuckets = {} /\ LateReasons = {}
    <2>1. \A c : << <<c, 1>> >> # <<>>
      <3> SUFFICES ASSUME NEW c PROVE << <<c, 1>> >> # <<>>
        OBVIOUS
      <3>1. Len(<< <<c, 1>> >>) = 1 /\ Len(<<>>) = 0
        OBVIOUS
      <3> QED
        BY <3>1
    <2> QED
      BY <1>11, <2>1 DEF LateBuckets, LateReasons, Late
  <1>13. Cardinality({}) = 0
    BY FS_EmptySet
  <1>14. LeadsKept
    <2>1. cell[Samples] < MaxU64 => Sum(InBuckets) + Cardinality(LateBuckets) = cell[Samples]
      BY <1>2, <1>3, <1>5, <1>7, <1>12, <1>13
    <2>2. cell[Dropped] < MaxU64 => ByReason + Cardinality(LateReasons) = cell[Dropped]
      BY <1>8, <1>10, <1>12, <1>13
    <2> QED
      BY <2>1, <2>2 DEF LeadsKept
  <1>15. Remains
    BY <1>11 DEF Remains
  <1>16. ReadTrue
    <2>1. snap = <<>> /\ DOMAIN snap = {} /\ Len(snap) = 0
      BY DEF MetricsInit
    <2>2. ~ Complete
      <3>1. PICK b \in Nat : Len(LoadOrder) = b + 11
        BY LoadFacts
      <3> QED
        BY <2>1, <3>1 DEF Complete
    <2>3. Quiet
      BY DEF MetricsInit, Quiet
    <2> QED
      BY <2>1, <2>2, <2>3 DEF ReadTrue
  <1> QED
    BY <1>14, <1>15, <1>16 DEF ScrapeInv

\* The leads and the read, for every number of threads, buckets and reads.
THEOREM ScrapeInvariant == MetricsSpec => [](MetricsInv /\ ScrapeInv)
  <1>1. ASSUME MetricsInv, ScrapeInv, [MetricsNext]_metricsVars PROVE ScrapeInv'
    <2>1. LeadsKept /\ Remains /\ ReadTrue
      BY <1>1 DEF ScrapeInv
    <2>2. CASE UNCHANGED metricsVars
      <3>1. UNCHANGED <<cell, todo, snap, overlap>>
        BY <2>2 DEF metricsVars, readVars
      <3>2. LeadsKept' = LeadsKept
        BY <3>1 DEF LeadsKept, InBuckets, ByReason, LateBuckets, LateReasons, Late
      <3>3. Remains' = Remains
        BY <3>1 DEF Remains
      <3>4. ReadTrue' = ReadTrue
        BY <3>1 DEF ReadTrue, Complete, Loaded, Quiet
      <3> QED
        BY <2>1, <3>2, <3>3, <3>4 DEF ScrapeInv
    <2>3. ASSUME NEW th \in Threads, NEW r \in Recordings, Begin(th, r) PROVE ScrapeInv'
      <3>1. UNCHANGED cell /\ todo' = [todo EXCEPT ![th] = r] /\ todo[th].adds = <<>> /\ r \in Pending
        BY <2>3, RecordingFacts DEF Begin, Nothing
      <3>2. LeadsKept' /\ Remains'
        BY <1>1, <2>1, <3>1, EdgesKeep
      <3>3. ReadTrue'
        BY <1>1, <2>1, <2>3, RecordingReads
      <3> QED
        BY <3>2, <3>3 DEF ScrapeInv
    <2>4. ASSUME NEW th \in Threads, AddNext(th) PROVE ScrapeInv'
      BY <1>1, <2>1, <2>4, LeadKeeps, RecordingReads DEF ScrapeInv
    <2>5. ASSUME NEW th \in Threads, RecordTop(th) PROVE ScrapeInv'
      <3>1. UNCHANGED cell /\ todo' = [todo EXCEPT ![th] = Nothing] /\ todo[th].adds = <<>> /\ Nothing \in Pending
        BY <2>5, RecordingFacts DEF RecordTop
      <3>2. LeadsKept' /\ Remains'
        BY <1>1, <2>1, <3>1, EdgesKeep
      <3>3. ReadTrue'
        BY <1>1, <2>1, <2>5, RecordingReads
      <3> QED
        BY <3>2, <3>3 DEF ScrapeInv
    <2>6. CASE StartRead \/ Load
      <3>1. UNCHANGED <<cell, todo>>
        BY <2>6 DEF StartRead, Load
      <3>2. LeadsKept' = LeadsKept
        BY <3>1 DEF LeadsKept, InBuckets, ByReason, LateBuckets, LateReasons, Late
      <3>3. Remains' = Remains
        BY <3>1 DEF Remains
      <3>4. ReadTrue'
        BY <1>1, <2>1, <2>6, StartReadTrue, LoadTrue
      <3> QED
        BY <2>1, <3>2, <3>3, <3>4 DEF ScrapeInv
    <2> QED
      BY <1>1, <2>2, <2>3, <2>4, <2>5, <2>6 DEF MetricsNext
  <1> QED
    BY <1>1, MetricsInvariant, InitScrape, PTL DEF MetricsSpec

-----------------------------------------------------------------------------
(* What a finished read shows. *)

LEMMA LoadAtFacts ==
  /\ \A i \in 1 .. Len(Bounds) : LoadAt(Bucket(i)) = snap[i]
  /\ LoadAt(Top) = snap[Len(Bounds) + 1]
  /\ \A i \in 1 .. 10 : LoadAt(Counter(Plain[i])) = snap[Len(Bounds) + 1 + i]
  <1>1. PICK b \in Nat \ {0} : b = Len(Bounds)
    BY LoadFacts
  <1>2. /\ DOMAIN LoadOrder = 1 .. b + 11
        /\ \A i \in 1 .. b : LoadOrder[i] = Bucket(i)
        /\ LoadOrder[b + 1] = Top
        /\ \A i \in 1 .. 10 : LoadOrder[b + 1 + i] = Counter(Plain[i])
    BY <1>1, LoadFacts
  <1>3. \A i, j \in 1 .. 10 : Plain[i] = Plain[j] => i = j
    BY DEF Plain
  <1>4. \A i \in 1 .. 10 : Plain[i] # "top_tenants" /\ Plain[i] # "queue_time_buckets"
    BY DEF Plain
  <1>5. \A i, j \in Int : Bucket(i) = Bucket(j) => i = j
    BY DEF Bucket
  <1>6. \A i \in Int : Bucket(i) # Top /\ \A j \in 1 .. 10 : Bucket(i) # Counter(Plain[j])
    BY <1>4 DEF Bucket, Top, Counter
  <1>7. \A i \in 1 .. 10 : Counter(Plain[i]) # Top
    BY <1>4 DEF Counter, Top
  <1>8. \A i, j \in 1 .. 10 : Counter(Plain[i]) = Counter(Plain[j]) => i = j
    BY <1>3 DEF Counter
  <1>9. \A i \in 1 .. b + 11 : i \in 1 .. b \/ i = b + 1 \/ \E k \in 1 .. 10 : i = b + 1 + k
    <2> SUFFICES ASSUME NEW i \in 1 .. b + 11, i > b + 1
                 PROVE  \E k \in 1 .. 10 : i = b + 1 + k
      OBVIOUS
    <2>1. i - b - 1 \in 1 .. 10 /\ i = b + 1 + (i - b - 1)
      OBVIOUS
    <2> QED
      BY <2>1
  <1>10. \A i \in 1 .. b : i \in 1 .. b + 11 /\ \A j \in 1 .. b + 11 : LoadOrder[j] = Bucket(i) => j = i
    <2> SUFFICES ASSUME NEW i \in 1 .. b, NEW j \in 1 .. b + 11, LoadOrder[j] = Bucket(i)
                 PROVE  j = i
      OBVIOUS
    <2>1. CASE j \in 1 .. b
      BY <1>2, <1>5, <2>1
    <2>2. CASE j = b + 1
      BY <1>2, <1>6, <2>2
    <2>3. CASE \E k \in 1 .. 10 : j = b + 1 + k
      <3>1. PICK k \in 1 .. 10 : j = b + 1 + k
        BY <2>3
      <3>2. i \in Int
        OBVIOUS
      <3>3. LoadOrder[b + 1 + k] = Counter(Plain[k])
        BY <1>2, Zenon
      <3> QED
        BY <1>6, <3>1, <3>2, <3>3, Zenon
    <2> QED
      BY <1>9, <2>1, <2>2, <2>3
  <1>11. b + 1 \in 1 .. b + 11 /\ \A j \in 1 .. b + 11 : LoadOrder[j] = Top => j = b + 1
    <2> SUFFICES ASSUME NEW j \in 1 .. b + 11, LoadOrder[j] = Top
                 PROVE  j = b + 1
      OBVIOUS
    <2>1. CASE j \in 1 .. b
      <3>1. LoadOrder[j] = Bucket(j) /\ j \in Int
        BY <1>2, <2>1
      <3> QED
        BY <1>6, <3>1, Zenon
    <2>2. CASE \E k \in 1 .. 10 : j = b + 1 + k
      <3>1. PICK k \in 1 .. 10 : j = b + 1 + k
        BY <2>2
      <3>2. LoadOrder[b + 1 + k] = Counter(Plain[k])
        BY <1>2, Zenon
      <3> QED
        BY <1>7, <3>1, <3>2, Zenon
    <2> QED
      BY <1>9, <2>1, <2>2
  <1>12. \A i \in 1 .. 10 : /\ b + 1 + i \in 1 .. b + 11
                            /\ \A j \in 1 .. b + 11 : LoadOrder[j] = Counter(Plain[i]) => j = b + 1 + i
    <2> SUFFICES ASSUME NEW i \in 1 .. 10, NEW j \in 1 .. b + 11,
                        LoadOrder[j] = Counter(Plain[i])
                 PROVE  j = b + 1 + i
      OBVIOUS
    <2>1. CASE j \in 1 .. b
      <3>1. LoadOrder[j] = Bucket(j) /\ j \in Int
        BY <1>2, <2>1
      <3> QED
        BY <1>6, <3>1, Zenon
    <2>2. CASE j = b + 1
      BY <1>2, <1>7, <2>2
    <2>3. CASE \E k \in 1 .. 10 : j = b + 1 + k
      <3>1. PICK k \in 1 .. 10 : j = b + 1 + k
        BY <2>3
      <3>2. Counter(Plain[k]) = Counter(Plain[i])
        BY <1>2, <3>1
      <3> QED
        BY <1>8, <3>1, <3>2
    <2> QED
      BY <1>9, <2>1, <2>2, <2>3
  <1>13. \A i \in 1 .. b : LoadAt(Bucket(i)) = snap[i]
    <2> SUFFICES ASSUME NEW i \in 1 .. b PROVE LoadAt(Bucket(i)) = snap[i]
      OBVIOUS
    <2>1. (CHOOSE j \in 1 .. b + 11 : LoadOrder[j] = Bucket(i)) = i
      BY <1>2, <1>10
    <2> QED
      BY <1>2, <2>1 DEF LoadAt
  <1>14. LoadAt(Top) = snap[b + 1]
    <2>1. (CHOOSE j \in 1 .. b + 11 : LoadOrder[j] = Top) = b + 1
      BY <1>2, <1>11
    <2> QED
      BY <1>2, <2>1 DEF LoadAt
  <1>15. \A i \in 1 .. 10 : LoadAt(Counter(Plain[i])) = snap[b + 1 + i]
    <2> SUFFICES ASSUME NEW i \in 1 .. 10 PROVE LoadAt(Counter(Plain[i])) = snap[b + 1 + i]
      OBVIOUS
    <2>1. (CHOOSE j \in 1 .. b + 11 : LoadOrder[j] = Counter(Plain[i])) = b + 1 + i
      BY <1>2, <1>12
    <2> QED
      BY <1>2, <2>1 DEF LoadAt
  <1> QED
    BY <1>1, <1>13, <1>14, <1>15

-----------------------------------------------------------------------------
(* f64: the target of a percentile never falls as its share grows, and it is *)
(* the exact ceiling for totals far below 2^53.                              *)

LEMMA Products ==
  ASSUME NEW c \in Nat, NEW a \in Int, NEW b \in Int
  PROVE  /\ a <= b => c * a <= c * b
         /\ c * a < c * b => a < b
  <1>1. ASSUME a <= b PROVE c * a <= c * b
    <2>1. PICK k \in Nat : k = b - a
      BY <1>1
    <2>2. c * b = c * a + c * k /\ c * k \in Nat
      BY <2>1
    <2> QED
      BY <2>2
  <1>2. ASSUME b <= a PROVE c * b <= c * a
    <2>1. PICK k \in Nat : k = a - b
      BY <1>2
    <2>2. c * a = c * b + c * k /\ c * k \in Nat
      BY <2>1
    <2> QED
      BY <2>2
  <1>3. c * a \in Int /\ c * b \in Int
    OBVIOUS
  <1> QED
    BY <1>1, <1>2, <1>3

LEMMA Strictly ==
  ASSUME NEW c \in Nat \ {0}, NEW a \in Int, NEW b \in Int
  PROVE  /\ a < b => c * a < c * b
         /\ c * a <= c * b => a <= b
  <1>1. c * b <= c * a => b <= a
    <2>1. CASE a < b
      <3>1. PICK k \in Nat \ {0} : k = b - a
        BY <2>1
      <3>2. c * b = c * a + c * k /\ c * k \in Nat \ {0} /\ c * a \in Int
        BY <3>1
      <3> QED
        BY <3>2
    <2> QED
      BY <2>1
  <1>2. ASSUME b < a PROVE c * b < c * a
    <2>1. PICK k \in Nat \ {0} : k = a - b
      BY <1>2
    <2>2. c * a = c * b + c * k /\ c * k \in Nat \ {0} /\ c * b \in Int
      BY <2>1
    <2> QED
      BY <2>2
  <1>3. c * a \in Int /\ c * b \in Int
    OBVIOUS
  <1> QED
    BY <1>1, <1>2, <1>3

LEMMA Division ==
  ASSUME NEW n \in Nat, NEW d \in Nat \ {0}
  PROVE  \E q \in Nat, m \in 0 .. d - 1 :
           /\ q = n \div d /\ m = n % d /\ n = d * q + m
           /\ Nearest(n, d) \in {q, q + 1}
           /\ Nearest(n, d) = q => 2 * m <= d
           /\ Nearest(n, d) # q => d <= 2 * m
  <1>1. n \div d \in Nat /\ n % d \in 0 .. d - 1 /\ n = d * (n \div d) + (n % d)
    OBVIOUS
  <1>2. PICK q \in Nat, m \in 0 .. d - 1 : q = n \div d /\ m = n % d /\ n = d * q + m
    BY <1>1
  <1>3. /\ Nearest(n, d) \in {q, q + 1}
        /\ Nearest(n, d) = q => 2 * m <= d
        /\ Nearest(n, d) # q => d <= 2 * m
    BY <1>2 DEF Nearest
  <1> QED
    BY <1>2, <1>3

LEMMA NearestFacts ==
  ASSUME NEW n \in Nat, NEW d \in Nat \ {0}
  PROVE  /\ Nearest(n, d) \in Nat
         /\ \E e \in Int : d * Nearest(n, d) = n + e /\ 2 * e <= d /\ -d <= 2 * e
  <1>1. PICK q \in Nat, m \in 0 .. d - 1 :
          /\ n = d * q + m /\ Nearest(n, d) \in {q, q + 1}
          /\ Nearest(n, d) = q => 2 * m <= d
          /\ Nearest(n, d) # q => d <= 2 * m
    BY Division
  <1>2. PICK x \in Nat : x = Nearest(n, d) /\ x \in {q, q + 1}
    BY <1>1
  <1>3. n = d * q + m /\ (x = q => 2 * m <= d) /\ (x # q => d <= 2 * m)
    BY <1>1, <1>2
  <1>4. CASE x = q
    <2>1. PICK e \in Int : e = 0 - m
      OBVIOUS
    <2>2. d * x = n + e /\ 2 * e <= d /\ -d <= 2 * e
      BY <1>3, <1>4, <2>1
    <2> QED
      BY <1>2, <2>2
  <1>5. CASE x = q + 1
    <2>1. d * x = d * q + d
      BY <1>5
    <2>2. d * x = n + (d - m) /\ 2 * (d - m) <= d /\ -d <= 2 * (d - m)
      BY <1>3, <1>5, <2>1
    <2> QED
      BY <1>2, <2>2
  <1> QED
    BY <1>2, <1>4, <1>5

LEMMA NearestFits ==
  ASSUME NEW n \in Nat, NEW d \in Nat \ {0}, NEW w \in Nat
  PROVE  /\ n <= d * w => Nearest(n, d) <= w
         /\ d * w <= n => w <= Nearest(n, d)
         /\ \A e \in Int : n = d * w + e /\ 2 * e < d /\ -d < 2 * e => Nearest(n, d) = w
  <1>1. PICK q \in Nat, m \in 0 .. d - 1 :
          /\ n = d * q + m /\ Nearest(n, d) \in {q, q + 1}
          /\ Nearest(n, d) # q => d <= 2 * m
    BY Division
  <1>2. PICK x \in Nat : x = Nearest(n, d) /\ x \in {q, q + 1}
    BY <1>1
  <1>3. n = d * q + m /\ (x # q => d <= 2 * m)
    BY <1>1, <1>2
  <1>4. d * q \in Nat /\ d * w \in Nat /\ d * (q + 1) = d * q + d
    OBVIOUS
  <1>5. ASSUME n <= d * w PROVE x <= w
    <2>1. CASE x = q
      <3>1. d * q < d * (w + 1)
        <4>1. d * (w + 1) = d * w + d
          OBVIOUS
        <4> QED
          BY <1>3, <1>4, <1>5, <4>1
      <3> QED
        BY <2>1, <3>1, Products
    <2>2. CASE x # q
      <3>1. d * q < d * w
        BY <1>3, <1>4, <1>5, <2>2
      <3> QED
        BY <1>2, <2>2, <3>1, Products
    <2> QED
      BY <2>1, <2>2
  <1>6. ASSUME d * w <= n PROVE w <= x
    <2>1. d * w < d * (q + 1)
      BY <1>3, <1>4, <1>6
    <2> QED
      BY <1>2, <2>1, Products
  <1>7. ASSUME NEW e \in Int, n = d * w + e, 2 * e < d, -d < 2 * e PROVE x = w
    <2>1. PICK f \in Int : d * x = n + f /\ 2 * f <= d /\ -d <= 2 * f
      BY <1>2, NearestFacts
    <2>2. d * (w + 1) = d * w + d /\ d * (w - 1) = d * w - d /\ d * x \in Nat
      OBVIOUS
    <2>3. d * x < d * (w + 1) /\ d * (w - 1) < d * x
      BY <1>4, <1>7, <2>1, <2>2
    <2>4. x < w + 1 /\ w - 1 < x
      BY <2>3, Products
    <2> QED
      BY <2>4
  <1> QED
    BY <1>2, <1>5, <1>6, <1>7

LEMMA NearestOrdered ==
  ASSUME NEW a \in Nat, NEW b \in Nat, a <= b, NEW d \in Nat \ {0}
  PROVE  Nearest(a, d) <= Nearest(b, d)
  <1>1. PICK q \in Nat, m \in 0 .. d - 1 :
          q = a \div d /\ m = a % d /\ a = d * q + m /\ Nearest(a, d) \in {q, q + 1}
    BY Division
  <1>2. PICK p \in Nat, k \in 0 .. d - 1 :
          p = b \div d /\ k = b % d /\ b = d * p + k /\ Nearest(b, d) \in {p, p + 1}
    BY Division
  <1>3. a = d * q + m /\ b = d * p + k
    BY <1>1, <1>2
  <1>4. q <= p
    <2>1. d * (p + 1) = d * p + d /\ d * p \in Nat /\ d * q \in Nat
      OBVIOUS
    <2>2. d * q < d * (p + 1)
      BY <1>3, <2>1
    <2> QED
      BY <2>2, Products
  <1>5. CASE q = p
    <2>1. m <= k
      <3>1. d * q \in Nat
        OBVIOUS
      <3> QED
        BY <1>3, <1>5, <3>1
    <2> QED
      BY <1>1, <1>2, <1>5, <2>1 DEF Nearest
  <1>6. CASE q # p
    <2>1. /\ Nearest(a, d) \in {q, q + 1}
          /\ Nearest(b, d) \in {p, p + 1}
      BY <1>1, <1>2
    <2> QED
      BY <1>4, <1>6, <2>1
  <1> QED
    BY <1>5, <1>6

LEMMA Floats ==
  /\ Mantissa \in Nat /\ 128 <= Mantissa /\ MaxU64 \in Nat
  /\ Grids \subseteq Nat \ {0} /\ 1 \in Grids /\ Mantissa \in Grids
  /\ \A g, h \in Grids : g <= h => h % g = 0
  /\ \E h \in Nat : Mantissa = 2 * h
  /\ Share(95) \in Nat /\ Share(99) \in Nat /\ Share(95) <= Share(99) /\ Share(99) < Mantissa
  <1>1. /\ Mantissa \in Nat /\ 128 <= Mantissa /\ MaxU64 \in Nat
        /\ Grids \subseteq Nat \ {0} /\ 1 \in Grids /\ Mantissa \in Grids
        /\ \A g, h \in Grids : g <= h => h % g = 0
    BY FloatAssumption, TopTenantsAssumption
  <1>2. \E h \in Nat : Mantissa = 2 * h
    <2>1. Mantissa \in Grids \ {1}
      BY <1>1
    <2>2. PICK h \in Grids : Mantissa = 2 * h
      BY <2>1, FloatAssumption
    <2> QED
      BY <1>1, <2>2
  <1>3. /\ 95 * Mantissa \in Nat /\ 99 * Mantissa \in Nat /\ 95 * Mantissa <= 99 * Mantissa
    BY <1>1
  <1>4. Share(95) \in Nat /\ Share(99) \in Nat
    <2>1. PICK a \in Nat, b \in Nat : a = 95 * Mantissa /\ b = 99 * Mantissa
      BY <1>3
    <2>2. Nearest(a, 100) \in Nat /\ Nearest(b, 100) \in Nat
      BY NearestFacts
    <2> QED
      BY <2>1, <2>2 DEF Share
  <1>5. Share(95) <= Share(99)
    <2>1. PICK a \in Nat, b \in Nat : a = 95 * Mantissa /\ b = 99 * Mantissa /\ a <= b
      BY <1>3
    <2>2. Nearest(a, 100) <= Nearest(b, 100)
      BY <2>1, NearestOrdered
    <2> QED
      BY <2>1, <2>2 DEF Share
  <1>6. Share(99) < Mantissa
    <2>1. 99 * Mantissa <= 100 * (Mantissa - 1) /\ Mantissa - 1 \in Nat
      BY <1>1
    <2>2. Share(99) <= Mantissa - 1
      BY <1>3, <2>1, NearestFits DEF Share
    <2> QED
      BY <1>1, <1>4, <2>2
  <1> QED
    BY <1>1, <1>2, <1>4, <1>5, <1>6

\* The grid of a value: it covers it, it divides the coarser ones, and unless it is
\* the finest, half of it did not cover the value.
Held(v) == \E g \in Grids : v < g * Mantissa
LEMMA GridFacts ==
  ASSUME NEW v \in Nat, Held(v)
  PROVE  /\ Grid(v) \in Grids /\ Grid(v) \in Nat \ {0} /\ v < Grid(v) * Mantissa
         /\ \A g \in Grids : v < g * Mantissa => Grid(v) <= g
         /\ Grid(v) # 1 => \E h \in Grids : Grid(v) = 2 * h /\ h * Mantissa <= v
         /\ Rounded(v) \in Nat
  <1> DEFINE S == {g \in Grids : v < g * Mantissa}
  <1>1. S \in SUBSET Nat /\ S # {}
    BY Floats DEF Held
  <1>2. \E g \in S : \A h \in S : g <= h
    BY <1>1, LeastElement, Zenon
  <1>3. \E g \in Grids : v < g * Mantissa /\ \A h \in Grids : v < h * Mantissa => g <= h
    BY <1>2
  <1>4. /\ Grid(v) \in Grids /\ v < Grid(v) * Mantissa
        /\ \A g \in Grids : v < g * Mantissa => Grid(v) <= g
    BY <1>3, Zenon DEF Grid
  <1>5. Grid(v) \in Nat \ {0}
    BY <1>4, Floats
  <1>6. ASSUME Grid(v) # 1 PROVE \E h \in Grids : Grid(v) = 2 * h /\ h * Mantissa <= v
    <2>1. PICK h \in Grids : Grid(v) = 2 * h
      BY <1>4, <1>6, FloatAssumption
    <2>2. h \in Nat \ {0} /\ ~ (2 * h <= h)
      BY Floats
    <2>3. ~ (v < h * Mantissa)
      BY <1>4, <2>1, <2>2
    <2>4. h * Mantissa \in Nat
      BY <2>2, Floats
    <2> QED
      BY <2>1, <2>3, <2>4
  <1>7. Rounded(v) \in Nat
    <2>1. Nearest(v, Grid(v)) \in Nat
      BY <1>5, NearestFacts
    <2> QED
      BY <1>5, <2>1 DEF Rounded
  <1> QED
    BY <1>4, <1>5, <1>6, <1>7

\* What a smaller value keeps to: its grid covers no more than half of a coarser one.
LEMMA RoundedOrdered ==
  ASSUME NEW a \in Nat, NEW b \in Nat, a <= b, Held(b)
  PROVE  Held(a) /\ Rounded(a) <= Rounded(b)
  <1>1. Mantissa \in Nat /\ Grids \subseteq Nat \ {0}
    BY Floats
  <1>2. Held(a)
    <2>1. PICK g \in Grids : b < g * Mantissa
      BY DEF Held
    <2>2. g * Mantissa \in Nat
      BY <1>1
    <2>3. a < g * Mantissa
      BY <2>1, <2>2
    <2> QED
      BY <2>3 DEF Held
  <1>3. PICK f \in Grids : /\ f = Grid(a) /\ a < f * Mantissa
                           /\ \A g \in Grids : a < g * Mantissa => f <= g
    BY <1>2, GridFacts
  <1>4. PICK g \in Grids : /\ g = Grid(b) /\ b < g * Mantissa
                           /\ g # 1 => \E h \in Grids : g = 2 * h /\ h * Mantissa <= b
    BY GridFacts
  <1>5. f \in Nat \ {0} /\ g \in Nat \ {0} /\ f <= g
    <2>1. f \in Nat \ {0} /\ g \in Nat \ {0} /\ g * Mantissa \in Nat
      BY <1>1
    <2>2. a < g * Mantissa
      BY <1>4, <2>1
    <2> QED
      BY <1>3, <2>1, <2>2
  <1>6. /\ Rounded(a) = f * Nearest(a, f) /\ Rounded(b) = g * Nearest(b, g)
        /\ Nearest(a, f) \in Nat /\ Nearest(b, g) \in Nat
    BY <1>3, <1>4, <1>5, NearestFacts DEF Rounded
  <1>7. CASE f = g
    <2>1. Nearest(a, f) <= Nearest(b, f)
      BY <1>5, NearestOrdered
    <2>2. f * Nearest(a, f) <= f * Nearest(b, f)
      BY <1>5, <1>6, <1>7, <2>1, Products
    <2> QED
      BY <1>2, <1>6, <1>7, <2>2
  <1>8. CASE f # g
    <2>1. PICK h \in Grids : g = 2 * h /\ h * Mantissa <= b
      BY <1>4, <1>5, <1>8
    <2>2. h \in Nat \ {0}
      BY <1>1
    <2>3. f <= h
      <3>1. g % f = 0
        BY <1>5, Floats
      <3>2. PICK k \in Nat, m \in 0 .. f - 1 : m = g % f /\ g = f * k + m
        BY <1>5
      <3>3. f * k \in Nat /\ g = f * k
        BY <1>5, <3>1, <3>2
      <3>4. k >= 2
        BY <1>5, <1>8, <3>3
      <3>5. f * 2 <= f * k
        BY <1>5, <3>4, Products
      <3> QED
        BY <1>5, <2>1, <2>2, <3>3, <3>5
    <2>4. f * Nearest(a, f) <= f * Mantissa
      <3>1. Nearest(a, f) <= Mantissa
        BY <1>1, <1>3, <1>5, NearestFits
      <3> QED
        BY <1>1, <1>5, <1>6, <3>1, Products
    <2>5. h * Mantissa <= g * Nearest(b, g)
      <3>1. PICK w \in Nat : Mantissa = 2 * w
        BY Floats
      <3>2. h * Mantissa = g * w
        BY <2>1, <2>2, <3>1
      <3>3. w <= Nearest(b, g)
        BY <1>5, <2>1, <3>2, NearestFits
      <3> QED
        BY <1>5, <1>6, <3>2, <3>3, Products
    <2>6. f * Mantissa <= h * Mantissa
      <3>1. Mantissa * f <= Mantissa * h
        BY <1>1, <1>5, <2>2, <2>3, Products
      <3> QED
        BY <1>1, <1>5, <2>2, <3>1
    <2>7. /\ f * Nearest(a, f) \in Nat /\ f * Mantissa \in Nat /\ h * Mantissa \in Nat
          /\ g * Nearest(b, g) \in Nat
      BY <1>1, <1>5, <1>6, <2>2
    <2> QED
      BY <1>2, <1>6, <2>4, <2>5, <2>6, <2>7
  <1> QED
    BY <1>2, <1>7, <1>8

\* A total is rounded to no more than a power of two above u64::MAX, which is still
\* a multiple of its grid, so its product with a share has a grid too.
LEMMA TotalsHeld ==
  ASSUME NEW t \in 0 .. MaxU64, NEW pct \in {95, 99}
  PROVE  /\ Held(t) /\ Rounded(t) \in Nat
         /\ Rounded(t) * Share(pct) \in Nat /\ Held(Rounded(t) * Share(pct))
  <1>1. /\ Mantissa \in Nat /\ 128 <= Mantissa /\ MaxU64 \in Nat /\ Grids \subseteq Nat \ {0}
        /\ Share(pct) \in Nat /\ Share(pct) < Mantissa
    BY Floats
  <1>2. PICK g \in Grids : MaxU64 < g
    BY FloatAssumption
  <1>3. g \in Nat \ {0}
    BY <1>1
  <1>4. t \in Nat /\ t < g * Mantissa
    <2>1. g * 1 <= g * Mantissa
      BY <1>1, <1>3, Products
    <2>2. g * Mantissa \in Nat
      BY <1>1, <1>3
    <2> QED
      BY <1>1, <1>2, <1>3, <2>1, <2>2
  <1>5. Held(t)
    BY <1>4 DEF Held
  <1>6. PICK f \in Nat \ {0} : /\ f = Grid(t) /\ f \in Grids
                               /\ \A k \in Grids : t < k * Mantissa => f <= k
    BY <1>4, <1>5, GridFacts
  <1>7. PICK k \in Nat : g = f * k
    <2>1. f <= g
      BY <1>4, <1>6
    <2>2. g % f = 0
      BY <1>6, <2>1, Floats
    <2>3. PICK k \in Nat, m \in 0 .. f - 1 : m = g % f /\ g = f * k + m
      BY <1>3
    <2>4. f * k \in Nat
      BY <1>6, <2>3
    <2> QED
      BY <1>3, <2>2, <2>3, <2>4
  <1>8. PICK x \in Nat : x = Nearest(t, f) /\ x <= k
    <2>1. t <= f * k
      BY <1>2, <1>1, <1>3, <1>7
    <2> QED
      BY <1>4, <1>6, <2>1, NearestFacts, NearestFits
  <1>9. PICK r \in Nat : r = Rounded(t) /\ r <= g
    <2>1. f * x <= f * k /\ f * x \in Nat
      BY <1>6, <1>8, Products
    <2> QED
      BY <1>6, <1>7, <1>8, <2>1 DEF Rounded
  <1>10. r * Share(pct) \in Nat /\ r * Share(pct) < g * Mantissa
    <2>1. PICK s \in Nat : s = Share(pct) /\ s < Mantissa
      BY <1>1
    <2>3. s * r <= s * g
      BY <1>3, <1>9, <2>1, Products
    <2>4. g * (s + 1) <= g * Mantissa
      BY <1>1, <1>3, <2>1, Products
    <2>5. g * (s + 1) = g * s + g /\ s * r = r * s /\ s * g = g * s
      BY <1>3, <1>9, <2>1
    <2>6. r * s \in Nat /\ g * s \in Nat /\ g * Mantissa \in Nat
      BY <1>1, <1>3, <1>9, <2>1
    <2> QED
      BY <1>3, <2>1, <2>3, <2>4, <2>5, <2>6
  <1> QED
    BY <1>5, <1>9, <1>10 DEF Held

\* The code's target never falls as the share grows.
LEMMA TargetOrdered ==
  ASSUME NEW t \in 0 .. MaxU64
  PROVE  Target(t, 95) \in Nat /\ Target(t, 99) \in Nat /\ Target(t, 95) <= Target(t, 99)
  <1>1. /\ Mantissa \in Nat \ {0} /\ MaxU64 \in Nat
        /\ Share(95) \in Nat /\ Share(99) \in Nat /\ Share(95) <= Share(99)
    BY Floats
  <1>2. PICK r \in Nat : r = Rounded(t) /\ Held(r * Share(95)) /\ Held(r * Share(99))
    BY TotalsHeld
  <1>3. PICK a, b \in Nat : a = r * Share(95) /\ b = r * Share(99) /\ a <= b
    BY <1>1, <1>2, Products
  <1>4. PICK c, d \in Nat : c = Rounded(a) /\ d = Rounded(b) /\ c <= d
    BY <1>2, <1>3, RoundedOrdered, GridFacts
  <1>5. PICK m, n \in Nat : m = c + Mantissa - 1 /\ n = d + Mantissa - 1 /\ m <= n
    BY <1>1, <1>4
  <1>6. PICK i \in Nat, x \in 0 .. Mantissa - 1 : i = m \div Mantissa /\ m = Mantissa * i + x
    BY <1>1
  <1>7. PICK j \in Nat, y \in 0 .. Mantissa - 1 : j = n \div Mantissa /\ n = Mantissa * j + y
    BY <1>1
  <1>8. i <= j
    <2>1. Mantissa * (j + 1) = Mantissa * j + Mantissa /\ Mantissa * j \in Nat /\ Mantissa * i \in Nat
      BY <1>1
    <2>2. Mantissa * i < Mantissa * (j + 1)
      BY <1>1, <1>5, <1>6, <1>7, <2>1
    <2> QED
      BY <1>1, <2>2, Products
  <1>9. Target(t, 95) = Least(i) /\ Target(t, 99) = Least(j)
    BY <1>2, <1>3, <1>4, <1>5, <1>6, <1>7 DEF Target, Ceil
  <1> QED
    BY <1>1, <1>8, <1>9 DEF Least

\* Before f64 rounds the total, and while the errors of the literal and of the product
\* stay below one, the target is the exact ceiling.
LEMMA TargetExact ==
  ASSUME NEW t \in 1 .. MaxU64, 150 * t < Mantissa, NEW pct \in {95, 99}
  PROVE  Target(t, pct) = (t * pct + 99) \div 100
  <1>1. /\ Mantissa \in Nat \ {0} /\ 128 <= Mantissa /\ MaxU64 \in Nat /\ t \in Nat \ {0}
        /\ Grids \subseteq Nat \ {0} /\ 1 \in Grids
        /\ pct \in Nat \ {0} /\ pct < 100
    BY Floats
  <1>2. Rounded(t) = t
    <2>1. Held(t) /\ t < 1 * Mantissa
      BY <1>1, TotalsHeld
    <2>2. Grid(t) = 1
      BY <1>1, <2>1, GridFacts
    <2>3. Nearest(t, 1) = t
      BY <1>1, NearestFits
    <2> QED
      BY <1>1, <2>2, <2>3 DEF Rounded
  <1>3. PICK s \in Nat, e \in Int : /\ s = Share(pct) /\ 100 * s = pct * Mantissa + e
                                   /\ 2 * e < pct /\ -pct < 2 * e /\ s < Mantissa
    <2>1. PICK s \in Nat : s = Share(pct) /\ s < Mantissa
      BY Floats
    <2>2. pct * Mantissa \in Int /\ 100 * s \in Int
      BY <1>1
    <2>3. PICK e \in Int : e = 100 * s - pct * Mantissa
      BY <2>2
    <2>4. 2 * e < pct /\ -pct < 2 * e
      <3>1. LET error == 100 * Share(pct) - pct * Mantissa IN 2 * error < pct /\ -pct < 2 * error
        BY FloatAssumption, Zenon
      <3> QED
        BY <2>1, <2>3, <3>1
    <2>5. 100 * s = pct * Mantissa + e
      BY <2>2, <2>3
    <2> QED
      BY <2>1, <2>4, <2>5
  \* K is the exact ceiling, and the real product falls short of it by z hundredths.
  <1>4. PICK K \in Nat, z \in 0 .. 99 : K = (t * pct + 99) \div 100 /\ t * pct = 100 * K - z
    <2>1. t * pct + 99 \in Nat
      BY <1>1
    <2>2. PICK K \in Nat, m \in 0 .. 99 : K = (t * pct + 99) \div 100 /\ t * pct + 99 = 100 * K + m
      BY <2>1
    <2>3. PICK z \in 0 .. 99 : z = 99 - m
      OBVIOUS
    <2> QED
      BY <1>1, <2>2, <2>3
  <1>5. PICK v \in Nat : v = t * s /\ Held(v)
    BY <1>2, <1>3, TotalsHeld
  \* The literal's error, over the product.
  <1>6. 100 * v = 100 * (K * Mantissa) - z * Mantissa + t * e
    <2>1. 100 * v = t * (pct * Mantissa) + t * e
      BY <1>1, <1>3, <1>5
    <2>2. t * (pct * Mantissa) = (100 * K - z) * Mantissa
      BY <1>1, <1>4
    <2>3. (100 * K - z) * Mantissa = 100 * (K * Mantissa) - z * Mantissa
      BY <1>1
    <2> QED
      BY <2>1, <2>2, <2>3
  <1>7. 2 * (t * e) < t * pct /\ -(t * pct) < 2 * (t * e) /\ t * e \in Int
    <2>1. t * (2 * e) < t * pct
      BY <1>1, <1>3, Strictly
    <2>2. t * (-pct) < t * (2 * e)
      BY <1>1, <1>3, Strictly
    <2> QED
      BY <1>1, <2>1, <2>2
  <1>8. PICK g \in Nat \ {0} : /\ g = Grid(v) /\ v < g * Mantissa /\ g <= 2 * t
                               /\ \E w \in Nat : Mantissa = g * w
    <2>1. PICK g \in Nat \ {0} :
            /\ g = Grid(v) /\ g \in Grids /\ v < g * Mantissa
            /\ g # 1 => \E h \in Grids : g = 2 * h /\ h * Mantissa <= v
      BY <1>5, GridFacts
    <2>2. g <= 2 * t
      <3>1. CASE g = 1
        BY <1>1, <3>1
      <3>2. CASE g # 1
        <4>1. PICK h \in Nat : g = 2 * h /\ h * Mantissa <= v
          BY <1>1, <2>1, <3>2
        <4>2. t * s <= t * Mantissa
          BY <1>1, <1>3, Products
        <4>3. Mantissa * h <= Mantissa * t
          BY <1>1, <1>5, <4>1, <4>2
        <4>4. h <= t
          BY <1>1, <4>3, Strictly
        <4> QED
          BY <1>1, <4>1, <4>4
      <3> QED
        BY <3>1, <3>2
    <2>3. g <= Mantissa
      BY <1>1, <2>2
    <2>4. Mantissa % g = 0
      BY <2>1, <2>3, Floats
    <2>5. PICK w \in Nat, m \in 0 .. g - 1 : m = Mantissa % g /\ Mantissa = g * w + m
      BY <1>1
    <2>6. g * w \in Nat /\ Mantissa = g * w
      BY <2>4, <2>5
    <2> QED
      BY <2>1, <2>2, <2>6
  <1>9. PICK r \in Nat, d \in Int : r = Rounded(v) /\ r = v + d /\ 2 * d <= g /\ -g <= 2 * d
    <2>1. Rounded(v) \in Nat /\ Rounded(v) = g * Nearest(v, g)
      BY <1>5, <1>8, GridFacts DEF Rounded
    <2>2. PICK d \in Int : g * Nearest(v, g) = v + d /\ 2 * d <= g /\ -g <= 2 * d
      BY NearestFacts
    <2> QED
      BY <2>1, <2>2
  <1>10. (K - 1) * Mantissa < r /\ r <= K * Mantissa
    <2>1. CASE z # 0
      <3>1. 100 * r = 100 * (K * Mantissa) - z * Mantissa + t * e + 100 * d
        BY <1>6, <1>9
      <3>2. t * pct < 100 * t
        BY <1>1
      <3>3. PICK f \in Int : f = t * e + 100 * d /\ f < Mantissa /\ -Mantissa < f
        BY <1>1, <1>7, <1>8, <1>9, <3>2
      <3>4. Mantissa <= z * Mantissa /\ z * Mantissa <= 99 * Mantissa
        BY <1>1, <2>1
      <3>5. PICK n, y \in Nat : n = K * Mantissa /\ y = z * Mantissa
        BY <1>1
      <3>6. 100 * r = 100 * n - y + f /\ Mantissa <= y /\ y <= 99 * Mantissa
        BY <3>1, <3>3, <3>4, <3>5
      <3>7. n - Mantissa < r /\ r <= n
        BY <1>1, <3>3, <3>6
      <3>8. (K - 1) * Mantissa = n - Mantissa
        BY <1>1, <3>5
      <3> QED
        BY <3>5, <3>7, <3>8
    <2>2. CASE z = 0
      <3>1. PICK n, f \in Int : n = K * Mantissa /\ f = v - n /\ 100 * f = t * e
        BY <1>1, <1>5, <1>6, <2>2
      <3>2. 2 * f < K /\ -K < 2 * f
        <4>1. t * pct = 100 * K
          BY <1>4, <2>2
        <4> QED
          BY <1>7, <3>1, <4>1
      <3>3. K <= g
        <4>1. SUFFICES ASSUME g + 1 <= K PROVE FALSE
          BY <1>8
        <4>2. g * Mantissa <= n - Mantissa
          <5>1. Mantissa * (g + 1) <= Mantissa * K
            BY <1>1, <4>1, Products
          <5> QED
            BY <1>1, <3>1, <5>1
        <4>3. n + f < n - Mantissa
          BY <1>1, <1>8, <3>1, <4>2
        <4>4. K < 2 * Mantissa
          BY <1>1, <1>4, <2>2
        <4> QED
          BY <1>1, <3>1, <3>2, <4>3, <4>4
      <3>4. PICK w \in Nat : Mantissa = g * w
        BY <1>8
      <3>5. n = g * (K * w) /\ K * w \in Nat
        BY <1>1, <3>1, <3>4
      <3>6. Nearest(v, g) = K * w
        <4>1. v = g * (K * w) + f /\ 2 * f < g /\ -g < 2 * f
          BY <3>1, <3>2, <3>3, <3>5
        <4> QED
          BY <1>8, <3>5, <4>1, NearestFits
      <3>7. r = n
        BY <1>8, <1>9, <3>5, <3>6 DEF Rounded
      <3> QED
        BY <1>1, <3>1, <3>7
    <2> QED
      BY <2>1, <2>2
  <1>11. (r + Mantissa - 1) \div Mantissa = K
    <2>1. PICK i \in Nat, x \in 0 .. Mantissa - 1 :
            i = (r + Mantissa - 1) \div Mantissa /\ r + Mantissa - 1 = Mantissa * i + x
      <3>1. r + Mantissa - 1 \in Nat
        BY <1>1
      <3> QED
        BY <1>1, <3>1
    <2>2. /\ Mantissa * (i + 1) = Mantissa * i + Mantissa
          /\ Mantissa * (K - 1) = (K - 1) * Mantissa /\ (K - 1) * Mantissa = K * Mantissa - Mantissa
          /\ Mantissa * (K + 1) = K * Mantissa + Mantissa
          /\ Mantissa * i \in Nat /\ K * Mantissa \in Nat
      BY <1>1
    <2>3. Mantissa * i < Mantissa * (K + 1) /\ Mantissa * (K - 1) < Mantissa * i
      BY <1>1, <1>10, <2>1, <2>2
    <2>4. i < K + 1 /\ K - 1 < i
      BY <1>1, <2>3, Products
    <2> QED
      BY <2>1, <2>4
  <1>12. K <= MaxU64
    BY <1>1, <1>4
  <1>13. Target(t, pct) = Least(K)
    BY <1>2, <1>3, <1>5, <1>9, <1>11 DEF Target, Ceil
  <1> QED
    BY <1>1, <1>4, <1>12, <1>13 DEF Least

\* What a finished read has loaded of the histogram.
LEMMA HistogramShape ==
  ASSUME MetricsInv, Complete
  PROVE  /\ Histogram \in Seq(Nat) /\ Len(Histogram) = Len(Bounds) /\ Histogram = Loaded
         /\ Len(snap) = Len(Bounds) + 11 /\ DOMAIN snap = 1 .. Len(Bounds) + 11
         /\ Len(Cumulative(Histogram)) = Len(Bounds)
         /\ DOMAIN Cumulative(Histogram) = 1 .. Len(Bounds)
         /\ \A i \in 1 .. Len(Bounds) : Cumulative(Histogram)[i] \in Nat
         /\ TotalSamples(Histogram) \in 0 .. MaxU64
  <1>1. PICK b \in Nat \ {0} : b = Len(Bounds) /\ DOMAIN Bounds = 1 .. b
    BY LoadFacts
  <1>2. Histogram = Loaded /\ Histogram = [i \in 1 .. b |-> snap[i]]
    BY <1>1, LoadAtFacts DEF Histogram, Loaded
  <1>3. Len(snap) = b + 11 /\ DOMAIN snap = 1 .. b + 11
    BY <1>1, LoadFacts, MetricsFacts DEF Complete
  <1>4. \A i \in 1 .. b : snap[i] \in Nat
    <2>1. \A i \in 1 .. b : i \in DOMAIN snap /\ LoadOrder[i] # Top
      BY <1>1, <1>3, LoadFacts
    <2> QED
      BY <2>1, MetricsFacts
  <1> DEFINE h == Histogram
  <1>5. h \in Seq(Nat) /\ Len(h) = b
    BY <1>2, <1>4
  <1> HIDE DEF h
  <1>6. /\ Len(Cumulative(h)) = b /\ DOMAIN Cumulative(h) = 1 .. b
        /\ \A i \in 1 .. b : Cumulative(h)[i] \in Nat
    BY <1>5, CumulativeFacts, TopTenantsAssumption
  <1>7. TotalSamples(h) \in 0 .. MaxU64
    <2>1. Running(h)[Len(h)] \in Nat
      <3>1. Running(h) \in [0 .. Len(h) -> Nat]
        BY <1>5, RunningFacts
      <3>2. Len(h) \in 0 .. Len(h)
        BY <1>5
      <3> QED
        BY <3>1, <3>2
    <2>2. \A n \in Nat : n % (MaxU64 + 1) \in 0 .. MaxU64
      BY TopTenantsAssumption
    <2> QED
      BY <2>1, <2>2 DEF TotalSamples
  <1> QED
    BY <1>1, <1>2, <1>3, <1>5, <1>6, <1>7 DEF h

\* Of a finished read whose samples have not reached u64::MAX.
Readable == MetricsInv /\ ScrapeInv /\ Complete /\ Total("queue_time_samples") < MaxU64

LEMMA HistogramFacts ==
  ASSUME Readable
  PROVE  /\ Histogram \in Seq(Nat) /\ Len(Histogram) = Len(Bounds) /\ Histogram = Loaded
         /\ Len(snap) = Len(Bounds) + 11 /\ snap[Len(snap)] = Total("queue_time_samples")
         /\ Total("queue_time_samples") \in Nat /\ MaxU64 \in Nat
         /\ Sum(Histogram) \in Nat /\ Sum(Histogram) <= Total("queue_time_samples")
         /\ Len(Cumulative(Histogram)) = Len(Bounds)
         /\ DOMAIN Cumulative(Histogram) = 1 .. Len(Bounds)
         /\ \A i \in 1 .. Len(Bounds) : Cumulative(Histogram)[i] \in Nat
         /\ \A i, j \in 1 .. Len(Bounds) : i <= j => Cumulative(Histogram)[i] <= Cumulative(Histogram)[j]
         /\ Cumulative(Histogram)[Len(Bounds)] = Sum(Histogram)
         /\ TotalSamples(Histogram) = Sum(Histogram)
  <1>1. PICK b \in Nat \ {0} : b = Len(Bounds) /\ DOMAIN Bounds = 1 .. b
    BY LoadFacts
  <1>2. Histogram = Loaded /\ Histogram \in Seq(Nat) /\ Len(Histogram) = b
    BY <1>1, HistogramShape DEF Readable
  <1>3. Len(snap) = b + 11 /\ DOMAIN snap = 1 .. b + 11 /\ b + 11 \in 1 .. b + 11
    BY <1>1, HistogramShape DEF Readable
  <1>4. snap[Len(snap)] = Total("queue_time_samples") /\ Total("queue_time_samples") \in Nat
    <2>1. 10 \in 1 .. 10 /\ Plain[10] = "queue_time_samples" /\ b + 1 + 10 = b + 11
      BY DEF Plain
    <2>2. LoadAt(Counter("queue_time_samples")) = snap[b + 11]
      BY <1>1, <2>1, LoadAtFacts
    <2>3. LoadOrder[b + 11] # Top
      BY <1>1, <2>1, LoadFacts
    <2> QED
      BY <1>3, <2>2, <2>3, MetricsFacts DEF Total, Readable
  <1> DEFINE h == Histogram
  <1>5. h \in Seq(Nat) /\ Len(h) = b
    BY <1>2
  <1>6. Sum(h) \in Nat /\ Sum(h) <= Total("queue_time_samples") /\ Sum(h) < MaxU64 /\ MaxU64 \in Nat
    <2>1. Sum(h) \in Nat /\ MaxU64 \in Nat
      BY <1>5, SumFacts, TopTenantsAssumption
    <2>2. Sum(Loaded) <= snap[Len(snap)]
      BY <1>4 DEF Readable, ScrapeInv, ReadTrue
    <2> QED
      BY <1>2, <1>4, <2>1, <2>2 DEF Readable
  <1> HIDE DEF h
  <1>7. \A i \in 0 .. b : Running(h)[i] \in Nat /\ Running(h)[i] <= Sum(h)
    BY <1>5, Rungs, SumFacts
  <1>8. \A i \in 1 .. b : Cumulative(h)[i] = Running(h)[i]
    <2> SUFFICES ASSUME NEW i \in 1 .. b PROVE Cumulative(h)[i] = Running(h)[i]
      OBVIOUS
    <2>1. Cumulative(h)[i] = Least(Running(h)[i])
      BY <1>5, CumulativeFacts
    <2>2. Running(h)[i] < MaxU64
      BY <1>6, <1>7
    <2> QED
      BY <2>1, <2>2 DEF Least
  <1>9. /\ Len(Cumulative(h)) = b /\ DOMAIN Cumulative(h) = 1 .. b
    BY <1>5, CumulativeFacts
  <1>10. \A i, j \in 1 .. b : i <= j => Cumulative(h)[i] <= Cumulative(h)[j]
    <2>1. \A i \in 1 .. b : i \in 0 .. b
      OBVIOUS
    <2> QED
      BY <1>5, <1>8, <2>1, RunningGrows
  <1>11. Running(h)[b] = Sum(h) /\ Cumulative(h)[b] = Sum(h)
    BY <1>5, <1>8 DEF Sum
  <1>12. TotalSamples(h) = Sum(h)
    <2>1. TotalSamples(h) = Sum(h) % (MaxU64 + 1)
      BY <1>5, <1>11 DEF TotalSamples
    <2> QED
      BY <1>6, <2>1
  <1>13. \A i \in 1 .. b : Cumulative(h)[i] \in Nat
    BY <1>7, <1>8
  <1> QED
    BY <1>1, <1>2, <1>3, <1>4, <1>5, <1>6, <1>9, <1>10, <1>11, <1>12, <1>13 DEF h

\* A percentile is the first bucket that reaches its share.
LEMMA PercentileFacts ==
  ASSUME Readable, NEW pct \in {95, 99}, Sum(Histogram) > 0, 150 * Sum(Histogram) < Mantissa
  PROVE  \E i \in 1 .. Len(Bounds) :
           /\ Percentile(pct) = Bounds[i]
           /\ Cumulative(Histogram)[i] * 100 >= pct * Sum(Histogram)
           /\ \A j \in 1 .. Len(Bounds) : j < i =>
                ~ (Cumulative(Histogram)[j] * 100 >= pct * Sum(Histogram))
  <1> DEFINE C == Cumulative(Histogram)
             total == TotalSamples(Histogram)
             target == Target(total, pct)
             hits == {i \in DOMAIN C : Reaches(C[i], target)}
             first == CHOOSE i \in hits : \A j \in hits : i <= j
  <1>1. PICK n \in Nat, b \in Nat \ {0} :
          n = Sum(Histogram) /\ n \in 1 .. MaxU64 /\ 150 * n < Mantissa /\ b = Len(Bounds)
    <2>1. PICK n, m \in Nat : /\ n = Sum(Histogram) /\ m = Total("queue_time_samples")
                             /\ n <= m /\ n > 0 /\ MaxU64 \in Nat
      BY HistogramFacts
    <2>2. m < MaxU64
      BY <2>1 DEF Readable
    <2>3. n \in 1 .. MaxU64 /\ 150 * n < Mantissa
      BY <2>1, <2>2
    <2>4. PICK b \in Nat \ {0} : b = Len(Bounds)
      BY LoadFacts
    <2> QED
      BY <2>1, <2>3, <2>4
  <1>2. /\ total = n /\ DOMAIN C = 1 .. b /\ C[b] = n /\ \A i \in 1 .. b : C[i] \in Nat
    BY <1>1, HistogramFacts
  <1>3. target = (n * pct + 99) \div 100
    <2>1. ASSUME NEW t \in 1 .. MaxU64, 150 * t < Mantissa
          PROVE  Target(t, pct) = (t * pct + 99) \div 100
      BY <2>1, TargetExact
    <2>2. n \in 1 .. MaxU64 /\ 150 * n < Mantissa
      BY <1>1
    <2>3. Target(n, pct) = (n * pct + 99) \div 100
      BY <2>1, <2>2, Zenon
    <2>4. total = n
      BY <1>2
    <2> QED
      BY <2>3, <2>4, Zenon
  <1>4. Percentile(pct) = IF total = 0 THEN 0 ELSE IF hits = {} THEN Bounds[Len(Bounds)] ELSE Bounds[first]
    BY DEF Percentile
  <1> HIDE DEF C, target
  <1>5. \A i \in 1 .. b : Reaches(C[i], target) <=> C[i] * 100 >= pct * n
    <2> SUFFICES ASSUME NEW i \in 1 .. b
                 PROVE  Reaches(C[i], target) <=> C[i] * 100 >= pct * n
      OBVIOUS
    <2>1. PICK x \in Nat : x = C[i]
      BY <1>2
    <2>2. x >= (n * pct + 99) \div 100 <=> x * 100 >= pct * n
      <3>1. CASE pct = 95
        BY <3>1
      <3>2. CASE pct = 99
        BY <3>2
      <3> QED
        BY <3>1, <3>2
    <2> QED
      BY <1>3, <2>1, <2>2 DEF Reaches
  <1>6. b \in hits
    <2>1. n * 100 >= pct * n
      <3>1. CASE pct = 95
        BY <3>1
      <3>2. CASE pct = 99
        BY <3>2
      <3> QED
        BY <3>1, <3>2
    <2> QED
      BY <1>2, <1>5, <2>1
  <1>7. hits \in SUBSET Nat /\ hits \subseteq 1 .. b
    BY <1>2
  <1> HIDE DEF hits
  <1>8. \E i \in hits : \A j \in hits : i <= j
    BY <1>6, <1>7, LeastElement
  <1>9. first \in hits /\ \A j \in hits : first <= j
    BY <1>8
  <1> HIDE DEF first
  <1>10. Percentile(pct) = Bounds[first] /\ first \in 1 .. b
    BY <1>1, <1>2, <1>4, <1>6, <1>7, <1>9
  <1>11. \A i \in 1 .. b : i \in hits <=> C[i] * 100 >= pct * n
    BY <1>2, <1>5 DEF hits
  <1>12. \A j \in 1 .. b : j < first => ~ (C[j] * 100 >= pct * n)
    BY <1>9, <1>10, <1>11
  <1> QED
    BY <1>1, <1>9, <1>10, <1>11, <1>12 DEF C

\* A larger share has a larger target, which no earlier bucket reaches.
LEMMA PercentilesOrdered ==
  ASSUME MetricsInv, Complete
  PROVE  Percentile(95) <= Percentile(99)
  <1> DEFINE C == Cumulative(Histogram)
             total == TotalSamples(Histogram)
             hits(t) == {i \in DOMAIN C : Reaches(C[i], t)}
             first(S) == CHOOSE i \in S : \A j \in S : i <= j
  <1>1. PICK b \in Nat \ {0} : b = Len(Bounds) /\ DOMAIN Bounds = 1 .. b
    BY LoadFacts
  <1>2. DOMAIN C = 1 .. b /\ (\A i \in 1 .. b : C[i] \in Nat) /\ total \in 0 .. MaxU64
    BY <1>1, HistogramShape
  <1>3. PICK t, u \in Nat : t = Target(total, 95) /\ u = Target(total, 99) /\ t <= u
    BY <1>2, TargetOrdered
  <1>4. /\ Percentile(95) = IF total = 0 THEN 0 ELSE IF hits(t) = {} THEN Bounds[b] ELSE Bounds[first(hits(t))]
        /\ Percentile(99) = IF total = 0 THEN 0 ELSE IF hits(u) = {} THEN Bounds[b] ELSE Bounds[first(hits(u))]
    BY <1>1, <1>3 DEF Percentile
  <1>5. PICK S, T : S = hits(t) /\ T = hits(u) /\ T \subseteq S /\ S \in SUBSET (1 .. b)
    <2>1. \A i \in 1 .. b : Reaches(C[i], u) => Reaches(C[i], t)
      BY <1>2, <1>3 DEF Reaches
    <2> QED
      BY <1>2, <2>1
  <1> HIDE DEF C, total, hits
  <1>6. \A R \in SUBSET (1 .. b) : R # {} => first(R) \in R /\ \A j \in R : first(R) <= j
    <2> SUFFICES ASSUME NEW R \in SUBSET (1 .. b), R # {}
                 PROVE  first(R) \in R /\ \A j \in R : first(R) <= j
      OBVIOUS
    <2>1. R \in SUBSET Nat
      OBVIOUS
    <2>2. \E i \in R : \A j \in R : i <= j
      BY <2>1, LeastElement
    <2> QED
      BY <2>2
  <1> HIDE DEF first
  <1>7. \A i, j \in 1 .. b : /\ Bounds[i] \in Nat
                             /\ i <= j => Bounds[i] <= Bounds[j]
    <2>1. \A i \in 1 .. b : Bounds[i] \in Nat
      BY <1>1, MetricsAssumption
    <2>2. \A i, j \in 1 .. b : i < j => Bounds[i] < Bounds[j]
      BY <1>1, MetricsAssumption
    <2> QED
      BY <2>1, <2>2
  <1>8. CASE total = 0
    BY <1>4, <1>8
  <1>9. CASE total # 0 /\ S = {}
    BY <1>1, <1>4, <1>5, <1>7, <1>9
  <1>10. CASE total # 0 /\ S # {} /\ T = {}
    <2>1. first(S) \in 1 .. b
      BY <1>5, <1>6, <1>10
    <2> QED
      BY <1>4, <1>5, <1>7, <1>10, <2>1
  <1>11. CASE total # 0 /\ T # {}
    <2>1. first(S) \in 1 .. b /\ first(T) \in 1 .. b /\ first(S) <= first(T) /\ S # {}
      BY <1>5, <1>6, <1>11
    <2> QED
      BY <1>4, <1>5, <1>7, <1>11, <2>1
  <1> QED
    BY <1>8, <1>9, <1>10, <1>11

\* p95 never exceeds p99 in a finished snapshot, whatever the rounding and the wrapping
\* sum do, and while f64 leaves the target exact each is the least bound that covers its
\* share of what was loaded (PercentilesExact).
THEOREM PercentilesAlwaysExact == MetricsSpec => []PercentilesExact
  <1>1. ASSUME MetricsInv, ScrapeInv PROVE PercentilesExact
    <2> SUFFICES ASSUME Complete PROVE PercentilesExact
      BY DEF PercentilesExact
    <2> DEFINE C == Cumulative(Histogram)
    <2>1. Percentile(95) <= Percentile(99)
      BY <1>1, PercentilesOrdered
    <2>2. ASSUME Total("queue_time_samples") < MaxU64, C[Len(C)] > 0, 150 * C[Len(C)] < Mantissa,
                 NEW pct \in {95, 99}
          PROVE  \E i \in DOMAIN C :
                   /\ Percentile(pct) = Bounds[i]
                   /\ C[i] * 100 >= pct * C[Len(C)]
                   /\ \A j \in DOMAIN C : j < i => ~ (C[j] * 100 >= pct * C[Len(C)])
      <3>1. Readable
        BY <1>1, <2>2 DEF Readable
      <3>2. DOMAIN C = 1 .. Len(Bounds) /\ Len(C) = Len(Bounds) /\ C[Len(C)] = Sum(Histogram)
        BY <3>1, HistogramFacts
      <3> QED
        BY <2>2, <3>1, <3>2, PercentileFacts
    <2> HIDE DEF C
    <2> QED
      BY <2>1, <2>2, Zenon DEF PercentilesExact, C
  <1> QED
    BY <1>1, ScrapeInvariant, PTL

\* A sequence of n elements, and one put together of m elements of s and n of t.
Tuple(s, n) == s = [i \in 1 .. n |-> s[i]]
Join(u, s, t, m, n) ==
  /\ DOMAIN u = 1 .. m + n /\ Tuple(u, m + n)
  /\ \A i \in 1 .. m : u[i] = s[i]
  /\ \A i \in 1 .. n : u[m + i] = t[i]

LEMMA Joined ==
  ASSUME NEW s, NEW t, NEW m \in Nat, NEW n \in Nat, Tuple(s, m), Tuple(t, n)
  PROVE  Join(s \o t, s, t, m, n)
  <1> DEFINE S == {s[i] : i \in 1 .. m} \cup {t[i] : i \in 1 .. n}
  <1>1. s \in [1 .. m -> S] /\ t \in [1 .. n -> S]
    BY DEF Tuple
  <1> HIDE DEF S
  <1>2. s \in Seq(S) /\ t \in Seq(S) /\ Len(s) = m /\ Len(t) = n
    BY <1>1
  <1>3. /\ s \o t \in Seq(S) /\ Len(s \o t) = m + n
        /\ \A i \in 1 .. m + n : (s \o t)[i] = IF i <= m THEN s[i] ELSE t[i - m]
    BY <1>2, ConcatProperties
  <1> DEFINE u == s \o t
  <1> HIDE DEF u
  <1>4. DOMAIN u = 1 .. m + n /\ u = [i \in 1 .. m + n |-> u[i]]
    <2>1. u \in Seq(S) /\ Len(u) = m + n
      BY <1>3 DEF u
    <2> QED
      BY <2>1
  <1>5. \A i \in 1 .. m : u[i] = s[i]
    <2>1. \A i \in 1 .. m : i \in 1 .. m + n /\ i <= m
      OBVIOUS
    <2> QED
      BY <1>3, <2>1 DEF u
  <1>6. \A i \in 1 .. n : u[m + i] = t[i]
    <2>1. \A i \in 1 .. n : m + i \in 1 .. m + n /\ ~ (m + i <= m) /\ (m + i) - m = i
      OBVIOUS
    <2> QED
      BY <1>3, <2>1 DEF u
  <1> QED
    BY <1>4, <1>5, <1>6 DEF u, Tuple, Join

LEMMA RenderedFacts ==
  ASSUME Readable
  PROVE  LET L == Rendered
             b == Len(Bounds)
         IN  /\ \A i \in 1 .. b : 12 + i \in DOMAIN L /\ L[12 + i] = <<"bucket", Cumulative(Histogram)[i]>>
             /\ 13 + b \in DOMAIN L /\ L[13 + b] = <<"count", Total("queue_time_samples")>>
             /\ \A i \in DOMAIN L : i \in Nat /\ (L[i][1] = "bucket" => i \in 13 .. 12 + b)
             /\ \A i \in DOMAIN L : L[i][1] = "count" => i = 13 + b
  <1> DEFINE L == Rendered
             Line(n) == <<n, LoadAt(Counter(n))>>
             C == Cumulative(Histogram)
             T == LoadAt(Top)
             A == <<Line("enqueued"), Line("dequeued"), Line("dropped"), Line("rejected_global"),
                    Line("rejected_tenant"), Line("timeout_rejected"), Line("dropped_policy"),
                    Line("expired"), Line("queue_time_sum_ns"), Line("queue_time_samples"),
                    <<"p95", Percentile(95)>>, <<"p99", Percentile(99)>> >>
             B == [i \in DOMAIN C |-> <<"bucket", C[i]>>]
             D == <<<<"count", LoadAt(Counter("queue_time_samples"))>>,
                    <<"sum", LoadAt(Counter("queue_time_sum_ns"))>> >>
             E == [i \in DOMAIN T |-> <<"tenant", T[i].count>>]
  <1>1. PICK b \in Nat \ {0} : b = Len(Bounds)
    BY LoadFacts
  <1>2. PICK t \in Nat : DOMAIN T = 1 .. t
    <2>1. b + 1 \in DOMAIN snap /\ LoadOrder[b + 1] = Top /\ T = snap[b + 1]
      <3>1. DOMAIN snap = 1 .. Len(snap) /\ Len(snap) = b + 11
        BY <1>1, HistogramFacts, MetricsFacts DEF Readable
      <3>2. b + 1 \in 1 .. b + 11
        OBVIOUS
      <3> QED
        BY <1>1, <3>1, <3>2, LoadFacts, LoadAtFacts
    <2>2. Len(T) \in Nat /\ T = [j \in 1 .. Len(T) |-> T[j]]
      BY <2>1 DEF Readable, ScrapeInv, ReadTrue
    <2>3. DOMAIN T = 1 .. Len(T)
      BY <2>2
    <2> QED
      BY <2>2, <2>3
  <1>3. L = ((A \o B) \o D) \o E
    BY DEF Rendered
  <1>4. /\ Tuple(A, 12) /\ A[1][1] = "enqueued" /\ A[2][1] = "dequeued" /\ A[3][1] = "dropped"
        /\ A[4][1] = "rejected_global" /\ A[5][1] = "rejected_tenant"
        /\ A[6][1] = "timeout_rejected" /\ A[7][1] = "dropped_policy" /\ A[8][1] = "expired"
        /\ A[9][1] = "queue_time_sum_ns" /\ A[10][1] = "queue_time_samples"
        /\ A[11][1] = "p95" /\ A[12][1] = "p99"
    BY DEF Tuple
  <1>5. /\ Tuple(B, b) /\ \A i \in 1 .. b : B[i] = <<"bucket", C[i]>>
    BY <1>1, HistogramFacts DEF Tuple
  <1>6. /\ Tuple(D, 2)
        /\ D[1] = <<"count", Total("queue_time_samples")>> /\ D[2][1] = "sum"
    BY DEF Total, Tuple
  <1>7. /\ Tuple(E, t) /\ \A i \in 1 .. t : E[i][1] = "tenant"
    BY <1>2 DEF Tuple
  <1> HIDE DEF A, B, C, D, E, T, L
  <1> DEFINE AB == A \o B
             ABD == AB \o D
  <1>8. /\ Tuple(AB, 12 + b)
        /\ \A i \in 1 .. 12 : AB[i] = A[i]
        /\ \A i \in 1 .. b : AB[12 + i] = B[i]
    <2>1. 12 \in Nat /\ b \in Nat
      OBVIOUS
    <2>2. Tuple(A, 12) /\ Tuple(B, b)
      BY <1>4, <1>5
    <2>3. Join(A \o B, A, B, 12, b)
      BY <2>1, <2>2, Joined, Zenon
    <2> QED
      BY <2>3 DEF Join, AB
  <1> HIDE DEF AB
  <1>9. /\ Tuple(ABD, (12 + b) + 2)
        /\ \A i \in 1 .. 12 + b : ABD[i] = AB[i]
        /\ \A i \in 1 .. 2 : ABD[(12 + b) + i] = D[i]
    <2>1. 12 + b \in Nat /\ 2 \in Nat
      OBVIOUS
    <2>2. Tuple(AB, 12 + b) /\ Tuple(D, 2)
      BY <1>8, <1>6
    <2>3. Join(AB \o D, AB, D, 12 + b, 2)
      BY <2>1, <2>2, Joined, Zenon
    <2> QED
      BY <2>3 DEF Join, ABD
  <1> HIDE DEF ABD
  <1>10. /\ DOMAIN (ABD \o E) = 1 .. ((12 + b) + 2) + t
         /\ \A i \in 1 .. (12 + b) + 2 : (ABD \o E)[i] = ABD[i]
         /\ \A i \in 1 .. t : (ABD \o E)[((12 + b) + 2) + i] = E[i]
    <2>1. (12 + b) + 2 \in Nat /\ t \in Nat
      OBVIOUS
    <2>2. Tuple(ABD, (12 + b) + 2) /\ Tuple(E, t)
      BY <1>9, <1>7
    <2>3. Join(ABD \o E, ABD, E, (12 + b) + 2, t)
      BY <2>1, <2>2, Joined, Zenon
    <2> QED
      BY <2>3 DEF Join
  <1>11. L = ABD \o E
    BY <1>3 DEF ABD, AB
  <1>12. /\ DOMAIN L = 1 .. 14 + b + t
         /\ \A i \in 1 .. 12 : L[i] = A[i]
         /\ \A i \in 1 .. b : L[12 + i] = <<"bucket", C[i]>>
         /\ L[13 + b] = <<"count", Total("queue_time_samples")>> /\ L[14 + b][1] = "sum"
         /\ \A i \in 1 .. t : L[14 + b + i][1] = "tenant"
    <2>1. DOMAIN L = 1 .. 14 + b + t
      BY <1>10, <1>11
    <2>2. \A i \in 1 .. 12 + b : L[i] = AB[i]
      <3>1. \A i \in 1 .. 12 + b : i \in 1 .. (12 + b) + 2
        OBVIOUS
      <3> QED
        BY <1>9, <1>10, <1>11, <3>1
    <2>3. \A i \in 1 .. 12 : L[i] = A[i]
      <3>1. \A i \in 1 .. 12 : i \in 1 .. 12 + b
        OBVIOUS
      <3> QED
        BY <1>8, <2>2, <3>1
    <2>4. \A i \in 1 .. b : L[12 + i] = <<"bucket", C[i]>>
      <3>1. \A i \in 1 .. b : 12 + i \in 1 .. 12 + b
        OBVIOUS
      <3> QED
        BY <1>5, <1>8, <2>2, <3>1
    <2>5. L[13 + b] = D[1] /\ L[14 + b] = D[2]
      <3>1. ABD[(12 + b) + 1] = D[1] /\ ABD[(12 + b) + 2] = D[2]
        BY <1>9
      <3>2. /\ 13 + b = (12 + b) + 1 /\ 13 + b \in 1 .. (12 + b) + 2
            /\ 14 + b = (12 + b) + 2 /\ 14 + b \in 1 .. (12 + b) + 2
        OBVIOUS
      <3>3. L[13 + b] = ABD[13 + b] /\ L[14 + b] = ABD[14 + b]
        BY <1>10, <1>11, <3>2, Zenon
      <3> QED
        BY <3>1, <3>2, <3>3
    <2>6. \A i \in 1 .. t : L[14 + b + i] = E[i]
      <3>1. \A i \in 1 .. t : 14 + b + i = ((12 + b) + 2) + i
        OBVIOUS
      <3> QED
        BY <1>10, <1>11, <3>1
    <2>7. L[13 + b] = <<"count", Total("queue_time_samples")>> /\ L[14 + b][1] = "sum"
      BY <1>6, <2>5
    <2>8. \A i \in 1 .. t : L[14 + b + i][1] = "tenant"
      BY <1>7, <2>6
    <2> QED
      BY <2>1, <2>3, <2>4, <2>7, <2>8
  <1>13. \A i \in 1 .. 14 + b + t :
           \/ i \in 1 .. 12
           \/ \E j \in 1 .. b : i = 12 + j
           \/ i = 13 + b \/ i = 14 + b
           \/ \E j \in 1 .. t : i = 14 + b + j
    <2> SUFFICES ASSUME NEW i \in 1 .. 14 + b + t, i > 12, i # 13 + b, i # 14 + b
                 PROVE  (\E j \in 1 .. b : i = 12 + j) \/ (\E j \in 1 .. t : i = 14 + b + j)
      OBVIOUS
    <2>1. CASE i <= 12 + b
      <3>1. i - 12 \in 1 .. b /\ i = 12 + (i - 12)
        BY <2>1
      <3> QED
        BY <3>1
    <2>2. CASE i > 12 + b
      <3>1. i - 14 - b \in 1 .. t /\ i = 14 + b + (i - 14 - b)
        BY <2>2
      <3> QED
        BY <3>1
    <2> QED
      BY <2>1, <2>2
  <1>14. \A i \in 1 .. 12 : L[i][1] # "bucket" /\ L[i][1] # "count"
    <2>1. \A i \in 1 .. 12 : i = 1 \/ i = 2 \/ i = 3 \/ i = 4 \/ i = 5 \/ i = 6 \/ i = 7 \/ i = 8
                              \/ i = 9 \/ i = 10 \/ i = 11 \/ i = 12
      OBVIOUS
    <2>2. \A i \in 1 .. 12 : A[i][1] # "bucket" /\ A[i][1] # "count"
      BY <1>4, <2>1
    <2> QED
      BY <1>12, <2>2
  <1>15. ASSUME NEW i \in DOMAIN L
         PROVE  /\ i \in Nat /\ (L[i][1] = "bucket" => i \in 13 .. 12 + b)
                /\ L[i][1] = "count" => i = 13 + b
    <2>1. i \in 1 .. 14 + b + t
      BY <1>12
    <2>2. CASE i \in 1 .. 12
      BY <1>14, <2>2
    <2>3. CASE \E j \in 1 .. b : i = 12 + j
      <3>1. PICK j \in 1 .. b : i = 12 + j
        BY <2>3
      <3>2. L[i] = <<"bucket", C[j]>> /\ i \in 13 .. 12 + b
        BY <1>12, <3>1
      <3> QED
        BY <3>2
    <2>4. CASE i = 13 + b
      BY <1>12, <2>4
    <2>5. CASE i = 14 + b
      BY <1>12, <2>5
    <2>6. CASE \E j \in 1 .. t : i = 14 + b + j
      <3>1. L[i][1] = "tenant"
        BY <1>12, <2>6
      <3> QED
        BY <2>1, <3>1
    <2> QED
      BY <1>13, <2>1, <2>2, <2>3, <2>4, <2>5, <2>6
  <1>16. 13 + b \in DOMAIN L /\ \A i \in 1 .. b : 12 + i \in DOMAIN L
    BY <1>12
  <1> QED
    BY <1>1, <1>12, <1>15, <1>16 DEF L, C

\* The rendered histogram never claims more than its count, and a read that no
\* recording overlapped adds up (ScrapeConsistent).
THEOREM ScrapeAlwaysConsistent == MetricsSpec => []ScrapeConsistent
  <1>1. ASSUME Readable, ~overlap
        PROVE  /\ Sum(Histogram) = Total("queue_time_samples")
               /\ Total("dropped") < MaxU64 =>
                    Total("dropped") = Total("rejected_global") + Total("rejected_tenant")
                                     + Total("timeout_rejected") + Total("dropped_policy")
    <2>1. PICK b \in Nat \ {0} : b = Len(Bounds) /\ DOMAIN Bounds = 1 .. b
      BY LoadFacts
    <2>2. /\ Quiet
          /\ \A i \in DOMAIN snap : LoadOrder[i] # Top => snap[i] = cell[LoadOrder[i]]
      BY <1>1 DEF Readable, ScrapeInv, ReadTrue
    <2>3. DOMAIN snap = 1 .. b + 11 /\ \A i \in 1 .. b : i \in 1 .. b + 11
      <3>1. DOMAIN snap = 1 .. Len(snap) /\ Len(snap) = b + 11
        BY <1>1, <2>1, HistogramFacts, MetricsFacts DEF Readable
      <3> QED
        BY <3>1
    <2>4. \A i \in 1 .. b : snap[i] = cell[Bucket(i)]
      BY <2>1, <2>2, <2>3, LoadFacts
    <2>5. \A i \in 1 .. 10 : Total(Plain[i]) = cell[Counter(Plain[i])]
      <3> SUFFICES ASSUME NEW i \in 1 .. 10 PROVE Total(Plain[i]) = cell[Counter(Plain[i])]
        OBVIOUS
      <3>1. b + 1 + i \in 1 .. b + 11
        OBVIOUS
      <3>2. snap[b + 1 + i] = cell[LoadOrder[b + 1 + i]] /\ LoadOrder[b + 1 + i] = Counter(Plain[i])
        BY <2>1, <2>2, <2>3, <3>1, LoadFacts
      <3>3. Total(Plain[i]) = snap[b + 1 + i]
        BY <2>1, LoadAtFacts DEF Total
      <3> QED
        BY <3>2, <3>3
    <2>6. /\ Total("queue_time_samples") = cell[Samples] /\ Total("dropped") = cell[Dropped]
          /\ Total("rejected_global") = cell[Counter("rejected_global")]
          /\ Total("rejected_tenant") = cell[Counter("rejected_tenant")]
          /\ Total("timeout_rejected") = cell[Counter("timeout_rejected")]
          /\ Total("dropped_policy") = cell[Counter("dropped_policy")]
      <3>1. /\ Plain[4] = "dropped" /\ Plain[5] = "rejected_global" /\ Plain[6] = "rejected_tenant"
            /\ Plain[7] = "timeout_rejected" /\ Plain[8] = "dropped_policy"
            /\ Plain[10] = "queue_time_samples"
        BY DEF Plain
      <3>2. /\ Total(Plain[4]) = cell[Counter(Plain[4])] /\ Total(Plain[5]) = cell[Counter(Plain[5])]
            /\ Total(Plain[6]) = cell[Counter(Plain[6])] /\ Total(Plain[7]) = cell[Counter(Plain[7])]
            /\ Total(Plain[8]) = cell[Counter(Plain[8])] /\ Total(Plain[10]) = cell[Counter(Plain[10])]
        BY <2>5
      <3> QED
        BY <3>1, <3>2 DEF Samples, Dropped
    <2>7. LateBuckets = {} /\ LateReasons = {}
      <3>1. \A th \in Threads : todo[th].adds = <<>>
        BY <2>2 DEF Quiet, Nothing
      <3>2. Len(<<>>) # 1
        OBVIOUS
      <3>3. \A C : ~ IsLate(C, <<>>)
        BY <3>2, LateShape
      <3>4. \A C : Late(C) = {th \in Threads : IsLate(C, todo[th].adds)}
        BY DEF Late, IsLate
      <3> QED
        BY <3>1, <3>3, <3>4 DEF LateBuckets, LateReasons
    <2>8. Histogram = InBuckets
      <3>1. Histogram = [i \in 1 .. b |-> snap[i]]
        BY <1>1, <2>1, HistogramFacts DEF Loaded
      <3>2. InBuckets = [i \in 1 .. b |-> cell[Bucket(i)]]
        BY <2>1 DEF InBuckets
      <3> QED
        BY <2>4, <3>1, <3>2
    <2>9. Sum(InBuckets) + 0 = cell[Samples]
      BY <1>1, <2>6, <2>7, FS_EmptySet DEF Readable, ScrapeInv, LeadsKept
    <2>10. cell[Dropped] < MaxU64 => ByReason + 0 = cell[Dropped]
      BY <1>1, <2>7, FS_EmptySet DEF Readable, ScrapeInv, LeadsKept
    <2>11. Sum(InBuckets) \in Nat /\ ByReason \in Nat
      BY <1>1, LeadFacts, MetricsFacts DEF Readable
    <2>12. cell[Dropped] < MaxU64 => cell[Dropped] = ByReason
      BY <2>10, <2>11
    <2> QED
      BY <2>6, <2>8, <2>9, <2>11, <2>12 DEF ByReason
  <1>2. ASSUME MetricsInv, ScrapeInv PROVE ScrapeConsistent
    <2> SUFFICES ASSUME Complete, Total("queue_time_samples") < MaxU64 PROVE ScrapeConsistent
      BY DEF ScrapeConsistent
    <2>1. Readable
      BY <1>2 DEF Readable
    <2> DEFINE L == Rendered
               B == {i \in DOMAIN L : L[i][1] = "bucket"}
               n == CHOOSE n \in DOMAIN L : L[n][1] = "count"
               C == Cumulative(Histogram)
    <2>2. PICK b \in Nat \ {0} : b = Len(Bounds)
      BY LoadFacts
    <2>3. /\ \A i \in 1 .. b : 12 + i \in DOMAIN L /\ L[12 + i] = <<"bucket", C[i]>>
          /\ 13 + b \in DOMAIN L /\ L[13 + b] = <<"count", Total("queue_time_samples")>>
          /\ \A i \in DOMAIN L : i \in Nat /\ (L[i][1] = "bucket" => i \in 13 .. 12 + b)
          /\ \A i \in DOMAIN L : L[i][1] = "count" => i = 13 + b
      BY <2>1, <2>2, RenderedFacts
    <2>4. /\ \A i \in 1 .. b : C[i] \in Nat /\ C[i] <= C[b]
          /\ \A i, j \in 1 .. b : i <= j => C[i] <= C[j]
          /\ C[b] = Sum(Histogram) /\ C[b] <= Total("queue_time_samples")
          /\ C[b] \in Nat /\ Total("queue_time_samples") \in Nat
      <3>1. /\ \A i \in 1 .. b : C[i] \in Nat
            /\ \A i, j \in 1 .. b : i <= j => C[i] <= C[j]
            /\ C[b] = Sum(Histogram) /\ Sum(Histogram) \in Nat
            /\ Sum(Histogram) <= Total("queue_time_samples")
            /\ Total("queue_time_samples") \in Nat
        BY <2>1, <2>2, HistogramFacts
      <3>2. \A i \in 1 .. b : i <= b /\ b \in 1 .. b
        OBVIOUS
      <3> QED
        BY <3>1, <3>2
    <2> HIDE DEF L, C
    <2>5. n = 13 + b
      BY <2>3
    <2> HIDE DEF n
    <2>6. \A i \in B : i - 12 \in 1 .. b /\ i = 12 + (i - 12) /\ L[i][2] = C[i - 12]
      <3> SUFFICES ASSUME NEW i \in B
                   PROVE  i - 12 \in 1 .. b /\ i = 12 + (i - 12) /\ L[i][2] = C[i - 12]
        OBVIOUS
      <3>1. i \in 13 .. 12 + b
        BY <2>3
      <3>2. PICK j \in 1 .. b : i = 12 + j /\ i - 12 = j
        <4>1. i - 12 \in 1 .. b /\ i = 12 + (i - 12)
          BY <3>1
        <4> QED
          BY <4>1
      <3>3. L[i] = <<"bucket", C[j]>>
        BY <2>3, <3>2
      <3> QED
        BY <3>2, <3>3
    <2>7. L[n][2] = Total("queue_time_samples")
      BY <2>3, <2>5
    <2>8. \A i \in B : L[i][2] <= L[n][2]
      BY <2>4, <2>6, <2>7
    <2>9. \A i, j \in B : i <= j => L[i][2] <= L[j][2]
      <3> SUFFICES ASSUME NEW i \in B, NEW j \in B, i <= j PROVE L[i][2] <= L[j][2]
        OBVIOUS
      <3>1. i \in Nat /\ j \in Nat
        BY <2>3
      <3>2. i - 12 <= j - 12
        BY <3>1
      <3> QED
        BY <2>4, <2>6, <3>2
    <2>10. L[n - 1][2] = C[b]
      <3>1. n - 1 = 12 + b /\ b \in 1 .. b
        BY <2>5
      <3> QED
        BY <2>3, <3>1
    <2>11. ~overlap => /\ L[n - 1][2] = L[n][2]
                       /\ Total("dropped") < MaxU64 =>
                            Total("dropped") = Total("rejected_global") + Total("rejected_tenant")
                                             + Total("timeout_rejected") + Total("dropped_policy")
      BY <1>1, <2>1, <2>4, <2>7, <2>10
    <2> HIDE DEF B
    <2> QED
      BY <2>8, <2>9, <2>11 DEF ScrapeConsistent, L, B, n
  <1> QED
    BY <1>2, ScrapeInvariant, PTL
=============================================================================
