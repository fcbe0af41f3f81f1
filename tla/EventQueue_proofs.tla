-------------------------- MODULE EventQueue_proofs --------------------------
(***************************************************************************)
(* Facts about the event queue, for every pool size and every range of     *)
(* COUNT: arithmetic, insertion into and removal from the list, and what   *)
(* both do to the number of events of a type and to their order. A queue   *)
(* is in order when its events lie on a line of ticks, unbounded integers  *)
(* of which the counts are the remainders.                                 *)
(***************************************************************************)
EXTENDS EventQueue, SequenceTheorems, WellFoundedInduction, TLAPS

(* Unsigned arithmetic stays in the range of COUNT.                        *)
LEMMA WrapType == \A n \in Int : Wrap(n) \in Counts
  BY HalfAssumption, SMT DEF Wrap, Counts, COUNT_MOD

(* Facts about division and products of integers.                          *)
LEMMA Distribution ==
  \A x, y, z \in Int : (x - y) * z = x * z - y * z /\ (x + y) * z = x * z + y * z
  BY SMT

LEMMA Division ==
  \A a \in Int, m \in Nat : m > 0 => a \div m \in Int /\ a = (a \div m) * m + (a % m)
  BY SMT

LEMMA Remainder ==
  \A m \in Nat, k, r \in Int : m > 0 /\ 0 <= r /\ r < m => (k * m + r) % m = r
  BY SMT

(* The range of COUNT.                                                     *)
LEMMA RangeType ==
  /\ COUNT_MOD \in Nat /\ COUNT_MOD > 0 /\ COUNT_MOD = HALF + HALF
  /\ \A n : n \in Counts <=> n \in Int /\ 0 <= n /\ n < COUNT_MOD
  BY HalfAssumption DEF COUNT_MOD, Counts

(* The remainder is the only member of the range at a multiple of it.      *)
LEMMA WrapUnique ==
  ASSUME NEW k \in Int, NEW r \in Counts
  PROVE  Wrap(k * COUNT_MOD + r) = r
  BY RangeType, Remainder DEF Wrap

LEMMA WrapSplits ==
  ASSUME NEW a \in Int
  PROVE  \E k \in Int : a = k * COUNT_MOD + Wrap(a)
<1>1. a \div COUNT_MOD \in Int /\ a = (a \div COUNT_MOD) * COUNT_MOD + Wrap(a)
  BY RangeType, Division DEF Wrap
<1> QED
  BY <1>1

(* Within a turn of the range on either side, no division is needed.       *)
LEMMA WrapNear ==
  ASSUME NEW a \in Int
  PROVE  /\ 0 <= a /\ a < COUNT_MOD => Wrap(a) = a
         /\ 0 <= a + COUNT_MOD /\ a < 0 => Wrap(a) = a + COUNT_MOD
         /\ COUNT_MOD <= a /\ a < COUNT_MOD + COUNT_MOD => Wrap(a) = a - COUNT_MOD
<1> USE RangeType
<1>1. ASSUME 0 <= a, a < COUNT_MOD PROVE Wrap(a) = a
  <2>1. a = 0 * COUNT_MOD + a /\ 0 \in Int /\ a \in Counts
    BY <1>1
  <2> QED
    BY <2>1, WrapUnique
<1>2. ASSUME 0 <= a + COUNT_MOD, a < 0 PROVE Wrap(a) = a + COUNT_MOD
  <2>1. a = (-1) * COUNT_MOD + (a + COUNT_MOD) /\ -1 \in Int /\ a + COUNT_MOD \in Counts
    BY <1>2
  <2> QED
    BY <2>1, WrapUnique
<1>3. ASSUME COUNT_MOD <= a, a < COUNT_MOD + COUNT_MOD PROVE Wrap(a) = a - COUNT_MOD
  <2>1. a = 1 * COUNT_MOD + (a - COUNT_MOD) /\ 1 \in Int /\ a - COUNT_MOD \in Counts
    BY <1>3
  <2> QED
    BY <2>1, WrapUnique
<1> QED
  BY <1>1, <1>2, <1>3

(* Adding turns changes nothing.                                           *)
LEMMA WrapTurns ==
  ASSUME NEW a \in Int, NEW k \in Int
  PROVE  Wrap(k * COUNT_MOD + a) = Wrap(a)
<1>0. PICK l \in Int : a = l * COUNT_MOD + Wrap(a)
  BY WrapSplits
<1> DEFINE x == k * COUNT_MOD  y == l * COUNT_MOD  z == (k + l) * COUNT_MOD
<1>1. Wrap(a) \in Counts /\ Wrap(a) \in Int
  BY WrapType, RangeType
<1>2. Wrap(z + Wrap(a)) = Wrap(a)
  BY <1>1, WrapUnique
<1>3. x \in Int /\ y \in Int /\ z = x + y /\ a = y + Wrap(a)
  BY <1>0, RangeType, Distribution
<1> HIDE DEF x, y, z
<1>4. x + a = z + Wrap(a)
  BY <1>1, <1>3
<1> QED
  BY <1>2, <1>4 DEF x

(* Wrapping a term of a sum does not change the wrapped sum.               *)
LEMMA WrapAgain ==
  ASSUME NEW a \in Int, NEW b \in Int
  PROVE  /\ Wrap(Wrap(a) + b) = Wrap(a + b)
         /\ Wrap(b - Wrap(a)) = Wrap(b - a)
<1>0. PICK k \in Int : a = k * COUNT_MOD + Wrap(a)
  BY WrapSplits
<1> DEFINE x == k * COUNT_MOD  y == (-k) * COUNT_MOD
<1>1. Wrap(a) \in Int
  BY WrapType, RangeType
<1>2. x \in Int /\ y = -x /\ a = x + Wrap(a)
  BY <1>0, RangeType, Distribution
<1>3. Wrap(a) + b \in Int /\ b - Wrap(a) \in Int /\ -k \in Int
  BY <1>1
<1>4. /\ Wrap(x + (Wrap(a) + b)) = Wrap(Wrap(a) + b)
      /\ Wrap(y + (b - Wrap(a))) = Wrap(b - Wrap(a))
  BY <1>3, WrapTurns
<1> HIDE DEF x, y
<1>5. x + (Wrap(a) + b) = a + b /\ y + (b - Wrap(a)) = b - a
  BY <1>1, <1>2
<1> QED
  BY <1>4, <1>5

(* A distance read as a signed integer is an integer.                      *)
LEMMA SignedType == \A n \in Counts : Signed(n) \in Int
  BY HalfAssumption DEF Signed, Counts, COUNT_MOD

(* The fake event is placed at a count.                                    *)
LEMMA SpecialCountType == \A n \in Counts : SpecialCount(n) \in Counts
  BY HalfAssumption DEF SpecialCount, Counts, COUNT_MOD

(* Min picks the least element of a nonempty set of natural numbers.       *)
LEMMA MinNat ==
  ASSUME NEW S, S \subseteq Nat, S # {}
  PROVE  Min(S) \in S
<1> DEFINE R == OpToRel(<, Nat)
<1>0. R = {ss \in Nat \X Nat : ss[1] < ss[2]}
  BY Zenon DEF OpToRel
<1>a. IsWellFoundedOn(R, Nat) BY NatLessThanWellFounded
<1> HIDE DEF R
<1>1. PICK m \in S : \A y \in S : ~(<<y, m>> \in R)
  BY <1>a, WFMin, Zenon
<1>2. \A y \in S : m <= y
  <2> SUFFICES ASSUME NEW y \in S, ~(m <= y) PROVE FALSE
    OBVIOUS
  <2>1. <<y, m>> \in Nat \X Nat /\ <<y, m>>[1] < <<y, m>>[2]
    OBVIOUS
  <2>2. <<y, m>> \in R
    BY <2>1, <1>0, Zenon
  <2> QED
    BY <2>2, <1>1
<1> QED
  BY <1>2 DEF Min

-----------------------------------------------------------------------------
(* Insertion and removal.                                                  *)

(* The elements of a sequence with e inserted at position i.               *)
LEMMA InsertAtProps ==
  ASSUME NEW S, NEW q \in Seq(S), NEW i \in 1 .. Len(q) + 1, NEW e \in S
  PROVE  /\ InsertAt(q, i, e) \in Seq(S)
         /\ Len(InsertAt(q, i, e)) = Len(q) + 1
         /\ \A j \in 1 .. Len(q) + 1 :
              InsertAt(q, i, e)[j] = IF j < i THEN q[j] ELSE IF j = i THEN e ELSE q[j - 1]
<1>0. Len(q) \in Nat /\ i \in Nat
  BY LenProperties
<1> DEFINE a == SubSeq(q, 1, i - 1)  b == SubSeq(q, i, Len(q))
<1>1. /\ a \in Seq(S) /\ Len(a) = i - 1
      /\ \A j \in 1 .. i - 1 : a[j] = q[j]
  OBVIOUS
<1>2. /\ b \in Seq(S) /\ Len(b) = Len(q) - i + 1
      /\ \A j \in 1 .. Len(q) - i + 1 : b[j] = q[i + j - 1]
  OBVIOUS
<1>3. <<e>> \in Seq(S) /\ Len(<<e>>) = 1 /\ <<e>>[1] = e
  OBVIOUS
<1> HIDE DEF a, b
<1>4. /\ a \o <<e>> \in Seq(S)
      /\ Len(a \o <<e>>) = i
      /\ \A j \in 1 .. i : (a \o <<e>>)[j] = IF j < i THEN q[j] ELSE e
  BY <1>1, <1>3, ConcatProperties
<1>5. /\ (a \o <<e>>) \o b \in Seq(S)
      /\ Len((a \o <<e>>) \o b) = Len(q) + 1
      /\ \A j \in 1 .. Len(q) + 1 : ((a \o <<e>>) \o b)[j]
              = IF j < i THEN q[j] ELSE IF j = i THEN e ELSE q[j - 1]
  <2> DEFINE c == a \o <<e>>
  <2>1. c \in Seq(S) /\ Len(c) = i /\ \A j \in 1 .. i : c[j] = IF j < i THEN q[j] ELSE e
    BY <1>4
  <2> HIDE DEF c
  <2>2. /\ c \o b \in Seq(S)
        /\ Len(c \o b) = Len(q) + 1
        /\ \A j \in 1 .. Len(q) + 1 : (c \o b)[j] = IF j <= i THEN c[j] ELSE b[j - i]
    BY <1>2, <2>1, ConcatProperties
  <2>3. ASSUME NEW j \in 1 .. Len(q) + 1
        PROVE  (c \o b)[j] = IF j < i THEN q[j] ELSE IF j = i THEN e ELSE q[j - 1]
    <3>0. j <= i \/ j > i
      BY <1>0
    <3>1. CASE j <= i
      BY <3>1, <2>1, <2>2
    <3>2. CASE j > i
      <4>1. j - i \in 1 .. Len(q) - i + 1 /\ i + (j - i) - 1 = j - 1
        BY <3>2
      <4> QED
        BY <3>2, <4>1, <1>2, <2>2
    <3> QED
      BY <3>0, <3>1, <3>2, Zenon
  <2> QED
    BY <2>2, <2>3 DEF c
<1> QED
  BY <1>5 DEF InsertAt, a, b

(* An insertion further back leaves the head in its place.                 *)
LEMMA InsertHead ==
  ASSUME NEW S, NEW q \in Seq(S), NEW i \in 1 .. Len(q) + 1, NEW e \in S, i > 1
  PROVE  InsertAt(q, i, e)[1] = q[1] /\ InsertAt(q, i, e) # <<>>
<1> DEFINE r == InsertAt(q, i, e)
<1>1. /\ Len(r) = Len(q) + 1 /\ Len(q) \in Nat
      /\ \A j \in 1 .. Len(q) + 1 :
           r[j] = IF j < i THEN q[j] ELSE IF j = i THEN e ELSE q[j - 1]
  BY InsertAtProps, LenProperties
<1> HIDE DEF r
<1>2. r[1] = q[1]
  BY <1>1
<1>3. r # <<>>
  BY <1>1
<1> QED
  BY <1>2, <1>3 DEF r

(* The elements of a sequence with the i-th one removed.                   *)
LEMMA RemoveAtProps ==
  ASSUME NEW S, NEW q \in Seq(S), NEW i \in 1 .. Len(q)
  PROVE  /\ RemoveAt(q, i) \in Seq(S)
         /\ Len(RemoveAt(q, i)) = Len(q) - 1
         /\ \A j \in 1 .. Len(q) - 1 :
              RemoveAt(q, i)[j] = IF j < i THEN q[j] ELSE q[j + 1]
<1>0. Len(q) \in Nat /\ i \in Nat
  BY LenProperties
<1> DEFINE a == SubSeq(q, 1, i - 1)  b == SubSeq(q, i + 1, Len(q))
<1>1. /\ a \in Seq(S) /\ Len(a) = i - 1
      /\ \A j \in 1 .. i - 1 : a[j] = q[j]
  OBVIOUS
<1>2. /\ b \in Seq(S) /\ Len(b) = Len(q) - i
      /\ \A j \in 1 .. Len(q) - i : b[j] = q[i + j]
  OBVIOUS
<1> HIDE DEF a, b
<1>3. /\ a \o b \in Seq(S)
      /\ Len(a \o b) = Len(q) - 1
      /\ \A j \in 1 .. Len(q) - 1 : (a \o b)[j] = IF j < i THEN q[j] ELSE q[j + 1]
  <2>0. Len(a) + Len(b) = Len(q) - 1
    BY <1>0, <1>1, <1>2
  <2>1. /\ a \o b \in Seq(S)
        /\ Len(a \o b) = Len(q) - 1
        /\ \A j \in 1 .. Len(q) - 1 : (a \o b)[j] = IF j <= i - 1 THEN a[j] ELSE b[j - (i - 1)]
    <3>1. /\ a \o b \in Seq(S)
          /\ Len(a \o b) = Len(a) + Len(b)
          /\ \A j \in 1 .. Len(a) + Len(b) : (a \o b)[j] = IF j <= Len(a) THEN a[j] ELSE b[j - Len(a)]
      BY <1>1, <1>2, ConcatProperties, Zenon
    <3> QED
      BY <3>1, <2>0, <1>1
  <2>2. ASSUME NEW j \in 1 .. Len(q) - 1
        PROVE  (a \o b)[j] = IF j < i THEN q[j] ELSE q[j + 1]
    <3>0. j < i \/ j >= i
      BY <1>0
    <3>1. CASE j < i
      BY <3>1, <2>1, <1>1
    <3>2. CASE j >= i
      <4>1. j - (i - 1) \in 1 .. Len(q) - i /\ i + (j - (i - 1)) = j + 1
        BY <3>2
      <4> QED
        BY <3>2, <4>1, <1>2, <2>1
    <3> QED
      BY <3>0, <3>1, <3>2, Zenon
  <2> QED
    BY <2>1, <2>2
<1> QED
  BY <1>3 DEF RemoveAt, a, b

(* A removal further back leaves the head in its place.                    *)
LEMMA RemoveBehindHead ==
  ASSUME NEW S, NEW q \in Seq(S), NEW i \in 1 .. Len(q), i # 1
  PROVE  RemoveAt(q, i)[1] = q[1] /\ RemoveAt(q, i) # <<>>
<1> DEFINE r == RemoveAt(q, i)
<1>1. /\ Len(r) = Len(q) - 1 /\ Len(q) \in Nat
      /\ \A j \in 1 .. Len(q) - 1 : r[j] = IF j < i THEN q[j] ELSE q[j + 1]
  BY RemoveAtProps, LenProperties
<1> HIDE DEF r
<1>2. 1 \in 1 .. Len(q) - 1 /\ 1 < i
  BY <1>1
<1>3. r[1] = q[1]
  BY <1>1, <1>2
<1>4. r # <<>>
  BY <1>1, <1>2
<1> QED
  BY <1>3, <1>4 DEF r

(* The queue without its head is the queue with its first event removed.   *)
LEMMA TailIsRemoveAt ==
  ASSUME NEW S, NEW q \in Seq(S), q # <<>>
  PROVE  Tail(q) = RemoveAt(q, 1) /\ 1 \in 1 .. Len(q)
<1>1. Tail(q) = SubSeq(q, 2, Len(q))
  BY TailIsSubSeq, Zenon
<1>2. SubSeq(q, 1, 0) = <<>>
  BY SubSeqEmpty
<1>3. Tail(q) \in Seq(S) /\ Len(q) \in Nat \ {0}
  BY EmptySeq, HeadTailProperties, Zenon
<1>4. <<>> \o Tail(q) = Tail(q)
  BY <1>3, ConcatEmptySeq, Zenon
<1>5. 1 - 1 = 0 /\ 1 + 1 = 2
  OBVIOUS
<1> QED
  BY <1>1, <1>2, <1>3, <1>4, <1>5 DEF RemoveAt

(* An event pushed in front of the queue is inserted at its first place.   *)
LEMMA PushIsInsertAt ==
  ASSUME NEW S, NEW q \in Seq(S), NEW e \in S
  PROVE  <<e>> \o q = InsertAt(q, 1, e)
<1>1. SubSeq(q, 1, 0) = <<>>
  BY SubSeqEmpty
<1>2. SubSeq(q, 1, Len(q)) = q
  BY SubSeqFull, Zenon
<1>3. <<>> \o <<e>> = <<e>>
  <2>1. <<e>> \in Seq(S)
    OBVIOUS
  <2> QED
    BY <2>1, ConcatEmptySeq, Zenon
<1>4. 1 - 1 = 0
  OBVIOUS
<1> QED
  BY <1>1, <1>2, <1>3, <1>4 DEF InsertAt

-----------------------------------------------------------------------------
(* How many events of a type are queued.                                   *)

Entry(T) == [type : T, count : Counts]

(* A type is absent from the queue when no entry has it.                   *)
LEMMA NotQueued ==
  ASSUME NEW q, NEW t
  PROVE  ~Queued(q, t) <=> \A j \in DOMAIN q : q[j].type # t
  BY DEF Queued, IndicesOf

(* The first event of a queued type is in the queue and has that type.     *)
LEMMA FirstOfType ==
  ASSUME NEW S, NEW q \in Seq(S), NEW t, Queued(q, t)
  PROVE  /\ Min(IndicesOf(q, t)) \in 1 .. Len(q)
         /\ q[Min(IndicesOf(q, t))].type = t
<1>1. IndicesOf(q, t) \subseteq Nat /\ IndicesOf(q, t) # {}
  BY DEF IndicesOf, Queued
<1>2. Min(IndicesOf(q, t)) \in IndicesOf(q, t)
  BY <1>1, MinNat
<1> QED
  BY <1>2 DEF IndicesOf

(* The only event of type t is queued for count n.                         *)
ArmedAt(q, t, n) ==
  \E i \in DOMAIN q : q[i].count = n /\ \A j \in DOMAIN q : (q[j].type = t) <=> (j = i)

(* An event queued once is queued for some count.                          *)
LEMMA OnceArmed ==
  ASSUME NEW q, NEW t
  PROVE  QueuedOnce(q, t) <=> \E n : ArmedAt(q, t, n)
  BY Zenon DEF QueuedOnce, ArmedAt

(* The count get_event returns for an event queued once.                   *)
LEMMA ArmedCount ==
  ASSUME NEW S, NEW q \in Seq(S), NEW t, NEW n, ArmedAt(q, t, n)
  PROVE  EventCount(q, t) = n
<1>1. PICK i \in DOMAIN q : q[i].count = n /\ \A j \in DOMAIN q : (q[j].type = t) <=> (j = i)
  BY DEF ArmedAt
<1>2. Queued(q, t)
  BY <1>1 DEF Queued, IndicesOf
<1>3. Min(IndicesOf(q, t)) \in DOMAIN q /\ q[Min(IndicesOf(q, t))].type = t
  BY <1>2, FirstOfType, LenProperties
<1> QED
  BY <1>1, <1>3 DEF EventCount

(* Inserting an event of another type changes nothing for this one.        *)
LEMMA InsertOther ==
  ASSUME NEW T, NEW q \in Seq(Entry(T)), NEW i \in 1 .. Len(q) + 1,
         NEW e \in Entry(T), NEW t, e.type # t
  PROVE  /\ \A n : ArmedAt(q, t, n) => ArmedAt(InsertAt(q, i, e), t, n)
         /\ QueuedOnce(q, t) => QueuedOnce(InsertAt(q, i, e), t)
         /\ ~Queued(q, t) => ~Queued(InsertAt(q, i, e), t)
<1> DEFINE r == InsertAt(q, i, e)
<1>1. /\ r \in Seq(Entry(T)) /\ Len(r) = Len(q) + 1 /\ Len(q) \in Nat
      /\ DOMAIN r = 1 .. Len(q) + 1 /\ DOMAIN q = 1 .. Len(q)
      /\ \A j \in 1 .. Len(q) + 1 :
           r[j] = IF j < i THEN q[j] ELSE IF j = i THEN e ELSE q[j - 1]
  BY InsertAtProps, LenProperties
<1> HIDE DEF r
<1>2. ASSUME NEW n, ArmedAt(q, t, n)
      PROVE  ArmedAt(r, t, n)
  <2>0. PICK k \in DOMAIN q : /\ q[k].count = n
                             /\ \A j \in DOMAIN q : (q[j].type = t) <=> (j = k)
    BY <1>2, Zenon DEF ArmedAt
  <2>1. k \in 1 .. Len(q) /\ \A j \in 1 .. Len(q) : (q[j].type = t) <=> (j = k)
    BY <1>1, <2>0
  <2> DEFINE m == IF k < i THEN k ELSE k + 1
  <2>2. m \in 1 .. Len(q) + 1
    BY <1>1
  <2>3. ASSUME NEW j \in 1 .. Len(q) + 1
        PROVE  (r[j].type = t) <=> (j = m)
    <3>1. CASE j < i
      BY <3>1, <2>1, <1>1
    <3>2. CASE j = i
      BY <3>2, <2>1, <1>1
    <3>3. CASE j > i
      <4>1. j - 1 \in 1 .. Len(q)
        BY <3>3, <1>1
      <4> QED
        BY <3>3, <4>1, <2>1, <1>1
    <3> QED
      BY <3>1, <3>2, <3>3, <1>1
  <2>4. r[m] = q[k]
    <3>1. CASE k < i
      BY <3>1, <1>1, <2>1
    <3>2. CASE ~(k < i)
      BY <3>2, <1>1, <2>1
    <3> QED
      BY <3>1, <3>2
  <2> HIDE DEF m
  <2>5. m \in DOMAIN r /\ \A j \in DOMAIN r : (r[j].type = t) <=> (j = m)
    BY <2>2, <2>3, <1>1
  <2> QED
    BY <2>0, <2>4, <2>5, Zenon DEF ArmedAt
<1>3. ASSUME ~Queued(q, t)
      PROVE  ~Queued(r, t)
  BY <1>1, <1>3, NotQueued
<1> QED
  BY <1>2, <1>3, OnceArmed, Zenon DEF r

(* Inserting the first event of a type makes it queued once.               *)
LEMMA InsertNew ==
  ASSUME NEW T, NEW q \in Seq(Entry(T)), NEW i \in 1 .. Len(q) + 1,
         NEW e \in Entry(T), ~Queued(q, e.type)
  PROVE  /\ ArmedAt(InsertAt(q, i, e), e.type, e.count)
         /\ QueuedOnce(InsertAt(q, i, e), e.type)
<1> DEFINE r == InsertAt(q, i, e)
<1>1. /\ r \in Seq(Entry(T)) /\ Len(q) \in Nat
      /\ DOMAIN r = 1 .. Len(q) + 1 /\ DOMAIN q = 1 .. Len(q)
      /\ \A j \in 1 .. Len(q) + 1 :
           r[j] = IF j < i THEN q[j] ELSE IF j = i THEN e ELSE q[j - 1]
  BY InsertAtProps, LenProperties
<1> HIDE DEF r
<1>2. \A j \in 1 .. Len(q) : q[j].type # e.type
  BY <1>1, NotQueued
<1>3. \A j \in 1 .. Len(q) + 1 : (r[j].type = e.type) <=> (j = i)
  <2> TAKE j \in 1 .. Len(q) + 1
  <2>1. j < i => r[j].type # e.type
    BY <1>1, <1>2
  <2>2. j > i => r[j].type # e.type
    <3>1. ASSUME j > i PROVE j - 1 \in 1 .. Len(q) /\ r[j] = q[j - 1]
      BY <1>1, <3>1
    <3>2. QED
      BY <1>2, <3>1
  <2>3. r[i] = e
    BY <1>1
  <2>4. QED
    BY <2>1, <2>2, <2>3
<1>4. ArmedAt(r, e.type, e.count)
  <2>1. i \in DOMAIN r /\ r[i] = e /\ \A j \in DOMAIN r : (r[j].type = e.type) <=> (j = i)
    BY <1>1, <1>3
  <2> QED
    BY <2>1, Zenon DEF ArmedAt
<1> QED
  BY <1>4, OnceArmed, Zenon DEF r

(* Removing an event of another type changes nothing for this one.         *)
LEMMA RemoveOther ==
  ASSUME NEW T, NEW q \in Seq(Entry(T)), NEW i \in 1 .. Len(q),
         NEW t, q[i].type # t
  PROVE  /\ \A n : ArmedAt(q, t, n) => ArmedAt(RemoveAt(q, i), t, n)
         /\ QueuedOnce(q, t) => QueuedOnce(RemoveAt(q, i), t)
         /\ ~Queued(q, t) => ~Queued(RemoveAt(q, i), t)
<1> DEFINE r == RemoveAt(q, i)
<1>1. /\ r \in Seq(Entry(T)) /\ Len(q) \in Nat
      /\ DOMAIN r = 1 .. Len(q) - 1 /\ DOMAIN q = 1 .. Len(q)
      /\ \A j \in 1 .. Len(q) - 1 : r[j] = IF j < i THEN q[j] ELSE q[j + 1]
  BY RemoveAtProps, LenProperties
<1> HIDE DEF r
<1>2. ASSUME NEW n, ArmedAt(q, t, n)
      PROVE  ArmedAt(r, t, n)
  <2>0. PICK k \in DOMAIN q : /\ q[k].count = n
                             /\ \A j \in DOMAIN q : (q[j].type = t) <=> (j = k)
    BY <1>2, Zenon DEF ArmedAt
  <2>1. k \in 1 .. Len(q) /\ \A j \in 1 .. Len(q) : (q[j].type = t) <=> (j = k)
    BY <1>1, <2>0
  <2>2. k # i
    BY <2>1
  <2> DEFINE m == IF k < i THEN k ELSE k - 1
  <2>3. m \in 1 .. Len(q) - 1
    BY <1>1, <2>2
  <2>4. \A j \in 1 .. Len(q) - 1 : (r[j].type = t) <=> (j = m)
    BY <2>1, <2>2, <1>1
  <2>5. r[m] = q[k]
    <3>1. CASE k < i
      BY <3>1, <1>1, <2>1
    <3>2. CASE ~(k < i)
      BY <3>2, <1>1, <2>1, <2>2
    <3> QED
      BY <3>1, <3>2
  <2> HIDE DEF m
  <2>6. m \in DOMAIN r /\ \A j \in DOMAIN r : (r[j].type = t) <=> (j = m)
    BY <2>3, <2>4, <1>1
  <2> QED
    BY <2>0, <2>5, <2>6, Zenon DEF ArmedAt
<1>3. ASSUME ~Queued(q, t)
      PROVE  ~Queued(r, t)
  BY <1>1, <1>3, NotQueued
<1> QED
  BY <1>2, <1>3, OnceArmed, Zenon DEF r

(* Removing the only event of a type leaves none.                          *)
LEMMA RemoveOnly ==
  ASSUME NEW T, NEW q \in Seq(Entry(T)), NEW i \in 1 .. Len(q),
         QueuedOnce(q, q[i].type)
  PROVE  ~Queued(RemoveAt(q, i), q[i].type)
<1> DEFINE r == RemoveAt(q, i)
<1>1. /\ Len(q) \in Nat
      /\ DOMAIN r = 1 .. Len(q) - 1 /\ DOMAIN q = 1 .. Len(q)
      /\ \A j \in 1 .. Len(q) - 1 : r[j] = IF j < i THEN q[j] ELSE q[j + 1]
  BY RemoveAtProps, LenProperties
<1> HIDE DEF r
<1>2. \A j \in 1 .. Len(q) : (q[j].type = q[i].type) <=> (j = i)
  BY <1>1 DEF QueuedOnce
<1>3. \A j \in 1 .. Len(q) - 1 : r[j].type # q[i].type
  BY <1>1, <1>2
<1> QED
  BY <1>1, <1>3, NotQueued DEF r

(* Counts may change: a queue with the same types has as many of each.     *)
LEMMA SameTypes ==
  ASSUME NEW q, NEW r, DOMAIN r = DOMAIN q,
         \A j \in DOMAIN q : r[j].type = q[j].type, NEW t
  PROVE  /\ QueuedOnce(q, t) => QueuedOnce(r, t)
         /\ ~Queued(q, t) => ~Queued(r, t)
  BY NotQueued DEF QueuedOnce

-----------------------------------------------------------------------------
(* The order of the queue in time.                                         *)

(* The least element of a nonempty set of natural numbers.                 *)
LEMMA MinLeast ==
  ASSUME NEW S, S \subseteq Nat, S # {}
  PROVE  Min(S) \in S /\ \A y \in S : Min(S) <= y
<1> DEFINE R == OpToRel(<, Nat)
<1>0. R = {ss \in Nat \X Nat : ss[1] < ss[2]}
  BY Zenon DEF OpToRel
<1>a. IsWellFoundedOn(R, Nat) BY NatLessThanWellFounded
<1> HIDE DEF R
<1>1. PICK m \in S : \A y \in S : ~(<<y, m>> \in R)
  BY <1>a, WFMin, Zenon
<1>2. \A y \in S : m <= y
  <2> SUFFICES ASSUME NEW y \in S, ~(m <= y) PROVE FALSE
    OBVIOUS
  <2>1. <<y, m>> \in Nat \X Nat /\ <<y, m>>[1] < <<y, m>>[2]
    OBVIOUS
  <2>2. <<y, m>> \in R
    BY <2>1, <1>0, Zenon
  <2> QED
    BY <2>2, <1>1
<1> QED
  BY <1>2 DEF Min

(* The events of q lie o[1], o[2], ... ticks ahead of COUNT = n.           *)
Line(q, n, o) ==
  /\ o \in Seq(Int) /\ Len(o) = Len(q)
  /\ \A i \in 1 .. Len(q) : q[i].count = Wrap(n + o[i])
  /\ \A i, j \in 1 .. Len(q) : i <= j => o[i] <= o[j]

(* COMPARE_INT may lie a whole turn of COUNT ahead, the other events at    *)
(* most half a turn, and they are less than a turn apart.                  *)
Spaced(q, o) ==
  \A i \in 1 .. Len(q) :
    /\ q[i].type # CompareEvent => o[i] <= HALF
    /\ q[i].type = CompareEvent => o[i] <= COUNT_MOD
    /\ \A j \in 1 .. Len(q) : o[i] - o[j] < COUNT_MOD

(* They are in order, none before tick b; and with the head at tick h.     *)
From(q, n, b) == \E o : Line(q, n, o) /\ Spaced(q, o) /\ \A i \in 1 .. Len(q) : b <= o[i]
InOrder(q, n, h) == q # <<>> /\ \E o : Line(q, n, o) /\ Spaced(q, o) /\ o[1] = h

(* The ticks of a line are integers.                                       *)
LEMMA LineTypes ==
  ASSUME NEW T, NEW q \in Seq(Entry(T)), NEW n, NEW o, Line(q, n, o)
  PROVE  /\ Len(q) \in Nat /\ DOMAIN q = 1 .. Len(q)
         /\ \A i \in 1 .. Len(q) : o[i] \in Int /\ q[i] \in Entry(T) /\ q[i].count \in Int
<1>1. Len(q) \in Nat /\ DOMAIN q = 1 .. Len(q)
  BY LenProperties
<1>2. ASSUME NEW i \in 1 .. Len(q)
      PROVE  o[i] \in Int /\ q[i] \in Entry(T) /\ q[i].count \in Int
  <2>1. o[i] \in Int
    BY ElementOfSeq DEF Line
  <2>2. q[i] \in Entry(T)
    BY ElementOfSeq
  <2>3. q[i].count \in Counts
    BY <2>2 DEF Entry
  <2> QED
    BY <2>1, <2>2, <2>3, RangeType
<1> QED
  BY <1>1, <1>2

(* The head of a queue in order is its first event.                        *)
LEMMA HeadFirst ==
  ASSUME NEW T, NEW q \in Seq(Entry(T)), NEW n, NEW h, InOrder(q, n, h)
  PROVE  h \in Int /\ From(q, n, h)
<1>1. PICK o : Line(q, n, o) /\ Spaced(q, o) /\ o[1] = h
  BY DEF InOrder
<1>2. Len(q) \in Nat /\ Len(q) >= 1 /\ \A i \in 1 .. Len(q) : o[i] \in Int
  BY <1>1, LineTypes DEF InOrder
<1>3. \A i \in 1 .. Len(q) : h <= o[i]
  BY <1>1, <1>2 DEF Line
<1> QED
  BY <1>1, <1>2, <1>3 DEF From

(* A queue in order that is not empty has a head.                          *)
LEMMA FirstHead ==
  ASSUME NEW T, NEW q \in Seq(Entry(T)), q # <<>>, NEW n, NEW b, From(q, n, b)
  PROVE  \E h \in Int : InOrder(q, n, h) /\ b <= h
<1>1. PICK o : Line(q, n, o) /\ Spaced(q, o) /\ \A i \in 1 .. Len(q) : b <= o[i]
  BY DEF From
<1>2. Len(q) \in Nat /\ Len(q) >= 1 /\ \A i \in 1 .. Len(q) : o[i] \in Int
  BY <1>1, LineTypes
<1>3. o[1] \in Int /\ b <= o[1]
  BY <1>1, <1>2
<1> QED
  BY <1>1, <1>3 DEF InOrder

(* A lower bound may be lowered.                                           *)
LEMMA FromLower ==
  ASSUME NEW T, NEW q \in Seq(Entry(T)), NEW n, NEW b \in Int, NEW a \in Int, a <= b, From(q, n, b)
  PROVE  From(q, n, a)
<1>1. PICK o : Line(q, n, o) /\ Spaced(q, o) /\ \A i \in 1 .. Len(q) : b <= o[i]
  BY DEF From
<1>2. \A i \in 1 .. Len(q) : o[i] \in Int
  BY <1>1, LineTypes
<1>3. \A i \in 1 .. Len(q) : a <= o[i]
  BY <1>1, <1>2
<1> QED
  BY <1>1, <1>3 DEF From

(* Counts are compared from base, which is tick b of COUNT = n.            *)
BasedAt(base, n, b) == base \in Int /\ \A m \in Int : Wrap(m - base) = Wrap(m - n - b)

(* An event at tick t ahead of n, seen from base.                          *)
LEMMA SeenFrom ==
  ASSUME NEW n \in Int, NEW b \in Int, NEW base, NEW t \in Int, BasedAt(base, n, b),
         b <= t, t < b + COUNT_MOD
  PROVE  Wrap(Wrap(n + t) - base) = t - b
<1>0. base \in Int /\ Wrap((n + t) - base) = Wrap((n + t) - n - b)
  BY DEF BasedAt
<1>1. n + t \in Int /\ Wrap(n + t) \in Int /\ -base \in Int /\ t - b \in Int
  BY <1>0, WrapType, RangeType
<1>2. Wrap(Wrap(n + t) - base) = Wrap((n + t) - base)
  <2>1. Wrap(Wrap(n + t) + (-base)) = Wrap((n + t) + (-base))
    BY <1>1, WrapAgain
  <2>2. Wrap(n + t) + (-base) = Wrap(n + t) - base /\ (n + t) + (-base) = (n + t) - base
    BY <1>0, <1>1
  <2> QED
    BY <2>1, <2>2
<1>3. Wrap((n + t) - base) = Wrap((n + t) - n - b) /\ (n + t) - n - b = t - b
  BY <1>0, <1>1
<1>4. Wrap(t - b) = t - b
  BY <1>1, WrapNear, RangeType
<1> QED
  BY <1>2, <1>3, <1>4

(* The events of q lie between tick b and tick u.                          *)
Between(q, n, b, u) ==
  \E o : Line(q, n, o) /\ Spaced(q, o) /\ \A i \in 1 .. Len(q) : b <= o[i] /\ o[i] < u

(* Where an event at tick v goes among events at ticks o[1], o[2], ...     *)
LEMMA InsertionPoint ==
  ASSUME NEW T, NEW c, c.q \in Seq(Entry(T)), NEW n \in Int, NEW b \in Int, BasedAt(OrderBase(c), n, b),
         NEW o, Line(c.q, n, o),
         \A i \in 1 .. Len(c.q) : b <= o[i] /\ o[i] < b + COUNT_MOD,
         NEW v \in Int, b <= v, v < b + COUNT_MOD
  PROVE  /\ InsertPosition(c, Wrap(n + v)) \in 1 .. Len(c.q) + 1
         /\ \A i \in 1 .. Len(c.q) :
              IF i < InsertPosition(c, Wrap(n + v)) THEN o[i] <= v ELSE v <= o[i]
<1> DEFINE q == c.q
           w == Wrap(n + v)
           later == {i \in DOMAIN q : BeforeEvent(c, w, q[i].count)}
           p == InsertPosition(c, w)
<1>0. q \in Seq(Entry(T)) /\ p = IF later = {} THEN Len(q) + 1 ELSE Min(later)
  BY DEF InsertPosition
<1>a. \A i \in 1 .. Len(q) : b <= o[i] /\ o[i] < b + COUNT_MOD
  OBVIOUS
<1>1. /\ Len(q) \in Nat /\ DOMAIN q = 1 .. Len(q)
      /\ \A i \in 1 .. Len(q) : o[i] \in Int
  BY LineTypes, Zenon
<1>b. \A i \in 1 .. Len(q) : i \in later <=> BeforeEvent(c, w, q[i].count)
  BY <1>1
<1>3. later \subseteq 1 .. Len(q)
  BY <1>1
<1>4. /\ \A i, j \in 1 .. Len(q) : i <= j => o[i] <= o[j]
      /\ \A i \in 1 .. Len(q) : q[i].count = Wrap(n + o[i])
  BY DEF Line
<1> HIDE DEF later, p, q, w
<1>2. ASSUME NEW i \in 1 .. Len(q)
      PROVE  i \in later <=> v < o[i]
  <2>1. o[i] \in Int /\ b <= o[i] /\ o[i] < b + COUNT_MOD
    BY <1>1, <1>a
  <2>2. q[i].count = Wrap(n + o[i])
    BY <1>4
  <2>3. Wrap(q[i].count - OrderBase(c)) = o[i] - b
    BY <2>1, <2>2, SeenFrom
  <2>4. Wrap(w - OrderBase(c)) = v - b
    BY SeenFrom DEF w
  <2>5. BeforeEvent(c, w, q[i].count) <=> v - b < o[i] - b
    BY <2>3, <2>4, Zenon DEF BeforeEvent
  <2>6. i \in later <=> v - b < o[i] - b
    BY <2>5, <1>b
  <2> QED
    BY <2>1, <2>6
<1>5. CASE later = {}
  <2>1. p = Len(q) + 1
    BY <1>0, <1>5
  <2>2. \A i \in 1 .. Len(q) : o[i] <= v
    BY <1>1, <1>2, <1>5
  <2> QED
    BY <2>1, <2>2, <1>1 DEF p, q, w
<1>6. CASE later # {}
  <2>1. p = Min(later)
    BY <1>0, <1>6
  <2>2. later \subseteq Nat
    BY <1>3, <1>1
  <2>3. p \in later /\ \A j \in later : p <= j
    BY <2>1, <2>2, <1>6, MinLeast
  <2>4. p \in 1 .. Len(q) /\ v < o[p]
    BY <2>3, <1>3, <1>2
  <2>5. ASSUME NEW i \in 1 .. Len(q)
        PROVE  IF i < p THEN o[i] <= v ELSE v <= o[i]
    <3>1. CASE i < p
      <4>1. ~(i \in later)
        BY <3>1, <2>3, <2>4, <1>1
      <4> QED
        BY <3>1, <4>1, <1>2, <1>1
    <3>2. CASE ~(i < p)
      <4>1. o[p] <= o[i]
        BY <3>2, <2>4, <1>1, <1>4
      <4> QED
        BY <3>2, <4>1, <2>4, <1>1
    <3> QED
      BY <3>1, <3>2
  <2> QED
    BY <2>4, <2>5, <1>1 DEF p, q, w
<1> QED
  BY <1>5, <1>6

(* An event put in its place keeps the order.                              *)
LEMMA InsertInOrder ==
  ASSUME NEW T, NEW c, c.q \in Seq(Entry(T)), NEW n \in Int, NEW b \in Int, BasedAt(OrderBase(c), n, b),
         Between(c.q, n, b, b + COUNT_MOD),
         NEW t \in T, NEW v \in Int, b <= v, v < b + COUNT_MOD,
         t # CompareEvent => v <= HALF,
         t = CompareEvent => v <= COUNT_MOD
  PROVE  From(InsertAt(c.q, InsertPosition(c, Wrap(n + v)), Event(t, Wrap(n + v))), n, b)
<1> DEFINE q == c.q
           w == Wrap(n + v)
           p == InsertPosition(c, w)
           e == Event(t, w)
           r == InsertAt(q, p, e)
<1>0. PICK o : /\ Line(q, n, o) /\ Spaced(q, o)
               /\ \A i \in 1 .. Len(q) : b <= o[i] /\ o[i] < b + COUNT_MOD
  BY DEF Between
<1>1. /\ Len(q) \in Nat
      /\ \A i \in 1 .. Len(q) : o[i] \in Int
  BY <1>0, LineTypes, Zenon
<1>2. p \in 1 .. Len(q) + 1 /\ \A i \in 1 .. Len(q) : IF i < p THEN o[i] <= v ELSE v <= o[i]
  BY <1>0, InsertionPoint, Zenon
<1>3. w \in Counts
  BY WrapType
<1>4. e \in Entry(T) /\ e.type = t /\ e.count = w
  BY <1>3 DEF Event, Entry
<1>5. /\ r \in Seq(Entry(T)) /\ Len(r) = Len(q) + 1
      /\ \A j \in 1 .. Len(q) + 1 :
           r[j] = IF j < p THEN q[j] ELSE IF j = p THEN e ELSE q[j - 1]
  <2>1. q \in Seq(Entry(T))
    OBVIOUS
  <2> HIDE DEF q, p, e
  <2> QED
    BY <1>2, <1>4, <2>1, InsertAtProps
<1> DEFINE l == [j \in 1 .. Len(q) + 1 |->
                   IF j < p THEN o[j] ELSE IF j = p THEN v ELSE o[j - 1]]
<1> HIDE DEF q, p, e, r, w
<1>6. \A j \in 1 .. Len(q) + 1 : l[j] \in Int /\ b <= l[j]
  BY <1>0, <1>1, <1>2
<1>7. l \in Seq(Int) /\ Len(l) = Len(r)
  BY <1>1, <1>5, <1>6
<1>8. \A j \in 1 .. Len(q) + 1 : \/ j < p /\ j \in 1 .. Len(q) /\ r[j] = q[j] /\ l[j] = o[j]
                                 \/ j = p /\ r[j] = e /\ l[j] = v
                                 \/ j > p /\ j - 1 \in 1 .. Len(q) /\ r[j] = q[j - 1] /\ l[j] = o[j - 1]
  BY <1>1, <1>2, <1>5
<1>9. /\ \A i \in 1 .. Len(q) : q[i].count = Wrap(n + o[i])
      /\ \A i, j \in 1 .. Len(q) : i <= j => o[i] <= o[j]
  BY <1>0 DEF Line
<1> HIDE DEF l
<1>10. ASSUME NEW j \in 1 .. Len(q) + 1
       PROVE  r[j].count = Wrap(n + l[j])
  BY <1>8, <1>9, <1>4 DEF w
<1>11. ASSUME NEW i \in 1 .. Len(q) + 1, NEW j \in 1 .. Len(q) + 1, i <= j
       PROVE  l[i] <= l[j]
  <2>1. CASE j < p
    <3>1. l[j] = o[j] /\ j \in 1 .. Len(q) /\ l[i] = o[i] /\ i \in 1 .. Len(q)
      BY <2>1, <1>8, <1>11, <1>1, <1>2
    <3> QED
      BY <3>1, <1>9, <1>11
  <2>2. CASE j = p
    BY <2>2, <1>8, <1>2, <1>11, <1>1
  <2>3. CASE j > p /\ i < p
    <3>0. j - 1 \in 1 .. Len(q) /\ i \in 1 .. Len(q)
      BY <2>3, <1>1, <1>2
    <3>1. l[j] = o[j - 1] /\ j - 1 \in 1 .. Len(q) /\ l[i] = o[i] /\ i \in 1 .. Len(q)
      <4>1. l[j] = o[j - 1]
        BY <2>3, <1>1, <1>2, <1>8
      <4>2. l[i] = o[i]
        BY <2>3, <1>1, <1>2, <1>8
      <4> QED
        BY <3>0, <4>1, <4>2
    <3>2. i <= j - 1
      BY <2>3, <1>1, <1>2
    <3> QED
      BY <3>1, <3>2, <1>9
  <2>4. CASE j > p /\ i = p
    <3>1. l[j] = o[j - 1] /\ j - 1 \in 1 .. Len(q) /\ l[i] = v
      BY <2>4, <1>8, <1>1, <1>2
    <3>2. ~(j - 1 < p)
      BY <2>4, <1>1, <1>2
    <3> QED
      BY <3>1, <3>2, <1>2
  <2>5. CASE j > p /\ i > p
    <3>a. l[j] = o[j - 1] /\ j - 1 \in 1 .. Len(q)
      BY <2>5, <1>8, <1>1, <1>2
    <3>b. l[i] = o[i - 1] /\ i - 1 \in 1 .. Len(q)
      BY <2>5, <1>8, <1>1, <1>2
    <3>1. l[j] = o[j - 1] /\ j - 1 \in 1 .. Len(q) /\ l[i] = o[i - 1] /\ i - 1 \in 1 .. Len(q)
      BY <3>a, <3>b
    <3>2. i - 1 <= j - 1
      BY <1>11, <1>1
    <3> QED
      BY <3>1, <3>2, <1>9
  <2> QED
    BY <2>1, <2>2, <2>3, <2>4, <2>5, <1>1, <1>2
<1>12. Line(r, n, l)
  BY <1>5, <1>7, <1>10, <1>11 DEF Line
<1>13. \A i \in 1 .. Len(q) + 1 :
         /\ l[i] < b + COUNT_MOD
         /\ r[i].type # CompareEvent => l[i] <= HALF
         /\ r[i].type = CompareEvent => l[i] <= COUNT_MOD
  <2>1. \A i \in 1 .. Len(q) :
          /\ o[i] < b + COUNT_MOD
          /\ q[i].type # CompareEvent => o[i] <= HALF
          /\ q[i].type = CompareEvent => o[i] <= COUNT_MOD
    BY <1>0 DEF Spaced
  <2> QED
    BY <2>1, <1>8, <1>4
<1>14. \A i, j \in 1 .. Len(q) + 1 : l[i] - l[j] < COUNT_MOD
  BY <1>6, <1>13, RangeType
<1>15. Spaced(r, l)
  BY <1>5, <1>13, <1>14 DEF Spaced
<1>16. \A i \in 1 .. Len(r) : b <= l[i]
  BY <1>5, <1>6
<1> QED
  BY <1>12, <1>15, <1>16, Zenon DEF From, r, q, p, e, w

(* The events left when one leaves are still in order.                     *)
LEMMA RemoveLine ==
  ASSUME NEW T, NEW q \in Seq(Entry(T)), NEW n, NEW o, Line(q, n, o), Spaced(q, o),
         NEW k \in 1 .. Len(q)
  PROVE  \E l : /\ Line(RemoveAt(q, k), n, l) /\ Spaced(RemoveAt(q, k), l)
                /\ \A j \in 1 .. Len(RemoveAt(q, k)) : \E i \in 1 .. Len(q) : l[j] = o[i]
<1> DEFINE r == RemoveAt(q, k)  l == RemoveAt(o, k)
<1>1. /\ Len(q) \in Nat
      /\ \A i \in 1 .. Len(q) : o[i] \in Int
  BY LineTypes, Zenon
<1>2. o \in Seq(Int) /\ Len(o) = Len(q)
  BY DEF Line
<1>3. /\ r \in Seq(Entry(T)) /\ Len(r) = Len(q) - 1
      /\ \A j \in 1 .. Len(q) - 1 : r[j] = IF j < k THEN q[j] ELSE q[j + 1]
  BY RemoveAtProps
<1>4. /\ l \in Seq(Int) /\ Len(l) = Len(q) - 1
      /\ \A j \in 1 .. Len(q) - 1 : l[j] = IF j < k THEN o[j] ELSE o[j + 1]
  <2>1. k \in 1 .. Len(o)
    BY <1>2
  <2>2. /\ l \in Seq(Int) /\ Len(l) = Len(o) - 1
        /\ \A j \in 1 .. Len(o) - 1 : l[j] = IF j < k THEN o[j] ELSE o[j + 1]
    BY <1>2, <2>1, RemoveAtProps
  <2> QED
    BY <1>2, <2>2
<1> HIDE DEF r, l
<1> DEFINE m(j) == IF j < k THEN j ELSE j + 1
<1>5. ASSUME NEW j \in 1 .. Len(q) - 1
      PROVE  m(j) \in 1 .. Len(q) /\ r[j] = q[m(j)] /\ l[j] = o[m(j)]
  BY <1>1, <1>3, <1>4
<1>6. ASSUME NEW i \in 1 .. Len(q) - 1, NEW j \in 1 .. Len(q) - 1, i <= j
      PROVE  m(i) <= m(j)
  BY <1>1, <1>6
<1> HIDE DEF m
<1>7. Line(r, n, l)
  <2>1. \A i \in 1 .. Len(q) - 1 : r[i].count = Wrap(n + l[i])
    BY <1>5 DEF Line
  <2>2. ASSUME NEW i \in 1 .. Len(q) - 1, NEW j \in 1 .. Len(q) - 1, i <= j
        PROVE  l[i] <= l[j]
    <3>1. m(i) <= m(j)
      BY <2>2, <1>6
    <3>2. o[m(i)] <= o[m(j)]
      BY <3>1, <1>5 DEF Line
    <3> QED
      BY <3>2, <1>5
  <2> QED
    BY <1>3, <1>4, <2>1, <2>2 DEF Line
<1>8. Spaced(r, l)
  <2>1. ASSUME NEW i \in 1 .. Len(q) - 1
        PROVE  /\ r[i].type # CompareEvent => l[i] <= HALF
               /\ r[i].type = CompareEvent => l[i] <= COUNT_MOD
    BY <1>5 DEF Spaced
  <2>2. ASSUME NEW i \in 1 .. Len(q) - 1, NEW j \in 1 .. Len(q) - 1
        PROVE  l[i] - l[j] < COUNT_MOD
    <3>1. m(i) \in 1 .. Len(q) /\ m(j) \in 1 .. Len(q)
      BY <1>5
    <3>2. o[m(i)] - o[m(j)] < COUNT_MOD
      BY <3>1 DEF Spaced
    <3> QED
      BY <3>2, <1>5
  <2> QED
    BY <1>3, <2>1, <2>2 DEF Spaced
<1>9. \A j \in 1 .. Len(r) : \E i \in 1 .. Len(q) : l[j] = o[i]
  BY <1>3, <1>5
<1> QED
  BY <1>7, <1>8, <1>9 DEF r

LEMMA RemoveFrom ==
  ASSUME NEW T, NEW q \in Seq(Entry(T)), NEW n, NEW b, NEW k \in 1 .. Len(q)
  PROVE  /\ From(q, n, b) => From(RemoveAt(q, k), n, b)
         /\ \A u : Between(q, n, b, u) => Between(RemoveAt(q, k), n, b, u)
<1>1. ASSUME From(q, n, b)
      PROVE  From(RemoveAt(q, k), n, b)
  <2>1. PICK o : Line(q, n, o) /\ Spaced(q, o) /\ \A i \in 1 .. Len(q) : b <= o[i]
    BY <1>1 DEF From
  <2>2. PICK l : /\ Line(RemoveAt(q, k), n, l) /\ Spaced(RemoveAt(q, k), l)
                 /\ \A j \in 1 .. Len(RemoveAt(q, k)) : \E i \in 1 .. Len(q) : l[j] = o[i]
    BY <2>1, RemoveLine, SMT
  <2> QED
    BY <2>1, <2>2, Zenon DEF From
<1>2. ASSUME NEW u, Between(q, n, b, u)
      PROVE  Between(RemoveAt(q, k), n, b, u)
  <2>1. PICK o : Line(q, n, o) /\ Spaced(q, o) /\ \A i \in 1 .. Len(q) : b <= o[i] /\ o[i] < u
    BY <1>2 DEF Between
  <2>2. PICK l : /\ Line(RemoveAt(q, k), n, l) /\ Spaced(RemoveAt(q, k), l)
                 /\ \A j \in 1 .. Len(RemoveAt(q, k)) : \E i \in 1 .. Len(q) : l[j] = o[i]
    BY <2>1, RemoveLine, SMT
  <2> QED
    BY <2>1, <2>2, Zenon DEF Between
<1> QED
  BY <1>1, <1>2, Zenon

(* Time passes.                                                            *)
LEMMA LaterLine ==
  ASSUME NEW T, NEW q \in Seq(Entry(T)), NEW n \in Int, NEW k \in Nat, NEW o,
         Line(q, n, o), Spaced(q, o),
         NEW l, l = [i \in 1 .. Len(q) |-> o[i] - k]
  PROVE  Line(q, Wrap(n + k), l) /\ Spaced(q, l)
<1>1. /\ Len(q) \in Nat
      /\ \A i \in 1 .. Len(q) : o[i] \in Int
  BY LineTypes, Zenon
<1>2. \A i \in 1 .. Len(q) : l[i] = o[i] - k /\ l[i] \in Int
  BY <1>1
<1>3. l \in Seq(Int) /\ Len(l) = Len(q)
  BY <1>1
<1>4. ASSUME NEW i \in 1 .. Len(q)
      PROVE  q[i].count = Wrap(Wrap(n + k) + l[i])
  <2>1. o[i] \in Int /\ l[i] \in Int /\ n + k \in Int /\ (n + k) + l[i] = n + o[i]
    BY <1>1, <1>2
  <2>2. Wrap(Wrap(n + k) + l[i]) = Wrap((n + k) + l[i])
    BY <2>1, WrapAgain
  <2> QED
    BY <2>1, <2>2 DEF Line
<1>5. \A i, j \in 1 .. Len(q) : i <= j => l[i] <= l[j]
  BY <1>1, <1>2 DEF Line
<1>6. Line(q, Wrap(n + k), l)
  BY <1>3, <1>4, <1>5 DEF Line
<1>7. \A i \in 1 .. Len(q) : /\ q[i].type # CompareEvent => l[i] <= HALF
                             /\ q[i].type = CompareEvent => l[i] <= COUNT_MOD
  BY <1>1, <1>2, RangeType, HalfAssumption DEF Spaced
<1>8. ASSUME NEW i \in 1 .. Len(q), NEW j \in 1 .. Len(q)
      PROVE  l[i] - l[j] < COUNT_MOD
  <2>1. o[i] - o[j] < COUNT_MOD
    BY DEF Spaced
  <2>2. o[i] \in Int /\ o[j] \in Int /\ l[i] = o[i] - k /\ l[j] = o[j] - k
    BY <1>1, <1>2
  <2> QED
    BY <2>1, <2>2, RangeType
<1>9. Spaced(q, l)
  BY <1>7, <1>8 DEF Spaced
<1> QED
  BY <1>6, <1>9

LEMMA LaterFrom ==
  ASSUME NEW T, NEW q \in Seq(Entry(T)), NEW n \in Int, NEW k \in Nat, NEW b \in Int,
         From(q, n, b)
  PROVE  From(q, Wrap(n + k), b - k)
<1>1. PICK o : Line(q, n, o) /\ Spaced(q, o) /\ \A i \in 1 .. Len(q) : b <= o[i]
  BY DEF From
<1> DEFINE l == [i \in 1 .. Len(q) |-> o[i] - k]
<1>2. Line(q, Wrap(n + k), l) /\ Spaced(q, l)
  BY <1>1, LaterLine
<1>3. \A i \in 1 .. Len(q) : o[i] \in Int
  BY <1>1, LineTypes
<1>4. \A i \in 1 .. Len(q) : b - k <= l[i]
  BY <1>1, <1>2, <1>3
<1> QED
  BY <1>2, <1>4, Zenon DEF From

LEMMA LaterInOrder ==
  ASSUME NEW T, NEW q \in Seq(Entry(T)), NEW n \in Int, NEW k \in Nat, NEW h \in Int,
         InOrder(q, n, h)
  PROVE  InOrder(q, Wrap(n + k), h - k)
<1>1. PICK o : q # <<>> /\ Line(q, n, o) /\ Spaced(q, o) /\ o[1] = h
  BY DEF InOrder
<1> DEFINE l == [i \in 1 .. Len(q) |-> o[i] - k]
<1>2. Line(q, Wrap(n + k), l) /\ Spaced(q, l)
  BY <1>1, LaterLine
<1>3. 1 \in 1 .. Len(q)
  BY <1>1, EmptySeq, LenProperties
<1>4. l[1] = h - k
  BY <1>1, <1>2, <1>3
<1> QED
  BY <1>1, <1>2, <1>4, Zenon DEF InOrder

(* Every event is moved with COUNT.                                        *)
LEMMA ShiftFrom ==
  ASSUME NEW T, NEW q \in Seq(Entry(T)), NEW n \in Int, NEW base \in Int, NEW b,
         From(q, n, b)
  PROVE  From([i \in DOMAIN q |-> Event(q[i].type, Wrap(q[i].count - n + base))], base, b)
<1>1. PICK o : Line(q, n, o) /\ Spaced(q, o) /\ \A i \in 1 .. Len(q) : b <= o[i]
  BY DEF From
<1> DEFINE r == [i \in DOMAIN q |-> Event(q[i].type, Wrap(q[i].count - n + base))]
<1>2. Len(q) \in Nat /\ DOMAIN q = 1 .. Len(q) /\ \A i \in 1 .. Len(q) : o[i] \in Int /\ q[i].count \in Int
  BY <1>1, LineTypes, Zenon
<1>3. ASSUME NEW i \in 1 .. Len(q)
      PROVE  r[i].type = q[i].type /\ r[i].count = Wrap(base + o[i])
  <2>1. r[i].type = q[i].type /\ r[i].count = Wrap(q[i].count - n + base)
    BY <1>2 DEF Event
  <2>2. /\ o[i] \in Int /\ n + o[i] \in Int /\ Wrap(n + o[i]) \in Int /\ base - n \in Int
        /\ q[i].count = Wrap(n + o[i])
    BY <1>1, <1>2 DEF Line
  <2>3. Wrap(Wrap(n + o[i]) + (base - n)) = Wrap((n + o[i]) + (base - n))
    BY <2>2, WrapAgain
  <2>4. q[i].count - n + base = Wrap(n + o[i]) + (base - n) /\ (n + o[i]) + (base - n) = base + o[i]
    BY <2>2
  <2> QED
    BY <2>1, <2>3, <2>4
<1>4. Len(r) = Len(q)
  BY <1>2
<1> HIDE DEF r
<1>5. Line(r, base, o)
  BY <1>1, <1>3, <1>4 DEF Line
<1>6. Spaced(r, o)
  BY <1>1, <1>3, <1>4 DEF Spaced
<1>7. \A i \in 1 .. Len(r) : b <= o[i]
  BY <1>1, <1>4
<1>8. From(r, base, b)
  BY <1>5, <1>6, <1>7, Zenon DEF From
<1> QED
  BY <1>8 DEF r

(* The head of a queue whose events lie between b and u.                   *)
LEMMA HeadBetween ==
  ASSUME NEW T, NEW q \in Seq(Entry(T)), q # <<>>, NEW n, NEW b, NEW u, Between(q, n, b, u)
  PROVE  \E h \in Int : InOrder(q, n, h) /\ Between(q, n, h, u) /\ b <= h /\ h < u
<1>1. PICK o : Line(q, n, o) /\ Spaced(q, o) /\ \A i \in 1 .. Len(q) : b <= o[i] /\ o[i] < u
  BY DEF Between
<1>2. Len(q) \in Nat /\ Len(q) >= 1 /\ \A i \in 1 .. Len(q) : o[i] \in Int
  BY <1>1, LineTypes
<1>3. o[1] \in Int /\ b <= o[1] /\ o[1] < u
  BY <1>1, <1>2
<1>4. \A i \in 1 .. Len(q) : o[1] <= o[i] /\ o[i] < u
  BY <1>1, <1>2 DEF Line
<1>5. InOrder(q, n, o[1]) /\ Between(q, n, o[1], u)
  BY <1>1, <1>4, Zenon DEF InOrder, Between
<1> QED
  BY <1>3, <1>5

(* A head not too late, with an event other than COMPARE_INT queued, is at *)
(* most half a turn ahead, and cycle_count tells how far.                  *)
LEMMA HeadDistance ==
  ASSUME NEW T, NEW c, c.q \in Seq(Entry(T)), c.count \in Counts, NEW h \in Int,
         InOrder(c.q, c.count, h), -HALF < h,
         \E i \in 1 .. Len(c.q) : c.q[i].type # CompareEvent
  PROVE  h <= HALF /\ HeadCycles(c) = -h
<1> DEFINE q == c.q  n == c.count
<1>1. PICK o : q # <<>> /\ Line(q, n, o) /\ Spaced(q, o) /\ o[1] = h
  BY DEF InOrder
<1>2. Len(q) \in Nat /\ Len(q) >= 1 /\ \A i \in 1 .. Len(q) : o[i] \in Int /\ q[i].count \in Int
  BY <1>1, LineTypes
<1>3. h <= HALF
  <2>1. PICK i \in 1 .. Len(q) : q[i].type # CompareEvent
    OBVIOUS
  <2>2. o[i] <= HALF
    BY <1>1, <2>1 DEF Spaced
  <2>3. o[1] <= o[i]
    BY <1>1, <1>2, <2>1 DEF Line
  <2> QED
    BY <1>1, <1>2, <2>1, <2>2, <2>3, HalfAssumption
<1>4. q[1].count = Wrap(n + h)
  BY <1>1, <1>2 DEF Line
<1> HIDE DEF q, n
<1>5. n \in Int /\ n + h \in Int /\ -h \in Int
  BY RangeType DEF n
<1>6. Wrap(n - Wrap(n + h)) = Wrap(-h)
  <2>1. Wrap(n - Wrap(n + h)) = Wrap(n - (n + h)) /\ n - (n + h) = -h
    BY <1>5, WrapAgain
  <2> QED
    BY <2>1
<1>7. /\ h <= 0 => Wrap(-h) = -h
      /\ h > 0 => Wrap(-h) = COUNT_MOD - h
  <2>1. CASE h <= 0
    <3>1. 0 <= -h /\ -h < COUNT_MOD
      BY <2>1, RangeType, HalfAssumption
    <3> QED
      BY <2>1, <3>1, <1>5, WrapNear
  <2>2. CASE h > 0
    <3>1. 0 <= -h + COUNT_MOD /\ -h < 0
      BY <2>2, <1>3, RangeType, HalfAssumption
    <3>2. Wrap(-h) = -h + COUNT_MOD
      BY <3>1, <1>5, WrapNear
    <3> QED
      BY <2>2, <3>2, RangeType
  <2> QED
    BY <2>1, <2>2
<1>8. Signed(Wrap(-h)) = -h
  <2>1. CASE h <= 0
    BY <2>1, <1>7, HalfAssumption DEF Signed
  <2>2. CASE h > 0
    BY <2>2, <1>7, <1>3, HalfAssumption, RangeType DEF Signed
  <2> QED
    BY <2>1, <2>2
<1>9. HeadCycles(c) = Signed(Wrap(n - q[1].count))
  BY <1>1 DEF HeadCycles, q, n
<1> QED
  BY <1>3, <1>4, <1>6, <1>8, <1>9

(* When every event is less than a turn behind the first.                  *)
LEMMA WindowWithoutCompare ==
  ASSUME NEW T, NEW q \in Seq(Entry(T)), NEW n, NEW b \in Int, From(q, n, b), -HALF < b,
         \A i \in 1 .. Len(q) : q[i].type # CompareEvent
  PROVE  Between(q, n, b, b + COUNT_MOD)
<1>1. PICK o : Line(q, n, o) /\ Spaced(q, o) /\ \A i \in 1 .. Len(q) : b <= o[i]
  BY DEF From
<1>2. \A i \in 1 .. Len(q) : o[i] \in Int
  BY <1>1, LineTypes
<1>3. \A i \in 1 .. Len(q) : o[i] < b + COUNT_MOD
  BY <1>1, <1>2, RangeType, HalfAssumption DEF Spaced
<1> QED
  BY <1>1, <1>3, Zenon DEF Between

LEMMA WindowFromHead ==
  ASSUME NEW T, NEW q \in Seq(Entry(T)), NEW n, NEW h \in Int, InOrder(q, n, h)
  PROVE  Between(q, n, h, h + COUNT_MOD)
<1>1. PICK o : q # <<>> /\ Line(q, n, o) /\ Spaced(q, o) /\ o[1] = h
  BY DEF InOrder
<1>2. Len(q) \in Nat /\ Len(q) >= 1 /\ \A i \in 1 .. Len(q) : o[i] \in Int
  BY <1>1, LineTypes
<1>3. \A i \in 1 .. Len(q) : h <= o[i]
  BY <1>1, <1>2 DEF Line
<1>4. ASSUME NEW i \in 1 .. Len(q)
      PROVE  o[i] < h + COUNT_MOD
  <2>1. o[i] - o[1] < COUNT_MOD
    BY <1>1, <1>2 DEF Spaced
  <2> QED
    BY <2>1, <1>1, <1>2, RangeType
<1> QED
  BY <1>1, <1>3, <1>4, Zenon DEF Between

LEMMA WindowAhead ==
  ASSUME NEW T, NEW q \in Seq(Entry(T)), NEW n \in Counts, From(q, n, 0),
         \A i \in 1 .. Len(q) : q[i].type = CompareEvent => q[i].count # n
  PROVE  Between(q, n, 0, COUNT_MOD)
<1>1. PICK o : Line(q, n, o) /\ Spaced(q, o) /\ \A i \in 1 .. Len(q) : 0 <= o[i]
  BY DEF From
<1>2. n \in Int /\ \A i \in 1 .. Len(q) : o[i] \in Int
  BY <1>1, LineTypes, RangeType
<1>3. ASSUME NEW i \in 1 .. Len(q)
      PROVE  o[i] < COUNT_MOD
  <2>1. CASE q[i].type # CompareEvent
    BY <2>1, <1>1, <1>2, RangeType, HalfAssumption DEF Spaced
  <2>2. CASE q[i].type = CompareEvent
    <3>1. o[i] <= COUNT_MOD /\ q[i].count = Wrap(n + o[i]) /\ q[i].count # n
      BY <2>2, <1>1 DEF Spaced, Line
    <3>2. Wrap(n + COUNT_MOD) = n
      <4>1. n + COUNT_MOD \in Int /\ COUNT_MOD <= n + COUNT_MOD /\ n + COUNT_MOD < COUNT_MOD + COUNT_MOD
            /\ (n + COUNT_MOD) - COUNT_MOD = n
        BY <1>2, RangeType
      <4> QED
        BY <4>1, WrapNear
    <3>3. o[i] # COUNT_MOD
      BY <3>1, <3>2
    <3> QED
      BY <3>1, <3>3, <1>2, RangeType
  <2> QED
    BY <2>1, <2>2
<1> QED
  BY <1>1, <1>3, Zenon DEF Between

(* The limits of a queue may be widened.                                   *)
LEMMA BetweenWider ==
  ASSUME NEW T, NEW q \in Seq(Entry(T)), NEW n, NEW b \in Int, NEW u \in Int,
         NEW a \in Int, NEW w \in Int, a <= b, u <= w, Between(q, n, b, u)
  PROVE  Between(q, n, a, w)
<1>1. PICK o : Line(q, n, o) /\ Spaced(q, o) /\ \A i \in 1 .. Len(q) : b <= o[i] /\ o[i] < u
  BY DEF Between
<1>2. \A i \in 1 .. Len(q) : o[i] \in Int
  BY <1>1, LineTypes
<1>3. \A i \in 1 .. Len(q) : a <= o[i] /\ o[i] < w
  BY <1>1, <1>2
<1> QED
  BY <1>1, <1>3, Zenon DEF Between

(* An empty queue is in order.                                             *)
LEMMA EmptyBetween ==
  ASSUME NEW n, NEW b, NEW u
  PROVE  Between(<<>>, n, b, u)
<1>1. <<>> \in Seq(Int) /\ Len(<<>>) = 0 /\ \A i : i \notin 1 .. 0
  OBVIOUS
<1>2. Line(<<>>, n, <<>>) /\ Spaced(<<>>, <<>>)
  BY <1>1 DEF Line, Spaced
<1> QED
  BY <1>1, <1>2 DEF Between

(* The tick from which BeforeEvent compares, when cycle_count tells that   *)
(* the head is at tick h, and that from which it does for COMPARE_INT.     *)
Base0(h) == IF h < 0 THEN h ELSE 0
Base2(h) == IF h < 2 THEN h ELSE 2

LEMMA OrderBased ==
  ASSUME NEW c, c.count \in Int, NEW h \in Int, c.cycle = -h
  PROVE  BasedAt(OrderBase(c), c.count, Base0(h))
<1> DEFINE n == c.count  base == OrderBase(c)  b == Base0(h)
<1>1. base = n + b /\ b \in Int /\ base \in Int
  BY DEF OrderBase, Base0
<1> HIDE DEF n, base, b
<1>2. n \in Int
  BY DEF n
<1>3. \A m \in Int : m - base = m - n - b
  BY <1>1, <1>2
<1>4. \A m \in Int : Wrap(m - base) = Wrap(m - n - b)
  BY <1>3, Zenon
<1> QED
  BY <1>1, <1>4, Zenon DEF BasedAt, base, n, b

LEMMA AheadBased ==
  ASSUME NEW c, NEW n \in Int, c.count = Wrap(n + 2), NEW h \in Int, c.cycle = -h + 2
  PROVE  BasedAt(OrderBase(c), n, Base2(h))
<1> DEFINE w == Wrap(n + 2)  base == OrderBase(c)  b == Base2(h)
<1>1. w \in Int /\ n + 2 \in Int
  BY WrapType, RangeType
<1>2. base = w - (2 - b) /\ b \in Int
  <2> HIDE DEF w
  <2>1. c.count = w
    BY DEF w
  <2> QED
    BY <2>1, <1>1 DEF OrderBase, Base2
<1> HIDE DEF b
<1>3. ASSUME NEW m \in Int
      PROVE  Wrap(m - base) = Wrap(m - n - b)
  <2>1. m + (2 - b) \in Int
    BY <1>2
  <2>2. Wrap((m + (2 - b)) - w) = Wrap((m + (2 - b)) - (n + 2))
    BY <2>1, <1>1, WrapAgain
  <2> HIDE DEF w, base
  <2>3. (m + (2 - b)) - w = m - base /\ (m + (2 - b)) - (n + 2) = m - n - b
    BY <1>1, <1>2
  <2> QED
    BY <2>2, <2>3
<1>4. base \in Int
  BY <1>1, <1>2
<1> QED
  BY <1>3, <1>4 DEF BasedAt, b

(* How far COMPARE_INT is put ahead, when it is compared from tick b.      *)
LEMMA CompareAhead ==
  ASSUME NEW n \in Counts, NEW m \in Counts, NEW b \in Int, b <= 2,
         b = 2 => Wrap(m - n) # 1
  PROVE  \E v \in Int : /\ b <= v /\ v < b + COUNT_MOD /\ v <= COUNT_MOD
                        /\ m = Wrap(n + v)
<1> DEFINE w == Wrap(m - n - b)  v == b + w
<1>1. n \in Int /\ m \in Int /\ m - n - b \in Int
  BY RangeType
<1>2. w \in Int /\ 0 <= w /\ w < COUNT_MOD
  BY <1>1, WrapType, RangeType
<1>3. m = Wrap(n + v)
  <2>1. n + b \in Int /\ (m - n - b) + (n + b) = m
    BY <1>1
  <2>2. Wrap(Wrap(m - n - b) + (n + b)) = Wrap((m - n - b) + (n + b))
    BY <2>1, <1>1, WrapAgain
  <2>3. w + (n + b) = n + v
    <3> HIDE DEF w
    <3> QED
      BY <1>1, <1>2
  <2>4. Wrap(m) = m
    BY <1>1, WrapNear, RangeType
  <2> QED
    BY <2>1, <2>2, <2>3, <2>4
<1>4. b = 2 => w # COUNT_MOD - 1
  <2> SUFFICES ASSUME b = 2, w = COUNT_MOD - 1
               PROVE  Wrap(m - n) = 1
    OBVIOUS
  <2>1. Wrap(w + 2) = 1
    <3>1. w + 2 = COUNT_MOD + 1 /\ w + 2 \in Int
      BY <1>2, RangeType
    <3>2. Wrap(COUNT_MOD + 1) = 1
      <4>1. COUNT_MOD + 1 \in Int /\ COUNT_MOD <= COUNT_MOD + 1 /\ COUNT_MOD + 1 < COUNT_MOD + COUNT_MOD
            /\ (COUNT_MOD + 1) - COUNT_MOD = 1
        BY RangeType, HalfAssumption
      <4> QED
        BY <4>1, WrapNear
    <3> QED
      BY <3>1, <3>2
  <2>2. Wrap(Wrap(m - n - b) + 2) = Wrap((m - n - b) + 2) /\ (m - n - b) + 2 = m - n
    BY <1>1, WrapAgain
  <2> QED
    BY <2>1, <2>2
<1> HIDE DEF w
<1>5. v \in Int /\ b <= v /\ v < b + COUNT_MOD
  BY <1>2, RangeType
<1>6. v <= COUNT_MOD
  BY <1>2, <1>4, RangeType
<1> QED
  BY <1>3, <1>5, <1>6

(* How far the fake event is put ahead.                                    *)
LEMMA SpecialAhead ==
  ASSUME NEW n \in Counts
  PROVE  \E v \in Int : 1 <= v /\ v <= HALF /\ SpecialCount(n) = Wrap(n + v)
<1>0. n \in Int /\ 0 <= n /\ n < COUNT_MOD
  BY RangeType
<1>1. CASE n >= HALF
  <2> DEFINE v == COUNT_MOD - n
  <2>1. v \in Int /\ 1 <= v /\ v <= HALF /\ n + v = COUNT_MOD
    BY <1>0, <1>1, RangeType, HalfAssumption
  <2>2. Wrap(COUNT_MOD) = COUNT_MOD - COUNT_MOD /\ COUNT_MOD - COUNT_MOD = 0
    BY WrapNear, RangeType
  <2> QED
    BY <2>1, <2>2, <1>1 DEF SpecialCount
<1>2. CASE ~(n >= HALF)
  <2> DEFINE v == HALF - n
  <2>1. v \in Int /\ 1 <= v /\ v <= HALF /\ n + v = HALF
    BY <1>0, <1>2, HalfAssumption
  <2>2. Wrap(HALF) = HALF
    BY WrapNear, RangeType, HalfAssumption
  <2> QED
    BY <2>1, <2>2, <1>2 DEF SpecialCount
<1> QED
  BY <1>1, <1>2

=============================================================================
