--------------------------- MODULE Netplay_proofs ---------------------------
(***************************************************************************)
(* Proofs about Netplay.                                                   *)
(***************************************************************************)
EXTENDS Netplay, Integers, SequenceTheorems, TLAPS

(* What is known of one player: an input that a client holds is one the    *)
(* server has decided, is not among those the client has taken (n of       *)
(* them), and is held once.                                                *)
HeldOnce(q) == \A i, j \in DOMAIN q : q[i].count = q[j].count => i = j
HeldExact(q, n, decided) ==
  \A i \in DOMAIN q : /\ q[i].count >= n /\ q[i].count < Len(decided)
                      /\ q[i].keys = decided[q[i].count + 1]
ListExact(c, p) ==
  /\ count[c][p] = Len(used[c][p])
  /\ HeldExact(events[c][p], count[c][p], record[p])
  /\ HeldOnce(events[c][p])
Lists == \A c \in Clients, p \in Players : ListExact(c, p)

(* The request thread runs in the loop of netplay_ensure_valid, and is     *)
(* content once the input is there.                                        *)
Threads ==
  \A c \in Clients :
    /\ at[c].phase \notin {"loop", "join"} => thread[c].state = "none"
    /\ thread[c].state = "ok" => Valid(c, at[c].player)

NetInv == TypeOK /\ Lists /\ Threads

-----------------------------------------------------------------------------
(* The type of the lists, of the inputs and of the threads.                *)
ListTypes ==
  /\ count \in [Clients -> [Players -> Nat]]
  /\ events \in [Clients -> [Players -> Seq([count : Nat, keys : Keys])]]
  /\ used \in [Clients -> [Players -> Seq(Keys)]]
RecordType == record \in [Players -> Seq(Keys)]
ThreadTypes ==
  /\ at \in [Clients -> [phase : Phases, player : Players]]
  /\ thread \in [Clients -> [state : {"none", "check", "ask", "ok", "failed"}, tries : Nat]]
  /\ udp \in [Clients -> BOOLEAN] /\ stopped \in [Clients -> BOOLEAN]

LEMMA Types == TypeOK <=> ListTypes /\ RecordType /\ ThreadTypes
BY DEF TypeOK, ListTypes, RecordType, ThreadTypes

LEMMA TypesNext == TypeOK' <=> ListTypes' /\ RecordType' /\ ThreadTypes'
BY DEF TypeOK, ListTypes, RecordType, ThreadTypes

LEMMA InitNet == Init => NetInv
BY NetplayAssumption
   DEF Init, NetInv, TypeOK, Lists, ListExact, HeldExact, HeldOnce, Threads, Players, Phases

-----------------------------------------------------------------------------
(* Taking an input.                                                        *)

(* A list without one of its elements.                                     *)
LEMMA RemoveAtProps ==
  ASSUME NEW S, NEW q \in Seq(S), NEW i \in 1 .. Len(q)
  PROVE  /\ RemoveAt(q, i) \in Seq(S)
         /\ Len(RemoveAt(q, i)) = Len(q) - 1
         /\ \A j \in 1 .. Len(q) - 1 :
              RemoveAt(q, i)[j] = IF j < i THEN q[j] ELSE q[j + 1]
<1>0. Len(q) \in Nat /\ i \in Nat
  BY LenProperties
<1> DEFINE a == SubSeq(q, 1, i - 1)  b == SubSeq(q, i + 1, Len(q))
<1>1. /\ a \in Seq(S) /\ Len(a) = i - 1
      /\ \A j \in 1 .. i - 1 : a[j] = q[j]
  OBVIOUS
<1>2. /\ b \in Seq(S) /\ Len(b) = Len(q) - i
      /\ \A j \in 1 .. Len(q) - i : b[j] = q[i + j]
  OBVIOUS
<1> HIDE DEF a, b
<1>3. /\ a \o b \in Seq(S)
      /\ Len(a \o b) = Len(q) - 1
      /\ \A j \in 1 .. Len(q) - 1 : (a \o b)[j] = IF j < i THEN q[j] ELSE q[j + 1]
  <2>0. Len(a) + Len(b) = Len(q) - 1
    BY <1>0, <1>1, <1>2
  <2>1. /\ a \o b \in Seq(S)
        /\ Len(a \o b) = Len(q) - 1
        /\ \A j \in 1 .. Len(q) - 1 : (a \o b)[j] = IF j <= i - 1 THEN a[j] ELSE b[j - (i - 1)]
    <3>1. /\ a \o b \in Seq(S)
          /\ Len(a \o b) = Len(a) + Len(b)
          /\ \A j \in 1 .. Len(a) + Len(b) : (a \o b)[j] = IF j <= Len(a) THEN a[j] ELSE b[j - Len(a)]
      BY <1>1, <1>2, ConcatProperties, Zenon
    <3> QED
      BY <3>1, <2>0, <1>1
  <2>2. ASSUME NEW j \in 1 .. Len(q) - 1
        PROVE  (a \o b)[j] = IF j < i THEN q[j] ELSE q[j + 1]
    <3>0. j < i \/ j >= i
      BY <1>0
    <3>1. CASE j < i
      BY <3>1, <2>1, <1>1
    <3>2. CASE j >= i
      <4>1. /\ j - (i - 1) \in 1 .. Len(q) - i /\ i + (j - (i - 1)) = j + 1
            /\ ~(j < i) /\ ~(j <= i - 1)
        BY <1>0, <3>2
      <4>2. (a \o b)[j] = b[j - (i - 1)]
        BY <2>1, <4>1
      <4>3. b[j - (i - 1)] = q[j + 1]
        BY <1>2, <4>1
      <4> QED
        BY <4>1, <4>2, <4>3
    <3> QED
      BY <3>0, <3>1, <3>2, Zenon
  <2> QED
    BY <2>1, <2>2
<1> QED
  BY <1>3 DEF RemoveAt, a, b

(* The event that is taken is the one the client needs: the first of the   *)
(* list that has its count.                                                *)
LEMMA TakenIsNeeded ==
  ASSUME ListTypes, Lists, NEW c \in Clients, NEW p \in Players, Valid(c, p)
  PROVE  /\ Taken(c, p) \in 1 .. Len(events[c][p])
         /\ events[c][p][Taken(c, p)].count = count[c][p]
<1> DEFINE q == events[c][p]  n == count[c][p]
<1>0. q \in Seq([count : Nat, keys : Keys])
  BY DEF ListTypes
<1>1. Len(q) \in Nat /\ DOMAIN q = 1 .. Len(q)
  <2> HIDE DEF q
  <2>1. QED
    BY <1>0
<1>2. PICK k \in DOMAIN q : q[k].count = n
  BY DEF Valid, CheckValid
<1>3. \A j \in DOMAIN q : q[j].count = n => j = k
  BY <1>2 DEF Lists, ListExact, HeldOnce
<1>4. Taken(c, p) = CHOOSE i \in DOMAIN q :
                      q[i].count = n /\ \A j \in 1 .. i - 1 : q[j].count # n
  BY DEF Taken
<1> HIDE DEF q, n
<1>5. \A j \in 1 .. k - 1 : q[j].count # n
  <2>1. \A j \in 1 .. k - 1 : j \in DOMAIN q /\ j # k
    BY <1>1, <1>2
  <2>2. QED
    BY <2>1, <1>3
<1>6. q[Taken(c, p)].count = n /\ Taken(c, p) \in DOMAIN q
  BY <1>2, <1>4, <1>5
<1>7. QED
  BY <1>1, <1>6 DEF q, n

LEMMA TakeKeepsTypes ==
  ASSUME ListTypes, Lists, NEW c \in Clients, NEW p \in Players, Valid(c, p), TakeInput(c, p)
  PROVE  ListTypes'
<1> DEFINE i == Taken(c, p)  keys == events[c][p][i].keys
<1>1. i \in 1 .. Len(events[c][p]) /\ events[c][p] \in Seq([count : Nat, keys : Keys])
  BY TakenIsNeeded DEF ListTypes
<1>2. keys \in Keys /\ RemoveAt(events[c][p], i) \in Seq([count : Nat, keys : Keys])
  <2>1. events[c][p][i] \in [count : Nat, keys : Keys]
    BY <1>1, ElementOfSeq
  <2> HIDE DEF i
  <2>2. RemoveAt(events[c][p], i) \in Seq([count : Nat, keys : Keys])
    BY <1>1, RemoveAtProps
  <2>3. QED
    BY <2>1, <2>2
<1>3. /\ used' = [used EXCEPT ![c][p] = Append(@, keys)]
      /\ events' = [events EXCEPT ![c][p] = RemoveAt(@, i)]
      /\ count' = [count EXCEPT ![c][p] = @ + 1]
  BY DEF TakeInput
<1> HIDE DEF i, keys
<1>4. Append(used[c][p], keys) \in Seq(Keys)
  BY <1>2, AppendProperties DEF ListTypes
<1>5. used' \in [Clients -> [Players -> Seq(Keys)]]
  BY <1>3, <1>4 DEF ListTypes
<1>6. events' \in [Clients -> [Players -> Seq([count : Nat, keys : Keys])]]
  BY <1>2, <1>3 DEF ListTypes
<1>7. count' \in [Clients -> [Players -> Nat]]
  BY <1>3 DEF ListTypes
<1>8. QED
  BY <1>5, <1>6, <1>7 DEF ListTypes

(* What is left when the event of the count n is taken: the inputs from    *)
(* n + 1 on, each of them once.                                            *)
LEMMA TakenLeaves ==
  ASSUME NEW q \in Seq([count : Nat, keys : Keys]), NEW i \in 1 .. Len(q), NEW n \in Nat,
         q[i].count = n, NEW decided, HeldExact(q, n, decided), HeldOnce(q)
  PROVE  /\ HeldExact(RemoveAt(q, i), n + 1, decided)
         /\ HeldOnce(RemoveAt(q, i))
<1> DEFINE r == RemoveAt(q, i)
           f(j) == IF j < i THEN j ELSE j + 1
<1>1. /\ r \in Seq([count : Nat, keys : Keys]) /\ Len(r) = Len(q) - 1
      /\ \A j \in 1 .. Len(q) - 1 : r[j] = IF j < i THEN q[j] ELSE q[j + 1]
  BY RemoveAtProps
<1> HIDE DEF r
<1>2. Len(q) \in Nat /\ DOMAIN r = 1 .. Len(q) - 1 /\ DOMAIN q = 1 .. Len(q)
  BY <1>1
<1>3. \A j \in DOMAIN r : f(j) \in DOMAIN q /\ f(j) # i /\ r[j] = q[f(j)]
  <2> SUFFICES ASSUME NEW j \in 1 .. Len(q) - 1
               PROVE  f(j) \in 1 .. Len(q) /\ f(j) # i /\ r[j] = q[f(j)]
    BY <1>2
  <2>1. f(j) \in 1 .. Len(q) /\ f(j) # i
    BY <1>2
  <2>2. r[j] = IF j < i THEN q[j] ELSE q[j + 1]
    BY <1>1
  <2>3. q[f(j)] = IF j < i THEN q[j] ELSE q[j + 1]
    OBVIOUS
  <2>4. QED
    BY <2>1, <2>2, <2>3
<1>4. \A j, m \in DOMAIN r : f(j) = f(m) => j = m
  BY <1>2
<1>5. \A m \in DOMAIN q : q[m].count \in Nat
  <2>1. \A m \in DOMAIN q : q[m] \in [count : Nat, keys : Keys]
    BY <1>2, ElementOfSeq
  <2>2. QED
    BY <2>1
<1> HIDE DEF f
<1>6. i \in DOMAIN q
  BY <1>2
<1>7. HeldOnce(r)
  <2> SUFFICES ASSUME NEW j \in DOMAIN r, NEW m \in DOMAIN r, r[j].count = r[m].count
               PROVE  j = m
    BY DEF HeldOnce
  <2>1. q[f(j)].count = q[f(m)].count
    BY <1>3
  <2>2. f(j) = f(m)
    BY <1>3, <2>1 DEF HeldOnce
  <2>3. QED
    BY <1>4, <2>2
<1>8. HeldExact(r, n + 1, decided)
  <2> SUFFICES ASSUME NEW j \in DOMAIN r
               PROVE  /\ r[j].count >= n + 1 /\ r[j].count < Len(decided)
                      /\ r[j].keys = decided[r[j].count + 1]
    BY DEF HeldExact
  <2>1. f(j) \in DOMAIN q /\ r[j] = q[f(j)]
    BY <1>3
  <2>2. /\ q[f(j)].count >= n /\ q[f(j)].count < Len(decided)
        /\ q[f(j)].keys = decided[q[f(j)].count + 1]
    BY <2>1 DEF HeldExact
  <2>3. q[f(j)].count # n
    BY <1>3, <1>6, <2>1 DEF HeldOnce
  <2>4. q[f(j)].count \in Nat
    BY <1>5, <2>1
  <2>5. \A k \in Nat : k >= n /\ k # n => k >= n + 1
    OBVIOUS
  <2>6. q[f(j)].count >= n + 1
    BY <2>2, <2>3, <2>4, <2>5, Zenon
  <2>7. QED
    BY <2>1, <2>2, <2>6
<1>9. QED
  BY <1>7, <1>8 DEF r

LEMMA TakeKeepsLists ==
  ASSUME ListTypes, RecordType, Lists, UNCHANGED record,
         NEW c \in Clients, NEW p \in Players, Valid(c, p), TakeInput(c, p)
  PROVE  Lists'
<1> SUFFICES ASSUME NEW d \in Clients, NEW s \in Players PROVE ListExact(d, s)'
  BY DEF Lists
<1> DEFINE i == Taken(c, p)  keys == events[c][p][i].keys
<1>1. i \in 1 .. Len(events[c][p]) /\ events[c][p][i].count = count[c][p]
  BY TakenIsNeeded
<1>2. /\ used' = [used EXCEPT ![c][p] = Append(@, keys)]
      /\ events' = [events EXCEPT ![c][p] = RemoveAt(@, i)]
      /\ count' = [count EXCEPT ![c][p] = @ + 1]
  BY DEF TakeInput
<1> HIDE DEF i, keys
<1>3. CASE d = c /\ s = p
  <2>1. Len(used'[c][p]) = Len(used[c][p]) + 1
    BY <1>2, AppendProperties DEF ListTypes
  <2>2. count'[c][p] = count[c][p] + 1 /\ events'[c][p] = RemoveAt(events[c][p], i)
    BY <1>2 DEF ListTypes
  <2>3. count'[c][p] = Len(used'[c][p])
    BY <2>1, <2>2 DEF Lists, ListExact
  <2>4. events[c][p] \in Seq([count : Nat, keys : Keys]) /\ count[c][p] \in Nat
    BY DEF ListTypes
  <2>5. HeldExact(events[c][p], count[c][p], record[p]) /\ HeldOnce(events[c][p])
    BY DEF Lists, ListExact
  <2>6. /\ HeldExact(events'[c][p], count'[c][p], record[p])
        /\ HeldOnce(events'[c][p])
    BY <1>1, <2>2, <2>4, <2>5, TakenLeaves
  <2>7. QED
    BY <1>3, <2>3, <2>6 DEF ListExact
<1>4. CASE ~(d = c /\ s = p)
  <2>1. /\ used'[d][s] = used[d][s] /\ events'[d][s] = events[d][s]
        /\ count'[d][s] = count[d][s]
    BY <1>2, <1>4 DEF ListTypes
  <2>2. QED
    BY <2>1 DEF Lists, ListExact
<1>5. QED
  BY <1>3, <1>4

-----------------------------------------------------------------------------
(* Every step keeps the invariant.                                         *)

LEMMA DecidedInputs ==
  ASSUME RecordType, NEW p \in Players, NEW e \in Decided(p)
  PROVE  /\ e \in [count : Nat, keys : Keys]
         /\ e.count < Len(record[p]) /\ e.keys = record[p][e.count + 1]
<1>1. PICK n \in DOMAIN record[p] : e = [count |-> n - 1, keys |-> record[p][n]]
  BY DEF Decided, Event
<1>2. record[p] \in Seq(Keys)
  BY DEF RecordType
<1>3. n \in 1 .. Len(record[p]) /\ record[p][n] \in Keys /\ Len(record[p]) \in Nat
  BY <1>2
<1>4. (n - 1) + 1 = n /\ n - 1 \in Nat /\ n - 1 < Len(record[p])
  BY <1>3
<1>5. QED
  BY <1>1, <1>3, <1>4

(* An element put in front of a list.                                      *)
LEMMA ConsProps ==
  ASSUME NEW S, NEW q \in Seq(S), NEW e \in S
  PROVE  /\ Cons(e, q) \in Seq(S) /\ DOMAIN Cons(e, q) = 1 .. Len(q) + 1
         /\ Cons(e, q)[1] = e
         /\ \A i \in 1 .. Len(q) + 1 : i # 1 => i - 1 \in 1 .. Len(q) /\ Cons(e, q)[i] = q[i - 1]
         /\ \A i \in 1 .. Len(q) : i + 1 \in 1 .. Len(q) + 1 /\ Cons(e, q)[i + 1] = q[i]
<1>1. <<e>> \in Seq(S) /\ Len(<<e>>) = 1 /\ <<e>>[1] = e /\ Len(q) \in Nat
  OBVIOUS
<1>2. /\ <<e>> \o q \in Seq(S) /\ Len(<<e>> \o q) = 1 + Len(q)
      /\ \A i \in 1 .. Len(<<e>>) + Len(q) :
           (<<e>> \o q)[i] = IF i <= Len(<<e>>) THEN <<e>>[i] ELSE q[i - Len(<<e>>)]
  BY <1>1, ConcatProperties
<1> DEFINE r == <<e>> \o q
<1> HIDE DEF r
<1>3. r \in Seq(S) /\ Len(r) = Len(q) + 1 /\ r[1] = e
  BY <1>1, <1>2 DEF r
<1>4. \A i \in 1 .. Len(q) + 1 : i # 1 => i - 1 \in 1 .. Len(q) /\ r[i] = q[i - 1]
  BY <1>1, <1>2 DEF r
<1>5. \A i \in 1 .. Len(q) : i + 1 \in 1 .. Len(q) + 1 /\ r[i + 1] = q[i]
  BY <1>1, <1>4
<1>6. DOMAIN r = 1 .. Len(q) + 1
  BY <1>3
<1>7. QED
  BY <1>3, <1>4, <1>5, <1>6 DEF r, Cons

(* An input that has been decided, is not taken yet and is not held, put   *)
(* in front of a list.                                                     *)
LEMMA InputRecorded ==
  ASSUME NEW q \in Seq([count : Nat, keys : Keys]), NEW e \in [count : Nat, keys : Keys],
         NEW n \in Nat, NEW decided, HeldExact(q, n, decided), HeldOnce(q),
         e.count >= n, e.count < Len(decided), e.keys = decided[e.count + 1],
         \A i \in DOMAIN q : q[i].count # e.count
  PROVE  /\ Cons(e, q) \in Seq([count : Nat, keys : Keys])
         /\ HeldExact(Cons(e, q), n, decided)
         /\ HeldOnce(Cons(e, q))
         /\ \A i \in DOMAIN q : \E j \in DOMAIN Cons(e, q) : Cons(e, q)[j] = q[i]
<1> DEFINE r == Cons(e, q)
<1>1. /\ r \in Seq([count : Nat, keys : Keys]) /\ DOMAIN r = 1 .. Len(q) + 1 /\ r[1] = e
      /\ \A i \in 1 .. Len(q) + 1 : i # 1 => i - 1 \in 1 .. Len(q) /\ r[i] = q[i - 1]
      /\ \A i \in 1 .. Len(q) : i + 1 \in 1 .. Len(q) + 1 /\ r[i + 1] = q[i]
  <2> DEFINE S == [count : Nat, keys : Keys]
  <2>1. q \in Seq(S) /\ e \in S
    OBVIOUS
  <2> HIDE DEF S
  <2>2. r \in Seq(S) /\ r[1] = e
    BY <2>1, ConsProps
  <2>3. DOMAIN r = 1 .. Len(q) + 1
    BY <2>1, ConsProps
  <2>4. \A i \in 1 .. Len(q) + 1 : i # 1 => i - 1 \in 1 .. Len(q) /\ r[i] = q[i - 1]
    BY <2>1, ConsProps
  <2>5. \A i \in 1 .. Len(q) : i + 1 \in 1 .. Len(q) + 1 /\ r[i + 1] = q[i]
    <3>1. Len(q) \in Nat
      BY <2>1
    <3> HIDE DEF r
    <3> SUFFICES ASSUME NEW i \in 1 .. Len(q)
                 PROVE  i + 1 \in 1 .. Len(q) + 1 /\ r[i + 1] = q[i]
      OBVIOUS
    <3>2. i + 1 \in 1 .. Len(q) + 1 /\ i + 1 # 1 /\ (i + 1) - 1 = i
      BY <3>1
    <3>3. r[i + 1] = q[(i + 1) - 1]
      BY <2>4, <3>2, Zenon
    <3>4. QED
      BY <3>2, <3>3, Zenon
  <2>6. QED
    BY <2>2, <2>3, <2>4, <2>5 DEF S
<1> HIDE DEF r
<1>2. DOMAIN q = 1 .. Len(q) /\ Len(q) \in Nat
  OBVIOUS
<1>3. \A i \in DOMAIN r : i = 1 \/ (i - 1 \in DOMAIN q /\ r[i] = q[i - 1])
  BY <1>1, <1>2
<1>4. \A i \in DOMAIN r : i \in Int
  BY <1>1, <1>2
<1>5. HeldExact(r, n, decided)
  <2> SUFFICES ASSUME NEW i \in DOMAIN r
               PROVE  /\ r[i].count >= n /\ r[i].count < Len(decided)
                      /\ r[i].keys = decided[r[i].count + 1]
    BY DEF HeldExact
  <2>1. CASE i = 1
    BY <1>1, <2>1
  <2>2. CASE i - 1 \in DOMAIN q /\ r[i] = q[i - 1]
    BY <2>2 DEF HeldExact
  <2>3. QED
    BY <1>3, <2>1, <2>2
<1>6. HeldOnce(r)
  <2> SUFFICES ASSUME NEW i \in DOMAIN r, NEW j \in DOMAIN r, r[i].count = r[j].count
               PROVE  i = j
    BY DEF HeldOnce
  <2>1. /\ i # 1 => i - 1 \in DOMAIN q /\ r[i].count # e.count /\ r[i] = q[i - 1]
        /\ j # 1 => j - 1 \in DOMAIN q /\ r[j].count # e.count /\ r[j] = q[j - 1]
    BY <1>3
  <2>2. i = 1 <=> j = 1
    BY <1>1, <2>1
  <2>3. CASE i # 1 /\ j # 1
    <3>1. q[i - 1].count = q[j - 1].count
      BY <2>1, <2>3
    <3>2. i - 1 = j - 1
      BY <2>1, <2>3, <3>1 DEF HeldOnce
    <3>3. QED
      BY <1>4, <3>2
  <2>4. QED
    BY <2>2, <2>3
<1>7. \A i \in DOMAIN q : \E j \in DOMAIN r : r[j] = q[i]
  BY <1>1, <1>2
<1>8. QED
  BY <1>1, <1>5, <1>6, <1>7 DEF r

LEMMA ReceiveKeeps == ASSUME NetInv, NEW c \in Clients, Receive(c) PROVE NetInv'
<1>1. PICK p \in Players : \E e \in Decided(p) :
        Wanted(c, p, e) /\ events' = [events EXCEPT ![c][p] = Cons(e, @)]
  BY DEF Receive
<1>2. PICK e \in Decided(p) :
        Wanted(c, p, e) /\ events' = [events EXCEPT ![c][p] = Cons(e, @)]
  BY <1>1
<1>3. UNCHANGED <<count, at, thread, udp, stopped, used, record>>
  BY DEF Receive
<1>4. ListTypes /\ RecordType /\ ThreadTypes /\ Lists /\ Threads
  BY Types DEF NetInv
<1>5. /\ e \in [count : Nat, keys : Keys] /\ e.count < Len(record[p])
      /\ e.keys = record[p][e.count + 1]
  BY <1>4, DecidedInputs
<1>6. e.count >= count[c][p] /\ \A i \in DOMAIN events[c][p] : events[c][p][i].count # e.count
  BY <1>2 DEF Wanted, CheckValid
<1>7. events[c][p] \in Seq([count : Nat, keys : Keys]) /\ count[c][p] \in Nat
  BY <1>4 DEF ListTypes
<1>8. HeldExact(events[c][p], count[c][p], record[p]) /\ HeldOnce(events[c][p])
  BY <1>4 DEF Lists, ListExact
<1> DEFINE q == events[c][p]  r == Cons(e, q)
<1>9. /\ r \in Seq([count : Nat, keys : Keys])
      /\ HeldExact(r, count[c][p], record[p]) /\ HeldOnce(r)
      /\ \A i \in DOMAIN q : \E j \in DOMAIN r : r[j] = q[i]
  BY <1>5, <1>6, <1>7, <1>8, InputRecorded
<1>10. events' = [events EXCEPT ![c][p] = r]
  BY <1>2
<1> HIDE DEF r
<1>11. events'[c][p] = r /\ \A d \in Clients, s \in Players :
                              ~(d = c /\ s = p) => events'[d][s] = events[d][s]
  BY <1>4, <1>10 DEF ListTypes
<1>12. ListTypes' /\ RecordType' /\ ThreadTypes'
  <2>1. events' \in [Clients -> [Players -> Seq([count : Nat, keys : Keys])]]
    BY <1>4, <1>9, <1>10 DEF ListTypes
  <2>2. QED
    BY <1>3, <1>4, <2>1 DEF ListTypes, RecordType, ThreadTypes
<1>13. Lists'
  <2> SUFFICES ASSUME NEW d \in Clients, NEW s \in Players PROVE ListExact(d, s)'
    BY DEF Lists
  <2>1. CASE d = c /\ s = p
    BY <1>3, <1>4, <1>9, <1>11, <2>1 DEF Lists, ListExact
  <2>2. CASE ~(d = c /\ s = p)
    BY <1>3, <1>4, <1>11, <2>2 DEF Lists, ListExact
  <2>3. QED
    BY <2>1, <2>2
<1>14. Threads'
  <2> SUFFICES ASSUME NEW d \in Clients, Valid(d, at[d].player)
               PROVE  Valid(d, at[d].player)'
    BY <1>3, <1>4 DEF Threads
  <2>1. at[d].player \in Players
    BY <1>4 DEF ThreadTypes
  <2>2. PICK i \in DOMAIN events[d][at[d].player] :
          events[d][at[d].player][i].count = count[d][at[d].player]
    BY DEF Valid, CheckValid
  <2>3. CASE d = c /\ at[d].player = p
    <3>1. PICK j \in DOMAIN r : r[j] = q[i]
      BY <1>9, <2>2, <2>3
    <3>2. j \in DOMAIN events'[d][at[d].player] /\ events'[d][at[d].player][j].count = count[d][at[d].player]
      BY <1>11, <2>2, <2>3, <3>1
    <3>3. QED
      BY <1>3, <3>2 DEF Valid, CheckValid
  <2>4. CASE ~(d = c /\ at[d].player = p)
    <3>1. events'[d][at[d].player] = events[d][at[d].player]
      BY <1>11, <2>1, <2>4
    <3>2. QED
      BY <1>3, <2>2, <3>1 DEF Valid, CheckValid
  <2>5. QED
    BY <2>3, <2>4
<1>15. QED
  BY <1>12, <1>13, <1>14, TypesNext DEF NetInv

(* A client that takes no input leaves the lists as they are.              *)
LEMMA ListsStay ==
  ASSUME NetInv, UNCHANGED <<count, events, used, record>>
  PROVE  ListTypes' /\ RecordType' /\ Lists'
<1>1. ListTypes /\ RecordType /\ Lists
  BY Types DEF NetInv
<1>2. ListTypes' /\ RecordType'
  BY <1>1 DEF ListTypes, RecordType
<1>3. Lists'
  BY <1>1 DEF Lists, ListExact
<1>4. QED
  BY <1>2, <1>3

(* The threads of the clients that take no step.                           *)
LEMMA OthersStay ==
  ASSUME NetInv, NEW c \in Clients, NEW d \in Clients, d # c,
         at'[d] = at[d], thread'[d] = thread[d],
         count'[d] = count[d], events'[d] = events[d]
  PROVE  /\ (at[d].phase \notin {"loop", "join"} => thread[d].state = "none")'
         /\ (thread[d].state = "ok" => Valid(d, at[d].player))'
BY DEF NetInv, Threads, Valid, CheckValid

LEMMA NextPlayerType ==
  ASSUME ThreadTypes, NEW c \in Clients
  PROVE  NextPlayer(c) \in [phase : {"idle", "get"}, player : Players]
<1>1. at[c].player \in 1 .. NPlayers /\ NPlayers \in Nat \ {0}
  BY NetplayAssumption DEF ThreadTypes, Players
<1>2. at[c].player # NPlayers => at[c].player + 1 \in 1 .. NPlayers
  BY <1>1
<1>3. 1 \in 1 .. NPlayers
  BY <1>1
<1>4. QED
  BY <1>2, <1>3 DEF NextPlayer, Players

LEMMA PollKeeps == ASSUME NetInv, NEW c \in Clients, PollInput(c) PROVE NetInv'
<1>1. ListTypes' /\ RecordType' /\ Lists'
  BY ListsStay DEF PollInput
<1>2. ThreadTypes'
  BY Types DEF NetInv, ThreadTypes, PollInput, Phases
<1>3. Threads'
  BY Types DEF NetInv, Threads, ThreadTypes, PollInput, Valid, CheckValid
<1>4. QED
  BY <1>1, <1>2, <1>3, TypesNext DEF NetInv

LEMMA EnsureKeeps == ASSUME NetInv, NEW c \in Clients, EnsureValid(c) PROVE NetInv'
<1> DEFINE p == at[c].player
<1>1. ListTypes /\ RecordType /\ ThreadTypes /\ Lists /\ Threads
  BY Types DEF NetInv
<1>2. p \in Players /\ thread[c].state = "none"
  BY <1>1 DEF ThreadTypes, Threads, EnsureValid
<1>3. UNCHANGED <<udp, record>>
  BY DEF EnsureValid
<1>4. CASE Valid(c, p) /\ TakeInput(c, p) /\ at' = [at EXCEPT ![c] = NextPlayer(c)]
           /\ UNCHANGED thread
  <2>1. ListTypes' /\ Lists' /\ RecordType'
    BY <1>1, <1>2, <1>3, <1>4, TakeKeepsTypes, TakeKeepsLists DEF RecordType
  <2>2. ThreadTypes'
    BY <1>1, <1>3, <1>4, NextPlayerType DEF ThreadTypes, TakeInput, Phases
  <2>3. ASSUME NEW d \in Clients, d # c
        PROVE  /\ at'[d] = at[d] /\ thread'[d] = thread[d]
               /\ count'[d] = count[d] /\ events'[d] = events[d]
    BY <1>1, <1>4, <2>3 DEF TakeInput, ListTypes, ThreadTypes
  <2>4. thread'[c].state = "none"
    BY <1>2, <1>4
  <2>5. Threads'
    BY <2>3, <2>4, OthersStay DEF Threads
  <2>6. QED
    BY <2>1, <2>2, <2>5, TypesNext DEF NetInv
<1>5. CASE ~Valid(c, p) /\ ~udp[c] /\ LoseConnection(c)
           /\ at' = [at EXCEPT ![c] = NextPlayer(c)] /\ UNCHANGED thread
  <2>1. ListTypes' /\ Lists' /\ RecordType'
    BY <1>3, <1>5, ListsStay DEF LoseConnection
  <2>2. ThreadTypes'
    BY <1>1, <1>3, <1>5, NextPlayerType DEF ThreadTypes, LoseConnection, Phases
  <2>3. ASSUME NEW d \in Clients, d # c
        PROVE  /\ at'[d] = at[d] /\ thread'[d] = thread[d]
               /\ count'[d] = count[d] /\ events'[d] = events[d]
    BY <1>1, <1>5, <2>3 DEF LoseConnection, ListTypes, ThreadTypes
  <2>4. thread'[c].state = "none"
    BY <1>2, <1>5
  <2>5. Threads'
    BY <2>3, <2>4, OthersStay DEF Threads
  <2>6. QED
    BY <2>1, <2>2, <2>5, TypesNext DEF NetInv
<1>6. CASE /\ thread' = [thread EXCEPT ![c] = [state |-> "check", tries |-> 0]]
           /\ at' = [at EXCEPT ![c].phase = "loop"]
           /\ UNCHANGED <<count, events, stopped, used>>
  <2>1. ListTypes' /\ Lists' /\ RecordType'
    BY <1>3, <1>6, ListsStay
  <2>2. ThreadTypes'
    BY <1>1, <1>3, <1>6 DEF ThreadTypes, Phases
  <2>3. ASSUME NEW d \in Clients, d # c
        PROVE  /\ at'[d] = at[d] /\ thread'[d] = thread[d]
               /\ count'[d] = count[d] /\ events'[d] = events[d]
    BY <1>1, <1>6, <2>3 DEF ListTypes, ThreadTypes
  <2>4. thread'[c].state = "check" /\ at'[c].phase = "loop"
    BY <1>1, <1>6 DEF ThreadTypes
  <2>5. Threads'
    BY <2>3, <2>4, OthersStay DEF Threads
  <2>6. QED
    BY <2>1, <2>2, <2>5, TypesNext DEF NetInv
<1>7. QED
  BY <1>4, <1>5, <1>6 DEF EnsureValid

LEMMA LeaveKeeps == ASSUME NetInv, NEW c \in Clients, LeaveLoop(c) PROVE NetInv'
<1>1. ListTypes' /\ RecordType' /\ Lists'
  BY ListsStay DEF LeaveLoop
<1>2. ThreadTypes /\ ThreadTypes'
  BY Types DEF NetInv, ThreadTypes, LeaveLoop, Phases
<1>3. Threads'
  <2>1. UNCHANGED <<count, events, thread>> /\ at' = [at EXCEPT ![c].phase = "join"]
    BY DEF LeaveLoop
  <2>2. \A d \in Clients : at'[d].player = at[d].player /\ (d # c => at'[d] = at[d])
    BY <1>2, <2>1 DEF ThreadTypes
  <2>3. at'[c].phase = "join"
    BY <1>2, <2>1 DEF ThreadTypes
  <2>4. at[c].phase = "loop"
    BY DEF LeaveLoop
  <2> SUFFICES ASSUME NEW d \in Clients
               PROVE  /\ (at[d].phase \notin {"loop", "join"} => thread[d].state = "none")'
                      /\ (thread[d].state = "ok" => Valid(d, at[d].player))'
    BY DEF Threads
  <2>5. Valid(d, at[d].player)' <=> Valid(d, at[d].player)
    BY <2>1, <2>2 DEF Valid, CheckValid
  <2>6. thread'[d] = thread[d]
    BY <2>1
  <2>7. at'[d].phase \notin {"loop", "join"} => at[d].phase \notin {"loop", "join"}
    BY <2>2, <2>3
  <2>8. QED
    BY <2>5, <2>6, <2>7 DEF NetInv, Threads
<1>4. QED
  BY <1>1, <1>2, <1>3, TypesNext DEF NetInv

LEMMA JoinKeeps == ASSUME NetInv, NEW c \in Clients, JoinThread(c) PROVE NetInv'
<1> DEFINE p == at[c].player
<1>1. ListTypes /\ RecordType /\ ThreadTypes /\ Lists /\ Threads
  BY Types DEF NetInv
<1>2. p \in Players
  BY <1>1 DEF ThreadTypes
<1>3. /\ UNCHANGED <<udp, record>> /\ at' = [at EXCEPT ![c] = NextPlayer(c)]
      /\ thread' = [thread EXCEPT ![c] = NoThread]
  BY DEF JoinThread
<1>4. (TakeInput(c, p) /\ Valid(c, p)) \/ LoseConnection(c)
  BY <1>1 DEF JoinThread, Threads
<1>5. ListTypes' /\ Lists' /\ RecordType'
  <2>1. CASE TakeInput(c, p) /\ Valid(c, p)
    BY <1>1, <1>2, <1>3, <2>1, TakeKeepsTypes, TakeKeepsLists DEF RecordType
  <2>2. CASE LoseConnection(c)
    BY <1>3, <2>2, ListsStay DEF LoseConnection
  <2>3. QED
    BY <1>4, <2>1, <2>2
<1>6. ThreadTypes'
  <2>1. stopped' \in [Clients -> BOOLEAN]
    BY <1>1, <1>4 DEF ThreadTypes, TakeInput, LoseConnection
  <2>2. QED
    BY <1>1, <1>3, <2>1, NextPlayerType DEF ThreadTypes, NoThread, Phases
<1>7. ASSUME NEW d \in Clients, d # c
      PROVE  /\ at'[d] = at[d] /\ thread'[d] = thread[d]
             /\ count'[d] = count[d] /\ events'[d] = events[d]
  BY <1>1, <1>3, <1>4, <1>7 DEF TakeInput, LoseConnection, ListTypes, ThreadTypes
<1>8. thread'[c].state = "none"
  BY <1>1, <1>3 DEF ThreadTypes, NoThread
<1>9. Threads'
  BY <1>7, <1>8, OthersStay DEF Threads
<1>10. QED
  BY <1>5, <1>6, <1>9, TypesNext DEF NetInv

LEMMA RequestKeeps == ASSUME NetInv, NEW c \in Clients, RequestThread(c) PROVE NetInv'
<1>1. ListTypes /\ RecordType /\ ThreadTypes /\ Lists /\ Threads
  BY Types DEF NetInv
<1>2. UNCHANGED <<count, events, at, stopped, used, record>>
  BY DEF RequestThread, CheckResponse, RequireResponse
<1>3. ListTypes' /\ Lists' /\ RecordType'
  BY <1>2, ListsStay
<1>4. ASSUME NEW d \in Clients, d # c PROVE thread'[d] = thread[d]
  BY <1>1, <1>4 DEF RequestThread, CheckResponse, RequireResponse, ThreadTypes
<1>5. at[c].phase \in {"loop", "join"}
  BY <1>1 DEF RequestThread, CheckResponse, RequireResponse, Threads
<1>6. thread'[c].state = "ok" => Valid(c, at[c].player)
  BY <1>1 DEF RequestThread, CheckResponse, RequireResponse, ThreadTypes
<1>7. Threads'
  BY <1>2, <1>4, <1>5, <1>6, OthersStay DEF Threads, Valid, CheckValid
<1>8. ThreadTypes'
  <2>1. udp' \in [Clients -> BOOLEAN]
    BY <1>1 DEF RequestThread, CheckResponse, RequireResponse, ThreadTypes
  <2>2. thread' \in [Clients -> [state : {"none", "check", "ask", "ok", "failed"}, tries : Nat]]
    <3>1. CASE CheckResponse(c)
      BY <1>1, <3>1 DEF CheckResponse, ThreadTypes
    <3>2. CASE RequireResponse(c)
      <4>1. [state |-> "check", tries |-> thread[c].tries + 1]
              \in [state : {"none", "check", "ask", "ok", "failed"}, tries : Nat]
        BY <1>1 DEF ThreadTypes
      <4>2. thread[c].tries >= MAX_TRIES \/ ~(thread[c].tries >= MAX_TRIES)
        OBVIOUS
      <4>3. CASE thread[c].tries >= MAX_TRIES
        BY <1>1, <3>2, <4>3 DEF RequireResponse, ThreadTypes
      <4>4. CASE ~(thread[c].tries >= MAX_TRIES)
        BY <1>1, <3>2, <4>1, <4>4 DEF RequireResponse, ThreadTypes
      <4>5. QED
        BY <4>2, <4>3, <4>4
    <3>3. QED
      BY <3>1, <3>2 DEF RequestThread
  <2>3. QED
    BY <1>1, <1>2, <2>1, <2>2 DEF ThreadTypes
<1>9. QED
  BY <1>3, <1>7, <1>8, TypesNext DEF NetInv

LEMMA DecideKeeps == ASSUME NetInv, NEW p \in Players, Decide(p) PROVE NetInv'
<1>1. ListTypes /\ RecordType /\ ThreadTypes /\ Lists /\ Threads
  BY Types DEF NetInv
<1>2. PICK k \in Keys : record' = [record EXCEPT ![p] = Append(@, k)]
  BY DEF Decide
<1>3. UNCHANGED <<count, events, at, thread, udp, stopped, used>>
  BY DEF Decide
<1>4. \A q \in Players :
        /\ record'[q] \in Seq(Keys) /\ Len(record'[q]) >= Len(record[q])
        /\ \A i \in 1 .. Len(record[q]) : record'[q][i] = record[q][i]
  <2> SUFFICES ASSUME NEW q \in Players
               PROVE  /\ record'[q] \in Seq(Keys) /\ Len(record'[q]) >= Len(record[q])
                      /\ \A i \in 1 .. Len(record[q]) : record'[q][i] = record[q][i]
    OBVIOUS
  <2>1. record[q] \in Seq(Keys) /\ Len(record[q]) \in Nat
    BY <1>1 DEF RecordType
  <2>2. record'[q] = IF q = p THEN Append(record[q], k) ELSE record[q]
    BY <1>1, <1>2 DEF RecordType
  <2>3. QED
    BY <2>1, <2>2, AppendProperties
<1>5. RecordType'
  BY <1>1, <1>2, <1>4 DEF RecordType
<1>6. Lists'
  <2> SUFFICES ASSUME NEW c \in Clients, NEW q \in Players PROVE ListExact(c, q)'
    BY DEF Lists
  <2>1. HeldExact(events[c][q], count[c][q], record'[q])
    <3> SUFFICES ASSUME NEW i \in DOMAIN events[c][q]
                 PROVE  /\ events[c][q][i].count >= count[c][q]
                        /\ events[c][q][i].count < Len(record'[q])
                        /\ events[c][q][i].keys = record'[q][events[c][q][i].count + 1]
      BY DEF HeldExact
    <3> DEFINE m == events[c][q][i].count
    <3>1. /\ m >= count[c][q] /\ m < Len(record[q])
          /\ events[c][q][i].keys = record[q][m + 1]
      BY <1>1 DEF Lists, ListExact, HeldExact
    <3>2. events[c][q] \in Seq([count : Nat, keys : Keys])
      BY <1>1 DEF ListTypes
    <3>3. m \in Nat
      <4>1. i \in 1 .. Len(events[c][q])
        BY <3>2
      <4>2. events[c][q][i] \in [count : Nat, keys : Keys]
        BY <3>2, <4>1, ElementOfSeq
      <4>3. QED
        BY <4>2
    <3> HIDE DEF m
    <3>4. Len(record[q]) \in Nat /\ Len(record'[q]) \in Nat
      BY <1>1, <1>4 DEF RecordType
    <3>5. m + 1 \in 1 .. Len(record[q])
      BY <3>1, <3>3, <3>4
    <3>6. m < Len(record'[q]) /\ record'[q][m + 1] = record[q][m + 1]
      BY <1>4, <3>1, <3>3, <3>4, <3>5
    <3>7. QED
      BY <3>1, <3>6 DEF m
  <2>2. QED
    BY <1>1, <1>3, <2>1 DEF Lists, ListExact
<1>7. Threads' /\ ListTypes' /\ ThreadTypes'
  BY <1>1, <1>3 DEF Threads, Valid, CheckValid, ListTypes, ThreadTypes
<1>8. QED
  BY <1>5, <1>6, <1>7, TypesNext DEF NetInv

LEMMA NextKeeps == NetInv /\ [Next]_vars => NetInv'
<1>1. NetInv /\ UNCHANGED vars => NetInv'
  <2> SUFFICES ASSUME NetInv, UNCHANGED vars PROVE NetInv'
    OBVIOUS
  <2>1. TypeOK'
    BY DEF NetInv, TypeOK, vars
  <2>2. Lists'
    BY DEF NetInv, Lists, ListExact, vars
  <2>3. Threads'
    BY DEF NetInv, Threads, Valid, CheckValid, vars
  <2>4. QED
    BY <2>1, <2>2, <2>3 DEF NetInv
<1>2. QED
  BY <1>1, ReceiveKeeps, PollKeeps, EnsureKeeps, LeaveKeeps, JoinKeeps, RequestKeeps, DecideKeeps
     DEF Next, EmulationThread

-----------------------------------------------------------------------------
(* What the clients hold and how far they have come: every variable of     *)
(* every client has its type, whatever the network does.                   *)
THEOREM TypeCorrect == Spec => []TypeOK
BY InitNet, NextKeeps, PTL DEF Spec, NetInv

(* However often and in whatever order packets arrive, the list of a       *)
(* player holds each input once and none that was taken, so that its       *)
(* length counts the inputs that are received and not yet taken.           *)
THEOREM BufferAlwaysExact == Spec => []BufferExact
<1>1. NetInv => BufferExact
  BY DEF NetInv, Lists, ListExact, HeldExact, HeldOnce, BufferExact
<1>2. QED
  BY <1>1, InitNet, NextKeeps, PTL DEF Spec

-----------------------------------------------------------------------------
(* Netplay implements LockStep.                                            *)

LEMMA TakeFeeds ==
  ASSUME NetInv, NEW c \in Clients, NEW p \in Players, Valid(c, p), TakeInput(c, p),
         UNCHANGED record
  PROVE  Inputs!Feed(c, p)
<1> DEFINE i == Taken(c, p)  e == events[c][p][i]
<1>1. ListTypes /\ RecordType /\ Lists
  BY Types DEF NetInv
<1>2. i \in DOMAIN events[c][p] /\ e.count = count[c][p]
  <2>1. i \in 1 .. Len(events[c][p]) /\ e.count = count[c][p]
    BY <1>1, TakenIsNeeded
  <2>2. events[c][p] \in Seq([count : Nat, keys : Keys])
    BY <1>1 DEF ListTypes
  <2>3. QED
    BY <2>1, <2>2
<1>3. /\ e.count = Len(used[c][p]) /\ e.count < Len(record[p])
      /\ e.keys = record[p][e.count + 1]
  BY <1>1, <1>2 DEF Lists, ListExact, HeldExact
<1>4. used' = [used EXCEPT ![c][p] = Append(@, e.keys)]
  BY DEF TakeInput
<1> HIDE DEF e
<1>5. Len(used[c][p]) < Len(record[p]) /\ e.keys = record[p][Len(used[c][p]) + 1]
  BY <1>3
<1>6. QED
  BY <1>4, <1>5 DEF Inputs!Feed

(* Whatever packets are lost, repeated or late, and whenever the request   *)
(* thread gives up: every game is fed the inputs the server has decided,   *)
(* in their order and without a gap.                                       *)
THEOREM InputsInLockStep == Spec => InputsSpec
<1>1. Init => Inputs!Init
  BY DEF Init, Inputs!Init
<1>2. NetInv /\ [Next]_vars => [Inputs!Next]_(Inputs!vars)
  <2> SUFFICES ASSUME NetInv, [Next]_vars
               PROVE  Inputs!Next \/ UNCHANGED <<record, used>>
    BY DEF Inputs!vars
  <2>1. CASE \E c \in Clients : PollInput(c) \/ LeaveLoop(c) \/ RequestThread(c) \/ Receive(c)
    BY <2>1 DEF PollInput, LeaveLoop, RequestThread, CheckResponse, RequireResponse, Receive
  <2>2. ASSUME NEW c \in Clients, EnsureValid(c) \/ JoinThread(c)
        PROVE  Inputs!Next \/ UNCHANGED <<record, used>>
    <3> DEFINE p == at[c].player
    <3>1. p \in Players
      BY Types DEF NetInv, ThreadTypes
    <3>2. UNCHANGED record /\ ((TakeInput(c, p) /\ Valid(c, p)) \/ UNCHANGED used)
      BY <2>2 DEF EnsureValid, JoinThread, LoseConnection, NetInv, Threads
    <3>3. TakeInput(c, p) /\ Valid(c, p) => Inputs!Feed(c, p)
      BY <3>1, <3>2, TakeFeeds
    <3>4. QED
      BY <3>1, <3>2, <3>3 DEF Inputs!Next
  <2>3. CASE \E p \in Players : Decide(p)
    <3>1. PICK p \in Players : Decide(p)
      BY <2>3
    <3>2. \E k \in Keys : Inputs!Decide(p, k)
      BY <3>1 DEF Decide, Inputs!Decide
    <3>3. QED
      BY <3>2 DEF Inputs!Next
  <2>4. CASE UNCHANGED vars
    BY <2>4 DEF vars
  <2>5. QED
    BY <2>1, <2>2, <2>3, <2>4 DEF Next, EmulationThread
<1>3. QED
  BY <1>1, <1>2, InitNet, NextKeeps, PTL DEF Spec, InputsSpec, Inputs!Spec
=============================================================================
