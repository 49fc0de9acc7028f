---------------------------- MODULE MsgQueProofs ----------------------------
(***************************************************************************)
(* Proofs about MsgQue, for every number of threads, nodes and priorities    *)
(* and every capacity.                                                     *)
(***************************************************************************)
EXTENDS MsgQue, SequenceTheorems, FiniteSetTheorems, TLAPS

-----------------------------------------------------------------------------
(* Insertion and removal.                                                  *)

(* What Insert returns: a sequence one longer, with e at i.                  *)
LEMMA InsertProperties ==
    ASSUME NEW S, NEW s \in Seq(S), NEW i \in 1..(Len(s) + 1), NEW e \in S
    PROVE  /\ Insert(s, i, e) \in Seq(S)
           /\ Len(Insert(s, i, e)) = Len(s) + 1
           /\ \A j \in 1..(Len(s) + 1) :
                 Insert(s, i, e)[j] = IF j < i THEN s[j]
                                      ELSE IF j = i THEN e ELSE s[j - 1]
<1> DEFINE m == Len(s) + 1
           x(j) == IF j < i THEN s[j] ELSE IF j = i THEN e ELSE s[j - 1]
<1>1. Len(s) \in Nat /\ m \in Nat
  BY LenProperties
<1>2. \A j \in 1..m : x(j) \in S
  <2>1. ASSUME NEW j \in 1..m PROVE x(j) \in S
    <3>1. CASE j < i
      BY <1>1, <3>1, ElementOfSeq
    <3>2. CASE j = i
      BY <3>2
    <3>3. CASE j > i
      <4>1. j - 1 \in 1..Len(s)
        BY <1>1, <3>3
      <4>2. s[j - 1] \in S
        BY <4>1, ElementOfSeq
      <4>3. QED
        BY <1>1, <3>3, <4>2
    <3>4. QED
      BY <1>1, <3>1, <3>2, <3>3
  <2>2. QED
    BY <2>1
<1>3. Insert(s, i, e) = [j \in 1..m |-> x(j)]
  BY DEF Insert
<1>4. [j \in 1..m |-> x(j)] \in [1..m -> S]
  BY <1>2
<1>5. Insert(s, i, e) \in Seq(S)
  BY <1>1, <1>3, <1>4, SeqDef
<1>6. DOMAIN Insert(s, i, e) = 1..m
  BY DEF Insert
<1>7. Len(Insert(s, i, e)) = m
  BY <1>1, <1>5, <1>6, LenProperties
<1>8. \A j \in 1..m : Insert(s, i, e)[j] = x(j)
  BY DEF Insert
<1>9. QED
  BY <1>5, <1>7, <1>8

(* What is left when the first is taken.                                    *)
LEMMA TailProperties ==
    ASSUME NEW S, NEW s \in Seq(S), s # <<>>
    PROVE  /\ s[1] \in S
           /\ Tail(s) \in Seq(S)
           /\ Len(s) \in Nat \ {0}
           /\ Len(Tail(s)) = Len(s) - 1
           /\ \A j \in 1..(Len(s) - 1) : Tail(s)[j] = s[j + 1]
<1>1. Len(s) \in Nat \ {0}
  BY EmptySeq
<1>2. s[1] \in S
  BY <1>1, ElementOfSeq
<1>3. QED
  BY <1>1, <1>2, HeadTailProperties

(* What is left of a list whose end is cut off.                             *)
LEMMA PrefixProperties ==
    ASSUME NEW S, NEW s \in Seq(S), NEW n \in 0..Len(s)
    PROVE  /\ SubSeq(s, 1, n) \in Seq(S)
           /\ Len(SubSeq(s, 1, n)) = n
           /\ \A j \in 1..n : SubSeq(s, 1, n)[j] = s[j]
<1>1. Len(s) \in Nat
  BY LenProperties
<1>2. \A j \in 1..n : s[j] \in S
  BY <1>1, ElementOfSeq
<1>3. QED
  BY <1>1, <1>2, SubSeqProperties

-----------------------------------------------------------------------------
(* Type correctness.                                                       *)

LEMMA InitType == Init => TypeOK
<1> SUFFICES ASSUME Init PROVE TypeOK
  OBVIOUS
<1>1. queue \in Seq(Entry) /\ Len(queue) = 0
  BY EmptySeq DEF Init
<1>2. QED
  BY <1>1, ParamAssumption DEF Init, TypeOK, Call, Idle

(* Whatever link the new node gets, the list stays a list of distinct nodes. *)
LEMMA LinkType ==
    ASSUME TypeOK, NEW n \in Node \ Nodes, NEW p \in Prio, NEW at,
           Link(at, [node |-> n, prio |-> p])
    PROVE  /\ queue' \in Seq(Entry)
           /\ Len(queue') <= Len(queue) + 1
           /\ \A i, j \in 1..Len(queue') : queue'[i].node = queue'[j].node => i = j
<1> DEFINE e == [node |-> n, prio |-> p]
<1>1. queue \in Seq(Entry) /\ e \in Entry /\ Len(queue) \in Nat
  BY LenProperties DEF TypeOK, Entry
<1>2. CASE UNCHANGED queue
  BY <1>1, <1>2 DEF TypeOK
<1>3. ASSUME NEW i \in 1..(Len(queue) + 1), queue' = Insert(queue, i, e)
      PROVE  /\ queue' \in Seq(Entry)
             /\ Len(queue') <= Len(queue) + 1
             /\ \A k, j \in 1..Len(queue') : queue'[k].node = queue'[j].node => k = j
  <2>1. /\ queue' \in Seq(Entry)
        /\ Len(queue') = Len(queue) + 1
        /\ \A j \in 1..(Len(queue) + 1) :
              queue'[j] = IF j < i THEN queue[j]
                          ELSE IF j = i THEN e ELSE queue[j - 1]
    BY <1>1, <1>3, InsertProperties
  <2>2. \A j \in 1..Len(queue) : queue[j].node # n
    BY DEF Nodes
  <2>3. \A k, j \in 1..Len(queue) : queue[k].node = queue[j].node => k = j
    BY DEF TypeOK
  <2>4. ASSUME NEW k \in 1..(Len(queue) + 1), NEW j \in 1..(Len(queue) + 1),
               queue'[k].node = queue'[j].node, k < j
        PROVE  FALSE
    <3>1. CASE j < i
      <4>1. /\ queue'[j] = queue[j] /\ queue'[k] = queue[k]
            /\ k \in 1..Len(queue) /\ j \in 1..Len(queue) /\ k # j
        BY <1>1, <2>1, <2>4, <3>1
      <4>2. QED
        BY <2>3, <2>4, <4>1
    <3>2. CASE j = i
      <4>1. queue'[j].node = n /\ queue'[k] = queue[k] /\ k \in 1..Len(queue)
        BY <1>1, <2>1, <2>4, <3>2
      <4>2. QED
        BY <2>2, <2>4, <4>1
    <3>3. CASE j > i /\ k < i
      <4>1. /\ queue'[j] = queue[j - 1] /\ queue'[k] = queue[k]
            /\ k \in 1..Len(queue) /\ j - 1 \in 1..Len(queue) /\ k # j - 1
        BY <1>1, <2>1, <2>4, <3>3
      <4>2. QED
        BY <2>3, <2>4, <4>1
    <3>4. CASE j > i /\ k = i
      <4>1. queue'[k].node = n /\ queue'[j] = queue[j - 1] /\ j - 1 \in 1..Len(queue)
        BY <1>1, <2>1, <2>4, <3>4
      <4>2. QED
        BY <2>2, <2>4, <4>1
    <3>5. CASE j > i /\ k > i
      <4>1. /\ queue'[j] = queue[j - 1] /\ queue'[k] = queue[k - 1]
            /\ k - 1 \in 1..Len(queue) /\ j - 1 \in 1..Len(queue) /\ k - 1 # j - 1
        BY <1>1, <2>1, <2>4, <3>5
      <4>2. QED
        BY <2>3, <2>4, <4>1
    <3>6. QED
      BY <1>1, <3>1, <3>2, <3>3, <3>4, <3>5
  <2>5. ASSUME NEW k \in 1..(Len(queue) + 1), NEW j \in 1..(Len(queue) + 1),
               queue'[k].node = queue'[j].node
        PROVE  k = j
    <3>1. CASE k < j
      BY <2>4, <2>5, <3>1
    <3>2. CASE j < k
      BY <2>4, <2>5, <3>2
    <3>3. QED
      BY <1>1, <3>1, <3>2
  <2>6. QED
    BY <1>1, <2>1, <2>5
<1>4. QED
  BY <1>2, <1>3 DEF Link

(* So does the list when a receiver has taken from it.                      *)
LEMMA TakeType ==
    ASSUME TypeOK, NEW th \in Thread, NEW deque \in BOOLEAN, NEW tokens \in Nat,
           Take(th, deque, tokens)
    PROVE  /\ queue' \in Seq(Entry)
           /\ Len(queue') <= Len(queue)
           /\ \A i, j \in 1..Len(queue') : queue'[i].node = queue'[j].node => i = j
           /\ iter' \in [Prio -> Node \cup {End}]
           /\ count' \in Nat
           /\ got' \in [Thread -> Entry \cup {NoMessage, Garbage}]
<1>1. queue \in Seq(Entry) /\ Len(queue) \in Nat
  BY LenProperties DEF TypeOK
<1>2. queue # <<>> => queue[1] \in Entry
  BY <1>1, TailProperties
<1>3. got' \in [Thread -> Entry \cup {NoMessage, Garbage}]
  BY <1>2 DEF Take, TypeOK
<1>4. \A i \in Nat \ {0} : NodeAt(i) \in Node \cup {End}
  <2>1. ASSUME NEW i \in Nat \ {0}, i <= Len(queue)
        PROVE  queue[i].node \in Node
    <3>1. queue[i] \in Entry
      BY <1>1, <2>1, ElementOfSeq
    <3>2. QED
      BY <3>1 DEF Entry
  <2>2. QED
    BY <2>1 DEF NodeAt
<1>5. iter' \in [Prio -> Node \cup {End}]
  BY <1>4 DEF Take, FollowRemove, TypeOK
<1>6. count' \in Nat
  BY DEF Take
<1>7. CASE deque /\ queue # <<>>
  <2>1. /\ queue' \in Seq(Entry)
        /\ Len(queue) \in Nat \ {0}
        /\ Len(queue') = Len(queue) - 1
        /\ \A j \in 1..(Len(queue) - 1) : queue'[j] = queue[j + 1]
    BY <1>1, <1>7, TailProperties DEF Take
  <2>2. \A i, j \in 1..Len(queue) : queue[i].node = queue[j].node => i = j
    BY DEF TypeOK
  <2>3. ASSUME NEW i \in 1..Len(queue'), NEW j \in 1..Len(queue'),
               queue'[i].node = queue'[j].node
        PROVE  i = j
    <3>1. /\ i + 1 \in 1..Len(queue) /\ j + 1 \in 1..Len(queue)
          /\ queue[i + 1].node = queue[j + 1].node
      BY <2>1, <2>3
    <3>2. i + 1 = j + 1
      BY <2>2, <3>1
    <3>3. QED
      BY <2>1, <3>2
  <2>4. Len(queue') <= Len(queue)
    BY <2>1
  <2>5. queue' \in Seq(Entry)
    BY <2>1
  <2>6. QED
    BY <1>3, <1>5, <1>6, <2>3, <2>4, <2>5
<1>8. CASE ~(deque /\ queue # <<>>)
  <2>1. queue' = queue
    BY <1>8 DEF Take
  <2>2. QED
    BY <1>1, <1>3, <1>5, <1>6, <2>1 DEF TypeOK
<1>9. QED
  BY <1>7, <1>8

LEMMA NextType == TypeOK /\ [Next]_vars => TypeOK'
<1> SUFFICES ASSUME TypeOK, [Next]_vars PROVE TypeOK'
  OBVIOUS
<1>0. queue \in Seq(Entry) /\ Len(queue) \in Nat
  BY LenProperties DEF TypeOK
<1>1. ASSUME NEW n \in Node \ Nodes, NEW p \in Prio, SendMessage(n, p)
      PROVE  TypeOK'
  <2>1. /\ queue' \in Seq(Entry)
        /\ Len(queue') <= Len(queue) + 1
        /\ \A i, j \in 1..Len(queue') : queue'[i].node = queue'[j].node => i = j
    BY <1>1, LinkType DEF SendMessage
  <2>2. Len(queue') <= QueSize
    <3>1. Len(queue') \in Nat
      BY <2>1, LenProperties
    <3>2. Len(queue) < QueSize
      BY <1>1 DEF SendMessage
    <3>3. QED
      BY <1>0, <2>1, <3>1, <3>2, ParamAssumption
  <2>3. iter' \in [Prio -> Node \cup {End}]
    BY <1>1 DEF SendMessage, FollowInsert, TypeOK
  <2>4. QED
    BY <1>1, <2>1, <2>2, <2>3 DEF SendMessage, TypeOK
<1>2. ASSUME NEW th \in Thread, NEW deque \in BOOLEAN, Recv(th, deque)
      PROVE  TypeOK'
  <2>1. count - 1 \in Nat
    BY <1>2 DEF Recv, TypeOK
  <2>2. QED
    <3>1. /\ queue' \in Seq(Entry)
          /\ Len(queue') <= Len(queue)
          /\ \A i, j \in 1..Len(queue') : queue'[i].node = queue'[j].node => i = j
          /\ iter' \in [Prio -> Node \cup {End}]
          /\ count' \in Nat
          /\ got' \in [Thread -> Entry \cup {NoMessage, Garbage}]
      BY <1>2, <2>1, TakeType DEF Recv
    <3>2. Len(queue') <= QueSize
      <4>1. Len(queue') \in Nat
        BY <3>1, LenProperties
      <4>2. QED
        BY <1>0, <3>1, <4>1, ParamAssumption DEF TypeOK
    <3>3. QED
      BY <1>2, <3>1, <3>2 DEF Recv, TypeOK
<1>3. ASSUME NEW th \in Thread, NEW c \in Call, BeginWait(th, c)
      PROVE  TypeOK'
  BY <1>3 DEF BeginWait, TypeOK
<1>4. ASSUME NEW th \in Thread, Pend(th)
      PROVE  TypeOK'
  BY <1>4 DEF Pend, TypeOK
<1>5. ASSUME NEW th \in Thread, TimeOut(th)
      PROVE  TypeOK'
  BY <1>5 DEF TimeOut, TypeOK, Call, Idle
<1>6. ASSUME NEW th \in Thread, EndWait(th)
      PROVE  TypeOK'
  <2>1. call[th].deque \in BOOLEAN /\ count \in Nat
    BY DEF TypeOK, Call
  <2>2. /\ queue' \in Seq(Entry)
        /\ Len(queue') <= Len(queue)
        /\ \A i, j \in 1..Len(queue') : queue'[i].node = queue'[j].node => i = j
        /\ iter' \in [Prio -> Node \cup {End}]
        /\ count' \in Nat
        /\ got' \in [Thread -> Entry \cup {NoMessage, Garbage}]
    BY <1>6, <2>1, TakeType DEF EndWait
  <2>3. Len(queue') <= QueSize
    <3>1. Len(queue') \in Nat
      BY <2>2, LenProperties
    <3>2. QED
      BY <1>0, <2>2, <3>1, ParamAssumption DEF TypeOK
  <2>4. QED
    BY <1>6, <2>2, <2>3 DEF EndWait, TypeOK, Call, Idle
<1>7. CASE Clean
  <2> DEFINE n == IF count < Len(queue) THEN count ELSE Len(queue)
  <2>1. n \in 0..Len(queue) /\ n <= count /\ count \in Nat
    BY <1>0 DEF TypeOK
  <2>2. queue' = SubSeq(queue, 1, Len(queue) - n) /\ count' = count - n
    BY <1>7 DEF Clean
  <2>3. Len(queue) - n \in 0..Len(queue)
    BY <1>0, <2>1
  <2>4. /\ queue' \in Seq(Entry)
        /\ Len(queue') = Len(queue) - n
        /\ \A j \in 1..(Len(queue) - n) : queue'[j] = queue[j]
    BY <1>0, <2>2, <2>3, PrefixProperties
  <2>5. Len(queue') <= QueSize /\ count' \in Nat
    BY <1>0, <2>1, <2>2, <2>4, ParamAssumption DEF TypeOK
  <2>6. \A i, j \in 1..Len(queue') : queue'[i].node = queue'[j].node => i = j
    BY <1>0, <2>1, <2>4 DEF TypeOK
  <2>7. QED
    BY <1>7, <2>4, <2>5, <2>6 DEF Clean, TypeOK
<1>8. CASE UNCHANGED vars
  BY <1>8 DEF vars, TypeOK
<1>9. QED
  BY <1>1, <1>2, <1>3, <1>4, <1>5, <1>6, <1>7, <1>8 DEF Next

(* Every variable keeps its type, the queue its capacity, and no node is     *)
(* linked twice, whoever calls clean.                                      *)
THEOREM TypeCorrect == Spec => []TypeOK
<1>1. Init => TypeOK
  BY InitType
<1>2. TypeOK /\ [Next]_vars => TypeOK'
  BY NextType
<1>3. QED
  BY <1>1, <1>2, PTL DEF Spec
-----------------------------------------------------------------------------
(* The places of the iterators.                                            *)

(* What the list holds.                                                    *)
LEMMA EntryType ==
    ASSUME TypeOK
    PROVE  /\ queue \in Seq(Entry) /\ Len(queue) \in Nat
           /\ \A i \in 1..Len(queue) :
                 queue[i] \in Entry /\ queue[i].node \in Node /\ queue[i].prio \in Int
<1>1. queue \in Seq(Entry) /\ Len(queue) \in Nat
  BY LenProperties DEF TypeOK
<1>2. \A i \in 1..Len(queue) : queue[i] \in Entry
  BY <1>1, ElementOfSeq
<1>3. \A e \in Entry : e.node \in Node /\ e.prio \in Int
  BY ParamAssumption DEF Entry, Prio
<1>4. QED
  BY <1>1, <1>2, <1>3

(* Each place in the list, its end included, has a node of its own.          *)
LEMMA NodeAtInjective ==
    ASSUME TypeOK
    PROVE  \A i, j \in 1..(Len(queue) + 1) : NodeAt(i) = NodeAt(j) => i = j
<1>1. queue \in Seq(Entry) /\ Len(queue) \in Nat
  BY LenProperties DEF TypeOK
<1>2. \A i \in 1..Len(queue) : queue[i].node \in Node
  BY EntryType
<1>3. \A i, j \in 1..Len(queue) : queue[i].node = queue[j].node => i = j
  BY DEF TypeOK
<1>4. SUFFICES ASSUME NEW i \in 1..(Len(queue) + 1), NEW j \in 1..(Len(queue) + 1),
                      NodeAt(i) = NodeAt(j)
               PROVE  i = j
  OBVIOUS
<1>5. CASE i <= Len(queue) /\ j <= Len(queue)
  <2>1. queue[i].node = queue[j].node /\ i \in 1..Len(queue) /\ j \in 1..Len(queue)
    BY <1>1, <1>4, <1>5 DEF NodeAt
  <2>2. QED
    BY <1>3, <2>1
<1>6. CASE i <= Len(queue) /\ j = Len(queue) + 1
  <2>1. queue[i].node = End /\ i \in 1..Len(queue)
    BY <1>1, <1>4, <1>6 DEF NodeAt
  <2>2. QED
    BY <1>2, <2>1, NodeAssumption
<1>7. CASE i = Len(queue) + 1 /\ j <= Len(queue)
  <2>1. queue[j].node = End /\ j \in 1..Len(queue)
    BY <1>1, <1>4, <1>7 DEF NodeAt
  <2>2. QED
    BY <1>2, <2>1, NodeAssumption
<1>8. QED
  BY <1>1, <1>5, <1>6, <1>7

(* A higher priority has its place no later than a lower one.               *)
LEMMA PlacesDecrease ==
    ASSUME TypeOK, NEW p \in Prio, NEW q \in Prio, p <= q,
           NEW i \in 1..(Len(queue) + 1), NEW k \in 1..(Len(queue) + 1),
           InPlace(p, i), InPlace(q, k)
    PROVE  k <= i
<1>1. queue \in Seq(Entry) /\ Len(queue) \in Nat
  BY LenProperties DEF TypeOK
<1>2. SUFFICES ASSUME i < k PROVE FALSE
  BY <1>1
<1>3. i \in 1..Len(queue)
  BY <1>1, <1>2
<1>4. queue[i].prio >= q
  BY <1>2, <1>3 DEF InPlace
<1>5. queue[i].prio < p
  BY <1>1, <1>3 DEF InPlace
<1>6. queue[i].prio \in Int
  BY <1>3, EntryType
<1>7. QED
  BY <1>4, <1>5, <1>6, ParamAssumption DEF Prio

(* With its iterator in place, a message is linked where it belongs.         *)
LEMMA LinkPlace ==
    ASSUME TypeOK, IteratorsInPlace, NEW e \in Entry, NEW p \in Prio, Link(iter[p], e)
    PROVE  \E i \in 1..(Len(queue) + 1) :
              /\ InPlace(p, i)
              /\ queue' = Insert(queue, i, e)
              /\ queue' \in Seq(Entry)
              /\ Len(queue') = Len(queue) + 1
              /\ \A j \in 1..(Len(queue) + 1) :
                    queue'[j] = IF j < i THEN queue[j]
                                ELSE IF j = i THEN e ELSE queue[j - 1]
<1>1. PICK i \in 1..(Len(queue) + 1) : InPlace(p, i)
  BY DEF IteratorsInPlace
<1>2. queue \in Seq(Entry) /\ Len(queue) \in Nat
  BY LenProperties DEF TypeOK
<1>3. iter[p] = NodeAt(i)
  BY <1>1 DEF InPlace
<1>4. iter[p] \in Nodes \cup {End}
  BY <1>2, <1>3 DEF NodeAt, Nodes
<1>5. PICK k \in 1..(Len(queue) + 1) : NodeAt(k) = iter[p] /\ queue' = Insert(queue, k, e)
  BY <1>4 DEF Link
<1>6. k = i
  BY <1>3, <1>5, NodeAtInjective
<1>7. queue' = Insert(queue, i, e)
  BY <1>5, <1>6
<1>8. /\ Insert(queue, i, e) \in Seq(Entry)
      /\ Len(Insert(queue, i, e)) = Len(queue) + 1
      /\ \A j \in 1..(Len(queue) + 1) :
            Insert(queue, i, e)[j] = IF j < i THEN queue[j]
                                     ELSE IF j = i THEN e ELSE queue[j - 1]
  <2>1. i \in 1..(Len(queue) + 1) /\ e \in Entry /\ queue \in Seq(Entry)
    BY <1>2
  <2>2. QED
    BY ONLY <2>1, InsertProperties
<1>9. QED
  BY <1>1, <1>7, <1>8

(* sendMessage keeps every iterator in place.                               *)
LEMMA SendInPlace ==
    ASSUME TypeOK, IteratorsInPlace, NEW n \in Node \ Nodes, NEW p \in Prio,
           SendMessage(n, p)
    PROVE  IteratorsInPlace'
<1> DEFINE e == [node |-> n, prio |-> p]
<1>1. queue \in Seq(Entry) /\ Len(queue) \in Nat /\ e \in Entry
  BY LenProperties DEF TypeOK, Entry
<1>2. PICK i \in 1..(Len(queue) + 1) :
            /\ InPlace(p, i)
            /\ Len(queue') = Len(queue) + 1
            /\ \A j \in 1..(Len(queue) + 1) :
                  queue'[j] = IF j < i THEN queue[j]
                              ELSE IF j = i THEN e ELSE queue[j - 1]
  <2>1. Link(iter[p], e)
    BY DEF SendMessage
  <2>2. QED
    BY <1>1, <2>1, LinkPlace
<1>3. /\ Len(queue') = Len(queue) + 1
      /\ \A j \in 1..(Len(queue) + 1) :
            queue'[j] = IF j < i THEN queue[j] ELSE IF j = i THEN e ELSE queue[j - 1]
  BY <1>2
<1>4. Prio \subseteq Int
  BY ParamAssumption DEF Prio
<1>5. ASSUME NEW q \in Prio
      PROVE  \E k \in 1..(Len(queue') + 1) : InPlace(q, k)'
  <2>1. PICK k \in 1..(Len(queue) + 1) : InPlace(q, k)
    BY DEF IteratorsInPlace
  <2>2. \A j \in 1..Len(queue) : IF j < k THEN queue[j].prio >= q ELSE queue[j].prio < q
    BY <2>1 DEF InPlace
  <2>3. iter[q] = NodeAt(k)
    BY <2>1 DEF InPlace
  <2>4. iter[p] = NodeAt(i)
    BY <1>2 DEF InPlace
  <2>5. CASE q <= p
    <3>1. i <= k
      BY <1>2, <2>1, <2>5, PlacesDecrease
    <3>2. iter'[q] = iter[q]
      BY <1>4, <2>5 DEF SendMessage, FollowInsert
    <3>3. NodeAt(k + 1)' = NodeAt(k)
      BY <1>1, <1>3, <3>1 DEF NodeAt
    <3>4. ASSUME NEW j \in 1..Len(queue')
          PROVE  IF j < k + 1 THEN queue'[j].prio >= q ELSE queue'[j].prio < q
      <4>1. CASE j < i
        BY <1>1, <1>3, <2>2, <3>1, <4>1
      <4>2. CASE j = i
        BY <1>1, <1>3, <2>5, <3>1, <4>2
      <4>3. CASE j > i
        <5>1. queue'[j] = queue[j - 1] /\ j - 1 \in 1..Len(queue)
          BY <1>1, <1>3, <4>3
        <5>2. IF j - 1 < k THEN queue[j - 1].prio >= q ELSE queue[j - 1].prio < q
          BY <2>2, <5>1
        <5>3. QED
          BY <1>1, <5>1, <5>2
      <4>4. QED
        BY <1>1, <4>1, <4>2, <4>3
    <3>5. QED
      BY <1>1, <1>3, <2>3, <3>2, <3>3, <3>4 DEF InPlace
  <2>6. CASE q > p /\ k = i
    <3>1. ASSUME NEW j \in (p + 1)..q PROVE iter[j] = iter[p]
      <4>1. j \in Prio /\ p <= j /\ j <= q
        BY ParamAssumption DEF Prio
      <4>2. PICK m \in 1..(Len(queue) + 1) : InPlace(j, m)
        BY <4>1 DEF IteratorsInPlace
      <4>3. k <= m /\ m <= i
        BY <1>2, <2>1, <4>1, <4>2, PlacesDecrease
      <4>4. m = i
        BY <1>1, <2>6, <4>3
      <4>5. QED
        BY <2>4, <4>2, <4>4 DEF InPlace
    <3>2. iter'[q] = n
      BY <2>6, <3>1 DEF SendMessage, FollowInsert
    <3>3. NodeAt(i)' = n
      BY <1>1, <1>3 DEF NodeAt
    <3>4. ASSUME NEW j \in 1..Len(queue')
          PROVE  IF j < i THEN queue'[j].prio >= q ELSE queue'[j].prio < q
      <4>1. CASE j < i
        BY <1>1, <1>3, <2>2, <2>6, <4>1
      <4>2. CASE j = i
        BY <1>1, <1>3, <1>4, <2>6, <4>2
      <4>3. CASE j > i
        <5>1. queue'[j] = queue[j - 1] /\ j - 1 \in 1..Len(queue) /\ ~(j - 1 < k)
          BY <1>1, <1>3, <2>6, <4>3
        <5>2. QED
          BY <1>1, <2>2, <4>3, <5>1
      <4>4. QED
        BY <1>1, <4>1, <4>2, <4>3
    <3>5. iter'[q] = NodeAt(i)' /\ i \in 1..(Len(queue') + 1)
      BY <1>1, <1>3, <3>2, <3>3
    <3>6. QED
      BY <3>4, <3>5 DEF InPlace
  <2>7. CASE q > p /\ k # i
    <3>1. k < i
      <4>1. p <= q
        BY <1>4, <2>7
      <4>2. k <= i
        BY <1>2, <2>1, <4>1, PlacesDecrease
      <4>3. QED
        BY <1>1, <2>7, <4>2
    <3>2. iter'[q] = iter[q]
      <4>1. iter[q] # iter[p]
        BY <2>3, <2>4, <2>7, NodeAtInjective
      <4>2. q \in (p + 1)..q
        BY <1>4, <2>7
      <4>3. QED
        BY <4>1, <4>2 DEF SendMessage, FollowInsert
    <3>3. NodeAt(k)' = NodeAt(k)
      BY <1>1, <1>3, <3>1 DEF NodeAt
    <3>4. ASSUME NEW j \in 1..Len(queue')
          PROVE  IF j < k THEN queue'[j].prio >= q ELSE queue'[j].prio < q
      <4>1. CASE j < i
        BY <1>1, <1>3, <2>2, <4>1
      <4>2. CASE j = i
        BY <1>1, <1>3, <1>4, <2>7, <3>1, <4>2
      <4>3. CASE j > i
        <5>1. queue'[j] = queue[j - 1] /\ j - 1 \in 1..Len(queue) /\ ~(j - 1 < k)
          BY <1>1, <1>3, <3>1, <4>3
        <5>2. QED
          BY <1>1, <2>2, <3>1, <4>3, <5>1
      <4>4. QED
        BY <1>1, <4>1, <4>2, <4>3
    <3>5. QED
      BY <1>1, <1>3, <2>3, <3>2, <3>3, <3>4 DEF InPlace
  <2>8. QED
    BY <1>4, <2>5, <2>6, <2>7
<1>6. QED
  BY <1>5 DEF IteratorsInPlace

(* So does taking the first message.                                       *)
LEMMA TakeInPlace ==
    ASSUME TypeOK, IteratorsInPlace, queue # <<>>, NEW th \in Thread,
           NEW deque \in BOOLEAN, NEW tokens \in Nat, Take(th, deque, tokens)
    PROVE  IteratorsInPlace'
<1>1. CASE ~deque
  BY <1>1 DEF Take, IteratorsInPlace, InPlace, NodeAt
<1>2. CASE deque
  <2>1. /\ queue \in Seq(Entry) /\ Len(queue) \in Nat \ {0}
        /\ Len(queue') = Len(queue) - 1
        /\ \A j \in 1..(Len(queue) - 1) : queue'[j] = queue[j + 1]
    BY <1>2, TailProperties DEF Take, TypeOK
  <2>2. ASSUME NEW p \in Prio
        PROVE  \E k \in 1..(Len(queue') + 1) : InPlace(p, k)'
    <3>1. PICK i \in 1..(Len(queue) + 1) : InPlace(p, i)
      BY DEF IteratorsInPlace
    <3>2. \A j \in 1..Len(queue) : IF j < i THEN queue[j].prio >= p ELSE queue[j].prio < p
      BY <3>1 DEF InPlace
    <3>3. iter[p] = NodeAt(i)
      BY <3>1 DEF InPlace
    <3>4. CASE i = 1
      <4>1. ASSUME NEW q \in p..(PrioLevel - 1) PROVE iter[q] = NodeAt(1)
        <5>1. q \in Prio /\ p <= q
          BY ParamAssumption DEF Prio
        <5>2. PICK k \in 1..(Len(queue) + 1) : InPlace(q, k)
          BY <5>1 DEF IteratorsInPlace
        <5>3. k <= i
          BY <3>1, <5>1, <5>2, PlacesDecrease
        <5>4. k = 1
          BY <2>1, <3>4, <5>3
        <5>5. QED
          BY <5>2, <5>4 DEF InPlace
      <4>2. iter'[p] = NodeAt(2)
        BY <1>2, <4>1 DEF Take, FollowRemove
      <4>3. NodeAt(1)' = NodeAt(2)
        BY <2>1 DEF NodeAt
      <4>4. \A j \in 1..Len(queue') :
               IF j < 1 THEN queue'[j].prio >= p ELSE queue'[j].prio < p
        BY <2>1, <3>2, <3>4
      <4>5. QED
        BY <2>1, <4>2, <4>3, <4>4 DEF InPlace
    <3>5. CASE i > 1
      <4>1. iter[p] # NodeAt(1)
        <5>1. 1 \in 1..(Len(queue) + 1) /\ i # 1
          BY <2>1, <3>5
        <5>2. QED
          BY <3>3, <5>1, NodeAtInjective
      <4>2. iter'[p] = iter[p]
        <5>1. p \in p..(PrioLevel - 1)
          BY ParamAssumption DEF Prio
        <5>2. QED
          BY <1>2, <4>1, <5>1 DEF Take, FollowRemove
      <4>3. NodeAt(i - 1)' = NodeAt(i)
        BY <2>1, <3>5 DEF NodeAt
      <4>4. \A j \in 1..Len(queue') :
               IF j < i - 1 THEN queue'[j].prio >= p ELSE queue'[j].prio < p
        BY <2>1, <3>2, <3>5
      <4>5. QED
        BY <2>1, <3>3, <3>5, <4>2, <4>3, <4>4 DEF InPlace
    <3>6. QED
      BY <2>1, <3>4, <3>5
  <2>3. QED
    BY <2>2 DEF IteratorsInPlace
<1>3. QED
  BY <1>1, <1>2

(* With a single priority its iterator always stands at the end.            *)
LEMMA OnePriorityAtEnd ==
    ASSUME TypeOK, IteratorsInPlace, PrioLevel = 1
    PROVE  AtEnd
<1>1. /\ Len(queue) \in Nat
      /\ \A j \in 1..Len(queue) : queue[j] \in Entry /\ queue[j].prio \in Int
  BY EntryType
<1>2. Prio = {0}
  BY DEF Prio
<1>3. \A e \in Entry : e.prio = 0
  BY <1>2 DEF Entry
<1>4. PICK i \in 1..(Len(queue) + 1) : InPlace(0, i)
  BY <1>2 DEF IteratorsInPlace
<1>5. i = Len(queue) + 1
  <2>1. SUFFICES ASSUME i \in 1..Len(queue) PROVE FALSE
    BY <1>1
  <2>2. queue[i].prio < 0
    BY <1>1, <1>4, <2>1 DEF InPlace
  <2>3. QED
    BY <1>1, <1>3, <2>1, <2>2
<1>6. iter[0] = End
  BY <1>1, <1>4, <1>5 DEF InPlace, NodeAt
<1>7. QED
  BY <1>2, <1>6 DEF AtEnd

(* Where the iterators are at the end, cleaning leaves them there.          *)
LEMMA CleanInPlace ==
    ASSUME TypeOK, IteratorsInPlace, AtEnd, Clean
    PROVE  IteratorsInPlace'
<1> DEFINE n == IF count < Len(queue) THEN count ELSE Len(queue)
<1>1. /\ queue \in Seq(Entry) /\ Len(queue) \in Nat
      /\ \A j \in 1..Len(queue) : queue[j] \in Entry /\ queue[j].prio \in Int
  BY EntryType
<1>2. n \in 0..Len(queue) /\ Len(queue) - n \in 0..Len(queue)
  BY <1>1 DEF TypeOK
<1>3. queue' = SubSeq(queue, 1, Len(queue) - n)
  BY DEF Clean
<1>4. /\ queue' \in Seq(Entry)
      /\ Len(queue') = Len(queue) - n
      /\ \A j \in 1..(Len(queue) - n) : queue'[j] = queue[j]
  BY <1>1, <1>2, <1>3, PrefixProperties
<1>5. iter' = iter
  BY DEF Clean
<1> HIDE DEF n
<1>6. PICK m \in 1..(Len(queue') + 1) : m = Len(queue') + 1
  <2>1. Len(queue') \in Nat
    BY <1>4, LenProperties
  <2>2. Len(queue') + 1 \in 1..(Len(queue') + 1)
    BY <2>1
  <2>3. QED
    BY <2>2
<1>7. NodeAt(m)' = End
  BY <1>1, <1>2, <1>4, <1>6 DEF NodeAt
<1>8. ASSUME NEW p \in Prio
      PROVE  InPlace(p, m)'
  <2>1. PICK i \in 1..(Len(queue) + 1) : InPlace(p, i)
    BY <1>8 DEF IteratorsInPlace
  <2>2. i = Len(queue) + 1
    <3>1. SUFFICES ASSUME i \in 1..Len(queue) PROVE FALSE
      BY <1>1
    <3>2. NodeAt(i) \in Node
      BY <1>1, <3>1 DEF NodeAt, Entry
    <3>3. NodeAt(i) = End
      BY <1>8, <2>1 DEF InPlace, AtEnd
    <3>4. QED
      BY <3>2, <3>3, NodeAssumption
  <2>3. \A j \in 1..Len(queue) : queue[j].prio >= p
    BY <1>1, <2>1, <2>2 DEF InPlace
  <2>4. ASSUME NEW j \in 1..Len(queue')
        PROVE  IF j < m THEN queue'[j].prio >= p ELSE queue'[j].prio < p
    <3>1. j \in 1..Len(queue) /\ queue'[j] = queue[j] /\ j < m
      BY <1>1, <1>2, <1>4, <1>6
    <3>2. QED
      BY <2>3, <3>1
  <2>5. iter'[p] = End
    BY <1>5, <1>8 DEF AtEnd
  <2>6. QED
    BY <1>7, <2>4, <2>5 DEF InPlace
<1>9. QED
  BY <1>6, <1>8 DEF IteratorsInPlace

-----------------------------------------------------------------------------
(* The inductive invariant.                                                *)

IInv == TypeOK /\ TokenPerMessage /\ IteratorsInPlace

(* The threads with a token are finitely many; one more, or one less.        *)
LEMMA HoldersCount ==
    ASSUME TypeOK
    PROVE  /\ IsFiniteSet(Holders) /\ Cardinality(Holders) \in Nat
           /\ \A th \in Thread :
                 /\ Cardinality(Holders \cup {th}) =
                       IF th \in Holders THEN Cardinality(Holders)
                                        ELSE Cardinality(Holders) + 1
                 /\ Cardinality(Holders \ {th}) =
                       IF th \in Holders THEN Cardinality(Holders) - 1
                                        ELSE Cardinality(Holders)
                 /\ th \in Holders => Cardinality(Holders) > 0
<1>1. Holders \subseteq Thread
  BY DEF Holders
<1>2. IsFiniteSet(Holders)
  BY <1>1, ThreadAssumption, FS_Subset
<1>3. Cardinality(Holders) \in Nat
  BY <1>2, FS_CardinalityType
<1>4. ASSUME NEW th \in Thread
      PROVE  /\ Cardinality(Holders \cup {th}) =
                   IF th \in Holders THEN Cardinality(Holders)
                                    ELSE Cardinality(Holders) + 1
             /\ Cardinality(Holders \ {th}) =
                   IF th \in Holders THEN Cardinality(Holders) - 1
                                    ELSE Cardinality(Holders)
             /\ th \in Holders => Cardinality(Holders) > 0
  <2>1. Cardinality(Holders \cup {th}) =
           IF th \in Holders THEN Cardinality(Holders) ELSE Cardinality(Holders) + 1
    BY <1>2, FS_AddElement
  <2>2. /\ IsFiniteSet(Holders \ {th})
        /\ Cardinality(Holders \ {th}) =
              IF th \in Holders THEN Cardinality(Holders) - 1 ELSE Cardinality(Holders)
    BY <1>2, FS_RemoveElement
  <2>3. Cardinality(Holders \ {th}) \in Nat
    BY <2>2, FS_CardinalityType
  <2>4. QED
    BY <1>3, <2>1, <2>2, <2>3
<1>5. QED
  BY <1>2, <1>3, <1>4

(* Whoever has a token finds a message.                                     *)
LEMMA TokenFindsMessage ==
    ASSUME TypeOK, TokenPerMessage, NEW th \in Thread,
           count > 0 \/ pc[th] = "token"
    PROVE  queue # <<>> /\ Len(queue) > 0
<1>1. Cardinality(Holders) \in Nat /\ (th \in Holders => Cardinality(Holders) > 0)
  BY HoldersCount
<1>2. count \in Nat
  BY DEF TypeOK
<1>3. Len(queue) > 0
  BY <1>1, <1>2 DEF TokenPerMessage, Holders
<1>4. QED
  BY <1>3, EmptySeq

LEMMA InitInv == Init => IInv
<1> SUFFICES ASSUME Init PROVE IInv
  OBVIOUS
<1>1. TypeOK
  BY InitType
<1>2. Len(queue) = 0
  BY EmptySeq DEF Init
<1>3. TokenPerMessage
  <2>1. Holders = {}
    BY DEF Init, Holders
  <2>2. Cardinality(Holders) = 0
    BY <2>1, FS_EmptySet
  <2>3. QED
    BY <1>2, <2>2 DEF TokenPerMessage, Init
<1>4. IteratorsInPlace
  <2>1. ASSUME NEW p \in Prio PROVE InPlace(p, 1)
    BY <1>2 DEF InPlace, NodeAt, Init
  <2>2. 1 \in 1..(Len(queue) + 1)
    BY <1>2
  <2>3. QED
    BY <2>1, <2>2 DEF IteratorsInPlace
<1>5. QED
  BY <1>1, <1>3, <1>4 DEF IInv

(* What taking a message does to the length of the list and the tokens.      *)
LEMMA TakeCounts ==
    ASSUME TypeOK, queue # <<>>, NEW th \in Thread, NEW deque \in BOOLEAN,
           NEW tokens \in Nat, Take(th, deque, tokens)
    PROVE  Len(queue') - count' = Len(queue) - 1 - tokens
<1>1. queue \in Seq(Entry)
  BY DEF TypeOK
<1>2. Len(queue) \in Nat /\ (deque => Len(queue') = Len(queue) - 1)
  BY <1>1, TailProperties DEF Take
<1>3. CASE deque
  BY <1>2, <1>3 DEF Take
<1>4. CASE ~deque
  <2>1. queue' = queue /\ count' = tokens + 1
    BY <1>4 DEF Take
  <2>2. QED
    BY <1>2, <2>1
<1>5. QED
  BY <1>3, <1>4

LEMMA NextInv ==
    IInv /\ [Next]_vars => IInv'
<1> SUFFICES ASSUME IInv, [Next]_vars PROVE IInv'
  OBVIOUS
<1>1. TypeOK /\ TypeOK' /\ TokenPerMessage /\ IteratorsInPlace
  BY NextType DEF IInv
<1>2. /\ IsFiniteSet(Holders) /\ Cardinality(Holders) \in Nat
      /\ count \in Nat /\ Len(queue) \in Nat /\ queue \in Seq(Entry)
  BY <1>1, HoldersCount, EntryType DEF TypeOK
<1>3. ASSUME NEW n \in Node \ Nodes, NEW p \in Prio, SendMessage(n, p)
      PROVE  TokenPerMessage' /\ IteratorsInPlace'
  <2>1. Holders' = Holders
    BY <1>3 DEF SendMessage, Holders
  <2>2. Len(queue') = Len(queue) + 1
    <3>1. [node |-> n, prio |-> p] \in Entry
      BY DEF Entry
    <3>2. Link(iter[p], [node |-> n, prio |-> p])
      BY <1>3 DEF SendMessage
    <3>3. QED
      BY <1>1, <3>1, <3>2, LinkPlace
  <2>3. count' = count + 1
    BY <1>3 DEF SendMessage
  <2>4. TokenPerMessage'
    BY <1>1, <1>2, <2>1, <2>2, <2>3 DEF TokenPerMessage
  <2>5. QED
    BY <1>1, <1>3, <2>4, SendInPlace
<1>4. ASSUME NEW th \in Thread, NEW deque \in BOOLEAN, Recv(th, deque)
      PROVE  TokenPerMessage' /\ IteratorsInPlace'
  <2>1. queue # <<>> /\ count - 1 \in Nat /\ Take(th, deque, count - 1)
    BY <1>1, <1>2, <1>4, TokenFindsMessage DEF Recv
  <2>2. Holders' = Holders
    BY <1>4 DEF Recv, Holders
  <2>3. Len(queue') - count' = Len(queue) - 1 - (count - 1)
    BY <1>1, <2>1, TakeCounts
  <2>4. Len(queue') \in Nat /\ count' \in Nat
    BY <1>1, LenProperties DEF TypeOK
  <2>5. TokenPerMessage'
    BY <1>1, <1>2, <2>2, <2>3, <2>4 DEF TokenPerMessage
  <2>6. QED
    BY <1>1, <2>1, <2>5, TakeInPlace
<1>5. ASSUME NEW th \in Thread, NEW c \in Call, BeginWait(th, c)
      PROVE  TokenPerMessage' /\ IteratorsInPlace'
  <2>1. Holders' = Holders
    BY <1>5 DEF BeginWait, Holders
  <2>2. UNCHANGED <<queue, iter, count>>
    BY <1>5 DEF BeginWait
  <2>3. QED
    BY <1>1, <2>1, <2>2 DEF TokenPerMessage, IteratorsInPlace, InPlace, NodeAt
<1>6. ASSUME NEW th \in Thread, Pend(th)
      PROVE  TokenPerMessage' /\ IteratorsInPlace'
  <2>1. Holders' = Holders \cup {th} /\ th \notin Holders
    BY <1>1, <1>6 DEF Pend, Holders, TypeOK
  <2>2. Cardinality(Holders') = Cardinality(Holders) + 1
    BY <1>1, <2>1, HoldersCount
  <2>3. UNCHANGED <<queue, iter>> /\ count' = count - 1
    BY <1>6 DEF Pend
  <2>4. TokenPerMessage'
    BY <1>1, <1>2, <2>2, <2>3 DEF TokenPerMessage
  <2>5. QED
    BY <1>1, <2>3, <2>4 DEF IteratorsInPlace, InPlace, NodeAt
<1>7. ASSUME NEW th \in Thread, TimeOut(th)
      PROVE  TokenPerMessage' /\ IteratorsInPlace'
  <2>1. Holders' = Holders
    BY <1>1, <1>7 DEF TimeOut, Holders, TypeOK
  <2>2. UNCHANGED <<queue, iter, count>>
    BY <1>7 DEF TimeOut
  <2>3. QED
    BY <1>1, <2>1, <2>2 DEF TokenPerMessage, IteratorsInPlace, InPlace, NodeAt
<1>8. ASSUME NEW th \in Thread, EndWait(th)
      PROVE  TokenPerMessage' /\ IteratorsInPlace'
  <2>1. queue # <<>> /\ Take(th, call[th].deque, count) /\ call[th].deque \in BOOLEAN
    BY <1>1, <1>8, TokenFindsMessage DEF EndWait, TypeOK, Call
  <2>2. Holders' = Holders \ {th} /\ th \in Holders
    BY <1>1, <1>8 DEF EndWait, Holders, TypeOK
  <2>3. Cardinality(Holders') = Cardinality(Holders) - 1
    BY <1>1, <2>2, HoldersCount
  <2>4. Len(queue') - count' = Len(queue) - 1 - count
    BY <1>1, <1>2, <2>1, TakeCounts
  <2>5. Len(queue') \in Nat /\ count' \in Nat
    BY <1>1, LenProperties DEF TypeOK
  <2>6. TokenPerMessage'
    BY <1>1, <1>2, <2>3, <2>4, <2>5 DEF TokenPerMessage
  <2>7. QED
    BY <1>1, <1>2, <2>1, <2>6, TakeInPlace
<1>9. ASSUME AtEnd, Clean
      PROVE  TokenPerMessage' /\ IteratorsInPlace'
  <2> DEFINE n == IF count < Len(queue) THEN count ELSE Len(queue)
  <2>1. AtEnd
    BY <1>9
  <2>2. Holders' = Holders
    BY <1>9 DEF Clean, Holders
  <2>3. Len(queue) - n \in 0..Len(queue) /\ n \in Nat
    BY <1>2
  <2>4. queue' = SubSeq(queue, 1, Len(queue) - n) /\ count' = count - n
    BY <1>9 DEF Clean
  <2> HIDE DEF n
  <2>5. Len(queue') = Len(queue) - n
    BY <1>2, <2>3, <2>4, PrefixProperties
  <2>6. TokenPerMessage'
    BY <1>1, <1>2, <2>2, <2>3, <2>4, <2>5 DEF TokenPerMessage
  <2>7. QED
    BY <1>1, <1>9, <2>1, <2>6, CleanInPlace
<1>10. ASSUME UNCHANGED vars
       PROVE  TokenPerMessage' /\ IteratorsInPlace'
  BY <1>1, <1>10 DEF vars, TokenPerMessage, Holders, IteratorsInPlace, InPlace, NodeAt
<1>11. TokenPerMessage' /\ IteratorsInPlace'
  BY <1>3, <1>4, <1>5, <1>6, <1>7, <1>8, <1>9, <1>10 DEF Next
<1>12. QED
  BY <1>1, <1>11 DEF IInv

LEMMA Invariance == Spec => []IInv
<1>1. Init => IInv
  BY InitInv
<1>2. IInv /\ [Next]_vars => IInv'
  BY NextInv
<1>3. QED
  BY <1>1, <1>2, PTL DEF Spec

(* Every message has its token: recvMessage never calls front() on an empty  *)
(* list, and never misses a message.                                       *)
THEOREM TokenPerMessageHolds == Spec => []TokenPerMessage
<1>1. IInv => TokenPerMessage
  BY DEF IInv
<1>2. Spec => []IInv
  BY Invariance
<1>3. QED
  BY <1>1, <1>2, PTL

(* Every iterator points to where the next message of its priority belongs, *)
(* provided clean is only called while none points to a message.            *)
THEOREM IteratorsInPlaceHolds == Spec => []IteratorsInPlace
<1>1. IInv => IteratorsInPlace
  BY DEF IInv
<1>2. Spec => []IInv
  BY Invariance
<1>3. QED
  BY <1>1, <1>2, PTL

(* No message stands behind one of a lower priority.                        *)
THEOREM PriorityOrderHolds == Spec => []PriorityOrder
<1>1. IInv => PriorityOrder
  <2> SUFFICES ASSUME IInv, NEW i \in 1..Len(queue), NEW j \in 1..Len(queue), i < j
               PROVE  queue[i].prio >= queue[j].prio
    BY DEF PriorityOrder
  <2>1. TypeOK /\ IteratorsInPlace
    BY DEF IInv
  <2>2. Len(queue) \in Nat /\ queue[j] \in Entry /\ queue[j].prio \in Int
    BY <2>1, EntryType
  <2>3. queue[j].prio \in Prio
    BY <2>2 DEF Entry
  <2>4. PICK k \in 1..(Len(queue) + 1) : InPlace(queue[j].prio, k)
    BY <2>1, <2>3 DEF IteratorsInPlace
  <2>5. j < k
    BY <2>2, <2>4 DEF InPlace
  <2>6. i < k
    BY <2>2, <2>5
  <2>7. QED
    BY <2>4, <2>6 DEF InPlace
<1>2. Spec => []IInv
  BY Invariance
<1>3. QED
  BY <1>1, <1>2, PTL

-----------------------------------------------------------------------------
(* The refinement.                                                         *)

(* Every step is a step of the abstract queue, or changes nothing it sees.   *)
LEMMA StepRefines ==
    IInv /\ [Next]_vars => [P!QNext]_(P!qvars)
<1> SUFFICES ASSUME IInv, [Next]_vars PROVE [P!QNext]_(P!qvars)
  OBVIOUS
<1>1. TypeOK /\ TokenPerMessage /\ IteratorsInPlace
  BY DEF IInv
<1>2. queue \in Seq(Entry) /\ Len(queue) \in Nat /\ count \in Nat
  BY <1>1, EntryType DEF TypeOK
<1>3. ASSUME NEW n \in Node \ Nodes, NEW p \in Prio, SendMessage(n, p)
      PROVE  P!QNext
  <2> DEFINE e == [node |-> n, prio |-> p]
  <2>1. e \in Entry /\ e.prio = p
    BY DEF Entry
  <2>2. Link(iter[p], e)
    BY <1>3 DEF SendMessage
  <2>3. PICK i \in 1..(Len(queue) + 1) : InPlace(p, i) /\ queue' = Insert(queue, i, e)
    BY <1>1, <2>1, <2>2, LinkPlace
  <2>4. /\ \A j \in 1..(i - 1) : queue[j].prio >= e.prio
        /\ \A j \in i..Len(queue) : queue[j].prio < e.prio
    BY <1>2, <2>3 DEF InPlace
  <2>5. queue' = P!Insert(queue, i, e)
    BY <2>3 DEF Insert, P!Insert
  <2>6. Len(queue) < QueSize /\ UNCHANGED got
    BY <1>3 DEF SendMessage
  <2>7. P!Send(e)
    BY <2>4, <2>5, <2>6 DEF P!Send
  <2>8. e \in P!Entry
    BY <2>1 DEF Entry, Prio, P!Entry, P!Prio
  <2>9. QED
    BY <2>7, <2>8 DEF P!QNext
<1>4. ASSUME NEW th \in Thread, NEW deque \in BOOLEAN, NEW tokens,
             queue # <<>>, Take(th, deque, tokens)
      PROVE  P!QNext
  <2>1. CASE deque
    BY <1>4, <2>1 DEF Take, P!Recv, P!QNext
  <2>2. CASE ~deque
    BY <1>4, <2>2 DEF Take, P!Show, P!QNext
  <2>3. QED
    BY <2>1, <2>2
<1>5. ASSUME NEW th \in Thread, NEW deque \in BOOLEAN, Recv(th, deque)
      PROVE  P!QNext
  BY <1>1, <1>4, <1>5, TokenFindsMessage DEF Recv
<1>6. ASSUME NEW th \in Thread, EndWait(th)
      PROVE  P!QNext
  <2>1. call[th].deque \in BOOLEAN
    BY <1>1 DEF TypeOK, Call
  <2>2. queue # <<>>
    BY <1>1, <1>6, TokenFindsMessage DEF EndWait
  <2>3. QED
    BY <1>4, <1>6, <2>1, <2>2 DEF EndWait
<1>7. CASE Clean
  <2> DEFINE n == IF count < Len(queue) THEN count ELSE Len(queue)
  <2>1. Len(queue) - n \in 0..Len(queue)
    BY <1>2
  <2>2. queue' = SubSeq(queue, 1, Len(queue) - n) /\ UNCHANGED got
    BY <1>7 DEF Clean
  <2>3. QED
    BY <2>1, <2>2 DEF P!Clean, P!QNext
<1>8. ASSUME NEW th \in Thread,
             (\E c \in Call : BeginWait(th, c)) \/ Pend(th) \/ TimeOut(th)
      PROVE  UNCHANGED P!qvars
  BY <1>8 DEF BeginWait, Pend, TimeOut, P!qvars
<1>9. CASE UNCHANGED vars
  BY <1>9 DEF vars, P!qvars
<1>10. QED
  BY <1>3, <1>5, <1>6, <1>7, <1>8, <1>9 DEF Next

(* TMsgQue is a priority queue: it hands messages out by priority and age,    *)
(* each once.                                                              *)
THEOREM Refinement == Spec => IsPrioQueue
<1>1. Init => P!QInit
  BY DEF Init, P!QInit
<1>2. IInv /\ [Next]_vars => [P!QNext]_(P!qvars)
  BY StepRefines
<1>3. Spec => []IInv
  BY Invariance
<1>4. QED
  BY <1>1, <1>2, <1>3, PTL DEF Spec, IsPrioQueue, P!QSpec

=============================================================================
