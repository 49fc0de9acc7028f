--------------------------- MODULE PointStoreProofs ---------------------------
(***************************************************************************)
(* Proofs about PointStore, for every number of threads, tables and points,  *)
(* and whatever the plugins ask for.                                        *)
(***************************************************************************)
EXTENDS PointStore, SequenceTheorems, WellFoundedInduction, TLAPS

PcSet   == {"idle", "ready", "index", "block", "trans", "formula", "done"}
CallSet == PointCall \cup TransCall \cup ExprCall \cup {NoCall}
Read    == Stored \cup {Missing}

(* What a thread is at each place of a call, seen from its own variables.    *)
Good(p, c, n, g) ==
    /\ p \in PcSet /\ c \in CallSet /\ n \in Nat /\ g \in Seq(Entry)
    /\ p = "idle" <=> c = NoCall
    /\ p \in {"ready", "index", "block"} =>
          c \in PointCall /\ (c.op = "update" => Len(c.data) = 1)
    /\ p \in {"idle", "ready", "index"} => n = 0 /\ g = <<>>
    /\ p = "block" =>
          /\ c.op \in Multi /\ InRange(c) /\ n \in 0..MinSize(c)
          /\ c.op = "updateMulti" => g = <<>>
    /\ p = "trans" => c \in TransCall /\ n <= c.num
    /\ p = "formula" =>
          /\ c \in TransCall \cup ExprCall
          /\ g # <<>> /\ Len(g[Len(g)].vals) < Len(c.formula)
          /\ c \in TransCall => n < c.num

GoodAt(th) == Good(pc[th], call[th], k[th], got[th])

Shape ==
    /\ lock \in Thread \cup {NoThread}
    /\ DOMAIN value = Table
    /\ \A t \in Table : value[t] \in [Points(t) -> Stored]
    /\ pc \in [Thread -> PcSet] /\ call \in [Thread -> CallSet]
    /\ k \in [Thread -> Nat] /\ got \in [Thread -> Seq(Entry)]

LockOK == \A th \in Thread : lock = th <=> pc[th] \in {"index", "block"}

IInv == Shape /\ LockOK /\ \A th \in Thread : GoodAt(th)
-----------------------------------------------------------------------------
(* The data.                                                               *)

(* A set of naturals that is not empty has a least element.                 *)
LEMMA LeastNatural ==
    ASSUME NEW S, S \subseteq Nat, S # {}
    PROVE  \E i \in S : \A j \in S : i <= j
<1> DEFINE R == OpToRel(<, Nat)
<1>1. IsWellFoundedOn(R, Nat)
  BY NatLessThanWellFounded
<1>2. PICK i \in S : \A j \in S : ~(<<j, i>> \in R)
  BY <1>1, WFMin
<1>3. ASSUME NEW j \in S PROVE i <= j
  <2>1. <<j, i>> \notin R
    BY <1>2
  <2>2. ~(j < i)
    BY <2>1 DEF OpToRel
  <2>3. QED
    BY <2>2
<1>4. QED
  BY <1>3

(* getIndex finds a point of the table, or -1.                              *)
LEMMA IndexFound ==
    ASSUME NEW t \in Table, NEW c
    PROVE  Index(t, c) \in Points(t) \cup {-1}
<1> DEFINE S == {i \in Points(t) : Field[t][i + 1] = c}
<1>1. CASE S = {}
  BY <1>1 DEF Index
<1>2. CASE S # {}
  <2>1. S \subseteq Nat
    BY TableAssumption DEF Points
  <2>2. PICK i \in S : \A j \in S : i <= j
    BY <1>2, <2>1, LeastNatural
  <2>3. i \in Points(t) /\ Field[t][i + 1] = c
    BY <2>2
  <2>4. \A j \in 0..(i - 1) : Field[t][j + 1] # c
    <3>1. Size[t] \in Nat /\ i \in 0..(Size[t] - 1)
      BY <2>3, TableAssumption DEF Points
    <3>2. ASSUME NEW j \in 0..(i - 1) PROVE j \in Points(t) /\ ~(i <= j)
      BY <3>1 DEF Points
    <3>3. QED
      BY <2>2, <3>2
  <2>5. QED
    BY <2>3, <2>4 DEF Index
<1>3. QED
  BY <1>1, <1>2

(* The calls the plugins make are typed.                                    *)
LEMMA RequestType ==
    ASSUME NEW op \in One \cup Multi, NEW t \in Table, NEW id \in Int,
           NEW d \in Data(op), NEW n \in Nums(op)
    PROVE  /\ Request(op, t, id, d, n) \in PointCall
           /\ Request(op, t, id, d, n).op = "update" =>
                 Len(Request(op, t, id, d, n).data) = 1
<1>1. d \in Seq(Value)
  <2>1. CASE op = "update"
    <3>1. PICK v \in Value : d = <<v>>
      BY <2>1 DEF Data
    <3>2. QED
      BY <3>1
  <2>2. CASE op = "updateMulti"
    <3>1. Data(op) = Block
      BY <2>2 DEF Data
    <3>2. QED
      BY <3>1, CallAssumption
  <2>3. CASE op \notin {"update", "updateMulti"}
    <3>1. Data(op) = {<<>>}
      BY <2>3 DEF Data
    <3>2. QED
      BY <3>1, EmptySeq
  <2>4. QED
    BY <2>1, <2>2, <2>3
<1>2. n \in Nat
  BY CallAssumption DEF Nums
<1>3. op = "update" => Len(d) = 1
  BY DEF Data
<1>4. QED
  BY <1>1, <1>2, <1>3 DEF Request, PointCall, One, Multi

(* The bound of the loops is a natural number, and within the table.        *)
LEMMA MinSizeType ==
    ASSUME NEW c \in PointCall, InRange(c)
    PROVE  /\ MinSize(c) \in Nat /\ MinSize(c) <= Size[c.table]
           /\ Size[c.table] \in Nat /\ c.table \in Table
           /\ c.id \in Nat /\ c.id < Size[c.table]
<1>1. /\ c.table \in Table /\ c.id \in Int /\ c.data \in Seq(Value) /\ c.num \in Nat
  BY DEF PointCall
<1>2. Size[c.table] \in Nat
  BY <1>1, TableAssumption
<1>3. c.id \in 0..(Size[c.table] - 1)
  BY DEF InRange, Points
<1>4. Len(c.data) \in Nat
  BY <1>1, LenProperties
<1> DEFINE end == (IF c.op = "updateMulti" THEN Len(c.data) ELSE c.num) + c.id
<1>5. end \in Nat
  BY <1>1, <1>2, <1>3, <1>4
<1>6. MinSize(c) = IF end < Size[c.table] THEN end ELSE Size[c.table]
  BY DEF MinSize
<1> HIDE DEF end
<1>7. MinSize(c) \in Nat /\ MinSize(c) <= Size[c.table]
  BY <1>2, <1>5, <1>6
<1>8. QED
  BY <1>1, <1>2, <1>3, <1>7

(* What is read of a point is something stored, or Missing.                  *)
LEMMA HeldType ==
    ASSUME Shape, NEW p
    PROVE  Held(p) \in Read
BY TableAssumption DEF Held, Shape, Read

LEMMA AppendEntry ==
    ASSUME NEW g \in Seq(Entry), NEW i \in Int, NEW vs \in Seq(Read)
    PROVE  /\ Append(g, [id |-> i, vals |-> vs]) \in Seq(Entry)
           /\ Len(Append(g, [id |-> i, vals |-> vs])) = Len(g) + 1
           /\ Append(g, [id |-> i, vals |-> vs])[Len(g) + 1] = [id |-> i, vals |-> vs]
           /\ Append(g, [id |-> i, vals |-> vs]) # <<>>
<1>1. [id |-> i, vals |-> vs] \in Entry
  BY DEF Entry, Read
<1>2. QED
  BY <1>1, AppendProperties, EmptySeq
-----------------------------------------------------------------------------
(* Type correctness.                                                       *)

LEMMA NoCallApart ==
    /\ NoCall \notin PointCall \cup TransCall \cup ExprCall
    /\ \A c \in PointCall : c.op \in One \cup Multi
    /\ \A c \in TransCall : c.op = "trans"
    /\ \A c \in ExprCall : c.op = "expr"
BY DEF NoCall, PointCall, TransCall, ExprCall, One, Multi

LEMMA IdleGood == Good("idle", NoCall, 0, <<>>)
BY NoCallApart, EmptySeq DEF Good, PcSet, CallSet

LEMMA InitInv == Init => IInv
<1> SUFFICES ASSUME Init PROVE IInv
  OBVIOUS
<1>1. Shape
  BY ValueAssumption, EmptySeq DEF Init, Shape, PcSet, CallSet, Stored
<1>2. LockOK
  BY ThreadAssumption DEF Init, LockOK
<1>3. ASSUME NEW th \in Thread PROVE GoodAt(th)
  BY IdleGood DEF Init, GoodAt
<1>4. QED
  BY <1>1, <1>2, <1>3 DEF IInv

(* A step that changes the variables of one thread, and does with the lock    *)
(* what its place says, keeps the invariant.                                *)
LEMMA LocalChange ==
    ASSUME IInv, NEW th \in Thread, NEW p, NEW c, NEW n, NEW g,
           Good(p, c, n, g),
           pc' = [pc EXCEPT ![th] = p], call' = [call EXCEPT ![th] = c],
           k' = [k EXCEPT ![th] = n], got' = [got EXCEPT ![th] = g],
           lock' \in Thread \cup {NoThread},
           lock' = th <=> p \in {"index", "block"},
           \A q \in Thread \ {th} : lock' = q <=> lock = q,
           DOMAIN value' = Table,
           \A t \in Table : value'[t] \in [Points(t) -> Stored]
    PROVE  IInv'
<1>1. Shape /\ LockOK /\ \A q \in Thread : GoodAt(q)
  BY DEF IInv
<1>2. p \in PcSet /\ c \in CallSet /\ n \in Nat /\ g \in Seq(Entry)
  BY DEF Good
<1>3. Shape'
  BY <1>1, <1>2 DEF Shape
<1>4. /\ pc'[th] = p /\ call'[th] = c /\ k'[th] = n /\ got'[th] = g
      /\ \A q \in Thread \ {th} : /\ pc'[q] = pc[q] /\ call'[q] = call[q]
                                  /\ k'[q] = k[q] /\ got'[q] = got[q]
  BY <1>1 DEF Shape
<1>5. LockOK'
  BY <1>1, <1>4 DEF LockOK
<1>6. ASSUME NEW q \in Thread PROVE GoodAt(q)'
  <2>1. CASE q = th
    BY <1>4, <2>1 DEF GoodAt
  <2>2. CASE q # th
    BY <1>1, <1>4, <2>2 DEF GoodAt
  <2>3. QED
    BY <2>1, <2>2
<1>7. QED
  BY <1>3, <1>5, <1>6 DEF IInv

(* What stays the same is what it is.                                       *)
LEMMA Same ==
    ASSUME Shape, NEW th \in Thread
    PROVE  /\ pc = [pc EXCEPT ![th] = pc[th]] /\ call = [call EXCEPT ![th] = call[th]]
           /\ k = [k EXCEPT ![th] = k[th]] /\ got = [got EXCEPT ![th] = got[th]]
BY DEF Shape

(* A call that returns keeps it, whether it holds the lock or not.            *)
LEMMA ReturnInv ==
    ASSUME IInv, NEW th \in Thread, Return(th),
           (lock' = lock /\ lock # th) \/ (lock' = NoThread /\ lock \in {th, NoThread}),
           DOMAIN value' = Table,
           \A t \in Table : value'[t] \in [Points(t) -> Stored]
    PROVE  IInv'
<1>1. lock' \in Thread \cup {NoThread} /\ lock' # th
  BY ThreadAssumption DEF IInv, Shape
<1>2. \A q \in Thread \ {th} : lock' = q <=> lock = q
  BY ThreadAssumption
<1>3. QED
  BY <1>1, <1>2, IdleGood, LocalChange DEF Return

LEMMA CallInv ==
    ASSUME IInv, NEW th \in Thread, Begin(th)
    PROVE  IInv'
<1>1. /\ Shape /\ LockOK /\ GoodAt(th) /\ pc[th] = "idle"
      /\ k[th] = 0 /\ got[th] = <<>> /\ UNCHANGED value
  BY DEF IInv, Begin, Call, CallWhere, CallTrans, CallExpr, GoodAt, Good
<1>2. lock # th /\ lock \in Thread \cup {NoThread}
  BY <1>1 DEF LockOK, Shape
<1>3. /\ DOMAIN value' = Table
      /\ \A t \in Table : value'[t] \in [Points(t) -> Stored]
  BY <1>1 DEF Shape
<1>4. ASSUME NEW op \in One \cup Multi, NEW t \in Table,
             NEW d \in Data(op), NEW n \in Nums(op), NEW id \in Int,
             NEW p \in {"ready", "index"}
      PROVE  Good(p, Request(op, t, id, d, n), 0, <<>>)
  <2>1. /\ Request(op, t, id, d, n) \in PointCall
        /\ Request(op, t, id, d, n).op = "update" =>
              Len(Request(op, t, id, d, n).data) = 1
    BY RequestType
  <2>2. QED
    BY <2>1, NoCallApart, EmptySeq DEF Good, PcSet, CallSet
<1>5. ASSUME NEW op \in One \cup Multi, NEW t \in Table,
             NEW d \in Data(op), NEW n \in Nums(op), NEW id \in Ids(op),
             Call(th, op, t, id, d, n)
      PROVE  IInv'
  <2>1. id \in Int
    BY CallAssumption DEF Ids
  <2>2. Good("ready", Request(op, t, id, d, n), 0, <<>>)
    BY <1>4, <2>1
  <2>3. k' = [k EXCEPT ![th] = 0] /\ got' = [got EXCEPT ![th] = <<>>]
    BY <1>1, <1>5, Same DEF Call
  <2>4. QED
    BY <1>2, <1>3, <1>5, <2>2, <2>3, LocalChange DEF Call
<1>6. ASSUME NEW op \in One \cup Multi, NEW t \in Table,
             NEW d \in Data(op), NEW n \in Nums(op), NEW c,
             CallWhere(th, op, t, c, d, n)
      PROVE  IInv'
  <2>1. Index(t, c) \in Int
    BY IndexFound, TableAssumption DEF Points
  <2>2. Good("index", Request(op, t, Index(t, c), d, n), 0, <<>>)
    BY <1>4, <2>1
  <2>3. k' = [k EXCEPT ![th] = 0] /\ got' = [got EXCEPT ![th] = <<>>]
    BY <1>1, <1>6, Same DEF CallWhere
  <2>4. \A q \in Thread \ {th} : lock' = q <=> lock = q
    BY <1>6, ThreadAssumption DEF CallWhere
  <2>5. QED
    BY <1>3, <1>6, <2>2, <2>3, <2>4, LocalChange DEF CallWhere
<1>7. ASSUME NEW id \in TransId, NEW n \in Num, CallTrans(th, id, n)
      PROVE  IInv'
  <2> DEFINE c == [op |-> "trans", id |-> id, num |-> n, first |-> id, formula |-> <<>>]
  <2>1. c \in TransCall /\ 0 <= c.num
    BY CallAssumption, EmptySeq DEF TransCall
  <2>2. Good("trans", c, 0, <<>>)
    BY <2>1, NoCallApart, EmptySeq DEF Good, PcSet, CallSet
  <2>3. /\ k' = [k EXCEPT ![th] = 0] /\ got' = [got EXCEPT ![th] = <<>>]
        /\ pc' = [pc EXCEPT ![th] = "trans"] /\ call' = [call EXCEPT ![th] = c]
        /\ lock' = lock
    BY <1>1, <1>7, Same DEF CallTrans
  <2> HIDE DEF c
  <2>4. QED
    BY <1>2, <1>3, <2>2, <2>3, LocalChange
<1>8. ASSUME NEW ps \in Formula, CallExpr(th, ps)
      PROVE  IInv'
  <2> DEFINE c == [op |-> "expr", formula |-> ps]
             e == [id |-> 0, vals |-> <<>>]
             g == <<e>>
  <2>1. c \in ExprCall /\ c.formula = ps /\ Len(ps) > 0
    <3>1. ps \in Seq(Table \X Int) /\ ps # <<>>
      BY CallAssumption, TransAssumption
    <3>2. QED
      BY <3>1, EmptySeq DEF ExprCall
  <2>2. /\ g \in Seq(Entry) /\ g # <<>> /\ Len(g) = 1 /\ g[1].vals = <<>>
    <3>1. e \in Entry
      BY EmptySeq DEF Entry
    <3>2. QED
      BY <3>1
  <2>3. Good("formula", c, 0, g)
    BY <2>1, <2>2, NoCallApart, EmptySeq DEF Good, PcSet, CallSet
  <2>4. /\ k' = [k EXCEPT ![th] = 0] /\ got' = [got EXCEPT ![th] = g]
        /\ pc' = [pc EXCEPT ![th] = "formula"] /\ call' = [call EXCEPT ![th] = c]
        /\ lock' = lock
    BY <1>1, <1>8, Same DEF CallExpr
  <2> HIDE DEF c, g
  <2>5. QED
    BY <1>2, <1>3, <2>3, <2>4, LocalChange
<1>9. QED
  BY <1>5, <1>6, <1>7, <1>8 DEF Begin

(* Calls on one point, and what they begin with.                            *)
LEMMA PointInv ==
    ASSUME IInv, NEW th \in Thread,
           EndIndex(th) \/ UpdateValue(th) \/ GetValue(th)
    PROVE  IInv'
<1>1. Shape /\ LockOK /\ GoodAt(th)
  BY DEF IInv
<1>2. UNCHANGED value =>
         /\ DOMAIN value' = Table
         /\ \A t \in Table : value'[t] \in [Points(t) -> Stored]
  BY <1>1 DEF Shape
<1>3. CASE EndIndex(th)
  <2>1. pc[th] = "index" /\ lock = th /\ lock' = NoThread /\ UNCHANGED value
    BY <1>1, <1>3 DEF EndIndex, LockOK
  <2>2. CASE Return(th)
    BY <1>2, <2>1, <2>2, ReturnInv
  <2>3. CASE pc' = [pc EXCEPT ![th] = "ready"] /\ UNCHANGED <<call, k, got>>
    <3>1. Good("ready", call[th], k[th], got[th])
      BY <1>1, <2>1 DEF GoodAt, Good, PcSet
    <3>2. /\ call' = [call EXCEPT ![th] = call[th]] /\ k' = [k EXCEPT ![th] = k[th]]
          /\ got' = [got EXCEPT ![th] = got[th]]
      BY <1>1, <2>3, Same
    <3>3. lock' # th /\ \A q \in Thread \ {th} : lock' = q <=> lock = q
      BY <2>1, ThreadAssumption
    <3>4. QED
      BY <1>2, <2>1, <2>3, <3>1, <3>2, <3>3, LocalChange
  <2>4. QED
    BY <1>3, <2>2, <2>3 DEF EndIndex
<1>4. CASE UpdateValue(th)
  <2> DEFINE c == call[th]
  <2>1. /\ pc[th] = "ready" /\ c.op = "update" /\ lock = NoThread /\ UNCHANGED lock
        /\ Return(th)
    BY <1>4 DEF UpdateValue
  <2>2. c \in PointCall /\ Len(c.data) = 1
    BY <1>1, <2>1 DEF GoodAt, Good
  <2>3. c.table \in Table /\ c.data[1] \in Stored
    BY <2>2 DEF PointCall, Stored
  <2>4. /\ DOMAIN value' = Table
        /\ \A t \in Table : value'[t] \in [Points(t) -> Stored]
    <3>1. CASE UNCHANGED value
      BY <1>2, <3>1
    <3>2. CASE value' = [value EXCEPT ![c.table][c.id] = c.data[1]]
      BY <1>1, <2>3, <3>2 DEF Shape
    <3>3. QED
      BY <1>4, <3>1, <3>2 DEF UpdateValue
  <2>5. QED
    BY <2>1, <2>4, ReturnInv
<1>5. CASE GetValue(th)
  <2> DEFINE c == call[th]
             e == [id |-> c.id, vals |-> <<value[c.table][c.id]>>]
  <2>1. /\ pc[th] = "ready" /\ lock = NoThread /\ UNCHANGED <<lock, value>>
        /\ c \in PointCall
    BY <1>1, <1>5 DEF GetValue, GoodAt, Good
  <2>2. CASE Return(th)
    BY <1>2, <2>1, <2>2, ReturnInv
  <2>3. CASE /\ InRange(c) /\ got' = [got EXCEPT ![th] = <<e>>]
             /\ pc' = [pc EXCEPT ![th] = "done"] /\ UNCHANGED <<call, k>>
    <3>1. c.table \in Table /\ c.id \in Points(c.table)
      BY <2>1, <2>3 DEF InRange, PointCall
    <3>2. value[c.table][c.id] \in Read /\ c.id \in Int
      BY <1>1, <2>1, <3>1 DEF Shape, Read, PointCall
    <3>3. <<value[c.table][c.id]>> \in Seq(Read)
      BY <3>2
    <3>4. e \in Entry
      BY <3>2, <3>3 DEF Entry, Read
    <3>5. <<e>> \in Seq(Entry)
      BY <3>4
    <3>6. Good("done", c, k[th], <<e>>)
      BY <1>1, <2>1, <3>5, NoCallApart DEF Good, GoodAt, PcSet
    <3>7. call' = [call EXCEPT ![th] = c] /\ k' = [k EXCEPT ![th] = k[th]]
      BY <1>1, <2>3, Same
    <3>8. lock' # th /\ lock' \in Thread \cup {NoThread}
      BY <2>1, ThreadAssumption
    <3>9. \A q \in Thread \ {th} : lock' = q <=> lock = q
      BY <2>1
    <3>10. /\ pc' = [pc EXCEPT ![th] = "done"] /\ got' = [got EXCEPT ![th] = <<e>>]
           /\ "done" \notin {"index", "block"}
      BY <2>3
    <3>11. /\ DOMAIN value' = Table
           /\ \A t \in Table : value'[t] \in [Points(t) -> Stored]
      BY <1>2, <2>1
    <3> DEFINE h == <<e>>
    <3> HIDE DEF h, e, c
    <3>12. QED
      BY <3>6, <3>7, <3>8, <3>9, <3>10, <3>11, LocalChange DEF h
  <2>4. QED
    BY <1>5, <2>2, <2>3 DEF GetValue
<1>6. QED
  BY <1>3, <1>4, <1>5

(* A block begins, goes on and ends.                                        *)
LEMMA BlockInv ==
    ASSUME IInv, NEW th \in Thread,
           BeginBlock(th) \/ UpdateNext(th) \/ GetNext(th) \/ EndBlock(th)
    PROVE  IInv'
<1> DEFINE c == call[th]
<1>1. Shape /\ LockOK /\ GoodAt(th)
  BY DEF IInv
<1>2. UNCHANGED value =>
         /\ DOMAIN value' = Table
         /\ \A t \in Table : value'[t] \in [Points(t) -> Stored]
  BY <1>1 DEF Shape
<1>3. CASE BeginBlock(th)
  <2>1. /\ pc[th] = "ready" /\ c.op \in Multi /\ lock = NoThread /\ UNCHANGED value
        /\ c \in PointCall /\ k[th] = 0 /\ got[th] = <<>>
    BY <1>1, <1>3 DEF BeginBlock, GoodAt, Good
  <2>2. CASE ~InRange(c)
    BY <1>2, <1>3, <2>1, <2>2, ThreadAssumption, ReturnInv DEF BeginBlock
  <2>3. CASE InRange(c)
    <3>1. /\ lock' = th /\ pc' = [pc EXCEPT ![th] = "block"]
          /\ UNCHANGED <<call, k, got>>
      BY <1>3, <2>3 DEF BeginBlock
    <3>2. Good("block", c, k[th], got[th])
      BY <1>1, <2>1, <2>3, MinSizeType DEF GoodAt, Good, PcSet
    <3>3. /\ call' = [call EXCEPT ![th] = c] /\ k' = [k EXCEPT ![th] = k[th]]
          /\ got' = [got EXCEPT ![th] = got[th]]
      BY <1>1, <3>1, Same
    <3>4. \A q \in Thread \ {th} : lock' = q <=> lock = q
      BY <2>1, <3>1, ThreadAssumption
    <3> HIDE DEF c
    <3>5. QED
      BY <1>2, <2>1, <3>1, <3>2, <3>3, <3>4, LocalChange
  <2>4. QED
    BY <2>2, <2>3
<1>4. ASSUME pc[th] = "block"
      PROVE  /\ lock = th /\ c \in PointCall /\ c.op \in Multi /\ InRange(c)
             /\ k[th] \in 0..MinSize(c) /\ got[th] \in Seq(Entry)
             /\ c.op = "updateMulti" => got[th] = <<>>
             /\ MinSize(c) \in Nat /\ c.table \in Table /\ c.id \in Int
             /\ c.data \in Seq(Value)
  <2>1. /\ lock = th /\ c \in PointCall /\ c.op \in Multi /\ InRange(c)
        /\ k[th] \in 0..MinSize(c) /\ got[th] \in Seq(Entry)
        /\ c.op = "updateMulti" => got[th] = <<>>
    BY <1>1, <1>4 DEF LockOK, GoodAt, Good
  <2>2. QED
    BY <2>1, MinSizeType DEF PointCall
<1>5. ASSUME UpdateNext(th) \/ GetNext(th), NEW g \in Seq(Entry),
             got' = [got EXCEPT ![th] = g], c.op = "updateMulti" => g = <<>>,
             DOMAIN value' = Table,
             \A t \in Table : value'[t] \in [Points(t) -> Stored]
      PROVE  IInv'
  <2>1. /\ pc[th] = "block" /\ k[th] < MinSize(c) /\ k' = [k EXCEPT ![th] = k[th] + 1]
        /\ UNCHANGED <<lock, pc, call>>
    BY <1>1, <1>5 DEF UpdateNext, GetNext, Shape
  <2>2. Good("block", c, k[th] + 1, g)
    BY <1>1, <1>4, <1>5, <2>1 DEF Good, GoodAt
  <2>3. pc' = [pc EXCEPT ![th] = "block"] /\ call' = [call EXCEPT ![th] = c]
    BY <1>1, <2>1, Same
  <2>4. lock' = lock /\ lock' = th
    BY <1>4, <2>1
  <2> HIDE DEF c
  <2>5. QED
    BY <1>5, <2>1, <2>2, <2>3, <2>4, LocalChange
<1>6. CASE UpdateNext(th)
  <2>1. pc[th] = "block" /\ c.op = "updateMulti" /\ UNCHANGED got
    BY <1>6 DEF UpdateNext
  <2>2. (IF k[th] < Len(c.data) THEN c.data[k[th] + 1] ELSE Junk) \in Stored
    BY <1>1, <1>4, <2>1 DEF Stored, Shape
  <2>3. /\ DOMAIN value' = Table
        /\ \A t \in Table : value'[t] \in [Points(t) -> Stored]
    <3>1. ASSUME NEW t \in Table, NEW i, NEW v \in Stored, Assign(t, i, v)
          PROVE  /\ DOMAIN value' = Table
                 /\ \A u \in Table : value'[u] \in [Points(u) -> Stored]
      <4>1. CASE UNCHANGED value
        BY <1>2, <4>1
      <4>2. ASSUME NEW u \in Table, NEW j, NEW w \in Stored,
                   value' = [value EXCEPT ![u][j] = w]
            PROVE  /\ DOMAIN value' = Table
                   /\ \A x \in Table : value'[x] \in [Points(x) -> Stored]
        BY <1>1, <4>2 DEF Shape
      <4>3. Junk \in Stored
        BY DEF Stored
      <4>4. QED
        BY <3>1, <4>1, <4>2, <4>3 DEF Assign
    <3>2. QED
      BY <1>4, <1>6, <2>1, <2>2, <3>1 DEF UpdateNext
  <2>4. got' = [got EXCEPT ![th] = got[th]]
    BY <1>1, <2>1, Same
  <2>5. QED
    BY <1>4, <1>5, <1>6, <2>1, <2>3, <2>4
<1>7. CASE GetNext(th)
  <2> DEFINE i  == c.id + k[th]
             vs == IF i \in Points(c.table) THEN <<value[c.table][i]>> ELSE <<Junk>>
             g  == Append(got[th], [id |-> i, vals |-> vs])
  <2>1. pc[th] = "block" /\ c.op = "getMulti" /\ UNCHANGED value
    BY <1>7 DEF GetNext
  <2>2. i \in Int /\ vs \in Seq(Read)
    <3>1. i \in Int
      BY <1>1, <1>4, <2>1 DEF Shape
    <3>2. i \in Points(c.table) => value[c.table][i] \in Read
      BY <1>1, <1>4, <2>1 DEF Shape, Read
    <3>3. Junk \in Read
      BY DEF Read, Stored
    <3>4. QED
      BY <3>1, <3>2, <3>3
  <2>3. g \in Seq(Entry)
    BY <1>4, <2>1, <2>2, AppendEntry
  <2>4. got' = [got EXCEPT ![th] = g]
    BY <1>1, <1>7 DEF GetNext, Shape
  <2> HIDE DEF g
  <2>5. QED
    BY <1>2, <1>5, <1>7, <2>1, <2>3, <2>4
<1>8. CASE EndBlock(th)
  <2>1. pc[th] = "block" /\ lock' = NoThread /\ UNCHANGED value /\ lock = th
    BY <1>4, <1>8 DEF EndBlock
  <2>2. CASE Return(th)
    BY <1>2, <2>1, <2>2, ReturnInv
  <2>3. CASE pc' = [pc EXCEPT ![th] = "done"] /\ UNCHANGED <<call, k, got>>
    <3>1. Good("done", c, k[th], got[th])
      BY <1>1, <1>4, <2>1, NoCallApart DEF Good, GoodAt, PcSet
    <3>2. /\ call' = [call EXCEPT ![th] = c] /\ k' = [k EXCEPT ![th] = k[th]]
          /\ got' = [got EXCEPT ![th] = got[th]]
      BY <1>1, <2>3, Same
    <3>3. lock' # th /\ \A q \in Thread \ {th} : lock' = q <=> lock = q
      BY <2>1, ThreadAssumption
    <3> HIDE DEF c
    <3>4. QED
      BY <1>2, <2>1, <2>3, <3>1, <3>2, <3>3, LocalChange
  <2>4. QED
    BY <1>8, <2>2, <2>3 DEF EndBlock
<1>9. QED
  BY <1>3, <1>6, <1>7, <1>8

(* One more operand: only the last entry changes.                           *)
LEMMA OperandEntry ==
    ASSUME NEW g \in Seq(Entry), g # <<>>, NEW v \in Read
    PROVE  LET h == [g EXCEPT ![Len(g)].vals = Append(@, v)] IN
           /\ Len(g) \in Nat \ {0} /\ g[Len(g)].vals \in Seq(Read)
           /\ h \in Seq(Entry) /\ Len(h) = Len(g) /\ h # <<>>
           /\ h[Len(h)].vals = Append(g[Len(g)].vals, v)
           /\ Len(h[Len(h)].vals) = Len(g[Len(g)].vals) + 1
           /\ \A i \in 1..(Len(g) - 1) : h[i] = g[i]
<1> DEFINE m == Len(g)
           e == [g[m] EXCEPT !.vals = Append(g[m].vals, v)]
           h == [g EXCEPT ![m] = e]
<1>1. m \in Nat \ {0} /\ m \in 1..Len(g)
  BY EmptySeq
<1>2. g[m] \in Entry
  BY <1>1, ElementOfSeq
<1>3. g[m].vals \in Seq(Read)
  BY <1>2 DEF Entry, Read
<1>4. /\ Append(g[m].vals, v) \in Seq(Read)
      /\ Len(Append(g[m].vals, v)) = Len(g[m].vals) + 1
  BY <1>3, AppendProperties
<1>5. e \in Entry /\ e.vals = Append(g[m].vals, v)
  BY <1>2, <1>4 DEF Entry, Read
<1>6. h \in Seq(Entry) /\ Len(h) = m /\ h[m] = e /\ \A i \in 1..(m - 1) : h[i] = g[i]
  <2> HIDE DEF e
  <2>1. /\ h \in Seq(Entry) /\ Len(h) = Len(g)
        /\ \A i \in 1..Len(g) : h[i] = IF i = m THEN e ELSE g[i]
    BY <1>1, <1>5, ExceptSeq
  <2>2. /\ m \in 1..Len(g) /\ m = Len(g) /\ m \in Nat
        /\ \A i \in 1..(m - 1) : i \in 1..Len(g) /\ i # m
    BY <1>1
  <2> HIDE DEF h, m
  <2>3. QED
    BY <2>1, <2>2
<1>7. h # <<>>
  BY <1>1, <1>6, EmptySeq
<1>8. h = [g EXCEPT ![Len(g)].vals = Append(@, v)]
  OBVIOUS
<1> HIDE DEF h, e
<1>9. QED
  BY <1>1, <1>3, <1>4, <1>5, <1>6, <1>7, <1>8

(* Reads by transmit id and formulas.                                       *)
LEMMA TransInv ==
    ASSUME IInv, NEW th \in Thread,
           TransNext(th) \/ Operand(th) \/ EndTrans(th) \/ Use(th)
    PROVE  IInv'
<1> DEFINE c == call[th]
           g == got[th]
<1>1. Shape /\ LockOK /\ GoodAt(th) /\ UNCHANGED <<lock, value>>
  BY DEF IInv, TransNext, Operand, EndTrans, Use
<1>2. /\ DOMAIN value' = Table
      /\ \A t \in Table : value'[t] \in [Points(t) -> Stored]
  BY <1>1 DEF Shape
<1>3. /\ lock' = lock /\ lock # th /\ lock' \in Thread \cup {NoThread}
      /\ pc[th] \in {"trans", "formula", "done"}
  BY <1>1 DEF LockOK, Shape, TransNext, Operand, EndTrans, Use
<1>4. ASSUME NEW p \in {"trans", "formula", "done"}, NEW d, NEW n, NEW h,
             Good(p, d, n, h),
             pc' = [pc EXCEPT ![th] = p], call' = [call EXCEPT ![th] = d],
             k' = [k EXCEPT ![th] = n], got' = [got EXCEPT ![th] = h]
      PROVE  IInv'
  <2>1. lock' # th /\ p \notin {"index", "block"}
    BY <1>3
  <2>2. QED
    BY <1>2, <1>3, <1>4, <2>1, LocalChange
<1>5. ASSUME Return(th) PROVE IInv'
  <2>1. lock' = lock /\ lock # th
    BY <1>3
  <2>2. QED
    BY <1>2, <1>5, <2>1, ReturnInv
<1>6. c \in CallSet /\ k[th] \in Nat /\ g \in Seq(Entry) /\ c # NoCall
  BY <1>1, <1>3 DEF GoodAt, Good
<1>7. /\ pc = [pc EXCEPT ![th] = pc[th]] /\ call = [call EXCEPT ![th] = c]
      /\ k = [k EXCEPT ![th] = k[th]] /\ got = [got EXCEPT ![th] = g]
  BY <1>1, Same
<1>8. CASE TransNext(th)
  <2> DEFINE id == NextId(th)
             ps == Trans[id + 1].points
             v  == Held(ps[1])
             f  == Append(g, [id |-> id, vals |-> <<>>])
             h  == Append(g, [id |-> id, vals |-> <<v>>])
             d  == [[c EXCEPT !.id = id] EXCEPT !.formula = ps]
             e  == [c EXCEPT !.id = id]
  <2>1. pc[th] = "trans" /\ c \in TransCall /\ k[th] < c.num /\ c.id \in Nat
    BY <1>1, <1>8 DEF TransNext, GoodAt, Good, TransCall
  <2>2. id \in Nat /\ id \in Int /\ c.num \in Nat
    BY <1>6, <2>1 DEF NextId, TransCall
  <2>3. CASE id + 1 \notin DOMAIN Trans
    BY <1>5, <1>8, <2>3 DEF TransNext
  <2>4. CASE id + 1 \in DOMAIN Trans /\ Trans[id + 1].formula
    <3>1. /\ pc' = [pc EXCEPT ![th] = "formula"]
          /\ call' = [call EXCEPT ![th].id = id, ![th].formula = ps]
          /\ got' = [got EXCEPT ![th] = Append(@, [id |-> id, vals |-> <<>>])]
          /\ UNCHANGED k
      BY <1>8, <2>4 DEF TransNext
    <3>2. call' = [call EXCEPT ![th] = d] /\ got' = [got EXCEPT ![th] = f]
      BY <1>1, <3>1 DEF Shape
    <3>3. ps \in Seq(Table \X Int) /\ Len(ps) > 0
      <4>1. ps \in Seq(Table \X Int) \ {<<>>}
        BY <2>4, TransAssumption
      <4>2. QED
        BY <4>1, EmptySeq
    <3>4. d \in TransCall /\ d.formula = ps /\ d.num = c.num
      BY <2>1, <2>2, <3>3 DEF TransCall
    <3>5. <<>> \in Seq(Read) /\ Len(<<>>) = 0
      BY EmptySeq
    <3>6. /\ f \in Seq(Entry) /\ f # <<>> /\ Len(f) = Len(g) + 1
          /\ f[Len(g) + 1] = [id |-> id, vals |-> <<>>]
      <4> HIDE DEF id, g
      <4>1. QED
        BY <1>6, <2>2, <3>5, AppendEntry
    <3>7. f[Len(f)].vals = <<>>
      BY <3>6
    <3> HIDE DEF d, f, ps, id
    <3>8. Good("formula", d, k[th], f)
      BY <1>6, <2>1, <3>3, <3>4, <3>5, <3>6, <3>7, NoCallApart DEF Good, PcSet, CallSet
    <3>9. /\ pc' = [pc EXCEPT ![th] = "formula"] /\ k' = [k EXCEPT ![th] = k[th]]
          /\ call' = [call EXCEPT ![th] = d] /\ got' = [got EXCEPT ![th] = f]
      BY <1>7, <3>1, <3>2
    <3> HIDE DEF c, g
    <3>10. QED
      BY <1>4, <3>8, <3>9
  <2>5. CASE id + 1 \in DOMAIN Trans /\ ~Trans[id + 1].formula
    <3>1. CASE v = Missing
      BY <1>5, <1>8, <2>5, <3>1 DEF TransNext
    <3>2. CASE v # Missing
      <4>1. /\ got' = [got EXCEPT ![th] = Append(@, [id |-> id, vals |-> <<v>>])]
            /\ call' = [call EXCEPT ![th].id = id]
            /\ k' = [k EXCEPT ![th] = @ + 1]
            /\ UNCHANGED pc
        BY <1>8, <2>5, <3>2 DEF TransNext
      <4>2. /\ call' = [call EXCEPT ![th] = e] /\ got' = [got EXCEPT ![th] = h]
            /\ k' = [k EXCEPT ![th] = k[th] + 1] /\ pc' = [pc EXCEPT ![th] = "trans"]
        BY <1>1, <1>7, <2>1, <4>1 DEF Shape
      <4>3. e \in TransCall /\ e.num = c.num
        BY <2>1, <2>2 DEF TransCall
      <4>4. <<v>> \in Seq(Read)
        BY <1>1, HeldType
      <4>5. h \in Seq(Entry)
        <5> HIDE DEF id, v, g
        <5>1. QED
          BY <1>6, <2>2, <4>4, AppendEntry
      <4> HIDE DEF e, h
      <4>6. Good("trans", e, k[th] + 1, h)
        BY <1>6, <2>1, <2>2, <4>3, <4>5, NoCallApart DEF Good, PcSet, CallSet
      <4>7. QED
        BY <1>4, <4>2, <4>6
    <3>3. QED
      BY <3>1, <3>2
  <2>6. QED
    BY <2>3, <2>4, <2>5
<1>9. CASE Operand(th)
  <2> DEFINE ps == c.formula
             m  == Len(g[Len(g)].vals) + 1
             v  == Held(ps[m])
             h  == [g EXCEPT ![Len(g)].vals = Append(@, v)]
  <2>1. /\ pc[th] = "formula" /\ c \in TransCall \cup ExprCall /\ g # <<>>
        /\ Len(g[Len(g)].vals) < Len(ps) /\ (c \in TransCall => k[th] < c.num)
    BY <1>1, <1>9 DEF Operand, GoodAt, Good
  <2>2. /\ h \in Seq(Entry) /\ Len(h) = Len(g) /\ h # <<>>
        /\ Len(h[Len(h)].vals) = m
    BY <1>1, <1>6, <2>1, HeldType, OperandEntry
  <2>3. got' = [got EXCEPT ![th][Len(got[th])].vals = Append(@, v)] /\ UNCHANGED call
    BY <1>9 DEF Operand
  <2>4. got' = [got EXCEPT ![th] = h]
    BY <1>1, <2>3 DEF Shape
  <2>5. m \in Nat /\ Len(ps) \in Nat /\ (c \in TransCall => c.num \in Nat)
    <3>1. g[Len(g)].vals \in Seq(Read)
      BY <1>1, <1>6, <2>1, HeldType, OperandEntry
    <3>2. Len(g[Len(g)].vals) \in Nat
      BY <3>1, LenProperties
    <3>3. ps \in Seq(Table \X Int) /\ (c \in TransCall => c.num \in Nat)
      BY <2>1 DEF TransCall, ExprCall
    <3>4. Len(ps) \in Nat
      <4> HIDE DEF ps
      <4>1. QED
        BY <3>3, LenProperties
    <3>5. QED
      BY <3>2, <3>3, <3>4
  <2> HIDE DEF h
  <2>6. CASE m < Len(ps)
    <3>1. UNCHANGED <<pc, k>>
      BY <1>9, <2>6 DEF Operand
    <3>2. Good("formula", c, k[th], h)
      BY <1>1, <2>1, <2>2, <2>6, NoCallApart DEF Good, GoodAt, PcSet, CallSet
    <3>3. /\ pc' = [pc EXCEPT ![th] = "formula"] /\ call' = [call EXCEPT ![th] = c]
          /\ k' = [k EXCEPT ![th] = k[th]]
      BY <1>7, <2>1, <2>3, <3>1
    <3>4. QED
      BY <1>4, <2>4, <3>2, <3>3
  <2>7. CASE ~(m < Len(ps)) /\ c.op = "expr"
    <3>1. pc' = [pc EXCEPT ![th] = "done"] /\ UNCHANGED k
      BY <1>9, <2>7 DEF Operand
    <3>2. Good("done", c, k[th], h)
      BY <1>1, <2>1, <2>2, NoCallApart DEF Good, GoodAt, PcSet, CallSet
    <3>3. /\ pc' = [pc EXCEPT ![th] = "done"] /\ k' = [k EXCEPT ![th] = k[th]]
          /\ call' = [call EXCEPT ![th] = c]
      BY <1>7, <2>3, <3>1
    <3>4. QED
      BY <1>4, <2>4, <3>2, <3>3
  <2>8. CASE ~(m < Len(ps)) /\ c.op # "expr"
    <3>1. pc' = [pc EXCEPT ![th] = "trans"] /\ k' = [k EXCEPT ![th] = k[th] + 1]
      BY <1>9, <2>8 DEF Operand
    <3>2. c \in TransCall
      BY <2>1, <2>8, NoCallApart
    <3>3. Good("trans", c, k[th] + 1, h)
      BY <1>6, <2>1, <2>2, <2>5, <3>2, NoCallApart DEF Good, PcSet, CallSet
    <3>4. QED
      BY <1>4, <1>7, <2>3, <2>4, <3>1, <3>3
  <2>9. QED
    BY <2>6, <2>7, <2>8
<1>10. CASE EndTrans(th)
  <2>1. Good("done", c, k[th], g)
    BY <1>6, NoCallApart DEF Good, PcSet
  <2>2. pc' = [pc EXCEPT ![th] = "done"] /\ UNCHANGED <<call, k, got>>
    BY <1>10 DEF EndTrans
  <2> HIDE DEF c, g
  <2>3. QED
    BY <1>4, <1>7, <2>1, <2>2
<1>11. CASE Use(th)
  BY <1>5, <1>11 DEF Use
<1>12. QED
  BY <1>8, <1>9, <1>10, <1>11

LEMMA InvImpliesType == IInv => TypeOK
<1> SUFFICES ASSUME IInv PROVE TypeOK
  OBVIOUS
<1>1. Shape /\ LockOK /\ \A th \in Thread : GoodAt(th)
  BY DEF IInv
<1>2. ASSUME NEW th \in Thread
      PROVE  /\ pc[th] = "idle" <=> call[th] = NoCall
             /\ pc[th] \in {"ready", "index", "block"} => call[th] \in PointCall
             /\ InBlock(th) => InRange(call[th]) /\ k[th] \in 0..MinSize(call[th])
             /\ pc[th] = "trans" => call[th] \in TransCall /\ k[th] <= call[th].num
             /\ pc[th] = "formula" =>
                   /\ call[th] \in TransCall \cup ExprCall
                   /\ got[th] # <<>>
                   /\ Len(got[th][Len(got[th])].vals) < Len(call[th].formula)
  BY <1>1 DEF GoodAt, Good, InBlock
<1>3. QED
  BY <1>1, <1>2 DEF TypeOK, Shape, LockOK, PcSet, CallSet

LEMMA StepInv == IInv /\ [Next]_vars => IInv'
<1> SUFFICES ASSUME IInv, [Next]_vars PROVE IInv'
  OBVIOUS
<1>1. ASSUME NEW th \in Thread, Begin(th) PROVE IInv'
  BY <1>1, CallInv
<1>2. ASSUME NEW th \in Thread, Locked(th) \/ UpdateValue(th) \/ GetValue(th) \/ BeginBlock(th)
      PROVE  IInv'
  BY <1>2, PointInv, BlockInv DEF Locked
<1>3. ASSUME NEW th \in Thread, TransNext(th) \/ Operand(th) \/ EndTrans(th) \/ Use(th)
      PROVE  IInv'
  BY <1>3, TransInv
<1>4. CASE UNCHANGED vars
  BY <1>4 DEF vars, IInv, Shape, LockOK, GoodAt
<1>5. QED
  BY <1>1, <1>2, <1>3, <1>4 DEF Next

LEMMA Invariance == Spec => []IInv
<1>1. Init => IInv
  BY InitInv
<1>2. IInv /\ [Next]_vars => IInv'
  BY StepInv
<1>3. QED
  BY <1>1, <1>2, PTL DEF Spec

(* The storage is well typed, each call has what its next step needs, and a   *)
(* thread holds the mutex just where the code is between lock and unlock.     *)
THEOREM TypeCorrect == Spec => []TypeOK
<1>1. IInv => TypeOK
  BY InvImpliesType
<1>2. QED
  BY <1>1, Invariance, PTL
-----------------------------------------------------------------------------
(* Blocks from the first point on: nothing but stored values.                *)

Pure(g) == \A e \in 1..Len(g) : \A j \in 1..Len(g[e].vals) : g[e].vals[j] # Junk

Clean ==
    /\ value = [t \in Table |-> value[t]]
    /\ \A t \in Table : \A i \in Points(t) : value[t][i] # Junk

(* A reader that is in a block has read the points up to its counter.        *)
FirstAt(th) ==
    /\ pc[th] \in {"ready", "index", "block"} /\ call[th].op \in Multi => call[th].id <= 0
    /\ Pure(got[th])
    /\ pc[th] = "block" /\ call[th].op = "getMulti" =>
          /\ Len(got[th]) = k[th]
          /\ \A j \in 1..k[th] : got[th][j].vals = <<value[call[th].table][j - 1]>>

SInv == Clean /\ \A th \in Thread : FirstAt(th)

LEMMA PureEmpty == Pure(<<>>)
BY EmptySeq DEF Pure

LEMMA PureAppend ==
    ASSUME NEW g \in Seq(Entry), Pure(g), NEW i \in Int, NEW vs \in Seq(Read),
           \A j \in 1..Len(vs) : vs[j] # Junk
    PROVE  Pure(Append(g, [id |-> i, vals |-> vs]))
<1> DEFINE e == [id |-> i, vals |-> vs]
           h == Append(g, e)
<1>1. Len(g) \in Nat
  BY LenProperties
<1>2. e \in Entry
  BY DEF Entry, Read
<1>3. /\ Len(h) = Len(g) + 1 /\ h[Len(g) + 1] = e
      /\ \A x \in 1..Len(g) : h[x] = g[x]
  <2> HIDE DEF e
  <2>1. QED
    BY <1>2, AppendProperties
<1>4. e.vals = vs
  OBVIOUS
<1> HIDE DEF e, h
<1>5. ASSUME NEW x \in 1..Len(h) PROVE \A j \in 1..Len(h[x].vals) : h[x].vals[j] # Junk
  <2>1. CASE x = Len(g) + 1
    BY <1>3, <1>4, <2>1
  <2>2. CASE x # Len(g) + 1
    <3>1. x \in 1..Len(g)
      BY <1>1, <1>3, <2>2
    <3>2. QED
      BY <1>3, <3>1 DEF Pure
  <2>3. QED
    BY <2>1, <2>2
<1>6. Pure(h)
  BY <1>5 DEF Pure
<1>7. QED
  BY <1>6 DEF h, e

LEMMA PureOperand ==
    ASSUME NEW g \in Seq(Entry), g # <<>>, Pure(g), NEW v \in Read, v # Junk
    PROVE  Pure([g EXCEPT ![Len(g)].vals = Append(@, v)])
<1> DEFINE h == [g EXCEPT ![Len(g)].vals = Append(@, v)]
           vs == g[Len(g)].vals
<1>1. /\ Len(g) \in Nat \ {0} /\ vs \in Seq(Read)
      /\ Len(h) = Len(g) /\ h[Len(h)].vals = Append(vs, v)
      /\ \A i \in 1..(Len(g) - 1) : h[i] = g[i]
  BY OperandEntry
<1>2. /\ Len(vs) \in Nat /\ Len(Append(vs, v)) = Len(vs) + 1
      /\ \A j \in 1..Len(vs) : Append(vs, v)[j] = vs[j]
      /\ Append(vs, v)[Len(vs) + 1] = v
  BY <1>1, AppendProperties
<1>3. \A j \in 1..Len(vs) : vs[j] # Junk
  BY <1>1 DEF Pure
<1>4. ASSUME NEW j \in 1..Len(Append(vs, v)) PROVE Append(vs, v)[j] # Junk
  <2>1. j \in 1..Len(vs) \/ j = Len(vs) + 1
    BY <1>2
  <2>2. QED
    BY <1>2, <1>3, <2>1
<1> HIDE DEF h, vs
<1>5. ASSUME NEW x \in 1..Len(h) PROVE \A j \in 1..Len(h[x].vals) : h[x].vals[j] # Junk
  <2>1. CASE x = Len(h)
    BY <1>1, <1>4, <2>1
  <2>2. CASE x # Len(h)
    <3>1. x \in 1..(Len(g) - 1) /\ x \in 1..Len(g)
      BY <1>1, <2>2
    <3>2. QED
      BY <1>1, <3>1 DEF Pure
  <2>3. QED
    BY <2>1, <2>2
<1>6. Pure(h)
  BY <1>5 DEF Pure
<1>7. QED
  BY <1>6 DEF h

LEMMA HeldClean ==
    ASSUME Clean, NEW p
    PROVE  Held(p) # Junk
BY ValueAssumption, TableAssumption DEF Clean, Held

(* A step that changes the variables of one thread.                         *)
LEMMA FirstLocal ==
    ASSUME IInv, SInv, NEW th \in Thread, NEW p, NEW c, NEW n, NEW g,
           pc' = [pc EXCEPT ![th] = p], call' = [call EXCEPT ![th] = c],
           k' = [k EXCEPT ![th] = n], got' = [got EXCEPT ![th] = g],
           p \in {"ready", "index", "block"} /\ c.op \in Multi => c.id <= 0,
           Pure(g),
           p = "block" /\ c.op = "getMulti" =>
               /\ Len(g) = n
               /\ \A j \in 1..n : g[j].vals = <<value'[c.table][j - 1]>>,
           UNCHANGED value \/ (Clean' /\ lock \in {th, NoThread})
    PROVE  SInv'
<1>1. Shape /\ LockOK
  BY DEF IInv
<1>2. /\ pc'[th] = p /\ call'[th] = c /\ k'[th] = n /\ got'[th] = g
      /\ \A q \in Thread \ {th} : /\ pc'[q] = pc[q] /\ call'[q] = call[q]
                                  /\ k'[q] = k[q] /\ got'[q] = got[q]
  BY <1>1 DEF Shape
<1>3. Clean'
  BY DEF SInv, Clean
<1>4. ASSUME NEW q \in Thread \ {th} PROVE FirstAt(q)'
  <2>1. FirstAt(q)
    BY DEF SInv
  <2>2. pc[q] = "block" => UNCHANGED value
    BY <1>1, ThreadAssumption DEF LockOK
  <2>3. QED
    BY <1>2, <2>1, <2>2 DEF FirstAt
<1>5. FirstAt(th)'
  BY <1>2 DEF FirstAt
<1>6. QED
  BY <1>3, <1>4, <1>5 DEF SInv

LEMMA FirstReturn ==
    ASSUME IInv, SInv, NEW th \in Thread, Return(th),
           UNCHANGED value \/ (Clean' /\ lock \in {th, NoThread})
    PROVE  SInv'
BY PureEmpty, FirstLocal DEF Return

LEMMA FirstBegin ==
    ASSUME IInv, SInv, BlocksBeginFirst, NEW th \in Thread, Begin(th)
    PROVE  SInv'
<1>1. /\ Shape /\ pc[th] = "idle" /\ k[th] = 0 /\ got[th] = <<>> /\ UNCHANGED value
  BY DEF IInv, Begin, Call, CallWhere, CallTrans, CallExpr, GoodAt, Good
<1>2. k = [k EXCEPT ![th] = 0] /\ got = [got EXCEPT ![th] = <<>>]
  BY <1>1, Same
<1>3. ASSUME NEW op \in One \cup Multi, NEW t \in Table,
             NEW d \in Data(op), NEW n \in Nums(op), NEW id \in Ids(op),
             Call(th, op, t, id, d, n)
      PROVE  SInv'
  <2> DEFINE c == Request(op, t, id, d, n)
  <2>1. c.op = op /\ c.id = id
    BY DEF Request
  <2>2. op \in Multi => id \in BlockId
    BY DEF Ids, One, Multi
  <2>3. c.op \in Multi => c.id <= 0
    <3>1. \A x \in BlockId : x <= 0
      BY DEF BlocksBeginFirst
    <3> HIDE DEF c
    <3>2. QED
      BY <2>1, <2>2, <3>1
  <2>4. /\ pc' = [pc EXCEPT ![th] = "ready"] /\ call' = [call EXCEPT ![th] = c]
        /\ k' = [k EXCEPT ![th] = 0] /\ got' = [got EXCEPT ![th] = <<>>]
    BY <1>2, <1>3 DEF Call
  <2> HIDE DEF c
  <2>5. QED
    BY <1>1, <2>3, <2>4, PureEmpty, FirstLocal
<1>4. ASSUME NEW op \in One \cup Multi, NEW t \in Table,
             NEW d \in Data(op), NEW n \in Nums(op), NEW cond \in Conds(op),
             CallWhere(th, op, t, cond, d, n)
      PROVE  SInv'
  <2> DEFINE c == Request(op, t, Index(t, cond), d, n)
  <2>1. c.op = op /\ c.id = Index(t, cond)
    BY DEF Request
  <2>2. op \in Multi => cond \in BlockCond
    BY DEF Conds, One, Multi
  <2>3. c.op \in Multi => c.id <= 0
    <3> HIDE DEF c
    <3>1. QED
      BY <2>1, <2>2 DEF BlocksBeginFirst
  <2>4. /\ pc' = [pc EXCEPT ![th] = "index"] /\ call' = [call EXCEPT ![th] = c]
        /\ k' = [k EXCEPT ![th] = 0] /\ got' = [got EXCEPT ![th] = <<>>]
    BY <1>2, <1>4 DEF CallWhere
  <2> HIDE DEF c
  <2>5. QED
    BY <1>1, <2>3, <2>4, PureEmpty, FirstLocal
<1>5. ASSUME NEW id \in TransId, NEW n \in Num, CallTrans(th, id, n)
      PROVE  SInv'
  <2> DEFINE c == [op |-> "trans", id |-> id, num |-> n, first |-> id, formula |-> <<>>]
  <2>1. /\ pc' = [pc EXCEPT ![th] = "trans"] /\ call' = [call EXCEPT ![th] = c]
        /\ k' = [k EXCEPT ![th] = 0] /\ got' = [got EXCEPT ![th] = <<>>]
    BY <1>2, <1>5 DEF CallTrans
  <2> HIDE DEF c
  <2>2. QED
    BY <1>1, <2>1, PureEmpty, FirstLocal
<1>6. ASSUME NEW ps \in Formula, CallExpr(th, ps)
      PROVE  SInv'
  <2> DEFINE c == [op |-> "expr", formula |-> ps]
             g == <<[id |-> 0, vals |-> <<>>]>>
  <2>1. /\ pc' = [pc EXCEPT ![th] = "formula"] /\ call' = [call EXCEPT ![th] = c]
        /\ k' = [k EXCEPT ![th] = 0] /\ got' = [got EXCEPT ![th] = g]
    BY <1>2, <1>6 DEF CallExpr
  <2>2. Pure(g)
    BY EmptySeq DEF Pure
  <2> HIDE DEF c, g
  <2>3. QED
    BY <1>1, <2>1, <2>2, FirstLocal
<1>7. QED
  BY <1>3, <1>4, <1>5, <1>6 DEF Begin

(* Calls of one point, and the end of the lookup of an index.               *)
LEMMA FirstPoint ==
    ASSUME IInv, SInv, NEW th \in Thread,
           EndIndex(th) \/ UpdateValue(th) \/ GetValue(th)
    PROVE  SInv'
<1> DEFINE c == call[th]
<1>1. Shape /\ LockOK /\ GoodAt(th) /\ FirstAt(th) /\ Clean
  BY DEF IInv, SInv
<1>2. /\ pc = [pc EXCEPT ![th] = pc[th]] /\ call = [call EXCEPT ![th] = c]
      /\ k = [k EXCEPT ![th] = k[th]] /\ got = [got EXCEPT ![th] = got[th]]
  BY <1>1, Same
<1>3. CASE EndIndex(th)
  <2>1. CASE c.table \in Known /\ c.id >= 0
    <3>1. pc' = [pc EXCEPT ![th] = "ready"] /\ UNCHANGED <<call, k, got, value>>
      BY <1>3, <2>1 DEF EndIndex
    <3>2. (c.op \in Multi => c.id <= 0) /\ Pure(got[th])
      BY <1>1, <1>3 DEF FirstAt, EndIndex
    <3> HIDE DEF c
    <3>3. QED
      BY ZenonT(40), <1>2, <3>1, <3>2, FirstLocal
  <2>2. CASE ~(c.table \in Known /\ c.id >= 0)
    BY <1>3, <2>2, FirstReturn DEF EndIndex
  <2>3. QED
    BY <2>1, <2>2
<1>4. CASE UpdateValue(th)
  <2>1. /\ c \in PointCall /\ Len(c.data) = 1 /\ c.data \in Seq(Value)
        /\ lock = NoThread /\ Return(th)
    BY <1>1, <1>4 DEF GoodAt, Good, UpdateValue, PointCall
  <2>2. c.data[1] \in Value
    BY <2>1
  <2>3. CASE InRange(c)
    <3>1. value' = [value EXCEPT ![c.table][c.id] = c.data[1]]
      BY <1>4, <2>3 DEF UpdateValue
    <3>2. Clean'
      <4> HIDE DEF c
      <4>1. ASSUME NEW t \in Table, NEW i \in Points(t) PROVE value'[t][i] # Junk
        BY <1>1, <2>2, <3>1, ValueAssumption DEF Clean, Shape
      <4>2. value' = [t \in Table |-> value'[t]]
        BY <1>1, <3>1 DEF Clean
      <4>3. QED
        BY <4>1, <4>2 DEF Clean
    <3>3. QED
      BY <2>1, <3>2, FirstReturn
  <2>4. CASE ~InRange(c)
    BY <1>4, <2>1, <2>4, FirstReturn DEF UpdateValue
  <2>5. QED
    BY <2>3, <2>4
<1>5. CASE GetValue(th)
  <2> DEFINE v == value[c.table][c.id]
             g == <<[id |-> c.id, vals |-> <<v>>]>>
  <2>1. CASE InRange(c)
    <3>1. /\ got' = [got EXCEPT ![th] = g] /\ pc' = [pc EXCEPT ![th] = "done"]
          /\ UNCHANGED <<call, k, value>>
      BY <1>5, <2>1 DEF GetValue
    <3>2. v # Junk
      <4>1. c.table \in Table /\ c.id \in Points(c.table)
        BY <2>1, TableAssumption DEF InRange
      <4>2. QED
        BY <1>1, <4>1 DEF Clean
    <3>3. Pure(g)
      <4> HIDE DEF v
      <4>1. QED
        BY <3>2 DEF Pure
    <3> HIDE DEF g, c
    <3>4. QED
      BY <1>2, <3>1, <3>3, FirstLocal
  <2>2. CASE ~InRange(c)
    BY <1>5, <2>2, FirstReturn DEF GetValue
  <2>3. QED
    BY <2>1, <2>2
<1>6. QED
  BY <1>3, <1>4, <1>5

(* In a block, both loops stay within the table and within what was asked.   *)
LEMMA BlockFacts ==
    ASSUME IInv, SInv, NEW th \in Thread, pc[th] = "block"
    PROVE  /\ lock = th /\ call[th] \in PointCall /\ call[th].op \in Multi
           /\ InRange(call[th]) /\ call[th].id = 0 /\ call[th].table \in Table
           /\ call[th].data \in Seq(Value) /\ Len(call[th].data) \in Nat
           /\ MinSize(call[th]) \in Nat /\ k[th] \in 0..MinSize(call[th])
           /\ MinSize(call[th]) <= Size[call[th].table] /\ Size[call[th].table] \in Nat
           /\ call[th].num \in Nat
           /\ call[th].op = "updateMulti" => MinSize(call[th]) <= Len(call[th].data)
           /\ call[th].op = "getMulti" => MinSize(call[th]) <= call[th].num
           /\ got[th] \in Seq(Entry) /\ (call[th].op = "updateMulti" => got[th] = <<>>)
<1> DEFINE c == call[th]
<1>1. /\ lock = th /\ c \in PointCall /\ c.op \in Multi /\ InRange(c)
      /\ k[th] \in 0..MinSize(c) /\ got[th] \in Seq(Entry) /\ c.id <= 0
      /\ c.op = "updateMulti" => got[th] = <<>>
  BY DEF IInv, SInv, LockOK, GoodAt, Good, FirstAt
<1>2. /\ MinSize(c) \in Nat /\ MinSize(c) <= Size[c.table] /\ Size[c.table] \in Nat
      /\ c.table \in Table /\ c.id \in Nat
  BY <1>1, MinSizeType
<1>3. c.data \in Seq(Value) /\ Len(c.data) \in Nat /\ c.num \in Nat
  BY <1>1, LenProperties DEF PointCall
<1>4. c.id = 0
  BY <1>1, <1>2
<1>5. /\ c.op = "updateMulti" => MinSize(c) <= Len(c.data)
      /\ c.op = "getMulti" => MinSize(c) <= c.num
  BY <1>2, <1>3, <1>4 DEF MinSize
<1>6. QED
  BY <1>1, <1>2, <1>3, <1>4, <1>5

LEMMA FirstBlock ==
    ASSUME IInv, SInv, NEW th \in Thread,
           BeginBlock(th) \/ UpdateNext(th) \/ GetNext(th) \/ EndBlock(th)
    PROVE  SInv'
<1> DEFINE c == call[th]
<1>1. Shape /\ LockOK /\ GoodAt(th) /\ FirstAt(th) /\ Clean
  BY DEF IInv, SInv
<1>2. /\ pc = [pc EXCEPT ![th] = pc[th]] /\ call = [call EXCEPT ![th] = c]
      /\ k = [k EXCEPT ![th] = k[th]] /\ got = [got EXCEPT ![th] = got[th]]
  BY <1>1, Same
<1>3. CASE BeginBlock(th)
  <2>1. CASE InRange(c)
    <3>1. /\ pc' = [pc EXCEPT ![th] = "block"] /\ UNCHANGED <<call, k, got, value>>
          /\ pc[th] = "ready" /\ c.op \in Multi
      BY <1>3, <2>1 DEF BeginBlock
    <3>2. c.id <= 0 /\ Pure(got[th]) /\ k[th] = 0 /\ got[th] = <<>>
      BY <1>1, <3>1 DEF FirstAt, GoodAt, Good
    <3>3. Len(got[th]) = k[th] /\ \A j \in 1..k[th] : FALSE
      BY <3>2, EmptySeq
    <3> HIDE DEF c
    <3>4. QED
      BY <1>2, <3>1, <3>2, <3>3, FirstLocal
  <2>2. CASE ~InRange(c)
    BY <1>3, <2>2, FirstReturn DEF BeginBlock
  <2>3. QED
    BY <2>1, <2>2
<1>4. CASE UpdateNext(th)
  <2>1. /\ pc[th] = "block" /\ c.op = "updateMulti" /\ k[th] < MinSize(c)
        /\ Assign(c.table, c.id + k[th], IF k[th] < Len(c.data) THEN c.data[k[th] + 1] ELSE Junk)
        /\ k' = [k EXCEPT ![th] = k[th] + 1] /\ UNCHANGED <<pc, call, got>>
    BY <1>4 DEF UpdateNext
  <2>2. /\ lock = th /\ c.id = 0 /\ c.table \in Table /\ c.data \in Seq(Value)
        /\ k[th] \in Nat /\ MinSize(c) \in Nat /\ MinSize(c) <= Size[c.table]
        /\ Size[c.table] \in Nat /\ MinSize(c) <= Len(c.data) /\ Len(c.data) \in Nat
        /\ got[th] = <<>>
    BY <2>1, BlockFacts
  <2>3. k[th] < Len(c.data) /\ k[th] \in Points(c.table) /\ c.id + k[th] = k[th]
    BY <2>1, <2>2 DEF Points
  <2>4. c.data[k[th] + 1] \in Value
    BY <2>2, <2>3
  <2>5. value' = [value EXCEPT ![c.table][k[th]] = c.data[k[th] + 1]]
    BY <2>1, <2>3 DEF Assign
  <2>6. Clean'
    <3> HIDE DEF c
    <3>1. ASSUME NEW t \in Table, NEW i \in Points(t) PROVE value'[t][i] # Junk
      BY <1>1, <2>4, <2>5, ValueAssumption DEF Clean, Shape
    <3>2. value' = [t \in Table |-> value'[t]]
      BY <1>1, <2>5 DEF Clean
    <3>3. QED
      BY <3>1, <3>2 DEF Clean
  <2>7. Pure(got[th]) /\ c.op # "getMulti" /\ c.id <= 0
    BY <2>1, <2>2, PureEmpty
  <2>8. /\ pc' = [pc EXCEPT ![th] = "block"] /\ call' = [call EXCEPT ![th] = c]
        /\ k' = [k EXCEPT ![th] = k[th] + 1] /\ got' = [got EXCEPT ![th] = got[th]]
    BY <1>2, <2>1
  <2> HIDE DEF c
  <2>9. QED
    BY <2>2, <2>6, <2>7, <2>8, FirstLocal
<1>5. CASE GetNext(th)
  <2> DEFINE v == value[c.table][k[th]]
             g == Append(got[th], [id |-> k[th], vals |-> <<v>>])
  <2>1. /\ pc[th] = "block" /\ c.op = "getMulti" /\ k[th] < MinSize(c)
        /\ k' = [k EXCEPT ![th] = k[th] + 1] /\ UNCHANGED <<pc, call, value>>
    BY <1>5 DEF GetNext
  <2>2. /\ c.id = 0 /\ c.table \in Table /\ k[th] \in Nat /\ MinSize(c) \in Nat
        /\ MinSize(c) <= Size[c.table] /\ Size[c.table] \in Nat
        /\ got[th] \in Seq(Entry)
    BY <2>1, BlockFacts
  <2>3. k[th] \in Points(c.table) /\ c.id + k[th] = k[th]
    BY <2>1, <2>2 DEF Points
  <2>4. got' = [got EXCEPT ![th] = g]
    BY <1>1, <1>5, <2>3 DEF GetNext, Shape
  <2>5. v \in Read /\ v # Junk
    BY <1>1, <2>2, <2>3 DEF Shape, Clean, Read
  <2>6. /\ Len(got[th]) = k[th] /\ Pure(got[th])
        /\ \A j \in 1..k[th] : got[th][j].vals = <<value[c.table][j - 1]>>
    BY <1>1, <2>1 DEF FirstAt
  <2>7. Pure(g)
    <3>1. k[th] \in Int
      BY <2>2
    <3> HIDE DEF v
    <3>2. <<v>> \in Seq(Read) /\ \A j \in 1..Len(<<v>>) : <<v>>[j] # Junk
      BY <2>5
    <3>3. QED
      BY <2>2, <2>6, <3>1, <3>2, PureAppend
  <2>8. Len(g) = k[th] + 1 /\ g[k[th] + 1].vals = <<v>>
        /\ \A j \in 1..k[th] : g[j] = got[th][j]
    <3>1. [id |-> k[th], vals |-> <<v>>] \in Entry
      BY <2>2, <2>5 DEF Entry, Read
    <3>2. /\ Len(g) = Len(got[th]) + 1
          /\ g[Len(got[th]) + 1] = [id |-> k[th], vals |-> <<v>>]
          /\ \A j \in 1..Len(got[th]) : g[j] = got[th][j]
      <4> HIDE DEF v
      <4>1. QED
        BY <2>2, <3>1, AppendProperties
    <3>3. QED
      BY <2>6, <3>2
  <2>9. \A j \in 1..(k[th] + 1) : g[j].vals = <<value'[c.table][j - 1]>>
    <3> HIDE DEF g, c
    <3>1. ASSUME NEW j \in 1..(k[th] + 1) PROVE g[j].vals = <<value'[c.table][j - 1]>>
      <4>1. j \in 1..k[th] \/ (j = k[th] + 1 /\ j - 1 = k[th])
        BY <2>2
      <4>2. value' = value
        BY <2>1
      <4>3. QED
        BY <2>6, <2>8, <4>1, <4>2
    <3>2. QED
      BY <3>1
  <2>10. /\ pc' = [pc EXCEPT ![th] = "block"] /\ call' = [call EXCEPT ![th] = c]
         /\ UNCHANGED value /\ c.id <= 0
    BY <1>2, <2>1, <2>2
  <2> HIDE DEF g, c
  <2>11. QED
    BY <2>1, <2>4, <2>7, <2>8, <2>9, <2>10, FirstLocal
<1>6. CASE EndBlock(th)
  <2>1. UNCHANGED value
    BY <1>6 DEF EndBlock
  <2>2. CASE Return(th)
    BY <2>1, <2>2, FirstReturn
  <2>3. CASE pc' = [pc EXCEPT ![th] = "done"] /\ UNCHANGED <<call, k, got>>
    <3>1. Pure(got[th])
      BY <1>1 DEF FirstAt
    <3> HIDE DEF c
    <3>2. QED
      BY <1>2, <2>1, <2>3, <3>1, FirstLocal
  <2>4. QED
    BY <1>6, <2>2, <2>3 DEF EndBlock
<1>7. QED
  BY <1>3, <1>4, <1>5, <1>6

LEMMA FirstTrans ==
    ASSUME IInv, SInv, NEW th \in Thread,
           TransNext(th) \/ Operand(th) \/ EndTrans(th) \/ Use(th)
    PROVE  SInv'
<1> DEFINE c == call[th]
           g == got[th]
<1>1. /\ Shape /\ GoodAt(th) /\ FirstAt(th) /\ Clean /\ Pure(g)
      /\ g \in Seq(Entry) /\ UNCHANGED value
  BY DEF IInv, SInv, FirstAt, Shape, TransNext, Operand, EndTrans, Use
<1>2. /\ pc = [pc EXCEPT ![th] = pc[th]] /\ call = [call EXCEPT ![th] = c]
      /\ k = [k EXCEPT ![th] = k[th]] /\ g = got[th] /\ got = [got EXCEPT ![th] = g]
  BY <1>1, Same
<1>3. ASSUME NEW p \in {"trans", "formula", "done"}, NEW d, NEW n, NEW h, Pure(h),
             pc' = [pc EXCEPT ![th] = p], call' = [call EXCEPT ![th] = d],
             k' = [k EXCEPT ![th] = n], got' = [got EXCEPT ![th] = h]
      PROVE  SInv'
  BY <1>1, <1>3, FirstLocal
<1>4. CASE TransNext(th)
  <2> DEFINE id == NextId(th)
             ps == Trans[id + 1].points
             v  == Held(ps[1])
             f  == Append(g, [id |-> id, vals |-> <<>>])
             h  == Append(g, [id |-> id, vals |-> <<v>>])
             d  == [[c EXCEPT !.id = id] EXCEPT !.formula = ps]
             e  == [c EXCEPT !.id = id]
  <2>1. pc[th] = "trans" /\ c \in TransCall /\ id \in Int
    BY <1>1, <1>4 DEF TransNext, GoodAt, Good, TransCall, NextId
  <2>2. CASE Return(th)
    BY <1>1, <2>2, FirstReturn
  <2>3. CASE id + 1 \in DOMAIN Trans /\ Trans[id + 1].formula
    <3>1. /\ pc' = [pc EXCEPT ![th] = "formula"]
          /\ call' = [call EXCEPT ![th].id = id, ![th].formula = ps]
          /\ got' = [got EXCEPT ![th] = Append(@, [id |-> id, vals |-> <<>>])]
          /\ UNCHANGED k
      BY <1>4, <2>3 DEF TransNext
    <3>2. call' = [call EXCEPT ![th] = d] /\ got' = [got EXCEPT ![th] = f]
      BY <1>1, <3>1 DEF Shape
    <3>3. Pure(f)
      <4> HIDE DEF id, g
      <4>1. <<>> \in Seq(Read) /\ \A j \in 1..Len(<<>>) : <<>>[j] # Junk
        BY EmptySeq
      <4>2. QED
        BY <1>1, <2>1, <4>1, PureAppend
    <3>4. /\ pc' = [pc EXCEPT ![th] = "formula"] /\ k' = [k EXCEPT ![th] = k[th]]
          /\ call' = [call EXCEPT ![th] = d] /\ got' = [got EXCEPT ![th] = f]
      BY <1>2, <3>1, <3>2
    <3> HIDE DEF d, f, ps, id, c, g
    <3>5. QED
      BY <1>3, <3>3, <3>4
  <2>4. CASE id + 1 \in DOMAIN Trans /\ ~Trans[id + 1].formula /\ v # Missing
    <3>1. /\ got' = [got EXCEPT ![th] = Append(@, [id |-> id, vals |-> <<v>>])]
          /\ call' = [call EXCEPT ![th].id = id]
          /\ k' = [k EXCEPT ![th] = k[th] + 1]
          /\ UNCHANGED pc
      BY <1>4, <2>4 DEF TransNext
    <3>2. /\ call' = [call EXCEPT ![th] = e] /\ got' = [got EXCEPT ![th] = h]
          /\ pc' = [pc EXCEPT ![th] = "trans"]
      BY <1>1, <1>2, <2>1, <3>1 DEF Shape
    <3>3. v \in Read /\ v # Junk
      BY <1>1, HeldType, HeldClean
    <3>4. Pure(h)
      <4> HIDE DEF id, v, g
      <4>1. <<v>> \in Seq(Read) /\ \A j \in 1..Len(<<v>>) : <<v>>[j] # Junk
        BY <3>3
      <4>2. QED
        BY <1>1, <2>1, <4>1, PureAppend
    <3> HIDE DEF e, h, v, ps, id, c, g
    <3>5. QED
      BY <1>3, <3>1, <3>2, <3>4
  <2>5. QED
    BY <1>4, <2>2, <2>3, <2>4 DEF TransNext
<1>5. CASE Operand(th)
  <2> DEFINE ps == c.formula
             v  == Held(ps[Len(g[Len(g)].vals) + 1])
             h  == [g EXCEPT ![Len(g)].vals = Append(@, v)]
  <2>1. g # <<>> /\ pc[th] = "formula"
    BY <1>1, <1>5 DEF Operand, GoodAt, Good
  <2>2. got' = [got EXCEPT ![th][Len(got[th])].vals = Append(@, v)] /\ UNCHANGED call
    BY <1>5 DEF Operand
  <2>3. got' = [got EXCEPT ![th] = h]
    BY <1>1, <2>2 DEF Shape
  <2>4. v \in Read /\ v # Junk
    BY <1>1, HeldType, HeldClean
  <2>5. Pure(h)
    <3> HIDE DEF v, g
    <3>1. QED
      BY <1>1, <2>1, <2>4, PureOperand
  <2> HIDE DEF h
  <2>6. \/ UNCHANGED <<pc, k>>
        \/ pc' = [pc EXCEPT ![th] = "done"] /\ UNCHANGED k
        \/ pc' = [pc EXCEPT ![th] = "trans"] /\ k' = [k EXCEPT ![th] = k[th] + 1]
    BY <1>5 DEF Operand
  <2> HIDE DEF c, g
  <2>7. CASE UNCHANGED <<pc, k>>
    <3>1. /\ pc' = [pc EXCEPT ![th] = "formula"] /\ k' = [k EXCEPT ![th] = k[th]]
          /\ call' = [call EXCEPT ![th] = c]
      BY <1>2, <2>1, <2>2, <2>7
    <3>2. QED
      BY <1>3, <2>3, <2>5, <3>1
  <2>8. CASE pc' = [pc EXCEPT ![th] = "done"] /\ UNCHANGED k
    BY <1>2, <1>3, <2>2, <2>3, <2>5, <2>8
  <2>9. CASE pc' = [pc EXCEPT ![th] = "trans"] /\ k' = [k EXCEPT ![th] = k[th] + 1]
    BY <1>2, <1>3, <2>2, <2>3, <2>5, <2>9
  <2>10. QED
    BY <2>6, <2>7, <2>8, <2>9
<1>6. CASE EndTrans(th)
  <2>1. pc' = [pc EXCEPT ![th] = "done"] /\ UNCHANGED <<call, k, got>>
    BY <1>6 DEF EndTrans
  <2> HIDE DEF c, g
  <2>2. QED
    BY <1>1, <1>2, <1>3, <2>1
<1>7. CASE Use(th)
  BY <1>1, <1>7, FirstReturn DEF Use
<1>8. QED
  BY <1>4, <1>5, <1>6, <1>7

LEMMA FirstInit == Init => SInv
<1> SUFFICES ASSUME Init PROVE SInv
  OBVIOUS
<1>1. Clean
  BY ValueAssumption DEF Init, Clean
<1>2. ASSUME NEW th \in Thread PROVE FirstAt(th)
  BY PureEmpty DEF Init, FirstAt
<1>3. QED
  BY <1>1, <1>2 DEF SInv

LEMMA FirstStep ==
    ASSUME BlocksBeginFirst, IInv, SInv, [Next]_vars
    PROVE  SInv'
<1>1. ASSUME NEW th \in Thread, Begin(th) PROVE SInv'
  BY <1>1, FirstBegin
<1>2. ASSUME NEW th \in Thread, Locked(th) \/ UpdateValue(th) \/ GetValue(th) \/ BeginBlock(th)
      PROVE  SInv'
  BY <1>2, FirstPoint, FirstBlock DEF Locked
<1>3. ASSUME NEW th \in Thread, TransNext(th) \/ Operand(th) \/ EndTrans(th) \/ Use(th)
      PROVE  SInv'
  BY <1>3, FirstTrans
<1>4. CASE UNCHANGED vars
  BY <1>4 DEF vars, SInv, Clean, FirstAt
<1>5. QED
  BY <1>1, <1>2, <1>3, <1>4 DEF Next

LEMMA FirstInvariance == BlocksBeginFirst => (Spec => []SInv)
<1>1. Init => SInv
  BY FirstInit
<1>2. BlocksBeginFirst /\ IInv /\ SInv /\ [Next]_vars => SInv'
  BY FirstStep
<1>3. BlocksBeginFirst => BlocksBeginFirst'
  BY DEF BlocksBeginFirst
<1>4. QED
  BY <1>1, <1>2, <1>3, Invariance, PTL DEF Spec

(* As long as blocks begin at the first point, no point of any table and no   *)
(* value handed to any caller is anything but what a plugin stored: neither   *)
(* loop of updateMultiValue and getMultiValue leaves its vectors, whatever    *)
(* the threads, the tables and the sizes of the blocks.                      *)
THEOREM OnlyStoredValuesHolds == Spec => []OnlyStoredValues
<1>1. SInv => OnlyStoredValues
  BY DEF SInv, Clean, FirstAt, Pure, OnlyStoredValues
<1>2. ~BlocksBeginFirst => OnlyStoredValues
  BY DEF OnlyStoredValues
<1>3. ~BlocksBeginFirst => (~BlocksBeginFirst)'
  BY DEF BlocksBeginFirst
<1>4. QED
  BY <1>1, <1>2, <1>3, FirstInvariance, PTL
-----------------------------------------------------------------------------
(* The refinement.                                                         *)

(* What the mapping makes of the entries a thread has read, and of a thread.  *)
Reads(g) == [j \in 1..Len(g) |-> g[j].vals]

Rep(p, c, v, g) ==
    IF p = "block" /\ c.op = "getMulti"
    THEN [j \in 1..MinSize(c) |-> <<v[c.table][c.id + j - 1]>>]
    ELSE Reads(g)

(* The only thread that can be in a block is the one that holds the mutex.    *)
Writer(th) == pc[th] = "block" /\ call[th].op = "updateMulti"

Mid(th) ==
    [t \in Table |-> [i \in Points(t) |->
        IF t = call[th].table /\ i \in k[th]..(MinSize(call[th]) - 1)
        THEN call[th].data[i + 1] ELSE value[t][i]]]

PointsForm ==
    /\ \A th \in Thread : Writer(th) => points = Mid(th)
    /\ (\A th \in Thread : ~Writer(th)) => points = value

LEMMA ReadsType ==
    ASSUME NEW g \in Seq(Entry)
    PROVE  Reads(g) \in Seq(Seq(Read)) /\ Len(Reads(g)) = Len(g)
<1>1. Len(g) \in Nat /\ \A j \in 1..Len(g) : g[j] \in Entry
  BY LenProperties, ElementOfSeq
<1>2. \A j \in 1..Len(g) : g[j].vals \in Seq(Read)
  BY <1>1 DEF Entry, Read
<1>3. QED
  BY <1>1, <1>2 DEF Reads

LEMMA ReadsEmpty == Reads(<<>>) = <<>>
<1>1. Reads(<<>>) \in Seq(Seq(Read)) /\ Len(Reads(<<>>)) = 0
  BY EmptySeq, ReadsType
<1>2. QED
  BY <1>1, EmptySeq

LEMMA ReadsAppend ==
    ASSUME NEW g \in Seq(Entry), NEW i \in Int, NEW vs \in Seq(Read)
    PROVE  Reads(Append(g, [id |-> i, vals |-> vs])) = Append(Reads(g), vs)
<1> DEFINE e == [id |-> i, vals |-> vs]
           h == Append(g, e)
<1>1. e \in Entry /\ e.vals = vs
  BY DEF Entry, Read
<1> HIDE DEF e
<1>2. /\ Len(g) \in Nat /\ h \in Seq(Entry) /\ Len(h) = Len(g) + 1 /\ h[Len(g) + 1] = e
      /\ \A x \in 1..Len(g) : h[x] = g[x]
  BY <1>1, AppendProperties, LenProperties
<1>3. Reads(g) \in Seq(Seq(Read)) /\ Len(Reads(g)) = Len(g)
  BY ReadsType
<1>4. /\ Append(Reads(g), vs) \in Seq(Seq(Read)) /\ Len(Append(Reads(g), vs)) = Len(g) + 1
      /\ Append(Reads(g), vs)[Len(g) + 1] = vs
      /\ \A x \in 1..Len(g) : Append(Reads(g), vs)[x] = Reads(g)[x]
  BY <1>3, AppendProperties
<1> HIDE DEF h
<1>5. Reads(h) \in Seq(Seq(Read)) /\ Len(Reads(h)) = Len(g) + 1
  BY <1>2, ReadsType
<1>6. ASSUME NEW x \in 1..(Len(g) + 1) PROVE Reads(h)[x] = Append(Reads(g), vs)[x]
  <2>1. Reads(h)[x] = h[x].vals
    BY <1>2 DEF Reads
  <2>2. x \in 1..Len(g) \/ x = Len(g) + 1
    BY <1>2
  <2>3. x \in 1..Len(g) => Reads(g)[x] = g[x].vals
    BY DEF Reads
  <2>4. QED
    BY <1>1, <1>2, <1>4, <2>1, <2>2, <2>3
<1>7. Reads(h) = Append(Reads(g), vs)
  <2> HIDE DEF Reads
  <2>1. QED
    BY <1>4, <1>5, <1>6, SeqEqual
<1>8. QED
  BY <1>7 DEF h, e

LEMMA ReadsOperand ==
    ASSUME NEW g \in Seq(Entry), g # <<>>, NEW v \in Read
    PROVE  /\ Reads(g) # <<>>
           /\ Reads([g EXCEPT ![Len(g)].vals = Append(@, v)])
                = [Reads(g) EXCEPT ![Len(Reads(g))] = Append(@, v)]
<1> DEFINE h == [g EXCEPT ![Len(g)].vals = Append(@, v)]
           r == Reads(g)
           s == [r EXCEPT ![Len(r)] = Append(@, v)]
<1>1. /\ Len(g) \in Nat \ {0} /\ g[Len(g)].vals \in Seq(Read)
      /\ h \in Seq(Entry) /\ Len(h) = Len(g)
      /\ h[Len(h)].vals = Append(g[Len(g)].vals, v)
      /\ \A i \in 1..(Len(g) - 1) : h[i] = g[i]
  BY OperandEntry
<1>2. r \in Seq(Seq(Read)) /\ Len(r) = Len(g)
  BY ReadsType
<1>3. r # <<>>
  <2> HIDE DEF r
  <2>1. QED
    BY <1>1, <1>2, EmptySeq
<1>4. r[Len(r)] = g[Len(g)].vals
  BY <1>1, <1>2 DEF Reads
<1>5. Append(r[Len(r)], v) \in Seq(Read)
  BY <1>1, <1>4, AppendProperties
<1>6. /\ s \in Seq(Seq(Read)) /\ Len(s) = Len(g)
      /\ \A i \in 1..Len(g) : s[i] = IF i = Len(g) THEN Append(r[Len(r)], v) ELSE r[i]
  <2>1. Len(r) \in 1..Len(r)
    BY <1>1, <1>2
  <2> HIDE DEF r
  <2>2. QED
    BY <1>2, <1>5, <2>1, ExceptSeq
<1> HIDE DEF h
<1>7. Reads(h) \in Seq(Seq(Read)) /\ Len(Reads(h)) = Len(g)
  BY <1>1, ReadsType
<1>8. ASSUME NEW i \in 1..Len(g) PROVE Reads(h)[i] = s[i]
  <2>1. Reads(h)[i] = h[i].vals /\ r[i] = g[i].vals
    BY <1>1 DEF Reads
  <2>2. i = Len(g) \/ i \in 1..(Len(g) - 1)
    BY <1>1
  <2> HIDE DEF s, r
  <2>3. QED
    BY <1>1, <1>4, <1>6, <2>1, <2>2
<1>9. Reads(h) = s
  <2> HIDE DEF s, r, Reads
  <2>1. QED
    BY <1>6, <1>7, <1>8, SeqEqual
<1>10. QED
  BY <1>3, <1>9 DEF h

LEMMA ReplyIs ==
    /\ reply = [th \in Thread |-> Rep(pc[th], call[th], value, got[th])]
    /\ reply' = [th \in Thread |-> Rep(pc'[th], call'[th], value', got'[th])]
BY DEF reply, Rep, Reads, InBlock

(* A step that changes the variables of one thread changes its reply only.    *)
LEMMA ReplyChange ==
    ASSUME IInv, NEW th \in Thread, NEW p, NEW c, NEW g,
           pc' = [pc EXCEPT ![th] = p], call' = [call EXCEPT ![th] = c],
           got' = [got EXCEPT ![th] = g],
           UNCHANGED value \/ lock \in {th, NoThread}
    PROVE  /\ reply' = [reply EXCEPT ![th] = Rep(p, c, value', g)]
           /\ reply[th] = Rep(pc[th], call[th], value, got[th])
<1>1. Shape /\ LockOK
  BY DEF IInv
<1>2. /\ pc'[th] = p /\ call'[th] = c /\ got'[th] = g
      /\ \A q \in Thread \ {th} : pc'[q] = pc[q] /\ call'[q] = call[q] /\ got'[q] = got[q]
  BY <1>1 DEF Shape
<1>3. ASSUME NEW q \in Thread \ {th}
      PROVE  Rep(pc'[q], call'[q], value', got'[q]) = Rep(pc[q], call[q], value, got[q])
  <2>1. pc[q] = "block" => UNCHANGED value
    BY <1>1, ThreadAssumption DEF LockOK
  <2>2. CASE pc[q] = "block"
    <3>1. pc'[q] = pc[q] /\ call'[q] = call[q] /\ got'[q] = got[q] /\ value' = value
      BY <1>2, <2>1, <2>2
    <3>2. QED
      BY <3>1
  <2>3. CASE pc[q] # "block"
    BY <1>2, <2>3 DEF Rep
  <2>4. QED
    BY <2>2, <2>3
<1>4. QED
  BY <1>2, <1>3, ReplyIs

LEMMA PointsAre == IInv /\ SInv => PointsForm
<1> SUFFICES ASSUME IInv, SInv PROVE PointsForm
  OBVIOUS
<1>1. Shape /\ LockOK
  BY DEF IInv
<1>2. ASSUME NEW th \in Thread, Writer(th) PROVE points = Mid(th)
  <2>1. pc[th] = "block" /\ lock = th /\ call[th].op = "updateMulti" /\ call[th].id = 0
    BY <1>2, BlockFacts DEF Writer
  <2>2. ASSUME NEW q \in Thread, NEW t, NEW i, Stores(q, t, i) PROVE q = th
    BY <1>1, <2>1, <2>2 DEF LockOK, Stores, InBlock
  <2>3. ASSUME NEW t \in Table, NEW i \in Points(t)
        PROVE  Stores(th, t, i) <=>
                  t = call[th].table /\ i \in k[th]..(MinSize(call[th]) - 1)
    <3>1. i \in Int
      BY TableAssumption DEF Points
    <3>2. QED
      BY <2>1, <3>1 DEF Stores, InBlock
  <2>4. ASSUME NEW t \in Table, NEW i \in Points(t)
        PROVE  points[t][i] = Mid(th)[t][i]
    <3>1. i \in Int /\ i - call[th].id + 1 = i + 1
      BY <2>1, TableAssumption DEF Points
    <3>2. CASE Stores(th, t, i)
      <4>1. (CHOOSE q \in Thread : Stores(q, t, i)) = th
        BY <2>2, <3>2
      <4>2. points[t][i] = call[th].data[i - call[th].id + 1]
        BY <3>2, <4>1 DEF points
      <4>3. QED
        BY <2>3, <3>1, <3>2, <4>2 DEF Mid
    <3>3. CASE ~Stores(th, t, i)
      <4>1. points[t][i] = value[t][i]
        BY <2>2, <3>3 DEF points
      <4>2. QED
        BY <2>3, <3>3, <4>1 DEF Mid
    <3>4. QED
      BY <3>2, <3>3
  <2>5. /\ points = [t \in Table |-> [i \in Points(t) |-> points[t][i]]]
        /\ Mid(th) = [t \in Table |-> [i \in Points(t) |-> Mid(th)[t][i]]]
    BY DEF points, Mid
  <2>6. QED
    BY <2>4, <2>5
<1>3. ASSUME \A th \in Thread : ~Writer(th) PROVE points = value
  <2>1. \A q \in Thread : \A t \in Table : \A i \in Points(t) : ~Stores(q, t, i)
    BY <1>3 DEF Writer, Stores, InBlock
  <2>2. points = [t \in Table |-> [i \in Points(t) |-> value[t][i]]]
    BY <2>1 DEF points
  <2>3. \A t \in Table : value[t] = [i \in Points(t) |-> value[t][i]]
    BY <1>1 DEF Shape
  <2>4. value = [t \in Table |-> value[t]]
    BY DEF SInv, Clean
  <2>5. QED
    BY <2>2, <2>3, <2>4
<1>4. QED
  BY <1>2, <1>3 DEF PointsForm

LEMMA PointsAreNext == (IInv /\ SInv)' => PointsForm'
BY PointsAre, PTL

(* Unless the mutex is held by a writer, the points are the values.          *)
LEMMA PointsFree ==
    ASSUME IInv, SInv, NEW th \in Thread, lock \in {th, NoThread}, ~Writer(th)
    PROVE  points = value
<1>1. \A q \in Thread : ~Writer(q)
  BY ThreadAssumption DEF IInv, LockOK, Writer
<1>2. QED
  BY <1>1, PointsAre DEF PointsForm

(* A step that leaves the values alone, of a thread that is no writer.        *)
LEMMA PointsSame ==
    ASSUME IInv, SInv, IInv', SInv', NEW th \in Thread, NEW p, NEW c, NEW n,
           pc' = [pc EXCEPT ![th] = p], call' = [call EXCEPT ![th] = c],
           k' = [k EXCEPT ![th] = n], UNCHANGED value,
           ~Writer(th), ~(p = "block" /\ c.op = "updateMulti")
    PROVE  UNCHANGED points
<1>1. Shape
  BY DEF IInv
<1>2. /\ pc'[th] = p /\ call'[th] = c
      /\ \A q \in Thread \ {th} : pc'[q] = pc[q] /\ call'[q] = call[q] /\ k'[q] = k[q]
  BY <1>1 DEF Shape
<1>3. PointsForm /\ PointsForm'
  BY PointsAre, PointsAreNext
<1>4. ~(Writer(th)') /\ \A q \in Thread \ {th} : Writer(q)' <=> Writer(q)
  BY <1>2 DEF Writer
<1>5. CASE \E q \in Thread : Writer(q)
  <2>1. PICK q \in Thread : Writer(q)
    BY <1>5
  <2>2. q # th
    BY <2>1
  <2>3. points = Mid(q) /\ points' = Mid(q)'
    BY <1>3, <1>4, <2>1, <2>2 DEF PointsForm
  <2>4. Mid(q)' = Mid(q)
    BY <1>2, <2>2 DEF Mid
  <2>5. QED
    BY <2>3, <2>4
<1>6. CASE \A q \in Thread : ~Writer(q)
  <2>1. \A q \in Thread : ~(Writer(q)')
    BY <1>4, <1>6
  <2>2. points = value /\ points' = value'
    BY <1>3, <1>6, <2>1 DEF PointsForm
  <2>3. QED
    BY <2>2
<1>7. QED
  BY <1>5, <1>6

(* A thread that has the mutex, or takes it, and is no writer afterwards.     *)
LEMMA PointsAfter ==
    ASSUME IInv, SInv, IInv', SInv', NEW th \in Thread, NEW p, NEW c,
           pc' = [pc EXCEPT ![th] = p], call' = [call EXCEPT ![th] = c],
           lock \in {th, NoThread}, ~(p = "block" /\ c.op = "updateMulti")
    PROVE  points' = value'
<1>1. Shape /\ LockOK
  BY DEF IInv
<1>2. \A q \in Thread : ~(Writer(q)')
  BY <1>1, ThreadAssumption DEF Shape, LockOK, Writer
<1>3. QED
  BY <1>2, PointsAreNext DEF PointsForm

LEMMA HeldIsPoint ==
    ASSUME points = value, NEW p
    PROVE  Held(p) = Missing \/ \E t \in Table : \E i \in Points(t) : Held(p) = points[t][i]
BY TableAssumption DEF Held

(* Calls begin, and a lookup ends, without reading anything.                 *)
LEMMA RefBegin ==
    ASSUME IInv, SInv, IInv', SInv', NEW th \in Thread, Begin(th)
    PROVE  [A!SNext]_A!svars
<1>1. /\ Shape /\ pc[th] = "idle" /\ got[th] = <<>> /\ UNCHANGED value /\ k = [k EXCEPT ![th] = k[th]]
  BY Same DEF IInv, Begin, Call, CallWhere, CallTrans, CallExpr, GoodAt, Good
<1>2. ~Writer(th) /\ got = [got EXCEPT ![th] = <<>>] /\ UNCHANGED k
  BY <1>1, Same DEF Writer, Begin, Call, CallWhere, CallTrans, CallExpr
<1>3. ASSUME NEW p \in {"ready", "index", "trans"}, NEW c,
             pc' = [pc EXCEPT ![th] = p], call' = [call EXCEPT ![th] = c], UNCHANGED got
      PROVE  [A!SNext]_A!svars
  <2>1. UNCHANGED points
    BY <1>1, <1>2, <1>3, PointsSame
  <2>2. /\ reply' = [reply EXCEPT ![th] = Rep(p, c, value', <<>>)]
        /\ reply[th] = Rep(pc[th], call[th], value, got[th])
    BY <1>1, <1>2, <1>3, ReplyChange
  <2>3. reply' = [reply EXCEPT ![th] = reply[th]]
    BY <1>1, <1>3, <2>2 DEF Rep
  <2>4. UNCHANGED reply
    BY <2>3 DEF reply
  <2>5. QED
    BY <2>1, <2>4 DEF A!svars
<1>4. ASSUME NEW ps \in Formula, CallExpr(th, ps) PROVE [A!SNext]_A!svars
  <2> DEFINE c == [op |-> "expr", formula |-> ps]
             g == <<[id |-> 0, vals |-> <<>>]>>
  <2>1. /\ pc' = [pc EXCEPT ![th] = "formula"] /\ call' = [call EXCEPT ![th] = c]
        /\ got' = [got EXCEPT ![th] = g]
    BY <1>4 DEF CallExpr
  <2> HIDE DEF c
  <2>2. UNCHANGED points
    BY <1>1, <1>2, <2>1, PointsSame
  <2>3. /\ reply' = [reply EXCEPT ![th] = Rep("formula", c, value', g)]
        /\ reply[th] = Rep(pc[th], call[th], value, got[th])
    <3> HIDE DEF g
    <3>1. QED
      BY <1>1, <2>1, ReplyChange
  <2>4. reply[th] = <<>>
    BY <1>1, <2>3, ReadsEmpty DEF Rep
  <2>5. g = Append(<<>>, [id |-> 0, vals |-> <<>>])
    OBVIOUS
  <2>6. <<>> \in Seq(Entry) /\ <<>> \in Seq(Read)
    BY EmptySeq
  <2>7. Reads(g) = Append(<<>>, <<>>)
    <3> DEFINE z == <<>>
    <3>1. g = Append(<<>>, [id |-> 0, vals |-> z]) /\ z \in Seq(Read) /\ 0 \in Int
      BY <2>5, <2>6
    <3>2. Reads(g) = Append(<<>>, z)
      <4> HIDE DEF z, g
      <4>1. QED
        BY <2>6, <3>1, ReadsAppend, ReadsEmpty
    <3>3. QED
      BY <3>2
  <2>8. reply' = [reply EXCEPT ![th] = Append(@, <<>>)]
    <3> HIDE DEF g
    <3>1. QED
      BY <2>3, <2>4, <2>7 DEF Rep
  <2>9. A!BeginFormula(th)
    BY <2>2, <2>8 DEF A!BeginFormula
  <2>10. QED
    BY <2>9 DEF A!SNext
<1>5. QED
  BY <1>3, <1>4 DEF Begin, Call, CallWhere, CallTrans

(* A call that returns forgets what it has read.                            *)
LEMMA RefReturn ==
    ASSUME IInv, NEW th \in Thread, Return(th),
           UNCHANGED value \/ lock \in {th, NoThread}
    PROVE  /\ reply' = [reply EXCEPT ![th] = <<>>]
           /\ (got[th] = <<>> /\ (pc[th] = "block" => call[th].op # "getMulti")) => UNCHANGED reply
<1>1. /\ reply' = [reply EXCEPT ![th] = Rep("idle", NoCall, value', <<>>)]
      /\ reply[th] = Rep(pc[th], call[th], value, got[th])
  BY ReplyChange DEF Return
<1>2. Rep("idle", NoCall, value', <<>>) = <<>>
  BY ReadsEmpty DEF Rep
<1>3. ASSUME got[th] = <<>>, pc[th] = "block" => call[th].op # "getMulti"
      PROVE  UNCHANGED reply
  <2>1. reply[th] = <<>>
    BY <1>1, <1>3, ReadsEmpty DEF Rep
  <2>2. reply' = [reply EXCEPT ![th] = reply[th]]
    BY <1>1, <1>2, <2>1
  <2>3. QED
    BY <2>2 DEF reply
<1>4. QED
  BY <1>1, <1>2, <1>3

LEMMA RefPoint ==
    ASSUME IInv, SInv, IInv', SInv', NEW th \in Thread,
           EndIndex(th) \/ UpdateValue(th) \/ GetValue(th)
    PROVE  [A!SNext]_A!svars
<1> DEFINE c == call[th]
<1>1. /\ Shape /\ LockOK /\ GoodAt(th) /\ pc[th] \in {"index", "ready"}
      /\ c \in PointCall /\ got[th] = <<>> /\ lock \in {th, NoThread}
  BY DEF IInv, EndIndex, UpdateValue, GetValue, GoodAt, Good, LockOK
<1>2. /\ pc = [pc EXCEPT ![th] = pc[th]] /\ call = [call EXCEPT ![th] = c]
      /\ k = [k EXCEPT ![th] = k[th]] /\ got = [got EXCEPT ![th] = got[th]]
  BY <1>1, Same
<1>3. ~Writer(th)
  BY <1>1 DEF Writer
<1>4. points = value
  BY <1>1, <1>3, PointsFree
<1>5. ASSUME Return(th) PROVE UNCHANGED reply /\ points' = value'
  <2>1. UNCHANGED reply
    BY <1>1, <1>5, RefReturn
  <2>2. points' = value'
    BY <1>1, <1>5, PointsAfter DEF Return
  <2>3. QED
    BY <2>1, <2>2
<1>6. CASE Return(th) /\ UNCHANGED value
  BY <1>4, <1>5, <1>6 DEF A!svars
<1>7. CASE EndIndex(th) /\ c.table \in Known /\ c.id >= 0
  <2>1. pc' = [pc EXCEPT ![th] = "ready"] /\ UNCHANGED <<call, k, got, value>>
    BY <1>7 DEF EndIndex
  <2>2. points' = value'
    <3> HIDE DEF c
    <3>1. QED
      BY <1>1, <1>2, <2>1, PointsAfter
  <2>3. UNCHANGED reply
    <3> HIDE DEF c
    <3>1. /\ reply' = [reply EXCEPT ![th] = Rep("ready", c, value', got[th])]
          /\ reply[th] = Rep(pc[th], call[th], value, got[th])
      BY <1>2, <2>1, ReplyChange
    <3>2. reply' = [reply EXCEPT ![th] = reply[th]]
      BY <1>1, <3>1 DEF Rep
    <3>3. QED
      BY <3>2 DEF reply
  <2>4. QED
    BY <1>4, <2>1, <2>2, <2>3 DEF A!svars
<1>8. ASSUME InRange(c)
      PROVE  /\ c.table \in Table /\ c.id \in A!Points(c.table) /\ c.id \in Points(c.table)
             /\ 1 \in 1..(Size[c.table] - c.id)
  BY <1>8, TableAssumption DEF InRange, Points, A!Points
<1>9. CASE UpdateValue(th) /\ InRange(c)
  <2> DEFINE d == c.data
  <2>1. /\ value' = [value EXCEPT ![c.table][c.id] = d[1]] /\ Return(th)
        /\ c.op = "update"
    BY <1>9 DEF UpdateValue
  <2>2. d \in Seq(Value) /\ Len(d) = 1
    BY <1>1, <2>1 DEF GoodAt, Good, PointCall
  <2>3. d \in [1..1 -> Value]
    <3> HIDE DEF d
    <3>1. QED
      BY <2>2, LenProperties
  <2>4. points' = value' /\ UNCHANGED reply
    BY <1>5, <2>1
  <2>5. value' = [value EXCEPT ![c.table] =
           [i \in A!Points(c.table) |->
               IF i \in c.id..(c.id + Len(d) - 1) THEN d[i - c.id + 1] ELSE @[i]]]
    <3> DEFINE t == c.table
               b == [i \in A!Points(t) |->
                       IF i \in c.id..(c.id + Len(d) - 1) THEN d[i - c.id + 1] ELSE value[t][i]]
    <3>1. value[t] \in [Points(t) -> Stored] /\ c.id \in Points(t) /\ c.id \in Int
      BY <1>1, <1>8, <1>9 DEF Shape, PointCall
    <3>2. A!Points(t) = Points(t) /\ \A i \in Points(t) : i \in Int
      BY <1>8, <1>9, TableAssumption DEF Points, A!Points
    <3>3. \A i \in Points(t) : i \in c.id..(c.id + Len(d) - 1) <=> i = c.id
      BY <2>2, <3>1, <3>2
    <3>4. b = [value[t] EXCEPT ![c.id] = d[1]]
      <4>1. c.id - c.id + 1 = 1
        BY <3>1
      <4> HIDE DEF t, d
      <4>2. QED
        BY <3>1, <3>2, <3>3, <4>1
    <3>5. value' = [value EXCEPT ![t] = [value[t] EXCEPT ![c.id] = d[1]]]
      BY <2>1
    <3>6. value' = [value EXCEPT ![t] = b]
      BY <3>4, <3>5
    <3>7. QED
      BY <3>6
  <2>6. A!WriteBlock(c.table, c.id, d)
    <3> HIDE DEF d, c
    <3>1. QED
      BY <1>4, <2>4, <2>5 DEF A!WriteBlock
  <2> HIDE DEF c, d
  <2>7. QED
    BY <1>8, <1>9, <2>3, <2>6 DEF A!SNext
<1>10. CASE GetValue(th) /\ InRange(c)
  <2> DEFINE v == value[c.table][c.id]
             g == <<[id |-> c.id, vals |-> <<v>>]>>
  <2>1. /\ got' = [got EXCEPT ![th] = g] /\ pc' = [pc EXCEPT ![th] = "done"]
        /\ UNCHANGED <<call, k, value>>
    BY <1>10 DEF GetValue
  <2>2. v \in Read /\ c.id \in Int
    BY <1>1, <1>8, <1>10 DEF Shape, Read, PointCall
  <2>3. Reads(g) = Append(<<>>, <<v>>)
    <3> HIDE DEF v, c
    <3>1. g = Append(<<>>, [id |-> c.id, vals |-> <<v>>])
      OBVIOUS
    <3>2. <<>> \in Seq(Entry) /\ <<v>> \in Seq(Read)
      BY <2>2, EmptySeq
    <3>3. QED
      BY <2>2, <3>1, <3>2, ReadsAppend, ReadsEmpty
  <2> HIDE DEF g, c
  <2>4. /\ reply' = [reply EXCEPT ![th] = Rep("done", c, value', g)]
        /\ reply[th] = Rep(pc[th], call[th], value, got[th])
    BY <1>2, <2>1, ReplyChange
  <2>5. reply[th] = <<>>
    BY <1>1, <2>4, ReadsEmpty DEF Rep
  <2>6. reply' = [reply EXCEPT ![th] = Append(@, <<v>>)]
    <3> HIDE DEF v
    <3>1. QED
      BY <2>3, <2>4, <2>5 DEF Rep
  <2>7. UNCHANGED points
    BY <1>1, <1>2, <1>4, <2>1, PointsAfter
  <2>8. A!ReadNext(th, points[c.table][c.id])
    BY <1>4, <2>6, <2>7 DEF A!ReadNext
  <2>9. QED
    BY <1>8, <1>10, <2>8 DEF A!SNext
<1>11. QED
  BY <1>6, <1>7, <1>9, <1>10 DEF EndIndex, UpdateValue, GetValue

(* A block is stored or read when its thread takes the lock.                 *)
LEMMA RefBeginBlock ==
    ASSUME IInv, SInv, IInv', SInv', NEW th \in Thread, BeginBlock(th)
    PROVE  [A!SNext]_A!svars
<1> DEFINE c == call[th]
           n == MinSize(c)
           d == [j \in 1..n |-> c.data[j]]
<1>1. /\ Shape /\ pc[th] = "ready" /\ c.op \in Multi /\ lock = NoThread
      /\ c \in PointCall /\ got[th] = <<>> /\ k[th] = 0 /\ UNCHANGED value
  BY DEF IInv, BeginBlock, GoodAt, Good
<1>2. /\ call = [call EXCEPT ![th] = c]
      /\ k = [k EXCEPT ![th] = k[th]] /\ got = [got EXCEPT ![th] = got[th]]
  BY <1>1, Same
<1>3. points = value
  BY <1>1, PointsFree DEF Writer
<1>4. CASE ~InRange(c)
  <2>1. Return(th)
    BY <1>4 DEF BeginBlock
  <2>2. UNCHANGED reply
    BY <1>1, <2>1, RefReturn
  <2>3. points' = value'
    BY <1>1, <2>1, PointsAfter DEF Return
  <2>4. QED
    BY <1>1, <1>3, <2>2, <2>3 DEF A!svars
<1>5. CASE InRange(c)
  <2>1. pc' = [pc EXCEPT ![th] = "block"] /\ UNCHANGED <<call, k, got>>
    BY <1>5 DEF BeginBlock
  <2>2. pc'[th] = "block" /\ call'[th] = c /\ k'[th] = 0
    BY <1>1, <2>1 DEF Shape
  <2>3. /\ n \in Nat /\ n <= Size[c.table] /\ Size[c.table] \in Nat /\ c.table \in Table
        /\ c.id \in Nat /\ c.id < Size[c.table] /\ c.id <= 0
    BY <1>1, <1>5, MinSizeType DEF SInv, FirstAt
  <2>4. c.id = 0 /\ 0 \in A!Points(c.table) /\ A!Points(c.table) = Points(c.table)
    BY <2>3 DEF A!Points, Points
  <2>5. n # 0 => n \in 1..(Size[c.table] - 0)
    BY <2>3
  <2>6. /\ reply' = [reply EXCEPT ![th] = Rep("block", c, value', got[th])]
        /\ reply[th] = Rep(pc[th], call[th], value, got[th])
    <3> HIDE DEF c
    <3>1. QED
      BY <1>1, <1>2, <2>1, ReplyChange
  <2>7. reply[th] = <<>>
    BY <1>1, <2>6, ReadsEmpty DEF Rep
  <2>8. CASE c.op = "getMulti"
    <3>1. UNCHANGED points
      <4> HIDE DEF c
      <4>1. points' = value'
        BY <1>1, <1>2, <2>1, <2>8, PointsAfter
      <4>2. QED
        BY <1>1, <1>3, <4>1
    <3>2. reply' = [reply EXCEPT ![th] = [j \in 1..n |-> <<points[c.table][0 + j - 1]>>]]
      BY <1>1, <1>3, <2>4, <2>6, <2>8 DEF Rep
    <3>3. CASE n = 0
      <4>1. [j \in 1..n |-> <<points[c.table][0 + j - 1]>>] = <<>>
        BY <3>3
      <4>2. reply' = [reply EXCEPT ![th] = reply[th]]
        BY <2>7, <3>2, <4>1
      <4>3. UNCHANGED reply
        BY <4>2 DEF reply
      <4>4. QED
        BY <3>1, <4>3 DEF A!svars
    <3>4. CASE n # 0
      <4>1. A!ReadBlock(th, c.table, 0, n)
        BY <3>1, <3>2 DEF A!ReadBlock
      <4> HIDE DEF n, c
      <4>2. QED
        BY <2>3, <2>4, <2>5, <3>4, <4>1 DEF A!SNext
    <3>5. QED
      BY <3>3, <3>4
  <2>9. CASE c.op # "getMulti"
    <3>1. c.op = "updateMulti"
      BY <1>1, <2>9 DEF Multi
    <3>2. UNCHANGED reply
      <4>1. reply' = [reply EXCEPT ![th] = reply[th]]
        BY <1>1, <2>6, <2>7, <2>9, ReadsEmpty DEF Rep
      <4>2. QED
        BY <4>1 DEF reply
    <3>3. points' = Mid(th)'
      BY <2>2, <3>1, PointsAreNext DEF PointsForm, Writer
    <3>4. Mid(th)' = [t \in Table |-> [i \in Points(t) |->
             IF t = c.table /\ i \in 0..(n - 1) THEN c.data[i + 1] ELSE points[t][i]]]
      BY <1>1, <1>3, <2>1, <2>2 DEF Mid
    <3>5. points = [t \in Table |-> [i \in Points(t) |-> points[t][i]]]
      BY DEF points
    <3>6. CASE n = 0
      <4>1. \A i \in Int : i \notin 0..(n - 1)
        BY <3>6
      <4>2. \A t \in Table : \A i \in Points(t) : i \in Int
        BY TableAssumption DEF Points
      <4>3. points' = points
        <5> HIDE DEF n, c
        <5>1. QED
          BY <3>3, <3>4, <3>5, <4>1, <4>2
      <4>4. QED
        BY <3>2, <4>3 DEF A!svars
    <3>7. CASE n # 0
      <4>1. c.data \in Seq(Value) /\ Len(c.data) \in Nat /\ n <= Len(c.data)
        <5>1. c.data \in Seq(Value) /\ Len(c.data) \in Nat
          BY <1>1, LenProperties DEF PointCall
        <5>2. QED
          BY <2>3, <2>4, <3>1, <5>1 DEF MinSize
      <4>2. d \in [1..n -> Value]
        <5>1. \A j \in 1..n : j \in 1..Len(c.data)
          BY <2>3, <4>1
        <5> HIDE DEF n, c
        <5>2. QED
          BY <4>1, <5>1, ElementOfSeq
      <4>3. Len(d) = n /\ \A j \in 1..n : d[j] = c.data[j]
        <5> HIDE DEF n, c
        <5>1. QED
          BY <2>3
      <4>4. ASSUME NEW i \in Points(c.table)
            PROVE  /\ i \in 0..(0 + Len(d) - 1) <=> i \in 0..(n - 1)
                   /\ i \in 0..(n - 1) => d[i - 0 + 1] = c.data[i + 1]
        <5>1. i \in Int
          BY <2>3 DEF Points
        <5> HIDE DEF n, c, d
        <5>2. QED
          BY <2>3, <4>3, <5>1
      <4>5. points' = [points EXCEPT ![c.table] =
               [i \in A!Points(c.table) |->
                   IF i \in 0..(0 + Len(d) - 1) THEN d[i - 0 + 1] ELSE @[i]]]
        <5> DEFINE b == [i \in Points(c.table) |->
                       IF i \in 0..(0 + Len(d) - 1) THEN d[i - 0 + 1] ELSE points[c.table][i]]
        <5>1. points'[c.table] = b
          <6> HIDE DEF n, c, d
          <6>1. QED
            BY <2>3, <3>3, <3>4, <4>4
        <5>2. points' = [points EXCEPT ![c.table] = b]
          <6>1. \A t \in Table \ {c.table} : points'[t] = points[t]
            <7> HIDE DEF n, c, b
            <7>1. QED
              BY <3>3, <3>4, <3>5
          <6>2. points' = [t \in Table |-> points'[t]]
            BY DEF points
          <6>3. points = [t \in Table |-> points[t]]
            BY DEF points
          <6> HIDE DEF n, c, b
          <6>4. QED
            BY <2>3, <5>1, <6>1, <6>2, <6>3
        <5> HIDE DEF n, c, d
        <5>3. QED
          BY <2>4, <5>2
      <4>6. A!WriteBlock(c.table, 0, d)
        <5> HIDE DEF n, c, d
        <5>1. QED
          BY <3>2, <4>5 DEF A!WriteBlock
      <4> HIDE DEF n, c, d
      <4>7. QED
        BY <2>3, <2>4, <2>5, <3>7, <4>2, <4>6 DEF A!SNext
    <3>8. QED
      BY <3>6, <3>7
  <2>10. QED
    BY <2>8, <2>9
<1>6. QED
  BY <1>4, <1>5

(* Inside a block nothing happens that anybody could see.                    *)
LEMMA RefInBlock ==
    ASSUME IInv, SInv, IInv', SInv', NEW th \in Thread,
           UpdateNext(th) \/ GetNext(th) \/ EndBlock(th)
    PROVE  [A!SNext]_A!svars
<1> DEFINE c == call[th]
           n == MinSize(c)
<1>1. pc[th] = "block" /\ Shape /\ LockOK /\ FirstAt(th)
  BY DEF IInv, SInv, UpdateNext, GetNext, EndBlock
<1>2. /\ lock = th /\ c \in PointCall /\ c.op \in Multi /\ c.id = 0 /\ c.table \in Table
      /\ n \in Nat /\ k[th] \in 0..n /\ n <= Size[c.table] /\ Size[c.table] \in Nat
      /\ c.op = "updateMulti" => n <= Len(c.data) /\ got[th] = <<>>
      /\ Len(c.data) \in Nat /\ got[th] \in Seq(Entry)
  BY <1>1, BlockFacts
<1>3. /\ pc = [pc EXCEPT ![th] = pc[th]] /\ call = [call EXCEPT ![th] = c]
      /\ k = [k EXCEPT ![th] = k[th]] /\ got = [got EXCEPT ![th] = got[th]]
  BY <1>1, Same
<1>4. points = Mid(th) \/ (c.op # "updateMulti" /\ points = value)
  BY <1>1, <1>2, PointsAre, PointsFree DEF PointsForm, Writer
<1>5. CASE UpdateNext(th)
  <2>1. /\ c.op = "updateMulti" /\ k[th] < n /\ UNCHANGED <<pc, call, got>>
        /\ k' = [k EXCEPT ![th] = k[th] + 1]
        /\ Assign(c.table, c.id + k[th], IF k[th] < Len(c.data) THEN c.data[k[th] + 1] ELSE Junk)
    BY <1>5 DEF UpdateNext
  <2>2. k[th] < Len(c.data) /\ k[th] \in Points(c.table) /\ c.id + k[th] = k[th]
    BY <1>2, <2>1 DEF Points
  <2>3. value' = [value EXCEPT ![c.table][k[th]] = c.data[k[th] + 1]]
    BY <2>1, <2>2 DEF Assign
  <2>4. k'[th] = k[th] + 1
    BY <1>1, <2>1 DEF Shape
  <2>5. points = Mid(th) /\ points' = Mid(th)'
    <3>1. Writer(th) /\ Writer(th)'
      BY <1>1, <2>1 DEF Writer
    <3>2. QED
      BY <3>1, PointsAre, PointsAreNext DEF PointsForm
  <2>6. ASSUME NEW t \in Table, NEW i \in Points(t)
        PROVE  Mid(th)'[t][i] = Mid(th)[t][i]
    <3>1. i \in Int
      BY TableAssumption DEF Points
    <3>2. CASE t = c.table /\ i = k[th]
      <4>1. value'[t][i] = c.data[i + 1]
        BY <1>1, <1>2, <2>2, <2>3, <3>2 DEF Shape
      <4>2. i \in k[th]..(n - 1) /\ i \notin (k[th] + 1)..(n - 1)
        BY <1>2, <2>1, <3>2
      <4>3. QED
        BY <2>1, <2>4, <3>2, <4>1, <4>2 DEF Mid
    <3>3. CASE ~(t = c.table /\ i = k[th])
      <4>1. value'[t][i] = value[t][i]
        BY <1>1, <1>2, <2>2, <2>3, <3>3 DEF Shape
      <4>2. t = c.table => (i \in k[th]..(n - 1) <=> i \in (k[th] + 1)..(n - 1))
        BY <1>2, <3>1, <3>3
      <4>3. QED
        BY <2>1, <2>4, <4>1, <4>2 DEF Mid
    <3>4. QED
      BY <3>2, <3>3
  <2>7. Mid(th)' = Mid(th)
    <3>1. /\ Mid(th) = [t \in Table |-> [i \in Points(t) |-> Mid(th)[t][i]]]
          /\ Mid(th)' = [t \in Table |-> [i \in Points(t) |-> Mid(th)'[t][i]]]
      BY DEF Mid
    <3>2. QED
      BY <2>6, <3>1
  <2>8. UNCHANGED reply
    <3> HIDE DEF c
    <3>1. /\ reply' = [reply EXCEPT ![th] = Rep(pc[th], c, value', got[th])]
          /\ reply[th] = Rep(pc[th], call[th], value, got[th])
      <4>1. /\ pc' = [pc EXCEPT ![th] = pc[th]] /\ call' = [call EXCEPT ![th] = c]
            /\ got' = [got EXCEPT ![th] = got[th]] /\ lock = th
        BY <1>2, <1>3, <2>1
      <4>2. QED
        BY <4>1, ReplyChange
    <3>2. reply' = [reply EXCEPT ![th] = reply[th]]
      BY <2>1, <3>1 DEF Rep, c
    <3>3. QED
      BY <3>2 DEF reply
  <2>9. QED
    BY <2>5, <2>7, <2>8 DEF A!svars
<1>6. CASE GetNext(th)
  <2>1. /\ c.op = "getMulti" /\ UNCHANGED <<pc, call, value>>
        /\ k' = [k EXCEPT ![th] = k[th] + 1]
    BY <1>6 DEF GetNext
  <2>2. PICK g : got' = [got EXCEPT ![th] = g]
    BY <1>6 DEF GetNext
  <2>3. UNCHANGED points
    <3>1. ~Writer(th) /\ ~(pc[th] = "block" /\ c.op = "updateMulti")
      BY <2>1 DEF Writer
    <3> HIDE DEF c
    <3>2. QED
      BY <1>3, <2>1, <3>1, PointsSame
  <2>4. UNCHANGED reply
    <3> HIDE DEF c
    <3>1. /\ reply' = [reply EXCEPT ![th] = Rep(pc[th], c, value', g)]
          /\ reply[th] = Rep(pc[th], call[th], value, got[th])
      BY <1>3, <2>1, <2>2, ReplyChange
    <3>2. reply' = [reply EXCEPT ![th] = reply[th]]
      BY <1>1, <2>1, <3>1 DEF Rep, c
    <3>3. QED
      BY <3>2 DEF reply
  <2>5. QED
    BY <2>3, <2>4 DEF A!svars
<1>7. CASE EndBlock(th)
  <2>1. k[th] >= n /\ UNCHANGED value
    BY <1>7 DEF EndBlock
  <2>2. k[th] = n
    BY <1>2, <2>1
  <2>3. points = value
    <3>1. CASE points = Mid(th)
      <4>1. \A i \in Int : i \notin k[th]..(n - 1)
        BY <1>2, <2>2
      <4>2. \A t \in Table : \A i \in Points(t) : i \in Int
        BY TableAssumption DEF Points
      <4>3. Mid(th) = [t \in Table |-> [i \in Points(t) |-> value[t][i]]]
        BY <4>1, <4>2 DEF Mid
      <4>4. \A t \in Table : value[t] = [i \in Points(t) |-> value[t][i]]
        BY <1>1 DEF Shape
      <4>5. value = [t \in Table |-> value[t]]
        BY DEF SInv, Clean
      <4>6. QED
        BY <3>1, <4>3, <4>4, <4>5
    <3>2. QED
      BY <1>4, <3>1
  <2>4. CASE c.op # "getMulti"
    <3>1. Return(th) /\ c.op = "updateMulti"
      BY <1>2, <1>7, <2>4 DEF EndBlock, Multi
    <3>2. points' = value'
      BY <1>2, <3>1, PointsAfter DEF Return
    <3>3. UNCHANGED reply
      BY <1>2, <2>4, <3>1, RefReturn
    <3>4. QED
      BY <2>1, <2>3, <3>2, <3>3 DEF A!svars
  <2>5. CASE c.op = "getMulti"
    <3>1. pc' = [pc EXCEPT ![th] = "done"] /\ UNCHANGED <<call, k, got>>
      BY <1>7, <2>5 DEF EndBlock
    <3>2. points' = value'
      <4> HIDE DEF c
      <4>1. QED
        BY <1>2, <1>3, <3>1, PointsAfter
    <3>3. /\ reply' = [reply EXCEPT ![th] = Rep("done", c, value', got[th])]
          /\ reply[th] = Rep(pc[th], call[th], value, got[th])
      <4> HIDE DEF c
      <4>1. QED
        BY <1>3, <2>1, <3>1, ReplyChange
    <3>4. /\ Len(got[th]) = n
          /\ \A j \in 1..n : got[th][j].vals = <<value[c.table][j - 1]>>
      BY <1>1, <2>2, <2>5 DEF FirstAt
    <3>5. reply[th] = [j \in 1..n |-> <<value[c.table][c.id + j - 1]>>]
      BY <1>1, <2>5, <3>3 DEF Rep
    <3>6. Reads(got[th]) = reply[th]
      <4>1. \A j \in 1..n : c.id + j - 1 = j - 1
        BY <1>2
      <4> HIDE DEF c, n
      <4>2. QED
        BY <3>4, <3>5, <4>1 DEF Reads
    <3>7. reply' = [reply EXCEPT ![th] = reply[th]]
      BY <3>3, <3>6 DEF Rep
    <3>8. UNCHANGED reply
      BY <3>7 DEF reply
    <3>9. QED
      BY <2>1, <2>3, <3>2, <3>8 DEF A!svars
  <2>6. QED
    BY <2>4, <2>5
<1>8. QED
  BY <1>5, <1>6, <1>7

LEMMA RefTrans ==
    ASSUME IInv, SInv, IInv', SInv', NEW th \in Thread,
           TransNext(th) \/ Operand(th) \/ EndTrans(th) \/ Use(th)
    PROVE  [A!SNext]_A!svars
<1> DEFINE c == call[th]
           g == got[th]
<1>1. /\ Shape /\ LockOK /\ GoodAt(th) /\ g \in Seq(Entry) /\ UNCHANGED value
      /\ pc[th] \in {"trans", "formula", "done"}
  BY DEF IInv, Shape, TransNext, Operand, EndTrans, Use
<1>2. /\ pc = [pc EXCEPT ![th] = pc[th]] /\ call = [call EXCEPT ![th] = c]
      /\ k = [k EXCEPT ![th] = k[th]] /\ got = [got EXCEPT ![th] = got[th]]
  BY <1>1, Same
<1>3. ~Writer(th)
  BY <1>1 DEF Writer
<1>4. ASSUME NEW p \in {"trans", "formula", "done"}, NEW d, NEW n, NEW h,
             pc' = [pc EXCEPT ![th] = p], call' = [call EXCEPT ![th] = d],
             k' = [k EXCEPT ![th] = n], got' = [got EXCEPT ![th] = h]
      PROVE  /\ UNCHANGED points /\ reply[th] = Reads(g)
             /\ reply' = [reply EXCEPT ![th] = Reads(h)]
  <2>1. UNCHANGED points
    BY <1>1, <1>3, <1>4, PointsSame
  <2>2. /\ reply' = [reply EXCEPT ![th] = Rep(p, d, value', h)]
        /\ reply[th] = Rep(pc[th], call[th], value, got[th])
    BY <1>1, <1>4, ReplyChange
  <2>3. QED
    BY <1>1, <2>1, <2>2 DEF Rep
<1>5. CASE Return(th)
  <2>1. UNCHANGED points
    BY <1>1, <1>3, <1>5, PointsSame DEF Return
  <2>2. reply' = [reply EXCEPT ![th] = <<>>]
    BY <1>1, <1>5, RefReturn
  <2>3. A!Forget(th)
    BY <2>1, <2>2 DEF A!Forget
  <2>4. QED
    BY <2>3 DEF A!SNext
<1>6. ASSUME lock = NoThread, NEW p, UNCHANGED points, A!ReadNext(th, Held(p))
      PROVE  A!SNext
  <2>1. points = value
    BY <1>3, <1>6, PointsFree
  <2>2. \/ Held(p) = Missing
        \/ \E t \in Table : \E i \in A!Points(t) : Held(p) = points[t][i]
    BY <2>1, HeldIsPoint DEF Points, A!Points
  <2>3. QED
    BY <1>6, <2>2 DEF A!SNext
<1>7. CASE TransNext(th)
  <2> DEFINE id == NextId(th)
             ps == Trans[id + 1].points
             v  == Held(ps[1])
             f  == Append(g, [id |-> id, vals |-> <<>>])
             h  == Append(g, [id |-> id, vals |-> <<v>>])
             d  == [[c EXCEPT !.id = id] EXCEPT !.formula = ps]
             e  == [c EXCEPT !.id = id]
  <2>1. pc[th] = "trans" /\ id \in Int
    BY <1>1, <1>7 DEF TransNext, GoodAt, Good, TransCall, NextId
  <2>2. CASE id + 1 \in DOMAIN Trans /\ Trans[id + 1].formula
    <3>1. /\ pc' = [pc EXCEPT ![th] = "formula"]
          /\ call' = [call EXCEPT ![th].id = id, ![th].formula = ps]
          /\ got' = [got EXCEPT ![th] = Append(@, [id |-> id, vals |-> <<>>])]
          /\ UNCHANGED k
      BY <1>7, <2>2 DEF TransNext
    <3>2. call' = [call EXCEPT ![th] = d] /\ got' = [got EXCEPT ![th] = f]
      BY <1>1, <3>1 DEF Shape
    <3>3. Reads(f) = Append(Reads(g), <<>>)
      <4> HIDE DEF id, g
      <4>1. <<>> \in Seq(Read)
        BY EmptySeq
      <4>2. QED
        BY <1>1, <2>1, <4>1, ReadsAppend
    <3>4. /\ UNCHANGED points /\ reply[th] = Reads(g)
          /\ reply' = [reply EXCEPT ![th] = Reads(f)]
      <4>1. /\ pc' = [pc EXCEPT ![th] = "formula"] /\ k' = [k EXCEPT ![th] = k[th]]
            /\ call' = [call EXCEPT ![th] = d] /\ got' = [got EXCEPT ![th] = f]
        BY <1>2, <3>1, <3>2
      <4> HIDE DEF d, f, ps, id, c, g
      <4>2. QED
        BY <1>4, <4>1
    <3>5. A!BeginFormula(th)
      <4> HIDE DEF f, g
      <4>1. QED
        BY <3>3, <3>4 DEF A!BeginFormula
    <3>6. QED
      BY <3>5 DEF A!SNext
  <2>3. CASE id + 1 \in DOMAIN Trans /\ ~Trans[id + 1].formula /\ v # Missing
    <3>1. /\ got' = [got EXCEPT ![th] = Append(@, [id |-> id, vals |-> <<v>>])]
          /\ call' = [call EXCEPT ![th].id = id]
          /\ k' = [k EXCEPT ![th] = k[th] + 1]
          /\ UNCHANGED pc /\ lock = NoThread
      BY <1>2, <1>7, <2>3 DEF TransNext
    <3>2. /\ call' = [call EXCEPT ![th] = e] /\ got' = [got EXCEPT ![th] = h]
          /\ pc' = [pc EXCEPT ![th] = "trans"]
      BY <1>1, <1>2, <2>1, <3>1 DEF Shape
    <3>3. Reads(h) = Append(Reads(g), <<v>>)
      <4>1. v \in Read
        BY <1>1, HeldType
      <4> HIDE DEF id, v, g
      <4>2. <<v>> \in Seq(Read)
        BY <4>1
      <4>3. QED
        BY <1>1, <2>1, <4>2, ReadsAppend
    <3>4. /\ UNCHANGED points /\ reply[th] = Reads(g)
          /\ reply' = [reply EXCEPT ![th] = Reads(h)]
      <4>1. /\ pc' = [pc EXCEPT ![th] = "trans"] /\ k' = [k EXCEPT ![th] = k[th] + 1]
            /\ call' = [call EXCEPT ![th] = e] /\ got' = [got EXCEPT ![th] = h]
        BY <3>1, <3>2
      <4> HIDE DEF e, h, v, ps, id, c, g
      <4>2. QED
        BY <1>4, <4>1
    <3>5. A!ReadNext(th, v)
      <4> HIDE DEF h, g, v
      <4>1. QED
        BY <3>3, <3>4 DEF A!ReadNext
    <3>6. QED
      BY <1>6, <3>1, <3>4, <3>5
  <2>4. QED
    BY <1>5, <1>7, <2>2, <2>3 DEF TransNext
<1>8. CASE Operand(th)
  <2> DEFINE ps == c.formula
             v  == Held(ps[Len(g[Len(g)].vals) + 1])
             h  == [g EXCEPT ![Len(g)].vals = Append(@, v)]
  <2>1. g # <<>> /\ pc[th] = "formula" /\ lock = NoThread
    BY <1>1, <1>8 DEF Operand, GoodAt, Good
  <2>2. got' = [got EXCEPT ![th][Len(got[th])].vals = Append(@, v)] /\ UNCHANGED call
    BY <1>8 DEF Operand
  <2>3. got' = [got EXCEPT ![th] = h]
    BY <1>1, <2>2 DEF Shape
  <2>4. /\ Reads(g) # <<>>
        /\ Reads(h) = [Reads(g) EXCEPT ![Len(Reads(g))] = Append(@, v)]
    <3>1. v \in Read
      BY <1>1, HeldType
    <3> HIDE DEF v, g
    <3>2. QED
      BY <1>1, <2>1, <3>1, ReadsOperand
  <2>5. \E p \in {"trans", "formula", "done"}, n \in {k[th], k[th] + 1} :
           pc' = [pc EXCEPT ![th] = p] /\ k' = [k EXCEPT ![th] = n]
    <3>1. \/ UNCHANGED <<pc, k>>
          \/ pc' = [pc EXCEPT ![th] = "done"] /\ UNCHANGED k
          \/ pc' = [pc EXCEPT ![th] = "trans"] /\ k' = [k EXCEPT ![th] = k[th] + 1]
      BY <1>8 DEF Operand
    <3> HIDE DEF c, g
    <3>2. QED
      BY <1>1, <1>2, <3>1
  <2>6. /\ UNCHANGED points /\ reply[th] = Reads(g)
        /\ reply' = [reply EXCEPT ![th] = Reads(h)]
    <3>1. PICK p \in {"trans", "formula", "done"}, n \in {k[th], k[th] + 1} :
             pc' = [pc EXCEPT ![th] = p] /\ k' = [k EXCEPT ![th] = n]
      BY <2>5
    <3>2. call' = [call EXCEPT ![th] = c]
      BY <1>2, <2>2
    <3> HIDE DEF h, c, g
    <3>3. QED
      BY <1>4, <2>3, <3>1, <3>2
  <2>7. A!ReadNext(th, v)
    <3> HIDE DEF h, g, v
    <3>1. reply[th] # <<>>
      BY <2>4, <2>6
    <3>2. reply' = [reply EXCEPT ![th][Len(reply[th])] = Append(@, v)]
      BY <2>4, <2>6
    <3>3. QED
      BY <2>6, <3>1, <3>2 DEF A!ReadNext
  <2>8. QED
    BY <1>6, <2>1, <2>6, <2>7
<1>9. CASE EndTrans(th)
  <2>1. pc' = [pc EXCEPT ![th] = "done"] /\ UNCHANGED <<call, k, got>>
    BY <1>9 DEF EndTrans
  <2>2. /\ UNCHANGED points /\ reply[th] = Reads(g)
        /\ reply' = [reply EXCEPT ![th] = Reads(g)]
    <3> HIDE DEF c
    <3>1. QED
      BY SMTT(30), <1>2, <1>4, <2>1
  <2>3. UNCHANGED reply
    <3>1. reply' = [reply EXCEPT ![th] = reply[th]]
      BY <2>2
    <3>2. QED
      BY <3>1 DEF reply
  <2>4. QED
    BY <2>2, <2>3 DEF A!svars
<1>10. CASE Use(th)
  BY <1>5, <1>10 DEF Use
<1>11. QED
  BY <1>7, <1>8, <1>9, <1>10

LEMMA RefInit == Init => A!SInit
<1> SUFFICES ASSUME Init PROVE A!SInit
  OBVIOUS
<1>1. \A th \in Thread : \A t \in Table : \A i \in Points(t) : ~Stores(th, t, i)
  BY DEF Init, Stores, InBlock
<1>2. points = [t \in Table |-> [i \in A!Points(t) |-> Zero]]
  BY <1>1 DEF Init, points, Points, A!Points
<1>3. \A th \in Thread : Rep(pc[th], call[th], value, got[th]) = <<>>
  BY ReadsEmpty DEF Init, Rep
<1>4. reply = [th \in Thread |-> <<>>]
  BY <1>3, ReplyIs
<1>5. QED
  BY <1>2, <1>4 DEF A!SInit

LEMMA RefStep ==
    ASSUME IInv, SInv, IInv', SInv', [Next]_vars
    PROVE  [A!SNext]_A!svars
<1>1. ASSUME NEW th \in Thread, Begin(th) PROVE [A!SNext]_A!svars
  BY <1>1, RefBegin
<1>2. ASSUME NEW th \in Thread, Locked(th) \/ UpdateValue(th) \/ GetValue(th)
      PROVE  [A!SNext]_A!svars
  BY <1>2, RefPoint, RefInBlock DEF Locked
<1>3. ASSUME NEW th \in Thread, BeginBlock(th) PROVE [A!SNext]_A!svars
  BY <1>3, RefBeginBlock
<1>4. ASSUME NEW th \in Thread, TransNext(th) \/ Operand(th) \/ EndTrans(th) \/ Use(th)
      PROVE  [A!SNext]_A!svars
  BY <1>4, RefTrans
<1>5. CASE UNCHANGED vars
  <2>1. UNCHANGED points
    BY <1>5 DEF vars, points, Stores, InBlock
  <2>2. UNCHANGED reply
    BY <1>5 DEF vars, reply, InBlock
  <2>3. QED
    BY <2>1, <2>2 DEF A!svars
<1>6. QED
  BY <1>1, <1>2, <1>3, <1>4, <1>5 DEF Next

(* PointStore implements AtomicStore as long as blocks begin at the first     *)
(* point: updateMultiValue and getMultiValue move a whole block at one        *)
(* instant, and whatever else is read is, point by point, what the storage    *)
(* held when it was read.                                                   *)
THEOREM Refinement == BlocksBeginFirst => (Spec => BlocksAreAtomic)
<1>1. Init => A!SInit
  BY RefInit
<1>2. IInv /\ SInv /\ (IInv /\ SInv)' /\ [Next]_vars => [A!SNext]_A!svars
  BY RefStep
<1>3. QED
  BY <1>1, <1>2, Invariance, FirstInvariance, PTL DEF Spec, BlocksAreAtomic, A!SSpec
-----------------------------------------------------------------------------
(* The ids of a transmit read.                                              *)

(* For up to two points, the id the loop stands at follows from its counter.  *)
Consec(p, c, n, g) ==
    c.op = "trans" /\ c.num <= 2 =>
        /\ \A e \in 1..Len(g) : g[e].id = c.first + e - 1
        /\ p = "trans" => Len(g) = n /\ c.id = c.first + (IF n = 2 THEN 1 ELSE 0)
        /\ p = "formula" => Len(g) = n + 1 /\ c.id = c.first + n

ConsecAt(th) == Consec(pc[th], call[th], k[th], got[th])

AllConsec == \A th \in Thread : ConsecAt(th)

LEMMA ConsecLocal ==
    ASSUME IInv, AllConsec, NEW th \in Thread, NEW p, NEW c, NEW n, NEW g,
           pc' = [pc EXCEPT ![th] = p], call' = [call EXCEPT ![th] = c],
           k' = [k EXCEPT ![th] = n], got' = [got EXCEPT ![th] = g],
           Consec(p, c, n, g)
    PROVE  AllConsec'
<1>1. /\ pc'[th] = p /\ call'[th] = c /\ k'[th] = n /\ got'[th] = g
      /\ \A q \in Thread \ {th} : /\ pc'[q] = pc[q] /\ call'[q] = call[q]
                                  /\ k'[q] = k[q] /\ got'[q] = got[q]
  BY DEF IInv, Shape
<1>2. ASSUME NEW q \in Thread PROVE ConsecAt(q)'
  <2>1. CASE q = th
    BY <1>1, <2>1 DEF ConsecAt
  <2>2. CASE q # th
    BY <1>1, <2>2 DEF ConsecAt, AllConsec
  <2>3. QED
    BY <2>1, <2>2
<1>3. QED
  BY <1>2 DEF AllConsec

LEMMA ConsecReturn ==
    ASSUME IInv, AllConsec, NEW th \in Thread, Return(th)
    PROVE  AllConsec'
<1>1. Consec("idle", NoCall, 0, <<>>)
  BY DEF Consec, NoCall
<1>2. QED
  BY <1>1, ConsecLocal DEF Return

(* The calls that are not transmit reads.                                    *)
LEMMA ConsecOther ==
    ASSUME IInv, AllConsec, NEW th \in Thread,
           pc[th] \in {"ready", "index", "block"}, UNCHANGED call,
           \E p : pc' = [pc EXCEPT ![th] = p], \E n : k' = [k EXCEPT ![th] = n],
           \E g : got' = [got EXCEPT ![th] = g]
    PROVE  AllConsec'
<1>1. call[th].op # "trans" /\ call = [call EXCEPT ![th] = call[th]]
  BY NoCallApart, Same DEF IInv, GoodAt, Good, One, Multi
<1>2. PICK p, n, g : /\ pc' = [pc EXCEPT ![th] = p] /\ k' = [k EXCEPT ![th] = n]
                     /\ got' = [got EXCEPT ![th] = g]
  OBVIOUS
<1>3. Consec(p, call[th], n, g)
  BY <1>1 DEF Consec
<1>4. QED
  BY <1>1, <1>2, <1>3, ConsecLocal

LEMMA ConsecBegin ==
    ASSUME IInv, AllConsec, NEW th \in Thread, Begin(th)
    PROVE  AllConsec'
<1>1. /\ Shape /\ k[th] = 0 /\ got[th] = <<>>
  BY DEF IInv, Begin, Call, CallWhere, CallTrans, CallExpr, GoodAt, Good
<1>2. k = [k EXCEPT ![th] = 0] /\ got = [got EXCEPT ![th] = <<>>]
  BY <1>1, Same
<1>3. ASSUME NEW p, NEW c, c.op # "trans", NEW g,
             pc' = [pc EXCEPT ![th] = p], call' = [call EXCEPT ![th] = c],
             UNCHANGED k, got' = [got EXCEPT ![th] = g]
      PROVE  AllConsec'
  <2>1. Consec(p, c, 0, g)
    BY <1>3 DEF Consec
  <2>2. QED
    BY <1>2, <1>3, <2>1, ConsecLocal
<1>4. ASSUME NEW op \in One \cup Multi, NEW t, NEW id, NEW d, NEW n, NEW p,
             pc' = [pc EXCEPT ![th] = p], UNCHANGED <<k, got>>,
             call' = [call EXCEPT ![th] = Request(op, t, id, d, n)]
      PROVE  AllConsec'
  <2>1. Request(op, t, id, d, n).op # "trans"
    BY DEF Request, One, Multi
  <2> DEFINE c == Request(op, t, id, d, n)
  <2> HIDE DEF c
  <2>2. QED
    BY <1>2, <1>3, <1>4, <2>1 DEF c
<1>5. ASSUME NEW id \in TransId, NEW n \in Num, CallTrans(th, id, n) PROVE AllConsec'
  <2> DEFINE c == [op |-> "trans", id |-> id, num |-> n, first |-> id, formula |-> <<>>]
  <2>1. Consec("trans", c, 0, <<>>)
    BY CallAssumption, EmptySeq DEF Consec
  <2>2. pc' = [pc EXCEPT ![th] = "trans"] /\ call' = [call EXCEPT ![th] = c] /\ UNCHANGED <<k, got>>
    BY <1>5 DEF CallTrans
  <2> HIDE DEF c
  <2>3. QED
    BY <1>2, <2>1, <2>2, ConsecLocal
<1>6. ASSUME NEW ps \in Formula, CallExpr(th, ps) PROVE AllConsec'
  BY <1>3, <1>6 DEF CallExpr
<1>7. QED
  BY <1>4, <1>5, <1>6 DEF Begin, Call, CallWhere

LEMMA ConsecTrans ==
    ASSUME IInv, AllConsec, NEW th \in Thread,
           TransNext(th) \/ Operand(th) \/ EndTrans(th) \/ Use(th)
    PROVE  AllConsec'
<1> DEFINE c == call[th]
           g == got[th]
           n == k[th]
<1>1. Shape /\ GoodAt(th) /\ g \in Seq(Entry) /\ n \in Nat /\ Consec(pc[th], c, n, g)
  BY DEF IInv, Shape, AllConsec, ConsecAt
<1>2. /\ pc = [pc EXCEPT ![th] = pc[th]] /\ call = [call EXCEPT ![th] = c]
      /\ k = [k EXCEPT ![th] = n] /\ got = [got EXCEPT ![th] = g]
  BY <1>1, Same
<1>3. CASE TransNext(th)
  <2> DEFINE id == NextId(th)
             ps == Trans[id + 1].points
             v  == Held(ps[1])
             f  == Append(g, [id |-> id, vals |-> <<>>])
             h  == Append(g, [id |-> id, vals |-> <<v>>])
             d  == [[c EXCEPT !.id = id] EXCEPT !.formula = ps]
             e  == [c EXCEPT !.id = id]
  <2>1. pc[th] = "trans" /\ c \in TransCall /\ n < c.num /\ c.num \in Nat /\ c.first \in Nat
        /\ c.id \in Nat /\ id = c.id + n /\ id \in Int
    BY <1>1, <1>3 DEF TransNext, GoodAt, Good, TransCall, NextId
  <2>2. c.num <= 2 => /\ n \in {0, 1} /\ Len(g) = n /\ c.id = c.first /\ id = c.first + n
                      /\ \A x \in 1..n : g[x].id = c.first + x - 1
    <3>1. c.op = "trans"
      BY <2>1, NoCallApart
    <3>2. c.num <= 2 => /\ \A x \in 1..Len(g) : g[x].id = c.first + x - 1
                        /\ Len(g) = n /\ c.id = c.first + (IF n = 2 THEN 1 ELSE 0)
      BY <1>1, <2>1, <3>1 DEF Consec
    <3> HIDE DEF c, g, n, id
    <3>3. c.num <= 2 => n \in {0, 1}
      BY <1>1, <2>1
    <3>4. QED
      BY <2>1, <3>2, <3>3
  <2>3. ASSUME NEW vs \in Seq(Read), c.num <= 2
        PROVE  LET r == Append(g, [id |-> id, vals |-> vs]) IN
               Len(r) = n + 1 /\ \A x \in 1..(n + 1) : r[x].id = c.first + x - 1
    <3> DEFINE y == [id |-> id, vals |-> vs]
               r == Append(g, y)
    <3>1. y \in Entry /\ y.id = id
      BY <2>1 DEF Entry, Read
    <3> HIDE DEF y, c, g, n, id
    <3>2. Len(r) = n + 1 /\ r[n + 1] = y /\ \A x \in 1..n : r[x] = g[x]
      BY <1>1, <2>2, <2>3, <3>1, AppendProperties
    <3> HIDE DEF r
    <3>3. ASSUME NEW x \in 1..(n + 1) PROVE r[x].id = c.first + x - 1
      <4>1. CASE x = n + 1
        BY <1>1, <2>1, <2>2, <2>3, <3>1, <3>2, <4>1
      <4>2. CASE x # n + 1
        <5>1. x \in 1..n
          BY <1>1, <4>2
        <5>2. QED
          BY <2>2, <2>3, <3>2, <5>1
      <4>3. QED
        BY <4>1, <4>2
    <3>4. QED
      BY <3>2, <3>3 DEF r, y
  <2>4. CASE id + 1 \in DOMAIN Trans /\ Trans[id + 1].formula
    <3>1. /\ pc' = [pc EXCEPT ![th] = "formula"]
          /\ call' = [call EXCEPT ![th].id = id, ![th].formula = ps]
          /\ got' = [got EXCEPT ![th] = Append(@, [id |-> id, vals |-> <<>>])]
          /\ UNCHANGED k
      BY <1>3, <2>4 DEF TransNext
    <3>2. call' = [call EXCEPT ![th] = d] /\ got' = [got EXCEPT ![th] = f]
      BY <1>1, <3>1 DEF Shape
    <3>3. d.num = c.num /\ d.first = c.first /\ d.id = id
      BY <2>1 DEF TransCall
    <3>4. c.num <= 2 => Len(f) = n + 1 /\ \A x \in 1..(n + 1) : f[x].id = c.first + x - 1
      <4>1. <<>> \in Seq(Read)
        BY EmptySeq
      <4> DEFINE z == <<>>
      <4>2. f = Append(g, [id |-> id, vals |-> z]) /\ z \in Seq(Read)
        BY <4>1
      <4> HIDE DEF id, g, z, f, c, n
      <4>3. QED
        BY <2>3, <4>2
    <3>5. /\ pc' = [pc EXCEPT ![th] = "formula"] /\ k' = [k EXCEPT ![th] = n]
          /\ call' = [call EXCEPT ![th] = d] /\ got' = [got EXCEPT ![th] = f]
      BY <1>2, <3>1, <3>2
    <3> HIDE DEF f, d, id, g, c, n
    <3>6. Consec("formula", d, n, f)
      BY <2>2, <3>3, <3>4 DEF Consec
    <3>7. QED
      BY <3>5, <3>6, ConsecLocal
  <2>5. CASE id + 1 \in DOMAIN Trans /\ ~Trans[id + 1].formula /\ v # Missing
    <3>1. /\ got' = [got EXCEPT ![th] = Append(@, [id |-> id, vals |-> <<v>>])]
          /\ call' = [call EXCEPT ![th].id = id]
          /\ k' = [k EXCEPT ![th] = n + 1]
          /\ UNCHANGED pc
      BY <1>2, <1>3, <2>5 DEF TransNext
    <3>2. /\ call' = [call EXCEPT ![th] = e] /\ got' = [got EXCEPT ![th] = h]
          /\ pc' = [pc EXCEPT ![th] = "trans"]
      BY <1>1, <1>2, <2>1, <3>1 DEF Shape
    <3>3. e.num = c.num /\ e.first = c.first /\ e.id = id
      BY <2>1 DEF TransCall
    <3>4. c.num <= 2 => Len(h) = n + 1 /\ \A x \in 1..(n + 1) : h[x].id = c.first + x - 1
      <4>1. v \in Read
        BY <1>1, HeldType
      <4> HIDE DEF v, id, g, c, n
      <4>2. <<v>> \in Seq(Read)
        BY <4>1
      <4>3. QED
        BY <2>3, <4>2
    <3> HIDE DEF h, e, id, g, c, n
    <3>5. Consec("trans", e, n + 1, h)
      BY <2>1, <2>2, <3>3, <3>4 DEF Consec
    <3>6. QED
      BY <3>1, <3>2, <3>5, ConsecLocal
  <2>6. QED
    BY <1>3, <2>4, <2>5, ConsecReturn DEF TransNext
<1>4. CASE Operand(th)
  <2> DEFINE v == Held(c.formula[Len(g[Len(g)].vals) + 1])
             h == [g EXCEPT ![Len(g)].vals = Append(@, v)]
  <2>1. /\ g # <<>> /\ pc[th] = "formula" /\ c \in TransCall \cup ExprCall
        /\ c \in TransCall => n < c.num
    BY <1>1, <1>4 DEF Operand, GoodAt, Good
  <2>2. got' = [got EXCEPT ![th][Len(got[th])].vals = Append(@, v)] /\ UNCHANGED call
    BY <1>4 DEF Operand
  <2>3. got' = [got EXCEPT ![th] = h] /\ call' = [call EXCEPT ![th] = c]
    BY <1>1, <1>2, <2>2 DEF Shape
  <2>4. Len(g) \in Nat \ {0} /\ Len(h) = Len(g)
    <3>1. v \in Read
      BY <1>1, HeldType
    <3> HIDE DEF v, g
    <3>2. QED
      BY <1>1, <2>1, <3>1, OperandEntry
  <2>5. \A x \in 1..Len(g) : h[x].id = g[x].id
    <3>1. \A x \in 1..Len(g) : g[x] \in Entry
      BY <1>1, ElementOfSeq
    <3>2. DOMAIN g = 1..Len(g)
      BY <1>1, LenProperties
    <3> HIDE DEF v, g
    <3>3. QED
      BY <3>1, <3>2 DEF Entry
  <2>6. \/ pc' = [pc EXCEPT ![th] = "formula"] /\ k' = [k EXCEPT ![th] = n]
        \/ pc' = [pc EXCEPT ![th] = "done"] /\ k' = [k EXCEPT ![th] = n]
        \/ /\ c.op # "expr"
           /\ pc' = [pc EXCEPT ![th] = "trans"] /\ k' = [k EXCEPT ![th] = n + 1]
    BY <1>2, <1>4, <2>1 DEF Operand
  <2> HIDE DEF h, g
  <2>7. Consec("formula", c, n, h) /\ Consec("done", c, n, h)
    BY <1>1, <2>1, <2>4, <2>5 DEF Consec
  <2>8. c.op # "expr" => Consec("trans", c, n + 1, h)
    <3>1. c.op # "expr" => c \in TransCall /\ n < c.num /\ c.num \in Nat /\ c.first \in Nat
      BY <2>1, NoCallApart DEF TransCall
    <3> HIDE DEF c, n
    <3>2. QED
      BY <1>1, <2>1, <2>4, <2>5, <3>1 DEF Consec
  <2> HIDE DEF c, n
  <2>9. QED
    BY <2>3, <2>6, <2>7, <2>8, ConsecLocal
<1>5. CASE EndTrans(th)
  <2>1. pc' = [pc EXCEPT ![th] = "done"] /\ UNCHANGED <<call, k, got>>
    BY <1>5 DEF EndTrans
  <2>2. Consec("done", c, n, g)
    BY <1>1 DEF Consec
  <2> HIDE DEF c, g, n
  <2>3. QED
    BY <1>2, <2>1, <2>2, ConsecLocal
<1>6. CASE Use(th)
  BY <1>6, ConsecReturn DEF Use
<1>7. QED
  BY <1>3, <1>4, <1>5, <1>6

LEMMA ConsecStep ==
    ASSUME IInv, AllConsec, [Next]_vars
    PROVE  AllConsec'
<1>1. ASSUME NEW th \in Thread, Begin(th) PROVE AllConsec'
  BY <1>1, ConsecBegin
<1>2. ASSUME NEW th \in Thread,
             Locked(th) \/ UpdateValue(th) \/ GetValue(th) \/ BeginBlock(th)
      PROVE  AllConsec'
  <2>1. Shape /\ pc[th] \in {"ready", "index", "block"}
    BY <1>2 DEF IInv, Locked, EndIndex, UpdateNext, GetNext, EndBlock,
                UpdateValue, GetValue, BeginBlock
  <2>2. /\ pc = [pc EXCEPT ![th] = pc[th]] /\ k = [k EXCEPT ![th] = k[th]]
        /\ got = [got EXCEPT ![th] = got[th]]
    BY <2>1, Same
  <2>3. CASE Return(th)
    BY <2>3, ConsecReturn
  <2>4. CASE ~Return(th)
    <3>1. UNCHANGED call /\ \E p : pc' = [pc EXCEPT ![th] = p]
      BY <1>2, <2>2, <2>4 DEF Locked, EndIndex, UpdateNext, GetNext, EndBlock,
                UpdateValue, GetValue, BeginBlock
    <3>2. \E n : k' = [k EXCEPT ![th] = n]
      BY <1>2, <2>2, <2>4 DEF Locked, EndIndex, UpdateNext, GetNext, EndBlock,
                UpdateValue, GetValue, BeginBlock
    <3>3. \E g : got' = [got EXCEPT ![th] = g]
      BY <1>2, <2>2, <2>4 DEF Locked, EndIndex, UpdateNext, GetNext, EndBlock,
                UpdateValue, GetValue, BeginBlock
    <3>4. QED
      BY <2>1, <3>1, <3>2, <3>3, ConsecOther
  <2>5. QED
    BY <2>3, <2>4
<1>3. ASSUME NEW th \in Thread, TransNext(th) \/ Operand(th) \/ EndTrans(th) \/ Use(th)
      PROVE  AllConsec'
  BY <1>3, ConsecTrans
<1>4. CASE UNCHANGED vars
  BY <1>4 DEF vars, AllConsec, ConsecAt
<1>5. QED
  BY <1>1, <1>2, <1>3, <1>4 DEF Next

(* Up to two values asked for by transmit id come from the ids asked for, in  *)
(* their order, points and formulas alike, whatever the transmit table: the   *)
(* third round of getTransMultiValue is the first to go astray.              *)
THEOREM ReadsConsecutiveHolds == Spec => []ReadsConsecutive
<1>1. Init => AllConsec
  BY EmptySeq DEF Init, AllConsec, ConsecAt, Consec, NoCall
<1>2. IInv /\ AllConsec /\ [Next]_vars => AllConsec'
  BY ConsecStep
<1>3. AllConsec => ReadsConsecutive
  BY DEF AllConsec, ConsecAt, Consec, ReadsConsecutive
<1>4. QED
  BY <1>1, <1>2, <1>3, Invariance, PTL DEF Spec
=============================================================================
