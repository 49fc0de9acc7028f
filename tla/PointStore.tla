------------------------------ MODULE PointStore ------------------------------
(***************************************************************************)
(* The point storage, CDataStorage (Src/Data/DataStorage.cpp): the values    *)
(* of every device's points, which the threads of the plugins update and    *)
(* read by point id, by a condition on the point table, in blocks, or by    *)
(* the ids of a transmit table whose entries stand for a point or for a     *)
(* formula over points.                                                    *)
(*                                                                         *)
(* One mutex guards the values.  A block is moved under one lock, element   *)
(* by element; a conditional call takes the lock twice, and a transmit read *)
(* once for every point it visits.                                         *)
(***************************************************************************)
EXTENDS Integers, Sequences

CONSTANTS
    Thread,     \* threads of the plugins
    NoThread,   \* nobody holds the mutex
    Table,      \* a device and a type of points
    Known,      \* those whose device has a point table
    Size,       \* the number of points of each
    Field,      \* what a condition can ask of each point: id + 1 -> field
    Value,      \* what plugins store
    Zero,       \* what a point holds at first
    Missing,    \* an operand of a formula that could not be read
    Junk,       \* what lies outside a vector
    Cond,       \* the conditions the plugins use for one point
    BlockCond,  \* the conditions they use for blocks
    PointId,    \* the ids they use for one point
    BlockId,    \* the ids they use for blocks
    Block,      \* the blocks they store
    Num,        \* the numbers of points they ask for
    TransId,    \* the transmit ids they ask for
    Formula,    \* the formulas they give, as the points these read
    Trans       \* the transmit table: id + 1 -> its points, and if a formula

Points(t) == 0..(Size[t] - 1)

ASSUME TableAssumption ==
    /\ Size \in [Table -> Nat]
    /\ Known \subseteq Table
    /\ \A t \in Table \ Known : Size[t] = 0
    /\ \A t \in Table : DOMAIN Field[t] = 1..Size[t]
ASSUME ThreadAssumption == NoThread \notin Thread
ASSUME ValueAssumption ==
    Zero \in Value /\ Junk \notin Value /\ Missing \notin Value /\ Junk # Missing
ASSUME CallAssumption ==
    /\ PointId \subseteq Int /\ BlockId \subseteq Int
    /\ Num \subseteq Nat /\ TransId \subseteq Nat
    /\ Block \subseteq Seq(Value)
    /\ Formula \subseteq Seq(Table \X Int)
ASSUME TransAssumption ==
    /\ <<>> \notin Formula
    /\ \A i \in DOMAIN Trans :
          /\ Trans[i].points \in Seq(Table \X Int) \ {<<>>}
          /\ Trans[i].formula \in BOOLEAN
          /\ ~Trans[i].formula => Len(Trans[i].points) = 1

VARIABLES
    lock,       \* who holds m_mutex
    value,      \* m_mapValue
    pc,         \* where each thread is in a call
    call,       \* what it has called, with which arguments
    k,          \* the i of the loop it is in
    got         \* what it has read so far: entries with their id and values

vars == <<lock, value, pc, call, k, got>>

NoCall == [op |-> "none"]
One    == {"update", "get"}
Multi  == {"updateMulti", "getMulti"}

(* The arguments of the calls plugins make, by id; a condition gives the id. *)
Data(op) == CASE op = "update"      -> {<<v>> : v \in Value}
              [] op = "updateMulti" -> Block
              [] OTHER              -> {<<>>}
Nums(op) == IF op = "getMulti" THEN Num ELSE {0}
Ids(op)  == IF op \in One THEN PointId ELSE BlockId
Conds(op) == IF op \in One THEN Cond ELSE BlockCond

Request(op, t, id, d, n) ==
    [op |-> op, table |-> t, id |-> id, data |-> d, num |-> n, first |-> id]

Init ==
    /\ lock = NoThread
    /\ value = [t \in Table |-> [i \in Points(t) |-> Zero]]
    /\ pc = [th \in Thread |-> "idle"]
    /\ call = [th \in Thread |-> NoCall]
    /\ k = [th \in Thread |-> 0]
    /\ got = [th \in Thread |-> <<>>]

(* A call returns; what it has read goes with it.                          *)
Return(th) ==
    /\ pc' = [pc EXCEPT ![th] = "idle"]
    /\ call' = [call EXCEPT ![th] = NoCall]
    /\ k' = [k EXCEPT ![th] = 0]
    /\ got' = [got EXCEPT ![th] = <<>>]
-----------------------------------------------------------------------------
(* Calls by point id and by condition.                                     *)

Call(th, op, t, id, d, n) ==
    /\ pc[th] = "idle"
    /\ pc' = [pc EXCEPT ![th] = "ready"]
    /\ call' = [call EXCEPT ![th] = Request(op, t, id, d, n)]
    /\ UNCHANGED <<lock, value, k, got>>

(* getIndex: the first point of t whose field is the one asked for, or -1.   *)
Index(t, c) ==
    IF \E i \in Points(t) : Field[t][i + 1] = c
    THEN CHOOSE i \in Points(t) :
            /\ Field[t][i + 1] = c
            /\ \A j \in 0..(i - 1) : Field[t][j + 1] # c
    ELSE -1

(* getIndex locks by hand to see whether the device is known.               *)
CallWhere(th, op, t, c, d, n) ==
    /\ pc[th] = "idle"
    /\ lock = NoThread
    /\ lock' = th
    /\ pc' = [pc EXCEPT ![th] = "index"]
    /\ call' = [call EXCEPT ![th] = Request(op, t, Index(t, c), d, n)]
    /\ UNCHANGED <<value, k, got>>

(* Mutation: the early return of getIndex forgets to unlock.                *)
EndIndexNoUnlock(th) ==
    /\ pc[th] = "index"
    /\ IF call[th].table \in Known
       THEN lock' = NoThread ELSE UNCHANGED lock
    /\ IF call[th].table \in Known /\ call[th].id >= 0
       THEN pc' = [pc EXCEPT ![th] = "ready"] /\ UNCHANGED <<call, k, got>>
       ELSE Return(th)
    /\ UNCHANGED value

(* It unlocks on both its ways out, and then searches the configuration.     *)
EndIndex(th) ==
    /\ pc[th] = "index"
    /\ lock' = NoThread
    /\ IF call[th].table \in Known /\ call[th].id >= 0
       THEN pc' = [pc EXCEPT ![th] = "ready"] /\ UNCHANGED <<call, k, got>>
       ELSE Return(th)
    /\ UNCHANGED value

InRange(c) == c.table \in Known /\ c.id \in Points(c.table)

(* updateValue: one assignment in one lock region.                         *)
UpdateValue(th) ==
    /\ pc[th] = "ready" /\ call[th].op = "update"
    /\ lock = NoThread
    /\ LET c == call[th] IN
       IF InRange(c) THEN value' = [value EXCEPT ![c.table][c.id] = c.data[1]]
                     ELSE UNCHANGED value
    /\ Return(th)
    /\ UNCHANGED lock

(* getValue.                                                               *)
GetValue(th) ==
    /\ pc[th] = "ready" /\ call[th].op = "get"
    /\ lock = NoThread
    /\ LET c == call[th] IN
       IF InRange(c)
       THEN /\ got' = [got EXCEPT ![th] =
                  <<[id |-> c.id, vals |-> <<value[c.table][c.id]>>]>>]
            /\ pc' = [pc EXCEPT ![th] = "done"]
            /\ UNCHANGED <<call, k>>
       ELSE Return(th)
    /\ UNCHANGED <<lock, value>>
-----------------------------------------------------------------------------
(* Blocks: updateMultiValue and getMultiValue.                              *)

(* Mutation: getMultiValue without its lock_guard.                          *)
BeginBlockNoGuard(th) ==
    /\ pc[th] = "ready" /\ call[th].op \in Multi
    /\ IF call[th].op = "updateMulti" THEN lock = NoThread ELSE TRUE
    /\ IF InRange(call[th])
       THEN /\ lock' = IF call[th].op = "updateMulti" THEN th ELSE lock
            /\ pc' = [pc EXCEPT ![th] = "block"]
            /\ UNCHANGED <<call, k, got>>
       ELSE Return(th) /\ UNCHANGED lock
    /\ UNCHANGED value

BeginBlock(th) ==
    /\ pc[th] = "ready" /\ call[th].op \in Multi
    /\ lock = NoThread
    /\ IF InRange(call[th])
       THEN /\ lock' = th
            /\ pc' = [pc EXCEPT ![th] = "block"]
            /\ UNCHANGED <<call, k, got>>
       ELSE Return(th) /\ UNCHANGED lock
    /\ UNCHANGED value

(* Mutation: the size of the table is forgotten.                            *)
MinSizeNoMin(c) == (IF c.op = "updateMulti" THEN Len(c.data) ELSE c.num) + c.id

(* The bound of both loops, which count from 0 and index with id + i.       *)
MinSize(c) ==
    LET end == (IF c.op = "updateMulti" THEN Len(c.data) ELSE c.num) + c.id IN
    IF end < Size[c.table] THEN end ELSE Size[c.table]

(* An assignment beyond the vector damages what happens to be there: no     *)
(* point, or a point of some table.  (It may also end the program.)         *)
Assign(t, i, v) ==
    IF i \in Points(t) THEN value' = [value EXCEPT ![t][i] = v]
    ELSE \/ UNCHANGED value
         \/ \E u \in Table : \E j \in Points(u) :
               value' = [value EXCEPT ![u][j] = Junk]

UpdateNext(th) ==
    /\ pc[th] = "block" /\ call[th].op = "updateMulti"
    /\ LET c == call[th]
           i == k[th]
       IN  /\ i < MinSize(c)
           /\ Assign(c.table, c.id + i,
                     IF i < Len(c.data) THEN c.data[i + 1] ELSE Junk)
    /\ k' = [k EXCEPT ![th] = @ + 1]
    /\ UNCHANGED <<lock, pc, call, got>>

GetNext(th) ==
    /\ pc[th] = "block" /\ call[th].op = "getMulti"
    /\ LET c == call[th]
           i == c.id + k[th]
       IN  /\ k[th] < MinSize(c)
           /\ got' = [got EXCEPT ![th] = Append(@,
                  [id |-> i, vals |-> IF i \in Points(c.table)
                                      THEN <<value[c.table][i]>> ELSE <<Junk>>])]
    /\ k' = [k EXCEPT ![th] = @ + 1]
    /\ UNCHANGED <<lock, value, pc, call>>

EndBlock(th) ==
    /\ pc[th] = "block"
    /\ k[th] >= MinSize(call[th])
    /\ lock' = NoThread
    /\ IF call[th].op = "getMulti"
       THEN pc' = [pc EXCEPT ![th] = "done"] /\ UNCHANGED <<call, k, got>>
       ELSE Return(th)
    /\ UNCHANGED value
-----------------------------------------------------------------------------
(* Reads by transmit id: getTransValue, getTransMultiValue, getExprValue.    *)

CallTrans(th, id, n) ==
    /\ pc[th] = "idle"
    /\ pc' = [pc EXCEPT ![th] = "trans"]
    /\ call' = [call EXCEPT ![th] =
           [op |-> "trans", id |-> id, num |-> n, first |-> id,
            formula |-> <<>>]]
    /\ UNCHANGED <<lock, value, k, got>>

(* What getValue finds for a point.                                        *)
Held(p) == IF p[1] \in Known /\ p[2] \in Points(p[1]) THEN value[p[1]][p[2]]
                                                      ELSE Missing

(* Mutation: the loop asks for the same id again.                           *)
NextIdStays(th) == call[th].id

(* transId += i.                                                           *)
NextId(th) == call[th].id + k[th]

(* The next round: transId += i, then transInfoToDevInfo.  An id that is not  *)
(* in the table, or that stands for a point that is not there, ends the call. *)
(* A formula is put together operand by operand.                           *)
TransNext(th) ==
    /\ pc[th] = "trans"
    /\ k[th] < call[th].num
    /\ LET id == NextId(th) IN
       IF id + 1 \notin DOMAIN Trans THEN Return(th)
       ELSE LET ps == Trans[id + 1].points
                v  == Held(ps[1])
            IN  IF Trans[id + 1].formula
                THEN /\ pc' = [pc EXCEPT ![th] = "formula"]
                     /\ call' = [call EXCEPT ![th].id = id, ![th].formula = ps]
                     /\ got' = [got EXCEPT ![th] = Append(@, [id |-> id, vals |-> <<>>])]
                     /\ UNCHANGED k
                ELSE /\ lock = NoThread
                     /\ IF v = Missing THEN Return(th)
                        ELSE /\ got' = [got EXCEPT ![th] =
                                   Append(@, [id |-> id, vals |-> <<v>>])]
                             /\ call' = [call EXCEPT ![th].id = id]
                             /\ k' = [k EXCEPT ![th] = @ + 1]
                             /\ UNCHANGED pc
    /\ UNCHANGED <<lock, value>>

(* getExprValue is given its formula.                                      *)
CallExpr(th, ps) ==
    /\ pc[th] = "idle"
    /\ pc' = [pc EXCEPT ![th] = "formula"]
    /\ call' = [call EXCEPT ![th] = [op |-> "expr", formula |-> ps]]
    /\ got' = [got EXCEPT ![th] = <<[id |-> 0, vals |-> <<>>]>>]
    /\ UNCHANGED <<lock, value, k>>

(* The next operand of a formula, under a lock of its own.  One that cannot  *)
(* be read leaves a hole in the formula, and the call goes on.              *)
Operand(th) ==
    /\ pc[th] = "formula"
    /\ lock = NoThread
    /\ LET ps == call[th].formula
           n  == Len(got[th])
           m  == Len(got[th][n].vals) + 1
       IN  /\ got' = [got EXCEPT ![th][n].vals = Append(@, Held(ps[m]))]
           /\ IF m < Len(ps) THEN UNCHANGED <<pc, k>>
              ELSE IF call[th].op = "expr"
              THEN pc' = [pc EXCEPT ![th] = "done"] /\ UNCHANGED k
              ELSE /\ pc' = [pc EXCEPT ![th] = "trans"]
                   /\ k' = [k EXCEPT ![th] = @ + 1]
    /\ UNCHANGED <<lock, value, call>>

EndTrans(th) ==
    /\ pc[th] = "trans"
    /\ k[th] = call[th].num
    /\ pc' = [pc EXCEPT ![th] = "done"]
    /\ UNCHANGED <<lock, value, call, k, got>>

(* The plugin has used what it was given.                                  *)
Use(th) ==
    /\ pc[th] = "done"
    /\ Return(th)
    /\ UNCHANGED <<lock, value>>
-----------------------------------------------------------------------------
Begin(th) ==
    \/ \E op \in One \cup Multi, t \in Table :
          \E d \in Data(op), n \in Nums(op) :
             \/ \E id \in Ids(op) : Call(th, op, t, id, d, n)
             \/ \E c \in Conds(op) : CallWhere(th, op, t, c, d, n)
    \/ \E id \in TransId, n \in Num : CallTrans(th, id, n)
    \/ \E ps \in Formula : CallExpr(th, ps)

Locked(th) == EndIndex(th) \/ UpdateNext(th) \/ GetNext(th) \/ EndBlock(th)

Next ==
    \E th \in Thread :
       \/ Begin(th) \/ Locked(th)
       \/ UpdateValue(th) \/ GetValue(th) \/ BeginBlock(th)
       \/ TransNext(th) \/ Operand(th) \/ EndTrans(th) \/ Use(th)

Spec == Init /\ [][Next]_vars

(* A thread that holds the mutex is scheduled.  Nothing is assumed of one   *)
(* that waits for it: std::mutex promises no order.                        *)
FairSpec == Spec /\ \A th \in Thread : WF_vars(Locked(th))
-----------------------------------------------------------------------------
(* Properties.                                                             *)

Stored == Value \cup {Junk}
Entry  == [id : Int, vals : Seq(Stored \cup {Missing})]
InBlock(th) == pc[th] = "block"

PointCall == [op : One \cup Multi, table : Table, id : Int, data : Seq(Value),
              num : Nat, first : Int]
TransCall == [op : {"trans"}, id : Nat, num : Nat, first : Nat,
              formula : Seq(Table \X Int)]
ExprCall  == [op : {"expr"}, formula : Seq(Table \X Int)]

(* Types of all variables, what a call is at each of its points, and who may *)
(* hold the mutex.                                                         *)
TypeOK ==
    /\ lock \in Thread \cup {NoThread}
    /\ \A th \in Thread : lock = th <=> pc[th] \in {"index", "block"}
    /\ DOMAIN value = Table
    /\ \A t \in Table : value[t] \in [Points(t) -> Stored]
    /\ pc \in [Thread -> {"idle", "ready", "index", "block", "trans", "formula", "done"}]
    /\ call \in [Thread -> PointCall \cup TransCall \cup ExprCall \cup {NoCall}]
    /\ k \in [Thread -> Nat]
    /\ got \in [Thread -> Seq(Entry)]
    /\ \A th \in Thread :
          /\ pc[th] = "idle" <=> call[th] = NoCall
          /\ pc[th] \in {"ready", "index", "block"} => call[th] \in PointCall
          /\ InBlock(th) => InRange(call[th]) /\ k[th] \in 0..MinSize(call[th])
          /\ pc[th] = "trans" => call[th] \in TransCall /\ k[th] <= call[th].num
          /\ pc[th] = "formula" =>
                /\ call[th] \in TransCall \cup ExprCall
                /\ got[th] # <<>>
                /\ Len(got[th][Len(got[th])].vals) < Len(call[th].formula)

(* Blocks begin at the first point, whether an id or a condition says so.    *)
BlocksBeginFirst ==
    /\ BlockId \subseteq {0}
    /\ \A t \in Table : \A c \in BlockCond : Index(t, c) <= 0

(* As long as they do, no reader is handed and no point holds anything that  *)
(* a plugin has not stored: neither loop leaves its vectors.                *)
OnlyStoredValues ==
    BlocksBeginFirst =>
        /\ \A t \in Table : \A i \in Points(t) : value[t][i] # Junk
        /\ \A th \in Thread : \A e \in 1..Len(got[th]) :
              \A j \in 1..Len(got[th][e].vals) : got[th][e].vals[j] # Junk

(* Whoever takes the mutex gives it back, on every way out.                 *)
LockReleased == \A th \in Thread : lock = th ~> lock # th

(* IDataEngine.h, lines 204-209 and 244-249: a call on several points names   *)
(* the first and gives the data to store, or how many to get.  Neither loop   *)
(* stores or gets more than that.                                          *)
Asked(c) == IF c.op = "updateMulti" THEN Len(c.data) ELSE c.num

BlockWithinRequest ==
    [][\A th \in Thread : InBlock(th) /\ k'[th] > k[th] => k[th] < Asked(call[th])]_vars

(* IDataEngine.h, lines 286-291: num values of the transmit points from      *)
(* transId on.  So it is for up to two of them, formulas among them; the     *)
(* third is read from an id too far.                                       *)
ReadsConsecutive ==
    \A th \in Thread : call[th].op = "trans" /\ call[th].num <= 2 =>
       \A e \in 1..Len(got[th]) : got[th][e].id = call[th].first + e - 1
-----------------------------------------------------------------------------
(* The refinement.  A block is stored, and read, when its thread takes the   *)
(* lock: what the writer has still to store is stored, and the reader has    *)
(* read what it has still to read.                                         *)

Stores(th, t, i) ==
    /\ InBlock(th) /\ call[th].op = "updateMulti" /\ call[th].table = t
    /\ i - call[th].id \in k[th]..(MinSize(call[th]) - 1)

points ==
    [t \in Table |-> [i \in Points(t) |->
        IF \E th \in Thread : Stores(th, t, i)
        THEN LET c == call[CHOOSE th \in Thread : Stores(th, t, i)]
             IN  c.data[i - c.id + 1]
        ELSE value[t][i]]]

reply ==
    [th \in Thread |->
        IF InBlock(th) /\ call[th].op = "getMulti"
        THEN [j \in 1..MinSize(call[th]) |->
                 <<value[call[th].table][call[th].id + j - 1]>>]
        ELSE [j \in 1..Len(got[th]) |-> got[th][j].vals]]

A == INSTANCE AtomicStore

(* As long as blocks begin at the first point, every block is stored at one  *)
(* instant and read at one instant.                                        *)
BlocksAreAtomic == A!SSpec
=============================================================================
