--------------------------- MODULE ThreadPoolProofs ---------------------------
(***************************************************************************)
(* Proofs about ThreadPool, for every number of threads, tasks and starts    *)
(* and every capacity of the queue.  The pool uses its queue as MsgQue is    *)
(* meant to be used, so that what MsgQueProofs proves of the queue holds     *)
(* inside the pool.                                                        *)
(***************************************************************************)
EXTENDS ThreadPool, SequenceTheorems, FiniteSetTheorems, TLAPS

QP == INSTANCE MsgQueProofs WITH Thread <- Worker, Node <- Task \cup Null,
                                 PrioLevel <- 1
-----------------------------------------------------------------------------
(* The queue of the pool.                                                  *)

(* The pool gives the queue's parameters values they may have.              *)
LEMMA QueAssumptions == QP!ParamAssumption /\ QP!ThreadAssumption /\ QP!NodeAssumption
<1>1. IsFiniteSet(Worker)
  BY PoolAssumption, FS_Interval DEF Worker
<1>2. End \notin Task \cup Null
  BY PoolAssumption DEF Null, Worker
<1>3. QP!ParamAssumption
  BY PoolAssumption DEF QP!ParamAssumption
<1>4. QP!ThreadAssumption
  BY <1>1 DEF QP!ThreadAssumption, IsFiniteSet, QP!IsFiniteSet
<1>5. QP!NodeAssumption
  BY <1>2 DEF QP!NodeAssumption
<1>6. QED
  BY <1>3, <1>4, <1>5

(* The two instances of the queue are the same.                             *)
LEMMA SameQueue ==
    /\ Q!TypeOK <=> QP!TypeOK
    /\ Q!TokenPerMessage <=> QP!TokenPerMessage
    /\ Q!Init <=> QP!Init
    /\ Q!vars = QP!vars
    /\ Q!Next <=> QP!Next
<1>1. Q!TypeOK <=> QP!TypeOK
  BY DEF Q!TypeOK, QP!TypeOK, Q!Entry, QP!Entry, Q!Prio, QP!Prio, Q!Call, QP!Call
<1>2. Q!TokenPerMessage <=> QP!TokenPerMessage
  BY DEF Q!TokenPerMessage, QP!TokenPerMessage, Q!Holders, QP!Holders,
         Q!Cardinality, QP!Cardinality
<1>3. Q!Init <=> QP!Init
  BY DEF Q!Init, QP!Init, Q!Prio, QP!Prio, Q!Idle, QP!Idle
<1>4. Q!vars = QP!vars
  BY DEF Q!vars, QP!vars
<1>5. Q!Next <=> QP!Next
  <2> USE DEF Q!Prio, QP!Prio, Q!Nodes, QP!Nodes, Q!NodeAt, QP!NodeAt, Q!Take, QP!Take,
              Q!FollowRemove, QP!FollowRemove, Q!Idle, QP!Idle
  <2>1. \A n, p : Q!SendMessage(n, p) <=> QP!SendMessage(n, p)
    BY DEF Q!SendMessage, QP!SendMessage, Q!Link, QP!Link, Q!Insert, QP!Insert,
           Q!FollowInsert, QP!FollowInsert
  <2>2. \A th, deque : Q!Recv(th, deque) <=> QP!Recv(th, deque)
    BY DEF Q!Recv, QP!Recv
  <2>3. \A th, c : Q!BeginWait(th, c) <=> QP!BeginWait(th, c)
    BY DEF Q!BeginWait, QP!BeginWait
  <2>4. \A th : Q!Pend(th) \/ Q!TimeOut(th) <=> QP!Pend(th) \/ QP!TimeOut(th)
    BY DEF Q!Pend, QP!Pend, Q!TimeOut, QP!TimeOut
  <2>5. \A th : Q!EndWait(th) <=> QP!EndWait(th)
    BY DEF Q!EndWait, QP!EndWait
  <2>6. Q!AtEnd /\ Q!Clean <=> QP!AtEnd /\ QP!Clean
    BY DEF Q!AtEnd, QP!AtEnd, Q!Clean, QP!Clean
  <2>7. QED
    BY <2>1, <2>2, <2>3, <2>4, <2>5, <2>6 DEF Q!Next, QP!Next, Q!Call, QP!Call
<1>6. QED
  BY <1>1, <1>2, <1>3, <1>4, <1>5

(* The list holds entries, each of them in one place.                       *)
LEMMA QueueType ==
    ASSUME QP!IInv
    PROVE  /\ queue \in Seq(Q!Entry) /\ Len(queue) \in Nat
           /\ \A i, j \in 1..Len(queue) : queue[i].node = queue[j].node => i = j
           /\ pc \in [Worker -> {"idle", "waiting", "token"}]
           /\ call \in [Worker -> Q!Call]
           /\ got \in [Worker -> Q!Entry \cup {NoMessage, Garbage}]
<1>1. Q!TypeOK
  BY SameQueue DEF QP!IInv
<1>2. QED
  BY <1>1, LenProperties DEF Q!TypeOK

(* A task that comes into the list has the one priority there is.            *)
LEMMA OnePriority ==
    ASSUME NEW t \in Task, AddTask(t)
    PROVE  \/ UNCHANGED queVars
           \/ /\ status[t] = "admitted" /\ Q!SendMessage(t, 0)
              /\ status' = [status EXCEPT ![t] = "sent"]
<1>1. CASE UNCHANGED queVars
  BY <1>1
<1>2. ASSUME NEW level \in Level \cap Q!Prio, Q!SendMessage(t, level)
      PROVE  Q!SendMessage(t, 0)
  <2>1. level = 0
    BY DEF Q!Prio
  <2>2. QED
    BY <1>2, <2>1
<1>3. QED
  BY <1>1, <1>2 DEF AddTask

(* A message that is sent is the only one to come into the list.             *)
LEMMA SendEffect ==
    ASSUME QP!IInv, NEW n \in Task \cup Null, Q!SendMessage(n, 0)
    PROVE  Q!Nodes' \subseteq Q!Nodes \cup {n} /\ UNCHANGED <<pc, call, got>>
<1> DEFINE e == [node |-> n, prio |-> 0]
<1>1. queue \in Seq(Q!Entry) /\ Len(queue) \in Nat
  BY QueueType
<1>2. e \in Q!Entry
  BY DEF Q!Entry, Q!Prio
<1>3. Q!Link(iter[0], e) /\ UNCHANGED <<pc, call, got>>
  BY DEF Q!SendMessage
<1>4. CASE UNCHANGED queue
  BY <1>3, <1>4 DEF Q!Nodes
<1>5. e.node = n
  OBVIOUS
<1> HIDE DEF e
<1>6. ASSUME NEW i \in 1..(Len(queue) + 1), queue' = Q!Insert(queue, i, e)
      PROVE  Q!Nodes' \subseteq Q!Nodes \cup {n}
  <2>1. queue' = [j \in 1..(Len(queue) + 1) |->
                     IF j < i THEN queue[j] ELSE IF j = i THEN e ELSE queue[j - 1]]
    BY <1>6 DEF Q!Insert
  <2>2. ASSUME NEW j \in 1..(Len(queue) + 1) PROVE queue'[j] \in Q!Entry
    <3>1. CASE j < i
      BY <1>1, <1>6, <2>1, <3>1, ElementOfSeq
    <3>2. CASE j = i
      BY <1>2, <2>1, <3>2
    <3>3. CASE j > i
      <4>1. j - 1 \in 1..Len(queue) /\ queue'[j] = queue[j - 1]
        BY <1>1, <1>6, <2>1, <3>3
      <4>2. QED
        BY <1>1, <4>1, ElementOfSeq
    <3>4. QED
      BY <1>1, <1>6, <3>1, <3>2, <3>3
  <2>3. Len(queue') = Len(queue) + 1
    <3>1. Len(queue) + 1 \in Nat
      BY <1>1
    <3>2. queue' \in [1..(Len(queue) + 1) -> Q!Entry]
      BY <2>1, <2>2
    <3>3. queue' \in Seq(Q!Entry)
      BY <3>1, <3>2, SeqDef
    <3>4. DOMAIN queue' = 1..(Len(queue) + 1)
      BY <2>1
    <3>5. QED
      BY <3>1, <3>3, <3>4, LenProperties
  <2>4. ASSUME NEW j \in 1..Len(queue') PROVE queue'[j].node \in Q!Nodes \cup {n}
    <3>1. CASE j < i
      BY <1>1, <1>6, <2>1, <2>3, <3>1 DEF Q!Nodes
    <3>2. CASE j = i
      BY <1>1, <1>5, <1>6, <2>1, <2>3, <3>2
    <3>3. CASE j > i
      <4>1. j - 1 \in 1..Len(queue) /\ queue'[j] = queue[j - 1]
        BY <1>1, <1>6, <2>1, <2>3, <3>3
      <4>2. QED
        BY <4>1 DEF Q!Nodes
    <3>4. QED
      BY <1>1, <1>6, <2>3, <3>1, <3>2, <3>3
  <2>5. QED
    BY <2>4 DEF Q!Nodes
<1>7. QED
  BY <1>3, <1>4, <1>6 DEF Q!Link

(* A message that is taken is from the list, and no longer in it.            *)
LEMMA TakeEffect ==
    ASSUME QP!IInv, queue # <<>>, NEW w \in Worker, NEW tokens, Q!Take(w, TRUE, tokens)
    PROVE  /\ got' = [got EXCEPT ![w] = queue[1]]
           /\ queue[1].node \in Q!Nodes \ Q!Nodes'
           /\ Q!Nodes' \subseteq Q!Nodes
<1>1. /\ queue \in Seq(Q!Entry)
      /\ \A i, j \in 1..Len(queue) : queue[i].node = queue[j].node => i = j
  BY QueueType
<1>2. got' = [got EXCEPT ![w] = queue[1]] /\ queue' = Tail(queue)
  BY DEF Q!Take
<1>3. /\ Len(queue) \in Nat \ {0} /\ Len(queue') = Len(queue) - 1
      /\ \A j \in 1..(Len(queue) - 1) : queue'[j] = queue[j + 1]
  BY <1>1, <1>2, HeadTailProperties, LenProperties, EmptySeq
<1>4. queue[1].node \in Q!Nodes
  BY <1>3 DEF Q!Nodes
<1>5. ASSUME NEW j \in 1..Len(queue')
      PROVE  queue'[j].node \in Q!Nodes /\ queue'[j].node # queue[1].node
  <2>1. j + 1 \in 1..Len(queue) /\ 1 \in 1..Len(queue) /\ queue'[j] = queue[j + 1]
    BY <1>3
  <2>2. QED
    BY <1>1, <2>1 DEF Q!Nodes
<1>6. QED
  BY <1>2, <1>4, <1>5 DEF Q!Nodes

(* clean brings nothing in; with no receiver under way it leaves nothing.    *)
LEMMA CleanEffect ==
    ASSUME QP!IInv, Q!Clean
    PROVE  /\ Q!Nodes' \subseteq Q!Nodes /\ UNCHANGED <<pc, call, got>>
           /\ (\A w \in Worker : pc[w] = "idle") => Q!Nodes' = {}
<1> DEFINE n == IF count < Len(queue) THEN count ELSE Len(queue)
           m == Len(queue) - n
<1>1. queue \in Seq(Q!Entry) /\ Len(queue) \in Nat
  BY QueueType
<1>2. count \in Nat
  BY DEF QP!IInv, QP!TypeOK
<1>3. queue' = SubSeq(queue, 1, m) /\ UNCHANGED <<pc, call, got>>
  BY DEF Q!Clean
<1>4. n \in 0..Len(queue) /\ m \in 0..Len(queue)
  BY <1>1, <1>2
<1> HIDE DEF m
<1>5. Len(queue') = m /\ \A j \in 1..m : queue'[j] = queue[j]
  BY <1>1, <1>3, <1>4, QP!PrefixProperties
<1>6. Q!Nodes' \subseteq Q!Nodes
  BY <1>1, <1>4, <1>5 DEF Q!Nodes
<1>7. ASSUME \A w \in Worker : pc[w] = "idle" PROVE Q!Nodes' = {}
  <2>1. Q!TokenPerMessage
    BY SameQueue DEF QP!IInv
  <2>2. Q!Holders = {}
    BY <1>7 DEF Q!Holders
  <2>3. Cardinality(Q!Holders) = 0
    BY <2>2, FS_EmptySet
  <2>4. count = Len(queue)
    BY <1>1, <1>2, <2>1, <2>3 DEF Q!TokenPerMessage, Q!Cardinality, Cardinality
  <2>5. m = 0
    BY <1>1, <2>4 DEF m
  <2>6. QED
    BY <1>5, <2>5 DEF Q!Nodes
<1>8. QED
  BY <1>3, <1>6, <1>7
-----------------------------------------------------------------------------
(* The invariant of the pool.                                              *)

PoolType ==
    /\ bStart \in BOOLEAN
    /\ state \in [Worker -> {"UNSTART", "NORMAL", "STOP", "TIMEOUT", "DONE"}]
    /\ wpc \in [Worker -> {"begin", "loop", "take", "got", "run", "exit", "out"}]
    /\ owner \in {"out", "send", "mark", "join", "clean"}
    /\ at \in Worker
    /\ status \in [Task -> {"new", "admitted", "sent", "refused", "done", "dropped"}]
    /\ starts \in 0..MaxStart

(* Only a thread in takeTask is a receiver, and it takes what it receives.   *)
Waits == \A w \in Worker : pc[w] # "idle" => wpc[w] = "take" /\ call[w].deque

(* Which threads are known to have ended.                                   *)
Joined ==
    /\ owner = "out" /\ ~bStart => \A w \in Worker : wpc[w] = "out"
    /\ owner \in {"mark", "join"} => \A w \in Worker : w < at => wpc[w] = "out"
    /\ owner = "clean" => \A w \in Worker : wpc[w] = "out"

(* A message without a task that stop will send is not in the list already.  *)
NullsNew ==
    /\ owner = "out" => \A w \in Worker : <<w>> \notin Q!Nodes
    /\ owner = "send" => \A w \in Worker : w >= at => <<w>> \notin Q!Nodes

Placed == \A t \in Task : t \in Q!Nodes => status[t] = "sent"

PoolInv == PoolType /\ Waits /\ Joined /\ NullsNew /\ Placed /\ RunsOnce
IInv == QP!IInv /\ PoolInv

LEMMA InitInv == Init => IInv
<1> SUFFICES ASSUME Init PROVE IInv
  OBVIOUS
<1>1. QP!IInv
  <2>1. QP!Init
    BY SameQueue DEF Init
  <2>2. QED
    BY <2>1, QueAssumptions, QP!InitInv
<1>2. queue = <<>> /\ pc = [w \in Worker |-> "idle"]
  BY DEF Init, Q!Init
<1>3. Q!Nodes = {}
  BY <1>2 DEF Q!Nodes
<1>4. 1 \in Worker
  BY PoolAssumption DEF Worker
<1>5. PoolType
  <2>1. 0 \in 0..MaxStart
    BY PoolAssumption
  <2>2. state \in [Worker -> {"UNSTART", "NORMAL", "STOP", "TIMEOUT", "DONE"}]
    BY DEF Init
  <2>3. wpc \in [Worker -> {"begin", "loop", "take", "got", "run", "exit", "out"}]
    BY DEF Init
  <2>4. status \in [Task -> {"new", "admitted", "sent", "refused", "done", "dropped"}]
    BY DEF Init
  <2>5. QED
    BY <1>4, <2>1, <2>2, <2>3, <2>4 DEF Init, PoolType
<1>6. Waits /\ Joined
  BY <1>2 DEF Init, Waits, Joined
<1>7. NullsNew /\ Placed /\ RunsOnce
  BY <1>3 DEF Init, NullsNew, Placed, RunsOnce, Holds
<1>8. QED
  BY <1>1, <1>5, <1>6, <1>7 DEF IInv, PoolInv

(* Every step of the pool is one of the queue, or leaves it alone: a message *)
(* is sent with a node that is free, and clean is called with a single        *)
(* priority, whose iterator stands at the end.                              *)
LEMMA QueueStep == IInv /\ [Next]_vars => [Q!Next]_(Q!vars)
<1> SUFFICES ASSUME IInv, [Next]_vars PROVE [Q!Next]_(Q!vars)
  OBVIOUS
<1>1. UNCHANGED queVars => [Q!Next]_(Q!vars)
  BY DEF queVars, Q!vars
<1>2. ASSUME NEW w \in Worker, TakeTask(w) PROVE Q!Next
  <2>1. [timed |-> FALSE, deque |-> TRUE] \in Q!Call
    BY DEF Q!Call
  <2>2. \/ Q!Recv(w, TRUE) \/ Q!EndWait(w)
        \/ Q!BeginWait(w, [timed |-> FALSE, deque |-> TRUE])
    BY <1>2 DEF TakeTask
  <2>3. QED
    BY <2>1, <2>2 DEF Q!Next
<1>3. ASSUME NEW w \in Worker, Woken(w) PROVE Q!Next
  BY <1>3 DEF Woken, Q!Next
<1>4. ASSUME NEW n \in Task \cup Null, n \notin Q!Nodes, Q!SendMessage(n, 0)
      PROVE  Q!Next
  <2>1. 0 \in Q!Prio
    BY DEF Q!Prio
  <2>2. QED
    BY <1>4, <2>1 DEF Q!Next
<1>5. ASSUME NEW t \in Task, AddTask(t) PROVE [Q!Next]_(Q!vars)
  <2>1. CASE status[t] = "admitted" /\ Q!SendMessage(t, 0)
    <3>1. t \notin Q!Nodes
      BY <2>1 DEF IInv, PoolInv, Placed
    <3>2. QED
      BY <1>4, <2>1, <3>1
  <2>2. CASE UNCHANGED queVars
    BY <1>1, <2>2
  <2>3. QED
    BY <1>5, <2>1, <2>2, OnePriority
<1>6. CASE SendNull
  <2>1. CASE Q!SendMessage(<<at>>, 0)
    <3>1. at \in Worker /\ owner = "send"
      BY <1>6 DEF IInv, PoolInv, PoolType, SendNull
    <3>2. <<at>> \in Null
      BY <3>1 DEF Null
    <3>3. at >= at
      BY <3>1 DEF Worker
    <3>4. <<at>> \notin Q!Nodes
      BY <3>1, <3>3 DEF IInv, PoolInv, NullsNew
    <3>5. QED
      BY <1>4, <2>1, <3>2, <3>4
  <2>2. CASE UNCHANGED queVars
    BY <1>1, <2>2
  <2>3. QED
    BY <1>6, <2>1, <2>2 DEF SendNull
<1>7. CASE EndStop
  <2>1. QP!AtEnd
    BY QueAssumptions, QP!OnePriorityAtEnd DEF IInv, QP!IInv
  <2>2. Q!AtEnd
    BY <2>1 DEF QP!AtEnd, Q!AtEnd, QP!Prio, Q!Prio
  <2>3. QED
    BY <1>7, <2>2 DEF EndStop, Q!Next
<1>8. CASE UNCHANGED vars
  BY <1>1, <1>8 DEF vars
<1>9. ASSUME NEW w \in Worker,
             Run(w) \/ Loop(w) \/ Looping(w) \/ RunTask(w) \/ TimeOut(w)
      PROVE  UNCHANGED queVars
  BY <1>9 DEF Run, Loop, Looping, RunTask, TimeOut
<1>10. CASE Start \/ BeginStop \/ Mark \/ Join
  BY <1>1, <1>10 DEF Start, BeginStop, Mark, Join
<1>11. QED
  BY <1>1, <1>2, <1>3, <1>5, <1>6, <1>7, <1>8, <1>9, <1>10
     DEF Next, WorkerStep, StopStep
-----------------------------------------------------------------------------
(* The steps.                                                              *)

(* A step of one thread that leaves the queue alone.                        *)
LEMMA ThreadStep ==
    ASSUME IInv, NEW w \in Worker,
           Run(w) \/ Loop(w) \/ Looping(w) \/ RunTask(w) \/ TimeOut(w)
    PROVE  PoolInv'
<1>1. PoolType /\ Waits /\ Joined /\ NullsNew /\ Placed /\ RunsOnce
  BY DEF IInv, PoolInv
<1>2. UNCHANGED <<queVars, poolVars>> /\ Q!Nodes' = Q!Nodes
  BY DEF Run, Loop, Looping, RunTask, TimeOut, queVars, Q!Nodes
<1>3. UNCHANGED <<queue, pc, call, got, bStart, owner, at, starts>>
  BY <1>2 DEF queVars, poolVars
<1>4. PoolType'
  <2>1. /\ state' \in [Worker -> {"UNSTART", "NORMAL", "STOP", "TIMEOUT", "DONE"}]
        /\ wpc' \in [Worker -> {"begin", "loop", "take", "got", "run", "exit", "out"}]
    BY <1>1 DEF PoolType, Run, Loop, Looping, RunTask, TimeOut, Go
  <2>2. status' \in [Task -> {"new", "admitted", "sent", "refused", "done", "dropped"}]
    BY <1>1 DEF PoolType, Run, Loop, Looping, RunTask, TimeOut
  <2>3. QED
    BY <1>1, <1>3, <2>1, <2>2 DEF PoolType
(* Only this thread moves, and not out of takeTask or back from its end.     *)
<1>5. /\ \A v \in Worker \ {w} : wpc'[v] = wpc[v]
      /\ wpc[w] \notin {"take", "out"}
      /\ wpc'[w] \in {"got", "run"} => wpc[w] \in {"got", "run"}
  BY <1>1 DEF PoolType, Run, Loop, Looping, RunTask, TimeOut, Go
<1>6. Waits'
  BY <1>1, <1>3, <1>5 DEF Waits
<1>7. Joined' /\ NullsNew'
  BY <1>1, <1>2, <1>3, <1>5 DEF Joined, NullsNew
(* A task whose fate is settled was with this thread, which lets go of it.   *)
<1>8. \A t \in Task : status'[t] = status[t] \/ (Holds(w, t) /\ ~Holds(w, t)')
  <2>1. CASE UNCHANGED status
    BY <2>1
  <2>2. CASE Looping(w)
    BY <1>1, <1>3, <2>2 DEF PoolType, Looping, Go, Holds
  <2>3. CASE RunTask(w)
    BY <1>1, <1>3, <2>3 DEF PoolType, RunTask, Go, Holds
  <2>4. QED
    BY <2>1, <2>2, <2>3 DEF Run, Loop, TimeOut
<1>9. \A v \in Worker, t \in Task : Holds(v, t)' => Holds(v, t)
  BY <1>3, <1>5 DEF Holds
<1>10. Placed' /\ RunsOnce'
  BY <1>1, <1>2, <1>8, <1>9 DEF Placed, RunsOnce
<1>11. QED
  BY <1>4, <1>6, <1>7, <1>10 DEF PoolInv

(* Taking a task: from the list to the thread.                              *)
LEMMA TakeStep ==
    ASSUME IInv, NEW w \in Worker, TakeTask(w) \/ Woken(w)
    PROVE  PoolInv'
<1>1. PoolType /\ Waits /\ Joined /\ NullsNew /\ Placed /\ RunsOnce /\ QP!IInv
  BY DEF IInv, PoolInv
<1>2. UNCHANGED <<bStart, owner, at, starts, state, status>>
  BY DEF TakeTask, Woken, poolVars
<1>3. /\ pc \in [Worker -> {"idle", "waiting", "token"}]
      /\ call \in [Worker -> Q!Call]
      /\ got \in [Worker -> Q!Entry \cup {NoMessage, Garbage}]
  BY <1>1, QueueType
(* Waiting, and being let through.                                          *)
<1>4. ASSUME UNCHANGED <<queue, got, wpc>>, Waits' PROVE PoolInv'
  <2>1. Q!Nodes' = Q!Nodes
    BY <1>4 DEF Q!Nodes
  <2>2. QED
    BY <1>1, <1>2, <1>4, <2>1 DEF PoolInv, PoolType, Joined, NullsNew, Placed, RunsOnce, Holds
<1>5. CASE Woken(w)
  BY <1>1, <1>3, <1>4, <1>5 DEF Woken, Q!Pend, Waits
<1>6. CASE wpc[w] = "take" /\ Q!BeginWait(w, [timed |-> FALSE, deque |-> TRUE]) /\ UNCHANGED wpc
  BY <1>1, <1>3, <1>4, <1>6 DEF Q!BeginWait, Waits
<1>7. ASSUME NEW tokens, Q!Take(w, TRUE, tokens), queue # <<>>, Go(w, "take", "got"), Waits'
      PROVE  PoolInv'
  <2>1. /\ got' = [got EXCEPT ![w] = queue[1]]
        /\ queue[1].node \in Q!Nodes \ Q!Nodes'
        /\ Q!Nodes' \subseteq Q!Nodes
    BY <1>1, <1>7, TakeEffect
  <2>2. wpc[w] = "take" /\ wpc' = [wpc EXCEPT ![w] = "got"]
    BY <1>7 DEF Go
  <2>3. PoolType' /\ Joined' /\ NullsNew' /\ Placed'
    BY <1>1, <1>2, <2>1, <2>2 DEF PoolType, Joined, NullsNew, Placed
  <2>4. ASSUME NEW t \in Task PROVE Holds(w, t)' <=> t = queue[1].node
    BY <1>1, <1>3, <2>1, <2>2 DEF Holds, PoolType
  <2>5. ASSUME NEW t \in Task, NEW v \in Worker \ {w} PROVE Holds(v, t)' <=> Holds(v, t)
    BY <1>1, <1>3, <2>1, <2>2 DEF Holds, PoolType
  <2>6. ~\E t \in Task : Holds(w, t)
    BY <2>2 DEF Holds
  <2>7. RunsOnce'
    BY <1>1, <1>2, <2>1, <2>4, <2>5, <2>6 DEF RunsOnce, Placed
  <2>8. QED
    BY <1>7, <2>3, <2>7 DEF PoolInv
<1>8. CASE Q!Recv(w, TRUE) /\ Go(w, "take", "got")
  <2>1. queue # <<>>
    BY <1>1, <1>8, QueAssumptions, QP!TokenFindsMessage DEF Q!Recv, QP!IInv
  <2>2. Q!Take(w, TRUE, count - 1) /\ pc[w] = "idle" /\ UNCHANGED <<pc, call>>
    BY <1>8 DEF Q!Recv
  <2>3. Waits'
    BY <1>1, <1>8, <2>2 DEF Waits, Go, PoolType
  <2>4. QED
    BY <1>7, <1>8, <2>1, <2>2, <2>3
<1>9. CASE Q!EndWait(w) /\ Go(w, "take", "got")
  <2>1. pc[w] = "token" /\ call[w].deque
    BY <1>1, <1>9 DEF Q!EndWait, Waits
  <2>2. queue # <<>>
    BY <1>1, <2>1, QueAssumptions, QP!TokenFindsMessage DEF QP!IInv
  <2>3. call[w].deque = TRUE
    BY <1>3, <2>1 DEF Q!Call
  <2>4. Q!Take(w, TRUE, count)
    BY <1>9, <2>3 DEF Q!EndWait
  <2>5. pc' = [pc EXCEPT ![w] = "idle"] /\ \A v \in Worker \ {w} : call'[v] = call[v]
    BY <1>3, <1>9 DEF Q!EndWait
  <2>6. Waits'
    BY <1>1, <1>3, <1>9, <2>5 DEF Waits, Go, PoolType
  <2>7. QED
    BY <1>7, <1>9, <2>2, <2>4, <2>6
<1>10. QED
  BY <1>5, <1>6, <1>8, <1>9 DEF TakeTask

(* A task that is added was neither in the list nor with a thread.           *)
LEMMA AddStep ==
    ASSUME IInv, NEW t \in Task, AddTask(t)
    PROVE  PoolInv'
<1>1. PoolType /\ Waits /\ Joined /\ NullsNew /\ Placed /\ RunsOnce /\ QP!IInv
  BY DEF IInv, PoolInv
<1>2. UNCHANGED <<bStart, owner, at, starts, state, wpc>>
  BY DEF AddTask, poolVars
<1>3. /\ status[t] \in {"new", "admitted"}
      /\ \A u \in Task \ {t} : status'[u] = status[u]
      /\ status' \in [Task -> {"new", "admitted", "sent", "refused", "done", "dropped"}]
  BY <1>1 DEF AddTask, PoolType
<1>4. t \notin Q!Nodes /\ \A w \in Worker : ~Holds(w, t)
  BY <1>1, <1>3 DEF Placed, RunsOnce
<1>5. UNCHANGED <<pc, call, got>> /\ Q!Nodes' \subseteq Q!Nodes \cup {t}
  <2>1. CASE Q!SendMessage(t, 0)
    BY <1>1, <2>1, SendEffect
  <2>2. CASE UNCHANGED queVars
    BY <2>2 DEF queVars, Q!Nodes
  <2>3. QED
    BY <2>1, <2>2, OnePriority
<1>6. t \in Q!Nodes' => status'[t] = "sent"
  <2>1. CASE status' = [status EXCEPT ![t] = "sent"]
    BY <1>1, <2>1 DEF PoolType
  <2>2. CASE UNCHANGED queVars
    BY <1>4, <2>2 DEF queVars, Q!Nodes
  <2>3. QED
    BY <2>1, <2>2, OnePriority
<1>7. PoolType' /\ Waits' /\ Joined'
  BY <1>1, <1>2, <1>3, <1>5 DEF PoolType, Waits, Joined
<1>8. ASSUME NEW w \in Worker PROVE <<w>> \in Q!Nodes' => <<w>> \in Q!Nodes
  BY <1>5, PoolAssumption DEF Worker
<1>9. NullsNew'
  BY <1>1, <1>2, <1>8 DEF NullsNew
<1>10. \A w \in Worker, u \in Task : Holds(w, u)' <=> Holds(w, u)
  BY <1>2, <1>5 DEF Holds
<1>11. Placed' /\ RunsOnce'
  BY <1>1, <1>3, <1>4, <1>5, <1>6, <1>10 DEF Placed, RunsOnce
<1>12. QED
  BY <1>7, <1>9, <1>11 DEF PoolInv

(* The owner's steps that leave the queue alone.                            *)
LEMMA OwnerStep ==
    ASSUME IInv, Start \/ BeginStop \/ Mark \/ Join
    PROVE  PoolInv'
<1>1. PoolType /\ Waits /\ Joined /\ NullsNew /\ Placed /\ RunsOnce
  BY DEF IInv, PoolInv
<1>2. UNCHANGED <<queVars, status>> /\ Q!Nodes' = Q!Nodes
  BY DEF Start, BeginStop, Mark, Join, queVars, Q!Nodes
<1>3. UNCHANGED <<queue, pc, call, got>>
  BY <1>2 DEF queVars
<1>4. threadNum \in Nat \ {0} /\ Worker = 1..threadNum /\ at \in Worker /\ 1 \in Worker
  BY <1>1, PoolAssumption DEF PoolType, Worker
<1>5. CASE Start
  <2>1. \A w \in Worker : wpc[w] = "out" /\ pc[w] = "idle"
    BY <1>1, <1>5 DEF Start, Joined, Waits
  <2>2. wpc' = [w \in Worker |-> "begin"] /\ bStart' = TRUE /\ UNCHANGED <<owner, at>>
        /\ owner = "out"
    BY <1>5 DEF Start
  <2>3. starts' \in 0..MaxStart
    BY <1>1, <1>5, PoolAssumption DEF Start, PoolType
  <2>4. PoolType'
    BY <1>1, <1>2, <1>5, <2>2, <2>3 DEF Start, PoolType
  <2>5. Waits' /\ Joined' /\ NullsNew'
    BY <1>1, <1>2, <1>3, <2>1, <2>2 DEF Waits, Joined, NullsNew
  <2>6. Placed' /\ RunsOnce'
    BY <1>1, <1>2, <2>2 DEF Placed, RunsOnce, Holds
  <2>7. QED
    BY <2>4, <2>5, <2>6 DEF PoolInv
<1>6. ASSUME UNCHANGED wpc, PoolType', Joined', NullsNew' PROVE PoolInv'
  BY <1>1, <1>2, <1>3, <1>6 DEF PoolInv, Waits, Placed, RunsOnce, Holds
<1>7. CASE BeginStop
  <2>1. PoolType'
    BY <1>1, <1>2, <1>4, <1>7 DEF BeginStop, PoolType
  <2>2. Joined' /\ NullsNew'
    BY <1>1, <1>2, <1>7 DEF BeginStop, Joined, NullsNew
  <2>3. QED
    BY <1>6, <1>7, <2>1, <2>2 DEF BeginStop
<1>8. CASE Mark
  <2>1. PoolType'
    BY <1>1, <1>2, <1>8 DEF Mark, PoolType
  <2>2. Joined' /\ NullsNew'
    BY <1>1, <1>2, <1>8 DEF Mark, Joined, NullsNew
  <2>3. QED
    BY <1>6, <1>8, <2>1, <2>2 DEF Mark
<1>9. CASE Join
  <2>1. /\ owner = "join" /\ wpc[at] = "out" /\ NextOr("mark", "clean")
        /\ state' = [state EXCEPT ![at] = "UNSTART"]
        /\ UNCHANGED <<bStart, wpc, status, starts>>
    BY <1>9 DEF Join
  <2>2. at' \in Worker
    BY <1>4, <2>1 DEF NextOr
  <2>3. PoolType'
    BY <1>1, <2>1, <2>2 DEF PoolType, NextOr
  <2>4. \A w \in Worker : w < at + 1 => wpc[w] = "out"
    BY <1>1, <1>4, <2>1 DEF Joined
  <2>5. Joined' /\ NullsNew'
    BY <1>4, <2>1, <2>4 DEF NextOr, Joined, NullsNew
  <2>6. QED
    BY <1>6, <2>1, <2>3, <2>5
<1>10. QED
  BY <1>5, <1>7, <1>8, <1>9

(* One message without a task.                                              *)
LEMMA SendStep ==
    ASSUME IInv, SendNull
    PROVE  PoolInv'
<1>1. PoolType /\ Waits /\ Joined /\ NullsNew /\ Placed /\ RunsOnce /\ QP!IInv
  BY DEF IInv, PoolInv
<1>2. /\ owner = "send" /\ NextOr("send", IF Threads = {} THEN "clean" ELSE "mark")
      /\ UNCHANGED <<bStart, state, wpc, status, starts>>
  BY DEF SendNull
<1>3. threadNum \in Nat \ {0} /\ Worker = 1..threadNum /\ at \in Worker /\ <<at>> \in Null
  BY <1>1, PoolAssumption DEF PoolType, Worker, Null
<1>4. UNCHANGED <<pc, call, got>> /\ Q!Nodes' \subseteq Q!Nodes \cup {<<at>>}
  <2>1. CASE Q!SendMessage(<<at>>, 0)
    BY <1>1, <1>3, <2>1, SendEffect
  <2>2. CASE UNCHANGED queVars
    BY <2>2 DEF queVars, Q!Nodes
  <2>3. QED
    BY <2>1, <2>2 DEF SendNull
<1>5. \A t \in Task : t # <<at>>
  BY <1>3, PoolAssumption
<1>6. PoolType'
  BY <1>1, <1>2, <1>3 DEF PoolType, NextOr
<1>7. Waits' /\ Joined'
  <2>1. Waits'
    BY <1>1, <1>2, <1>4 DEF Waits
  <2>2. owner' \in {"send", "mark", "clean"} /\ (owner' = "mark" => at' = 1)
    BY <1>2 DEF NextOr
  <2>3. owner' = "clean" => \A w \in Worker : wpc'[w] = "out"
    BY <1>2 DEF NextOr, Threads
  <2>4. QED
    BY <1>3, <2>1, <2>2, <2>3 DEF Joined
<1>8. NullsNew'
  <2>1. ASSUME NEW w \in Worker, w >= at + 1 PROVE <<w>> \notin Q!Nodes'
    <3>1. <<w>> # <<at>> /\ w >= at
      BY <1>3, <2>1
    <3>2. QED
      BY <1>1, <1>2, <1>4, <3>1 DEF NullsNew
  <2>2. QED
    BY <1>2, <2>1 DEF NullsNew, NextOr
<1>9. \A w \in Worker, t \in Task : Holds(w, t)' <=> Holds(w, t)
  BY <1>2, <1>4 DEF Holds
<1>10. Placed' /\ RunsOnce'
  BY <1>1, <1>2, <1>4, <1>5, <1>9 DEF Placed, RunsOnce
<1>11. QED
  BY <1>6, <1>7, <1>8, <1>10 DEF PoolInv

(* When every thread has been joined, clean leaves nothing behind.           *)
LEMMA CleanStep ==
    ASSUME IInv, EndStop
    PROVE  PoolInv'
<1>1. PoolType /\ Waits /\ Joined /\ NullsNew /\ Placed /\ RunsOnce /\ QP!IInv
  BY DEF IInv, PoolInv
<1>2. /\ owner = "clean" /\ Q!Clean /\ owner' = "out"
      /\ status' = [t \in Task |-> IF t \in Q!Nodes /\ t \notin Q!Nodes'
                                   THEN "dropped" ELSE status[t]]
      /\ UNCHANGED <<bStart, at, state, wpc, starts>>
  BY DEF EndStop
<1>3. \A w \in Worker : wpc[w] = "out" /\ pc[w] = "idle"
  BY <1>1, <1>2, QueueType DEF Joined, Waits
<1>4. UNCHANGED <<pc, call, got>> /\ Q!Nodes' = {}
  BY <1>1, <1>2, <1>3, CleanEffect
<1>5. PoolType'
  BY <1>1, <1>2 DEF PoolType
<1>6. Waits' /\ Joined' /\ NullsNew'
  BY <1>1, <1>2, <1>3, <1>4 DEF Waits, Joined, NullsNew
<1>7. Placed' /\ RunsOnce'
  BY <1>2, <1>3, <1>4 DEF Placed, RunsOnce, Holds
<1>8. QED
  BY <1>5, <1>6, <1>7 DEF PoolInv

LEMMA StepInv == IInv /\ [Next]_vars => IInv'
<1> SUFFICES ASSUME IInv, [Next]_vars PROVE IInv'
  OBVIOUS
<1>1. QP!IInv'
  <2>1. [Q!Next]_(Q!vars)
    BY QueueStep
  <2>2. UNCHANGED Q!vars <=> UNCHANGED QP!vars
    BY DEF Q!vars, QP!vars
  <2>3. [QP!Next]_(QP!vars)
    BY <2>1, <2>2, SameQueue
  <2>4. QED
    BY <2>3, QueAssumptions, QP!NextInv DEF IInv
<1>2. CASE UNCHANGED vars
  <2>1. UNCHANGED <<queue, pc, call, got, bStart, owner, at, starts, state, wpc, status>>
    BY <1>2 DEF vars, queVars, poolVars
  <2>2. QED
    BY <1>1, <2>1 DEF IInv, PoolInv, PoolType, Waits, Joined, NullsNew, Placed, RunsOnce,
                      Holds, Q!Nodes
<1>3. CASE Next
  BY <1>1, <1>3, ThreadStep, TakeStep, AddStep, OwnerStep, SendStep, CleanStep
     DEF Next, WorkerStep, StopStep, IInv
<1>4. QED
  BY <1>2, <1>3

LEMMA Invariance == Spec => []IInv
<1>1. Init => IInv
  BY InitInv
<1>2. IInv /\ [Next]_vars => IInv'
  BY StepInv
<1>3. QED
  BY <1>1, <1>2, PTL DEF Spec

-----------------------------------------------------------------------------
(* Every variable of the pool and of its queue keeps its type; stop's loops   *)
(* index no thread that is not there.                                       *)
THEOREM TypeCorrect == Spec => []TypeOK
<1>1. IInv => TypeOK
  BY SameQueue DEF IInv, QP!IInv, PoolInv, PoolType, TypeOK
<1>2. QED
  BY <1>1, Invariance, PTL

(* Messages and tokens agree, whatever start and stop leave behind: a thread  *)
(* never wakes to an empty list.                                            *)
THEOREM TokenPerMessageHolds == Spec => []TokenPerMessage
<1>1. IInv => TokenPerMessage
  BY SameQueue DEF IInv, QP!IInv, TokenPerMessage
<1>2. QED
  BY <1>1, Invariance, PTL

(* addTask, takeTask and stop: no task is run by two threads, or twice.       *)
THEOREM RunsOnceHolds == Spec => []RunsOnce
<1>1. IInv => RunsOnce
  BY DEF IInv, PoolInv
<1>2. QED
  BY <1>1, Invariance, PTL

(* The pool uses m_task as the specification of the queue demands: it calls   *)
(* clean() only where no iterator is left on a freed node.  So whatever is     *)
(* proved of the queue holds in the pool.                                   *)
THEOREM QueueRefinement == Spec => Q!Spec
<1>1. Init => Q!Init
  BY DEF Init
<1>2. IInv /\ [Next]_vars => [Q!Next]_(Q!vars)
  BY QueueStep
<1>3. QED
  BY <1>1, <1>2, Invariance, PTL DEF Spec, Q!Spec
-----------------------------------------------------------------------------
(* TaskPool.  What it takes beyond the invariant: a thread is stopped only    *)
(* after m_bStart has been cleared, and it runs a task, not a message.        *)

Stopping == bStart => owner = "out" /\ \A w \in Worker : state[w] # "STOP"
Running  == \A w \in Worker : wpc[w] = "run" => got[w].node \in Task
Busy     == Stopping /\ Running

LEMMA BusyStep == IInv /\ Busy /\ [Next]_vars => Busy'
<1> SUFFICES ASSUME IInv, Busy, [Next]_vars PROVE Busy'
  OBVIOUS
<1>1. PoolType /\ Stopping /\ Running
  BY DEF IInv, PoolInv, Busy
<1>2. got \in [Worker -> Q!Entry \cup {NoMessage, Garbage}]
  BY QueueType DEF IInv
<1>3. ASSUME NEW w \in Worker, Run(w) \/ Loop(w) \/ Looping(w) \/ RunTask(w) \/ TimeOut(w)
      PROVE  Busy'
  <2>1. UNCHANGED <<got, bStart, owner>>
    BY <1>3 DEF Run, Loop, Looping, RunTask, TimeOut, queVars, poolVars
  <2>2. Stopping'
    BY <1>1, <1>3, <2>1 DEF Run, Loop, Looping, RunTask, TimeOut, Stopping, PoolType
  <2>3. \A v \in Worker : wpc'[v] = "run" => wpc[v] = "run" \/ got[v].node \in Task
    BY <1>1, <1>3 DEF Run, Loop, Looping, RunTask, TimeOut, Go, PoolType
  <2>4. QED
    BY <1>1, <2>1, <2>2, <2>3 DEF Busy, Running
<1>4. ASSUME NEW w \in Worker, TakeTask(w) PROVE Busy'
  <2>1. UNCHANGED <<bStart, owner, state>>
    BY <1>4 DEF TakeTask, poolVars
  <2>2. /\ \A v \in Worker \ {w} : wpc'[v] = wpc[v] /\ got'[v] = got[v]
        /\ wpc'[w] # "run"
    BY <1>1, <1>2, <1>4
       DEF TakeTask, Go, Q!Recv, Q!BeginWait, Q!EndWait, Q!Take, PoolType
  <2>3. QED
    BY <1>1, <2>1, <2>2 DEF Busy, Stopping, Running
<1>5. ASSUME NEW w \in Worker, Woken(w) PROVE Busy'
  BY <1>1, <1>5 DEF Woken, Q!Pend, poolVars, Busy, Stopping, Running
<1>6. ASSUME NEW t \in Task, AddTask(t) PROVE Busy'
  BY <1>1, <1>6 DEF AddTask, Q!SendMessage, queVars, poolVars, Busy, Stopping, Running
<1>7. CASE Start \/ BeginStop
  BY <1>1, <1>7 DEF Start, BeginStop, queVars, Busy, Stopping, Running
<1>8. CASE SendNull \/ Mark \/ Join \/ EndStop
  BY <1>1, <1>8 DEF SendNull, Mark, Join, EndStop, Q!SendMessage, Q!Clean, queVars, NextOr,
                    Busy, Stopping, Running
<1>9. CASE UNCHANGED vars
  BY <1>1, <1>9 DEF vars, queVars, poolVars, Busy, Stopping, Running
<1>10. QED
  BY <1>3, <1>4, <1>5, <1>6, <1>7, <1>8, <1>9 DEF Next, WorkerStep, StopStep

LEMMA BusyInvariant == Spec => []Busy
<1>1. Init => Busy
  BY DEF Init, Busy, Stopping, Running
<1>2. IInv /\ Busy /\ [Next]_vars => Busy'
  BY BusyStep
<1>3. QED
  BY <1>1, <1>2, Invariance, PTL DEF Spec
-----------------------------------------------------------------------------
(* The line.                                                               *)

(* A message goes to the end of the line, where the one iterator stands.      *)
LEMMA SendLine ==
    ASSUME IInv, NEW n \in (Task \cup Null) \ Q!Nodes, Q!SendMessage(n, 0)
    PROVE  /\ Q!Nodes' = Q!Nodes \cup {n} /\ UNCHANGED <<pc, call, got>>
           /\ \A s, t : InFront(s, t)' <=> InFront(s, t) \/ (s \in Q!Nodes /\ t = n)
<1> DEFINE e == [node |-> n, prio |-> 0]
           last == Len(queue) + 1
<1>1. /\ queue \in Seq(Q!Entry) /\ Len(queue) \in Nat
      /\ \A i, j \in 1..Len(queue) : queue[i].node = queue[j].node => i = j
  BY QueueType DEF IInv
<1>2. Q!Link(iter[0], e) /\ UNCHANGED <<pc, call, got>>
  BY DEF Q!SendMessage
<1>3. iter[0] = End
  <2>1. QP!AtEnd
    BY QueAssumptions, QP!OnePriorityAtEnd DEF IInv, QP!IInv
  <2>2. QED
    BY <2>1 DEF QP!AtEnd, QP!Prio
<1>4. PICK i \in 1..last : Q!NodeAt(i) = End /\ queue' = Q!Insert(queue, i, e)
  BY <1>2, <1>3 DEF Q!Link
<1>5. i = last
  <2>1. ASSUME i \in 1..Len(queue) PROVE FALSE
    <3>1. queue[i] \in Q!Entry
      BY <1>1, <2>1, ElementOfSeq
    <3>2. queue[i].node \in Task \cup Null
      BY <3>1 DEF Q!Entry
    <3>3. queue[i].node = End
      BY <1>4, <2>1 DEF Q!NodeAt
    <3>4. QED
      BY <3>2, <3>3, QueAssumptions DEF QP!NodeAssumption
  <2>2. QED
    BY <1>1, <1>4, <2>1
<1>6. queue' = [j \in 1..last |-> IF j < last THEN queue[j] ELSE e]
  <2>1. queue' = [j \in 1..last |-> IF j < last THEN queue[j]
                                    ELSE IF j = last THEN e ELSE queue[j - 1]]
    BY <1>4, <1>5 DEF Q!Insert
  <2>2. \A j \in 1..last : ~(j < last) => j = last
    BY <1>1
  <2>3. QED
    BY <2>1, <2>2
<1>7. Len(queue') = last /\ \A j \in 1..last : queue'[j].node = IF j < last THEN queue[j].node ELSE n
  <2>1. e \in Q!Entry /\ e.node = n
    BY DEF Q!Entry, Q!Prio
  <2>2. \A j \in 1..last : j < last => queue[j] \in Q!Entry
    BY <1>1, ElementOfSeq
  <2> HIDE DEF e
  <2>3. last \in Nat
    BY <1>1
  <2>4. queue' \in [1..last -> Q!Entry]
    BY <1>6, <2>1, <2>2
  <2>5. queue' \in Seq(Q!Entry)
    BY <2>3, <2>4, SeqDef
  <2>6. Len(queue') = last
    BY <2>3, <2>4, <2>5, LenProperties
  <2>7. QED
    BY <1>6, <2>1, <2>6
<1>8. Q!Nodes' = Q!Nodes \cup {n}
  <2>1. Q!Nodes = {queue[j].node : j \in 1..Len(queue)}
    BY DEF Q!Nodes
  <2>2. Q!Nodes' = {queue'[j].node : j \in 1..last}
    BY <1>7 DEF Q!Nodes
  <2>3. QED
    BY <1>1, <1>7, <2>1, <2>2
<1>9. ASSUME NEW s, NEW t
      PROVE  InFront(s, t)' <=> InFront(s, t) \/ (s \in Q!Nodes /\ t = n)
  <2>1. InFront(s, t)' <=>
           \E j, k \in 1..last : j < k /\ queue'[j].node = s /\ queue'[k].node = t
    BY <1>7 DEF InFront
  <2>2. ASSUME InFront(s, t) PROVE InFront(s, t)'
    <3>1. PICK j \in 1..Len(queue), k \in 1..Len(queue) :
                  j < k /\ queue[j].node = s /\ queue[k].node = t
      BY <2>2 DEF InFront
    <3>2. /\ j \in 1..last /\ k \in 1..last
          /\ queue'[j].node = s /\ queue'[k].node = t
      BY <1>1, <1>7, <3>1
    <3>3. QED
      BY <2>1, <3>1, <3>2
  <2>3. ASSUME s \in Q!Nodes, t = n PROVE InFront(s, t)'
    <3>1. PICK j \in 1..Len(queue) : queue[j].node = s
      BY <2>3 DEF Q!Nodes
    <3>2. /\ j \in 1..last /\ last \in 1..last /\ j < last
          /\ queue'[j].node = s /\ queue'[last].node = n
      BY <1>1, <1>7, <3>1
    <3>3. QED
      BY <2>1, <2>3, <3>2
  <2>4. ASSUME InFront(s, t)' PROVE InFront(s, t) \/ (s \in Q!Nodes /\ t = n)
    <3>1. PICK j \in 1..last, k \in 1..last :
                  j < k /\ queue'[j].node = s /\ queue'[k].node = t
      BY <2>1, <2>4
    <3>2. j \in 1..Len(queue) /\ queue[j].node = s
      BY <1>1, <1>7, <3>1
    <3>3. CASE k = last
      BY <1>1, <1>7, <3>1, <3>2, <3>3 DEF Q!Nodes
    <3>4. CASE k < last
      <4>1. k \in 1..Len(queue) /\ queue[k].node = t
        BY <1>1, <1>7, <3>1, <3>4
      <4>2. j < k /\ queue[j].node = s
        BY <3>1, <3>2
      <4>3. InFront(s, t)
        BY <3>2, <4>1, <4>2 DEF InFront
      <4>4. QED
        BY <4>3
    <3>5. k < last \/ k = last
      BY <1>1
    <3>6. QED
      BY <3>3, <3>4, <3>5
  <2>5. QED
    BY <2>2, <2>3, <2>4
<1>10. QED
  BY <1>2, <1>8, <1>9

(* The first of the line is taken; nobody else loses his place.              *)
LEMMA TakeLine ==
    ASSUME IInv, queue # <<>>, NEW w \in Worker, NEW tokens, Q!Take(w, TRUE, tokens)
    PROVE  /\ queue[1].node \in Q!Nodes /\ Q!Nodes' = Q!Nodes \ {queue[1].node}
           /\ \A s : ~InFront(s, queue[1].node)
           /\ \A s, t : InFront(s, t)' <=> InFront(s, t) /\ s # queue[1].node
<1> DEFINE n == queue[1].node
<1>1. /\ queue \in Seq(Q!Entry) /\ Len(queue) \in Nat
      /\ \A i, j \in 1..Len(queue) : queue[i].node = queue[j].node => i = j
  BY QueueType DEF IInv
<1>2. queue' = Tail(queue)
  BY DEF Q!Take
<1>3. /\ Len(queue) \in Nat \ {0} /\ Len(queue') = Len(queue) - 1
      /\ \A j \in 1..(Len(queue) - 1) : queue'[j] = queue[j + 1]
  BY <1>1, <1>2, HeadTailProperties, LenProperties, EmptySeq
<1>4. 1 \in 1..Len(queue) /\ n \in Q!Nodes
  BY <1>3 DEF Q!Nodes
<1>5. Q!Nodes' = Q!Nodes \ {n}
  <2>1. \A j \in 1..(Len(queue) - 1) :
           j + 1 \in 1..Len(queue) /\ queue'[j].node = queue[j + 1].node /\ queue[j + 1].node # n
    BY <1>1, <1>3, <1>4
  <2>2. ASSUME NEW m \in Q!Nodes' PROVE m \in Q!Nodes /\ m # n
    <3>1. PICK j \in 1..Len(queue') : queue'[j].node = m
      BY DEF Q!Nodes
    <3>2. j + 1 \in 1..Len(queue) /\ queue[j + 1].node = m /\ m # n
      BY <1>3, <2>1, <3>1
    <3>3. QED
      BY <3>2 DEF Q!Nodes
  <2>3. ASSUME NEW m \in Q!Nodes, m # n PROVE m \in Q!Nodes'
    <3>1. PICK k \in 1..Len(queue) : queue[k].node = m
      BY DEF Q!Nodes
    <3>2. k # 1
      BY <2>3, <3>1
    <3>3. k - 1 \in 1..Len(queue') /\ queue'[k - 1].node = m
      BY <1>1, <1>3, <3>1, <3>2
    <3>4. QED
      BY <3>3 DEF Q!Nodes
  <2>4. QED
    BY <2>2, <2>3
<1>6. ASSUME NEW s, InFront(s, n) PROVE FALSE
  <2>1. PICK i \in 1..Len(queue), j \in 1..Len(queue) : i < j /\ queue[j].node = n
    BY <1>6 DEF InFront
  <2>2. QED
    BY <1>1, <1>4, <2>1
<1>7. ASSUME NEW s, NEW t PROVE InFront(s, t)' <=> InFront(s, t) /\ s # n
  <2>1. ASSUME InFront(s, t)' PROVE InFront(s, t) /\ s # n
    <3>1. PICK i \in 1..Len(queue'), j \in 1..Len(queue') :
                  i < j /\ queue'[i].node = s /\ queue'[j].node = t
      BY <2>1 DEF InFront
    <3>2. /\ i + 1 \in 1..Len(queue) /\ j + 1 \in 1..Len(queue) /\ i + 1 < j + 1
          /\ queue[i + 1].node = s /\ queue[j + 1].node = t
      BY <1>1, <1>3, <3>1
    <3>3. i + 1 # 1
      BY <3>1
    <3>4. s # n
      BY <1>1, <1>4, <3>2, <3>3
    <3>5. QED
      BY <3>2, <3>4 DEF InFront
  <2>2. ASSUME InFront(s, t), s # n PROVE InFront(s, t)'
    <3>1. PICK i \in 1..Len(queue), j \in 1..Len(queue) :
                  i < j /\ queue[i].node = s /\ queue[j].node = t
      BY <2>2 DEF InFront
    <3>2. i # 1
      BY <2>2, <3>1
    <3>3. i - 1 \in 1..Len(queue') /\ j - 1 \in 1..Len(queue') /\ i - 1 < j - 1
      BY <1>1, <1>3, <3>1, <3>2
    <3>4. queue'[i - 1] = queue[i] /\ queue'[j - 1] = queue[j]
      BY <1>1, <1>3, <3>1, <3>3
    <3>5. queue'[i - 1].node = s /\ queue'[j - 1].node = t
      BY <3>1, <3>4
    <3>6. QED
      BY <3>3, <3>5 DEF InFront
  <2>3. QED
    BY <2>1, <2>2
<1>8. QED
  BY <1>4, <1>5, <1>6, <1>7
-----------------------------------------------------------------------------
(* The steps, as clients and owner see them.                                *)

LEMMA WaitingFacts ==
    /\ T!Waiting = Task \cap Q!Nodes
    /\ T!InSlots = {t \in Task : \E w \in Worker : Holds(w, t)}
<1>1. T!Waiting = Task \cap Q!Nodes
  BY DEF T!Waiting, ahead
<1>2. \A w \in Worker : taken[w] \cup runs[w] = {t \in Task : Holds(w, t)}
  BY DEF taken, runs, Holds
<1>3. QED
  BY <1>1, <1>2 DEF T!InSlots

(* What a thread has depends on nothing else.                               *)
LEMMA SlotKept ==
    ASSUME NEW v \in Worker, UNCHANGED <<wpc[v], got[v]>>
    PROVE  UNCHANGED <<taken[v], runs[v]>>
BY DEF taken, runs

LEMMA SlotFree ==
    ASSUME NEW v \in Worker, wpc[v] \notin {"got", "run"}
    PROVE  taken[v] = {} /\ runs[v] = {}
BY DEF taken, runs

LEMMA SlotFreed ==
    ASSUME NEW v \in Worker, wpc'[v] \notin {"got", "run"}
    PROVE  taken'[v] = {} /\ runs'[v] = {}
BY DEF taken, runs

LEMMA SlotsAre ==
    /\ taken = [w \in Worker |-> taken[w]] /\ taken' = [w \in Worker |-> taken'[w]]
    /\ runs = [w \in Worker |-> runs[w]] /\ runs' = [w \in Worker |-> runs'[w]]
BY DEF taken, runs

(* Nothing of it is to be seen.                                             *)
LEMMA Unseen ==
    ASSUME UNCHANGED <<queue, status, phase>>,
           \A w \in Worker : UNCHANGED <<taken[w], runs[w]>>
    PROVE  UNCHANGED T!tvars
<1>1. UNCHANGED ahead
  BY DEF ahead, InFront, Q!Nodes
<1>2. UNCHANGED result
  BY DEF result
<1>3. UNCHANGED <<taken, runs>>
  BY SlotsAre
<1>4. QED
  BY <1>1, <1>2, <1>3 DEF T!tvars

LEMMA ThreadServes ==
    ASSUME IInv, NEW w \in Worker, Run(w) \/ Loop(w) \/ TimeOut(w) \/ Woken(w)
    PROVE  UNCHANGED T!tvars
<1>1. wpc \in [Worker -> {"begin", "loop", "take", "got", "run", "exit", "out"}]
  BY DEF IInv, PoolInv, PoolType
<1>2. UNCHANGED <<queue, got, bStart, owner, status>>
  BY DEF Run, Loop, TimeOut, Woken, Q!Pend, queVars, poolVars
<1>3. UNCHANGED phase
  BY <1>2 DEF phase
<1>4. ASSUME NEW v \in Worker PROVE UNCHANGED <<taken[v], runs[v]>>
  <2>1. CASE wpc'[v] = wpc[v]
    BY <1>2, <2>1, SlotKept
  <2>2. CASE wpc'[v] # wpc[v]
    <3>1. wpc[v] \notin {"got", "run"} /\ wpc'[v] \notin {"got", "run"}
      BY <1>1, <2>2 DEF Run, Loop, TimeOut, Woken, Go
    <3>2. QED
      BY <3>1, SlotFree, SlotFreed
  <2>3. QED
    BY <2>1, <2>2
<1>5. QED
  BY <1>2, <1>3, <1>4, Unseen

(* The first message of the line goes to a thread that has none.            *)
LEMMA TakenServes ==
    ASSUME IInv, NEW w \in Worker, NEW tokens, Q!Take(w, TRUE, tokens), queue # <<>>,
           Go(w, "take", "got"), UNCHANGED <<poolVars, state, status>>
    PROVE  [T!TNext]_(T!tvars)
<1> DEFINE n == queue[1].node
<1>1. /\ got \in [Worker -> Q!Entry \cup {NoMessage, Garbage}]
      /\ wpc \in [Worker -> {"begin", "loop", "take", "got", "run", "exit", "out"}]
      /\ Joined
  BY QueueType DEF IInv, PoolInv, PoolType
<1>2. /\ n \in Q!Nodes /\ Q!Nodes' = Q!Nodes \ {n}
      /\ \A s : ~InFront(s, n)
      /\ \A s, t : InFront(s, t)' <=> InFront(s, t) /\ s # n
  BY TakeLine
<1>3. got' = [got EXCEPT ![w] = queue[1]]
  BY DEF Q!Take
<1> HIDE DEF n
<1>4. wpc[w] = "take" /\ wpc' = [wpc EXCEPT ![w] = "got"]
  BY DEF Go
<1>5. UNCHANGED <<phase, result>> /\ phase # "off"
  BY <1>1, <1>4 DEF poolVars, phase, result, Joined
<1>6. \A v \in Worker \ {w} : UNCHANGED <<taken[v], runs[v]>>
  BY <1>1, <1>3, <1>4, SlotKept
<1>7. taken[w] = {} /\ runs[w] = {}
  BY <1>4, SlotFree
<1>8. taken'[w] = Task \cap {n} /\ runs'[w] = {}
  <2>1. got'[w].node = n /\ wpc'[w] = "got"
    BY <1>1, <1>3, <1>4 DEF n
  <2>2. QED
    BY <2>1 DEF taken, runs
<1>9. UNCHANGED runs
  BY <1>6, <1>7, <1>8, SlotsAre
<1>10. ahead' = [t \in (Task \cap Q!Nodes) \ {n} |-> {s \in Task : InFront(s, t) /\ s # n}]
  BY <1>2 DEF ahead
<1>11. CASE n \in Task
  <2>1. n \in T!Waiting /\ ahead[n] = {}
    BY <1>2, <1>11, WaitingFacts DEF ahead
  <2>2. ahead' = [t \in T!Waiting \ {n} |-> ahead[t] \ {n}]
    <3>1. \A t \in (Task \cap Q!Nodes) \ {n} :
             ahead[t] \ {n} = {s \in Task : InFront(s, t) /\ s # n}
      BY DEF ahead
    <3>2. QED
      BY <1>10, <3>1, WaitingFacts
  <2>3. taken' = [taken EXCEPT ![w] = {n}]
    BY <1>6, <1>8, <1>11, SlotsAre
  <2>4. T!Take(w, n)
    BY <1>5, <1>7, <1>9, <2>1, <2>2, <2>3 DEF T!Take
  <2>5. QED
    BY <1>11, <2>4 DEF T!TNext
<1>12. CASE n \notin Task
  <2>1. UNCHANGED ahead
    <3>1. \A t \in Task \cap Q!Nodes :
             {s \in Task : InFront(s, t) /\ s # n} = {s \in Task : InFront(s, t)}
      BY <1>12
    <3>2. (Task \cap Q!Nodes) \ {n} = Task \cap Q!Nodes
      BY <1>12
    <3>3. QED
      BY <1>10, <3>1, <3>2 DEF ahead
  <2>2. UNCHANGED taken
    <3>1. \A v \in Worker : taken'[v] = taken[v]
      BY <1>6, <1>7, <1>8, <1>12
    <3>2. QED
      BY <3>1, SlotsAre
  <2>3. QED
    BY <1>5, <1>9, <2>1, <2>2 DEF T!tvars
<1>13. QED
  BY <1>11, <1>12

LEMMA TakeServes ==
    ASSUME IInv, NEW w \in Worker, TakeTask(w)
    PROVE  [T!TNext]_(T!tvars)
<1>1. Waits /\ QP!IInv /\ call \in [Worker -> Q!Call]
  BY QueueType DEF IInv, PoolInv
<1>2. UNCHANGED <<poolVars, state, status>>
  BY DEF TakeTask
<1>3. CASE Q!Recv(w, TRUE) /\ Go(w, "take", "got")
  <2>1. queue # <<>>
    BY <1>1, <1>3, QueAssumptions, QP!TokenFindsMessage DEF Q!Recv, QP!IInv
  <2>2. Q!Take(w, TRUE, count - 1)
    BY <1>3 DEF Q!Recv
  <2>3. QED
    BY <1>2, <1>3, <2>1, <2>2, TakenServes
<1>4. CASE Q!EndWait(w) /\ Go(w, "take", "got")
  <2>1. pc[w] = "token" /\ call[w].deque
    BY <1>1, <1>4 DEF Q!EndWait, Waits
  <2>2. queue # <<>>
    BY <1>1, <2>1, QueAssumptions, QP!TokenFindsMessage DEF QP!IInv
  <2>3. call[w].deque = TRUE
    BY <1>1, <2>1 DEF Q!Call
  <2>4. Q!Take(w, TRUE, count)
    BY <1>4, <2>3 DEF Q!EndWait
  <2>5. QED
    BY <1>2, <1>4, <2>2, <2>4, TakenServes
<1>5. CASE Q!BeginWait(w, [timed |-> FALSE, deque |-> TRUE]) /\ UNCHANGED wpc
  <2>1. UNCHANGED <<queue, got, wpc, status, bStart, owner>>
    BY <1>2, <1>5 DEF Q!BeginWait, poolVars
  <2>2. UNCHANGED phase /\ \A v \in Worker : UNCHANGED <<taken[v], runs[v]>>
    BY <2>1, SlotKept DEF phase
  <2>3. QED
    BY <2>1, <2>2, Unseen
<1>6. QED
  BY <1>3, <1>4, <1>5 DEF TakeTask

(* looping: a task is begun, or dropped if the thread has been stopped; a     *)
(* message without one is nothing to anybody.                              *)
LEMMA LoopingServes ==
    ASSUME IInv, Busy, NEW w \in Worker, Looping(w)
    PROVE  [T!TNext]_(T!tvars)
<1> DEFINE n == got[w].node
<1>1. /\ wpc \in [Worker -> {"begin", "loop", "take", "got", "run", "exit", "out"}]
      /\ status \in [Task -> {"new", "admitted", "sent", "refused", "done", "dropped"}]
      /\ Joined /\ RunsOnce /\ Stopping /\ owner \in {"out", "send", "mark", "join", "clean"}
  BY DEF IInv, PoolInv, PoolType, Busy
<1>2. wpc[w] = "got" /\ UNCHANGED <<queue, got, bStart, owner>>
  BY DEF Looping, queVars, poolVars
<1>3. UNCHANGED <<phase, ahead>>
  BY <1>2 DEF phase, ahead, InFront, Q!Nodes
<1>4. \A v \in Worker \ {w} : UNCHANGED <<taken[v], runs[v]>>
  BY <1>1, <1>2, SlotKept DEF Looping, Go
<1>5. taken[w] = Task \cap {n} /\ runs[w] = {}
  BY <1>2 DEF taken, runs
<1>6. CASE n \in Task /\ state[w] # "STOP"
  <2>1. wpc' = [wpc EXCEPT ![w] = "run"] /\ UNCHANGED status
    BY <1>6 DEF Looping, Go
  <2>2. taken'[w] = {} /\ runs'[w] = {n}
    BY <1>1, <1>2, <1>6, <2>1 DEF taken, runs
  <2>3. taken' = [taken EXCEPT ![w] = {}] /\ runs' = [runs EXCEPT ![w] = {n}]
    BY <1>4, <2>2, SlotsAre
  <2>4. T!Begin(w, n)
    BY <1>3, <1>5, <1>6, <2>1, <2>3 DEF T!Begin, result
  <2>5. QED
    BY <1>6, <2>4 DEF T!TNext
<1>7. CASE ~(n \in Task /\ state[w] # "STOP")
  <2>1. /\ wpc' = [wpc EXCEPT ![w] = "loop"]
        /\ status' = [t \in Task |-> IF t = n THEN "dropped" ELSE status[t]]
    BY <1>7 DEF Looping, Go
  <2>2. taken'[w] = {} /\ runs'[w] = {}
    BY <1>1, <2>1, SlotFreed
  <2>3. UNCHANGED runs
    <3>1. \A v \in Worker : runs'[v] = runs[v]
      BY <1>4, <1>5, <2>2
    <3>2. QED
      BY <3>1, SlotsAre
  <2>4. CASE n \in Task
    <3>1. phase = "ending"
      BY <1>1, <1>2, <1>7, <2>4 DEF phase, Stopping, Joined
    <3>2. taken' = [taken EXCEPT ![w] = {}]
      BY <1>4, <2>2, SlotsAre
    <3>3. result' = [result EXCEPT ![n] = "dropped"]
      BY <1>1, <2>1, <2>4 DEF result
    <3>4. T!Drop(w, n)
      BY <1>3, <1>5, <2>3, <2>4, <3>1, <3>2, <3>3 DEF T!Drop
    <3>5. QED
      BY <2>4, <3>4 DEF T!TNext
  <2>5. CASE n \notin Task
    <3>1. UNCHANGED result
      BY <1>1, <2>1, <2>5 DEF result
    <3>2. \A v \in Worker : taken'[v] = taken[v]
      BY <1>4, <1>5, <2>2, <2>5
    <3>3. UNCHANGED taken
      BY <3>2, SlotsAre
    <3>4. QED
      BY <1>3, <2>3, <3>1, <3>3 DEF T!tvars
  <2>6. QED
    BY <2>4, <2>5
<1>8. QED
  BY <1>6, <1>7

LEMMA RunServes ==
    ASSUME IInv, Busy, NEW w \in Worker, RunTask(w)
    PROVE  T!TNext
<1> DEFINE n == got[w].node
<1>1. /\ wpc \in [Worker -> {"begin", "loop", "take", "got", "run", "exit", "out"}]
      /\ status \in [Task -> {"new", "admitted", "sent", "refused", "done", "dropped"}]
      /\ Running
  BY DEF IInv, PoolInv, PoolType, Busy
<1>2. /\ wpc[w] = "run" /\ wpc' = [wpc EXCEPT ![w] = "loop"]
      /\ status' = [status EXCEPT ![n] = "done"]
      /\ UNCHANGED <<queue, got, bStart, owner>>
  BY DEF RunTask, Go, queVars, poolVars
<1>3. n \in Task
  BY <1>1, <1>2 DEF Running
<1>4. UNCHANGED <<phase, ahead>>
  BY <1>2 DEF phase, ahead, InFront, Q!Nodes
<1>5. taken[w] = {} /\ runs[w] = {n}
  BY <1>2, <1>3 DEF taken, runs
<1>6. taken'[w] = {} /\ runs'[w] = {}
  BY <1>1, <1>2, SlotFreed
<1>7. \A v \in Worker \ {w} : UNCHANGED <<taken[v], runs[v]>>
  BY <1>1, <1>2, SlotKept
<1>8. runs' = [runs EXCEPT ![w] = {}]
  BY <1>6, <1>7, SlotsAre
<1>9. UNCHANGED taken
  <2>1. \A v \in Worker : taken'[v] = taken[v]
    BY <1>5, <1>6, <1>7
  <2>2. QED
    BY <2>1, SlotsAre
<1>10. result' = [result EXCEPT ![n] = "done"]
  BY <1>1, <1>2, <1>3 DEF result
<1>11. T!Finish(w, n)
  BY <1>4, <1>5, <1>8, <1>9, <1>10 DEF T!Finish
<1>12. QED
  BY <1>3, <1>11 DEF T!TNext

LEMMA AddServes ==
    ASSUME IInv, NEW t \in Task, AddTask(t)
    PROVE  [T!TNext]_(T!tvars)
<1>1. /\ status \in [Task -> {"new", "admitted", "sent", "refused", "done", "dropped"}]
      /\ Placed /\ RunsOnce
  BY DEF IInv, PoolInv, PoolType
<1>2. UNCHANGED <<bStart, owner, wpc>> /\ status[t] \in {"new", "admitted"}
  BY DEF AddTask, poolVars
<1>3. UNCHANGED phase
  BY <1>2 DEF phase
<1>4. status'[t] \in {"admitted", "sent", "refused"} /\ UNCHANGED result
  <2>1. PICK s \in {"admitted", "sent", "refused"} : status' = [status EXCEPT ![t] = s]
    BY DEF AddTask
  <2>2. status'[t] = s /\ \A u \in Task \ {t} : status'[u] = status[u]
    BY <1>1, <2>1
  <2>3. QED
    BY <1>2, <2>1, <2>2 DEF result
<1>5. CASE UNCHANGED queVars
  <2>1. UNCHANGED <<queue, got>>
    BY <1>5 DEF queVars
  <2>2. UNCHANGED ahead
    BY <2>1 DEF ahead, InFront, Q!Nodes
  <2>3. UNCHANGED <<taken, runs>>
    BY <1>2, <2>1 DEF taken, runs
  <2>4. QED
    BY <1>3, <1>4, <2>2, <2>3 DEF T!tvars
<1>6. CASE status[t] = "admitted" /\ Q!SendMessage(t, 0)
  <2>1. t \notin Q!Nodes
    BY <1>1, <1>6 DEF Placed
  <2>2. /\ Q!Nodes' = Q!Nodes \cup {t} /\ UNCHANGED got
        /\ \A s, u : InFront(s, u)' <=> InFront(s, u) \/ (s \in Q!Nodes /\ u = t)
    BY <1>6, <2>1, SendLine
  <2>3. \A s : ~InFront(s, t)
    BY <2>1 DEF InFront, Q!Nodes
  <2>4. ahead' = [u \in T!Waiting \cup {t} |-> IF u = t THEN T!Waiting ELSE ahead[u]]
    <3>1. ahead' = [u \in (Task \cap Q!Nodes) \cup {t} |-> {s \in Task : InFront(s, u)'}]
      BY <2>2 DEF ahead
    <3>2. {s \in Task : InFront(s, t)'} = Task \cap Q!Nodes
      BY <2>2, <2>3
    <3>3. ASSUME NEW u \in Task \cap Q!Nodes PROVE {s \in Task : InFront(s, u)'} = ahead[u]
      <4>1. \A s : InFront(s, u)' <=> InFront(s, u)
        BY <2>1, <2>2
      <4>2. ahead[u] = {s \in Task : InFront(s, u)}
        BY DEF ahead
      <4>3. QED
        BY <4>1, <4>2
    <3>4. QED
      BY <3>1, <3>2, <3>3, WaitingFacts
  <2>5. UNCHANGED <<taken, runs>>
    BY <1>2, <2>2 DEF taken, runs
  <2>6. t \notin T!Waiting \cup T!InSlots /\ result[t] = "none"
    BY <1>1, <1>6, <2>1, WaitingFacts DEF RunsOnce, result
  <2>7. T!Give(t)
    BY <1>3, <1>4, <2>4, <2>5, <2>6 DEF T!Give
  <2>8. QED
    BY <2>7 DEF T!TNext
<1>7. QED
  BY <1>5, <1>6, OnePriority

(* A message without a task joins the line without anybody's noticing.       *)
LEMMA SendServes ==
    ASSUME IInv, SendNull
    PROVE  UNCHANGED T!tvars
<1>1. /\ owner = "send" /\ UNCHANGED <<bStart, wpc, status>> /\ owner' \in {"send", "mark", "clean"}
  BY DEF SendNull, NextOr
<1>2. at \in Worker /\ NullsNew
  BY DEF IInv, PoolInv, PoolType
<1>3. UNCHANGED phase /\ UNCHANGED result
  BY <1>1 DEF phase, result
<1>4. CASE UNCHANGED queVars
  <2>1. UNCHANGED <<queue, got>>
    BY <1>4 DEF queVars
  <2>2. \A v \in Worker : UNCHANGED <<taken[v], runs[v]>>
    BY <1>1, <2>1, SlotKept
  <2>3. QED
    BY <1>1, <1>3, <2>1, <2>2, Unseen
<1>5. CASE Q!SendMessage(<<at>>, 0)
  <2>1. <<at>> \in (Task \cup Null) \ Q!Nodes /\ <<at>> \notin Task
    <3>1. at >= at
      BY <1>2 DEF Worker
    <3>2. <<at>> \notin Q!Nodes
      BY <1>1, <1>2, <3>1 DEF NullsNew
    <3>3. QED
      BY <1>2, <3>2, PoolAssumption DEF Null, Worker
  <2>2. /\ Q!Nodes' = Q!Nodes \cup {<<at>>} /\ UNCHANGED got
        /\ \A s, u : InFront(s, u)' <=> InFront(s, u) \/ (s \in Q!Nodes /\ u = <<at>>)
    BY <1>5, <2>1, SendLine
  <2>3. \A s, u \in Task : InFront(s, u)' <=> InFront(s, u)
    BY <2>1, <2>2
  <2>4. Task \cap Q!Nodes' = Task \cap Q!Nodes
    BY <2>1, <2>2
  <2>5. ahead' = ahead
    BY <2>3, <2>4 DEF ahead
  <2>6. UNCHANGED <<taken, runs>>
    BY <1>1, <2>2 DEF taken, runs
  <2>7. QED
    BY <1>3, <2>5, <2>6 DEF T!tvars
<1>6. QED
  BY <1>4, <1>5 DEF SendNull

LEMMA SwitchServes ==
    ASSUME IInv, Start \/ BeginStop \/ Mark \/ Join
    PROVE  [T!TNext]_(T!tvars)
<1>1. Joined
  BY DEF IInv, PoolInv
<1>2. UNCHANGED <<queue, got, status>>
  BY DEF Start, BeginStop, Mark, Join, queVars
<1>3. UNCHANGED <<ahead, result>>
  BY <1>2 DEF ahead, InFront, Q!Nodes, result
<1>4. UNCHANGED <<taken, runs>>
  <2>1. ASSUME NEW v \in Worker PROVE UNCHANGED <<taken[v], runs[v]>>
    <3>1. CASE Start
      <4>1. wpc[v] = "out" /\ wpc'[v] = "begin"
        BY <1>1, <3>1 DEF Start, Joined
      <4>2. QED
        BY <4>1, SlotFree, SlotFreed
    <3>2. CASE UNCHANGED wpc
      BY <1>2, <3>2, SlotKept
    <3>3. QED
      BY <3>1, <3>2 DEF BeginStop, Mark, Join
  <2>2. QED
    BY <2>1, SlotsAre
<1>5. CASE Start
  <2>1. phase = "off" /\ phase' = "on"
    BY <1>5 DEF Start, phase
  <2>2. QED
    BY <1>3, <1>4, <2>1 DEF T!TNext, T!SwitchOn
<1>6. CASE BeginStop
  <2>1. phase \in {"on", "off"} /\ phase' = "ending"
    BY <1>6 DEF BeginStop, phase
  <2>2. QED
    BY <1>3, <1>4, <2>1 DEF T!TNext, T!SwitchOff
<1>7. CASE Mark \/ Join
  <2>1. UNCHANGED phase
    BY <1>7 DEF Mark, Join, NextOr, phase
  <2>2. QED
    BY <1>3, <1>4, <2>1 DEF T!tvars
<1>8. QED
  BY <1>5, <1>6, <1>7

(* stop returns: every thread has been joined, and the line is empty.        *)
LEMMA EndServes ==
    ASSUME IInv, Busy, EndStop
    PROVE  T!TNext
<1>1. /\ Joined /\ Waits /\ Stopping /\ QP!IInv /\ pc \in [Worker -> {"idle", "waiting", "token"}]
      /\ status \in [Task -> {"new", "admitted", "sent", "refused", "done", "dropped"}]
      /\ bStart \in BOOLEAN
  BY QueueType DEF IInv, PoolInv, PoolType, Busy
<1>2. /\ owner = "clean" /\ Q!Clean /\ owner' = "out"
      /\ status' = [t \in Task |-> IF t \in Q!Nodes /\ t \notin Q!Nodes'
                                   THEN "dropped" ELSE status[t]]
      /\ UNCHANGED <<bStart, wpc>>
  BY DEF EndStop
<1>3. \A v \in Worker : wpc[v] = "out" /\ pc[v] = "idle"
  BY <1>1, <1>2 DEF Joined, Waits
<1>4. Q!Nodes' = {}
  BY <1>1, <1>2, <1>3, CleanEffect
<1>5. phase = "ending" /\ phase' = "off"
  BY <1>1, <1>2 DEF phase, Stopping
<1>6. ahead' = [t \in {} |-> {}]
  BY <1>4 DEF ahead
<1>7. T!InSlots = {}
  BY <1>3, WaitingFacts DEF Holds
<1>8. \A v \in Worker : UNCHANGED <<taken[v], runs[v]>>
  BY <1>2, <1>3, SlotFree, SlotFreed
<1>9. UNCHANGED <<taken, runs>>
  BY <1>8, SlotsAre
<1>10. result' = [t \in Task |-> IF t \in T!Waiting THEN "dropped" ELSE result[t]]
  BY <1>2, <1>4, WaitingFacts DEF result
<1>11. T!Off
  BY <1>5, <1>6, <1>7, <1>9, <1>10 DEF T!Off
<1>12. QED
  BY <1>11 DEF T!TNext

LEMMA StepServes == IInv /\ Busy /\ [Next]_vars => [T!TNext]_(T!tvars)
<1> SUFFICES ASSUME IInv, Busy, [Next]_vars PROVE [T!TNext]_(T!tvars)
  OBVIOUS
<1>1. CASE Next
  BY <1>1, ThreadServes, TakeServes, LoopingServes, RunServes, AddServes, SendServes,
     SwitchServes, EndServes DEF Next, WorkerStep, StopStep
<1>2. CASE UNCHANGED vars
  <2>1. UNCHANGED <<queue, got, bStart, owner, status, wpc>>
    BY <1>2 DEF vars, queVars, poolVars
  <2>2. UNCHANGED phase /\ \A v \in Worker : UNCHANGED <<taken[v], runs[v]>>
    BY <2>1, SlotKept DEF phase
  <2>3. QED
    BY <2>1, <2>2, Unseen
<1>3. QED
  BY <1>1, <1>2

(* The pool keeps its promise: tasks are taken in the order they came, each    *)
(* once, what was begun is finished, and nothing runs when stop has returned. *)
THEOREM PoolRefinement == Spec => IsTaskPool
<1>1. Init => T!TInit
  <2> SUFFICES ASSUME Init PROVE T!TInit
    OBVIOUS
  <2>1. queue = <<>>
    BY DEF Init, Q!Init
  <2>2. Q!Nodes = {}
    BY <2>1 DEF Q!Nodes
  <2>3. ahead = [t \in {} |-> {}]
    BY <2>2 DEF ahead
  <2>4. \A w \in Worker : taken[w] = {} /\ runs[w] = {}
    BY SlotFree DEF Init
  <2>5. taken = [w \in Worker |-> {}] /\ runs = [w \in Worker |-> {}]
    BY <2>4, SlotsAre
  <2>6. phase = "off" /\ result = [t \in Task |-> "none"]
    BY DEF Init, phase, result
  <2>7. QED
    BY <2>3, <2>5, <2>6 DEF T!TInit
<1>2. IInv /\ Busy /\ [Next]_vars => [T!TNext]_(T!tvars)
  BY StepServes
<1>3. QED
  BY <1>1, <1>2, Invariance, BusyInvariant, PTL DEF Spec, IsTaskPool, T!TSpec
=============================================================================
