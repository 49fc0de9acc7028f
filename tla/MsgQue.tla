------------------------------- MODULE MsgQue -------------------------------
(***************************************************************************)
(* The message queue TMsgQue (Include/BaseInc/MsgQue/MsgQue.h): a linked     *)
(* list under a mutex, an iterator per priority where the next message of   *)
(* that priority goes, and a semaphore that counts the messages.            *)
(*                                                                         *)
(* A receiver that finds the semaphore at zero lets go of the mutex to wait  *)
(* and takes its message in a second lock region.  Everything else is one   *)
(* lock region, and one action.                                            *)
(***************************************************************************)
EXTENDS Integers, Sequences, FiniteSets

CONSTANTS
    Thread,     \* who receives
    Node,       \* where the nodes of the list are allocated
    End,        \* end()
    NoMessage,  \* nothing has been received
    Garbage,    \* what front() of an empty list returns
    QueSize,    \* m_queSize
    PrioLevel   \* m_prioLevel

ASSUME ParamAssumption ==
    /\ QueSize \in Nat
    /\ PrioLevel \in Nat \ {0}
ASSUME ThreadAssumption == IsFiniteSet(Thread)
ASSUME NodeAssumption == End \notin Node

VARIABLES
    queue,      \* m_queue: where each node is, and the priority it was sent with
    iter,       \* m_prioIterPtr
    count,      \* the count of m_semphore
    pc,         \* "idle", "waiting" on the semaphore or holding a "token" of it
    call,       \* the arguments of recvMessage
    got         \* the last message received

vars == <<queue, iter, count, pc, call, got>>

Prio  == 0..(PrioLevel - 1)
Entry == [node : Node, prio : Prio]
Call  == [timed : BOOLEAN, deque : BOOLEAN]
Idle  == [timed |-> FALSE, deque |-> FALSE]

Nodes == {queue[i].node : i \in 1..Len(queue)}
NodeAt(i) == IF i <= Len(queue) THEN queue[i].node ELSE End

Insert(s, i, e) ==
    [j \in 1..(Len(s) + 1) |-> IF j < i THEN s[j] ELSE IF j = i THEN e ELSE s[j - 1]]

(* The constructor and setParam.                                           *)
Init ==
    /\ queue = <<>>
    /\ iter = [p \in Prio |-> End]
    /\ count = 0
    /\ pc = [th \in Thread |-> "idle"]
    /\ call = [th \in Thread |-> Idle]
    /\ got = [th \in Thread |-> NoMessage]
-----------------------------------------------------------------------------
(* The new node is linked in front of the one the iterator points to.  When  *)
(* that one has been freed, there is no telling where: at any place, or in   *)
(* none that a traversal reaches.                                          *)
Link(at, e) ==
    \/ \E i \in 1..(Len(queue) + 1) :
          /\ at \in Nodes \cup {End} => NodeAt(i) = at
          /\ queue' = Insert(queue, i, e)
    \/ at \notin Nodes \cup {End} /\ UNCHANGED queue

(* Mutation: the iterators of the higher priorities stay.                   *)
FollowInsertNot(p, n) == iter

(* Those of the higher priorities that pointed to the same node now point   *)
(* to the new one; the loop ends at the first that did not.                 *)
FollowInsert(p, n) ==
    [q \in Prio |-> IF q > p /\ \A j \in (p + 1)..q : iter[j] = iter[p]
                    THEN n ELSE iter[q]]

(* Mutation: the capacity is passed by one.                                 *)
SendMessageLate(n, p) ==
    /\ Len(queue) <= QueSize
    /\ Link(iter[p], [node |-> n, prio |-> p])
    /\ iter' = FollowInsert(p, n)
    /\ count' = count + 1
    /\ UNCHANGED <<pc, call, got>>

(* sendMessage, with a node that is free; a full queue refuses.             *)
SendMessage(n, p) ==
    /\ Len(queue) < QueSize
    /\ Link(iter[p], [node |-> n, prio |-> p])
    /\ iter' = FollowInsert(p, n)
    /\ count' = count + 1
    /\ UNCHANGED <<pc, call, got>>
-----------------------------------------------------------------------------
(* Mutation: the loop starts at the lowest priority.                        *)
FollowRemoveUp ==
    [p \in Prio |-> IF \A q \in 0..p : iter[q] = NodeAt(1)
                    THEN NodeAt(2) ELSE iter[p]]

(* From the highest priority down, the iterators that point to the first    *)
(* node move on, up to the first that does not.                            *)
FollowRemove ==
    [p \in Prio |-> IF \A q \in p..(PrioLevel - 1) : iter[q] = NodeAt(1)
                    THEN NodeAt(2) ELSE iter[p]]

(* Mutation: a message that has only been shown keeps its token.            *)
TakeNoPost(th, deque, tokens) ==
    /\ got' = [got EXCEPT ![th] = IF queue = <<>> THEN Garbage ELSE queue[1]]
    /\ count' = tokens
    /\ IF deque
       THEN /\ queue' = IF queue = <<>> THEN queue ELSE Tail(queue)
            /\ iter' = FollowRemove
       ELSE UNCHANGED <<queue, iter>>

(* What a receiver that has a token does: front, and pop_front unless it    *)
(* has only been shown the message, whose token it then gives back.         *)
Take(th, deque, tokens) ==
    /\ got' = [got EXCEPT ![th] = IF queue = <<>> THEN Garbage ELSE queue[1]]
    /\ IF deque
       THEN /\ queue' = IF queue = <<>> THEN queue ELSE Tail(queue)
            /\ iter' = FollowRemove
            /\ count' = tokens
       ELSE /\ count' = tokens + 1
            /\ UNCHANGED <<queue, iter>>

(* recvMessage finds a token.                                              *)
Recv(th, deque) ==
    /\ pc[th] = "idle"
    /\ count > 0
    /\ Take(th, deque, count - 1)
    /\ UNCHANGED <<pc, call>>

(* It finds none and waits without the mutex.  (If it is not to wait, it     *)
(* returns.)                                                               *)
BeginWait(th, c) ==
    /\ pc[th] = "idle"
    /\ count = 0
    /\ pc' = [pc EXCEPT ![th] = "waiting"]
    /\ call' = [call EXCEPT ![th] = c]
    /\ UNCHANGED <<queue, iter, count, got>>

Pend(th) ==
    /\ pc[th] = "waiting"
    /\ count > 0
    /\ count' = count - 1
    /\ pc' = [pc EXCEPT ![th] = "token"]
    /\ UNCHANGED <<queue, iter, call, got>>

(* pendFor returns false.                                                  *)
TimeOut(th) ==
    /\ pc[th] = "waiting" /\ call[th].timed
    /\ pc' = [pc EXCEPT ![th] = "idle"]
    /\ call' = [call EXCEPT ![th] = Idle]
    /\ UNCHANGED <<queue, iter, count, got>>

EndWait(th) ==
    /\ pc[th] = "token"
    /\ Take(th, call[th].deque, count)
    /\ pc' = [pc EXCEPT ![th] = "idle"]
    /\ call' = [call EXCEPT ![th] = Idle]
-----------------------------------------------------------------------------
(* Mutation: messages go without their tokens.                              *)
CleanAll ==
    /\ queue' = <<>>
    /\ UNCHANGED <<iter, count, pc, call, got>>

(* clean pops from the back as long as there are messages and tokens.  The   *)
(* iterators stay where they are.                                          *)
Clean ==
    /\ LET n == IF count < Len(queue) THEN count ELSE Len(queue) IN
       /\ queue' = SubSeq(queue, 1, Len(queue) - n)
       /\ count' = count - n
    /\ UNCHANGED <<iter, pc, call, got>>
-----------------------------------------------------------------------------
(* clean frees nodes that iterators may still point to.  Whoever calls it     *)
(* does so when the iterators are at the end, which they always are when     *)
(* there is but one priority, as in ThreadPool.                             *)
AtEnd == \A p \in Prio : iter[p] = End

Next ==
    \/ \E n \in Node \ Nodes, p \in Prio : SendMessage(n, p)
    \/ \E th \in Thread :
          \/ \E deque \in BOOLEAN : Recv(th, deque)
          \/ \E c \in Call : BeginWait(th, c)
          \/ Pend(th) \/ TimeOut(th) \/ EndWait(th)
    \/ AtEnd /\ Clean

Spec == Init /\ [][Next]_vars

-----------------------------------------------------------------------------
(* Properties.                                                             *)

Holders == {th \in Thread : pc[th] = "token"}

(* Types of all variables; the capacity; the list has each node once.       *)
TypeOK ==
    /\ queue \in Seq(Entry)
    /\ Len(queue) <= QueSize
    /\ \A i, j \in 1..Len(queue) : queue[i].node = queue[j].node => i = j
    /\ iter \in [Prio -> Node \cup {End}]
    /\ count \in Nat
    /\ pc \in [Thread -> {"idle", "waiting", "token"}]
    /\ call \in [Thread -> Call]
    /\ got \in [Thread -> Entry \cup {NoMessage, Garbage}]

(* Every message in the list has its token on the semaphore or with a        *)
(* receiver on its way to the list: front() is never called on an empty     *)
(* list, and no message is left behind that nobody is woken for.            *)
TokenPerMessage == count + Cardinality(Holders) = Len(queue)

(* Each iterator points to the first message of a lower priority, or to the  *)
(* end: where the next message of its priority belongs.                     *)
InPlace(p, i) ==
    /\ iter[p] = NodeAt(i)
    /\ \A j \in 1..Len(queue) :
          IF j < i THEN queue[j].prio >= p ELSE queue[j].prio < p

IteratorsInPlace == \A p \in Prio : \E i \in 1..(Len(queue) + 1) : InPlace(p, i)

(* MsgQue.h, line 3: the queue supports priorities.  A message never stands  *)
(* behind one of a lower priority.                                         *)
PriorityOrder == \A i, j \in 1..Len(queue) : i < j => queue[i].prio >= queue[j].prio

P == INSTANCE PrioQueue WITH Message <- Node, Size <- QueSize, Level <- PrioLevel,
                             line <- queue, received <- got

(* The queue hands its messages out by priority and in the order they were   *)
(* sent, each once, and loses none but to clean.                           *)
IsPrioQueue == P!QSpec
=============================================================================
