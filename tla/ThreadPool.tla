------------------------------ MODULE ThreadPool ------------------------------
(***************************************************************************)
(* The thread pool (Include/BaseInc/Thread/Thread.h): threads that take      *)
(* tasks from a TMsgQue and run them.  It composes the message queue of      *)
(* MsgQue with the loops of the threads, the clients that add tasks and the  *)
(* one owner that starts and stops the pool.                               *)
(*                                                                         *)
(* To stop, the owner wakes the threads with messages that hold no task,     *)
(* joins them one after another and throws away what is left in the queue.   *)
(***************************************************************************)
EXTENDS Integers, Sequences, FiniteSets

CONSTANTS
    threadNum,  \* m_threadNum
    Task,       \* the tasks clients add, each at most once
    QueSize,    \* taskNum: the capacity of m_task
    Level,      \* the priorities clients ask for
    End, NoMessage, Garbage,    \* of MsgQue
    MaxStart    \* bound: how often the pool is started

ASSUME PoolAssumption ==
    /\ threadNum \in Nat \ {0} /\ QueSize \in Nat /\ MaxStart \in Nat
    /\ Level \subseteq Int
    /\ \A w \in 1..threadNum : <<w>> \notin Task \cup {End}
    /\ End \notin Task

VARIABLES
    queue, iter, count, pc, call, got,  \* m_task
    bStart,     \* m_bStart
    state,      \* m_state of each thread
    wpc,        \* where each thread is in loopTask; "out" when there is none
    owner,      \* where start and stop are; "out" when neither is running
    at,         \* the loop counter of stop
    status,     \* what has become of each task
    starts      \* how often the pool has been started

queVars  == <<queue, iter, count, pc, call, got>>
poolVars == <<bStart, owner, at, starts>>
vars == <<queVars, poolVars, state, wpc, status>>

Worker == 1..threadNum
(* The nodes of the messages without a task that stop sends.                *)
Null == {<<w>> : w \in Worker}

(* One priority, the constructor's default.  Of more, stop would leave the    *)
(* iterators on freed nodes: see Clean of MsgQue.                           *)
Q == INSTANCE MsgQue WITH Thread <- Worker, Node <- Task \cup Null,
                          PrioLevel <- 1

Init ==
    /\ Q!Init
    /\ bStart = FALSE
    /\ state = [w \in Worker |-> "UNSTART"]
    /\ wpc = [w \in Worker |-> "out"]
    /\ owner = "out" /\ at = 1
    /\ status = [t \in Task |-> "new"]
    /\ starts = 0

(* m_vecThread: the threads from start until stop has joined them.          *)
Threads == {w \in Worker : wpc[w] # "out" \/ state[w] # "UNSTART"}
-----------------------------------------------------------------------------
(* The threads.                                                            *)

Go(w, from, to) == wpc[w] = from /\ wpc' = [wpc EXCEPT ![w] = to]

(* ThreadWrap::run, and when loopTask returns, the rest of it.              *)
Run(w) ==
    /\ \/ Go(w, "begin", "loop") /\ state' = [state EXCEPT ![w] = "NORMAL"]
       \/ Go(w, "exit", "out") /\ state' = [state EXCEPT ![w] = "DONE"]
    /\ UNCHANGED <<queVars, poolVars, status>>

Loop(w) ==
    /\ Go(w, "loop", IF bStart THEN "take" ELSE "exit")
    /\ UNCHANGED <<queVars, poolVars, state, status>>

(* Mutation: the message is only looked at.                                 *)
TakeTaskShown(w) ==
    /\ wpc[w] = "take"
    /\ \/ Q!Recv(w, FALSE) /\ Go(w, "take", "got")
       \/ Q!BeginWait(w, [timed |-> FALSE, deque |-> FALSE]) /\ UNCHANGED wpc
       \/ Q!EndWait(w) /\ Go(w, "take", "got")
    /\ UNCHANGED <<poolVars, state, status>>

(* takeTask: recvMessage, which waits for as long as it takes.              *)
TakeTask(w) ==
    /\ wpc[w] = "take"
    /\ \/ Q!Recv(w, TRUE) /\ Go(w, "take", "got")
       \/ Q!BeginWait(w, [timed |-> FALSE, deque |-> TRUE]) /\ UNCHANGED wpc
       \/ Q!EndWait(w) /\ Go(w, "take", "got")
    /\ UNCHANGED <<poolVars, state, status>>

Woken(w) == Q!Pend(w) /\ UNCHANGED <<poolVars, state, wpc, status>>

(* A message without a task is passed over, a task that a stopped thread     *)
(* has taken is dropped; looping() takes a timeout back.                    *)
Looping(w) ==
    /\ wpc[w] = "got"
    /\ IF got[w].node \in Task /\ state[w] # "STOP"
       THEN /\ Go(w, "got", "run")
            /\ state' = [state EXCEPT ![w] = "NORMAL"]
            /\ UNCHANGED status
       ELSE /\ Go(w, "got", "loop")
            /\ status' = [t \in Task |-> IF t = got[w].node THEN "dropped" ELSE status[t]]
            /\ UNCHANGED state
    /\ UNCHANGED <<queVars, poolVars>>

(* The task returns; addTaskSync gets its result.                           *)
RunTask(w) ==
    /\ Go(w, "run", "loop")
    /\ status' = [status EXCEPT ![got[w].node] = "done"]
    /\ UNCHANGED <<queVars, poolVars, state>>

(* A task takes longer than allowed: bTimeOut overwrites the state, at once    *)
(* or when the thread has gone on.  Nothing but looping looks at it, so a     *)
(* write on the way there is the same as one when the thread has arrived.    *)
TimeOut(w) ==
    /\ wpc[w] \in {"run", "got"}
    /\ state' = [state EXCEPT ![w] = "TIMEOUT"]
    /\ UNCHANGED <<queVars, poolVars, wpc, status>>
-----------------------------------------------------------------------------
(* The clients: addTask looks at m_bStart, and then sends, even if the pool   *)
(* has been stopped between.  A full queue refuses, and so does any queue a   *)
(* priority that it does not have.                                          *)
AddTask(t) ==
    /\ \/ /\ status[t] = "new"
          /\ status' = [status EXCEPT ![t] = IF bStart THEN "admitted" ELSE "refused"]
          /\ UNCHANGED queVars
       \/ /\ status[t] = "admitted" /\ \E level \in Level \cap Q!Prio : Q!SendMessage(t, level)
          /\ status' = [status EXCEPT ![t] = "sent"]
       \/ /\ status[t] = "admitted"
          /\ Len(queue) >= QueSize \/ ~(Level \subseteq Q!Prio)
          /\ status' = [status EXCEPT ![t] = "refused"]
          /\ UNCHANGED queVars
    /\ UNCHANGED <<poolVars, state, wpc>>
-----------------------------------------------------------------------------
(* The owner.                                                              *)

Start ==
    /\ owner = "out" /\ ~bStart /\ starts < MaxStart
    /\ bStart' = TRUE
    /\ state' = [w \in Worker |-> "UNSTART"]
    /\ wpc' = [w \in Worker |-> "begin"]
    /\ starts' = starts + 1
    /\ UNCHANGED <<queVars, owner, at, status>>

(* stop looks at nothing; the destructor calls it for a stopped pool too.   *)
BeginStop ==
    /\ owner = "out"
    /\ bStart' = FALSE
    /\ owner' = "send" /\ at' = 1
    /\ UNCHANGED <<queVars, state, wpc, status, starts>>

(* Mutation: the counter runs one too far.                                  *)
NextFar(from, to) == at' = at + 1 /\ owner' = IF at < threadNum THEN from ELSE to

(* The loop goes on with from, or is over and goes on to the next.          *)
NextOr(from, to) ==
    IF at < threadNum THEN at' = at + 1 /\ owner' = from
                      ELSE at' = 1 /\ owner' = to

(* Mutation: one message for all.                                           *)
SendNullOnce ==
    /\ owner = "send"
    /\ IF at = 1 /\ Len(queue) < QueSize
       THEN Q!SendMessage(<<at>>, 0)
       ELSE UNCHANGED queVars
    /\ NextOr("send", IF Threads = {} THEN "clean" ELSE "mark")
    /\ UNCHANGED <<bStart, state, wpc, status, starts>>

(* One message without a task for each thread; a full queue takes none.     *)
(* A pool that is stopped has no threads to join.                           *)
SendNull ==
    /\ owner = "send"
    /\ IF Len(queue) < QueSize
       THEN Q!SendMessage(<<at>>, 0)
       ELSE UNCHANGED queVars
    /\ NextOr("send", IF Threads = {} THEN "clean" ELSE "mark")
    /\ UNCHANGED <<bStart, state, wpc, status, starts>>

(* m_vecThread.clear(): the destructor of each thread marks it and joins it. *)
Mark ==
    /\ owner = "mark"
    /\ state' = [state EXCEPT ![at] = "STOP"]
    /\ owner' = "join"
    /\ UNCHANGED <<queVars, bStart, at, wpc, status, starts>>

(* Mutation: the thread is left to itself.                                  *)
JoinNot ==
    /\ owner = "join"
    /\ NextOr("mark", "clean")
    /\ state' = [state EXCEPT ![at] = "UNSTART"]
    /\ UNCHANGED <<queVars, bStart, wpc, status, starts>>

Join ==
    /\ owner = "join" /\ wpc[at] = "out"
    /\ NextOr("mark", "clean")
    /\ state' = [state EXCEPT ![at] = "UNSTART"]
    /\ UNCHANGED <<queVars, bStart, wpc, status, starts>>

(* Mutation: what is left stays.                                            *)
EndStopNoClean ==
    /\ owner = "clean"
    /\ owner' = "out"
    /\ UNCHANGED <<queVars, bStart, at, state, wpc, status, starts>>

(* m_task.clean(): with its message goes the task and its promise.          *)
EndStop ==
    /\ owner = "clean"
    /\ Q!Clean
    /\ status' = [t \in Task |-> IF t \in Q!Nodes /\ t \notin Q!Nodes'
                                 THEN "dropped" ELSE status[t]]
    /\ owner' = "out"
    /\ UNCHANGED <<bStart, at, state, wpc, starts>>
-----------------------------------------------------------------------------
WorkerStep(w) == Run(w) \/ Loop(w) \/ TakeTask(w) \/ Looping(w) \/ RunTask(w)
StopStep == SendNull \/ Mark \/ Join \/ EndStop

Next ==
    \/ \E w \in Worker : WorkerStep(w) \/ Woken(w) \/ TimeOut(w)
    \/ \E t \in Task : AddTask(t)
    \/ Start \/ BeginStop \/ StopStep

Spec == Init /\ [][Next]_vars

(* Tasks return, and every thread is scheduled; the semaphore lets some      *)
(* thread through, no matter which.                                         *)
FairSpec ==
    /\ Spec
    /\ \A w \in Worker : WF_vars(WorkerStep(w))
    /\ WF_vars(\E w \in Worker : Woken(w))
    /\ WF_vars(StopStep)
-----------------------------------------------------------------------------
(* Properties.                                                             *)

(* Types of all variables.                                                 *)
TypeOK ==
    /\ Q!TypeOK
    /\ bStart \in BOOLEAN
    /\ state \in [Worker -> {"UNSTART", "NORMAL", "STOP", "TIMEOUT", "DONE"}]
    /\ wpc \in [Worker -> {"begin", "loop", "take", "got", "run", "exit", "out"}]
    /\ owner \in {"out", "send", "mark", "join", "clean"}
    /\ at \in Worker
    /\ status \in [Task -> {"new", "admitted", "sent", "refused", "done", "dropped"}]
    /\ starts \in 0..MaxStart

(* Through starts, stops and the cleaning of what is left, every message     *)
(* has its token: a thread of the next start does not wake to an empty list. *)
TokenPerMessage == Q!TokenPerMessage

(* A task is with one thread, or in the queue, or settled: none is run      *)
(* twice.                                                                  *)
Holds(w, t) == wpc[w] \in {"got", "run"} /\ got[w].node = t

RunsOnce ==
    \A t \in Task, w \in Worker :
        Holds(w, t) => /\ t \notin Q!Nodes /\ status[t] = "sent"
                       /\ \A v \in Worker \ {w} : ~Holds(v, t)

(* A task that is in the queue while the pool runs, or while it is being      *)
(* stopped, is run or dropped, so its addTaskSync returns or throws.  It     *)
(* says nothing of one that addTask let in before a stop and sent after the   *)
(* stop had cleaned: that one waits, with its addTaskSync, for the next      *)
(* start or the next stop, and for ever if neither comes.                    *)
TaskSettles ==
    \A t \in Task :
        status[t] = "sent" /\ (bStart \/ owner # "out") ~> status[t] \in {"done", "dropped"}

(* stop returns: of threads that wait, and threads that run tasks, each      *)
(* finds its way out, if the queue has room for a message for each of them;   *)
(* a pool with less room may hang.                                          *)
StopReturns == threadNum <= QueSize => (owner # "out" ~> owner = "out")

(* What clients and owner see of the pool: in which order tasks wait, the     *)
(* messages without a task left out, which thread has one, and the end of    *)
(* each.                                                                   *)
phase == IF bStart THEN "on" ELSE IF owner = "out" THEN "off" ELSE "ending"
InFront(s, t) ==
    \E i, j \in 1..Len(queue) : i < j /\ queue[i].node = s /\ queue[j].node = t
ahead  == [t \in Task \cap Q!Nodes |-> {s \in Task : InFront(s, t)}]
taken  == [w \in Worker |-> {t \in Task : wpc[w] = "got" /\ got[w].node = t}]
runs   == [w \in Worker |-> {t \in Task : wpc[w] = "run" /\ got[w].node = t}]
result == [t \in Task |-> IF status[t] \in {"done", "dropped"} THEN status[t] ELSE "none"]

T == INSTANCE TaskPool WITH Slot <- Worker

(* Tasks are taken in the order they were sent, each once; one that has begun *)
(* is finished even while the pool stops; nothing runs when stop returns.     *)
IsTaskPool == T!TSpec
=============================================================================
