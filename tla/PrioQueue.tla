------------------------------ MODULE PrioQueue ------------------------------
(***************************************************************************)
(* What TMsgQue promises: messages stand in line by priority and, within a   *)
(* priority, in the order they were sent; a receiver gets the first of them, *)
(* or is shown it.  MsgQue implements it.                                   *)
(***************************************************************************)
EXTENDS Integers, Sequences

CONSTANTS
    Thread,     \* who receives
    Message,    \* what is sent
    Size,       \* how many messages may stand in line
    Level,      \* how many priorities there are; a higher number goes first
    NoMessage   \* nothing has been received

VARIABLES
    line,       \* the messages sent and not yet received
    received    \* the last message each thread has received

qvars == <<line, received>>

Prio  == 0..(Level - 1)
Entry == [node : Message, prio : Prio]

QInit ==
    /\ line = <<>>
    /\ received = [th \in Thread |-> NoMessage]

(* e stands before the i-th in line.                                        *)
Insert(s, i, e) ==
    [j \in 1..(Len(s) + 1) |-> IF j < i THEN s[j] ELSE IF j = i THEN e ELSE s[j - 1]]

(* A message goes behind those of its own priority or a higher one, before   *)
(* those of a lower one.                                                   *)
Send(e) ==
    /\ Len(line) < Size
    /\ \E i \in 1..(Len(line) + 1) :
          /\ \A j \in 1..(i - 1) : line[j].prio >= e.prio
          /\ \A j \in i..Len(line) : line[j].prio < e.prio
          /\ line' = Insert(line, i, e)
    /\ UNCHANGED received

Show(th) ==
    /\ line # <<>>
    /\ received' = [received EXCEPT ![th] = line[1]]
    /\ UNCHANGED line

Recv(th) ==
    /\ line # <<>>
    /\ received' = [received EXCEPT ![th] = line[1]]
    /\ line' = Tail(line)

(* The last in line are sent away.                                          *)
Clean ==
    /\ \E n \in 0..Len(line) : line' = SubSeq(line, 1, n)
    /\ UNCHANGED received

QNext ==
    \/ \E e \in Entry : Send(e)
    \/ \E th \in Thread : Show(th) \/ Recv(th)
    \/ Clean

QSpec == QInit /\ [][QNext]_qvars
=============================================================================
