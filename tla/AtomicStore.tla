------------------------------ MODULE AtomicStore ------------------------------
(***************************************************************************)
(* What CDataStorage promises the plugins: a block of points is written at  *)
(* one instant and read at one instant; a reply that is put together point  *)
(* by point holds for each of them what it is at an instant of its own.     *)
(* PointStore implements it.                                               *)
(***************************************************************************)
EXTENDS Integers, Sequences

CONSTANTS
    Thread,     \* the threads of the plugins
    Table,      \* the tables of points: one per device and type
    Size,       \* how many points each of them has
    Value,      \* what a point can hold
    Zero,       \* what it holds at first
    Missing     \* what is read for a point that is not there

VARIABLES
    points,     \* what every point of every table holds
    reply       \* what each thread has read so far in the call it is in

svars == <<points, reply>>

Points(t) == 0..(Size[t] - 1)

SInit ==
    /\ points = [t \in Table |-> [i \in Points(t) |-> Zero]]
    /\ reply = [th \in Thread |-> <<>>]

(* The points of t from id on take the values of d.                         *)
WriteBlock(t, id, d) ==
    /\ points' = [points EXCEPT ![t] =
           [i \in Points(t) |-> IF i \in id..(id + Len(d) - 1) THEN d[i - id + 1]
                                                               ELSE @[i]]]
    /\ UNCHANGED reply

(* n points of t from id on are read, all as they are now.                  *)
ReadBlock(th, t, id, n) ==
    /\ reply' = [reply EXCEPT ![th] = [j \in 1..n |-> <<points[t][id + j - 1]>>]]
    /\ UNCHANGED points

(* One more value joins a reply, as an entry or as an operand of the last.  *)
ReadNext(th, v) ==
    /\ \/ reply' = [reply EXCEPT ![th] = Append(@, <<v>>)]
       \/ /\ reply[th] # <<>>
          /\ reply' = [reply EXCEPT ![th][Len(reply[th])] = Append(@, v)]
    /\ UNCHANGED points

(* A formula joins a reply, its operands to follow.                         *)
BeginFormula(th) ==
    /\ reply' = [reply EXCEPT ![th] = Append(@, <<>>)]
    /\ UNCHANGED points

Forget(th) ==
    /\ reply' = [reply EXCEPT ![th] = <<>>]
    /\ UNCHANGED points

SNext ==
    \/ \E t \in Table : \E id \in Points(t) : \E n \in 1..(Size[t] - id) :
          \/ \E d \in [1..n -> Value] : WriteBlock(t, id, d)
          \/ \E th \in Thread : ReadBlock(th, t, id, n)
    \/ \E th \in Thread :
          \/ ReadNext(th, Missing)
          \/ \E t \in Table : \E id \in Points(t) : ReadNext(th, points[t][id])
          \/ BeginFormula(th)
          \/ Forget(th)

SSpec == SInit /\ [][SNext]_svars
================================================================================
