------------------------------ MODULE Outstation ------------------------------
(***************************************************************************)
(* What an IEC 104 slave promises the stations that connect to it: the       *)
(* frames of a connection are served one at a time, in the order they were    *)
(* sent, each once and with the headers of its whole answer, on the           *)
(* connection it came from; and nothing is sent that nobody has asked for.   *)
(* What stands behind a header, the values of the points, is not spoken of.   *)
(* How the bytes are split, how the points are spread over frames, and how    *)
(* many connections share the slave makes no difference.  Slave104           *)
(* implements it.                                                            *)
(***************************************************************************)
EXTENDS Naturals, Sequences

CONSTANTS
    Kinds,          \* the kinds of frames stations send
    Echoed,         \* those confirmed by their like
    Acknowledged,   \* those that are carried out and acknowledged
    MaxPoints       \* points in a frame

VARIABLES
    open,           \* the connections that are open
    asked,          \* the frames of each connection that wait to be served
    told,           \* what has been sent on each connection
    yxNum, ycNum,   \* the points there are
    broken          \* a frame was cut, or had a length that is misread

ovars == <<open, asked, told, yxNum, ycNum, broken>>

OInit ==
    /\ open = {} /\ asked = <<>> /\ told = <<>>
    /\ yxNum \in Nat /\ ycNum \in Nat
    /\ broken = FALSE
-----------------------------------------------------------------------------
(* The headers of fs announce the points of a type, first to last,            *)
(* each where the one before has ended.                                    *)
Reports(fs, type, n) ==
    /\ \A i \in DOMAIN fs : fs[i].type = type /\ fs[i].num \in 1..MaxPoints
    /\ fs = <<>> <=> n = 0
    /\ fs # <<>> => fs[1].first = 0 /\ fs[Len(fs)].first + fs[Len(fs)].num = n
    /\ \A i \in 1..(Len(fs) - 1) : fs[i + 1].first = fs[i].first + fs[i].num

(* A confirmation, both types of points, and the termination.                *)
FullReport(fs) ==
    /\ Len(fs) >= 2
    /\ fs[1] = [type |-> "con"] /\ fs[Len(fs)] = [type |-> "fin"]
    /\ \E m \in 1..(Len(fs) - 1) :
          /\ Reports(SubSeq(fs, 2, m), "yx", yxNum)
          /\ Reports(SubSeq(fs, m + 1, Len(fs) - 1), "yc", ycNum)

CarriedOut(kind, fs) ==
    CASE kind = "GI" -> FullReport(fs)
      [] kind = "CS" -> fs = <<[type |-> "clock"]>>
      [] OTHER       -> fs = <<>>

(* fs are the headers of the whole answer to a frame of that kind.           *)
IsAnswer(kind, fs) ==
    CASE kind \in Echoed       -> fs = <<[type |-> kind]>>
      [] kind \in Acknowledged -> /\ fs # <<>> /\ fs[Len(fs)] = [type |-> "S"]
                                  /\ CarriedOut(kind, SubSeq(fs, 1, Len(fs) - 1))
      [] OTHER                 -> fs = <<>>
-----------------------------------------------------------------------------
(* A station connects.                                                     *)
Open ==
    /\ open' = open \cup {Len(asked) + 1}
    /\ asked' = Append(asked, <<>>)
    /\ told' = Append(told, <<>>)
    /\ UNCHANGED <<yxNum, ycNum, broken>>

(* It sends a frame, perhaps one whose length will be misread.               *)
Ask(c, kind) ==
    /\ c \in open
    /\ asked' = [asked EXCEPT ![c] = Append(@, kind)]
    /\ broken' \in {broken, TRUE}
    /\ UNCHANGED <<open, told, yxNum, ycNum>>

(* It leaves, perhaps inside a frame.  What it asked is not answered any more. *)
Close(c) ==
    /\ c \in open
    /\ open' = open \ {c}
    /\ broken' \in {broken, TRUE}
    /\ UNCHANGED <<asked, told, yxNum, ycNum>>

(* The oldest frame of a connection is served: all that is sent is its answer. *)
Serve(c) ==
    /\ c \in open /\ asked[c] # <<>>
    /\ asked' = [asked EXCEPT ![c] = Tail(@)]
    /\ LET added == SubSeq(told'[c], Len(told[c]) + 1, Len(told'[c])) IN
       /\ IsAnswer(Head(asked[c]), added)
       /\ told' = [told EXCEPT ![c] = @ \o added]
    /\ UNCHANGED <<open, yxNum, ycNum, broken>>

(* Nothing is promised after a stream has lost its frames.                   *)
Lost == broken /\ broken'

ONext ==
    \/ Open \/ Lost
    \/ \E c \in open : Close(c) \/ Serve(c) \/ \E kind \in Kinds : Ask(c, kind)

OSpec == OInit /\ [][ONext]_ovars
=============================================================================
