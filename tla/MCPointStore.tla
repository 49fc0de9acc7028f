---------------------------- MODULE MCPointStore ----------------------------
(* Small instances of PointStore: a device with two points of one type, one   *)
(* with a single point, and one without a point table.                     *)
EXTENDS PointStore

CONSTANTS r, w, t1, t2, t3, v0, v1, f1, f2, f3

Sizes  == [t \in Table |-> IF t = t1 THEN 2 ELSE IF t = t2 THEN 1 ELSE 0]
Fields == [t \in Table |-> IF t = t1 THEN <<f1, f3>> ELSE IF t = t2 THEN <<f2>> ELSE <<>>]
Blocks == {<<v1>>, <<v1, v1>>, <<v0, v0>>}

(* Four transmit points: two points, a formula over both tables and one      *)
(* over a point that is not there.                                         *)
Table1 == <<[formula |-> FALSE, points |-> <<<<t1, 1>>>>],
            [formula |-> TRUE,  points |-> <<<<t1, 0>>, <<t2, 0>>>>],
            [formula |-> FALSE, points |-> <<<<t2, 0>>>>],
            [formula |-> TRUE,  points |-> <<<<t2, 1>>>>]>>

Formulas == {<<<<t2, 0>>, <<t1, 1>>>>}
=============================================================================
