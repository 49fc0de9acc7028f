------------------------------ MODULE MCSlave104 ------------------------------
(* A small instance of Slave104: bytes of four bits, two points in a frame.   *)
EXTENDS Slave104
=============================================================================
