------------------------------ MODULE MCMsgQue ------------------------------
(* Small instances of MsgQue.                                              *)
EXTENDS MsgQue, TLC

(* No action or property distinguishes threads or nodes.                    *)
QueSymmetry == Permutations(Thread) \cup Permutations(Node)
=============================================================================
