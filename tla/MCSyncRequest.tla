---------------------------- MODULE MCSyncRequest ----------------------------
(* Small instances of SyncRequest.                                         *)
EXTENDS SyncRequest, TLC

CONSTANTS c1, c2, d1, d2, m1

OneMutex   == [c \in Caller |-> m1]
(* No action or property distinguishes the devices.                        *)
DeviceSymmetry == Permutations(Device)
=============================================================================
