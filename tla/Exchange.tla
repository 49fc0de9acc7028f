------------------------------- MODULE Exchange -------------------------------
(***************************************************************************)
(* What sendSyncRecv promises the threads that share a channel: one         *)
(* exchange at a time; an exchange ends with a failure or with a frame, and *)
(* the frame is the answer to its own request until one that has timed out   *)
(* is answered after all.  SyncRequest implements it.                      *)
(***************************************************************************)
CONSTANTS
    Caller,     \* the threads that share the channel
    NoCaller    \* the channel is free

VARIABLES
    user,       \* the caller whose exchange is in progress
    result,     \* the frame it is about to return: none, its own or another
    failed,     \* some exchange has timed out
    reliable    \* none that has is answered

evars == <<user, result, failed, reliable>>

EInit ==
    /\ user = NoCaller
    /\ result = "none"
    /\ failed = FALSE /\ reliable = TRUE

(* A caller gets the channel to itself.                                    *)
Begin(c) ==
    /\ user = NoCaller
    /\ user' = c
    /\ UNCHANGED <<result, failed, reliable>>

(* A frame is handed to it.                                                *)
Receive(c) ==
    /\ user = c /\ result = "none"
    /\ result' \in {"own", "other"}
    /\ reliable => result' = "own"
    /\ UNCHANGED <<user, failed, reliable>>

(* It waits in vain; a part of the answer may be there by then.             *)
Expire(c) ==
    /\ user = c /\ result = "none"
    /\ failed' = TRUE
    /\ reliable' \in BOOLEAN /\ (reliable' => reliable)
    /\ UNCHANGED <<user, result>>

(* The answer comes after all, and may confuse later exchanges.             *)
AnswerLate ==
    /\ failed
    /\ reliable' = FALSE
    /\ UNCHANGED <<user, result, failed>>

(* A late frame overwrites the one it has not copied yet.                  *)
Overwrite(c) ==
    /\ user = c /\ result # "none"
    /\ ~reliable
    /\ result' \in {"own", "other"}
    /\ UNCHANGED <<user, failed, reliable>>

(* It returns, with the frame or with a failure.                           *)
End(c) ==
    /\ user = c
    /\ user' = NoCaller
    /\ result' = "none"
    /\ UNCHANGED <<failed, reliable>>

ENext ==
    \/ \E c \in Caller :
          Begin(c) \/ Receive(c) \/ Expire(c) \/ Overwrite(c) \/ End(c)
    \/ AnswerLate

ESpec == EInit /\ [][ENext]_evars
=============================================================================
