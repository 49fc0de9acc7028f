------------------------------- MODULE TaskPool -------------------------------
(***************************************************************************)
(* What a pool of threads promises those who give it tasks and the one who    *)
(* starts and stops it: tasks are taken in the order in which they came,      *)
(* each by one thread; one that has been begun is finished, whatever          *)
(* happens; none is dropped before the pool is told to stop; and when stop    *)
(* has returned nothing runs, and nothing waits that was there.  ThreadPool   *)
(* implements it.                                                          *)
(***************************************************************************)
CONSTANTS
    Task,   \* the tasks there are
    Slot    \* where they run: so many at a time

VARIABLES
    phase,  \* "off", "on" or "ending"
    ahead,  \* for each task that waits, those that came before it
    taken,  \* the task each slot has, not begun yet
    runs,   \* the task that runs in it
    result  \* what has become of each task

tvars == <<phase, ahead, taken, runs, result>>

Waiting == DOMAIN ahead
InSlots == UNION {taken[k] \cup runs[k] : k \in Slot}

TInit ==
    /\ phase = "off"
    /\ ahead = [t \in {} |-> {}]
    /\ taken = [k \in Slot |-> {}] /\ runs = [k \in Slot |-> {}]
    /\ result = [t \in Task |-> "none"]
-----------------------------------------------------------------------------
(* Somebody gives a task, once.  Who was let in while the pool was on may     *)
(* come with it when it is off; then it waits for the next start or stop.    *)
Give(t) ==
    /\ result[t] = "none" /\ t \notin Waiting \cup InSlots
    /\ ahead' = [s \in Waiting \cup {t} |-> IF s = t THEN Waiting ELSE ahead[s]]
    /\ UNCHANGED <<phase, taken, runs, result>>

(* The first that waits gets a slot.                                        *)
Take(k, t) ==
    /\ phase # "off"
    /\ taken[k] = {} /\ runs[k] = {}
    /\ t \in Waiting /\ ahead[t] = {}
    /\ ahead' = [s \in Waiting \ {t} |-> ahead[s] \ {t}]
    /\ taken' = [taken EXCEPT ![k] = {t}]
    /\ UNCHANGED <<phase, runs, result>>

Begin(k, t) ==
    /\ taken[k] = {t}
    /\ taken' = [taken EXCEPT ![k] = {}]
    /\ runs' = [runs EXCEPT ![k] = {t}]
    /\ UNCHANGED <<phase, ahead, result>>

Drop(k, t) ==
    /\ phase = "ending"
    /\ taken[k] = {t}
    /\ taken' = [taken EXCEPT ![k] = {}]
    /\ result' = [result EXCEPT ![t] = "dropped"]
    /\ UNCHANGED <<phase, ahead, runs>>

Finish(k, t) ==
    /\ runs[k] = {t}
    /\ runs' = [runs EXCEPT ![k] = {}]
    /\ result' = [result EXCEPT ![t] = "done"]
    /\ UNCHANGED <<phase, ahead, taken>>
-----------------------------------------------------------------------------
SwitchOn ==
    /\ phase = "off" /\ phase' = "on"
    /\ UNCHANGED <<ahead, taken, runs, result>>

(* Switching off what is off sends away who came late.                      *)
SwitchOff ==
    /\ phase \in {"on", "off"} /\ phase' = "ending"
    /\ UNCHANGED <<ahead, taken, runs, result>>

(* It is off when all slots are empty; who still waits is sent away.         *)
Off ==
    /\ phase = "ending" /\ phase' = "off"
    /\ InSlots = {}
    /\ ahead' = [t \in {} |-> {}]
    /\ result' = [t \in Task |-> IF t \in Waiting THEN "dropped" ELSE result[t]]
    /\ UNCHANGED <<taken, runs>>

TNext ==
    \/ SwitchOn \/ SwitchOff \/ Off
    \/ \E t \in Task :
          \/ Give(t)
          \/ \E k \in Slot : Take(k, t) \/ Begin(k, t) \/ Drop(k, t) \/ Finish(k, t)

TSpec == TInit /\ [][TNext]_tvars
=============================================================================
