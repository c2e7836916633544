---------------------------- MODULE JobLifecycle ----------------------------
(***************************************************************************)
(* What the job queue promises to operators, without leases, windows,      *)
(* protocols or clocks: every active device has one slot for an action; an *)
(* issued job occupies its device's slot until its one and only outcome    *)
(* frees it; it is granted to the device a bounded number of times, never  *)
(* after its outcome, and nothing completes that was not granted; retiring *)
(* a device cancels what its slot holds and closes the slot for good.      *)
(***************************************************************************)
EXTENDS Naturals

CONSTANTS Device, JobId, MAX_ATTEMPTS, NONE

VARIABLES
    active,  \* devices that may hold jobs
    slot,    \* the job each device holds, or NONE
    fate,    \* what became of each job
    grants   \* how often each job was granted to its device

vars == <<active, slot, fate, grants>>

Outcome == {"completed", "failed", "cancelled"}

Init ==
    /\ active = Device
    /\ slot = [d \in Device |-> NONE]
    /\ fate = [j \in JobId |-> "unissued"]
    /\ grants = [j \in JobId |-> 0]

Issue(d, j) ==
    /\ d \in active
    /\ slot[d] = NONE
    /\ fate[j] = "unissued"
    /\ slot' = [slot EXCEPT ![d] = j]
    /\ fate' = [fate EXCEPT ![j] = "pending"]
    /\ UNCHANGED <<active, grants>>

Grant(d) ==
    /\ slot[d] # NONE
    /\ grants[slot[d]] < MAX_ATTEMPTS
    /\ grants' = [grants EXCEPT ![slot[d]] = @ + 1]
    /\ UNCHANGED <<active, slot, fate>>

Settle(d, outcome) ==
    /\ slot[d] # NONE
    /\ outcome = "completed" => grants[slot[d]] > 0
    /\ slot' = [slot EXCEPT ![d] = NONE]
    /\ fate' = [fate EXCEPT ![slot[d]] = outcome]
    /\ UNCHANGED <<active, grants>>

Retire(d) ==
    /\ d \in active
    /\ active' = active \ {d}
    /\ slot' = [slot EXCEPT ![d] = NONE]
    /\ fate' = [j \in JobId |-> IF j = slot[d] THEN "cancelled" ELSE fate[j]]
    /\ UNCHANGED grants

Next ==
    \E d \in Device :
        \/ \E j \in JobId : Issue(d, j)
        \/ Grant(d)
        \/ \E outcome \in Outcome : Settle(d, outcome)
        \/ Retire(d)

Spec == Init /\ [][Next]_vars
=============================================================================
