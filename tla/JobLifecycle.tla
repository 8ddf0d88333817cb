---------------------------- MODULE JobLifecycle ----------------------------
(***************************************************************************)
(* What device-api promises about a job to a device that sends one request *)
(* at a time: submitted input is answered by one picture drawn from an     *)
(* approved text, or by a failure; neither is ever taken back or replaced, *)
(* so the picture the child confirms on the screen is the one that prints. *)
(* A print acknowledgement may be forgotten (see AckIsFinal in DeviceJobs).*)
(*                                                                         *)
(* Once a pipeline has run without the lock (a job in loose), its answer   *)
(* may be given again: another picture, also for an acknowledged job, or   *)
(* a failure.  Even then input is answered only once it was submitted,     *)
(* nothing unapproved is shown, and an answered job never works again.     *)
(***************************************************************************)
CONSTANTS Jobs, Safe, None

VARIABLES phase, shown, loose
lifeVars == <<phase, shown, loose>>

Over == {"ready", "acked", "failed"}
Phases == {"none", "open", "working"} \cup Over

LifeInit ==
    /\ phase = [j \in Jobs |-> "none"]
    /\ shown = [j \in Jobs |-> None]
    /\ loose = {}

Move(j, from, to) ==
    /\ phase[j] = from
    /\ phase' = [phase EXCEPT ![j] = to]
    /\ UNCHANGED loose

Create(j) == Move(j, "none", "open") /\ UNCHANGED shown
CreateSubmitted(j) == Move(j, "none", "working") /\ UNCHANGED shown
Submit(j) == Move(j, "open", "working") /\ UNCHANGED shown
Refuse(j) == Move(j, "working", "failed") /\ UNCHANGED shown
Present(j) ==
    /\ Move(j, "working", "ready")
    /\ \E picture \in Safe : shown' = [shown EXCEPT ![j] = picture]
Acknowledge(j) == Move(j, "ready", "acked") /\ UNCHANGED shown
Forget(j) == Move(j, "acked", "ready") /\ UNCHANGED shown

Loosen(j) ==
    /\ loose' = loose \cup {j}
    /\ UNCHANGED <<phase, shown>>
Again(j) ==
    /\ j \in loose /\ phase[j] \in Over
    /\ \E to \in Over, picture \in Safe \cup {None} :
         /\ Move(j, phase[j], to)
         /\ (picture = None) <=> (to = "failed")
         /\ shown' = [shown EXCEPT ![j] = picture]

LifeNext ==
    \E j \in Jobs : \/ Create(j) \/ CreateSubmitted(j) \/ Submit(j) \/ Refuse(j)
                    \/ Present(j) \/ Acknowledge(j) \/ Forget(j) \/ Loosen(j) \/ Again(j)

LifeSpec ==
    /\ LifeInit /\ [][LifeNext]_lifeVars
    /\ \A j \in Jobs : WF_lifeVars(Refuse(j) \/ Present(j))
=============================================================================
