---------------------------- MODULE MCEdgeDaemon ----------------------------
(***************************************************************************)
(* The edge daemon: its print queue, and the way of a recording to the     *)
(* picture of a job.  They meet at UpdatePreviewURL, which comes at any    *)
(* time in PrintManager, and share no variable: each is explored with the  *)
(* other at rest instead of in their product.                              *)
(***************************************************************************)
EXTENDS MCPrintManager, PushToTalk

VoiceRests ==
    /\ \A p \in Pids : proc[p] = "none"
    /\ \A j \in LocalJobs : up[j].pc = "none"
    /\ hdl.pc = "start"
QueueRests == \A j \in Jobs : ~Known(j)

(* A notification moves nothing of the microphone's: once the first is     *)
(* delivered no process runs or is started.                                *)
MicrophoneFirst ==
    sent' > 0 => \A p \in Pids : proc'[p] \in {"none", "gone"}

DaemonInit == Init /\ VoiceInit
DaemonNext ==
    \/ VoiceRests /\ Next /\ UNCHANGED pvars
    \/ QueueRests /\ VoiceNext /\ MicrophoneFirst /\ UNCHANGED vars

DaemonSpec == DaemonInit /\ [][DaemonNext]_<<vars, pvars>>
=============================================================================
