---------------------------- MODULE MCDeviceApi ----------------------------
(***************************************************************************)
(* Three parts of device-api beside the pipeline's records: the intake of  *)
(* a job, speech recognition, and the making of its picture.               *)
(*                                                                         *)
(* They share no variable, so a state of one does not matter to the        *)
(* others: each is explored with the other two at rest, in their default   *)
(* deployments, instead of in the product of the three.                    *)
(***************************************************************************)
EXTENDS JobIntake, SpeechToText, ImageGeneration

CONSTANTS c1, c2, c3, u1, u2, s1, s2

(* every backend, with and without S3, a cap that is too small for the     *)
(* recording or not, and both ways to close                                *)
AllSetups ==
    [redis : BOOLEAN, s3 : BOOLEAN, cap : {Final, Final + 1}, bare : {FALSE}]
      \cup [redis : BOOLEAN, s3 : {TRUE}, cap : {Final + 1}, bare : {TRUE}]

(* every recogniser with its keys, and the two named ones without; only    *)
(* calls of Baidu meet, at its token, so that the others make one each     *)
Asr(driver, ifly, baidu, staged, both, calls) ==
    [driver |-> driver, ifly |-> ifly, baidu |-> baidu, staged |-> staged,
     both |-> both, calls |-> calls]
SomeAsrEnvs ==
    {Asr("auto", TRUE, TRUE, staged, both, 1) : staged, both \in BOOLEAN}
      \cup {Asr("auto", FALSE, TRUE, staged, FALSE, 3) : staged \in BOOLEAN}
      \cup {Asr(d, FALSE, FALSE, staged, FALSE, 1) :
              d \in {"iflytek", "baidu"}, staged \in BOOLEAN}
      \cup {Asr("stub", TRUE, TRUE, FALSE, FALSE, 1)}

(* every image driver and model, with and without keys and moderation      *)
AllImageEnvs == ImageEnv

DefaultSetup == setup = [redis |-> TRUE, s3 |-> TRUE, cap |-> Final + 1, bare |-> FALSE]
DefaultAsr == asr = Asr("stub", TRUE, TRUE, FALSE, FALSE, 1)
DefaultImage ==
    /\ env = [driver |-> "stub", qwen |-> FALSE, dash |-> FALSE, baidu |-> FALSE,
              text |-> FALSE, image |-> FALSE]
    /\ token = 0

IntakeRests == DefaultSetup /\ ~Begun
SpeechRests == DefaultAsr /\ made = 0
ImageRests == DefaultImage /\ pc = "start"

Init ==
    /\ IntakeInit /\ SpeechInit
    /\ DefaultSetup \/ DefaultAsr
    /\ ImageInit
    /\ DefaultImage \/ (DefaultSetup /\ DefaultAsr)

Next ==
    \/ SpeechRests /\ ImageRests /\ IntakeNext /\ UNCHANGED <<svars, ivars>>
    \/ IntakeRests /\ ImageRests /\ SpeechNext /\ UNCHANGED <<jvars, ivars>>
    \/ IntakeRests /\ SpeechRests /\ ImageNext /\ UNCHANGED <<jvars, svars>>

Spec ==
    /\ Init /\ [][Next]_<<jvars, svars, ivars>>
    /\ IntakeFairness /\ SpeechFairness /\ ImageFairness

TypeOK == IntakeTypeOK /\ AsrTypeOK /\ ImageTypeOK

(* No vendor that answers late, badly or never keeps a call of speech      *)
(* recognition or a run of picture making from ending, except a Baidu      *)
(* response that breaks off.                                               *)
VendorCallsEnd == CallEnds /\ GenerationEnds
=============================================================================
