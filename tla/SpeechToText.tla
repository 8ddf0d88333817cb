---------------------------- MODULE SpeechToText ----------------------------
(***************************************************************************)
(* Speech recognition of device-api: what resolveTranscript hands to the   *)
(* adapter createAsrAdapter selected, and what the adapter makes of it     *)
(* (cloud/apps/device-api/src/adapters and asr/asr.controller.ts).         *)
(*                                                                         *)
(* Calls run concurrently: pipeline workers and the ASR endpoint share one *)
(* adapter object.  The Baidu adapter keeps one access token for all of    *)
(* them; the iFlytek adapter opens a WebSocket per call, sends the audio   *)
(* in frames and collects pieces of text until a final message.            *)
(*                                                                         *)
(* The vendor is external: it issues and revokes tokens, answers, fails,   *)
(* ends early, or says nothing.  Left out: signing, formats, the WAV       *)
(* header, empty recordings, and the text itself (a result is a text,      *)
(* nothing or an error).                                                   *)
(***************************************************************************)
EXTENDS Naturals, Sequences

CONSTANTS
    Calls,      \* calls that may be in progress at once
    Tokens,     \* the tokens the vendor issues: 1..Tokens
    AsrEnvs,    \* deployments and jobs to consider, see AsrEnv
    Lengths,    \* lengths of recordings, in bytes
    FRAME_SIZE

ASSUME LengthAssumption == Lengths \subseteq Nat \ {0} /\ FRAME_SIZE \in Nat \ {0}
ASSUME TokenAssumption == Tokens \in Nat

(* driver: ASR_DRIVER; ifly, baidu: the vendor's keys are set; staged: the *)
(* upload put the audio in S3 and kept only its key; both:                 *)
(* ASR_SEND_BASE64_WITH_PRESIGNED.  calls bounds the calls made in all.    *)
AsrEnv == [driver : {"auto", "iflytek", "baidu", "stub"},
           ifly : BOOLEAN, baidu : BOOLEAN, staged : BOOLEAN, both : BOOLEAN, calls : Nat]

ASSUME AsrEnvAssumption == AsrEnvs \subseteq AsrEnv

VARIABLES
    asr,      \* one of AsrEnvs, for good
    call,     \* the calls
    made,     \* calls begun
    cache,    \* the Baidu adapter's token, 0 for null, and whether its time has come
    issued,   \* tokens issued so far
    valid,    \* tokens the vendor honours
    refused   \* tokens the vendor has refused

svars == <<asr, call, made, cache, issued, valid, refused>>

(* audio: how the recording reaches the adapter; wire: the frames sent,    *)
(* their status and which bytes (from the one after from); off: bytes the  *)
(* sending loop is through                                                 *)
Idle == [pc |-> "idle", audio |-> "none", tok |-> 0, len |-> 0, off |-> 0,
         wire |-> <<>>, text |-> FALSE]

Outcomes == {"text", "nothing", "error"}
PCs == {"idle", "begin", "token", "fetch", "ask", "load", "connect", "open",
        "hangs"} \cup Outcomes

AsrTypeOK ==
    /\ asr \in AsrEnvs
    /\ \A c \in Calls :
         /\ call[c].pc \in PCs
         /\ call[c].audio \in {"none", "base64", "url", "both"}
         /\ call[c].tok \in 0..Tokens /\ call[c].off \in 0..call[c].len
    /\ cache.tok \in 0..Tokens /\ cache.due \in BOOLEAN
    /\ issued \in 0..Tokens /\ valid \subseteq 1..issued /\ refused \subseteq 1..issued

SpeechInit ==
    /\ asr \in AsrEnvs
    /\ call = [c \in Calls |-> Idle]
    /\ made = 0
    /\ cache = [tok |-> 0, due |-> FALSE]
    /\ issued = 0 /\ valid = {} /\ refused = {}

(* a driver that is named is taken without its keys, auto looks for them   *)
createAsrAdapter ==
    CASE asr.driver \in {"iflytek", "baidu", "stub"} -> asr.driver
      [] asr.driver = "auto" /\ asr.ifly -> "iflytek"
      [] asr.driver = "auto" /\ ~asr.ifly /\ asr.baidu -> "baidu"
      [] OTHER -> "stub"

usesAudioStaging == createAsrAdapter = "iflytek" /\ asr.ifly

Vendor == <<issued, valid, refused>>
Goto(c, pc) == call' = [call EXCEPT ![c].pc = pc]

-----------------------------------------------------------------------------
(* Begin a call.  The endpoint hands on the request's base64.  A job's     *)
(* audio is in S3 or inline; only an adapter that uses staging gets an     *)
(* address, which S3 may fail to sign; the base64 goes along without one,  *)
(* or when both are asked for, where the job still has it.                 *)
HandOver(presigned) ==
    LET b64 == ~asr.staged /\ (~presigned \/ asr.both) IN
    CASE presigned /\ b64 -> "both"
      [] presigned /\ ~b64 -> "url"
      [] ~presigned /\ b64 -> "base64"
      [] ~presigned /\ ~b64 -> "none"

Begin(c, audio) ==
    /\ call[c].pc = "idle"
    /\ made < asr.calls
    /\ made' = made + 1
    /\ call' = [call EXCEPT ![c] =
         [Idle EXCEPT !.pc = "begin", !.audio = audio]]
    /\ UNCHANGED <<asr, cache, Vendor>>

resolveTranscript(c) ==
    \E presigned \in {FALSE} \cup (IF usesAudioStaging THEN {TRUE} ELSE {}) :
      Begin(c, HandOver(presigned))

AsrEndpoint(c) == Begin(c, "base64")

Own(c) == UNCHANGED <<asr, made, cache, Vendor>>

(* transcribe() up to its first await *)
transcribe(c) ==
    LET a == createAsrAdapter
        given == call[c].audio
    IN
    /\ call[c].pc = "begin"
    /\ Goto(c, CASE a = "stub" -> "text"
                 [] a = "baidu" /\ (~asr.baidu \/ given \notin {"base64", "both"}) -> "nothing"
                 [] a = "baidu" /\ asr.baidu /\ given \in {"base64", "both"} -> "token"
                 [] a = "iflytek" /\ ~asr.ifly -> "nothing"
                 [] a = "iflytek" /\ asr.ifly /\ given = "none" -> "nothing"
                 [] a = "iflytek" /\ asr.ifly /\ given = "url" -> "load"
                 [] OTHER -> "connect")
    /\ Own(c)

-----------------------------------------------------------------------------
(* Baidu *)

(* getToken: the cached token until its time has come, or a new one        *)
HeldToken(c) ==
    /\ call[c].pc = "token"
    /\ IF cache.tok # 0 /\ ~cache.due
       THEN call' = [call EXCEPT ![c].pc = "ask", ![c].tok = cache.tok]
       ELSE Goto(c, "fetch")
    /\ Own(c)

NewToken(c) ==
    /\ call[c].pc = "fetch"
    /\ issued < Tokens
    /\ issued' = issued + 1
    /\ valid' = valid \cup {issued + 1}
    /\ cache' = [tok |-> issued + 1, due |-> FALSE]
    /\ call' = [call EXCEPT ![c].pc = "ask", ![c].tok = issued + 1]
    /\ UNCHANGED <<asr, made, refused>>

BadForgotten(c) == [cache EXCEPT !.due = @ \/ cache.tok # call[c].tok]
Forgotten(c) == [cache EXCEPT !.tok = 0]

(* error 101, 102 or 103: the adapter forgets its token, whichever it is   *)
TokenRefused(c) ==
    /\ call[c].pc = "ask"
    /\ call[c].tok \notin valid
    /\ refused' = refused \cup {call[c].tok}
    /\ cache' = Forgotten(c)
    /\ Goto(c, "nothing")
    /\ UNCHANGED <<asr, made, issued, valid>>

BaiduAnswers(c) ==
    /\ call[c].pc = "ask"
    /\ call[c].tok \in valid
    /\ \E o \in {"text", "nothing"} : Goto(c, o)
    /\ Own(c)

(* A request fails, answers badly or stays silent until its timeout.  When *)
(* the connection breaks after the response has begun, neither "end" nor   *)
(* "error" nor "timeout" is ever emitted and the promise stays pending.    *)
httpsPost(c) ==
    /\ call[c].pc \in {"fetch", "ask"}
    /\ Goto(c, "error")
    /\ Own(c)
ResponseBreaks(c) ==
    /\ call[c].pc \in {"fetch", "ask"}
    /\ Goto(c, "hangs")
    /\ Own(c)

-----------------------------------------------------------------------------
(* iFlytek *)

(* the recording is fetched from its address, or cannot be                 *)
resolveAudioBuffer(c) ==
    /\ call[c].pc = "load"
    /\ \E pc \in {"connect", "error"} : Goto(c, pc)
    /\ Own(c)

(* the length of the recording matters from here on                        *)
Open(c) ==
    /\ call[c].pc = "connect"
    /\ \E len \in Lengths :
         call' = [call EXCEPT ![c].pc = "open", ![c].len = len]
    /\ Own(c)

(* A recording of one frame is sent as that frame, status 0, and an empty  *)
(* one, status 2; a longer one in frames of FRAME_SIZE with status 0, 1    *)
(* .. 1, 2.  single counts as sent twice: off stays at 0 until the end.    *)
Single(c) == call[c].len <= FRAME_SIZE
FrameEnd(c) ==
    IF call[c].off + FRAME_SIZE <= call[c].len THEN call[c].off + FRAME_SIZE
                                               ELSE call[c].len
BadStatus(c) ==
    CASE call[c].off = 0 -> 0
      [] call[c].off > 0 /\ FrameEnd(c) > call[c].len -> 2
      [] OTHER -> 1
Status(c) ==
    CASE call[c].off = 0 -> 0
      [] call[c].off > 0 /\ FrameEnd(c) >= call[c].len -> 2
      [] OTHER -> 1

Frame(c) ==
    LET len == call[c].len IN
    CASE Single(c) /\ call[c].wire = <<>> -> [status |-> 0, from |-> 0, to |-> len]
      [] Single(c) /\ call[c].wire # <<>> -> [status |-> 2, from |-> len, to |-> len]
      [] OTHER -> [status |-> Status(c), from |-> call[c].off, to |-> FrameEnd(c)]

SendFrame(c) ==
    /\ call[c].pc = "open"
    /\ call[c].off < call[c].len
    /\ call' = [call EXCEPT
         ![c].wire = Append(@, Frame(c)),
         ![c].off = IF Single(c) /\ call[c].wire = <<>> THEN 0 ELSE FrameEnd(c)]
    /\ Own(c)

(* A message brings a piece of text or none, and may be the final one,     *)
(* which the vendor may send before the last frame.                        *)
Message(c) ==
    /\ call[c].pc = "open"
    /\ \E piece, final \in BOOLEAN :
         LET text == call[c].text \/ piece IN
         call' = [call EXCEPT ![c].text = text,
                    ![c].pc = IF ~final THEN "open" ELSE IF text THEN "text" ELSE "nothing"]
    /\ Own(c)

(* finish(err), once: an error message, a closed or broken socket, or the  *)
(* timer                                                                   *)
Settles(c) == call[c].pc \in {"connect", "open"}
Finish(c) ==
    /\ Settles(c)
    /\ Goto(c, "error")
    /\ Own(c)

-----------------------------------------------------------------------------
(* The worker or the endpoint takes the result: without a text a job fails *)
(* and the endpoint answers an empty one.                                  *)
Return(c) ==
    /\ call[c].pc \in Outcomes
    /\ call' = [call EXCEPT ![c] = Idle]
    /\ Own(c)

TokenDue ==
    /\ cache.tok # 0 /\ ~cache.due
    /\ cache' = [cache EXCEPT !.due = TRUE]
    /\ UNCHANGED <<asr, call, made, Vendor>>

Revoke(t) ==
    /\ t \in valid
    /\ valid' = valid \ {t}
    /\ UNCHANGED <<asr, call, made, cache, issued, refused>>

Answers(c) ==
    \/ transcribe(c) \/ HeldToken(c) \/ NewToken(c) \/ TokenRefused(c)
    \/ BaiduAnswers(c) \/ httpsPost(c) \/ resolveAudioBuffer(c) \/ Open(c)
    \/ SendFrame(c) \/ Return(c)

SpeechNext ==
    \/ \E c \in Calls : resolveTranscript(c) \/ AsrEndpoint(c) \/ Answers(c)
                          \/ Message(c) \/ Finish(c) \/ ResponseBreaks(c)
    \/ TokenDue
    \/ \E t \in 1..Tokens : Revoke(t)

(* What the adapters do themselves is done, and a vendor that stays silent *)
(* runs into the timer of the socket or the request.                       *)
SpeechFairness ==
    \A c \in Calls : WF_svars(Answers(c)) /\ WF_svars(Settles(c) /\ Finish(c))

SpeechSpec == SpeechInit /\ [][SpeechNext]_svars /\ SpeechFairness

-----------------------------------------------------------------------------
(* A token the vendor refused is never handed to another call, although    *)
(* calls overlap: the one that is refused may not be the one that fetched  *)
(* the token the adapter holds by then.                                    *)
RefusedTokenForgotten == cache.tok \notin refused

(* The vendor recognises a stream: it opens with the one frame of status 0 *)
(* and ends with the one of status 2, when every byte of the recording has *)
(* been sent once and in order, at every length around a multiple of the   *)
(* frame.                                                                  *)
StreamWhole ==
    \A c \in Calls :
      LET w == call[c].wire IN
      /\ \A i \in DOMAIN w :
           /\ w[i].from = IF i = 1 THEN 0 ELSE w[i - 1].to
           /\ (i = 1) <=> (w[i].status = 0)
           /\ w[i].status = 2 => i = Len(w) /\ w[i].to = call[c].len
      /\ call[c].off = call[c].len /\ w # <<>> => w[Len(w)].status = 2

(* A call that began ends, whatever the vendor does: a silent socket by    *)
(* its timer.  The exception is a Baidu response that breaks off.          *)
CallEnds ==
    \A c \in Calls : call[c].pc \notin {"idle", "hangs"}
                       ~> call[c].pc \in {"idle", "hangs"}
=============================================================================
