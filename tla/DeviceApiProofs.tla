---------------------------- MODULE DeviceApiProofs ----------------------------
(***************************************************************************)
(* Proofs about the vendors of device-api.  Speech recognition: a refused  *)
(* token is not used again, and a recording is streamed whole.  Picture    *)
(* making: no picture is shown unmoderated, and a run is over in bounded   *)
(* time.  For any calls, recordings, deployments, timeouts and numbers of  *)
(* retries; last, the types of intake, speech recognition and picture      *)
(* making together, as MCDeviceApi composes them.                          *)
(***************************************************************************)
EXTENDS MCDeviceApi, JobIntakeProofs, TLAPS

-----------------------------------------------------------------------------
(* Speech recognition *)

FrameSent == [status : 0..2, from : Nat, to : Nat]
Call == [pc : PCs, audio : {"none", "base64", "url", "both"}, tok : 0..Tokens,
         len : Nat, off : Nat, wire : Seq(FrameSent), text : BOOLEAN]

SpeechTypes ==
    /\ asr \in AsrEnvs /\ call \in [Calls -> Call]
    /\ cache \in [tok : 0..Tokens, due : BOOLEAN]
    /\ issued \in 0..Tokens /\ valid \subseteq 1..issued /\ refused \subseteq 1..issued

(* A token in use has been issued, so that one issued later is another *)
TokensIssued ==
    /\ cache.tok <= issued
    /\ \A c \in Calls : call[c].pc = "ask" => call[c].tok \in 1..issued

(***************************************************************************)
(* How far a stream is.  The frames follow each other from byte 0; the     *)
(* last one reaches as far as the sending loop, or has all of a recording  *)
(* of one frame; only the one that ends it has status 2.                   *)
(***************************************************************************)
Sending(k) == k.pc \in {"open"} \cup Outcomes
Follow(w, len) ==
    \A i \in DOMAIN w :
      /\ w[i].from = IF i = 1 THEN 0 ELSE w[i - 1].to
      /\ (i = 1) <=> (w[i].status = 0)
      /\ w[i].status = 2 => i = Len(w) /\ w[i].to = len
Reaches(k) ==
    LET last == k.wire[Len(k.wire)] IN
    /\ k.len > 0
    /\ last.status = 2 <=> k.off = k.len
    /\ IF k.len <= FRAME_SIZE
       THEN last.to = k.len /\ (k.off = k.len \/ (k.off = 0 /\ Len(k.wire) = 1))
       ELSE last.to = k.off /\ k.off > 0
StreamOf(k) ==
    /\ k.off <= k.len
    /\ k.pc = "open" => k.len > 0
    /\ k.wire = <<>> => k.off = 0
    /\ ~Sending(k) => k.wire = <<>>
    /\ Follow(k.wire, k.len)
    /\ k.wire # <<>> => Reaches(k)
Streams == \A c \in Calls : StreamOf(call[c])

SpeechInv == SpeechTypes /\ TokensIssued /\ RefusedTokenForgotten /\ Streams

LEMMA SpeechConstants ==
    /\ FRAME_SIZE \in Nat \ {0} /\ Tokens \in Nat
    /\ \A n \in Lengths : n \in Nat \ {0}
BY LengthAssumption, TokenAssumption

LEMMA IdleCall == Idle \in Call /\ StreamOf(Idle)
<1>1. Idle \in Call
  BY SpeechConstants DEF Idle, Call, PCs
<1>2. Idle.wire = <<>> /\ Idle.off = 0 /\ Idle.len = 0 /\ Idle.pc = "idle"
  BY DEF Idle
<1> QED BY <1>1, <1>2 DEF StreamOf, Follow

(* One call moves and the adapter's token does not *)
LEMMA CallMoves ==
    ASSUME SpeechInv, NEW c \in Calls, NEW k \in Call,
           call' = [call EXCEPT ![c] = k], StreamOf(k),
           k.pc = "ask" => k.tok \in 1..issued,
           UNCHANGED <<asr, cache, issued, valid, refused>>
    PROVE  SpeechInv'
<1>1. call'[c] = k /\ \A d \in Calls : d # c => call'[d] = call[d]
  BY DEF SpeechInv, SpeechTypes
<1>2. SpeechTypes'
  BY DEF SpeechInv, SpeechTypes
<1>3. TokensIssued'
  BY <1>1 DEF SpeechInv, TokensIssued
<1>4. RefusedTokenForgotten'
  BY DEF SpeechInv, RefusedTokenForgotten
<1>5. Streams'
  BY <1>1 DEF SpeechInv, Streams
<1> QED BY <1>2, <1>3, <1>4, <1>5 DEF SpeechInv

(* A call that goes on to another stage keeps its stream, or has none yet  *)
LEMMA StageFits ==
    ASSUME NEW k \in Call, StreamOf(k), NEW p \in PCs, p # "open",
           p \in Outcomes \/ ~Sending(k)
    PROVE  /\ [k EXCEPT !.pc = p] \in Call
           /\ [k EXCEPT !.pc = p].pc = p
           /\ [k EXCEPT !.pc = p].tok = k.tok
           /\ StreamOf([k EXCEPT !.pc = p])
<1> DEFINE m == [k EXCEPT !.pc = p]
<1>1. m \in Call
  BY DEF Call
<1>2. /\ m.pc = p /\ m.tok = k.tok /\ m.off = k.off /\ m.len = k.len /\ m.wire = k.wire
  BY DEF Call
<1> HIDE DEF m
<1>3. Reaches(k) => Reaches(m)
  BY <1>2 DEF Reaches
<1>4. Follow(m.wire, m.len)
  BY <1>2 DEF StreamOf
<1>5. ~Sending(m) => m.wire = <<>>
  BY <1>2 DEF StreamOf, Sending
<1>6. StreamOf(m)
  BY <1>2, <1>3, <1>4, <1>5 DEF StreamOf
<1> QED BY <1>1, <1>2, <1>6 DEF m

LEMMA Goes ==
    ASSUME SpeechInv, NEW c \in Calls, NEW p \in PCs, Goto(c, p), p \notin {"open", "ask"},
           p \in Outcomes \/ ~Sending(call[c]),
           UNCHANGED <<asr, cache, issued, valid, refused>>
    PROVE  SpeechInv'
<1> DEFINE k == [call[c] EXCEPT !.pc = p]
<1>1. call[c] \in Call /\ StreamOf(call[c])
  BY DEF SpeechInv, SpeechTypes, Streams
<1>2. k \in Call /\ k.pc = p /\ StreamOf(k)
  BY <1>1, StageFits
<1>3. call' = [call EXCEPT ![c] = k]
  BY DEF Goto
<1> HIDE DEF k
<1> QED BY <1>2, <1>3, CallMoves

(* A call with a token to ask with *)
LEMMA AsksWith ==
    ASSUME NEW k \in Call, StreamOf(k), ~Sending(k), NEW t \in 0..Tokens
    PROVE  LET m == [k EXCEPT !.pc = "ask", !.tok = t]
           IN  m \in Call /\ m.pc = "ask" /\ m.tok = t /\ StreamOf(m)
<1> DEFINE m == [k EXCEPT !.pc = "ask", !.tok = t]
<1>1. m \in Call
  BY DEF Call, PCs
<1>2. /\ m.pc = "ask" /\ m.tok = t /\ m.off = k.off /\ m.len = k.len /\ m.wire = k.wire
  BY DEF Call
<1>3. k.wire = <<>>
  BY DEF StreamOf
<1> HIDE DEF m
<1>4. Follow(m.wire, m.len)
  BY <1>2 DEF StreamOf
<1>5. StreamOf(m)
  BY <1>2, <1>3, <1>4 DEF StreamOf
<1> QED BY <1>1, <1>2, <1>5 DEF m

(* the next frame follows the last one, and ends the stream when it        *)
(* reaches the end of the recording                                        *)
LEMMA FrameFollows ==
    ASSUME NEW k \in Call, StreamOf(k), k.pc = "open", k.off < k.len,
           NEW f \in FrameSent, NEW off \in Nat,
           IF k.len <= FRAME_SIZE
           THEN IF k.wire = <<>>
                THEN f.status = 0 /\ f.from = 0 /\ f.to = k.len /\ off = 0
                ELSE f.status = 2 /\ f.from = k.len /\ f.to = k.len /\ off = k.len
           ELSE /\ f.from = k.off /\ f.to = off
                /\ off = IF k.off + FRAME_SIZE <= k.len THEN k.off + FRAME_SIZE ELSE k.len
                /\ f.status = IF k.off = 0 THEN 0 ELSE IF off >= k.len THEN 2 ELSE 1
    PROVE  LET m == [k EXCEPT !.wire = Append(@, f), !.off = off]
           IN  m \in Call /\ m.pc = "open" /\ StreamOf(m)
<1> DEFINE m == [k EXCEPT !.wire = Append(@, f), !.off = off]
           n == Len(k.wire) + 1
<1>1. k.wire \in Seq(FrameSent) /\ k.len \in Nat /\ k.off \in Nat
  BY DEF Call
<1>2. m \in Call /\ m.pc = "open"
  <2>1. Append(k.wire, f) \in Seq(FrameSent)
    BY <1>1
  <2> QED BY <2>1 DEF Call
<1>3. m.wire = Append(k.wire, f) /\ m.off = off /\ m.len = k.len
  BY DEF Call
<1> HIDE DEF m
<1>4. /\ Len(m.wire) = n /\ DOMAIN m.wire = 1..n /\ m.wire[n] = f /\ m.wire # <<>>
      /\ \A i \in 1..Len(k.wire) : m.wire[i] = k.wire[i]
      /\ DOMAIN k.wire = 1..Len(k.wire) /\ Len(k.wire) \in Nat
      /\ k.wire = <<>> <=> Len(k.wire) = 0
  BY <1>1, <1>3
<1>5. f.status \in 0..2 /\ f.from \in Nat /\ f.to \in Nat
  BY DEF FrameSent
<1>6. /\ Follow(k.wire, k.len) /\ (k.wire = <<>> => k.off = 0) /\ k.len > 0
      /\ k.wire # <<>> => Reaches(k)
  BY DEF StreamOf
<1>7. k.wire # <<>> => k.wire[n - 1].status # 2
  BY <1>6, <1>1, <1>4 DEF Reaches
<1>8. CASE k.wire = <<>>
  <2>1. f.from = 0 /\ f.status = 0 /\ n = 1 /\ off < k.len /\ f.to = (IF k.len <= FRAME_SIZE THEN k.len ELSE off)
    BY <1>8, <1>1, <1>4, <1>6, SpeechConstants
  <2>2. Follow(m.wire, m.len)
    BY <2>1, <1>4 DEF Follow
  <2>3. Reaches(m)
    BY <2>1, <1>1, <1>3, <1>4, <1>6, <1>8, SpeechConstants DEF Reaches
  <2> QED BY <1>2, <1>3, <1>4, <1>6, <2>1, <2>2, <2>3 DEF StreamOf, Sending, m
<1>9. CASE k.wire # <<>>
  <2>1. k.wire[n - 1].to = f.from /\ n > 1
    BY <1>9, <1>1, <1>4, <1>6 DEF Reaches
  <2>2. /\ f.status # 0 /\ off <= k.len /\ off > 0
        /\ f.status = 2 <=> off = k.len
        /\ f.to = off
        /\ k.len <= FRAME_SIZE => off = k.len
    BY <1>9, <1>1, <1>4, <1>6, SpeechConstants DEF Reaches
  <2>3. Follow(m.wire, m.len)
    <3> SUFFICES ASSUME NEW i \in 1..n
                 PROVE  /\ m.wire[i].from = IF i = 1 THEN 0 ELSE m.wire[i - 1].to
                        /\ (i = 1) <=> (m.wire[i].status = 0)
                        /\ m.wire[i].status = 2 => i = n /\ m.wire[i].to = m.len
      BY <1>4 DEF Follow
    <3>1. CASE i = n
      BY <3>1, <2>1, <2>2, <1>3, <1>4
    <3>2. CASE i # n
      <4>1. i \in 1..Len(k.wire) /\ (i # 1 => i - 1 \in 1..Len(k.wire))
        BY <3>2, <1>4
      <4>2. m.wire[i] = k.wire[i] /\ (i # 1 => m.wire[i - 1] = k.wire[i - 1])
        BY <4>1, <1>4
      <4>3. /\ k.wire[i].from = IF i = 1 THEN 0 ELSE k.wire[i - 1].to
            /\ (i = 1) <=> (k.wire[i].status = 0)
            /\ k.wire[i].status = 2 => i = Len(k.wire)
        BY <4>1, <1>4, <1>6 DEF Follow
      <4>4. k.wire[i].status # 2
        BY <4>1, <4>3, <1>4, <1>7
      <4> QED BY <4>2, <4>3, <4>4
    <3> QED BY <3>1, <3>2
  <2>4. Reaches(m)
    BY <2>2, <1>3, <1>4, <1>6 DEF Reaches
  <2> QED BY <1>2, <1>3, <1>4, <1>6, <2>2, <2>3, <2>4 DEF StreamOf, Sending, m
<1> QED BY <1>8, <1>9

LEMMA SendKeeps ==
    ASSUME SpeechInv, NEW c \in Calls, SendFrame(c)
    PROVE  SpeechInv'
<1> DEFINE k == call[c]
           off == IF Single(c) /\ k.wire = <<>> THEN 0 ELSE FrameEnd(c)
           f == Frame(c)
           m == [k EXCEPT !.wire = Append(@, f), !.off = off]
<1>1. /\ k \in Call /\ StreamOf(k) /\ k.pc = "open" /\ k.off < k.len
      /\ call' = [call EXCEPT ![c] = m]
      /\ UNCHANGED <<asr, cache, issued, valid, refused>>
  BY DEF SendFrame, Own, Vendor, SpeechInv, SpeechTypes, Streams
<1>2. k.len \in Nat /\ k.off \in Nat /\ (k.wire # <<>> => Reaches(k))
  BY <1>1 DEF Call, StreamOf
<1>3. CASE Single(c)
  <2>1. k.len <= FRAME_SIZE
    BY <1>3 DEF Single
  <2>2. k.wire # <<>> => k.off = 0
    BY <2>1, <1>1, <1>2 DEF Reaches
  <2>3. k.wire # <<>> => FrameEnd(c) = k.len
    BY <2>1, <2>2, <1>2, SpeechConstants DEF FrameEnd
  <2>4. f = IF k.wire = <<>> THEN [status |-> 0, from |-> 0, to |-> k.len]
                             ELSE [status |-> 2, from |-> k.len, to |-> k.len]
    BY <1>3 DEF Frame
  <2>5. f \in FrameSent /\ off \in Nat
    BY <2>3, <2>4, <1>2, <1>3 DEF FrameSent
  <2>6. IF k.wire = <<>>
        THEN f.status = 0 /\ f.from = 0 /\ f.to = k.len /\ off = 0
        ELSE f.status = 2 /\ f.from = k.len /\ f.to = k.len /\ off = k.len
    BY <2>3, <2>4, <1>3
  <2> HIDE DEF f, off, k
  <2>7. m \in Call /\ m.pc = "open" /\ StreamOf(m)
    BY <2>1, <2>5, <2>6, <1>1, FrameFollows
  <2> QED BY <1>1, <2>7, CallMoves
<1>4. CASE ~Single(c)
  <2>1. ~(k.len <= FRAME_SIZE)
    BY <1>4 DEF Single
  <2>2. /\ off = FrameEnd(c) /\ off \in Nat
        /\ off = IF k.off + FRAME_SIZE <= k.len THEN k.off + FRAME_SIZE ELSE k.len
    BY <1>2, <1>4, SpeechConstants DEF FrameEnd
  <2>3. f = [status |-> Status(c), from |-> k.off, to |-> off]
    BY <1>4, <2>2 DEF Frame
  <2>4. Status(c) = IF k.off = 0 THEN 0 ELSE IF off >= k.len THEN 2 ELSE 1
    BY <1>2, <2>2 DEF Status
  <2>5. f \in FrameSent
    BY <2>2, <2>3, <2>4, <1>2 DEF FrameSent
  <2>6. /\ f.from = k.off /\ f.to = off
        /\ f.status = IF k.off = 0 THEN 0 ELSE IF off >= k.len THEN 2 ELSE 1
    BY <2>3, <2>4
  <2> HIDE DEF f, off, k
  <2>7. m \in Call /\ m.pc = "open" /\ StreamOf(m)
    BY <2>1, <2>2, <2>5, <2>6, <1>1, FrameFollows
  <2> QED BY <1>1, <2>7, CallMoves
<1> QED BY <1>3, <1>4

-----------------------------------------------------------------------------
LEMMA AnswersKeepSpeech ==
    ASSUME SpeechInv, NEW c \in Calls, Answers(c) \/ Finish(c) \/ ResponseBreaks(c)
    PROVE  SpeechInv'
<1> DEFINE k == call[c]
<1>k. k \in Call /\ StreamOf(k) /\ TokensIssued /\ SpeechTypes /\ RefusedTokenForgotten
  BY DEF SpeechInv, SpeechTypes, Streams
<1>s. k.pc \notin {"open", "text", "nothing", "error"} => ~Sending(k)
  BY DEF Sending, Outcomes
<1>1. CASE transcribe(c)
  <2>1. PICK p \in {"text", "nothing", "token", "load", "connect"} : Goto(c, p)
    BY <1>1 DEF transcribe
  <2>2. k.pc = "begin" /\ UNCHANGED <<asr, cache, issued, valid, refused>>
    BY <1>1 DEF transcribe, Own, Vendor
  <2> QED BY <2>1, <2>2, <1>s, Goes DEF PCs, Outcomes
<1>2. CASE HeldToken(c)
  <2>1. k.pc = "token" /\ UNCHANGED <<asr, cache, issued, valid, refused>>
    BY <1>2 DEF HeldToken, Own, Vendor
  <2>2. CASE Goto(c, "fetch")
    BY <2>1, <2>2, <1>s, Goes DEF PCs
  <2>3. CASE /\ cache.tok # 0
             /\ call' = [call EXCEPT ![c].pc = "ask", ![c].tok = cache.tok]
    <3> DEFINE m == [k EXCEPT !.pc = "ask", !.tok = cache.tok]
    <3>1. call' = [call EXCEPT ![c] = m]
      BY <2>3
    <3>2. cache.tok \in 0..Tokens /\ cache.tok \in 1..issued
      BY <2>3, <1>k, SpeechConstants DEF SpeechTypes, TokensIssued
    <3>3. m \in Call /\ m.tok = cache.tok /\ StreamOf(m)
      BY <3>2, <2>1, <1>k, <1>s, AsksWith
    <3> HIDE DEF m
    <3> QED BY <2>1, <3>1, <3>2, <3>3, CallMoves
  <2> QED BY <1>2, <2>2, <2>3 DEF HeldToken
<1>3. CASE NewToken(c)
  <2> DEFINE t == issued + 1
             m == [k EXCEPT !.pc = "ask", !.tok = t]
  <2>1. /\ k.pc = "fetch" /\ issued' = t /\ valid' = valid \cup {t}
        /\ cache' = [tok |-> t, due |-> FALSE] /\ call' = [call EXCEPT ![c] = m]
        /\ UNCHANGED <<asr, refused>> /\ issued < Tokens
    BY <1>3 DEF NewToken
  <2>2. issued \in Nat /\ t \in 0..Tokens /\ t \in 1..t
    BY <2>1, <1>k, SpeechConstants DEF SpeechTypes
  <2>3. m \in Call /\ m.tok = t /\ StreamOf(m)
    BY <2>1, <2>2, <1>k, <1>s, AsksWith
  <2> HIDE DEF m
  <2>4. call'[c] = m /\ \A d \in Calls : d # c => call'[d] = call[d]
    BY <2>1, <1>k DEF SpeechTypes
  <2>5. SpeechTypes'
    <3>1. valid' \subseteq 1..t /\ refused' \subseteq 1..t
      BY <2>1, <2>2, <1>k DEF SpeechTypes
    <3> QED BY <2>1, <2>2, <2>3, <3>1, <1>k DEF SpeechTypes
  <2>6. TokensIssued'
    <3> SUFFICES ASSUME NEW d \in Calls, call'[d].pc = "ask" PROVE call'[d].tok \in 1..t
      BY <2>1, <2>2 DEF TokensIssued
    <3>1. CASE d = c
      BY <3>1, <2>2, <2>3, <2>4
    <3>2. CASE d # c
      BY <3>2, <2>2, <2>4, <1>k DEF TokensIssued
    <3> QED BY <3>1, <3>2
  <2>7. RefusedTokenForgotten'
    BY <2>1, <2>2, <1>k DEF SpeechTypes, RefusedTokenForgotten
  <2>8. Streams'
    BY <2>3, <2>4 DEF Streams, SpeechInv
  <2> QED BY <2>5, <2>6, <2>7, <2>8 DEF SpeechInv
<1>4. CASE TokenRefused(c)
  <2> DEFINE m == [k EXCEPT !.pc = "nothing"]
  <2>1. /\ k.pc = "ask" /\ refused' = refused \cup {k.tok} /\ cache' = [cache EXCEPT !.tok = 0]
        /\ call' = [call EXCEPT ![c] = m] /\ UNCHANGED <<asr, issued, valid>>
    BY <1>4 DEF TokenRefused, Forgotten, Goto
  <2>2. k.tok \in 1..issued
    BY <2>1, <1>k DEF TokensIssued
  <2>3. m \in Call /\ m.pc = "nothing" /\ StreamOf(m)
    BY <1>k, StageFits DEF PCs, Outcomes
  <2> HIDE DEF m
  <2>4. call'[c] = m /\ \A d \in Calls : d # c => call'[d] = call[d]
    BY <2>1, <1>k DEF SpeechTypes
  <2>5. cache' \in [tok : 0..Tokens, due : BOOLEAN] /\ cache'.tok = 0
    BY <2>1, <1>k, SpeechConstants DEF SpeechTypes
  <2>6. SpeechTypes'
    BY <2>1, <2>2, <2>3, <2>5, <1>k DEF SpeechTypes
  <2>7. TokensIssued'
    BY <2>1, <2>3, <2>4, <2>5, <1>k DEF TokensIssued, SpeechTypes
  <2>8. RefusedTokenForgotten'
    BY <2>1, <2>2, <2>5, <1>k DEF SpeechTypes, RefusedTokenForgotten
  <2>9. Streams'
    BY <2>3, <2>4 DEF Streams, SpeechInv
  <2> QED BY <2>6, <2>7, <2>8, <2>9 DEF SpeechInv
<1>5. CASE BaiduAnswers(c) \/ httpsPost(c) \/ ResponseBreaks(c) \/ resolveAudioBuffer(c) \/ Finish(c)
  <2>1. /\ UNCHANGED <<asr, cache, issued, valid, refused>>
        /\ \/ \E p \in Outcomes : Goto(c, p)
           \/ k.pc \in {"fetch", "ask"} /\ Goto(c, "hangs")
           \/ k.pc = "load" /\ Goto(c, "connect")
    BY <1>5 DEF BaiduAnswers, httpsPost, ResponseBreaks, resolveAudioBuffer, Finish, Own, Vendor,
                Outcomes
  <2>2. CASE \E p \in Outcomes : Goto(c, p)
    BY <2>1, <2>2, Goes DEF PCs, Outcomes
  <2>3. CASE k.pc \in {"fetch", "ask"} /\ Goto(c, "hangs")
    BY <2>1, <2>3, <1>s, Goes DEF PCs
  <2>4. CASE k.pc = "load" /\ Goto(c, "connect")
    BY <2>1, <2>4, <1>s, Goes DEF PCs
  <2> QED BY <2>1, <2>2, <2>3, <2>4
<1>6. CASE Open(c)
  <2>1. PICK n \in Lengths : call' = [call EXCEPT ![c].pc = "open", ![c].len = n]
    BY <1>6 DEF Open
  <2> DEFINE m == [k EXCEPT !.pc = "open", !.len = n]
  <2>2. k.pc = "connect" /\ call' = [call EXCEPT ![c] = m]
        /\ UNCHANGED <<asr, cache, issued, valid, refused>>
    BY <1>6, <2>1 DEF Open, Own, Vendor
  <2>3. n \in Nat /\ n > 0
    BY SpeechConstants
  <2>4. m \in Call
    BY <2>3, <1>k DEF Call, PCs
  <2>5. m.pc = "open" /\ m.len = n /\ m.off = k.off /\ m.wire = k.wire
    BY <1>k DEF Call
  <2>6. k.wire = <<>> /\ k.off = 0
    BY <2>2, <1>k, <1>s DEF StreamOf
  <2> HIDE DEF m
  <2>7. StreamOf(m)
    BY <2>3, <2>5, <2>6 DEF StreamOf, Follow, Sending
  <2> QED BY <2>2, <2>4, <2>5, <2>7, CallMoves
<1>7. CASE SendFrame(c)
  BY <1>7, SendKeeps
<1>8. CASE Return(c)
  <2>1. Idle.pc # "ask"
    BY DEF Idle
  <2> QED BY <2>1, <1>8, IdleCall, CallMoves DEF Return, Own, Vendor
<1> QED BY <1>1, <1>2, <1>3, <1>4, <1>5, <1>6, <1>7, <1>8 DEF Answers

LEMMA MessageKeeps ==
    ASSUME SpeechInv, NEW c \in Calls, Message(c)
    PROVE  SpeechInv'
<1> DEFINE k == call[c]
<1>k. k \in Call /\ StreamOf(k) /\ k.pc = "open" /\ UNCHANGED <<asr, cache, issued, valid, refused>>
  BY DEF SpeechInv, SpeechTypes, Streams, Message, Own, Vendor
<1>1. PICK text \in BOOLEAN, p \in {"open", "text", "nothing"} :
        call' = [call EXCEPT ![c].text = text, ![c].pc = p]
  <2>1. PICK piece \in BOOLEAN, final \in BOOLEAN :
          LET t == call[c].text \/ piece
          IN  call' = [call EXCEPT ![c].text = t,
                         ![c].pc = IF ~final THEN "open" ELSE IF t THEN "text" ELSE "nothing"]
    BY DEF Message
  <2> DEFINE t == call[c].text \/ piece
             q == IF ~final THEN "open" ELSE IF t THEN "text" ELSE "nothing"
  <2>2. call' = [call EXCEPT ![c].text = t, ![c].pc = q]
    BY <2>1
  <2>3. t \in BOOLEAN /\ q \in {"open", "text", "nothing"}
    BY <1>k
  <2> HIDE DEF t, q
  <2> QED BY <2>2, <2>3
<1> DEFINE m == [k EXCEPT !.text = text, !.pc = p]
<1>2. m \in Call
  BY <1>k DEF Call, PCs, Outcomes
<1>3. m.pc = p /\ m.wire = k.wire /\ m.off = k.off /\ m.len = k.len
  BY <1>k DEF Call
<1>4. call' = [call EXCEPT ![c] = m]
  BY <1>1
<1> HIDE DEF m
<1>5. Reaches(k) => Reaches(m)
  BY <1>3 DEF Reaches
<1>6. Sending(m)
  BY <1>3 DEF Sending, Outcomes
<1>7. StreamOf(m)
  BY <1>k, <1>3, <1>5, <1>6 DEF StreamOf
<1> QED BY <1>k, <1>2, <1>3, <1>4, <1>7, CallMoves

LEMMA BeginKeeps ==
    ASSUME SpeechInv, NEW c \in Calls, resolveTranscript(c) \/ AsrEndpoint(c)
    PROVE  SpeechInv'
<1>1. PICK a \in {"none", "base64", "url", "both"} : Begin(c, a)
  <2>1. \A presigned \in BOOLEAN : HandOver(presigned) \in {"none", "base64", "url", "both"}
    BY DEF HandOver
  <2> QED BY <2>1 DEF resolveTranscript, AsrEndpoint
<1> DEFINE m == [Idle EXCEPT !.pc = "begin", !.audio = a]
<1>2. m \in Call
  BY IdleCall DEF Call, PCs
<1>3. m.pc = "begin" /\ m.wire = Idle.wire /\ m.off = Idle.off /\ m.len = Idle.len
  BY IdleCall DEF Call
<1>4. Idle.wire = <<>>
  BY DEF Idle
<1>5. call' = [call EXCEPT ![c] = m] /\ UNCHANGED <<asr, cache, issued, valid, refused>>
  BY <1>1 DEF Begin, Vendor
<1> HIDE DEF m
<1>6. StreamOf(m)
  BY <1>3, <1>4, IdleCall DEF StreamOf
<1> QED BY <1>2, <1>3, <1>5, <1>6, CallMoves

LEMMA InitSpeech == SpeechInit => SpeechInv
<1> SUFFICES ASSUME SpeechInit PROVE SpeechInv
  OBVIOUS
<1>1. Idle.pc = "idle"
  BY DEF Idle
<1>2. /\ call = [c \in Calls |-> Idle] /\ cache = [tok |-> 0, due |-> FALSE]
      /\ asr \in AsrEnvs /\ issued = 0 /\ valid = {} /\ refused = {}
  BY DEF SpeechInit
<1>3. SpeechTypes
  BY <1>2, IdleCall, SpeechConstants DEF SpeechTypes
<1>4. TokensIssued /\ RefusedTokenForgotten
  BY <1>1, <1>2 DEF TokensIssued, RefusedTokenForgotten
<1>5. Streams
  BY <1>2, IdleCall DEF Streams
<1> QED BY <1>3, <1>4, <1>5 DEF SpeechInv

LEMMA NextSpeech == SpeechInv /\ [SpeechNext]_svars => SpeechInv'
<1> SUFFICES ASSUME SpeechInv, [SpeechNext]_svars PROVE SpeechInv'
  OBVIOUS
<1>1. ASSUME NEW c \in Calls,
             \/ resolveTranscript(c) \/ AsrEndpoint(c) \/ Answers(c)
             \/ Message(c) \/ Finish(c) \/ ResponseBreaks(c)
      PROVE  SpeechInv'
  BY <1>1, BeginKeeps, AnswersKeepSpeech, MessageKeeps
<1>2. CASE TokenDue
  <2>1. UNCHANGED <<asr, call, issued, valid, refused>> /\ cache' = [cache EXCEPT !.due = TRUE]
    BY <1>2 DEF TokenDue, Vendor
  <2>2. cache' \in [tok : 0..Tokens, due : BOOLEAN] /\ cache'.tok = cache.tok
    BY <2>1 DEF SpeechInv, SpeechTypes
  <2>3. SpeechTypes' /\ TokensIssued' /\ RefusedTokenForgotten' /\ Streams'
    BY <2>1, <2>2 DEF SpeechInv, SpeechTypes, TokensIssued, RefusedTokenForgotten, Streams
  <2> QED BY <2>3 DEF SpeechInv
<1>3. CASE \E t \in 1..Tokens : Revoke(t)
  <2>1. UNCHANGED <<asr, call, cache, issued, refused>> /\ valid' \subseteq valid
    BY <1>3 DEF Revoke
  <2>2. SpeechTypes' /\ TokensIssued' /\ RefusedTokenForgotten' /\ Streams'
    BY <2>1 DEF SpeechInv, SpeechTypes, TokensIssued, RefusedTokenForgotten, Streams
  <2> QED BY <2>2 DEF SpeechInv
<1>4. CASE UNCHANGED svars
  <2>1. SpeechTypes' /\ TokensIssued' /\ RefusedTokenForgotten' /\ Streams'
    BY <1>4 DEF svars, SpeechInv, SpeechTypes, TokensIssued, RefusedTokenForgotten, Streams
  <2> QED BY <2>1 DEF SpeechInv
<1> QED BY <1>1, <1>2, <1>3, <1>4 DEF SpeechNext

LEMMA SpeechInvariance == SpeechSpec => []SpeechInv
BY InitSpeech, NextSpeech, PTL DEF SpeechSpec

LEMMA SpeechTyped == SpeechInv => AsrTypeOK
<1> SUFFICES ASSUME SpeechInv PROVE AsrTypeOK
  OBVIOUS
<1>1. ASSUME NEW c \in Calls
      PROVE  /\ call[c].pc \in PCs /\ call[c].audio \in {"none", "base64", "url", "both"}
             /\ call[c].tok \in 0..Tokens /\ call[c].off \in 0..call[c].len
  <2>1. call[c] \in Call /\ call[c].off <= call[c].len
    BY DEF SpeechInv, SpeechTypes, Streams, StreamOf
  <2> QED BY <2>1 DEF Call
<1> QED BY <1>1 DEF SpeechInv, SpeechTypes, AsrTypeOK

(* However calls overlap, and whichever of them is refused: the token the  *)
(* adapter holds is none the vendor has refused.                           *)
THEOREM NoRefusedToken == SpeechSpec => []RefusedTokenForgotten
<1>1. SpeechInv => RefusedTokenForgotten
  BY DEF SpeechInv
<1> QED BY <1>1, SpeechInvariance, PTL

(* A recording of any length is sent in frames of any size once, in order, *)
(* opened by the one frame of status 0 and ended by the one of status 2.   *)
THEOREM RecordingStreamed == SpeechSpec => []StreamWhole
<1>1. SpeechInv => StreamWhole
  BY DEF SpeechInv, Streams, StreamOf, Follow, Reaches, StreamWhole
<1> QED BY <1>1, SpeechInvariance, PTL

-----------------------------------------------------------------------------
(* Picture making *)

FetchRecord == [left : Nat, retries : 0..MaxRetries, flying : BOOLEAN]
ImageTypes ==
    /\ env \in ImageEnvs
    /\ pc \in Fetches \cup Ended \cup {"pause", "start"}
    /\ fetch \in FetchRecord
    /\ pause \in 0..Backoff + Interval
    /\ deadline \in 0..Deadline
    /\ polls \in 0..MaxPolls
    /\ token \in 0..TokenLife
    /\ tasks \in 0..MaxRetries + 1
    /\ pic \in 0..tasks /\ shown \in 0..tasks
    /\ verdict \in Verdicts
    /\ error \in Errors
    /\ elapsed \in Nat

(* Each create that may begin a picture uses up an attempt; from the first *)
(* poll on there is a picture; a text whose picture is being made, and a   *)
(* picture being downloaded, have been moderated.                          *)
Pictures ==
    /\ pc \in {"start", "text", "token"} => tasks = 0
    /\ pc = "create" => tasks + fetch.retries <= MaxRetries
    /\ pc \in {"pause", "poll", "moderate", "download"} => pic # 0
    /\ pc \notin {"start", "text", "failed"} /\ env.text => verdict[0] \in Passing
    /\ pc = "download" /\ env.image => verdict[pic] \in Passing

(***************************************************************************)
(* The longest a run may still take.  Work is what is left of the call in  *)
(* progress: its signal, and the backoffs of the attempts it has left.     *)
(* While the deadline is ahead, one more pause and poll may follow it.     *)
(***************************************************************************)
Backoffs(n) == n * Backoff
Work == fetch.left + Backoffs(fetch.retries) + IF fetch.flying THEN 0 ELSE pause
Pending(work) ==
    LET last == deadline + Interval + Span(PollLimit) IN
    IF deadline > 0 /\ last > work THEN last ELSE work
Asking == IF Polling > Span(CreateLimit) THEN Polling ELSE Span(CreateLimit)
After == Span(ImageLimit) + FetchLimit
Rest ==
    CASE pc = "start" -> Span(TextLimit) + Generating + After
      [] pc = "text" -> Work + Generating + After
      [] pc = "token" -> Work + Asking + After
      [] pc \in {"create", "poll"} -> Pending(Work) + After
      [] pc = "pause" -> Pending(pause + Span(PollLimit)) + After
      [] pc = "moderate" -> Work + FetchLimit
      [] pc = "download" -> Work
      [] OTHER -> 0
InTime == elapsed + Rest <= Span(TextLimit) + Generating + After

ImageInv == ImageTypes /\ Pictures /\ OnlyModeratedShown /\ InTime


LEMMA ImageConstants ==
    /\ \A n \in {MaxRetries, MaxPolls, Deadline, TokenLife, Backoff, TextLimit, ImageLimit,
                 TokenLimit, CreateLimit, SyncLimit, PollLimit, FetchLimit, Interval,
                 Margin} : n \in Nat
    /\ \A n \in {Backoff, TextLimit, ImageLimit, TokenLimit, CreateLimit, SyncLimit,
                 PollLimit, FetchLimit, Interval, Margin} : n > 0
BY TimeAssumption

LEMMA BackoffSums ==
    /\ \A n \in Nat : Backoffs(n) \in Nat
    /\ Backoffs(0) = 0
    /\ \A n \in Nat \ {0} : Backoffs(n - 1) + Backoff = Backoffs(n)
    /\ \A n \in Nat : Span(n) \in Nat /\ Span(n) = n + Backoffs(MaxRetries)
<1>1. Backoff \in Nat /\ MaxRetries \in Nat
  BY ImageConstants
<1>2. ASSUME NEW n \in Nat PROVE n * Backoff \in Nat
  BY <1>1
<1>3. ASSUME NEW n \in Nat \ {0} PROVE (n - 1) * Backoff + Backoff = n * Backoff
  BY <1>1
<1>4. 0 * Backoff = 0
  BY <1>1
<1>5. \A n \in Nat : Span(n) = n + Backoffs(MaxRetries)
  BY DEF Span, Backoffs
<1> QED BY <1>1, <1>2, <1>3, <1>4, <1>5 DEF Backoffs

LEMMA Spans ==
    /\ \A n \in {TextLimit, ImageLimit, CreateLimit, SyncLimit, PollLimit} : Span(n) \in Nat
    /\ Polling \in Nat /\ Asking \in Nat /\ After \in Nat
    /\ Polling <= Asking /\ Span(CreateLimit) <= Asking
    /\ Polling = Deadline + Interval + Span(PollLimit)
    /\ After = Span(ImageLimit) + FetchLimit
<1>1. \A n \in {TextLimit, ImageLimit, CreateLimit, SyncLimit, PollLimit} : Span(n) \in Nat
  BY ImageConstants, BackoffSums
<1>2. Polling \in Nat /\ After \in Nat
  BY <1>1, ImageConstants DEF Polling, After
<1> QED BY <1>1, <1>2 DEF Asking, Polling, After

(* the time generating takes from the start of generate(), per adapter     *)
LEMMA GeneratingTimes ==
    LET a == createImageGenAdapter IN
    /\ a \in {"stub", "qwen", "tongyi", "baidu"}
    /\ Generating \in Nat
    /\ a = "qwen" => Generating = Span(SyncLimit)
    /\ a = "tongyi" => Generating = Asking
    /\ a = "baidu" => Generating = TokenLimit + Asking
<1>1. createImageGenAdapter \in {"stub", "qwen", "tongyi", "baidu"}
  BY DEF createImageGenAdapter
<1>2. CASE createImageGenAdapter = "stub"
  BY <1>2 DEF Generating
<1>3. CASE createImageGenAdapter = "qwen"
  BY <1>3, Spans DEF Generating
<1>4. CASE createImageGenAdapter = "tongyi"
  <2>1. Generating = Asking
    BY <1>4 DEF Generating, Asking
  <2> QED BY <1>4, <2>1, Spans
<1>5. CASE createImageGenAdapter = "baidu"
  <2>1. Generating = TokenLimit + Asking
    BY <1>5 DEF Generating, Asking
  <2> QED BY <1>5, <2>1, Spans, ImageConstants
<1> QED BY <1>1, <1>2, <1>3, <1>4, <1>5

LEMMA AdapterStays == env' = env => /\ createImageGenAdapter' = createImageGenAdapter
                                    /\ Generating' = Generating
BY DEF createImageGenAdapter, Generating

(* What a call that has just been made may take *)
LEMMA FreshCalls ==
    ASSUME NEW limit \in Nat
    PROVE  /\ Fetch(limit, MaxRetries) \in FetchRecord /\ Fetch(limit, 0) \in FetchRecord
           /\ NoFetch \in FetchRecord
           /\ fetch' = Fetch(limit, MaxRetries) => Work' = Span(limit) /\ fetch'.retries = MaxRetries
           /\ fetch' = Fetch(limit, 0) => Work' = limit
<1>1. /\ Fetch(limit, MaxRetries) \in FetchRecord /\ Fetch(limit, 0) \in FetchRecord
      /\ NoFetch \in FetchRecord
  BY ImageConstants DEF Fetch, NoFetch, FetchRecord
<1>2. ASSUME fetch' = Fetch(limit, MaxRetries)
      PROVE  Work' = Span(limit) /\ fetch'.retries = MaxRetries
  <2>1. fetch'.left = limit /\ fetch'.retries = MaxRetries /\ fetch'.flying
    BY <1>2 DEF Fetch
  <2> QED BY <2>1, BackoffSums, ImageConstants DEF Work
<1>3. ASSUME fetch' = Fetch(limit, 0)
      PROVE  Work' = limit
  <2>1. fetch'.left = limit /\ fetch'.retries = 0 /\ fetch'.flying
    BY <1>3 DEF Fetch
  <2> QED BY <2>1, BackoffSums, ImageConstants DEF Work
<1> QED BY <1>1, <1>2, <1>3

LEMMA WorkIsTime == ImageTypes => Work \in Nat
<1> SUFFICES ASSUME ImageTypes PROVE Work \in Nat
  OBVIOUS
<1>1. fetch.left \in Nat /\ fetch.retries \in Nat /\ pause \in Nat
  BY ImageConstants DEF ImageTypes, FetchRecord
<1> QED BY <1>1, BackoffSums DEF Work

LEMMA InitImage == ImageInit => ImageInv
<1> SUFFICES ASSUME ImageInit PROVE ImageInv
  OBVIOUS
<1>1. ImageTypes
  <2>1. token \in 0..TokenLife
    BY ImageConstants DEF ImageInit
  <2>2. verdict \in Verdicts
    BY DEF ImageInit, Verdicts
  <2> QED BY <2>1, <2>2, FreshCalls, ImageConstants DEF ImageInit, ImageTypes, Errors
<1>2. Pictures /\ OnlyModeratedShown
  BY DEF ImageInit, Pictures, OnlyModeratedShown
<1>3. Rest = Span(TextLimit) + Generating + After
  BY DEF ImageInit, Rest
<1>4. InTime
  BY <1>3, Spans, GeneratingTimes DEF ImageInit, InTime
<1> QED BY <1>1, <1>2, <1>4 DEF ImageInv


-----------------------------------------------------------------------------
(* A step that takes no time may not make the rest longer *)
LEMMA TimelessStep ==
    ASSUME ImageInv, ImageTypes', Pictures', OnlyModeratedShown', UNCHANGED <<env, elapsed>>,
           Rest \in Nat, Rest' \in Nat, Rest' <= Rest
    PROVE  ImageInv'
<1>1. Generating' = Generating
  BY AdapterStays
<1>2. InTime'
  BY <1>1, Spans, GeneratingTimes, ImageConstants DEF ImageInv, ImageTypes, InTime
<1> QED BY <1>2 DEF ImageInv

LEMMA RestIsTime == ImageTypes => Rest \in Nat
<1> SUFFICES ASSUME ImageTypes PROVE Rest \in Nat
  OBVIOUS
<1>1. \A n \in Nat : Pending(n) \in Nat
  BY Spans, ImageConstants DEF ImageTypes, Pending
<1>2. Work \in Nat /\ pause + Span(PollLimit) \in Nat
  BY WorkIsTime, Spans, ImageConstants DEF ImageTypes
<1> QED BY <1>1, <1>2, Spans, GeneratingTimes, ImageConstants DEF Rest

(* What a run that has failed leaves behind *)
LEMMA FailKeeps ==
    ASSUME ImageInv, NEW code \in Errors, Fail(code), UNCHANGED <<env, elapsed, shown>>,
           verdict' \in Verdicts, shown = 0 \/ verdict' = verdict,
           pause' \in 0..Backoff + Interval, deadline' \in 0..Deadline, polls' \in 0..MaxPolls,
           token' \in 0..TokenLife, tasks' \in tasks..MaxRetries + 1, pic' \in 0..tasks'
    PROVE  ImageInv'
<1>1. pc' = "failed" /\ fetch' = NoFetch /\ error' = code
  BY DEF Fail, Enter
<1>2. ImageTypes'
  <2>1. tasks' \in 0..MaxRetries + 1 /\ shown' \in 0..tasks'
    BY ImageConstants DEF ImageInv, ImageTypes
  <2> QED BY <1>1, <2>1, FreshCalls, ImageConstants DEF ImageInv, ImageTypes, Ended
<1>3. Pictures' /\ OnlyModeratedShown'
  BY <1>1 DEF ImageInv, Pictures, OnlyModeratedShown
<1>4. Rest' = 0
  BY <1>1 DEF Rest
<1> QED BY <1>2, <1>3, <1>4, RestIsTime, TimelessStep DEF ImageInv

(* The picture of a task is moderated, or handed on where nothing          *)
(* moderates                                                               *)
LEMMA PictureKeeps ==
    ASSUME ImageInv, NEW n \in 1..tasks', GotPicture(n), pc \in {"create", "poll"},
           tasks' \in tasks..MaxRetries + 1,
           UNCHANGED <<env, elapsed, deadline, token, verdict>>
    PROVE  ImageInv'
<1>t. ImageTypes /\ Pictures /\ OnlyModeratedShown
  BY DEF ImageInv
<1>0. pic' = n /\ UNCHANGED <<pause, polls, error>>
  BY DEF GotPicture
<1>1. /\ tasks' \in 0..MaxRetries + 1 /\ n \in Nat /\ n # 0
      /\ shown \in 0..tasks'
  BY <1>t, ImageConstants DEF ImageTypes
<1>v. env.text => verdict[0] \in Passing
  BY <1>t DEF Pictures
<1>2. Rest >= After
  <2>1. Work \in Nat
    BY <1>t, WorkIsTime
  <2>2. Pending(Work) >= 0
    BY <2>1, <1>t, Spans, ImageConstants DEF Pending, ImageTypes
  <2>3. Rest = Pending(Work) + After
    BY DEF Rest
  <2>4. Pending(Work) \in Nat
    BY <2>1, <1>t, Spans, ImageConstants DEF Pending, ImageTypes
  <2> QED BY <2>2, <2>3, <2>4, Spans
<1>r. Rest \in Nat
  BY <1>t, RestIsTime
<1>3. CASE env.image
  <2>1. pc' = "moderate" /\ fetch' = Fetch(ImageLimit, MaxRetries) /\ shown' = shown
    BY <1>3 DEF GotPicture, Enter
  <2>2. Work' = Span(ImageLimit)
    BY <2>1, FreshCalls, ImageConstants
  <2>3. ImageTypes'
    BY <1>t, <1>0, <1>1, <2>1, FreshCalls, ImageConstants DEF ImageTypes, Fetches
  <2>4. Pictures' /\ OnlyModeratedShown'
    BY <1>t, <1>0, <1>1, <2>1 DEF Pictures, OnlyModeratedShown
  <2>5. Rest' = After
    BY <2>1, <2>2, Spans DEF Rest
  <2> QED BY <1>2, <1>r, <2>3, <2>4, <2>5, Spans, TimelessStep
<1>4. CASE ~env.image /\ createImageGenAdapter = "baidu"
  <2>1. pc' = "preview_ready" /\ fetch' = NoFetch /\ shown' = n
    BY <1>4 DEF GotPicture, Deliver, Enter
  <2>2. ImageTypes'
    BY <1>t, <1>0, <1>1, <2>1, FreshCalls, ImageConstants DEF ImageTypes, Ended
  <2>3. Pictures' /\ OnlyModeratedShown'
    BY <1>4, <1>v, <2>1 DEF Pictures, OnlyModeratedShown
  <2>4. Rest' = 0
    BY <2>1 DEF Rest
  <2> QED BY <1>r, <2>2, <2>3, <2>4, TimelessStep
<1>5. CASE ~env.image /\ createImageGenAdapter # "baidu"
  <2>1. pc' = "download" /\ fetch' = Fetch(FetchLimit, 0) /\ shown' = shown
    BY <1>5 DEF GotPicture, Deliver, Enter
  <2>2. Work' = FetchLimit
    BY <2>1, FreshCalls, ImageConstants
  <2>3. ImageTypes'
    BY <1>t, <1>0, <1>1, <2>1, FreshCalls, ImageConstants DEF ImageTypes, Fetches
  <2>4. Pictures' /\ OnlyModeratedShown'
    BY <1>5, <1>0, <1>1, <1>t, <1>v, <2>1 DEF Pictures, OnlyModeratedShown
  <2>5. Rest' = FetchLimit
    BY <2>1, <2>2 DEF Rest
  <2> QED BY <1>2, <1>r, <2>3, <2>4, <2>5, Spans, ImageConstants, TimelessStep
<1> QED BY <1>3, <1>4, <1>5

(* Another poll fits in before the deadline and what follows it *)
LEMMA PollAgain ==
    ASSUME ImageInv, NextPoll, pc \in {"create", "poll"},
           tasks' \in tasks..MaxRetries + 1, pic' \in 1..tasks',
           UNCHANGED <<env, elapsed, deadline, token, verdict, shown>>
    PROVE  ImageInv'
<1>t. ImageTypes /\ Pictures /\ OnlyModeratedShown
  BY DEF ImageInv
<1>1. /\ tasks' \in 0..MaxRetries + 1 /\ pic' \in 0..tasks' /\ pic' # 0
      /\ shown \in 0..tasks'
  BY <1>t, ImageConstants DEF ImageTypes
<1>2. CASE ~(deadline > 0 /\ polls < MaxPolls)
  <2>1. Fail("generator") /\ UNCHANGED <<pause, polls>>
    BY <1>2 DEF NextPoll
  <2> QED BY <2>1, <1>t, <1>1, FailKeeps DEF ImageTypes, Errors
<1>3. CASE deadline > 0 /\ polls < MaxPolls
  <2>1. /\ pc' = "pause" /\ fetch' = NoFetch /\ pause' = Interval /\ polls' = polls + 1
        /\ error' = error
    BY <1>3 DEF NextPoll, Enter
  <2>2. ImageTypes'
    <3>1. pause' \in 0..Backoff + Interval
      BY <2>1, ImageConstants
    <3>2. polls' \in 0..MaxPolls
      BY <2>1, <1>3, <1>t, ImageConstants DEF ImageTypes
    <3> QED BY <1>t, <1>1, <2>1, <3>1, <3>2, FreshCalls, ImageConstants DEF ImageTypes
  <2>3. Pictures' /\ OnlyModeratedShown'
    BY <1>t, <1>1, <2>1 DEF Pictures, OnlyModeratedShown
  <2>4. Rest' = deadline + Interval + Span(PollLimit) + After
    BY <2>1, <1>3, <1>t, Spans, ImageConstants DEF Rest, Pending, ImageTypes
  <2>5. Rest = Pending(Work) + After /\ Work \in Nat /\ deadline \in Nat
    BY <1>t, WorkIsTime DEF Rest, ImageTypes
  <2>6. Rest >= deadline + Interval + Span(PollLimit) + After
    BY <1>3, <2>5, Spans, ImageConstants DEF Pending
  <2>7. Rest \in Nat /\ Rest' \in Nat
    BY <1>t, <2>4, <2>5, RestIsTime, Spans, ImageConstants
  <2> QED BY <2>2, <2>3, <2>4, <2>5, <2>6, <2>7, TimelessStep
<1> QED BY <1>2, <1>3


(* generate() begins within the time the selected adapter may take *)
LEMMA GenerateKeeps ==
    ASSUME ImageInv, StartGenerate, pc \in {"start", "text"},
           UNCHANGED <<env, elapsed, tasks, pic, shown, pause, polls, token>>,
           verdict' \in Verdicts,
           env.text => verdict'[0] \in Passing
    PROVE  ImageInv'
<1>t. ImageTypes /\ Pictures /\ OnlyModeratedShown /\ tasks = 0
  BY DEF ImageInv, Pictures
<1>z. shown = 0
  BY <1>t DEF ImageTypes
<1>d. deadline' = IF createImageGenAdapter = "tongyi" THEN Deadline ELSE 0
  BY DEF StartGenerate
<1>1. Rest >= Generating + After /\ Rest \in Nat
  <2>1. Work \in Nat /\ Rest \in Nat
    BY <1>t, WorkIsTime, RestIsTime
  <2> QED BY <2>1, Spans, GeneratingTimes DEF Rest
<1>2. CASE createImageGenAdapter = "stub"
  <2>1. Fail("generator")
    BY <1>2 DEF StartGenerate
  <2> QED BY <2>1, <1>t, <1>z, <1>d, <1>2, FailKeeps, ImageConstants DEF ImageTypes, Errors
<1>3. ASSUME pc' \in {"create", "token"}, fetch' \in FetchRecord, UNCHANGED error,
             pc' = "create" => fetch'.retries = MaxRetries,
             Rest' = Generating + After
      PROVE  ImageInv'
  <2>1. ImageTypes'
    BY <1>t, <1>d, <1>3, ImageConstants DEF ImageTypes, Fetches
  <2>2. Pictures' /\ OnlyModeratedShown'
    BY <1>t, <1>z, <1>3, ImageConstants DEF Pictures, OnlyModeratedShown
  <2> QED BY <1>1, <1>3, <2>1, <2>2, Spans, GeneratingTimes, TimelessStep
<1>4. CASE createImageGenAdapter = "baidu"
  <2>1. pc' = "token" /\ fetch' = Fetch(TokenLimit, 0) /\ UNCHANGED error
    BY <1>4 DEF StartGenerate, Enter
  <2>2. Work' = TokenLimit /\ fetch' \in FetchRecord
    BY <2>1, FreshCalls, ImageConstants
  <2>3. Rest' = Generating + After
    BY <2>1, <2>2, <1>4, GeneratingTimes, Spans, ImageConstants DEF Rest
  <2> QED BY <2>1, <2>2, <2>3, <1>3
<1>5. CASE createImageGenAdapter = "qwen"
  <2>1. pc' = "create" /\ fetch' = Fetch(SyncLimit, MaxRetries) /\ UNCHANGED error
    BY <1>5 DEF StartGenerate, Enter
  <2>2. Work' = Span(SyncLimit) /\ fetch' \in FetchRecord /\ fetch'.retries = MaxRetries
    BY <2>1, FreshCalls, ImageConstants
  <2>3. Rest' = Work' + After
    BY <2>1, <1>d, <1>5 DEF Rest, Pending
  <2>4. Rest' = Generating + After
    BY <2>2, <2>3, <1>5, GeneratingTimes
  <2> QED BY <2>1, <2>2, <2>4, <1>3
<1>6. CASE createImageGenAdapter = "tongyi"
  <2>1. pc' = "create" /\ fetch' = Fetch(CreateLimit, MaxRetries) /\ UNCHANGED error
    BY <1>6 DEF StartGenerate, Enter
  <2>2. Work' = Span(CreateLimit) /\ fetch' \in FetchRecord /\ fetch'.retries = MaxRetries
    BY <2>1, FreshCalls, ImageConstants
  <2>3. Rest' <= Asking + After /\ Rest' \in Nat
    BY <2>1, <2>2, <1>d, <1>6, Spans, ImageConstants DEF Rest, Pending
  <2>4. Generating = Asking
    BY <1>6, GeneratingTimes
  <2>5. ImageTypes'
    BY <1>t, <1>d, <2>1, <2>2, ImageConstants DEF ImageTypes, Fetches
  <2>6. Pictures' /\ OnlyModeratedShown'
    BY <1>t, <1>z, <2>1, <2>2, ImageConstants DEF Pictures, OnlyModeratedShown
  <2> QED BY <1>1, <2>3, <2>4, <2>5, <2>6, Spans, TimelessStep
<1> QED BY <1>2, <1>4, <1>5, <1>6, GeneratingTimes

LEMMA SubmitKeeps ==
    ASSUME ImageInv, Submit, pc = "token", token' \in 0..TokenLife,
           UNCHANGED <<env, elapsed, tasks, pic, verdict, shown, pause, polls>>
    PROVE  ImageInv'
<1>t. ImageTypes /\ Pictures /\ OnlyModeratedShown /\ tasks = 0
  BY DEF ImageInv, Pictures
<1>1. Rest >= Asking + After /\ Rest \in Nat
  <2>1. Work \in Nat /\ Rest \in Nat
    BY <1>t, WorkIsTime, RestIsTime
  <2> QED BY <2>1, Spans DEF Rest
<1>2. /\ pc' = "create" /\ fetch' = Fetch(CreateLimit, MaxRetries) /\ deadline' = Deadline
      /\ UNCHANGED error
  BY DEF Submit, Enter
<1>3. Work' = Span(CreateLimit) /\ fetch' \in FetchRecord /\ fetch'.retries = MaxRetries
  BY <1>2, FreshCalls, ImageConstants
<1>4. Rest' <= Asking + After /\ Rest' \in Nat
  BY <1>2, <1>3, Spans, ImageConstants DEF Rest, Pending
<1>5. ImageTypes'
  BY <1>t, <1>2, <1>3, ImageConstants DEF ImageTypes, Fetches
<1>6. Pictures' /\ OnlyModeratedShown'
  BY <1>t, <1>2, <1>3, ImageConstants DEF Pictures, OnlyModeratedShown
<1> QED BY <1>1, <1>4, <1>5, <1>6, Spans, TimelessStep

(* The rest of a call depends on its work alone, and on the deadline *)
LEMMA SameCall ==
    ASSUME ImageTypes, UNCHANGED <<env, pc, deadline>>, pc \in Fetches, Work' <= Work, Work' \in Nat
    PROVE  Rest' <= Rest /\ Rest' \in Nat
<1>1. Work \in Nat /\ deadline \in Nat
  BY WorkIsTime DEF ImageTypes
<1>2. Generating' = Generating
  BY AdapterStays
<1>3. CASE pc \in {"create", "poll"}
  <2>1. Rest = Pending(Work) + After /\ Rest' = Pending(Work)' + After
    BY <1>3 DEF Rest
  <2>2. Pending(Work)' <= Pending(Work) /\ Pending(Work)' \in Nat /\ Pending(Work) \in Nat
    BY <1>1, Spans, ImageConstants DEF Pending
  <2> QED BY <2>1, <2>2, Spans
<1>4. CASE pc = "text"
  BY <1>1, <1>2, <1>4, Spans, GeneratingTimes, ImageConstants DEF Rest
<1>5. CASE pc \in {"token", "moderate", "download"}
  BY <1>1, <1>5, Spans, ImageConstants DEF Rest
<1> QED BY <1>3, <1>4, <1>5 DEF Fetches

(* An attempt that failed is made again after a backoff, until none is left*)
LEMMA AttemptKeeps ==
    ASSUME ImageInv, AttemptFails, pc \in Fetches \ {"download"}, fetch.flying,
           tasks' \in IF pc = "create" THEN {tasks, tasks + 1} ELSE {tasks}
    PROVE  ImageInv'
<1>t. ImageTypes /\ Pictures /\ OnlyModeratedShown
  BY DEF ImageInv
<1>0. UNCHANGED <<env, deadline, polls, token, pic, verdict, shown, elapsed>>
  BY DEF AttemptFails
<1>r. fetch \in FetchRecord /\ fetch.left \in Nat /\ fetch.retries \in 0..MaxRetries
  BY <1>t DEF ImageTypes, FetchRecord
<1>1. tasks' \in tasks..MaxRetries + 1
  BY <1>t, <1>r, ImageConstants DEF Pictures, ImageTypes
<1>2. /\ tasks' \in 0..MaxRetries + 1 /\ pic \in 0..tasks' /\ shown \in 0..tasks'
  BY <1>t, <1>1, ImageConstants DEF ImageTypes
<1>3. CASE ~(fetch.retries > 0)
  <2>1. Fail(Upstream) /\ UNCHANGED pause
    BY <1>3 DEF AttemptFails
  <2>2. Upstream \in Errors
    BY DEF Upstream, Errors
  <2> QED BY <2>1, <2>2, <1>t, <1>0, <1>1, <1>2, FailKeeps DEF ImageTypes
<1>4. CASE fetch.retries > 0
  <2>1. fetch' = NextAttempt(fetch) /\ pause' = Backoff /\ UNCHANGED <<pc, error>>
    BY <1>4 DEF AttemptFails
  <2>2. /\ fetch' \in FetchRecord /\ fetch'.left = fetch.left /\ ~fetch'.flying
        /\ fetch'.retries = fetch.retries - 1
    <3> DEFINE n == fetch.retries - 1
    <3>1. n \in 0..MaxRetries
      BY <1>4, <1>r, ImageConstants
    <3>2. fetch' = [fetch EXCEPT !.flying = FALSE, !.retries = n]
      BY <2>1 DEF NextAttempt
    <3> HIDE DEF n
    <3>3. /\ fetch' \in FetchRecord /\ fetch'.left = fetch.left /\ fetch'.flying = FALSE
          /\ fetch'.retries = n
      BY <3>1, <3>2, <1>r DEF FetchRecord
    <3> QED BY <3>3 DEF n
  <2>3. ImageTypes'
    BY <1>t, <1>0, <1>2, <2>1, <2>2, ImageConstants DEF ImageTypes
  <2>4. Pictures' /\ OnlyModeratedShown'
    <3>1. pc = "create" => tasks' + fetch'.retries <= MaxRetries
      BY <1>t, <1>1, <1>r, <2>2, ImageConstants DEF Pictures, ImageTypes
    <3> QED BY <3>1, <1>t, <1>0, <2>1 DEF Pictures, OnlyModeratedShown
  <2>5. Work' = Work /\ Work \in Nat
    <3>1. Work' = fetch.left + Backoffs(fetch.retries - 1) + Backoff
      BY <2>1, <2>2 DEF Work
    <3>2. Work = fetch.left + Backoffs(fetch.retries) + 0
      BY DEF Work
    <3>3. fetch.retries \in Nat \ {0} /\ fetch.retries - 1 \in Nat
      BY <1>4, <1>r, ImageConstants
    <3>4. /\ Backoffs(fetch.retries - 1) + Backoff = Backoffs(fetch.retries)
          /\ Backoffs(fetch.retries - 1) \in Nat /\ Backoffs(fetch.retries) \in Nat
      BY <3>3, BackoffSums
    <3> QED BY <3>1, <3>2, <3>4, <1>r, ImageConstants
  <2>6. Rest' <= Rest /\ Rest' \in Nat
    BY <1>t, <1>0, <2>1, <2>5, SameCall
  <2> QED BY <1>t, <1>0, <2>3, <2>4, <2>6, RestIsTime, TimelessStep
<1> QED BY <1>3, <1>4

LEMMA ResendKeeps ==
    ASSUME ImageInv, Resend
    PROVE  ImageInv'
<1>t. ImageTypes /\ Pictures /\ OnlyModeratedShown
  BY DEF ImageInv
<1>1. /\ pc \in Fetches /\ ~fetch.flying /\ pause = 0 /\ fetch' = [fetch EXCEPT !.flying = TRUE]
      /\ UNCHANGED <<env, elapsed, tasks, pic, verdict, shown, pc, pause, deadline, polls, token,
                     error>>
  BY DEF Resend, KeepPicture, KeepClock
<1>2. /\ fetch' \in FetchRecord /\ fetch'.left = fetch.left /\ fetch'.flying
      /\ fetch'.retries = fetch.retries
  BY <1>1, <1>t DEF FetchRecord, ImageTypes
<1>3. ImageTypes'
  BY <1>t, <1>1, <1>2 DEF ImageTypes
<1>4. Pictures' /\ OnlyModeratedShown'
  BY <1>t, <1>1, <1>2 DEF Pictures, OnlyModeratedShown
<1>5. Work' = Work /\ Work \in Nat
  BY <1>1, <1>2, <1>t, WorkIsTime DEF Work
<1>6. Rest' <= Rest /\ Rest' \in Nat
  BY <1>t, <1>1, <1>5, SameCall
<1> QED BY <1>t, <1>1, <1>3, <1>4, <1>6, RestIsTime, TimelessStep


(* An answer that does not block is the verdict on what was asked about *)
LEMMA PassesOn ==
    ASSUME verdict \in Verdicts,
           NEW k \in 0..MaxRetries + 1, Passes(k)
    PROVE  /\ verdict' \in Verdicts
           /\ verdict'[k] \in Passing
           /\ \A n \in 0..MaxRetries + 1 : verdict[n] \in Passing => verdict'[n] \in Passing
<1>1. PICK v \in Passing : verdict' = [verdict EXCEPT ![k] = v]
  BY DEF Passes
<1> QED BY <1>1 DEF Verdicts

(* the moderation's answer, and the end of a download *)
LEMMA DeliveryKeeps ==
    ASSUME ImageInv, moderateImageViaHttp \/ finalizePreview
    PROVE  ImageInv'
<1>t. ImageTypes /\ Pictures /\ OnlyModeratedShown
  BY DEF ImageInv
<1>p. pic \in 1..tasks /\ Rest \in Nat /\ Work \in Nat
  BY <1>t, RestIsTime, WorkIsTime, ImageConstants
     DEF Pictures, ImageTypes, moderateImageViaHttp, finalizePreview, Asks
<1>1. CASE finalizePreview
  <2>1. /\ pc = "download" /\ pc' = "preview_ready" /\ fetch' = NoFetch /\ shown' = pic
        /\ UNCHANGED <<env, elapsed, pause, deadline, polls, token, tasks, pic, verdict, error>>
    BY <1>1 DEF finalizePreview, Enter, KeepClock
  <2>2. ImageTypes'
    BY <1>t, <2>1, FreshCalls, ImageConstants DEF ImageTypes, Ended
  <2>3. Pictures' /\ OnlyModeratedShown'
    BY <1>t, <2>1 DEF Pictures, OnlyModeratedShown
  <2>4. Rest' = 0
    BY <2>1 DEF Rest
  <2> QED BY <1>p, <2>1, <2>2, <2>3, <2>4, TimelessStep
<1>2. CASE moderateImageViaHttp
  <2>1. /\ pc = "moderate"
        /\ UNCHANGED <<env, elapsed, pause, deadline, polls, token, tasks, pic>>
    BY <1>2 DEF moderateImageViaHttp, Asks, KeepClock
  <2>2. CASE Fail("blocked") /\ UNCHANGED <<verdict, shown>>
    BY <1>t, <2>1, <2>2, FailKeeps, ImageConstants DEF ImageTypes, Errors
  <2>3. CASE Passes(pic) /\ Deliver(pic) /\ UNCHANGED error
    <3>p. pic \in 0..MaxRetries + 1
      BY <1>t, <1>p, ImageConstants DEF ImageTypes
    <3>1. /\ verdict' \in Verdicts
          /\ verdict'[pic] \in Passing
          /\ \A n \in 0..MaxRetries + 1 : verdict[n] \in Passing => verdict'[n] \in Passing
      BY <1>t, <3>p, <2>3, PassesOn DEF ImageTypes
    <3>v. /\ pic \in 0..MaxRetries + 1 /\ 0 \in 0..MaxRetries + 1 /\ shown \in 0..MaxRetries + 1
          /\ env.text => verdict'[0] \in Passing
      BY <1>t, <1>p, <2>1, <3>1, ImageConstants DEF ImageTypes, Pictures
    <3>2. Rest = Work + FetchLimit
      BY <2>1 DEF Rest
    <3>3. CASE createImageGenAdapter = "baidu"
      <4>1. pc' = "preview_ready" /\ fetch' = NoFetch /\ shown' = pic
        BY <2>3, <3>3 DEF Deliver, Enter
      <4>2. ImageTypes'
        BY <1>t, <1>p, <2>1, <2>3, <3>1, <4>1, FreshCalls, ImageConstants DEF ImageTypes, Ended
      <4>3. Pictures' /\ OnlyModeratedShown'
        BY <3>1, <3>v, <4>1, <2>1 DEF Pictures, OnlyModeratedShown
      <4>4. Rest' = 0
        BY <4>1 DEF Rest
      <4> QED BY <1>p, <2>1, <4>2, <4>3, <4>4, TimelessStep
    <3>4. CASE createImageGenAdapter # "baidu"
      <4>1. pc' = "download" /\ fetch' = Fetch(FetchLimit, 0) /\ shown' = shown
        BY <2>3, <3>4 DEF Deliver, Enter
      <4>2. Work' = FetchLimit
        BY <4>1, FreshCalls, ImageConstants
      <4>3. ImageTypes'
        BY <1>t, <2>1, <2>3, <3>1, <4>1, FreshCalls, ImageConstants DEF ImageTypes, Fetches
      <4>4. Pictures' /\ OnlyModeratedShown'
        BY <1>t, <1>p, <2>1, <2>3, <3>1, <3>v, <4>1 DEF Pictures, OnlyModeratedShown
      <4>5. Rest' = FetchLimit
        BY <4>1, <4>2 DEF Rest
      <4> QED BY <1>p, <2>1, <3>2, <4>3, <4>4, <4>5, ImageConstants, TimelessStep
    <3> QED BY <3>3, <3>4
  <2> QED BY <1>2, <2>2, <2>3 DEF moderateImageViaHttp
<1> QED BY <1>1, <1>2

(* what the vendor answers to a create or a poll *)
LEMMA VendorKeeps ==
    ASSUME ImageInv, CreateTask \/ CreateSync \/ Poll
    PROVE  ImageInv'
<1>t. ImageTypes /\ Pictures
  BY DEF ImageInv
<1>1. /\ pc \in {"create", "poll"}
      /\ UNCHANGED <<env, elapsed, deadline, token, verdict>>
  BY DEF CreateTask, CreateSync, Poll, Asks, KeepClock
<1>2. /\ tasks \in Nat /\ tasks <= MaxRetries + 1 /\ MaxRetries \in Nat
      /\ pc = "create" => tasks + 1 <= MaxRetries + 1
  BY <1>t, ImageConstants DEF ImageTypes, Pictures, FetchRecord
<1>3. ASSUME NEW code \in {"pipeline", "generator"}, Fail(code), UNCHANGED <<pause, polls, pic, shown>>,
             tasks' \in tasks..MaxRetries + 1
      PROVE  ImageInv'
  <2>1. pic' \in 0..tasks' /\ code \in Errors
    BY <1>2, <1>3, <1>t DEF ImageTypes, Errors
  <2> QED BY <1>1, <1>3, <1>t, <2>1, FailKeeps DEF ImageTypes
<1>4. CASE CreateTask
  <2>1. pc = "create"
    BY <1>4 DEF CreateTask, Asks
  <2>2. tasks + 1 \in tasks..MaxRetries + 1 /\ tasks \in tasks..MaxRetries + 1
        /\ tasks + 1 \in 1..tasks + 1
    BY <1>2, <2>1
  <2>3. CASE tasks' = tasks + 1 /\ NextPoll /\ pic' = tasks + 1 /\ UNCHANGED shown
    BY <1>1, <2>2, <2>3, PollAgain
  <2>4. CASE tasks' = tasks /\ NoPicture
    BY <1>3, <2>2, <2>4 DEF NoPicture
  <2>5. CASE tasks' \in {tasks, tasks + 1} /\ Error
    BY <1>3, <2>2, <2>5 DEF Error
  <2> QED BY <1>4, <2>3, <2>4, <2>5 DEF CreateTask
<1>5. CASE CreateSync
  <2>1. pc = "create"
    BY <1>5 DEF CreateSync, Asks
  <2>2. tasks + 1 \in tasks..MaxRetries + 1 /\ tasks \in tasks..MaxRetries + 1
        /\ tasks + 1 \in 1..tasks + 1
    BY <1>2, <2>1
  <2>3. CASE tasks' = tasks + 1 /\ GotPicture(tasks + 1)
    BY <1>1, <2>2, <2>3, PictureKeeps
  <2>4. CASE tasks' = tasks /\ NoPicture
    BY <1>3, <2>2, <2>4 DEF NoPicture
  <2>5. CASE tasks' \in {tasks, tasks + 1} /\ Error
    BY <1>3, <2>2, <2>5 DEF Error
  <2> QED BY <1>5, <2>3, <2>4, <2>5 DEF CreateSync
<1>6. CASE Poll
  <2>1. pc = "poll" /\ tasks' = tasks
    BY <1>6 DEF Poll, Asks
  <2>2. tasks' \in tasks..MaxRetries + 1 /\ pic \in 1..tasks'
    BY <1>2, <1>t, <2>1 DEF Pictures, ImageTypes
  <2>3. CASE NextPoll /\ UNCHANGED <<pic, shown>>
    BY <1>1, <2>2, <2>3, PollAgain
  <2>4. CASE GotPicture(pic)
    BY <1>1, <2>2, <2>4, PictureKeeps
  <2>5. CASE NoPicture
    BY <1>3, <2>2, <2>5 DEF NoPicture
  <2>6. CASE Error
    BY <1>3, <2>2, <2>6 DEF Error
  <2> QED BY <1>6, <2>3, <2>4, <2>5, <2>6 DEF Poll
<1> QED BY <1>4, <1>5, <1>6

(* Time passes only while a timer runs that the rest of the run waits for *)
LEMMA TickKeeps ==
    ASSUME ImageInv, Tick
    PROVE  ImageInv'
<1>t. ImageTypes /\ Pictures /\ OnlyModeratedShown /\ InTime
  BY DEF ImageInv
<1>1. /\ ~Urgent /\ pc \notin Ended /\ elapsed' = elapsed + 1
      /\ fetch' = [fetch EXCEPT !.left = Less(@)] /\ pause' = Less(pause)
      /\ deadline' = Less(deadline) /\ token' = Less(token)
      /\ UNCHANGED <<env, pc, polls, error, tasks, pic, verdict, shown>>
  BY DEF Tick, KeepPicture
<1>2. /\ fetch \in FetchRecord /\ fetch.left \in Nat /\ fetch.retries \in Nat /\ pause \in Nat
      /\ deadline \in Nat /\ elapsed \in Nat
  BY <1>t, ImageConstants DEF ImageTypes, FetchRecord
<1>3. \A n \in Nat : Less(n) \in Nat /\ Less(n) <= n /\ (n > 0 => Less(n) = n - 1)
  BY DEF Less
<1>4. /\ fetch' \in FetchRecord /\ fetch'.left = Less(fetch.left)
      /\ fetch'.flying = fetch.flying /\ fetch'.retries = fetch.retries
  BY <1>1, <1>2, <1>3 DEF FetchRecord
<1>5. ImageTypes'
  <2>1. /\ pause' \in 0..Backoff + Interval /\ deadline' \in 0..Deadline
        /\ token' \in 0..TokenLife
    BY <1>1, <1>3, <1>t, ImageConstants DEF ImageTypes
  <2> QED BY <2>1, <1>1, <1>4, <1>t, <1>2 DEF ImageTypes
<1>6. Pictures' /\ OnlyModeratedShown'
  BY <1>t, <1>1, <1>4 DEF Pictures, OnlyModeratedShown
<1>7. Generating' = Generating
  BY <1>1, AdapterStays
<1>8. Work \in Nat /\ Rest \in Nat
  BY <1>t, WorkIsTime, RestIsTime
<1>9. pc \in Fetches => Work' <= Work - 1 /\ Work' \in Nat
  <2> SUFFICES ASSUME pc \in Fetches PROVE Work' <= Work - 1 /\ Work' \in Nat
    OBVIOUS
  <2>b. Backoffs(fetch.retries) \in Nat
    BY <1>2, BackoffSums
  <2>1. CASE fetch.flying
    <3>1. fetch.left > 0
      BY <2>1, <1>1, <1>2 DEF Urgent
    <3>2. Work = fetch.left + Backoffs(fetch.retries) + 0
      BY <2>1 DEF Work
    <3>3. fetch'.flying
      BY <2>1, <1>4
    <3>4. Work' = fetch.left - 1 + Backoffs(fetch.retries) + 0
      BY <3>1, <3>3, <1>2, <1>3, <1>4 DEF Work
    <3> QED BY <2>b, <3>1, <3>2, <3>4, <1>2
  <2>2. CASE ~fetch.flying
    <3>1. pause > 0
      BY <2>2, <1>1, <1>2 DEF Urgent
    <3>2. Work = fetch.left + Backoffs(fetch.retries) + pause
      BY <2>2 DEF Work
    <3>3. ~fetch'.flying
      BY <2>2, <1>4
    <3>4. Work' = Less(fetch.left) + Backoffs(fetch.retries) + (pause - 1)
      BY <3>1, <3>3, <1>1, <1>2, <1>3, <1>4 DEF Work
    <3> QED BY <2>b, <3>1, <3>2, <3>4, <1>2, <1>3
  <2> QED BY <2>1, <2>2
<1>10. Rest' <= Rest - 1 /\ Rest' \in Nat
  <2>1. CASE pc \in {"create", "poll"}
    <3>1. Rest = Pending(Work) + After /\ Rest' = Pending(Work)' + After
      BY <2>1, <1>1 DEF Rest
    <3>2. Pending(Work)' <= Pending(Work) - 1 /\ Pending(Work)' \in Nat /\ Pending(Work) \in Nat
      BY <2>1, <1>1, <1>2, <1>3, <1>8, <1>9, Spans, ImageConstants DEF Pending, Fetches
    <3> QED BY <3>1, <3>2, Spans
  <2>2. CASE pc = "pause"
    <3> DEFINE w == pause + Span(PollLimit)
    <3>1. Rest = Pending(w) + After /\ Rest' = Pending(w)' + After
      BY <2>2, <1>1 DEF Rest
    <3>2. pause > 0
      BY <2>2, <1>1, <1>2 DEF Urgent
    <3>3. Pending(w)' <= Pending(w) - 1 /\ Pending(w)' \in Nat /\ Pending(w) \in Nat
      BY <3>2, <1>1, <1>2, <1>3, Spans, ImageConstants DEF Pending
    <3> QED BY <3>1, <3>3, Spans
  <2>3. CASE pc = "text"
    BY <2>3, <1>1, <1>7, <1>8, <1>9, Spans, GeneratingTimes, ImageConstants DEF Rest, Fetches
  <2>4. CASE pc \in {"token", "moderate", "download"}
    BY <2>4, <1>1, <1>8, <1>9, Spans, ImageConstants DEF Rest, Fetches
  <2>5. pc \in Fetches \cup {"pause"}
    BY <1>1, <1>t DEF ImageTypes, Urgent
  <2> QED BY <2>1, <2>2, <2>3, <2>4, <2>5 DEF Fetches
<1>11. InTime'
  BY <1>t, <1>1, <1>2, <1>7, <1>8, <1>10, Spans, GeneratingTimes DEF InTime
<1> QED BY <1>5, <1>6, <1>11 DEF ImageInv


LEMMA NextImage == ImageInv /\ [ImageNext]_ivars => ImageInv'
<1> SUFFICES ASSUME ImageInv, [ImageNext]_ivars PROVE ImageInv'
  OBVIOUS
<1>t. ImageTypes
  BY DEF ImageInv
<1>1. CASE Start
  <2>1. CASE env.text
    <3>1. /\ pc = "start" /\ pc' = "text" /\ fetch' = Fetch(TextLimit, MaxRetries)
          /\ UNCHANGED <<env, elapsed, tasks, pic, verdict, shown, deadline, error, pause, polls,
                         token>>
      BY <1>1, <2>1 DEF Start, Enter, KeepPicture, KeepClock
    <3>2. Work' = Span(TextLimit) /\ fetch' \in FetchRecord
      BY <3>1, FreshCalls, ImageConstants
    <3>3. ImageTypes'
      BY <1>t, <3>1, <3>2 DEF ImageTypes, Fetches
    <3>4. Pictures' /\ OnlyModeratedShown'
      BY <3>1 DEF ImageInv, Pictures, OnlyModeratedShown
    <3>5. Generating' = Generating
      BY <3>1, AdapterStays
    <3>6. Rest' = Rest
      BY <3>1, <3>2, <3>5 DEF Rest
    <3> QED BY <1>t, <3>1, <3>3, <3>4, <3>6, RestIsTime, TimelessStep
  <2>2. CASE ~env.text
    BY <1>1, <1>t, <2>2, GenerateKeeps DEF Start, KeepPicture, KeepClock, ImageTypes
  <2> QED BY <2>1, <2>2
<1>2. CASE KeepToken
  <2>1. token' \in 0..TokenLife
    BY <1>2, <1>t DEF KeepToken, ImageTypes
  <2> QED BY <1>2, <2>1, SubmitKeeps DEF KeepToken, KeepPicture, KeepClock
<1>3. CASE getAccessToken
  <2>1. token' \in 0..TokenLife
    BY <1>3, ImageConstants DEF getAccessToken
  <2> QED BY <1>3, <2>1, SubmitKeeps DEF getAccessToken, Asks, KeepPicture, KeepClock
<1>4. CASE Unanswered
  BY <1>4, AttemptKeeps DEF Unanswered, Asks
<1>5. CASE Abort
  BY <1>5, AttemptKeeps DEF Abort
<1>6. CASE Resend
  BY <1>6, ResendKeeps
<1>7. ASSUME NEW code \in Errors, Fail(code),
             UNCHANGED <<env, elapsed, tasks, pic, verdict, shown, pause, deadline, polls, token>>
      PROVE  ImageInv'
  <2>1. tasks' \in tasks..MaxRetries + 1
    BY <1>7, <1>t, ImageConstants DEF ImageTypes
  <2> QED BY <1>7, <1>t, <2>1, FailKeeps DEF ImageTypes
<1>8. CASE Rejected
  <2>1. Upstream \in Errors
    BY DEF Upstream, Errors
  <2> QED BY <1>7, <1>8, <2>1 DEF Rejected, Asks, KeepPicture, KeepClock
<1>9. CASE moderateTextViaHttp
  <2>1. /\ pc = "text"
        /\ UNCHANGED <<env, elapsed, tasks, pic, shown, pause, polls, token>>
        /\ \/ Passes(0) /\ StartGenerate
           \/ Fail("blocked") /\ UNCHANGED <<deadline, verdict>>
    BY <1>9 DEF moderateTextViaHttp, Asks, KeepClock
  <2>2. "blocked" \in Errors
    BY DEF Errors
  <2>3. CASE Passes(0) /\ StartGenerate
    <3>1. 0 \in 0..MaxRetries + 1
      BY ImageConstants
    <3>2. /\ verdict' \in Verdicts
          /\ verdict'[0] \in Passing
      BY <1>t, <2>3, <3>1, PassesOn DEF ImageTypes
    <3> QED BY <2>1, <2>3, <3>2, GenerateKeeps
  <2> QED BY <1>7, <2>1, <2>2, <2>3
<1>10. CASE CreateTask \/ CreateSync \/ Poll
  BY <1>10, VendorKeeps
<1>11. CASE SendPoll
  <2>1. /\ pc = "pause" /\ pause = 0 /\ pc' = "poll" /\ fetch' = Fetch(PollLimit, MaxRetries)
        /\ UNCHANGED <<env, elapsed, tasks, pic, verdict, shown, pause, deadline, polls, token, error>>
    BY <1>11 DEF SendPoll, Enter, KeepPicture, KeepClock
  <2>2. Work' = Span(PollLimit) /\ fetch' \in FetchRecord
    BY <2>1, FreshCalls, ImageConstants
  <2>3. ImageTypes'
    BY <1>t, <2>1, <2>2 DEF ImageTypes, Fetches
  <2>4. Pictures' /\ OnlyModeratedShown'
    BY <2>1 DEF ImageInv, Pictures, OnlyModeratedShown
  <2>5. Rest' = Rest
    <3>1. pause + Span(PollLimit) = Span(PollLimit)
      BY <2>1, Spans
    <3>2. Rest = Pending(Span(PollLimit)) + After
      BY <2>1, <3>1 DEF Rest
    <3>3. Rest' = Pending(Work)' + After
      BY <2>1 DEF Rest
    <3> QED BY <2>1, <2>2, <3>2, <3>3 DEF Pending
  <2> QED BY <1>t, <2>1, <2>3, <2>4, <2>5, RestIsTime, TimelessStep
<1>12. CASE moderateImageViaHttp \/ finalizePreview
  BY <1>12, DeliveryKeeps
<1>13. CASE Tick
  BY <1>13, TickKeeps
<1>14. CASE UNCHANGED ivars
  <2>1. ImageTypes' /\ Pictures' /\ OnlyModeratedShown'
    BY <1>14 DEF ivars, ImageInv, ImageTypes, Pictures, OnlyModeratedShown
  <2>2. Generating' = Generating
    BY <1>14, AdapterStays DEF ivars
  <2>3. Rest' = Rest
    BY <1>14, <2>2 DEF ivars, Rest, Pending, Work
  <2> QED BY <1>14, <1>t, <2>1, <2>3, RestIsTime, TimelessStep DEF ivars
<1> QED BY <1>1, <1>2, <1>3, <1>4, <1>5, <1>6, <1>8, <1>9, <1>10, <1>11, <1>12, <1>13, <1>14
        DEF ImageNext

LEMMA ImageInvariance == ImageSpec => []ImageInv
BY InitImage, NextImage, PTL DEF ImageSpec

(* Whatever the adapter, and whatever fails, times out or is retried: a    *)
(* picture is shown only after each moderation that is configured has      *)
(* answered, for the text and for that picture, without blocking it.       *)
THEOREM NothingUnanswered == ImageSpec => []OnlyModeratedShown
<1>1. ImageInv => OnlyModeratedShown
  BY DEF ImageInv
<1> QED BY <1>1, ImageInvariance, PTL

(* For any timeouts and number of retries: a run is over within the sum of *)
(* its timeouts and the backoffs between its attempts.                     *)
THEOREM RunsAreBounded == ImageSpec => []BoundedTime
<1>1. ImageInv => BoundedTime
  <2> SUFFICES ASSUME ImageInv PROVE BoundedTime
    OBVIOUS
  <2>1. Rest \in Nat /\ elapsed \in Nat
    BY RestIsTime DEF ImageInv, ImageTypes
  <2>2. elapsed + Rest <= Span(TextLimit) + Generating + After
    BY DEF ImageInv, InTime
  <2> QED BY <2>1, <2>2, Spans, GeneratingTimes, ImageConstants DEF BoundedTime
<1> QED BY <1>1, ImageInvariance, PTL

-----------------------------------------------------------------------------
(* Intake, speech recognition and picture making together, each moving     *)
(* while the others rest, keep the types of all three.                     *)
THEOREM DeviceApiTypesCorrect == Spec => []TypeOK
<1>1. Init => IInv /\ SpeechInv /\ ImageInv
  BY InitIInv, InitSpeech, InitImage DEF Init
<1>2. IInv /\ SpeechInv /\ ImageInv /\ [Next]_<<jvars, svars, ivars>>
        => IInv' /\ SpeechInv' /\ ImageInv'
  <2>1. [Next]_<<jvars, svars, ivars>>
          => [IntakeNext]_jvars /\ [SpeechNext]_svars /\ [ImageNext]_ivars
    BY DEF Next
  <2> QED BY <2>1, NextIInv, NextSpeech, NextImage
<1>3. IInv => IntakeTypeOK
  BY DEF IInv
<1>4. SpeechInv => AsrTypeOK
  BY SpeechTyped
<1>5. ImageInv => ImageTypeOK
  BY DEF ImageInv, ImageTypes, ImageTypeOK, FetchRecord
<1>6. IInv /\ SpeechInv /\ ImageInv => TypeOK
  BY <1>3, <1>4, <1>5 DEF TypeOK
<1> QED BY <1>1, <1>2, <1>6, PTL DEF Spec
=============================================================================
