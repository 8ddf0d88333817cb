--------------------------- MODULE ImageGeneration ---------------------------
(***************************************************************************)
(* From an approved-or-not text to a preview: the text moderation, the     *)
(* image adapters, the image moderation and the preview's delivery         *)
(* (cloud/apps/device-api/src/adapters).  One pipeline run is followed     *)
(* from its text to "preview_ready" or "failed"; DeviceJobs has the record *)
(* around it.                                                              *)
(*                                                                         *)
(* Every vendor call but two is a retryFetch: up to MaxRetries + 1         *)
(* attempts, a backoff between them, and ONE abort signal for all of them, *)
(* made before the first.  Time is counted in ticks; a timer that is due   *)
(* fires before time goes on (Urgent).                                     *)
(*                                                                         *)
(* The image adapter is what createImageGenAdapter selects:                *)
(*   tongyi  creates a task and polls it until a deadline taken before the *)
(*           creation;                                                     *)
(*   qwen    asks once and gets the picture in the answer;                 *)
(*   baidu   (Wenxin) takes a cached access token, submits and polls.      *)
(*                                                                         *)
(* Left out: prompts, sizes and headers, the jitter of a backoff, uploads  *)
(* and presigning in S3, which carry no timeout and are one outcome here,  *)
(* and the length limit of a data URL.                                     *)
(***************************************************************************)
EXTENDS Naturals

CONSTANTS
    ImageEnvs,          \* environments to consider, see ImageEnv
    MaxRetries,    \* MODERATION_HTTP_MAX_RETRIES
    Backoff,       \* ticks of the longest backoff
    TextLimit,     \* MODERATION_TEXT_HTTP_TIMEOUT_MS
    ImageLimit,    \* MODERATION_IMAGE_HTTP_TIMEOUT_MS
    TokenLimit,    \* signal of a token request
    CreateLimit,   \* signal of a create or submit
    SyncLimit,     \* WANX_HTTP_TIMEOUT_MS of the synchronous adapter
    PollLimit,     \* signal of a poll
    FetchLimit,    \* signal of the download of the picture
    Interval,      \* POLL_INTERVAL_MS
    Deadline,      \* WANX_HTTP_TIMEOUT_MS, WENXIN_HTTP_TIMEOUT_MS
    MaxPolls,      \* MAX_POLLS
    Margin,        \* a cached token is not used this close to its end
    TokenLife      \* expires_in

(* driver: IMAGE_GEN_DRIVER; qwen: WANX_MODEL is a qwen-image model;       *)
(* dash, baidu: the vendor's keys are set; text, image: the moderation     *)
(* URLs are set                                                            *)
ImageEnv == [driver : {"auto", "tongyi", "baidu", "stub", "other"},
        qwen : BOOLEAN, dash : BOOLEAN, baidu : BOOLEAN,
        text : BOOLEAN, image : BOOLEAN]

ASSUME EnvAssumption == ImageEnvs \subseteq ImageEnv
ASSUME TimeAssumption ==
    /\ \A n \in {MaxRetries, MaxPolls, Deadline, TokenLife} : n \in Nat
    /\ \A n \in {Backoff, TextLimit, ImageLimit, TokenLimit, CreateLimit,
                 SyncLimit, PollLimit, FetchLimit, Interval, Margin} :
         n \in Nat \ {0}

VARIABLES
    env,       \* one of ImageEnvs, for good
    pc,        \* the call or pause the run is in
    fetch,     \* the fetch or retryFetch in progress
    pause,     \* ticks left of a backoff or a poll interval
    deadline,  \* ticks left until the adapter's deadline
    polls,     \* polls made
    token,     \* ticks the token in use is still valid (baidu)
    tasks,     \* pictures the vendor has begun, one per create that reached it
    pic,       \* the picture in hand: the number of its task
    verdict,   \* how the moderation let the text, 0, and each picture through
    shown,     \* the picture behind preview_url
    error,     \* error_code of a failed job
    elapsed

ivars == <<env, pc, fetch, pause, deadline, polls, token, tasks, pic, verdict,
          shown, error, elapsed>>

Fetches == {"text", "token", "create", "poll", "moderate", "download"}
Ended == {"preview_ready", "failed"}
Errors == {"none", "blocked", "generator", "moderator", "pipeline"}

(* A moderation is asked for "allowed", and only "blocked" or a denied     *)
(* "allowed" in a 200 answer blocks: one that says neither passes, "silent"*)
Passing == {"allowed", "silent"}
Verdicts == [0..MaxRetries + 1 -> Passing \cup {"none"}]

(* IMAGE_GEN_DRIVER and the keys select an adapter                         *)
createImageGenAdapter ==
    CASE env.driver \in {"auto", "tongyi"} /\ env.qwen /\ env.dash -> "qwen"
      [] env.driver = "tongyi" /\ ~env.qwen /\ env.dash -> "tongyi"
      [] env.driver = "auto" /\ ~env.qwen /\ env.dash -> "tongyi"
      [] env.driver \in {"auto", "baidu"} /\ env.baidu
           /\ (env.driver = "baidu" \/ ~env.dash) -> "baidu"
      [] OTHER -> "stub"

(* left: ticks until the signal aborts; retries: attempts that may follow  *)
NoFetch == [left |-> 0, retries |-> 0, flying |-> FALSE]
Fetch(limit, retries) == [left |-> limit, retries |-> retries, flying |-> TRUE]

(* Picture 0 stands for no picture                                         *)
ImageTypeOK ==
    /\ env \in ImageEnvs
    /\ pc \in Fetches \cup Ended \cup {"pause", "start"}
    /\ fetch.left \in Nat /\ fetch.retries \in 0..MaxRetries
    /\ fetch.flying \in BOOLEAN
    /\ pause \in 0..Backoff + Interval
    /\ deadline \in 0..Deadline
    /\ polls \in 0..MaxPolls
    /\ token \in 0..TokenLife
    /\ tasks \in 0..MaxRetries + 1
    /\ pic \in 0..tasks /\ shown \in 0..tasks
    /\ verdict \in Verdicts
    /\ error \in Errors
    /\ elapsed \in Nat

ImageInit ==
    /\ env \in ImageEnvs
    /\ pc = "start"
    /\ fetch = NoFetch
    /\ pause = 0 /\ deadline = 0 /\ polls = 0 /\ tasks = 0 /\ elapsed = 0
    /\ token \in IF createImageGenAdapter = "baidu" THEN 0..TokenLife ELSE {0}
    /\ pic = 0 /\ shown = 0
    /\ verdict = [n \in 0..MaxRetries + 1 |-> "none"]
    /\ error = "none"

-----------------------------------------------------------------------------
(* Moving on *)

Enter(next, c) == pc' = next /\ fetch' = c

BadFail(code) ==
    /\ IF pc = "moderate" THEN Enter("download", Fetch(FetchLimit, 0))
                          ELSE Enter("failed", NoFetch)
    /\ error' = code
Fail(code) ==
    /\ Enter("failed", NoFetch)
    /\ error' = code

(* what a call that gave up means for the job                              *)
Upstream ==
    CASE pc = "text" -> "pipeline"
      [] pc = "moderate" -> "moderator"
      [] OTHER -> "generator"

KeepPicture == UNCHANGED <<tasks, pic, verdict, shown>>
KeepClock == UNCHANGED <<env, elapsed>>

(* generate() of the selected adapter starts *)
StartGenerate ==
    LET a == createImageGenAdapter IN
    /\ deadline' = IF a = "tongyi" THEN Deadline ELSE 0
    /\ CASE a = "tongyi" -> Enter("create", Fetch(CreateLimit, MaxRetries)) /\ UNCHANGED error
         [] a = "qwen" -> Enter("create", Fetch(SyncLimit, MaxRetries)) /\ UNCHANGED error
         [] a = "baidu" -> Enter("token", Fetch(TokenLimit, 0)) /\ UNCHANGED error
         [] a = "stub" -> Fail("generator")

TokenUsable == token > Margin

(* a cached token that is good for longer than the margin spares the call  *)
Submit ==
    /\ Enter("create", Fetch(CreateLimit, MaxRetries))
    /\ deadline' = Deadline
    /\ UNCHANGED error

Start ==
    /\ pc = "start"
    /\ IF env.text
       THEN Enter("text", Fetch(TextLimit, MaxRetries)) /\ UNCHANGED <<deadline, error>>
       ELSE StartGenerate
    /\ KeepPicture /\ KeepClock /\ UNCHANGED <<pause, polls, token>>

KeepToken ==
    /\ pc = "token" /\ fetch.left = TokenLimit
    /\ TokenUsable
    /\ Submit
    /\ KeepPicture /\ KeepClock /\ UNCHANGED <<pause, polls, token>>

Asks(c) ==
    /\ pc = c /\ fetch.flying /\ fetch.left > 0
    /\ c = "token" => ~TokenUsable
    /\ KeepClock

-----------------------------------------------------------------------------
(* retryFetch *)

BadNextAttempt(c) == [c EXCEPT !.flying = FALSE, !.retries = @ - 1, !.left = CreateLimit]
NextAttempt(c) == [c EXCEPT !.flying = FALSE, !.retries = @ - 1]

(* 429, 5xx, or fetch throws: another attempt after a backoff, or the end  *)
AttemptFails ==
    /\ IF fetch.retries > 0
       THEN /\ fetch' = NextAttempt(fetch)
            /\ pause' = Backoff
            /\ UNCHANGED <<pc, error>>
       ELSE Fail(Upstream) /\ UNCHANGED pause
    /\ UNCHANGED <<env, deadline, polls, token, pic, verdict, shown, elapsed>>

(* A create that fails may have reached the vendor all the same            *)
Unanswered ==
    /\ pc \in Fetches \ {"download"} /\ Asks(pc)
    /\ AttemptFails
    /\ tasks' \in IF pc = "create" THEN {tasks, tasks + 1} ELSE {tasks}

(* The signal has fired: this attempt, and any later one at once, throws   *)
BadAborts == FALSE
Aborts == fetch.left = 0
Abort ==
    /\ pc \in Fetches \ {"download"} /\ fetch.flying
    /\ Aborts
    /\ AttemptFails
    /\ tasks' = tasks

Resend ==
    /\ pc \in Fetches /\ ~fetch.flying
    /\ pause = 0
    /\ fetch' = [fetch EXCEPT !.flying = TRUE]
    /\ KeepPicture /\ KeepClock
    /\ UNCHANGED <<pc, pause, deadline, polls, token, error>>

(* a 4xx, or a body that cannot be read, is final, whichever attempt it    *)
(* answers                                                                 *)
Rejected ==
    /\ pc \in Fetches \ {"download"} /\ Asks(pc)
    /\ Fail(Upstream)
    /\ KeepPicture /\ UNCHANGED <<pause, deadline, polls, token>>

-----------------------------------------------------------------------------
(* Answers *)

Passes(n) == verdict' \in {[verdict EXCEPT ![n] = v] : v \in Passing}

moderateTextViaHttp ==
    /\ Asks("text")
    /\ \/ Passes(0) /\ StartGenerate
       \/ Fail("blocked") /\ UNCHANGED <<deadline, verdict>>
    /\ UNCHANGED <<pause, polls, token, tasks, pic, shown>>

getAccessToken ==
    /\ Asks("token")
    /\ token' = TokenLife
    /\ Submit
    /\ KeepPicture /\ UNCHANGED <<pause, polls>>

(* the loop looks at the deadline and the poll count before each pause     *)
NextPoll ==
    IF deadline > 0 /\ polls < MaxPolls
    THEN /\ Enter("pause", NoFetch)
         /\ pause' = Interval
         /\ polls' = polls + 1
         /\ UNCHANGED error
    ELSE Fail("generator") /\ UNCHANGED <<pause, polls>>

(* finalizePreview downloads a picture of DashScope first and hands on the *)
(* address another vendor gave                                             *)
Deliver(n) ==
    IF createImageGenAdapter = "baidu"
    THEN Enter("preview_ready", NoFetch) /\ shown' = n
    ELSE Enter("download", Fetch(FetchLimit, 0)) /\ UNCHANGED shown

(* generate() returned a picture; null, without one, is a pipeline error   *)
NoPicture == Fail("pipeline") /\ UNCHANGED <<pause, polls, pic, shown>>
Error == Fail("generator") /\ UNCHANGED <<pause, polls, pic, shown>>
GotPicture(n) ==
    /\ pic' = n
    /\ IF env.image THEN Enter("moderate", Fetch(ImageLimit, MaxRetries)) /\ UNCHANGED shown
                    ELSE Deliver(n)
    /\ UNCHANGED <<pause, polls, error>>

(* the vendor accepts and names a task, accepts without one, or refuses in *)
(* the body of its answer                                                  *)
CreateTask ==
    /\ Asks("create") /\ createImageGenAdapter # "qwen"
    /\ \/ tasks' = tasks + 1 /\ NextPoll /\ pic' = tasks + 1 /\ UNCHANGED shown
       \/ tasks' = tasks /\ NoPicture
       \/ tasks' \in {tasks, tasks + 1} /\ Error
    /\ UNCHANGED <<deadline, token, verdict>>

CreateSync ==
    /\ Asks("create") /\ createImageGenAdapter = "qwen"
    /\ \/ tasks' = tasks + 1 /\ GotPicture(tasks + 1)
       \/ tasks' = tasks /\ NoPicture
       \/ tasks' \in {tasks, tasks + 1} /\ Error
    /\ UNCHANGED <<deadline, token, verdict>>

SendPoll ==
    /\ pc = "pause" /\ pause = 0
    /\ Enter("poll", Fetch(PollLimit, MaxRetries))
    /\ KeepPicture /\ KeepClock /\ UNCHANGED <<pause, deadline, polls, token, error>>

(* An expired token is answered without data.  A failed task is an error   *)
(* of tongyi and no picture of baidu.                                      *)
Expired == createImageGenAdapter = "baidu" /\ token = 0
Poll ==
    /\ Asks("poll")
    /\ \/ ~Expired /\ NextPoll /\ UNCHANGED <<pic, shown>>
       \/ ~Expired /\ GotPicture(pic)
       \/ NoPicture
       \/ createImageGenAdapter = "tongyi" /\ Error
    /\ UNCHANGED <<deadline, token, tasks, verdict>>

moderateImageViaHttp ==
    /\ Asks("moderate")
    /\ \/ Passes(pic) /\ Deliver(pic) /\ UNCHANGED error
       \/ Fail("blocked") /\ UNCHANGED <<verdict, shown>>
    /\ UNCHANGED <<pause, deadline, polls, token, tasks, pic>>

(* The download ends, fails or times out.  With the bytes the preview is   *)
(* an S3 object or a data URL, without them the vendor's own address:      *)
(* always the same picture.                                                *)
finalizePreview ==
    /\ pc = "download"
    /\ Enter("preview_ready", NoFetch)
    /\ shown' = pic
    /\ KeepClock
    /\ UNCHANGED <<pause, deadline, polls, token, tasks, pic, verdict, error>>

-----------------------------------------------------------------------------
Urgent ==
    \/ pc = "start"
    \/ pc \in Fetches /\ fetch.flying /\ fetch.left = 0
    \/ pc \in Fetches /\ ~fetch.flying /\ pause = 0
    \/ pc = "token" /\ TokenUsable
    \/ pc = "pause" /\ pause = 0

Less(n) == IF n > 0 THEN n - 1 ELSE 0
Tick ==
    /\ ~Urgent /\ pc \notin Ended
    /\ elapsed' = elapsed + 1
    /\ fetch' = [fetch EXCEPT !.left = Less(@)]
    /\ pause' = Less(pause)
    /\ deadline' = Less(deadline)
    /\ token' = Less(token)
    /\ KeepPicture /\ UNCHANGED <<env, pc, polls, error>>

ImageNext ==
    \/ Start \/ KeepToken
    \/ Unanswered \/ Abort \/ Resend \/ Rejected
    \/ moderateTextViaHttp \/ getAccessToken \/ CreateTask \/ CreateSync
    \/ SendPoll \/ Poll \/ moderateImageViaHttp \/ finalizePreview
    \/ Tick

(* Time passes, and what the program does itself at a due timer happens;   *)
(* no vendor ever has to answer, and no run has to begin.                  *)
OwnSteps == KeepToken \/ Abort \/ Resend \/ SendPoll \/ finalizePreview
ImageFairness == WF_ivars(Tick) /\ WF_ivars(OwnSteps)

ImageSpec == ImageInit /\ [][ImageNext]_ivars
ImageFairSpec == ImageSpec /\ ImageFairness
-----------------------------------------------------------------------------
(* Where a moderation is configured, no picture is shown before it has     *)
(* answered for the text and for that very picture, and without blocking:  *)
(* whatever fails, is rejected, times out or is retried on the way ends the*)
(* run (vendor-facade.service.ts:124).  An answer without a verdict is let *)
(* through (vendor-http.service.ts:187, 263), so that this does not say    *)
(* that every picture shown was allowed.                                   *)
OnlyModeratedShown ==
    shown # 0 =>
      /\ env.text => verdict[0] \in Passing
      /\ env.image => verdict[shown] \in Passing

(* The longest a call of that signal takes, its backoffs included          *)
Span(limit) == limit + MaxRetries * Backoff
Polling == Deadline + Interval + Span(PollLimit)
Generating ==
    CASE createImageGenAdapter = "stub" -> 0
      [] createImageGenAdapter = "qwen" -> Span(SyncLimit)
      [] createImageGenAdapter = "tongyi" ->
           IF Polling > Span(CreateLimit) THEN Polling ELSE Span(CreateLimit)
      [] createImageGenAdapter = "baidu" ->
           TokenLimit + (IF Polling > Span(CreateLimit) THEN Polling ELSE Span(CreateLimit))

(* A run holds the advance lock and a slot of the queue: it is over within *)
(* the sum of its timeouts, each counted once however often a call is      *)
(* retried, because the attempts share one signal.                         *)
BoundedTime ==
    elapsed <= Span(TextLimit) + Generating + Span(ImageLimit) + FetchLimit

(* No vendor that answers late, badly or never keeps a run from ending.    *)
GenerationEnds == pc # "start" ~> pc \in Ended
=============================================================================
