------------------------------ MODULE HomeProofs ------------------------------
(***************************************************************************)
(* Proofs about the parent's side.  Households: what was answered is on    *)
(* record, and a policy patch replaces the version it was asked against.   *)
(* Sessions: a refresh token is refused only once its lifetime is over,    *)
(* and the tokens of an app's login reach no other app.  Both for any apps,*)
(* clients, deployments, lifetimes and bounds; last, the types of the two  *)
(* together, as MCHome composes them.                                      *)
(***************************************************************************)
EXTENDS MCHome, TLAPS

-----------------------------------------------------------------------------
(* Households *)

LastStep(a) == CASE want(a).op = "bind" -> 5
                 [] want(a).op = "unbind" -> 3
                 [] OTHER -> 4

(* A request in the server is waited for; an app that has not looked at    *)
(* the policy yet has not replaced any                                     *)
Working(a) ==
    /\ srv[a].at \in 0..LastStep(a)
    /\ Running(a) => app[a].phase = "wait"
    /\ app[a].phase = "look" => want(a).op = "patch" /\ replaced[a] = {}

(* How far a handler is says what is on record; a key says the same after  *)
(* the handler is over.                                                    *)
Bound(a) ==
    want(a).op = "bind" =>
      /\ srv[a].at >= 3 \/ a \in db.keys => want(a).on \in db.members \/ Opposed(a)
      /\ srv[a].at >= 4 \/ a \in db.keys => want(a).on \in db.rows \/ Opposed(a)

Unbound(a) ==
    want(a).op = "unbind" =>
      /\ srv[a].at >= 2 => want(a).on \notin db.members \/ Opposed(a)
      /\ srv[a].at >= 3 => want(a).on \notin db.rows \/ Opposed(a)

Patched(a) == want(a).op = "patch" /\ srv[a].at >= 3 => replaced[a] # {}

(* An attempt that passed the check has no key yet; without a key, each    *)
(* entry before is the work of a replica that died.                        *)
Decided(a) ==
    want(a).op \in {"approve", "reject"} =>
      /\ srv[a].at >= 3 \/ a \in db.keys => db.decisions[a] > 0
      /\ srv[a].at \in {2, 3} => a \notin db.keys
      /\ srv[a].at = 4 => a \in db.keys
      /\ srv[a].at <= 2 /\ a \notin db.keys => db.decisions[a] <= downs

Progress(a) == Working(a) /\ Bound(a) /\ Unbound(a) /\ Patched(a) /\ Decided(a)

(* In memory a handler runs through: one that is about to write has read   *)
(* the version that is still there, the one its app has seen, and all      *)
(* replaced versions are older.                                            *)
Fresh(a) == At(a, "write") => /\ srv[a].version = db.version
                              /\ app[a].base # 0 => app[a].base = db.version
Older(a) == \A v \in replaced[a] : v < db.version
Alone == ~home.redis => \A a, b \in Apps : Running(a) /\ Running(b) => a = b
Versioned == ~home.redis => \A a \in Apps : Fresh(a) /\ Older(a)

-----------------------------------------------------------------------------
(* HouseholdTypeOK, with the sets of records named *)
DB == [members : SUBSET Devices, rows : SUBSET Devices,
       version : Versions, gate : BOOLEAN,
       decisions : [Apps -> 0..(MaxMisses + 1)], keys : SUBSET Apps]
Srv == [at : 0..5, version : 0..(MaxPatches + 1), gate : BOOLEAN,
        devices : SUBSET Devices]
App == [phase : {"look", "ask", "wait", "done", "refused"}, base : 0..(MaxPatches + 1)]

HouseholdTypes ==
    /\ home \in Homes
    /\ db \in DB
    /\ srv \in [Apps -> Srv]
    /\ app \in [Apps -> App]
    /\ told \subseteq Apps \X Devices
    /\ replaced \in [Apps -> SUBSET Versions]
    /\ misses \in 0..MaxMisses
    /\ downs \in 0..misses

HouseholdInv ==
    /\ HouseholdTypes
    /\ \A a \in Apps : Progress(a)
    /\ AnsweredIsRecorded
    /\ Versioned
    /\ PatchSeesItsBase

LEMMA HouseholdTypesNamed == HouseholdTypes <=> HouseholdTypeOK
BY DEF HouseholdTypes, HouseholdTypeOK, DB, Srv, App

LEMMA Bounds == MaxPatches \in Nat /\ MaxMisses \in Nat /\ Versions \subseteq Nat
                  /\ Versions = 1..(MaxPatches + 1)
BY MissAssumption DEF Versions

LEMMA Ops ==
    ASSUME home \in Homes, NEW a \in Apps
    PROVE  /\ want(a).op \in {"bind", "unbind", "approve", "reject", "patch"}
           /\ want(a).op \in {"bind", "unbind"} => want(a).on \in Devices
           /\ want(a).op = "patch" => want(a).on \in BOOLEAN
           /\ want(a).op \in {"approve", "reject"} => want(a).tell \in SUBSET Devices
<1>1. home.wants[a] \in Request
  BY HomeAssumption DEF Home
<1> QED BY <1>1 DEF Request, want

(* Where the handlers' steps are *)
LEMMA Places ==
    ASSUME home \in Homes, NEW a \in Apps, Working(a), NEW s, At(a, s)
    PROVE  /\ Running(a)
           /\ s = "check" => srv[a].at = 1 /\ want(a).op \in {"bind", "approve", "reject"}
           /\ s = "member" => srv[a].at = 2 /\ want(a).op = "bind"
           /\ s = "row" => srv[a].at = 3 /\ want(a).op = "bind"
           /\ s = "remember" => \/ srv[a].at = 4 /\ want(a).op = "bind"
                                \/ srv[a].at = 3 /\ want(a).op \in {"approve", "reject"}
           /\ s = "answer" => \/ srv[a].at = 5 /\ want(a).op = "bind"
                              \/ srv[a].at = 3 /\ want(a).op = "unbind"
           /\ s = "leave" => srv[a].at = 1 /\ want(a).op = "unbind"
           /\ s = "drop" => srv[a].at = 2 /\ want(a).op = "unbind"
           /\ s = "decide" => srv[a].at = 2 /\ want(a).op \in {"approve", "reject"}
           /\ s = "read" => srv[a].at = 1 /\ want(a).op = "patch"
           /\ s = "write" => srv[a].at = 2 /\ want(a).op = "patch"
           /\ s = "devices" => srv[a].at = 3 /\ want(a).op = "patch"
           /\ s = "tell" => srv[a].at = 4 /\ want(a).op \in {"patch", "approve", "reject"}
<1> DEFINE k == srv[a].at
           o == want(a).op
<1>1. k \in 1..LastStep(a) /\ Plan(o)[k] = s /\ Running(a)
  <2>1. k \in 0..LastStep(a) /\ LastStep(a) \in {3, 4, 5} /\ k > 0
    BY DEF Working, At, Running, LastStep
  <2> QED BY <2>1 DEF At, Running
<1>2. CASE o = "bind"
  BY <1>1, <1>2 DEF Plan, LastStep
<1>3. CASE o = "unbind"
  BY <1>1, <1>3 DEF Plan, LastStep
<1>4. CASE o = "patch"
  BY <1>1, <1>4 DEF Plan, LastStep
<1>5. CASE o \in {"approve", "reject"}
  BY <1>1, <1>5 DEF Plan, LastStep
<1> QED BY <1>2, <1>3, <1>4, <1>5, Ops

LEMMA WritePlace ==
    ASSUME NEW a \in Apps, home \in Homes, Working(a)
    PROVE  At(a, "write") <=> want(a).op = "patch" /\ srv[a].at = 2
<1>1. At(a, "write") => want(a).op = "patch" /\ srv[a].at = 2
  BY Places
<1>2. want(a).op = "patch" /\ srv[a].at = 2 => At(a, "write")
  BY DEF At, Running, Plan
<1> QED BY <1>1, <1>2

LEMMA InitHousehold == HouseholdInit => HouseholdInv
<1> SUFFICES ASSUME HouseholdInit PROVE HouseholdInv
  OBVIOUS
<1>1. HouseholdTypes
  <2>1. db \in DB /\ misses \in 0..MaxMisses /\ downs \in 0..misses
    BY Bounds DEF HouseholdInit, DB
  <2>2. srv \in [Apps -> Srv] /\ app \in [Apps -> App]
    BY Bounds DEF HouseholdInit, NoRequest, Srv, App
  <2> QED BY <2>1, <2>2 DEF HouseholdInit, HouseholdTypes
<1>2. ASSUME NEW a \in Apps
      PROVE  /\ srv[a].at = 0 /\ app[a].base = 0 /\ app[a].phase \in {"look", "ask"}
             /\ replaced[a] = {} /\ db.decisions[a] = 0 /\ ~At(a, "write")
             /\ app[a].phase = "look" => want(a).op = "patch"
  BY DEF HouseholdInit, NoRequest, At, Running
<1>3. db.keys = {} /\ downs = 0 /\ told = {} /\ misses = 0
  BY DEF HouseholdInit
<1>4. ASSUME NEW a \in Apps PROVE Progress(a)
  <2>1. LastStep(a) \in {3, 4, 5}
    BY DEF LastStep
  <2> QED BY <1>2, <1>3, <2>1 DEF Progress, Working, Bound, Unbound, Patched, Decided, Running
<1>5. AnsweredIsRecorded
  <2> SUFFICES ASSUME NEW a \in Apps
               PROVE  /\ app[a].phase # "done" /\ ~(\E d \in Devices : <<a, d>> \in told)
                      /\ db.decisions[a] <= 1 + downs
    BY DEF AnsweredIsRecorded
  <2>1. db.decisions[a] <= 1 + downs
    BY <1>2, <1>3
  <2> QED BY <1>2, <1>3, <2>1
<1>6. Versioned /\ PatchSeesItsBase
  BY <1>2 DEF Versioned, Fresh, Older, PatchSeesItsBase, NoPatchOverwrites
<1> QED BY <1>1, <1>4, <1>5, <1>6 DEF HouseholdInv

-----------------------------------------------------------------------------
(* What no step takes back, for an app whose device is not disputed *)
Keeps(b) ==
    /\ home' = home
    /\ Opposed(b) => Opposed(b)'
    /\ want(b).op = "bind" /\ want(b).on \in db.members =>
         want(b).on \in db'.members \/ Opposed(b)'
    /\ want(b).op = "bind" /\ want(b).on \in db.rows =>
         want(b).on \in db'.rows \/ Opposed(b)'
    /\ want(b).op = "unbind" /\ want(b).on \notin db.members =>
         want(b).on \notin db'.members \/ Opposed(b)'
    /\ want(b).op = "unbind" /\ want(b).on \notin db.rows =>
         want(b).on \notin db'.rows \/ Opposed(b)'
    /\ replaced[b] # {} => replaced'[b] # {}
    /\ db.decisions[b] > 0 => db'.decisions[b] > 0

LEMMA RecordStays ==
    ASSUME home \in Homes, NEW b \in Apps, Keeps(b), OnRecord(b)
    PROVE  OnRecord(b)'
<1>1. want(b)' = want(b)
  BY DEF Keeps, want
<1>2. CASE want(b).op = "bind"
  BY <1>1, <1>2 DEF OnRecord, Keeps
<1>3. CASE want(b).op = "unbind"
  BY <1>1, <1>3 DEF OnRecord, Keeps
<1>4. CASE want(b).op = "patch"
  BY <1>1, <1>4 DEF OnRecord, Keeps
<1>5. CASE want(b).op \in {"approve", "reject"}
  BY <1>1, <1>5 DEF OnRecord, Keeps
<1> QED BY <1>2, <1>3, <1>4, <1>5, Ops

(* An app at whose request nothing happens stays where it is *)
LEMMA OtherStays ==
    ASSUME NEW b \in Apps, Keeps(b), Progress(b),
           srv'[b] = srv[b], app'[b] = app[b], replaced'[b] = replaced[b],
           db'.decisions[b] = db.decisions[b], b \in db'.keys <=> b \in db.keys,
           downs \in Nat, downs' \in Nat, downs' >= downs, db.decisions[b] \in Nat
    PROVE  Progress(b)'
<1>1. want(b)' = want(b) /\ LastStep(b)' = LastStep(b)
  BY DEF Keeps, want, LastStep
<1>2. Working(b)'
  BY <1>1 DEF Progress, Working, Running
<1>3. Bound(b)' /\ Unbound(b)' /\ Patched(b)'
  BY <1>1 DEF Progress, Bound, Unbound, Patched, Keeps
<1>4. Decided(b)'
  BY <1>1 DEF Progress, Decided, Keeps
<1> QED BY <1>2, <1>3, <1>4 DEF Progress

(* A handler of app a that is at work binds or unbinds its own device only *)
Binds(a) ==
    \/ db'.members = db.members /\ db'.rows = db.rows
    \/ /\ want(a).op = "bind" /\ Running(a)
       /\ db'.members \in {db.members, db.members \cup {want(a).on}}
       /\ db'.rows \in {db.rows, db.rows \cup {want(a).on}}
    \/ /\ want(a).op = "unbind" /\ Running(a)
       /\ db'.members \in {db.members, db.members \ {want(a).on}}
       /\ db'.rows \in {db.rows, db.rows \ {want(a).on}}

LEMMA NothingTakenBack ==
    ASSUME HouseholdInv, NEW a \in Apps, home' = home, Binds(a),
           misses' \in Nat, misses' >= misses,
           \A b \in Apps \ {a} : app'[b] = app[b],
           app[a].phase # "ask" => app'[a].phase # "ask" \/ misses' > misses,
           \A b \in Apps : replaced[b] # {} => replaced'[b] # {},
           \A b \in Apps : db.decisions[b] > 0 => db'.decisions[b] > 0,
           NEW b \in Apps
    PROVE  Keeps(b)
<1>t. HouseholdTypes /\ Progress(a) /\ misses \in Nat
  BY Bounds DEF HouseholdInv, HouseholdTypes
<1>1. \A c \in Apps : want(c)' = want(c)
  BY DEF want
<1>2. \A c \in Apps : app[c].phase # "ask" \/ misses > 0
                        => app'[c].phase # "ask" \/ misses' > 0
  BY <1>t
<1>3. Opposed(b) => Opposed(b)'
  BY <1>1, <1>2 DEF Opposed
<1>4. Running(a) => app'[a].phase # "ask" \/ misses' > 0
  BY <1>t DEF Progress, Working
<1>5. /\ Running(a) /\ a # b /\ {want(a).op, want(b).op} = {"bind", "unbind"}
      /\ want(a).on = want(b).on
      => Opposed(b)'
  BY <1>1, <1>4 DEF Opposed
<1>6. CASE Running(a) /\ want(a).op = "bind"
  BY <1>3, <1>5, <1>6 DEF Keeps, Binds
<1>7. CASE Running(a) /\ want(a).op = "unbind"
  BY <1>3, <1>5, <1>7 DEF Keeps, Binds
<1>8. CASE db'.members = db.members /\ db'.rows = db.rows
  BY <1>3, <1>8 DEF Keeps
<1> QED BY <1>6, <1>7, <1>8 DEF Binds

(* No new patch is about to write, and none has written *)
LEMMA VersionsStay ==
    ASSUME HouseholdInv, HouseholdTypes', home' = home, replaced' = replaced,
           db'.version = db.version, \A b \in Apps : app'[b].base = app[b].base,
           \A b \in Apps : At(b, "write")' => At(b, "write")
                                             /\ srv'[b].version = srv[b].version
    PROVE  Versioned' /\ PatchSeesItsBase'
<1>1. PatchSeesItsBase'
  BY DEF HouseholdInv, PatchSeesItsBase, NoPatchOverwrites
<1>2. Versioned'
  <2> SUFFICES ASSUME ~home'.redis, NEW b \in Apps PROVE Fresh(b)' /\ Older(b)'
    BY DEF Versioned
  <2>1. Fresh(b) /\ Older(b)
    BY DEF HouseholdInv, Versioned
  <2> QED BY <2>1 DEF Fresh, Older
<1> QED BY <1>1, <1>2

(* A step of app a or of its request preserves the invariant when it does  *)
(* so for a, and what it says about a new answer or message is so.         *)
LEMMA StepKeeps ==
    ASSUME HouseholdInv, NEW a \in Apps, HouseholdTypes', home' = home, Binds(a),
           misses' >= misses, downs' >= downs,
           \A b \in Apps \ {a} :
             /\ app'[b] = app[b] /\ srv'[b] = srv[b] /\ replaced'[b] = replaced[b]
             /\ db'.decisions[b] = db.decisions[b]
             /\ b \in db'.keys <=> b \in db.keys,
           app[a].phase # "ask" => app'[a].phase # "ask" \/ misses' > misses,
           replaced[a] # {} => replaced'[a] # {},
           db.decisions[a] > 0 => db'.decisions[a] > 0,
           \A b \in Apps, d \in Devices : <<b, d>> \in told' => <<b, d>> \in told \/ b = a,
           Keeps(a) => Progress(a)',
           Keeps(a) /\ (app'[a].phase = "done" \/ \E d \in Devices : <<a, d>> \in told')
             => OnRecord(a)',
           db'.decisions[a] <= 1 + downs',
           Versioned', PatchSeesItsBase'
    PROVE  HouseholdInv'
<1>t. HouseholdTypes
  BY DEF HouseholdInv
<1>1. /\ misses' \in Nat /\ misses \in Nat /\ downs' \in Nat /\ downs \in Nat
      /\ \A b \in Apps : db.decisions[b] \in Nat /\ db'.decisions[b] \in Nat
  BY <1>t, Bounds DEF HouseholdTypes, DB
<1>2. \A b \in Apps : Keeps(b)
  <2>1. \A b \in Apps : /\ replaced[b] # {} => replaced'[b] # {}
                        /\ db.decisions[b] > 0 => db'.decisions[b] > 0
    OBVIOUS
  <2> QED BY <1>1, <2>1, NothingTakenBack
<1>3. \A b \in Apps : Progress(b)'
  <2>1. ASSUME NEW b \in Apps, b # a PROVE Progress(b)'
    BY <1>1, <1>2, <2>1, OtherStays DEF HouseholdInv
  <2> QED BY <1>2, <2>1
<1>4. AnsweredIsRecorded'
  <2> SUFFICES ASSUME NEW b \in Apps
               PROVE  /\ app'[b].phase = "done" \/ (\E d \in Devices : <<b, d>> \in told')
                            => OnRecord(b)'
                      /\ db'.decisions[b] <= 1 + downs'
    BY DEF AnsweredIsRecorded
  <2>1. CASE b = a
    BY <2>1, <1>2
  <2>2. CASE b # a
    <3>1. db.decisions[b] <= 1 + downs
      BY DEF HouseholdInv, AnsweredIsRecorded
    <3>2. db'.decisions[b] <= 1 + downs'
      BY <1>1, <2>2, <3>1
    <3>3. app'[b].phase = "done" \/ (\E d \in Devices : <<b, d>> \in told')
            => OnRecord(b)
      BY <2>2 DEF HouseholdInv, AnsweredIsRecorded
    <3> QED BY <1>t, <1>2, <3>2, <3>3, RecordStays DEF HouseholdTypes
  <2> QED BY <2>1, <2>2
<1> QED BY <1>3, <1>4 DEF HouseholdInv

-----------------------------------------------------------------------------
(* How the parts of a state move *)

LEMMA Advances ==
    ASSUME srv \in [Apps -> Srv], NEW a \in Apps, srv[a].at < 5,
           srv' = [srv EXCEPT ![a].at = @ + 1]
    PROVE  /\ srv' \in [Apps -> Srv]
           /\ srv'[a].at = srv[a].at + 1 /\ srv'[a].version = srv[a].version
           /\ \A b \in Apps \ {a} : srv'[b] = srv[b]
<1> DEFINE h == [srv[a] EXCEPT !.at = srv[a].at + 1]
<1>1. srv[a] \in Srv
  OBVIOUS
<1>2. h \in Srv /\ h.at = srv[a].at + 1 /\ h.version = srv[a].version
  BY <1>1 DEF Srv
<1>3. srv' = [srv EXCEPT ![a] = h]
  OBVIOUS
<1> HIDE DEF h
<1> QED BY <1>2, <1>3

LEMMA Rests ==
    ASSUME srv \in [Apps -> Srv], NEW a \in Apps,
           srv' = [srv EXCEPT ![a] = NoRequest]
    PROVE  /\ srv' \in [Apps -> Srv] /\ srv'[a].at = 0
           /\ \A b \in Apps \ {a} : srv'[b] = srv[b]
<1>1. NoRequest \in Srv /\ NoRequest.at = 0
  BY Bounds DEF NoRequest, Srv
<1> QED BY <1>1

LEMMA Turns ==
    ASSUME app \in [Apps -> App], NEW a \in Apps,
           NEW p \in {"ask", "wait", "done", "refused"},
           app' = [app EXCEPT ![a].phase = p]
    PROVE  /\ app' \in [Apps -> App]
           /\ app'[a].phase = p /\ app'[a].base = app[a].base
           /\ \A b \in Apps \ {a} : app'[b] = app[b]
<1> DEFINE h == [app[a] EXCEPT !.phase = p]
<1>1. app[a] \in App
  OBVIOUS
<1>2. h \in App /\ h.phase = p /\ h.base = app[a].base
  BY <1>1 DEF App
<1>3. app' = [app EXCEPT ![a] = h]
  OBVIOUS
<1> HIDE DEF h
<1> QED BY <1>2, <1>3

(* An answer that was lost counts as one more miss *)
LEMMA Answers ==
    ASSUME HouseholdTypes, NEW a \in Apps, NEW p \in {"done", "refused"}, AnswerApp(a, p)
    PROVE  /\ srv' \in [Apps -> Srv] /\ srv'[a].at = 0
           /\ app' \in [Apps -> App] /\ app'[a].base = app[a].base
           /\ app'[a].phase \in {p, "ask"}
           /\ app'[a].phase = "ask" => misses' > misses
           /\ misses' \in 0..MaxMisses /\ misses' >= misses
           /\ \A b \in Apps \ {a} : srv'[b] = srv[b] /\ app'[b] = app[b]
<1>1. /\ srv' \in [Apps -> Srv] /\ srv'[a].at = 0
      /\ \A b \in Apps \ {a} : srv'[b] = srv[b]
  BY Rests DEF AnswerApp, HouseholdTypes
<1>2. CASE app' = [app EXCEPT ![a].phase = p] /\ misses' = misses
  <2>1. misses' \in 0..MaxMisses /\ misses' >= misses
    BY <1>2, Bounds DEF HouseholdTypes
  <2> QED BY <1>1, <1>2, <2>1, Turns DEF HouseholdTypes
<1>3. CASE app' = [app EXCEPT ![a].phase = "ask"] /\ misses' = misses + 1
             /\ misses < MaxMisses
  <2>1. misses' \in 0..MaxMisses /\ misses' > misses /\ misses' >= misses
    BY <1>3, Bounds DEF HouseholdTypes
  <2> QED BY <1>1, <1>3, <2>1, Turns DEF HouseholdTypes
<1> QED BY <1>2, <1>3 DEF AnswerApp

LEMMA DownsCount ==
    ASSUME HouseholdTypes, misses' \in 0..MaxMisses, misses' >= misses, downs' = downs
    PROVE  downs' \in 0..misses' /\ downs' >= downs
BY Bounds DEF HouseholdTypes

(* A handler that does not stand before the write of a patch *)
LEMMA NoNewWriter ==
    ASSUME HouseholdInv, NEW a \in Apps, HouseholdTypes', home' = home,
           \A b \in Apps \ {a} : srv'[b] = srv[b],
           srv'[a].at = 0 \/ want(a).op # "patch" \/ srv'[a].at = 1 \/ srv'[a].at > 2,
           srv'[a].at \in 0..LastStep(a)
    PROVE  \A b \in Apps : At(b, "write")' => At(b, "write")
                                              /\ srv'[b].version = srv[b].version
<1> SUFFICES ASSUME NEW b \in Apps, At(b, "write")'
             PROVE  At(b, "write") /\ srv'[b].version = srv[b].version
  OBVIOUS
<1>1. want(b)' = want(b) /\ LastStep(b)' = LastStep(b)
  BY DEF want, LastStep
<1>2. CASE b = a
  <2>1. srv'[a].at > 0 /\ Plan(want(a).op)[srv'[a].at] = "write"
    BY <1>1, <1>2 DEF At, Running
  <2>2. CASE want(a).op = "patch"
    <3>1. LastStep(a) = 4
      BY <2>2 DEF LastStep
    <3>2. srv'[a].at \in {1, 3, 4}
      BY <2>1, <2>2, <3>1
    <3>3. Plan(want(a).op)[srv'[a].at] # "write"
      BY <2>2, <3>2 DEF Plan
    <3> QED BY <2>1, <3>3
  <2>3. CASE want(a).op # "patch"
    <3>1. srv'[a].at \in 1..LastStep(a)
      BY <2>1 DEF LastStep
    <3>2. CASE want(a).op = "bind"
      <4>1. srv'[a].at \in 1..5
        BY <3>1, <3>2 DEF LastStep
      <4> QED BY <2>1, <3>2, <4>1 DEF Plan
    <3>3. CASE want(a).op = "unbind"
      <4>1. srv'[a].at \in 1..3
        BY <3>1, <3>3 DEF LastStep
      <4> QED BY <2>1, <3>3, <4>1 DEF Plan
    <3>4. CASE want(a).op \in {"approve", "reject"}
      <4>1. srv'[a].at \in 1..4
        BY <3>1, <3>4 DEF LastStep
      <4> QED BY <2>1, <3>4, <4>1 DEF Plan
    <3> QED BY <2>3, <3>2, <3>3, <3>4, Ops DEF HouseholdInv, HouseholdTypes
  <2> QED BY <2>2, <2>3
<1>3. CASE b # a
  BY <1>1, <1>3 DEF At, Running
<1> QED BY <1>2, <1>3

-----------------------------------------------------------------------------
(* The apps *)

LEMMA LookKeeps ==
    ASSUME HouseholdInv, NEW a \in Apps, Look(a)
    PROVE  HouseholdInv'
<1> DEFINE h == [phase |-> "ask", base |-> db.version]
<1>t. HouseholdTypes /\ Progress(a)
  BY DEF HouseholdInv
<1>1. /\ app[a].phase = "look" /\ app' = [app EXCEPT ![a] = h]
      /\ UNCHANGED <<home, db, srv, told, replaced, misses, downs>>
  BY DEF Look
<1>2. h \in App /\ db.version \in Nat
  BY <1>t, Bounds DEF HouseholdTypes, DB, App
<1>3. /\ app' \in [Apps -> App] /\ app'[a].phase = "ask" /\ app'[a].base = db.version
      /\ \A b \in Apps \ {a} : app'[b] = app[b]
  BY <1>1, <1>2, <1>t DEF HouseholdTypes
<1>4. HouseholdTypes'
  BY <1>1, <1>3, <1>t DEF HouseholdTypes
<1>5. ~Running(a) /\ srv[a].at = 0 /\ replaced[a] = {}
  BY <1>1, <1>t DEF Progress, Working, Running, HouseholdTypes, Srv
<1>6. \A b \in Apps : Opposed(b) => Opposed(b)'
  <2>1. want(a).op = "patch"
    BY <1>1, <1>t DEF Progress, Working
  <2>2. \A b \in Apps : want(b)' = want(b)
    BY <1>1 DEF want
  <2> QED BY <1>1, <1>3, <2>1, <2>2 DEF Opposed
<1>7. Progress(a)'
  BY <1>1, <1>3, <1>5, <1>6, <1>t
     DEF Progress, Working, Running, Bound, Unbound, Patched, Decided, LastStep, want
<1>8. Versioned'
  <2> SUFFICES ASSUME ~home'.redis, NEW b \in Apps PROVE Fresh(b)' /\ Older(b)'
    BY DEF Versioned
  <2>1. Fresh(b) /\ Older(b)
    BY <1>1 DEF HouseholdInv, Versioned
  <2>2. b = a => ~At(b, "write")'
    BY <1>1, <1>5 DEF At, Running
  <2> QED BY <1>1, <1>3, <2>1, <2>2 DEF Fresh, Older, At, Running, want
<1>9. PatchSeesItsBase'
  BY <1>1, <1>3, <1>5 DEF HouseholdInv, PatchSeesItsBase, NoPatchOverwrites
<1>10. \A b \in Apps : Keeps(b)
  BY <1>1, <1>6 DEF Keeps
<1>11. \A b \in Apps : Progress(b)'
  <2>1. ASSUME NEW b \in Apps, b # a PROVE Progress(b)'
    <3>1. db.decisions[b] \in Nat /\ downs \in Nat
      BY <1>t, Bounds DEF HouseholdTypes, DB
    <3> QED BY <1>1, <1>3, <1>10, <2>1, <3>1, OtherStays DEF HouseholdInv
  <2> QED BY <1>7, <2>1
<1>12. AnsweredIsRecorded'
  <2> SUFFICES ASSUME NEW b \in Apps
               PROVE  /\ app'[b].phase = "done" \/ (\E d \in Devices : <<b, d>> \in told)
                            => OnRecord(b)'
                      /\ db.decisions[b] <= 1 + downs
    BY <1>1 DEF AnsweredIsRecorded
  <2>1. app'[b].phase = "done" => app[b].phase = "done"
    BY <1>3
  <2> QED BY <1>t, <1>10, <2>1, RecordStays DEF HouseholdInv, AnsweredIsRecorded, HouseholdTypes
<1> QED BY <1>4, <1>8, <1>9, <1>11, <1>12 DEF HouseholdInv

LEMMA AskKeeps ==
    ASSUME HouseholdInv, NEW a \in Apps, Ask(a)
    PROVE  HouseholdInv'
<1>t. HouseholdTypes /\ Progress(a)
  BY DEF HouseholdInv
<1> DEFINE h == [srv[a] EXCEPT !.at = 1]
<1>1. /\ app[a].phase = "ask" /\ app' = [app EXCEPT ![a].phase = "wait"]
      /\ srv' = [srv EXCEPT ![a] = h]
      /\ UNCHANGED <<home, db, told, replaced, misses, downs>>
  BY DEF Ask
<1>2. /\ app' \in [Apps -> App] /\ app'[a].phase = "wait" /\ app'[a].base = app[a].base
      /\ \A b \in Apps \ {a} : app'[b] = app[b]
  BY <1>1, <1>t, Turns DEF HouseholdTypes
<1>3. h \in Srv /\ h.at = 1
  <2>1. srv[a] \in Srv
    BY <1>t DEF HouseholdTypes
  <2> QED BY <2>1 DEF Srv
<1> HIDE DEF h
<1>4. /\ srv' \in [Apps -> Srv] /\ srv'[a].at = 1
      /\ \A b \in Apps \ {a} : srv'[b] = srv[b]
  BY <1>1, <1>3, <1>t DEF HouseholdTypes
<1>5. HouseholdTypes'
  BY <1>1, <1>2, <1>4, <1>t DEF HouseholdTypes
<1>6. srv[a].at = 0 /\ LastStep(a) \in {3, 4, 5}
  BY <1>1, <1>t DEF Progress, Working, Running, HouseholdTypes, Srv, LastStep
<1>7. Keeps(a) => Progress(a)'
  BY <1>1, <1>2, <1>4, <1>6, <1>t
     DEF Progress, Working, Running, Bound, Unbound, Patched, Decided, LastStep, want, Keeps
<1>8. Versioned' /\ PatchSeesItsBase'
  <2>1. \A b \in Apps : At(b, "write")' => At(b, "write") /\ srv'[b].version = srv[b].version
    BY <1>1, <1>4, <1>5, <1>6, NoNewWriter
  <2> QED BY <1>1, <1>2, <1>5, <2>1, VersionsStay
<1>9. db.decisions[a] <= 1 + downs
  BY DEF HouseholdInv, AnsweredIsRecorded
<1>10. Keeps(a) /\ (\E d \in Devices : <<a, d>> \in told) => OnRecord(a)'
  BY <1>t, RecordStays DEF HouseholdInv, AnsweredIsRecorded, HouseholdTypes
<1>11. misses \in Nat /\ downs \in Nat
  BY <1>t, Bounds DEF HouseholdTypes
<1> QED BY <1>1, <1>2, <1>4, <1>5, <1>7, <1>8, <1>9, <1>10, <1>11, StepKeeps DEF Binds

-----------------------------------------------------------------------------
(* Handlers *)

(* A request is over: what it answered or told is on record *)
LEMMA OverKeeps ==
    ASSUME HouseholdInv, NEW a \in Apps, NEW p \in {"done", "refused"}, AnswerApp(a, p),
           UNCHANGED <<home, db, replaced, downs>>,
           told' \subseteq Apps \X Devices, told \subseteq told',
           \A b \in Apps, d \in Devices : <<b, d>> \in told' => <<b, d>> \in told \/ b = a,
           p = "done" => OnRecord(a),
           (\E d \in Devices : <<a, d>> \in told' \ told) => OnRecord(a),
           Running(a),
           want(a).op \in {"approve", "reject"} => a \in db.keys
    PROVE  HouseholdInv'
<1>t. HouseholdTypes /\ Progress(a)
  BY DEF HouseholdInv
<1>1. /\ srv' \in [Apps -> Srv] /\ srv'[a].at = 0
      /\ app' \in [Apps -> App] /\ app'[a].base = app[a].base
      /\ app'[a].phase \in {p, "ask"}
      /\ app'[a].phase = "ask" => misses' > misses
      /\ misses' \in 0..MaxMisses /\ misses' >= misses
      /\ \A b \in Apps \ {a} : srv'[b] = srv[b] /\ app'[b] = app[b]
  BY <1>t, Answers
<1>2. downs' \in 0..misses' /\ downs' >= downs
  BY <1>1, <1>t, DownsCount
<1>3. HouseholdTypes'
  BY <1>1, <1>2, <1>t DEF HouseholdTypes
<1>4. Keeps(a) => Progress(a)'
  <2>1. LastStep(a)' \in {3, 4, 5}
    BY DEF LastStep
  <2>2. Working(a)'
    BY <1>1, <2>1 DEF Working, Running
  <2>3. want(a)' = want(a)
    BY DEF want
  <2>4. Keeps(a) => Bound(a)' /\ Unbound(a)' /\ Patched(a)'
    BY <1>1, <1>t, <2>3 DEF Progress, Bound, Unbound, Patched, Keeps
  <2>5. Decided(a)'
    BY <1>1, <1>t, <2>3 DEF Progress, Decided
  <2> QED BY <2>2, <2>4, <2>5 DEF Progress
<1>5. Versioned' /\ PatchSeesItsBase'
  <2>1. srv'[a].at \in 0..LastStep(a)
    BY <1>1 DEF LastStep
  <2>2. \A b \in Apps : At(b, "write")' => At(b, "write") /\ srv'[b].version = srv[b].version
    BY <1>1, <1>3, <2>1, NoNewWriter
  <2>3. \A b \in Apps : app'[b].base = app[b].base
    BY <1>1
  <2> QED BY <1>3, <2>2, <2>3, VersionsStay
<1>6. /\ db.decisions[a] <= 1 + downs /\ downs \in Nat /\ downs' \in Nat
      /\ db.decisions[a] \in Nat
  BY <1>2, <1>t, <1>1, Bounds DEF HouseholdInv, AnsweredIsRecorded, HouseholdTypes, DB
<1>7. app'[a].phase = "done" \/ (\E d \in Devices : <<a, d>> \in told') => OnRecord(a)
  BY <1>1, <1>t DEF HouseholdInv, AnsweredIsRecorded
<1>8. Keeps(a) /\ OnRecord(a) => OnRecord(a)'
  BY <1>t, RecordStays DEF HouseholdTypes
<1>9. db.decisions[a] <= 1 + downs'
  BY <1>2, <1>6
<1> QED BY <1>1, <1>2, <1>3, <1>4, <1>5, <1>7, <1>8, <1>9, StepKeeps DEF Binds

(* A handler goes on, and changes at most bindings, keys and decisions,    *)
(* in a way that keeps its own progress                                    *)
LEMMA OnKeeps ==
    ASSUME HouseholdInv, NEW a \in Apps, GoOn(a), Running(a), srv[a].at < LastStep(a),
           UNCHANGED <<home, told, replaced, downs>>,
           db' \in DB, db'.version = db.version, Binds(a),
           \A b \in Apps \ {a} :
             /\ db'.decisions[b] = db.decisions[b]
             /\ b \in db'.keys <=> b \in db.keys,
           db.decisions[a] > 0 => db'.decisions[a] > 0,
           db'.decisions[a] <= 1 + downs,
           want(a).op = "patch" => srv[a].at > 1,
           srv'[a].at = srv[a].at + 1 /\ Keeps(a)
             => Bound(a)' /\ Unbound(a)' /\ Patched(a)' /\ Decided(a)'
    PROVE  HouseholdInv'
<1>t. HouseholdTypes /\ Progress(a) /\ srv[a] \in Srv
  BY DEF HouseholdInv, HouseholdTypes
<1>0. srv[a].at < 5 /\ srv[a].at \in Nat /\ LastStep(a) \in {3, 4, 5}
  BY <1>t DEF LastStep, Srv
<1>1. /\ srv' \in [Apps -> Srv]
      /\ srv'[a].at = srv[a].at + 1 /\ srv'[a].version = srv[a].version
      /\ \A b \in Apps \ {a} : srv'[b] = srv[b]
      /\ UNCHANGED <<app, misses>>
  BY <1>0, <1>t, Advances DEF GoOn, HouseholdTypes
<1>2. HouseholdTypes'
  BY <1>1, <1>t DEF HouseholdTypes
<1>3. Keeps(a) => Progress(a)'
  <2>1. want(a)' = want(a) /\ LastStep(a)' = LastStep(a)
    BY DEF want, LastStep
  <2>2. srv'[a].at \in 0..LastStep(a)
    BY <1>0, <1>1
  <2>3. Working(a)'
    BY <1>1, <1>t, <2>1, <2>2 DEF Progress, Working, Running
  <2> QED BY <1>1, <2>3 DEF Progress
<1>4. Versioned' /\ PatchSeesItsBase'
  <2>1. srv'[a].at \in 0..LastStep(a) /\ (want(a).op # "patch" \/ srv'[a].at > 2)
    BY <1>0, <1>1
  <2>2. \A b \in Apps : At(b, "write")' => At(b, "write") /\ srv'[b].version = srv[b].version
    BY <1>1, <1>2, <2>1, NoNewWriter
  <2> QED BY <1>1, <1>2, <2>2, VersionsStay
<1>5. Keeps(a) /\ (app'[a].phase = "done" \/ \E d \in Devices : <<a, d>> \in told')
        => OnRecord(a)'
  BY <1>1, <1>t, RecordStays DEF HouseholdInv, AnsweredIsRecorded, HouseholdTypes
<1>6. misses \in Nat /\ downs \in Nat
  BY <1>t, Bounds DEF HouseholdTypes
<1>7. /\ misses' >= misses /\ downs' >= downs /\ db'.decisions[a] <= 1 + downs'
      /\ home' = home /\ replaced' = replaced /\ told' = told /\ app' = app
  BY <1>1, <1>6
<1>8. \A b \in Apps \ {a} :
        /\ app'[b] = app[b] /\ srv'[b] = srv[b] /\ replaced'[b] = replaced[b]
        /\ db'.decisions[b] = db.decisions[b]
        /\ b \in db'.keys <=> b \in db.keys
  <2> TAKE b \in Apps \ {a}
  <2>1. app'[b] = app[b] /\ srv'[b] = srv[b] /\ replaced'[b] = replaced[b]
    BY <1>1, <1>7
  <2>2. db'.decisions[b] = db.decisions[b] /\ (b \in db'.keys <=> b \in db.keys)
    OBVIOUS
  <2> QED BY <2>1, <2>2
<1> QED BY <1>2, <1>3, <1>4, <1>5, <1>7, <1>8, StepKeeps

LEMMA CheckKeeps ==
    ASSUME HouseholdInv, NEW a \in Apps, checkIdempotency(a)
    PROVE  HouseholdInv'
<1>t. HouseholdTypes /\ Progress(a)
  BY DEF HouseholdInv
<1>1. /\ Running(a) /\ srv[a].at = 1 /\ want(a).op \in {"bind", "approve", "reject"}
      /\ UNCHANGED <<home, db, told, replaced, downs>>
  BY <1>t, Places DEF checkIdempotency, Progress, HouseholdTypes
<1>2. CASE a \in db.keys
  <2>1. AnswerApp(a, "done")
    BY <1>2 DEF checkIdempotency
  <2>2. OnRecord(a)
    BY <1>1, <1>2, <1>t DEF Progress, Bound, Decided, OnRecord
  <2> QED BY <1>1, <1>2, <1>t, <2>1, <2>2, OverKeeps DEF HouseholdTypes
<1>3. CASE a \notin db.keys
  <2>1. GoOn(a)
    BY <1>3 DEF checkIdempotency
  <2>2. srv[a].at < LastStep(a)
    BY <1>1 DEF LastStep
  <2>3. db' \in DB /\ db' = db /\ db.decisions[a] <= 1 + downs /\ Binds(a)
    BY <1>1, <1>t DEF HouseholdTypes, HouseholdInv, AnsweredIsRecorded, Binds
  <2>4. srv'[a].at = srv[a].at + 1 /\ Keeps(a)
          => Bound(a)' /\ Unbound(a)' /\ Patched(a)' /\ Decided(a)'
    <3>1. want(a)' = want(a)
      BY <1>1 DEF want
    <3> QED BY <1>1, <1>3, <1>t, <2>3, <3>1
        DEF Progress, Bound, Unbound, Patched, Decided, Keeps
  <2> QED BY <1>1, <2>1, <2>2, <2>3, <2>4, OnKeeps
<1> QED BY <1>2, <1>3

(* Each write of a handler *)
LEMMA EffectKeeps ==
    ASSUME HouseholdInv, NEW a \in Apps, setIdempotency(a) \/ bindDevice(a) \/ unbindDevice(a) \/ Decide(a)
    PROVE  HouseholdInv'
<1>t. HouseholdTypes /\ Progress(a) /\ db \in DB
  BY DEF HouseholdInv, HouseholdTypes
<1>w. want(a)' = want(a)
  BY DEF setIdempotency, bindDevice, unbindDevice, Decide, Effect, want
<1>d. /\ db.decisions[a] <= 1 + downs /\ downs \in Nat /\ db.decisions[a] \in Nat
      /\ downs <= MaxMisses /\ MaxMisses \in Nat
      /\ db.decisions \in [Apps -> 0..(MaxMisses + 1)]
  BY <1>t, Bounds DEF HouseholdInv, AnsweredIsRecorded, HouseholdTypes, DB
<1>o. \A s : At(a, s) => Running(a) /\ want(a).op \in {"bind", "unbind", "approve", "reject", "patch"}
  BY <1>t, Ops DEF At, HouseholdTypes
<1>1. CASE setIdempotency(a)
  <2> DEFINE new == [db EXCEPT !.keys = @ \cup {a}]
  <2>1. /\ db' = new /\ GoOn(a) /\ At(a, "remember")
        /\ UNCHANGED <<home, told, replaced, downs>>
    BY <1>1 DEF setIdempotency, Effect
  <2>2. /\ new \in DB /\ new.keys = db.keys \cup {a} /\ new.members = db.members
        /\ new.rows = db.rows /\ new.decisions = db.decisions /\ new.version = db.version
    BY <1>t DEF DB
  <2> HIDE DEF new
  <2>3. /\ Running(a)
        /\ \/ srv[a].at = 4 /\ want(a).op = "bind"
           \/ srv[a].at = 3 /\ want(a).op \in {"approve", "reject"}
    BY <2>1, <1>t, Places DEF Progress, HouseholdTypes
  <2>4. srv[a].at < LastStep(a)
    BY <2>3 DEF LastStep
  <2>5. srv'[a].at = srv[a].at + 1 /\ Keeps(a)
          => Bound(a)' /\ Unbound(a)' /\ Patched(a)' /\ Decided(a)'
    BY <1>w, <1>t, <2>1, <2>2, <2>3
       DEF Progress, Bound, Unbound, Patched, Decided, Keeps
  <2>6. Binds(a)
    BY <2>1, <2>2 DEF Binds
  <2> QED BY <1>d, <2>1, <2>2, <2>3, <2>4, <2>5, <2>6, OnKeeps
<1>2. CASE Decide(a)
  <2> DEFINE new == [db EXCEPT !.decisions[a] = @ + 1]
             ds == [db.decisions EXCEPT ![a] = db.decisions[a] + 1]
  <2>1. /\ db' = new /\ GoOn(a) /\ At(a, "decide")
        /\ UNCHANGED <<home, told, replaced, downs>>
    BY <1>2 DEF Decide, Effect
  <2>2. Running(a) /\ srv[a].at = 2 /\ want(a).op \in {"approve", "reject"}
    BY <2>1, <1>t, Places DEF Progress, HouseholdTypes
  <2>3. db.decisions[a] <= downs /\ a \notin db.keys
    BY <2>2, <1>t DEF Progress, Decided
  <2>4. /\ ds \in [Apps -> 0..(MaxMisses + 1)] /\ ds[a] = db.decisions[a] + 1
        /\ \A b \in Apps \ {a} : ds[b] = db.decisions[b]
    <3>1. db.decisions[a] + 1 \in 0..(MaxMisses + 1)
      BY <1>d, <2>3
    <3> QED BY <1>d, <3>1
  <2> HIDE DEF ds
  <2>5. /\ new \in DB /\ new.keys = db.keys /\ new.members = db.members
        /\ new.rows = db.rows /\ new.decisions = ds /\ new.version = db.version
    BY <1>t, <2>4 DEF DB, ds
  <2> HIDE DEF new
  <2>6. srv[a].at < LastStep(a)
    BY <2>2 DEF LastStep
  <2>7. /\ db'.decisions[a] = db.decisions[a] + 1 /\ db'.decisions[a] > 0
        /\ db'.decisions[a] <= 1 + downs
    BY <1>d, <2>1, <2>3, <2>4, <2>5
  <2>8. srv'[a].at = srv[a].at + 1 /\ Keeps(a)
          => Bound(a)' /\ Unbound(a)' /\ Patched(a)' /\ Decided(a)'
    BY <1>w, <1>t, <2>1, <2>2, <2>3, <2>5, <2>7
       DEF Progress, Bound, Unbound, Patched, Decided, Keeps
  <2>9. Binds(a)
    BY <2>1, <2>5 DEF Binds
  <2> QED BY <2>1, <2>2, <2>4, <2>5, <2>6, <2>7, <2>8, <2>9, OnKeeps
<1>3. ASSUME NEW new \in DB, db' = new, new.keys = db.keys, new.decisions = db.decisions,
             new.version = db.version, Binds(a), GoOn(a),
             UNCHANGED <<home, told, replaced, downs>>, Running(a),
             \/ /\ want(a).op = "bind" /\ srv[a].at \in {2, 3}
                /\ srv[a].at = 2 => want(a).on \in new.members
                /\ srv[a].at = 3 => want(a).on \in new.rows
             \/ /\ want(a).op = "unbind" /\ srv[a].at \in {1, 2}
                /\ srv[a].at = 1 => want(a).on \notin new.members
                /\ srv[a].at = 2 => want(a).on \notin new.rows
      PROVE  HouseholdInv'
  <2>1. srv[a].at < LastStep(a)
    BY <1>3 DEF LastStep
  <2>2. srv'[a].at = srv[a].at + 1 /\ Keeps(a)
          => Bound(a)' /\ Unbound(a)' /\ Patched(a)' /\ Decided(a)'
    BY <1>3, <1>t, <1>w DEF Progress, Bound, Unbound, Patched, Decided, Keeps
  <2> QED BY <1>3, <1>d, <2>1, <2>2, OnKeeps
<1>4. CASE bindDevice(a)
  <2> DEFINE new == IF At(a, "member") THEN [db EXCEPT !.members = @ \cup {want(a).on}]
                                      ELSE [db EXCEPT !.rows = @ \cup {want(a).on}]
  <2>1. \/ srv[a].at = 2 /\ At(a, "member") /\ Effect(a, "member", new)
        \/ srv[a].at = 3 /\ At(a, "row") /\ ~At(a, "member") /\ Effect(a, "row", new)
    BY <1>4, <1>t, Places DEF bindDevice, Effect, Progress, HouseholdTypes
  <2>2. Running(a) /\ want(a).op = "bind" /\ want(a).on \in Devices
    BY <2>1, <1>t, Places, Ops DEF Progress, HouseholdTypes
  <2>3. /\ new \in DB /\ new.keys = db.keys /\ new.decisions = db.decisions
        /\ new.version = db.version
        /\ At(a, "member") => new.members = db.members \cup {want(a).on} /\ new.rows = db.rows
        /\ ~At(a, "member") => new.rows = db.rows \cup {want(a).on} /\ new.members = db.members
    BY <1>t, <2>2 DEF DB
  <2> HIDE DEF new
  <2>4. Binds(a)
    BY <2>1, <2>2, <2>3 DEF Binds, Effect
  <2> QED BY <1>3, <2>1, <2>2, <2>3, <2>4 DEF Effect
<1>5. CASE unbindDevice(a)
  <2> DEFINE new == IF At(a, "leave") THEN [db EXCEPT !.members = @ \ {want(a).on}]
                                     ELSE [db EXCEPT !.rows = @ \ {want(a).on}]
  <2>1. \/ srv[a].at = 1 /\ At(a, "leave") /\ Effect(a, "leave", new)
        \/ srv[a].at = 2 /\ At(a, "drop") /\ ~At(a, "leave") /\ Effect(a, "drop", new)
    BY <1>5, <1>t, Places DEF unbindDevice, Effect, Progress, HouseholdTypes
  <2>2. Running(a) /\ want(a).op = "unbind"
    BY <2>1, <1>t, Places DEF Progress, HouseholdTypes
  <2>3. /\ new \in DB /\ new.keys = db.keys /\ new.decisions = db.decisions
        /\ new.version = db.version
        /\ At(a, "leave") => new.members = db.members \ {want(a).on} /\ new.rows = db.rows
        /\ ~At(a, "leave") => new.rows = db.rows \ {want(a).on} /\ new.members = db.members
    BY <1>t DEF DB
  <2> HIDE DEF new
  <2>4. Binds(a)
    BY <2>1, <2>2, <2>3 DEF Binds, Effect
  <2> QED BY <1>3, <2>1, <2>2, <2>3, <2>4 DEF Effect
<1> QED BY <1>1, <1>2, <1>4, <1>5

LEMMA AnswersKeep ==
    ASSUME HouseholdInv, NEW a \in Apps, AnswerBinding(a) \/ TellDevices(a)
    PROVE  HouseholdInv'
<1>t. HouseholdTypes /\ Progress(a)
  BY DEF HouseholdInv
<1>1. CASE AnswerBinding(a)
  <2>1. /\ AnswerApp(a, "done") /\ At(a, "answer")
        /\ UNCHANGED <<home, db, told, replaced, downs>>
    BY <1>1 DEF AnswerBinding
  <2>2. Running(a) /\ \/ srv[a].at = 5 /\ want(a).op = "bind"
                      \/ srv[a].at = 3 /\ want(a).op = "unbind"
    BY <2>1, <1>t, Places DEF Progress, HouseholdTypes
  <2>3. OnRecord(a)
    <3>1. CASE srv[a].at = 5 /\ want(a).op = "bind"
      <4>1. want(a).on \in db.members \cap db.rows \/ Opposed(a)
        BY <3>1, <1>t DEF Progress, Bound
      <4> QED BY <3>1, <4>1 DEF OnRecord
    <3>2. CASE srv[a].at = 3 /\ want(a).op = "unbind"
      <4>1. want(a).on \notin db.members \cup db.rows \/ Opposed(a)
        BY <3>2, <1>t DEF Progress, Unbound
      <4> QED BY <3>2, <4>1 DEF OnRecord
    <3> QED BY <2>2, <3>1, <3>2
  <2> QED BY <2>1, <2>2, <2>3, <1>t, OverKeeps DEF HouseholdTypes
<1>2. CASE TellDevices(a)
  <2>1. /\ AnswerApp(a, "done") /\ At(a, "tell")
        /\ told' = told \/ told' = told \cup ({a} \X Audience(a))
        /\ UNCHANGED <<home, db, replaced, downs>>
    BY <1>2 DEF TellDevices
  <2>2. /\ Running(a) /\ srv[a].at = 4 /\ want(a).op \in {"patch", "approve", "reject"}
    BY <2>1, <1>t, Places DEF Progress, HouseholdTypes
  <2>3. OnRecord(a)
    <3>1. CASE want(a).op = "patch"
      <4>1. replaced[a] # {}
        BY <2>2, <3>1, <1>t DEF Progress, Patched
      <4> QED BY <3>1, <4>1 DEF OnRecord
    <3>2. CASE want(a).op \in {"approve", "reject"}
      <4>1. db.decisions[a] > 0
        BY <2>2, <3>2, <1>t DEF Progress, Decided
      <4> QED BY <3>2, <4>1 DEF OnRecord
    <3> QED BY <2>2, <3>1, <3>2
  <2>4. Audience(a) \in SUBSET Devices
    <3>1. srv[a].devices \in SUBSET Devices
      BY <1>t DEF HouseholdTypes, Srv
    <3>2. want(a).op \in {"approve", "reject"} => want(a).tell \in SUBSET Devices
      BY <1>t, Ops DEF HouseholdTypes
    <3> QED BY <2>2, <3>1, <3>2 DEF Audience
  <2>5. /\ told' \subseteq Apps \X Devices /\ told \subseteq told'
        /\ \A b \in Apps, d \in Devices : <<b, d>> \in told' => <<b, d>> \in told \/ b = a
    BY <2>1, <2>4, <1>t DEF HouseholdTypes
  <2>6. want(a).op \in {"approve", "reject"} => a \in db.keys
    BY <2>2, <1>t DEF Progress, Decided
  <2> QED BY <2>1, <2>2, <2>3, <2>5, <2>6, OverKeeps
<1> QED BY <1>1, <1>2

(* A handler that has read something goes on *)
LEMMA ReadKeeps ==
    ASSUME HouseholdInv, NEW a \in Apps, NEW h \in Srv, Running(a), want(a).op = "patch",
           h.at = srv[a].at + 1, h.at \in {2, 4}, srv' = [srv EXCEPT ![a] = h],
           UNCHANGED <<home, db, app, told, replaced, misses, downs>>,
           h.at = 2 => /\ h.version = db.version
                       /\ app[a].base # 0 => app[a].base = db.version
    PROVE  HouseholdInv'
<1>t. HouseholdTypes /\ Progress(a)
  BY DEF HouseholdInv
<1>1. /\ srv' \in [Apps -> Srv] /\ srv'[a] = h
      /\ \A b \in Apps \ {a} : srv'[b] = srv[b]
  BY <1>t DEF HouseholdTypes
<1>2. HouseholdTypes'
  BY <1>1, <1>t DEF HouseholdTypes
<1>3. want(a)' = want(a) /\ LastStep(a)' = 4 /\ srv[a].at \in {1, 3}
  <2>1. srv[a].at \in 0..5
    BY <1>t DEF HouseholdTypes, Srv
  <2> QED BY <2>1 DEF want, LastStep
<1>4. Keeps(a) => Progress(a)'
  BY <1>1, <1>3, <1>t
     DEF Progress, Working, Running, Bound, Unbound, Patched, Decided, Keeps
<1>5. Versioned'
  <2> SUFFICES ASSUME ~home'.redis, NEW b \in Apps PROVE Fresh(b)' /\ Older(b)'
    BY DEF Versioned
  <2>1. Fresh(b) /\ Older(b)
    BY DEF HouseholdInv, Versioned
  <2>2. CASE b = a
    <3>1. At(a, "write")' => h.at = 2
      <4> SUFFICES ASSUME h.at = 4 PROVE ~At(a, "write")'
        OBVIOUS
      <4> QED BY <1>1, <1>3 DEF At, Plan
    <3> QED BY <1>1, <2>1, <2>2, <3>1 DEF Fresh, Older
  <2>3. CASE b # a
    BY <1>1, <2>1, <2>3 DEF Fresh, Older, At, Running, want
  <2> QED BY <2>2, <2>3
<1>6. PatchSeesItsBase'
  BY DEF HouseholdInv, PatchSeesItsBase, NoPatchOverwrites
<1>7. Keeps(a) /\ (app'[a].phase = "done" \/ \E d \in Devices : <<a, d>> \in told')
        => OnRecord(a)'
  BY <1>t, RecordStays DEF HouseholdInv, AnsweredIsRecorded, HouseholdTypes
<1>8. /\ misses \in Nat /\ downs \in Nat /\ db.decisions[a] <= 1 + downs
  BY <1>t, Bounds DEF HouseholdTypes, HouseholdInv, AnsweredIsRecorded
<1> QED BY <1>1, <1>2, <1>4, <1>5, <1>6, <1>7, <1>8, StepKeeps DEF Binds

LEMMA PolicyReadsKeep ==
    ASSUME HouseholdInv, NEW a \in Apps, getPolicy(a) \/ getDevices(a)
    PROVE  HouseholdInv'
<1>t. HouseholdTypes /\ Progress(a) /\ srv[a] \in Srv /\ db \in DB
  BY DEF HouseholdInv, HouseholdTypes
<1>1. CASE getPolicy(a)
  <2>1. /\ At(a, "read") /\ UNCHANGED <<home, db, told, replaced, downs>>
    BY <1>1 DEF getPolicy
  <2>2. Running(a) /\ srv[a].at = 1 /\ want(a).op = "patch"
    BY <2>1, <1>t, Places DEF Progress, HouseholdTypes
  <2>3. CASE Mismatch(a)
    <3>1. AnswerApp(a, "refused")
      BY <1>1, <2>3 DEF getPolicy
    <3> QED BY <2>1, <2>2, <3>1, <1>t, OverKeeps DEF HouseholdTypes
  <2>4. CASE ~Mismatch(a)
    <3> DEFINE h1 == [srv[a] EXCEPT !.at = srv[a].at + 1]
               h2 == [h1 EXCEPT !.version = db.version]
               h == [h2 EXCEPT !.gate = db.gate]
    <3>1. srv' = [srv EXCEPT ![a] = h] /\ UNCHANGED <<app, misses>>
      BY <1>1, <2>4 DEF getPolicy
    <3>2. h1 \in Srv /\ h1.at = 2
      BY <1>t, <2>2 DEF Srv
    <3>3. db.version \in 0..(MaxPatches + 1) /\ db.gate \in BOOLEAN
      BY <1>t, Bounds DEF DB
    <3> HIDE DEF h1
    <3>4. h2 \in Srv /\ h2.at = 2 /\ h2.version = db.version
      BY <3>2, <3>3 DEF Srv
    <3> HIDE DEF h2
    <3>5. h \in Srv /\ h.at = 2 /\ h.version = db.version
      BY <3>3, <3>4 DEF Srv
    <3> HIDE DEF h
    <3>6. app[a].base # 0 => app[a].base = db.version
      BY <2>4 DEF Mismatch
    <3>7. /\ h.at = srv[a].at + 1 /\ h.at \in {2, 4}
          /\ h.at = 2 => /\ h.version = db.version
                         /\ app[a].base # 0 => app[a].base = db.version
      BY <2>2, <3>5, <3>6
    <3>8. UNCHANGED <<home, db, app, told, replaced, misses, downs>>
      BY <2>1, <3>1
    <3>9. h \in Srv
      BY <3>5
    <3> QED BY <2>2, <3>1, <3>7, <3>8, <3>9, ReadKeeps
  <2> QED BY <2>3, <2>4
<1>2. CASE getDevices(a)
  <2>1. At(a, "devices")
    BY <1>2 DEF getDevices
  <2>2. Running(a) /\ srv[a].at = 3 /\ want(a).op = "patch"
    BY <2>1, <1>t, Places DEF Progress, HouseholdTypes
  <2> DEFINE h1 == [srv[a] EXCEPT !.at = srv[a].at + 1]
             h == [h1 EXCEPT !.devices = db.members]
  <2>3. /\ srv' = [srv EXCEPT ![a] = h]
        /\ UNCHANGED <<home, db, app, told, replaced, misses, downs>>
    BY <1>2 DEF getDevices
  <2>4. h1 \in Srv /\ h1.at = 4
    BY <1>t, <2>2 DEF Srv
  <2> HIDE DEF h1
  <2>5. h \in Srv /\ h.at = 4
    BY <1>t, <2>4 DEF Srv, DB
  <2> HIDE DEF h
  <2>6. /\ h.at = srv[a].at + 1 /\ h.at \in {2, 4}
        /\ h.at = 2 => /\ h.version = db.version
                       /\ app[a].base # 0 => app[a].base = db.version
    BY <2>2, <2>5
  <2>7. h \in Srv
    BY <2>5
  <2> QED BY <2>2, <2>3, <2>6, <2>7, ReadKeeps
<1> QED BY <1>1, <1>2

(* The write of a patch: in memory it replaces what it has read            *)
LEMMA WriteKeeps ==
    ASSUME HouseholdInv, Alone, NEW a \in Apps, WritePolicy(a)
    PROVE  HouseholdInv'
<1>t. HouseholdTypes /\ Progress(a) /\ srv[a] \in Srv /\ db \in DB /\ db.version \in Nat
  BY Bounds DEF HouseholdInv, HouseholdTypes, DB
<1> DEFINE new1 == [db EXCEPT !.version = NextVersion(a)]
           new == [new1 EXCEPT !.gate = want(a).on]
           older == replaced[a] \cup {db.version}
<1>1. /\ At(a, "write") /\ srv[a].version <= MaxPatches
      /\ db' = new /\ replaced' = [replaced EXCEPT ![a] = older]
      /\ GoOn(a) /\ UNCHANGED <<home, told, downs>>
  BY DEF WritePolicy
<1>2. Running(a) /\ srv[a].at = 2 /\ want(a).op = "patch" /\ want(a).on \in BOOLEAN
  BY <1>1, <1>t, Places, Ops DEF Progress, HouseholdTypes
<1>3. /\ new \in DB /\ new.version = srv[a].version + 1 /\ new.members = db.members
      /\ new.rows = db.rows /\ new.keys = db.keys /\ new.decisions = db.decisions
  <2>1. NextVersion(a) = srv[a].version + 1 /\ NextVersion(a) \in Versions
    BY <1>1, <1>t, Bounds DEF NextVersion, Srv
  <2>2. /\ new1 \in DB /\ new1.version = srv[a].version + 1 /\ new1.members = db.members
        /\ new1.rows = db.rows /\ new1.keys = db.keys /\ new1.decisions = db.decisions
    BY <1>t, <2>1 DEF DB
  <2> HIDE DEF new1
  <2> QED BY <1>2, <2>2 DEF DB
<1> HIDE DEF new
<1>4. /\ replaced' \in [Apps -> SUBSET Versions] /\ replaced'[a] = older
      /\ \A b \in Apps \ {a} : replaced'[b] = replaced[b]
  BY <1>1, <1>t DEF HouseholdTypes, DB
<1>5. /\ srv' \in [Apps -> Srv]
      /\ srv'[a].at = 3 /\ srv'[a].version = srv[a].version
      /\ \A b \in Apps \ {a} : srv'[b] = srv[b]
      /\ UNCHANGED <<app, misses>>
  <2>1. /\ srv' = [srv EXCEPT ![a].at = @ + 1] /\ UNCHANGED <<app, misses>>
        /\ srv[a].at < 5 /\ srv[a].at + 1 = 3 /\ srv \in [Apps -> Srv]
    BY <1>1, <1>2, <1>t DEF GoOn, HouseholdTypes
  <2>2. srv'[a].at = srv[a].at + 1
    BY <2>1, Advances
  <2> QED BY <2>1, <2>2, Advances
<1>6. HouseholdTypes'
  BY <1>1, <1>3, <1>4, <1>5, <1>t DEF HouseholdTypes
<1>7. want(a)' = want(a) /\ LastStep(a)' = 4
  BY <1>1, <1>2 DEF want, LastStep
<1>8. Keeps(a) => Progress(a)'
  <2>1. replaced'[a] # {}
    BY <1>4
  <2>2. Working(a)'
    BY <1>2, <1>5, <1>7, <1>t DEF Progress, Working, Running
  <2> QED BY <1>2, <1>7, <2>1, <2>2
      DEF Progress, Bound, Unbound, Patched, Decided
<1>9. ASSUME home.redis PROVE Versioned' /\ PatchSeesItsBase'
  BY <1>1, <1>9 DEF Versioned, PatchSeesItsBase
<1>10. ASSUME ~home.redis PROVE Versioned' /\ PatchSeesItsBase'
  <2>1. /\ srv[a].version = db.version
        /\ app[a].base # 0 => app[a].base = db.version
        /\ \A b \in Apps : Older(b)
        /\ \A b \in Apps \ {a} : ~At(b, "write")
    BY <1>1, <1>2, <1>10 DEF HouseholdInv, Versioned, Fresh, Alone, At
  <2>2. db'.version = db.version + 1
    <3>1. db' = new /\ new.version = srv[a].version + 1
      BY <1>1, <1>3
    <3>2. srv[a].version = db.version
      BY <2>1
    <3> QED BY <3>1, <3>2
  <2>3. \A b \in Apps : replaced'[b] \subseteq Nat /\ replaced[b] \subseteq Nat
    BY <1>4, <1>t, Bounds DEF HouseholdTypes
  <2>4. Versioned'
    <3> SUFFICES ASSUME NEW b \in Apps PROVE Fresh(b)' /\ Older(b)'
      BY DEF Versioned
    <3>1. Older(b)'
      BY <1>4, <1>t, <2>1, <2>2, <2>3 DEF Older
    <3>2. ~At(b, "write")'
      <4>1. CASE b = a
        BY <4>1, <1>2, <1>5, <1>7 DEF At, Plan
      <4>2. CASE b # a
        BY <4>2, <1>1, <1>5, <2>1 DEF At, Running, want
      <4> QED BY <4>1, <4>2
    <3> QED BY <3>1, <3>2 DEF Fresh
  <2>5. PatchSeesItsBase'
    <3>1. \A b \in Apps : db.version \notin replaced[b]
      BY <1>t, <2>1, <2>3 DEF Older
    <3>2. /\ \A b \in Apps : app[b].base # 0 => replaced[b] \subseteq {app[b].base}
          /\ \A b, c \in Apps : b # c => replaced[b] \cap replaced[c] = {}
      BY <1>1, <1>10 DEF HouseholdInv, PatchSeesItsBase, NoPatchOverwrites
    <3>3. app' = app
      BY <1>5
    <3>4. ASSUME NEW b \in Apps, app'[b].base # 0 PROVE replaced'[b] \subseteq {app'[b].base}
      <4>1. replaced[b] \subseteq {app[b].base} /\ app[b].base # 0
        BY <3>2, <3>3, <3>4
      <4>2. CASE b = a
        <5>1. app[a].base = db.version
          BY <2>1, <4>1, <4>2
        <5> QED BY <1>4, <3>3, <4>1, <4>2, <5>1
      <4>3. CASE b # a
        BY <1>4, <3>3, <4>1, <4>3
      <4> QED BY <4>2, <4>3
    <3>5. ASSUME NEW b \in Apps, NEW c \in Apps, b # c
          PROVE  replaced'[b] \cap replaced'[c] = {}
      BY <1>4, <3>1, <3>2, <3>5
    <3> QED BY <3>4, <3>5 DEF PatchSeesItsBase, NoPatchOverwrites
  <2> QED BY <2>4, <2>5
<1>11. Keeps(a) /\ (app'[a].phase = "done" \/ \E d \in Devices : <<a, d>> \in told')
        => OnRecord(a)'
  BY <1>1, <1>5, <1>t, RecordStays DEF HouseholdInv, AnsweredIsRecorded, HouseholdTypes
<1>12. /\ misses \in Nat /\ downs \in Nat /\ db.decisions[a] <= 1 + downs
  BY <1>t, Bounds DEF HouseholdTypes, HouseholdInv, AnsweredIsRecorded
<1>13. Versioned' /\ PatchSeesItsBase'
  BY <1>9, <1>10
<1>14. /\ db'.decisions = db.decisions /\ db'.keys = db.keys /\ replaced'[a] # {}
       /\ Binds(a) /\ misses' >= misses /\ downs' >= downs /\ told' = told
  BY <1>1, <1>3, <1>4, <1>5, <1>12 DEF Binds
<1> QED BY <1>1, <1>4, <1>5, <1>6, <1>8, <1>11, <1>12, <1>13, <1>14, StepKeeps

(* A replica dies: what it worked on is asked for again *)
LEMMA DieKeeps ==
    ASSUME HouseholdInv, NEW a \in Apps, HandlerDies(a)
    PROVE  HouseholdInv'
<1>t. HouseholdTypes /\ Progress(a) /\ srv[a] \in Srv
  BY DEF HouseholdInv, HouseholdTypes
<1>1. /\ Running(a) /\ misses < MaxMisses /\ misses' = misses + 1 /\ downs' = downs + 1
      /\ srv' = [srv EXCEPT ![a] = NoRequest] /\ app' = [app EXCEPT ![a].phase = "ask"]
      /\ UNCHANGED <<home, db, told, replaced>>
  BY DEF HandlerDies
<1>2. /\ srv' \in [Apps -> Srv] /\ srv'[a].at = 0
      /\ \A b \in Apps \ {a} : srv'[b] = srv[b]
  BY <1>1, <1>t, Rests DEF HouseholdTypes
<1>3. /\ app' \in [Apps -> App] /\ app'[a].phase = "ask" /\ app'[a].base = app[a].base
      /\ \A b \in Apps \ {a} : app'[b] = app[b]
  BY <1>1, <1>t, Turns DEF HouseholdTypes
<1>4. /\ misses' \in 0..MaxMisses /\ downs' \in 0..misses' /\ misses' > misses
      /\ downs \in Nat /\ downs' = downs + 1 /\ misses \in Nat
  BY <1>1, <1>t, Bounds DEF HouseholdTypes
<1>5. HouseholdTypes'
  BY <1>1, <1>2, <1>3, <1>4, <1>t DEF HouseholdTypes
<1>6. /\ db.decisions[a] <= 1 + downs /\ db.decisions[a] \in Nat
  BY <1>t, Bounds DEF HouseholdInv, AnsweredIsRecorded, HouseholdTypes, DB
<1>7. Keeps(a) => Progress(a)'
  <2>1. LastStep(a)' \in {3, 4, 5} /\ want(a)' = want(a)
    BY <1>1 DEF LastStep, want
  <2>2. Working(a)'
    BY <1>2, <1>3, <2>1 DEF Working, Running
  <2>3. Keeps(a) => Bound(a)' /\ Unbound(a)' /\ Patched(a)'
    BY <1>1, <1>2, <1>t, <2>1 DEF Progress, Bound, Unbound, Patched, Keeps
  <2>4. Decided(a)'
    BY <1>1, <1>2, <1>4, <1>6, <1>t, <2>1 DEF Progress, Decided
  <2> QED BY <2>2, <2>3, <2>4 DEF Progress
<1>8. Versioned' /\ PatchSeesItsBase'
  <2>1. srv'[a].at \in 0..LastStep(a)
    BY <1>2 DEF LastStep
  <2>2. \A b \in Apps : At(b, "write")' => At(b, "write") /\ srv'[b].version = srv[b].version
    BY <1>1, <1>2, <1>5, <2>1, NoNewWriter
  <2>3. \A b \in Apps : app'[b].base = app[b].base
    BY <1>3
  <2> QED BY <1>1, <1>5, <2>2, <2>3, VersionsStay
<1>9. Keeps(a) /\ (\E d \in Devices : <<a, d>> \in told) => OnRecord(a)'
  BY <1>t, RecordStays DEF HouseholdInv, AnsweredIsRecorded, HouseholdTypes
<1>10. db'.decisions[a] <= 1 + downs' /\ misses' >= misses /\ downs' >= downs
  BY <1>1, <1>4, <1>6
<1> QED BY <1>1, <1>2, <1>3, <1>4, <1>5, <1>7, <1>8, <1>9, <1>10, StepKeeps DEF Binds

-----------------------------------------------------------------------------
(* In memory a request is taken up only when no other is being worked on   *)
LEMMA AloneStays == HouseholdInv /\ Alone /\ [HouseholdNext]_hvars => Alone'
<1> SUFFICES ASSUME HouseholdInv, Alone, [HouseholdNext]_hvars PROVE Alone'
  OBVIOUS
<1>t. srv \in [Apps -> Srv]
  BY DEF HouseholdInv, HouseholdTypes
<1>1. ASSUME NEW a \in Apps, NEW r, home' = home, srv' = [srv EXCEPT ![a] = r],
             Running(a) \/ ~HouseholdBusy
      PROVE  Alone'
  BY <1>t, <1>1 DEF Alone, Running, HouseholdBusy
<1>2. ASSUME NEW a \in Apps, Look(a) PROVE Alone'
  BY <1>2 DEF Look, Alone, Running
<1>3. ASSUME NEW a \in Apps, Ask(a) PROVE Alone'
  BY <1>1, <1>3 DEF Ask
<1>4. ASSUME NEW a \in Apps, Handle(a) PROVE Alone'
  <2>1. Running(a) /\ home' = home
    BY <1>4 DEF Handle, checkIdempotency, setIdempotency, bindDevice, unbindDevice, AnswerBinding,
       Decide, getPolicy, WritePolicy, getDevices, TellDevices, Effect, At
  <2>2. \E r : srv' = [srv EXCEPT ![a] = r]
    BY <1>4 DEF Handle, checkIdempotency, setIdempotency, bindDevice, unbindDevice, AnswerBinding,
       Decide, getPolicy, WritePolicy, getDevices, TellDevices, Effect, AnswerApp, GoOn
  <2> QED BY <1>1, <2>1, <2>2
<1>5. ASSUME NEW a \in Apps, HandlerDies(a) PROVE Alone'
  BY <1>1, <1>5 DEF HandlerDies
<1>6. CASE UNCHANGED hvars
  BY <1>6 DEF hvars, Alone, Running
<1> QED BY <1>2, <1>3, <1>4, <1>5, <1>6 DEF HouseholdNext

LEMMA NextHousehold == HouseholdInv /\ Alone /\ [HouseholdNext]_hvars => HouseholdInv'
<1> SUFFICES ASSUME HouseholdInv, Alone, [HouseholdNext]_hvars PROVE HouseholdInv'
  OBVIOUS
<1>1. ASSUME NEW a \in Apps, Look(a) \/ Ask(a) \/ Handle(a) \/ HandlerDies(a) PROVE HouseholdInv'
  <2>1. CASE Handle(a)
    BY <2>1, CheckKeeps, EffectKeeps, AnswersKeep, PolicyReadsKeep, WriteKeeps DEF Handle
  <2> QED BY <1>1, <2>1, LookKeeps, AskKeeps, DieKeeps
<1>2. CASE UNCHANGED hvars
  <2>1. /\ UNCHANGED <<home, db, srv, app, told, replaced, misses, downs>>
    BY <1>2 DEF hvars
  <2>2. HouseholdTypes' /\ PatchSeesItsBase'
    BY <2>1 DEF HouseholdInv, HouseholdTypes, PatchSeesItsBase, NoPatchOverwrites
  <2>3. Versioned'
    <3> SUFFICES ASSUME ~home'.redis, NEW b \in Apps PROVE Fresh(b)' /\ Older(b)'
      BY DEF Versioned
    <3>1. Fresh(b) /\ Older(b)
      BY <2>1 DEF HouseholdInv, Versioned
    <3> QED BY <2>1, <3>1 DEF Fresh, Older, At, Running, want
  <2>4. AnsweredIsRecorded'
    BY <2>1 DEF HouseholdInv, AnsweredIsRecorded, OnRecord, Opposed, want
  <2>5. ASSUME NEW a \in Apps PROVE Progress(a)'
    <3>1. Progress(a) /\ Keeps(a)
      BY <2>1 DEF HouseholdInv, Keeps, Opposed, want
    <3>2. db.decisions[a] \in Nat /\ downs \in Nat
      BY Bounds DEF HouseholdInv, HouseholdTypes, DB
    <3> QED BY <2>1, <3>1, <3>2, OtherStays
  <2> QED BY <2>2, <2>3, <2>4, <2>5 DEF HouseholdInv
<1> QED BY <1>1, <1>2 DEF HouseholdNext

LEMMA HouseholdInvariance == HouseholdSpec => []HouseholdInv
<1>1. HouseholdInit => Alone
  BY DEF HouseholdInit, Alone, Running, NoRequest
<1> QED BY <1>1, InitHousehold, AloneStays, NextHousehold, PTL DEF HouseholdSpec

(* The household, its requests and its apps keep their types, and the      *)
(* counters their bounds.                                                  *)
THEOREM HouseholdTypesCorrect == HouseholdSpec => []HouseholdTypeOK
<1>1. HouseholdInv => HouseholdTypeOK
  BY HouseholdTypesNamed DEF HouseholdInv
<1> QED BY <1>1, HouseholdInvariance, PTL

(* However requests of any number of apps interleave, are repeated or lose *)
(* their replica: what was answered or told is on record, and a decision   *)
(* once, but for replicas that died.                                       *)
THEOREM Recorded == HouseholdSpec => []AnsweredIsRecorded
<1>1. HouseholdInv => AnsweredIsRecorded
  BY DEF HouseholdInv
<1> QED BY <1>1, HouseholdInvariance, PTL

(* With the policy in memory, for any number of apps whose answers may be  *)
(* lost: a patch replaces the version its app has seen, and no two patches *)
(* replace the same.  Over Redis that is not so (PolicyOverwritten).       *)
THEOREM OptimisticVersions == HouseholdSpec => []PatchSeesItsBase
<1>1. HouseholdInv => PatchSeesItsBase
  BY DEF HouseholdInv
<1> QED BY <1>1, HouseholdInvariance, PTL

-----------------------------------------------------------------------------
(* Sessions *)

(***************************************************************************)
(* The inductive invariant.  A client holds a token only after its row was *)
(* stored (HeldRows), and the row is stored later than the token was       *)
(* signed, for as long as the token lives (StoringLater).  A lookup is of  *)
(* the token its client holds (LooksUpHeld), so that a missing row has     *)
(* expired after the token, as long as no server lost its rows in memory.  *)
(***************************************************************************)
HeldRows ==
    ~restarted => \A c \in Clients : cl[c] # 0 => rows[cl[c]] >= tokens[cl[c]].exp

StoringLater ==
    \A c \in Clients :
      hd[c].pc = "store" => hd[c].token # 0 /\ tokens[hd[c].token].exp <= now + Life(c)

LooksUpHeld ==
    \A c \in Clients : hd[c].pc = "lookup" => hd[c].token # 0 /\ hd[c].token = cl[c]

Rows == HeldRows /\ StoringLater /\ LooksUpHeld /\ RefusedOnlyExpired

Token == [who : Clients, exp : Nat, access : Nat]
Handler(n) == [pc : {"none", "lookup", "store", "exchange", "userinfo"},
               token : 0..n, flow : Flow \cup {0}, to : Flow \cup {0}]
Login == [who : ParentClients, mobile : BOOLEAN, open : BOOLEAN,
          to : Flow \cup {0, Gone}]
Jar == [flow : Flow \cup {0}, until : Nat, back : Flow \cup {0}, backUntil : Nat]

(* SessionsTypeOK, with the sets of records named *)
SessionTypes ==
    /\ dep \in Deployments /\ now \in 0..MaxTime
    /\ tokens \in Seq(Token) /\ Len(tokens) <= MaxTokens
    /\ rows \in Seq(Nat \cup {Gone}) /\ Len(rows) = Len(tokens)
    /\ cl \in [Clients -> 0..Len(tokens)]
    /\ hd \in [Clients -> Handler(Len(tokens))]
    /\ oidc \in {"unset", "asked", "ready", "failed"}
    /\ flows \in Seq(Login) /\ Len(flows) <= MaxFlows
    /\ jar \in [ParentClients -> Jar]
    /\ refused \subseteq (1..Len(tokens)) \X (0..MaxTime)
    /\ restarted \in BOOLEAN

SessionInv == SessionTypes /\ Rows

LEMMA SessionTypesNamed == SessionTypes <=> SessionsTypeOK
BY DEF SessionsTypeOK, SessionTypes, Token, Handler, Login, Jar

LEMMA Lives ==
    /\ \A c \in Clients : Life(c) \in Nat /\ AccessLife(c) \in Nat
    /\ \A d \in Deployments : d.redis \in BOOLEAN
    /\ MaxTime \in Nat /\ MaxTokens \in Nat /\ MaxFlows \in Nat /\ CookieLife \in Nat
BY LifeAssumption, SessionBounds, DeploymentAssumption DEF Life, AccessLife, Deployment

LEMMA InitSessions == SessionsInit => SessionInv
<1> SUFFICES ASSUME SessionsInit PROVE SessionInv
  OBVIOUS
<1>1. SessionTypes
  <2>1. NoHandler \in Handler(0) /\ NoCookies \in Jar
    BY Lives DEF NoHandler, Handler, NoCookies, Jar, Flow
  <2>2. /\ <<>> \in Seq(Token) /\ <<>> \in Seq(Nat \cup {Gone})
        /\ <<>> \in Seq(Login) /\ Len(<<>>) = 0
    OBVIOUS
  <2>3. /\ dep \in Deployments /\ refused = {} /\ restarted = FALSE
        /\ tokens = <<>> /\ rows = <<>> /\ flows = <<>> /\ now = 0
        /\ oidc = Discovery
    BY DEF SessionsInit
  <2>6. oidc \in {"unset", "asked", "ready", "failed"} /\ now \in 0..MaxTime
    BY <2>3, Lives DEF Discovery
  <2>4. cl \in [Clients -> 0..0] /\ hd \in [Clients -> Handler(0)]
    BY <2>1 DEF SessionsInit
  <2>5. jar \in [ParentClients -> Jar]
    BY <2>1 DEF SessionsInit
  <2>7. Len(tokens) = 0 /\ Len(rows) = 0 /\ Len(flows) = 0
    BY <2>2, <2>3
  <2>8. tokens \in Seq(Token) /\ rows \in Seq(Nat \cup {Gone}) /\ flows \in Seq(Login)
    BY <2>2, <2>3
  <2>9. Len(tokens) <= MaxTokens /\ Len(flows) <= MaxFlows /\ Len(rows) = Len(tokens)
    BY <2>7, Lives
  <2>10. /\ cl \in [Clients -> 0..Len(tokens)] /\ hd \in [Clients -> Handler(Len(tokens))]
         /\ refused \subseteq (1..Len(tokens)) \X (0..MaxTime) /\ restarted \in BOOLEAN
    BY <2>3, <2>4, <2>7
  <2> QED BY <2>3, <2>5, <2>6, <2>8, <2>9, <2>10 DEF SessionTypes
<1>2. Rows
  BY DEF SessionsInit, Rows, HeldRows, StoringLater, LooksUpHeld, RefusedOnlyExpired, NoHandler
<1> QED BY <1>1, <1>2 DEF SessionInv

-----------------------------------------------------------------------------
(* Signing a token changes nothing for the tokens that are there *)
LEMMA IssueKeeps ==
    ASSUME SessionInv, NEW c \in Clients, NEW f \in Flow \cup {0}, NEW t \in Flow \cup {0},
           issueTokens(c, f, t),
           UNCHANGED <<dep, now, cl, oidc, flows, jar, refused, restarted>>
    PROVE  SessionInv'
<1> DEFINE n == Len(tokens) + 1
           tok == [who |-> c, exp |-> now + Life(c), access |-> now + AccessLife(c)]
           h == [pc |-> "store", token |-> n, flow |-> f, to |-> t]
<1>t. SessionTypes /\ Rows
  BY DEF SessionInv
<1>1. /\ Len(tokens) < MaxTokens /\ tokens' = Append(tokens, tok)
      /\ rows' = Append(rows, Gone) /\ hd' = [hd EXCEPT ![c] = h]
  BY DEF issueTokens
<1>2. tok \in Token /\ tok.exp = now + Life(c)
  BY <1>t, Lives DEF Token, SessionTypes
<1>3. n \in Nat \ {0} /\ h \in Handler(n) /\ h.pc = "store" /\ h.token = n
  BY <1>t DEF Handler, SessionTypes
<1> HIDE DEF tok, h
<1>4. /\ tokens' \in Seq(Token) /\ Len(tokens') = n /\ n <= MaxTokens
      /\ \A i \in 1..Len(tokens) : tokens'[i] = tokens[i]
      /\ tokens'[n] = tok
  BY <1>t, <1>1, <1>2, Lives DEF SessionTypes
<1>5. /\ rows' \in Seq(Nat \cup {Gone}) /\ Len(rows') = n
      /\ \A i \in 1..Len(tokens) : rows'[i] = rows[i]
  BY <1>t, <1>1 DEF SessionTypes
<1>6. hd' \in [Clients -> Handler(n)]
  <2>1. \A d \in Clients : hd[d] \in Handler(n)
    BY <1>t DEF Handler, SessionTypes
  <2> QED BY <1>1, <1>3, <2>1, <1>t DEF SessionTypes
<1>7. SessionTypes'
  BY <1>t, <1>4, <1>5, <1>6 DEF SessionTypes
<1>8. HeldRows'
  BY <1>t, <1>4, <1>5 DEF Rows, HeldRows, SessionTypes
<1>9. StoringLater'
  <2> SUFFICES ASSUME NEW d \in Clients, hd'[d].pc = "store"
               PROVE  hd'[d].token # 0 /\ tokens'[hd'[d].token].exp <= now + Life(d)
    BY DEF StoringLater
  <2>1. CASE d = c
    BY <2>1, <1>1, <1>2, <1>3, <1>4, <1>t, Lives DEF SessionTypes
  <2>2. CASE d # c
    <3>1. hd'[d] = hd[d] /\ hd[d].token \in 0..Len(tokens)
      BY <2>2, <1>1, <1>t DEF Handler, SessionTypes
    <3>2. hd[d].token # 0 /\ tokens[hd[d].token].exp <= now + Life(d)
      BY <3>1, <1>t DEF Rows, StoringLater
    <3> QED BY <3>1, <3>2, <1>4
  <2> QED BY <2>1, <2>2
<1>10. LooksUpHeld'
  BY <1>t, <1>1, <1>3 DEF Rows, LooksUpHeld, SessionTypes
<1>11. RefusedOnlyExpired'
  BY <1>t, <1>4 DEF Rows, RefusedOnlyExpired, SessionTypes
<1> QED BY <1>7, <1>8, <1>9, <1>10, <1>11 DEF SessionInv, Rows

(* A handler may go on to anything but a lookup or a store, or end *)
LEMMA HandlersKeep ==
    ASSUME SessionInv, UNCHANGED <<dep, tokens, rows, cl, refused, restarted>>,
           now' \in now..MaxTime,
           hd' \in [Clients -> Handler(Len(tokens))],
           \A c \in Clients :
             hd'[c] = hd[c] \/ hd'[c].pc \notin {"lookup", "store"}
               \/ (hd'[c].pc = "lookup" /\ hd'[c].token # 0 /\ hd'[c].token = cl[c]),
           oidc' \in {"unset", "asked", "ready", "failed"},
           flows' \in Seq(Login), Len(flows') <= MaxFlows,
           jar' \in [ParentClients -> Jar]
    PROVE  SessionInv'
<1>t. SessionTypes /\ Rows
  BY DEF SessionInv
<1>1. SessionTypes'
  BY <1>t, Lives DEF SessionTypes
<1>2. HeldRows' /\ LooksUpHeld' /\ RefusedOnlyExpired'
  BY <1>t DEF Rows, HeldRows, LooksUpHeld, RefusedOnlyExpired
<1>3. StoringLater'
  <2> SUFFICES ASSUME NEW d \in Clients, hd'[d].pc = "store"
               PROVE  hd'[d].token # 0 /\ tokens'[hd'[d].token].exp <= now' + Life(d)
    BY DEF StoringLater
  <2>1. hd'[d] = hd[d] /\ hd[d].token \in 0..Len(tokens)
    BY <1>t DEF Handler, SessionTypes
  <2>2. hd[d].token # 0 /\ tokens[hd[d].token].exp <= now + Life(d)
    BY <2>1, <1>t DEF Rows, StoringLater
  <2>3. tokens[hd[d].token] \in Token
    BY <2>1, <2>2, <1>t DEF SessionTypes
  <2>4. tokens[hd[d].token].exp \in Nat
    BY <2>3 DEF Token
  <2> QED BY <2>1, <2>2, <2>4, <1>t, Lives DEF SessionTypes
<1> QED BY <1>1, <1>2, <1>3 DEF SessionInv, Rows

(* A refused token has run out *)
LEMMA RefuseKeeps ==
    ASSUME SessionInv, NEW c \in Clients, Refuse(c), cl[c] # 0,
           now >= tokens[cl[c]].exp \/ restarted,
           UNCHANGED <<dep, now, oidc, flows, jar, restarted>>
    PROVE  SessionInv'
<1>t. SessionTypes /\ Rows
  BY DEF SessionInv
<1>1. /\ refused' = refused \cup {<<cl[c], now>>} /\ cl' = [cl EXCEPT ![c] = 0]
      /\ hd' = [hd EXCEPT ![c] = NoHandler] /\ UNCHANGED <<tokens, rows>>
  BY DEF Refuse
<1>2. NoHandler \in Handler(Len(tokens)) /\ NoHandler.pc = "none"
  BY <1>t, Lives DEF NoHandler, Handler, SessionTypes
<1>3. SessionTypes'
  <2>1. cl[c] \in 1..Len(tokens) /\ 0 \in 0..Len(tokens)
    BY <1>t DEF SessionTypes
  <2> QED BY <2>1, <1>1, <1>2, <1>t DEF SessionTypes
<1>4. HeldRows' /\ StoringLater' /\ LooksUpHeld'
  BY <1>1, <1>2, <1>t DEF Rows, HeldRows, StoringLater, LooksUpHeld, SessionTypes
<1>5. RefusedOnlyExpired'
  BY <1>1, <1>t DEF Rows, RefusedOnlyExpired
<1> QED BY <1>3, <1>4, <1>5 DEF SessionInv, Rows

LEMMA StoreKeeps ==
    ASSUME SessionInv, NEW c \in Clients, StoreRow(c)
    PROVE  SessionInv'
<1> DEFINE i == hd[c].token
<1>t. SessionTypes /\ Rows
  BY DEF SessionInv
<1>1. /\ hd[c].pc = "store" /\ hd' = [hd EXCEPT ![c] = NoHandler]
      /\ rows' = [rows EXCEPT ![i] = now + Life(c)]
      /\ cl' = cl \/ cl' = [cl EXCEPT ![c] = i]
      /\ UNCHANGED <<dep, now, tokens, oidc, refused, restarted>>
  BY DEF StoreRow, RowLife
<1>2. i \in 1..Len(tokens) /\ tokens[i].exp <= now + Life(c)
  BY <1>1, <1>t DEF Rows, StoringLater, Handler, SessionTypes
<1>3. /\ rows' \in Seq(Nat \cup {Gone}) /\ Len(rows') = Len(rows)
      /\ rows'[i] = now + Life(c)
      /\ \A j \in 1..Len(rows) : j # i => rows'[j] = rows[j]
  BY <1>1, <1>2, <1>t, Lives DEF SessionTypes
<1>4. NoHandler \in Handler(Len(tokens)) /\ NoHandler.pc = "none"
  BY <1>t, Lives DEF NoHandler, Handler, SessionTypes
<1>5. flows' \in Seq(Login) /\ Len(flows') <= MaxFlows /\ jar' \in [ParentClients -> Jar]
  <2>1. CASE UNCHANGED <<flows, jar>>
    BY <2>1, <1>t DEF SessionTypes
  <2>2. CASE /\ flows' = [flows EXCEPT ![hd[c].flow].to = hd[c].to]
             /\ jar' = [jar EXCEPT ![c] = IF hd[c].to # 0 THEN NoCookies ELSE @]
    <3>1. NoCookies \in Jar
      BY Lives DEF NoCookies, Jar, Flow
    <3>2. jar' \in [ParentClients -> Jar]
      BY <2>2, <3>1, <1>t DEF SessionTypes
    <3>3. hd[c].to \in Flow \cup {0, Gone}
      BY <1>t DEF Handler, SessionTypes
    <3>4. ASSUME NEW l \in Login PROVE [l EXCEPT !.to = hd[c].to] \in Login
      BY <3>3 DEF Login
    <3> DEFINE k == hd[c].flow
               l == [flows[k] EXCEPT !.to = hd[c].to]
    <3>5. flows' = [flows EXCEPT ![k] = l]
      BY <2>2
    <3>6. k \in 1..Len(flows) => l \in Login
      BY <3>4, <1>t DEF SessionTypes
    <3> HIDE DEF l, k
    <3>7. flows' \in Seq(Login) /\ Len(flows') = Len(flows)
      <4>1. CASE k \in 1..Len(flows)
        BY <4>1, <3>5, <3>6, <1>t DEF SessionTypes
      <4>2. CASE k \notin 1..Len(flows)
        <5>1. flows' \in [1..Len(flows) -> Login]
          <6>1. flows \in [1..Len(flows) -> Login]
            BY <1>t DEF SessionTypes
          <6>2. DOMAIN flows = 1..Len(flows) /\ \A j \in 1..Len(flows) : flows'[j] = flows[j]
            BY <6>1, <4>2, <3>5
          <6>3. flows' = [j \in DOMAIN flows |-> IF j = k THEN l ELSE flows[j]]
            BY <3>5
          <6> QED BY <6>1, <6>2, <6>3
        <5>2. Len(flows) \in Nat
          BY <1>t DEF SessionTypes
        <5> QED BY <5>1, <5>2
      <4> QED BY <4>1, <4>2
    <3> QED BY <3>2, <3>7, <1>t DEF SessionTypes
  <2> QED BY <2>1, <2>2 DEF StoreRow
<1>6. SessionTypes'
  BY <1>1, <1>2, <1>3, <1>4, <1>5, <1>t DEF SessionTypes
<1>7. HeldRows'
  <2> SUFFICES ASSUME ~restarted, NEW d \in Clients, cl'[d] # 0
               PROVE  rows'[cl'[d]] >= tokens[cl'[d]].exp
    BY <1>1 DEF HeldRows
  <2>1. CASE cl'[d] = i
    BY <2>1, <1>2, <1>3, <1>t, Lives DEF Token, SessionTypes
  <2>2. CASE cl'[d] # i
    BY <2>2, <1>1, <1>3, <1>t DEF Rows, HeldRows, SessionTypes
  <2> QED BY <2>1, <2>2
<1>8. StoringLater'
  BY <1>1, <1>4, <1>t DEF Rows, StoringLater, SessionTypes
<1>9. LooksUpHeld'
  BY <1>1, <1>4, <1>t DEF Rows, LooksUpHeld, SessionTypes
<1>10. RefusedOnlyExpired'
  BY <1>1, <1>t DEF Rows, RefusedOnlyExpired
<1> QED BY <1>6, <1>7, <1>8, <1>9, <1>10 DEF SessionInv, Rows

-----------------------------------------------------------------------------
LEMMA RefreshKeeps ==
    ASSUME SessionInv, NEW c \in Clients, BeginRefresh(c) \/ LookUpRow(c)
    PROVE  SessionInv'
<1>t. SessionTypes /\ Rows
  BY DEF SessionInv
<1>1. CASE BeginRefresh(c) /\ ~Live(cl[c])
  <2>1. /\ Refuse(c) /\ cl[c] # 0
        /\ UNCHANGED <<dep, now, oidc, flows, jar, restarted>>
    BY <1>1 DEF BeginRefresh
  <2>2. cl[c] \in 1..Len(tokens)
    BY <2>1, <1>t DEF SessionTypes
  <2>3. tokens[cl[c]] \in Token
    BY <2>2, <1>t DEF SessionTypes
  <2>4. now >= tokens[cl[c]].exp
    BY <1>1, <2>3, <1>t, Lives DEF Live, Token, SessionTypes
  <2> QED BY <2>1, <2>4, RefuseKeeps
<1>2. CASE BeginRefresh(c) /\ Live(cl[c])
  <2> DEFINE h == [NoHandler EXCEPT !.pc = "lookup", !.token = cl[c]]
  <2>1. /\ cl[c] # 0 /\ hd' = [hd EXCEPT ![c] = h]
        /\ UNCHANGED <<dep, now, tokens, rows, cl, oidc, flows, jar, refused, restarted>>
    BY <1>2 DEF BeginRefresh
  <2>2. h \in Handler(Len(tokens)) /\ h.pc = "lookup" /\ h.token = cl[c]
    BY <1>t DEF NoHandler, Handler, SessionTypes
  <2> HIDE DEF h
  <2>3. hd' \in [Clients -> Handler(Len(tokens))]
    BY <2>1, <2>2, <1>t DEF SessionTypes
  <2>4. \A d \in Clients : d # c => hd'[d] = hd[d]
    BY <2>1, <1>t DEF SessionTypes
  <2>5. hd'[c] = h
    BY <2>1, <1>t DEF SessionTypes
  <2>6. now' \in now..MaxTime
    BY <2>1, <1>t, Lives DEF SessionTypes
  <2> QED BY <2>1, <2>2, <2>3, <2>4, <2>5, <2>6, <1>t, HandlersKeep DEF SessionTypes
<1>3. CASE LookUpRow(c) /\ ~RowThere(hd[c].token)
  <2>1. /\ Refuse(c) /\ hd[c].pc = "lookup"
        /\ UNCHANGED <<dep, now, oidc, flows, jar, restarted>>
    BY <1>3 DEF LookUpRow
  <2>2. cl[c] \in 1..Len(tokens) /\ hd[c].token = cl[c]
    BY <2>1, <1>t DEF Rows, LooksUpHeld, SessionTypes
  <2>3. tokens[cl[c]] \in Token /\ rows[cl[c]] \in Nat \cup {Gone}
    BY <2>2, <1>t DEF SessionTypes
  <2>4. tokens[cl[c]].exp \in Nat /\ now \in Nat
    <3>1. tokens[cl[c]].exp \in Nat
      BY <2>3 DEF Token
    <3>2. now \in Nat
      BY <1>t, Lives DEF SessionTypes
    <3> QED BY <3>1, <3>2
  <2>5. ~restarted => rows[cl[c]] >= tokens[cl[c]].exp
    BY <2>2, <1>t DEF Rows, HeldRows
  <2>6. ~restarted => now >= rows[cl[c]]
    BY <1>3, <2>2, <2>3, <2>4, <2>5 DEF RowThere, Gone
  <2>7. ~restarted => now >= tokens[cl[c]].exp
    BY <2>3, <2>4, <2>5, <2>6 DEF Gone
  <2>8. cl[c] # 0
    BY <2>2
  <2> QED BY <2>1, <2>7, <2>8, RefuseKeeps
<1>4. CASE LookUpRow(c) /\ RowThere(hd[c].token)
  BY <1>4, IssueKeeps DEF LookUpRow
<1> QED BY <1>1, <1>2, <1>3, <1>4

LEMMA LoginsKeep ==
    ASSUME SessionInv, NEW c \in Clients, LogsIn(c)
    PROVE  SessionInv'
BY IssueKeeps DEF LogsIn

LEMMA CallbacksKeep ==
    ASSUME SessionInv, NEW p \in ParentClients, handleCallback(p)
    PROVE  SessionInv'
<1>t. SessionTypes /\ Rows /\ p \in Clients
  BY DEF SessionInv, Clients
<1>0. /\ hd[p].pc \in {"exchange", "userinfo"}
      /\ UNCHANGED <<dep, now, cl, oidc, flows, jar, refused, restarted>>
  BY DEF handleCallback
<1>1. CASE issueTokens(p, hd[p].flow, hd[p].to)
  <2>1. hd[p].flow \in Flow \cup {0} /\ hd[p].to \in Flow \cup {0}
    BY <1>t DEF SessionTypes, Handler
  <2> QED BY <1>0, <1>1, <1>t, <2>1, IssueKeeps
<1>2. ASSUME NEW h \in Handler(Len(tokens)), h.pc \notin {"lookup", "store"},
             hd' = [hd EXCEPT ![p] = h], UNCHANGED <<tokens, rows>>
      PROVE  SessionInv'
  <2>1. hd' \in [Clients -> Handler(Len(tokens))]
    BY <1>2, <1>t DEF SessionTypes
  <2>2. /\ \A d \in Clients : d # p => hd'[d] = hd[d]
        /\ hd'[p] = h
    BY <1>2, <1>t DEF SessionTypes
  <2>3. now' \in now..MaxTime
    BY <1>0, <1>t, Lives DEF SessionTypes
  <2> QED BY <1>0, <1>2, <1>t, <2>1, <2>2, <2>3, HandlersKeep DEF SessionTypes
<1>3. CASE hd' = [hd EXCEPT ![p].pc = "userinfo"] /\ UNCHANGED <<tokens, rows>>
  <2> DEFINE h == [hd[p] EXCEPT !.pc = "userinfo"]
  <2>1. h \in Handler(Len(tokens)) /\ h.pc = "userinfo"
    BY <1>t DEF SessionTypes, Handler
  <2> QED BY <1>2, <1>3, <2>1
<1>4. CASE hd' = [hd EXCEPT ![p] = NoHandler] /\ UNCHANGED <<tokens, rows>>
  <2>1. NoHandler \in Handler(Len(tokens)) /\ NoHandler.pc = "none"
    BY <1>t, Lives DEF NoHandler, Handler, SessionTypes
  <2> QED BY <1>2, <1>4, <2>1
<1> QED BY <1>1, <1>3, <1>4 DEF handleCallback

(* OidcLogin, its callbacks, the provider's discovery and the clock *)
LEMMA BrowserKeeps ==
    ASSUME SessionInv,
           \/ Tick \/ initConfig
           \/ \E p \in ParentClients, m \in BOOLEAN : OidcLogin(p, m)
           \/ \E f \in DOMAIN flows : CallbackError(f) \/ CallbackCode(f)
    PROVE  SessionInv'
<1>t. SessionTypes /\ Rows
  BY DEF SessionInv
<1>n. now \in Nat /\ now <= MaxTime /\ now \in now..MaxTime
  BY <1>t, Lives DEF SessionTypes
<1>1. CASE Tick
  <2>1. now' \in now..MaxTime
    BY <1>1, <1>n, Lives DEF Tick
  <2> QED BY <1>1, <1>t, <2>1, HandlersKeep DEF Tick, SessionTypes
<1>2. CASE initConfig
  <2>1. now' \in now..MaxTime /\ oidc' \in {"unset", "asked", "ready", "failed"}
    BY <1>2, <1>n DEF initConfig
  <2> QED BY <1>2, <1>t, <2>1, HandlersKeep DEF initConfig, SessionTypes
<1>3. ASSUME NEW p \in ParentClients, NEW m \in BOOLEAN, OidcLogin(p, m) PROVE SessionInv'
  <2> DEFINE n == Len(flows) + 1
             e == [who |-> p, mobile |-> m, open |-> TRUE, to |-> Gone]
             b == Cookies(p, n, m)
  <2>1. /\ Len(flows) < MaxFlows /\ flows' = Append(flows, e)
        /\ jar' = [jar EXCEPT ![p] = b]
        /\ UNCHANGED <<dep, now, tokens, rows, cl, hd, oidc, refused, restarted>>
    BY <1>3 DEF OidcLogin
  <2>2. e \in Login
    BY DEF Login
  <2>3. n \in Flow
    BY <2>1, <1>t, Lives DEF SessionTypes, Flow
  <2>4. jar[p] \in Jar /\ now + CookieLife \in Nat
    BY <1>n, <1>t, Lives DEF SessionTypes
  <2>5. b \in Jar
    <3> HIDE DEF n
    <3> QED BY <2>3, <2>4 DEF Cookies, Jar
  <2> HIDE DEF e, b
  <2>6. flows' \in Seq(Login) /\ Len(flows') <= MaxFlows
    BY <2>1, <2>2, <1>t, Lives DEF SessionTypes
  <2>7. jar' \in [ParentClients -> Jar]
    BY <2>1, <2>5, <1>t DEF SessionTypes
  <2> QED BY <2>1, <2>6, <2>7, <1>n, <1>t, HandlersKeep DEF SessionTypes
<1>4. ASSUME NEW f \in DOMAIN flows, CallbackError(f) \/ CallbackCode(f) PROVE SessionInv'
  <2> DEFINE p == flows[f].who
             e == [flows[f] EXCEPT !.open = FALSE]
  <2>1. /\ flows' = [flows EXCEPT ![f] = e] /\ hd[p].pc = "none"
        /\ UNCHANGED <<dep, now, tokens, rows, cl, oidc, refused, restarted>>
    BY <1>4 DEF CallbackError, CallbackCode, ComesBack, Idle
  <2>2. f \in 1..Len(flows) /\ flows[f] \in Login /\ f \in Flow
    BY <1>t, Lives DEF SessionTypes, Flow
  <2>3. e \in Login /\ p \in ParentClients /\ p \in Clients
    BY <2>2 DEF Login, Clients
  <2> HIDE DEF e, p
  <2>4. flows' \in Seq(Login) /\ Len(flows') <= MaxFlows
    BY <2>1, <2>2, <2>3, <1>t DEF SessionTypes
  <2>5. jar[p] \in Jar
    BY <2>3, <1>t DEF SessionTypes
  <2>6. jar' \in [ParentClients -> Jar]
    <3>1. CASE CallbackError(f)
      <4>1. [jar[p] EXCEPT !.back = 0] \in Jar
        BY <2>5 DEF Jar
      <4>2. jar' = [jar EXCEPT ![p] = IF Back(p) # 0 THEN [jar[p] EXCEPT !.back = 0]
                                                     ELSE jar[p]]
        BY <3>1 DEF CallbackError, p
      <4> QED BY <4>1, <4>2, <2>3, <2>5, <1>t DEF SessionTypes
    <3>2. CASE CallbackCode(f)
      BY <3>2, <1>t DEF CallbackCode, SessionTypes
    <3> QED BY <1>4, <3>1, <3>2
  <2>7. ASSUME NEW h \in Handler(Len(tokens)), h.pc \notin {"lookup", "store"},
               hd' = [hd EXCEPT ![p] = h]
        PROVE  SessionInv'
    <3>1. hd' \in [Clients -> Handler(Len(tokens))]
      BY <2>7, <1>t DEF SessionTypes
    <3>2. /\ \A d \in Clients : d # p => hd'[d] = hd[d]
          /\ hd'[p] = h
      BY <2>3, <2>7, <1>t DEF SessionTypes
    <3> QED BY <2>1, <2>4, <2>6, <2>7, <1>n, <1>t, <3>1, <3>2, HandlersKeep DEF SessionTypes
  <2>8. CASE hd' = hd
    BY <2>1, <2>4, <2>6, <2>8, <1>n, <1>t, HandlersKeep DEF SessionTypes
  <2>9. CASE hd' # hd
    <3> DEFINE h == [pc |-> "exchange", token |-> 0, flow |-> f, to |-> Back(p)]
    <3>1. hd' = [hd EXCEPT ![p] = h]
      BY <1>4, <2>9 DEF CallbackError, CallbackCode, p
    <3>2. Back(p) \in Flow \cup {0}
      BY <2>5 DEF Back, Jar
    <3>3. h \in Handler(Len(tokens)) /\ h.pc = "exchange"
      BY <2>2, <3>2, <1>t DEF Handler, SessionTypes
    <3> QED BY <2>7, <3>1, <3>3
  <2> QED BY <2>8, <2>9
<1> QED BY <1>1, <1>2, <1>3, <1>4

LEMMA RestartKeeps ==
    ASSUME SessionInv, NEW clients, Restart(clients)
    PROVE  SessionInv'
<1>t. SessionTypes /\ Rows
  BY DEF SessionInv
<1>n. now \in now..MaxTime
  BY <1>t, Lives DEF SessionTypes
<1>1. /\ hd' = [c \in Clients |-> IF c \in clients THEN NoHandler ELSE hd[c]]
      /\ oidc' \in {"unset", "asked", "ready", "failed"}
      /\ UNCHANGED <<dep, now, tokens, cl, flows, jar, refused>>
  BY <1>t DEF Restart, Discovery, SessionTypes
<1>2. NoHandler \in Handler(Len(tokens)) /\ NoHandler.pc = "none"
  BY <1>t, Lives DEF NoHandler, Handler, SessionTypes
<1>3. /\ hd' \in [Clients -> Handler(Len(tokens))]
      /\ \A c \in Clients : hd'[c] = hd[c] \/ hd'[c].pc \notin {"lookup", "store"}
  BY <1>1, <1>2, <1>t DEF SessionTypes
<1>4. CASE dep.redis
  <2>1. UNCHANGED <<rows, restarted>>
    BY <1>4 DEF Restart
  <2> QED BY <1>1, <1>3, <1>n, <1>t, <2>1, HandlersKeep DEF SessionTypes
<1>5. CASE ~dep.redis
  <2> DEFINE left(i) == IF tokens[i].who \in clients THEN Gone ELSE rows[i]
  <2>1. rows' = [i \in DOMAIN rows |-> left(i)] /\ restarted' = TRUE
    BY <1>5 DEF Restart
  <2>2. /\ DOMAIN rows = 1..Len(rows) /\ Len(rows) \in Nat
        /\ \A i \in 1..Len(rows) : left(i) \in Nat \cup {Gone}
    BY <1>t DEF SessionTypes
  <2> HIDE DEF left
  <2>3. rows' \in [1..Len(rows) -> Nat \cup {Gone}]
    BY <2>1, <2>2
  <2>4. rows' \in Seq(Nat \cup {Gone}) /\ Len(rows') = Len(rows)
    BY <2>2, <2>3
  <2>5. SessionTypes'
    BY <1>1, <1>3, <1>t, <2>1, <2>4 DEF SessionTypes
  <2>6. HeldRows' /\ RefusedOnlyExpired'
    BY <2>1 DEF HeldRows, RefusedOnlyExpired
  <2>7. StoringLater' /\ LooksUpHeld'
    BY <1>1, <1>3, <1>2, <1>t DEF Rows, StoringLater, LooksUpHeld
  <2> QED BY <2>5, <2>6, <2>7 DEF SessionInv, Rows
<1> QED BY <1>4, <1>5

-----------------------------------------------------------------------------
LEMMA NextSessions == SessionInv /\ [SessionsNext]_avars => SessionInv'
<1> SUFFICES ASSUME SessionInv, [SessionsNext]_avars PROVE SessionInv'
  OBVIOUS
<1>1. CASE \E c \in Clients : BeginRefresh(c) \/ LookUpRow(c) \/ StoreRow(c)
  BY <1>1, RefreshKeeps, StoreKeeps
<1>2. CASE \/ \E d \in DeviceClients : DeviceLogsIn(d)
           \/ \E p \in ParentClients : ParentLogsIn(p)
  BY <1>2, LoginsKeep DEF DeviceLogsIn, ParentLogsIn, Clients
<1>3. CASE \E p \in ParentClients : handleCallback(p)
  BY <1>3, CallbacksKeep
<1>4. CASE \/ Tick \/ initConfig
           \/ \E p \in ParentClients, m \in BOOLEAN : OidcLogin(p, m)
           \/ \E f \in DOMAIN flows : CallbackError(f) \/ CallbackCode(f)
  BY <1>4, BrowserKeeps
<1>5. CASE Restart(DeviceClients) \/ Restart(ParentClients)
  BY <1>5, RestartKeeps
<1>6. CASE UNCHANGED avars
  BY <1>6 DEF avars, SessionInv, SessionTypes, Rows, HeldRows, StoringLater, LooksUpHeld, RefusedOnlyExpired
<1> QED BY <1>1, <1>2, <1>3, <1>4, <1>5, <1>6 DEF SessionsNext

LEMMA SessionInvariance == SessionsSpec => []SessionInv
BY InitSessions, NextSessions, PTL DEF SessionsSpec

(* Tokens, rows, requests, logins and cookies keep their types, however    *)
(* requests, restarts and logins at the provider interleave.               *)
THEOREM SessionTypesCorrect == SessionsSpec => []SessionsTypeOK
<1>1. SessionInv => SessionsTypeOK
  BY SessionTypesNamed DEF SessionInv
<1> QED BY <1>1, SessionInvariance, PTL

(* Whatever the lifetimes: a refresh token is refused only once its own    *)
(* lifetime is over, unless a server that keeps rows in memory restarted.  *)
THEOREM StaysLoggedIn == SessionsSpec => []RefusedOnlyExpired
<1>1. SessionInv => RefusedOnlyExpired
  BY DEF SessionInv, Rows
<1> QED BY <1>1, SessionInvariance, PTL

-----------------------------------------------------------------------------
(***************************************************************************)
(* Logins at the provider.  A browser whose login cookie is of an app's    *)
(* login has a redirect cookie of the same login or none (JarsFit), and a  *)
(* callback past the cookie check is bound for the app that began its      *)
(* login or for the page (CallbacksFit).                                   *)
(***************************************************************************)
Fits(fl, f, to) == f # 0 => f \in DOMAIN fl /\ (fl[f].mobile => to \in {0, f})
JarsFit == \A p \in ParentClients : Fits(flows, jar[p].flow, jar[p].back)
CallbacksFit == \A c \in Clients : Fits(flows, hd[c].flow, hd[c].to)

AtHome == JarsFit /\ CallbacksFit /\ MobileEndsAtHome

(* A step that keeps the logins, but for opening new ones and closing      *)
(* them, and gives no client another login's cookies                       *)
LEMMA LoginsFit ==
    ASSUME SessionInv, AtHome, SessionInv',
           DOMAIN flows \subseteq DOMAIN flows',
           \A f \in DOMAIN flows : flows'[f].mobile = flows[f].mobile /\ flows'[f].to = flows[f].to,
           \A f \in DOMAIN flows' : f \in DOMAIN flows \/ flows'[f].to = Gone,
           \A p \in ParentClients :
             \/ jar'[p].flow = jar[p].flow /\ jar'[p].back \in {0, jar[p].back}
             \/ Fits(flows', jar'[p].flow, jar'[p].back),
           \A c \in Clients :
             \/ hd'[c].flow = 0
             \/ hd'[c].flow = hd[c].flow /\ hd'[c].to = hd[c].to
             \/ Fits(flows', hd'[c].flow, hd'[c].to)
    PROVE  AtHome'
<1>1. JarsFit'
  BY DEF AtHome, JarsFit, Fits
<1>2. CallbacksFit'
  BY DEF AtHome, CallbacksFit, Fits
<1>3. MobileEndsAtHome'
  BY DEF AtHome, MobileEndsAtHome
<1> QED BY <1>1, <1>2, <1>3 DEF AtHome

LEMMA IssueFits ==
    ASSUME SessionInv, AtHome, SessionInv', NEW c \in Clients, NEW f, NEW t,
           issueTokens(c, f, t), Fits(flows, f, t), UNCHANGED <<flows, jar>>
    PROVE  AtHome'
<1> DEFINE h == [pc |-> "store", token |-> Len(tokens) + 1, flow |-> f, to |-> t]
<1>1. hd' = [hd EXCEPT ![c] = h] /\ h.flow = f /\ h.to = t
  BY DEF issueTokens
<1> HIDE DEF h
<1>2. hd'[c] = h /\ \A d \in Clients : d # c => hd'[d] = hd[d]
  BY <1>1 DEF SessionInv, SessionTypes
<1>3. Fits(flows', hd'[c].flow, hd'[c].to)
  BY <1>1, <1>2 DEF Fits
<1>4. \A f0 \in DOMAIN flows' : f0 \in DOMAIN flows
  OBVIOUS
<1> QED BY <1>2, <1>3, <1>4, LoginsFit

(* Requests that are refused, end or go on keep the login they are for     *)
LEMMA HandlerFits ==
    ASSUME SessionInv, AtHome, SessionInv', UNCHANGED <<flows, jar>>,
           \A c \in Clients : \/ hd'[c].flow = 0
                              \/ hd'[c].flow = hd[c].flow /\ hd'[c].to = hd[c].to
    PROVE  AtHome'
BY LoginsFit

LEMMA StoreFits ==
    ASSUME SessionInv, AtHome, SessionInv', NEW c \in Clients, StoreRow(c)
    PROVE  AtHome'
<1> DEFINE f == hd[c].flow
           t == hd[c].to
<1>1. /\ hd' = [hd EXCEPT ![c] = NoHandler]
      /\ \/ UNCHANGED <<flows, jar>>
         \/ /\ f # 0
            /\ flows' = [flows EXCEPT ![f].to = t]
            /\ jar' = [jar EXCEPT ![c] = IF t # 0 THEN NoCookies ELSE @]
  BY DEF StoreRow
<1>2. \A d \in Clients : hd'[d].flow = 0 \/ hd'[d] = hd[d]
  BY <1>1 DEF NoHandler, SessionInv, SessionTypes
<1>3. CASE UNCHANGED <<flows, jar>>
  BY <1>2, <1>3, HandlerFits
<1>4. CASE /\ f # 0
           /\ flows' = [flows EXCEPT ![f].to = t]
           /\ jar' = [jar EXCEPT ![c] = IF t # 0 THEN NoCookies ELSE @]
  <2>1. f \in DOMAIN flows /\ (flows[f].mobile => t \in {0, f})
    BY <1>4 DEF AtHome, CallbacksFit, Fits
  <2>2. /\ DOMAIN flows' = DOMAIN flows
        /\ \A g \in DOMAIN flows : flows[g] \in Login
        /\ \A g \in DOMAIN flows : g # f => flows'[g] = flows[g]
        /\ flows'[f] = [flows[f] EXCEPT !.to = t]
    BY <1>4, <2>1 DEF SessionInv, SessionTypes
  <2>3. flows'[f].mobile = flows[f].mobile /\ flows'[f].to = t
    BY <2>1, <2>2 DEF Login
  <2>4. JarsFit'
    <3> DEFINE e == IF t # 0 THEN NoCookies ELSE jar[c]
    <3>1. jar' = [jar EXCEPT ![c] = e] /\ (e = NoCookies \/ e = jar[c])
      BY <1>4
    <3> HIDE DEF e
    <3>2. \A p \in ParentClients : jar'[p] = jar[p] \/ jar'[p] = NoCookies
      BY <3>1 DEF SessionInv, SessionTypes
    <3>3. \A g \in DOMAIN flows : flows'[g].mobile = flows[g].mobile
      BY <2>2, <2>3
    <3>4. NoCookies.flow = 0
      BY DEF NoCookies
    <3> SUFFICES ASSUME NEW p \in ParentClients
                 PROVE  Fits(flows', jar'[p].flow, jar'[p].back)
      BY DEF JarsFit
    <3>5. Fits(flows, jar[p].flow, jar[p].back)
      BY DEF AtHome, JarsFit
    <3> QED BY <2>2, <3>2, <3>3, <3>4, <3>5 DEF Fits
  <2>5. CallbacksFit'
    <3>1. \A g \in DOMAIN flows : flows'[g].mobile = flows[g].mobile
      BY <2>2, <2>3
    <3> SUFFICES ASSUME NEW d \in Clients PROVE Fits(flows', hd'[d].flow, hd'[d].to)
      BY DEF CallbacksFit
    <3>2. Fits(flows, hd[d].flow, hd[d].to)
      BY DEF AtHome, CallbacksFit
    <3> QED BY <1>2, <2>2, <3>1, <3>2 DEF Fits
  <2>6. MobileEndsAtHome'
    BY <2>1, <2>2, <2>3 DEF AtHome, MobileEndsAtHome
  <2> QED BY <2>4, <2>5, <2>6 DEF AtHome
<1> QED BY <1>1, <1>3, <1>4

(* An app's login writes both cookies, a page's one of them *)
LEMMA LoginFits ==
    ASSUME SessionInv, AtHome, SessionInv', NEW p \in ParentClients, NEW m \in BOOLEAN, OidcLogin(p, m)
    PROVE  AtHome'
<1> DEFINE n == Len(flows) + 1
           e == [who |-> p, mobile |-> m, open |-> TRUE, to |-> Gone]
           b == Cookies(p, n, m)
<1>1. flows' = Append(flows, e) /\ jar' = [jar EXCEPT ![p] = b] /\ UNCHANGED hd
  BY DEF OidcLogin
<1>2. b.flow = n /\ (m => b.back = n)
  BY DEF Cookies
<1>3. e.mobile = m /\ e.to = Gone
  OBVIOUS
<1>4. e \in Login
  BY DEF Login
<1> HIDE DEF e, b
<1>5. /\ DOMAIN flows' = DOMAIN flows \cup {n} /\ flows'[n] = e
      /\ \A f \in DOMAIN flows : flows'[f] = flows[f]
  BY <1>1, <1>4 DEF SessionInv, SessionTypes
<1>6. jar'[p] = b /\ \A q \in ParentClients : q # p => jar'[q] = jar[q]
  BY <1>1 DEF SessionInv, SessionTypes
<1>7. Fits(flows', jar'[p].flow, jar'[p].back)
  BY <1>2, <1>3, <1>5, <1>6 DEF Fits
<1> QED BY <1>1, <1>3, <1>5, <1>6, <1>7, LoginsFit

(* A callback takes the app's address from the cookie, and goes on only    *)
(* with the login whose cookies the browser has                            *)
LEMMA CallbackFits ==
    ASSUME SessionInv, AtHome, SessionInv', NEW f \in DOMAIN flows, CallbackError(f) \/ CallbackCode(f)
    PROVE  AtHome'
<1> DEFINE p == flows[f].who
           e == [flows[f] EXCEPT !.open = FALSE]
<1>1. flows[f] \in Login /\ f # 0
  BY DEF SessionInv, SessionTypes
<1>2. p \in ParentClients /\ p \in Clients /\ e.mobile = flows[f].mobile /\ e.to = flows[f].to
  BY <1>1 DEF Login, Clients
<1>3. flows' = [flows EXCEPT ![f] = e]
  BY DEF CallbackError, CallbackCode, ComesBack
<1> HIDE DEF e
<1>4. /\ DOMAIN flows' = DOMAIN flows
      /\ \A g \in DOMAIN flows : flows'[g].mobile = flows[g].mobile /\ flows'[g].to = flows[g].to
  BY <1>2, <1>3 DEF SessionInv, SessionTypes
<1>5. jar[p] \in Jar
  BY <1>2 DEF SessionInv, SessionTypes
<1>6. CASE CallbackError(f)
  <2>1. /\ UNCHANGED hd
        /\ jar' = [jar EXCEPT ![p] = IF Back(p) # 0 THEN [@ EXCEPT !.back = 0] ELSE @]
    BY <1>6 DEF CallbackError
  <2>2. /\ \A q \in ParentClients : q # p => jar'[q] = jar[q]
        /\ jar'[p] = jar[p] \/ jar'[p] = [jar[p] EXCEPT !.back = 0]
    BY <2>1, <1>2 DEF SessionInv, SessionTypes
  <2>3. jar'[p].flow = jar[p].flow /\ jar'[p].back \in {0, jar[p].back}
    BY <2>2, <1>5 DEF Jar
  <2> QED BY <2>1, <2>2, <2>3, <1>4, LoginsFit
<1>7. CASE CallbackCode(f) /\ CodeFits(f)
  <2> DEFINE h == [pc |-> "exchange", token |-> 0, flow |-> f, to |-> Back(p)]
  <2>1. UNCHANGED jar /\ hd' = [hd EXCEPT ![p] = h] /\ h.flow = f /\ h.to = Back(p)
    BY <1>7 DEF CallbackCode
  <2> HIDE DEF h
  <2>2. hd'[p] = h /\ \A d \in Clients : d # p => hd'[d] = hd[d]
    BY <2>1, <1>2 DEF SessionInv, SessionTypes
  <2>3. jar[p].flow = f
    BY <1>7, <1>1 DEF CodeFits, Session
  <2>4. flows[f].mobile => Back(p) \in {0, f}
    BY <2>3, <1>1, <1>2 DEF AtHome, JarsFit, Fits, Back
  <2>5. Fits(flows', hd'[p].flow, hd'[p].to)
    BY <2>1, <2>2, <2>4, <1>4 DEF Fits
  <2> QED BY <2>1, <2>2, <2>5, <1>4, LoginsFit
<1>8. CASE CallbackCode(f) /\ ~CodeFits(f)
  <2>1. UNCHANGED <<hd, jar>>
    BY <1>8 DEF CallbackCode
  <2> QED BY <2>1, <1>4, LoginsFit
<1> QED BY <1>6, <1>7, <1>8

LEMMA InitAtHome == SessionsInit => AtHome
<1> SUFFICES ASSUME SessionsInit PROVE AtHome
  OBVIOUS
<1>1. /\ \A p \in ParentClients : jar[p].flow = 0
      /\ \A c \in Clients : hd[c].flow = 0
      /\ DOMAIN flows = {}
  BY DEF SessionsInit, NoCookies, NoHandler
<1> QED BY <1>1 DEF AtHome, JarsFit, CallbacksFit, Fits, MobileEndsAtHome

LEMMA NextAtHome == SessionInv /\ SessionInv' /\ AtHome /\ [SessionsNext]_avars => AtHome'
<1> SUFFICES ASSUME SessionInv, SessionInv', AtHome, [SessionsNext]_avars PROVE AtHome'
  OBVIOUS
<1>h. hd \in [Clients -> Handler(Len(tokens))]
  BY DEF SessionInv, SessionTypes
<1>f. Fits(flows, 0, 0)
  BY DEF Fits
<1>1. ASSUME NEW c \in Clients, BeginRefresh(c) \/ LookUpRow(c) PROVE AtHome'
  <2>1. CASE issueTokens(c, 0, 0) /\ UNCHANGED <<flows, jar>>
    BY <2>1, <1>f, IssueFits
  <2>2. CASE Refuse(c) /\ UNCHANGED <<flows, jar>>
    <3>1. \A d \in Clients : hd'[d].flow = 0 \/ hd'[d] = hd[d]
      BY <2>2, <1>h DEF Refuse, NoHandler
    <3> QED BY <2>2, <3>1, HandlerFits
  <2>3. CASE /\ hd' = [hd EXCEPT ![c] = [NoHandler EXCEPT !.pc = "lookup", !.token = cl[c]]]
             /\ UNCHANGED <<flows, jar>>
    <3>1. \A d \in Clients : hd'[d].flow = 0 \/ hd'[d] = hd[d]
      BY <2>3, <1>h DEF NoHandler
    <3> QED BY <2>3, <3>1, HandlerFits
  <2> QED BY <1>1, <2>1, <2>2, <2>3 DEF BeginRefresh, LookUpRow
<1>2. ASSUME NEW c \in Clients, StoreRow(c) PROVE AtHome'
  BY <1>2, StoreFits
<1>3. ASSUME NEW c \in Clients, LogsIn(c) PROVE AtHome'
  BY <1>3, <1>f, IssueFits DEF LogsIn
<1>4. ASSUME NEW p \in ParentClients, handleCallback(p) PROVE AtHome'
  <2>1. p \in Clients /\ Fits(flows, hd[p].flow, hd[p].to) /\ UNCHANGED <<flows, jar>>
    BY <1>4 DEF Clients, AtHome, CallbacksFit, handleCallback
  <2>2. CASE issueTokens(p, hd[p].flow, hd[p].to)
    BY <2>1, <2>2, IssueFits
  <2>3. CASE hd' = [hd EXCEPT ![p].pc = "userinfo"]
    <3>1. hd'[p] = [hd[p] EXCEPT !.pc = "userinfo"] /\ hd[p] \in Handler(Len(tokens))
      BY <2>1, <2>3, <1>h
    <3>2. hd'[p].flow = hd[p].flow /\ hd'[p].to = hd[p].to
      BY <3>1 DEF Handler
    <3>3. \A d \in Clients : d # p => hd'[d] = hd[d]
      BY <2>3, <1>h
    <3> QED BY <2>1, <3>2, <3>3, HandlerFits
  <2>4. CASE hd' = [hd EXCEPT ![p] = NoHandler]
    <3>1. \A d \in Clients : hd'[d].flow = 0 \/ hd'[d] = hd[d]
      BY <2>4, <1>h DEF NoHandler
    <3> QED BY <2>1, <3>1, HandlerFits
  <2> QED BY <1>4, <2>2, <2>3, <2>4 DEF handleCallback
<1>5. ASSUME NEW clients, Restart(clients) PROVE AtHome'
  <2>1. /\ \A d \in Clients : hd'[d].flow = 0 \/ hd'[d] = hd[d]
        /\ UNCHANGED <<flows, jar>>
    BY <1>5 DEF Restart, NoHandler
  <2> QED BY <2>1, HandlerFits
<1>6. CASE Tick \/ initConfig \/ UNCHANGED avars
  <2>1. UNCHANGED <<flows, jar, hd>>
    BY <1>6 DEF Tick, initConfig, avars
  <2> QED BY <2>1, HandlerFits
<1>7. ASSUME NEW p \in ParentClients, NEW m \in BOOLEAN, OidcLogin(p, m) PROVE AtHome'
  BY <1>7, LoginFits
<1>8. ASSUME NEW f \in DOMAIN flows, CallbackError(f) \/ CallbackCode(f) PROVE AtHome'
  BY <1>8, CallbackFits
<1>9. \A d \in DeviceClients : DeviceLogsIn(d) => d \in Clients /\ LogsIn(d)
  BY DEF DeviceLogsIn, Clients
<1>10. \A p \in ParentClients : ParentLogsIn(p) => p \in Clients /\ LogsIn(p)
  BY DEF ParentLogsIn, Clients
<1> QED BY <1>1, <1>2, <1>3, <1>4, <1>5, <1>6, <1>7, <1>8, <1>9, <1>10 DEF SessionsNext

(* However logins in several tabs and apps overlap, fail or expire: the    *)
(* tokens of a login an app began never go to another app.                 *)
THEOREM AppsGetTheirOwn == SessionsSpec => []MobileEndsAtHome
<1>1. SessionsInit => SessionInv /\ AtHome
  BY InitSessions, InitAtHome
<1>2. SessionInv /\ AtHome /\ [SessionsNext]_avars => SessionInv' /\ AtHome'
  BY NextSessions, NextAtHome
<1>3. AtHome => MobileEndsAtHome
  BY DEF AtHome
<1> QED BY <1>1, <1>2, <1>3, PTL DEF SessionsSpec

-----------------------------------------------------------------------------
(* Households and sessions together, each moving while the other rests,    *)
(* keep the types of both.                                                 *)
THEOREM HomeTypesCorrect == Spec => []TypeOK
<1>1. Spec => HouseholdSpec /\ SessionsSpec
  <2>1. Init => HouseholdInit /\ SessionsInit
    BY DEF Init
  <2>2. [Next]_<<hvars, avars>> => [HouseholdNext]_hvars /\ [SessionsNext]_avars
    BY DEF Next
  <2> QED BY <2>1, <2>2, PTL DEF Spec, HouseholdSpec, SessionsSpec
<1>2. HouseholdTypeOK /\ SessionsTypeOK => TypeOK
  BY DEF TypeOK
<1> QED BY <1>1, <1>2, HouseholdTypesCorrect, SessionTypesCorrect, PTL
=============================================================================
