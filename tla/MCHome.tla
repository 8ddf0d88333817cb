------------------------------- MODULE MCHome -------------------------------
(***************************************************************************)
(* What a parent's app meets: the household at parent-bff, and the         *)
(* sessions of parents and devices.  The two share no variable: each is    *)
(* explored with the other at rest, in its default setting, instead of in  *)
(* their product.                                                          *)
(***************************************************************************)
EXTENDS Household, Sessions

CONSTANTS p1, p2, p3, d1, d2, j1, m1, k1

Bind(d) == [op |-> "bind", on |-> d]
Unbind(d) == [op |-> "unbind", on |-> d]
Say(op, to) == [op |-> op, on |-> j1, tell |-> to]
Patch(gate, careful) == [op |-> "patch", on |-> gate, careful |-> careful]
Wants(a, b, c) == [p \in Apps |-> IF p = p1 THEN a ELSE IF p = p2 THEN b ELSE c]

(* three patches; patches and a bind; bind and unbind of one device, once  *)
(* and twice; decisions on one job                                         *)
Families ==
    {Wants(Patch(TRUE, TRUE), Patch(FALSE, TRUE), Patch(TRUE, FALSE)),
     Wants(Patch(TRUE, TRUE), Patch(FALSE, FALSE), Bind(d1)),
     Wants(Bind(d1), Unbind(d1), Bind(d2)),
     Wants(Bind(d1), Unbind(d1), Unbind(d1)),
     Wants(Say("approve", {d1}), Say("reject", {d1}), Say("approve", {}))}
SomeHomes ==
    [redis : BOOLEAN, mqtt : {TRUE}, wants : Families]
      \cup [redis : {TRUE}, mqtt : {FALSE}, wants : Families]

Deployed(redis, env, file, trust, allow, all, issuer) ==
    [redis |-> redis, env |-> env, file |-> file, trust |-> trust,
     allow |-> allow, all |-> all, issuer |-> issuer]
(* both backends, with a provider or without; each way in for a device     *)
SomeDeployments ==
    {Deployed(redis, {k1}, {}, FALSE, {}, FALSE, issuer) : redis, issuer \in BOOLEAN}
      \cup {Deployed(TRUE, {}, {k1}, trust, {}, TRUE, FALSE) : trust \in BOOLEAN}
      \cup {Deployed(TRUE, {}, {}, TRUE, allow, TRUE, FALSE) : allow \in SUBSET {k1}}

DefaultHome == home = [redis |-> FALSE, mqtt |-> TRUE,
                       wants |-> Wants(Bind(d1), Unbind(d1), Unbind(d1))]
DefaultDeployment == dep = Deployed(FALSE, {k1}, {}, FALSE, {}, FALSE, FALSE)

HouseholdRests == DefaultHome /\ \A a \in Apps : app[a].phase = "ask" /\ misses = 0
SessionsRest == DefaultDeployment /\ now = 0 /\ tokens = <<>> /\ ~restarted

(* The clients of one server at a time: nothing but the clock connects     *)
(* them.  Logins at the provider are explored apart from refreshing.       *)
Unused(clients) == \A i \in DOMAIN tokens : tokens[i].who \notin clients
OneSide ==
    \/ Unused(DeviceClients)' /\ oidc' = "unset"
    \/ Unused(ParentClients)' /\ oidc' = "unset"
    \/ /\ Unused(DeviceClients)' /\ dep.issuer
       /\ \A p \in ParentClients : hd'[p].pc = "store" => hd'[p].flow # 0

Init == HouseholdInit /\ SessionsInit /\ (DefaultHome \/ DefaultDeployment)

Next ==
    \/ SessionsRest /\ HouseholdNext /\ UNCHANGED avars
    \/ HouseholdRests /\ SessionsNext /\ OneSide /\ UNCHANGED hvars

Spec == Init /\ [][Next]_<<hvars, avars>>

TypeOK == HouseholdTypeOK /\ SessionsTypeOK
=============================================================================
