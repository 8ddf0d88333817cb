------------------------------ MODULE TaskPool ------------------------------
(***************************************************************************)
(* What a bounded background queue promises: every task moves along        *)
(* new -> waiting -> executing -> finished or is refused, one step may     *)
(* move several tasks (a slot freed is a slot refilled), no more than      *)
(* Slots execute at once, and once the pool is shut none is accepted or    *)
(* begun.                                                                  *)
(***************************************************************************)
EXTENDS Naturals, FiniteSets

CONSTANTS Tasks, Slots

VARIABLES status, open

Statuses == {"new", "waiting", "executing", "finished", "refused"}

Moves ==
    {<<"executing", "finished">>}
      \cup (IF open
            THEN {<<"new", "waiting">>, <<"new", "executing">>,
                  <<"waiting", "executing">>}
            ELSE {<<"new", "refused">>})

Init ==
    /\ status = [t \in Tasks |-> "new"]
    /\ open = TRUE

Advance ==
    /\ status' \in [Tasks -> Statuses]
    /\ \A t \in Tasks :
         status'[t] = status[t] \/ <<status[t], status'[t]>> \in Moves
    /\ Cardinality({t \in Tasks : status'[t] = "executing"}) <= Slots
    /\ UNCHANGED open

Shut ==
    /\ open
    /\ open' = FALSE
    /\ UNCHANGED status

Next == Advance \/ Shut

Spec == Init /\ [][Next]_<<status, open>>
=============================================================================
