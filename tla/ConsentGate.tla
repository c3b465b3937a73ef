---------------------------- MODULE ConsentGate -----------------------------
(***************************************************************************)
(* What an activation promises, whichever surface asks (spec 8.1): the plan *)
(* is judged as a whole, then the user answers, then resources are opened,  *)
(* one after the other in plan order, and only those that need no answer    *)
(* or got a yes. What was refused stays closed whatever the answer is.      *)
(***************************************************************************)
EXTENDS Naturals

CONSTANT Positions    \* positions a plan may have

VARIABLES
    stage,       \* "judging", "asking" or "opening"
    free,        \* positions that need no answer
    refused,     \* positions that are not to be opened
    yes,         \* positions the user said yes to
    tried        \* positions a launch was tried for

vars == <<stage, free, refused, yes, tried>>

Init ==
    /\ stage = "judging"
    /\ free = {}
    /\ refused = {}
    /\ yes = {}
    /\ tried = {}

Judge ==
    /\ stage = "judging"
    /\ stage' = "asking"
    /\ free' \in SUBSET Positions
    /\ refused' \in SUBSET (Positions \ free')
    /\ UNCHANGED <<yes, tried>>

Answer ==
    /\ stage = "asking"
    /\ stage' = "opening"
    /\ yes' \in SUBSET Positions
    /\ UNCHANGED <<free, refused, tried>>

Open(p) ==
    /\ stage = "opening"
    /\ p \in (free \cup yes) \ refused
    /\ \A q \in tried : q < p
    /\ tried' = tried \cup {p}
    /\ UNCHANGED <<stage, free, refused, yes>>

Next == Judge \/ Answer \/ \E p \in Positions : Open(p)

Spec == Init /\ [][Next]_vars
=============================================================================
