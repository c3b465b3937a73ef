----------------------------- MODULE Activation -----------------------------
(***************************************************************************)
(* One activation, from a resolved plan to its report: `apply_policy`       *)
(* (resolver.rs), the consent of the daemon (consent_ui.rs, dialog_ui.rs,    *)
(* terminal_ui.rs) or of the command line (murl-cli, consent.rs), and       *)
(* `execute` (dispatch.rs).                                                *)
(*                                                                         *)
(* `ticked` is what the user meant to say yes to; the code only sees what   *)
(* the surface returns. The handlers, the file system and the programs      *)
(* launched are the environment: what a dispatch meets is any outcome that  *)
(* its code path can return.                                               *)
(***************************************************************************)
EXTENDS Policy, Sequences, FiniteSets

CONSTANTS
    Ids,            \* ids of resources, unique in one manifest and not in a plan
    Plans,          \* the plans that may be activated
    MaxResources,   \* Limits::max_total_resources, the most a plan holds
    PolicySet,      \* the policies that may be configured
    Requests        \* the surfaces and options of an activation

SurfaceKinds == {"dialog", "terminal", "denyAll", "prompt", "noTty"}
DaemonSurfaces == {"dialog", "terminal", "denyAll"}
Flags == {"yes", "allowSensitive", "allowDangerous"}

Planned ==
    [id : Ids, anchor : Ids, required : BOOLEAN, kind : Kinds, executable : BOOLEAN,
     trusted : BOOLEAN, window : {"valid", "expired", "premature"}, remote : BOOLEAN]

ASSUME PlansAssumption ==
    /\ MaxResources \in Nat
    /\ \A p \in Plans : p \in Seq(Planned) /\ Len(p) <= MaxResources
ASSUME PoliciesAssumption == PolicySet \subseteq Policies
(* The daemon's protocol carries `only` and nothing else.                   *)
Options ==
    {o \in [surface : SurfaceKinds, only : SUBSET Ids, skip : SUBSET Ids,
             flags : SUBSET Flags] :
        o.surface \in DaemonSurfaces => o.skip = {} /\ o.flags = {}}
ASSUME RequestsAssumption == Requests \subseteq Options

VARIABLES
    plan,        \* Resolution::resources
    policy,      \* the user's configured policy
    options,     \* surface; --only, --skip and the approval flags
    phase,       \* "planned", "prepared", "asked", "dispatching", "reported"
    slots,       \* the approvals policy and options decided, "ask" for none
    ticked,      \* the positions the user meant to grant
    granted,     \* the positions the surface returned
    approvals,   \* what `execute` is called with
    outcomes,    \* the outcomes so far, in plan order
    trace,       \* the sleeps and launches of `execute`
    aggregate    \* the report's aggregate, "none" before it

vars == <<plan, policy, options, phase, slots, ticked, granted, approvals, outcomes,
          trace, aggregate>>

Positions == DOMAIN plan

Init ==
    /\ plan \in Plans
    /\ policy \in PolicySet
    /\ options \in Requests
    /\ phase = "planned"
    /\ slots = <<>>
    /\ ticked = {}
    /\ granted = {}
    /\ approvals = <<>>
    /\ outcomes = <<>>
    /\ trace = <<>>
    /\ aggregate = "none"

-----------------------------------------------------------------------------
(* prepare (consent_ui.rs) and the first loop of decide (consent.rs).       *)

(* `only` narrows by id or by root anchor, `skip` by id.                    *)
Selected(r) ==
    /\ options.only # {} => {r.id, r.anchor} \cap options.only # {}
    /\ r.id \notin options.skip

FlagApproves(r) ==
    CASE Classify(r) = "Safe" -> options.flags # {}
      [] Classify(r) = "Sensitive" -> "allowSensitive" \in options.flags
      [] Classify(r) = "Dangerous" -> "allowDangerous" \in options.flags

(* Mutant of Slot: the flags are looked at before the refusals are.         *)
MutSlotFlagsFirst(r) ==
    IF ~Selected(r) THEN "Skipped"
    ELSE IF FlagApproves(r) \/ Evaluate(policy, r) = "Allow" THEN "Approved"
    ELSE IF Evaluate(policy, r) = "Deny" THEN "Denied"
    ELSE "ask"

Slot(r) ==
    IF ~Selected(r) THEN "Skipped"
    ELSE IF Evaluate(policy, r) = "Deny" THEN "Denied"
    ELSE IF Evaluate(policy, r) = "Allow" \/ FlagApproves(r) THEN "Approved"
    ELSE "ask"

Prepare ==
    /\ phase = "planned"
    /\ slots' = [p \in Positions |-> Slot(plan[p])]
    /\ phase' = "prepared"
    /\ UNCHANGED <<plan, policy, options, ticked, granted, approvals, outcomes, trace,
                   aggregate>>

Offered == {p \in Positions : slots[p] = "ask"}

-----------------------------------------------------------------------------
(* ConsentUi::ask, and the prompt of consent.rs.                            *)

(* `granted_indices`: the dialog prints the ids of the rows ticked, and an  *)
(* id is taken for the first item that was offered under it.                *)
FirstOffered(id) ==
    CHOOSE p \in Offered :
        plan[p].id = id /\ \A q \in Offered : plan[q].id = id => p <= q
GrantedIndices(rows) == {FirstOffered(plan[p].id) : p \in rows}

Ask(answer, result) ==
    /\ phase = "prepared"
    /\ ticked' = answer
    /\ granted' = result
    /\ phase' = "asked"
    /\ UNCHANGED <<plan, policy, options, slots, approvals, outcomes, trace, aggregate>>

AskDialog ==
    /\ phase = "prepared"
    /\ options.surface = "dialog"
    /\ \E rows \in SUBSET Offered : Ask(rows, GrantedIndices(rows))

(* `parse_answer`: indices that were not offered are ignored.               *)
AskTerminal ==
    /\ phase = "prepared"
    /\ options.surface = "terminal"
    /\ \E typed \in SUBSET Positions : Ask(typed, typed \cap Offered)

(* `prompt_for`: all, one by one, or none.                                  *)
AskPrompt ==
    /\ phase = "prepared"
    /\ options.surface = "prompt"
    /\ \E rows \in SUBSET Offered : Ask(rows, rows)

(* No display and no terminal, a cancelled dialog, a crashed helper, 180    *)
(* seconds without an answer: all grant nothing.                           *)
AskInVain ==
    /\ options.surface # "prompt"
    /\ Ask({}, {})

(* Mutant of Apply: an index returned overrides what policy decided.        *)
MutApplyGrantsAll ==
    /\ phase = "asked"
    /\ approvals' =
          [p \in Positions |->
              IF p \in ticked THEN "Approved"
              ELSE IF slots[p] # "ask" THEN slots[p]
              ELSE "Denied"]
    /\ phase' = "dispatching"
    /\ UNCHANGED <<plan, policy, options, slots, ticked, granted, outcomes, trace, aggregate>>

(* apply (consent_ui.rs): only slots left undecided can be granted.         *)
Apply ==
    /\ phase = "asked"
    /\ approvals' =
          [p \in Positions |->
              IF slots[p] # "ask" THEN slots[p]
              ELSE IF p \in granted THEN "Approved"
              ELSE "Denied"]
    /\ phase' = "dispatching"
    /\ UNCHANGED <<plan, policy, options, slots, ticked, granted, outcomes, trace, aggregate>>

-----------------------------------------------------------------------------
(* execute (dispatch.rs).                                                  *)

Here == Len(outcomes) + 1
Dispatching == phase = "dispatching" /\ Here \in Positions

(* In `trace` a launch is its position in the plan and a sleep is 0. Once a *)
(* launch has succeeded the next dispatch is kept waiting: this is for a    *)
(* `dispatch_stagger_ms` that is not 0.                                    *)
Sleep == 0
Stagger ==
    IF \E k \in DOMAIN outcomes : outcomes[k] = "OPENED" THEN <<Sleep>> ELSE <<>>

Record(outcome, events) ==
    /\ outcomes' = Append(outcomes, outcome)
    /\ trace' = trace \o events
    /\ UNCHANGED <<plan, policy, options, phase, slots, ticked, granted, approvals,
                   aggregate>>

(* Mutant of PassOver: a skipped resource is not stepped over.              *)
MutPassOverDenied ==
    /\ Dispatching
    /\ approvals[Here] = "Denied"
    /\ Record("DENIED", <<>>)

PassOver ==
    /\ Dispatching
    /\ \/ approvals[Here] = "Denied" /\ Record("DENIED", <<>>)
       \/ approvals[Here] = "Skipped" /\ Record("SKIPPED", <<>>)

(* What `dispatch_one` may return before a launch is tried: no handler or   *)
(* an empty program, no home directory, no such path; a container.          *)
Obstacles(r) ==
    CASE r.kind = "murl" -> {"SKIPPED"}
      [] r.kind \in {"file", "dir", "terminal"} -> {"FAILED", "UNAVAILABLE"}
      [] OTHER -> {"FAILED"}

Obstructed ==
    /\ Dispatching
    /\ approvals[Here] = "Approved"
    /\ \E outcome \in Obstacles(plan[Here]) : Record(outcome, Stagger)

Launch ==
    /\ Dispatching
    /\ approvals[Here] = "Approved"
    /\ plan[Here].kind # "murl"
    /\ \E outcome \in {"OPENED", "FAILED"} : Record(outcome, Stagger \o <<Here>>)

Opened == {p \in DOMAIN outcomes : outcomes[p] = "OPENED"}
Bad == {p \in DOMAIN outcomes : outcomes[p] \in {"FAILED", "UNAVAILABLE"}}
Refusals == {p \in DOMAIN outcomes : outcomes[p] = "DENIED"}
RequiredMissed == \E p \in Bad \cup Refusals : plan[p].required

(* Mutant of Aggregate: a required resource that was denied is not missed.  *)
MutAggregateDeniedOptional ==
    IF \E p \in Bad : plan[p].required THEN "FAILED"
    ELSE IF Opened # {} /\ Bad = {} /\ Refusals = {} THEN "SUCCESS"
    ELSE IF Opened # {} THEN "PARTIAL_SUCCESS"
    ELSE IF Bad # {} THEN "FAILED"
    ELSE IF Refusals # {} THEN "DENIED"
    ELSE "SUCCESS"

Aggregate ==
    IF RequiredMissed THEN "FAILED"
    ELSE IF Opened # {} /\ Bad = {} /\ Refusals = {} THEN "SUCCESS"
    ELSE IF Opened # {} THEN "PARTIAL_SUCCESS"
    ELSE IF Bad # {} THEN "FAILED"
    ELSE IF Refusals # {} THEN "DENIED"
    ELSE "SUCCESS"

Report ==
    /\ phase = "dispatching"
    /\ Len(outcomes) = Len(plan)
    /\ aggregate' = Aggregate
    /\ phase' = "reported"
    /\ UNCHANGED <<plan, policy, options, slots, ticked, granted, approvals, outcomes,
                   trace>>

Next ==
    \/ Prepare
    \/ AskDialog \/ AskTerminal \/ AskPrompt \/ AskInVain
    \/ Apply
    \/ PassOver \/ Obstructed \/ Launch
    \/ Report

(* The code never waits but for an answer. The dialog's answer is bounded   *)
(* by a timeout and no surface at all answers at once; nothing bounds how   *)
(* long a terminal is left unanswered.                                     *)
Asked == AskDialog \/ AskTerminal \/ AskPrompt \/ AskInVain
Spec == Init /\ [][Next]_vars
FairSpec ==
    /\ Spec
    /\ WF_vars(Next /\ phase # "prepared")
    /\ WF_vars(Asked /\ options.surface \in {"dialog", "denyAll", "noTty"})

-----------------------------------------------------------------------------
(* Properties.                                                             *)

Launched == {p \in Positions : \E k \in DOMAIN trace : trace[k] = p}

(* policy.rs:136-152 and spec 8.3, "these cannot be consented through":     *)
(* whatever the user ticks, types or passes as a flag, what is launched     *)
(* respects every hard rule, and what is neither ticked nor covered by a    *)
(* flag is launched only where the policy's mode for its tier is Allow.     *)
HardRulesHold ==
    \A p \in Launched :
        LET r == plan[p]
            tier == Classify(r)
        IN  /\ tier = "Dangerous" /\ policy.dangerousRequiresTrust => r.trusted
            /\ r.window # "valid" => tier = "Safe"
            /\ policy.mode[tier] # "Deny"
            /\ options.flags = {} /\ p \notin granted =>
                  /\ policy.mode[tier] = "Allow"
                  /\ r.window = "valid"
                  /\ r.remote /\ r.kind \in {"file", "dir", "terminal"}
                        => policy.remoteFilesystemRefs = "Allow"
            /\ tier = "Dangerous" /\ "allowDangerous" \notin options.flags
               /\ p \notin granted => policy.mode[tier] = "Allow" /\ r.trusted

(* SPECIFICATION 6.7, the table of aggregates.                             *)
AggregateMeansWhatItSays ==
    phase = "reported" =>
        LET Tried == {p \in Positions : outcomes[p] # "SKIPPED"}
            Missed == {p \in Tried : plan[p].required /\ outcomes[p] # "OPENED"}
        IN  /\ Len(outcomes) = Len(plan)
            /\ aggregate = "SUCCESS" <=> \A p \in Tried : outcomes[p] = "OPENED"
            /\ aggregate = "PARTIAL_SUCCESS" <=>
                  /\ \E p \in Tried : outcomes[p] = "OPENED"
                  /\ \E p \in Tried : outcomes[p] # "OPENED"
                  /\ Missed = {}
            /\ aggregate = "DENIED" <=>
                  /\ Tried # {} /\ Missed = {}
                  /\ \A p \in Tried : outcomes[p] = "DENIED"

(* policy.rs:3-9, "nothing in a manifest can grant itself permission": had  *)
(* the user's policy been stricter, or a manifest had less to vouch for it,  *)
(* no resource of the plan would have met a milder decision.                *)
PolicyMonotone ==
    \A p \in Positions : phase = "planned" =>
        \A strict \in PolicySet : AtLeastAsStrict(strict, policy) =>
            \A r \in LessCredible(plan[p]) :
                Strictness(Evaluate(strict, r)) >= Strictness(Evaluate(policy, plan[p]))

(* docs/daemon.md, "Every failure is a denial": an activation whose surface *)
(* cannot be left waiting comes to its report.                             *)
Reports ==
    options.surface \in {"dialog", "denyAll", "noTty"} ~> phase = "reported"

(* consent_ui.rs:9-11 and 133: where the ids of a plan are unique, an       *)
(* activation implements the consent gate, with the user's ticks for the yes. *)
Gate == INSTANCE ConsentGate WITH
    Positions <- 1 .. MaxResources,
    stage <- CASE phase = "planned" -> "judging"
               [] phase = "prepared" -> "asking"
               [] OTHER -> "opening",
    free <- {p \in DOMAIN slots : slots[p] = "Approved"},
    refused <- {p \in DOMAIN slots : slots[p] \in {"Denied", "Skipped"}},
    yes <- ticked,
    tried <- Launched

ImplementsGate == Gate!Spec

(* consent_ui.rs:11, "Everything else must be granted explicitly, per       *)
(* resource", with the user's own ticks for the grants.                    *)
OnlyTickedIsLaunched ==
    \A p \in Launched : slots[p] = "Approved" \/ p \in ticked
=============================================================================
