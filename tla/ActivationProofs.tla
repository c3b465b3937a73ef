-------------------------- MODULE ActivationProofs --------------------------
(***************************************************************************)
(* Proofs about module Activation, for every plan, policy and request. The  *)
(* inductive invariant says what each variable is worth in each phase:      *)
(* Typed, Judged (the slots), Answered (the grants), Applied (the           *)
(* approvals), Traced (the launches) and Summed (the aggregate).            *)
(***************************************************************************)
EXTENDS Activation, SequenceTheorems, WellFoundedInduction, TLAPS

Phases == {"planned", "prepared", "asked", "dispatching", "reported"}
OutcomeKinds == {"OPENED", "FAILED", "UNAVAILABLE", "DENIED", "SKIPPED"}
Decisions == {"Approved", "Denied", "Skipped", "ask"}

Typed ==
    /\ plan \in Plans /\ policy \in PolicySet /\ options \in Requests
    /\ phase \in Phases
    /\ ticked \subseteq Positions
    /\ outcomes \in Seq(OutcomeKinds)
    /\ trace \in Seq(Nat)

(* The slots are those of the whole plan, judged before anything was asked. *)
Judged ==
    /\ phase = "planned" => slots = <<>>
    /\ phase # "planned" => slots = [p \in Positions |-> Slot(plan[p])]

(* Only what was offered is granted, and nothing before the user was asked. *)
Answered ==
    /\ phase \in {"planned", "prepared"} => ticked = {} /\ granted = {}
    /\ granted \subseteq Positions
    /\ \A p \in granted : slots[p] = "ask"

(* A decision is made once, and nothing happens before it.                  *)
Decided(p) ==
    IF slots[p] # "ask" THEN slots[p]
    ELSE IF p \in granted THEN "Approved"
    ELSE "Denied"
Applied ==
    /\ phase \in {"dispatching", "reported"} =>
          approvals = [p \in Positions |-> Decided(p)]
    /\ phase \notin {"dispatching", "reported"} => outcomes = <<>> /\ trace = <<>>

(* A launch is of a resource that has its outcome, and was approved.        *)
Traced ==
    /\ Len(outcomes) <= Len(plan)
    /\ \A k \in DOMAIN trace :
          trace[k] # Sleep =>
             /\ trace[k] <= Len(outcomes)
             /\ approvals[trace[k]] = "Approved"

Summed ==
    phase = "reported" => Len(outcomes) = Len(plan) /\ aggregate = Aggregate

IInv == Typed /\ Judged /\ Answered /\ Applied /\ Traced /\ Summed
-----------------------------------------------------------------------------
(* What is known of a plan.                                                 *)
LEMMA PlanFacts ==
    ASSUME plan \in Plans
    PROVE  /\ Len(plan) \in Nat
           /\ Positions = 1 .. Len(plan)
           /\ Positions \subseteq 1 .. MaxResources
           /\ \A p \in Positions : plan[p] \in Planned
<1>1. plan \in Seq(Planned) /\ Len(plan) <= MaxResources /\ MaxResources \in Nat
  BY PlansAssumption
<1>2. Len(plan) \in Nat /\ DOMAIN plan = 1 .. Len(plan)
  BY <1>1, LenProperties
<1>3. \A p \in DOMAIN plan : plan[p] \in Planned
  BY <1>1, <1>2, ElementOfSeq
<1> QED BY <1>1, <1>2, <1>3 DEF Positions

(* The policy has an answer for every resource, and one that does not ask   *)
(* is an answer of each rule.                                              *)
LEMMA ClassifyTier == \A r : Classify(r) \in Tiers
BY DEF Classify, Tiers

LEMMA Allowed ==
    ASSUME NEW pol \in Policies, NEW r \in Planned, Evaluate(pol, r) = "Allow"
    PROVE  /\ pol.mode[Classify(r)] = "Allow"
           /\ r.window = "valid"
           /\ RemoteFilesystem(r) => pol.remoteFilesystemRefs = "Allow"
           /\ Classify(r) = "Dangerous" => r.trusted
<1>1. pol.mode[Classify(r)] \in Modes /\ pol.remoteFilesystemRefs \in Modes
  BY ClassifyTier DEF Policies
<1>2. ~Refused(pol, r) /\ ~Questioned(pol, r)
  BY DEF Evaluate
<1> QED BY <1>1, <1>2 DEF Refused, Questioned, Modes

LEMMA SlotMeans ==
    ASSUME NEW r, policy \in Policies, r \in Planned
    PROVE  /\ Slot(r) \in Decisions
           /\ Slot(r) \in {"Approved", "ask"} => ~Refused(policy, r)
           /\ Slot(r) = "Approved" => Evaluate(policy, r) = "Allow" \/ FlagApproves(r)
BY DEF Slot, Decisions, Evaluate

(* What was refused or left out is not approved.                            *)
LEMMA DecidedMeans ==
    ASSUME IInv, phase \in {"dispatching", "reported"}, NEW p \in Positions
    PROVE  /\ slots[p] = Slot(plan[p])
           /\ slots[p] \in Decisions
           /\ approvals[p] \in {"Approved", "Denied", "Skipped"}
           /\ approvals[p] = "Approved" => slots[p] = "Approved" \/ (slots[p] = "ask" /\ p \in granted)
<1>1. plan[p] \in Planned /\ policy \in Policies
  BY PlanFacts, PoliciesAssumption DEF IInv, Typed
<1>2. slots[p] = Slot(plan[p])
  BY DEF IInv, Judged
<1>3. approvals[p] = Decided(p)
  BY DEF IInv, Applied
<1> QED BY <1>1, <1>2, <1>3, SlotMeans DEF Decided, Decisions

(* A launch is one of a resource with its outcome, after consent.           *)
LEMMA LaunchedMeans ==
    ASSUME IInv, NEW p \in Launched
    PROVE  /\ p \in Positions /\ p <= Len(outcomes)
           /\ phase \in {"dispatching", "reported"}
           /\ approvals[p] = "Approved"
<1>1. PICK k \in DOMAIN trace : trace[k] = p
  BY DEF Launched
<1>2. p \in Positions /\ p # Sleep
  BY PlanFacts DEF Launched, Sleep, IInv, Typed
<1>3. phase \in {"dispatching", "reported"}
  <2>1. trace = <<>> => DOMAIN trace = {}
    OBVIOUS
  <2> QED BY <1>1, <2>1 DEF IInv, Applied
<1> QED BY <1>1, <1>2, <1>3 DEF IInv, Traced

-----------------------------------------------------------------------------
(* The invariant.                                                          *)
LEMMA InitIInv == Init => IInv
<1> SUFFICES ASSUME Init PROVE IInv
  OBVIOUS
<1>1. Len(plan) \in Nat
  BY PlanFacts DEF Init
<1>2. outcomes \in Seq(OutcomeKinds) /\ trace \in Seq(Nat) /\ Len(outcomes) = 0 /\ DOMAIN trace = {}
  BY DEF Init
<1> QED BY <1>1, <1>2 DEF Init, IInv, Typed, Judged, Answered, Applied, Traced, Summed, Phases

(* Before the dispatch starts, nothing is known of the approvals and        *)
(* nothing has been launched.                                              *)
LEMMA NothingTraced ==
    ASSUME IInv, phase \notin {"dispatching", "reported"}
    PROVE  outcomes = <<>> /\ trace = <<>> /\ Len(outcomes) = 0 /\ DOMAIN trace = {}
BY DEF IInv, Applied

LEMMA PrepareIInv == IInv /\ Prepare => IInv'
<1> SUFFICES ASSUME IInv, Prepare PROVE IInv'
  OBVIOUS
<1>1. UNCHANGED <<plan, policy, options, ticked, granted, approvals, outcomes, trace, aggregate>>
  BY DEF Prepare
<1>2. Typed'
  BY <1>1 DEF Prepare, IInv, Typed, Phases, Positions
<1>3. Judged'
  <2>1. \A r : Slot(r)' = Slot(r)
    BY <1>1 DEF Slot, Selected, FlagApproves
  <2> QED BY <1>1, <2>1 DEF Prepare, Judged, Positions
<1>4. Answered'
  BY <1>1 DEF Prepare, IInv, Answered, Positions
<1>5. Applied' /\ Traced' /\ Summed'
  BY <1>1, NothingTraced DEF Prepare, IInv, Applied, Traced, Summed
<1> QED BY <1>2, <1>3, <1>4, <1>5 DEF IInv

(* A set of positions that is not empty has a least one.                    *)
LEMMA LeastPosition ==
    ASSUME NEW T \in SUBSET Nat, T # {}
    PROVE  \E m \in T : \A k \in T : m <= k
<1>1. IsWellFoundedOn(OpToRel(<, Nat), Nat)
  BY NatLessThanWellFounded
<1>2. PICK m \in T : \A k \in T : <<k, m>> \notin OpToRel(<, Nat)
  BY <1>1, WFMin
<1>3. \A k \in T : ~(k < m)
  BY <1>2 DEF OpToRel
<1> QED BY <1>3

(* The first item offered under the id of an offered item is offered.       *)
LEMMA FirstOfferedIsOffered ==
    ASSUME plan \in Plans, NEW p \in Offered
    PROVE  /\ FirstOffered(plan[p].id) \in Offered
           /\ plan[FirstOffered(plan[p].id)].id = plan[p].id
<1> DEFINE Same == {q \in Offered : plan[q].id = plan[p].id}
<1>1. Same \in SUBSET Nat /\ Same # {}
  BY PlanFacts DEF Offered
<1>2. \E m \in Same : \A k \in Same : m <= k
  <2> HIDE DEF Same
  <2> QED BY <1>1, LeastPosition
<1>3. \E q \in Offered : plan[q].id = plan[p].id /\ \A k \in Offered : plan[k].id = plan[p].id => q <= k
  BY <1>2
<1> QED BY <1>3 DEF FirstOffered

LEMMA GrantsAreOffered ==
    ASSUME IInv, phase = "prepared", Asked
    PROVE  /\ \E answer \in SUBSET Positions, result \in SUBSET Offered : Ask(answer, result)
<1>1. Offered \subseteq Positions
  BY DEF Offered
<1>2. CASE AskDialog
  <2>1. PICK rows \in SUBSET Offered : Ask(rows, GrantedIndices(rows))
    BY <1>2 DEF AskDialog
  <2>2. GrantedIndices(rows) \subseteq Offered
    BY FirstOfferedIsOffered DEF GrantedIndices, IInv, Typed
  <2> QED BY <1>1, <2>1, <2>2
<1>3. CASE AskTerminal
  BY <1>3 DEF AskTerminal
<1>4. CASE AskPrompt
  BY <1>1, <1>4 DEF AskPrompt
<1>5. CASE AskInVain
  BY <1>5 DEF AskInVain
<1> QED BY <1>2, <1>3, <1>4, <1>5 DEF Asked

LEMMA AskedIInv == IInv /\ Asked => IInv'
<1> SUFFICES ASSUME IInv, Asked PROVE IInv'
  OBVIOUS
<1>1. phase = "prepared"
  BY DEF Asked, AskDialog, AskTerminal, AskPrompt, AskInVain, Ask
<1>2. PICK answer \in SUBSET Positions, result \in SUBSET Offered : Ask(answer, result)
  BY <1>1, GrantsAreOffered
<1>3. UNCHANGED <<plan, policy, options, slots, approvals, outcomes, trace, aggregate>>
  BY <1>2 DEF Ask
<1>4. Typed'
  BY <1>2, <1>3 DEF Ask, IInv, Typed, Phases, Positions
<1>5. Judged'
  <2>1. \A r : Slot(r)' = Slot(r)
    BY <1>3 DEF Slot, Selected, FlagApproves
  <2> QED BY <1>1, <1>2, <1>3, <2>1 DEF Ask, IInv, Judged, Positions
<1>6. Answered'
  BY <1>2, <1>3 DEF Ask, Answered, Positions, Offered
<1>7. Applied' /\ Traced' /\ Summed'
  BY <1>1, <1>2, <1>3, NothingTraced DEF Ask, IInv, Applied, Traced, Summed
<1> QED BY <1>4, <1>5, <1>6, <1>7 DEF IInv

LEMMA ApplyIInv == IInv /\ Apply => IInv'
<1> SUFFICES ASSUME IInv, Apply PROVE IInv'
  OBVIOUS
<1>1. UNCHANGED <<plan, policy, options, slots, ticked, granted, outcomes, trace, aggregate>>
  BY DEF Apply
<1>2. Typed'
  BY <1>1 DEF Apply, IInv, Typed, Phases, Positions
<1>3. Judged'
  <2>1. \A r : Slot(r)' = Slot(r)
    BY <1>1 DEF Slot, Selected, FlagApproves
  <2> QED BY <1>1, <2>1 DEF Apply, IInv, Judged, Positions
<1>4. Answered'
  BY <1>1 DEF Apply, IInv, Answered, Positions
<1>5. Applied'
  <2>1. \A p : Decided(p)' = Decided(p)
    BY <1>1 DEF Decided
  <2>2. approvals' = [p \in Positions |-> Decided(p)]
    BY DEF Apply, Decided
  <2> QED BY <1>1, <2>1, <2>2 DEF Apply, Applied, Positions
<1>6. Traced' /\ Summed'
  BY <1>1, NothingTraced DEF Apply, IInv, Traced, Summed
<1> QED BY <1>2, <1>3, <1>4, <1>5, <1>6 DEF IInv

-----------------------------------------------------------------------------
(* Sequences.                                                              *)
Joined(s, t, u) ==
    /\ \A k \in DOMAIN u : \/ \E i \in DOMAIN s : u[k] = s[i]
                          \/ \E i \in DOMAIN t : u[k] = t[i]
    /\ \A i \in DOMAIN s : \E k \in DOMAIN u : u[k] = s[i]
    /\ \A i \in DOMAIN t : \E k \in DOMAIN u : u[k] = t[i]

LEMMA Extended ==
    \A s, t \in Seq(Nat) : s \o t \in Seq(Nat) /\ Joined(s, t, s \o t)
<1> SUFFICES ASSUME NEW s \in Seq(Nat), NEW t \in Seq(Nat)
             PROVE  s \o t \in Seq(Nat) /\ Joined(s, t, s \o t)
  OBVIOUS
<1>1. /\ s \o t \in Seq(Nat) /\ Len(s \o t) = Len(s) + Len(t)
      /\ \A k \in 1 .. Len(s) + Len(t) :
            (s \o t)[k] = IF k <= Len(s) THEN s[k] ELSE t[k - Len(s)]
  BY ConcatProperties
<1>2. /\ Len(s) \in Nat /\ Len(t) \in Nat /\ DOMAIN s = 1 .. Len(s) /\ DOMAIN t = 1 .. Len(t)
      /\ DOMAIN (s \o t) = 1 .. Len(s) + Len(t)
  BY <1>1, LenProperties
<1>3. ASSUME NEW k \in DOMAIN s
      PROVE  k \in DOMAIN (s \o t) /\ (s \o t)[k] = s[k]
  BY <1>1, <1>2
<1>4. ASSUME NEW k \in DOMAIN t
      PROVE  k + Len(s) \in DOMAIN (s \o t) /\ (s \o t)[k + Len(s)] = t[k]
  BY <1>1, <1>2
<1>5. ASSUME NEW k \in DOMAIN (s \o t)
      PROVE  \/ k \in DOMAIN s /\ (s \o t)[k] = s[k]
             \/ k - Len(s) \in DOMAIN t /\ (s \o t)[k] = t[k - Len(s)]
  BY <1>1, <1>2
<1> QED BY <1>1, <1>3, <1>4, <1>5 DEF Joined

(* What one step of `execute` does: the outcome of the next resource, and   *)
(* a launch of that resource or of none.                                   *)
Dispatched(outcome, events) ==
    /\ Dispatching
    /\ outcome \in OutcomeKinds
    /\ events \in Seq(Nat)
    /\ \A k \in DOMAIN events :
          events[k] # Sleep => events[k] = Here /\ approvals[Here] = "Approved"
    /\ Record(outcome, events)

LEMMA StaggerFacts ==
    /\ Stagger \in Seq(Nat)
    /\ \A k \in DOMAIN Stagger : Stagger[k] = Sleep
BY DEF Stagger, Sleep

LEMMA DispatchSteps ==
    ASSUME IInv, PassOver \/ Obstructed \/ Launch
    PROVE  \E outcome \in OutcomeKinds, events \in Seq(Nat) : Dispatched(outcome, events)
<1>1. CASE PassOver
  <2>1. <<>> \in Seq(Nat) /\ DOMAIN <<>> = {}
    OBVIOUS
  <2> QED BY <1>1, <2>1 DEF PassOver, Dispatched, OutcomeKinds
<1>2. CASE Obstructed
  <2>1. PICK outcome \in Obstacles(plan[Here]) : Record(outcome, Stagger)
    BY <1>2 DEF Obstructed
  <2>2. outcome \in OutcomeKinds
    BY <2>1 DEF Obstacles, OutcomeKinds
  <2> QED BY <1>2, <2>1, <2>2, StaggerFacts DEF Obstructed, Dispatched
<1>3. CASE Launch
  <2>1. PICK outcome \in {"OPENED", "FAILED"} : Record(outcome, Stagger \o <<Here>>)
    BY <1>3 DEF Launch
  <2>2. Here \in Nat
    BY <1>3, PlanFacts DEF Launch, Dispatching, IInv, Typed
  <2>3. <<Here>> \in Seq(Nat) /\ \A k \in DOMAIN <<Here>> : <<Here>>[k] = Here
    BY <2>2
  <2>4. /\ Stagger \o <<Here>> \in Seq(Nat)
        /\ \A k \in DOMAIN (Stagger \o <<Here>>) :
              (Stagger \o <<Here>>)[k] \in {Sleep, Here}
    BY <2>3, StaggerFacts, Extended DEF Joined
  <2> QED BY <1>3, <2>1, <2>4 DEF Launch, Dispatched, OutcomeKinds
<1> QED BY <1>1, <1>2, <1>3

LEMMA DispatchIInv ==
    ASSUME IInv, PassOver \/ Obstructed \/ Launch
    PROVE  IInv'
<1>1. PICK outcome \in OutcomeKinds, events \in Seq(Nat) : Dispatched(outcome, events)
  BY DispatchSteps
<1>2. /\ UNCHANGED <<plan, policy, options, phase, slots, ticked, granted, approvals, aggregate>>
      /\ outcomes' = Append(outcomes, outcome)
      /\ trace' = trace \o events
      /\ phase = "dispatching" /\ Here \in Positions
  BY <1>1 DEF Dispatched, Record, Dispatching
<1>3. /\ outcomes' \in Seq(OutcomeKinds)
      /\ Len(outcomes) \in Nat /\ Len(outcomes') = Len(outcomes) + 1
  BY <1>2, AppendProperties, LenProperties DEF IInv, Typed
<1>4. /\ trace' \in Seq(Nat)
      /\ \A k \in DOMAIN trace' : \/ \E i \in DOMAIN trace : trace'[k] = trace[i]
                                  \/ \E i \in DOMAIN events : trace'[k] = events[i]
  <2>1. trace \in Seq(Nat) /\ events \in Seq(Nat)
    BY <1>1 DEF IInv, Typed
  <2>2. trace \o events \in Seq(Nat) /\ Joined(trace, events, trace \o events)
    BY <2>1, Extended
  <2> QED BY <1>2, <2>2 DEF Joined
<1>5. Typed'
  BY <1>2, <1>3, <1>4 DEF IInv, Typed, Positions
<1>6. Judged'
  <2>1. \A r : Slot(r)' = Slot(r)
    BY <1>2 DEF Slot, Selected, FlagApproves
  <2> QED BY <1>2, <2>1 DEF IInv, Judged, Positions
<1>7. Answered'
  BY <1>2 DEF IInv, Answered, Positions
<1>8. Applied'
  <2>1. \A p : Decided(p)' = Decided(p)
    BY <1>2 DEF Decided
  <2> QED BY <1>2, <2>1 DEF IInv, Applied, Positions
<1>9. Traced'
  <2>1. Here = Len(outcomes) + 1 /\ Len(outcomes') = Here /\ Here <= Len(plan) /\ Here \in Nat
    BY <1>2, <1>3, PlanFacts DEF Here, IInv, Typed
  <2>2. ASSUME NEW k \in DOMAIN trace', trace'[k] # Sleep
        PROVE  trace'[k] <= Here /\ approvals[trace'[k]] = "Approved"
    <3>1. CASE \E i \in DOMAIN trace : trace'[k] = trace[i]
      <4>1. PICK i \in DOMAIN trace : trace'[k] = trace[i]
        BY <3>1
      <4>2. trace[i] <= Len(outcomes) /\ approvals[trace[i]] = "Approved"
        BY <2>2, <4>1 DEF IInv, Traced
      <4>3. trace[i] \in Nat
        BY <4>1, ElementOfSeq, LenProperties DEF IInv, Typed
      <4> QED BY <1>3, <2>1, <4>1, <4>2, <4>3
    <3>2. CASE \E i \in DOMAIN events : trace'[k] = events[i]
      BY <1>1, <2>1, <2>2, <3>2 DEF Dispatched
    <3> QED BY <1>4, <3>1, <3>2
  <2> QED BY <1>2, <2>1, <2>2 DEF Traced, Sleep
<1>10. Summed'
  BY <1>2 DEF Summed
<1> QED BY <1>5, <1>6, <1>7, <1>8, <1>9, <1>10 DEF IInv

LEMMA ReportIInv == IInv /\ Report => IInv'
<1> SUFFICES ASSUME IInv, Report PROVE IInv'
  OBVIOUS
<1>1. UNCHANGED <<plan, policy, options, slots, ticked, granted, approvals, outcomes, trace>>
  BY DEF Report
<1>2. Typed'
  BY <1>1 DEF Report, IInv, Typed, Phases, Positions
<1>3. Judged'
  <2>1. \A r : Slot(r)' = Slot(r)
    BY <1>1 DEF Slot, Selected, FlagApproves
  <2> QED BY <1>1, <2>1 DEF Report, IInv, Judged, Positions
<1>4. Answered'
  BY <1>1 DEF Report, IInv, Answered, Positions
<1>5. Applied'
  <2>1. \A p : Decided(p)' = Decided(p)
    BY <1>1 DEF Decided
  <2> QED BY <1>1, <2>1 DEF Report, IInv, Applied, Positions
<1>6. Traced'
  BY <1>1 DEF Report, IInv, Traced
<1>7. Summed'
  BY <1>1 DEF Report, Summed, Aggregate, RequiredMissed, Opened, Bad, Refusals
<1> QED BY <1>2, <1>3, <1>4, <1>5, <1>6, <1>7 DEF IInv

LEMMA StutterIInv == IInv /\ UNCHANGED vars => IInv'
<1> SUFFICES ASSUME IInv, UNCHANGED vars PROVE IInv'
  OBVIOUS
<1>1. UNCHANGED <<plan, policy, options, phase, slots, ticked, granted, approvals, outcomes,
                  trace, aggregate>>
  BY DEF vars
<1>2. Typed' /\ Answered' /\ Traced'
  BY <1>1 DEF IInv, Typed, Answered, Traced, Positions
<1>3. Judged'
  <2>1. \A r : Slot(r)' = Slot(r)
    BY <1>1 DEF Slot, Selected, FlagApproves
  <2> QED BY <1>1, <2>1 DEF IInv, Judged, Positions
<1>4. Applied'
  <2>1. \A p : Decided(p)' = Decided(p)
    BY <1>1 DEF Decided
  <2> QED BY <1>1, <2>1 DEF IInv, Applied, Positions
<1>5. Summed'
  BY <1>1 DEF IInv, Summed, Aggregate, RequiredMissed, Opened, Bad, Refusals
<1> QED BY <1>2, <1>3, <1>4, <1>5 DEF IInv

LEMMA NextIInv == IInv /\ [Next]_vars => IInv'
BY PrepareIInv, AskedIInv, ApplyIInv, DispatchIInv, ReportIInv, StutterIInv DEF Next, Asked

(* What prepare, apply and execute keep at every point: the decisions come  *)
(* from the policy and the answer alone, and the outcomes from the          *)
(* decisions.                                                               *)
THEOREM ActivationInvariant == Spec => []IInv
BY InitIInv, NextIInv, PTL DEF Spec
-----------------------------------------------------------------------------
(* The properties.                                                         *)

(* policy.rs:136-152: whatever is ticked, typed or passed as a flag, what   *)
(* is launched respects every hard rule of the policy.                      *)
LEMMA HardRules == IInv => HardRulesHold
<1> SUFFICES ASSUME IInv, NEW p \in Launched,
                    NEW r, r = plan[p], NEW tier, tier = Classify(r)
             PROVE  /\ tier = "Dangerous" /\ policy.dangerousRequiresTrust => r.trusted
                    /\ r.window # "valid" => tier = "Safe"
                    /\ policy.mode[tier] # "Deny"
                    /\ options.flags = {} /\ p \notin granted =>
                          /\ policy.mode[tier] = "Allow"
                          /\ r.window = "valid"
                          /\ r.remote /\ r.kind \in {"file", "dir", "terminal"}
                                => policy.remoteFilesystemRefs = "Allow"
                    /\ tier = "Dangerous" /\ "allowDangerous" \notin options.flags
                       /\ p \notin granted => policy.mode[tier] = "Allow" /\ r.trusted
  BY DEF HardRulesHold
<1>1. /\ p \in Positions /\ phase \in {"dispatching", "reported"} /\ approvals[p] = "Approved"
  BY LaunchedMeans
<1>2. r \in Planned /\ policy \in Policies
  BY <1>1, PlanFacts, PoliciesAssumption DEF IInv, Typed
<1>3. slots[p] = Slot(r) /\ (slots[p] = "Approved" \/ (slots[p] = "ask" /\ p \in granted))
  BY <1>1, DecidedMeans
<1>4. ~Refused(policy, r)
  BY <1>2, <1>3, SlotMeans
<1>5. /\ tier = "Dangerous" /\ policy.dangerousRequiresTrust => r.trusted
      /\ r.window # "valid" => tier = "Safe"
      /\ policy.mode[tier] # "Deny"
  BY <1>4 DEF Refused
<1>6. p \notin granted => Evaluate(policy, r) = "Allow" \/ FlagApproves(r)
  BY <1>2, <1>3, SlotMeans
<1>7. FlagApproves(r) => /\ options.flags # {}
                         /\ tier = "Dangerous" => "allowDangerous" \in options.flags
  BY ClassifyTier DEF FlagApproves, Tiers
<1>8. Evaluate(policy, r) = "Allow" =>
         /\ policy.mode[tier] = "Allow"
         /\ r.window = "valid"
         /\ r.remote /\ r.kind \in {"file", "dir", "terminal"} => policy.remoteFilesystemRefs = "Allow"
         /\ tier = "Dangerous" => r.trusted
  BY <1>2, Allowed DEF RemoteFilesystem
<1> QED BY <1>5, <1>6, <1>7, <1>8

(* policy.rs:136-152, spec 8.3: no tick, flag or answer launches what a     *)
(* hard rule of the policy refuses.                                         *)
THEOREM HardRulesAreHard == Spec => []HardRulesHold
BY ActivationInvariant, HardRules, PTL

(* SPECIFICATION 6.7: the aggregate of a report is the one its table gives  *)
(* for the outcomes of the whole plan.                                     *)
LEMMA AggregateIsRight == IInv => AggregateMeansWhatItSays
<1> SUFFICES ASSUME IInv, phase = "reported"
             PROVE  AggregateMeansWhatItSays
  BY DEF AggregateMeansWhatItSays
<1>1. Len(outcomes) = Len(plan) /\ aggregate = Aggregate
  BY DEF IInv, Summed
<1>2. DOMAIN outcomes = Positions /\ \A p \in Positions : outcomes[p] \in OutcomeKinds
  BY <1>1, PlanFacts, LenProperties, ElementOfSeq DEF IInv, Typed
<1> DEFINE Tried == {p \in Positions : outcomes[p] # "SKIPPED"}
           Missed == {p \in Tried : plan[p].required /\ outcomes[p] # "OPENED"}
<1>3. /\ Tried = Opened \cup Bad \cup Refusals
      /\ Opened \cap (Bad \cup Refusals) = {}
      /\ \A p \in Tried : outcomes[p] = "OPENED" <=> p \in Opened
      /\ \A p \in Tried : outcomes[p] = "DENIED" <=> p \in Refusals
      /\ Bad \cap Refusals = {}
  BY <1>2 DEF Opened, Bad, Refusals, OutcomeKinds
<1>4. RequiredMissed <=> Missed # {}
  <2>1. \A p \in Tried : outcomes[p] # "OPENED" <=> p \in Bad \cup Refusals
    BY <1>3
  <2> QED BY <1>3, <2>1 DEF RequiredMissed
<1>5. /\ (\A p \in Tried : outcomes[p] = "OPENED") <=> Bad = {} /\ Refusals = {}
      /\ (\E p \in Tried : outcomes[p] = "OPENED") <=> Opened # {}
      /\ (\E p \in Tried : outcomes[p] # "OPENED") <=> Bad # {} \/ Refusals # {}
      /\ Tried # {} /\ (\A p \in Tried : outcomes[p] = "DENIED") <=>
            Opened = {} /\ Bad = {} /\ Refusals # {}
  BY <1>3
<1>6. RequiredMissed => Bad # {} \/ Refusals # {}
  BY DEF RequiredMissed
<1> HIDE DEF Tried, Missed
<1>7. aggregate = "SUCCESS" <=> \A p \in Tried : outcomes[p] = "OPENED"
  BY <1>1, <1>5, <1>6 DEF Aggregate
<1>8. aggregate = "PARTIAL_SUCCESS" <=>
         /\ \E p \in Tried : outcomes[p] = "OPENED"
         /\ \E p \in Tried : outcomes[p] # "OPENED"
         /\ Missed = {}
  BY <1>1, <1>4, <1>5 DEF Aggregate
<1>9. aggregate = "DENIED" <=>
         /\ Tried # {} /\ Missed = {}
         /\ \A p \in Tried : outcomes[p] = "DENIED"
  BY <1>1, <1>4, <1>5 DEF Aggregate
<1> QED BY <1>1, <1>7, <1>8, <1>9 DEF AggregateMeansWhatItSays, Tried, Missed

(* dispatch.rs:458-497: the aggregate is the one the outcomes call for, for *)
(* a plan of any length and any mixture of outcomes.                        *)
THEOREM AggregateOfReport == Spec => []AggregateMeansWhatItSays
BY ActivationInvariant, AggregateIsRight, PTL

(* Policy, by itself: a policy at least as strict and a resource with less  *)
(* to vouch for it never meet a milder decision.                           *)
LEMMA EvaluateMonotone ==
    ASSUME NEW mild \in Policies, NEW strict \in Policies, AtLeastAsStrict(strict, mild),
           NEW r \in Planned, NEW s \in LessCredible(r)
    PROVE  Strictness(Evaluate(strict, s)) >= Strictness(Evaluate(mild, r))
<1>1. PICK t \in {r.trusted, FALSE}, w \in {r.window, "expired", "premature"},
           m \in {r.remote, TRUE} :
         s = [r EXCEPT !.trusted = t, !.window = w, !.remote = m]
  BY DEF LessCredible
<1>2. /\ s.kind = r.kind /\ s.executable = r.executable
      /\ s.trusted = t /\ s.window = w /\ s.remote = m
  BY <1>1 DEF Planned
<1>3. /\ s.trusted => r.trusted
      /\ r.window # "valid" => s.window # "valid"
      /\ r.remote => s.remote
  BY <1>1, <1>2 DEF Planned
<1>4. Classify(s) = Classify(r)
  BY <1>2 DEF Classify
<1>5. RemoteFilesystem(r) => RemoteFilesystem(s)
  BY <1>2, <1>3 DEF RemoteFilesystem
<1> DEFINE tier == Classify(r)
<1>6. /\ mild.mode[tier] \in Modes /\ strict.mode[tier] \in Modes
      /\ mild.remoteFilesystemRefs \in Modes /\ strict.remoteFilesystemRefs \in Modes
  BY ClassifyTier DEF Policies
<1>7. /\ Strictness(strict.mode[tier]) >= Strictness(mild.mode[tier])
      /\ mild.dangerousRequiresTrust => strict.dangerousRequiresTrust
      /\ Strictness(strict.remoteFilesystemRefs) >= Strictness(mild.remoteFilesystemRefs)
  BY ClassifyTier DEF AtLeastAsStrict
<1>8. /\ mild.mode[tier] = "Deny" => strict.mode[tier] = "Deny"
      /\ mild.mode[tier] = "Prompt" => strict.mode[tier] \in {"Prompt", "Deny"}
      /\ mild.remoteFilesystemRefs = "Deny" => strict.remoteFilesystemRefs = "Deny"
      /\ mild.remoteFilesystemRefs = "Prompt" => strict.remoteFilesystemRefs \in {"Prompt", "Deny"}
  BY <1>6, <1>7 DEF Strictness, Modes
<1>9. Refused(mild, r) => Refused(strict, s)
  BY <1>3, <1>4, <1>5, <1>7, <1>8 DEF Refused
<1>10. Questioned(mild, r) => Refused(strict, s) \/ Questioned(strict, s)
  BY <1>3, <1>4, <1>5, <1>8 DEF Refused, Questioned
<1> QED BY <1>9, <1>10 DEF Evaluate, Strictness

(* policy.rs:3-9, nothing in a manifest can grant itself permission.        *)
LEMMA Monotone == IInv => PolicyMonotone
<1>1. ASSUME IInv, NEW p \in Positions, NEW strict \in PolicySet
      PROVE  plan[p] \in Planned /\ policy \in Policies /\ strict \in Policies
  BY <1>1, PlanFacts, PoliciesAssumption DEF IInv, Typed
<1> QED BY <1>1, EvaluateMonotone DEF PolicyMonotone

(* policy.rs:3-9: a stricter policy of the user, or less that vouches for a *)
(* resource, never makes a verdict milder.                                  *)
THEOREM NothingGrantsItself == Spec => []PolicyMonotone
BY ActivationInvariant, Monotone, PTL
-----------------------------------------------------------------------------
(* The consent gate.                                                       *)

(* A step of `execute` launches the resource it has come to, or none.       *)
LEMMA LaunchedGrows ==
    ASSUME IInv, PassOver \/ Obstructed \/ Launch
    PROVE  /\ phase = "dispatching"
           /\ UNCHANGED <<plan, phase, slots, ticked, granted>>
           /\ \/ Launched' = Launched
              \/ /\ Launched' = Launched \cup {Here}
                 /\ Here \in Positions
                 /\ approvals[Here] = "Approved"
                 /\ \A q \in Launched : q < Here
<1>1. PICK outcome \in OutcomeKinds, events \in Seq(Nat) : Dispatched(outcome, events)
  BY DispatchSteps
<1>2. /\ UNCHANGED <<plan, phase, slots, ticked, granted>>
      /\ trace' = trace \o events
      /\ phase = "dispatching" /\ Here \in Positions
  BY <1>1 DEF Dispatched, Record, Dispatching
<1>3. Joined(trace, events, trace')
  <2>1. trace \in Seq(Nat) /\ events \in Seq(Nat)
    BY <1>1 DEF IInv, Typed
  <2> QED BY <1>2, <2>1, Extended
<1>4. Positions \subseteq Nat \ {0} /\ Len(outcomes) \in Nat
  BY PlanFacts, LenProperties DEF IInv, Typed
<1>5. ASSUME NEW q \in Launched
      PROVE  q < Here
  <2>1. q \in Positions /\ q <= Len(outcomes)
    BY LaunchedMeans
  <2>2. q \in Nat
    BY <1>4, <2>1
  <2> QED BY <1>4, <2>1, <2>2 DEF Here
<1>6. CASE \A i \in DOMAIN events : events[i] = Sleep
  <2>1. Launched' = Launched
    BY <1>2, <1>3, <1>4, <1>6 DEF Launched, Joined, Sleep, Positions
  <2> QED BY <1>2, <2>1
<1>7. CASE \E i \in DOMAIN events : events[i] # Sleep
  <2>1. \A i \in DOMAIN events : events[i] \in {Sleep, Here}
    BY <1>1 DEF Dispatched
  <2>2. approvals[Here] = "Approved" /\ \E i \in DOMAIN events : events[i] = Here
    BY <1>1, <1>7 DEF Dispatched
  <2>3. Launched' = {p \in Positions : \E k \in DOMAIN trace' : trace'[k] = p}
    BY <1>2 DEF Launched, Positions
  <2>4. Launched' \subseteq Launched \cup {Here}
    BY <1>3, <1>4, <2>1, <2>3 DEF Launched, Joined, Sleep
  <2>5. Here \in Launched'
    <3>1. PICK i \in DOMAIN events : events[i] = Here
      BY <2>2
    <3>2. PICK k \in DOMAIN trace' : trace'[k] = events[i]
      BY <1>3, <3>1 DEF Joined
    <3> QED BY <1>2, <2>3, <3>1, <3>2
  <2>6. ASSUME NEW q \in Launched
        PROVE  q \in Launched'
    <3>1. PICK i \in DOMAIN trace : trace[i] = q
      BY DEF Launched
    <3>2. PICK k \in DOMAIN trace' : trace'[k] = trace[i]
      BY <1>3, <3>1 DEF Joined
    <3>3. q \in Positions
      BY DEF Launched
    <3> QED BY <2>3, <3>1, <3>2, <3>3
  <2> QED BY <1>2, <1>5, <2>2, <2>4, <2>5, <2>6
<1> QED BY <1>6, <1>7

(* What an activation does to the state of the gate.                        *)
Judges ==
    /\ phase = "planned" /\ phase' = "prepared"
    /\ DOMAIN slots' \subseteq 1 .. MaxResources
    /\ UNCHANGED <<ticked, granted, Launched>>
Answers ==
    /\ phase = "prepared" /\ phase' = "asked"
    /\ ticked' \subseteq 1 .. MaxResources /\ granted' \subseteq 1 .. MaxResources
    /\ UNCHANGED <<slots, Launched>>
Opens ==
    /\ phase = "dispatching"
    /\ UNCHANGED <<phase, slots, ticked, granted>>
    /\ Here \in 1 .. MaxResources
    /\ Here \in DOMAIN slots
    /\ slots[Here] = "Approved" \/ (slots[Here] = "ask" /\ Here \in granted)
    /\ \A q \in Launched : q < Here
    /\ Launched' = Launched \cup {Here}
Rests ==
    /\ \/ phase' = phase
       \/ phase = "asked" /\ phase' = "dispatching"
       \/ phase = "dispatching" /\ phase' = "reported"
    /\ UNCHANGED <<slots, ticked, granted, Launched>>

LEMMA GateSteps ==
    ASSUME IInv, [Next]_vars
    PROVE  Judges \/ Answers \/ Opens \/ Rests
<1>1. CASE Prepare
  <2>1. DOMAIN slots' = Positions
    BY <1>1 DEF Prepare
  <2> QED BY <1>1, <2>1, PlanFacts DEF Prepare, Judges, Launched, Positions, IInv, Typed
<1>2. CASE Asked
  <2>1. phase = "prepared"
    BY <1>2 DEF Asked, AskDialog, AskTerminal, AskPrompt, AskInVain, Ask
  <2>2. PICK answer \in SUBSET Positions, result \in SUBSET Offered : Ask(answer, result)
    BY <1>2, <2>1, GrantsAreOffered
  <2>3. Positions \subseteq 1 .. MaxResources
    BY PlanFacts DEF IInv, Typed
  <2>4. answer \subseteq 1 .. MaxResources /\ result \subseteq 1 .. MaxResources
    BY <2>2, <2>3 DEF Offered
  <2> QED BY <2>1, <2>2, <2>4 DEF Ask, Answers, Launched, Positions
<1>3. CASE Apply
  BY <1>3 DEF Apply, Rests, Launched, Positions
<1>4. CASE PassOver \/ Obstructed \/ Launch
  <2>1. CASE Launched' = Launched
    BY <1>4, <2>1, LaunchedGrows DEF Rests
  <2>2. CASE Launched' # Launched
    <3>1. /\ phase = "dispatching" /\ UNCHANGED <<plan, phase, slots, ticked, granted>>
          /\ Launched' = Launched \cup {Here} /\ Here \in Positions
          /\ approvals[Here] = "Approved" /\ \A q \in Launched : q < Here
      BY <1>4, <2>2, LaunchedGrows
    <3>2. slots[Here] = "Approved" \/ (slots[Here] = "ask" /\ Here \in granted)
      BY <3>1, DecidedMeans
    <3>3. DOMAIN slots = Positions /\ Positions \subseteq 1 .. MaxResources
      BY <3>1, PlanFacts DEF IInv, Typed, Judged
    <3> QED BY <3>1, <3>2, <3>3 DEF Opens
  <2> QED BY <2>1, <2>2
<1>5. CASE Report
  BY <1>5 DEF Report, Rests, Launched, Positions
<1>6. CASE UNCHANGED vars
  BY <1>6 DEF vars, Rests, Launched, Positions
<1> QED BY <1>1, <1>2, <1>3, <1>4, <1>5, <1>6 DEF Next, Asked

LEMMA GateInit ==
    ASSUME Init
    PROVE  /\ phase = "planned" /\ DOMAIN slots = {} /\ ticked = {} /\ granted = {}
           /\ Launched = {}
<1>1. DOMAIN slots = {} /\ DOMAIN trace = {}
  BY DEF Init
<1> QED BY <1>1 DEF Init, Launched

(* Where the ids of a plan are unique, a row ticked is the row granted.     *)
UniqueIds == \A p \in Plans : \A i, j \in DOMAIN p : p[i].id = p[j].id => i = j

LEMMA GrantedIsTicked ==
    ASSUME UniqueIds, IInv, granted \subseteq ticked, [Next]_vars
    PROVE  granted' \subseteq ticked'
<1>1. CASE AskDialog
  <2>1. PICK rows \in SUBSET Offered : Ask(rows, GrantedIndices(rows))
    BY <1>1 DEF AskDialog
  <2>2. ASSUME NEW p \in rows
        PROVE  FirstOffered(plan[p].id) = p
    <3>1. p \in Offered /\ p \in Positions
      BY <2>1, <2>2 DEF Offered
    <3>2. /\ FirstOffered(plan[p].id) \in Positions
          /\ plan[FirstOffered(plan[p].id)].id = plan[p].id
      BY <3>1, FirstOfferedIsOffered DEF IInv, Typed, Offered
    <3> QED BY <3>1, <3>2 DEF UniqueIds, IInv, Typed, Positions
  <2>3. GrantedIndices(rows) \subseteq rows
    BY <2>2 DEF GrantedIndices
  <2> QED BY <2>1, <2>3 DEF Ask
<1>2. CASE AskTerminal \/ AskPrompt \/ AskInVain
  BY <1>2 DEF AskTerminal, AskPrompt, AskInVain, Ask
<1>3. CASE UNCHANGED <<ticked, granted>>
  BY <1>3
<1>4. CASE Prepare \/ Apply \/ PassOver \/ Obstructed \/ Launch \/ Report \/ UNCHANGED vars
  BY <1>3, <1>4 DEF Prepare, Apply, PassOver, Obstructed, Launch, Report, Record, vars
<1> QED BY <1>1, <1>2, <1>4 DEF Next

LEMMA OnlyTicksGrant ==
    ASSUME UniqueIds
    PROVE  Spec => [](granted \subseteq ticked)
<1>1. Init => granted \subseteq ticked
  BY DEF Init
<1>2. IInv /\ granted \subseteq ticked /\ [Next]_vars => (granted \subseteq ticked)'
  BY GrantedIsTicked
<1> QED BY <1>1, <1>2, ActivationInvariant, PTL DEF Spec

(* consent_ui.rs:11: then every launch was allowed as it stood or ticked     *)
(* itself; what happens otherwise is run activation_dialog.                 *)
THEOREM TicksAreLaunches ==
    ASSUME UniqueIds
    PROVE  Spec => []OnlyTickedIsLaunched
<1>1. IInv /\ granted \subseteq ticked => OnlyTickedIsLaunched
  <2>1. ASSUME IInv, NEW p \in Launched
        PROVE  slots[p] = "Approved" \/ p \in granted
    BY <2>1, LaunchedMeans, DecidedMeans
  <2> QED BY <2>1 DEF OnlyTickedIsLaunched
<1> QED BY <1>1, OnlyTicksGrant, ActivationInvariant, PTL

(* consent_ui.rs:9-11: where no two resources of a plan have one id, an     *)
(* activation implements the consent gate with the user's own ticks for     *)
(* the yes.                                                                *)
THEOREM TicksAreTheGate ==
    ASSUME UniqueIds
    PROVE  Spec => ImplementsGate
<1>1. Init => Gate!Init
  BY GateInit DEF Gate!Init
<1>2. ASSUME IInv, granted \subseteq ticked, [Next]_vars
      PROVE  [Gate!Next]_(Gate!vars)
  <2>1. CASE Judges
    BY <2>1 DEF Judges, Gate!Next, Gate!Judge
  <2>2. CASE Answers
    BY <2>2 DEF Answers, Gate!Next, Gate!Answer
  <2>3. CASE Opens
    <3>1. Gate!Open(Here)
      BY <1>2, <2>3 DEF Opens, Gate!Open
    <3> QED BY <2>3, <3>1 DEF Opens, Gate!Next
  <2>4. CASE Rests
    BY <2>4 DEF Rests, Gate!vars
  <2> QED BY <1>2, <2>1, <2>2, <2>3, <2>4, GateSteps
<1> QED BY <1>1, <1>2, OnlyTicksGrant, ActivationInvariant, PTL
        DEF Spec, ImplementsGate, Gate!Spec

(* consent_ui.rs:133: whatever ids a plan has, it implements the gate with  *)
(* the positions the surface returned for the yes.                          *)
Grants == INSTANCE ConsentGate WITH
    Positions <- 1 .. MaxResources,
    stage <- CASE phase = "planned" -> "judging"
               [] phase = "prepared" -> "asking"
               [] OTHER -> "opening",
    free <- {p \in DOMAIN slots : slots[p] = "Approved"},
    refused <- {p \in DOMAIN slots : slots[p] \in {"Denied", "Skipped"}},
    yes <- granted,
    tried <- Launched

(* consent_ui.rs:9-11, for every plan: with what was granted in the place   *)
(* of what was ticked an activation implements the consent gate.            *)
THEOREM GrantsAreTheGate == Spec => Grants!Spec
<1>1. Init => Grants!Init
  BY GateInit DEF Grants!Init
<1>2. ASSUME IInv, [Next]_vars
      PROVE  [Grants!Next]_(Grants!vars)
  <2>1. CASE Judges
    BY <2>1 DEF Judges, Grants!Next, Grants!Judge
  <2>2. CASE Answers
    BY <2>2 DEF Answers, Grants!Next, Grants!Answer
  <2>3. CASE Opens
    <3>1. Grants!Open(Here)
      BY <2>3 DEF Opens, Grants!Open
    <3> QED BY <2>3, <3>1 DEF Opens, Grants!Next
  <2>4. CASE Rests
    BY <2>4 DEF Rests, Grants!vars
  <2> QED BY <1>2, <2>1, <2>2, <2>3, <2>4, GateSteps
<1> QED BY <1>1, <1>2, ActivationInvariant, PTL DEF Spec, Grants!Spec
=============================================================================
