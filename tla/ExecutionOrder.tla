--------------------------- MODULE ExecutionOrder ---------------------------
(***************************************************************************)
(* `execution_order` (murl-core, graph.rs): the launch order of one         *)
(* manifest's resources. Each round scans every index once, remembers the   *)
(* smallest ready one in `pick`, and appends it to `out`; a round that      *)
(* finds none while resources remain reports a `dependsOn` cycle.           *)
(***************************************************************************)
EXTENDS Manifest

CONSTANTS
    ResourceIds,   \* the ids resources carry and `dependsOn` may name
    Inputs         \* the resource lists the function is called with

(* Every input is a list of resources, with the fields the order reads.     *)
Resource == [id : ResourceIds, order : Nat, dependsOn : SUBSET ResourceIds]

ASSUME InputsAssumption == Inputs \subseteq Seq(Resource)

VARIABLES
    resources,   \* the argument
    out,         \* the order so far; `done[i]` holds iff i occurs in it
    at,          \* the index the scan looks at, `i` in the code
    pick,        \* the smallest ready index this scan has met, 0 for none
    result       \* "running", "order" (Ok(out)) or "cycle" (Err)

vars == <<resources, out, at, pick, result>>

N == Len(resources)
Done == {out[k] : k \in DOMAIN out}

Init ==
    /\ resources \in Inputs
    /\ out = <<>>
    /\ at = 1
    /\ pick = 0
    /\ result = "running"

(* Mutant of IsReady: only the first dependency is waited for.              *)
MutIsReadyAny(k) ==
    k \notin Done /\ (Deps(resources, k) # {} => Deps(resources, k) \cap Done # {})

IsReady(k) == k \notin Done /\ Deps(resources, k) \subseteq Done

(* Mutant of Better: ties are broken by the later index.                    *)
MutBetterLaterIndex(k, p) ==
    \/ p = 0
    \/ resources[k].order <= resources[p].order

(* The candidate k replaces the pick p.                                     *)
Better(k, p) == p = 0 \/ Precedes(resources, k, p)

Scan ==
    /\ result = "running"
    /\ Len(out) < N
    /\ at <= N
    /\ pick' = IF IsReady(at) /\ Better(at, pick) THEN at ELSE pick
    /\ at' = at + 1
    /\ UNCHANGED <<resources, out, result>>

Emit ==
    /\ result = "running"
    /\ Len(out) < N
    /\ at = N + 1
    /\ pick # 0
    /\ out' = Append(out, pick)
    /\ at' = 1
    /\ pick' = 0
    /\ UNCHANGED <<resources, result>>

(* Mutant of Stuck: a round without a pick is followed by another.          *)
MutStuckRescans ==
    /\ result = "running"
    /\ Len(out) < N
    /\ at = N + 1
    /\ pick = 0
    /\ at' = 1
    /\ UNCHANGED <<resources, out, pick, result>>

Stuck ==
    /\ result = "running"
    /\ Len(out) < N
    /\ at = N + 1
    /\ pick = 0
    /\ result' = "cycle"
    /\ UNCHANGED <<resources, out, at, pick>>

Finish ==
    /\ result = "running"
    /\ at = 1
    /\ Len(out) = N
    /\ result' = "order"
    /\ UNCHANGED <<resources, out, at, pick>>

Next == Scan \/ Emit \/ Stuck \/ Finish

Spec == Init /\ [][Next]_vars
FairSpec == Spec /\ WF_vars(Next)

-----------------------------------------------------------------------------
(* The values the loop's variables range over (graph.rs:34-36).             *)
TypeOK ==
    /\ resources \in Seq(Resource)
    /\ out \in Seq(1 .. N)
    /\ at \in 1 .. (N + 1)
    /\ pick \in 0 .. N
    /\ result \in {"running", "order", "cycle"}

(* graph.rs:5-6, "a resource is dispatched after everything it depends on": *)
(* at every moment whatever is in the order has its dependencies before it. *)
DependenciesFirst ==
    \A k \in DOMAIN out :
        Deps(resources, out[k]) \subseteq {out[m] : m \in 1 .. (k - 1)}

(* The function reports a cycle (graph.rs:57-68) only where there is one,   *)
(* and an order only where there is none.                                  *)
CycleIsReal ==
    /\ result = "cycle" => ~Acyclic(resources)
    /\ result = "order" => Acyclic(resources)

(* The permutations of the resources that respect `dependsOn`.              *)
Legal(p) ==
    \A k \in DOMAIN p : Deps(resources, p[k]) \subseteq {p[m] : m \in 1 .. (k - 1)}

Permutations1(n) ==
    {p \in [1 .. n -> 1 .. n] : \A a, b \in 1 .. n : p[a] = p[b] => a = b}

(* At the first position where p and q differ, p's resource precedes.       *)
Earlier(p, q) ==
    \E k \in DOMAIN p :
        /\ \A m \in 1 .. (k - 1) : p[m] = q[m]
        /\ p[k] # q[k]
        /\ Precedes(resources, p[k], q[k])

(* graph.rs:9-11, "makes plans stable across runs": the order returned is a *)
(* complete one, and among all that respect `dependsOn` it is the one that  *)
(* comes first by (`order`, index), so it depends on nothing but the        *)
(* manifest.                                                               *)
StableOrder ==
    result = "order" =>
        /\ out \in Permutations1(N)
        /\ Legal(out)
        /\ \A q \in Permutations1(N) : Legal(q) /\ q # out => Earlier(out, q)

(* What the resolver's own model of a launch order (Pick of module          *)
(* Manifest) rests on: each round appends the smallest ready resource.      *)
EmitsThePick ==
    [][out' # out => out' = Append(out, Pick(resources, Done))]_vars

(* The function returns on every input, cyclic ones included.               *)
Terminates == <>(result # "running")
=============================================================================
