------------------------------ MODULE Manifest ------------------------------
(***************************************************************************)
(* The resources of one manifest: what a well-formed list of them is       *)
(* (murl-core, manifest.rs) and which of them may be launched next         *)
(* (murl-core, graph.rs).                                                  *)
(*                                                                         *)
(* A resource is a record with at least the fields                         *)
(*   id         the identifier `dependsOn` and the `#selector` refer to    *)
(*   order      the author's tie break                                     *)
(*   dependsOn  the ids that must be launched first                        *)
(* and a manifest's resources are a sequence, in declaration order.        *)
(***************************************************************************)
EXTENDS Naturals, Sequences, FiniteSets

(* `index_of` takes the first resource that carries the id; an edge to an   *)
(* unknown id or to the resource itself is dropped.                        *)
Deps(rs, i) ==
    {j \in DOMAIN rs \ {i} : /\ rs[j].id \in rs[i].dependsOn
                             /\ \A k \in 1 .. (j - 1) : rs[k].id # rs[j].id}

(* The tie break (`order`, declaration index).                              *)
Precedes(rs, i, j) ==
    \/ rs[i].order < rs[j].order
    \/ rs[i].order = rs[j].order /\ i < j

(* The resources not launched yet whose dependencies all are.               *)
Ready(rs, done) == {i \in DOMAIN rs \ done : Deps(rs, i) \subseteq done}

(* Mutant of Pick: `order` decides before the dependencies do.              *)
MutPickIgnoresDeps(rs, done) ==
    CHOOSE i \in DOMAIN rs \ done :
        \A j \in (DOMAIN rs \ done) \ {i} : Precedes(rs, i, j)

(* The resource the launch order takes next.                                *)
Pick(rs, done) ==
    CHOOSE i \in Ready(rs, done) :
        \A j \in Ready(rs, done) \ {i} : Precedes(rs, i, j)

(* `dependsOn` has no cycle: every nonempty set of resources has a member   *)
(* that depends on no other member of it.                                  *)
Acyclic(rs) ==
    \A S \in SUBSET DOMAIN rs :
        S # {} => \E i \in S : Deps(rs, i) \cap S = {}

(* `validate_resources`: at least one resource, unique ids, dependencies    *)
(* that exist and are not the resource itself, no cycle. The limits on      *)
(* lengths and the grammar of ids, kinds and targets are the business of    *)
(* the field `wellFormed` of a manifest (module Resolver).                 *)
ValidResources(rs) ==
    /\ rs # <<>>
    /\ \A i, j \in DOMAIN rs : rs[i].id = rs[j].id => i = j
    /\ \A i \in DOMAIN rs :
          rs[i].dependsOn \subseteq {rs[j].id : j \in DOMAIN rs \ {i}}
    /\ Acyclic(rs)
=============================================================================
