--------------------------- MODULE ManifestProofs ---------------------------
(***************************************************************************)
(* Proofs about one manifest: the function that orders its resources        *)
(* (module ExecutionOrder), for every list of resources, and its dates      *)
(* (module Calendar). The inductive invariant of the function is TypeOK      *)
(* together with Scanned, the loop invariant of the inner scan, and          *)
(* DependenciesFirst.                                                       *)
(***************************************************************************)
EXTENDS ExecutionOrder, Calendar, SequenceTheorems, FiniteSetTheorems,
        WellFoundedInduction, TLAPS

(* A nonempty set of naturals has a least member.                           *)
LEMMA LeastNatural ==
    ASSUME NEW T \in SUBSET Nat, T # {}
    PROVE  \E m \in T : \A k \in T : m <= k
<1>1. IsWellFoundedOn(OpToRel(<, Nat), Nat)
  BY NatLessThanWellFounded
<1>2. PICK m \in T : \A k \in T : <<k, m>> \notin OpToRel(<, Nat)
  BY <1>1, WFMin
<1>3. \A k \in T : ~(k < m)
  BY <1>2 DEF OpToRel
<1>. QED
  BY <1>3

(* Among any resources not empty in number one precedes all the others.     *)
LEMMA LeastResource ==
    ASSUME NEW rs,
           NEW S \in SUBSET Nat, S # {},
           \A i \in S : rs[i].order \in Nat
    PROVE  \E i \in S : \A j \in S \ {i} : Precedes(rs, i, j)
<1>. DEFINE Orders == {rs[i].order : i \in S}
<1>1. PICK o \in Orders : \A k \in Orders : o <= k
  <2>1. Orders \in SUBSET Nat
    OBVIOUS
  <2>2. Orders # {}
    OBVIOUS
  <2>. HIDE DEF Orders
  <2>. QED
    BY <2>1, <2>2, LeastNatural
<1>. DEFINE First == {i \in S : rs[i].order = o}
<1>2. PICK i \in First : \A k \in First : i <= k
  <2>1. First # {} /\ First \in SUBSET Nat
    BY <1>1
  <2>. QED
    BY <2>1, LeastNatural
<1>3. ASSUME NEW j \in S \ {i}
      PROVE  Precedes(rs, i, j)
  <2>1. CASE rs[j].order = o
    BY <1>2, <2>1 DEF Precedes
  <2>2. CASE rs[j].order # o
    <3>1. o <= rs[j].order /\ rs[i].order = o
      BY <1>1, <1>2
    <3>. QED
      BY <2>2, <3>1 DEF Precedes
  <2>. QED
    BY <2>1, <2>2
<1>. QED
  BY <1>2, <1>3

(* As long as resources remain, an acyclic manifest has one that is ready.  *)
LEMMA SomethingReady ==
    ASSUME NEW rs, Acyclic(rs),
           NEW done, done \subseteq DOMAIN rs, done # DOMAIN rs
    PROVE  Ready(rs, done) # {}
<1>1. PICK i \in DOMAIN rs \ done : Deps(rs, i) \cap (DOMAIN rs \ done) = {}
  BY DEF Acyclic
<1>2. Deps(rs, i) \subseteq DOMAIN rs
  BY DEF Deps
<1>. QED
  BY <1>1, <1>2 DEF Ready

(* The launch loop's choice: a resource that has not been launched and      *)
(* whose dependencies have.                                                *)
LEMMA PickIsReady ==
    ASSUME NEW rs, DOMAIN rs \subseteq Nat,
           \A i \in DOMAIN rs : rs[i].order \in Nat,
           Acyclic(rs),
           NEW done, done \subseteq DOMAIN rs, done # DOMAIN rs
    PROVE  /\ Pick(rs, done) \in DOMAIN rs \ done
           /\ Deps(rs, Pick(rs, done)) \subseteq done
<1>1. Ready(rs, done) # {} /\ Ready(rs, done) \subseteq DOMAIN rs
  BY SomethingReady DEF Ready
<1>2. \E i \in Ready(rs, done) : \A j \in Ready(rs, done) \ {i} : Precedes(rs, i, j)
  BY <1>1, LeastResource
<1>3. Pick(rs, done) \in Ready(rs, done)
  BY <1>2 DEF Pick
<1>. QED
  BY <1>3 DEF Ready

-----------------------------------------------------------------------------
(* `pick` is the smallest of the ready resources the scan has passed.       *)
Scanned ==
    /\ pick # 0 => pick \in Ready(resources, Done) /\ pick < at
    /\ \A k \in Ready(resources, Done) :
          k < at => pick # 0 /\ (k # pick => Precedes(resources, pick, k))

-----------------------------------------------------------------------------
(* The types of what the functions reads.                                  *)
LEMMA ListFacts ==
    ASSUME TypeOK
    PROVE  /\ N \in Nat
           /\ DOMAIN resources = 1 .. N
           /\ \A k \in 1 .. N : resources[k].order \in Nat
           /\ Len(out) \in Nat
           /\ DOMAIN out = 1 .. Len(out)
           /\ Done \subseteq 1 .. N
<1>1. /\ N \in Nat
      /\ DOMAIN resources = 1 .. N
      /\ \A k \in 1 .. N : resources[k] \in Resource
  BY LenProperties DEF TypeOK, N
<1>2. out \in Seq(1 .. N)
  BY DEF TypeOK
<1>3. Len(out) \in Nat /\ DOMAIN out = 1 .. Len(out) /\ \A k \in 1 .. Len(out) : out[k] \in 1 .. N
  BY <1>2, LenProperties
<1>. QED
  BY <1>1, <1>3 DEF Resource, Done

(* (`order`, index) is a strict total order.                                *)
LEMMA PrecedesOrders ==
    ASSUME NEW rs, NEW i \in Nat, NEW j \in Nat, NEW k \in Nat,
           rs[i].order \in Nat, rs[j].order \in Nat, rs[k].order \in Nat
    PROVE  /\ Precedes(rs, i, j) => ~Precedes(rs, j, i)
           /\ i # j /\ ~Precedes(rs, i, j) => Precedes(rs, j, i)
           /\ Precedes(rs, i, j) /\ Precedes(rs, j, k) => Precedes(rs, i, k)
BY DEF Precedes

(* A ready resource that precedes every other one is the Pick.              *)
LEMMA PickIsLeast ==
    ASSUME NEW rs, NEW done, NEW p \in Ready(rs, done),
           DOMAIN rs \subseteq Nat,
           \A i \in DOMAIN rs : rs[i].order \in Nat,
           \A k \in Ready(rs, done) \ {p} : Precedes(rs, p, k)
    PROVE  Pick(rs, done) = p
<1>. DEFINE q == Pick(rs, done)
<1>1. q \in Ready(rs, done) /\ \A k \in Ready(rs, done) \ {q} : Precedes(rs, q, k)
  BY DEF Pick
<1>. HIDE DEF q
<1>2. p \in DOMAIN rs /\ q \in DOMAIN rs
  BY <1>1 DEF Ready
<1>3. p # q => Precedes(rs, p, q) /\ Precedes(rs, q, p)
  BY <1>1
<1>4. p = q
  BY <1>2, <1>3, PrecedesOrders
<1>. QED
  BY <1>4 DEF q

(* What a completed round appends.                                          *)
LEMMA EmitFacts ==
    ASSUME TypeOK, Scanned, Emit
    PROVE  /\ pick \in 1 .. N
           /\ Deps(resources, pick) \subseteq Done
           /\ pick = Pick(resources, Done)
           /\ out' \in Seq(1 .. N)
           /\ Len(out') = Len(out) + 1
           /\ \A k \in 1 .. Len(out) : out'[k] = out[k]
           /\ out'[Len(out) + 1] = pick
<1>1. pick \in Ready(resources, Done) /\ at = N + 1 /\ pick # 0
  BY DEF Emit, Scanned
<1>2. pick \in 1 .. N /\ Deps(resources, pick) \subseteq Done
  BY <1>1, ListFacts DEF Ready
<1>3. \A k \in Ready(resources, Done) \ {pick} : Precedes(resources, pick, k)
  <2>1. \A k \in Ready(resources, Done) : k < at
    BY <1>1, ListFacts DEF Ready
  <2>. QED
    BY <2>1 DEF Scanned
<1>4. pick = Pick(resources, Done)
  BY <1>1, <1>3, ListFacts, PickIsLeast
<1>5. out \in Seq(1 .. N) /\ out' = Append(out, pick)
  BY DEF TypeOK, Emit
<1>. QED
  BY <1>2, <1>4, <1>5, AppendProperties

-----------------------------------------------------------------------------
Invariant == TypeOK /\ Scanned /\ DependenciesFirst

LEMMA InvariantInit == Init => Invariant
<1>. SUFFICES ASSUME Init PROVE Invariant
  OBVIOUS
<1>1. resources \in Seq(Resource)
  BY InputsAssumption DEF Init
<1>2. N \in Nat /\ DOMAIN resources = 1 .. N
  BY <1>1, LenProperties DEF N
<1>3. out = <<>> /\ out \in Seq(1 .. N) /\ DOMAIN out = {}
  BY EmptySeq DEF Init
<1>4. TypeOK
  BY <1>1, <1>2, <1>3 DEF Init, TypeOK
<1>5. Scanned
  BY <1>2 DEF Init, Scanned, Ready
<1>. QED
  BY <1>3, <1>4, <1>5 DEF Invariant, DependenciesFirst

LEMMA ScanKeeps == Invariant /\ Scan => Invariant'
<1>. SUFFICES ASSUME Invariant, Scan PROVE Invariant'
  OBVIOUS
<1>1. /\ TypeOK /\ Scanned /\ DependenciesFirst
      /\ at \in 1 .. N /\ at' = at + 1
      /\ pick' = IF IsReady(at) /\ Better(at, pick) THEN at ELSE pick
      /\ UNCHANGED <<resources, out, result>>
  BY ListFacts DEF Invariant, Scan, TypeOK
<1>2. N' = N /\ Done' = Done
  BY <1>1 DEF N, Done
<1>3. pick \in 0 .. N /\ N \in Nat
  BY <1>1, ListFacts DEF TypeOK
<1>4. TypeOK'
  BY <1>1, <1>2, <1>3 DEF TypeOK
<1>5. at \in Ready(resources, Done) <=> IsReady(at)
  BY <1>1, ListFacts DEF Ready, IsReady
<1>6. ASSUME NEW k \in Ready(resources, Done), k < at + 1, k # at
      PROVE  pick # 0 /\ (k # pick => Precedes(resources, pick, k))
  <2>1. k \in 1 .. N
    BY <1>1, <1>6, ListFacts DEF Ready
  <2>2. k < at
    BY <1>1, <1>6, <2>1
  <2>. QED
    BY <1>1, <1>6, <2>2 DEF Scanned
<1>7. Scanned'
  <2>1. CASE IsReady(at) /\ Better(at, pick)
    <3>1. pick' = at
      BY <1>1, <2>1
    <3>2. ASSUME NEW k \in Ready(resources, Done), k < at + 1, k # at
          PROVE  Precedes(resources, at, k)
      <4>1. pick # 0 /\ (k # pick => Precedes(resources, pick, k))
        BY <1>6, <3>2
      <4>2. Precedes(resources, at, pick)
        BY <2>1, <4>1 DEF Better
      <4>3. k \in 1 .. N /\ pick \in 1 .. N
        BY <1>1, <1>3, <4>1, ListFacts DEF Ready
      <4>4. resources[k].order \in Nat /\ resources[pick].order \in Nat
            /\ resources[at].order \in Nat
        BY <1>1, <4>3, ListFacts
      <4>. QED
        BY <1>1, <1>3, <4>1, <4>2, <4>3, <4>4, PrecedesOrders
    <3>. QED
      BY <1>1, <1>2, <1>3, <1>5, <2>1, <3>1, <3>2 DEF Scanned
  <2>2. CASE ~(IsReady(at) /\ Better(at, pick))
    <3>1. pick' = pick
      BY <1>1, <2>2
    <3>2. pick # 0 => pick \in Ready(resources, Done) /\ pick < at + 1
      BY <1>1, <1>3 DEF Scanned
    <3>3. at \in Ready(resources, Done) => pick # 0 /\ Precedes(resources, pick, at)
      <4>1. SUFFICES ASSUME at \in Ready(resources, Done)
                     PROVE  pick # 0 /\ Precedes(resources, pick, at)
        OBVIOUS
      <4>2. pick # 0 /\ ~Precedes(resources, at, pick)
        BY <1>5, <2>2, <4>1 DEF Better
      <4>3. pick \in 1 .. N /\ pick # at
        BY <1>1, <1>3, <4>2 DEF Scanned
      <4>4. resources[pick].order \in Nat /\ resources[at].order \in Nat
        BY <1>1, <4>3, ListFacts
      <4>. QED
        BY <1>1, <1>3, <4>2, <4>3, <4>4, PrecedesOrders
    <3>. QED
      BY <1>1, <1>2, <1>6, <3>1, <3>2, <3>3 DEF Scanned
  <2>. QED
    BY <2>1, <2>2
<1>8. DependenciesFirst'
  BY <1>1 DEF DependenciesFirst
<1>. QED
  BY <1>4, <1>7, <1>8 DEF Invariant

LEMMA EmitKeeps == Invariant /\ Emit => Invariant'
<1>. SUFFICES ASSUME Invariant, Emit PROVE Invariant'
  OBVIOUS
<1>1. TypeOK /\ Scanned /\ DependenciesFirst
  BY DEF Invariant
<1>2. resources' = resources /\ at' = 1 /\ pick' = 0 /\ result' = result
  BY DEF Emit
<1>3. N' = N /\ N \in Nat
  BY <1>1, <1>2, ListFacts DEF N
<1>4. TypeOK'
  BY <1>1, <1>2, <1>3, EmitFacts DEF TypeOK
<1>5. Scanned'
  <2>1. \A k \in Ready(resources', Done') : k \in 1 .. N
    BY <1>1, <1>2, ListFacts DEF Ready
  <2>. QED
    BY <1>2, <2>1 DEF Scanned
<1>6. DependenciesFirst'
  <2>1. /\ DOMAIN out = 1 .. Len(out) /\ Len(out) \in Nat
        /\ DOMAIN out' = 1 .. (Len(out) + 1)
    BY <1>1, ListFacts, EmitFacts, LenProperties
  <2>2. ASSUME NEW k \in DOMAIN out'
        PROVE  Deps(resources, out'[k]) \subseteq {out'[m] : m \in 1 .. (k - 1)}
    <3>1. CASE k \in 1 .. Len(out)
      <4>1. out'[k] = out[k] /\ \A m \in 1 .. (k - 1) : out'[m] = out[m]
        BY <1>1, <2>1, <3>1, EmitFacts
      <4>2. Deps(resources, out[k]) \subseteq {out[m] : m \in 1 .. (k - 1)}
        BY <1>1, <2>1, <3>1 DEF DependenciesFirst
      <4>. QED
        BY <4>1, <4>2
    <3>2. CASE k = Len(out) + 1
      <4>1. out'[k] = pick /\ Deps(resources, pick) \subseteq Done
        BY <1>1, <3>2, EmitFacts
      <4>2. \A m \in 1 .. Len(out) : out'[m] = out[m]
        BY <1>1, EmitFacts
      <4>3. (1 .. (k - 1)) = DOMAIN out
        BY <2>1, <3>2
      <4>. QED
        BY <2>1, <4>1, <4>2, <4>3 DEF Done
    <3>. QED
      BY <2>1, <2>2, <3>1, <3>2
  <2>. QED
    BY <1>2, <2>2 DEF DependenciesFirst
<1>. QED
  BY <1>4, <1>5, <1>6 DEF Invariant

LEMMA InvariantNext == Invariant /\ [Next]_vars => Invariant'
<1>. SUFFICES ASSUME Invariant, [Next]_vars PROVE Invariant'
  OBVIOUS
<1>1. CASE Scan
  BY <1>1, ScanKeeps
<1>2. CASE Emit
  BY <1>2, EmitKeeps
<1>3. CASE Stuck \/ Finish \/ UNCHANGED vars
  <2>1. /\ UNCHANGED <<resources, out, at, pick>>
        /\ result' \in {"running", "order", "cycle"}
    BY <1>3 DEF Stuck, Finish, vars, Invariant, TypeOK
  <2>2. N' = N /\ Done' = Done
    BY <2>1 DEF N, Done
  <2>. QED
    BY <2>1, <2>2 DEF Invariant, TypeOK, Scanned, DependenciesFirst
<1>. QED
  BY <1>1, <1>2, <1>3 DEF Next

-----------------------------------------------------------------------------
(* What has been emitted, and what a returned result says of it.            *)
Before(k) == {out[m] : m \in 1 .. (k - 1)}

Distinct == \A a, b \in DOMAIN out : out[a] = out[b] => a = b

(* Every emitted resource precedes all that were ready when it was picked.  *)
Greedy ==
    \A k \in DOMAIN out :
        \A j \in Ready(resources, Before(k)) \ {out[k]} : Precedes(resources, out[k], j)

Returned ==
    /\ result = "cycle" => Len(out) < N /\ Ready(resources, Done) = {}
    /\ result = "order" => Len(out) = N

Built == Distinct /\ Greedy /\ Returned

LEMMA BuiltInit == Init => Built
BY EmptySeq DEF Init, Built, Distinct, Greedy, Returned

LEMMA EmitBuilds == Invariant /\ Built /\ Emit => Built'
<1>. SUFFICES ASSUME Invariant, Built, Emit PROVE Built'
  OBVIOUS
<1>1. TypeOK /\ Scanned /\ Distinct /\ Greedy
  BY DEF Invariant, Built
<1>2. resources' = resources /\ result' = "running" /\ at = N + 1 /\ pick # 0
  BY DEF Emit
<1>3. /\ DOMAIN out = 1 .. Len(out) /\ Len(out) \in Nat
      /\ DOMAIN out' = 1 .. (Len(out) + 1)
      /\ \A k \in 1 .. Len(out) : out'[k] = out[k]
      /\ out'[Len(out) + 1] = pick
  BY <1>1, ListFacts, EmitFacts, LenProperties
<1>4. pick \in Ready(resources, Done)
  BY <1>1, <1>2 DEF Scanned
<1>5. Distinct'
  <2>1. \A k \in 1 .. Len(out) : out[k] # pick
    BY <1>3, <1>4 DEF Ready, Done
  <2>. QED
    BY <1>1, <1>3, <2>1 DEF Distinct
<1>6. Greedy'
  <2>1. \A k \in 1 .. (Len(out) + 1) : Before(k)' = Before(k)
    BY <1>3 DEF Before
  <2>2. Before(Len(out) + 1) = Done
    BY <1>3 DEF Before, Done
  <2>3. \A j \in Ready(resources, Done) \ {pick} : Precedes(resources, pick, j)
    <3>1. \A j \in Ready(resources, Done) : j < at
      BY <1>1, <1>2, ListFacts DEF Ready
    <3>. QED
      BY <1>1, <3>1 DEF Scanned
  <2>. QED
    BY <1>1, <1>2, <1>3, <2>1, <2>2, <2>3 DEF Greedy
<1>. QED
  BY <1>2, <1>5, <1>6 DEF Built, Returned

LEMMA BuiltNext == Invariant /\ Built /\ [Next]_vars => Built'
<1>. SUFFICES ASSUME Invariant, Built, [Next]_vars PROVE Built'
  OBVIOUS
<1>1. CASE Emit
  BY <1>1, EmitBuilds
<1>2. CASE Scan \/ Stuck \/ Finish \/ UNCHANGED vars
  <2>1. UNCHANGED <<resources, out>>
    BY <1>2 DEF Scan, Stuck, Finish, vars
  <2>2. N' = N /\ Done' = Done /\ \A k : Before(k)' = Before(k)
    BY <2>1 DEF N, Done, Before
  <2>3. Distinct' /\ Greedy'
    BY <2>1, <2>2 DEF Built, Distinct, Greedy
  <2>4. Returned'
    <3>1. CASE Stuck
      <4>1. pick = 0 /\ at = N + 1 /\ Len(out) < N /\ result' = "cycle"
        BY <3>1 DEF Stuck
      <4>2. \A k \in Ready(resources, Done) : k < at
        BY <4>1, ListFacts DEF Ready, Invariant
      <4>3. Ready(resources, Done) = {}
        BY <4>1, <4>2 DEF Scanned, Invariant
      <4>. QED
        BY <2>1, <2>2, <4>1, <4>3 DEF Returned
    <3>2. CASE Finish
      BY <2>1, <2>2, <3>2 DEF Returned, Finish
    <3>3. CASE Scan \/ UNCHANGED vars
      BY <2>1, <2>2, <3>3 DEF Returned, Built, Scan, vars
    <3>. QED
      BY <1>2, <3>1, <3>2, <3>3
  <2>. QED
    BY <2>3, <2>4 DEF Built
<1>. QED
  BY <1>1, <1>2 DEF Next

(* As many entries as resources, none twice, are all resources; fewer are   *)
(* not.                                                                    *)
LEMMA DoneWhenFull ==
    ASSUME TypeOK, Distinct
    PROVE  /\ Len(out) = N => Done = 1 .. N /\ out \in Permutations1(N)
           /\ Len(out) < N => Done # 1 .. N
<1>1. N \in Nat /\ Len(out) \in Nat /\ DOMAIN out = 1 .. Len(out) /\ Done \subseteq 1 .. N
  BY ListFacts
<1>2. out \in [1 .. Len(out) -> 1 .. N]
  BY LenProperties DEF TypeOK
<1>3. IsFiniteSet(1 .. N) /\ Cardinality(1 .. N) = N
  BY <1>1, FS_Interval
<1>4. ASSUME Len(out) = N
      PROVE  Done = 1 .. N /\ out \in Permutations1(N)
  <2>1. out \in Injection(1 .. N, 1 .. N)
    BY <1>1, <1>2, <1>4 DEF Injection, IsInjective, Distinct
  <2>2. out \in Surjection(1 .. N, 1 .. N)
    BY <1>3, <2>1, FS_Injection
  <2>3. Done = 1 .. N
    BY <1>1, <1>4, <2>2 DEF Surjection, Done
  <2>. QED
    BY <1>1, <1>2, <1>4, <2>3 DEF Permutations1, Distinct
<1>5. ASSUME Len(out) < N, Done = 1 .. N
      PROVE  FALSE
  <2>1. out \in Surjection(1 .. Len(out), 1 .. N)
    BY <1>1, <1>2, <1>5 DEF Surjection, Done
  <2>2. Cardinality(1 .. N) <= Len(out)
    BY <1>1, <2>1, FS_SurjCardinalityBound DEF ExistsSurjection
  <2>. QED
    BY <1>1, <1>3, <1>5, <2>2
<1>. QED
  BY <1>4, <1>5

LEMMA CycleFound ==
    ASSUME TypeOK, Built, result = "cycle"
    PROVE  ~Acyclic(resources)
<1>1. Len(out) < N /\ Ready(resources, Done) = {} /\ Done \subseteq 1 .. N /\ DOMAIN resources = 1 .. N
  BY ListFacts DEF Built, Returned
<1>2. Done # 1 .. N
  BY <1>1, DoneWhenFull DEF Built
<1>. DEFINE S == DOMAIN resources \ Done
<1>3. S \in SUBSET DOMAIN resources /\ S # {}
  BY <1>1, <1>2
<1>4. ASSUME NEW i \in S PROVE Deps(resources, i) \cap S # {}
  <2>1. ~(Deps(resources, i) \subseteq Done)
    BY <1>1, <1>4 DEF Ready
  <2>. QED
    BY <2>1 DEF Deps
<1>. QED
  BY <1>3, <1>4 DEF Acyclic

LEMMA NoCycleLeft ==
    ASSUME TypeOK, Built, DependenciesFirst, result = "order"
    PROVE  Acyclic(resources)
<1>1. Done = DOMAIN resources /\ DOMAIN out \subseteq Nat
  BY DoneWhenFull, ListFacts DEF Built, Returned
<1>2. ASSUME NEW S \in SUBSET DOMAIN resources, S # {}
      PROVE  \E i \in S : Deps(resources, i) \cap S = {}
  <2>. DEFINE T == {k \in DOMAIN out : out[k] \in S}
  <2>1. T \in SUBSET Nat /\ T # {}
    BY <1>1, <1>2 DEF Done
  <2>2. PICK k \in T : \A m \in T : k <= m
    BY <2>1, LeastNatural
  <2>3. Deps(resources, out[k]) \subseteq {out[m] : m \in 1 .. (k - 1)}
    BY <2>2 DEF DependenciesFirst
  <2>4. ASSUME NEW m \in 1 .. (k - 1) PROVE out[m] \notin S
    <3>1. m \in DOMAIN out /\ ~(k <= m)
      BY <1>1, <2>1, <2>2, ListFacts
    <3>. QED
      BY <2>2, <3>1
  <2>. QED
    BY <2>2, <2>3, <2>4
<1>. QED
  BY <1>2 DEF Acyclic

LEMMA SameFunction ==
    ASSUME NEW S, NEW T, NEW f \in [S -> T], NEW g \in [S -> T], \A x \in S : f[x] = g[x]
    PROVE  f = g
OBVIOUS

(* Where another legal order first differs, its resource was ready too.     *)
LEMMA EveryOtherLater ==
    ASSUME TypeOK, Built, result = "order",
           NEW q \in Permutations1(N), Legal(q), q # out
    PROVE  Earlier(out, q)
<1>1. /\ N \in Nat /\ DOMAIN resources = 1 .. N
      /\ out \in [1 .. N -> 1 .. N] /\ q \in [1 .. N -> 1 .. N]
      /\ \A a, b \in 1 .. N : q[a] = q[b] => a = b
  BY DoneWhenFull, ListFacts DEF Built, Returned, Permutations1
<1>. DEFINE T == {k \in 1 .. N : out[k] # q[k]}
<1>2. T \in SUBSET Nat /\ T # {}
  <2>1. \E k \in 1 .. N : out[k] # q[k]
    BY <1>1, SameFunction
  <2>2. 1 .. N \subseteq Nat
    BY <1>1
  <2>. QED
    BY <2>1, <2>2
<1>3. PICK k \in T : \A m \in T : k <= m
  BY <1>2, LeastNatural
<1>4. k \in 1 .. N /\ out[k] # q[k] /\ \A m \in 1 .. (k - 1) : m \in 1 .. N /\ out[m] = q[m]
  BY <1>1, <1>3
<1>5. q[k] \in Ready(resources, Before(k))
  <2>1. q[k] \notin Before(k)
    BY <1>1, <1>4 DEF Before
  <2>2. Deps(resources, q[k]) \subseteq {q[m] : m \in 1 .. (k - 1)}
    BY <1>1, <1>4 DEF Legal
  <2>3. {q[m] : m \in 1 .. (k - 1)} = Before(k)
    BY <1>4 DEF Before
  <2>. QED
    BY <1>1, <1>4, <2>1, <2>2, <2>3 DEF Ready
<1>6. Precedes(resources, out[k], q[k])
  BY <1>1, <1>4, <1>5 DEF Built, Greedy
<1>. QED
  BY <1>1, <1>4, <1>6 DEF Earlier

-----------------------------------------------------------------------------
(* graph.rs:34-36: the loop's variables stay within the list.               *)
THEOREM OrderTypes == Spec => []TypeOK
<1>1. Invariant => TypeOK
  BY DEF Invariant
<1>. QED
  BY <1>1, InvariantInit, InvariantNext, PTL DEF Spec

(* graph.rs:5-6: in every order the function builds, of any length, a       *)
(* resource comes after all it depends on.                                  *)
THEOREM OrderRespectsDependencies == Spec => []DependenciesFirst
<1>1. Invariant => DependenciesFirst
  BY DEF Invariant
<1>. QED
  BY <1>1, InvariantInit, InvariantNext, PTL DEF Spec

(* The scan of graph.rs:36-51 finds the Pick by which module Resolver       *)
(* models the order, whatever the list.                                     *)
THEOREM OrderEmitsThePick == Spec => EmitsThePick
<1>1. Invariant /\ [Next]_vars => [out' # out => out' = Append(out, Pick(resources, Done))]_vars
  <2>. SUFFICES ASSUME Invariant, [Next]_vars
                PROVE  out' = out \/ out' = Append(out, Pick(resources, Done))
    OBVIOUS
  <2>1. CASE Emit
    BY <2>1, EmitFacts DEF Invariant, Emit
  <2>2. CASE Scan \/ Stuck \/ Finish \/ UNCHANGED vars
    BY <2>2 DEF Scan, Stuck, Finish, vars
  <2>. QED
    BY <2>1, <2>2 DEF Next
<1>. QED
  BY <1>1, InvariantInit, InvariantNext, PTL DEF Spec, EmitsThePick

(* graph.rs:57-68: for every list, an error means that there is a cycle,    *)
(* and an order that there is none.                                        *)
THEOREM OrderReportsCycles == Spec => []CycleIsReal
<1>1. Invariant /\ Built => CycleIsReal
  BY CycleFound, NoCycleLeft DEF Invariant, CycleIsReal
<1>. QED
  BY <1>1, InvariantInit, InvariantNext, BuiltInit, BuiltNext, PTL DEF Spec

(* graph.rs:9-11: for every list, the order is complete, respects           *)
(* `dependsOn`, and comes before every other that does.                     *)
THEOREM OrderIsTheFirst == Spec => []StableOrder
<1>1. Invariant /\ Built => StableOrder
  <2>. SUFFICES ASSUME Invariant, Built, result = "order"
                PROVE  /\ out \in Permutations1(N)
                       /\ Legal(out)
                       /\ \A q \in Permutations1(N) : Legal(q) /\ q # out => Earlier(out, q)
    BY DEF StableOrder
  <2>1. out \in Permutations1(N)
    BY DoneWhenFull DEF Invariant, Built, Returned
  <2>2. Legal(out)
    BY DEF Invariant, DependenciesFirst, Legal
  <2>3. \A q \in Permutations1(N) : Legal(q) /\ q # out => Earlier(out, q)
    BY EveryOtherLater DEF Invariant
  <2>. QED
    BY <2>1, <2>2, <2>3
<1>. QED
  BY <1>1, InvariantInit, InvariantNext, BuiltInit, BuiltNext, PTL DEF Spec

-----------------------------------------------------------------------------
(* Dates. By days of years that begin in March: the days before a month of  *)
(* its year, and those before a year.                                       *)
MonthStart(month) == (153 * (IF month > 2 THEN month - 3 ELSE month + 9) + 2) \div 5
YearStart(y) == y * 365 + y \div 4 - y \div 100 + y \div 400

MarchYear(year, month) == IF month <= 2 THEN year - 1 ELSE year
FirstOf(year, month) == YearStart(MarchYear(year, month)) + MonthStart(month) - DaysBeforeEpoch

LEMMA ByYear ==
    \A year \in Nat \ {0}, month \in 1 .. 12, day \in Int :
        DaysFromCivil(year, month, day) = FirstOf(year, month) + day - 1
<1> SUFFICES ASSUME NEW year \in Nat \ {0}, NEW month \in 1 .. 12, NEW day \in Int
             PROVE  DaysFromCivil(year, month, day) = FirstOf(year, month) + day - 1
  OBVIOUS
<1> DEFINE y == MarchYear(year, month)
           e == y \div 400
           r == y - e * 400
<1>1. y \in Nat /\ y = e * 400 + r /\ e \in Nat /\ r \in 0 .. 399
  BY DEF MarchYear
<1>2. y \div 4 = e * 100 + r \div 4 /\ y \div 100 = e * 4 + r \div 100
  <2> HIDE DEF y, e, r
  <2> QED BY <1>1
<1> QED BY <1>1, <1>2, SMT DEF DaysFromCivil, YearStart, MonthStart, FirstOf, MarchYear, DaysBeforeEpoch

LEMMA NextYearStart ==
    ASSUME NEW y \in Nat
    PROVE  YearStart(y + 1) = YearStart(y) + 365 + IF IsLeap(y + 1) THEN 1 ELSE 0
<1>1. (y + 1) \div 4 = y \div 4 + IF (y + 1) % 4 = 0 THEN 1 ELSE 0
  OBVIOUS
<1>2. (y + 1) \div 100 = y \div 100 + IF (y + 1) % 100 = 0 THEN 1 ELSE 0
  OBVIOUS
<1>3. (y + 1) \div 400 = y \div 400 + IF (y + 1) % 400 = 0 THEN 1 ELSE 0
  OBVIOUS
<1>4. (y + 1) % 400 = 0 => (y + 1) % 100 = 0
  OBVIOUS
<1>5. (y + 1) % 100 = 0 => (y + 1) % 4 = 0
  OBVIOUS
<1> QED BY <1>1, <1>2, <1>3, <1>4, <1>5 DEF YearStart, IsLeap

LEMMA LaterYearStart ==
    ASSUME NEW y \in Nat, NEW z \in Nat, y <= z
    PROVE  YearStart(y) <= YearStart(z)
<1>1. y \div 4 <= z \div 4 /\ y \div 400 <= z \div 400
  OBVIOUS
<1>2. z \div 100 - y \div 100 <= z - y
  OBVIOUS
<1>3. z \div 4 \in Int /\ z \div 100 \in Int /\ z \div 400 \in Int /\ y \div 4 \in Int /\ y \div 100 \in Int /\ y \div 400 \in Int
  OBVIOUS
<1> QED BY <1>1, <1>2, <1>3 DEF YearStart

LEMMA MonthStarts ==
    /\ MonthStart(3) = 0 /\ MonthStart(4) = 31 /\ MonthStart(5) = 61 /\ MonthStart(6) = 92
    /\ MonthStart(7) = 122 /\ MonthStart(8) = 153 /\ MonthStart(9) = 184 /\ MonthStart(10) = 214
    /\ MonthStart(11) = 245 /\ MonthStart(12) = 275 /\ MonthStart(1) = 306 /\ MonthStart(2) = 337
BY SMT DEF MonthStart

LEMMA YearStartInt == \A y \in Nat : YearStart(y) \in Int
BY SMT DEF YearStart

LEMMA FirstOfInt ==
    \A year \in Nat \ {0}, month \in 1 .. 12 : FirstOf(year, month) \in Int
BY SMT DEF FirstOf, YearStart, MonthStart, MarchYear, DaysBeforeEpoch

LEMMA DayOf ==
    ASSUME NEW year \in Nat \ {0}, NEW month \in 1 .. 12, NEW day \in Int
    PROVE  /\ FirstOf(year, month) \in Int
           /\ DaysFromCivil(year, month, day) = FirstOf(year, month) + day - 1
           /\ DaysFromCivil(year, month, day) \in Int
<1>1. FirstOf(year, month) \in Int
  BY FirstOfInt
<1>2. DaysFromCivil(year, month, day) = FirstOf(year, month) + day - 1
  BY ByYear
<1> QED BY <1>1, <1>2

LEMMA NextMonth ==
    ASSUME NEW year \in Nat \ {0}, NEW month \in 1 .. 11
    PROVE  FirstOf(year, month + 1) = FirstOf(year, month) + DaysInMonth(year, month)
<1> DEFINE thisYear == YearStart(year)
           lastYear == YearStart(year - 1)
<1>1. thisYear \in Int /\ lastYear \in Int
  BY YearStartInt
<1>2. thisYear = lastYear + 365 + IF IsLeap(year) THEN 1 ELSE 0
  <2>1. year - 1 \in Nat /\ year - 1 + 1 = year
    OBVIOUS
  <2> QED BY <2>1, NextYearStart
<1> HIDE DEF thisYear, lastYear
<1>3. /\ month <= 2 => FirstOf(year, month) = lastYear + MonthStart(month) - DaysBeforeEpoch
      /\ month > 2 => FirstOf(year, month) = thisYear + MonthStart(month) - DaysBeforeEpoch
      /\ month + 1 <= 2 => FirstOf(year, month + 1) = lastYear + MonthStart(month + 1) - DaysBeforeEpoch
      /\ month + 1 > 2 => FirstOf(year, month + 1) = thisYear + MonthStart(month + 1) - DaysBeforeEpoch
  BY DEF FirstOf, MarchYear, thisYear, lastYear
<1>4. DaysBeforeEpoch \in Int
  BY DEF DaysBeforeEpoch
<1> QED BY <1>1, <1>2, <1>3, <1>4, MonthStarts, SMT DEF DaysInMonth

LEMMA NextYear ==
    ASSUME NEW year \in Nat \ {0}
    PROVE  FirstOf(year + 1, 1) = FirstOf(year, 12) + 31
<1>1. YearStart(year) \in Int /\ DaysBeforeEpoch \in Int
  BY YearStartInt, SMT DEF DaysBeforeEpoch
<1>2. MarchYear(year + 1, 1) = year /\ MarchYear(year, 12) = year
  BY SMT DEF MarchYear
<1>3. /\ FirstOf(year + 1, 1) = YearStart(year) + MonthStart(1) - DaysBeforeEpoch
      /\ FirstOf(year, 12) = YearStart(year) + MonthStart(12) - DaysBeforeEpoch
  BY <1>2, SMT DEF FirstOf
<1> QED BY <1>1, <1>3, MonthStarts, SMT

(* days_from_civil counts the days of the calendar: from 0 on 1970-01-01,   *)
(* one more from each day to the next, over the ends of months and years.   *)
THEOREM DaysCounted ==
    /\ DaysFromCivil(1970, 1, 1) = 0
    /\ \A year \in Nat \ {0}, month \in 1 .. 12, day \in Int :
          DaysFromCivil(year, month, day + 1) = DaysFromCivil(year, month, day) + 1
    /\ \A year \in Nat \ {0}, month \in 1 .. 11 :
          DaysFromCivil(year, month + 1, 1)
            = DaysFromCivil(year, month, DaysInMonth(year, month)) + 1
    /\ \A year \in Nat \ {0} :
          DaysFromCivil(year + 1, 1, 1) = DaysFromCivil(year, 12, 31) + 1
<1>1. DaysFromCivil(1970, 1, 1) = 0
  BY SMT DEF DaysFromCivil, DaysBeforeEpoch
<1>2. ASSUME NEW year \in Nat \ {0}, NEW month \in 1 .. 12, NEW day \in Int
      PROVE  DaysFromCivil(year, month, day + 1) = DaysFromCivil(year, month, day) + 1
  <2>1. /\ FirstOf(year, month) \in Int
        /\ DaysFromCivil(year, month, day) = FirstOf(year, month) + day - 1
    BY DayOf
  <2>2. DaysFromCivil(year, month, day + 1) = FirstOf(year, month) + (day + 1) - 1
    <3>1. day + 1 \in Int
      OBVIOUS
    <3> QED BY <3>1, DayOf
  <2> QED BY <2>1, <2>2
<1>3. ASSUME NEW year \in Nat \ {0}, NEW month \in 1 .. 11
      PROVE  DaysFromCivil(year, month + 1, 1)
               = DaysFromCivil(year, month, DaysInMonth(year, month)) + 1
  <2>1. DaysInMonth(year, month) \in Int
    BY DEF DaysInMonth
  <2>2. month \in 1 .. 12 /\ month + 1 \in 1 .. 12 /\ 1 \in Int
    OBVIOUS
  <2>3. /\ FirstOf(year, month) \in Int
        /\ DaysFromCivil(year, month, DaysInMonth(year, month))
             = FirstOf(year, month) + DaysInMonth(year, month) - 1
    BY <2>1, <2>2, DayOf
  <2>4. /\ FirstOf(year, month + 1) \in Int
        /\ DaysFromCivil(year, month + 1, 1) = FirstOf(year, month + 1) + 1 - 1
    BY <2>2, DayOf
  <2>5. FirstOf(year, month + 1) = FirstOf(year, month) + DaysInMonth(year, month)
    BY NextMonth
  <2> QED BY <2>1, <2>3, <2>4, <2>5
<1>4. ASSUME NEW year \in Nat \ {0}
      PROVE  DaysFromCivil(year + 1, 1, 1) = DaysFromCivil(year, 12, 31) + 1
  BY NextYear, ByYear, FirstOfInt
<1> QED BY <1>1, <1>2, <1>3, <1>4

LEMMA MonthOrder ==
    ASSUME NEW year \in Nat \ {0}, NEW month \in 1 .. 12, NEW later \in 1 .. 12, month < later
    PROVE  FirstOf(year, month) + DaysInMonth(year, month) <= FirstOf(year, later)
<1> DEFINE thisYear == YearStart(year)
           lastYear == YearStart(year - 1)
<1>1. thisYear \in Int /\ lastYear \in Int
  BY YearStartInt
<1>2. thisYear = lastYear + 365 + IF IsLeap(year) THEN 1 ELSE 0
  <2>1. year - 1 \in Nat /\ year - 1 + 1 = year
    OBVIOUS
  <2> QED BY <2>1, NextYearStart
<1> HIDE DEF thisYear, lastYear
<1>3. /\ month <= 2 => FirstOf(year, month) = lastYear + MonthStart(month) - DaysBeforeEpoch
      /\ month > 2 => FirstOf(year, month) = thisYear + MonthStart(month) - DaysBeforeEpoch
      /\ later <= 2 => FirstOf(year, later) = lastYear + MonthStart(later) - DaysBeforeEpoch
      /\ later > 2 => FirstOf(year, later) = thisYear + MonthStart(later) - DaysBeforeEpoch
  BY DEF FirstOf, MarchYear, thisYear, lastYear
<1>4. DaysBeforeEpoch \in Int
  BY DEF DaysBeforeEpoch
<1> QED BY <1>1, <1>2, <1>3, <1>4, MonthStarts, SMT DEF DaysInMonth

LEMMA YearOrder ==
    ASSUME NEW year \in Nat \ {0}, NEW later \in Nat \ {0}, year < later
    PROVE  FirstOf(year, 12) + 31 <= FirstOf(later, 1)
<1>1. /\ FirstOf(later, 1) = YearStart(later - 1) + MonthStart(1) - DaysBeforeEpoch
      /\ FirstOf(year, 12) = YearStart(year) + MonthStart(12) - DaysBeforeEpoch
  BY SMT DEF FirstOf, MarchYear
<1>2. YearStart(year) <= YearStart(later - 1)
  <2>1. year \in Nat /\ later - 1 \in Nat /\ year <= later - 1
    BY SMT
  <2> QED BY <2>1, LaterYearStart, SMT
<1>3. YearStart(year) \in Int /\ YearStart(later - 1) \in Int /\ DaysBeforeEpoch \in Int
  BY YearStartInt, SMT DEF DaysBeforeEpoch
<1> QED BY <1>1, <1>2, <1>3, MonthStarts, SMT

LEMMA DateOrder ==
    ASSUME NEW y1 \in Nat, NEW m1 \in Nat, NEW d1 \in Nat, ValidDate(y1, m1, d1),
           NEW y2 \in Nat, NEW m2 \in Nat, NEW d2 \in Nat, ValidDate(y2, m2, d2),
           y1 < y2 \/ (y1 = y2 /\ (m1 < m2 \/ (m1 = m2 /\ d1 < d2)))
    PROVE  DaysFromCivil(y1, m1, d1) < DaysFromCivil(y2, m2, d2)
<1>1. /\ y1 \in Nat \ {0} /\ m1 \in 1 .. 12 /\ d1 \in 1 .. DaysInMonth(y1, m1)
      /\ y2 \in Nat \ {0} /\ m2 \in 1 .. 12 /\ d2 \in 1 .. DaysInMonth(y2, m2)
      /\ DaysInMonth(y1, m1) \in Int /\ DaysInMonth(y2, m2) \in Int
  BY SMT DEF ValidDate, DaysInMonth
<1>2. /\ DaysFromCivil(y1, m1, d1) = FirstOf(y1, m1) + d1 - 1
      /\ DaysFromCivil(y2, m2, d2) = FirstOf(y2, m2) + d2 - 1
      /\ FirstOf(y1, m1) \in Int /\ FirstOf(y2, m2) \in Int
  <2>1. d1 \in Int /\ d2 \in Int
    OBVIOUS
  <2> QED BY <1>1, <2>1, DayOf
<1>3. CASE y1 = y2 /\ m1 = m2 /\ d1 < d2
  BY <1>1, <1>2, <1>3
<1>4. CASE y1 = y2 /\ m1 < m2
  <2>1. FirstOf(y1, m1) + DaysInMonth(y1, m1) <= FirstOf(y2, m2)
    BY <1>1, <1>4, MonthOrder
  <2> QED BY <1>1, <1>2, <2>1
<1>5. CASE y1 < y2
  <2>1. FirstOf(y1, 12) \in Int /\ FirstOf(y2, 1) \in Int
    BY <1>1, FirstOfInt
  <2>2. FirstOf(y1, m1) + DaysInMonth(y1, m1) <= FirstOf(y1, 12) + 31
    <3>1. CASE m1 < 12
      BY <1>1, <1>2, <2>1, <3>1, MonthOrder
    <3>2. CASE m1 = 12
      BY <1>1, <1>2, <2>1, <3>2 DEF DaysInMonth
    <3> QED BY <1>1, <3>1, <3>2
  <2>3. FirstOf(y1, 12) + 31 <= FirstOf(y2, 1)
    BY <1>1, <1>5, YearOrder
  <2>4. FirstOf(y2, 1) <= FirstOf(y2, m2)
    <3>1. CASE m2 = 1
      BY <2>1, <3>1
    <3>2. CASE m2 > 1
      <4>1. FirstOf(y2, 1) + DaysInMonth(y2, 1) <= FirstOf(y2, m2)
        BY <1>1, <3>2, MonthOrder
      <4>2. DaysInMonth(y2, 1) = 31
        BY DEF DaysInMonth
      <4> QED BY <1>2, <2>1, <4>1, <4>2
    <3> QED BY <1>1, <3>1, <3>2
  <2> QED BY <1>1, <1>2, <2>1, <2>2, <2>3, <2>4
<1> QED BY <1>3, <1>4, <1>5

(* The order in which the fields are written.                               *)
WrittenEarlier(t, u) ==
    \/ t.year < u.year
    \/ t.year = u.year /\ t.month < u.month
    \/ t.year = u.year /\ t.month = u.month /\ t.day < u.day
    \/ /\ t.year = u.year /\ t.month = u.month /\ t.day = u.day
       /\ \/ t.hour < u.hour
          \/ t.hour = u.hour /\ t.minute < u.minute
          \/ t.hour = u.hour /\ t.minute = u.minute /\ t.second < u.second

Seconds == {n \in Nat : n < 86400}

LEMMA SecondsRange ==
    ASSUME NEW h \in 0 .. 23, NEW m \in 0 .. 59, NEW s \in 0 .. 59
    PROVE  SecondsOfDay(h, m, s) \in Seconds
BY SMT DEF SecondsOfDay, Seconds

LEMMA SecondsOrder ==
    ASSUME NEW h1 \in 0 .. 23, NEW m1 \in 0 .. 59, NEW s1 \in 0 .. 59,
           NEW h2 \in 0 .. 23, NEW m2 \in 0 .. 59, NEW s2 \in 0 .. 59,
           h1 < h2 \/ (h1 = h2 /\ (m1 < m2 \/ (m1 = m2 /\ s1 < s2)))
    PROVE  SecondsOfDay(h1, m1, s1) < SecondsOfDay(h2, m2, s2)
BY SMT DEF SecondsOfDay

LEMMA DaysThenSeconds ==
    ASSUME NEW a \in Int, NEW b \in Int, NEW v \in Seconds, NEW w \in Seconds,
           a < b \/ (a = b /\ v < w)
    PROVE  a * 86400 + v < b * 86400 + w
BY SMT DEF Seconds

(* A timestamp's two parts are numbers.                                     *)
LEMMA PartsOfEpoch ==
    ASSUME NEW t \in Timestamp, ValidTimestamp(t)
    PROVE  /\ t.hour \in 0 .. 23 /\ t.minute \in 0 .. 59 /\ t.second \in 0 .. 59
           /\ DaysFromCivil(t.year, t.month, t.day) \in Int
           /\ SecondsOfDay(t.hour, t.minute, t.second) \in Seconds
<1>1. t.hour \in 0 .. 23 /\ t.minute \in 0 .. 59 /\ t.second \in 0 .. 59
  BY SMT DEF Timestamp, ValidTimestamp
<1>2. t.year \in Nat \ {0} /\ t.month \in 1 .. 12 /\ t.day \in Int
  BY SMT DEF Timestamp, ValidTimestamp, ValidDate
<1>3. DaysFromCivil(t.year, t.month, t.day) \in Int
  BY <1>2, DayOf
<1> QED BY <1>1, <1>3, SecondsRange

(* parse_rfc3339_utc: of two timestamps it accepts, the one written earlier *)
(* is the smaller number; what is compared is never the text.               *)
THEOREM EpochOrder ==
    ASSUME NEW t \in Timestamp, ValidTimestamp(t), NEW u \in Timestamp, ValidTimestamp(u),
           WrittenEarlier(t, u)
    PROVE  Epoch(t) < Epoch(u)
<1> DEFINE first == DaysFromCivil(t.year, t.month, t.day)
           second == DaysFromCivil(u.year, u.month, u.day)
           early == SecondsOfDay(t.hour, t.minute, t.second)
           late == SecondsOfDay(u.hour, u.minute, u.second)
<1>1. /\ first \in Int /\ second \in Int /\ early \in Seconds /\ late \in Seconds
      /\ t.hour \in 0 .. 23 /\ t.minute \in 0 .. 59 /\ t.second \in 0 .. 59
      /\ u.hour \in 0 .. 23 /\ u.minute \in 0 .. 59 /\ u.second \in 0 .. 59
  BY PartsOfEpoch
<1>2. first < second \/ (first = second /\ early < late)
  <2>1. CASE \/ t.year < u.year
             \/ t.year = u.year /\ t.month < u.month
             \/ t.year = u.year /\ t.month = u.month /\ t.day < u.day
    BY <2>1, DateOrder DEF ValidTimestamp, Timestamp
  <2>2. CASE /\ t.year = u.year /\ t.month = u.month /\ t.day = u.day
             /\ \/ t.hour < u.hour
                \/ t.hour = u.hour /\ t.minute < u.minute
                \/ t.hour = u.hour /\ t.minute = u.minute /\ t.second < u.second
    <3>1. early < late
      BY <1>1, <2>2, SecondsOrder
    <3> QED BY <2>2, <3>1
  <2> QED BY <2>1, <2>2 DEF WrittenEarlier
<1>3. Epoch(t) = first * 86400 + early /\ Epoch(u) = second * 86400 + late
  BY DEF Epoch
<1> HIDE DEF first, second, early, late
<1> QED BY <1>1, <1>2, <1>3, DaysThenSeconds

(* What the resolver says of a validated manifest is one thing: it is never *)
(* expired and premature at once, whatever the clock says.                  *)
THEOREM NeverBoth ==
    ASSUME NEW notBefore \in SUBSET Timestamp, NEW expires \in SUBSET Timestamp,
           ValidWindow(notBefore, expires), NEW now \in Nat
    PROVE  ~(Expired(now, expires) /\ Premature(now, notBefore))
<1>1. \A t \in notBefore \cup expires : Epoch(t) \in Int
  <2> SUFFICES ASSUME NEW t \in notBefore \cup expires
               PROVE  Epoch(t) \in Int
    OBVIOUS
  <2>1. ValidTimestamp(t) /\ t \in Timestamp
    BY DEF ValidWindow
  <2> DEFINE days == DaysFromCivil(t.year, t.month, t.day)
             seconds == SecondsOfDay(t.hour, t.minute, t.second)
  <2>2. days \in Int /\ seconds \in Int
    BY <2>1, PartsOfEpoch DEF Seconds
  <2>3. Epoch(t) = days * 86400 + seconds
    BY DEF Epoch
  <2> HIDE DEF days, seconds
  <2> QED BY <2>2, <2>3, SMT
<1> QED BY <1>1, SMT DEF ValidWindow, Expired, Premature
=============================================================================
