--------------------------- MODULE ResolverProofs ---------------------------
(***************************************************************************)
(* Proofs about module Resolver, for every world, request and limit.        *)
(*                                                                         *)
(* The inductive invariant is the conjunction of                           *)
(*   Shape         the types, and that a frame stands for a node it splices; *)
(*   Deduplicated  `dedup` holds the key of every planned resource;         *)
(*   Bounded       the limits, and how nodes and the count grow together;   *)
(*   Fresh         a located name is on the call stack or in `visited`;     *)
(*   Chain         the paths' nodes exist, their localities only increase;  *)
(*   Pinned        a node reached through a pin holds the pinned bytes;     *)
(*   Rooted        a path starts at the root, an anchor names its start;    *)
(*   Complete      what a loop has left behind is nested or planned;        *)
(*   Ordered       each loop keeps to `dependsOn`, paths lead along loops.   *)
(***************************************************************************)
EXTENDS Resolver, SequenceTheorems, WellFoundedInduction, TLAPS

(* A nonempty set of naturals has a least member.                           *)
LEMMA LeastNatural ==
    ASSUME NEW T \in SUBSET Nat, T # {}
    PROVE  \E m \in T : \A k \in T : m <= k
<1>1. IsWellFoundedOn(OpToRel(<, Nat), Nat)
  BY NatLessThanWellFounded
<1>2. PICK m \in T : \A k \in T : <<k, m>> \notin OpToRel(<, Nat)
  BY <1>1, WFMin
<1>3. \A k \in T : ~(k < m)
  BY <1>2 DEF OpToRel
<1>. QED
  BY <1>3

(* Among any resources not empty in number one precedes all the others.     *)
LEMMA LeastResource ==
    ASSUME NEW rs,
           NEW S \in SUBSET Nat, S # {},
           \A i \in S : rs[i].order \in Nat
    PROVE  \E i \in S : \A j \in S \ {i} : Precedes(rs, i, j)
<1>. DEFINE Orders == {rs[i].order : i \in S}
<1>1. PICK o \in Orders : \A k \in Orders : o <= k
  <2>1. Orders \in SUBSET Nat
    OBVIOUS
  <2>2. Orders # {}
    OBVIOUS
  <2>. HIDE DEF Orders
  <2>. QED
    BY <2>1, <2>2, LeastNatural
<1>. DEFINE First == {i \in S : rs[i].order = o}
<1>2. PICK i \in First : \A k \in First : i <= k
  <2>1. First # {} /\ First \in SUBSET Nat
    BY <1>1
  <2>. QED
    BY <2>1, LeastNatural
<1>3. ASSUME NEW j \in S \ {i}
      PROVE  Precedes(rs, i, j)
  <2>1. CASE rs[j].order = o
    BY <1>2, <2>1 DEF Precedes
  <2>2. CASE rs[j].order # o
    <3>1. o <= rs[j].order /\ rs[i].order = o
      BY <1>1, <1>2
    <3>. QED
      BY <2>2, <3>1 DEF Precedes
  <2>. QED
    BY <2>1, <2>2
<1>. QED
  BY <1>2, <1>3

(* As long as resources remain, an acyclic manifest has one that is ready.  *)
LEMMA SomethingReady ==
    ASSUME NEW rs, Acyclic(rs),
           NEW done, done \subseteq DOMAIN rs, done # DOMAIN rs
    PROVE  Ready(rs, done) # {}
<1>1. PICK i \in DOMAIN rs \ done : Deps(rs, i) \cap (DOMAIN rs \ done) = {}
  BY DEF Acyclic
<1>2. Deps(rs, i) \subseteq DOMAIN rs
  BY DEF Deps
<1>. QED
  BY <1>1, <1>2 DEF Ready

(* The launch loop's choice: a resource that has not been launched and      *)
(* whose dependencies have.                                                *)
LEMMA PickIsReady ==
    ASSUME NEW rs, DOMAIN rs \subseteq Nat,
           \A i \in DOMAIN rs : rs[i].order \in Nat,
           Acyclic(rs),
           NEW done, done \subseteq DOMAIN rs, done # DOMAIN rs
    PROVE  /\ Pick(rs, done) \in DOMAIN rs \ done
           /\ Deps(rs, Pick(rs, done)) \subseteq done
<1>1. Ready(rs, done) # {} /\ Ready(rs, done) \subseteq DOMAIN rs
  BY SomethingReady DEF Ready
<1>2. \E i \in Ready(rs, done) : \A j \in Ready(rs, done) \ {i} : Precedes(rs, i, j)
  BY <1>1, LeastResource
<1>3. Pick(rs, done) \in Ready(rs, done)
  BY <1>2 DEF Pick
<1>. QED
  BY <1>3 DEF Ready

-----------------------------------------------------------------------------
USE DEF Top, TopDoc, TopDone, Here, Item, Depth

(* A frame is the splicing of a node, under the node's name, and only valid *)
(* documents have become nodes.                                            *)
FramesOK ==
    /\ \A k \in DOMAIN frames :
          /\ frames[k].node \in DOMAIN nodes
          /\ frames[k].name = nodes[frames[k].node].name
          /\ frames[k].done \subseteq DOMAIN nodes[frames[k].node].doc.resources
    /\ \A n \in DOMAIN nodes : ValidResources(nodes[n].doc.resources)

Shape == TypeOK /\ FramesOK

-----------------------------------------------------------------------------
(* What the innermost frame and its next resource are.                      *)
LEMMA TopFacts ==
    ASSUME Shape, frames # <<>>
    PROVE  /\ Len(frames) \in DOMAIN frames
           /\ Len(frames) \in Nat \ {0}
           /\ Top \in Frame
           /\ Top.node \in DOMAIN nodes
           /\ Top.name = nodes[Top.node].name
           /\ nodes[Top.node] \in Node
           /\ TopDoc \in Document
           /\ Top.done \subseteq DOMAIN TopDoc.resources
<1>1. frames \in Seq(Frame) /\ nodes \in Seq(Node)
  BY DEF Shape, TypeOK
<1>2. Len(frames) \in DOMAIN frames /\ Len(frames) \in Nat \ {0}
  BY <1>1, EmptySeq, LenProperties
<1>3. Top \in Frame
  BY <1>1, <1>2, LenProperties
<1>4. /\ Top.node \in DOMAIN nodes
      /\ Top.name = nodes[Top.node].name
      /\ Top.done \subseteq DOMAIN TopDoc.resources
  BY <1>2 DEF Shape, FramesOK
<1>5. nodes[Top.node] \in Node
  BY <1>1, <1>4, LenProperties
<1>6. TopDoc \in Document
  BY <1>5 DEF Node
<1>. QED
  BY <1>2, <1>3, <1>4, <1>5, <1>6

LEMMA ItemFacts ==
    ASSUME Shape, frames # <<>>, ~TopDone
    PROVE  /\ Here \in DOMAIN TopDoc.resources
           /\ Here \in Nat
           /\ Item \in Resource
           /\ Item.kind = "murl" => Item.target \in Names
           /\ Item.kind # "murl" => Item.kind \in Kinds /\ Item.target \in Targets
<1>. DEFINE rs == TopDoc.resources
<1>1. /\ rs \in Seq(Resource)
      /\ Top.done \subseteq DOMAIN rs
      /\ ValidResources(rs)
  <2>1. TopDoc \in Document
    BY TopFacts
  <2>2. rs \in Seq(Resource)
    BY <2>1 DEF Document
  <2>3. Top.done \subseteq DOMAIN rs /\ Len(frames) \in DOMAIN frames
    BY TopFacts
  <2>4. Top.node \in DOMAIN nodes
    BY <2>3 DEF Shape, FramesOK
  <2>5. ValidResources(rs)
    BY <2>4 DEF Shape, FramesOK
  <2>. QED
    BY <2>2, <2>3, <2>5
<1>2. DOMAIN rs \subseteq Nat /\ \A i \in DOMAIN rs : rs[i] \in Resource
  BY <1>1, LenProperties
<1>3. \A i \in DOMAIN rs : rs[i].order \in Nat
  BY <1>2 DEF Resource
<1>4. Here \in DOMAIN rs
  BY <1>1, <1>2, <1>3, PickIsReady DEF ValidResources
<1>5. Here \in Nat /\ Item \in Resource
  BY <1>2, <1>4
<1>. HIDE DEF Top, TopDoc, TopDone, Here, Item
<1>6. Item.kind = "murl" => Item.target \in Names
  BY <1>5, KindsAssumption DEF Resource
<1>7. Item.kind # "murl" => Item.kind \in Kinds /\ Item.target \in Targets
  BY <1>5, KindsAssumption DEF Resource
<1>. QED
  BY <1>4, <1>5, <1>6, <1>7

(* Advancing the loop keeps the frames what they are.                       *)
LEMMA AdvancedFacts ==
    ASSUME Shape, frames # <<>>, ~TopDone
    PROVE  /\ Advanced \in Seq(Frame)
           /\ DOMAIN Advanced = DOMAIN frames
           /\ Len(Advanced) = Len(frames)
           /\ \A k \in DOMAIN frames :
                 /\ Advanced[k].node = frames[k].node
                 /\ Advanced[k].name = frames[k].name
                 /\ Advanced[k].anchor = frames[k].anchor
                 /\ Advanced[k].done =
                       IF k = Len(frames) THEN Top.done \cup {Here} ELSE frames[k].done
<1>. DEFINE last == Len(frames)
            new == [Top EXCEPT !.done = @ \cup {Here}]
<1>1. /\ frames \in Seq(Frame)
      /\ last \in DOMAIN frames
      /\ last \in Nat
      /\ Top \in Frame
      /\ Here \in Nat
  BY TopFacts, ItemFacts DEF Shape, TypeOK
<1>2. /\ new \in Frame
      /\ new.node = Top.node
      /\ new.name = Top.name
      /\ new.anchor = Top.anchor
      /\ new.done = Top.done \cup {Here}
  BY <1>1 DEF Frame
<1>3. Advanced = [frames EXCEPT ![last] = new]
  BY <1>1 DEF Advanced, Frame
<1>4. DOMAIN frames = 1 .. Len(frames)
  BY <1>1, LenProperties
<1>5. /\ Advanced \in Seq(Frame)
      /\ Len(Advanced) = Len(frames)
      /\ \A k \in 1 .. Len(frames) :
            Advanced[k] = IF k = last THEN new ELSE frames[k]
  BY <1>1, <1>2, <1>3, <1>4, ExceptSeq
<1>. QED
  BY <1>2, <1>4, <1>5, LenProperties

HIDE DEF Top, TopDoc, TopDone, Here, Item, Depth

-----------------------------------------------------------------------------
(* Shape is inductive.                                                     *)
LEMMA ShapeInit == Init => Shape
<1>. SUFFICES ASSUME Init PROVE Shape
  OBVIOUS
<1>1. world \in [Names -> Document \cup {None}] /\ request \in Request
  BY WorldsAssumption, RequestsAssumption DEF Init
<1>2. pending \in Call
  <2>1. request.name \in Names \cup {None}
    BY <1>1 DEF Request
  <2>2. <<>> \in Seq(Nat \X Nat)
    BY EmptySeq
  <2>. QED
    BY <2>1, <2>2 DEF Init, Call
<1>3. /\ frames \in Seq(Frame) /\ nodes \in Seq(Node) /\ plan \in Seq(PlanEntry)
      /\ DOMAIN frames = {} /\ DOMAIN nodes = {}
  BY EmptySeq DEF Init
<1>. QED
  BY <1>1, <1>2, <1>3 DEF Init, Shape, TypeOK, FramesOK, Outcomes

(* A step that only advances the loop of the innermost manifest.            *)
LEMMA ShapeAdvance ==
    ASSUME Shape, frames # <<>>, ~TopDone, frames' = Advanced, UNCHANGED nodes
    PROVE  frames' \in Seq(Frame) /\ FramesOK'
<1>1. frames' \in Seq(Frame)
  BY AdvancedFacts
<1>2. \A k \in DOMAIN frames' :
          /\ frames'[k].node \in DOMAIN nodes'
          /\ frames'[k].name = nodes'[frames'[k].node].name
          /\ frames'[k].done \subseteq DOMAIN nodes'[frames'[k].node].doc.resources
  <2>. SUFFICES ASSUME NEW k \in DOMAIN frames
                PROVE  /\ Advanced[k].node \in DOMAIN nodes
                       /\ Advanced[k].name = nodes[Advanced[k].node].name
                       /\ Advanced[k].done \subseteq
                             DOMAIN nodes[Advanced[k].node].doc.resources
    BY AdvancedFacts
  <2>1. Here \in DOMAIN TopDoc.resources
    BY ItemFacts
  <2>. QED
    BY <2>1, AdvancedFacts DEF Shape, FramesOK, Top, TopDoc
<1>. QED
  BY <1>1, <1>2 DEF Shape, FramesOK

(* What accepting a manifest does to the nodes and to the recursion.        *)
LEMMA IngestFacts ==
    ASSUME Shape, Ingest
    PROVE  /\ pending \in Call
           /\ Located \in Document /\ ValidResources(Located.resources)
           /\ NewNode \in Node
           /\ nodes' \in Seq(Node) /\ Len(nodes) \in Nat
           /\ Len(nodes') = Len(nodes) + 1
           /\ DOMAIN nodes = 1 .. Len(nodes)
           /\ DOMAIN nodes' = 1 .. (Len(nodes) + 1)
           /\ \A n \in DOMAIN nodes : nodes'[n] = nodes[n]
           /\ nodes'[Len(nodes) + 1] = NewNode
           /\ frames' \in Seq(Frame) /\ Len(frames) \in Nat
           /\ DOMAIN frames = 1 .. Len(frames)
           /\ DOMAIN frames' = 1 .. (Len(frames) + 1)
           /\ \A k \in DOMAIN frames : frames'[k] = frames[k]
           /\ frames'[Len(frames) + 1] =
                 [name |-> pending.name, node |-> Len(nodes) + 1,
                  anchor |-> pending.anchor, done |-> {}]
<1>1. /\ pending \in Call
      /\ nodes \in Seq(Node)
      /\ frames \in Seq(Frame)
      /\ request \in Request
      /\ world \in [Names -> Document \cup {None}]
  BY DEF Shape, TypeOK, Ingest
<1>2. Located \in Document /\ ValidResources(Located.resources)
  <2>1. Located \in Document \cup {None}
    BY <1>1 DEF Located, Call, Request
  <2>. QED
    BY <2>1 DEF Ingest, IngestError
<1>3. NewNode \in Node
  <2>1. OriginOf(pending.name) \in {"file", "store", "remote"}
    BY DEF OriginOf
  <2>2. TrustOf(Located, pending.name)
            \in {"Local", "UnsignedRemote", "SignedTrusted", "SignedUnknownKey"}
    BY DEF TrustOf
  <2>. QED
    BY <1>1, <1>2, <2>1, <2>2 DEF NewNode, Node, Call
<1>. DEFINE frame == [name |-> pending.name, node |-> Len(nodes) + 1,
                      anchor |-> pending.anchor, done |-> {}]
<1>4. frame \in Frame
  BY <1>1, LenProperties DEF Frame, Call
<1>. QED
  BY <1>1, <1>2, <1>3, <1>4, AppendProperties, LenProperties DEF Ingest

LEMMA ShapeIngest == Shape /\ Ingest => Shape'
<1>. SUFFICES ASSUME Shape, Ingest PROVE Shape'
  OBVIOUS
<1>1. FramesOK'
  <2>1. ASSUME NEW k \in DOMAIN frames'
        PROVE  /\ frames'[k].node \in DOMAIN nodes'
               /\ frames'[k].name = nodes'[frames'[k].node].name
               /\ frames'[k].done \subseteq DOMAIN nodes'[frames'[k].node].doc.resources
    <3>1. CASE k \in DOMAIN frames
      BY <3>1, IngestFacts DEF Shape, FramesOK
    <3>2. CASE k = Len(frames) + 1
      BY <3>2, IngestFacts DEF NewNode
    <3>. QED
      BY <2>1, <3>1, <3>2, IngestFacts
  <2>2. \A n \in DOMAIN nodes' : ValidResources(nodes'[n].doc.resources)
    BY IngestFacts DEF NewNode, Shape, FramesOK
  <2>. QED
    BY <2>1, <2>2 DEF FramesOK
<1>2. manifests' \in Nat /\ pending' = None
  BY DEF Ingest, Counted, Shape, TypeOK
<1>3. TypeOK'
  BY <1>2, IngestFacts DEF Ingest, Shape, TypeOK
<1>. QED
  BY <1>1, <1>3 DEF Shape

(* A path with one more step.                                               *)
LEMMA AppendedPath ==
    ASSUME NEW path \in Seq(Nat \X Nat), NEW step \in Nat \X Nat
    PROVE  /\ Append(path, step) \in Seq(Nat \X Nat)
           /\ Len(Append(path, step)) = Len(path) + 1
           /\ Ancestors(Append(path, step)) = Ancestors(path) \cup {step[1]}
<1>. DEFINE longer == Append(path, step)
<1>1. /\ longer \in Seq(Nat \X Nat)
      /\ Len(longer) = Len(path) + 1
      /\ \A k \in 1 .. Len(path) : longer[k] = path[k]
      /\ longer[Len(path) + 1] = step
  BY AppendProperties
<1>2. Len(path) \in Nat /\ DOMAIN path = 1 .. Len(path)
  BY LenProperties
<1>3. DOMAIN longer = 1 .. (Len(path) + 1)
  BY <1>1, LenProperties
<1>. HIDE DEF longer
<1>4. DOMAIN longer = DOMAIN path \cup {Len(path) + 1}
  BY <1>2, <1>3
<1>5. Ancestors(longer) = Ancestors(path) \cup {step[1]}
  <2>1. \A k \in DOMAIN path : longer[k][1] = path[k][1]
    BY <1>1, <1>2
  <2>2. longer[Len(path) + 1][1] = step[1]
    BY <1>1
  <2>3. \A x : x \in Ancestors(longer) <=> x \in Ancestors(path) \/ x = step[1]
    BY <1>4, <2>1, <2>2, Zenon DEF Ancestors
  <2>. QED
    BY <2>3
<1>. QED
  BY <1>1, <1>5 DEF longer

(* What a nested call is made with.                                         *)
LEMMA NestFacts ==
    ASSUME Shape, Nest
    PROVE  /\ frames # <<>> /\ ~TopDone
           /\ Item.target \in Names
           /\ pending' \in Call
           /\ pending'.name = Item.target
           /\ nodes[Top.node].path \in Seq(Nat \X Nat)
           /\ Len(pending'.path) = Len(nodes[Top.node].path) + 1
           /\ Ancestors(pending'.path) = Ancestors(nodes[Top.node].path) \cup {Top.node}
<1>1. frames # <<>> /\ ~TopDone /\ Item.kind = "murl"
  BY DEF Nest, AtNested, Splicing
<1>2. Top \in Frame /\ Item \in Resource /\ Item.target \in Names /\ Here \in Nat
  BY <1>1, TopFacts, ItemFacts
<1>3. AnchorOf(Top, Item.id) \in ResourceIds /\ Item.pin \in Hashes \cup {None}
  BY <1>2 DEF AnchorOf, Frame, Resource
<1>4. nodes[Top.node].path \in Seq(Nat \X Nat)
  BY <1>1, TopFacts DEF Node
<1>5. <<Top.node, Here>> \in Nat \X Nat
  BY <1>2 DEF Frame
<1>6. pending' = [name |-> Item.target, anchor |-> AnchorOf(Top, Item.id),
                  pin |-> Item.pin,
                  path |-> Append(nodes[Top.node].path, <<Top.node, Here>>)]
  BY DEF Nest
<1>7. /\ pending'.path \in Seq(Nat \X Nat)
      /\ Len(pending'.path) = Len(nodes[Top.node].path) + 1
      /\ Ancestors(pending'.path) = Ancestors(nodes[Top.node].path) \cup {Top.node}
  <2>1. pending'.path = Append(nodes[Top.node].path, <<Top.node, Here>>)
    BY <1>6
  <2>2. <<Top.node, Here>>[1] = Top.node
    OBVIOUS
  <2>. QED
    BY <1>4, <1>5, <2>1, <2>2, AppendedPath
<1>8. pending' \in Call /\ pending'.name = Item.target
  BY <1>2, <1>3, <1>6, <1>7 DEF Call
<1>. QED
  BY <1>1, <1>2, <1>4, <1>7, <1>8

LEMMA ShapeNest == Shape /\ Nest => Shape'
<1>. SUFFICES ASSUME Shape, Nest PROVE Shape'
  OBVIOUS
<1>1. frames' \in Seq(Frame) /\ FramesOK'
  BY NestFacts, ShapeAdvance DEF Nest
<1>2. pending' \in Call
  BY NestFacts
<1>. QED
  BY <1>1, <1>2 DEF Nest, Shape, TypeOK

(* A return takes the last frame away.                                      *)
LEMMA ReturnFacts ==
    ASSUME Shape, Return
    PROVE  /\ frames # <<>>
           /\ frames' \in Seq(Frame)
           /\ DOMAIN frames' = 1 .. (Len(frames) - 1)
           /\ DOMAIN frames = DOMAIN frames' \cup {Len(frames)}
           /\ \A k \in DOMAIN frames' : frames'[k] = frames[k]
<1>1. frames # <<>> /\ frames \in Seq(Frame) /\ Len(frames) \in Nat \ {0, 1}
  BY LenProperties DEF Return, Splicing, Shape, TypeOK
<1>2. DOMAIN frames = 1 .. Len(frames) /\ \A k \in DOMAIN frames : frames[k] \in Frame
  BY <1>1, LenProperties
<1>. DEFINE rest == SubSeq(frames, 1, Len(frames) - 1)
<1>3. /\ rest \in Seq(Frame)
      /\ Len(rest) = Len(frames) - 1
      /\ \A k \in 1 .. (Len(frames) - 1) : rest[k] = frames[k]
  BY <1>1, <1>2, SubSeqProperties
<1>4. /\ frames' \in Seq(Frame)
      /\ DOMAIN frames' = 1 .. (Len(frames) - 1)
      /\ \A k \in DOMAIN frames' : frames'[k] = frames[k]
  BY <1>3, LenProperties DEF Return
<1>. HIDE DEF rest
<1>5. DOMAIN frames = DOMAIN frames' \cup {Len(frames)}
  BY <1>1, <1>2, <1>4
<1>. QED
  BY <1>1, <1>4, <1>5

LEMMA ShapeReturn == Shape /\ Return => Shape'
<1>. SUFFICES ASSUME Shape, Return PROVE Shape'
  OBVIOUS
<1>1. FramesOK'
  BY ReturnFacts DEF Return, Shape, FramesOK
<1>2. visited' \subseteq Names \cup {None}
  BY ReturnFacts, TopFacts DEF Return, Shape, TypeOK, Frame
<1>. QED
  BY <1>1, <1>2, ReturnFacts DEF Return, Shape, TypeOK

(* What planning a resource does to the plan.                               *)
LEMMA PlanResourceFacts ==
    ASSUME Shape, PlanResource
    PROVE  /\ frames # <<>> /\ ~TopDone /\ Item.kind # "murl"
           /\ Entry \in PlanEntry
           /\ plan' \in Seq(PlanEntry)
           /\ Len(plan) \in Nat
           /\ Len(plan') = Len(plan) + 1
           /\ DOMAIN plan = 1 .. Len(plan)
           /\ DOMAIN plan' = 1 .. (Len(plan) + 1)
           /\ \A p \in DOMAIN plan : plan'[p] = plan[p]
           /\ plan'[Len(plan) + 1] = Entry
           /\ DOMAIN plan' = DOMAIN plan \cup {Len(plan) + 1}
           /\ Entry.resource = Item
<1>1. frames # <<>> /\ ~TopDone /\ Item.kind # "murl"
  BY DEF PlanResource, AtResource, Splicing
<1>2. Entry \in PlanEntry
  <2>1. Top \in Frame /\ Item \in Resource
    BY <1>1, TopFacts, ItemFacts
  <2>2. AnchorOf(Top, Item.id) \in ResourceIds
    BY <2>1 DEF AnchorOf, Frame, Resource
  <2>3. Append(nodes[Top.node].path, <<Top.node, Here>>) \in Seq(Nat \X Nat)
    <3>1. nodes[Top.node].path \in Seq(Nat \X Nat)
      BY <1>1, TopFacts DEF Node
    <3>2. <<Top.node, Here>> \in Nat \X Nat
      BY <1>1, <2>1, ItemFacts DEF Frame
    <3>. QED
      BY <3>1, <3>2, AppendProperties
  <2>. QED
    BY <2>1, <2>2, <2>3 DEF Entry, PlanEntry, Frame
<1>3. plan \in Seq(PlanEntry) /\ plan' = Append(plan, Entry)
  BY DEF PlanResource, Shape, TypeOK
<1>4. Entry.resource = Item
  BY DEF Entry
<1>5. Len(plan) \in Nat /\ DOMAIN plan = 1 .. Len(plan)
  BY <1>3, LenProperties
<1>6. /\ plan' \in Seq(PlanEntry)
      /\ Len(plan') = Len(plan) + 1
      /\ \A p \in DOMAIN plan : plan'[p] = plan[p]
      /\ plan'[Len(plan) + 1] = Entry
  BY <1>2, <1>3, <1>5, AppendProperties
<1>7. DOMAIN plan' = 1 .. (Len(plan) + 1)
  BY <1>6, LenProperties
<1>8. 1 .. (Len(plan) + 1) = (1 .. Len(plan)) \cup {Len(plan) + 1}
  BY <1>5
<1>. QED
  BY <1>1, <1>2, <1>4, <1>5, <1>6, <1>7, <1>8

LEMMA ShapePlanResource == Shape /\ PlanResource => Shape'
<1>. SUFFICES ASSUME Shape, PlanResource PROVE Shape'
  OBVIOUS
<1>1. frames' \in Seq(Frame) /\ FramesOK'
  BY PlanResourceFacts, ShapeAdvance DEF PlanResource
<1>2. plan' \in Seq(PlanEntry) /\ DOMAIN plan \subseteq DOMAIN plan'
  BY PlanResourceFacts
<1>3. dedup' \subseteq Kinds \X Targets
  <2>1. DedupKey(Item) \in Kinds \X Targets
    BY PlanResourceFacts, ItemFacts DEF DedupKey
  <2>2. dedup \subseteq Kinds \X Targets /\ dedup' = dedup \cup {DedupKey(Item)}
    BY DEF PlanResource, Shape, TypeOK
  <2>. QED
    BY <2>1, <2>2
<1>. QED
  BY <1>1, <1>2, <1>3 DEF PlanResource, Shape, TypeOK

LEMMA ShapeNext == Shape /\ [Next]_vars => Shape'
<1>. SUFFICES ASSUME Shape, [Next]_vars PROVE Shape'
  OBVIOUS
<1>1. CASE Ingest        BY <1>1, ShapeIngest
<1>2. CASE Nest          BY <1>2, ShapeNest
<1>3. CASE Return        BY <1>3, ShapeReturn
<1>4. CASE PlanResource  BY <1>4, ShapePlanResource
<1>5. CASE SkipVisited
  <2>1. frames' \in Seq(Frame) /\ FramesOK'
    BY <1>5, ShapeAdvance DEF SkipVisited, AtNested, Splicing
  <2>. QED
    BY <1>5, <2>1 DEF SkipVisited, Shape, TypeOK
<1>6. CASE SkipDuplicate
  <2>1. frames' \in Seq(Frame) /\ FramesOK'
    BY <1>6, ShapeAdvance DEF SkipDuplicate, AtResource, Splicing
  <2>. QED
    BY <1>6, <2>1 DEF SkipDuplicate, Shape, TypeOK
<1>7. CASE Finish
  <2>1. frames' \in Seq(Frame) /\ DOMAIN frames' = {}
    BY <1>7, EmptySeq DEF Finish
  <2>. QED
    BY <1>7, <2>1 DEF Finish, Shape, TypeOK, FramesOK, Outcomes
<1>8. CASE \E e \in Outcomes : Fail(e)
  BY <1>8 DEF Fail, Shape, TypeOK, FramesOK
<1>9. CASE IngestFails \/ NestFails \/ ResourceLimit \/ FinishFails
  <2>1. IngestFails => IngestError \in Outcomes
    BY DEF IngestFails, IngestError, Outcomes
  <2>2. NestFails => NestError \in Outcomes
    BY DEF NestFails, NestError, Outcomes
  <2>. QED
    BY <1>8, <1>9, <2>1, <2>2
       DEF IngestFails, NestFails, ResourceLimit, FinishFails, Outcomes
<1>10. CASE UNCHANGED vars
  BY <1>10 DEF vars, Shape, TypeOK, FramesOK
<1>. QED
  BY <1>1, <1>2, <1>3, <1>4, <1>5, <1>6, <1>7, <1>9, <1>10 DEF Next

(* Resolution only ever holds values of the declared types, and its call    *)
(* stack always stands for manifests it has accepted (resolver.rs:222-234). *)
THEOREM TypeCorrect == Spec => []TypeOK
<1>1. Init => Shape
  BY ShapeInit
<1>2. Shape /\ [Next]_vars => Shape'
  BY ShapeNext
<1>3. Shape => TypeOK
  BY DEF Shape
<1>. QED
  BY <1>1, <1>2, <1>3, PTL DEF Spec

-----------------------------------------------------------------------------
(* The plan holds no duplicates: `dedup` has the key of each of its entries. *)
Deduplicated ==
    /\ NoDuplicatePlanned
    /\ \A p \in DOMAIN plan : DedupKey(plan[p].resource) \in dedup

LEMMA DeduplicatedNext == Shape /\ Deduplicated /\ [Next]_vars => Deduplicated'
<1>. SUFFICES ASSUME Shape, Deduplicated, [Next]_vars PROVE Deduplicated'
  OBVIOUS
<1>1. CASE PlanResource
  <2>1. /\ DOMAIN plan' = DOMAIN plan \cup {Len(plan) + 1}
        /\ \A p \in DOMAIN plan : plan'[p] = plan[p]
        /\ plan'[Len(plan) + 1].resource = Item
    <3>1. DOMAIN plan' = DOMAIN plan \cup {Len(plan) + 1}
      BY <1>1, PlanResourceFacts
    <3>2. \A p \in DOMAIN plan : plan'[p] = plan[p]
      BY <1>1, PlanResourceFacts
    <3>3. plan'[Len(plan) + 1] = Entry /\ Entry.resource = Item
      BY <1>1, PlanResourceFacts
    <3>. QED
      BY <3>1, <3>2, <3>3
  <2>2. DedupKey(Item) \notin dedup /\ dedup' = dedup \cup {DedupKey(Item)}
    BY <1>1 DEF PlanResource
  <2>3. \A p \in DOMAIN plan : DedupKey(plan[p].resource) # DedupKey(Item)
    BY <2>2 DEF Deduplicated
  <2>4. ASSUME NEW p \in DOMAIN plan', NEW q \in DOMAIN plan',
               DedupKey(plan'[p].resource) = DedupKey(plan'[q].resource)
        PROVE  p = q
    BY <2>1, <2>3, <2>4 DEF Deduplicated, NoDuplicatePlanned
  <2>5. \A p \in DOMAIN plan' : DedupKey(plan'[p].resource) \in dedup'
    BY <2>1, <2>2 DEF Deduplicated
  <2>. QED
    BY <2>4, <2>5 DEF Deduplicated, NoDuplicatePlanned
<1>2. CASE UNCHANGED <<plan, dedup>>
  BY <1>2 DEF Deduplicated, NoDuplicatePlanned
<1>. QED
  BY <1>1, <1>2
     DEF Next, vars, Fail, Ingest, IngestFails, Nest, NestFails, SkipVisited, Return,
         ResourceLimit, SkipDuplicate, Finish, FinishFails

(* resolver.rs:613-620: whatever the manifests repeat, within one or across *)
(* several, nothing is planned twice.                                      *)
THEOREM PlanHasNoDuplicate == Spec => []NoDuplicatePlanned
<1>1. Init => Shape /\ Deduplicated
  BY ShapeInit DEF Init, Deduplicated, NoDuplicatePlanned
<1>2. Shape /\ Deduplicated /\ [Next]_vars => (Shape /\ Deduplicated)'
  BY ShapeNext, DeduplicatedNext
<1>3. Deduplicated => NoDuplicatePlanned
  BY DEF Deduplicated
<1>. QED
  BY <1>1, <1>2, <1>3, PTL DEF Spec

-----------------------------------------------------------------------------
(* How the nodes and the count of manifests grow together: a file's own     *)
(* manifest is a node that is not counted.                                 *)
Tally ==
    /\ manifests <= MaxManifests
    /\ Len(nodes) = manifests + (IF request.name = None /\ nodes # <<>> THEN 1 ELSE 0)
    /\ pending # None =>
          (pending.name = None <=> request.name = None /\ nodes = <<>>)

Bounded == WithinLimits /\ Tally

LEMMA BoundedNext == Shape /\ Bounded /\ [Next]_vars => Bounded'
<1>. SUFFICES ASSUME Shape, Bounded, [Next]_vars PROVE Bounded'
  OBVIOUS
<1>1. manifests \in Nat /\ MaxManifests \in Nat /\ MaxDepth \in Nat /\ MaxResources \in Nat
  BY LimitsAssumption DEF Shape, TypeOK
<1>2. CASE Ingest
  <2>1. /\ pending # None /\ pending' = None
        /\ request' = request /\ plan' = plan /\ manifests' = Counted
        /\ Counted > MaxManifests => pending.name = None
    BY <1>2 DEF Ingest, IngestError
  <2>2. \A n \in DOMAIN nodes' : Len(nodes'[n].path) <= MaxDepth
    BY <1>2, <2>1, IngestFacts DEF Bounded, WithinLimits, NewNode, Depth
  <2>3. nodes = <<>> <=> Len(nodes) = 0
    BY EmptySeq DEF Shape, TypeOK
  <2>4. nodes' # <<>> /\ Len(nodes') = Len(nodes) + 1
    BY <1>2, IngestFacts
  <2>5. Tally'
    <3>1. CASE pending.name = None
      <4>1. request.name = None /\ nodes = <<>> /\ Counted = manifests
        BY <2>1, <3>1 DEF Bounded, Tally, Counted
      <4>. QED
        BY <1>1, <2>1, <2>3, <2>4, <4>1 DEF Bounded, Tally
    <3>2. CASE pending.name # None
      <4>1. Counted = manifests + 1 /\ Counted <= MaxManifests
        BY <1>1, <2>1, <3>2 DEF Counted
      <4>2. request.name = None => nodes # <<>>
        BY <2>1, <3>2 DEF Bounded, Tally
      <4>. QED
        BY <1>1, <2>1, <2>3, <2>4, <4>1, <4>2 DEF Bounded, Tally
    <3>. QED
      BY <3>1, <3>2
  <2>6. Len(nodes') <= MaxManifests + (IF request.name = None THEN 1 ELSE 0)
    BY <1>1, <2>1, <2>5 DEF Tally, Counted
  <2>. QED
    BY <2>1, <2>2, <2>5, <2>6 DEF Bounded, WithinLimits, Depth
<1>3. CASE Nest
  <2>1. /\ request' = request /\ plan' = plan /\ nodes' = nodes
        /\ manifests' = manifests
        /\ Len(nodes[Top.node].path) + 1 <= MaxDepth
    <3>1. ~(Len(nodes[Top.node].path) + 1 > MaxDepth)
      BY <1>3 DEF Nest, NestError, Depth
    <3>2. Len(nodes[Top.node].path) \in Nat
      BY <1>3, NestFacts, LenProperties
    <3>3. \A l \in Nat : ~(l + 1 > MaxDepth) => l + 1 <= MaxDepth
      BY <1>1
    <3>4. request' = request /\ plan' = plan /\ nodes' = nodes /\ manifests' = manifests
      BY <1>3 DEF Nest
    <3>. QED
      BY <3>1, <3>2, <3>3, <3>4
  <2>2. Len(pending'.path) <= MaxDepth
    BY <1>3, <2>1, NestFacts
  <2>3. nodes # <<>> /\ pending'.name # None
    <3>1. Top.node \in DOMAIN nodes
      BY <1>3, NestFacts, TopFacts
    <3>. QED
      BY <1>3, <3>1, NestFacts, NoneAssumption
  <2>. QED
    BY <2>1, <2>2, <2>3 DEF Bounded, WithinLimits, Tally, Depth
<1>4. CASE PlanResource
  <2>1. Len(plan') <= MaxResources
    BY <1>4, PlanResourceFacts DEF PlanResource
  <2>. QED
    BY <1>4, <2>1 DEF PlanResource, Bounded, WithinLimits, Tally, Depth
<1>5. CASE UNCHANGED <<request, pending, nodes, plan, manifests>>
  BY <1>5 DEF Bounded, WithinLimits, Tally, Depth
<1>. QED
  BY <1>2, <1>3, <1>4, <1>5
     DEF Next, vars, Fail, IngestFails, NestFails, SkipVisited, Return,
         ResourceLimit, SkipDuplicate, Finish, FinishFails

LEMMA BoundedInit == Init => Bounded
<1>. SUFFICES ASSUME Init PROVE Bounded
  OBVIOUS
<1>1. DOMAIN nodes = {} /\ Len(nodes) = 0 /\ Len(plan) = 0 /\ manifests = 0
  BY DEF Init
<1>2. pending.name = request.name /\ pending.path = <<>> /\ nodes = <<>>
  BY DEF Init
<1>. QED
  BY <1>1, <1>2, LimitsAssumption DEF Bounded, WithinLimits, Tally

(* resolver.rs:338-344, 566 and 607: the limits hold at every moment, for   *)
(* every value of the limits.                                              *)
THEOREM LimitsHold == Spec => []WithinLimits
<1>1. Init => Shape /\ Bounded
  BY ShapeInit, BoundedInit
<1>2. Shape /\ Bounded /\ [Next]_vars => (Shape /\ Bounded)'
  BY ShapeNext, BoundedNext
<1>3. Bounded => WithinLimits
  BY DEF Bounded
<1>. QED
  BY <1>1, <1>2, <1>3, PTL DEF Spec

-----------------------------------------------------------------------------
(* The names on the call stack, the root file's None among them.            *)
OnStack == {frames[k].name : k \in DOMAIN frames}

(* While the recursion lasts, a name that was located is either still being *)
(* spliced or remembered: the two tests before a nested call miss nothing.  *)
Fresh ==
    /\ NoIdentityTwice
    /\ outcome # "resolved" => \A n \in DOMAIN nodes : nodes[n].name \in visited \cup OnStack

LEMMA OnStackAdvanced ==
    ASSUME Shape, frames # <<>>, ~TopDone, frames' = Advanced
    PROVE  OnStack' = OnStack
BY AdvancedFacts DEF OnStack

LEMMA FreshNext == Shape /\ Fresh /\ [Next]_vars => Fresh'
<1>. SUFFICES ASSUME Shape, Fresh, [Next]_vars PROVE Fresh'
  OBVIOUS
<1>1. CASE Ingest
  <2>1. /\ pending # None /\ pending' = None /\ visited' = visited
        /\ outcome = "resolving"
    BY <1>1 DEF Ingest
  <2>2. \A n \in DOMAIN nodes : nodes[n].name # pending.name
    BY <2>1 DEF Fresh, NoIdentityTwice
  <2>3. /\ DOMAIN nodes' = DOMAIN nodes \cup {Len(nodes) + 1}
        /\ \A n \in DOMAIN nodes : nodes'[n] = nodes[n]
        /\ nodes'[Len(nodes) + 1].name = pending.name
    BY <1>1, IngestFacts DEF NewNode
  <2>4. OnStack' = OnStack \cup {pending.name}
    <3>1. /\ DOMAIN frames' = DOMAIN frames \cup {Len(frames) + 1}
          /\ \A k \in DOMAIN frames : frames'[k].name = frames[k].name
          /\ frames'[Len(frames) + 1].name = pending.name
      BY <1>1, IngestFacts
    <3>. QED
      BY <3>1 DEF OnStack
  <2>5. NoIdentityTwice'
    BY <2>1, <2>2, <2>3 DEF Fresh, NoIdentityTwice
  <2>6. \A n \in DOMAIN nodes' : nodes'[n].name \in visited' \cup OnStack'
    BY <2>1, <2>3, <2>4 DEF Fresh
  <2>. QED
    BY <2>5, <2>6 DEF Fresh
<1>2. CASE Nest
  <2>1. /\ nodes' = nodes /\ visited' = visited /\ outcome' = outcome
        /\ outcome = "resolving" /\ frames' = Advanced
        /\ Item.target \notin visited /\ Item.target \notin Stack
    BY <1>2 DEF Nest, AtNested, Splicing, NestError
  <2>2. OnStack' = OnStack
    BY <1>2, <2>1, NestFacts, OnStackAdvanced
  <2>3. Item.target \notin OnStack
    BY <1>2, <2>1, NestFacts, NoneAssumption DEF OnStack, Stack
  <2>4. \A n \in DOMAIN nodes : nodes[n].name # pending'.name
    BY <1>2, <2>1, <2>3, NestFacts DEF Fresh
  <2>. QED
    BY <2>1, <2>2, <2>4 DEF Fresh, NoIdentityTwice
<1>3. CASE Return
  <2>1. /\ nodes' = nodes /\ pending' = pending /\ outcome' = outcome
        /\ visited' = visited \cup {Top.name}
    BY <1>3 DEF Return
  <2>2. OnStack \subseteq OnStack' \cup {Top.name}
    <3>1. /\ DOMAIN frames = DOMAIN frames' \cup {Len(frames)}
          /\ \A k \in DOMAIN frames' : frames'[k] = frames[k]
      BY <1>3, ReturnFacts
    <3>2. ASSUME NEW k \in DOMAIN frames PROVE frames[k].name \in OnStack' \cup {Top.name}
      <4>1. CASE k = Len(frames)
        BY <4>1 DEF Top
      <4>2. CASE k # Len(frames)
        BY <3>1, <4>2 DEF OnStack
      <4>. QED
        BY <4>1, <4>2
    <3>. QED
      BY <3>2 DEF OnStack
  <2>. QED
    BY <2>1, <2>2 DEF Fresh, NoIdentityTwice
<1>4. CASE SkipVisited \/ SkipDuplicate \/ PlanResource
  <2>1. /\ nodes' = nodes /\ pending' = pending /\ outcome' = outcome
        /\ visited' = visited /\ frames' = Advanced
        /\ frames # <<>> /\ ~TopDone
    BY <1>4 DEF SkipVisited, SkipDuplicate, PlanResource, AtNested, AtResource, Splicing
  <2>2. OnStack' = OnStack
    BY <2>1, OnStackAdvanced
  <2>. QED
    BY <2>1, <2>2 DEF Fresh, NoIdentityTwice
<1>5. CASE Finish
  BY <1>5 DEF Finish, Fresh, NoIdentityTwice
<1>6. CASE IngestFails \/ NestFails \/ ResourceLimit \/ FinishFails
  <2>1. UNCHANGED <<nodes, pending, frames, visited>> /\ outcome = "resolving"
    BY <1>6 DEF IngestFails, NestFails, ResourceLimit, FinishFails, Fail, AtNested,
                AtResource, AtEnd, Splicing
  <2>. QED
    BY <2>1 DEF Fresh, NoIdentityTwice, OnStack
<1>7. CASE UNCHANGED vars
  BY <1>7 DEF vars, Fresh, NoIdentityTwice, OnStack
<1>. QED
  BY <1>1, <1>2, <1>3, <1>4, <1>5, <1>6, <1>7 DEF Next

(* resolver.rs:573-585: however the manifests nest each other, in circles   *)
(* or through shared parts, no name is located a second time.               *)
THEOREM LocatedOnce == Spec => []NoIdentityTwice
<1>1. Init => Shape /\ Fresh
  BY ShapeInit DEF Init, Fresh, NoIdentityTwice
<1>2. Shape /\ Fresh /\ [Next]_vars => (Shape /\ Fresh)'
  BY ShapeNext, FreshNext
<1>3. Fresh => NoIdentityTwice
  BY DEF Fresh
<1>. QED
  BY <1>1, <1>2, <1>3, PTL DEF Spec

-----------------------------------------------------------------------------
(* A nested name's source is as near as the name itself.                    *)
LEMMA SourceLocalityFacts ==
    /\ \A name : SourceLocality(name) \in Nat
    /\ \A name \in Names : SourceLocality(name) = LocalityOf(name)
<1>1. ASSUME NEW name PROVE LocalityOf(name) \in Nat
  BY DEF LocalityOf
<1>2. ASSUME NEW name PROVE SourceLocality(name) \in Nat
  BY <1>1 DEF SourceLocality
<1>3. ASSUME NEW name \in Names PROVE SourceLocality(name) = LocalityOf(name)
  BY <1>3, NoneAssumption DEF SourceLocality, OriginOf, LocalityOf
<1>. QED
  BY <1>2, <1>3

(* The paths lead through nodes, nearest first.                             *)
Chain ==
    /\ LocalityNeverDecreases
    /\ \A n \in DOMAIN nodes : Ancestors(nodes[n].path) \subseteq DOMAIN nodes
    /\ pending # None => Ancestors(pending.path) \subseteq DOMAIN nodes

LEMMA ChainNext == Shape /\ Chain /\ [Next]_vars => Chain'
<1>. SUFFICES ASSUME Shape, Chain, [Next]_vars PROVE Chain'
  OBVIOUS
<1>1. CASE Ingest
  <2>1. pending # None /\ pending' = None
    BY <1>1 DEF Ingest
  <2>2. /\ DOMAIN nodes' = DOMAIN nodes \cup {Len(nodes) + 1}
        /\ \A n \in DOMAIN nodes : nodes'[n] = nodes[n]
        /\ nodes'[Len(nodes) + 1].name = pending.name
        /\ nodes'[Len(nodes) + 1].path = pending.path
    BY <1>1, IngestFacts DEF NewNode
  <2>3. \A n \in DOMAIN nodes' : Ancestors(nodes'[n].path) \subseteq DOMAIN nodes
    BY <2>1, <2>2 DEF Chain
  <2>4. ASSUME NEW n \in DOMAIN nodes', NEW a \in Ancestors(nodes'[n].path)
        PROVE  SourceLocality(nodes'[a].name) <= SourceLocality(nodes'[n].name)
    BY <2>1, <2>2, <2>3, <2>4 DEF Chain, LocalityNeverDecreases
  <2>. QED
    BY <2>1, <2>2, <2>3, <2>4 DEF Chain, LocalityNeverDecreases
<1>2. CASE Nest
  <2>1. nodes' = nodes
    BY <1>2 DEF Nest
  <2>2. /\ Top.node \in DOMAIN nodes
        /\ Top.name = nodes[Top.node].name
    BY <1>2, NestFacts, TopFacts
  <2>3. ~(LocalityOf(Item.target) < SourceLocality(Top.name))
    BY <1>2 DEF Nest, NestError
  <2>4. SourceLocality(nodes[Top.node].name) <= SourceLocality(pending'.name)
    <3>1. /\ SourceLocality(pending'.name) = LocalityOf(Item.target)
          /\ SourceLocality(pending'.name) \in Nat
          /\ SourceLocality(Top.name) \in Nat
      BY <1>2, NestFacts, SourceLocalityFacts
    <3>2. \A i, j \in Nat : ~(i < j) => j <= i
      OBVIOUS
    <3>. QED
      BY <2>2, <2>3, <3>1, <3>2
  <2>5. Ancestors(pending'.path) = Ancestors(nodes[Top.node].path) \cup {Top.node}
    BY <1>2, NestFacts
  <2>6. ASSUME NEW a \in Ancestors(nodes[Top.node].path)
        PROVE  SourceLocality(nodes[a].name) <= SourceLocality(pending'.name)
    <3>1. SourceLocality(nodes[a].name) <= SourceLocality(nodes[Top.node].name)
      BY <2>2, <2>6 DEF Chain, LocalityNeverDecreases
    <3>2. \A i, j, k \in Nat : i <= j /\ j <= k => i <= k
      OBVIOUS
    <3>. QED
      BY <2>4, <3>1, <3>2, SourceLocalityFacts
  <2>7. Ancestors(nodes[Top.node].path) \subseteq DOMAIN nodes
    BY <2>2 DEF Chain
  <2>. QED
    BY <2>1, <2>2, <2>4, <2>5, <2>6, <2>7 DEF Chain, LocalityNeverDecreases
<1>3. CASE UNCHANGED <<nodes, pending>>
  BY <1>3 DEF Chain, LocalityNeverDecreases
<1>. QED
  BY <1>1, <1>2, <1>3
     DEF Next, vars, Fail, IngestFails, NestFails, SkipVisited, Return, PlanResource,
         ResourceLimit, SkipDuplicate, Finish, FinishFails

(* resolver.rs:550-559: no chain of nested names, however long, leads from  *)
(* the network back to this machine.                                       *)
THEOREM NeverNearer == Spec => []LocalityNeverDecreases
<1>1. Init => Shape /\ Chain
  <2>1. ASSUME Init PROVE Ancestors(pending.path) = {}
    BY <2>1 DEF Init, Ancestors
  <2>. QED
    BY <2>1, ShapeInit DEF Init, Chain, LocalityNeverDecreases
<1>2. Shape /\ Chain /\ [Next]_vars => (Shape /\ Chain)'
  BY ShapeNext, ChainNext
<1>3. Chain => LocalityNeverDecreases
  BY DEF Chain
<1>. QED
  BY <1>1, <1>2, <1>3, PTL DEF Spec

-----------------------------------------------------------------------------
(* A step of a path names a node and one of its resources.                  *)
Declared(ns, step) ==
    step[1] \in DOMAIN ns /\ step[2] \in DOMAIN ns[step[1]].doc.resources
ResourceAt(ns, step) == ns[step[1]].doc.resources[step[2]]
LastOf(path) == path[Len(path)]

(* The ends of a path with one more step.                                   *)
LEMMA LongerPath ==
    ASSUME NEW path \in Seq(Nat \X Nat), NEW step \in Nat \X Nat
    PROVE  /\ Append(path, step) \in Seq(Nat \X Nat) /\ Append(path, step) # <<>>
           /\ LastOf(Append(path, step)) = step
           /\ Append(path, step)[1] = IF path = <<>> THEN step ELSE path[1]
           /\ DOMAIN Append(path, step) = DOMAIN path \cup {Len(path) + 1}
           /\ \A b \in DOMAIN path : Append(path, step)[b] = path[b]
           /\ Append(path, step)[Len(path) + 1] = step
<1>. DEFINE longer == Append(path, step)
<1>1. /\ longer \in Seq(Nat \X Nat)
      /\ Len(longer) = Len(path) + 1
      /\ \A k \in 1 .. Len(path) : longer[k] = path[k]
      /\ longer[Len(path) + 1] = step
  BY AppendProperties
<1>2. Len(path) \in Nat /\ DOMAIN path = 1 .. Len(path) /\ DOMAIN longer = 1 .. Len(longer)
  BY <1>1, LenProperties
<1>3. path = <<>> <=> Len(path) = 0
  BY EmptySeq
<1>. HIDE DEF longer
<1>4. longer # <<>>
  <2>1. Len(longer) # 0
    BY <1>1, <1>2
  <2>. QED
    BY <1>1, <2>1, EmptySeq
<1>5. longer[1] = IF path = <<>> THEN step ELSE path[1]
  BY <1>1, <1>2, <1>3
<1>6. DOMAIN longer = DOMAIN path \cup {Len(path) + 1}
  BY <1>1, <1>2
<1>7. LastOf(longer) = step
  BY <1>1 DEF LastOf
<1>8. \A b \in DOMAIN path : longer[b] = path[b]
  BY <1>1, <1>2
<1>. QED
  BY <1>1, <1>4, <1>5, <1>6, <1>7, <1>8 DEF longer

(* The step at which the innermost loop stands.                             *)
Step == <<Top.node, Here>>
TopPath == nodes[Top.node].path

LEMMA StepFacts ==
    ASSUME Shape, frames # <<>>, ~TopDone
    PROVE  /\ Step \in Nat \X Nat /\ Step[1] = Top.node /\ Step[2] = Here
           /\ Declared(nodes, Step) /\ ResourceAt(nodes, Step) = Item /\ Item \in Resource
           /\ TopPath \in Seq(Nat \X Nat)
<1>1. Top \in Frame /\ Top.node \in DOMAIN nodes /\ nodes[Top.node] \in Node
  BY TopFacts
<1>2. Here \in DOMAIN TopDoc.resources /\ Here \in Nat /\ Item \in Resource
  BY ItemFacts
<1>3. Step[1] = Top.node /\ Step[2] = Here
  BY DEF Step
<1>4. Top.node \in Nat
  BY <1>1 DEF Frame
<1>5. Step \in Nat \X Nat
  BY <1>2, <1>4 DEF Step
<1>6. TopPath \in Seq(Nat \X Nat)
  BY <1>1 DEF TopPath, Node
<1>7. Declared(nodes, Step) /\ ResourceAt(nodes, Step) = Item
  BY <1>1, <1>2, <1>3 DEF Declared, ResourceAt, TopDoc, Item
<1>. QED
  BY <1>2, <1>3, <1>5, <1>6, <1>7

(* The pins: of every node's container, and of the call being made.         *)
Pinned ==
    /\ \A n \in DOMAIN nodes : nodes[n].path # <<>> =>
          /\ Declared(nodes, LastOf(nodes[n].path))
          /\ ResourceAt(nodes, LastOf(nodes[n].path)).pin \in {None, nodes[n].doc.hash}
    /\ pending # None /\ pending.path # <<>> =>
          /\ Declared(nodes, LastOf(pending.path))
          /\ ResourceAt(nodes, LastOf(pending.path)).pin = pending.pin

LEMMA PinnedNext == Shape /\ Pinned /\ [Next]_vars => Pinned'
<1>. SUFFICES ASSUME Shape, Pinned, [Next]_vars PROVE Pinned'
  OBVIOUS
<1>1. CASE Ingest
  <2>1. pending # None /\ pending' = None /\ pending.pin \in {None, Located.hash}
    BY <1>1 DEF Ingest, IngestError
  <2>2. /\ DOMAIN nodes' = DOMAIN nodes \cup {Len(nodes) + 1}
        /\ \A n \in DOMAIN nodes : nodes'[n] = nodes[n]
        /\ nodes'[Len(nodes) + 1].doc = Located
        /\ nodes'[Len(nodes) + 1].path = pending.path
    BY <1>1, IngestFacts DEF NewNode
  <2>3. ASSUME NEW n \in DOMAIN nodes, nodes[n].path # <<>>
        PROVE  /\ Declared(nodes', LastOf(nodes'[n].path))
               /\ ResourceAt(nodes', LastOf(nodes'[n].path)).pin \in {None, nodes'[n].doc.hash}
    BY <2>2, <2>3 DEF Pinned, Declared, ResourceAt
  <2>4. ASSUME pending.path # <<>>
        PROVE  /\ Declared(nodes', LastOf(pending.path))
               /\ ResourceAt(nodes', LastOf(pending.path)).pin \in {None, Located.hash}
    BY <2>1, <2>2, <2>4 DEF Pinned, Declared, ResourceAt
  <2>. QED
    BY <2>1, <2>2, <2>3, <2>4 DEF Pinned
<1>2. CASE Nest
  <2>1. frames # <<>> /\ ~TopDone /\ nodes' = nodes
    BY <1>2, NestFacts DEF Nest
  <2>2. pending'.path = Append(TopPath, Step) /\ pending'.pin = Item.pin
    BY <1>2 DEF Nest, TopPath, Step
  <2>3. LastOf(pending'.path) = Step
    BY <2>1, <2>2, StepFacts, LongerPath
  <2>4. Declared(nodes, Step) /\ ResourceAt(nodes, Step).pin = Item.pin
    BY <2>1, StepFacts
  <2>5. Declared(nodes, LastOf(pending'.path)) /\ ResourceAt(nodes, LastOf(pending'.path)).pin = pending'.pin
    BY <2>2, <2>3, <2>4
  <2>. QED
    BY <2>1, <2>5 DEF Pinned
<1>3. CASE UNCHANGED <<nodes, pending>>
  BY <1>3 DEF Pinned
<1>. QED
  BY <1>1, <1>2, <1>3
     DEF Next, vars, Fail, IngestFails, NestFails, SkipVisited, Return, PlanResource,
         ResourceLimit, SkipDuplicate, Finish, FinishFails

(* resolver.rs:347-349: at no depth is a manifest spliced under a pin its   *)
(* bytes do not have.                                                      *)
THEOREM PinsHold == Spec => []SplicedBytesPinned
<1>1. Init => Shape /\ Pinned
  BY ShapeInit DEF Init, Pinned
<1>2. Shape /\ Pinned /\ [Next]_vars => (Shape /\ Pinned)'
  BY ShapeNext, PinnedNext
<1>3. Pinned => SplicedBytesPinned
  BY DEF Pinned, SplicedBytesPinned, LastOf, ResourceAt
<1>. QED
  BY <1>1, <1>2, <1>3, PTL DEF Spec

-----------------------------------------------------------------------------
(* Where a path begins: at the root, and under the anchor it is given.      *)
Anchored(ns, path, anchor) ==
    IF path = <<>> THEN anchor = None
    ELSE /\ path[1][1] = 1
         /\ anchor # None
         /\ anchor = ns[1].doc.resources[path[1][2]].id

(* Only the root has no path, and everything else is anchored in it.        *)
Rooted ==
    /\ \A k \in DOMAIN frames : Anchored(nodes, nodes[frames[k].node].path, frames[k].anchor)
    /\ \A n \in DOMAIN nodes : nodes[n].path = <<>> => n = 1
    /\ pending # None =>
          /\ Anchored(nodes, pending.path, pending.anchor)
          /\ pending.path = <<>> <=> nodes = <<>>
    /\ \A p \in DOMAIN plan :
          plan[p].path # <<>> /\ Declared(nodes, LastOf(plan[p].path))
    /\ Provenance

LEMMA SameRoot ==
    ASSUME NEW ns, NEW ms, NEW path, NEW anchor,
           path # <<>> => ms[1] = ns[1], Anchored(ns, path, anchor)
    PROVE  Anchored(ms, path, anchor)
BY DEF Anchored

(* A nonempty list of nodes has the root.                                   *)
LEMMA RootExists ==
    ASSUME Shape
    PROVE  /\ \A n \in DOMAIN nodes : 1 \in DOMAIN nodes
           /\ nodes # <<>> => 1 \in DOMAIN nodes
<1>1. nodes \in Seq(Node) /\ Len(nodes) \in Nat /\ DOMAIN nodes = 1 .. Len(nodes)
  BY LenProperties DEF Shape, TypeOK
<1>. QED
  BY <1>1, EmptySeq

LEMMA StepAnchored ==
    ASSUME Shape, Rooted, frames # <<>>, ~TopDone
    PROVE  Anchored(nodes, Append(TopPath, Step), AnchorOf(Top, Item.id))
<1>1. /\ Append(TopPath, Step) # <<>>
      /\ Append(TopPath, Step)[1] = IF TopPath = <<>> THEN Step ELSE TopPath[1]
  BY StepFacts, LongerPath
<1>2. Item.id \in ResourceIds /\ Item.id # None
  BY StepFacts, NoneAssumption DEF Resource
<1>3. Anchored(nodes, TopPath, Top.anchor)
  BY TopFacts DEF Rooted, TopPath, Top
<1>4. CASE TopPath = <<>>
  <2>1. Top.node = 1 /\ Top.anchor = None
    BY <1>3, <1>4, TopFacts DEF Rooted, TopPath, Anchored
  <2>2. ResourceAt(nodes, Step).id = Item.id /\ Step[1] = 1
    BY <2>1, StepFacts
  <2>. QED
    BY <1>1, <1>2, <1>4, <2>1, <2>2 DEF Anchored, AnchorOf, ResourceAt
<1>5. CASE TopPath # <<>>
  BY <1>1, <1>3, <1>5 DEF Anchored, AnchorOf
<1>. QED
  BY <1>4, <1>5

LEMMA RootedIngest == Shape /\ Rooted /\ Ingest => Rooted'
<1>. SUFFICES ASSUME Shape, Rooted, Ingest PROVE Rooted'
  OBVIOUS
<1>1. pending # None /\ pending' = None /\ plan' = plan
  BY DEF Ingest
<1>2. /\ DOMAIN nodes' = DOMAIN nodes \cup {Len(nodes) + 1}
      /\ \A n \in DOMAIN nodes : nodes'[n] = nodes[n]
      /\ nodes'[Len(nodes) + 1].path = pending.path
      /\ nodes = <<>> => Len(nodes) + 1 = 1
  <2>1. /\ nodes'[Len(nodes) + 1] = NewNode
        /\ \A n \in DOMAIN nodes : nodes'[n] = nodes[n]
    BY IngestFacts
  <2>2. DOMAIN nodes' = DOMAIN nodes \cup {Len(nodes) + 1}
    BY IngestFacts
  <2>3. NewNode.path = pending.path
    BY DEF NewNode
  <2>4. nodes = <<>> => Len(nodes) + 1 = 1
    BY EmptySeq
  <2>. QED
    BY <2>1, <2>2, <2>3, <2>4
<1>3. /\ DOMAIN frames' = DOMAIN frames \cup {Len(frames) + 1}
      /\ \A k \in DOMAIN frames : frames'[k] = frames[k] /\ frames[k].node \in DOMAIN nodes
      /\ frames'[Len(frames) + 1].node = Len(nodes) + 1
      /\ frames'[Len(frames) + 1].anchor = pending.anchor
  <2>1. DOMAIN frames' = DOMAIN frames \cup {Len(frames) + 1}
    BY IngestFacts
  <2>2. \A k \in DOMAIN frames : frames'[k] = frames[k]
    BY IngestFacts
  <2>3. \A k \in DOMAIN frames : frames[k].node \in DOMAIN nodes
    BY DEF Shape, FramesOK
  <2>4. /\ frames'[Len(frames) + 1].node = Len(nodes) + 1
        /\ frames'[Len(frames) + 1].anchor = pending.anchor
    <3>1. frames'[Len(frames) + 1] =
             [name |-> pending.name, node |-> Len(nodes) + 1,
              anchor |-> pending.anchor, done |-> {}]
      BY IngestFacts
    <3>. QED
      BY <3>1
  <2>. QED
    BY <2>1, <2>2, <2>3, <2>4
<1>4. Anchored(nodes, pending.path, pending.anchor) /\ (pending.path = <<>> <=> nodes = <<>>)
  BY <1>1 DEF Rooted
<1>5. ASSUME NEW k \in DOMAIN frames
      PROVE  Anchored(nodes', nodes'[frames'[k].node].path, frames'[k].anchor)
  <2>1. Anchored(nodes, nodes[frames[k].node].path, frames[k].anchor)
    BY DEF Rooted
  <2>2. nodes'[1] = nodes[1]
    BY <1>2, <1>3, RootExists
  <2>3. frames'[k] = frames[k] /\ nodes'[frames[k].node] = nodes[frames[k].node]
    BY <1>2, <1>3
  <2>. QED
    BY <2>1, <2>2, <2>3, SameRoot
<1>6. Anchored(nodes', pending.path, pending.anchor)
  BY <1>2, <1>4, RootExists, SameRoot
<1>7. \A n \in DOMAIN nodes' : nodes'[n].path = <<>> => n = 1
  BY <1>2, <1>4 DEF Rooted
<1>8. ASSUME NEW p \in DOMAIN plan
      PROVE  /\ plan[p].path # <<>> /\ Declared(nodes, LastOf(plan[p].path))
             /\ Declared(nodes', LastOf(plan[p].path))
             /\ nodes'[LastOf(plan[p].path)[1]] = nodes[LastOf(plan[p].path)[1]]
             /\ nodes'[1] = nodes[1]
  BY <1>2, RootExists DEF Rooted, Declared
<1>9. Provenance'
  BY <1>1, <1>8 DEF Rooted, Provenance, LastOf
<1>. QED
  BY <1>1, <1>2, <1>3, <1>5, <1>6, <1>7, <1>8, <1>9 DEF Rooted

LEMMA RootedPlan == Shape /\ Rooted /\ PlanResource => Provenance' /\
    \A p \in DOMAIN plan' : plan'[p].path # <<>> /\ Declared(nodes, LastOf(plan'[p].path))
<1>. SUFFICES ASSUME Shape, Rooted, PlanResource
              PROVE  /\ Provenance'
                     /\ \A p \in DOMAIN plan' :
                           plan'[p].path # <<>> /\ Declared(nodes, LastOf(plan'[p].path))
  OBVIOUS
<1>1. /\ frames # <<>> /\ ~TopDone /\ nodes' = nodes
      /\ DOMAIN plan' = DOMAIN plan \cup {Len(plan) + 1}
      /\ \A p \in DOMAIN plan : plan'[p] = plan[p]
      /\ plan'[Len(plan) + 1] = Entry
  BY PlanResourceFacts DEF PlanResource
<1>2. /\ Entry.node = Top.node /\ Entry.resource = Item
      /\ Entry.anchor = AnchorOf(Top, Item.id) /\ Entry.path = Append(TopPath, Step)
  BY DEF Entry, TopPath, Step
<1>3. Entry.path # <<>> /\ LastOf(Entry.path) = Step
  BY <1>1, <1>2, StepFacts, LongerPath
<1>4. Declared(nodes, Step) /\ ResourceAt(nodes, Step) = Item /\ Step[1] = Top.node
  BY <1>1, StepFacts
<1>5. Anchored(nodes, Entry.path, Entry.anchor)
  BY <1>1, <1>2, StepAnchored
<1>6. /\ Entry.node = LastOf(Entry.path)[1]
      /\ Entry.resource = ResourceAt(nodes, LastOf(Entry.path))
      /\ Entry.path[1][1] = 1
      /\ Entry.anchor = nodes[1].doc.resources[Entry.path[1][2]].id
  BY <1>2, <1>3, <1>4, <1>5 DEF Anchored
<1>7. Provenance'
  <2>. DEFINE Traced(entry) ==
                 /\ entry.node = LastOf(entry.path)[1]
                 /\ entry.resource = ResourceAt(nodes, LastOf(entry.path))
                 /\ entry.path[1][1] = 1
                 /\ entry.anchor = nodes[1].doc.resources[entry.path[1][2]].id
  <2>1. \A p \in DOMAIN plan : Traced(plan[p])
    BY DEF Rooted, Provenance, LastOf, ResourceAt
  <2>2. Traced(Entry)
    BY <1>6
  <2>3. \A p \in DOMAIN plan' : Traced(plan'[p])
    <3>. HIDE DEF Traced
    <3>. QED
      BY <1>1, <2>1, <2>2
  <2>. QED
    BY <1>1, <2>3 DEF Provenance, LastOf, ResourceAt
<1>. QED
  BY <1>1, <1>3, <1>4, <1>7 DEF Rooted

LEMMA RootedNext == Shape /\ Rooted /\ [Next]_vars => Rooted'
<1>. SUFFICES ASSUME Shape, Rooted, [Next]_vars PROVE Rooted'
  OBVIOUS
<1>1. CASE Ingest
  BY <1>1, RootedIngest
<1>2. CASE Nest
  <2>1. frames # <<>> /\ ~TopDone /\ frames' = Advanced /\ UNCHANGED <<nodes, plan>>
    BY <1>2, NestFacts DEF Nest
  <2>2. pending'.path = Append(TopPath, Step) /\ pending'.anchor = AnchorOf(Top, Item.id)
    BY <1>2 DEF Nest, TopPath, Step
  <2>3. Anchored(nodes, pending'.path, pending'.anchor)
    BY <2>1, <2>2, StepAnchored
  <2>4. pending'.path # <<>> /\ nodes # <<>>
    <3>1. Append(TopPath, Step) # <<>>
      BY <2>1, StepFacts, LongerPath
    <3>2. nodes # <<>>
      BY <2>1, TopFacts
    <3>. QED
      BY <2>2, <3>1, <3>2
  <2>5. \A k \in DOMAIN frames' :
           k \in DOMAIN frames /\ frames'[k].node = frames[k].node
                               /\ frames'[k].anchor = frames[k].anchor
    BY <2>1, AdvancedFacts
  <2>. QED
    BY <2>1, <2>3, <2>4, <2>5 DEF Rooted, Provenance
<1>3. CASE PlanResource
  <2>1. frames # <<>> /\ ~TopDone /\ frames' = Advanced /\ UNCHANGED <<nodes, pending>>
    BY <1>3, PlanResourceFacts DEF PlanResource
  <2>2. \A k \in DOMAIN frames' :
           k \in DOMAIN frames /\ frames'[k].node = frames[k].node
                               /\ frames'[k].anchor = frames[k].anchor
    BY <2>1, AdvancedFacts
  <2>. QED
    BY <1>3, <2>1, <2>2, RootedPlan DEF Rooted
<1>4. CASE SkipVisited \/ SkipDuplicate
  <2>1. frames # <<>> /\ ~TopDone /\ frames' = Advanced /\ UNCHANGED <<nodes, pending, plan>>
    BY <1>4 DEF SkipVisited, SkipDuplicate, AtNested, AtResource, Splicing
  <2>2. \A k \in DOMAIN frames' :
           k \in DOMAIN frames /\ frames'[k].node = frames[k].node
                               /\ frames'[k].anchor = frames[k].anchor
    BY <2>1, AdvancedFacts
  <2>. QED
    BY <2>1, <2>2 DEF Rooted, Provenance
<1>5. CASE Return
  BY <1>5, ReturnFacts DEF Return, Rooted, Provenance
<1>6. CASE Finish
  BY <1>6 DEF Finish, Rooted, Provenance
<1>7. CASE UNCHANGED <<nodes, pending, plan, frames>>
  BY <1>7 DEF Rooted, Provenance
<1>. QED
  BY <1>1, <1>2, <1>3, <1>4, <1>5, <1>6, <1>7
     DEF Next, vars, Fail, IngestFails, NestFails, ResourceLimit, FinishFails

(* resolver.rs:527 and 545: through any nesting, a planned resource carries *)
(* the manifest that declares it and the root resource it came in by.       *)
THEOREM EntriesAreRooted == Spec => []Provenance
<1>1. Init => Shape /\ Rooted
  BY ShapeInit DEF Init, Rooted, Anchored, Provenance
<1>2. Shape /\ Rooted /\ [Next]_vars => (Shape /\ Rooted)'
  BY ShapeNext, RootedNext
<1>3. Rooted => Provenance
  BY DEF Rooted
<1>. QED
  BY <1>1, <1>2, <1>3, PTL DEF Spec

-----------------------------------------------------------------------------
(* The names that have been located or are about to be.                     *)
Met == {nodes[n].name : n \in DOMAIN nodes} \cup (IF pending = None THEN {} ELSE {pending.name})

(* A resource that is nested, or planned, itself or one like it.            *)
Handled(names, keys, r) == IF r.kind = "murl" THEN r.target \in names ELSE DedupKey(r) \in keys

(* What a loop has left behind is handled.                                  *)
DoneHandled ==
    \A k \in DOMAIN frames : \A i \in frames[k].done :
        Handled(Met, dedup, nodes[frames[k].node].doc.resources[i])

(* So is all of a manifest whose loop has ended.                            *)
LeftHandled ==
    \A n \in DOMAIN nodes :
        \/ \E k \in DOMAIN frames : frames[k].node = n
        \/ \A i \in DOMAIN nodes[n].doc.resources :
              Handled(Met, dedup, nodes[n].doc.resources[i])

(* A key in `dedup` is that of a planned resource.                          *)
KeysPlanned == \A key \in dedup : \E p \in DOMAIN plan : DedupKey(plan[p].resource) = key

(* No loop is left when the resolution has succeeded.                       *)
Ended == outcome = "resolved" => frames = <<>> /\ pending = None

Complete == DoneHandled /\ LeftHandled /\ visited \subseteq Met /\ KeysPlanned /\ Ended

LEMMA CompleteAdvance ==
    ASSUME Shape, Complete, frames # <<>>, ~TopDone, frames' = Advanced, nodes' = nodes,
           Met \subseteq Met', dedup \subseteq dedup', Handled(Met', dedup', Item)
    PROVE  DoneHandled' /\ LeftHandled'
<1>1. \A r : Handled(Met, dedup, r) => Handled(Met', dedup', r)
  BY DEF Handled
<1>2. /\ DOMAIN frames' = DOMAIN frames
      /\ \A k \in DOMAIN frames : frames'[k].node = frames[k].node
      /\ \A k \in DOMAIN frames :
            frames'[k].done = IF k = Len(frames) THEN Top.done \cup {Here} ELSE frames[k].done
  BY AdvancedFacts
<1>3. ASSUME NEW k \in DOMAIN frames, NEW i \in frames'[k].done
      PROVE  Handled(Met', dedup', nodes[frames[k].node].doc.resources[i])
  <2>1. CASE i \in frames[k].done
    BY <1>1, <2>1 DEF Complete, DoneHandled
  <2>2. CASE i \notin frames[k].done
    <3>1. k = Len(frames) /\ i = Here
      BY <1>2, <1>3, <2>2 DEF Top
    <3>. QED
      BY <3>1 DEF Top, TopDoc, Item
  <2>. QED
    BY <2>1, <2>2
<1>4. ASSUME NEW n \in DOMAIN nodes
      PROVE  \/ \E k \in DOMAIN frames' : frames'[k].node = n
             \/ \A i \in DOMAIN nodes[n].doc.resources :
                   Handled(Met', dedup', nodes[n].doc.resources[i])
  BY <1>1, <1>2 DEF Complete, LeftHandled
<1>5. DoneHandled'
  BY <1>2, <1>3 DEF DoneHandled
<1>6. LeftHandled'
  BY <1>4 DEF LeftHandled
<1>. QED
  BY <1>5, <1>6

(* A frame that goes away at its end leaves its node handled.               *)
LEMMA CompleteLeave ==
    ASSUME Shape, Complete, frames # <<>>, TopDone
    PROVE  \A i \in DOMAIN TopDoc.resources : Handled(Met, dedup, TopDoc.resources[i])
BY TopFacts DEF Complete, DoneHandled, Top, TopDoc, TopDone

(* Nothing is lost by a step that leaves the tree and the plan alone.       *)
LEMMA CompleteStill ==
    ASSUME Complete, UNCHANGED <<nodes, pending, frames, plan, dedup, visited>>, Ended'
    PROVE  Complete'
<1>1. Met' = Met
  BY DEF Met
<1>2. DoneHandled'
  BY <1>1 DEF Complete, DoneHandled
<1>3. LeftHandled'
  BY <1>1 DEF Complete, LeftHandled
<1>4. KeysPlanned'
  BY DEF Complete, KeysPlanned
<1>. QED
  BY <1>1, <1>2, <1>3, <1>4 DEF Complete

LEMMA CompleteNext == Shape /\ Complete /\ [Next]_vars => Complete'
<1>. SUFFICES ASSUME Shape, Complete, [Next]_vars PROVE Complete'
  OBVIOUS
<1>1. CASE Ingest
  <2>1. /\ pending # None /\ pending' = None /\ UNCHANGED <<plan, dedup, visited, outcome>>
        /\ outcome = "resolving"
    BY <1>1 DEF Ingest
  <2>2. /\ DOMAIN nodes' = DOMAIN nodes \cup {Len(nodes) + 1}
        /\ \A n \in DOMAIN nodes : nodes'[n] = nodes[n]
    BY <1>1, IngestFacts
  <2>3. nodes'[Len(nodes) + 1].name = pending.name
    BY <1>1, IngestFacts DEF NewNode
  <2>4. Met' = Met
    BY <2>1, <2>2, <2>3 DEF Met
  <2>5. /\ DOMAIN frames' = DOMAIN frames \cup {Len(frames) + 1}
        /\ \A k \in DOMAIN frames : frames'[k] = frames[k]
    BY <1>1, IngestFacts
  <2>6. /\ frames'[Len(frames) + 1].node = Len(nodes) + 1
        /\ frames'[Len(frames) + 1].done = {}
    <3>1. frames'[Len(frames) + 1] =
             [name |-> pending.name, node |-> Len(nodes) + 1,
              anchor |-> pending.anchor, done |-> {}]
      BY <1>1, IngestFacts
    <3>. QED
      BY <3>1
  <2>7. \A k \in DOMAIN frames : frames[k].node \in DOMAIN nodes
    BY DEF Shape, FramesOK
  <2>8. DoneHandled'
    BY <2>1, <2>2, <2>4, <2>5, <2>6, <2>7 DEF Complete, DoneHandled
  <2>9. LeftHandled'
    BY <2>1, <2>2, <2>4, <2>5, <2>6 DEF Complete, LeftHandled
  <2>. QED
    BY <2>1, <2>4, <2>8, <2>9 DEF Complete, KeysPlanned, Ended
<1>2. CASE Nest
  <2>1. /\ frames # <<>> /\ ~TopDone /\ frames' = Advanced /\ Item.kind = "murl"
        /\ UNCHANGED <<nodes, plan, dedup, visited, outcome>>
        /\ pending = None /\ outcome = "resolving"
    BY <1>2 DEF Nest, AtNested, Splicing
  <2>2. pending'.name = Item.target /\ pending' # None
    BY <1>2, NestFacts, NoneAssumption
  <2>3. Met \subseteq Met' /\ Item.target \in Met'
    BY <2>1, <2>2 DEF Met
  <2>4. Handled(Met', dedup', Item)
    BY <2>1, <2>3 DEF Handled
  <2>5. DoneHandled' /\ LeftHandled'
    BY <2>1, <2>3, <2>4, CompleteAdvance
  <2>. QED
    BY <2>1, <2>3, <2>5 DEF Complete, KeysPlanned, Ended
<1>3. CASE SkipVisited
  <2>1. /\ frames # <<>> /\ ~TopDone /\ frames' = Advanced /\ Item.kind = "murl"
        /\ UNCHANGED <<nodes, pending, plan, dedup, visited, outcome>>
        /\ Item.target \in visited /\ outcome = "resolving"
    BY <1>3 DEF SkipVisited, AtNested, Splicing
  <2>2. Met' = Met
    BY <2>1 DEF Met
  <2>3. Handled(Met', dedup', Item)
    BY <2>1, <2>2 DEF Handled, Complete
  <2>4. DoneHandled' /\ LeftHandled'
    BY <2>1, <2>2, <2>3, CompleteAdvance
  <2>. QED
    BY <2>1, <2>2, <2>4 DEF Complete, KeysPlanned, Ended
<1>4. CASE SkipDuplicate
  <2>1. /\ frames # <<>> /\ ~TopDone /\ frames' = Advanced /\ Item.kind # "murl"
        /\ UNCHANGED <<nodes, pending, plan, dedup, visited, outcome>>
        /\ DedupKey(Item) \in dedup /\ outcome = "resolving"
    BY <1>4 DEF SkipDuplicate, AtResource, Splicing
  <2>2. Met' = Met
    BY <2>1 DEF Met
  <2>3. Handled(Met', dedup', Item)
    BY <2>1, <2>2 DEF Handled
  <2>4. DoneHandled' /\ LeftHandled'
    BY <2>1, <2>2, <2>3, CompleteAdvance
  <2>. QED
    BY <2>1, <2>2, <2>4 DEF Complete, KeysPlanned, Ended
<1>5. CASE PlanResource
  <2>1. /\ frames # <<>> /\ ~TopDone /\ frames' = Advanced /\ Item.kind # "murl"
        /\ UNCHANGED <<nodes, pending, visited, outcome>>
        /\ dedup' = dedup \cup {DedupKey(Item)} /\ outcome = "resolving"
    BY <1>5 DEF PlanResource, AtResource, Splicing
  <2>2. /\ DOMAIN plan' = DOMAIN plan \cup {Len(plan) + 1}
        /\ \A p \in DOMAIN plan : plan'[p] = plan[p]
        /\ plan'[Len(plan) + 1].resource = Item
    <3>1. DOMAIN plan' = DOMAIN plan \cup {Len(plan) + 1}
      BY <1>5, PlanResourceFacts
    <3>2. \A p \in DOMAIN plan : plan'[p] = plan[p]
      BY <1>5, PlanResourceFacts
    <3>3. plan'[Len(plan) + 1] = Entry /\ Entry.resource = Item
      BY <1>5, PlanResourceFacts
    <3>. QED
      BY <3>1, <3>2, <3>3
  <2>3. Met' = Met
    BY <2>1 DEF Met
  <2>4. Handled(Met', dedup', Item)
    BY <2>1 DEF Handled
  <2>5. KeysPlanned'
    BY <2>1, <2>2 DEF Complete, KeysPlanned
  <2>6. DoneHandled' /\ LeftHandled'
    BY <2>1, <2>3, <2>4, CompleteAdvance
  <2>. QED
    BY <2>1, <2>3, <2>5, <2>6 DEF Complete, Ended
<1>6. CASE Return
  <2>1. /\ UNCHANGED <<nodes, pending, plan, dedup, outcome>> /\ visited' = visited \cup {Top.name}
        /\ TopDone /\ outcome = "resolving"
    BY <1>6 DEF Return, Splicing
  <2>2. /\ frames # <<>>
        /\ DOMAIN frames = DOMAIN frames' \cup {Len(frames)}
        /\ \A k \in DOMAIN frames' : frames'[k] = frames[k]
    BY <1>6, ReturnFacts
  <2>3. \A i \in DOMAIN TopDoc.resources : Handled(Met, dedup, TopDoc.resources[i])
    BY <2>1, <2>2, CompleteLeave
  <2>4. Top.node \in DOMAIN nodes /\ Top.name = nodes[Top.node].name
    BY <2>2, TopFacts
  <2>5. Met' = Met /\ Top.name \in Met
    BY <2>1, <2>4 DEF Met
  <2>6. ASSUME NEW n \in DOMAIN nodes
        PROVE  \/ \E k \in DOMAIN frames' : frames'[k].node = n
               \/ \A i \in DOMAIN nodes[n].doc.resources :
                     Handled(Met, dedup, nodes[n].doc.resources[i])
    <3>1. CASE n = Top.node
      BY <2>3, <3>1 DEF TopDoc
    <3>2. CASE n # Top.node
      <4>1. CASE \E k \in DOMAIN frames : frames[k].node = n
        <5>1. PICK k \in DOMAIN frames : frames[k].node = n
          BY <4>1
        <5>2. k # Len(frames)
          BY <3>2, <5>1 DEF Top
        <5>3. k \in DOMAIN frames'
          BY <2>2, <5>2
        <5>4. frames'[k] = frames[k]
          BY <2>2, <5>3
        <5>. QED
          BY <5>1, <5>3, <5>4
      <4>2. CASE ~\E k \in DOMAIN frames : frames[k].node = n
        BY <4>2 DEF Complete, LeftHandled
      <4>. QED
        BY <4>1, <4>2
    <3>. QED
      BY <3>1, <3>2
  <2>7. LeftHandled'
    BY <2>1, <2>5, <2>6 DEF LeftHandled
  <2>8. DoneHandled'
    BY <2>1, <2>2, <2>5 DEF Complete, DoneHandled
  <2>. QED
    BY <2>1, <2>5, <2>7, <2>8 DEF Complete, KeysPlanned, Ended
<1>7. CASE Finish
  <2>1. /\ UNCHANGED <<nodes, pending, plan, dedup, visited>> /\ frames' = <<>>
        /\ frames # <<>> /\ TopDone /\ Len(frames) = 1 /\ pending = None
    BY <1>7 DEF Finish, AtEnd, Splicing
  <2>2. \A i \in DOMAIN TopDoc.resources : Handled(Met, dedup, TopDoc.resources[i])
    BY <2>1, CompleteLeave
  <2>3. \A k \in DOMAIN frames : k = Len(frames)
    BY <2>1, LenProperties DEF Shape, TypeOK
  <2>4. Met' = Met
    BY <2>1 DEF Met
  <2>5. LeftHandled'
    BY <2>1, <2>2, <2>3, <2>4 DEF Complete, LeftHandled, Top, TopDoc
  <2>6. DoneHandled'
    BY <2>1, EmptySeq DEF DoneHandled
  <2>. QED
    BY <2>1, <2>4, <2>5, <2>6 DEF Complete, KeysPlanned, Ended
<1>8. CASE IngestFails \/ NestFails \/ ResourceLimit \/ FinishFails
  <2>1. UNCHANGED <<nodes, pending, frames, plan, dedup, visited>> /\ outcome' # "resolved"
    BY <1>8 DEF IngestFails, NestFails, ResourceLimit, FinishFails, Fail, IngestError, NestError
  <2>2. Ended'
    BY <2>1 DEF Ended
  <2>. QED
    BY <2>1, <2>2, CompleteStill
<1>9. CASE UNCHANGED vars
  <2>1. UNCHANGED <<nodes, pending, frames, plan, dedup, visited, outcome>>
    BY <1>9 DEF vars
  <2>2. Ended'
    BY <2>1 DEF Complete, Ended
  <2>. QED
    BY <2>1, <2>2, CompleteStill
<1>. QED
  BY <1>1, <1>2, <1>3, <1>4, <1>5, <1>6, <1>7, <1>8, <1>9 DEF Next

(* resolver.rs:580-585 and 614-620: what is skipped, in a tree of any size, *)
(* stands in the plan all the same when the resolution succeeds.            *)
THEOREM NothingIsLost == Spec => []NothingSilentlyDropped
<1>1. Init => Shape /\ Complete
  BY ShapeInit, EmptySeq DEF Init, Complete, DoneHandled, LeftHandled, KeysPlanned, Ended
<1>2. Shape /\ Complete /\ [Next]_vars => (Shape /\ Complete)'
  BY ShapeNext, CompleteNext
<1>3. Shape /\ Complete => NothingSilentlyDropped
  <2>. SUFFICES ASSUME Complete, outcome = "resolved",
                       NEW n \in DOMAIN nodes, NEW i \in DOMAIN nodes[n].doc.resources,
                       NEW r, r = nodes[n].doc.resources[i]
                PROVE  IF r.kind = "murl"
                       THEN \E m \in DOMAIN nodes : nodes[m].name = r.target
                       ELSE \E p \in DOMAIN plan : /\ plan[p].resource.kind = r.kind
                                                   /\ plan[p].resource.target = r.target
    BY DEF NothingSilentlyDropped
  <2>1. DOMAIN frames = {} /\ pending = None
    BY EmptySeq DEF Complete, Ended
  <2>2. Handled(Met, dedup, r)
    BY <2>1 DEF Complete, LeftHandled
  <2>3. CASE r.kind = "murl"
    <3>1. r.target \in Met
      BY <2>2, <2>3 DEF Handled
    <3>. QED
      BY <2>1, <2>3, <3>1 DEF Met
  <2>4. CASE r.kind # "murl"
    <3>1. DedupKey(r) \in dedup
      BY <2>2, <2>4 DEF Handled
    <3>2. PICK p \in DOMAIN plan : DedupKey(plan[p].resource) = DedupKey(r)
      BY <3>1 DEF Complete, KeysPlanned
    <3>3. plan[p].resource.kind = r.kind /\ plan[p].resource.target = r.target
      BY <3>2 DEF DedupKey
    <3>. QED
      BY <2>4, <3>3
  <2>. QED
    BY <2>3, <2>4
<1>. QED
  BY <1>1, <1>2, <1>3, PTL DEF Spec

-----------------------------------------------------------------------------
(* A step of the loop of frame k after which no other was begun that should *)
(* have waited for it.                                                      *)
Latest(ns, fs, step, k) ==
    /\ step[1] = fs[k].node
    /\ step[2] \in fs[k].done
    /\ \A i \in fs[k].done : step[2] \notin Deps(ns[step[1]].doc.resources, i)

(* A path leads along the lowest frames, through the step each is at.       *)
Along(ns, fs, path, top) ==
    /\ DOMAIN path = 1 .. top
    /\ \A b \in 1 .. top : Latest(ns, fs, path[b], b)

(* A step that its node's loop, if it is still running, has taken.          *)
Begun(fs, step) == \A k \in DOMAIN fs : fs[k].node = step[1] => step[2] \in fs[k].done

(* No manifest is spliced by two loops at a time.                           *)
Separate == \A k, m \in DOMAIN frames : frames[k].node = frames[m].node => k = m

(* What a loop has taken, it has taken after all that depends on.           *)
Closed ==
    \A k \in DOMAIN frames : \A i \in frames[k].done :
        Deps(nodes[frames[k].node].doc.resources, i) \subseteq frames[k].done

(* The path of a frame's node leads along all the frames below it, that of  *)
(* a call along all frames.                                                 *)
Stacked ==
    \A k \in DOMAIN frames : Along(nodes, frames, nodes[frames[k].node].path, k - 1)
Called == pending # None => Along(nodes, frames, pending.path, Len(frames))

PlanBegun ==
    \A p \in DOMAIN plan : \A a \in DOMAIN plan[p].path :
        Declared(nodes, plan[p].path[a]) /\ Begun(frames, plan[p].path[a])

Ordered == Separate /\ Closed /\ Stacked /\ Called /\ PlanBegun /\ LaunchOrder

LEMMA HereFacts ==
    ASSUME Shape, frames # <<>>, ~TopDone
    PROVE  Here \notin Top.done /\ Deps(TopDoc.resources, Here) \subseteq Top.done
<1>. DEFINE rs == TopDoc.resources
<1>1. TopDoc \in Document /\ Top.done \subseteq DOMAIN rs /\ Len(frames) \in DOMAIN frames
  BY TopFacts
<1>2. rs \in Seq(Resource)
  BY <1>1 DEF Document
<1>3. ValidResources(rs)
  BY <1>1 DEF Shape, FramesOK, Top, TopDoc
<1>4. DOMAIN rs \subseteq Nat /\ \A i \in DOMAIN rs : rs[i] \in Resource
  BY <1>2, LenProperties
<1>5. \A i \in DOMAIN rs : rs[i].order \in Nat
  BY <1>4 DEF Resource
<1>. QED
  BY <1>1, <1>3, <1>4, <1>5, PickIsReady DEF ValidResources, Here, TopDone

(* What Advanced does, without naming the resource it goes past.            *)
LEMMA LastAdvances ==
    ASSUME Shape, Ordered, frames # <<>>, ~TopDone, frames' = Advanced, nodes' = nodes
    PROVE  \E last, done, i, rs :
              /\ last \in Nat /\ last = Len(frames) /\ DOMAIN frames = 1 .. last /\ last \in DOMAIN frames
              /\ DOMAIN frames' = 1 .. last /\ Len(frames') = last
              /\ \A k \in DOMAIN frames : frames'[k].node = frames[k].node
              /\ \A k \in DOMAIN frames : k # last => frames'[k].done = frames[k].done
              /\ frames[last].done = done /\ frames'[last].done = done \cup {i}
              /\ Step[1] = frames[last].node /\ Step[2] = i
              /\ TopPath = nodes[frames[last].node].path
              /\ rs = nodes[frames[last].node].doc.resources
              /\ i \notin done /\ Deps(rs, i) \subseteq done
<1>1. Len(frames) \in Nat /\ DOMAIN frames = 1 .. Len(frames) /\ Len(frames) \in DOMAIN frames
  BY TopFacts, LenProperties DEF Shape, TypeOK
<1>2. /\ DOMAIN frames' = DOMAIN frames /\ Len(frames') = Len(frames)
      /\ \A k \in DOMAIN frames : frames'[k].node = frames[k].node
      /\ \A k \in DOMAIN frames : k # Len(frames) => frames'[k].done = frames[k].done
      /\ frames'[Len(frames)].done = Top.done \cup {Here}
  BY <1>1, AdvancedFacts
<1>3. Here \notin Top.done /\ Deps(TopDoc.resources, Here) \subseteq Top.done
  BY HereFacts
<1>4. Step[1] = Top.node /\ Step[2] = Here /\ TopPath = nodes[Top.node].path
  BY DEF Step, TopPath
<1>. DEFINE Past(last, done, i, rs) ==
              /\ last \in Nat /\ last = Len(frames) /\ DOMAIN frames = 1 .. last /\ last \in DOMAIN frames
              /\ DOMAIN frames' = 1 .. last /\ Len(frames') = last
              /\ \A k \in DOMAIN frames : frames'[k].node = frames[k].node
              /\ \A k \in DOMAIN frames : k # last => frames'[k].done = frames[k].done
              /\ frames[last].done = done /\ frames'[last].done = done \cup {i}
              /\ Step[1] = frames[last].node /\ Step[2] = i
              /\ TopPath = nodes[frames[last].node].path
              /\ rs = nodes[frames[last].node].doc.resources
              /\ i \notin done /\ Deps(rs, i) \subseteq done
<1>5. Past(Len(frames), Top.done, Here, TopDoc.resources)
  BY <1>1, <1>2, <1>3, <1>4 DEF Top, TopDoc
<1>6. \E last, done, i, rs : Past(last, done, i, rs)
  <2>. HIDE DEF Past
  <2>. QED
    BY <1>1, <1>5
<1>. QED
  BY <1>6

(* A loop that goes on keeps the frames in order, and its step is Latest.   *)
LEMMA OrderedAdvance ==
    ASSUME Shape, Ordered, frames # <<>>, ~TopDone, frames' = Advanced, nodes' = nodes
    PROVE  /\ Separate' /\ Closed' /\ Stacked'
           /\ \A step : Begun(frames, step) => Begun(frames', step)
           /\ Along(nodes', frames', Append(TopPath, Step), Len(frames'))
<1>1. PICK last, done, i, rs :
              /\ last \in Nat /\ last = Len(frames) /\ DOMAIN frames = 1 .. last /\ last \in DOMAIN frames
              /\ DOMAIN frames' = 1 .. last /\ Len(frames') = last
              /\ \A k \in DOMAIN frames : frames'[k].node = frames[k].node
              /\ \A k \in DOMAIN frames : k # last => frames'[k].done = frames[k].done
              /\ frames[last].done = done /\ frames'[last].done = done \cup {i}
              /\ Step[1] = frames[last].node /\ Step[2] = i
              /\ TopPath = nodes[frames[last].node].path
              /\ rs = nodes[frames[last].node].doc.resources
              /\ i \notin done /\ Deps(rs, i) \subseteq done
  BY LastAdvances
<1>2. Step \in Nat \X Nat /\ TopPath \in Seq(Nat \X Nat)
  BY StepFacts
<1>3. \A j \in done : Deps(rs, j) \subseteq done
  BY <1>1 DEF Ordered, Closed
<1>4. Separate'
  BY <1>1 DEF Ordered, Separate
<1>5. Closed'
  <2>1. ASSUME NEW k \in DOMAIN frames, NEW j \in frames'[k].done
        PROVE  Deps(nodes[frames[k].node].doc.resources, j) \subseteq frames'[k].done
    <3>1. CASE k # last
      BY <1>1, <2>1, <3>1 DEF Ordered, Closed
    <3>2. CASE k = last
      <4>1. Deps(rs, j) \subseteq done
        BY <1>1, <1>3, <2>1, <3>2
      <4>. QED
        BY <1>1, <3>2, <4>1
    <3>. QED
      BY <3>1, <3>2
  <2>. QED
    BY <1>1, <2>1 DEF Closed
<1>6. ASSUME NEW k \in DOMAIN frames, k # last, NEW step, Latest(nodes, frames, step, k)
      PROVE  Latest(nodes', frames', step, k)
  <2>1. frames'[k].done = frames[k].done /\ frames'[k].node = frames[k].node
    BY <1>1, <1>6
  <2>. QED
    BY <1>6, <2>1 DEF Latest
<1>7. ASSUME NEW k \in DOMAIN frames
      PROVE  /\ DOMAIN nodes[frames[k].node].path = 1 .. (k - 1)
             /\ \A b \in 1 .. (k - 1) :
                   /\ b \in DOMAIN frames /\ b # last
                   /\ Latest(nodes', frames', nodes[frames[k].node].path[b], b)
  <2>1. /\ DOMAIN nodes[frames[k].node].path = 1 .. (k - 1)
        /\ \A b \in 1 .. (k - 1) : Latest(nodes, frames, nodes[frames[k].node].path[b], b)
    BY DEF Ordered, Stacked, Along
  <2>2. \A b \in 1 .. (k - 1) : b \in DOMAIN frames /\ b # last
    BY <1>1
  <2>. QED
    BY <1>6, <2>1, <2>2
<1>8. Stacked'
  <2>1. \A k \in DOMAIN frames : Along(nodes', frames', nodes[frames[k].node].path, k - 1)
    BY <1>7 DEF Along
  <2>. QED
    BY <1>1, <2>1 DEF Stacked
<1>9. \A step : Begun(frames, step) => Begun(frames', step)
  <2>. SUFFICES ASSUME NEW step, Begun(frames, step),
                       NEW k \in DOMAIN frames, frames[k].node = step[1]
                PROVE  step[2] \in frames'[k].done
    BY <1>1 DEF Begun
  <2>1. step[2] \in frames[k].done
    BY DEF Begun
  <2>. QED
    BY <1>1, <2>1
<1>10. Latest(nodes', frames', Step, last)
  <2>1. Step[1] = frames'[last].node /\ Step[2] \in frames'[last].done
    BY <1>1
  <2>2. ASSUME NEW j \in frames'[last].done PROVE Step[2] \notin Deps(rs, j)
    <3>1. j = i \/ j \in done
      BY <1>1, <2>2
    <3>2. Deps(rs, j) \subseteq done
      BY <1>1, <1>3, <3>1
    <3>. QED
      BY <1>1, <3>2
  <2>3. nodes'[Step[1]].doc.resources = rs
    BY <1>1
  <2>. QED
    BY <2>1, <2>2, <2>3 DEF Latest
<1>. DEFINE way == Append(TopPath, Step)
<1>11. /\ DOMAIN way = 1 .. last
       /\ \A b \in 1 .. (last - 1) : way[b] = TopPath[b]
       /\ way[last] = Step
  <2>1. DOMAIN TopPath = 1 .. (last - 1)
    BY <1>1, <1>7
  <2>2. Len(TopPath) \in Nat /\ DOMAIN TopPath = 1 .. Len(TopPath)
    BY <1>2, LenProperties
  <2>3. last \in Nat \ {0}
    BY <1>1
  <2>4. Len(TopPath) = last - 1
    BY <2>1, <2>2, <2>3
  <2>. QED
    BY <1>2, <2>1, <2>3, <2>4, LongerPath
<1>12. ASSUME NEW b \in 1 .. last PROVE Latest(nodes', frames', way[b], b)
  <2>1. CASE b = last
    BY <1>10, <1>11, <2>1
  <2>2. CASE b # last
    <3>1. b \in 1 .. (last - 1)
      BY <1>1, <2>2
    <3>2. Latest(nodes', frames', TopPath[b], b)
      <4>1. last \in DOMAIN frames /\ TopPath = nodes[frames[last].node].path
        BY <1>1
      <4>. HIDE DEF way
      <4>. QED
        BY <1>7, <3>1, <4>1
    <3>. QED
      BY <1>11, <3>1, <3>2
  <2>. QED
    BY <2>1, <2>2
<1>13. Along(nodes', frames', way, Len(frames'))
  BY <1>1, <1>11, <1>12 DEF Along
<1>. QED
  BY <1>4, <1>5, <1>8, <1>9, <1>13

LEMMA OrderedIngest == Shape /\ Ordered /\ Ingest => Ordered'
<1>. SUFFICES ASSUME Shape, Ordered, Ingest PROVE Ordered'
  OBVIOUS
<1>1. pending # None /\ pending' = None /\ UNCHANGED plan
  BY DEF Ingest
<1>2. /\ Len(nodes) \in Nat /\ DOMAIN nodes = 1 .. Len(nodes)
      /\ DOMAIN nodes' = 1 .. (Len(nodes) + 1)
      /\ \A n \in DOMAIN nodes : nodes'[n] = nodes[n]
      /\ Len(frames) \in Nat /\ DOMAIN frames = 1 .. Len(frames)
      /\ DOMAIN frames' = 1 .. (Len(frames) + 1)
      /\ \A k \in DOMAIN frames : frames'[k] = frames[k]
  BY IngestFacts
<1>3. nodes'[Len(nodes) + 1].path = pending.path
  BY IngestFacts DEF NewNode
<1>4. frames'[Len(frames) + 1].node = Len(nodes) + 1 /\ frames'[Len(frames) + 1].done = {}
  <2>1. frames'[Len(frames) + 1] =
           [name |-> pending.name, node |-> Len(nodes) + 1,
            anchor |-> pending.anchor, done |-> {}]
    BY IngestFacts
  <2>. QED
    BY <2>1
<1>5. \A k \in DOMAIN frames : frames[k].node \in DOMAIN nodes
  BY DEF Shape, FramesOK
<1>6. /\ DOMAIN frames' = DOMAIN frames \cup {Len(frames) + 1}
      /\ Len(frames) + 1 \notin DOMAIN frames /\ Len(nodes) + 1 \notin DOMAIN nodes
      /\ DOMAIN nodes \subseteq DOMAIN nodes'
  BY <1>2
<1>7. Separate'
  <2>1. \A k \in DOMAIN frames : frames'[k].node # frames'[Len(frames) + 1].node
    BY <1>2, <1>4, <1>5, <1>6
  <2>. QED
    BY <1>2, <1>6, <2>1 DEF Ordered, Separate
<1>8. Closed'
  BY <1>2, <1>4, <1>5, <1>6 DEF Ordered, Closed
<1>9. ASSUME NEW path, NEW top \in 0 .. Len(frames), Along(nodes, frames, path, top)
      PROVE  Along(nodes', frames', path, top)
  <2>1. ASSUME NEW b \in 1 .. top PROVE Latest(nodes', frames', path[b], b)
    <3>1. b \in DOMAIN frames /\ Latest(nodes, frames, path[b], b)
      BY <1>2, <1>9, <2>1 DEF Along
    <3>2. frames'[b] = frames[b] /\ nodes'[path[b][1]] = nodes[path[b][1]]
      BY <1>2, <1>5, <3>1 DEF Latest
    <3>. QED
      BY <3>1, <3>2 DEF Latest
  <2>. QED
    BY <1>9, <2>1 DEF Along
<1>10. Stacked'
  <2>1. ASSUME NEW k \in DOMAIN frames
        PROVE  Along(nodes', frames', nodes'[frames'[k].node].path, k - 1)
    <3>1. k - 1 \in 0 .. Len(frames) /\ Along(nodes, frames, nodes[frames[k].node].path, k - 1)
      BY <1>2 DEF Ordered, Stacked
    <3>2. frames'[k] = frames[k] /\ nodes'[frames[k].node] = nodes[frames[k].node]
      BY <1>2, <1>5
    <3>. QED
      BY <1>9, <3>1, <3>2
  <2>2. Along(nodes', frames', nodes'[frames'[Len(frames) + 1].node].path, Len(frames))
    <3>1. Along(nodes, frames, pending.path, Len(frames))
      BY <1>1 DEF Ordered, Called
    <3>2. Len(frames) \in 0 .. Len(frames)
      BY <1>2
    <3>. QED
      BY <1>3, <1>4, <1>9, <3>1, <3>2
  <2>3. (Len(frames) + 1) - 1 = Len(frames)
    BY <1>2
  <2>. QED
    BY <1>6, <2>1, <2>2, <2>3 DEF Stacked
<1>11. PlanBegun'
  <2>1. ASSUME NEW step, Declared(nodes, step), Begun(frames, step)
        PROVE  Declared(nodes', step) /\ Begun(frames', step)
    <3>1. step[1] \in DOMAIN nodes /\ nodes'[step[1]] = nodes[step[1]]
      BY <1>2, <2>1 DEF Declared
    <3>2. Declared(nodes', step)
      BY <1>6, <2>1, <3>1 DEF Declared
    <3>3. Begun(frames', step)
      BY <1>2, <1>4, <1>6, <2>1, <3>1 DEF Begun
    <3>. QED
      BY <3>2, <3>3
  <2>. QED
    BY <1>1, <2>1 DEF Ordered, PlanBegun
<1>12. LaunchOrder'
  <2>1. ASSUME NEW p \in DOMAIN plan, NEW a \in DOMAIN plan[p].path
        PROVE  nodes'[plan[p].path[a][1]] = nodes[plan[p].path[a][1]]
    <3>1. plan[p].path[a][1] \in DOMAIN nodes
      BY DEF Ordered, PlanBegun, Declared
    <3>. QED
      BY <1>2, <3>1
  <2>. QED
    BY <1>1, <2>1 DEF Ordered, LaunchOrder
<1>. QED
  BY <1>1, <1>7, <1>8, <1>10, <1>11, <1>12 DEF Ordered, Called

LEMMA OrderedPlan == Shape /\ Ordered /\ PlanResource => Ordered'
<1>. SUFFICES ASSUME Shape, Ordered, PlanResource PROVE Ordered'
  OBVIOUS
<1>. DEFINE way == Append(TopPath, Step)
            new == Len(plan) + 1
<1>1. /\ frames # <<>> /\ ~TopDone /\ frames' = Advanced
      /\ UNCHANGED <<nodes, pending>> /\ pending = None
  BY PlanResourceFacts DEF PlanResource, AtResource, Splicing
<1>2. /\ Len(plan) \in Nat /\ DOMAIN plan = 1 .. Len(plan) /\ DOMAIN plan' = DOMAIN plan \cup {new}
      /\ \A p \in DOMAIN plan : plan'[p] = plan[p]
      /\ plan'[new] = Entry
  BY PlanResourceFacts
<1>3. plan'[new].path = way
  <2>1. Entry.path = way
    BY DEF Entry, TopPath, Step
  <2>. HIDE DEF new, way
  <2>. QED
    BY <1>2, <2>1
<1>4. /\ Separate' /\ Closed' /\ Stacked'
      /\ \A step : Begun(frames, step) => Begun(frames', step)
      /\ Along(nodes', frames', way, Len(frames'))
  BY <1>1, OrderedAdvance
<1>5. Len(frames') \in Nat /\ DOMAIN frames' = 1 .. Len(frames')
  BY <1>1, AdvancedFacts, LenProperties
<1>6. Declared(nodes, Step)
  BY <1>1, StepFacts
<1>7. \A k \in DOMAIN frames' : frames'[k].node \in DOMAIN nodes
  BY <1>1, AdvancedFacts DEF Shape, FramesOK
<1>8. Shape'
  BY ShapeNext DEF Next
<1>9. ASSUME NEW b \in DOMAIN way
      PROVE  /\ b \in DOMAIN frames' /\ Latest(nodes', frames', way[b], b)
             /\ Begun(frames', way[b]) /\ Declared(nodes', way[b])
  <2>1. b \in DOMAIN frames' /\ Latest(nodes', frames', way[b], b)
    BY <1>4, <1>5, <1>9 DEF Along
  <2>2. Begun(frames', way[b])
    BY <1>4, <2>1 DEF Separate, Latest, Begun
  <2>3. frames'[b].node \in DOMAIN nodes' /\ frames'[b].done \subseteq DOMAIN nodes'[frames'[b].node].doc.resources
    BY <1>8, <2>1 DEF Shape, FramesOK
  <2>4. Declared(nodes', way[b])
    BY <2>1, <2>3 DEF Latest, Declared
  <2>. QED
    BY <2>1, <2>2, <2>4
<1>10. PlanBegun'
  <2>1. ASSUME NEW p \in DOMAIN plan, NEW a \in DOMAIN plan[p].path
        PROVE  Declared(nodes', plan[p].path[a]) /\ Begun(frames', plan[p].path[a])
    BY <1>1, <1>4, <2>1 DEF Ordered, PlanBegun
  <2>. QED
    BY <1>2, <1>3, <1>9, <2>1 DEF PlanBegun
<1>11. ASSUME NEW p \in DOMAIN plan', NEW q \in DOMAIN plan',
              NEW a \in DOMAIN plan'[p].path, NEW b \in DOMAIN plan'[q].path,
              plan'[p].path[a][1] = plan'[q].path[b][1],
              plan'[q].path[b][2]
                 \in Deps(nodes'[plan'[p].path[a][1]].doc.resources, plan'[p].path[a][2])
       PROVE  q < p
  <2>1. CASE q = new
    <3>1. b \in DOMAIN way /\ plan'[q].path[b] = way[b]
      BY <1>3, <2>1
    <3>2. b \in DOMAIN frames' /\ Latest(nodes', frames', way[b], b)
      BY <1>9, <3>1
    <3>3. Begun(frames', plan'[p].path[a])
      BY <1>10 DEF PlanBegun
    <3>4. plan'[p].path[a][2] \in frames'[b].done
      BY <1>11, <3>1, <3>2, <3>3 DEF Begun, Latest
    <3>. QED
      BY <1>11, <3>1, <3>2, <3>4 DEF Latest
  <2>2. CASE q # new /\ p = new
    BY <1>2, <2>2
  <2>3. CASE q # new /\ p # new
    BY <1>1, <1>2, <1>11, <2>3 DEF Ordered, LaunchOrder
  <2>. QED
    BY <2>1, <2>2, <2>3
<1>12. LaunchOrder'
  BY <1>11 DEF LaunchOrder
<1>. QED
  BY <1>1, <1>4, <1>10, <1>12 DEF Ordered, Called

LEMMA OrderedNext == Shape /\ Ordered /\ [Next]_vars => Ordered'
<1>. SUFFICES ASSUME Shape, Ordered, [Next]_vars PROVE Ordered'
  OBVIOUS
<1>1. CASE Ingest
  BY <1>1, OrderedIngest
<1>2. CASE Nest
  <2>1. /\ frames # <<>> /\ ~TopDone /\ frames' = Advanced /\ UNCHANGED <<nodes, plan>>
        /\ pending'.path = Append(TopPath, Step)
    <3>1. frames # <<>> /\ ~TopDone
      BY <1>2, NestFacts
    <3>2. frames' = Advanced /\ UNCHANGED <<nodes, plan>>
      BY <1>2 DEF Nest
    <3>3. pending'.path = Append(TopPath, Step)
      BY <1>2 DEF Nest, TopPath, Step
    <3>. QED
      BY <3>1, <3>2, <3>3
  <2>2. /\ Separate' /\ Closed' /\ Stacked'
        /\ \A step : Begun(frames, step) => Begun(frames', step)
        /\ Along(nodes', frames', Append(TopPath, Step), Len(frames'))
    BY <2>1, OrderedAdvance
  <2>3. Called'
    BY <2>1, <2>2 DEF Called
  <2>4. PlanBegun'
    BY <2>1, <2>2 DEF Ordered, PlanBegun
  <2>5. LaunchOrder'
    BY <2>1 DEF Ordered, LaunchOrder
  <2>. QED
    BY <2>2, <2>3, <2>4, <2>5 DEF Ordered
<1>3. CASE PlanResource
  BY <1>3, OrderedPlan
<1>4. CASE SkipVisited \/ SkipDuplicate
  <2>1. /\ frames # <<>> /\ ~TopDone /\ frames' = Advanced
        /\ UNCHANGED <<nodes, plan, pending>> /\ pending = None
    BY <1>4 DEF SkipVisited, SkipDuplicate, AtNested, AtResource, Splicing
  <2>2. /\ Separate' /\ Closed' /\ Stacked'
        /\ \A step : Begun(frames, step) => Begun(frames', step)
    BY <2>1, OrderedAdvance
  <2>3. Called'
    BY <2>1 DEF Called
  <2>4. PlanBegun'
    BY <2>1, <2>2 DEF Ordered, PlanBegun
  <2>5. LaunchOrder'
    BY <2>1 DEF Ordered, LaunchOrder
  <2>. QED
    BY <2>2, <2>3, <2>4, <2>5 DEF Ordered
<1>5. CASE Return
  <2>1. UNCHANGED <<nodes, plan, pending>> /\ pending = None
    BY <1>5 DEF Return, Splicing
  <2>2. /\ Len(frames) \in Nat /\ DOMAIN frames' = 1 .. (Len(frames) - 1)
        /\ DOMAIN frames = 1 .. Len(frames)
        /\ \A k \in DOMAIN frames' : k \in DOMAIN frames /\ frames'[k] = frames[k]
    BY <1>5, ReturnFacts, LenProperties DEF Shape, TypeOK
  <2>3. Separate'
    BY <2>2 DEF Ordered, Separate
  <2>4. Closed'
    BY <2>1, <2>2 DEF Ordered, Closed
  <2>5. Stacked'
    <3>1. ASSUME NEW k \in DOMAIN frames'
          PROVE  Along(nodes', frames', nodes'[frames'[k].node].path, k - 1)
      <4>1. Along(nodes, frames, nodes[frames[k].node].path, k - 1)
        BY <2>2, <3>1 DEF Ordered, Stacked
      <4>2. \A b \in 1 .. (k - 1) : frames'[b] = frames[b]
        BY <2>2, <3>1
      <4>3. frames'[k] = frames[k] /\ nodes' = nodes
        BY <2>1, <2>2
      <4>. QED
        BY <4>1, <4>2, <4>3 DEF Along, Latest
    <3>. QED
      BY <3>1 DEF Stacked
  <2>6. PlanBegun'
    BY <2>1, <2>2 DEF Ordered, PlanBegun, Begun
  <2>7. LaunchOrder'
    BY <2>1 DEF Ordered, LaunchOrder
  <2>. QED
    BY <2>1, <2>3, <2>4, <2>5, <2>6, <2>7 DEF Ordered, Called
<1>6. CASE Finish
  <2>1. /\ UNCHANGED <<nodes, plan, pending>> /\ pending = None
        /\ DOMAIN frames' = {}
    BY <1>6, EmptySeq DEF Finish, AtEnd, Splicing
  <2>2. Separate' /\ Closed' /\ Stacked' /\ Called'
    BY <2>1 DEF Separate, Closed, Stacked, Called
  <2>3. PlanBegun'
    BY <2>1 DEF Ordered, PlanBegun, Begun
  <2>4. LaunchOrder'
    BY <2>1 DEF Ordered, LaunchOrder
  <2>. QED
    BY <2>2, <2>3, <2>4 DEF Ordered
<1>7. CASE UNCHANGED <<nodes, plan, pending, frames>>
  BY <1>7 DEF Ordered, Separate, Closed, Stacked, Called, PlanBegun, LaunchOrder
<1>. QED
  BY <1>1, <1>2, <1>3, <1>4, <1>5, <1>6, <1>7
     DEF Next, vars, Fail, IngestFails, NestFails, ResourceLimit, FinishFails

(* graph.rs:5-6 lifted to the spliced plan: a dependency, with all that is  *)
(* nested in it, comes before what depends on it, in a tree of any shape.   *)
THEOREM PlanRespectsDependencies == Spec => []LaunchOrder
<1>1. Init => Shape /\ Ordered
  <2>. SUFFICES ASSUME Init PROVE Shape /\ Ordered
    OBVIOUS
  <2>1. DOMAIN frames = {} /\ DOMAIN plan = {} /\ Len(frames) = 0 /\ pending.path = <<>>
    BY EmptySeq DEF Init
  <2>2. Separate /\ Closed /\ Stacked /\ PlanBegun /\ LaunchOrder
    BY <2>1 DEF Separate, Closed, Stacked, PlanBegun, LaunchOrder
  <2>3. Called
    BY <2>1, EmptySeq DEF Called, Along
  <2>. QED
    BY <2>2, <2>3, ShapeInit DEF Ordered
<1>2. Shape /\ Ordered /\ [Next]_vars => (Shape /\ Ordered)'
  BY ShapeNext, OrderedNext
<1>3. Ordered => LaunchOrder
  BY DEF Ordered
<1>. QED
  BY <1>1, <1>2, <1>3, PTL DEF Spec
=============================================================================
