------------------------------ MODULE Resolver ------------------------------
(***************************************************************************)
(* `Resolver::resolve` and `Resolver::resolve_file` (murl-core,             *)
(* resolver.rs): from a name, or a file, to the flat plan of resources the  *)
(* user is asked about.                                                    *)
(*                                                                         *)
(* Resolution is one recursive function. Its call stack is `frames`: one    *)
(* frame per manifest being spliced, the root's first. `pending` is a call  *)
(* of `ingest_named` (or, for a file, `ingest_bytes`) that has been made    *)
(* and has not parsed its manifest yet. Each action is one pass of the      *)
(* splicing loop's body, up to the next nested call, return or error.       *)
(*                                                                         *)
(* Names (`murl://<authority>/<path>@<version>`) are records; documents     *)
(* are records of the facts the resolver asks of a manifest.                *)
(***************************************************************************)
EXTENDS Manifest

CONSTANTS
    None,           \* no value (Rust's Option::None)
    Names,          \* canonical identities
    ResourceIds,    \* ids of resources
    Kinds,          \* kinds of resources that can be launched; "murl" is not one
    Targets,        \* what such a resource opens
    Marks,          \* <<"role", r>> and <<"tag", t>> a resource may carry
    Hashes,         \* digests of manifest bytes
    Keys,           \* signing keys
    TrustedKeys,    \* the trust store: <<authority, key>> pairs
    Worlds,         \* what the stores, the cache and the network may hold
    Requests,       \* what the user may ask for
    MaxDepth,       \* Limits::max_depth
    MaxResources,   \* Limits::max_total_resources
    MaxManifests    \* Limits::max_nested_manifests

(* A resource opens a target or, of kind "murl", nests a name.              *)
Resource ==
    [id : ResourceIds, kind : Kinds, target : Targets, order : Nat,
     dependsOn : SUBSET ResourceIds, pin : Hashes \cup {None}, marks : SUBSET Marks]
    \cup
    [id : ResourceIds, kind : {"murl"}, target : Names, order : Nat,
     dependsOn : SUBSET ResourceIds, pin : Hashes \cup {None}, marks : SUBSET Marks]

(* `wellFormed` stands for everything parsing and validation ask of a       *)
(* document beyond its resources' ids and dependencies; `forged` for a      *)
(* signature that does not verify; `window` for notBefore and expires       *)
(* against the one reading of the clock.                                   *)
Document ==
    [wellFormed : BOOLEAN, declares : Names \cup {None}, signer : Keys \cup {None},
     forged : BOOLEAN, window : {"valid", "expired", "premature"}, hash : Hashes,
     resources : Seq(Resource)]

SelectorItems == {<<"id", x>> : x \in ResourceIds} \cup Marks

(* A request names a manifest, or hands over a file's; no selector is {}.   *)
Request ==
    [name : Names \cup {None}, file : Document \cup {None},
     selector : SUBSET SelectorItems]

(* A nested call being made, as in splice_nested.                           *)
Call ==
    [name : Names \cup {None}, anchor : ResourceIds \cup {None},
     pin : Hashes \cup {None}, path : Seq(Nat \X Nat)]

ASSUME NoneAssumption ==
    /\ None \notin Names /\ None \notin ResourceIds /\ None \notin Hashes
    /\ None \notin Keys /\ None \notin Document /\ None \notin Call
ASSUME KindsAssumption == "murl" \notin Kinds
ASSUME WorldsAssumption == \A w \in Worlds : w \in [Names -> Document \cup {None}]
ASSUME RequestsAssumption ==
    \A r \in Requests :
        /\ r \in Request
        /\ (r.name = None) # (r.file = None)
        /\ r.file # None => r.selector = {}
ASSUME LimitsAssumption ==
    MaxDepth \in Nat /\ MaxResources \in Nat /\ MaxManifests \in Nat

VARIABLES
    world,       \* what `locate` finds under each name, None for nothing
    request,     \* the argument of resolve or resolve_file
    pending,     \* the nested call being made, None for none
    frames,      \* the recursion: manifests whose resources are being spliced
    nodes,       \* State::nodes
    plan,        \* State::resources
    dedup,       \* State::dedup
    visited,     \* State::visited
    manifests,   \* State::manifests
    kept,        \* positions of plan that survive the selector (`retain`)
    outcome      \* "resolving", "resolved", or the error returned

vars == <<world, request, pending, frames, nodes, plan, dedup, visited,
          manifests, kept, outcome>>

-----------------------------------------------------------------------------
(* Names and origins.                                                      *)

(* Locality::of: this device, loopback, network.                            *)
LocalityOf(name) ==
    IF name.authority = "local" THEN 0
    ELSE IF name.authority = "localhost" THEN 1
    ELSE 2

OriginOf(name) ==
    IF name = None THEN "file"
    ELSE IF name.authority = "local" THEN "store"
    ELSE "remote"

(* Locality::of_source.                                                     *)
SourceLocality(name) == IF OriginOf(name) = "remote" THEN LocalityOf(name) ELSE 0

(* Identity binding (spec 6.4): the document declares another name.         *)
Relabelled(doc, name) ==
    /\ name # None
    /\ doc.declares # None
    /\ \/ doc.declares.authority # name.authority
       \/ doc.declares.path # name.path
       \/ /\ doc.declares.version # "latest"
          /\ name.version # "latest"
          /\ doc.declares.version # name.version

TrustOf(doc, name) ==
    IF OriginOf(name) # "remote" THEN "Local"
    ELSE IF doc.signer = None THEN "UnsignedRemote"
    ELSE IF <<name.authority, doc.signer>> \in TrustedKeys THEN "SignedTrusted"
    ELSE "SignedUnknownKey"

-----------------------------------------------------------------------------
(* The state of the recursion.                                             *)

Top == frames[Len(frames)]
TopDoc == nodes[Top.node].doc
TopDone == Top.done = DOMAIN TopDoc.resources

(* The next resource of the innermost manifest, by its launch order.        *)
Here == Pick(TopDoc.resources, Top.done)
Item == TopDoc.resources[Here]

Depth(node) == Len(nodes[node].path)

(* State::stack, the identities on the current path; a file has none.       *)
Stack == {frames[k].name : k \in DOMAIN frames} \ {None}

(* `this_anchor`: the root resource whose splice we are in, or this one.    *)
AnchorOf(frame, id) == IF frame.anchor = None THEN id ELSE frame.anchor

(* Mutant of Advanced: a `continue` that does not advance the loop.         *)
MutAdvancedStays == frames

(* Here has been dealt with; the frame goes on with the next resource.      *)
Advanced == [frames EXCEPT ![Len(frames)].done = @ \cup {Here}]

Fail(error) ==
    /\ outcome' = error
    /\ UNCHANGED <<world, request, pending, frames, nodes, plan, dedup, visited,
                   manifests, kept>>

Splicing == outcome = "resolving" /\ pending = None /\ frames # <<>>

-----------------------------------------------------------------------------
(* ingest_named, locate and the first half of ingest_bytes.                *)

Located == IF pending.name = None THEN request.file ELSE world[pending.name]
Counted == IF pending.name = None THEN manifests ELSE manifests + 1

(* Mutant of IngestError: the pin is not tested.                           *)
MutIngestErrorNoPin ==
    IF Counted > MaxManifests /\ pending.name # None THEN "LimitExceeded"
    ELSE IF Located = None THEN "NotFound"
    ELSE IF ~Located.wellFormed \/ ~ValidResources(Located.resources) THEN "Validation"
    ELSE IF Located.signer # None /\ Located.forged THEN "Signature"
    ELSE IF Relabelled(Located, pending.name) THEN "Resolution"
    ELSE "ok"

IngestError ==
    IF Counted > MaxManifests /\ pending.name # None THEN "LimitExceeded"
    ELSE IF Located = None THEN "NotFound"
    ELSE IF pending.pin \notin {None, Located.hash} THEN "Integrity"
    ELSE IF ~Located.wellFormed \/ ~ValidResources(Located.resources) THEN "Validation"
    ELSE IF Located.signer # None /\ Located.forged THEN "Signature"
    ELSE IF Relabelled(Located, pending.name) THEN "Resolution"
    ELSE "ok"

NewNode ==
    [name |-> pending.name, origin |-> OriginOf(pending.name), doc |-> Located,
     trust |-> TrustOf(Located, pending.name), path |-> pending.path]

Ingest ==
    /\ outcome = "resolving"
    /\ pending # None
    /\ IngestError = "ok"
    /\ manifests' = Counted
    /\ nodes' = Append(nodes, NewNode)
    /\ frames' = Append(frames,
          [name |-> pending.name, node |-> Len(nodes) + 1,
           anchor |-> pending.anchor, done |-> {}])
    /\ pending' = None
    /\ UNCHANGED <<world, request, plan, dedup, visited, kept, outcome>>

IngestFails ==
    /\ outcome = "resolving"
    /\ pending # None
    /\ IngestError # "ok"
    /\ Fail(IngestError)

-----------------------------------------------------------------------------
(* The splicing loop: nested names.                                        *)

AtNested == Splicing /\ ~TopDone /\ Item.kind = "murl"

(* Mutant of NestError: the source's locality is not looked at.             *)
MutNestErrorAnyLocality ==
    IF Depth(Top.node) + 1 > MaxDepth THEN "LimitExceeded"
    ELSE IF Item.target \in Stack THEN "Cycle"
    ELSE "ok"

(* Mutant of NestError: the depth limit is off by one.                      *)
MutNestErrorDepth ==
    IF LocalityOf(Item.target) < SourceLocality(Top.name) THEN "Resolution"
    ELSE IF Depth(Top.node) > MaxDepth THEN "LimitExceeded"
    ELSE IF Item.target \in Stack THEN "Cycle"
    ELSE "ok"

NestError ==
    IF LocalityOf(Item.target) < SourceLocality(Top.name) THEN "Resolution"
    ELSE IF Depth(Top.node) + 1 > MaxDepth THEN "LimitExceeded"
    ELSE IF Item.target \in Stack THEN "Cycle"
    ELSE "ok"

NestFails ==
    /\ AtNested
    /\ NestError # "ok"
    /\ Fail(NestError)

(* A name resolved elsewhere in the tree is skipped, with a warning.        *)
SkipVisited ==
    /\ AtNested
    /\ NestError = "ok"
    /\ Item.target \in visited
    /\ frames' = Advanced
    /\ UNCHANGED <<world, request, pending, nodes, plan, dedup, visited,
                   manifests, kept, outcome>>

(* The recursive call. `path` is where it stands: the node and the resource *)
(* of every call on the way to it.                                         *)
Nest ==
    /\ AtNested
    /\ NestError = "ok"
    /\ Item.target \notin visited
    /\ pending' = [name |-> Item.target, anchor |-> AnchorOf(Top, Item.id),
                   pin |-> Item.pin,
                   path |-> Append(nodes[Top.node].path, <<Top.node, Here>>)]
    /\ frames' = Advanced
    /\ UNCHANGED <<world, request, nodes, plan, dedup, visited, manifests, kept,
                   outcome>>

(* Mutant of Return: the name is not remembered as resolved.                *)
MutReturnForgets ==
    /\ Splicing
    /\ TopDone
    /\ Len(frames) > 1
    /\ frames' = SubSeq(frames, 1, Len(frames) - 1)
    /\ UNCHANGED <<world, request, pending, nodes, plan, dedup, visited,
                   manifests, kept, outcome>>

(* The recursive call returns to the manifest that nests it.                *)
Return ==
    /\ Splicing
    /\ TopDone
    /\ Len(frames) > 1
    /\ frames' = SubSeq(frames, 1, Len(frames) - 1)
    /\ visited' = visited \cup {Top.name}
    /\ UNCHANGED <<world, request, pending, nodes, plan, dedup, manifests, kept,
                   outcome>>

-----------------------------------------------------------------------------
(* The splicing loop: resources that can be launched.                      *)

AtResource == Splicing /\ ~TopDone /\ Item.kind # "murl"

(* Mutant of DedupKey: the kind is not part of it.                          *)
MutDedupKeyTargetOnly(r) == <<CHOOSE kind \in Kinds : TRUE, r.target>>

DedupKey(r) == <<r.kind, r.target>>

(* The limit is tested before the duplicate is.                             *)
ResourceLimit ==
    /\ AtResource
    /\ Len(plan) + 1 > MaxResources
    /\ Fail("LimitExceeded")

SkipDuplicate ==
    /\ AtResource
    /\ Len(plan) + 1 <= MaxResources
    /\ DedupKey(Item) \in dedup
    /\ frames' = Advanced
    /\ UNCHANGED <<world, request, pending, nodes, plan, dedup, visited,
                   manifests, kept, outcome>>

(* Mutant of Entry: the node is the last one ingested, not the one whose    *)
(* loop this is.                                                           *)
MutEntryLastNode ==
    [resource |-> Item, node |-> Len(nodes), anchor |-> AnchorOf(Top, Item.id),
     path |-> Append(nodes[Top.node].path, <<Top.node, Here>>)]

Entry ==
    [resource |-> Item, node |-> Top.node, anchor |-> AnchorOf(Top, Item.id),
     path |-> Append(nodes[Top.node].path, <<Top.node, Here>>)]

PlanResource ==
    /\ AtResource
    /\ Len(plan) + 1 <= MaxResources
    /\ DedupKey(Item) \notin dedup
    /\ dedup' = dedup \cup {DedupKey(Item)}
    /\ plan' = Append(plan, Entry)
    /\ frames' = Advanced
    /\ UNCHANGED <<world, request, pending, nodes, visited, manifests, kept, outcome>>

-----------------------------------------------------------------------------
(* finish: the selector.                                                   *)

Claims(item, entry) ==
    item = <<"id", entry.anchor>> \/ item \in entry.resource.marks

(* An id item matches the root manifest's declarations; a role or tag item  *)
(* matches the flattened plan.                                             *)
Matches(item) ==
    IF item[1] = "id"
    THEN \E k \in DOMAIN nodes[1].doc.resources :
            nodes[1].doc.resources[k].id = item[2]
    ELSE \E p \in DOMAIN plan : item \in plan[p].resource.marks

AtEnd == Splicing /\ TopDone /\ Len(frames) = 1

FinishFails ==
    /\ AtEnd
    /\ \E item \in request.selector : ~Matches(item)
    /\ Fail("NotFound")

Finish ==
    /\ AtEnd
    /\ \A item \in request.selector : Matches(item)
    /\ kept' = {p \in DOMAIN plan :
                  \/ request.selector = {}
                  \/ \E item \in request.selector : Claims(item, plan[p])}
    /\ frames' = <<>>
    /\ outcome' = "resolved"
    /\ UNCHANGED <<world, request, pending, nodes, plan, dedup, visited, manifests>>

-----------------------------------------------------------------------------
Init ==
    /\ world \in Worlds
    /\ request \in Requests
    /\ pending = [name |-> request.name, anchor |-> None, pin |-> None, path |-> <<>>]
    /\ frames = <<>>
    /\ nodes = <<>>
    /\ plan = <<>>
    /\ dedup = {}
    /\ visited = {}
    /\ manifests = 0
    /\ kept = {}
    /\ outcome = "resolving"

Next ==
    \/ Ingest \/ IngestFails
    \/ Nest \/ NestFails \/ SkipVisited \/ Return
    \/ PlanResource \/ ResourceLimit \/ SkipDuplicate
    \/ Finish \/ FinishFails

Spec == Init /\ [][Next]_vars
FairSpec == Spec /\ WF_vars(Next)

-----------------------------------------------------------------------------
(* Properties.                                                             *)

Node ==
    [name : Names \cup {None}, origin : {"file", "store", "remote"}, doc : Document,
     trust : {"Local", "UnsignedRemote", "SignedTrusted", "SignedUnknownKey"},
     path : Seq(Nat \X Nat)]

Frame ==
    [name : Names \cup {None}, node : Nat, anchor : ResourceIds \cup {None},
     done : SUBSET Nat]

PlanEntry ==
    [resource : Resource, node : Nat, anchor : ResourceIds, path : Seq(Nat \X Nat)]

Outcomes ==
    {"resolving", "resolved", "LimitExceeded", "NotFound", "Integrity", "Validation",
     "Signature", "Resolution", "Cycle"}

(* The fields of State (resolver.rs:222-234) and of what it holds.          *)
TypeOK ==
    /\ world \in [Names -> Document \cup {None}]
    /\ request \in Request
    /\ pending \in Call \cup {None}
    /\ frames \in Seq(Frame)
    /\ nodes \in Seq(Node)
    /\ plan \in Seq(PlanEntry)
    /\ dedup \subseteq Kinds \X Targets
    /\ visited \subseteq Names \cup {None}
    /\ manifests \in Nat
    /\ kept \subseteq DOMAIN plan
    /\ outcome \in Outcomes

(* resolver.rs:338-344, 566 and 607: whatever the manifests say, and at any *)
(* moment, no nesting is deeper, no plan longer and no more manifests read  *)
(* than the limits allow; a file the user opened is not counted as one.     *)
WithinLimits ==
    /\ \A n \in DOMAIN nodes : Depth(n) <= MaxDepth
    /\ pending # None => Len(pending.path) <= MaxDepth
    /\ Len(plan) <= MaxResources
    /\ Len(nodes) <= MaxManifests + (IF request.name = None THEN 1 ELSE 0)

(* resolver.rs:574-585: between the path (cycles) and `visited` (shared     *)
(* names) no name is located twice, so one resolution sees one version of   *)
(* each manifest.                                                          *)
NoIdentityTwice ==
    /\ \A m, n \in DOMAIN nodes : nodes[m].name = nodes[n].name => m = n
    /\ pending # None => \A n \in DOMAIN nodes : nodes[n].name # pending.name

(* resolver.rs:613-620: no two entries of the plan open the same thing.     *)
NoDuplicatePlanned ==
    \A p, q \in DOMAIN plan :
        DedupKey(plan[p].resource) = DedupKey(plan[q].resource) => p = q

(* The nodes on the way from the root to a node or a call.                  *)
Ancestors(path) == {path[k][1] : k \in DOMAIN path}

(* Locality (resolver.rs:164-172): at no depth is a name looked up that is  *)
(* nearer to this machine than any manifest on the way to it, so nothing    *)
(* the network says makes the resolver look at the local store or at a      *)
(* loopback server, through however many hops.                             *)
LocalityNeverDecreases ==
    /\ \A n \in DOMAIN nodes : \A a \in Ancestors(nodes[n].path) :
          SourceLocality(nodes[a].name) <= SourceLocality(nodes[n].name)
    /\ pending # None =>
          \A a \in Ancestors(pending.path) :
              SourceLocality(nodes[a].name) <= SourceLocality(pending.name)

(* resolver.rs:527 takes the node's index before the loop and 545 the       *)
(* anchor from the caller: each entry names the manifest that declares it,  *)
(* on whose trust and window policy decides, and the root resource a        *)
(* selector reaches it by.                                                 *)
Provenance ==
    \A p \in DOMAIN plan :
        LET path == plan[p].path
            last == path[Len(path)]
        IN  /\ plan[p].node = last[1]
            /\ plan[p].resource = nodes[last[1]].doc.resources[last[2]]
            /\ path[1][1] = 1
            /\ plan[p].anchor = nodes[1].doc.resources[path[1][2]].id

(* graph.rs:5-6 lifted to the spliced plan: what a resource depends on in   *)
(* its manifest, a nested manifest included with all it brings in, comes    *)
(* before it and before all it brings in.                                  *)
LaunchOrder ==
    \A p, q \in DOMAIN plan :
        \A a \in DOMAIN plan[p].path, b \in DOMAIN plan[q].path :
            LET above == plan[p].path[a]
                below == plan[q].path[b]
            IN  /\ above[1] = below[1]
                /\ below[2] \in Deps(nodes[above[1]].doc.resources, above[2])
                => q < p

(* A pin (resolver.rs:347-349): the manifest spliced at a pinned resource   *)
(* has the pinned bytes.                                                   *)
SplicedBytesPinned ==
    \A n \in DOMAIN nodes : nodes[n].path # <<>> =>
        LET last == nodes[n].path[Len(nodes[n].path)]
        IN  nodes[last[1]].doc.resources[last[2]].pin \in {None, nodes[n].doc.hash}

(* The duplicates skipped (resolver.rs:580-585, 614-620) lose nothing: in a *)
(* resolution that succeeds every resource of every manifest read is in the *)
(* plan, itself or one that opens the same thing, and every nested name has *)
(* been spliced.                                                           *)
NothingSilentlyDropped ==
    outcome = "resolved" =>
        \A n \in DOMAIN nodes : \A k \in DOMAIN nodes[n].doc.resources :
            LET r == nodes[n].doc.resources[k]
            IN  IF r.kind = "murl"
                THEN \E m \in DOMAIN nodes : nodes[m].name = r.target
                ELSE \E p \in DOMAIN plan :
                        /\ plan[p].resource.kind = r.kind
                        /\ plan[p].resource.target = r.target

(* The recursion ends on every world, nested in circles or not.             *)
Terminates == <>(outcome # "resolving")
=============================================================================
