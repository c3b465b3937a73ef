------------------------------ MODULE NameStore ------------------------------
(***************************************************************************)
(* The local name store and the commands that share it: LocalStore in       *)
(* murl-core, fetch.rs; bundle.rs; murl-cli, name.rs and bundle_cmd.rs; the *)
(* resolver's look-up of a local name.                                      *)
(*                                                                         *)
(* Each name is a file of its own. `murl name add` and `murl import` write  *)
(* with std::fs::write, which truncates the file and then writes it; an     *)
(* import looks whether its names exist first, and writes one manifest      *)
(* after the other. Nothing is locked; a step is one system call on a file. *)
(* A manifest is what the commands tell apart: itself, whether it           *)
(* validates, and the id it declares.                                       *)
(***************************************************************************)
EXTENDS Naturals, Sequences

CONSTANTS
    None,       \* no file, no identity, no value
    Empty,      \* what a file holds once truncated
    Torn,       \* text that is no manifest: a part, or two texts mixed
    Latest,     \* the version tag that pins none
    Names,      \* the local names, records of a path and a version
    Documents,  \* manifests: records of a text, `valid` and a declared `id`
    Procs, Jobs, Starts,
    MaxKills,   \* bound: commands killed
    MaxEntries  \* MAX_BUNDLE_ENTRIES

ASSUME ContentsAssumption ==
    /\ None \notin Documents \cup {Empty, Torn} \cup Names
    /\ Documents \cap {Empty, Torn} = {}
ASSUME JobsAssumption ==
    \A p \in Procs : \A j \in Jobs[p] :
        /\ j.do # "import" => j.name \in Names
        /\ j.do = "add" => j.doc \in Documents
        /\ j.do = "import" =>
              /\ j.bundle.entries \in Seq({j.bundle.entries[i] : i \in DOMAIN j.bundle.entries})
              /\ \A i \in DOMAIN j.bundle.entries : j.bundle.entries[i].doc \in Documents

Contents == Documents \cup {None, Empty, Torn}

ASSUME StartsAssumption == Starts \subseteq [Names -> Contents] /\ MaxKills \in Nat

VARIABLES
    job,      \* what each command is asked to do
    alone,    \* no two commands run at the same time
    store,    \* the file of each name
    pc,       \* where each command is
    todo,     \* what it will install: a sequence of names and manifests
    at,       \* the one it has come to
    linked,   \* the file it has open is still the one at the path
    found,    \* the manifest a look-up returned
    kills,
    present,  \* history: the names that existed when each command began
    removed,  \* history: the names `murl name remove` has removed
    wrote,    \* history: the names each command has truncated
    over      \* history: those of them that existed

config == <<job, alone>>
history == <<present, removed, wrote, over>>
vars == <<config, store, pc, todo, at, linked, found, kills, history>>

Labels == {"idle", "checking", "opening", "writing", "done", "refused", "failed", "killed"}
Active == {"checking", "opening", "writing"}

-----------------------------------------------------------------------------
(* What Bundle::from_resolution makes of the manifests of a resolution,     *)
(* root first, each with the identity it was resolved as.                   *)
Exported(nodes) ==
    [known |-> TRUE, root |-> nodes[1].identity,
     entries |-> [i \in DOMAIN nodes |->
                    [identity |-> nodes[i].identity, canonical |-> TRUE,
                     intact |-> TRUE, doc |-> nodes[i].doc]]]

(* Bundle::from_slice: `known` for its size and format version, `intact`    *)
(* for an entry's bytes that have the hash beside them.                     *)
Sound(bundle) ==
    LET entries == bundle.entries
    IN  /\ bundle.known
        /\ Len(entries) \in 1 .. MaxEntries
        /\ \A i \in DOMAIN entries :
              /\ entries[i].intact /\ entries[i].doc.valid
              /\ entries[i].identity # None => entries[i].canonical
        /\ \A i, j \in DOMAIN entries :
              entries[i].identity # None /\ entries[i].identity = entries[j].identity => i = j
        /\ bundle.root # None => \E i \in DOMAIN entries : entries[i].identity = bundle.root

IsRoot(bundle, i) ==
    IF bundle.root = None THEN i = 1 ELSE bundle.entries[i].identity = bundle.root

(* Mutant: the version is not part of the new name.                         *)
MutRehomedLatest(identity) == [path |-> identity.path, version |-> Latest]

(* The path and version of an mURL are kept and its authority is dropped.   *)
Rehomed(identity) == [path |-> identity.path, version |-> identity.version]

(* The local name an import decides on for an entry; None is an error.      *)
LocalName(bundle, i, as) ==
    IF IsRoot(bundle, i) /\ as # None THEN as
    ELSE IF bundle.entries[i].identity # None THEN Rehomed(bundle.entries[i].identity)
    ELSE None

(* The identity check of an import; `name add` and the resolver also        *)
(* compare the versions.                                                    *)
SameName(doc, name) ==
    doc.id # None => doc.id.authority = "local" /\ doc.id.path = name.path

Accepted(doc, name) ==
    /\ doc.valid
    /\ SameName(doc, name)
    /\ doc.id # None /\ Latest \notin {doc.id.version, name.version} =>
            doc.id.version = name.version

(* Mutant: two entries may get one name.                                    *)
MutImportableUnclaimed(j) ==
    LET name(i) == LocalName(j.bundle, i, j.name)
        entries == j.bundle.entries
    IN  /\ Sound(j.bundle)
        /\ \A i \in DOMAIN entries : name(i) \in Names /\ SameName(entries[i].doc, name(i))

Importable(j) ==
    LET name(i) == LocalName(j.bundle, i, j.name)
        entries == j.bundle.entries
    IN  /\ Sound(j.bundle)
        /\ \A i \in DOMAIN entries : name(i) \in Names /\ SameName(entries[i].doc, name(i))
        /\ \A i, k \in DOMAIN entries : name(i) = name(k) => i = k

Plan(j) ==
    IF j.do = "add" THEN <<[name |-> j.name, doc |-> j.doc]>>
    ELSE [i \in DOMAIN j.bundle.entries |->
            [name |-> LocalName(j.bundle, i, j.name), doc |-> j.bundle.entries[i].doc]]

-----------------------------------------------------------------------------
Init ==
    /\ job \in [Procs -> UNION {Jobs[p] : p \in Procs}]
    /\ \A p \in Procs : job[p] \in Jobs[p]
    /\ alone \in BOOLEAN
    /\ store \in Starts
    /\ pc = [p \in Procs |-> "idle"]
    /\ todo = [p \in Procs |-> <<>>]
    /\ at = [p \in Procs |-> 1]
    /\ linked = [p \in Procs |-> FALSE]
    /\ found = [p \in Procs |-> None]
    /\ kills = 0
    /\ present = [p \in Procs |-> {}]
    /\ removed = {}
    /\ wrote = [p \in Procs |-> {}]
    /\ over = [p \in Procs |-> {}]

To(p, label) == pc' = [pc EXCEPT ![p] = label]

Starting(p) ==
    /\ pc[p] = "idle"
    /\ alone => \A q \in Procs : pc[q] \notin Active
    /\ present' = [present EXCEPT ![p] = {n \in Names : store[n] # None}]

(* All of an import is decided, and refused, before the store is touched.   *)
Begin(p) ==
    LET j == job[p]
    IN  /\ Starting(p)
        /\ \/ j.do = "add" /\ Accepted(j.doc, j.name) /\ To(p, "opening")
           \/ j.do = "import" /\ Importable(j) /\ To(p, IF j.force THEN "opening" ELSE "checking")
        /\ todo' = [todo EXCEPT ![p] = Plan(j)]
        /\ UNCHANGED <<config, store, at, linked, found, kills, removed, wrote, over>>

Refuse(p) ==
    LET j == job[p]
    IN  /\ Starting(p)
        /\ \/ j.do = "add" /\ ~Accepted(j.doc, j.name)
           \/ j.do = "import" /\ ~Importable(j)
        /\ To(p, "refused")
        /\ UNCHANGED <<config, store, todo, at, linked, found, kills, removed, wrote, over>>

Current(p) == todo[p][at[p]].name
IsLast(p) == at[p] = Len(todo[p])

(* Mutant: only the first name is looked for.                               *)
MutCheckFirst(p) ==
    /\ pc[p] = "checking"
    /\ To(p, IF store[Current(p)] # None THEN "refused" ELSE "opening")
    /\ UNCHANGED <<config, store, todo, at, linked, found, kills, history>>

(* Without --force: does the next name exist? Any file does.                *)
Check(p) ==
    /\ pc[p] = "checking"
    /\ IF store[Current(p)] # None THEN To(p, "refused") /\ UNCHANGED at
       ELSE IF IsLast(p) THEN To(p, "opening") /\ at' = [at EXCEPT ![p] = 1]
       ELSE UNCHANGED pc /\ at' = [at EXCEPT ![p] = @ + 1]
    /\ UNCHANGED <<config, store, todo, linked, found, kills, history>>

Open(p) ==
    LET n == Current(p)
    IN  /\ pc[p] = "opening"
        /\ store' = [store EXCEPT ![n] = Empty]
        /\ linked' = [linked EXCEPT ![p] = TRUE]
        /\ wrote' = [wrote EXCEPT ![p] = @ \cup {n}]
        /\ over' = [over EXCEPT ![p] = IF store[n] # None THEN @ \cup {n} ELSE @]
        /\ To(p, "writing")
        /\ UNCHANGED <<config, todo, at, found, kills, present, removed>>

(* Over a file another command has written since this one truncated it, the *)
(* rest of a longer text may stay behind.                                   *)
Written(content, doc) == IF content \in {Empty, doc} THEN {doc} ELSE {doc, Torn}

(* Mutant: each name is looked for just before it is written.               *)
MutWriteThenCheck(p) ==
    LET n == Current(p)
    IN  /\ pc[p] = "writing"
        /\ store' \in IF linked[p]
                      THEN {[store EXCEPT ![n] = c] : c \in Written(store[n], todo[p][at[p]].doc)}
                      ELSE {store}
        /\ linked' = [linked EXCEPT ![p] = FALSE]
        /\ To(p, IF IsLast(p) THEN "done" ELSE IF job[p].force THEN "opening" ELSE "checking")
        /\ at' = [at EXCEPT ![p] = IF IsLast(p) THEN @ ELSE @ + 1]
        /\ UNCHANGED <<config, todo, found, kills, history>>

Write(p) ==
    LET n == Current(p)
    IN  /\ pc[p] = "writing"
        /\ store' \in IF linked[p]
                      THEN {[store EXCEPT ![n] = c] : c \in Written(store[n], todo[p][at[p]].doc)}
                      ELSE {store}
        /\ linked' = [linked EXCEPT ![p] = FALSE]
        /\ To(p, IF IsLast(p) THEN "done" ELSE "opening")
        /\ at' = [at EXCEPT ![p] = IF IsLast(p) THEN @ ELSE @ + 1]
        /\ UNCHANGED <<config, todo, found, kills, history>>

(* A command that fails or is killed leaves what it has written, and of the *)
(* manifest it is writing perhaps a part.                                   *)
Interrupted(p) ==
    /\ store' \in IF pc[p] = "writing" /\ linked[p]
                  THEN {store, [store EXCEPT ![Current(p)] = Torn]}
                  ELSE {store}
    /\ linked' = [linked EXCEPT ![p] = FALSE]

OutputError(p) ==
    /\ pc[p] \in {"opening", "writing"}
    /\ Interrupted(p)
    /\ To(p, "failed")
    /\ UNCHANGED <<config, todo, at, found, kills, history>>

Kill(p) ==
    /\ pc[p] \in Active
    /\ kills < MaxKills /\ kills' = kills + 1
    /\ Interrupted(p)
    /\ To(p, "killed")
    /\ UNCHANGED <<config, todo, at, found, history>>

(* `murl name remove` unlinks the file, also one that a command has open.   *)
(* Where it cannot, the file stays.                                        *)
Remove(p) ==
    LET n == job[p].name
    IN  /\ job[p].do = "remove" /\ Starting(p)
        /\ \/ /\ To(p, IF store[n] = None THEN "refused" ELSE "done")
              /\ store' = [store EXCEPT ![n] = None]
              /\ linked' = [q \in Procs |-> linked[q] /\ ~(pc[q] = "writing" /\ Current(q) = n)]
              /\ removed' = IF store[n] = None THEN removed ELSE removed \cup {n}
           \/ To(p, "failed") /\ UNCHANGED <<store, linked, removed>>
        /\ UNCHANGED <<config, todo, at, found, kills, wrote, over>>

(* A look-up reads the file and accepts what the name may stand for. One    *)
(* that cannot be read is as good as none.                                 *)
LookUp(p) ==
    /\ job[p].do = "look" /\ Starting(p)
    /\ \E content \in {store[job[p].name], None} :
          LET ok == content \in Documents /\ Accepted(content, job[p].name)
          IN  /\ found' = [found EXCEPT ![p] = IF ok THEN content ELSE None]
              /\ To(p, IF ok THEN "done" ELSE "refused")
    /\ UNCHANGED <<config, store, todo, at, linked, kills, removed, wrote, over>>

Step(p) ==
    \/ Begin(p) \/ Refuse(p) \/ Check(p) \/ Open(p) \/ Write(p)
    \/ OutputError(p) \/ Kill(p) \/ Remove(p) \/ LookUp(p)

Next == \E p \in Procs : Step(p)

Spec == Init /\ [][Next]_vars

-----------------------------------------------------------------------------
(* Every variable stays within its type.                                    *)
TypeOK ==
    /\ \A p \in Procs : job[p] \in Jobs[p]
    /\ todo \in [Procs -> Seq([name : Names, doc : Documents])]
    /\ at \in [Procs -> Nat \ {0}]
    /\ \A p \in Procs : /\ pc[p] = "idle" => at[p] = 1
                        /\ pc[p] \in Active => at[p] \in DOMAIN todo[p]
    /\ alone \in BOOLEAN
    /\ store \in [Names -> Contents]
    /\ pc \in [Procs -> Labels]
    /\ linked \in [Procs -> BOOLEAN]
    /\ found \in [Procs -> Documents \cup {None}]
    /\ kills \in 0 .. MaxKills
    /\ removed \subseteq Names
    /\ \A h \in {present, wrote, over} : h \in [Procs -> SUBSET Names]

(* bundle_cmd.rs:77-78, "so a rejected entry aborts the whole import": a    *)
(* command that refuses has touched no file, whatever others do meanwhile.  *)
RefusedTouchesNothing == \A p \in Procs : pc[p] = "refused" => wrote[p] = {}

(* bundle_cmd.rs:70, "Existing names are never silently overwritten": an    *)
(* import without --force truncates no file that was there when it began,   *)
(* unless somebody has removed the name meanwhile. (One that appears while  *)
(* it runs it may overwrite: it looks once, and writes afterwards.)         *)
OldNamesSurvive ==
    \A p \in Procs :
        job[p].do = "import" /\ ~job[p].force => over[p] \cap present[p] \subseteq removed

(* What a command installs under a name, told from its arguments alone.     *)
Entitled(j, name, doc) ==
    \/ j.do = "add" /\ j.name = name /\ j.doc = doc
    \/ /\ j.do = "import"
       /\ \E i \in DOMAIN j.bundle.entries :
            LET entry == j.bundle.entries[i]
            IN  /\ entry.doc = doc /\ entry.intact
                /\ IF IsRoot(j.bundle, i) /\ j.name # None THEN name = j.name
                   ELSE /\ entry.identity # None
                        /\ name.path = entry.identity.path
                        /\ name.version = entry.identity.version

(* fetch.rs:97-119, resolver.rs:480-499: what a look-up of a local name     *)
(* goes on with, in spite of races, crashes and half-written files, is a    *)
(* whole manifest that a user has installed under this very name and        *)
(* version, and that does not declare another one.                          *)
FoundUnderItsName ==
    \A p \in Procs : found[p] # None =>
        /\ \/ \E start \in Starts : start[job[p].name] = found[p]
           \/ \E q \in Procs : Entitled(job[q], job[p].name, found[p])
        /\ found[p].id # None => found[p].id.path = job[p].name.path

(* bundle_cmd.rs:139-152, "refusing an import where one would silently      *)
(* overwrite the other": when an import that runs alone says what it has    *)
(* installed, the store holds the verified bytes of every entry.            *)
InstalledIsStored ==
    [][\A p \in Procs :
         alone /\ job[p].do = "import" /\ pc[p] = "writing" /\ pc'[p] = "done" =>
            \A i \in DOMAIN job[p].bundle.entries :
                \E n \in Names : store'[n] = job[p].bundle.entries[i].doc]_vars
=============================================================================
