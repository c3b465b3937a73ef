---------------------------- MODULE SettingsFile ----------------------------
(***************************************************************************)
(* The three settings files as several invocations of `murl` and a daemon   *)
(* share them: config.json and handlers.json (murl-core, config.rs) and     *)
(* trust.json (trust.rs); murl-cli, ctx.rs, handler_cmd.rs, trust_cmd.rs;   *)
(* murl-daemon, main.rs.                                                    *)
(*                                                                         *)
(* Every command reads all three files whole before it does anything. One   *)
(* that edits changes the document in its memory and writes it back with    *)
(* std::fs::write: the file is truncated, then written, with no lock and no *)
(* rename. A step is one system call on a file. A document is a set of      *)
(* pairs: an authority and the id of a key pinned for it, a kind and the    *)
(* program that opens it, a setting and its value.                          *)
(***************************************************************************)
EXTENDS TrustStore, Naturals, Sequences, FiniteSets

CONSTANTS
    Empty,       \* what a file holds once truncated
    Torn,        \* text that is no document: a part, or two texts mixed
    Procs,       \* the commands and the daemon
    Jobs,        \* what each of them may be asked to do: Jobs[p]
    Kinds,       \* kinds a handler is set for
    Programs,
    Settings,    \* pairs config.json may hold
    Starts,      \* the contents of the files to begin with
    MaxEdits,    \* bound: times the user writes a file by hand
    MaxKills     \* bound: processes killed

Files == {"config", "handlers", "trust"}

Entries == [f \in Files |-> CASE f = "trust" -> Pairs
                              [] f = "handlers" -> Kinds \X Programs
                              [] f = "config" -> Settings]

Documents(f) == SUBSET Entries[f]

Contents(f) == Documents(f) \cup {None, Empty, Torn}

ASSUME ContentsAssumption ==
    \A f \in Files : \A document \in Documents(f) : document \notin {None, Empty, Torn}
ASSUME JobsAssumption ==
    \A p \in Procs : \A j \in Jobs[p] :
        /\ j.do \in {"pin", "unpin"} => j.at \in Spellings
        /\ j.do = "set" => j.at \in Kinds /\ j.value \in Programs
ASSUME StartsAssumption ==
    /\ Starts \subseteq {[f \in Files |-> start[f]] : start \in Starts}
    /\ \A start \in Starts, f \in Files : start[f] \in Contents(f)
    /\ MaxEdits \in Nat /\ MaxKills \in Nat

Unloaded == [f \in Files |-> None]

VARIABLES
    job,      \* what each process is asked to do
    alone,    \* no two commands that edit run at the same time
    file,     \* the files: None, Empty, Torn or a document
    pc,       \* where each process is
    loaded,   \* the documents each has read
    draft,    \* the document it is writing
    edits, kills,
    held,     \* history: what each file has said so far
    asked     \* history: the entries a user has asked for in each file

config == <<job, alone>>
history == <<held, asked>>
vars == <<config, file, pc, loaded, draft, edits, kills, history>>

Labels == {"idle", "loading", "reloading", "ready", "writing", "done", "failed", "killed"}
Active == {"loading", "reloading", "ready", "writing"}

Edited(p) == IF job[p].do \in {"pin", "unpin"} THEN "trust" ELSE "handlers"
Editor(p) == job[p].do \in {"pin", "unpin", "set", "unregister"}

(* A missing file says what an empty document says.                         *)
Says(content) == IF content = None THEN {} ELSE content
Readable(content) == content \notin {Empty, Torn}

(* The order in which a command, and the daemon, read the files.            *)
Order(p) ==
    IF job[p].do = "serve" THEN <<"trust", "config", "handlers">>
    ELSE <<"config", "handlers", "trust">>
Read(p) == {f \in Files : loaded[p][f] # None}
NextFile(p) == Order(p)[Cardinality(Read(p)) + 1]

To(p, label) == pc' = [pc EXCEPT ![p] = label]

Init ==
    /\ job \in [Procs -> UNION {Jobs[p] : p \in Procs}]
    /\ \A p \in Procs : job[p] \in Jobs[p]
    /\ alone \in BOOLEAN
    /\ file \in Starts
    /\ pc = [p \in Procs |-> "idle"]
    /\ loaded = [p \in Procs |-> Unloaded]
    /\ draft = [p \in Procs |-> None]
    /\ edits = 0 /\ kills = 0
    /\ held = [f \in Files |-> IF Readable(file[f]) THEN {Says(file[f])} ELSE {}]
    /\ asked = [f \in Files |-> IF Readable(file[f]) THEN Says(file[f]) ELSE {}]

-----------------------------------------------------------------------------
(* Starting: App::init of a command, serve of the daemon.                   *)
Begin(p) ==
    /\ pc[p] = "idle"
    /\ alone /\ Editor(p) => \A q \in Procs : Editor(q) => pc[q] \notin Active
    /\ To(p, "loading")
    /\ UNCHANGED <<config, file, loaded, draft, edits, kills, history>>

(* Mutant of Load: text that cannot be parsed counts as the defaults.       *)
MutLoadDefaults(p) ==
    LET f == NextFile(p)
    IN  /\ pc[p] = "loading"
        /\ loaded' = [loaded EXCEPT ![p][f] = IF Readable(file[f]) THEN Says(file[f]) ELSE {}]
        /\ To(p, IF Cardinality(Read(p)) + 1 < Cardinality(Files) THEN "loading"
                 ELSE IF job[p].do \in {"set", "unregister"} THEN "reloading"
                 ELSE "ready")
        /\ UNCHANGED <<config, file, draft, edits, kills, history>>

(* The handler commands read their file again before they change it.        *)
Load(p) ==
    LET f == NextFile(p)
    IN  /\ pc[p] = "loading"
        /\ Readable(file[f])
        /\ loaded' = [loaded EXCEPT ![p][f] = Says(file[f])]
        /\ To(p, IF Cardinality(Read(p)) + 1 < Cardinality(Files) THEN "loading"
                 ELSE IF job[p].do \in {"set", "unregister"} THEN "reloading"
                 ELSE "ready")
        /\ UNCHANGED <<config, file, draft, edits, kills, history>>

Reload(p) ==
    /\ pc[p] = "reloading"
    /\ Readable(file["handlers"])
    /\ loaded' = [loaded EXCEPT ![p]["handlers"] = Says(file["handlers"])]
    /\ To(p, "ready")
    /\ UNCHANGED <<config, file, draft, edits, kills, history>>

(* What cannot be parsed is an error, whatever the file.                    *)
Malformed(p) ==
    /\ \/ pc[p] = "loading" /\ ~Readable(file[NextFile(p)])
       \/ pc[p] = "reloading" /\ ~Readable(file["handlers"])
    /\ To(p, "failed")
    /\ UNCHANGED <<config, file, loaded, draft, edits, kills, history>>

(* A file that cannot be read, or a directory or file that cannot be opened.*)
InputError(p) ==
    /\ pc[p] \in {"loading", "reloading", "ready"}
    /\ pc[p] = "ready" => Editor(p)
    /\ To(p, "failed")
    /\ UNCHANGED <<config, file, loaded, draft, edits, kills, history>>

-----------------------------------------------------------------------------
(* The change in memory and the first half of std::fs::write.               *)
Truncate(p, document, entries) ==
    /\ draft' = [draft EXCEPT ![p] = document]
    /\ file' = [file EXCEPT ![Edited(p)] = Empty]
    /\ asked' = [asked EXCEPT ![Edited(p)] = @ \cup entries]
    /\ To(p, "writing")
    /\ UNCHANGED <<config, loaded, edits, kills, held>>

Pin(p) ==
    LET j == job[p]
    IN  /\ pc[p] = "ready" /\ j.do = "pin"
        /\ Canonical[j.at] # None /\ j.value \in Keys
        /\ Truncate(p, Pinned(loaded[p]["trust"], j.at, j.value),
                    {<<Canonical[j.at], IdOf[j.value]>>})

(* `trust remove` writes the file whether or not it held the key.           *)
Unpin(p) ==
    LET j == job[p]
    IN  /\ pc[p] = "ready" /\ j.do = "unpin"
        /\ Canonical[j.at] # None
        /\ Truncate(p, Unpinned(loaded[p]["trust"], j.at, j.value), {})

Without(handlers, kind) == {h \in handlers : h[1] # kind}

SetHandler(p) ==
    LET j == job[p]
    IN  /\ pc[p] = "ready" /\ j.do = "set"
        /\ Truncate(p, Without(loaded[p]["handlers"], j.at) \cup {<<j.at, j.value>>},
                    {<<j.at, j.value>>})

(* `handler remove` knows the custom kinds only.                            *)
Unregister(p) ==
    LET j == job[p]
    IN  /\ pc[p] = "ready" /\ j.do = "unregister"
        /\ Without(loaded[p]["handlers"], j.at) # loaded[p]["handlers"]
        /\ Truncate(p, Without(loaded[p]["handlers"], j.at), {})

(* A spelling that is no authority, a value that is no key, nothing to      *)
(* remove: the command fails and the file stays as it is.                   *)
Refuse(p) ==
    LET j == job[p]
    IN  /\ pc[p] = "ready"
        /\ \/ j.do \in {"pin", "unpin"} /\ Canonical[j.at] = None
           \/ j.do = "pin" /\ j.value \notin Keys
           \/ j.do = "unregister" /\ Without(loaded[p]["handlers"], j.at) = loaded[p]["handlers"]
        /\ To(p, "failed")
        /\ UNCHANGED <<config, file, loaded, draft, edits, kills, history>>

(* The second half of std::fs::write. Over a file another writer has        *)
(* written meanwhile, the rest of a longer text may stay behind this one.   *)
Written(content, document) ==
    IF content \in {Empty, document} THEN {document} ELSE {document, Torn}

Write(p) ==
    LET f == Edited(p)
    IN  /\ pc[p] = "writing"
        /\ file' \in {[file EXCEPT ![f] = c] : c \in Written(file[f], draft[p])}
        /\ held' = [held EXCEPT ![f] = IF Readable(file'[f]) THEN @ \cup {file'[f]} ELSE @]
        /\ To(p, "done")
        /\ UNCHANGED <<config, loaded, draft, edits, kills, asked>>

(* A command whose write fails, or that is killed over it, leaves the file  *)
(* as it was or with a part of the text.                                    *)
Interrupted(p) ==
    IF pc[p] = "writing"
    THEN file' \in {file, [file EXCEPT ![Edited(p)] = Torn]}
    ELSE UNCHANGED file

WriteFails(p) ==
    /\ pc[p] = "writing"
    /\ Interrupted(p)
    /\ To(p, "failed")
    /\ UNCHANGED <<config, loaded, draft, edits, kills, history>>

Kill(p) ==
    /\ pc[p] \in Active
    /\ kills < MaxKills /\ kills' = kills + 1
    /\ Interrupted(p)
    /\ To(p, "killed")
    /\ UNCHANGED <<config, loaded, draft, edits, history>>

(* A command that only looks (open, list) ends; the daemon goes on with     *)
(* what it has loaded, and is started anew when it was killed.              *)
Finish(p) ==
    /\ pc[p] = "ready" /\ job[p].do = "look"
    /\ To(p, "done")
    /\ UNCHANGED <<config, file, loaded, draft, edits, kills, history>>

Restart(p) ==
    /\ pc[p] = "killed" /\ job[p].do = "serve"
    /\ To(p, "idle")
    /\ loaded' = [loaded EXCEPT ![p] = Unloaded]
    /\ UNCHANGED <<config, file, draft, edits, kills, history>>

(* The user writes a file by hand, well or badly, or deletes it.            *)
Edit(f, content) ==
    /\ edits < MaxEdits /\ edits' = edits + 1
    /\ alone => \A p \in Procs : Editor(p) => pc[p] \notin Active
    /\ content # Empty
    /\ file' = [file EXCEPT ![f] = content]
    /\ IF Readable(content)
       THEN /\ held' = [held EXCEPT ![f] = @ \cup {Says(content)}]
            /\ asked' = [asked EXCEPT ![f] = @ \cup Says(content)]
       ELSE UNCHANGED history
    /\ UNCHANGED <<config, pc, loaded, draft, kills>>

Step(p) ==
    \/ Begin(p) \/ Load(p) \/ Reload(p) \/ Malformed(p) \/ InputError(p)
    \/ Pin(p) \/ Unpin(p) \/ SetHandler(p) \/ Unregister(p) \/ Refuse(p)
    \/ Write(p) \/ WriteFails(p) \/ Kill(p) \/ Finish(p) \/ Restart(p)

Next ==
    \/ \E p \in Procs : Step(p)
    \/ \E f \in Files : \E content \in Contents(f) : Edit(f, content)

Spec == Init /\ [][Next]_vars

-----------------------------------------------------------------------------
(* Every variable stays within its type.                                    *)
TypeOK ==
    /\ \A p \in Procs : job[p] \in Jobs[p]
    /\ alone \in BOOLEAN
    /\ \A f \in Files : /\ file[f] \in Contents(f)
                        /\ held[f] \subseteq Documents(f)
                        /\ asked[f] \subseteq Entries[f]
    /\ pc \in [Procs -> Labels]
    /\ \A p \in Procs : /\ \A f \in Files : loaded[p][f] \in Documents(f) \cup {None}
                        /\ draft[p] \in Documents(Edited(p)) \cup {None}
    /\ edits \in 0 .. MaxEdits /\ kills \in 0 .. MaxKills

(* config.rs:20-22, trust.rs:296-305: whatever a crash, an editor or a race *)
(* leaves in a file, nobody ever works with a document the file has not     *)
(* said: text that cannot be parsed is never taken for the defaults, nor an *)
(* empty file for an empty store.                                           *)
FailsClosed ==
    \A p \in Procs, f \in Files : loaded[p][f] # None => loaded[p][f] \in held[f]

(* trust.rs:9-11, resolver.rs:451-478: a command or a daemon calls a        *)
(* manifest trusted only if a user has pinned, for the authority it is      *)
(* fetched from, the very key that signed the very body; through races and  *)
(* crashes of the commands that edit the store as well.                     *)
TrustedIsEarned ==
    \A p \in Procs : pc[p] = "ready" =>
        \A m \in Manifest, a \in Authorities :
            StatusOf(loaded[p]["trust"], a, m) = "SignedTrusted" =>
                \E k \in Keys : /\ <<a, IdOf[k]>> \in asked["trust"]
                                /\ m.signature.by = k
                                /\ m.signature.over = m.body

(* The store as commands that do not overlap see it: while one of them is   *)
(* writing the file, the document it started from.                          *)
Writers == {p \in Procs : pc[p] = "writing" /\ Edited(p) = "trust"}
Settled ==
    IF Writers # {} THEN loaded[CHOOSE p \in Writers : TRUE]["trust"]
    ELSE IF Readable(file["trust"]) THEN Says(file["trust"])
    ELSE Torn

(* The commands' own changes of the trust store.                            *)
TrustChanges ==
    {<<v, v \cup {e}>> : v \in SUBSET Pairs, e \in Pairs}
        \cup {<<v, v \ {e}>> : v \in SUBSET Pairs, e \in Pairs}

Register == INSTANCE SettingsRegister WITH
    Values <- SUBSET Pairs, Unreadable <- Torn, Changes <- TrustChanges,
    value <- IF alone THEN Settled ELSE {}, edits <- IF alone THEN edits ELSE 0

(* trust.rs:315-368: `trust add` and `trust remove` commands that run one   *)
(* after the other are changes of one register: no key comes back and none  *)
(* is lost, whatever else reads the file and wherever a command dies.       *)
ImplementsRegister == Register!Spec
=============================================================================
