---------------------------- MODULE ManifestCache ----------------------------
(***************************************************************************)
(* The manifest cache as several invocations of `murl` share it: murl-core, *)
(* cache.rs and `locate` in resolver.rs; murl-cli, ctx.rs and cache_cmd.rs. *)
(*                                                                         *)
(* An entry is two files, `data` and `meta`, written one after the other,   *)
(* each truncated first, and read one after the other; nothing locks them.  *)
(* Entries of different identities share no file, so the module follows one *)
(* identity. Every system call on a file is a step, which may also fail and *)
(* leave the file alone, and an invocation may be killed between any two. A *)
(* document is compared with its hash only, so it stands for its own hash.  *)
(***************************************************************************)
EXTENDS Naturals

CONSTANTS
    None,       \* no file, no value
    Empty,      \* what a file holds once truncated
    Torn,       \* what it holds when two writers have mixed their texts
    Procs,      \* the invocations
    Docs,       \* the documents the authority may publish
    Jobs,       \* job[p]: what each invocation is asked to do
    Ttls,       \* cache_ttl_secs, or Forever for a pinned version
    Forever,
    MaxTime     \* bound on the clock

JobNames == {"online", "offline", "refresh", "evict", "clear"}

ASSUME JobsAssumption == Jobs \subseteq [Procs -> JobNames]
ASSUME TtlsAssumption == Ttls \subseteq Nat \cup {Forever} /\ Forever \notin Nat
ASSUME MaxTimeAssumption == MaxTime \in Nat
VARIABLES
    job, ttl,   \* the invocations' jobs and the identity's time to live
    now,        \* the clock
    origin,     \* the document the authority publishes now
    data,       \* the file of the bytes: None, Empty, Torn or a document
    meta,       \* the file of the metadata: None, Empty, Torn or a CacheMeta
    pc,         \* where each invocation is
    clock,      \* the clock as each invocation read it
    bytes,      \* the bytes each invocation has read, until it compares them
    cached,     \* the stale entry `get` returned to it
    fetched,    \* the document it fetched and has not stored
    linked,     \* the file it has open for writing is still the one at the path
    used,       \* the document its resolution goes on with, and where it is from
    served,     \* history: what the authority has served, and when
    stored,     \* history: somebody stored data since the invocation began
    kept        \* history: the data its eviction has found and left in place

world == <<job, ttl, now, origin>>
files == <<data, meta, linked>>
locals == <<clock, bytes, cached, fetched, used>>
history == <<served, stored, kept>>
vars == <<world, files, pc, locals, history>>

Metas == [doc : Docs, at : Nat]

ASSUME MarksAssumption ==
    /\ \A mark \in {None, Empty, Torn} : mark \notin Docs /\ mark \notin Metas
    /\ None \notin {Empty, Torn}

Init ==
    /\ job \in Jobs
    /\ ttl \in Ttls
    /\ now = 0
    /\ origin \in Docs
    /\ data = None
    /\ meta = None
    /\ pc = [p \in Procs |-> "start"]
    /\ clock = [p \in Procs |-> 0]
    /\ bytes = [p \in Procs |-> None]
    /\ cached = [p \in Procs |-> None]
    /\ fetched = [p \in Procs |-> None]
    /\ linked = [p \in Procs |-> FALSE]
    /\ used = [p \in Procs |-> None]
    /\ served = {}
    /\ stored = [p \in Procs |-> FALSE]
    /\ kept = [p \in Procs |-> None]

To(p, label) == pc' = [pc EXCEPT ![p] = label]
Ended == {"used", "evicted", "failed", "killed"}
Storing == {"openData", "writeData", "openMeta", "writeMeta"}

(* Removing the file writers are in the middle of leaves them with a file   *)
(* that has no path any more.                                              *)
Unlinked(label) == [p \in Procs |-> IF pc[p] = label THEN FALSE ELSE linked[p]]

(* What a write leaves in a file that two writers may have open: the second *)
(* overwrites the first, whose longer text would show behind it.            *)
Written(file, content) == IF file \in {Empty, content} THEN {content} ELSE {content, Torn}

-----------------------------------------------------------------------------
(* Begin; resolve_target with --refresh, `cache evict` and `cache clear`,   *)
(* which evicts what it can list: metadata it can read, in a directory it   *)
(* can read.                                                               *)
Listed == {"evicted", "failed"} \cup (IF meta \in Metas THEN {"checkData"} ELSE {})

(* Mutant of Begin: --refresh evicts what `clear` would find only.          *)
MutBeginRefreshListed(p) ==
    /\ pc[p] = "start"
    /\ \E label \in CASE job[p] \in {"online", "offline"} -> {"readData"}
                      [] job[p] = "evict" -> {"checkData"}
                      [] job[p] = "refresh" ->
                             {IF meta \in Metas THEN "checkData" ELSE "readData"}
                      [] job[p] = "clear" -> Listed :
          To(p, label)
    /\ UNCHANGED <<world, files, locals, history>>

Begin(p) ==
    /\ pc[p] = "start"
    /\ \E label \in CASE job[p] \in {"online", "offline"} -> {"readData"}
                      [] job[p] \in {"refresh", "evict"} -> {"checkData"}
                      [] job[p] = "clear" -> Listed :
          To(p, label)
    /\ UNCHANGED <<world, files, locals, history>>

(* evict has ended; --refresh ignores how.                                  *)
Evicted(p, label) == To(p, IF job[p] = "refresh" THEN "readData" ELSE label)

(* exists() is false also for a file it cannot look at.                     *)
CheckData(p) ==
    /\ pc[p] = "checkData"
    /\ \/ /\ data # None
          /\ To(p, "unlinkData")
          /\ UNCHANGED kept
       \/ /\ To(p, "checkMeta")
          /\ kept' = [kept EXCEPT ![p] = data]
    /\ UNCHANGED <<world, files, locals, served, stored>>

(* remove_file fails when the file has gone since it was looked at, or with *)
(* the file in place (no permission, an I/O error): evict ends.             *)
UnlinkData(p) ==
    /\ pc[p] = "unlinkData"
    /\ \/ /\ data # None
          /\ data' = None
          /\ linked' = Unlinked("writeData")
          /\ To(p, "checkMeta")
          /\ UNCHANGED kept
       \/ /\ Evicted(p, "failed")
          /\ kept' = [kept EXCEPT ![p] = data]
          /\ UNCHANGED <<data, linked>>
    /\ UNCHANGED <<world, meta, locals, served, stored>>

CheckMeta(p) ==
    /\ pc[p] = "checkMeta"
    /\ \/ meta # None /\ To(p, "unlinkMeta")
       \/ Evicted(p, "evicted")
    /\ UNCHANGED <<world, files, locals, history>>

UnlinkMeta(p) ==
    /\ pc[p] = "unlinkMeta"
    /\ \/ /\ meta # None
          /\ meta' = None
          /\ linked' = Unlinked("writeMeta")
          /\ Evicted(p, "evicted")
       \/ /\ Evicted(p, "failed")
          /\ UNCHANGED <<meta, linked>>
    /\ UNCHANGED <<world, data, locals, history>>

-----------------------------------------------------------------------------
(* ManifestCache::get, from locate.                                        *)

Fresh(entry, time) == ttl = Forever \/ time < entry.at + ttl

(* A file that cannot be read is a miss, as one that is not there.          *)
ReadData(p) ==
    /\ pc[p] = "readData"
    /\ clock' = [clock EXCEPT ![p] = now]
    /\ \E seen \in {data, None} :
          /\ bytes' = [bytes EXCEPT ![p] = seen]
          /\ To(p, IF seen = None THEN "fetch" ELSE "readMeta")
    /\ UNCHANGED <<world, files, cached, fetched, used, history>>

(* Mutant of ReadMeta: the hash is not compared.                            *)
MutReadMetaUnchecked(p) ==
    /\ pc[p] = "readMeta"
    /\ \E seen \in {meta, None} :
       LET hit == seen \in Metas
              fresh == hit /\ Fresh(seen, clock[p])
          IN  /\ cached' = IF hit /\ ~fresh THEN [cached EXCEPT ![p] = seen] ELSE cached
              /\ used' = IF fresh
                         THEN [used EXCEPT ![p] = [doc |-> bytes[p], from |-> "fresh"]]
                         ELSE used
              /\ bytes' = [bytes EXCEPT ![p] = None]
              /\ To(p, IF fresh THEN "used" ELSE "fetch")
    /\ UNCHANGED <<world, files, clock, fetched, history>>

(* Missing or unreadable metadata is a miss, metadata of other bytes a miss *)
(* that drops the entry.                                                   *)
ReadMeta(p) ==
    /\ pc[p] = "readMeta"
    /\ \E seen \in {meta, None} :
       LET hit == seen \in Metas /\ seen.doc = bytes[p]
              fresh == hit /\ Fresh(seen, clock[p])
          IN  /\ cached' = IF hit /\ ~fresh THEN [cached EXCEPT ![p] = seen] ELSE cached
              /\ used' = IF fresh
                         THEN [used EXCEPT ![p] = [doc |-> bytes[p], from |-> "fresh"]]
                         ELSE used
              /\ bytes' = [bytes EXCEPT ![p] = None]
              /\ To(p, IF fresh THEN "used"
                       ELSE IF hit \/ seen \notin Metas THEN "fetch" ELSE "dropData")
    /\ UNCHANGED <<world, files, clock, fetched, history>>

(* Both removals may fail, and get does not look.                           *)
DropData(p) ==
    /\ pc[p] = "dropData"
    /\ \/ data' = None /\ linked' = Unlinked("writeData")
       \/ UNCHANGED <<data, linked>>
    /\ To(p, "dropMeta")
    /\ UNCHANGED <<world, meta, locals, history>>

DropMeta(p) ==
    /\ pc[p] = "dropMeta"
    /\ \/ meta' = None /\ linked' = Unlinked("writeMeta")
       \/ UNCHANGED <<meta, linked>>
    /\ To(p, "fetch")
    /\ UNCHANGED <<world, data, locals, history>>

-----------------------------------------------------------------------------
(* locate, after the cache.                                                *)

Fetch(p) ==
    /\ pc[p] = "fetch"
    /\ job[p] # "offline"
    /\ fetched' = [fetched EXCEPT ![p] = origin]
    /\ served' = served \cup {<<origin, now>>}
    /\ cached' = [cached EXCEPT ![p] = None]
    /\ To(p, "openData")
    /\ UNCHANGED <<world, files, clock, bytes, used, stored, kept>>

(* More bytes than max_manifest_bytes: an error, with a stale entry or not. *)
Oversized(p) ==
    /\ pc[p] = "fetch"
    /\ job[p] # "offline"
    /\ cached' = [cached EXCEPT ![p] = None]
    /\ To(p, "failed")
    /\ UNCHANGED <<world, files, clock, bytes, fetched, used, history>>

(* Offline, or the fetch has failed: a stale entry, or nothing.             *)
FallBack(p) ==
    /\ pc[p] = "fetch"
    /\ used' = IF cached[p] = None THEN used
               ELSE [used EXCEPT ![p] = [doc |-> cached[p].doc, from |-> "stale"]]
    /\ To(p, IF cached[p] = None THEN "failed" ELSE "used")
    /\ cached' = [cached EXCEPT ![p] = None]
    /\ UNCHANGED <<world, files, clock, bytes, fetched, history>>

-----------------------------------------------------------------------------
(* ManifestCache::put: both files by std::fs::write, which truncates the    *)
(* file or creates it and then writes.                                     *)

Goes(p) ==
    /\ used' = [used EXCEPT ![p] = [doc |-> fetched[p], from |-> "network"]]
    /\ fetched' = [fetched EXCEPT ![p] = None]

OpenData(p) ==
    /\ pc[p] = "openData"
    /\ data' = Empty
    /\ linked' = [linked EXCEPT ![p] = TRUE]
    /\ To(p, "writeData")
    /\ UNCHANGED <<world, meta, locals, history>>

WriteData(p) ==
    /\ pc[p] = "writeData"
    /\ data' \in IF linked[p] THEN Written(data, fetched[p]) ELSE {data}
    /\ stored' = [q \in Procs |-> stored[q] \/ (q # p /\ pc[q] # "start")]
    /\ linked' = [linked EXCEPT ![p] = FALSE]
    /\ To(p, "openMeta")
    /\ UNCHANGED <<world, meta, locals, served, kept>>

OpenMeta(p) ==
    /\ pc[p] = "openMeta"
    /\ meta' = Empty
    /\ linked' = [linked EXCEPT ![p] = TRUE]
    /\ To(p, "writeMeta")
    /\ UNCHANGED <<world, data, locals, history>>

(* Mutant of WriteMeta: the fetch is dated when it is stored.               *)
MutWriteMetaDatedNow(p) ==
    /\ pc[p] = "writeMeta"
    /\ meta' \in IF linked[p]
                 THEN Written(meta, [doc |-> fetched[p], at |-> now])
                 ELSE {meta}
    /\ linked' = [linked EXCEPT ![p] = FALSE]
    /\ Goes(p)
    /\ To(p, "used")
    /\ UNCHANGED <<world, data, clock, bytes, cached, history>>

(* The fetch is dated by the clock read before it.                          *)
WriteMeta(p) ==
    /\ pc[p] = "writeMeta"
    /\ meta' \in IF linked[p]
                 THEN Written(meta, [doc |-> fetched[p], at |-> clock[p]])
                 ELSE {meta}
    /\ linked' = [linked EXCEPT ![p] = FALSE]
    /\ Goes(p)
    /\ To(p, "used")
    /\ UNCHANGED <<world, data, clock, bytes, cached, history>>

(* An error of the file system while storing is a warning.                  *)
PutFails(p) ==
    /\ pc[p] \in Storing
    /\ linked' = [linked EXCEPT ![p] = FALSE]
    /\ Goes(p)
    /\ To(p, "used")
    /\ UNCHANGED <<world, data, meta, clock, bytes, cached, history>>

Kill(p) ==
    /\ pc[p] \notin Ended \cup {"start"}
    /\ linked' = [linked EXCEPT ![p] = FALSE]
    /\ bytes' = [bytes EXCEPT ![p] = None]
    /\ cached' = [cached EXCEPT ![p] = None]
    /\ fetched' = [fetched EXCEPT ![p] = None]
    /\ To(p, "killed")
    /\ UNCHANGED <<world, data, meta, clock, used, history>>

(* Time passes, and the authority may publish something else, or again what *)
(* it published before.                                                    *)
Tick ==
    /\ now < MaxTime
    /\ now' = now + 1
    /\ origin' \in Docs
    /\ UNCHANGED <<job, ttl, files, pc, locals, history>>

Step(p) ==
    \/ Begin(p) \/ CheckData(p) \/ UnlinkData(p) \/ CheckMeta(p) \/ UnlinkMeta(p)
    \/ ReadData(p) \/ ReadMeta(p) \/ DropData(p) \/ DropMeta(p)
    \/ Fetch(p) \/ Oversized(p) \/ FallBack(p)
    \/ OpenData(p) \/ WriteData(p) \/ OpenMeta(p) \/ WriteMeta(p) \/ PutFails(p)

Next == (\E p \in Procs : Step(p) \/ Kill(p)) \/ Tick

Spec == Init /\ [][Next]_vars

-----------------------------------------------------------------------------
(* Properties.                                                             *)

Labels ==
    {"start", "checkData", "unlinkData", "checkMeta", "unlinkMeta", "readData", "readMeta",
     "dropData", "dropMeta", "fetch"} \cup Storing \cup Ended

(* The two files and the invocations' steps (cache.rs:62-104).              *)
TypeOK ==
    /\ job \in [Procs -> JobNames]
    /\ ttl \in Nat \cup {Forever}
    /\ now \in 0 .. MaxTime
    /\ origin \in Docs
    /\ data \in Docs \cup {None, Empty, Torn}
    /\ meta \in Metas \cup {None, Empty, Torn}
    /\ pc \in [Procs -> Labels]
    /\ clock \in [Procs -> 0 .. MaxTime]
    /\ bytes \in [Procs -> Docs \cup {None, Empty, Torn}]
    /\ cached \in [Procs -> Metas \cup {None}]
    /\ fetched \in [Procs -> Docs \cup {None}]
    /\ linked \in [Procs -> BOOLEAN]
    /\ used \in [Procs -> [doc : Docs, from : {"fresh", "stale", "network"}] \cup {None}]
    /\ served \subseteq Docs \X (0 .. MaxTime)
    /\ stored \in [Procs -> BOOLEAN]
    /\ kept \in [Procs -> Docs \cup {None, Empty, Torn}]

(* cache.rs:67-71: whatever invocations did to the two files at once, and   *)
(* wherever one was killed, a resolution goes on with a document that the   *)
(* authority has served, whole.                                            *)
UsedWasServed ==
    \A p \in Procs : used[p] # None => \E t \in 0 .. now : <<used[p].doc, t>> \in served

(* cache.rs:72-75, resolver.rs:371-381: what is used without a warning was  *)
(* served less than the time to live ago; the files of two fetches never    *)
(* pass an old document off as a new one.                                  *)
FreshMeansRecent ==
    \A p \in Procs :
        used[p] # None /\ used[p].from = "fresh" =>
            \E t \in 0 .. now : <<used[p].doc, t>> \in served /\ Fresh([at |-> t], clock[p])

FromCache(p) == used[p] # None /\ used[p].from # "network"

(* cache.rs:95-103, ctx.rs:115: whatever fails, and whatever others do      *)
(* meanwhile, --refresh takes from the cache what has been stored since, or *)
(* the very bytes its own eviction found and could not remove. Metadata     *)
(* that evict leaves behind never brings older bytes back.                 *)
(* docs/resolution.md:39, "--refresh evicts before resolving", would have   *)
(* it without those bytes; but ctx.rs:115 ignores an eviction that fails.   *)
RefreshRefetches ==
    \A p \in Procs :
        job[p] = "refresh" /\ FromCache(p) => stored[p] \/ used[p].doc = kept[p]
=============================================================================
