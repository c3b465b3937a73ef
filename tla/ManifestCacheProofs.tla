------------------------ MODULE ManifestCacheProofs ------------------------
(***************************************************************************)
(* The manifest cache for any number of invocations, documents and ticks:   *)
(* what is used has been served, what is used without a warning has been    *)
(* served recently, and --refresh uses nothing it could have removed. The   *)
(* two files are never relied on: what matters is that every date kept      *)
(* anywhere (in the metadata, in an entry an invocation has read, with a    *)
(* document it is about to store) is at most that of a fetch of the         *)
(* document it stands with.                                                *)
(***************************************************************************)
EXTENDS ManifestCache, TLAPS

(* The document was fetched at `from` or later.                             *)
Dated(doc, from) == \E t \in from .. now : <<doc, t>> \in served

(* What an invocation holds at which step.                                 *)
Places ==
    \A p \in Procs :
        /\ clock[p] <= now
        /\ fetched[p] # None <=> pc[p] \in Storing
        /\ used[p] # None => pc[p] = "used"

(* Every date that is kept is no later than a fetch.                       *)
KeptDated ==
    /\ meta \in Metas => Dated(meta.doc, meta.at)
    /\ \A p \in Procs :
        /\ cached[p] # None => Dated(cached[p].doc, cached[p].at)
        /\ fetched[p] # None => Dated(fetched[p], clock[p])

(* Until somebody stores, --refresh can read again only what its eviction   *)
(* has left in place.                                                      *)
Purged ==
    \A p \in Procs :
        job[p] = "refresh" /\ ~stored[p] =>
            /\ pc[p] \in {"start", "checkData", "unlinkData"} => bytes[p] = None /\ cached[p] = None
            /\ pc[p] \in {"checkMeta", "unlinkMeta", "readData"} => data \notin Docs \/ data = kept[p]
            /\ bytes[p] \notin Docs \/ bytes[p] = kept[p]
            /\ cached[p] = None \/ cached[p].doc = kept[p]

LEMMA TypeStep ==
    ASSUME TypeOK, Places, NEW p \in Procs, Step(p) \/ Kill(p) PROVE TypeOK'
<1> USE MarksAssumption DEF TypeOK, Places, Labels, Storing, Ended, Metas, To, world, files, locals, history, Unlinked
<1>1. CASE Begin(p)
  BY <1>1 DEF Begin, Listed, JobNames
<1>2. CASE CheckData(p)
  BY <1>2 DEF CheckData
<1>3. CASE UnlinkData(p)
  <2> HIDE DEF TypeOK, Places, Labels, Metas, Storing, Ended, Unlinked
  <2>1. /\ data' \in {data, None}
        /\ linked' \in {linked, Unlinked("writeData")}
        /\ kept' \in {kept, [kept EXCEPT ![p] = data]}
    BY <1>3 DEF UnlinkData
  <2>2. pc' \in [Procs -> Labels]
    <3>1. pc' \in {[pc EXCEPT ![p] = label] : label \in {"checkMeta", "readData", "failed"}}
      BY <1>3 DEF UnlinkData, Evicted
    <3> QED BY <3>1 DEF TypeOK, Labels, Ended
  <2>3. UNCHANGED <<job, ttl, now, origin, meta, clock, bytes, cached, fetched, used, served, stored>>
    BY <1>3 DEF UnlinkData
  <2>4. linked' \in [Procs -> BOOLEAN]
    BY <2>1 DEF TypeOK, Unlinked
  <2>5. /\ data' \in Docs \cup {None, Empty, Torn}
        /\ kept' \in [Procs -> Docs \cup {None, Empty, Torn}]
    BY <2>1 DEF TypeOK
  <2> QED BY <2>2, <2>3, <2>4, <2>5 DEF TypeOK
<1>4. CASE CheckMeta(p)
  BY <1>4 DEF CheckMeta, Evicted
<1>5. CASE UnlinkMeta(p)
  BY <1>5 DEF UnlinkMeta, Evicted
<1>6. CASE ReadData(p)
  BY <1>6 DEF ReadData
<1>7. CASE ReadMeta(p)
  BY <1>7 DEF ReadMeta
<1>8. CASE DropData(p)
  BY <1>8 DEF DropData
<1>9. CASE DropMeta(p)
  BY <1>9 DEF DropMeta
<1>10. CASE Fetch(p)
  BY <1>10 DEF Fetch
<1>11. CASE FallBack(p)
  BY <1>11 DEF FallBack
<1>12. CASE OpenData(p)
  BY <1>12 DEF OpenData
<1>13. CASE WriteData(p)
  BY <1>13 DEF WriteData, Written
<1>14. CASE OpenMeta(p)
  BY <1>14 DEF OpenMeta
<1>15. CASE WriteMeta(p)
  BY <1>15 DEF WriteMeta, Written, Goes
<1>16. CASE PutFails(p)
  BY <1>16 DEF PutFails, Goes
<1>17. CASE Kill(p)
  BY <1>17 DEF Kill
<1>18. CASE Oversized(p)
  BY <1>18 DEF Oversized
<1> QED
  BY <1>1, <1>2, <1>3, <1>4, <1>5, <1>6, <1>7, <1>8, <1>9, <1>10, <1>11, <1>12, <1>13, <1>14, <1>15, <1>16, <1>17, <1>18
  DEF Step

LEMMA PlacesStep ==
    ASSUME TypeOK, Places, NEW p \in Procs, Step(p) \/ Kill(p) PROVE Places'
<1> USE MarksAssumption DEF TypeOK, Places, Storing, Ended, To, world, files, locals, history, Unlinked
<1>1. CASE Begin(p)
  BY <1>1 DEF Begin, Listed, JobNames
<1>2. CASE CheckData(p)
  BY <1>2 DEF CheckData
<1>3. CASE UnlinkData(p)
  BY <1>3 DEF UnlinkData, Evicted
<1>4. CASE CheckMeta(p)
  BY <1>4 DEF CheckMeta, Evicted
<1>5. CASE UnlinkMeta(p)
  <2>1. UNCHANGED <<now, clock, fetched, used>> /\ pc[p] = "unlinkMeta"
    BY <1>5 DEF UnlinkMeta
  <2>2. pc' \in {[pc EXCEPT ![p] = label] : label \in {"readData", "evicted", "failed"}}
    BY <1>5 DEF UnlinkMeta, Evicted
  <2> QED BY <2>1, <2>2
<1>6. CASE ReadData(p)
  BY <1>6 DEF ReadData
<1>7. CASE ReadMeta(p)
  BY <1>7 DEF ReadMeta
<1>8. CASE DropData(p)
  BY <1>8 DEF DropData
<1>9. CASE DropMeta(p)
  BY <1>9 DEF DropMeta
<1>10. CASE Fetch(p)
  BY <1>10 DEF Fetch
<1>11. CASE FallBack(p)
  BY <1>11 DEF FallBack
<1>12. CASE OpenData(p)
  BY <1>12 DEF OpenData
<1>13. CASE WriteData(p)
  BY <1>13 DEF WriteData, Written
<1>14. CASE OpenMeta(p)
  BY <1>14 DEF OpenMeta
<1>15. CASE WriteMeta(p)
  BY <1>15 DEF WriteMeta, Written, Goes
<1>16. CASE PutFails(p)
  BY <1>16 DEF PutFails, Goes
<1>17. CASE Kill(p)
  BY <1>17 DEF Kill
<1>18. CASE Oversized(p)
  BY <1>18 DEF Oversized
<1> QED
  BY <1>1, <1>2, <1>3, <1>4, <1>5, <1>6, <1>7, <1>8, <1>9, <1>10, <1>11, <1>12, <1>13, <1>14, <1>15, <1>16, <1>17, <1>18
  DEF Step

LEMMA DatedStep ==
    ASSUME TypeOK, Places, KeptDated, NEW p \in Procs, Step(p) \/ Kill(p) PROVE KeptDated'
<1> USE MarksAssumption DEF TypeOK, Places, KeptDated, Storing, Ended, Dated, To, world, files, locals, history, Unlinked
<1>1. CASE Begin(p)
  BY <1>1 DEF Begin, Listed
<1>2. CASE CheckData(p)
  BY <1>2 DEF CheckData
<1>3. CASE UnlinkData(p)
  BY <1>3 DEF UnlinkData, Evicted
<1>4. CASE CheckMeta(p)
  BY <1>4 DEF CheckMeta, Evicted
<1>5. CASE UnlinkMeta(p)
  BY <1>5 DEF UnlinkMeta, Evicted
<1>6. CASE ReadData(p)
  BY <1>6 DEF ReadData
<1>7. CASE ReadMeta(p)
  <2> HIDE DEF TypeOK, Places, KeptDated, Dated
  <2>1. UNCHANGED <<now, meta, clock, fetched, served>>
    BY <1>7 DEF ReadMeta
  <2>2. \A q \in Procs : cached'[q] = cached[q] \/ (meta \in Metas /\ cached'[q] = meta)
    BY <1>7 DEF ReadMeta, TypeOK
  <2> QED BY <2>1, <2>2 DEF KeptDated, Dated
<1>8. CASE DropData(p)
  BY <1>8 DEF DropData
<1>9. CASE DropMeta(p)
  BY <1>9 DEF DropMeta
<1>10. CASE Fetch(p)
  <2> HIDE DEF TypeOK, Places, KeptDated, Dated
  <2>1. /\ served' = served \cup {<<origin, now>>} /\ now' = now /\ meta' = meta
        /\ clock' = clock /\ clock[p] \in Nat
        /\ \A q \in Procs : cached'[q] # None => cached'[q] = cached[q]
        /\ \A q \in Procs : fetched'[q] = IF q = p THEN origin ELSE fetched[q]
    BY <1>10 DEF Fetch, TypeOK
  <2>2. \E t \in clock[p] .. now : <<origin, t>> \in served'
    <3>1. now \in clock[p] .. now
      BY DEF TypeOK, Places
    <3> QED BY <2>1, <3>1
  <2> QED BY <2>1, <2>2 DEF KeptDated, Dated
<1>11. CASE FallBack(p)
  BY <1>11 DEF FallBack
<1>12. CASE OpenData(p)
  BY <1>12 DEF OpenData
<1>13. CASE WriteData(p)
  BY <1>13 DEF WriteData, Written
<1>14. CASE OpenMeta(p)
  BY <1>14 DEF OpenMeta
<1>15. CASE WriteMeta(p)
  <2> HIDE DEF TypeOK, Places, KeptDated, Dated, Unlinked, world, files, locals, history
  <2>1. /\ now' = now /\ served' = served /\ cached' = cached
        /\ fetched[p] # None
    BY <1>15 DEF WriteMeta, Goes, Places, world, history
  <2>2. \A q \in Procs : fetched'[q] = IF q = p THEN None ELSE fetched[q]
    BY <1>15 DEF WriteMeta, Goes, TypeOK
  <2>3. meta' \in {meta, [doc |-> fetched[p], at |-> clock[p]], Torn}
    BY <1>15 DEF WriteMeta, Written
  <2>4. clock' = clock
    BY <1>15 DEF WriteMeta
  <2>5. ASSUME meta' \in Metas PROVE Dated(meta.doc, meta.at)'
    <3>1. CASE meta' = meta
      BY <2>1, <2>5, <3>1 DEF KeptDated, Dated
    <3>2. CASE meta' = [doc |-> fetched[p], at |-> clock[p]]
      BY <2>1, <3>2 DEF KeptDated, Dated
    <3>3. CASE meta' = Torn
      BY <2>5, <3>3
    <3>. QED
      BY <2>3, <3>1, <3>2, <3>3
  <2>6. \A q \in Procs : cached'[q] # None => Dated(cached[q].doc, cached[q].at)'
    BY <2>1 DEF KeptDated, Dated
  <2>7. \A q \in Procs : fetched'[q] # None => Dated(fetched[q], clock[q])'
    BY <2>1, <2>2, <2>4 DEF KeptDated, Dated
  <2> QED
    BY <2>5, <2>6, <2>7 DEF KeptDated
<1>16. CASE PutFails(p)
  BY <1>16 DEF PutFails, Goes
<1>17. CASE Kill(p)
  BY <1>17 DEF Kill
<1>18. CASE Oversized(p)
  BY <1>18 DEF Oversized
<1> QED
  BY <1>1, <1>2, <1>3, <1>4, <1>5, <1>6, <1>7, <1>8, <1>9, <1>10, <1>11, <1>12, <1>13, <1>14, <1>15, <1>16, <1>17, <1>18
  DEF Step

LEMMA PurgedStep ==
    ASSUME TypeOK, Purged, NEW p \in Procs, Step(p) \/ Kill(p) PROVE Purged'
<1> USE MarksAssumption DEF TypeOK, Purged, Storing, Ended, Metas, To, world, files, locals, history, Unlinked
<1>1. CASE Begin(p)
  BY <1>1 DEF Begin, Listed
<1>2. CASE CheckData(p)
  BY <1>2 DEF CheckData
<1>3. CASE UnlinkData(p)
  <2>1. UNCHANGED <<job, stored, bytes, cached>> /\ data' \in {data, None} /\ pc[p] = "unlinkData"
    BY <1>3 DEF UnlinkData
  <2>2. \A q \in Procs \ {p} : pc'[q] = pc[q] /\ kept'[q] = kept[q]
    BY <1>3 DEF UnlinkData, Evicted
  <2>3. pc'[p] \notin {"start", "checkData", "unlinkData"} \/ job[p] # "refresh"
    BY <1>3 DEF UnlinkData, Evicted
  <2>4. data' = None \/ kept'[p] = data
    BY <1>3 DEF UnlinkData
  <2> QED BY <2>1, <2>2, <2>3, <2>4
<1>4. CASE CheckMeta(p)
  BY <1>4 DEF CheckMeta, Evicted
<1>5. CASE UnlinkMeta(p)
  <2>1. UNCHANGED <<job, stored, kept, data, bytes, cached>> /\ pc[p] = "unlinkMeta"
    BY <1>5 DEF UnlinkMeta
  <2>2. pc' \in {[pc EXCEPT ![p] = label] : label \in {"readData", "evicted", "failed"}}
    BY <1>5 DEF UnlinkMeta, Evicted
  <2> QED BY <2>1, <2>2
<1>6. CASE ReadData(p)
  BY <1>6 DEF ReadData
<1>7. CASE ReadMeta(p)
  BY <1>7 DEF ReadMeta
<1>8. CASE DropData(p)
  BY <1>8 DEF DropData
<1>9. CASE DropMeta(p)
  BY <1>9 DEF DropMeta
<1>10. CASE Fetch(p)
  BY <1>10 DEF Fetch
<1>11. CASE FallBack(p)
  BY <1>11 DEF FallBack
<1>12. CASE OpenData(p)
  BY <1>12 DEF OpenData
<1>13. CASE WriteData(p)
  BY <1>13 DEF WriteData, Written
<1>14. CASE OpenMeta(p)
  BY <1>14 DEF OpenMeta
<1>15. CASE WriteMeta(p)
  BY <1>15 DEF WriteMeta, Written, Goes
<1>16. CASE PutFails(p)
  BY <1>16 DEF PutFails, Goes
<1>17. CASE Kill(p)
  BY <1>17 DEF Kill
<1>18. CASE Oversized(p)
  BY <1>18 DEF Oversized
<1> QED
  BY <1>1, <1>2, <1>3, <1>4, <1>5, <1>6, <1>7, <1>8, <1>9, <1>10, <1>11, <1>12, <1>13, <1>14, <1>15, <1>16, <1>17, <1>18
  DEF Step

LEMMA ServedStep ==
    ASSUME TypeOK, Places, KeptDated, UsedWasServed, NEW p \in Procs, Step(p) \/ Kill(p) PROVE UsedWasServed'
<1> USE MarksAssumption DEF TypeOK, Places, KeptDated, UsedWasServed, Storing, Ended, Dated, To, world, files, locals, history, Unlinked
<1>1. CASE Begin(p)
  BY <1>1 DEF Begin, Listed
<1>2. CASE CheckData(p)
  BY <1>2 DEF CheckData
<1>3. CASE UnlinkData(p)
  BY <1>3 DEF UnlinkData, Evicted
<1>4. CASE CheckMeta(p)
  BY <1>4 DEF CheckMeta, Evicted
<1>5. CASE UnlinkMeta(p)
  BY <1>5 DEF UnlinkMeta, Evicted
<1>6. CASE ReadData(p)
  BY <1>6 DEF ReadData
<1>7. CASE ReadMeta(p)
  <2> HIDE DEF TypeOK, Places, KeptDated, Dated, UsedWasServed
  <2>1. /\ served' = served /\ now' = now
        /\ \A q \in Procs : used'[q] # used[q] => used'[q].doc = meta.doc /\ meta \in Metas
    BY <1>7 DEF ReadMeta, TypeOK
  <2>2. meta \in Metas => \E t \in 0 .. now : <<meta.doc, t>> \in served
    BY DEF Metas, KeptDated, Dated
  <2> QED BY <2>1, <2>2 DEF UsedWasServed
<1>8. CASE DropData(p)
  BY <1>8 DEF DropData
<1>9. CASE DropMeta(p)
  BY <1>9 DEF DropMeta
<1>10. CASE Fetch(p)
  BY <1>10 DEF Fetch
<1>11. CASE FallBack(p)
  <2> HIDE DEF TypeOK, Places, KeptDated, Dated, UsedWasServed
  <2>1. /\ served' = served /\ now' = now
        /\ \A q \in Procs :
              used'[q] # used[q] => used'[q].doc = cached[p].doc /\ cached[p] # None
    BY <1>11 DEF FallBack, TypeOK
  <2>2. cached[p] # None => \E t \in 0 .. now : <<cached[p].doc, t>> \in served
    <3>1. cached[p] # None => cached[p] \in Metas /\ cached[p].at \in Nat
      BY DEF TypeOK, Metas
    <3>2. cached[p] # None => \E t \in cached[p].at .. now : <<cached[p].doc, t>> \in served
      BY DEF KeptDated, Dated
    <3> QED BY <3>1, <3>2
  <2> QED BY <2>1, <2>2 DEF UsedWasServed
<1>12. CASE OpenData(p)
  BY <1>12 DEF OpenData
<1>13. CASE WriteData(p)
  BY <1>13 DEF WriteData, Written
<1>14. CASE OpenMeta(p)
  BY <1>14 DEF OpenMeta
<1>15. CASE WriteMeta(p)
  BY <1>15 DEF WriteMeta, Written, Goes
<1>16. CASE PutFails(p)
  <2> HIDE DEF TypeOK, Places, KeptDated, Dated, UsedWasServed
  <2>1. /\ served' = served /\ now' = now /\ fetched[p] # None
        /\ \A q \in Procs : used'[q] # used[q] => used'[q].doc = fetched[p]
    BY <1>16 DEF PutFails, Goes, TypeOK, Places
  <2>2. \E t \in 0 .. now : <<fetched[p], t>> \in served
    <3>1. clock[p] \in Nat
      BY DEF TypeOK
    <3>2. \E t \in clock[p] .. now : <<fetched[p], t>> \in served
      BY <2>1 DEF KeptDated, Dated
    <3> QED BY <3>1, <3>2
  <2> QED BY <2>1, <2>2 DEF UsedWasServed
<1>17. CASE Kill(p)
  BY <1>17 DEF Kill
<1>18. CASE Oversized(p)
  BY <1>18 DEF Oversized
<1> QED
  BY <1>1, <1>2, <1>3, <1>4, <1>5, <1>6, <1>7, <1>8, <1>9, <1>10, <1>11, <1>12, <1>13, <1>14, <1>15, <1>16, <1>17, <1>18
  DEF Step

LEMMA RecentStep ==
    ASSUME TypeOK, Places, KeptDated, FreshMeansRecent, NEW p \in Procs, Step(p) \/ Kill(p) PROVE FreshMeansRecent'
<1> USE MarksAssumption DEF TypeOK, Places, KeptDated, FreshMeansRecent, Fresh, Storing, Ended, Dated, To, world, files, locals, history, Unlinked
<1>1. CASE Begin(p)
  BY <1>1 DEF Begin, Listed
<1>2. CASE CheckData(p)
  BY <1>2 DEF CheckData
<1>3. CASE UnlinkData(p)
  BY <1>3 DEF UnlinkData, Evicted
<1>4. CASE CheckMeta(p)
  BY <1>4 DEF CheckMeta, Evicted
<1>5. CASE UnlinkMeta(p)
  BY <1>5 DEF UnlinkMeta, Evicted
<1>6. CASE ReadData(p)
  BY <1>6 DEF ReadData
<1>7. CASE ReadMeta(p)
  <2> HIDE DEF TypeOK, Places, KeptDated, Dated, FreshMeansRecent, Fresh
  <2>1. /\ served' = served /\ now' = now /\ clock' = clock /\ ttl' = ttl
        /\ \A q \in Procs :
              used'[q] # used[q] =>
                  /\ q = p /\ used'[q].doc = meta.doc
                  /\ meta \in Metas /\ Fresh(meta, clock[p])
    BY <1>7 DEF ReadMeta, TypeOK
  <2>2. ASSUME meta \in Metas, Fresh(meta, clock[p])
        PROVE  \E t \in 0 .. now :
                   <<meta.doc, t>> \in served /\ Fresh([at |-> t], clock[p])
    <3>1. PICK t \in meta.at .. now : <<meta.doc, t>> \in served
      BY <2>2 DEF KeptDated, Dated
    <3>2. t \in 0 .. now /\ Fresh([at |-> t], clock[p])
      BY <2>2, <3>1 DEF Metas, Fresh, TypeOK
    <3> QED BY <3>1, <3>2
  <2> QED BY <2>1, <2>2 DEF FreshMeansRecent, Fresh
<1>8. CASE DropData(p)
  BY <1>8 DEF DropData
<1>9. CASE DropMeta(p)
  BY <1>9 DEF DropMeta
<1>10. CASE Fetch(p)
  BY <1>10 DEF Fetch
<1>11. CASE FallBack(p)
  BY <1>11 DEF FallBack
<1>12. CASE OpenData(p)
  BY <1>12 DEF OpenData
<1>13. CASE WriteData(p)
  BY <1>13 DEF WriteData, Written
<1>14. CASE OpenMeta(p)
  BY <1>14 DEF OpenMeta
<1>15. CASE WriteMeta(p)
  BY <1>15 DEF WriteMeta, Written, Goes
<1>16. CASE PutFails(p)
  BY <1>16 DEF PutFails, Goes
<1>17. CASE Kill(p)
  BY <1>17 DEF Kill
<1>18. CASE Oversized(p)
  BY <1>18 DEF Oversized
<1> QED
  BY <1>1, <1>2, <1>3, <1>4, <1>5, <1>6, <1>7, <1>8, <1>9, <1>10, <1>11, <1>12, <1>13, <1>14, <1>15, <1>16, <1>17, <1>18
  DEF Step

LEMMA RefreshStep ==
    ASSUME TypeOK, Places, Purged, RefreshRefetches, NEW p \in Procs, Step(p) \/ Kill(p) PROVE RefreshRefetches'
<1> USE MarksAssumption DEF TypeOK, Places, Purged, RefreshRefetches, FromCache, Storing, Ended, Metas, To, world, files, locals, history, Unlinked
<1>1. CASE Begin(p)
  BY <1>1 DEF Begin, Listed
<1>2. CASE CheckData(p)
  BY <1>2 DEF CheckData
<1>3. CASE UnlinkData(p)
  BY <1>3 DEF UnlinkData, Evicted
<1>4. CASE CheckMeta(p)
  BY <1>4 DEF CheckMeta, Evicted
<1>5. CASE UnlinkMeta(p)
  BY <1>5 DEF UnlinkMeta, Evicted
<1>6. CASE ReadData(p)
  BY <1>6 DEF ReadData
<1>7. CASE ReadMeta(p)
  BY <1>7 DEF ReadMeta
<1>8. CASE DropData(p)
  BY <1>8 DEF DropData
<1>9. CASE DropMeta(p)
  BY <1>9 DEF DropMeta
<1>10. CASE Fetch(p)
  BY <1>10 DEF Fetch
<1>11. CASE FallBack(p)
  BY <1>11 DEF FallBack
<1>12. CASE OpenData(p)
  BY <1>12 DEF OpenData
<1>13. CASE WriteData(p)
  BY <1>13 DEF WriteData, Written
<1>14. CASE OpenMeta(p)
  BY <1>14 DEF OpenMeta
<1>15. CASE WriteMeta(p)
  BY <1>15 DEF WriteMeta, Written, Goes
<1>16. CASE PutFails(p)
  BY <1>16 DEF PutFails, Goes
<1>17. CASE Kill(p)
  BY <1>17 DEF Kill
<1>18. CASE Oversized(p)
  BY <1>18 DEF Oversized
<1> QED
  BY <1>1, <1>2, <1>3, <1>4, <1>5, <1>6, <1>7, <1>8, <1>9, <1>10, <1>11, <1>12, <1>13, <1>14, <1>15, <1>16, <1>17, <1>18
  DEF Step

IInv ==
    /\ TypeOK /\ Places /\ KeptDated /\ Purged
    /\ UsedWasServed /\ FreshMeansRecent /\ RefreshRefetches

LEMMA InitialState == Init => IInv
BY JobsAssumption, TtlsAssumption, MaxTimeAssumption, MarksAssumption
   DEF Init, IInv, TypeOK, Places, KeptDated, Dated, Purged, UsedWasServed, FreshMeansRecent,
       RefreshRefetches, FromCache, Labels, Storing, Ended, Metas

LEMMA TickKeeps ==
    ASSUME IInv, Tick PROVE IInv'
<1> USE DEF IInv, Tick, files, locals, history, world
<1>1. now \in Nat /\ now' = now + 1 /\ UNCHANGED <<job, ttl, pc, data, meta, linked>>
  BY MaxTimeAssumption DEF TypeOK
<1>2. \A n \in Nat : n .. now \subseteq n .. now'
  BY <1>1
<1>3. TypeOK'
  BY MaxTimeAssumption DEF TypeOK
<1>4. (Places /\ Purged)'
  BY <1>1 DEF Places, Purged, TypeOK
<1>5. KeptDated'
  <2>1. /\ meta \in Metas => meta.at \in Nat
        /\ \A p \in Procs : cached[p] # None => cached[p].at \in Nat
        /\ \A p \in Procs : clock[p] \in Nat
    BY DEF TypeOK, Metas
  <2>2. UNCHANGED <<meta, cached, fetched, clock, served>> /\ Metas' = Metas
    BY DEF Metas
  <2> HIDE DEF IInv, Tick
  <2>3. KeptDated
    BY DEF IInv
  <2> QED BY <1>2, <2>1, <2>2, <2>3 DEF KeptDated, Dated
<1>6. (UsedWasServed /\ FreshMeansRecent)'
  BY <1>2 DEF UsedWasServed, FreshMeansRecent, Fresh
<1>7. RefreshRefetches'
  BY <1>1 DEF RefreshRefetches, FromCache
<1> QED BY <1>3, <1>4, <1>5, <1>6, <1>7

(* Interleaved in any way, and killed anywhere (cache.rs:62-104).           *)
THEOREM CacheInvariant == Spec => []IInv
<1>1. ASSUME IInv, [Next]_vars PROVE IInv'
  <2>1. CASE UNCHANGED vars
    BY <1>1, <2>1
       DEF vars, world, files, locals, history, IInv, TypeOK, Places, KeptDated, Dated, Purged,
           UsedWasServed, FreshMeansRecent, Fresh, RefreshRefetches, FromCache
  <2>2. ASSUME NEW p \in Procs, Step(p) \/ Kill(p) PROVE IInv'
    BY <1>1, <2>2, TypeStep, PlacesStep, DatedStep, PurgedStep, ServedStep, RecentStep,
       RefreshStep
       DEF IInv
  <2>3. CASE Tick
    BY <1>1, <2>3, TickKeeps
  <2> QED BY <1>1, <2>1, <2>2, <2>3 DEF Next
<1> QED BY InitialState, <1>1, PTL DEF Spec

(* The variables keep their types.                                          *)
THEOREM CacheTypes == Spec => []TypeOK
<1>1. IInv => TypeOK
  BY DEF IInv
<1> QED BY <1>1, CacheInvariant, PTL

(* cache.rs:66-71: no torn or mixed entry is ever used.                     *)
THEOREM OnlyServedIsUsed == Spec => []UsedWasServed
<1>1. IInv => UsedWasServed
  BY DEF IInv
<1> QED BY <1>1, CacheInvariant, PTL

(* cache.rs:72-75: an entry taken for fresh is fresh.                       *)
THEOREM FreshIsRecent == Spec => []FreshMeansRecent
<1>1. IInv => FreshMeansRecent
  BY DEF IInv
<1> QED BY <1>1, CacheInvariant, PTL

(* ctx.rs:115: --refresh answers from the cache only with what is newer, or  *)
(* with what it could not remove.                                           *)
THEOREM RefreshFetches == Spec => []RefreshRefetches
<1>1. IInv => RefreshRefetches
  BY DEF IInv
<1> QED BY <1>1, CacheInvariant, PTL
=============================================================================
