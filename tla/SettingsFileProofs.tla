-------------------------- MODULE SettingsFileProofs --------------------------
(* The settings files of any number of commands and daemons, that overlap   *)
(* and are killed anywhere: nobody works with a document no file has said,  *)
(* and nothing is trusted that no user has pinned.                          *)
(*                                                                         *)
(* The argument: a readable file says something it has held before, made of *)
(* entries users have asked for (Stored); so does what a command has read   *)
(* of it (Known), and so does what it writes (Drafted), as a change only    *)
(* adds what its user has asked for. That a command has read all the files  *)
(* before it changes one is Progress.                                       *)
(*                                                                         *)
(* At the end, that the trust store of commands that do not overlap is one  *)
(* register (SettingsRegister): TrustStoreIsARegister.                      *)
EXTENDS SettingsFile, FiniteSetTheorems, TLAPS

Maps ==
    /\ file = [f \in Files |-> file[f]]
    /\ held = [f \in Files |-> held[f]]
    /\ asked = [f \in Files |-> asked[f]]
    /\ loaded = [p \in Procs |-> [f \in Files |-> loaded[p][f]]]
    /\ draft = [p \in Procs |-> draft[p]]

Stored ==
    \A f \in Files : Readable(file[f]) =>
        Says(file[f]) \in held[f] /\ Says(file[f]) \subseteq asked[f]

Known ==
    \A p \in Procs, f \in Files : loaded[p][f] # None =>
        loaded[p][f] \in held[f] /\ loaded[p][f] \subseteq asked[f]

Drafted ==
    \A p \in Procs : pc[p] = "writing" =>
        draft[p] \in Documents(Edited(p)) /\ draft[p] \subseteq asked[Edited(p)]

ReadingOf(p) == {{}, {Order(p)[1]}, {Order(p)[1], Order(p)[2]}}

Progress ==
    \A p \in Procs :
        /\ pc[p] = "idle" => Read(p) = {}
        /\ pc[p] = "loading" => Read(p) \in ReadingOf(p)
        /\ pc[p] \in {"reloading", "ready", "writing"} => Read(p) = Files

IInv == TypeOK /\ Maps /\ Stored /\ Known /\ Drafted /\ Progress

-----------------------------------------------------------------------------
(* Order: the file a command reads next is one it has not read, and after   *)
(* the third it has read them all.                                          *)
LEMMA NextIsUnread ==
    ASSUME NEW p \in Procs, Read(p) \in ReadingOf(p)
    PROVE  /\ NextFile(p) \in Files \ Read(p)
           /\ Cardinality(Files) = 3
           /\ IF Cardinality(Read(p)) + 1 < Cardinality(Files)
              THEN Read(p) \cup {NextFile(p)} \in ReadingOf(p)
              ELSE Read(p) \cup {NextFile(p)} = Files
<1> DEFINE a == Order(p)[1]
           b == Order(p)[2]
           c == Order(p)[3]
<1>1. /\ {a, b, c} = Files
      /\ a # b /\ b # c /\ a # c
  BY DEF Order, Files
<1> HIDE DEF a, b, c
<1>2. /\ IsFiniteSet({}) /\ Cardinality({}) = 0
      /\ IsFiniteSet({a}) /\ Cardinality({a}) = 1
  BY FS_EmptySet, FS_Singleton
<1>3. IsFiniteSet({a, b}) /\ Cardinality({a, b}) = 2
  <2>1. {a} \cup {b} = {a, b} /\ b \notin {a}
    BY <1>1
  <2> QED BY <1>2, <2>1, FS_AddElement
<1>4. Cardinality(Files) = 3
  <2>1. {a, b} \cup {c} = Files /\ c \notin {a, b}
    BY <1>1
  <2>2. Cardinality({a, b} \cup {c}) = Cardinality({a, b}) + 1
    BY <1>3, <2>1, FS_AddElement
  <2> QED BY <1>3, <2>1, <2>2
<1>5. Read(p) \in {{}, {a}, {a, b}}
  BY DEF ReadingOf, a, b
<1>6. NextFile(p) = Order(p)[Cardinality(Read(p)) + 1]
  BY DEF NextFile
<1>7. ReadingOf(p) = {{}, {a}, {a, b}}
  BY DEF ReadingOf, a, b
<1>8. CASE Read(p) = {}
  <2>1. NextFile(p) = a
    BY <1>2, <1>6, <1>8 DEF a
  <2> QED BY <2>1, <1>1, <1>2, <1>4, <1>7, <1>8
<1>9. CASE Read(p) = {a}
  <2>1. NextFile(p) = b
    BY <1>2, <1>6, <1>9 DEF b
  <2> QED BY <2>1, <1>1, <1>2, <1>4, <1>7, <1>9
<1>10. CASE Read(p) = {a, b}
  <2>1. NextFile(p) = c
    BY <1>3, <1>6, <1>10 DEF c
  <2> QED BY <2>1, <1>1, <1>3, <1>4, <1>10
<1> QED BY <1>5, <1>8, <1>9, <1>10

(* What a file says is one of its documents.                                *)
LEMMA SaysDocument ==
    ASSUME NEW f \in Files, NEW content \in Contents(f), Readable(content)
    PROVE  Says(content) \in Documents(f) /\ Says(content) # None
BY ContentsAssumption DEF Contents, Readable, Says, Documents

LEMMA EditedFile ==
    ASSUME NEW p \in Procs
    PROVE  Edited(p) \in Files
BY DEF Edited, Files

-----------------------------------------------------------------------------
LEMMA InitIInv == Init => IInv
<1> SUFFICES ASSUME Init PROVE IInv
  OBVIOUS
<1>0. /\ file = [f \in Files |-> file[f]]
      /\ \A f \in Files : file[f] \in Contents(f)
  BY StartsAssumption DEF Init
<1>1. Maps
  BY <1>0 DEF Init, Maps, Unloaded
<1>2. TypeOK
  <2>1. \A f \in Files : Readable(file[f]) =>
            Says(file[f]) \in Documents(f) /\ Says(file[f]) \subseteq Entries[f]
    BY <1>0, SaysDocument DEF Documents
  <2>2. \A f \in Files : /\ file[f] \in Contents(f)
                         /\ held[f] \subseteq Documents(f)
                         /\ asked[f] \subseteq Entries[f]
    BY <1>0, <2>1 DEF Init
  <2>3. /\ \A p \in Procs : job[p] \in Jobs[p]
        /\ alone \in BOOLEAN /\ pc \in [Procs -> Labels]
        /\ edits \in 0 .. MaxEdits /\ kills \in 0 .. MaxKills
    BY StartsAssumption DEF Init, Labels
  <2>4. \A p \in Procs : /\ \A f \in Files : loaded[p][f] = None
                         /\ draft[p] = None
    BY DEF Init, Unloaded
  <2> QED BY <2>2, <2>3, <2>4 DEF TypeOK
<1>3. Stored /\ Known /\ Drafted
  BY DEF Init, Stored, Known, Drafted, Unloaded
<1>4. Progress
  BY DEF Init, Progress, Read, Unloaded
<1> QED BY <1>1, <1>2, <1>3, <1>4 DEF IInv

-----------------------------------------------------------------------------
(* A step that moves a command on without reading or writing anything.      *)
LEMMA PlainStep ==
    ASSUME IInv, NEW p \in Procs, NEW label \in Labels, To(p, label),
           UNCHANGED <<job, alone, file, loaded, draft, edits, history>>,
           kills' \in 0 .. MaxKills,
           \/ label \in {"done", "failed", "killed"}
           \/ label = "loading" /\ pc[p] = "idle"
    PROVE  IInv'
<1>1. TypeOK'
  BY DEF IInv, TypeOK, To, history, Documents, Contents, Edited
<1>2. Maps' /\ Stored' /\ Known'
  BY DEF IInv, Maps, Stored, Known, Readable, Says, history
<1>3. Drafted'
  BY DEF IInv, TypeOK, Drafted, Documents, Edited, To, history
<1>4. Progress'
  BY DEF IInv, TypeOK, Progress, Read, ReadingOf, Order, To
<1> QED BY <1>1, <1>2, <1>3, <1>4 DEF IInv

(* Load and Reload: one more file has been read.                            *)
LEMMA LoadStep ==
    ASSUME IInv, NEW p \in Procs, NEW f \in Files, NEW label \in Labels,
           Readable(file[f]), To(p, label),
           loaded' = [loaded EXCEPT ![p][f] = Says(file[f])],
           UNCHANGED <<config, file, draft, edits, kills, history>>,
           \/ label = "loading" /\ Read(p) \cup {f} \in ReadingOf(p)
           \/ label \in {"reloading", "ready"} /\ Read(p) \cup {f} = Files
    PROVE  IInv'
<1>0. /\ Says(file[f]) \in Documents(f) /\ Says(file[f]) # None
      /\ Says(file[f]) \in held[f] /\ Says(file[f]) \subseteq asked[f]
  BY SaysDocument DEF IInv, TypeOK, Stored
<1>1. /\ \A q \in Procs : q # p => loaded'[q] = loaded[q]
      /\ loaded'[p][f] = Says(file[f])
      /\ \A g \in Files : g # f => loaded'[p][g] = loaded[p][g]
      /\ loaded' = [q \in Procs |-> [g \in Files |-> loaded'[q][g]]]
  BY DEF IInv, Maps
<1>2. TypeOK'
  BY <1>0, <1>1 DEF IInv, TypeOK, To, config, history, Documents, Contents, Edited
<1>3. Maps'
  BY <1>1 DEF IInv, Maps, history
<1>4. Stored' /\ Known'
  BY <1>0, <1>1 DEF IInv, Stored, Known, Readable, Says, history
<1>5. Drafted'
  BY DEF IInv, TypeOK, Drafted, Documents, Edited, To, config, history
<1>6. Progress'
  <2>1. \A q \in Procs : q # p => Read(q)' = Read(q)
    BY <1>1 DEF Read
  <2>2. Read(p)' = Read(p) \cup {f}
    BY <1>0, <1>1 DEF Read
  <2>3. \A q \in Procs : ReadingOf(q)' = ReadingOf(q)
    BY DEF ReadingOf, Order, config
  <2> QED BY <2>1, <2>2, <2>3 DEF IInv, TypeOK, Progress, To
<1> QED BY <1>2, <1>3, <1>4, <1>5, <1>6 DEF IInv

(* Truncate: the draft is made of what was read and of what is asked for.   *)
LEMMA TruncateStep ==
    ASSUME IInv, NEW p \in Procs, pc[p] = "ready", NEW document, NEW entries,
           document \in Documents(Edited(p)),
           entries \subseteq Entries[Edited(p)],
           document \subseteq loaded[p][Edited(p)] \cup entries,
           Truncate(p, document, entries)
    PROVE  IInv'
<1> DEFINE e == Edited(p)
<1>0. /\ e \in Files /\ loaded[p][e] # None
      /\ loaded[p][e] \subseteq asked[e]
  <2>1. e \in Files
    BY EditedFile
  <2>2. loaded[p][e] # None
    BY <2>1 DEF IInv, Progress, Read
  <2> QED BY <2>1, <2>2 DEF IInv, Known
<1>1. /\ file' = [file EXCEPT ![e] = Empty]
      /\ draft' = [draft EXCEPT ![p] = document]
      /\ asked' = [asked EXCEPT ![e] = @ \cup entries]
      /\ pc' = [pc EXCEPT ![p] = "writing"]
      /\ UNCHANGED <<job, alone, loaded, edits, kills, held>>
  BY DEF Truncate, To, config
<1>2. \A q \in Procs : Edited(q)' = Edited(q)
  BY <1>1 DEF Edited
<1>a. /\ e \in Files
      /\ document \in Documents(e) /\ entries \subseteq Entries[e]
      /\ document \subseteq asked[e] \cup entries
      /\ Edited(p) = e
  BY <1>0
<1> HIDE DEF e
<1>3. TypeOK'
  <2>1. \A f \in Files : asked'[f] \subseteq Entries[f] /\ file'[f] \in Contents(f)
    BY <1>1, <1>a DEF IInv, TypeOK, Maps, Contents
  <2>2. \A q \in Procs : draft'[q] \in Documents(Edited(q)) \cup {None}
    BY <1>1, <1>a DEF IInv, TypeOK, Maps
  <2> QED BY <1>1, <1>2, <2>1, <2>2 DEF IInv, TypeOK, Labels, Documents, Contents
<1>4. Maps'
  BY <1>1 DEF IInv, Maps
<1>5. \A f \in Files : asked[f] \subseteq asked'[f]
  BY <1>1 DEF IInv, Maps
<1>6. Stored'
  BY <1>1, <1>5 DEF IInv, Maps, Stored, Readable, Says
<1>7. Known'
  BY <1>1, <1>5 DEF IInv, Known
<1>8. Drafted'
  <2>1. document \subseteq asked'[e]
    BY <1>1, <1>a DEF IInv, Maps
  <2>2. /\ draft'[p] = document
        /\ \A q \in Procs : q # p => draft'[q] = draft[q] /\ pc'[q] = pc[q]
    BY <1>1 DEF IInv, Maps, TypeOK
  <2> QED BY <1>a, <1>2, <1>5, <2>1, <2>2, EditedFile DEF IInv, Drafted, Documents
<1>9. Progress'
  BY <1>1 DEF IInv, TypeOK, Progress, Read, ReadingOf, Order
<1> QED BY <1>3, <1>4, <1>6, <1>7, <1>8, <1>9 DEF IInv

(* The four commands that edit.                                             *)
LEMMA ChangeStep ==
    ASSUME IInv, NEW p \in Procs, Pin(p) \/ Unpin(p) \/ SetHandler(p) \/ Unregister(p)
    PROVE  IInv'
<1> DEFINE j == job[p]
<1>0. /\ j \in Jobs[p]
      /\ pc[p] = "ready"
      /\ \A f \in Files : loaded[p][f] \in Documents(f)
  BY DEF IInv, TypeOK, Progress, Read, Pin, Unpin, SetHandler, Unregister
<1>1. /\ Entries["trust"] = Pairs /\ Entries["handlers"] = Kinds \X Programs
      /\ "trust" \in Files /\ "handlers" \in Files
  BY DEF Entries, Files
<1>2. CASE Pin(p)
  <2>1. Edited(p) = "trust"
    BY <1>2 DEF Pin, Edited
  <2>2. <<Canonical[j.at], IdOf[j.value]>> \in Pairs
    BY <1>0, <1>2, JobsAssumption, KeysAssumption DEF Pin, Pairs
  <2> DEFINE doc == Pinned(loaded[p]["trust"], j.at, j.value)
             pin == {<<Canonical[j.at], IdOf[j.value]>>}
  <2>3. /\ doc \in Documents(Edited(p)) /\ pin \subseteq Entries[Edited(p)]
        /\ doc \subseteq loaded[p][Edited(p)] \cup pin
    BY <1>0, <1>1, <2>1, <2>2 DEF Pinned, Documents
  <2>4. Truncate(p, doc, pin)
    BY <1>2 DEF Pin
  <2> HIDE DEF doc, pin
  <2> QED BY <1>0, <2>3, <2>4, TruncateStep
<1>3. CASE Unpin(p)
  <2>1. Edited(p) = "trust"
    BY <1>3 DEF Unpin, Edited
  <2> DEFINE doc == Unpinned(loaded[p]["trust"], j.at, j.value)
  <2>2. doc \in Documents(Edited(p)) /\ doc \subseteq loaded[p][Edited(p)] \cup {}
    BY <1>0, <1>1, <2>1 DEF Unpinned, Documents
  <2>3. Truncate(p, doc, {})
    BY <1>3 DEF Unpin
  <2> HIDE DEF doc
  <2> QED BY <1>0, <2>2, <2>3, TruncateStep
<1>4. CASE SetHandler(p)
  <2>1. Edited(p) = "handlers"
    BY <1>4 DEF SetHandler, Edited
  <2>2. <<j.at, j.value>> \in Kinds \X Programs
    BY <1>0, <1>4, JobsAssumption DEF SetHandler
  <2> DEFINE set == {<<j.at, j.value>>}
             doc == Without(loaded[p]["handlers"], j.at) \cup set
  <2>3. /\ doc \in Documents(Edited(p)) /\ set \subseteq Entries[Edited(p)]
        /\ doc \subseteq loaded[p][Edited(p)] \cup set
    BY <1>0, <1>1, <2>1, <2>2 DEF Without, Documents
  <2>4. Truncate(p, doc, set)
    BY <1>4 DEF SetHandler
  <2> HIDE DEF doc, set
  <2> QED BY <1>0, <2>3, <2>4, TruncateStep
<1>5. CASE Unregister(p)
  <2>1. Edited(p) = "handlers"
    BY <1>5 DEF Unregister, Edited
  <2> DEFINE doc == Without(loaded[p]["handlers"], j.at)
  <2>2. doc \in Documents(Edited(p)) /\ doc \subseteq loaded[p][Edited(p)] \cup {}
    BY <1>0, <1>1, <2>1 DEF Without, Documents
  <2>3. Truncate(p, doc, {})
    BY <1>5 DEF Unregister
  <2> HIDE DEF doc
  <2> QED BY <1>0, <2>2, <2>3, TruncateStep
<1> QED BY <1>2, <1>3, <1>4, <1>5

(* The second half of a write.                                              *)
LEMMA WriteStep == ASSUME IInv, NEW p \in Procs, Write(p) PROVE IInv'
<1> DEFINE e == Edited(p)
<1>0. /\ e \in Files
      /\ draft[p] \in Documents(e) /\ draft[p] \subseteq asked[e]
      /\ draft[p] \notin {None, Empty, Torn}
  BY EditedFile, ContentsAssumption DEF IInv, Drafted, Write
<1>1. PICK c \in {draft[p], Torn} : file' = [file EXCEPT ![e] = c]
  BY DEF Write, Written
<1>2. /\ pc' = [pc EXCEPT ![p] = "done"]
      /\ UNCHANGED <<job, alone, loaded, draft, edits, kills, asked>>
      /\ held' = [held EXCEPT ![e] = IF Readable(file'[e]) THEN @ \cup {file'[e]} ELSE @]
  BY DEF Write, To, config
<1>3. \A q \in Procs : Edited(q)' = Edited(q)
  BY <1>2 DEF Edited
<1>4. file'[e] = c /\ \A f \in Files : f # e => file'[f] = file[f]
  BY <1>0, <1>1 DEF IInv, Maps
<1> HIDE DEF e
<1>5. /\ \A f \in Files : held[f] \subseteq held'[f]
      /\ \A f \in Files : f # e => held'[f] = held[f]
      /\ c # Torn => held'[e] = held[e] \cup {c}
      /\ c = Torn => held'[e] = held[e]
  BY <1>0, <1>2, <1>4 DEF IInv, Maps, Readable
<1>6. TypeOK'
  <2>1. \A f \in Files : file'[f] \in Contents(f) /\ held'[f] \subseteq Documents(f)
    BY <1>0, <1>1, <1>4, <1>5 DEF IInv, TypeOK, Contents
  <2> QED BY <1>2, <1>3, <2>1 DEF IInv, TypeOK, Labels, Documents, Contents
<1>7. Maps'
  BY <1>1, <1>2 DEF IInv, Maps
<1>8. Stored'
  <2>1. Readable(c) => c \in held'[e] /\ c \subseteq asked[e] /\ c # None
    BY <1>0, <1>1, <1>5 DEF Readable
  <2> QED BY <1>2, <1>4, <1>5, <2>1 DEF IInv, Stored, Readable, Says
<1>9. Known'
  BY <1>2, <1>5 DEF IInv, Known
<1>10. Drafted'
  BY <1>2, <1>3 DEF IInv, TypeOK, Drafted, Documents
<1>11. Progress'
  BY <1>2 DEF IInv, TypeOK, Progress, Read, ReadingOf, Order
<1> QED BY <1>6, <1>7, <1>8, <1>9, <1>10, <1>11 DEF IInv

(* A write that fails and a command that is killed.                         *)
LEMMA InterruptedStep ==
    ASSUME IInv, NEW p \in Procs, WriteFails(p) \/ Kill(p)
    PROVE  IInv'
<1> DEFINE e == Edited(p)
<1>0. e \in Files
  BY EditedFile
<1>1. PICK label \in {"failed", "killed"} : To(p, label)
  BY DEF WriteFails, Kill
<1>2. /\ UNCHANGED <<job, alone, loaded, draft, edits, held, asked>>
      /\ kills' \in 0 .. MaxKills
      /\ file' \in {file, [file EXCEPT ![e] = Torn]}
  BY StartsAssumption DEF WriteFails, Kill, Interrupted, IInv, TypeOK, config, history
<1>3. CASE file' = file
  BY <1>1, <1>2, <1>3, PlainStep DEF Labels, history
<1>4. CASE file' = [file EXCEPT ![e] = Torn]
  <2>1. \A q \in Procs : Edited(q)' = Edited(q)
    BY <1>2 DEF Edited
  <2> HIDE DEF e
  <2>2. \A f \in Files : file'[f] \in {file[f], Torn}
    BY <1>0, <1>4 DEF IInv, Maps
  <2>3. TypeOK'
    BY <1>1, <1>2, <2>1, <2>2 DEF IInv, TypeOK, To, Labels, Documents, Contents
  <2>4. Maps'
    BY <1>2, <1>4 DEF IInv, Maps
  <2>5. Stored' /\ Known'
    BY <1>2, <2>2 DEF IInv, Stored, Known, Readable, Says
  <2>6. Drafted'
    BY <1>1, <1>2, <2>1 DEF IInv, TypeOK, Drafted, Documents, To
  <2>7. Progress'
    BY <1>1, <1>2 DEF IInv, TypeOK, Progress, Read, ReadingOf, Order, To
  <2> QED BY <2>3, <2>4, <2>5, <2>6, <2>7 DEF IInv
<1> QED BY <1>2, <1>3, <1>4

LEMMA RestartStep == ASSUME IInv, NEW p \in Procs, Restart(p) PROVE IInv'
<1>1. /\ \A q \in Procs : q # p => loaded'[q] = loaded[q]
      /\ \A f \in Files : loaded'[p][f] = None
      /\ loaded' = [q \in Procs |-> [g \in Files |-> loaded'[q][g]]]
  BY DEF Restart, IInv, Maps, Unloaded
<1>2. TypeOK'
  BY <1>1 DEF Restart, IInv, TypeOK, To, Labels, config, history, Documents, Contents, Edited
<1>3. Maps' /\ Stored'
  BY <1>1 DEF Restart, IInv, Maps, Stored, Readable, Says, history
<1>4. Known'
  BY <1>1 DEF Restart, IInv, Known, history
<1>5. Drafted'
  BY DEF Restart, IInv, TypeOK, Drafted, Documents, Edited, To, config, history
<1>6. Progress'
  <2>1. Read(p)' = {} /\ \A q \in Procs : q # p => Read(q)' = Read(q)
    BY <1>1 DEF Read
  <2> QED BY <2>1 DEF Restart, IInv, TypeOK, Progress, ReadingOf, Order, To, config
<1> QED BY <1>2, <1>3, <1>4, <1>5, <1>6 DEF IInv

(* A file written by hand.                                                  *)
LEMMA EditStep ==
    ASSUME IInv, NEW f \in Files, NEW content \in Contents(f), Edit(f, content)
    PROVE  IInv'
<1>0. Readable(content) => Says(content) \in Documents(f)
  BY SaysDocument
<1>1. /\ file' = [file EXCEPT ![f] = content]
      /\ UNCHANGED <<job, alone, pc, loaded, draft, kills>>
      /\ edits' \in 0 .. MaxEdits
  BY StartsAssumption DEF Edit, IInv, TypeOK, config
<1>2. /\ DOMAIN held' = Files /\ DOMAIN asked' = Files
      /\ held' = [g \in Files |-> held'[g]] /\ asked' = [g \in Files |-> asked'[g]]
      /\ \A g \in Files : held[g] \subseteq held'[g] /\ asked[g] \subseteq asked'[g]
      /\ \A g \in Files : g # f => held'[g] = held[g] /\ asked'[g] = asked[g]
      /\ IF Readable(content)
         THEN held'[f] = held[f] \cup {Says(content)} /\ asked'[f] = asked[f] \cup Says(content)
         ELSE held'[f] = held[f] /\ asked'[f] = asked[f]
  <2>1. CASE Readable(content)
    <3>1. /\ held' = [held EXCEPT ![f] = @ \cup {Says(content)}]
          /\ asked' = [asked EXCEPT ![f] = @ \cup Says(content)]
      BY <2>1 DEF Edit
    <3> QED BY <2>1, <3>1 DEF IInv, Maps
  <2>2. CASE ~Readable(content)
    <3>1. UNCHANGED <<held, asked>>
      BY <2>2 DEF Edit, history
    <3> QED BY <2>2, <3>1 DEF IInv, Maps
  <2> QED BY <2>1, <2>2
<1>3. file'[f] = content /\ \A g \in Files : g # f => file'[g] = file[g]
  BY <1>1 DEF IInv, Maps
<1>4. TypeOK'
  <2>1. \A g \in Files : /\ file'[g] \in Contents(g) /\ held'[g] \subseteq Documents(g)
                         /\ asked'[g] \subseteq Entries[g]
    BY <1>0, <1>2, <1>3 DEF IInv, TypeOK, Documents
  <2> QED BY <1>1, <2>1 DEF IInv, TypeOK, Documents, Contents, Edited
<1>5. Maps'
  BY <1>1, <1>2 DEF IInv, Maps
<1>6. Stored'
  BY <1>2, <1>3 DEF IInv, Stored, Readable, Says
<1>7. Known'
  BY <1>1, <1>2 DEF IInv, Known
<1>8. Drafted'
  <2>1. \A q \in Procs : Edited(q)' = Edited(q)
    BY <1>1 DEF Edited
  <2> QED BY <1>1, <1>2, <2>1, EditedFile DEF IInv, Drafted, Documents
<1>9. Progress'
  BY <1>1 DEF IInv, Progress, Read, ReadingOf, Order
<1> QED BY <1>4, <1>5, <1>6, <1>7, <1>8, <1>9 DEF IInv

-----------------------------------------------------------------------------
(* The invariant the properties of the settings files rest on.              *)
THEOREM Invariance == Spec => []IInv
<1>1. ASSUME IInv, [Next]_vars PROVE IInv'
  <2>1. ASSUME NEW p \in Procs, Step(p) PROVE IInv'
    <3>1. CASE Begin(p)
      BY <1>1, <3>1, PlainStep DEF Begin, Labels, config, IInv, TypeOK
    <3>2. CASE Load(p)
      <4>1. pc[p] = "loading" /\ Read(p) \in ReadingOf(p)
        BY <1>1, <3>2 DEF Load, IInv, Progress
      <4>2. NextFile(p) \in Files
        BY <4>1, NextIsUnread
      <4>3. CASE Cardinality(Read(p)) + 1 < Cardinality(Files)
        <5>1. Read(p) \cup {NextFile(p)} \in ReadingOf(p)
          BY <4>1, <4>3, NextIsUnread
        <5>2. To(p, "loading")
          BY <3>2, <4>3 DEF Load
        <5> QED BY <1>1, <3>2, <4>2, <5>1, <5>2, LoadStep DEF Load, Labels
      <4>4. CASE ~(Cardinality(Read(p)) + 1 < Cardinality(Files))
        <5>1. Read(p) \cup {NextFile(p)} = Files
          BY <4>1, <4>4, NextIsUnread
        <5>2. PICK label \in {"reloading", "ready"} : To(p, label)
          BY <3>2, <4>4 DEF Load
        <5> QED BY <1>1, <3>2, <4>2, <5>1, <5>2, LoadStep DEF Load, Labels
      <4> QED BY <4>3, <4>4
    <3>3. CASE Reload(p)
      <4>1. Read(p) \cup {"handlers"} = Files /\ "handlers" \in Files
        BY <1>1, <3>3 DEF Reload, IInv, Progress, Files
      <4> QED BY <1>1, <3>3, <4>1, LoadStep DEF Reload, Labels
    <3>4. CASE Malformed(p) \/ InputError(p) \/ Refuse(p) \/ Finish(p)
      <4>1. PICK label \in {"failed", "done"} : To(p, label)
        BY <3>4 DEF Malformed, InputError, Refuse, Finish
      <4>2. UNCHANGED <<job, alone, file, loaded, draft, edits, kills, history>>
        BY <3>4 DEF Malformed, InputError, Refuse, Finish, config
      <4> QED BY <1>1, <4>1, <4>2, PlainStep DEF Labels, IInv, TypeOK
    <3> QED BY <1>1, <2>1, <3>1, <3>2, <3>3, <3>4, ChangeStep, WriteStep, InterruptedStep,
               RestartStep DEF Step
  <2>2. CASE UNCHANGED vars
    <3>1. /\ UNCHANGED <<job, alone, file, pc, loaded, draft>>
          /\ UNCHANGED <<edits, kills, held, asked>>
      BY <2>2 DEF vars, config, history
    <3>2. TypeOK'
      BY <1>1, <3>1 DEF IInv, TypeOK, Documents, Contents, Edited
    <3>3. (Maps /\ Stored /\ Known)'
      BY <1>1, <3>1 DEF IInv, Maps, Stored, Known, Readable, Says
    <3>4. (Drafted /\ Progress)'
      BY <1>1, <3>1 DEF IInv, Drafted, Progress, Read, ReadingOf, Order, Documents, Edited
    <3> QED BY <3>2, <3>3, <3>4 DEF IInv
  <2> QED BY <1>1, <2>1, <2>2, EditStep DEF Next
<1> QED BY InitIInv, <1>1, PTL DEF Spec

(* The variables keep their types.                                          *)
THEOREM SettingsTypes == Spec => []TypeOK
<1>1. IInv => TypeOK
  BY DEF IInv
<1> QED BY <1>1, Invariance, PTL

(* UserConfig::load, HandlersFile::load, TrustStore::load: no process works *)
(* with a document its file has never said.                                 *)
THEOREM LoadsFailClosed == Spec => []FailsClosed
<1>1. IInv => FailsClosed
  BY DEF IInv, Known, FailsClosed
<1> QED BY <1>1, Invariance, PTL

(* verify_manifest and is_trusted over the store's history: what is trusted *)
(* was signed by a key a user has pinned for this authority, over this body.*)
THEOREM TrustIsEarned == Spec => []TrustedIsEarned
<1>1. ASSUME IInv PROVE TrustedIsEarned
  <2> SUFFICES ASSUME NEW p \in Procs, pc[p] = "ready", NEW m \in Manifest, NEW a \in Authorities,
                      StatusOf(loaded[p]["trust"], a, m) = "SignedTrusted"
               PROVE  \E k \in Keys : /\ <<a, IdOf[k]>> \in asked["trust"]
                                      /\ m.signature.by = k
                                      /\ m.signature.over = m.body
    BY DEF TrustedIsEarned
  <2>1. /\ m.signature # None /\ Holds(m)
        /\ IsTrusted(loaded[p]["trust"], a, m.signature.keyId)
    BY DEF StatusOf
  <2>2. m.signature.publicKey \in Keys
    BY <2>1 DEF Manifest, Block, Holds
  <2>3. <<a, IdOf[m.signature.publicKey]>> \in loaded[p]["trust"]
    BY <2>1, KeysAssumption DEF IsTrusted, Holds
  <2>4. loaded[p]["trust"] \subseteq asked["trust"]
    BY <1>1 DEF IInv, Progress, Read, Known, Files
  <2> QED BY <2>1, <2>2, <2>3, <2>4 DEF Holds
<1> QED BY <1>1, Invariance, PTL

-----------------------------------------------------------------------------
(* The register. Of commands that do not overlap one edits at a time        *)
(* (Exclusive), so that what it has read is still what the file says, and   *)
(* what it writes is a change of that (InStep).                             *)
Exclusive ==
    alone => \A p, q \in Procs :
        Editor(p) /\ Editor(q) /\ pc[p] \in Active /\ pc[q] \in Active => p = q

EditorsWrite == \A p \in Procs : pc[p] = "writing" => Editor(p)

Change(v, w) == v \subseteq Pairs /\ w \subseteq Pairs /\ (w = v \/ <<v, w>> \in TrustChanges)

Synced(p) ==
    Edited(p) = "trust" /\ pc[p] \in Active =>
        /\ pc[p] # "writing" /\ loaded[p]["trust"] # None =>
              Readable(file["trust"]) /\ loaded[p]["trust"] = Says(file["trust"])
        /\ pc[p] = "writing" =>
              file["trust"] = Empty /\ Change(loaded[p]["trust"], draft[p])

InStep == alone => \A p \in Procs : Synced(p)

SerialInv == IInv /\ Exclusive /\ EditorsWrite /\ InStep

LEMMA JobsStay ==
    ASSUME [Next]_vars
    PROVE  /\ job' = job /\ alone' = alone
           /\ \A p \in Procs : (Editor(p)' <=> Editor(p)) /\ Edited(p)' = Edited(p)
<1>1. job' = job /\ alone' = alone
  BY DEF Next, Step, Edit, Begin, Load, Reload, Malformed, InputError, Pin, Unpin, SetHandler,
         Unregister, Truncate, Refuse, Write, WriteFails, Kill, Finish, Restart, vars, config
<1> QED BY <1>1 DEF Editor, Edited

(* What a process does to the others, and to the files.                     *)
LEMMA OthersStay ==
    ASSUME IInv, NEW p \in Procs, Step(p), NEW q \in Procs, q # p
    PROVE  pc'[q] = pc[q] /\ loaded'[q] = loaded[q] /\ draft'[q] = draft[q]
<1>1. pc \in [Procs -> Labels] /\ Maps
  BY DEF IInv, TypeOK
<1>2. pc'[q] = pc[q]
  BY <1>1
  DEF To, Step, Begin, Load, Reload, Malformed, InputError, Pin, Unpin, SetHandler,
      Unregister, Truncate, Refuse, Write, WriteFails, Kill, Finish, Restart
<1>3. loaded'[q] = loaded[q]
  BY <1>1
  DEF Maps, Step, Begin, Load, Reload, Malformed, InputError, Pin, Unpin, SetHandler,
      Unregister, Truncate, Refuse, Write, WriteFails, Kill, Finish, Restart
<1>4. draft'[q] = draft[q]
  BY <1>1
  DEF Maps, Step, Begin, Load, Reload, Malformed, InputError, Pin, Unpin, SetHandler,
      Unregister, Truncate, Refuse, Write, WriteFails, Kill, Finish, Restart
<1> QED BY <1>2, <1>3, <1>4

LEMMA OneFileChanges ==
    ASSUME IInv, EditorsWrite, NEW p \in Procs, Step(p)
    PROVE  /\ (Editor(p) /\ pc[p] \in Active) \/ file' = file
           /\ Edited(p) # "trust" => file'["trust"] = file["trust"]
<1>1. \/ file' = file
      \/ /\ pc[p] \in {"ready", "writing"} /\ Editor(p)
         /\ \E c : file' = [file EXCEPT ![Edited(p)] = c]
  BY DEF EditorsWrite, Editor, Interrupted, Step, Begin, Load, Reload, Malformed, InputError,
         Pin, Unpin, SetHandler, Unregister, Truncate, Refuse, Write, WriteFails, Kill, Finish,
         Restart
<1>2. \A c : Edited(p) # "trust" => [file EXCEPT ![Edited(p)] = c]["trust"] = file["trust"]
  BY DEF IInv, Maps, Files
<1> QED BY <1>1, <1>2 DEF Active

LEMMA Begins ==
    ASSUME IInv, NEW p \in Procs, Step(p), pc'[p] \in Active
    PROVE  pc[p] \in Active \/ Begin(p)
BY DEF IInv, TypeOK, Active, To, Step, Load, Reload, Malformed, InputError, Pin, Unpin,
       SetHandler, Unregister, Truncate, Refuse, Write, WriteFails, Kill, Finish, Restart

LEMMA ExclusiveStep ==
    ASSUME SerialInv, [Next]_vars
    PROVE  (Exclusive /\ EditorsWrite)'
<1>1. CASE pc' = pc
  BY <1>1, JobsStay DEF SerialInv, Exclusive, EditorsWrite
<1>2. CASE pc' # pc
  <2>1. PICK p \in Procs : Step(p)
    BY <1>2 DEF Next, vars, Edit
  <2>2. \A q \in Procs : q # p => pc'[q] = pc[q]
    BY <2>1, OthersStay DEF SerialInv
  <2>3. alone /\ Editor(p) /\ pc'[p] \in Active =>
            \A q \in Procs : q # p /\ Editor(q) => pc[q] \notin Active
    BY <2>1, Begins DEF SerialInv, Exclusive, Begin
  <2>4. pc'[p] = "writing" => Editor(p)
    BY <2>1
    DEF SerialInv, IInv, TypeOK, EditorsWrite, Editor, To, Step, Begin, Load, Reload, Malformed,
        InputError, Pin, Unpin, SetHandler, Unregister, Truncate, Refuse, Write, WriteFails, Kill,
        Finish, Restart
  <2> QED BY <2>2, <2>3, <2>4, JobsStay DEF SerialInv, Exclusive, EditorsWrite
<1> QED BY <1>1, <1>2

(* A key added, or one taken away, perhaps one that was not there.          *)
LEMMA TrustChange ==
    ASSUME NEW v \in SUBSET Pairs, NEW w,
           (\E e \in Pairs : w = v \cup {e}) \/ (\E e : w = v \ {e})
    PROVE  Change(v, w)
<1>1. CASE \E e \in Pairs : w = v \cup {e}
  BY <1>1 DEF Change, TrustChanges
<1>2. CASE \E e : w = v \ {e}
  <2>1. PICK e : w = v \ {e}
    BY <1>2
  <2>2. CASE e \in Pairs
    BY <2>1, <2>2 DEF Change, TrustChanges
  <2>3. CASE e \notin Pairs
    BY <2>1, <2>3 DEF Change
  <2> QED BY <2>2, <2>3
<1> QED BY <1>1, <1>2

(* The command itself keeps in step with the file.                          *)
LEMMA OwnStep ==
    ASSUME SerialInv, alone, NEW p \in Procs, Step(p),
           Edited(p) = "trust", pc'[p] \in Active
    PROVE  /\ pc'[p] # "writing" /\ loaded'[p]["trust"] # None =>
                 Readable(file'["trust"]) /\ loaded'[p]["trust"] = Says(file'["trust"])
           /\ pc'[p] = "writing" =>
                 file'["trust"] = Empty /\ Change(loaded'[p]["trust"], draft'[p])
<1> DEFINE j == job[p]
<1>1. /\ pc \in [Procs -> Labels] /\ Maps /\ "trust" \in Files
      /\ j \in Jobs[p] /\ j.do \in {"pin", "unpin"} /\ Synced(p)
  BY DEF SerialInv, InStep, IInv, TypeOK, Files, Edited
<1>2. CASE Begin(p)
  <2>1. loaded'[p]["trust"] = None /\ pc'[p] = "loading"
    BY <1>1, <1>2 DEF Begin, To, SerialInv, IInv, Progress, Read
  <2> QED BY <2>1
<1>3. CASE Load(p)
  <2>1. PICK f \in Files : /\ Readable(file[f])
                           /\ loaded' = [loaded EXCEPT ![p][f] = Says(file[f])]
    <3>1. NextFile(p) \in Files
      BY <1>3, NextIsUnread DEF Load, SerialInv, IInv, Progress
    <3> QED BY <1>3, <3>1 DEF Load
  <2>2. loaded'[p]["trust"] = IF f = "trust" THEN Says(file["trust"]) ELSE loaded[p]["trust"]
    BY <1>1, <2>1 DEF Maps
  <2>3. pc[p] = "loading" /\ pc'[p] # "writing" /\ file' = file
    BY <1>1, <1>3 DEF Load, To
  <2> QED BY <1>1, <2>1, <2>2, <2>3 DEF Synced, Active
<1>4. CASE Pin(p) \/ Unpin(p)
  <2>1. /\ pc[p] = "ready" /\ loaded' = loaded /\ pc'[p] = "writing"
        /\ file'["trust"] = Empty
    BY <1>1, <1>4 DEF Pin, Unpin, Truncate, To, Maps
  <2>2. loaded[p]["trust"] \in SUBSET Pairs
    <3>1. loaded[p]["trust"] \in Documents("trust")
      BY <1>1, <2>1 DEF SerialInv, IInv, TypeOK, Progress, Read
    <3> QED BY <3>1 DEF Documents, Entries, Files
  <2>3. CASE Pin(p)
    <3>1. draft'[p] = loaded[p]["trust"] \cup {<<Canonical[j.at], IdOf[j.value]>>}
      BY <1>1, <2>3 DEF Pin, Truncate, Maps, Pinned
    <3>2. <<Canonical[j.at], IdOf[j.value]>> \in Pairs
      BY <1>1, <2>3, JobsAssumption, KeysAssumption DEF Pin, Pairs
    <3> QED BY <2>1, <2>2, <3>1, <3>2, TrustChange
  <2>4. CASE Unpin(p)
    <3>1. draft'[p] = loaded[p]["trust"] \ {<<Canonical[j.at], j.value>>}
      BY <1>1, <2>4 DEF Unpin, Truncate, Maps, Unpinned
    <3> QED BY <2>1, <2>2, <3>1, TrustChange
  <2> QED BY <1>4, <2>3, <2>4
<1>5. CASE Malformed(p) \/ InputError(p) \/ Refuse(p) \/ Write(p) \/ WriteFails(p) \/ Kill(p)
           \/ Finish(p) \/ Restart(p)
  <2>1. pc'[p] \notin Active
    BY <1>1, <1>5
    DEF To, Active, Malformed, InputError, Refuse, Write, WriteFails, Kill, Finish, Restart
  <2> QED BY <2>1
<1>6. CASE Reload(p) \/ SetHandler(p) \/ Unregister(p)
  <2>1. Reload(p)
    BY <1>1, <1>6 DEF SetHandler, Unregister
  <2>2. loaded'[p]["trust"] = loaded[p]["trust"] /\ file' = file
        /\ pc[p] = "reloading" /\ pc'[p] = "ready"
    BY <1>1, <2>1 DEF Reload, Maps, To
  <2> QED BY <1>1, <2>2 DEF Synced, Active
<1> QED BY <1>2, <1>3, <1>4, <1>5, <1>6 DEF Step

LEMMA InStepStep ==
    ASSUME SerialInv, [Next]_vars
    PROVE  InStep'
<1>1. SUFFICES ASSUME alone, NEW q \in Procs, Edited(q) = "trust", pc'[q] \in Active
               PROVE  /\ pc'[q] # "writing" /\ loaded'[q]["trust"] # None =>
                            /\ Readable(file'["trust"])
                            /\ loaded'[q]["trust"] = Says(file'["trust"])
                      /\ pc'[q] = "writing" =>
                            file'["trust"] = Empty /\ Change(loaded'[q]["trust"], draft'[q])
  <2>1. ASSUME NEW q \in Procs
        PROVE  Change(loaded[q]["trust"], draft[q])' = Change(loaded'[q]["trust"], draft'[q])
    BY DEF Change, TrustChanges
  <2> QED BY <2>1, JobsStay DEF InStep, Synced, Readable, Says
<1>2. Synced(q) /\ Editor(q)
  BY <1>1 DEF SerialInv, InStep, Edited, Editor
<1>3. CASE UNCHANGED vars
  BY <1>1, <1>2, <1>3 DEF Synced, vars
<1>4. ASSUME NEW p \in Procs, Step(p), p # q
      PROVE  file' = file
  <2>1. pc[q] \in Active
    BY <1>1, <1>4, OthersStay DEF SerialInv
  <2> QED BY <1>1, <1>2, <1>4, <2>1, OneFileChanges DEF SerialInv, Exclusive
<1>5. ASSUME NEW p \in Procs, Step(p), p # q
      PROVE  pc'[q] = pc[q] /\ loaded'[q] = loaded[q] /\ draft'[q] = draft[q] /\ file' = file
  BY <1>4, <1>5, OthersStay DEF SerialInv
<1>6. ASSUME NEW f \in Files, NEW content \in Contents(f), Edit(f, content)
      PROVE  FALSE
  BY <1>1, <1>2, <1>6 DEF Edit
<1>7. CASE Next
  <2>1. PICK p \in Procs : Step(p)
    BY <1>6, <1>7 DEF Next
  <2>2. CASE p = q
    BY <1>1, <2>1, <2>2, OwnStep
  <2>3. CASE p # q
    BY <1>1, <1>2, <1>5, <2>1, <2>3 DEF Synced
  <2> QED BY <2>2, <2>3
<1> QED BY <1>3, <1>7

(* What the register holds, given who writes, what was read and the file.   *)
Holding(W, l, content) ==
    IF W # {} THEN l[CHOOSE p \in W : TRUE]["trust"]
    ELSE IF Readable(content) THEN Says(content)
    ELSE Torn

LEMMA HoldingNow == Settled = Holding(Writers, loaded, file["trust"])
BY DEF Settled, Holding

LEMMA HoldingWhile == \A p, l, content : Holding({p}, l, content) = l[p]["trust"]
BY DEF Holding

LEMMA HoldingNobody ==
    \A l, content :
        Holding({}, l, content) = IF Readable(content) THEN Says(content) ELSE Torn
BY DEF Holding

(* The commands that write the trust store, by where each process is.       *)
WritersAt(at) == {p \in Procs : at[p] = "writing" /\ Edited(p) = "trust"}

LEMMA WritersNow ==
    ASSUME SerialInv, [Next]_vars
    PROVE  /\ Writers = WritersAt(pc)
           /\ Writers' = WritersAt(pc')
           /\ Settled' = Holding(WritersAt(pc'), loaded', file'["trust"])
<1>1. Writers = WritersAt(pc)
  BY DEF Writers, WritersAt
<1>2. Writers' = WritersAt(pc')
  BY JobsStay DEF Writers, WritersAt
<1>3. Settled' = Holding(Writers', loaded', file'["trust"])
  BY DEF Settled, Holding, Readable, Says
<1> QED BY <1>1, <1>2, <1>3

LEMMA OneWriter ==
    ASSUME SerialInv, alone, NEW p \in Procs, Editor(p), pc[p] \in Active
    PROVE  WritersAt(pc) \subseteq {p}
<1>1. \A q \in WritersAt(pc) : q \in Procs /\ Editor(q) /\ pc[q] \in Active
  BY DEF WritersAt, SerialInv, EditorsWrite, Active
<1> QED BY <1>1 DEF SerialInv, Exclusive

LEMMA ReadableDocument ==
    ASSUME NEW content \in Contents("trust")
    PROVE  (IF Readable(content) THEN Says(content) ELSE Torn) \in (SUBSET Pairs) \cup {Torn}
<1>1. "trust" \in Files /\ Documents("trust") = SUBSET Pairs
  BY DEF Files, Documents, Entries
<1>2. Readable(content) => Says(content) \in Documents("trust")
  BY <1>1, SaysDocument
<1> QED BY <1>1, <1>2

(* Truncating the file changes nothing: the register is what was read.      *)
LEMMA TruncateRegister ==
    ASSUME SerialInv, alone, NEW p \in Procs, Pin(p) \/ Unpin(p)
    PROVE  Settled' = Settled /\ edits' = edits
<1>1. [Next]_vars /\ Step(p)
  BY DEF Next, Step
<1>2. /\ pc[p] = "ready" /\ pc' = [pc EXCEPT ![p] = "writing"]
      /\ UNCHANGED <<loaded, edits>> /\ Edited(p) = "trust" /\ Editor(p)
  BY DEF Pin, Unpin, Truncate, To, Edited, Editor
<1>3. WritersAt(pc) = {} /\ WritersAt(pc') = {p}
  <2>1. WritersAt(pc) = {}
    BY <1>2, OneWriter DEF Active, WritersAt
  <2> QED BY <1>2, <2>1 DEF WritersAt, SerialInv, IInv, TypeOK
<1>4. Readable(file["trust"]) /\ loaded[p]["trust"] = Says(file["trust"])
  BY <1>2 DEF SerialInv, InStep, Synced, Active, IInv, Progress, Read, Files
<1>5. Settled = loaded[p]["trust"]
  BY <1>1, <1>3, <1>4, WritersNow, HoldingNow, HoldingNobody
<1>6. Settled' = loaded[p]["trust"]
  BY <1>1, <1>2, <1>3, WritersNow, HoldingWhile
<1> QED BY <1>2, <1>5, <1>6

(* The second half of the write, or its end without one.                    *)
LEMMA WriteRegister ==
    ASSUME SerialInv, alone, NEW p \in Procs, Step(p),
           pc[p] = "writing", Edited(p) = "trust"
    PROVE  /\ edits' = edits
           /\ Settled' = Torn \/ Change(Settled, Settled')
<1>1. [Next]_vars
  BY DEF Next
<1>2. Write(p) \/ WriteFails(p) \/ Kill(p)
  BY DEF Step, Begin, Load, Reload, Malformed, InputError, Pin, Unpin, SetHandler, Unregister,
         Refuse, Finish, Restart
<1>3. edits' = edits /\ \E label \in {"done", "failed", "killed"} : To(p, label)
  BY <1>2 DEF Write, WriteFails, Kill
<1>4. /\ file["trust"] = Empty /\ Change(loaded[p]["trust"], draft[p])
      /\ Readable(draft[p]) /\ draft[p] # None
  <2>1. draft[p] \in Documents("trust") /\ "trust" \in Files
    BY DEF SerialInv, IInv, Drafted, Files
  <2> QED BY <2>1, ContentsAssumption DEF SerialInv, InStep, Synced, Active, Readable
<1>5. WritersAt(pc) = {p} /\ WritersAt(pc') = {}
  <2>1. WritersAt(pc) = {p}
    BY OneWriter DEF SerialInv, EditorsWrite, Active, WritersAt
  <2>2. \A q \in Procs : pc'[q] = "writing" => pc[q] = "writing" /\ q # p
    BY <1>3 DEF To, SerialInv, IInv, TypeOK
  <2> QED BY <2>1, <2>2 DEF WritersAt
<1>6. Settled = loaded[p]["trust"]
  BY <1>1, <1>5, WritersNow, HoldingNow, HoldingWhile
<1>7. file'["trust"] \in {draft[p], Empty, Torn}
  <2>1. CASE Write(p)
    <3>1. file' = [file EXCEPT !["trust"] = draft[p]]
      BY <1>4, <2>1 DEF Write, Written
    <3> QED BY <3>1 DEF SerialInv, IInv, Maps, Files
  <2>2. CASE Interrupted(p)
    <3>1. file' = file \/ file' = [file EXCEPT !["trust"] = Torn]
      BY <2>2 DEF Interrupted
    <3> QED BY <1>4, <3>1 DEF SerialInv, IInv, Maps, Files
  <2> QED BY <1>2, <2>1, <2>2 DEF WriteFails, Kill
<1>8. Settled' = IF Readable(file'["trust"]) THEN Says(file'["trust"]) ELSE Torn
  BY <1>1, <1>5, WritersNow, HoldingNobody
<1>9. CASE file'["trust"] = draft[p]
  BY <1>3, <1>4, <1>6, <1>8, <1>9 DEF Says
<1>10. CASE file'["trust"] \in {Empty, Torn}
  BY <1>3, <1>8, <1>10 DEF Readable
<1> QED BY <1>7, <1>9, <1>10

(* Every other step of a process leaves the register as it is.              *)
LEMMA OtherRegister ==
    ASSUME SerialInv, alone, NEW p \in Procs, Step(p),
           ~(Pin(p) \/ Unpin(p)), ~(pc[p] = "writing" /\ Edited(p) = "trust")
    PROVE  Settled' = Settled /\ edits' = edits
<1>1. [Next]_vars
  BY DEF Next
<1>2. edits' = edits
  BY DEF Step, Begin, Load, Reload, Malformed, InputError, SetHandler, Unregister, Truncate,
         Refuse, Write, WriteFails, Kill, Finish, Restart
<1>3. file'["trust"] = file["trust"]
  <2>1. CASE Edited(p) # "trust"
    BY <2>1, OneFileChanges DEF SerialInv
  <2>2. CASE Edited(p) = "trust"
    <3>1. file' = file
      BY <2>2
      DEF Edited, Interrupted, Step, Begin, Load, Reload, Malformed, InputError, SetHandler,
          Unregister, Refuse, Write, WriteFails, Kill, Finish, Restart
    <3> QED BY <3>1
  <2> QED BY <2>1, <2>2
<1>4. pc'[p] = "writing" => Edited(p) # "trust"
  BY DEF SerialInv, IInv, TypeOK, To, Edited, Step, Begin, Load, Reload, Malformed, InputError,
         SetHandler, Unregister, Truncate, Refuse, Write, WriteFails, Kill, Finish, Restart
<1>5. \A q \in Procs : q # p => pc'[q] = pc[q] /\ loaded'[q] = loaded[q]
  BY OthersStay DEF SerialInv
<1>6. WritersAt(pc') = WritersAt(pc) /\ p \notin WritersAt(pc)
  BY <1>4, <1>5 DEF WritersAt
<1>7. CASE WritersAt(pc) = {}
  BY <1>1, <1>2, <1>3, <1>6, <1>7, WritersNow, HoldingNow, HoldingNobody
<1>8. CASE WritersAt(pc) # {}
  <2>1. PICK w \in WritersAt(pc) : w \in Procs /\ Editor(w) /\ pc[w] \in Active
    BY <1>8 DEF WritersAt, SerialInv, EditorsWrite, Active
  <2>2. WritersAt(pc) = {w} /\ w # p
    BY <1>6, <2>1, OneWriter
  <2> QED BY <1>1, <1>2, <1>5, <1>6, <2>1, <2>2, WritersNow, HoldingNow, HoldingWhile
<1> QED BY <1>7, <1>8

LEMMA EditRegister ==
    ASSUME SerialInv, alone, NEW f \in Files, NEW content \in Contents(f), Edit(f, content)
    PROVE  edits' = edits + 1 /\ Settled' \in (SUBSET Pairs) \cup {Torn}
<1>1. [Next]_vars
  BY DEF Next
<1>2. WritersAt(pc') = {}
  BY DEF Edit, WritersAt, SerialInv, EditorsWrite, Active
<1>3. file'["trust"] \in Contents("trust")
  BY DEF Edit, SerialInv, IInv, TypeOK, Maps, Files
<1>4. Settled' = IF Readable(file'["trust"]) THEN Says(file'["trust"]) ELSE Torn
  BY <1>1, <1>2, WritersNow, HoldingNobody
<1> QED BY <1>3, <1>4, ReadableDocument DEF Edit

(* trust.rs:315-368: commands that run one after the other change one       *)
(* register, whatever dies and whoever else reads.                          *)
THEOREM TrustStoreIsARegister == Spec => ImplementsRegister
<1>1. Init => Exclusive /\ EditorsWrite /\ InStep
  BY DEF Init, Exclusive, EditorsWrite, InStep, Synced, Active
<1>2. SerialInv /\ IInv' /\ [Next]_vars => SerialInv'
  BY ExclusiveStep, InStepStep DEF SerialInv
<1>3. Spec => []SerialInv
  BY <1>1, <1>2, Invariance, InitIInv, PTL DEF Spec, SerialInv
<1>4. Init => Register!Init
  <2>1. ASSUME Init
        PROVE  Settled \in (SUBSET Pairs) \cup {Torn}
    <3>1. file["trust"] \in Contents("trust") /\ WritersAt(pc) = {}
      BY <2>1, StartsAssumption DEF Init, Files, WritersAt
    <3>2. Settled = Holding({}, loaded, file["trust"])
      BY <3>1, HoldingNow DEF Writers, WritersAt
    <3> QED BY <3>1, <3>2, HoldingNobody, ReadableDocument
  <2>2. Init => edits = 0
    BY DEF Init
  <2> QED BY <2>1, <2>2 DEF Register!Init
<1>5. ASSUME SerialInv, [Next]_vars
      PROVE  [Register!Next]_(Register!vars)
  <2>1. alone' = alone
    BY <1>5, JobsStay
  <2>2. CASE ~alone
    BY <2>1, <2>2 DEF Register!vars
  <2>3. CASE alone /\ Settled' = Settled /\ edits' = edits
    BY <2>1, <2>3 DEF Register!vars
  <2>4. ASSUME alone, NEW p \in Procs, Step(p)
        PROVE  [Register!Next]_(Register!vars)
    <3>1. CASE Pin(p) \/ Unpin(p)
      BY <1>5, <2>3, <2>4, <3>1, TruncateRegister
    <3>2. CASE pc[p] = "writing" /\ Edited(p) = "trust"
      <4>1. edits' = edits /\ (Settled' = Torn \/ Change(Settled, Settled'))
        BY <1>5, <2>4, <3>2, WriteRegister
      <4>2. CASE Settled' = Torn
        BY <2>1, <2>4, <4>1, <4>2 DEF Register!Next, Register!Spoil
      <4>3. CASE Settled' = Settled
        BY <2>3, <2>4, <4>1, <4>3
      <4>4. CASE Change(Settled, Settled') /\ Settled' # Settled
        BY <2>1, <2>4, <4>1, <4>4 DEF Change, Register!Next, Register!Command
      <4> QED BY <4>1, <4>2, <4>3, <4>4
    <3>3. CASE ~(Pin(p) \/ Unpin(p)) /\ ~(pc[p] = "writing" /\ Edited(p) = "trust")
      BY <1>5, <2>3, <2>4, <3>3, OtherRegister
    <3> QED BY <3>1, <3>2, <3>3
  <2>5. ASSUME alone, NEW f \in Files, NEW content \in Contents(f), Edit(f, content)
        PROVE  [Register!Next]_(Register!vars)
    <3>1. edits' = edits + 1 /\ Settled' \in (SUBSET Pairs) \cup {Torn}
      BY <1>5, <2>5, EditRegister
    <3>2. Register!Edit
      BY <2>1, <2>5, <3>1 DEF Register!Edit
    <3> QED BY <3>2 DEF Register!Next
  <2>6. CASE UNCHANGED vars
    <3>1. Settled' = Settled /\ edits' = edits
      BY <2>6 DEF vars, config, Settled, Writers, Edited, Readable, Says
    <3> QED BY <2>2, <2>3, <3>1
  <2> QED BY <1>5, <2>2, <2>4, <2>5, <2>6 DEF Next
<1> QED BY <1>3, <1>4, <1>5, PTL DEF Spec, ImplementsRegister, Register!Spec
=============================================================================
