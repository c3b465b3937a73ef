---------------------------- MODULE NameStoreProofs ----------------------------
(* The types of the name store, that a refused command has touched nothing, *)
(* and that an import without --force keeps the names it found, for every   *)
(* set of names, manifests, commands and bundles.                           *)
(*                                                                         *)
(* The argument for the last: a name that was there when the command began  *)
(* stays until somebody removes it (StillThere), so when the command found  *)
(* no file at a name, the name was none of those (Checked); a command that  *)
(* has come to write has found that of all its names.                       *)
EXTENDS NameStore, SequenceTheorems, TLAPS

Careful(p) == job[p].do = "import" /\ ~job[p].force

Untouched == \A p \in Procs : pc[p] \in {"idle", "checking", "refused"} => wrote[p] = {}

StillThere == \A p \in Procs : \A n \in present[p] \ removed : store[n] # None

Checked ==
    \A p \in Procs : Careful(p) =>
        /\ pc[p] = "checking" =>
              \A k \in DOMAIN todo[p] : k < at[p] => todo[p][k].name \notin present[p] \ removed
        /\ pc[p] \in {"opening", "writing"} =>
              \A k \in DOMAIN todo[p] : todo[p][k].name \notin present[p] \ removed

Idle == \A p \in Procs : pc[p] = "idle" => over[p] = {}

IInv == TypeOK /\ Untouched /\ StillThere /\ Checked /\ Idle /\ OldNamesSurvive

-----------------------------------------------------------------------------
(* What a command sets out to install: names of the store and manifests, at *)
(* least one.                                                               *)
LEMMA PlanType ==
    ASSUME NEW p \in Procs, NEW j \in Jobs[p],
           \/ j.do = "add"
           \/ j.do = "import" /\ Importable(j)
    PROVE  /\ Plan(j) \in Seq([name : Names, doc : Documents])
           /\ 1 \in DOMAIN Plan(j)
<1>1. CASE j.do = "add"
  <2>1. [name |-> j.name, doc |-> j.doc] \in [name : Names, doc : Documents]
    BY <1>1, JobsAssumption
  <2> QED BY <1>1, <2>1 DEF Plan
<1>2. CASE j.do # "add"
  <2> DEFINE entries == j.bundle.entries
             name(i) == LocalName(j.bundle, i, j.name)
  <2>1. /\ \A i \in DOMAIN entries : name(i) \in Names
        /\ Sound(j.bundle)
    BY <1>2 DEF Importable
  <2>2. \A i \in DOMAIN entries : entries[i].doc \in Documents
    BY <1>2, JobsAssumption
  <2>3. Len(entries) \in 1 .. MaxEntries
    BY <2>1 DEF Sound
  <2>4. DOMAIN entries = 1 .. Len(entries)
    BY <1>2, JobsAssumption
  <2> QED BY <1>2, <2>1, <2>2, <2>3, <2>4 DEF Plan
<1> QED BY <1>1, <1>2

(* The name and the manifest a command has come to.                         *)
LEMMA CurrentType ==
    ASSUME TypeOK, NEW p \in Procs, pc[p] \in Active
    PROVE  /\ Current(p) \in Names
           /\ todo[p][at[p]].doc \in Documents
<1>1. todo[p] \in Seq([name : Names, doc : Documents]) /\ at[p] \in DOMAIN todo[p]
  BY DEF TypeOK, Active
<1>2. at[p] \in 1 .. Len(todo[p])
  BY <1>1
<1>3. todo[p][at[p]] \in [name : Names, doc : Documents]
  BY <1>1, <1>2, ElementOfSeq
<1> QED BY <1>3 DEF Current

(* A command that is not the last of its list goes on with the next one.    *)
LEMMA NextType ==
    ASSUME TypeOK, NEW p \in Procs, pc[p] \in Active, ~IsLast(p)
    PROVE  at[p] + 1 \in DOMAIN todo[p]
BY DEF TypeOK, IsLast, Active

LEMMA InitTypes == Init => TypeOK
<1> SUFFICES ASSUME Init PROVE TypeOK
  OBVIOUS
<1>1. store \in [Names -> Contents] /\ kills \in 0 .. MaxKills
  BY StartsAssumption DEF Init
<1> QED BY <1>1 DEF Init, TypeOK, Labels, Active

(* Where the store stays one: each step writes one file at most.            *)
LEMMA StoreStep ==
    ASSUME TypeOK, NEW p \in Procs, Step(p)
    PROVE  store' \in [Names -> Contents]
<1> USE DEF Active
<1>1. \A n \in Names : \A c \in Contents : [store EXCEPT ![n] = c] \in [Names -> Contents]
  BY DEF TypeOK
<1>2. store \in [Names -> Contents]
  BY DEF TypeOK
<1>3. CASE Open(p)
  BY <1>3, <1>1, CurrentType DEF Open, Contents
<1>4. CASE Write(p)
  <2>1. Written(store[Current(p)], todo[p][at[p]].doc) \subseteq Contents
    BY <1>4, CurrentType DEF Write, Written, Contents
  <2> QED BY <1>4, <1>1, <1>2, <2>1, CurrentType DEF Write
<1>5. CASE Interrupted(p)
  BY <1>5, <1>1, <1>2, CurrentType DEF Interrupted, Contents
<1>6. CASE Remove(p)
  <2>1. job[p].name \in Names
    BY <1>6, JobsAssumption DEF Remove, TypeOK
  <2> QED BY <1>6, <2>1, <1>1, <1>2 DEF Remove, Contents
<1> QED
  BY <1>2, <1>3, <1>4, <1>5, <1>6 DEF Step, Begin, Refuse, Check, OutputError, Kill, LookUp

(* Where a command is, and in which list.                                   *)
LEMMA ControlStep ==
    ASSUME TypeOK, NEW p \in Procs, Step(p)
    PROVE  /\ pc' \in [Procs -> Labels]
           /\ todo' \in [Procs -> Seq([name : Names, doc : Documents])]
           /\ at' \in [Procs -> Nat \ {0}]
           /\ \A q \in Procs : /\ pc'[q] = "idle" => at'[q] = 1
                               /\ pc'[q] \in Active => at'[q] \in DOMAIN todo'[q]
<1> USE DEF TypeOK, To, Labels, Active
<1>1. CASE Begin(p)
  <2>1. Plan(job[p]) \in Seq([name : Names, doc : Documents]) /\ 1 \in DOMAIN Plan(job[p])
    BY <1>1, PlanType DEF Begin
  <2>2. todo' = [todo EXCEPT ![p] = Plan(job[p])]
    BY <1>1 DEF Begin
  <2>3. at' = at /\ \E label \in {"opening", "checking"} : pc' = [pc EXCEPT ![p] = label]
    BY <1>1 DEF Begin
  <2>4. at[p] = 1
    BY <1>1 DEF Begin, Starting
  <2> QED BY <2>1, <2>2, <2>3, <2>4
<1>2. CASE Refuse(p)
  BY <1>2 DEF Refuse
<1>3. CASE Check(p)
  <2>1. at[p] \in DOMAIN todo[p] /\ 1 \in DOMAIN todo[p]
    BY <1>3 DEF Check
  <2>2. CASE store[Current(p)] # None
    BY <1>3, <2>2 DEF Check
  <2>3. CASE store[Current(p)] = None /\ IsLast(p)
    <3>1. /\ pc' = [pc EXCEPT ![p] = "opening"]
          /\ at' = [at EXCEPT ![p] = 1] /\ todo' = todo
      BY <1>3, <2>3 DEF Check
    <3>2. at' \in [Procs -> Nat \ {0}] /\ pc' \in [Procs -> Labels]
      BY <3>1
    <3>3. \A q \in Procs \ {p} : pc'[q] = pc[q] /\ at'[q] = at[q] /\ todo'[q] = todo[q]
      BY <3>1
    <3>4. pc'[p] = "opening" /\ at'[p] = 1 /\ todo'[p] = todo[p]
      BY <3>1
    <3> QED BY <2>1, <3>1, <3>2, <3>3, <3>4
  <2>4. CASE store[Current(p)] = None /\ ~IsLast(p)
    <3> HIDE DEF TypeOK
    <3>0. pc[p] \in Active
      BY <1>3 DEF Check
    <3>1. at[p] + 1 \in DOMAIN todo[p]
      BY <2>4, <3>0, NextType
    <3> USE DEF TypeOK
    <3>2. pc' = pc /\ at' = [at EXCEPT ![p] = at[p] + 1] /\ todo' = todo
      BY <1>3, <2>4 DEF Check
    <3>3. at[p] + 1 \in Nat \ {0} /\ pc[p] = "checking"
      BY <1>3 DEF Check
    <3> QED BY <3>1, <3>2, <3>3
  <2> QED BY <2>2, <2>3, <2>4
<1>4. CASE Open(p)
  BY <1>4 DEF Open
<1>5. CASE Write(p)
  <2>1. CASE IsLast(p)
    BY <1>5, <2>1 DEF Write
  <2>2. CASE ~IsLast(p)
    <3> HIDE DEF TypeOK
    <3>0. pc[p] \in Active
      BY <1>5 DEF Write
    <3>1. at[p] + 1 \in DOMAIN todo[p]
      BY <2>2, <3>0, NextType
    <3> USE DEF TypeOK
    <3>2. /\ pc' = [pc EXCEPT ![p] = "opening"]
          /\ at' = [at EXCEPT ![p] = at[p] + 1] /\ todo' = todo
      BY <1>5, <2>2 DEF Write
    <3>3. at[p] + 1 \in Nat \ {0}
      OBVIOUS
    <3> QED BY <3>1, <3>2, <3>3
  <2> QED BY <2>1, <2>2
<1>6. CASE OutputError(p) \/ Kill(p)
  BY <1>6 DEF OutputError, Kill
<1>7. CASE Remove(p) \/ LookUp(p)
  <2>1. todo' = todo /\ at' = at /\ \E label \in {"done", "refused", "failed"} : pc' = [pc EXCEPT ![p] = label]
    BY <1>7 DEF Remove, LookUp
  <2> QED BY <2>1
<1> QED BY <1>1, <1>2, <1>3, <1>4, <1>5, <1>6, <1>7 DEF Step

LEMMA TypeStep ==
    ASSUME TypeOK, [Next]_vars
    PROVE  TypeOK'
<1>1. CASE UNCHANGED vars
  BY <1>1 DEF TypeOK, vars, config, history, Active
<1>2. CASE Next
  <2>1. PICK p \in Procs : Step(p)
    BY <1>2 DEF Next
  <2>2. UNCHANGED config
    BY <2>1 DEF Step, Begin, Refuse, Check, Open, Write, OutputError, Kill, Remove, LookUp, config
  <2>3. linked' \in [Procs -> BOOLEAN]
    <3>1. CASE Remove(p)
      BY <3>1 DEF TypeOK, Remove
    <3>2. CASE ~Remove(p)
      <4>1. linked' = linked \/ \E b \in BOOLEAN : linked' = [linked EXCEPT ![p] = b]
        BY <2>1, <3>2
        DEF Step, Begin, Refuse, Check, Open, Write, OutputError, Kill, LookUp, Interrupted
      <4> QED BY <4>1 DEF TypeOK
    <3> QED BY <3>1, <3>2
  <2>4. found' \in [Procs -> Documents \cup {None}]
    BY <2>1 DEF TypeOK, Step, Begin, Refuse, Check, Open, Write, OutputError, Kill, Remove, LookUp
  <2>5. kills' \in 0 .. MaxKills
    BY <2>1, StartsAssumption
    DEF TypeOK, Step, Begin, Refuse, Check, Open, Write, OutputError, Kill, Remove, LookUp
  <2>6. removed' \subseteq Names
    <3>1. CASE Remove(p)
      <4>1. job[p].name \in Names
        BY <3>1, JobsAssumption DEF Remove, TypeOK
      <4> QED BY <3>1, <4>1 DEF Remove, TypeOK
    <3>2. CASE ~Remove(p)
      <4>1. removed' = removed
        BY <2>1, <3>2
        DEF history, Step, Begin, Refuse, Check, Open, Write, OutputError, Kill, LookUp
      <4> QED BY <4>1 DEF TypeOK
    <3> QED BY <3>1, <3>2
  <2>7. present' \in [Procs -> SUBSET Names]
    <3>1. CASE Starting(p)
      BY <3>1 DEF TypeOK, Starting
    <3>2. CASE ~Starting(p)
      <4>1. present' = present
        BY <2>1, <3>2
        DEF history, Step, Begin, Refuse, Check, Open, Write, OutputError, Kill, Remove, LookUp
      <4> QED BY <4>1 DEF TypeOK
    <3> QED BY <3>1, <3>2
  <2>8. wrote' \in [Procs -> SUBSET Names] /\ over' \in [Procs -> SUBSET Names]
    <3>1. CASE Open(p)
      BY <3>1, CurrentType DEF TypeOK, Open, Active
    <3>2. CASE ~Open(p)
      <4>1. wrote' = wrote /\ over' = over
        BY <2>1, <3>2
        DEF history, Step, Begin, Refuse, Check, Write, OutputError, Kill, Remove, LookUp
      <4> QED BY <4>1 DEF TypeOK
    <3> QED BY <3>1, <3>2
  <2> QED BY <2>1, <2>2, <2>3, <2>4, <2>5, <2>6, <2>7, <2>8, StoreStep, ControlStep DEF TypeOK, config
<1> QED BY <1>1, <1>2

-----------------------------------------------------------------------------
(* A command is refused before it opens a file, or not at all.              *)
LEMMA UntouchedStep ==
    ASSUME TypeOK, Untouched, [Next]_vars
    PROVE  Untouched'
<1>1. CASE UNCHANGED vars
  BY <1>1 DEF Untouched, vars, history
<1>2. CASE Next
  <2>1. PICK p \in Procs : Step(p)
    BY <1>2 DEF Next
  <2>2. CASE Open(p)
    BY <2>2 DEF Open, To, Untouched, TypeOK
  <2>3. CASE ~Open(p)
    <3>1. wrote' = wrote
      BY <2>1, <2>3
      DEF history, Step, Begin, Refuse, Check, Write, OutputError, Kill, Remove, LookUp
    <3>2. \A q \in Procs : q # p => pc'[q] = pc[q]
      BY <2>1, <2>3
      DEF TypeOK, To, Step, Begin, Refuse, Check, Write, OutputError, Kill, Remove, LookUp
    <3>3. pc'[p] \in {"idle", "checking", "refused"} => pc[p] \in {"idle", "checking"}
      BY <2>1, <2>3
      DEF TypeOK, To, Step, Begin, Refuse, Check, Write, OutputError, Kill, Remove, LookUp,
          Starting
    <3> QED BY <3>1, <3>2, <3>3 DEF Untouched
  <2> QED BY <2>2, <2>3
<1> QED BY <1>1, <1>2

(* Only `murl name remove` takes a file away, and it is recorded.           *)
LEMMA StillThereStep ==
    ASSUME TypeOK, StillThere, [Next]_vars
    PROVE  StillThere'
<1>1. CASE UNCHANGED vars
  BY <1>1 DEF StillThere, vars, history
<1>2. CASE Next
  <2>1. PICK p \in Procs : Step(p)
    BY <1>2 DEF Next
  <2>2. \A q \in Procs : present'[q] \subseteq present[q] \cup {n \in Names : store[n] # None}
    BY <2>1
    DEF TypeOK, history, Step, Begin, Refuse, Check, Open, Write, OutputError, Kill, Remove,
        LookUp, Starting
  <2>3. \A n \in Names : store'[n] = None => store[n] = None \/ n \in removed'
    <3>1. CASE Remove(p)
      BY <3>1 DEF Remove, TypeOK
    <3>2. CASE Open(p)
      BY <3>2, ContentsAssumption DEF Open, TypeOK
    <3>3. CASE Write(p)
      <4>1. None \notin Written(store[Current(p)], todo[p][at[p]].doc)
        BY <3>3, CurrentType, ContentsAssumption DEF Write, Written, Active
      <4>2. \/ store' = store
            \/ \E c : c # None /\ store' = [store EXCEPT ![Current(p)] = c]
        BY <3>3, <4>1 DEF Write
      <4> QED BY <4>2 DEF TypeOK
    <3>4. CASE Interrupted(p)
      BY <3>4, ContentsAssumption DEF Interrupted, TypeOK
    <3>5. CASE ~(Remove(p) \/ Open(p) \/ Write(p) \/ Interrupted(p))
      <4>1. store' = store
        BY <2>1, <3>5 DEF Step, Begin, Refuse, Check, OutputError, Kill, LookUp
      <4> QED BY <4>1
    <3> QED BY <3>1, <3>2, <3>3, <3>4, <3>5
  <2>4. removed \subseteq removed' /\ \A q \in Procs : present'[q] \subseteq Names
    BY <2>1, TypeStep
    DEF TypeOK, history, Step, Begin, Refuse, Check, Open, Write, OutputError, Kill, Remove, LookUp
  <2> QED BY <2>2, <2>3, <2>4 DEF StillThere
<1> QED BY <1>1, <1>2

(* What a careful command has found absent it may write: the names that     *)
(* were there when it began are not among them.                             *)
LEMMA CheckedStep ==
    ASSUME TypeOK, StillThere, Checked, [Next]_vars
    PROVE  Checked'
<1>1. CASE UNCHANGED vars
  BY <1>1 DEF Checked, Careful, vars, config, history
<1>2. CASE Next
  <2>1. PICK p \in Procs : Step(p)
    BY <1>2 DEF Next
  <2> SUFFICES ASSUME NEW q \in Procs, Careful(q)'
               PROVE  /\ pc'[q] = "checking" =>
                            \A k \in DOMAIN todo'[q] : k < at'[q] =>
                                todo'[q][k].name \notin present'[q] \ removed'
                      /\ pc'[q] \in {"opening", "writing"} =>
                            \A k \in DOMAIN todo'[q] :
                                todo'[q][k].name \notin present'[q] \ removed'
    BY DEF Checked
  <2>2. Careful(q) /\ removed \subseteq removed'
    BY <2>1
    DEF Careful, config, history, Step, Begin, Refuse, Check, Open, Write, OutputError, Kill,
        Remove, LookUp
  <2>3. CASE q # p
    <3>1. /\ pc'[q] = pc[q] /\ todo'[q] = todo[q] /\ at'[q] = at[q]
          /\ present'[q] = present[q]
      BY <2>1, <2>3
      DEF TypeOK, To, history, Step, Begin, Refuse, Check, Open, Write, OutputError, Kill,
          Remove, LookUp, Starting
    <3> QED BY <2>2, <3>1 DEF Checked
  <2>4. CASE q = p /\ Begin(p)
    <3>1. pc'[p] = "checking" /\ at'[p] = 1 /\ todo'[p] = Plan(job[p])
      BY <2>2, <2>4 DEF Begin, Careful, Starting, To, TypeOK
    <3>2. DOMAIN Plan(job[p]) \subseteq Nat \ {0}
      <4>1. Plan(job[p]) \in Seq([name : Names, doc : Documents])
        BY <2>4, PlanType DEF Begin, TypeOK
      <4> QED BY <4>1
    <3> QED BY <2>4, <3>1, <3>2
  <2>5. CASE q = p /\ Check(p)
    <3>1. /\ pc[p] = "checking" /\ todo' = todo /\ present' = present /\ at[p] \in DOMAIN todo[p]
      BY <2>5 DEF Check, history, TypeOK, Active
    <3>2. CASE store[Current(p)] # None
      <4>1. pc'[p] = "refused"
        BY <2>5, <3>2 DEF Check, To, TypeOK
      <4> QED BY <2>5, <4>1
    <3>3. CASE store[Current(p)] = None
      <4>1. todo[p][at[p]].name \notin present[p] \ removed
        BY <3>3 DEF StillThere, Current
      <4>2. \A k \in DOMAIN todo[p] : k <= at[p] => todo[p][k].name \notin present[p] \ removed
        <5>1. \A k \in DOMAIN todo[p] : k <= at[p] => k < at[p] \/ k = at[p]
          BY DEF TypeOK
        <5> QED BY <2>2, <2>5, <3>1, <4>1, <5>1 DEF Checked
      <4>3. CASE IsLast(p)
        <5>1. \A k \in DOMAIN todo[p] : k <= at[p]
          BY <4>3 DEF IsLast, TypeOK
        <5>2. pc'[p] = "opening"
          BY <2>5, <3>3, <4>3 DEF Check, To, TypeOK
        <5> QED BY <2>2, <2>5, <3>1, <4>2, <5>1, <5>2
      <4>4. CASE ~IsLast(p)
        <5>1. pc'[p] = "checking" /\ at'[p] = at[p] + 1
          BY <2>5, <3>1, <3>3, <4>4 DEF Check, TypeOK
        <5>2. \A k \in DOMAIN todo[p] : k < at'[p] => k <= at[p]
          BY <5>1 DEF TypeOK
        <5> QED BY <2>2, <2>5, <3>1, <4>2, <5>1, <5>2
      <4> QED BY <4>3, <4>4
    <3> QED BY <3>2, <3>3
  <2>6. CASE q = p /\ ~Begin(p) /\ ~Check(p)
    <3>1. /\ pc'[p] \in {"opening", "writing"} => pc[p] \in {"opening", "writing"}
          /\ pc'[p] # "checking"
      BY <2>1, <2>6
      DEF TypeOK, To, Step, Refuse, Open, Write, OutputError, Kill, Remove, LookUp
    <3>2. CASE Open(p) \/ Write(p)
      <4>1. todo' = todo /\ present' = present
        BY <3>2 DEF Open, Write, history
      <4> QED BY <2>2, <2>6, <3>1, <4>1 DEF Checked
    <3>3. CASE ~(Open(p) \/ Write(p))
      <4>1. pc'[p] \notin {"opening", "writing"}
        BY <2>1, <2>6, <3>3 DEF TypeOK, To, Step, Refuse, OutputError, Kill, Remove, LookUp
      <4> QED BY <2>6, <3>1, <4>1
    <3> QED BY <3>2, <3>3
  <2> QED BY <2>3, <2>4, <2>5, <2>6
<1> QED BY <1>1, <1>2

LEMMA IdleStep ==
    ASSUME TypeOK, Idle, [Next]_vars
    PROVE  Idle'
<1>1. CASE UNCHANGED vars
  BY <1>1 DEF Idle, vars, history
<1>2. CASE Next
  <2>1. PICK p \in Procs : Step(p)
    BY <1>2 DEF Next
  <2>2. \A q \in Procs : pc'[q] = "idle" => pc[q] = "idle" /\ q # p
    BY <2>1
    DEF TypeOK, To, Step, Begin, Refuse, Check, Open, Write, OutputError, Kill, Remove, LookUp,
        Starting, Active
  <2>3. \A q \in Procs \ {p} : over'[q] = over[q]
    BY <2>1
    DEF TypeOK, history, Step, Begin, Refuse, Check, Open, Write, OutputError, Kill, Remove, LookUp
  <2> QED BY <2>2, <2>3 DEF Idle
<1> QED BY <1>1, <1>2

(* Only opening a file adds to what a command has overwritten, and only its *)
(* begin, when that is nothing yet, to what was there.                      *)
LEMMA OldNamesStep ==
    ASSUME TypeOK, Checked, Idle, OldNamesSurvive, [Next]_vars
    PROVE  OldNamesSurvive'
<1>1. CASE UNCHANGED vars
  BY <1>1 DEF OldNamesSurvive, vars, config, history
<1>2. CASE Next
  <2>1. PICK p \in Procs : Step(p)
    BY <1>2 DEF Next
  <2>2. job' = job /\ removed \subseteq removed'
    BY <2>1
    DEF config, history, Step, Begin, Refuse, Check, Open, Write, OutputError, Kill, Remove, LookUp
  <2>3. \A q \in Procs \ {p} : over'[q] = over[q] /\ present'[q] = present[q]
    BY <2>1
    DEF TypeOK, history, Step, Begin, Refuse, Check, Open, Write, OutputError, Kill, Remove,
        LookUp, Starting
  <2>4. job[p].do = "import" /\ ~job[p].force => over'[p] \cap present'[p] \subseteq removed'
    <3> SUFFICES ASSUME Careful(p)
                 PROVE  over'[p] \cap present'[p] \subseteq removed'
      BY DEF Careful
    <3>1. CASE Open(p)
      <4>1. Current(p) \notin present[p] \ removed
        BY <3>1 DEF Open, Checked, Current, TypeOK, Active
      <4>2. over'[p] \subseteq over[p] \cup {Current(p)} /\ present' = present
        BY <3>1 DEF Open, TypeOK
      <4>3. over[p] \cap present[p] \subseteq removed
        BY DEF OldNamesSurvive, Careful
      <4> QED BY <2>2, <4>1, <4>2, <4>3
    <3>2. CASE pc[p] = "idle"
      <4>1. over' = over
        BY <2>1, <3>2
        DEF history, Step, Begin, Refuse, Check, Open, Write, OutputError, Kill, Remove, LookUp,
            Active
      <4> QED BY <3>2, <4>1 DEF Idle
    <3>3. CASE ~Open(p) /\ pc[p] # "idle"
      <4>1. over' = over /\ present' = present
        BY <2>1, <3>3
        DEF history, Step, Begin, Refuse, Check, Write, OutputError, Kill, Remove, LookUp, Starting
      <4> QED BY <2>2, <4>1 DEF OldNamesSurvive, Careful
    <3> QED BY <3>1, <3>2, <3>3
  <2> QED BY <2>2, <2>3, <2>4 DEF OldNamesSurvive
<1> QED BY <1>1, <1>2

-----------------------------------------------------------------------------
(* The inductive invariant.                                                 *)
THEOREM Invariance == Spec => []IInv
<1>1. Init => IInv
  <2> SUFFICES ASSUME Init PROVE IInv
    OBVIOUS
  <2>1. TypeOK
    BY InitTypes
  <2>2. \A p \in Procs : pc[p] = "idle" /\ wrote[p] = {} /\ over[p] = {} /\ present[p] = {}
    BY DEF Init
  <2> QED BY <2>1, <2>2 DEF IInv, Untouched, StillThere, Checked, Idle, OldNamesSurvive
<1>2. IInv /\ [Next]_vars => IInv'
  BY TypeStep, UntouchedStep, StillThereStep, CheckedStep, IdleStep, OldNamesStep DEF IInv
<1> QED BY <1>1, <1>2, PTL DEF Spec

(* The types of the store and of the commands at it.                        *)
THEOREM NameTypes == Spec => []TypeOK
<1>1. IInv => TypeOK
  BY DEF IInv
<1> QED BY <1>1, Invariance, PTL

(* A command that refuses, an import of any bundle included, has opened no  *)
(* file, whatever other commands do meanwhile.                              *)
THEOREM RefusalTouchesNothing == Spec => []RefusedTouchesNothing
<1>1. IInv => RefusedTouchesNothing
  BY DEF IInv, Untouched, RefusedTouchesNothing
<1> QED BY <1>1, Invariance, PTL

(* An import without --force overwrites nothing it could have found.        *)
THEOREM ImportKeepsNames == Spec => []OldNamesSurvive
<1>1. IInv => OldNamesSurvive
  BY DEF IInv
<1> QED BY <1>1, Invariance, PTL

-----------------------------------------------------------------------------
(* What a look-up finds. Whatever is whole in the store was there at the    *)
(* start or is what some command was to install under that very name.       *)
Backed(name, doc) ==
    \/ \E start \in Starts : start[name] = doc
    \/ \E q \in Procs : Entitled(job[q], name, doc)

Rightful ==
    \A p \in Procs : \A k \in DOMAIN todo[p] :
        Entitled(job[p], todo[p][k].name, todo[p][k].doc)

Sourced == \A n \in Names : store[n] \in Documents => Backed(n, store[n])

(* A step leaves, at each name, what was there, no manifest, or the one the *)
(* acting command has come to.                                             *)
LEMMA StoreBecomes ==
    ASSUME TypeOK, NEW p \in Procs, Step(p), NEW n \in Names
    PROVE  \/ store'[n] = store[n]
           \/ store'[n] \in {None, Empty, Torn}
           \/ /\ pc[p] = "writing" /\ n = Current(p)
              /\ at[p] \in DOMAIN todo[p]
              /\ store'[n] = todo[p][at[p]].doc
<1>1. CASE Open(p)
  BY <1>1 DEF Open, TypeOK
<1>2. CASE Write(p)
  <2>1. \A c \in Written(store[Current(p)], todo[p][at[p]].doc) :
            c = Torn \/ c = todo[p][at[p]].doc
    BY DEF Written
  <2>2. pc[p] = "writing" /\ at[p] \in DOMAIN todo[p]
    BY <1>2 DEF Write, TypeOK, Active
  <2>3. CASE store' = store
    BY <2>3
  <2>4. CASE store' # store
    <3>1. PICK c \in Written(store[Current(p)], todo[p][at[p]].doc) :
              store' = [store EXCEPT ![Current(p)] = c]
      BY <1>2, <2>4 DEF Write
    <3> QED BY <2>1, <2>2, <3>1 DEF TypeOK
  <2> QED BY <2>3, <2>4
<1>3. CASE Interrupted(p)
  BY <1>3 DEF Interrupted, TypeOK
<1>4. CASE Remove(p)
  BY <1>4 DEF Remove, TypeOK
<1>5. CASE ~(Open(p) \/ Write(p) \/ Interrupted(p) \/ Remove(p))
  <2>1. store' = store
    BY <1>5 DEF Step, Begin, Refuse, Check, OutputError, Kill, LookUp
  <2> QED BY <2>1
<1> QED BY <1>1, <1>2, <1>3, <1>4, <1>5

(* What is planned is what the arguments of the command say.                *)
LEMMA PlanRightful ==
    ASSUME NEW p \in Procs, NEW j \in Jobs[p],
           \/ j.do = "add"
           \/ j.do = "import" /\ Importable(j),
           NEW k \in DOMAIN Plan(j)
    PROVE  Entitled(j, Plan(j)[k].name, Plan(j)[k].doc)
<1>1. CASE j.do = "add"
  BY <1>1 DEF Plan, Entitled
<1>2. CASE j.do # "add"
  <2> DEFINE entry == j.bundle.entries[k]
             name == LocalName(j.bundle, k, j.name)
  <2>1. k \in DOMAIN j.bundle.entries /\ Plan(j)[k] = [name |-> name, doc |-> entry.doc]
    BY <1>2 DEF Plan
  <2>2. name \in Names /\ entry.intact
    BY <1>2, <2>1 DEF Importable, Sound
  <2>3. name # None
    BY <2>2, ContentsAssumption
  <2>4. CASE IsRoot(j.bundle, k) /\ j.name # None
    BY <1>2, <2>1, <2>2, <2>4 DEF LocalName, Entitled
  <2>5. CASE ~(IsRoot(j.bundle, k) /\ j.name # None)
    <3>1. entry.identity # None /\ name = Rehomed(entry.identity)
      BY <2>3, <2>5 DEF LocalName
    <3>2. name.path = entry.identity.path /\ name.version = entry.identity.version
      BY <3>1 DEF Rehomed
    <3> QED BY <1>2, <2>1, <2>2, <2>5, <3>1, <3>2 DEF Entitled
  <2> QED BY <2>4, <2>5
<1> QED BY <1>1, <1>2

LEMMA RightfulStep ==
    ASSUME TypeOK, Rightful, [Next]_vars
    PROVE  Rightful' /\ job' = job
<1>1. CASE UNCHANGED vars
  BY <1>1 DEF Rightful, vars, config
<1>2. CASE Next
  <2>1. PICK p \in Procs : Step(p)
    BY <1>2 DEF Next
  <2>2. CASE Begin(p)
    <3>1. job' = job /\ todo' = [todo EXCEPT ![p] = Plan(job[p])]
      BY <2>2 DEF Begin, config
    <3>2. \A k \in DOMAIN Plan(job[p]) :
             Entitled(job[p], Plan(job[p])[k].name, Plan(job[p])[k].doc)
      BY <2>2, PlanRightful DEF Begin, TypeOK
    <3> QED BY <3>1, <3>2 DEF Rightful, TypeOK
  <2>3. CASE ~Begin(p)
    <3>1. job' = job /\ todo' = todo
      BY <2>1, <2>3
      DEF config, Step, Refuse, Check, Open, Write, OutputError, Kill, Remove, LookUp
    <3> QED BY <3>1 DEF Rightful
  <2> QED BY <2>2, <2>3
<1> QED BY <1>1, <1>2

LEMMA SourcedStep ==
    ASSUME TypeOK, Rightful, Sourced, [Next]_vars
    PROVE  Sourced'
<1>1. job' = job
  BY RightfulStep
<1>2. CASE UNCHANGED vars
  BY <1>1, <1>2 DEF Sourced, Backed, vars
<1>3. CASE Next
  <2>1. PICK p \in Procs : Step(p)
    BY <1>3 DEF Next
  <2>2. ASSUME NEW n \in Names, store'[n] \in Documents
        PROVE  Backed(n, store'[n])
    <3>1. CASE store'[n] = store[n]
      BY <2>2, <3>1 DEF Sourced
    <3>2. CASE store'[n] # store[n]
      <4>1. /\ n = todo[p][at[p]].name /\ at[p] \in DOMAIN todo[p]
            /\ store'[n] = todo[p][at[p]].doc
        BY <2>1, <2>2, <3>2, StoreBecomes, ContentsAssumption DEF Current
      <4> QED BY <4>1 DEF Rightful, Backed
    <3> QED BY <3>1, <3>2
  <2> QED BY <1>1, <2>2 DEF Sourced, Backed
<1> QED BY <1>2, <1>3

LEMMA FoundStep ==
    ASSUME TypeOK, Sourced, FoundUnderItsName, [Next]_vars
    PROVE  FoundUnderItsName'
<1>1. job' = job
  BY DEF Next, Step, config, vars, Begin, Refuse, Check, Open, Write, OutputError, Kill,
         Remove, LookUp
<1>2. CASE found' = found
  BY <1>1, <1>2 DEF FoundUnderItsName
<1>3. CASE found' # found
  <2>1. PICK p \in Procs : LookUp(p)
    BY <1>3 DEF Next, Step, vars, Begin, Refuse, Check, Open, Write, OutputError, Kill, Remove
  <2>2. job[p].name \in Names
    BY <2>1, JobsAssumption DEF LookUp, TypeOK
  <2>3. \A q \in Procs : q # p => found'[q] = found[q]
    BY <2>1 DEF LookUp, TypeOK
  <2>4. found'[p] # None =>
           /\ found'[p] = store[job[p].name] /\ found'[p] \in Documents
           /\ SameName(found'[p], job[p].name)
    BY <2>1 DEF LookUp, TypeOK, Accepted
  <2>5. found'[p] # None =>
           /\ Backed(job[p].name, found'[p])
           /\ found'[p].id # None => found'[p].id.path = job[p].name.path
    BY <2>2, <2>4 DEF Sourced, SameName
  <2> QED BY <1>1, <2>3, <2>5 DEF FoundUnderItsName, Backed
<1> QED BY <1>2, <1>3

(* fetch.rs:97-119, resolver.rs:480-499: what a look-up goes on with is a   *)
(* whole manifest that was installed under this very name.                  *)
THEOREM FoundIsInstalled == Spec => []FoundUnderItsName
<1>1. Init => Rightful /\ Sourced /\ FoundUnderItsName
  <2>1. ASSUME Init PROVE \A p \in Procs : DOMAIN todo[p] = {} /\ found[p] = None
    BY <2>1 DEF Init
  <2> QED BY <2>1 DEF Init, Rightful, Sourced, Backed, FoundUnderItsName
<1>2. IInv /\ Rightful /\ Sourced /\ FoundUnderItsName /\ [Next]_vars =>
          (Rightful /\ Sourced /\ FoundUnderItsName)'
  BY RightfulStep, SourcedStep, FoundStep DEF IInv
<1> QED BY <1>1, <1>2, Invariance, PTL DEF Spec

-----------------------------------------------------------------------------
(* What an import that runs alone has installed. Its names differ, so what  *)
(* it has written it does not write over.                                   *)
OneActive ==
    alone => \A p, q \in Procs : pc[p] \in Active /\ pc[q] \in Active => p = q

Stored(p, k) == store[todo[p][k].name] = todo[p][k].doc

Installing ==
    \A p \in Procs : alone /\ job[p].do = "import" /\ pc[p] \in Active =>
        /\ todo[p] = Plan(job[p]) /\ Importable(job[p])
        /\ pc[p] \in {"opening", "writing"} =>
              \A k \in DOMAIN todo[p] : k < at[p] => Stored(p, k)
        /\ pc[p] = "writing" => linked[p] /\ store[Current(p)] = Empty

LEMMA NamesDiffer ==
    ASSUME NEW j, j.do = "import", Importable(j)
    PROVE  /\ DOMAIN Plan(j) = DOMAIN j.bundle.entries
           /\ \A i, k \in DOMAIN Plan(j) : Plan(j)[i].name = Plan(j)[k].name => i = k
           /\ \A i \in DOMAIN Plan(j) : /\ Plan(j)[i].name \in Names
                                      /\ Plan(j)[i].doc = j.bundle.entries[i].doc
BY DEF Plan, Importable

(* Where commands do not overlap, no other one is active when one steps.    *)
LEMMA Undisturbed ==
    ASSUME TypeOK, OneActive, alone, NEW p \in Procs, Step(p),
           NEW q \in Procs, q # p
    PROVE  pc'[q] = pc[q] /\ pc[q] \notin Active
<1>1. pc'[q] = pc[q]
  BY DEF TypeOK, To, Step, Begin, Refuse, Check, Open, Write, OutputError, Kill, Remove, LookUp
<1>2. Starting(p) \/ pc[p] \in Active
  BY DEF Active, Step, Begin, Refuse, Check, Open, Write, OutputError, Kill, Remove, LookUp
<1> QED BY <1>1, <1>2 DEF Starting, OneActive

LEMMA OneActiveStep ==
    ASSUME TypeOK, OneActive, [Next]_vars
    PROVE  OneActive' /\ alone' = alone
<1>1. alone' = alone
  BY DEF Next, Step, config, vars, Begin, Refuse, Check, Open, Write, OutputError, Kill,
         Remove, LookUp
<1>2. CASE UNCHANGED vars
  BY <1>2 DEF OneActive, vars, config
<1>3. CASE Next
  <2>1. PICK p \in Procs : Step(p)
    BY <1>3 DEF Next
  <2>2. alone => \A q \in Procs : q # p => pc'[q] \notin Active
    BY <2>1, Undisturbed
  <2> QED BY <1>1, <2>2 DEF OneActive, Active
<1> QED BY <1>1, <1>2, <1>3

(* The next name is truncated, and none of those written is.                *)
LEMMA OpenInstalls ==
    ASSUME TypeOK, Installing, NEW p \in Procs, Open(p), alone, job[p].do = "import"
    PROVE  /\ \A k \in DOMAIN todo[p] : k < at[p] => Stored(p, k)'
           /\ linked'[p] /\ store'[Current(p)] = Empty
<1>1. /\ pc[p] = "opening" /\ at[p] \in DOMAIN todo[p] /\ at[p] \in Nat
      /\ todo[p] = Plan(job[p]) /\ Importable(job[p]) /\ todo' = todo
      /\ store' = [store EXCEPT ![Current(p)] = Empty] /\ linked' = [linked EXCEPT ![p] = TRUE]
  BY DEF Open, TypeOK, Installing, Active
<1>2. Current(p) \in Names
  BY <1>1, CurrentType DEF Active
<1>3. ASSUME NEW k \in DOMAIN todo[p], k < at[p]
      PROVE  Stored(p, k)'
  <2>1. Stored(p, k)
    BY <1>1, <1>3 DEF Installing, Active
  <2>2. todo[p][k].name # Current(p)
    BY <1>1, <1>3, NamesDiffer DEF Current
  <2> QED BY <1>1, <2>1, <2>2 DEF Stored, TypeOK
<1> QED BY <1>1, <1>2, <1>3 DEF TypeOK

(* A manifest is written into the file that was truncated for it.           *)
LEMMA WriteInstalls ==
    ASSUME TypeOK, Installing, NEW p \in Procs, Write(p), alone, job[p].do = "import"
    PROVE  \A k \in DOMAIN todo[p] : k <= at[p] => Stored(p, k)'
<1>1. /\ pc[p] = "writing" /\ at[p] \in DOMAIN todo[p] /\ at[p] \in Nat
      /\ todo[p] = Plan(job[p]) /\ Importable(job[p]) /\ todo' = todo
      /\ linked[p] /\ store[Current(p)] = Empty
  BY DEF Write, TypeOK, Installing, Active
<1>2. store' = [store EXCEPT ![Current(p)] = todo[p][at[p]].doc]
  <2>1. Written(Empty, todo[p][at[p]].doc) = {todo[p][at[p]].doc}
    BY DEF Written
  <2> QED BY <1>1, <2>1 DEF Write
<1>3. Current(p) \in Names
  BY <1>1, CurrentType DEF Active
<1>4. ASSUME NEW k \in DOMAIN todo[p], k <= at[p]
      PROVE  Stored(p, k)'
  <2>1. CASE k = at[p]
    BY <1>1, <1>2, <1>3, <2>1 DEF Stored, Current, TypeOK
  <2>2. CASE k # at[p]
    <3>1. k \in Nat
      BY DEF TypeOK
    <3>2. k < at[p]
      BY <1>1, <1>4, <2>2, <3>1
    <3>3. Stored(p, k)
      BY <1>1, <3>2 DEF Installing, Active
    <3>4. todo[p][k].name # Current(p)
      BY <1>1, <2>2, NamesDiffer DEF Current
    <3> QED BY <1>1, <1>2, <3>3, <3>4 DEF Stored, TypeOK
  <2> QED BY <2>1, <2>2
<1> QED BY <1>4

LEMMA InstallingStep ==
    ASSUME TypeOK, OneActive, Installing, [Next]_vars
    PROVE  Installing'
<1>1. CASE UNCHANGED vars
  BY <1>1 DEF Installing, Stored, Current, vars, config
<1>2. CASE Next
  <2>1. PICK p \in Procs : Step(p)
    BY <1>2 DEF Next
  <2>2. job' = job /\ alone' = alone
    BY <2>1 DEF config, Step, Begin, Refuse, Check, Open, Write, OutputError, Kill, Remove, LookUp
  <2>3. SUFFICES ASSUME alone, job[p].do = "import", pc'[p] \in Active
                 PROVE  /\ todo'[p] = Plan(job[p]) /\ Importable(job[p])
                        /\ pc'[p] \in {"opening", "writing"} =>
                              \A k \in DOMAIN todo'[p] : k < at'[p] => Stored(p, k)'
                        /\ pc'[p] = "writing" => linked'[p] /\ store'[Current(p)'] = Empty
    BY <2>1, <2>2, Undisturbed DEF Installing
  <2> USE DEF Active
  <2>4. CASE Begin(p)
    <3>1. /\ Importable(job[p]) /\ todo'[p] = Plan(job[p]) /\ at'[p] = 1
          /\ pc'[p] # "writing"
      BY <2>3, <2>4 DEF Begin, Starting, TypeOK, To
    <3>2. \A k \in DOMAIN todo'[p] : k \in 1 .. Len(todo'[p])
      BY <2>1, ControlStep
    <3> QED BY <3>1, <3>2
  <2>5. CASE ~Begin(p)
    <3>1. /\ todo' = todo /\ pc[p] \in Active
          /\ Check(p) \/ Open(p) \/ Write(p)
      BY <2>1, <2>3, <2>5
      DEF Step, To, TypeOK, Refuse, Check, Open, Write, OutputError, Kill, Remove, LookUp
    <3>2. todo[p] = Plan(job[p]) /\ Importable(job[p])
      BY <2>3, <3>1 DEF Installing
    <3>3. CASE Check(p)
      <4>1. pc'[p] # "writing" /\ (pc'[p] = "opening" => at'[p] = 1)
        BY <3>3 DEF Check, To, TypeOK
      <4>2. \A k \in DOMAIN todo'[p] : k \in 1 .. Len(todo'[p])
        BY <2>1, ControlStep
      <4> QED BY <3>1, <3>2, <4>1, <4>2
    <3>4. CASE Open(p)
      <4>1. pc'[p] = "writing" /\ at' = at
        BY <3>4 DEF Open, To, TypeOK
      <4> QED BY <2>3, <3>1, <3>2, <3>4, <4>1, OpenInstalls DEF Current
    <3>5. CASE Write(p)
      <4>1. pc'[p] = "opening" /\ at'[p] = at[p] + 1
        BY <2>3, <3>5 DEF Write, To, TypeOK
      <4>2. \A k \in DOMAIN todo[p] : k < at[p] + 1 => k <= at[p]
        BY DEF TypeOK
      <4> QED BY <2>3, <3>1, <3>2, <3>5, <4>1, <4>2, WriteInstalls
    <3> QED BY <3>1, <3>3, <3>4, <3>5
  <2> QED BY <2>4, <2>5
<1> QED BY <1>1, <1>2

(* bundle_cmd.rs:139-152: what an import that runs alone says it has         *)
(* installed is stored, every entry of its bundle.                          *)
THEOREM ImportInstalls == Spec => InstalledIsStored
<1>1. Init => OneActive /\ Installing
  BY DEF Init, OneActive, Installing, Active
<1>2. IInv /\ OneActive /\ Installing /\ [Next]_vars => (OneActive /\ Installing)'
  BY OneActiveStep, InstallingStep DEF IInv
<1>3. ASSUME IInv, OneActive, Installing, [Next]_vars
      PROVE  [\A p \in Procs :
                alone /\ job[p].do = "import" /\ pc[p] = "writing" /\ pc'[p] = "done" =>
                   \A i \in DOMAIN job[p].bundle.entries :
                       \E n \in Names : store'[n] = job[p].bundle.entries[i].doc]_vars
  <2>1. SUFFICES ASSUME NEW p \in Procs, alone, job[p].do = "import",
                        pc[p] = "writing", pc'[p] = "done",
                        NEW i \in DOMAIN job[p].bundle.entries
                 PROVE  \E n \in Names : store'[n] = job[p].bundle.entries[i].doc
    OBVIOUS
  <2>2. PICK q \in Procs : Step(q)
    BY <1>3, <2>1 DEF Next, vars
  <2>3. TypeOK /\ q = p
    BY <1>3, <2>1, <2>2, Undisturbed DEF IInv
  <2>4. Write(p) /\ IsLast(p) /\ todo' = todo
    BY <2>1, <2>2, <2>3
    DEF Step, To, TypeOK, Begin, Starting, Refuse, Check, Open, Write, OutputError, Kill,
        Remove, LookUp
  <2>5. todo[p] = Plan(job[p]) /\ Importable(job[p])
    BY <1>3, <2>1 DEF Installing, Active
  <2>6. i \in DOMAIN todo[p] /\ i <= at[p]
    <3>1. i \in DOMAIN todo[p]
      BY <2>1, <2>5, NamesDiffer
    <3> QED BY <2>3, <2>4, <3>1 DEF IsLast, TypeOK
  <2>7. store'[todo[p][i].name] = todo[p][i].doc
    BY <1>3, <2>1, <2>3, <2>4, <2>6, WriteInstalls DEF Stored
  <2>8. todo[p][i].name \in Names /\ todo[p][i].doc = job[p].bundle.entries[i].doc
    BY <2>1, <2>5, <2>6, NamesDiffer
  <2> QED BY <2>7, <2>8
<1> QED BY <1>1, <1>2, <1>3, Invariance, PTL DEF Spec, InstalledIsStored
=============================================================================
