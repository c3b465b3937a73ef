---------------------------- MODULE LocatingProofs ----------------------------
(***************************************************************************)
(* What a resource's text leads to, for every set of texts and hosts and    *)
(* every limit: the bounds of a fetch, that the canonical form of a parsed  *)
(* mURL is read as that mURL, and that no two names share a file or a URL;  *)
(* and for every set of targets and configurations: that what opens is what *)
(* was shown, and that a program gets the target as it was to.              *)
(*                                                                         *)
(* 1. The fetch. Once a URL has been made of a parsed name its scheme says  *)
(* whether the host is a loopback one (Placed), and every later step judges *)
(* by that URL and never by the one it was redirected to. The counters need *)
(* that nothing is refused before it ends (OpenUntilFailed).                *)
(*                                                                         *)
(* 2. Sequences. What follows the last separator is added to the splitting  *)
(* of what precedes it; FlattenSeq is the last value of a function that     *)
(* unrolls it; a sequence joined from parts that lack the separator splits  *)
(* into them again.                                                         *)
(*                                                                         *)
(* 3. Texts. No part that is written has a mark that ends it (Without), so  *)
(* each is read back: versions, selectors, paths, whole texts (FormRead).   *)
(* What is parsed has the shape this needs (WellFormed). Files and URLs     *)
(* hold the path of the name, so they are read back too.                    *)
(*                                                                         *)
(* 4. The invariant that carries it: the mURL at hand is well formed and    *)
(* fits, and the place is the one computed from it (Written).               *)
(*                                                                         *)
(* 5. Targets. A part of a path is what lies between two places where it is *)
(* cut (Framed, Stands); the segments pushed one by one give the text again *)
(* with the system's separators (Slashed), so its parts are known without   *)
(* the fold. Parts that give one element after the other join to the whole  *)
(* (FlattenPicks): this carries Dropping, Filled and Received. The          *)
(* invariant is that each phase keeps what it has made (Offered).           *)
(***************************************************************************)
EXTENDS Locating, SequenceTheorems, FiniteSetTheorems, WellFoundedInduction, TLAPS

Fetching == pc \in {"asking", "waiting", "reading", "fetched"}

Placed ==
    Fetching \/ connected # {} =>
        /\ murl.authority.host \in Hosts
        /\ place = WellKnownUrl(murl)

Parsed == pc = "parsed" => murl.authority.host \in Hosts \cup {Local}

Connections ==
    \A c \in connected :
        IF Host \in LoopbackHosts THEN c.to.kind = "loopback"
        ELSE c.scheme = "https" /\ c.to.kind = "public"

OpenUntilFailed ==
    /\ pc # "failed" => refusal = "none"
    /\ pc \in {"given", "parsed", "offered", "valid", "expanded"} => connected = {}

Counters ==
    /\ limit \in Nat /\ followed \in Nat /\ body \in Nat /\ buffer \in Nat
    /\ buffer <= body /\ buffer <= Cap + 1
    /\ pc \in {"given", "parsed", "asking", "waiting"} => buffer = 0
    /\ followed <= limit

Ends ==
    /\ refusal = "redirect" => followed = limit
    /\ pc = "fetched" => buffer = body /\ body <= Cap
    /\ refusal = "size" => body > Cap

IInv == Parsed /\ Placed /\ Connections /\ OpenUntilFailed /\ Counters /\ Ends

-----------------------------------------------------------------------------
(* 1. The fetch. *)

(* parse_authority: the host of a parsed name is a valid one, or `local`.   *)
LEMMA ParsedHost ==
    ASSUME NEW t, Parse(t) # Error
    PROVE  Parse(t).authority.host \in Hosts \cup {Local}
<1> DEFINE raw == t.authority
           a == ParseAuthority(raw)
<1>1. a # Error => a.host \in Hosts \cup {Local}
  <2>1. CASE /\ raw.host \in Hosts \cup {Local}
             /\ raw.port # None => raw.host # Local /\ raw.port \in Ports
    <3>1. a = [host |-> raw.host, port |-> raw.port]
      BY <2>1, Zenon DEF ParseAuthority
    <3> QED BY <2>1, <3>1
  <2>2. CASE ~(/\ raw.host \in Hosts \cup {Local}
               /\ raw.port # None => raw.host # Local /\ raw.port \in Ports)
    BY <2>2, Zenon DEF ParseAuthority
  <2> QED BY <2>1, <2>2
<1>2. Parse(t).authority = a /\ a # Error
  BY DEF Parse
<1> QED BY <1>1, <1>2

(* A text that has not been located has no connection to account for.       *)
LEMMA InitIInv == Init => IInv
BY CapAssumption DEF Init, IInv, Parsed, Placed, Fetching, Connections, OpenUntilFailed, Counters, Ends

(* A place is computed from a parsed name and then kept.                    *)
LEMMA PlacesStep ==
    ASSUME IInv, [Next]_vars
    PROVE  Parsed' /\ Placed'
<1> USE DEF IInv, Parsed, Placed, Fetching, OpenUntilFailed, Fail
<1>1. CASE ParseText
  <2>1. pc' = "parsed" => murl'.authority.host \in Hosts \cup {Local}
    BY <1>1, ParsedHost DEF ParseText
  <2>2. connected' = {} /\ pc' \in {"parsed", "failed"}
    BY <1>1 DEF ParseText
  <2> QED BY <2>1, <2>2
<1>2. CASE InStore
  BY <1>2 DEF InStore
<1>3. CASE AtAuthority
  BY <1>3, HostsAssumption DEF AtAuthority
<1>4. CASE Connect
  BY <1>4 DEF Connect
<1>5. CASE Downgraded
  BY <1>5 DEF Downgraded
<1>6. CASE Redirected
  BY <1>6 DEF Redirected
<1>7. CASE Answered
  BY <1>7 DEF Answered
<1>8. CASE Broken
  BY <1>8 DEF Broken
<1>9. CASE Read
  BY <1>9 DEF Read
<1>10. CASE ReadAll
  BY <1>10 DEF ReadAll
<1>11. CASE Validate
  BY <1>11 DEF Validate, fetching
<1>12. CASE Expand
  BY <1>12 DEF Expand, fetching
<1>13. CASE Launch
  BY <1>13 DEF Launch, fetching
<1>14. CASE UNCHANGED vars
  BY <1>14 DEF vars
<1> QED
  BY <1>1, <1>2, <1>3, <1>4, <1>5, <1>6, <1>7, <1>8, <1>9, <1>10, <1>11, <1>12, <1>13, <1>14
  DEF Next

(* Only Connect adds a connection, and by the URL the fetch began with.     *)
LEMMA ConnectionsStep ==
    ASSUME IInv, [Next]_vars
    PROVE  Connections'
<1> USE DEF IInv
<1>1. CASE Connect
  <2>1. murl.authority.host \in Hosts /\ place = WellKnownUrl(murl)
    BY <1>1 DEF Placed, Fetching, Connect
  <2>2. /\ place.authority.host = Host
        /\ place.scheme = IF Host \in LoopbackHosts THEN "http" ELSE "https"
    BY <2>1 DEF WellKnownUrl, IsLoopback, Host
  <2>3. Host \notin LoopbackHosts => hop = "https"
    BY <1>1, <2>2 DEF Connect, HttpsOnly
  <2>4. \A c \in connected' :
            c \in connected
            \/ /\ c.scheme = hop
               /\ c.to.kind = IF Host \in LoopbackHosts THEN "loopback" ELSE "public"
    BY <1>1, <2>2 DEF Connect, IpAllowed, IsLoopback
  <2>5. Host' = Host
    BY <1>1 DEF Connect, Host
  <2> QED BY <2>3, <2>4, <2>5 DEF Connections
<1>2. CASE ParseText
  BY <1>2 DEF ParseText, OpenUntilFailed, Connections
<1>3. CASE ~Connect /\ ~ParseText
  <2>1. UNCHANGED <<murl, connected>>
    BY <1>3 DEF Next, InStore, AtAuthority, Downgraded, Redirected, Answered, Broken, Read,
                ReadAll, Validate, Expand, Launch, fetching, vars
  <2> QED BY <2>1 DEF Connections, Host
<1> QED BY <1>1, <1>2, <1>3

(* A step counts what it follows and reads, and refuses at the limit.       *)
LEMMA CountersStep ==
    ASSUME IInv, [Next]_vars
    PROVE  Counters' /\ OpenUntilFailed' /\ Ends'
<1> USE CapAssumption DEF IInv, Counters, OpenUntilFailed, Ends, Fail
<1>1. CASE ParseText
  BY <1>1 DEF ParseText
<1>2. CASE InStore
  BY <1>2 DEF InStore
<1>3. CASE AtAuthority
  BY <1>3 DEF AtAuthority
<1>4. CASE Connect
  BY <1>4 DEF Connect
<1>5. CASE Downgraded
  BY <1>5 DEF Downgraded
<1>6. CASE Redirected
  <2>1. CASE UreqRedirects(limit) = 0 \/ followed + 1 >= UreqRedirects(limit)
    <3>1. followed = limit
      BY <2>1 DEF UreqRedirects
    <3> QED BY <1>6, <2>1, <3>1 DEF Redirected
  <2>2. CASE ~(UreqRedirects(limit) = 0 \/ followed + 1 >= UreqRedirects(limit))
    <3>1. followed + 1 <= limit
      BY <2>2 DEF UreqRedirects
    <3> QED BY <1>6, <2>2, <3>1 DEF Redirected
  <2> QED BY <2>1, <2>2
<1>7. CASE Answered
  BY <1>7 DEF Answered
<1>8. CASE Broken
  BY <1>8 DEF Broken
<1>9. CASE Read
  BY <1>9 DEF Read, ReadAtMost
<1>10. CASE ReadAll
  BY <1>10 DEF ReadAll, ReadAtMost
<1>11. CASE Validate
  BY <1>11 DEF Validate, fetching
<1>12. CASE Expand
  BY <1>12 DEF Expand, fetching
<1>13. CASE Launch
  BY <1>13 DEF Launch, fetching
<1>14. CASE UNCHANGED vars
  BY <1>14 DEF vars
<1> QED
  BY <1>1, <1>2, <1>3, <1>4, <1>5, <1>6, <1>7, <1>8, <1>9, <1>10, <1>11, <1>12, <1>13, <1>14
  DEF Next

(* The invariant the bounds of a fetch rest on.                             *)
THEOREM Invariance == Spec => []IInv
<1>1. Init => IInv
  BY InitIInv
<1>2. IInv /\ [Next]_vars => IInv'
  BY PlacesStep, ConnectionsStep, CountersStep DEF IInv
<1> QED BY <1>1, <1>2, PTL DEF Spec

(* Plain http stays on this machine and belongs to a loopback name; nothing *)
(* else leaves https and public addresses (HttpsFetcher, GuardedResolver).  *)
THEOREM FetchBounds == Spec => []FetchStaysInBounds
<1>1. IInv => FetchStaysInBounds
  BY DEF IInv, Placed, Connections, FetchStaysInBounds, Host
<1> QED BY <1>1, Invariance, PTL

(* ureq_redirects and read_capped: exactly max_redirects are followed, and  *)
(* the whole of a body that fits is taken and nothing of another.           *)
THEOREM FetchLimits == Spec => []LimitsExact
<1>1. IInv => LimitsExact
  BY DEF IInv, Counters, Ends, LimitsExact, RedirectsExact, WholeOrRefused
<1> QED BY <1>1, Invariance, PTL

-----------------------------------------------------------------------------
(* 2. Sequences: splitting, joining and searching them. *)

(* A nonempty set of naturals has a least member.                           *)
LEMMA LeastNatural ==
    ASSUME NEW T \in SUBSET Nat, T # {}
    PROVE  \E m \in T : \A k \in T : m <= k
<1>1. IsWellFoundedOn(OpToRel(<, Nat), Nat)
  BY NatLessThanWellFounded
<1>2. PICK m \in T : \A k \in T : <<k, m>> \notin OpToRel(<, Nat)
  BY <1>1, WFMin
<1>3. \A k \in T : ~(k < m)
  BY <1>2 DEF OpToRel
<1> QED BY <1>3

(* Induction up to n, over a set instead of a predicate.                    *)
LEMMA Climbs ==
    ASSUME NEW n \in Nat, NEW S, 1 \in S,
           \A i \in 1 .. n : i \in S /\ i < n => i + 1 \in S
    PROVE  1 .. n \subseteq S
<1> SUFFICES ASSUME (1 .. n) \ S # {} PROVE FALSE
  OBVIOUS
<1>1. PICK m \in (1 .. n) \ S : \A k \in (1 .. n) \ S : m <= k
  <2> DEFINE T == (1 .. n) \ S
  <2>1. T \in SUBSET Nat /\ T # {}
    OBVIOUS
  <2> HIDE DEF T
  <2>2. \E m \in T : \A k \in T : m <= k
    BY <2>1, LeastNatural
  <2> QED BY <2>2 DEF T
<1>2. m # 1 /\ m \in Nat
  BY <1>1
<1>3. m - 1 \in 1 .. n /\ m - 1 < m /\ m - 1 < n
  BY <1>1, <1>2
<1>4. m - 1 \in S
  BY <1>1, <1>3
<1>5. (m - 1) + 1 \in S
  BY <1>3, <1>4
<1> QED BY <1>1, <1>2, <1>5

-----------------------------------------------------------------------------
(* The cuts of a sequence, numbered by how many there are before each.      *)
Rank(S, i) == Cardinality({j \in S : j < i})
Cut(S, k) == CHOOSE i \in S : Rank(S, i) = k

(* The next cut has the next number.                                        *)
LEMMA RankStep ==
    ASSUME NEW S \in SUBSET Nat, IsFiniteSet(S), NEW i \in S, NEW m \in S, i < m,
           \A j \in S : j <= i \/ m <= j
    PROVE  Rank(S, i) \in Nat /\ Rank(S, m) = Rank(S, i) + 1
<1> DEFINE B == {j \in S : j < i}
<1>1. IsFiniteSet(B) /\ Cardinality(B) \in Nat
  BY FS_Subset, FS_CardinalityType
<1>2. {j \in S : j < m} = B \cup {i}
  <2>1. \A j \in S : j \in Nat /\ (j < m <=> j < i \/ j = i)
    OBVIOUS
  <2> QED BY <2>1
<1>3. i \notin B
  OBVIOUS
<1> HIDE DEF B
<1>4. Cardinality(B \cup {i}) = Cardinality(B) + 1
  BY <1>1, <1>3, FS_AddElement
<1> QED BY <1>1, <1>2, <1>4 DEF Rank, B

(* A cut's number is less than the number of cuts.                          *)
LEMMA RankType ==
    ASSUME NEW S \in SUBSET Nat, IsFiniteSet(S), NEW i \in Nat
    PROVE  Rank(S, i) \in Nat /\ (i \in S => Rank(S, i) < Cardinality(S))
<1> DEFINE B == {j \in S : j < i}
<1>1. /\ IsFiniteSet(B) /\ Cardinality(B) \in Nat /\ Cardinality(S) \in Nat
      /\ Cardinality(B) <= Cardinality(S)
      /\ Cardinality(S) = Cardinality(B) => S = B
  BY FS_Subset, FS_CardinalityType
<1>2. i \in S => S # B
  OBVIOUS
<1> HIDE DEF B
<1>3. i \in S => Cardinality(B) < Cardinality(S)
  BY <1>1, <1>2
<1> QED BY <1>1, <1>3 DEF Rank, B

(* Later cuts have greater numbers.                                         *)
LEMMA RankGrows ==
    ASSUME NEW S \in SUBSET Nat, IsFiniteSet(S), NEW i \in S, NEW j \in S, i < j
    PROVE  Rank(S, i) < Rank(S, j)
<1> DEFINE A == {k \in S : k < i}
           B == {k \in S : k < j}
<1>1. IsFiniteSet(B) /\ IsFiniteSet(A) /\ Cardinality(A) \in Nat /\ Cardinality(B) \in Nat
  BY FS_Subset, FS_CardinalityType
<1>2. A \in SUBSET B /\ i \in B /\ i \notin A
  <2>1. \A k \in S : k \in Nat /\ (k < i => k < j) /\ ~(i < i)
    OBVIOUS
  <2> QED BY <2>1
<1> HIDE DEF A, B
<1>3. Cardinality(A) <= Cardinality(B) /\ (Cardinality(B) = Cardinality(A) => B = A)
  BY <1>1, <1>2, FS_Subset
<1>4. Cardinality(A) < Cardinality(B)
  BY <1>1, <1>2, <1>3
<1> QED BY <1>4 DEF Rank, A, B

(* Every number below theirs is that of some cut.                           *)
LEMMA RankExists ==
    ASSUME NEW S \in SUBSET Nat, IsFiniteSet(S), NEW k \in Nat, k < Cardinality(S)
    PROVE  \E i \in S : Rank(S, i) = k
<1> DEFINE Missed == {n \in Nat : n < Cardinality(S) /\ \A i \in S : Rank(S, i) # n}
<1> SUFFICES ASSUME Missed # {} PROVE FALSE
  OBVIOUS
<1>1. PICK n \in Missed : \A m \in Missed : n <= m
  <2>1. Missed \in SUBSET Nat
    OBVIOUS
  <2> HIDE DEF Missed
  <2> QED BY <2>1, LeastNatural
<1>2. Cardinality(S) \in Nat
  BY FS_CardinalityType
<1>3. CASE n = 0
  <2>1. S # {}
    BY <1>1, <1>2, FS_EmptySet
  <2>2. PICK m \in S : \A j \in S : m <= j
    BY <2>1, LeastNatural
  <2>3. {j \in S : j < m} = {}
    <3>1. \A j \in S : ~(j < m)
      BY <2>2
    <3> QED BY <3>1
  <2>4. Rank(S, m) = 0
    BY <2>3, FS_EmptySet DEF Rank
  <2> QED BY <1>1, <1>3, <2>4
<1>4. CASE n # 0
  <2>1. n - 1 \in Nat /\ n - 1 < Cardinality(S) /\ n - 1 \notin Missed
    BY <1>1, <1>2, <1>4
  <2>2. PICK i \in S : Rank(S, i) = n - 1
    BY <2>1
  <2> DEFINE Later == {j \in S : i < j}
  <2>3. Later # {}
    <3>1. SUFFICES ASSUME Later = {} PROVE FALSE
      OBVIOUS
    <3>2. S = {j \in S : j < i} \cup {i}
      <4>1. \A j \in S : j < i \/ j = i
        BY <3>1
      <4> QED BY <4>1
    <3>3. IsFiniteSet({j \in S : j < i})
      BY FS_Subset
    <3>4. Cardinality(S) <= Cardinality({j \in S : j < i}) + 1
      BY <3>2, <3>3, FS_AddElement, FS_CardinalityType
    <3>5. Cardinality({j \in S : j < i}) = n - 1
      BY <2>2 DEF Rank
    <3> QED BY <1>1, <1>2, <3>4, <3>5
  <2>4. PICK m \in Later : \A j \in Later : m <= j
    <3>1. Later \in SUBSET Nat
      OBVIOUS
    <3> HIDE DEF Later
    <3> QED BY <2>3, <3>1, LeastNatural
  <2>5. Rank(S, m) = Rank(S, i) + 1
    BY <2>4, RankStep
  <2> QED BY <1>1, <2>2, <2>4, <2>5
<1> QED BY <1>3, <1>4

(* The cuts are all there, in order, and there is none between one and the  *)
(* next.                                                                    *)
LEMMA CutMeans ==
    ASSUME NEW S \in SUBSET Nat, IsFiniteSet(S), NEW k \in Nat, k < Cardinality(S)
    PROVE  Cut(S, k) \in S /\ Rank(S, Cut(S, k)) = k
BY RankExists DEF Cut

(* Only the cut of a number has it.                                         *)
LEMMA CutUnique ==
    ASSUME NEW S \in SUBSET Nat, IsFiniteSet(S), NEW i \in S
    PROVE  Cut(S, Rank(S, i)) = i
<1> DEFINE k == Rank(S, i)
<1>1. k \in Nat /\ k < Cardinality(S)
  BY RankType
<1>2. Cut(S, k) \in S /\ Rank(S, Cut(S, k)) = k
  BY <1>1, CutMeans
<1> DEFINE c == Cut(S, k)
<1> HIDE DEF c
<1>3. c \in S /\ Rank(S, c) = k
  BY <1>2 DEF c
<1>4. ~(c < i)
  BY <1>1, <1>3, RankGrows
<1>5. ~(i < c)
  BY <1>1, <1>3, RankGrows
<1>6. c \in Nat /\ i \in Nat
  BY <1>3
<1>7. c = i
  BY <1>4, <1>5, <1>6
<1> QED BY <1>7 DEF c

(* Cuts are numbered in order, with none between two neighbours.            *)
LEMMA CutsInOrder ==
    ASSUME NEW S \in SUBSET Nat, IsFiniteSet(S), NEW k \in 1 .. Cardinality(S) - 1
    PROVE  /\ Cut(S, k - 1) \in S /\ Cut(S, k) \in S /\ Cut(S, k - 1) < Cut(S, k)
           /\ \A i \in S : i <= Cut(S, k - 1) \/ Cut(S, k) <= i
<1>1. Cardinality(S) \in Nat
  BY FS_CardinalityType
<1>2. k \in Nat /\ k - 1 \in Nat /\ k < Cardinality(S) /\ k - 1 < Cardinality(S)
  BY <1>1
<1> DEFINE a == Cut(S, k - 1)
           b == Cut(S, k)
<1>3. a \in S /\ b \in S /\ Rank(S, a) = k - 1 /\ Rank(S, b) = k
  BY <1>2, CutMeans
<1> HIDE DEF a, b
<1>4. a < b
  <2>1. a \in Nat /\ b \in Nat /\ a # b
    BY <1>2, <1>3
  <2>2. ~(b < a)
    BY <1>2, <1>3, RankGrows
  <2> QED BY <2>1, <2>2
<1>5. ASSUME NEW i \in S, a < i, i < b PROVE FALSE
  <2>1. Rank(S, a) < Rank(S, i) /\ Rank(S, i) < Rank(S, b) /\ Rank(S, i) \in Nat
    BY <1>3, <1>5, RankGrows, RankType
  <2> QED BY <1>2, <1>3, <2>1
<1>6. \A i \in S : i <= a \/ b <= i
  <2>1. a \in Nat /\ b \in Nat /\ \A i \in S : i \in Nat
    BY <1>3
  <2> QED BY <1>5, <2>1
<1> QED BY <1>3, <1>4, <1>6 DEF a, b

-----------------------------------------------------------------------------
(* What Split makes of a sequence: the pieces between its cuts.             *)
CutsOf(s, I) == {0, Len(s) + 1} \cup I
Pieces(s, I) ==
    [k \in 1 .. Cardinality(CutsOf(s, I)) - 1 |->
        SubSeq(s, Cut(CutsOf(s, I), k - 1) + 1, Cut(CutsOf(s, I), k) - 1)]
Places(s, char) == {i \in DOMAIN s : s[i] = Plain(char)}

(* Split takes the pieces between the places of the character.              *)
LEMMA SplitIsPieces == \A s, char : Split(s, char) = Pieces(s, Places(s, char))
BY DEF Split, Pieces, CutsOf, Cut, Rank, Places

(* The cuts of a sequence are finitely many, from 0 to one past its end.    *)
LEMMA CutsFacts ==
    ASSUME NEW T, NEW s \in Seq(T), NEW I \in SUBSET (1 .. Len(s))
    PROVE  /\ Len(s) \in Nat
           /\ CutsOf(s, I) \in SUBSET Nat /\ IsFiniteSet(CutsOf(s, I))
           /\ Cardinality(CutsOf(s, I)) \in Nat /\ Cardinality(CutsOf(s, I)) >= 2
<1> DEFINE S == CutsOf(s, I)
<1>1. Len(s) \in Nat
  BY LenProperties
<1>2. S \in SUBSET Nat /\ \A i \in S : i <= Len(s) + 1
  <2>1. \A i \in I : i \in Nat /\ i <= Len(s) + 1
    BY <1>1
  <2>2. \A i \in S : i \in I \/ i = 0 \/ i = Len(s) + 1
    BY DEF CutsOf
  <2>3. 0 <= Len(s) + 1 /\ Len(s) + 1 <= Len(s) + 1 /\ 0 \in Nat /\ Len(s) + 1 \in Nat
    BY <1>1
  <2> HIDE DEF S
  <2>4. \A i \in S : i \in Nat /\ i <= Len(s) + 1
    BY <2>1, <2>2, <2>3
  <2> QED BY <2>4
<1>3. 0 \in S /\ Len(s) + 1 \in S /\ 0 # Len(s) + 1 /\ Len(s) + 1 \in Nat
  BY <1>1 DEF CutsOf
<1> HIDE DEF S
<1>4. IsFiniteSet(S) /\ Cardinality(S) \in Nat
  BY <1>2, <1>3, FS_BoundedSetOfNaturals, FS_CardinalityType
<1>5. Cardinality(S) # 0 /\ Cardinality(S) # 1
  BY <1>3, <1>4, FS_EmptySet, FS_Singleton
<1> QED BY <1>1, <1>2, <1>4, <1>5 DEF S

(* The pieces of a sequence are sequences of its elements, one or more.     *)
LEMMA PieceFacts ==
    ASSUME NEW T, NEW s \in Seq(T), NEW I \in SUBSET (1 .. Len(s))
    PROVE  /\ Pieces(s, I) \in Seq(Seq(T)) /\ Len(Pieces(s, I)) \in Nat \ {0}
           /\ Len(Pieces(s, I)) = Cardinality(CutsOf(s, I)) - 1
           /\ DOMAIN Pieces(s, I) = 1 .. Len(Pieces(s, I))
           /\ \A k \in 1 .. Len(Pieces(s, I)) : \A i \in 1 .. Len(Pieces(s, I)[k]) :
                 \E p \in (1 .. Len(s)) \ I : Pieces(s, I)[k][i] = s[p]
<1> DEFINE S == CutsOf(s, I)
           n == Cardinality(S) - 1
<1>1. /\ Len(s) \in Nat /\ S \in SUBSET Nat /\ IsFiniteSet(S) /\ n \in Nat \ {0}
      /\ \A i \in S : i <= Len(s) + 1
      /\ \A i \in 1 .. Len(s) : i \in I => i \in S
      /\ \A i \in 1 .. Len(s) : s[i] \in T
  <2>1. Len(s) \in Nat /\ S \in SUBSET Nat /\ IsFiniteSet(S) /\ n \in Nat \ {0}
    <3>1. Cardinality(S) \in Nat /\ Cardinality(S) >= 2
      BY CutsFacts
    <3> QED BY <3>1, CutsFacts
  <2>2. \A i \in I : i <= Len(s) + 1
    BY <2>1
  <2>3. \A i \in S : i \in I \/ i = 0 \/ i = Len(s) + 1
    BY DEF CutsOf
  <2>4. \A i \in 1 .. Len(s) : i \in I => i \in S
    BY DEF CutsOf
  <2>5. \A i \in 1 .. Len(s) : s[i] \in T
    BY ElementOfSeq
  <2>6. 0 <= Len(s) + 1 /\ Len(s) + 1 <= Len(s) + 1
    BY <2>1
  <2> HIDE DEF S, n
  <2>7. \A i \in S : i <= Len(s) + 1
    BY <2>2, <2>3, <2>6
  <2> QED BY <2>1, <2>4, <2>5, <2>7
<1>2. Pieces(s, I) = [k \in 1 .. n |-> SubSeq(s, Cut(S, k - 1) + 1, Cut(S, k) - 1)]
  BY DEF Pieces
<1>3. \A k \in 1 .. n :
         /\ Cut(S, k - 1) \in S /\ Cut(S, k) \in S /\ Cut(S, k - 1) < Cut(S, k)
         /\ \A i \in S : i <= Cut(S, k - 1) \/ Cut(S, k) <= i
  BY <1>1, CutsInOrder
<1> HIDE DEF n, S
<1>4. ASSUME NEW k \in 1 .. n
      PROVE  /\ Pieces(s, I)[k] \in Seq(T)
             /\ \A i \in 1 .. Len(Pieces(s, I)[k]) :
                   \E p \in (1 .. Len(s)) \ I : Pieces(s, I)[k][i] = s[p]
  <2> DEFINE a == Cut(S, k - 1)
             b == Cut(S, k)
             t == SubSeq(s, a + 1, b - 1)
  <2>1. /\ a \in Nat /\ b \in Nat /\ a < b /\ b <= Len(s) + 1
        /\ \A i \in S : i <= a \/ b <= i
    BY <1>1, <1>3
  <2>2. Pieces(s, I)[k] = t
    BY <1>2
  <2> HIDE DEF a, b
  <2>3. a + 1 \in Int /\ b - 1 \in Int /\ \A i \in (a + 1) .. (b - 1) : i \in 1 .. Len(s) /\ s[i] \in T
    BY <1>1, <2>1
  <2>4. /\ t \in Seq(T)
        /\ Len(t) = b - a - 1
        /\ \A i \in 1 .. (b - a - 1) : t[i] = s[a + i]
    <3>1. /\ t \in Seq(T)
          /\ Len(t) = IF a + 1 <= b - 1 THEN (b - 1) - (a + 1) + 1 ELSE 0
          /\ \A i \in 1 .. (b - 1) - (a + 1) + 1 : t[i] = s[(a + 1) + i - 1]
      BY <2>3, SubSeqProperties
    <3> QED BY <2>1, <3>1
  <2>5. ASSUME NEW i \in 1 .. Len(t)
        PROVE  a + i \in (1 .. Len(s)) \ I /\ t[i] = s[a + i]
    <3>1. i \in 1 .. (b - a - 1)
      BY <2>4
    <3> HIDE DEF t
    <3>2. a + i \in 1 .. Len(s) /\ a < a + i /\ a + i < b
      BY <2>1, <3>1, <1>1
    <3>3. t[i] = s[a + i]
      BY <2>4, <3>1
    <3>4. a + i \notin S
      BY <2>1, <3>2
    <3> QED BY <1>1, <3>2, <3>3, <3>4
  <2> QED BY <2>2, <2>4, <2>5
<1>5. Pieces(s, I) \in Seq(Seq(T)) /\ Len(Pieces(s, I)) = n /\ DOMAIN Pieces(s, I) = 1 .. n
  <2> DEFINE f == Pieces(s, I)
  <2>1. DOMAIN f = 1 .. n /\ f = [k \in 1 .. n |-> f[k]]
    BY <1>2
  <2>2. f \in [1 .. n -> Seq(T)]
    BY <1>4, <2>1
  <2> HIDE DEF f
  <2>3. f \in Seq(Seq(T)) /\ Len(f) = n
    BY <1>1, <2>1, <2>2
  <2> QED BY <2>1, <2>3 DEF f
<1> QED BY <1>1, <1>4, <1>5 DEF n, S

(* Without a cut there is one piece.                                        *)
LEMMA PiecesOne ==
    ASSUME NEW T, NEW s \in Seq(T)
    PROVE  Pieces(s, {}) = <<s>>
<1> DEFINE S == CutsOf(s, {})
           e == Len(s) + 1
<1>1. Len(s) \in Nat /\ S \in SUBSET Nat /\ IsFiniteSet(S) /\ e \in Nat /\ 0 < e
  BY CutsFacts
<1>2. S = {0} \cup {e}
  BY DEF CutsOf
<1>3. Cardinality(S) = 2
  <2>1. IsFiniteSet({0}) /\ Cardinality({0}) = 1
    BY FS_Singleton
  <2>2. e \notin {0}
    BY <1>1
  <2> HIDE DEF e, S
  <2>3. Cardinality({0} \cup {e}) = 1 + 1
    BY <2>1, <2>2, FS_AddElement
  <2>4. Cardinality(S) = 1 + 1
    BY <1>2, <2>3, Zenon
  <2> QED BY <2>4
<1>4. /\ Cut(S, 0) \in S /\ Cut(S, 1) \in S /\ Cut(S, 0) < Cut(S, 1)
  <2>1. 1 \in 1 .. Cardinality(S) - 1 /\ 1 - 1 = 0
    BY <1>3
  <2> HIDE DEF S
  <2>2. Cut(S, 1 - 1) \in S /\ Cut(S, 1) \in S /\ Cut(S, 1 - 1) < Cut(S, 1)
    BY <1>1, <2>1, CutsInOrder
  <2> QED BY <2>1, <2>2
<1> HIDE DEF e
<1>5. Cut(S, 0) = 0 /\ Cut(S, 1) = e
  <2> DEFINE a == Cut(S, 0)
             b == Cut(S, 1)
  <2>1. a \in {0, e} /\ b \in {0, e} /\ a < b
    BY <1>2, <1>4
  <2> HIDE DEF a, b
  <2>2. a = 0 /\ b = e
    BY <1>1, <2>1
  <2> QED BY <2>2 DEF a, b
<1>6. Pieces(s, {}) = [k \in 1 .. 2 - 1 |-> SubSeq(s, Cut(S, k - 1) + 1, Cut(S, k) - 1)]
  BY <1>3 DEF Pieces
<1>7. SubSeq(s, Cut(S, 1 - 1) + 1, Cut(S, 1) - 1) = s
  <2>1. SubSeq(s, 1, Len(s)) = s
    BY SubSeqFull
  <2>2. Cut(S, 1 - 1) + 1 = 1 /\ Cut(S, 1) - 1 = Len(s)
    BY <1>1, <1>5 DEF e
  <2> QED BY <2>1, <2>2
<1> HIDE DEF S
<1>8. Pieces(s, {}) = [k \in 1 .. 1 |-> s]
  <2> DEFINE g(k) == SubSeq(s, Cut(S, k - 1) + 1, Cut(S, k) - 1)
  <2>1. g(1) = s
    BY <1>7
  <2>2. Pieces(s, {}) = [k \in 1 .. 2 - 1 |-> g(k)]
    BY <1>6
  <2> HIDE DEF g
  <2>3. \A k \in 1 .. 2 - 1 : g(k) = s
    BY <2>1
  <2>4. 2 - 1 = 1
    OBVIOUS
  <2> QED BY <2>2, <2>3, <2>4
<1>9. [k \in 1 .. 1 |-> s] = <<s>>
  OBVIOUS
<1> QED BY <1>8, <1>9

(* A last cut adds a last piece.                                            *)
LEMMA PiecesMore ==
    ASSUME NEW T, NEW a \in Seq(T), NEW x \in T, NEW b \in Seq(T), NEW I \in SUBSET (1 .. Len(a))
    PROVE  Pieces(a \o <<x>> \o b, I \cup {Len(a) + 1}) = Append(Pieces(a, I), b)
<1> DEFINE s == a \o <<x>> \o b
           J == I \cup {Len(a) + 1}
           S == CutsOf(a, I)
           e == Len(a) + Len(b) + 2
           c == Cardinality(S)
<1>1. /\ Len(a) \in Nat /\ Len(b) \in Nat /\ Len(s) = Len(a) + Len(b) + 1 /\ s \in Seq(T)
      /\ \A i \in 1 .. Len(a) : s[i] = a[i]
      /\ \A i \in 1 .. Len(b) : s[Len(a) + 1 + i] = b[i]
  <2>1. Len(a) \in Nat /\ Len(b) \in Nat /\ <<x>> \in Seq(T) /\ Len(<<x>>) = 1
    BY LenProperties
  <2>2. /\ a \o <<x>> \in Seq(T) /\ Len(a \o <<x>>) = Len(a) + 1
        /\ \A i \in 1 .. Len(a) + 1 : (a \o <<x>>)[i] = IF i <= Len(a) THEN a[i] ELSE <<x>>[i - Len(a)]
    BY <2>1, ConcatProperties
  <2> DEFINE t == a \o <<x>>
  <2> HIDE DEF t
  <2>3. /\ t \o b \in Seq(T) /\ Len(t \o b) = Len(t) + Len(b)
        /\ \A i \in 1 .. Len(t) + Len(b) : (t \o b)[i] = IF i <= Len(t) THEN t[i] ELSE b[i - Len(t)]
    BY <2>2, ConcatProperties DEF t
  <2>4. Len(t) = Len(a) + 1 /\ \A i \in 1 .. Len(a) : t[i] = a[i]
    BY <2>1, <2>2 DEF t
  <2>5. s = t \o b
    BY DEF t
  <2> HIDE DEF s
  <2>6. \A i \in 1 .. Len(a) : s[i] = a[i]
    BY <2>1, <2>3, <2>4, <2>5
  <2>7. ASSUME NEW i \in 1 .. Len(b) PROVE s[Len(a) + 1 + i] = b[i]
    <3>1. Len(a) + 1 + i \in 1 .. Len(t) + Len(b) /\ ~(Len(a) + 1 + i <= Len(t))
          /\ (Len(a) + 1 + i) - Len(t) = i
      BY <2>1, <2>4
    <3> QED BY <2>3, <2>5, <3>1
  <2> QED BY <2>1, <2>3, <2>4, <2>5, <2>6, <2>7
<1>2. S \in SUBSET Nat /\ IsFiniteSet(S) /\ c \in Nat /\ c >= 2
  BY CutsFacts
<1>3. \A i \in S : i \in Nat /\ i <= Len(a) + 1
  <2>1. \A i \in I : i <= Len(a) + 1
    BY <1>1
  <2>2. \A i \in S : i \in I \/ i = 0 \/ i = Len(a) + 1
    BY DEF CutsOf
  <2> QED BY <1>1, <1>2, <2>1, <2>2
<1>4. Len(a) + 1 \in S /\ CutsOf(s, J) = S \cup {e}
  <2>1. Len(s) + 1 = e
    BY <1>1
  <2> QED BY <2>1 DEF CutsOf
<1> DEFINE S2 == S \cup {e}
<1> HIDE DEF s, J, S, e, c
<1>5. e \in Nat /\ (\A i \in S : i < e) /\ e \notin S
  BY <1>1, <1>3 DEF e
<1>6. S2 \in SUBSET Nat /\ IsFiniteSet(S2) /\ Cardinality(S2) = c + 1
  BY <1>2, <1>5, FS_AddElement DEF c
<1>7. \A i \in S : Rank(S2, i) = Rank(S, i)
  <2>1. ASSUME NEW i \in S PROVE {j \in S2 : j < i} = {j \in S : j < i}
    <3>1. i \in Nat /\ i < e
      BY <1>3, <1>5
    <3>2. ~(e < i)
      BY <1>5, <3>1
    <3> QED BY <3>2
  <2> QED BY <2>1 DEF Rank
<1>8. Rank(S2, e) = c
  <2>1. {j \in S2 : j < e} = S
    <3>1. \A j \in S : j < e
      BY <1>5
    <3>2. ~(e < e)
      BY <1>5
    <3> QED BY <3>1, <3>2
  <2> QED BY <2>1 DEF Rank, c
<1>9. ASSUME NEW k \in Nat, k < c PROVE Cut(S2, k) = Cut(S, k)
  <2>1. Cut(S, k) \in S /\ Rank(S, Cut(S, k)) = k
    BY <1>2, <1>9, CutMeans DEF c
  <2>2. Cut(S, k) \in S2 /\ Rank(S2, Cut(S, k)) = k
    BY <1>7, <2>1
  <2> HIDE DEF S2
  <2>3. Cut(S2, Rank(S2, Cut(S, k))) = Cut(S, k)
    BY <1>6, <2>2, CutUnique
  <2> QED BY <2>2, <2>3
<1>10. Cut(S2, c) = e
  <2>1. e \in S2
    OBVIOUS
  <2> HIDE DEF S2
  <2>2. Cut(S2, Rank(S2, e)) = e
    BY <1>6, <2>1, CutUnique
  <2> QED BY <1>8, <2>2
<1>11. Cut(S, c - 1) = Len(a) + 1
  <2> DEFINE l == Cut(S, c - 1)
  <2>1. l \in S /\ Rank(S, l) = c - 1
    BY <1>2, CutMeans DEF c
  <2> HIDE DEF l
  <2>2. ASSUME l < Len(a) + 1 PROVE FALSE
    <3>1. Rank(S, l) < Rank(S, Len(a) + 1)
      BY <1>2, <1>4, <2>1, <2>2, RankGrows
    <3>2. Rank(S, Len(a) + 1) \in Nat /\ Rank(S, Len(a) + 1) < c
      BY <1>1, <1>2, <1>4, RankType DEF c
    <3> QED BY <1>2, <2>1, <3>1, <3>2
  <2>3. l = Len(a) + 1
    BY <1>1, <1>3, <2>1, <2>2
  <2> QED BY <2>3 DEF l
<1>12. Pieces(a, I) = [k \in 1 .. c - 1 |-> SubSeq(a, Cut(S, k - 1) + 1, Cut(S, k) - 1)]
  BY DEF Pieces, S, c
<1>13. Pieces(s, J) = [k \in 1 .. (c + 1) - 1 |-> SubSeq(s, Cut(S2, k - 1) + 1, Cut(S2, k) - 1)]
  BY <1>4, <1>6 DEF Pieces
<1>14. ASSUME NEW k \in 1 .. c - 1
       PROVE  SubSeq(s, Cut(S2, k - 1) + 1, Cut(S2, k) - 1) = Pieces(a, I)[k]
  <2> DEFINE u == Cut(S, k - 1)
             v == Cut(S, k)
  <2>1. k \in Nat /\ k - 1 \in Nat /\ k < c /\ k - 1 < c
    BY <1>2
  <2>2. u \in S /\ v \in S
    BY <1>2, <2>1, CutMeans DEF c
  <2>3. Cut(S2, k - 1) = u /\ Cut(S2, k) = v
    BY <1>9, <2>1
  <2> HIDE DEF u, v
  <2>4. u \in Nat /\ v \in Nat /\ v <= Len(a) + 1
    BY <1>3, <2>2
  <2>5. /\ u + 1 \in Int /\ v - 1 \in Int
        /\ \A i \in (u + 1) .. (v - 1) : s[i] = a[i] /\ a[i] \in T /\ s[i] \in T
    <3>1. \A i \in (u + 1) .. (v - 1) : i \in 1 .. Len(a)
      BY <1>1, <2>4
    <3> QED BY <1>1, <2>4, <3>1, ElementOfSeq
  <2>6. SubSeq(s, u + 1, v - 1) = SubSeq(a, u + 1, v - 1)
    <3> DEFINE p == SubSeq(s, u + 1, v - 1)
               q == SubSeq(a, u + 1, v - 1)
    <3>1. /\ p \in Seq(T) /\ Len(p) = IF u + 1 <= v - 1 THEN (v - 1) - (u + 1) + 1 ELSE 0
          /\ \A i \in 1 .. (v - 1) - (u + 1) + 1 : p[i] = s[(u + 1) + i - 1]
      BY <2>5, SubSeqProperties
    <3>2. /\ q \in Seq(T) /\ Len(q) = IF u + 1 <= v - 1 THEN (v - 1) - (u + 1) + 1 ELSE 0
          /\ \A i \in 1 .. (v - 1) - (u + 1) + 1 : q[i] = a[(u + 1) + i - 1]
      BY <2>5, SubSeqProperties
    <3> HIDE DEF p, q
    <3>3. ASSUME NEW i \in 1 .. Len(p) PROVE p[i] = q[i]
      <4>1. i \in 1 .. (v - 1) - (u + 1) + 1
        BY <2>4, <3>1
      <4>2. (u + 1) + i - 1 \in (u + 1) .. (v - 1)
        BY <2>4, <4>1
      <4> QED BY <2>5, <3>1, <3>2, <4>1, <4>2
    <3>4. p = q
      BY <3>1, <3>2, <3>3, SeqEqual
    <3> QED BY <3>4 DEF p, q
  <2> QED BY <1>12, <2>3, <2>6 DEF u, v
<1>15. SubSeq(s, Cut(S2, c - 1) + 1, Cut(S2, c) - 1) = b
  <2>1. Cut(S2, c - 1) = Len(a) + 1
    <3>1. c - 1 \in Nat /\ c - 1 < c
      BY <1>2
    <3> QED BY <1>9, <1>11, <3>1
  <2> DEFINE m == Len(a) + 2
             n == Len(a) + Len(b) + 1
             p == SubSeq(s, m, n)
  <2>2. Cut(S2, c - 1) + 1 = m /\ Cut(S2, c) - 1 = n
    BY <1>1, <1>10, <2>1 DEF e
  <2>3. m \in Int /\ n \in Int /\ \A i \in m .. n : i \in 1 .. Len(s)
    BY <1>1
  <2>4. \A i \in m .. n : s[i] \in T
    BY <1>1, <2>3, ElementOfSeq
  <2>5. /\ p \in Seq(T) /\ Len(p) = IF m <= n THEN n - m + 1 ELSE 0
        /\ \A i \in 1 .. n - m + 1 : p[i] = s[m + i - 1]
    BY <2>3, <2>4, SubSeqProperties
  <2>6. Len(p) = Len(b) /\ n - m + 1 = Len(b) /\ \A i \in 1 .. Len(b) : m + i - 1 = Len(a) + 1 + i
    BY <1>1, <2>5
  <2>7. \A i \in 1 .. Len(b) : p[i] = b[i]
    BY <1>1, <2>5, <2>6
  <2> HIDE DEF p, m, n
  <2>8. p = b
    BY <2>5, <2>6, <2>7, SeqEqual
  <2> QED BY <2>2, <2>8 DEF p
<1> DEFINE P == Pieces(a, I)
<1>16. P \in Seq(Seq(T)) /\ Len(P) = c - 1
  BY PieceFacts DEF c, S
<1> HIDE DEF P, S2
<1>17. /\ Append(P, b) \in Seq(Seq(T)) /\ Len(Append(P, b)) = c
       /\ \A k \in 1 .. c - 1 : Append(P, b)[k] = P[k]
       /\ Append(P, b)[c] = b
  <2>1. /\ Append(P, b) \in Seq(Seq(T)) /\ Len(Append(P, b)) = Len(P) + 1
        /\ \A k \in 1 .. Len(P) : Append(P, b)[k] = P[k]
        /\ Append(P, b)[Len(P) + 1] = b
    BY <1>16, AppendProperties
  <2> QED BY <1>2, <1>16, <2>1
<1>18. Append(P, b) = [k \in 1 .. c |-> Append(P, b)[k]]
  <2>1. DOMAIN Append(P, b) = 1 .. c
    BY <1>17, LenProperties
  <2>2. Append(P, b) \in [1 .. c -> Seq(T)]
    BY <1>17, LenProperties
  <2> QED BY <2>2
<1>19. \A k \in 1 .. c : SubSeq(s, Cut(S2, k - 1) + 1, Cut(S2, k) - 1) = Append(P, b)[k]
  <2>1. ASSUME NEW k \in 1 .. c
        PROVE  SubSeq(s, Cut(S2, k - 1) + 1, Cut(S2, k) - 1) = Append(P, b)[k]
    <3>1. CASE k = c
      BY <1>15, <1>17, <3>1
    <3>2. CASE k # c
      <4>1. k \in 1 .. c - 1
        BY <1>2, <3>2
      <4> QED BY <1>14, <1>17, <4>1 DEF P
    <3> QED BY <3>1, <3>2
  <2> QED BY <2>1
<1>20. (c + 1) - 1 = c
  BY <1>2
<1> QED BY <1>13, <1>18, <1>19, <1>20 DEF s, J, P

(* Split ends a piece at the separator and nowhere else.                    *)
LEMMA SplitOne ==
    ASSUME NEW T, NEW s \in Seq(T), NEW char, Plain(char) \notin ToSet(s)
    PROVE  Split(s, char) = <<s>>
<1>1. Places(s, char) = {}
  BY DEF Places, ToSet
<1> QED BY <1>1, PiecesOne, SplitIsPieces

(* What follows the last separator is one more part.                        *)
LEMMA SplitMore ==
    ASSUME NEW T, NEW a \in Seq(T), NEW b \in Seq(T), NEW char, Plain(char) \in T,
           Plain(char) \notin ToSet(b)
    PROVE  Split(a \o <<Plain(char)>> \o b, char) = Append(Split(a, char), b)
<1> DEFINE x == Plain(char)
           s == a \o <<x>> \o b
           I == Places(a, char)
<1>0. /\ \A i : i \in I <=> i \in DOMAIN a /\ a[i] = x
      /\ \A i : i \in Places(s, char) <=> i \in DOMAIN s /\ s[i] = x
  BY DEF Places
<1> HIDE DEF x
<1>1. /\ Len(a) \in Nat /\ Len(b) \in Nat /\ DOMAIN s = 1 .. Len(a) + Len(b) + 1
      /\ DOMAIN a = 1 .. Len(a) /\ DOMAIN b = 1 .. Len(b)
      /\ \A i \in 1 .. Len(a) : s[i] = a[i]
      /\ s[Len(a) + 1] = x
      /\ \A i \in 1 .. Len(b) : s[Len(a) + 1 + i] = b[i]
  BY LenProperties
<1> HIDE DEF s
<1>2. \A i \in DOMAIN s : i \in DOMAIN a \/ i = Len(a) + 1 \/ \E j \in DOMAIN b : i = Len(a) + 1 + j
  <2>1. ASSUME NEW i \in DOMAIN s, i \notin DOMAIN a, i # Len(a) + 1
        PROVE  i - (Len(a) + 1) \in DOMAIN b /\ i = Len(a) + 1 + (i - (Len(a) + 1))
    BY <1>1, <2>1
  <2> QED BY <2>1
<1>3. \A j \in DOMAIN b : b[j] # x
  BY DEF ToSet, x
<1>4. Places(s, char) = I \cup {Len(a) + 1}
  <2>1. ASSUME NEW i \in DOMAIN s, s[i] = x PROVE i \in I \cup {Len(a) + 1}
    <3> HIDE DEF I
    <3>1. CASE i \in DOMAIN a
      BY <1>0, <1>1, <2>1, <3>1
    <3>2. CASE \E j \in DOMAIN b : i = Len(a) + 1 + j
      BY <1>1, <1>3, <2>1, <3>2
    <3> QED BY <1>2, <2>1, <3>1, <3>2
  <2>2. ASSUME NEW i \in I \cup {Len(a) + 1} PROVE i \in DOMAIN s /\ s[i] = x
    <3>1. CASE i \in I
      <4>1. i \in DOMAIN a /\ a[i] = x
        BY <1>0, <3>1
      <4> QED BY <1>1, <4>1
    <3>2. CASE i = Len(a) + 1
      BY <1>1, <3>2
    <3> QED BY <3>1, <3>2
  <2> HIDE DEF I
  <2> QED BY <1>0, <2>1, <2>2
<1>5. I \in SUBSET (1 .. Len(a)) /\ x \in T
  BY <1>0, <1>1 DEF x
<1>6. Pieces(s, Places(s, char)) = Append(Pieces(a, I), b)
  <2> HIDE DEF I
  <2>1. Pieces(a \o <<x>> \o b, I \cup {Len(a) + 1}) = Append(Pieces(a, I), b)
    BY <1>5, PiecesMore
  <2> QED BY <1>4, <2>1, Zenon DEF s
<1> QED BY <1>6, SplitIsPieces DEF s, x

-----------------------------------------------------------------------------
(* FlattenSeq, piece by piece: there is a function that is what its         *)
(* recursion says.                                                          *)
Unrolls(seqs, f) ==
    f = [i \in 1 .. Len(seqs) |-> IF i = 1 THEN seqs[i] ELSE f[i - 1] \o seqs[i]]
Unrolled(seqs) == CHOOSE f : Unrolls(seqs, f)

(* FlattenSeq is the last value of the function that unrolls it.            *)
LEMMA FlattenIs ==
    \A seqs : Len(seqs) # 0 => FlattenSeq(seqs) = Unrolled(seqs)[Len(seqs)]
BY DEF FlattenSeq, Unrolled, Unrolls

(* There is such a function.                                                *)
LEMMA UnrolledExists ==
    ASSUME NEW T, NEW seqs \in Seq(Seq(T)), seqs # <<>>
    PROVE  Unrolls(seqs, Unrolled(seqs))
<1> DEFINE n == Len(seqs)
           Steps(f, m) == \A i \in 1 .. m : f[i] = IF i = 1 THEN seqs[i] ELSE f[i - 1] \o seqs[i]
           Done == {m \in 1 .. n : \E f \in [1 .. m -> Seq(T)] : Steps(f, m)}
<1>1. n \in Nat \ {0} /\ \A i \in 1 .. n : seqs[i] \in Seq(T)
  BY LenProperties, EmptySeq, ElementOfSeq
<1> HIDE DEF n
<1>2. 1 \in Done
  <2>1. [i \in 1 .. 1 |-> seqs[1]] \in [1 .. 1 -> Seq(T)]
    BY <1>1
  <2>2. Steps([i \in 1 .. 1 |-> seqs[1]], 1)
    OBVIOUS
  <2>3. 1 \in 1 .. n
    BY <1>1
  <2> QED BY <2>1, <2>2, <2>3
<1>3. ASSUME NEW m \in 1 .. n, m \in Done, m < n
      PROVE  m + 1 \in Done
  <2>1. PICK f \in [1 .. m -> Seq(T)] : Steps(f, m)
    BY <1>3
  <2> DEFINE g == [i \in 1 .. m + 1 |-> IF i = m + 1 THEN f[m] \o seqs[m + 1] ELSE f[i]]
  <2>2. m \in Nat \ {0} /\ m + 1 \in 1 .. n
    BY <1>1, <1>3
  <2>3. f[m] \o seqs[m + 1] \in Seq(T)
    <3>1. f[m] \in Seq(T) /\ seqs[m + 1] \in Seq(T)
      BY <1>1, <2>1, <2>2
    <3> QED BY <3>1, ConcatProperties
  <2>4. g \in [1 .. m + 1 -> Seq(T)]
    BY <2>1, <2>2, <2>3
  <2>5. \A i \in 1 .. m : g[i] = f[i]
    BY <2>2
  <2>6. g[m + 1] = f[m] \o seqs[m + 1]
    BY <2>2
  <2> HIDE DEF g
  <2>7. ASSUME NEW i \in 1 .. m + 1
        PROVE  g[i] = IF i = 1 THEN seqs[i] ELSE g[i - 1] \o seqs[i]
    <3>1. CASE i = m + 1
      <4>1. i # 1 /\ i - 1 = m /\ m \in 1 .. m
        BY <2>2, <3>1
      <4> QED BY <2>5, <2>6, <3>1, <4>1
    <3>2. CASE i # m + 1 /\ i # 1
      <4>1. i \in 1 .. m /\ i - 1 \in 1 .. m
        BY <2>2, <3>2
      <4> QED BY <2>1, <2>5, <3>2, <4>1
    <3>3. CASE i = 1
      <4>1. 1 \in 1 .. m
        BY <2>2
      <4> QED BY <2>1, <2>5, <3>3, <4>1
    <3> QED BY <3>1, <3>2, <3>3
  <2> QED BY <2>2, <2>4, <2>7
<1>4. n \in Done
  <2> HIDE DEF Done
  <2>1. 1 .. n \subseteq Done
    BY <1>1, <1>2, <1>3, Climbs
  <2> QED BY <1>1, <2>1
<1>5. PICK f \in [1 .. n -> Seq(T)] : Steps(f, n)
  BY <1>4
<1>6. Unrolls(seqs, f)
  BY <1>5 DEF Unrolls, n
<1> QED BY <1>6 DEF Unrolled

(* It unrolls one sequence at a time.                                       *)
LEMMA FlattenSteps ==
    ASSUME NEW T, NEW seqs \in Seq(Seq(T)), seqs # <<>>
    PROVE  /\ \A i \in 1 .. Len(seqs) : Unrolled(seqs)[i] \in Seq(T)
           /\ Unrolled(seqs)[1] = seqs[1]
           /\ \A i \in 1 .. Len(seqs) : i < Len(seqs) =>
                 Unrolled(seqs)[i + 1] = Unrolled(seqs)[i] \o seqs[i + 1]
           /\ FlattenSeq(seqs) = Unrolled(seqs)[Len(seqs)]
<1> DEFINE n == Len(seqs)
           f == Unrolled(seqs)
<1>1. n \in Nat \ {0} /\ \A i \in 1 .. n : seqs[i] \in Seq(T)
  BY LenProperties, EmptySeq, ElementOfSeq
<1>2. f = [i \in 1 .. n |-> IF i = 1 THEN seqs[i] ELSE f[i - 1] \o seqs[i]]
  BY UnrolledExists DEF Unrolls
<1>3. FlattenSeq(seqs) = f[n]
  BY <1>1, FlattenIs
<1> HIDE DEF n, f
<1>4. f[1] = seqs[1]
  BY <1>1, <1>2
<1>5. \A i \in 1 .. n : i < n => f[i + 1] = f[i] \o seqs[i + 1]
  <2>1. \A j \in 1 .. n : f[j] = IF j = 1 THEN seqs[j] ELSE f[j - 1] \o seqs[j]
    BY <1>2, Zenon
  <2>2. ASSUME NEW i \in 1 .. n, i < n PROVE f[i + 1] = f[i] \o seqs[i + 1]
    <3>1. i + 1 \in 1 .. n /\ i + 1 # 1 /\ (i + 1) - 1 = i
      BY <1>1, <2>2
    <3> QED BY <2>1, <3>1
  <2> QED BY <2>2
<1>6. 1 .. n \subseteq {i \in 1 .. n : f[i] \in Seq(T)}
  <2> DEFINE S == {i \in 1 .. n : f[i] \in Seq(T)}
  <2>1. 1 \in S
    BY <1>1, <1>4
  <2>2. ASSUME NEW i \in 1 .. n, i \in S, i < n PROVE i + 1 \in S
    <3>1. i + 1 \in 1 .. n /\ f[i] \in Seq(T) /\ seqs[i + 1] \in Seq(T)
      BY <1>1, <2>2
    <3>2. f[i] \o seqs[i + 1] \in Seq(T)
      BY <3>1, ConcatProperties
    <3> QED BY <1>5, <2>2, <3>1, <3>2
  <2> HIDE DEF S
  <2>3. 1 .. n \subseteq S
    BY <1>1, <2>1, <2>2, Climbs
  <2> QED BY <2>3 DEF S
<1> QED BY <1>3, <1>4, <1>5, <1>6 DEF n, f

-----------------------------------------------------------------------------
(* Before and After: a sequence up to its first `char`, and past it.        *)
First(s, char) == SelectInSeq(s, LAMBDA t : t = Plain(char))

(* First is the first place of a character, or 0.                           *)
LEMMA FirstMeans ==
    ASSUME NEW T, NEW s \in Seq(T), NEW char
    PROVE  /\ Plain(char) \notin ToSet(s) => First(s, char) = 0
           /\ Plain(char) \in ToSet(s) =>
                 /\ First(s, char) \in 1 .. Len(s)
                 /\ s[First(s, char)] = Plain(char)
                 /\ \A j \in 1 .. Len(s) : j < First(s, char) => s[j] # Plain(char)
<1> DEFINE x == Plain(char)
           I == {i \in 1 .. Len(s) : s[i] = x}
<1>1. First(s, char) = IF I # {} THEN Min(I) ELSE 0
  BY DEF First, SelectInSeq
<1> HIDE DEF x
<1>2. I # {} <=> x \in ToSet(s)
  <2>1. DOMAIN s = 1 .. Len(s)
    BY LenProperties
  <2> QED BY <2>1 DEF ToSet
<1>3. ASSUME I # {} PROVE Min(I) \in I /\ \A j \in I : Min(I) <= j
  <2>1. Len(s) \in Nat
    BY LenProperties
  <2>2. I \in SUBSET Nat
    BY <2>1
  <2> HIDE DEF I
  <2>3. \E i \in I : \A j \in I : i <= j
    BY <1>3, <2>2, LeastNatural
  <2> QED BY <2>3 DEF Min
<1>4. ASSUME I # {}
      PROVE  /\ Min(I) \in 1 .. Len(s) /\ s[Min(I)] = x
             /\ \A j \in 1 .. Len(s) : j < Min(I) => s[j] # x
  <2> DEFINE m == Min(I)
  <2>1. m \in I /\ \A j \in I : m <= j
    BY <1>3, <1>4
  <2>2. Len(s) \in Nat
    BY LenProperties
  <2> HIDE DEF m
  <2>3. m \in 1 .. Len(s) /\ s[m] = x
    BY <2>1
  <2>4. ASSUME NEW j \in 1 .. Len(s), j < m PROVE s[j] # x
    <3>1. ~(m <= j)
      BY <2>2, <2>3, <2>4
    <3> QED BY <2>1, <3>1
  <2> QED BY <2>3, <2>4 DEF m
<1> HIDE DEF I
<1> QED BY <1>1, <1>2, <1>4 DEF x

(* Texts that have no such mark.                                            *)
LEMMA NoMark ==
    ASSUME NEW T, NEW s \in Seq(T), NEW char, Plain(char) \notin ToSet(s)
    PROVE  Before(s, char) = s /\ After(s, char) = None
<1>1. First(s, char) = 0
  BY FirstMeans
<1> QED BY <1>1 DEF Before, After, First

(* What is before and after a mark is part of the text, and before it there *)
(* is no other.                                                             *)
LEMMA MarkParts ==
    ASSUME NEW T, NEW s \in Seq(T), NEW char
    PROVE  /\ Before(s, char) \in Seq(T)
           /\ ToSet(Before(s, char)) \subseteq ToSet(s)
           /\ Plain(char) \notin ToSet(Before(s, char))
           /\ After(s, char) # None =>
                 /\ Plain(char) \in ToSet(s)
                 /\ After(s, char) \in Seq(T)
                 /\ ToSet(After(s, char)) \subseteq ToSet(s)
<1> DEFINE i == First(s, char)
           x == Plain(char)
<1>1. Len(s) \in Nat /\ DOMAIN s = 1 .. Len(s) /\ \A j \in 1 .. Len(s) : s[j] \in T
  BY LenProperties, ElementOfSeq
<1>2. CASE x \notin ToSet(s)
  BY <1>2, NoMark
<1>3. CASE x \in ToSet(s)
  <2>1. i \in 1 .. Len(s) /\ s[i] = x /\ \A j \in 1 .. Len(s) : j < i => s[j] # x
    BY <1>3, FirstMeans
  <2>2. Before(s, char) = SubSeq(s, 1, i - 1) /\ After(s, char) = SubSeq(s, i + 1, Len(s))
    <3>1. i # 0
      BY <2>1
    <3> QED BY <3>1 DEF Before, After, First
  <2> HIDE DEF i, x
  <2> DEFINE p == SubSeq(s, 1, i - 1)
             q == SubSeq(s, i + 1, Len(s))
  <2>3. i \in Nat /\ i - 1 \in Int /\ i + 1 \in Int /\ Len(s) \in Int
    BY <1>1, <2>1
  <2>4. /\ \A j \in 1 .. (i - 1) : j \in 1 .. Len(s) /\ j < i
        /\ \A j \in (i + 1) .. Len(s) : j \in 1 .. Len(s)
    BY <1>1, <2>1
  <2>5. /\ p \in Seq(T)
        /\ Len(p) = IF 1 <= i - 1 THEN (i - 1) - 1 + 1 ELSE 0
        /\ \A j \in 1 .. (i - 1) - 1 + 1 : p[j] = s[1 + j - 1]
    BY <1>1, <2>3, <2>4, SubSeqProperties
  <2>6. /\ q \in Seq(T)
        /\ Len(q) = IF i + 1 <= Len(s) THEN Len(s) - (i + 1) + 1 ELSE 0
        /\ \A j \in 1 .. Len(s) - (i + 1) + 1 : q[j] = s[(i + 1) + j - 1]
    BY <1>1, <2>3, <2>4, SubSeqProperties
  <2> HIDE DEF p, q
  <2>7. DOMAIN p = 1 .. Len(p) /\ DOMAIN q = 1 .. Len(q)
    BY <2>5, <2>6, LenProperties
  <2>8. ASSUME NEW j \in DOMAIN p PROVE j \in DOMAIN s /\ p[j] = s[j] /\ p[j] # x
    <3>1. j \in 1 .. (i - 1) /\ j \in 1 .. (i - 1) - 1 + 1 /\ 1 + j - 1 = j
      BY <2>3, <2>5, <2>7
    <3> QED BY <1>1, <2>1, <2>4, <2>5, <3>1
  <2>9. ASSUME NEW j \in DOMAIN q PROVE \E l \in DOMAIN s : q[j] = s[l]
    <3>1. j \in 1 .. Len(q) /\ Len(q) = IF i + 1 <= Len(s) THEN Len(s) - (i + 1) + 1 ELSE 0
      BY <2>6, <2>7
    <3>2. Len(q) = Len(s) - (i + 1) + 1
      <4>1. Len(q) # 0
        BY <2>6, <3>1, LenProperties
      <4> QED BY <3>1, <4>1
    <3>3. j \in 1 .. Len(s) - (i + 1) + 1
      BY <3>1, <3>2
    <3>4. (i + 1) + j - 1 \in (i + 1) .. Len(s)
      BY <2>3, <3>3
    <3>5. q[j] = s[(i + 1) + j - 1] /\ (i + 1) + j - 1 \in 1 .. Len(s)
      BY <2>4, <2>6, <3>3, <3>4
    <3> QED BY <1>1, <3>5
  <2>10. ToSet(p) \subseteq ToSet(s) /\ x \notin ToSet(p)
    BY <2>8 DEF ToSet
  <2>11. ToSet(q) \subseteq ToSet(s)
    BY <2>9 DEF ToSet
  <2> QED BY <1>3, <2>2, <2>5, <2>6, <2>10, <2>11 DEF p, q, x
<1> QED BY <1>2, <1>3

(* A text made of both parts and a mark is taken apart into them.           *)
LEMMA MarkFound ==
    ASSUME NEW T, NEW a \in Seq(T), NEW b \in Seq(T), NEW char, Plain(char) \in T,
           Plain(char) \notin ToSet(a)
    PROVE  /\ Before(a \o (<<Plain(char)>> \o b), char) = a
           /\ After(a \o (<<Plain(char)>> \o b), char) = b
<1> DEFINE x == Plain(char)
           s == a \o (<<x>> \o b)
           i == First(s, char)
           k == Len(a) + 1
<1>1. /\ s \in Seq(T) /\ Len(a) \in Nat /\ Len(b) \in Nat /\ Len(s) = Len(a) + 1 + Len(b)
      /\ \A j \in 1 .. Len(a) : s[j] = a[j]
      /\ s[k] = x
      /\ \A j \in 1 .. Len(b) : s[k + j] = b[j]
  <2> HIDE DEF x
  <2>1. x \in T
    BY DEF x
  <2>2. /\ <<x>> \o b \in Seq(T) /\ Len(<<x>> \o b) = 1 + Len(b)
        /\ (<<x>> \o b)[1] = x /\ \A j \in 1 .. Len(b) : (<<x>> \o b)[1 + j] = b[j]
    BY <2>1, LenProperties
  <2> DEFINE t == <<x>> \o b
  <2> HIDE DEF t
  <2>3. /\ a \o t \in Seq(T) /\ Len(a \o t) = Len(a) + Len(t)
        /\ \A j \in 1 .. Len(a) + Len(t) : (a \o t)[j] = IF j <= Len(a) THEN a[j] ELSE t[j - Len(a)]
    BY <2>2, ConcatProperties DEF t
  <2>4. Len(a) \in Nat /\ Len(b) \in Nat /\ Len(t) = 1 + Len(b) /\ t[1] = x
        /\ \A j \in 1 .. Len(b) : t[1 + j] = b[j]
    BY <2>2, LenProperties DEF t
  <2>5. s = a \o t
    BY DEF t
  <2> HIDE DEF s
  <2>6. \A j \in 1 .. Len(a) : s[j] = a[j]
    BY <2>3, <2>4, <2>5
  <2>7. s[k] = x
    <3>1. k \in 1 .. Len(a) + Len(t) /\ ~(k <= Len(a)) /\ k - Len(a) = 1
      BY <2>4
    <3> QED BY <2>3, <2>4, <2>5, <3>1
  <2>8. ASSUME NEW j \in 1 .. Len(b) PROVE s[k + j] = b[j]
    <3>1. k + j \in 1 .. Len(a) + Len(t) /\ ~(k + j <= Len(a)) /\ (k + j) - Len(a) = 1 + j
      BY <2>4
    <3> QED BY <2>3, <2>4, <2>5, <3>1
  <2> QED BY <2>3, <2>4, <2>5, <2>6, <2>7, <2>8
<1> HIDE DEF s
<1>2. x \in ToSet(s) /\ DOMAIN a = 1 .. Len(a)
  <2>1. k \in DOMAIN s
    BY <1>1, LenProperties
  <2> QED BY <1>1, <2>1, LenProperties DEF ToSet
<1>3. i \in 1 .. Len(s) /\ s[i] = x /\ \A j \in 1 .. Len(s) : j < i => s[j] # x
  BY <1>1, <1>2, FirstMeans
<1> HIDE DEF i
<1>4. i = k
  <2>1. \A j \in 1 .. Len(a) : s[j] # x
    BY <1>1, <1>2 DEF ToSet
  <2> HIDE DEF x
  <2>2. k \in 1 .. Len(s) /\ ~(k < i)
    BY <1>1, <1>3
  <2>3. i \notin 1 .. Len(a)
    BY <1>3, <2>1
  <2> QED BY <1>1, <1>3, <2>2, <2>3
<1>5. Before(s, char) = SubSeq(s, 1, i - 1) /\ After(s, char) = SubSeq(s, i + 1, Len(s))
  <2>1. i # 0
    BY <1>3
  <2> QED BY <2>1 DEF Before, After, First, i
<1> DEFINE p == SubSeq(s, 1, Len(a))
           q == SubSeq(s, k + 1, Len(s))
<1>6. /\ p \in Seq(T) /\ Len(p) = Len(a) /\ \A j \in 1 .. Len(a) : p[j] = s[j]
  <2>1. 1 \in Int /\ Len(a) \in Int /\ \A j \in 1 .. Len(a) : j \in 1 .. Len(s)
    BY <1>1
  <2>2. \A j \in 1 .. Len(a) : s[j] \in T
    BY <1>1, <2>1, ElementOfSeq
  <2>3. /\ p \in Seq(T) /\ Len(p) = IF 1 <= Len(a) THEN Len(a) - 1 + 1 ELSE 0
        /\ \A j \in 1 .. Len(a) - 1 + 1 : p[j] = s[1 + j - 1]
    BY <2>1, <2>2, SubSeqProperties
  <2> HIDE DEF p
  <2>4. Len(p) = Len(a) /\ Len(a) - 1 + 1 = Len(a) /\ \A j \in 1 .. Len(a) : 1 + j - 1 = j
    BY <1>1, <2>3
  <2> QED BY <2>3, <2>4
<1>7. /\ q \in Seq(T) /\ Len(q) = Len(b) /\ \A j \in 1 .. Len(b) : q[j] = s[k + j]
  <2>1. k + 1 \in Int /\ Len(s) \in Int /\ \A j \in (k + 1) .. Len(s) : j \in 1 .. Len(s)
    BY <1>1
  <2>2. \A j \in (k + 1) .. Len(s) : s[j] \in T
    BY <1>1, <2>1, ElementOfSeq
  <2>3. /\ q \in Seq(T) /\ Len(q) = IF k + 1 <= Len(s) THEN Len(s) - (k + 1) + 1 ELSE 0
        /\ \A j \in 1 .. Len(s) - (k + 1) + 1 : q[j] = s[(k + 1) + j - 1]
    BY <2>1, <2>2, SubSeqProperties
  <2> HIDE DEF q
  <2>4. Len(q) = Len(b) /\ Len(s) - (k + 1) + 1 = Len(b) /\ \A j \in 1 .. Len(b) : (k + 1) + j - 1 = k + j
    BY <1>1, <2>3
  <2> QED BY <2>3, <2>4
<1> HIDE DEF p, q
<1>8. p = a
  BY <1>1, <1>6, SeqEqual
<1>9. q = b
  BY <1>1, <1>7, SeqEqual
<1>10. i - 1 = Len(a) /\ i + 1 = k + 1
  BY <1>1, <1>4
<1> QED BY <1>5, <1>8, <1>9, <1>10 DEF s, p, q

(* A function on 1 .. n is a sequence of length n.                          *)
LEMMA FunctionIsSeq ==
    ASSUME NEW S, NEW n \in Nat, NEW f \in [1 .. n -> S]
    PROVE  f \in Seq(S) /\ Len(f) = n /\ DOMAIN f = 1 .. n
OBVIOUS

Associative(T) == \A a, b, c \in Seq(T) : (a \o b) \o c = a \o (b \o c)

(* Concatenation is associative, named for the leaves that only rewrite.    *)
LEMMA Associates == \A T : Associative(T)
BY ConcatAssociative DEF Associative

(* Parts joined by a mark none of them has are what splitting gives.        *)
LEMMA JoinedSplits ==
    ASSUME NEW T, NEW char, Plain(char) \in T, NEW parts \in Seq(Seq(T)), parts # <<>>,
           \A k \in 1 .. Len(parts) : Plain(char) \notin ToSet(parts[k])
    PROVE  /\ Joined(parts, char) \in Seq(T)
           /\ Split(Joined(parts, char), char) = parts
<1> DEFINE x == Plain(char)
           n == Len(parts)
           seqs == [k \in DOMAIN parts |-> IF k = 1 THEN parts[k] ELSE <<x>> \o parts[k]]
           f == Unrolled(seqs)
           S == {i \in 1 .. n : Split(f[i], char) = SubSeq(parts, 1, i)}
<1>0. Associative(T)
  BY Associates, Zenon
<1>1. n \in Nat \ {0} /\ DOMAIN parts = 1 .. n /\ \A k \in 1 .. n : parts[k] \in Seq(T)
  BY LenProperties, EmptySeq, ElementOfSeq
<1>2. seqs \in Seq(Seq(T)) /\ Len(seqs) = n /\ seqs # <<>>
  <2>1. \A k \in 1 .. n : <<x>> \o parts[k] \in Seq(T)
    BY <1>1
  <2>2. seqs \in [1 .. n -> Seq(T)]
    BY <1>1, <2>1
  <2> HIDE DEF seqs, n
  <2>3. seqs \in Seq(Seq(T)) /\ Len(seqs) = n
    BY <1>1, <2>2, FunctionIsSeq
  <2> QED BY <1>1, <2>3, EmptySeq
<1>3. /\ seqs[1] = parts[1]
      /\ \A k \in 1 .. n : k # 1 => seqs[k] = <<x>> \o parts[k]
  BY <1>1
<1>4. /\ \A i \in 1 .. n : f[i] \in Seq(T)
      /\ f[1] = seqs[1]
      /\ \A i \in 1 .. n : i < n => f[i + 1] = f[i] \o seqs[i + 1]
      /\ FlattenSeq(seqs) = f[n]
  <2> HIDE DEF seqs, n
  <2> QED BY <1>2, FlattenSteps
<1>5. Joined(parts, char) = f[n]
  BY <1>4 DEF Joined
<1> HIDE DEF f, seqs, n, x
<1>6. 1 \in S
  <2>1. Split(parts[1], char) = <<parts[1]>>
    BY <1>1, SplitOne DEF n
  <2>2. SubSeq(parts, 1, 1) = <<parts[1]>>
    <3>1. SubSeq(parts, 1, 1) = SubSeq(parts, 1, 1 - 1) \o <<parts[1]>> /\ SubSeq(parts, 1, 0) = <<>>
      BY <1>1, SubSeqRecursiveSecond, SubSeqEmpty DEF n
    <3>2. 1 - 1 = 0 /\ <<>> \o <<parts[1]>> = <<parts[1]>>
      BY <1>1, ConcatEmptySeq
    <3> QED BY <3>1, <3>2
  <2> QED BY <1>1, <1>3, <1>4, <2>1, <2>2
<1>7. ASSUME NEW i \in 1 .. n, i \in S, i < n PROVE i + 1 \in S
  <2>1. i + 1 \in 1 .. n /\ i + 1 # 1 /\ (i + 1) - 1 = i
    BY <1>1, <1>7
  <2>2. f[i + 1] = f[i] \o (<<x>> \o parts[i + 1])
    BY <1>3, <1>4, <1>7, <2>1
  <2>3. f[i] \in Seq(T) /\ parts[i + 1] \in Seq(T) /\ <<x>> \in Seq(T)
    BY <1>1, <1>4, <2>1 DEF x
  <2>4. f[i + 1] = (f[i] \o <<x>>) \o parts[i + 1]
    BY <2>2, <2>3, <1>0, Zenon DEF Associative
  <2>5. Split(f[i + 1], char) = Append(Split(f[i], char), parts[i + 1])
    <3>1. Plain(char) \notin ToSet(parts[i + 1])
      BY <2>1 DEF n
    <3> QED BY <2>3, <2>4, <3>1, SplitMore DEF x
  <2>6. SubSeq(parts, 1, i + 1) = SubSeq(parts, 1, i) \o <<parts[i + 1]>>
    <3>1. 1 \in 1 .. Len(parts) /\ i + 1 \in 1 .. Len(parts)
      BY <1>1, <2>1 DEF n
    <3> QED BY <2>1, <3>1, SubSeqRecursiveSecond
  <2>7. SubSeq(parts, 1, i) \o <<parts[i + 1]>> = Append(SubSeq(parts, 1, i), parts[i + 1])
    <3>1. SubSeq(parts, 1, i) \in Seq(Seq(T))
      <4>1. 1 \in Int /\ i \in Int /\ \A j \in 1 .. i : parts[j] \in Seq(T)
        BY <1>1
      <4> QED BY <4>1, SubSeqProperties
    <3> QED BY <2>3, <3>1, AppendIsConcat
  <2> QED BY <1>7, <2>1, <2>5, <2>6, <2>7
<1>8. n \in S
  <2> HIDE DEF S
  <2>1. 1 .. n \subseteq S
    BY <1>1, <1>6, <1>7, Climbs
  <2> QED BY <1>1, <2>1
<1>9. SubSeq(parts, 1, n) = parts
  BY SubSeqFull DEF n
<1> QED BY <1>1, <1>4, <1>5, <1>8, <1>9

(* Every part after a slash is a slash and the parts joined by slashes.     *)
LEMMA SlashedIsJoined ==
    ASSUME NEW T, NEW char, Plain(char) \in T, NEW parts \in Seq(Seq(T)), parts # <<>>
    PROVE  FlattenSeq([k \in DOMAIN parts |-> <<Plain(char)>> \o parts[k]])
               = <<Plain(char)>> \o Joined(parts, char)
<1> DEFINE x == Plain(char)
           n == Len(parts)
           seqs == [k \in DOMAIN parts |-> IF k = 1 THEN parts[k] ELSE <<x>> \o parts[k]]
           all == [k \in DOMAIN parts |-> <<x>> \o parts[k]]
           f == Unrolled(seqs)
           g == Unrolled(all)
           S == {i \in 1 .. n : g[i] = <<x>> \o f[i]}
<1>0. Associative(T)
  BY Associates, Zenon
<1>1. n \in Nat \ {0} /\ DOMAIN parts = 1 .. n /\ \A k \in 1 .. n : parts[k] \in Seq(T)
  BY LenProperties, EmptySeq, ElementOfSeq
<1>2. \A k \in 1 .. n : <<x>> \o parts[k] \in Seq(T)
  BY <1>1
<1>3. seqs \in [1 .. n -> Seq(T)] /\ all \in [1 .. n -> Seq(T)]
  BY <1>1, <1>2
<1>4. /\ seqs[1] = parts[1] /\ all[1] = <<x>> \o parts[1]
      /\ \A k \in 1 .. n : k # 1 => seqs[k] = <<x>> \o parts[k] /\ all[k] = <<x>> \o parts[k]
  BY <1>1
<1>5. Joined(parts, char) = FlattenSeq(seqs)
  BY DEF Joined
<1> HIDE DEF n, seqs, all
<1>6. /\ seqs \in Seq(Seq(T)) /\ Len(seqs) = n /\ seqs # <<>>
      /\ all \in Seq(Seq(T)) /\ Len(all) = n /\ all # <<>>
  <2>1. seqs \in Seq(Seq(T)) /\ Len(seqs) = n
    BY <1>1, <1>3, FunctionIsSeq
  <2>2. all \in Seq(Seq(T)) /\ Len(all) = n
    BY <1>1, <1>3, FunctionIsSeq
  <2> QED BY <1>1, <2>1, <2>2, EmptySeq
<1>7. /\ \A i \in 1 .. n : f[i] \in Seq(T)
      /\ f[1] = seqs[1]
      /\ \A i \in 1 .. n : i < n => f[i + 1] = f[i] \o seqs[i + 1]
      /\ FlattenSeq(seqs) = f[n]
  BY <1>6, FlattenSteps
<1>8. /\ \A i \in 1 .. n : g[i] \in Seq(T)
      /\ g[1] = all[1]
      /\ \A i \in 1 .. n : i < n => g[i + 1] = g[i] \o all[i + 1]
      /\ FlattenSeq(all) = g[n]
  BY <1>6, FlattenSteps
<1> HIDE DEF f, g, x
<1>9. 1 \in S
  <2>1. g[1] = <<x>> \o f[1]
    BY <1>4, <1>7, <1>8, Zenon
  <2> QED BY <1>1, <2>1
<1>10. ASSUME NEW i \in 1 .. n, i \in S, i < n PROVE i + 1 \in S
  <2>1. i + 1 \in 1 .. n /\ i + 1 # 1
    BY <1>1, <1>10
  <2>2. f[i] \in Seq(T) /\ seqs[i + 1] \in Seq(T) /\ <<x>> \in Seq(T)
    <3>1. seqs[i + 1] \in Seq(T)
      BY <1>3, <2>1
    <3> QED BY <1>7, <3>1 DEF x
  <2>3. all[i + 1] = seqs[i + 1]
    BY <1>4, <2>1, Zenon
  <2>4. g[i + 1] = (<<x>> \o f[i]) \o seqs[i + 1]
    BY <1>8, <1>10, <2>3, Zenon
  <2>5. g[i + 1] = <<x>> \o (f[i] \o seqs[i + 1])
    BY <2>2, <2>4, <1>0, Zenon DEF Associative
  <2>6. f[i + 1] = f[i] \o seqs[i + 1]
    BY <1>7, <1>10
  <2>7. g[i + 1] = <<x>> \o f[i + 1]
    BY <2>5, <2>6, Zenon
  <2> QED BY <2>1, <2>7
<1>11. n \in S
  <2> HIDE DEF S
  <2>1. 1 .. n \subseteq S
    BY <1>1, <1>9, <1>10, Climbs
  <2> QED BY <1>1, <2>1
<1>12. FlattenSeq(all) = <<x>> \o FlattenSeq(seqs)
  BY <1>7, <1>8, <1>11
<1> QED BY <1>5, <1>12 DEF all, x

(* What follows the whole follows its last part.                            *)
LEMMA FlattenExtends ==
    ASSUME NEW T, NEW seqs \in Seq(Seq(T)), seqs # <<>>, NEW more \in Seq(T)
    PROVE  FlattenSeq(seqs) \o more = FlattenSeq([seqs EXCEPT ![Len(seqs)] = @ \o more])
<1> DEFINE n == Len(seqs)
           longer == [seqs EXCEPT ![n] = @ \o more]
           f == Unrolled(seqs)
           g == Unrolled(longer)
           S == {i \in 1 .. n : g[i] = IF i = n THEN f[i] \o more ELSE f[i]}
<1>0. Associative(T)
  BY Associates, Zenon
<1>1. n \in Nat \ {0} /\ DOMAIN seqs = 1 .. n /\ \A k \in 1 .. n : seqs[k] \in Seq(T)
  BY LenProperties, EmptySeq, ElementOfSeq
<1>2. seqs[n] \o more \in Seq(T)
  <2>1. seqs[n] \in Seq(T)
    BY <1>1
  <2> QED BY <2>1, ConcatProperties
<1>3. /\ longer \in Seq(Seq(T)) /\ Len(longer) = n
      /\ \A k \in 1 .. n : longer[k] = IF k = n THEN seqs[n] \o more ELSE seqs[k]
  <2>1. longer = [seqs EXCEPT ![n] = seqs[n] \o more]
    OBVIOUS
  <2>2. n \in 1 .. Len(seqs)
    BY <1>1
  <2> HIDE DEF longer
  <2> QED BY <1>2, <2>1, <2>2, ExceptSeq
<1>4. longer # <<>>
  BY <1>1, <1>3, EmptySeq
<1> HIDE DEF longer
<1>5. /\ \A i \in 1 .. n : f[i] \in Seq(T)
      /\ f[1] = seqs[1]
      /\ \A i \in 1 .. n : i < n => f[i + 1] = f[i] \o seqs[i + 1]
      /\ FlattenSeq(seqs) = f[n]
  BY FlattenSteps
<1>6. /\ \A i \in 1 .. n : g[i] \in Seq(T)
      /\ g[1] = longer[1]
      /\ \A i \in 1 .. n : i < n => g[i + 1] = g[i] \o longer[i + 1]
      /\ FlattenSeq(longer) = g[n]
  BY <1>3, <1>4, FlattenSteps
<1> HIDE DEF f, g, n
<1>7. 1 \in S
  <2>1. 1 \in 1 .. n
    BY <1>1
  <2>2. g[1] = IF 1 = n THEN f[1] \o more ELSE f[1]
    BY <1>3, <1>5, <1>6, <2>1, Zenon
  <2> QED BY <2>1, <2>2
<1>8. ASSUME NEW i \in 1 .. n, i \in S, i < n PROVE i + 1 \in S
  <2>1. i + 1 \in 1 .. n /\ i # n
    BY <1>1, <1>8
  <2>2. g[i + 1] = f[i] \o longer[i + 1]
    BY <1>6, <1>8, <2>1
  <2>3. CASE i + 1 = n
    <3>1. f[i] \in Seq(T) /\ seqs[i + 1] \in Seq(T)
      BY <1>1, <1>5, <2>1
    <3>2. g[i + 1] = (f[i] \o seqs[i + 1]) \o more
      <4>1. longer[i + 1] = seqs[i + 1] \o more
        BY <1>3, <2>1, <2>3, Zenon
      <4>2. (f[i] \o seqs[i + 1]) \o more = f[i] \o (seqs[i + 1] \o more)
        BY <3>1, <1>0, Zenon DEF Associative
      <4> QED BY <2>2, <4>1, <4>2, Zenon
    <3>3. f[i + 1] = f[i] \o seqs[i + 1]
      BY <1>5, <1>8
    <3>4. g[i + 1] = f[i + 1] \o more
      BY <3>2, <3>3, Zenon
    <3> QED BY <2>1, <2>3, <3>4
  <2>4. CASE i + 1 # n
    <3>1. longer[i + 1] = seqs[i + 1]
      BY <1>3, <2>1, <2>4, Zenon
    <3>2. f[i + 1] = f[i] \o seqs[i + 1]
      BY <1>5, <1>8
    <3>3. g[i + 1] = f[i + 1]
      BY <2>2, <3>1, <3>2, Zenon
    <3> QED BY <2>1, <2>4, <3>3
  <2> QED BY <2>3, <2>4
<1>9. n \in S
  <2> HIDE DEF S
  <2>1. 1 .. n \subseteq S
    BY <1>1, <1>7, <1>8, Climbs
  <2> QED BY <1>1, <2>1
<1>10. FlattenSeq(seqs) \o more = FlattenSeq(longer)
  BY <1>5, <1>6, <1>9
<1> QED BY <1>10 DEF longer, n

-----------------------------------------------------------------------------
(* 3. Texts. Tokens, some marks excluded.                                   *)
Without(marks) == TextTokens \ {Plain(c) : c \in marks}

(* A text without some marks has none of them.                              *)
LEMMA WithoutMeans ==
    ASSUME NEW marks, NEW s \in Seq(Without(marks))
    PROVE  /\ s \in Seq(TextTokens)
           /\ \A c \in marks : Plain(c) \notin ToSet(s)
<1>1. s \in Seq(TextTokens)
  <2>1. Without(marks) \subseteq TextTokens
    BY DEF Without
  <2> QED BY <2>1, SeqMonotonic
<1>2. \A i \in 1 .. Len(s) : s[i] \in Without(marks)
  BY ElementOfSeq
<1>3. DOMAIN s = 1 .. Len(s)
  BY LenProperties
<1> QED BY <1>1, <1>2, <1>3 DEF Without, ToSet

(* A text that has none of some marks is one without them.                  *)
LEMMA WithoutIs ==
    ASSUME NEW marks, NEW s \in Seq(TextTokens), \A c \in marks : Plain(c) \notin ToSet(s)
    PROVE  s \in Seq(Without(marks))
<1>1. /\ Len(s) \in Nat /\ DOMAIN s = 1 .. Len(s) /\ s \in [1 .. Len(s) -> TextTokens]
  BY LenProperties
<1>2. \A i \in 1 .. Len(s) : s[i] \in Without(marks)
  BY <1>1 DEF Without, ToSet
<1>3. s \in [1 .. Len(s) -> Without(marks)]
  BY <1>1, <1>2
<1> QED BY <1>1, <1>3, FunctionIsSeq

(* Without more marks is without fewer.                                     *)
LEMMA WithoutFewer ==
    ASSUME NEW marks, NEW fewer \in SUBSET marks, NEW s \in Seq(Without(marks))
    PROVE  s \in Seq(Without(fewer))
<1>1. Without(marks) \subseteq Without(fewer)
  BY DEF Without
<1> QED BY <1>1, SeqMonotonic

(* A character that is no mark, as itself, is a token without marks.        *)
LEMMA PlainToken ==
    ASSUME NEW c \in Alphabet
    PROVE  /\ Plain(c) \in TextTokens /\ Plain(c).char = c
           /\ \A marks : c \notin marks => Plain(c) \in Without(marks)
<1>1. \A d : Plain(d) = Plain(c) => d = c
  BY DEF Plain
<1>2. Plain(c) \in TextTokens /\ Plain(c).char = c
  BY DEF Plain, TextTokens
<1> QED BY <1>1, <1>2 DEF Without

(* What is escaped has the characters it is made from, and no mark in it    *)
(* stands for itself but the safe ones.                                     *)
LEMMA EscapedText ==
    ASSUME NEW x \in Seq(Alphabet), NEW safe, NEW marks, safe \cap marks = {}
    PROVE  /\ Escaped(x, safe) \in Seq(Without(marks))
           /\ Len(Escaped(x, safe)) = Len(x)
           /\ DOMAIN Escaped(x, safe) = 1 .. Len(x)
           /\ \A i \in 1 .. Len(x) :
                 Escaped(x, safe)[i] = IF x[i] \in safe THEN Plain(x[i]) ELSE Escape(x[i])
           /\ Chars(Escaped(x, safe)) = x
<1> DEFINE e == Escaped(x, safe)
<1>1. Len(x) \in Nat /\ DOMAIN x = 1 .. Len(x) /\ \A i \in 1 .. Len(x) : x[i] \in Alphabet
  BY LenProperties, ElementOfSeq
<1>2. /\ DOMAIN e = 1 .. Len(x)
      /\ \A i \in 1 .. Len(x) : e[i] = IF x[i] \in safe THEN Plain(x[i]) ELSE Escape(x[i])
      /\ e = [i \in 1 .. Len(x) |-> e[i]]
  BY <1>1 DEF Escaped
<1> HIDE DEF e
<1>3. ASSUME NEW i \in 1 .. Len(x)
      PROVE  e[i] \in Without(marks) /\ e[i].char = x[i]
  <2>1. CASE x[i] \in safe
    <3>1. e[i] = Plain(x[i]) /\ x[i] \notin marks
      BY <1>2, <2>1
    <3> QED BY <1>1, <3>1, PlainToken
  <2>2. CASE x[i] \notin safe
    <3>1. e[i] = Escape(x[i])
      BY <1>2, <2>2
    <3>2. Escape(x[i]) \in TextTokens /\ \A d : Escape(x[i]) # Plain(d)
      BY <1>1 DEF Escape, Plain, TextTokens
    <3> QED BY <3>1, <3>2 DEF Without, Escape
  <2> QED BY <2>1, <2>2
<1>4. e \in Seq(Without(marks)) /\ Len(e) = Len(x)
  <2>1. e \in [1 .. Len(x) -> Without(marks)]
    BY <1>2, <1>3
  <2> QED BY <1>1, <2>1, FunctionIsSeq
<1>5. Chars(e) = [i \in 1 .. Len(x) |-> x[i]]
  BY <1>2, <1>3 DEF Chars
<1>6. x = [i \in 1 .. Len(x) |-> x[i]]
  <2>1. x \in [1 .. Len(x) -> Alphabet]
    BY LenProperties
  <2> QED BY <2>1
<1>7. Chars(e) = x
  BY <1>5, <1>6
<1> QED BY <1>2, <1>4, <1>7 DEF e

(* Escaping again what stood for itself changes nothing.                    *)
LEMMA EscapedBack ==
    ASSUME NEW raw \in Seq(TextTokens), NEW safe,
           \A i \in 1 .. Len(raw) : raw[i] \in {Plain(c) : c \in safe}
    PROVE  Escaped(Chars(raw), safe) = raw /\ Chars(raw) \in Seq(safe)
<1>1. Len(raw) \in Nat /\ DOMAIN raw = 1 .. Len(raw) /\ raw = [i \in 1 .. Len(raw) |-> raw[i]]
  <2>1. raw \in [1 .. Len(raw) -> TextTokens]
    BY LenProperties
  <2> QED BY <2>1, LenProperties
<1>2. \A i \in 1 .. Len(raw) : raw[i].char \in safe /\ raw[i] = Plain(raw[i].char)
  BY DEF Plain
<1>3. Chars(raw) = [i \in 1 .. Len(raw) |-> raw[i].char]
  BY <1>1 DEF Chars
<1> DEFINE chars == Chars(raw)
<1>4. DOMAIN chars = 1 .. Len(raw) /\ \A i \in 1 .. Len(raw) : chars[i] = raw[i].char
  BY <1>3
<1>5. chars \in Seq(safe)
  <2>1. chars \in [1 .. Len(raw) -> safe]
    BY <1>2, <1>3
  <2> HIDE DEF chars
  <2> QED BY <1>1, <2>1, FunctionIsSeq
<1> HIDE DEF chars
<1>6. Escaped(chars, safe) = [i \in 1 .. Len(raw) |-> raw[i]]
  BY <1>2, <1>4 DEF Escaped
<1> QED BY <1>1, <1>5, <1>6 DEF chars

-----------------------------------------------------------------------------
(* Versions: the text of a version is read as that version.                 *)
VersionParts(version) == [k \in DOMAIN version |-> Escaped(version[k], Digits)]
VersionText(version) == Joined(VersionParts(version), ".")

Number(part) ==
    /\ Len(part) \in 1 .. 5
    /\ \A i \in DOMAIN part : part[i] \in {Plain(d) : d \in Digits}
    /\ Len(part) > 1 => part[1] # Plain("0")

WellVersion(version) ==
    \/ version = Latest
    \/ /\ version \in Seq(Seq(Digits)) /\ Len(version) \in 1 .. 3
       /\ \A k \in 1 .. Len(version) : Number(Escaped(version[k], Digits))

VersionMarks == {"/", "@", "?", "#", "control"}

(* The characters that are written are of the alphabet.                     *)
LEMMA TheCharacters ==
    /\ Digits \subseteq Alphabet /\ Unreserved \subseteq Alphabet /\ Marks \subseteq Alphabet
    /\ Digits \subseteq Unreserved /\ Allowed("id") \subseteq Unreserved /\ FileSafe \subseteq Unreserved
    /\ \A kind : Allowed(kind) \subseteq Allowed("id")
    /\ "." \in Alphabet /\ "latest" \in Alphabet /\ ".murl.json" \in Alphabet
    /\ Marks \cap Unreserved = {} /\ Undecodable \cap Unreserved = {}
    /\ "%" \notin Unreserved
BY AlphabetAssumption DEF Digits, Unreserved, Lower, Marks, Allowed, FileSafe, Undecodable

(* A version is read as it is written.                                      *)
LEMMA VersionTextRead ==
    ASSUME NEW version \in Seq(Seq(Digits)), WellVersion(version), version # Latest
    PROVE  /\ VersionText(version) \in Seq(Without(VersionMarks))
           /\ ParseVersion(VersionText(version)) = version
<1> DEFINE parts == VersionParts(version)
           written == VersionText(version)
           T == Without({"latest"} \cup VersionMarks)
<1>1. /\ Len(version) \in 1 .. 3 /\ DOMAIN version = 1 .. Len(version) /\ Len(version) \in Nat
      /\ \A k \in 1 .. Len(version) :
            version[k] \in Seq(Digits) /\ Number(Escaped(version[k], Digits))
  BY LenProperties, ElementOfSeq DEF WellVersion
<1>2. ASSUME NEW k \in 1 .. Len(version)
      PROVE  /\ Escaped(version[k], Digits) \in Seq(Without({"."} \cup {"latest"} \cup VersionMarks))
             /\ Chars(Escaped(version[k], Digits)) = version[k]
  <2>1. version[k] \in Seq(Alphabet)
    BY <1>1, TheCharacters, SeqMonotonic
  <2>2. Digits \cap ({"."} \cup {"latest"} \cup VersionMarks) = {}
    BY DEF Digits, VersionMarks
  <2> QED BY <2>1, <2>2, EscapedText
<1>3. /\ DOMAIN parts = 1 .. Len(version)
      /\ \A k \in 1 .. Len(version) : parts[k] = Escaped(version[k], Digits)
  BY <1>1 DEF VersionParts
<1> HIDE DEF parts
<1>4. ASSUME NEW k \in 1 .. Len(version)
      PROVE  parts[k] \in Seq(T) /\ Plain(".") \notin ToSet(parts[k])
  <2>1. parts[k] \in Seq(Without({"."} \cup {"latest"} \cup VersionMarks))
    BY <1>2, <1>3
  <2>2. {"latest"} \cup VersionMarks \in SUBSET ({"."} \cup {"latest"} \cup VersionMarks)
    OBVIOUS
  <2>3. parts[k] \in Seq(T)
    BY <2>1, <2>2, WithoutFewer
  <2>4. "." \in {"."} \cup {"latest"} \cup VersionMarks
    OBVIOUS
  <2>5. Plain(".") \notin ToSet(parts[k])
    BY <2>1, <2>4, WithoutMeans
  <2> QED BY <2>3, <2>5
<1>5. parts \in Seq(Seq(T)) /\ Len(parts) = Len(version) /\ parts # <<>>
  <2>1. parts \in [1 .. Len(version) -> Seq(T)]
    <3>1. parts = [k \in 1 .. Len(version) |-> parts[k]]
      BY <1>1 DEF parts, VersionParts
    <3> QED BY <1>4, <3>1
  <2> HIDE DEF T
  <2>2. parts \in Seq(Seq(T)) /\ Len(parts) = Len(version)
    BY <1>1, <2>1, FunctionIsSeq
  <2> QED BY <1>1, <2>2, EmptySeq
<1>6. Plain(".") \in T
  <2>1. "." \notin {"latest"} \cup VersionMarks
    BY DEF VersionMarks
  <2> QED BY <2>1, TheCharacters, PlainToken
<1>7. written \in Seq(T) /\ Split(written, ".") = parts
  <2> HIDE DEF T
  <2>1. Joined(parts, ".") \in Seq(T) /\ Split(Joined(parts, "."), ".") = parts
    BY <1>4, <1>5, <1>6, JoinedSplits
  <2> QED BY <2>1 DEF VersionText, parts
<1> HIDE DEF written
<1>8. written \in Seq(Without(VersionMarks))
  <2>1. VersionMarks \in SUBSET ({"latest"} \cup VersionMarks)
    OBVIOUS
  <2> QED BY <1>7, <2>1, WithoutFewer
<1>9. written # <<Plain("latest")>>
  <2>1. "latest" \in {"latest"} \cup VersionMarks
    OBVIOUS
  <2>2. Plain("latest") \notin ToSet(written)
    BY <1>7, <2>1, WithoutMeans
  <2>3. Plain("latest") \in ToSet(<<Plain("latest")>>)
    BY DEF ToSet
  <2> QED BY <2>2, <2>3
<1>10. /\ Len(parts) <= 3 /\ DOMAIN parts = 1 .. Len(version)
       /\ \A k \in DOMAIN parts :
             /\ Len(parts[k]) \in 1 .. 5
             /\ \A i \in DOMAIN parts[k] : parts[k][i] \in {Plain(d) : d \in Digits}
             /\ Len(parts[k]) > 1 => parts[k][1] # Plain("0")
  <2>1. ASSUME NEW k \in 1 .. Len(version) PROVE Number(parts[k])
    BY <1>1, <1>3
  <2>2. Len(parts) <= 3 /\ DOMAIN parts = 1 .. Len(version)
    <3>1. \A l \in 1 .. 3 : l <= 3
      OBVIOUS
    <3> QED BY <1>1, <1>3, <1>5, <3>1, Zenon
  <2>3. \A k \in DOMAIN parts : Number(parts[k])
    BY <2>1, <2>2, Zenon
  <2> QED BY <2>2, <2>3, Zenon DEF Number
<1>11. [k \in DOMAIN parts |-> Chars(parts[k])] = version
  <2>1. \A k \in 1 .. Len(version) : Chars(parts[k]) = version[k]
    BY <1>2, <1>3
  <2>2. version = [k \in 1 .. Len(version) |-> version[k]]
    <3>1. version \in [1 .. Len(version) -> Seq(Digits)]
      BY LenProperties
    <3> QED BY <3>1
  <2> QED BY <1>10, <2>1, <2>2
<1>12. ParseVersion(written) = [k \in DOMAIN parts |-> Chars(parts[k])]
  BY <1>7, <1>9, <1>10, Zenon DEF ParseVersion
<1> QED BY <1>8, <1>11, <1>12 DEF written

-----------------------------------------------------------------------------
(* Selectors: the text of a selector is read as that selector.              *)
SelectorText(selector) == Joined([k \in DOMAIN selector |-> ItemText(selector[k])], ",")

WellItem(item) ==
    item \in Items /\ item # Error /\ ValidItem(item.kind, Escaped(item.value, Allowed("id")))

WellSelector(selector) ==
    \/ selector = None
    \/ /\ selector \in Seq(Items) /\ Len(selector) \in 1 .. MaxSelectorItems
       /\ \A k \in 1 .. Len(selector) : WellItem(selector[k])

(* A selector's item is read as it is written.                              *)
LEMMA ItemRead ==
    ASSUME NEW item, WellItem(item)
    PROVE  /\ ItemText(item) \in Seq(Without({",", "control"}))
           /\ SelectorItem(ItemText(item)) = item
<1> DEFINE v == Escaped(item.value, Allowed("id"))
           M == {",", "control", "role=", "tag="}
           W == Without({",", "control"})
<1>1. /\ item.kind \in {"id", "role", "tag"} /\ item.value \in Seq(Allowed("id"))
      /\ item = [kind |-> item.kind, value |-> item.value]
  BY DEF WellItem, Items
<1>2. v \in Seq(Without(M)) /\ Chars(v) = item.value
  <2>1. item.value \in Seq(Alphabet)
    <3>1. Allowed("id") \subseteq Alphabet
      BY TheCharacters, Zenon
    <3> QED BY <1>1, <3>1, SeqMonotonic
  <2>2. Allowed("id") \cap M = {}
    BY DEF Allowed, Lower, Digits
  <2> HIDE DEF M
  <2> QED BY <2>1, <2>2, EscapedText
<1>3. ValidItem(item.kind, v)
  BY DEF WellItem
<1> HIDE DEF v
<1>4. v # <<>> /\ Len(v) \in Nat \ {0}
  <2>1. Len(v) \in 1 .. MaxSelectorLen
    BY <1>3 DEF ValidItem
  <2>2. Len(v) # 0
    BY <2>1
  <2>3. v # <<>>
    BY <2>2, EmptySeq
  <2> QED BY <1>2, <2>3, EmptySeq
<1>5. v[1] # Plain("role=") /\ v[1] # Plain("tag=")
  <2>1. "role=" \in M /\ "tag=" \in M
    OBVIOUS
  <2> HIDE DEF M
  <2>2. Plain("role=") \notin ToSet(v) /\ Plain("tag=") \notin ToSet(v)
    BY <1>2, <2>1, WithoutMeans
  <2>3. 1 \in DOMAIN v
    <3>1. DOMAIN v = 1 .. Len(v)
      BY <1>2, LenProperties
    <3> QED BY <1>4, <3>1
  <2> QED BY <2>2, <2>3 DEF ToSet
<1>6. v \in Seq(W)
  <2>1. {",", "control"} \in SUBSET M
    OBVIOUS
  <2> HIDE DEF M
  <2> QED BY <1>2, <2>1, WithoutFewer
<1>7. Plain("role=") \in W /\ Plain("tag=") \in W /\ Plain("tag=") # Plain("role=")
  <2>1. "role=" \in Alphabet /\ "tag=" \in Alphabet
    BY TheCharacters, Zenon DEF Marks
  <2>2. "role=" \notin {",", "control"} /\ "tag=" \notin {",", "control"}
    OBVIOUS
  <2>3. Plain("role=") # Plain("tag=")
    BY DEF Plain
  <2> QED BY <2>1, <2>2, <2>3, PlainToken
<1> HIDE DEF W
<1>8. \A t \in W : /\ <<t>> \o v \in Seq(W) /\ <<t>> \o v # <<>>
                   /\ (<<t>> \o v)[1] = t /\ Tail(<<t>> \o v) = v
  <2> TAKE t \in W
  <2> DEFINE s == <<t>> \o v
  <2>1. s \in Seq(W) /\ Len(s) = Len(v) + 1 /\ s[1] = t /\ \A i \in 1 .. Len(v) : s[i + 1] = v[i]
    BY <1>4, <1>6
  <2> HIDE DEF s
  <2>2. s # <<>>
    BY <1>4, <2>1, EmptySeq
  <2>3. /\ Tail(s) \in Seq(W) /\ Len(Tail(s)) = Len(v)
        /\ \A i \in 1 .. Len(Tail(s)) : Tail(s)[i] = s[i + 1]
    <3>1. /\ Tail(s) \in Seq(W) /\ Len(Tail(s)) = Len(s) - 1
          /\ \A i \in 1 .. Len(Tail(s)) : Tail(s)[i] = s[i + 1]
      BY <2>1, <2>2, HeadTailProperties
    <3> QED BY <1>4, <2>1, <3>1
  <2>4. Tail(s) = v
    BY <1>6, <2>1, <2>3, SeqEqual
  <2> QED BY <2>1, <2>2, <2>4 DEF s
<1>9. CASE item.kind = "id"
  <2>1. ItemText(item) = v
    <3>1. <<>> \o v = v
      BY <1>6, ConcatEmptySeq
    <3> QED BY <1>9, <3>1, Zenon DEF ItemText, v
  <2>2. SelectorItem(v) = [kind |-> "id", value |-> Chars(v)]
    BY <1>3, <1>4, <1>5, <1>9 DEF SelectorItem
  <2> QED BY <1>1, <1>2, <1>6, <1>9, <2>1, <2>2 DEF W
<1>10. CASE item.kind = "role"
  <2> DEFINE s == <<Plain("role=")>> \o v
  <2>1. ItemText(item) = s
    BY <1>10 DEF ItemText, v
  <2>2. s \in Seq(W) /\ s # <<>> /\ s[1] = Plain("role=") /\ Tail(s) = v
    BY <1>7, <1>8
  <2> HIDE DEF s
  <2>3. SelectorItem(s) = [kind |-> "role", value |-> Chars(v)]
    <3>1. ValidItem("role", v)
      BY <1>3, <1>10, Zenon
    <3> QED BY <1>7, <2>2, <3>1 DEF SelectorItem
  <2> QED BY <1>1, <1>2, <1>10, <2>1, <2>2, <2>3 DEF W
<1>11. CASE item.kind = "tag"
  <2> DEFINE s == <<Plain("tag=")>> \o v
  <2>1. ItemText(item) = s
    BY <1>11 DEF ItemText, v
  <2>2. s \in Seq(W) /\ s # <<>> /\ s[1] = Plain("tag=") /\ Tail(s) = v
    BY <1>7, <1>8
  <2> HIDE DEF s
  <2>3. SelectorItem(s) = [kind |-> "tag", value |-> Chars(v)]
    BY <1>3, <1>7, <1>11, <2>2 DEF SelectorItem
  <2> QED BY <1>1, <1>2, <1>11, <2>1, <2>2, <2>3 DEF W
<1> QED BY <1>1, <1>9, <1>10, <1>11

(* A selector is read as it is written.                                     *)
LEMMA SelectorRead ==
    ASSUME NEW selector, WellSelector(selector), selector # None
    PROVE  /\ SelectorText(selector) \in Seq(Without({"control"}))
           /\ ParseSelector(SelectorText(selector)) = selector
<1> DEFINE items == [k \in DOMAIN selector |-> ItemText(selector[k])]
           n == Len(selector)
           W == Without({"control"})
<1>1. /\ n \in Nat \ {0} /\ n <= MaxSelectorItems /\ DOMAIN selector = 1 .. n
      /\ selector = [k \in 1 .. n |-> selector[k]]
      /\ \A k \in 1 .. n : WellItem(selector[k])
  <2>1. /\ selector \in Seq(Items) /\ n \in 1 .. MaxSelectorItems
        /\ \A k \in 1 .. n : WellItem(selector[k])
    BY DEF WellSelector
  <2>2. DOMAIN selector = 1 .. n /\ selector \in [1 .. n -> Items] /\ n \in Nat
    BY <2>1, LenProperties
  <2> HIDE DEF n
  <2> QED BY <2>1, <2>2, LimitsAssumption
<1> HIDE DEF n
<1>2. ASSUME NEW k \in 1 .. n
      PROVE  /\ items[k] \in Seq(W) /\ Plain(",") \notin ToSet(items[k])
             /\ SelectorItem(items[k]) = selector[k]
  <2>1. items[k] = ItemText(selector[k])
    BY <1>1
  <2>2. items[k] \in Seq(Without({",", "control"})) /\ SelectorItem(items[k]) = selector[k]
    BY <1>1, <2>1, ItemRead
  <2>3. {"control"} \in SUBSET {",", "control"} /\ "," \in {",", "control"}
    OBVIOUS
  <2> HIDE DEF items
  <2>4. items[k] \in Seq(W)
    BY <2>2, <2>3, WithoutFewer
  <2>5. Plain(",") \notin ToSet(items[k])
    BY <2>2, <2>3, WithoutMeans
  <2> QED BY <2>2, <2>4, <2>5
<1>3. items = [k \in 1 .. n |-> items[k]]
  BY <1>1
<1> HIDE DEF items
<1>4. items \in Seq(Seq(W)) /\ Len(items) = n /\ DOMAIN items = 1 .. n /\ items # <<>>
  <2> HIDE DEF W
  <2>1. items \in [1 .. n -> Seq(W)]
    BY <1>2, <1>3
  <2>2. items \in Seq(Seq(W)) /\ Len(items) = n /\ DOMAIN items = 1 .. n
    BY <1>1, <2>1, FunctionIsSeq
  <2> QED BY <1>1, <2>2, EmptySeq
<1>5. Plain(",") \in W
  <2>1. "," \in Alphabet
    BY TheCharacters, Zenon DEF Marks
  <2>2. "," \notin {"control"}
    OBVIOUS
  <2> QED BY <2>1, <2>2, PlainToken
<1> DEFINE s == Joined(items, ",")
<1>6. s \in Seq(W) /\ Split(s, ",") = items
  <2> HIDE DEF W, s
  <2> QED BY <1>2, <1>4, <1>5, JoinedSplits DEF s
<1> HIDE DEF s, W
<1> DEFINE read == [k \in DOMAIN items |-> SelectorItem(items[k])]
<1>7. read = selector
  BY <1>1, <1>2, <1>4
<1> HIDE DEF read
<1>8. Error \notin ToSet(read) /\ Len(read) <= MaxSelectorItems
  <2>1. Error \notin ToSet(selector)
    BY <1>1 DEF ToSet, WellItem
  <2> QED BY <1>1, <1>7, <2>1 DEF n
<1>9. ParseSelector(s) = read
  BY <1>6, <1>8, Zenon DEF ParseSelector, read
<1> QED BY <1>6, <1>7, <1>9 DEF s, W, items, SelectorText

-----------------------------------------------------------------------------
(* Names: a path is read as the name and the version it is the path of.     *)
PartsOf(path) == Split(Tail(path), "/")
LastOf(path) == PartsOf(path)[Len(PartsOf(path))]
RawOf(path) == [PartsOf(path) EXCEPT ![Len(PartsOf(path))] = Before(LastOf(path), "@")]
NameOf(path) == [i \in DOMAIN RawOf(path) |-> Chars(RawOf(path)[i])]
VersionOf(path) ==
    IF After(LastOf(path), "@") = None THEN Latest ELSE ParseVersion(After(LastOf(path), "@"))

WellName(name) ==
    /\ name \in Seq(Seq(Alphabet)) /\ Len(name) \in 1 .. MaxSegments
    /\ \A i \in 1 .. Len(name) :
          /\ Len(name[i]) \in 1 .. MaxSegmentBytes
          /\ ToSet(name[i]) \cap Undecodable = {}
          /\ name[i] \notin {<<".">>, <<".", ".">>}

PathMarks == {"?", "#", "control"}
SegmentMarks == {"/"} \cup PathMarks

Segments(name, version, safe) ==
    [i \in DOMAIN name |-> Escaped(name[i], safe) \o (IF i = Len(name) THEN VersionMark(version) ELSE <<>>)]
PathText(name, version, safe) == NamePath(name, safe) \o VersionMark(version)

(* A version's mark is found where it was put.                              *)
LEMMA MarkRead ==
    ASSUME NEW version, WellVersion(version), NEW e \in Seq(Without(SegmentMarks)),
           Plain("@") \notin ToSet(e)
    PROVE  /\ VersionMark(version) \in Seq(Without(SegmentMarks))
           /\ e \o VersionMark(version) \in Seq(Without(SegmentMarks))
           /\ Before(e \o VersionMark(version), "@") = e
           /\ After(e \o VersionMark(version), "@")
                  = IF version = Latest THEN None ELSE VersionText(version)
<1> DEFINE W == Without(SegmentMarks)
           v == VersionMark(version)
<1>1. e \in Seq(TextTokens)
  BY WithoutMeans
<1>2. CASE version = Latest
  <2>1. v = <<>>
    BY <1>2 DEF VersionMark
  <2>2. v \in Seq(W) /\ e \o v = e
    BY <2>1, EmptySeq, ConcatEmptySeq
  <2>3. Before(e, "@") = e /\ After(e, "@") = None
    BY <1>1, NoMark
  <2> QED BY <1>2, <2>2, <2>3
<1>3. CASE version # Latest
  <2> DEFINE w == VersionText(version)
             at == Plain("@")
  <2>1. version \in Seq(Seq(Digits))
    BY <1>3 DEF WellVersion
  <2>2. v = <<at>> \o w
    BY <1>3, Zenon DEF VersionMark, VersionText, VersionParts
  <2>3. w \in Seq(W)
    <3>1. w \in Seq(Without(VersionMarks))
      BY <1>3, <2>1, VersionTextRead
    <3>2. SegmentMarks \in SUBSET VersionMarks
      BY DEF SegmentMarks, PathMarks, VersionMarks
    <3> QED BY <3>1, <3>2, WithoutFewer
  <2>4. at \in W
    <3>1. "@" \in Alphabet
      BY TheCharacters, Zenon DEF Marks
    <3>2. "@" \notin SegmentMarks
      BY DEF SegmentMarks, PathMarks
    <3> QED BY <3>1, <3>2, PlainToken
  <2> HIDE DEF w, at, W, v
  <2>5. <<at>> \o w \in Seq(W)
    BY <2>3, <2>4
  <2>6. e \o (<<at>> \o w) \in Seq(W)
    BY <2>5, ConcatProperties DEF W
  <2>7. Before(e \o (<<at>> \o w), "@") = e /\ After(e \o (<<at>> \o w), "@") = w
    BY <2>3, <2>4, MarkFound DEF W, at
  <2> QED BY <1>3, <2>2, <2>5, <2>6, <2>7, Zenon DEF v, w, W
<1> QED BY <1>2, <1>3

(* What the segments of a path are, before and after their marks.          *)
Segmented(name, version, safe) ==
    /\ Segments(name, version, safe) \in Seq(Seq(Without(SegmentMarks)))
    /\ Len(Segments(name, version, safe)) = Len(name) /\ Len(name) \in Nat \ {0}
    /\ DOMAIN name = 1 .. Len(name) /\ DOMAIN Segments(name, version, safe) = 1 .. Len(name)
    /\ \A i \in 1 .. Len(name) :
          /\ Escaped(name[i], safe) \in Seq(Without(SegmentMarks))
          /\ Len(Escaped(name[i], safe)) = Len(name[i])
          /\ Plain("@") \notin ToSet(Escaped(name[i], safe))
          /\ Plain("%") \notin ToSet(Escaped(name[i], safe))
          /\ Chars(Escaped(name[i], safe)) = name[i]
          /\ Segments(name, version, safe)[i] =
                IF i = Len(name) THEN Escaped(name[i], safe) \o VersionMark(version)
                ELSE Escaped(name[i], safe)
          /\ Segments(name, version, safe)[i] \in Seq(Without(SegmentMarks))

(* The segments of every good name are like that.                           *)
LEMMA SegmentsFacts ==
    ASSUME NEW name, WellName(name), NEW version, WellVersion(version), NEW safe \in SUBSET Unreserved
    PROVE  Segmented(name, version, safe)
<1> DEFINE n == Len(name)
           segs == Segments(name, version, safe)
           M == {"@", "%"} \cup SegmentMarks
           W == Without(SegmentMarks)
<1>1. n \in Nat \ {0} /\ DOMAIN name = 1 .. n /\ \A i \in 1 .. n : name[i] \in Seq(Alphabet)
  <2>1. name \in Seq(Seq(Alphabet)) /\ n \in 1 .. MaxSegments
    BY DEF WellName
  <2>2. n \in Nat /\ DOMAIN name = 1 .. n /\ \A i \in 1 .. n : name[i] \in Seq(Alphabet)
    BY <2>1, LenProperties, ElementOfSeq
  <2>3. \A k \in 1 .. MaxSegments : k # 0
    OBVIOUS
  <2> HIDE DEF n
  <2> QED BY <2>1, <2>2, <2>3
<1>2. safe \cap M = {}
  <2>1. \A c \in Unreserved : c \notin M
    BY DEF Unreserved, Lower, Digits, SegmentMarks, PathMarks
  <2> QED BY <2>1
<1> HIDE DEF n, W
<1>3. ASSUME NEW i \in 1 .. n
      PROVE  /\ Escaped(name[i], safe) \in Seq(W)
             /\ Len(Escaped(name[i], safe)) = Len(name[i])
             /\ Plain("@") \notin ToSet(Escaped(name[i], safe))
             /\ Plain("%") \notin ToSet(Escaped(name[i], safe))
             /\ Chars(Escaped(name[i], safe)) = name[i]
  <2> DEFINE e == Escaped(name[i], safe)
  <2>1. "@" \in M /\ "%" \in M /\ SegmentMarks \in SUBSET M
    BY Zenon
  <2> HIDE DEF M
  <2>2. e \in Seq(Without(M)) /\ Len(e) = Len(name[i]) /\ Chars(e) = name[i]
    BY <1>1, <1>2, EscapedText
  <2> HIDE DEF e
  <2>3. e \in Seq(W)
    BY <2>1, <2>2, WithoutFewer DEF W
  <2>4. Plain("@") \notin ToSet(e) /\ Plain("%") \notin ToSet(e)
    BY <2>1, <2>2, WithoutMeans, Zenon
  <2> QED BY <2>2, <2>3, <2>4, Zenon DEF e
<1>4. DOMAIN segs = 1 .. n /\ segs = [i \in 1 .. n |-> segs[i]]
  BY <1>1, Zenon DEF Segments
<1>5. ASSUME NEW i \in 1 .. n
      PROVE  /\ segs[i] = IF i = n THEN Escaped(name[i], safe) \o VersionMark(version)
                          ELSE Escaped(name[i], safe)
             /\ segs[i] \in Seq(W)
  <2> DEFINE e == Escaped(name[i], safe)
             v == VersionMark(version)
  <2>1. e \in Seq(W) /\ e \o v \in Seq(W)
    BY <1>3, MarkRead DEF W
  <2>2. e \o <<>> = e
    BY <2>1, ConcatEmptySeq
  <2>3. segs[i] = e \o (IF i = n THEN v ELSE <<>>)
    BY <1>1, Zenon DEF Segments, n
  <2> HIDE DEF e, v, segs
  <2> QED BY <2>1, <2>2, <2>3, Zenon DEF e, v
<1> HIDE DEF segs
<1>6. segs \in Seq(Seq(W)) /\ Len(segs) = n
  <2>1. segs \in [1 .. n -> Seq(W)]
    BY <1>4, <1>5
  <2> QED BY <1>1, <2>1, FunctionIsSeq
<1> QED BY <1>1, <1>3, <1>4, <1>5, <1>6, Zenon DEF Segmented, n, segs, W

(* A path is its segments joined by slashes, after a slash.                 *)
LEMMA PathIs ==
    ASSUME NEW name, WellName(name), NEW version, WellVersion(version), NEW safe \in SUBSET Unreserved
    PROVE  PathText(name, version, safe) = <<Plain("/")>> \o Joined(Segments(name, version, safe), "/")
<1> DEFINE x == Plain("/")
           n == Len(name)
           segs == Segments(name, version, safe)
           v == VersionMark(version)
           W == Without(PathMarks)
           e(i) == Escaped(name[i], safe)
           seqs == [i \in DOMAIN name |-> <<x>> \o e(i)]
           longer == [seqs EXCEPT ![Len(seqs)] = @ \o v]
<1>1. x \in W
  <2>1. "/" \in Alphabet
    BY TheCharacters, Zenon DEF Marks
  <2>2. "/" \notin PathMarks
    BY DEF PathMarks
  <2> QED BY <2>1, <2>2, PlainToken
<1>2. \A s \in Seq(Without(SegmentMarks)) : s \in Seq(W)
  <2> TAKE s \in Seq(Without(SegmentMarks))
  <2>1. PathMarks \in SUBSET SegmentMarks
    BY DEF SegmentMarks
  <2> QED BY <2>1, WithoutFewer
<1>3. /\ n \in Nat \ {0} /\ DOMAIN name = 1 .. n
      /\ Len(segs) = n /\ DOMAIN segs = 1 .. n /\ segs = [i \in 1 .. n |-> segs[i]]
      /\ \A i \in 1 .. n : /\ e(i) \in Seq(W) /\ segs[i] \in Seq(W)
                           /\ segs[i] = IF i = n THEN e(i) \o v ELSE e(i)
  <2> HIDE DEF W
  <2>1. segs = [i \in DOMAIN segs |-> segs[i]]
    BY Zenon DEF Segments
  <2>2. Segmented(name, version, safe)
    BY SegmentsFacts
  <2> QED BY <1>2, <2>1, <2>2, Zenon DEF Segmented
<1>4. v \in Seq(W)
  <2>1. <<>> \in Seq(Without(SegmentMarks)) /\ Plain("@") \notin ToSet(<<>>)
    BY EmptySeq DEF ToSet
  <2>2. v \in Seq(Without(SegmentMarks))
    BY <2>1, MarkRead
  <2> QED BY <1>2, <2>2
<1> HIDE DEF n, v, W, segs, e
<1>5. seqs \in Seq(Seq(W)) /\ Len(seqs) = n /\ DOMAIN seqs = 1 .. n /\ seqs # <<>>
  <2>1. \A i \in 1 .. n : <<x>> \o e(i) \in Seq(W)
    <3> HIDE DEF x
    <3> QED BY <1>1, <1>3 DEF x
  <2>2. seqs \in [1 .. n -> Seq(W)]
    BY <1>3, <2>1
  <2> HIDE DEF seqs
  <2>3. seqs \in Seq(Seq(W)) /\ Len(seqs) = n /\ DOMAIN seqs = 1 .. n
    BY <1>3, <2>2, FunctionIsSeq
  <2> QED BY <1>3, <2>3, EmptySeq
<1>6. \A i \in 1 .. n : seqs[i] = <<x>> \o e(i)
  BY <1>3
<1> HIDE DEF seqs, x
<1>7. NamePath(name, safe) = FlattenSeq(seqs)
  BY DEF NamePath, seqs, e, x
<1>8. FlattenSeq(seqs) \o v = FlattenSeq(longer)
  BY <1>4, <1>5, FlattenExtends
<1>9. longer = [i \in 1 .. n |-> IF i = n THEN seqs[n] \o v ELSE seqs[i]]
  BY <1>3, <1>5
<1>10. ASSUME NEW i \in 1 .. n
       PROVE  (IF i = n THEN seqs[n] \o v ELSE seqs[i]) = <<x>> \o segs[i]
  <2>1. CASE i = n
    <3>1. e(n) \in Seq(W) /\ seqs[n] = <<x>> \o e(n) /\ segs[n] = e(n) \o v /\ <<x>> \in Seq(W)
      BY <1>1, <1>3, <1>6
    <3>2. Associative(W)
      BY Associates, Zenon
    <3>3. (<<x>> \o e(n)) \o v = <<x>> \o (e(n) \o v)
      BY <1>4, <3>1, <3>2, Zenon DEF Associative
    <3> QED BY <2>1, <3>1, <3>3, Zenon
  <2>2. CASE i # n
    BY <1>3, <1>6, <2>2, Zenon
  <2> QED BY <2>1, <2>2
<1> HIDE DEF longer
<1>11. longer = [k \in DOMAIN segs |-> <<x>> \o segs[k]]
  BY <1>3, <1>9, <1>10
<1>12. segs \in Seq(Seq(W)) /\ segs # <<>>
  <2>1. segs \in [1 .. n -> Seq(W)]
    BY <1>3
  <2>2. segs \in Seq(Seq(W)) /\ Len(segs) = n
    BY <1>3, <2>1, FunctionIsSeq
  <2> QED BY <1>3, <2>2, EmptySeq
<1>13. FlattenSeq([k \in DOMAIN segs |-> <<x>> \o segs[k]]) = <<x>> \o Joined(segs, "/")
  BY <1>1, <1>12, SlashedIsJoined DEF x
<1> QED BY <1>7, <1>8, <1>11, <1>13, Zenon DEF PathText, v, segs, x

(* parse splits the path at its slashes and the last segment at its `@`.    *)
LEMMA PathRead ==
    ASSUME NEW name, WellName(name), NEW version, WellVersion(version), NEW safe \in SUBSET Unreserved
    PROVE  LET path == PathText(name, version, safe)
           IN  /\ path \in Seq(Without(PathMarks)) /\ Len(path) > 1 /\ path[1] = Plain("/")
               /\ PartsOf(path) = Segments(name, version, safe)
               /\ RawOf(path) = [i \in DOMAIN name |-> Escaped(name[i], safe)]
               /\ NameOf(path) = name
               /\ VersionOf(path) = version
<1> DEFINE path == PathText(name, version, safe)
           x == Plain("/")
           n == Len(name)
           segs == Segments(name, version, safe)
           rest == Joined(segs, "/")
           W == Without(PathMarks)
           e(i) == Escaped(name[i], safe)
<1>1. x \in W
  <2>1. "/" \in Alphabet
    BY TheCharacters, Zenon DEF Marks
  <2>2. "/" \notin PathMarks
    BY DEF PathMarks
  <2> QED BY <2>1, <2>2, PlainToken
<1>2. /\ n \in Nat \ {0} /\ DOMAIN name = 1 .. n
      /\ Len(segs) = n /\ DOMAIN segs = 1 .. n /\ segs = [i \in 1 .. n |-> segs[i]]
      /\ \A i \in 1 .. n : /\ e(i) \in Seq(Without(SegmentMarks))
                           /\ segs[i] \in Seq(Without(SegmentMarks))
                           /\ Len(e(i)) = Len(name[i])
                           /\ Plain("@") \notin ToSet(e(i))
                           /\ Chars(e(i)) = name[i]
                           /\ segs[i] = IF i = n THEN e(i) \o VersionMark(version) ELSE e(i)
  <2>1. segs = [i \in DOMAIN segs |-> segs[i]]
    BY Zenon DEF Segments
  <2>2. Segmented(name, version, safe)
    BY SegmentsFacts
  <2> QED BY <2>1, <2>2, Zenon DEF Segmented
<1>3. ASSUME NEW i \in 1 .. n PROVE segs[i] \in Seq(W) /\ x \notin ToSet(segs[i])
  <2>1. PathMarks \in SUBSET SegmentMarks /\ "/" \in SegmentMarks
    BY DEF SegmentMarks
  <2> HIDE DEF segs, n, e
  <2>2. segs[i] \in Seq(W)
    BY <1>2, <2>1, WithoutFewer
  <2>3. x \notin ToSet(segs[i])
    BY <1>2, <2>1, WithoutMeans
  <2> QED BY <2>2, <2>3
<1> HIDE DEF W, n, segs, e
<1>4. segs \in Seq(Seq(W)) /\ segs # <<>>
  <2>1. segs \in [1 .. n -> Seq(W)]
    BY <1>2, <1>3
  <2>2. segs \in Seq(Seq(W)) /\ Len(segs) = n
    BY <1>2, <2>1, FunctionIsSeq
  <2> QED BY <1>2, <2>2, EmptySeq
<1>5. rest \in Seq(W) /\ Split(rest, "/") = segs
  <2>1. \A k \in 1 .. Len(segs) : Plain("/") \notin ToSet(segs[k])
    BY <1>2, <1>3
  <2>2. Plain("/") \in W
    BY <1>1
  <2> QED BY <1>4, <2>1, <2>2, JoinedSplits
<1>6. path = <<x>> \o rest
  BY PathIs DEF segs
<1>7. segs[1] # <<>>
  <2>1. Len(e(1)) # 0
    <3>1. Len(name[1]) \in 1 .. MaxSegmentBytes /\ 1 \in 1 .. n
      BY <1>2 DEF WellName, n
    <3>2. \A k \in 1 .. MaxSegmentBytes : k # 0
      OBVIOUS
    <3> QED BY <1>2, <3>1, <3>2, Zenon
  <2>2. 1 \in 1 .. n
    BY <1>2
  <2>3. e(1) \in Seq(Without(SegmentMarks)) /\ e(1) # <<>>
    BY <1>2, <2>1, <2>2, EmptySeq
  <2>4. CASE n = 1
    <3>1. <<>> \in Seq(Without(SegmentMarks)) /\ Plain("@") \notin ToSet(<<>>)
      BY EmptySeq DEF ToSet
    <3>2. <<>> \o VersionMark(version) \in Seq(Without(SegmentMarks)) /\ VersionMark(version) \in Seq(Without(SegmentMarks))
      BY <3>1, MarkRead, Zenon
    <3>3. e(1) \o VersionMark(version) # <<>>
      BY <2>3, <3>2, ConcatEqualIffEmpty
    <3> QED BY <1>2, <2>2, <2>4, <3>3, Zenon
  <2>5. CASE n # 1
    BY <1>2, <2>2, <2>3, <2>5, Zenon
  <2> QED BY <2>4, <2>5
<1>8. rest # <<>>
  <2>1. SUFFICES ASSUME rest = <<>> PROVE FALSE
    OBVIOUS
  <2>2. Plain("/") \notin ToSet(<<>>) /\ <<>> \in Seq(W)
    BY EmptySeq DEF ToSet
  <2>3. Split(<<>>, "/") = <<<<>>>>
    BY <2>2, SplitOne
  <2>4. segs = <<<<>>>>
    BY <1>5, <2>1, <2>3, Zenon
  <2>5. segs[1] = <<>>
    BY <2>4
  <2> QED BY <1>7, <2>5
<1> HIDE DEF rest, path, x
<1>9. path \in Seq(W) /\ Len(path) > 1 /\ path[1] = x /\ Tail(path) = rest
  <2>1. Len(rest) \in Nat \ {0}
    BY <1>5, <1>8, EmptySeq
  <2>2. path \in Seq(W) /\ Len(path) = Len(rest) + 1 /\ path[1] = x
        /\ \A i \in 1 .. Len(rest) : path[i + 1] = rest[i]
    BY <1>1, <1>5, <1>6, <2>1
  <2>3. path # <<>>
    BY <2>1, <2>2, EmptySeq
  <2>4. /\ Tail(path) \in Seq(W) /\ Len(Tail(path)) = Len(path) - 1
        /\ \A i \in 1 .. Len(Tail(path)) : Tail(path)[i] = path[i + 1]
    BY <2>2, <2>3, HeadTailProperties
  <2>5. Len(Tail(path)) = Len(rest)
    BY <2>1, <2>2, <2>4
  <2>6. Tail(path) = rest
    BY <1>5, <2>2, <2>4, <2>5, SeqEqual
  <2> QED BY <2>1, <2>2, <2>6
<1>10. PartsOf(path) = segs
  BY <1>5, <1>9, Zenon DEF PartsOf
<1>11. n \in 1 .. n /\ segs[n] = e(n) \o VersionMark(version)
  BY <1>2
<1>12. /\ Before(segs[n], "@") = e(n)
       /\ After(segs[n], "@") = IF version = Latest THEN None ELSE VersionText(version)
  <2>1. e(n) \in Seq(Without(SegmentMarks)) /\ Plain("@") \notin ToSet(e(n))
    BY <1>2, <1>11
  <2> QED BY <1>11, <2>1, MarkRead, Zenon
<1>13. LastOf(path) = segs[n]
  BY <1>2, <1>10, Zenon DEF LastOf
<1>14. RawOf(path) = [i \in 1 .. n |-> e(i)]
  <2>1. RawOf(path) = [segs EXCEPT ![n] = e(n)]
    BY <1>2, <1>10, <1>12, <1>13, Zenon DEF RawOf
  <2>2. [segs EXCEPT ![n] = e(n)] = [i \in 1 .. n |-> IF i = n THEN e(n) ELSE segs[i]]
    BY <1>2
  <2>3. \A i \in 1 .. n : (IF i = n THEN e(n) ELSE segs[i]) = e(i)
    BY <1>2, Zenon
  <2> QED BY <2>1, <2>2, <2>3
<1>15. NameOf(path) = name
  <2>1. NameOf(path) = [i \in 1 .. n |-> Chars(e(i))]
    BY <1>14 DEF NameOf
  <2>2. name = [i \in 1 .. n |-> name[i]]
    <3>1. name \in Seq(Seq(Alphabet))
      BY DEF WellName
    <3>2. name \in [1 .. n -> Seq(Alphabet)]
      BY <3>1, LenProperties DEF n
    <3> QED BY <3>2
  <2> QED BY <1>2, <2>1, <2>2
<1>16. VersionOf(path) = version
  <2>1. CASE version = Latest
    BY <1>12, <1>13, <2>1 DEF VersionOf
  <2>2. CASE version # Latest
    <3>1. version \in Seq(Seq(Digits))
      BY <2>2 DEF WellVersion
    <3>2. VersionText(version) \in Seq(Without(VersionMarks)) /\ ParseVersion(VersionText(version)) = version
      BY <2>2, <3>1, VersionTextRead
    <3>3. VersionText(version) # None
      <4>1. VersionText(version) \in Seq(TextTokens)
        BY <3>2, WithoutMeans
      <4> QED BY <4>1, AbsentAssumption
    <3> QED BY <1>12, <1>13, <2>2, <3>2, <3>3, Zenon DEF VersionOf
  <2> QED BY <2>1, <2>2
<1> QED BY <1>2, <1>9, <1>10, <1>14, <1>15, <1>16, Zenon DEF path, segs, W, n, x, e

-----------------------------------------------------------------------------
(* Whole texts. What parse makes of a text, and when.                       *)
RestOf(t) == Before(t.tail, "#")
FragmentOf(t) == After(t.tail, "#")
PathOf(t) == Before(RestOf(t), "?")
QueryOf(t) == After(RestOf(t), "?")

Reading(t) ==
    [authority |-> ParseAuthority(t.authority),
     name |-> NameOf(PathOf(t)),
     version |-> VersionOf(PathOf(t)),
     selector |-> IF FragmentOf(t) = None THEN None ELSE ParseSelector(FragmentOf(t)),
     query |-> QueryOf(t)]

Readable(t) ==
    /\ Width(t.tail) <= MaxLength
    /\ Plain("control") \notin ToSet(t.tail)
    /\ t.scheme
    /\ Reading(t).authority # Error
    /\ Len(PathOf(t)) > 1 /\ PathOf(t)[1] = Plain("/")
    /\ Len(PartsOf(PathOf(t))) <= MaxSegments
    /\ \A i \in DOMAIN RawOf(PathOf(t)) :
          /\ Plain("@") \notin ToSet(RawOf(PathOf(t))[i])
          /\ DecodesTo(RawOf(PathOf(t))[i], Reading(t).name[i])
    /\ Reading(t).version # Error
    /\ Reading(t).selector # Error
    /\ QueryOf(t) # None => Width(QueryOf(t)) <= MaxQuery
    /\ Fits(Reading(t))

(* Parse by its parts.                                                      *)
LEMMA ParseIs == \A t : Parse(t) = IF Readable(t) THEN Reading(t) ELSE Error
BY Zenon DEF Parse, Readable, Reading, RestOf, FragmentOf, PathOf, QueryOf, PartsOf, LastOf, RawOf,
             NameOf, VersionOf

WellAuthority(a) ==
    /\ a = [host |-> a.host, port |-> a.port] /\ a # Error
    /\ a.host \in Hosts \cup {Local}
    /\ a.port # None => a.host # Local /\ a.port \in Ports

WellQuery(query) ==
    \/ query = None
    \/ query \in Seq(Without({"#", "control"})) /\ Width(query) <= MaxQuery

WellFormed(m) ==
    /\ m = [authority |-> m.authority, name |-> m.name, version |-> m.version,
            selector |-> m.selector, query |-> m.query]
    /\ WellAuthority(m.authority)
    /\ WellName(m.name)
    /\ WellVersion(m.version) /\ m.version # Error
    /\ WellSelector(m.selector) /\ m.selector # Error
    /\ WellQuery(m.query)

QueryText(query) == IF query = None THEN <<>> ELSE <<Plain("?")>> \o query
FragmentText(selector) ==
    IF selector = None THEN <<>> ELSE <<Plain("#")>> \o SelectorText(selector)

(* A text is taken apart at its first `#` and, before that, its first `?`.  *)
LEMMA TailRead ==
    ASSUME NEW path \in Seq(Without(PathMarks)), NEW query, WellQuery(query),
           NEW selector, WellSelector(selector)
    PROVE  LET tail == path \o QueryText(query) \o FragmentText(selector)
               rest == Before(tail, "#")
           IN  /\ Plain("control") \notin ToSet(tail)
               /\ Before(rest, "?") = path /\ After(rest, "?") = query
               /\ After(tail, "#") = IF selector = None THEN None ELSE SelectorText(selector)
<1> DEFINE R == Without({"#", "control"})
           C == Without({"control"})
           q == QueryText(query)
           f == FragmentText(selector)
           rest == path \o q
           tail == rest \o f
<1>0. /\ {"#", "control"} \in SUBSET PathMarks /\ "?" \in PathMarks
      /\ {"control"} \in SUBSET {"#", "control"} /\ "#" \in {"#", "control"}
      /\ "control" \in {"control"}
  BY Zenon DEF PathMarks
<1>1. Plain("?") \in R /\ Plain("#") \in C
  <2>1. "?" \in Alphabet /\ "#" \in Alphabet
    BY TheCharacters, Zenon DEF Marks
  <2>2. "?" \notin {"#", "control"} /\ "#" \notin {"control"}
    OBVIOUS
  <2> QED BY <2>1, <2>2, PlainToken
<1>2. path \in Seq(R) /\ Plain("?") \notin ToSet(path)
  <2> HIDE DEF R
  <2>1. path \in Seq(R)
    BY <1>0, WithoutFewer DEF R
  <2> QED BY <1>0, <2>1, WithoutMeans
<1>3. rest \in Seq(R) /\ Before(rest, "?") = path /\ After(rest, "?") = query
  <2>1. CASE query = None
    <3>1. rest = path \o <<>>
      BY <2>1, Zenon DEF QueryText
    <3>2. path \o <<>> = path
      BY <1>2, ConcatEmptySeq
    <3>3. Before(path, "?") = path /\ After(path, "?") = None
      BY <1>2, NoMark
    <3> QED BY <1>2, <2>1, <3>1, <3>2, <3>3, Zenon
  <2>2. CASE query # None
    <3> DEFINE mark == Plain("?")
    <3>1. query \in Seq(R)
      BY <2>2, Zenon DEF WellQuery
    <3>2. rest = path \o (<<mark>> \o query)
      BY <2>2, Zenon DEF QueryText
    <3> HIDE DEF R, mark
    <3>3. <<mark>> \o query \in Seq(R)
      BY <1>1, <3>1 DEF mark
    <3>4. path \o (<<mark>> \o query) \in Seq(R)
      BY <1>2, <3>3, ConcatProperties
    <3>5. Before(path \o (<<mark>> \o query), "?") = path /\ After(path \o (<<mark>> \o query), "?") = query
      BY <1>1, <1>2, <3>1, MarkFound DEF mark
    <3> QED BY <3>2, <3>4, <3>5, Zenon
  <2> QED BY <2>1, <2>2
<1> HIDE DEF rest
<1>4. rest \in Seq(C) /\ Plain("#") \notin ToSet(rest)
  <2> HIDE DEF R, C
  <2>1. rest \in Seq(C)
    BY <1>0, <1>3, WithoutFewer DEF R, C
  <2>2. Plain("#") \notin ToSet(rest)
    BY <1>0, <1>3, WithoutMeans DEF R
  <2> QED BY <2>1, <2>2
<1>5. /\ tail \in Seq(C) /\ Before(tail, "#") = rest
      /\ After(tail, "#") = IF selector = None THEN None ELSE SelectorText(selector)
  <2>1. CASE selector = None
    <3>1. tail = rest \o <<>>
      BY <2>1, Zenon DEF FragmentText
    <3>2. rest \o <<>> = rest
      BY <1>4, ConcatEmptySeq
    <3>3. Before(rest, "#") = rest /\ After(rest, "#") = None
      BY <1>4, NoMark
    <3> QED BY <1>4, <2>1, <3>1, <3>2, <3>3, Zenon
  <2>2. CASE selector # None
    <3> DEFINE mark == Plain("#")
               s == SelectorText(selector)
    <3>1. s \in Seq(C)
      BY <2>2, SelectorRead
    <3>2. tail = rest \o (<<mark>> \o s)
      BY <2>2, Zenon DEF FragmentText
    <3> HIDE DEF C, mark, s, tail
    <3>3. <<mark>> \o s \in Seq(C)
      BY <1>1, <3>1 DEF mark
    <3>4. rest \o (<<mark>> \o s) \in Seq(C)
      BY <1>4, <3>3, ConcatProperties
    <3>5. Before(rest \o (<<mark>> \o s), "#") = rest /\ After(rest \o (<<mark>> \o s), "#") = s
      BY <1>1, <1>4, <3>1, MarkFound DEF mark
    <3> QED BY <2>2, <3>2, <3>4, <3>5, Zenon DEF s
  <2> QED BY <2>1, <2>2
<1>6. Plain("control") \notin ToSet(tail)
  <2> HIDE DEF C, tail
  <2> QED BY <1>0, <1>5, WithoutMeans DEF C
<1> QED BY <1>3, <1>5, <1>6, Zenon DEF rest

(* A text made of the parts of a name is read as that name, whatever it     *)
(* escapes, if it is not too long.                                          *)
LEMMA FormRead ==
    ASSUME NEW m, WellFormed(m), NEW safe \in SUBSET Unreserved, NEW t, t.scheme = TRUE,
           t.authority.host = m.authority.host, t.authority.port = m.authority.port,
           t.tail = PathText(m.name, m.version, safe) \o QueryText(m.query) \o FragmentText(m.selector)
    PROVE  /\ Reading(t) = m
           /\ Width(t.tail) <= MaxLength /\ Fits(m) => Readable(t)
<1> DEFINE path == PathText(m.name, m.version, safe)
           n == Len(m.name)
<1>1. /\ WellName(m.name) /\ WellVersion(m.version) /\ WellSelector(m.selector) /\ WellQuery(m.query)
      /\ WellAuthority(m.authority) /\ m.version # Error /\ m.selector # Error
      /\ m = [authority |-> m.authority, name |-> m.name, version |-> m.version,
              selector |-> m.selector, query |-> m.query]
  BY Zenon DEF WellFormed
<1>2. /\ path \in Seq(Without(PathMarks)) /\ Len(path) > 1 /\ path[1] = Plain("/")
      /\ PartsOf(path) = Segments(m.name, m.version, safe)
      /\ RawOf(path) = [i \in DOMAIN m.name |-> Escaped(m.name[i], safe)]
      /\ NameOf(path) = m.name
      /\ VersionOf(path) = m.version
  BY <1>1, PathRead
<1> HIDE DEF path
<1>3. /\ Plain("control") \notin ToSet(t.tail)
      /\ PathOf(t) = path /\ QueryOf(t) = m.query
      /\ FragmentOf(t) = IF m.selector = None THEN None ELSE SelectorText(m.selector)
  <2> DEFINE tail == path \o QueryText(m.query) \o FragmentText(m.selector)
             rest == Before(tail, "#")
  <2>1. /\ Plain("control") \notin ToSet(tail)
        /\ Before(rest, "?") = path /\ After(rest, "?") = m.query
        /\ After(tail, "#") = IF m.selector = None THEN None ELSE SelectorText(m.selector)
    BY <1>1, <1>2, TailRead
  <2>2. t.tail = tail
    BY Zenon DEF path
  <2> HIDE DEF tail
  <2> QED BY <2>1, <2>2, Zenon DEF PathOf, QueryOf, FragmentOf, RestOf
<1>4. ParseAuthority(t.authority) = m.authority
  <2>1. /\ m.authority.host \in Hosts \cup {Local}
        /\ m.authority.port # None => m.authority.host # Local /\ m.authority.port \in Ports
        /\ m.authority = [host |-> m.authority.host, port |-> m.authority.port]
    BY <1>1, Zenon DEF WellAuthority
  <2> QED BY <2>1, Zenon DEF ParseAuthority
<1>5. (IF FragmentOf(t) = None THEN None ELSE ParseSelector(FragmentOf(t))) = m.selector
  <2>1. CASE m.selector = None
    BY <1>3, <2>1, Zenon
  <2>2. CASE m.selector # None
    <3>1. /\ SelectorText(m.selector) \in Seq(Without({"control"}))
          /\ ParseSelector(SelectorText(m.selector)) = m.selector
      BY <1>1, <2>2, SelectorRead
    <3>2. SelectorText(m.selector) # None
      <4>1. SelectorText(m.selector) \in Seq(TextTokens)
        BY <3>1, WithoutMeans
      <4> QED BY <4>1, AbsentAssumption
    <3> QED BY <1>3, <2>2, <3>1, <3>2, Zenon
  <2> QED BY <2>1, <2>2
<1>6. Reading(t) = m
  <2>1. Reading(t) = [authority |-> m.authority, name |-> m.name, version |-> m.version,
                      selector |-> m.selector, query |-> m.query]
    BY <1>2, <1>3, <1>4, <1>5, Zenon DEF Reading
  <2> QED BY <1>1, <2>1, Zenon
<1>7. Segmented(m.name, m.version, safe)
  BY <1>1, SegmentsFacts
<1>8. /\ Len(PartsOf(path)) <= MaxSegments
      /\ DOMAIN m.name = 1 .. n
  <2>1. n \in 1 .. MaxSegments /\ Len(Segments(m.name, m.version, safe)) = n /\ DOMAIN m.name = 1 .. n
    BY <1>1, <1>7, Zenon DEF WellName, Segmented
  <2> HIDE DEF n
  <2>2. n <= MaxSegments
    BY <2>1, LimitsAssumption
  <2> QED BY <1>2, <2>1, <2>2, Zenon
<1>9. ASSUME NEW i \in DOMAIN RawOf(path)
      PROVE  Plain("@") \notin ToSet(RawOf(path)[i]) /\ DecodesTo(RawOf(path)[i], m.name[i])
  <2> DEFINE e == Escaped(m.name[i], safe)
  <2>1. i \in 1 .. n /\ RawOf(path)[i] = e
    BY <1>2, <1>8
  <2>2. /\ Len(e) = Len(m.name[i]) /\ Plain("@") \notin ToSet(e) /\ Plain("%") \notin ToSet(e)
    BY <1>7, <2>1, Zenon DEF Segmented
  <2>3. /\ Len(m.name[i]) \in 1 .. MaxSegmentBytes
        /\ ToSet(m.name[i]) \cap Undecodable = {}
        /\ m.name[i] \notin {<<".">>, <<".", ".">>}
    BY <1>1, <2>1, Zenon DEF WellName
  <2> HIDE DEF e
  <2> QED BY <2>1, <2>2, <2>3, Zenon DEF DecodesTo
<1>10. m.query # None => Width(m.query) <= MaxQuery
  BY <1>1, Zenon DEF WellQuery
<1>11. Width(t.tail) <= MaxLength /\ Fits(m) => Readable(t)
  <2>1. m.authority # Error
    BY <1>1, Zenon DEF WellAuthority
  <2>2. \A i \in DOMAIN RawOf(path) :
           Plain("@") \notin ToSet(RawOf(path)[i]) /\ DecodesTo(RawOf(path)[i], m.name[i])
    BY <1>9
  <2> QED BY <1>1, <1>2, <1>3, <1>6, <1>8, <1>10, <2>1, <2>2, Zenon DEF Readable
<1> QED BY <1>6, <1>11

(* The canonical form is read as the name it is the form of.                *)
LEMMA DisplayRead ==
    ASSUME NEW m, WellFormed(m), Fits(m)
    PROVE  Parse(Display(m)) = m
<1> DEFINE t == Display(m)
<1>1. /\ t.scheme = TRUE /\ t.authority.host = m.authority.host /\ t.authority.port = m.authority.port
      /\ t.tail = PathText(m.name, m.version, Unreserved) \o QueryText(m.query) \o FragmentText(m.selector)
  <2>1. Identity(m).tail = PathText(m.name, m.version, Unreserved)
    BY Zenon DEF Identity, PathText
  <2>2. t.tail = Identity(m).tail \o QueryText(m.query) \o FragmentText(m.selector)
    BY Zenon DEF Display, QueryText, FragmentText, SelectorText
  <2>3. t.scheme = TRUE /\ t.authority.host = m.authority.host /\ t.authority.port = m.authority.port
    BY DEF Display
  <2> QED BY <2>1, <2>2, <2>3, Zenon
<1>2. Width(t.tail) <= MaxLength
  BY Zenon DEF Fits
<1> HIDE DEF t
<1>3. Reading(t) = m /\ Readable(t)
  BY <1>1, <1>2, FormRead
<1> QED BY <1>3, ParseIs, Zenon DEF t

-----------------------------------------------------------------------------
(* What parse lets through is well formed.                                  *)
LEMMA SplitFacts ==
    ASSUME NEW T, NEW s \in Seq(T), NEW char
    PROVE  /\ Split(s, char) \in Seq(Seq(T)) /\ Len(Split(s, char)) \in Nat \ {0}
           /\ DOMAIN Split(s, char) = 1 .. Len(Split(s, char))
           /\ \A k \in 1 .. Len(Split(s, char)) : Split(s, char)[k] \in Seq(T)
<1>1. Places(s, char) \in SUBSET (1 .. Len(s))
  <2>1. DOMAIN s = 1 .. Len(s)
    BY LenProperties
  <2> QED BY <2>1 DEF Places
<1> DEFINE parts == Split(s, char)
<1>2. parts = Pieces(s, Places(s, char))
  BY SplitIsPieces, Zenon
<1> HIDE DEF parts
<1>3. parts \in Seq(Seq(T)) /\ Len(parts) \in Nat \ {0} /\ DOMAIN parts = 1 .. Len(parts)
  BY <1>1, <1>2, PieceFacts
<1>4. \A k \in 1 .. Len(parts) : parts[k] \in Seq(T)
  BY <1>3, ElementOfSeq
<1> QED BY <1>3, <1>4, Zenon DEF parts

(* A version that parses is a good one.                                     *)
LEMMA VersionParsed ==
    ASSUME NEW raw \in Seq(TextTokens), ParseVersion(raw) # Error
    PROVE  WellVersion(ParseVersion(raw))
<1> DEFINE parts == Split(raw, ".")
           n == Len(parts)
           version == [k \in DOMAIN parts |-> Chars(parts[k])]
<1>1. CASE raw = <<Plain("latest")>>
  <2>1. ParseVersion(raw) = Latest
    BY <1>1, Zenon DEF ParseVersion
  <2> QED BY <2>1 DEF WellVersion
<1>2. CASE raw # <<Plain("latest")>>
  <2>1. /\ n <= 3
        /\ \A k \in DOMAIN parts : Number(parts[k])
        /\ ParseVersion(raw) = version
    BY <1>2, Zenon DEF ParseVersion, Number
  <2>2. /\ n \in Nat \ {0} /\ DOMAIN parts = 1 .. n
        /\ \A k \in 1 .. n : parts[k] \in Seq(TextTokens)
    BY SplitFacts
  <2> HIDE DEF parts, n
  <2>3. ASSUME NEW k \in 1 .. n
        PROVE  version[k] \in Seq(Digits) /\ Number(Escaped(version[k], Digits))
    <3> DEFINE p == parts[k]
    <3>1. version[k] = Chars(p) /\ Number(p) /\ p \in Seq(TextTokens)
      BY <2>1, <2>2
    <3> HIDE DEF p
    <3>2. DOMAIN p = 1 .. Len(p)
      BY <3>1, LenProperties
    <3>3. \A i \in 1 .. Len(p) : p[i] \in {Plain(d) : d \in Digits}
      BY <3>1, <3>2 DEF Number
    <3>4. Escaped(Chars(p), Digits) = p /\ Chars(p) \in Seq(Digits)
      BY <3>1, <3>3, EscapedBack
    <3> QED BY <3>1, <3>4, Zenon
  <2>4. version \in Seq(Seq(Digits)) /\ Len(version) = n
    <3>1. version = [k \in 1 .. n |-> version[k]]
      BY <2>2
    <3> HIDE DEF version
    <3>2. version \in [1 .. n -> Seq(Digits)]
      BY <2>3, <3>1
    <3> QED BY <2>2, <3>2, FunctionIsSeq
  <2>5. n \in 1 .. 3
    BY <2>1, <2>2
  <2> HIDE DEF version
  <2> QED BY <2>1, <2>3, <2>4, <2>5, Zenon DEF WellVersion
<1> QED BY <1>1, <1>2

(* An item that parses is a good one.                                       *)
LEMMA ItemParsed ==
    ASSUME NEW raw \in Seq(TextTokens), SelectorItem(raw) # Error
    PROVE  WellItem(SelectorItem(raw))
<1> DEFINE kind == CASE raw # <<>> /\ raw[1] = Plain("role=") -> "role"
                     [] raw # <<>> /\ raw[1] = Plain("tag=") -> "tag"
                     [] OTHER -> "id"
           value == IF kind = "id" THEN raw ELSE Tail(raw)
           item == SelectorItem(raw)
           allowed == Allowed("id")
<1>1. item = [kind |-> kind, value |-> Chars(value)] /\ ValidItem(kind, value)
  BY Zenon DEF SelectorItem
<1>2. kind \in {"id", "role", "tag"} /\ (kind # "id" => raw # <<>>)
  <2>1. Plain("role=") # Plain("tag=")
    BY DEF Plain
  <2> QED BY <2>1
<1> HIDE DEF kind
<1>3. value \in Seq(TextTokens)
  <2>1. raw # <<>> => Tail(raw) \in Seq(TextTokens)
    BY HeadTailProperties
  <2> QED BY <1>2, <2>1
<1> HIDE DEF value
<1>4. \A i \in 1 .. Len(value) : value[i] \in {Plain(c) : c \in allowed}
  <2>1. DOMAIN value = 1 .. Len(value)
    BY <1>3, LenProperties
  <2>2. \A i \in DOMAIN value : value[i] \in {Plain(c) : c \in Allowed(kind)}
    BY <1>1, Zenon DEF ValidItem
  <2>3. Allowed(kind) \subseteq allowed
    BY TheCharacters, Zenon
  <2> HIDE DEF allowed
  <2> QED BY <2>1, <2>2, <2>3
<1> HIDE DEF item, allowed
<1>5. Escaped(Chars(value), allowed) = value /\ Chars(value) \in Seq(allowed)
  BY <1>3, <1>4, EscapedBack
<1>6. item.kind = kind /\ item.value = Chars(value) /\ item \in Items
  BY <1>1, <1>2, <1>5 DEF Items, allowed
<1> QED BY <1>1, <1>5, <1>6, Zenon DEF WellItem, item, allowed

(* A selector that parses is a good one.                                    *)
LEMMA SelectorParsed ==
    ASSUME NEW raw \in Seq(TextTokens), ParseSelector(raw) # Error
    PROVE  WellSelector(ParseSelector(raw))
<1> DEFINE parts == Split(raw, ",")
           n == Len(parts)
           items == [k \in DOMAIN parts |-> SelectorItem(parts[k])]
<1>1. ParseSelector(raw) = items /\ Len(items) <= MaxSelectorItems /\ Error \notin ToSet(items)
  BY Zenon DEF ParseSelector
<1>2. /\ n \in Nat \ {0} /\ DOMAIN parts = 1 .. n
      /\ \A k \in 1 .. n : parts[k] \in Seq(TextTokens)
  BY SplitFacts
<1> HIDE DEF parts, n
<1>3. ASSUME NEW k \in 1 .. n PROVE WellItem(items[k]) /\ items[k] \in Items
  <2>1. items[k] = SelectorItem(parts[k]) /\ k \in DOMAIN items
    BY <1>2
  <2> HIDE DEF items
  <2>2. items[k] # Error
    BY <1>1, <2>1 DEF ToSet
  <2>3. WellItem(SelectorItem(parts[k]))
    BY <1>2, <2>1, <2>2, ItemParsed
  <2> QED BY <2>1, <2>3, Zenon DEF WellItem
<1>4. items = [k \in 1 .. n |-> items[k]]
  BY <1>2
<1> HIDE DEF items
<1>5. items \in Seq(Items) /\ Len(items) = n
  <2>1. items \in [1 .. n -> Items]
    BY <1>3, <1>4
  <2> QED BY <1>2, <2>1, FunctionIsSeq
<1>6. n \in 1 .. MaxSelectorItems
  <2>1. n <= MaxSelectorItems
    BY <1>1, <1>5, Zenon
  <2> QED BY <1>2, <2>1, LimitsAssumption
<1> QED BY <1>1, <1>3, <1>5, <1>6, Zenon DEF WellSelector

(* A path's parts are sequences of what the path is made of.                *)
LEMMA PathParsed ==
    ASSUME NEW path \in Seq(TextTokens), Len(path) > 1
    PROVE  /\ LastOf(path) \in Seq(TextTokens)
           /\ RawOf(path) \in Seq(Seq(TextTokens))
           /\ Len(RawOf(path)) = Len(PartsOf(path)) /\ Len(PartsOf(path)) \in Nat \ {0}
           /\ NameOf(path) \in Seq(Seq(Alphabet)) /\ Len(NameOf(path)) = Len(PartsOf(path))
           /\ DOMAIN RawOf(path) = 1 .. Len(PartsOf(path))
           /\ \A i \in 1 .. Len(PartsOf(path)) : Len(NameOf(path)[i]) = Len(RawOf(path)[i])
<1> DEFINE parts == PartsOf(path)
           n == Len(parts)
           raw == RawOf(path)
           name == NameOf(path)
           last == LastOf(path)
<1>1. Tail(path) \in Seq(TextTokens)
  <2>1. path # <<>>
    <3>1. Len(path) # 0
      OBVIOUS
    <3> QED BY <3>1, EmptySeq
  <2> QED BY <2>1, HeadTailProperties
<1>2. /\ parts \in Seq(Seq(TextTokens)) /\ n \in Nat \ {0} /\ DOMAIN parts = 1 .. n
      /\ \A k \in 1 .. n : parts[k] \in Seq(TextTokens)
  BY <1>1, SplitFacts DEF PartsOf
<1>3. n \in 1 .. n
  BY <1>2
<1>4. last \in Seq(TextTokens)
  BY <1>2, <1>3, Zenon DEF LastOf
<1>5. Before(last, "@") \in Seq(TextTokens)
  BY <1>4, MarkParts
<1>6. raw = [parts EXCEPT ![n] = Before(last, "@")]
  BY Zenon DEF RawOf
<1> HIDE DEF parts, n, raw, last
<1>7. raw \in Seq(Seq(TextTokens)) /\ Len(raw) = n
  BY <1>2, <1>3, <1>5, <1>6, ExceptSeq DEF n
<1>8. DOMAIN raw = 1 .. n /\ \A i \in 1 .. n : raw[i] \in Seq(TextTokens)
  BY <1>7, LenProperties, ElementOfSeq
<1>9. ASSUME NEW i \in 1 .. n
      PROVE  name[i] \in Seq(Alphabet) /\ Len(name[i]) = Len(raw[i])
  <2> DEFINE r == raw[i]
             c == Chars(r)
  <2>1. name[i] = c
    BY <1>8 DEF NameOf, raw
  <2>2. r \in Seq(TextTokens)
    BY <1>8
  <2> HIDE DEF r
  <2>3. Len(r) \in Nat /\ DOMAIN r = 1 .. Len(r) /\ \A j \in 1 .. Len(r) : r[j] \in TextTokens
    BY <2>2, LenProperties, ElementOfSeq
  <2>4. c \in [1 .. Len(r) -> Alphabet]
    <3>1. \A j \in 1 .. Len(r) : r[j].char \in Alphabet
      BY <2>3 DEF TextTokens
    <3> QED BY <2>3, <3>1 DEF Chars
  <2> HIDE DEF c
  <2>5. c \in Seq(Alphabet) /\ Len(c) = Len(r)
    BY <2>3, <2>4, FunctionIsSeq
  <2> QED BY <2>1, <2>5, Zenon DEF r
<1>10. name \in Seq(Seq(Alphabet)) /\ Len(name) = n
  <2>1. name = [i \in 1 .. n |-> name[i]]
    BY <1>8 DEF NameOf, raw
  <2> HIDE DEF name
  <2>2. name \in [1 .. n -> Seq(Alphabet)]
    BY <1>9, <2>1
  <2> QED BY <1>2, <2>2, FunctionIsSeq
<1> QED BY <1>2, <1>4, <1>7, <1>8, <1>9, <1>10, Zenon DEF parts, n, raw, last

(* murl.rs:230-236: what Murl::parse returns keeps the struct's invariants. *)
LEMMA ParsedIsWellFormed ==
    ASSUME NEW t, t.tail \in Seq(TextTokens), Parse(t) # Error
    PROVE  WellFormed(Parse(t)) /\ Fits(Parse(t))
<1> DEFINE m == Parse(t)
           path == PathOf(t)
           name == NameOf(path)
           raw == RawOf(path)
           n == Len(PartsOf(path))
<1>1. Readable(t) /\ m = Reading(t)
  BY ParseIs, Zenon
<1>2. /\ Plain("control") \notin ToSet(t.tail)
      /\ ParseAuthority(t.authority) # Error
      /\ Len(path) > 1 /\ n <= MaxSegments
      /\ \A i \in DOMAIN raw : DecodesTo(raw[i], name[i])
      /\ VersionOf(path) # Error
      /\ (IF FragmentOf(t) = None THEN None ELSE ParseSelector(FragmentOf(t))) # Error
      /\ QueryOf(t) # None => Width(QueryOf(t)) <= MaxQuery
      /\ Fits(m)
  BY <1>1, Zenon DEF Readable, Reading
<1>3. /\ m.authority = ParseAuthority(t.authority) /\ m.name = name /\ m.version = VersionOf(path)
      /\ m.selector = IF FragmentOf(t) = None THEN None ELSE ParseSelector(FragmentOf(t))
      /\ m.query = QueryOf(t)
      /\ m = [authority |-> m.authority, name |-> m.name, version |-> m.version,
              selector |-> m.selector, query |-> m.query]
  <2> HIDE DEF m, path, name
  <2> QED BY <1>1, Zenon DEF Reading, name, path
<1> HIDE DEF m, path, name, raw, n
<1>4. /\ RestOf(t) \in Seq(TextTokens) /\ ToSet(RestOf(t)) \subseteq ToSet(t.tail)
      /\ Plain("#") \notin ToSet(RestOf(t))
      /\ FragmentOf(t) # None => FragmentOf(t) \in Seq(TextTokens)
  BY MarkParts DEF RestOf, FragmentOf
<1>5. /\ path \in Seq(TextTokens)
      /\ QueryOf(t) # None =>
            QueryOf(t) \in Seq(TextTokens) /\ ToSet(QueryOf(t)) \subseteq ToSet(RestOf(t))
  BY <1>4, MarkParts DEF path, QueryOf, PathOf
<1>6. /\ LastOf(path) \in Seq(TextTokens)
      /\ n \in Nat \ {0} /\ DOMAIN raw = 1 .. n
      /\ name \in Seq(Seq(Alphabet)) /\ Len(name) = n
      /\ \A i \in 1 .. n : Len(name[i]) = Len(raw[i])
  BY <1>2, <1>5, PathParsed DEF name, raw, n
<1>7. WellAuthority(m.authority)
  <2> DEFINE a == ParseAuthority(t.authority)
             h == t.authority.host
             p == t.authority.port
  <2>1. /\ h \in Hosts \cup {Local} /\ (p # None => h # Local /\ p \in Ports)
        /\ a = [host |-> h, port |-> p]
    BY <1>2, Zenon DEF ParseAuthority
  <2>2. a # Error
    BY <1>2
  <2> HIDE DEF a, h, p
  <2>3. a.host = h /\ a.port = p
    BY <2>1
  <2> QED BY <1>3, <2>1, <2>2, <2>3, Zenon DEF WellAuthority, a
<1>8. WellName(m.name)
  <2>1. ASSUME NEW i \in 1 .. n
        PROVE  /\ Len(name[i]) \in 1 .. MaxSegmentBytes
               /\ ToSet(name[i]) \cap Undecodable = {}
               /\ name[i] \notin {<<".">>, <<".", ".">>}
    <3>1. DecodesTo(raw[i], name[i]) /\ Len(name[i]) = Len(raw[i])
      BY <1>2, <1>6
    <3> QED BY <3>1, Zenon DEF DecodesTo
  <2>2. n \in 1 .. MaxSegments
    BY <1>2, <1>6, LimitsAssumption
  <2> QED BY <1>3, <1>6, <2>1, <2>2, Zenon DEF WellName
<1>9. WellVersion(m.version) /\ m.version # Error
  <2> DEFINE mark == After(LastOf(path), "@")
  <2>1. CASE mark = None
    <3>1. VersionOf(path) = Latest
      BY <2>1, Zenon DEF VersionOf
    <3> QED BY <1>2, <1>3, <3>1, Zenon DEF WellVersion
  <2>2. CASE mark # None
    <3>1. VersionOf(path) = ParseVersion(mark)
      BY <2>2, Zenon DEF VersionOf
    <3>2. mark \in Seq(TextTokens)
      BY <1>6, <2>2, MarkParts
    <3> HIDE DEF mark
    <3>3. WellVersion(ParseVersion(mark))
      BY <1>2, <3>1, <3>2, VersionParsed
    <3> QED BY <1>2, <1>3, <3>1, <3>3, Zenon
  <2> QED BY <2>1, <2>2
<1>10. WellSelector(m.selector) /\ m.selector # Error
  <2>1. CASE FragmentOf(t) = None
    BY <1>2, <1>3, <2>1, Zenon DEF WellSelector
  <2>2. CASE FragmentOf(t) # None
    <3>1. m.selector = ParseSelector(FragmentOf(t)) /\ ParseSelector(FragmentOf(t)) # Error
      BY <1>2, <1>3, <2>2, Zenon
    <3>2. WellSelector(ParseSelector(FragmentOf(t)))
      BY <1>4, <2>2, <3>1, SelectorParsed
    <3> QED BY <3>1, <3>2, Zenon
  <2> QED BY <2>1, <2>2
<1>11. WellQuery(m.query)
  <2>1. CASE QueryOf(t) = None
    BY <1>3, <2>1, Zenon DEF WellQuery
  <2>2. CASE QueryOf(t) # None
    <3> DEFINE q == QueryOf(t)
    <3>1. q \in Seq(TextTokens) /\ ToSet(q) \subseteq ToSet(RestOf(t)) /\ Width(q) <= MaxQuery
      BY <1>2, <1>5, <2>2
    <3> HIDE DEF q
    <3>2. \A c \in {"#", "control"} : Plain(c) \notin ToSet(q)
      BY <1>2, <1>4, <3>1
    <3>3. q \in Seq(Without({"#", "control"}))
      BY <3>1, <3>2, WithoutIs
    <3> QED BY <1>3, <3>1, <3>3, Zenon DEF WellQuery, q
  <2> QED BY <2>1, <2>2
<1> QED BY <1>2, <1>3, <1>7, <1>8, <1>9, <1>10, <1>11, Zenon DEF WellFormed, m

(* The parts of a path tell its name and version.                           *)
LEMMA PathTells ==
    ASSUME NEW safe \in SUBSET Unreserved,
           NEW a, WellFormed(a), NEW b, WellFormed(b),
           PathText(a.name, a.version, safe) = PathText(b.name, b.version, safe)
    PROVE  a.name = b.name /\ a.version = b.version
<1> DEFINE path == PathText(a.name, a.version, safe)
<1>1. WellName(a.name) /\ WellVersion(a.version) /\ WellName(b.name) /\ WellVersion(b.version)
  BY Zenon DEF WellFormed
<1>2. NameOf(path) = a.name /\ VersionOf(path) = a.version
  BY <1>1, PathRead
<1>3. NameOf(path) = b.name /\ VersionOf(path) = b.version
  BY <1>1, PathRead
<1> QED BY <1>2, <1>3

(* A name without selector and query has its other parts.                   *)
LEMMA BareRecord ==
    ASSUME NEW a, NEW n, NEW v, NEW s, NEW q
    PROVE  Bare([authority |-> a, name |-> n, version |-> v, selector |-> s, query |-> q])
               = [authority |-> a, name |-> n, version |-> v, selector |-> None, query |-> None]
<1> DEFINE r == [authority |-> a, name |-> n, version |-> v, selector |-> s, query |-> q]
           b == Bare(r)
           D == {"authority", "name", "version", "selector", "query"}
<1>1. DOMAIN r = D
  OBVIOUS
<1>2. r.authority = a /\ r.name = n /\ r.version = v
  OBVIOUS
<1> HIDE DEF r
<1>3. b = [x \in D |-> IF x = "selector" THEN None ELSE IF x = "query" THEN None ELSE r[x]]
  BY <1>1 DEF Bare
<1>4. [authority |-> a, name |-> n, version |-> v, selector |-> None, query |-> None]
         = [x \in D |-> IF x = "selector" THEN None ELSE IF x = "query" THEN None ELSE r[x]]
  BY <1>2
<1> QED BY <1>3, <1>4 DEF r

(* A well-formed name without selector and query is well formed.            *)
LEMMA BareIs ==
    ASSUME NEW m, WellFormed(m)
    PROVE  /\ WellFormed(Bare(m))
           /\ Bare(m).name = m.name /\ Bare(m).version = m.version /\ Bare(m).authority = m.authority
           /\ Bare(m).query = None /\ Bare(m).selector = None
           /\ Bare(m) = [authority |-> m.authority, name |-> m.name, version |-> m.version,
                         selector |-> None, query |-> None]
<1> DEFINE b == [authority |-> m.authority, name |-> m.name, version |-> m.version,
                 selector |-> None, query |-> None]
<1>1. m = [authority |-> m.authority, name |-> m.name, version |-> m.version,
           selector |-> m.selector, query |-> m.query]
  BY Zenon DEF WellFormed
<1>2. Bare(m) = b
  <2> DEFINE r == [authority |-> m.authority, name |-> m.name, version |-> m.version,
                   selector |-> m.selector, query |-> m.query]
  <2>1. Bare(r) = b
    BY BareRecord
  <2>2. m = r
    BY <1>1
  <2> HIDE DEF r, b
  <2> QED BY <2>1, <2>2, Zenon
<1>3. /\ b.name = m.name /\ b.version = m.version /\ b.authority = m.authority
      /\ b.query = None /\ b.selector = None
      /\ b = [authority |-> b.authority, name |-> b.name, version |-> b.version,
              selector |-> b.selector, query |-> b.query]
  OBVIOUS
<1>4. None # Error
  BY AbsentAssumption
<1> HIDE DEF b
<1>5. WellFormed(b)
  <2>1. WellAuthority(m.authority) /\ WellName(m.name) /\ WellVersion(m.version) /\ m.version # Error
    BY Zenon DEF WellFormed
  <2>2. WellSelector(None) /\ WellQuery(None)
    BY Zenon DEF WellSelector, WellQuery
  <2>3. WellAuthority(b.authority) /\ WellName(b.name) /\ WellVersion(b.version) /\ b.version # Error
    BY <1>3, <2>1, Zenon
  <2>4. WellSelector(b.selector) /\ WellQuery(b.query) /\ b.selector # Error
    BY <1>3, <1>4, <2>2, Zenon
  <2> QED BY <1>3, <2>3, <2>4, Zenon DEF WellFormed
<1> QED BY <1>2, <1>3, <1>5, Zenon DEF b

-----------------------------------------------------------------------------
(* Places. The last token of a file's name or of a URL is not the name's.   *)
LEMMA FrontAppend ==
    ASSUME NEW T, NEW s \in Seq(T), NEW x \in T
    PROVE  s \o <<x>> \in Seq(T) /\ Front(s \o <<x>>) = s
<1>1. s \o <<x>> = Append(s, x) /\ s \o <<x>> \in Seq(T)
  OBVIOUS
<1>2. Len(s \o <<x>>) - 1 = Len(s)
  OBVIOUS
<1>3. SubSeq(s \o <<x>>, 1, Len(s)) = s
  OBVIOUS
<1> QED BY <1>1, <1>2, <1>3 DEF Front

FileText(name, version) ==
    [i \in DOMAIN name |->
        Escaped(name[i], FileSafe)
        \o (IF i = Len(name) THEN VersionMark(version) \o <<Plain(".murl.json")>> ELSE <<>>)]

(* The name's path is what is left of its file's.                           *)
LEMMA FileParts ==
    ASSUME NEW name, WellName(name), NEW version, WellVersion(version)
    PROVE  /\ Len(FileText(name, version)) = Len(name)
           /\ DOMAIN FileText(name, version) = DOMAIN Segments(name, version, FileSafe)
           /\ \A i \in DOMAIN Segments(name, version, FileSafe) :
                 (IF i = Len(name) THEN Front(FileText(name, version)[i]) ELSE FileText(name, version)[i])
                     = Segments(name, version, FileSafe)[i]
<1> DEFINE n == Len(name)
           p == FileText(name, version)
           segs == Segments(name, version, FileSafe)
           v == VersionMark(version)
           e(i) == Escaped(name[i], FileSafe)
           dot == Plain(".murl.json")
           W == Without(SegmentMarks)
<1>1. FileSafe \in SUBSET Unreserved
  BY DEF FileSafe
<1>2. Segmented(name, version, FileSafe)
  BY <1>1, SegmentsFacts
<1>3. n \in Nat \ {0} /\ DOMAIN name = 1 .. n /\ DOMAIN segs = 1 .. n
  BY <1>2, Zenon DEF Segmented
<1>4. \A i \in 1 .. n : p[i] = e(i) \o (IF i = n THEN v \o <<dot>> ELSE <<>>)
  BY <1>3 DEF FileText
<1>5. \A i \in 1 .. n : segs[i] = e(i) \o (IF i = n THEN v ELSE <<>>)
  BY <1>3 DEF Segments
<1>6. DOMAIN p = 1 .. n /\ Len(p) = n
  <2>1. DOMAIN p = 1 .. n
    BY <1>3 DEF FileText
  <2>2. p = [i \in 1 .. n |-> p[i]]
    BY <1>3 DEF FileText
  <2> HIDE DEF p, n
  <2>3. p \in [1 .. n -> {p[i] : i \in 1 .. n}]
    BY <2>2
  <2>4. Len(p) = n
    BY <1>3, <2>3, FunctionIsSeq
  <2> QED BY <2>1, <2>4
<1>7. dot \in W
  <2>1. ".murl.json" \in Alphabet
    BY AlphabetAssumption DEF Unreserved
  <2>2. ".murl.json" \notin SegmentMarks
    BY DEF SegmentMarks, PathMarks
  <2> QED BY <2>1, <2>2, PlainToken
<1>8. v \in Seq(W) /\ e(n) \in Seq(W) /\ e(n) \o v \in Seq(W)
  <2>1. n \in 1 .. n
    BY <1>3
  <2>2. e(n) \in Seq(W) /\ Plain("@") \notin ToSet(e(n))
    BY <1>2, <2>1, Zenon DEF Segmented
  <2> QED BY <2>2, MarkRead
<1>9. Front(e(n) \o (v \o <<dot>>)) = e(n) \o v
  <2> DEFINE en == e(n)
  <2> HIDE DEF en, v, dot, W
  <2>1. Associative(W) /\ <<dot>> \in Seq(W)
    BY <1>7, Associates
  <2>2. en \o (v \o <<dot>>) = (en \o v) \o <<dot>>
    BY <1>8, <2>1, Zenon DEF Associative, en
  <2>3. Front((en \o v) \o <<dot>>) = en \o v
    BY <1>7, <1>8, FrontAppend DEF en
  <2> QED BY <2>2, <2>3, Zenon DEF en
<1> HIDE DEF p, segs, v, dot, W, e, n
<1>10. ASSUME NEW i \in 1 .. n
       PROVE  (IF i = n THEN Front(p[i]) ELSE p[i]) = segs[i]
  <2>1. CASE i = n
    BY <1>4, <1>5, <1>9, <2>1, Zenon
  <2>2. CASE i # n
    BY <1>4, <1>5, <2>2, Zenon
  <2> QED BY <2>1, <2>2
<1> QED BY <1>3, <1>6, <1>10, Zenon DEF p, segs, n

(* A file listed as a text has the path of its name.                        *)
LEMMA ListedText ==
    ASSUME NEW name, WellName(name), NEW version, WellVersion(version)
    PROVE  ListedAs(FileText(name, version)).tail = PathText(name, version, FileSafe)
<1> DEFINE p == FileText(name, version)
           segs == Segments(name, version, FileSafe)
           x == Plain("/")
           listed == [i \in DOMAIN p |-> <<x>> \o (IF i = Len(p) THEN Front(p[i]) ELSE p[i])]
           all == [i \in DOMAIN segs |-> <<x>> \o segs[i]]
           W == Without(PathMarks)
<1>1. FileSafe \in SUBSET Unreserved
  BY DEF FileSafe
<1>2. /\ Len(p) = Len(name) /\ DOMAIN p = DOMAIN segs
      /\ \A i \in DOMAIN segs : (IF i = Len(name) THEN Front(p[i]) ELSE p[i]) = segs[i]
  BY FileParts
<1>3. ListedAs(p).tail = FlattenSeq(listed)
  BY Zenon DEF ListedAs
<1>4. listed = all
  <2> HIDE DEF p, segs, x
  <2>1. \A i \in DOMAIN segs : <<x>> \o (IF i = Len(p) THEN Front(p[i]) ELSE p[i]) = <<x>> \o segs[i]
    BY <1>2, Zenon
  <2> QED BY <1>2, <2>1, Zenon
<1>5. segs \in Seq(Seq(Without(SegmentMarks))) /\ segs # <<>>
  <2>1. Segmented(name, version, FileSafe)
    BY <1>1, SegmentsFacts
  <2>2. segs \in Seq(Seq(Without(SegmentMarks))) /\ Len(segs) = Len(name) /\ Len(name) \in Nat \ {0}
    BY <2>1, Zenon DEF Segmented
  <2> HIDE DEF segs
  <2>3. Len(segs) # 0
    BY <2>2
  <2> QED BY <2>2, <2>3, EmptySeq
<1>6. x \in W
  <2>1. "/" \in Alphabet
    BY TheCharacters, Zenon DEF Marks
  <2>2. "/" \notin PathMarks
    BY DEF PathMarks
  <2> QED BY <2>1, <2>2, PlainToken
<1>7. segs \in Seq(Seq(W))
  <2>1. Without(SegmentMarks) \subseteq W
    BY DEF Without, SegmentMarks
  <2> HIDE DEF segs, W
  <2>2. \A s \in Seq(Without(SegmentMarks)) : s \in Seq(W)
    BY <2>1
  <2>3. Seq(Without(SegmentMarks)) \subseteq Seq(W)
    BY <2>2
  <2> QED BY <1>5, <2>3
<1>8. FlattenSeq(all) = <<x>> \o Joined(segs, "/")
  <2> HIDE DEF segs, W
  <2> QED BY <1>5, <1>6, <1>7, SlashedIsJoined
<1>9. PathText(name, version, FileSafe) = <<x>> \o Joined(segs, "/")
  BY <1>1, PathIs
<1> QED BY <1>3, <1>4, <1>8, <1>9, Zenon

(* A file listed as a name is the name it is the file of, or no name.       *)
LEMMA ListedRead ==
    ASSUME NEW m, WellFormed(m), m.authority.host = Local
    PROVE  /\ ManifestPath(m) = FileText(m.name, m.version)
           /\ Parse(ListedAs(ManifestPath(m))) \in {Bare(m), Error}
<1> DEFINE b == Bare(m)
           t == ListedAs(ManifestPath(m))
<1>1. ManifestPath(m) = FileText(m.name, m.version)
  BY Zenon DEF ManifestPath, FileText
<1>2. WellName(m.name) /\ WellVersion(m.version) /\ WellAuthority(m.authority)
  BY Zenon DEF WellFormed
<1>3. t.tail = PathText(m.name, m.version, FileSafe)
  BY <1>1, <1>2, ListedText
<1>4. /\ WellFormed(b) /\ b.name = m.name /\ b.version = m.version /\ b.authority = m.authority
      /\ b.query = None /\ b.selector = None
  BY BareIs
<1>5. t.scheme = TRUE /\ t.authority.host = Local /\ t.authority.port = None
  BY DEF ListedAs
<1>6. m.authority.port = None
  BY <1>2, Zenon DEF WellAuthority
<1>7. FileSafe \in SUBSET Unreserved
  BY DEF FileSafe
<1>8. t.tail = PathText(b.name, b.version, FileSafe) \o QueryText(b.query) \o FragmentText(b.selector)
  <2> DEFINE path == PathText(m.name, m.version, FileSafe)
  <2>1. path \in Seq(Without(PathMarks))
    BY <1>2, <1>7, PathRead
  <2> HIDE DEF path
  <2>2. path \o <<>> = path
    BY <2>1
  <2>3. QueryText(b.query) = <<>> /\ FragmentText(b.selector) = <<>>
    BY <1>4, Zenon DEF QueryText, FragmentText
  <2>4. PathText(b.name, b.version, FileSafe) = path
    BY <1>4, Zenon DEF path
  <2>5. t.tail = path
    BY <1>3, Zenon DEF path
  <2> QED BY <2>2, <2>3, <2>4, <2>5, Zenon
<1> HIDE DEF b, t
<1>9. Reading(t) = b
  BY <1>4, <1>5, <1>6, <1>7, <1>8, FormRead
<1>10. Parse(t) = Reading(t) \/ Parse(t) = Error
  BY ParseIs, Zenon
<1> QED BY <1>1, <1>9, <1>10 DEF b, t

(* Two names of one authority and one path differ in selector and query only. *)
LEMMA SameBare ==
    ASSUME NEW a, WellFormed(a), NEW b, WellFormed(b), NEW safe \in SUBSET Unreserved,
           a.authority = b.authority,
           PathText(a.name, a.version, safe) = PathText(b.name, b.version, safe)
    PROVE  Bare(a) = Bare(b)
<1>1. a.name = b.name /\ a.version = b.version
  BY PathTells
<1>2. Bare(a) = [authority |-> a.authority, name |-> a.name, version |-> a.version,
                 selector |-> None, query |-> None]
  BY BareIs
<1>3. Bare(b) = [authority |-> b.authority, name |-> b.name, version |-> b.version,
                 selector |-> None, query |-> None]
  BY BareIs
<1> QED BY <1>1, <1>2, <1>3, Zenon

(* A file is that of one name.                                              *)
LEMMA LocalPlaces ==
    ASSUME NEW a, WellFormed(a), a.authority.host = Local,
           NEW b, WellFormed(b), b.authority.host = Local,
           ManifestPath(a) = ManifestPath(b)
    PROVE  Bare(a) = Bare(b)
<1>1. FileSafe \in SUBSET Unreserved
  BY DEF FileSafe
<1>2. ASSUME NEW m, WellFormed(m), m.authority.host = Local
      PROVE  /\ ListedAs(ManifestPath(m)).tail = PathText(m.name, m.version, FileSafe)
             /\ m.authority = [host |-> Local, port |-> None]
  <2>1. WellName(m.name) /\ WellVersion(m.version) /\ WellAuthority(m.authority)
    BY <1>2, Zenon DEF WellFormed
  <2>2. ManifestPath(m) = FileText(m.name, m.version)
    BY <1>2, ListedRead
  <2>3. ListedAs(FileText(m.name, m.version)).tail = PathText(m.name, m.version, FileSafe)
    BY <2>1, ListedText
  <2>4. m.authority.port = None
    BY <1>2, <2>1, Zenon DEF WellAuthority
  <2>5. m.authority = [host |-> m.authority.host, port |-> m.authority.port]
    BY <2>1, Zenon DEF WellAuthority
  <2>6. m.authority = [host |-> Local, port |-> None]
    BY <1>2, <2>4, <2>5, Zenon
  <2> QED BY <2>2, <2>3, <2>6, Zenon
<1>3. PathText(a.name, a.version, FileSafe) = PathText(b.name, b.version, FileSafe)
  BY <1>2, Zenon
<1>4. a.authority = b.authority
  BY <1>2, Zenon
<1> QED BY <1>1, <1>3, <1>4, SameBare

(* A URL is that of one name.                                               *)
LEMMA UrlPlaces ==
    ASSUME NEW a, WellFormed(a), NEW b, WellFormed(b), WellKnownUrl(a) = WellKnownUrl(b)
    PROVE  Bare(a) = Bare(b)
<1> DEFINE dot == Plain(".murl.json")
           path(m) == PathText(m.name, m.version, Unreserved)
           W == Without(PathMarks)
<1>1. ASSUME NEW m, WellFormed(m)
      PROVE  /\ path(m) \in Seq(W)
             /\ WellKnownUrl(m).authority = m.authority
             /\ WellKnownUrl(m).path = path(m) \o <<dot>>
  <2>1. WellName(m.name) /\ WellVersion(m.version)
    BY <1>1, Zenon DEF WellFormed
  <2>2. path(m) \in Seq(W)
    BY <2>1, PathRead
  <2>3. Identity(m).tail = path(m)
    BY Zenon DEF Identity, PathText
  <2> DEFINE p == Identity(m).tail \o <<dot>>
  <2> HIDE DEF path
  <2>4. p = path(m) \o <<dot>>
    BY <2>3, Zenon
  <2>5. WellKnownUrl(m) = [scheme |-> IF IsLoopback(m.authority.host) THEN "http" ELSE "https",
                           authority |-> m.authority, path |-> p]
    BY Zenon DEF WellKnownUrl
  <2> HIDE DEF p
  <2>6. WellKnownUrl(m).authority = m.authority /\ WellKnownUrl(m).path = p
    BY <2>5
  <2> QED BY <2>2, <2>4, <2>6, Zenon
<1>2. dot \in W
  <2>1. ".murl.json" \in Alphabet
    BY AlphabetAssumption DEF Unreserved
  <2>2. ".murl.json" \notin PathMarks
    BY DEF PathMarks
  <2> QED BY <2>1, <2>2, PlainToken
<1> HIDE DEF dot, path, W
<1>3. path(a) \o <<dot>> = path(b) \o <<dot>> /\ a.authority = b.authority
  <2>1. /\ WellKnownUrl(a).authority = a.authority /\ WellKnownUrl(a).path = path(a) \o <<dot>>
        /\ WellKnownUrl(b).authority = b.authority /\ WellKnownUrl(b).path = path(b) \o <<dot>>
    BY <1>1
  <2> QED BY <2>1, Zenon
<1>4. Front(path(a) \o <<dot>>) = path(a) /\ Front(path(b) \o <<dot>>) = path(b)
  <2>1. path(a) \in Seq(W) /\ path(b) \in Seq(W)
    BY <1>1
  <2> QED BY <1>2, <2>1, FrontAppend
<1>5. path(a) = path(b)
  BY <1>3, <1>4, Zenon
<1>6. Unreserved \in SUBSET Unreserved
  OBVIOUS
<1> QED BY <1>3, <1>5, <1>6, SameBare DEF path

-----------------------------------------------------------------------------
(* 4. The types of a fetch, and what a parsed name is. *)

Types ==
    /\ limit \in 0 .. MaxTries /\ pc \in Phases
    /\ hop \in {None, "http", "https"} /\ (pc \in {"asking", "waiting"} => hop \in {"http", "https"})
    /\ body \in 0 .. MaxBody
    /\ connected \subseteq [scheme : {"http", "https"}, to : Addresses]

Written ==
    /\ pc = "given" => text \in Texts
    /\ murl \in {None, Error} \/ (WellFormed(murl) /\ Fits(murl))
    /\ pc \in {"parsed", "stored"} \/ Fetching => WellFormed(murl) /\ Fits(murl)
    /\ pc = "stored" => Host = Local /\ place = ManifestPath(murl)

(* A step keeps the types of a fetch.                                       *)
LEMMA TypesStep ==
    ASSUME IInv, Types, [Next]_vars
    PROVE  Types'
<1> USE DEF Types, Phases, Fail
<1>1. CASE ParseText
  BY <1>1 DEF ParseText
<1>2. CASE InStore
  BY <1>2 DEF InStore
<1>3. CASE AtAuthority
  BY <1>3 DEF AtAuthority, WellKnownUrl
<1>4. CASE Connect
  <2>1. pc' \in Phases /\ hop' = hop /\ limit' = limit /\ body' = body
    BY <1>4 DEF Connect
  <2>2. hop \in {"http", "https"}
    BY <1>4 DEF Connect
  <2>3. \A a \in Addresses : [scheme |-> hop, to |-> a] \in [scheme : {"http", "https"}, to : Addresses]
    BY <2>2
  <2>4. connected' \subseteq [scheme : {"http", "https"}, to : Addresses]
    BY <1>4, <2>3 DEF Connect
  <2> QED BY <2>1, <2>2, <2>4
<1>5. CASE Downgraded
  BY <1>5 DEF Downgraded
<1>6. CASE Redirected
  BY <1>6 DEF Redirected
<1>7. CASE Answered
  BY <1>7 DEF Answered
<1>8. CASE Broken
  BY <1>8 DEF Broken
<1>9. CASE Read
  BY <1>9 DEF Read
<1>10. CASE ReadAll
  BY <1>10 DEF ReadAll
<1>11. CASE Validate
  BY <1>11 DEF Validate, fetching
<1>12. CASE Expand
  BY <1>12 DEF Expand, fetching
<1>13. CASE Launch
  BY <1>13 DEF Launch, fetching
<1>14. CASE UNCHANGED vars
  BY <1>14 DEF vars
<1> QED
  BY <1>1, <1>2, <1>3, <1>4, <1>5, <1>6, <1>7, <1>8, <1>9, <1>10, <1>11, <1>12, <1>13, <1>14
  DEF Next

(* Only ParseText makes a name, and what it makes is well formed.           *)
LEMMA WrittenStep ==
    ASSUME Written, [Next]_vars
    PROVE  Written'
<1> USE DEF Written, Fetching, Fail
<1>1. CASE ParseText
  <2>1. text.tail \in Seq(TextTokens) /\ murl' = Parse(text)
    BY <1>1, TextsAssumption DEF ParseText
  <2>2. murl' # Error => WellFormed(murl') /\ Fits(murl')
    BY <2>1, ParsedIsWellFormed
  <2>3. pc' \in {"parsed", "failed"} /\ (pc' = "parsed" => murl' # Error)
    BY <1>1 DEF ParseText
  <2> QED BY <2>2, <2>3
<1>2. CASE InStore
  BY <1>2 DEF InStore, Host
<1>3. CASE AtAuthority
  BY <1>3 DEF AtAuthority
<1>4. CASE Connect
  BY <1>4 DEF Connect
<1>5. CASE Downgraded
  BY <1>5 DEF Downgraded
<1>6. CASE Redirected
  BY <1>6 DEF Redirected
<1>7. CASE Answered
  BY <1>7 DEF Answered
<1>8. CASE Broken
  BY <1>8 DEF Broken
<1>9. CASE Read
  BY <1>9 DEF Read
<1>10. CASE ReadAll
  BY <1>10 DEF ReadAll
<1>11. CASE Validate
  BY <1>11 DEF Validate, fetching
<1>12. CASE Expand
  BY <1>12 DEF Expand, fetching
<1>13. CASE Launch
  BY <1>13 DEF Launch, fetching
<1>14. CASE UNCHANGED vars
  BY <1>14 DEF vars, Host
<1> QED
  BY <1>1, <1>2, <1>3, <1>4, <1>5, <1>6, <1>7, <1>8, <1>9, <1>10, <1>11, <1>12, <1>13, <1>14
  DEF Next

(* The invariant what is said of names and places rests on.                 *)
THEOREM WrittenInvariance == Spec => [](IInv /\ Types /\ Written)
<1>1. Init => IInv /\ Types /\ Written
  <2>1. Init => IInv
    BY InitIInv
  <2>2. Init => Types
    BY BoundsAssumption DEF Init, Types, Phases
  <2>3. Init => Written
    BY DEF Init, Written, Fetching
  <2> QED BY <2>1, <2>2, <2>3
<1>2. IInv /\ Types /\ Written /\ [Next]_vars => (IInv /\ Types /\ Written)'
  <2>1. IInv /\ [Next]_vars => IInv'
    BY PlacesStep, ConnectionsStep, CountersStep DEF IInv
  <2> QED BY <2>1, TypesStep, WrittenStep
<1> QED BY <1>1, <1>2, PTL DEF Spec

(* The struct's invariants (murl.rs:230-236) hold of every parsed name.     *)
LEMMA NameTypes ==
    ASSUME NEW m, WellFormed(m)
    PROVE  /\ Len(m.name) \in 1 .. MaxSegments
           /\ \A i \in DOMAIN m.name :
                 /\ Len(m.name[i]) \in 1 .. MaxSegmentBytes
                 /\ ToSet(m.name[i]) \cap Undecodable = {}
                 /\ m.name[i] \notin {<<".">>, <<".", ".">>}
           /\ m.authority.host \in Hosts \cup {Local}
           /\ m.version = Latest \/ Len(m.version) \in 1 .. 3
           /\ m.selector # None =>
                 \A k \in DOMAIN m.selector :
                     ValidItem(m.selector[k].kind, Escaped(m.selector[k].value, Allowed("id")))
<1>1. WellName(m.name) /\ WellVersion(m.version) /\ WellSelector(m.selector) /\ WellAuthority(m.authority)
  BY Zenon DEF WellFormed
<1>2. Len(m.name) \in 1 .. MaxSegments /\ DOMAIN m.name = 1 .. Len(m.name)
  <2>1. m.name \in Seq(Seq(Alphabet)) /\ Len(m.name) \in 1 .. MaxSegments
    BY <1>1, Zenon DEF WellName
  <2> QED BY <2>1, LenProperties
<1>3. \A i \in DOMAIN m.name :
         /\ Len(m.name[i]) \in 1 .. MaxSegmentBytes
         /\ ToSet(m.name[i]) \cap Undecodable = {}
         /\ m.name[i] \notin {<<".">>, <<".", ".">>}
  BY <1>1, <1>2, Zenon DEF WellName
<1>4. m.authority.host \in Hosts \cup {Local}
  BY <1>1, Zenon DEF WellAuthority
<1>5. m.version = Latest \/ Len(m.version) \in 1 .. 3
  BY <1>1, Zenon DEF WellVersion
<1>6. ASSUME m.selector # None, NEW k \in DOMAIN m.selector
      PROVE  ValidItem(m.selector[k].kind, Escaped(m.selector[k].value, Allowed("id")))
  <2>1. m.selector \in Seq(Items) /\ \A i \in 1 .. Len(m.selector) : WellItem(m.selector[i])
    BY <1>1, <1>6, Zenon DEF WellSelector
  <2>2. k \in 1 .. Len(m.selector)
    BY <1>6, <2>1, LenProperties
  <2> QED BY <2>1, <2>2, Zenon DEF WellItem
<1> QED BY <1>2, <1>3, <1>4, <1>5, <1>6

(* What a parsed mURL is, and the types of a fetch (murl.rs, murl-net).     *)
THEOREM Typed == Spec => []TypeOK
<1>1. IInv /\ Types /\ Written => TypeOK
  <2> SUFFICES ASSUME IInv, Types, Written PROVE TypeOK
    OBVIOUS
  <2>1. Known => WellFormed(murl)
    BY DEF Written, Known
  <2>2. followed \in 0 .. MaxTries /\ buffer \in 0 .. body
    BY BoundsAssumption DEF IInv, Counters, Types
  <2>3. Known =>
          /\ Len(murl.name) \in 1 .. MaxSegments
          /\ \A i \in DOMAIN murl.name :
                /\ Len(murl.name[i]) \in 1 .. MaxSegmentBytes
                /\ ToSet(murl.name[i]) \cap Undecodable = {}
                /\ murl.name[i] \notin {<<".">>, <<".", ".">>}
          /\ Host \in Hosts \cup {Local}
          /\ murl.version = Latest \/ Len(murl.version) \in 1 .. 3
          /\ murl.selector # None =>
                \A k \in DOMAIN murl.selector :
                    ValidItem(murl.selector[k].kind, Escaped(murl.selector[k].value, Allowed("id")))
    BY <2>1, NameTypes, Zenon DEF Host
  <2> QED BY <2>2, <2>3, Zenon DEF TypeOK, Types
<1> QED BY <1>1, WrittenInvariance, PTL

(* murl.rs:334-342: the canonical form of every text that parses is read as *)
(* the name the text was read as.                                           *)
THEOREM CanonicalForms == Spec => []CanonicalFixedPoint
<1>1. Written => CanonicalFixedPoint
  BY DisplayRead, Zenon DEF Written, CanonicalFixedPoint
<1> QED BY <1>1, WrittenInvariance, PTL

(* The names some text parses to are well formed, without query or selector. *)
LEMMA NamedIsWellFormed ==
    ASSUME NEW b \in Named
    PROVE  WellFormed(b) /\ Bare(b) = b
<1>1. PICK t \in Texts : b = Bare(Parse(t)) /\ Parse(t) # Error
  BY DEF Named
<1>2. WellFormed(Parse(t))
  BY <1>1, TextsAssumption, ParsedIsWellFormed
<1>3. /\ WellFormed(b) /\ b.query = None /\ b.selector = None
      /\ b = [authority |-> b.authority, name |-> b.name, version |-> b.version,
              selector |-> None, query |-> None]
  <2>1. LET c == Bare(Parse(t))
        IN  /\ WellFormed(c) /\ c.query = None /\ c.selector = None
    BY <1>2, BareIs
  <2>2. WellFormed(b) /\ b.query = None /\ b.selector = None
    BY <1>1, <2>1, Zenon
  <2>3. b = [authority |-> b.authority, name |-> b.name, version |-> b.version,
             selector |-> b.selector, query |-> b.query]
    BY <2>2, Zenon DEF WellFormed
  <2> QED BY <2>2, <2>3, Zenon
<1>4. Bare(b) = [authority |-> b.authority, name |-> b.name, version |-> b.version,
                 selector |-> None, query |-> None]
  BY <1>3, BareIs
<1> QED BY <1>3, <1>4, Zenon

(* fetch.rs:34-59, 82-94, 159-163: of all the names the texts are read as,  *)
(* two have one file or one URL only if they are one, and a file is listed  *)
(* as its name or not at all.                                               *)
THEOREM DistinctPlaces == Spec => []PlacesAreDistinct
<1>1. IInv /\ Written => PlacesAreDistinct
  <2> SUFFICES ASSUME IInv, Written PROVE PlacesAreDistinct
    OBVIOUS
  <2>1. ASSUME pc = "stored"
        PROVE  /\ Parse(ListedAs(place)) \in {Bare(murl), Error}
               /\ \A file \in Files : file[1] = place => file[2] = Bare(murl)
    <3>1. WellFormed(murl) /\ murl.authority.host = Local /\ place = ManifestPath(murl)
      BY <2>1 DEF Written, Host
    <3>2. Parse(ListedAs(place)) \in {Bare(murl), Error}
      BY <3>1, ListedRead
    <3>3. ASSUME NEW file \in Files, file[1] = place PROVE file[2] = Bare(murl)
      <4>1. PICK m \in Named : m.authority.host = Local /\ file = <<ManifestPath(m), m>>
        BY DEF Files
      <4>2. ManifestPath(m) = ManifestPath(murl) /\ file[2] = m
        BY <3>1, <3>3, <4>1
      <4>3. WellFormed(m) /\ Bare(m) = m
        BY NamedIsWellFormed
      <4>4. Bare(m) = Bare(murl)
        BY <3>1, <4>1, <4>2, <4>3, LocalPlaces
      <4> QED BY <4>2, <4>3, <4>4, Zenon
    <3> QED BY <3>2, <3>3
  <2>2. ASSUME pc = "asking"
        PROVE  \A url \in Urls : url[1] = place => url[2] = Bare(murl)
    <3>1. WellFormed(murl) /\ place = WellKnownUrl(murl)
      BY <2>2 DEF Written, Fetching, IInv, Placed
    <3>2. ASSUME NEW url \in Urls, url[1] = place PROVE url[2] = Bare(murl)
      <4>1. PICK m \in Named : url = <<WellKnownUrl(m), m>>
        BY DEF Urls
      <4>2. WellKnownUrl(m) = WellKnownUrl(murl) /\ url[2] = m
        BY <3>1, <3>2, <4>1
      <4>3. WellFormed(m) /\ Bare(m) = m
        BY NamedIsWellFormed
      <4>4. Bare(m) = Bare(murl)
        BY <3>1, <4>2, <4>3, UrlPlaces
      <4> QED BY <4>2, <4>3, <4>4, Zenon
    <3> QED BY <3>2
  <2> QED BY <2>1, <2>2, Zenon DEF PlacesAreDistinct
<1> QED BY <1>1, WrittenInvariance, PTL

-----------------------------------------------------------------------------
(* 5. Targets. *)

(* Paths. A part of a path lies between two places where it may be cut.     *)
PlacesIn(s, S) == {i \in DOMAIN s : s[i] \in S}
PartCut(s, S, k) == Cut(CutsOf(s, PlacesIn(s, S)), k)
Between(s, a, b) == SubSeq(s, a + 1, b - 1)

(* Two neighbouring cuts.                                                   *)
Framed(s, S, a, b) ==
    /\ a \in 0 .. Len(s) /\ b \in 1 .. Len(s) + 1 /\ a < b
    /\ a = 0 \/ s[a] \in S
    /\ b = Len(s) + 1 \/ s[b] \in S
    /\ \A i \in 1 .. Len(s) : a < i /\ i < b => s[i] \notin S

(* What lies between them.                                                  *)
LEMMA BetweenIs ==
    ASSUME NEW T, NEW s \in Seq(T), NEW a \in 0 .. Len(s), NEW b \in 1 .. Len(s) + 1, a < b
    PROVE  /\ Between(s, a, b) \in Seq(T) /\ Len(Between(s, a, b)) = b - a - 1
           /\ DOMAIN Between(s, a, b) = 1 .. b - a - 1
           /\ \A i \in 1 .. b - a - 1 : Between(s, a, b)[i] = s[a + i]
<1>1. Len(s) \in Nat /\ \A i \in 1 .. Len(s) : s[i] \in T
  BY LenProperties, ElementOfSeq
<1>2. a + 1 \in Int /\ b - 1 \in Int /\ \A i \in (a + 1) .. (b - 1) : s[i] \in T
  BY <1>1
<1>3. /\ Between(s, a, b) \in Seq(T)
      /\ Len(Between(s, a, b)) = IF a + 1 <= b - 1 THEN (b - 1) - (a + 1) + 1 ELSE 0
      /\ \A i \in 1 .. (b - 1) - (a + 1) + 1 : Between(s, a, b)[i] = s[(a + 1) + i - 1]
  BY <1>2, SubSeqProperties DEF Between
<1>4. Len(Between(s, a, b)) = b - a - 1 /\ \A i \in 1 .. b - a - 1 : Between(s, a, b)[i] = s[a + i]
  BY <1>1, <1>3
<1>5. DOMAIN Between(s, a, b) = 1 .. Len(Between(s, a, b))
  BY <1>3, LenProperties
<1> QED BY <1>3, <1>4, <1>5

(* The two agree: Parts takes the pieces between the places.                *)
LEMMA PartsArePieces == \A s, S : Parts(s, S) = Pieces(s, PlacesIn(s, S))
BY DEF Parts, Pieces, CutsOf, Cut, Rank, PlacesIn

(* The parts of a path are what lies between its neighbouring cuts.         *)
LEMMA PartsFacts ==
    ASSUME NEW T, NEW s \in Seq(T), NEW S
    PROVE  LET n == Len(Parts(s, S))
           IN  /\ Parts(s, S) \in Seq(Seq(T)) /\ n \in Nat \ {0} /\ DOMAIN Parts(s, S) = 1 .. n
               /\ PartCut(s, S, 0) = 0 /\ PartCut(s, S, n) = Len(s) + 1
               /\ \A k \in 1 .. n :
                     /\ Framed(s, S, PartCut(s, S, k - 1), PartCut(s, S, k))
                     /\ Parts(s, S)[k] = Between(s, PartCut(s, S, k - 1), PartCut(s, S, k))
<1> DEFINE I == PlacesIn(s, S)
           C == CutsOf(s, I)
           p == Parts(s, S)
           n == Cardinality(C) - 1
           c(k) == PartCut(s, S, k)
<1>1. Len(s) \in Nat /\ DOMAIN s = 1 .. Len(s)
  BY LenProperties
<1>2. I \in SUBSET (1 .. Len(s)) /\ \A i \in 1 .. Len(s) : i \in I <=> s[i] \in S
  BY <1>1 DEF PlacesIn
<1>3. \A i : i \in C <=> i = 0 \/ i = Len(s) + 1 \/ i \in I
  BY DEF CutsOf
<1>4. p = Pieces(s, I)
  BY PartsArePieces
<1> HIDE DEF I
<1>5. C \in SUBSET Nat /\ IsFiniteSet(C) /\ Cardinality(C) \in Nat /\ Cardinality(C) >= 2
  BY <1>2, CutsFacts
<1>6. p \in Seq(Seq(T)) /\ Len(p) = n /\ DOMAIN p = 1 .. n /\ n \in Nat \ {0}
  <2> HIDE DEF p, n
  <2> QED BY <1>2, <1>4, PieceFacts DEF n
<1>7. \A k \in 1 .. n : p[k] = Between(s, c(k - 1), c(k))
  BY <1>4 DEF Pieces, Between, PartCut, I
<1>8. \A k \in 1 .. n : /\ c(k - 1) \in C /\ c(k) \in C /\ c(k - 1) < c(k)
                        /\ \A i \in C : i <= c(k - 1) \/ c(k) <= i
  BY <1>5, CutsInOrder DEF PartCut, I
<1> HIDE DEF p, n, C, c
<1>9. \A k \in 1 .. n : Framed(s, S, c(k - 1), c(k))
  <2> TAKE k \in 1 .. n
  <2> DEFINE a == c(k - 1)
             b == c(k)
  <2>1. a \in C /\ b \in C /\ a < b /\ \A i \in C : i <= a \/ b <= i
    BY <1>8
  <2> HIDE DEF a, b
  <2>2. a \in Nat /\ b \in Nat /\ (a = 0 \/ a = Len(s) + 1 \/ a \in I) /\ (b = 0 \/ b = Len(s) + 1 \/ b \in I)
    BY <1>3, <1>5, <2>1
  <2>3. \A i \in I : i \in 1 .. Len(s) /\ s[i] \in S
    BY <1>2
  <2>4. a \in 0 .. Len(s) /\ b \in 1 .. Len(s) + 1
    BY <1>1, <2>1, <2>2, <2>3
  <2>5. (a = 0 \/ s[a] \in S) /\ (b = Len(s) + 1 \/ s[b] \in S)
    <3>1. a # Len(s) + 1 /\ b # 0
      BY <1>1, <2>4
    <3> QED BY <2>2, <2>3, <3>1
  <2>6. \A i \in 1 .. Len(s) : a < i /\ i < b => s[i] \notin S
    <3> SUFFICES ASSUME NEW i \in 1 .. Len(s), a < i, i < b, s[i] \in S PROVE FALSE
      OBVIOUS
    <3>1. i \in C
      BY <1>2, <1>3
    <3> QED BY <1>1, <2>1, <2>2, <3>1
  <2> QED BY <2>1, <2>4, <2>5, <2>6 DEF Framed, a, b
<1>10. c(0) = 0
  <2>1. 0 \in C /\ 0 \in Nat
    BY <1>3
  <2>2. Rank(C, 0) = 0
    <3>1. \A j \in C : j \in Nat /\ ~(j < 0)
      BY <1>5
    <3>2. {j \in C : j < 0} = {}
      BY <3>1
    <3> QED BY <3>2, FS_EmptySet DEF Rank
  <2> QED BY <1>5, <2>1, <2>2, CutUnique DEF c, PartCut, C, I
<1>11. c(n) = Len(s) + 1
  <2>1. Len(s) + 1 \in C /\ \A i \in C : i <= Len(s) + 1
    <3>1. Len(s) + 1 \in C
      BY <1>3
    <3>2. \A i \in I : i <= Len(s) + 1
      BY <1>1, <1>2
    <3>3. 0 <= Len(s) + 1 /\ Len(s) + 1 <= Len(s) + 1
      BY <1>1
    <3> QED BY <1>3, <3>1, <3>2, <3>3
  <2>2. n \in 1 .. n
    BY <1>6
  <2>3. c(n) \in C
    BY <1>8, <2>2
  <2>4. Rank(C, c(n)) = n
    <3>1. n \in Nat /\ n < Cardinality(C)
      BY <1>5 DEF n
    <3> QED BY <1>5, <3>1, CutMeans DEF c, PartCut, C, I
  <2>5. SUFFICES ASSUME c(n) < Len(s) + 1 PROVE FALSE
    <3> DEFINE m == c(n)
    <3>1. m \in Nat /\ m <= Len(s) + 1 /\ Len(s) + 1 \in Nat
      BY <1>1, <1>5, <2>1, <2>3
    <3> HIDE DEF m
    <3>2. ~(m < Len(s) + 1) => m = Len(s) + 1
      BY <3>1
    <3> QED BY <3>2 DEF m
  <2>6. Rank(C, c(n)) < Rank(C, Len(s) + 1)
    BY <1>5, <2>1, <2>3, <2>5, RankGrows
  <2>7. Rank(C, Len(s) + 1) < Cardinality(C) /\ Rank(C, Len(s) + 1) \in Nat
    BY <1>5, <2>1, RankType
  <2> QED BY <1>5, <2>4, <2>6, <2>7 DEF n
<1> QED BY <1>6, <1>7, <1>9, <1>10, <1>11 DEF p, c

(* Whatever lies between two neighbouring cuts is a part.                   *)
LEMMA PartFound ==
    ASSUME NEW T, NEW s \in Seq(T), NEW S, NEW a, NEW b, Framed(s, S, a, b)
    PROVE  Between(s, a, b) \in ToSet(Parts(s, S))
<1> DEFINE I == PlacesIn(s, S)
           C == CutsOf(s, I)
           p == Parts(s, S)
           n == Cardinality(C) - 1
<1>1. Len(s) \in Nat /\ DOMAIN s = 1 .. Len(s)
  BY LenProperties
<1>2. I \in SUBSET (1 .. Len(s)) /\ \A i \in 1 .. Len(s) : i \in I <=> s[i] \in S
  BY <1>1 DEF PlacesIn
<1>3. \A i : i \in C <=> i = 0 \/ i = Len(s) + 1 \/ i \in I
  BY DEF CutsOf
<1>4. p = Pieces(s, I)
  BY PartsArePieces
<1> HIDE DEF I
<1>5. C \in SUBSET Nat /\ IsFiniteSet(C) /\ Cardinality(C) \in Nat /\ Cardinality(C) >= 2
  BY <1>2, CutsFacts
<1>6. p = [k \in 1 .. n |-> Between(s, Cut(C, k - 1), Cut(C, k))]
  BY <1>4 DEF Pieces, Between
<1> HIDE DEF C
<1>7. a \in C /\ b \in C /\ a < b /\ \A j \in C : j <= a \/ b <= j
  <2>1. /\ a \in 0 .. Len(s) /\ b \in 1 .. Len(s) + 1 /\ a < b
        /\ a = 0 \/ s[a] \in S
        /\ b = Len(s) + 1 \/ s[b] \in S
        /\ \A i \in 1 .. Len(s) : a < i /\ i < b => s[i] \notin S
    BY DEF Framed
  <2>2. a \in C /\ b \in C
    BY <1>1, <1>2, <1>3, <2>1
  <2>3. \A j \in C : j = 0 \/ j = Len(s) + 1 \/ (j \in 1 .. Len(s) /\ s[j] \in S)
    BY <1>2, <1>3
  <2> QED BY <1>1, <2>1, <2>2, <2>3
<1>8. Rank(C, a) \in Nat /\ Rank(C, b) = Rank(C, a) + 1
  BY <1>5, <1>7, RankStep
<1>9. Rank(C, b) < Cardinality(C)
  <2>1. b \in Nat
    BY <1>5, <1>7
  <2> QED BY <1>5, <1>7, <2>1, RankType
<1>10. Cut(C, Rank(C, a)) = a /\ Cut(C, Rank(C, b)) = b
  BY <1>5, <1>7, CutUnique
<1> DEFINE k == Rank(C, b)
<1>11. k \in 1 .. n /\ k - 1 = Rank(C, a)
  BY <1>5, <1>8, <1>9
<1> HIDE DEF k, n
<1>12. p[k] = Between(s, a, b) /\ k \in DOMAIN p
  <2>1. Cut(C, k - 1) = a /\ Cut(C, k) = b
    BY <1>10, <1>11 DEF k
  <2> QED BY <1>6, <1>11, <2>1
<1> QED BY <1>12 DEF ToSet, p

-----------------------------------------------------------------------------
(* The fold over pushes: a function on sets of segments that pushes the     *)
(* last one of each.                                                        *)
Pushes(os, segments, S, f) ==
    f = [T \in SUBSET S |-> IF T = {} THEN <<"home">>
                            ELSE Push(os, f[T \ {Max(T)}], segments[Max(T)])]
Pushed(os, segments) == CHOOSE f : Pushes(os, segments, DOMAIN segments, f)

(* FoldLeft is that function's value at the whole.                          *)
LEMMA FoldIs ==
    \A os, segments :
        FoldLeft(LAMBDA path, segment : Push(os, path, segment), <<"home">>, segments)
            = Pushed(os, segments)[DOMAIN segments]
BY DEF FoldLeft, MapThenFoldSet, Pushed, Pushes

(* The greatest of a set that has m and no more is m.                       *)
LEMMA MaxIs ==
    ASSUME NEW m \in Nat, NEW T \in SUBSET (1 .. m), m \in T
    PROVE  Max(T) = m
<1>1. \A y \in T : y \in Nat /\ m >= y
  OBVIOUS
<1>2. \A x \in T : (\A y \in T : x >= y) => x = m
  BY <1>1
<1> QED BY <1>1, <1>2 DEF Max

(* There is such a function.                                                *)
LEMMA PushesExist ==
    ASSUME NEW os, NEW segments, NEW n \in Nat
    PROVE  \E f : Pushes(os, segments, 1 .. n, f)
<1> DEFINE Missed == {m \in Nat : ~\E f : Pushes(os, segments, 1 .. m, f)}
<1> SUFFICES ASSUME Missed # {} PROVE FALSE
  OBVIOUS
<1>1. PICK m \in Missed : \A k \in Missed : m <= k
  <2>1. Missed \in SUBSET Nat
    OBVIOUS
  <2> HIDE DEF Missed
  <2> QED BY <2>1, LeastNatural
<1>2. m \in Nat /\ ~\E f : Pushes(os, segments, 1 .. m, f)
  OBVIOUS
<1>3. CASE m = 0
  <2> DEFINE f == [T \in SUBSET (1 .. 0) |-> <<"home">>]
  <2>1. \A T \in SUBSET (1 .. 0) : T = {}
    OBVIOUS
  <2>2. f = [T \in SUBSET (1 .. 0) |-> IF T = {} THEN <<"home">>
                                       ELSE Push(os, f[T \ {Max(T)}], segments[Max(T)])]
    <3> HIDE DEF f
    <3>1. \A T \in SUBSET (1 .. 0) : <<"home">> = IF T = {} THEN <<"home">>
                                       ELSE Push(os, f[T \ {Max(T)}], segments[Max(T)])
      BY <2>1, Zenon
    <3> QED BY <3>1, Zenon DEF f
  <2> QED BY <1>2, <1>3, <2>2, Zenon DEF Pushes
<1>4. CASE m # 0
  <2> DEFINE l == m - 1
  <2>1. l \in Nat /\ l < m /\ m = l + 1 /\ m \notin 1 .. l /\ 1 .. l \subseteq 1 .. m
        /\ (1 .. m) \ {m} = 1 .. l
    BY <1>2, <1>4
  <2>2. l \notin Missed
    BY <1>1, <2>1
  <2> HIDE DEF l
  <2>3. PICK g : Pushes(os, segments, 1 .. l, g)
    BY <2>1, <2>2
  <2> DEFINE f == [T \in SUBSET (1 .. m) |->
                      IF m \in T THEN Push(os, g[T \ {m}], segments[m]) ELSE g[T]]
  <2>4. \A T \in SUBSET (1 .. l) : f[T] = g[T] /\ g[T] = IF T = {} THEN <<"home">>
                                       ELSE Push(os, g[T \ {Max(T)}], segments[Max(T)])
    <3>1. \A T \in SUBSET (1 .. l) : T \in SUBSET (1 .. m) /\ m \notin T
      BY <2>1
    <3>2. \A T \in SUBSET (1 .. l) : g[T] = IF T = {} THEN <<"home">>
                                       ELSE Push(os, g[T \ {Max(T)}], segments[Max(T)])
      BY <2>3, Zenon DEF Pushes
    <3> QED BY <3>1, <3>2, Zenon
  <2>5. ASSUME NEW T \in SUBSET (1 .. m)
        PROVE  f[T] = IF T = {} THEN <<"home">> ELSE Push(os, f[T \ {Max(T)}], segments[Max(T)])
    <3>1. CASE m \in T
      <4>1. Max(T) = m /\ T # {}
        BY <1>2, <3>1, MaxIs
      <4>2. T \ {m} \in SUBSET (1 .. l)
        BY <2>1
      <4>3. f[T \ {m}] = g[T \ {m}]
        BY <2>4, <4>2, Zenon
      <4>4. f[T] = Push(os, g[T \ {m}], segments[m])
        BY <3>1, Zenon
      <4> HIDE DEF f
      <4> QED BY <4>1, <4>3, <4>4, Zenon
    <3>2. CASE m \notin T
      <4>1. T \in SUBSET (1 .. l) /\ T \ {Max(T)} \in SUBSET (1 .. l)
        BY <2>1, <3>2
      <4> HIDE DEF f
      <4>2. f[T] = g[T] /\ f[T \ {Max(T)}] = g[T \ {Max(T)}]
        BY <2>4, <4>1, Zenon
      <4> QED BY <2>4, <4>1, <4>2, Zenon
    <3> QED BY <3>1, <3>2
  <2>6. f = [T \in SUBSET (1 .. m) |-> f[T]]
    BY Zenon
  <2> HIDE DEF f
  <2>7. f = [T \in SUBSET (1 .. m) |-> IF T = {} THEN <<"home">>
                                       ELSE Push(os, f[T \ {Max(T)}], segments[Max(T)])]
    BY <2>5, <2>6, Zenon
  <2> QED BY <1>2, <2>7, Zenon DEF Pushes
<1> QED BY <1>3, <1>4

(* It starts at the home directory and pushes one segment after the other.  *)
LEMMA FoldSteps ==
    ASSUME NEW os, NEW segments, NEW n \in Nat, DOMAIN segments = 1 .. n
    PROVE  /\ Pushed(os, segments)[1 .. 0] = <<"home">>
           /\ \A k \in 1 .. n : Pushed(os, segments)[1 .. k]
                                    = Push(os, Pushed(os, segments)[1 .. k - 1], segments[k])
<1> DEFINE f == Pushed(os, segments)
<1>1. Pushes(os, segments, 1 .. n, f)
  BY PushesExist DEF Pushed
<1> HIDE DEF f
<1>2. \A T \in SUBSET (1 .. n) : f[T] = IF T = {} THEN <<"home">>
                                       ELSE Push(os, f[T \ {Max(T)}], segments[Max(T)])
  BY <1>1, Zenon DEF Pushes
<1>3. 1 .. 0 = {} /\ {} \in SUBSET (1 .. n)
  OBVIOUS
<1>4. ASSUME NEW k \in 1 .. n PROVE f[1 .. k] = Push(os, f[1 .. k - 1], segments[k])
  <2> DEFINE T == 1 .. k
  <2>1. T \in SUBSET (1 .. n) /\ T # {} /\ T \ {k} = 1 .. k - 1
    OBVIOUS
  <2>2. Max(T) = k
    <3>1. k \in Nat /\ k \in T /\ T \in SUBSET (1 .. k)
      OBVIOUS
    <3> HIDE DEF T
    <3> QED BY <3>1, MaxIs
  <2> HIDE DEF T
  <2>3. f[T] = Push(os, f[T \ {Max(T)}], segments[Max(T)])
    BY <1>2, <2>1, Zenon
  <2>4. f[T] = Push(os, f[1 .. k - 1], segments[k])
    BY <2>1, <2>2, <2>3, Zenon
  <2> QED BY <2>4 DEF T
<1> QED BY <1>2, <1>3, <1>4, Zenon DEF f

-----------------------------------------------------------------------------
(* The expanded path: the home directory, and the rest of the text with the *)
(* system's own separator before each segment.                              *)
Slash(os) == IF os = "windows" THEN "\\" ELSE "/"
Slashed(os, rest, m) ==
    [i \in 1 .. m + 1 |-> IF i = 1 THEN "home"
                          ELSE IF i = 2 \/ rest[i - 2] = "/" THEN Slash(os) ELSE rest[i - 2]]

(* The separator is one of the system's, and a character.                   *)
LEMMA SlashIs ==
    ASSUME NEW os
    PROVE  Slash(os) \in Characters /\ Slash(os) \in SeparatorsOf(os) /\ Slash(os) \in Separators
BY CharactersAssumption DEF Slash, Separators, SeparatorsOf

(* The expanded path is one, character by character.                        *)
SlashedAs(os, rest, m, f) ==
    /\ f \in Seq(Characters \cup {"home"}) /\ Len(f) = m + 1
    /\ \A i \in 1 .. m + 1 : f[i] = IF i = 1 THEN "home"
                                    ELSE IF i = 2 \/ rest[i - 2] = "/" THEN Slash(os) ELSE rest[i - 2]

(* Its elements are characters and the home directory.                      *)
LEMMA SlashedIs ==
    ASSUME NEW os, NEW rest \in Seq(Characters), NEW m \in 0 .. Len(rest) + 1
    PROVE  SlashedAs(os, rest, m, Slashed(os, rest, m))
<1> DEFINE Ch == Characters \cup {"home"}
           f == Slashed(os, rest, m)
<1>1. m \in Nat /\ Len(rest) \in Nat /\ \A i \in 1 .. Len(rest) : rest[i] \in Ch
  BY LenProperties, ElementOfSeq
<1>2. m + 1 \in Nat /\ \A i \in 1 .. m + 1 : i # 1 /\ i # 2 => i - 2 \in 1 .. Len(rest)
  BY <1>1
<1>3. \A i \in 1 .. m + 1 : f[i] = IF i = 1 THEN "home"
                                   ELSE IF i = 2 \/ rest[i - 2] = "/" THEN Slash(os) ELSE rest[i - 2]
  BY Zenon DEF Slashed
<1>4. f = [i \in 1 .. m + 1 |-> f[i]]
  BY Zenon DEF Slashed
<1>5. "home" \in Ch /\ Slash(os) \in Ch
  BY SlashIs
<1> HIDE DEF f, Ch
<1>6. \A i \in 1 .. m + 1 : f[i] \in Ch
  BY <1>1, <1>2, <1>3, <1>5
<1>7. f \in [1 .. m + 1 -> Ch]
  BY <1>4, <1>6, Zenon
<1>8. f \in Seq(Ch) /\ Len(f) = m + 1
  BY <1>2, <1>7, FunctionIsSeq
<1> QED BY <1>3, <1>8, Zenon DEF SlashedAs, f, Ch

(* A push adds the separator and one more segment.                          *)
LEMMA SlashedSteps ==
    ASSUME NEW os, NEW rest \in Seq(Characters), NEW a, NEW b, Framed(rest, {"/"}, a, b)
    PROVE  /\ Slashed(os, rest, a) \in Seq(Characters \cup {"home"})
           /\ Slashed(os, rest, b) \in Seq(Characters \cup {"home"})
           /\ Slashed(os, rest, a) \o <<Slash(os)>> \o Between(rest, a, b) = Slashed(os, rest, b)
<1> DEFINE Ch == Characters \cup {"home"}
           x == Slash(os)
           w == Between(rest, a, b)
           p == Slashed(os, rest, a)
           q == Slashed(os, rest, b)
           s == p \o <<x>>
<1>1. /\ a \in 0 .. Len(rest) /\ b \in 1 .. Len(rest) + 1 /\ a < b /\ Len(rest) \in Nat
      /\ a = 0 \/ rest[a] = "/"
      /\ \A i \in 1 .. Len(rest) : a < i /\ i < b => rest[i] # "/"
  BY LenProperties DEF Framed
<1>2. x \in Ch
  BY SlashIs
<1>4. w \in Seq(Ch) /\ Len(w) = b - a - 1 /\ \A i \in 1 .. b - a - 1 : w[i] = rest[a + i]
  <2>1. w \in Seq(Characters) /\ Len(w) = b - a - 1 /\ \A i \in 1 .. b - a - 1 : w[i] = rest[a + i]
    BY <1>1, BetweenIs
  <2>2. Characters \subseteq Ch
    OBVIOUS
  <2> HIDE DEF w, Ch
  <2> QED BY <2>1, <2>2, SeqMonotonic
<1>6. a \in 0 .. Len(rest) + 1 /\ b \in 0 .. Len(rest) + 1
  BY <1>1
<1>5. \A m \in 0 .. Len(rest) + 1 :
        /\ Slashed(os, rest, m) \in Seq(Ch) /\ Len(Slashed(os, rest, m)) = m + 1
        /\ \A i \in 1 .. m + 1 :
              Slashed(os, rest, m)[i] = IF i = 1 THEN "home"
                                        ELSE IF i = 2 \/ rest[i - 2] = "/" THEN x ELSE rest[i - 2]
  BY SlashedIs, ZenonT(30) DEF SlashedAs
<1>7. /\ p \in Seq(Ch) /\ Len(p) = a + 1
      /\ \A i \in 1 .. a + 1 : p[i] = IF i = 1 THEN "home"
                                      ELSE IF i = 2 \/ rest[i - 2] = "/" THEN x ELSE rest[i - 2]
  BY <1>5, <1>6
<1>8. /\ q \in Seq(Ch) /\ Len(q) = b + 1
      /\ \A i \in 1 .. b + 1 : q[i] = IF i = 1 THEN "home"
                                      ELSE IF i = 2 \/ rest[i - 2] = "/" THEN x ELSE rest[i - 2]
  BY <1>5, <1>6
<1> HIDE DEF Ch, x, w, p, q
<1>9. /\ s \in Seq(Ch) /\ Len(s) = a + 2
      /\ \A i \in 1 .. a + 2 : s[i] = IF i <= a + 1 THEN p[i] ELSE x
  <2>1. <<x>> \in Seq(Ch) /\ Len(<<x>>) = 1 /\ <<x>>[1] = x
    BY <1>2
  <2>2. /\ s \in Seq(Ch) /\ Len(s) = (a + 1) + 1
        /\ \A i \in 1 .. (a + 1) + 1 : s[i] = IF i <= a + 1 THEN p[i] ELSE <<x>>[i - (a + 1)]
    BY <1>7, <2>1, ConcatProperties
  <2>3. \A i \in 1 .. (a + 1) + 1 : ~(i <= a + 1) => i - (a + 1) = 1
    BY <1>1
  <2> QED BY <1>1, <2>1, <2>2, <2>3
<1> HIDE DEF s
<1>10. /\ s \o w \in Seq(Ch) /\ Len(s \o w) = b + 1
       /\ \A i \in 1 .. b + 1 : (s \o w)[i] = IF i <= a + 2 THEN s[i] ELSE w[i - (a + 2)]
  <2>1. /\ s \o w \in Seq(Ch) /\ Len(s \o w) = (a + 2) + (b - a - 1)
        /\ \A i \in 1 .. (a + 2) + (b - a - 1) : (s \o w)[i] = IF i <= a + 2 THEN s[i] ELSE w[i - (a + 2)]
    <3>1. s \in Seq(Ch) /\ w \in Seq(Ch) /\ Len(s) = a + 2 /\ Len(w) = b - a - 1
      BY <1>4, <1>9
    <3>2. /\ s \o w \in Seq(Ch) /\ Len(s \o w) = Len(s) + Len(w)
          /\ \A i \in 1 .. Len(s) + Len(w) : (s \o w)[i] = IF i <= Len(s) THEN s[i] ELSE w[i - Len(s)]
      BY <3>1, ConcatProperties, Zenon
    <3> QED BY <3>1, <3>2, Zenon
  <2>2. (a + 2) + (b - a - 1) = b + 1
    BY <1>1
  <2> QED BY <2>1, <2>2
<1>11. ASSUME NEW i \in 1 .. b + 1 PROVE (s \o w)[i] = q[i]
  <2>1. CASE i <= a + 1
    <3>1. i \in 1 .. a + 1 /\ i \in 1 .. a + 2 /\ i <= a + 2
      BY <1>1, <2>1
    <3> QED BY <1>7, <1>8, <1>9, <1>10, <2>1, <3>1
  <2>2. CASE i = a + 2
    <3>1. i \in 1 .. a + 2 /\ i <= a + 2 /\ ~(i <= a + 1) /\ i # 1
      BY <1>1, <2>2
    <3>2. (s \o w)[i] = x
      BY <1>9, <1>10, <3>1
    <3>3. i = 2 \/ rest[i - 2] = "/"
      BY <1>1, <2>2
    <3> QED BY <1>8, <3>1, <3>2, <3>3
  <2>3. CASE i > a + 2
    <3>1. /\ i - (a + 2) \in 1 .. b - a - 1 /\ a + (i - (a + 2)) = i - 2
          /\ i # 1 /\ i # 2 /\ ~(i <= a + 2)
          /\ i - 2 \in 1 .. Len(rest) /\ a < i - 2 /\ i - 2 < b
      BY <1>1, <2>3
    <3>2. (s \o w)[i] = rest[i - 2]
      BY <1>4, <1>10, <3>1
    <3>3. rest[i - 2] # "/"
      BY <1>1, <3>1
    <3>4. i # 1 /\ i # 2
      BY <3>1
    <3>5. q[i] = rest[i - 2]
      BY <1>8, <3>3, <3>4, Zenon
    <3> QED BY <3>2, <3>5, Zenon
  <2>4. i <= a + 1 \/ i = a + 2 \/ i > a + 2
    <3>1. a \in Int /\ i \in Int
      BY <1>1
    <3> QED BY <3>1
  <2> QED BY <2>1, <2>2, <2>3, <2>4, Zenon
<1>12. s \o w = q
  <2>1. \A i \in 1 .. Len(q) : (s \o w)[i] = q[i]
    BY <1>8, <1>11
  <2> QED BY <1>8, <1>10, <2>1, SeqEqual
<1> QED BY <1>7, <1>8, <1>12, Zenon DEF s, w, q, p, x, Ch

(* The segments of a path that each are a name: none is empty, rooted       *)
(* anywhere, or followed after a separator of the system.                   *)
NamesOnly(os, segments) ==
    \A k \in DOMAIN segments :
        /\ segments[k] # <<>> /\ RootOf(os, segments[k]) = "here"
        /\ k < Len(segments) => Last(segments[k]) \notin SeparatorsOf(os)

(* Pushed after a path that ends in no separator, they make the expanded    *)
(* path.                                                                    *)
LEMMA PlaceIs ==
    ASSUME NEW os, NEW rest \in Seq(Characters), NamesOnly(os, Parts(rest, {"/"}))
    PROVE  FoldLeft(LAMBDA path, segment : Push(os, path, segment), <<"home">>, Parts(rest, {"/"}))
               = Slashed(os, rest, Len(rest) + 1)
<1> DEFINE segs == Parts(rest, {"/"})
           n == Len(segs)
           c(k) == PartCut(rest, {"/"}, k)
           f == Pushed(os, segs)
           S == {j \in 1 .. n : f[1 .. j] = Slashed(os, rest, c(j))}
<1>1. /\ segs \in Seq(Seq(Characters)) /\ n \in Nat \ {0} /\ DOMAIN segs = 1 .. n
      /\ c(0) = 0 /\ c(n) = Len(rest) + 1
      /\ \A k \in 1 .. n : Framed(rest, {"/"}, c(k - 1), c(k)) /\ segs[k] = Between(rest, c(k - 1), c(k))
  BY PartsFacts
<1>2. \A k \in 1 .. n : /\ segs[k] # <<>> /\ RootOf(os, segs[k]) = "here"
                        /\ k < n => Last(segs[k]) \notin SeparatorsOf(os)
  BY <1>1 DEF NamesOnly
<1> HIDE DEF segs, n, c
<1>3. n \in Nat /\ DOMAIN segs = 1 .. n
  BY <1>1
<1>4. f[1 .. 0] = <<"home">> /\ \A k \in 1 .. n : f[1 .. k] = Push(os, f[1 .. k - 1], segs[k])
  BY <1>3, FoldSteps
<1> HIDE DEF f
<1>5. ASSUME NEW k \in 1 .. n, f[1 .. k - 1] = Slashed(os, rest, c(k - 1)),
             Last(Slashed(os, rest, c(k - 1))) \notin SeparatorsOf(os)
      PROVE  f[1 .. k] = Slashed(os, rest, c(k))
  <2> DEFINE path == Slashed(os, rest, c(k - 1))
  <2>1. Push(os, path, segs[k]) = path \o <<Slash(os)>> \o segs[k]
    BY <1>2, <1>5, Zenon DEF Push, Slash
  <2>2. path \o <<Slash(os)>> \o Between(rest, c(k - 1), c(k)) = Slashed(os, rest, c(k))
    BY <1>1, SlashedSteps, Zenon
  <2> HIDE DEF path
  <2>3. f[1 .. k] = path \o <<Slash(os)>> \o segs[k]
    BY <1>4, <1>5, <2>1, Zenon DEF path
  <2> QED BY <1>1, <2>2, <2>3, Zenon
<1>6. "home" \notin SeparatorsOf(os) /\ "/" \in SeparatorsOf(os)
  BY DEF SeparatorsOf, Separators
<1>7. 1 \in S
  <2>1. Slashed(os, rest, 0) = <<"home">>
    BY DEF Slashed
  <2>2. Last(<<"home">>) = "home"
    BY DEF Last
  <2>3. 1 \in 1 .. n /\ 1 - 1 = 0
    BY <1>1
  <2>4. f[1 .. 1 - 1] = Slashed(os, rest, c(1 - 1)) /\ Last(Slashed(os, rest, c(1 - 1))) = "home"
    BY <1>1, <1>4, <2>1, <2>2, <2>3
  <2>5. f[1 .. 1] = Slashed(os, rest, c(1))
    BY <1>5, <1>6, <2>3, <2>4
  <2> QED BY <2>3, <2>5
<1>8. ASSUME NEW k \in 1 .. n, k \in S, k < n PROVE k + 1 \in S
  <2> DEFINE a == c(k - 1)
             b == c(k)
  <2>1. f[1 .. k] = Slashed(os, rest, b)
    BY <1>8
  <2>2. k + 1 \in 1 .. n /\ (k + 1) - 1 = k
    BY <1>1, <1>8
  <2>3. Framed(rest, {"/"}, a, b) /\ segs[k] = Between(rest, a, b)
    BY <1>1
  <2>4. segs[k] # <<>> /\ Last(segs[k]) \notin SeparatorsOf(os)
    BY <1>2, <1>8
  <2> HIDE DEF a, b
  <2>5. a \in 0 .. Len(rest) /\ b \in 1 .. Len(rest) + 1 /\ a < b /\ Len(rest) \in Nat
    BY <2>3, LenProperties DEF Framed
  <2>6. /\ segs[k] \in Seq(Characters) /\ Len(segs[k]) = b - a - 1
        /\ \A i \in 1 .. b - a - 1 : segs[k][i] = rest[a + i]
    BY <2>3, <2>5, BetweenIs
  <2>7. b - a - 1 \in 1 .. b - a - 1 /\ a + (b - a - 1) = b - 1
    <3>1. Len(segs[k]) # 0
      BY <2>4, <2>6, EmptySeq
    <3> QED BY <2>5, <2>6, <3>1
  <2>8. Last(segs[k]) = rest[b - 1]
    BY <2>6, <2>7 DEF Last
  <2>9. rest[b - 1] \notin SeparatorsOf(os)
    BY <2>4, <2>8
  <2>10. rest[b - 1] # "/"
    BY <1>6, <2>9
  <2>11. b \in 0 .. Len(rest) + 1 /\ b + 1 \in 1 .. b + 1 /\ b + 1 # 1 /\ b + 1 # 2 /\ (b + 1) - 2 = b - 1
    BY <2>5, <2>7
  <2>12. Last(Slashed(os, rest, b)) = rest[b - 1]
    <3>1. /\ Len(Slashed(os, rest, b)) = b + 1
          /\ \A i \in 1 .. b + 1 :
                Slashed(os, rest, b)[i] = IF i = 1 THEN "home"
                                          ELSE IF i = 2 \/ rest[i - 2] = "/" THEN Slash(os) ELSE rest[i - 2]
      <4>1. SlashedAs(os, rest, b, Slashed(os, rest, b))
        BY <2>11, SlashedIs
      <4> QED BY <4>1, Zenon DEF SlashedAs
    <3>2. Last(Slashed(os, rest, b)) = Slashed(os, rest, b)[b + 1]
      BY <3>1 DEF Last
    <3>3. Slashed(os, rest, b)[b + 1] = IF b + 1 = 1 THEN "home"
              ELSE IF b + 1 = 2 \/ rest[(b + 1) - 2] = "/" THEN Slash(os) ELSE rest[(b + 1) - 2]
      BY <2>11, <3>1, Zenon
    <3> QED BY <2>10, <2>11, <3>2, <3>3, Zenon
  <2>13. f[1 .. (k + 1) - 1] = Slashed(os, rest, c((k + 1) - 1))
         /\ Last(Slashed(os, rest, c((k + 1) - 1))) \notin SeparatorsOf(os)
    BY <2>1, <2>2, <2>9, <2>12, Zenon DEF b
  <2>14. f[1 .. k + 1] = Slashed(os, rest, c(k + 1))
    BY <1>5, <2>2, <2>13, Zenon
  <2> QED BY <2>2, <2>14
<1> HIDE DEF S
<1>9. 1 .. n \subseteq S
  BY <1>3, <1>7, <1>8, Climbs
<1>10. f[1 .. n] = Slashed(os, rest, Len(rest) + 1)
  BY <1>1, <1>9 DEF S
<1>11. FoldLeft(LAMBDA path, segment : Push(os, path, segment), <<"home">>, segs) = f[1 .. n]
  BY <1>1, FoldIs, Zenon DEF f
<1> QED BY <1>10, <1>11, Zenon DEF segs

-----------------------------------------------------------------------------
(* Two texts with their separators at the same places, and the same between *)
(* them, have the same parts.                                               *)
LEMMA SameParts ==
    ASSUME NEW T, NEW s \in Seq(T), NEW t \in Seq(T), NEW S, Len(s) = Len(t),
           \A i \in 1 .. Len(s) : s[i] = t[i] \/ (s[i] \in S /\ t[i] \in S)
    PROVE  Parts(s, S) = Parts(t, S)
<1>1. Len(s) \in Nat /\ DOMAIN s = 1 .. Len(s) /\ DOMAIN t = 1 .. Len(s)
  BY LenProperties
<1>2. PlacesIn(s, S) = PlacesIn(t, S)
  <2>1. \A i \in 1 .. Len(s) : s[i] \in S <=> t[i] \in S
    OBVIOUS
  <2>2. PlacesIn(s, S) = {i \in 1 .. Len(s) : s[i] \in S} /\ PlacesIn(t, S) = {i \in 1 .. Len(s) : t[i] \in S}
    BY <1>1, Zenon DEF PlacesIn
  <2> QED BY <2>1, <2>2
<1>3. CutsOf(s, PlacesIn(s, S)) = CutsOf(t, PlacesIn(t, S))
  BY <1>2, Zenon DEF CutsOf
<1> DEFINE n == Len(Parts(s, S))
           c(k) == PartCut(s, S, k)
<1>4. /\ Parts(s, S) \in Seq(Seq(T)) /\ n \in Nat \ {0}
      /\ \A k \in 1 .. n : Framed(s, S, c(k - 1), c(k)) /\ Parts(s, S)[k] = Between(s, c(k - 1), c(k))
  BY PartsFacts
<1>5. \A k : PartCut(t, S, k) = c(k)
  BY <1>3, Zenon DEF PartCut
<1>6. Len(Parts(t, S)) = n
  <2> DEFINE I == PlacesIn(s, S)
             J == PlacesIn(t, S)
  <2>1. I \in SUBSET (1 .. Len(s)) /\ J \in SUBSET (1 .. Len(t))
    BY <1>1 DEF PlacesIn
  <2> HIDE DEF I, J
  <2>2. Len(Pieces(s, I)) = Cardinality(CutsOf(s, I)) - 1 /\ Len(Pieces(t, J)) = Cardinality(CutsOf(t, J)) - 1
    BY <2>1, PieceFacts
  <2> QED BY <1>3, <2>2, PartsArePieces, Zenon DEF I, J
<1>7. /\ Parts(t, S) \in Seq(Seq(T))
      /\ \A k \in 1 .. n : Framed(t, S, c(k - 1), c(k)) /\ Parts(t, S)[k] = Between(t, c(k - 1), c(k))
  <2>1. /\ Parts(t, S) \in Seq(Seq(T))
        /\ \A k \in 1 .. Len(Parts(t, S)) :
              /\ Framed(t, S, PartCut(t, S, k - 1), PartCut(t, S, k))
              /\ Parts(t, S)[k] = Between(t, PartCut(t, S, k - 1), PartCut(t, S, k))
    BY PartsFacts
  <2> QED BY <1>5, <1>6, <2>1, Zenon
<1> HIDE DEF n, c
<1>8. ASSUME NEW k \in 1 .. n PROVE Parts(s, S)[k] = Parts(t, S)[k]
  <2> DEFINE a == c(k - 1)
             b == c(k)
             v == Between(s, a, b)
             w == Between(t, a, b)
  <2>1. Framed(s, S, a, b)
    BY <1>4
  <2> HIDE DEF a, b
  <2>2. /\ a \in 0 .. Len(s) /\ b \in 1 .. Len(s) + 1 /\ a < b
        /\ \A i \in 1 .. Len(s) : a < i /\ i < b => s[i] \notin S
    BY <2>1, Zenon DEF Framed
  <2>3. /\ a \in 0 .. Len(s) /\ b \in 1 .. Len(s) + 1 /\ a < b
        /\ a \in 0 .. Len(t) /\ b \in 1 .. Len(t) + 1
    BY <2>2, Zenon
  <2>4. v \in Seq(T) /\ Len(v) = b - a - 1 /\ \A i \in 1 .. b - a - 1 : v[i] = s[a + i]
    BY ONLY <2>3, BetweenIs, s \in Seq(T), ZenonT(30)
  <2>5. w \in Seq(T) /\ Len(w) = b - a - 1 /\ \A i \in 1 .. b - a - 1 : w[i] = t[a + i]
    BY ONLY <2>3, BetweenIs, t \in Seq(T), ZenonT(30)
  <2> HIDE DEF v, w
  <2>6. \A i \in 1 .. b - a - 1 : v[i] = w[i]
    <3> TAKE i \in 1 .. b - a - 1
    <3>1. a + i \in 1 .. Len(s) /\ a < a + i /\ a + i < b
      BY <1>1, <2>2
    <3>2. s[a + i] = t[a + i]
      BY <2>2, <3>1
    <3> QED BY <2>4, <2>5, <3>2
  <2>7. v = w
    BY <2>4, <2>5, <2>6, SeqEqual
  <2> QED BY <1>4, <1>7, <2>7 DEF v, w, a, b
<1> QED BY <1>4, <1>6, <1>7, <1>8, SeqEqual DEF n

(* A text without separators is its own part.                               *)
LEMMA PartsOne ==
    ASSUME NEW T, NEW s \in Seq(T), NEW S, \A i \in 1 .. Len(s) : s[i] \notin S
    PROVE  Parts(s, S) = <<s>>
<1>1. DOMAIN s = 1 .. Len(s)
  BY LenProperties
<1>2. PlacesIn(s, S) = {}
  BY <1>1 DEF PlacesIn
<1> QED BY <1>2, PiecesOne, PartsArePieces

(* A separator at the end adds an empty part.                               *)
LEMMA PartsMore ==
    ASSUME NEW T, NEW s \in Seq(T), NEW x \in T, NEW S, x \in S
    PROVE  Parts(s \o <<x>>, S) = Append(Parts(s, S), <<>>)
<1> DEFINE t == s \o <<x>>
           I == PlacesIn(s, S)
           J == PlacesIn(t, S)
<1>1. /\ Len(s) \in Nat /\ DOMAIN s = 1 .. Len(s) /\ DOMAIN t = 1 .. Len(s) + 1
      /\ \A i \in 1 .. Len(s) : t[i] = s[i]
      /\ t[Len(s) + 1] = x /\ t \in Seq(T)
  BY LenProperties
<1>2. I \in SUBSET (1 .. Len(s)) /\ \A i : i \in I <=> i \in 1 .. Len(s) /\ s[i] \in S
  BY <1>1 DEF PlacesIn
<1> HIDE DEF t
<1>3. \A i : i \in J <=> i \in 1 .. Len(s) + 1 /\ t[i] \in S
  BY <1>1 DEF PlacesIn
<1> HIDE DEF I, J
<1>4. J = I \cup {Len(s) + 1}
  <2>1. \A i \in 1 .. Len(s) + 1 : i = Len(s) + 1 \/ i \in 1 .. Len(s)
    BY <1>1
  <2>2. \A i \in 1 .. Len(s) : i \in 1 .. Len(s) + 1
    BY <1>1
  <2>3. Len(s) + 1 \in 1 .. Len(s) + 1
    BY <1>1
  <2>4. \A i : i \in J <=> i = Len(s) + 1 \/ i \in I
    BY <1>1, <1>2, <1>3, <2>1, <2>2, <2>3, Zenon
  <2> QED BY <2>4
<1>5. Pieces(s \o <<x>> \o <<>>, I \cup {Len(s) + 1}) = Append(Pieces(s, I), <<>>)
  <2>1. <<>> \in Seq(T)
    BY EmptySeq
  <2>2. I \in SUBSET (1 .. Len(s))
    BY <1>2
  <2> DEFINE e == <<>>
  <2>3. e \in Seq(T)
    BY <2>1
  <2> HIDE DEF e
  <2>4. Pieces(s \o <<x>> \o e, I \cup {Len(s) + 1}) = Append(Pieces(s, I), e)
    BY ONLY <2>2, <2>3, PiecesMore, SMTT(60)
  <2> QED BY <2>4 DEF e
<1>6. s \o <<x>> \o <<>> = t
  BY <1>1, ConcatEmptySeq DEF t
<1> QED BY <1>4, <1>5, <1>6, PartsArePieces, Zenon DEF t, I, J

-----------------------------------------------------------------------------
(* A flattened sequence consists of the elements of its parts.              *)
LEMMA FlattenType ==
    ASSUME NEW T, NEW seqs \in Seq(Seq(T))
    PROVE  FlattenSeq(seqs) \in Seq(T)
<1>1. CASE seqs = <<>>
  <2>1. Len(seqs) = 0
    BY <1>1, EmptySeq
  <2>2. FlattenSeq(seqs) = seqs
    BY <2>1, Zenon DEF FlattenSeq
  <2> QED BY <1>1, <2>2, EmptySeq
<1>2. CASE seqs # <<>>
  <2>1. Len(seqs) \in 1 .. Len(seqs)
    BY <1>2, EmptySeq
  <2>2. /\ \A i \in 1 .. Len(seqs) : Unrolled(seqs)[i] \in Seq(T)
        /\ FlattenSeq(seqs) = Unrolled(seqs)[Len(seqs)]
    BY <1>2, FlattenSteps
  <2> QED BY <2>1, <2>2, Zenon
<1> QED BY <1>1, <1>2

(* A last part goes to the end.                                             *)
LEMMA FlattenMore ==
    ASSUME NEW T, NEW seqs \in Seq(Seq(T)), NEW more \in Seq(T)
    PROVE  FlattenSeq(Append(seqs, more)) = FlattenSeq(seqs) \o more
<1> DEFINE n == Len(seqs)
           longer == Append(seqs, more)
           f == Unrolled(seqs)
           g == Unrolled(longer)
           S == {i \in 1 .. n : g[i] = f[i]}
<1>1. /\ n \in Nat /\ longer \in Seq(Seq(T)) /\ longer # <<>> /\ Len(longer) = n + 1
      /\ \A i \in 1 .. n : longer[i] = seqs[i]
      /\ longer[n + 1] = more
  BY LenProperties, AppendProperties
<1> HIDE DEF longer
<1>2. /\ g[1] = longer[1]
      /\ \A i \in 1 .. Len(longer) : i < Len(longer) => g[i + 1] = g[i] \o longer[i + 1]
      /\ FlattenSeq(longer) = g[Len(longer)]
  BY <1>1, FlattenSteps
<1>3. CASE seqs = <<>>
  <2>1. n = 0 /\ Len(seqs) = 0
    BY <1>3, EmptySeq
  <2>2. FlattenSeq(seqs) = <<>>
    BY <1>3, <2>1, Zenon DEF FlattenSeq
  <2>3. <<>> \o more = more
    BY ConcatEmptySeq
  <2>4. n + 1 = 1
    BY <2>1
  <2>5. FlattenSeq(longer) = more
    BY <1>1, <1>2, <2>4, Zenon
  <2> QED BY <2>2, <2>3, <2>5, Zenon DEF longer
<1>4. CASE seqs # <<>>
  <2>1. n \in 1 .. n
    BY <1>1, <1>4, EmptySeq
  <2>2. /\ f[1] = seqs[1]
        /\ \A i \in 1 .. n : i < n => f[i + 1] = f[i] \o seqs[i + 1]
        /\ FlattenSeq(seqs) = f[n]
    BY <1>4, FlattenSteps
  <2> HIDE DEF n, f, g
  <2>3. 1 \in S
    BY <1>1, <1>2, <2>1, <2>2
  <2>4. ASSUME NEW i \in 1 .. n, i \in S, i < n PROVE i + 1 \in S
    <3>1. i + 1 \in 1 .. n /\ i \in 1 .. n + 1 /\ i < n + 1
      BY <1>1, <2>4
    <3>2. g[i] = f[i]
      BY <2>4
    <3>3. g[i + 1] = g[i] \o longer[i + 1] /\ f[i + 1] = f[i] \o seqs[i + 1] /\ longer[i + 1] = seqs[i + 1]
      BY <1>1, <1>2, <2>2, <2>4, <3>1, Zenon
    <3> QED BY <3>1, <3>2, <3>3
  <2> HIDE DEF S
  <2>5. 1 .. n \subseteq S
    BY <1>1, <2>3, <2>4, Climbs
  <2>6. g[n] = f[n]
    BY <2>1, <2>5 DEF S
  <2>7. n \in 1 .. n + 1 /\ n < n + 1
    BY <1>1, <2>1
  <2>8. g[n + 1] = g[n] \o more
    BY <1>1, <1>2, <2>7, Zenon
  <2> QED BY <1>1, <1>2, <2>2, <2>6, <2>8, Zenon DEF longer
<1> QED BY <1>3, <1>4

(* Parts that give one element of s after the other, or nothing, make s;    *)
(* h counts the elements given.                                             *)
LEMMA FlattenPicks ==
    ASSUME NEW T, NEW s \in Seq(T), NEW seqs \in Seq(Seq(T)), seqs # <<>>, NEW h,
           h[1] \in 0 .. 1, h[Len(seqs)] = Len(s),
           seqs[1] = IF h[1] = 0 THEN <<>> ELSE <<s[1]>>,
           \A k \in 1 .. Len(seqs) :
              /\ h[k] \in 0 .. Len(s)
              /\ k < Len(seqs) => \/ h[k + 1] = h[k] /\ seqs[k + 1] = <<>>
                                  \/ h[k + 1] = h[k] + 1 /\ seqs[k + 1] = <<s[h[k] + 1]>>
    PROVE  FlattenSeq(seqs) = s
<1> DEFINE n == Len(seqs)
           f == Unrolled(seqs)
           S == {k \in 1 .. n : f[k] = SubSeq(s, 1, h[k])}
<1>1. n \in 1 .. n /\ n \in Nat /\ Len(s) \in Nat
  BY LenProperties, EmptySeq
<1>2. /\ f[1] = seqs[1]
      /\ \A i \in 1 .. n : i < n => f[i + 1] = f[i] \o seqs[i + 1]
      /\ FlattenSeq(seqs) = f[n]
  BY FlattenSteps
<1>3. \A k \in 1 .. n :
         /\ h[k] \in 0 .. Len(s)
         /\ k < n => \/ h[k + 1] = h[k] /\ seqs[k + 1] = <<>>
                     \/ h[k + 1] = h[k] + 1 /\ seqs[k + 1] = <<s[h[k] + 1]>>
  OBVIOUS
<1>4. h[n] = Len(s)
  OBVIOUS
<1> HIDE DEF n, f
<1>5. SubSeq(s, 1, 0) = <<>>
  BY SubSeqEmpty
<1>6. \A m \in 1 .. Len(s) : SubSeq(s, 1, m) = SubSeq(s, 1, m - 1) \o <<s[m]>>
  <2> TAKE m \in 1 .. Len(s)
  <2>1. 1 \in 1 .. Len(s) /\ m \in 1 .. Len(s)
    BY <1>1
  <2> QED BY <2>1, SubSeqRecursiveSecond
<1>7. 1 \in S
  <2>1. 1 \in 1 .. n
    BY <1>1
  <2>2. CASE h[1] = 0
    BY <1>2, <1>5, <2>1, <2>2
  <2>3. CASE h[1] # 0
    <3>1. h[1] = 1 /\ 1 \in 1 .. Len(s)
      BY <1>1, <1>3, <2>1, <2>3
    <3>2. SubSeq(s, 1, 1) = <<s[1]>>
      <4>1. <<s[1]>> \in Seq(T)
        BY <3>1, ElementOfSeq
      <4>2. <<>> \o <<s[1]>> = <<s[1]>>
        BY <4>1, ConcatEmptySeq
      <4>3. SubSeq(s, 1, 1) = SubSeq(s, 1, 0) \o <<s[1]>>
        <5>1. 1 - 1 = 0
          OBVIOUS
        <5> QED BY <1>6, <3>1, <5>1
      <4> QED BY <1>5, <4>2, <4>3, Zenon
    <3>3. f[1] = <<s[1]>>
      BY <1>2, <2>3, Zenon
    <3> QED BY <2>1, <3>1, <3>2, <3>3
  <2> QED BY <2>2, <2>3
<1>8. ASSUME NEW i \in 1 .. n, i \in S, i < n PROVE i + 1 \in S
  <2>1. f[i] = SubSeq(s, 1, h[i])
    BY <1>8
  <2>2. i + 1 \in 1 .. n /\ h[i] \in 0 .. Len(s) /\ h[i + 1] \in 0 .. Len(s)
    <3>1. i + 1 \in 1 .. n
      BY <1>1, <1>8
    <3> QED BY <1>3, <3>1, Zenon
  <2>3. f[i + 1] = f[i] \o seqs[i + 1]
    BY <1>2, <1>8
  <2>4. CASE h[i + 1] = h[i] /\ seqs[i + 1] = <<>>
    <3>1. SubSeq(s, 1, h[i]) \in Seq(T)
      <4>1. \A j \in 1 .. h[i] : s[j] \in T
        BY <1>1, <2>2, ElementOfSeq
      <4>2. 1 \in Int /\ h[i] \in Int
        BY <2>2
      <4> QED BY <4>1, <4>2, SubSeqProperties
    <3>2. SubSeq(s, 1, h[i]) \o <<>> = SubSeq(s, 1, h[i])
      BY <3>1, ConcatEmptySeq
    <3>3. f[i + 1] = SubSeq(s, 1, h[i + 1])
      BY <2>1, <2>3, <2>4, <3>2, Zenon
    <3> QED BY <2>2, <3>3
  <2>5. CASE h[i + 1] = h[i] + 1 /\ seqs[i + 1] = <<s[h[i] + 1]>>
    <3>1. h[i] + 1 \in 1 .. Len(s) /\ (h[i] + 1) - 1 = h[i]
      <4>1. h[i + 1] = h[i] + 1
        BY <2>5
      <4>2. ASSUME NEW x, NEW y, x \in 0 .. Len(s), y \in 0 .. Len(s), y = x + 1
            PROVE  x + 1 \in 1 .. Len(s) /\ (x + 1) - 1 = x
        BY <1>1, <4>2
      <4> QED BY <2>2, <4>1, <4>2, Zenon
    <3>2. SubSeq(s, 1, h[i] + 1) = SubSeq(s, 1, h[i]) \o <<s[h[i] + 1]>>
      BY <1>6, <3>1
    <3>3. f[i + 1] = SubSeq(s, 1, h[i + 1])
      BY <2>1, <2>3, <2>5, <3>2, Zenon
    <3> QED BY <2>2, <3>3
  <2> QED BY <1>3, <1>8, <2>4, <2>5
<1> HIDE DEF S
<1>9. 1 .. n \subseteq S
  BY <1>1, <1>7, <1>8, Climbs
<1>10. f[n] = SubSeq(s, 1, Len(s))
  BY <1>1, <1>4, <1>9 DEF S
<1> QED BY <1>2, <1>10, SubSeqFull

(* One part per element, with it or without: the sequence Dropping joins.   *)
Kept(seq, dropped) == [i \in DOMAIN seq |-> IF seq[i] \in dropped THEN <<>> ELSE <<seq[i]>>]

(* Its parts are sequences of what is not dropped.                          *)
LEMMA KeptFacts ==
    ASSUME NEW T, NEW seq \in Seq(T), NEW dropped
    PROVE  /\ Kept(seq, dropped) \in Seq(Seq({e \in T : e \notin dropped}))
           /\ Len(Kept(seq, dropped)) = Len(seq)
           /\ \A i \in 1 .. Len(seq) : Kept(seq, dropped)[i] = IF seq[i] \in dropped THEN <<>> ELSE <<seq[i]>>
<1> DEFINE U == {e \in T : e \notin dropped}
           f == Kept(seq, dropped)
<1>1. Len(seq) \in Nat /\ DOMAIN seq = 1 .. Len(seq) /\ \A i \in 1 .. Len(seq) : seq[i] \in T
  BY LenProperties, ElementOfSeq
<1>2. \A i \in 1 .. Len(seq) : f[i] = IF seq[i] \in dropped THEN <<>> ELSE <<seq[i]>>
  BY <1>1, Zenon DEF Kept
<1>3. f = [i \in 1 .. Len(seq) |-> f[i]]
  BY <1>1, Zenon DEF Kept
<1> HIDE DEF f
<1>4. ASSUME NEW i \in 1 .. Len(seq) PROVE f[i] \in Seq(U)
  <2>1. CASE seq[i] \in dropped
    BY <1>2, <2>1, EmptySeq, Zenon
  <2>2. CASE seq[i] \notin dropped
    <3>1. seq[i] \in U
      BY <1>1, <2>2
    <3> HIDE DEF U
    <3>2. <<seq[i]>> \in Seq(U)
      BY <3>1
    <3> QED BY <1>2, <2>2, <3>2, Zenon
  <2> QED BY <2>1, <2>2
<1> HIDE DEF U
<1>5. f \in [1 .. Len(seq) -> Seq(U)]
  BY <1>3, <1>4, Zenon
<1>6. f \in Seq(Seq(U)) /\ Len(f) = Len(seq)
  BY <1>1, <1>5, FunctionIsSeq
<1> QED BY <1>2, <1>6, Zenon DEF f, U

(* Dropping leaves no element to drop, and adds none.                       *)
LEMMA DroppingType ==
    ASSUME NEW T, NEW seq \in Seq(T), NEW dropped
    PROVE  Dropping(seq, dropped) \in Seq({e \in T : e \notin dropped})
<1> DEFINE U == {e \in T : e \notin dropped}
<1>1. Kept(seq, dropped) \in Seq(Seq(U))
  BY KeptFacts
<1> HIDE DEF U
<1>2. FlattenSeq(Kept(seq, dropped)) \in Seq(U)
  BY <1>1, FlattenType
<1> QED BY <1>2 DEF Dropping, Kept, U

(* What is left was there, and is not one to drop.                          *)
LEMMA DroppingSet ==
    ASSUME NEW T, NEW seq \in Seq(T), NEW dropped
    PROVE  \A e \in ToSet(Dropping(seq, dropped)) : e \in ToSet(seq) /\ e \notin dropped
<1> DEFINE d == Dropping(seq, dropped)
           R == ToSet(seq)
           U == {e \in R : e \notin dropped}
<1>1. Len(seq) \in Nat /\ DOMAIN seq = 1 .. Len(seq) /\ seq = [i \in 1 .. Len(seq) |-> seq[i]]
  BY LenProperties
<1>2. \A i \in 1 .. Len(seq) : seq[i] \in R
  BY <1>1 DEF ToSet
<1> HIDE DEF R
<1>3. seq \in [1 .. Len(seq) -> R]
  BY <1>1, <1>2, Zenon
<1>4. seq \in Seq(R)
  BY <1>1, <1>3, FunctionIsSeq
<1>5. d \in Seq(U)
  BY <1>4, DroppingType
<1> HIDE DEF d, U
<1>6. \A i \in DOMAIN d : d[i] \in U
  BY <1>5, LenProperties, ElementOfSeq
<1>7. \A e \in ToSet(d) : e \in U
  BY <1>6 DEF ToSet
<1> QED BY <1>7 DEF d, U, R

(* Only the elements that occur matter.                                     *)
LEMMA DroppingSame ==
    ASSUME NEW seq, NEW D, NEW E, \A e \in ToSet(seq) : e \in D <=> e \in E
    PROVE  Dropping(seq, D) = Dropping(seq, E)
<1>1. \A i \in DOMAIN seq : seq[i] \in D <=> seq[i] \in E
  BY DEF ToSet
<1>2. Kept(seq, D) = Kept(seq, E)
  BY <1>1 DEF Kept
<1> QED BY <1>2, Zenon DEF Dropping, Kept

(* A last element that is dropped leaves no trace.                          *)
LEMMA DroppingLast ==
    ASSUME NEW T, NEW seq \in Seq(T), NEW e \in T, NEW dropped, e \in dropped
    PROVE  Dropping(Append(seq, e), dropped) = Dropping(seq, dropped)
<1> DEFINE longer == Append(seq, e)
           f == Kept(seq, dropped)
           g == Kept(longer, dropped)
           h == Append(f, <<>>)
<1>1. /\ longer \in Seq(T) /\ Len(longer) = Len(seq) + 1 /\ Len(seq) \in Nat
      /\ \A i \in 1 .. Len(seq) : longer[i] = seq[i]
      /\ longer[Len(seq) + 1] = e
  BY AppendProperties, LenProperties
<1> HIDE DEF longer
<1> DEFINE U == {x \in T : x \notin dropped}
<1>2. /\ f \in Seq(Seq(U)) /\ Len(f) = Len(seq)
      /\ \A i \in 1 .. Len(seq) : f[i] = IF seq[i] \in dropped THEN <<>> ELSE <<seq[i]>>
  BY KeptFacts
<1>3. /\ g \in Seq(Seq(U)) /\ Len(g) = Len(longer)
      /\ \A i \in 1 .. Len(longer) : g[i] = IF longer[i] \in dropped THEN <<>> ELSE <<longer[i]>>
  BY <1>1, KeptFacts
<1> HIDE DEF f, g, U
<1>4. <<>> \in Seq(U)
  BY EmptySeq
<1>5. /\ h \in Seq(Seq(U)) /\ Len(h) = Len(f) + 1
      /\ \A i \in 1 .. Len(f) : h[i] = f[i]
      /\ h[Len(f) + 1] = <<>>
  BY <1>2, <1>4, AppendProperties
<1> HIDE DEF h
<1>6. ASSUME NEW i \in 1 .. Len(g) PROVE g[i] = h[i]
  <2>1. CASE i \in 1 .. Len(seq)
    BY <1>1, <1>2, <1>3, <1>5, <1>6, <2>1, ZenonT(30)
  <2>2. CASE i = Len(seq) + 1
    BY <1>1, <1>2, <1>3, <1>5, <1>6, <2>2, Zenon
  <2>3. i \in 1 .. Len(seq) \/ i = Len(seq) + 1
    BY <1>1, <1>3
  <2> QED BY <2>1, <2>2, <2>3
<1>7. g = h
  BY <1>1, <1>2, <1>3, <1>5, <1>6, SeqEqual
<1>8. FlattenSeq(h) = FlattenSeq(f) \o <<>> /\ FlattenSeq(f) \in Seq(U)
  BY <1>2, <1>4, FlattenMore, FlattenType DEF h
<1>9. FlattenSeq(g) = FlattenSeq(f)
  BY <1>7, <1>8, ConcatEmptySeq
<1> QED BY <1>9, Zenon DEF Dropping, Kept, f, g, longer

-----------------------------------------------------------------------------
(* w stands between two cuts of s, the first of them at a.                  *)
Stands(s, S, a, w) ==
    /\ a \in 0 .. Len(s) /\ a + Len(w) <= Len(s)
    /\ a = 0 \/ s[a] \in S
    /\ a + Len(w) = Len(s) \/ s[a + Len(w) + 1] \in S
    /\ \A i \in 1 .. Len(w) : w[i] = s[a + i]

(* A part stands somewhere, and has no separator.                           *)
LEMMA PartStands ==
    ASSUME NEW T, NEW s \in Seq(T), NEW S, NEW w \in ToSet(Parts(s, S))
    PROVE  /\ w \in Seq(T) /\ \A i \in 1 .. Len(w) : w[i] \notin S
           /\ \E a \in 0 .. Len(s) : Stands(s, S, a, w)
<1> DEFINE p == Parts(s, S)
<1>1. /\ Len(s) \in Nat /\ DOMAIN p = 1 .. Len(p)
      /\ \A k \in 1 .. Len(p) : /\ Framed(s, S, PartCut(s, S, k - 1), PartCut(s, S, k))
                                /\ p[k] = Between(s, PartCut(s, S, k - 1), PartCut(s, S, k))
  BY PartsFacts, LenProperties
<1>2. PICK k \in 1 .. Len(p) : w = p[k]
  BY <1>1 DEF ToSet
<1> DEFINE a == PartCut(s, S, k - 1)
           b == PartCut(s, S, k)
<1>3. Framed(s, S, a, b) /\ w = Between(s, a, b)
  BY <1>1, <1>2, Zenon
<1> HIDE DEF a, b
<1>4. /\ a \in 0 .. Len(s) /\ b \in 1 .. Len(s) + 1 /\ a < b
      /\ a = 0 \/ s[a] \in S
      /\ b = Len(s) + 1 \/ s[b] \in S
      /\ \A i \in 1 .. Len(s) : a < i /\ i < b => s[i] \notin S
  BY <1>3, Zenon DEF Framed
<1>5. a \in 0 .. Len(s) /\ b \in 1 .. Len(s) + 1 /\ a < b
  BY <1>4
<1>6. w \in Seq(T) /\ Len(w) = b - a - 1 /\ \A i \in 1 .. b - a - 1 : w[i] = s[a + i]
  BY <1>3, <1>5, BetweenIs
<1>7. a + Len(w) = b - 1 /\ a + Len(w) + 1 = b /\ a + Len(w) <= Len(s)
  BY <1>1, <1>5, <1>6
<1>8. \A i \in 1 .. Len(w) : w[i] = s[a + i]
  BY <1>6, Zenon
<1>9. \A i \in 1 .. Len(w) : w[i] \notin S
  <2> TAKE i \in 1 .. Len(w)
  <2>1. a + i \in 1 .. Len(s) /\ a < a + i /\ a + i < b
    BY <1>1, <1>5, <1>6
  <2>2. s[a + i] \notin S
    BY <1>4, <2>1
  <2> QED BY <1>8, <2>2, Zenon
<1>10. a + Len(w) = Len(s) \/ s[a + Len(w) + 1] \in S
  <2>1. b = Len(s) + 1 => a + Len(w) = Len(s)
    BY <1>1, <1>7
  <2> QED BY <1>4, <1>7, <2>1, Zenon
<1>11. Stands(s, S, a, w)
  BY <1>4, <1>7, <1>8, <1>10, Zenon DEF Stands
<1> QED BY <1>5, <1>6, <1>9, <1>11

(* What stands there and has no separator is a part.                        *)
LEMMA StandingPart ==
    ASSUME NEW T, NEW s \in Seq(T), NEW S, NEW w \in Seq(T), NEW a, Stands(s, S, a, w),
           \A i \in 1 .. Len(w) : w[i] \notin S
    PROVE  w \in ToSet(Parts(s, S))
<1> DEFINE b == a + Len(w) + 1
<1>1. /\ a \in 0 .. Len(s) /\ a + Len(w) <= Len(s) /\ Len(s) \in Nat /\ Len(w) \in Nat
      /\ a = 0 \/ s[a] \in S
      /\ a + Len(w) = Len(s) \/ s[b] \in S
      /\ \A i \in 1 .. Len(w) : w[i] = s[a + i]
  BY LenProperties DEF Stands
<1>2. b \in 1 .. Len(s) + 1 /\ a < b /\ b - a - 1 = Len(w) /\ (a + Len(w) = Len(s) => b = Len(s) + 1)
  BY <1>1
<1> HIDE DEF b
<1>3. \A i \in 1 .. Len(s) : a < i /\ i < b => s[i] \notin S
  <2> SUFFICES ASSUME NEW i \in 1 .. Len(s), a < i, i < b PROVE s[i] \notin S
    OBVIOUS
  <2>1. i - a \in 1 .. Len(w) /\ a + (i - a) = i
    BY <1>1, <1>2
  <2>2. w[i - a] = s[i] /\ w[i - a] \notin S
    BY <1>1, <2>1
  <2> QED BY <2>2, Zenon
<1>4. Framed(s, S, a, b)
  BY <1>1, <1>2, <1>3, Zenon DEF Framed
<1>5. /\ Between(s, a, b) \in Seq(T) /\ Len(Between(s, a, b)) = Len(w)
      /\ \A i \in 1 .. Len(w) : Between(s, a, b)[i] = s[a + i]
  <2>1. a \in 0 .. Len(s) /\ b \in 1 .. Len(s) + 1 /\ a < b
    BY <1>1, <1>2
  <2>2. /\ Between(s, a, b) \in Seq(T) /\ Len(Between(s, a, b)) = b - a - 1
        /\ \A i \in 1 .. b - a - 1 : Between(s, a, b)[i] = s[a + i]
    BY <2>1, BetweenIs
  <2> QED BY <1>2, <2>2, Zenon
<1>6. Between(s, a, b) = w
  <2>1. \A i \in 1 .. Len(Between(s, a, b)) : Between(s, a, b)[i] = w[i]
    BY <1>1, <1>5, Zenon
  <2> QED BY <1>5, <2>1, SeqEqual
<1>7. Between(s, a, b) \in ToSet(Parts(s, S))
  BY <1>4, PartFound
<1> QED BY <1>6, <1>7, Zenon

(* A text less the separator it may end in.                                 *)
LEMMA TrimmedIs ==
    ASSUME NEW T, NEW s \in Seq(T), NEW S
    PROVE  LET t == WithoutTrailing(s, S)
           IN  /\ t \in Seq(T) /\ Len(t) \in Nat
               /\ \A i \in 1 .. Len(t) : t[i] = s[i]
               /\ \/ t = s /\ (s # <<>> => s[Len(s)] \notin S)
                  \/ Len(s) = Len(t) + 1 /\ s[Len(s)] \in S /\ s = t \o <<s[Len(s)]>>
<1>1. Len(s) \in Nat
  BY LenProperties
<1>2. CASE s # <<>> /\ Last(s) \in S
  <2>1. Len(s) \in 1 .. Len(s)
    BY <1>2, EmptySeq
  <2>2. WithoutTrailing(s, S) = Front(s)
    BY <1>2, Zenon DEF WithoutTrailing
  <2>3. s[Len(s)] \in S
    BY <1>2 DEF Last
  <2> DEFINE m == Len(s) - 1
  <2>4. m \in Nat /\ Len(s) = m + 1 /\ 1 \in Int /\ m \in Int /\ \A i \in 1 .. m : s[i] \in T
    BY <2>1, ElementOfSeq
  <2> HIDE DEF m
  <2>5. /\ SubSeq(s, 1, m) \in Seq(T)
        /\ Len(SubSeq(s, 1, m)) = IF 1 <= m THEN m - 1 + 1 ELSE 0
        /\ \A i \in 1 .. m - 1 + 1 : SubSeq(s, 1, m)[i] = s[1 + i - 1]
    BY <2>4, SubSeqProperties
  <2>6. Len(SubSeq(s, 1, m)) = m /\ \A i \in 1 .. m : SubSeq(s, 1, m)[i] = s[i]
    <3>1. m - 1 + 1 = m /\ \A i \in 1 .. m : 1 + i - 1 = i
      BY <2>4
    <3>2. Len(SubSeq(s, 1, m)) = m
      BY <2>4, <2>5
    <3> QED BY <2>5, <3>1, <3>2
  <2>7. Front(s) = SubSeq(s, 1, m)
    BY DEF Front, m
  <2>8. SubSeq(s, 1, Len(s)) = SubSeq(s, 1, m) \o <<s[Len(s)]>>
    <3>1. 1 \in 1 .. Len(s)
      BY <2>1
    <3> QED BY <2>1, <3>1, SubSeqRecursiveSecond DEF m
  <2>9. s = SubSeq(s, 1, m) \o <<s[Len(s)]>>
    BY <2>8, SubSeqFull
  <2> QED BY <2>2, <2>3, <2>4, <2>5, <2>6, <2>7, <2>9, Zenon
<1>3. CASE ~(s # <<>> /\ Last(s) \in S)
  BY <1>1, <1>3, Zenon DEF WithoutTrailing, Last
<1> QED BY <1>2, <1>3

(* A home path whose segments are plain: where one begins, it is not empty  *)
(* and no drive.                                                            *)
LEMMA PlainMeans ==
    ASSUME NEW below \in Seq(Characters), PlainHomeSegments(below),
           NEW t, t = WithoutTrailing(below, Separators),
           NEW a \in 0 .. Len(t), a = 0 \/ t[a] \in Separators
    PROVE  /\ a < Len(t) /\ t[a + 1] \notin Separators
           /\ a + 2 <= Len(t) => ~(t[a + 1] \in DriveLetters /\ t[a + 2] = ":")
<1>1. t \in Seq(Characters) /\ Len(t) \in Nat
  BY TrimmedIs
<1> DEFINE E == {i \in (a + 1) .. Len(t) + 1 : i = Len(t) + 1 \/ t[i] \in Separators}
<1>2. PICK m \in E : \A k \in E : m <= k
  <2>1. E \in SUBSET Nat
    BY <1>1
  <2>2. Len(t) + 1 \in E
    BY <1>1
  <2> HIDE DEF E
  <2> QED BY <2>1, <2>2, LeastNatural
<1>3. m \in (a + 1) .. Len(t) + 1 /\ (m = Len(t) + 1 \/ t[m] \in Separators)
  BY <1>2
<1>4. \A i \in 1 .. Len(t) : a < i /\ i < m => t[i] \notin Separators
  <2> SUFFICES ASSUME NEW i \in 1 .. Len(t), a < i, i < m, t[i] \in Separators PROVE FALSE
    OBVIOUS
  <2>1. i \in (a + 1) .. Len(t) + 1
    BY <1>1
  <2>2. i \in E
    BY <2>1
  <2> HIDE DEF E
  <2>3. m <= i
    BY <1>2, <2>2
  <2> QED BY <1>1, <1>3, <2>3
<1>5. a \in 0 .. Len(t) /\ m \in 1 .. Len(t) + 1 /\ a < m
  BY <1>1, <1>3
<1> HIDE DEF E
<1> DEFINE seg == Between(t, a, m)
<1>6. seg # <<>> /\ ~StartsWithDrive(seg)
  <2>1. Framed(t, Separators, a, m)
    BY <1>3, <1>4, <1>5, Zenon DEF Framed
  <2>2. seg \in ToSet(Parts(t, Separators))
    BY <1>1, <2>1, PartFound
  <2> QED BY <2>2, Zenon DEF PlainHomeSegments
<1>7. seg \in Seq(Characters) /\ Len(seg) = m - a - 1 /\ \A i \in 1 .. m - a - 1 : seg[i] = t[a + i]
  BY <1>1, <1>5, BetweenIs, ZenonT(30)
<1>8. m # a + 1
  <2>1. Len(seg) # 0
    BY <1>6, <1>7, EmptySeq
  <2> HIDE DEF seg
  <2> QED BY <1>5, <1>7, <2>1
<1>9. a < Len(t) /\ a + 1 \in 1 .. Len(t) /\ a < a + 1 /\ a + 1 < m
  BY <1>1, <1>3, <1>5, <1>8
<1>10. t[a + 1] \notin Separators
  BY <1>4, <1>9
<1>11. ASSUME a + 2 <= Len(t), t[a + 1] \in DriveLetters, t[a + 2] = ":" PROVE FALSE
  <2>1. ":" \notin Separators
    BY DEF Separators
  <2>2. m # a + 2
    <3>1. a + 2 # Len(t) + 1
      BY <1>1, <1>11
    <3> QED BY <1>3, <1>11, <2>1, <3>1
  <2>3. m - a - 1 >= 2 /\ 1 \in 1 .. m - a - 1 /\ 2 \in 1 .. m - a - 1
    BY <1>5, <1>8, <2>2
  <2>4. Len(seg) >= 2 /\ seg[1] = t[a + 1] /\ seg[2] = t[a + 2]
    BY <1>7, <2>3, Zenon
  <2> QED BY <1>6, <1>11, <2>4, Zenon DEF StartsWithDrive
<1> QED BY <1>9, <1>10, <1>11

(* What the expansion and the validation take off the end of a home path:   *)
(* r and t differ by a trailing backslash only.                             *)
Rests(below, r, t) ==
    /\ r \in Seq(Characters) /\ t \in Seq(Characters) /\ Len(r) \in Nat /\ Len(t) \in Nat
    /\ Len(r) = Len(t) \/ (Len(r) = Len(t) + 1 /\ r[Len(r)] = "\\")
    /\ \A i \in 1 .. Len(t) : r[i] = t[i]
    /\ \A i \in 1 .. Len(r) : r[i] = below[i]
    /\ r = below \/ (below = r \o <<"/">> /\ Len(below) = Len(r) + 1 /\ below[Len(below)] = "/")

(* That is what strip_suffix leaves of a home path in either place.         *)
LEMMA RestIs ==
    ASSUME NEW below \in Seq(Characters)
    PROVE  Rests(below, WithoutTrailing(below, {"/"}), WithoutTrailing(below, Separators))
<1> DEFINE r == WithoutTrailing(below, {"/"})
           t == WithoutTrailing(below, Separators)
           l == below[Len(below)]
<1>1. /\ r \in Seq(Characters) /\ Len(r) \in Nat
      /\ \A i \in 1 .. Len(r) : r[i] = below[i]
      /\ \/ r = below /\ (below # <<>> => l \notin {"/"})
         \/ Len(below) = Len(r) + 1 /\ l \in {"/"} /\ below = r \o <<l>>
  BY ONLY TrimmedIs, below \in Seq(Characters), Zenon
<1>2. /\ t \in Seq(Characters) /\ Len(t) \in Nat
      /\ \A i \in 1 .. Len(t) : t[i] = below[i]
      /\ \/ t = below /\ (below # <<>> => l \notin Separators)
         \/ Len(below) = Len(t) + 1 /\ l \in Separators /\ below = t \o <<l>>
  BY ONLY TrimmedIs, below \in Seq(Characters), Zenon
<1> HIDE DEF r, t, l
<1>3. r = below \/ (below = r \o <<"/">> /\ Len(below) = Len(r) + 1 /\ below[Len(below)] = "/")
  BY <1>1 DEF l
<1>4. l \in Separators <=> l = "/" \/ l = "\\"
  BY DEF Separators
<1>5. "/" # "\\"
  OBVIOUS
<1>6. below = <<>> => Len(below) = 0
  BY EmptySeq
<1>7. Len(r) = Len(t) \/ (Len(r) = Len(t) + 1 /\ r[Len(r)] = "\\")
  <2>1. CASE Len(below) = Len(r) + 1 /\ l \in {"/"}
    <3>1. Len(below) = Len(t) + 1
      <4>1. l \in Separators /\ below # <<>>
        BY <1>1, <1>4, <1>6, <2>1
      <4> QED BY <1>2, <4>1, Zenon
    <3> QED BY <1>1, <1>2, <2>1, <3>1
  <2>2. CASE r = below /\ (below # <<>> => l \notin {"/"})
    <3>1. CASE t = below
      BY <2>2, <3>1
    <3>2. CASE Len(below) = Len(t) + 1 /\ l \in Separators
      <4>1. below # <<>>
        BY <1>2, <1>6, <3>2
      <4>2. l = "\\"
        BY <1>4, <2>2, <3>2, <4>1
      <4> QED BY <2>2, <3>2, <4>2 DEF l
    <3> QED BY <1>2, <3>1, <3>2, Zenon
  <2> QED BY <1>1, <2>1, <2>2, Zenon
<1>8. \A i \in 1 .. Len(t) : r[i] = t[i]
  <2> TAKE i \in 1 .. Len(t)
  <2>1. i \in 1 .. Len(r)
    <3>1. Len(t) <= Len(r)
      BY <1>1, <1>2, <1>7
    <3> QED BY <1>1, <1>2, <3>1
  <2> QED BY <1>1, <1>2, <2>1, Zenon
<1> QED BY <1>1, <1>2, <1>3, <1>7, <1>8, Zenon DEF Rests, r, t

(* A dot name has no separator.                                             *)
LEMMA DotsAreNoSeparators ==
    ASSUME NEW w \in DotNames, NEW S \in SUBSET Separators
    PROVE  /\ Len(w) \in 1 .. 2 /\ 1 \in 1 .. Len(w) /\ w # <<>>
           /\ \A i \in 1 .. Len(w) : w[i] = "." /\ w[i] \notin Separators /\ w[i] \notin S
<1>1. "." \notin Separators
  BY DEF Separators
<1>2. CASE w = <<".">>
  BY <1>1, <1>2
<1>3. CASE w = <<".", ".">>
  BY <1>1, <1>3
<1> QED BY <1>2, <1>3 DEF DotNames

(* A system separates segments by some of the separators.                   *)
LEMMA SystemSeparators == \A os : SeparatorsOf(os) \in SUBSET Separators /\ "/" \in SeparatorsOf(os)
BY DEF SeparatorsOf, Separators

(* The segments of a home path that was let through are names in it: where  *)
(* one begins and ends in it.                                               *)
LEMMA HomeSegment ==
    ASSUME NEW below \in Seq(Characters), PlainHomeSegments(below),
           NEW os, NEW rest, rest = WithoutTrailing(below, {"/"}),
           NEW a, NEW b, Framed(rest, {"/"}, a, b)
    PROVE  LET segment == Between(rest, a, b)
           IN  /\ segment # <<>> /\ RootOf(os, segment) = "here"
               /\ b <= Len(rest) => Last(segment) \notin SeparatorsOf(os)
<1> DEFINE t == WithoutTrailing(below, Separators)
           w == Between(rest, a, b)
<1>1. /\ rest \in Seq(Characters) /\ t \in Seq(Characters) /\ Len(rest) \in Nat /\ Len(t) \in Nat
      /\ Len(rest) = Len(t) \/ (Len(rest) = Len(t) + 1 /\ rest[Len(rest)] = "\\")
      /\ \A i \in 1 .. Len(t) : rest[i] = t[i]
  <2>1. Rests(below, rest, t)
    BY RestIs, Zenon
  <2> QED BY <2>1, Zenon DEF Rests
<1>2. /\ a \in 0 .. Len(rest) /\ b \in 1 .. Len(rest) + 1 /\ a < b
      /\ a = 0 \/ rest[a] = "/"
      /\ b = Len(rest) + 1 \/ rest[b] = "/"
  BY LenProperties DEF Framed
<1>3. w \in Seq(Characters) /\ Len(w) = b - a - 1 /\ \A i \in 1 .. b - a - 1 : w[i] = rest[a + i]
  <2>1. a \in 0 .. Len(rest) /\ b \in 1 .. Len(rest) + 1 /\ a < b /\ rest \in Seq(Characters)
    BY <1>1, <1>2
  <2> QED BY ONLY <2>1, BetweenIs
<1>4. ASSUME NEW c \in 0 .. Len(t), c = 0 \/ t[c] \in Separators
      PROVE  /\ c < Len(t) /\ t[c + 1] \notin Separators
             /\ c + 2 <= Len(t) => ~(t[c + 1] \in DriveLetters /\ t[c + 2] = ":")
  BY ONLY <1>4, below \in Seq(Characters), PlainHomeSegments(below), PlainMeans
<1> HIDE DEF t, w
<1>5. "/" # "\\" /\ ":" # "\\" /\ "/" \in Separators
  BY DEF Separators
<1>6. \A i \in 1 .. Len(rest) : rest[i] # "\\" => i \in 1 .. Len(t)
  <2> TAKE i \in 1 .. Len(rest)
  <2>1. CASE Len(rest) = Len(t)
    BY <2>1
  <2>2. CASE Len(rest) = Len(t) + 1 /\ rest[Len(rest)] = "\\"
    <3>1. i = Len(rest) \/ i \in 1 .. Len(t)
      BY <1>1, <2>2
    <3> QED BY <2>2, <3>1
  <2> QED BY <1>1, <2>1, <2>2, Zenon
<1>7. a \in 0 .. Len(t) /\ (a = 0 \/ t[a] \in Separators)
  <2>1. CASE a = 0
    BY <1>1, <2>1
  <2>2. CASE a # 0
    <3>1. a \in 1 .. Len(rest) /\ rest[a] = "/"
      BY <1>2, <2>2
    <3>2. a \in 1 .. Len(t)
      BY <1>5, <1>6, <3>1
    <3>3. t[a] = "/" /\ a \in 0 .. Len(t)
      BY <1>1, <3>1, <3>2
    <3> QED BY <1>5, <3>3
  <2> QED BY <2>1, <2>2
<1>8. /\ a < Len(t) /\ t[a + 1] \notin Separators
      /\ a + 2 <= Len(t) => ~(t[a + 1] \in DriveLetters /\ t[a + 2] = ":")
  BY <1>4, <1>7
<1>9. a + 1 \in 1 .. Len(t) /\ a + 1 \in 1 .. Len(rest) /\ rest[a + 1] = t[a + 1]
  <2>1. a + 1 \in 1 .. Len(t)
    BY <1>1, <1>7, <1>8
  <2>2. Len(t) <= Len(rest)
    BY <1>1
  <2> QED BY <1>1, <2>1, <2>2
<1>10. b # a + 1
  <2>1. b = Len(rest) + 1 => b # a + 1
    BY <1>1, <1>9
  <2>2. rest[a + 1] # "/"
    BY <1>5, <1>8, <1>9
  <2> QED BY <1>2, <2>1, <2>2
<1>11. 1 \in 1 .. b - a - 1 /\ b - a - 1 \in 1 .. b - a - 1 /\ Len(w) # 0
  BY <1>2, <1>3, <1>10
<1>12. w # <<>> /\ w[1] = rest[a + 1]
  BY <1>3, <1>11, EmptySeq
<1>13. w[1] \notin SeparatorsOf(os) /\ w[1] # "home"
  <2>1. w[1] \in Characters
    BY <1>3, <1>11, ElementOfSeq
  <2>2. "home" \notin Characters
    BY CharactersAssumption
  <2>3. w[1] \notin Separators
    BY <1>8, <1>9, <1>12
  <2> QED BY <2>1, <2>2, <2>3, SystemSeparators
<1>14. ~StartsWithDrive(w)
  <2> SUFFICES ASSUME StartsWithDrive(w) PROVE FALSE
    OBVIOUS
  <2>1. Len(w) >= 2 /\ w[1] \in DriveLetters /\ w[2] = ":"
    BY DEF StartsWithDrive
  <2>2. 2 \in 1 .. b - a - 1 /\ a + 2 \in 1 .. Len(rest)
    BY <1>1, <1>2, <1>3, <2>1
  <2>3. rest[a + 2] = ":"
    BY <1>3, <2>1, <2>2
  <2>4. a + 2 \in 1 .. Len(t)
    BY <1>5, <1>6, <2>2, <2>3
  <2>5. a + 2 <= Len(t) /\ t[a + 2] = ":" /\ t[a + 1] \in DriveLetters
    BY <1>1, <1>9, <1>12, <2>1, <2>3, <2>4
  <2> QED BY <1>8, <2>5
<1>15. RootOf(os, w) = "here"
  BY <1>12, <1>13, <1>14, Zenon DEF RootOf
<1>16. ASSUME b <= Len(rest) PROVE Last(w) \notin SeparatorsOf(os)
  <2>1. b \in 1 .. Len(rest) /\ rest[b] = "/"
    BY <1>1, <1>2, <1>16
  <2>2. b \in 1 .. Len(t) /\ t[b] = "/"
    BY <1>1, <1>5, <1>6, <2>1
  <2>3. b - 1 \in 1 .. Len(t) /\ b - 1 \in 0 .. Len(t) /\ (b - 1) + 1 = b /\ a + (b - a - 1) = b - 1
    BY <1>1, <1>2, <1>11, <2>2
  <2>4. t[b - 1] \notin Separators
    <3> SUFFICES ASSUME t[b - 1] \in Separators PROVE FALSE
      OBVIOUS
    <3>1. t[(b - 1) + 1] \notin Separators
      BY <1>4, <2>3
    <3> QED BY <1>5, <2>2, <2>3, <3>1
  <2>5. Last(w) = rest[b - 1]
    BY <1>3, <1>11, <2>3 DEF Last
  <2>6. rest[b - 1] = t[b - 1]
    BY <1>1, <2>3
  <2> QED BY <2>4, <2>5, <2>6, SystemSeparators
<1> QED BY <1>12, <1>15, <1>16 DEF w

(* A dot name in a segment of the rest is one in the whole text.            *)
LEMMA HomeDots ==
    ASSUME NEW below \in Seq(Characters), NEW rest, rest = WithoutTrailing(below, {"/"}),
           NEW a, NEW b, Framed(rest, {"/"}, a, b),
           NEW S \in SUBSET Separators, NEW w \in DotNames, NEW c,
           w \in Seq(Characters), Stands(Between(rest, a, b), S, c, w)
    PROVE  w \in ToSet(Parts(below, Separators))
<1> DEFINE v == Between(rest, a, b)
<1>1. /\ rest \in Seq(Characters) /\ Len(rest) \in Nat
      /\ \A i \in 1 .. Len(rest) : rest[i] = below[i]
      /\ rest = below \/ (Len(below) = Len(rest) + 1 /\ below[Len(below)] = "/")
  <2>1. Rests(below, rest, WithoutTrailing(below, Separators))
    BY RestIs, Zenon
  <2> QED BY <2>1, Zenon DEF Rests
<1>2. /\ a \in 0 .. Len(rest) /\ b \in 1 .. Len(rest) + 1 /\ a < b
      /\ a = 0 \/ rest[a] \in {"/"}
      /\ b = Len(rest) + 1 \/ rest[b] \in {"/"}
  BY Zenon DEF Framed
<1>3. Len(v) = b - a - 1 /\ \A i \in 1 .. b - a - 1 : v[i] = rest[a + i]
  <2>1. a \in 0 .. Len(rest) /\ b \in 1 .. Len(rest) + 1 /\ a < b /\ rest \in Seq(Characters)
    BY <1>1, <1>2
  <2> QED BY ONLY <2>1, BetweenIs
<1>4. /\ c \in 0 .. Len(v) /\ c + Len(w) <= Len(v)
      /\ c = 0 \/ v[c] \in S
      /\ c + Len(w) = Len(v) \/ v[c + Len(w) + 1] \in S
      /\ \A i \in 1 .. Len(w) : w[i] = v[c + i]
  BY Zenon DEF Stands
<1> HIDE DEF v
<1> DEFINE d == a + c
           e == d + Len(w)
<1>5. Len(w) \in Nat /\ Len(below) \in Nat /\ (Len(below) = Len(rest) \/ Len(below) = Len(rest) + 1)
  BY <1>1, LenProperties
<1>6. /\ a \in Nat /\ b \in Nat /\ c \in Nat /\ a < b /\ b <= Len(rest) + 1 /\ Len(v) = b - a - 1
      /\ c + Len(w) <= Len(v) /\ Len(rest) \in Nat
  BY <1>1, <1>2, <1>3, <1>4
<1>7. d \in 0 .. Len(below) /\ e <= Len(below) /\ e <= Len(rest) /\ d \in Nat /\ e \in Nat
  BY <1>5, <1>6
<1>8. \A i \in 1 .. Len(v) : v[i] = below[a + i] /\ a + i \in 1 .. Len(rest)
  <2> TAKE i \in 1 .. Len(v)
  <2>1. i \in 1 .. b - a - 1 /\ a + i \in 1 .. Len(rest)
    BY <1>6
  <2> QED BY <1>1, <1>3, <2>1, Zenon
<1>9. "/" \in Separators
  BY DEF Separators
<1>10. d = 0 \/ below[d] \in Separators
  <2>1. CASE c = 0
    <3>1. d = a
      BY <1>6, <2>1
    <3>2. CASE a = 0
      BY <3>1, <3>2
    <3>3. CASE a # 0
      <4>1. a \in 1 .. Len(rest) /\ rest[a] = "/"
        BY <1>2, <3>3
      <4> QED BY <1>1, <1>9, <3>1, <4>1
    <3> QED BY <3>2, <3>3
  <2>2. CASE c # 0
    <3>1. c \in 1 .. Len(v) /\ v[c] \in S
      BY <1>4, <2>2
    <3>2. v[c] = below[d]
      BY <1>8, <3>1
    <3> QED BY <3>1, <3>2
  <2> QED BY <2>1, <2>2
<1>11. e = Len(below) \/ below[e + 1] \in Separators
  <2>1. CASE c + Len(w) = Len(v)
    <3>1. e = b - 1 /\ e + 1 = b
      BY <1>6, <2>1
    <3>2. CASE b = Len(rest) + 1
      <4>1. e = Len(rest)
        BY <1>6, <3>1, <3>2
      <4>2. CASE rest = below
        BY <4>1, <4>2
      <4>3. CASE Len(below) = Len(rest) + 1 /\ below[Len(below)] = "/"
        BY <1>9, <4>1, <4>3
      <4> QED BY <1>1, <4>2, <4>3
    <3>3. CASE b # Len(rest) + 1
      <4>1. b \in 1 .. Len(rest) /\ rest[b] = "/"
        BY <1>2, <1>6, <3>3
      <4> QED BY <1>1, <1>9, <3>1, <4>1
    <3> QED BY <3>2, <3>3
  <2>2. CASE c + Len(w) # Len(v)
    <3>1. c + Len(w) + 1 \in 1 .. Len(v) /\ v[c + Len(w) + 1] \in S
      BY <1>4, <1>5, <1>6, <2>2
    <3>2. a + (c + Len(w) + 1) = e + 1
      BY <1>5, <1>6
    <3>3. v[c + Len(w) + 1] = below[e + 1]
      BY <1>8, <3>1, <3>2
    <3> QED BY <3>1, <3>3
  <2> QED BY <2>1, <2>2
<1>12. \A i \in 1 .. Len(w) : w[i] = below[d + i]
  <2> TAKE i \in 1 .. Len(w)
  <2>1. c + i \in 1 .. Len(v) /\ a + (c + i) = d + i
    BY <1>5, <1>6
  <2> QED BY <1>4, <1>8, <2>1
<1>13. Stands(below, Separators, d, w)
  <2> HIDE DEF d
  <2> QED BY <1>7, <1>10, <1>11, <1>12, Zenon DEF Stands, e
<1>14. \A i \in 1 .. Len(w) : w[i] \notin Separators
  BY DotsAreNoSeparators
<1> QED BY ONLY <1>13, <1>14, below \in Seq(Characters), w \in Seq(Characters), StandingPart

(* So the expansion takes every segment of it.                              *)
LEMMA HomeSegments ==
    ASSUME NEW below \in Seq(Characters), below # <<>>, PlainHomeSegments(below),
           ToSet(Parts(below, Separators)) \cap DotNames = {},
           NEW os, NEW rest, rest = WithoutTrailing(below, {"/"})
    PROVE  /\ rest \in Seq(Characters) /\ rest # <<>>
           /\ NamesOnly(os, Parts(rest, {"/"}))
           /\ \A segment \in ToSet(Parts(rest, {"/"})) :
                 segment \notin {<<>>} \cup DotNames /\ OnlyNames(os, segment)
<1> DEFINE t == WithoutTrailing(below, Separators)
           p == Parts(rest, {"/"})
           n == Len(p)
           c(k) == PartCut(rest, {"/"}, k)
<1>1. Rests(below, rest, t)
  BY RestIs, Zenon
<1>2. rest \in Seq(Characters) /\ Len(rest) \in Nat /\ Len(t) \in Nat /\ Len(t) <= Len(rest)
  <2>1. /\ rest \in Seq(Characters) /\ Len(rest) \in Nat /\ Len(t) \in Nat
        /\ Len(rest) = Len(t) \/ Len(rest) = Len(t) + 1
    BY <1>1, Zenon DEF Rests
  <2> QED BY <2>1
<1>3. rest # <<>>
  <2>1. 0 \in 0 .. Len(t)
    BY <1>2
  <2>2. 0 < Len(t)
    BY ONLY <2>1, below \in Seq(Characters), PlainHomeSegments(below), PlainMeans
  <2>3. Len(rest) # 0
    BY <1>2, <2>2
  <2> QED BY <2>3, EmptySeq
<1>4. /\ n \in Nat \ {0} /\ DOMAIN p = 1 .. n
      /\ \A k \in 1 .. n : Framed(rest, {"/"}, c(k - 1), c(k)) /\ p[k] = Between(rest, c(k - 1), c(k))
  BY <1>2, PartsFacts
<1> HIDE DEF p, n, c
<1>5. NamesOnly(os, p)
  <2>1. ASSUME NEW k \in 1 .. n
        PROVE  /\ p[k] # <<>> /\ RootOf(os, p[k]) = "here"
               /\ k < n => Last(p[k]) \notin SeparatorsOf(os)
    <3>1. Framed(rest, {"/"}, c(k - 1), c(k)) /\ p[k] = Between(rest, c(k - 1), c(k))
      BY <1>4
    <3>2. /\ p[k] # <<>> /\ RootOf(os, p[k]) = "here"
          /\ c(k) <= Len(rest) => Last(p[k]) \notin SeparatorsOf(os)
      BY <3>1, HomeSegment
    <3>3. k < n => c(k) <= Len(rest)
      <4> SUFFICES ASSUME k < n PROVE c(k) <= Len(rest)
        OBVIOUS
      <4>1. k + 1 \in 1 .. n /\ (k + 1) - 1 = k
        BY <1>4
      <4>2. Framed(rest, {"/"}, c(k), c(k + 1))
        BY <1>4, <4>1
      <4> QED BY <1>2, <4>2 DEF Framed
    <3> QED BY <3>2, <3>3
  <2>2. n = Len(p)
    BY DEF n
  <2> QED BY <1>4, <2>1, <2>2, Zenon DEF NamesOnly
<1>6. ASSUME NEW v \in ToSet(p) PROVE v \notin {<<>>} \cup DotNames /\ OnlyNames(os, v)
  <2>1. PICK k \in 1 .. n : v = p[k]
    BY <1>4 DEF ToSet
  <2> DEFINE a == c(k - 1)
             b == c(k)
  <2>2. Framed(rest, {"/"}, a, b) /\ v = Between(rest, a, b)
    BY <1>4, <2>1
  <2> HIDE DEF a, b
  <2>3. v # <<>> /\ RootOf(os, v) = "here"
    BY <2>2, HomeSegment
  <2>4. v \in Seq(Characters) /\ Len(v) \in Nat
    <3>1. a \in 0 .. Len(rest) /\ b \in 1 .. Len(rest) + 1 /\ a < b
      BY <2>2, Zenon DEF Framed
    <3>2. v \in Seq(Characters)
      BY ONLY <1>2, <2>2, <3>1, BetweenIs
    <3> QED BY <3>2, LenProperties
  <2>5. \A S \in SUBSET Separators : \A w \in DotNames : \A d :
           w \in Seq(Characters) => ~Stands(v, S, d, w)
    <3> SUFFICES ASSUME NEW S \in SUBSET Separators, NEW w \in DotNames, NEW d,
                        w \in Seq(Characters), Stands(v, S, d, w)
                 PROVE  FALSE
      OBVIOUS
    <3>1. Stands(Between(rest, a, b), S, d, w)
      BY <2>2
    <3>2. w \in ToSet(Parts(below, Separators))
      BY <2>2, <3>1, HomeDots
    <3> QED BY <3>2
  <2>6. v \notin DotNames
    <3>1. Stands(v, {}, 0, v)
      <4>1. 0 \in 0 .. Len(v) /\ 0 + Len(v) = Len(v) /\ 0 + Len(v) <= Len(v) /\ \A i \in 1 .. Len(v) : 0 + i = i
        BY <2>4
      <4> QED BY <4>1, Zenon DEF Stands
    <3>2. {} \in SUBSET Separators
      OBVIOUS
    <3> QED BY <2>4, <2>5, <3>1, <3>2, Zenon
  <2>7. \A w \in ToSet(Parts(v, SeparatorsOf(os))) : w \notin DotNames
    <3> SUFFICES ASSUME NEW w \in ToSet(Parts(v, SeparatorsOf(os))), w \in DotNames PROVE FALSE
      OBVIOUS
    <3>1. w \in Seq(Characters) /\ \E d \in 0 .. Len(v) : Stands(v, SeparatorsOf(os), d, w)
      BY <2>4, PartStands
    <3> QED BY <2>5, <3>1, SystemSeparators, Zenon
  <2>8. <<".">> \in DotNames /\ <<".", ".">> \in DotNames
    BY DEF DotNames
  <2>9. Parts(v, SeparatorsOf(os))[1] \in ToSet(Parts(v, SeparatorsOf(os)))
    <3>1. 1 \in DOMAIN Parts(v, SeparatorsOf(os))
      BY <2>4, PartsFacts
    <3> QED BY <3>1 DEF ToSet
  <2>10. OnlyNames(os, v)
    BY <2>3, <2>7, <2>8, <2>9, Zenon DEF OnlyNames
  <2> QED BY <2>3, <2>6, <2>10
<1> QED BY <1>2, <1>3, <1>5, <1>6 DEF p

-----------------------------------------------------------------------------
(* A dot name in a path is one in what follows its root.                    *)
LEMMA DotsAfterRoot ==
    ASSUME NEW s \in Seq(Characters), NEW t \in Seq(Characters), NEW p \in 1 .. Len(s),
           \A i \in 1 .. p : s[i] # ".",
           \A i \in 1 .. Len(s) : i > p => s[i] = t[i - p],
           Len(t) = Len(s) - p \/ (Len(t) = Len(s) - p + 1 /\ t[Len(t)] \in Separators),
           NEW S \in SUBSET Separators, NEW w \in DotNames, w \in ToSet(Parts(s, S))
    PROVE  w \in ToSet(Parts(t, Separators))
<1>1. w \in Seq(Characters)
  BY PartStands
<1>2. PICK c \in 0 .. Len(s) : Stands(s, S, c, w)
  BY PartStands
<1>3. /\ c \in 0 .. Len(s) /\ c + Len(w) <= Len(s)
      /\ c = 0 \/ s[c] \in S
      /\ c + Len(w) = Len(s) \/ s[c + Len(w) + 1] \in S
      /\ \A i \in 1 .. Len(w) : w[i] = s[c + i]
  BY <1>2, Zenon DEF Stands
<1>4. Len(w) \in 1 .. 2 /\ 1 \in 1 .. Len(w) /\ \A i \in 1 .. Len(w) : w[i] = "." /\ w[i] \notin Separators
  BY DotsAreNoSeparators
<1>5. Len(s) \in Nat /\ Len(t) \in Nat /\ p \in 1 .. Len(s) /\ (Len(t) = Len(s) - p \/ Len(t) = Len(s) - p + 1)
  BY LenProperties
<1>6. c >= p
  <2> SUFFICES ASSUME c < p PROVE FALSE
    BY <1>3, <1>5
  <2>1. c + 1 \in 1 .. p /\ 1 \in 1 .. Len(w)
    <3>1. c \in Int /\ p \in Int /\ 0 <= c
      BY <1>3, <1>5
    <3>2. c + 1 \in 1 .. p
      BY <3>1
    <3>3. 1 \in 1 .. Len(w)
      BY <1>4, Zenon
    <3> QED BY <3>2, <3>3, Zenon
  <2>2. w[1] = s[c + 1] /\ w[1] = "."
    BY <1>3, <1>4, <2>1
  <2> QED BY <2>1, <2>2
<1> DEFINE d == c - p
           l == Len(w)
<1>7. l \in Nat /\ d \in 0 .. Len(t) /\ d + l <= Len(t) /\ d + l = (c + l) - p
  BY <1>3, <1>4, <1>5, <1>6
<1>8. d = 0 \/ t[d] \in Separators
  <2>1. CASE c = p
    BY <1>5, <2>1
  <2>2. CASE c # p
    <3>1. c \in 1 .. Len(s) /\ c > p /\ c # 0
      BY <1>3, <1>5, <1>6, <2>2
    <3>2. s[c] = t[d] /\ s[c] \in S
      BY <1>3, <3>1
    <3> QED BY <3>2
  <2> QED BY <2>1, <2>2
<1>9. d + l = Len(t) \/ t[d + l + 1] \in Separators
  <2>1. CASE c + l = Len(s)
    <3>1. d + l = Len(s) - p
      BY <1>7, <2>1
    <3>2. CASE Len(t) = Len(s) - p
      BY <3>1, <3>2
    <3>3. CASE Len(t) = Len(s) - p + 1 /\ t[Len(t)] \in Separators
      BY <3>1, <3>3
    <3> QED BY <3>2, <3>3
  <2>2. CASE c + l # Len(s)
    <3>1. s[c + l + 1] \in S
      BY <1>3, <2>2
    <3>2. c + l + 1 \in 1 .. Len(s) /\ c + l + 1 > p /\ (c + l + 1) - p = d + l + 1
      <4>1. c + l <= Len(s)
        BY <1>3
      <4> QED BY <1>3, <1>5, <1>6, <1>7, <2>2, <4>1
    <3>3. s[c + l + 1] = t[(c + l + 1) - p]
      BY <3>2
    <3> QED BY <3>1, <3>2, <3>3
  <2> QED BY <2>1, <2>2
<1>10. \A i \in 1 .. l : w[i] = t[d + i]
  <2> TAKE i \in 1 .. l
  <2>1. c + i \in 1 .. Len(s) /\ c + i > p /\ (c + i) - p = d + i
    BY <1>3, <1>5, <1>6
  <2>2. s[c + i] = t[(c + i) - p]
    BY <2>1
  <2> QED BY <1>3, <2>1, <2>2
<1>11. Stands(t, Separators, d, w)
  <2> HIDE DEF d
  <2> QED BY <1>7, <1>8, <1>9, <1>10, Zenon DEF Stands, l
<1>12. \A i \in 1 .. Len(w) : w[i] \notin Separators
  BY <1>4
<1> QED BY ONLY <1>1, <1>11, <1>12, t \in Seq(Characters), StandingPart

(* A text that is let through as a path, by what it begins with.            *)
LEMMA ValidPath ==
    ASSUME NEW chars \in Seq(Characters), chars # <<>>, ValidPathTarget(chars)
    PROVE  LET below == SubSeq(chars, AbsolutePrefix(chars) + 1, Len(chars))
           IN  /\ ~IsNetworkPath(chars)
               /\ chars[1] = "~" =>
                     \/ chars = <<"~">>
                     \/ /\ AbsolutePrefix(chars) = 2 /\ Len(chars) >= 2 /\ chars[2] = "/"
                        /\ below # <<>> => PlainHomeSegments(below)
                        /\ ToSet(Parts(below, Separators)) \cap DotNames = {}
               /\ chars[1] # "~" =>
                     /\ \/ chars[1] = "/" /\ AbsolutePrefix(chars) = 1
                        \/ /\ StartsWithDrive(chars) /\ Len(chars) >= 3 /\ chars[3] \in Separators
                           /\ AbsolutePrefix(chars) = 3
                     /\ ToSet(Parts(below, Separators)) \cap DotNames = {}
<1>1. Len(chars) \in Nat \ {0}
  BY EmptySeq
<1> DEFINE pre == AbsolutePrefix(chars)
<1>2. CASE chars[1] = "/"
  <2>1. pre = 1 /\ chars[1] # "~"
    <3>1. chars[1] # "~" /\ ~StartsWithDrive(chars)
      BY <1>2 DEF StartsWithDrive, DriveLetters
    <3> QED BY <1>2, <3>1, Zenon DEF AbsolutePrefix
  <2>2. chars # <<"~">>
    BY <2>1
  <2> QED BY <1>2, <2>1, <2>2, Zenon DEF ValidPathTarget
<1>3. CASE chars[1] = "~"
  <2>1. ~StartsWithDrive(chars)
    BY <1>3 DEF StartsWithDrive, DriveLetters
  <2>2. pre = IF Len(chars) >= 2 /\ chars[2] = "/" THEN 2 ELSE 0
    BY <1>3, <2>1 DEF AbsolutePrefix
  <2>3. CASE chars = <<"~">>
    BY <1>3, <2>3, Zenon DEF ValidPathTarget
  <2>4. CASE chars # <<"~">>
    <3>1. pre # 0
      BY <2>4, Zenon DEF ValidPathTarget
    <3>2. pre = 2 /\ Len(chars) >= 2 /\ chars[2] = "/"
      BY <2>2, <3>1
    <3> QED BY <1>3, <2>4, <3>2, Zenon DEF ValidPathTarget
  <2> QED BY <2>3, <2>4
<1>4. CASE chars[1] # "/" /\ chars[1] # "~"
  <2>1. chars # <<"~">>
    BY <1>4
  <2>2. pre # 0 /\ ~IsNetworkPath(chars)
        /\ ToSet(Parts(SubSeq(chars, pre + 1, Len(chars)), Separators)) \cap DotNames = {}
    BY <2>1, Zenon DEF ValidPathTarget
  <2>3. StartsWithDrive(chars) /\ Len(chars) >= 3 /\ chars[3] \in Separators /\ pre = 3
    <3>1. pre = IF StartsWithDrive(chars) /\ Len(chars) >= 3 /\ chars[3] \in Separators THEN 3 ELSE 0
      BY <1>4, Zenon DEF AbsolutePrefix
    <3> QED BY <2>2, <3>1
  <2> QED BY <1>4, <2>2, <2>3, Zenon
<1> QED BY <1>2, <1>3, <1>4

(* What the expansion makes of a text that was let through: it fails for    *)
(* want of a home directory only, and a `~` text becomes the directory the  *)
(* validation had it name.                                                  *)
LEMMA ExpansionIs ==
    ASSUME NEW chars \in Seq(Characters), chars # <<>>, ValidPathTarget(chars),
           NEW os, NEW home \in BOOLEAN
    PROVE  LET below == SubSeq(chars, 3, Len(chars))
               rest == WithoutTrailing(below, {"/"})
           IN  /\ chars[1] # "~" => ExpandPath(os, home, chars) = chars
               /\ chars[1] = "~" /\ ~home => ExpandPath(os, home, chars) = Error
               /\ chars[1] = "~" /\ home =>
                     \/ chars \in {<<"~">>, <<"~", "/">>} /\ ExpandPath(os, home, chars) = <<"home">>
                     \/ /\ ExpandPath(os, home, chars) = Slashed(os, rest, Len(rest) + 1)
                        /\ below \in Seq(Characters) /\ Len(chars) = Len(below) + 2
                        /\ \A i \in 1 .. Len(below) : below[i] = chars[i + 2]
                        /\ chars[2] = "/"
                        /\ below # <<>> /\ PlainHomeSegments(below)
                        /\ ToSet(Parts(below, Separators)) \cap DotNames = {}
<1> DEFINE below == SubSeq(chars, 3, Len(chars))
           rest == WithoutTrailing(below, {"/"})
           segments == Parts(rest, {"/"})
           bad == \/ ~home
                  \/ Len(chars) > 1 /\ chars[2] # "/"
                  \/ rest # <<>> /\ \E segment \in ToSet(segments) :
                        segment \in {<<>>} \cup DotNames \/ ~OnlyNames(os, segment)
           fold == FoldLeft(LAMBDA path, segment : Push(os, path, segment), <<"home">>, segments)
<1>1. ExpandPath(os, home, chars) = IF chars[1] # "~" THEN chars
                                    ELSE IF bad THEN Error
                                    ELSE IF rest = <<>> THEN <<"home">> ELSE fold
  BY Zenon DEF ExpandPath
<1> HIDE DEF fold
<1>2. Len(chars) \in Nat \ {0} /\ \A i \in 3 .. Len(chars) : chars[i] \in Characters
  BY EmptySeq, ElementOfSeq
<1>3. /\ below \in Seq(Characters)
      /\ Len(below) = IF 3 <= Len(chars) THEN Len(chars) - 3 + 1 ELSE 0
      /\ \A i \in 1 .. Len(chars) - 3 + 1 : below[i] = chars[3 + i - 1]
  <2>1. 3 \in Int /\ Len(chars) \in Int
    BY <1>2
  <2> QED BY <1>2, <2>1, SubSeqProperties
<1>4. Rests(below, rest, WithoutTrailing(below, Separators))
  BY <1>3, RestIs, Zenon
<1>5. CASE chars[1] # "~"
  BY <1>1, <1>5, Zenon
<1>6. CASE chars[1] = "~" /\ ~home
  <2>1. bad
    BY <1>6
  <2> QED BY <1>1, <1>6, <2>1, Zenon
<1>7. CASE chars[1] = "~" /\ home
  <2> DEFINE tail == SubSeq(chars, AbsolutePrefix(chars) + 1, Len(chars))
  <2>1. \/ chars = <<"~">>
        \/ /\ AbsolutePrefix(chars) = 2 /\ Len(chars) >= 2 /\ chars[2] = "/"
           /\ tail # <<>> => PlainHomeSegments(tail)
           /\ ToSet(Parts(tail, Separators)) \cap DotNames = {}
    BY <1>7, ValidPath, Zenon
  <2>2. ASSUME Len(below) = 0, Len(chars) > 1 => chars[2] = "/"
        PROVE  ExpandPath(os, home, chars) = <<"home">>
    <3>1. below = <<>>
      <4> HIDE DEF below
      <4> QED BY ONLY <1>3, <2>2, EmptySeq
    <3>2. rest = <<>>
      <4>1. WithoutTrailing(<<>>, {"/"}) = <<>>
        BY Zenon DEF WithoutTrailing
      <4> QED BY <3>1, <4>1, Zenon
    <3>3. ~bad
      BY <1>7, <2>2, <3>2, Zenon
    <3> QED BY <1>1, <1>7, <3>2, <3>3, Zenon
  <2>3. CASE chars = <<"~">>
    <3>1. Len(chars) = 1
      BY <2>3
    <3> DEFINE n == Len(chars)
    <3>2. n = 1
      BY <3>1
    <3> HIDE DEF n
    <3>3. ~(n > 1) /\ ~(3 <= n)
      BY <3>2
    <3>4. Len(below) = 0 /\ (Len(chars) > 1 => chars[2] = "/")
      BY <1>3, <3>3, Zenon DEF n
    <3> QED BY <1>7, <2>2, <2>3, <3>4
  <2>4. CASE chars # <<"~">> /\ Len(chars) = 2
    <3> DEFINE n == Len(chars)
    <3>1. n = 2
      BY <2>4
    <3> HIDE DEF n
    <3>2. ~(3 <= n)
      BY <3>1
    <3>3. chars[2] = "/" /\ Len(below) = 0
      BY <1>3, <2>1, <2>4, <3>2, Zenon DEF n
    <3> DEFINE z == <<"~", "/">>
    <3>4. z[1] = "~" /\ z[2] = "/" /\ Len(z) = 2
      OBVIOUS
    <3>5. z \in Seq({"~", "/"}) /\ chars \in Seq(Characters \cup {"~", "/"}) /\ z \in Seq(Characters \cup {"~", "/"})
      <4>1. z \in Seq({"~", "/"})
        OBVIOUS
      <4> HIDE DEF z
      <4>2. {"~", "/"} \subseteq Characters \cup {"~", "/"} /\ Characters \subseteq Characters \cup {"~", "/"}
        OBVIOUS
      <4> QED BY <4>1, <4>2, SeqMonotonic
    <3> HIDE DEF z
    <3>6. \A i \in 1 .. Len(chars) : chars[i] = z[i]
      <4>1. \A i \in 1 .. n : i = 1 \/ i = 2
        BY <3>1
      <4> QED BY <1>7, <3>3, <3>4, <4>1, Zenon DEF n
    <3>7. chars = z
      BY <2>4, <3>4, <3>5, <3>6, SeqEqual
    <3> QED BY <1>7, <2>2, <3>3, <3>7 DEF z
  <2>5. CASE chars # <<"~">> /\ Len(chars) # 2
    <3>2. AbsolutePrefix(chars) = 2 /\ Len(chars) >= 2 /\ chars[2] = "/"
          /\ (tail # <<>> => PlainHomeSegments(tail))
          /\ ToSet(Parts(tail, Separators)) \cap DotNames = {}
      BY <2>1, <2>5, Zenon
    <3>3. tail = below
      <4>1. AbsolutePrefix(chars) + 1 = 3
        BY <3>2
      <4> QED BY <4>1, Zenon
    <3>4. Len(chars) >= 3
      <4>1. Len(chars) \in Nat /\ Len(chars) >= 2 /\ Len(chars) # 2
        BY <1>2, <2>5, <3>2, Zenon
      <4> DEFINE n == Len(chars)
      <4>2. n \in Nat /\ n >= 2 /\ n # 2
        BY <4>1, Zenon
      <4> HIDE DEF n
      <4>3. n >= 3
        BY ONLY <4>2
      <4> QED BY <4>3, Zenon DEF n
    <3>5. Len(chars) = Len(below) + 2 /\ Len(below) \in Nat /\ Len(below) # 0
      BY <1>2, <1>3, <3>4
    <3>6. below # <<>>
      BY <3>5, EmptySeq
    <3>7. \A i \in 1 .. Len(below) : below[i] = chars[i + 2]
      <4>1. \A i \in 1 .. Len(below) : i \in 1 .. Len(chars) - 3 + 1 /\ 3 + i - 1 = i + 2
        BY <3>5
      <4> QED BY <1>3, <4>1
    <3>8. PlainHomeSegments(below) /\ ToSet(Parts(below, Separators)) \cap DotNames = {}
      BY <3>2, <3>3, <3>6, Zenon
    <3> HIDE DEF below
    <3>9. /\ rest \in Seq(Characters) /\ rest # <<>> /\ NamesOnly(os, segments)
          /\ \A segment \in ToSet(segments) : segment \notin {<<>>} \cup DotNames /\ OnlyNames(os, segment)
      BY <1>3, <3>6, <3>8, HomeSegments
    <3> HIDE DEF rest
    <3>10. ~bad
      BY <1>7, <3>2, <3>9, Zenon
    <3>11. fold = Slashed(os, rest, Len(rest) + 1)
      BY <3>9, PlaceIs, Zenon DEF fold
    <3> HIDE DEF bad
    <3>12. ExpandPath(os, home, chars) = Slashed(os, rest, Len(rest) + 1)
      BY <1>1, <1>7, <3>9, <3>10, <3>11, Zenon
    <3> QED BY <1>3, <1>7, <3>2, <3>5, <3>6, <3>7, <3>8, <3>12, Zenon DEF rest, below
  <2> QED BY <2>3, <2>4, <2>5
<1> QED BY <1>5, <1>6, <1>7

(* Where everything is dropped nothing is left.                             *)
LEMMA DroppingAll ==
    ASSUME NEW T, NEW seq \in Seq(T), NEW dropped, \A i \in 1 .. Len(seq) : seq[i] \in dropped
    PROVE  Dropping(seq, dropped) = <<>>
<1> DEFINE d == Dropping(seq, dropped)
           U == {e \in T : e \notin dropped}
<1>1. \A e \in ToSet(d) : e \in ToSet(seq) /\ e \notin dropped
  BY DroppingSet
<1>2. \A e \in ToSet(seq) : e \in dropped
  <2>1. DOMAIN seq = 1 .. Len(seq)
    BY LenProperties
  <2> QED BY <2>1 DEF ToSet
<1>3. d \in Seq(U)
  BY DroppingType
<1> HIDE DEF d, U
<1>4. d # <<>> => 1 \in DOMAIN d
  BY <1>3, LenProperties, EmptySeq
<1>5. 1 \in DOMAIN d => d[1] \in ToSet(d)
  BY DEF ToSet
<1> QED BY <1>1, <1>2, <1>4, <1>5 DEF d

(* What a prompt shows of a path and what the system reads agree.           *)
Shown(os, chars, path) ==
    LET read == Reads(os, path)
    IN  /\ chars[1] = "~" =>
              /\ read.root = "home"
              /\ read.steps = Dropping(Parts(Tail(chars), SeparatorsOf(os)), {<<>>})
        /\ <<".", ".">> \notin ToSet(read.steps)
        /\ read.root = "here" => os = "unix" /\ StartsWithDrive(chars)
        /\ read.root # "share"

(* A path that begins with the home directory is rooted there.              *)
LEMMA HomeRoot ==
    ASSUME NEW os, NEW path, path # <<>>, path[1] = "home"
    PROVE  RootOf(os, path) = "home" /\ AfterRoot(os, path) = Tail(path)
<1>1. path[1] \notin SeparatorsOf(os) /\ ~StartsWithDrive(path)
  BY DEF SeparatorsOf, Separators, StartsWithDrive, DriveLetters
<1>2. RootOf(os, path) = "home"
  BY <1>1, Zenon DEF RootOf
<1> QED BY <1>2, Zenon DEF AfterRoot

(* The home directory itself.                                               *)
LEMMA HomeItself ==
    ASSUME NEW os, NEW chars \in {<<"~">>, <<"~", "/">>}
    PROVE  Shown(os, chars, <<"home">>)
<1> DEFINE S == SeparatorsOf(os)
           T == {"/"}
<1>1. Parts(<<>>, S) = <<<<>>>>
  <2>1. <<>> \in Seq(T) /\ Len(<<>>) = 0
    BY EmptySeq
  <2>2. \A i \in 1 .. Len(<<>>) : <<>>[i] \notin S
    BY <2>1
  <2> HIDE DEF S, T
  <2> QED BY <2>1, <2>2, PartsOne, Zenon
<1>2. Parts(<<"/">>, S) = Append(<<<<>>>>, <<>>)
  <2> DEFINE e == <<>>
  <2>1. e \in Seq(T) /\ "/" \in T /\ "/" \in S /\ e \o <<"/">> = <<"/">>
    BY SystemSeparators
  <2> HIDE DEF e, S, T
  <2>3. Parts(e \o <<"/">>, S) = Append(Parts(e, S), <<>>)
    BY <2>1, PartsMore, Zenon
  <2> QED BY <1>1, <2>1, <2>3, Zenon DEF e
<1>3. \A D : <<>> \in D => Dropping(<<<<>>>>, D) = <<>> /\ Dropping(Append(<<<<>>>>, <<>>), D) = <<>>
  <2> TAKE D
  <2> SUFFICES ASSUME <<>> \in D
               PROVE  Dropping(<<<<>>>>, D) = <<>> /\ Dropping(Append(<<<<>>>>, <<>>), D) = <<>>
    OBVIOUS
  <2> DEFINE e == <<>>
             one == <<e>>
             U == {e}
  <2>1. one \in Seq(U) /\ (\A i \in 1 .. Len(one) : one[i] \in D) /\ e \in U /\ e \in D
    OBVIOUS
  <2> HIDE DEF one, U, e
  <2>2. Dropping(one, D) = <<>>
    BY <2>1, DroppingAll
  <2>3. Dropping(Append(one, e), D) = Dropping(one, D)
    BY <2>1, DroppingLast
  <2> QED BY <2>2, <2>3, Zenon DEF one, e
<1>4. Tail(<<"home">>) = <<>> /\ Tail(<<"~">>) = <<>> /\ Tail(<<"~", "/">>) = <<"/">>
  OBVIOUS
<1>5. RootOf(os, <<"home">>) = "home" /\ AfterRoot(os, <<"home">>) = Tail(<<"home">>)
  <2>1. <<"home">> # <<>> /\ <<"home">>[1] = "home"
    OBVIOUS
  <2> QED BY <2>1, HomeRoot
<1> DEFINE read == Reads(os, <<"home">>)
<1>6. read.root = "home" /\ read.steps = <<>>
  <2>1. <<>> \in {<<>>, <<".">>}
    OBVIOUS
  <2>2. Dropping(Parts(AfterRoot(os, <<"home">>), S), {<<>>, <<".">>}) = <<>>
    BY <1>1, <1>3, <1>4, <1>5, <2>1, Zenon
  <2> QED BY <1>5, <2>2 DEF Reads
<1>7. Dropping(Parts(Tail(chars), S), {<<>>}) = <<>>
  <2>1. <<>> \in {<<>>}
    OBVIOUS
  <2>2. CASE chars = <<"~">>
    BY <1>1, <1>3, <1>4, <2>1, <2>2, Zenon
  <2>3. CASE chars = <<"~", "/">>
    BY <1>2, <1>3, <1>4, <2>1, <2>3, Zenon
  <2> QED BY <2>2, <2>3, Zenon
<1>8. <<".", ".">> \notin ToSet(<<>>)
  BY DEF ToSet
<1>9. "home" # "here" /\ "home" # "share"
  OBVIOUS
<1> HIDE DEF read
<1> QED BY <1>6, <1>7, <1>8, <1>9, Zenon DEF Shown, read

(* A directory below it: its steps are the segments of the text.            *)
LEMMA HomeBelow ==
    ASSUME NEW chars \in Seq(Characters), chars # <<>>, chars[1] = "~", chars[2] = "/",
           NEW below \in Seq(Characters), Len(chars) = Len(below) + 2,
           \A i \in 1 .. Len(below) : below[i] = chars[i + 2],
           ToSet(Parts(below, Separators)) \cap DotNames = {},
           NEW os, NEW rest, rest = WithoutTrailing(below, {"/"})
    PROVE  Shown(os, chars, Slashed(os, rest, Len(rest) + 1))
<1> DEFINE S == SeparatorsOf(os)
           m == Len(rest) + 1
           path == Slashed(os, rest, m)
           u == Tail(path)
           v == <<"/">> \o rest
           z == Tail(chars)
           Ch == Characters \cup {"home"}
<1>1. /\ rest \in Seq(Characters) /\ Len(rest) \in Nat
      /\ \A i \in 1 .. Len(rest) : rest[i] = below[i]
      /\ rest = below \/ (below = rest \o <<"/">> /\ Len(below) = Len(rest) + 1 /\ below[Len(below)] = "/")
  <2>1. Rests(below, rest, WithoutTrailing(below, Separators))
    BY RestIs, Zenon
  <2> QED BY <2>1, Zenon DEF Rests
<1>2. "/" \in Characters /\ "/" \in S /\ "/" \in Separators /\ S \in SUBSET Separators /\ Slash(os) \in S
  BY CharactersAssumption, SystemSeparators, SlashIs DEF Separators
<1>3. /\ path \in Seq(Ch) /\ Len(path) = m + 1
      /\ \A i \in 1 .. m + 1 : path[i] = IF i = 1 THEN "home"
                                         ELSE IF i = 2 \/ rest[i - 2] = "/" THEN Slash(os) ELSE rest[i - 2]
  <2>1. m \in 0 .. Len(rest) + 1 /\ rest \in Seq(Characters)
    BY <1>1
  <2> HIDE DEF m
  <2>2. SlashedAs(os, rest, m, path)
    BY <2>1, SlashedIs, Zenon
  <2> QED BY <2>2, Zenon DEF SlashedAs
<1> HIDE DEF path, S
<1>4. m \in Nat /\ m >= 1 /\ Len(path) # 0
  BY <1>1, <1>3
<1>5. path # <<>> /\ path[1] = "home"
  <2>1. 1 \in 1 .. m + 1
    BY <1>4
  <2> QED BY <1>3, <1>4, <2>1, EmptySeq
<1> HIDE DEF m
<1>6. /\ u \in Seq(Ch) /\ Len(u) = m
      /\ \A i \in 1 .. m : u[i] = IF i = 1 \/ rest[i - 1] = "/" THEN Slash(os) ELSE rest[i - 1]
  <2>1. u \in Seq(Ch) /\ Len(u) = Len(path) - 1 /\ \A i \in 1 .. Len(u) : u[i] = path[i + 1]
    <3>1. path \in Seq(Ch) /\ path # <<>>
      BY <1>3, <1>5, Zenon
    <3> HIDE DEF Ch
    <3> QED BY ONLY <3>1, HeadTailProperties
  <2> HIDE DEF u
  <2>2. Len(u) = m
    BY <1>3, <1>4, <2>1
  <2>3. ASSUME NEW i \in 1 .. m PROVE u[i] = IF i = 1 \/ rest[i - 1] = "/" THEN Slash(os) ELSE rest[i - 1]
    <3>1. i + 1 \in 1 .. m + 1 /\ i + 1 # 1 /\ (i + 1 = 2 <=> i = 1) /\ (i + 1) - 2 = i - 1
      BY <1>4
    <3>2. u[i] = path[i + 1]
      BY <2>1, <2>2
    <3> QED BY <1>3, <3>1, <3>2, Zenon
  <2> QED BY <2>1, <2>2, <2>3
<1>7. /\ v \in Seq(Characters) /\ Len(v) = m /\ v[1] = "/"
      /\ \A i \in 1 .. m : i # 1 => v[i] = rest[i - 1]
  <2>1. <<"/">> \in Seq(Characters) /\ Len(<<"/">>) = 1 /\ <<"/">>[1] = "/"
    BY <1>2
  <2>2. /\ v \in Seq(Characters) /\ Len(v) = 1 + Len(rest)
        /\ \A i \in 1 .. 1 + Len(rest) : v[i] = IF i <= 1 THEN <<"/">>[i] ELSE rest[i - 1]
    BY <1>1, <2>1, ConcatProperties
  <2> HIDE DEF v
  <2>3. Len(v) = m /\ 1 + Len(rest) = m /\ 1 \in 1 .. m /\ 1 <= 1
    BY <1>1, <1>4, <2>2 DEF m
  <2>4. v[1] = "/"
    BY <2>1, <2>2, <2>3
  <2>5. \A i \in 1 .. m : i # 1 => ~(i <= 1)
    BY <1>4
  <2> QED BY <2>2, <2>3, <2>4, <2>5
<1>8. Parts(u, S) = Parts(v, S)
  <2> HIDE DEF u, v, Ch
  <2>1. v \in Seq(Ch)
    <3>1. Characters \subseteq Ch
      BY DEF Ch
    <3> QED BY <1>7, <3>1, SeqMonotonic
  <2>2. \A i \in 1 .. Len(u) : u[i] = v[i] \/ (u[i] \in S /\ v[i] \in S)
    <3> TAKE i \in 1 .. Len(u)
    <3>1. i \in 1 .. m
      BY <1>6
    <3>2. CASE i = 1
      BY <1>2, <1>6, <1>7, <3>1, <3>2, Zenon
    <3>3. CASE i # 1 /\ rest[i - 1] = "/"
      BY <1>2, <1>6, <1>7, <3>1, <3>3, Zenon
    <3>4. CASE i # 1 /\ rest[i - 1] # "/"
      BY <1>2, <1>6, <1>7, <3>1, <3>4, Zenon
    <3> QED BY <3>2, <3>3, <3>4, Zenon
  <2>3. Len(u) = Len(v)
    BY <1>6, <1>7
  <2> QED BY <1>6, <2>1, <2>2, <2>3, SameParts
<1> DEFINE P == Parts(v, S)
<1>9. P \in Seq(Seq(Characters))
  <2> HIDE DEF v
  <2> QED BY <1>7, PartsFacts
<1>10. \A w \in ToSet(P) : w \notin DotNames
  <2> SUFFICES ASSUME NEW w \in ToSet(P), w \in DotNames PROVE FALSE
    OBVIOUS
  <2> HIDE DEF v
  <2>1. Len(v) = m /\ 1 \in 1 .. Len(v)
    BY <1>4, <1>7
  <2>2. \A i \in 1 .. 1 : v[i] # "."
    <3>1. \A i \in 1 .. 1 : i = 1
      OBVIOUS
    <3>2. v[1] # "."
      BY <1>7
    <3> QED BY <3>1, <3>2, Zenon
  <2>3. \A i \in 1 .. Len(v) : i > 1 => v[i] = below[i - 1]
    <3> SUFFICES ASSUME NEW i \in 1 .. Len(v), i > 1 PROVE v[i] = below[i - 1]
      OBVIOUS
    <3>1. i \in 1 .. m /\ i # 1 /\ i - 1 \in 1 .. Len(rest)
      BY <1>1, <2>1 DEF m
    <3> QED BY <1>1, <1>7, <3>1, Zenon
  <2>4. Len(below) = Len(v) - 1 \/ (Len(below) = Len(v) - 1 + 1 /\ below[Len(below)] \in Separators)
    <3>1. Len(v) - 1 = Len(rest)
      BY <1>1, <2>1 DEF m
    <3>2. CASE rest = below
      BY <3>1, <3>2
    <3>3. CASE Len(below) = Len(rest) + 1 /\ below[Len(below)] = "/"
      BY <1>2, <3>1, <3>3
    <3> QED BY <1>1, <3>2, <3>3, Zenon
  <2>5. w \in ToSet(Parts(below, Separators))
    BY ONLY <1>2, <1>7, <2>1, <2>2, <2>3, <2>4, w \in ToSet(P), w \in DotNames, below \in Seq(Characters),
            DotsAfterRoot
  <2> QED BY <2>5
<1> HIDE DEF P
<1>11. Parts(z, S) = P \/ Parts(z, S) = Append(P, <<>>)
  <2>1. z \in Seq(Characters) /\ Len(z) = Len(below) + 1 /\ \A i \in 1 .. Len(z) : z[i] = chars[i + 1]
    <3>1. Len(below) \in Nat
      BY LenProperties
    <3>2. z \in Seq(Characters) /\ Len(z) = Len(chars) - 1 /\ \A i \in 1 .. Len(z) : z[i] = chars[i + 1]
      BY HeadTailProperties
    <3> HIDE DEF z
    <3> QED BY <3>1, <3>2
  <2> DEFINE y == <<"/">> \o below
  <2>2. y \in Seq(Characters) /\ Len(y) = Len(below) + 1 /\ \A i \in 1 .. Len(y) : y[i] = chars[i + 1]
    <3>1. <<"/">> \in Seq(Characters) /\ Len(<<"/">>) = 1 /\ <<"/">>[1] = "/" /\ Len(below) \in Nat
      BY <1>2, LenProperties
    <3>2. /\ y \in Seq(Characters) /\ Len(y) = 1 + Len(below)
          /\ \A i \in 1 .. 1 + Len(below) : y[i] = IF i <= 1 THEN <<"/">>[i] ELSE below[i - 1]
      BY <3>1, ConcatProperties
    <3> HIDE DEF y
    <3>3. Len(y) = Len(below) + 1
      BY <3>1, <3>2
    <3>4. ASSUME NEW i \in 1 .. Len(y) PROVE y[i] = chars[i + 1]
      <4>1. i \in 1 .. 1 + Len(below)
        BY <3>1, <3>3
      <4>2. CASE i = 1
        <5>1. i <= 1 /\ i + 1 = 2
          BY <4>2
        <5> QED BY <3>1, <3>2, <4>1, <4>2, <5>1, Zenon
      <4>3. CASE i # 1
        <5>1. ~(i <= 1) /\ i - 1 \in 1 .. Len(below) /\ (i - 1) + 2 = i + 1
          BY <3>1, <4>1, <4>3
        <5>2. y[i] = below[i - 1]
          BY <3>2, <4>1, <5>1, Zenon
        <5>3. below[i - 1] = chars[(i - 1) + 2]
          BY <5>1
        <5> QED BY <5>1, <5>2, <5>3, Zenon
      <4> QED BY <4>2, <4>3
    <3> QED BY <3>2, <3>3, <3>4
  <2> HIDE DEF y, z, v
  <2>3. z = y
    <3>1. \A i \in 1 .. Len(z) : z[i] = y[i]
      BY <2>1, <2>2, Zenon
    <3> QED BY <2>1, <2>2, <3>1, SeqEqual
  <2>4. CASE rest = below
    BY <2>3, <2>4, Zenon DEF y, v, P
  <2>5. CASE below = rest \o <<"/">>
    <3>1. <<"/">> \in Seq(Characters)
      BY <1>2
    <3>2. (<<"/">> \o rest) \o <<"/">> = <<"/">> \o (rest \o <<"/">>)
      BY <1>1, <3>1, ConcatAssociative
    <3>3. z = v \o <<"/">>
      BY <2>3, <2>5, <3>2, Zenon DEF y, v
    <3>4. Parts(v \o <<"/">>, S) = Append(Parts(v, S), <<>>)
      BY ONLY <1>2, <1>7, PartsMore
    <3> QED BY <3>3, <3>4, Zenon DEF P
  <2> QED BY <1>1, <2>4, <2>5, Zenon
<1>12. Dropping(Parts(z, S), {<<>>}) = Dropping(P, {<<>>})
  <2> DEFINE e == <<>>
  <2>1. e \in Seq(Characters)
    BY EmptySeq
  <2> HIDE DEF e
  <2>2. e \in {e}
    OBVIOUS
  <2>3. Dropping(Append(P, e), {e}) = Dropping(P, {e})
    BY <1>9, <2>1, <2>2, DroppingLast
  <2> QED BY <1>11, <2>3, Zenon DEF e
<1>13. Dropping(P, {<<>>, <<".">>}) = Dropping(P, {<<>>})
  <2>1. <<".">> \notin ToSet(P)
    BY <1>10 DEF DotNames
  <2>2. \A e \in ToSet(P) : e \in {<<>>, <<".">>} <=> e \in {<<>>}
    <3> DEFINE none == <<>>
               dot == <<".">>
    <3>1. dot \notin ToSet(P)
      BY <2>1
    <3> HIDE DEF none, dot
    <3>2. \A e \in ToSet(P) : e \in {none, dot} <=> e \in {none}
      BY <3>1
    <3> QED BY <3>2 DEF none, dot
  <2> QED BY <2>2, DroppingSame, Zenon
<1>14. RootOf(os, path) = "home" /\ AfterRoot(os, path) = u
  BY <1>5, HomeRoot
<1> DEFINE read == Reads(os, path)
<1>15. read.root = "home" /\ read.steps = Dropping(P, {<<>>, <<".">>})
  <2> HIDE DEF u, v
  <2>1. Reads(os, path) = [root |-> "home", steps |-> Dropping(P, {<<>>, <<".">>})]
    BY <1>8, <1>14, Zenon DEF Reads, P, S
  <2> QED BY <2>1
<1>16. <<".", ".">> \notin ToSet(Dropping(P, {<<>>, <<".">>}))
  <2>1. \A e \in ToSet(Dropping(P, {<<>>, <<".">>})) : e \in ToSet(P)
    BY <1>9, DroppingSet, Zenon
  <2>2. <<".", ".">> \in DotNames
    BY DEF DotNames
  <2> QED BY <1>10, <2>1, <2>2, Zenon
<1>17. "home" # "here" /\ "home" # "share"
  OBVIOUS
<1> HIDE DEF read, z
<1>18. Shown(os, chars, path)
  BY <1>12, <1>13, <1>15, <1>16, <1>17, Zenon DEF Shown, read, z, S
<1> QED BY <1>18 DEF path, m

(* A path that does not begin with `~` is passed on as it is.               *)
LEMMA OtherPath ==
    ASSUME NEW chars \in Seq(Characters), chars # <<>>, chars[1] # "~", ValidPathTarget(chars),
           NEW os \in {"unix", "windows"}
    PROVE  Shown(os, chars, chars)
<1> DEFINE S == SeparatorsOf(os)
           pre == AbsolutePrefix(chars)
           below == SubSeq(chars, pre + 1, Len(chars))
           after == AfterRoot(os, chars)
           read == Reads(os, chars)
<1>1. Len(chars) \in Nat \ {0} /\ \A i \in 1 .. Len(chars) : chars[i] \in Characters
  BY EmptySeq, ElementOfSeq
<1>2. /\ ~IsNetworkPath(chars)
      /\ \/ chars[1] = "/" /\ pre = 1
         \/ StartsWithDrive(chars) /\ Len(chars) >= 3 /\ chars[3] \in Separators /\ pre = 3
      /\ ToSet(Parts(below, Separators)) \cap DotNames = {}
  BY ValidPath, Zenon
<1> HIDE DEF pre, below
<1>3. chars[1] # "home"
  <2>1. chars[1] \in Characters
    BY <1>1
  <2> QED BY <2>1, CharactersAssumption
<1>4. ASSUME NEW p \in 1 .. Len(chars), p = pre, NEW k \in 0 .. p - 1,
             NEW s \in Seq(Characters), Len(s) = Len(chars) - k,
             \A i \in 1 .. Len(s) : s[i] = chars[i + k],
             \A i \in 1 .. p : chars[i] # "."
      PROVE  \A w \in ToSet(Parts(s, S)) : w \notin DotNames
  <2>1. /\ below \in Seq(Characters) /\ Len(below) = Len(chars) - p
        /\ \A i \in 1 .. Len(below) : below[i] = chars[p + i]
    <3>1. p + 1 \in Int /\ Len(chars) \in Int /\ \A i \in (p + 1) .. Len(chars) : chars[i] \in Characters
      BY <1>1
    <3>2. /\ below \in Seq(Characters)
          /\ Len(below) = IF p + 1 <= Len(chars) THEN Len(chars) - (p + 1) + 1 ELSE 0
          /\ \A i \in 1 .. Len(chars) - (p + 1) + 1 : below[i] = chars[(p + 1) + i - 1]
      BY <1>4, <3>1, SubSeqProperties DEF below
    <3>3. Len(below) = Len(chars) - p /\ Len(chars) - (p + 1) + 1 = Len(chars) - p
      BY <1>1, <3>2
    <3>4. \A i \in 1 .. Len(below) : (p + 1) + i - 1 = p + i
      BY <3>3
    <3> QED BY <3>2, <3>3, <3>4, Zenon
  <2>2. p - k \in 1 .. Len(s)
    BY <1>1, <1>4
  <2>3. \A i \in 1 .. p - k : s[i] # "."
    <3> TAKE i \in 1 .. p - k
    <3>1. i + k \in 1 .. p /\ i \in 1 .. Len(s)
      BY <1>1, <1>4, <2>2
    <3> QED BY <1>4, <3>1, Zenon
  <2>4. \A i \in 1 .. Len(s) : i > p - k => s[i] = below[i - (p - k)]
    <3> SUFFICES ASSUME NEW i \in 1 .. Len(s), i > p - k PROVE s[i] = below[i - (p - k)]
      OBVIOUS
    <3>1. i - (p - k) \in 1 .. Len(below) /\ p + (i - (p - k)) = i + k
      BY <1>1, <1>4, <2>1
    <3>2. below[i - (p - k)] = chars[p + (i - (p - k))]
      BY <2>1, <3>1, Zenon
    <3>3. s[i] = chars[i + k]
      BY <1>4, Zenon
    <3> QED BY <3>1, <3>2, <3>3
  <2>5. Len(below) = Len(s) - (p - k)
    BY <1>1, <1>4, <2>1
  <2>6. S \in SUBSET Separators
    BY SystemSeparators
  <2> SUFFICES ASSUME NEW w \in ToSet(Parts(s, S)), w \in DotNames PROVE FALSE
    OBVIOUS
  <2> DEFINE q == p - k
  <2>7. /\ q \in 1 .. Len(s) /\ \A i \in 1 .. q : s[i] # "."
        /\ \A i \in 1 .. Len(s) : i > q => s[i] = below[i - q]
        /\ Len(below) = Len(s) - q
    BY <2>2, <2>3, <2>4, <2>5
  <2> HIDE DEF q, S
  <2>8. w \in ToSet(Parts(below, Separators))
    BY ONLY <2>1, <2>6, <2>7, s \in Seq(Characters), w \in ToSet(Parts(s, S)), w \in DotNames, DotsAfterRoot
  <2> QED BY <1>2, <2>8
<1>5. /\ RootOf(os, chars) # "home" /\ RootOf(os, chars) # "share"
      /\ RootOf(os, chars) = "here" => os = "unix" /\ StartsWithDrive(chars)
      /\ RootOf(os, chars) = "drive" => StartsWithDrive(chars) /\ pre = 3 /\ Len(chars) >= 3
  <2>1. CASE chars[1] = "/" /\ pre = 1
    <3>1. chars[1] \in S /\ chars[1] \in Separators
      BY <2>1, SystemSeparators
    <3>2. ~(os = "windows" /\ Len(chars) > 1 /\ chars[2] \in Separators)
      <4>1. Len(chars) > 1 => Len(chars) >= 2
        BY <1>1
      <4> QED BY <1>2, <3>1, <4>1, Zenon DEF IsNetworkPath
    <3>3. ~StartsWithDrive(chars)
      BY <2>1 DEF StartsWithDrive, DriveLetters
    <3>4. RootOf(os, chars) = "root"
      BY <1>3, <3>1, <3>2, <3>3, Zenon DEF RootOf
    <3> QED BY <3>4
  <2>2. CASE StartsWithDrive(chars) /\ Len(chars) >= 3 /\ pre = 3
    <3>1. chars[1] \notin S
      BY <2>2 DEF StartsWithDrive, DriveLetters, SeparatorsOf, Separators
    <3>2. RootOf(os, chars) = IF os = "windows" THEN "drive" ELSE "here"
      BY <1>3, <2>2, <3>1, Zenon DEF RootOf
    <3> QED BY <2>2, <3>2
  <2> QED BY <1>2, <2>1, <2>2
<1>6. pre \in 1 .. Len(chars) /\ \A i \in 1 .. pre : chars[i] # "."
  <2>1. CASE chars[1] = "/" /\ pre = 1
    <3>1. \A i \in 1 .. 1 : i = 1
      OBVIOUS
    <3> QED BY <1>1, <2>1, <3>1
  <2>2. CASE StartsWithDrive(chars) /\ Len(chars) >= 3 /\ chars[3] \in Separators /\ pre = 3
    <3>1. chars[1] # "." /\ chars[2] # "." /\ chars[3] # "."
      BY <2>2 DEF StartsWithDrive, DriveLetters, Separators
    <3>2. \A i \in 1 .. 3 : i = 1 \/ i = 2 \/ i = 3
      OBVIOUS
    <3>3. 3 \in 1 .. Len(chars)
      BY <1>1, <2>2
    <3> QED BY <2>2, <3>1, <3>2, <3>3, Zenon
  <2> QED BY <1>2, <2>1, <2>2
<1> DEFINE P == Parts(after, S)
<1>7. P \in Seq(Seq(Characters)) /\ \A w \in ToSet(P) : w \notin DotNames
  <2>1. CASE RootOf(os, chars) # "drive"
    <3>1. after = chars
      BY <1>5, <2>1, Zenon DEF AfterRoot
    <3>2. /\ 0 \in 0 .. pre - 1 /\ Len(chars) = Len(chars) - 0
          /\ \A i \in 1 .. Len(chars) : chars[i] = chars[i + 0]
      BY <1>1, <1>6, SMTT(30)
    <3> HIDE DEF S
    <3>3. \A w \in ToSet(Parts(chars, S)) : w \notin DotNames
      BY <1>4, <1>6, <3>2
    <3> QED BY <3>1, <3>3, PartsFacts
  <2>2. CASE RootOf(os, chars) = "drive"
    <3>1. after = SubSeq(chars, 3, Len(chars))
      BY <2>2, Zenon DEF AfterRoot
    <3>2. pre = 3 /\ Len(chars) >= 3
      BY <1>5, <2>2
    <3>3. /\ after \in Seq(Characters)
          /\ Len(after) = IF 3 <= Len(chars) THEN Len(chars) - 3 + 1 ELSE 0
          /\ \A i \in 1 .. Len(chars) - 3 + 1 : after[i] = chars[3 + i - 1]
      <4>1. 3 \in Int /\ Len(chars) \in Int /\ \A i \in 3 .. Len(chars) : chars[i] \in Characters
        BY <1>1
      <4> QED BY <3>1, <4>1, SubSeqProperties
    <3> HIDE DEF after, S
    <3>4. 2 \in 0 .. pre - 1 /\ Len(after) = Len(chars) - 2 /\ \A i \in 1 .. Len(after) : after[i] = chars[i + 2]
      <4>1. 2 \in 0 .. pre - 1 /\ Len(after) = Len(chars) - 2 /\ Len(chars) - 3 + 1 = Len(chars) - 2
        BY <1>1, <3>2, <3>3
      <4>2. \A i \in 1 .. Len(after) : 3 + i - 1 = i + 2
        BY <1>1, <4>1
      <4> QED BY <3>3, <4>1, <4>2
    <3>5. \A w \in ToSet(Parts(after, S)) : w \notin DotNames
      BY <1>4, <1>6, <3>3, <3>4
    <3> QED BY <3>3, <3>5, PartsFacts
  <2> QED BY <2>1, <2>2
<1> HIDE DEF P, after, S
<1>8. read.root = RootOf(os, chars) /\ read.steps = Dropping(P, {<<>>, <<".">>})
  BY DEF Reads, P, after, S
<1>9. <<".", ".">> \notin ToSet(Dropping(P, {<<>>, <<".">>}))
  <2>1. \A e \in ToSet(Dropping(P, {<<>>, <<".">>})) : e \in ToSet(P)
    BY <1>7, DroppingSet, Zenon
  <2>2. <<".", ".">> \in DotNames
    BY DEF DotNames
  <2> QED BY <1>7, <2>1, <2>2, Zenon
<1> HIDE DEF read
<1> QED BY <1>5, <1>8, <1>9, Zenon DEF Shown, read

(* So a text that was let through leads where the prompt says, and only the *)
(* want of a home directory keeps it from leading anywhere.                 *)
LEMMA ExpansionShown ==
    ASSUME NEW chars \in Seq(Characters), chars # <<>>, ValidPathTarget(chars),
           NEW os \in {"unix", "windows"}, NEW home \in BOOLEAN
    PROVE  /\ ExpandPath(os, home, chars) # Error =>
                  /\ Shown(os, chars, ExpandPath(os, home, chars))
                  /\ ExpandPath(os, home, chars) \in Seq(Characters \cup {"home"})
           /\ ExpandPath(os, home, chars) = Error => ~home
<1> DEFINE below == SubSeq(chars, 3, Len(chars))
           rest == WithoutTrailing(below, {"/"})
           path == ExpandPath(os, home, chars)
<1>1. CASE chars[1] # "~"
  <2>1. path = chars
    BY <1>1, ExpansionIs, Zenon
  <2>2. chars # Error
    <3>1. chars \in Seq(Characters \cup {"home", "\""})
      <4>1. Characters \subseteq Characters \cup {"home", "\""}
        BY Zenon
      <4> QED BY <4>1, SeqMonotonic, Zenon
    <3> QED BY <3>1, CharactersAssumption, Zenon
  <2>3. Shown(os, chars, chars)
    BY <1>1, OtherPath
  <2>4. chars \in Seq(Characters \cup {"home"})
    <3>1. Characters \subseteq Characters \cup {"home"}
      BY Zenon
    <3> QED BY <3>1, SeqMonotonic, Zenon
  <2> QED BY <2>1, <2>2, <2>3, <2>4, Zenon
<1>2. CASE chars[1] = "~" /\ ~home
  <2>1. path = Error
    BY <1>2, ExpansionIs, Zenon
  <2> QED BY <1>2, <2>1, Zenon
<1>3. CASE chars[1] = "~" /\ home
  <2>1. \/ chars \in {<<"~">>, <<"~", "/">>} /\ path = <<"home">>
        \/ /\ path = Slashed(os, rest, Len(rest) + 1)
           /\ below \in Seq(Characters) /\ Len(chars) = Len(below) + 2
           /\ \A i \in 1 .. Len(below) : below[i] = chars[i + 2]
           /\ chars[2] = "/"
           /\ below # <<>> /\ PlainHomeSegments(below)
           /\ ToSet(Parts(below, Separators)) \cap DotNames = {}
    BY <1>3, ExpansionIs, Zenon
  <2>2. Shown(os, chars, path) /\ path \in Seq(Characters \cup {"home"})
    <3>1. CASE chars \in {<<"~">>, <<"~", "/">>} /\ path = <<"home">>
      <4>1. <<"home">> \in Seq(Characters \cup {"home"})
        OBVIOUS
      <4> QED BY <3>1, <4>1, HomeItself, Zenon
    <3>2. CASE /\ path = Slashed(os, rest, Len(rest) + 1)
               /\ below \in Seq(Characters) /\ Len(chars) = Len(below) + 2
               /\ \A i \in 1 .. Len(below) : below[i] = chars[i + 2]
               /\ chars[2] = "/"
               /\ below # <<>> /\ PlainHomeSegments(below)
               /\ ToSet(Parts(below, Separators)) \cap DotNames = {}
      <4> HIDE DEF below, path
      <4>1. Shown(os, chars, path)
        BY ONLY <1>3, <3>2, HomeBelow, chars \in Seq(Characters), chars # <<>>
      <4>2. Rests(below, rest, WithoutTrailing(below, Separators))
        BY <3>2, RestIs, Zenon
      <4>3. rest \in Seq(Characters) /\ Len(rest) \in Nat
        BY <4>2, Zenon DEF Rests
      <4> HIDE DEF rest
      <4>4. Len(rest) + 1 \in 0 .. Len(rest) + 1
        BY <4>3
      <4>5. SlashedAs(os, rest, Len(rest) + 1, path)
        BY <3>2, <4>3, <4>4, SlashedIs, Zenon
      <4> QED BY <4>1, <4>5, Zenon DEF SlashedAs
    <3> QED BY <2>1, <3>1, <3>2, Zenon
  <2> HIDE DEF path
  <2>3. path # Error
    <3>1. path \in Seq(Characters \cup {"home", "\""})
      <4>1. Characters \cup {"home"} \subseteq Characters \cup {"home", "\""}
        BY Zenon
      <4> QED BY <2>2, <4>1, SeqMonotonic, Zenon
    <3> QED BY <3>1, CharactersAssumption, Zenon
  <2> QED BY <2>2, <2>3, Zenon DEF path
<1> QED BY <1>1, <1>2, <1>3, Zenon

(* Sequences of one element each make the sequence of these elements.       *)
LEMMA FlattenSingles ==
    ASSUME NEW T, NEW s \in Seq(T)
    PROVE  FlattenSeq([k \in DOMAIN s |-> <<s[k]>>]) = s
<1> DEFINE seqs == [k \in DOMAIN s |-> <<s[k]>>]
           h == [k \in 1 .. Len(s) |-> k]
<1>1. Len(s) \in Nat /\ DOMAIN s = 1 .. Len(s) /\ \A k \in 1 .. Len(s) : s[k] \in T
  BY LenProperties, ElementOfSeq
<1>2. CASE s = <<>>
  <2>1. seqs = <<>>
    BY <1>2
  <2>2. Len(<<>>) = 0
    OBVIOUS
  <2>3. FlattenSeq(<<>>) = <<>>
    BY <2>2, Zenon DEF FlattenSeq
  <2> QED BY <1>2, <2>1, <2>3, Zenon
<1>3. CASE s # <<>>
  <2>1. \A k \in 1 .. Len(s) : seqs[k] = <<s[k]>> /\ <<s[k]>> \in Seq(T)
    BY <1>1
  <2>2. DOMAIN seqs = 1 .. Len(s)
    BY <1>1
  <2>3. seqs = [k \in 1 .. Len(s) |-> <<s[k]>>]
    BY <1>1
  <2>4. [k \in 1 .. Len(s) |-> <<s[k]>>] \in Seq(Seq(T)) /\ Len([k \in 1 .. Len(s) |-> <<s[k]>>]) = Len(s)
    BY <1>1, <2>1
  <2>5. seqs \in Seq(Seq(T)) /\ Len(seqs) = Len(s)
    BY <2>3, <2>4, Zenon
  <2>6. Len(s) >= 1
    BY <1>1, <1>3, EmptySeq
  <2>7. seqs # <<>>
    BY <2>5, <2>6, EmptySeq
  <2>8. \A k \in 1 .. Len(s) : h[k] = k
    OBVIOUS
  <2> HIDE DEF seqs, h
  <2>9. /\ h[1] = 1 /\ h[Len(seqs)] = Len(s) /\ seqs[1] = <<s[1]>>
        /\ \A k \in 1 .. Len(seqs) :
              /\ h[k] \in 0 .. Len(s)
              /\ k < Len(seqs) => h[k + 1] = h[k] + 1 /\ seqs[k + 1] = <<s[h[k] + 1]>>
    BY <1>1, <2>1, <2>5, <2>6, <2>8
  <2>10. h[1] \in 0 .. 1 /\ seqs[1] = IF h[1] = 0 THEN <<>> ELSE <<s[1]>>
    BY <2>9
  <2>11. FlattenSeq(seqs) = s
    BY ONLY <2>5, <2>7, <2>9, <2>10, s \in Seq(T), FlattenPicks
  <2> QED BY <2>11 DEF seqs
<1> QED BY <1>2, <1>3

(* One sequence alone.                                                      *)
LEMMA FlattenOne ==
    ASSUME NEW T, NEW s \in Seq(T)
    PROVE  FlattenSeq(<<s>>) = s
<1> DEFINE e == <<>>
<1>1. e \in Seq(Seq(T)) /\ Append(e, s) = <<s>> /\ Len(e) = 0
  OBVIOUS
<1>2. FlattenSeq(e) = e
  BY <1>1, Zenon DEF FlattenSeq
<1>3. e \o s = s
  OBVIOUS
<1> HIDE DEF e
<1>4. FlattenSeq(Append(e, s)) = FlattenSeq(e) \o s
  BY <1>1, FlattenMore
<1> QED BY <1>1, <1>2, <1>3, <1>4, Zenon

(* Filled for any placeholder m.                                            *)
Filling(part, m, target) ==
    FlattenSeq([i \in DOMAIN part |-> IF part[i] = m THEN target ELSE <<part[i]>>])

(* The substitution gives text, leaves a part without the placeholder as it *)
(* is, and makes the placeholder itself the target.                         *)
LEMMA FillingFacts ==
    ASSUME NEW T, NEW target \in Seq(T), NEW m
    PROVE  /\ Filling(<<m>>, m, target) = target
           /\ \A part \in Seq(T) :
                 /\ Filling(part, m, target) \in Seq(T)
                 /\ m \notin ToSet(part) => Filling(part, m, target) = part
<1>1. Filling(<<m>>, m, target) = target
  <2> DEFINE part == <<m>>
             seqs == [i \in DOMAIN part |-> IF part[i] = m THEN target ELSE <<part[i]>>]
  <2>1. seqs = <<target>>
    OBVIOUS
  <2>2. Filling(part, m, target) = FlattenSeq(seqs)
    BY Zenon DEF Filling
  <2> HIDE DEF seqs, part
  <2>3. FlattenSeq(<<target>>) = target
    BY FlattenOne
  <2> QED BY <2>1, <2>2, <2>3, Zenon DEF part
<1>2. ASSUME NEW part \in Seq(T)
      PROVE  /\ Filling(part, m, target) \in Seq(T)
             /\ m \notin ToSet(part) => Filling(part, m, target) = part
  <2> DEFINE seqs == [i \in DOMAIN part |-> IF part[i] = m THEN target ELSE <<part[i]>>]
             U == Seq(T)
  <2>1. Len(part) \in Nat /\ DOMAIN part = 1 .. Len(part) /\ \A k \in 1 .. Len(part) : part[k] \in T
    BY LenProperties, ElementOfSeq
  <2>2. \A i \in 1 .. Len(part) : (IF part[i] = m THEN target ELSE <<part[i]>>) \in U
    BY <2>1
  <2> HIDE DEF U
  <2>3. seqs \in [1 .. Len(part) -> U]
    BY <2>1, <2>2
  <2>4. seqs \in Seq(U)
    <3> HIDE DEF seqs
    <3> QED BY <2>1, <2>3, FunctionIsSeq
  <2>5. Filling(part, m, target) = FlattenSeq(seqs)
    BY Zenon DEF Filling
  <2>6. FlattenSeq(seqs) \in Seq(T)
    <3> HIDE DEF seqs
    <3> QED BY <2>4, FlattenType DEF U
  <2>7. ASSUME m \notin ToSet(part) PROVE FlattenSeq(seqs) = part
    <3>1. \A i \in DOMAIN part : part[i] # m
      BY <2>7 DEF ToSet
    <3>2. seqs = [k \in DOMAIN part |-> <<part[k]>>]
      BY <3>1
    <3>3. FlattenSeq([k \in DOMAIN part |-> <<part[k]>>]) = part
      BY FlattenSingles
    <3> HIDE DEF seqs
    <3> QED BY <3>2, <3>3, Zenon
  <2> HIDE DEF seqs
  <2> QED BY <2>5, <2>6, <2>7, Zenon
<1> QED BY <1>1, <1>2, Zenon

-----------------------------------------------------------------------------
(* Explorer. A text without quotes in one pair of them: every place but the *)
(* last, where the closing one stands, has one quote up to it.              *)
LEMMA InQuotes ==
    ASSUME NEW T, NEW s \in Seq(T), NEW q \in T, \A i \in 1 .. Len(s) : s[i] # q
    PROVE  LET t == <<q>> \o s \o <<q>>
           IN  /\ t \in Seq(T) /\ Len(t) = Len(s) + 2 /\ t[1] = q /\ t[Len(s) + 2] = q
               /\ \A i \in 1 .. Len(s) : t[i + 1] = s[i]
               /\ \A i \in 1 .. Len(s) + 1 : Cardinality({j \in 1 .. i : t[j] = q}) = 1
<1> DEFINE t == <<q>> \o s \o <<q>>
<1>1. /\ Len(s) \in Nat /\ t \in Seq(T) /\ Len(t) = Len(s) + 2 /\ t[1] = q /\ t[Len(s) + 2] = q
      /\ \A i \in 1 .. Len(s) : t[i + 1] = s[i]
  <2>1. Len(s) \in Nat
    BY LenProperties
  <2>2. <<q>> \in Seq(T) /\ Len(<<q>>) = 1 /\ <<q>>[1] = q
    OBVIOUS
  <2> DEFINE one == <<q>>
             qs == one \o s
  <2> HIDE DEF one
  <2>3. /\ qs \in Seq(T) /\ Len(qs) = 1 + Len(s) /\ qs[1] = q
        /\ \A i \in 1 .. Len(s) : qs[i + 1] = s[i]
    BY <2>1, <2>2, ConcatProperties DEF one
  <2> HIDE DEF qs
  <2>4. /\ qs \o one \in Seq(T) /\ Len(qs \o one) = 1 + Len(s) + 1 /\ (qs \o one)[Len(s) + 2] = q
        /\ \A i \in 1 .. Len(s) + 1 : (qs \o one)[i] = qs[i]
    BY <2>1, <2>2, <2>3, ConcatProperties DEF one
  <2>5. t = qs \o one
    BY Zenon DEF qs, one
  <2> HIDE DEF t
  <2> QED BY <2>1, <2>3, <2>4, <2>5
<1> HIDE DEF t
<1>2. ASSUME NEW i \in 1 .. Len(s) + 1 PROVE Cardinality({j \in 1 .. i : t[j] = q}) = 1
  <2>1. 1 \in 1 .. i
    BY <1>1
  <2>2. \A j \in 1 .. i : j = 1 \/ (j - 1 \in 1 .. Len(s) /\ (j - 1) + 1 = j)
    BY <1>1
  <2>3. \A j \in 1 .. i : t[j] = q <=> j = 1
    <3> TAKE j \in 1 .. i
    <3>1. CASE j = 1
      BY <1>1, <3>1
    <3>2. CASE j - 1 \in 1 .. Len(s) /\ (j - 1) + 1 = j
      <4>1. t[(j - 1) + 1] = s[j - 1] /\ s[j - 1] # q /\ j # 1
        BY <1>1, <3>2
      <4> QED BY <3>2, <4>1
    <3> QED BY <2>2, <3>1, <3>2, Zenon
  <2>4. {j \in 1 .. i : t[j] = q} = {1}
    BY <2>1, <2>3
  <2> QED BY <2>4, FS_Singleton
<1> QED BY <1>1, <1>2 DEF t

(* Without its quotes it is the text again.                                 *)
LEMMA OutOfQuotes ==
    ASSUME NEW T, NEW s \in Seq(T), NEW q \in T, \A i \in 1 .. Len(s) : s[i] # q
    PROVE  Dropping(<<q>> \o s \o <<q>>, {q}) = s
<1> DEFINE t == <<q>> \o s \o <<q>>
           f == Kept(t, {q})
           n == Len(s)
           h == [k \in 1 .. n + 2 |-> IF k = n + 2 THEN n ELSE k - 1]
<1>1. /\ t \in Seq(T) /\ Len(t) = n + 2 /\ t[1] = q /\ t[n + 2] = q
      /\ \A i \in 1 .. n : t[i + 1] = s[i]
  BY InQuotes
<1>2. n \in Nat /\ \A i \in 1 .. n : s[i] \in T
  BY LenProperties, ElementOfSeq
<1> HIDE DEF t
<1>3. /\ f \in Seq(Seq({e \in T : e \notin {q}})) /\ Len(f) = n + 2
      /\ \A i \in 1 .. n + 2 : f[i] = IF t[i] \in {q} THEN <<>> ELSE <<t[i]>>
  <2>1. /\ f \in Seq(Seq({e \in T : e \notin {q}})) /\ Len(f) = Len(t)
        /\ \A i \in 1 .. Len(t) : f[i] = IF t[i] \in {q} THEN <<>> ELSE <<t[i]>>
    <3>1. t \in Seq(T)
      BY <1>1
    <3> DEFINE d == {q}
    <3> HIDE DEF d
    <3>2. /\ Kept(t, d) \in Seq(Seq({e \in T : e \notin d})) /\ Len(Kept(t, d)) = Len(t)
          /\ \A i \in 1 .. Len(t) : Kept(t, d)[i] = IF t[i] \in d THEN <<>> ELSE <<t[i]>>
      BY ONLY <3>1, KeptFacts, SMTT(20)
    <3> QED BY <3>2, Zenon DEF d
  <2> QED BY <1>1, <2>1
<1> HIDE DEF f
<1> DEFINE U == {e \in T : e \notin {q}}
<1>4. s \in Seq(U)
  <2>1. \A i \in 1 .. n : s[i] \in U
    BY <1>2
  <2>2. s \in [1 .. n -> U]
    BY <1>2, <2>1, LenProperties
  <2> QED BY <1>2, <2>2, FunctionIsSeq
<1> HIDE DEF U
<1>5. h[1] = 0 /\ h[n + 2] = n /\ \A k \in 1 .. n + 1 : h[k] = k - 1
  BY <1>2
<1>6. /\ f[1] = <<>> /\ f[n + 2] = <<>>
      /\ \A k \in 1 .. n : f[k + 1] = <<s[k]>>
  <2>1. \A k \in 1 .. n : k + 1 \in 1 .. n + 2
    BY <1>2
  <2>2. 1 \in 1 .. n + 2 /\ n + 2 \in 1 .. n + 2
    BY <1>2
  <2> QED BY <1>1, <1>3, <2>1, <2>2
<1> HIDE DEF h, n
<1>7. \A k \in 1 .. n + 2 :
         /\ h[k] \in 0 .. n
         /\ k < n + 2 => \/ h[k + 1] = h[k] /\ f[k + 1] = <<>>
                         \/ h[k + 1] = h[k] + 1 /\ f[k + 1] = <<s[h[k] + 1]>>
  <2> TAKE k \in 1 .. n + 2
  <2>1. CASE k = n + 2
    BY <1>2, <1>5, <2>1
  <2>2. CASE k = n + 1
    BY <1>2, <1>5, <1>6, <2>2
  <2>3. CASE k \in 1 .. n
    BY <1>2, <1>5, <1>6, <2>3
  <2> QED BY <1>2, <2>1, <2>2, <2>3
<1>8. f # <<>>
  BY <1>2, <1>3, EmptySeq
<1>9. h[1] \in 0 .. 1 /\ f[1] = IF h[1] = 0 THEN <<>> ELSE <<s[1]>>
  BY <1>5, <1>6
<1>10. n = Len(s) /\ n + 2 = Len(f)
  BY <1>3 DEF n
<1>11. FlattenSeq(f) = s
  <2>1. f \in Seq(Seq(U))
    BY <1>3 DEF U
  <2>2. \A k \in 1 .. Len(f) :
           /\ h[k] \in 0 .. Len(s)
           /\ k < Len(f) => \/ h[k + 1] = h[k] /\ f[k + 1] = <<>>
                            \/ h[k + 1] = h[k] + 1 /\ f[k + 1] = <<s[h[k] + 1]>>
    BY <1>7, <1>10, Zenon
  <2>3. h[Len(f)] = Len(s)
    BY <1>5, <1>10, Zenon
  <2> QED BY ONLY <1>4, <1>8, <1>9, <2>1, <2>2, <2>3, FlattenPicks
<1> QED BY <1>11, Zenon DEF Dropping, Kept, f, t

(* How Explorer splits an argument, for any quote q, comma c and mark x.    *)
Quoted(s, q) == <<q>> \o s \o <<q>>
Marked(s, q, c, x) ==
    [i \in DOMAIN s |->
        IF s[i] = c /\ ~(Cardinality({j \in 1 .. i : s[j] = q}) % 2 = 1) THEN x ELSE s[i]]
SplitAtCommas(s, q, c, x) ==
    [k \in DOMAIN Parts(Marked(s, q, c, x), {x}) |-> Dropping(Parts(Marked(s, q, c, x), {x})[k], {q})]

(* An argument in quotes has no comma outside them and comes out whole.     *)
LEMMA QuotedStaysWhole ==
    ASSUME NEW T, NEW s \in Seq(T), NEW q \in T, NEW c, q # c, NEW x, x \notin T,
           \A i \in 1 .. Len(s) : s[i] # q
    PROVE  SplitAtCommas(Quoted(s, q), q, c, x) = <<s>>
<1> DEFINE t == Quoted(s, q)
<1>1. /\ t \in Seq(T) /\ Len(t) = Len(s) + 2 /\ t[Len(s) + 2] = q
      /\ \A i \in 1 .. Len(s) + 1 : Cardinality({j \in 1 .. i : t[j] = q}) = 1
  BY InQuotes DEF Quoted
<1>2. Dropping(t, {q}) = s
  BY OutOfQuotes, Zenon DEF Quoted
<1> HIDE DEF t
<1>3. /\ Len(s) \in Nat /\ Len(t) \in Nat /\ DOMAIN t = 1 .. Len(t)
      /\ \A i \in 1 .. Len(t) : t[i] \in T
  BY <1>1, LenProperties, ElementOfSeq
<1>4. \A i \in DOMAIN t : ~(t[i] = c /\ ~(Cardinality({j \in 1 .. i : t[j] = q}) % 2 = 1))
  <2> TAKE i \in DOMAIN t
  <2>1. CASE i = Len(s) + 2
    BY <1>1, <2>1
  <2>2. CASE i \in 1 .. Len(s) + 1
    <3>1. Cardinality({j \in 1 .. i : t[j] = q}) = 1
      BY <1>1, <2>2
    <3>2. 1 % 2 = 1
      OBVIOUS
    <3> QED BY <3>1, <3>2, Zenon
  <2> QED BY <1>1, <1>3, <2>1, <2>2
<1>5. Marked(t, q, c, x) = t
  <2>1. Marked(t, q, c, x) = [i \in DOMAIN t |-> t[i]]
    BY <1>4, Zenon DEF Marked
  <2>2. t = [i \in DOMAIN t |-> t[i]]
    <3>1. t \in [1 .. Len(t) -> T]
      BY <1>1, LenProperties
    <3> QED BY <1>3, <3>1
  <2> QED BY <2>1, <2>2, Zenon
<1>6. Parts(t, {x}) = <<t>>
  <2>1. \A i \in 1 .. Len(t) : t[i] \notin {x}
    BY <1>3
  <2> QED BY <1>1, <2>1, PartsOne
<1>7. DOMAIN <<t>> = 1 .. 1 /\ <<t>>[1] = t
  OBVIOUS
<1>8. SplitAtCommas(t, q, c, x) = [k \in DOMAIN <<t>> |-> Dropping(<<t>>[k], {q})]
  BY <1>5, <1>6, Zenon DEF SplitAtCommas
<1>9. [k \in DOMAIN <<t>> |-> Dropping(<<t>>[k], {q})] = <<s>>
  <2> DEFINE d(u) == Dropping(u, {q})
  <2>1. d(t) = s
    BY <1>2
  <2> HIDE DEF d
  <2>2. [k \in DOMAIN <<t>> |-> d(<<t>>[k])] = <<s>>
    BY <2>1
  <2> QED BY <2>2, Zenon DEF d
<1> QED BY <1>8, <1>9, Zenon DEF t

(* What the system makes of the arguments, with that name for the quote.    *)
LEMMA ReceivedIs ==
    \A os, program, args :
        Received(os, program, args) =
            IF os = "windows" /\ IsExplorer(program)
            THEN FlattenSeq([k \in DOMAIN args |-> SplitAtCommas(args[k], "\"", ",", "cut")])
            ELSE args
BY Zenon DEF Received, SplitAtCommas, Marked

(* The command line gives a program the arguments it was to have.           *)
LEMMA ReceivedBack ==
    ASSUME NEW T, "cut" \notin T, "\"" \in T, NEW A \in Seq(Seq(T)), A # <<>>, NEW os,
           Error \notin ToSet(PushArgs(os, A))
    PROVE  /\ PushArgs(os, A) \in Seq(Seq(T))
           /\ Received(os, A[1], PushArgs(os, A)) = Tail(A)
<1> DEFINE args == Tail(A)
           q == "\""
           c == ","
           x == "cut"
           U == Seq(T)
           pushed == PushArgs(os, A)
<1>1. args \in Seq(U)
  BY HeadTailProperties
<1>2. CASE ~(os = "windows" /\ IsExplorer(A[1]))
  <2>1. pushed = args
    BY <1>2, Zenon DEF PushArgs
  <2>2. Received(os, A[1], pushed) = pushed
    BY <1>2, ReceivedIs, Zenon
  <2> QED BY <1>1, <2>1, <2>2, Zenon
<1>3. CASE os = "windows" /\ IsExplorer(A[1])
  <2>1. pushed = [k \in DOMAIN args |-> ExplorerArgument(args[k])]
    BY <1>3, Zenon DEF PushArgs
  <2>2. Received(os, A[1], pushed) = FlattenSeq([k \in DOMAIN pushed |-> SplitAtCommas(pushed[k], q, c, x)])
    BY <1>3, ReceivedIs, Zenon
  <2>3. q \in T /\ q # c /\ x \notin T
    BY Zenon
  <2>4. \A s : ExplorerArgument(s) = IF q \in ToSet(s) THEN Error ELSE Quoted(s, q)
    BY Zenon DEF ExplorerArgument, Quoted
  <2> HIDE DEF q, c, x, pushed, args
  <2>5. Len(args) \in Nat /\ DOMAIN args = 1 .. Len(args) /\ \A k \in 1 .. Len(args) : args[k] \in U
    <3> HIDE DEF U
    <3> QED BY <1>1, LenProperties, ElementOfSeq
  <2>6. DOMAIN pushed = DOMAIN args /\ \A k \in DOMAIN args : pushed[k] = ExplorerArgument(args[k])
    BY <2>1
  <2>7. \A k \in DOMAIN args : pushed[k] # Error
    <3>1. Error \notin ToSet(pushed)
      BY Zenon DEF pushed
    <3> QED BY <2>6, <3>1 DEF ToSet
  <2>8. ASSUME NEW k \in DOMAIN args
        PROVE  pushed[k] \in U /\ SplitAtCommas(pushed[k], q, c, x) = <<args[k]>>
    <3> DEFINE s == args[k]
    <3>1. pushed[k] = Quoted(s, q) /\ q \notin ToSet(s)
      BY <2>4, <2>6, <2>7, Zenon
    <3>2. s \in Seq(T)
      BY <2>5
    <3> HIDE DEF s
    <3>3. \A i \in 1 .. Len(s) : s[i] # q
      <4>1. DOMAIN s = 1 .. Len(s)
        BY <3>2, LenProperties
      <4> QED BY <3>1, <4>1 DEF ToSet
    <3>4. SplitAtCommas(Quoted(s, q), q, c, x) = <<s>>
      BY ONLY <2>3, <3>2, <3>3, QuotedStaysWhole
    <3>5. Quoted(s, q) \in U
      BY ONLY <2>3, <3>2, <3>3, InQuotes DEF Quoted, U
    <3> QED BY <3>1, <3>4, <3>5, Zenon DEF s
  <2>9. pushed \in Seq(U)
    <3> HIDE DEF U
    <3>1. pushed \in [1 .. Len(args) -> U]
      <4>1. pushed = [k \in 1 .. Len(args) |-> pushed[k]]
        BY <2>1, <2>5
      <4> QED BY <2>5, <2>8, <4>1
    <3> QED BY <2>5, <3>1, FunctionIsSeq
  <2>10. FlattenSeq([k \in DOMAIN pushed |-> SplitAtCommas(pushed[k], q, c, x)]) = args
    <3>1. [k \in DOMAIN pushed |-> SplitAtCommas(pushed[k], q, c, x)] = [k \in DOMAIN args |-> <<args[k]>>]
      BY <2>6, <2>8, Zenon
    <3>2. FlattenSeq([k \in DOMAIN args |-> <<args[k]>>]) = args
      <4> HIDE DEF U
      <4> QED BY <1>1, FlattenSingles
    <3> QED BY <3>1, <3>2, Zenon
  <2> QED BY <2>2, <2>9, <2>10, Zenon DEF pushed, args
<1> QED BY <1>2, <1>3

-----------------------------------------------------------------------------
(* What is known of a target on its way to a program.                       *)
Carried == pc \in {"offered", "valid", "expanded", "opened"} \/ refusal = "expansion"
Expansion == ExpandPath(opener.os, opener.home, text.chars)

FromJobs == Carried => \E job \in Jobs : text = job.target /\ opener = job.opener
Validated == Carried /\ pc # "offered" => ValidTarget(text.kind, text.chars)
Expanded ==
    /\ pc \in {"expanded", "opened"} =>
          IF text.kind = "custom" THEN place = text.chars ELSE place = Expansion /\ place # Error
    /\ refusal = "expansion" => text.kind # "custom" /\ Expansion = Error
Launched ==
    pc = "opened" =>
        /\ HasProgram(Argv)
        /\ Error \notin ToSet(PushArgs(opener.os, Argv))
        /\ argv = <<Argv[1]>> \o PushArgs(opener.os, Argv)
        /\ text.kind # "file" => opener.handler # None

Offered == FromJobs /\ Validated /\ Expanded /\ Launched

(* A step that is not about a target carries none.                          *)
LEMMA OfferedStep ==
    ASSUME IInv, Offered, [Next]_vars
    PROVE  Offered'
<1> USE DEF Offered
<1>1. pc # "failed" => refusal = "none"
  BY DEF IInv, OpenUntilFailed
<1>2. CASE ParseText \/ InStore \/ AtAuthority \/ Connect \/ Downgraded
           \/ Redirected \/ Answered \/ Broken \/ Read \/ ReadAll
  <2>1. /\ pc' \in {"parsed", "stored", "asking", "waiting", "reading", "fetched", "failed"}
        /\ refusal' # "expansion"
    BY <1>1, <1>2 DEF ParseText, InStore, AtAuthority, Connect, Downgraded, Redirected, Answered,
                      Broken, Read, ReadAll, Fail
  <2>2. ~Carried' /\ pc' # "opened" /\ pc' # "expanded"
    BY <2>1 DEF Carried
  <2> QED BY <2>1, <2>2 DEF FromJobs, Validated, Expanded, Launched
<1>3. CASE Validate
  <2>1. /\ pc = "offered" /\ UNCHANGED <<text, place, opener, argv>>
        /\ \/ ValidTarget(text.kind, text.chars) /\ pc' = "valid" /\ refusal' = "none"
           \/ pc' = "failed" /\ refusal' = "text"
    BY <1>1, <1>3, Zenon DEF Validate, opening, Fail
  <2>2. Carried /\ (Carried' => ValidTarget(text.kind, text.chars))
    BY <2>1 DEF Carried
  <2>3. FromJobs'
    BY <2>1, <2>2 DEF FromJobs
  <2>4. Validated'
    BY <2>1, <2>2, Zenon DEF Validated
  <2>5. pc' \notin {"expanded", "opened"} /\ refusal' # "expansion"
    BY <2>1
  <2> QED BY <2>3, <2>4, <2>5, Zenon DEF Expanded, Launched
<1>4. CASE Expand
  <2>1. /\ pc = "valid" /\ UNCHANGED <<text, opener, argv>>
        /\ \/ text.kind = "custom" /\ place' = text.chars /\ pc' = "expanded" /\ refusal' = "none"
           \/ text.kind # "custom" /\ Expansion = Error /\ pc' = "failed" /\ refusal' = "expansion"
           \/ /\ text.kind # "custom" /\ Expansion # Error /\ place' = Expansion
              /\ \/ pc' = "expanded" /\ refusal' = "none"
                 \/ pc' = "failed" /\ refusal' = "unavailable"
    BY <1>1, <1>4, Zenon DEF Expand, opening, Fail, Expansion
  <2>2. Carried /\ pc # "offered" /\ pc' # "opened"
    BY <2>1 DEF Carried
  <2>3. Expansion' = Expansion
    BY <2>1, Zenon DEF Expansion
  <2>4. FromJobs'
    BY <2>1, <2>2 DEF FromJobs
  <2>5. Validated'
    BY <2>1, <2>2, Zenon DEF Validated
  <2>6. Expanded'
    BY <2>1, <2>2, <2>3, Zenon DEF Expanded
  <2> QED BY <2>2, <2>4, <2>5, <2>6, Zenon DEF Launched
<1>5. CASE Launch
  <2>1. /\ pc = "expanded" /\ UNCHANGED <<text, place, opener>>
        /\ \/ pc' = "failed" /\ refusal' \in {"handler", "program", "argument", "spawn"}
           \/ /\ pc' = "opened" /\ refusal' = "none"
              /\ HasProgram(Argv) /\ Error \notin ToSet(PushArgs(opener.os, Argv))
              /\ argv' = <<Argv[1]>> \o PushArgs(opener.os, Argv)
              /\ text.kind # "file" => opener.handler # None
    BY <1>1, <1>5, Zenon DEF Launch, Fail
  <2>2. Carried /\ pc # "offered" /\ (Carried' => pc' = "opened") /\ refusal' # "expansion"
    BY <2>1 DEF Carried
  <2>3. Expansion' = Expansion /\ Argv' = Argv
    BY <2>1, Zenon DEF Expansion, Argv
  <2>4. FromJobs'
    BY <2>1, <2>2 DEF FromJobs
  <2>5. Validated'
    BY <2>1, <2>2, Zenon DEF Validated
  <2>6. Expanded'
    <3>1. pc \in {"expanded", "opened"}
      BY <2>1
    <3> QED BY <2>1, <2>2, <2>3, <3>1, Zenon DEF Expanded
  <2>7. Launched'
    <3>1. pc' = "opened" =>
             /\ HasProgram(Argv) /\ Error \notin ToSet(PushArgs(opener.os, Argv))
             /\ argv' = <<Argv[1]>> \o PushArgs(opener.os, Argv)
             /\ text.kind # "file" => opener.handler # None
      <4>1. "failed" # "opened"
        OBVIOUS
      <4> QED BY <2>1, <4>1, Zenon
    <3> QED BY <2>1, <2>3, <3>1, Zenon DEF Launched
  <2> QED BY <2>4, <2>5, <2>6, <2>7
<1>6. CASE UNCHANGED vars
  <2>1. UNCHANGED <<text, place, opener, argv, pc, refusal>>
    BY <1>6 DEF vars
  <2>2. Expansion' = Expansion /\ Argv' = Argv /\ Carried' = Carried
    BY <2>1, Zenon DEF Expansion, Argv, Carried
  <2>3. FromJobs'
    BY <2>1, <2>2 DEF FromJobs
  <2>4. Validated' /\ Expanded' /\ Launched'
    BY <2>1, <2>2, Zenon DEF Validated, Expanded, Launched
  <2> QED BY <2>3, <2>4
<1> QED BY <1>2, <1>3, <1>4, <1>5, <1>6, Zenon DEF Next

(* What is offered comes from a manifest and a configuration, and is kept.  *)
THEOREM TargetInvariance == Spec => [](IInv /\ Offered)
<1>1. Init => IInv /\ Offered
  <2>1. Init => Offered
    <3> SUFFICES ASSUME Init PROVE Offered
      OBVIOUS
    <3>1. pc \in {"given", "offered"} /\ refusal = "none"
      BY DEF Init
    <3>2. pc = "offered" => \E job \in Jobs : text = job.target /\ opener = job.opener
      BY DEF Init
    <3> QED BY <3>1, <3>2 DEF Offered, FromJobs, Carried, Validated, Expanded, Launched
  <2> QED BY <2>1, InitIInv
<1>2. IInv /\ Offered /\ [Next]_vars => (IInv /\ Offered)'
  BY PlacesStep, ConnectionsStep, CountersStep, OfferedStep DEF IInv
<1> QED BY <1>1, <1>2, PTL DEF Spec

(* dispatch_one: a `~` target leads below the home directory where its text *)
(* says, and none goes up, to a share or to the working directory.          *)
THEOREM OpensShown == Spec => []OpensWhatIsShown
<1>1. ASSUME IInv, Offered PROVE OpensWhatIsShown
  <2> DEFINE chars == text.chars
             os == opener.os
             home == opener.home
             hopeless == refusal = "expansion"
             on == pc \in {"expanded", "opened"} /\ text.kind # "custom"
  <2>1. ASSUME on \/ hopeless
        PROVE  /\ Expansion # Error => Shown(os, chars, Expansion)
               /\ Expansion = Error => ~home
    <3>1. Carried /\ pc # "offered" /\ text.kind # "custom"
      <4>1. hopeless => pc = "failed" /\ text.kind # "custom"
        BY <1>1 DEF IInv, OpenUntilFailed, Offered, Expanded
      <4> QED BY <2>1, <4>1 DEF Carried
    <3>2. PICK job \in Jobs : text = job.target /\ opener = job.opener
      BY <1>1, <3>1, Zenon DEF Offered, FromJobs
    <3>3. chars \in Seq(Characters) /\ os \in {"unix", "windows"} /\ home \in BOOLEAN
      BY <3>2, JobsAssumption
    <3>4. chars # <<>> /\ ValidPathTarget(chars)
      BY <1>1, <3>1, Zenon DEF Offered, Validated, ValidTarget
    <3>5. Expansion = ExpandPath(os, home, chars)
      BY Zenon DEF Expansion
    <3> HIDE DEF chars, os, home
    <3> QED BY ONLY <3>3, <3>4, <3>5, ExpansionShown
  <2>2. on => place = Expansion /\ place # Error
    BY <1>1, Zenon DEF Offered, Expanded
  <2>3. hopeless => Expansion = Error
    BY <1>1, Zenon DEF Offered, Expanded
  <2>4. on => Shown(os, chars, place)
    BY <2>1, <2>2, Zenon
  <2>5. hopeless => ~home
    BY <2>1, <2>3, Zenon
  <2> QED BY <2>4, <2>5, Zenon DEF OpensWhatIsShown, Shown
<1> QED BY <1>1, TargetInvariance, PTL

-----------------------------------------------------------------------------
(* The command line of a program: what was configured, and what it becomes. *)
Handler == IF text.kind = "file" THEN opener.open ELSE opener.handler
Asked ==
    IF text.kind # "file" /\ Mentioned(Handler) THEN Handler ELSE Append(Handler, <<"{target}">>)
Expected ==
    [k \in DOMAIN Asked |->
        IF text.kind = "file" /\ k < Len(Asked) THEN Asked[k] ELSE Filled(Asked[k], place)]

(* Texts over fewer characters are texts over more.                         *)
LEMMA WiderTexts ==
    ASSUME NEW S, NEW T, S \subseteq T, NEW ss \in Seq(Seq(S))
    PROVE  ss \in Seq(Seq(T))
<1> DEFINE U == Seq(T)
           V == Seq(S)
<1>1. V \subseteq U
  BY SeqMonotonic
<1> HIDE DEF U, V
<1>2. ss \in Seq(V)
  BY DEF V
<1>3. ss \in Seq(U)
  BY ONLY <1>1, <1>2, SeqMonotonic
<1> QED BY <1>3 DEF U

(* With a target added at the end every argument is what was asked for.     *)
LEMMA AppendedTarget ==
    ASSUME NEW T, NEW handler \in Seq(Seq(T)), NEW target \in Seq(T), NEW m, NEW f,
           \A k \in 1 .. Len(handler) : f[k] = handler[k],
           f[Len(handler) + 1] = target
    PROVE  Append(handler, target) = [k \in DOMAIN Append(handler, m) |-> f[k]]
<1> DEFINE n == Len(handler)
           U == Seq(T)
           longer == Append(handler, m)
           a == Append(handler, target)
<1>1. n \in Nat /\ handler \in Seq(U)
  BY LenProperties
<1>2. /\ a \in Seq(U) /\ Len(a) = n + 1
      /\ \A k \in 1 .. n : a[k] = handler[k]
      /\ a[n + 1] = target
  <2> HIDE DEF U, n
  <2>1. target \in U
    BY DEF U
  <2> QED BY <1>1, <2>1, AppendProperties DEF n
<1>3. DOMAIN a = 1 .. n + 1 /\ a = [k \in 1 .. n + 1 |-> a[k]]
  <2> HIDE DEF a, U, n
  <2> QED BY <1>2, LenProperties
<1>4. DOMAIN longer = 1 .. n + 1
  <2> DEFINE M == U \cup {m}
  <2>1. U \subseteq M /\ m \in M
    OBVIOUS
  <2> HIDE DEF M, U, n
  <2>2. handler \in Seq(M)
    BY ONLY <1>1, <2>1, SeqMonotonic
  <2>3. longer \in Seq(M) /\ Len(longer) = n + 1
    BY <2>1, <2>2, AppendProperties DEF n
  <2> HIDE DEF longer
  <2> QED BY <2>3, LenProperties
<1> HIDE DEF a, longer, n
<1>5. \A k \in 1 .. n + 1 : a[k] = f[k]
  <2>1. \A k \in 1 .. n + 1 : k \in 1 .. n \/ k = n + 1
    BY <1>1
  <2> QED BY <1>2, <2>1, Zenon DEF n
<1>6. a = [k \in DOMAIN longer |-> f[k]]
  BY <1>3, <1>4, <1>5, Zenon
<1> QED BY <1>6 DEF a, longer

(* What is built is what was configured, with the target in it.             *)
LEMMA ArgvIs ==
    ASSUME NEW T, place \in Seq(T), Handler \in Seq(Seq(T)), HasProgram(Argv)
    PROVE  Handler # <<>> /\ Argv \in Seq(Seq(T)) /\ Argv = Expected
<1> DEFINE m == "{target}"
           e == <<>>
           n == Len(Handler)
           U == Seq(T)
           fill(part) == Filled(part, place)
<1>1. /\ n \in Nat /\ DOMAIN Handler = 1 .. n /\ \A k \in 1 .. n : Handler[k] \in U
  <2> HIDE DEF U
  <2>1. Handler \in Seq(U)
    BY DEF U
  <2> QED BY <2>1, LenProperties, ElementOfSeq
<1>2. /\ fill(<<m>>) = place
      /\ \A part \in U : fill(part) \in U /\ (m \notin ToSet(part) => fill(part) = part)
  <2>1. \A part : fill(part) = Filling(part, m, place)
    BY Zenon DEF Filled, Filling
  <2> HIDE DEF fill, m
  <2>2. /\ Filling(<<m>>, m, place) = place
        /\ \A part \in Seq(T) :
              /\ Filling(part, m, place) \in Seq(T)
              /\ m \notin ToSet(part) => Filling(part, m, place) = part
    BY FillingFacts
  <2> QED BY <2>1, <2>2, Zenon
<1>3. Argv # e
  BY Zenon DEF HasProgram
<1>4. Mentioned(Handler) <=> \E part \in ToSet(Handler) : m \in ToSet(part)
  BY Zenon DEF Mentioned
<1>5. Argv = IF text.kind = "file" THEN OpenWith(Handler, place) ELSE Substitute(Handler, place)
  BY Zenon DEF Argv, Handler
<1>6. CASE text.kind # "file" /\ Mentioned(Handler)
  <2>1. Asked = Handler
    BY <1>6, Zenon DEF Asked
  <2>2. Handler # e
    <3>1. Substitute(e, place) = e
      BY Zenon DEF Substitute
    <3> QED BY <1>3, <1>5, <1>6, <3>1, Zenon
  <2>3. Argv = [k \in DOMAIN Handler |-> fill(Handler[k])]
    BY <1>5, <1>6, <2>2, Zenon DEF Substitute
  <2>4. Expected = [k \in DOMAIN Handler |-> fill(Handler[k])]
    BY <1>6, <2>1, Zenon DEF Expected
  <2>5. [k \in DOMAIN Handler |-> fill(Handler[k])] \in Seq(U)
    <3> HIDE DEF fill, m, e, U, n
    <3>1. [k \in DOMAIN Handler |-> fill(Handler[k])] \in [1 .. n -> U]
      BY ONLY <1>1, <1>2
    <3> QED BY <1>1, <3>1, FunctionIsSeq
  <2> QED BY <2>2, <2>3, <2>4, <2>5, Zenon
<1>7. CASE ~(text.kind # "file" /\ Mentioned(Handler))
  <2>1. Asked = Append(Handler, <<m>>)
    BY <1>7, Zenon DEF Asked
  <2>2. Handler # e
    <3>1. Substitute(e, place) = e /\ OpenWith(e, place) = e
      BY Zenon DEF Substitute, OpenWith
    <3> QED BY <1>3, <1>5, <3>1, Zenon
  <2>3. Argv = Append(Handler, place)
    BY <1>5, <1>7, <2>2, Zenon DEF Substitute, OpenWith
  <2> DEFINE g == Asked
             f == [k \in DOMAIN g |-> IF text.kind = "file" /\ k < Len(g) THEN g[k] ELSE fill(g[k])]
  <2>4. Expected = f
    BY Zenon DEF Expected
  <2>5. /\ DOMAIN g = 1 .. n + 1 /\ Len(g) = n + 1
        /\ \A k \in 1 .. n : g[k] = Handler[k]
        /\ g[n + 1] = <<m>>
    <3> DEFINE o == <<m>>
    <3> HIDE DEF m, g, fill, e, o
    <3>1. g = Append(Handler, o)
      BY <2>1, Zenon DEF g, o
    <3>2. /\ DOMAIN Append(Handler, o) = 1 .. n + 1 /\ Len(Append(Handler, o)) = n + 1
          /\ \A k \in 1 .. n : Append(Handler, o)[k] = Handler[k]
          /\ Append(Handler, o)[n + 1] = o
      BY <1>1
    <3> QED BY <3>1, <3>2, Zenon DEF o
  <2>6. \A k \in 1 .. n : f[k] = Handler[k]
    <3> TAKE k \in 1 .. n
    <3>1. k \in DOMAIN g /\ g[k] = Handler[k] /\ Handler[k] \in U
      <4> HIDE DEF m, g, fill, e, n
      <4>1. k \in 1 .. n + 1
        BY <1>1
      <4> QED BY <1>1, <2>5, <4>1, Zenon
    <3>2. fill(Handler[k]) = Handler[k] \/ (text.kind = "file" /\ k < Len(g))
      <4>1. CASE text.kind = "file"
        <5> HIDE DEF m, g, fill, e, n
        <5>1. k < Len(g)
          BY <1>1, <2>5
        <5> QED BY <4>1, <5>1
      <4>2. CASE text.kind # "file"
        <5>1. Handler[k] \in ToSet(Handler)
          <6> HIDE DEF m, g, fill, e, n
          <6> QED BY <1>1 DEF ToSet
        <5>2. m \notin ToSet(Handler[k])
          BY <1>4, <1>7, <4>2, <5>1, Zenon
        <5> HIDE DEF m, g, fill, e, n, U
        <5> QED BY <1>2, <3>1, <5>2, Zenon
      <4> QED BY <4>1, <4>2, Zenon
    <3> HIDE DEF m, g, fill, e
    <3> QED BY <3>1, <3>2
  <2>7. f[n + 1] = place
    <3> HIDE DEF m, g, fill, e, n
    <3>1. n + 1 \in 1 .. n + 1 /\ ~(n + 1 < n + 1)
      BY <1>1
    <3>2. g[n + 1] = <<m>> /\ n + 1 \in DOMAIN g /\ ~(n + 1 < Len(g))
      BY <2>5, <3>1, Zenon
    <3>3. f[n + 1] = fill(g[n + 1])
      BY <3>2, Zenon
    <3> QED BY <1>2, <3>2, <3>3, Zenon
  <2>8. Append(Handler, place) = [k \in DOMAIN Append(Handler, <<m>>) |-> f[k]]
    <3> HIDE DEF m, f, e
    <3> QED BY ONLY <2>6, <2>7, Handler \in Seq(Seq(T)), place \in Seq(T), AppendedTarget DEF n
  <2>9. [k \in DOMAIN Append(Handler, <<m>>) |-> f[k]] = f
    <3> HIDE DEF m, fill
    <3>1. [k \in DOMAIN g |-> f[k]] = f
      BY Zenon
    <3> QED BY <2>1, <3>1, Zenon
  <2>10. Append(Handler, place) \in Seq(U)
    <3> HIDE DEF m, g, f, fill, e, n
    <3> QED OBVIOUS
  <2> HIDE DEF f
  <2> QED BY <2>2, <2>3, <2>4, <2>8, <2>9, <2>10, Zenon
<1> QED BY <1>6, <1>7, Zenon

(* RealLauncher::launch: whatever the target's characters, a program gets   *)
(* the arguments it was configured with and the target where it was to be.  *)
THEOREM ProgramGets == Spec => []ProgramGetsTheTarget
<1>1. ASSUME IInv, Offered, pc = "opened"
      PROVE  /\ Handler # <<>> /\ HasProgram(argv)
             /\ <<argv[1]>> \o Received(opener.os, argv[1], Tail(argv)) = Expected
  <2> DEFINE T == Characters \cup {"home", "\""}
             U == Seq(T)
             chars == text.chars
             A == Argv
             pushed == PushArgs(opener.os, A)
  <2>1. Carried /\ pc # "offered"
    BY <1>1 DEF Carried
  <2>2. PICK job \in Jobs : text = job.target /\ opener = job.opener
    BY <1>1, <2>1, Zenon DEF Offered, FromJobs
  <2>3. /\ chars \in Seq(Characters) /\ opener.os \in {"unix", "windows"} /\ opener.home \in BOOLEAN
        /\ opener.open \in Seq(Seq(Characters))
        /\ opener.handler \in Seq(Seq(Characters)) \cup {None}
    BY <2>2, JobsAssumption
  <2>4. /\ HasProgram(A) /\ Error \notin ToSet(pushed) /\ argv = <<A[1]>> \o pushed
        /\ text.kind # "file" => opener.handler # None
    BY <1>1, Zenon DEF Offered, Launched
  <2>5. Characters \subseteq T /\ Characters \cup {"home"} \subseteq T /\ "\"" \in T
    BY Zenon
  <2>6. "cut" \notin T
    <3>1. "cut" # "home" /\ "cut" # "\""
      BY Zenon
    <3>2. "cut" \notin Characters
      BY CharactersAssumption, Zenon
    <3> QED BY <3>1, <3>2, Zenon
  <2>7. place \in Seq(Characters \cup {"home"})
    <3>1. CASE text.kind = "custom"
      <4>1. place = chars
        BY <1>1, <3>1 DEF Offered, Expanded
      <4>2. Characters \subseteq Characters \cup {"home"}
        OBVIOUS
      <4>3. chars \in Seq(Characters \cup {"home"})
        BY ONLY <2>3, <4>2, SeqMonotonic
      <4> QED BY <4>1, <4>3, Zenon
    <3>2. CASE text.kind # "custom"
      <4>1. place = Expansion /\ place # Error
        BY <1>1, <3>2 DEF Offered, Expanded
      <4>2. chars # <<>> /\ ValidPathTarget(chars)
        BY <1>1, <2>1, <3>2, Zenon DEF Offered, Validated, ValidTarget
      <4> DEFINE os == opener.os
                 home == opener.home
      <4>3. Expansion = ExpandPath(os, home, chars)
        BY Zenon DEF Expansion
      <4> HIDE DEF chars, os, home
      <4>4. chars \in Seq(Characters) /\ os \in {"unix", "windows"} /\ home \in BOOLEAN
        BY <2>3 DEF os, home
      <4>5. Expansion # Error => Expansion \in Seq(Characters \cup {"home"})
        BY ONLY <4>2, <4>3, <4>4, ExpansionShown
      <4> QED BY <4>1, <4>5, Zenon
    <3> QED BY <3>1, <3>2
  <2> HIDE DEF T, A, chars
  <2>8. place \in Seq(T)
    BY ONLY <2>5, <2>7, SeqMonotonic
  <2>9. Handler \in Seq(Seq(Characters))
    BY <2>3, <2>4 DEF Handler
  <2>10. Handler \in Seq(Seq(T))
    BY ONLY <2>5, <2>9, WiderTexts
  <2>11. Handler # <<>> /\ A \in Seq(Seq(T)) /\ A = Expected
    <3>1. HasProgram(Argv)
      BY <2>4, Zenon DEF A
    <3>2. Handler # <<>> /\ Argv \in Seq(Seq(T)) /\ Argv = Expected
      BY ONLY <2>8, <2>10, <3>1, ArgvIs
    <3> QED BY <3>2, Zenon DEF A
  <2>12. A # <<>>
    BY <2>4, Zenon DEF HasProgram
  <2>13. /\ pushed \in Seq(Seq(T))
         /\ Received(opener.os, A[1], pushed) = Tail(A)
    <3>1. Error \notin ToSet(PushArgs(opener.os, A))
      BY <2>4
    <3> QED BY ONLY <2>5, <2>6, <2>11, <2>12, <3>1, ReceivedBack
  <2> HIDE DEF pushed, U
  <2>14. A[1] \in U /\ A \in Seq(U) /\ pushed \in Seq(U) /\ Tail(A) \in Seq(U)
    <3>1. A \in Seq(U) /\ pushed \in Seq(U)
      BY <2>11, <2>13 DEF U
    <3>2. Tail(A) \in Seq(U) /\ Len(A) \in Nat \ {0}
      BY <2>12, <3>1, HeadTailProperties, EmptySeq
    <3>3. A[1] \in U
      BY <3>1, <3>2, ElementOfSeq
    <3> QED BY <3>1, <3>2, <3>3
  <2>15. argv # <<>> /\ argv[1] = A[1] /\ Tail(argv) = pushed
    <3> DEFINE p == A[1]
    <3>1. p \in U
      BY <2>14
    <3> HIDE DEF p
    <3>2. <<p>> \o pushed # <<>> /\ (<<p>> \o pushed)[1] = p /\ Tail(<<p>> \o pushed) = pushed
      BY <2>14, <3>1
    <3>3. argv = <<p>> \o pushed
      BY <2>4, Zenon DEF p
    <3> QED BY <3>2, <3>3, Zenon DEF p
  <2>16. <<A[1]>> \o Tail(A) = A
    BY <2>12, <2>14
  <2>17. HasProgram(argv)
    BY <2>4, <2>15, Zenon DEF HasProgram
  <2> QED BY <2>11, <2>13, <2>15, <2>16, <2>17, Zenon
<1>2. IInv /\ Offered => ProgramGetsTheTarget
  BY <1>1, Zenon DEF ProgramGetsTheTarget, Expected, Asked, Handler
<1> QED BY <1>2, TargetInvariance, PTL
=============================================================================
