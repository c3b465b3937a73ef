------------------------------- MODULE MurlText -------------------------------
(***************************************************************************)
(* mURLs as text: Murl::parse, the canonical form and what is derived from  *)
(* a name (murl.rs, grammar.rs), the URL and the file a manifest is looked  *)
(* for at, and the listing that turns files into names again (fetch.rs).    *)
(*                                                                         *)
(* A text is an authority and a sequence of tokens. A token is a character  *)
(* as itself or percent-encoded; a keyword ("latest", "role=", ...) and a   *)
(* character of several bytes are one. A raw authority is a record: of its  *)
(* characters only the case, of its flaws only that there is one, is kept.  *)
(***************************************************************************)
EXTENDS Naturals, SequencesExt

CONSTANTS
    None, Error,
    Alphabet,       \* the characters of texts
    Latest,         \* the version tag that pins none
    Local,          \* the authority of the names on this machine
    Hosts,          \* host names parse_authority accepts
    LoopbackHosts,  \* localhost, *.localhost, 127.0.0.1
    MaxLength,      \* MAX_MURL_LEN, for all after the authority
    MaxSegments, MaxSegmentBytes, MaxQuery, MaxSelectorItems, MaxSelectorLen

ASSUME HostsAssumption == LoopbackHosts \subseteq Hosts /\ Local \notin Hosts
ASSUME LimitsAssumption ==
    {MaxLength, MaxSegments, MaxSegmentBytes, MaxQuery, MaxSelectorItems, MaxSelectorLen} \subseteq Nat

Digits == {"0", "1"}
Lower == {"w"} \cup Digits
Unreserved == Lower \cup {"W", "-", "_", ".", "~", "latest", ".murl.json"}
FileSafe == Unreserved \ {"~"}
Undecodable == {"/", "\\", "control", "not UTF-8"}

Marks == {"/", "@", "?", "#", ",", "role=", "tag="}

ASSUME AlphabetAssumption == Unreserved \cup Marks \subseteq Alphabet

Plain(char) == [char |-> char, as |-> "itself"]
Escape(char) == [char |-> char, as |-> "%XX"]
LowerEscape(char) == [char |-> char, as |-> "%xx"]
TextTokens == [char : Alphabet, as : {"itself", "%XX", "%xx"}]

Width(tokens) == Len(tokens) + 2 * Cardinality({i \in DOMAIN tokens : tokens[i].as # "itself"})
Chars(tokens) == [i \in DOMAIN tokens |-> tokens[i].char]

Before(tokens, char) ==
    LET i == SelectInSeq(tokens, LAMBDA t : t = Plain(char))
    IN  IF i = 0 THEN tokens ELSE SubSeq(tokens, 1, i - 1)

After(tokens, char) ==
    LET i == SelectInSeq(tokens, LAMBDA t : t = Plain(char))
    IN  IF i = 0 THEN None ELSE SubSeq(tokens, i + 1, Len(tokens))

Split(tokens, char) ==
    LET cuts == {0, Len(tokens) + 1} \cup {i \in DOMAIN tokens : tokens[i] = Plain(char)}
        cut(k) == CHOOSE i \in cuts : Cardinality({j \in cuts : j < i}) = k
    IN  [k \in 1 .. Cardinality(cuts) - 1 |-> SubSeq(tokens, cut(k - 1) + 1, cut(k) - 1)]

Joined(parts, char) ==
    FlattenSeq([k \in DOMAIN parts |-> IF k = 1 THEN parts[k] ELSE <<Plain(char)>> \o parts[k]])

Escaped(chars, safe) ==
    [i \in DOMAIN chars |-> IF chars[i] \in safe THEN Plain(chars[i]) ELSE Escape(chars[i])]

-----------------------------------------------------------------------------
(* Parsing. *)

Ports == 1 .. 65535

ParseAuthority(raw) ==
    IF /\ raw.host \in Hosts \cup {Local}
       /\ raw.port # None => raw.host # Local /\ raw.port \in Ports
    THEN [host |-> raw.host, port |-> raw.port]
    ELSE Error

(* Mutant: the path separators are looked for before decoding.              *)
MutDecodesToSeparators(raw, chars) ==
    /\ Len(raw) \in 1 .. MaxSegmentBytes
    /\ Plain("%") \notin ToSet(raw)
    /\ ToSet(raw) \cap {Plain("/"), Plain("\\")} = {}
    /\ ToSet(chars) \cap {"control", "not UTF-8"} = {}
    /\ chars \notin {<<".">>, <<".", ".">>}

DecodesTo(raw, chars) ==
    /\ Len(raw) \in 1 .. MaxSegmentBytes
    /\ Plain("%") \notin ToSet(raw)
    /\ ToSet(chars) \cap Undecodable = {}
    /\ chars \notin {<<".">>, <<".", ".">>}

ParseVersion(raw) ==
    LET parts == Split(raw, ".")
    IN  IF raw = <<Plain("latest")>> THEN Latest
        ELSE IF /\ Len(parts) <= 3
                /\ \A k \in DOMAIN parts :
                      /\ Len(parts[k]) \in 1 .. 5
                      /\ \A i \in DOMAIN parts[k] : parts[k][i] \in {Plain(d) : d \in Digits}
                      /\ Len(parts[k]) > 1 => parts[k][1] # Plain("0")
             THEN [k \in DOMAIN parts |-> Chars(parts[k])]
             ELSE Error

(* is_valid_resource_id, is_valid_role and is_valid_tag.                    *)
Allowed(kind) == Lower \cup {"-"} \cup (IF kind = "id" THEN {"_"} ELSE {})
ValidItem(kind, raw) ==
    /\ Len(raw) \in 1 .. MaxSelectorLen
    /\ \A i \in DOMAIN raw : raw[i] \in {Plain(c) : c \in Allowed(kind)}
    /\ kind # "tag" => raw[1].char \in Lower

SelectorItem(raw) ==
    LET kind == CASE raw # <<>> /\ raw[1] = Plain("role=") -> "role"
                  [] raw # <<>> /\ raw[1] = Plain("tag=") -> "tag"
                  [] OTHER -> "id"
        value == IF kind = "id" THEN raw ELSE Tail(raw)
    IN  IF ValidItem(kind, value) THEN [kind |-> kind, value |-> Chars(value)] ELSE Error

ParseSelector(fragment) ==
    LET items == [k \in DOMAIN Split(fragment, ",") |-> SelectorItem(Split(fragment, ",")[k])]
    IN  IF Len(items) <= MaxSelectorItems /\ Error \notin ToSet(items) THEN items ELSE Error

Items == [kind : {"id", "role", "tag"}, value : Seq(Allowed("id"))]

ASSUME AbsentAssumption ==
    None \notin Seq(TextTokens) \cup Seq(Items) \cup {Error} /\ Latest \notin Seq(Seq(Digits))

(* Display: the canonical text. The version `latest` has none.              *)
VersionMark(version) ==
    IF version = Latest THEN <<>>
    ELSE <<Plain("@")>> \o Joined([k \in DOMAIN version |-> Escaped(version[k], Digits)], ".")

NamePath(name, safe) ==
    FlattenSeq([i \in DOMAIN name |-> <<Plain("/")>> \o Escaped(name[i], safe)])

(* Mutant: `@` is left as it is.                                            *)
MutIdentityPlainAt(murl) ==
    [authority |-> murl.authority,
     tail |-> NamePath(murl.name, Unreserved \cup {"@"}) \o VersionMark(murl.version)]

Identity(murl) ==
    [authority |-> murl.authority, tail |-> NamePath(murl.name, Unreserved) \o VersionMark(murl.version)]

ItemText(item) ==
    (IF item.kind = "id" THEN <<>> ELSE IF item.kind = "role" THEN <<Plain("role=")>>
     ELSE <<Plain("tag=")>>) \o Escaped(item.value, Allowed("id"))

Display(murl) ==
    [scheme |-> TRUE,
     authority |-> [host |-> murl.authority.host, port |-> murl.authority.port, upper |-> FALSE],
     tail |-> Identity(murl).tail
              \o (IF murl.query = None THEN <<>> ELSE <<Plain("?")>> \o murl.query)
              \o (IF murl.selector = None THEN <<>> ELSE <<Plain("#")>>
                  \o Joined([k \in DOMAIN murl.selector |-> ItemText(murl.selector[k])], ","))]

MutFitsUnchecked(murl) == TRUE
Fits(murl) == Width(Display(murl).tail) <= MaxLength

(* Murl::parse: the fragment is split off first, then the query; a version  *)
(* marker may only stand in the last segment.                               *)
Parse(text) ==
    LET rest == Before(text.tail, "#")
        fragment == After(text.tail, "#")
        path == Before(rest, "?")
        query == After(rest, "?")
        parts == Split(Tail(path), "/")
        last == Len(parts)
        mark == After(parts[last], "@")
        raw == [parts EXCEPT ![last] = Before(parts[last], "@")]
        murl == [authority |-> ParseAuthority(text.authority),
                 name |-> [i \in DOMAIN raw |-> Chars(raw[i])],
                 version |-> IF mark = None THEN Latest ELSE ParseVersion(mark),
                 selector |-> IF fragment = None THEN None ELSE ParseSelector(fragment),
                 query |-> query]
    IN  IF /\ Width(text.tail) <= MaxLength
           /\ Plain("control") \notin ToSet(text.tail)
           /\ text.scheme
           /\ murl.authority # Error
           /\ Len(path) > 1 /\ path[1] = Plain("/")
           /\ last <= MaxSegments
           /\ \A i \in DOMAIN raw :
                 Plain("@") \notin ToSet(raw[i]) /\ DecodesTo(raw[i], murl.name[i])
           /\ murl.version # Error
           /\ murl.selector # Error
           /\ query # None => Width(query) <= MaxQuery
           /\ Fits(murl)
        THEN murl
        ELSE Error

-----------------------------------------------------------------------------
(* Where a manifest is looked for. *)

IsLoopback(host) == host \in LoopbackHosts

WellKnownUrl(murl) ==
    [scheme |-> IF IsLoopback(murl.authority.host) THEN "http" ELSE "https",
     authority |-> murl.authority,
     path |-> Identity(murl).tail \o <<Plain(".murl.json")>>]

(* Mutant: the version is not part of the file's name.                      *)
MutManifestPathLatest(murl) ==
    LET last == Len(murl.name)
    IN  [i \in DOMAIN murl.name |->
            Escaped(murl.name[i], FileSafe) \o (IF i = last THEN <<Plain(".murl.json")>> ELSE <<>>)]

(* LocalStore::manifest_path: the components below the store's root.        *)
ManifestPath(murl) ==
    LET last == Len(murl.name)
    IN  [i \in DOMAIN murl.name |->
            Escaped(murl.name[i], FileSafe)
            \o (IF i = last THEN VersionMark(murl.version) \o <<Plain(".murl.json")>> ELSE <<>>)]

(* What `murl name list` makes of a file; it keeps it when it parses.       *)
ListedAs(path) ==
    [scheme |-> TRUE,
     authority |-> [host |-> Local, port |-> None, upper |-> FALSE],
     tail |-> FlattenSeq([i \in DOMAIN path |->
                <<Plain("/")>> \o (IF i = Len(path) THEN Front(path[i]) ELSE path[i])])]
=============================================================================
