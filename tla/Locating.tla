------------------------------- MODULE Locating -------------------------------
(***************************************************************************)
(* From a resource's target to what it leads to. The text of an mURL is     *)
(* parsed, mapped to a file of the local store or to a well-known URL, and  *)
(* fetched by HttpsFetcher (murl-net, lib.rs), with the name server, the    *)
(* connections and the server it talks to. The target of another kind is    *)
(* validated with its manifest, expanded and handed to a program            *)
(* (manifest.rs, dispatch.rs, launcher.rs).                                 *)
(***************************************************************************)
EXTENDS TargetText

CONSTANTS
    Texts,      \* texts of mURLs a user or a manifest may give
    Jobs,       \* other targets a manifest may give, each with an OpenerConfig
    Addresses,  \* addresses: records of a kind and whether IPv4-mapped
    Cap,        \* Limits::max_manifest_bytes
    MaxTries,   \* bound: the values of Limits::max_redirects
    MaxBody     \* bound: the length of a response

ASSUME CapAssumption == Cap \in Nat
ASSUME BoundsAssumption == MaxTries \in Nat /\ MaxBody \in Nat
ASSUME JobsAssumption ==
    \A job \in Jobs :
        /\ job.target.chars \in Seq(Characters)
        /\ job.opener.os \in {"unix", "windows"} /\ job.opener.home \in BOOLEAN
        /\ job.opener.open \in Seq(Seq(Characters))
        /\ job.opener.handler \in Seq(Seq(Characters)) \cup {None}
ASSUME TextsAssumption == \A t \in Texts : t.tail \in Seq(TextTokens)

VARIABLES
    text, murl, place, pc,
    opener,     \* OpenerConfig and the system it is for
    argv,       \* the program and the arguments built for it
    limit,      \* Limits::max_redirects
    hop,        \* the scheme of the URL to request next
    followed,   \* redirects followed
    body,       \* the length of the response's body
    buffer,     \* bytes of it read so far
    refusal,    \* why it has failed
    connected   \* history: scheme and address of every connection

vars == <<text, murl, place, pc, opener, argv, limit, hop, followed, body, buffer, refusal, connected>>

Phases == {"given", "parsed", "stored", "asking", "waiting", "reading", "fetched", "failed",
           "offered", "valid", "expanded", "opened"}

Init ==
    /\ \/ /\ pc = "given" /\ text \in Texts /\ opener = None
          /\ limit \in 0 .. MaxTries
       \/ /\ pc = "offered" /\ limit = 0
          /\ \E job \in Jobs : text = job.target /\ opener = job.opener
    /\ murl = None /\ place = None /\ hop = None /\ refusal = "none"
    /\ argv = None
    /\ followed = 0 /\ body = 0 /\ buffer = 0
    /\ connected = {}

opening == <<opener, argv>>
fetching == <<murl, limit, hop, followed, body, buffer, connected>>

Fail(why) == pc' = "failed" /\ refusal' = why

-----------------------------------------------------------------------------
(* An mURL. *)

ParseText ==
    /\ pc = "given"
    /\ murl' = Parse(text)
    /\ IF murl' = Error THEN Fail("text") ELSE pc' = "parsed" /\ UNCHANGED refusal
    /\ UNCHANGED <<text, place, limit, hop, followed, body, buffer, connected, opening>>

InStore ==
    /\ pc = "parsed" /\ murl.authority.host = Local
    /\ place' = ManifestPath(murl)
    /\ pc' = "stored"
    /\ UNCHANGED <<text, murl, limit, hop, followed, body, buffer, refusal, connected, opening>>

(* fetch: the scheme is checked once more before anything is sent.          *)
AtAuthority ==
    LET url == WellKnownUrl(murl)
    IN  /\ pc = "parsed" /\ murl.authority.host # Local
        /\ place' = url
        /\ IF url.scheme = "https" \/ IsLoopback(url.authority.host)
           THEN pc' = "asking" /\ hop' = url.scheme /\ UNCHANGED refusal
           ELSE Fail("scheme") /\ UNCHANGED hop
        /\ UNCHANGED <<text, murl, limit, followed, body, buffer, connected, opening>>

(* Mutant: a mapped address is judged as an address of its own.             *)
MutIpAllowedMapped(address, loopback) ==
    LET kind == IF address.mapped THEN "public" ELSE address.kind
    IN  kind = IF loopback THEN "loopback" ELSE "public"

(* ip_allowed: an IPv4-mapped address is judged as the one it carries.      *)
IpAllowed(address, loopback) == address.kind = IF loopback THEN "loopback" ELSE "public"

(* The agent is https_only when the first URL was https.                    *)
MutHttpsOnlyOff == FALSE
HttpsOnly == place.scheme = "https"

(* Each request resolves the name anew, through GuardedResolver.            *)
Connect ==
    /\ pc = "asking"
    /\ HttpsOnly => hop = "https"
    /\ \E answer \in SUBSET Addresses :
         LET allowed == {a \in answer : IpAllowed(a, IsLoopback(place.authority.host))}
         IN  IF allowed = {} THEN Fail("address") /\ UNCHANGED connected
             ELSE /\ \E a \in allowed : connected' = connected \cup {[scheme |-> hop, to |-> a]}
                  /\ pc' = "waiting" /\ UNCHANGED refusal
    /\ UNCHANGED <<text, murl, place, limit, hop, followed, body, buffer, opening>>

Downgraded ==
    /\ pc = "asking"
    /\ HttpsOnly /\ hop = "http"
    /\ Fail("downgrade")
    /\ UNCHANGED <<text, murl, place, limit, hop, followed, body, buffer, connected, opening>>

(* The value for ureq, which counts differently (external: ureq gives up    *)
(* when the redirects followed plus one reach its setting, and follows none *)
(* and is content with the 3xx when the setting is 0).                      *)
MutUreqRedirectsAsIs(n) == n
UreqRedirects(n) == IF n = 0 THEN 0 ELSE n + 1

Redirected ==
    /\ pc = "waiting"
    /\ IF UreqRedirects(limit) = 0 \/ followed + 1 >= UreqRedirects(limit)
       THEN Fail("redirect") /\ UNCHANGED <<hop, followed>>
       ELSE /\ followed' = followed + 1
            /\ hop' \in {"http", "https"}
            /\ pc' = "asking" /\ UNCHANGED refusal
    /\ UNCHANGED <<text, murl, place, limit, body, buffer, connected, opening>>

Answered ==
    /\ pc = "waiting"
    /\ \E n \in 0 .. MaxBody : body' = n
    /\ pc' = "reading"
    /\ UNCHANGED <<text, murl, place, limit, hop, followed, buffer, refusal, connected, opening>>

(* Any other status, a broken connection, the timeout of the whole fetch.   *)
Broken ==
    /\ pc \in {"waiting", "reading"}
    /\ Fail("transport")
    /\ UNCHANGED <<text, murl, place, limit, hop, followed, body, buffer, connected, opening>>

(* read_capped reads one byte more than it accepts.                         *)
MutReadAtMostCap == Cap
ReadAtMost == Cap + 1

Read ==
    /\ pc = "reading"
    /\ buffer < body /\ buffer < ReadAtMost
    /\ buffer' = buffer + 1
    /\ UNCHANGED <<text, murl, place, pc, limit, hop, followed, body, refusal, connected, opening>>

ReadAll ==
    /\ pc = "reading"
    /\ buffer = body \/ buffer = ReadAtMost
    /\ IF buffer > Cap THEN Fail("size") ELSE pc' = "fetched" /\ UNCHANGED refusal
    /\ UNCHANGED <<text, murl, place, limit, hop, followed, body, buffer, connected, opening>>

-----------------------------------------------------------------------------
(* A target of another kind. *)

Validate ==
    /\ pc = "offered"
    /\ IF ValidTarget(text.kind, text.chars)
       THEN pc' = "valid" /\ UNCHANGED refusal
       ELSE Fail("text")
    /\ UNCHANGED <<text, place, opening, fetching>>

(* dispatch_one: a path is expanded and has to exist; any other target is   *)
(* passed on as it is.                                                      *)
Expand ==
    LET path == ExpandPath(opener.os, opener.home, text.chars)
    IN  /\ pc = "valid"
        /\ IF text.kind = "custom" THEN place' = text.chars /\ pc' = "expanded" /\ UNCHANGED refusal
           ELSE IF path = Error THEN Fail("expansion") /\ UNCHANGED place
           ELSE /\ place' = path
                /\ \/ pc' = "expanded" /\ UNCHANGED refusal
                   \/ Fail("unavailable")
        /\ UNCHANGED <<text, opening, fetching>>

Argv ==
    IF text.kind = "file" THEN OpenWith(opener.open, place)
    ELSE Substitute(opener.handler, place)

Launch ==
    /\ pc = "expanded"
    /\ IF text.kind # "file" /\ opener.handler = None THEN Fail("handler") /\ UNCHANGED argv
       ELSE IF ~HasProgram(Argv) THEN Fail("program") /\ UNCHANGED argv
       ELSE IF Error \in ToSet(PushArgs(opener.os, Argv)) THEN Fail("argument") /\ UNCHANGED argv
       ELSE \/ /\ argv' = <<Argv[1]>> \o PushArgs(opener.os, Argv)
               /\ pc' = "opened" /\ UNCHANGED refusal
            \/ Fail("spawn") /\ UNCHANGED argv
    /\ UNCHANGED <<text, place, opener, fetching>>

Next ==
    \/ ParseText \/ InStore \/ AtAuthority \/ Connect \/ Downgraded
    \/ Redirected \/ Answered \/ Broken \/ Read \/ ReadAll
    \/ Validate \/ Expand \/ Launch

Spec == Init /\ [][Next]_vars

-----------------------------------------------------------------------------
(* The mURLs some text parses to, without selector and query, and where     *)
(* their manifests are looked for.                                          *)
Bare(m) == [m EXCEPT !.query = None, !.selector = None]
Named == {Bare(m) : m \in {Parse(t) : t \in Texts} \ {Error}}
Files == {<<ManifestPath(m), m>> : m \in {n \in Named : n.authority.host = Local}}
Urls == {<<WellKnownUrl(m), m>> : m \in {n \in Named : n.authority.host # Local}}

Known == murl \notin {None, Error}
Host == murl.authority.host

(* murl.rs:230-236, the struct's invariants, "enforced by Murl::parse,      *)
(* relied upon everywhere else", and the types of the fetch.                *)
TypeOK ==
    /\ limit \in 0 .. MaxTries /\ pc \in Phases
    /\ Known =>
        /\ Len(murl.name) \in 1 .. MaxSegments
        /\ \A i \in DOMAIN murl.name :
              /\ Len(murl.name[i]) \in 1 .. MaxSegmentBytes
              /\ ToSet(murl.name[i]) \cap Undecodable = {}
              /\ murl.name[i] \notin {<<".">>, <<".", ".">>}
        /\ Host \in Hosts \cup {Local}
        /\ murl.version = Latest \/ Len(murl.version) \in 1 .. 3
        /\ murl.selector # None =>
              \A k \in DOMAIN murl.selector :
                  ValidItem(murl.selector[k].kind, Escaped(murl.selector[k].value, Allowed("id")))
    /\ hop \in {None, "http", "https"}
    /\ followed \in 0 .. MaxTries
    /\ body \in 0 .. MaxBody /\ buffer \in 0 .. body
    /\ connected \subseteq [scheme : {"http", "https"}, to : Addresses]

(* murl.rs:334-342, "The canonical form must itself be parseable": read     *)
(* again, it is the same mURL, whatever was escaped how, at every length.   *)
CanonicalFixedPoint == pc = "parsed" => Parse(Display(murl)) = murl

(* fetch.rs:34-59, 82-94: two names have one URL or one file only if they   *)
(* are one name, however they are spelt. murl name list, fetch.rs:159-163,  *)
(* shows a file as the name it is the file of, or not at all (a name of     *)
(* many `~`, which the file escapes and the name does not, may get too long *)
(* to be read back).                                                        *)
PlacesAreDistinct ==
    /\ pc = "stored" =>
        /\ Parse(ListedAs(place)) \in {Bare(murl), Error}
        /\ \A file \in Files : file[1] = place => file[2] = Bare(murl)
    /\ pc = "asking" /\ followed = 0 =>
        \A url \in Urls : url[1] = place => url[2] = Bare(murl)

(* lib.rs:9-23: over all redirects and name server answers, plain http goes *)
(* from a loopback authority to this machine only, and any other authority  *)
(* is asked over https, at public addresses only.                           *)
FetchStaysInBounds ==
    /\ connected # {} => Host \in Hosts
    /\ \A c \in connected :
          IF Host \in LoopbackHosts THEN c.to.kind = "loopback"
          ELSE c.scheme = "https" /\ c.to.kind = "public"

(* lib.rs:94-97, "so that exactly max_redirects redirects are followed":    *)
(* never more, and one is refused only when that many have been followed.   *)
RedirectsExact ==
    /\ followed <= limit
    /\ refusal = "redirect" => followed = limit

(* lib.rs:105-117: what is taken for a manifest is the whole body and fits, *)
(* a body that fits is never refused for its size, and no more than one     *)
(* byte past the cap is held.                                               *)
WholeOrRefused ==
    /\ buffer <= Cap + 1
    /\ pc = "fetched" => buffer = body /\ body <= Cap
    /\ refusal = "size" => body > Cap

(* Both limits of a fetch hold to the unit: neither one redirect or byte    *)
(* more is let through, nor one less.                                       *)
LimitsExact == RedirectsExact /\ WholeOrRefused

(* dispatch.rs:79-90, manifest.rs:844-862: what opens is what the prompt    *)
(* showed. A `~` target is the directory below the home directory that its  *)
(* text names, read by this system's separators; no target goes up, to a    *)
(* share or (but for `Z:/...` on Unix) to wherever the program runs. What   *)
(* the validator lets through the expansion refuses only without a home.    *)
OpensWhatIsShown ==
    LET chars == text.chars
        read == Reads(opener.os, place)
    IN  /\ pc \in {"expanded", "opened"} /\ text.kind # "custom" =>
            /\ chars[1] = "~" =>
                  /\ read.root = "home"
                  /\ read.steps = Dropping(Parts(Tail(chars), SeparatorsOf(opener.os)), {<<>>})
            /\ <<".", ".">> \notin ToSet(read.steps)
            /\ read.root = "here" => opener.os = "unix" /\ StartsWithDrive(chars)
            /\ read.root # "share"
        /\ refusal = "expansion" => ~opener.home

(* dispatch.rs:138-151, 430-437: a program runs with the arguments it was   *)
(* configured with and the target as, or inside, one of them, whatever the  *)
(* target's characters and however the program splits its command line; a   *)
(* target never becomes the program for want of one.                        *)
ProgramGetsTheTarget ==
    pc = "opened" =>
        LET handler == IF text.kind = "file" THEN opener.open ELSE opener.handler
            asked == IF text.kind # "file" /\ Mentioned(handler) THEN handler
                     ELSE Append(handler, <<"{target}">>)
            got == <<argv[1]>> \o Received(opener.os, argv[1], Tail(argv))
        IN  /\ handler # <<>> /\ HasProgram(argv)
            /\ got = [k \in DOMAIN asked |->
                         IF text.kind = "file" /\ k < Len(asked) THEN asked[k]
                         ELSE Filled(asked[k], place)]
=============================================================================
