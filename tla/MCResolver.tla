----------------------------- MODULE MCResolver -----------------------------
(* Worlds of six names: two on the network at one authority, one at a       *)
(* second authority, a loopback name, a local name and a pinned version.    *)
(* Each name has a few candidate documents, chosen so that the worlds hold  *)
(* shared names (diamonds), cycles of length one to three, names nearer     *)
(* than their source, duplicates within and across manifests, dependencies  *)
(* on containers, pins that hold and pins that do not, and the errors.      *)
EXTENDS Resolver, Calendar

CONSTANTS h1, h2, h3, h4, h5, h6, h7, k1, k2, tx, ty, tz

NameOf(a, p, v) == [authority |-> a, path |-> p, version |-> v]
RootName == NameOf("acme", "root", "latest")
TeamName == NameOf("acme", "team", "latest")
OldTeam  == NameOf("acme", "team", "1.0")
OtherName == NameOf("other", "base", "latest")
LoopName == NameOf("localhost", "dev", "latest")
HomeName == NameOf("local", "home", "latest")

MCNames == {RootName, TeamName, OldTeam, OtherName, LoopName, HomeName}
MCResourceIds == {"a", "b", "c"}
MCKinds == {"https", "file"}
MCTargets == {tx, ty, tz}
Docs == <<"role", "docs">>
Work == <<"tag", "work">>
MCMarks == {Docs, Work}
MCHashes == {h1, h2, h3, h4, h5, h6, h7}
MCKeys == {k1, k2}
MCTrustedKeys == {<<"acme", k1>>, <<"other", k2>>}

(* A resource that opens a target, and one that nests a name.               *)
Open(id, target) ==
    [id |-> id, kind |-> "https", target |-> target, order |-> 0,
     dependsOn |-> {}, pin |-> None, marks |-> {}]
Nested(id, name) == [Open(id, name) EXCEPT !.kind = "murl"]

Midnight(year, month, day) ==
    [year |-> year, month |-> month, day |-> day, hour |-> 0, minute |-> 0, second |-> 0]
Now == Epoch([Midnight(2028, 2, 28) EXCEPT !.hour = 23, !.minute = 59, !.second = 59])
LeapDay == Midnight(2028, 2, 29)

Doc(hash, rs) ==
    [wellFormed |-> TRUE, declares |-> None, signer |-> None, forged |-> FALSE,
     window |-> Window(Now, {Midnight(2027, 12, 31)}, {LeapDay}), hash |-> hash, resources |-> rs]

(* The root: a diamond whose halves share a name and a resource; a          *)
(* container another resource waits for; a local name; a pinned version;    *)
(* itself; two names for one container.                                    *)
RootDocs ==
    {Doc(h1, <<Nested("a", TeamName), Nested("b", OtherName), Open("c", tx)>>),
     Doc(h1, <<[Open("a", tx) EXCEPT !.dependsOn = {"b"}, !.marks = {Docs}],
               [Nested("b", TeamName) EXCEPT !.dependsOn = {"c"}, !.pin = h2],
               [Open("c", ty) EXCEPT !.order = 2, !.kind = "file"]>>),
     Doc(h1, <<Nested("a", LoopName), [Nested("b", OldTeam) EXCEPT !.order = 1],
               [Nested("c", TeamName) EXCEPT !.order = 2]>>),
     Doc(h1, <<Nested("a", OtherName), [Nested("b", OtherName) EXCEPT !.pin = h2],
               [Open("c", tx) EXCEPT !.dependsOn = {"a"}, !.marks = {Work}]>>),
     [Doc(h1, <<Open("a", tx), [Open("b", tx) EXCEPT !.kind = "file"], Open("c", tx)>>)
         EXCEPT !.window = Window(Now, {}, {Midnight(2028, 2, 28)}), !.signer = k1, !.declares = RootName],
     Doc(h1, <<[Nested("a", OtherName) EXCEPT !.pin = h4], Open("b", tx)>>),
     Doc(h1, <<Nested("a", RootName)>>)}

TeamDocs ==
    {Doc(h2, <<[Open("a", tx) EXCEPT !.marks = {Docs}], Nested("b", OtherName)>>),
     Doc(h2, <<[Open("a", ty) EXCEPT !.dependsOn = {"b"}], Nested("b", LoopName),
               [Open("c", tz) EXCEPT !.marks = {Work}]>>),
     [Doc(h2, <<Open("a", tz), Nested("b", RootName)>>) EXCEPT !.signer = k1],
     Doc(h2, <<Open("a", tz), [Open("b", tz) EXCEPT !.kind = "file"],
               [Open("c", tx) EXCEPT !.kind = "file", !.dependsOn = {"a"}]>>),
     [Doc(h2, <<Nested("a", OtherName), [Open("b", ty) EXCEPT !.kind = "file"],
                [Open("c", ty) EXCEPT !.dependsOn = {"a"}, !.marks = {Docs}]>>)
         EXCEPT !.window = Window(Now, {LeapDay}, {})],
     [Doc(h2, <<Open("a", tz)>>) EXCEPT !.signer = k2, !.forged = TRUE],
     Doc(h2, <<[Open("a", tx) EXCEPT !.dependsOn = {"b"}],
               [Open("b", ty) EXCEPT !.dependsOn = {"a"}]>>)}

OtherDocs ==
    {[Doc(h3, <<Open("a", ty), [Open("b", tx) EXCEPT !.kind = "file"]>>)
         EXCEPT !.signer = k2],
     [Doc(h3, <<[Nested("a", TeamName) EXCEPT !.pin = h2], Open("b", tz)>>)
         EXCEPT !.signer = k1],
     Doc(h3, <<Open("a", ty), Nested("b", HomeName)>>),
     Doc(h3, <<Open("a", tz), [Open("b", tx) EXCEPT !.order = 1],
               [Open("c", ty) EXCEPT !.dependsOn = {"b"}, !.marks = {Work}]>>),
     [Doc(h3, <<Open("a", ty)>>) EXCEPT !.declares = TeamName],
     None}

LoopDocs ==
    {Doc(h4, <<Open("a", tx), [Nested("b", OldTeam) EXCEPT !.pin = h5]>>),
     Doc(h4, <<Open("a", ty), Nested("b", HomeName)>>)}

MCWorlds ==
    {[n \in MCNames |->
        CASE n = RootName -> r
          [] n = TeamName -> t
          [] n = OldTeam -> [Doc(h5, <<Open("a", tz)>>) EXCEPT !.declares = OldTeam]
          [] n = OtherName -> o
          [] n = LoopName -> l
          [] n = HomeName -> Doc(h6, <<Nested("a", LoopName), Open("b", ty)>>)] :
        r \in RootDocs, t \in TeamDocs, o \in OtherDocs, l \in LoopDocs}

Ask(name, selector) == [name |-> name, file |-> None, selector |-> selector]

MCRequests ==
    {Ask(RootName, {}), Ask(RootName, {<<"id", "c">>}),
     Ask(RootName, {<<"id", "b">>, Docs}), Ask(RootName, {Work}),
     Ask(HomeName, {}),
     [name |-> None, selector |-> {},
      file |-> Doc(h7, <<Nested("a", HomeName), Nested("b", RootName)>>)]}
=============================================================================
