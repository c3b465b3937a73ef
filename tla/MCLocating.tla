----------------------------- MODULE MCLocating -----------------------------
(* Every path of up to three tokens for a local name and of two for a       *)
(* remote one, and texts with a selector, a query, a bad part or a length   *)
(* at a limit.                                                              *)
EXTENDS Locating

CONSTANTS vendor, localhost, bad

Authority(host, port, upper) == [host |-> host, port |-> port, upper |-> upper]
Text(authority, tail) == [scheme |-> TRUE, authority |-> authority, tail |-> tail]

Home == Authority(Local, None, FALSE)
Vendor == Authority(vendor, None, FALSE)

Tokens == {Plain(c) : c \in {"w", "~", ".", "@", "1", ",", "/", ".murl.json"}}
          \cup {Escape("@"), Escape("/"), LowerEscape("w"), LowerEscape("~")}
Paths(n) == {<<Plain("/")>> \o s : s \in BoundedSeq(Tokens, n)}

Word == <<Plain("/"), Plain("w")>>
P(chars) == [i \in DOMAIN chars |-> Plain(chars[i])]

MCAlphabet ==
    Unreserved \cup Marks \cup Undecodable \cup {"%"}

Tails ==
    {Word \o P(s) : s \in {
        <<"#">>, <<"#", "w">>, <<"#", "_">>, <<"#", "w", "_">>, <<"#", "W">>, <<"#", "tag=", "-">>,
        <<"#", "role=", "-">>, <<"#", "role=", "w">>, <<"#", "role=", "w", "_">>, <<"#", "w", ",">>,
        <<"#", "w", ",", "tag=", "w">>, <<"#", "w", ",", "w", ",", "w">>, <<"#", "w", "w", "w">>,
        <<"?">>, <<"?", "@">>, <<"?", "/", "@">>, <<"?", ",", "#", "w">>, <<"#", "w", "?", "w">>,
        <<"@", "latest">>, <<"@", "0">>, <<"@", "0", "1">>, <<"@", "1", ".", "0">>,
        <<"@", "1", ".", "1", ".", "1", ".", "1">>, <<"@", "1", "@", "1">>, <<"@">>,
        <<"/", "w", "/", "w">>, <<"w", "w">>, <<"\\">>, <<"%">>, <<"control">>}}
    \cup {Word \o s : s \in {
        <<Escape("control")>>, <<Escape("not UTF-8")>>, <<Escape("\\")>>, <<Escape("%")>>,
        P(<<"/", ",", ",">>), P(<<"/", ",", ",", "#", "w">>), P(<<"/", ",", "@", "1">>),
        P(<<",", "@", "1", "#", "w">>), <<LowerEscape(","), Plain("@"), Plain("1")>>,
        <<Plain("@"), Escape("1")>>, <<Plain("#"), Escape("w")>>}}
    \cup {P(<<"/", "W", "@", "1">>), P(<<"w">>), P(<<"/", "/", "w">>), P(<<"/", "?", "w">>),
          <<Plain("/"), Plain("."), Escape(".")>>, <<Plain("/"), Escape("W"), Escape("w")>>}

MCTexts ==
    {Text(Home, tail) : tail \in Paths(3) \cup Tails}
    \cup {Text(Vendor, tail) : tail \in Paths(2) \cup Tails}
    \cup {Text(a, Word) : a \in {Authority(vendor, None, TRUE), Authority(vendor, 65535, FALSE),
             Authority(vendor, 0, FALSE), Authority(vendor, 65536, FALSE),
             Authority(localhost, 80, FALSE), Authority(localhost, None, TRUE),
             Authority(Local, 80, FALSE), Authority(Local, None, TRUE),
             Authority(bad, None, FALSE)}}
    \cup {[Text(Home, Word) EXCEPT !.scheme = FALSE]}

MCAddresses == [kind : {"loopback", "private", "public"}, mapped : BOOLEAN]

PathCharacters == {"/", "\\", ":", ".", "a", ",", "\""}
MCCharacters ==
    PathCharacters \cup {"~", "-", " ", "{target}", "term", "open", "explorer", "explorer.exe"}
Beginnings == {<<>>, <<"~">>, <<"~", "/">>, <<"a", ":">>}
PathTexts(n) == {start \o rest : start \in Beginnings, rest \in BoundedSeq(PathCharacters, n)}

Handlers ==
    {None, <<>>, <<<<" ">>>>, <<<<"term">>, <<"-", "{target}", ",">>, <<"-">>>>, <<<<"term">>>>,
     <<<<"a", "\\", "explorer">>, <<"-", ",", "{target}">>>>}
Opens(os) == {PlatformDefault(os), <<>>, <<<<"explorer.exe">>, <<"{target}">>>>}
Openers(os) == [os : {os}, home : BOOLEAN, open : Opens(os), handler : Handlers]

MCJobs ==
    UNION {[target : [kind : {"file"}, chars : PathTexts(4)],
            opener : {[os |-> os, home |-> TRUE, open |-> PlatformDefault(os), handler |-> None]}]
           \cup [target : [kind : {"file", "terminal", "custom"},
                          chars : PathTexts(1) \cup {<<"-">>, <<"\\", "/">>}], opener : Openers(os)]
           : os \in {"unix", "windows"}}
=============================================================================
