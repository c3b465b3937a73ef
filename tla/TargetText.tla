------------------------------ MODULE TargetText ------------------------------
(***************************************************************************)
(* The targets of the kinds file, dir, terminal and custom:<name>: which    *)
(* texts a manifest may have (validate_target), what they become before a   *)
(* program gets them (dispatch.rs), and how the system reads the result     *)
(* (external: std::path, Windows Explorer).                                 *)
(*                                                                         *)
(* A text is a sequence of characters; the home directory, the name of a    *)
(* program and the placeholder {target} are one character each. `os` is     *)
(* "unix" or "windows".                                                     *)
(***************************************************************************)
EXTENDS MurlText

CONSTANT Characters    \* the characters of targets and of configured programs

Separators == {"/", "\\"}
DriveLetters == {"a"}   \* stands for every ASCII letter

(* The home directory and the mark "cut" are no characters a user writes.   *)
ASSUME CharactersAssumption ==
    /\ Separators \subseteq Characters
    /\ {"home", "cut"} \cap Characters = {}
    /\ Error \notin Seq(Characters \cup {"home", "\""})

DotNames == {<<".">>, <<".", ".">>}

Parts(text, separators) ==
    LET cuts == {0, Len(text) + 1} \cup {i \in DOMAIN text : text[i] \in separators}
        cut(k) == CHOOSE i \in cuts : Cardinality({j \in cuts : j < i}) = k
    IN  [k \in 1 .. Cardinality(cuts) - 1 |-> SubSeq(text, cut(k - 1) + 1, cut(k) - 1)]

(* SelectSeq of the elements that are not dropped.                          *)
Dropping(seq, dropped) ==
    FlattenSeq([i \in DOMAIN seq |-> IF seq[i] \in dropped THEN <<>> ELSE <<seq[i]>>])

(* strip_suffix: one separator at the end adds no segment.                  *)
WithoutTrailing(text, separators) ==
    IF text # <<>> /\ Last(text) \in separators THEN Front(text) ELSE text

StartsWithDrive(segment) ==
    Len(segment) >= 2 /\ segment[1] \in DriveLetters /\ segment[2] = ":"

-----------------------------------------------------------------------------
(* How a system reads a path (external). A path is rooted at the home       *)
(* directory, at the root, on a drive, at a network share or, "here", in    *)
(* the working directory; `.` and empty steps lead nowhere.                 *)

SeparatorsOf(os) == IF os = "windows" THEN Separators ELSE {"/"}

RootOf(os, path) ==
    CASE path = <<>> -> "here"
      [] path[1] = "home" -> "home"
      [] path[1] \in SeparatorsOf(os) ->
            IF os = "windows" /\ Len(path) > 1 /\ path[2] \in Separators THEN "share" ELSE "root"
      [] os = "windows" /\ StartsWithDrive(path) -> "drive"
      [] OTHER -> "here"

AfterRoot(os, path) ==
    CASE RootOf(os, path) = "home" -> Tail(path)
      [] RootOf(os, path) = "drive" -> SubSeq(path, 3, Len(path))
      [] OTHER -> path

Reads(os, path) ==
    [root |-> RootOf(os, path),
     steps |-> Dropping(Parts(AfterRoot(os, path), SeparatorsOf(os)), {<<>>, <<".">>})]

(* Component::Normal for every component: a relative path that does not     *)
(* begin with `.` and goes nowhere up.                                      *)
OnlyNames(os, path) ==
    /\ RootOf(os, path) = "here"
    /\ Parts(path, SeparatorsOf(os))[1] # <<".">>
    /\ <<".", ".">> \notin ToSet(Parts(path, SeparatorsOf(os)))

(* PathBuf::push: what is not relative replaces the path.                   *)
Push(os, path, segment) ==
    IF RootOf(os, segment) # "here" THEN segment
    ELSE IF Last(path) \in SeparatorsOf(os) THEN path \o segment
         ELSE path \o <<IF os = "windows" THEN "\\" ELSE "/">> \o segment

-----------------------------------------------------------------------------
(* validate_target. *)

IsNetworkPath(text) == Len(text) >= 2 /\ text[1] \in Separators /\ text[2] \in Separators

(* Mutant: a drive inside a home path is let through.                       *)
MutPlainHomeSegments(rest) ==
    \A segment \in ToSet(Parts(WithoutTrailing(rest, Separators), Separators)) : segment # <<>>

PlainHomeSegments(rest) ==
    \A segment \in ToSet(Parts(WithoutTrailing(rest, Separators), Separators)) :
        segment # <<>> /\ ~StartsWithDrive(segment)

(* The length of what makes a path absolute; 0 when nothing does.           *)
AbsolutePrefix(text) ==
    CASE text[1] = "/" -> 1
      [] text[1] = "~" /\ Len(text) >= 2 /\ text[2] = "/" -> 2
      [] StartsWithDrive(text) /\ Len(text) >= 3 /\ text[3] \in Separators -> 3
      [] OTHER -> 0

ValidPathTarget(text) ==
    LET prefix == AbsolutePrefix(text)
        body == SubSeq(text, prefix + 1, Len(text))
    IN  /\ ~IsNetworkPath(text)
        /\ prefix = 2 /\ body # <<>> => PlainHomeSegments(body)
        /\ \/ text = <<"~">>
           \/ prefix # 0 /\ ToSet(Parts(body, Separators)) \cap DotNames = {}

ValidCustomTarget(text) == text[1] # "-" /\ ~IsNetworkPath(text)

ValidTarget(kind, text) ==
    /\ text # <<>>
    /\ IF kind = "custom" THEN ValidCustomTarget(text) ELSE ValidPathTarget(text)

-----------------------------------------------------------------------------
(* OpenerConfig::expand_path. *)

ExpandPath(os, home, text) ==
    LET rest == WithoutTrailing(SubSeq(text, 3, Len(text)), {"/"})
        segments == Parts(rest, {"/"})
    IN  IF text[1] # "~" THEN text
        ELSE IF \/ ~home
                \/ Len(text) > 1 /\ text[2] # "/"
                \/ rest # <<>> /\ \E segment \in ToSet(segments) :
                      segment \in {<<>>} \cup DotNames \/ ~OnlyNames(os, segment)
        THEN Error
        ELSE IF rest = <<>> THEN <<"home">>
        ELSE FoldLeft(LAMBDA path, segment : Push(os, path, segment), <<"home">>, segments)

-----------------------------------------------------------------------------
(* The arguments of the program. *)

(* platform_default: `open` stands for the openers of Unix systems.         *)
PlatformDefault(os) == IF os = "windows" THEN <<<<"explorer.exe">>>> ELSE <<<<"open">>>>

OpenWith(argv, target) == IF argv = <<>> THEN <<>> ELSE Append(argv, target)

Filled(part, target) ==
    FlattenSeq([i \in DOMAIN part |-> IF part[i] = "{target}" THEN target ELSE <<part[i]>>])
Mentioned(template) == \E part \in ToSet(template) : "{target}" \in ToSet(part)

Substitute(template, target) ==
    IF template = <<>> THEN <<>>
    ELSE IF Mentioned(template) THEN [k \in DOMAIN template |-> Filled(template[k], target)]
    ELSE Append(template, target)

HasProgram(argv) == argv # <<>> /\ ~(ToSet(argv[1]) \subseteq {" "})

IsExplorer(program) == Last(Parts(program, Separators)) \in {<<"explorer.exe">>, <<"explorer">>}

MutExplorerArgument(arg) == arg
ExplorerArgument(arg) == IF "\"" \in ToSet(arg) THEN Error ELSE <<"\"">> \o arg \o <<"\"">>

(* RealLauncher::launch: the command line's arguments after the program.    *)
PushArgs(os, argv) ==
    IF os = "windows" /\ IsExplorer(argv[1])
    THEN [k \in DOMAIN Tail(argv) |-> ExplorerArgument(Tail(argv)[k])]
    ELSE Tail(argv)

(* What the program makes of them (external): Explorer splits at commas     *)
(* outside quotes, which toggle; any other gets them as they are.           *)
Received(os, program, args) ==
    LET quoted(arg, i) == Cardinality({j \in 1 .. i : arg[j] = "\""}) % 2 = 1
        marked(arg) == [i \in DOMAIN arg |->
                           IF arg[i] = "," /\ ~quoted(arg, i) THEN "cut" ELSE arg[i]]
        split(arg) == [k \in DOMAIN Parts(marked(arg), {"cut"}) |->
                          Dropping(Parts(marked(arg), {"cut"})[k], {"\""})]
    IN  IF os = "windows" /\ IsExplorer(program)
        THEN FlattenSeq([k \in DOMAIN args |-> split(args[k])])
        ELSE args
=============================================================================
