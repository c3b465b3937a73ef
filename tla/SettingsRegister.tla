-------------------------- MODULE SettingsRegister --------------------------
(***************************************************************************)
(* What a settings file promises the commands that edit it one at a time:   *)
(* it is a register. Each command that ends well replaces the document by   *)
(* its own change of that very document, all at once; nothing else changes  *)
(* it, unless a command dies over its write, which makes the file           *)
(* unreadable until the user mends it.                                      *)
(***************************************************************************)
EXTENDS Naturals

CONSTANTS
    Values,      \* the documents
    Unreadable,
    Changes      \* <<v, w>>: some command turns document v into document w

VARIABLES
    value,
    edits        \* how often the user has written the file by hand

vars == <<value, edits>>

Init == value \in Values \cup {Unreadable} /\ edits = 0

Command == \E w \in Values : <<value, w>> \in Changes /\ value' = w /\ UNCHANGED edits

Spoil == value' = Unreadable /\ UNCHANGED edits

Edit == value' \in Values \cup {Unreadable} /\ edits' = edits + 1

Next == Command \/ Spoil \/ Edit

Spec == Init /\ [][Next]_vars
=============================================================================
