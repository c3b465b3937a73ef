-------------------------- MODULE MCDaemonService --------------------------
(* Two commands, so that one waits while the daemon serves the other, and a *)
(* peer that says nothing. The unit of time is a minute: the timeouts of    *)
(* 120, 180 and 300 seconds are 2, 3 and 5.                                 *)
EXTENDS DaemonService

CONSTANTS c1, c2

(* With --daemon the second command fails where the first falls back.       *)
MCModes == {[c \in Commands |-> IF c = c2 THEN "Require" ELSE "Auto"]}
=============================================================================
