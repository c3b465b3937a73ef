-------------------------- MODULE MCSocketStartup --------------------------
(* Three daemons: one that may have been killed, one that listens and one   *)
(* that starts. Daemons are interchangeable.                                *)
EXTENDS SocketStartup, TLC

Symmetry == Permutations(Daemons)
=============================================================================
