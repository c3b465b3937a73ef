---------------------------- MODULE SocketStartup ----------------------------
(***************************************************************************)
(* How daemons come to listen on the user's one socket path: murl-daemon,   *)
(* `run` in server.rs and `prepare_socket_dir` in socket.rs.                *)
(*                                                                         *)
(* A daemon that is killed leaves its socket file behind, so a starting     *)
(* daemon connects to what it finds: a live daemon answers and is left      *)
(* alone, a dead one's file is removed. Every call on the path is a step,   *)
(* and a daemon may be killed between any two.                             *)
(***************************************************************************)
EXTENDS Naturals

CONSTANTS
    Nobody,       \* no file; nobody
    Daemons,    \* the processes that may run `murl-daemon run`
    Overlap,    \* whether a daemon may start while another is starting
    MaxStarts   \* bound on the number of starts

ASSUME NobodyAssumption ==
    Nobody \notin Daemons \cup [by : Daemons \cup {Nobody}, private : BOOLEAN]
ASSUME OverlapAssumption == Overlap \in BOOLEAN
ASSUME MaxStartsAssumption == MaxStarts \in Nat

VARIABLES
    dir,     \* the directory of the socket
    file,    \* the socket file: Nobody, or who listens on it and its mode
    pc,      \* where each daemon is
    starts   \* how many starts there have been

startupVars == <<dir, file, pc, starts>>

Starting == {"preparing", "looking", "connecting", "removing", "binding", "protecting"}
Stopped == {"off", "refused", "error"}

StartupInit ==
    /\ dir \in {"absent", "shared", "private", "symlink"}
    /\ file = Nobody
    /\ pc = [d \in Daemons |-> "off"]
    /\ starts = 0

To(d, label) == pc' = [pc EXCEPT ![d] = label]

Run(d) ==
    /\ pc[d] \in Stopped
    /\ starts < MaxStarts
    /\ Overlap \/ \A e \in Daemons : pc[e] \notin Starting
    /\ starts' = starts + 1
    /\ To(d, "preparing")
    /\ UNCHANGED <<dir, file>>

(* prepare_socket_dir: the directory is created and closed to others, but a *)
(* symbolic link is refused.                                               *)
PrepareDir(d) ==
    /\ pc[d] = "preparing"
    /\ dir' = IF dir = "symlink" THEN dir ELSE "private"
    /\ To(d, IF dir = "symlink" THEN "refused" ELSE "looking")
    /\ UNCHANGED <<file, starts>>

(* Mutant of Look: a file that is found is taken for a stale one.           *)
MutLookAssumesStale(d) ==
    /\ pc[d] = "looking"
    /\ To(d, IF file = Nobody THEN "binding" ELSE "removing")
    /\ UNCHANGED <<dir, file, starts>>

Look(d) ==
    /\ pc[d] = "looking"
    /\ To(d, IF file = Nobody THEN "binding" ELSE "connecting")
    /\ UNCHANGED <<dir, file, starts>>

(* Mutant of Connect: a dead socket is left for bind to deal with.          *)
MutConnectKeepsStale(d) ==
    /\ pc[d] = "connecting"
    /\ To(d, IF file # Nobody /\ file.by # Nobody THEN "refused" ELSE "binding")
    /\ UNCHANGED <<dir, file, starts>>

(* A connection succeeds exactly when somebody listens behind the file.     *)
Connect(d) ==
    /\ pc[d] = "connecting"
    /\ To(d, IF file # Nobody /\ file.by # Nobody THEN "refused" ELSE "removing")
    /\ UNCHANGED <<dir, file, starts>>

(* Whatever is at the path by now is removed; nothing there is an error.    *)
Remove(d) ==
    /\ pc[d] = "removing"
    /\ file' = Nobody
    /\ To(d, IF file = Nobody THEN "error" ELSE "binding")
    /\ UNCHANGED <<dir, starts>>

(* bind creates the file, with the process's default mode, and listens; it  *)
(* fails if there is a file.                                               *)
Bind(d) ==
    /\ pc[d] = "binding"
    /\ file' = IF file = Nobody THEN [by |-> d, private |-> FALSE] ELSE file
    /\ To(d, IF file = Nobody THEN "protecting" ELSE "error")
    /\ UNCHANGED <<dir, starts>>

(* The mode is set by path, on whatever file is there. An error ends the    *)
(* daemon and its listener.                                                *)
Protect(d) ==
    /\ pc[d] = "protecting"
    /\ file' = IF file = Nobody THEN Nobody ELSE [file EXCEPT !.private = TRUE]
    /\ To(d, IF file = Nobody THEN "error" ELSE "listening")
    /\ UNCHANGED <<dir, starts>>

(* Killed, or ended by an error of the system that no file explains (no     *)
(* permission, no descriptors left): nothing removes the file.              *)
Kill(d) ==
    /\ pc[d] \notin Stopped
    /\ file' = IF file # Nobody /\ file.by = d THEN [file EXCEPT !.by = Nobody] ELSE file
    /\ To(d, "off")
    /\ UNCHANGED <<dir, starts>>

Step(d) ==
    PrepareDir(d) \/ Look(d) \/ Connect(d) \/ Remove(d) \/ Bind(d) \/ Protect(d)

StartupNext == \E d \in Daemons : Run(d) \/ Step(d) \/ Kill(d)

StartupSpec == StartupInit /\ [][StartupNext]_startupVars

-----------------------------------------------------------------------------
(* Properties.                                                             *)

(* The path and the daemons (server.rs:201-219).                            *)
TypeOK ==
    /\ dir \in {"absent", "shared", "private", "symlink"}
    /\ file \in [by : Daemons \cup {Nobody}, private : BOOLEAN] \cup {Nobody}
    /\ pc \in [Daemons -> Starting \cup Stopped \cup {"listening"}]
    /\ starts \in 0 .. MaxStarts

Bound == {d \in Daemons : pc[d] \in {"protecting", "listening"}}

(* server.rs:199-200, "Refuses to clobber a live socket": the file at the   *)
(* path stays that of the daemon that listens, whoever starts meanwhile.    *)
NoClobber == \A d \in Bound : file # Nobody /\ file.by = d

(* server.rs:204-214: a socket file some daemon left behind, at whatever    *)
(* point it was killed, never keeps the next one from starting.             *)
StaleNeverBlocks == \A d \in Daemons : pc[d] # "error"

(* server.rs:200, docs/daemon.md D-1: the socket is only ever in a          *)
(* directory closed to others, and served only once it is closed itself.    *)
PrivateEndpoint ==
    /\ file # Nobody => dir = "private"
    /\ \A d \in Daemons : pc[d] = "listening" => file # Nobody /\ file.private
=============================================================================
