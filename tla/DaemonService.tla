--------------------------- MODULE DaemonService ----------------------------
(***************************************************************************)
(* Commands (`murl open`) that go through the daemon, and the daemon that   *)
(* serves them one connection at a time: murl-cli, daemon_client.rs;        *)
(* murl-daemon, client.rs, server.rs and the timeouts of dialog_ui.rs.      *)
(*                                                                         *)
(* A command probes, then sends one `activate`; whatever goes wrong before  *)
(* a reply is complete makes it open the name itself. What one activation   *)
(* does between its consent and its report is module Activation. Time runs  *)
(* in units that divide the three timeouts. The daemon may be killed and    *)
(* started again at any moment; a connection it has not accepted waits in   *)
(* the listener's backlog.                                                 *)
(***************************************************************************)
EXTENDS Naturals, Sequences, FiniteSets

CONSTANTS
    None,            \* no value
    Commands,        \* invocations of `murl open`, one mURL each
    MutePeers,       \* peers that connect and say nothing
    ClientTimeout,   \* read timeout of a client, 120 s
    DialogTimeout,   \* DIALOG_TIMEOUT, 180 s
    ReadTimeout,     \* read timeout of the daemon, 300 s
    Modes,           \* mode[c]: "Auto", or "Require" for --daemon
    MaxCrashes       \* bound on the times the daemon is killed

(* A connection the daemon serves: how far it is, and what is to be written. *)
Responses == {"plan", "consent", "outcome", "error"}
Connections ==
    [peer : Commands \cup MutePeers, request : {"ping", "activate", "nothing"},
     stage : {"reading", "asking", "writing"}, lines : Seq(Responses)]

ASSUME PeersAssumption == None \notin Connections /\ Commands \cap MutePeers = {}
ASSUME ModesAssumption == Modes \subseteq [Commands -> {"Auto", "Require"}]
ASSUME TimeoutsAssumption ==
    /\ ClientTimeout \in Nat \ {0} /\ DialogTimeout \in Nat \ {0}
    /\ ReadTimeout \in Nat \ {0} /\ MaxCrashes \in Nat

VARIABLES
    mode,      \* how each command treats the daemon
    state,     \* state[c]: how far command c is
    waited,    \* waited[c]: for how long c's read has been waiting
    reply,     \* reply[c]: the response lines c has read
    exit,      \* exit[c]: what c's exit code reports, "none" before it exits
    why,       \* why[c]: when c gave the daemon up, "no" for not
    asked,     \* asked[c]: who has asked the user about c, in order
    opened,    \* opened[c]: who has launched the resources of c, in order
    surface,   \* the daemon's consent surface, detected when it starts
    up,        \* the daemon runs and listens
    backlog,   \* connections made and not accepted yet
    serving,   \* the connection being served, None for none
    age,       \* for how long the daemon has been waiting
    silent,    \* the mute peers that have not connected
    crashes    \* how often the daemon was killed

commandVars == <<mode, state, waited, reply, exit, why>>
effectVars == <<asked, opened>>
daemonVars == <<surface, up, backlog, serving, age, silent, crashes>>
vars == <<commandVars, effectVars, daemonVars>>

Reading == {"probing", "activating"}
Ended == {"handled", "failed", "done"}

Init ==
    /\ mode \in Modes
    /\ state = [c \in Commands |-> "start"]
    /\ waited = [c \in Commands |-> 0]
    /\ reply = [c \in Commands |-> <<>>]
    /\ exit = [c \in Commands |-> "none"]
    /\ why = [c \in Commands |-> "no"]
    /\ asked = [c \in Commands |-> <<>>]
    /\ opened = [c \in Commands |-> <<>>]
    /\ surface \in {"dialog", "terminal"}
    /\ up \in BOOLEAN
    /\ backlog = <<>>
    /\ serving = None
    /\ age = 0
    /\ silent = MutePeers
    /\ crashes = 0

-----------------------------------------------------------------------------
(* The command.                                                            *)

(* refuse_or_fall_back, for a set of commands at once.                      *)
GiveUp(S, reason) ==
    /\ state' = [c \in Commands |->
                    IF c \notin S THEN state[c]
                    ELSE IF mode[c] = "Require" THEN "failed"
                    ELSE "local"]
    /\ exit' = [c \in Commands |->
                    IF c \in S /\ mode[c] = "Require" THEN "error" ELSE exit[c]]
    /\ why' = [c \in Commands |-> IF c \in S THEN reason ELSE why[c]]
    /\ waited' = [c \in Commands |-> IF c \in S THEN 0 ELSE waited[c]]

(* Connect and write the request; the listener accepts it into its backlog  *)
(* whatever the daemon is doing.                                           *)
Send(c, request, next) ==
    /\ backlog' = Append(backlog, [peer |-> c, request |-> request])
    /\ state' = [state EXCEPT ![c] = next]
    /\ waited' = [waited EXCEPT ![c] = 0]
    /\ UNCHANGED <<mode, reply, exit, why, effectVars, surface, up, serving, age, silent, crashes>>

(* Mutant of Probe: the first connection carries the request itself.        *)
MutProbeActivates(c) ==
    /\ state[c] = "start"
    /\ up
    /\ Send(c, "activate", "probing")

Probe(c) ==
    /\ state[c] = "start"
    /\ up
    /\ Send(c, "ping", "probing")

NoDaemon(c) ==
    /\ state[c] \in {"start", "probed"}
    /\ ~up
    /\ GiveUp({c}, "beforeRequest")
    /\ UNCHANGED <<mode, reply, effectVars, daemonVars>>

Activate(c) ==
    /\ state[c] = "probed"
    /\ up
    /\ Send(c, "activate", "activating")

(* Mutant of ReadTimesOut: only the probe has a timeout.                    *)
MutReadTimesOutProbe(c) ==
    /\ state[c] = "probing"
    /\ waited[c] = ClientTimeout
    /\ GiveUp({c}, "beforeRequest")
    /\ UNCHANGED <<mode, reply, effectVars, daemonVars>>

(* A read of the client times out; what was read is dropped. The connection *)
(* stays where it is, in the backlog or being served.                      *)
ReadTimesOut(c) ==
    /\ state[c] \in Reading
    /\ waited[c] = ClientTimeout
    /\ GiveUp({c}, IF state[c] = "probing" THEN "beforeRequest" ELSE "afterRequest")
    /\ UNCHANGED <<mode, reply, effectVars, daemonVars>>

(* commands::open::run, in the command's own process: an error, or an       *)
(* activation of its own.                                                  *)
OpenLocally(c) ==
    /\ state[c] = "local"
    /\ \/ /\ state' = [state EXCEPT ![c] = "failed"]
          /\ exit' = [exit EXCEPT ![c] = "error"]
          /\ UNCHANGED effectVars
       \/ /\ state' = [state EXCEPT ![c] = "done"]
          /\ exit' = [exit EXCEPT ![c] = "report"]
          /\ asked' \in {asked, [asked EXCEPT ![c] = Append(@, "command")]}
          /\ opened' \in {opened, [opened EXCEPT ![c] = Append(@, "command")]}
    /\ UNCHANGED <<mode, waited, reply, why, daemonVars>>

-----------------------------------------------------------------------------
(* The daemon: accept, and what it does with each request.                  *)

(* The peer of the connection being served still reads it.                  *)
Listening(c, request) ==
    \/ request = "ping" /\ state[c] = "probing"
    \/ request = "activate" /\ state[c] = "activating"

Accept ==
    /\ up
    /\ serving = None
    /\ backlog # <<>>
    /\ serving' = [peer |-> Head(backlog).peer, request |-> Head(backlog).request,
                   stage |-> "reading", lines |-> <<>>]
    /\ backlog' = Tail(backlog)
    /\ age' = 0
    /\ UNCHANGED <<commandVars, effectVars, surface, up, silent, crashes>>

At(request, stage) ==
    /\ serving # None
    /\ serving.request = request
    /\ serving.stage = stage

ServePing ==
    /\ At("ping", "reading")
    /\ serving' = None
    /\ IF Listening(serving.peer, "ping")
       THEN /\ state' = [state EXCEPT ![serving.peer] = "probed"]
            /\ waited' = [waited EXCEPT ![serving.peer] = 0]
       ELSE UNCHANGED <<state, waited>>
    /\ UNCHANGED <<mode, reply, exit, why, effectVars, surface, up, backlog, age, silent,
                   crashes>>

(* The name does not parse or does not resolve.                             *)
ResolveFails ==
    /\ At("activate", "reading")
    /\ serving' = [serving EXCEPT !.stage = "writing", !.lines = <<"error">>]
    /\ UNCHANGED <<commandVars, effectVars, surface, up, backlog, age, silent, crashes>>

(* It resolves, and there is something to ask the user.                     *)
Ask ==
    /\ At("activate", "reading")
    /\ serving' = [serving EXCEPT !.stage = "asking"]
    /\ asked' = [asked EXCEPT ![serving.peer] = Append(@, "daemon")]
    /\ age' = 0
    /\ UNCHANGED <<commandVars, opened, surface, up, backlog, silent, crashes>>

Report == <<"plan", "consent", "outcome">>

(* consent_ui::apply and execute. The dialog ends with an answer, by being  *)
(* closed or by its timeout, a terminal with an answer only; `granted` says *)
(* whether anything was launched.                                          *)
Dispatch(granted) ==
    /\ serving' = [serving EXCEPT !.stage = "writing", !.lines = Report]
    /\ opened' = IF granted THEN [opened EXCEPT ![serving.peer] = Append(@, "daemon")]
                 ELSE opened
    /\ age' = 0
    /\ UNCHANGED <<commandVars, asked, surface, up, backlog, silent, crashes>>

Answered ==
    /\ At("activate", "asking")
    /\ \E granted \in BOOLEAN : Dispatch(granted)

(* Mutant of DialogTimesOut: the dialog waits for its answer.               *)
MutDialogTimesOutNever ==
    /\ At("activate", "asking")
    /\ surface = "dialog"
    /\ age > DialogTimeout
    /\ Dispatch(FALSE)

DialogTimesOut ==
    /\ At("activate", "asking")
    /\ surface = "dialog"
    /\ age = DialogTimeout
    /\ Dispatch(FALSE)

(* Policy decided everything, so nothing was asked.                         *)
NothingToAsk ==
    /\ At("activate", "reading")
    /\ \E granted \in BOOLEAN : Dispatch(granted)

(* Each response is written on its own, after all of the handling. A write  *)
(* to a peer that is gone ends the connection.                             *)
WriteLine ==
    /\ At("activate", "writing")
    /\ serving.lines # <<>>
    /\ IF Listening(serving.peer, "activate")
       THEN /\ reply' = [reply EXCEPT ![serving.peer] = Append(@, Head(serving.lines))]
            /\ waited' = [waited EXCEPT ![serving.peer] = 0]
            /\ serving' = [serving EXCEPT !.lines = Tail(@)]
       ELSE /\ serving' = None
            /\ UNCHANGED <<reply, waited>>
    /\ UNCHANGED <<mode, state, exit, why, effectVars, surface, up, backlog, age, silent, crashes>>

-----------------------------------------------------------------------------
(* The end of a connection, as the client sees it.                          *)

(* Mutant of Verdict: an error is taken for an unusable daemon.             *)
MutVerdictRetriesError(lines) ==
    IF lines \in {<<>>, <<"error">>} THEN "unavailable" ELSE "report"

(* What try_open makes of the lines read when the connection ends. No line  *)
(* at all is "daemon closed without replying"; without an outcome the exit  *)
(* code stays the 0 it was initialised with.                               *)
Verdict(lines) ==
    IF lines = <<>> THEN "unavailable"
    ELSE IF "error" \in {lines[k] : k \in DOMAIN lines} THEN "error"
    ELSE IF "outcome" \in {lines[k] : k \in DOMAIN lines} THEN "report"
    ELSE "zero"

(* The connections of the commands in S end.                                *)
Conclude(S) ==
    LET lost == {c \in S : Verdict(reply[c]) = "unavailable"}
        heard == S \ lost
    IN  /\ state' = [c \in Commands |->
              IF c \in lost THEN (IF mode[c] = "Require" THEN "failed" ELSE "local")
              ELSE IF c \in heard
              THEN (IF Verdict(reply[c]) = "error" THEN "failed" ELSE "handled")
              ELSE state[c]]
        /\ exit' = [c \in Commands |->
              IF c \in lost THEN (IF mode[c] = "Require" THEN "error" ELSE exit[c])
              ELSE IF c \in heard THEN Verdict(reply[c])
              ELSE exit[c]]
        /\ why' = [c \in Commands |->
              IF c \in lost
              THEN (IF state[c] = "probing" THEN "beforeRequest" ELSE "afterRequest")
              ELSE why[c]]
        /\ waited' = [c \in Commands |-> IF c \in S THEN 0 ELSE waited[c]]

(* Everything is written and the daemon closes the connection.              *)
Close ==
    /\ At("activate", "writing")
    /\ serving.lines = <<>>
    /\ serving' = None
    /\ Conclude({serving.peer} \cap {c \in Commands : state[c] = "activating"})
    /\ UNCHANGED <<mode, reply, effectVars, surface, up, backlog, age, silent, crashes>>

(* The daemon is killed: its connections end, those in the backlog too.     *)
Crash ==
    /\ up
    /\ crashes < MaxCrashes
    /\ crashes' = crashes + 1
    /\ up' = FALSE
    /\ serving' = None
    /\ backlog' = <<>>
    /\ age' = 0
    /\ Conclude({c \in Commands : state[c] \in Reading})
    /\ UNCHANGED <<mode, reply, effectVars, surface, silent>>

Start ==
    /\ ~up
    /\ up' = TRUE
    /\ surface' \in {"dialog", "terminal"}
    /\ UNCHANGED <<commandVars, effectVars, backlog, serving, age, silent, crashes>>

-----------------------------------------------------------------------------
(* Peers that say nothing.                                                 *)

MuteConnects(m) ==
    /\ up
    /\ m \in silent
    /\ silent' = silent \ {m}
    /\ backlog' = Append(backlog, [peer |-> m, request |-> "nothing"])
    /\ UNCHANGED <<commandVars, effectVars, surface, up, serving, age, crashes>>

(* Mutant of MuteCutOff: there is no read timeout.                          *)
MutMuteCutOffNever ==
    /\ At("nothing", "reading")
    /\ age > ReadTimeout
    /\ serving' = None
    /\ age' = 0
    /\ UNCHANGED <<commandVars, effectVars, surface, up, backlog, silent, crashes>>

(* The peer's silence is cut off by the read timeout of the daemon.         *)
MuteCutOff ==
    /\ At("nothing", "reading")
    /\ age = ReadTimeout
    /\ serving' = None
    /\ age' = 0
    /\ UNCHANGED <<commandVars, effectVars, surface, up, backlog, silent, crashes>>

-----------------------------------------------------------------------------
(* Time passes for the reads of the clients, the silence of a peer and the  *)
(* dialog; none of them outlasts its timeout. Writing takes none: all that  *)
(* is written has been computed before.                                    *)

Waiting == {c \in Commands : state[c] \in Reading}
DialogOpen == At("activate", "asking")
Muted == At("nothing", "reading")

Tick ==
    /\ Waiting # {} \/ DialogOpen \/ Muted
    /\ ~At("activate", "writing")
    /\ \A c \in Waiting : waited[c] < ClientTimeout
    /\ DialogOpen /\ surface = "dialog" => age < DialogTimeout
    /\ Muted => age < ReadTimeout
    /\ waited' = [c \in Commands |-> IF c \in Waiting THEN waited[c] + 1 ELSE waited[c]]
    /\ age' = IF Muted \/ (DialogOpen /\ surface = "dialog") THEN age + 1 ELSE age
    /\ UNCHANGED <<mode, state, reply, exit, why, effectVars, surface, up, backlog, serving,
                   silent, crashes>>

CommandStep(c) ==
    \/ Probe(c) \/ NoDaemon(c) \/ Activate(c) \/ ReadTimesOut(c)

(* What the daemon does without waiting for anyone.                         *)
DaemonStep ==
    \/ Accept \/ ServePing \/ ResolveFails \/ Ask \/ NothingToAsk \/ DialogTimesOut
    \/ WriteLine \/ Close \/ MuteCutOff

Next ==
    \/ \E c \in Commands : CommandStep(c) \/ OpenLocally(c)
    \/ DaemonStep
    \/ Answered
    \/ Crash \/ Start
    \/ \E m \in MutePeers : MuteConnects(m)
    \/ Tick

(* Commands and the daemon run, and time passes. Nobody has to answer a     *)
(* prompt, the daemon's or a command's own, to kill the daemon or to start  *)
(* it.                                                                     *)
Spec == Init /\ [][Next]_vars
FairSpec ==
    /\ Spec
    /\ \A c \in Commands : WF_vars(CommandStep(c))
    /\ WF_vars(DaemonStep)
    /\ WF_vars(Tick)

-----------------------------------------------------------------------------
(* Properties.                                                             *)

Times(who, s) == Cardinality({k \in DOMAIN s : s[k] = who})

(* daemon_client.rs:76-95: the daemon acts for a command only on its        *)
(* request, once at most, so a command that gave the daemon up before it    *)
(* sent one opens alone; and it is the only case but an abandoned request   *)
(* in which anything is launched by the command.                            *)
NoRequestNoActivation ==
    \A c \in Commands :
        /\ Times("daemon", asked[c]) <= 1
        /\ Times("daemon", opened[c]) <= 1
        /\ why[c] = "beforeRequest" => Times("daemon", asked[c] \o opened[c]) = 0
        /\ Times("command", asked[c] \o opened[c]) > 0 => why[c] # "no"

(* daemon_client.rs:123-128: an error of the daemon is a "no" the user is   *)
(* not asked about a second time.                                          *)
RefusalIsFinal ==
    \A c \in Commands :
        "error" \in {reply[c][k] : k \in DOMAIN reply[c]} =>
            asked[c] = <<>> /\ opened[c] = <<>>

(* docs/daemon.md, "an optimization of the consent surface, never a         *)
(* dependency": whatever becomes of the daemon, busy, left at its terminal, *)
(* killed or held up, a command ends or comes to open its name itself.      *)
NeverADependency ==
    \A c \in Commands : state[c] = "start" ~> state[c] \in Ended \cup {"local"}

(* server.rs:230-233 and dialog_ui.rs:296-298: neither a silent peer nor an *)
(* unanswered dialog wedges the daemon.                                    *)
DaemonReturns ==
    serving # None /\ surface = "dialog" ~> serving = None

(* client.rs:4-7, "Every failure mode here", a "truncated reply" among      *)
(* them, "resolves to no usable daemon". A reply cut between two lines is   *)
(* taken for a complete one and the command exits with 0.                   *)
NoZeroWithoutOutcome == \A c \in Commands : exit[c] # "zero"
=============================================================================
