---------------------------- MODULE DaemonProofs ----------------------------
(***************************************************************************)
(* Proofs about the daemon and its commands (module DaemonService), for any *)
(* number of commands, timeouts and crashes, and, at the end, about how the  *)
(* daemon comes to listen (module SocketStartup).                           *)
(*                                                                         *)
(* What a command may find done to it is followed from the request that     *)
(* caused it: Forward says how far a command is, Once where its only        *)
(* request can be and what has come of it, Final what an error means.       *)
(***************************************************************************)
EXTENDS DaemonService, SocketStartup, SequenceTheorems, FiniteSetTheorems, TLAPS

States == {"start", "probing", "probed", "activating", "local"} \cup Ended
Actors == {"daemon", "command"}
Waits == [peer : Commands \cup MutePeers, request : {"ping", "activate", "nothing"}]
Known(x) == x.request # "nothing" => x.peer \in Commands

Typed ==
    /\ state \in [Commands -> States]
    /\ waited \in [Commands -> Nat]
    /\ reply \in [Commands -> Seq(Responses)]
    /\ why \in [Commands -> {"no", "beforeRequest", "afterRequest"}]
    /\ asked \in [Commands -> Seq(Actors)]
    /\ opened \in [Commands -> Seq(Actors)]
    /\ backlog \in Seq(Waits)
    /\ \A k \in DOMAIN backlog : Known(backlog[k])
    /\ serving \in Connections \cup {None}
    /\ serving # None => Known(serving)

Never(who, s) == \A k \in DOMAIN s : s[k] # who
AtMostOnce(who, s) == \A j, k \in DOMAIN s : s[j] = who /\ s[k] = who => j = k
Untouched(c) == Never("daemon", asked[c]) /\ Never("daemon", opened[c])

(* Where the request of a command is: waiting to be accepted, or served.    *)
Activates(x, c) == x.peer = c /\ x.request = "activate"
Requests(b, c) == {k \in DOMAIN b : Activates(b[k], c)}
Queued(c) == Requests(backlog, c)
Served(c) == serving # None /\ serving.peer = c /\ serving.request = "activate"

Unasked == {"start", "probing", "probed"}
Forward(c) ==
    /\ state[c] \in Unasked \cup {"activating"} => why[c] = "no"
    /\ state[c] \in Unasked => reply[c] = <<>>
    /\ state[c] = "local" => why[c] # "no"
    /\ ~Never("command", asked[c]) \/ ~Never("command", opened[c]) => why[c] # "no"

Once(c) ==
    /\ state[c] \in Unasked \/ why[c] = "beforeRequest" =>
          Queued(c) = {} /\ ~Served(c) /\ Untouched(c)
    /\ \A i, j \in Queued(c) : i = j
    /\ Queued(c) # {} => ~Served(c) /\ Untouched(c)
    /\ Served(c) /\ serving.stage = "reading" => Untouched(c)
    /\ Served(c) /\ serving.stage = "asking" => Never("daemon", opened[c])
    /\ AtMostOnce("daemon", asked[c])
    /\ AtMostOnce("daemon", opened[c])

Final(c) ==
    /\ Served(c) /\ ~Never("error", serving.lines) =>
          serving.stage = "writing" /\ Untouched(c)
    /\ ~Never("error", reply[c]) =>
          /\ asked[c] = <<>> /\ opened[c] = <<>>
          /\ Queued(c) = {}
          /\ Served(c) => serving.stage = "writing"
          /\ state[c] \in {"activating", "failed"}
          /\ state[c] = "activating" => Served(c) /\ waited[c] = 0

IInv == Typed /\ \A c \in Commands : Forward(c) /\ Once(c) /\ Final(c)

-----------------------------------------------------------------------------
(* Sequences and their elements.                                           *)
LEMMA EmptyNever == \A who : Never(who, <<>>) /\ AtMostOnce(who, <<>>)
BY DEF Never, AtMostOnce

LEMMA AppendNever ==
    ASSUME NEW S, NEW s \in Seq(S), NEW x \in S, NEW who
    PROVE  /\ Append(s, x) \in Seq(S)
           /\ Never(who, Append(s, x)) <=> Never(who, s) /\ x # who
           /\ AtMostOnce(who, s) /\ x # who => AtMostOnce(who, Append(s, x))
           /\ Never(who, s) => AtMostOnce(who, Append(s, x))
<1>1. /\ Append(s, x) \in Seq(S)
      /\ \A k \in 1 .. Len(s) : Append(s, x)[k] = s[k]
      /\ Append(s, x)[Len(s) + 1] = x
      /\ Len(Append(s, x)) = Len(s) + 1
  BY AppendProperties
<1>2. Len(s) \in Nat /\ DOMAIN s = 1 .. Len(s) /\ DOMAIN Append(s, x) = 1 .. Len(s) + 1
  BY <1>1, LenProperties
<1>3. \A k \in DOMAIN Append(s, x) : k \in DOMAIN s \/ k = Len(s) + 1
  BY <1>2
<1>4. Never(who, Append(s, x)) <=> Never(who, s) /\ x # who
  BY <1>1, <1>2, <1>3 DEF Never
<1>5. AtMostOnce(who, s) /\ x # who => AtMostOnce(who, Append(s, x))
  BY <1>1, <1>2, <1>3 DEF AtMostOnce
<1>6. Never(who, s) => AtMostOnce(who, Append(s, x))
  BY <1>1, <1>2, <1>3 DEF Never, AtMostOnce
<1> QED BY <1>1, <1>4, <1>5, <1>6

LEMMA TailNever ==
    ASSUME NEW S, NEW s \in Seq(S), s # <<>>, NEW who
    PROVE  /\ Head(s) \in S /\ Tail(s) \in Seq(S)
           /\ Never(who, s) <=> Head(s) # who /\ Never(who, Tail(s))
<1>1. /\ Head(s) \in S /\ Tail(s) \in Seq(S) /\ Head(s) = s[1]
      /\ Len(s) \in Nat \ {0} /\ DOMAIN s = 1 .. Len(s)
      /\ Len(Tail(s)) = Len(s) - 1
      /\ \A k \in 1 .. Len(s) - 1 : Tail(s)[k] = s[k + 1]
  BY HeadTailProperties, LenProperties, EmptySeq
<1>2. DOMAIN Tail(s) = 1 .. Len(s) - 1
  BY <1>1, LenProperties
<1>3. ASSUME NEW k \in DOMAIN s, k # 1
      PROVE  k - 1 \in DOMAIN Tail(s) /\ Tail(s)[k - 1] = s[k]
  BY <1>1, <1>2, <1>3
<1>4. ASSUME NEW k \in DOMAIN Tail(s)
      PROVE  k + 1 \in DOMAIN s /\ Tail(s)[k] = s[k + 1]
  BY <1>1, <1>2, <1>4
<1>5. Never(who, s) => Head(s) # who /\ Never(who, Tail(s))
  BY <1>1, <1>4 DEF Never
<1>6. Head(s) # who /\ Never(who, Tail(s)) => Never(who, s)
  BY <1>1, <1>3 DEF Never
<1> QED BY <1>1, <1>5, <1>6

LEMMA RequestsAppend ==
    ASSUME NEW b \in Seq(Waits), NEW x \in Waits, NEW c,
           \A k \in DOMAIN b : Known(b[k]), Known(x)
    PROVE  /\ Append(b, x) \in Seq(Waits)
           /\ \A k \in DOMAIN Append(b, x) : Known(Append(b, x)[k])
           /\ ~Activates(x, c) => Requests(Append(b, x), c) = Requests(b, c)
           /\ Requests(b, c) = {} => \A i, j \in Requests(Append(b, x), c) : i = j
<1>1. /\ Append(b, x) \in Seq(Waits)
      /\ \A k \in 1 .. Len(b) : Append(b, x)[k] = b[k]
      /\ Append(b, x)[Len(b) + 1] = x
      /\ Len(Append(b, x)) = Len(b) + 1
  BY AppendProperties
<1>2. Len(b) \in Nat /\ DOMAIN b = 1 .. Len(b) /\ DOMAIN Append(b, x) = 1 .. Len(b) + 1
  BY <1>1, LenProperties
<1>3. \A k \in DOMAIN Append(b, x) :
         \/ k \in DOMAIN b /\ Append(b, x)[k] = b[k]
         \/ k = Len(b) + 1 /\ Append(b, x)[k] = x
  BY <1>1, <1>2
<1>4. \A k \in DOMAIN b : k \in DOMAIN Append(b, x) /\ Append(b, x)[k] = b[k]
  BY <1>1, <1>2
<1>5. ~Activates(x, c) => Requests(Append(b, x), c) = Requests(b, c)
  BY <1>3, <1>4 DEF Requests
<1>6. Requests(b, c) = {} => \A i, j \in Requests(Append(b, x), c) : i = j
  BY <1>3 DEF Requests
<1> QED BY <1>1, <1>3, <1>5, <1>6

LEMMA RequestsTail ==
    ASSUME NEW b \in Seq(Waits), b # <<>>, NEW c,
           \A k \in DOMAIN b : Known(b[k]),
           \A i, j \in Requests(b, c) : i = j
    PROVE  /\ Head(b) \in Waits /\ Known(Head(b))
           /\ Tail(b) \in Seq(Waits)
           /\ \A k \in DOMAIN Tail(b) : Known(Tail(b)[k])
           /\ \A i, j \in Requests(Tail(b), c) : i = j
           /\ Requests(b, c) = {} => Requests(Tail(b), c) = {} /\ ~Activates(Head(b), c)
           /\ Activates(Head(b), c) => Requests(Tail(b), c) = {}
<1>1. /\ Head(b) \in Waits /\ Tail(b) \in Seq(Waits) /\ Head(b) = b[1]
      /\ Len(b) \in Nat \ {0} /\ DOMAIN b = 1 .. Len(b)
      /\ Len(Tail(b)) = Len(b) - 1
      /\ \A k \in 1 .. Len(b) - 1 : Tail(b)[k] = b[k + 1]
  BY HeadTailProperties, LenProperties, EmptySeq
<1>2. DOMAIN Tail(b) = 1 .. Len(b) - 1
  BY <1>1, LenProperties
<1>3. \A k \in DOMAIN Tail(b) : k \in Nat \ {0} /\ k + 1 \in DOMAIN b /\ Tail(b)[k] = b[k + 1]
  BY <1>1, <1>2
<1>4. \A k \in Requests(Tail(b), c) : k \in Nat \ {0} /\ k + 1 \in Requests(b, c)
  BY <1>3 DEF Requests
<1>5. Activates(Head(b), c) => 1 \in Requests(b, c)
  BY <1>1 DEF Requests
<1>6. Known(Head(b)) /\ \A k \in DOMAIN Tail(b) : Known(Tail(b)[k])
  BY <1>1, <1>3
<1>7. \A i, j \in Requests(Tail(b), c) : i = j
  <2> SUFFICES ASSUME NEW i \in Requests(Tail(b), c), NEW j \in Requests(Tail(b), c)
               PROVE  i = j
    OBVIOUS
  <2>1. i \in Nat /\ j \in Nat /\ i + 1 = j + 1
    BY <1>4
  <2> QED BY <2>1
<1>8. Activates(Head(b), c) => Requests(Tail(b), c) = {}
  <2> SUFFICES ASSUME Activates(Head(b), c), NEW i \in Requests(Tail(b), c)
               PROVE  FALSE
    OBVIOUS
  <2>1. i \in Nat \ {0} /\ i + 1 = 1
    BY <1>4, <1>5
  <2> QED BY <2>1
<1> QED BY <1>1, <1>4, <1>5, <1>6, <1>7, <1>8

-----------------------------------------------------------------------------
(* A step that has nothing to do with a command leaves it as it was.        *)
Apart(c) ==
    /\ UNCHANGED <<state[c], why[c], reply[c], asked[c], opened[c]>>
    /\ waited'[c] = waited[c] \/ waited'[c] = 0
    /\ Queued(c) = {} => Queued(c)' = {}
    /\ \A i, j \in Queued(c)' : i = j
    /\ Served(c)' <=> Served(c)
    /\ Served(c) => serving'.stage = serving.stage /\ serving'.lines = serving.lines

LEMMA ApartKeeps ==
    ASSUME NEW c \in Commands, Forward(c) /\ Once(c) /\ Final(c), Apart(c)
    PROVE  (Forward(c) /\ Once(c) /\ Final(c))'
<1>1. Untouched(c)' <=> Untouched(c)
  BY DEF Apart, Untouched, Never
<1>2. Forward(c)'
  BY DEF Apart, Forward, Never
<1>3. Once(c)'
  BY <1>1 DEF Apart, Once, Never, AtMostOnce
<1>4. Final(c)'
  BY <1>1 DEF Apart, Final, Never
<1> QED BY <1>2, <1>3, <1>4

(* A step keeps the invariant if it keeps the types and what is known of    *)
(* the command it is about.                                                *)
Kept(c) == Forward(c) /\ Once(c) /\ Final(c)

LEMMA OneKeeps ==
    ASSUME IInv, Typed', NEW d \in Commands,
           \A c \in Commands \ {d} : Apart(c), Kept(d)'
    PROVE  IInv'
<1>1. \A c \in Commands : Kept(c)'
  BY ApartKeeps DEF IInv, Kept
<1> QED BY <1>1 DEF IInv, Kept

LEMMA QueueUnchanged ==
    ASSUME NEW c \in Commands, IInv, UNCHANGED backlog
    PROVE  Queued(c)' = Queued(c) /\ \A i, j \in Queued(c)' : i = j
BY DEF IInv, Once, Queued, Requests

-----------------------------------------------------------------------------
(* The steps of a command.                                                 *)
LEMMA GiveUpKeeps ==
    ASSUME IInv, NEW d \in Commands, NEW reason \in {"beforeRequest", "afterRequest"},
           GiveUp({d}, reason), UNCHANGED <<mode, reply, effectVars, daemonVars>>,
           Never("error", reply[d]),
           reason = "beforeRequest" => state[d] \in Unasked
    PROVE  IInv'
<1>1. UNCHANGED <<reply, asked, opened, backlog, serving>>
  BY DEF effectVars, daemonVars
<1>2. /\ state'[d] \in {"failed", "local"} /\ why'[d] = reason /\ waited'[d] = 0
      /\ \A c \in Commands \ {d} :
            state'[c] = state[c] /\ why'[c] = why[c] /\ waited'[c] = waited[c]
  BY DEF GiveUp
<1>3. Typed'
  BY <1>1 DEF GiveUp, IInv, Typed, States, Ended
<1>4. ASSUME NEW c \in Commands \ {d}
      PROVE  Apart(c)
  BY <1>1, <1>2, QueueUnchanged DEF Apart, Served
<1>5. Kept(d)'
  <2>1. Queued(d)' = Queued(d) /\ (Served(d)' <=> Served(d)) /\ (Untouched(d)' <=> Untouched(d))
    BY <1>1, QueueUnchanged DEF Served, Untouched, Never
  <2>2. Forward(d)'
    BY <1>1, <1>2 DEF Forward, Unasked
  <2>3. Once(d)'
    BY <1>1, <1>2, <2>1 DEF IInv, Once, Unasked, Never, AtMostOnce
  <2>4. Final(d)'
    BY <1>1, <1>2, <2>1 DEF IInv, Final, Never
  <2> QED BY <2>2, <2>3, <2>4 DEF Kept
<1> QED BY <1>3, <1>4, <1>5, OneKeeps

LEMMA NoDaemonKeeps ==
    ASSUME IInv, NEW d \in Commands, NoDaemon(d) PROVE IInv'
<1>1. state[d] \in Unasked /\ Never("error", reply[d])
  BY EmptyNever DEF NoDaemon, IInv, Forward, Unasked
<1> QED BY <1>1, GiveUpKeeps DEF NoDaemon

LEMMA ReadTimesOutKeeps ==
    ASSUME IInv, NEW d \in Commands, ReadTimesOut(d) PROVE IInv'
<1> DEFINE reason == IF state[d] = "probing" THEN "beforeRequest" ELSE "afterRequest"
<1>1. waited[d] # 0 /\ state[d] \in {"probing", "activating"}
  BY TimeoutsAssumption DEF ReadTimesOut, Reading
<1>2. Never("error", reply[d])
  BY <1>1, EmptyNever DEF IInv, Forward, Final, Unasked
<1>3. GiveUp({d}, reason) /\ UNCHANGED <<mode, reply, effectVars, daemonVars>>
  BY DEF ReadTimesOut
<1>4. reason \in {"beforeRequest", "afterRequest"} /\ (reason = "beforeRequest" => state[d] \in Unasked)
  BY DEF Unasked
<1> HIDE DEF reason
<1> QED BY <1>2, <1>3, <1>4, GiveUpKeeps

LEMMA SendKeeps ==
    ASSUME IInv, NEW d \in Commands, NEW request, NEW next,
           Send(d, request, next),
           \/ state[d] = "start" /\ request = "ping" /\ next = "probing"
           \/ state[d] = "probed" /\ request = "activate" /\ next = "activating"
    PROVE  IInv'
<1> DEFINE x == [peer |-> d, request |-> request]
<1>1. x \in Waits /\ Known(x) /\ \A c \in Commands \ {d} : ~Activates(x, c)
  BY DEF Waits, Known, Activates
<1>2. backlog \in Seq(Waits) /\ \A k \in DOMAIN backlog : Known(backlog[k])
  BY DEF IInv, Typed
<1>3. backlog' = Append(backlog, x)
  BY DEF Send
<1>4. Activates(x, d) => request = "activate"
  BY DEF Activates
<1> HIDE DEF x
<1>5. UNCHANGED <<reply, why, asked, opened, serving>>
  BY DEF Send, effectVars
<1>6. /\ state'[d] = next /\ waited'[d] = 0 /\ state[d] \in Unasked
      /\ \A c \in Commands \ {d} : state'[c] = state[c] /\ waited'[c] = waited[c]
  BY DEF Send, IInv, Typed, Unasked
<1>7. Typed'
  <2>1. backlog' \in Seq(Waits) /\ \A k \in DOMAIN backlog' : Known(backlog'[k])
    BY <1>1, <1>2, <1>3, RequestsAppend
  <2> QED BY <1>5, <2>1 DEF Send, IInv, Typed, States
<1>8. ASSUME NEW c \in Commands \ {d}
      PROVE  Apart(c)
  <2>1. Queued(c)' = Queued(c)
    BY <1>1, <1>2, <1>3, RequestsAppend DEF Queued
  <2> QED BY <1>5, <1>6, <2>1 DEF Apart, Served, IInv, Once
<1>9. Kept(d)'
  <2>1. Queued(d) = {} /\ ~Served(d) /\ Untouched(d) /\ reply[d] = <<>> /\ why[d] = "no"
    BY <1>6 DEF IInv, Once, Forward
  <2>2. ~Served(d)' /\ Untouched(d)'
    BY <1>5, <2>1 DEF Served, Untouched, Never
  <2>3. /\ \A i, j \in Queued(d)' : i = j
        /\ request = "ping" => Queued(d)' = {}
    BY <1>1, <1>2, <1>3, <1>4, <2>1, RequestsAppend DEF Queued
  <2>4. Forward(d)'
    BY <1>5, <1>6, <2>1 DEF Forward, IInv
  <2>5. Once(d)'
    BY <1>5, <1>6, <2>1, <2>2, <2>3 DEF Once, IInv, Unasked
  <2>6. Final(d)'
    BY <1>5, <2>1, <2>2, EmptyNever DEF Final
  <2> QED BY <2>4, <2>5, <2>6 DEF Kept
<1> QED BY <1>7, <1>8, <1>9, OneKeeps

(* One of the two acts for a command, or does not.                          *)
Acts(who, s, t) == t = s \/ t = Append(s, who)

LEMMA CommandActed ==
    ASSUME NEW s \in Seq(Actors), NEW t, Acts("command", s, t)
    PROVE  /\ t \in Seq(Actors)
           /\ Never("daemon", t) <=> Never("daemon", s)
           /\ AtMostOnce("daemon", s) => AtMostOnce("daemon", t)
<1>1. "command" \in Actors /\ "command" # "daemon"
  BY DEF Actors
<1>2. CASE t = s
  BY <1>2
<1>3. CASE t = Append(s, "command")
  BY <1>1, <1>3, AppendNever
<1> QED BY <1>2, <1>3 DEF Acts

LEMMA OpenLocallyKeeps ==
    ASSUME IInv, NEW d \in Commands, OpenLocally(d) PROVE IInv'
<1>1. UNCHANGED <<reply, why, waited, backlog, serving>>
  BY DEF OpenLocally, daemonVars
<1>2. /\ state[d] = "local" /\ state'[d] \in {"failed", "done"}
      /\ \A c \in Commands \ {d} : state'[c] = state[c]
      /\ state' \in [Commands -> States]
  BY DEF OpenLocally, IInv, Typed, States, Ended
<1>3. /\ asked' \in {asked, [asked EXCEPT ![d] = Append(@, "command")]}
      /\ opened' \in {opened, [opened EXCEPT ![d] = Append(@, "command")]}
  BY DEF OpenLocally, effectVars
<1>4. /\ asked[d] \in Seq(Actors) /\ opened[d] \in Seq(Actors)
      /\ asked' \in [Commands -> Seq(Actors)] /\ opened' \in [Commands -> Seq(Actors)]
      /\ Acts("command", asked[d], asked'[d]) /\ Acts("command", opened[d], opened'[d])
      /\ \A c \in Commands \ {d} : asked'[c] = asked[c] /\ opened'[c] = opened[c]
  <2>1. "command" \in Actors /\ asked \in [Commands -> Seq(Actors)] /\ opened \in [Commands -> Seq(Actors)]
    BY DEF IInv, Typed, Actors
  <2>2. Append(asked[d], "command") \in Seq(Actors) /\ Append(opened[d], "command") \in Seq(Actors)
    BY <2>1, AppendNever
  <2> QED BY <1>3, <2>1, <2>2 DEF Acts
<1>5. Typed'
  BY <1>1, <1>2, <1>4 DEF IInv, Typed
<1>6. ASSUME NEW c \in Commands \ {d}
      PROVE  Apart(c)
  BY <1>1, <1>2, <1>4, QueueUnchanged DEF Apart, Served
<1>7. Kept(d)'
  <2>2. /\ Never("daemon", asked'[d]) <=> Never("daemon", asked[d])
        /\ Never("daemon", opened'[d]) <=> Never("daemon", opened[d])
        /\ AtMostOnce("daemon", asked[d]) => AtMostOnce("daemon", asked'[d])
        /\ AtMostOnce("daemon", opened[d]) => AtMostOnce("daemon", opened'[d])
    BY <1>4, CommandActed
  <2>3. /\ Queued(d)' = Queued(d) /\ (Served(d)' <=> Served(d))
        /\ (Untouched(d)' <=> Untouched(d))
    BY <1>1, <2>2, QueueUnchanged DEF Served, Untouched
  <2>4. why[d] # "no" /\ Never("error", reply[d])
    BY <1>2 DEF IInv, Forward, Final
  <2>5. Forward(d)'
    BY <1>1, <1>2, <2>4 DEF Forward, Unasked
  <2>6. Once(d)'
    BY <1>1, <1>2, <2>2, <2>3 DEF IInv, Once, Unasked
  <2>7. Final(d)'
    BY <1>1, <2>3, <2>4 DEF IInv, Final, Never
  <2> QED BY <2>5, <2>6, <2>7 DEF Kept
<1> QED BY <1>5, <1>6, <1>7, OneKeeps

-----------------------------------------------------------------------------
(* The steps of the daemon.                                                *)

(* A connection that is served is known to be one of these.                 *)
LEMMA ServingFacts ==
    ASSUME IInv, serving # None
    PROVE  /\ serving \in Connections
           /\ serving.request # "nothing" => serving.peer \in Commands
           /\ serving.lines \in Seq(Responses)
           /\ None \notin Connections
BY PeersAssumption DEF IInv, Typed, Known, Connections

LEMMA TailKnown ==
    ASSUME NEW b \in Seq(Waits), b # <<>>, \A k \in DOMAIN b : Known(b[k])
    PROVE  Known(Head(b)) /\ Tail(b) \in Seq(Waits) /\ \A k \in DOMAIN Tail(b) : Known(Tail(b)[k])
<1>1. /\ Head(b) = b[1] /\ Tail(b) \in Seq(Waits)
      /\ Len(b) \in Nat \ {0} /\ DOMAIN b = 1 .. Len(b)
      /\ Len(Tail(b)) = Len(b) - 1
      /\ \A k \in 1 .. Len(b) - 1 : Tail(b)[k] = b[k + 1]
  BY HeadTailProperties, LenProperties, EmptySeq
<1>2. DOMAIN Tail(b) = 1 .. Len(b) - 1
  BY <1>1, LenProperties
<1> QED BY <1>1, <1>2

LEMMA AcceptKeeps == IInv /\ Accept => IInv'
<1> SUFFICES ASSUME IInv, Accept PROVE IInv'
  OBVIOUS
<1>1. /\ UNCHANGED <<state, waited, reply, why, asked, opened>>
      /\ serving = None /\ backlog # <<>> /\ backlog' = Tail(backlog)
      /\ serving' = [peer |-> Head(backlog).peer, request |-> Head(backlog).request,
                     stage |-> "reading", lines |-> <<>>]
  BY DEF Accept, commandVars, effectVars
<1>2. backlog \in Seq(Waits) /\ \A k \in DOMAIN backlog : Known(backlog[k])
  BY DEF IInv, Typed
<1>3. ASSUME NEW c \in Commands
      PROVE  \A i, j \in Requests(backlog, c) : i = j
  BY DEF IInv, Once, Queued
<1>4. Head(backlog) \in Waits
  BY <1>1, <1>2, HeadTailProperties
<1>5. serving' \in Connections /\ serving' # None
  <2>1. <<>> \in Seq(Responses)
    OBVIOUS
  <2>2. Head(backlog).peer \in Commands \cup MutePeers
    BY <1>4 DEF Waits
  <2>3. Head(backlog).request \in {"ping", "activate", "nothing"}
    BY <1>4 DEF Waits
  <2>4. serving' \in Connections
    BY <1>1, <2>1, <2>2, <2>3 DEF Connections
  <2> QED BY <2>4, PeersAssumption
<1>6. Known(serving') /\ backlog' \in Seq(Waits) /\ \A k \in DOMAIN backlog' : Known(backlog'[k])
  BY <1>1, <1>2, TailKnown DEF Known
<1>7. Typed'
  BY <1>1, <1>5, <1>6 DEF IInv, Typed
<1>8. ASSUME NEW c \in Commands
      PROVE  Kept(c)'
  <2>1. /\ \A i, j \in Queued(c)' : i = j
        /\ Queued(c) = {} => Queued(c)' = {} /\ ~Activates(Head(backlog), c)
        /\ Activates(Head(backlog), c) => Queued(c)' = {}
    BY <1>1, <1>2, <1>3, RequestsTail DEF Queued
  <2>2. /\ ~Served(c)
        /\ Served(c)' <=> Activates(Head(backlog), c)
        /\ Served(c)' => serving'.stage = "reading" /\ Never("error", serving'.lines)
    BY <1>1, <1>5, EmptyNever DEF Served, Activates
  <2>3. Untouched(c)' <=> Untouched(c)
    BY <1>1 DEF Untouched, Never
  <2>4. Forward(c)'
    BY <1>1 DEF IInv, Forward
  <2>5. Once(c)'
    BY <1>1, <2>1, <2>2, <2>3 DEF IInv, Once, Never
  <2>6. Final(c)'
    BY <1>1, <2>1, <2>2, <2>3 DEF IInv, Final, Never
  <2> QED BY <2>4, <2>5, <2>6 DEF Kept
<1> QED BY <1>7, <1>8 DEF IInv, Kept

LEMMA ServePingKeeps == IInv /\ ServePing => IInv'
<1> SUFFICES ASSUME IInv, ServePing PROVE IInv'
  OBVIOUS
<1>1. PICK d \in Commands : d = serving.peer
  BY ServingFacts DEF ServePing, At
<1>2. /\ UNCHANGED <<reply, why, asked, opened, backlog>>
      /\ serving # None /\ serving.request = "ping" /\ serving' = None
  BY DEF ServePing, At, effectVars
<1>3. /\ state' \in [Commands -> States] /\ waited' \in [Commands -> Nat]
      /\ \A c \in Commands \ {d} : state'[c] = state[c] /\ waited'[c] = waited[c]
      /\ \/ state[d] = "probing" /\ state'[d] = "probed"
         \/ state'[d] = state[d]
      /\ waited'[d] = waited[d] \/ waited'[d] = 0
  <2>1. state \in [Commands -> States] /\ waited \in [Commands -> Nat] /\ "probed" \in States
    BY DEF IInv, Typed, States
  <2>2. \/ /\ state[d] = "probing"
           /\ state' = [state EXCEPT ![d] = "probed"] /\ waited' = [waited EXCEPT ![d] = 0]
        \/ UNCHANGED <<state, waited>>
    BY <1>1 DEF ServePing, Listening
  <2> QED BY <2>1, <2>2
<1>4. Typed'
  BY <1>2, <1>3 DEF IInv, Typed
<1>5. \A c \in Commands : ~Served(c) /\ ~Served(c)'
  BY <1>2 DEF Served
<1>6. ASSUME NEW c \in Commands \ {d}
      PROVE  Apart(c)
  BY <1>2, <1>3, <1>5, QueueUnchanged DEF Apart
<1>7. Kept(d)'
  <2>1. CASE state'[d] = state[d]
    <3>1. Apart(d)
      BY <1>1, <1>2, <1>3, <1>5, <2>1, QueueUnchanged DEF Apart
    <3> QED BY <1>1, <3>1, ApartKeeps DEF IInv, Kept
  <2>2. CASE state[d] = "probing" /\ state'[d] = "probed"
    <3>1. Queued(d)' = Queued(d) /\ (Untouched(d)' <=> Untouched(d))
      BY <1>1, <1>2, QueueUnchanged DEF Untouched, Never
    <3>2. Forward(d)'
      BY <1>1, <1>2, <2>2 DEF IInv, Forward, Unasked
    <3>3. Once(d)'
      BY <1>1, <1>2, <1>5, <2>2, <3>1 DEF IInv, Once, Unasked, AtMostOnce
    <3>4. Final(d)'
      BY <1>1, <1>2, <1>5, <2>2, EmptyNever DEF IInv, Final, Forward, Unasked
    <3> QED BY <3>2, <3>3, <3>4 DEF Kept
  <2> QED BY <1>3, <2>1, <2>2
<1> QED BY <1>1, <1>4, <1>6, <1>7, OneKeeps

LEMMA ResolveFailsKeeps == IInv /\ ResolveFails => IInv'
<1> SUFFICES ASSUME IInv, ResolveFails PROVE IInv'
  OBVIOUS
<1>1. PICK d \in Commands : d = serving.peer /\ serving \in Connections /\ None \notin Connections
  BY ServingFacts DEF ResolveFails, At
<1>2. /\ UNCHANGED <<state, waited, reply, why, asked, opened, backlog>>
      /\ serving # None /\ serving.request = "activate" /\ serving.stage = "reading"
      /\ serving' = [serving EXCEPT !.stage = "writing", !.lines = <<"error">>]
  BY DEF ResolveFails, At, effectVars, commandVars
<1>3. /\ serving' \in Connections /\ serving' # None
      /\ serving'.peer = d /\ serving'.request = "activate" /\ serving'.stage = "writing"
  <2>1. <<"error">> \in Seq(Responses)
    BY DEF Responses
  <2> QED BY <1>1, <1>2, <2>1 DEF Connections
<1>4. Served(d) /\ Served(d)' /\ \A c \in Commands \ {d} : ~Served(c) /\ ~Served(c)'
  BY <1>1, <1>2, <1>3 DEF Served
<1>5. Typed'
  BY <1>1, <1>2, <1>3 DEF IInv, Typed, Known
<1>6. ASSUME NEW c \in Commands \ {d}
      PROVE  Apart(c)
  BY <1>2, <1>4, QueueUnchanged DEF Apart
<1>7. Kept(d)'
  <2>1. Queued(d)' = Queued(d) /\ (Untouched(d)' <=> Untouched(d)) /\ Untouched(d)
    BY <1>1, <1>2, <1>4, QueueUnchanged DEF Untouched, Never, IInv, Once
  <2>2. Forward(d)'
    BY <1>1, <1>2 DEF IInv, Forward
  <2>3. Once(d)'
    BY <1>1, <1>2, <1>3, <1>4, <2>1 DEF IInv, Once, AtMostOnce
  <2>4. Final(d)'
    BY <1>1, <1>2, <1>3, <1>4, <2>1 DEF IInv, Final, Never
  <2> QED BY <2>2, <2>3, <2>4 DEF Kept
<1> QED BY <1>1, <1>5, <1>6, <1>7, OneKeeps

LEMMA DaemonActed ==
    ASSUME NEW s \in Seq(Actors), NEW t, Acts("daemon", s, t), Never("daemon", s)
    PROVE  /\ AtMostOnce("daemon", t)
           /\ Never("command", t) <=> Never("command", s)
<1>1. "daemon" \in Actors /\ "command" # "daemon"
  BY DEF Actors
<1>2. CASE t = s
  BY <1>2 DEF Never, AtMostOnce
<1>3. CASE t = Append(s, "daemon")
  BY <1>1, <1>3, AppendNever
<1> QED BY <1>2, <1>3 DEF Acts

(* consent_ui::apply and execute, after an answer or without one.           *)
LEMMA DispatchKeeps ==
    ASSUME IInv, NEW granted \in BOOLEAN, Dispatch(granted),
           At("activate", "asking") \/ At("activate", "reading")
    PROVE  IInv'
<1>1. PICK d \in Commands : d = serving.peer /\ serving \in Connections /\ None \notin Connections
  BY ServingFacts DEF At
<1>2. /\ UNCHANGED <<state, waited, reply, why, asked, backlog>>
      /\ serving # None /\ serving.request = "activate" /\ serving.stage \in {"asking", "reading"}
      /\ serving' = [serving EXCEPT !.stage = "writing", !.lines = Report]
      /\ opened' \in {opened, [opened EXCEPT ![d] = Append(@, "daemon")]}
  BY <1>1 DEF Dispatch, At, commandVars
<1>3. /\ serving' \in Connections /\ serving' # None
      /\ serving'.peer = d /\ serving'.request = "activate" /\ serving'.stage = "writing"
      /\ serving'.lines = Report
  <2>1. Report \in Seq(Responses)
    BY DEF Responses, Report
  <2> QED BY <1>1, <1>2, <2>1 DEF Connections
<1>4. Served(d) /\ Served(d)' /\ \A c \in Commands \ {d} : ~Served(c) /\ ~Served(c)'
  BY <1>1, <1>2, <1>3 DEF Served
<1>5. /\ opened[d] \in Seq(Actors) /\ opened' \in [Commands -> Seq(Actors)]
      /\ Acts("daemon", opened[d], opened'[d])
      /\ \A c \in Commands \ {d} : opened'[c] = opened[c]
  <2>1. "daemon" \in Actors /\ opened \in [Commands -> Seq(Actors)]
    BY DEF IInv, Typed, Actors
  <2>2. Append(opened[d], "daemon") \in Seq(Actors)
    BY <2>1, AppendNever
  <2> QED BY <1>2, <2>1, <2>2 DEF Acts
<1>6. Typed'
  BY <1>1, <1>2, <1>3, <1>5 DEF IInv, Typed, Known
<1>7. ASSUME NEW c \in Commands \ {d}
      PROVE  Apart(c)
  BY <1>2, <1>4, <1>5, QueueUnchanged DEF Apart
<1>8. Kept(d)'
  <2>1. Queued(d)' = Queued(d) /\ Queued(d) = {}
    BY <1>1, <1>2, <1>4, QueueUnchanged DEF IInv, Once
  <2>2. Never("daemon", opened[d])
    BY <1>1, <1>2, <1>4 DEF IInv, Once, Untouched
  <2>3. /\ AtMostOnce("daemon", opened'[d])
        /\ Never("command", opened'[d]) <=> Never("command", opened[d])
    BY <1>5, <2>2, DaemonActed
  <2>4. state[d] \notin Unasked /\ why[d] # "beforeRequest"
    BY <1>1, <1>4 DEF IInv, Once
  <2>5. Never("error", reply[d]) /\ Never("error", serving'.lines)
    <3>1. Never("error", Report)
      BY DEF Report, Never
    <3> QED BY <1>1, <1>2, <1>3, <1>4, <3>1 DEF IInv, Final
  <2>6. Forward(d)'
    BY <1>1, <1>2, <2>3 DEF IInv, Forward
  <2>7. Once(d)'
    BY <1>1, <1>2, <1>3, <2>1, <2>3, <2>4 DEF IInv, Once
  <2>8. Final(d)'
    BY <1>2, <2>5 DEF Final
  <2> QED BY <2>6, <2>7, <2>8 DEF Kept
<1> QED BY <1>6, <1>7, <1>8, OneKeeps

LEMMA AskKeeps == IInv /\ Ask => IInv'
<1> SUFFICES ASSUME IInv, Ask PROVE IInv'
  OBVIOUS
<1>1. PICK d \in Commands : d = serving.peer /\ serving \in Connections /\ None \notin Connections
  BY ServingFacts DEF Ask, At
<1>2. /\ UNCHANGED <<state, waited, reply, why, opened, backlog>>
      /\ serving # None /\ serving.request = "activate" /\ serving.stage = "reading"
      /\ serving' = [serving EXCEPT !.stage = "asking"]
      /\ asked' = [asked EXCEPT ![d] = Append(@, "daemon")]
  BY <1>1 DEF Ask, At, commandVars
<1>3. /\ serving' \in Connections /\ serving' # None
      /\ serving'.peer = d /\ serving'.request = "activate" /\ serving'.stage = "asking"
      /\ serving'.lines = serving.lines
  BY <1>1, <1>2 DEF Connections
<1>4. Served(d) /\ Served(d)' /\ \A c \in Commands \ {d} : ~Served(c) /\ ~Served(c)'
  BY <1>1, <1>2, <1>3 DEF Served
<1>5. /\ asked[d] \in Seq(Actors) /\ asked' \in [Commands -> Seq(Actors)]
      /\ Acts("daemon", asked[d], asked'[d])
      /\ \A c \in Commands \ {d} : asked'[c] = asked[c]
  <2>1. "daemon" \in Actors /\ asked \in [Commands -> Seq(Actors)]
    BY DEF IInv, Typed, Actors
  <2>2. Append(asked[d], "daemon") \in Seq(Actors)
    BY <2>1, AppendNever
  <2> QED BY <1>2, <2>1, <2>2 DEF Acts
<1>6. Typed'
  BY <1>1, <1>2, <1>3, <1>5 DEF IInv, Typed, Known
<1>7. ASSUME NEW c \in Commands \ {d}
      PROVE  Apart(c)
  BY <1>2, <1>4, <1>5, QueueUnchanged DEF Apart
<1>8. Kept(d)'
  <2>1. Queued(d)' = Queued(d) /\ Queued(d) = {}
    BY <1>1, <1>2, <1>4, QueueUnchanged DEF IInv, Once
  <2>2. Never("daemon", asked[d]) /\ Never("daemon", opened[d])
    BY <1>1, <1>2, <1>4 DEF IInv, Once, Untouched
  <2>3. /\ AtMostOnce("daemon", asked'[d])
        /\ Never("command", asked'[d]) <=> Never("command", asked[d])
    BY <1>5, <2>2, DaemonActed
  <2>4. state[d] \notin Unasked /\ why[d] # "beforeRequest"
    BY <1>1, <1>4 DEF IInv, Once
  <2>5. Never("error", reply[d]) /\ Never("error", serving'.lines)
    BY <1>1, <1>2, <1>3, <1>4 DEF IInv, Final
  <2>6. Forward(d)'
    BY <1>1, <1>2, <2>3 DEF IInv, Forward
  <2>7. Once(d)'
    BY <1>1, <1>2, <1>3, <2>1, <2>2, <2>3, <2>4 DEF IInv, Once
  <2>8. Final(d)'
    BY <1>2, <2>5 DEF Final
  <2> QED BY <2>6, <2>7, <2>8 DEF Kept
<1> QED BY <1>6, <1>7, <1>8, OneKeeps

LEMMA NobodyActed ==
    ASSUME NEW s \in Seq(Actors), Never("daemon", s), Never("command", s)
    PROVE  s = <<>>
<1>1. \A k \in DOMAIN s : s[k] \in Actors
  BY ElementOfSeq, LenProperties
<1>2. DOMAIN s = {}
  BY <1>1 DEF Never, Actors
<1> QED BY <1>2, LenProperties, EmptySeq

LEMMA WriteLineKeeps == IInv /\ WriteLine => IInv'
<1> SUFFICES ASSUME IInv, WriteLine PROVE IInv'
  OBVIOUS
<1>1. PICK d \in Commands : d = serving.peer /\ serving \in Connections /\ None \notin Connections
  BY ServingFacts DEF WriteLine, At
<1>2. /\ UNCHANGED <<state, why, asked, opened, backlog>>
      /\ serving # None /\ serving.request = "activate" /\ serving.stage = "writing"
      /\ serving.lines # <<>>
  BY DEF WriteLine, At, effectVars
<1>3. serving.lines \in Seq(Responses)
  BY <1>1 DEF Connections
<1>4. Served(d) /\ \A c \in Commands \ {d} : ~Served(c)
  BY <1>1, <1>2 DEF Served
<1>5. CASE state[d] # "activating"
  <2>1. UNCHANGED <<reply, waited>> /\ serving' = None
    BY <1>1, <1>2, <1>5 DEF WriteLine, Listening
  <2>2. Typed'
    BY <1>2, <2>1 DEF IInv, Typed
  <2>3. \A c \in Commands : ~Served(c)'
    BY <2>1 DEF Served
  <2>4. ASSUME NEW c \in Commands \ {d}
        PROVE  Apart(c)
    BY <1>2, <1>4, <2>1, <2>3, QueueUnchanged DEF Apart
  <2>5. Kept(d)'
    <3>1. Queued(d)' = Queued(d) /\ (Untouched(d)' <=> Untouched(d))
      BY <1>2, QueueUnchanged DEF Untouched, Never
    <3>2. Forward(d)'
      BY <1>2, <2>1 DEF IInv, Forward
    <3>3. Once(d)'
      BY <1>2, <2>3, <3>1 DEF IInv, Once, AtMostOnce
    <3>4. Final(d)'
      BY <1>2, <1>5, <2>1, <2>3, <3>1 DEF IInv, Final
    <3> QED BY <3>2, <3>3, <3>4 DEF Kept
  <2> QED BY <2>2, <2>4, <2>5, OneKeeps
<1>6. CASE state[d] = "activating"
  <2>1. /\ reply' = [reply EXCEPT ![d] = Append(@, Head(serving.lines))]
        /\ waited' = [waited EXCEPT ![d] = 0]
        /\ serving' = [serving EXCEPT !.lines = Tail(@)]
    BY <1>1, <1>2, <1>6 DEF WriteLine, Listening
  <2>2. /\ Head(serving.lines) \in Responses /\ Tail(serving.lines) \in Seq(Responses)
        /\ Never("error", serving.lines) <=>
              Head(serving.lines) # "error" /\ Never("error", Tail(serving.lines))
    BY <1>2, <1>3, TailNever
  <2>3. /\ serving' \in Connections /\ serving' # None
        /\ serving'.peer = d /\ serving'.request = "activate" /\ serving'.stage = "writing"
        /\ serving'.lines = Tail(serving.lines)
    BY <1>1, <1>2, <2>1, <2>2 DEF Connections
  <2>4. Served(d)' /\ \A c \in Commands \ {d} : ~Served(c)'
    BY <2>3 DEF Served
  <2>5. /\ reply[d] \in Seq(Responses) /\ reply' \in [Commands -> Seq(Responses)]
        /\ reply'[d] = Append(reply[d], Head(serving.lines))
        /\ waited' \in [Commands -> Nat] /\ waited'[d] = 0
        /\ \A c \in Commands \ {d} : reply'[c] = reply[c] /\ waited'[c] = waited[c]
    <3>1. reply \in [Commands -> Seq(Responses)] /\ waited \in [Commands -> Nat]
      BY DEF IInv, Typed
    <3>2. Append(reply[d], Head(serving.lines)) \in Seq(Responses)
      BY <2>2, <3>1, AppendProperties
    <3> QED BY <2>1, <3>1, <3>2
  <2>6. Typed'
    BY <1>1, <1>2, <2>3, <2>5 DEF IInv, Typed, Known
  <2>7. ASSUME NEW c \in Commands \ {d}
        PROVE  Apart(c)
    BY <1>2, <1>4, <2>4, <2>5, QueueUnchanged DEF Apart
  <2>8. Kept(d)'
    <3>1. Queued(d)' = Queued(d) /\ Queued(d) = {} /\ (Untouched(d)' <=> Untouched(d))
      BY <1>2, <1>4, QueueUnchanged DEF IInv, Once, Untouched, Never
    <3>2. why[d] = "no" /\ Never("command", asked[d]) /\ Never("command", opened[d])
      BY <1>6 DEF IInv, Forward
    <3>3. Untouched(d) => asked[d] = <<>> /\ opened[d] = <<>>
      <4>1. asked[d] \in Seq(Actors) /\ opened[d] \in Seq(Actors)
        BY DEF IInv, Typed
      <4> QED BY <3>2, <4>1, NobodyActed DEF Untouched
    <3>4. ~Never("error", reply'[d]) <=> ~Never("error", reply[d]) \/ Head(serving.lines) = "error"
      BY <2>2, <2>5, AppendNever
    <3>5. ~Never("error", reply'[d]) => asked[d] = <<>> /\ opened[d] = <<>>
      BY <1>2, <1>4, <2>2, <3>3, <3>4 DEF IInv, Final
    <3>6. Forward(d)'
      BY <1>2, <1>6, <3>2 DEF Forward, Unasked
    <3>7. Once(d)'
      BY <1>2, <1>4, <2>3, <3>1 DEF IInv, Once, AtMostOnce
    <3>8. Final(d)'
      BY <1>2, <1>4, <1>6, <2>2, <2>3, <2>4, <2>5, <3>1, <3>5 DEF IInv, Final
    <3> QED BY <3>6, <3>7, <3>8 DEF Kept
  <2> QED BY <2>6, <2>7, <2>8, OneKeeps
<1> QED BY <1>5, <1>6

(* A connection's end takes its command on, and an error is not lost.       *)
LEMMA VerdictOfError ==
    ASSUME NEW s \in Seq(Responses), ~Never("error", s)
    PROVE  Verdict(s) = "error"
<1>1. "error" \in {s[k] : k \in DOMAIN s} /\ s # <<>>
  BY DEF Never
<1> QED BY <1>1 DEF Verdict

LEMMA Concluded ==
    ASSUME IInv, NEW S, Conclude(S), NEW c \in Commands
    PROVE  /\ state' \in [Commands -> States] /\ waited' \in [Commands -> Nat]
           /\ why' \in [Commands -> {"no", "beforeRequest", "afterRequest"}]
           /\ c \notin S => state'[c] = state[c] /\ why'[c] = why[c] /\ waited'[c] = waited[c]
           /\ c \in S =>
                 /\ waited'[c] = 0
                 /\ state'[c] \in {"failed", "local", "handled"}
                 /\ state'[c] = "local" => why'[c] # "no"
                 /\ why'[c] = why[c] \/ why'[c] # "no"
                 /\ why'[c] = "beforeRequest" => why[c] = "beforeRequest" \/ state[c] = "probing"
                 /\ ~Never("error", reply[c]) => state'[c] = "failed"
<1>1. reply[c] \in Seq(Responses)
  BY DEF IInv, Typed
<1>2. ~Never("error", reply[c]) => Verdict(reply[c]) = "error"
  BY <1>1, VerdictOfError
<1>3. /\ state' \in [Commands -> States] /\ waited' \in [Commands -> Nat]
      /\ why' \in [Commands -> {"no", "beforeRequest", "afterRequest"}]
  BY DEF Conclude, IInv, Typed, States, Ended
<1>4. c \notin S => state'[c] = state[c] /\ why'[c] = why[c] /\ waited'[c] = waited[c]
  BY DEF Conclude
<1>5. c \in S =>
         /\ waited'[c] = 0
         /\ state'[c] \in {"failed", "local", "handled"}
         /\ state'[c] = "local" => why'[c] # "no"
         /\ why'[c] = why[c] \/ why'[c] # "no"
         /\ why'[c] = "beforeRequest" => why[c] = "beforeRequest" \/ state[c] = "probing"
         /\ Verdict(reply[c]) = "error" => state'[c] = "failed"
  BY DEF Conclude
<1> QED BY <1>2, <1>3, <1>4, <1>5

(* The end of the connections of S, with none left to them.                 *)
LEMMA ConcludeKeeps ==
    ASSUME IInv, NEW S, Conclude(S), \A c \in S : state[c] \in Reading,
           UNCHANGED <<reply, asked, opened>>,
           serving' = None, backlog' \in {backlog, <<>>},
           \A c \in Commands : state[c] = "activating" /\ Served(c) => c \in S
    PROVE  IInv'
<1>1. Typed'
  <2>1. <<>> \in Seq(Waits) /\ DOMAIN <<>> = {}
    OBVIOUS
  <2>2. backlog' \in Seq(Waits) /\ \A k \in DOMAIN backlog' : Known(backlog'[k])
    BY <2>1 DEF IInv, Typed
  <2>3. /\ state' \in [Commands -> States] /\ waited' \in [Commands -> Nat]
        /\ why' \in [Commands -> {"no", "beforeRequest", "afterRequest"}]
    BY DEF Conclude, IInv, Typed, States, Ended
  <2> QED BY <2>2, <2>3 DEF IInv, Typed
<1>2. ASSUME NEW c \in Commands
      PROVE  Kept(c)'
  <2>1. ~Served(c)'
    BY DEF Served
  <2>2. Queued(c)' \subseteq Queued(c) /\ (Untouched(c)' <=> Untouched(c))
    BY DEF Queued, Requests, Untouched, Never
  <2>3. CASE c \notin S
    <3>1. state'[c] = state[c] /\ why'[c] = why[c] /\ waited'[c] = waited[c]
      BY <2>3, Concluded
    <3>2. Forward(c)'
      BY <3>1 DEF IInv, Forward
    <3>3. Once(c)'
      BY <2>1, <2>2, <3>1 DEF IInv, Once, AtMostOnce
    <3>4. Final(c)'
      BY <2>1, <2>2, <2>3, <3>1 DEF IInv, Final
    <3> QED BY <3>2, <3>3, <3>4 DEF Kept
  <2>4. CASE c \in S
    <3>1. /\ state'[c] \in {"failed", "local", "handled"}
          /\ state'[c] = "local" => why'[c] # "no"
          /\ why'[c] = why[c] \/ why'[c] # "no"
          /\ why'[c] = "beforeRequest" => why[c] = "beforeRequest" \/ state[c] = "probing"
          /\ ~Never("error", reply[c]) => state'[c] = "failed"
      BY <2>4, Concluded
    <3>2. Forward(c)'
      BY <3>1 DEF IInv, Forward, Unasked
    <3>3. Once(c)'
      BY <2>1, <2>2, <3>1 DEF IInv, Once, AtMostOnce, Unasked
    <3>4. Final(c)'
      BY <2>1, <2>2, <3>1 DEF IInv, Final
    <3> QED BY <3>2, <3>3, <3>4 DEF Kept
  <2> QED BY <2>3, <2>4
<1> QED BY <1>1, <1>2 DEF IInv, Kept

LEMMA CloseKeeps == IInv /\ Close => IInv'
<1> SUFFICES ASSUME IInv, Close PROVE IInv'
  OBVIOUS
<1> DEFINE S == {serving.peer} \cap {c \in Commands : state[c] = "activating"}
<1>1. Conclude(S) /\ serving' = None /\ UNCHANGED <<reply, asked, opened, backlog>>
  BY DEF Close, effectVars
<1>2. \A c \in S : state[c] \in Reading
  BY DEF Reading
<1>3. \A c \in Commands : state[c] = "activating" /\ Served(c) => c \in S
  BY DEF Served
<1> HIDE DEF S
<1> QED BY <1>1, <1>2, <1>3, ConcludeKeeps

LEMMA CrashKeeps == IInv /\ Crash => IInv'
<1> SUFFICES ASSUME IInv, Crash PROVE IInv'
  OBVIOUS
<1> DEFINE S == {c \in Commands : state[c] \in Reading}
<1>1. Conclude(S) /\ serving' = None /\ backlog' = <<>> /\ UNCHANGED <<reply, asked, opened>>
  BY DEF Crash, effectVars
<1>2. \A c \in S : state[c] \in Reading
  OBVIOUS
<1>3. \A c \in Commands : state[c] = "activating" /\ Served(c) => c \in S
  BY DEF Reading
<1> HIDE DEF S
<1> QED BY <1>1, <1>2, <1>3, ConcludeKeeps

-----------------------------------------------------------------------------
(* What is not about any command.                                          *)
LEMMA NobodyKeeps ==
    ASSUME IInv, Typed', \A c \in Commands : Apart(c)
    PROVE  IInv'
BY ApartKeeps DEF IInv

LEMMA MuteConnectsKeeps ==
    ASSUME IInv, NEW m \in MutePeers, MuteConnects(m) PROVE IInv'
<1> DEFINE x == [peer |-> m, request |-> "nothing"]
<1>1. x \in Waits /\ Known(x) /\ \A c : ~Activates(x, c)
  BY DEF Waits, Known, Activates
<1>2. backlog \in Seq(Waits) /\ \A k \in DOMAIN backlog : Known(backlog[k])
  BY DEF IInv, Typed
<1>3. /\ UNCHANGED <<state, waited, reply, why, asked, opened, serving>>
      /\ backlog' = Append(backlog, x)
  BY DEF MuteConnects, commandVars, effectVars
<1> HIDE DEF x
<1>4. backlog' \in Seq(Waits) /\ \A k \in DOMAIN backlog' : Known(backlog'[k])
  BY <1>1, <1>2, <1>3, RequestsAppend
<1>5. Typed'
  BY <1>3, <1>4 DEF IInv, Typed
<1>6. ASSUME NEW c \in Commands
      PROVE  Apart(c)
  <2>1. Queued(c)' = Queued(c)
    BY <1>1, <1>2, <1>3, RequestsAppend DEF Queued
  <2> QED BY <1>3, <2>1 DEF Apart, Served, IInv, Once
<1> QED BY <1>5, <1>6, NobodyKeeps

LEMMA MuteCutOffKeeps == IInv /\ MuteCutOff => IInv'
<1> SUFFICES ASSUME IInv, MuteCutOff PROVE IInv'
  OBVIOUS
<1>1. /\ UNCHANGED <<state, waited, reply, why, asked, opened, backlog>>
      /\ serving' = None /\ serving.request = "nothing"
  BY DEF MuteCutOff, At, commandVars, effectVars
<1>2. Typed'
  BY <1>1 DEF IInv, Typed
<1>3. ASSUME NEW c \in Commands
      PROVE  Apart(c)
  BY <1>1, QueueUnchanged DEF Apart, Served
<1> QED BY <1>2, <1>3, NobodyKeeps

LEMMA TickKeeps == IInv /\ Tick => IInv'
<1> SUFFICES ASSUME IInv, Tick PROVE IInv'
  OBVIOUS
<1>1. /\ UNCHANGED <<state, reply, why, asked, opened, backlog, serving>>
      /\ waited' = [c \in Commands |-> IF c \in Waiting THEN waited[c] + 1 ELSE waited[c]]
      /\ ~At("activate", "writing")
  BY DEF Tick, effectVars
<1>2. Typed'
  BY <1>1 DEF IInv, Typed
<1>3. ASSUME NEW c \in Commands
      PROVE  Kept(c)'
  <2>1. /\ Queued(c)' = Queued(c) /\ (Served(c)' <=> Served(c))
        /\ (Untouched(c)' <=> Untouched(c))
    BY <1>1, QueueUnchanged DEF Served, Untouched, Never
  <2>2. Forward(c)'
    BY <1>1 DEF IInv, Forward
  <2>3. Once(c)'
    BY <1>1, <2>1 DEF IInv, Once, AtMostOnce
  <2>4. ~Never("error", reply[c]) => state[c] # "activating"
    BY <1>1 DEF IInv, Final, Served, At
  <2>5. Final(c)'
    BY <1>1, <2>1, <2>4 DEF IInv, Final
  <2> QED BY <2>2, <2>3, <2>5 DEF Kept
<1> QED BY <1>2, <1>3 DEF IInv, Kept

LEMMA IdleKeeps ==
    ASSUME IInv, UNCHANGED <<state, waited, reply, why, asked, opened, backlog, serving>>
    PROVE  IInv'
<1>1. Typed'
  BY DEF IInv, Typed
<1>2. ASSUME NEW c \in Commands
      PROVE  Apart(c)
  BY QueueUnchanged DEF Apart, Served
<1> QED BY <1>1, <1>2, NobodyKeeps

LEMMA InitIInv == Init => IInv
<1> SUFFICES ASSUME Init PROVE IInv
  OBVIOUS
<1>1. /\ \A S : <<>> \in Seq(S)
      /\ DOMAIN <<>> = {}
  OBVIOUS
<1>2. Typed
  BY <1>1 DEF Init, Typed, States
<1>3. ASSUME NEW c \in Commands
      PROVE  Forward(c) /\ Once(c) /\ Final(c)
  <2>1. /\ state[c] = "start" /\ why[c] = "no" /\ reply[c] = <<>> /\ asked[c] = <<>> /\ opened[c] = <<>>
        /\ Queued(c) = {} /\ ~Served(c)
    BY DEF Init, Queued, Requests, Served
  <2> QED BY <2>1, EmptyNever DEF Forward, Once, Final, Unasked, Untouched
<1> QED BY <1>2, <1>3 DEF IInv

LEMMA NextIInv == IInv /\ [Next]_vars => IInv'
<1> SUFFICES ASSUME IInv, [Next]_vars PROVE IInv'
  OBVIOUS
<1>1. ASSUME NEW c \in Commands, CommandStep(c) \/ OpenLocally(c)
      PROVE  IInv'
  <2>1. CASE Probe(c)
    BY <2>1, SendKeeps DEF Probe
  <2>2. CASE Activate(c)
    BY <2>2, SendKeeps DEF Activate
  <2> QED BY <1>1, <2>1, <2>2, NoDaemonKeeps, ReadTimesOutKeeps, OpenLocallyKeeps DEF CommandStep
<1>2. CASE DaemonStep
  <2>1. CASE NothingToAsk
    BY <2>1, DispatchKeeps DEF NothingToAsk
  <2>2. CASE DialogTimesOut
    BY <2>2, DispatchKeeps DEF DialogTimesOut
  <2> QED BY <1>2, <2>1, <2>2, AcceptKeeps, ServePingKeeps, ResolveFailsKeeps, AskKeeps,
             WriteLineKeeps, CloseKeeps, MuteCutOffKeeps DEF DaemonStep
<1>3. CASE Answered
  BY <1>3, DispatchKeeps DEF Answered
<1>4. CASE Start
  BY <1>4, IdleKeeps DEF Start, commandVars, effectVars
<1>5. CASE UNCHANGED vars
  BY <1>5, IdleKeeps DEF vars, commandVars, effectVars, daemonVars
<1> QED BY <1>1, <1>2, <1>3, <1>4, <1>5, CrashKeeps, MuteConnectsKeeps, TickKeeps DEF Next

(* Of a command's one request at most one thing is made.                    *)
THEOREM ServiceInvariant == Spec => []IInv
BY InitIInv, NextIInv, PTL DEF Spec

-----------------------------------------------------------------------------
(* Counting.                                                               *)
LEMMA TimesOnce ==
    ASSUME NEW who, NEW s, AtMostOnce(who, s)
    PROVE  Times(who, s) <= 1
<1> DEFINE K == {k \in DOMAIN s : s[k] = who}
<1>1. Times(who, s) = Cardinality(K)
  BY DEF Times
<1>2. \A j, k \in K : j = k
  BY DEF AtMostOnce
<1> HIDE DEF K
<1>3. CASE K = {}
  BY <1>1, <1>3, FS_EmptySet
<1>4. CASE K # {}
  <2>1. PICK k : k \in K
    BY <1>4
  <2>2. K = {k}
    BY <1>2, <2>1
  <2> QED BY <1>1, <2>2, FS_Singleton
<1> QED BY <1>3, <1>4

LEMMA TimesNever ==
    ASSUME NEW who, NEW s \in Seq(Actors), NEW t \in Seq(Actors), Never(who, s), Never(who, t)
    PROVE  Times(who, s \o t) = 0
<1>1. /\ s \o t \in Seq(Actors) /\ Len(s \o t) = Len(s) + Len(t)
      /\ \A k \in 1 .. Len(s) + Len(t) :
            (s \o t)[k] = IF k <= Len(s) THEN s[k] ELSE t[k - Len(s)]
  BY ConcatProperties
<1>2. /\ Len(s) \in Nat /\ Len(t) \in Nat /\ DOMAIN s = 1 .. Len(s) /\ DOMAIN t = 1 .. Len(t)
      /\ DOMAIN (s \o t) = 1 .. Len(s) + Len(t)
  BY <1>1, LenProperties
<1>3. \A k \in DOMAIN (s \o t) : (s \o t)[k] # who
  BY <1>1, <1>2 DEF Never
<1>4. {k \in DOMAIN (s \o t) : (s \o t)[k] = who} = {}
  BY <1>3
<1> QED BY <1>4, FS_EmptySet DEF Times

(* daemon_client.rs:76-95: without a request of its own, and with no more   *)
(* than one, nothing is asked or launched for a command by the daemon.      *)
THEOREM RequestBeforeActivation == Spec => []NoRequestNoActivation
<1>1. IInv => NoRequestNoActivation
  <2> SUFFICES ASSUME IInv, NEW c \in Commands
               PROVE  /\ Times("daemon", asked[c]) <= 1
                      /\ Times("daemon", opened[c]) <= 1
                      /\ why[c] = "beforeRequest" => Times("daemon", asked[c] \o opened[c]) = 0
                      /\ Times("command", asked[c] \o opened[c]) > 0 => why[c] # "no"
    BY DEF NoRequestNoActivation
  <2>1. asked[c] \in Seq(Actors) /\ opened[c] \in Seq(Actors)
    BY DEF IInv, Typed
  <2>2. Times("daemon", asked[c]) <= 1 /\ Times("daemon", opened[c]) <= 1
    BY TimesOnce DEF IInv, Once
  <2>3. why[c] = "beforeRequest" => Times("daemon", asked[c] \o opened[c]) = 0
    BY <2>1, TimesNever DEF IInv, Once, Untouched
  <2>4. why[c] = "no" => Times("command", asked[c] \o opened[c]) = 0
    BY <2>1, TimesNever DEF IInv, Forward
  <2> QED BY <2>2, <2>3, <2>4
<1> QED BY <1>1, ServiceInvariant, PTL

(* daemon_client.rs:123-128: an error of the daemon is a "no" the user is   *)
(* not asked about a second time.                                          *)
THEOREM ErrorEndsIt == Spec => []RefusalIsFinal
<1>1. IInv => RefusalIsFinal
  BY DEF IInv, Final, Never, RefusalIsFinal
<1> QED BY <1>1, ServiceInvariant, PTL

-----------------------------------------------------------------------------
(* How a daemon comes to listen (module SocketStartup). Daemons that start  *)
(* one after the other never take the socket from one that listens, never   *)
(* stop at what a killed one left behind, and serve only a private           *)
(* endpoint: for any number of daemons and of starts.                       *)
(*                                                                         *)
(* The properties are not inductive: that `Remove` takes nobody's socket    *)
(* needs to know what the removing daemon has seen and that it still holds. *)
(* Seen says it, and Alone says who could have changed it.                  *)
(* No start overlaps another: without that, MCSocketStartupRace has a       *)
(* counterexample.                                                          *)
OneAtATime == Overlap = FALSE

(* At most one daemon is between its start and its listening.               *)
Alone ==
    \A d, e \in Daemons : pc[d] \in Starting /\ pc[e] \in Starting => d = e

(* The file is as each starting daemon has found it.                        *)
Seen ==
    \A d \in Daemons :
        /\ pc[d] \in Starting \ {"preparing"} => dir = "private"
        /\ pc[d] = "connecting" => file # Nobody
        /\ pc[d] = "removing" => file # Nobody /\ file.by = Nobody
        /\ pc[d] = "binding" => file = Nobody

(* Behind a file that answers there is a daemon that has bound it.          *)
Answering == file # Nobody /\ file.by # Nobody => file.by \in Bound

StartupInv ==
    /\ TypeOK /\ Alone /\ Seen /\ Answering
    /\ NoClobber /\ StaleNeverBlocks /\ PrivateEndpoint

LEMMA InitStartup ==
    ASSUME OneAtATime PROVE StartupInit => StartupInv
BY NobodyAssumption, MaxStartsAssumption, SMT
   DEF OneAtATime, StartupInit, StartupInv, TypeOK, Alone, Seen,
       Answering, NoClobber, StaleNeverBlocks,
       PrivateEndpoint, Bound, Starting,
       Stopped

LEMMA StartKeeps ==
    ASSUME OneAtATime, StartupInv, NEW d \in Daemons, Run(d) PROVE StartupInv'
<1> USE NobodyAssumption, MaxStartsAssumption DEF OneAtATime, Run, To, Starting,
            Stopped
<1>1. TypeOK'
  BY DEF OneAtATime, StartupInv, TypeOK
<1>2. (Alone /\ Seen)'
  BY DEF StartupInv, TypeOK, Alone, Seen
<1>3. Bound' = Bound /\ UNCHANGED <<dir, file>>
  BY DEF StartupInv, TypeOK, Bound
<1>4. (Answering /\ NoClobber /\ StaleNeverBlocks /\ PrivateEndpoint)'
  BY <1>3 DEF StartupInv, TypeOK, Answering, NoClobber,
              StaleNeverBlocks, PrivateEndpoint
<1> QED BY <1>1, <1>2, <1>4 DEF StartupInv

LEMMA BindKeeps ==
    ASSUME OneAtATime, StartupInv, NEW d \in Daemons, Bind(d) PROVE StartupInv'
<1> USE NobodyAssumption, MaxStartsAssumption DEF OneAtATime, StartupInv, Starting, Stopped
<1>1. /\ pc[d] = "binding" /\ file = Nobody /\ dir = "private"
      /\ pc' = [pc EXCEPT ![d] = "protecting"] /\ UNCHANGED <<dir, starts>>
  BY DEF Bind, To, Seen
<1>2. /\ file' \in [by : Daemons \cup {Nobody}, private : BOOLEAN]
      /\ file'.by = d /\ file' # Nobody
  <2>1. file' = [by |-> d, private |-> FALSE]
    BY <1>1 DEF Bind
  <2>2. file' \in [by : Daemons \cup {Nobody}, private : BOOLEAN]
    BY <2>1
  <2>3. file' # Nobody
    BY <2>2
  <2> QED BY <2>1, <2>2, <2>3
<1>3. Bound = {} /\ Bound' = {d}
  BY <1>1 DEF Bound, NoClobber, TypeOK
<1>4. TypeOK'
  BY <1>1, <1>2 DEF TypeOK
<1>5. (Alone /\ Seen)'
  BY <1>1, <1>2 DEF Alone, Seen, TypeOK
<1>6. (Answering /\ NoClobber)'
  BY <1>2, <1>3 DEF Answering, NoClobber
<1>7. (StaleNeverBlocks /\ PrivateEndpoint)'
  BY <1>1, <1>2, <1>3 DEF StaleNeverBlocks, PrivateEndpoint,
                          TypeOK, Bound
<1> QED BY <1>4, <1>5, <1>6, <1>7

LEMMA ProtectKeeps ==
    ASSUME OneAtATime, StartupInv, NEW d \in Daemons, Protect(d) PROVE StartupInv'
<1> USE NobodyAssumption, MaxStartsAssumption DEF OneAtATime, StartupInv, Starting, Stopped
<1>1. pc[d] = "protecting" /\ file # Nobody /\ file.by = d
  BY DEF Protect, NoClobber, Bound
<1>2. pc' = [pc EXCEPT ![d] = "listening"] /\ UNCHANGED <<dir, starts>>
  BY <1>1 DEF Protect, To
<1>3. /\ file' \in [by : Daemons \cup {Nobody}, private : BOOLEAN]
      /\ file'.by = d /\ file'.private = TRUE /\ file' # Nobody
  <2>1. file \in [by : Daemons \cup {Nobody}, private : BOOLEAN]
    BY <1>1 DEF TypeOK
  <2>2. file' = [file EXCEPT !.private = TRUE]
    BY <1>1 DEF Protect
  <2>3. file' \in [by : Daemons \cup {Nobody}, private : BOOLEAN]
    BY <2>1, <2>2
  <2>4. file' # Nobody
    BY <2>3
  <2> QED BY <1>1, <2>1, <2>2, <2>3, <2>4
<1>4. Bound = {d} /\ Bound' = {d}
  BY <1>1, <1>2 DEF Bound, NoClobber, TypeOK
<1>5. TypeOK'
  BY <1>2, <1>3 DEF TypeOK
<1>6. (Alone /\ Seen)'
  BY <1>1, <1>2, <1>3 DEF Alone, Seen, TypeOK
<1>7. (Answering /\ NoClobber)'
  BY <1>3, <1>4 DEF Answering, NoClobber
<1>8. (StaleNeverBlocks /\ PrivateEndpoint)'
  BY <1>1, <1>2, <1>3, <1>4 DEF StaleNeverBlocks,
                                PrivateEndpoint, TypeOK,
                                Bound
<1> QED BY <1>5, <1>6, <1>7, <1>8

LEMMA StartupStepKeeps ==
    ASSUME OneAtATime, StartupInv, NEW d \in Daemons, Step(d) PROVE StartupInv'
<1> USE NobodyAssumption, MaxStartsAssumption DEF OneAtATime, StartupInv, TypeOK, To,
            Starting, Stopped, Alone, Seen, Answering,
            NoClobber, StaleNeverBlocks,
            PrivateEndpoint, Bound
<1>1. CASE PrepareDir(d)
  BY <1>1, SMT DEF PrepareDir
<1>2. CASE Look(d)
  BY <1>2, SMT DEF Look
<1>3. CASE Connect(d)
  BY <1>3, SMT DEF Connect
<1>4. CASE Remove(d)
  BY <1>4, SMT DEF Remove
<1>5. CASE Bind(d)
  BY <1>5, BindKeeps
<1>6. CASE Protect(d)
  BY <1>6, ProtectKeeps
<1> QED BY <1>1, <1>2, <1>3, <1>4, <1>5, <1>6 DEF Step

LEMMA KillKeeps ==
    ASSUME OneAtATime, StartupInv, NEW d \in Daemons, Kill(d) PROVE StartupInv'
<1> USE NobodyAssumption, MaxStartsAssumption DEF OneAtATime, StartupInv, Starting, Stopped
<1>1. /\ pc' = [pc EXCEPT ![d] = "off"] /\ UNCHANGED <<dir, starts>>
      /\ pc' \in [Daemons -> Starting \cup Stopped \cup {"listening"}]
  BY DEF Kill, To, TypeOK
<1>2. Bound' = Bound \ {d}
  BY <1>1 DEF Bound, TypeOK
<1>3. CASE file # Nobody /\ file.by = d
  <2>1. file \in [by : Daemons \cup {Nobody}, private : BOOLEAN]
    BY <1>3 DEF TypeOK
  <2>2. file' = [file EXCEPT !.by = Nobody]
    BY <1>3 DEF Kill
  <2>3. /\ file' \in [by : Daemons \cup {Nobody}, private : BOOLEAN]
        /\ file'.by = Nobody /\ file'.private = file.private
    BY <2>1, <2>2
  <2>4. Bound = {d} \/ Bound = {}
    BY <1>3 DEF NoClobber, Bound
  <2>5. TypeOK'
    BY <1>1, <2>3 DEF TypeOK
  <2>6. (Alone /\ Seen)'
    BY <1>1, <1>3, <2>3 DEF Alone, Seen, TypeOK
  <2>7. (Answering /\ NoClobber)'
    BY <1>2, <2>3, <2>4 DEF Answering, NoClobber
  <2>8. (StaleNeverBlocks /\ PrivateEndpoint)'
    BY <1>1, <1>3, <2>3 DEF StaleNeverBlocks, PrivateEndpoint,
                            TypeOK
  <2> QED BY <2>5, <2>6, <2>7, <2>8
<1>4. CASE ~(file # Nobody /\ file.by = d)
  <2>1. file' = file
    BY <1>4 DEF Kill
  <2>2. (TypeOK /\ Alone /\ Seen)'
    BY <1>1, <2>1 DEF TypeOK, Alone, Seen
  <2>3. (Answering /\ NoClobber)'
    BY <1>2, <1>4, <2>1 DEF Answering, NoClobber
  <2>4. (StaleNeverBlocks /\ PrivateEndpoint)'
    BY <1>1, <2>1 DEF StaleNeverBlocks, PrivateEndpoint,
                      TypeOK
  <2> QED BY <2>2, <2>3, <2>4
<1> QED BY <1>3, <1>4

(* The invariant of daemons started one after the other (server.rs:201-221, *)
(* where nothing but the order of the calls keeps two starts apart).        *)
THEOREM SerialInvariant ==
    ASSUME OneAtATime PROVE StartupSpec => []StartupInv
<1>1. ASSUME StartupInv, [StartupNext]_(startupVars) PROVE StartupInv'
  <2>1. CASE UNCHANGED startupVars
    BY <1>1, <2>1
       DEF startupVars, StartupInv, TypeOK, Alone, Seen, Answering,
           NoClobber, StaleNeverBlocks,
           PrivateEndpoint, Bound
  <2>2. ASSUME NEW d \in Daemons, Run(d) \/ Step(d) \/ Kill(d)
        PROVE  StartupInv'
    BY <1>1, <2>2, StartKeeps, StartupStepKeeps, KillKeeps
  <2> QED BY <1>1, <2>1, <2>2 DEF StartupNext
<1> QED BY InitStartup, <1>1, PTL DEF StartupSpec

(* The variables keep their types.                                          *)
THEOREM SocketTypes == ASSUME OneAtATime PROVE StartupSpec => []TypeOK
<1>1. StartupInv => TypeOK
  BY DEF StartupInv
<1> QED BY <1>1, SerialInvariant, PTL

(* server.rs:199-200: a live socket is never clobbered.                     *)
THEOREM LiveSocketStays == ASSUME OneAtATime PROVE StartupSpec => []NoClobber
<1>1. StartupInv => NoClobber
  BY DEF StartupInv
<1> QED BY <1>1, SerialInvariant, PTL

(* server.rs:204-214: no stale socket keeps a daemon from starting.         *)
THEOREM StaleSocketGoes == ASSUME OneAtATime PROVE StartupSpec => []StaleNeverBlocks
<1>1. StartupInv => StaleNeverBlocks
  BY DEF StartupInv
<1> QED BY <1>1, SerialInvariant, PTL

(* docs/daemon.md D-1: what is served is private to its user.               *)
THEOREM EndpointIsPrivate == ASSUME OneAtATime PROVE StartupSpec => []PrivateEndpoint
<1>1. StartupInv => PrivateEndpoint
  BY DEF StartupInv
<1> QED BY <1>1, SerialInvariant, PTL
=============================================================================
