------------------------------- MODULE Policy -------------------------------
(***************************************************************************)
(* The policy engine (murl-core, policy.rs): what a resource is, and what   *)
(* the local policy requires before it may be opened.                      *)
(*                                                                         *)
(* A planned resource is a record with at least                            *)
(*   kind        one of Kinds                                              *)
(*   executable  its target's extension is one that opening would run       *)
(*   trusted     TrustStatus::is_trusted of the manifest that declares it   *)
(*   window      that manifest's notBefore and expires against the clock    *)
(*   remote      that manifest was fetched from a remote authority          *)
(* the last three of which are EvalContext.                                *)
(***************************************************************************)
EXTENDS Naturals

SafeKinds == {"https", "geo", "mailto", "murl"}
Kinds == SafeKinds \cup {"dir", "file", "terminal", "ssh", "remote-desktop", "custom"}
Tiers == {"Safe", "Sensitive", "Dangerous"}
Modes == {"Allow", "Prompt", "Deny"}

Policies ==
    [mode : [Tiers -> Modes], dangerousRequiresTrust : BOOLEAN,
     remoteFilesystemRefs : Modes]

(* Policy::default.                                                        *)
DefaultPolicy ==
    [mode |-> [t \in Tiers |-> "Prompt"], dangerousRequiresTrust |-> TRUE,
     remoteFilesystemRefs |-> "Prompt"]

Facts ==
    [kind : Kinds, executable : BOOLEAN, trusted : BOOLEAN,
     window : {"valid", "expired", "premature"}, remote : BOOLEAN]

Classify(r) ==
    IF r.kind \in SafeKinds THEN "Safe"
    ELSE IF r.kind = "dir" \/ (r.kind = "file" /\ ~r.executable) THEN "Sensitive"
    ELSE "Dangerous"

(* A remote author asserts knowledge of this disk.                          *)
RemoteFilesystem(r) == r.remote /\ r.kind \in {"file", "dir", "terminal"}

(* Mutant of Refused: the window is looked at for DANGEROUS resources only. *)
MutRefusedSensitiveWindow(policy, r) ==
    \/ /\ Classify(r) = "Dangerous"
       /\ policy.dangerousRequiresTrust
       /\ ~r.trusted
    \/ r.window # "valid" /\ Classify(r) = "Dangerous"
    \/ policy.mode[Classify(r)] = "Deny"
    \/ RemoteFilesystem(r) /\ policy.remoteFilesystemRefs = "Deny"

(* The four returns of Decision::Deny.                                     *)
Refused(policy, r) ==
    \/ /\ Classify(r) = "Dangerous"
       /\ policy.dangerousRequiresTrust
       /\ ~r.trusted
    \/ r.window # "valid" /\ Classify(r) # "Safe"
    \/ policy.mode[Classify(r)] = "Deny"
    \/ RemoteFilesystem(r) /\ policy.remoteFilesystemRefs = "Deny"

(* Mutant of Questioned: the reason for an untrusted one is only given      *)
(* where trust is required.                                                *)
MutQuestionedNoTrust(policy, r) ==
    \/ policy.mode[Classify(r)] = "Prompt"
    \/ r.window # "valid"
    \/ RemoteFilesystem(r) /\ policy.remoteFilesystemRefs = "Prompt"
    \/ Classify(r) = "Dangerous" /\ r.trusted /\ ~policy.dangerousRequiresTrust

(* The reasons to prompt.                                                  *)
Questioned(policy, r) ==
    \/ policy.mode[Classify(r)] = "Prompt"
    \/ r.window # "valid"
    \/ RemoteFilesystem(r) /\ policy.remoteFilesystemRefs = "Prompt"
    \/ Classify(r) = "Dangerous" /\ ~r.trusted

(* Policy::evaluate.                                                       *)
Evaluate(policy, r) ==
    IF Refused(policy, r) THEN "Deny"
    ELSE IF Questioned(policy, r) THEN "Prompt"
    ELSE "Allow"

-----------------------------------------------------------------------------
Strictness(mode) == CASE mode = "Allow" -> 0 [] mode = "Prompt" -> 1 [] mode = "Deny" -> 2

AtLeastAsStrict(p, q) ==
    /\ \A t \in Tiers : Strictness(p.mode[t]) >= Strictness(q.mode[t])
    /\ q.dangerousRequiresTrust => p.dangerousRequiresTrust
    /\ Strictness(p.remoteFilesystemRefs) >= Strictness(q.remoteFilesystemRefs)

(* What s may become with less to vouch for it.                             *)
LessCredible(s) ==
    {[s EXCEPT !.trusted = t, !.window = w, !.remote = m] :
        t \in {s.trusted, FALSE}, w \in {s.window, "expired", "premature"},
        m \in {s.remote, TRUE}}
=============================================================================
