---------------------------- MODULE MCActivation ----------------------------
(* Plans of up to three resources over every tier and every kind of         *)
(* manifest behind them, policies from the default to the mildest and the   *)
(* strictest, and requests for each surface with options that narrow and    *)
(* flags that approve.                                                     *)
EXTENDS Activation

Planned1(id, kind) ==
    [id |-> id, anchor |-> id, required |-> FALSE, kind |-> kind, executable |-> FALSE,
     trusted |-> TRUE, window |-> "valid", remote |-> FALSE]
Remote(r) == [r EXCEPT !.remote = TRUE, !.trusted = FALSE]

(* Ids are unique in these plans.                                          *)
MCPlans ==
    {<<Planned1("a", "https"), [Planned1("b", "file") EXCEPT !.required = TRUE],
       Planned1("c", "terminal")>>,
     <<Remote(Planned1("a", "https")), Remote(Planned1("b", "dir")),
       [Remote(Planned1("c", "file")) EXCEPT !.executable = TRUE, !.required = TRUE]>>,
     <<[Remote(Planned1("a", "geo")) EXCEPT !.window = "expired"],
       [Planned1("b", "mailto") EXCEPT !.window = "premature", !.required = TRUE],
       [Planned1("c", "dir") EXCEPT !.window = "expired", !.remote = TRUE]>>,
     <<[Planned1("a", "ssh") EXCEPT !.remote = TRUE, !.required = TRUE],
       [Planned1("b", "custom") EXCEPT !.anchor = "a"],
       [Remote(Planned1("c", "terminal")) EXCEPT !.anchor = "a"]>>,
     <<Planned1("a", "https"), [Planned1("b", "https") EXCEPT !.anchor = "a"]>>,
     <<>>}

(* Two manifests in one plan use the id "a".                               *)
MCCollidingPlans ==
    {<<Planned1("a", "https"), [Remote(Planned1("a", "https")) EXCEPT !.anchor = "b"],
       [Planned1("b", "terminal") EXCEPT !.required = TRUE]>>}

Uniform(mode, trust) ==
    [mode |-> [t \in Tiers |-> mode], dangerousRequiresTrust |-> trust,
     remoteFilesystemRefs |-> mode]

MCPolicySet ==
    {DefaultPolicy, Uniform("Allow", FALSE), Uniform("Allow", TRUE),
     Uniform("Prompt", FALSE), Uniform("Deny", TRUE),
     [DefaultPolicy EXCEPT !.mode["Safe"] = "Allow", !.remoteFilesystemRefs = "Deny"],
     [Uniform("Allow", FALSE) EXCEPT !.mode["Sensitive"] = "Deny"]}

Request(surface, only, skip, flags) ==
    [surface |-> surface, only |-> only, skip |-> skip, flags |-> flags]

MCRequests ==
    {Request(s, o, {}, {}) : s \in SurfaceKinds, o \in {{}, {"a"}}}
    \cup {Request(s, {}, k, f) :
            s \in {"prompt", "noTty"}, k \in {{}, {"b"}},
            f \in {{"yes"}, {"allowSensitive"}, {"allowDangerous"}}}
MCDialog == {Request("dialog", {}, {}, {})}
=============================================================================
