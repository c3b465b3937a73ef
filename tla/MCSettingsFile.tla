--------------------------- MODULE MCSettingsFile ---------------------------
(* A command that edits the trust store, and a second process: one that     *)
(* edits it, or the handlers, or looks, or the daemon; one process killed,  *)
(* one file written by hand.                                                *)
EXTENDS SettingsFile, TLC

CONSTANTS p1, p2, k1, k2, i1, i2, vendor, upper, bad, custom, client, strict

MCIdOf == k1 :> i1 @@ k2 :> i2

(* The user may write the one authority in capitals, or miswrite it.        *)
MCCanonical == vendor :> vendor @@ upper :> vendor @@ bad :> None

Do(do, at, value) == [do |-> do, at |-> at, value |-> value]
Look == Do("look", None, None)

MCJobs ==
    p1 :> {Do("pin", upper, k1), Do("unpin", vendor, i1), Look}
    @@ p2 :> {Do("pin", vendor, k2), Do("pin", vendor, i1), Do("unpin", upper, i1),
              Do("unpin", bad, i1), Do("set", custom, client), Do("unregister", custom, None),
              Look, Do("serve", None, None)}

MCSettings == {<<strict, strict>>}

MCStarts ==
    {[config |-> {<<strict, strict>>}, handlers |-> handlers, trust |-> trust] :
        handlers \in {None, {<<custom, client>>}}, trust \in {None, {<<vendor, i1>>}}}
=============================================================================
