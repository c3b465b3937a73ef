-------------------------- MODULE MCManifestCache --------------------------
(* Three invocations at once: two that store and one that reads, or one     *)
(* that stores while two evict. Two documents, so that the authority can    *)
(* change what it publishes. The first entry is stale at time 1.            *)
EXTENDS ManifestCache

CONSTANTS p1, p2, p3

JobsOf(a, b, c) == [p \in Procs |-> IF p = p1 THEN a ELSE IF p = p2 THEN b ELSE c]

MCJobs == {JobsOf("online", "refresh", "offline"), JobsOf("online", "evict", "clear")}
=============================================================================
