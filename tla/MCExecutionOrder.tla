-------------------------- MODULE MCExecutionOrder --------------------------
(* Every list of no to three resources with two values of `order` and any *)
(* `dependsOn`, self edges and an unknown id included, and some lists of    *)
(* four (a diamond, two chains, a cycle behind a free resource).            *)
EXTENDS ExecutionOrder

Ids == <<"a", "b", "c", "d">>

ListsOf(n) ==
    {[k \in 1 .. n |-> [id |-> Ids[k], order |-> o[k], dependsOn |-> d[k]]] :
        o \in [1 .. n -> {0, 1}],
        d \in [1 .. n -> SUBSET {Ids[k] : k \in 1 .. n}]}

Unknown ==
    {<<[id |-> "a", order |-> 1, dependsOn |-> {"zz", "b"}],
       [id |-> "b", order |-> 2, dependsOn |-> {"zz"}]>>}

FourOf(d) ==
    {[k \in 1 .. 4 |-> [id |-> Ids[k], order |-> o[k], dependsOn |-> d[k]]] :
        o \in [1 .. 4 -> {0, 1, 2}]}

MCInputs ==
    UNION {ListsOf(n) : n \in 0 .. 3}
    \cup Unknown
    \cup FourOf(<<{"b", "c"}, {"d"}, {"d"}, {}>>)
    \cup FourOf(<<{"c"}, {"d"}, {}, {}>>)
    \cup FourOf(<<{"b"}, {"c"}, {"b"}, {}>>)
=============================================================================
