--------------------------------- MODULE MCIndex -------------------------------
(* The index on a small instance. *)
EXTENDS Index

CONSTANTS host, job, none, x, y   \* two names, three values

\* The empty value, no job, two values, two that share a pair.
SmallLabelSets ==
    {[n \in {host} |-> none],
     [n \in {host} |-> x],
     [n \in {host, job} |-> IF n = host THEN y ELSE x],
     [n \in {host, job} |-> x]}

On(name) == {m \in Matchers : m.name = name}
Not(name) == {m \in On(name) : m.operator = "!="}

\* Up to two matchers, and three of which each leaves something to the next.
SmallMatcherLists ==
    {<<>>}
    \cup {<<m1>> : m1 \in Matchers}
    \cup {<<m1, m2>> : m1 \in On(job), m2 \in Matchers}
    \cup {<<m1, m2, m3>> : m1 \in {m \in Not(job) : m.value = y},
                          m2 \in {m \in Not(host) : m.value = x}, m3 \in On(host)}
================================================================================
