----------------------------- MODULE MCModules -----------------------------
(* Instances of Modules for TLC. *)
EXTENDS Modules, Graphs

CONSTANTS a, b, c

\* Every import graph over the modules in which a module requests at most two
\* others, in either order.
Lists(m) == {<< >>} \union {<<x>> : x \in Module \ {m}}
            \union {l \in (Module \ {m}) \X (Module \ {m}) : l[1] # l[2]}
Graph == {g \in [Module -> UNION {Lists(m) : m \in Module}] : \A m \in Module : g[m] \in Lists(m)}

\* The scenario with the modules renamed, and one of each set of scenarios that
\* differ only in the names.
Renamed(s, p) ==
    LET old(m) == CHOOSE x \in Module : p[x] = m
    IN  [requests |-> [m \in Module |-> LET l == s.requests[old(m)]
                                        IN  [i \in DOMAIN l |-> p[l[i]]]],
         kind |-> [m \in Module |-> s.kind[old(m)]],
         fault |-> [m \in Module |-> s.fault[old(m)]]]
Distinct(S) == {CHOOSE x \in {Renamed(s, p) : p \in Permutations(Module)} : TRUE : s \in S}

\* Reachability as the properties define it is the closure of the requests.
ASSUME ReachesIsConnected ==
    \A g \in Graph :
        LET edges == UNION {{<<m, r>> : r \in ToSet(g[m])} : m \in Module}
            connected == ConnectionsIn([node |-> Module, edge |-> edges])
        IN  \A m, r \in Module : connected[m, r] <=> ReachesIn(g, m, r)

Sync == [m \in Module |-> "sync"]
NoFault == [m \in Module |-> "none"]

\* Modules with and without top-level await; a JSON module; one module whose
\* imports do not resolve; one that the host cannot load, requested or not.
Awaiting == [requests : Graph, kind : [Module -> {"sync", "async"}], fault : {NoFault}]
WithJSON == {s \in [requests : Graph, kind : {[Sync EXCEPT ![c] = "json"]}, fault : {NoFault}] :
               s.requests[c] = << >>}
Faulty(f) == [requests : Graph, kind : {Sync}, fault : {[NoFault EXCEPT ![c] = f]}]
Importing(f) == {s \in Faulty(f) : s.requests[c] # << >>}
Requested(s) == \E m \in Module : c \in ToSet(s.requests[m])
Absent == {s \in Faulty("notFound") : s.requests[c] = << >> /\ ~Requested(s)}

Sound == Distinct(Awaiting \union WithJSON \union Importing("unresolved") \union Absent)
Missing == Distinct({s \in Faulty("notFound") : Requested(s)} \union Importing("noDefault"))
Plain == Distinct({s \in Awaiting : s.kind = Sync})
=============================================================================
