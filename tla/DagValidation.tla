----------------------------- MODULE DagValidation -----------------------------
(***************************************************************************)
(* The validator a plan passes before a run of it is made                  *)
(* (bel/dag/dag-validator.ts): its depth-first search for a cycle and the  *)
(* kinds of errors it finds.  A plan has its nodes and edges in the order  *)
(* of their arrays; an edge may name a node that is not there.  Risk flags *)
(* and warnings decide nothing and are left out.                           *)
(***************************************************************************)
EXTENDS Naturals, Sequences, FiniteSets, SequencesExt

Ids(plan) == {plan.nodes[i].id : i \in DOMAIN plan.nodes}

\* adjacency: where the edges of a node lead, in their order; nowhere for a node that is
\* not there.
Neighbors(plan, n) ==
    LET of == IF n \in Ids(plan) THEN SelectSeq(plan.edges, LAMBDA e : e.from = n) ELSE <<>>
    IN  [i \in DOMAIN of |-> of[i].to]

\* visited, stack and cyclePath, which all calls of dfs share, and what the last of them
\* returned.
Unvisited == [visited |-> {}, stack |-> {}, cyclePath |-> <<>>, found |-> FALSE]

Noted(search, n) == [search EXCEPT !.cyclePath = Append(@, n), !.found = TRUE]

RECURSIVE dfs(_, _, _)
dfs(plan, search, n) ==
    IF n \in search.stack THEN Noted(search, n)
    ELSE IF n \in search.visited THEN search
    ELSE LET entered == [search EXCEPT !.visited = @ \cup {n}, !.stack = @ \cup {n}]
             left    == FoldLeft(LAMBDA s, next : IF s.found THEN s ELSE dfs(plan, s, next),
                                 entered, Neighbors(plan, n))
         IN  IF left.found THEN Noted(left, n) ELSE [left EXCEPT !.stack = @ \ {n}]

\* The path that closes a cycle, from the node the search began at; empty if there is none.
detectCycle(plan) ==
    LET end == FoldLeft(LAMBDA s, node : IF s.found THEN s ELSE dfs(plan, s, node.id),
                        Unvisited, plan.nodes)
    IN  Reverse(end.cyclePath)

Into(plan, n) == {i \in DOMAIN plan.edges : plan.edges[i].to = n}
From(plan, n) == {i \in DOMAIN plan.edges : plan.edges[i].from = n}

\* validateDagPlan, as the set of the kinds of its errors.
Errors(plan) ==
    LET nodes == {plan.nodes[i] : i \in DOMAIN plan.nodes}
        ends  == {plan.edges[i] : i \in DOMAIN plan.edges}
        Said(kind, when) == IF when THEN {kind} ELSE {}
    IN  UNION {
          Said("duplicate", Cardinality(Ids(plan)) < Len(plan.nodes)),
          Said("unknown", \E e \in ends : {e.from, e.to} \ Ids(plan) # {}),
          Said("cycle", detectCycle(plan) # <<>>),
          Said("no input", \A n \in nodes : n.type # "input"),
          Said("orphan", \E n \in nodes : n.type # "input" /\ Into(plan, n.id) = {}),
          Said("no terminal", \A n \in nodes : From(plan, n.id) # {})}

valid(plan) == Errors(plan) = {}

-----------------------------------------------------------------------------
(* What the validator is for.                                              *)

Edge(plan, m, n) ==
    \E i \in DOMAIN plan.edges : plan.edges[i] = [from |-> m, to |-> n]

\* The nodes can be numbered so that every edge between them goes up.
Acyclic(plan) ==
    \E rank \in [Ids(plan) -> 1..Cardinality(Ids(plan))] :
        \A m, n \in Ids(plan) : Edge(plan, m, n) => rank[m] < rank[n]

\* A cycle is found in exactly the plans that have one, whatever the order of nodes and
\* edges and however branches meet again (dag-validator.ts:14-57).
CycleFoundIffThere(plan) == (detectCycle(plan) # <<>>) <=> ~Acyclic(plan)

\* What is reported is a walk along edges of the plan that ends where it has been before
\* (dag-validator.ts:27-47).
PathIsACycle(plan) ==
    LET path == detectCycle(plan)
    IN  path # <<>> =>
          /\ \A i \in 1..(Len(path) - 1) : Edge(plan, path[i], path[i + 1])
          /\ \E i \in 1..(Len(path) - 1) : path[i] = path[Len(path)]

\* In a plan that passes, every node is reached from an input: a run of it has something
\* to begin with, and nothing waits for ever (dag-validator.ts:86-120).
Reached(plan) ==
    \A R \in SUBSET Ids(plan) :
        (/\ \A i \in DOMAIN plan.nodes : plan.nodes[i].type = "input" => plan.nodes[i].id \in R
         /\ \A m \in R, n \in Ids(plan) : Edge(plan, m, n) => n \in R)
        => R = Ids(plan)

PassedIsSound(plan) ==
    valid(plan) => Acyclic(plan) /\ Reached(plan)
=============================================================================
