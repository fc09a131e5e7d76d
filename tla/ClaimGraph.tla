------------------------------- MODULE ClaimGraph -------------------------------
(***************************************************************************)
(* The claim graph of a CIR and its traversals (src/src/rrxiv/graph.py).   *)
(* Claims are the records of module Parser; a node is a claim's id.        *)
(***************************************************************************)
EXTENDS Naturals, Sequences, SequencesExt

GraphNodes(claims) == {c.id : c \in ToSet(claims)}

\* add_claim, over all the claims: a second claim of the same id adds its edges
\* to the first one's. The edges of one kind, by source, in order.
Outgoing(claims, kind) ==
  [u \in GraphNodes(claims) |->
     FlattenSeq([n \in DOMAIN claims |-> IF claims[n].id = u THEN claims[n].edges[kind] ELSE <<>>])]

GraphEdges(claims, kind) ==
  {e \in GraphNodes(claims) \X UNION {ToSet(c.edges[kind]) : c \in ToSet(claims)} :
     e[2] \in ToSet(Outgoing(claims, kind)[e[1]])}

DanglingTargets(claims, kinds) ==
  (UNION {{e[2] : e \in GraphEdges(claims, k)} : k \in kinds}) \ GraphNodes(claims)

\* _reach: breadth first, as deep as asked; the start is not among its own neighbours.
Reach(start, edges, depth) ==
  LET wave[n \in 0 .. depth] ==
        IF n = 0 THEN [seen |-> {}, frontier |-> {start}]
        ELSE LET w == wave[n - 1]
                 next == {e[2] : e \in {x \in edges : x[1] \in w.frontier}} \ (w.seen \cup {start})
             IN [seen |-> w.seen \cup next, frontier |-> next]
  IN wave[depth].seen

Dependencies(claims, start, depth) == Reach(start, GraphEdges(claims, "depends_on"), depth)
Dependents(claims, start, depth) ==
  Reach(start, {<<e[2], e[1]>> : e \in GraphEdges(claims, "depends_on")}, depth)

-----------------------------------------------------------------------------
(* find_cycles: a depth-first search. A node is in progress while it is on   *)
(* the stack, done when it has left it; an edge back to a node in progress   *)
(* closes a cycle, the stack from there on.                                  *)

FollowWhole(dfs, v, s) == \* mutant: the whole stack is reported
  IF v \in ToSet(s.stack) THEN [s EXCEPT !.cycles = Append(@, s.stack)]
  ELSE IF v \in s.done THEN s
  ELSE dfs[[node |-> v, state |-> s]]
Follow(dfs, v, s) ==
  IF v \in ToSet(s.stack)
  THEN LET from == Min({i \in DOMAIN s.stack : s.stack[i] = v})
       IN [s EXCEPT !.cycles = Append(@, SubSeq(s.stack, from, Len(s.stack)))]
  ELSE IF v \in s.done THEN s
  ELSE dfs[[node |-> v, state |-> s]]

\* The body of the inner function, with itself as dfs: from a node not yet visited and a
\* state of the search to its state when the node is done.
Visit(out, dfs, q) ==
  LET targets == IF q.node \in DOMAIN out THEN out[q.node] ELSE <<>>
      walk[n \in 0 .. Len(targets)] ==
        IF n = 0 THEN [q.state EXCEPT !.stack = Append(@, q.node)]
        ELSE Follow(dfs, targets[n], walk[n - 1])
  IN [walk[Len(targets)] EXCEPT !.stack = Front(@), !.done = @ \cup {q.node}]

GraphEnds(out) == DOMAIN out \cup UNION {ToSet(out[u]) : u \in DOMAIN out}
Search(out) == [done : SUBSET GraphEnds(out), stack : Seq(GraphEnds(out)), cycles : Seq(Seq(GraphEnds(out)))]
Dfs(out) ==
  LET dfs[q \in [node : GraphEnds(out), state : Search(out)]] == Visit(out, dfs, q) IN dfs

\* The nodes are the elements of a set: they are started from in any order.
FindCycles(claims, kind, order) ==
  LET dfs == Dfs(Outgoing(claims, kind))
      visit[n \in 0 .. Len(order)] ==
        IF n = 0 THEN [done |-> {}, stack |-> <<>>, cycles |-> <<>>]
        ELSE IF order[n] \in visit[n - 1].done THEN visit[n - 1]
        ELSE dfs[[node |-> order[n], state |-> visit[n - 1]]]
  IN visit[Len(order)].cycles

AssertNoCycles(claims, kind, order) == FindCycles(claims, kind, order) = <<>>
=============================================================================
