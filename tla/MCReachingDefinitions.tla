----------------------- MODULE MCReachingDefinitions ------------------------
(***************************************************************************)
(* Functions for ReachingDefinitions: four blocks with every control flow  *)
(* among them, and up to two definitions of one or two variables.          *)
(***************************************************************************)
EXTENDS ReachingDefinitions

MCBlocks == 1..4

\* At most two successors, never the entry block; five edges in all.
Graphs ==
  {g \in [MCBlocks -> {S \in SUBSET (MCBlocks \ {1}) : Cardinality(S) <= 2}] :
     /\ g[1] # {}
     /\ Cardinality(g[1]) + Cardinality(g[2]) + Cardinality(g[3]) + Cardinality(g[4]) <= 5}

\* Two definitions, of the same variable or of two.
Contents ==
  {f \in [MCBlocks -> {<<>>, <<"x">>, <<"y">>, <<"x", "x">>}] :
     /\ Len(f[1] \o f[2] \o f[3] \o f[4]) = 2
     /\ \E b \in MCBlocks : f[b] \notin {<<>>, <<"y">>}}

MCPrograms == [defs : Contents, succs : Graphs]
=============================================================================
