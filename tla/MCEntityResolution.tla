-------------------------- MODULE MCEntityResolution --------------------------
(***************************************************************************)
(* Small instances of EntityResolution. b matches both a and c, which do     *)
(* not match each other, or has the value of a and matches only a.          *)
(***************************************************************************)
EXTENDS EntityResolution, TLC

\* The value of b is similar to both others: the chain a - b - c.
ChainSimilar == {<<"x", "xy">>, <<"xy", "x">>, <<"y", "xy">>, <<"xy", "y">>, <<"x", "x">>}
ChainFeed == {<<"a", "x">>, <<"b", "xy">>, <<"b", "x">>, <<"c", "y">>}
OneRelation == {<<"a", "c">>}
NoPairs == {}

\* Instances of the consumer are interchangeable.
InstanceSymmetry == Permutations(Consumers)

\* Edges are judged only where handlers neither overlapped nor died, so the
\* behaviours where they did are explored without relationships; those where
\* instances overlapped with one staged write less.
Explored ==
    /\ trouble \subseteq {"delete"} \/ rules = {}
    /\ "overlap" \in trouble => writes < MaxWrites
=============================================================================
