------------------------------- MODULE MCPool -------------------------------
(***************************************************************************)
(* Instances of Pool for TLC.  a1, a2, a3 are h1 connections, b1, b2 are  *)
(* h2 ones; alpha and beta are origins.                                    *)
(***************************************************************************)
EXTENDS Pool, TLC

CONSTANTS a1, a2, a3, b1, b2, alpha, beta

\* alpha speaks h1 and beta h2.
PureProtocols == alpha :> {"h1"} @@ beta :> {"h2"}

\* alpha may negotiate either, dial by dial; beta speaks h1.
MixedProtocols == alpha :> {"h1", "h2"} @@ beta :> {"h1"}

H1Protocols == [o \in Origins |-> {"h1"}]

Symmetry ==
    Permutations(Tasks) \union Permutations(Multiplexed) \union Permutations(Conns \ Multiplexed)
=============================================================================
