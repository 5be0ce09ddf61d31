---------------------------- MODULE MCTier2Store ----------------------------
(* Values for Tier2Store: payloads of different lengths, one a prefix of another. *)
EXTENDS Tier2Store

T == TRUE
F == FALSE
SomePayloads == {<<T>>, <<F, T>>}
=============================================================================
