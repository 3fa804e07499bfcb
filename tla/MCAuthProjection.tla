--------------------------- MODULE MCAuthProjection ---------------------------
(***************************************************************************)
(* AuthProjection for TLC: one project and the keys it has.                *)
(***************************************************************************)
EXTENDS AuthProjectionInvariant, TLC

CONSTANTS p1, k1

MCProjectOf == [m \in Member |-> p1]
MCRank == p1 :> 0 @@ k1 :> 1
=============================================================================
