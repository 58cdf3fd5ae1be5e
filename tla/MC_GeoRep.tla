------------------------------ MODULE MC_GeoRep ------------------------------
(* Two local contexts, xids 1 and 2, for the dependency tracking.          *)
EXTENDS GeoRep

CONSTANTS a, b

MCCtx == {a, b}
MCXid == [c \in MCCtx |-> IF c = a THEN 1 ELSE 2]
=============================================================================
