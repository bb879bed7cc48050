----------------------------- MODULE MCSliceGraph -----------------------------
(* SliceGraph with two models that do not both fit in the table. *)
EXTENDS SliceGraph

CONSTANTS mug, cube, top, front

MCViewOrder == <<top, front>>
MCStartup   == <<mug, cube>>
=============================================================================
