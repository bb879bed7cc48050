--------------------------- MODULE MCViewerRender ---------------------------
(* Instances of ViewerRender for TLC. *)
EXTENDS ViewerRender, TLC

CONSTANTS p1, p2, m1, m2, v1, v2

OnePage   == {p1}
TwoPages  == {p1, p2}
NoPad     == {}
OneModel  == {m1}
TwoModels == {m1, m2}
OneView   == {v1}
TwoViews  == {v1, v2}
=============================================================================
