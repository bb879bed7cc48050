---------------------------- MODULE MCModelStore ----------------------------
(* Two browsers, one of which never answered the consent dialog and so has no *)
(* session, and a workshop tool that posts to /ingest.                        *)
EXTENDS ModelStore, TLC

CONSTANTS h1, h2, a, b, w, sa, sw

MCHandlers == {h1, h2}
ToolOnly   == {w}
OneHandler == {h1}
Everyone   == {a, b, w}
Workshop   == {w}
MCSessions == {sa, sw}
OneSession == {sa}
ToolCookie == w :> sw
Anonymous  == a :> sa @@ b :> None @@ w :> None
AnyHandler == Permutations(MCHandlers)
=============================================================================
