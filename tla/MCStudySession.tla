--------------------------- MODULE MCStudySession ---------------------------
(* Instances of StudySession for TLC. *)
EXTENDS StudySession, TLC

CONSTANTS h1, h2, s1, s2

MCHandlers == {h1, h2}
OneSession == {s1}
TwoSessions == {s1, s2}
AnyHandler == Permutations(MCHandlers)

\* Next and Previous, naming a step or not, and jumps from the panel's list.
PagePresses ==
    {Relative(dir, e) : dir \in {"next", "previous"}, e \in Steps \cup {NoIndex}}
        \cup {[expect |-> i, dir |-> "next", jump |-> j] : i \in Steps, j \in {0, LastStep}}
\* Next and Previous only, from a page that names no step.
BarePresses == {Relative(dir, NoIndex) : dir \in {"next", "previous"}}
=============================================================================
