--------------------------- MODULE MCStudyStream ---------------------------
(* Instances of StudyStream for TLC. *)
EXTENDS StudyStream, TLC

CONSTANTS m1, m2, c1, c2, c3, p1, p2, s1, s2

OneWorker == {m1}
TwoWorkers == {m1, m2}
TwoSlots == {c1, c2}
ThreeSlots == {c1, c2, c3}
OnePage == {p1}
TwoPages == {p1, p2}
NoPanel == {}
SecondIsPanel == {p2}
OneSession == {s1}
TwoSessions == {s1, s2}

\* Both pages have the first session in their link or tab.
AllHome == [p \in Pages |-> s1]
\* The participant opens the study's address and types the code.
TypesCode == [p \in Pages |-> IF p \in Panels THEN s1 ELSE None]
\* A page on one session and the panel of another.
OneEach == [p \in Pages |-> IF p \in Panels THEN s2 ELSE s1]
AnySlot == Permutations(Streams)
=============================================================================
