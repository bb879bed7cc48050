--------------------------- MODULE MCTutorialRunner ---------------------------
(* Three lessons, put together from the steps of the real ones that differ in *)
(* how they are passed; a step in the middle is for DotPad owners only and    *)
(* has a worked example.                                                      *)
EXTENDS TutorialRunner

MCTable ==
    <<[BeforeYouStart EXCEPT !.steps = <<@[1]>>],
      [TestPattern EXCEPT !.steps = <<@[2]>>],
      Lesson("extra", "extras", {},
             <<Connect.steps[1], When("display", "dotpad", Examples(1, Axes.steps[6])),
               Axes.steps[7]>>)>>

MCOffered == [q \in {"display"} |-> {"dotpad", "none"}]
=============================================================================
