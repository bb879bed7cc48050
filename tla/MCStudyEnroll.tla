--------------------------- MODULE MCStudyEnroll ---------------------------
(* Instances of StudyEnroll for TLC, and what the studies' definitions have *)
(* to be for every participant, compared with reference definitions.        *)
EXTENDS StudyEnroll

CONSTANTS p1

Registry == INSTANCE StudyRegistry

OnePanel == {p1}
\* P02 and P02b, typed by hand before or after anybody is given them.
SecondByHand == {<<2, 0>>, <<2, 1>>}

\* Three of the comparison study's rows, the cyclic Latin square: two of three
\* tasks to a session.
MCStudy ==
    [Registry!ComparisonStudy EXCEPT
       !.design = LatinSquare(<<"pencil_holder", "cane_tip", "lego">>)]

-----------------------------------------------------------------------------

\* The designs balance what they are for: every task in every position, and for
\* the Williams design what follows what.
ASSUME DesignsBalance ==
    \A n \in 1..6 :
      LET keys == [i \in 1..n |-> i]
          latin == LatinSquare(keys)
          williams == BalancedLatinSquare(keys)
      IN /\ Len(latin) = n /\ PositionsAreEven(latin, 1..n, n)
         /\ Len(williams) = (IF n % 2 = 0 THEN n ELSE 2 * n)
         /\ PositionsAreEven(williams, 1..n, n) /\ NeighboursAreEven(williams, 1..n, n)

\* Six of the comparison study's sessions: every pair of tasks once in each order.
ASSUME ComparisonIsBalanced ==
    LET sets == TaskSets(Registry!ComparisonStudy)
    IN /\ IsInjective(sets)
       /\ PositionsAreEven(sets, DOMAIN Registry!MODEL_PAIRS, 2)
       /\ NeighboursAreEven(sets, DOMAIN Registry!MODEL_PAIRS, 2)

\* And the three sets of this instance, over which the rounds are even.
ASSUME InstanceIsBalanced == BalancedDesign

\* Both definitions pass validate; whichever place in the rotation a participant
\* has, their session is whole, and the page never names a model.
ASSUME SessionsAreWhole ==
    \A study \in Registry!Definitions :
      /\ Validate(study) = {}
      /\ \A n \in 0..(Len(study.design) + 1) :
           /\ SessionIsWhole(study, AssignTaskOrder(study, n))
           /\ LabelsAreGeneric(study, AssignTaskOrder(study, n))

\* A server as it is deployed opens nothing and serves the closed study's data;
\* naming the example is not enough to open it.
ASSUME NothingOpensByItself ==
    /\ Registry!Served(Registry!Definitions, {}, FALSE, {}) = {Registry!ComparisonStudy}
    /\ Registry!OpenStudies(Registry!Definitions, {"example", "comparison-2026"}, FALSE, {}) = {}
    /\ Registry!OpenStudies(Registry!Definitions, {"example"}, TRUE, {}) = {Registry!ExampleStudy}
=============================================================================
