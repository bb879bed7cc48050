--------------------------- MODULE StudyDefinitions ---------------------------
(***************************************************************************)
(* The two studies the repository holds (app/studies/definitions/): their  *)
(* tasks, designs and steps, without what is read out on them.             *)
(***************************************************************************)
EXTENDS StudyProtocol

-----------------------------------------------------------------------------
(* comparison_2026.py: pairs of models, two pairs to a session *)

TASKS_PER_SESSION == 2

Pair(a, printedA, b, printedB) ==
    [a |-> [model |-> a, physical |-> printedA], b |-> [model |-> b, physical |-> printedB]]

MODEL_PAIRS ==
    [lego |-> Pair("lego_2x3", "2x3 Lego brick", "lego_2x4", "2x4 Lego brick"),
     pencil_holder |-> Pair("pencil_holder_2x2", "2x2 pencil holder",
                            "pencil_holder_2x3", "2x3 pencil holder"),
     cane_tip |-> Pair("cane_tip_hook", "hook cane tip", "cane_tip_fitted", "fitted cane tip")]

LATIN_SQUARE_ROWS ==
    <<<<"pencil_holder", "cane_tip", "lego">>,
      <<"cane_tip", "lego", "pencil_holder">>,
      <<"lego", "pencil_holder", "cane_tip">>,
      <<"pencil_holder", "lego", "cane_tip">>,
      <<"cane_tip", "pencil_holder", "lego">>,
      <<"lego", "cane_tip", "pencil_holder">>>>

Mug == Fixed("mug")

Opening ==
    <<Step("opening.settle", <<"note", "do", "say", "say", "say", "do", "say">>),
      Step("opening.setup", <<"note", "do", "do", "say", "say", "do">>)>>

Background == <<Step("background.questionnaire", <<"say", "ask">>)>>

OnboardingSlices ==
    <<HandsOver(Fixed("printed mug and plaques"),
        Loads(Mug, Step("onboarding.explain", <<"do", "say", "do", "note">>))),
      Loads(Mug, Step("onboarding.depth", <<"do", "say", "say", "note", "note">>)),
      Loads(Mug, Step("onboarding.orientation", <<"say", "ask", "ask", "do">>))>>

OnboardingTalk ==
    <<Loads(Mug, Step("onboarding.modes", <<"say", "say", "note">>)),
      Loads(Mug, Step("onboarding.think_aloud", <<"say", "do", "do", "say">>)),
      Loads(Mug, Step("onboarding.free_explore", <<"say", "note">>))>>

\* _pair_steps: on the display and then in the hand, for each version
PairSteps(part, slot, intro) ==
    LET virtual(role, step) == Loads(TaskModel(slot, role), step)
        inHand(role, step) == HandsOver(TaskModel(slot, role), virtual(role, step))
        \* "Imagine that you downloaded a {label}.  It is a {description}"
        opening == [Step(part \o ".a.virtual", <<>>) EXCEPT
                      !.script = Plain(intro) \o <<Naming("say")>> \o Plain(<<"do", "say", "note">>)]
    IN <<virtual("a", opening),
         inHand("a", Step(part \o ".a.physical", <<"do", "ask">>)),
         virtual("b", Step(part \o ".b.virtual", <<"say", "do", "say", "note">>)),
         inHand("b", Step(part \o ".b.physical", <<"do", "ask">>))>>

\* The model stays on the display for the rating, which is still of its task.
TaskSteps(part, slot) ==
    Append(PairSteps(part, slot, <<"say">>),
           OfTask(slot, Step(part \o ".rating", <<"say", "ask">>)))

Discussion ==
    <<Step("discussion.approach", <<"note", "ask">>),
      Step("discussion.reflection", <<"ask">>),
      Step("discussion.close", <<"say", "do", "do", "do">>)>>

ComparisonStudy ==
    [slug |-> "comparison-2026", status |-> "closed", version |-> "2026-08-04",
     steps |-> Opening \o Background \o OnboardingSlices \o OnboardingTalk
               \o TaskSteps("task1", 1) \o TaskSteps("task2", 2) \o Discussion,
     tasks |-> MODEL_PAIRS, design |-> LATIN_SQUARE_ROWS,
     tasks_per_session |-> TASKS_PER_SESSION,
     model_labels |-> [a |-> "First object", b |-> "Second object"],
     viewer_defaults |-> [axis_mode |-> "turn", view |-> "x-"],
     prompts |-> {"facilitator", "strategy"}, token |-> "comparison"]

-----------------------------------------------------------------------------
(* example.py: single objects, to copy when starting a new study *)

ExampleTasks ==
    [chair |-> [a |-> [model |-> "rocking_chair", physical |-> ""]],
     washer |-> [a |-> [model |-> "sleeve_washer", physical |-> ""]],
     cube |-> [a |-> [model |-> "labeled_cube", physical |-> ""]]]

ExampleTaskSteps(part, slot) ==
    <<Loads(TaskModel(slot, "a"), Step(part \o ".explore", <<"do", "say", "note">>)),
      OfTask(slot, Step(part \o ".questions", <<"ask">>))>>

ExampleSteps ==
    <<Step("opening", <<"note", "say", "do">>),
      Loads(Mug, Step("practice", <<"say", "note">>))>>
    \o ExampleTaskSteps("task1", 1) \o ExampleTaskSteps("task2", 2)
    \o ExampleTaskSteps("task3", 3)
    \o <<Step("closing", <<"say", "do">>)>>

PublishedToken == "example-panel-token"

ExampleStudy ==
    [slug |-> "example", status |-> "draft", version |-> "1",
     steps |-> ExampleSteps, tasks |-> ExampleTasks,
     design |-> BalancedLatinSquare(<<"chair", "washer", "cube">>),
     tasks_per_session |-> 0, model_labels |-> [a |-> "Object"],
     viewer_defaults |-> [axis_mode |-> "xyz", view |-> "y-"],
     prompts |-> {"facilitator", "strategy"}, token |-> PublishedToken]

\* definitions.ALL
Definitions == {ComparisonStudy, ExampleStudy}
=============================================================================
