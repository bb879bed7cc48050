--------------------------- MODULE TutorialLessons ---------------------------
(***************************************************************************)
(* The first-run tutorial's lessons (app/tutorial_lessons.py): for every    *)
(* step, what it checks and when it applies.  Its words, hints, poses and   *)
(* bands are left out; what a check compares is left to the person, who     *)
(* does or does not do what it asks.                                        *)
(***************************************************************************)
EXTENDS Integers, Sequences, FiniteSets, SequencesExt

\* CHECK_TYPES that pass by something the viewer reports, in one go or after
\* a wanted key has armed them.
ByKey == {"key", "keys"}
ByEvent == {"state", "changed", "cycle", "sweep", "edge", "in_band", "device", "ui",
            "zoom_by", "model_changed", "slicegraph_ready"} \cup ByKey
\* and those that pass by an answer, by Next, or by Next in the right place.
CheckTypes == ByEvent \cup {"answer", "test_pattern", "manual", "mark_band"}

\* The checks Show me can do for the person: they ask where the cut is.
Places == {"edge", "in_band", "mark_band", "sweep"}

(***************************************************************************)
(*   checks   the check, or the parts of an "all"                          *)
(*   about    what a check looks at, where it matters                      *)
(*   when     an answer the step is for, <<question, value>>, or <<>>      *)
(*   needs    what has to be there for it                                  *)
(*   stores   the question its answer is kept under, or Unkept             *)
(*   frames   how many worked examples Next shows first                    *)
(***************************************************************************)
Unkept == "unkept"
All(checks) == [checks |-> checks, about |-> {}, when |-> <<>>, needs |-> {},
                stores |-> Unkept, frames |-> 0]
Step(check) == All({check})
About(field, step) == [step EXCEPT !.about = {field}]
When(question, value, step) == [step EXCEPT !.when = <<question, value>>]
Needs(what, step) == [step EXCEPT !.needs = {what}]
Stores(question, step) == [step EXCEPT !.stores = question]
Examples(n, step) == [step EXCEPT !.frames = n]

Lesson(id, part, needs, steps) ==
    [id |-> id, part |-> part, needs |-> needs, steps |-> steps]

-----------------------------------------------------------------------------
(* Setup *)

BeforeYouStart == Lesson("before_you_start", "setup", {},
    <<Stores("display", Step("answer")), Step("manual"), Step("key")>>)

Connect == Lesson("connect", "setup", {}, <<About("display", Step("device"))>>)

TestPattern == Lesson("test_pattern", "setup", {"display"},
    <<When("display", "dotpad", Step("manual")), Step("test_pattern")>>)

-----------------------------------------------------------------------------
(* Core *)

MeetTheMug == Lesson("meet_the_mug", "core", {},
    <<Step("manual"), Needs("display", Step("answer")), Step("key"), Step("key")>>)

Depth == Lesson("depth", "core", {},
    <<Examples(5, Step("manual")), Step("edge"),
      When("display", "dotpad", Step("manual")), Step("mark_band"), Step("keys")>>)

RenderModes == Lesson("render_modes", "core", {}, <<Step("cycle")>>)

ZoomAndMove == Lesson("zoom_and_move", "core", {},
    <<Step("zoom_by"), Step("manual"), Step("state")>>)

AxesExplored ==
    <<Step("manual"), About("cut_axis", Step("state")), Step("key"), Step("key"), Step("key"),
      About("cut_axis", All({"state", "in_band"})), About("cut_axis", All({"state", "in_band"}))>>
\* The three turns are for those who keep the Turn mode.
AxesTurned == [i \in 1..3 |-> When("axis_choice", "turn", Step("answer"))]
Axes == Lesson("axes", "core", {},
    AxesExplored \o <<Stores("axis_choice", Step("answer"))>> \o AxesTurned)

-----------------------------------------------------------------------------
(* Wrap-up *)

ResetAndFit == Lesson("reset_and_fit", "wrapup", {}, <<All({"key", "state"}), Step("key")>>)

HelpAndSettings == Lesson("help_and_settings", "wrapup", {}, <<Step("ui"), Step("manual")>>)

MugDetective == Lesson("mug_detective", "wrapup", {},
    <<Step("answer"), Step("mark_band"), Needs("display", Step("mark_band")),
      Needs("display", Step("answer")), Needs("display", Step("answer"))>>)

YourOwnModel == Lesson("your_own_model", "wrapup", {},
    <<Step("model_changed"), Step("manual"), Step("ui"), Step("manual"), Step("manual")>>)

-----------------------------------------------------------------------------
(* Extras *)

LayoutAndGraph == Lesson("layout_and_graph", "extras", {},
    <<Step("cycle"), Step("slicegraph_ready"), Step("manual"), Step("changed"),
      Step("key"), Step("cycle"), All({"state", "keys"})>>)

Cube == Lesson("cube", "extras", {"cube"},
    <<About("cube", Step("device")), About("cut_axis", Step("state"))>>)

Slider == Lesson("slider", "extras", {"slider"},
    <<About("slider", Step("device")), Step("sweep"), Step("in_band")>>)

LESSONS ==
    <<BeforeYouStart, Connect, TestPattern,
      MeetTheMug, Depth, RenderModes, ZoomAndMove, Axes,
      ResetAndFit, HelpAndSettings, MugDetective, YourOwnModel,
      LayoutAndGraph, Cube, Slider>>

-----------------------------------------------------------------------------
(* What a table of lessons must be for the runner not to be stuck in it, or *)
(* run ahead: the first lesson can always be opened, every lesson has a     *)
(* step that applies whenever the lesson does, a step that asks what was    *)
(* answered comes after the step that asks, a device is waited for at the   *)
(* start of a lesson only, and the extras come last.                        *)

Things == {"display", "cube", "slider"}
Steps == [checks: SUBSET CheckTypes, about: SUBSET STRING, when: Seq(STRING),
          needs: SUBSET Things, stores: STRING, frames: Nat]
IsTable(table) ==
    table \in Seq([id: STRING, part: {"setup", "core", "wrapup", "extras"},
                   needs: SUBSET Things, steps: Seq(Steps)])

StepsOf(table) ==
    UNION {{<<i, k>> : k \in DOMAIN table[i].steps} : i \in DOMAIN table}
Earlier(a, b) == a[1] < b[1] \/ (a[1] = b[1] /\ a[2] < b[2])

CanBeRun(table) ==
    /\ table # <<>> /\ table[1].needs = {} /\ table[1].id # "connect"
    /\ \A i \in DOMAIN table : \E k \in DOMAIN table[i].steps :
         table[i].steps[k].when = <<>> /\ table[i].steps[k].needs \subseteq table[i].needs
    /\ \A a \in StepsOf(table) :
         LET step == table[a[1]].steps[a[2]]
         IN /\ "device" \in step.checks => a[2] = 1
            /\ step.when # <<>> =>
                 \E b \in StepsOf(table) :
                   Earlier(b, a) /\ table[b[1]].steps[b[2]].stores = step.when[1]
    /\ \A i, j \in DOMAIN table :
         i < j /\ table[i].part = "extras" => table[j].part = "extras"

ASSUME LessonsCanBeRun == IsTable(LESSONS) /\ CanBeRun(LESSONS)
=============================================================================
