--------------------------- MODULE TutorialRunner ---------------------------
(***************************************************************************)
(* The tutorial's runner (static/js/tutorial.js): which step of which      *)
(* lesson is open, what passes it, and the progress kept in the browser.   *)
(*                                                                         *)
(* A page runs one task at a time: a press, an answer of the server, a     *)
(* device that connects.  Each is one action with the microtasks it        *)
(* queues, but for the person's work in the viewer: what that reports is   *)
(* offered to the open step event by event, one action each, and nothing   *)
(* else happens until the task is over.  The functions a task calls call   *)
(* each other, so they are operators from a state of the runner, p, to the *)
(* next, named as in the code.                                             *)
(*                                                                         *)
(* Not here: what is said and shown, the lessons' starting views and       *)
(* giving the person's own back, key help, the handle's place on the pins, *)
(* a second tab of the viewer, a browser that refuses to store, and the    *)
(* pages other than /viewer, on which it does not open by itself.          *)
(***************************************************************************)
EXTENDS TutorialLessons, FiniteSetsExt

CONSTANTS
    Table,      \* the lessons, as lessons_payload serves them
    Offered,    \* the answers offered under each question that is stored
    Browser     \* of "cube" and "slider", those whose API the browser has

ASSUME TableAssumption == IsTable(Table) /\ CanBeRun(Table)
ASSUME OfferedAssumption ==
    \A a \in StepsOf(Table) : Table[a[1]].steps[a[2]].stores \in (DOMAIN Offered) \cup {Unkept}
ASSUME BrowserAssumption == Browser \subseteq {"cube", "slider"}

LastLesson == Len(Table)
Devices == {"display"} \cup Browser
Questions == DOMAIN Offered
Unanswered == "unanswered"
Answers == (UNION Range(Offered)) \cup {Unanswered}

VARIABLES
    page,     \* the runner, its record, and what it sees of the page
    boot,     \* the tutorial's own start: before consent has settled (new on a first
              \* visit, or waiting), asking for the lessons (to resume, or fresh), over
    wanted,   \* what a button asked for and waits for the lessons: the list, or
              \* the shortcuts dialog's resume and start over; one at a time here
    task      \* <<>>, or while the viewer reports what the person did
              \* <<the steps that had been passed before>>

tvars == <<page, boot, wanted, task>>

(***************************************************************************)
(* The record (rec), and the runner.  Every task that changes the record   *)
(* writes it to localStorage before it ends, so the two are one here.      *)
(*   view      idle, lesson or menu;  run: runner.runActive                *)
(*   li, si    the open lesson and step, from 1; 0 where there is none     *)
(*   phase     step, done or blocked                                       *)
(*   passed    the steps passed or skipped in this run                     *)
(*   parts     the parts of the check that have passed;  armed: the wanted *)
(*             keys have been pressed                                      *)
(*   frames    worked examples Next has still to show                      *)
(*   entry     the step's check is to be asked once as the step opens      *)
(*   serial    the task has left the step it began in                      *)
(*   right     correct answers in a row on the test pattern                *)
(*   on        the devices that are connected                              *)
(*   offer     the shortcuts dialog has its Resume button                  *)
(* and the test pattern: up (active), asked (awaiting), hold (holdDisplay: *)
(* renders are kept off the pins), out (its request is on its way) and     *)
(* late (a request of an earlier pattern, seq, still is).                  *)
(***************************************************************************)
Status == {"new", "pending", "in-progress", "paused", "completed", "offered"}

Records ==
    [status: Status, lesson: 0..LastLesson, step: Nat, origin: {"unset", "first-run", "help"},
     lessons: [1..LastLesson -> {"open", "done", "skipped"}],
     answers: [Questions -> Answers]]

FirstVisit ==
    [status |-> "pending", lesson |-> 0, step |-> 1, origin |-> "first-run",
     lessons |-> [i \in 1..LastLesson |-> "open"], answers |-> [q \in Questions |-> Unanswered]]

\* There is a lesson to resume, and the tutorial is not completed: what the
\* buttons that say Resume go by, the dialog's when the region was last shown or
\* hidden.
CanResume(record) == record.lesson # 0 /\ record.status # "completed"

\* A page as it loads, with a record read from the browser.
Loaded(record, on) ==
    [view |-> "idle", run |-> FALSE, li |-> 0, si |-> 0, phase |-> "step",
     passed |-> {}, parts |-> {}, armed |-> FALSE, frames |-> 0, entry |-> FALSE,
     serial |-> FALSE, right |-> 0, on |-> on, offer |-> CanResume(record),
     up |-> FALSE, asked |-> FALSE, hold |-> FALSE, out |-> FALSE, late |-> FALSE,
     rec |-> record]

Init ==
    /\ page = Loaded(FirstVisit, {})
    /\ boot = "new"
    /\ wanted = "nothing"
    /\ task = <<>>

\* currentStep, while a step is open
OpenStep(p) == Table[p.li].steps[p.si]
InStep(p) == p.view = "lesson" /\ p.phase = "step"
Checking(p, type) == InStep(p) /\ type \in OpenStep(p).checks

Wants == {"menu", "resume", "start over"}

TypeOK ==
    /\ page.view \in {"idle", "lesson", "menu"} /\ page.phase \in {"step", "done", "blocked"}
    /\ page.li \in 0..LastLesson
    /\ InStep(page) => page.si \in DOMAIN Table[page.li].steps
    /\ page.passed \subseteq StepsOf(Table)
    /\ page.rec \in Records
    /\ page.on \subseteq Devices
    /\ page.offer \in BOOLEAN
    /\ boot \in {"new", "waiting", "resume", "fresh", "over"}
    /\ wanted \in {"nothing"} \cup Wants
    /\ task \in {<<>>} \cup {<<before>> : before \in SUBSET StepsOf(Table)}
    \* no check passes after its step, and no step is open that does not apply
    /\ InStep(page) => page.parts \subseteq OpenStep(page).checks
    /\ ~InStep(page) => page.parts = {} /\ ~page.armed /\ ~page.up

-----------------------------------------------------------------------------
(* What applies *)

SaidNoDisplay(p) == p.rec.answers["display"] = "none"

\* unmetRequirement: a display has to be connected, for the others it is enough
\* that the browser could.
Met(p, needs) == ("display" \in needs => "display" \in p.on) /\ needs \ {"display"} \subseteq Browser

StepApplies(p, step) ==
    /\ step.when # <<>> => p.rec.answers[step.when[1]] = step.when[2]
    /\ Met(p, step.needs)

ApplicableSteps(p, i) == {k \in DOMAIN Table[i].steps : StepApplies(p, Table[i].steps[k])}

\* Someone who said they have no display is led past the lessons that need one.
ForDisplay(i) == "display" \in Table[i].needs \/ Table[i].id = "connect"
LedPast(p, i) == ForDisplay(i) /\ SaidNoDisplay(p) /\ "display" \notin p.on

-----------------------------------------------------------------------------
(* Leaving and opening *)

\* Whatever request is out now is out of date: seq is bumped.
Outdated(p) == [p EXCEPT !.out = FALSE, !.late = @ \/ p.out]

\* mutant: the pattern is not taken down
KeepTestPattern(p) == p
\* endTestPattern and releaseDisplay
EndTestPattern(p) == [Outdated(p) EXCEPT !.up = FALSE, !.asked = FALSE, !.hold = FALSE]

LeaveStep(p) ==
    [EndTestPattern(p) EXCEPT !.parts = {}, !.armed = FALSE, !.frames = 0,
                              !.entry = FALSE, !.serial = TRUE, !.right = 0]

\* Without a display to draw on there is nothing to answer; hold stays as it was.
NextTestPatternRound(p) ==
    LET q == [Outdated(p) EXCEPT !.asked = FALSE]
    IN IF "display" \in p.on THEN [q EXCEPT !.hold = TRUE, !.out = TRUE]
       ELSE [q EXCEPT !.up = FALSE]

BeginTestPattern(p) == NextTestPatternRound([p EXCEPT !.up = TRUE])

\* saveProgress
InProgress(status) == IF status = "completed" THEN status ELSE "in-progress"
\* mutant: the step is not kept
SaveLesson(p) ==
    [p EXCEPT !.rec.lesson = p.li, !.rec.step = 1, !.rec.status = InProgress(@)]
SaveProgress(p) ==
    [p EXCEPT !.rec.lesson = p.li, !.rec.step = p.si, !.rec.status = InProgress(@)]

EnterStep(left, k) ==
    LET p == SaveProgress([LeaveStep(left) EXCEPT !.si = k, !.phase = "step"])
        step == Table[p.li].steps[k]
        q == [p EXCEPT !.frames = step.frames, !.entry = "device" \in step.checks]
    IN IF "test_pattern" \in step.checks THEN BeginTestPattern(q) ELSE q

\* Where it would be resumed: the next lesson, and the tutorial is finished when
\* only the extras are left.
LessonDone(p) ==
    LET q == SaveProgress([p EXCEPT !.phase = "done", !.rec.lessons[p.li] = "done"])
        isLast == p.li = LastLesson
        onlyExtras == ~isLast /\ Table[p.li + 1].part = "extras" /\ Table[p.li].part # "extras"
    IN [q EXCEPT !.rec.lesson = IF isLast THEN @ ELSE p.li + 1,
                 !.rec.step = IF isLast THEN @ ELSE 1,
                 !.rec.status = IF isLast \/ onlyExtras THEN "completed" ELSE @]

PassStep(p) ==
    LET q == LeaveStep([p EXCEPT !.passed = @ \cup {<<p.li, p.si>>}])
        later == {k \in ApplicableSteps(q, p.li) : k > p.si}
    IN IF later # {} THEN EnterStep(q, Min(later)) ELSE LessonDone(q)

\* No lesson is open: what the runner still says of the last one is not read.
Nowhere(p, view) ==
    [LeaveStep(p) EXCEPT !.view = view, !.li = 0, !.si = 0, !.phase = "step",
                         !.offer = CanResume(p.rec)]

\* restoreAfterRun and closeRegion, as far as the tutorial goes.
Closed(p, status) ==
    [Nowhere([p EXCEPT !.rec.status = status], "idle") EXCEPT !.run = FALSE]

\* The first lesson from i on, in the direction the person goes, that they are
\* not led past.
Landing(p, i, direction) ==
    IF direction > 0 THEN Min({j \in i..LastLesson : ~LedPast(p, j)} \cup {LastLesson + 1})
    ELSE Max({j \in 1..i : ~LedPast(p, j)} \cup {0})

FirstStep == 0     \* where in a lesson to begin: at its first step,
FinalStep == -1    \* at its last, or at the step given

Target(p, i, at) ==
    LET steps == ApplicableSteps(p, i)
        onwards == {k \in steps : k >= at}
    IN CASE at = FinalStep -> Max(steps)
         [] at # FinalStep /\ onwards # {} -> Min(onwards)
         [] OTHER -> Min(steps)

\* enterLesson, past the lessons it marks skipped on the way.
EnterLesson(p, i, at, direction) ==
    LET j == Landing(p, i, direction)
        past == IF direction > 0 THEN i..(j - 1) ELSE (j + 1)..i
        q == [LeaveStep(p) EXCEPT !.rec.lessons =
                [k \in 1..LastLesson |-> IF k \in past THEN "skipped" ELSE p.rec.lessons[k]]]
        r == [q EXCEPT !.view = "lesson", !.run = TRUE, !.li = j, !.offer = CanResume(p.rec)]
        where == IF j = i THEN at ELSE IF direction < 0 THEN FinalStep ELSE FirstStep
    IN CASE i < 1 -> p
         [] i >= 1 /\ j > LastLesson -> Closed(q, "completed")
         [] i >= 1 /\ j <= LastLesson /\ ~Met(r, Table[j].needs) ->
              [r EXCEPT !.phase = "blocked", !.si = 0, !.rec.lesson = j,
                        !.rec.step = IF p.rec.lesson = j THEN @ ELSE 1]
         [] OTHER -> EnterStep(r, Target(r, j, where))

-----------------------------------------------------------------------------
(* What the viewer and the devices report.  The events of a task are queued *)
(* and offered to the open step one by one; an event counts only for the    *)
(* step that was open when it happened.                                     *)

\* mutant: whichever step is open now
AnyStep(p) == InStep(p)
StillOpen(p) == InStep(p) /\ ~p.serial

\* A wanted key arms a key check, and what the key then does passes it; the
\* others pass when what they watch is as they ask.
Fits(p, kind) ==
    IF kind = "key" THEN {}
    ELSE (OpenStep(p).checks \cap ByEvent) \ ((IF p.armed THEN {} ELSE ByKey) \cup {"device"})

\* One event, after which the parts in `fit` hold.
Offer(p, ev) ==
    IF ~StillOpen(p) THEN p
    ELSE LET parts == p.parts \cup (ev.fit \cap Fits(p, ev.kind))
         IN IF parts = OpenStep(p).checks THEN PassStep(p)
            ELSE [p EXCEPT !.parts = parts, !.armed = @ \/ (ev.kind = "key" /\ ev.fit \cap ByKey # {})]

Events == [kind: {"key"}, fit: {ByKey}] \cup [kind: {"effect"}, fit: {ByEvent, {"state"}}]

\* A step that waits for a device asks once as it opens.
AtEntry(p) ==
    IF p.entry /\ Checking(p, "device") /\ OpenStep(p).about \subseteq p.on THEN PassStep(p)
    ELSE [p EXCEPT !.entry = FALSE]

\* The end of a task: its queue is empty.
EndTask(p) == page' = [AtEntry(p) EXCEPT !.serial = FALSE]

\* The person works in the viewer, and the viewer reports it.
Act ==
    /\ InStep(page) /\ task' = <<page.passed>>
    /\ UNCHANGED <<page, boot, wanted>>

Reported(ev) ==
    /\ page' = Offer(page, ev)
    /\ UNCHANGED <<boot, wanted, task>>

ActEnds ==
    /\ EndTask(page) /\ task' = <<>>
    /\ UNCHANGED <<boot, wanted>>

\* Anything that connects is a device event; a lesson that waited for it opens.
ConnectDevice(d) ==
    /\ d \notin page.on
    /\ LET p == [page EXCEPT !.on = @ \cup {d}]
       IN EndTask(
            IF p.view = "lesson" /\ p.phase = "blocked" /\ Met(p, Table[p.li].needs)
              THEN EnterLesson(p, p.li, p.rec.step, 1)
            ELSE IF Checking(p, "device") /\ OpenStep(p).about = {d} THEN PassStep(p)
            ELSE p)
    /\ UNCHANGED <<boot, wanted>>

DisconnectDevice(d) ==
    /\ d \in page.on
    /\ page' = [page EXCEPT !.on = @ \ {d}]
    /\ UNCHANGED <<boot, wanted>>

-----------------------------------------------------------------------------
(* The buttons, and their keys *)

Button(p) == EndTask(p) /\ UNCHANGED <<boot, wanted>>

\* stepWasPassed
WasPassed(p) == <<p.li, p.si>> \in p.passed \/ p.rec.lessons[p.li] = "done"

SkippedLesson(p) ==
    [p EXCEPT !.rec.lessons[p.li] = IF @ = "done" THEN @ ELSE "skipped"]

SkipLesson ==
    /\ page.view = "lesson"
    /\ Button(EnterLesson(SkippedLesson(page), page.li + 1, FirstStep, 1))

\* continueAction
Next_Done == page.phase = "done" /\ Button(EnterLesson(page, page.li + 1, FirstStep, 1))
Next_Blocked == page.phase = "blocked" /\ SkipLesson
Next_Passed == InStep(page) /\ WasPassed(page) /\ Button(PassStep(page))
Next_Example ==
    /\ InStep(page) /\ ~WasPassed(page) /\ page.frames > 0
    /\ Button([page EXCEPT !.frames = @ - 1])
Next_Proceed ==
    /\ InStep(page) /\ ~WasPassed(page) /\ page.frames = 0
    /\ OpenStep(page).checks \subseteq {"manual", "mark_band"}
    /\ Button(PassStep(page))

Continue ==
    page.view = "lesson" /\ (Next_Done \/ Next_Blocked \/ Next_Passed \/ Next_Example \/ Next_Proceed)

SkipStep == InStep(page) /\ Button(PassStep(page))

Shows(p) ==
    /\ InStep(p) /\ Table[p.li].needs \cap {"cube", "slider"} = {}
    /\ OpenStep(p).checks \ {"state"} \subseteq Places
    /\ "state" \in OpenStep(p).checks => "cut_axis" \in OpenStep(p).about
ShowMe == Shows(page) /\ Button(PassStep(page))

Back ==
    /\ page.view = "lesson"
    /\ LET steps == IF page.phase = "blocked" THEN {} ELSE ApplicableSteps(page, page.li)
           before == IF page.phase = "done" THEN steps ELSE {k \in steps : k < page.si /\ page.si \in steps}
       IN Button(IF before # {} THEN EnterStep(page, Max(before))
                 ELSE EnterLesson(page, page.li - 1, FinalStep, -1))

RestartLesson == page.view = "lesson" /\ Button(EnterLesson(page, page.li, FirstStep, 1))

\* chooseAnswer: a right answer, or one that is kept.
Choose(value) ==
    /\ Checking(page, "answer")
    /\ LET question == OpenStep(page).stores
       IN IF question = Unkept THEN value = Unanswered /\ Button(PassStep(page))
          ELSE /\ value \in Offered[question]
               /\ Button(PassStep([page EXCEPT !.rec.answers[question] = value]))

\* answerTestPattern, by a button or by dot 1 or 4 of the display.
AnswerPattern(correct) ==
    /\ page.up /\ page.asked
    /\ LET p == [page EXCEPT !.asked = FALSE, !.right = IF correct THEN @ + 1 ELSE 0]
       IN Button(IF p.right >= 2 THEN PassStep(p) ELSE NextTestPatternRound(p))

-----------------------------------------------------------------------------
(* The server's answers *)

Drawn(p, ok) ==
    IF ok THEN [p EXCEPT !.asked = TRUE]
    ELSE [p EXCEPT !.up = FALSE, !.hold = FALSE]

PatternArrives(ok) ==
    /\ page.out
    /\ Button(Drawn([page EXCEPT !.out = FALSE], ok))

\* mutant: seq is not looked at
TakeLate(p, ok) == Drawn(p, ok)
DropLate(p, ok) == p
LatePatternArrives(ok) ==
    /\ page.late
    /\ Button(DropLate([page EXCEPT !.late = FALSE], ok))

FromMenu(p) == IF p.run THEN p ELSE [p EXCEPT !.rec.origin = "help"]

\* startFromMenu on the lesson the record names: what Resume does, on the list
\* and in the dialog.
Resumed(p) == EnterLesson(FromMenu(p), p.rec.lesson, p.rec.step, 1)

StartedOver(p) ==
    LET q == [p EXCEPT !.passed = {}, !.rec.lesson = 0, !.rec.step = 1,
                !.rec.lessons = [i \in 1..LastLesson |-> "open"],
                !.rec.answers = [question \in Questions |-> Unanswered],
                !.rec.status = IF @ = "completed" THEN "in-progress" ELSE @]
    IN EnterLesson(FromMenu(q), 1, FirstStep, 1)

\* What the page's address says of the tutorial.
Params == {"none", "start", "off"}

\* onConsentSettled: by itself it opens for a first run, or one that was left
\* open; ?tutorial=start opens it, ?tutorial=off does not.
MayAutostart(record) ==
    \/ record.status = "pending"
    \/ record.status = "in-progress" /\ record.origin = "first-run"

Scheduled(record, param) ==
    LET opens == param = "start" \/ (param = "none" /\ MayAutostart(record))
        resumes == IF param = "start" THEN CanResume(record) ELSE record.status = "in-progress"
    IN IF ~opens THEN "over" ELSE IF resumes THEN "resume" ELSE "fresh"

\* Consent that was decided before the tutorial existed: told of it, once.
Settle(decided, param) ==
    /\ boot \in {"new", "waiting"}
    /\ IF decided /\ boot = "new" /\ param # "start"
         THEN page' = [page EXCEPT !.rec.status = "offered"] /\ boot' = "over"
         ELSE boot' = Scheduled(page.rec, param) /\ UNCHANGED page
    /\ UNCHANGED wanted

\* startAtLoad, once the lessons are there.
StartedAtLoad(p, how) ==
    LET first == how = "fresh" \/ p.rec.origin = "unset"
        q == [p EXCEPT !.rec.origin = IF first THEN "first-run" ELSE @]
    IN IF how = "fresh" THEN EnterLesson(q, 1, FirstStep, 1)
       ELSE EnterLesson(q, IF p.rec.lesson = 0 THEN 1 ELSE p.rec.lesson, p.rec.step, 1)

Start ==
    /\ boot \in {"resume", "fresh"} /\ boot' = "over"
    /\ IF page.view = "idle" THEN EndTask(StartedAtLoad(page, boot)) ELSE UNCHANGED page
    /\ UNCHANGED wanted

StartFails ==
    /\ boot \in {"resume", "fresh"} /\ boot' = "over"
    /\ UNCHANGED <<page, wanted>>

\* The consent dialog is modal.
Ask(what) ==
    /\ boot \notin {"new", "waiting"}
    /\ what = "resume" => page.offer
    /\ wanted = "nothing" /\ wanted' = what
    /\ UNCHANGED <<page, boot>>

\* The lessons are there, or they did not load: what was asked for is done after
\* the await, on whatever is open by then.
Loads(what) == wanted = what /\ wanted' = "nothing" /\ UNCHANGED boot

ShowMenu == page' = [Nowhere(page, "menu") EXCEPT !.serial = FALSE]

OpenMenu == Loads("menu") /\ ShowMenu

DialogResume ==
    /\ Loads("resume")
    /\ IF page.rec.lesson # 0 THEN EndTask(Resumed(page)) ELSE ShowMenu

DialogStartOver == Loads("start over") /\ EndTask(StartedOver(page))

DoesNotLoad == (\E what \in Wants : Loads(what)) /\ UNCHANGED page

\* The lesson the person is in has a Resume button, the others Start or Redo.
Resumable(p, i) ==
    /\ p.rec.lesson = i /\ p.rec.lessons[i] # "done"
    /\ p.run \/ p.rec.status \in {"in-progress", "paused"}

StartFromMenu(i) ==
    /\ page.view = "menu"
    /\ Button(EnterLesson(FromMenu(page), i, IF Resumable(page, i) THEN page.rec.step ELSE FirstStep, 1))

Resume == page.view = "menu" /\ CanResume(page.rec) /\ Button(Resumed(page))

StartOver == page.view = "menu" /\ Button(StartedOver(page))

\* exitTutorial
Exited(p) ==
    IF p.run THEN Closed(p, IF p.rec.status = "completed" THEN "completed" ELSE "paused")
    ELSE Nowhere(p, "idle")

Exit == page.view # "idle" /\ Button(Exited(page))

\* The tab is closed or reloaded, at any time.
Reload ==
    /\ page' = Loaded(page.rec, {})
    /\ boot' = "waiting" /\ wanted' = "nothing"

\* Everything but what the viewer is in the middle of reporting.
Other ==
    \/ \E d \in Devices : ConnectDevice(d) \/ DisconnectDevice(d)
    \/ Continue \/ SkipStep \/ SkipLesson \/ ShowMe \/ Back \/ RestartLesson
    \/ \E value \in Answers : Choose(value)
    \/ \E yes \in BOOLEAN :
         AnswerPattern(yes) \/ PatternArrives(yes) \/ LatePatternArrives(yes)
    \/ \E decided \in BOOLEAN, param \in Params : Settle(decided, param)
    \/ Start \/ StartFails
    \/ \E what \in Wants : Ask(what)
    \/ OpenMenu \/ DialogResume \/ DialogStartOver \/ DoesNotLoad
    \/ \E i \in 1..LastLesson : StartFromMenu(i)
    \/ Resume \/ StartOver \/ Exit \/ Reload

Next ==
    \/ task = <<>> /\ Act
    \/ task # <<>> /\ ((\E ev \in Events : Reported(ev)) \/ ActEnds)
    \/ task = <<>> /\ Other /\ UNCHANGED task

Spec == Init /\ [][Next]_tvars

-----------------------------------------------------------------------------
(* Properties *)

\* The open step is one the page would open now.
StillApplies(p) ==
    ~LedPast(p, p.li) /\ Met(p, Table[p.li].needs) /\ StepApplies(p, OpenStep(p))

\* The lesson and the step the person was in are open again; after a lesson that
\* was done, a later one, or none where all of those are led past.
ComesBack(again) ==
    IF page.phase = "done" THEN again.view = "idle" \/ again.li > page.li
    ELSE /\ ~LedPast(page, page.li) => again.li = page.li
         /\ InStep(page) /\ StillApplies(page) => again.si = page.si

\* However the person got where they are, by Next, Back, an answer, a device, the
\* list or a lesson they were led past: as long as the tutorial is not completed,
\* Exit and a page closed and opened again (with the same devices) leave a Resume
\* button, Resume goes back to where they were, and so does the tutorial when it
\* opens by itself or at ?tutorial=start.  The only place it does not go back to
\* by itself is a lesson opened from the list that could not start.  Once the
\* tutorial is completed, nothing goes back to an extra or to a lesson that is
\* being redone, though the head of the file has it of every step that Exit loses
\* nothing.
ResumesWhereLeft ==
    page.view = "lesson" /\ page.rec.status # "completed" =>
      LET new == Loaded(page.rec, page.on)
      IN /\ \A left \in {new, Exited(page)} :
              left.offer /\ CanResume(left.rec) /\ ComesBack(Resumed(left))
         /\ \A param \in Params :
              LET how == Scheduled(page.rec, param)
              IN \/ how = "over"
                 \/ how = "fresh" /\ page.phase = "blocked"
                 \/ ComesBack(StartedAtLoad(new, how))

\* The pins are the test pattern's, and dots 1 and 4 are answers, only while its
\* step is open, whenever the server's answers come.
PatternStaysInItsStep ==
    page.hold \/ page.up \/ page.asked => Checking(page, "test_pattern")

\* What one press does, and all the viewer says about it, passes at most one
\* step: the tail of the action that passed a step cannot pass the next one.
Before == IF task = <<>> THEN page.passed ELSE task[1]
OnePressOneStep == [][Cardinality(page'.passed \ Before) <= 1]_tvars
=============================================================================
