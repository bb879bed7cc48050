------------------------ MODULE TutorialRunner_proofs ------------------------
(***************************************************************************)
(* Theorems about TutorialRunner, for every table of lessons that can be   *)
(* run, any set of offered answers and any browser.                        *)
(***************************************************************************)
EXTENDS TutorialRunner, TLAPS, WellFoundedInduction, FiniteSetTheorems

USE DEF LastLesson, Devices, Questions, Unanswered

Pages ==
    [view: {"idle", "lesson", "menu"}, run: BOOLEAN, li: 0..LastLesson, si: Nat,
     phase: {"step", "done", "blocked"}, passed: SUBSET StepsOf(Table),
     parts: SUBSET CheckTypes, armed: BOOLEAN, frames: Nat, entry: BOOLEAN,
     serial: BOOLEAN, right: Nat, on: SUBSET Devices, up: BOOLEAN, asked: BOOLEAN,
     hold: BOOLEAN, out: BOOLEAN, late: BOOLEAN, offer: BOOLEAN, rec: Records]

\* A step has been left: nothing of it stays behind.
Cleared(p) ==
    /\ ~p.up /\ ~p.asked /\ ~p.hold /\ ~p.out
    /\ p.parts = {} /\ ~p.armed /\ ~p.entry /\ p.serial

\* Where the runner is, and what it knows apart from the open step.
SamePlace(p, q) == q.view = p.view /\ q.li = p.li /\ q.si = p.si /\ q.phase = p.phase
SameRest(p, q) == q.passed = p.passed /\ q.on = p.on /\ q.run = p.run

(***************************************************************************)
(* What holds of the runner whatever it is doing: where it is and what is  *)
(* kept of that agree, and only an open step has anything of a step.       *)
(***************************************************************************)
Shape(p) ==
    /\ p.view = "lesson" => p.li # 0
    /\ InStep(p) => /\ p.si \in DOMAIN Table[p.li].steps
                    /\ p.parts \subseteq OpenStep(p).checks
                    /\ p.rec.lesson = p.li /\ p.rec.step = p.si
    /\ ~InStep(p) => p.parts = {} /\ ~p.armed /\ ~p.entry
    /\ p.up \/ p.asked \/ p.hold \/ p.out => Checking(p, "test_pattern")
    /\ p.view = "lesson" /\ p.phase = "blocked" => p.rec.lesson = p.li
    /\ p.view = "lesson" /\ p.phase = "done" /\ p.li < LastLesson =>
         p.rec.lesson = p.li + 1 /\ p.rec.step = 1
    /\ p.view = "lesson" /\ p.phase # "blocked" => p.rec.status \in {"in-progress", "completed"}
    /\ p.view = "lesson" /\ p.phase = "done" /\ p.li = LastLesson => p.rec.status = "completed"

Valid(p) == p \in Pages /\ Shape(p)

-----------------------------------------------------------------------------
(* The table, and the least and the greatest of a set *)

LEMMA TableType ==
    /\ LastLesson \in Nat /\ LastLesson >= 1 /\ DOMAIN Table = 1..LastLesson
    /\ \A i \in 1..LastLesson :
         /\ DOMAIN Table[i].steps = 1..Len(Table[i].steps) /\ Len(Table[i].steps) \in Nat
         /\ Table[i].needs \in SUBSET Things
         /\ \A k \in DOMAIN Table[i].steps :
              /\ Table[i].steps[k].checks \in SUBSET CheckTypes
              /\ Table[i].steps[k].frames \in Nat
              /\ Table[i].steps[k].needs \in SUBSET Things
              /\ <<i, k>> \in StepsOf(Table)
<1>1. Table \in Seq([id: STRING, part: {"setup", "core", "wrapup", "extras"},
                     needs: SUBSET Things, steps: Seq(Steps)]) /\ Table # <<>>
  BY TableAssumption DEF IsTable, CanBeRun
<1>2. LastLesson \in Nat /\ LastLesson >= 1 /\ DOMAIN Table = 1..LastLesson
  BY <1>1
<1>3. ASSUME NEW i \in 1..LastLesson
      PROVE  Table[i].steps \in Seq(Steps) /\ Table[i].needs \in SUBSET Things
  <2> DEFINE L == [id: STRING, part: {"setup", "core", "wrapup", "extras"},
                   needs: SUBSET Things, steps: Seq(Steps)]
  <2>1. Table[i] \in L
    <3> HIDE DEF L
    <3>1. Table \in Seq(L)
      BY <1>1 DEF L
    <3> QED BY <3>1, <1>2
  <2> QED BY <2>1
<1>4. ASSUME NEW i \in 1..LastLesson, NEW k \in DOMAIN Table[i].steps
      PROVE  /\ Table[i].steps[k] \in Steps
             /\ <<i, k>> \in StepsOf(Table)
  <2>1. Table[i].steps[k] \in Steps
    BY <1>3
  <2>2. <<i, k>> \in StepsOf(Table)
    BY <1>2 DEF StepsOf
  <2> QED BY <2>1, <2>2
<1>5. ASSUME NEW s \in Steps
      PROVE  s.checks \in SUBSET CheckTypes /\ s.frames \in Nat /\ s.needs \in SUBSET Things
  BY DEF Steps
<1> QED
  BY <1>2, <1>3, <1>4, <1>5

LEMMA LeastOf ==
    ASSUME NEW S \in SUBSET Nat, S # {}
    PROVE  Min(S) \in S /\ \A y \in S : Min(S) <= y
<1> DEFINE R == {p \in Nat \X Nat : p[1] < p[2]}
<1>1. IsWellFoundedOn(R, Nat)
  BY NatLessThanWellFounded DEF OpToRel
<1>2. PICK x \in S : \A y \in S : ~ (<<y, x>> \in R)
  <2> HIDE DEF R
  <2> QED BY <1>1, WFMin
<1>3. ASSUME NEW y \in S PROVE x <= y
  <2>1. x \in Nat /\ y \in Nat
    OBVIOUS
  <2>2. ~ (y < x)
    BY <1>2, <2>1
  <2> QED BY <2>1, <2>2
<1> QED
  BY <1>3 DEF Min

LEMMA GreatestOf ==
    ASSUME NEW n \in Nat, NEW S \in SUBSET (0..n), S # {}
    PROVE  Max(S) \in S /\ \A y \in S : Max(S) >= y
<1> DEFINE D == {n - x : x \in S}
<1>0. ASSUME NEW x \in S PROVE x \in 0..n /\ n - x \in Nat
  <2>1. x \in 0..n
    OBVIOUS
  <2> QED BY <2>1
<1>1. D \in SUBSET Nat /\ D # {}
  BY <1>0
<1>2. PICK d \in D : \A e \in D : d <= e
  <2> HIDE DEF D
  <2> QED BY <1>1, LeastOf
<1>3. PICK x \in S : d = n - x
  BY <1>2
<1>4. ASSUME NEW y \in S PROVE x >= y
  <2>1. n - x <= n - y
    BY <1>2, <1>3
  <2>2. x \in Int /\ y \in Int
    BY <1>0
  <2> QED BY <2>1, <2>2
<1> QED
  BY <1>4 DEF Max

-----------------------------------------------------------------------------
(* Leaving and opening *)

LEMMA LeaveStepClears ==
    ASSUME NEW p \in Pages
    PROVE  /\ LeaveStep(p) \in Pages /\ Cleared(LeaveStep(p))
           /\ SamePlace(p, LeaveStep(p)) /\ SameRest(p, LeaveStep(p))
           /\ LeaveStep(p).rec = p.rec
<1>1. LeaveStep(p) = [p EXCEPT !.out = FALSE, !.late = p.late \/ p.out, !.up = FALSE,
                        !.asked = FALSE, !.hold = FALSE, !.parts = {}, !.armed = FALSE,
                        !.frames = 0, !.entry = FALSE, !.serial = TRUE, !.right = 0]
  BY DEF LeaveStep, EndTestPattern, Outdated, Pages
<1>2. (p.late \/ p.out) \in BOOLEAN
  OBVIOUS
<1> DEFINE q == LeaveStep(p)
           late == p.late \/ p.out
<1>3. q = [p EXCEPT !.out = FALSE, !.late = late, !.up = FALSE,
                    !.asked = FALSE, !.hold = FALSE, !.parts = {}, !.armed = FALSE,
                    !.frames = 0, !.entry = FALSE, !.serial = TRUE, !.right = 0]
  BY <1>1
<1>4. late \in BOOLEAN
  BY <1>2
<1> HIDE DEF q, late
<1>5. q \in Pages
  <2> DEFINE r == [p EXCEPT !.out = FALSE, !.late = late, !.up = FALSE, !.asked = FALSE,
                            !.hold = FALSE]
  <2>1. r \in Pages
    BY <1>4 DEF Pages
  <2>2. q = [r EXCEPT !.parts = {}, !.armed = FALSE, !.frames = 0, !.entry = FALSE,
                      !.serial = TRUE, !.right = 0]
    BY <1>3, <1>4 DEF Pages
  <2> HIDE DEF r
  <2> QED BY <2>1, <2>2 DEF Pages
<1>6. Cleared(q)
  BY <1>3 DEF Pages, Cleared
<1>7. SamePlace(p, q) /\ SameRest(p, q) /\ q.rec = p.rec
  BY <1>3 DEF Pages, SamePlace, SameRest
<1> QED
  BY <1>5, <1>6, <1>7 DEF q

LEMMA SaveProgressKeeps ==
    ASSUME NEW p \in Pages
    PROVE  LET q == SaveProgress(p)
           IN  /\ q \in Pages /\ SamePlace(p, q) /\ SameRest(p, q)
               /\ q = [p EXCEPT !.rec = q.rec]
               /\ q.rec.lesson = p.li /\ q.rec.step = p.si
               /\ q.rec = [p.rec EXCEPT !.lesson = p.li, !.step = p.si, !.status = InProgress(p.rec.status)]
<1> DEFINE q == SaveProgress(p)
           r == [p.rec EXCEPT !.lesson = p.li, !.step = p.si, !.status = InProgress(p.rec.status)]
<1>1. p.rec \in Records /\ p.li \in 0..LastLesson /\ p.si \in Nat
  BY DEF Pages
<1>2. InProgress(p.rec.status) \in Status
  BY <1>1 DEF Records, InProgress, Status
<1>3. r \in Records /\ r.lesson = p.li /\ r.step = p.si
  BY <1>1, <1>2 DEF Records
<1>4. q = [p EXCEPT !.rec = r]
  BY <1>1 DEF SaveProgress, Pages, Records
<1> HIDE DEF r, q
<1>5. q \in Pages /\ SamePlace(p, q) /\ SameRest(p, q) /\ q.rec = r /\ q = [p EXCEPT !.rec = q.rec]
  BY <1>3, <1>4 DEF Pages, SamePlace, SameRest
<1>6. q.rec.lesson = p.li /\ q.rec.step = p.si
  BY <1>3, <1>5
<1> QED
  BY <1>5, <1>6 DEF q, r
LEMMA NextRoundKeeps ==
    ASSUME NEW p \in Pages
    PROVE  LET q == NextTestPatternRound(p)
           IN  /\ q \in Pages /\ SamePlace(p, q) /\ SameRest(p, q) /\ q.rec = p.rec
               /\ q.parts = p.parts /\ q.armed = p.armed /\ q.entry = p.entry
               /\ q.serial = p.serial
<1> DEFINE late == p.late \/ p.out
           r == [p EXCEPT !.out = FALSE, !.late = late, !.asked = FALSE]
           q == NextTestPatternRound(p)
<1>1. late \in BOOLEAN
  OBVIOUS
<1>2. [Outdated(p) EXCEPT !.asked = FALSE] = r
  BY DEF Outdated, Pages
<1>3. q = IF "display" \in p.on THEN [r EXCEPT !.hold = TRUE, !.out = TRUE]
          ELSE [r EXCEPT !.up = FALSE]
  <2>1. r.on = p.on
    BY DEF Pages
  <2> HIDE DEF r
  <2> QED BY <1>2, <2>1 DEF NextTestPatternRound
<1> HIDE DEF q, late
<1>4. CASE "display" \in p.on
  <2>1. q = [p EXCEPT !.out = TRUE, !.late = late, !.asked = FALSE, !.hold = TRUE]
    BY <1>3, <1>4 DEF Pages
  <2> QED BY <1>1, <2>1 DEF Pages, SamePlace, SameRest, q
<1>5. CASE "display" \notin p.on
  <2>1. q = [p EXCEPT !.out = FALSE, !.late = late, !.asked = FALSE, !.up = FALSE]
    BY <1>3, <1>5 DEF Pages
  <2> QED BY <1>1, <2>1 DEF Pages, SamePlace, SameRest, q
<1> QED
  BY <1>4, <1>5

\* enterStep, from wherever in a lesson the runner is.
LEMMA EnterStepShape ==
    ASSUME NEW p \in Pages, p.view = "lesson", p.li \in 1..LastLesson,
           NEW k \in DOMAIN Table[p.li].steps
    PROVE  LET q == EnterStep(p, k)
           IN  /\ Valid(q) /\ SameRest(p, q) /\ InStep(q) /\ q.li = p.li /\ q.si = k
               /\ q.serial /\ q.entry = ("device" \in Table[p.li].steps[k].checks)
               /\ q.rec.answers = p.rec.answers
<1> DEFINE step == Table[p.li].steps[k]
           a == LeaveStep(p)
           b == [a EXCEPT !.si = k, !.phase = "step"]
           c == SaveProgress(b)
           wait == "device" \in step.checks
           d == [c EXCEPT !.frames = step.frames, !.entry = wait]
           e == IF "test_pattern" \in step.checks THEN BeginTestPattern(d) ELSE d
<1>1. /\ DOMAIN Table[p.li].steps \subseteq Nat
      /\ step.checks \in SUBSET CheckTypes /\ step.frames \in Nat
  <2>1. DOMAIN Table[p.li].steps = 1..Len(Table[p.li].steps) /\ Len(Table[p.li].steps) \in Nat
    BY TableType
  <2>2. step.checks \in SUBSET CheckTypes /\ step.frames \in Nat
    BY TableType
  <2>3. 1..Len(Table[p.li].steps) \subseteq Nat
    BY <2>1
  <2> HIDE DEF step
  <2> QED BY <2>1, <2>2, <2>3
<1>2. k \in Nat /\ wait \in BOOLEAN
  BY <1>1
<1>3. /\ a \in Pages /\ Cleared(a) /\ SamePlace(p, a) /\ SameRest(p, a)
      /\ a.rec = p.rec
  BY LeaveStepClears
<1>4. /\ b \in Pages /\ Cleared(b) /\ SameRest(a, b) /\ b.rec = a.rec
      /\ b.view = a.view /\ b.li = a.li /\ b.si = k /\ b.phase = "step"
  <2> HIDE DEF a
  <2> QED BY <1>2, <1>3 DEF Pages, Cleared, SameRest
<1>5. /\ c \in Pages /\ SamePlace(b, c) /\ SameRest(b, c)
      /\ c.rec.lesson = b.li /\ c.rec.step = b.si /\ c = [b EXCEPT !.rec = c.rec]
      /\ c.rec.answers = b.rec.answers /\ c.rec.status \in {"in-progress", "completed"}
  <2>1. b.rec \in Records
    BY <1>4 DEF Pages
  <2> HIDE DEF b
  <2>2. c.rec = [b.rec EXCEPT !.lesson = b.li, !.step = b.si, !.status = InProgress(b.rec.status)]
    BY <1>4, SaveProgressKeeps
  <2>3. c.rec.answers = b.rec.answers /\ c.rec.status = InProgress(b.rec.status)
    BY <2>1, <2>2 DEF Records
  <2>4. InProgress(b.rec.status) \in {"in-progress", "completed"}
    BY DEF InProgress
  <2> HIDE DEF c
  <2>5. /\ c \in Pages /\ SamePlace(b, c) /\ SameRest(b, c)
        /\ c.rec.lesson = b.li /\ c.rec.step = b.si /\ c = [b EXCEPT !.rec = c.rec]
    BY <1>4, SaveProgressKeeps DEF c
  <2> QED BY <2>3, <2>4, <2>5
<1>6. Cleared(c)
  <2> HIDE DEF b, c
  <2> QED BY <1>4, <1>5 DEF Pages, Cleared
<1>7. /\ d \in Pages /\ SamePlace(c, d) /\ SameRest(c, d) /\ d.rec = c.rec
      /\ ~d.up /\ ~d.asked /\ ~d.hold /\ ~d.out /\ d.parts = {} /\ ~d.armed
      /\ d.entry = wait /\ d.serial
  <2> HIDE DEF c, wait, step
  <2> QED BY <1>1, <1>2, <1>5, <1>6 DEF Pages, Cleared, SamePlace, SameRest
<1>8. e = EnterStep(p, k)
  <2>1. b.li = p.li
    BY <1>3, <1>4 DEF SamePlace
  <2>2. c.li = p.li
    BY <1>5, <2>1 DEF SamePlace
  <2> QED BY <2>2 DEF EnterStep
<1>9. /\ e \in Pages /\ SamePlace(d, e) /\ SameRest(d, e) /\ e.rec = d.rec
      /\ e.parts = {} /\ ~e.armed /\ e.entry = wait /\ e.serial
      /\ e.up \/ e.asked \/ e.hold \/ e.out => "test_pattern" \in step.checks
  <2>1. CASE "test_pattern" \in step.checks
    <3> DEFINE f == [d EXCEPT !.up = TRUE]
    <3>1. /\ f \in Pages /\ SamePlace(d, f) /\ SameRest(d, f) /\ f.rec = d.rec
          /\ f.parts = {} /\ ~f.armed /\ f.entry = wait /\ f.serial
      <4> HIDE DEF d, wait
      <4> QED BY <1>7 DEF Pages, SamePlace, SameRest
    <3>2. e = NextTestPatternRound(f)
      BY <2>1 DEF BeginTestPattern
    <3> HIDE DEF d, wait, f, e, step
    <3> QED BY <2>1, <3>1, <3>2, NextRoundKeeps DEF SamePlace, SameRest
  <2>2. CASE "test_pattern" \notin step.checks
    <3>1. e = d
      BY <2>2
    <3> HIDE DEF d, wait, e, step
    <3> QED BY <1>7, <3>1 DEF SamePlace, SameRest
  <2> QED BY <2>1, <2>2
<1>10. /\ e.view = "lesson" /\ e.li = p.li /\ e.si = k /\ e.phase = "step"
       /\ e.rec.lesson = p.li /\ e.rec.step = k /\ SameRest(p, e) /\ e.rec.answers = p.rec.answers
       /\ e.rec.status \in {"in-progress", "completed"}
  <2> HIDE DEF a, b, c, d, e, wait, step
  <2> QED BY <1>3, <1>4, <1>5, <1>7, <1>9 DEF SamePlace, SameRest
<1>11. InStep(e) /\ OpenStep(e) = step
  <2> HIDE DEF e
  <2> QED BY <1>10 DEF InStep, OpenStep, step
<1>12. Shape(e)
  <2> HIDE DEF e, step, wait
  <2> QED BY <1>9, <1>10, <1>11 DEF Shape, InStep, Checking
<1> HIDE DEF e
<1> QED
  BY <1>8, <1>9, <1>10, <1>11, <1>12 DEF Valid

LEMMA LessonDoneShape ==
    ASSUME NEW p \in Pages, Cleared(p), p.view = "lesson", p.li \in 1..LastLesson
    PROVE  LET q == LessonDone(p)
           IN  /\ Valid(q) /\ SameRest(p, q) /\ ~InStep(q) /\ q.li = p.li
               /\ q.serial /\ ~q.entry /\ q.rec.answers = p.rec.answers
<1> DEFINE lessons == [p.rec.lessons EXCEPT ![p.li] = "done"]
           r == [p.rec EXCEPT !.lessons = lessons]
           a == [p EXCEPT !.phase = "done", !.rec = r]
           b == SaveProgress(a)
           isLast == b.li = LastLesson
           onlyExtras == ~isLast /\ Table[b.li + 1].part = "extras" /\ Table[b.li].part # "extras"
           lesson == IF b.li = LastLesson THEN b.rec.lesson ELSE b.li + 1
           step == IF b.li = LastLesson THEN b.rec.step ELSE 1
           status == IF isLast \/ onlyExtras THEN "completed" ELSE b.rec.status
           s == [b.rec EXCEPT !.lesson = lesson, !.step = step, !.status = status]
           q == [b EXCEPT !.rec = s]
<1>1. p.rec \in Records /\ p.rec.lessons \in [1..LastLesson -> {"open", "done", "skipped"}]
  BY DEF Pages, Records
<1>2. lessons \in [1..LastLesson -> {"open", "done", "skipped"}]
  BY <1>1
<1>3. r \in Records /\ r.answers = p.rec.answers
  <2> HIDE DEF lessons
  <2> QED BY <1>1, <1>2 DEF Records
<1>4. /\ a \in Pages /\ Cleared(a) /\ SameRest(p, a) /\ a.rec = r
      /\ a.view = "lesson" /\ a.li = p.li /\ a.phase = "done"
  <2> HIDE DEF r
  <2> QED BY <1>3 DEF Pages, Cleared, SameRest
<1>5. a = [p EXCEPT !.phase = "done", !.rec.lessons[p.li] = "done"]
  BY <1>1 DEF Pages, Records
<1>6. /\ b \in Pages /\ SamePlace(a, b) /\ SameRest(a, b) /\ b = [a EXCEPT !.rec = b.rec]
      /\ b.rec = [a.rec EXCEPT !.lesson = a.li, !.step = a.si, !.status = InProgress(a.rec.status)]
  <2> HIDE DEF a
  <2> QED BY <1>4, SaveProgressKeeps
<1>7. /\ Cleared(b) /\ b.rec.answers = r.answers
      /\ b.rec.status \in {"in-progress", "completed"}
  <2>1. Cleared(b)
    <3> HIDE DEF a, b
    <3> QED BY <1>4, <1>6 DEF Cleared, Pages
  <2>2. b.rec.answers = r.answers /\ b.rec.status = InProgress(r.status)
    <3> HIDE DEF a, b, r
    <3> QED BY <1>3, <1>4, <1>6 DEF Records
  <2>3. InProgress(r.status) \in {"in-progress", "completed"}
    BY DEF InProgress
  <2> HIDE DEF b, r
  <2> QED BY <2>1, <2>2, <2>3
<1>8. b.view = "lesson" /\ b.li = p.li /\ b.phase = "done" /\ b.rec \in Records /\ SameRest(p, b)
  <2>1. b.view = "lesson" /\ b.li = p.li /\ b.phase = "done" /\ SameRest(p, b)
    <3> HIDE DEF a, b
    <3> QED BY <1>4, <1>6 DEF SamePlace, SameRest
  <2>2. b.rec \in Records
    <3> HIDE DEF b
    <3> QED BY <1>6 DEF Pages
  <2> QED BY <2>1, <2>2
<1> HIDE DEF b
<1>9. /\ b.rec.lesson \in 0..LastLesson /\ b.rec.step \in Nat /\ b.rec.status \in Status
  BY <1>8 DEF Records
<1>10. lesson \in 0..LastLesson /\ step \in Nat /\ status \in Status
  <2>1. p.li \in Int /\ LastLesson \in Nat
    BY TableType
  <2>2. lesson \in 0..LastLesson /\ step \in Nat
    BY <2>1, <1>8, <1>9
  <2>3. status \in Status
    BY <1>9 DEF Status
  <2> QED BY <2>2, <2>3
<1>11. /\ p.li < LastLesson => lesson = p.li + 1 /\ step = 1
       /\ status \in {"in-progress", "completed"}
       /\ p.li = LastLesson => status = "completed"
  <2>1. p.li < LastLesson => lesson = p.li + 1 /\ step = 1
    BY <1>8, TableType
  <2>2. b.li = LastLesson => status = "completed"
    OBVIOUS
  <2>3. status \in {"in-progress", "completed"}
    BY <1>7
  <2> HIDE DEF status, lesson, step
  <2> QED BY <1>8, <2>1, <2>2, <2>3
<1> HIDE DEF lesson, step, status
<1>12. /\ s \in Records /\ s.lesson = lesson /\ s.step = step /\ s.status = status
       /\ s.answers = b.rec.answers
  BY <1>8, <1>10 DEF Records
<1>13. q = LessonDone(p)
  <2>1. b = SaveProgress([p EXCEPT !.phase = "done", !.rec.lessons[p.li] = "done"])
    BY <1>5 DEF b
  <2>2. LessonDone(p) =
          [b EXCEPT !.rec.lesson = IF b.li = LastLesson THEN @ ELSE b.li + 1,
                    !.rec.step = IF b.li = LastLesson THEN @ ELSE 1,
                    !.rec.status = IF isLast \/ onlyExtras THEN "completed" ELSE @]
    BY <1>8, <2>1 DEF LessonDone
  <2>3. b \in Pages
    BY <1>6
  <2> DEFINE A == isLast \/ onlyExtras
  <2>4. status = IF A THEN "completed" ELSE b.rec.status
    BY DEF status
  <2>5. LessonDone(p) =
          [b EXCEPT !.rec.lesson = IF b.li = LastLesson THEN @ ELSE b.li + 1,
                    !.rec.step = IF b.li = LastLesson THEN @ ELSE 1,
                    !.rec.status = IF A THEN "completed" ELSE @]
    BY <2>2
  <2> HIDE DEF A
  <2> QED BY <1>8, <2>3, <2>4, <2>5 DEF lesson, step, Pages, Records
<1> HIDE DEF s
<1>14. /\ q \in Pages /\ Cleared(q) /\ SameRest(b, q) /\ q.rec = s
       /\ q.view = "lesson" /\ q.li = p.li /\ q.phase = "done"
  BY <1>6, <1>7, <1>8, <1>12 DEF Pages, Cleared, SameRest
<1> HIDE DEF q
<1>15. ~InStep(q) /\ Shape(q)
  BY <1>11, <1>12, <1>14 DEF Shape, InStep, Cleared
<1>16. SameRest(p, q) /\ q.rec.answers = p.rec.answers
  BY <1>3, <1>7, <1>8, <1>12, <1>14 DEF SameRest
<1> QED
  BY <1>13, <1>14, <1>15, <1>16 DEF Valid, Cleared

\* A device is waited for at the start of a lesson only.
LEMMA DeviceFirst ==
    ASSUME NEW i \in 1..LastLesson, NEW k \in DOMAIN Table[i].steps, k > 1
    PROVE  "device" \notin Table[i].steps[k].checks
<1>1. <<i, k>> \in StepsOf(Table)
  BY TableType
<1>2. \A a \in StepsOf(Table) : "device" \in Table[a[1]].steps[a[2]].checks => a[2] = 1
  BY TableAssumption DEF CanBeRun
<1>3. "device" \in Table[i].steps[k].checks => k = 1
  BY <1>1, <1>2
<1>4. k \in Int
  BY TableType
<1> QED
  BY <1>3, <1>4

LEMMA InStepAt ==
    ASSUME NEW p, Valid(p), InStep(p)
    PROVE  /\ p \in Pages /\ p.view = "lesson" /\ p.phase = "step"
           /\ p.li \in 1..LastLesson /\ p.si \in DOMAIN Table[p.li].steps
           /\ p.si \in Nat /\ p.si >= 1 /\ <<p.li, p.si>> \in StepsOf(Table)
<1>1. p \in Pages /\ p.view = "lesson" /\ p.phase = "step"
  BY DEF Valid, InStep
<1>2. p.li \in 0..LastLesson /\ p.li # 0 /\ p.si \in DOMAIN Table[p.li].steps
  BY <1>1 DEF Valid, Shape, Pages
<1>3. p.li \in 1..LastLesson
  BY <1>2, TableType
<1>4. p.si \in 1..Len(Table[p.li].steps) /\ Len(Table[p.li].steps) \in Nat /\ <<p.li, p.si>> \in StepsOf(Table)
  BY <1>2, <1>3, TableType
<1>5. p.si \in Nat /\ p.si >= 1
  BY <1>4
<1> QED
  BY <1>1, <1>2, <1>3, <1>4, <1>5

LEMMA PassStepShape ==
    ASSUME NEW p, Valid(p), InStep(p)
    PROVE  LET q == PassStep(p)
           IN  /\ Valid(q) /\ q.on = p.on /\ q.passed = p.passed \cup {<<p.li, p.si>>}
               /\ q.serial /\ ~q.entry
<1> DEFINE passed == p.passed \cup {<<p.li, p.si>>}
           a == [p EXCEPT !.passed = passed]
           b == LeaveStep(a)
           later == {k \in ApplicableSteps(b, p.li) : k > p.si}
<1>1. /\ p \in Pages /\ p.view = "lesson"
      /\ p.li \in 1..LastLesson /\ p.si \in DOMAIN Table[p.li].steps
      /\ p.si \in Nat /\ p.si >= 1 /\ <<p.li, p.si>> \in StepsOf(Table)
  BY InStepAt
<1>2. passed \in SUBSET StepsOf(Table)
  BY <1>1 DEF Pages
<1>3. a \in Pages /\ a.view = "lesson" /\ a.li = p.li /\ a.on = p.on /\ a.passed = passed
  <2> HIDE DEF passed
  <2> QED BY <1>1, <1>2 DEF Pages
<1>4. /\ b \in Pages /\ Cleared(b)
      /\ b.view = "lesson" /\ b.li = p.li /\ b.on = p.on /\ b.passed = passed
  <2> HIDE DEF a, passed
  <2> QED BY <1>3, LeaveStepClears DEF SamePlace, SameRest
<1>5. PassStep(p) = IF later # {} THEN EnterStep(b, Min(later)) ELSE LessonDone(b)
  BY <1>1 DEF PassStep, Pages
<1> HIDE DEF b, passed
<1>6. CASE later # {}
  <2> DEFINE k == Min(later)
  <2>1. DOMAIN Table[p.li].steps \subseteq Nat
    BY <1>1, TableType
  <2>2. later \subseteq DOMAIN Table[p.li].steps /\ \A x \in later : x > p.si
    BY DEF ApplicableSteps
  <2>3. k \in later
    <3> HIDE DEF later
    <3> QED BY <1>6, <2>1, <2>2, LeastOf
  <2> HIDE DEF later
  <2>4. k \in DOMAIN Table[p.li].steps /\ k > 1
    BY <1>1, <2>1, <2>2, <2>3
  <2> HIDE DEF k
  <2>5. "device" \notin Table[p.li].steps[k].checks
    BY <1>1, <2>4, DeviceFirst
  <2>6. PassStep(p) = EnterStep(b, k)
    BY <1>5, <1>6 DEF k
  <2> DEFINE q == EnterStep(b, k)
  <2>7. b.li \in 1..LastLesson /\ k \in DOMAIN Table[b.li].steps
    BY <1>1, <1>4, <2>4
  <2>8. Valid(q) /\ SameRest(b, q) /\ q.serial /\ q.entry = ("device" \in Table[b.li].steps[k].checks)
    <3> HIDE DEF q
    <3> QED BY <1>4, <2>7, EnterStepShape DEF q
  <2> HIDE DEF q
  <2>9. ~q.entry
    BY <1>4, <2>5, <2>8
  <2> QED
    BY <1>4, <2>6, <2>8, <2>9 DEF SameRest, passed, q
<1>7. CASE later = {}
  <2>1. PassStep(p) = LessonDone(b)
    BY <1>5, <1>7
  <2> QED
    BY <1>1, <1>4, <2>1, LessonDoneShape DEF SameRest, passed
<1> QED
  BY <1>6, <1>7

LEMMA NowhereShape ==
    ASSUME NEW p \in Pages, NEW view \in {"idle", "menu"}
    PROVE  LET q == Nowhere(p, view)
           IN  /\ Valid(q) /\ SameRest(p, q) /\ q.rec = p.rec /\ q.view = view
               /\ q.li = 0 /\ ~q.entry /\ q.serial /\ Cleared(q)
               /\ q.offer = CanResume(p.rec)
<1> DEFINE a == LeaveStep(p)
           offer == CanResume(p.rec)
           q == [a EXCEPT !.view = view, !.li = 0, !.si = 0, !.phase = "step", !.offer = offer]
<1>1. a \in Pages /\ Cleared(a) /\ SameRest(p, a) /\ a.rec = p.rec
  BY LeaveStepClears
<1>2. q = Nowhere(p, view)
  BY DEF Nowhere
<1>3. 0 \in 0..LastLesson /\ offer \in BOOLEAN
  BY TableType DEF CanResume
<1> HIDE DEF a, offer
<1>4. /\ q \in Pages /\ Cleared(q) /\ SameRest(a, q) /\ q.rec = a.rec
      /\ q.view = view /\ q.li = 0 /\ q.offer = offer
  BY <1>1, <1>3 DEF Pages, Cleared, SameRest
<1> HIDE DEF q
<1>5. Shape(q)
  BY <1>4 DEF Shape, Cleared, InStep
<1> QED
  BY <1>1, <1>2, <1>4, <1>5 DEF Valid, Cleared, SameRest, offer

LEMMA ClosedRecord ==
    ASSUME NEW p \in Pages, NEW status \in Status
    PROVE  LET q == Closed(p, status)
           IN  /\ Valid(q) /\ q.passed = p.passed /\ q.on = p.on /\ q.view = "idle"
               /\ ~q.entry /\ q.serial
               /\ q.rec = [p.rec EXCEPT !.status = status] /\ q.offer = CanResume(q.rec)
<1> DEFINE rec == [p.rec EXCEPT !.status = status]
           o == [p EXCEPT !.rec = rec]
           a == Nowhere(o, "idle")
           q == [a EXCEPT !.run = FALSE]
<1>1. rec \in Records
  BY DEF Pages, Records
<1>2. q = Closed(p, status)
  BY DEF Closed
<1> HIDE DEF rec
<1>3. o \in Pages /\ o.rec = rec /\ SameRest(p, o)
  BY <1>1 DEF Pages, SameRest
<1> HIDE DEF o
<1>4. /\ Valid(a) /\ SameRest(o, a) /\ a.view = "idle" /\ a.li = 0 /\ Cleared(a)
      /\ a.rec = rec /\ a.offer = CanResume(rec) /\ a.serial /\ ~a.entry
  BY <1>3, NowhereShape
<1> HIDE DEF a
<1>5. /\ q \in Pages /\ Cleared(q) /\ q.passed = a.passed /\ q.on = a.on
      /\ q.view = "idle" /\ q.li = 0 /\ q.rec = a.rec /\ q.offer = a.offer
  BY <1>4 DEF Valid, Pages, Cleared
<1> HIDE DEF q
<1>6. Shape(q)
  BY <1>5 DEF Shape, Cleared, InStep
<1> QED
  BY <1>2, <1>3, <1>4, <1>5, <1>6 DEF Valid, Cleared, SameRest, rec

LEMMA ClosedShape ==
    ASSUME NEW p \in Pages, NEW status \in Status
    PROVE  LET q == Closed(p, status)
           IN  /\ Valid(q) /\ q.passed = p.passed /\ q.on = p.on /\ q.view = "idle"
               /\ ~q.entry /\ q.serial
  BY ClosedRecord

\* The first lesson is nobody's to be led past.
LEMMA FirstLessonOpens == \A p \in Pages : ~LedPast(p, 1)
  BY TableAssumption DEF CanBeRun, LedPast, ForDisplay

LEMMA LandingOnwards ==
    ASSUME NEW p \in Pages, NEW i \in 1..(LastLesson + 1)
    PROVE  LET j == Landing(p, i, 1)
           IN  /\ j \in i..(LastLesson + 1)
               /\ i <= LastLesson /\ ~LedPast(p, i) => j = i
<1> DEFINE S == {j \in i..LastLesson : ~LedPast(p, j)} \cup {LastLesson + 1}
           j == Min(S)
<1>1. j = Landing(p, i, 1)
  BY DEF Landing
<1>2. LastLesson \in Nat /\ i \in Nat
  BY TableType
<1>3. S \in SUBSET Nat /\ S # {}
  BY <1>2
<1>4. \A x \in S : x \in i..(LastLesson + 1)
  BY <1>2
<1>5. i <= LastLesson /\ ~LedPast(p, i) => i \in S
  BY <1>2
<1> HIDE DEF S
<1>6. j \in S /\ \A y \in S : j <= y
  BY <1>3, LeastOf
<1> HIDE DEF j
<1>7. j \in i..(LastLesson + 1)
  BY <1>4, <1>6
<1>8. i <= LastLesson /\ ~LedPast(p, i) => j <= i
  BY <1>5, <1>6
<1> QED
  BY <1>1, <1>2, <1>7, <1>8

LEMMA LandingBackwards ==
    ASSUME NEW p \in Pages, NEW i \in 1..LastLesson
    PROVE  Landing(p, i, -1) \in 1..i
<1> DEFINE S == {j \in 1..i : ~LedPast(p, j)} \cup {0}
           j == Max(S)
<1>1. j = Landing(p, i, -1)
  BY DEF Landing
<1>2. LastLesson \in Nat /\ i \in Nat
  BY TableType
<1>3. S \in SUBSET (0..i) /\ S # {}
  BY <1>2
<1>4. 1 \in S
  BY <1>2, FirstLessonOpens
<1> HIDE DEF S
<1>5. j \in S /\ \A y \in S : j >= y
  BY <1>2, <1>3, GreatestOf
<1>6. j \in 0..i
  BY <1>3, <1>5
<1>7. j >= 1
  BY <1>4, <1>5
<1> HIDE DEF j
<1> QED
  BY <1>1, <1>2, <1>6, <1>7

\* Where a lesson that can be opened is opened.
LEMMA TargetIsAStep ==
    ASSUME NEW p \in Pages, NEW i \in 1..LastLesson, Met(p, Table[i].needs), NEW at \in Int
    PROVE  /\ Target(p, i, at) \in DOMAIN Table[i].steps
           /\ at \in ApplicableSteps(p, i) => Target(p, i, at) = at
<1> DEFINE steps == ApplicableSteps(p, i)
           onwards == {k \in steps : k >= at}
           n == Len(Table[i].steps)
<1>1. n \in Nat /\ DOMAIN Table[i].steps = 1..n
  BY TableType
<1>2. steps \subseteq 1..n
  BY <1>1 DEF ApplicableSteps
<1>3. steps # {}
  <2>1. PICK k \in DOMAIN Table[i].steps :
               Table[i].steps[k].when = <<>> /\ Table[i].steps[k].needs \subseteq Table[i].needs
    BY TableAssumption, TableType DEF CanBeRun
  <2>2. StepApplies(p, Table[i].steps[k])
    BY <2>1 DEF StepApplies, Met
  <2>3. k \in steps
    BY <2>2 DEF ApplicableSteps
  <2> QED BY <2>3
<1> HIDE DEF n
<1>4. steps \in SUBSET (0..n) /\ steps \in SUBSET Nat
  <2> HIDE DEF steps
  <2> QED BY <1>1, <1>2
<1>5. onwards \in SUBSET Nat /\ onwards \subseteq steps
  <2> HIDE DEF steps
  <2> QED BY <1>4
<1> HIDE DEF steps, onwards
<1>6. Max(steps) \in steps /\ Min(steps) \in steps /\ (onwards # {} => Min(onwards) \in onwards /\ \A y \in onwards : Min(onwards) <= y)
  BY <1>1, <1>3, <1>4, <1>5, GreatestOf, LeastOf
<1>7. Target(p, i, at) = CASE at = FinalStep -> Max(steps)
                           [] at # FinalStep /\ onwards # {} -> Min(onwards)
                           [] OTHER -> Min(steps)
  BY DEF Target, steps, onwards
<1>8. Target(p, i, at) \in DOMAIN Table[i].steps
  BY <1>1, <1>2, <1>5, <1>6, <1>7
<1>9. ASSUME at \in steps PROVE Target(p, i, at) = at
  <2>1. at \in Nat /\ at # FinalStep
    BY <1>4, <1>9 DEF FinalStep
  <2>2. at \in onwards
    BY <1>9, <2>1 DEF onwards
  <2>3. Target(p, i, at) = Min(onwards) /\ Min(onwards) <= at
    BY <1>6, <1>7, <2>1, <2>2
  <2>4. Min(onwards) >= at /\ Min(onwards) \in Nat
    <3>1. Min(onwards) \in onwards
      BY <1>6, <2>2
    <3> QED BY <1>5, <3>1 DEF onwards
  <2> QED BY <2>1, <2>3, <2>4
<1> QED
  BY <1>8, <1>9 DEF steps

\* enterLesson on lesson i: the runner is left in that lesson or one beyond it,
\* or nowhere, and no step has been passed on the way.
\* Lesson i can be opened at its step `at`, and not past it.
Straight(p, i, at) ==
    /\ i >= 1 /\ i <= LastLesson /\ ~LedPast(p, i)
    /\ Met(p, Table[i].needs) /\ at \in ApplicableSteps(p, i)

\* A lesson was opened, or none was left to open.
Opened(p, e) == Valid(e) /\ e.passed = p.passed /\ e.on = p.on

LEMMA EnterLessonShape ==
    ASSUME NEW p \in Pages, NEW direction \in {1, -1}, NEW i \in 0..(LastLesson + 1),
           i = 0 => Valid(p), direction = -1 => i <= LastLesson, NEW at \in Int,
           NEW e, e = EnterLesson(p, i, at, direction)
    PROVE  /\ Opened(p, e)
           /\ i >= 1 /\ direction = 1 => e.view = "idle" \/ e.li >= i
           /\ direction = 1 /\ i >= 1 /\ i <= LastLesson /\ ~LedPast(p, i) => e.li = i
           /\ direction = 1 /\ Straight(p, i, at) => e.li = i /\ e.si = at
<1> DEFINE j == Landing(p, i, direction)
           past == IF direction > 0 THEN i..(j - 1) ELSE (j + 1)..i
           lessons == [k \in 1..LastLesson |-> IF k \in past THEN "skipped" ELSE p.rec.lessons[k]]
           a == LeaveStep(p)
           rec == [a.rec EXCEPT !.lessons = lessons]
           q == [a EXCEPT !.rec = rec]
           offer == CanResume(p.rec)
           r == [q EXCEPT !.view = "lesson", !.run = TRUE, !.li = j, !.offer = offer]
           where == IF j = i THEN at ELSE IF direction < 0 THEN FinalStep ELSE FirstStep
<1>1. /\ p \in Pages /\ p.rec \in Records /\ LastLesson \in Nat /\ LastLesson >= 1
      /\ offer \in BOOLEAN
  BY TableType DEF Pages, CanResume
<1>2. /\ a \in Pages /\ Cleared(a) /\ SameRest(p, a) /\ a.rec = p.rec
  BY <1>1, LeaveStepClears
<1>3. lessons \in [1..LastLesson -> {"open", "done", "skipped"}]
  <2>1. p.rec.lessons \in [1..LastLesson -> {"open", "done", "skipped"}]
    BY <1>1 DEF Records
  <2> HIDE DEF past
  <2> QED BY <2>1
<1> HIDE DEF lessons
<1>4. rec \in Records /\ rec.answers = p.rec.answers /\ rec.lesson = p.rec.lesson /\ rec.step = p.rec.step
  BY <1>1, <1>2, <1>3 DEF Records
<1> HIDE DEF rec
<1>5. q \in Pages /\ Cleared(q) /\ SameRest(p, q) /\ q.rec = rec
  <2> HIDE DEF a
  <2> QED BY <1>2, <1>4 DEF Pages, Cleared, SameRest
<1>6. e =
        CASE i < 1 -> p
          [] i >= 1 /\ j > LastLesson -> Closed(q, "completed")
          [] i >= 1 /\ j <= LastLesson /\ ~Met(r, Table[j].needs) ->
               [r EXCEPT !.phase = "blocked", !.si = 0, !.rec.lesson = j,
                         !.rec.step = IF p.rec.lesson = j THEN @ ELSE 1]
          [] OTHER -> EnterStep(r, Target(r, j, where))
  <2>1. q = [LeaveStep(p) EXCEPT !.rec.lessons =
                [k \in 1..LastLesson |-> IF k \in past THEN "skipped" ELSE p.rec.lessons[k]]]
    <3> HIDE DEF past
    <3> QED BY <1>2 DEF rec, lessons, Pages, Records
  <2> HIDE DEF q
  <2> QED BY <2>1 DEF EnterLesson
<1> HIDE DEF q, offer
<1>0. Straight(p, i, at) =>
        /\ i >= 1 /\ i <= LastLesson /\ ~LedPast(p, i)
        /\ Met(p, Table[i].needs) /\ at \in ApplicableSteps(p, i)
  BY DEF Straight
<1>7. CASE i < 1
  <2>1. ~(i >= 1) /\ i = 0
    BY <1>1, <1>7
  <2>2. e = p
    BY <1>6, <1>7, <2>1
  <2> QED BY <1>0, <2>1, <2>2 DEF Opened
<1>8. CASE i >= 1
  <2>1. /\ j \in Nat /\ j >= 1
        /\ direction = 1 => j >= i
        /\ direction = 1 /\ i <= LastLesson /\ ~LedPast(p, i) => j = i
        /\ i \in Int
    <3>1. CASE direction = 1
      <4>1. j \in i..(LastLesson + 1) /\ (i <= LastLesson /\ ~LedPast(p, i) => j = i)
        BY <1>1, <1>8, <3>1, LandingOnwards
      <4> HIDE DEF j
      <4> QED BY <1>1, <1>8, <3>1, <4>1
    <3>2. CASE direction = -1
      <4>1. j \in 1..i
        BY <1>1, <1>8, <3>2, LandingBackwards
      <4> HIDE DEF j
      <4> QED BY <1>1, <1>8, <3>2, <4>1
    <3> QED BY <3>1, <3>2
  <2> HIDE DEF j
  <2>2. CASE j > LastLesson
    <3>0. ~(i < 1) /\ ~(j <= LastLesson)
      BY <1>1, <1>8, <2>1, <2>2
    <3>1. e = Closed(q, "completed")
      BY <1>6, <1>8, <2>2, <3>0
    <3>2. "completed" \in Status
      BY DEF Status
    <3>3. ~(i <= LastLesson /\ direction = 1 /\ ~LedPast(p, i))
      BY <1>1, <2>1, <2>2
    <3>4. Valid(e) /\ e.passed = q.passed /\ e.on = q.on /\ e.view = "idle"
      <4>1. q \in Pages
        BY <1>5
      <4> HIDE DEF r
      <4> QED BY <3>1, <3>2, <4>1, ClosedShape
    <3> QED
      BY <1>0, <1>5, <3>3, <3>4 DEF SameRest, Opened
  <2>3. CASE j <= LastLesson
    <3>1. j \in 0..LastLesson /\ j \in 1..LastLesson /\ ~(j > LastLesson)
      BY <1>1, <2>1, <2>3
    <3>2. /\ r \in Pages /\ Cleared(r) /\ r.passed = p.passed /\ r.on = p.on /\ r.rec = rec
          /\ r.view = "lesson" /\ r.li = j
      BY <1>1, <1>5, <3>1 DEF Pages, Cleared, SameRest
    <3> HIDE DEF r
    <3>3. Met(r, Table[j].needs) <=> Met(p, Table[j].needs)
      BY <3>2 DEF Met
    <3>4. CASE ~Met(r, Table[j].needs)
      <4> DEFINE step == IF p.rec.lesson = j THEN r.rec.step ELSE 1
                 rr == [r.rec EXCEPT !.lesson = j, !.step = step]
                 s == [r EXCEPT !.phase = "blocked", !.si = 0, !.rec = rr]
      <4>1. e = [r EXCEPT !.phase = "blocked", !.si = 0, !.rec.lesson = j,
                               !.rec.step = IF p.rec.lesson = j THEN @ ELSE 1]
        BY <1>6, <1>8, <3>1, <3>4
      <4>2. r.rec \in Records /\ r.rec.step \in Nat
        BY <1>4, <3>2 DEF Records
      <4>3. e = s
        BY <3>2, <4>1, <4>2 DEF Pages, Records
      <4>4. step \in Nat
        BY <4>2
      <4> HIDE DEF step
      <4>5. rr \in Records /\ rr.lesson = j
        BY <3>1, <4>2, <4>4 DEF Records
      <4> HIDE DEF rr
      <4>6. /\ s \in Pages /\ Cleared(s) /\ s.view = "lesson" /\ s.phase = "blocked"
            /\ s.li = j /\ s.rec = rr /\ s.passed = p.passed /\ s.on = p.on
        BY <3>2, <4>5 DEF Pages, Cleared
      <4> HIDE DEF s
      <4>7. Shape(s)
        BY <3>1, <4>5, <4>6 DEF Shape, Cleared, InStep
      <4>8. i <= LastLesson /\ direction = 1 /\ ~LedPast(p, i) => ~Met(p, Table[i].needs)
        BY <2>1, <3>3, <3>4
      <4> QED
        BY <1>0, <2>1, <4>3, <4>6, <4>7, <4>8 DEF Valid, Opened
    <3>5. CASE Met(r, Table[j].needs)
      <4> DEFINE k == Target(r, j, where)
                 s == EnterStep(r, k)
      <4>1. e = s
        BY <1>6, <1>8, <3>1, <3>5
      <4>2. where \in Int
        BY DEF FinalStep, FirstStep
      <4>3. k \in DOMAIN Table[j].steps
        <5> HIDE DEF where
        <5> QED BY <3>1, <3>2, <3>5, <4>2, TargetIsAStep
      <4>4. (j = i /\ at \in ApplicableSteps(p, i)) => k = at
        <5> SUFFICES ASSUME j = i, at \in ApplicableSteps(p, i) PROVE k = at
          OBVIOUS
        <5>1. ApplicableSteps(r, j) = ApplicableSteps(p, j)
          BY <1>4, <3>2 DEF ApplicableSteps, StepApplies, Met
        <5>2. where = at
          OBVIOUS
        <5> QED BY <3>1, <3>2, <3>5, <5>1, <5>2, TargetIsAStep
      <4> HIDE DEF k
      <4>5. Valid(s) /\ SameRest(r, s) /\ s.li = j /\ s.si = k
        <5>1. r.li \in 1..LastLesson /\ k \in DOMAIN Table[r.li].steps
          BY <3>1, <3>2, <4>3
        <5> HIDE DEF s
        <5> QED BY <3>2, <5>1, EnterStepShape DEF s
      <4> HIDE DEF s
      <4> QED
        BY <1>0, <2>1, <3>2, <4>1, <4>4, <4>5 DEF SameRest, Opened
    <3> QED BY <3>4, <3>5
  <2> QED BY <1>1, <2>1, <2>2, <2>3
<1> QED
  BY <1>7, <1>8

-----------------------------------------------------------------------------
(* The end of a task, and the events one is made of *)

\* At most one step has been passed that had not been.
OneNew(before, after) == \E x : after \ before \subseteq {x}

LEMMA EndTaskShape ==
    ASSUME NEW p, Valid(p), NEW before, OneNew(before, p.passed),
           p.entry => p.passed \subseteq before,
           EndTask(p)
    PROVE  Valid(page') /\ ~page'.entry /\ OneNew(before, page'.passed)
<1> DEFINE q == AtEntry(p)
           r == [q EXCEPT !.serial = FALSE]
<1>1. page' = r
  BY DEF EndTask
<1>2. Valid(q) /\ ~q.entry /\ OneNew(before, q.passed)
  <2>1. CASE p.entry /\ Checking(p, "device") /\ OpenStep(p).about \subseteq p.on
    <3>1. q = PassStep(p) /\ InStep(p)
      BY <2>1 DEF AtEntry, Checking
    <3>2. Valid(q) /\ q.passed = p.passed \cup {<<p.li, p.si>>} /\ ~q.entry
      <4> HIDE DEF q
      <4> QED BY <3>1, PassStepShape
    <3> HIDE DEF q
    <3>3. q.passed \ before \subseteq {<<p.li, p.si>>}
      BY <2>1, <3>2
    <3> QED BY <3>2, <3>3 DEF OneNew
  <2>2. CASE ~ (p.entry /\ Checking(p, "device") /\ OpenStep(p).about \subseteq p.on)
    <3>1. q = [p EXCEPT !.entry = FALSE]
      BY <2>2 DEF AtEntry
    <3> HIDE DEF q
    <3>2. /\ p \in Pages /\ q \in Pages /\ ~q.entry /\ q.passed = p.passed /\ SamePlace(p, q) /\ q.rec = p.rec
          /\ q.parts = p.parts /\ q.armed = p.armed /\ q.up = p.up /\ q.asked = p.asked
          /\ q.hold = p.hold /\ q.out = p.out
      BY <3>1 DEF Valid, Pages, SamePlace
    <3>3. Shape(q)
      BY <3>2 DEF Valid, Shape, SamePlace, InStep, OpenStep, Checking
    <3> QED BY <3>2, <3>3 DEF Valid
  <2> QED BY <2>1, <2>2
<1> HIDE DEF q
<1>3. /\ q \in Pages /\ r \in Pages /\ ~r.entry /\ r.passed = q.passed /\ SamePlace(q, r) /\ r.rec = q.rec
      /\ r.parts = q.parts /\ r.armed = q.armed /\ r.up = q.up /\ r.asked = q.asked
      /\ r.hold = q.hold /\ r.out = q.out
  BY <1>2 DEF Valid, Pages, SamePlace
<1> HIDE DEF r
<1>4. Shape(r)
  BY <1>2, <1>3 DEF Valid, Shape, SamePlace, InStep, OpenStep, Checking
<1> QED
  BY <1>1, <1>2, <1>3, <1>4 DEF Valid

\* What a button does when it does not wait for a device.
LEMMA ButtonShape ==
    ASSUME NEW p, Valid(p), ~p.entry, OneNew(page.passed, p.passed), Button(p)
    PROVE  Valid(page') /\ ~page'.entry /\ OneNew(page.passed, page'.passed)
  BY EndTaskShape DEF Button

\* Passing the open step, with a button.
LEMMA PassShape ==
    ASSUME NEW p, Valid(p), InStep(p), p.passed = page.passed, EndTask(PassStep(p))
    PROVE  Valid(page') /\ ~page'.entry /\ OneNew(page.passed, page'.passed)
<1> DEFINE q == PassStep(p)
<1>1. Valid(q) /\ q.passed = p.passed \cup {<<p.li, p.si>>} /\ ~q.entry
  BY PassStepShape
<1> HIDE DEF q
<1>2. q.passed \ page.passed \subseteq {<<p.li, p.si>>}
  BY <1>1
<1>3. OneNew(page.passed, q.passed)
  BY <1>2 DEF OneNew
<1>4. EndTask(q)
  BY DEF q
<1> QED
  BY <1>1, <1>3, <1>4, EndTaskShape

\* Opening a lesson, with a button.
LEMMA OnwardsShape ==
    ASSUME NEW p, Valid(p), NEW i \in 0..(LastLesson + 1), NEW at \in Int,
           NEW q, q = EnterLesson(p, i, at, 1)
    PROVE  /\ Valid(q)
           /\ i >= 1 => q.view = "idle" \/ q.li >= i
           /\ i >= 1 /\ i <= LastLesson /\ ~LedPast(p, i) => q.li = i
           /\ Straight(p, i, at) => q.li = i /\ q.si = at
<1> DEFINE direction == 1
<1>1. direction \in {1, -1} /\ (direction = -1 => i <= LastLesson) /\ direction = 1
      /\ q = EnterLesson(p, i, at, direction) /\ p \in Pages
  BY DEF Valid
<1> HIDE DEF direction
<1>2. Opened(p, q)
  BY <1>1, EnterLessonShape
<1>3. i >= 1 => q.view = "idle" \/ q.li >= i
  BY <1>1, EnterLessonShape
<1>4. Straight(p, i, at) => q.li = i /\ q.si = at
  BY <1>1, EnterLessonShape
<1>5. i >= 1 /\ i <= LastLesson /\ ~LedPast(p, i) => q.li = i
  BY <1>1, EnterLessonShape
<1> QED
  BY <1>2, <1>3, <1>4, <1>5 DEF Opened

LEMMA OpenFromShape ==
    ASSUME NEW p \in Pages, p.passed \subseteq page.passed,
           NEW direction \in {1, -1}, NEW i \in 0..(LastLesson + 1), i = 0 => Valid(p),
           direction = -1 => i <= LastLesson, NEW at \in Int,
           EndTask(EnterLesson(p, i, at, direction))
    PROVE  Valid(page') /\ ~page'.entry /\ OneNew(page.passed, page'.passed)
<1> DEFINE q == EnterLesson(p, i, at, direction)
<1> HIDE DEF q
<1>4. q = EnterLesson(p, i, at, direction)
  BY DEF q
<1>5. Opened(p, q)
  BY <1>4, EnterLessonShape
<1>1. Valid(q) /\ q.passed = p.passed
  BY <1>5 DEF Opened
<1>2. OneNew(page.passed, q.passed) /\ q.passed \subseteq page.passed
  BY <1>1 DEF OneNew
<1>3. EndTask(q)
  BY DEF q
<1> QED
  BY <1>1, <1>2, <1>3, EndTaskShape

LEMMA OpenShape ==
    ASSUME NEW p, Valid(p), p.passed \subseteq page.passed,
           NEW direction \in {1, -1}, NEW i \in 0..(LastLesson + 1),
           direction = -1 => i <= LastLesson, NEW at \in Int,
           EndTask(EnterLesson(p, i, at, direction))
    PROVE  Valid(page') /\ ~page'.entry /\ OneNew(page.passed, page'.passed)
<1>1. p \in Pages
  BY DEF Valid
<1> QED
  BY <1>1, OpenFromShape

LEMMA OfferShape ==
    ASSUME NEW p, Valid(p), ~p.entry, NEW ev \in Events
    PROVE  LET q == Offer(p, ev)
           IN  /\ Valid(q) /\ ~q.entry
               /\ p.serial => q = p
               /\ ~p.serial => \/ q.passed = p.passed
                               \/ q.serial /\ OneNew(p.passed, q.passed)
<1> DEFINE q == Offer(p, ev)
           parts == p.parts \cup (ev.fit \cap Fits(p, ev.kind))
           armed == p.armed \/ (ev.kind = "key" /\ ev.fit \cap ByKey # {})
<1>1. CASE ~StillOpen(p)
  <2>1. q = p
    BY <1>1 DEF Offer
  <2> QED BY <2>1
<1>2. CASE StillOpen(p) /\ parts = OpenStep(p).checks
  <2>1. q = PassStep(p)
    BY <1>2 DEF Offer
  <2>2. InStep(p) /\ ~p.serial
    BY <1>2 DEF StillOpen
  <2>3. Valid(q) /\ q.passed = p.passed \cup {<<p.li, p.si>>} /\ q.serial /\ ~q.entry
    <3> HIDE DEF q
    <3> QED BY <2>1, <2>2, PassStepShape
  <2> HIDE DEF q
  <2>4. OneNew(p.passed, q.passed)
    <3>1. q.passed \ p.passed \subseteq {<<p.li, p.si>>}
      BY <2>3
    <3> QED BY <3>1 DEF OneNew
  <2> QED BY <2>2, <2>3, <2>4 DEF q
<1>3. CASE StillOpen(p) /\ parts # OpenStep(p).checks
  <2>1. q = [p EXCEPT !.parts = parts, !.armed = armed]
    BY <1>3 DEF Offer, Valid, Pages
  <2>2. InStep(p) /\ ~p.serial /\ p \in Pages
    BY <1>3 DEF StillOpen, Valid
  <2>3. OpenStep(p).checks \in SUBSET CheckTypes
    BY <2>2, InStepAt, TableType DEF OpenStep
  <2>4. parts \subseteq OpenStep(p).checks
    BY <2>2 DEF Fits, Valid, Shape
  <2>5. armed \in BOOLEAN
    BY <2>2 DEF Pages
  <2> HIDE DEF q, parts, armed
  <2>6. /\ q \in Pages /\ ~q.entry /\ q.passed = p.passed /\ SamePlace(p, q) /\ q.rec = p.rec
        /\ q.parts = parts /\ q.up = p.up /\ q.asked = p.asked
        /\ q.hold = p.hold /\ q.out = p.out
    BY <2>1, <2>2, <2>3, <2>4, <2>5 DEF Pages, SamePlace
  <2>7. Shape(q)
    BY <2>2, <2>4, <2>6 DEF Valid, Shape, SamePlace, InStep, OpenStep, Checking
  <2> QED BY <2>2, <2>6, <2>7 DEF Valid, q
<1> QED
  BY <1>1, <1>2, <1>3

-----------------------------------------------------------------------------
(***************************************************************************)
(* The inductive invariant: the runner has its shape, no step is left      *)
(* waiting to be asked once, nothing is open before consent has settled,   *)
(* and in the middle of what the viewer reports nothing has been passed    *)
(* yet, or one step has and the rest of the report counts for no step.     *)
(***************************************************************************)
TaskTypes ==
    /\ boot \in {"new", "waiting", "resume", "fresh", "over"} /\ wanted \in {"nothing"} \cup Wants
    /\ task \in {<<>>} \cup {<<before>> : before \in SUBSET StepsOf(Table)}

\* Before consent has settled nothing is open, and nothing can be opened.
Early == boot \in {"new", "waiting"} => page.view = "idle" /\ wanted = "nothing"

RunnerInv ==
    /\ Valid(page) /\ ~page.entry
    /\ TaskTypes
    /\ Early
    /\ task # <<>> => IF page.serial THEN OneNew(task[1], page.passed) ELSE page.passed = task[1]

\* What every action does that is a whole task.
Whole == Valid(page') /\ ~page'.entry /\ OneNew(page.passed, page'.passed)

LEMMA LoadedShape ==
    ASSUME NEW record \in Records, NEW on \in SUBSET Devices
    PROVE  Valid(Loaded(record, on)) /\ ~Loaded(record, on).entry /\ Loaded(record, on).passed = {}
<1>1. 0 \in 0..LastLesson /\ CanResume(record) \in BOOLEAN
  BY TableType DEF CanResume
<1> DEFINE q == Loaded(record, on)
<1>2. q \in Pages
  BY <1>1 DEF Loaded, Pages
<1>3. /\ ~q.up /\ ~q.asked /\ ~q.hold /\ ~q.out /\ q.parts = {} /\ ~q.armed /\ ~q.entry
      /\ q.view = "idle" /\ q.passed = {}
  BY DEF Loaded
<1> HIDE DEF q
<1>4. Shape(q)
  BY <1>3 DEF Shape, InStep
<1> QED
  BY <1>2, <1>3, <1>4 DEF Valid, q

LEMMA InitRunnerInv == Init => RunnerInv
<1> SUFFICES ASSUME Init PROVE RunnerInv
  OBVIOUS
<1>1. FirstVisit \in Records
  <2>1. 0 \in 0..LastLesson
    BY TableType
  <2>2. [i \in 1..LastLesson |-> "open"] \in [1..LastLesson -> {"open", "done", "skipped"}]
    OBVIOUS
  <2>3. [q \in Questions |-> Unanswered] \in [Questions -> Answers]
    <3>1. Unanswered \in Answers
      BY DEF Answers
    <3> QED BY <3>1
  <2> QED BY <2>1, <2>2, <2>3 DEF FirstVisit, Records, Status
<1>2. Valid(page) /\ ~page.entry
  BY <1>1, LoadedShape DEF Init
<1>3. TaskTypes /\ task = <<>> /\ page.view = "idle" /\ wanted = "nothing"
  BY DEF Init, TaskTypes, Loaded
<1> QED
  BY <1>2, <1>3 DEF RunnerInv, Early

\* Passing a step does not look at the fields of a page that these change.
LEMMA DeviceStep ==
    ASSUME RunnerInv, NEW d \in Devices, ConnectDevice(d) \/ DisconnectDevice(d)
    PROVE  Whole /\ UNCHANGED <<boot, wanted>>
<1> DEFINE on == page.on \cup {d}
           off == page.on \ {d}
<1>1. page \in Pages /\ Shape(page) /\ ~page.entry /\ page.on \in SUBSET Devices
  BY DEF RunnerInv, Valid, Pages
<1>2. ASSUME NEW some \in SUBSET Devices
      PROVE  LET p == [page EXCEPT !.on = some]
             IN  Valid(p) /\ ~p.entry /\ p.passed = page.passed /\ p.rec = page.rec /\ p.li = page.li
  <2> DEFINE p == [page EXCEPT !.on = some]
  <2>1. /\ p \in Pages /\ ~p.entry /\ p.passed = page.passed /\ SamePlace(page, p) /\ p.rec = page.rec
        /\ p.parts = page.parts /\ p.armed = page.armed /\ p.up = page.up
        /\ p.asked = page.asked /\ p.hold = page.hold /\ p.out = page.out
    BY <1>1 DEF Pages, SamePlace
  <2> HIDE DEF p
  <2>2. Shape(p)
    BY <1>1, <2>1 DEF Shape, SamePlace, InStep, OpenStep, Checking
  <2> QED BY <2>1, <2>2 DEF Valid, SamePlace, p
<1>3. OneNew(page.passed, page.passed)
  BY DEF OneNew
<1>4. CASE DisconnectDevice(d)
  <2>1. page' = [page EXCEPT !.on = off] /\ off \in SUBSET Devices
    BY <1>1, <1>4 DEF DisconnectDevice
  <2>2. Valid(page') /\ ~page'.entry /\ page'.passed = page.passed
    <3> HIDE DEF off
    <3> QED BY <1>2, <2>1
  <2> QED BY <1>3, <1>4, <2>2 DEF DisconnectDevice, Whole
<1>5. CASE ConnectDevice(d)
  <2> DEFINE p == [page EXCEPT !.on = on]
  <2>1. Valid(p) /\ ~p.entry /\ p.passed = page.passed /\ p.rec = page.rec /\ p.li = page.li
    <3>1. on \in SUBSET Devices
      BY <1>1
    <3> HIDE DEF on
    <3> QED BY <1>2, <3>1
  <2>2. EndTask(
            IF p.view = "lesson" /\ p.phase = "blocked" /\ Met(p, Table[p.li].needs)
              THEN EnterLesson(p, p.li, p.rec.step, 1)
            ELSE IF Checking(p, "device") /\ OpenStep(p).about = {d} THEN PassStep(p)
            ELSE p) /\ UNCHANGED <<boot, wanted>>
    BY <1>5 DEF ConnectDevice
  <2> HIDE DEF p
  <2>3. p.li \in 0..(LastLesson + 1) /\ p.rec.step \in Int
    <3>1. p \in Pages /\ p.rec \in Records /\ LastLesson \in Nat
      BY <2>1, TableType DEF Valid, Pages
    <3> QED BY <3>1 DEF Pages, Records
  <2>4. CASE p.view = "lesson" /\ p.phase = "blocked" /\ Met(p, Table[p.li].needs)
    BY <2>1, <2>2, <2>3, <2>4, OpenShape DEF Whole
  <2>5. CASE /\ ~ (p.view = "lesson" /\ p.phase = "blocked" /\ Met(p, Table[p.li].needs))
             /\ Checking(p, "device") /\ OpenStep(p).about = {d}
    <3>1. EndTask(PassStep(p)) /\ InStep(p)
      BY <2>2, <2>5 DEF Checking
    <3> QED BY <2>1, <2>2, <3>1, PassShape DEF Whole
  <2>6. CASE /\ ~ (p.view = "lesson" /\ p.phase = "blocked" /\ Met(p, Table[p.li].needs))
             /\ ~ (Checking(p, "device") /\ OpenStep(p).about = {d})
    <3>1. EndTask(p)
      BY <2>2, <2>6
    <3> QED BY <1>3, <2>1, <2>2, <3>1, EndTaskShape DEF Whole
  <2> QED BY <2>4, <2>5, <2>6
<1> QED
  BY <1>4, <1>5

\* A page in a lesson is in one of the table's.
LEMMA InLessonAt ==
    ASSUME RunnerInv, page.view = "lesson"
    PROVE  /\ page.li \in 1..LastLesson /\ LastLesson \in Nat
           /\ page.li + 1 \in 0..(LastLesson + 1) /\ page.li - 1 \in 0..(LastLesson + 1)
           /\ page.li - 1 <= LastLesson /\ page.li \in 0..(LastLesson + 1)
<1>1. page.li \in 0..LastLesson /\ page.li # 0 /\ LastLesson \in Nat
  BY TableType DEF RunnerInv, Valid, Shape, Pages
<1> QED
  BY <1>1

LEMMA SkipLessonStep ==
    ASSUME RunnerInv, SkipLesson
    PROVE  Whole /\ UNCHANGED <<boot, wanted>>
<1> DEFINE lessons == [page.rec.lessons EXCEPT ![page.li] =
                         IF page.rec.lessons[page.li] = "done" THEN "done" ELSE "skipped"]
           rec == [page.rec EXCEPT !.lessons = lessons]
           p == [page EXCEPT !.rec = rec]
<1>1. page \in Pages /\ Shape(page) /\ page.rec \in Records
  BY DEF RunnerInv, Valid, Pages
<1>2. page.li \in 1..LastLesson /\ page.li + 1 \in 0..(LastLesson + 1)
  BY InLessonAt DEF SkipLesson
<1>3. p = SkippedLesson(page)
  BY <1>1, <1>2 DEF SkippedLesson, Pages, Records
<1>4. lessons \in [1..LastLesson -> {"open", "done", "skipped"}]
  BY <1>1 DEF Records
<1> HIDE DEF lessons
<1>5. /\ rec \in Records /\ rec.lesson = page.rec.lesson /\ rec.step = page.rec.step
      /\ rec.status = page.rec.status
  BY <1>1, <1>4 DEF Records
<1> HIDE DEF rec
<1>6. /\ p \in Pages /\ p.passed = page.passed /\ SamePlace(page, p) /\ p.rec = rec
      /\ p.parts = page.parts /\ p.armed = page.armed /\ p.up = page.up
      /\ p.asked = page.asked /\ p.hold = page.hold /\ p.out = page.out /\ p.entry = page.entry
  BY <1>1, <1>5 DEF Pages, SamePlace
<1> HIDE DEF p
<1>7. Shape(p)
  BY <1>1, <1>5, <1>6 DEF Shape, SamePlace, InStep, OpenStep, Checking
<1>8. EndTask(EnterLesson(p, page.li + 1, FirstStep, 1)) /\ UNCHANGED <<boot, wanted>>
  BY <1>3 DEF SkipLesson, Button
<1> QED
  BY <1>2, <1>6, <1>7, <1>8, OpenShape DEF Valid, Whole, FirstStep

LEMMA ContinueStep ==
    ASSUME RunnerInv, Continue
    PROVE  Whole /\ UNCHANGED <<boot, wanted>>
<1>1. Valid(page) /\ ~page.entry /\ page \in Pages /\ OneNew(page.passed, page.passed) /\ page.view = "lesson"
  BY DEF RunnerInv, Valid, OneNew, Continue
<1>2. CASE Next_Done
  <2>1. page.li + 1 \in 0..(LastLesson + 1)
    BY <1>1, InLessonAt
  <2> QED BY <1>1, <1>2, <2>1, OpenShape DEF Next_Done, Button, Whole, FirstStep
<1>3. CASE Next_Blocked
  BY <1>3, SkipLessonStep DEF Next_Blocked
<1>4. CASE Next_Passed \/ Next_Proceed
  BY <1>1, <1>4, PassShape DEF Next_Passed, Next_Proceed, Button, Whole
<1>5. CASE Next_Example
  <2> DEFINE frames == page.frames - 1
             p == [page EXCEPT !.frames = frames]
  <2>1. frames \in Nat
    <3>1. page.frames \in Nat /\ page.frames > 0
      BY <1>1, <1>5 DEF Pages, Next_Example
    <3> QED BY <3>1
  <2>2. EndTask(p) /\ UNCHANGED <<boot, wanted>>
    BY <1>1, <1>5 DEF Next_Example, Button
  <2> HIDE DEF frames
  <2>3. /\ p \in Pages /\ p.passed = page.passed /\ SamePlace(page, p) /\ p.rec = page.rec
        /\ p.parts = page.parts /\ p.armed = page.armed /\ p.up = page.up
        /\ p.asked = page.asked /\ p.hold = page.hold /\ p.out = page.out /\ p.entry = page.entry
    BY <1>1, <2>1 DEF Pages, SamePlace
  <2> HIDE DEF p
  <2>4. Shape(p)
    BY <1>1, <2>3 DEF Valid, Shape, SamePlace, InStep, OpenStep, Checking
  <2> QED BY <1>1, <2>2, <2>3, <2>4, EndTaskShape DEF Valid, Whole
<1> QED
  BY <1>2, <1>3, <1>4, <1>5 DEF Continue

LEMMA PassButtons ==
    ASSUME RunnerInv, SkipStep \/ ShowMe
    PROVE  Whole /\ UNCHANGED <<boot, wanted>>
<1>1. Valid(page)
  BY DEF RunnerInv
<1> QED
  BY <1>1, PassShape DEF SkipStep, ShowMe, Shows, Button, Whole

LEMMA BackStep ==
    ASSUME RunnerInv, Back
    PROVE  Whole /\ UNCHANGED <<boot, wanted>>
<1> DEFINE steps == IF page.phase = "blocked" THEN {} ELSE ApplicableSteps(page, page.li)
           before == IF page.phase = "done" THEN steps
                     ELSE {k \in steps : k < page.si /\ page.si \in steps}
           n == Len(Table[page.li].steps)
<1>1. /\ page.view = "lesson"
      /\ Button(IF before # {} THEN EnterStep(page, Max(before))
                ELSE EnterLesson(page, page.li - 1, FinalStep, -1))
  BY DEF Back
<1>2. Valid(page) /\ page \in Pages
  BY DEF RunnerInv, Valid
<1>3. /\ page.li \in 1..LastLesson /\ page.li - 1 \in 0..(LastLesson + 1)
      /\ page.li - 1 <= LastLesson
  BY <1>1, InLessonAt
<1>4. n \in Nat /\ DOMAIN Table[page.li].steps = 1..n
  BY <1>3, TableType
<1>5. before \subseteq DOMAIN Table[page.li].steps
  BY DEF ApplicableSteps
<1> HIDE DEF before, n
<1>6. CASE before # {}
  <2> DEFINE k == Max(before)
             q == EnterStep(page, k)
  <2>1. before \in SUBSET (0..n)
    BY <1>4, <1>5
  <2>2. k \in DOMAIN Table[page.li].steps
    BY <1>4, <1>5, <1>6, <2>1, GreatestOf
  <2> HIDE DEF k
  <2>3. Valid(q) /\ SameRest(page, q)
    BY <1>1, <1>2, <1>3, <2>2, EnterStepShape
  <2>4. EndTask(q) /\ UNCHANGED <<boot, wanted>>
    BY <1>1, <1>6 DEF Button, k
  <2> HIDE DEF q
  <2> QED BY <2>3, <2>4, EndTaskShape DEF SameRest, OneNew, Whole
<1>7. CASE before = {}
  <2>1. EndTask(EnterLesson(page, page.li - 1, FinalStep, -1)) /\ UNCHANGED <<boot, wanted>>
    BY <1>1, <1>7 DEF Button
  <2> QED BY <1>2, <1>3, <2>1, OpenShape DEF Whole, FinalStep
<1> QED
  BY <1>6, <1>7

LEMMA RestartStep ==
    ASSUME RunnerInv, RestartLesson
    PROVE  Whole /\ UNCHANGED <<boot, wanted>>
<1>1. Valid(page) /\ page.li \in 0..(LastLesson + 1)
  BY InLessonAt DEF RunnerInv, RestartLesson
<1> QED
  BY <1>1, OpenShape DEF RestartLesson, Button, Whole, FirstStep

LEMMA ChooseStep ==
    ASSUME RunnerInv, NEW value \in Answers, Choose(value)
    PROVE  Whole /\ UNCHANGED <<boot, wanted>>
<1> DEFINE question == OpenStep(page).stores
           answers == [page.rec.answers EXCEPT ![question] = value]
           rec == [page.rec EXCEPT !.answers = answers]
           p == [page EXCEPT !.rec = rec]
<1>1. page \in Pages /\ Valid(page) /\ Shape(page) /\ page.rec \in Records /\ InStep(page)
  BY DEF RunnerInv, Valid, Pages, Choose, Checking
<1>2. CASE question = Unkept
  BY <1>1, <1>2, PassShape DEF Choose, Button, Whole
<1>3. CASE question # Unkept
  <2>1. EndTask(PassStep([page EXCEPT !.rec.answers[question] = value])) /\ UNCHANGED <<boot, wanted>>
    BY <1>3 DEF Choose, Button
  <2>2. p = [page EXCEPT !.rec.answers[question] = value]
    <3> HIDE DEF question
    <3> QED BY <1>1 DEF Pages, Records
  <2>3. answers \in [Questions -> Answers]
    <3> HIDE DEF question
    <3> QED BY <1>1 DEF Records
  <2>4. EndTask(PassStep(p))
    BY <2>1, <2>2
  <2> HIDE DEF answers, question
  <2>5. /\ rec \in Records /\ rec.lesson = page.rec.lesson /\ rec.step = page.rec.step
        /\ rec.status = page.rec.status
    BY <1>1, <2>3 DEF Records
  <2> HIDE DEF rec
  <2>6. /\ p \in Pages /\ p.passed = page.passed /\ SamePlace(page, p) /\ p.rec = rec
        /\ p.parts = page.parts /\ p.armed = page.armed /\ p.up = page.up
        /\ p.asked = page.asked /\ p.hold = page.hold /\ p.out = page.out /\ p.entry = page.entry
    BY <1>1, <2>5 DEF Pages, SamePlace
  <2> HIDE DEF p
  <2>7. Shape(p) /\ InStep(p)
    BY <1>1, <2>5, <2>6 DEF Shape, SamePlace, InStep, OpenStep, Checking
  <2> QED BY <2>1, <2>4, <2>6, <2>7, PassShape DEF Valid, Whole
<1> QED
  BY <1>2, <1>3

\* The test pattern's own fields, in its step.
LEMMA PatternFields ==
    ASSUME NEW p \in Pages, Shape(p), Checking(p, "test_pattern"), NEW q \in Pages,
           SamePlace(p, q), q.rec = p.rec, q.parts = p.parts, q.armed = p.armed,
           q.entry = p.entry
    PROVE  Valid(q) /\ InStep(q)
  BY DEF Valid, Shape, SamePlace, InStep, OpenStep, Checking

LEMMA AnswerPatternStep ==
    ASSUME RunnerInv, NEW correct \in BOOLEAN, AnswerPattern(correct)
    PROVE  Whole /\ UNCHANGED <<boot, wanted>>
<1> DEFINE right == IF correct THEN page.right + 1 ELSE 0
           p == [page EXCEPT !.asked = FALSE, !.right = right]
           q == NextTestPatternRound(p)
<1>1. page \in Pages /\ Shape(page) /\ page.up /\ ~page.entry /\ OneNew(page.passed, page.passed)
  BY DEF RunnerInv, Valid, AnswerPattern, OneNew
<1>2. right \in Nat
  BY <1>1 DEF Pages
<1>3. EndTask(IF p.right >= 2 THEN PassStep(p) ELSE q) /\ UNCHANGED <<boot, wanted>>
  BY <1>1 DEF AnswerPattern, Button, Pages
<1> HIDE DEF right
<1>4. /\ p \in Pages /\ p.passed = page.passed /\ SamePlace(page, p) /\ p.rec = page.rec
      /\ p.parts = page.parts /\ p.armed = page.armed /\ p.entry = page.entry
  BY <1>1, <1>2 DEF Pages, SamePlace
<1>5. Checking(page, "test_pattern")
  BY <1>1 DEF Shape
<1> HIDE DEF p
<1>6. CASE p.right >= 2
  <2>1. Valid(p) /\ InStep(p)
    BY <1>1, <1>4, <1>5, PatternFields
  <2> QED BY <1>3, <1>4, <1>6, <2>1, PassShape DEF Whole
<1>7. CASE ~(p.right >= 2)
  <2>1. EndTask(q)
    BY <1>3, <1>7
  <2>2. /\ q \in Pages /\ SamePlace(p, q) /\ SameRest(p, q) /\ q.rec = p.rec
        /\ q.parts = p.parts /\ q.armed = p.armed /\ q.entry = p.entry
    BY <1>4, NextRoundKeeps
  <2> HIDE DEF q
  <2>3. Valid(q)
    BY <1>1, <1>4, <1>5, <2>2, PatternFields DEF SamePlace
  <2> QED BY <1>1, <1>3, <1>4, <2>1, <2>2, <2>3, EndTaskShape DEF SameRest, Whole
<1> QED
  BY <1>6, <1>7

LEMMA PatternAnswerStep ==
    ASSUME RunnerInv, NEW ok \in BOOLEAN, PatternArrives(ok) \/ LatePatternArrives(ok)
    PROVE  Whole /\ UNCHANGED <<boot, wanted>>
<1>1. page \in Pages /\ Shape(page) /\ ~page.entry /\ OneNew(page.passed, page.passed)
  BY DEF RunnerInv, Valid, OneNew
<1>2. CASE PatternArrives(ok)
  <2> DEFINE p == [page EXCEPT !.out = FALSE]
             q == Drawn(p, ok)
  <2>1. page.out /\ EndTask(q) /\ UNCHANGED <<boot, wanted>>
    BY <1>2 DEF PatternArrives, Button
  <2>2. /\ p \in Pages /\ p.passed = page.passed /\ SamePlace(page, p) /\ p.rec = page.rec
        /\ p.parts = page.parts /\ p.armed = page.armed /\ p.entry = page.entry
    BY <1>1 DEF Pages, SamePlace
  <2> HIDE DEF p
  <2>3. /\ q \in Pages /\ q.passed = p.passed /\ SamePlace(p, q) /\ q.rec = p.rec
        /\ q.parts = p.parts /\ q.armed = p.armed /\ q.entry = p.entry
    BY <2>2 DEF Drawn, Pages, SamePlace
  <2>4. Checking(page, "test_pattern")
    BY <1>1, <2>1 DEF Shape
  <2> HIDE DEF q
  <2>5. Valid(q)
    BY <1>1, <2>2, <2>3, <2>4, PatternFields DEF SamePlace
  <2> QED BY <1>1, <2>1, <2>2, <2>3, <2>5, EndTaskShape DEF Whole
<1>3. CASE LatePatternArrives(ok)
  <2> DEFINE p == [page EXCEPT !.late = FALSE]
  <2>1. EndTask(p) /\ UNCHANGED <<boot, wanted>>
    BY <1>3 DEF LatePatternArrives, DropLate, Button
  <2>2. /\ p \in Pages /\ p.passed = page.passed /\ SamePlace(page, p) /\ p.rec = page.rec
        /\ p.parts = page.parts /\ p.armed = page.armed /\ p.up = page.up
        /\ p.asked = page.asked /\ p.hold = page.hold /\ p.out = page.out /\ p.entry = page.entry
    BY <1>1 DEF Pages, SamePlace
  <2> HIDE DEF p
  <2>3. Shape(p)
    BY <1>1, <2>2 DEF Shape, SamePlace, InStep, OpenStep, Checking
  <2> QED BY <1>1, <2>1, <2>2, <2>3, EndTaskShape DEF Valid, Whole
<1> QED
  BY <1>2, <1>3

BootTypes == boot' \in {"new", "waiting", "resume", "fresh", "over"} /\ wanted' \in {"nothing"} \cup Wants

LEMMA PageUnchanged ==
    ASSUME RunnerInv, UNCHANGED page
    PROVE  Whole
  BY DEF RunnerInv, Whole, OneNew

\* All that changes is in the record, and in a lesson it is neither the place to
\* resume at nor how far the tutorial is.
LEMMA RecordFields ==
    ASSUME NEW p, Valid(p), NEW rec \in Records,
           rec.lesson = p.rec.lesson, rec.step = p.rec.step,
           rec.status = p.rec.status \/ p.view # "lesson",
           NEW q, q = [p EXCEPT !.rec = rec]
    PROVE  /\ Valid(q) /\ q.passed = p.passed /\ q.entry = p.entry /\ q.on = p.on
           /\ q.rec = rec /\ q.view = p.view
<1>1. p \in Pages /\ Shape(p)
  BY DEF Valid
<1>2. /\ q \in Pages /\ q.passed = p.passed /\ SamePlace(p, q) /\ q.rec = rec
      /\ q.parts = p.parts /\ q.armed = p.armed /\ q.up = p.up
      /\ q.asked = p.asked /\ q.hold = p.hold /\ q.out = p.out /\ q.entry = p.entry
      /\ q.on = p.on
  BY <1>1 DEF Pages, SamePlace
<1>3. Shape(q)
  BY <1>1, <1>2 DEF Shape, SamePlace, InStep, OpenStep, Checking
<1> QED
  BY <1>2, <1>3 DEF Valid, SamePlace

\* What is kept of the place to resume at, and what was answered.
SameRecord(r, s) == r.lesson = s.lesson /\ r.step = s.step /\ r.answers = s.answers

\* The record's origin alone: where a run began.
LEMMA OriginShape ==
    ASSUME NEW p, Valid(p), NEW origin \in {"unset", "first-run", "help"},
           NEW q, q = [p EXCEPT !.rec.origin = origin]
    PROVE  /\ Valid(q) /\ q.passed = p.passed /\ q.entry = p.entry /\ q.on = p.on
           /\ SameRecord(q.rec, p.rec) /\ q.view = p.view
<1> DEFINE rec == [p.rec EXCEPT !.origin = origin]
<1>1. p.rec \in Records
  BY DEF Valid, Pages
<1>2. /\ rec \in Records /\ rec.lesson = p.rec.lesson /\ rec.step = p.rec.step
      /\ rec.status = p.rec.status /\ rec.answers = p.rec.answers
  BY <1>1 DEF Records
<1> DEFINE o == [p EXCEPT !.rec = rec]
<1>3. q = o
  BY DEF Valid, Pages
<1> HIDE DEF rec
<1>5. /\ Valid(o) /\ o.passed = p.passed /\ o.entry = p.entry /\ o.on = p.on
      /\ o.rec = rec /\ o.view = p.view
  BY <1>2, RecordFields
<1> HIDE DEF o
<1>4. /\ Valid(q) /\ q.passed = p.passed /\ q.entry = p.entry /\ q.on = p.on
      /\ q.rec = rec /\ q.view = p.view
  BY <1>3, <1>5
<1> QED
  BY <1>2, <1>4 DEF SameRecord

LEMMA FromMenuShape ==
    ASSUME NEW p, Valid(p), NEW q, q = FromMenu(p)
    PROVE  /\ Valid(q) /\ q.passed = p.passed /\ q.on = p.on
           /\ SameRecord(q.rec, p.rec)
<1>1. q = p \/ q = [p EXCEPT !.rec.origin = "help"]
  BY DEF FromMenu
<1>2. CASE q = p
  BY <1>2 DEF SameRecord
<1>3. CASE q = [p EXCEPT !.rec.origin = "help"]
  BY <1>3, OriginShape
<1> QED
  BY <1>1, <1>2, <1>3

LEMMA RecordAt ==
    ASSUME NEW p, Valid(p)
    PROVE  /\ p.rec.lesson \in 0..(LastLesson + 1) /\ p.rec.step \in Int
           /\ p.rec.status \in Status /\ p.rec.origin \in {"unset", "first-run", "help"}
<1>1. p.rec \in Records /\ LastLesson \in Nat
  BY TableType DEF Valid, Pages
<1> QED
  BY <1>1 DEF Records

\* How the tutorial starts by itself, if it does.
LEMMA ScheduledIs ==
    ASSUME NEW rec, NEW param
    PROVE  Scheduled(rec, param) \in {"resume", "fresh", "over"}
  BY DEF Scheduled

LEMMA SettleStep ==
    ASSUME RunnerInv, NEW decided \in BOOLEAN, NEW param \in Params, Settle(decided, param)
    PROVE  Whole /\ BootTypes
<1>1. /\ Valid(page) /\ ~page.entry /\ page.rec \in Records /\ page.view = "idle"
      /\ wanted \in {"nothing"} \cup Wants /\ OneNew(page.passed, page.passed)
  BY DEF RunnerInv, TaskTypes, Valid, Pages, OneNew, Settle, Early
<1>2. BootTypes
  BY <1>1, ScheduledIs DEF Settle, BootTypes
<1>3. CASE UNCHANGED page
  BY <1>2, <1>3, PageUnchanged
<1>4. CASE page' = [page EXCEPT !.rec.status = "offered"]
  <2> DEFINE rec == [page.rec EXCEPT !.status = "offered"]
  <2>1. rec \in Records /\ rec.lesson = page.rec.lesson /\ rec.step = page.rec.step
    BY <1>1 DEF Records, Status
  <2>2. page' = [page EXCEPT !.rec = rec]
    BY <1>4
  <2> HIDE DEF rec
  <2>3. page.view # "lesson"
    BY <1>1
  <2>4. Valid(page') /\ page'.passed = page.passed /\ page'.entry = page.entry
    BY <1>1, <2>1, <2>2, <2>3, RecordFields
  <2> QED BY <1>1, <1>2, <2>4 DEF Whole
<1> QED
  BY <1>3, <1>4 DEF Settle

\* A tutorial that opens by itself opens a lesson of the table.
LEMMA StartedAtLoadOpens ==
    ASSUME NEW p, Valid(p), NEW how \in {"resume", "fresh"}
    PROVE  \E q, i, at :
             /\ Valid(q) /\ q.passed = p.passed /\ q.on = p.on /\ SameRecord(q.rec, p.rec)
             /\ i \in 0..(LastLesson + 1) /\ at \in Int
             /\ StartedAtLoad(p, how) = EnterLesson(q, i, at, 1)
             /\ how = "resume" /\ p.rec.lesson # 0 => i = p.rec.lesson /\ at = p.rec.step
<1> DEFINE origin == IF how = "fresh" \/ p.rec.origin = "unset" THEN "first-run" ELSE p.rec.origin
           q == [p EXCEPT !.rec.origin = origin]
           i == IF how = "fresh" \/ p.rec.lesson = 0 THEN 1 ELSE p.rec.lesson
           at == IF how = "fresh" THEN FirstStep ELSE p.rec.step
<1>1. origin \in {"unset", "first-run", "help"}
  BY RecordAt
<1>2. i \in 0..(LastLesson + 1) /\ at \in Int
  BY RecordAt, TableType DEF FirstStep
<1>3. StartedAtLoad(p, how) = EnterLesson(q, i, at, 1)
  <2>1. q = [p EXCEPT !.rec.origin = IF how = "fresh" \/ p.rec.origin = "unset"
                                     THEN "first-run" ELSE @]
    BY DEF Valid, Pages, Records
  <2>2. StartedAtLoad(p, how) =
          IF how = "fresh" THEN EnterLesson(q, 1, FirstStep, 1)
          ELSE EnterLesson(q, IF p.rec.lesson = 0 THEN 1 ELSE p.rec.lesson, p.rec.step, 1)
    BY <2>1 DEF StartedAtLoad
  <2> HIDE DEF q
  <2> QED BY <2>2
<1>4. how = "resume" /\ p.rec.lesson # 0 => i = p.rec.lesson /\ at = p.rec.step
  OBVIOUS
<1> HIDE DEF origin, i, at
<1>5. Valid(q) /\ q.passed = p.passed /\ q.on = p.on /\ SameRecord(q.rec, p.rec)
  BY <1>1, OriginShape
<1> HIDE DEF q
<1> QED
  BY <1>2, <1>3, <1>4, <1>5

LEMMA StartSteps ==
    ASSUME RunnerInv, Start \/ StartFails \/ \E what \in Wants : Ask(what)
    PROVE  Whole /\ BootTypes
<1>1. /\ Valid(page) /\ boot \in {"new", "waiting", "resume", "fresh", "over"}
      /\ wanted \in {"nothing"} \cup Wants
  BY DEF RunnerInv, TaskTypes
<1>2. BootTypes
  BY <1>1 DEF Start, StartFails, Ask, BootTypes
<1>3. CASE UNCHANGED page
  BY <1>2, <1>3, PageUnchanged
<1>4. CASE boot \in {"resume", "fresh"} /\ EndTask(StartedAtLoad(page, boot))
  <2>1. PICK q, i, at :
             /\ Valid(q) /\ q.passed = page.passed /\ q.on = page.on /\ SameRecord(q.rec, page.rec)
             /\ i \in 0..(LastLesson + 1) /\ at \in Int
             /\ StartedAtLoad(page, boot) = EnterLesson(q, i, at, 1)
             /\ boot = "resume" /\ page.rec.lesson # 0 => i = page.rec.lesson /\ at = page.rec.step
    BY <1>1, <1>4, StartedAtLoadOpens
  <2>2. EndTask(EnterLesson(q, i, at, 1)) /\ q.passed \subseteq page.passed
    BY <1>4, <2>1
  <2> QED BY <1>2, <2>1, <2>2, OpenShape DEF Whole
<1> QED
  BY <1>3, <1>4 DEF Start, StartFails, Ask

LEMMA ResumedStep ==
    ASSUME RunnerInv, EndTask(Resumed(page))
    PROVE  Whole
<1> DEFINE p == FromMenu(page)
<1>1. Valid(page)
  BY DEF RunnerInv
<1>2. Valid(p) /\ p.passed = page.passed
  BY <1>1, FromMenuShape
<1>3. EndTask(EnterLesson(p, page.rec.lesson, page.rec.step, 1))
  BY DEF Resumed
<1> HIDE DEF p
<1> QED
  BY <1>1, <1>2, <1>3, RecordAt, OpenShape DEF Whole

LEMMA StartedOverStep ==
    ASSUME RunnerInv, EndTask(StartedOver(page))
    PROVE  Whole
<1> DEFINE rec == [page.rec EXCEPT
               !.lesson = 0, !.step = 1,
               !.lessons = [i \in 1..LastLesson |-> "open"],
               !.answers = [question \in Questions |-> Unanswered],
               !.status = IF @ = "completed" THEN "in-progress" ELSE @]
           o == [page EXCEPT !.passed = {}, !.rec = rec]
           help == [rec EXCEPT !.origin = "help"]
           q == FromMenu(o)
<1>1. page \in Pages /\ page.rec \in Records
  BY DEF RunnerInv, Valid, Pages
<1>2. rec \in Records
  <2>1. 0 \in 0..LastLesson /\ Unanswered \in Answers
    BY TableType DEF Answers
  <2>2. /\ [i \in 1..LastLesson |-> "open"] \in [1..LastLesson -> {"open", "done", "skipped"}]
        /\ [question \in Questions |-> Unanswered] \in [Questions -> Answers]
    BY <2>1
  <2> QED BY <1>1, <2>1, <2>2 DEF Records, Status
<1>3. o = [page EXCEPT !.passed = {}, !.rec.lesson = 0, !.rec.step = 1,
             !.rec.lessons = [i \in 1..LastLesson |-> "open"],
             !.rec.answers = [question \in Questions |-> Unanswered],
             !.rec.status = IF @ = "completed" THEN "in-progress" ELSE @]
  BY <1>1 DEF Pages, Records
<1>4. EndTask(EnterLesson(q, 1, FirstStep, 1))
  <2> HIDE DEF o
  <2> QED BY <1>3 DEF StartedOver
<1> HIDE DEF rec
<1>5. o \in Pages /\ o.passed = {} /\ o.rec = rec
  BY <1>1, <1>2 DEF Pages
<1> HIDE DEF o
<1>6. help \in Records
  BY <1>2 DEF Records
<1>7. q = o \/ q = [o EXCEPT !.rec = help]
  BY <1>5 DEF FromMenu
<1> HIDE DEF help, q
<1>8. q \in Pages /\ q.passed = {}
  BY <1>5, <1>6, <1>7 DEF Pages
<1>9. 1 \in 0..(LastLesson + 1) /\ FirstStep \in Int /\ 1 # 0
  BY TableType DEF FirstStep
<1> QED
  BY <1>4, <1>8, <1>9, OpenFromShape DEF Whole

LEMMA MenuSteps ==
    ASSUME RunnerInv, (\E i \in 1..LastLesson : StartFromMenu(i)) \/ Resume \/ StartOver
    PROVE  Whole /\ UNCHANGED <<boot, wanted>>
<1>1. CASE \E i \in 1..LastLesson : StartFromMenu(i)
  <2> DEFINE p == FromMenu(page)
  <2>1. PICK i \in 1..LastLesson : StartFromMenu(i)
    BY <1>1
  <2> DEFINE at == IF Resumable(page, i) THEN page.rec.step ELSE FirstStep
  <2>2. Valid(page)
    BY DEF RunnerInv
  <2>3. Valid(p) /\ p.passed = page.passed
    BY <2>2, FromMenuShape
  <2>4. at \in Int /\ i \in 0..(LastLesson + 1)
    BY <2>2, RecordAt, TableType DEF FirstStep
  <2>5. EndTask(EnterLesson(p, i, at, 1)) /\ UNCHANGED <<boot, wanted>>
    BY <2>1 DEF StartFromMenu, Button
  <2> HIDE DEF at, p
  <2> QED BY <2>3, <2>4, <2>5, OpenShape DEF Whole
<1>2. CASE Resume
  BY <1>2, ResumedStep DEF Resume, Button
<1>3. CASE StartOver
  BY <1>3, StartedOverStep DEF StartOver, Button
<1> QED
  BY <1>1, <1>2, <1>3

LEMMA ShowMenuStep ==
    ASSUME RunnerInv, ShowMenu
    PROVE  Whole
<1> DEFINE p == Nowhere(page, "menu")
<1>1. page \in Pages
  BY DEF RunnerInv, Valid
<1>2. Valid(p) /\ SameRest(page, p) /\ ~p.entry /\ p.view = "menu"
  BY <1>1, NowhereShape
<1>3. page' = [p EXCEPT !.serial = FALSE]
  BY DEF ShowMenu
<1> HIDE DEF p
<1>4. /\ page' \in Pages /\ page'.passed = p.passed /\ SamePlace(p, page') /\ page'.rec = p.rec
      /\ page'.parts = p.parts /\ page'.armed = p.armed /\ page'.up = p.up
      /\ page'.asked = p.asked /\ page'.hold = p.hold /\ page'.out = p.out /\ page'.entry = p.entry
  BY <1>2, <1>3 DEF Valid, Pages, SamePlace
<1>5. Shape(page')
  BY <1>2, <1>4 DEF Valid, Shape, SamePlace, InStep, OpenStep, Checking
<1> QED
  BY <1>2, <1>4, <1>5 DEF Valid, Whole, SameRest, OneNew

\* What waited for the lessons is done, or they did not load.
LEMMA LoadSteps ==
    ASSUME RunnerInv, OpenMenu \/ DialogResume \/ DialogStartOver \/ DoesNotLoad
    PROVE  Whole /\ BootTypes
<1>1. BootTypes
  <2>1. boot' = boot /\ wanted' = "nothing"
    BY DEF OpenMenu, DialogResume, DialogStartOver, DoesNotLoad, Loads
  <2> QED BY <2>1 DEF RunnerInv, TaskTypes, BootTypes
<1>2. CASE ShowMenu
  BY <1>1, <1>2, ShowMenuStep
<1>3. CASE EndTask(Resumed(page))
  BY <1>1, <1>3, ResumedStep
<1>4. CASE EndTask(StartedOver(page))
  BY <1>1, <1>4, StartedOverStep
<1>5. CASE UNCHANGED page
  BY <1>1, <1>5, PageUnchanged
<1> QED
  BY <1>2, <1>3, <1>4, <1>5 DEF OpenMenu, DialogResume, DialogStartOver, DoesNotLoad

LEMMA ExitStep ==
    ASSUME RunnerInv, Exit
    PROVE  Whole /\ UNCHANGED <<boot, wanted>>
<1>1. Valid(page) /\ page \in Pages /\ page.rec \in Records /\ page.rec.status \in Status
  BY DEF RunnerInv, Valid, Pages, Records
<1>2. CASE page.run
  <2> DEFINE status == IF page.rec.status = "completed" THEN "completed" ELSE "paused"
             q == Closed(page, status)
  <2>0. q = Exited(page)
    BY <1>2 DEF Exited
  <2>1. status \in Status
    BY DEF Status
  <2>2. Button(q)
    BY <2>0 DEF Exit
  <2> HIDE DEF status
  <2>3. Valid(q) /\ q.passed = page.passed /\ ~q.entry
    BY <1>1, <2>1, ClosedShape
  <2> HIDE DEF q
  <2> QED BY <2>2, <2>3, ButtonShape DEF Whole, OneNew, Button
<1>3. CASE ~page.run
  <2> DEFINE q == Nowhere(page, "idle")
  <2>1. Button(q)
    BY <1>3 DEF Exit, Exited
  <2>2. Valid(q) /\ q.passed = page.passed /\ ~q.entry
    BY <1>1, NowhereShape DEF SameRest
  <2> HIDE DEF q
  <2> QED BY <2>1, <2>2, ButtonShape DEF Whole, OneNew, Button
<1> QED
  BY <1>2, <1>3

LEMMA ReloadStep ==
    ASSUME RunnerInv, Reload
    PROVE  Whole /\ BootTypes
<1>1. page.rec \in Records
  BY DEF RunnerInv, Valid, Pages
<1>2. page' = Loaded(page.rec, {}) /\ BootTypes
  BY DEF Reload, BootTypes
<1> QED
  BY <1>1, <1>2, LoadedShape DEF Whole, OneNew

-----------------------------------------------------------------------------
(* Every step *)

LEMMA OtherSteps ==
    ASSUME RunnerInv, Other
    PROVE  Whole /\ BootTypes
<1>1. boot \in {"new", "waiting", "resume", "fresh", "over"} /\ wanted \in {"nothing"} \cup Wants
  BY DEF RunnerInv, TaskTypes
<1>2. ASSUME Whole, UNCHANGED <<boot, wanted>> PROVE Whole /\ BootTypes
  BY <1>1, <1>2 DEF BootTypes
<1>3. CASE \E d \in Devices : ConnectDevice(d) \/ DisconnectDevice(d)
  BY <1>2, <1>3, DeviceStep
<1>4. CASE Continue
  BY <1>2, <1>4, ContinueStep
<1>5. CASE SkipStep \/ ShowMe
  BY <1>2, <1>5, PassButtons
<1>6. CASE SkipLesson
  BY <1>2, <1>6, SkipLessonStep
<1>7. CASE Back
  BY <1>2, <1>7, BackStep
<1>8. CASE RestartLesson
  BY <1>2, <1>8, RestartStep
<1>9. CASE \E value \in Answers : Choose(value)
  BY <1>2, <1>9, ChooseStep
<1>10. CASE \E yes \in BOOLEAN : AnswerPattern(yes)
  BY <1>2, <1>10, AnswerPatternStep
<1>11. CASE \E yes \in BOOLEAN : PatternArrives(yes) \/ LatePatternArrives(yes)
  BY <1>2, <1>11, PatternAnswerStep
<1>12. CASE \E decided \in BOOLEAN, param \in Params : Settle(decided, param)
  BY <1>12, SettleStep
<1>16. CASE Start \/ StartFails \/ \E what \in Wants : Ask(what)
  BY <1>16, StartSteps
<1>17. CASE OpenMenu \/ DialogResume \/ DialogStartOver \/ DoesNotLoad
  BY <1>17, LoadSteps
<1>13. CASE (\E i \in 1..LastLesson : StartFromMenu(i)) \/ Resume \/ StartOver
  BY <1>2, <1>13, MenuSteps
<1>14. CASE Exit
  BY <1>2, <1>14, ExitStep
<1>15. CASE Reload
  BY <1>15, ReloadStep
<1> QED
  BY <1>3, <1>4, <1>5, <1>6, <1>7, <1>8, <1>9, <1>10, <1>11, <1>12, <1>13, <1>14, <1>15,
     <1>16, <1>17 DEF Other

\* The end of a task opens no step where none is open.
LEMMA NothingOpens ==
    ASSUME NEW p \in Pages, p.view = "idle", EndTask(p)
    PROVE  page'.view = "idle"
<1>1. AtEntry(p) = [p EXCEPT !.entry = FALSE]
  BY DEF AtEntry, Checking, InStep
<1> QED
  BY <1>1 DEF EndTask, Pages

LEMMA EarlyStep ==
    ASSUME RunnerInv, Next
    PROVE  Early'
<1> SUFFICES ASSUME boot' \in {"new", "waiting"}
             PROVE  page'.view = "idle" /\ wanted' = "nothing"
  BY DEF Early
<1>1. page \in Pages /\ Shape(page) /\ Early
  BY DEF RunnerInv, Valid, Early
<1>2. CASE Reload
  BY <1>2 DEF Reload, Loaded
<1>3. CASE ~Reload
  <2>1. boot' = boot
    <3>1. ~ \E decided \in BOOLEAN, param \in Params : Settle(decided, param)
      BY ScheduledIs DEF Settle
    <3>2. ~ (Start \/ StartFails)
      BY DEF Start, StartFails
    <3> QED
      BY <1>3, <3>1, <3>2 DEF Next, Act, Reported, ActEnds, Other, ConnectDevice, DisconnectDevice,
         Continue, Next_Done, Next_Blocked, Next_Passed, Next_Example, Next_Proceed, SkipStep,
         SkipLesson, ShowMe, Back, RestartLesson, Choose, AnswerPattern, PatternArrives,
         LatePatternArrives, Ask, OpenMenu, DialogResume, DialogStartOver, DoesNotLoad, Loads,
         StartFromMenu, Resume, StartOver, Exit, Button
  <2>2. /\ page.view = "idle" /\ wanted = "nothing" /\ ~InStep(page)
        /\ ~page.up /\ ~page.asked /\ ~page.out /\ boot \in {"new", "waiting"}
    BY <1>1, <2>1 DEF Early, InStep, Shape, Checking
  <2>3. \/ \E ev \in Events : Reported(ev)
        \/ ActEnds
        \/ \E d \in Devices : ConnectDevice(d) \/ DisconnectDevice(d)
        \/ \E ok \in BOOLEAN : LatePatternArrives(ok)
    <3>1. ~ ((\E what \in Wants : Ask(what)) \/ OpenMenu \/ DialogResume \/ DialogStartOver \/ DoesNotLoad)
      BY <2>2 DEF Ask, OpenMenu, DialogResume, DialogStartOver, DoesNotLoad, Loads, Wants
    <3>2. ~ (\E decided \in BOOLEAN, param \in Params : Settle(decided, param))
      BY <2>1, <2>2, ScheduledIs DEF Settle
    <3>3. ~ (Start \/ StartFails)
      BY <2>2 DEF Start, StartFails
    <3>4. ~ (Act \/ Continue \/ SkipStep \/ SkipLesson \/ ShowMe \/ Back \/ RestartLesson)
      BY <2>2 DEF Act, Continue, SkipStep, SkipLesson, ShowMe, Shows, Back, RestartLesson
    <3>5. ~ ((\E value \in Answers : Choose(value)) \/ \E yes \in BOOLEAN : AnswerPattern(yes) \/ PatternArrives(yes))
      BY <2>2 DEF Choose, Checking, AnswerPattern, PatternArrives
    <3>6. ~ ((\E i \in 1..LastLesson : StartFromMenu(i)) \/ Resume \/ StartOver \/ Exit)
      BY <2>2 DEF StartFromMenu, Resume, StartOver, Exit
    <3> QED
      BY <1>3, <3>1, <3>2, <3>3, <3>4, <3>5, <3>6 DEF Next, Other
  <2>4. CASE \E ev \in Events : Reported(ev)
    <3>1. PICK ev \in Events : Reported(ev)
      BY <2>4
    <3>2. Offer(page, ev) = page
      BY <2>2 DEF Offer, StillOpen
    <3> QED BY <2>2, <3>1, <3>2 DEF Reported
  <2>5. CASE ActEnds
    BY <1>1, <2>2, <2>5, NothingOpens DEF ActEnds
  <2>6. CASE \E d \in Devices : ConnectDevice(d) \/ DisconnectDevice(d)
    <3>1. PICK d \in Devices : ConnectDevice(d) \/ DisconnectDevice(d)
      BY <2>6
    <3>2. CASE DisconnectDevice(d)
      BY <1>1, <2>2, <3>2 DEF DisconnectDevice, Pages
    <3>3. CASE ConnectDevice(d)
      <4> DEFINE on == page.on \cup {d}
                 p == [page EXCEPT !.on = on]
      <4>1. on \in SUBSET Devices
        BY <1>1 DEF Pages
      <4> HIDE DEF on
      <4>2. p \in Pages /\ p.view = "idle"
        BY <1>1, <2>2, <4>1 DEF Pages
      <4>3. EndTask(IF p.view = "lesson" /\ p.phase = "blocked" /\ Met(p, Table[p.li].needs)
                      THEN EnterLesson(p, p.li, p.rec.step, 1)
                    ELSE IF Checking(p, "device") /\ OpenStep(p).about = {d} THEN PassStep(p)
                    ELSE p) /\ UNCHANGED <<boot, wanted>>
        BY <3>3 DEF ConnectDevice, on
      <4> HIDE DEF p
      <4>4. EndTask(p)
        BY <4>2, <4>3 DEF Checking, InStep
      <4> QED BY <2>2, <4>2, <4>3, <4>4, NothingOpens
    <3> QED BY <3>1, <3>2, <3>3
  <2>7. CASE \E ok \in BOOLEAN : LatePatternArrives(ok)
    <3> DEFINE p == [page EXCEPT !.late = FALSE]
    <3>1. EndTask(p) /\ UNCHANGED <<boot, wanted>>
      BY <2>7 DEF LatePatternArrives, DropLate, Button
    <3>2. p \in Pages /\ p.view = "idle"
      BY <1>1, <2>2 DEF Pages
    <3> HIDE DEF p
    <3> QED BY <2>2, <3>1, <3>2, NothingOpens
  <2> QED BY <2>3, <2>4, <2>5, <2>6, <2>7
<1> QED
  BY <1>2, <1>3

LEMMA RunnerStep ==
    ASSUME RunnerInv, [Next]_tvars
    PROVE  RunnerInv'
<1>1. /\ Valid(page) /\ ~page.entry /\ page \in Pages /\ page.passed \in SUBSET StepsOf(Table)
      /\ boot \in {"new", "waiting", "resume", "fresh", "over"} /\ wanted \in {"nothing"} \cup Wants
      /\ task \in {<<>>} \cup {<<before>> : before \in SUBSET StepsOf(Table)}
      /\ page.serial \in BOOLEAN
  BY DEF RunnerInv, TaskTypes, Valid, Pages
<1>7. Early'
  <2>1. CASE Next
    BY <2>1, EarlyStep
  <2>2. CASE UNCHANGED tvars
    BY <2>2 DEF RunnerInv, Early, tvars
  <2> QED BY <2>1, <2>2
<1>2. CASE task = <<>> /\ Act
  <2>1. task' = <<page.passed>> /\ task' # <<>> /\ task'[1] = page.passed /\ UNCHANGED <<page, boot, wanted>>
    BY <1>2 DEF Act
  <2> QED BY <1>1, <1>7, <2>1 DEF RunnerInv, TaskTypes, OneNew
<1>3. CASE task # <<>> /\ \E ev \in Events : Reported(ev)
  <2>1. PICK ev \in Events : Reported(ev)
    BY <1>3
  <2>2. page' = Offer(page, ev) /\ UNCHANGED <<boot, wanted, task>>
    BY <2>1 DEF Reported
  <2>3. /\ Valid(page') /\ ~page'.entry
        /\ page.serial => page' = page
        /\ ~page.serial => \/ page'.passed = page.passed
                           \/ page'.serial /\ OneNew(page.passed, page'.passed)
    BY <1>1, <2>2, OfferShape
  <2>4. page'.serial \in BOOLEAN
    BY <2>3 DEF Valid, Pages
  <2>5. IF page'.serial THEN OneNew(task[1], page'.passed) ELSE page'.passed = task[1]
    <3>1. CASE page.serial
      BY <1>3, <2>3, <3>1 DEF RunnerInv
    <3>2. CASE ~page.serial
      <4>1. page.passed = task[1]
        BY <1>3, <3>2 DEF RunnerInv
      <4> QED BY <2>3, <3>2, <4>1 DEF OneNew
    <3> QED BY <3>1, <3>2
  <2> QED BY <1>1, <1>7, <2>2, <2>3, <2>5 DEF RunnerInv, TaskTypes
<1>4. CASE task # <<>> /\ ActEnds
  <2>1. EndTask(page) /\ task' = <<>> /\ UNCHANGED <<boot, wanted>>
    BY <1>4 DEF ActEnds
  <2>2. OneNew(page.passed, page.passed)
    BY DEF OneNew
  <2>3. Valid(page') /\ ~page'.entry
    BY <1>1, <2>1, <2>2, EndTaskShape
  <2> QED BY <1>1, <1>7, <2>1, <2>3 DEF RunnerInv, TaskTypes
<1>5. CASE task = <<>> /\ Other /\ UNCHANGED task
  <2>1. Whole /\ BootTypes
    BY <1>5, OtherSteps
  <2> QED BY <1>5, <1>7, <2>1 DEF RunnerInv, TaskTypes, Whole, BootTypes
<1>6. CASE UNCHANGED tvars
  BY <1>6, <1>7 DEF tvars, RunnerInv, TaskTypes
<1> QED
  BY <1>2, <1>3, <1>4, <1>5, <1>6 DEF Next

THEOREM Inductive == Spec => []RunnerInv
<1>1. RunnerInv /\ [Next]_tvars => RunnerInv'
  BY RunnerStep
<1> QED
  BY <1>1, InitRunnerInv, PTL DEF Spec

-----------------------------------------------------------------------------
(* What the runs check *)

\* The page, the start, the list and the task keep their types, no check has
\* passed that the open step does not have, and where no step is open nothing
\* of one is.
THEOREM TypeCorrect == Spec => []TypeOK
<1>1. RunnerInv => TypeOK
  <2> SUFFICES ASSUME RunnerInv PROVE TypeOK
    OBVIOUS
  <2>1. page \in Pages /\ Shape(page) /\ TaskTypes
    BY DEF RunnerInv, Valid
  <2>2. page.up /\ ~InStep(page) => FALSE
    BY <2>1 DEF Shape, Checking
  <2>3. /\ page.view \in {"idle", "lesson", "menu"} /\ page.phase \in {"step", "done", "blocked"}
        /\ page.li \in 0..LastLesson /\ page.passed \subseteq StepsOf(Table)
        /\ page.rec \in Records /\ page.on \subseteq Devices /\ page.offer \in BOOLEAN
    BY <2>1 DEF Pages
  <2> QED BY <2>1, <2>2, <2>3 DEF TypeOK, TaskTypes, Shape
<1> QED
  BY <1>1, Inductive, PTL

\* Whenever the server's answers come, and however a step was left, the pins
\* are the test pattern's only while its step is open.
THEOREM PatternStays == Spec => []PatternStaysInItsStep
<1>1. RunnerInv => PatternStaysInItsStep
  BY DEF RunnerInv, Valid, Shape, PatternStaysInItsStep
<1> QED
  BY <1>1, Inductive, PTL

\* One task passes one step at the most: a press, an answer or a device is one,
\* and so is everything the viewer has to say of one piece of work.
THEOREM OnePassAtATime == Spec => OnePressOneStep
<1>1. RunnerInv /\ RunnerInv' /\ [Next]_tvars =>
        [Cardinality(page'.passed \ Before) <= 1]_tvars
  <2> SUFFICES ASSUME RunnerInv, RunnerInv', Next
               PROVE  Cardinality(page'.passed \ Before) <= 1
    OBVIOUS
  <2>1. OneNew(Before, page'.passed)
    <3>1. CASE task = <<>> /\ Act
      BY <3>1 DEF Act, Before, OneNew
    <3>2. CASE task # <<>> /\ \E ev \in Events : Reported(ev)
      <4>1. task' = task
        BY <3>2 DEF Reported
      <4> QED BY <3>2, <4>1 DEF Before, RunnerInv, OneNew
    <3>3. CASE task # <<>> /\ ActEnds
      <4>1. EndTask(page)
        BY <3>3 DEF ActEnds
      <4>2. OneNew(task[1], page.passed) /\ Valid(page) /\ ~page.entry
        BY <3>3 DEF RunnerInv, OneNew
      <4> QED BY <3>3, <4>1, <4>2, EndTaskShape DEF Before
    <3>4. CASE task = <<>> /\ Other
      BY <3>4, OtherSteps DEF Whole, Before
    <3> QED BY <3>1, <3>2, <3>3, <3>4 DEF Next
  <2>2. PICK x : page'.passed \ Before \subseteq {x}
    BY <2>1 DEF OneNew
  <2>3. IsFiniteSet({x}) /\ Cardinality({x}) = 1
    BY FS_Singleton
  <2> QED BY <2>2, <2>3, FS_Subset
<1> QED
  BY <1>1, Inductive, PTL DEF Spec, OnePressOneStep

\* The record of a page in a lesson says where to go on, unless the tutorial is
\* completed: the open step, the lesson that cannot start, or the next one.
LEMMA PlaceKept ==
    ASSUME RunnerInv, page.view = "lesson", page.rec.status # "completed"
    PROVE  /\ page.li \in 1..LastLesson /\ page.rec.lesson \in 1..LastLesson
           /\ InStep(page) => page.rec.lesson = page.li /\ page.rec.step = page.si
           /\ page.phase # "done" => page.rec.lesson = page.li
           /\ page.phase = "done" => page.rec.lesson = page.li + 1
           /\ page.phase # "blocked" => page.rec.status = "in-progress"
           /\ InStep(page) => page.si \in DOMAIN Table[page.li].steps
           /\ CanResume(page.rec)
<1>1. page \in Pages /\ Shape(page)
  BY DEF RunnerInv, Valid
<1>2. page.li \in 1..LastLesson /\ LastLesson \in Nat
  BY InLessonAt
<1>3. /\ InStep(page) => page.rec.lesson = page.li /\ page.rec.step = page.si
      /\ InStep(page) => page.si \in DOMAIN Table[page.li].steps
      /\ page.phase # "blocked" => page.rec.status = "in-progress"
  BY <1>1 DEF Shape
<1>4. page.phase # "done" => page.rec.lesson = page.li
  BY <1>1 DEF Shape, InStep, Pages
<1>5. page.phase = "done" => page.li < LastLesson /\ page.rec.lesson = page.li + 1
  BY <1>1, <1>2 DEF Shape
<1>6. page.rec.lesson \in 1..LastLesson
  BY <1>2, <1>4, <1>5
<1>7. CanResume(page.rec)
  BY <1>6 DEF CanResume
<1> QED
  BY <1>2, <1>3, <1>4, <1>5, <1>6, <1>7

\* From any page that has this record's place and answers, and these devices,
\* the lesson and step it names are where the person was.
LEMMA EnteringComesBack ==
    ASSUME RunnerInv, page.view = "lesson", page.rec.status # "completed",
           NEW q, Valid(q), q.on = page.on, SameRecord(q.rec, page.rec),
           NEW again, again = EnterLesson(q, page.rec.lesson, page.rec.step, 1)
    PROVE  ComesBack(again)
<1> DEFINE i == page.rec.lesson
           at == page.rec.step
<1>1. /\ Valid(page) /\ i \in 1..LastLesson /\ page.li \in 1..LastLesson
      /\ LastLesson \in Nat
  BY PlaceKept, TableType DEF RunnerInv
<1>2. i \in 0..(LastLesson + 1) /\ at \in Int /\ i >= 1 /\ i <= LastLesson
  BY <1>1, RecordAt
<1>3. \A j \in 1..LastLesson : /\ LedPast(q, j) <=> LedPast(page, j)
                               /\ Met(q, Table[j].needs) <=> Met(page, Table[j].needs)
                               /\ ApplicableSteps(q, j) = ApplicableSteps(page, j)
  BY DEF LedPast, SaidNoDisplay, Met, ApplicableSteps, StepApplies, SameRecord
<1>4. again = EnterLesson(q, i, at, 1)
  OBVIOUS
<1>11. /\ InStep(page) => i = page.li /\ at = page.si
       /\ InStep(page) => page.si \in DOMAIN Table[page.li].steps
       /\ page.phase # "done" => i = page.li
       /\ page.phase = "done" => i = page.li + 1
  BY PlaceKept
<1> HIDE DEF i, at
<1>5. /\ Valid(again)
      /\ again.view = "idle" \/ again.li >= i
      /\ ~LedPast(q, i) => again.li = i
      /\ Straight(q, i, at) => again.li = i /\ again.si = at
  BY <1>2, <1>4, OnwardsShape
<1>6. CASE page.phase = "done"
  <2>1. i = page.li + 1 /\ again.li \in 0..LastLesson
    BY <1>5, <1>6, <1>11 DEF Valid, Pages
  <2>2. again.view = "idle" \/ again.li > page.li
    BY <1>1, <1>5, <2>1
  <2> QED BY <1>6, <2>2 DEF ComesBack
<1>7. CASE page.phase # "done"
  <2>1. ~LedPast(page, page.li) => again.li = page.li
    BY <1>1, <1>3, <1>5, <1>7, <1>11
  <2>2. ASSUME InStep(page), StillApplies(page) PROVE again.si = page.si
    <3>1. page.si \in ApplicableSteps(page, page.li)
      BY <1>11, <2>2 DEF ApplicableSteps, StillApplies, OpenStep
    <3>2. Straight(q, i, at)
      BY <1>1, <1>2, <1>3, <1>11, <2>2, <3>1 DEF Straight, StillApplies
    <3> QED BY <1>5, <1>11, <2>2, <3>2
  <2> QED BY <1>7, <2>1, <2>2 DEF ComesBack
<1> QED
  BY <1>6, <1>7

\* What Exit, and a page that loads, leave behind.
LEMMA WhatIsLeft ==
    ASSUME RunnerInv, page.view = "lesson", page.rec.status # "completed",
           NEW left \in {Loaded(page.rec, page.on), Exited(page)}
    PROVE  /\ Valid(left) /\ left.on = page.on /\ SameRecord(left.rec, page.rec)
           /\ left.offer /\ CanResume(left.rec)
<1>1. Valid(page) /\ page \in Pages /\ page.rec \in Records /\ page.on \in SUBSET Devices
  BY DEF RunnerInv, Valid, Pages
<1>2. CanResume(page.rec)
  BY PlaceKept
<1>3. CASE left = Loaded(page.rec, page.on)
  <2>1. Valid(left)
    BY <1>1, <1>3, LoadedShape
  <2>2. left.on = page.on /\ left.rec = page.rec /\ left.offer = CanResume(page.rec)
    BY <1>3 DEF Loaded
  <2> QED BY <1>2, <2>1, <2>2 DEF SameRecord
<1>4. CASE left = Exited(page) /\ page.run
  <2> DEFINE rec == [page.rec EXCEPT !.status = "paused"]
  <2>1. left = Closed(page, "paused") /\ "paused" \in Status
    BY <1>4 DEF Exited, Status
  <2>2. Valid(left) /\ left.on = page.on /\ left.rec = rec /\ left.offer = CanResume(left.rec)
    BY <1>1, <2>1, ClosedRecord
  <2>3. /\ rec.lesson = page.rec.lesson /\ rec.step = page.rec.step /\ rec.answers = page.rec.answers
        /\ rec.status = "paused"
    BY <1>1 DEF Records
  <2> HIDE DEF rec
  <2>4. CanResume(rec)
    BY <1>2, <2>3 DEF CanResume
  <2> QED BY <2>2, <2>3, <2>4 DEF SameRecord
<1>5. CASE left = Exited(page) /\ ~page.run
  <2>1. left = Nowhere(page, "idle")
    BY <1>5 DEF Exited
  <2>2. Valid(left) /\ left.on = page.on /\ left.rec = page.rec /\ left.offer = CanResume(page.rec)
    BY <1>1, <2>1, NowhereShape DEF SameRest
  <2> QED BY <1>2, <2>2 DEF SameRecord
<1> QED
  BY <1>3, <1>4, <1>5

\* As long as the tutorial is not completed, Exit and a page closed and opened
\* again leave a Resume button, and Resume and the tutorial that opens by itself
\* go back to where the person was: to the open step, while it applies, and after
\* a lesson that is done to one that comes later, or find nothing left to do.
THEOREM ProgressIsKept == Spec => []ResumesWhereLeft
<1>1. RunnerInv => ResumesWhereLeft
  <2> SUFFICES ASSUME RunnerInv, page.view = "lesson", page.rec.status # "completed"
               PROVE  LET new == Loaded(page.rec, page.on)
                      IN /\ \A left \in {new, Exited(page)} :
                              left.offer /\ CanResume(left.rec) /\ ComesBack(Resumed(left))
                         /\ \A param \in Params :
                              LET how == Scheduled(page.rec, param)
                              IN \/ how = "over"
                                 \/ how = "fresh" /\ page.phase = "blocked"
                                 \/ ComesBack(StartedAtLoad(new, how))
    BY DEF ResumesWhereLeft
  <2> DEFINE new == Loaded(page.rec, page.on)
  <2>1. ASSUME NEW left \in {new, Exited(page)}
        PROVE  left.offer /\ CanResume(left.rec) /\ ComesBack(Resumed(left))
    <3>1. /\ Valid(left) /\ left.on = page.on /\ SameRecord(left.rec, page.rec)
          /\ left.offer /\ CanResume(left.rec)
      BY WhatIsLeft
    <3> DEFINE q == FromMenu(left)
    <3>2. Valid(q) /\ q.on = left.on /\ SameRecord(q.rec, left.rec)
      BY <3>1, FromMenuShape
    <3>3. Resumed(left) = EnterLesson(q, page.rec.lesson, page.rec.step, 1)
      BY <3>1 DEF Resumed, SameRecord
    <3> HIDE DEF q
    <3>4. q.on = page.on /\ SameRecord(q.rec, page.rec)
      BY <3>1, <3>2 DEF SameRecord
    <3>5. ComesBack(Resumed(left))
      BY <3>2, <3>3, <3>4, EnteringComesBack
    <3> QED BY <3>1, <3>5
  <2>2. ASSUME NEW param \in Params, Scheduled(page.rec, param) = "fresh"
        PROVE  page.phase = "blocked"
    <3>1. CanResume(page.rec) /\ (page.phase # "blocked" => page.rec.status = "in-progress")
      BY PlaceKept
    <3> QED BY <2>2, <3>1 DEF Scheduled, MayAutostart
  <2>3. ASSUME NEW param \in Params, Scheduled(page.rec, param) = "resume"
        PROVE  ComesBack(StartedAtLoad(new, "resume"))
    <3>1. Valid(new) /\ new.on = page.on /\ new.rec = page.rec /\ page.rec.lesson # 0
      BY WhatIsLeft, PlaceKept DEF Loaded, CanResume
    <3> HIDE DEF new
    <3> DEFINE how == "resume"
    <3>2. how \in {"resume", "fresh"} /\ how = "resume"
      OBVIOUS
    <3> HIDE DEF how
    <3>3. PICK q, i, at :
             /\ Valid(q) /\ q.passed = new.passed /\ q.on = new.on /\ SameRecord(q.rec, new.rec)
             /\ i \in 0..(LastLesson + 1) /\ at \in Int
             /\ StartedAtLoad(new, how) = EnterLesson(q, i, at, 1)
             /\ how = "resume" /\ new.rec.lesson # 0 => i = new.rec.lesson /\ at = new.rec.step
      BY <3>1, <3>2, StartedAtLoadOpens
    <3>4. i = page.rec.lesson /\ at = page.rec.step
      BY <3>1, <3>2, <3>3
    <3> DEFINE again == StartedAtLoad(new, how)
    <3>5. again = EnterLesson(q, page.rec.lesson, page.rec.step, 1)
      BY <3>3, <3>4
    <3> HIDE DEF again
    <3>6. ComesBack(again)
      BY <3>1, <3>3, <3>5, EnteringComesBack
    <3> QED BY <3>2, <3>6 DEF again
  <2>4. ASSUME NEW param \in Params
        PROVE  LET how == Scheduled(page.rec, param)
               IN \/ how = "over"
                  \/ how = "fresh" /\ page.phase = "blocked"
                  \/ ComesBack(StartedAtLoad(new, how))
    BY <2>2, <2>3, ScheduledIs
  <2> QED BY <2>1, <2>4
<1> QED
  BY <1>1, Inductive, PTL
=============================================================================
