------------------------ MODULE StudySession_proofs ------------------------
(***************************************************************************)
(* Proofs about StudySession, for any number of sessions, handlers and     *)
(* steps and for every set of faults.                                      *)
(***************************************************************************)
EXTENDS StudySession, FiniteSetTheorems, WellFoundedInduction, TLAPS

USE ConstantsAssumption DEF Steps, NoIndex, Ended, AllRoutes, AllFaults

-----------------------------------------------------------------------------
(* Sequence numbers *)

Numbered(log) == \A i \in DOMAIN log : log[i].seq = i

\* _next_seq over a log numbered 1, 2, ..., n answers n + 1: the largest number
\* of the two tables together is the length of the log.
LEMMA NextSeqCounts ==
    ASSUME NEW log \in Seq(Row), Numbered(log)
    PROVE  NextSeq(log) = Len(log) + 1
<1> DEFINE seqs == {0} \cup EventSeqs(log) \cup RenderSeqs(log)
<1>1. seqs = 0..Len(log)
  <2>1. ASSUME NEW x \in seqs PROVE x \in 0..Len(log)
    BY <2>1 DEF EventSeqs, RenderSeqs, Numbered
  <2>2. ASSUME NEW x \in 0..Len(log) PROVE x \in seqs
    <3>1. CASE x = 0
      BY <3>1
    <3>2. CASE x # 0
      <4>1. x \in DOMAIN log /\ log[x].seq = x
        BY <3>2 DEF Numbered
      <4>2. CASE log[x].kind = "render"
        BY <4>1, <4>2 DEF RenderSeqs
      <4>3. CASE log[x].kind # "render"
        BY <4>1, <4>3 DEF EventSeqs
      <4> QED BY <4>2, <4>3
    <3> QED BY <3>1, <3>2
  <2> QED BY <2>1, <2>2
<1>2. Max(0..Len(log)) = Len(log)
  <2>1. Len(log) \in 0..Len(log) /\ \A y \in 0..Len(log) : Len(log) >= y
    OBVIOUS
  <2>2. \A x \in 0..Len(log) : (\A y \in 0..Len(log) : x >= y) => x = Len(log)
    OBVIOUS
  <2> QED BY <2>1, <2>2 DEF Max
<1> QED BY <1>1, <1>2 DEF NextSeq

-----------------------------------------------------------------------------
(* Types *)

TypeInv == TypeOK /\ SeqIsPosition

\* Every record the handlers' requests are built with is a request.
LEMMA AskType ==
    ASSUME NEW route \in AllRoutes \cup {"none"}, NEW s \in Sessions
    PROVE  Ask(route, s) \in Request
BY DEF Ask, Request, Relative, AllPresses

\* What asking with one of the enumerated presses gives is a request too.
LEMMA AskPressType ==
    ASSUME NEW route \in AllRoutes, NEW s \in Sessions,
           NEW m \in {"paired", "solo"}, NEW p \in Presses
    PROVE  [Ask(route, s) EXCEPT !.mode = m, !.press = p] \in Request
<1> DEFINE r == Ask(route, s)
           rm == [r EXCEPT !.mode = m]
<1>1. p \in AllPresses
  OBVIOUS
<1>2. r \in Request
  BY AskType
<1>3. rm \in Request
  BY <1>2 DEF Request
<1>4. [rm EXCEPT !.press = p] \in Request
  BY <1>1, <1>3 DEF Request
<1>5. [r EXCEPT !.mode = m, !.press = p] = [rm EXCEPT !.press = p]
  BY <1>2 DEF Request
<1> QED BY <1>4, <1>5

\* An idle handler's placeholder is a request.
LEMMA NoRequestType == NoRequest \in Request /\ NoRequest.s \in Sessions
BY AskType DEF NoRequest, Ask

\* A press, relative or not, is clamped to a step of the session.
LEMMA TargetType ==
    ASSUME NEW p \in AllPresses, NEW i \in Steps
    PROVE  Target(p, i) \in Steps
BY DEF Target, Clamp, AllPresses

\* A row built from the current state carries the next number of its session.
LEMMA RowOfType ==
    ASSUME TypeInv, NEW s \in Sessions, NEW kind \in Kinds, NEW i \in Steps
    PROVE  /\ RowOf(s, kind, i) \in Row
           /\ RowOf(s, kind, i).seq = Len(rows[s]) + 1
<1>1. rows[s] \in Seq(Row) /\ step[s] \in Steps
  BY DEF TypeInv, TypeOK
<1>2. Numbered(rows[s])
  BY DEF TypeInv, SeqIsPosition, Numbered
<1>3. NextSeq(rows[s]) = Len(rows[s]) + 1
  BY <1>1, <1>2, NextSeqCounts
<1> QED BY <1>1, <1>3 DEF RowOf, Row

\* Recording such a row keeps the tables typed and numbered.
LEMMA RecordType ==
    ASSUME TypeInv, NEW s \in Sessions, NEW row \in Row,
           row.seq = Len(rows[s]) + 1, Record(s, row)
    PROVE  /\ rows' \in [Sessions -> Seq(Row)]
           /\ quiet' \in [Sessions -> BOOLEAN]
           /\ SeqIsPosition'
<1>1. rows \in [Sessions -> Seq(Row)] /\ quiet \in [Sessions -> BOOLEAN]
  BY DEF TypeInv, TypeOK
<1>2. CASE UNCHANGED <<rows, quiet>>
  BY <1>1, <1>2 DEF TypeInv, SeqIsPosition
<1>3. CASE /\ rows' = [rows EXCEPT ![s] = Append(@, row)]
           /\ quiet' = [quiet EXCEPT ![s] = FALSE]
  <2>1. rows' \in [Sessions -> Seq(Row)]
    BY <1>1, <1>3
  <2>2. quiet' \in [Sessions -> BOOLEAN]
    BY <1>1, <1>3
  <2>3. ASSUME NEW r \in Sessions, NEW i \in DOMAIN rows'[r]
        PROVE  rows'[r][i].seq = i
    <3>1. CASE r # s
      BY <1>1, <1>3, <3>1 DEF TypeInv, SeqIsPosition
    <3>2. CASE r = s
      <4>1. rows'[s] = Append(rows[s], row) /\ rows[s] \in Seq(Row)
        BY <1>1, <1>3
      <4>2. CASE i = Len(rows[s]) + 1
        BY <3>2, <4>1, <4>2
      <4>3. CASE i # Len(rows[s]) + 1
        <5>1. i \in DOMAIN rows[s] /\ rows'[s][i] = rows[s][i]
          BY <3>2, <4>1, <4>3
        <5> QED BY <3>2, <5>1 DEF TypeInv, SeqIsPosition
      <4> QED BY <4>2, <4>3
    <3> QED BY <3>1, <3>2
  <2> QED BY <2>1, <2>2, <2>3 DEF SeqIsPosition
<1> QED BY <1>2, <1>3 DEF Record

-----------------------------------------------------------------------------
(* One handler step keeps the types and the numbering *)

\* The initial state has the types, and empty tables are numbered.
LEMMA InitTypeInv == Init => TypeInv
<1> SUFFICES ASSUME Init PROVE TypeInv
  OBVIOUS
<1>1. TypeOK
  BY NoRequestType DEF Init, TypeOK, Labels
<1>2. SeqIsPosition
  BY DEF Init, SeqIsPosition
<1> QED BY <1>1, <1>2 DEF TypeInv

\* What TypeOK says of one handler's request.
LEMMA HandlerType ==
    ASSUME TypeOK, NEW h \in Handlers
    PROVE  /\ req[h] \in Request
           /\ S(h) \in Sessions
           /\ req[h].seen \in Steps /\ req[h].from \in Steps /\ req[h].target \in Steps
           /\ req[h].mode \in {"paired", "solo"}
           /\ req[h].press \in AllPresses
           /\ req[h].outcome \in Ended \cup {"none"}
           /\ req[h].todo \in SUBSET (Sessions \X Steps)
BY DEF TypeOK, S, Request

\* An action that leaves the tables alone only has to keep the types.
LEMMA SameRows ==
    ASSUME SeqIsPosition, UNCHANGED rows
    PROVE  SeqIsPosition'
BY DEF SeqIsPosition

\* The unlocked read a route begins with keeps the types, for any typed request.
LEMMA BeginType ==
    ASSUME TypeInv, NEW h \in Handlers, NEW r \in Request, NEW label \in Labels,
           Begin(h, r, label)
    PROVE  TypeInv'
<1>1. r.s \in Sessions /\ step[r.s] \in Steps
  BY DEF Request, TypeInv, TypeOK
<1>2. [r EXCEPT !.seen = step[r.s]] \in Request
  BY <1>1 DEF Request
<1>3. TypeOK'
  BY <1>2 DEF TypeInv, TypeOK, Begin, Goto
<1> QED BY <1>3, SameRows DEF Begin, TypeInv

\* The arrival of a request, its first read or its enrolment, keeps the types.
LEMMA ArriveType ==
    ASSUME TypeInv, NEW h \in Handlers, Arrive(h)
    PROVE  TypeInv'
<1> USE DEF Labels
<1>1. ASSUME NEW s \in Sessions, Enroll(h, s) PROVE TypeInv'
  <2>1. Ask("start", s) \in Request
    BY AskType
  <2>2. TypeOK'
    BY <1>1, <2>1 DEF TypeInv, TypeOK, Enroll, Goto
  <2> QED BY <1>1, <2>2, SameRows DEF Enroll, TypeInv
<1>2. ASSUME NEW s \in Sessions, NEW p \in Presses, ReadAdvance(h, s, p) PROVE TypeInv'
  <2>1. [Ask("advance", s) EXCEPT !.press = p] \in Request
    BY AskType DEF Request
  <2> QED BY <1>2, <2>1, BeginType DEF ReadAdvance
<1>3. ASSUME NEW s \in Sessions, NEW p \in Presses, ReadBack(h, s, p) PROVE TypeInv'
  <2>1. [Ask("back", s) EXCEPT !.mode = "solo", !.press = p] \in Request
    BY AskPressType
  <2> QED BY <1>3, <2>1, BeginType DEF ReadBack
<1>4. ASSUME NEW s \in Sessions, NEW p \in Presses, ReadReady(h, s, p) PROVE TypeInv'
  <2>1. mode[s] \in {"paired", "solo"}
    BY DEF TypeInv, TypeOK
  <2>2. [Ask("ready", s) EXCEPT !.mode = mode[s], !.press = p] \in Request
    BY <2>1, AskPressType
  <2> QED BY <1>4, <2>2, BeginType DEF ReadReady
<1>5. ASSUME NEW s \in Sessions, NEW asked \in Ended, ReadEnd(h, s, asked) PROVE TypeInv'
  <2>1. [Ask("end", s) EXCEPT !.outcome = EndOutcome(s, asked)] \in Request
    BY AskType DEF Request, EndOutcome
  <2> QED BY <1>5, <2>1, BeginType DEF ReadEnd
<1>6. ASSUME NEW s \in Sessions, NEW m \in {"paired", "solo"}, ReadMode(h, s, m)
      PROVE  TypeInv'
  <2>1. [Ask("mode", s) EXCEPT !.mode = m] \in Request
    BY AskType DEF Request
  <2> QED BY <1>6, <2>1, BeginType DEF ReadMode
<1>7. ASSUME NEW s \in Sessions, NEW route \in {"event", "render"}, ReadReport(h, s, route)
      PROVE  TypeInv'
  <2>1. Ask(route, s) \in Request
    BY AskType
  <2> QED BY <1>7, <2>1, BeginType DEF ReadReport
<1> QED BY <1>1, <1>2, <1>3, <1>4, <1>5, <1>6, <1>7 DEF Arrive

\* The idle sweep's read of the sessions gone quiet keeps the types.
LEMMA ScanType ==
    ASSUME TypeInv, NEW h \in Handlers, ScanIdle(h)
    PROVE  TypeInv'
<1>1. {<<s, step[s]>> : s \in StaleSessions} \in SUBSET (Sessions \X Steps)
  BY DEF StaleSessions, TypeInv, TypeOK
<1>2. [NoRequest EXCEPT !.route = "sweep", !.outcome = "abandoned",
                        !.todo = {<<s, step[s]>> : s \in StaleSessions}] \in Request
  BY <1>1, NoRequestType DEF Request
<1>3. TypeOK'
  BY <1>2 DEF TypeInv, TypeOK, ScanIdle, Goto, Labels
<1> QED BY <1>3, SameRows DEF ScanIdle, TypeInv

\* The handler steps that write a row: the row is typed and carries the next
\* number, and the rest of the step keeps the types.
LEMMA LogType ==
    ASSUME TypeInv, NEW h \in Handlers,
           \/ LogStart(h) \/ LogEvent(h) \/ LogRender(h) \/ LogMode(h)
           \/ LogReady(h) \/ LogAdvance(h) \/ LogAutoload(h) \/ LogEnd(h)
    PROVE  TypeInv'
<1> DEFINE Rest == /\ rows' \in [Sessions -> Seq(Row)]
                   /\ quiet' \in [Sessions -> BOOLEAN]
                   /\ SeqIsPosition'
<1>h. /\ req[h] \in Request /\ S(h) \in Sessions
      /\ req[h].seen \in Steps /\ req[h].from \in Steps /\ req[h].target \in Steps
      /\ req[h].outcome \in Ended \cup {"none"}
  BY HandlerType DEF TypeInv
<1>k. /\ "session_start" \in Kinds /\ "session_mode" \in Kinds
      /\ "session_end" \in Kinds /\ "step_advance" \in Kinds
      /\ "model_autoload" \in Kinds /\ "participant_ready" \in Kinds
      /\ "event" \in Kinds /\ "render" \in Kinds
  BY DEF Kinds
<1>r. ASSUME NEW kind \in Kinds, NEW i \in Steps, Record(S(h), RowOf(S(h), kind, i))
      PROVE  Rest
  BY <1>h, <1>r, RowOfType, RecordType
<1>1. CASE LogStart(h)
  <2>1. Rest
    BY <1>1, <1>k, <1>r DEF LogStart
  <2> QED BY <1>1, <2>1 DEF LogStart, TypeInv, TypeOK, Goto, Labels
<1>2. CASE LogEvent(h)
  <2>1. Rest
    BY <1>2, <1>h, <1>k, <1>r DEF LogEvent
  <2> QED BY <1>2, <2>1, NoRequestType DEF LogEvent, TypeInv, TypeOK, Finish, Goto, Labels
<1>3. CASE LogRender(h)
  <2>1. step[S(h)] \in Steps
    BY <1>h DEF TypeInv, TypeOK
  <2>2. Rest
    <3>1. CASE status[S(h)] = "active"
      BY <1>3, <3>1, <1>k, <1>r, <2>1 DEF LogRender
    <3>2. CASE status[S(h)] # "active"
      BY <1>3, <3>2, SameRows DEF LogRender, TypeInv, TypeOK
    <3> QED BY <3>1, <3>2
  <2> QED BY <1>3, <2>2, NoRequestType DEF LogRender, TypeInv, TypeOK, Finish, Goto, Labels
<1>4. CASE LogMode(h)
  <2>1. Rest
    BY <1>4, <1>h, <1>k, <1>r DEF LogMode
  <2> QED BY <1>4, <2>1, NoRequestType DEF LogMode, TypeInv, TypeOK, Finish, Goto, Labels
<1>5. CASE LogReady(h)
  <2>1. Rest
    BY <1>5, <1>h, <1>k, <1>r DEF LogReady
  <2> QED BY <1>5, <2>1 DEF LogReady, TypeInv, TypeOK, Goto, Labels
<1>6. CASE LogAdvance(h)
  <2>1. /\ RowOf(S(h), "step_advance", req[h].target) \in Row
        /\ RowOf(S(h), "step_advance", req[h].target).seq = Len(rows[S(h)]) + 1
    BY <1>h, <1>k, RowOfType
  <2>2. LET row == [RowOf(S(h), "step_advance", req[h].target) EXCEPT !.from = req[h].from]
        IN row \in Row /\ row.seq = Len(rows[S(h)]) + 1
    BY <1>h, <2>1 DEF Row
  <2>3. Rest
    BY <1>6, <1>h, <2>2, RecordType DEF LogAdvance
  <2> QED BY <1>6, <2>3 DEF LogAdvance, TypeInv, TypeOK, Goto, Labels
<1>7. CASE LogAutoload(h)
  <2>1. Rest
    BY <1>7, <1>h, <1>k, <1>r DEF LogAutoload
  <2> QED BY <1>7, <2>1 DEF LogAutoload, TypeInv, TypeOK, Goto, Labels
<1>8. CASE LogEnd(h)
  <2> DEFINE i == IF req[h].route = "ready" THEN LastStep ELSE req[h].seen
  <2>1. /\ RowOf(S(h), "session_end", i) \in Row
        /\ RowOf(S(h), "session_end", i).seq = Len(rows[S(h)]) + 1
    BY <1>h, <1>k, RowOfType
  <2>2. LET row == [RowOf(S(h), "session_end", i) EXCEPT !.outcome = req[h].outcome]
        IN row \in Row /\ row.seq = Len(rows[S(h)]) + 1
    BY <1>h, <2>1 DEF Row
  <2>3. Rest
    BY <1>8, <1>h, <2>2, RecordType DEF LogEnd
  <2> QED BY <1>8, <2>3 DEF LogEnd, TypeInv, TypeOK, Goto, Labels
<1> QED BY <1>1, <1>2, <1>3, <1>4, <1>5, <1>6, <1>7, <1>8

\* The other handler steps leave the tables alone.
LEMMA QuietStepType ==
    ASSUME TypeInv, NEW h \in Handlers,
           \/ ClearReady(h) \/ SetMode(h) \/ SignalReady(h)
           \/ RefusePress(h) \/ AcceptPress(h) \/ FinishPress(h)
           \/ SetStep(h) \/ SettleMove(h) \/ FindEnded(h) \/ FindActive(h)
           \/ SetEnded(h) \/ SweepNext(h) \/ SweepDone(h)
    PROVE  TypeInv'
<1>h. /\ req[h] \in Request /\ S(h) \in Sessions
      /\ req[h].seen \in Steps /\ req[h].target \in Steps
      /\ req[h].mode \in {"paired", "solo"}
      /\ req[h].press \in AllPresses
      /\ req[h].outcome \in Ended \cup {"none"}
      /\ req[h].todo \in SUBSET (Sessions \X Steps)
  BY HandlerType DEF TypeInv
<1>n. NoRequest \in Request
  BY NoRequestType
<1>t. UNCHANGED rows
  BY DEF ClearReady, SetMode, SignalReady, RefusePress, AcceptPress, FinishPress,
         SetStep, SettleMove, FindEnded, FindActive, SetEnded, SweepNext, SweepDone
<1> SUFFICES TypeOK'
  BY <1>t, SameRows DEF TypeInv
<1> USE DEF TypeInv, TypeOK, Goto, Finish, Unlock, Labels
<1>1. CASE ClearReady(h)
  BY <1>1, <1>n DEF ClearReady
<1>2. CASE SetMode(h)
  <2>1. mode' \in [Sessions -> {"paired", "solo"}]
    BY <1>2, <1>h DEF SetMode
  <2>2. req' \in [Handlers -> Request] /\ pc' \in [Handlers -> Labels]
    <3>1. CASE UNCHANGED req /\ Goto(h, "remoded")
      BY <3>1
    <3>2. CASE Finish(h)
      BY <3>2, <1>n
    <3> QED BY <1>2, <3>1, <3>2 DEF SetMode
  <2> QED BY <1>2, <2>1, <2>2 DEF SetMode
<1>3. CASE SignalReady(h)
  BY <1>3, <1>h, <1>n DEF SignalReady
<1>4. CASE RefusePress(h)
  BY <1>4, <1>n DEF RefusePress
<1>5. CASE AcceptPress(h)
  <2>1. PICK now \in Reread(h) :
          req' = [req EXCEPT ![h].from = now.step,
                             ![h].target = Target(req[h].press, now.step)]
    BY <1>5 DEF AcceptPress
  <2>2. now.step \in Steps
    BY <1>h, <2>1 DEF Reread
  <2>3. Target(req[h].press, now.step) \in Steps
    BY <1>h, <2>2, TargetType
  <2>4. req' \in [Handlers -> Request]
    BY <1>h, <2>1, <2>2, <2>3 DEF Request
  <2> QED BY <1>5, <2>4 DEF AcceptPress
<1>6. CASE FinishPress(h)
  <2>1. req' \in [Handlers -> Request]
    BY <1>6, <1>h DEF FinishPress, Request
  <2> QED BY <1>6, <2>1 DEF FinishPress
<1>7. CASE SetStep(h)
  <2>1. CASE Goto(h, "moved") /\ UNCHANGED <<req, lock>>
    <3>1. step' \in [Sessions -> Steps] /\ quiet' \in [Sessions -> BOOLEAN]
      BY <1>7, <1>h DEF SetStep
    <3>2. reached' \in [Sessions -> BOOLEAN]
      BY <1>7, <1>h DEF SetStep
    <3> QED BY <1>7, <2>1, <3>1, <3>2 DEF SetStep
  <2>2. CASE Unlock(h) /\ Finish(h) /\ UNCHANGED <<step, quiet, reached>>
    BY <1>7, <2>2, <1>n DEF SetStep
  <2> QED BY <1>7, <2>1, <2>2 DEF SetStep
<1>8. CASE SettleMove(h)
  BY <1>8, <1>n DEF SettleMove
<1>9. CASE FindEnded(h)
  BY <1>9 DEF FindEnded, AfterEnd
<1>10. CASE FindActive(h)
  BY <1>10 DEF FindActive
<1>11. CASE SetEnded(h)
  <2>1. status' \in [Sessions -> {"none", "active"} \cup Ended]
    <3>1. EndStatus(h) \in [Sessions -> {"none", "active"} \cup Ended]
      BY <1>h DEF EndStatus
    <3> QED BY <1>11, <3>1 DEF SetEnded
  <2>2. req' \in [Handlers -> Request] /\ pc' \in [Handlers -> Labels]
    <3>1. CASE UNCHANGED req /\ AfterEnd(h)
      BY <3>1 DEF AfterEnd
    <3>2. CASE Finish(h)
      BY <3>2, <1>n
    <3> QED BY <1>11, <3>1, <3>2 DEF SetEnded
  <2>3. lock' \in Handlers \cup {None}
    BY <1>11 DEF SetEnded
  <2> QED BY <1>11, <2>1, <2>2, <2>3 DEF SetEnded
<1>12. CASE SweepNext(h)
  <2>1. PICK stale \in req[h].todo :
          req' = [req EXCEPT ![h].s = stale[1], ![h].seen = stale[2],
                             ![h].todo = @ \ {stale}]
    BY <1>12 DEF SweepNext
  <2>2. stale[1] \in Sessions /\ stale[2] \in Steps
    BY <1>h, <2>1
  <2>3. req' \in [Handlers -> Request]
    BY <1>h, <2>1, <2>2 DEF Request
  <2> QED BY <1>12, <2>3 DEF SweepNext
<1>13. CASE SweepDone(h)
  BY <1>13, <1>n DEF SweepDone
<1> QED BY <1>1, <1>2, <1>3, <1>4, <1>5, <1>6, <1>7, <1>8, <1>9, <1>10, <1>11, <1>12, <1>13

\* Every step keeps the types and the numbering.
LEMMA StepTypeInv == TypeInv /\ [Next]_vars => TypeInv'
<1> SUFFICES ASSUME TypeInv, [Next]_vars PROVE TypeInv'
  OBVIOUS
<1>1. ASSUME NEW h \in Handlers, Arrive(h) PROVE TypeInv'
  BY <1>1, ArriveType
<1>2. ASSUME NEW h \in Handlers, ScanIdle(h) PROVE TypeInv'
  BY <1>2, ScanType
<1>3. ASSUME NEW h \in Handlers, Work(h) PROVE TypeInv'
  BY <1>3, LogType, QuietStepType DEF Work
<1>4. CASE TimePasses
  <2>1. TypeOK'
    BY <1>4 DEF TimePasses, TypeInv, TypeOK
  <2> QED BY <1>4, <2>1, SameRows DEF TimePasses, TypeInv
<1>5. CASE Crash
  <2>1. TypeOK'
    BY <1>5, NoRequestType DEF Crash, TypeInv, TypeOK, Labels
  <2> QED BY <1>5, <2>1, SameRows DEF Crash, TypeInv
<1>6. CASE UNCHANGED vars
  BY <1>6 DEF vars, TypeInv, TypeOK, SeqIsPosition
<1> QED BY <1>1, <1>2, <1>3, <1>4, <1>5, <1>6 DEF Next

\* The variables keep their types, whatever fails.
THEOREM TypeCorrect == Spec => []TypeOK
<1>1. Spec => []TypeInv
  BY InitTypeInv, StepTypeInv, PTL DEF Spec
<1>2. TypeInv => TypeOK
  BY DEF TypeInv
<1> QED BY <1>1, <1>2, PTL

\* The rows of a session, events and renders together, are numbered 1, 2, 3, ...
\* in the order they were written: StudyStore's one counter under one lock.
THEOREM SequenceNumbers == Spec => []SeqIsPosition
<1>1. Spec => []TypeInv
  BY InitTypeInv, StepTypeInv, PTL DEF Spec
<1>2. TypeInv => SeqIsPosition
  BY DEF TypeInv
<1> QED BY <1>1, <1>2, PTL

-----------------------------------------------------------------------------
(* Outcomes are final *)

\* Only Enroll and SetEnded write the status: Enroll of a session without a
\* row, SetEnded of one that is still active.
LEMMA StepKeepsEnded ==
    ASSUME TypeOK, [Next]_vars, NEW s \in Sessions, status[s] \in Ended
    PROVE  status'[s] = status[s]
<1>1. ASSUME NEW h \in Handlers, Arrive(h) PROVE status'[s] = status[s]
  <2>1. ASSUME NEW r \in Sessions, Enroll(h, r) PROVE status'[s] = status[s]
    <3>1. r # s
      BY <2>1 DEF Enroll
    <3> QED BY <2>1, <3>1 DEF Enroll, TypeOK
  <2>2. ASSUME ~ \E r \in Sessions : Enroll(h, r) PROVE UNCHANGED status
    BY <1>1, <2>2 DEF Arrive, ReadAdvance, ReadBack, ReadReady, ReadEnd, ReadMode,
                      ReadReport, Begin
  <2> QED BY <2>1, <2>2
<1>2. ASSUME NEW h \in Handlers, Work(h) PROVE status'[s] = status[s]
  <2>1. CASE SetEnded(h)
    <3>1. EndStatus(h)[s] = status[s]
      BY DEF EndStatus, StillActive, TypeOK
    <3> QED BY <2>1, <3>1 DEF SetEnded
  <2>2. CASE ~SetEnded(h)
    BY <1>2, <2>2
       DEF Work, LogStart, ClearReady, LogEvent, LogRender, SetMode, LogMode, LogReady,
           SignalReady, RefusePress, AcceptPress, FinishPress, SetStep, LogAdvance,
           LogAutoload, SettleMove, FindEnded, FindActive, LogEnd, SweepNext, SweepDone
  <2> QED BY <2>1, <2>2
<1>3. ASSUME NEW h \in Handlers, ScanIdle(h) PROVE status'[s] = status[s]
  BY <1>3 DEF ScanIdle
<1>4. CASE TimePasses \/ Crash \/ UNCHANGED vars
  BY <1>4 DEF TimePasses, Crash, vars
<1> QED BY <1>1, <1>2, <1>3, <1>4 DEF Next

\* A session's outcome is never rewritten: not by a second End, a participant's
\* last press, the idle sweep, a failed write or a restart.
THEOREM OutcomeIsFinal == Spec => EndedStaysEnded
<1>1. TypeOK /\ [Next]_vars =>
        [\A s \in Sessions : status[s] \in Ended => status'[s] = status[s]]_vars
  BY StepKeepsEnded
<1> QED BY <1>1, TypeCorrect, PTL DEF Spec, EndedStaysEnded

-----------------------------------------------------------------------------
(* What the write lock protects *)

\* A handler in one of these holds the write lock; in "finishing" it may.
Held == {"moving", "moved", "autoload", "settling", "ending", "endlogged"}

LockInv ==
    \A h \in Handlers :
      /\ pc[h] \in Held => lock = h
      /\ lock = h => pc[h] \in Held \cup {"finishing"}

\* An arrival is an enrolment, or a read that touches only the handler.
LEMMA Arrival ==
    ASSUME NEW h \in Handlers, Arrive(h)
    PROVE  \/ \E s \in Sessions : Enroll(h, s)
           \/ \E label \in {"press", "resolved", "finishing"} :
                /\ pc[h] = "idle" /\ pc' = [pc EXCEPT ![h] = label]
                /\ UNCHANGED <<status, step, mode, rows, quiet, ready, lock, reached>>
                /\ \E r : req' = [req EXCEPT ![h] = r]
<1> USE DEF Begin, Goto
<1>1. ASSUME NEW s \in Sessions, NEW p \in Presses,
             ReadAdvance(h, s, p) \/ ReadBack(h, s, p) \/ ReadReady(h, s, p)
      PROVE  \E label \in {"press", "resolved", "finishing"} :
                /\ pc[h] = "idle" /\ pc' = [pc EXCEPT ![h] = label]
                /\ UNCHANGED <<status, step, mode, rows, quiet, ready, lock, reached>>
                /\ \E r : req' = [req EXCEPT ![h] = r]
  BY <1>1 DEF ReadAdvance, ReadBack, ReadReady
<1>2. ASSUME NEW s \in Sessions,
             \/ \E asked \in Ended : ReadEnd(h, s, asked)
             \/ \E m \in {"paired", "solo"} : ReadMode(h, s, m)
             \/ \E route \in {"event", "render"} : ReadReport(h, s, route)
      PROVE  \E label \in {"press", "resolved", "finishing"} :
                /\ pc[h] = "idle" /\ pc' = [pc EXCEPT ![h] = label]
                /\ UNCHANGED <<status, step, mode, rows, quiet, ready, lock, reached>>
                /\ \E r : req' = [req EXCEPT ![h] = r]
  BY <1>2 DEF ReadEnd, ReadMode, ReadReport
<1> QED BY <1>1, <1>2 DEF Arrive

\* A handler's step is its own: it leaves the others where they are.
LEMMA OthersStay ==
    ASSUME TypeOK, NEW h \in Handlers, Arrive(h) \/ ScanIdle(h) \/ Work(h),
           NEW g \in Handlers, g # h
    PROVE  pc'[g] = pc[g] /\ req'[g] = req[g] /\ S(g)' = S(g)
<1> USE DEF Goto, Finish, S
<1>1. CASE Arrive(h)
  <2>1. CASE \E s \in Sessions : Enroll(h, s)
    BY <2>1 DEF TypeOK, Enroll
  <2>2. CASE \E label \in {"press", "resolved", "finishing"} :
               pc' = [pc EXCEPT ![h] = label] /\ \E r : req' = [req EXCEPT ![h] = r]
    BY <2>2 DEF TypeOK
  <2> QED BY <1>1, <2>1, <2>2, Arrival
<1>2. CASE ScanIdle(h)
  BY <1>2 DEF TypeOK, ScanIdle
<1>3. CASE \/ LogStart(h) \/ ClearReady(h) \/ LogEvent(h) \/ LogRender(h) \/ SetMode(h)
           \/ LogMode(h) \/ LogReady(h) \/ SignalReady(h) \/ RefusePress(h)
  BY <1>3 DEF TypeOK, LogStart, ClearReady, LogEvent, LogRender, SetMode, LogMode, LogReady,
              SignalReady, RefusePress
<1>4. CASE \/ AcceptPress(h) \/ FinishPress(h) \/ SetStep(h) \/ LogAdvance(h)
           \/ LogAutoload(h) \/ SettleMove(h)
  BY <1>4 DEF TypeOK, AcceptPress, FinishPress, SetStep, LogAdvance, LogAutoload, SettleMove
<1>5. CASE \/ FindEnded(h) \/ FindActive(h) \/ LogEnd(h) \/ SetEnded(h)
           \/ SweepNext(h) \/ SweepDone(h)
  BY <1>5 DEF TypeOK, FindEnded, FindActive, LogEnd, SetEnded, SweepNext, SweepDone, AfterEnd
<1> QED BY <1>1, <1>2, <1>3, <1>4, <1>5 DEF Work

\* Nobody takes the lock from another handler.
LEMMA LockHandedOn ==
    ASSUME TypeOK, LockInv, NEW h \in Handlers, Arrive(h) \/ ScanIdle(h) \/ Work(h)
    PROVE  /\ lock' = lock \/ (lock \in {h, None} /\ lock' \in {h, None})
           /\ pc'[h] \in Held => lock' = h
           /\ lock' = h => pc'[h] \in Held \cup {"finishing"}
<1> USE DEF Goto, Finish, Held
<1>0. pc[h] \in Labels /\ lock \in Handlers \cup {None}
  BY DEF TypeOK
<1>1. CASE Arrive(h)
  BY <1>1, Arrival DEF TypeOK, LockInv, Enroll
<1>2. CASE ScanIdle(h)
  BY <1>2 DEF TypeOK, LockInv, ScanIdle
<1>3. CASE \/ LogStart(h) \/ ClearReady(h) \/ LogEvent(h) \/ LogRender(h) \/ SetMode(h)
           \/ LogMode(h) \/ LogReady(h) \/ SignalReady(h) \/ RefusePress(h)
  BY <1>3 DEF TypeOK, LockInv, LogStart, ClearReady, LogEvent, LogRender, SetMode, LogMode,
              LogReady, SignalReady, RefusePress
<1>4. CASE \/ AcceptPress(h) \/ FinishPress(h) \/ SetStep(h) \/ LogAdvance(h)
           \/ LogAutoload(h) \/ SettleMove(h)
  BY <1>4 DEF TypeOK, LockInv, AcceptPress, FinishPress, SetStep, LogAdvance, LogAutoload,
              SettleMove, Free, Unlock
<1>5. CASE \/ FindEnded(h) \/ FindActive(h) \/ LogEnd(h) \/ SetEnded(h)
           \/ SweepNext(h) \/ SweepDone(h)
  BY <1>5 DEF TypeOK, LockInv, FindEnded, FindActive, LogEnd, SetEnded, SweepNext, SweepDone,
              AfterEnd, Free, Unlock
<1> QED BY <1>1, <1>2, <1>3, <1>4, <1>5 DEF Work

LEMMA StepLockInv == TypeInv /\ LockInv /\ [Next]_vars => LockInv'
<1> SUFFICES ASSUME TypeOK, LockInv, [Next]_vars PROVE LockInv'
  BY DEF TypeInv
<1>1. ASSUME NEW h \in Handlers, Arrive(h) \/ ScanIdle(h) \/ Work(h) PROVE LockInv'
  <2> SUFFICES ASSUME NEW g \in Handlers, g # h
               PROVE  /\ pc'[g] \in Held => lock' = g
                      /\ lock' = g => pc'[g] \in Held \cup {"finishing"}
    BY <1>1, LockHandedOn DEF LockInv
  <2>1. pc'[g] = pc[g]
    BY <1>1, OthersStay
  <2>2. lock' = lock \/ (lock \in {h, None} /\ lock' \in {h, None})
    BY <1>1, LockHandedOn
  <2> QED BY <2>1, <2>2 DEF LockInv
<1>2. CASE TimePasses \/ UNCHANGED vars
  BY <1>2 DEF TimePasses, vars, LockInv
<1>3. CASE Crash
  BY <1>3 DEF Crash, LockInv, Held
<1> QED BY <1>1, <1>2, <1>3 DEF Next

-----------------------------------------------------------------------------
(* What a handler knows in each phase *)

\* No read inside a locked section fails: a handler does not fall back on what
\* it read before the lock.
NoStaleReads == "read" \notin Faults

Moves(h) ==
    /\ status[S(h)] = "active"
    /\ req[h].from = step[S(h)] /\ req[h].target # step[S(h)]
    /\ req[h].press.expect \in {NoIndex, step[S(h)]}

EarnedOutcome(h) == req[h].outcome = "completed" => reached[S(h)]

Phase(h) ==
    /\ pc[h] \in {"ending", "endlogged"} => status[S(h)] = "active"
    /\ pc[h] = "sweeping" => req[h].route = "sweep"
    /\ req[h].route = "sweep" => req[h].outcome = "abandoned"
    /\ pc[h] \in {"finishing", "ending", "endlogged"} => req[h].outcome \in Ended
    /\ NoStaleReads /\ pc[h] = "moving" => Moves(h)
    /\ NoStaleReads /\ pc[h] \in {"finishing", "ending", "endlogged"} => EarnedOutcome(h)

\* A session that has not begun is where it will begin; one that stands on its
\* last step has stood on it.
Life(s) ==
    /\ status[s] = "none" => step[s] = 0 /\ ~reached[s]
    /\ status[s] # "none" /\ step[s] = LastStep => reached[s]

PhaseInv == \A h \in Handlers : Phase(h)
LifeInv  == NoStaleReads => \A s \in Sessions : Life(s)

HandlerInv == TypeInv /\ LockInv /\ PhaseInv /\ LifeInv

\* A session's own columns have three writers.
LEMMA ThreeWriters ==
    ASSUME NEW h \in Handlers, Arrive(h) \/ ScanIdle(h) \/ Work(h)
    PROVE  \/ UNCHANGED <<status, step, reached>>
           \/ \E s \in Sessions : Enroll(h, s)
           \/ SetStep(h) \/ SetEnded(h)
<1>1. CASE Arrive(h)
  BY <1>1, Arrival
<1>2. CASE ScanIdle(h)
  BY <1>2 DEF ScanIdle
<1>3. CASE Work(h)
  BY <1>3 DEF Work, LogStart, ClearReady, LogEvent, LogRender, SetMode, LogMode, LogReady,
              SignalReady, RefusePress, AcceptPress, FinishPress, LogAdvance, LogAutoload,
              SettleMove, FindEnded, FindActive, LogEnd, SweepNext, SweepDone
<1> QED BY <1>1, <1>2, <1>3

\* While a handler holds the lock, nobody else changes a session.
LEMMA LockProtects ==
    ASSUME TypeOK, LockInv, NEW h \in Handlers, Arrive(h) \/ ScanIdle(h) \/ Work(h),
           NEW g \in Handlers, g # h, pc[g] \in Held
    PROVE  UNCHANGED <<status, step, reached>>
<1>1. lock = g /\ h # None
  BY DEF LockInv
<1>2. \A s \in Sessions : ~Enroll(h, s)
  BY <1>1 DEF Enroll, Free
<1>3. ~SetStep(h) /\ ~SetEnded(h)
  BY <1>1 DEF SetStep, SetEnded, LockInv, Held
<1> QED BY <1>2, <1>3, ThreeWriters

\* A session that has stood on its last step has always done so: only a start
\* clears it, and it was not set then.
LEMMA ReachedStays ==
    ASSUME HandlerInv, NoStaleReads, NEW h \in Handlers, Arrive(h) \/ ScanIdle(h) \/ Work(h),
           NEW s \in Sessions, reached[s]
    PROVE  reached'[s]
<1>1. reached \in [Sessions -> BOOLEAN] /\ Life(s)
  BY DEF HandlerInv, TypeInv, TypeOK, LifeInv
<1>2. ASSUME NEW r \in Sessions, Enroll(h, r) PROVE reached'[s]
  BY <1>1, <1>2 DEF Enroll, Life
<1>3. CASE SetStep(h)
  BY <1>1, <1>3 DEF SetStep
<1>4. CASE SetEnded(h)
  BY <1>4 DEF SetEnded
<1> QED BY <1>2, <1>3, <1>4, ThreeWriters

\* What the other handlers know stays true.
LEMMA OthersPhase ==
    ASSUME HandlerInv, NEW h \in Handlers, Arrive(h) \/ ScanIdle(h) \/ Work(h),
           NEW g \in Handlers, g # h
    PROVE  Phase(g)'
<1>1. Phase(g) /\ S(g) \in Sessions /\ TypeOK /\ LockInv
  BY HandlerType DEF HandlerInv, PhaseInv, TypeInv
<1>2. pc'[g] = pc[g] /\ req'[g] = req[g] /\ S(g)' = S(g)
  BY <1>1, OthersStay
<1>3. CASE pc[g] \in Held
  <2>1. UNCHANGED <<status, step, reached>>
    BY <1>1, <1>3, LockProtects
  <2> QED BY <1>1, <1>2, <2>1 DEF Phase, Moves, EarnedOutcome
<1>4. CASE pc[g] \notin Held
  <2>1. pc[g] \notin {"moving", "ending", "endlogged"}
    BY <1>4 DEF Held
  <2>2. NoStaleReads /\ reached[S(g)] => reached'[S(g)]
    BY <1>1, ReachedStays
  <2>3. NoStaleReads' = NoStaleReads
    BY DEF NoStaleReads
  <2> QED BY <1>1, <1>2, <2>1, <2>2, <2>3 DEF Phase, EarnedOutcome
<1> QED BY <1>3, <1>4

\* A request that has arrived knows nothing yet, but an End has decided how the
\* session will be recorded, from the step it read.
LEMMA ArrivePhase ==
    ASSUME HandlerInv, NEW h \in Handlers, Arrive(h)
    PROVE  Phase(h)'
<1> USE DEF Goto, Begin, Ask
<1>t. TypeOK
  BY DEF HandlerInv, TypeInv
<1>1. ASSUME NEW s \in Sessions, Enroll(h, s) PROVE Phase(h)'
  BY <1>t, <1>1 DEF Enroll, Phase, TypeOK
<1>2. ASSUME NEW s \in Sessions, NEW p \in Presses, ReadAdvance(h, s, p) PROVE Phase(h)'
  BY <1>t, <1>2 DEF ReadAdvance, Phase, TypeOK
<1>3. ASSUME NEW s \in Sessions, NEW p \in Presses, ReadBack(h, s, p) PROVE Phase(h)'
  BY <1>t, <1>3 DEF ReadBack, Phase, TypeOK
<1>4. ASSUME NEW s \in Sessions, NEW p \in Presses, ReadReady(h, s, p) PROVE Phase(h)'
  BY <1>t, <1>4 DEF ReadReady, Phase, TypeOK
<1>5. ASSUME NEW s \in Sessions, NEW asked \in Ended, ReadEnd(h, s, asked) PROVE Phase(h)'
  <2>1. /\ pc'[h] = "finishing" /\ req'[h].route = "end" /\ req'[h].s = s
        /\ req'[h].outcome = EndOutcome(s, asked)
        /\ status[s] # "none" /\ UNCHANGED reached
    BY <1>t, <1>5 DEF ReadEnd, TypeOK
  <2>2. EndOutcome(s, asked) \in Ended
    BY DEF EndOutcome
  <2>3. NoStaleReads /\ EndOutcome(s, asked) = "completed" => reached[s]
    BY <2>1 DEF EndOutcome, HandlerInv, LifeInv, Life
  <2>4. NoStaleReads' = NoStaleReads
    BY DEF NoStaleReads
  <2> QED BY <2>1, <2>2, <2>3, <2>4 DEF Phase, EarnedOutcome, S
<1>6. ASSUME NEW s \in Sessions, NEW m \in {"paired", "solo"}, ReadMode(h, s, m) PROVE Phase(h)'
  BY <1>t, <1>6 DEF ReadMode, Phase, TypeOK
<1>7. ASSUME NEW s \in Sessions, NEW route \in {"event", "render"}, ReadReport(h, s, route)
      PROVE  Phase(h)'
  BY <1>t, <1>7 DEF ReadReport, Phase, TypeOK
<1> QED BY <1>1, <1>2, <1>3, <1>4, <1>5, <1>6, <1>7 DEF Arrive

\* Under the lock a press is checked against the session as it is, and so is
\* what a participant's last press would record.
LEMMA PressPhase ==
    ASSUME HandlerInv, NEW h \in Handlers, AcceptPress(h) \/ FinishPress(h)
    PROVE  Phase(h)'
<1> USE DEF Goto
<1>t. TypeOK /\ req[h] \in Request /\ S(h) \in Sessions /\ Phase(h)
  BY HandlerType DEF HandlerInv, TypeInv, PhaseInv
<1>n. NoStaleReads => Reread(h) = {[status |-> status[S(h)], step |-> step[S(h)]]}
  BY DEF NoStaleReads, Reread
<1>s. NoStaleReads' = NoStaleReads
  BY DEF NoStaleReads
<1>1. CASE AcceptPress(h)
  <2>1. PICK now \in Reread(h) :
          /\ Accepted(h, now) /\ Target(req[h].press, now.step) # now.step
          /\ req' = [req EXCEPT ![h].from = now.step,
                                ![h].target = Target(req[h].press, now.step)]
    BY <1>1 DEF AcceptPress
  <2>2. /\ req'[h].from = now.step /\ req'[h].target # now.step
        /\ req'[h].press = req[h].press /\ req'[h].route = req[h].route
        /\ req'[h].outcome = req[h].outcome /\ S(h)' = S(h)
    BY <1>t, <2>1 DEF TypeOK, Request, S
  <2>3. pc'[h] = "moving" /\ UNCHANGED <<status, step, reached>>
    BY <1>t, <1>1 DEF AcceptPress, TypeOK
  <2>4. NoStaleReads => Moves(h)'
    BY <1>n, <2>1, <2>2, <2>3 DEF Accepted, Moves
  <2> QED BY <1>t, <1>s, <2>2, <2>3, <2>4 DEF Phase
<1>2. CASE FinishPress(h)
  <2>1. PICK now \in Reread(h) : Accepted(h, now) /\ Finishes(h, now)
    BY <1>2 DEF FinishPress
  <2>2. /\ req'[h].route = "ready" /\ req'[h].outcome = "completed" /\ S(h)' = S(h)
        /\ pc'[h] = "finishing" /\ UNCHANGED <<status, step, reached>>
    BY <1>t, <1>2, <2>1 DEF FinishPress, Finishes, TypeOK, Request, S
  <2>3. NoStaleReads => reached[S(h)]
    BY <1>t, <1>n, <2>1 DEF Accepted, Finishes, HandlerInv, LifeInv, Life
  <2> QED BY <1>s, <2>2, <2>3 DEF Phase, EarnedOutcome
<1> QED BY <1>1, <1>2

\* An end that finds the session active under the lock is the one that ends it.
LEMMA EndPhase ==
    ASSUME HandlerInv, NEW h \in Handlers,
           FindEnded(h) \/ FindActive(h) \/ LogEnd(h) \/ SetEnded(h) \/ SweepNext(h)
    PROVE  Phase(h)'
<1> USE DEF Goto
<1>t. TypeOK /\ req[h] \in Request /\ S(h) \in Sessions /\ Phase(h)
  BY HandlerType DEF HandlerInv, TypeInv, PhaseInv
<1>s. NoStaleReads' = NoStaleReads
  BY DEF NoStaleReads
<1>1. CASE FindEnded(h)
  BY <1>t, <1>1 DEF FindEnded, AfterEnd, TypeOK, Phase
<1>2. CASE FindActive(h) \/ LogEnd(h)
  <2>1. /\ pc'[h] \in {"ending", "endlogged"} /\ status[S(h)] = "active"
        /\ pc[h] \in {"finishing", "ending"} /\ req'[h] = req[h] /\ S(h)' = S(h)
        /\ UNCHANGED <<status, step, reached>>
    BY <1>t, <1>2 DEF FindActive, LogEnd, StillActive, TypeOK, Phase, S
  <2> QED BY <1>t, <1>s, <2>1 DEF Phase, EarnedOutcome
<1>3. CASE SetEnded(h)
  <2>1. CASE Finish(h)
    <3>1. pc'[h] = "idle" /\ req'[h] = NoRequest
      BY <1>t, <2>1 DEF Finish, TypeOK
    <3> QED BY <3>1 DEF Phase, NoRequest, Ask
  <2>2. CASE AfterEnd(h) /\ UNCHANGED req
    BY <1>t, <2>2 DEF AfterEnd, TypeOK, Phase
  <2> QED BY <1>3, <2>1, <2>2 DEF SetEnded
<1>4. CASE SweepNext(h)
  <2>1. /\ pc[h] = "sweeping" /\ pc'[h] = "finishing"
        /\ req'[h].route = req[h].route /\ req'[h].outcome = req[h].outcome
    <3>1. PICK stale \in req[h].todo :
            req' = [req EXCEPT ![h].s = stale[1], ![h].seen = stale[2],
                               ![h].todo = @ \ {stale}]
      BY <1>4 DEF SweepNext
    <3>2. req'[h].route = req[h].route /\ req'[h].outcome = req[h].outcome
      BY <1>t, <3>1 DEF TypeOK, Request
    <3> QED BY <1>t, <1>4, <3>2 DEF SweepNext, TypeOK
  <2> QED BY <1>t, <2>1 DEF Phase, EarnedOutcome
<1> QED BY <1>1, <1>2, <1>3, <1>4

\* The rest of a handler's steps finish, or go on with nothing more to know.
LEMMA PlainPhase ==
    ASSUME HandlerInv, NEW h \in Handlers,
           \/ LogStart(h) \/ ClearReady(h) \/ LogEvent(h) \/ LogRender(h) \/ SetMode(h)
           \/ LogMode(h) \/ LogReady(h) \/ SignalReady(h) \/ RefusePress(h) \/ SetStep(h)
           \/ LogAdvance(h) \/ LogAutoload(h) \/ SettleMove(h) \/ SweepDone(h) \/ ScanIdle(h)
    PROVE  Phase(h)'
<1> USE DEF Goto
<1>t. TypeOK /\ Phase(h)
  BY DEF HandlerInv, TypeInv, PhaseInv
<1>1. CASE Finish(h)
  <2>1. pc'[h] = "idle" /\ req'[h] = NoRequest
    BY <1>t, <1>1 DEF Finish, TypeOK
  <2> QED BY <2>1 DEF Phase, NoRequest, Ask
<1>2. CASE /\ UNCHANGED req
           /\ pc'[h] \in {"clearing", "remoded", "press", "signalling", "moved", "autoload", "settling"}
  BY <1>t, <1>2 DEF Phase
<1>3. CASE ScanIdle(h)
  <2>1. req'[h].route = "sweep" /\ req'[h].outcome = "abandoned" /\ pc'[h] = "sweeping"
    BY <1>t, <1>3 DEF ScanIdle, TypeOK, NoRequest, Ask
  <2> QED BY <2>1 DEF Phase
<1>4. CASE \/ ClearReady(h) \/ LogEvent(h) \/ LogRender(h) \/ LogMode(h) \/ SignalReady(h)
           \/ RefusePress(h) \/ SettleMove(h) \/ SweepDone(h)
  BY <1>1, <1>4 DEF ClearReady, LogEvent, LogRender, LogMode, SignalReady, RefusePress, SettleMove,
              SweepDone
<1>5. CASE LogStart(h) \/ LogReady(h) \/ LogAdvance(h) \/ LogAutoload(h)
  BY <1>t, <1>2, <1>5 DEF LogStart, LogReady, LogAdvance, LogAutoload, TypeOK
<1>6. CASE SetMode(h) \/ SetStep(h)
  BY <1>t, <1>1, <1>2, <1>6 DEF SetMode, SetStep, TypeOK
<1> QED BY <1>3, <1>4, <1>5, <1>6

LEMMA StepPhase ==
    ASSUME HandlerInv, NEW h \in Handlers, Arrive(h) \/ ScanIdle(h) \/ Work(h)
    PROVE  PhaseInv'
<1>1. Phase(h)'
  BY ArrivePhase, PressPhase, EndPhase, PlainPhase DEF Work
<1> QED BY <1>1, OthersPhase DEF PhaseInv

\* Starting, moving and ending a session leave it a life.
LEMMA StepLife ==
    ASSUME HandlerInv, NEW h \in Handlers, Arrive(h) \/ ScanIdle(h) \/ Work(h)
    PROVE  LifeInv'
<1> SUFFICES ASSUME NoStaleReads, NEW s \in Sessions PROVE Life(s)'
  BY DEF LifeInv, NoStaleReads
<1>1. TypeOK /\ Life(s) /\ Phase(h) /\ S(h) \in Sessions
  BY HandlerType DEF HandlerInv, TypeInv, LifeInv, PhaseInv
<1>2. ASSUME NEW r \in Sessions, Enroll(h, r) PROVE Life(s)'
  <2>1. Life(r)
    BY DEF HandlerInv, LifeInv
  <2> QED BY <1>1, <1>2, <2>1 DEF Enroll, Life, TypeOK
<1>3. CASE SetStep(h)
  <2>1. status[S(h)] = "active"
    BY <1>1, <1>3 DEF SetStep, Phase, Moves
  <2> QED BY <1>1, <1>3, <2>1 DEF SetStep, Life, TypeOK
<1>4. CASE SetEnded(h)
  <2>1. status[S(h)] = "active" /\ req[h].outcome \in Ended
    BY <1>1, <1>4 DEF SetEnded, Phase
  <2>2. EndStatus(h)[s] = status[s] \/ (status[s] = "active" /\ EndStatus(h)[s] \in Ended)
    BY <1>1, <2>1 DEF EndStatus, StillActive, TypeOK
  <2>3. UNCHANGED <<step, reached>> /\ status'[s] \in {status[s], EndStatus(h)[s]}
    BY <1>4 DEF SetEnded
  <2> QED BY <1>1, <2>2, <2>3 DEF Life
<1>5. CASE UNCHANGED <<status, step, reached>>
  BY <1>1, <1>5 DEF Life
<1> QED BY <1>2, <1>3, <1>4, <1>5, ThreeWriters

LEMMA InitHandlerInv == Init => HandlerInv
<1> SUFFICES ASSUME Init PROVE HandlerInv
  OBVIOUS
<1>1. LockInv
  BY DEF Init, LockInv, Held
<1>2. PhaseInv
  BY DEF Init, PhaseInv, Phase, NoRequest, Ask
<1>3. LifeInv
  BY DEF Init, LifeInv, Life
<1> QED BY <1>1, <1>2, <1>3, InitTypeInv DEF HandlerInv

LEMMA StepHandlerInv == HandlerInv /\ [Next]_vars => HandlerInv'
<1> SUFFICES ASSUME HandlerInv, [Next]_vars PROVE PhaseInv' /\ LifeInv'
  BY StepTypeInv, StepLockInv DEF HandlerInv
<1>1. ASSUME NEW h \in Handlers, Arrive(h) \/ ScanIdle(h) \/ Work(h) PROVE PhaseInv' /\ LifeInv'
  BY <1>1, StepPhase, StepLife
<1>2. CASE TimePasses \/ UNCHANGED vars
  BY <1>2 DEF TimePasses, vars, HandlerInv, PhaseInv, Phase, Moves, EarnedOutcome, LifeInv, Life,
              NoStaleReads, S
<1>3. CASE Crash
  <2>1. PhaseInv'
    BY <1>3 DEF Crash, PhaseInv, Phase, NoRequest, Ask
  <2>2. LifeInv'
    BY <1>3 DEF Crash, HandlerInv, LifeInv, Life, NoStaleReads
  <2> QED BY <2>1, <2>2
<1> QED BY <1>1, <1>2, <1>3 DEF Next

\* What PressMovesOnce asks of one step.
MovesOnce ==
    ("read" \notin Faults) =>
      \A s \in Sessions : step'[s] # step[s] =>
        /\ status[s] = "active"
        /\ \E h \in Handlers :
             /\ lock = h /\ S(h) = s
             /\ req[h].press.expect \in {NoIndex, step[s]}

\* A press made against a step moves the session from that step, and only while
\* it is active: however many Next presses of however many pages and panels were
\* made against the same step, one of them moves it.  (_advance under write_lock;
\* a read under the lock that fails makes it trust the row it read before.)
THEOREM PressesMoveOnce == Spec => PressMovesOnce
<1>1. Spec => []HandlerInv
  BY InitHandlerInv, StepHandlerInv, PTL DEF Spec
<1>2. HandlerInv /\ [Next]_vars => [MovesOnce]_vars
  <2> SUFFICES ASSUME HandlerInv, Next, NoStaleReads, NEW s \in Sessions, step'[s] # step[s]
               PROVE  /\ status[s] = "active"
                      /\ \E h \in Handlers :
                           /\ lock = h /\ S(h) = s
                           /\ req[h].press.expect \in {NoIndex, step[s]}
    BY DEF NoStaleReads, MovesOnce
  <2>1. TypeOK /\ LockInv /\ PhaseInv
    BY DEF HandlerInv, TypeInv
  <2>2. ASSUME NEW h \in Handlers, Arrive(h) \/ ScanIdle(h) \/ Work(h) PROVE SetStep(h)
    BY <2>2, ThreeWriters DEF Enroll, SetEnded
  <2>3. PICK h \in Handlers : SetStep(h)
    BY <2>2 DEF Next, TimePasses, Crash
  <2>4. S(h) = s /\ pc[h] = "moving" /\ lock = h
    BY <2>1, <2>3 DEF SetStep, TypeOK, LockInv, Held
  <2> QED BY <2>1, <2>4 DEF PhaseInv, Phase, Moves
<1>3. Spec => [][MovesOnce]_vars
  BY <1>1, <1>2, PTL DEF Spec
<1> QED BY <1>3 DEF PressMovesOnce, MovesOnce

\* Every step of the handlers, with failing writes and restarts, is a step of the
\* session's life as the study promises it, or changes nothing of it: a start, a
\* move while it is active, or its one end, as completed only if it has stood on
\* the last step.
LEMMA StepIsLifecycle ==
    ASSUME NoStaleReads, HandlerInv, [Next]_vars
    PROVE  [Lifecycle!LNext]_(Lifecycle!lvars)
<1> USE DEF Lifecycle!LNext, Lifecycle!lvars
<1>t. TypeOK
  BY DEF HandlerInv, TypeInv
<1>1. ASSUME NEW h \in Handlers, NEW s \in Sessions, Enroll(h, s) PROVE Lifecycle!LNext
  <2>1. step[s] = 0
    BY <1>1 DEF Enroll, HandlerInv, LifeInv, Life
  <2>2. Lifecycle!Start(s)
    BY <1>1, <2>1 DEF Enroll, Lifecycle!Start
  <2> QED BY <2>2
<1>2. ASSUME NEW h \in Handlers, SetStep(h) PROVE [Lifecycle!LNext]_(Lifecycle!lvars)
  <2>1. /\ S(h) \in Sessions /\ req[h].target \in Steps
        /\ status[S(h)] = "active" /\ req[h].target # step[S(h)]
    BY <1>t, <1>2, HandlerType DEF SetStep, HandlerInv, PhaseInv, Phase, Moves
  <2>2. CASE UNCHANGED <<step, quiet, reached>>
    BY <1>2, <2>2 DEF SetStep
  <2>3. CASE /\ step' = [step EXCEPT ![S(h)] = req[h].target]
             /\ reached' = [reached EXCEPT ![S(h)] = @ \/ req[h].target = LastStep]
    <3>1. Lifecycle!Move(S(h))
      BY <1>2, <2>1, <2>3 DEF SetStep, Lifecycle!Move
    <3> QED BY <2>1, <3>1
  <2> QED BY <1>2, <2>2, <2>3 DEF SetStep
<1>3. ASSUME NEW h \in Handlers, SetEnded(h) PROVE [Lifecycle!LNext]_(Lifecycle!lvars)
  <2>1. /\ S(h) \in Sessions /\ status[S(h)] = "active"
        /\ req[h].outcome \in Ended /\ EarnedOutcome(h)
    BY <1>t, <1>3, HandlerType DEF SetEnded, HandlerInv, PhaseInv, Phase
  <2>2. UNCHANGED <<step, reached>>
    BY <1>3 DEF SetEnded
  <2>3. CASE status' = EndStatus(h)
    <3>1. status' = [status EXCEPT ![S(h)] = req[h].outcome]
      BY <2>1, <2>3 DEF EndStatus, StillActive
    <3>2. Lifecycle!End(S(h))
      BY <2>1, <2>2, <3>1 DEF Lifecycle!End, EarnedOutcome
    <3> QED BY <2>1, <3>2
  <2>4. CASE UNCHANGED status
    BY <2>2, <2>4
  <2> QED BY <1>3, <2>3, <2>4 DEF SetEnded
<1>4. ASSUME NEW h \in Handlers, Arrive(h) \/ ScanIdle(h) \/ Work(h)
      PROVE  [Lifecycle!LNext]_(Lifecycle!lvars)
  BY <1>1, <1>2, <1>3, <1>4, ThreeWriters
<1>5. CASE TimePasses \/ Crash \/ UNCHANGED vars
  BY <1>5 DEF TimePasses, Crash, vars
<1> QED BY <1>4, <1>5 DEF Next

\* The handlers implement the abstract study session.
THEOREM SessionsLiveTheirLife ==
    ASSUME NoStaleReads
    PROVE  Spec => ImplementsLifecycle
<1>1. Spec => []HandlerInv
  BY InitHandlerInv, StepHandlerInv, PTL DEF Spec
<1>2. Init => Lifecycle!LInit
  BY DEF Init, Lifecycle!LInit
<1>3. HandlerInv /\ [Next]_vars => [Lifecycle!LNext]_(Lifecycle!lvars)
  BY StepIsLifecycle
<1> QED BY <1>1, <1>2, <1>3, PTL DEF Spec, ImplementsLifecycle, Lifecycle!LSpec

-----------------------------------------------------------------------------
(* What replaying a log gives *)

\* A set of positions that is not empty has a last one.
LEMMA MaxIs ==
    ASSUME NEW n \in Nat, NEW T \in SUBSET (1..n), T # {}
    PROVE  /\ Max(T) \in T
           /\ \A x \in T : Max(T) >= x
<1> DEFINE R == {p \in Nat \X Nat : p[1] < p[2]}
           U == {n - x : x \in T}
<1>1. IsWellFoundedOn(R, Nat)
  BY NatLessThanWellFounded DEF OpToRel
<1>2. U \subseteq Nat /\ U # {}
  <2>1. \A x \in T : x \in Nat /\ n - x \in Nat
    OBVIOUS
  <2>2. U \subseteq Nat
    BY <2>1
  <2>3. PICK x \in T : TRUE
    OBVIOUS
  <2>4. n - x \in U
    OBVIOUS
  <2> QED BY <2>2, <2>4
<1>3. PICK u \in U : \A v \in U : ~ (<<v, u>> \in R)
  <2> HIDE DEF R, U
  <2> QED BY <1>1, <1>2, WFMin
<1>4. PICK x \in T : u = n - x
  OBVIOUS
<1>5. ASSUME NEW y \in T PROVE x >= y
  <2>1. n - y \in U
    OBVIOUS
  <2>2. ~ (n - y < n - x)
    BY <1>2, <1>3, <1>4, <2>1
  <2>3. x \in Int /\ y \in Int
    OBVIOUS
  <2> QED BY <2>2, <2>3
<1> QED BY <1>5 DEF Max

\* The rows of a kind, after one more row.
LEMMA RowsOfAppended ==
    ASSUME NEW log \in Seq(Row), NEW row \in Row, NEW kind
    PROVE  /\ row.kind = kind => RowsOf(Append(log, row), kind) = RowsOf(log, kind) \cup {Len(log) + 1}
           /\ row.kind # kind => RowsOf(Append(log, row), kind) = RowsOf(log, kind)
           /\ \A i \in DOMAIN log : Append(log, row)[i] = log[i]
           /\ Append(log, row)[Len(log) + 1] = row
           /\ RowsOf(log, kind) \subseteq 1..Len(log)
BY DEF RowsOf

\* What a row was written upon does not change when more are written.
LEMMA PastStays ==
    ASSUME NEW log \in Seq(Row), NEW row \in Row, NEW i \in 1..(Len(log) + 1)
    PROVE  StepBefore(Append(log, row), i) = StepBefore(log, i)
<1> DEFINE new   == Append(log, row)
           moves == {j \in RowsOf(log, "step_advance") : j < i}
<1>1. {j \in RowsOf(new, "step_advance") : j < i} = moves
  <2>1. CASE row.kind = "step_advance"
    <3>1. RowsOf(new, "step_advance") = RowsOf(log, "step_advance") \cup {Len(log) + 1}
      BY <2>1, RowsOfAppended
    <3> QED BY <3>1
  <2>2. CASE row.kind # "step_advance"
    <3>1. RowsOf(new, "step_advance") = RowsOf(log, "step_advance")
      BY <2>2, RowsOfAppended
    <3> QED BY <3>1
  <2> QED BY <2>1, <2>2
<1>2. moves \in SUBSET (1..Len(log)) /\ Len(log) \in Nat
  BY DEF RowsOf
<1>3. CASE moves = {}
  BY <1>1, <1>3 DEF StepBefore
<1>4. CASE moves # {}
  <2>1. Max(moves) \in 1..Len(log)
    BY <1>2, <1>4, MaxIs
  <2>2. new[Max(moves)] = log[Max(moves)]
    BY <2>1, RowsOfAppended
  <2>3. StepBefore(new, i) = new[Max(moves)].step /\ StepBefore(log, i) = log[Max(moves)].step
    BY <1>1, <1>4 DEF StepBefore
  <2> QED BY <2>2, <2>3
<1> QED BY <1>3, <1>4

\* After a step_advance the session is where the row says; after any other row
\* it is where it was.
LEMMA PresentMoves ==
    ASSUME NEW log \in Seq(Row), NEW row \in Row
    PROVE  StepBefore(Append(log, row), Len(log) + 2) =
             IF row.kind = "step_advance" THEN row.step ELSE StepBefore(log, Len(log) + 1)
<1> DEFINE new   == Append(log, row)
           n     == Len(log)
           moves == {j \in RowsOf(new, "step_advance") : j < n + 2}
           old   == {j \in RowsOf(log, "step_advance") : j < n + 1}
<1>1. n \in Nat /\ RowsOf(log, "step_advance") \subseteq 1..n
  BY DEF RowsOf
<1>2. CASE row.kind = "step_advance"
  <2>1. RowsOf(new, "step_advance") = RowsOf(log, "step_advance") \cup {n + 1}
    BY <1>2, RowsOfAppended
  <2>2. moves \in SUBSET (1..(n + 1)) /\ n + 1 \in moves /\ moves # {}
    BY <1>1, <2>1
  <2>3. Max(moves) \in 1..(n + 1) /\ Max(moves) >= n + 1
    <3> HIDE DEF moves, n
    <3>1. n + 1 \in Nat
      BY <1>1
    <3> QED BY <2>2, <3>1, MaxIs
  <2>4. Max(moves) = n + 1
    BY <1>1, <2>3
  <2>5. new[n + 1] = row
    BY RowsOfAppended
  <2> QED BY <1>2, <2>2, <2>4, <2>5 DEF StepBefore
<1>3. CASE row.kind # "step_advance"
  <2>1. RowsOf(new, "step_advance") = RowsOf(log, "step_advance")
    BY <1>3, RowsOfAppended
  <2>2. moves = old
    BY <1>1, <2>1
  <2>3. StepBefore(new, n + 2) = StepBefore(new, n + 1)
    <3>1. {j \in RowsOf(new, "step_advance") : j < n + 1} = old
      BY <2>1
    <3> QED BY <2>2, <3>1 DEF StepBefore
  <2>4. StepBefore(new, n + 1) = StepBefore(log, n + 1)
    BY <1>1, PastStays
  <2> QED BY <1>3, <2>3, <2>4
<1> QED BY <1>2, <1>3

-----------------------------------------------------------------------------
(* What the log says of a session, when nothing fails *)

NextStep(s) == StepBefore(rows[s], Len(rows[s]) + 1)

\* Rows of the other kinds move nobody.
LEMMA NothingMoves ==
    ASSUME NEW s \in Sessions, rows[s] \in Seq(Row),
           \/ rows'[s] = rows[s]
           \/ \E row \in Row : rows'[s] = Append(rows[s], row) /\ row.kind # "step_advance"
    PROVE  /\ NextStep(s)' = NextStep(s)
           /\ \A i \in 1..(Len(rows[s]) + 1) : StepBefore(rows'[s], i) = StepBefore(rows[s], i)
           /\ \A i \in RowsOf(rows[s], "step_advance") : StepBefore(rows'[s], i) = StepBefore(rows[s], i)
<1>0. RowsOf(rows[s], "step_advance") \subseteq 1..(Len(rows[s]) + 1)
  BY DEF RowsOf
<1>1. CASE rows'[s] = rows[s]
  BY <1>1 DEF NextStep
<1>2. ASSUME NEW row \in Row, rows'[s] = Append(rows[s], row), row.kind # "step_advance"
      PROVE  /\ NextStep(s)' = NextStep(s)
             /\ \A i \in 1..(Len(rows[s]) + 1) : StepBefore(rows'[s], i) = StepBefore(rows[s], i)
  <2>1. Len(rows'[s]) + 1 = Len(rows[s]) + 2
    BY <1>2
  <2>2. StepBefore(rows'[s], Len(rows[s]) + 2) = StepBefore(rows[s], Len(rows[s]) + 1)
    BY <1>2, PresentMoves
  <2>3. \A i \in 1..(Len(rows[s]) + 1) : StepBefore(rows'[s], i) = StepBefore(rows[s], i)
    BY <1>2, PastStays
  <2> QED BY <2>1, <2>2, <2>3 DEF NextStep
<1> QED BY <1>0, <1>1, <1>2

Ends(s)     == RowsOf(rows[s], "session_end")

\* The one session_end, of an ended session or of one that is being ended.
EndsOnce(s) ==
    /\ \A i, j \in Ends(s) : i = j
    /\ \A i \in Ends(s) :
         status[s] \in Ended \/ \E h \in Handlers : pc[h] = "endlogged" /\ S(h) = s
    /\ status[s] \in Ended => \E i \in Ends(s) : rows[s][i].outcome = status[s]
    /\ \A h \in Handlers : pc[h] = "endlogged" /\ S(h) = s =>
         \E i \in Ends(s) : rows[s][i].outcome = req[h].outcome

\* The moves, reported one after the other; of the last one only the session
\* and the handler that made it may know yet.
Chained(s) ==
    /\ \A i \in RowsOf(rows[s], "step_advance") :
         /\ rows[s][i].from = StepBefore(rows[s], i)
         /\ rows[s][i].from # rows[s][i].step
    /\ (\A h \in Handlers : ~(pc[h] = "moved" /\ S(h) = s)) => step[s] = NextStep(s)
    /\ \A h \in Handlers : pc[h] = "moved" /\ S(h) = s =>
         /\ req[h].from = NextStep(s) /\ req[h].target = step[s]
         /\ req[h].from # req[h].target

RendersFiled(s) ==
    \A i \in RowsOf(rows[s], "render") :
      /\ rows[s][i].step = StepBefore(rows[s], i)
      /\ rows[s][i].clock = rows[s][i].step
      /\ \A j \in Ends(s) : i < j

RecordInv == NoFaults => \A s \in Sessions : EndsOnce(s) /\ Chained(s) /\ RendersFiled(s)

SessionInv == HandlerInv /\ RecordInv

\* What a row of each kind that matters here says.
Reports(h, row) ==
    /\ LogAdvance(h) <=> row.kind = "step_advance"
    /\ LogAdvance(h) => row.step = req[h].target /\ row.from = req[h].from
    /\ LogEnd(h) <=> row.kind = "session_end"
    /\ LogEnd(h) => row.outcome = req[h].outcome
    /\ row.kind = "render" =>
         /\ Free(h) /\ status[S(h)] = "active" /\ pc[h] = "resolved"
         /\ row.step = step[S(h)] /\ row.clock = step[S(h)]

\* When nothing fails every row is written.
LEMMA AlwaysWritten ==
    ASSUME NoFaults, NEW s \in Sessions, NEW row, Record(s, row)
    PROVE  rows' = [rows EXCEPT ![s] = Append(@, row)]
BY DEF NoFaults, Record

LEMMA Written ==
    ASSUME NoFaults, TypeInv, NEW h \in Handlers, Arrive(h) \/ ScanIdle(h) \/ Work(h)
    PROVE  \/ UNCHANGED rows /\ ~LogEnd(h) /\ ~LogAdvance(h)
           \/ \E row \in Row : /\ rows' = [rows EXCEPT ![S(h)] = Append(@, row)]
                               /\ Reports(h, row)
<1>h. /\ S(h) \in Sessions /\ req[h].seen \in Steps /\ req[h].from \in Steps
      /\ req[h].target \in Steps /\ req[h].outcome \in Ended \cup {"none"}
      /\ step[S(h)] \in Steps
  BY HandlerType DEF TypeInv, TypeOK
<1> DEFINE Wrote == \E row \in Row : /\ rows' = [rows EXCEPT ![S(h)] = Append(@, row)]
                                     /\ Reports(h, row)
<1>r. ASSUME NEW kind \in Kinds, NEW i \in Steps,
             Record(S(h), RowOf(S(h), kind, i)), Reports(h, RowOf(S(h), kind, i))
      PROVE  Wrote
  BY <1>h, <1>r, RowOfType, AlwaysWritten
<1>k. ASSUME NEW kind \in {"session_start", "session_mode", "model_autoload",
                           "participant_ready", "event"},
             NEW i \in Steps, Record(S(h), RowOf(S(h), kind, i)),
             pc[h] \notin {"moved", "ending"}
      PROVE  Wrote
  <2>1. kind \in Kinds /\ Reports(h, RowOf(S(h), kind, i))
    BY <1>k DEF Kinds, Reports, RowOf, LogAdvance, LogEnd
  <2> QED BY <1>k, <1>r, <2>1
<1>1. CASE LogStart(h) \/ LogEvent(h) \/ LogMode(h) \/ LogReady(h) \/ LogAutoload(h)
  BY <1>1, <1>h, <1>k DEF LogStart, LogEvent, LogMode, LogReady, LogAutoload
<1>2. CASE LogRender(h)
  <2>1. CASE status[S(h)] = "active"
    <3>1. Record(S(h), RowOf(S(h), "render", step[S(h)])) /\ Free(h)
      BY <1>2, <2>1 DEF LogRender
    <3>2. Reports(h, RowOf(S(h), "render", step[S(h)]))
      BY <1>2, <2>1, <3>1 DEF Reports, RowOf, LogRender, LogAdvance, LogEnd
    <3> QED BY <1>h, <1>r, <3>1, <3>2 DEF Kinds
  <2>2. CASE status[S(h)] # "active"
    BY <1>2, <2>2 DEF LogRender, LogEnd, LogAdvance
  <2> QED BY <2>1, <2>2
<1>3. CASE LogAdvance(h)
  <2> DEFINE plain == RowOf(S(h), "step_advance", req[h].target)
             row   == [plain EXCEPT !.from = req[h].from]
  <2>1. plain \in Row
    BY <1>h, RowOfType DEF Kinds
  <2>2. row \in Row /\ row.kind = "step_advance" /\ row.step = req[h].target /\ row.from = req[h].from
    BY <1>h, <2>1 DEF Row, RowOf
  <2>3. rows' = [rows EXCEPT ![S(h)] = Append(@, row)]
    BY <1>3, <1>h, AlwaysWritten DEF LogAdvance
  <2>4. Reports(h, row)
    <3>1. ~LogEnd(h)
      BY <1>3 DEF LogAdvance, LogEnd
    <3> HIDE DEF row
    <3> QED BY <1>3, <2>2, <3>1 DEF Reports
  <2> HIDE DEF row
  <2> QED BY <2>2, <2>3, <2>4
<1>4. CASE LogEnd(h)
  <2> DEFINE i     == IF req[h].route = "ready" THEN LastStep ELSE req[h].seen
             plain == RowOf(S(h), "session_end", i)
             row   == [plain EXCEPT !.outcome = req[h].outcome]
  <2>1. plain \in Row
    BY <1>h, RowOfType DEF Kinds
  <2>2. row \in Row /\ row.kind = "session_end" /\ row.outcome = req[h].outcome
    BY <1>h, <2>1 DEF Row, RowOf
  <2>3. rows' = [rows EXCEPT ![S(h)] = Append(@, row)]
    BY <1>4, <1>h, AlwaysWritten DEF LogEnd
  <2>4. Reports(h, row)
    <3>1. ~LogAdvance(h)
      BY <1>4 DEF LogAdvance, LogEnd
    <3> HIDE DEF row
    <3> QED BY <1>4, <2>2, <3>1 DEF Reports
  <2> HIDE DEF row
  <2> QED BY <2>2, <2>3, <2>4
<1>5. CASE Arrive(h)
  BY <1>5, Arrival DEF Enroll, LogEnd, LogAdvance
<1>6. CASE ScanIdle(h)
  BY <1>6 DEF ScanIdle, LogEnd, LogAdvance
<1>7. CASE \/ ClearReady(h) \/ SetMode(h) \/ SignalReady(h) \/ RefusePress(h) \/ AcceptPress(h)
           \/ FinishPress(h) \/ SetStep(h) \/ SettleMove(h) \/ FindEnded(h) \/ FindActive(h)
           \/ SetEnded(h) \/ SweepNext(h) \/ SweepDone(h)
  BY <1>7 DEF ClearReady, SetMode, SignalReady, RefusePress, AcceptPress, FinishPress, SetStep,
              SettleMove, FindEnded, FindActive, SetEnded, SweepNext, SweepDone, LogEnd, LogAdvance
<1> QED BY <1>1, <1>2, <1>3, <1>4, <1>5, <1>6, <1>7 DEF Work

\* The two phases in which a session's columns and its log differ.
LEMMA Between ==
    ASSUME TypeOK, NEW h \in Handlers, Arrive(h) \/ ScanIdle(h) \/ Work(h)
    PROVE  /\ pc'[h] = "endlogged" => LogEnd(h)
           /\ pc[h] = "endlogged" => SetEnded(h)
           /\ pc'[h] = "moved" => SetStep(h)
           /\ pc[h] = "moved" => LogAdvance(h)
<1> USE DEF Goto, Finish
<1>1. CASE Arrive(h)
  <2>1. CASE \E s \in Sessions : Enroll(h, s)
    BY <2>1 DEF TypeOK, Enroll
  <2>2. CASE \E label \in {"press", "resolved", "finishing"} :
               pc[h] = "idle" /\ pc' = [pc EXCEPT ![h] = label]
    BY <2>2 DEF TypeOK
  <2> QED BY <1>1, <2>1, <2>2, Arrival
<1>2. CASE ScanIdle(h)
  BY <1>2 DEF TypeOK, ScanIdle
<1>3. CASE \/ LogStart(h) \/ ClearReady(h) \/ LogEvent(h) \/ LogRender(h) \/ SetMode(h)
           \/ LogMode(h) \/ LogReady(h) \/ SignalReady(h) \/ RefusePress(h)
  BY <1>3 DEF TypeOK, LogStart, ClearReady, LogEvent, LogRender, SetMode, LogMode,
              LogReady, SignalReady, RefusePress
<1>4. CASE AcceptPress(h) \/ FinishPress(h) \/ LogAutoload(h) \/ SettleMove(h)
  BY <1>4 DEF TypeOK, AcceptPress, FinishPress, LogAutoload, SettleMove
<1>6. CASE SetStep(h) \/ LogAdvance(h)
  BY <1>6 DEF TypeOK, SetStep, LogAdvance
<1>5. CASE \/ FindEnded(h) \/ FindActive(h) \/ LogEnd(h) \/ SetEnded(h)
           \/ SweepNext(h) \/ SweepDone(h)
  BY <1>5 DEF TypeOK, FindEnded, FindActive, LogEnd, SetEnded, SweepNext, SweepDone, AfterEnd
<1> QED BY <1>1, <1>2, <1>3, <1>4, <1>5, <1>6 DEF Work

\* What is written to a session: nothing, or one row at the end of its log.
LEMMA OneRow ==
    ASSUME NoFaults, TypeInv, NEW h \in Handlers, Arrive(h) \/ ScanIdle(h) \/ Work(h),
           NEW s \in Sessions
    PROVE  \/ rows'[s] = rows[s] /\ ~(S(h) = s /\ (LogEnd(h) \/ LogAdvance(h)))
           \/ /\ S(h) = s
              /\ \E row \in Row : rows'[s] = Append(rows[s], row) /\ Reports(h, row)
<1>1. rows \in [Sessions -> Seq(Row)]
  BY DEF TypeInv, TypeOK
<1>2. CASE UNCHANGED rows /\ ~LogEnd(h) /\ ~LogAdvance(h)
  BY <1>2
<1>3. ASSUME NEW row \in Row, rows' = [rows EXCEPT ![S(h)] = Append(@, row)], Reports(h, row)
      PROVE  \/ rows'[s] = rows[s] /\ ~(S(h) = s /\ (LogEnd(h) \/ LogAdvance(h)))
             \/ /\ S(h) = s
                /\ rows'[s] = Append(rows[s], row) /\ Reports(h, row)
  BY <1>1, <1>3
<1> QED BY <1>2, <1>3, Written

\* The rows a session had stay, and those of a kind nobody writes are all.
LEMMA KindStays ==
    ASSUME TypeInv, NEW s \in Sessions, NEW kind,
           \/ rows'[s] = rows[s]
           \/ \E row \in Row : rows'[s] = Append(rows[s], row) /\ row.kind # kind
    PROVE  /\ RowsOf(rows[s], kind)' = RowsOf(rows[s], kind)
           /\ \A i \in RowsOf(rows[s], kind) : rows'[s][i] = rows[s][i]
<1>1. rows[s] \in Seq(Row)
  BY DEF TypeInv, TypeOK
<1>2. CASE rows'[s] = rows[s]
  BY <1>2 DEF RowsOf
<1>3. ASSUME NEW row \in Row, rows'[s] = Append(rows[s], row), row.kind # kind
      PROVE  /\ RowsOf(rows'[s], kind) = RowsOf(rows[s], kind)
             /\ \A i \in RowsOf(rows[s], kind) : rows'[s][i] = rows[s][i]
  <2>1. RowsOf(Append(rows[s], row), kind) = RowsOf(rows[s], kind)
    BY <1>1, <1>3, RowsOfAppended
  <2>2. \A i \in RowsOf(rows[s], kind) : i \in DOMAIN rows[s]
    BY DEF RowsOf
  <2>3. \A i \in DOMAIN rows[s] : Append(rows[s], row)[i] = rows[s][i]
    BY <1>1, RowsOfAppended
  <2> QED BY <1>3, <2>1, <2>2, <2>3
<1> QED BY <1>2, <1>3

\* A handler that is not ending the session leaves its end alone.
LEMMA EndsSame ==
    ASSUME SessionInv, NoFaults, NEW h \in Handlers, Arrive(h) \/ ScanIdle(h) \/ Work(h),
           NEW s \in Sessions, ~(S(h) = s /\ (LogEnd(h) \/ SetEnded(h)))
    PROVE  /\ Ends(s)' = Ends(s)
           /\ \A i \in Ends(s) : rows'[s][i] = rows[s][i]
           /\ status'[s] = status[s] \/ (status[s] = "none" /\ status'[s] = "active")
           /\ \A g \in Handlers :
                /\ (pc'[g] = "endlogged" /\ S(g)' = s) <=> (pc[g] = "endlogged" /\ S(g) = s)
                /\ pc[g] = "endlogged" /\ S(g) = s => req'[g] = req[g]
<1>1. TypeInv /\ TypeOK
  BY DEF SessionInv, HandlerInv, TypeInv
<1>2. /\ Ends(s)' = Ends(s)
      /\ \A i \in Ends(s) : rows'[s][i] = rows[s][i]
  <2>1. \/ rows'[s] = rows[s]
        \/ \E row \in Row : rows'[s] = Append(rows[s], row) /\ row.kind # "session_end"
    BY <1>1, OneRow DEF Reports
  <2> QED BY <1>1, <2>1, KindStays DEF Ends
<1>3. status'[s] = status[s] \/ (status[s] = "none" /\ status'[s] = "active")
  <2>1. ASSUME NEW r \in Sessions, Enroll(h, r)
        PROVE  status'[s] = status[s] \/ (status[s] = "none" /\ status'[s] = "active")
    BY <1>1, <2>1 DEF Enroll, TypeOK
  <2>2. CASE SetStep(h)
    BY <2>2 DEF SetStep
  <2>3. CASE SetEnded(h)
    BY <1>1, <2>3 DEF SetEnded, EndStatus, TypeOK
  <2> QED BY <2>1, <2>2, <2>3, ThreeWriters
<1>4. ASSUME NEW g \in Handlers
      PROVE  /\ (pc'[g] = "endlogged" /\ S(g)' = s) <=> (pc[g] = "endlogged" /\ S(g) = s)
             /\ pc[g] = "endlogged" /\ S(g) = s => req'[g] = req[g]
  <2>1. CASE g # h
    BY <1>1, <2>1, OthersStay
  <2>2. CASE g = h
    <3>1. LogEnd(h) => S(h)' = S(h)
      BY DEF LogEnd, S
    <3> QED BY <1>1, <2>2, <3>1, Between
  <2> QED BY <2>1, <2>2
<1> QED BY <1>2, <1>3, <1>4

\* Ending a session leaves it with its one end, in the log and in the status.
LEMMA StepEnds ==
    ASSUME SessionInv, NoFaults, NEW h \in Handlers, Arrive(h) \/ ScanIdle(h) \/ Work(h),
           NEW s \in Sessions
    PROVE  EndsOnce(s)'
<1>t. TypeInv /\ TypeOK /\ LockInv /\ Phase(h) /\ EndsOnce(s) /\ S(h) \in Sessions
  BY HandlerType DEF SessionInv, HandlerInv, TypeInv, PhaseInv, RecordInv
<1>r. rows[s] \in Seq(Row) /\ Ends(s) \subseteq DOMAIN rows[s]
  BY <1>t DEF TypeOK, Ends, RowsOf
<1>1. CASE S(h) = s /\ LogEnd(h)
  <2>1. /\ pc[h] = "ending" /\ lock = h /\ status[s] = "active" /\ UNCHANGED <<status, req>>
        /\ pc'[h] = "endlogged" /\ S(h)' = s
    BY <1>t, <1>1 DEF LogEnd, LockInv, Held, Phase, TypeOK, Goto, S
  <2>2. \A g \in Handlers : pc[g] # "endlogged"
    BY <1>t, <2>1 DEF LockInv, Held
  <2>3. Ends(s) = {}
    BY <1>t, <2>1, <2>2 DEF EndsOnce, Ended
  <2>4. PICK row \in Row : rows'[s] = Append(rows[s], row) /\ Reports(h, row)
    BY <1>t, <1>1, OneRow
  <2>5. row.kind = "session_end" /\ row.outcome = req[h].outcome
    BY <1>1, <2>4 DEF Reports
  <2>6. /\ RowsOf(rows'[s], "session_end") = {Len(rows[s]) + 1}
        /\ rows'[s][Len(rows[s]) + 1] = row
    <3>1. /\ RowsOf(Append(rows[s], row), "session_end")
               = RowsOf(rows[s], "session_end") \cup {Len(rows[s]) + 1}
          /\ Append(rows[s], row)[Len(rows[s]) + 1] = row
      <4>1. RowsOf(Append(rows[s], row), "session_end")
              = RowsOf(rows[s], "session_end") \cup {Len(rows[s]) + 1}
        BY <1>r, <2>5 DEF RowsOf
      <4> QED BY <1>r, <4>1
    <3> QED BY <2>3, <2>4, <3>1 DEF Ends
  <2>7. \A g \in Handlers : pc'[g] = "endlogged" => g = h
    BY <1>t, <1>1, <2>2, OthersStay
  <2> QED BY <2>1, <2>5, <2>6, <2>7 DEF EndsOnce, Ends, Ended
<1>2. CASE S(h) = s /\ SetEnded(h)
  <2>1. /\ pc[h] = "endlogged" /\ lock = h /\ status[s] = "active"
        /\ status' = EndStatus(h) /\ UNCHANGED <<rows, req>>
    BY <1>t, <1>2 DEF SetEnded, LockInv, Held, Phase, NoFaults
  <2>2. status'[s] = req[h].outcome
    BY <1>t, <1>2, <2>1 DEF EndStatus, StillActive, TypeOK
  <2>3. req[h].outcome \in Ended
    BY <1>t, <2>1 DEF Phase
  <2>4. \A g \in Handlers : pc'[g] # "endlogged"
    <3>1. pc'[h] # "endlogged"
      BY <1>t, <1>2, <2>1 DEF SetEnded, AfterEnd, Goto, TypeOK, NoFaults
    <3>2. \A g \in Handlers : g # h => pc'[g] = pc[g]
      BY <1>t, OthersStay
    <3>3. \A g \in Handlers : pc[g] = "endlogged" => g = h
      BY <1>t, <2>1 DEF LockInv, Held
    <3> QED BY <3>1, <3>2, <3>3
  <2>5. Ends(s)' = Ends(s)
    BY <2>1 DEF Ends
  <2>6. \E i \in Ends(s) : rows[s][i].outcome = req[h].outcome
    BY <1>t, <1>2, <2>1 DEF EndsOnce
  <2> QED BY <1>t, <2>1, <2>2, <2>3, <2>4, <2>5, <2>6 DEF EndsOnce
<1>3. CASE ~(S(h) = s /\ (LogEnd(h) \/ SetEnded(h)))
  <2>1. /\ Ends(s)' = Ends(s)
        /\ \A i \in Ends(s) : rows'[s][i] = rows[s][i]
        /\ status'[s] = status[s] \/ (status[s] = "none" /\ status'[s] = "active")
        /\ \A g \in Handlers :
             /\ (pc'[g] = "endlogged" /\ S(g)' = s) <=> (pc[g] = "endlogged" /\ S(g) = s)
             /\ pc[g] = "endlogged" /\ S(g) = s => req'[g] = req[g]
    BY <1>3, EndsSame
  <2> QED BY <1>t, <2>1 DEF EndsOnce, Ended
<1> QED BY <1>1, <1>2, <1>3

\* Between a move and the row that reports it, the handler that made it knows
\* both ends.
LEMMA StepChained ==
    ASSUME SessionInv, NoFaults, NEW h \in Handlers, Arrive(h) \/ ScanIdle(h) \/ Work(h),
           NEW s \in Sessions
    PROVE  Chained(s)'
<1>t. /\ TypeInv /\ TypeOK /\ LockInv /\ Phase(h) /\ Chained(s) /\ S(h) \in Sessions
      /\ NoStaleReads /\ rows[s] \in Seq(Row)
  BY HandlerType DEF SessionInv, HandlerInv, TypeInv, TypeOK, PhaseInv, RecordInv, NoFaults,
                    NoStaleReads
<1>m. \A g \in Handlers : pc[g] = "moved" => lock = g
  BY <1>t DEF LockInv, Held
<1>o. \A g \in Handlers : g # h => pc'[g] = pc[g] /\ req'[g] = req[g] /\ S(g)' = S(g)
  BY <1>t, OthersStay
<1> DEFINE ChainedRows(log) ==
             \A i \in RowsOf(log, "step_advance") :
               log[i].from = StepBefore(log, i) /\ log[i].from # log[i].step
<1>1. CASE S(h) = s /\ LogAdvance(h)
  <2>1. PICK row \in Row : rows'[s] = Append(rows[s], row) /\ Reports(h, row)
    BY <1>t, <1>1, OneRow
  <2>2. row.kind = "step_advance" /\ row.step = req[h].target /\ row.from = req[h].from
    BY <1>1, <2>1 DEF Reports
  <2>3. /\ pc[h] = "moved" /\ step' = step
        /\ req[h].from = NextStep(s) /\ req[h].target = step[s] /\ req[h].from # req[h].target
    BY <1>t, <1>1 DEF LogAdvance, Chained
  <2>4. ChainedRows(rows'[s])
    <3> SUFFICES ASSUME NEW i \in RowsOf(rows'[s], "step_advance")
                 PROVE  /\ rows'[s][i].from = StepBefore(rows'[s], i)
                        /\ rows'[s][i].from # rows'[s][i].step
      OBVIOUS
    <3>1. /\ RowsOf(Append(rows[s], row), "step_advance")
               = RowsOf(rows[s], "step_advance") \cup {Len(rows[s]) + 1}
          /\ Append(rows[s], row)[Len(rows[s]) + 1] = row
          /\ \A j \in DOMAIN rows[s] : Append(rows[s], row)[j] = rows[s][j]
          /\ RowsOf(rows[s], "step_advance") \subseteq 1..Len(rows[s])
      <4>1. RowsOf(Append(rows[s], row), "step_advance")
              = RowsOf(rows[s], "step_advance") \cup {Len(rows[s]) + 1}
        BY <1>t, <2>2 DEF RowsOf
      <4>2. /\ Append(rows[s], row)[Len(rows[s]) + 1] = row
            /\ \A j \in DOMAIN rows[s] : Append(rows[s], row)[j] = rows[s][j]
        BY <1>t
      <4> QED BY <1>t, <4>1, <4>2 DEF RowsOf
    <3>2. i \in 1..(Len(rows[s]) + 1)
      BY <1>t, <2>1, <3>1
    <3>3. StepBefore(rows'[s], i) = StepBefore(rows[s], i)
      BY <1>t, <2>1, <3>2, PastStays
    <3>4. CASE i = Len(rows[s]) + 1
      BY <2>1, <2>2, <2>3, <3>1, <3>3, <3>4 DEF NextStep
    <3>5. CASE i # Len(rows[s]) + 1
      <4>1. i \in RowsOf(rows[s], "step_advance") /\ i \in DOMAIN rows[s]
        BY <1>t, <2>1, <3>1, <3>5
      <4>2. rows'[s][i] = rows[s][i]
        BY <2>1, <3>1, <4>1
      <4> QED BY <1>t, <3>3, <4>1, <4>2 DEF Chained
    <3> QED BY <3>4, <3>5
  <2>5. NextStep(s)' = step'[s]
    <3>1. Len(rows'[s]) = Len(rows[s]) + 1
      BY <1>t, <2>1
    <3>2. StepBefore(rows'[s], Len(rows[s]) + 2) = row.step
      BY <1>t, <2>1, <2>2, PresentMoves
    <3> QED BY <1>t, <2>2, <2>3, <3>1, <3>2 DEF NextStep
  <2>6. \A g \in Handlers : pc'[g] # "moved"
    <3>1. pc'[h] # "moved"
      BY <1>t, <1>1 DEF LogAdvance, Goto, TypeOK
    <3> QED BY <1>m, <1>o, <2>3, <3>1
  <2> QED BY <2>4, <2>5, <2>6 DEF Chained
<1>2. CASE S(h) = s /\ SetStep(h)
  <2>1. /\ pc[h] = "moving" /\ pc' = [pc EXCEPT ![h] = "moved"]
        /\ step' = [step EXCEPT ![s] = req[h].target]
        /\ UNCHANGED <<rows, req>>
    BY <1>2 DEF SetStep, Goto, NoFaults
  <2>2. req[h].from = step[s] /\ req[h].target # step[s] /\ lock = h
    BY <1>t, <1>2, <2>1 DEF Phase, Moves, LockInv, Held
  <2>3. \A g \in Handlers : pc[g] # "moved"
    BY <1>m, <2>1, <2>2
  <2>4. step[s] = NextStep(s)
    BY <1>t, <2>3 DEF Chained
  <2>5. step'[s] = req[h].target /\ NextStep(s)' = NextStep(s)
    BY <1>t, <2>1 DEF NextStep, TypeOK
  <2>6. \A g \in Handlers : pc'[g] = "moved" /\ S(g)' = s => g = h
    BY <1>o, <2>3
  <2>7. pc'[h] = "moved" /\ S(h)' = s
    BY <1>t, <1>2, <2>1 DEF TypeOK, S
  <2> QED BY <1>t, <2>1, <2>2, <2>4, <2>5, <2>6, <2>7 DEF Chained
<1>3. CASE ~(S(h) = s /\ (LogAdvance(h) \/ SetStep(h)))
  <2>1. \/ rows'[s] = rows[s]
        \/ \E row \in Row : rows'[s] = Append(rows[s], row) /\ row.kind # "step_advance"
    BY <1>t, <1>3, OneRow DEF Reports
  <2>2. /\ RowsOf(rows[s], "step_advance")' = RowsOf(rows[s], "step_advance")
        /\ \A i \in RowsOf(rows[s], "step_advance") : rows'[s][i] = rows[s][i]
    BY <1>t, <2>1, KindStays
  <2>3. /\ NextStep(s)' = NextStep(s)
        /\ \A i \in RowsOf(rows[s], "step_advance") :
             StepBefore(rows'[s], i) = StepBefore(rows[s], i)
    BY <1>t, <2>1, NothingMoves
  <2>4. step'[s] = step[s]
    <3>1. CASE SetStep(h)
      BY <1>t, <1>3, <3>1 DEF SetStep, TypeOK
    <3>2. CASE ~SetStep(h)
      BY <3>2, ThreeWriters DEF Enroll, SetEnded
    <3> QED BY <3>1, <3>2
  <2>5. \A g \in Handlers :
          /\ (pc'[g] = "moved" /\ S(g)' = s) <=> (pc[g] = "moved" /\ S(g) = s)
          /\ pc[g] = "moved" /\ S(g) = s => req'[g] = req[g]
    <3> SUFFICES ASSUME NEW g \in Handlers
                 PROVE  /\ (pc'[g] = "moved" /\ S(g)' = s) <=> (pc[g] = "moved" /\ S(g) = s)
                        /\ pc[g] = "moved" /\ S(g) = s => req'[g] = req[g]
      OBVIOUS
    <3>1. CASE g # h
      BY <1>o, <3>1
    <3>2. CASE g = h
      <4>1. SetStep(h) /\ pc'[h] = "moved" => S(h)' = S(h)
        BY <1>t DEF SetStep, S, Finish, Goto, NoFaults
      <4> QED BY <1>t, <1>3, <3>2, <4>1, Between
    <3> QED BY <3>1, <3>2
  <2> QED BY <1>t, <2>2, <2>3, <2>4, <2>5 DEF Chained
<1> QED BY <1>1, <1>2, <1>3

\* A render finds no move under way and no end begun: whoever makes one holds the
\* lock it takes.
LEMMA StepRenders ==
    ASSUME SessionInv, NoFaults, NEW h \in Handlers, Arrive(h) \/ ScanIdle(h) \/ Work(h),
           NEW s \in Sessions
    PROVE  RendersFiled(s)'
<1>t. /\ TypeInv /\ TypeOK /\ LockInv /\ RendersFiled(s) /\ EndsOnce(s) /\ Chained(s)
      /\ rows[s] \in Seq(Row)
  BY DEF SessionInv, HandlerInv, TypeInv, TypeOK, RecordInv
<1>b. /\ RowsOf(rows[s], "render") \subseteq 1..Len(rows[s])
      /\ Ends(s) \subseteq 1..Len(rows[s])
  BY <1>t DEF RowsOf, Ends
<1>1. CASE rows'[s] = rows[s]
  BY <1>t, <1>1 DEF RendersFiled, Ends
<1>2. ASSUME NEW row \in Row, rows'[s] = Append(rows[s], row), S(h) = s, Reports(h, row)
      PROVE  RendersFiled(s)'
  <2> DEFINE n == Len(rows[s])
  <2>1. /\ rows'[s][n + 1] = row
        /\ \A i \in 1..n : rows'[s][i] = rows[s][i]
        /\ \A i \in 1..n : StepBefore(rows'[s], i) = StepBefore(rows[s], i)
        /\ StepBefore(rows'[s], n + 1) = NextStep(s)
    <3>1. \A i \in 1..(n + 1) : StepBefore(rows'[s], i) = StepBefore(rows[s], i)
      BY <1>t, <1>2, PastStays
    <3> QED BY <1>t, <1>2, <3>1 DEF NextStep
  <2>2. CASE row.kind = "render"
    <3>1. /\ row.step = step[s] /\ row.clock = step[s] /\ Free(h) /\ status[s] = "active"
          /\ pc[h] = "resolved"
      BY <1>2, <2>2 DEF Reports
    <3>2. \A g \in Handlers : pc[g] \notin {"moved", "endlogged"}
      BY <1>t, <3>1 DEF Free, LockInv, Held
    <3>3. step[s] = NextStep(s) /\ Ends(s) = {}
      BY <1>t, <3>1, <3>2 DEF Chained, EndsOnce, Ended
    <3>4. /\ RowsOf(rows'[s], "render") = RowsOf(rows[s], "render") \cup {n + 1}
          /\ Ends(s)' = {}
      BY <1>t, <1>2, <2>2, <3>3 DEF RowsOf, Ends
    <3> QED BY <1>t, <1>b, <2>1, <3>1, <3>3, <3>4 DEF RendersFiled
  <2>3. CASE row.kind # "render"
    <3>1. /\ RowsOf(rows'[s], "render") = RowsOf(rows[s], "render")
          /\ Ends(s)' \subseteq Ends(s) \cup {n + 1}
      BY <1>t, <1>2, <2>3 DEF RowsOf, Ends
    <3>2. \A i \in RowsOf(rows[s], "render") : i \in 1..n /\ i < n + 1
      BY <1>b
    <3> QED BY <1>t, <1>b, <2>1, <3>1, <3>2 DEF RendersFiled
  <2> QED BY <2>2, <2>3
<1> QED BY <1>t, <1>1, <1>2, OneRow

\* Every session starts with an empty log and on its first step.
LEMMA InitSessionInv == Init => SessionInv
<1> SUFFICES ASSUME Init PROVE RecordInv
  BY InitHandlerInv DEF SessionInv
<1>1. ASSUME NEW s \in Sessions PROVE EndsOnce(s) /\ Chained(s) /\ RendersFiled(s)
  <2>1. \A kind : RowsOf(rows[s], kind) = {}
    BY DEF Init, RowsOf
  <2>2. NextStep(s) = 0
    BY <2>1 DEF NextStep, StepBefore
  <2>3. /\ status[s] = "none" /\ step[s] = 0 /\ \A h \in Handlers : pc[h] = "idle"
    BY DEF Init
  <2>4. EndsOnce(s)
    BY <2>1, <2>3 DEF EndsOnce, Ends
  <2>5. Chained(s)
    BY <2>1, <2>2, <2>3 DEF Chained
  <2>6. RendersFiled(s)
    BY <2>1 DEF RendersFiled
  <2> QED BY <2>4, <2>5, <2>6
<1> QED BY <1>1 DEF RecordInv

LEMMA StepSessionInv == SessionInv /\ [Next]_vars => SessionInv'
<1> SUFFICES ASSUME SessionInv, [Next]_vars, NoFaults, NEW s \in Sessions
             PROVE  (EndsOnce(s) /\ Chained(s) /\ RendersFiled(s))'
  BY StepHandlerInv DEF SessionInv, RecordInv, NoFaults
<1>1. ASSUME NEW h \in Handlers, Arrive(h) \/ ScanIdle(h) \/ Work(h)
      PROVE  (EndsOnce(s) /\ Chained(s) /\ RendersFiled(s))'
  BY <1>1, StepEnds, StepChained, StepRenders
<1>2. CASE TimePasses \/ UNCHANGED vars
  <2>1. UNCHANGED <<status, step, rows, pc, req>>
    BY <1>2 DEF TimePasses, vars
  <2>2. EndsOnce(s) /\ Chained(s) /\ RendersFiled(s)
    BY DEF SessionInv, RecordInv
  <2> QED BY <2>1, <2>2 DEF EndsOnce, Chained, RendersFiled, Ends, NextStep, S
<1>3. ~Crash
  BY DEF Crash, NoFaults
<1> QED BY <1>1, <1>2, <1>3 DEF Next

LEMMA SessionInvHolds == Spec => []SessionInv
BY InitSessionInv, StepSessionInv, PTL DEF Spec

\* Replaying the step_advance rows gives the session's step: each says truly
\* where it came from, and none is missing but that of a move under way.
\* (_advance: the UPDATE and its event under one hold of write_lock.)
THEOREM AdvancesAreChained == Spec => []AdvancesChain
<1>1. SessionInv => AdvancesChain
  BY DEF SessionInv, RecordInv, AdvancesChain, Chained, Moving, NextStep
<1> QED BY <1>1, SessionInvHolds, PTL

\* A render is filed under the step the log says the session was on, with its
\* clock, and before any end.  (record_render reads the session again under
\* write_lock.)
THEOREM RendersFiledInOrder == Spec => []RendersFollowAdvances
<1>1. SessionInv => RendersFollowAdvances
  BY DEF SessionInv, RecordInv, RendersFollowAdvances, RendersFiled, Ends
<1> QED BY <1>1, SessionInvHolds, PTL

\* However many handlers end a session, its log has one session_end at most.
\* (end_session checks the status under the lock it writes under.)
THEOREM OneSessionEnd == Spec => []OneEnd
<1>1. ASSUME SessionInv, NoFaults, NEW s \in Sessions PROVE Cardinality(Ends(s)) <= 1
  <2>1. \A i, j \in Ends(s) : i = j
    BY <1>1 DEF SessionInv, RecordInv, EndsOnce
  <2>2. CASE Ends(s) = {}
    BY <2>2, FS_EmptySet
  <2>3. CASE Ends(s) # {}
    <3>1. PICK i \in Ends(s) : TRUE
      BY <2>3
    <3>2. Ends(s) = {i}
      BY <2>1, <3>1
    <3>3. Cardinality({i}) = 1
      BY FS_Singleton
    <3> QED BY <3>2, <3>3
  <2> QED BY <2>2, <2>3
<1>2. SessionInv => OneEnd
  BY <1>1 DEF OneEnd, Ends
<1> QED BY <1>2, SessionInvHolds, PTL

\* A session that has ended has the row that says so, with the same outcome: the
\* log is never behind the status.  (end_session logs before the UPDATE.)
THEOREM EndIsLogged == Spec => []EndLogged
<1>1. SessionInv => EndLogged
  BY DEF SessionInv, RecordInv, EndLogged, EndsOnce, Ends
<1> QED BY <1>1, SessionInvHolds, PTL
=============================================================================
