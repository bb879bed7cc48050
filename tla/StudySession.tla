---------------------------- MODULE StudySession ----------------------------
(***************************************************************************)
(* The study engine's request handlers (app/studies/engine.py) over the    *)
(* study database (app/studies/store.py).  The server runs one thread per  *)
(* request.  A handler first reads the session row without a lock, decides *)
(* from what it read, and then does its work in one or more sections under *)
(* StudyStore.write_lock; other handlers' steps fall between any two of    *)
(* those steps.  One action below is one database commit, one unlocked     *)
(* read, or one change of the in-memory ready signals.                     *)
(*                                                                         *)
(* Faults says which failures can happen: "write" (a database write        *)
(* raises), "read" (a read inside a locked section fails, which the store  *)
(* reports as "no session"), "crash" (the process is killed and started    *)
(* again: the database survives, everything in memory is lost).            *)
(***************************************************************************)
EXTENDS Integers, Sequences, FiniteSets, FiniteSetsExt

CONSTANTS
    Handlers,    \* the request threads
    Sessions,    \* the study sessions that may be started
    LastStep,    \* the index of the protocol's last step
    ModelSteps,  \* the steps that put a model on the display
    Routes,      \* the routes in play, a subset of AllRoutes
    Faults,      \* the failures in play, a subset of AllFaults
    Presses,     \* what the pages may send with a press, a subset of AllPresses
    MaxRows,     \* bound: no request starts on a session with this many rows
    None         \* "no ready signal", and "nobody holds the lock"

AllRoutes == {"start", "advance", "end", "mode", "ready", "back", "event",
              "render", "sweep"}
AllFaults == {"write", "read", "crash"}
Steps == 0..LastStep
NoIndex == -1
Ended == {"completed", "abandoned"}

\* expect: from_index, the step the page was showing; dir, jump: the direction
\* asked for, or the absolute step.
AllPresses == [expect: Steps \cup {NoIndex}, dir: {"next", "previous"},
               jump: Steps \cup {NoIndex}]

Relative(dir, expect) == [expect |-> expect, dir |-> dir, jump |-> NoIndex]

ASSUME ConstantsAssumption ==
    /\ Sessions # {}
    /\ LastStep \in Nat
    /\ MaxRows \in Nat
    /\ ModelSteps \subseteq Steps
    /\ Routes \subseteq AllRoutes
    /\ Faults \subseteq AllFaults
    /\ Presses \subseteq AllPresses
    /\ None \notin Handlers
    /\ None \notin Steps

VARIABLES
    status,   \* study_sessions.status, "none" before the row exists
    step,     \* study_sessions.step_index
    mode,     \* study_sessions.mode
    rows,     \* study_events and study_renders, in the order of insertion
    quiet,    \* nothing has happened in the session for the idle timeout
    ready,    \* runtime.ready_signals: the step a participant was ready on
    lock,     \* who holds StudyStore.write_lock between two actions
    pc,       \* where each handler is
    req,      \* what each handler's request is and what it has read
    reached   \* history: the session has stood on its last step

vars == <<status, step, mode, rows, quiet, ready, lock, pc, req, reached>>

Kinds == {"session_start", "session_mode", "session_end", "step_advance",
          "model_autoload", "participant_ready", "event", "render"}

Row == [seq: Nat, kind: Kinds, step: Steps, clock: Steps,
        from: Steps \cup {NoIndex}, outcome: Ended \cup {"none"}]

(***************************************************************************)
(* A request: what the page sent and what the unlocked read returned.      *)
(*   seen, mode    the step and mode read ("mode" on the mode route is the *)
(*                 mode asked for)                                         *)
(*   press         the press, on the routes that make one                  *)
(*   from, target  the move _advance is making                             *)
(*   outcome       how the session is to end                               *)
(*   todo          the rest of a sweep's list of idle sessions             *)
(***************************************************************************)
Request ==
    [route: AllRoutes \cup {"none"}, s: Sessions, seen: Steps,
     mode: {"paired", "solo"}, press: AllPresses,
     from: Steps, target: Steps, outcome: Ended \cup {"none"},
     todo: SUBSET (Sessions \X Steps)]

Ask(route, s) ==
    [route |-> route, s |-> s, seen |-> 0, mode |-> "paired",
     press |-> Relative("next", NoIndex), from |-> 0, target |-> 0,
     outcome |-> "none", todo |-> {}]

NoRequest == Ask("none", CHOOSE s \in Sessions : TRUE)

Labels == {"idle", "enrolled", "resolved", "remoded", "press", "moving",
           "moved", "autoload", "settling", "finishing", "ending",
           "endlogged", "clearing", "signalling", "sweeping"}

TypeOK ==
    /\ status \in [Sessions -> {"none", "active"} \cup Ended]
    /\ step \in [Sessions -> Steps]
    /\ mode \in [Sessions -> {"paired", "solo"}]
    /\ rows \in [Sessions -> Seq(Row)]
    /\ quiet \in [Sessions -> BOOLEAN]
    /\ ready \in [Sessions -> Steps \cup {None}]
    /\ lock \in Handlers \cup {None}
    /\ pc \in [Handlers -> Labels]
    /\ req \in [Handlers -> Request]
    /\ reached \in [Sessions -> BOOLEAN]

Init ==
    /\ status = [s \in Sessions |-> "none"]
    /\ step = [s \in Sessions |-> 0]
    /\ mode = [s \in Sessions |-> "paired"]
    /\ rows = [s \in Sessions |-> <<>>]
    /\ quiet = [s \in Sessions |-> FALSE]
    /\ ready = [s \in Sessions |-> None]
    /\ lock = None
    /\ pc = [h \in Handlers |-> "idle"]
    /\ req = [h \in Handlers |-> NoRequest]
    /\ reached = [s \in Sessions |-> FALSE]

-----------------------------------------------------------------------------
(* Helpers *)

\* The two tables share one counter per session.
EventSeqs(log) == {log[i].seq : i \in {j \in DOMAIN log : log[j].kind # "render"}}
RenderSeqs(log) == {log[i].seq : i \in {j \in DOMAIN log : log[j].kind = "render"}}
SeqOfEvents(log) == Max({0} \cup EventSeqs(log)) + 1    \* mutant: renders not counted
NextSeq(log) == Max({0} \cup EventSeqs(log) \cup RenderSeqs(log)) + 1

\* A row of session s as it stands now: filed under step i, with the clock of
\* the step the session is on.
RowOf(s, kind, i) ==
    [seq |-> NextSeq(rows[s]), kind |-> kind, step |-> i, clock |-> step[s],
     from |-> NoIndex, outcome |-> "none"]

\* The insert and its commit.  A failed read or a failed write is counted and
\* the request carries on without the row.
Record(s, row) ==
    \/ /\ rows' = [rows EXCEPT ![s] = Append(@, row)]
       /\ quiet' = [quiet EXCEPT ![s] = FALSE]
    \/ /\ Faults \cap {"read", "write"} # {}
       /\ UNCHANGED <<rows, quiet>>

FreeAlways(h) == h \in Handlers    \* mutant: a section that takes no lock
Free(h) == lock \in {h, None}      \* the lock is re-entrant

Goto(h, label) == pc' = [pc EXCEPT ![h] = label]

Finish(h) ==
    /\ Goto(h, "idle")
    /\ req' = [req EXCEPT ![h] = NoRequest]

KeepLock(h) == lock' = IF lock = h THEN h ELSE lock    \* mutant: never released
Unlock(h) == lock' = IF lock = h THEN None ELSE lock

S(h) == req[h].s

-----------------------------------------------------------------------------
(* Starting a session *)

\* One transaction inserts the session row; a failure rolls it back and there
\* is nothing to model.  The row is visible before session_start is logged.
Enroll(h, s) ==
    /\ "start" \in Routes
    /\ pc[h] = "idle" /\ Free(h) /\ status[s] = "none"
    /\ status' = [status EXCEPT ![s] = "active"]
    /\ quiet' = [quiet EXCEPT ![s] = FALSE]
    /\ reached' = [reached EXCEPT ![s] = LastStep = 0]
    /\ req' = [req EXCEPT ![h] = Ask("start", s)]
    /\ Goto(h, "enrolled")
    /\ UNCHANGED <<step, mode, rows, ready, lock>>

LogStart(h) ==
    /\ pc[h] = "enrolled" /\ Free(h)
    /\ Record(S(h), RowOf(S(h), "session_start", 0))
    /\ Goto(h, "clearing")
    /\ UNCHANGED <<status, step, mode, ready, lock, req, reached>>

\* runtime.ready_signals.pop, outside the lock
ClearReady(h) ==
    /\ pc[h] = "clearing"
    /\ ready' = [ready EXCEPT ![S(h)] = None]
    /\ Finish(h)
    /\ UNCHANGED <<status, step, mode, rows, quiet, lock, reached>>

-----------------------------------------------------------------------------
(* The unlocked read every other request begins with.  A participant's     *)
(* request finds its session by its key and only while it is active; the   *)
(* panel's finds the session it names, or the only active one.             *)

Begin(h, r, label) ==
    /\ r.route \in Routes
    /\ pc[h] = "idle"
    /\ Len(rows[r.s]) < MaxRows
    /\ req' = [req EXCEPT ![h] = [r EXCEPT !.seen = step[r.s]]]
    /\ Goto(h, label)
    /\ UNCHANGED <<status, step, mode, rows, quiet, ready, lock, reached>>

\* study_step_advance: Next, Previous, or a step from the panel's list.
ReadAdvance(h, s, p) ==
    /\ status[s] = "active"
    /\ Begin(h, [Ask("advance", s) EXCEPT !.press = p], "press")

\* study_step_back: a participant's, and refused unless the session is solo.
ReadBack(h, s, p) ==
    /\ status[s] = "active" /\ mode[s] = "solo"
    /\ p.dir = "previous" /\ p.jump = NoIndex
    /\ Begin(h, [Ask("back", s) EXCEPT !.mode = "solo", !.press = p], "press")

\* study_step_ready
ReadReady(h, s, p) ==
    /\ status[s] = "active"
    /\ p.dir = "next" /\ p.jump = NoIndex
    /\ Begin(h, [Ask("ready", s) EXCEPT !.mode = mode[s], !.press = p], "resolved")

\* Completed only from the last step, and only if nobody asked otherwise.
AsAsked(s, asked) == asked    \* mutant: End records what it was asked for
EndOutcome(s, asked) ==
    IF step[s] = LastStep /\ asked # "abandoned" THEN "completed" ELSE "abandoned"

\* study_session_end: how the session will be recorded is decided here, from
\* the step this read returned.
ReadEnd(h, s, asked) ==
    /\ status[s] # "none"
    /\ Begin(h, [Ask("end", s) EXCEPT !.outcome = EndOutcome(s, asked)], "finishing")

\* study_session_mode
ReadMode(h, s, m) ==
    /\ status[s] # "none"
    /\ Begin(h, [Ask("mode", s) EXCEPT !.mode = m], "resolved")

\* study_event and the render hook
ReadReport(h, s, route) ==
    /\ status[s] = "active"
    /\ Begin(h, Ask(route, s), "resolved")

-----------------------------------------------------------------------------
(* Reports: one row each *)

\* Filed under the step the unlocked read found.
LogEvent(h) ==
    /\ pc[h] = "resolved" /\ req[h].route = "event" /\ Free(h)
    /\ Record(S(h), RowOf(S(h), "event", req[h].seen))
    /\ Finish(h)
    /\ UNCHANGED <<status, step, mode, ready, lock, reached>>

\* The session is read again under the lock: dropped once it has ended, and
\* filed under the step it is on now.
LogRender(h) ==
    /\ pc[h] = "resolved" /\ req[h].route = "render" /\ Free(h)
    /\ IF status[S(h)] = "active"
         THEN Record(S(h), RowOf(S(h), "render", step[S(h)]))
         ELSE UNCHANGED <<rows, quiet>>
    /\ Finish(h)
    /\ UNCHANGED <<status, step, mode, ready, lock, reached>>

-----------------------------------------------------------------------------
(* Switching between one machine and two: two sections *)

SetMode(h) ==
    /\ pc[h] = "resolved" /\ req[h].route = "mode" /\ Free(h)
    /\ \/ /\ mode' = [mode EXCEPT ![S(h)] = req[h].mode]
          /\ Goto(h, "remoded")
          /\ UNCHANGED req
       \/ /\ "write" \in Faults
          /\ Finish(h)
          /\ UNCHANGED mode
    /\ UNCHANGED <<status, step, rows, quiet, ready, lock, reached>>

LogMode(h) ==
    /\ pc[h] = "remoded" /\ Free(h)
    /\ Record(S(h), RowOf(S(h), "session_mode", req[h].seen))
    /\ Finish(h)
    /\ UNCHANGED <<status, step, mode, ready, lock, reached>>

-----------------------------------------------------------------------------
(* Ready: logged first; then a signal to the panel, or in a solo session a *)
(* press that moves the session on.                                        *)

LogReady(h) ==
    /\ pc[h] = "resolved" /\ req[h].route = "ready" /\ Free(h)
    /\ Record(S(h), RowOf(S(h), "participant_ready", req[h].seen))
    /\ Goto(h, IF req[h].mode = "solo" THEN "press" ELSE "signalling")
    /\ UNCHANGED <<status, step, mode, ready, lock, req, reached>>

SignalReady(h) ==
    /\ pc[h] = "signalling"
    /\ ready' = [ready EXCEPT ![S(h)] = req[h].seen]
    /\ Finish(h)
    /\ UNCHANGED <<status, step, mode, rows, quiet, lock, reached>>

-----------------------------------------------------------------------------
(* A press: read again, checked and moved under one lock *)

\* mutant: the row read before the lock is trusted under it
ReadBefore(h) == {[status |-> status[S(h)], step |-> req[h].seen]}
\* get_study_session(...) or session: a failed read falls back to the row the
\* handler resolved with, which was active.
Reread(h) ==
    {[status |-> status[S(h)], step |-> step[S(h)]]}
        \cup IF "read" \in Faults
             THEN {[status |-> "active", step |-> req[h].seen]} ELSE {}

ClampLow(i) == IF i < 0 THEN 0 ELSE i    \* mutant: no upper bound
Clamp(i) == IF i < 0 THEN 0 ELSE IF i > LastStep THEN LastStep ELSE i

Target(p, current) ==
    Clamp(IF p.jump # NoIndex THEN p.jump
          ELSE IF p.dir = "previous" THEN current - 1 ELSE current + 1)

AcceptedAny(h, now) == now.status = "active"    \* mutant: from_index ignored
\* The press is against the step the session is on, and asks for another one.
Accepted(h, now) ==
    now.status = "active" /\ req[h].press.expect \in {NoIndex, now.step}

Finishes(h, now) == req[h].route = "ready" /\ now.step = LastStep

\* Refused as made against a step already left, or nothing to do.
RefusePress(h) ==
    /\ pc[h] = "press" /\ Free(h)
    /\ \E now \in Reread(h) :
         \/ ~Accepted(h, now)
         \/ ~Finishes(h, now) /\ Target(req[h].press, now.step) = now.step
    /\ Finish(h)
    /\ UNCHANGED <<status, step, mode, rows, quiet, ready, lock, reached>>

AcceptPress(h) ==
    /\ pc[h] = "press" /\ Free(h)
    /\ \E now \in Reread(h) :
         /\ Accepted(h, now) /\ ~Finishes(h, now)
         /\ Target(req[h].press, now.step) # now.step
         /\ req' = [req EXCEPT ![h].from = now.step,
                               ![h].target = Target(req[h].press, now.step)]
    /\ lock' = h
    /\ Goto(h, "moving")
    /\ UNCHANGED <<status, step, mode, rows, quiet, ready, reached>>

\* Ready on the last step of a solo session ends it.
FinishPress(h) ==
    /\ pc[h] = "press" /\ Free(h)
    /\ \E now \in Reread(h) : Accepted(h, now) /\ Finishes(h, now)
    /\ lock' = h
    /\ req' = [req EXCEPT ![h].outcome = "completed"]
    /\ Goto(h, "finishing")
    /\ UNCHANGED <<status, step, mode, rows, quiet, ready, reached>>

-----------------------------------------------------------------------------
(* _advance: the move, its rows, and the ready signal, all holding the lock *)

SetStep(h) ==
    /\ pc[h] = "moving"
    /\ \/ /\ step' = [step EXCEPT ![S(h)] = req[h].target]
          /\ quiet' = [quiet EXCEPT ![S(h)] = FALSE]
          /\ reached' = [reached EXCEPT ![S(h)] = @ \/ req[h].target = LastStep]
          /\ Goto(h, "moved")
          /\ UNCHANGED <<req, lock>>
       \/ /\ "write" \in Faults
          /\ Unlock(h)
          /\ Finish(h)
          /\ UNCHANGED <<step, quiet, reached>>
    /\ UNCHANGED <<status, mode, rows, ready>>

LogAdvance(h) ==
    /\ pc[h] = "moved"
    /\ Record(S(h), [RowOf(S(h), "step_advance", req[h].target) EXCEPT
                       !.from = req[h].from])
    /\ Goto(h, IF req[h].target \in ModelSteps THEN "autoload" ELSE "settling")
    /\ UNCHANGED <<status, step, mode, ready, lock, req, reached>>

LogAutoload(h) ==
    /\ pc[h] = "autoload"
    /\ Record(S(h), RowOf(S(h), "model_autoload", req[h].target))
    /\ Goto(h, "settling")
    /\ UNCHANGED <<status, step, mode, ready, lock, req, reached>>

\* The readiness was about the step just left.
SettleMove(h) ==
    /\ pc[h] = "settling"
    /\ ready' = [ready EXCEPT ![S(h)] = None]
    /\ Unlock(h)
    /\ Finish(h)
    /\ UNCHANGED <<status, step, mode, rows, quiet, reached>>

-----------------------------------------------------------------------------
(* StudyStore.end_session: checked and both writes under the lock *)

EverStarted(h) == status[S(h)] # "none"    \* mutant: ends what has ended
StillActive(h) == status[S(h)] = "active"

\* mutant: the default of complete_session
AlwaysCompleted(h) == [status EXCEPT ![S(h)] = "completed"]
\* UPDATE ... WHERE status = 'active'
EndStatus(h) == [status EXCEPT ![S(h)] = IF StillActive(h) THEN req[h].outcome ELSE @]

\* Where a request goes once end_session has returned.
AfterEnd(h) ==
    IF req[h].route = "sweep" THEN Goto(h, "sweeping") ELSE Goto(h, "clearing")

FindEnded(h) ==
    /\ pc[h] = "finishing" /\ Free(h)
    /\ ~StillActive(h) \/ "read" \in Faults
    /\ Unlock(h)
    /\ AfterEnd(h)
    /\ UNCHANGED <<status, step, mode, rows, quiet, ready, req, reached>>

FindActive(h) ==
    /\ pc[h] = "finishing" /\ Free(h)
    /\ StillActive(h)
    /\ lock' = h
    /\ Goto(h, "ending")
    /\ UNCHANGED <<status, step, mode, rows, quiet, ready, req, reached>>

\* The participant's press files it under the step read under the lock, which
\* is the last one; the panel and the sweep under the step they read earlier.
LogEnd(h) ==
    /\ pc[h] = "ending"
    /\ Record(S(h), [RowOf(S(h), "session_end",
                           IF req[h].route = "ready" THEN LastStep ELSE req[h].seen)
                     EXCEPT !.outcome = req[h].outcome])
    /\ Goto(h, "endlogged")
    /\ UNCHANGED <<status, step, mode, ready, lock, req, reached>>

\* If the UPDATE raises, the request fails there, and a sweep's list with it.
SetEnded(h) ==
    /\ pc[h] = "endlogged"
    /\ Unlock(h)
    /\ \/ /\ status' = EndStatus(h)
          /\ AfterEnd(h)
          /\ UNCHANGED req
       \/ /\ "write" \in Faults
          /\ Finish(h)
          /\ UNCHANGED status
    /\ UNCHANGED <<step, mode, rows, quiet, ready, reached>>

-----------------------------------------------------------------------------
(* The idle sweep.  It is throttled to one every five minutes, so no two   *)
(* run at once.                                                            *)

StaleSessions == {s \in Sessions : status[s] = "active" /\ quiet[s]}

ScanIdle(h) ==
    /\ "sweep" \in Routes
    /\ pc[h] = "idle" /\ StaleSessions # {}
    /\ \A s \in StaleSessions : Len(rows[s]) < MaxRows
    /\ \A g \in Handlers : req[g].route # "sweep"
    /\ req' = [req EXCEPT ![h] =
                 [NoRequest EXCEPT !.route = "sweep", !.outcome = "abandoned",
                                   !.todo = {<<s, step[s]>> : s \in StaleSessions}]]
    /\ Goto(h, "sweeping")
    /\ UNCHANGED <<status, step, mode, rows, quiet, ready, lock, reached>>

SweepNext(h) ==
    /\ pc[h] = "sweeping"
    /\ \E stale \in req[h].todo :
         req' = [req EXCEPT ![h].s = stale[1], ![h].seen = stale[2],
                            ![h].todo = @ \ {stale}]
    /\ Goto(h, "finishing")
    /\ UNCHANGED <<status, step, mode, rows, quiet, ready, lock, reached>>

SweepDone(h) ==
    /\ pc[h] = "sweeping" /\ req[h].todo = {}
    /\ Finish(h)
    /\ UNCHANGED <<status, step, mode, rows, quiet, ready, lock, reached>>

-----------------------------------------------------------------------------
(* The environment *)

\* Twelve hours go by with nobody at the study.
TimePasses ==
    /\ "sweep" \in Routes
    /\ \A h \in Handlers : pc[h] = "idle"
    /\ \E s \in Sessions : status[s] = "active" /\ ~quiet[s]
    /\ quiet' = [s \in Sessions |-> status[s] = "active"]
    /\ UNCHANGED <<status, step, mode, rows, ready, lock, pc, req, reached>>

\* The process is killed and started again.
Crash ==
    /\ "crash" \in Faults
    /\ \E h \in Handlers : pc[h] # "idle"
    /\ ready' = [s \in Sessions |-> None]
    /\ lock' = None
    /\ pc' = [h \in Handlers |-> "idle"]
    /\ req' = [h \in Handlers |-> NoRequest]
    /\ UNCHANGED <<status, step, mode, rows, quiet, reached>>

-----------------------------------------------------------------------------
Arrive(h) ==
    \E s \in Sessions :
        \/ Enroll(h, s)
        \/ \E p \in Presses :
              ReadAdvance(h, s, p) \/ ReadBack(h, s, p) \/ ReadReady(h, s, p)
        \/ \E asked \in Ended : ReadEnd(h, s, asked)
        \/ \E m \in {"paired", "solo"} : ReadMode(h, s, m)
        \/ \E route \in {"event", "render"} : ReadReport(h, s, route)

\* The steps a handler takes once its request has arrived.
Work(h) ==
    \/ LogStart(h) \/ ClearReady(h)
    \/ LogEvent(h) \/ LogRender(h)
    \/ SetMode(h) \/ LogMode(h)
    \/ LogReady(h) \/ SignalReady(h)
    \/ RefusePress(h) \/ AcceptPress(h) \/ FinishPress(h)
    \/ SetStep(h) \/ LogAdvance(h) \/ LogAutoload(h) \/ SettleMove(h)
    \/ FindEnded(h) \/ FindActive(h) \/ LogEnd(h) \/ SetEnded(h)
    \/ SweepNext(h) \/ SweepDone(h)

Next ==
    \/ \E h \in Handlers : Arrive(h) \/ ScanIdle(h) \/ Work(h)
    \/ TimePasses
    \/ Crash

Spec == Init /\ [][Next]_vars

\* The threads run; nobody has to press anything, and nothing has to fail.
FairSpec == Spec /\ \A h \in Handlers : WF_vars(Work(h))

-----------------------------------------------------------------------------
(* Properties *)

NoFaults == Faults = {}
Moving(s) == \E h \in Handlers : pc[h] = "moved" /\ S(h) = s
RowsOf(log, kind) == {i \in DOMAIN log : log[i].kind = kind}

\* The step a reader of the log believes the session is on before row i: where
\* the latest step_advance went, or the first step.
StepBefore(log, i) ==
    LET moves == {j \in RowsOf(log, "step_advance") : j < i}
    IN IF moves = {} THEN 0 ELSE log[Max(moves)].step

\* _next_seq: one counter over both tables.  The rows of a session, events and
\* renders together, are numbered 1, 2, 3, ... in the order they were written,
\* whichever threads wrote them and whatever failed in between.
SeqIsPosition ==
    \A s \in Sessions : \A i \in DOMAIN rows[s] : rows[s][i].seq = i

\* _advance under the write lock: replaying the step_advance rows gives the
\* session's step.  Each says truly where it came from, none is a move from a
\* step to itself, and none is missing.
AdvancesChain ==
    NoFaults =>
      \A s \in Sessions :
        /\ \A i \in RowsOf(rows[s], "step_advance") :
             /\ rows[s][i].from = StepBefore(rows[s], i)
             /\ rows[s][i].from # rows[s][i].step
        /\ Moving(s) \/ step[s] = StepBefore(rows[s], Len(rows[s]) + 1)

\* record_render: a render is filed under the step the log says the session was
\* on, with that step's clock (never between a move and the step_advance that
\* reports it), and never after the session has ended.
RendersFollowAdvances ==
    NoFaults =>
      \A s \in Sessions : \A i \in RowsOf(rows[s], "render") :
        /\ rows[s][i].step = StepBefore(rows[s], i)
        /\ rows[s][i].clock = rows[s][i].step
        /\ \A j \in RowsOf(rows[s], "session_end") : i < j

\* end_session: End pressed in two panels, a participant finishing and the idle
\* sweep leave one session_end between them.
OneEnd ==
    NoFaults => \A s \in Sessions : Cardinality(RowsOf(rows[s], "session_end")) <= 1

\* end_session writes the event before the status: an ended session has the row
\* that says so, and the row says what the status says.
EndLogged ==
    NoFaults =>
      \A s \in Sessions : status[s] \in Ended =>
        \E i \in RowsOf(rows[s], "session_end") : rows[s][i].outcome = status[s]

\* The UPDATE is guarded by status = 'active': however many things end a
\* session, and after any failure or restart, its outcome is never rewritten.
EndedStaysEnded ==
    [][\A s \in Sessions : status[s] \in Ended => status'[s] = status[s]]_vars

\* from_index: a session only moves while it is active, by a press made against
\* the step it is on (or one that names none), so two presses made against the
\* same step never move it twice.
PressMovesOnce ==
    [][("read" \notin Faults) =>
         \A s \in Sessions : step'[s] # step[s] =>
           /\ status[s] = "active"
           /\ \E h \in Handlers :
                /\ lock = h /\ S(h) = s
                /\ req[h].press.expect \in {NoIndex, step[s]}]_vars

\* Every request that takes the write lock lets it go, whichever way it ends: a
\* raised write, an early return or the end of the section.
LockReleased == \A h \in Handlers : lock = h ~> lock # h

\* The sessions the handlers run are sessions as StudyLifecycle promises them:
\* a completed one has stood on its last step.
Lifecycle == INSTANCE StudyLifecycle
    WITH Sessions <- Sessions, LastStep <- LastStep,
         status <- status, step <- step, reached <- reached
ImplementsLifecycle == Lifecycle!LSpec
=============================================================================
