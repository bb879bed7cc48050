------------------------------ MODULE SliceGraph ------------------------------
(***************************************************************************)
(* The slice graph of a model is computed in the background: one renderer  *)
(* per model (CADComparisonRenderer in app/cad_comparison_lib.py) starts a *)
(* thread on the first slice-graph render, or reads the cache file of an   *)
(* earlier run.  The server (app/server.py) keeps the renderers in an LRU  *)
(* table, warms models up one at a time and forgets a deleted model's.     *)
(* A page (static/js/viewer.js) shows a flat graph until the real one is   *)
(* there, and asks /render/status when that is.                            *)
(*                                                                         *)
(* A renderer is a number: the order it was built in.  A file is a version *)
(* number, its signature; 0 is no file.  The first model is built in, and  *)
(* the default; the others are uploads.  A page's slice graph is locked,    *)
(* and it has the list of models.                                          *)
(***************************************************************************)
EXTENDS Integers, FiniteSets, SequencesExt

CONSTANTS
    Models, Pages,
    FirstModel,     \* the model a page opens with
    ViewOrder,      \* view_keys, in the order they are computed
    Capacity,       \* RENDERER_CACHE_MAX
    Startup,        \* the models warmed at startup, in order
    Attempts,       \* SLICE_GRAPH_AUTO_REFRESH_MAX_ATTEMPTS
    RetryLimit,     \* RENDER_RETRY_LIMIT
    MaxBuilt, MaxPresses, MaxEdits, MaxFailures,
    WarmUp, None

Views     == ToSet(ViewOrder)
FirstView == ViewOrder[1]

ASSUME SliceAssumption ==
    /\ Capacity \in Nat \ {0} /\ Attempts \in Nat \ {0} /\ RetryLimit \in Nat
    /\ ViewOrder \in Seq(Views) \ {<<>>}
    /\ Startup \in Seq(Models) /\ FirstModel \in Models /\ WarmUp \notin Pages

ASSUME NoneAssumption ==
    /\ None \notin {"flat", "not available", "not told", "lost", "failed", "held back"} \cup Models
    /\ None \notin [model : Models, view : Views, slice : BOOLEAN]

VARIABLES
    file,       \* the version of each model's file
    cache,      \* data/renders/precompute: the files with what they hold
    engines,    \* every renderer built, by number
    table,      \* renderers_by_model, the least recently used first
    warm,       \* _warmup_worker: the queue, and the renderer it waits for
    page,
    spent       \* how much of each bound is used

vars   == <<file, cache, engines, table, warm, page, spent>>
server == <<file, cache, engines, table, warm>>

Spend(what, max) == spent[what] < max /\ spent' = [spent EXCEPT ![what] = @ + 1]

\* A renderer that has been built: the file it read, the views it has polygons
\* of and the version they are from, and slicegraph_ready as its last render left it.
NewEngine(m) == [
    model |-> m, made |-> file[m], views |-> {}, of |-> None, ready |-> FALSE,
    stage |-> "idle", by |-> None, label |-> None, discarded |-> FALSE, flag |-> TRUE]

\* A page that has just been opened, in slice-graph mode, with its first request.
Ask(s) == [model |-> s.model, view |-> s.view, slice |-> s.slice]
Opened(m) == [
    model |-> m, view |-> FirstView, slice |-> TRUE,
    ask |-> [model |-> m, view |-> FirstView, slice |-> TRUE], again |-> FALSE,
    engine |-> 0, pic |-> None, shows |-> None, last |-> None,
    online |-> TRUE, retries |-> RetryLimit,
    pending |-> FALSE, attempts |-> 0,
    excuse |-> None]    \* history: why nobody waits for this flat graph

Init ==
    /\ file = [m \in Models |-> 1]
    /\ cache = {} /\ engines = <<>> /\ table = <<>>
    /\ warm = [queue |-> Startup, at |-> "idle", engine |-> 0]
    /\ page = [p \in Pages |-> Opened(FirstModel)]
    /\ spent = [w \in {"press", "edit", "failure"} |-> 0]

-----------------------------------------------------------------------------
(* The table of renderers *)

InTable(m) == {e \in DOMAIN engines : engines[e].model = m /\ Contains(table, e)}
Engine(m)  == IF InTable(m) = {} THEN 0 ELSE CHOOSE e \in InTable(m) : TRUE

\* _renderer_for_path: the number it will have, and the table and the renderers
\* after; the renderer that falls out of the table lives on in its threads.
CanBuild(m)     == file[m] # 0 /\ (Engine(m) # 0 \/ Len(engines) < MaxBuilt)
Number(m)       == IF Engine(m) = 0 THEN Len(engines) + 1 ELSE Engine(m)
EnginesAfter(m) == IF Engine(m) = 0 THEN Append(engines, NewEngine(m)) ELSE engines
TableAfter(m)   ==
    LET t == Append(Remove(table, Number(m)), Number(m))
    IN  IF Len(t) > Capacity THEN Tail(t) ELSE t

-----------------------------------------------------------------------------
(* What a page does *)

\* sendStateToServer: nothing at all while the server is believed down.
Sent(s) ==
    IF ~s.online THEN s
    ELSE IF s.ask # None THEN [s EXCEPT !.again = TRUE] ELSE [s EXCEPT !.ask = Ask(s)]

\* The finally of its promise chain: a state that was put off is sent, and a
\* request that failed is sent once more.
Idle(s) == [s EXCEPT !.ask = None, !.engine = 0, !.pic = None, !.again = FALSE]
Settled(s) == IF s.again THEN Sent(Idle(s)) ELSE Idle(s)
Failed(s) ==
    IF s.again THEN Sent(Idle(s))
    ELSE IF s.retries > 0 THEN Sent([Idle(s) EXCEPT !.retries = @ - 1])
    ELSE Idle(s)

\* History: a page that nobody looks after any longer, because of a failure.
Excused(s, why) == IF s.pending \/ s.ask # None THEN s ELSE [s EXCEPT !.excuse = why]

\* scheduleSliceGraphStatusCheck
Schedule(s) ==
    LET left == IF s.attempts <= 0 THEN Attempts ELSE s.attempts
    IN  IF s.pending THEN [s EXCEPT !.attempts = left]
        ELSE [s EXCEPT !.pending = TRUE, !.attempts = left - 1]

\* updateModelList: a model that has gone gives way to the first of the list.
Listed(s) == IF file[s.model] = 0 THEN Sent([s EXCEPT !.model = FirstModel]) ELSE s

-----------------------------------------------------------------------------
(* start_background_slice_precompute and its thread *)

\* Under the lock: claimed, unless it is done or somebody is at it.
Started(e, caller) ==
    IF e.ready \/ e.stage # "idle" THEN e ELSE [e EXCEPT !.stage = "claimed", !.by = caller]

SharedPath(e) == <<e.model>>                \* mutant
Path(e)       == <<e.model, e.made>>        \* _precompute_cache_path: the signature is in the name

\* _precompute_done.set() wakes the warm-up when it waits for this renderer.
Woken(e)      == IF warm.at = "waiting" /\ warm.engine = e
                 THEN [warm EXCEPT !.at = "idle", !.engine = 0] ELSE warm
NotWoken(e)   == warm                       \* mutant: set on success only
WokenAfterFailure(e) == Woken(e)

Found(e) == {c \in cache : c.path = Path(e) /\ c.label = file[e.model]}

\* load_precompute_cache, in the caller's own thread; a miss, or a file that is
\* unreadable in one of the ways it catches, starts the worker.
LoadCache(e) ==
    /\ engines[e].stage = "claimed"
    /\ \/ \E c \in Found(engines[e]) :
            /\ engines' = [engines EXCEPT ![e].views = Views, ![e].of = c.of, ![e].ready = TRUE,
                                          ![e].stage = "idle", ![e].by = None]
            /\ warm' = Woken(e)
       \/ /\ Found(engines[e]) = {}
          /\ engines' = [engines EXCEPT ![e].stage = "computing", ![e].by = None]
          /\ UNCHANGED warm
    /\ UNCHANGED <<file, cache, table, page, spent>>

\* Anything else it raises (a truncated or damaged file, one that holds no
\* object), and a worker that cannot be started, leave start_background_slice_
\* precompute as they are: in progress for good, and whoever called it fails.
LoadRaises(e) ==
    /\ engines[e].stage = "claimed" /\ Spend("failure", MaxFailures)
    /\ engines' = [engines EXCEPT ![e].stage = "stuck", ![e].by = None]
    /\ LET p == engines[e].by
       IN  IF p = WarmUp THEN warm' = Woken(e) /\ UNCHANGED page
           ELSE /\ page' = [page EXCEPT ![p] = Excused(Failed(@), "failed")]
                /\ UNCHANGED warm
    /\ UNCHANGED <<file, cache, table>>

\* _compute_slice_graphs, one view after the other.  After a failure it starts
\* again from the first: what it had is put back as it was.
ComputeView(e) ==
    /\ engines[e].stage = "computing" /\ engines[e].views # Views
    /\ engines' = [engines EXCEPT ![e].views = @ \cup {ViewOrder[Cardinality(@) + 1]},
                                  ![e].of = engines[e].made]
    /\ UNCHANGED <<file, cache, table, warm, page, spent>>

\* The exception is printed; the finally lets the next request start again.
Fail(e) ==
    /\ engines[e].stage = "computing" /\ engines[e].views # Views
    /\ Spend("failure", MaxFailures)
    /\ engines' = [engines EXCEPT ![e].stage = "idle"]
    /\ warm' = WokenAfterFailure(e)
    /\ UNCHANGED <<file, cache, table, page>>

\* The thread's end: ready, and whoever waits goes on.
Finished(e) == [e EXCEPT !.ready = TRUE, !.stage = "idle", !.label = None]

\* _save_precompute_cache: the signature of the file as it is now, and whether
\* the model has been deleted, are looked at before anything is written.
CheckSave(e) ==
    /\ engines[e].stage = "computing" /\ engines[e].views = Views
    /\ IF engines[e].discarded
       THEN /\ engines' = [engines EXCEPT ![e] = Finished(@)]
            /\ warm' = Woken(e)
       ELSE /\ engines' = [engines EXCEPT ![e].stage = "saving",
                                          ![e].label = file[engines[e].model]]
            /\ UNCHANGED warm
    /\ UNCHANGED <<file, cache, table, page, spent>>

\* The file is renamed into place; a disk that is full or read-only costs nothing more.
Save(e) ==
    /\ engines[e].stage = "saving"
    /\ LET new == [path |-> Path(engines[e]), label |-> engines[e].label, of |-> engines[e].of]
       IN  \/ cache' = {c \in cache : c.path # new.path} \cup {new} /\ UNCHANGED spent
           \/ Spend("failure", MaxFailures) /\ UNCHANGED cache
    /\ engines' = [engines EXCEPT ![e] = Finished(@)]
    /\ warm' = Woken(e)
    /\ UNCHANGED <<file, table, page>>

-----------------------------------------------------------------------------
(* The warm-up: one worker, one model at a time *)

\* _renderer_for_path; a model whose file is gone is logged and passed over.
TakeFromQueue ==
    /\ warm.at = "idle" /\ warm.queue # <<>>
    /\ LET m == Head(warm.queue)
           w == [warm EXCEPT !.queue = Tail(@)]
       IN  \/ /\ CanBuild(m)
              /\ engines' = EnginesAfter(m) /\ table' = TableAfter(m)
              /\ warm' = [w EXCEPT !.at = "starting", !.engine = Number(m)]
           \/ /\ file[m] = 0
              /\ warm' = w
              /\ UNCHANGED <<engines, table>>
    /\ UNCHANGED <<file, cache, page, spent>>

\* start_background_slice_precompute, then _precompute_done.wait()
StartWarm ==
    /\ warm.at = "starting"
    /\ engines' = [engines EXCEPT ![warm.engine] = Started(@, WarmUp)]
    /\ warm' = IF engines'[warm.engine].stage = "idle" THEN [warm EXCEPT !.at = "idle", !.engine = 0]
               ELSE [warm EXCEPT !.at = "waiting"]
    /\ UNCHANGED <<file, cache, table, page, spent>>

-----------------------------------------------------------------------------
(* Models come and go *)

\* delete_model, cleanup_uploads: the file of an upload, and _forget_renderer.
Delete(m) ==
    /\ m # FirstModel /\ file[m] # 0 /\ Spend("edit", MaxEdits)
    /\ file' = [file EXCEPT ![m] = 0]
    /\ IF Engine(m) = 0 THEN UNCHANGED <<cache, engines, table>>
       ELSE /\ table' = Remove(table, Engine(m))
            /\ engines' = [engines EXCEPT ![Engine(m)].discarded = TRUE]
            /\ cache' = {c \in cache : c.path # Path(engines[Engine(m)])}
    /\ UNCHANGED <<warm, page>>

\* _save_and_index_stl under a name that has become free, and its warm-up.
Upload(m) ==
    /\ file[m] = 0 /\ Spend("edit", MaxEdits)
    /\ file' = [file EXCEPT ![m] = 1 + spent["edit"]]       \* a version it never had
    /\ warm' = [warm EXCEPT !.queue = Append(@, m)]
    /\ UNCHANGED <<cache, engines, table, page>>

-----------------------------------------------------------------------------
(* Requests *)

\* A key, or a choice in the page's dialogs.
Press(p, s) ==
    /\ Spend("press", MaxPresses)
    /\ page' = [page EXCEPT ![p] = Excused(Sent(s), "held back")]
    /\ UNCHANGED server

Look(p, v)        == v # page[p].view /\ Press(p, [page[p] EXCEPT !.view = v])
SwitchMode(p)     == Press(p, [page[p] EXCEPT !.slice = ~@])
ChooseModel(p, m) == m # page[p].model /\ Press(p, [page[p] EXCEPT !.model = m])

\* /render under render_lock: the renderer, and for a slice graph its precompute.
Rendering(p) == page[p].engine # 0 /\ page[p].pic = None
BeginRender(p) ==
    LET a == page[p].ask
    IN  /\ a # None /\ page[p].engine = 0 /\ CanBuild(a.model)
        /\ \A q \in Pages : ~Rendering(q)
        /\ table' = TableAfter(a.model)
        /\ engines' = IF a.slice
                      THEN [EnginesAfter(a.model) EXCEPT ![Number(a.model)] = Started(@, p)]
                      ELSE EnginesAfter(a.model)
        /\ page' = [page EXCEPT ![p].engine = Number(a.model)]
        /\ UNCHANGED <<file, cache, warm, spent>>

\* A model that is not there: 404, and the display stays as it is.  The page goes
\* back to the model it shows; from a link to one that has gone, to the default.
BackTo(s) == IF s.last = None THEN FirstModel ELSE s.last
Refused(s) ==
    LET back == IF s.model = s.ask.model THEN [s EXCEPT !.model = BackTo(s)] ELSE s
    IN  IF s.last = None THEN Sent(back) ELSE back
NotAvailable(p) ==
    /\ page[p].ask # None /\ page[p].engine = 0 /\ file[page[p].ask.model] = 0
    /\ page' = [page EXCEPT ![p] =
                  Excused(Settled(Refused([@ EXCEPT !.online = TRUE])), "not available")]
    /\ UNCHANGED <<server, spent>>

\* An answer that is not one, or never comes: lost on its way there or back.
RequestFails(p) ==
    /\ page[p].ask # None /\ (page[p].engine = 0 \/ page[p].pic # None)
    /\ Spend("failure", MaxFailures)
    /\ page' = [page EXCEPT ![p] = Excused(Failed(@), "failed")]
    /\ UNCHANGED server

\* _get_zoom_filtered_slice_profile, once a cache file being read has been read:
\* the graph of the view, or flat; the renderer remembers which.
Draw(p) ==
    LET a == page[p].ask
        e == engines[page[p].engine]
        there == a.view \in e.views
    IN  /\ Rendering(p) /\ ~(e.stage = "claimed" /\ e.by = p)
        /\ engines' = IF a.slice THEN [engines EXCEPT ![page[p].engine].flag = there] ELSE engines
        /\ page' = [page EXCEPT ![p].pic = IF ~a.slice THEN "plain"
                                           ELSE IF there THEN "graph" ELSE "flat"]
        /\ UNCHANGED <<file, cache, table, warm, spent>>

\* The end of _render_response, outside the lock: what the renderer in the table
\* remembers by now; and the page takes the response.
Told(a) == a.slice /\ Engine(a.model) # 0 /\ ~engines[Engine(a.model)].flag
Shown(s, why) == [s EXCEPT !.shows = s.pic, !.last = s.ask.model, !.online = TRUE,
                           !.retries = RetryLimit, !.excuse = why]
Answer(p) ==
    LET s     == page[p]
        told  == Told(s.ask)
        shown == Listed(Shown(s, IF s.pic = "flat" /\ ~told THEN "not told" ELSE None))
    IN  /\ s.ask # None /\ s.pic # None
        /\ page' = [page EXCEPT ![p] =
                      Settled(IF told THEN Schedule(shown) ELSE [shown EXCEPT !.attempts = 0])]
        /\ UNCHANGED <<server, spent>>

\* The timer: the mark is taken off first, then /render/status is asked.
Ready(m) == Engine(m) # 0 /\ engines[Engine(m)].ready
Rung(s)  == [s EXCEPT !.pending = FALSE]
RungLate(s) ==                              \* mutant: the mark is taken off last
    IF ~s.slice THEN Rung(s)
    ELSE IF Ready(s.model) THEN Rung(Sent(s))
    ELSE IF s.attempts > 0 THEN Rung(Schedule(s)) ELSE Rung(s)
Checked(s) ==
    IF ~s.slice THEN Rung(s)
    ELSE IF Ready(s.model) THEN Excused(Sent(Rung(s)), "held back")
    ELSE IF s.attempts > 0 THEN Schedule(Rung(s)) ELSE Rung(s)
CheckStatus(p) ==
    /\ page[p].pending
    /\ page' = [page EXCEPT ![p] = Checked(@)]
    /\ UNCHANGED <<server, spent>>

\* A check that does not get through is the last one.
CheckLost(p) ==
    /\ page[p].pending /\ page[p].slice /\ Spend("failure", MaxFailures)
    /\ page' = [page EXCEPT ![p] = Excused(Rung(@), "lost")]
    /\ UNCHANGED server

\* The health poll: two failures in a row and the server is down for this page,
\* one answer and it is up, with the list of models; nothing is sent for that.
PollFails(p) ==
    /\ page[p].online /\ Spend("failure", MaxFailures)
    /\ page' = [page EXCEPT ![p].online = FALSE]
    /\ UNCHANGED server
PollAnswered(p) ==
    /\ ~page[p].online \/ file[page[p].model] = 0
    /\ page' = [page EXCEPT ![p] = Listed([@ EXCEPT !.online = TRUE])]
    /\ UNCHANGED <<server, spent>>

-----------------------------------------------------------------------------
Built == DOMAIN engines
Thread(e)  == LoadCache(e) \/ ComputeView(e) \/ CheckSave(e) \/ Save(e)
Request(p) == BeginRender(p) \/ NotAvailable(p) \/ Draw(p) \/ Answer(p)

Next ==
    \/ \E e \in Built : Thread(e) \/ Fail(e) \/ LoadRaises(e)
    \/ TakeFromQueue \/ StartWarm
    \/ \E m \in Models : Delete(m) \/ Upload(m)
    \/ \E p \in Pages : Request(p) \/ RequestFails(p) \/ CheckStatus(p) \/ CheckLost(p)
    \/ \E p \in Pages : PollFails(p) \/ PollAnswered(p) \/ SwitchMode(p)
    \/ \E p \in Pages, v \in Views : Look(p, v)
    \/ \E p \in Pages, m \in Models : ChooseModel(p, m)

Spec == Init /\ [][Next]_vars

-----------------------------------------------------------------------------
(* What should hold *)

\* What a renderer plots was computed from the mesh it renders, whichever file
\* was under the name when it was computed, saved or read back, and it is only
\* said to be ready when every view is there.
DataIsOfItsMesh ==
    \A e \in Built :
        /\ engines[e].views # {} => engines[e].of = engines[e].made
        /\ engines[e].ready => engines[e].views = Views

\* A page in slice-graph mode never sits in front of a flat graph it was told
\* is flat with nobody to look again: a check is due, a request is under way or
\* the checks are used up.  Only a failure leaves it so: a check or a request
\* that is lost for good, a model that has gone, or a server believed down when
\* the request was due.
FlatIsWatched ==
    \A p \in Pages :
        LET s == page[p]
        IN  s.slice /\ s.shows = "flat" /\ s.excuse = None
              => s.pending \/ s.ask # None \/ s.attempts = 0

\* The warm-up only waits for a renderer that somebody is at work on: a
\* computation that fails, a model that is deleted and a renderer that falls out
\* of the table let it go on too.  Not so where the precompute was left in
\* progress with nobody at it: one bad model then stops the rest for ever.
WarmUpIsWoken ==
    warm.at = "waiting" => engines[warm.engine].stage \in {"claimed", "computing", "saving", "stuck"}
=============================================================================
