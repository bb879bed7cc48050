----------------------------- MODULE ViewerRender -----------------------------
(***************************************************************************)
(* What a viewer page shows and what its DotPad has on its pins:           *)
(* sendStateToServer and its callbacks in static/js/viewer.js, the send to *)
(* the DotPad in static/js/dotpad-integration.js, and in app/server.py the *)
(* /render and /render/dotpad-hex routes with the two caches they share    *)
(* between all pages.                                                      *)
(*                                                                         *)
(* A request names a model, a view (the view and its orientation, the key  *)
(* the page remembers centres under; FirstView is the view seen straight   *)
(* on), a camera centre and a camera move.                                 *)
(* No model named is the default, FirstModel, which is built in and the      *)
(* first of every list; the others are uploads, which come and go.         *)
(* A centre is a number of pan steps along one axis from the middle of the *)
(* object; None is "not sent", which the renderer takes for the middle.  A *)
(* picture is a model's view seen from a number of steps.                  *)
(***************************************************************************)
EXTENDS Integers, FiniteSets

CONSTANTS
    Pages, Pads,                    \* the pages, and those with a DotPad
    Models, Views, FirstModel, FirstView,
    RetryLimit,                     \* RENDER_RETRY_LIMIT
    PollFailures,                   \* POLL_FAIL_THRESHOLD
    MaxPresses, MaxOutages, MaxDrops,
    None

ASSUME ViewerAssumption ==
    /\ Pads \subseteq Pages /\ FirstModel \in Models /\ FirstView \in Views
    /\ {RetryLimit, PollFailures, MaxPresses, MaxOutages, MaxDrops} \subseteq Nat
    /\ None \notin Int \cup Models \cup {"skipped", "refused"}

Steps   == -MaxPresses..MaxPresses
Centres == Steps \cup {None}
Moves   == {"none", "left", "right", "reset"}
Keys    == [model : Models, view : Views, centre : Centres]
Pics    == [model : Models, view : Views, at : Steps]
Asks    == [model : Models, view : Views, centre : Centres, move : Moves]

ASSUME NoneAssumption == None \notin Asks

VARIABLES
    page,       \* the state of viewer.js (and dotpad-integration.js) in each page
    responses,  \* quantized_render_cache
    payloads,   \* preview_payload_cache, at the size of the display
    there,      \* AVAILABLE_MODELS: the models the server has
    up,         \* whether the server can be reached
    presses, outages, drops   \* how much of each bound is used

caches == <<responses, payloads>>
world  == <<there, up, presses, outages, drops>>
vars   == <<page, caches, world>>

Answers == [pic : Pics, centre : Steps]
Replies == [pic : Pics \cup {None}, centre : Steps, list : SUBSET Models]  \* None: a 404
PageStates == [
    model : Models, view : Views,       \* currentModel; currentView and what goes with it
    chooser : BOOLEAN,                  \* not a study page, nor the simplified viewer
    list : SUBSET Models,               \* the options of the model list
    last : Models \cup {None},          \* lastShownModel
    centre : [Views -> Centres],        \* cameraCenterByViewOrientation
    move : Moves,                       \* currentMoveCamera
    ask : Asks \cup {None},             \* the /render request in flight
    answer : Replies \cup {None},       \*   and its response, on its way back
    pending : BOOLEAN,                  \* renderResendPending
    owed : BOOLEAN,                     \* renderDeliveredSerial < renderStateSerial
    retries : 0..RetryLimit,            \* renderRetriesLeft
    online : BOOLEAN,                   \* serverConnected, null counted as true
    misses : 0..PollFailures,           \* pollFailCount
    shown : Pics \cup {None},           \* the tactile preview
    hex : Asks \cup {None},             \* the /render/dotpad-hex request (sendInFlight)
    pins : Pics \cup {None},            \* what the DotPad shows
    pans : 0..MaxPresses,               \* history: pan presses so far,
    aside : {"skipped", "refused", None}]   \*   a change made while rendering was
                                        \*   paused, or a model that was refused

TypeOK ==
    /\ page \in [Pages -> PageStates]
    /\ responses \in [Keys -> Answers \cup {None}]
    /\ payloads \in [Keys -> Pics \cup {None}]
    /\ there \in SUBSET Models
    /\ up \in BOOLEAN /\ presses \in 0..MaxPresses
    /\ outages \in 0..MaxOutages /\ drops \in 0..MaxDrops

-----------------------------------------------------------------------------
(* The renderer and the caches *)

Start(c)  == IF c = None THEN 0 ELSE c
Step(m)   == CASE m = "left" -> -1 [] m = "right" -> 1 [] OTHER -> 0
\* CADComparisonRenderer.render: the centre asked for, and one pan step.
Render(a) == [model |-> a.model, view |-> a.view, at |-> Start(a.centre) + Step(a.move)]
Answer(a) == [pic |-> Render(a), centre |-> Render(a).at]

KeyNoView(a) == [model |-> a.model, view |-> FirstView, centre |-> a.centre]  \* mutant
KeyOf(a)     == [model |-> a.model, view |-> a.view, centre |-> a.centre]  \* and not the move
CacheAny(a)  == TRUE                                     \* mutant: pans cached too
Cacheable(a) == a.move = "none"

\* render_view: the cached response, or a render, whose payload always goes
\* into the payload cache (_render_response) and whose response does unless it
\* is a pan.
Hit(a)            == Cacheable(a) /\ responses[KeyOf(a)] # None
AnswerTo(a)       == IF Hit(a) THEN responses[KeyOf(a)] ELSE Answer(a)
ResponsesAfter(a) == IF Cacheable(a) THEN [responses EXCEPT ![KeyOf(a)] = AnswerTo(a)]
                     ELSE responses
PayloadsAfter(a)  == IF Hit(a) THEN payloads ELSE [payloads EXCEPT ![KeyOf(a)] = Render(a)]

\* render_dotpad_hex, _get_braille_payload_at_size
PadHit(a)            == Cacheable(a) /\ payloads[KeyOf(a)] # None
PadPic(a)            == IF PadHit(a) THEN payloads[KeyOf(a)] ELSE Render(a)
PayloadsAfterPad(a)  == IF Cacheable(a) THEN [payloads EXCEPT ![KeyOf(a)] = PadPic(a)]
                        ELSE payloads
Blank == [k \in Keys |-> None]

\* A page that has just been opened, on a model its address may name, has asked
\* for its first render.
Opened(m, chooser) == [
    model |-> m, view |-> FirstView, chooser |-> chooser, list |-> {}, last |-> None,
    centre |-> [v \in Views |-> None], move |-> "none",
    ask |-> [model |-> m, view |-> FirstView, centre |-> None, move |-> "none"],
    answer |-> None, pending |-> FALSE, owed |-> TRUE, retries |-> RetryLimit, online |-> TRUE,
    misses |-> 0, shown |-> None, hex |-> None, pins |-> None,
    pans |-> 0, aside |-> None]

Init ==
    /\ page \in [Pages -> {Opened(m, c) : m \in Models, c \in BOOLEAN}]
    /\ responses = Blank /\ payloads = Blank
    /\ there \in {s \in SUBSET Models : FirstModel \in s}
    /\ up = TRUE /\ presses = 0 /\ outages = 0 /\ drops = 0

-----------------------------------------------------------------------------
(* sendStateToServer *)

Asking(s)   == [model |-> s.model, view |-> s.view, centre |-> s.centre[s.view], move |-> s.move]
Middle      == [v \in Views |-> None]     \* clearCameraCenterState
MoveKept(s) == s.move                     \* mutant: the move is not taken out when sent
MoveLeft(s) == "none"

\* Nothing while the server is known to be away; a resend later while a request
\* is in flight; else a request, and the move it carries is used up.
Sent(s) ==
    IF ~s.online THEN [s EXCEPT !.aside = "skipped"]
    ELSE IF s.ask # None THEN [s EXCEPT !.pending = TRUE, !.owed = TRUE]
    ELSE [s EXCEPT !.ask = Asking(s), !.move = MoveLeft(s), !.owed = TRUE, !.aside = None]

\* The promise chain's finally: what came up meanwhile is sent, or a request
\* that failed is tried once more.
NoResend(s) == FALSE                      \* mutant: a burst's last state is not sent
Resend(s)   == s.pending
RetryAlways(s) == TRUE                    \* mutant: the retries are not capped
Retry(s)    == s.retries > 0
Settled(s, failed) ==
    LET t == [s EXCEPT !.ask = None, !.answer = None, !.pending = FALSE]
    IN  IF Resend(s) THEN Sent(t)
        ELSE IF failed /\ Retry(s) THEN Sent([t EXCEPT !.retries = @ - 1])
        ELSE t

\* sendHexToDotPad: not while the previous one is on its way.
ToPad(p, s) ==
    IF p \in Pads /\ s.hex = None THEN [s EXCEPT !.hex = s.ask] ELSE s

\* syncCameraCenterFromResponse, under the view of the request.
Synced(s) == [s EXCEPT !.centre[s.ask.view] = s.answer.centre]

\* updateModelList, where there is a list to rebuild: a model that has gone
\* from it gives way to the first.
ModelOf(s, list) == IF s.model \in list THEN s.model ELSE FirstModel
Listed(s, list) ==
    LET t == [s EXCEPT !.list = list, !.model = ModelOf(s, list)]
    IN  IF ~s.chooser \/ s.list = list THEN s
        ELSE IF t.model # s.model THEN Sent(t) ELSE t

\* The response to a request that was answered with a frame.
Drawn(s) == Listed([Synced(s) EXCEPT !.shown = s.answer.pic, !.last = s.ask.model,
                                     !.online = TRUE, !.retries = RetryLimit], s.answer.list)

\* handleModelNotAvailable: nothing was drawn, and the page goes back to the
\* model it shows, or starts on the default.
NotBack(s) == s.model                     \* mutant: the controls stay on the model refused
BackTo(s)  == IF s.last = None THEN FirstModel ELSE s.last
Refused(s) ==
    LET t == [s EXCEPT !.model = IF @ = s.ask.model THEN BackTo(s) ELSE @,
                       !.online = TRUE, !.aside = IF @ = "skipped" THEN @ ELSE "refused"]
    IN  IF s.last = None THEN Sent(t) ELSE t

\* Either way the state that was asked for counts as delivered.
Delivered(p, s) ==
    LET frame == s.answer.pic # None
        t     == IF frame THEN Drawn(s) ELSE Refused(s)
        u     == [t EXCEPT !.owed = t.pending]
    IN  Settled(IF frame THEN ToPad(p, u) ELSE u, FALSE)

-----------------------------------------------------------------------------
(* The reader's keys and controls *)

Press(p, s) ==
    /\ presses < MaxPresses
    /\ presses' = presses + 1
    /\ page' = [page EXCEPT ![p] = Sent(s)]
    /\ UNCHANGED <<caches, there, up, outages, drops>>

\* W, A, S, D
Pan(p, m) ==
    /\ m \in {"left", "right"}
    /\ Press(p, [page[p] EXCEPT !.move = m, !.pans = @ + 1])

\* Turning the model: the centre of each view and orientation is remembered.
Turn(p, v) ==
    /\ v # page[p].view
    /\ Press(p, [page[p] EXCEPT !.view = v])

\* Key 0: every centre forgotten, straight on again, and the move "reset".
ResetView(p) ==
    Press(p, [page[p] EXCEPT !.centre = Middle, !.view = FirstView, !.move = "reset"])

\* The model list, which may be out of date.
ChooseModel(p, m) ==
    /\ page[p].chooser /\ m \in page[p].list \ {page[p].model}
    /\ Press(p, [page[p] EXCEPT !.model = m, !.centre = Middle, !.view = FirstView])

\* loadStudyModel, for a page without the list: the model of the next step.
LoadModel(p, m) ==
    /\ ~page[p].chooser
    /\ Press(p, [page[p] EXCEPT !.model = m, !.centre = Middle, !.view = FirstView,
                                !.move = "reset"])

-----------------------------------------------------------------------------
(* Requests and answers *)

\* render_view answers: the frame with the list of models as it is now, or,
\* before it looks into its caches, that the model is not there.
Reply(a) ==
    IF a.model \in there
    THEN [pic |-> AnswerTo(a).pic, centre |-> AnswerTo(a).centre, list |-> there]
    ELSE [pic |-> None, centre |-> 0, list |-> {}]
Serve(p) ==
    LET a == page[p].ask
    IN  /\ up /\ a # None /\ page[p].answer = None
        /\ page' = [page EXCEPT ![p].answer = Reply(a)]
        /\ responses' = IF a.model \in there THEN ResponsesAfter(a) ELSE responses
        /\ payloads' = IF a.model \in there THEN PayloadsAfter(a) ELSE payloads
        /\ UNCHANGED world

Deliver(p) ==
    /\ page[p].answer # None
    /\ page' = [page EXCEPT ![p] = Delivered(p, @)]
    /\ UNCHANGED <<caches, world>>

\* The request or its answer is lost, or the server answers with an error.
Fail(p) ==
    /\ page[p].ask # None
    /\ page' = [page EXCEPT ![p] = Settled(@, TRUE)]
    /\ UNCHANGED <<caches, world>>

\* render_dotpad_hex answers, and the frame goes to the pins.
PadFrame(p) ==
    LET a == page[p].hex
    IN  /\ up /\ a # None /\ a.model \in there
        /\ page' = [page EXCEPT ![p].hex = None, ![p].pins = PadPic(a)]
        /\ payloads' = PayloadsAfterPad(a)
        /\ UNCHANGED <<responses, world>>

PadFails(p) ==
    /\ page[p].hex # None
    /\ page' = [page EXCEPT ![p].hex = None]
    /\ UNCHANGED <<caches, world>>

\* pollServerState, every five seconds and when something was refused, added or
\* removed: the list comes with the answer, and is left alone while it has the
\* focus.  A page that deletes its own model takes the new list at once.
Polled(s) ==
    IF up THEN [s EXCEPT !.misses = 0, !.online = TRUE]
    ELSE [s EXCEPT !.misses = IF @ < PollFailures THEN @ + 1 ELSE @,
                   !.online = @ /\ s.misses + 1 < PollFailures]
Poll(p) ==
    /\ page[p].online # up \/ page[p].misses # 0
    /\ page' = [page EXCEPT ![p] = Polled(@)]
    /\ UNCHANGED <<caches, world>>
PollList(p) ==
    /\ up /\ page[p].chooser /\ page[p].list # there
    /\ page' = [page EXCEPT ![p] = Listed(Polled(@), there)]
    /\ UNCHANGED <<caches, world>>

\* An event arrives on /events.
Heard(p) ==
    /\ up /\ ~page[p].online
    /\ page' = [page EXCEPT ![p].online = TRUE]
    /\ UNCHANGED <<caches, world>>

GoDown ==
    /\ up /\ outages < MaxOutages
    /\ up' = FALSE /\ outages' = outages + 1
    /\ UNCHANGED <<page, caches, there, presses, drops>>

ComeBack ==
    /\ ~up /\ up' = TRUE
    /\ UNCHANGED <<page, caches, there, presses, outages, drops>>

Dropping ==
    /\ drops < MaxDrops /\ drops' = drops + 1
    /\ UNCHANGED <<page, up, presses, outages>>

\* An upload, a deletion or a closing tab clears both caches; each also drops
\* its oldest entry when it is full.
ModelsChange(m) ==
    /\ Dropping
    /\ m # FirstModel
    /\ there' \in {there, there \cup {m}, there \ {m}}     \* there: somebody else's
    /\ responses' = Blank /\ payloads' = Blank

Evict(k) ==
    /\ Dropping /\ UNCHANGED there
    /\ \/ responses[k] # None /\ responses' = [responses EXCEPT ![k] = None] /\ payloads' = payloads
       \/ payloads[k] # None /\ payloads' = [payloads EXCEPT ![k] = None] /\ responses' = responses

Callback(p) == Serve(p) \/ Deliver(p) \/ Fail(p) \/ PadFrame(p) \/ PadFails(p)

Next ==
    \/ \E p \in Pages :
         \/ \E m \in Moves : Pan(p, m)
         \/ \E v \in Views : Turn(p, v)
         \/ \E m \in Models : ChooseModel(p, m) \/ LoadModel(p, m)
         \/ ResetView(p) \/ Callback(p) \/ Poll(p) \/ PollList(p) \/ Heard(p)
    \/ \E k \in Keys : Evict(k)
    \/ \E m \in Models : ModelsChange(m)
    \/ GoDown \/ ComeBack

Spec == Init /\ [][Next]_vars

-----------------------------------------------------------------------------
(* Properties *)

Resting(s)  == s.ask = None /\ ~s.owed
OnDisplay(s) == [model |-> s.model, view |-> s.view, at |-> Start(s.centre[s.view])]

\* When nothing is in flight and the last state sent has been delivered, the
\* frame on the page is the one the page's own state describes, whatever was
\* pressed while requests were out, failed or were answered from the cache, and
\* whichever models came and went.  Not so when the page was changed while
\* rendering was paused; and after a model that was refused only the model is
\* that of the frame, until the next request: view and centre were reset for a
\* model that never came, whose version counts as delivered all the same.
ShowsItsState ==
    \A p \in Pages : Resting(page[p]) =>
        /\ page[p].aside = None => page[p].shown = OnDisplay(page[p])
        /\ page[p].aside = "refused" => page[p].shown # None /\ page[p].shown.model = page[p].model

\* A cached response is what a render of its key would give: no pan is stored
\* under the key of the view it started from.
ResponseIsOfItsKey ==
    \A k \in Keys : responses[k] # None =>
        responses[k] = [pic |-> [model |-> k.model, view |-> k.view, at |-> Start(k.centre)],
                        centre |-> Start(k.centre)]

\* A pan press moves the view once at most, retries and lost answers included.
PansAtMostOnce ==
    \A p \in Pages, v \in Views :
        LET c == Start(page[p].centre[v])
        IN  c <= page[p].pans /\ -c <= page[p].pans

\* A state the reader has come to and not been shown is on its way: through any
\* burst of keys, lost request, refusal or change of the list there is a request
\* in flight for it, or for an earlier state with this one to follow.  Not so for
\* a page that has used up its retries, or found the server away and did not send.
GivenUp(s) == s.aside = "skipped" \/ s.retries = 0
OwedIsOnItsWay == \A p \in Pages : page[p].owed => page[p].ask # None \/ GivenUp(page[p])
=============================================================================
