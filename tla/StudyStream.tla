----------------------------- MODULE StudyStream -----------------------------
(***************************************************************************)
(* How a session's state reaches the pages that show it: the fan-out of    *)
(* Server-Sent Events in app/studies/engine.py (_broadcast, _push,         *)
(* _stream), and the connecting, refreshing and joining done by the        *)
(* participant's page (static/js/study.js) and the experimenter's panel    *)
(* (static/js/study-control.js).                                           *)
(*                                                                         *)
(* A session's row is abstracted to its version: how many times a request  *)
(* has changed it.  StudySession models what those requests do.            *)
(***************************************************************************)
EXTENDS Integers, Sequences, FiniteSets

CONSTANTS
    Sessions,    \* the running sessions
    Pages,       \* the open pages
    Panels,      \* those of them that are control panels
    Home,        \* the session in each page's link or sessionStorage, or None
    Streams,     \* bound: the connections there is room for at one time
    Workers,     \* the request threads that change a session
    QueueMax,    \* what a subscriber's queue holds (32 in the code)
    MaxVersion,  \* bound: the changes made to a session
    Failures,    \* what may be lost, a subset of AllFailures
    MaxLosses,   \* bound: connections, answers and processes lost, and reloads
    None

Participants == Pages \ Panels
Bindings == Sessions \cup {None}
Unread == -1        \* an answer not computed yet, a page not told anything yet
Unauthorised == -2  \* a 401

AllFailures == {"connection", "answer", "page", "server"}

ASSUME StreamConstants ==
    /\ Failures \subseteq AllFailures
    /\ Panels \subseteq Pages
    /\ Home \in [Pages -> Bindings]
    /\ \A p \in Panels : Home[p] # None
    /\ None \notin Sessions \cup Pages \cup Streams
    /\ QueueMax \in Nat \ {0} /\ MaxVersion \in Nat /\ MaxLosses \in Nat

VARIABLES
    version,  \* the session rows
    job,      \* what each worker is doing
    stream,   \* each connection, the server's end and the page's
    es,       \* eventSource: the connection each page holds a handle to
    timers,   \* how many reconnect timers each page has running
    key,      \* participantKey, or the panel's boundSessionId
    view,     \* the state each page last applied
    answers,  \* the requests each page has made, and the answers to them
    cookie,   \* the panel's sign-in is good
    form,     \* the panel is showing the sign-in form
    losses

svars == <<version, job, stream, es, timers, key, view, answers, cookie, form, losses>>

Versions == 0..MaxVersion
Roles == {"experimenter", "participant"}
Payloads == [role: Roles, s: Bindings, v: Versions \cup {Unread}]

\* st: "read" is between finding the session's row and subscribing; "broken"
\* and "refused" are ends the page has not noticed yet.  live: the page listens
\* to it.  opening: the opening message, of version base, is still to be sent.
StreamStates == [st: {"free", "asked", "read", "open", "broken", "refused"},
                 page: Pages \cup {None}, of: Bindings, base: Versions,
                 opening: BOOLEAN, queue: Seq(Payloads), live: BOOLEAN]
Free == [st |-> "free", page |-> None, of |-> None, base |-> 0,
         opening |-> FALSE, queue |-> <<>>, live |-> FALSE]

\* "refresh" is refreshOnce, "join" the code typed in, "boot" the panel's first
\* look at the session it is bound to, "press" the answer to a press.
Answers == [kind: {"refresh", "join", "boot", "press"}, of: Bindings,
            v: Versions \cup {Unread, Unauthorised}]

Jobs == [pc: {"idle", "reread", "select", "put"}, s: Bindings, v: Versions,
         origin: Pages \cup {None}, role: Roles,
         todo: SUBSET Streams]
NoJob == [pc |-> "idle", s |-> None, v |-> 0, origin |-> None,
          role |-> "experimenter", todo |-> {}]

TypeOK ==
    /\ version \in [Sessions -> Versions]
    /\ job \in [Workers -> Jobs]
    /\ stream \in [Streams -> StreamStates]
    /\ \A c \in Streams : Len(stream[c].queue) <= QueueMax
    /\ es \in [Pages -> Streams \cup {None}]
    /\ timers \in [Pages -> Nat]
    /\ key \in [Pages -> Bindings]
    /\ view \in [Pages -> Payloads]
    /\ answers \in [Pages -> SUBSET Answers]
    /\ cookie \in [Panels -> BOOLEAN]
    /\ form \in [Panels -> BOOLEAN]
    /\ losses \in 0..MaxLosses

Request(kind, s) == [kind |-> kind, of |-> s, v |-> Unread]
RoleOf(p) == IF p \in Panels THEN "experimenter" ELSE "participant"
Blank(p) == [role |-> RoleOf(p), s |-> None, v |-> Unread]

\* Loading the participant's page does what a reconnect timer does; loading the
\* panel asks for the state of the session it is bound to.
Opening(p) == IF p \in Panels THEN {Request("boot", Home[p])} ELSE {}
OpeningTimers(p) == IF p \in Panels THEN 0 ELSE 1

Init ==
    /\ version = [s \in Sessions |-> 0]
    /\ job = [m \in Workers |-> NoJob]
    /\ stream = [c \in Streams |-> Free]
    /\ es = [p \in Pages |-> None]
    /\ timers = [p \in Pages |-> OpeningTimers(p)]
    /\ key = Home
    /\ view = [p \in Pages |-> Blank(p)]
    /\ answers = [p \in Pages |-> Opening(p)]
    /\ cookie \in [Panels -> BOOLEAN]    \* a sign-in lasts twelve hours
    /\ form = [p \in Panels |-> FALSE]
    /\ losses = 0

VersionFirst(s) == 0    \* mutant: a row kept from when the session started
\* The row a request for session s finds; a request that names none finds none.
Version(s) == IF s = None THEN 0 ELSE version[s]

-----------------------------------------------------------------------------
(* The server: a change, then _broadcast to the panels and the participants *)

\* A move broadcasts the row its own UPDATE left; a change of mode, and an end,
\* read the row again before they broadcast.  Only a move has an origin, the
\* panel whose press is answered with the same state.
Commit(m, s) ==
    /\ job[m].pc = "idle" /\ version[s] < MaxVersion
    /\ version' = [version EXCEPT ![s] = @ + 1]
    /\ \E next \in {"reread", "select"}, o \in {p \in Panels : key[p] = s} \cup {None} :
         job' = [job EXCEPT ![m] = [NoJob EXCEPT !.pc = next, !.s = s, !.origin = o,
                                                 !.v = version'[s]]]
    /\ UNCHANGED <<stream, es, timers, key, view, answers, cookie, form, losses>>

Reread(m) ==
    /\ job[m].pc = "reread"
    /\ job' = [job EXCEPT ![m].v = version[job[m].s], ![m].pc = "select"]
    /\ UNCHANGED <<version, stream, es, timers, key, view, answers, cookie, form, losses>>

Subscribed(c) == stream[c].st = "open"
ForEveryone(c, role, s) == Subscribed(c)    \* mutant: not scoped to one session
IsTarget(c, role, s) ==
    Subscribed(c) /\ stream[c].of = s /\ RoleOf(stream[c].page) = role

\* _push lists the subscribers under the lock, and puts to them outside it.
Select(m) ==
    /\ job[m].pc = "select"
    /\ job' = [job EXCEPT ![m].pc = "put",
                          ![m].todo = {c \in Streams : IsTarget(c, job[m].role, job[m].s)}]
    /\ UNCHANGED <<version, stream, es, timers, key, view, answers, cookie, form, losses>>

PutAtFront(queue, payload) ==    \* mutant: the newest is taken first
    IF Len(queue) < QueueMax THEN <<payload>> \o queue ELSE queue
\* put_nowait; on Full the message is dropped.
PutNowait(queue, payload) ==
    IF Len(queue) < QueueMax THEN Append(queue, payload) ELSE queue

Put(m) ==
    /\ job[m].pc = "put"
    /\ \E c \in job[m].todo :
         /\ stream' = [stream EXCEPT ![c].queue =
                         PutNowait(@, [role |-> job[m].role, s |-> job[m].s, v |-> job[m].v])]
         /\ job' = [job EXCEPT ![m].todo = @ \ {c}]
    /\ UNCHANGED <<version, es, timers, key, view, answers, cookie, form, losses>>

Pushed(m) == job[m].pc = "put" /\ job[m].todo = {}

PushParticipants(m) ==
    /\ Pushed(m) /\ job[m].role = "experimenter"
    /\ job' = [job EXCEPT ![m].role = "participant", ![m].pc = "select"]
    /\ UNCHANGED <<version, stream, es, timers, key, view, answers, cookie, form, losses>>

Finish(m) ==
    /\ Pushed(m) /\ job[m].role = "participant"
    /\ answers' =
         IF job[m].origin = None THEN answers
         ELSE [answers EXCEPT ![job[m].origin] =
                 @ \cup {[kind |-> "press", of |-> job[m].s, v |-> job[m].v]}]
    /\ job' = [job EXCEPT ![m] = NoJob]
    /\ UNCHANGED <<version, stream, es, timers, key, view, cookie, form, losses>>

-----------------------------------------------------------------------------
(* The server's end of a stream *)

SignedIn(p) == p \in Participants \/ cookie[p]

\* The route reads the session's row ...
Open(c) ==
    /\ stream[c].st = "asked" /\ stream[c].live
    /\ stream' = [stream EXCEPT
                    ![c] = IF SignedIn(stream[c].page)
                             THEN [@ EXCEPT !.st = "read", !.base = Version(stream[c].of)]
                             ELSE [@ EXCEPT !.st = "refused"]]
    /\ UNCHANGED <<version, job, es, timers, key, view, answers, cookie, form, losses>>

\* ... and generate() subscribes, with the state of that row to send first.
Subscribe(c) ==
    /\ stream[c].st = "read"
    /\ stream' = [stream EXCEPT ![c].st = "open", ![c].opening = TRUE]
    /\ UNCHANGED <<version, job, es, timers, key, view, answers, cookie, form, losses>>

Forget(c) == job' = [m \in Workers |-> [job[m] EXCEPT !.todo = @ \ {c}]]

\* The page has closed it: generate() ends and unsubscribes.
Unsubscribe(c) ==
    /\ stream[c].st # "free" /\ ~stream[c].live
    /\ stream' = [stream EXCEPT ![c] = Free]
    /\ Forget(c)
    /\ UNCHANGED <<version, es, timers, key, view, answers, cookie, form, losses>>

\* study_state and study_control_state
AnswerState(p) ==
    /\ \E a \in answers[p] :
         /\ a.v = Unread
         /\ answers' = [answers EXCEPT ![p] = (@ \ {a}) \cup
                          {[a EXCEPT !.v = IF SignedIn(p) THEN Version(a.of)
                                           ELSE Unauthorised]}]
    /\ UNCHANGED <<version, job, stream, es, timers, key, view, cookie, form, losses>>

-----------------------------------------------------------------------------
(* The pages *)

\* eventSource.close(), on the connection the page has a handle to.
CloseHeld(p, streams) ==
    IF es[p] = None THEN streams
    ELSE IF streams[es[p]].st \in {"broken", "refused"}
           THEN [streams EXCEPT ![es[p]] = Free]
           ELSE [streams EXCEPT ![es[p]].live = FALSE]

\* connect(): a new connection, for the session the page is bound to.
Connect(p, s, streams) ==
    \E c \in Streams :
      /\ stream[c].st = "free"
      /\ stream' = [streams EXCEPT ![c] =
                      [Free EXCEPT !.st = "asked", !.page = p, !.of = s, !.live = TRUE]]
      /\ es' = [es EXCEPT ![p] = c]

\* applyState.  A participant's page remembers the key a state carries; the
\* state of no session carries none.
Apply(p, payload) ==
    /\ view' = [view EXCEPT ![p] = payload]
    /\ key' = IF p \in Panels \/ payload.s = None THEN key
              ELSE [key EXCEPT ![p] = payload.s]

\* onmessage: the opening message, then the queue in order.
Deliver(c) ==
    /\ Subscribed(c) /\ stream[c].live
    /\ \/ /\ stream[c].opening
          /\ Apply(stream[c].page, [role |-> RoleOf(stream[c].page),
                                    s |-> stream[c].of, v |-> stream[c].base])
          /\ stream' = [stream EXCEPT ![c].opening = FALSE]
       \/ /\ ~stream[c].opening /\ stream[c].queue # <<>>
          /\ Apply(stream[c].page, Head(stream[c].queue))
          /\ stream' = [stream EXCEPT ![c].queue = Tail(@)]
    /\ UNCHANGED <<version, job, es, timers, answers, cookie, form, losses>>

NoTimer(p) == timers' = timers    \* mutant: the error is not followed up
SetTimer(p) == timers' = [timers EXCEPT ![p] = @ + 1]

\* onerror: closes the connection the page has a handle to, whichever failed,
\* and sets a timer.  A broken one the page has lost its handle to is opened
\* again by the browser.
OnError(c) ==
    LET p == stream[c].page
        leaked == es[p] # c /\ stream[c].st = "broken"
    IN /\ stream[c].live /\ stream[c].st \in {"broken", "refused"}
       /\ stream' = CloseHeld(p, [stream EXCEPT ![c] =
                      IF leaked THEN [Free EXCEPT !.st = "asked", !.page = p,
                                                  !.of = stream[c].of, !.live = TRUE]
                      ELSE IF es[p] = c THEN @ ELSE Free])
       /\ es' = [es EXCEPT ![p] = None]
       /\ SetTimer(p)
       /\ UNCHANGED <<version, job, key, view, answers, cookie, form, losses>>

DueAgain(p) == timers[p] >= 0    \* mutant: fires more than once
Due(p) == timers[p] > 0

\* scheduleReconnect's callback: refreshOnce and connect.
Reconnect(p) ==
    /\ Due(p)
    /\ timers' = [timers EXCEPT ![p] = @ - 1]
    /\ answers' = [answers EXCEPT ![p] = @ \cup {Request("refresh", key[p])}]
    /\ Connect(p, key[p], stream)
    /\ UNCHANGED <<version, job, key, view, cookie, form, losses>>

\* The participant types the code into a page attached to no session.
Join(p, s) ==
    /\ p \in Participants /\ view[p].s = None /\ view[p].v # Unread
    /\ \A a \in answers[p] : a.kind # "join"
    /\ key' = [key EXCEPT ![p] = s]
    /\ answers' = [answers EXCEPT ![p] = @ \cup {Request("join", s)}]
    /\ UNCHANGED <<version, job, stream, es, timers, view, cookie, form, losses>>

\* The panel's sign-in, and boot() after it.
SignIn(p) ==
    /\ p \in Panels /\ form[p]
    /\ form' = [form EXCEPT ![p] = FALSE]
    /\ cookie' = [cookie EXCEPT ![p] = TRUE]
    /\ answers' = [answers EXCEPT ![p] =
                     IF key[p] = None THEN @ ELSE @ \cup {Request("boot", key[p])}]
    /\ UNCHANGED <<version, job, stream, es, timers, key, view, losses>>

\* An answer comes back: applied, or the sign-in form is shown.  A join replaces
\* the connection made without a code; a boot makes the panel's connection.
Receive(p, a) ==
    /\ a \in answers[p] /\ a.v # Unread
    /\ answers' = [answers EXCEPT ![p] = @ \ {a}]
    /\ IF a.v = Unauthorised
         THEN /\ form' = [form EXCEPT ![p] = TRUE]
              /\ stream' = CloseHeld(p, stream)
              /\ es' = [es EXCEPT ![p] = None]
              /\ UNCHANGED <<view, key>>
         ELSE /\ Apply(p, [role |-> RoleOf(p), s |-> a.of, v |-> a.v])
              /\ CASE a.kind = "join" -> Connect(p, a.of, CloseHeld(p, stream))
                   [] a.kind = "boot" -> Connect(p, key[p], stream)
                   [] OTHER -> UNCHANGED <<stream, es>>
              /\ UNCHANGED form
    /\ UNCHANGED <<version, job, timers, cookie, losses>>

-----------------------------------------------------------------------------
(* What fails *)

Lose(what) == what \in Failures /\ losses < MaxLosses /\ losses' = losses + 1

Break(c) ==
    /\ Lose("connection")
    /\ stream[c].live /\ stream[c].st \in {"asked", "read", "open"}
    /\ stream' = [stream EXCEPT ![c].st = "broken", ![c].opening = FALSE, ![c].queue = <<>>]
    /\ Forget(c)
    /\ UNCHANGED <<version, es, timers, key, view, answers, cookie, form>>

\* A request fails: a join forgets its code; a boot forgets its session, unless
\* it was an earlier of its requests that failed.
LoseAnswer(p, a) ==
    /\ Lose("answer")
    /\ a \in answers[p]
    /\ answers' = [answers EXCEPT ![p] = @ \ {a}]
    /\ \/ a.kind \in {"join", "boot"} /\ key' = [key EXCEPT ![p] = None]
       \/ a.kind # "join" /\ UNCHANGED key
    /\ UNCHANGED <<version, job, stream, es, timers, view, cookie, form>>

Reload(p) ==
    /\ Lose("page")
    /\ stream' = [c \in Streams |->
                    IF stream[c].page # p THEN stream[c]
                    ELSE IF stream[c].st \in {"broken", "refused"} THEN Free
                    ELSE [stream[c] EXCEPT !.live = FALSE]]
    /\ es' = [es EXCEPT ![p] = None]
    /\ timers' = [timers EXCEPT ![p] = OpeningTimers(p)]
    /\ view' = [view EXCEPT ![p] = Blank(p)]
    /\ answers' = [answers EXCEPT ![p] =
         IF p \in Panels /\ key[p] # None THEN {Request("boot", key[p])} ELSE {}]
    /\ form' = [x \in Panels |-> form[x] /\ x # p]
    /\ key' = [key EXCEPT ![p] = IF p \in Panels \/ Home[p] = None THEN @ ELSE Home[p]]
    /\ UNCHANGED <<version, job, cookie>>

\* The server is restarted: subscribers, half-done requests and sign-ins go.
Restart ==
    /\ Lose("server")
    /\ job' = [m \in Workers |-> NoJob]
    /\ stream' = [c \in Streams |->
                    IF stream[c].st \in {"asked", "refused", "broken", "free"} THEN stream[c]
                    ELSE IF stream[c].live
                      THEN [stream[c] EXCEPT !.st = "broken", !.opening = FALSE, !.queue = <<>>]
                      ELSE Free]
    /\ cookie' = [p \in Panels |-> FALSE]
    /\ UNCHANGED <<version, es, timers, key, view, answers, form>>

-----------------------------------------------------------------------------
WorkerStep(m) ==
    Reread(m) \/ Select(m) \/ Put(m) \/ PushParticipants(m) \/ Finish(m)

StreamStep(c) == Open(c) \/ Subscribe(c) \/ Unsubscribe(c)

PageStep(p) ==
    \/ \E c \in Streams : stream[c].page = p /\ (Deliver(c) \/ OnError(c))
    \/ Reconnect(p)
    \/ \E a \in answers[p] : Receive(p, a)

Next ==
    \/ \E m \in Workers : WorkerStep(m) \/ (\E s \in Sessions : Commit(m, s))
    \/ \E c \in Streams : StreamStep(c) \/ Break(c)
    \/ \E p \in Pages :
          \/ PageStep(p) \/ AnswerState(p) \/ SignIn(p) \/ Reload(p)
          \/ \E s \in Sessions : Join(p, s)
          \/ \E a \in answers[p] : LoseAnswer(p, a)
    \/ Restart

Spec == Init /\ [][Next]_svars

\* The server's threads run and the network delivers what it does not lose;
\* nobody has to press, type, sign in or reload.
FairSpec ==
    /\ Spec
    /\ \A m \in Workers : WF_svars(WorkerStep(m))
    /\ \A c \in Streams : WF_svars(StreamStep(c))
    /\ \A p \in Pages : WF_svars(PageStep(p)) /\ WF_svars(AnswerState(p))

-----------------------------------------------------------------------------
(* Properties *)

\* _push is scoped to one session and one role: nothing waits for a page, and no
\* page shows, what is another session's or another role's (the panel's state
\* names the model the participant is asked about).
Scoped ==
    /\ \A c \in Streams : \A i \in DOMAIN stream[c].queue :
         /\ stream[c].queue[i].s = stream[c].of
         /\ stream[c].queue[i].role = RoleOf(stream[c].page)
    /\ \A p \in Pages :
         /\ view[p].role = RoleOf(p)
         /\ Home[p] # None => view[p].s \in {None, Home[p]}

Held(p) ==
    /\ es[p] # None
    /\ stream[es[p]].page = p /\ stream[es[p]].live

\* connect, onerror and the join form: a participant's page always has a
\* connection it listens to or a timer that will make one, whatever was lost.
NeverDeaf == \A p \in Participants : timers[p] > 0 \/ Held(p)

Idle == \A m \in Workers : job[m].pc = "idle"
OneAtATime == \A m, n \in Workers : m = n

\* "A client that misses a message is corrected by the next one": where one
\* request at a time changes sessions and no queue overflows, what waits for a
\* page ends, once a push is over, in the session's present state.
EndsInLatest ==
    (OneAtATime /\ Idle /\ MaxVersion <= QueueMax) =>
      \A c \in Streams :
        LET queue == stream[c].queue
        IN queue # <<>> => queue[Len(queue)].v = version[stream[c].of]

\* Nothing more will be changed, lost or asked for.
Quiet ==
    /\ \A s \in Sessions : version[s] = MaxVersion
    /\ Idle /\ losses = MaxLosses
Current(p) == key[p] # None /\ view[p].s = key[p] /\ view[p].v = version[key[p]]
Alone(p) == answers[p] = {} /\ \A c \in Streams : stream[c].page # p

\* scheduleReconnect: a page that lost its connection after the last change, with
\* nothing else of its own in flight, comes back and shows the session as it is.
ReconnectHeals ==
    \A p \in Participants :
      (Quiet /\ timers[p] > 0 /\ key[p] # None /\ Alone(p)) ~> Current(p)

\* Nothing is on its way to page p.
Settled(p) ==
    /\ Idle /\ answers[p] = {} /\ timers[p] = 0
    /\ \A c \in Streams : stream[c].page = p =>
         stream[c].st = "open" /\ ~stream[c].opening /\ stream[c].queue = <<>>

\* "Live sync"'s comment: a client "is corrected by the next one instead of
\* drifting, and there is no ordering to get wrong": a page with nothing on its
\* way to it shows its session as it is.
NoDrift ==
    \A p \in Participants : (Settled(p) /\ key[p] # None) => Current(p)
=============================================================================
