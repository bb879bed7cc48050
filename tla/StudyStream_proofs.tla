------------------------- MODULE StudyStream_proofs -------------------------
(***************************************************************************)
(* Proofs about StudyStream, for any number of sessions, pages, streams    *)
(* and workers, any queue length, and whatever is lost.                    *)
(***************************************************************************)
EXTENDS StudyStream, TLAPS

USE StreamConstants DEF Participants, Bindings, Unread, Unauthorised, Versions, Roles

-----------------------------------------------------------------------------
(* Types *)

\* A worker that is doing something is doing it for a session.
JobsOfSessions == \A m \in Workers : job[m].pc # "idle" => job[m].s \in Sessions

TypeInv == TypeOK /\ JobsOfSessions

LEMMA NoJobType == NoJob \in Jobs
BY DEF NoJob, Jobs

LEMMA FreeType == Free \in StreamStates /\ Len(Free.queue) = 0 /\ Len(Free.queue) <= QueueMax
BY DEF Free, StreamStates

\* What the steps do to one connection leaves it a connection.
LEMMA QueueType ==
    ASSUME NEW r \in StreamStates, NEW q \in Seq(Payloads)
    PROVE  /\ [r EXCEPT !.queue = q] \in StreamStates
           /\ [r EXCEPT !.queue = q].queue = q
BY DEF StreamStates

LEMMA PhaseType ==
    ASSUME NEW r \in StreamStates,
           NEW st \in {"free", "asked", "read", "open", "broken", "refused"}
    PROVE  [r EXCEPT !.st = st] \in StreamStates
BY DEF StreamStates

LEMMA OpeningType ==
    ASSUME NEW r \in StreamStates, NEW b \in BOOLEAN
    PROVE  [r EXCEPT !.opening = b] \in StreamStates
BY DEF StreamStates

LEMMA LiveType ==
    ASSUME NEW r \in StreamStates, NEW b \in BOOLEAN
    PROVE  [r EXCEPT !.live = b] \in StreamStates
BY DEF StreamStates

LEMMA BaseType ==
    ASSUME NEW r \in StreamStates, NEW v \in Versions
    PROVE  [r EXCEPT !.base = v] \in StreamStates
BY DEF StreamStates

\* A connection as a page asks for it.
Asked(p, s) == [Free EXCEPT !.st = "asked", !.page = p, !.of = s, !.live = TRUE]

LEMMA AskedType ==
    ASSUME NEW p \in Pages, NEW s \in Bindings
    PROVE  /\ Asked(p, s) \in StreamStates
           /\ Asked(p, s).queue = <<>> /\ Len(Asked(p, s).queue) <= QueueMax
           /\ Asked(p, s).st = "asked" /\ Asked(p, s).page = p /\ Asked(p, s).of = s
           /\ Asked(p, s).live /\ ~Asked(p, s).opening
<1>1. ASSUME NEW r \in StreamStates PROVE [r EXCEPT !.page = p] \in StreamStates
  BY DEF StreamStates
<1>2. ASSUME NEW r \in StreamStates PROVE [r EXCEPT !.of = s] \in StreamStates
  BY DEF StreamStates
<1>3. [[[[Free EXCEPT !.st = "asked"] EXCEPT !.page = p] EXCEPT !.of = s] EXCEPT !.live = TRUE]
        \in StreamStates
  BY <1>1, <1>2, FreeType, PhaseType, LiveType
<1>4. Asked(p, s) \in StreamStates
  BY <1>3 DEF Asked
<1> QED BY <1>4 DEF Asked, Free

LEMMA BlankType == ASSUME NEW p \in Pages PROVE Blank(p) \in Payloads
BY DEF Blank, Payloads, RoleOf

LEMMA RequestType ==
    ASSUME NEW kind \in {"refresh", "join", "boot", "press"}, NEW s \in Bindings
    PROVE  Request(kind, s) \in Answers
BY DEF Request, Answers

LEMMA VersionType ==
    ASSUME TypeOK, NEW s \in Bindings PROVE Version(s) \in Versions
BY DEF TypeOK, Version

LEMMA LoseType == ASSUME TypeOK, NEW what, Lose(what) PROVE losses' \in 0..MaxLosses
BY DEF TypeOK, Lose

LEMMA InitTypeInv == Init => TypeInv
<1> SUFFICES ASSUME Init PROVE TypeInv
  OBVIOUS
<1>1. answers \in [Pages -> SUBSET Answers]
  BY RequestType DEF Init, Opening
<1>2. stream \in [Streams -> StreamStates] /\ \A c \in Streams : Len(stream[c].queue) <= QueueMax
  BY FreeType DEF Init
<1>3. view \in [Pages -> Payloads] /\ job \in [Workers -> Jobs]
  BY BlankType, NoJobType DEF Init
<1>4. timers \in [Pages -> Nat]
  BY DEF Init, OpeningTimers
<1>5. JobsOfSessions
  BY DEF Init, JobsOfSessions, NoJob
<1> QED BY <1>1, <1>2, <1>3, <1>4, <1>5 DEF Init, TypeInv, TypeOK

\* The worker's steps
LEMMA WorkerType ==
    ASSUME TypeInv, NEW m \in Workers, WorkerStep(m) \/ (\E s \in Sessions : Commit(m, s))
    PROVE  TypeInv'
<1> USE DEF TypeInv
<1>t. TypeOK /\ job[m] \in Jobs
  BY DEF TypeOK
<1>j. ASSUME NEW j \in Jobs, job' = [job EXCEPT ![m] = j], j.pc # "idle" => j.s \in Sessions
      PROVE  job' \in [Workers -> Jobs] /\ JobsOfSessions'
  BY <1>t, <1>j DEF TypeOK, JobsOfSessions
<1>1. ASSUME NEW s \in Sessions, Commit(m, s) PROVE TypeInv'
  <2>1. version' \in [Sessions -> Versions] /\ version'[s] \in Versions
    <3>1. version[s] \in Nat /\ version[s] + 1 \in Versions
      <4>1. version[s] \in Versions
        BY <1>t DEF TypeOK
      <4>2. version[s] < MaxVersion
        BY <1>1 DEF Commit
      <4> QED BY <4>1, <4>2
    <3>2. version \in [Sessions -> Versions] /\ version' = [version EXCEPT ![s] = @ + 1]
      BY <1>t, <1>1 DEF Commit, TypeOK
    <3> HIDE DEF Versions
    <3> QED BY <3>1, <3>2
  <2>2. PICK next \in {"reread", "select"}, o \in {p \in Panels : key[p] = s} \cup {None} :
           job' = [job EXCEPT ![m] = [NoJob EXCEPT !.pc = next, !.s = s, !.origin = o,
                                                   !.v = version'[s]]]
    BY <1>1 DEF Commit
  <2> DEFINE j == [NoJob EXCEPT !.pc = next, !.s = s, !.origin = o, !.v = version'[s]]
  <2>3. j \in Jobs /\ j.s \in Sessions
    BY <2>1 DEF NoJob, Jobs
  <2>4. job' \in [Workers -> Jobs] /\ JobsOfSessions'
    <3> HIDE DEF j
    <3> QED BY <2>2, <2>3, <1>j DEF j
  <2> QED BY <1>t, <1>1, <2>1, <2>4 DEF Commit, TypeOK
<1>2. CASE Reread(m)
  <2> DEFINE j == [job[m] EXCEPT !.v = version[job[m].s], !.pc = "select"]
  <2>1. job[m].s \in Sessions /\ version[job[m].s] \in Versions
    BY <1>t, <1>2 DEF Reread, JobsOfSessions, TypeOK
  <2>2. j \in Jobs /\ j.s \in Sessions
    BY <1>t, <2>1 DEF Jobs
  <2>3. job' = [job EXCEPT ![m] = j]
    BY <1>t, <1>2 DEF Reread, TypeOK
  <2>4. job' \in [Workers -> Jobs] /\ JobsOfSessions'
    <3> HIDE DEF j
    <3> QED BY <2>2, <2>3, <1>j
  <2> QED BY <1>t, <1>2, <2>4 DEF Reread, TypeOK
<1>3. CASE Select(m)
  <2> DEFINE todo == {c \in Streams : IsTarget(c, job[m].role, job[m].s)}
             j == [job[m] EXCEPT !.pc = "put", !.todo = todo]
  <2>1. job[m].s \in Sessions /\ todo \in SUBSET Streams
    BY <1>t, <1>3 DEF Select, JobsOfSessions
  <2>2. j \in Jobs /\ j.s \in Sessions
    <3> HIDE DEF todo
    <3> QED BY <1>t, <2>1 DEF Jobs
  <2>3. job' = [job EXCEPT ![m] = j]
    BY <1>t, <1>3 DEF Select, TypeOK
  <2>4. job' \in [Workers -> Jobs] /\ JobsOfSessions'
    <3> HIDE DEF j
    <3> QED BY <2>2, <2>3, <1>j
  <2> QED BY <1>t, <1>3, <2>4 DEF Select, TypeOK
<1>4. CASE Put(m)
  <2>1. PICK c \in job[m].todo :
         /\ stream' = [stream EXCEPT ![c].queue =
                         PutNowait(@, [role |-> job[m].role, s |-> job[m].s, v |-> job[m].v])]
         /\ job' = [job EXCEPT ![m].todo = @ \ {c}]
    BY <1>4 DEF Put
  <2> DEFINE j == [job[m] EXCEPT !.todo = @ \ {c}]
             payload == [role |-> job[m].role, s |-> job[m].s, v |-> job[m].v]
             q == PutNowait(stream[c].queue, payload)
  <2>2. c \in Streams /\ job[m].s \in Sessions /\ payload \in Payloads
    BY <1>t, <1>4 DEF Put, JobsOfSessions, Jobs, Payloads
  <2>3. j \in Jobs /\ j.s \in Sessions
    BY <1>t, <2>2 DEF Jobs
  <2>4. job' = [job EXCEPT ![m] = j]
    BY <1>t, <2>1 DEF TypeOK
  <2>5. job' \in [Workers -> Jobs] /\ JobsOfSessions'
    <3> HIDE DEF j
    <3> QED BY <2>3, <2>4, <1>j
  <2>6. q \in Seq(Payloads) /\ Len(q) <= QueueMax
    <3> HIDE DEF payload
    <3>1. stream[c].queue \in Seq(Payloads) /\ Len(stream[c].queue) <= QueueMax
      BY <1>t, <2>2 DEF TypeOK, StreamStates
    <3> QED BY <2>2, <3>1 DEF PutNowait
  <2>7. stream' = [stream EXCEPT ![c] = [@ EXCEPT !.queue = q]]
    BY <1>t, <2>1 DEF TypeOK
  <2>8. stream' \in [Streams -> StreamStates] /\ \A d \in Streams : Len(stream'[d].queue) <= QueueMax
    <3> DEFINE r == [stream[c] EXCEPT !.queue = q]
    <3> HIDE DEF q
    <3>1. r \in StreamStates /\ r.queue = q
      BY <1>t, <2>2, <2>6, QueueType DEF TypeOK
    <3> HIDE DEF r
    <3>2. stream' = [stream EXCEPT ![c] = r]
      BY <1>t, <2>2, <2>7 DEF TypeOK, r
    <3> QED BY <1>t, <2>2, <2>6, <3>1, <3>2 DEF TypeOK
  <2> QED BY <1>t, <1>4, <2>5, <2>8 DEF Put, TypeOK
<1>5. CASE PushParticipants(m)
  <2> DEFINE j == [job[m] EXCEPT !.role = "participant", !.pc = "select"]
  <2>1. j \in Jobs /\ j.s \in Sessions
    BY <1>t, <1>5 DEF PushParticipants, Pushed, JobsOfSessions, Jobs
  <2>3. job' = [job EXCEPT ![m] = j]
    BY <1>t, <1>5 DEF PushParticipants, TypeOK
  <2>4. job' \in [Workers -> Jobs] /\ JobsOfSessions'
    <3> HIDE DEF j
    <3> QED BY <2>1, <2>3, <1>j
  <2> QED BY <1>t, <1>5, <2>4 DEF PushParticipants, TypeOK
<1>6. CASE Finish(m)
  <2>1. job' \in [Workers -> Jobs] /\ JobsOfSessions'
    BY <1>6, <1>j, NoJobType DEF Finish, NoJob
  <2>2. [kind |-> "press", of |-> job[m].s, v |-> job[m].v] \in Answers
    BY <1>t DEF Jobs, Answers
  <2>3. answers' \in [Pages -> SUBSET Answers]
    BY <1>t, <1>6, <2>2 DEF Finish, TypeOK, Jobs
  <2> QED BY <1>t, <1>6, <2>1, <2>3 DEF Finish, TypeOK
<1> QED BY <1>1, <1>2, <1>3, <1>4, <1>5, <1>6 DEF WorkerStep

\* The connections as TypeOK has them
Connections(f) ==
    f \in [Streams -> StreamStates] /\ \A c \in Streams : Len(f[c].queue) <= QueueMax

LEMMA OneConnection ==
    ASSUME NEW f, Connections(f), NEW c \in Streams, NEW r \in StreamStates, Len(r.queue) <= QueueMax
    PROVE  Connections([f EXCEPT ![c] = r])
BY DEF Connections

\* Closing a page's connection frees it, or leaves the server to notice.
LEMMA CloseHeldDoes ==
    ASSUME NEW p \in Pages, NEW f \in [Streams -> StreamStates], es[p] \in Streams \cup {None}
    PROVE  /\ CloseHeld(p, f) \in [Streams -> StreamStates]
           /\ \A c \in Streams : c # es[p] => CloseHeld(p, f)[c] = f[c]
           /\ es[p] # None =>
                CloseHeld(p, f)[es[p]] = IF f[es[p]].st \in {"broken", "refused"} THEN Free
                                         ELSE [f[es[p]] EXCEPT !.live = FALSE]
<1>1. CASE es[p] = None
  BY <1>1 DEF CloseHeld
<1>2. CASE es[p] # None
  <2> DEFINE c == es[p]
             r == [f[c] EXCEPT !.live = FALSE]
  <2>1. c \in Streams /\ f[c] \in StreamStates
    BY <1>2
  <2>2. r \in StreamStates /\ Free \in StreamStates
    BY <2>1, LiveType, FreeType
  <2>3. CloseHeld(p, f) = IF f[c].st \in {"broken", "refused"} THEN [f EXCEPT ![c] = Free]
                          ELSE [f EXCEPT ![c] = r]
    BY <1>2, <2>1 DEF CloseHeld
  <2> HIDE DEF r
  <2>4. /\ CloseHeld(p, f) \in [Streams -> StreamStates]
        /\ \A d \in Streams : d # es[p] => CloseHeld(p, f)[d] = f[d]
        /\ CloseHeld(p, f)[c] = IF f[c].st \in {"broken", "refused"} THEN Free ELSE r
    BY <2>1, <2>2, <2>3
  <2> QED BY <2>4 DEF r
<1> QED BY <1>1, <1>2

LEMMA CloseHeldType ==
    ASSUME TypeOK, NEW p \in Pages, NEW f, Connections(f)
    PROVE  Connections(CloseHeld(p, f))
<1>1. es[p] \in Streams \cup {None} /\ f \in [Streams -> StreamStates]
  BY DEF TypeOK, Connections
<1>2. ASSUME NEW c \in Streams PROVE Len(CloseHeld(p, f)[c].queue) <= QueueMax
  <2>1. Len(f[c].queue) <= QueueMax /\ f[c] \in StreamStates
    BY DEF Connections
  <2>2. [f[c] EXCEPT !.live = FALSE].queue = f[c].queue
    BY <2>1 DEF StreamStates
  <2>3. CASE c # es[p]
    <3>1. CloseHeld(p, f)[c] = f[c]
      <4>1. \A d \in Streams : d # es[p] => CloseHeld(p, f)[d] = f[d]
        BY <1>1, CloseHeldDoes
      <4> QED BY <2>3, <4>1
    <3> QED BY <2>1, <3>1
  <2>4. CASE c = es[p]
    <3>1. es[p] # None
      BY <2>4
    <3>2. CloseHeld(p, f)[c] = IF f[c].st \in {"broken", "refused"} THEN Free
                               ELSE [f[c] EXCEPT !.live = FALSE]
      BY <1>1, <2>4, <3>1, CloseHeldDoes
    <3> QED BY <2>1, <2>2, <3>2, FreeType
  <2> QED BY <2>3, <2>4
<1> QED BY <1>1, <1>2, CloseHeldDoes DEF Connections

LEMMA ConnectType ==
    ASSUME TypeOK, NEW p \in Pages, NEW s \in Bindings, NEW f, Connections(f), Connect(p, s, f)
    PROVE  Connections(stream') /\ es' \in [Pages -> Streams \cup {None}]
<1>1. PICK c \in Streams : stream' = [f EXCEPT ![c] = Asked(p, s)] /\ es' = [es EXCEPT ![p] = c]
  BY DEF Connect, Asked
<1>2. Connections(stream')
  <2>1. Asked(p, s) \in StreamStates /\ Len(Asked(p, s).queue) <= QueueMax
    BY AskedType
  <2> QED BY <1>1, <2>1, OneConnection
<1> QED BY <1>1, <1>2 DEF TypeOK

LEMMA ApplyType ==
    ASSUME TypeOK, NEW p \in Pages, NEW payload \in Payloads, Apply(p, payload)
    PROVE  view' \in [Pages -> Payloads] /\ key' \in [Pages -> Bindings]
BY DEF TypeOK, Apply, Payloads

\* The server's end of a stream, and what breaks it
LEMMA StreamEndType ==
    ASSUME TypeInv, NEW c \in Streams, StreamStep(c) \/ Break(c)
    PROVE  TypeInv'
<1>t. /\ TypeOK /\ Connections(stream)
      /\ stream[c] \in StreamStates /\ Len(stream[c].queue) <= QueueMax
  BY DEF TypeInv, TypeOK, Connections
<1>f. ASSUME Forget(c) PROVE job' \in [Workers -> Jobs] /\ JobsOfSessions'
  <2>1. ASSUME NEW m \in Workers
        PROVE  job'[m] \in Jobs /\ (job'[m].pc # "idle" => job'[m].s \in Sessions)
    <3>1. job[m] \in Jobs /\ (job[m].pc # "idle" => job[m].s \in Sessions)
      BY <1>t DEF TypeInv, TypeOK, JobsOfSessions
    <3>2. job'[m] = [job[m] EXCEPT !.todo = @ \ {c}]
      BY <1>f DEF Forget
    <3> QED BY <3>1, <3>2 DEF Jobs
  <2>2. job' = [m \in Workers |-> job'[m]]
    BY <1>f DEF Forget
  <2> HIDE DEF Forget
  <2> QED BY <2>1, <2>2 DEF JobsOfSessions
<1>1. CASE Open(c)
  <2> DEFINE v == Version(stream[c].of)
             r == IF SignedIn(stream[c].page) THEN [stream[c] EXCEPT !.st = "read", !.base = v]
                  ELSE [stream[c] EXCEPT !.st = "refused"]
  <2>1. stream' = [stream EXCEPT ![c] = r]
    BY <1>t, <1>1 DEF Open, TypeOK
  <2>2. v \in Versions
    BY <1>t, VersionType DEF StreamStates
  <2>3. /\ [[stream[c] EXCEPT !.st = "read"] EXCEPT !.base = v] \in StreamStates
        /\ [stream[c] EXCEPT !.st = "refused"] \in StreamStates
    <3> HIDE DEF v
    <3> QED BY <1>t, <2>2, BaseType, PhaseType
  <2>4. r \in StreamStates /\ r.queue = stream[c].queue
    <3> HIDE DEF v
    <3> QED BY <1>t, <2>3 DEF StreamStates
  <2>5. Connections(stream')
    <3> HIDE DEF r
    <3> QED BY <1>t, <2>1, <2>4, OneConnection
  <2> QED BY <1>t, <1>1, <2>5 DEF Open, TypeInv, TypeOK, Connections, JobsOfSessions
<1>2. CASE Subscribe(c)
  <2> DEFINE r == [[stream[c] EXCEPT !.st = "open"] EXCEPT !.opening = TRUE]
  <2>1. stream' = [stream EXCEPT ![c] = r]
    BY <1>t, <1>2 DEF Subscribe, TypeOK
  <2>2. r \in StreamStates
    BY <1>t, PhaseType, OpeningType
  <2>3. r.queue = stream[c].queue
    BY <1>t DEF StreamStates
  <2>4. Connections(stream')
    <3> HIDE DEF r
    <3> QED BY <1>t, <2>1, <2>2, <2>3, OneConnection
  <2> QED BY <1>t, <1>2, <2>4 DEF Subscribe, TypeInv, TypeOK, Connections, JobsOfSessions
<1>3. CASE Unsubscribe(c)
  <2>1. Connections(stream')
    <3>1. stream' = [stream EXCEPT ![c] = Free]
      BY <1>3 DEF Unsubscribe
    <3> QED BY <1>t, <3>1, FreeType, OneConnection
  <2> QED BY <1>t, <1>f, <1>3, <2>1 DEF Unsubscribe, TypeInv, TypeOK, Connections
<1>4. CASE Break(c)
  <2> DEFINE r == [[[stream[c] EXCEPT !.st = "broken"] EXCEPT !.opening = FALSE] EXCEPT !.queue = <<>>]
  <2>1. stream' = [stream EXCEPT ![c] = r]
    BY <1>t, <1>4 DEF Break, TypeOK
  <2>2. <<>> \in Seq(Payloads)
    OBVIOUS
  <2>3. r \in StreamStates /\ r.queue = <<>>
    BY <1>t, <2>2, PhaseType, OpeningType, QueueType
  <2>6. Len(r.queue) <= QueueMax
    BY <2>3
  <2>4. Connections(stream')
    <3> HIDE DEF r
    <3> QED BY <1>t, <2>1, <2>3, <2>6, OneConnection
  <2>5. losses' \in 0..MaxLosses
    BY <1>t, <1>4 DEF Break, Lose, TypeOK
  <2> QED BY <1>t, <1>f, <1>4, <2>4, <2>5 DEF Break, TypeInv, TypeOK, Connections
<1> QED BY <1>1, <1>2, <1>3, <1>4 DEF StreamStep

\* What the pages do, and what happens to them
LEMMA PageType ==
    ASSUME TypeInv, NEW p \in Pages,
           \/ PageStep(p) \/ AnswerState(p) \/ SignIn(p) \/ Reload(p)
           \/ \E s \in Sessions : Join(p, s)
           \/ \E a \in answers[p] : LoseAnswer(p, a)
    PROVE  TypeInv'
<1>t. /\ TypeOK /\ Connections(stream) /\ JobsOfSessions
      /\ key[p] \in Bindings /\ Home[p] \in Bindings /\ answers[p] \subseteq Answers
      /\ es[p] \in Streams \cup {None} /\ timers[p] \in Nat
  BY DEF TypeInv, TypeOK, Connections
<1>r. \A kind \in {"refresh", "join", "boot", "press"}, s \in Bindings :
        Request(kind, s) \in Answers
  BY RequestType
<1> USE DEF TypeInv
<1>1. ASSUME NEW c \in Streams, stream[c].page = p, Deliver(c) PROVE TypeInv'
  <2>0. stream[c] \in StreamStates /\ Len(stream[c].queue) <= QueueMax
    BY <1>t DEF Connections
  <2>1. CASE stream[c].opening
    <3> DEFINE payload == [role |-> RoleOf(p), s |-> stream[c].of, v |-> stream[c].base]
               r == [stream[c] EXCEPT !.opening = FALSE]
    <3>1. payload \in Payloads
      BY <2>0 DEF Payloads, StreamStates, RoleOf
    <3>2. Apply(p, payload) /\ stream' = [stream EXCEPT ![c] = r]
      BY <1>t, <1>1, <2>1 DEF Deliver, TypeOK
    <3>3. r \in StreamStates /\ r.queue = stream[c].queue
      BY <2>0, OpeningType DEF StreamStates
    <3>4. Connections(stream')
      <4> HIDE DEF r
      <4> QED BY <1>t, <2>0, <3>2, <3>3, OneConnection
    <3>5. view' \in [Pages -> Payloads] /\ key' \in [Pages -> Bindings]
      <4> HIDE DEF payload
      <4> QED BY <1>t, <3>1, <3>2, ApplyType
    <3> QED BY <1>t, <1>1, <3>4, <3>5 DEF Deliver, TypeOK, Connections, JobsOfSessions
  <2>2. CASE ~stream[c].opening
    <3> DEFINE q == Tail(stream[c].queue)
               r == [stream[c] EXCEPT !.queue = q]
    <3>1. /\ stream[c].queue # <<>> /\ Apply(p, Head(stream[c].queue))
          /\ stream' = [stream EXCEPT ![c] = r]
      BY <1>t, <1>1, <2>2 DEF Deliver, TypeOK
    <3>2. stream[c].queue \in Seq(Payloads)
      BY <2>0 DEF StreamStates
    <3>3. Head(stream[c].queue) \in Payloads /\ q \in Seq(Payloads) /\ Len(q) <= QueueMax
      BY <2>0, <3>1, <3>2
    <3>4. r \in StreamStates /\ r.queue = q
      <4> HIDE DEF q
      <4> QED BY <2>0, <3>3, QueueType
    <3>5. Connections(stream')
      <4> HIDE DEF r, q
      <4> QED BY <1>t, <3>1, <3>3, <3>4, OneConnection
    <3>6. view' \in [Pages -> Payloads] /\ key' \in [Pages -> Bindings]
      BY <1>t, <3>1, <3>3, ApplyType
    <3> QED BY <1>t, <1>1, <3>5, <3>6 DEF Deliver, TypeOK, Connections, JobsOfSessions
  <2> QED BY <2>1, <2>2
<1>2. ASSUME NEW c \in Streams, stream[c].page = p, OnError(c) PROVE TypeInv'
  <2> DEFINE r == IF es[p] # c /\ stream[c].st = "broken" THEN Asked(p, stream[c].of)
                  ELSE IF es[p] = c THEN stream[c] ELSE Free
             f == [stream EXCEPT ![c] = r]
  <2>1. /\ stream' = CloseHeld(p, f)
        /\ es' = [es EXCEPT ![p] = None] /\ SetTimer(p)
    BY <1>t, <1>2 DEF OnError, TypeOK, Asked
  <2>2. stream[c] \in StreamStates /\ Len(stream[c].queue) <= QueueMax
    BY <1>t DEF Connections
  <2>3. r \in StreamStates /\ Len(r.queue) <= QueueMax
    <3>1. stream[c].of \in Bindings
      BY <2>2 DEF StreamStates
    <3> QED BY <2>2, <3>1, FreeType, AskedType
  <2>4. Connections(f)
    <3> HIDE DEF r
    <3> QED BY <1>t, <2>3, OneConnection
  <2>5. Connections(stream')
    <3> HIDE DEF f
    <3> QED BY <1>t, <2>1, <2>4, CloseHeldType
  <2>6. timers' \in [Pages -> Nat] /\ es' \in [Pages -> Streams \cup {None}]
    BY <1>t, <2>1 DEF SetTimer, TypeOK
  <2> QED BY <1>t, <1>2, <2>5, <2>6 DEF OnError, TypeOK, Connections, JobsOfSessions
<1>3. CASE Reconnect(p)
  <2>1. Connections(stream') /\ es' \in [Pages -> Streams \cup {None}]
    BY <1>t, <1>3, ConnectType DEF Reconnect
  <2>2. timers' \in [Pages -> Nat]
    BY <1>t, <1>3 DEF Reconnect, Due, TypeOK
  <2>3. Request("refresh", key[p]) \in Answers
    BY <1>t, <1>r
  <2>4. answers' \in [Pages -> SUBSET Answers]
    BY <1>t, <1>3, <2>3 DEF Reconnect, TypeOK
  <2> QED BY <1>t, <1>3, <2>1, <2>2, <2>4 DEF Reconnect, TypeOK, Connections, JobsOfSessions
<1>4. ASSUME NEW a \in answers[p], Receive(p, a) PROVE TypeInv'
  <2> DEFINE payload == [role |-> RoleOf(p), s |-> a.of, v |-> a.v]
  <2>0. a \in Answers /\ a.of \in Bindings /\ a.v # Unread
    BY <1>t, <1>4 DEF Receive, Answers
  <2>1. answers' \in [Pages -> SUBSET Answers]
    BY <1>t, <1>4 DEF Receive, TypeOK
  <2>2. CASE a.v = Unauthorised
    <3>1. form' = [form EXCEPT ![p] = TRUE] /\ stream' = CloseHeld(p, stream)
          /\ es' = [es EXCEPT ![p] = None] /\ UNCHANGED <<view, key>>
      BY <1>4, <2>2 DEF Receive
    <3>2. Connections(stream')
      BY <1>t, <3>1, CloseHeldType
    <3> QED BY <1>t, <1>4, <2>1, <3>1, <3>2 DEF Receive, TypeOK, Connections, JobsOfSessions
  <2>3. CASE a.v # Unauthorised
    <3>1. Apply(p, payload) /\ UNCHANGED form
      BY <1>4, <2>3 DEF Receive
    <3>2. payload \in Payloads
      BY <2>0, <2>3 DEF Payloads, Answers, RoleOf
    <3>3. view' \in [Pages -> Payloads] /\ key' \in [Pages -> Bindings]
      <4> HIDE DEF payload
      <4> QED BY <1>t, <3>1, <3>2, ApplyType
    <3>4. \/ Connect(p, a.of, CloseHeld(p, stream))
          \/ Connect(p, key[p], stream)
          \/ UNCHANGED <<stream, es>>
      BY <1>4, <2>3 DEF Receive
    <3>5. Connections(stream') /\ es' \in [Pages -> Streams \cup {None}]
      <4>1. Connections(CloseHeld(p, stream))
        BY <1>t, CloseHeldType
      <4> QED BY <1>t, <2>0, <3>4, <4>1, ConnectType DEF TypeOK
    <3> QED BY <1>t, <1>4, <2>1, <3>1, <3>3, <3>5 DEF Receive, TypeOK, Connections, JobsOfSessions
  <2> QED BY <2>2, <2>3
<1>5. CASE AnswerState(p)
  <2>1. PICK a \in answers[p] :
          answers' = [answers EXCEPT ![p] = (@ \ {a}) \cup
                          {[a EXCEPT !.v = IF SignedIn(p) THEN Version(a.of) ELSE Unauthorised]}]
    BY <1>5 DEF AnswerState
  <2> DEFINE v == IF SignedIn(p) THEN Version(a.of) ELSE Unauthorised
             b == [a EXCEPT !.v = v]
  <2>2. a \in Answers /\ v \in Versions \cup {Unread, Unauthorised}
    BY <1>t, VersionType DEF Answers
  <2>3. b \in Answers
    <3> HIDE DEF v
    <3> QED BY <2>2 DEF Answers
  <2>4. answers' \in [Pages -> SUBSET Answers]
    <3> HIDE DEF b
    <3>1. answers' = [answers EXCEPT ![p] = (@ \ {a}) \cup {b}]
      BY <2>1 DEF b
    <3> QED BY <1>t, <2>3, <3>1 DEF TypeOK
  <2> QED BY <1>t, <1>5, <2>4 DEF AnswerState, TypeOK, JobsOfSessions
<1>6. CASE SignIn(p)
  <2>1. answers' \in [Pages -> SUBSET Answers]
    <3>1. Request("boot", key[p]) \in Answers
      BY <1>t, <1>r
    <3> QED BY <1>t, <1>6, <3>1 DEF SignIn, TypeOK
  <2> QED BY <1>t, <1>6, <2>1 DEF SignIn, TypeOK, JobsOfSessions
<1>7. CASE Reload(p)
  <2>1. answers' \in [Pages -> SUBSET Answers]
    <3>1. Request("boot", key[p]) \in Answers
      BY <1>t, <1>r
    <3> QED BY <1>t, <1>7, <3>1 DEF Reload, TypeOK
  <2>2. Connections(stream')
    <3>1. ASSUME NEW c \in Streams
          PROVE  stream'[c] \in StreamStates /\ Len(stream'[c].queue) <= QueueMax
      <4>1. stream[c] \in StreamStates /\ Len(stream[c].queue) <= QueueMax
        BY <1>t DEF Connections
      <4>2. /\ [stream[c] EXCEPT !.live = FALSE] \in StreamStates
            /\ [stream[c] EXCEPT !.live = FALSE].queue = stream[c].queue
        BY <4>1, LiveType DEF StreamStates
      <4>3. stream'[c] \in {stream[c], Free, [stream[c] EXCEPT !.live = FALSE]}
        BY <1>7 DEF Reload
      <4> QED BY <4>1, <4>2, <4>3, FreeType
    <3>2. stream' = [c \in Streams |-> stream'[c]]
      BY <1>7 DEF Reload
    <3> HIDE DEF Reload
    <3> QED BY <3>1, <3>2 DEF Connections
  <2>3. timers' \in [Pages -> Nat] /\ view' \in [Pages -> Payloads]
    BY <1>t, <1>7, BlankType DEF Reload, TypeOK, OpeningTimers
  <2>4. /\ key' \in [Pages -> Bindings] /\ es' \in [Pages -> Streams \cup {None}]
        /\ form' \in [Panels -> BOOLEAN] /\ losses' \in 0..MaxLosses
    <3>1. losses' \in 0..MaxLosses
      BY <1>t, <1>7 DEF Reload, Lose, TypeOK
    <3>2. form' \in [Panels -> BOOLEAN]
      BY <1>t, <1>7 DEF Reload, TypeOK
    <3> QED BY <1>t, <1>7, <3>1, <3>2 DEF Reload, TypeOK
  <2> QED BY <1>t, <1>7, <2>1, <2>2, <2>3, <2>4 DEF Reload, TypeOK, Connections, JobsOfSessions
<1>8. ASSUME NEW s \in Sessions, Join(p, s) PROVE TypeInv'
  <2>1. answers' \in [Pages -> SUBSET Answers] /\ key' \in [Pages -> Bindings]
    <3>1. Request("join", s) \in Answers
      BY <1>r
    <3> QED BY <1>t, <1>8, <3>1 DEF Join, TypeOK
  <2> QED BY <1>t, <1>8, <2>1 DEF Join, TypeOK, JobsOfSessions
<1>9. ASSUME NEW a \in answers[p], LoseAnswer(p, a) PROVE TypeInv'
  <2>1. losses' \in 0..MaxLosses
    BY <1>t, <1>9, LoseType DEF LoseAnswer
  <2>2. answers' \in [Pages -> SUBSET Answers] /\ key' \in [Pages -> Bindings]
    BY <1>t, <1>9 DEF LoseAnswer, TypeOK
  <2> QED BY <1>t, <1>9, <2>1, <2>2 DEF LoseAnswer, TypeOK, JobsOfSessions
<1> QED BY <1>1, <1>2, <1>3, <1>4, <1>5, <1>6, <1>7, <1>8, <1>9 DEF PageStep

LEMMA RestartType == ASSUME TypeInv, Restart PROVE TypeInv'
<1>t. TypeOK /\ Connections(stream)
  BY DEF TypeInv, TypeOK, Connections
<1>1. Connections(stream')
  <2>1. ASSUME NEW c \in Streams
        PROVE  stream'[c] \in StreamStates /\ Len(stream'[c].queue) <= QueueMax
    <3> DEFINE r == [[[stream[c] EXCEPT !.st = "broken"] EXCEPT !.opening = FALSE] EXCEPT !.queue = <<>>]
    <3>1. stream[c] \in StreamStates /\ Len(stream[c].queue) <= QueueMax
      BY <1>t DEF Connections
    <3>2. <<>> \in Seq(Payloads) /\ Len(<<>>) <= QueueMax
      OBVIOUS
    <3>3. r \in StreamStates /\ r.queue = <<>>
      BY <3>1, <3>2, PhaseType, OpeningType, QueueType
    <3>4. stream'[c] \in {stream[c], Free, r}
      BY DEF Restart
    <3> HIDE DEF r
    <3> QED BY <3>1, <3>2, <3>3, <3>4, FreeType
  <2>2. stream' = [c \in Streams |-> stream'[c]]
    BY DEF Restart
  <2> QED BY <2>1, <2>2 DEF Connections
<1>2. losses' \in 0..MaxLosses
  <2>1. Lose("server")
    BY DEF Restart
  <2> QED BY <1>t, <2>1, LoseType
<1>3. job' \in [Workers -> Jobs] /\ JobsOfSessions'
  BY NoJobType DEF Restart, NoJob, JobsOfSessions
<1> QED BY <1>t, <1>1, <1>2, <1>3 DEF Restart, TypeInv, TypeOK, Connections

LEMMA StepTypeInv == TypeInv /\ [Next]_svars => TypeInv'
<1> SUFFICES ASSUME TypeInv, [Next]_svars PROVE TypeInv'
  OBVIOUS
<1>1. CASE UNCHANGED svars
  BY <1>1 DEF svars, TypeInv, TypeOK, JobsOfSessions
<1> QED BY <1>1, WorkerType, StreamEndType, PageType, RestartType DEF Next

\* The server's and the pages' variables keep their types: no queue grows past
\* QueueMax, and every handle, timer and answer is one of a page's.
THEOREM TypeCorrect == Spec => []TypeOK
<1>1. TypeInv => TypeOK
  BY DEF TypeInv
<1> QED BY <1>1, InitTypeInv, StepTypeInv, PTL DEF Spec

-----------------------------------------------------------------------------
(* What is whose *)

\* The sessions a page that was opened on one may have to do with.
Whose(p, s) == Home[p] # None => s = Home[p] \/ (p \in Panels /\ s = None)

JobScoped(m) ==
    /\ \A c \in job[m].todo :
         /\ stream[c].st = "open"
         /\ stream[c].of = job[m].s /\ RoleOf(stream[c].page) = job[m].role
    /\ job[m].todo # {} => job[m].pc = "put"
    /\ job[m].origin # None => job[m].origin \in Panels /\ Whose(job[m].origin, job[m].s)

StreamScoped(c) ==
    /\ stream[c].st # "free" => stream[c].page \in Pages /\ Whose(stream[c].page, stream[c].of)
    /\ stream[c].st # "open" => stream[c].queue = <<>>
    /\ \A i \in DOMAIN stream[c].queue :
         /\ stream[c].queue[i].s = stream[c].of
         /\ stream[c].queue[i].role = RoleOf(stream[c].page)

\* A participant's page never boots or is refused; with a session of its own it
\* asks for no code.
AnswerScoped(p, a) ==
    /\ Whose(p, a.of)
    /\ p \notin Panels => a.kind # "boot" /\ a.v # Unauthorised
    /\ p \notin Panels /\ Home[p] # None => a.kind # "join"

PageScoped(p) ==
    /\ Whose(p, key[p])
    /\ \A a \in answers[p] : AnswerScoped(p, a)
    /\ view[p].role = RoleOf(p)
    /\ view[p] = Blank(p) \/ Whose(p, view[p].s)

\* The handle is on a connection of the page's own that it listens to; a
\* participant's page without one has a timer running.
Hears(p) ==
    /\ es[p] # None =>
         /\ stream[es[p]].page = p /\ stream[es[p]].live
         /\ stream[es[p]].st # "free"
    /\ p \notin Panels => timers[p] > 0 \/ es[p] # None

ScopeInv ==
    /\ \A m \in Workers : JobScoped(m)
    /\ \A c \in Streams : StreamScoped(c)
    /\ \A p \in Pages : PageScoped(p) /\ Hears(p)

LEMMA InitScopeInv == Init => ScopeInv
<1> SUFFICES ASSUME Init PROVE ScopeInv
  OBVIOUS
<1>1. ASSUME NEW m \in Workers PROVE JobScoped(m)
  BY DEF Init, JobScoped, NoJob
<1>2. ASSUME NEW c \in Streams PROVE StreamScoped(c)
  BY DEF Init, StreamScoped, Free
<1>3. ASSUME NEW p \in Pages PROVE PageScoped(p) /\ Hears(p)
  <2>1. \A a \in answers[p] : AnswerScoped(p, a)
    BY DEF Init, Opening, Request, AnswerScoped, Whose
  <2>2. PageScoped(p)
    BY <2>1 DEF Init, PageScoped, Whose, Blank
  <2>3. Hears(p)
    BY DEF Init, Hears, OpeningTimers
  <2> QED BY <2>2, <2>3
<1> QED BY <1>1, <1>2, <1>3 DEF ScopeInv

\* What a step that is no worker's may do to the workers' jobs,
JobsKept ==
    \A m \in Workers :
      \/ job'[m] = NoJob
      \/ /\ job'[m].pc = job[m].pc /\ job'[m].s = job[m].s /\ job'[m].v = job[m].v
         /\ job'[m].origin = job[m].origin /\ job'[m].role = job[m].role
         /\ job'[m].todo \subseteq job[m].todo

\* and to a connection: it is freed, or asked for anew by a page it may serve, or
\* goes on for the same page with what is left of its queue.
Moved(c) ==
    \/ stream'[c] = Free
    \/ \E p \in Pages, s \in Bindings : Whose(p, s) /\ stream'[c] = Asked(p, s)
    \/ /\ stream'[c].page = stream[c].page /\ stream'[c].of = stream[c].of
       /\ stream[c].st = "free" => stream'[c].st = "free"
       /\ \/ /\ stream'[c].queue = stream[c].queue
             /\ stream'[c].st = "open" => stream[c].st \in {"read", "open"}
             /\ stream[c].st = "open" => stream'[c].st = "open"
          \/ /\ stream[c].st = "open" /\ stream'[c].st = "open"
             /\ stream[c].queue # <<>> /\ stream'[c].queue = Tail(stream[c].queue)
          \/ stream'[c].st = "broken" /\ stream'[c].queue = <<>>

\* Nobody puts a message to a connection that is not open any more.
Dropped(c) == \A m \in Workers : c \in job'[m].todo => stream'[c].st = "open"

MovedOn == JobsKept /\ \A c \in Streams : Moved(c) /\ Dropped(c)

\* One connection changes.
LEMMA OneMoves ==
    ASSUME TypeOK, ScopeInv, NEW c \in Streams, NEW r,
           stream' = [stream EXCEPT ![c] = r], Moved(c), Dropped(c), JobsKept
    PROVE  MovedOn
<1>1. ASSUME NEW d \in Streams, d # c PROVE Moved(d) /\ Dropped(d)
  <2>1. stream'[d] = stream[d]
    BY <1>1 DEF TypeOK
  <2>2. Moved(d)
    BY <2>1 DEF Moved
  <2>3. \A m \in Workers : d \in job'[m].todo => d \in job[m].todo
    BY DEF JobsKept, NoJob
  <2> QED BY <2>1, <2>2, <2>3 DEF ScopeInv, JobScoped, Dropped
<1> QED BY <1>1 DEF MovedOn

\* No connection changes.
LEMMA NoneMoves ==
    ASSUME TypeOK, ScopeInv, UNCHANGED <<stream, job>>
    PROVE  MovedOn
BY DEF MovedOn, JobsKept, Moved, Dropped, ScopeInv, JobScoped

\* The server's end
LEMMA StreamEndMoves ==
    ASSUME TypeOK, ScopeInv, NEW c \in Streams, StreamStep(c) \/ Break(c)
    PROVE  MovedOn /\ \A q \in Pages : Hears(q)'
<1>t. stream[c] \in StreamStates /\ StreamScoped(c)
  BY DEF TypeOK, ScopeInv
<1>f. Forget(c) => JobsKept /\ \A m \in Workers : c \notin job'[m].todo
  <2>1. ASSUME Forget(c), NEW m \in Workers
        PROVE  /\ job'[m].pc = job[m].pc /\ job'[m].s = job[m].s /\ job'[m].v = job[m].v
               /\ job'[m].origin = job[m].origin /\ job'[m].role = job[m].role
               /\ job'[m].todo = job[m].todo \ {c}
    <3>1. job[m] \in Jobs
      BY DEF TypeOK
    <3>2. job'[m] = [job[m] EXCEPT !.todo = @ \ {c}]
      BY <2>1 DEF Forget
    <3> QED BY <3>1, <3>2 DEF Jobs
  <2> QED BY <2>1 DEF JobsKept
<1>j. UNCHANGED job => JobsKept
  BY DEF JobsKept
<1>e. UNCHANGED <<es, timers>>
  BY DEF StreamStep, Open, Subscribe, Unsubscribe, Break
<1>h. ASSUME \A d \in Streams : d # c => stream'[d] = stream[d],
             stream[c].live => /\ stream'[c].page = stream[c].page
                               /\ stream'[c].live = stream[c].live /\ stream'[c].st # "free"
      PROVE  \A q \in Pages : Hears(q)'
  <2> SUFFICES ASSUME NEW q \in Pages PROVE Hears(q)'
    OBVIOUS
  <2>1. es[q] # None => es[q] \in Streams /\ stream[es[q]].live /\ stream[es[q]].st # "free"
    BY DEF TypeOK, ScopeInv, Hears
  <2>2. timers' = timers /\ es' = es
    BY <1>e
  <2>3. es[q] # None => /\ stream'[es[q]].page = stream[es[q]].page
                        /\ stream'[es[q]].live = stream[es[q]].live
                        /\ stream'[es[q]].st # "free"
    BY <1>h, <2>1
  <2>4. Hears(q) /\ timers[q] \in Nat
    BY DEF ScopeInv, TypeOK
  <2> QED BY <2>2, <2>3, <2>4 DEF Hears
<1>1. CASE Open(c)
  <2> DEFINE v == Version(stream[c].of)
             r == IF SignedIn(stream[c].page) THEN [stream[c] EXCEPT !.st = "read", !.base = v]
                  ELSE [stream[c] EXCEPT !.st = "refused"]
  <2>1. stream' = [stream EXCEPT ![c] = r] /\ stream[c].st = "asked" /\ UNCHANGED job
    BY <1>t, <1>1 DEF Open, TypeOK
  <2>2. /\ r.page = stream[c].page /\ r.of = stream[c].of /\ r.queue = stream[c].queue
        /\ r.live = stream[c].live /\ r.st \in {"read", "refused"}
    <3> HIDE DEF v
    <3> QED BY <1>t DEF StreamStates
  <2> HIDE DEF r
  <2>3. stream'[c] = r /\ \A d \in Streams : d # c => stream'[d] = stream[d]
    BY <2>1 DEF TypeOK
  <2>4. Moved(c) /\ Dropped(c)
    BY <2>1, <2>2, <2>3 DEF Moved, Dropped, ScopeInv, JobScoped
  <2>5. MovedOn
    BY <1>j, <2>1, <2>4, OneMoves
  <2> QED BY <1>h, <2>2, <2>3, <2>5
<1>2. CASE Subscribe(c)
  <2> DEFINE r == [stream[c] EXCEPT !.st = "open", !.opening = TRUE]
  <2>1. stream' = [stream EXCEPT ![c] = r] /\ stream[c].st = "read" /\ UNCHANGED job
    BY <1>t, <1>2 DEF Subscribe, TypeOK
  <2>2. /\ r.page = stream[c].page /\ r.of = stream[c].of /\ r.queue = stream[c].queue
        /\ r.live = stream[c].live /\ r.st = "open"
    BY <1>t DEF StreamStates
  <2> HIDE DEF r
  <2>3. stream'[c] = r /\ \A d \in Streams : d # c => stream'[d] = stream[d]
    BY <2>1 DEF TypeOK
  <2>4. Moved(c) /\ Dropped(c)
    BY <2>1, <2>2, <2>3 DEF Moved, Dropped
  <2>5. MovedOn
    BY <1>j, <2>1, <2>4, OneMoves
  <2> QED BY <1>h, <2>2, <2>3, <2>5
<1>3. CASE Unsubscribe(c)
  <2>1. stream' = [stream EXCEPT ![c] = Free] /\ ~stream[c].live /\ Forget(c)
    BY <1>3 DEF Unsubscribe
  <2>2. stream'[c] = Free /\ \A d \in Streams : d # c => stream'[d] = stream[d]
    BY <2>1 DEF TypeOK
  <2>3. Moved(c) /\ Dropped(c)
    BY <1>f, <2>1, <2>2 DEF Moved, Dropped
  <2>4. MovedOn
    BY <1>f, <2>1, <2>3, OneMoves
  <2> QED BY <1>h, <2>1, <2>2, <2>4
<1>4. CASE Break(c)
  <2> DEFINE r == [stream[c] EXCEPT !.st = "broken", !.opening = FALSE, !.queue = <<>>]
  <2>1. /\ stream' = [stream EXCEPT ![c] = r] /\ Forget(c)
        /\ stream[c].st \in {"asked", "read", "open"}
    BY <1>t, <1>4 DEF Break, TypeOK
  <2>2. /\ r.page = stream[c].page /\ r.of = stream[c].of /\ r.queue = <<>>
        /\ r.live = stream[c].live /\ r.st = "broken"
    BY <1>t DEF StreamStates
  <2> HIDE DEF r
  <2>3. stream'[c] = r /\ \A d \in Streams : d # c => stream'[d] = stream[d]
    BY <2>1 DEF TypeOK
  <2>4. Moved(c) /\ Dropped(c)
    BY <1>f, <2>1, <2>2, <2>3 DEF Moved, Dropped
  <2>5. MovedOn
    BY <1>f, <2>1, <2>4, OneMoves
  <2> QED BY <1>h, <2>2, <2>3, <2>5
<1> QED BY <1>1, <1>2, <1>3, <1>4 DEF StreamStep

LEMMA LiveKeeps ==
    ASSUME NEW r \in StreamStates, NEW b \in BOOLEAN
    PROVE  /\ [r EXCEPT !.live = b].page = r.page /\ [r EXCEPT !.live = b].of = r.of
           /\ [r EXCEPT !.live = b].queue = r.queue /\ [r EXCEPT !.live = b].st = r.st
BY DEF StreamStates

\* A page that closes its connection, and perhaps asks for another at a free one,
\* or again at a broken one that it had lost, moves no other page's connection.
LEMMA PageMoves ==
    ASSUME TypeOK, ScopeInv, UNCHANGED job, NEW p \in Pages,
           \A d \in Streams :
             \/ stream'[d] = stream[d]
             \/ /\ stream[d].page = p
                /\ \/ stream'[d] = Free /\ stream[d].st \in {"broken", "refused"}
                   \/ stream'[d] = [stream[d] EXCEPT !.live = FALSE]
             \/ /\ stream[d].page = p \/ stream[d].st = "free"
                /\ stream[d].st # "open"
                /\ \E s \in Bindings : Whose(p, s) /\ stream'[d] = Asked(p, s)
    PROVE  /\ MovedOn
           /\ \A q \in Pages : q # p /\ es'[q] = es[q] /\ timers'[q] = timers[q] => Hears(q)'
<1>1. ASSUME NEW d \in Streams PROVE Moved(d) /\ Dropped(d)
  <2>0. /\ stream[d] \in StreamStates
        /\ \A m \in Workers : d \in job'[m].todo => stream[d].st = "open"
    BY DEF TypeOK, ScopeInv, JobScoped
  <2>1. CASE stream'[d] = stream[d]
    BY <2>0, <2>1 DEF Moved, Dropped
  <2>2. CASE stream'[d] = Free /\ stream[d].st \in {"broken", "refused"}
    BY <2>0, <2>2 DEF Moved, Dropped
  <2>3. CASE stream'[d] = [stream[d] EXCEPT !.live = FALSE]
    <3>1. /\ stream'[d].page = stream[d].page /\ stream'[d].of = stream[d].of
          /\ stream'[d].queue = stream[d].queue /\ stream'[d].st = stream[d].st
      BY <2>0, <2>3, LiveKeeps
    <3> QED BY <2>0, <3>1 DEF Moved, Dropped
  <2>4. CASE /\ stream[d].st # "open"
             /\ \E s \in Bindings : Whose(p, s) /\ stream'[d] = Asked(p, s)
    BY <2>0, <2>4 DEF Moved, Dropped
  <2> QED BY <2>1, <2>2, <2>3, <2>4
<1>2. JobsKept
  BY DEF JobsKept
<1>3. ASSUME NEW q \in Pages, q # p, es'[q] = es[q], timers'[q] = timers[q] PROVE Hears(q)'
  <2>1. Hears(q)
    BY DEF ScopeInv
  <2>2. es[q] # None => stream'[es[q]] = stream[es[q]]
    BY <1>3, <2>1 DEF Hears, TypeOK
  <2> QED BY <1>3, <2>1, <2>2 DEF Hears
<1> QED BY <1>1, <1>2, <1>3 DEF MovedOn

\* The same, for what the pages' actions are made of.
LEMMA CloseMoves ==
    ASSUME TypeOK, ScopeInv, NEW p \in Pages, NEW d \in Streams
    PROVE  \/ CloseHeld(p, stream)[d] = stream[d]
           \/ /\ stream[d].page = p /\ stream[d].st # "free"
              /\ \/ CloseHeld(p, stream)[d] = Free /\ stream[d].st \in {"broken", "refused"}
                 \/ CloseHeld(p, stream)[d] = [stream[d] EXCEPT !.live = FALSE]
<1>1. stream \in [Streams -> StreamStates] /\ es[p] \in Streams \cup {None} /\ Hears(p)
  BY DEF TypeOK, ScopeInv
<1>2. CASE d # es[p]
  <2>1. \A c \in Streams : c # es[p] => CloseHeld(p, stream)[c] = stream[c]
    BY <1>1, CloseHeldDoes
  <2> QED BY <1>2, <2>1
<1>3. CASE d = es[p]
  <2>1. es[p] # None
    BY <1>3
  <2>2. CloseHeld(p, stream)[es[p]] = IF stream[es[p]].st \in {"broken", "refused"} THEN Free
                                      ELSE [stream[es[p]] EXCEPT !.live = FALSE]
    BY <1>1, <2>1, CloseHeldDoes
  <2> QED BY <1>1, <1>3, <2>1, <2>2 DEF Hears
<1> QED BY <1>2, <1>3

LEMMA ConnectMoves ==
    ASSUME TypeOK, ScopeInv, UNCHANGED job, NEW p \in Pages, NEW s \in Bindings, Whose(p, s),
           NEW f \in {stream, CloseHeld(p, stream)}, Connect(p, s, f),
           \A q \in Pages : q # p => timers'[q] = timers[q]
    PROVE  MovedOn /\ \A q \in Pages : Hears(q)'
<1>1. PICK c \in Streams : /\ stream[c].st = "free"
                           /\ stream' = [f EXCEPT ![c] = Asked(p, s)]
                           /\ es' = [es EXCEPT ![p] = c]
  BY DEF Connect, Asked
<1>2. f \in [Streams -> StreamStates]
  <2>1. stream \in [Streams -> StreamStates] /\ es[p] \in Streams \cup {None}
    BY DEF TypeOK
  <2>2. CloseHeld(p, stream) \in [Streams -> StreamStates]
    BY <2>1, CloseHeldDoes
  <2> QED BY <2>1, <2>2
<1>3. ASSUME NEW d \in Streams
      PROVE  \/ stream'[d] = stream[d]
             \/ /\ stream[d].page = p
                /\ \/ stream'[d] = Free /\ stream[d].st \in {"broken", "refused"}
                   \/ stream'[d] = [stream[d] EXCEPT !.live = FALSE]
             \/ /\ stream[d].page = p \/ stream[d].st = "free"
                /\ stream[d].st # "open"
                /\ \E x \in Bindings : Whose(p, x) /\ stream'[d] = Asked(p, x)
  <2>1. CASE d = c
    BY <1>1, <1>2, <2>1
  <2>2. CASE d # c
    <3>1. stream'[d] = f[d]
      BY <1>1, <1>2, <2>2
    <3> QED BY <3>1, CloseMoves
  <2> QED BY <2>1, <2>2
<1>4. /\ MovedOn
      /\ \A q \in Pages : q # p /\ es'[q] = es[q] /\ timers'[q] = timers[q] => Hears(q)'
  BY <1>3, PageMoves
<1>5. \A q \in Pages : q # p => es'[q] = es[q]
  BY <1>1 DEF TypeOK
<1>6. Hears(p)'
  <2>1. es'[p] = c /\ stream'[c] = Asked(p, s)
    BY <1>1, <1>2 DEF TypeOK
  <2>2. Asked(p, s).page = p /\ Asked(p, s).live /\ Asked(p, s).st = "asked"
    BY AskedType
  <2> QED BY <2>1, <2>2 DEF Hears
<1> QED BY <1>4, <1>5, <1>6

\* What the pages do, and what happens to them, as far as connections go
LEMMA PageStepMoves ==
    ASSUME TypeOK, ScopeInv, NEW p \in Pages,
           \/ PageStep(p) \/ AnswerState(p) \/ SignIn(p) \/ Reload(p)
           \/ \E s \in Sessions : Join(p, s)
           \/ \E a \in answers[p] : LoseAnswer(p, a)
    PROVE  MovedOn /\ \A q \in Pages : Hears(q)'
<1>t. /\ PageScoped(p) /\ Hears(p) /\ key[p] \in Bindings /\ timers[p] \in Nat
      /\ answers[p] \subseteq Answers
  BY DEF TypeOK, ScopeInv
<1>s. UNCHANGED <<stream, es, timers, job>> => MovedOn /\ \A q \in Pages : Hears(q)'
  BY NoneMoves DEF Hears, ScopeInv
<1>1. ASSUME NEW c \in Streams, stream[c].page = p, Deliver(c)
      PROVE  MovedOn /\ \A q \in Pages : Hears(q)'
  <2>0. stream[c] \in StreamStates /\ stream[c].st = "open" /\ UNCHANGED <<job, es, timers>>
    BY <1>1 DEF Deliver, Subscribed, TypeOK
  <2>1. PICK r : /\ stream' = [stream EXCEPT ![c] = r]
                 /\ r.st = "open" /\ r.page = p /\ r.of = stream[c].of /\ r.live = stream[c].live
                 /\ \/ r.queue = stream[c].queue
                    \/ stream[c].queue # <<>> /\ r.queue = Tail(stream[c].queue)
    <3>1. CASE stream[c].opening
      <4> DEFINE r == [stream[c] EXCEPT !.opening = FALSE]
      <4>1. stream' = [stream EXCEPT ![c] = r]
        BY <1>1, <3>1 DEF Deliver, TypeOK
      <4>2. /\ r.st = "open" /\ r.page = p /\ r.of = stream[c].of /\ r.live = stream[c].live
            /\ r.queue = stream[c].queue
        BY <1>1, <2>0 DEF StreamStates
      <4> QED BY <4>1, <4>2
    <3>2. CASE ~stream[c].opening
      <4> DEFINE r == [stream[c] EXCEPT !.queue = Tail(@)]
      <4>1. stream' = [stream EXCEPT ![c] = r] /\ stream[c].queue # <<>>
        BY <1>1, <3>2 DEF Deliver, TypeOK
      <4>2. /\ r.st = "open" /\ r.page = p /\ r.of = stream[c].of /\ r.live = stream[c].live
            /\ r.queue = Tail(stream[c].queue)
        BY <1>1, <2>0 DEF StreamStates
      <4> QED BY <4>1, <4>2
    <3> QED BY <3>1, <3>2
  <2>2. stream'[c] = r /\ \A d \in Streams : d # c => stream'[d] = stream[d]
    BY <2>1 DEF TypeOK
  <2>3. Moved(c) /\ Dropped(c) /\ JobsKept
    BY <1>1, <2>0, <2>1, <2>2 DEF Moved, Dropped, JobsKept
  <2>4. MovedOn
    BY <2>1, <2>3, OneMoves
  <2>5. ASSUME NEW q \in Pages PROVE Hears(q)'
    <3>1. Hears(q)
      BY DEF ScopeInv
    <3>2. es[q] # None => /\ stream'[es[q]].page = stream[es[q]].page
                          /\ stream'[es[q]].live = stream[es[q]].live
                          /\ stream'[es[q]].st # "free"
      BY <1>1, <2>1, <2>2, <3>1 DEF Hears, TypeOK
    <3> QED BY <2>0, <3>1, <3>2 DEF Hears
  <2> QED BY <2>4, <2>5
<1>2. ASSUME NEW c \in Streams, stream[c].page = p, OnError(c)
      PROVE  MovedOn /\ \A q \in Pages : Hears(q)'
  <2> DEFINE r == IF es[p] # c /\ stream[c].st = "broken" THEN Asked(p, stream[c].of)
                  ELSE IF es[p] = c THEN stream[c] ELSE Free
             f == [stream EXCEPT ![c] = r]
  <2>1. /\ stream' = CloseHeld(p, f) /\ stream[c].st \in {"broken", "refused"}
        /\ es' = [es EXCEPT ![p] = None] /\ timers' = [timers EXCEPT ![p] = @ + 1]
        /\ UNCHANGED job
    BY <1>2 DEF OnError, Asked, SetTimer
  <2>2. /\ es[p] \in Streams \cup {None} /\ stream \in [Streams -> StreamStates]
        /\ stream[c] \in StreamStates /\ stream[c].of \in Bindings /\ Whose(p, stream[c].of)
    BY <1>2, <2>1 DEF TypeOK, StreamStates, ScopeInv, StreamScoped
  <2>3. r \in StreamStates
    BY <2>2, AskedType, FreeType
  <2>4. f \in [Streams -> StreamStates] /\ f[c] = r /\ \A d \in Streams : d # c => f[d] = stream[d]
    <3> HIDE DEF r
    <3> QED BY <2>2, <2>3
  <2>5. /\ \A d \in Streams : d # es[p] => stream'[d] = f[d]
        /\ es[p] # None =>
             stream'[es[p]] = IF f[es[p]].st \in {"broken", "refused"} THEN Free
                              ELSE [f[es[p]] EXCEPT !.live = FALSE]
    <3> HIDE DEF f
    <3> QED BY <2>1, <2>2, <2>4, CloseHeldDoes
  <2>6. ASSUME NEW d \in Streams
        PROVE  \/ stream'[d] = stream[d]
               \/ /\ stream[d].page = p
                  /\ \/ stream'[d] = Free /\ stream[d].st \in {"broken", "refused"}
                     \/ stream'[d] = [stream[d] EXCEPT !.live = FALSE]
               \/ /\ stream[d].page = p \/ stream[d].st = "free"
                  /\ stream[d].st # "open"
                  /\ \E x \in Bindings : Whose(p, x) /\ stream'[d] = Asked(p, x)
    <3>1. CASE d = es[p] /\ d = c
      <4>1. f[d] = stream[d]
        BY <2>4, <3>1
      <4> HIDE DEF f
      <4> QED BY <1>2, <2>1, <2>2, <2>5, <3>1, <4>1
    <3>2. CASE d = es[p] /\ d # c
      <4>1. f[d] = stream[d] /\ stream[d].page = p /\ es[p] # None
        BY <1>t, <2>4, <3>2 DEF Hears
      <4> HIDE DEF f
      <4> QED BY <2>5, <3>2, <4>1
    <3>3. CASE d # es[p] /\ d = c
      <4>1. stream'[d] = r /\ r \in {Asked(p, stream[c].of), Free}
        BY <2>4, <2>5, <3>3
      <4> HIDE DEF r, f
      <4> QED BY <1>2, <2>1, <2>2, <3>3, <4>1
    <3>4. CASE d # es[p] /\ d # c
      <4> HIDE DEF f
      <4> QED BY <2>4, <2>5, <3>4
    <3> QED BY <3>1, <3>2, <3>3, <3>4
  <2>7. /\ MovedOn
        /\ \A q \in Pages : q # p /\ es'[q] = es[q] /\ timers'[q] = timers[q] => Hears(q)'
    BY <2>1, <2>6, PageMoves
  <2>8. \A q \in Pages : q # p => es'[q] = es[q] /\ timers'[q] = timers[q]
    BY <2>1 DEF TypeOK
  <2>9. Hears(p)'
    <3>1. es'[p] = None /\ timers'[p] > 0
      BY <1>t, <2>1 DEF TypeOK
    <3> QED BY <3>1 DEF Hears
  <2> QED BY <2>7, <2>8, <2>9
<1>3. CASE Reconnect(p)
  <2>1. /\ Connect(p, key[p], stream) /\ UNCHANGED job /\ Whose(p, key[p])
        /\ \A q \in Pages : q # p => timers'[q] = timers[q]
    BY <1>t, <1>3 DEF Reconnect, TypeOK, PageScoped
  <2> QED BY <1>t, <2>1, ConnectMoves
<1>4. ASSUME NEW a \in answers[p], Receive(p, a) PROVE MovedOn /\ \A q \in Pages : Hears(q)'
  <2>0. /\ a.of \in Bindings /\ AnswerScoped(p, a) /\ Whose(p, a.of) /\ Whose(p, key[p])
        /\ UNCHANGED <<job, timers>>
    BY <1>t, <1>4 DEF PageScoped, AnswerScoped, Answers, Receive
  <2>1. CASE a.v = Unauthorised
    <3>1. stream' = CloseHeld(p, stream) /\ es' = [es EXCEPT ![p] = None]
      BY <1>4, <2>1 DEF Receive
    <3>2. /\ MovedOn
          /\ \A q \in Pages : q # p /\ es'[q] = es[q] /\ timers'[q] = timers[q] => Hears(q)'
      <4>1. ASSUME NEW d \in Streams
            PROVE  \/ stream'[d] = stream[d]
                   \/ /\ stream[d].page = p
                      /\ \/ stream'[d] = Free /\ stream[d].st \in {"broken", "refused"}
                         \/ stream'[d] = [stream[d] EXCEPT !.live = FALSE]
        BY <3>1, CloseMoves
      <4> QED BY <2>0, <4>1, PageMoves
    <3>3. \A q \in Pages : q # p => es'[q] = es[q] /\ timers'[q] = timers[q]
      BY <2>0, <3>1 DEF TypeOK
    <3>4. p \in Panels
      BY <2>0, <2>1 DEF AnswerScoped
    <3>5. Hears(p)'
      BY <3>1, <3>4 DEF Hears, TypeOK
    <3> QED BY <3>2, <3>3, <3>5
  <2>2. CASE a.v # Unauthorised
    <3>1. \/ Connect(p, a.of, CloseHeld(p, stream))
          \/ Connect(p, key[p], stream)
          \/ UNCHANGED <<stream, es>>
      BY <1>4, <2>2 DEF Receive
    <3> QED BY <1>s, <1>t, <2>0, <3>1, ConnectMoves
  <2> QED BY <2>1, <2>2
<1>5. CASE AnswerState(p) \/ SignIn(p)
  BY <1>5, <1>s DEF AnswerState, SignIn
<1>6. CASE Reload(p)
  <2>1. /\ UNCHANGED job
        /\ \A q \in Pages : q # p => es'[q] = es[q] /\ timers'[q] = timers[q]
        /\ es'[p] = None /\ (p \notin Panels => timers'[p] = 1)
    BY <1>6 DEF Reload, TypeOK, OpeningTimers
  <2>2. ASSUME NEW d \in Streams
        PROVE  \/ stream'[d] = stream[d]
               \/ /\ stream[d].page = p
                  /\ \/ stream'[d] = Free /\ stream[d].st \in {"broken", "refused"}
                     \/ stream'[d] = [stream[d] EXCEPT !.live = FALSE]
    BY <1>6 DEF Reload
  <2>3. /\ MovedOn
        /\ \A q \in Pages : q # p /\ es'[q] = es[q] /\ timers'[q] = timers[q] => Hears(q)'
    BY <2>1, <2>2, PageMoves
  <2> QED BY <2>1, <2>3 DEF Hears
<1>7. CASE (\E s \in Sessions : Join(p, s)) \/ (\E a \in answers[p] : LoseAnswer(p, a))
  BY <1>7, <1>s DEF Join, LoseAnswer
<1> QED BY <1>1, <1>2, <1>3, <1>4, <1>5, <1>6, <1>7 DEF PageStep

LEMMA RestartMoves == ASSUME TypeOK, ScopeInv, Restart PROVE MovedOn /\ \A q \in Pages : Hears(q)'
<1>0. UNCHANGED <<es, timers>> /\ \A m \in Workers : job'[m] = NoJob
  BY DEF Restart
<1>1. ASSUME NEW c \in Streams
      PROVE  \/ stream'[c] = stream[c] /\ stream[c].st # "open"
             \/ stream'[c] = Free /\ ~stream[c].live
             \/ /\ stream'[c].page = stream[c].page /\ stream'[c].of = stream[c].of
                /\ stream'[c].live = stream[c].live /\ stream'[c].st = "broken"
                /\ stream'[c].queue = <<>> /\ stream[c].st # "free"
  <2> DEFINE r == [stream[c] EXCEPT !.st = "broken", !.opening = FALSE, !.queue = <<>>]
  <2>1. /\ r.page = stream[c].page /\ r.of = stream[c].of /\ r.live = stream[c].live
        /\ r.st = "broken" /\ r.queue = <<>>
    BY DEF TypeOK, StreamStates
  <2>2. \/ stream'[c] = stream[c] /\ stream[c].st # "open"
        \/ stream'[c] = Free /\ ~stream[c].live
        \/ stream'[c] = r /\ stream[c].st # "free"
    BY DEF Restart
  <2> HIDE DEF r
  <2> QED BY <2>1, <2>2
<1>2. ASSUME NEW c \in Streams PROVE Moved(c) /\ Dropped(c)
  BY <1>0, <1>1 DEF Moved, Dropped, NoJob
<1>3. ASSUME NEW q \in Pages PROVE Hears(q)'
  <2>1. Hears(q)
    BY DEF ScopeInv
  <2>2. es[q] # None => /\ stream'[es[q]].page = stream[es[q]].page
                        /\ stream'[es[q]].live = stream[es[q]].live
                        /\ stream'[es[q]].st # "free"
    BY <1>1, <2>1 DEF Hears, TypeOK
  <2> QED BY <1>0, <2>1, <2>2 DEF Hears
<1> QED BY <1>0, <1>2, <1>3 DEF MovedOn, JobsKept

\* What moves on so stays whose it was.
LEMMA JobsStayScoped == ASSUME TypeOK, ScopeInv, MovedOn, NEW m \in Workers PROVE JobScoped(m)'
<1>0. JobScoped(m)
  BY DEF ScopeInv
<1>1. CASE job'[m] = NoJob
  BY <1>1 DEF NoJob, JobScoped
<1>2. CASE /\ job'[m].pc = job[m].pc /\ job'[m].s = job[m].s
           /\ job'[m].origin = job[m].origin /\ job'[m].role = job[m].role
           /\ job'[m].todo \subseteq job[m].todo
  <2>1. ASSUME NEW c \in job'[m].todo
        PROVE  /\ stream'[c].st = "open"
               /\ stream'[c].of = job'[m].s /\ RoleOf(stream'[c].page) = job'[m].role
    <3>1. /\ c \in job[m].todo /\ c \in Streams
          /\ stream[c].of = job[m].s /\ RoleOf(stream[c].page) = job[m].role
      BY <1>0, <1>2, <2>1 DEF JobScoped, TypeOK, Jobs
    <3>2. Moved(c) /\ stream'[c].st = "open"
      BY <2>1, <3>1 DEF MovedOn, Dropped
    <3>3. stream'[c].page = stream[c].page /\ stream'[c].of = stream[c].of
      <4>1. Free.st # "open" /\ \A p \in Pages, s \in Bindings : Asked(p, s).st # "open"
        BY AskedType DEF Free
      <4> QED BY <3>2, <4>1 DEF Moved
    <3> QED BY <1>2, <3>1, <3>2, <3>3
  <2>2. job'[m].todo # {} => job'[m].pc = "put"
    BY <1>0, <1>2 DEF JobScoped
  <2>3. Whose(job[m].origin, job[m].s) = Whose(job'[m].origin, job'[m].s)
    BY <1>2
  <2> QED BY <1>0, <1>2, <2>1, <2>2, <2>3 DEF JobScoped, Whose, RoleOf
<1> QED BY <1>1, <1>2 DEF MovedOn, JobsKept

LEMMA StreamsStayScoped ==
    ASSUME TypeOK, ScopeInv, MovedOn, NEW c \in Streams PROVE StreamScoped(c)'
<1>0. StreamScoped(c) /\ Moved(c) /\ stream[c].queue \in Seq(Payloads)
  BY DEF ScopeInv, MovedOn, TypeOK, StreamStates
<1>1. CASE stream'[c] = Free
  BY <1>1 DEF Free, StreamScoped
<1>2. ASSUME NEW p \in Pages, NEW s \in Bindings, Whose(p, s), stream'[c] = Asked(p, s)
      PROVE  StreamScoped(c)'
  <2>1. stream'[c].st = "asked" /\ stream'[c].page = p /\ stream'[c].of = s /\ stream'[c].queue = <<>>
    BY <1>2, AskedType
  <2> QED BY <1>2, <2>1 DEF StreamScoped, Whose
<1>3. ASSUME stream'[c].page = stream[c].page, stream'[c].of = stream[c].of,
             stream[c].st = "free" => stream'[c].st = "free",
             \/ /\ stream'[c].queue = stream[c].queue
                /\ stream'[c].st = "open" => stream[c].st \in {"read", "open"}
                /\ stream[c].st = "open" => stream'[c].st = "open"
             \/ /\ stream[c].st = "open" /\ stream'[c].st = "open"
                /\ stream[c].queue # <<>> /\ stream'[c].queue = Tail(stream[c].queue)
             \/ stream'[c].st = "broken" /\ stream'[c].queue = <<>>
      PROVE  StreamScoped(c)'
  <2>1. stream'[c].st # "free" =>
          stream'[c].page \in Pages /\ Whose(stream'[c].page, stream'[c].of)
    BY <1>0, <1>3 DEF StreamScoped
  <2>2. stream'[c].st # "open" => stream'[c].queue = <<>>
    BY <1>0, <1>3 DEF StreamScoped
  <2>3. ASSUME NEW i \in DOMAIN stream'[c].queue
        PROVE  /\ stream'[c].queue[i].s = stream'[c].of
               /\ stream'[c].queue[i].role = RoleOf(stream'[c].page)
    <3>1. \E j \in DOMAIN stream[c].queue : stream'[c].queue[i] = stream[c].queue[j]
      <4>1. CASE stream'[c].queue = stream[c].queue
        BY <2>3, <4>1
      <4>2. CASE stream[c].queue # <<>> /\ stream'[c].queue = Tail(stream[c].queue)
        <5>1. i + 1 \in DOMAIN stream[c].queue /\ stream'[c].queue[i] = stream[c].queue[i + 1]
          BY <1>0, <2>3, <4>2
        <5> QED BY <5>1
      <4> QED BY <1>3, <2>3, <4>1, <4>2
    <3> QED BY <1>0, <1>3, <3>1 DEF StreamScoped
  <2> QED BY <2>1, <2>2, <2>3 DEF StreamScoped, Whose, RoleOf
<1> QED BY <1>0, <1>1, <1>2, <1>3 DEF Moved

\* The worker's steps: only the job of one worker changes, and perhaps what waits
\* in the queue of one connection, or the answers of one page.
LEMMA WorkerKeepsScope ==
    ASSUME TypeInv, ScopeInv, NEW m \in Workers, WorkerStep(m) \/ (\E s \in Sessions : Commit(m, s))
    PROVE  ScopeInv'
<1>t. /\ TypeOK /\ job[m] \in Jobs /\ JobScoped(m)
      /\ job[m].pc # "idle" => job[m].s \in Sessions
  BY DEF TypeInv, TypeOK, ScopeInv, JobsOfSessions
<1>j. ASSUME NEW j, job' = [job EXCEPT ![m] = j], stream' = stream, JobScoped(m)'
      PROVE  \A k \in Workers : JobScoped(k)'
  <2>1. ASSUME NEW k \in Workers, k # m PROVE JobScoped(k)'
    <3>1. job'[k] = job[k] /\ JobScoped(k)
      BY <1>t, <1>j, <2>1 DEF TypeOK, ScopeInv
    <3> QED BY <1>j, <3>1 DEF JobScoped, Whose
  <2> QED BY <1>j, <2>1
<1>c. ASSUME stream' = stream PROVE \A c \in Streams : StreamScoped(c)'
  BY <1>c DEF ScopeInv, StreamScoped, Whose
<1>h. ASSUME UNCHANGED <<es, timers>>,
             \A c \in Streams : /\ stream'[c].page = stream[c].page
                                /\ stream'[c].live = stream[c].live /\ stream'[c].st = stream[c].st
      PROVE  \A p \in Pages : Hears(p)'
  <2> SUFFICES ASSUME NEW p \in Pages PROVE Hears(p)'
    OBVIOUS
  <2>1. Hears(p) /\ es[p] \in Streams \cup {None}
    BY <1>t DEF ScopeInv, TypeOK
  <2> QED BY <1>h, <2>1 DEF Hears
<1>p. ASSUME UNCHANGED <<key, view, answers>> PROVE \A p \in Pages : PageScoped(p)'
  BY <1>p DEF ScopeInv, PageScoped, AnswerScoped, Whose, Blank, RoleOf
<1>1. ASSUME NEW s \in Sessions, Commit(m, s) PROVE ScopeInv'
  <2>1. PICK next \in {"reread", "select"}, o \in {p \in Panels : key[p] = s} \cup {None} :
           job' = [job EXCEPT ![m] = [NoJob EXCEPT !.pc = next, !.s = s, !.origin = o,
                                                   !.v = version'[s]]]
    BY <1>1 DEF Commit
  <2> DEFINE j == [NoJob EXCEPT !.pc = next, !.s = s, !.origin = o, !.v = version'[s]]
  <2>2. j.todo = {} /\ j.s = s /\ j.origin = o
    BY DEF NoJob
  <2>3. job' = [job EXCEPT ![m] = j]
    BY <2>1
  <2> HIDE DEF j
  <2>4. job'[m] = j
    BY <1>t, <2>3 DEF TypeOK
  <2>5. o # None => o \in Panels /\ Whose(o, s)
    <3>1. o # None => o \in Panels /\ key[o] = s /\ PageScoped(o)
      BY DEF ScopeInv
    <3> QED BY <3>1 DEF PageScoped
  <2>6. JobScoped(m)'
    BY <2>2, <2>4, <2>5 DEF JobScoped, Whose
  <2>7. UNCHANGED <<stream, es, timers, key, view, answers>>
    BY <1>1 DEF Commit
  <2> QED BY <1>j, <1>c, <1>h, <1>p, <2>3, <2>6, <2>7 DEF ScopeInv
<1>2. CASE Reread(m)
  <2> DEFINE j == [job[m] EXCEPT !.v = version[job[m].s], !.pc = "select"]
  <2>1. job' = [job EXCEPT ![m] = j] /\ job[m].pc = "reread"
    BY <1>t, <1>2 DEF Reread, TypeOK
  <2>2. j.todo = job[m].todo /\ j.s = job[m].s /\ j.origin = job[m].origin
    BY <1>t DEF Jobs
  <2> HIDE DEF j
  <2>3. job'[m] = j /\ job[m].todo = {}
    BY <1>t, <2>1 DEF TypeOK, JobScoped
  <2>4. JobScoped(m)'
    BY <1>t, <2>2, <2>3 DEF JobScoped, Whose
  <2>5. UNCHANGED <<stream, es, timers, key, view, answers>>
    BY <1>2 DEF Reread
  <2> QED BY <1>j, <1>c, <1>h, <1>p, <2>1, <2>4, <2>5 DEF ScopeInv
<1>3. CASE Select(m)
  <2> DEFINE todo == {c \in Streams : IsTarget(c, job[m].role, job[m].s)}
             j == [job[m] EXCEPT !.pc = "put", !.todo = todo]
  <2>1. job' = [job EXCEPT ![m] = j]
    BY <1>t, <1>3 DEF Select, TypeOK
  <2>2. j.todo = todo /\ j.s = job[m].s /\ j.origin = job[m].origin /\ j.role = job[m].role
        /\ j.pc = "put"
    <3> HIDE DEF todo
    <3> QED BY <1>t DEF Jobs
  <2> HIDE DEF j
  <2>3. job'[m] = j /\ stream' = stream
    BY <1>t, <1>3, <2>1 DEF TypeOK, Select
  <2>4. \A c \in todo : /\ stream[c].st = "open" /\ stream[c].of = job[m].s
                        /\ RoleOf(stream[c].page) = job[m].role
    BY DEF IsTarget, Subscribed
  <2>5. JobScoped(m)'
    <3> HIDE DEF todo
    <3> QED BY <1>t, <2>2, <2>3, <2>4 DEF JobScoped, Whose, RoleOf
  <2>6. UNCHANGED <<stream, es, timers, key, view, answers>>
    BY <1>3 DEF Select
  <2> QED BY <1>j, <1>c, <1>h, <1>p, <2>1, <2>5, <2>6 DEF ScopeInv
<1>4. CASE Put(m)
  <2>1. PICK c \in job[m].todo :
         /\ stream' = [stream EXCEPT ![c].queue =
                         PutNowait(@, [role |-> job[m].role, s |-> job[m].s, v |-> job[m].v])]
         /\ job' = [job EXCEPT ![m].todo = @ \ {c}]
    BY <1>4 DEF Put
  <2> DEFINE payload == [role |-> job[m].role, s |-> job[m].s, v |-> job[m].v]
             q == PutNowait(stream[c].queue, payload)
             r == [stream[c] EXCEPT !.queue = q]
             j == [job[m] EXCEPT !.todo = @ \ {c}]
  <2>2. /\ c \in Streams /\ stream[c] \in StreamStates /\ StreamScoped(c)
        /\ stream[c].st = "open" /\ stream[c].of = job[m].s
        /\ RoleOf(stream[c].page) = job[m].role /\ job[m].pc = "put"
    BY <1>t, <1>4, <2>1 DEF Put, JobScoped, Jobs, TypeOK, ScopeInv
  <2>3. stream' = [stream EXCEPT ![c] = r] /\ job' = [job EXCEPT ![m] = j]
    BY <1>t, <2>1, <2>2 DEF TypeOK
  <2>4. /\ r.page = stream[c].page /\ r.of = stream[c].of /\ r.st = "open"
        /\ r.live = stream[c].live /\ r.queue = q
    <3> HIDE DEF q
    <3> QED BY <2>2 DEF StreamStates
  <2>5. /\ j.todo = job[m].todo \ {c} /\ j.s = job[m].s /\ j.origin = job[m].origin
        /\ j.role = job[m].role /\ j.pc = "put"
    BY <1>t, <2>2 DEF Jobs
  <2>6. \A i \in DOMAIN q : q[i].s = stream[c].of /\ q[i].role = RoleOf(stream[c].page)
    <3>1. stream[c].queue \in Seq(Payloads) /\ payload.s = stream[c].of
          /\ payload.role = RoleOf(stream[c].page)
      BY <2>2 DEF StreamStates
    <3>2. \A i \in DOMAIN stream[c].queue : /\ stream[c].queue[i].s = stream[c].of
                                            /\ stream[c].queue[i].role = RoleOf(stream[c].page)
      BY <2>2 DEF StreamScoped
    <3> HIDE DEF payload
    <3>3. \A i \in DOMAIN q : q[i] = payload \/ (i \in DOMAIN stream[c].queue /\ q[i] = stream[c].queue[i])
      BY <3>1 DEF PutNowait
    <3> HIDE DEF q
    <3> QED BY <3>1, <3>2, <3>3
  <2> HIDE DEF q, r, j
  <2>7. /\ stream'[c] = r /\ \A d \in Streams : d # c => stream'[d] = stream[d]
        /\ job'[m] = j /\ \A k \in Workers : k # m => job'[k] = job[k]
    BY <1>t, <2>2, <2>3 DEF TypeOK
  <2>8. \A d \in Streams : /\ stream'[d].page = stream[d].page /\ stream'[d].of = stream[d].of
                           /\ stream'[d].live = stream[d].live /\ stream'[d].st = stream[d].st
    BY <2>2, <2>4, <2>7
  <2>9. ASSUME NEW d \in Streams PROVE StreamScoped(d)'
    <3>1. CASE d = c
      <4>1. Whose(stream[c].page, stream[c].of) /\ stream[c].page \in Pages
        BY <2>2 DEF StreamScoped
      <4> QED BY <2>2, <2>4, <2>6, <2>7, <3>1, <4>1 DEF StreamScoped, Whose, RoleOf
    <3>2. CASE d # c
      BY <2>7, <3>2 DEF ScopeInv, StreamScoped, Whose
    <3> QED BY <3>1, <3>2
  <2>10. ASSUME NEW k \in Workers PROVE JobScoped(k)'
    <3>1. JobScoped(k) /\ job[k] \in Jobs
      BY <1>t DEF ScopeInv, TypeOK
    <3>2. /\ job'[k].todo \subseteq job[k].todo /\ job'[k].s = job[k].s /\ job'[k].pc = job[k].pc
          /\ job'[k].origin = job[k].origin /\ job'[k].role = job[k].role
      BY <2>2, <2>5, <2>7
    <3>3. job[k].todo \subseteq Streams
      BY <3>1 DEF Jobs
    <3> QED BY <2>8, <3>1, <3>2, <3>3 DEF JobScoped, Whose, RoleOf
  <2>11. UNCHANGED <<es, timers, key, view, answers>>
    BY <1>4 DEF Put
  <2>12. (\A p \in Pages : Hears(p)') /\ \A p \in Pages : PageScoped(p)'
    BY <1>h, <1>p, <2>8, <2>11
  <2> QED BY <2>9, <2>10, <2>12 DEF ScopeInv
<1>5. CASE PushParticipants(m)
  <2> DEFINE j == [job[m] EXCEPT !.role = "participant", !.pc = "select"]
  <2>1. job' = [job EXCEPT ![m] = j] /\ job[m].todo = {}
    BY <1>t, <1>5 DEF PushParticipants, Pushed, TypeOK
  <2>2. j.todo = job[m].todo /\ j.s = job[m].s /\ j.origin = job[m].origin
    BY <1>t DEF Jobs
  <2> HIDE DEF j
  <2>3. job'[m] = j
    BY <1>t, <2>1 DEF TypeOK
  <2>4. JobScoped(m)'
    BY <1>t, <2>1, <2>2, <2>3 DEF JobScoped, Whose
  <2>5. UNCHANGED <<stream, es, timers, key, view, answers>>
    BY <1>5 DEF PushParticipants
  <2> QED BY <1>j, <1>c, <1>h, <1>p, <2>1, <2>4, <2>5 DEF ScopeInv
<1>6. CASE Finish(m)
  <2>1. job' = [job EXCEPT ![m] = NoJob] /\ UNCHANGED <<stream, es, timers, key, view>>
    BY <1>6 DEF Finish
  <2>2. JobScoped(m)'
    <3>1. job'[m] = NoJob
      BY <1>t, <2>1 DEF TypeOK
    <3> QED BY <3>1 DEF JobScoped, NoJob
  <2>3. ASSUME NEW p \in Pages, NEW a \in answers'[p] PROVE AnswerScoped(p, a)
    <3>1. CASE a \in answers[p]
      BY <3>1 DEF ScopeInv, PageScoped
    <3>2. CASE a \notin answers[p]
      <4>1. /\ p = job[m].origin /\ p # None
            /\ a = [kind |-> "press", of |-> job[m].s, v |-> job[m].v]
        BY <1>t, <1>6, <2>3, <3>2 DEF Finish, TypeOK
      <4>2. job[m].v \in Nat
        BY <1>t DEF Jobs
      <4> QED BY <1>t, <4>1, <4>2 DEF AnswerScoped, JobScoped
    <3> QED BY <3>1, <3>2
  <2>4. ASSUME NEW p \in Pages PROVE PageScoped(p)'
    <3>1. PageScoped(p)
      BY DEF ScopeInv
    <3>2. \A a \in answers'[p] : AnswerScoped(p, a)'
      BY <2>3 DEF AnswerScoped, Whose
    <3> QED BY <2>1, <3>1, <3>2 DEF PageScoped, Whose, Blank, RoleOf
  <2> QED BY <1>j, <1>c, <1>h, <2>1, <2>2, <2>4 DEF ScopeInv
<1> QED BY <1>1, <1>2, <1>3, <1>4, <1>5, <1>6 DEF WorkerStep

\* What a page has to do with stays its own: a page is told only what its own
\* connection's queue, or an answer to it, says.
LEMMA OtherPagesKept ==
    ASSUME TypeOK, ScopeInv, NEW q \in Pages,
           key'[q] = key[q], view'[q] = view[q],
           \A a \in answers'[q] : a \in answers[q] \/ AnswerScoped(q, a)
    PROVE  PageScoped(q)'
<1>1. PageScoped(q)
  BY DEF ScopeInv
<1>2. \A a \in answers'[q] : AnswerScoped(q, a)'
  BY <1>1 DEF PageScoped, AnswerScoped, Whose
<1> QED BY <1>1, <1>2 DEF PageScoped, Whose, Blank, RoleOf

\* applyState
LEMMA ApplyKeepsScope ==
    ASSUME TypeOK, ScopeInv, NEW p \in Pages, NEW payload \in Payloads, Apply(p, payload),
           payload.role = RoleOf(p), Whose(p, payload.s), UNCHANGED answers \/
             \E a \in answers[p] : answers' = [answers EXCEPT ![p] = @ \ {a}]
    PROVE  \A q \in Pages : PageScoped(q)'
<1>1. \A q \in Pages : answers'[q] \subseteq answers[q]
  <2>1. CASE answers' = answers
    BY <2>1
  <2>2. ASSUME NEW a \in answers[p], answers' = [answers EXCEPT ![p] = @ \ {a}]
        PROVE  \A q \in Pages : answers'[q] \subseteq answers[q]
    BY <2>2 DEF TypeOK
  <2> QED BY <2>1, <2>2
<1>2. \A q \in Pages : q # p => key'[q] = key[q] /\ view'[q] = view[q]
  BY DEF Apply, TypeOK
<1>3. ASSUME NEW q \in Pages, q # p PROVE PageScoped(q)'
  BY <1>1, <1>2, <1>3, OtherPagesKept
<1>4. PageScoped(p)'
  <2>1. PageScoped(p) /\ view'[p] = payload
    BY DEF ScopeInv, Apply, TypeOK
  <2>2. key'[p] \in {key[p], payload.s}
    BY DEF Apply, TypeOK
  <2>3. \A a \in answers'[p] : AnswerScoped(p, a)'
    BY <1>1, <2>1 DEF PageScoped, AnswerScoped, Whose
  <2> QED BY <2>1, <2>2, <2>3 DEF PageScoped, Whose, RoleOf
<1> QED BY <1>3, <1>4

LEMMA PageKeepsScope ==
    ASSUME TypeOK, ScopeInv, NEW p \in Pages,
           \/ PageStep(p) \/ AnswerState(p) \/ SignIn(p) \/ Reload(p)
           \/ \E s \in Sessions : Join(p, s)
           \/ \E a \in answers[p] : LoseAnswer(p, a)
    PROVE  \A q \in Pages : PageScoped(q)'
<1>t. /\ PageScoped(p) /\ key[p] \in Bindings /\ answers \in [Pages -> SUBSET Answers]
      /\ key \in [Pages -> Bindings] /\ view \in [Pages -> Payloads]
      /\ \A a \in answers[p] : a \in Answers /\ AnswerScoped(p, a)
  BY DEF TypeOK, ScopeInv, PageScoped
<1>k. ASSUME UNCHANGED <<key, view>>, \A q \in Pages : q # p => answers'[q] = answers[q],
             \A a \in answers'[p] : a \in answers[p] \/ AnswerScoped(p, a)
      PROVE  \A q \in Pages : PageScoped(q)'
  BY <1>k, OtherPagesKept
<1>r. ASSUME NEW kind \in {"refresh", "boot"}, NEW s \in Bindings, Whose(p, s),
             kind = "boot" => p \in Panels
      PROVE  AnswerScoped(p, Request(kind, s))
  BY <1>r DEF AnswerScoped, Request
<1>1. ASSUME NEW c \in Streams, stream[c].page = p, Deliver(c)
      PROVE  \A q \in Pages : PageScoped(q)'
  <2>0. stream[c] \in StreamStates /\ StreamScoped(c) /\ stream[c].st = "open"
        /\ UNCHANGED answers
    BY <1>1 DEF TypeOK, ScopeInv, Deliver, Subscribed
  <2>1. Whose(p, stream[c].of) /\ stream[c].of \in Bindings /\ stream[c].base \in Versions
        /\ stream[c].queue \in Seq(Payloads)
    BY <1>1, <2>0 DEF StreamScoped, StreamStates
  <2>2. CASE stream[c].opening
    <3> DEFINE payload == [role |-> RoleOf(p), s |-> stream[c].of, v |-> stream[c].base]
    <3>1. Apply(p, payload)
      BY <1>1, <2>2 DEF Deliver
    <3>2. payload \in Payloads /\ payload.role = RoleOf(p) /\ payload.s = stream[c].of
      BY <2>1 DEF Payloads, RoleOf
    <3> HIDE DEF payload
    <3> QED BY <2>0, <2>1, <3>1, <3>2, ApplyKeepsScope
  <2>3. CASE ~stream[c].opening
    <3>1. Apply(p, Head(stream[c].queue)) /\ stream[c].queue # <<>>
      BY <1>1, <2>3 DEF Deliver
    <3>2. Head(stream[c].queue) = stream[c].queue[1] /\ 1 \in DOMAIN stream[c].queue
          /\ stream[c].queue[1] \in Payloads
      BY <2>1, <3>1
    <3>3. Head(stream[c].queue).s = stream[c].of /\ Head(stream[c].queue).role = RoleOf(p)
      BY <1>1, <2>0, <3>2 DEF StreamScoped
    <3> QED BY <2>0, <2>1, <3>1, <3>2, <3>3, ApplyKeepsScope
  <2> QED BY <2>2, <2>3
<1>2. ASSUME NEW c \in Streams, OnError(c) PROVE \A q \in Pages : PageScoped(q)'
  BY <1>2, <1>k DEF OnError
<1>3. CASE Reconnect(p)
  <2>1. /\ UNCHANGED <<key, view>>
        /\ answers' = [answers EXCEPT ![p] = @ \cup {Request("refresh", key[p])}]
    BY <1>3 DEF Reconnect
  <2>2. AnswerScoped(p, Request("refresh", key[p]))
    BY <1>t, <1>r DEF PageScoped
  <2> QED BY <1>t, <1>k, <2>1, <2>2
<1>4. ASSUME NEW a \in answers[p], Receive(p, a) PROVE \A q \in Pages : PageScoped(q)'
  <2>1. answers' = [answers EXCEPT ![p] = @ \ {a}] /\ a.v # Unread
    BY <1>4 DEF Receive
  <2>2. CASE a.v = Unauthorised
    <3>1. UNCHANGED <<view, key>>
      BY <1>4, <2>2 DEF Receive
    <3> QED BY <1>t, <1>k, <2>1, <3>1
  <2>3. CASE a.v # Unauthorised
    <3> DEFINE payload == [role |-> RoleOf(p), s |-> a.of, v |-> a.v]
    <3>1. Apply(p, payload)
      BY <1>4, <2>3 DEF Receive
    <3>2. payload \in Payloads /\ payload.role = RoleOf(p) /\ payload.s = a.of
      BY <1>t, <2>3 DEF Payloads, RoleOf, Answers
    <3>3. Whose(p, a.of)
      BY <1>t DEF AnswerScoped
    <3> HIDE DEF payload
    <3> QED BY <2>1, <3>1, <3>2, <3>3, ApplyKeepsScope
  <2> QED BY <2>2, <2>3
<1>5. CASE AnswerState(p)
  <2>1. PICK a \in answers[p] :
         answers' = [answers EXCEPT ![p] = (@ \ {a}) \cup
                          {[a EXCEPT !.v = IF SignedIn(p) THEN Version(a.of)
                                           ELSE Unauthorised]}]
    BY <1>5 DEF AnswerState
  <2> DEFINE v == IF SignedIn(p) THEN Version(a.of) ELSE Unauthorised
             b == [a EXCEPT !.v = v]
  <2>2. a \in Answers /\ AnswerScoped(p, a)
    BY <1>t
  <2>3. p \notin Panels => v # Unauthorised
    BY <2>2, VersionType DEF SignedIn, Answers
  <2>4. b.of = a.of /\ b.kind = a.kind /\ b.v = v
    <3> HIDE DEF v
    <3> QED BY <2>2 DEF Answers
  <2>5. UNCHANGED <<key, view>> /\ answers' = [answers EXCEPT ![p] = (@ \ {a}) \cup {b}]
    BY <1>5, <2>1 DEF AnswerState
  <2> HIDE DEF v, b
  <2>6. AnswerScoped(p, b)
    BY <2>2, <2>3, <2>4 DEF AnswerScoped
  <2> QED BY <1>t, <1>k, <2>5, <2>6
<1>6. CASE SignIn(p)
  <2>1. /\ UNCHANGED <<key, view>> /\ p \in Panels
        /\ answers' = [answers EXCEPT ![p] =
                     IF key[p] = None THEN @ ELSE @ \cup {Request("boot", key[p])}]
    BY <1>6 DEF SignIn
  <2>2. AnswerScoped(p, Request("boot", key[p]))
    BY <1>t, <1>r, <2>1 DEF PageScoped
  <2> QED BY <1>t, <1>k, <2>1, <2>2
<1>7. CASE Reload(p)
  <2>1. /\ answers' = [answers EXCEPT ![p] =
             IF p \in Panels /\ key[p] # None THEN {Request("boot", key[p])} ELSE {}]
        /\ view' = [view EXCEPT ![p] = Blank(p)]
        /\ key' = [key EXCEPT ![p] = IF p \in Panels \/ Home[p] = None THEN @ ELSE Home[p]]
    BY <1>7 DEF Reload
  <2>2. ASSUME NEW q \in Pages, q # p PROVE PageScoped(q)'
    BY <1>t, <2>1, <2>2, OtherPagesKept
  <2>3. \A a \in answers'[p] : AnswerScoped(p, a)'
    <3>1. \A a \in answers'[p] : AnswerScoped(p, a)
      BY <1>t, <1>r, <2>1 DEF PageScoped
    <3> QED BY <3>1 DEF AnswerScoped, Whose
  <2>4. view'[p] = Blank(p) /\ key'[p] \in {key[p], Home[p]} /\ (key'[p] = Home[p] \/ key'[p] = key[p])
    BY <1>t, <2>1
  <2>5. PageScoped(p)'
    BY <1>t, <2>3, <2>4 DEF PageScoped, Whose, Blank, RoleOf
  <2> QED BY <2>2, <2>5
<1>8. ASSUME NEW s \in Sessions, Join(p, s) PROVE \A q \in Pages : PageScoped(q)'
  <2>1. /\ p \notin Panels /\ view[p].s = None /\ view[p].v # Unread
        /\ key' = [key EXCEPT ![p] = s] /\ view' = view
        /\ answers' = [answers EXCEPT ![p] = @ \cup {Request("join", s)}]
    BY <1>8 DEF Join
  <2>2. Home[p] = None
    <3>1. view[p] # Blank(p)
      BY <2>1 DEF Blank
    <3> QED BY <1>t, <2>1, <3>1 DEF PageScoped, Whose
  <2>3. ASSUME NEW q \in Pages, q # p PROVE PageScoped(q)'
    BY <1>t, <2>1, <2>3, OtherPagesKept
  <2>4. AnswerScoped(p, Request("join", s))
    BY <2>1, <2>2 DEF AnswerScoped, Whose, Request
  <2>5. \A a \in answers'[p] : AnswerScoped(p, a)'
    <3>1. \A a \in answers'[p] : AnswerScoped(p, a)
      BY <1>t, <2>1, <2>4
    <3> QED BY <3>1 DEF AnswerScoped, Whose
  <2>6. PageScoped(p)'
    BY <1>t, <2>1, <2>2, <2>5 DEF PageScoped, Whose, Blank, RoleOf
  <2> QED BY <2>3, <2>6
<1>9. ASSUME NEW a \in answers[p], LoseAnswer(p, a) PROVE \A q \in Pages : PageScoped(q)'
  <2>1. /\ answers' = [answers EXCEPT ![p] = @ \ {a}] /\ view' = view
        /\ \/ a.kind \in {"join", "boot"} /\ key' = [key EXCEPT ![p] = None]
           \/ UNCHANGED key
    BY <1>9 DEF LoseAnswer
  <2>2. \A q \in Pages : q # p => key'[q] = key[q]
    BY <1>t, <2>1
  <2>3. ASSUME NEW q \in Pages, q # p PROVE PageScoped(q)'
    BY <1>t, <2>1, <2>2, <2>3, OtherPagesKept
  <2>4. Whose(p, key'[p])
    BY <1>t, <2>1 DEF PageScoped, AnswerScoped, Whose
  <2>5. \A b \in answers'[p] : AnswerScoped(p, b)'
    BY <1>t, <2>1 DEF AnswerScoped, Whose
  <2>6. PageScoped(p)'
    BY <1>t, <2>1, <2>4, <2>5 DEF PageScoped, Whose, Blank, RoleOf
  <2> QED BY <2>3, <2>6
<1> QED BY <1>1, <1>2, <1>3, <1>4, <1>5, <1>6, <1>7, <1>8, <1>9 DEF PageStep

LEMMA StepScopeInv == TypeInv /\ ScopeInv /\ [Next]_svars => ScopeInv'
<1> SUFFICES ASSUME TypeInv, ScopeInv, [Next]_svars PROVE ScopeInv'
  OBVIOUS
<1>t. TypeOK
  BY DEF TypeInv
<1>1. ASSUME MovedOn, \A q \in Pages : Hears(q)', \A q \in Pages : PageScoped(q)'
      PROVE  ScopeInv'
  BY <1>t, <1>1, JobsStayScoped, StreamsStayScoped DEF ScopeInv
<1>2. ASSUME UNCHANGED <<key, view, answers>> PROVE \A q \in Pages : PageScoped(q)'
  BY <1>t, <1>2, OtherPagesKept
<1>3. ASSUME NEW m \in Workers, WorkerStep(m) \/ (\E s \in Sessions : Commit(m, s)) PROVE ScopeInv'
  BY <1>3, WorkerKeepsScope
<1>4. ASSUME NEW c \in Streams, StreamStep(c) \/ Break(c) PROVE ScopeInv'
  <2>1. UNCHANGED <<key, view, answers>>
    BY <1>4 DEF StreamStep, Open, Subscribe, Unsubscribe, Break
  <2> QED BY <1>t, <1>1, <1>2, <1>4, <2>1, StreamEndMoves
<1>5. ASSUME NEW p \in Pages,
             \/ PageStep(p) \/ AnswerState(p) \/ SignIn(p) \/ Reload(p)
             \/ \E s \in Sessions : Join(p, s)
             \/ \E a \in answers[p] : LoseAnswer(p, a)
      PROVE  ScopeInv'
  BY <1>t, <1>1, <1>5, PageStepMoves, PageKeepsScope
<1>6. CASE Restart
  <2>1. UNCHANGED <<key, view, answers>>
    BY <1>6 DEF Restart
  <2> QED BY <1>t, <1>1, <1>2, <1>6, <2>1, RestartMoves
<1>7. CASE UNCHANGED svars
  BY <1>t, <1>1, <1>2, <1>7, NoneMoves DEF svars, Hears, ScopeInv
<1> QED BY <1>3, <1>4, <1>5, <1>6, <1>7 DEF Next

LEMMA ScopeInvHolds == Spec => [](TypeInv /\ ScopeInv)
BY InitTypeInv, StepTypeInv, InitScopeInv, StepScopeInv, PTL DEF Spec

\* _push is scoped to one session and one role: no message of another session's,
\* or of another role's, ever waits for a page or is shown by one, whatever the
\* server's threads, the pages and the losses interleave to.
THEOREM NothingOfAnothers == Spec => []Scoped
<1>1. TypeInv /\ ScopeInv => Scoped
  <2> SUFFICES ASSUME ScopeInv PROVE Scoped
    OBVIOUS
  <2>1. \A c \in Streams : \A i \in DOMAIN stream[c].queue :
          /\ stream[c].queue[i].s = stream[c].of
          /\ stream[c].queue[i].role = RoleOf(stream[c].page)
    BY DEF ScopeInv, StreamScoped
  <2>2. ASSUME NEW p \in Pages
        PROVE  /\ view[p].role = RoleOf(p)
               /\ Home[p] # None => view[p].s \in {None, Home[p]}
    <3>1. view[p].role = RoleOf(p) /\ (view[p] = Blank(p) \/ Whose(p, view[p].s))
      BY DEF ScopeInv, PageScoped
    <3>2. Blank(p).s = None
      BY DEF Blank
    <3> QED BY <3>1, <3>2 DEF Whose
  <2> QED BY <2>1, <2>2 DEF Scoped
<1> QED BY <1>1, ScopeInvHolds, PTL

\* connect, onerror and the join form: a participant's page always has a
\* connection it listens to or a timer that will make it one.
THEOREM AlwaysHears == Spec => []NeverDeaf
<1>1. TypeInv /\ ScopeInv => NeverDeaf
  BY DEF ScopeInv, Hears, Held, NeverDeaf
<1> QED BY <1>1, ScopeInvHolds, PTL

-----------------------------------------------------------------------------
(* What waits for a page ends in the present *)

\* Worker m has the message of its change still to put to connection c.
StillToPut(m, c) ==
    /\ stream[c].of = job[m].s
    /\ \/ job[m].pc = "reread"
       \/ job[m].pc = "select" /\ job[m].role \in {"experimenter", RoleOf(stream[c].page)}
       \/ /\ job[m].pc = "put"
          /\ \/ c \in job[m].todo
             \/ job[m].role = "experimenter" /\ RoleOf(stream[c].page) = "participant"
Pending(c) == \E m \in Workers : StillToPut(m, c)

\* The worker pushes the row as it is, after a change.
JobLatest(m) ==
    /\ job[m].pc # "idle" => job[m].v = version[job[m].s] /\ job[m].v > 0
    /\ job[m].pc = "reread" => job[m].role = "experimenter"

\* There is a change for every message in a queue and for the one to come; a
\* queue that nothing is coming to ends in the row as it is.
StreamLatest(c) ==
    LET q == stream[c].queue
        v == Version(stream[c].of)
    IN stream[c].st = "open" =>
         /\ Len(q) <= v /\ (Pending(c) => Len(q) < v)
         /\ MaxVersion <= QueueMax /\ ~Pending(c) /\ q # <<>> => q[Len(q)].v = v

LatestInv ==
    OneAtATime => (\A m \in Workers : JobLatest(m)) /\ (\A c \in Streams : StreamLatest(c))

LEMMA InitLatestInv == Init => LatestInv
<1> SUFFICES ASSUME Init PROVE LatestInv
  OBVIOUS
<1>1. ASSUME NEW m \in Workers PROVE JobLatest(m)
  BY DEF Init, JobLatest, NoJob
<1>2. ASSUME NEW c \in Streams PROVE StreamLatest(c)
  BY DEF Init, StreamLatest, Free
<1> QED BY <1>1, <1>2 DEF LatestInv

\* Steps that change no row and put nothing, as long as a worker loses only the
\* connections that are gone.
LEMMA OthersKeepLatest ==
    ASSUME TypeInv, ScopeInv, LatestInv, MovedOn, version' = version,
           \/ job' = job
           \/ \E c \in Streams : Forget(c) /\ stream'[c].st # "open"
           \/ /\ \A m \in Workers : job'[m] = NoJob
              /\ \A c \in Streams : stream'[c].st # "open"
    PROVE  LatestInv'
<1> SUFFICES ASSUME OneAtATime
             PROVE  (\A m \in Workers : JobLatest(m)') /\ (\A c \in Streams : StreamLatest(c)')
  BY DEF LatestInv, OneAtATime
<1>t. TypeOK /\ (\A m \in Workers : JobLatest(m)) /\ (\A c \in Streams : StreamLatest(c))
  BY DEF TypeInv, LatestInv
<1>1. ASSUME NEW m \in Workers
      PROVE  \/ job'[m] = NoJob
             \/ /\ job'[m].pc = job[m].pc /\ job'[m].s = job[m].s /\ job'[m].v = job[m].v
                /\ job'[m].role = job[m].role
  BY DEF MovedOn, JobsKept
<1>2. ASSUME NEW m \in Workers PROVE JobLatest(m)'
  BY <1>t, <1>1 DEF JobLatest, NoJob
<1>3. ASSUME NEW c \in Streams, stream'[c].st = "open" PROVE StreamLatest(c)'
  <2>0. /\ stream[c] \in StreamStates /\ StreamScoped(c) /\ StreamLatest(c)
        /\ stream[c].queue \in Seq(Payloads)
    BY <1>t DEF TypeOK, ScopeInv, StreamStates
  <2>1. /\ stream'[c].page = stream[c].page /\ stream'[c].of = stream[c].of
        /\ \/ stream'[c].queue = stream[c].queue /\ stream[c].st \in {"read", "open"}
           \/ /\ stream[c].st = "open" /\ stream[c].queue # <<>>
              /\ stream'[c].queue = Tail(stream[c].queue)
    <3>1. Free.st # "open" /\ \A p \in Pages, s \in Bindings : Asked(p, s).st # "open"
      BY AskedType DEF Free
    <3>2. Moved(c)
      BY DEF MovedOn
    <3> QED BY <1>3, <3>1, <3>2 DEF Moved
  <2>2. ASSUME NEW m \in Workers PROVE StillToPut(m, c)' <=> StillToPut(m, c)
    <3>1. /\ job'[m].pc = job[m].pc /\ job'[m].s = job[m].s /\ job'[m].role = job[m].role
          /\ c \in job'[m].todo <=> c \in job[m].todo
      <4>1. CASE job' = job
        BY <4>1
      <4>2. ASSUME NEW d \in Streams, Forget(d), stream'[d].st # "open"
            PROVE  /\ job'[m].pc = job[m].pc /\ job'[m].s = job[m].s
                   /\ job'[m].role = job[m].role
                   /\ c \in job'[m].todo <=> c \in job[m].todo
        <5>1. job'[m] = [job[m] EXCEPT !.todo = @ \ {d}] /\ job[m] \in Jobs /\ c # d
          BY <1>t, <1>3, <4>2 DEF Forget, TypeOK
        <5> QED BY <5>1 DEF Jobs
      <4> QED BY <1>3, <4>1, <4>2
    <3> QED BY <2>1, <3>1 DEF StillToPut, RoleOf
  <2>3. Pending(c)' <=> Pending(c)
    BY <2>2 DEF Pending
  <2>4. Version(stream[c].of)' = Version(stream[c].of) /\ Version(stream[c].of) \in Nat
    <3>1. Version(stream[c].of) \in Versions
      BY <1>t, <2>0, VersionType DEF StreamStates
    <3> QED BY <2>1, <3>1 DEF Version
  <2>5. CASE stream[c].st = "open" /\ stream'[c].queue = stream[c].queue
    BY <2>0, <2>1, <2>3, <2>4, <2>5 DEF StreamLatest
  <2>6. CASE stream[c].st = "read" /\ stream'[c].queue = stream[c].queue
    <3>1. stream'[c].queue = <<>>
      BY <2>0, <2>6 DEF StreamScoped
    <3>2. Pending(c) => 0 < Version(stream[c].of)
      <4>1. ASSUME NEW m \in Workers, StillToPut(m, c) PROVE 0 < Version(stream[c].of)
        <5>1. job[m].pc # "idle" /\ stream[c].of = job[m].s
          BY <4>1 DEF StillToPut
        <5>2. job[m].s \in Sessions
          BY <5>1 DEF TypeInv, JobsOfSessions
        <5> QED BY <1>t, <5>1, <5>2 DEF JobLatest, Version
      <4> QED BY <4>1 DEF Pending
    <3> QED BY <2>3, <2>4, <3>1, <3>2 DEF StreamLatest
  <2>7. CASE /\ stream[c].st = "open" /\ stream[c].queue # <<>>
             /\ stream'[c].queue = Tail(stream[c].queue)
    <3> DEFINE q == stream[c].queue
    <3>1. /\ Len(Tail(q)) = Len(q) - 1 /\ Len(q) \in Nat
          /\ Tail(q) # <<>> => Tail(q)[Len(Tail(q))] = q[Len(q)]
      BY <2>0, <2>7
    <3> QED BY <2>0, <2>3, <2>4, <2>7, <3>1 DEF StreamLatest
  <2> QED BY <2>1, <2>5, <2>6, <2>7
<1>4. ASSUME NEW c \in Streams, stream'[c].st # "open" PROVE StreamLatest(c)'
  BY <1>4 DEF StreamLatest
<1> QED BY <1>2, <1>3, <1>4

\* The only worker: a change makes a message due, and nothing is put to a
\* connection that it was not due to.
LEMMA WorkerKeepsLatest ==
    ASSUME TypeInv, ScopeInv, LatestInv, NEW m \in Workers,
           WorkerStep(m) \/ (\E s \in Sessions : Commit(m, s))
    PROVE  LatestInv'
<1> SUFFICES ASSUME OneAtATime
             PROVE  (\A k \in Workers : JobLatest(k)') /\ (\A c \in Streams : StreamLatest(c)')
  BY DEF LatestInv, OneAtATime
<1>t. /\ TypeOK /\ job \in [Workers -> Jobs] /\ job[m] \in Jobs
      /\ JobLatest(m) /\ JobScoped(m) /\ (\A c \in Streams : StreamLatest(c))
      /\ job[m].pc # "idle" => job[m].s \in Sessions
  BY DEF TypeInv, LatestInv, TypeOK, ScopeInv, JobsOfSessions
<1>o. \A k \in Workers : k = m
  BY DEF OneAtATime
<1>p. ASSUME NEW c \in Streams
      PROVE  /\ Pending(c) <=> StillToPut(m, c)
             /\ Pending(c)' <=> StillToPut(m, c)'
  BY <1>o DEF Pending
<1>s. ASSUME NEW c \in Streams
      PROVE  /\ stream[c] \in StreamStates /\ stream[c].queue \in Seq(Payloads)
             /\ stream[c].of \in Bindings /\ Version(stream[c].of) \in Versions
             /\ StreamLatest(c) /\ StreamScoped(c)
  BY <1>t, VersionType DEF TypeOK, StreamStates, ScopeInv
\* A step that changes no row and no connection keeps what was due.
<1>k. ASSUME UNCHANGED <<version, stream>>, JobLatest(m)',
             \A c \in Streams : stream[c].st = "open" => (StillToPut(m, c)' <=> StillToPut(m, c))
      PROVE  (\A k \in Workers : JobLatest(k)') /\ (\A c \in Streams : StreamLatest(c)')
  <2>1. ASSUME NEW c \in Streams PROVE StreamLatest(c)'
    <3>1. stream[c].st = "open" => (Pending(c)' <=> Pending(c))
      BY <1>k, <1>p
    <3>2. Version(stream[c].of)' = Version(stream[c].of)
      BY <1>k DEF Version
    <3> QED BY <1>k, <1>s, <3>1, <3>2 DEF StreamLatest
  <2> QED BY <1>k, <1>o, <2>1
<1>1. ASSUME NEW s \in Sessions, Commit(m, s)
      PROVE  (\A k \in Workers : JobLatest(k)') /\ (\A c \in Streams : StreamLatest(c)')
  <2>1. PICK next \in {"reread", "select"}, o \in {p \in Panels : key[p] = s} \cup {None} :
           job' = [job EXCEPT ![m] = [NoJob EXCEPT !.pc = next, !.s = s, !.origin = o,
                                                   !.v = version'[s]]]
    BY <1>1 DEF Commit
  <2>2. /\ job[m].pc = "idle" /\ stream' = stream
        /\ version' = [version EXCEPT ![s] = @ + 1]
    BY <1>1 DEF Commit
  <2>3. job'[m].pc = next /\ job'[m].s = s /\ job'[m].v = version'[s] /\ job'[m].role = "experimenter"
    BY <1>t, <2>1 DEF NoJob
  <2>4. version[s] \in Nat /\ version'[s] = version[s] + 1
        /\ \A x \in Sessions : x # s => version'[x] = version[x]
    BY <1>t, <2>2 DEF TypeOK
  <2>5. JobLatest(m)'
    BY <2>3, <2>4 DEF JobLatest
  <2>6. ASSUME NEW c \in Streams, stream[c].st = "open" PROVE StreamLatest(c)'
    <3>1. ~Pending(c) /\ (Pending(c)' <=> stream[c].of = s)
      BY <1>p, <2>2, <2>3 DEF StillToPut
    <3>2. CASE stream[c].of = s
      <4>1. Version(stream[c].of) = version[s] /\ Version(stream[c].of)' = version[s] + 1
        BY <2>2, <2>4, <3>2 DEF Version
      <4>2. Len(stream[c].queue) \in Nat /\ Len(stream[c].queue) <= version[s]
        BY <1>s, <2>6, <4>1 DEF StreamLatest
      <4> QED BY <2>2, <2>4, <3>1, <3>2, <4>1, <4>2 DEF StreamLatest
    <3>3. CASE stream[c].of # s
      <4>1. Version(stream[c].of)' = Version(stream[c].of)
        BY <1>s, <2>2, <2>4, <3>3 DEF Version
      <4> QED BY <1>s, <2>2, <2>6, <3>1, <3>3, <4>1 DEF StreamLatest
    <3> QED BY <3>2, <3>3
  <2>7. ASSUME NEW c \in Streams, stream[c].st # "open" PROVE StreamLatest(c)'
    BY <2>2, <2>7 DEF StreamLatest
  <2> QED BY <1>o, <2>5, <2>6, <2>7
<1>2. CASE Reread(m)
  <2>1. /\ job' = [job EXCEPT ![m] = [@ EXCEPT !.v = version[job[m].s], !.pc = "select"]]
        /\ job[m].pc = "reread" /\ UNCHANGED <<version, stream>>
    BY <1>t, <1>2 DEF Reread
  <2>2. /\ job'[m].pc = "select" /\ job'[m].s = job[m].s /\ job'[m].role = job[m].role
        /\ job'[m].v = version[job[m].s]
    BY <1>t, <2>1 DEF Jobs
  <2>3. JobLatest(m)'
    BY <1>t, <2>1, <2>2 DEF JobLatest
  <2>4. \A c \in Streams : StillToPut(m, c)' <=> StillToPut(m, c)
    BY <1>t, <2>1, <2>2 DEF StillToPut, JobLatest
  <2> QED BY <1>k, <2>1, <2>3, <2>4
<1>3. CASE Select(m)
  <2> DEFINE todo == {c \in Streams : IsTarget(c, job[m].role, job[m].s)}
  <2>1. /\ job' = [job EXCEPT ![m] = [@ EXCEPT !.pc = "put", !.todo = todo]]
        /\ job[m].pc = "select" /\ UNCHANGED <<version, stream>>
    BY <1>t, <1>3 DEF Select
  <2>2. /\ job'[m].pc = "put" /\ job'[m].s = job[m].s /\ job'[m].role = job[m].role
        /\ job'[m].v = job[m].v /\ job'[m].todo = todo
    <3> HIDE DEF todo
    <3> QED BY <1>t, <2>1 DEF Jobs
  <2>3. JobLatest(m)'
    BY <1>t, <2>1, <2>2 DEF JobLatest
  <2>4. ASSUME NEW c \in Streams, stream[c].st = "open"
        PROVE  StillToPut(m, c)' <=> StillToPut(m, c)
    <3>1. c \in todo <=> stream[c].of = job[m].s /\ RoleOf(stream[c].page) = job[m].role
      BY <2>4 DEF IsTarget, Subscribed
    <3>2. RoleOf(stream[c].page) \in {"experimenter", "participant"}
          /\ RoleOf(stream'[c].page) = RoleOf(stream[c].page)
      BY <2>1 DEF RoleOf
    <3> HIDE DEF todo
    <3> QED BY <2>1, <2>2, <3>1, <3>2 DEF StillToPut, RoleOf
  <2> QED BY <1>k, <2>1, <2>3, <2>4
<1>4. CASE Put(m)
  <2>1. PICK c \in job[m].todo :
         /\ stream' = [stream EXCEPT ![c].queue =
                         PutNowait(@, [role |-> job[m].role, s |-> job[m].s, v |-> job[m].v])]
         /\ job' = [job EXCEPT ![m].todo = @ \ {c}]
    BY <1>4 DEF Put
  <2> DEFINE payload == [role |-> job[m].role, s |-> job[m].s, v |-> job[m].v]
             old == stream[c].queue
             q == PutNowait(old, payload)
             r == [stream[c] EXCEPT !.queue = q]
  <2>2. /\ c \in Streams /\ stream[c].st = "open" /\ stream[c].of = job[m].s
        /\ RoleOf(stream[c].page) = job[m].role /\ job[m].pc = "put" /\ version' = version
    BY <1>t, <1>4 DEF Put, JobScoped, Jobs
  <2>3. stream' = [stream EXCEPT ![c] = r]
    BY <1>t, <2>1, <2>2 DEF TypeOK
  <2>4. /\ r.page = stream[c].page /\ r.of = stream[c].of /\ r.st = "open" /\ r.queue = q
    <3> HIDE DEF q
    <3> QED BY <1>s, <2>2 DEF StreamStates
  <2>5. /\ job'[m].todo = job[m].todo \ {c} /\ job'[m].s = job[m].s /\ job'[m].v = job[m].v
        /\ job'[m].role = job[m].role /\ job'[m].pc = "put"
    BY <1>t, <2>1, <2>2 DEF Jobs
  <2>6. JobLatest(m)'
    BY <1>t, <2>2, <2>5 DEF JobLatest
  <2>7. /\ old \in Seq(Payloads) /\ Len(old) \in Nat
        /\ Len(old) < QueueMax => Len(q) = Len(old) + 1 /\ q[Len(q)] = payload
        /\ ~(Len(old) < QueueMax) => q = old
    <3>1. old \in Seq(Payloads)
      BY <1>s, <2>2
    <3> HIDE DEF old, payload
    <3> QED BY <3>1 DEF PutNowait
  <2>8. payload.v = job[m].v
    OBVIOUS
  <2> HIDE DEF q, r, payload, old
  <2>9. stream'[c] = r /\ \A d \in Streams : d # c => stream'[d] = stream[d]
    BY <1>t, <2>2, <2>3 DEF TypeOK
  <2>10. StreamLatest(c)'
    <3>1. StillToPut(m, c) /\ ~StillToPut(m, c)'
      <4>1. ~StillToPut(m, c)'
        BY <2>2, <2>4, <2>5, <2>9 DEF StillToPut, RoleOf
      <4> QED BY <2>1, <2>2, <4>1 DEF StillToPut
    <3>2. Pending(c) /\ ~Pending(c)'
      BY <1>p, <2>2, <3>1
    <3>3. /\ Version(stream[c].of) = version[job[m].s] /\ Version(stream[c].of)' = version[job[m].s]
          /\ job[m].v = version[job[m].s] /\ version[job[m].s] \in Nat
          /\ version[job[m].s] <= MaxVersion
      BY <1>t, <1>s, <2>2, <2>4, <2>9 DEF Version, JobLatest
    <3>4. Len(old) < version[job[m].s]
      BY <1>s, <2>2, <3>2, <3>3 DEF StreamLatest, old
    <3>5. /\ stream'[c].queue = q /\ Len(q) <= version[job[m].s]
          /\ MaxVersion <= QueueMax => q[Len(q)].v = version[job[m].s]
      BY <2>4, <2>7, <2>8, <2>9, <3>3, <3>4
    <3> QED BY <3>2, <3>3, <3>5 DEF StreamLatest
  <2>11. ASSUME NEW d \in Streams, d # c PROVE StreamLatest(d)'
    <3>1. stream'[d] = stream[d] /\ (StillToPut(m, d)' <=> StillToPut(m, d))
      BY <2>2, <2>5, <2>9, <2>11 DEF StillToPut, RoleOf
    <3>2. Version(stream[d].of)' = Version(stream[d].of) /\ (Pending(d)' <=> Pending(d))
      BY <1>p, <2>2, <3>1 DEF Version
    <3> QED BY <1>s, <3>1, <3>2 DEF StreamLatest
  <2> QED BY <1>o, <2>6, <2>10, <2>11
<1>5. CASE PushParticipants(m)
  <2>1. /\ job' = [job EXCEPT ![m] = [@ EXCEPT !.role = "participant", !.pc = "select"]]
        /\ job[m].pc = "put" /\ job[m].todo = {} /\ job[m].role = "experimenter"
        /\ UNCHANGED <<version, stream>>
    BY <1>t, <1>5 DEF PushParticipants, Pushed
  <2>2. /\ job'[m].pc = "select" /\ job'[m].s = job[m].s /\ job'[m].role = "participant"
        /\ job'[m].v = job[m].v
    BY <1>t, <2>1 DEF Jobs
  <2>3. JobLatest(m)'
    BY <1>t, <2>1, <2>2 DEF JobLatest
  <2>4. \A c \in Streams : StillToPut(m, c)' <=> StillToPut(m, c)
    BY <2>1, <2>2 DEF StillToPut, RoleOf
  <2> QED BY <1>k, <2>1, <2>3, <2>4
<1>6. CASE Finish(m)
  <2>1. /\ job' = [job EXCEPT ![m] = NoJob] /\ UNCHANGED <<version, stream>>
        /\ job[m].pc = "put" /\ job[m].todo = {} /\ job[m].role = "participant"
    BY <1>6 DEF Finish, Pushed
  <2>2. job'[m] = NoJob
    BY <1>t, <2>1
  <2>3. JobLatest(m)'
    BY <2>2 DEF JobLatest, NoJob
  <2>4. \A c \in Streams : StillToPut(m, c)' <=> StillToPut(m, c)
    BY <2>1, <2>2 DEF StillToPut, NoJob
  <2> QED BY <1>k, <2>1, <2>3, <2>4
<1> QED BY <1>1, <1>2, <1>3, <1>4, <1>5, <1>6 DEF WorkerStep

LEMMA StepLatestInv == TypeInv /\ ScopeInv /\ LatestInv /\ [Next]_svars => LatestInv'
<1> SUFFICES ASSUME TypeInv, ScopeInv, LatestInv, [Next]_svars PROVE LatestInv'
  OBVIOUS
<1>t. TypeOK
  BY DEF TypeInv
<1>1. ASSUME NEW m \in Workers, WorkerStep(m) \/ (\E s \in Sessions : Commit(m, s)) PROVE LatestInv'
  BY <1>1, WorkerKeepsLatest
<1>2. ASSUME NEW c \in Streams, StreamStep(c) \/ Break(c) PROVE LatestInv'
  <2>1. MovedOn
    BY <1>t, <1>2, StreamEndMoves
  <2>2. version' = version
    BY <1>2 DEF StreamStep, Open, Subscribe, Unsubscribe, Break
  <2>3. job' = job \/ (Forget(c) /\ stream'[c].st # "open")
    <3>1. CASE Open(c) \/ Subscribe(c)
      BY <3>1 DEF Open, Subscribe
    <3>2. CASE Unsubscribe(c)
      BY <1>t, <3>2 DEF Unsubscribe, Free, TypeOK
    <3>3. CASE Break(c)
      <4>1. /\ Forget(c) /\ stream[c] \in StreamStates /\ stream \in [Streams -> StreamStates]
            /\ stream' = [stream EXCEPT ![c] =
                            [@ EXCEPT !.st = "broken", !.opening = FALSE, !.queue = <<>>]]
        BY <1>t, <3>3 DEF Break, TypeOK
      <4> QED BY <4>1 DEF StreamStates
    <3> QED BY <1>2, <3>1, <3>2, <3>3 DEF StreamStep
  <2> QED BY <2>1, <2>2, <2>3, OthersKeepLatest
<1>3. ASSUME NEW p \in Pages,
             \/ PageStep(p) \/ AnswerState(p) \/ SignIn(p) \/ Reload(p)
             \/ \E s \in Sessions : Join(p, s)
             \/ \E a \in answers[p] : LoseAnswer(p, a)
      PROVE  LatestInv'
  <2>1. MovedOn
    BY <1>t, <1>3, PageStepMoves
  <2>2. version' = version /\ job' = job
    BY <1>3 DEF PageStep, Deliver, OnError, Reconnect, Receive, AnswerState, SignIn, Reload,
                Join, LoseAnswer
  <2> QED BY <2>1, <2>2, OthersKeepLatest
<1>4. CASE Restart
  <2>1. MovedOn
    BY <1>t, <1>4, RestartMoves
  <2>2. version' = version /\ \A m \in Workers : job'[m] = NoJob
    BY <1>4 DEF Restart
  <2>3. ASSUME NEW c \in Streams PROVE stream'[c].st # "open"
    <3> DEFINE r == [stream[c] EXCEPT !.st = "broken", !.opening = FALSE, !.queue = <<>>]
    <3>1. r.st = "broken"
      BY <1>t DEF TypeOK, StreamStates
    <3>2. stream'[c] \in {r, Free} \/ (stream'[c] = stream[c] /\ stream[c].st # "open")
      BY <1>4 DEF Restart
    <3> HIDE DEF r
    <3> QED BY <3>1, <3>2 DEF Free
  <2> QED BY <2>1, <2>2, <2>3, OthersKeepLatest
<1>5. CASE UNCHANGED svars
  <2>1. MovedOn
    BY <1>t, <1>5, NoneMoves DEF svars
  <2> QED BY <1>5, <2>1, OthersKeepLatest DEF svars
<1> QED BY <1>1, <1>2, <1>3, <1>4, <1>5 DEF Next

\* "A client that misses a message is corrected by the next one": where one
\* request at a time changes sessions and no queue overflows, what waits for a
\* page ends, once a push is over, in the session's present state.
THEOREM CorrectedByTheNext == Spec => []EndsInLatest
<1>1. TypeInv /\ ScopeInv /\ LatestInv => EndsInLatest
  <2> SUFFICES ASSUME TypeInv, ScopeInv, LatestInv, OneAtATime, Idle, MaxVersion <= QueueMax,
                      NEW c \in Streams, stream[c].queue # <<>>
               PROVE  stream[c].queue[Len(stream[c].queue)].v = version[stream[c].of]
    BY DEF EndsInLatest
  <2>1. /\ StreamScoped(c) /\ StreamLatest(c)
        /\ stream[c] \in StreamStates /\ stream[c].queue \in Seq(Payloads)
    BY DEF ScopeInv, LatestInv, TypeInv, TypeOK, StreamStates
  <2>2. stream[c].st = "open" /\ Len(stream[c].queue) > 0
    BY <2>1 DEF StreamScoped
  <2>3. ~Pending(c)
    BY DEF Idle, Pending, StillToPut
  <2>4. stream[c].queue[Len(stream[c].queue)].v = Version(stream[c].of) /\ Version(stream[c].of) > 0
    BY <2>1, <2>2, <2>3, VersionType DEF StreamLatest, StreamStates, TypeInv
  <2> QED BY <2>4 DEF Version
<1>2. Spec => []LatestInv
  BY ScopeInvHolds, InitLatestInv, StepLatestInv, PTL DEF Spec
<1> QED BY <1>1, <1>2, ScopeInvHolds, PTL

=============================================================================
