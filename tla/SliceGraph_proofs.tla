-------------------------- MODULE SliceGraph_proofs --------------------------
(***************************************************************************)
(* Proofs about SliceGraph, for any models, pages and views, any size of   *)
(* the renderer table and any bounds.                                      *)
(***************************************************************************)
EXTENDS SliceGraph, FiniteSetTheorems, SequenceTheorems, TLAPS

Versions  == Nat \cup {None}
Asks      == [model : Models, view : Views, slice : BOOLEAN]
Renderers == [
    model : Models, made : Nat, views : SUBSET Views, of : Versions, ready : BOOLEAN,
    stage : {"idle", "claimed", "computing", "saving", "stuck"}, by : Pages \cup {WarmUp, None},
    label : Versions, discarded : BOOLEAN, flag : BOOLEAN]
Pictures  == {"plain", "graph", "flat", None}
Excuses   == {"not available", "not told", "lost", "failed", "held back", None}
Tabs      == [
    model : Models, view : Views, slice : BOOLEAN, ask : Asks \cup {None}, again : BOOLEAN,
    engine : Nat, pic : Pictures, shows : Pictures, last : Models \cup {None},
    online : BOOLEAN, retries : Nat, pending : BOOLEAN, attempts : Nat, excuse : Excuses]
Warmings  == [queue : Seq(Models), at : {"idle", "starting", "waiting"}, engine : Nat]

\* A renderer whose data are of its mesh, and which is ready, or writes its
\* cache file, only with every view.
Good == {r \in Renderers :
            /\ r.views # {} => r.of = r.made
            /\ r.ready => r.views = Views
            /\ r.stage = "saving" => r.views = Views}

\* What a file in data/renders/precompute holds was computed from the version in its name.
CacheOK == \A c \in cache : c.path[2] = c.of

MeshInv ==
    /\ file \in [Models -> Nat]
    /\ engines \in Seq(Good)
    /\ CacheOK
    /\ warm \in Warmings
    /\ page \in [Pages -> Tabs]
    /\ spent \in [{"press", "edit", "failure"} -> Nat]

-----------------------------------------------------------------------------
(* The data *)

\* There is a first view.
LEMMA SomeView == FirstView \in Views /\ Views # {}
<1>1. 1 \in DOMAIN ViewOrder
  BY SliceAssumption, EmptySeq, LenProperties
<1> QED BY <1>1 DEF FirstView, Views, ToSet

\* While a view is missing, _compute_slice_graphs has one to go on with.
LEMMA NextView ==
    ASSUME NEW s \in SUBSET Views, s # Views
    PROVE  ViewOrder[Cardinality(s) + 1] \in Views
<1> DEFINE n == Len(ViewOrder)
<1>1. n \in Nat /\ DOMAIN ViewOrder = 1..n /\ ViewOrder \in [1..n -> Views]
  BY SliceAssumption, LenProperties
<1>2. ViewOrder \in Surjection(1..n, Views)
  BY <1>1 DEF Surjection, Views, ToSet
<1>3. IsFiniteSet(1..n) /\ Cardinality(1..n) = n
  BY <1>1, FS_Interval
<1>4. IsFiniteSet(Views) /\ Cardinality(Views) <= n
  BY <1>2, <1>3, FS_Surjection
<1>5. Cardinality(s) <= Cardinality(Views) /\ Cardinality(s) # Cardinality(Views)
  BY <1>4, FS_Subset
<1>6. Cardinality(s) \in Nat /\ Cardinality(Views) \in Nat
  BY <1>4, FS_Subset, FS_CardinalityType
<1>7. Cardinality(s) + 1 \in 1..n
  <2> HIDE DEF n
  <2> QED BY <1>1, <1>4, <1>5, <1>6
<1> QED BY <1>1, <1>7

\* Changing one entry of a sequence to a member of S, or none.
LEMMA ChangeOne ==
    ASSUME NEW S, NEW s \in Seq(S), NEW i, NEW r, i \in DOMAIN s => r \in S
    PROVE  [s EXCEPT ![i] = r] \in Seq(S)
<1>1. CASE i \in DOMAIN s
  BY <1>1, LenProperties, ExceptSeq
<1>2. CASE i \notin DOMAIN s
  <2>1. [s EXCEPT ![i] = r] = s
    BY <1>2, LenProperties
  <2> QED BY <2>1
<1> QED BY <1>1, <1>2

\* A renderer that exists is a good one.
LEMMA BuiltIsGood ==
    ASSUME MeshInv, NEW e \in DOMAIN engines
    PROVE  engines[e] \in Good /\ engines[e] \in Renderers
BY LenProperties, ElementOfSeq DEF MeshInv, Good

\* Claiming the computation changes nothing it has.
LEMMA StartedIsGood ==
    ASSUME NEW r \in Good, NEW caller \in Pages \cup {WarmUp}
    PROVE  Started(r, caller) \in Good
BY DEF Started, Good, Renderers

\* Looking a model up gives a renderer, and building one a good one.
LEMMA LookUpIsGood ==
    ASSUME MeshInv, NEW m \in Models
    PROVE  EnginesAfter(m) \in Seq(Good) /\ Number(m) \in Nat
<1>1. NewEngine(m) \in Good
  BY DEF NewEngine, Good, Renderers, Versions, MeshInv
<1>2. Len(engines) \in Nat /\ DOMAIN engines = 1..Len(engines)
  BY LenProperties DEF MeshInv
<1>3. EnginesAfter(m) \in Seq(Good)
  BY <1>1 DEF EnginesAfter, MeshInv
<1>4. Engine(m) = 0 \/ Engine(m) \in DOMAIN engines
  BY DEF Engine, InTable
<1> QED BY <1>2, <1>3, <1>4 DEF Number

\* Waking the warm-up leaves a warm-up.
LEMMA WokenType ==
    ASSUME MeshInv, NEW e
    PROVE  Woken(e) \in Warmings
BY DEF MeshInv, Woken, Warmings

-----------------------------------------------------------------------------
(* A page's callbacks lead from a page to a page *)

LEMMA SentType == ASSUME NEW s \in Tabs PROVE Sent(s) \in Tabs
<1>1. Ask(s) \in Asks
  BY DEF Ask, Asks, Tabs
<1> QED BY <1>1 DEF Sent, Tabs

LEMMA IdleType == ASSUME NEW s \in Tabs PROVE Idle(s) \in Tabs
BY DEF Idle, Tabs, Pictures

LEMMA SettledType == ASSUME NEW s \in Tabs PROVE Settled(s) \in Tabs
BY IdleType, SentType DEF Settled

LEMMA FailedType == ASSUME NEW s \in Tabs PROVE Failed(s) \in Tabs
<1>1. Idle(s) \in Tabs
  BY IdleType
<1>2. s.retries > 0 => [Idle(s) EXCEPT !.retries = @ - 1] \in Tabs
  <2>1. Idle(s).retries = s.retries /\ s.retries \in Nat
    BY DEF Idle, Tabs
  <2> QED BY <1>1, <2>1 DEF Tabs
<1> QED BY <1>1, <1>2, SentType DEF Failed

LEMMA ExcusedType ==
    ASSUME NEW s \in Tabs, NEW why \in Excuses
    PROVE  Excused(s, why) \in Tabs
BY DEF Excused, Tabs

LEMMA ModelType == ASSUME NEW s \in Tabs, NEW m \in Models PROVE [s EXCEPT !.model = m] \in Tabs
BY DEF Tabs

LEMMA ListedType == ASSUME NEW s \in Tabs PROVE Listed(s) \in Tabs
<1>1. [s EXCEPT !.model = FirstModel] \in Tabs
  BY ModelType, SliceAssumption
<1> QED BY <1>1, SentType DEF Listed

LEMMA RefusedType == ASSUME NEW s \in Tabs PROVE Refused(s) \in Tabs
<1>1. BackTo(s) \in Models
  BY SliceAssumption DEF BackTo, Tabs
<1>2. [s EXCEPT !.model = BackTo(s)] \in Tabs
  BY <1>1, ModelType
<1> QED BY <1>2, SentType DEF Refused

\* Counting the checks that are left.
LEMMA CountType == ASSUME NEW s \in Tabs, NEW n \in Nat PROVE [s EXCEPT !.attempts = n] \in Tabs
BY DEF Tabs

\* A check is due after it has been scheduled, and one is never owed.
LEMMA ScheduleType == ASSUME NEW s \in Tabs PROVE Schedule(s) \in Tabs /\ Schedule(s).pending
<1> DEFINE left == IF s.attempts <= 0 THEN Attempts ELSE s.attempts
<1>1. left \in Nat /\ left - 1 \in Nat
  <2>1. s.attempts \in Nat
    BY DEF Tabs
  <2>2. Attempts \in Nat \ {0}
    BY SliceAssumption
  <2> QED BY <2>1, <2>2
<1>2. Schedule(s) = IF s.pending THEN [s EXCEPT !.attempts = left]
                    ELSE [s EXCEPT !.pending = TRUE, !.attempts = left - 1]
  BY DEF Schedule
<1> HIDE DEF left
<1>3. [s EXCEPT !.attempts = left] \in Tabs /\ [s EXCEPT !.attempts = left].pending = s.pending
  BY <1>1, CountType DEF Tabs
<1>4. LET n == [s EXCEPT !.pending = TRUE, !.attempts = left - 1] IN n \in Tabs /\ n.pending
  BY <1>1 DEF Tabs
<1> QED BY <1>2, <1>3, <1>4

LEMMA CheckedType == ASSUME NEW s \in Tabs PROVE Checked(s) \in Tabs
<1>1. Rung(s) \in Tabs
  BY DEF Rung, Tabs
<1>2. Excused(Sent(Rung(s)), "held back") \in Tabs
  BY <1>1, SentType, ExcusedType DEF Excuses
<1> QED BY <1>1, <1>2, ScheduleType DEF Checked

\* What each kind of step of a page leaves behind.
LEMMA PageStep ==
    ASSUME MeshInv, NEW p \in Pages, NEW s \in Tabs, page' = [page EXCEPT ![p] = s]
    PROVE  page' \in [Pages -> Tabs]
BY DEF MeshInv

LEMMA SpendType ==
    ASSUME MeshInv, NEW what \in {"press", "edit", "failure"}, NEW max, Spend(what, max)
    PROVE  spent' \in [{"press", "edit", "failure"} -> Nat]
BY DEF MeshInv, Spend

\* Pressing something changes the page and no renderer.
LEMMA PressKeeps ==
    ASSUME MeshInv, NEW p \in Pages, NEW s \in Tabs, Press(p, s)
    PROVE  MeshInv'
<1>1. Excused(Sent(s), "held back") \in Tabs
  BY SentType, ExcusedType DEF Excuses
<1>2. page' \in [Pages -> Tabs]
  BY <1>1, PageStep DEF Press
<1>3. spent' \in [{"press", "edit", "failure"} -> Nat]
  BY SpendType DEF Press
<1> QED BY <1>2, <1>3 DEF Press, server, MeshInv, CacheOK

LEMMA ControlsKeep ==
    ASSUME MeshInv, NEW p \in Pages,
           \/ SwitchMode(p)
           \/ \E v \in Views : Look(p, v)
           \/ \E m \in Models : ChooseModel(p, m)
    PROVE  MeshInv'
<1>1. page[p] \in Tabs
  BY DEF MeshInv
<1>2. CASE SwitchMode(p)
  <2>1. [page[p] EXCEPT !.slice = ~@] \in Tabs
    BY <1>1 DEF Tabs
  <2> QED BY <1>2, <2>1, PressKeeps DEF SwitchMode
<1>3. ASSUME NEW v \in Views, Look(p, v) PROVE MeshInv'
  <2>1. [page[p] EXCEPT !.view = v] \in Tabs
    BY <1>1 DEF Tabs
  <2> QED BY <1>3, <2>1, PressKeeps DEF Look
<1>4. ASSUME NEW m \in Models, ChooseModel(p, m) PROVE MeshInv'
  <2>1. [page[p] EXCEPT !.model = m] \in Tabs
    BY <1>1 DEF Tabs
  <2> QED BY <1>4, <2>1, PressKeeps DEF ChooseModel
<1> QED BY <1>2, <1>3, <1>4

\* The status checks, the poll, and the end of a request that found no model or failed.
LEMMA WaitingKeeps ==
    ASSUME MeshInv, NEW p \in Pages,
           \/ CheckStatus(p) \/ CheckLost(p) \/ NotAvailable(p)
           \/ RequestFails(p) \/ PollFails(p) \/ PollAnswered(p)
    PROVE  MeshInv'
<1> DEFINE s == page[p]
           up == [s EXCEPT !.online = TRUE]
           down == [s EXCEPT !.online = FALSE]
<1>1. s \in Tabs /\ up \in Tabs /\ down \in Tabs /\ Rung(s) \in Tabs
  BY DEF MeshInv, Tabs, Rung
<1>2. /\ CheckStatus(p) => page' = [page EXCEPT ![p] = Checked(s)]
      /\ CheckLost(p) => page' = [page EXCEPT ![p] = Excused(Rung(s), "lost")]
      /\ NotAvailable(p) => page' = [page EXCEPT ![p] =
                                      Excused(Settled(Refused(up)), "not available")]
      /\ RequestFails(p) => page' = [page EXCEPT ![p] = Excused(Failed(s), "failed")]
      /\ PollFails(p) => page' = [page EXCEPT ![p] = down]
      /\ PollAnswered(p) => page' = [page EXCEPT ![p] = Listed(up)]
  BY DEF CheckStatus, CheckLost, NotAvailable, RequestFails, PollFails, PollAnswered
<1> HIDE DEF s, up, down
<1>3. Checked(s) \in Tabs /\ Excused(Rung(s), "lost") \in Tabs
  BY <1>1, CheckedType, ExcusedType DEF Excuses
<1>4. Excused(Settled(Refused(up)), "not available") \in Tabs
  BY <1>1, RefusedType, SettledType, ExcusedType DEF Excuses
<1>5. Excused(Failed(s), "failed") \in Tabs /\ Listed(up) \in Tabs
  BY <1>1, FailedType, ExcusedType, ListedType DEF Excuses
<1>6. page' \in [Pages -> Tabs]
  BY <1>1, <1>2, <1>3, <1>4, <1>5, PageStep
<1>7. spent' \in [{"press", "edit", "failure"} -> Nat]
  BY SpendType DEF CheckStatus, CheckLost, NotAvailable, RequestFails, PollFails, PollAnswered, MeshInv
<1>8. UNCHANGED server
  BY DEF CheckStatus, CheckLost, NotAvailable, RequestFails, PollFails, PollAnswered, server
<1> QED BY <1>6, <1>7, <1>8 DEF server, MeshInv, CacheOK

-----------------------------------------------------------------------------
(* The thread of a renderer *)

LEMMA LoadKeeps ==
    ASSUME MeshInv, NEW e \in Built, LoadCache(e)
    PROVE  MeshInv'
<1>1. engines[e] \in Good /\ engines[e] \in Renderers
  BY BuiltIsGood DEF Built
<1>2. UNCHANGED <<file, cache, table, page, spent>>
  BY DEF LoadCache
<1>3. ASSUME NEW c \in Found(engines[e]),
             engines' = [engines EXCEPT ![e].views = Views, ![e].of = c.of, ![e].ready = TRUE,
                                        ![e].stage = "idle", ![e].by = None],
             warm' = Woken(e)
      PROVE  MeshInv'
  <2> DEFINE r == [engines[e] EXCEPT !.views = Views, !.of = c.of, !.ready = TRUE,
                                     !.stage = "idle", !.by = None]
  <2>1. c.of = engines[e].made
    BY DEF Found, Path, MeshInv, CacheOK
  <2>2. r \in Good
    BY <1>1, <2>1 DEF Good, Renderers, Versions
  <2>3. engines' = [engines EXCEPT ![e] = r]
    BY <1>3
  <2>4. engines' \in Seq(Good)
    <3> HIDE DEF r
    <3> QED BY <2>2, <2>3, ChangeOne DEF MeshInv
  <2>5. warm' \in Warmings
    BY <1>3, WokenType
  <2> QED BY <1>2, <2>4, <2>5 DEF MeshInv, CacheOK
<1>4. ASSUME engines' = [engines EXCEPT ![e].stage = "computing", ![e].by = None], UNCHANGED warm
      PROVE  MeshInv'
  <2> DEFINE r == [engines[e] EXCEPT !.stage = "computing", !.by = None]
  <2>1. r \in Good
    BY <1>1 DEF Good, Renderers
  <2>2. engines' = [engines EXCEPT ![e] = r]
    BY <1>4
  <2>3. engines' \in Seq(Good)
    <3> HIDE DEF r
    <3> QED BY <2>1, <2>2, ChangeOne DEF MeshInv
  <2> QED BY <1>2, <1>4, <2>3 DEF MeshInv, CacheOK
<1> QED BY <1>3, <1>4 DEF LoadCache

\* A renderer whose precompute is left in progress for good; the page that asked
\* for it, if a page did, is told that its request failed.
LEMMA RaisesKeeps ==
    ASSUME MeshInv, NEW e \in Built, LoadRaises(e)
    PROVE  MeshInv'
<1> DEFINE r == [engines[e] EXCEPT !.stage = "stuck", !.by = None]
           p == engines[e].by
<1>1. r \in Good
  BY BuiltIsGood DEF Built, Good, Renderers
<1>2. engines' = [engines EXCEPT ![e] = r]
  BY DEF LoadRaises
<1>3. engines' \in Seq(Good)
  <2> HIDE DEF r
  <2> QED BY <1>1, <1>2, ChangeOne DEF MeshInv
<1>4. spent' \in [{"press", "edit", "failure"} -> Nat]
  BY SpendType DEF LoadRaises
<1>5. warm' \in Warmings
  BY WokenType DEF LoadRaises, MeshInv
<1>6. page' \in [Pages -> Tabs]
  <2>1. page' = page \/ page' = [page EXCEPT ![p] = Excused(Failed(page[p]), "failed")]
    BY DEF LoadRaises
  <2> HIDE DEF p
  <2>2. p \in Pages => Excused(Failed(page[p]), "failed") \in Tabs
    BY FailedType, ExcusedType DEF MeshInv, Excuses
  <2> QED BY <2>1, <2>2 DEF MeshInv
<1> QED BY <1>3, <1>4, <1>5, <1>6 DEF LoadRaises, MeshInv, CacheOK

LEMMA ComputeKeeps ==
    ASSUME MeshInv, NEW e \in Built, ComputeView(e)
    PROVE  MeshInv'
<1>1. engines[e] \in Good /\ engines[e] \in Renderers
  BY BuiltIsGood DEF Built
<1> DEFINE v == ViewOrder[Cardinality(engines[e].views) + 1]
           r == [engines[e] EXCEPT !.views = @ \cup {v}, !.of = engines[e].made]
<1>2. engines[e].views \in SUBSET Views /\ engines[e].views # Views /\ engines[e].stage = "computing"
  BY <1>1 DEF ComputeView, Renderers
<1>3. v \in Views
  BY <1>2, NextView
<1>4. engines' = [engines EXCEPT ![e] = r]
  BY DEF ComputeView
<1>5. r \in Good
  <2> HIDE DEF v
  <2> QED BY <1>1, <1>2, <1>3 DEF Good, Renderers, Versions
<1>6. engines' \in Seq(Good)
  <2> HIDE DEF r
  <2> QED BY <1>4, <1>5, ChangeOne DEF MeshInv
<1> QED BY <1>6 DEF ComputeView, MeshInv, CacheOK

LEMMA FailKeeps ==
    ASSUME MeshInv, NEW e \in Built, Fail(e)
    PROVE  MeshInv'
<1> DEFINE r == [engines[e] EXCEPT !.stage = "idle"]
<1>1. r \in Good
  BY BuiltIsGood DEF Built, Good, Renderers
<1>2. engines' = [engines EXCEPT ![e] = r]
  BY DEF Fail
<1>3. engines' \in Seq(Good)
  <2> HIDE DEF r
  <2> QED BY <1>1, <1>2, ChangeOne DEF MeshInv
<1>4. warm' \in Warmings
  BY WokenType DEF Fail, WokenAfterFailure
<1>5. spent' \in [{"press", "edit", "failure"} -> Nat]
  BY SpendType DEF Fail
<1> QED BY <1>3, <1>4, <1>5 DEF Fail, MeshInv, CacheOK

\* A computation that ends with every view leaves a good renderer.
LEMMA FinishedIsGood ==
    ASSUME NEW r \in Good, r.views = Views
    PROVE  Finished(r) \in Good
BY DEF Finished, Good, Renderers, Versions

LEMMA CheckSaveKeeps ==
    ASSUME MeshInv, NEW e \in Built, CheckSave(e)
    PROVE  MeshInv'
<1>1. /\ engines[e] \in Good /\ engines[e] \in Renderers
      /\ engines[e].views = Views /\ engines[e].stage = "computing"
  BY BuiltIsGood DEF Built, CheckSave
<1>2. UNCHANGED <<file, cache, table, page, spent>>
  BY DEF CheckSave
<1>3. ASSUME engines' = [engines EXCEPT ![e] = Finished(@)], warm' = Woken(e)
      PROVE  MeshInv'
  <2>1. engines' \in Seq(Good)
    BY <1>1, <1>3, FinishedIsGood, ChangeOne DEF MeshInv
  <2> QED BY <1>2, <1>3, <2>1, WokenType DEF MeshInv, CacheOK
<1>4. ASSUME engines' = [engines EXCEPT ![e].stage = "saving", ![e].label = file[engines[e].model]],
             UNCHANGED warm
      PROVE  MeshInv'
  <2> DEFINE r == [engines[e] EXCEPT !.stage = "saving", !.label = file[engines[e].model]]
  <2>1. file[engines[e].model] \in Nat
    BY <1>1 DEF MeshInv, Renderers
  <2>2. r \in Good
    BY <1>1, <2>1 DEF Good, Renderers, Versions
  <2>3. engines' = [engines EXCEPT ![e] = r]
    BY <1>4
  <2>4. engines' \in Seq(Good)
    <3> HIDE DEF r
    <3> QED BY <2>2, <2>3, ChangeOne DEF MeshInv
  <2> QED BY <1>2, <1>4, <2>4 DEF MeshInv, CacheOK
<1> QED BY <1>3, <1>4 DEF CheckSave

\* The file that is written is of the version in its name: a renderer that
\* saves has every view, there is one, and what it has is of its mesh.
LEMMA SaveKeeps ==
    ASSUME MeshInv, NEW e \in Built, Save(e)
    PROVE  MeshInv'
<1>1. /\ engines[e] \in Good /\ engines[e] \in Renderers /\ engines[e].views = Views
      /\ engines[e].of = engines[e].made
  BY BuiltIsGood, SomeView DEF Built, Save, Good
<1> DEFINE new == [path |-> Path(engines[e]), label |-> engines[e].label, of |-> engines[e].of]
<1>2. new.path[2] = new.of
  BY <1>1 DEF Path
<1>3. \/ UNCHANGED spent /\ \A c \in cache' : c \in cache \/ c = new
      \/ Spend("failure", MaxFailures) /\ UNCHANGED cache
  BY DEF Save
<1>4. CacheOK'
  <2> HIDE DEF new
  <2> QED BY <1>2, <1>3 DEF MeshInv, CacheOK
<1>5. spent' \in [{"press", "edit", "failure"} -> Nat]
  BY <1>3, SpendType DEF MeshInv
<1>6. engines' \in Seq(Good)
  BY <1>1, FinishedIsGood, ChangeOne DEF Save, MeshInv
<1>7. warm' \in Warmings
  BY WokenType DEF Save
<1> QED BY <1>4, <1>5, <1>6, <1>7 DEF Save, MeshInv

-----------------------------------------------------------------------------
(* The warm-up, and models that come and go *)

LEMMA WarmUpKeeps ==
    ASSUME MeshInv, TakeFromQueue \/ StartWarm
    PROVE  MeshInv'
<1>1. CASE TakeFromQueue
  <2> DEFINE m == Head(warm.queue)
             w == [warm EXCEPT !.queue = Tail(@)]
  <2>1. warm.queue \in Seq(Models) /\ warm.queue # <<>>
    BY <1>1 DEF TakeFromQueue, MeshInv, Warmings
  <2>2. m \in Models /\ Tail(warm.queue) \in Seq(Models)
    BY <2>1, HeadTailProperties
  <2>3. w \in Warmings
    BY <2>2 DEF MeshInv, Warmings
  <2>4. EnginesAfter(m) \in Seq(Good) /\ Number(m) \in Nat
    BY <2>2, LookUpIsGood
  <2>5. [w EXCEPT !.at = "starting", !.engine = Number(m)] \in Warmings
    <3> HIDE DEF w, m
    <3> QED BY <2>3, <2>4 DEF Warmings
  <2>6. /\ engines' = EnginesAfter(m) \/ UNCHANGED engines
        /\ warm' = [w EXCEPT !.at = "starting", !.engine = Number(m)] \/ warm' = w
        /\ UNCHANGED <<file, cache, page, spent>>
    BY <1>1 DEF TakeFromQueue
  <2> HIDE DEF m, w
  <2> QED BY <2>3, <2>4, <2>5, <2>6 DEF MeshInv, CacheOK
<1>2. CASE StartWarm
  <2> DEFINE r == Started(engines[warm.engine], WarmUp)
  <2>1. engines' = [engines EXCEPT ![warm.engine] = r]
    BY <1>2 DEF StartWarm
  <2>2. warm.engine \in DOMAIN engines => r \in Good
    BY BuiltIsGood, StartedIsGood
  <2>3. engines' \in Seq(Good)
    <3> HIDE DEF r
    <3> QED BY <2>1, <2>2, ChangeOne DEF MeshInv
  <2>4. \/ warm' = [warm EXCEPT !.at = "idle", !.engine = 0]
        \/ warm' = [warm EXCEPT !.at = "waiting"]
    BY <1>2 DEF StartWarm
  <2>5. warm' \in Warmings
    <3>1. /\ [warm EXCEPT !.at = "idle", !.engine = 0] \in Warmings
          /\ [warm EXCEPT !.at = "waiting"] \in Warmings
      BY DEF MeshInv, Warmings
    <3> QED BY <2>4, <3>1
  <2> QED BY <1>2, <2>3, <2>5 DEF StartWarm, MeshInv, CacheOK
<1> QED BY <1>1, <1>2

LEMMA EditKeeps ==
    ASSUME MeshInv, NEW m \in Models, Delete(m) \/ Upload(m)
    PROVE  MeshInv'
<1>1. spent' \in [{"press", "edit", "failure"} -> Nat]
  BY SpendType DEF Delete, Upload
<1>2. CASE Delete(m)
  <2>1. file' \in [Models -> Nat]
    BY <1>2 DEF Delete, MeshInv
  <2> DEFINE e == Engine(m)
             r == [engines[e] EXCEPT !.discarded = TRUE]
  <2>2. e \in DOMAIN engines => r \in Good
    BY BuiltIsGood DEF Good, Renderers
  <2>3. engines' = engines \/ engines' = [engines EXCEPT ![e] = r]
    BY <1>2 DEF Delete
  <2>4. engines' \in Seq(Good)
    <3> HIDE DEF r
    <3> QED BY <2>2, <2>3, ChangeOne DEF MeshInv
  <2>5. cache' \subseteq cache
    BY <1>2 DEF Delete
  <2> QED BY <1>1, <1>2, <2>1, <2>4, <2>5 DEF Delete, MeshInv, CacheOK
<1>3. CASE Upload(m)
  <2>1. file' \in [Models -> Nat]
    BY <1>3 DEF Upload, MeshInv
  <2>2. warm' \in Warmings
    <3>1. Append(warm.queue, m) \in Seq(Models)
      BY DEF MeshInv, Warmings
    <3>2. warm' = [warm EXCEPT !.queue = Append(warm.queue, m)]
      BY <1>3 DEF Upload
    <3> QED BY <3>1, <3>2 DEF MeshInv, Warmings
  <2> QED BY <1>1, <1>3, <2>1, <2>2 DEF Upload, MeshInv, CacheOK
<1> QED BY <1>2, <1>3

-----------------------------------------------------------------------------
(* A render *)

LEMMA BeginKeeps ==
    ASSUME MeshInv, NEW p \in Pages, BeginRender(p)
    PROVE  MeshInv'
<1> DEFINE m == page[p].ask.model
           r == Started(EnginesAfter(m)[Number(m)], p)
<1>1. m \in Models
  BY DEF BeginRender, MeshInv, Tabs, Asks
<1>2. EnginesAfter(m) \in Seq(Good) /\ Number(m) \in Nat
  BY <1>1, LookUpIsGood
<1>3. engines' = EnginesAfter(m) \/ engines' = [EnginesAfter(m) EXCEPT ![Number(m)] = r]
  BY DEF BeginRender
<1>4. Number(m) \in DOMAIN EnginesAfter(m) => EnginesAfter(m)[Number(m)] \in Good
  BY <1>2, LenProperties, ElementOfSeq
<1>5. Number(m) \in DOMAIN EnginesAfter(m) => r \in Good
  BY <1>4, StartedIsGood
<1>6. engines' \in Seq(Good)
  <2> HIDE DEF r
  <2> QED BY <1>2, <1>3, <1>5, ChangeOne
<1>7. page' \in [Pages -> Tabs]
  <2> DEFINE s == [page[p] EXCEPT !.engine = Number(m)]
  <2>1. page[p] \in Tabs
    BY DEF MeshInv
  <2>2. s \in Tabs
    <3> HIDE DEF m
    <3> QED BY <1>2, <2>1 DEF Tabs
  <2>3. page' = [page EXCEPT ![p] = s]
    BY DEF BeginRender
  <2> HIDE DEF s
  <2> QED BY <2>2, <2>3, PageStep
<1> QED BY <1>6, <1>7 DEF BeginRender, MeshInv, CacheOK

LEMMA DrawKeeps ==
    ASSUME MeshInv, NEW p \in Pages, Draw(p)
    PROVE  MeshInv'
<1> DEFINE n     == page[p].engine
           there == page[p].ask.view \in engines[n].views
           r     == [engines[n] EXCEPT !.flag = there]
           pic   == IF ~page[p].ask.slice THEN "plain" ELSE IF there THEN "graph" ELSE "flat"
<1>1. n \in DOMAIN engines => r \in Good
  <2>1. there \in BOOLEAN
    OBVIOUS
  <2> HIDE DEF n, there
  <2> QED BY <2>1, BuiltIsGood DEF Good, Renderers
<1>2. engines' = engines \/ engines' = [engines EXCEPT ![n] = r]
  BY DEF Draw
<1>3. engines' \in Seq(Good)
  <2> HIDE DEF r
  <2> QED BY <1>1, <1>2, ChangeOne DEF MeshInv
<1>4. [page[p] EXCEPT !.pic = pic] \in Tabs
  <2>1. page[p] \in Tabs /\ pic \in Pictures
    BY DEF MeshInv, Pictures
  <2> HIDE DEF pic
  <2> QED BY <2>1 DEF Tabs
<1>5. page' = [page EXCEPT ![p] = [page[p] EXCEPT !.pic = pic]]
  BY DEF Draw
<1>6. page' \in [Pages -> Tabs]
  <2> HIDE DEF pic
  <2> QED BY <1>4, <1>5, PageStep
<1> QED BY <1>3, <1>6 DEF Draw, MeshInv, CacheOK

\* The response is on the page.
LEMMA ShownType ==
    ASSUME NEW s \in Tabs, s.ask # None, NEW why \in Excuses
    PROVE  Shown(s, why) \in Tabs /\ Shown(s, why).shows = s.pic /\ Shown(s, why).excuse = why
<1>1. s.ask.model \in Models
  BY DEF Tabs, Asks
<1>2. RetryLimit \in Nat
  BY SliceAssumption
<1> QED BY <1>1, <1>2 DEF Shown, Tabs

LEMMA AnswerKeeps ==
    ASSUME MeshInv, NEW p \in Pages, Answer(p)
    PROVE  MeshInv'
<1> DEFINE s     == page[p]
           told  == Told(s.ask)
           why   == IF s.pic = "flat" /\ ~told THEN "not told" ELSE None
           shown == Listed(Shown(s, why))
<1>1. s \in Tabs /\ s.ask # None
  BY DEF MeshInv, Answer
<1>2. shown \in Tabs
  <2>1. why \in Excuses
    BY DEF Excuses
  <2> HIDE DEF s, why
  <2> QED BY <1>1, <2>1, ShownType, ListedType
<1>3. page' = [page EXCEPT ![p] = Settled(IF told THEN Schedule(shown) ELSE [shown EXCEPT !.attempts = 0])]
  BY DEF Answer
<1>4. Schedule(shown) \in Tabs /\ [shown EXCEPT !.attempts = 0] \in Tabs
  <2> HIDE DEF shown
  <2> QED BY <1>2, ScheduleType, CountType
<1>5. page' \in [Pages -> Tabs]
  <2> HIDE DEF shown, told
  <2> QED BY <1>3, <1>4, SettledType, PageStep
<1> QED BY <1>5 DEF Answer, server, MeshInv, CacheOK

-----------------------------------------------------------------------------
LEMMA StepKeepsMesh == MeshInv /\ [Next]_vars => MeshInv'
<1> SUFFICES ASSUME MeshInv, [Next]_vars PROVE MeshInv'
  OBVIOUS
<1>1. ASSUME NEW e \in Built, Thread(e) \/ Fail(e) \/ LoadRaises(e) PROVE MeshInv'
  BY <1>1, LoadKeeps, RaisesKeeps, ComputeKeeps, CheckSaveKeeps, SaveKeeps, FailKeeps DEF Thread
<1>2. CASE TakeFromQueue \/ StartWarm
  BY <1>2, WarmUpKeeps
<1>3. ASSUME NEW m \in Models, Delete(m) \/ Upload(m) PROVE MeshInv'
  BY <1>3, EditKeeps
<1>4. ASSUME NEW p \in Pages,
             \/ Request(p) \/ RequestFails(p) \/ CheckStatus(p) \/ CheckLost(p)
             \/ PollFails(p) \/ PollAnswered(p)
      PROVE  MeshInv'
  BY <1>4, BeginKeeps, DrawKeeps, AnswerKeeps, WaitingKeeps DEF Request
<1>5. ASSUME NEW p \in Pages,
             \/ SwitchMode(p)
             \/ \E v \in Views : Look(p, v)
             \/ \E m \in Models : ChooseModel(p, m)
      PROVE  MeshInv'
  BY <1>5, ControlsKeep
<1>6. CASE UNCHANGED vars
  BY <1>6 DEF vars, MeshInv, CacheOK
<1> QED BY <1>1, <1>2, <1>3, <1>4, <1>5, <1>6 DEF Next

LEMMA InitMesh == Init => MeshInv
<1> SUFFICES ASSUME Init PROVE MeshInv
  OBVIOUS
<1>1. engines \in Seq(Good)
  BY DEF Init
<1>2. Opened(FirstModel) \in Tabs
  BY SliceAssumption, SomeView DEF Opened, Tabs, Asks, Pictures, Excuses
<1>3. page \in [Pages -> Tabs]
  BY <1>2 DEF Init
<1>4. warm \in Warmings
  BY SliceAssumption DEF Init, Warmings
<1>5. /\ file \in [Models -> Nat]
      /\ CacheOK
      /\ spent \in [{"press", "edit", "failure"} -> Nat]
  BY DEF Init, CacheOK
<1> QED BY <1>1, <1>3, <1>4, <1>5 DEF MeshInv

\* A slice graph is computed from the mesh it is shown with, and ready when it
\* is whole, for any models, pages and views and any size of the renderer table:
\* the file may be deleted, sent again and read back from the cache of an
\* earlier run between any two steps of the threads that compute it.
THEOREM SliceGraphsAreOfTheirMesh == Spec => []DataIsOfItsMesh
<1>1. MeshInv => DataIsOfItsMesh
  BY BuiltIsGood DEF DataIsOfItsMesh, Built, Good
<1> QED BY <1>1, InitMesh, StepKeepsMesh, PTL DEF Spec

-----------------------------------------------------------------------------
(* Somebody looks again at a flat graph *)

\* A page that FlatIsWatched is content with, and one that stays so when its
\* request ends.
Watched(s) ==
    s.slice /\ s.shows = "flat" /\ s.excuse = None => s.pending \/ s.ask # None \/ s.attempts = 0
Content(s) == s.shows # "flat" \/ s.excuse # None \/ s.pending

WatchInv == \A p \in Pages : Watched(page[p])

\* Asking changes nothing but what is under way, and takes nothing back.
LEMMA SentIsWatched ==
    ASSUME NEW s \in Tabs
    PROVE  /\ Watched(s) => Watched(Sent(s))
           /\ Content(s) => Content(Sent(s))
<1>1. Ask(s) # None
  <2>1. Ask(s) \in [model : Models, view : Views, slice : BOOLEAN]
    BY DEF Ask, Tabs
  <2> QED BY <2>1, NoneAssumption
<1> HIDE DEF Ask
<1>2. /\ Sent(s).slice = s.slice /\ Sent(s).shows = s.shows /\ Sent(s).excuse = s.excuse
      /\ Sent(s).pending = s.pending /\ Sent(s).attempts = s.attempts
      /\ s.ask # None => Sent(s).ask # None
  BY <1>1 DEF Sent, Tabs
<1> QED BY <1>2 DEF Watched, Content

LEMMA IdleIsContent ==
    ASSUME NEW s \in Tabs, Content(s)
    PROVE  Content(Idle(s))
BY DEF Idle, Content, Tabs

LEMMA SettledIsContent ==
    ASSUME NEW s \in Tabs, Content(s)
    PROVE  Content(Settled(s))
<1>1. Idle(s) \in Tabs /\ Content(Idle(s))
  BY IdleType, IdleIsContent
<1> QED BY <1>1, SentIsWatched DEF Settled

LEMMA ListedIsWatched ==
    ASSUME NEW s \in Tabs
    PROVE  /\ Watched(s) => Watched(Listed(s))
           /\ Content(s) => Content(Listed(s))
<1> DEFINE n == [s EXCEPT !.model = FirstModel]
<1>1. n \in Tabs
  BY ModelType, SliceAssumption
<1>2. (Watched(s) => Watched(n)) /\ (Content(s) => Content(n))
  BY DEF Watched, Content, Tabs
<1>3. Listed(s) = Sent(n) \/ Listed(s) = s
  BY DEF Listed
<1> HIDE DEF n
<1> QED BY <1>1, <1>2, <1>3, SentIsWatched

\* Where there is nothing to wait for, a failure is named.
LEMMA ExcusedIsWatched ==
    ASSUME NEW s \in Tabs, NEW why \in Excuses \ {None}
    PROVE  Watched(Excused(s, why))
BY DEF Excused, Watched, Tabs

\* The response is on the page: told that it is flat, a check is due.
LEMMA AnswerIsWatched ==
    ASSUME MeshInv, NEW p \in Pages, Answer(p)
    PROVE  Watched(page'[p])
<1> DEFINE s     == page[p]
           told  == Told(s.ask)
           why   == IF s.pic = "flat" /\ ~told THEN "not told" ELSE None
           shown == Listed(Shown(s, why))
           next  == IF told THEN Schedule(shown) ELSE [shown EXCEPT !.attempts = 0]
<1>1. s \in Tabs /\ s.ask # None
  BY DEF MeshInv, Answer
<1>2. page'[p] = Settled(next)
  BY DEF Answer, MeshInv
<1>3. shown \in Tabs
  <2>1. why \in Excuses
    BY DEF Excuses
  <2> HIDE DEF s, why
  <2> QED BY <1>1, <2>1, ShownType, ListedType
<1>4. ~told => Content(shown)
  <2>1. why \in Excuses /\ (~told /\ s.pic = "flat" => why # None)
    BY NoneAssumption DEF Excuses
  <2> HIDE DEF s, why, told
  <2>2. ~told => Content(Shown(s, why))
    BY <1>1, <2>1, ShownType DEF Content
  <2> QED BY <1>1, <2>1, <2>2, ShownType, ListedIsWatched
<1>5. next \in Tabs /\ Content(next)
  <2> HIDE DEF shown, told
  <2>1. CASE told
    BY <1>3, <2>1, ScheduleType DEF Content
  <2>2. CASE ~told
    <3>1. [shown EXCEPT !.attempts = 0] \in Tabs
      BY <1>3, CountType
    <3> QED BY <1>3, <1>4, <2>2, <3>1 DEF Content, Tabs
  <2> QED BY <2>1, <2>2
<1> HIDE DEF next
<1>6. Content(Settled(next))
  BY <1>5, SettledIsContent
<1> QED BY <1>2, <1>6 DEF Content, Watched

\* The timer: it asks, or looks again later, unless the checks are used up.
LEMMA CheckedIsWatched ==
    ASSUME NEW s \in Tabs
    PROVE  Watched(Checked(s))
<1>1. Rung(s) \in Tabs /\ Rung(s).slice = s.slice /\ Rung(s).attempts = s.attempts
  BY DEF Rung, Tabs
<1>2. CASE ~s.slice
  BY <1>1, <1>2 DEF Checked, Watched
<1>3. CASE s.slice /\ Ready(s.model)
  <2>1. "held back" \in Excuses \ {None}
    BY NoneAssumption DEF Excuses
  <2> QED BY <1>1, <1>3, <2>1, SentType, ExcusedIsWatched DEF Checked
<1>4. CASE s.slice /\ ~Ready(s.model) /\ s.attempts > 0
  <2>1. Checked(s) = Schedule(Rung(s))
    BY <1>4 DEF Checked
  <2> QED BY <1>1, <2>1, ScheduleType DEF Watched
<1>5. CASE s.slice /\ ~Ready(s.model) /\ ~(s.attempts > 0)
  <2>1. Checked(s) = Rung(s) /\ s.attempts \in Nat
    BY <1>5 DEF Checked, Tabs
  <2> QED BY <1>1, <1>5, <2>1 DEF Watched
<1> QED BY <1>2, <1>3, <1>4, <1>5

\* The other steps of a page.
LEMMA WaitingIsWatched ==
    ASSUME MeshInv, WatchInv, NEW p \in Pages,
           \/ NotAvailable(p) \/ BeginRender(p) \/ Draw(p) \/ RequestFails(p)
           \/ CheckLost(p) \/ PollFails(p) \/ PollAnswered(p)
    PROVE  Watched(page'[p])
<1> DEFINE s    == page[p]
           up   == [s EXCEPT !.online = TRUE]
           down == [s EXCEPT !.online = FALSE]
<1>1. s \in Tabs /\ up \in Tabs /\ Rung(s) \in Tabs
  BY DEF MeshInv, Tabs, Rung
<1>2. Watched(s) /\ Watched(up) /\ Watched(down)
  BY <1>1 DEF WatchInv, Watched, Tabs
<1>3. {"not available", "failed", "lost"} \subseteq Excuses \ {None}
  BY NoneAssumption DEF Excuses
<1>4. CASE NotAvailable(p)
  <2>1. page'[p] = Excused(Settled(Refused(up)), "not available")
    BY <1>4 DEF NotAvailable, MeshInv
  <2> HIDE DEF up
  <2> QED BY <1>1, <1>3, <2>1, RefusedType, SettledType, ExcusedIsWatched
<1>5. CASE RequestFails(p)
  <2>1. page'[p] = Excused(Failed(s), "failed")
    BY <1>5 DEF RequestFails, MeshInv
  <2> HIDE DEF s
  <2> QED BY <1>1, <1>3, <2>1, FailedType, ExcusedIsWatched
<1>6. CASE CheckLost(p)
  <2>1. page'[p] = Excused(Rung(s), "lost")
    BY <1>6 DEF CheckLost, MeshInv
  <2> HIDE DEF s
  <2> QED BY <1>1, <1>3, <2>1, ExcusedIsWatched
<1>7. CASE PollFails(p) \/ PollAnswered(p)
  <2>1. page'[p] = down \/ page'[p] = Listed(up)
    BY <1>7 DEF PollFails, PollAnswered, MeshInv
  <2> HIDE DEF up, down
  <2> QED BY <1>1, <1>2, <2>1, ListedIsWatched
<1>8. CASE BeginRender(p)
  <2>1. page'[p] = [page[p] EXCEPT !.engine = Number(page[p].ask.model)]
    BY <1>8 DEF BeginRender, MeshInv
  <2> QED BY <1>1, <1>2, <2>1 DEF Watched, Tabs
<1>9. CASE Draw(p)
  <2>1. PICK pic : page' = [page EXCEPT ![p].pic = pic]
    BY <1>9 DEF Draw
  <2> QED BY <1>1, <1>2, <2>1 DEF Watched, Tabs, MeshInv
<1> QED BY <1>4, <1>5, <1>6, <1>7, <1>8, <1>9

\* Somebody presses something.
LEMMA PressIsWatched ==
    ASSUME MeshInv, NEW p \in Pages,
           \/ SwitchMode(p)
           \/ \E v \in Views : Look(p, v)
           \/ \E m \in Models : ChooseModel(p, m)
    PROVE  Watched(page'[p])
<1>1. page[p] \in Tabs
  BY DEF MeshInv
<1>2. ASSUME NEW s \in Tabs, Press(p, s) PROVE Watched(page'[p])
  <2>1. page'[p] = Excused(Sent(s), "held back")
    BY <1>2 DEF Press, MeshInv
  <2>2. "held back" \in Excuses \ {None}
    BY NoneAssumption DEF Excuses
  <2> QED BY <1>2, <2>1, <2>2, SentType, ExcusedIsWatched
<1>3. CASE SwitchMode(p)
  <2>1. [page[p] EXCEPT !.slice = ~@] \in Tabs
    BY <1>1 DEF Tabs
  <2> QED BY <1>2, <1>3, <2>1 DEF SwitchMode
<1>4. ASSUME NEW v \in Views, Look(p, v) PROVE Watched(page'[p])
  <2>1. [page[p] EXCEPT !.view = v] \in Tabs
    BY <1>1 DEF Tabs
  <2> QED BY <1>2, <1>4, <2>1 DEF Look
<1>5. ASSUME NEW m \in Models, ChooseModel(p, m) PROVE Watched(page'[p])
  <2>1. [page[p] EXCEPT !.model = m] \in Tabs
    BY <1>1, ModelType
  <2> QED BY <1>2, <1>5, <2>1 DEF ChooseModel
<1> QED BY <1>3, <1>4, <1>5

\* A precompute that raises in a page's request is a request that failed.
LEMMA RaisesIsWatched ==
    ASSUME MeshInv, WatchInv, NEW e \in Built, LoadRaises(e), NEW q \in Pages
    PROVE  Watched(page'[q])
<1>1. \/ page'[q] = page[q]
      \/ page'[q] = Excused(Failed(page[q]), "failed")
  BY DEF LoadRaises, MeshInv
<1>2. page[q] \in Tabs /\ Watched(page[q])
  BY DEF MeshInv, WatchInv
<1>3. "failed" \in Excuses \ {None}
  BY NoneAssumption DEF Excuses
<1> QED BY <1>1, <1>2, <1>3, FailedType, ExcusedIsWatched

\* A page is left alone by every step of another.
LEMMA OnlyOnePage ==
    ASSUME MeshInv, NEW p \in Pages, NEW q \in Pages, p # q,
           \/ Request(p) \/ RequestFails(p) \/ CheckStatus(p) \/ CheckLost(p)
           \/ PollFails(p) \/ PollAnswered(p) \/ SwitchMode(p)
           \/ \E v \in Views : Look(p, v)
           \/ \E m \in Models : ChooseModel(p, m)
    PROVE  page'[q] = page[q]
<1>1. Request(p) => page'[q] = page[q]
  BY DEF MeshInv, Request, BeginRender, NotAvailable, Draw, Answer
<1>2. RequestFails(p) \/ CheckStatus(p) \/ CheckLost(p) \/ PollFails(p) \/ PollAnswered(p)
        => page'[q] = page[q]
  BY DEF MeshInv, RequestFails, CheckStatus, CheckLost, PollFails, PollAnswered
<1>3. SwitchMode(p) \/ (\E v \in Views : Look(p, v)) \/ (\E m \in Models : ChooseModel(p, m))
        => page'[q] = page[q]
  BY DEF MeshInv, SwitchMode, Look, ChooseModel, Press
<1> QED BY <1>1, <1>2, <1>3

LEMMA StepKeepsWatch == MeshInv /\ WatchInv /\ [Next]_vars => WatchInv'
<1> SUFFICES ASSUME MeshInv, WatchInv, [Next]_vars PROVE WatchInv'
  OBVIOUS
<1>1. ASSUME page' = page PROVE WatchInv'
  BY <1>1 DEF WatchInv, Watched
<1>2. ASSUME NEW e \in Built, Thread(e) \/ Fail(e) \/ LoadRaises(e) PROVE WatchInv'
  <2>1. CASE LoadRaises(e)
    BY <2>1, RaisesIsWatched DEF WatchInv
  <2>2. CASE Thread(e) \/ Fail(e)
    BY <1>1, <2>2 DEF Thread, Fail, LoadCache, ComputeView, CheckSave, Save
  <2> QED BY <1>2, <2>1, <2>2
<1>3. CASE TakeFromQueue \/ StartWarm
  BY <1>1, <1>3 DEF TakeFromQueue, StartWarm
<1>4. ASSUME NEW m \in Models, Delete(m) \/ Upload(m) PROVE WatchInv'
  BY <1>1, <1>4 DEF Delete, Upload
<1>5. ASSUME NEW p \in Pages,
             \/ Request(p) \/ RequestFails(p) \/ CheckStatus(p) \/ CheckLost(p)
             \/ PollFails(p) \/ PollAnswered(p) \/ SwitchMode(p)
             \/ \E v \in Views : Look(p, v)
             \/ \E m \in Models : ChooseModel(p, m)
      PROVE  WatchInv'
  <2>1. Watched(page'[p])
    <3>1. CASE CheckStatus(p)
      <4>1. page'[p] = Checked(page[p]) /\ page[p] \in Tabs
        BY <3>1 DEF CheckStatus, MeshInv
      <4> QED BY <4>1, CheckedIsWatched
    <3>2. CASE Request(p) \/ RequestFails(p) \/ CheckLost(p) \/ PollFails(p) \/ PollAnswered(p)
      BY <3>2, AnswerIsWatched, WaitingIsWatched DEF Request
    <3> QED BY <1>5, <3>1, <3>2, PressIsWatched
  <2>2. \A q \in Pages \ {p} : Watched(page'[q])
    <3>1. ASSUME NEW q \in Pages \ {p} PROVE page'[q] = page[q]
      BY <1>5, OnlyOnePage
    <3> QED BY <3>1 DEF WatchInv
  <2> QED BY <2>1, <2>2 DEF WatchInv
<1>6. CASE UNCHANGED vars
  BY <1>1, <1>6 DEF vars
<1> QED BY <1>2, <1>3, <1>4, <1>5, <1>6 DEF Next

\* A page in slice-graph mode that was told its graph is flat has a check due,
\* a request under way or no checks left, unless a failure put an end to it: no
\* press, answer, poll or check that does get through leaves it in front of the
\* flat graph, whatever the renderers do.
THEOREM FlatGraphsAreWatched == Spec => []FlatIsWatched
<1>1. Init => WatchInv
  <2>1. Opened(FirstModel).attempts = 0
    BY DEF Opened
  <2>2. Watched(Opened(FirstModel))
    BY <2>1 DEF Watched
  <2>3. Init => \A p \in Pages : page[p] = Opened(FirstModel)
    BY DEF Init
  <2> QED BY <2>2, <2>3 DEF WatchInv
<1>2. WatchInv => FlatIsWatched
  BY DEF WatchInv, Watched, FlatIsWatched
<1> QED BY <1>1, <1>2, InitMesh, StepKeepsMesh, StepKeepsWatch, PTL DEF Spec

-----------------------------------------------------------------------------
(* The warm-up *)

\* It waits for a renderer there is, with somebody at it.
WarmInv ==
    warm.at # "idle" =>
        /\ warm.engine \in DOMAIN engines
        /\ warm.at = "waiting" => engines[warm.engine].stage # "idle"

\* Nobody but who wakes it makes a renderer idle, and none is taken away.
LEMMA NobodyIdles ==
    ASSUME WarmInv, warm'.at = warm.at, warm'.engine = warm.engine,
           DOMAIN engines \subseteq DOMAIN engines',
           \A e \in DOMAIN engines : engines'[e].stage = "idle" => engines[e].stage = "idle"
    PROVE  WarmInv'
BY DEF WarmInv

\* A thread that ends, or changes a renderer it does not leave idle.
LEMMA OneChanges ==
    ASSUME MeshInv, WarmInv, NEW e \in Built, NEW r,
           engines' = [engines EXCEPT ![e] = r],
           warm' = Woken(e) \/ (UNCHANGED warm /\ (r.stage = "idle" => engines[e].stage = "idle"))
    PROVE  WarmInv'
<1>1. DOMAIN engines' = DOMAIN engines
  OBVIOUS
<1>2. \A i \in DOMAIN engines : engines'[i] = IF i = e THEN r ELSE engines[i]
  BY DEF Built
<1>3. warm \in Warmings
  BY DEF MeshInv
<1>4. CASE warm.at = "waiting" /\ warm.engine = e /\ warm' = Woken(e)
  <2>1. warm'.at = "idle"
    BY <1>3, <1>4 DEF Woken, Warmings
  <2> QED BY <2>1 DEF WarmInv
<1>5. CASE ~(warm.at = "waiting" /\ warm.engine = e) /\ warm' = Woken(e)
  BY <1>1, <1>2, <1>5 DEF Woken, WarmInv
<1>6. CASE UNCHANGED warm /\ (r.stage = "idle" => engines[e].stage = "idle")
  BY <1>1, <1>2, <1>6 DEF WarmInv
<1> QED BY <1>4, <1>5, <1>6

LEMMA ThreadsWake ==
    ASSUME MeshInv, WarmInv, NEW e \in Built, Thread(e) \/ Fail(e) \/ LoadRaises(e)
    PROVE  WarmInv'
<1>1. engines[e] \in Renderers
  BY BuiltIsGood DEF Built
<1>2. CASE LoadCache(e)
  <2>1. ASSUME NEW c, warm' = Woken(e),
               engines' = [engines EXCEPT ![e].views = Views, ![e].of = c.of, ![e].ready = TRUE,
                                          ![e].stage = "idle", ![e].by = None]
        PROVE  WarmInv'
    <3>1. PICK r : engines' = [engines EXCEPT ![e] = r]
      BY <2>1
    <3> QED BY <2>1, <3>1, OneChanges
  <2>2. ASSUME UNCHANGED warm,
               engines' = [engines EXCEPT ![e].stage = "computing", ![e].by = None]
        PROVE  WarmInv'
    <3> DEFINE r == [engines[e] EXCEPT !.stage = "computing", !.by = None]
    <3>1. r.stage = "computing" /\ engines' = [engines EXCEPT ![e] = r]
      BY <1>1, <2>2 DEF Renderers
    <3> HIDE DEF r
    <3> QED BY <2>2, <3>1, OneChanges
  <2> QED BY <1>2, <2>1, <2>2 DEF LoadCache
<1>3. CASE LoadRaises(e)
  <2> DEFINE r == [engines[e] EXCEPT !.stage = "stuck", !.by = None]
  <2>1. r.stage = "stuck" /\ engines' = [engines EXCEPT ![e] = r]
    BY <1>1, <1>3 DEF LoadRaises, Renderers
  <2>2. warm' = Woken(e) \/ UNCHANGED warm
    BY <1>3 DEF LoadRaises
  <2> HIDE DEF r
  <2> QED BY <2>1, <2>2, OneChanges
<1>4. CASE ComputeView(e)
  <2>1. PICK v : engines' = [engines EXCEPT ![e].views = v, ![e].of = engines[e].made]
    BY <1>4 DEF ComputeView
  <2> DEFINE r == [engines[e] EXCEPT !.views = v, !.of = engines[e].made]
  <2>2. r.stage = engines[e].stage /\ engines' = [engines EXCEPT ![e] = r] /\ UNCHANGED warm
    BY <1>1, <1>4, <2>1, ZenonT(30) DEF ComputeView, Renderers
  <2> HIDE DEF r
  <2> QED BY <2>2, OneChanges
<1>5. CASE Fail(e)
  <2> DEFINE r == [engines[e] EXCEPT !.stage = "idle"]
  <2>1. engines' = [engines EXCEPT ![e] = r] /\ warm' = Woken(e)
    BY <1>5 DEF Fail, WokenAfterFailure
  <2> HIDE DEF r
  <2> QED BY <2>1, OneChanges
<1>6. CASE CheckSave(e)
  <2>1. CASE engines[e].discarded
    <3>1. engines' = [engines EXCEPT ![e] = Finished(engines[e])] /\ warm' = Woken(e)
      BY <1>6, <2>1 DEF CheckSave
    <3> QED BY <3>1, OneChanges
  <2>2. CASE ~engines[e].discarded
    <3> DEFINE r == [engines[e] EXCEPT !.stage = "saving", !.label = file[engines[e].model]]
    <3>1. r.stage = "saving" /\ engines' = [engines EXCEPT ![e] = r] /\ UNCHANGED warm
      BY <1>1, <1>6, <2>2 DEF CheckSave, Renderers
    <3> HIDE DEF r
    <3> QED BY <3>1, OneChanges
  <2> QED BY <2>1, <2>2
<1>7. CASE Save(e)
  <2>1. engines' = [engines EXCEPT ![e] = Finished(engines[e])] /\ warm' = Woken(e)
    BY <1>7 DEF Save
  <2> QED BY <2>1, OneChanges
<1> QED BY <1>2, <1>3, <1>4, <1>5, <1>6, <1>7 DEF Thread

\* What looking a model up does to the renderers there are: nothing.
LEMMA LookUpKeeps ==
    ASSUME MeshInv, NEW m
    PROVE  /\ Number(m) \in DOMAIN EnginesAfter(m)
           /\ DOMAIN engines \subseteq DOMAIN EnginesAfter(m)
           /\ \A e \in DOMAIN engines : EnginesAfter(m)[e] = engines[e]
<1>1. engines \in Seq(Good) /\ Len(engines) \in Nat /\ DOMAIN engines = 1..Len(engines)
  BY LenProperties DEF MeshInv
<1>2. CASE Engine(m) # 0
  <2>1. Engine(m) \in InTable(m)
    BY <1>2 DEF Engine
  <2> QED BY <1>2, <2>1 DEF Number, EnginesAfter, InTable
<1>3. CASE Engine(m) = 0
  <2>1. EnginesAfter(m) = Append(engines, NewEngine(m)) /\ Number(m) = Len(engines) + 1
    BY <1>3 DEF EnginesAfter, Number
  <2> DEFINE new == NewEngine(m)
  <2> HIDE DEF new
  <2>2. /\ DOMAIN Append(engines, new) = 1..(Len(engines) + 1)
        /\ \A e \in 1..Len(engines) : Append(engines, new)[e] = engines[e]
    BY <1>1
  <2> QED BY <1>1, <2>1, <2>2 DEF new
<1> QED BY <1>2, <1>3

\* Claiming a renderer makes none idle.
LEMMA StartedIsBusy ==
    ASSUME NEW r, NEW caller
    PROVE  Started(r, caller).stage = "idle" => r.stage = "idle"
BY DEF Started

LEMMA StepKeepsWarm == MeshInv /\ WarmInv /\ [Next]_vars => WarmInv'
<1> SUFFICES ASSUME MeshInv, WarmInv, [Next]_vars PROVE WarmInv'
  OBVIOUS
<1>1. ASSUME UNCHANGED <<engines, warm>> PROVE WarmInv'
  BY <1>1 DEF WarmInv
<1>2. ASSUME NEW e \in Built, Thread(e) \/ Fail(e) \/ LoadRaises(e) PROVE WarmInv'
  BY <1>2, ThreadsWake
<1>3. CASE TakeFromQueue
  <2> DEFINE m == Head(warm.queue)
  <2>1. warm \in Warmings /\ warm.at = "idle"
    BY <1>3 DEF MeshInv, TakeFromQueue
  <2>2. Number(m) \in DOMAIN EnginesAfter(m)
    BY LookUpKeeps
  <2>3. \/ engines' = EnginesAfter(m) /\ warm'.at = "starting" /\ warm'.engine = Number(m)
        \/ warm'.at = "idle"
    BY <1>3, <2>1 DEF TakeFromQueue, Warmings
  <2> HIDE DEF m
  <2> QED BY <2>2, <2>3 DEF WarmInv
<1>4. CASE StartWarm
  <2>1. warm \in Warmings /\ warm.at = "starting" /\ warm.engine \in DOMAIN engines
    BY <1>4 DEF MeshInv, StartWarm, WarmInv
  <2>2. DOMAIN engines' = DOMAIN engines
    BY <1>4 DEF StartWarm
  <2>3. \/ warm'.at = "idle"
        \/ warm'.engine = warm.engine /\ engines'[warm.engine].stage # "idle"
    BY <1>4, <2>1 DEF StartWarm, Warmings
  <2> QED BY <2>1, <2>2, <2>3 DEF WarmInv
<1>5. ASSUME NEW m \in Models, Delete(m) PROVE WarmInv'
  <2>1. UNCHANGED warm
    BY <1>5 DEF Delete
  <2>2. CASE Engine(m) = 0
    BY <1>1, <1>5, <2>1, <2>2 DEF Delete
  <2>3. CASE Engine(m) # 0
    <3> DEFINE e == Engine(m)
               r == [engines[e] EXCEPT !.discarded = TRUE]
    <3>1. e \in Built
      BY <2>3 DEF Engine, InTable, Built
    <3>2. engines[e] \in Renderers
      BY <3>1, BuiltIsGood DEF Built
    <3>3. r.stage = engines[e].stage /\ engines' = [engines EXCEPT ![e] = r]
      BY <1>5, <2>3, <3>2 DEF Delete, Renderers
    <3> HIDE DEF r, e
    <3> QED BY <2>1, <3>1, <3>3, OneChanges
  <2> QED BY <2>2, <2>3
<1>6. ASSUME NEW m \in Models, Upload(m) PROVE WarmInv'
  <2>1. warm'.at = warm.at /\ warm'.engine = warm.engine /\ UNCHANGED engines
    BY <1>6 DEF Upload, MeshInv, Warmings
  <2> QED BY <2>1 DEF WarmInv
<1>7. ASSUME NEW p \in Pages, BeginRender(p) PROVE WarmInv'
  <2> DEFINE m == page[p].ask.model
             r == Started(EnginesAfter(m)[Number(m)], p)
  <2>1. UNCHANGED warm
    BY <1>7 DEF BeginRender
  <2>2. engines' = EnginesAfter(m) \/ engines' = [EnginesAfter(m) EXCEPT ![Number(m)] = r]
    BY <1>7 DEF BeginRender
  <2>3. r.stage = "idle" => EnginesAfter(m)[Number(m)].stage = "idle"
    BY StartedIsBusy
  <2> HIDE DEF m, r
  <2>4. /\ DOMAIN engines \subseteq DOMAIN engines'
        /\ \A e \in DOMAIN engines : engines'[e].stage = "idle" => engines[e].stage = "idle"
    BY <2>2, <2>3, LookUpKeeps
  <2> QED BY <2>1, <2>4, NobodyIdles
<1>8. ASSUME NEW p \in Pages, Draw(p) PROVE WarmInv'
  <2> DEFINE e == page[p].engine
  <2>1. UNCHANGED warm
    BY <1>8 DEF Draw
  <2>2. PICK flag : engines' = engines \/ engines' = [engines EXCEPT ![e].flag = flag]
    BY <1>8 DEF Draw
  <2> HIDE DEF e
  <2>3. /\ DOMAIN engines \subseteq DOMAIN engines'
        /\ \A i \in DOMAIN engines : engines'[i].stage = engines[i].stage
    <3>1. \A i \in DOMAIN engines : engines[i] \in Renderers
      BY BuiltIsGood
    <3> QED BY <2>2, <3>1 DEF Renderers
  <2> QED BY <2>1, <2>3, NobodyIdles
<1>9. ASSUME NEW p \in Pages,
             \/ NotAvailable(p) \/ Answer(p) \/ RequestFails(p) \/ CheckStatus(p)
             \/ CheckLost(p) \/ PollFails(p) \/ PollAnswered(p) \/ SwitchMode(p)
             \/ \E v \in Views : Look(p, v)
             \/ \E m \in Models : ChooseModel(p, m)
      PROVE  WarmInv'
  <2>1. UNCHANGED <<engines, warm>>
    BY <1>9 DEF NotAvailable, Answer, RequestFails, CheckStatus, CheckLost, PollFails,
                PollAnswered, SwitchMode, Look, ChooseModel, Press, server
  <2> QED BY <1>1, <2>1
<1>10. CASE UNCHANGED vars
  BY <1>1, <1>10 DEF vars
<1> QED BY <1>2, <1>3, <1>4, <1>5, <1>6, <1>7, <1>8, <1>9, <1>10 DEF Next, Request

\* The warm-up is always woken: the renderer it waits for has somebody at work on
\* it, or was left in progress for good, whatever fails, is deleted, sent again
\* or falls out of the table.
THEOREM NobodyWaitsForNothing == Spec => []WarmUpIsWoken
<1>1. Init => WarmInv
  BY DEF Init, WarmInv
<1>2. MeshInv /\ WarmInv => WarmUpIsWoken
  <2> SUFFICES ASSUME MeshInv, WarmInv, warm.at = "waiting"
               PROVE engines[warm.engine].stage \in {"claimed", "computing", "saving", "stuck"}
    BY DEF WarmUpIsWoken
  <2>1. warm.engine \in DOMAIN engines /\ engines[warm.engine].stage # "idle"
    BY DEF WarmInv
  <2>2. engines[warm.engine] \in Renderers
    BY <2>1, BuiltIsGood
  <2> QED BY <2>1, <2>2 DEF Renderers
<1> QED BY <1>1, <1>2, InitMesh, StepKeepsMesh, StepKeepsWarm, PTL DEF Spec
=============================================================================
