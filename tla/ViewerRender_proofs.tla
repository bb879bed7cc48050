------------------------- MODULE ViewerRender_proofs -------------------------
(***************************************************************************)
(* Proofs about ViewerRender, for any number of pages, models and views    *)
(* and any bounds.                                                         *)
(***************************************************************************)
EXTENDS ViewerRender, TLAPS

\* The response cache has an entry, or None, for every key, and what it has is
\* of its key.  No type of a page is needed: what a page asks either has a key
\* of the cache, and then its centre is a number or None, or changes nothing.
CacheInv == DOMAIN responses = Keys /\ responses = [k \in Keys |-> responses[k]] /\ ResponseIsOfItsKey

\* A centre that a key may have is where a render that does not pan looks from.
LEMMA StaysPut ==
    ASSUME NEW a, KeyOf(a) \in Keys, Cacheable(a)
    PROVE  Answer(a) = [pic    |-> [model |-> KeyOf(a).model, view |-> KeyOf(a).view,
                                    at |-> Start(KeyOf(a).centre)],
                        centre |-> Start(KeyOf(a).centre)]
<1>1. a.centre \in Centres
  BY DEF KeyOf, Keys
<1>2. Start(a.centre) \in Int
  BY <1>1, ViewerAssumption DEF Start, Centres, Steps
<1>3. Step(a.move) = 0
  BY DEF Cacheable, Step
<1> QED BY <1>2, <1>3 DEF Answer, Render, KeyOf

\* An answered request keeps the invariant: only a render that does not pan is
\* stored, and under the key it was asked with.
LEMMA ServeKeeps ==
    ASSUME CacheInv, NEW p \in Pages, Serve(p)
    PROVE  CacheInv'
<1> DEFINE a == page[p].ask
           k == KeyOf(a)
<1>1. responses' = responses \/ responses' = ResponsesAfter(a)
  BY DEF Serve
<1>2. CASE responses' = responses
  BY <1>2 DEF CacheInv, ResponseIsOfItsKey
<1>3. CASE responses' = ResponsesAfter(a) /\ Cacheable(a)
  <2>1. responses' = [responses EXCEPT ![k] = AnswerTo(a)]
    BY <1>3 DEF ResponsesAfter
  <2>2. CASE k \notin Keys
    <3>1. responses' = responses
      BY <2>1, <2>2 DEF CacheInv
    <3> QED BY <1>2, <3>1
  <2>3. CASE k \in Keys
    <3>1. AnswerTo(a) = [pic |-> [model |-> k.model, view |-> k.view, at |-> Start(k.centre)],
                         centre |-> Start(k.centre)]
      <4>1. CASE responses[k] # None
        BY <4>1, <1>3, <2>3 DEF AnswerTo, Hit, CacheInv, ResponseIsOfItsKey
      <4>2. CASE responses[k] = None
        BY <4>2, <1>3, <2>3, StaysPut DEF AnswerTo, Hit
      <4> QED BY <4>1, <4>2
    <3>2. /\ DOMAIN responses' = Keys
          /\ responses' = [q \in Keys |-> responses'[q]]
      BY <2>1 DEF CacheInv
    <3>3. \A q \in Keys : responses'[q] = IF q = k THEN AnswerTo(a) ELSE responses[q]
      BY <2>1 DEF CacheInv
    <3>4. ResponseIsOfItsKey'
      BY <3>1, <3>3 DEF CacheInv, ResponseIsOfItsKey
    <3> QED BY <3>2, <3>4 DEF CacheInv
  <2> QED BY <2>2, <2>3
<1>4. ~Cacheable(a) => ResponsesAfter(a) = responses
  BY DEF ResponsesAfter
<1> QED BY <1>1, <1>2, <1>3, <1>4

\* Clearing the caches, or dropping an entry, only takes answers away.
LEMMA DropKeeps ==
    ASSUME CacheInv, (\E m \in Models : ModelsChange(m)) \/ (\E k \in Keys : Evict(k))
    PROVE  CacheInv'
<1>1. CASE \E m \in Models : ModelsChange(m)
  BY <1>1 DEF ModelsChange, Blank, CacheInv, ResponseIsOfItsKey
<1>2. ASSUME NEW k \in Keys, Evict(k) PROVE CacheInv'
  <2>1. responses' = responses \/ responses' = [responses EXCEPT ![k] = None]
    BY <1>2 DEF Evict
  <2>2. CASE responses' = responses
    BY <2>2 DEF CacheInv, ResponseIsOfItsKey
  <2>3. CASE responses' = [responses EXCEPT ![k] = None]
    BY <2>3 DEF CacheInv, ResponseIsOfItsKey
  <2> QED BY <2>1, <2>2, <2>3
<1> QED BY <1>1, <1>2

\* Every step keeps the invariant; the other actions leave the responses alone.
LEMMA StepKeepsCache == CacheInv /\ [Next]_vars => CacheInv'
<1> SUFFICES ASSUME CacheInv, [Next]_vars PROVE CacheInv'
  OBVIOUS
<1>1. ASSUME NEW p \in Pages, Serve(p) PROVE CacheInv'
  BY <1>1, ServeKeeps
<1>2. CASE (\E m \in Models : ModelsChange(m)) \/ (\E k \in Keys : Evict(k))
  BY <1>2, DropKeeps
<1>3. CASE UNCHANGED responses
  BY <1>3 DEF CacheInv, ResponseIsOfItsKey
<1>4. ASSUME NEW p \in Pages,
             \/ \E m \in Moves : Pan(p, m)
             \/ \E v \in Views : Turn(p, v)
             \/ \E m \in Models : ChooseModel(p, m) \/ LoadModel(p, m)
             \/ ResetView(p)
      PROVE  UNCHANGED responses
  BY <1>4 DEF Pan, Turn, ChooseModel, LoadModel, ResetView, Press, caches
<1>5. ASSUME NEW p \in Pages,
             \/ Deliver(p) \/ Fail(p) \/ PadFrame(p) \/ PadFails(p)
             \/ Poll(p) \/ PollList(p) \/ Heard(p)
      PROVE  UNCHANGED responses
  BY <1>5 DEF Deliver, Fail, PadFrame, PadFails, Poll, PollList, Heard, caches
<1>6. CASE GoDown \/ ComeBack \/ UNCHANGED vars
  BY <1>6, <1>3 DEF GoDown, ComeBack, vars, caches
<1> QED BY <1>1, <1>2, <1>3, <1>4, <1>5, <1>6 DEF Next, Callback

\* A cached response is what a render of its key gives, whatever the pages
\* press, lose and retry: the cache never shows one page what another asked for
\* under the same key with a pan (render_view's cacheable).
THEOREM ResponsesAreOfTheirKeys == Spec => []ResponseIsOfItsKey
<1>1. Init => CacheInv
  BY DEF Init, Blank, CacheInv, ResponseIsOfItsKey
<1>2. CacheInv => ResponseIsOfItsKey
  BY DEF CacheInv
<1> QED BY <1>1, <1>2, StepKeepsCache, PTL DEF Spec

-----------------------------------------------------------------------------
(* What a page asks, is answered and shows *)

Bounded(c, n) == -n <= c /\ c <= n
Size(m) == IF m \in {"left", "right"} THEN 1 ELSE 0
\* The pan steps still on their way into the page's centres
Carried(s) == Size(s.move) + (IF s.ask = None THEN 0 ELSE Size(s.ask.move))

\* There is a press for every step a centre is away from the middle, and for
\* every one on its way.
PanRoom(s) ==
    /\ \A v \in Views : Bounded(Start(s.centre[v]), s.pans - Carried(s))
    /\ s.ask # None => Bounded(Start(s.ask.centre), s.pans - Carried(s))
    /\ s.hex # None => Bounded(Start(s.hex.centre), s.pans - Size(s.hex.move))

\* An answer with a frame is of the request in flight, which owes the page a
\* picture; what was refused is noted when its request is over.
Answered(s) ==
    /\ s.answer # None => s.ask # None
    /\ s.answer # None /\ s.answer.pic # None =>
         s.answer.pic = Answer(s.ask).pic /\ s.answer.centre = Answer(s.ask).centre
    /\ s.ask # None => s.owed /\ s.aside # "refused"

\* lastShownModel is the model of the frame on the page.
Named(s) == s.last # None => s.shown # None /\ s.shown.model = s.last

\* What a page that waits for nothing shows
Right(s) ==
    /\ s.aside = None => s.shown = OnDisplay(s)
    /\ s.aside = "refused" => s.shown # None /\ s.shown.model = s.model

\* Unless there is more to send, or was something not sent: a request in flight
\* is of what the page is on, and a page that waits for nothing shows that.
Shows(s) ==
    /\ s.ask # None /\ ~s.pending /\ s.aside = None => s.ask.model = s.model /\ s.ask.view = s.view
    /\ Resting(s) => Right(s)

Sound(s) == s \in PageStates /\ PanRoom(s) /\ Answered(s) /\ Named(s)

\* A state that the display has not got is asked for.
OnItsWay(s) == s.owed => s.ask # None \/ GivenUp(s)

LEMMA Numbers ==
    /\ RetryLimit \in Nat /\ PollFailures \in Nat /\ MaxPresses \in Nat
    /\ MaxOutages \in Nat /\ MaxDrops \in Nat
    /\ Pads \subseteq Pages /\ FirstModel \in Models /\ FirstView \in Views
    /\ None \notin Int /\ None \notin Models /\ None # "skipped" /\ None # "refused"
BY ViewerAssumption

LEMMA StartType == ASSUME NEW c \in Centres PROVE Start(c) \in Int /\ Start(c) \in Steps
BY Numbers DEF Centres, Steps, Start

LEMMA SizeType ==
    ASSUME NEW m \in Moves
    PROVE  /\ Size(m) \in 0..1 /\ Step(m) \in Int
           /\ -Size(m) <= Step(m) /\ Step(m) <= Size(m)
           /\ m = "none" => Size(m) = 0 /\ Step(m) = 0
BY DEF Moves, Size, Step

\* A request within the presses made can be answered.
LEMMA AnswerType ==
    ASSUME NEW a \in Asks, NEW n \in 0..MaxPresses, Bounded(Start(a.centre), n - Size(a.move))
    PROVE  /\ Render(a) \in Pics /\ Answer(a) \in Answers
           /\ Answer(a).centre = Start(a.centre) + Step(a.move)
           /\ Answer(a).centre \in Int /\ Bounded(Answer(a).centre, n)
<1>1. /\ a.model \in Models /\ a.view \in Views /\ a.centre \in Centres /\ a.move \in Moves
  BY DEF Asks
<1>2. Start(a.centre) + Step(a.move) \in Steps /\ Bounded(Start(a.centre) + Step(a.move), n)
  BY <1>1, Numbers, StartType, SizeType DEF Bounded, Steps
<1>3. Render(a) \in Pics /\ Render(a).at = Start(a.centre) + Step(a.move)
  BY <1>1, <1>2 DEF Render, Pics
<1>4. Answer(a).centre = Render(a).at /\ Answer(a).pic = Render(a)
  BY DEF Answer
<1>5. Answer(a) \in Answers
  BY <1>2, <1>3 DEF Answer, Answers
<1> QED BY <1>2, <1>3, <1>4, <1>5, Numbers DEF Steps

\* sendStateToServer sends the state as it is, puts it off, or notes that it is
\* not sent.
LEMMA SentSound ==
    ASSUME NEW s, Sound(s) PROVE Sound(Sent(s)) /\ Shows(Sent(s)) /\ Sent(s).pans = s.pans
<1>t. /\ s \in PageStates /\ s.model \in Models /\ s.view \in Views
      /\ s.centre \in [Views -> Centres] /\ s.move \in Moves
      /\ s.ask \in Asks \cup {None} /\ s.pans \in 0..MaxPresses
  BY DEF Sound, PageStates
<1>1. CASE ~s.online
  <2> DEFINE r == [s EXCEPT !.aside = "skipped"]
  <2>1. Sent(s) = r
    BY <1>1 DEF Sent
  <2>2. r \in PageStates
    BY <1>t DEF PageStates
  <2>3. /\ r.aside = "skipped" /\ r.ask = s.ask /\ r.answer = s.answer /\ r.owed = s.owed
        /\ r.centre = s.centre /\ r.move = s.move /\ r.hex = s.hex /\ r.pans = s.pans
        /\ r.last = s.last /\ r.shown = s.shown
    BY <1>t DEF PageStates
  <2> HIDE DEF r
  <2>4. PanRoom(r) /\ Answered(r) /\ Named(r)
    BY <2>3 DEF Sound, PanRoom, Answered, Named, Carried
  <2>5. Shows(r)
    BY <2>3, Numbers DEF Shows, Right
  <2> QED BY <2>1, <2>2, <2>3, <2>4, <2>5 DEF Sound
<1>2. CASE s.online /\ s.ask # None
  <2> DEFINE r == [s EXCEPT !.pending = TRUE, !.owed = TRUE]
  <2>1. Sent(s) = r
    BY <1>2 DEF Sent
  <2>2. r \in PageStates
    BY <1>t DEF PageStates
  <2>3. /\ r.pending /\ r.owed /\ r.ask = s.ask /\ r.answer = s.answer
        /\ r.centre = s.centre /\ r.move = s.move /\ r.hex = s.hex /\ r.pans = s.pans
        /\ r.last = s.last /\ r.shown = s.shown /\ r.aside = s.aside
    BY <1>t DEF PageStates
  <2> HIDE DEF r
  <2>4. PanRoom(r) /\ Answered(r) /\ Named(r) /\ Shows(r)
    BY <1>2, <2>3 DEF Sound, PanRoom, Answered, Named, Shows, Carried, Resting
  <2> QED BY <2>1, <2>2, <2>3, <2>4 DEF Sound
<1>3. CASE s.online /\ s.ask = None
  <2> DEFINE a == Asking(s)
             r == [s EXCEPT !.ask = a, !.move = "none", !.owed = TRUE, !.aside = None]
  <2>1. Sent(s) = r
    BY <1>3 DEF Sent, MoveLeft
  <2>2. /\ a \in Asks /\ a.model = s.model /\ a.view = s.view /\ a.move = s.move
        /\ a.centre = s.centre[s.view]
    BY <1>t DEF Asking, Asks
  <2> HIDE DEF a
  <2>3. r \in PageStates
    BY <1>t, <2>2 DEF PageStates, Moves
  <2>4. /\ r.ask = a /\ r.move = "none" /\ r.owed /\ r.answer = s.answer
        /\ r.model = s.model /\ r.view = s.view
        /\ r.centre = s.centre /\ r.hex = s.hex /\ r.pans = s.pans
        /\ r.last = s.last /\ r.shown = s.shown /\ r.aside = None
    BY <1>t DEF PageStates
  <2> HIDE DEF r
  <2>5. Carried(r) = Carried(s) \/ a = None
    BY <1>t, <1>3, <2>2, <2>4, SizeType DEF Carried, Moves
  <2>6. PanRoom(r)
    <3>1. a = None => Carried(r) = 0 /\ Carried(s) = Size(s.move)
      BY <1>t, <1>3, <2>4, SizeType DEF Carried, Moves
    <3> QED BY <1>t, <2>2, <2>4, <2>5, <3>1, StartType, SizeType DEF Sound, PanRoom, Bounded
  <2>7. Answered(r) /\ Named(r)
    BY <1>3, <2>4, Numbers DEF Sound, Answered, Named
  <2>8. Shows(r)
    BY <2>2, <2>4 DEF Shows, Resting
  <2> QED BY <2>1, <2>3, <2>4, <2>6, <2>7, <2>8 DEF Sound
<1> QED BY <1>1, <1>2, <1>3, <1>t DEF PageStates

\* What a page is left with when its request is over
Over(s) == [s EXCEPT !.ask = None, !.answer = None, !.pending = FALSE]

LEMMA OverIs ==
    ASSUME NEW s \in PageStates
    PROVE  /\ Over(s) \in PageStates
           /\ Over(s).ask = None /\ Over(s).answer = None
           /\ Over(s).model = s.model /\ Over(s).view = s.view /\ Over(s).centre = s.centre
           /\ Over(s).move = s.move /\ Over(s).hex = s.hex /\ Over(s).pans = s.pans
           /\ Over(s).owed = s.owed /\ Over(s).aside = s.aside /\ Over(s).shown = s.shown
           /\ Over(s).last = s.last /\ Over(s).retries = s.retries
BY DEF PageStates, Over

\* The finally of the promise chain: what came up meanwhile is sent, a failed
\* request is tried again, or the page rests, on what it shows or with one owed.
LEMMA SettledSound ==
    ASSUME NEW s \in PageStates, NEW failed \in BOOLEAN,
           \A v \in Views : Bounded(Start(s.centre[v]), s.pans - Size(s.move)),
           s.hex # None => Bounded(Start(s.hex.centre), s.pans - Size(s.hex.move)),
           Named(s), s.pending \/ s.owed \/ Right(s)
    PROVE  /\ Sound(Settled(s, failed)) /\ Shows(Settled(s, failed))
           /\ Settled(s, failed).pans = s.pans
<1> DEFINE t == Over(s)
<1>0. s.move \in Moves /\ s.retries \in 0..RetryLimit /\ s.pans \in Nat
  BY DEF PageStates
<1>1. Settled(s, failed) = IF s.pending THEN Sent(t)
                           ELSE IF failed /\ t.retries > 0 THEN Sent([t EXCEPT !.retries = @ - 1])
                           ELSE t
  <2>1. t.retries = s.retries
    BY OverIs
  <2> QED BY <2>1 DEF Settled, Resend, Retry, Over
<1>2. /\ t \in PageStates /\ t.ask = None /\ t.answer = None
      /\ t.model = s.model /\ t.view = s.view /\ t.centre = s.centre
      /\ t.move = s.move /\ t.hex = s.hex /\ t.pans = s.pans
      /\ t.owed = s.owed /\ t.aside = s.aside /\ t.shown = s.shown
      /\ t.last = s.last /\ t.retries = s.retries
  BY OverIs
<1> HIDE DEF t
<1>3. PanRoom(t) /\ Carried(t) = Size(s.move)
  <2>1. Carried(t) = Size(s.move)
    BY <1>0, <1>2, SizeType DEF Carried
  <2> QED BY <1>2, <2>1 DEF PanRoom
<1>4. Sound(t)
  BY <1>2, <1>3 DEF Sound, Answered, Named
<1>5. CASE s.pending
  BY <1>1, <1>2, <1>4, <1>5, SentSound
<1>6. CASE ~s.pending /\ failed /\ t.retries > 0
  <2> DEFINE n == t.retries - 1
             r == [t EXCEPT !.retries = n]
  <2>1. n \in 0..RetryLimit
    BY <1>0, <1>2, <1>6, Numbers
  <2> HIDE DEF n
  <2>2. r \in PageStates
    BY <1>2, <2>1 DEF PageStates
  <2>3. /\ r.ask = t.ask /\ r.answer = t.answer /\ r.owed = t.owed /\ r.centre = t.centre
        /\ r.move = t.move /\ r.hex = t.hex /\ r.pans = t.pans
        /\ r.last = t.last /\ r.shown = t.shown /\ r.aside = t.aside
    BY <1>2 DEF PageStates
  <2>4. Settled(s, failed) = Sent(r)
    BY <1>1, <1>6 DEF n
  <2> HIDE DEF r
  <2>5. Sound(r)
    BY <1>4, <2>2, <2>3 DEF Sound, PanRoom, Answered, Named, Carried
  <2> QED BY <1>2, <2>3, <2>4, <2>5, SentSound
<1>7. CASE ~s.pending /\ ~(failed /\ t.retries > 0)
  <2>1. Settled(s, failed) = t
    BY <1>1, <1>7
  <2>2. OnDisplay(t) = OnDisplay(s)
    BY <1>2 DEF OnDisplay
  <2>3. Shows(t)
    BY <1>2, <1>7, <2>2 DEF Shows, Resting, Right
  <2> QED BY <1>2, <1>4, <2>1, <2>3
<1> QED BY <1>5, <1>6, <1>7

\* What is sent is asked for, put off behind a request in flight, or set aside.
LEMMA SentAsks ==
    ASSUME NEW s \in PageStates PROVE OnItsWay(Sent(s))
<1>1. CASE ~s.online
  <2>1. Sent(s).aside = "skipped"
    BY <1>1 DEF Sent, PageStates
  <2> QED BY <2>1 DEF OnItsWay, GivenUp
<1>2. CASE s.online /\ s.ask # None
  <2>1. Sent(s).ask = s.ask
    BY <1>2 DEF Sent, PageStates
  <2> QED BY <1>2, <2>1 DEF OnItsWay
<1>3. CASE s.online /\ s.ask = None
  <2>1. Asking(s) \in Asks
    BY DEF Asking, Asks, PageStates
  <2>2. Sent(s).ask = Asking(s)
    BY <1>3 DEF Sent, PageStates
  <2> QED BY <2>1, <2>2, NoneAssumption DEF OnItsWay
<1> QED BY <1>1, <1>2, <1>3

\* When a request is over, what is still owed is sent, unless no retry is left.
LEMMA SettledAsks ==
    ASSUME NEW s \in PageStates, NEW failed \in BOOLEAN, failed \/ s.pending \/ ~s.owed
    PROVE  OnItsWay(Settled(s, failed))
<1> DEFINE t == Over(s)
<1>1. t \in PageStates /\ t.owed = s.owed /\ t.retries = s.retries /\ t.retries \in 0..RetryLimit
  BY OverIs DEF PageStates
<1>2. Settled(s, failed) = IF s.pending THEN Sent(t)
                           ELSE IF failed /\ t.retries > 0 THEN Sent([t EXCEPT !.retries = @ - 1])
                           ELSE t
  BY <1>1 DEF Settled, Resend, Retry, Over
<1> HIDE DEF t
<1>3. CASE s.pending
  BY <1>1, <1>2, <1>3, SentAsks
<1>4. CASE ~s.pending /\ failed /\ t.retries > 0
  <2> DEFINE n == t.retries - 1
  <2>1. n \in 0..RetryLimit
    BY <1>1, <1>4, Numbers
  <2>2. Settled(s, failed) = Sent([t EXCEPT !.retries = n])
    BY <1>2, <1>4
  <2> HIDE DEF n
  <2>3. [t EXCEPT !.retries = n] \in PageStates
    BY <1>1, <2>1 DEF PageStates
  <2> QED BY <2>2, <2>3, SentAsks
<1>5. CASE ~s.pending /\ ~(failed /\ t.retries > 0)
  <2>1. Settled(s, failed) = t
    BY <1>2, <1>5
  <2>2. t.owed => t.retries = 0
    BY <1>1, <1>5, Numbers
  <2> QED BY <2>1, <2>2 DEF OnItsWay, GivenUp
<1> QED BY <1>3, <1>4, <1>5

\* updateModelList, when it takes the list: a model that has gone gives way.
Chosen(s, list) == [s EXCEPT !.list = list, !.model = ModelOf(s, list)]

LEMMA ChosenIs ==
    ASSUME NEW s \in PageStates, NEW list \in SUBSET Models
    PROVE  /\ Chosen(s, list) \in PageStates
           /\ Chosen(s, list).ask = s.ask /\ Chosen(s, list).answer = s.answer
           /\ Chosen(s, list).pending = s.pending /\ Chosen(s, list).owed = s.owed
           /\ Chosen(s, list).view = s.view /\ Chosen(s, list).centre = s.centre
           /\ Chosen(s, list).move = s.move /\ Chosen(s, list).online = s.online
           /\ Chosen(s, list).shown = s.shown /\ Chosen(s, list).last = s.last
           /\ Chosen(s, list).hex = s.hex /\ Chosen(s, list).pans = s.pans
           /\ Chosen(s, list).aside = s.aside /\ Chosen(s, list).retries = s.retries
<1>1. ModelOf(s, list) \in Models
  BY Numbers DEF ModelOf
<1> DEFINE m == ModelOf(s, list)
<1>2. Chosen(s, list) = [s EXCEPT !.list = list, !.model = m]
  BY DEF Chosen
<1> HIDE DEF m
<1> QED BY <1>1, <1>2 DEF PageStates, m

LEMMA ListedIs ==
    ASSUME NEW s \in PageStates, NEW list \in SUBSET Models
    PROVE  \/ Listed(s, list) = s
           \/ Listed(s, list) = Chosen(s, list) /\ Chosen(s, list).model = s.model
           \/ Listed(s, list) = Sent(Chosen(s, list))
BY DEF Listed, Chosen

LEMMA ListedSound ==
    ASSUME NEW s, Sound(s), Shows(s), NEW list \in SUBSET Models
    PROVE  /\ Sound(Listed(s, list)) /\ Shows(Listed(s, list))
           /\ Listed(s, list).pans = s.pans
<1> DEFINE t == Chosen(s, list)
<1>0. s \in PageStates
  BY DEF Sound
<1>1. /\ t \in PageStates /\ t.ask = s.ask /\ t.answer = s.answer /\ t.pending = s.pending
      /\ t.owed = s.owed /\ t.view = s.view /\ t.centre = s.centre /\ t.move = s.move
      /\ t.online = s.online /\ t.shown = s.shown /\ t.last = s.last /\ t.hex = s.hex
      /\ t.pans = s.pans /\ t.aside = s.aside
  BY <1>0, ChosenIs
<1>c. \/ Listed(s, list) = s
      \/ Listed(s, list) = t /\ t.model = s.model
      \/ Listed(s, list) = Sent(t)
  BY <1>0, ListedIs
<1> HIDE DEF t
<1>2. Sound(t)
  BY <1>1 DEF Sound, PanRoom, Answered, Named, Carried
<1>3. t.model = s.model => Shows(t)
  BY <1>1 DEF Shows, Resting, Right, OnDisplay
<1>4. Sound(Sent(t)) /\ Shows(Sent(t)) /\ Sent(t).pans = t.pans
  BY <1>2, SentSound
<1> QED BY <1>1, <1>c, <1>2, <1>3, <1>4

LEMMA ListedAsks ==
    ASSUME NEW s \in PageStates, OnItsWay(s), NEW list \in SUBSET Models
    PROVE  OnItsWay(Listed(s, list))
<1> DEFINE t == Chosen(s, list)
<1>1. /\ t \in PageStates /\ t.ask = s.ask /\ t.owed = s.owed
      /\ t.aside = s.aside /\ t.retries = s.retries
  BY ChosenIs
<1>2. Listed(s, list) \in {s, t, Sent(t)}
  BY ListedIs
<1> HIDE DEF t
<1>3. OnItsWay(t) /\ OnItsWay(Sent(t))
  BY <1>1, SentAsks DEF OnItsWay, GivenUp
<1> QED BY <1>2, <1>3

\* sendStateToServer while a request is in flight
PutOff(t) == [t EXCEPT !.pending = TRUE, !.owed = TRUE]

LEMMA PutOffIs ==
    ASSUME NEW t \in PageStates
    PROVE  /\ PutOff(t) \in PageStates
           /\ PutOff(t).ask = t.ask /\ PutOff(t).view = t.view /\ PutOff(t).centre = t.centre
           /\ PutOff(t).move = t.move /\ PutOff(t).shown = t.shown /\ PutOff(t).last = t.last
           /\ PutOff(t).hex = t.hex /\ PutOff(t).pans = t.pans /\ PutOff(t).aside = t.aside
           /\ PutOff(t).model = t.model /\ PutOff(t).pending = TRUE
BY DEF PageStates, PutOff

\* While a request is in flight, a change of model waits for it to be over.
LEMMA ListedInFlight ==
    ASSUME NEW s \in PageStates, s.ask # None, s.online, NEW list \in SUBSET Models
    PROVE  LET n == Listed(s, list)
           IN  /\ n \in PageStates /\ n.ask = s.ask /\ n.view = s.view /\ n.centre = s.centre
               /\ n.move = s.move /\ n.shown = s.shown /\ n.last = s.last /\ n.hex = s.hex
               /\ n.pans = s.pans /\ n.aside = s.aside /\ n.pending \in BOOLEAN
               /\ s.pending => n.pending
               /\ n.model = s.model \/ n.pending
<1> DEFINE t == Chosen(s, list)
           n == Listed(s, list)
           r == PutOff(t)
<1>1. /\ t \in PageStates /\ t.ask = s.ask /\ t.pending = s.pending
      /\ t.view = s.view /\ t.centre = s.centre /\ t.move = s.move
      /\ t.online = s.online /\ t.shown = s.shown /\ t.last = s.last /\ t.hex = s.hex
      /\ t.pans = s.pans /\ t.aside = s.aside
  BY ChosenIs
<1>2. n = s \/ (n = t /\ t.model = s.model) \/ n = Sent(t)
  BY ListedIs
<1> HIDE DEF t, n
<1>3. Sent(t) = r
  BY <1>1 DEF Sent, PutOff
<1>4. /\ r \in PageStates /\ r.ask = t.ask /\ r.view = t.view /\ r.centre = t.centre
      /\ r.move = t.move /\ r.shown = t.shown /\ r.last = t.last /\ r.hex = t.hex
      /\ r.pans = t.pans /\ r.aside = t.aside /\ r.pending = TRUE
  BY <1>1, PutOffIs
<1> HIDE DEF r
<1>5. s.pending \in BOOLEAN
  BY DEF PageStates
<1>6. CASE n = s
  BY <1>5, <1>6 DEF n
<1>7. CASE n = t /\ t.model = s.model
  BY <1>1, <1>5, <1>7 DEF n
<1>8. CASE n = r
  BY <1>1, <1>4, <1>8 DEF n
<1> QED BY <1>2, <1>3, <1>6, <1>7, <1>8

\* A frame: it is shown, and its centre kept for the view it is of.
LEMMA DrawnSound ==
    ASSUME NEW p \in Pages, NEW s, Sound(s), Shows(s), s.answer # None, s.answer.pic # None
    PROVE  /\ Sound(Delivered(p, s)) /\ Shows(Delivered(p, s))
           /\ Delivered(p, s).pans = s.pans /\ OnItsWay(Delivered(p, s))
<1> DEFINE a == s.ask
           answer == s.answer
           list == answer.list
           c == [s.centre EXCEPT ![a.view] = answer.centre]
           d == [s EXCEPT !.centre = c, !.shown = answer.pic, !.last = a.model,
                          !.online = TRUE, !.retries = RetryLimit]
           n == Listed(d, list)
           t == [n EXCEPT !.owed = n.pending]
           r == ToPad(p, t)
<1>t. /\ s \in PageStates /\ s.model \in Models /\ s.view \in Views
      /\ s.centre \in [Views -> Centres] /\ s.move \in Moves /\ s.pending \in BOOLEAN
      /\ s.ask \in Asks \cup {None} /\ s.pans \in 0..MaxPresses
      /\ s.hex \in Asks \cup {None} /\ answer \in Replies
  BY DEF Sound, PageStates
<1>1. a \in Asks /\ a.view \in Views /\ a.model \in Models /\ a.move \in Moves /\ a.centre \in Centres
  BY <1>t DEF Sound, Answered, Asks
<1>n. a # None /\ list \in SUBSET Models /\ s.aside # "refused"
  BY <1>t DEF Sound, Answered, Replies
<1>2. /\ answer.pic = Answer(a).pic /\ answer.centre = Answer(a).centre
      /\ Carried(s) = Size(s.move) + Size(a.move)
      /\ Bounded(Start(a.centre), s.pans - Carried(s))
  BY DEF Sound, Answered, Carried, PanRoom
<1>3. Size(s.move) \in 0..1 /\ Size(a.move) \in 0..1
  BY <1>t, <1>1, SizeType
<1>4. /\ answer.pic \in Pics /\ answer.centre \in Int /\ answer.centre \in Centres
      /\ Bounded(answer.centre, s.pans - Size(s.move))
      /\ Start(answer.centre) = answer.centre
  <2> DEFINE k == s.pans - Size(s.move)
  <2>1. Start(a.centre) \in Int
    BY <1>1, StartType
  <2>2. k \in 0..MaxPresses /\ Bounded(Start(a.centre), k - Size(a.move))
    BY <1>2, <1>3, <1>t, <2>1, Numbers DEF Bounded
  <2>3. Answer(a) \in Answers /\ Answer(a).centre \in Int /\ Bounded(Answer(a).centre, k)
    <3> HIDE DEF k
    <3> QED BY <1>1, <2>2, AnswerType
  <2>4. answer.centre \in Steps /\ answer.pic \in Pics
    BY <1>2, <2>3 DEF Answers
  <2> QED BY <1>2, <2>3, <2>4, Numbers DEF Centres, Start
<1>5. c \in [Views -> Centres]
  <2> HIDE DEF answer
  <2> QED BY <1>t, <1>1, <1>4
<1>6. Delivered(p, s) = Settled(r, FALSE)
  BY DEF Delivered, Drawn, Synced
<1> HIDE DEF c, answer, list
<1>7. /\ d \in PageStates
      /\ d.ask = a /\ d.centre = c /\ d.shown = answer.pic /\ d.last = a.model
      /\ d.pending = s.pending /\ d.model = s.model /\ d.view = s.view /\ d.move = s.move
      /\ d.hex = s.hex /\ d.pans = s.pans /\ d.aside = s.aside /\ d.online = TRUE
  <2>1. ASSUME NEW x \in PageStates
        PROVE  /\ [x EXCEPT !.centre = c] \in PageStates
               /\ [x EXCEPT !.shown = answer.pic] \in PageStates
    BY <1>4, <1>5 DEF PageStates
  <2>2. ASSUME NEW x \in PageStates
        PROVE  /\ [x EXCEPT !.online = TRUE] \in PageStates
               /\ [x EXCEPT !.last = a.model] \in PageStates
    BY <1>1 DEF PageStates
  <2>4. ASSUME NEW x \in PageStates, NEW k \in 0..RetryLimit
        PROVE  [x EXCEPT !.retries = k] \in PageStates
    BY DEF PageStates
  <2>5. RetryLimit \in 0..RetryLimit
    BY Numbers
  <2>3. [[[[[s EXCEPT !.centre = c] EXCEPT !.shown = answer.pic] EXCEPT !.last = a.model]
            EXCEPT !.online = TRUE] EXCEPT !.retries = RetryLimit] \in PageStates
    BY <1>t, <2>1, <2>2, <2>4, <2>5
  <2> QED BY <1>t, <2>3 DEF PageStates
<1> HIDE DEF d
<1>8. /\ n \in PageStates /\ n.ask = a /\ n.view = s.view /\ n.centre = c
      /\ n.move = s.move /\ n.shown = answer.pic /\ n.last = a.model /\ n.hex = s.hex
      /\ n.pans = s.pans /\ n.aside = s.aside /\ n.pending \in BOOLEAN
      /\ s.pending => n.pending
      /\ n.model = s.model \/ n.pending
  <2> HIDE DEF a
  <2> QED BY <1>n, <1>7, ListedInFlight
<1> HIDE DEF n
<1>9. /\ t \in PageStates /\ t.ask = a /\ t.view = s.view /\ t.centre = c
      /\ t.move = s.move /\ t.shown = answer.pic /\ t.last = a.model /\ t.hex = s.hex
      /\ t.pans = s.pans /\ t.aside = s.aside /\ t.pending = n.pending /\ t.owed = n.pending
      /\ t.model = n.model
  BY <1>8 DEF PageStates
<1> HIDE DEF t
<1>10. /\ r \in PageStates /\ r.view = s.view /\ r.centre = c
       /\ r.move = s.move /\ r.shown = answer.pic /\ r.last = a.model /\ r.hex \in {s.hex, a}
       /\ r.pans = s.pans /\ r.aside = s.aside /\ r.pending = n.pending /\ r.owed = n.pending
       /\ r.model = n.model
  <2>1. CASE r = t
    BY <1>9, <2>1
  <2>2. CASE r = [t EXCEPT !.hex = t.ask]
    BY <1>1, <1>9, <2>2 DEF PageStates
  <2> QED BY <2>1, <2>2 DEF ToPad
<1> HIDE DEF r
<1>11. \A v \in Views : Bounded(Start(r.centre[v]), r.pans - Size(r.move))
  <2> TAKE v \in Views
  <2>1. CASE v = a.view
    <3>1. r.centre[v] = answer.centre
      BY <1>t, <1>10, <2>1 DEF c
    <3> QED BY <1>4, <1>10, <3>1
  <2>2. CASE v # a.view
    <3>1. r.centre[v] = s.centre[v] /\ Start(s.centre[v]) \in Int
      BY <1>t, <1>10, <2>2, StartType DEF c
    <3>2. Bounded(Start(s.centre[v]), s.pans - Carried(s))
      BY DEF Sound, PanRoom
    <3> QED BY <1>t, <1>2, <1>3, <1>10, <3>1, <3>2 DEF Bounded
  <2> QED BY <2>1, <2>2
<1>12. r.hex # None => Bounded(Start(r.hex.centre), r.pans - Size(r.hex.move))
  <2>1. CASE r.hex = s.hex
    BY <1>10, <2>1 DEF Sound, PanRoom
  <2>2. CASE r.hex = a
    <3>1. Start(a.centre) \in Int
      BY <1>1, StartType
    <3> QED BY <1>t, <1>2, <1>3, <1>10, <2>2, <3>1 DEF Bounded
  <2> QED BY <1>10, <2>1, <2>2
<1>13. answer.pic = Render(a) /\ answer.centre = Render(a).at
  BY <1>2 DEF Answer
<1>14. Render(a) = [model |-> a.model, view |-> a.view, at |-> Render(a).at]
  BY DEF Render
<1>15. Named(r)
  <2>1. answer.pic # None /\ answer.pic.model = a.model
    BY <1>13, <1>14 DEF answer
  <2> QED BY <1>10, <2>1 DEF Named
<1>16. r.pending \/ r.owed \/ Right(r)
  <2> SUFFICES ASSUME ~n.pending, s.aside = None PROVE answer.pic = OnDisplay(r)
    BY <1>n, <1>10 DEF Right
  <2>1. a.model = s.model /\ a.view = s.view /\ n.model = s.model
    BY <1>n, <1>8 DEF Shows
  <2>2. r.centre[r.view] = answer.centre
    BY <1>t, <1>10, <2>1 DEF c
  <2> QED BY <1>4, <1>10, <1>13, <1>14, <2>1, <2>2 DEF OnDisplay
<1>17. OnItsWay(Settled(r, FALSE))
  BY <1>10, SettledAsks
<1> QED BY <1>6, <1>10, <1>11, <1>12, <1>15, <1>16, <1>17, SettledSound

\* A refusal: the page goes back to the model of its frame, or, when it has none,
\* asks for the default.
LEMMA RefusedSound ==
    ASSUME NEW p \in Pages, NEW s, Sound(s), Shows(s), s.answer # None, s.answer.pic = None
    PROVE  /\ Sound(Delivered(p, s)) /\ Shows(Delivered(p, s))
           /\ Delivered(p, s).pans = s.pans /\ OnItsWay(Delivered(p, s))
<1> DEFINE a == s.ask
           m == IF s.model = a.model THEN BackTo(s) ELSE s.model
           why == IF s.aside = "skipped" THEN s.aside ELSE "refused"
           t == [s EXCEPT !.model = m, !.online = TRUE, !.aside = why]
           z == IF s.last = None THEN Sent(t) ELSE t
           r == [z EXCEPT !.owed = z.pending]
<1>t. /\ s \in PageStates /\ s.model \in Models /\ s.last \in Models \cup {None}
      /\ s.centre \in [Views -> Centres] /\ s.move \in Moves /\ s.pending \in BOOLEAN
      /\ s.ask \in Asks \cup {None} /\ s.pans \in 0..MaxPresses
      /\ s.aside \in {"skipped", "refused", None}
  BY DEF Sound, PageStates
<1>1. a # None /\ a \in Asks /\ a.move \in Moves /\ s.aside # "refused"
  BY <1>t DEF Sound, Answered, Asks
<1>2. m \in Models /\ why \in {"skipped", "refused"} /\ (why = "refused" => s.aside = None)
  BY <1>t, <1>1, Numbers DEF BackTo
<1>3. Delivered(p, s) = Settled(r, FALSE)
  BY DEF Delivered, Refused
<1>m. s.model = a.model /\ s.last # None => m = s.last
  BY DEF BackTo
<1> HIDE DEF m, why
<1>4. /\ t \in PageStates /\ t.ask = a /\ t.online /\ t.model = m /\ t.aside = why
      /\ t.pending = s.pending /\ t.centre = s.centre /\ t.move = s.move
      /\ t.hex = s.hex /\ t.pans = s.pans /\ t.shown = s.shown /\ t.last = s.last
  <2>1. ASSUME NEW x \in PageStates
        PROVE  [x EXCEPT !.model = m] \in PageStates
    BY <1>2 DEF PageStates
  <2>2. ASSUME NEW x \in PageStates
        PROVE  [x EXCEPT !.online = TRUE] \in PageStates
    BY DEF PageStates
  <2>3. ASSUME NEW x \in PageStates
        PROVE  [x EXCEPT !.aside = why] \in PageStates
    BY <1>2 DEF PageStates
  <2>4. t = [[[s EXCEPT !.model = m] EXCEPT !.online = TRUE] EXCEPT !.aside = why]
    BY <1>t DEF PageStates
  <2>5. t \in PageStates
    <3> HIDE DEF t
    <3> QED BY <1>t, <2>1, <2>2, <2>3, <2>4
  <2> QED BY <1>t, <2>5 DEF PageStates
<1> HIDE DEF t
<1>5. /\ z \in PageStates /\ z.model = m /\ z.aside = why
      /\ z.centre = s.centre /\ z.move = s.move
      /\ z.hex = s.hex /\ z.pans = s.pans /\ z.shown = s.shown /\ z.last = s.last
      /\ z.pending \in BOOLEAN
      /\ s.pending => z.pending
      /\ z.pending \/ s.last # None
  <2>1. CASE s.last # None
    <3>1. z = t
      BY <2>1
    <3> HIDE DEF z, a
    <3> QED BY <1>t, <1>4, <2>1, <3>1
  <2>2. CASE s.last = None
    <3>1. z = [t EXCEPT !.pending = TRUE, !.owed = TRUE]
      BY <1>1, <1>4, <2>2 DEF Sent
    <3> HIDE DEF z, a
    <3>2. /\ z \in PageStates /\ z.model = t.model /\ z.aside = t.aside
          /\ z.centre = t.centre /\ z.move = t.move /\ z.hex = t.hex /\ z.pans = t.pans
          /\ z.shown = t.shown /\ z.last = t.last /\ z.pending = TRUE
      BY <1>4, <3>1, PutOffIs DEF PutOff
    <3> QED BY <1>4, <3>2
  <2> QED BY <2>1, <2>2
<1> HIDE DEF z
<1>6. /\ r \in PageStates /\ r.model = m /\ r.aside = why
      /\ r.centre = s.centre /\ r.move = s.move
      /\ r.hex = s.hex /\ r.pans = s.pans /\ r.shown = s.shown /\ r.last = s.last
      /\ r.pending = z.pending /\ r.owed = z.pending
  BY <1>5 DEF PageStates
<1> HIDE DEF r
<1>7. Size(s.move) \in 0..1 /\ Size(a.move) \in 0..1 /\ Carried(s) = Size(s.move) + Size(a.move)
  BY <1>t, <1>1, SizeType DEF Carried
<1>8. \A v \in Views : Bounded(Start(r.centre[v]), r.pans - Size(r.move))
  <2> TAKE v \in Views
  <2>1. Start(s.centre[v]) \in Int
    BY <1>t, StartType
  <2>2. Bounded(Start(s.centre[v]), s.pans - Carried(s))
    BY DEF Sound, PanRoom
  <2> QED BY <1>t, <1>6, <1>7, <2>1, <2>2 DEF Bounded
<1>9. r.hex # None => Bounded(Start(r.hex.centre), r.pans - Size(r.hex.move))
  BY <1>6 DEF Sound, PanRoom
<1>10. Named(r)
  BY <1>6 DEF Sound, Named
<1>11. r.pending \/ r.owed \/ Right(r)
  <2> SUFFICES ASSUME ~z.pending PROVE Right(r)
    BY <1>6
  <2>1. CASE why = "skipped"
    BY <1>6, <2>1, Numbers DEF Right
  <2>2. CASE why = "refused"
    <3>0. ~s.pending /\ s.aside = None
      BY <1>t, <1>2, <1>5, <2>2
    <3>1. a.model = s.model
      BY <1>1, <3>0 DEF Shows
    <3>2. m = s.last /\ s.last # None
      BY <1>m, <1>5, <3>1
    <3>3. s.shown # None /\ s.shown.model = s.last
      BY <3>2 DEF Sound, Named
    <3> QED BY <1>6, <2>2, <3>2, <3>3, Numbers DEF Right
  <2> QED BY <1>2, <2>1, <2>2
<1>12. OnItsWay(Settled(r, FALSE))
  BY <1>6, SettledAsks
<1> QED BY <1>3, <1>6, <1>8, <1>9, <1>10, <1>11, <1>12, SettledSound

LEMMA DeliveredSound ==
    ASSUME NEW p \in Pages, NEW s, Sound(s), Shows(s), s.answer # None
    PROVE  /\ Sound(Delivered(p, s)) /\ Shows(Delivered(p, s))
           /\ Delivered(p, s).pans = s.pans /\ OnItsWay(Delivered(p, s))
BY DrawnSound, RefusedSound

-----------------------------------------------------------------------------
(* Every step *)

PagesInv ==
    /\ TypeOK /\ CacheInv
    /\ \A p \in Pages : Sound(page[p]) /\ Shows(page[p]) /\ page[p].pans <= presses

LEMMA InitPagesInv == Init => PagesInv
<1> SUFFICES ASSUME Init PROVE PagesInv
  OBVIOUS
<1>1. CacheInv
  BY DEF Init, Blank, CacheInv, ResponseIsOfItsKey
<1>2. ASSUME NEW m \in Models, NEW c \in BOOLEAN
      PROVE  Sound(Opened(m, c)) /\ Shows(Opened(m, c)) /\ Opened(m, c).pans = 0
  <2> DEFINE s == Opened(m, c)
  <2>1. s \in PageStates
    <3>1. [model |-> m, view |-> FirstView, centre |-> None, move |-> "none"] \in Asks
      BY Numbers DEF Asks, Centres, Moves
    <3>2. RetryLimit \in 0..RetryLimit /\ 0 \in 0..PollFailures /\ 0 \in 0..MaxPresses
      BY Numbers
    <3>3. [v \in Views |-> None] \in [Views -> Centres]
      BY DEF Centres
    <3> QED BY <3>1, <3>2, <3>3, Numbers DEF Opened, PageStates, Moves
  <2>2. PanRoom(s)
    BY DEF Opened, PanRoom, Carried, Size, Bounded, Start
  <2>3. Answered(s) /\ Named(s) /\ Shows(s)
    BY Numbers DEF Opened, Answered, Named, Shows, Resting
  <2> QED BY <2>1, <2>2, <2>3 DEF Sound, Opened
<1>3. \A p \in Pages : Sound(page[p]) /\ Shows(page[p]) /\ page[p].pans = 0
  BY <1>2 DEF Init
<1>4. page \in [Pages -> PageStates]
  BY <1>2 DEF Init, Sound
<1>5. TypeOK
  BY <1>4, Numbers DEF Init, TypeOK, Blank
<1> QED BY <1>1, <1>3, <1>5 DEF Init, PagesInv

\* What the cache has is what a picture of its key can be.
LEMMA CacheType ==
    ASSUME CacheInv PROVE responses \in [Keys -> Answers \cup {None}]
<1>1. ASSUME NEW k \in Keys, responses[k] # None PROVE responses[k] \in Answers
  <2>1. responses[k] = [pic |-> [model |-> k.model, view |-> k.view, at |-> Start(k.centre)],
                        centre |-> Start(k.centre)]
    BY <1>1 DEF CacheInv, ResponseIsOfItsKey
  <2>2. k.model \in Models /\ k.view \in Views /\ Start(k.centre) \in Steps
    BY StartType DEF Keys
  <2> QED BY <2>1, <2>2 DEF Answers, Pics
<1> QED BY <1>1 DEF CacheInv

\* A step of one page
LEMMA OnePage ==
    ASSUME PagesInv, CacheInv', NEW p \in Pages, NEW r, page' = [page EXCEPT ![p] = r],
           Sound(r), Shows(r), r.pans <= presses',
           presses' \in 0..MaxPresses, presses <= presses',
           payloads' \in [Keys -> Pics \cup {None}], UNCHANGED <<there, up, outages, drops>>
    PROVE  PagesInv'
<1>1. page \in [Pages -> PageStates]
  BY DEF PagesInv, TypeOK
<1>2. page' \in [Pages -> PageStates]
  BY <1>1 DEF Sound
<1>3. responses' \in [Keys -> Answers \cup {None}]
  <2>1. ASSUME NEW k \in Keys, responses'[k] # None PROVE responses'[k] \in Answers
    <3>1. responses'[k] = [pic |-> [model |-> k.model, view |-> k.view, at |-> Start(k.centre)],
                           centre |-> Start(k.centre)]
      BY <2>1 DEF CacheInv, ResponseIsOfItsKey
    <3>2. k.model \in Models /\ k.view \in Views /\ Start(k.centre) \in Steps
      BY StartType DEF Keys
    <3> QED BY <3>1, <3>2 DEF Answers, Pics
  <2> QED BY <2>1 DEF CacheInv
<1>4. TypeOK'
  BY <1>2, <1>3 DEF PagesInv, TypeOK
<1>5. ASSUME NEW q \in Pages PROVE Sound(page'[q]) /\ Shows(page'[q]) /\ page'[q].pans <= presses'
  <2>1. CASE q = p
    BY <1>1, <2>1
  <2>2. CASE q # p
    <3>1. page'[q] = page[q] /\ page[q] \in PageStates
      BY <1>1, <2>2
    <3>2. page[q].pans \in Nat /\ presses \in Nat /\ presses' \in Nat
      BY <3>1 DEF PageStates, PagesInv, TypeOK
    <3> QED BY <3>1, <3>2 DEF PagesInv
  <2> QED BY <2>1, <2>2
<1> QED BY <1>4, <1>5 DEF PagesInv

\* A change to a page that leaves alone what it asks, is answered and shows
LEMMA SameShow ==
    ASSUME NEW s, NEW r \in PageStates, Sound(s), Shows(s),
           r.ask = s.ask, r.answer = s.answer, r.pending = s.pending, r.owed = s.owed,
           r.aside = s.aside, r.last = s.last, r.shown = s.shown, r.model = s.model,
           r.view = s.view, r.centre = s.centre, r.move = s.move, r.pans = s.pans,
           r.hex \in {s.hex, None}
    PROVE  Sound(r) /\ Shows(r)
<1>1. PanRoom(r)
  BY DEF Sound, PanRoom, Carried
<1>2. Answered(r) /\ Shows(r)
  BY DEF Sound, Answered, Shows, Resting, Right, OnDisplay
<1> QED BY <1>1, <1>2 DEF Sound, Named

\* The poll changes what the page knows of the server.
LEMMA PolledIs ==
    ASSUME NEW s \in PageStates
    PROVE  /\ Polled(s) \in PageStates
           /\ Polled(s).hex = s.hex /\ Polled(s).answer = s.answer /\ Polled(s).ask = s.ask
           /\ Polled(s).pending = s.pending /\ Polled(s).owed = s.owed /\ Polled(s).aside = s.aside
           /\ Polled(s).last = s.last /\ Polled(s).shown = s.shown /\ Polled(s).model = s.model
           /\ Polled(s).view = s.view /\ Polled(s).centre = s.centre /\ Polled(s).move = s.move
           /\ Polled(s).pans = s.pans /\ Polled(s).retries = s.retries
<1>1. PICK misses \in 0..PollFailures, online \in BOOLEAN :
        Polled(s) = [s EXCEPT !.misses = misses, !.online = online]
  <2>1. 0 \in 0..PollFailures /\ s.misses \in 0..PollFailures /\ s.online \in BOOLEAN
    BY Numbers DEF PageStates
  <2>2. CASE up
    BY <2>1, <2>2 DEF Polled
  <2>3. CASE ~up
    <3> DEFINE misses == IF s.misses < PollFailures THEN s.misses + 1 ELSE s.misses
               online == s.online /\ s.misses + 1 < PollFailures
    <3>1. Polled(s) = [s EXCEPT !.misses = misses, !.online = online]
      BY <2>3 DEF Polled
    <3>2. misses \in 0..PollFailures /\ online \in BOOLEAN
      BY <2>1, Numbers
    <3> HIDE DEF misses, online
    <3> QED BY <3>1, <3>2
  <2> QED BY <2>2, <2>3
<1> QED BY <1>1 DEF PageStates

\* A press is sent, as far as sendStateToServer sends it.
LEMMA PressKeeps ==
    ASSUME PagesInv, CacheInv', NEW p \in Pages, NEW s, Press(p, s), Sound(s),
           s.pans <= presses + 1
    PROVE  PagesInv'
<1>1. /\ page' = [page EXCEPT ![p] = Sent(s)] /\ presses < MaxPresses /\ presses' = presses + 1
      /\ UNCHANGED <<payloads, there, up, outages, drops>>
  BY DEF Press, caches
<1>2. Sound(Sent(s)) /\ Shows(Sent(s)) /\ Sent(s).pans <= presses'
  BY <1>1, SentSound
<1>3. /\ presses' \in 0..MaxPresses /\ presses <= presses'
      /\ payloads' \in [Keys -> Pics \cup {None}]
  BY <1>1, Numbers DEF PagesInv, TypeOK
<1> QED BY <1>1, <1>2, <1>3, OnePage

LEMMA KeysKeep ==
    ASSUME PagesInv, CacheInv', NEW p \in Pages,
           \/ \E m \in Moves : Pan(p, m)
           \/ \E v \in Views : Turn(p, v)
           \/ \E m \in Models : ChooseModel(p, m) \/ LoadModel(p, m)
           \/ ResetView(p)
    PROVE  PagesInv'
<1> DEFINE s == page[p]
<1>t. /\ Sound(s) /\ s \in PageStates /\ s.pans <= presses /\ presses \in 0..MaxPresses
      /\ s.centre \in [Views -> Centres] /\ s.move \in Moves /\ s.pans \in 0..MaxPresses
      /\ s.ask \in Asks \cup {None}
  BY DEF PagesInv, TypeOK, PageStates
<1>p. PanRoom(s) /\ Answered(s) /\ Named(s)
  BY <1>t DEF Sound
<1>z. /\ Size(s.move) \in 0..1 /\ Carried(s) \in Int /\ Carried(s) >= Size(s.move)
      /\ Bounded(0, s.pans - Carried(s))
  <2>1. Size(s.move) \in 0..1 /\ (s.ask # None => Size(s.ask.move) \in 0..1)
    BY <1>t, SizeType DEF Asks
  <2>2. Carried(s) \in Int /\ Carried(s) >= Size(s.move)
    BY <2>1 DEF Carried
  <2>3. Start(s.centre[FirstView]) \in Int /\ Bounded(Start(s.centre[FirstView]), s.pans - Carried(s))
    BY <1>t, <1>p, StartType, Numbers DEF PanRoom
  <2> QED BY <1>t, <2>1, <2>2, <2>3 DEF Bounded
<1> HIDE DEF s
<1>m. Middle \in [Views -> Centres] /\ \A v \in Views : Start(Middle[v]) = 0
  BY DEF Middle, Centres, Start
<1>1. ASSUME NEW m \in Moves, Pan(p, m) PROVE PagesInv'
  <2> DEFINE n == s.pans + 1
             r == [s EXCEPT !.move = m, !.pans = n]
  <2>1. Press(p, r) /\ m \in {"left", "right"} /\ presses < MaxPresses
    BY <1>1 DEF Pan, Press, s
  <2>0. Size(m) = 1
    BY <2>1 DEF Size
  <2>2. n \in 0..MaxPresses /\ Size(m) = 1
    BY <1>t, <2>0, <2>1, Numbers
  <2> HIDE DEF n
  <2>3. r \in PageStates
    BY <1>t, <2>2 DEF PageStates
  <2>4. /\ r.move = m /\ r.pans = n /\ r.ask = s.ask /\ r.answer = s.answer /\ r.owed = s.owed
        /\ r.centre = s.centre /\ r.hex = s.hex
        /\ r.last = s.last /\ r.shown = s.shown /\ r.aside = s.aside
    BY <1>t DEF PageStates
  <2> HIDE DEF r
  <2>5. PanRoom(r)
    <3>1. Carried(r) \in Int /\ Carried(r) <= Carried(s) + 1
      <4>1. s.ask # None => Size(s.ask.move) \in 0..1
        BY <1>t, SizeType DEF Asks
      <4> QED BY <1>z, <2>2, <2>4, <4>1 DEF Carried
    <3>2. ASSUME NEW x \in Int, Bounded(x, s.pans - Carried(s))
          PROVE  Bounded(x, r.pans - Carried(r))
      BY <1>t, <1>z, <2>4, <3>1, <3>2 DEF Bounded, n
    <3>3. \A v \in Views : Bounded(Start(r.centre[v]), r.pans - Carried(r))
      BY <1>t, <1>p, <2>4, <3>2, StartType DEF PanRoom
    <3>4. r.ask # None => Bounded(Start(r.ask.centre), r.pans - Carried(r))
      BY <1>t, <1>p, <2>4, <3>2, StartType DEF PanRoom, Asks
    <3>5. r.hex # None => Bounded(Start(r.hex.centre), r.pans - Size(r.hex.move))
      <4> SUFFICES ASSUME s.hex # None
                   PROVE  Bounded(Start(s.hex.centre), n - Size(s.hex.move))
        BY <2>4
      <4>1. s.hex.centre \in Centres /\ s.hex.move \in Moves
        BY <1>t DEF PageStates, Asks
      <4>2. Bounded(Start(s.hex.centre), s.pans - Size(s.hex.move))
        BY <1>p DEF PanRoom
      <4> QED BY <1>t, <4>1, <4>2, StartType, SizeType DEF Bounded, n
    <3> QED BY <3>3, <3>4, <3>5 DEF PanRoom
  <2>6. Sound(r) /\ r.pans <= presses + 1
    BY <1>t, <1>p, <2>3, <2>4, <2>5 DEF Sound, Answered, Named, n
  <2> QED BY <2>1, <2>6, PressKeeps
<1>2. ASSUME NEW v \in Views, Turn(p, v) PROVE PagesInv'
  <2> DEFINE r == [s EXCEPT !.view = v]
  <2>1. Press(p, r)
    BY <1>2 DEF Turn, s
  <2>2. r \in PageStates
    BY <1>t DEF PageStates
  <2>3. /\ r.move = s.move /\ r.pans = s.pans /\ r.ask = s.ask /\ r.answer = s.answer
        /\ r.owed = s.owed /\ r.centre = s.centre /\ r.hex = s.hex
        /\ r.last = s.last /\ r.shown = s.shown /\ r.aside = s.aside
    BY <1>t DEF PageStates
  <2> HIDE DEF r
  <2>4. Sound(r) /\ r.pans <= presses + 1
    BY <1>t, <1>p, <2>2, <2>3 DEF Sound, PanRoom, Answered, Named, Carried
  <2> QED BY <2>1, <2>4, PressKeeps
\* Both forget every centre: what was pressed before is spent.
<1>3. ASSUME NEW r \in PageStates, Press(p, r), r.centre = Middle, r.pans = s.pans,
             r.move \in {s.move, "reset"}, r.ask = s.ask, r.answer = s.answer,
             r.owed = s.owed, r.hex = s.hex, r.last = s.last, r.shown = s.shown,
             r.aside = s.aside
      PROVE  PagesInv'
  <2>1. Carried(r) \in Int /\ Carried(r) <= Carried(s)
    <3>1. s.ask # None => Size(s.ask.move) \in 0..1
      BY <1>t, SizeType DEF Asks
    <3>2. Size("reset") = 0
      BY DEF Size
    <3> QED BY <1>z, <1>3, <3>1, <3>2 DEF Carried
  <2>2. ASSUME NEW x \in Int, Bounded(x, s.pans - Carried(s))
        PROVE  Bounded(x, r.pans - Carried(r))
    BY <1>t, <1>z, <1>3, <2>1, <2>2 DEF Bounded
  <2>3. \A v \in Views : Bounded(Start(r.centre[v]), r.pans - Carried(r))
    BY <1>m, <1>z, <1>3, <2>2
  <2>4. r.ask # None => Bounded(Start(r.ask.centre), r.pans - Carried(r))
    BY <1>t, <1>p, <1>3, <2>2, StartType DEF PanRoom, Asks
  <2>5. Sound(r) /\ r.pans <= presses + 1
    BY <1>t, <1>p, <1>3, <2>3, <2>4 DEF Sound, PanRoom, Answered, Named
  <2> QED BY <1>3, <2>5, PressKeeps
<1>6. ASSUME NEW m \in Models, LoadModel(p, m) PROVE PagesInv'
  <2> DEFINE r == [s EXCEPT !.model = m, !.centre = Middle, !.view = FirstView, !.move = "reset"]
  <2>1. Press(p, r)
    BY <1>6 DEF LoadModel, s
  <2>2. r \in PageStates
    <3> HIDE DEF Middle
    <3> QED BY <1>t, <1>m, Numbers DEF PageStates, Moves
  <2>3. /\ r.centre = Middle /\ r.pans = s.pans /\ r.move = "reset" /\ r.ask = s.ask
        /\ r.answer = s.answer /\ r.owed = s.owed /\ r.hex = s.hex
        /\ r.last = s.last /\ r.shown = s.shown /\ r.aside = s.aside
    BY <1>t DEF PageStates
  <2> HIDE DEF r
  <2> QED BY <1>3, <2>1, <2>2, <2>3
<1>4. ASSUME NEW m \in Models, ChooseModel(p, m) PROVE PagesInv'
  <2> DEFINE r == [s EXCEPT !.model = m, !.centre = Middle, !.view = FirstView]
  <2>1. Press(p, r)
    BY <1>4 DEF ChooseModel, s
  <2>2. r \in PageStates
    <3> HIDE DEF Middle
    <3> QED BY <1>t, <1>m, Numbers DEF PageStates
  <2>3. /\ r.centre = Middle /\ r.pans = s.pans /\ r.move = s.move /\ r.ask = s.ask
        /\ r.answer = s.answer /\ r.owed = s.owed /\ r.hex = s.hex
        /\ r.last = s.last /\ r.shown = s.shown /\ r.aside = s.aside
    BY <1>t DEF PageStates
  <2> HIDE DEF r
  <2> QED BY <1>3, <2>1, <2>2, <2>3
<1>5. CASE ResetView(p)
  <2> DEFINE r == [s EXCEPT !.centre = Middle, !.view = FirstView, !.move = "reset"]
  <2>1. Press(p, r)
    BY <1>5 DEF ResetView, s
  <2>2. r \in PageStates
    <3> HIDE DEF Middle
    <3> QED BY <1>t, <1>m, Numbers DEF PageStates, Moves
  <2>3. /\ r.centre = Middle /\ r.pans = s.pans /\ r.move = "reset" /\ r.ask = s.ask
        /\ r.answer = s.answer /\ r.owed = s.owed /\ r.hex = s.hex
        /\ r.last = s.last /\ r.shown = s.shown /\ r.aside = s.aside
    BY <1>t DEF PageStates
  <2> HIDE DEF r
  <2> QED BY <1>3, <2>1, <2>2, <2>3
<1> QED BY <1>1, <1>2, <1>4, <1>5, <1>6

\* Requests, answers and polls
LEMMA CallbacksKeep ==
    ASSUME PagesInv, CacheInv', NEW p \in Pages, Callback(p) \/ Poll(p) \/ PollList(p) \/ Heard(p)
    PROVE  PagesInv'
<1> DEFINE s == page[p]
<1>t. /\ Sound(s) /\ Shows(s) /\ s \in PageStates /\ s.pans <= presses /\ presses \in 0..MaxPresses
      /\ s.pans \in 0..MaxPresses /\ s.ask \in Asks \cup {None} /\ s.hex \in Asks \cup {None}
      /\ s.move \in Moves /\ s.misses \in 0..PollFailures
      /\ page \in [Pages -> PageStates] /\ payloads \in [Keys -> Pics \cup {None}]
      /\ there \in SUBSET Models
  BY DEF PagesInv, TypeOK, PageStates
<1>p. PanRoom(s) /\ Answered(s) /\ Named(s)
  BY <1>t DEF Sound
<1>o. ASSUME NEW r, page' = [page EXCEPT ![p] = r], Sound(r), Shows(r), r.pans = s.pans,
             payloads' \in [Keys -> Pics \cup {None}], UNCHANGED world
      PROVE  PagesInv'
  <2>1. presses' = presses /\ UNCHANGED <<there, up, outages, drops>>
    BY <1>o DEF world
  <2>2. presses' \in 0..MaxPresses /\ presses <= presses' /\ r.pans <= presses'
    BY <1>t, <1>o, <2>1, Numbers
  <2> QED BY <1>o, <2>1, <2>2, OnePage
\* A request of a page, to be rendered
<1>a. ASSUME NEW a, a # None, a = s.ask \/ a = s.hex
      PROVE  Answer(a) \in Answers /\ Render(a) \in Pics /\ KeyOf(a) \in Keys /\ a \in Asks
  <2>0. a \in Asks
    BY <1>t, <1>a
  <2>1. /\ Start(a.centre) \in Int /\ Size(a.move) \in 0..1 /\ Size(s.move) \in 0..1
        /\ KeyOf(a) \in Keys
    BY <1>t, <2>0, StartType, SizeType DEF Asks, KeyOf, Keys
  <2>2. Bounded(Start(a.centre), s.pans - Size(a.move))
    <3> HIDE DEF s
    <3>1. CASE a = s.ask
      <4>1. Bounded(Start(a.centre), s.pans - (Size(s.move) + Size(a.move)))
        BY <1>a, <1>p, <3>1 DEF PanRoom, Carried
      <4> QED BY <1>t, <2>1, <4>1 DEF Bounded
    <3>2. CASE a = s.hex
      BY <1>a, <1>p, <3>2 DEF PanRoom
    <3> QED BY <1>a, <3>1, <3>2
  <2>3. s.pans \in 0..MaxPresses
    BY <1>t
  <2> HIDE DEF s
  <2> QED BY <2>0, <2>1, <2>2, <2>3, AnswerType
<1>1. CASE Serve(p)
  <2> DEFINE a == s.ask
             reply == Reply(a)
             r == [s EXCEPT !.answer = reply]
  <2>1. /\ a # None /\ page' = [page EXCEPT ![p] = r] /\ UNCHANGED world
        /\ payloads' \in {payloads, PayloadsAfter(a)}
    BY <1>1, <1>t DEF Serve
  <2>2. Answer(a) \in Answers /\ Render(a) \in Pics /\ KeyOf(a) \in Keys /\ a \in Asks
    BY <1>a, <2>1
  <2>3. AnswerTo(a) = Answer(a)
    <3>1. CASE Hit(a)
      <4>1. responses[KeyOf(a)] = Answer(a)
        <5> HIDE DEF s, a
        <5>1. /\ Answer(a) = [pic |-> [model |-> KeyOf(a).model, view |-> KeyOf(a).view,
                                       at |-> Start(KeyOf(a).centre)],
                              centre |-> Start(KeyOf(a).centre)]
          BY <2>2, <3>1, StaysPut DEF Hit
        <5> QED BY <2>2, <3>1, <5>1 DEF Hit, PagesInv, CacheInv, ResponseIsOfItsKey
      <4> QED BY <3>1, <4>1 DEF AnswerTo
    <3>2. CASE ~Hit(a)
      BY <3>2 DEF AnswerTo
    <3> QED BY <3>1, <3>2
  <2>4. payloads' \in [Keys -> Pics \cup {None}]
    BY <1>t, <2>1, <2>2 DEF PayloadsAfter
  <2>5. /\ reply \in Replies
        /\ reply.pic # None => reply.pic = Answer(a).pic /\ reply.centre = Answer(a).centre
    <3>1. 0 \in Steps
      BY Numbers DEF Steps
    <3> HIDE DEF s, a
    <3> QED BY <1>t, <2>2, <2>3, <3>1 DEF Reply, Replies, Answers
  <2> HIDE DEF reply
  <2>6. r \in PageStates
    <3> HIDE DEF s, a
    <3> QED BY <1>t, <2>5 DEF PageStates
  <2>7. /\ r.answer = reply /\ r.ask = s.ask /\ r.pending = s.pending /\ r.owed = s.owed
        /\ r.aside = s.aside /\ r.last = s.last /\ r.shown = s.shown /\ r.model = s.model
        /\ r.view = s.view /\ r.centre = s.centre /\ r.move = s.move /\ r.pans = s.pans
        /\ r.hex = s.hex
    BY <1>t DEF PageStates
  <2> HIDE DEF r, s
  <2>8. PanRoom(r) /\ Named(r)
    BY <1>p, <2>7 DEF PanRoom, Named, Carried
  <2>9. Answered(r) /\ Shows(r)
    BY <1>t, <1>p, <2>1, <2>5, <2>7 DEF Answered, Shows, Resting, Right, OnDisplay
  <2> QED BY <1>o, <2>1, <2>4, <2>6, <2>7, <2>8, <2>9 DEF Sound
<1>2. CASE Deliver(p)
  <2>1. s.answer # None /\ page' = [page EXCEPT ![p] = Delivered(p, s)] /\ UNCHANGED <<caches, world>>
    BY <1>2, <1>t DEF Deliver
  <2> HIDE DEF s
  <2>2. Sound(Delivered(p, s)) /\ Shows(Delivered(p, s)) /\ Delivered(p, s).pans = s.pans
    BY <1>t, <2>1, DeliveredSound
  <2> QED BY <1>o, <1>t, <2>1, <2>2 DEF caches
<1>3. CASE Fail(p)
  <2>1. s.ask # None /\ page' = [page EXCEPT ![p] = Settled(s, TRUE)] /\ UNCHANGED <<caches, world>>
    BY <1>3, <1>t DEF Fail
  <2> HIDE DEF s
  <2>2. \A v \in Views : Bounded(Start(s.centre[v]), s.pans - Size(s.move))
    <3> TAKE v \in Views
    <3>1. Start(s.centre[v]) \in Int /\ Size(s.move) \in 0..1 /\ Size(s.ask.move) \in 0..1
      BY <1>t, <2>1, StartType, SizeType DEF PageStates, Asks
    <3>2. Bounded(Start(s.centre[v]), s.pans - (Size(s.move) + Size(s.ask.move)))
      BY <1>p, <2>1 DEF PanRoom, Carried
    <3> QED BY <1>t, <3>1, <3>2 DEF Bounded
  <2>3. s.owed /\ (s.hex # None => Bounded(Start(s.hex.centre), s.pans - Size(s.hex.move)))
    BY <1>p, <2>1 DEF Answered, PanRoom
  <2>4. Sound(Settled(s, TRUE)) /\ Shows(Settled(s, TRUE)) /\ Settled(s, TRUE).pans = s.pans
    BY <1>t, <1>p, <2>2, <2>3, SettledSound
  <2> QED BY <1>o, <1>t, <2>1, <2>4 DEF caches
\* The rest changes only what the DotPad has, and whether the page is online.
<1>4. ASSUME NEW r \in PageStates, page' = [page EXCEPT ![p] = r],
             payloads' \in [Keys -> Pics \cup {None}], UNCHANGED world,
             r.ask = s.ask, r.answer = s.answer, r.pending = s.pending, r.owed = s.owed,
             r.aside = s.aside, r.last = s.last, r.shown = s.shown, r.model = s.model,
             r.view = s.view, r.centre = s.centre, r.move = s.move, r.pans = s.pans,
             r.hex \in {s.hex, None}
      PROVE  PagesInv'
  <2> HIDE DEF s
  <2>1. Sound(r) /\ Shows(r)
    BY <1>t, <1>4, SameShow
  <2> QED BY <1>o, <1>4, <2>1
<1>5. CASE PadFrame(p)
  <2> DEFINE a == s.hex
             r == [s EXCEPT !.hex = None, !.pins = PadPic(a)]
  <2>1. /\ a # None /\ page' = [page EXCEPT ![p] = r] /\ payloads' = PayloadsAfterPad(a)
        /\ UNCHANGED world
    BY <1>5, <1>t DEF PadFrame
  <2>2. Render(a) \in Pics /\ KeyOf(a) \in Keys
    BY <1>a, <2>1
  <2>3. PadPic(a) \in Pics
    BY <1>t, <2>2 DEF PadPic, PadHit
  <2>4. payloads' \in [Keys -> Pics \cup {None}]
    BY <1>t, <2>1, <2>2, <2>3 DEF PayloadsAfterPad
  <2>5. r \in PageStates
    <3> HIDE DEF s, a
    <3> QED BY <1>t, <2>3 DEF PageStates
  <2>6. /\ r.hex = None /\ r.answer = s.answer /\ r.ask = s.ask /\ r.pending = s.pending
        /\ r.owed = s.owed /\ r.aside = s.aside /\ r.last = s.last /\ r.shown = s.shown /\ r.model = s.model
        /\ r.view = s.view /\ r.centre = s.centre /\ r.move = s.move /\ r.pans = s.pans
    BY <1>t DEF PageStates
  <2> HIDE DEF r
  <2> QED BY <1>4, <2>1, <2>4, <2>5, <2>6
<1>6. CASE PadFails(p)
  <2> DEFINE r == [s EXCEPT !.hex = None]
  <2>1. page' = [page EXCEPT ![p] = r] /\ UNCHANGED <<caches, world>>
    BY <1>6, <1>t DEF PadFails
  <2>2. r \in PageStates
    <3> HIDE DEF s
    <3> QED BY <1>t DEF PageStates
  <2>3. /\ r.hex = None /\ r.answer = s.answer /\ r.ask = s.ask /\ r.pending = s.pending
        /\ r.owed = s.owed /\ r.aside = s.aside /\ r.last = s.last /\ r.shown = s.shown /\ r.model = s.model
        /\ r.view = s.view /\ r.centre = s.centre /\ r.move = s.move /\ r.pans = s.pans
    BY <1>t DEF PageStates
  <2> HIDE DEF r
  <2> QED BY <1>4, <1>t, <2>1, <2>2, <2>3 DEF caches
<1>7. CASE Poll(p)
  <2>1. page' = [page EXCEPT ![p] = Polled(s)] /\ UNCHANGED <<caches, world>>
    BY <1>7, <1>t DEF Poll
  <2> HIDE DEF s
  <2>2. /\ Polled(s) \in PageStates
        /\ Polled(s).hex = s.hex /\ Polled(s).answer = s.answer /\ Polled(s).ask = s.ask
        /\ Polled(s).pending = s.pending /\ Polled(s).owed = s.owed /\ Polled(s).aside = s.aside
        /\ Polled(s).last = s.last /\ Polled(s).shown = s.shown /\ Polled(s).model = s.model
        /\ Polled(s).view = s.view /\ Polled(s).centre = s.centre /\ Polled(s).move = s.move
        /\ Polled(s).pans = s.pans
    BY <1>t, PolledIs
  <2> QED BY <1>4, <1>t, <2>1, <2>2 DEF caches
<1>9. CASE PollList(p)
  <2>1. page' = [page EXCEPT ![p] = Listed(Polled(s), there)] /\ UNCHANGED <<caches, world>>
    BY <1>9, <1>t DEF PollList
  <2> HIDE DEF s
  <2>2. Sound(Polled(s)) /\ Shows(Polled(s)) /\ Polled(s).pans = s.pans
    <3>1. /\ Polled(s) \in PageStates
          /\ Polled(s).hex = s.hex /\ Polled(s).answer = s.answer /\ Polled(s).ask = s.ask
          /\ Polled(s).pending = s.pending /\ Polled(s).owed = s.owed /\ Polled(s).aside = s.aside
          /\ Polled(s).last = s.last /\ Polled(s).shown = s.shown /\ Polled(s).model = s.model
          /\ Polled(s).view = s.view /\ Polled(s).centre = s.centre /\ Polled(s).move = s.move
          /\ Polled(s).pans = s.pans
      BY <1>t, PolledIs
    <3> QED BY <1>t, <3>1, SameShow
  <2>3. LET n == Listed(Polled(s), there) IN Sound(n) /\ Shows(n) /\ n.pans = s.pans
    BY <1>t, <2>2, ListedSound
  <2> QED BY <1>o, <1>t, <2>1, <2>3 DEF caches
<1>8. CASE Heard(p)
  <2> DEFINE r == [s EXCEPT !.online = TRUE]
  <2>1. page' = [page EXCEPT ![p] = r] /\ UNCHANGED <<caches, world>>
    BY <1>8, <1>t DEF Heard
  <2>2. r \in PageStates
    <3> HIDE DEF s
    <3> QED BY <1>t DEF PageStates
  <2>3. /\ r.hex = s.hex /\ r.answer = s.answer /\ r.ask = s.ask /\ r.pending = s.pending
        /\ r.owed = s.owed /\ r.aside = s.aside /\ r.last = s.last /\ r.shown = s.shown /\ r.model = s.model
        /\ r.view = s.view /\ r.centre = s.centre /\ r.move = s.move /\ r.pans = s.pans
    BY <1>t DEF PageStates
  <2> HIDE DEF r
  <2> QED BY <1>4, <1>t, <2>1, <2>2, <2>3 DEF caches
<1> QED BY <1>1, <1>2, <1>3, <1>5, <1>6, <1>7, <1>8, <1>9 DEF Callback

\* Steps that no page takes
LEMMA PagesStay ==
    ASSUME PagesInv, CacheInv', UNCHANGED <<page, presses>>, up' \in BOOLEAN,
           there' \in SUBSET Models,
           outages' \in 0..MaxOutages, drops' \in 0..MaxDrops,
           payloads' \in [Keys -> Pics \cup {None}], responses' \in [Keys -> Answers \cup {None}]
    PROVE  PagesInv'
BY DEF PagesInv, TypeOK

LEMMA StepPagesInv == PagesInv /\ [Next]_vars => PagesInv'
<1> SUFFICES ASSUME PagesInv, [Next]_vars PROVE PagesInv'
  OBVIOUS
<1>c. CacheInv'
  BY StepKeepsCache DEF PagesInv
<1>t. /\ payloads \in [Keys -> Pics \cup {None}] /\ responses \in [Keys -> Answers \cup {None}]
      /\ up \in BOOLEAN /\ outages \in 0..MaxOutages /\ drops \in 0..MaxDrops
      /\ there \in SUBSET Models
  BY DEF PagesInv, TypeOK
<1>1. ASSUME NEW p \in Pages,
             \/ \E m \in Moves : Pan(p, m)
             \/ \E v \in Views : Turn(p, v)
             \/ \E m \in Models : ChooseModel(p, m) \/ LoadModel(p, m)
             \/ ResetView(p)
      PROVE  PagesInv'
  BY <1>1, <1>c, KeysKeep
<1>2. ASSUME NEW p \in Pages, Callback(p) \/ Poll(p) \/ PollList(p) \/ Heard(p)
      PROVE  PagesInv'
  BY <1>2, <1>c, CallbacksKeep
<1>3. ASSUME NEW m \in Models, ModelsChange(m) PROVE PagesInv'
  <2>1. drops' \in 0..MaxDrops /\ UNCHANGED <<page, up, presses, outages>>
    BY <1>3, <1>t, Numbers DEF ModelsChange, Dropping
  <2>2. responses' = Blank /\ payloads' = Blank /\ there' \in SUBSET Models
    BY <1>3, <1>t DEF ModelsChange
  <2> QED BY <1>c, <1>t, <2>1, <2>2, PagesStay DEF Blank
<1>4. ASSUME NEW k \in Keys, Evict(k) PROVE PagesInv'
  <2>1. drops' \in 0..MaxDrops /\ UNCHANGED <<page, there, up, presses, outages>>
    BY <1>4, <1>t, Numbers DEF Evict, Dropping
  <2>2. /\ responses' = responses \/ responses' = [responses EXCEPT ![k] = None]
        /\ payloads' = payloads \/ payloads' = [payloads EXCEPT ![k] = None]
    BY <1>4 DEF Evict
  <2>3. responses' \in [Keys -> Answers \cup {None}] /\ payloads' \in [Keys -> Pics \cup {None}]
    BY <1>t, <2>2
  <2> QED BY <1>c, <1>t, <2>1, <2>3, PagesStay
<1>5. CASE GoDown \/ ComeBack
  <2>1. UNCHANGED <<page, payloads, responses, there, presses, drops>> /\ up' \in BOOLEAN
    BY <1>5 DEF GoDown, ComeBack, caches
  <2>2. outages' = outages \/ (outages < MaxOutages /\ outages' = outages + 1)
    BY <1>5 DEF GoDown, ComeBack
  <2>3. outages' \in 0..MaxOutages
    BY <1>t, <2>2, Numbers
  <2> QED BY <1>c, <1>t, <2>1, <2>3, PagesStay
<1>6. CASE UNCHANGED vars
  BY <1>c, <1>t, <1>6, PagesStay DEF vars, caches, world
<1> QED BY <1>1, <1>2, <1>3, <1>4, <1>5, <1>6 DEF Next

LEMMA PagesInvHolds == Spec => []PagesInv
BY InitPagesInv, StepPagesInv, PTL DEF Spec

-----------------------------------------------------------------------------
(* What is owed is on its way *)

WayInv == \A p \in Pages : OnItsWay(page[p])

\* A key or control sends the state it has changed.
LEMMA PressesAsk ==
    ASSUME PagesInv, NEW p \in Pages,
           \/ \E m \in Moves : Pan(p, m)
           \/ \E v \in Views : Turn(p, v)
           \/ \E m \in Models : ChooseModel(p, m) \/ LoadModel(p, m)
           \/ ResetView(p)
    PROVE  \E r \in PageStates : page' = [page EXCEPT ![p] = Sent(r)]
<1> DEFINE s == page[p]
<1>1. s \in PageStates /\ s.pans \in 0..MaxPresses /\ s.pans <= presses /\ presses \in 0..MaxPresses
  BY DEF PagesInv, TypeOK, PageStates
<1>2. Middle \in [Views -> Centres] /\ FirstView \in Views /\ {"none", "reset"} \subseteq Moves
  BY Numbers DEF Middle, Centres, Moves
<1>3. ASSUME NEW m \in Moves, Pan(p, m) PROVE \E r \in PageStates : Press(p, r)
  <2> DEFINE n == s.pans + 1
  <2>1. Press(p, [s EXCEPT !.move = m, !.pans = n]) /\ presses < MaxPresses
    BY <1>3 DEF Pan, Press
  <2>2. n \in 0..MaxPresses
    BY <1>1, <2>1, Numbers
  <2> HIDE DEF n, s
  <2>3. [s EXCEPT !.move = m, !.pans = n] \in PageStates
    BY <1>1, <2>2 DEF PageStates
  <2> QED BY <2>1, <2>3
<1>4. ASSUME NEW v \in Views, Turn(p, v) PROVE \E r \in PageStates : Press(p, r)
  <2>1. Press(p, [s EXCEPT !.view = v])
    BY <1>4 DEF Turn
  <2> HIDE DEF s
  <2>2. [s EXCEPT !.view = v] \in PageStates
    BY <1>1 DEF PageStates
  <2> QED BY <2>1, <2>2
<1>5. ASSUME NEW m \in Models, ChooseModel(p, m) PROVE \E r \in PageStates : Press(p, r)
  <2>1. Press(p, [s EXCEPT !.model = m, !.centre = Middle, !.view = FirstView])
    BY <1>5 DEF ChooseModel
  <2> HIDE DEF s
  <2>2. [s EXCEPT !.model = m, !.centre = Middle, !.view = FirstView] \in PageStates
    BY <1>1, <1>2 DEF PageStates
  <2> QED BY <2>1, <2>2
<1>6. ASSUME NEW m \in Models, LoadModel(p, m) PROVE \E r \in PageStates : Press(p, r)
  <2> DEFINE r == [s EXCEPT !.model = m, !.centre = Middle, !.view = FirstView, !.move = "reset"]
  <2>1. Press(p, r)
    BY <1>6 DEF LoadModel
  <2>2. r \in PageStates
    <3> HIDE DEF s
    <3> QED BY <1>1, <1>2 DEF PageStates
  <2> QED BY <2>1, <2>2
<1>7. ASSUME ResetView(p) PROVE \E r \in PageStates : Press(p, r)
  <2> DEFINE r == [s EXCEPT !.centre = Middle, !.view = FirstView, !.move = "reset"]
  <2>1. Press(p, r)
    BY <1>7 DEF ResetView
  <2>2. r \in PageStates
    <3> HIDE DEF s
    <3> QED BY <1>1, <1>2 DEF PageStates
  <2> QED BY <2>1, <2>2
<1>8. \E r \in PageStates : Press(p, r)
  <2> HIDE DEF s
  <2> QED BY <1>3, <1>4, <1>5, <1>6, <1>7
<1>9. PICK r \in PageStates : Press(p, r)
  BY <1>8
<1> QED BY <1>9 DEF Press

\* So do the answers, the failures and the polls, or nothing is owed that was not.
LEMMA CallbacksAsk ==
    ASSUME PagesInv, WayInv, NEW p \in Pages, Callback(p) \/ Poll(p) \/ PollList(p) \/ Heard(p)
    PROVE  \E r : page' = [page EXCEPT ![p] = r] /\ OnItsWay(r)
<1> DEFINE s == page[p]
<1>1. s \in PageStates /\ Sound(s) /\ Shows(s) /\ OnItsWay(s) /\ there \in SUBSET Models
  BY DEF PagesInv, TypeOK, WayInv
<1>2. ASSUME NEW r, r.owed = s.owed, r.ask = s.ask, r.aside = s.aside, r.retries = s.retries
      PROVE  OnItsWay(r)
  BY <1>1, <1>2 DEF OnItsWay, GivenUp
<1>3. CASE Serve(p)
  <2> DEFINE reply == Reply(s.ask)
             r == [s EXCEPT !.answer = reply]
  <2>1. page' = [page EXCEPT ![p] = r]
    BY <1>3 DEF Serve
  <2> HIDE DEF s, reply
  <2>2. r.owed = s.owed /\ r.ask = s.ask /\ r.aside = s.aside /\ r.retries = s.retries
    BY <1>1 DEF PageStates
  <2> QED BY <1>2, <2>1, <2>2
<1>4. CASE Deliver(p)
  <2>1. page' = [page EXCEPT ![p] = Delivered(p, s)] /\ s.answer # None
    BY <1>4 DEF Deliver
  <2> HIDE DEF s
  <2> QED BY <1>1, <2>1, DeliveredSound
<1>5. CASE Fail(p)
  <2>1. page' = [page EXCEPT ![p] = Settled(s, TRUE)]
    BY <1>5 DEF Fail
  <2> HIDE DEF s
  <2> QED BY <1>1, <2>1, SettledAsks
<1>6. CASE PadFrame(p)
  <2> DEFINE pic == PadPic(s.hex)
             r == [s EXCEPT !.hex = None, !.pins = pic]
  <2>1. page' = [page EXCEPT ![p] = r]
    BY <1>6 DEF PadFrame
  <2> HIDE DEF s, pic
  <2>2. r.owed = s.owed /\ r.ask = s.ask /\ r.aside = s.aside /\ r.retries = s.retries
    BY <1>1 DEF PageStates
  <2> QED BY <1>2, <2>1, <2>2
<1>7. CASE PadFails(p)
  <2> DEFINE r == [s EXCEPT !.hex = None]
  <2>1. page' = [page EXCEPT ![p] = r]
    BY <1>7 DEF PadFails
  <2> HIDE DEF s
  <2>2. r.owed = s.owed /\ r.ask = s.ask /\ r.aside = s.aside /\ r.retries = s.retries
    BY <1>1 DEF PageStates
  <2> QED BY <1>2, <2>1, <2>2
<1>p. OnItsWay(Polled(s)) /\ Polled(s) \in PageStates
  <2> HIDE DEF s
  <2>1. /\ Polled(s) \in PageStates /\ Polled(s).owed = s.owed /\ Polled(s).ask = s.ask
        /\ Polled(s).aside = s.aside /\ Polled(s).retries = s.retries
    BY <1>1, PolledIs
  <2> QED BY <1>2, <2>1
<1>8. CASE Poll(p)
  BY <1>8, <1>p DEF Poll
<1>9. CASE PollList(p)
  <2>1. page' = [page EXCEPT ![p] = Listed(Polled(s), there)]
    BY <1>9 DEF PollList
  <2> HIDE DEF s
  <2> QED BY <1>1, <1>p, <2>1, ListedAsks
<1>10. CASE Heard(p)
  <2> DEFINE r == [s EXCEPT !.online = TRUE]
  <2>1. page' = [page EXCEPT ![p] = r]
    BY <1>10 DEF Heard
  <2> HIDE DEF s
  <2>2. r.owed = s.owed /\ r.ask = s.ask /\ r.aside = s.aside /\ r.retries = s.retries
    BY <1>1 DEF PageStates
  <2> QED BY <1>2, <2>1, <2>2
<1> QED BY <1>3, <1>4, <1>5, <1>6, <1>7, <1>8, <1>9, <1>10 DEF Callback

LEMMA StepKeepsWay == PagesInv /\ WayInv /\ [Next]_vars => WayInv'
<1> SUFFICES ASSUME PagesInv, WayInv, [Next]_vars PROVE WayInv'
  OBVIOUS
<1>o. ASSUME NEW p \in Pages, NEW r, page' = [page EXCEPT ![p] = r], OnItsWay(r) PROVE WayInv'
  <2>1. page \in [Pages -> PageStates]
    BY DEF PagesInv, TypeOK
  <2>2. \A q \in Pages : page'[q] = IF q = p THEN r ELSE page[q]
    BY <1>o, <2>1
  <2> QED BY <1>o, <2>2 DEF WayInv
<1>1. ASSUME NEW p \in Pages,
             \/ \E m \in Moves : Pan(p, m)
             \/ \E v \in Views : Turn(p, v)
             \/ \E m \in Models : ChooseModel(p, m) \/ LoadModel(p, m)
             \/ ResetView(p)
      PROVE  WayInv'
  <2>1. PICK r \in PageStates : page' = [page EXCEPT ![p] = Sent(r)]
    BY <1>1, PressesAsk
  <2> QED BY <1>o, <2>1, SentAsks
<1>2. ASSUME NEW p \in Pages, Callback(p) \/ Poll(p) \/ PollList(p) \/ Heard(p)
      PROVE  WayInv'
  BY <1>2, <1>o, CallbacksAsk
<1>3. CASE UNCHANGED page
  BY <1>3 DEF WayInv
<1>4. ASSUME \/ \E m \in Models : ModelsChange(m)
             \/ \E k \in Keys : Evict(k)
             \/ GoDown \/ ComeBack \/ UNCHANGED vars
      PROVE  UNCHANGED page
  BY <1>4 DEF ModelsChange, Evict, Dropping, GoDown, ComeBack, vars
<1> QED BY <1>1, <1>2, <1>3, <1>4 DEF Next

\* A state a page has come to and not been shown has a request in flight for it, or
\* one it will follow, through any burst of presses, lost answer, refusal or change
\* of the model list, unless the page has used up its retries or did not send.
THEOREM NothingOwedIsForgotten == Spec => []OwedIsOnItsWay
<1>1. Init => WayInv
  <2> SUFFICES ASSUME Init, NEW p \in Pages PROVE OnItsWay(page[p])
    BY DEF WayInv
  <2>1. PICK m \in Models, c \in BOOLEAN : page[p] = Opened(m, c)
    BY DEF Init
  <2>2. Opened(m, c).ask \in Asks
    BY Numbers DEF Opened, Asks, Centres, Moves
  <2> QED BY <2>1, <2>2, NoneAssumption DEF OnItsWay
<1>2. WayInv => OwedIsOnItsWay
  BY DEF WayInv, OnItsWay, OwedIsOnItsWay
<1> QED BY <1>1, <1>2, StepKeepsWay, PagesInvHolds, PTL DEF Spec

-----------------------------------------------------------------------------
(* The theorems about the pages *)

\* Every centre the pages keep, send, are answered with or that the caches hold is
\* within the pan steps pressed, and every retry within its limit.
THEOREM TypeCorrect == Spec => []TypeOK
<1>1. PagesInv => TypeOK
  BY DEF PagesInv
<1> QED BY <1>1, PagesInvHolds, PTL

\* A pan press moves the view once at most, retries and lost answers included.
THEOREM EveryPanOnce == Spec => []PansAtMostOnce
<1>1. PagesInv => PansAtMostOnce
  <2> SUFFICES ASSUME PagesInv, NEW p \in Pages, NEW v \in Views
               PROVE  LET c == Start(page[p].centre[v]) IN c <= page[p].pans /\ -c <= page[p].pans
    BY DEF PansAtMostOnce
  <2> DEFINE s == page[p]
  <2>1. s \in PageStates /\ PanRoom(s)
    BY DEF PagesInv, Sound
  <2> HIDE DEF s
  <2>2. /\ Start(s.centre[v]) \in Int /\ s.pans \in Nat /\ Size(s.move) \in 0..1
        /\ s.ask # None => Size(s.ask.move) \in 0..1
    BY <2>1, StartType, SizeType DEF PageStates, Asks
  <2>3. Carried(s) \in Nat /\ Bounded(Start(s.centre[v]), s.pans - Carried(s))
    BY <2>1, <2>2 DEF Carried, PanRoom
  <2>4. Bounded(Start(s.centre[v]), s.pans)
    BY <2>2, <2>3 DEF Bounded
  <2>5. Start(s.centre[v]) <= s.pans /\ -Start(s.centre[v]) <= s.pans
    BY <2>2, <2>4 DEF Bounded
  <2> QED BY <2>5 DEF s
<1> QED BY <1>1, PagesInvHolds, PTL

\* When nothing is in flight and the last state sent has been delivered, the frame
\* on the page is the one the page's own state describes, whichever models come
\* and go, unless the page was changed while rendering was paused; after a model
\* that was refused, and until the next request, the frame is of the model named.
THEOREM WhatIsShown == Spec => []ShowsItsState
<1>1. PagesInv => ShowsItsState
  BY DEF PagesInv, Shows, Right, ShowsItsState
<1> QED BY <1>1, PagesInvHolds, PTL

=============================================================================
