------------------------- MODULE StudyEnroll_proofs -------------------------
(***************************************************************************)
(* Proofs about StudyEnroll, for any definition, any codes typed by hand   *)
(* (fewer than the letters a code can step aside by) and any panels.       *)
(***************************************************************************)
EXTENDS StudyEnroll, FiniteSetTheorems, WellFoundedInduction, TLAPS

-----------------------------------------------------------------------------
(* Constants *)

LEMMA Design == Len(Study.design) \in Nat \ {0} /\ Rows = 1..Len(Study.design)
<1>1. Study.design \in Seq(Seq(DOMAIN Study.tasks)) /\ Rows # {}
  BY EnrollConstants
<1>2. Len(Study.design) \in Nat /\ DOMAIN Study.design = 1..Len(Study.design)
  BY <1>1
<1> QED
  BY <1>1, <1>2 DEF Rows

LEMMA UnnamedIsNoCode == Unnamed \notin Codes
BY DEF Unnamed, Codes

-----------------------------------------------------------------------------
(* The rotation *)

LEMMA Remainder ==
    ASSUME NEW a \in Int, NEW l \in Nat \ {0}
    PROVE  a % l \in 0..(l - 1)
BY SMT

LEMMA RotationOfAnId ==
    ASSUME NEW n \in Nat \ {0}
    PROVE  RotationRow(n) = 1 + ((n - 1) % Len(Study.design)) /\ RotationRow(n) \in Rows
<1> DEFINE L == Len(Study.design)
<1>1. L \in Nat \ {0} /\ Rows = 1..L
  BY Design
<1>2. RotationRow(n) = 1 + ((Max({1, n}) - 1) % L)
  BY DEF RotationRow, AssignedRow
<1>3. Max({1, n}) = n
  BY DEF Max
<1> HIDE DEF L
<1>4. (n - 1) % L \in 0..(L - 1)
  <2>1. n - 1 \in Int /\ L \in Nat \ {0}
    BY <1>1
  <2> QED
    BY ONLY <2>1, Remainder, Zenon
<1>5. RotationRow(n) = 1 + ((n - 1) % L)
  BY <1>2, <1>3
<1>6. RotationRow(n) \in Rows
  BY <1>1, <1>4, <1>5
<1> QED
  BY <1>5, <1>6 DEF L

-----------------------------------------------------------------------------
(* The least of a set, and a code of their own *)

LEMMA LeastOf ==
    ASSUME NEW S \in SUBSET Nat, S # {}
    PROVE  Min(S) \in S /\ \A y \in S : Min(S) <= y
<1> DEFINE R == {p \in Nat \X Nat : p[1] < p[2]}
<1>1. IsWellFoundedOn(R, Nat)
  BY NatLessThanWellFounded DEF OpToRel
<1>2. PICK x \in S : \A y \in S : ~ (<<y, x>> \in R)
  <2> HIDE DEF R
  <2> QED BY <1>1, WFMin
<1>3. ASSUME NEW y \in S PROVE x <= y
  <2>1. x \in Nat /\ y \in Nat
    OBVIOUS
  <2>2. ~ (y < x)
    BY <1>2, <2>1
  <2> QED BY <2>1, <2>2
<1> QED
  BY <1>3 DEF Min

\* A code nobody typed is made from its own participant's id.
OwnCodes ==
    \A i \in DOMAIN participants :
      participants[i] \in HandCodes \/ \E k \in 0..Letters : participants[i] = <<i, k>>

\* The codes typed by hand are too few to take all of a new participant's.
LEMMA SomeCodeIsFree ==
    ASSUME TypeOK, OwnCodes
    PROVE  \E k \in 0..Letters : <<Len(participants) + 1, k>> \notin Taken
<1> DEFINE n == Len(participants) + 1
           f == [k \in 0..Letters |-> <<n, k>>]
<1>1. n \in Nat /\ DOMAIN participants = 1..(n - 1)
  BY DEF TypeOK
<1>2. SUFFICES ASSUME \A k \in 0..Letters : <<n, k>> \in Taken PROVE FALSE
  OBVIOUS
<1>3. ASSUME NEW k \in 0..Letters PROVE f[k] \in HandCodes
  <2>1. PICK i \in DOMAIN participants : participants[i] = <<n, k>>
    BY <1>2 DEF Taken
  <2>2. ASSUME NEW j \in 0..Letters PROVE participants[i] # <<i, j>>
    <3>1. i # n
      BY <1>1
    <3> QED BY <2>1, <3>1
  <2> QED BY <2>1, <2>2 DEF OwnCodes
<1>4. f \in Injection(0..Letters, HandCodes)
  <2>1. f \in [0..Letters -> HandCodes]
    BY <1>3
  <2>2. ASSUME NEW a \in 0..Letters, NEW b \in 0..Letters, f[a] = f[b] PROVE a = b
    BY <2>2
  <2> HIDE DEF f
  <2> QED BY <2>1, <2>2 DEF Injection, IsInjective
<1>5. Cardinality(0..Letters) <= Cardinality(HandCodes)
  <2> HIDE DEF f
  <2> QED BY <1>4, FS_Injection, EnrollConstants
<1>6. Cardinality(0..Letters) = Letters + 1
  <2>1. Letters \in Nat
    BY EnrollConstants
  <2> QED BY <2>1, FS_Interval
<1>7. Cardinality(HandCodes) \in Nat /\ Letters \in Nat /\ Cardinality(HandCodes) <= Letters
  BY EnrollConstants, FS_CardinalityType
<1> QED
  BY <1>5, <1>6, <1>7

\* _generated_code finds it.
LEMMA GeneratedIsFree ==
    ASSUME TypeOK, OwnCodes
    PROVE  LET n == Len(participants) + 1
           IN  /\ \E k \in 0..Letters : GeneratedCode(n) = <<n, k>>
               /\ GeneratedCode(n) \in Codes
               /\ GeneratedCode(n) \notin Taken
<1> DEFINE n == Len(participants) + 1
           S == {k \in 0..Letters : <<n, k>> \notin Taken}
<1>1. S # {}
  BY SomeCodeIsFree
<1>2. S \in SUBSET Nat
  BY EnrollConstants
<1>3. n \in Nat
  BY DEF TypeOK
<1>4. GeneratedCode(n) = <<n, Min(S)>>
  BY DEF GeneratedCode
<1>5. Min(S) \in S
  <2> HIDE DEF S
  <2> QED BY <1>1, <1>2, LeastOf
<1>6. Min(S) \in 0..Letters /\ Min(S) \in Nat /\ <<n, Min(S)>> \notin Taken
  <2> DEFINE m == Min(S)
  <2>1. m \in S
    BY <1>5
  <2> HIDE DEF m
  <2>2. m \in 0..Letters /\ m \in Nat /\ <<n, m>> \notin Taken
    BY <1>2, <2>1
  <2> QED BY <2>2 DEF m
<1> HIDE DEF n, S
<1>7. GeneratedCode(n) \in Codes
  BY <1>3, <1>4, <1>6 DEF Codes
<1> QED
  BY <1>4, <1>6, <1>7 DEF n

-----------------------------------------------------------------------------
(* The inductive invariant *)

OneCodeEach == \A i, j \in DOMAIN participants : participants[i] = participants[j] => i = j

\* A session that was given by rotation has its participant's row, for good.
RotatedRows ==
    \A i \in DOMAIN sessions :
      sessions[i].rotated => sessions[i].row = RotationRow(sessions[i].participant)

\* UNIQUE (participant_id, session_number)
OneRunEach ==
    \A i, j \in DOMAIN sessions :
      sessions[i].participant = sessions[j].participant /\ sessions[i].number = sessions[j].number
        => i = j

EnrollInv ==
    /\ TypeOK
    /\ OwnCodes
    /\ OneCodeEach
    /\ NobodyWithoutSession
    /\ RotatedRows
    /\ OneRunEach

\* What TypeOK says of the panels' lists.
ListsOK ==
    /\ counted \in [Panels -> [Rows -> Nat] \cup {Uncounted}]
    /\ offered \in [Panels -> SUBSET Rows]
    /\ misled \in BOOLEAN

Requested == HandCodes \cup {Unnamed}
NewSession(code, number, row, rotated) ==
    [participant |-> IdOf(code), number |-> number, row |-> row,
     rotated |-> rotated, status |-> "active"]

\* Who a request names: somebody, or the next to come.
LEMMA WhoIsNamed ==
    ASSUME TypeOK, OwnCodes, NEW code \in Requested
    PROVE  LET n == Len(participants)
           IN  /\ n \in Nat /\ DOMAIN participants = 1..n
               /\ IdOf(code) \in Nat \ {0}
               /\ code \in Taken => /\ IdOf(code) \in 1..n
                                    /\ WithParticipant(code) = participants
               /\ code \notin Taken =>
                    /\ IdOf(code) = n + 1
                    /\ \E c \in Codes :
                         /\ WithParticipant(code) = Append(participants, c)
                         /\ c \notin Taken
                         /\ c \in HandCodes \/ \E k \in 0..Letters : c = <<n + 1, k>>
<1> DEFINE n == Len(participants)
<1>1. n \in Nat /\ DOMAIN participants = 1..n /\ participants \in Seq(Codes)
  BY DEF TypeOK
<1>2. ASSUME code \in Taken
      PROVE  IdOf(code) \in 1..n /\ WithParticipant(code) = participants
  <2>1. \E i \in DOMAIN participants : participants[i] = code
    BY <1>2 DEF Taken
  <2> QED BY <1>1, <1>2, <2>1 DEF IdOf, WithParticipant
<1>3. ASSUME code \notin Taken
      PROVE  /\ IdOf(code) = n + 1
             /\ \E c \in Codes :
                  /\ WithParticipant(code) = Append(participants, c)
                  /\ c \notin Taken
                  /\ c \in HandCodes \/ \E k \in 0..Letters : c = <<n + 1, k>>
  <2>1. IdOf(code) = n + 1
    BY <1>3 DEF IdOf
  <2>2. CASE code = Unnamed
    <3>1. WithParticipant(code) = Append(participants, GeneratedCode(n + 1))
      BY <1>3, <2>2 DEF WithParticipant
    <3> QED BY <2>1, <3>1, GeneratedIsFree
  <2>3. CASE code # Unnamed
    <3>1. WithParticipant(code) = Append(participants, code)
      BY <1>3, <2>3 DEF WithParticipant
    <3>2. code \in HandCodes /\ code \in Codes
      BY <2>3, EnrollConstants DEF Requested, Codes
    <3> QED BY <1>3, <2>1, <3>1, <3>2
  <2> QED BY <2>2, <2>3
<1> HIDE DEF n
<1>4. IdOf(code) \in Nat \ {0}
  BY <1>1, <1>2, <1>3
<1> QED
  BY <1>1, <1>2, <1>3, <1>4 DEF n

LEMMA SessionType ==
    ASSUME NEW id \in Nat \ {0}, NEW number \in Nat \ {0}, NEW row \in Rows,
           NEW rotated \in BOOLEAN
    PROVE  [participant |-> id, number |-> number, row |-> row,
            rotated |-> rotated, status |-> "active"] \in SessionRows
BY DEF SessionRows

\* One more session, of somebody or of the next to come, keeps the invariant.
LEMMA EnrollKeeps ==
    ASSUME EnrollInv, NEW code \in Requested, NEW number \in Nat \ {0}, NEW row \in Rows,
           NEW rotated \in BOOLEAN, rotated => row = RotationRow(IdOf(code)),
           Enroll(code, number, row, rotated),
           ListsOK'
    PROVE  EnrollInv'
<1> DEFINE n == Len(participants)
           m == Len(sessions)
           s == NewSession(code, number, row, rotated)
<1>1. CASE participants' = AfterFailure(code) /\ UNCHANGED sessions
  <2>1. participants' = participants /\ sessions' = sessions
    BY <1>1 DEF AfterFailure
  <2> QED
    BY <2>1 DEF EnrollInv, TypeOK, ListsOK, OwnCodes, OneCodeEach, NobodyWithoutSession, RotatedRows,
                OneRunEach, Taken
<1>2. CASE /\ ~Conflict(code, number)
           /\ participants' = WithParticipant(code)
           /\ sessions' = Append(sessions, s)
  <2>1. /\ n \in Nat /\ DOMAIN participants = 1..n /\ participants \in Seq(Codes)
        /\ m \in Nat /\ DOMAIN sessions = 1..m /\ sessions \in Seq(SessionRows)
    BY DEF EnrollInv, TypeOK
  <2>2. /\ IdOf(code) \in Nat \ {0}
        /\ code \in Taken => IdOf(code) \in 1..n /\ participants' = participants
        /\ code \notin Taken =>
              /\ IdOf(code) = n + 1
              /\ \E c \in Codes :
                   /\ participants' = Append(participants, c)
                   /\ c \notin Taken
                   /\ c \in HandCodes \/ \E k \in 0..Letters : c = <<n + 1, k>>
    BY <1>2, WhoIsNamed DEF EnrollInv
  <2>3. s \in SessionRows /\ s.participant = IdOf(code) /\ s.number = number /\ s.row = row
        /\ s.rotated = rotated
    BY <2>2, SessionType DEF NewSession
  <2> HIDE DEF s
  <2>4. /\ sessions' \in Seq(SessionRows) /\ DOMAIN sessions' = 1..(m + 1)
        /\ sessions'[m + 1] = s
        /\ \A i \in 1..m : sessions'[i] = sessions[i]
    BY <1>2, <2>1, <2>3
  <2>5. \E l \in {n, n + 1} :
          /\ participants' \in Seq(Codes) /\ DOMAIN participants' = 1..l /\ IdOf(code) \in 1..l
          /\ \A i \in 1..n : participants'[i] = participants[i]
          /\ l = n + 1 => /\ IdOf(code) = n + 1
                          /\ \A i \in 1..n : participants[i] # participants'[n + 1]
                          /\ \/ participants'[n + 1] \in HandCodes
                             \/ \E k \in 0..Letters : participants'[n + 1] = <<n + 1, k>>
    <3> HIDE DEF n, m
    <3>1. CASE code \in Taken
      <4>1. participants' \in Seq(Codes) /\ DOMAIN participants' = 1..n /\ IdOf(code) \in 1..n
        BY <2>1, <2>2, <3>1
      <4>2. \A i \in 1..n : participants'[i] = participants[i]
        BY <2>1, <2>2, <3>1
      <4>3. n # n + 1
        BY <2>1
      <4> QED BY <4>1, <4>2, <4>3
    <3>2. CASE code \notin Taken
      <4>1. PICK c \in Codes :
              /\ participants' = Append(participants, c)
              /\ c \notin Taken
              /\ c \in HandCodes \/ \E k \in 0..Letters : c = <<n + 1, k>>
        BY <2>2, <3>2
      <4>2. /\ participants' \in Seq(Codes) /\ DOMAIN participants' = 1..(n + 1)
            /\ participants'[n + 1] = c
            /\ \A i \in 1..n : participants'[i] = participants[i]
        BY <2>1, <4>1 DEF n
      <4>3. \A i \in 1..n : participants[i] # c
        BY <2>1, <4>1 DEF Taken
      <4>4. IdOf(code) = n + 1 /\ IdOf(code) \in 1..(n + 1)
        BY <2>1, <2>2, <3>2
      <4> QED BY <4>1, <4>2, <4>3, <4>4
    <3> QED BY <3>1, <3>2
  <2>6. PICK l \in {n, n + 1} :
          /\ participants' \in Seq(Codes) /\ DOMAIN participants' = 1..l /\ IdOf(code) \in 1..l
          /\ \A i \in 1..n : participants'[i] = participants[i]
          /\ l = n + 1 => /\ IdOf(code) = n + 1
                          /\ \A i \in 1..n : participants[i] # participants'[n + 1]
                          /\ \/ participants'[n + 1] \in HandCodes
                             \/ \E k \in 0..Letters : participants'[n + 1] = <<n + 1, k>>
    BY <2>5
  <2> HIDE DEF n, m
  <2>7. TypeOK'
    <3>1. \A i \in 1..m : sessions[i].participant \in 1..n
      BY <2>1 DEF EnrollInv, TypeOK
    <3>2. \A i \in 1..(m + 1) : sessions'[i].participant \in 1..l
      BY <2>1, <2>3, <2>4, <2>6, <3>1
    <3> QED BY <2>4, <2>6, <3>2 DEF TypeOK, ListsOK
  <2>8. OwnCodes'
    BY <2>1, <2>6 DEF EnrollInv, OwnCodes
  <2>9. OneCodeEach'
    BY <2>1, <2>6 DEF EnrollInv, OneCodeEach
  <2>10. NobodyWithoutSession'
    <3>1. \A id \in 1..n : \E i \in 1..m : sessions[i].participant = id
      <4>1. DOMAIN participants = 1..n /\ DOMAIN sessions = 1..m
        BY <2>1
      <4>2. \A id \in DOMAIN participants :
              \E i \in DOMAIN sessions : sessions[i].participant = id
        BY DEF EnrollInv, NobodyWithoutSession
      <4> QED BY <4>1, <4>2, Zenon
    <3>2. \A id \in 1..n : \E i \in 1..(m + 1) : sessions'[i].participant = id
      <4>1. \A i \in 1..m : i \in 1..(m + 1) /\ sessions'[i] = sessions[i]
        BY <2>1, <2>4
      <4> QED BY <3>1, <4>1, Zenon
    <3>3. l = n + 1 => sessions'[m + 1].participant = n + 1
      BY <2>3, <2>4, <2>6
    <3>4. \A id \in 1..l : \E i \in 1..(m + 1) : sessions'[i].participant = id
      <4>1. \A id \in 1..l : id \in 1..n \/ (l = n + 1 /\ id = n + 1)
        BY <2>1
      <4>2. m + 1 \in 1..(m + 1)
        BY <2>1
      <4> QED BY <3>2, <3>3, <4>1, <4>2, Zenon
    <3>5. DOMAIN participants' = 1..l /\ DOMAIN sessions' = 1..(m + 1)
      BY <2>4, <2>6
    <3>6. \A id \in DOMAIN participants' :
            \E i \in DOMAIN sessions' : sessions'[i].participant = id
      BY <3>4, <3>5, Zenon
    <3> QED BY <3>6, Zenon DEF NobodyWithoutSession
  <2>11. RotatedRows'
    <3>1. \A i \in 1..m : sessions[i].rotated => sessions[i].row = RotationRow(sessions[i].participant)
      BY <2>1 DEF EnrollInv, RotatedRows
    <3>2. s.rotated => s.row = RotationRow(s.participant)
      BY <2>3
    <3> QED BY <2>1, <2>4, <3>1, <3>2 DEF RotatedRows, RotationRow
  <2>12. OneRunEach'
    <3>1. \A i \in 1..m : ~ (sessions[i].participant = IdOf(code) /\ sessions[i].number = number)
      BY <1>2, <2>1 DEF Conflict, HasRun
    <3> QED BY <2>1, <2>3, <2>4, <3>1 DEF EnrollInv, OneRunEach
  <2> QED
    BY <2>7, <2>8, <2>9, <2>10, <2>11, <2>12 DEF EnrollInv
<1> QED
  BY <1>1, <1>2 DEF Enroll, NewSession

\* However a session ends, it stays its participant's, on its row.
LEMMA EndKeeps ==
    ASSUME EnrollInv, NEW i \in DOMAIN sessions, NEW outcome \in {"completed", "abandoned"},
           End(i, outcome)
    PROVE  EnrollInv'
<1>1. /\ sessions \in Seq(SessionRows) /\ sessions[i] \in SessionRows
      /\ participants' = participants /\ UNCHANGED <<counted, offered, misled>>
  BY DEF EnrollInv, TypeOK, End
<1> DEFINE s == [sessions[i] EXCEPT !.status = outcome]
<1>2. /\ s \in SessionRows
      /\ s.participant = sessions[i].participant /\ s.number = sessions[i].number
      /\ s.row = sessions[i].row /\ s.rotated = sessions[i].rotated
  BY <1>1 DEF SessionRows
<1>3. sessions' = [sessions EXCEPT ![i] = s]
  BY DEF End
<1> HIDE DEF s
<1>4. sessions' \in Seq(SessionRows) /\ DOMAIN sessions' = DOMAIN sessions
  BY <1>1, <1>2, <1>3
<1>5. \A j \in DOMAIN sessions :
        /\ sessions'[j].participant = sessions[j].participant
        /\ sessions'[j].number = sessions[j].number
        /\ sessions'[j].row = sessions[j].row /\ sessions'[j].rotated = sessions[j].rotated
  BY <1>1, <1>2, <1>3
<1>6. TypeOK'
  BY <1>1, <1>4, <1>5 DEF EnrollInv, TypeOK
<1>7. NobodyWithoutSession'
  BY <1>1, <1>4, <1>5 DEF EnrollInv, NobodyWithoutSession
<1>8. OwnCodes' /\ OneCodeEach'
  BY <1>1 DEF EnrollInv, OwnCodes, OneCodeEach
<1>9. RotatedRows' /\ OneRunEach'
  BY <1>4, <1>5 DEF EnrollInv, RotatedRows, RotationRow, OneRunEach
<1> QED
  BY <1>6, <1>7, <1>8, <1>9 DEF EnrollInv

LEMMA OfferingKeeps ==
    ASSUME EnrollInv, UNCHANGED <<participants, sessions>>, ListsOK'
    PROVE  EnrollInv'
BY DEF EnrollInv, TypeOK, ListsOK, OwnCodes, OneCodeEach, NobodyWithoutSession, RotatedRows,
       RotationRow, OneRunEach

LEMMA EnrollInvInit == Init => EnrollInv
<1> SUFFICES ASSUME Init PROVE EnrollInv
  OBVIOUS
<1>1. counted \in [Panels -> [Rows -> Nat] \cup {Uncounted}] /\ misled \in BOOLEAN
  BY DEF Init
<1>2. TypeOK
  BY <1>1 DEF Init, TypeOK
<1> QED
  BY <1>2 DEF Init, EnrollInv, OwnCodes, OneCodeEach, NobodyWithoutSession, RotatedRows, OneRunEach

LEMMA CountsType ==
    ASSUME TypeOK, NEW status
    PROVE  Counts(status) \in [Rows -> Nat]
<1> DEFINE S(r) == {i \in DOMAIN sessions :
             sessions[i].status = status /\ SetId(sessions[i].row) = SetId(r)}
<1>1. DOMAIN sessions = 1..Len(sessions) /\ Len(sessions) \in Nat
  BY DEF TypeOK
<1>2. IsFiniteSet(1..Len(sessions))
  BY <1>1, FS_Interval
<1>3. \A r \in Rows : S(r) \in SUBSET (1..Len(sessions))
  BY <1>1
<1>4. \A r \in Rows : Count(status, r) = Cardinality(S(r))
  BY DEF Count
<1> HIDE DEF S
<1>5. \A r \in Rows : Count(status, r) \in Nat
  BY <1>2, <1>3, <1>4, FS_Subset, FS_CardinalityType
<1> QED
  BY <1>5 DEF Counts

LEMMA EnrollInvNext ==
    ASSUME EnrollInv, [Next]_evars
    PROVE  EnrollInv'
<1>1. ListsOK /\ TypeOK
  BY DEF EnrollInv, TypeOK, ListsOK
<1>2. ASSUME NEW p \in Panels, CountCompleted(p) PROVE EnrollInv'
  <2>1. Counts("completed") \in [Rows -> Nat] /\ NoRows \in [Rows -> Nat]
    BY <1>1, CountsType DEF NoRows
  <2>2. PICK counts \in Readings(Counts("completed")) : counted' = [counted EXCEPT ![p] = counts]
    BY <1>2 DEF CountCompleted
  <2>3. counts \in [Rows -> Nat]
    BY <2>1 DEF Readings
  <2>4. counted' \in [Panels -> [Rows -> Nat] \cup {Uncounted}]
    BY <1>1, <2>2, <2>3 DEF ListsOK
  <2>5. ListsOK'
    BY <1>1, <1>2, <2>4 DEF ListsOK, CountCompleted
  <2> QED BY <1>2, <2>5, OfferingKeeps DEF CountCompleted
<1>3. ASSUME NEW p \in Panels, ShowSets(p) PROVE EnrollInv'
  <2>1. PICK running \in Readings(Counts("active")) :
          /\ offered' = [offered EXCEPT ![p] = FreeSets(counted[p], running)]
          /\ misled' = (misled \/ counted[p] # Counts("completed") \/ running # Counts("active"))
    BY <1>3 DEF ShowSets
  <2>2. FreeSets(counted[p], running) \in SUBSET Rows
    BY DEF FreeSets
  <2>3. offered' \in [Panels -> SUBSET Rows]
    BY <1>1, <2>1, <2>2 DEF ListsOK
  <2>4. counted' \in [Panels -> [Rows -> Nat] \cup {Uncounted}]
    BY <1>1, <1>3 DEF ListsOK, ShowSets
  <2>5. misled' \in BOOLEAN
    BY <2>1
  <2>6. ListsOK'
    BY <2>3, <2>4, <2>5 DEF ListsOK
  <2> QED BY <1>3, <2>6, OfferingKeeps DEF ShowSets
<1>4. ASSUME NEW p \in Panels, StartChosen(p) PROVE EnrollInv'
  <2>1. PICK row \in offered[p] : Enroll(Unnamed, 1, row, FALSE)
    BY <1>4 DEF StartChosen
  <2>2. row \in Rows
    BY <1>1, <2>1 DEF ListsOK
  <2>3. ListsOK'
    <3>1. offered' \in [Panels -> SUBSET Rows]
      BY <1>1, <1>4 DEF StartChosen, ListsOK
    <3>2. misled' \in BOOLEAN
      BY <1>1, <1>4 DEF StartChosen, ListsOK
    <3>3. counted' = counted
      BY <1>4 DEF StartChosen
    <3> QED BY <1>1, <3>1, <3>2, <3>3 DEF ListsOK
  <2>4. Unnamed \in Requested /\ 1 \in Nat \ {0} /\ FALSE \in BOOLEAN
    BY DEF Requested
  <2>5. FALSE => row = RotationRow(IdOf(Unnamed))
    OBVIOUS
  <2> QED BY <2>1, <2>2, <2>3, <2>4, <2>5, EnrollKeeps
<1>5. ASSUME NEW code \in HandCodes \cup {Unnamed}, NEW number \in Numbers,
             StartByRotation(code, number)
      PROVE  EnrollInv'
  <2>1. code \in Requested
    BY DEF Requested
  <2>2. number \in Nat \ {0}
    BY EnrollConstants
  <2>3. IdOf(code) \in Nat \ {0}
    BY <2>1, WhoIsNamed DEF EnrollInv
  <2>4. RotationRow(IdOf(code)) \in Rows
    BY <2>3, RotationOfAnId
  <2>5. Enroll(code, number, RotationRow(IdOf(code)), TRUE) /\ UNCHANGED <<counted, offered, misled>>
    BY <1>5 DEF StartByRotation
  <2>6. ListsOK'
    BY <1>1, <2>5 DEF ListsOK
  <2> QED BY <2>1, <2>2, <2>4, <2>5, <2>6, EnrollKeeps
<1>6. ASSUME UNCHANGED evars PROVE EnrollInv'
  BY <1>1, <1>6, OfferingKeeps DEF evars, ListsOK
<1> QED
  BY <1>2, <1>3, <1>4, <1>5, <1>6, EndKeeps DEF Next

THEOREM EnrollInvariant == Spec => []EnrollInv
<1>1. Init => EnrollInv
  BY EnrollInvInit
<1>2. EnrollInv /\ [Next]_evars => EnrollInv'
  BY EnrollInvNext
<1> QED BY <1>1, <1>2, PTL DEF Spec

-----------------------------------------------------------------------------
(* What the runs check *)

\* The types: a session is on a row of the design and of a participant there is,
\* whoever was named, typed, refused or failed.
THEOREM TypeCorrect == Spec => []TypeOK
<1>1. EnrollInv => TypeOK
  BY DEF EnrollInv
<1> QED BY <1>1, EnrollInvariant, PTL

\* enroll: no participant without a session, whatever fails inside it.
THEOREM NobodyIsLeftOver == Spec => []NobodyWithoutSession
<1>1. EnrollInv => NobodyWithoutSession
  BY DEF EnrollInv
<1> QED BY <1>1, EnrollInvariant, PTL

\* _generated_code: every code is one participant's, and the next one is free,
\* however many were typed by hand (fewer than there are letters).
THEOREM CodesAreFree == Spec => []NextCodeIsFree
<1>1. EnrollInv => NextCodeIsFree
  BY GeneratedIsFree DEF EnrollInv, OneCodeEach, NextCodeIsFree
<1> QED BY <1>1, EnrollInvariant, PTL

-----------------------------------------------------------------------------
(* The rotation is even *)

LEMMA Quotient ==
    ASSUME NEW a \in Nat, NEW l \in Nat \ {0}
    PROVE  /\ a \div l \in Int /\ a % l \in 0..(l - 1)
           /\ a = l * (a \div l) + (a % l)
BY SMT

LEMMA AtLeastOneTurn ==
    ASSUME NEW l \in Nat \ {0}, NEW q \in Int, q >= 1
    PROVE  l * q >= l
BY SMT

\* There is only one remainder.
LEMMA TheRemainder ==
    ASSUME NEW a \in Nat, NEW l \in Nat \ {0}, NEW q \in Int, NEW u \in 0..(l - 1),
           a = l * q + u
    PROVE  a % l = u
<1> DEFINE p == a \div l
           t == a % l
<1>1. p \in Int /\ t \in 0..(l - 1) /\ a = l * p + t
  BY Quotient
<1> HIDE DEF p, t
<1>2. l * (q - p) = t - u
  BY <1>1
<1>3. l * (p - q) = u - t
  BY <1>1
<1>4. ~ (q - p >= 1)
  BY <1>1, <1>2, AtLeastOneTurn
<1>5. ~ (p - q >= 1)
  BY <1>1, <1>3, AtLeastOneTurn
<1>6. p = q
  BY <1>1, <1>4, <1>5
<1>7. t = u
  BY <1>1, <1>2, <1>6
<1> QED
  BY <1>7 DEF t

LEMMA RemainderBelow ==
    ASSUME NEW a \in Nat, NEW l \in Nat \ {0}, NEW d \in Nat, d <= a % l
    PROVE  a - d \in Nat /\ (a - d) % l = (a % l) - d
<1> DEFINE q == a \div l
           u == a % l
<1>1. q \in Int /\ u \in 0..(l - 1) /\ a = l * q + u
  BY Quotient
<1>2. d <= u /\ u <= a
  BY SMT
<1> HIDE DEF q, u
<1>3. a - d \in Nat /\ u - d \in 0..(l - 1) /\ a - d = l * q + (u - d)
  BY <1>1, <1>2
<1>4. (a - d) % l = u - d
  BY <1>1, <1>3, TheRemainder
<1> QED
  BY <1>3, <1>4 DEF u

\* A full turn back, and some of the way forward again.
LEMMA RemainderAbove ==
    ASSUME NEW a \in Nat, NEW l \in Nat \ {0}, NEW e \in Nat, (a % l) + e < l, a # a % l
    PROVE  a - (l - e) \in Nat /\ (a - (l - e)) % l = (a % l) + e
<1> DEFINE q == a \div l
           u == a % l
<1>1. q \in Int /\ u \in 0..(l - 1) /\ a = l * q + u
  BY Quotient
<1>2. u + e < l /\ a # u
  OBVIOUS
<1> HIDE DEF q, u
<1>3. l * q # 0 /\ q # 0
  BY <1>1, <1>2
<1>4. q >= 1
  <2>1. SUFFICES ASSUME -q >= 1 PROVE FALSE
    BY <1>1, <1>3
  <2>2. -q \in Int
    BY <1>1
  <2>3. l * (-q) >= l
    BY <2>1, <2>2, AtLeastOneTurn
  <2>4. l * (-q) = -(l * q)
    BY <1>1
  <2> QED BY <1>1, <2>3, <2>4
<1>5. l * q >= l
  BY <1>1, <1>4, AtLeastOneTurn
<1>6. l * (q - 1) = (l * q) - l
  BY <1>1
<1>7. a - (l - e) \in Nat /\ a - (l - e) = l * (q - 1) + (u + e)
  BY <1>1, <1>2, <1>5, <1>6
<1>8. q - 1 \in Int /\ u + e \in 0..(l - 1)
  BY <1>1, <1>2
<1>9. (a - (l - e)) % l = u + e
  BY <1>7, <1>8, TheRemainder
<1> QED
  BY <1>7, <1>9 DEF u

\* The first n participants the rotation gives a row to
Given(n, r) == {id \in 1..n : RotationRow(id) = r}

LEMMA GivenIsFinite ==
    ASSUME NEW n \in Nat, NEW r
    PROVE  IsFiniteSet(Given(n, r)) /\ Cardinality(Given(n, r)) \in Nat
<1>1. IsFiniteSet(1..n)
  BY FS_Interval
<1>2. Given(n, r) \in SUBSET (1..n)
  BY DEF Given
<1> QED
  BY <1>1, <1>2, FS_Subset, FS_CardinalityType

\* Shifting ids shows an earlier row has as many as a later one; and a later one
\* as many as an earlier one, but for the first who was given that.
LEMMA EarlierHasAsMany ==
    ASSUME NEW n \in Nat, NEW r \in Rows, NEW s \in Rows, s <= r
    PROVE  Cardinality(Given(n, r)) <= Cardinality(Given(n, s))
<1> DEFINE L == Len(Study.design)
           d == r - s
           f == [id \in Given(n, r) |-> id - d]
<1>1. L \in Nat \ {0} /\ r \in 1..L /\ s \in 1..L /\ d \in Nat
  BY Design
<1>2. ASSUME NEW id \in Given(n, r) PROVE id - d \in Given(n, s)
  <2>1. id \in Nat \ {0} /\ id <= n /\ RotationRow(id) = r
    BY DEF Given
  <2> HIDE DEF L
  <2>2. (id - 1) % L = r - 1
    <3>1. r = 1 + ((id - 1) % L)
      BY <2>1, RotationOfAnId DEF L
    <3>2. id - 1 \in Int
      BY <2>1
    <3>3. (id - 1) % L \in 0..(L - 1)
      BY ONLY <1>1, <3>2, Remainder, Zenon
    <3> QED BY <1>1, <3>1, <3>3
  <2>3. d <= (id - 1) % L /\ id - 1 \in Nat
    BY <1>1, <2>1, <2>2
  <2>4. (id - 1) - d \in Nat /\ ((id - 1) - d) % L = ((id - 1) % L) - d
    BY <1>1, <2>3, RemainderBelow
  <2>5. id - d \in Nat \ {0} /\ id - d <= n /\ (id - d) - 1 = (id - 1) - d
    BY <1>1, <2>1, <2>4
  <2>6. RotationRow(id - d) = 1 + (((id - d) - 1) % L)
    BY <2>5, RotationOfAnId DEF L
  <2>7. RotationRow(id - d) = s
    BY <1>1, <2>2, <2>4, <2>5, <2>6
  <2> QED BY <1>1, <2>5, <2>7 DEF Given
<1>3. f \in Injection(Given(n, r), Given(n, s))
  <2>1. \A id \in Given(n, r) : id \in Int
    BY DEF Given
  <2>2. f \in [Given(n, r) -> Given(n, s)]
    BY <1>2
  <2>3. ASSUME NEW i \in Given(n, r), NEW j \in Given(n, r), f[i] = f[j] PROVE i = j
    BY <1>1, <2>1, <2>3
  <2> HIDE DEF f
  <2> QED BY <2>2, <2>3 DEF Injection, IsInjective
<1> HIDE DEF f
<1> QED
  BY <1>3, GivenIsFinite, FS_Injection

LEMMA LaterHasAsManyButOne ==
    ASSUME NEW n \in Nat, NEW r \in Rows, NEW s \in Rows, r < s
    PROVE  Cardinality(Given(n, r)) <= Cardinality(Given(n, s)) + 1
<1> DEFINE L == Len(Study.design)
           e == s - r
           C == Given(n, r) \ {r}
           f == [id \in C |-> id - (L - e)]
<1>1. L \in Nat \ {0} /\ r \in 1..L /\ s \in 1..L /\ e \in Nat /\ L - e \in Nat
  BY Design
<1>2. ASSUME NEW id \in C PROVE id - (L - e) \in Given(n, s)
  <2>1. id \in Nat \ {0} /\ id <= n /\ RotationRow(id) = r /\ id # r
    BY DEF Given
  <2> HIDE DEF L
  <2>2. (id - 1) % L = r - 1
    <3>1. r = 1 + ((id - 1) % L)
      BY <2>1, RotationOfAnId DEF L
    <3>2. id - 1 \in Int
      BY <2>1
    <3>3. (id - 1) % L \in 0..(L - 1)
      BY ONLY <1>1, <3>2, Remainder, Zenon
    <3> QED BY <1>1, <3>1, <3>3
  <2>3. ((id - 1) % L) + e < L /\ id - 1 # (id - 1) % L /\ id - 1 \in Nat
    BY <1>1, <2>1, <2>2
  <2>4. (id - 1) - (L - e) \in Nat /\ ((id - 1) - (L - e)) % L = ((id - 1) % L) + e
    BY <1>1, <2>3, RemainderAbove
  <2>5. /\ id - (L - e) \in Nat \ {0} /\ id - (L - e) <= n
        /\ (id - (L - e)) - 1 = (id - 1) - (L - e)
    BY <1>1, <2>1, <2>4
  <2>6. RotationRow(id - (L - e)) = 1 + (((id - (L - e)) - 1) % L)
    BY <2>5, RotationOfAnId DEF L
  <2>7. RotationRow(id - (L - e)) = s
    BY <1>1, <2>2, <2>4, <2>5, <2>6
  <2> QED BY <1>1, <2>5, <2>7 DEF Given
<1>3. f \in Injection(C, Given(n, s))
  <2>1. \A id \in C : id \in Int
    BY DEF Given
  <2>2. f \in [C -> Given(n, s)]
    BY <1>2
  <2>3. ASSUME NEW i \in C, NEW j \in C, f[i] = f[j] PROVE i = j
    BY <1>1, <2>1, <2>3
  <2> HIDE DEF f
  <2> QED BY <2>2, <2>3 DEF Injection, IsInjective
<1>4. Cardinality(C) <= Cardinality(Given(n, s))
  <2> HIDE DEF f, C
  <2> QED BY <1>3, GivenIsFinite, FS_Injection
<1>5. Cardinality(C) = IF r \in Given(n, r) THEN Cardinality(Given(n, r)) - 1
                       ELSE Cardinality(Given(n, r))
  BY GivenIsFinite, FS_RemoveElement
<1> HIDE DEF C
<1>6. Cardinality(Given(n, r)) \in Nat /\ Cardinality(Given(n, s)) \in Nat
  BY GivenIsFinite
<1> QED
  BY <1>4, <1>5, <1>6

LEMMA GivenEvenly ==
    ASSUME NEW n \in Nat, NEW r \in Rows, NEW s \in Rows
    PROVE  Cardinality(Given(n, r)) <= Cardinality(Given(n, s)) + 1
<1>1. r \in Nat /\ s \in Nat
  BY Design
<1>2. Cardinality(Given(n, r)) \in Nat /\ Cardinality(Given(n, s)) \in Nat
  BY GivenIsFinite
<1>3. CASE s <= r
  BY <1>2, <1>3, EarlierHasAsMany
<1>4. CASE r < s
  BY <1>4, LaterHasAsManyButOne
<1> QED
  BY <1>1, <1>3, <1>4

\* Counts that differ by no more than one, pair by pair
LEMMA WithinOne ==
    ASSUME NEW S \in SUBSET Nat, S # {}, \A x, y \in S : x <= y + 1
    PROVE  Within(S, 1)
<1> DEFINE m == Min(S)
<1>1. m \in S /\ m \in Nat /\ \A y \in S : y \in Nat /\ m <= y /\ y <= m + 1
  BY LeastOf
<1> HIDE DEF m
<1>2. \E x \in S : \A y \in S : x >= y
  <2>1. CASE m + 1 \in S
    BY <1>1, <2>1
  <2>2. CASE m + 1 \notin S
    <3>1. \A y \in S : m >= y
      BY <1>1, <2>2
    <3> QED BY <1>1, <3>1
  <2> QED BY <2>1, <2>2
<1>3. Max(S) \in S
  BY <1>2 DEF Max
<1> DEFINE M == Max(S)
<1>4. M \in S
  BY <1>3
<1> HIDE DEF M
<1>5. M - m <= 1
  BY <1>1, <1>4
<1> QED
  BY <1>5 DEF Within, m, M

\* While everybody has had one session, a row has had as many as there are ids
\* the rotation gives it to.
LEMMA RunsAreGiven ==
    ASSUME EnrollInv, \A i \in DOMAIN sessions : sessions[i].rotated,
           \A i \in DOMAIN sessions : sessions[i].number = 1, NEW r \in Rows
    PROVE  Cardinality(RunsOf(r)) = Cardinality(Given(Len(participants), r))
<1> DEFINE n == Len(participants)
           f == [i \in RunsOf(r) |-> sessions[i].participant]
<1>1. n \in Nat /\ DOMAIN participants = 1..n
  BY DEF EnrollInv, TypeOK
<1>2. \A i \in RunsOf(r) : i \in DOMAIN sessions /\ sessions[i].row = r
  BY DEF RunsOf
<1>3. ASSUME NEW i \in RunsOf(r) PROVE sessions[i].participant \in Given(n, r)
  <2>1. sessions[i].participant \in 1..n
    BY <1>1, <1>2 DEF EnrollInv, TypeOK
  <2>2. RotationRow(sessions[i].participant) = r
    BY <1>2 DEF EnrollInv, RotatedRows
  <2> QED BY <2>1, <2>2 DEF Given
<1>4. f \in [RunsOf(r) -> Given(n, r)]
  BY <1>3
<1>5. ASSUME NEW i \in RunsOf(r), NEW j \in RunsOf(r), f[i] = f[j] PROVE i = j
  <2>1. sessions[i].participant = sessions[j].participant
    BY <1>5
  <2> QED BY <1>2, <2>1 DEF EnrollInv, OneRunEach
<1>6. ASSUME NEW id \in Given(n, r) PROVE \E i \in RunsOf(r) : f[i] = id
  <2>1. id \in DOMAIN participants /\ RotationRow(id) = r
    BY <1>1 DEF Given
  <2>2. PICK i \in DOMAIN sessions : sessions[i].participant = id
    BY <2>1 DEF EnrollInv, NobodyWithoutSession
  <2>3. sessions[i].row = r
    BY <2>1, <2>2 DEF EnrollInv, RotatedRows
  <2>4. i \in RunsOf(r)
    BY <2>2, <2>3 DEF RunsOf
  <2> QED BY <2>2, <2>4
<1> HIDE DEF f
<1>7. f \in Bijection(RunsOf(r), Given(n, r))
  BY <1>4, <1>5, <1>6 DEF Bijection, Injection, Surjection, IsInjective
<1>8. ExistsBijection(RunsOf(r), Given(n, r))
  BY <1>7 DEF ExistsBijection
<1>9. IsFiniteSet(RunsOf(r))
  <2>1. DOMAIN sessions = 1..Len(sessions) /\ Len(sessions) \in Nat
    BY DEF EnrollInv, TypeOK
  <2>2. IsFiniteSet(DOMAIN sessions)
    BY <2>1, FS_Interval
  <2>3. RunsOf(r) \in SUBSET (DOMAIN sessions)
    BY DEF RunsOf
  <2> QED BY <2>2, <2>3, FS_Subset
<1> HIDE DEF n
<1>10. Cardinality(RunsOf(r)) = Cardinality(Given(n, r))
  BY <1>8, <1>9, FS_Bijection
<1> QED
  BY <1>10 DEF n

LEMMA RotationEven ==
    ASSUME EnrollInv
    PROVE  RotationIsEven
<1> SUFFICES ASSUME \A i \in DOMAIN sessions : sessions[i].rotated
             PROVE  /\ (\A i \in DOMAIN sessions : sessions[i].number = 1) =>
                         Within({Cardinality(RunsOf(r)) : r \in Rows}, 1)
                    /\ \A i, j \in DOMAIN sessions :
                         sessions[i].participant = sessions[j].participant =>
                           sessions[i].row = sessions[j].row
  BY DEF RotationIsEven
<1>1. ASSUME \A i \in DOMAIN sessions : sessions[i].number = 1
      PROVE  Within({Cardinality(RunsOf(r)) : r \in Rows}, 1)
  <2> DEFINE n == Len(participants)
             S == {Cardinality(RunsOf(r)) : r \in Rows}
  <2>1. n \in Nat
    BY DEF EnrollInv, TypeOK
  <2>2. \A r \in Rows : Cardinality(RunsOf(r)) = Cardinality(Given(n, r))
    BY <1>1, RunsAreGiven
  <2> HIDE DEF n
  <2>3. \A r \in Rows : Cardinality(RunsOf(r)) \in Nat
    BY <2>1, <2>2, GivenIsFinite
  <2>4. \A r, s \in Rows : Cardinality(RunsOf(r)) <= Cardinality(RunsOf(s)) + 1
    BY <2>1, <2>2, GivenEvenly
  <2>5. S \in SUBSET Nat /\ \A x, y \in S : x <= y + 1
    BY <2>3, <2>4
  <2>6. S # {}
    BY EnrollConstants
  <2> HIDE DEF S
  <2>7. Within(S, 1)
    BY <2>5, <2>6, WithinOne
  <2> QED BY <2>7 DEF S
<1>2. ASSUME NEW i \in DOMAIN sessions, NEW j \in DOMAIN sessions,
             sessions[i].participant = sessions[j].participant
      PROVE  sessions[i].row = sessions[j].row
  BY <1>2 DEF EnrollInv, RotatedRows
<1> QED
  BY <1>1, <1>2

\* The rotation, for any design and any order of new, returning and refused
\* participants: while everybody has had one session no row is ahead of another
\* by more than one, and who comes back keeps their row.
THEOREM TheRotationIsEven == Spec => []RotationIsEven
<1>1. EnrollInv => RotationIsEven
  BY RotationEven
<1> QED BY <1>1, EnrollInvariant, PTL

-----------------------------------------------------------------------------
(***************************************************************************)
(* The rounds.  A set that is running, or that a panel was shown as free,  *)
(* is one of the least completed; so no set gets two ahead.                *)
(***************************************************************************)

\* The sessions among these that ran a row's set and have this status
Of(all, status, row) ==
    {i \in DOMAIN all : all[i].status = status /\ SetId(all[i].row) = SetId(row)}
Number(all, status, row) == Cardinality(Of(all, status, row))
LeastRun(all, row) == \A q \in Rows : Number(all, "completed", row) <= Number(all, "completed", q)

OneChooses(all) ==
    (\A p, q \in Panels : p = q) /\ \A i \in DOMAIN all : ~all[i].rotated

Rounds(all, shown) ==
    /\ \A r, q \in Rows : Number(all, "completed", r) <= Number(all, "completed", q) + 1
    /\ \A r \in Rows : Number(all, "active", r) > 0 =>
         Number(all, "active", r) = 1 /\ LeastRun(all, r)
    /\ \A p \in Panels : \A r \in shown[p] : Number(all, "active", r) = 0 /\ LeastRun(all, r)

RoundInv == OneChooses(sessions) /\ ~misled => Rounds(sessions, offered)

IsWithOneMore(more, all, s) == more = Append(all, s)
IsWithOneEnded(after, all, i, outcome) == after = [all EXCEPT ![i].status = outcome]

Statuses == {"active", "completed", "abandoned"}

LEMMA OfIsFinite ==
    ASSUME NEW all \in Seq(SessionRows), NEW status, NEW row
    PROVE  /\ IsFiniteSet(Of(all, status, row))
           /\ Number(all, status, row) \in 0..Len(all)
           /\ Number(all, status, row) = 0 <=> Of(all, status, row) = {}
<1>1. DOMAIN all = 1..Len(all) /\ Len(all) \in Nat
  OBVIOUS
<1>2. IsFiniteSet(1..Len(all)) /\ Cardinality(1..Len(all)) = Len(all)
  BY <1>1, FS_Interval
<1>3. Of(all, status, row) \in SUBSET (1..Len(all))
  BY <1>1 DEF Of
<1>4. IsFiniteSet(Of(all, status, row)) /\ Cardinality(Of(all, status, row)) <= Len(all)
  BY <1>2, <1>3, FS_Subset
<1>5. Cardinality(Of(all, status, row)) \in Nat
  BY <1>4, FS_CardinalityType
<1> QED
  BY <1>1, <1>4, <1>5, FS_EmptySet DEF Number

\* A session more, active, is counted for its set and for no other.
LEMMA OneMoreSession ==
    ASSUME NEW all \in Seq(SessionRows), NEW s \in SessionRows, s.status = "active",
           NEW more, IsWithOneMore(more, all, s), NEW row
    PROVE  /\ Number(more, "completed", row) = Number(all, "completed", row)
           /\ Number(more, "active", row) = IF SetId(s.row) = SetId(row)
                                            THEN Number(all, "active", row) + 1
                                            ELSE Number(all, "active", row)
<1> DEFINE n == Len(all)
<1>1. /\ n \in Nat /\ DOMAIN all = 1..n /\ DOMAIN more = 1..(n + 1)
      /\ more[n + 1] = s /\ \A i \in 1..n : more[i] = all[i]
  BY DEF IsWithOneMore
<1> HIDE DEF n
<1>2. \A i : i \in DOMAIN more <=> i \in DOMAIN all \/ i = n + 1
  BY <1>1
<1>3. n + 1 \notin DOMAIN all
  BY <1>1
<1>4. \A i \in DOMAIN all : more[i] = all[i]
  BY <1>1
<1>5. Of(more, "completed", row) = Of(all, "completed", row)
  BY <1>1, <1>2, <1>3, <1>4 DEF Of
<1>6. CASE SetId(s.row) = SetId(row)
  <2>1. Of(more, "active", row) = Of(all, "active", row) \cup {n + 1}
    BY <1>1, <1>2, <1>3, <1>4, <1>6 DEF Of
  <2>2. n + 1 \notin Of(all, "active", row)
    BY <1>3 DEF Of
  <2>3. Cardinality(Of(all, "active", row) \cup {n + 1}) = Cardinality(Of(all, "active", row)) + 1
    BY <2>2, OfIsFinite, FS_AddElement
  <2> QED BY <1>5, <1>6, <2>1, <2>3 DEF Number
<1>7. CASE SetId(s.row) # SetId(row)
  <2>1. Of(more, "active", row) = Of(all, "active", row)
    BY <1>1, <1>2, <1>3, <1>4, <1>7 DEF Of
  <2> QED BY <1>5, <1>7, <2>1 DEF Number
<1> QED
  BY <1>6, <1>7

\* An end takes a session from the active ones of its set, to the completed ones
\* or to neither.
LEMMA OneIsEnded ==
    ASSUME NEW all \in Seq(SessionRows), NEW i \in DOMAIN all, all[i].status = "active",
           NEW outcome \in {"completed", "abandoned"},
           NEW after, IsWithOneEnded(after, all, i, outcome), NEW row
    PROVE  /\ SetId(all[i].row) # SetId(row) =>
                /\ Number(after, "active", row) = Number(all, "active", row)
                /\ Number(after, "completed", row) = Number(all, "completed", row)
           /\ SetId(all[i].row) = SetId(row) =>
                /\ Number(after, "active", row) = Number(all, "active", row) - 1
                /\ Number(after, "completed", row) =
                     IF outcome = "completed" THEN Number(all, "completed", row) + 1
                     ELSE Number(all, "completed", row)
<1>1. /\ DOMAIN after = DOMAIN all
      /\ \A j \in DOMAIN all : after[j].row = all[j].row
      /\ \A j \in DOMAIN all : after[j].status = IF j = i THEN outcome ELSE all[j].status
  <2>1. all[i] \in SessionRows
    OBVIOUS
  <2> DEFINE t == [all[i] EXCEPT !.status = outcome]
  <2>2. t.row = all[i].row /\ t.status = outcome
    BY <2>1 DEF SessionRows
  <2>3. after = [all EXCEPT ![i] = t]
    BY DEF IsWithOneEnded
  <2> HIDE DEF t
  <2> QED BY <2>2, <2>3
<1>2. CASE SetId(all[i].row) # SetId(row)
  <2>1. Of(after, "active", row) = Of(all, "active", row)
    BY <1>1, <1>2 DEF Of
  <2>2. Of(after, "completed", row) = Of(all, "completed", row)
    BY <1>1, <1>2 DEF Of
  <2> QED BY <1>2, <2>1, <2>2 DEF Number
<1>3. CASE SetId(all[i].row) = SetId(row)
  <2>1. Of(after, "active", row) = Of(all, "active", row) \ {i} /\ i \in Of(all, "active", row)
    BY <1>1, <1>3 DEF Of
  <2>2. Number(after, "active", row) = Number(all, "active", row) - 1
    <3>1. IsFiniteSet(Of(all, "active", row))
      BY OfIsFinite
    <3>2. Cardinality(Of(all, "active", row) \ {i}) = Cardinality(Of(all, "active", row)) - 1
      BY <2>1, <3>1, FS_RemoveElement
    <3> QED BY <2>1, <3>2 DEF Number
  <2>3. i \notin Of(all, "completed", row)
    BY DEF Of
  <2>4. CASE outcome = "completed"
    <3>1. Of(after, "completed", row) = Of(all, "completed", row) \cup {i}
      BY <1>1, <1>3, <2>4 DEF Of
    <3>2. Cardinality(Of(all, "completed", row) \cup {i}) = Cardinality(Of(all, "completed", row)) + 1
      BY <2>3, OfIsFinite, FS_AddElement
    <3> QED BY <1>3, <2>2, <2>4, <3>1, <3>2 DEF Number
  <2>5. CASE outcome # "completed"
    <3>1. Of(after, "completed", row) = Of(all, "completed", row)
      BY <1>1, <2>5 DEF Of
    <3> QED BY <1>3, <2>2, <2>5, <3>1 DEF Number
  <2> QED BY <2>4, <2>5
<1> QED
  BY <1>2, <1>3

\* A set that is started was free.
LEMMA StartKeepsRounds ==
    ASSUME NEW all \in Seq(SessionRows), NEW s \in SessionRows, s.status = "active",
           NEW more, IsWithOneMore(more, all, s), NEW shown, NEW p \in Panels, s.row \in shown[p],
           s.row \in Rows, Rounds(all, shown), NEW none, \A q \in Panels : none[q] = {}
    PROVE  Rounds(more, none)
<1>1. Number(all, "active", s.row) = 0 /\ LeastRun(all, s.row)
  BY DEF Rounds
<1>2. \A r \in Rows : Number(more, "completed", r) = Number(all, "completed", r)
  BY OneMoreSession
<1>3. ASSUME NEW r \in Rows, Number(more, "active", r) > 0
      PROVE  Number(more, "active", r) = 1 /\ LeastRun(more, r)
  <2>1. CASE SetId(s.row) = SetId(r)
    <3>1. Of(all, "active", r) = Of(all, "active", s.row) /\ Of(all, "completed", r) = Of(all, "completed", s.row)
      BY <2>1 DEF Of
    <3>2. Number(all, "active", r) = 0 /\ LeastRun(all, r)
      BY <1>1, <3>1 DEF Number, LeastRun
    <3>3. Number(more, "active", r) = Number(all, "active", r) + 1
      BY <2>1, OneMoreSession
    <3> QED BY <1>2, <3>2, <3>3 DEF LeastRun
  <2>2. CASE SetId(s.row) # SetId(r)
    <3>1. Number(more, "active", r) = Number(all, "active", r)
      BY <2>2, OneMoreSession
    <3> QED BY <1>2, <1>3, <3>1 DEF Rounds, LeastRun
  <2> QED BY <2>1, <2>2
<1> QED
  BY <1>2, <1>3 DEF Rounds

\* A set that is completed was one of the least run.
LEMMA EndKeepsRounds ==
    ASSUME NEW all \in Seq(SessionRows), NEW i \in DOMAIN all, all[i].status = "active",
           NEW outcome \in {"completed", "abandoned"},
           NEW after, IsWithOneEnded(after, all, i, outcome),
           NEW shown \in [Panels -> SUBSET Rows], Rounds(all, shown)
    PROVE  Rounds(after, shown)
<1> DEFINE r == all[i].row
<1>1. r \in Rows
  <2>1. all[i] \in SessionRows
    OBVIOUS
  <2> QED BY <2>1 DEF SessionRows
<1>2. Number(all, "active", r) > 0
  <2>1. i \in Of(all, "active", r)
    BY DEF Of
  <2> QED BY <2>1, OfIsFinite
<1>3. Number(all, "active", r) = 1 /\ LeastRun(all, r)
  BY <1>1, <1>2 DEF Rounds
<1> HIDE DEF r
<1>4. \A q \in Rows : Number(all, "completed", q) \in Nat /\ Number(all, "active", q) \in Nat
  BY OfIsFinite
<1>5. ASSUME NEW q \in Rows, SetId(q) = SetId(r)
      PROVE  /\ Number(after, "active", q) = 0 /\ LeastRun(all, q)
             /\ Number(after, "completed", q) \in {Number(all, "completed", q), Number(all, "completed", q) + 1}
  <2>1. Of(all, "active", q) = Of(all, "active", r) /\ Of(all, "completed", q) = Of(all, "completed", r)
    BY <1>5 DEF Of
  <2>2. Number(all, "active", q) = 1 /\ LeastRun(all, q)
    BY <1>3, <2>1 DEF Number, LeastRun
  <2>3. /\ Number(after, "active", q) = Number(all, "active", q) - 1
        /\ Number(after, "completed", q) = IF outcome = "completed" THEN Number(all, "completed", q) + 1
                                           ELSE Number(all, "completed", q)
    BY <1>5, OneIsEnded DEF r
  <2> QED BY <2>2, <2>3
<1>6. ASSUME NEW q \in Rows, SetId(q) # SetId(r)
      PROVE  /\ Number(after, "active", q) = Number(all, "active", q)
             /\ Number(after, "completed", q) = Number(all, "completed", q)
  BY <1>6, OneIsEnded DEF r
<1>7. \A q \in Rows : /\ Number(after, "completed", q) >= Number(all, "completed", q)
                      /\ Number(after, "completed", q) \in Nat
  <2> SUFFICES ASSUME NEW q \in Rows
               PROVE  /\ Number(after, "completed", q) >= Number(all, "completed", q)
                      /\ Number(after, "completed", q) \in Nat
    OBVIOUS
  <2>1. Number(after, "completed", q) \in {Number(all, "completed", q), Number(all, "completed", q) + 1}
    BY <1>5, <1>6
  <2>2. Number(all, "completed", q) \in Nat
    BY <1>4
  <2> QED BY <2>1, <2>2
<1>8. \A x, y \in Rows : Number(after, "completed", x) <= Number(after, "completed", y) + 1
  <2> SUFFICES ASSUME NEW x \in Rows, NEW y \in Rows
               PROVE  Number(after, "completed", x) <= Number(after, "completed", y) + 1
    OBVIOUS
  <2>1. CASE SetId(x) = SetId(r)
    <3>1. /\ Number(all, "completed", x) <= Number(all, "completed", y)
          /\ Number(after, "completed", x) <= Number(all, "completed", x) + 1
      BY <1>4, <1>5, <2>1 DEF LeastRun
    <3> QED BY <1>4, <1>7, <3>1
  <2>2. CASE SetId(x) # SetId(r)
    <3>1. /\ Number(after, "completed", x) = Number(all, "completed", x)
          /\ Number(all, "completed", x) <= Number(all, "completed", y) + 1
      BY <1>6, <2>2 DEF Rounds
    <3> QED BY <1>4, <1>7, <3>1
  <2> QED BY <2>1, <2>2
<1>9. ASSUME NEW x \in Rows, SetId(x) # SetId(r), LeastRun(all, x) PROVE LeastRun(after, x)
  BY <1>4, <1>6, <1>7, <1>9 DEF LeastRun
<1>10. ASSUME NEW x \in Rows, Number(after, "active", x) > 0
       PROVE  Number(after, "active", x) = 1 /\ LeastRun(after, x)
  <2>1. SetId(x) # SetId(r)
    BY <1>5, <1>10
  <2>2. Number(after, "active", x) = Number(all, "active", x)
    BY <1>6, <2>1
  <2>3. Number(all, "active", x) = 1 /\ LeastRun(all, x)
    BY <1>10, <2>2 DEF Rounds
  <2> QED BY <1>9, <2>1, <2>2, <2>3
<1>11. ASSUME NEW p \in Panels, NEW x \in shown[p]
       PROVE  Number(after, "active", x) = 0 /\ LeastRun(after, x)
  <2>1. x \in Rows /\ Number(all, "active", x) = 0 /\ LeastRun(all, x)
    BY DEF Rounds
  <2>2. SetId(x) # SetId(r)
    <3>1. SetId(x) = SetId(r) => Of(all, "active", x) = Of(all, "active", r)
      BY DEF Of
    <3> QED BY <1>3, <2>1, <3>1 DEF Number
  <2> QED BY <1>6, <1>9, <2>1, <2>2
<1> QED
  BY <1>8, <1>10, <1>11 DEF Rounds

\* What a panel is shown as free is one of the least run, and not running, when
\* both readings hold.
LEMMA ShowingKeepsRounds ==
    ASSUME TypeOK, Rounds(sessions, offered), NEW p \in Panels, ShowSets(p), ~misled'
    PROVE  Rounds(sessions, offered')
<1> DEFINE C == Counts("completed")
           A == Counts("active")
<1>1. sessions \in Seq(SessionRows) /\ offered \in [Panels -> SUBSET Rows]
  BY DEF TypeOK
<1>2. \A r \in Rows : /\ C[r] = Number(sessions, "completed", r)
                      /\ A[r] = Number(sessions, "active", r)
  BY DEF Counts, Count, Number, Of
<1> HIDE DEF C, A
<1>3. ASSUME NEW r \in FreeSets(C, A)
      PROVE  r \in Rows /\ Number(sessions, "active", r) = 0 /\ LeastRun(sessions, r)
  <2> DEFINE S == {C[q] : q \in Rows}
  <2>1. r \in Rows /\ C[r] = Min(S) /\ A[r] = 0
    BY DEF FreeSets, Floor
  <2>2. \A q \in Rows : C[q] \in Nat
    BY <1>1, <1>2, OfIsFinite
  <2>3. S \in SUBSET Nat /\ S # {}
    BY <2>1, <2>2
  <2>4. \A q \in Rows : C[q] \in S
    OBVIOUS
  <2> HIDE DEF S
  <2>5. \A q \in Rows : Min(S) <= C[q]
    BY <2>3, <2>4, LeastOf
  <2> QED BY <1>2, <2>1, <2>5 DEF LeastRun
<1>4. offered' = [offered EXCEPT ![p] = FreeSets(C, A)]
  BY DEF ShowSets, C, A
<1>5. \A q \in Panels : offered'[q] = IF q = p THEN FreeSets(C, A) ELSE offered[q]
  BY <1>1, <1>4
<1> QED
  BY <1>3, <1>5 DEF Rounds

LEMMA RoundInvInit == Init => RoundInv
<1> SUFFICES ASSUME Init PROVE RoundInv
  OBVIOUS
<1>1. \A status, row : Of(sessions, status, row) = {}
  BY DEF Init, Of
<1>2. \A status, row : Number(sessions, status, row) = 0
  BY <1>1, FS_EmptySet DEF Number
<1>3. \A p \in Panels : offered[p] = {}
  BY DEF Init
<1> QED
  BY <1>2, <1>3 DEF RoundInv, Rounds, LeastRun

LEMMA RoundInvNext ==
    ASSUME EnrollInv, RoundInv, [Next]_evars
    PROVE  RoundInv'
<1>1. /\ TypeOK /\ sessions \in Seq(SessionRows) /\ offered \in [Panels -> SUBSET Rows]
      /\ DOMAIN sessions = 1..Len(sessions) /\ Len(sessions) \in Nat
  BY DEF EnrollInv, TypeOK
<1>2. SUFFICES ASSUME OneChooses(sessions'), ~misled' PROVE Rounds(sessions', offered')
  BY DEF RoundInv, OneChooses, Rounds, Number, Of, LeastRun, SetId, TaskSets, SessionTasks
<1>3. ~misled
  BY <1>2 DEF Next, CountCompleted, ShowSets, StartChosen, StartByRotation, End, evars
<1>4. ASSUME NEW s, s.rotated = FALSE, sessions' = Append(sessions, s)
      PROVE  OneChooses(sessions)
  <2>1. \A i \in DOMAIN sessions : i \in DOMAIN sessions' /\ sessions'[i] = sessions[i]
    BY <1>1, <1>4
  <2> QED BY <1>2, <2>1 DEF OneChooses
<1>5. CASE sessions' = sessions
  <2>1. Rounds(sessions, offered)
    BY <1>2, <1>3, <1>5 DEF RoundInv
  <2>2. ASSUME NEW p \in Panels, ShowSets(p) PROVE Rounds(sessions, offered')
    BY <1>1, <1>2, <2>1, <2>2, ShowingKeepsRounds
  <2>3. ASSUME NEW p \in Panels, StartChosen(p) PROVE Rounds(sessions, offered')
    <3>1. \A q \in Panels : offered'[q] \subseteq offered[q]
      BY <1>1, <2>3 DEF StartChosen
    <3> QED BY <2>1, <3>1 DEF Rounds
  <2>4. ASSUME NEW p \in Panels, CountCompleted(p) PROVE Rounds(sessions, offered')
    <3>1. \A q \in Panels : offered'[q] \subseteq offered[q]
      BY <1>1, <2>4 DEF CountCompleted
    <3> QED BY <2>1, <3>1 DEF Rounds
  <2>5. (~ \E p \in Panels : CountCompleted(p) \/ ShowSets(p) \/ StartChosen(p)) => offered' = offered
    BY DEF Next, StartByRotation, End, evars
  <2> QED BY <1>5, <2>1, <2>2, <2>3, <2>4, <2>5
<1>6. ASSUME NEW p \in Panels, StartChosen(p), sessions' # sessions PROVE Rounds(sessions', offered')
  <2>1. PICK row \in offered[p] : Enroll(Unnamed, 1, row, FALSE)
    BY <1>6 DEF StartChosen
  <2> DEFINE s == NewSession(Unnamed, 1, row, FALSE)
  <2>2. sessions' = Append(sessions, s)
    BY <1>6, <2>1 DEF Enroll, NewSession
  <2>3. row \in Rows /\ IdOf(Unnamed) \in Nat \ {0}
    <3>1. Unnamed \in Requested
      BY DEF Requested
    <3>2. IdOf(Unnamed) \in Nat \ {0}
      BY <1>1, <3>1, WhoIsNamed DEF EnrollInv
    <3> QED BY <1>1, <2>1, <3>2
  <2>4. s \in SessionRows
    <3>1. 1 \in Nat \ {0} /\ FALSE \in BOOLEAN
      OBVIOUS
    <3> QED BY <2>3, <3>1, SessionType DEF NewSession
  <2>5. s.status = "active" /\ s.row = row /\ s.rotated = FALSE
    BY DEF NewSession
  <2> HIDE DEF s
  <2>6. Rounds(sessions, offered)
    BY <1>3, <1>4, <2>2, <2>5 DEF RoundInv
  <2>7. \A q \in Panels : offered'[q] = {}
    BY <1>1, <1>2, <1>3, <1>6 DEF StartChosen, OneChooses
  <2>8. IsWithOneMore(sessions', sessions, s)
    BY <2>2 DEF IsWithOneMore
  <2> QED BY <1>1, <2>1, <2>3, <2>4, <2>5, <2>6, <2>7, <2>8, StartKeepsRounds
<1>7. ASSUME NEW code \in HandCodes \cup {Unnamed}, NEW number \in Numbers,
             StartByRotation(code, number), sessions' # sessions
      PROVE  FALSE
  <2> DEFINE s == NewSession(code, number, RotationRow(IdOf(code)), TRUE)
             n == Len(sessions) + 1
  <2>1. sessions' = Append(sessions, s)
    <3>1. Enroll(code, number, RotationRow(IdOf(code)), TRUE)
      BY <1>7 DEF StartByRotation
    <3> QED BY <1>7, <3>1 DEF Enroll, NewSession
  <2>2. s.rotated = TRUE
    BY DEF NewSession
  <2> HIDE DEF s
  <2>3. n \in DOMAIN sessions' /\ sessions'[n] = s
    BY <1>1, <2>1
  <2> QED BY <1>2, <2>2, <2>3 DEF OneChooses
<1>8. ASSUME NEW i \in DOMAIN sessions, NEW outcome \in {"completed", "abandoned"}, End(i, outcome)
      PROVE  Rounds(sessions', offered')
  <2>1. /\ sessions' = [sessions EXCEPT ![i].status = outcome] /\ offered' = offered
        /\ sessions[i].status = "active"
    BY <1>8 DEF End
  <2>2. \A j \in DOMAIN sessions : j \in DOMAIN sessions' /\ sessions'[j].rotated = sessions[j].rotated
    <3>1. sessions[i] \in SessionRows
      BY <1>1
    <3> DEFINE t == [sessions[i] EXCEPT !.status = outcome]
    <3>2. t.rotated = sessions[i].rotated /\ sessions' = [sessions EXCEPT ![i] = t]
      BY <2>1, <3>1 DEF SessionRows
    <3> HIDE DEF t
    <3> QED BY <3>2
  <2>3. Rounds(sessions, offered)
    BY <1>2, <1>3, <2>2 DEF RoundInv, OneChooses
  <2>4. IsWithOneEnded(sessions', sessions, i, outcome)
    BY <2>1 DEF IsWithOneEnded
  <2> QED BY <1>1, <2>1, <2>3, <2>4, EndKeepsRounds
<1> QED
  BY <1>5, <1>6, <1>7, <1>8 DEF Next, CountCompleted, ShowSets, evars

THEOREM RoundInvariant == Spec => []RoundInv
<1>1. Init => RoundInv
  BY RoundInvInit
<1>2. EnrollInv /\ RoundInv /\ [Next]_evars => RoundInv'
  BY RoundInvNext
<1> QED BY <1>1, <1>2, EnrollInvariant, PTL DEF Spec

-----------------------------------------------------------------------------
(* Every task in every place *)

\* Finite counts that are all alike.
LEMMA AllAlike ==
    ASSUME NEW n \in Nat, NEW S \in SUBSET (0..n), Cardinality(S) = 1
    PROVE  S # {} /\ \A x, y \in S : x = y
<1>1. IsFiniteSet(S)
  <2>1. IsFiniteSet(0..n)
    BY FS_Interval
  <2> QED BY <2>1, FS_Subset
<1>2. PICK x : S = {x}
  BY <1>1, FS_Singleton
<1> QED
  BY <1>2

\* Among indices with a key, as many have a key of one set as of another that is
\* as large, when as many have each key.
Keyed(I, key, X) == {i \in I : key[i] \in X}

LEMMA SameKeys ==
    ASSUME NEW I, IsFiniteSet(I), NEW key, NEW X, NEW Y, IsFiniteSet(X), IsFiniteSet(Y),
           Cardinality(X) = Cardinality(Y),
           \A x \in X, y \in Y : Cardinality(Keyed(I, key, {x})) = Cardinality(Keyed(I, key, {y}))
    PROVE  Cardinality(Keyed(I, key, X)) <= Cardinality(Keyed(I, key, Y))
<1> DEFINE With(x) == {i \in I : key[i] = x}
           In(Z) == {i \in I : key[i] \in Z}
<1>1. \A x : IsFiniteSet(With(x))
  <2>1. \A x : With(x) \in SUBSET I
    OBVIOUS
  <2> HIDE DEF With
  <2> QED BY <2>1, FS_Subset
<1>2. \A x \in X, y \in Y : Cardinality(With(x)) = Cardinality(With(y))
  <2>1. \A x : With(x) = Keyed(I, key, {x})
    BY DEF Keyed
  <2> HIDE DEF With
  <2> QED BY <2>1
<1>3. PICK b : b \in Bijection(X, Y)
  <2>1. ExistsBijection(X, Y)
    BY FS_SameCardinalityBij
  <2> QED BY <2>1 DEF ExistsBijection
<1>4. b \in [X -> Y] /\ \A x, z \in X : b[x] = b[z] => x = z
  BY <1>3 DEF Bijection, Injection, IsInjective
<1> DEFINE g == [x \in X |-> CHOOSE h : h \in Bijection(With(x), With(b[x]))]
<1>5. ASSUME NEW x \in X PROVE g[x] \in Bijection(With(x), With(b[x]))
  <2>1. b[x] \in Y
    BY <1>4
  <2> HIDE DEF With
  <2>2. Cardinality(With(x)) = Cardinality(With(b[x]))
    BY <1>2, <2>1
  <2>3. ExistsBijection(With(x), With(b[x]))
    BY <1>1, <2>2, FS_SameCardinalityBij
  <2> QED BY <2>3 DEF ExistsBijection
<1>6. ASSUME NEW x \in X
      PROVE  /\ \A i \in With(x) : g[x][i] \in With(b[x])
             /\ \A i, j \in With(x) : g[x][i] = g[x][j] => i = j
  <2> HIDE DEF g, With
  <2> QED BY <1>5 DEF Bijection, Injection, IsInjective
<1> DEFINE f == [i \in In(X) |-> g[key[i]][i]]
<1> HIDE DEF g
<1>7. ASSUME NEW i \in In(X) PROVE key[i] \in X /\ i \in With(key[i]) /\ i \in I
  OBVIOUS
<1>8. ASSUME NEW i \in In(X) PROVE f[i] \in In(Y) /\ key[f[i]] = b[key[i]] /\ f[i] = g[key[i]][i]
  <2>1. f[i] = g[key[i]][i]
    OBVIOUS
  <2>2. g[key[i]][i] \in With(b[key[i]])
    BY <1>6, <1>7
  <2>3. b[key[i]] \in Y
    BY <1>4, <1>7
  <2> QED BY <2>1, <2>2, <2>3
<1>9. ASSUME NEW i \in In(X), NEW j \in In(X), f[i] = f[j] PROVE i = j
  <2>1. b[key[i]] = b[key[j]]
    BY <1>8, <1>9
  <2>2. key[i] = key[j]
    BY <1>4, <1>7, <2>1
  <2>3. g[key[i]][i] = g[key[i]][j] /\ j \in With(key[i]) /\ i \in With(key[i]) /\ key[i] \in X
    BY <1>7, <1>8, <1>9, <2>2
  <2> QED BY <1>6, <2>3
<1>10. f \in [In(X) -> In(Y)]
  BY <1>8
<1>11. f \in Injection(In(X), In(Y))
  <2> HIDE DEF f, In
  <2> QED BY <1>9, <1>10 DEF Injection, IsInjective
<1>12. IsFiniteSet(In(Y))
  <2>1. In(Y) \in SUBSET I
    OBVIOUS
  <2> HIDE DEF In
  <2> QED BY <2>1, FS_Subset
<1>13. Cardinality(In(X)) <= Cardinality(In(Y))
  <2> HIDE DEF f, In
  <2> QED BY <1>11, <1>12, FS_Injection
<1> QED
  BY <1>13 DEF Keyed

LEMMA WithinNone ==
    ASSUME NEW S \in SUBSET Nat, S # {}, \A x, y \in S : x = y
    PROVE  Within(S, 0)
<1>1. PICK x \in S : \A y \in S : y = x
  OBVIOUS
<1>2. Max(S) \in S
  <2>1. \E m \in S : \A y \in S : m >= y
    BY <1>1
  <2> QED BY <2>1 DEF Max
<1>3. Max(S) = x /\ Min(S) = x
  BY <1>1, <1>2, LeastOf
<1> QED
  BY <1>1, <1>3 DEF Within

LEMMA PlacesOfASet == 1 \in Rows /\ DOMAIN SetId(1) = 1..Len(SetId(1))
<1>1. 1 \in Rows /\ Study.design[1] \in Seq(DOMAIN Study.tasks) /\ Study.tasks_per_session \in Nat
  BY Design, EnrollConstants DEF Rows
<1> DEFINE row == Study.design[1]
           S == {Study.tasks_per_session, Len(row)}
<1>2. Len(row) \in Nat /\ S \in SUBSET Nat /\ S # {}
  BY <1>1
<1>3. Min(S) \in Nat /\ Min(S) <= Len(row)
  <2> HIDE DEF S
  <2>1. Min(S) \in S /\ \A y \in S : Min(S) <= y
    BY <1>2, LeastOf
  <2> QED BY <1>2, <2>1 DEF S
<1>4. SetId(1) = IF Study.tasks_per_session = 0 THEN row ELSE SubSeq(row, 1, Min(S))
  BY <1>1 DEF SetId, TaskSets, SessionTasks, Rows
<1> DEFINE m == Min(S)
<1>5. m \in Nat /\ m <= Len(row) /\ SetId(1) = IF Study.tasks_per_session = 0 THEN row ELSE SubSeq(row, 1, m)
  BY <1>3, <1>4
<1> HIDE DEF m, S
<1>6. DOMAIN SubSeq(row, 1, m) = 1..Len(SubSeq(row, 1, m)) /\ DOMAIN row = 1..Len(row)
  BY <1>1, <1>5
<1> HIDE DEF row
<1> QED
  BY <1>1, <1>5, <1>6

LEMMA ServedAlike ==
    ASSUME EnrollInv, BalancedDesign, NEW place \in DOMAIN SetId(1),
           NEW t \in DOMAIN Study.tasks, NEW u \in DOMAIN Study.tasks,
           \A r, q \in Rows : Number(sessions, "completed", r) = Number(sessions, "completed", q)
    PROVE  Served(t, place) <= Served(u, place)
<1> DEFINE I == {i \in DOMAIN sessions : sessions[i].status = "completed"}
           key == [i \in DOMAIN sessions |-> sessions[i].row]
           Those(task) == {r \in Rows : SetId(r)[place] = task}
<1>1. sessions \in Seq(SessionRows) /\ DOMAIN sessions = 1..Len(sessions) /\ Len(sessions) \in Nat
  BY DEF EnrollInv, TypeOK
<1>2. \A i \in I : i \in DOMAIN sessions /\ key[i] = sessions[i].row /\ sessions[i].row \in Rows
  <2>1. \A i \in DOMAIN sessions : sessions[i] \in SessionRows
    BY <1>1
  <2> QED BY <2>1 DEF SessionRows
<1>3. IsFiniteSet(I)
  <2>1. IsFiniteSet(1..Len(sessions))
    BY <1>1, FS_Interval
  <2>2. I \in SUBSET (1..Len(sessions))
    BY <1>1
  <2> QED BY <2>1, <2>2, FS_Subset
<1>4. Len(Study.design) \in Nat /\ IsFiniteSet(Rows) /\ Cardinality(Rows) = Len(Study.design)
  BY Design, FS_Interval
<1>5. \A task : IsFiniteSet(Those(task)) /\ Cardinality(Those(task)) \in 0..Len(Study.design)
  <2> SUFFICES ASSUME NEW task
               PROVE  IsFiniteSet(Those(task)) /\ Cardinality(Those(task)) \in 0..Len(Study.design)
    OBVIOUS
  <2>1. Those(task) \in SUBSET Rows
    OBVIOUS
  <2> HIDE DEF Those
  <2>2. IsFiniteSet(Those(task)) /\ Cardinality(Those(task)) <= Len(Study.design)
    BY <1>4, <2>1, FS_Subset
  <2>3. Cardinality(Those(task)) \in Nat
    BY <2>2, FS_CardinalityType
  <2> QED BY <1>4, <2>2, <2>3
<1>6. Cardinality(Those(t)) = Cardinality(Those(u))
  <2> DEFINE S == {Cardinality(Those(task)) : task \in DOMAIN Study.tasks}
  <2>1. place \in 1..Len(SetId(1))
    BY PlacesOfASet
  <2>2. \A task : {r \in DOMAIN TaskSets(Study) : TaskSets(Study)[r][place] = task} = Those(task)
    BY DEF SetId, Rows, TaskSets
  <2>3. Cardinality(S) = 1
    <3>1. Cardinality({Cardinality({r \in DOMAIN TaskSets(Study) : TaskSets(Study)[r][place] = task}) :
                         task \in DOMAIN Study.tasks}) = 1
      BY <2>1 DEF BalancedDesign, PositionsAreEven
    <3> HIDE DEF Those
    <3> QED BY <2>2, <3>1
  <2>4. S \in SUBSET (0..Len(Study.design))
    BY <1>5
  <2>5. Cardinality(Those(t)) \in S /\ Cardinality(Those(u)) \in S
    OBVIOUS
  <2> HIDE DEF S, Those
  <2> QED BY <1>4, <2>3, <2>4, <2>5, AllAlike
<1>7. ASSUME NEW x \in Rows PROVE Keyed(I, key, {x}) = Of(sessions, "completed", x)
  <2>1. \A r \in Rows : SetId(r) = SetId(x) => r = x
    BY DEF BalancedDesign, IsInjective, SetId, TaskSets, Rows
  <2> QED BY <1>2, <2>1 DEF Of, Keyed
<1>8. \A x, y \in Rows : Cardinality(Keyed(I, key, {x})) = Cardinality(Keyed(I, key, {y}))
  BY <1>7 DEF Number
<1>9. \A task : Keyed(I, key, Those(task))
                  = {i \in DOMAIN sessions : sessions[i].status = "completed"
                                             /\ SetId(sessions[i].row)[place] = task}
  BY <1>2 DEF Keyed
<1>10. Those(t) \subseteq Rows /\ Those(u) \subseteq Rows
  OBVIOUS
<1> HIDE DEF I, key, Those
<1>11. Cardinality(Keyed(I, key, Those(t))) <= Cardinality(Keyed(I, key, Those(u)))
  <2>1. \A x \in Those(t), y \in Those(u) :
          Cardinality(Keyed(I, key, {x})) = Cardinality(Keyed(I, key, {y}))
    BY <1>8, <1>10
  <2>2. IsFiniteSet(Those(t)) /\ IsFiniteSet(Those(u))
    BY <1>5
  <2> QED BY <1>3, <1>6, <2>1, <2>2, SameKeys
<1> QED
  BY <1>9, <1>11 DEF Served

LEMMA RoundsEven ==
    ASSUME EnrollInv, RoundInv, BalancedDesign
    PROVE  RoundsAreEven
<1> DEFINE completed == {Count("completed", r) : r \in Rows}
<1> SUFFICES ASSUME OneChooses(sessions), ~misled
             PROVE  /\ Within(completed, 1)
                    /\ Cardinality(completed) = 1 =>
                         \A place \in DOMAIN SetId(1) :
                           Within({Served(task, place) : task \in DOMAIN Study.tasks}, 0)
  BY DEF RoundsAreEven, EvenlyCompleted, OnePanelChooses, OneChooses
<1>1. sessions \in Seq(SessionRows) /\ Len(sessions) \in Nat /\ DOMAIN sessions = 1..Len(sessions)
  BY DEF EnrollInv, TypeOK
<1>2. Rounds(sessions, offered)
  BY DEF RoundInv
<1>3. \A r \in Rows : Count("completed", r) = Number(sessions, "completed", r)
  BY DEF Count, Number, Of
<1>4. completed \in SUBSET (0..Len(sessions)) /\ completed # {}
  BY <1>1, <1>3, OfIsFinite, PlacesOfASet
<1>5. Within(completed, 1)
  <2>1. \A x, y \in completed : x <= y + 1
    BY <1>2, <1>3 DEF Rounds
  <2>2. completed \in SUBSET Nat
    BY <1>1, <1>4
  <2> HIDE DEF completed
  <2> QED BY <1>4, <2>1, <2>2, WithinOne
<1>6. ASSUME Cardinality(completed) = 1, NEW place \in DOMAIN SetId(1)
      PROVE  Within({Served(task, place) : task \in DOMAIN Study.tasks}, 0)
  <2> DEFINE S == {Served(task, place) : task \in DOMAIN Study.tasks}
  <2>1. \A r \in Rows : Count("completed", r) \in completed
    OBVIOUS
  <2>2. \A r, q \in Rows : Number(sessions, "completed", r) = Number(sessions, "completed", q)
    <3> HIDE DEF completed
    <3>1. \A x, y \in completed : x = y
      BY <1>1, <1>4, <1>6, AllAlike
    <3> QED BY <1>3, <2>1, <3>1
  <2>3. \A task : Served(task, place) \in Nat
    <3>1. IsFiniteSet(1..Len(sessions))
      BY <1>1, FS_Interval
    <3> DEFINE T(task) == {i \in DOMAIN sessions :
                 sessions[i].status = "completed" /\ SetId(sessions[i].row)[place] = task}
    <3>2. \A task : T(task) \in SUBSET (1..Len(sessions))
      BY <1>1
    <3>3. \A task : Served(task, place) = Cardinality(T(task))
      BY DEF Served
    <3> HIDE DEF T
    <3>4. \A task : IsFiniteSet(T(task))
      BY <3>1, <3>2, FS_Subset
    <3> QED BY <3>3, <3>4, FS_CardinalityType
  <2>4. \A t, u \in DOMAIN Study.tasks : Served(t, place) = Served(u, place)
    <3> SUFFICES ASSUME NEW t \in DOMAIN Study.tasks, NEW u \in DOMAIN Study.tasks
                 PROVE  Served(t, place) = Served(u, place)
      OBVIOUS
    <3>1. Served(t, place) <= Served(u, place)
      BY <2>2, ServedAlike
    <3>2. Served(u, place) <= Served(t, place)
      BY <2>2, ServedAlike
    <3> QED BY <2>3, <3>1, <3>2
  <2>5. DOMAIN Study.tasks # {}
    <3>1. place \in 1..Len(SetId(1))
      BY PlacesOfASet
    <3>2. Cardinality({Cardinality({r \in DOMAIN TaskSets(Study) : TaskSets(Study)[r][place] = task}) :
                         task \in DOMAIN Study.tasks}) = 1
      BY <3>1 DEF BalancedDesign, PositionsAreEven
    <3>3. Cardinality({}) # 1
      BY FS_EmptySet
    <3> QED BY <3>2, <3>3
  <2>6. S \in SUBSET Nat /\ S # {} /\ \A x, y \in S : x = y
    BY <2>3, <2>4, <2>5
  <2> HIDE DEF S
  <2>7. Within(S, 0)
    BY <2>6, WithinNone
  <2> QED BY <2>7 DEF S
<1> QED
  BY <1>5, <1>6

\* Both ways of handing out task sets, for any number of participants, sessions
\* and overlapping runs, of a study whose sets balance each other (which TLC
\* evaluates of the comparison study and of the instance it checks).  The rounds
\* are even for one panel as long as the two readings its lists are made of hold
\* together; when they do not they need not be (the run picker).
THEOREM SetsUsedEvenly ==
    ASSUME BalancedDesign
    PROVE  Spec => []SetsAreUsedEvenly
<1>1. EnrollInv /\ RoundInv => SetsAreUsedEvenly
  BY RotationEven, RoundsEven DEF SetsAreUsedEvenly
<1> QED BY <1>1, EnrollInvariant, RoundInvariant, PTL
=============================================================================
