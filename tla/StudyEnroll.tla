----------------------------- MODULE StudyEnroll -----------------------------
(***************************************************************************)
(* Enrolling participants and sharing out the task sets: StudyStore.enroll *)
(* (app/studies/store.py), study_session_start and task_set_status         *)
(* (app/studies/engine.py), and the rotation of app/studies/protocol.py.   *)
(*                                                                         *)
(* An enrolment is one transaction under the write lock, so it is one      *)
(* action.  The list of sets a panel chooses from is two readings of the   *)
(* database with no lock about them, and the choice comes later still.     *)
(* A code is a pair <<i, k>>: <<2, 0>> is P02, <<2, 1>> is P02b, and so on.*)
(***************************************************************************)
EXTENDS StudyProtocol

CONSTANTS
    Panels,       \* the panels sessions are started from
    Study,        \* the definition, with its tasks and its design
    HandCodes,    \* codes an experimenter may type
    Letters,     \* how many letters a generated code may step aside by
    Numbers,      \* bound: the session numbers asked for
    Failures,     \* whether a reading may fail, or an answer not reach its panel
    MaxSessions   \* bound

\* A set is a row of the design; its name, set_id, is the order of its tasks.
Rows == DOMAIN Study.design
SetId(row) == TaskSets(Study)[row]

ASSUME EnrollConstants ==
    /\ Validate(Study) = {} /\ Rows # {}
    /\ Study.design \in Seq(Seq(DOMAIN Study.tasks)) /\ Study.tasks_per_session \in Nat
    /\ Letters \in Nat /\ MaxSessions \in Nat
    /\ Numbers \subseteq Nat \ {0} /\ Failures \in BOOLEAN
    /\ HandCodes \subseteq (Nat \X Nat)
    /\ IsFiniteSet(HandCodes) /\ Cardinality(HandCodes) <= Letters

VARIABLES
    participants,  \* participants.code, by id
    sessions,      \* study_sessions, by id
    counted,       \* per panel: the completed sessions of each set, as first read
    offered,       \* the sets each panel was last shown as free to run
    misled         \* history: a panel's list ceased to be what the database holds

evars == <<participants, sessions, counted, offered, misled>>

\* rotated: no set was named, so the participant's id decided.
SessionRows == [participant: Nat \ {0}, number: Nat \ {0}, row: Rows, rotated: BOOLEAN,
                status: {"active", "completed", "abandoned"}]
Codes == Nat \X Nat
Unnamed == <<>>    \* an empty code: a new participant
Uncounted == <<>>

TypeOK ==
    /\ participants \in Seq(Codes)
    /\ sessions \in Seq(SessionRows)
    /\ \A i \in DOMAIN sessions : sessions[i].participant \in DOMAIN participants
    /\ counted \in [Panels -> [Rows -> Nat] \cup {Uncounted}]
    /\ offered \in [Panels -> SUBSET Rows]
    /\ misled \in BOOLEAN

Init ==
    /\ participants = <<>>
    /\ sessions = <<>>
    /\ counted = [p \in Panels |-> Uncounted]
    /\ offered = [p \in Panels |-> {}]
    /\ misled = FALSE

-----------------------------------------------------------------------------
(* Codes, and places in the rotation *)

Taken == {participants[i] : i \in DOMAIN participants}

PlainCode(id) == <<id, 0>>    \* mutant: does not step aside
\* _generated_code: the first of P02, P02b, P02c, ... that nobody has.
GeneratedCode(id) ==
    <<id, Min({k \in 0..Letters : <<id, k>> \notin Taken})>>

\* The id of the participant a start request names, who may be new.
IdOf(code) ==
    IF code \in Taken THEN CHOOSE i \in DOMAIN participants : participants[i] = code
    ELSE Len(participants) + 1

WithParticipant(code) ==
    IF code \in Taken THEN participants
    ELSE Append(participants, IF code = Unnamed THEN GeneratedCode(Len(participants) + 1)
                              ELSE code)

RowFromZero(id) == id % Len(Study.design)    \* mutant: ids start at 1, not 0
RowBySession(id) == AssignedRow(Study, Len(sessions) + 1)    \* mutant: by how many have run
\* assign_task_order, by the participant's id
RotationRow(id) == AssignedRow(Study, id)

-----------------------------------------------------------------------------
(* The rounds *)

Count(status, row) ==
    Cardinality({i \in DOMAIN sessions :
        sessions[i].status = status /\ SetId(sessions[i].row) = SetId(row)})

\* count_task_orders, keyed by set, and the running sessions counted the same way
Counts(status) == [r \in Rows |-> Count(status, r)]
NoRows == [r \in Rows |-> 0]    \* what a reading that fails gives

\* The least-run set defines the round.
Floor(counts) == Min({counts[r] : r \in Rows})
FreeByFloor(counts, running) == {r \in Rows : counts[r] = Floor(counts)}
                                  \* mutant: a running session does not count
\* The sets task_set_status lists as neither used nor in progress.
FreeSets(counts, running) ==
    {r \in Rows : counts[r] = Floor(counts) /\ running[r] = 0}

Readings(counts) == {counts} \cup (IF Failures THEN {NoRows} ELSE {})

\* GET control/sets, as a panel's page opens: the completed sessions first,
CountCompleted(p) ==
    /\ Len(sessions) < MaxSessions
    /\ \E counts \in Readings(Counts("completed")) : counted' = [counted EXCEPT ![p] = counts]
    /\ offered' = [offered EXCEPT ![p] = {}]
    /\ UNCHANGED <<participants, sessions, misled>>

\* and then those that are running.
ShowSets(p) ==
    /\ counted[p] # Uncounted
    /\ \E running \in Readings(Counts("active")) :
         /\ offered' = [offered EXCEPT ![p] = FreeSets(counted[p], running)]
         /\ misled' = (misled \/ counted[p] # Counts("completed") \/ running # Counts("active"))
    /\ counted' = [counted EXCEPT ![p] = Uncounted]
    /\ UNCHANGED <<participants, sessions>>

-----------------------------------------------------------------------------
(* StudyStore.enroll *)

HasRun(id, number) ==
    \E i \in DOMAIN sessions : sessions[i].participant = id /\ sessions[i].number = number

\* A code nobody may be given, or a run the participant already has: UNIQUE.
Conflict(code, number) ==
    \/ HasRun(IdOf(code), number)
    \/ code = Unnamed /\ GeneratedCode(Len(participants) + 1) \in Taken

AfterFailureKept(code) == WithParticipant(code)    \* mutant: committed before it
AfterFailure(code) == participants                 \* rolled back

\* Anything may fail inside the transaction, a conflict always does.
Enroll(code, number, row, rotated) ==
    /\ Len(sessions) < MaxSessions
    /\ \/ /\ ~Conflict(code, number)
          /\ participants' = WithParticipant(code)
          /\ sessions' = Append(sessions,
               [participant |-> IdOf(code), number |-> number, row |-> row,
                rotated |-> rotated, status |-> "active"])
       \/ /\ participants' = AfterFailure(code)
          /\ UNCHANGED sessions

\* A start request that names no set.
StartByRotation(code, number) ==
    /\ Enroll(code, number, RotationRow(IdOf(code)), TRUE)
    /\ UNCHANGED <<counted, offered, misled>>

\* Choosing one of the sets the panel was shown as free: always a new
\* participant's first session, which is what the panel's page sends.  A start
\* that is refused, and one whose answer is lost, leaves the same list on screen.
StartChosen(p) ==
    /\ \E row \in offered[p] : Enroll(Unnamed, 1, row, FALSE)
    /\ \/ /\ sessions' # sessions
          /\ offered' = [offered EXCEPT ![p] = {}]
          /\ UNCHANGED misled
       \/ /\ sessions' = sessions \/ Failures
          /\ misled' = (misled \/ sessions' # sessions)
          /\ UNCHANGED offered
    /\ UNCHANGED counted

\* However StudySession's handlers end it.
End(i, outcome) ==
    /\ sessions[i].status = "active"
    /\ sessions' = [sessions EXCEPT ![i].status = outcome]
    /\ UNCHANGED <<participants, counted, offered, misled>>

Next ==
    \/ \E p \in Panels : CountCompleted(p) \/ ShowSets(p) \/ StartChosen(p)
    \/ \E code \in HandCodes \cup {Unnamed}, number \in Numbers : StartByRotation(code, number)
    \/ \E i \in DOMAIN sessions, outcome \in {"completed", "abandoned"} : End(i, outcome)

Spec == Init /\ [][Next]_evars

-----------------------------------------------------------------------------
(* Properties *)

\* enroll is one transaction: whatever is refused, every participant has a
\* session, so an id, and with it a place in the rotation, is never spent on
\* nobody.
NobodyWithoutSession ==
    \A id \in DOMAIN participants :
      \E i \in DOMAIN sessions : sessions[i].participant = id

\* _generated_code: codes are unique, and whatever was typed by hand the next
\* new participant can be enrolled under a code of their own.
NextCodeIsFree ==
    /\ \A i, j \in DOMAIN participants : participants[i] = participants[j] => i = j
    /\ GeneratedCode(Len(participants) + 1) \notin Taken

RunsOf(row) == {i \in DOMAIN sessions : sessions[i].row = row}
Within(counts, most) == Max(counts) - Min(counts) <= most

\* The rotation: while every participant has had one session, in any order of
\* new and refused enrolments, no row of the design is ahead of another by more
\* than one; and a participant who comes back keeps the row they had.
RotationIsEven ==
    (\A i \in DOMAIN sessions : sessions[i].rotated) =>
      /\ (\A i \in DOMAIN sessions : sessions[i].number = 1) =>
           Within({Cardinality(RunsOf(r)) : r \in Rows}, 1)
      /\ \A i, j \in DOMAIN sessions :
           sessions[i].participant = sessions[j].participant =>
             sessions[i].row = sessions[j].row

\* How often completed sessions had a task in a place of their order
Served(task, place) ==
    Cardinality({i \in DOMAIN sessions :
      sessions[i].status = "completed" /\ SetId(sessions[i].row)[place] = task})

\* One panel at a time starts the sessions, and only on sets it is shown as free.
OnePanelChooses ==
    (\A p, q \in Panels : p = q) /\ \A i \in DOMAIN sessions : ~sessions[i].rotated

\* No set is completed twice before every other has been completed once.
EvenlyCompleted == Within({Count("completed", r) : r \in Rows}, 1)

\* The rounds: while one panel at a time chooses, and the readings its list is
\* made of were both there and still true together, no set has been completed
\* twice before every other has been completed once, whatever is abandoned and
\* however runs overlap; and whenever a round is over, every task has been in
\* every place equally often.
RoundsAreEven ==
    OnePanelChooses /\ ~misled =>
      /\ EvenlyCompleted
      /\ Cardinality({Count("completed", r) : r \in Rows}) = 1 =>
           \A place \in DOMAIN SetId(1) :
             Within({Served(task, place) : task \in DOMAIN Study.tasks}, 0)

\* What the sets have to be for that: no two of them alike, and over all of them
\* every task in every place equally often.
BalancedDesign ==
    /\ IsInjective(TaskSets(Study))
    /\ PositionsAreEven(TaskSets(Study), DOMAIN Study.tasks, Len(SetId(1)))

\* Both ways of handing out task sets use them evenly.
SetsAreUsedEvenly == RotationIsEven /\ RoundsAreEven
=============================================================================
