---------------------------- MODULE StudyProtocol ----------------------------
(***************************************************************************)
(* What a study's definition becomes for one session: its design and the   *)
(* rotation, the steps with this participant's models filled in, and what  *)
(* is wrong with a definition (app/studies/protocol.py and definition.py). *)
(* A step's words are left out, but not whether a block names the task.    *)
(***************************************************************************)
EXTENDS Integers, Sequences, FiniteSets, FiniteSetsExt, SequencesExt

-----------------------------------------------------------------------------
(* Designs *)

LatinSquare(keys) ==
    LET n == Len(keys)
    IN [row \in 1..n |-> [column \in 1..n |-> keys[1 + ((column + row - 2) % n)]]]

\* The Williams design's first row, from 0: 0, 1, n-1, 2, n-2, ...
Zigzag(n) == [i \in 1..n |-> IF i % 2 = 0 THEN i \div 2 ELSE (n - (i \div 2)) % n]

\* An odd n needs the rows reversed too.
BalancedLatinSquare(keys) ==
    LET n == Len(keys)
        rows == [r \in 1..n |-> [i \in 1..n |-> (Zigzag(n)[i] + r - 1) % n]]
        all == IF n % 2 = 1 THEN rows \o [r \in 1..n |-> Reverse(rows[r])] ELSE rows
    IN [r \in DOMAIN all |-> [i \in 1..n |-> keys[1 + all[r][i]]]]

\* Study.session_tasks, which set_id makes the name of a set
SessionTasks(study, row) ==
    IF study.tasks_per_session = 0 THEN row
    ELSE SubSeq(row, 1, Min({study.tasks_per_session, Len(row)}))
TaskSets(study) == [r \in DOMAIN study.design |-> SessionTasks(study, study.design[r])]

\* assign_task_order: the n-th participant's row
AssignedRow(study, n) == 1 + ((Max({1, n}) - 1) % Len(study.design))
AssignTaskOrder(study, n) ==
    IF study.design = <<>> THEN <<>> ELSE TaskSets(study)[AssignedRow(study, n)]

-----------------------------------------------------------------------------
(* Writing steps.  A reference is to a model that is always the same, or to *)
(* a role ("a", "b") of the task in a slot of the participant's order; the  *)
(* printed object to hand over is named in the same way.                    *)

Nothing == [kind |-> "", name |-> "", slot |-> 0, role |-> ""]
Fixed(name) == [Nothing EXCEPT !.kind = "fixed", !.name = name]
TaskModel(slot, role) == [Nothing EXCEPT !.kind = "task", !.slot = slot, !.role = role]

Blocks == {"do", "say", "ask", "note"}
\* A block with {label} or {description} in its text
Naming(kind) == [kind |-> kind, names |-> TRUE]
Plain(kinds) == [i \in DOMAIN kinds |-> [kind |-> kinds[i], names |-> FALSE]]

Step(id, kinds) ==
    [id |-> id, script |-> Plain(kinds), model |-> Nothing, physical |-> Nothing, task_slot |-> 0]
Loads(ref, step) == [step EXCEPT !.model = ref]
HandsOver(ref, step) == [step EXCEPT !.physical = ref]
OfTask(slot, step) == [step EXCEPT !.task_slot = slot]

-----------------------------------------------------------------------------
(* Resolving them for one session *)

NoTask == ""
ResolveTaskKey(ref, order) ==
    IF ref.kind = "task" /\ ref.slot \in DOMAIN order THEN order[ref.slot] ELSE NoTask

\* The model or the printed object a role of a task names, if it names one
RoleOf(study, task, role, thing) ==
    IF role \in DOMAIN study.tasks[task] THEN study.tasks[task][role][thing] ELSE ""

Resolve(study, ref, order, thing) ==
    LET key == ResolveTaskKey(ref, order)
    IN IF key \in DOMAIN study.tasks
         THEN [name |-> RoleOf(study, key, ref.role, thing), task |-> key, role |-> ref.role]
         ELSE [name |-> ref.name, task |-> NoTask, role |-> ""]

ResolveModel(study, ref, order) == Resolve(study, ref, order, "model")
ResolvePhysical(study, ref, order) == Resolve(study, ref, order, "physical").name

\* An unknown kind of block becomes a note; a task's words fill its blocks.
ResolveScript(script, task) ==
    [i \in DOMAIN script |->
      [kind |-> IF script[i].kind \in Blocks THEN script[i].kind ELSE "note",
       names |-> script[i].names /\ task = NoTask]]

ResolveStep(study, step, order) ==
    LET model == ResolveModel(study, step.model, order)
        ofSlot == ResolveTaskKey(TaskModel(step.task_slot, "a"), order)
        key == IF model.task # NoTask THEN model.task ELSE ofSlot
        task == IF key \in DOMAIN study.tasks THEN key ELSE NoTask
    IN [id |-> step.id, model |-> model, task |-> task,
        physical |-> ResolvePhysical(study, step.physical, order),
        script |-> ResolveScript(step.script, task)]

ResolveSteps(study, order) ==
    [i \in DOMAIN study.steps |-> ResolveStep(study, study.steps[i], order)]

\* Every model the study can ask the viewer to load
RequiredModels(study) ==
    LET refs == {study.steps[i].model : i \in DOMAIN study.steps}
        roles == {ref.role : ref \in {r \in refs : r.kind = "task"}}
        used == UNION {Range(order) : order \in Range(TaskSets(study))}
    IN ({ref.name : ref \in refs}
        \cup {RoleOf(study, task, role, "model") : task \in used \cap DOMAIN study.tasks, role \in roles})
       \ {""}

\* _missing_models, which the panel warns of before a session is started
MissingModels(study, available) ==
    IF available = {} THEN {} ELSE RequiredModels(study) \ available

\* _participant_model: the stem to load, and the only name the participant
\* hears; nothing when the server does not have it, which the page says.
ParticipantModel(study, step, available) ==
    IF step.model.name \in available \ {""}
      THEN [stem |-> step.model.name,
            label |-> IF step.model.role \in DOMAIN study.model_labels
                      THEN study.model_labels[step.model.role] ELSE "Object"]
      ELSE [stem |-> "", label |-> ""]

\* protocol_hash: what a session does, but not the study's title and summary
ProtocolHash(study) ==
    <<study.steps, study.tasks, study.design, study.tasks_per_session,
      study.viewer_defaults, study.model_labels, study.prompts>>

-----------------------------------------------------------------------------
(* validate: what is wrong with a definition *)

Slots(study) == Max({Len(order) : order \in Range(TaskSets(study))} \cup {0})

Validate(study) ==
    (IF study.version = "" THEN {"version is empty"} ELSE {})
    \cup (IF study.steps = <<>> THEN {"no steps"} ELSE {})
    \cup {"has no id" : i \in {i \in DOMAIN study.steps : study.steps[i].id = ""}}
    \cup {"used twice" : i \in {i \in DOMAIN study.steps : \E j \in DOMAIN study.steps :
            i < j /\ study.steps[i].id = study.steps[j].id /\ study.steps[i].id # ""}}
    \cup {"which no row fills" : i \in {i \in DOMAIN study.steps :
            /\ study.steps[i].model.kind = "task"
            /\ study.steps[i].model.slot \notin 1..Max({Slots(study), 1})}}
    \cup {"unknown tasks" : r \in {r \in DOMAIN study.design :
                                     ~(Range(study.design[r]) \subseteq DOMAIN study.tasks)}}
    \cup {"repeats a task" : r \in {r \in DOMAIN study.design : ~IsInjective(study.design[r])}}
    \cup (IF DOMAIN study.tasks # {} /\ study.design = <<>> THEN {"no rows"} ELSE {})
    \cup (IF study.tasks_per_session < 0 THEN {"negative"} ELSE {})

-----------------------------------------------------------------------------
(* Reference definitions *)

Times(rows, P(_, _), n) == Cardinality({x \in (DOMAIN rows) \X (1..n) : P(rows[x[1]], x[2])})

\* Every task in every position equally often
PositionsAreEven(rows, tasks, n) ==
    \A column \in 1..n :
      Cardinality({Cardinality({r \in DOMAIN rows : rows[r][column] = task}) : task \in tasks}) = 1

\* and every task straight after every other equally often
NeighboursAreEven(rows, tasks, n) ==
    Cardinality({Times(rows, LAMBDA row, i : row[i] = pair[1] /\ row[i + 1] = pair[2], n - 1) :
                 pair \in {p \in tasks \X tasks : p[1] # p[2]}}) <= 1

\* A session of the study loads what the panel said it would: on every step that
\* names a model one of the required ones, of this participant's task in the
\* slot the step is for; and no block is left to read out with a gap in it.
SessionIsWhole(study, order) ==
    LET steps == ResolveSteps(study, order)
    IN \A i \in DOMAIN steps :
         /\ study.steps[i].model # Nothing => steps[i].model.name \in RequiredModels(study)
         /\ study.steps[i].model.kind = "task" => steps[i].task = order[study.steps[i].model.slot]
         /\ study.steps[i].physical # Nothing => steps[i].physical # ""
         /\ \A b \in DOMAIN steps[i].script : ~steps[i].script[b].names

\* What the participant hears of a step's model is never a model's name.
LabelsAreGeneric(study, order) ==
    \A i \in DOMAIN study.steps :
      LET model == ParticipantModel(study, ResolveSteps(study, order)[i], RequiredModels(study))
      IN model.label \notin RequiredModels(study)
=============================================================================
