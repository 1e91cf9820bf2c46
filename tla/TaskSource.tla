----------------------------- MODULE TaskSource -----------------------------
(***************************************************************************)
(* TaskSource.load and the parts of Configuration it uses: which input     *)
(* table holds the tasks, its rows one by one, and the id filter.          *)
(*                                                                         *)
(* A row is [id, prompt, budget]: the id is None when it is blank, prompt  *)
(* tells whether there is one, and the budget is None, NaN, a number, or   *)
(* Bad, which also stands for a max_turns that is no integer.  The filter  *)
(* is the list of its parts; a part that is blank is None.                 *)
(***************************************************************************)
EXTENDS Integers, Sequences, Functions

CONSTANTS
  Ids,      \* the ids rows may have
  Budgets,  \* the numbers budgets may be
  NaN, Bad, None

ConfigTask == "config-task"

TaskConstants ==
  /\ None \notin Ids /\ ConfigTask \in Ids
  /\ Budgets \subseteq Int /\ {NaN, Bad, None} \cap Int = {}
  /\ NaN # Bad /\ NaN # None /\ Bad # None

Rows == [id : Ids \cup {None}, prompt : BOOLEAN, budget : Budgets \cup {None, NaN, Bad}]
Tasks == [id : Ids, prompt : {TRUE}, budget : Budgets \cup {None, NaN}]

VARIABLES
  pc, raised, exit,
  config,  \* [filter, prompt, budget, inputs, ...]: task_id_filter, task.prompt,
           \* max_budget_usd, and the input tables: [name, rows], where rows is
           \* None if a required column is missing
  table,   \* the rows of the table chosen
  at,      \* the rows that were read, then the tasks that were filtered
  loaded,  \* tasks of _load_tasks_table_mode
  tasks    \* what load returns

sourceVars == <<table, at, loaded, tasks>>
vars == <<pc, raised, exit, config, sourceVars>>

LoadPlaces == {"load", "rows", "filter"}

TaskTypeOK ==
  /\ table \in Seq(Rows)
  /\ at \in Nat
  /\ loaded \in Seq(Tasks) /\ tasks \in Seq(Tasks)

Init == table = <<>> /\ at = 0 /\ loaded = <<>> /\ tasks = <<>>

Goes(place) == pc' = place /\ UNCHANGED <<raised, exit, config>>
Raises(how) == pc' = "files" /\ raised' = how /\ UNCHANGED <<exit, config, sourceVars>>

-----------------------------------------------------------------------------
(* _select_tasks_table and _load_config_prompt_mode *)

inputs == config.inputs
Named == {i \in DOMAIN inputs : inputs[i].name = "tasks"}
IsFirst(i) == \A j \in Named : i <= j
\* The table called tasks, or the only one there is.
Chosen ==
  {i \in DOMAIN inputs : IF Named # {} THEN i \in Named /\ IsFirst(i) ELSE Len(inputs) = 1}

Select ==
  /\ pc = "load"
  /\ \E i \in Chosen : inputs[i].rows # None /\ table' = inputs[i].rows
  /\ Goes("rows")
  /\ UNCHANGED <<at, loaded, tasks>>

\* Many tables and none is called tasks, or a required column is missing.
SelectRaises ==
  /\ pc = "load" /\ inputs # <<>>
  /\ \A i \in Chosen : inputs[i].rows = None
  /\ Raises("user")

\* A manifest or the table is gone or cannot be decoded.
Unreadable ==
  /\ pc \in {"load", "rows"}
  /\ Raises("crash")

\* The prompt of the configuration is the one task; the filter is ignored.
UsePrompt ==
  /\ pc = "load" /\ inputs = <<>> /\ config.prompt
  /\ Goes("next")
  /\ tasks' = <<[id |-> ConfigTask, prompt |-> TRUE, budget |-> None]>>
  /\ UNCHANGED <<table, at, loaded>>

NoPrompt ==
  /\ pc = "load" /\ inputs = <<>> /\ ~config.prompt
  /\ Raises("user")

-----------------------------------------------------------------------------
(* _load_tasks_table_mode *)

Row == table[at + 1]
WellFormed(row) == row.id # None /\ row.prompt /\ row.budget # Bad
Seen(id) == \E i \in DOMAIN loaded : loaded[i].id = id

ReadRow ==
  /\ pc = "rows" /\ at < Len(table)
  /\ WellFormed(Row) /\ ~Seen(Row.id)
  /\ at' = at + 1 /\ loaded' = Append(loaded, Row)
  /\ UNCHANGED <<pc, raised, exit, config, table, tasks>>

RowRaises ==
  /\ pc = "rows" /\ at < Len(table)
  /\ ~WellFormed(Row) \/ Seen(Row.id)
  /\ Raises("user")

RowsRead ==
  /\ pc = "rows" /\ at = Len(table) /\ loaded # <<>>
  /\ Goes("filter")
  /\ at' = 0
  /\ UNCHANGED <<table, loaded, tasks>>

EmptyTable ==
  /\ pc = "rows" /\ at = Len(table) /\ loaded = <<>>
  /\ Raises("user")

-----------------------------------------------------------------------------
(* _normalise_task_filter and _apply_task_id_filter *)

Wanted == Range(config.filter) \ {None}
\* A filter that is absent, or has blank parts only, keeps every row.
Keeps(task) == Wanted = {} \/ task.id \in Wanted

\* Mutant of FilterOne: a task that is kept goes to the front.
FilterOneToFront ==
  /\ pc = "filter" /\ at < Len(loaded)
  /\ at' = at + 1
  /\ tasks' = IF Keeps(loaded[at + 1]) THEN <<loaded[at + 1]>> \o tasks ELSE tasks
  /\ UNCHANGED <<pc, raised, exit, config, table, loaded>>

FilterOne ==
  /\ pc = "filter" /\ at < Len(loaded)
  /\ at' = at + 1
  /\ tasks' = IF Keeps(loaded[at + 1]) THEN Append(tasks, loaded[at + 1]) ELSE tasks
  /\ UNCHANGED <<pc, raised, exit, config, table, loaded>>

Filtered ==
  /\ pc = "filter" /\ at = Len(loaded) /\ tasks # <<>>
  /\ Goes("next")
  /\ UNCHANGED <<table, at, loaded, tasks>>

NothingKept ==
  /\ pc = "filter" /\ at = Len(loaded) /\ tasks = <<>>
  /\ Raises("user")

Next ==
  \/ Select \/ SelectRaises \/ Unreadable \/ UsePrompt \/ NoPrompt
  \/ ReadRow \/ RowRaises \/ RowsRead \/ EmptyTable
  \/ FilterOne \/ Filtered \/ NothingKept

-----------------------------------------------------------------------------
(* Configuration.effective_budget, as build_options uses it for each task *)

Below(a, b) == a # NaN /\ b # NaN /\ a < b

\* Mutant of EffectiveBudget: the budget of the row replaces the ceiling.
EffectiveBudgetOwn(budget) == IF budget = None THEN config.budget ELSE budget

\* Python's min gives its first argument unless the second is below it.
EffectiveBudget(budget) ==
  IF budget = None THEN config.budget
  ELSE IF Below(config.budget, budget) THEN config.budget ELSE budget

-----------------------------------------------------------------------------
(* Properties *)

Selected == pc = "next" /\ inputs # <<>>

\* The batch is the selection the filter names, in the order of the table and
\* each id once, and it is made only from a table whose every row is in order,
\* the ones that are filtered out included (_load_tasks_table_mode,
\* _apply_task_id_filter).
SelectionExact ==
  Selected =>
    /\ \A i, j \in DOMAIN table : WellFormed(table[i]) /\ (table[i].id = table[j].id => i = j)
    /\ Range(tasks) = {row \in Range(table) : Keeps(row)} /\ tasks # <<>>
    /\ \A i, j \in DOMAIN tasks : i < j =>
         \E k, l \in DOMAIN table : k < l /\ table[k] = tasks[i] /\ table[l] = tasks[j]

\* No task may spend more than the ceiling of the configuration, whatever its
\* row says, unless one of the two is NaN (effective_budget).
BudgetCapped ==
  pc = "next" =>
    \A i \in DOMAIN tasks :
      \/ Below(EffectiveBudget(tasks[i].budget), config.budget)
      \/ EffectiveBudget(tasks[i].budget) = config.budget
      \/ NaN \in {tasks[i].budget, config.budget}
=============================================================================
