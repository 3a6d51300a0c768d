----------------------------- MODULE Migrations -----------------------------
(***************************************************************************)
(* Opening the database: internal/store/store.go and the forward-only      *)
(* migrations of internal/store/migrate.go.                                *)
(*                                                                         *)
(* A release is known by its last migration. The user works with one       *)
(* release, installs a later one, and the daemon may die between any two   *)
(* transactions of the upgrade. A migration is reduced to what it does to  *)
(* data: the tables it creates, the tables it gives columns, and those it  *)
(* rebuilds (copy into a new table, drop the old one, rename), with the    *)
(* columns the copy names, the values the new CHECK admits and the         *)
(* triggers it makes again, since a dropped table takes its triggers along.*)
(* Columns are named by the migration that added them.                     *)
(***************************************************************************)
EXTENDS Naturals, FiniteSets

CONSTANTS
  Releases,   \* last migrations of the releases the user may run
  MaxRows,    \* bound on what the user enters
  MaxCrashes  \* bound on deaths of the daemon

VARIABLES
  applied,   \* schema_migrations
  cols,      \* table -> the migrations whose columns it has; absent: no table
  admits,    \* table -> the values its CHECK admits
  guarded,   \* tables whose trigger exists
  rows,      \* table -> row -> its kind and the columns it has values in
  release,   \* the installed release
  phase,     \* where the daemon is
  ran,       \* did this start apply a migration
  entered,   \* ghost: every row the user was ever told is stored
  deaths

schemaVars == <<applied, cols, admits, guarded, rows>>
migrationVars == <<schemaVars, release, phase, ran, entered, deaths>>

Tables == {"agents", "sessions", "messages", "schedule_runs", "tasks", "push_subscriptions", "dreams",
           "goals", "goal_events", "access_requests", "goal_rate_limits", "agent_questions",
           "goal_runs", "attachments", "goal_action_items", "workspace_file_snapshots",
           "notifications", "notification_deliveries", "notification_preferences",
           "notification_devices", "goal_memories", "goal_memory_revisions", "goal_feedback_receipts"}
\* The tables a row of t refers to, and those of them whose deletion is refused
\* or leaves the row with a null; the other references cascade.
Parents(t) ==
  CASE t \in {"sessions", "dreams"} -> {"agents"}
    [] t \in {"messages", "schedule_runs"} -> {"sessions"}
    [] t = "attachments" -> {"sessions", "messages"}
    [] t \in {"goal_events", "access_requests", "goal_rate_limits", "goal_runs", "goal_action_items",
              "goal_memories", "goal_memory_revisions"} -> {"goals"}
    [] t = "goal_feedback_receipts" -> {"goals", "goal_events"}
    [] t = "notification_deliveries" -> {"notifications"}
    [] OTHER -> {}
Lineage(t) == {t} \cup Parents(t) \cup (UNION {Parents(p) : p \in Parents(t)})
                  \cup (IF "messages" \in Parents(t) THEN {"agents"} ELSE {})
RestrictedBy(t) == IF t = "agents" THEN {"sessions"} ELSE {}
Heirs(t) == {c \in Tables \ {"schedule_runs"} : t # c /\ t \in Lineage(c)}

Plain == {"-"}
NoChange == [new |-> {}, adds |-> {}, keeps |-> <<>>, admits |-> <<>>, guards |-> {}, fills |-> {}]
New(ts) == [NoChange EXCEPT !.new = ts]
Adds(ts) == [NoChange EXCEPT !.adds = ts]

Origins == {"web", "schedule"}
Events == {"created"}
core_domain == [New({"agents", "sessions", "messages"}) EXCEPT
  !.admits = [sessions |-> Origins, messages |-> {"message"}], !.guards = {"sessions"}]
session_metadata_and_settings == Adds({"sessions"})
schedule_runs == [New({"schedule_runs"}) EXCEPT !.admits = [schedule_runs |-> {"cron", "manual"}]]
tasks == [New({"tasks"}) EXCEPT !.adds = {"sessions"}]
onboarding_origin == [NoChange EXCEPT !.keeps = [sessions |-> {3, 5}],
  !.admits = [sessions |-> Origins \cup {"onboarding"}], !.guards = {"sessions"}]
session_project_id == Adds({"sessions"})
push_subscriptions == New({"push_subscriptions"})
agent_mcp_servers == Adds({"agents"})
agent_memory_dreaming == [New({"dreams"}) EXCEPT !.adds = {"sessions"}]
plan_mode == Adds({"tasks", "sessions"})
message_kind == [Adds({"messages"}) EXCEPT !.admits = [messages |-> {"message", "error"}]]
session_context_window == Adds({"sessions"})
SessionColumns == {3, 5, 7, 10, 11, 13}
goals == [New({"goals", "goal_events", "access_requests"}) EXCEPT
  !.keeps = [sessions |-> SessionColumns], !.adds = {"sessions"},
  !.admits = [sessions |-> Origins \cup {"onboarding", "goal"}, goal_events |-> Events],
  !.guards = {"sessions", "goal_events"}]
agent_avatar == Adds({"agents"})
session_token_usage == Adds({"sessions"})
run_targets == Adds({"tasks", "goals"})
EventRebuild(more, columns) == [NoChange EXCEPT !.keeps = [goal_events |-> columns],
  !.admits = [goal_events |-> Events \cup more], !.guards = {"goal_events"}]
goal_rate_limit_recovery == [EventRebuild({"rate_limited"}, {}) EXCEPT !.new = {"goal_rate_limits"}]
message_reasoning_kind == [NoChange EXCEPT !.keeps = [messages |-> {12}],
  !.admits = [messages |-> {"message", "error", "reasoning"}]]
goal_user_feedback_events == EventRebuild({"rate_limited", "user_feedback"}, {})
goal_yolo_tool_audit == [EventRebuild({"rate_limited", "user_feedback", "tool_use"}, {})
  EXCEPT !.adds = {"tasks"}]
Asked == {"rate_limited", "user_feedback", "tool_use", "question_asked"}
agent_questions == [EventRebuild(Asked, {}) EXCEPT !.new = {"agent_questions"}]
editable_unread_goal_feedback == [NoChange EXCEPT !.guards = {"goal_events"}]
goal_runs_and_lead_session == [New({"goal_runs"}) EXCEPT
  !.keeps = [goal_events |-> {}, goal_rate_limits |-> {}],
  !.adds = {"goals", "goal_events", "goal_rate_limits"},
  !.admits = [goal_events |-> Events \cup Asked], !.guards = {"goal_events"},
  !.fills = {<<"goal_runs", "goal_events">>}]
AgentSessions(grown) == [NoChange EXCEPT
  !.keeps = [agents |-> {9, 15}, sessions |-> SessionColumns \cup {14, 16}],
  !.admits = [sessions |-> Origins \cup {"onboarding", "goal"} \cup grown], !.guards = {"sessions"}]
drop_provider_checks == LET m == AgentSessions({}) IN [m EXCEPT !.keeps =
  [t \in DOMAIN m.keeps \cup {"tasks", "goals", "goal_rate_limits"} |->
     CASE t \in DOMAIN m.keeps -> m.keeps[t] [] t = "tasks" -> {11, 17, 21}
       [] t = "goals" -> {17, 24} [] OTHER -> {24}]]
interview_origin == [NoChange EXCEPT !.keeps = [sessions |-> SessionColumns \cup {14, 16}],
  !.admits = [sessions |-> Origins \cup {"onboarding", "goal", "interview"}], !.guards = {"sessions"}]
message_photo_attachments == New({"attachments"})
drop_permission_mode_checks == AgentSessions({"interview"})
goal_next_step == Adds({"goals"})
message_narration_kind == [NoChange EXCEPT !.keeps = [messages |-> {12}],
  !.admits = [messages |-> {"message", "error", "reasoning", "narration"}]]
goal_action_items ==
  [EventRebuild(Asked \cup {"action_requested"}, {24}) EXCEPT !.new = {"goal_action_items"}]
session_source_control_warning == Adds({"sessions"})
task_created_by == Adds({"tasks"})
workspace_file_snapshots == New({"workspace_file_snapshots"})
schedule_runs_webhook_trigger == [NoChange EXCEPT !.keeps = [schedule_runs |-> {}],
  !.admits = [schedule_runs |-> {"cron", "manual", "webhook"}]]
session_archived_at == Adds({"sessions"})
notifications == New({"notifications", "notification_deliveries", "notification_preferences"})
notification_devices == New({"notification_devices"})
notification_device_status == Adds({"notification_devices"})
session_project_overrides == Adds({"sessions"})
goal_feedback_pinned == Adds({"goal_events"})
durable_goal_memory ==
  [New({"goal_memories", "goal_memory_revisions", "goal_feedback_receipts"}) EXCEPT
     !.adds = {"goal_runs"}, !.fills = {<<"goal_memories", "goals">>}]

migrations == <<NoChange, core_domain, session_metadata_and_settings, schedule_runs, tasks,
  onboarding_origin, session_project_id, push_subscriptions, agent_mcp_servers,
  agent_memory_dreaming, plan_mode, message_kind, session_context_window, goals, agent_avatar,
  session_token_usage, run_targets, goal_rate_limit_recovery, message_reasoning_kind,
  goal_user_feedback_events, goal_yolo_tool_audit, agent_questions, editable_unread_goal_feedback,
  goal_runs_and_lead_session, drop_provider_checks, interview_origin, message_photo_attachments,
  drop_permission_mode_checks, goal_next_step, message_narration_kind, goal_action_items,
  session_source_control_warning, task_created_by, workspace_file_snapshots,
  schedule_runs_webhook_trigger, session_archived_at, notifications, notification_devices,
  notification_device_status, session_project_overrides, goal_feedback_pinned, durable_goal_memory>>
Versions == DOMAIN migrations

MigrationTypeOK ==
  /\ applied \subseteq Versions /\ release \in Releases
  /\ DOMAIN cols \subseteq Tables /\ DOMAIN rows = DOMAIN cols /\ DOMAIN admits = DOMAIN cols
  /\ \A t \in DOMAIN cols : cols[t] \subseteq Versions
  /\ \A t \in DOMAIN rows : DOMAIN rows[t] \subseteq 1..MaxRows
  /\ guarded \subseteq DOMAIN cols
  /\ phase \in {"down", "migrating", "up", "failed"} /\ ran \in BOOLEAN
  /\ deaths \in 0..MaxCrashes

MigrationInit ==
  /\ applied = {1} /\ cols = <<>> /\ admits = <<>> /\ guarded = {} /\ rows = <<>>
  /\ release \in Releases /\ phase = "down" /\ ran = FALSE /\ entered = {} /\ deaths = 0

---------------------------------------------------------------------------
\* Open: the binary of some release, never an older one.
Open ==
  /\ phase = "down"
  /\ release' \in {r \in Releases : r >= release}
  /\ phase' = "migrating" /\ ran' = FALSE
  /\ UNCHANGED <<schemaVars, entered, deaths>>

\* Mutation of Enforced: foreign keys stay on while tables are rebuilt.
EnforcedAlways == TRUE
\* PRAGMA foreign_keys=OFF on the connection the migrations run on.
Enforced == FALSE
\* Mutation of Recorded: the version is not recorded with its migration.
RecordedNot(v) == applied
\* The bookkeeping insert belongs to the migration's transaction.
Recorded(v) == applied \cup {v}

Pending == {v \in Versions : v <= release /\ v \notin applied}
Admitted(m, t) == IF t \in DOMAIN m.admits THEN m.admits[t]
                  ELSE IF t \in m.new THEN Plain ELSE admits[t]
\* What a statement of m can fail on: a table that is there already, a row the
\* new CHECK refuses, a parent whose deletion is restricted.
Fails(m) ==
  \/ m.new \cap DOMAIN cols # {}
  \/ \E t \in DOMAIN m.keeps : \E n \in DOMAIN rows[t] : rows[t][n].kind \notin Admitted(m, t)
  \/ Enforced /\ \E t \in DOMAIN m.keeps : \E c \in RestrictedBy(t) : DOMAIN rows[t] \cap DOMAIN rows[c] # {}
\* Rows a dropped parent takes along when foreign keys are enforced.
Taken(m, t) == IF Enforced THEN UNION {DOMAIN rows[p] : p \in {q \in DOMAIN m.keeps : t \in Heirs(q)}} ELSE {}
Columns(m, t, v) == (IF t \in DOMAIN m.keeps THEN m.keeps[t] ELSE IF t \in m.new THEN {} ELSE cols[t])
                      \cup (IF t \in m.adds THEN {v} ELSE {})
Copied(m, t) == [n \in DOMAIN rows[t] \ Taken(m, t) |->
  [rows[t][n] EXCEPT !.cols = IF t \in DOMAIN m.keeps THEN @ \cap m.keeps[t] ELSE @]]
Filled(m, t) == LET from == CHOOSE s \in Tables : <<t, s>> \in m.fills IN
  IF t \in {f[1] : f \in m.fills} THEN [n \in DOMAIN rows[from] |-> [kind |-> "-", cols |-> {}]] ELSE <<>>
\* One migration and its record, one transaction.
Apply == LET v == CHOOSE w \in Pending : \A u \in Pending : w <= u
             m == migrations[v] IN
  /\ phase = "migrating" /\ Pending # {}
  /\ IF Fails(m)
     THEN phase' = "failed" /\ UNCHANGED <<schemaVars, ran>>
     ELSE /\ applied' = Recorded(v) /\ ran' = TRUE
          /\ cols' = [t \in DOMAIN cols \cup m.new |-> Columns(m, t, v)]
          /\ admits' = [t \in DOMAIN cols' |-> Admitted(m, t)]
          /\ guarded' = (guarded \ DOMAIN m.keeps) \cup m.guards
          /\ rows' = [t \in DOMAIN cols' |-> IF t \in m.new THEN Filled(m, t) ELSE Copied(m, t)]
          /\ UNCHANGED phase
  /\ UNCHANGED <<release, entered, deaths>>
\* The foreign key check runs only when this start applied something.
Orphans == {r \in Tables \X (1..MaxRows) : r[1] \in DOMAIN rows /\ r[2] \in DOMAIN rows[r[1]]
              /\ \E p \in Parents(r[1]) : r[2] \notin DOMAIN rows[p]}
Check ==
  /\ phase = "migrating" /\ Pending = {}
  /\ phase' = IF ran /\ Orphans # {} THEN "failed" ELSE "up"
  /\ UNCHANGED <<schemaVars, release, ran, entered, deaths>>

\* The user enters something: a row, and rows for everything it refers to.
Enter(t, k) == LET n == Cardinality({e.row : e \in entered}) + 1
                   new == [u \in Lineage(t) |->
                     [kind |-> IF u = t THEN k ELSE IF "-" \in admits[u] THEN "-"
                               ELSE CHOOSE x \in admits[u] : x \in {"web", "message", "created"},
                      cols |-> cols[u]]] IN
  /\ phase = "up" /\ n <= MaxRows /\ t \in DOMAIN cols /\ k \in admits[t]
  /\ rows' = [u \in DOMAIN rows |-> IF u \in Lineage(t)
       THEN [i \in DOMAIN rows[u] \cup {n} |-> IF i = n THEN new[u] ELSE rows[u][i]] ELSE rows[u]]
  /\ entered' = entered \cup {[table |-> u, row |-> n, value |-> new[u]] : u \in Lineage(t)}
  /\ UNCHANGED <<applied, cols, admits, guarded, release, phase, ran, deaths>>
\* The daemon is stopped, or could not start; or it dies, with or without a
\* migration in its transaction.
Stop ==
  /\ phase \in {"up", "failed"} /\ phase' = "down"
  /\ UNCHANGED <<schemaVars, release, ran, entered, deaths>>
Die ==
  /\ phase = "migrating" /\ deaths < MaxCrashes
  /\ phase' = "down" /\ deaths' = deaths + 1
  /\ UNCHANGED <<schemaVars, release, ran, entered>>

MigrationNext ==
  \/ Open \/ Apply \/ Check \/ Stop \/ Die
  \/ \E t \in Tables : t \in DOMAIN cols /\ \E k \in admits[t] : Enter(t, k)
MigrationSpec == MigrationInit /\ [][MigrationNext]_migrationVars

---------------------------------------------------------------------------
\* Whatever releases the user went through and wherever the daemon died: every
\* row entered is there with its kind and the values of all its columns, no row
\* lost its parent, no upgrade is refused, and the triggers that keep goal
\* events append-only and origins immutable exist (migrate.go:1595-1603).
UpgradeKeepsData ==
  /\ phase # "failed" /\ Orphans = {}
  /\ \A e \in entered : /\ e.table \in DOMAIN rows /\ e.row \in DOMAIN rows[e.table]
                        /\ rows[e.table][e.row].kind = e.value.kind
                        /\ e.value.cols \subseteq rows[e.table][e.row].cols
  /\ {"sessions", "goal_events"} \cap DOMAIN cols \subseteq guarded
=============================================================================
