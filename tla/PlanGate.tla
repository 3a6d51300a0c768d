------------------------------ MODULE PlanGate ------------------------------
(* Plan mode of one session (src/internal/core/plan.go): the agent submits a *)
(* plan, the user approves, rejects or gives feedback, or leaves plan mode.  *)
(* Every operation reads the session, does its work and writes the plan      *)
(* columns back unconditionally (store.UpdateSessionPlanState), so two of    *)
(* them interleave: a native plan is captured while the turn still runs, and *)
(* the buttons are on every device.                                          *)
EXTENDS Naturals, Sequences, FiniteSets

CONSTANTS Callers,    \* requests in flight: devices, the agent's MCP call, the turn
          Plans,      \* contents a plan may have
          NoPlan,     \* the empty PlanInfo
          MaxOps      \* bound: operations started

VARIABLES gate,      \* [state, explicit, plan]: the plan columns of the row
          file,      \* the plan file: NoPlan when there is none
          calls,     \* [Callers -> the operation in flight: op, seen, plan, at]
          approved,  \* plans the user approved and that were not replaced since
          messages,  \* rows the gate added: "submitted" | "rejected"
          task,      \* the roadmap task of the session
          ops

planVars == <<gate, file, calls, approved, messages, task, ops>>

Idle == [op |-> "none"]
Active(g) == g.state \in {"pending", "awaiting"}

PlanInit ==
    /\ gate = [state |-> "none", explicit |-> FALSE, plan |-> NoPlan]
    /\ file = NoPlan /\ calls = [c \in Callers |-> Idle]
    /\ approved = {} /\ messages = <<>> /\ task = "in_progress" /\ ops = 0

\* Each operation begins by reading the session.
Start(c, op, plan) ==
    /\ calls[c] = Idle /\ ops < MaxOps
    /\ calls' = [calls EXCEPT ![c] = [op |-> op, seen |-> gate, plan |-> plan, at |-> "read"]]
    /\ ops' = ops + 1

At(c, op, at) == calls[c] # Idle /\ calls[c].op = op /\ calls[c].at = at
Move(c, at) == calls' = [calls EXCEPT ![c].at = at]
Done(c) == calls' = [calls EXCEPT ![c] = Idle]

-----------------------------------------------------------------------------
\* submitPlan has no condition on the state it read.
StartSubmit(c) ==
    \E p \in Plans : Start(c, "submit", p) /\ UNCHANGED <<gate, file, approved, messages, task>>
WriteFile(c) ==
    /\ At(c, "submit", "read")
    /\ file' = calls[c].plan /\ Move(c, "filed")
    /\ UNCHANGED <<gate, approved, messages, task, ops>>
Submit(c) ==
    /\ At(c, "submit", "filed")
    /\ gate' = [state |-> "awaiting", explicit |-> calls[c].seen.explicit, plan |-> calls[c].plan]
    /\ Move(c, "gated")
    /\ UNCHANGED <<file, approved, messages, task, ops>>
\* The message, then the task of a roadmap session is moved to review; a failed
\* message write leaves the task where it is.
Announce(c) ==
    /\ At(c, "submit", "gated")
    /\ \/ messages' = Append(messages, "submitted")
          /\ task' = IF task = "in_progress" THEN "review" ELSE task
       \/ UNCHANGED <<messages, task>>
    /\ Done(c)
    /\ UNCHANGED <<gate, file, approved, ops>>

-----------------------------------------------------------------------------
\* Mutation of Awaited: a decision is taken whatever the state.
AwaitedAlways == TRUE
\* Approve and reject require a plan awaiting approval when they read; what they
\* write does not look again.
Awaited == gate.state = "awaiting"
StartDecision(c) ==
    \E op \in {"approve", "reject"} :
        /\ Awaited
        /\ Start(c, op, NoPlan) /\ UNCHANGED <<gate, file, approved, messages, task>>

Approve(c) ==
    /\ At(c, "approve", "read")
    /\ gate' = [state |-> "none", explicit |-> FALSE, plan |-> calls[c].seen.plan]
    /\ approved' = approved \cup {calls[c].seen.plan}
    /\ Done(c)
    /\ UNCHANGED <<file, messages, task, ops>>

RemoveFile(c) ==
    /\ At(c, "reject", "read")
    /\ file' = NoPlan /\ Move(c, "removed")
    /\ UNCHANGED <<gate, approved, messages, task, ops>>
\* Mutation of Lowered: the gate goes down and the plan stays in the row.
LoweredKeepingPlan == [state |-> "none", explicit |-> FALSE, plan |-> gate.plan]
Lowered == [state |-> "none", explicit |-> FALSE, plan |-> NoPlan]
Reject(c) ==
    /\ At(c, "reject", "removed")
    /\ gate' = Lowered /\ Move(c, "told")
    /\ UNCHANGED <<file, approved, messages, task, ops>>
TellRejected(c) ==
    /\ At(c, "reject", "told")
    /\ messages' \in {Append(messages, "rejected"), messages}
    /\ Done(c)
    /\ UNCHANGED <<gate, file, approved, task, ops>>

\* SetPlanMode: nothing to do when the gate it read is already so.
StartToggle(c) ==
    \/ ~Active(gate) /\ Start(c, "on", NoPlan) /\ UNCHANGED <<gate, file, approved, messages, task>>
    \/ Active(gate) /\ Start(c, "off", NoPlan) /\ UNCHANGED <<gate, file, approved, messages, task>>
Toggle(c) ==
    /\ \/ At(c, "on", "read")
          /\ gate' = [state |-> "pending", explicit |-> TRUE, plan |-> NoPlan]
       \/ At(c, "off", "read") /\ gate' = Lowered
    /\ Done(c)
    /\ UNCHANGED <<file, approved, messages, task, ops>>

PlanNext ==
    \E c \in Callers :
        \/ StartSubmit(c) \/ WriteFile(c) \/ Submit(c) \/ Announce(c)
        \/ StartDecision(c) \/ Approve(c) \/ RemoveFile(c) \/ Reject(c) \/ TellRejected(c)
        \/ StartToggle(c) \/ Toggle(c)
PlanSpec == PlanInit /\ [][PlanNext]_planVars

-----------------------------------------------------------------------------
PlanTypeOK ==
    /\ gate.state \in {"none", "pending", "awaiting"} /\ gate.plan \in Plans \cup {NoPlan}
    /\ file \in Plans \cup {NoPlan} /\ approved \subseteq Plans
    /\ task \in {"in_progress", "review"}

\* A plan kept in the row with the gate down is pinned into every later replay as
\* what the user approved.  However submissions, decisions and toggles of several
\* devices interleave, such a plan is one that some user did approve.
PinnedWasApproved ==
    gate.state = "none" /\ gate.plan # NoPlan => gate.plan \in approved
=============================================================================
