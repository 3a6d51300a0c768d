---------------------------- MODULE TurnContract ----------------------------
(* What one turn promises the conversation it belongs to, whatever providers *)
(* it goes through: the abstract specification that TurnStream implements.   *)
(* A turn is opened, accepts the user's row, adds notes, and then either     *)
(* answers or fails, tells the client at most once, and closes with its goal *)
(* run in a final status that agrees with how it went.                       *)
EXTENDS Naturals, Sequences

VARIABLES stage,     \* "closed" | "open" | "accepted" | "answered" | "failed"
          history,   \* kinds of the conversation's rows, oldest first
          told,      \* "nothing" | "done" | "error": the terminal event of this turn
          run        \* status of the turn's goal run

contractVars == <<stage, history, told, run>>

Init == stage = "closed" /\ history = <<>> /\ told = "nothing" /\ run = "none"

Open ==
    /\ stage = "closed"
    /\ stage' = "open" /\ told' = "nothing" /\ run' = "running"
    /\ UNCHANGED history

Accept ==
    /\ stage = "open"
    /\ stage' = "accepted" /\ history' = Append(history, "user")
    /\ UNCHANGED <<told, run>>

\* Working notes, and the sign-in notice, which is an error row the turn survives.
Note ==
    /\ stage = "accepted"
    /\ \E kind \in {"note", "notice"} : history' = Append(history, kind)
    /\ UNCHANGED <<stage, told, run>>

Answer ==
    /\ stage = "accepted" /\ stage' = "answered"
    /\ history' \in {Append(history, "note"), Append(history, "answer"),
                     history \o <<"note", "answer">>, history}
    /\ UNCHANGED <<told, run>>

\* The error row itself may fail to be written.
Fail ==
    /\ stage = "accepted" /\ stage' = "failed"
    /\ history' \in {Append(history, "error"), history}
    /\ UNCHANGED <<told, run>>

Tell ==
    /\ told = "nothing"
    /\ \/ stage = "answered" /\ told' = "done"
       \/ stage = "failed" /\ told' = "error"
    /\ UNCHANGED <<stage, history, run>>

\* How a run may end, given how far its turn came.
Outcomes ==
    CASE stage = "open"     -> {"failed"}
      [] stage = "accepted" -> {"succeeded", "interrupted", "rate_limited", "running"}
      [] stage = "answered" -> IF told = "done" THEN {"succeeded"}
                               ELSE {"succeeded", "interrupted"}
      [] stage = "failed"   -> {"failed", "interrupted", "rate_limited"}

Close ==
    /\ stage # "closed"
    /\ stage' = "closed" /\ run' \in Outcomes
    /\ UNCHANGED <<history, told>>

Next == Open \/ Accept \/ Note \/ Answer \/ Fail \/ Tell \/ Close
Spec == Init /\ [][Next]_contractVars
=============================================================================
