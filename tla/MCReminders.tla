---------------------------- MODULE MCReminders ----------------------------
(* Small instances of Reminders for TLC. *)
EXTENDS Reminders

APlan(s, f, n) == [start |-> s, end |-> f, notify |-> n]

\* Due at once; and a schedule that ends before it starts.
MCPlan == {APlan(0, 1, 0), APlan(1, 0, 0)}

\* Short and long events with a reminder, no reminder, the refused schedule.
MCPlans == {APlan(0, 1, 0), APlan(0, 2, 1), APlan(1, 2, Never), APlan(1, 0, 0)}

\* A reminder that may be moved to a later time.
MCOldPlans == {APlan(0, 1, 0), APlan(1, 2, 1), APlan(1, 2, 3), APlan(3, 0, 1)}

Budgets(S, n) == [k \in FaultKinds |-> IF k \in S THEN n ELSE 0]
NoBudget == Budgets({}, 0)
AllBudget == Budgets(FaultKinds, 1)
StopBudget == Budgets({"schedulerCrash", "senderCrash", "brokerRestart"}, 1)
=============================================================================
