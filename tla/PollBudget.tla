---------------------------- MODULE PollBudget -----------------------------
(***************************************************************************)
(* The polling primitive call_until_true (spec 4.1) as its callers use it, *)
(* with time abstracted away: one poll calls its predicate at least once   *)
(* and at most Budget times, returns True right after a call that returned *)
(* True, returns False only after at least one call, and passes on an     *)
(* exception its predicate raises.  A caller may poll again once a poll   *)
(* returned.  This is the budget each wait of BaremetalBoot counts down;   *)
(* Connectivity shows the timed loop keeps it.                             *)
(***************************************************************************)
EXTENDS Naturals

CONSTANT Budget   \* predicate calls that fit in the timeout

ASSUME Budget \in Nat \ {0}

VARIABLES
  calls,  \* predicate calls made by the running poll
  state   \* "idle", "polling", or the outcome: "true" | "false" | "raised"

Begin ==
  /\ state \in {"idle", "true", "false"}
  /\ state' = "polling" /\ calls' = 0

\* One predicate call; a True answer ends the poll.
Call ==
  /\ state = "polling" /\ calls < Budget
  /\ calls' = calls + 1
  /\ state' \in {"polling", "true"}

\* One predicate call that raises; the exception leaves the poll.
CallRaises ==
  /\ state = "polling" /\ calls < Budget
  /\ calls' = calls + 1
  /\ state' = "raised"

\* The deadline passed after at least one call.
GiveUp ==
  /\ state = "polling" /\ calls >= 1
  /\ state' = "false"
  /\ UNCHANGED calls

Init == state = "idle" /\ calls = 0

Spec == Init /\ [][Begin \/ Call \/ CallRaises \/ GiveUp]_<<calls, state>>

=============================================================================
