---------------------------- MODULE MCCondition ----------------------------
EXTENDS ConditionAction

CONSTANTS c1, c2, yes, no

\* Two callers who disagree.
MCSignallers == {c1, c2}
MCValues == {yes, no}
MCValue == [c \in MCSignallers |-> IF c = c1 THEN yes ELSE no]

(***************************************************************************)
(* What does not hold.  The constants of condition_settles violate it: a   *)
(* signal is accepted while the time-out is being written, and a reconcile *)
(* that reads the version in between, with the signal and without the      *)
(* time-out, writes Signaled over it.                                      *)
(***************************************************************************)
OutcomeIsFinal ==
    [][Now.exists /\ isTerminal(Now) => ~Now'.exists \/ Now'.reason = Now.reason]_conditionVars

(***************************************************************************)
(* "condition timed out after ... without a signal", as the message says:  *)
(* violated likewise, for the write does not look at the signal.           *)
(***************************************************************************)
TimedOutWithoutSignal ==
    Now.exists /\ Now.reason = "TimedOut" => Now.signal = NoValue
=============================================================================
