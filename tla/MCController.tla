---------------------------- MODULE MCController ----------------------------
(* Small instances of TaskActionController.                                *)
EXTENDS TaskActionController

-----------------------------------------------------------------------------
(* What one would expect of the code and it does not do.  The README names *)
(* the constants under which TLC finds each of these violated.             *)

(* SystemFailures counts system-retryable failures, and exceeding the      *)
(* maximum is permanent: an action whose pod was lost more often than that *)
(* in a row, with no pod seen alive in between, is not launched again.     *)
SystemFailuresAreBounded ==
    [][\A n \in Attempts :
          pods[n] = "none" /\ pods'[n] = "pending" => lost <= MaxSystemFailures]_vars

(* A task that is marked a failure while its pod still runs is cleaned up: *)
(* a finished action that is left alone has no pod running.                *)
FailureCleansUp == Quiet /\ isTerminal(cr.status) => \A n \in Attempts : ~Live(n)

(* A resource that fails validation is terminal once it is left alone.     *)
ValidationFailureIsTerminal == Quiet /\ ~cr.valid => isTerminal(cr.status)
=============================================================================
