------------------------------- MODULE MCWatch -------------------------------
(* Small instances of ActionWatch: a root and the children the cfg names.  *)
EXTENDS ActionWatch

-----------------------------------------------------------------------------
(* What one would expect of the code and it does not do.  The README names *)
(* the constants under which TLC finds each of these violated.             *)

(* RecordAction is not called again for an action in the filter, so its    *)
(* row must be there.                                                      *)
FilteredIsStored == \A a \in filter : row[a].exists

(* A finished parent is not reported as running again.                     *)
FinishedParentStaysFinished ==
    [][row[Root].phase \in TerminalPhases => row'[Root].phase \in TerminalPhases]_vars

(* A row counts at least one attempt.                                      *)
AttemptsArePositive == \A a \in Actions : row[a].exists => row[a].attempts > 0

(* What the user aborted is shown as aborted.                              *)
AbortStands == [][\A a \in Actions : row[a].phase = ABORTED => row'[a].phase = ABORTED]_vars
=============================================================================
