----------------------------- MODULE ActionStore -----------------------------
(***************************************************************************)
(* One row of the runs service's actions table, and what each statement of *)
(* the repository makes of it.  Every statement is one SQL command, so it  *)
(* is atomic; a row that is not there is left alone.  The phase guard      *)
(* compares the numbers of common.ActionPhase, hence the numbers here.     *)
(***************************************************************************)
EXTENDS Integers

UNSPECIFIED == 0
QUEUED == 1
WAITING == 2
INITIALIZING == 3
RUNNING == 4
SUCCEEDED == 5
FAILED == 6
ABORTED == 7
TIMED_OUT == 8
PAUSED == 9
RECOVERED == 10

TerminalPhases == {SUCCEEDED, FAILED, ABORTED, TIMED_OUT, RECOVERED}

(* The outcomes an executor reports.                                       *)
Outcomes == {SUCCEEDED, FAILED, TIMED_OUT}

RowType(maxAttempts, maxAborts) ==
    [exists : BOOLEAN, phase : UNSPECIFIED..RECOVERED, attempts : 0..maxAttempts,
     abortRequested : BOOLEAN, abortAttempts : 0..maxAborts]

NoRow == [exists |-> FALSE, phase |-> UNSPECIFIED, attempts |-> 0,
          abortRequested |-> FALSE, abortAttempts |-> 0]

(* INSERT ... ON CONFLICT DO NOTHING.                                      *)
CreateAction(r) ==
    IF r.exists THEN r ELSE [NoRow EXCEPT !.exists = TRUE, !.phase = QUEUED, !.attempts = 1]

(* A phase only moves up, except that a retryable one may be left.         *)
UpdateActionPhase(r, phase, attempts) ==
    IF r.exists /\ (r.phase <= phase \/ r.phase \in {FAILED, TIMED_OUT})
    THEN [r EXCEPT !.phase = phase, !.attempts = attempts]
    ELSE r

(* AbortRun and AbortAction ask nothing of the row's phase.                *)
AbortAction(r) ==
    IF r.exists
    THEN [r EXCEPT !.phase = ABORTED, !.abortRequested = TRUE, !.abortAttempts = 0]
    ELSE r

MarkAbortAttempt(r) == IF r.exists THEN [r EXCEPT !.abortAttempts = @ + 1] ELSE r

ClearAbortRequest(r) ==
    IF r.exists THEN [r EXCEPT !.abortRequested = FALSE, !.abortAttempts = 0] ELSE r
==============================================================================
