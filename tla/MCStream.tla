------------------------------- MODULE MCStream -------------------------------
(* Small instances of ActionStream: a chain of three actions, and a root   *)
(* with two branches.                                                      *)
EXTENDS ActionStream

MCChain == [a \in {"a1", "a2"} |-> IF a = "a1" THEN "a0" ELSE "a1"]
MCBranches == [a \in {"a1", "a2", "a3"} |-> IF a = "a2" THEN "a1" ELSE "a0"]

(* No filter, and the phase a task passes through.                         *)
MCFilters == {{}, {RUNNING}}

-----------------------------------------------------------------------------
(* The handler starts "watching for updates from DB first to prevent event *)
(* miss": where no notification fails and no channel is full, the client   *)
(* ends up with what the table holds.                                      *)
NothingIsMissed == <>[](pc = "ended" \/ view = Rendered(PhaseOf, filter))

-----------------------------------------------------------------------------
(* What one would expect of the code and it does not do.  The README names *)
(* the constants under which TLC finds each of these violated.             *)

(* Without a failing call a stream is only ended by its client.            *)
StreamGoesOn == losses = MaxLosses => pc # "ended"

(* What the client is shown of a finished action is not taken back to an   *)
(* earlier phase.                                                          *)
ShownOutcomeStays ==
    [][\A a \in Actions :
          view[a].phase \in TerminalPhases => view'[a].phase \in TerminalPhases \cup {UNSPECIFIED}]_vars
==============================================================================
