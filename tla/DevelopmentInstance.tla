------------------------- MODULE DevelopmentInstance -------------------------
(***************************************************************************)
(* One development instance: a row that names its latest run, the history  *)
(* of its runs, and the root actions of these runs.  Requests read the     *)
(* row, decide, and write the whole of it back, with no lock and no        *)
(* version; what keeps two of them apart is the unique index of the        *)
(* history.  The name of a run is its generation, so the two are one       *)
(* number here, and 0 is no run.                                           *)
(***************************************************************************)
EXTENDS Naturals

CONSTANTS
    Requests,           \* requests that may be at work at a time
    MaxGeneration,      \* bound: runs of the instance
    MaxFaults,          \* bound: failing statements and calls
    MaxCrashes          \* bound: restarts of the runs service

ASSUME InstanceAssumption ==
    /\ MaxGeneration \in Nat
    /\ MaxFaults \in Nat
    /\ MaxCrashes \in Nat

Generations == 1 .. MaxGeneration

VARIABLES
    state,          \* of the row: "none", "there" or "deleted"
    row,            \* its generation, its latest run, and whether the status
                    \* is one of STARTING, RUNNING and STOPPING
    runs,           \* the history: "none", or "active" and "ended" likewise
    action,         \* the root action of each run: "none", "live" or "ended"
    pc,             \* the next statement of each request
    instance,       \* the row as each request holds it
    run,            \* the entry of the history it writes
    disturbed,      \* history: requests overlapped, a check failed, or an
                    \* instance was deleted with its run alive
    stranded,       \* history: a start ended between its reservation and its run
    faults, crashes

vars == <<state, row, runs, action, pc, instance, run, disturbed, stranded,
          faults, crashes>>
tables == <<state, row, runs, action>>
held == <<instance, run>>
past == <<disturbed, stranded>>
trouble == <<faults, crashes>>

Row == [generation : 0 .. MaxGeneration, latest : 0 .. MaxGeneration, active : BOOLEAN]
NewRow == [generation |-> 0, latest |-> 0, active |-> FALSE]

Init ==
    /\ state = "none"
    /\ row = NewRow
    /\ runs = [g \in Generations |-> "none"]
    /\ action = [g \in Generations |-> "none"]
    /\ pc = [q \in Requests |-> "idle"]
    /\ instance = [q \in Requests |-> NewRow]
    /\ run = [q \in Requests |-> 0]
    /\ disturbed = FALSE
    /\ stranded = FALSE
    /\ faults = 0
    /\ crashes = 0

-----------------------------------------------------------------------------
(* Statements and steps that several requests share.                       *)

Goto(q, label) == pc' = [pc EXCEPT ![q] = label]

\* What a request holds ends with it.
Return(q) ==
    /\ pc' = [pc EXCEPT ![q] = "idle"]
    /\ instance' = [instance EXCEPT ![q] = NewRow]
    /\ run' = [run EXCEPT ![q] = 0]

Busy == \E q \in Requests : pc[q] # "idle"

\* A request begins by reading the row.
Begin(q) ==
    /\ pc[q] = "idle"
    /\ disturbed' = (disturbed \/ Busy)
    /\ UNCHANGED <<tables, run, stranded, trouble>>

Hold(q) == instance' = [instance EXCEPT ![q] = row]

\* The row says that a run is starting or running, and there is none: Start
\* refuses a second run, and Stop finds none to abort.
Adrift ==
    state = "there" /\ row.active /\ row.latest # 0 /\ action[row.latest] = "none"

\* Update writes the whole row, unless it is deleted.
Update(q) == row' = IF state = "there" THEN instance[q] ELSE row

UpdateRun(q) ==
    /\ pc[q] = "update run"
    /\ runs' = [runs EXCEPT ![run[q]] = IF instance[q].active THEN "active" ELSE "ended"]
    /\ Goto(q, "update")
    /\ UNCHANGED <<state, row, action, held, past, trouble>>

\* The last statement of Start and Stop, and of Create on an existing row.
UpdateInstance(q) ==
    /\ pc[q] = "update"
    /\ Update(q)
    /\ Return(q)
    /\ UNCHANGED <<state, runs, action, past, trouble>>

-----------------------------------------------------------------------------
(* CreateDevelopmentInstance.                                              *)

\* A lookup that fails is taken for a missing row; the insert finds it.
CreateReads(q) ==
    /\ Begin(q)
    /\ \/ state = "there" /\ Hold(q) /\ Goto(q, "update")
       \/ Goto(q, "insert") /\ UNCHANGED instance

\* An insert that forgets the generations of the row it revives.
InsertFresh(q) ==
    /\ pc[q] = "insert"
    /\ IF state = "there"
       THEN Goto(q, "read again") /\ UNCHANGED <<state, row, held>>
       ELSE /\ state' = "there"
            /\ row' = NewRow
            /\ Return(q)
    /\ UNCHANGED <<runs, action, past, trouble>>

\* A deleted row is revived with its generation and without its latest run.
Insert(q) ==
    /\ pc[q] = "insert"
    /\ IF state = "there"
       THEN Goto(q, "read again") /\ UNCHANGED <<state, row, held>>
       ELSE /\ state' = "there"
            /\ row' = [NewRow EXCEPT !.generation = row.generation]
            /\ Return(q)
    /\ UNCHANGED <<runs, action, past, trouble>>

CreateReadsAgain(q) ==
    /\ pc[q] = "read again"
    /\ IF state = "there"
       THEN Hold(q) /\ Goto(q, "update") /\ UNCHANGED run
       ELSE Return(q)
    /\ UNCHANGED <<tables, past, trouble>>

-----------------------------------------------------------------------------
(* StartDevelopmentInstance.                                               *)

StartReads(q) ==
    /\ Begin(q)
    /\ state = "there"
    /\ Hold(q)
    /\ Goto(q, "check")

\* A check that trusts the stored status.
IsActiveByStatus(q) == instance[q].latest # 0 /\ instance[q].active

\* developmentInstanceIsActive: the root action decides if it can be read.
IsActive(q) ==
    LET latest == instance[q].latest IN
    latest # 0 /\ IF action[latest] = "none"
                  THEN instance[q].active
                  ELSE action[latest] = "live"

Check(q) ==
    /\ pc[q] = "check"
    /\ IF IsActive(q) THEN Return(q) ELSE Goto(q, "pick") /\ UNCHANGED held
    /\ UNCHANGED <<tables, past, trouble>>

\* The read of the action fails, and the status decides.
CheckFails(q) ==
    /\ pc[q] = "check"
    /\ instance[q].latest # 0
    /\ faults < MaxFaults
    /\ faults' = faults + 1
    /\ disturbed' = (disturbed \/ action[instance[q].latest] = "live")
    /\ IF instance[q].active THEN Return(q) ELSE Goto(q, "pick") /\ UNCHANGED held
    /\ UNCHANGED <<tables, stranded, crashes>>

\* The first generation above the row's whose name no action has.  Names only
\* get taken, so the search is one step, that of its last read.
NextRunName(q) ==
    /\ pc[q] = "pick"
    /\ \E g \in Generations :
          /\ g > instance[q].generation
          /\ action[g] = "none"
          /\ \A h \in instance[q].generation + 1 .. g - 1 : action[h] # "none"
          /\ instance' = [instance EXCEPT ![q] = [generation |-> g, latest |-> g,
                                                  active |-> TRUE]]
    /\ Goto(q, "reserve")
    /\ UNCHANGED <<tables, run, past, trouble>>

Reserve(q) ==
    /\ pc[q] = "reserve"
    /\ Update(q)
    /\ IF state = "there" THEN Goto(q, "append") /\ UNCHANGED held ELSE Return(q)
    /\ UNCHANGED <<state, runs, action, past, trouble>>

\* A history without its unique index.
AppendAnyRun(q) ==
    /\ pc[q] = "append"
    /\ LET g == instance[q].latest IN
       /\ runs' = [runs EXCEPT ![g] = "active"]
       /\ run' = [run EXCEPT ![q] = g]
    /\ Goto(q, "create")
    /\ UNCHANGED <<state, row, action, instance, past, trouble>>

\* A name and a generation have one entry.
AppendRun(q) ==
    /\ pc[q] = "append"
    /\ LET g == instance[q].latest IN
       IF runs[g] = "none"
       THEN /\ runs' = [runs EXCEPT ![g] = "active"]
            /\ run' = [run EXCEPT ![q] = g]
            /\ Goto(q, "create")
            /\ UNCHANGED instance
       ELSE Return(q) /\ UNCHANGED runs
    /\ UNCHANGED <<state, row, action, past, trouble>>

\* An action that exists already is kept.
CreateAction(g) == action' = [action EXCEPT ![g] = IF @ = "none" THEN "live" ELSE @]

CreateRun(q) ==
    /\ pc[q] = "create"
    /\ CreateAction(instance[q].latest)
    /\ Goto(q, "update run")
    /\ UNCHANGED <<state, row, runs, held, past, trouble>>

\* An error, with the run created or not, marks the run and the row FAILED.
CreateRunFails(q) ==
    /\ pc[q] = "create"
    /\ faults < MaxFaults
    /\ faults' = faults + 1
    /\ CreateAction(instance[q].latest) \/ UNCHANGED action
    /\ instance' = [instance EXCEPT ![q].active = FALSE]
    /\ Goto(q, "update run")
    /\ UNCHANGED <<state, row, runs, run, past, crashes>>

-----------------------------------------------------------------------------
(* StopDevelopmentInstance and DeleteDevelopmentInstance.                  *)

StopReads(q) ==
    /\ Begin(q)
    /\ state = "there"
    /\ row.latest # 0
    /\ Hold(q)
    /\ Goto(q, "abort")

\* AbortRun marks the root action of the run, in whatever phase it is.
AbortRun(q) ==
    /\ pc[q] = "abort"
    /\ LET g == instance[q].latest IN
       IF action[g] = "none"
       THEN Return(q) /\ UNCHANGED action
       ELSE /\ action' = [action EXCEPT ![g] = "ended"]
            /\ instance' = [instance EXCEPT ![q].active = FALSE]
            /\ Goto(q, "last run")
            /\ UNCHANGED run
    /\ UNCHANGED <<state, row, runs, past, trouble>>

\* The newest entry of the history is marked, whichever run was aborted.
GetLatestRun(q) ==
    /\ pc[q] = "last run"
    /\ \E g \in Generations :
          /\ runs[g] # "none"
          /\ \A h \in Generations : runs[h] # "none" => h <= g
          /\ run' = [run EXCEPT ![q] = g]
    /\ Goto(q, "update run")
    /\ UNCHANGED <<tables, instance, past, trouble>>

\* Nothing is done about the run of a deleted instance.
Delete(q) ==
    /\ pc[q] = "idle"
    /\ state = "there"
    /\ state' = "deleted"
    /\ disturbed' = (disturbed \/ Busy \/ \E g \in Generations : action[g] = "live")
    /\ UNCHANGED <<row, runs, action, pc, held, stranded, trouble>>

-----------------------------------------------------------------------------
(* Failures and surroundings.                                              *)

\* A failing statement ends the request; what marks the run is only tried.
Fail(q) ==
    /\ pc[q] \notin {"idle", "check", "create"}
    /\ faults < MaxFaults
    /\ faults' = faults + 1
    /\ IF pc[q] \in {"last run", "update run"}
       THEN Goto(q, "update") /\ UNCHANGED <<held, stranded>>
       ELSE Return(q) /\ stranded' = (stranded \/ Adrift)
    /\ UNCHANGED <<tables, disturbed, crashes>>

\* The specification of the run cannot be built: found out after the
\* reservation.
BuildSpecFails(q) ==
    /\ pc[q] = "create"
    /\ faults < MaxFaults
    /\ faults' = faults + 1
    /\ Return(q)
    /\ stranded' = (stranded \/ Adrift)
    /\ UNCHANGED <<tables, disturbed, crashes>>

Crash ==
    /\ Busy
    /\ crashes < MaxCrashes
    /\ crashes' = crashes + 1
    /\ pc' = [q \in Requests |-> "idle"]
    /\ instance' = [q \in Requests |-> NewRow]
    /\ run' = [q \in Requests |-> 0]
    /\ stranded' = (stranded \/ Adrift)
    /\ UNCHANGED <<tables, disturbed, faults>>

\* External: a run reaches an outcome of its own.
RunEnds ==
    /\ \E g \in Generations :
          action[g] = "live" /\ action' = [action EXCEPT ![g] = "ended"]
    /\ UNCHANGED <<state, row, runs, pc, held, past, trouble>>

Serve(q) ==
    \/ CreateReads(q) \/ Insert(q) \/ CreateReadsAgain(q)
    \/ StartReads(q) \/ Check(q) \/ CheckFails(q) \/ NextRunName(q)
    \/ Reserve(q) \/ AppendRun(q) \/ CreateRun(q) \/ CreateRunFails(q)
    \/ StopReads(q) \/ AbortRun(q) \/ GetLatestRun(q) \/ Delete(q)
    \/ UpdateRun(q) \/ UpdateInstance(q) \/ Fail(q) \/ BuildSpecFails(q)

Next == (\E q \in Requests : Serve(q)) \/ Crash \/ RunEnds

Spec == Init /\ [][Next]_vars

-----------------------------------------------------------------------------
(* Properties.                                                             *)

Labels == {"idle", "insert", "read again", "update", "check", "pick", "reserve",
           "append", "create", "update run", "abort", "last run"}

TypeOK ==
    /\ state \in {"none", "there", "deleted"}
    /\ row \in Row
    /\ runs \in [Generations -> {"none", "active", "ended"}]
    /\ action \in [Generations -> {"none", "live", "ended"}]
    /\ pc \in [Requests -> Labels]
    /\ instance \in [Requests -> Row]
    /\ run \in [Requests -> 0 .. MaxGeneration]
    /\ disturbed \in BOOLEAN
    /\ stranded \in BOOLEAN
    /\ faults \in 0 .. MaxFaults
    /\ crashes \in 0 .. MaxCrashes

(***************************************************************************)
(* A run is created by one request: whoever is about to create one finds   *)
(* it missing and is alone with it, however requests overlap and whatever  *)
(* was deleted and revived meanwhile.  CreateRun would take a run that     *)
(* exists for its own (development_instance_service.go:275).               *)
(***************************************************************************)
OneStarter ==
    \A q \in Requests : pc[q] = "create" =>
        /\ action[instance[q].latest] = "none"
        /\ \A p \in Requests \ {q} :
              pc[p] = "create" => instance[p].latest # instance[q].latest

(***************************************************************************)
(* An instance has at most one live run, through failures, crashes and     *)
(* revivals, as long as requests come one at a time, no check of the       *)
(* latest run fails while it is alive, and no instance is deleted with its *)
(* run alive (developmentInstanceIsActive).                                *)
(***************************************************************************)
OneLiveRun ==
    ~disturbed =>
        \A g, h \in Generations : action[g] = "live" /\ action[h] = "live" => g = h

(***************************************************************************)
(* Between requests, an active instance has a run, so that Stop can end it *)
(* and Start works after it: a start that fails in CreateRun, or on a      *)
(* revived row, gives the instance free again (development_instance_       *)
(* service.go:287).  A start cut off after its reservation does not.       *)
(***************************************************************************)
ActiveHasRun ==
    ~disturbed /\ ~stranded /\ ~Busy => ~Adrift
=============================================================================
