----------------------- MODULE DevelopmentInstance_proofs -----------------------
(***************************************************************************)
(* DevelopmentInstance is well typed, starts each run once, and, while its *)
(* requests come one at a time, keeps at most one of them alive and names  *)
(* no run that does not exist; for any number of requests, generations,    *)
(* failures and crashes.                                                   *)
(***************************************************************************)
EXTENDS DevelopmentInstance, TLAPS

-----------------------------------------------------------------------------
(* Types, and that what a request works on is a run.                       *)

\* Requests that name a run.
Names(q) ==
    /\ pc[q] \in {"reserve", "append", "create", "abort"} =>
          instance[q].latest \in Generations
    /\ pc[q] \in {"create", "update run"} => run[q] \in Generations

TablesTyped ==
    /\ state \in {"none", "there", "deleted"}
    /\ row \in Row
    /\ runs \in [Generations -> {"none", "active", "ended"}]
    /\ action \in [Generations -> {"none", "live", "ended"}]
    /\ disturbed \in BOOLEAN
    /\ stranded \in BOOLEAN
    /\ faults \in 0 .. MaxFaults
    /\ crashes \in 0 .. MaxCrashes

RequestsTyped ==
    /\ pc \in [Requests -> Labels]
    /\ instance \in [Requests -> Row]
    /\ run \in [Requests -> 0 .. MaxGeneration]
    /\ \A q \in Requests : Names(q)

Typed == TablesTyped /\ RequestsTyped

LEMMA NewRowIsRow == NewRow \in Row
  BY InstanceAssumption DEF NewRow, Row

LEMMA InitTyped == Init => Typed
  <1> SUFFICES ASSUME Init PROVE Typed
      OBVIOUS
  <1>1. 0 \in 0 .. MaxFaults /\ 0 \in 0 .. MaxCrashes /\ 0 \in 0 .. MaxGeneration
      BY InstanceAssumption, SMT
  <1>2. /\ pc \in [Requests -> Labels]
        /\ instance \in [Requests -> Row]
        /\ run \in [Requests -> 0 .. MaxGeneration]
      BY <1>1, NewRowIsRow DEF Init, Labels
  <1>3. TablesTyped
      BY <1>1, <1>2, NewRowIsRow DEF Init, TablesTyped
  <1>4. \A q \in Requests : Names(q)
      BY DEF Init, Names
  <1> QED BY <1>2, <1>3, <1>4 DEF Typed, RequestsTyped

\* A request moves on, with what it holds.
LEMMA MoveTyped ==
  ASSUME Typed, NEW q \in Requests, NEW label \in Labels, NEW r \in Row,
         NEW g \in 0 .. MaxGeneration,
         pc' = [pc EXCEPT ![q] = label],
         instance' = [instance EXCEPT ![q] = r],
         run' = [run EXCEPT ![q] = g],
         label \in {"reserve", "append", "create", "abort"} => r.latest \in Generations,
         label \in {"create", "update run"} => g \in Generations
  PROVE  RequestsTyped'
  <1>1. /\ pc' \in [Requests -> Labels]
        /\ instance' \in [Requests -> Row]
        /\ run' \in [Requests -> 0 .. MaxGeneration]
      BY DEF Typed, TablesTyped, RequestsTyped
  <1>2. ASSUME NEW p \in Requests PROVE Names(p)'
      <2>1. CASE p = q
          BY <2>1 DEF Typed, TablesTyped, RequestsTyped, RequestsTyped, Names
      <2>2. CASE p # q
          BY <2>2 DEF Typed, TablesTyped, RequestsTyped, RequestsTyped, Names
      <2> QED BY <2>1, <2>2
  <1> QED BY <1>1, <1>2 DEF RequestsTyped

LEMMA GotoTyped ==
  ASSUME Typed, NEW q \in Requests, NEW label \in Labels, Goto(q, label),
         UNCHANGED held,
         label \in {"reserve", "append", "create", "abort"} =>
            instance[q].latest \in Generations,
         label \in {"create", "update run"} => run[q] \in Generations
  PROVE  RequestsTyped'
  <1>1. instance' = [instance EXCEPT ![q] = instance[q]] /\ instance[q] \in Row
      BY DEF Typed, TablesTyped, RequestsTyped, held
  <1>2. run' = [run EXCEPT ![q] = run[q]] /\ run[q] \in 0 .. MaxGeneration
      BY DEF Typed, TablesTyped, RequestsTyped, held
  <1> QED BY <1>1, <1>2, MoveTyped DEF Goto

LEMMA ReturnTyped ==
  ASSUME Typed, NEW q \in Requests, Return(q)
  PROVE  RequestsTyped'
  <1>1. "idle" \in Labels /\ 0 \in 0 .. MaxGeneration
      BY InstanceAssumption, SMT DEF Labels
  <1> QED BY <1>1, NewRowIsRow, MoveTyped DEF Return

LEMMA Refused ==
  ASSUME Typed, UNCHANGED <<tables, past, trouble>>
  PROVE  TablesTyped'
  BY DEF Typed, TablesTyped, tables, past, trouble

LEMMA Counted ==
  ASSUME Typed, faults < MaxFaults
  PROVE  faults + 1 \in 0 .. MaxFaults
  BY InstanceAssumption, SMT DEF Typed, TablesTyped, RequestsTyped

-----------------------------------------------------------------------------
(* One lemma per group of steps.                                           *)

LEMMA CreateTyped ==
  ASSUME Typed, NEW q \in Requests, CreateReads(q) \/ Insert(q) \/ CreateReadsAgain(q)
  PROVE  Typed'
  <1> USE DEF Labels
  <1>0. row \in Row
      BY DEF Typed, TablesTyped, RequestsTyped
  <1>1. CASE CreateReads(q)
      <2>1. TablesTyped'
          BY <1>1 DEF CreateReads, Begin, Typed, TablesTyped, tables, trouble
      <2>2. CASE Goto(q, "insert") /\ UNCHANGED instance
          BY <1>1, <2>1, <2>2, GotoTyped DEF Typed, CreateReads, Begin, held
      <2>3. CASE Hold(q) /\ Goto(q, "update")
          <3>1. run' = [run EXCEPT ![q] = run[q]] /\ run[q] \in 0 .. MaxGeneration
              BY <1>1 DEF CreateReads, Begin, Typed, TablesTyped, RequestsTyped
          <3> QED BY <1>0, <2>1, <2>3, <3>1, MoveTyped DEF Typed, Hold, Goto
      <2> QED BY <1>1, <2>2, <2>3 DEF CreateReads
  <1>2. CASE Insert(q)
      <2>1. [NewRow EXCEPT !.generation = row.generation] \in Row
          BY <1>0, NewRowIsRow DEF NewRow, Row
      <2>2. TablesTyped'
          BY <1>2, <2>1 DEF Insert, Typed, TablesTyped, past, trouble
      <2>3. CASE state = "there"
          BY <1>2, <2>2, <2>3, GotoTyped DEF Typed, Insert
      <2>4. CASE state # "there"
          BY <1>2, <2>2, <2>4, ReturnTyped DEF Typed, Insert
      <2> QED BY <2>3, <2>4
  <1>3. CASE CreateReadsAgain(q)
      <2>1. TablesTyped'
          BY <1>3, Refused DEF CreateReadsAgain
      <2>2. CASE state = "there"
          <3>1. run' = [run EXCEPT ![q] = run[q]] /\ run[q] \in 0 .. MaxGeneration
              BY <1>3, <2>2 DEF CreateReadsAgain, Typed, TablesTyped, RequestsTyped
          <3> QED BY <1>0, <1>3, <2>1, <2>2, <3>1, MoveTyped
                  DEF Typed, CreateReadsAgain, Hold, Goto
      <2>3. CASE state # "there"
          BY <1>3, <2>1, <2>3, ReturnTyped DEF Typed, CreateReadsAgain
      <2> QED BY <2>2, <2>3
  <1> QED BY <1>1, <1>2, <1>3

LEMMA ChecksTyped ==
  ASSUME Typed, NEW q \in Requests, StartReads(q) \/ Check(q) \/ CheckFails(q)
  PROVE  Typed'
  <1> USE DEF Labels
  <1>1. CASE StartReads(q)
      <2>1. TablesTyped'
          BY <1>1 DEF StartReads, Begin, Typed, TablesTyped, tables, trouble
      <2>2. /\ row \in Row
            /\ run' = [run EXCEPT ![q] = run[q]] /\ run[q] \in 0 .. MaxGeneration
          BY <1>1 DEF StartReads, Begin, Typed, TablesTyped, RequestsTyped
      <2> QED BY <1>1, <2>1, <2>2, MoveTyped DEF Typed, StartReads, Hold, Goto
  <1>2. CASE Check(q)
      <2>1. TablesTyped'
          BY <1>2, Refused DEF Check
      <2> QED BY <1>2, <2>1, ReturnTyped, GotoTyped DEF Typed, Check
  <1>3. CASE CheckFails(q)
      <2>1. TablesTyped'
          BY <1>3, Counted DEF CheckFails, Typed, TablesTyped, tables
      <2> QED BY <1>3, <2>1, ReturnTyped, GotoTyped DEF Typed, CheckFails
  <1> QED BY <1>1, <1>2, <1>3

LEMMA StartTyped ==
  ASSUME Typed, NEW q \in Requests,
         NextRunName(q) \/ Reserve(q) \/ AppendRun(q) \/ CreateRun(q) \/ CreateRunFails(q)
  PROVE  Typed'
  <1> USE DEF Labels
  <1>0. /\ instance[q] \in Row /\ run[q] \in 0 .. MaxGeneration
        /\ run = [run EXCEPT ![q] = run[q]]
        /\ instance = [instance EXCEPT ![q] = instance[q]]
        /\ [instance EXCEPT ![q].active = FALSE]
              = [instance EXCEPT ![q] = [instance[q] EXCEPT !.active = FALSE]]
      BY DEF Typed, TablesTyped, RequestsTyped
  <1>1. CASE NextRunName(q)
      <2>1. TablesTyped'
          BY <1>1, Refused DEF NextRunName
      <2>2. PICK g \in Generations :
               instance' = [instance EXCEPT ![q] = [generation |-> g, latest |-> g,
                                                    active |-> TRUE]]
          BY <1>1 DEF NextRunName
      <2>3. [generation |-> g, latest |-> g, active |-> TRUE] \in Row
          BY InstanceAssumption, SMT DEF Row, Generations
      <2> QED BY <1>0, <1>1, <2>1, <2>2, <2>3, MoveTyped DEF Typed, NextRunName, Goto
  <1>2. CASE Reserve(q)
      <2>1. TablesTyped'
          BY <1>0, <1>2 DEF Reserve, Update, Typed, TablesTyped, past, trouble
      <2>2. instance[q].latest \in Generations
          BY <1>2 DEF Reserve, Typed, RequestsTyped, Names
      <2> QED BY <1>2, <2>1, <2>2, GotoTyped, ReturnTyped DEF Typed, Reserve
  <1>3. CASE AppendRun(q)
      <2>1. instance[q].latest \in Generations
          BY <1>3 DEF AppendRun, Typed, RequestsTyped, Names
      <2>2. TablesTyped'
          BY <1>3 DEF AppendRun, Typed, TablesTyped, past, trouble
      <2>3. CASE runs[instance[q].latest] = "none"
          <3>1. instance[q].latest \in 0 .. MaxGeneration
              BY <1>0 DEF Row
          <3>2. /\ pc' = [pc EXCEPT ![q] = "create"]
                /\ instance' = [instance EXCEPT ![q] = instance[q]]
                /\ run' = [run EXCEPT ![q] = instance[q].latest]
              BY <1>0, <1>3, <2>3 DEF AppendRun, Goto
          <3>3. RequestsTyped'
              BY <1>0, <2>1, <3>1, <3>2, MoveTyped
          <3> QED BY <2>2, <3>3 DEF Typed
      <2>4. CASE runs[instance[q].latest] # "none"
          BY <1>3, <2>2, <2>4, ReturnTyped DEF Typed, AppendRun
      <2> QED BY <2>3, <2>4
  <1>4. CASE CreateRun(q)
      <2>1. TablesTyped'
          BY <1>4 DEF CreateRun, CreateAction, Typed, TablesTyped, past, trouble
      <2>2. run[q] \in Generations
          BY <1>4 DEF CreateRun, Typed, RequestsTyped, Names
      <2> QED BY <1>4, <2>1, <2>2, GotoTyped DEF Typed, CreateRun
  <1>5. CASE CreateRunFails(q)
      <2>1. TablesTyped'
          BY <1>5, Counted DEF CreateRunFails, CreateAction, Typed, TablesTyped, past
      <2>2. run[q] \in Generations
          BY <1>5 DEF CreateRunFails, Typed, RequestsTyped, Names
      <2>3. [instance[q] EXCEPT !.active = FALSE] \in Row
          BY <1>0 DEF Row
      <2> QED BY <1>0, <1>5, <2>1, <2>2, <2>3, MoveTyped DEF Typed, CreateRunFails, Goto
  <1> QED BY <1>1, <1>2, <1>3, <1>4, <1>5

LEMMA StopTyped ==
  ASSUME Typed, NEW q \in Requests,
         StopReads(q) \/ AbortRun(q) \/ GetLatestRun(q) \/ Delete(q)
  PROVE  Typed'
  <1> USE DEF Labels
  <1>0. /\ instance[q] \in Row /\ run[q] \in 0 .. MaxGeneration /\ row \in Row
        /\ run = [run EXCEPT ![q] = run[q]]
        /\ instance = [instance EXCEPT ![q] = instance[q]]
        /\ [instance EXCEPT ![q].active = FALSE]
              = [instance EXCEPT ![q] = [instance[q] EXCEPT !.active = FALSE]]
      BY DEF Typed, TablesTyped, RequestsTyped
  <1>1. CASE StopReads(q)
      <2>1. TablesTyped'
          BY <1>1 DEF StopReads, Begin, Typed, TablesTyped, tables, trouble
      <2>2. row.latest \in Generations
          BY <1>0, <1>1, InstanceAssumption, SMT DEF StopReads, Row, Generations
      <2> QED BY <1>0, <1>1, <2>1, <2>2, MoveTyped
              DEF Typed, StopReads, Begin, Hold, Goto
  <1>2. CASE AbortRun(q)
      <2>1. TablesTyped'
          BY <1>2 DEF AbortRun, Typed, TablesTyped, past, trouble
      <2>2. [instance[q] EXCEPT !.active = FALSE] \in Row
          BY <1>0 DEF Row
      <2>3. CASE action[instance[q].latest] = "none"
          BY <1>2, <2>1, <2>3, ReturnTyped DEF Typed, AbortRun
      <2>4. CASE action[instance[q].latest] # "none"
          <3>1. /\ pc' = [pc EXCEPT ![q] = "last run"]
                /\ instance' = [instance EXCEPT ![q] = [instance[q] EXCEPT !.active = FALSE]]
                /\ run' = [run EXCEPT ![q] = run[q]]
              BY <1>0, <1>2, <2>4 DEF AbortRun, Goto
          <3>2. RequestsTyped'
              BY <1>0, <2>2, <3>1, MoveTyped
          <3> QED BY <2>1, <3>2 DEF Typed
      <2> QED BY <2>3, <2>4
  <1>3. CASE GetLatestRun(q)
      <2>1. TablesTyped'
          BY <1>3, Refused DEF GetLatestRun
      <2>2. PICK g \in Generations : run' = [run EXCEPT ![q] = g]
          BY <1>3 DEF GetLatestRun
      <2>3. g \in 0 .. MaxGeneration
          BY InstanceAssumption, SMT DEF Generations
      <2> QED BY <1>0, <1>3, <2>1, <2>2, <2>3, MoveTyped DEF Typed, GetLatestRun, Goto
  <1>4. CASE Delete(q)
      BY <1>4 DEF Delete, Typed, TablesTyped, RequestsTyped, RequestsTyped, Names, held, trouble
  <1> QED BY <1>1, <1>2, <1>3, <1>4

LEMMA EndTyped ==
  ASSUME Typed, NEW q \in Requests,
         UpdateRun(q) \/ UpdateInstance(q) \/ Fail(q) \/ BuildSpecFails(q)
  PROVE  Typed'
  <1> USE DEF Labels
  <1>1. CASE UpdateRun(q)
      <2>1. TablesTyped'
          BY <1>1 DEF UpdateRun, Typed, TablesTyped, past, trouble
      <2> QED BY <1>1, <2>1, GotoTyped DEF Typed, UpdateRun
  <1>2. CASE UpdateInstance(q)
      <2>1. TablesTyped'
          BY <1>2 DEF UpdateInstance, Update, Typed, TablesTyped, RequestsTyped, past, trouble
      <2> QED BY <1>2, <2>1, ReturnTyped DEF Typed, UpdateInstance
  <1>3. CASE Fail(q)
      <2>0. Adrift \in BOOLEAN
          BY DEF Adrift
      <2>1. TablesTyped'
          BY <1>3, <2>0, Counted DEF Fail, Typed, TablesTyped, tables
      <2> QED BY <1>3, <2>1, ReturnTyped, GotoTyped DEF Typed, Fail
  <1>4. CASE BuildSpecFails(q)
      <2>0. Adrift \in BOOLEAN
          BY DEF Adrift
      <2>1. TablesTyped'
          BY <1>4, <2>0, Counted DEF BuildSpecFails, Typed, TablesTyped, tables
      <2> QED BY <1>4, <2>1, ReturnTyped DEF Typed, BuildSpecFails
  <1> QED BY <1>1, <1>2, <1>3, <1>4

LEMMA CrashTyped ==
  ASSUME Typed, Crash
  PROVE  Typed'
  <1>1. crashes + 1 \in 0 .. MaxCrashes
      BY InstanceAssumption, SMT DEF Crash, Typed, TablesTyped, RequestsTyped
  <1>2. 0 \in 0 .. MaxGeneration
      BY InstanceAssumption, SMT
  <1>3. Adrift \in BOOLEAN
      BY DEF Adrift
  <1>4. TablesTyped'
      BY <1>1, <1>2, <1>3, NewRowIsRow DEF Crash, Typed, TablesTyped, RequestsTyped, tables, Labels
  <1>5. RequestsTyped'
      BY <1>2, NewRowIsRow DEF Crash, Labels, Names, RequestsTyped
  <1> QED BY <1>4, <1>5 DEF Typed

LEMMA RunEndsTyped ==
  ASSUME Typed, RunEnds
  PROVE  Typed'
  BY DEF RunEnds, Typed, TablesTyped, RequestsTyped, RequestsTyped, Names, held, past, trouble

LEMMA NextTyped ==
  ASSUME Typed, [Next]_vars
  PROVE  Typed'
  <1>1. CASE UNCHANGED vars
      BY <1>1 DEF vars, Typed, TablesTyped, RequestsTyped, RequestsTyped, Names
  <1>2. ASSUME NEW q \in Requests, Serve(q) PROVE Typed'
      BY <1>2, CreateTyped, ChecksTyped, StartTyped, StopTyped, EndTyped DEF Serve
  <1> QED BY <1>1, <1>2, CrashTyped, RunEndsTyped DEF Next

(***************************************************************************)
(* Every variable has its type, and what a request works on is a run.      *)
(***************************************************************************)
THEOREM InstanceTyped == Spec => []TypeOK
  <1>1. Init => Typed
      BY InitTyped
  <1>2. Typed /\ [Next]_vars => Typed'
      BY NextTyped
  <1>3. Typed => TypeOK
      BY DEF Typed, TablesTyped, RequestsTyped, TypeOK
  <1> QED BY <1>1, <1>2, <1>3, PTL DEF Spec

-----------------------------------------------------------------------------
(* A run is started once: the history has an entry for every run, so the   *)
(* one who may enter it finds no run of that name, and while the entry is  *)
(* there nobody else enters it.                                            *)

Recorded == \A g \in Generations : action[g] # "none" => runs[g] # "none"

Entered == \A q \in Requests : pc[q] = "create" => runs[instance[q].latest] # "none"

Starts == Recorded /\ Entered /\ OneStarter

\* A step that is not about a new run: entries stay, no action appears, and
\* nobody gets to create one.
LEMMA NoStart ==
  ASSUME Typed, Starts,
         \A g \in Generations : runs[g] # "none" => runs'[g] # "none",
         \A g \in Generations : action[g] = "none" => action'[g] = "none",
         \A q \in Requests : pc'[q] = "create" =>
             pc[q] = "create" /\ instance'[q].latest = instance[q].latest
  PROVE  Starts'
  <1>1. \A q \in Requests : pc[q] = "create" => instance[q].latest \in Generations
      BY DEF Typed, RequestsTyped, Names
  <1>2. Recorded'
      BY DEF Starts, Recorded
  <1>3. Entered'
      BY <1>1 DEF Starts, Entered
  <1>4. OneStarter'
      BY <1>1 DEF Starts, OneStarter
  <1> QED BY <1>2, <1>3, <1>4 DEF Starts

LEMMA AppendStarts ==
  ASSUME Typed, Starts, NEW q \in Requests, AppendRun(q)
  PROVE  Starts'
  <1> DEFINE g == instance[q].latest
  <1>1. g \in Generations
      BY DEF AppendRun, Typed, RequestsTyped, Names
  <1>2. CASE runs[g] # "none"
      BY <1>2, NoStart DEF AppendRun, Return, Typed, RequestsTyped
  <1>3. CASE runs[g] = "none"
      <2>1. /\ runs' = [runs EXCEPT ![g] = "active"]
            /\ pc' = [pc EXCEPT ![q] = "create"]
            /\ UNCHANGED <<action, instance>>
          BY <1>3 DEF AppendRun, Goto
      <2>2. action[g] = "none"
          BY <1>1, <1>3 DEF Starts, Recorded
      <2>3. \A p \in Requests : pc[p] = "create" => instance[p].latest # g
          BY <1>3 DEF Starts, Entered
      <2>4. Recorded'
          BY <2>1 DEF Starts, Recorded, Typed, TablesTyped
      <2>5. Entered'
          BY <1>1, <2>1, <2>3 DEF Starts, Entered, Typed, TablesTyped, RequestsTyped
      <2>6. OneStarter'
          BY <2>1, <2>2, <2>3 DEF Starts, OneStarter, Typed, RequestsTyped
      <2> QED BY <2>4, <2>5, <2>6 DEF Starts
  <1> QED BY <1>2, <1>3

LEMMA CreateStarts ==
  ASSUME Typed, Starts, NEW q \in Requests, CreateRun(q) \/ CreateRunFails(q)
  PROVE  Starts'
  <1> DEFINE g == instance[q].latest
  <1>1. g \in Generations /\ pc[q] = "create" /\ runs[g] # "none"
      BY DEF CreateRun, CreateRunFails, Typed, RequestsTyped, Names, Starts, Entered
  <1>2. /\ \/ action' = [action EXCEPT ![g] = "live"]
           \/ action' = action
        /\ pc' = [pc EXCEPT ![q] = "update run"]
        /\ UNCHANGED runs
        /\ \A p \in Requests : p # q => instance'[p] = instance[p]
      BY <1>1 DEF CreateRun, CreateRunFails, CreateAction, Goto, held, Starts, OneStarter,
                  Typed, RequestsTyped
  <1>3. \A p \in Requests : pc'[p] = "create" =>
            /\ p # q /\ pc[p] = "create"
            /\ instance[p].latest \in Generations
            /\ instance'[p].latest = instance[p].latest
            /\ instance[p].latest # g
            /\ action[instance[p].latest] = "none"
      BY <1>1, <1>2 DEF Starts, OneStarter, Typed, RequestsTyped, Names
  <1>4. Recorded'
      BY <1>1, <1>2 DEF Starts, Recorded, Typed, TablesTyped
  <1>5. Entered'
      BY <1>2, <1>3 DEF Starts, Entered
  <1>6. OneStarter'
      <2>1. \A p \in Requests : pc'[p] = "create" => action'[instance'[p].latest] = "none"
          <3>1. \A h \in Generations : h # g => action'[h] = action[h]
              BY <1>2 DEF Typed, TablesTyped
          <3> QED BY <1>3, <3>1
      <2>2. \A p, r \in Requests :
                pc'[p] = "create" /\ pc'[r] = "create" /\ p # r =>
                    instance'[p].latest # instance'[r].latest
          BY <1>3 DEF Starts, OneStarter
      <2> QED BY <2>1, <2>2 DEF OneStarter
  <1> QED BY <1>4, <1>5, <1>6 DEF Starts

LEMMA OtherStarts ==
  ASSUME Typed, Starts, NEW q \in Requests,
         \/ CreateReads(q) \/ Insert(q) \/ CreateReadsAgain(q)
         \/ StartReads(q) \/ Check(q) \/ CheckFails(q) \/ NextRunName(q) \/ Reserve(q)
         \/ StopReads(q) \/ AbortRun(q) \/ GetLatestRun(q) \/ Delete(q)
         \/ UpdateRun(q) \/ UpdateInstance(q) \/ Fail(q) \/ BuildSpecFails(q)
  PROVE  Starts'
  <1> USE DEF Typed, TablesTyped, RequestsTyped, held, tables, Goto, Return, Hold
  <1>1. CASE CreateReads(q) \/ Insert(q) \/ CreateReadsAgain(q)
      BY <1>1, NoStart DEF CreateReads, Begin, Insert, CreateReadsAgain
  <1>2. CASE StartReads(q) \/ Check(q) \/ CheckFails(q)
      BY <1>2, NoStart DEF StartReads, Begin, Check, CheckFails
  <1>3. CASE NextRunName(q) \/ Reserve(q)
      BY <1>3, NoStart DEF NextRunName, Reserve
  <1>4. CASE StopReads(q) \/ GetLatestRun(q) \/ Delete(q)
      BY <1>4, NoStart DEF StopReads, Begin, GetLatestRun, Delete
  <1>5. CASE AbortRun(q)
      BY <1>5, NoStart DEF AbortRun
  <1>6. CASE UpdateRun(q)
      BY <1>6, NoStart DEF UpdateRun
  <1>7. CASE UpdateInstance(q) \/ Fail(q) \/ BuildSpecFails(q)
      BY <1>7, NoStart DEF UpdateInstance, Fail, BuildSpecFails
  <1> QED BY <1>1, <1>2, <1>3, <1>4, <1>5, <1>6, <1>7

LEMMA NextStarts ==
  ASSUME Typed, Starts, [Next]_vars
  PROVE  Starts'
  <1>1. CASE UNCHANGED vars
      BY <1>1, NoStart DEF vars
  <1>2. CASE Crash
      BY <1>2, NoStart DEF Crash, tables
  <1>3. CASE RunEnds
      BY <1>3, NoStart DEF RunEnds, held, Typed, TablesTyped
  <1>4. ASSUME NEW q \in Requests, Serve(q) PROVE Starts'
      BY <1>4, AppendStarts, CreateStarts, OtherStarts DEF Serve
  <1> QED BY <1>1, <1>2, <1>3, <1>4 DEF Next

(***************************************************************************)
(* Each run is created by one request, for any number of requests,         *)
(* generations, failures and crashes.                                      *)
(***************************************************************************)
THEOREM RunsAreStartedOnce == Spec => []OneStarter
  <1>1. Init => Typed /\ Starts
      BY InitTyped DEF Init, Starts, Recorded, Entered, OneStarter
  <1>2. Typed /\ Starts /\ [Next]_vars => (Typed /\ Starts)'
      BY NextTyped, NextStarts
  <1>3. Starts => OneStarter
      BY DEF Starts
  <1> QED BY <1>1, <1>2, <1>3, PTL DEF Spec

-----------------------------------------------------------------------------
(* As long as nothing has disturbed an instance, one request is at work,   *)
(* a live run is the one the row names, and a start that has checked this  *)
(* has none beside it.                                                     *)

Alone == \A p, q \in Requests : pc[p] # "idle" /\ pc[q] # "idle" => p = q

LiveIsLatest ==
    \A g \in Generations : action[g] = "live" => state = "there" /\ row.latest = g

NoneLive == \A g \in Generations : action[g] # "live"

InStep(q) ==
    /\ pc[q] \notin {"idle", "insert"} => state = "there"
    /\ pc[q] \in {"update", "check", "append", "create", "update run", "abort", "last run"} =>
          instance[q].latest = row.latest
    /\ pc[q] \in {"pick", "reserve", "append", "create"} => NoneLive

Quiet == Alone /\ LiveIsLatest /\ \A q \in Requests : InStep(q)

\* A step of the one request at work.
LEMMA OneMoves ==
  ASSUME Typed, NEW q \in Requests, NEW label,
         \A p \in Requests \ {q} : pc[p] = "idle",
         pc' = [pc EXCEPT ![q] = label],
         LiveIsLatest', InStep(q)'
  PROVE  Quiet'
  <1>1. \A p \in Requests \ {q} : pc'[p] = "idle"
      BY DEF Typed, RequestsTyped
  <1>2. Alone'
      BY <1>1 DEF Alone
  <1>3. \A p \in Requests : InStep(p)'
      BY <1>1 DEF InStep
  <1> QED BY <1>2, <1>3 DEF Quiet

LEMMA OthersIdle ==
  ASSUME Quiet, NEW q \in Requests, pc[q] # "idle"
  PROVE  \A p \in Requests \ {q} : pc[p] = "idle"
  BY DEF Quiet, Alone

LEMMA BeginsAlone ==
  ASSUME NEW q \in Requests, Begin(q), ~disturbed'
  PROVE  \A p \in Requests : pc[p] = "idle"
  BY DEF Begin, Busy

LEMMA CreateQuiet ==
  ASSUME Typed, Quiet, NEW q \in Requests, ~disturbed',
         CreateReads(q) \/ Insert(q) \/ CreateReadsAgain(q)
  PROVE  Quiet'
  <1> USE DEF Typed, RequestsTyped, Goto, Return, Hold, tables, past
  <1>1. CASE CreateReads(q)
      <2>1. PICK label \in {"insert", "update"} : pc' = [pc EXCEPT ![q] = label]
          BY <1>1 DEF CreateReads
      <2>2. LiveIsLatest'
          BY <1>1 DEF CreateReads, Begin, Quiet, LiveIsLatest
      <2>3. InStep(q)'
          BY <1>1 DEF CreateReads, Begin, InStep
      <2> QED BY <1>1, <2>1, <2>2, <2>3, BeginsAlone, OneMoves DEF CreateReads
  <1>2. CASE Insert(q)
      <2>1. PICK label \in {"idle", "read again"} : pc' = [pc EXCEPT ![q] = label]
          BY <1>2 DEF Insert
      <2>2. LiveIsLatest'
          BY <1>2 DEF Insert, Quiet, LiveIsLatest
      <2>3. InStep(q)'
          BY <1>2 DEF Insert, InStep
      <2> QED BY <1>2, <2>1, <2>2, <2>3, OthersIdle, OneMoves DEF Insert
  <1>3. CASE CreateReadsAgain(q)
      <2>1. PICK label \in {"idle", "update"} : pc' = [pc EXCEPT ![q] = label]
          BY <1>3 DEF CreateReadsAgain
      <2>2. LiveIsLatest'
          BY <1>3 DEF CreateReadsAgain, Quiet, LiveIsLatest
      <2>3. InStep(q)'
          BY <1>3 DEF CreateReadsAgain, InStep
      <2> QED BY <1>3, <2>1, <2>2, <2>3, OthersIdle, OneMoves DEF CreateReadsAgain
  <1> QED BY <1>1, <1>2, <1>3

LEMMA ChecksQuiet ==
  ASSUME Typed, Quiet, NEW q \in Requests, ~disturbed',
         StartReads(q) \/ StopReads(q) \/ Check(q) \/ CheckFails(q)
  PROVE  Quiet'
  <1> USE DEF Typed, RequestsTyped, Goto, Return, Hold, tables, past
  <1>1. CASE StartReads(q) \/ StopReads(q)
      <2>1. PICK label \in {"check", "abort"} : pc' = [pc EXCEPT ![q] = label]
          BY <1>1 DEF StartReads, StopReads
      <2>2. LiveIsLatest'
          BY <1>1 DEF StartReads, StopReads, Begin, Quiet, LiveIsLatest
      <2>3. InStep(q)'
          BY <1>1 DEF StartReads, StopReads, Begin, InStep
      <2> QED BY <1>1, <2>1, <2>2, <2>3, BeginsAlone, OneMoves DEF StartReads, StopReads
  <1>2. CASE Check(q) \/ CheckFails(q)
      <2>1. /\ pc[q] = "check" /\ UNCHANGED tables
            /\ \E label \in {"idle", "pick"} : pc' = [pc EXCEPT ![q] = label]
          BY <1>2 DEF Check, CheckFails
      <2>2. state = "there" /\ instance[q].latest = row.latest
          BY <2>1 DEF Quiet, InStep
      <2>3. pc'[q] = "pick" => NoneLive
          <3> SUFFICES ASSUME pc'[q] = "pick", NEW g \in Generations, action[g] = "live"
                       PROVE FALSE
              BY DEF NoneLive
          <3>1. g = instance[q].latest /\ g # 0
              BY <2>2, InstanceAssumption, SMT DEF Quiet, LiveIsLatest, Generations
          <3>2. CASE Check(q)
              <4>1. ~IsActive(q)
                  BY <3>2, SMT DEF Check
              <4> QED BY <3>1, <4>1 DEF IsActive
          <3>3. CASE CheckFails(q)
              BY <3>1, <3>3 DEF CheckFails
          <3> QED BY <1>2, <3>2, <3>3
      <2>4. LiveIsLatest'
          BY <2>1 DEF Quiet, LiveIsLatest
      <2>5. InStep(q)'
          BY <2>1, <2>2, <2>3 DEF InStep, NoneLive
      <2> QED BY <2>1, <2>4, <2>5, OthersIdle, OneMoves
  <1> QED BY <1>1, <1>2

LEMMA StartQuiet ==
  ASSUME Typed, Quiet, NEW q \in Requests, ~disturbed',
         NextRunName(q) \/ Reserve(q) \/ AppendRun(q) \/ CreateRun(q) \/ CreateRunFails(q)
  PROVE  Quiet'
  <1> USE DEF Typed, RequestsTyped, Goto, Return, tables, past, held
  <1>1. CASE NextRunName(q)
      <2>1. /\ pc[q] = "pick" /\ pc' = [pc EXCEPT ![q] = "reserve"] /\ UNCHANGED tables
          BY <1>1 DEF NextRunName
      <2>2. LiveIsLatest' /\ InStep(q)'
          BY <2>1 DEF Quiet, LiveIsLatest, InStep, NoneLive
      <2> QED BY <2>1, <2>2, OthersIdle, OneMoves
  <1>2. CASE Reserve(q)
      <2>1. /\ pc[q] = "reserve" /\ state = "there" /\ NoneLive
            /\ pc' = [pc EXCEPT ![q] = "append"] /\ row' = instance[q]
            /\ UNCHANGED <<state, action, instance>>
          BY <1>2 DEF Reserve, Update, Quiet, InStep
      <2>2. LiveIsLatest' /\ InStep(q)'
          BY <2>1 DEF LiveIsLatest, InStep, NoneLive
      <2> QED BY <2>1, <2>2, OthersIdle, OneMoves
  <1>3. CASE AppendRun(q)
      <2>1. /\ pc[q] = "append" /\ UNCHANGED <<state, row, action>>
            /\ \/ pc' = [pc EXCEPT ![q] = "create"] /\ UNCHANGED instance
               \/ pc' = [pc EXCEPT ![q] = "idle"]
          BY <1>3 DEF AppendRun
      <2>2. LiveIsLatest' /\ InStep(q)'
          BY <2>1 DEF Quiet, LiveIsLatest, InStep, NoneLive
      <2> QED BY <2>1, <2>2, OthersIdle, OneMoves
  <1>4. CASE CreateRun(q) \/ CreateRunFails(q)
      <2>1. /\ pc[q] = "create" /\ pc' = [pc EXCEPT ![q] = "update run"]
            /\ UNCHANGED <<state, row>>
            /\ instance'[q].latest = instance[q].latest
            /\ CreateAction(instance[q].latest) \/ UNCHANGED action
          BY <1>4 DEF CreateRun, CreateRunFails, Row
      <2>2. state = "there" /\ NoneLive /\ instance[q].latest = row.latest
          BY <2>1 DEF Quiet, InStep
      <2>3. LiveIsLatest'
          BY <2>1, <2>2 DEF CreateAction, NoneLive, LiveIsLatest, TablesTyped
      <2>4. InStep(q)'
          BY <2>1, <2>2 DEF InStep
      <2> QED BY <2>1, <2>3, <2>4, OthersIdle, OneMoves
  <1> QED BY <1>1, <1>2, <1>3, <1>4

LEMMA EndQuiet ==
  ASSUME Typed, Quiet, NEW q \in Requests, ~disturbed',
         \/ AbortRun(q) \/ GetLatestRun(q) \/ UpdateRun(q) \/ UpdateInstance(q)
         \/ Fail(q) \/ BuildSpecFails(q)
  PROVE  Quiet'
  <1> USE DEF Typed, RequestsTyped, Goto, Return, tables, past, held
  <1>1. CASE AbortRun(q)
      <2>1. /\ pc[q] = "abort" /\ UNCHANGED <<state, row>>
            /\ \A g \in Generations : action'[g] = "live" => action[g] = "live"
            /\ \/ pc' = [pc EXCEPT ![q] = "idle"]
               \/ /\ pc' = [pc EXCEPT ![q] = "last run"]
                  /\ instance'[q].latest = instance[q].latest
          <3>1. instance[q] \in Row
              OBVIOUS
          <3>2. CASE action[instance[q].latest] = "none"
              BY <1>1, <3>2 DEF AbortRun
          <3>3. CASE action[instance[q].latest] # "none"
              <4>1. /\ action' = [action EXCEPT ![instance[q].latest] = "ended"]
                    /\ instance' = [instance EXCEPT ![q].active = FALSE]
                  BY <1>1, <3>3 DEF AbortRun
              <4>2. \A g \in Generations : action'[g] = "live" => action[g] = "live"
                  BY <4>1 DEF TablesTyped
              <4>3. instance'[q].latest = instance[q].latest
                  BY <3>1, <4>1 DEF Row
              <4> QED BY <1>1, <3>3, <4>2, <4>3 DEF AbortRun
          <3> QED BY <3>2, <3>3
      <2>2. LiveIsLatest' /\ InStep(q)'
          BY <2>1 DEF Quiet, LiveIsLatest, InStep
      <2> QED BY <2>1, <2>2, OthersIdle, OneMoves
  <1>2. CASE GetLatestRun(q) \/ UpdateRun(q)
      <2>1. /\ pc[q] \in {"last run", "update run"} /\ UNCHANGED <<state, row, action, instance>>
            /\ \E label \in {"update run", "update"} : pc' = [pc EXCEPT ![q] = label]
          BY <1>2 DEF GetLatestRun, UpdateRun
      <2>2. LiveIsLatest' /\ InStep(q)'
          BY <2>1 DEF Quiet, LiveIsLatest, InStep
      <2> QED BY <2>1, <2>2, OthersIdle, OneMoves
  <1>3. CASE UpdateInstance(q)
      <2>1. /\ pc[q] = "update" /\ UNCHANGED <<state, action>>
            /\ pc' = [pc EXCEPT ![q] = "idle"] /\ row'.latest = row.latest
          BY <1>3 DEF UpdateInstance, Update, Quiet, InStep
      <2>2. LiveIsLatest' /\ InStep(q)'
          BY <2>1 DEF Quiet, LiveIsLatest, InStep
      <2> QED BY <2>1, <2>2, OthersIdle, OneMoves
  <1>4. CASE Fail(q) \/ BuildSpecFails(q)
      <2>1. /\ pc[q] # "idle" /\ UNCHANGED tables
            /\ \/ pc' = [pc EXCEPT ![q] = "idle"]
               \/ /\ pc[q] \in {"last run", "update run"}
                  /\ pc' = [pc EXCEPT ![q] = "update"] /\ UNCHANGED instance
          BY <1>4 DEF Fail, BuildSpecFails
      <2>2. LiveIsLatest' /\ InStep(q)'
          BY <2>1 DEF Quiet, LiveIsLatest, InStep
      <2> QED BY <2>1, <2>2, OthersIdle, OneMoves
  <1> QED BY <1>1, <1>2, <1>3, <1>4

LEMMA DeleteQuiet ==
  ASSUME Typed, Quiet, NEW q \in Requests, ~disturbed', Delete(q)
  PROVE  Quiet'
  BY DEF Delete, Busy, Quiet, Alone, LiveIsLatest, InStep, held

LEMMA NextQuiet ==
  ASSUME Typed, ~disturbed => Quiet, [Next]_vars
  PROVE  (~disturbed => Quiet)'
  <1> SUFFICES ASSUME ~disturbed' PROVE Quiet'
      OBVIOUS
  <1>1. CASE UNCHANGED vars
      BY <1>1 DEF vars, Quiet, Alone, LiveIsLatest, InStep, NoneLive
  <1>2. CASE Crash
      BY <1>2 DEF Crash, tables, Quiet, Alone, LiveIsLatest, InStep
  <1>3. CASE RunEnds
      BY <1>3 DEF RunEnds, held, past, Typed, TablesTyped, Quiet, Alone, LiveIsLatest, InStep,
                  NoneLive
  <1>4. ASSUME NEW q \in Requests, Serve(q) PROVE Quiet'
      <2>1. ~disturbed
          BY <1>4 DEF Serve, CreateReads, Begin, Insert, CreateReadsAgain, StartReads, Check,
                      CheckFails, NextRunName, Reserve, AppendRun, CreateRun, CreateRunFails,
                      StopReads, AbortRun, GetLatestRun, Delete, UpdateRun, UpdateInstance,
                      Fail, BuildSpecFails, past
      <2> QED BY <1>4, <2>1, CreateQuiet, ChecksQuiet, StartQuiet, EndQuiet, DeleteQuiet DEF Serve
  <1> QED BY <1>1, <1>2, <1>3, <1>4 DEF Next

(***************************************************************************)
(* Requests that come one at a time leave at most one run alive, through   *)
(* any failures, crashes and revivals, for any number of generations.      *)
(***************************************************************************)
THEOREM OneRunIsLive == Spec => []OneLiveRun
  <1>1. Init => Typed /\ (~disturbed => Quiet)
      BY InitTyped DEF Init, Quiet, Alone, LiveIsLatest, InStep
  <1>2. Typed /\ (~disturbed => Quiet) /\ [Next]_vars => (Typed /\ (~disturbed => Quiet))'
      BY NextTyped, NextQuiet
  <1>3. (~disturbed => Quiet) => OneLiveRun
      BY DEF Quiet, LiveIsLatest, OneLiveRun
  <1> QED BY <1>1, <1>2, <1>3, PTL DEF Spec

-----------------------------------------------------------------------------
(* As long as no start was cut off either, the request at work knows the   *)
(* generation of the row, no run of the history is above it, and the row   *)
(* names a run that does not exist only while the request that will create *)
(* it, or give the instance free again, is at work.                        *)

Tracks(q) ==
    /\ pc[q] \in {"update", "check", "pick", "append", "create", "update run", "abort", "last run"} =>
          instance[q].generation = row.generation
    /\ pc[q] \in {"reserve", "append"} =>
          /\ instance[q].latest = instance[q].generation
          /\ instance[q].generation >= row.generation
          /\ runs[instance[q].latest] = "none"
    /\ pc[q] \in {"create", "update run"} => runs[run[q]] # "none"
    /\ pc[q] = "last run" => ~instance[q].active
    /\ pc[q] \in {"update run", "update"} /\ instance[q].active /\ instance[q].latest # 0 =>
          action[instance[q].latest] # "none"

Finishing(q) ==
    \/ pc[q] \in {"append", "create"}
    \/ pc[q] \in {"update run", "update"} /\ ~instance[q].active

NoneAbove == \A g \in Generations : runs[g] # "none" => g <= row.generation

Orderly ==
    /\ NoneAbove
    /\ \A q \in Requests : Tracks(q)
    /\ Adrift => \E q \in Requests : Finishing(q)

\* A step of the one request at work.
LEMMA OneOrders ==
  ASSUME Typed, NEW q \in Requests, NEW label,
         \A p \in Requests \ {q} : pc[p] = "idle",
         pc' = [pc EXCEPT ![q] = label],
         NoneAbove', Tracks(q)', Adrift' => Finishing(q)'
  PROVE  Orderly'
  <1>1. \A p \in Requests \ {q} : pc'[p] = "idle"
      BY DEF Typed, RequestsTyped
  <1>2. \A p \in Requests : Tracks(p)'
      BY <1>1 DEF Tracks
  <1> QED BY <1>2 DEF Orderly

\* Whether the row is adrift, while the others are idle.
LEMMA AdriftAlone ==
  ASSUME Orderly, NEW q \in Requests, \A p \in Requests \ {q} : pc[p] = "idle", ~Finishing(q)
  PROVE  ~Adrift
  BY DEF Orderly, Finishing

LEMMA CreateOrderly ==
  ASSUME Typed, Quiet, Orderly, NEW q \in Requests, ~disturbed',
         CreateReads(q) \/ Insert(q) \/ CreateReadsAgain(q)
  PROVE  Orderly'
  <1> USE DEF Typed, RequestsTyped, TablesTyped, Goto, Return, Hold, tables, past
  <1>0. row \in Row
      OBVIOUS
  <1>1. CASE CreateReads(q)
      <2>1. /\ \A p \in Requests : pc[p] = "idle"
            /\ UNCHANGED tables
          BY <1>1, BeginsAlone DEF CreateReads, Begin
      <2>2. ~Adrift /\ ~Adrift'
          BY <2>1, AdriftAlone DEF Finishing, Adrift
      <2>3. CASE Hold(q) /\ Goto(q, "update") /\ state = "there"
          <3>1. instance'[q] = row /\ pc'[q] = "update"
              BY <2>3
          <3>2. Tracks(q)'
              BY <1>0, <2>1, <2>2, <2>3, <3>1 DEF Tracks, Adrift
          <3> QED BY <2>1, <2>2, <2>3, <3>2, OneOrders DEF Orderly, NoneAbove
      <2>4. CASE Goto(q, "insert")
          <3>1. Tracks(q)'
              BY <2>4 DEF Tracks
          <3> QED BY <2>1, <2>2, <2>4, <3>1, OneOrders DEF Orderly, NoneAbove
      <2> QED BY <1>1, <2>3, <2>4 DEF CreateReads
  <1>2. CASE Insert(q)
      <2>1. /\ pc[q] = "insert" /\ \A p \in Requests \ {q} : pc[p] = "idle"
            /\ UNCHANGED <<runs, action>>
          BY <1>2, OthersIdle DEF Insert
      <2>2. ~Adrift
          BY <2>1, AdriftAlone DEF Finishing
      <2>3. PICK label \in {"idle", "read again"} : pc' = [pc EXCEPT ![q] = label]
          BY <1>2 DEF Insert
      <2>4. row'.generation = row.generation /\ ((row' = row /\ state' = state) \/ ~row'.active)
          BY <1>0, <1>2 DEF Insert, NewRow, Row
      <2>5. Tracks(q)'
          BY <2>3 DEF Tracks
      <2>6. ~Adrift'
          BY <2>1, <2>2, <2>4 DEF Adrift
      <2> QED BY <2>1, <2>3, <2>4, <2>5, <2>6, OneOrders DEF Orderly, NoneAbove
  <1>3. CASE CreateReadsAgain(q)
      <2>1. /\ pc[q] = "read again" /\ \A p \in Requests \ {q} : pc[p] = "idle"
            /\ UNCHANGED tables
          BY <1>3, OthersIdle DEF CreateReadsAgain
      <2>2. ~Adrift /\ ~Adrift'
          BY <2>1, AdriftAlone DEF Finishing, Adrift
      <2>3. CASE Hold(q) /\ Goto(q, "update") /\ state = "there"
          <3>1. instance'[q] = row /\ pc'[q] = "update"
              BY <2>3
          <3>2. Tracks(q)'
              BY <1>0, <2>1, <2>2, <2>3, <3>1 DEF Tracks, Adrift
          <3> QED BY <2>1, <2>2, <2>3, <3>2, OneOrders DEF Orderly, NoneAbove
      <2>4. CASE Return(q)
          <3>1. Tracks(q)'
              BY <2>4 DEF Tracks
          <3> QED BY <2>1, <2>2, <2>4, <3>1, OneOrders DEF Orderly, NoneAbove
      <2> QED BY <1>3, <2>3, <2>4 DEF CreateReadsAgain
  <1> QED BY <1>1, <1>2, <1>3

LEMMA ChecksOrderly ==
  ASSUME Typed, Quiet, Orderly, NEW q \in Requests, ~disturbed',
         StartReads(q) \/ StopReads(q) \/ Check(q) \/ CheckFails(q)
  PROVE  Orderly'
  <1> USE DEF Typed, RequestsTyped, TablesTyped, Goto, Return, Hold, tables, past
  <1>1. CASE StartReads(q) \/ StopReads(q)
      <2>1. /\ \A p \in Requests : pc[p] = "idle"
            /\ UNCHANGED tables /\ instance'[q] = row
          BY <1>1, BeginsAlone DEF StartReads, StopReads, Begin
      <2>2. ~Adrift /\ ~Adrift'
          BY <2>1, AdriftAlone DEF Finishing, Adrift
      <2>3. PICK label \in {"check", "abort"} : pc' = [pc EXCEPT ![q] = label]
          BY <1>1 DEF StartReads, StopReads
      <2>4. Tracks(q)'
          BY <2>1, <2>3 DEF Tracks
      <2> QED BY <2>1, <2>2, <2>3, <2>4, OneOrders DEF Orderly, NoneAbove
  <1>2. CASE Check(q) \/ CheckFails(q)
      <2>1. /\ pc[q] = "check" /\ UNCHANGED tables
            /\ \/ pc' = [pc EXCEPT ![q] = "idle"]
               \/ pc' = [pc EXCEPT ![q] = "pick"] /\ UNCHANGED instance
          BY <1>2 DEF Check, CheckFails, held
      <2>2. ~Adrift /\ ~Adrift' /\ \A p \in Requests \ {q} : pc[p] = "idle"
          BY <2>1, OthersIdle, AdriftAlone DEF Finishing, Adrift
      <2>3. Tracks(q)'
          BY <2>1 DEF Tracks, Orderly
      <2> QED BY <2>1, <2>2, <2>3, OneOrders DEF Orderly, NoneAbove
  <1> QED BY <1>1, <1>2

LEMMA StartOrderly ==
  ASSUME Typed, Quiet, Orderly, NEW q \in Requests, ~disturbed', ~stranded',
         NextRunName(q) \/ Reserve(q) \/ AppendRun(q) \/ CreateRun(q) \/ CreateRunFails(q)
  PROVE  Orderly'
  <1> USE DEF Typed, RequestsTyped, TablesTyped, Goto, Return, tables, past, held
  <1>0. /\ instance[q] \in Row /\ row \in Row /\ Tracks(q) /\ Names(q) /\ InStep(q)
        /\ NoneAbove
      BY DEF Orderly, Quiet
  <1>1. CASE NextRunName(q)
      <2>1. /\ pc[q] = "pick" /\ pc' = [pc EXCEPT ![q] = "reserve"] /\ UNCHANGED tables
            /\ \A p \in Requests \ {q} : pc[p] = "idle"
          BY <1>1, OthersIdle DEF NextRunName
      <2>2. ~Adrift /\ ~Adrift'
          BY <2>1, AdriftAlone DEF Finishing, Adrift
      <2>3. PICK g \in Generations :
              /\ g > instance[q].generation
              /\ instance' = [instance EXCEPT ![q] = [generation |-> g, latest |-> g, active |-> TRUE]]
          BY <1>1 DEF NextRunName
      <2>4. g > row.generation /\ instance'[q].latest = g /\ instance'[q].generation = g
          BY <1>0, <2>1, <2>3 DEF Tracks
      <2>5. runs[g] = "none" /\ g >= row.generation
          BY <1>0, <2>4 DEF NoneAbove, Generations, Row
      <2>6. Tracks(q)'
          BY <2>1, <2>4, <2>5 DEF Tracks
      <2> QED BY <1>0, <2>1, <2>2, <2>6, OneOrders DEF NoneAbove
  <1>2. CASE Reserve(q)
      <2>1. /\ pc[q] = "reserve" /\ state = "there"
            /\ pc' = [pc EXCEPT ![q] = "append"] /\ row' = instance[q]
            /\ UNCHANGED <<state, action, runs, instance>>
            /\ \A p \in Requests \ {q} : pc[p] = "idle"
          BY <1>0, <1>2, OthersIdle DEF Reserve, Update, InStep
      <2>2. instance[q].generation >= row.generation
          BY <1>0, <2>1 DEF Tracks
      <2>3. NoneAbove'
          BY <1>0, <2>1, <2>2 DEF NoneAbove, Row, Generations
      <2>4. Tracks(q)'
          BY <1>0, <2>1 DEF Tracks, Row
      <2>5. Finishing(q)'
          BY <2>1 DEF Finishing
      <2> QED BY <2>1, <2>3, <2>4, <2>5, OneOrders
  <1>3. CASE AppendRun(q)
      <2> DEFINE g == instance[q].latest
      <2>1. /\ pc[q] = "append" /\ runs[g] = "none" /\ g \in Generations
            /\ \A p \in Requests \ {q} : pc[p] = "idle"
            /\ g = instance[q].generation /\ instance[q].generation = row.generation
          BY <1>0, <1>3, OthersIdle DEF AppendRun, Tracks, Names
      <2>2. /\ runs' = [runs EXCEPT ![g] = "active"] /\ pc' = [pc EXCEPT ![q] = "create"]
            /\ UNCHANGED <<state, row, action, instance>> /\ run'[q] = g
          BY <1>3, <2>1 DEF AppendRun
      <2>3. NoneAbove'
          BY <1>0, <2>1, <2>2 DEF NoneAbove, Row, Generations
      <2>4. Tracks(q)'
          BY <2>1, <2>2 DEF Tracks
      <2>5. Finishing(q)'
          BY <2>2 DEF Finishing
      <2> QED BY <2>1, <2>2, <2>3, <2>4, <2>5, OneOrders
  <1>4. CASE CreateRun(q) \/ CreateRunFails(q)
      <2>1. /\ pc[q] = "create" /\ pc' = [pc EXCEPT ![q] = "update run"]
            /\ UNCHANGED <<state, row, runs, run>>
            /\ \A p \in Requests \ {q} : pc[p] = "idle"
          BY <1>4, OthersIdle DEF CreateRun, CreateRunFails
      <2>2. /\ instance'[q].latest = instance[q].latest
            /\ instance'[q].generation = instance[q].generation
            /\ instance[q].latest \in Generations /\ instance[q].latest = row.latest
          <3>1. instance[q].latest \in Generations /\ instance[q].latest = row.latest
              BY <1>0, <2>1 DEF Names, InStep
          <3>2. instance' = instance \/ instance' = [instance EXCEPT ![q].active = FALSE]
              BY <1>4 DEF CreateRun, CreateRunFails
          <3>3. /\ instance'[q].latest = instance[q].latest
                /\ instance'[q].generation = instance[q].generation
              BY <1>0, <3>2 DEF Row
          <3> QED BY <3>1, <3>3
      <2>3. \/ action'[row.latest] # "none"
            \/ ~instance'[q].active
          <3>1. CASE CreateRun(q)
              BY <2>2, <3>1 DEF CreateRun, CreateAction
          <3>2. CASE CreateRunFails(q)
              BY <1>0, <3>2 DEF CreateRunFails, Row
          <3> QED BY <1>4, <3>1, <3>2
      <2>4. Tracks(q)'
          BY <1>0, <2>1, <2>2, <2>3 DEF Tracks
      <2>5. Adrift' => Finishing(q)'
          BY <2>1, <2>3 DEF Adrift, Finishing
      <2>6. NoneAbove'
          BY <1>0, <2>1 DEF NoneAbove
      <2> QED BY <2>1, <2>4, <2>5, <2>6, OneOrders
  <1> QED BY <1>1, <1>2, <1>3, <1>4

LEMMA StopOrderly ==
  ASSUME Typed, Quiet, Orderly, NEW q \in Requests, ~disturbed', ~stranded',
         AbortRun(q) \/ GetLatestRun(q) \/ UpdateRun(q) \/ UpdateInstance(q)
  PROVE  Orderly'
  <1> USE DEF Typed, RequestsTyped, TablesTyped, Goto, Return, tables, past, held
  <1>0. /\ instance[q] \in Row /\ row \in Row /\ Tracks(q) /\ Names(q) /\ InStep(q)
        /\ NoneAbove
      BY DEF Orderly, Quiet
  <1>1. CASE AbortRun(q)
      <2> DEFINE g == instance[q].latest
      <2>1. /\ pc[q] = "abort" /\ UNCHANGED <<state, row, runs>> /\ g \in Generations
            /\ \A p \in Requests \ {q} : pc[p] = "idle"
          BY <1>0, <1>1, OthersIdle DEF AbortRun, Names
      <2>2. ~Adrift /\ NoneAbove'
          BY <1>0, <2>1, AdriftAlone DEF Finishing, NoneAbove
      <2>3. \A h \in Generations : action'[h] = "none" => action[h] = "none"
          BY <1>1, <2>1 DEF AbortRun
      <2>4. ~Adrift'
          BY <1>0, <2>1, <2>2, <2>3 DEF Adrift, Row, Generations
      <2>5. CASE Return(q)
          <3>1. Tracks(q)'
              BY <2>5 DEF Tracks
          <3> QED BY <2>1, <2>2, <2>4, <2>5, <3>1, OneOrders
      <2>6. CASE /\ pc' = [pc EXCEPT ![q] = "last run"]
                 /\ instance' = [instance EXCEPT ![q].active = FALSE]
          <3>1. instance'[q].generation = instance[q].generation /\ ~instance'[q].active
              BY <1>0, <2>6 DEF Row
          <3>2. Tracks(q)'
              BY <1>0, <2>1, <2>6, <3>1 DEF Tracks
          <3> QED BY <2>1, <2>2, <2>4, <2>6, <3>2, OneOrders
      <2> QED BY <1>1, <2>5, <2>6 DEF AbortRun
  <1>2. CASE GetLatestRun(q)
      <2>1. /\ pc[q] = "last run" /\ pc' = [pc EXCEPT ![q] = "update run"]
            /\ UNCHANGED <<state, row, runs, action, instance>> /\ runs[run'[q]] # "none"
            /\ \A p \in Requests \ {q} : pc[p] = "idle"
          BY <1>2, OthersIdle DEF GetLatestRun
      <2>2. ~Adrift /\ ~Adrift' /\ NoneAbove'
          BY <1>0, <2>1, AdriftAlone DEF Finishing, NoneAbove, Adrift
      <2>3. Tracks(q)'
          BY <1>0, <2>1 DEF Tracks
      <2> QED BY <2>1, <2>2, <2>3, OneOrders
  <1>3. CASE UpdateRun(q)
      <2>1. /\ pc[q] = "update run" /\ pc' = [pc EXCEPT ![q] = "update"]
            /\ UNCHANGED <<state, row, action, instance, run>>
            /\ \A p \in Requests \ {q} : pc[p] = "idle"
            /\ run[q] \in Generations /\ runs[run[q]] # "none"
          BY <1>0, <1>3, OthersIdle DEF UpdateRun, Tracks, Names
      <2>2. \A h \in Generations : runs'[h] # "none" => runs[h] # "none"
          BY <1>3, <2>1 DEF UpdateRun
      <2>3. NoneAbove'
          BY <1>0, <2>1, <2>2 DEF NoneAbove
      <2>4. Adrift' => Finishing(q)'
        <3> SUFFICES ASSUME Adrift' PROVE ~instance[q].active
            BY <2>1 DEF Finishing
        <3>1. Adrift
            BY <2>1 DEF Adrift
        <3>2. Finishing(q)
            BY <2>1, <3>1, AdriftAlone
        <3> QED BY <2>1, <3>2 DEF Finishing
      <2>5. Tracks(q)'
          BY <1>0, <2>1 DEF Tracks
      <2> QED BY <2>1, <2>3, <2>4, <2>5, OneOrders
  <1>4. CASE UpdateInstance(q)
      <2>1. /\ pc[q] = "update" /\ pc' = [pc EXCEPT ![q] = "idle"] /\ state = "there"
            /\ UNCHANGED <<state, runs, action>> /\ row' = instance[q]
            /\ \A p \in Requests \ {q} : pc[p] = "idle"
          BY <1>0, <1>4, OthersIdle DEF UpdateInstance, Update, InStep
      <2>2. instance[q].generation = row.generation
          BY <1>0, <2>1 DEF Tracks
      <2>3. NoneAbove'
          BY <1>0, <2>1, <2>2 DEF NoneAbove
      <2>4. ~Adrift'
          BY <1>0, <2>1 DEF Adrift, Tracks
      <2>5. Tracks(q)'
          BY <2>1 DEF Tracks
      <2> QED BY <2>1, <2>3, <2>4, <2>5, OneOrders
  <1> QED BY <1>1, <1>2, <1>3, <1>4

\* A request that is cut off leaves no row adrift, unless it strands it.
LEMMA FailsOrderly ==
  ASSUME Typed, Quiet, Orderly, NEW q \in Requests, ~disturbed', ~stranded',
         Fail(q) \/ BuildSpecFails(q)
  PROVE  Orderly'
  <1> USE DEF Typed, RequestsTyped, TablesTyped, Goto, Return, tables, past, held
  <1>0. Tracks(q) /\ NoneAbove
      BY DEF Orderly
  <1>1. /\ pc[q] # "idle" /\ UNCHANGED tables /\ \A p \in Requests \ {q} : pc[p] = "idle"
      BY OthersIdle DEF Fail, BuildSpecFails
  <1>2. NoneAbove'
      BY <1>0, <1>1 DEF NoneAbove
  <1>3. CASE Return(q) /\ stranded' = (stranded \/ Adrift)
      <2>1. ~Adrift'
          BY <1>1, <1>3 DEF Adrift
      <2>2. Tracks(q)'
          BY <1>3 DEF Tracks
      <2> QED BY <1>1, <1>2, <1>3, <2>1, <2>2, OneOrders
  <1>4. CASE /\ pc[q] \in {"last run", "update run"} /\ UNCHANGED held
             /\ pc' = [pc EXCEPT ![q] = "update"]
      <2>1. Adrift' => Finishing(q)'
        <3> SUFFICES ASSUME Adrift' PROVE ~instance[q].active
            BY <1>4 DEF Finishing
        <3>1. Adrift
            BY <1>1 DEF Adrift
        <3>2. Finishing(q)
            BY <1>1, <3>1, AdriftAlone
        <3> QED BY <1>4, <3>2 DEF Finishing
      <2>2. Tracks(q)'
          BY <1>0, <1>1, <1>4 DEF Tracks
      <2> QED BY <1>1, <1>2, <1>4, <2>1, <2>2, OneOrders
  <1> QED BY <1>3, <1>4 DEF Fail, BuildSpecFails

LEMMA DeleteOrderly ==
  ASSUME Typed, Orderly, NEW q \in Requests, ~disturbed', Delete(q)
  PROVE  Orderly'
  <1>1. /\ UNCHANGED <<row, runs, action, pc, held>> /\ state' = "deleted"
      BY DEF Delete
  <1>2. NoneAbove' /\ ~Adrift'
      BY <1>1 DEF Orderly, NoneAbove, Adrift
  <1>3. \A p \in Requests : Tracks(p)'
      BY <1>1 DEF Orderly, Tracks, held
  <1> QED BY <1>2, <1>3 DEF Orderly

LEMMA NextOrderly ==
  ASSUME Typed, ~disturbed => Quiet, ~disturbed /\ ~stranded => Orderly, [Next]_vars
  PROVE  (~disturbed /\ ~stranded => Orderly)'
  <1> SUFFICES ASSUME ~disturbed', ~stranded' PROVE Orderly'
      OBVIOUS
  <1>1. CASE UNCHANGED vars
      BY <1>1 DEF vars, Orderly, NoneAbove, Tracks, Finishing, Adrift
  <1>2. CASE Crash
      <2>1. ~disturbed /\ ~stranded /\ ~Adrift /\ UNCHANGED tables
          BY <1>2 DEF Crash
      <2>2. \A q \in Requests : Tracks(q)'
          BY <1>2 DEF Crash, Tracks
      <2> QED BY <2>1, <2>2 DEF Orderly, NoneAbove, Adrift, tables
  <1>3. CASE RunEnds
      <2>1. /\ ~disturbed /\ ~stranded /\ UNCHANGED <<state, row, runs, pc, held>>
            /\ \E g \in Generations : action[g] = "live" /\ action' = [action EXCEPT ![g] = "ended"]
          BY <1>3 DEF RunEnds, past
      <2>2. \A g \in Generations : action'[g] = "none" <=> action[g] = "none"
          BY <2>1 DEF Typed, TablesTyped
      <2>3. Adrift' => Adrift
          BY <2>1, <2>2 DEF Adrift, Typed, TablesTyped, Row, Generations
      <2>4. ASSUME NEW q \in Requests PROVE Tracks(q)'
        <3>1. instance[q].latest # 0 => instance[q].latest \in Generations
            BY DEF Typed, RequestsTyped, Row, Generations
        <3>2. Tracks(q)
            BY <2>1 DEF Orderly
        <3> QED BY <2>1, <2>2, <3>1, <3>2 DEF Tracks, held
      <2> QED BY <2>1, <2>3, <2>4 DEF Orderly, NoneAbove, Finishing, held
  <1>4. ASSUME NEW q \in Requests, Serve(q) PROVE Orderly'
      <2>1. ~disturbed
          BY <1>4 DEF Serve, CreateReads, Begin, Insert, CreateReadsAgain, StartReads, Check,
                      CheckFails, NextRunName, Reserve, AppendRun, CreateRun, CreateRunFails,
                      StopReads, AbortRun, GetLatestRun, Delete, UpdateRun, UpdateInstance,
                      Fail, BuildSpecFails, past
      <2>2. ~stranded
          BY <1>4 DEF Serve, CreateReads, Begin, Insert, CreateReadsAgain, StartReads, Check,
                      CheckFails, NextRunName, Reserve, AppendRun, CreateRun, CreateRunFails,
                      StopReads, AbortRun, GetLatestRun, Delete, UpdateRun, UpdateInstance,
                      Fail, BuildSpecFails, past
      <2> QED BY <1>4, <2>1, <2>2, CreateOrderly, ChecksOrderly, StartOrderly, StopOrderly,
                 FailsOrderly, DeleteOrderly DEF Serve
  <1> QED BY <1>1, <1>2, <1>3, <1>4 DEF Next

(***************************************************************************)
(* Requests that come one at a time, none of which is cut off between its  *)
(* reservation and its run, leave no instance active without a run, so     *)
(* that the next Start or Stop is not refused for one that is not there;   *)
(* for any number of generations, failures and crashes.                    *)
(***************************************************************************)
THEOREM ActiveInstanceHasRun == Spec => []ActiveHasRun
  <1> DEFINE Inv == Typed /\ (~disturbed => Quiet) /\ (~disturbed /\ ~stranded => Orderly)
  <1>1. Init => Inv
      <2> SUFFICES ASSUME Init PROVE Inv
          OBVIOUS
      <2>1. Typed /\ Quiet
          BY InitTyped DEF Init, Quiet, Alone, LiveIsLatest, InStep
      <2>2. Orderly
          BY DEF Init, Orderly, NoneAbove, Tracks, Adrift
      <2> QED BY <2>1, <2>2
  <1>2. Inv /\ [Next]_vars => Inv'
      BY NextTyped, NextQuiet, NextOrderly
  <1>3. Inv => ActiveHasRun
      BY DEF ActiveHasRun, Orderly, Finishing, Busy
  <1> QED BY <1>1, <1>2, <1>3, PTL DEF Spec
=============================================================================
