---------------------------- MODULE MCInstances ----------------------------
EXTENDS DevelopmentInstance

(***************************************************************************)
(* What does not hold.  An instance always has at most one live run: two   *)
(* starts that overlap, a check of the live run that fails after its       *)
(* CreateRun has, and the revival of an instance deleted with its run      *)
(* alive each start a second one.                                          *)
(***************************************************************************)
NeverTwoLiveRuns ==
    \A g, h \in Generations : action[g] = "live" /\ action[h] = "live" => g = h

(***************************************************************************)
(* Between requests, an active instance has a run: a crash, a failing      *)
(* AppendRun or a specification that cannot be built ends a start after    *)
(* its reservation, and from then on Start answers that a run is active    *)
(* and Stop that there is none.                                            *)
(***************************************************************************)
NeverStuck == ~Busy => ~Adrift
=============================================================================
