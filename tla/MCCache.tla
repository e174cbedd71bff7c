------------------------------- MODULE MCCache -------------------------------
(* Small instances of SerializedCache.                                     *)
EXTENDS SerializedCache, TLC

(* The actions are alike.                                                  *)
Symmetry == Permutations(Actions)

-----------------------------------------------------------------------------
(* What one would expect of the code and it does not do.  The README names *)
(* the constants under which TLC finds each of these violated.             *)

(* No pod is launched for a result the cache holds.                        *)
CachedIsNotRun ==
    [][\A a \in Actions : pod[a] = "none" /\ pod'[a] = "pending" => ~Usable]_vars

(* A failure to store a result is reported only if something failed.       *)
FailureHasCause ==
    upsets = MaxUpsets => \A a \in Actions : status[a].report # "put_failure"

(* A result is refused only in favour of one that can be used (the age     *)
(* limit of the client against the check of Put).                          *)
RefusedForUsable ==
    [][\A a \in Actions :
         pc[a] = "putGet" /\ upsets' = upsets /\ out'[a].report = "put_failure"
            => Usable]_vars
=============================================================================
