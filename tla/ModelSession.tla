----------------------------- MODULE ModelSession -----------------------------
(***************************************************************************)
(* What the API server promises about its one model: at most one request   *)
(* generates at a time, it generates with the model that was installed     *)
(* when it began, and nobody replaces or removes that model under it.      *)
(***************************************************************************)
CONSTANTS Models,       \* the models that may be installed
          Users,        \* the requests that may generate
          None          \* no model, no user

VARIABLES model,        \* the installed model
          user          \* the request that generates

vars == <<model, user>>

Init == model = None /\ user = None

Install(m) == /\ user = None
              /\ model' = m
              /\ UNCHANGED user

Remove == /\ user = None
          /\ model' = None
          /\ UNCHANGED user

Acquire(u) == /\ user = None /\ model # None
              /\ user' = u
              /\ UNCHANGED model

Release == /\ user # None
           /\ user' = None
           /\ UNCHANGED model

Next == \/ \E m \in Models : Install(m)
        \/ \E u \in Users : Acquire(u)
        \/ Remove \/ Release

Spec == Init /\ [][Next]_vars
=============================================================================
