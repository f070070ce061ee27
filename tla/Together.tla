-------------------------------- MODULE Together --------------------------------
(***************************************************************************)
(* Components that share no state, model-checked side by side: a behaviour *)
(* is a behaviour of one of them, while the others rest in one state each. *)
(***************************************************************************)
CONSTANT Parts  \* the components of a run
VARIABLE part   \* the component that runs

Runs(p) == part = p
\* Nothing changes which component runs.
Stays(p) == []<>Runs(p)
=============================================================================
