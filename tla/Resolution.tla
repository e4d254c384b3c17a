----------------------------- MODULE Resolution -----------------------------
(***************************************************************************)
(* What a caller of resolveModuleOnly() (ptx_resolved_ir_resolution.hpp of  *)
(* submod/resolved_ir) sees: the diagnostics it is given, which grow while  *)
(* the resolution runs, and one outcome.  A module is returned only if      *)
(* nothing was said, and no module is refused in silence.  One refusal is   *)
(* by itself: a function that lacks a validation context ends the           *)
(* resolution, and what was said of the functions before it is not told.    *)
(* A caller may call again.                                                 *)
(***************************************************************************)
EXTENDS SequencesExt

VARIABLES said, outcome

Init == said = <<>> /\ outcome = "Running"

Say == outcome = "Running" /\ outcome' = "Running" /\ IsStrictPrefix(said, said')
Reject == outcome = "Running" /\ outcome' = "Rejected" /\ IsPrefix(said, said') /\ said' # <<>>
LacksContext ==
  outcome = "Running" /\ outcome' = "Rejected" /\ said' = <<"MissingValidationContext">>
Accept == outcome = "Running" /\ outcome' = "Module" /\ said = <<>> /\ said' = <<>>
Throw == outcome = "Running" /\ outcome' = "Exception" /\ said' = said

CallAgain == outcome # "Running" /\ outcome' = "Running" /\ said' = <<>>

Next == Say \/ Reject \/ LacksContext \/ Accept \/ Throw \/ CallAgain

Spec == Init /\ [][Next]_<<said, outcome>>
=============================================================================
