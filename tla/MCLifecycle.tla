----------------------------- MODULE MCLifecycle -----------------------------
(* Small instances of Lifecycle for TLC. *)
EXTENDS LifecycleInv, TLC

\* Callers are interchangeable (used only where no liveness is checked).
CallerSymmetry == Permutations(Callers)
=============================================================================
