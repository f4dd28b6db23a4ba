---------------------------- MODULE MCReconcile ----------------------------
(* Reconcile on a handful of objects. *)
EXTENDS Reconcile
=============================================================================
