---------------------------- MODULE MCAsyncPipeline ----------------------------
(* The pipeline on small instances: one to three messages that the .cfg files *)
(* name by model values, and one or two threads that run confirm callbacks.   *)
EXTENDS AsyncPipeline, TLC

\* Confirm threads are interchangeable; used where only invariants are checked.
Symmetry == Permutations(Confirmers)

================================================================================
