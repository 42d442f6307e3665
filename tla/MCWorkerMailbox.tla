-------------------------- MODULE MCWorkerMailbox --------------------------
(* Small instances of the worker mailbox for TLC. *)
EXTENDS WorkerMailbox, TLC

\* Producers differ only by name.
Symmetry == Permutations(Producers)
=============================================================================
