----------------------------- MODULE MCDatabase -----------------------------
(***************************************************************************)
(* db.ohn: threads over the buffer pool, and one thread that fills a       *)
(* slotted page it was given (a page is written under its frame's lock, so *)
(* the two can be looked at apart).                                        *)
(***************************************************************************)
EXTENDS BufferPool, SlottedPage, TLC

VARIABLE subject

Symmetry == Permutations(Threads)

DbInit == subject \in {"pool", "page"} /\ PoolInit /\ PageInit

DbNext ==
    \/ subject = "pool" /\ PoolNext /\ UNCHANGED <<subject, pageVars>>
    \/ subject = "page" /\ PageNext /\ UNCHANGED <<subject, poolVars>>

DbSpec == DbInit /\ [][DbNext]_<<subject, poolVars, pageVars>>

=============================================================================
