---------------------------- MODULE MCLockOrder -----------------------------
(* Small instances of the lock order. *)
EXTENDS LockOrder, TLC

MCSymmetry == Permutations(Sessions)

=============================================================================
