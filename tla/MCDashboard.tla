----------------------------- MODULE MCDashboard -----------------------------
(* A small instance of Dashboard for TLC: a short and a long key; the manifest
   publishes the short one for auth, no hash for completion, and for poolNote
   neither hash nor number. *)
EXTENDS Dashboard, TLC

CONSTANTS short, long

MCVkLen == (short :> 1) @@ (long :> 2)
MCPublished == [c \in Listed |-> IF c = "auth" THEN short ELSE NoHash]
=============================================================================
