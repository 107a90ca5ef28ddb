--------------------------- MODULE MCVeilVerifier ---------------------------
(* A small instance of VeilVerifier for TLC: an empty key file, one cut off in
   the header, two with one and two inputs, and one too large. *)
EXTENDS VeilVerifier, TLC

CONSTANTS empty, cut, short, long, huge

MCVkLen == (empty :> 0) @@ (cut :> 7) @@ (short :> 9) @@ (long :> 10) @@ (huge :> 11)
=============================================================================
