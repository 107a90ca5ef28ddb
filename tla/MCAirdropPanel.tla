--------------------------- MODULE MCAirdropPanel ---------------------------
(* A small instance of AirdropPanel for TLC. *)
EXTENDS AirdropPanel, TLC
=============================================================================
