--------------------------- MODULE SolanaAccounts ---------------------------
(***************************************************************************)
(* What the VeilRail programs take from the Solana runtime and from        *)
(* Anchor, as far as the code under packages/programs uses it: program     *)
(* derived accounts that an `init' constraint creates once, the slot that  *)
(* Clock::get() returns, and Rust's u64 arithmetic.                        *)
(*                                                                         *)
(* A family of accounts under one seed prefix is a function whose domain   *)
(* is the set of addresses in use.  An instruction is atomic: every guard  *)
(* of the handler and of its account constraints is a conjunct of the      *)
(* action, and a failed instruction is no step at all.                     *)
(***************************************************************************)
EXTENDS Naturals

CONSTANT MaxU64     \* the largest u64; small in the TLC instances

ASSUME MaxU64Assumption == MaxU64 \in Nat \ {0}

U64 == 0 .. MaxU64

\* m holds one record of R at each address in use, and only at addresses of K.
IsAccountMap(m, K, R) ==
  /\ DOMAIN m \subseteq K
  /\ m \in [DOMAIN m -> R]

\* No account exists yet.
NoAccounts == [k \in {} |-> k]

\* The account at address k after it is created (or rewritten) with content v.
Put(m, k, v) == [x \in DOMAIN m \cup {k} |-> IF x = k THEN v ELSE m[x]]

\* u64::saturating_sub.
SaturatingSub(a, b) == IF a >= b THEN a - b ELSE 0

=============================================================================
