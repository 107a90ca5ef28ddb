------------------------------ MODULE VeilPool ------------------------------
(***************************************************************************)
(* The veil-pool program: the ring of recent Merkle roots, the note        *)
(* counter and the accounts of spent nullifiers.  A root stands for its 32 *)
(* bytes; what tree it commits to is the callers' business (see            *)
(* VeilPoolClients).                                                       *)
(***************************************************************************)
EXTENDS SolanaAccounts, Sequences

CONSTANTS
  Roots,          \* the roots clients compute
  Nullifiers,     \* 32-byte nullifiers
  ZeroBytes,      \* the all-zero 32 bytes, filler of the ring
  RootHistoryLen, \* ROOT_HISTORY_LEN
  TreeCapacity    \* 1 << TREE_DEPTH

ASSUME PoolConstants ==
  /\ RootHistoryLen \in Nat \ {0}
  /\ TreeCapacity \in Nat /\ TreeCapacity < MaxU64

VARIABLES
  pool,        \* the account at seed "pool"
  nullifiers,  \* the accounts at seeds "nullifier", n
  inserted,    \* history: every root the ring was given, in order
  spends       \* history: the spends that succeeded, in order

vars == <<pool, nullifiers, inserted, spends>>

Indices == 0 .. RootHistoryLen - 1

AnyRoot == Roots \cup {ZeroBytes}

Pool ==
  [exists: BOOLEAN, next_index: U64, root_index: Indices,
   roots: [Indices -> AnyRoot], note_count: U64]

SpendRecord == [nullifier: Nullifiers, root: AnyRoot]

-----------------------------------------------------------------------------
Init ==
  /\ pool = [exists |-> FALSE, next_index |-> 0, root_index |-> 0,
             roots |-> [i \in Indices |-> ZeroBytes], note_count |-> 0]
  /\ nullifiers = {}
  /\ inserted = <<>>
  /\ spends = <<>>

\* Mutation: `init_if_needed' on the pool account.
PoolMayExist == TRUE

\* The `init' constraint on the pool account.
PoolIsNew == ~pool.exists

initialize(empty_root) ==
  /\ PoolIsNew
  /\ pool' = [exists |-> TRUE, next_index |-> 0, root_index |-> 0,
              roots |-> [i \in Indices |-> IF i = 0 THEN empty_root ELSE ZeroBytes],
              note_count |-> 0]
  /\ inserted' = <<empty_root>>
  /\ UNCHANGED <<nullifiers, spends>>

\* Mutation: the index skips place 0 on wrapping.
NextRootIndexSkips(i) == IF i + 1 = RootHistoryLen THEN 1 % RootHistoryLen ELSE i + 1

NextRootIndex(i) == (i + 1) % RootHistoryLen

\* Mutation: off by one at the last leaf.
TreeHasRoomAndOne == pool.next_index <= TreeCapacity

TreeHasRoom == pool.next_index < TreeCapacity

\* Mutation: the root is written before the index moves.
InsertedAtOldPlace(new_root) ==
  [pool EXCEPT !.next_index = @ + 1,
               !.root_index = NextRootIndex(pool.root_index),
               !.roots[pool.root_index] = new_root,
               !.note_count = @ + 1]

\* The pool account after an insertion.
Inserted(new_root) ==
  LET ri == NextRootIndex(pool.root_index) IN
  [pool EXCEPT !.next_index = @ + 1,
               !.root_index = ri,
               !.roots[ri] = new_root,
               !.note_count = @ + 1]

insert_commitment(new_root) ==
  /\ pool.exists
  /\ TreeHasRoom                                         \* else TreeFull
  /\ pool' = Inserted(new_root)
  /\ inserted' = Append(inserted, new_root)
  /\ UNCHANGED <<nullifiers, spends>>

\* Mutations: the root a proof was authored against is not looked up, or is
\* looked up everywhere but at the current place.
AnyRootKnown(root) == TRUE
OldRootKnown(root) ==
  \E i \in Indices : i # pool.root_index /\ pool.roots[i] = root

\* p.roots.iter().any(|r| r == &merkle_root)
KnownRoot(root) == \E i \in Indices : pool.roots[i] = root

\* Mutation: `init_if_needed' on the nullifier account.
NullifierMayExist(n) == TRUE

\* The `init' constraint on the nullifier account.
NullifierIsNew(n) == n \notin nullifiers

spend_nullifier(n, merkle_root) ==
  /\ pool.exists
  /\ NullifierIsNew(n)
  /\ KnownRoot(merkle_root)                              \* else UnknownRoot
  /\ nullifiers' = nullifiers \cup {n}
  /\ spends' = Append(spends, [nullifier |-> n, root |-> merkle_root])
  /\ UNCHANGED <<pool, inserted>>

Next ==
  \/ \E root \in Roots : initialize(root) \/ insert_commitment(root)
  \/ \E n \in Nullifiers, root \in AnyRoot : spend_nullifier(n, root)

Spec == Init /\ [][Next]_vars

-----------------------------------------------------------------------------
TypeOK ==
  /\ pool \in Pool
  /\ nullifiers \subseteq Nullifiers
  /\ inserted \in Seq(Roots)
  /\ spends \in Seq(SpendRecord)

\* The place of the ring that lies j places behind the current one.
Behind(j) ==
  IF j <= pool.root_index THEN pool.root_index - j
  ELSE pool.root_index + RootHistoryLen - j

\* The ring is the window on the last RootHistoryLen roots, newest at
\* root_index, with zeroes only where fewer have been inserted; so a proof
\* against a root stays good until RootHistoryLen later insertions, no fewer.
RingIsWindow ==
  \A j \in Indices :
    pool.roots[Behind(j)] =
      IF j < Len(inserted) THEN inserted[Len(inserted) - j] ELSE ZeroBytes

\* Both counters count the insertions, and the tree never overflows.
CountersAgree ==
  /\ pool.next_index = pool.note_count
  /\ pool.next_index <= TreeCapacity
  /\ Len(inserted) = IF pool.exists THEN pool.next_index + 1 ELSE 0

\* No two successful spends carry the same nullifier.
NoDoubleSpend ==
  /\ \A i, j \in 1 .. Len(spends) : spends[i].nullifier = spends[j].nullifier => i = j
  /\ nullifiers = {spends[i].nullifier : i \in 1 .. Len(spends)}

\* The program implements the abstract pool.
Abstract == INSTANCE NotePool WITH
  log <- inserted, Filler <- ZeroBytes,
  Window <- RootHistoryLen, Capacity <- TreeCapacity

ImplementsNotePool == Abstract!Spec

=============================================================================
