--------------------------- MODULE VeilPoolClients ---------------------------
(***************************************************************************)
(* The pool as its callers use it.  insert_commitment takes the new Merkle *)
(* root from its caller, who computes it from the tree it last read, and   *)
(* spend_nullifier takes the root the caller's proof was made against.     *)
(* Between the read and the instruction other callers' instructions land.  *)
(*                                                                         *)
(* A root is collision free, so it is modelled by the sequence of note     *)
(* commitments in its tree.  A note has a set of nullifiers: the circuit   *)
(* hashes one from a secret and an index that it does not compare with the *)
(* leaf, so a note whose holder varies them has more than one.             *)
(*                                                                         *)
(* The callers are not in the repository; they do what the comments and    *)
(* parameters of the two instructions ask.  Their steps on chain are steps *)
(* of VeilPool.                                                            *)
(***************************************************************************)
EXTENDS VeilPool, SequencesExt

CONSTANTS
  Notes,           \* note commitments
  NullifiersOf,    \* NullifiersOf[n]: the nullifiers n can be proved with
  Depositors,      \* callers of insert_commitment
  Spenders,        \* callers of spend_nullifier
  None             \* no tree read, no proof made

VARIABLES
  view,       \* view[d]: the tree depositor d last read, or None
  proof,      \* proof[s]: the nullifier and root of the proof spender s holds, or None
  deposited   \* the notes whose insertion succeeded

Trees == SeqOf(Notes, TreeCapacity)

\* No tree hashes to the filler of the ring.
ASSUME ClientsConstants ==
  /\ Roots = Trees /\ NullifiersOf \in [Notes -> SUBSET Nullifiers \ {{}}]
  /\ None \notin Trees /\ ZeroBytes \notin Trees

allVars == <<vars, view, proof, deposited>>

LatestRoot == pool.roots[pool.root_index]

-----------------------------------------------------------------------------
ClientsInit ==
  /\ Init
  /\ view = [d \in Depositors |-> None]
  /\ proof = [s \in Spenders |-> None]
  /\ deposited = {}

\* The deployer passes the root of the empty tree.
Deploy ==
  /\ initialize(<<>>)
  /\ UNCHANGED <<view, proof, deposited>>

\* A depositor reads the tree.
ReadTree(d) ==
  /\ pool.exists /\ view[d] = None
  /\ view' = [view EXCEPT ![d] = LatestRoot]
  /\ UNCHANGED <<vars, proof, deposited>>

\* It inserts a fresh note with the root of the tree it read plus that note.
Deposit(d, n) ==
  /\ view[d] # None /\ n \notin deposited
  /\ insert_commitment(Append(view[d], n))
  /\ view' = [view EXCEPT ![d] = None]
  /\ deposited' = deposited \cup {n}
  /\ UNCHANGED proof

\* None of the note's nullifiers is burned.
Unspent(n) == NullifiersOf[n] \cap nullifiers = {}

\* A spender proves its unspent note a member of the latest tree.
Prove(s, n) ==
  /\ pool.exists /\ proof[s] = None
  /\ n \in Range(LatestRoot) /\ Unspent(n)
  /\ \E h \in NullifiersOf[n] :
       proof' = [proof EXCEPT ![s] = [nullifier |-> h, root |-> LatestRoot]]
  /\ UNCHANGED <<vars, view, deposited>>

Spend(s) ==
  /\ proof[s] # None
  /\ spend_nullifier(proof[s].nullifier, proof[s].root)
  /\ proof' = [proof EXCEPT ![s] = None]
  /\ UNCHANGED <<view, deposited>>

\* UnknownRoot, or the nullifier account exists: the spender drops the proof.
SpendFails(s) ==
  /\ proof[s] # None
  /\ \/ ~KnownRoot(proof[s].root)
     \/ ~NullifierIsNew(proof[s].nullifier)
  /\ proof' = [proof EXCEPT ![s] = None]
  /\ UNCHANGED <<vars, view, deposited>>

ClientsNext ==
  \/ Deploy
  \/ \E d \in Depositors : ReadTree(d) \/ \E n \in Notes : Deposit(d, n)
  \/ \E s \in Spenders : Spend(s) \/ SpendFails(s) \/ \E n \in Notes : Prove(s, n)

\* A spender keeps trying: it submits the proof it holds and, once that is
\* gone, proves whichever of its notes is still unspent.  Depositors owe
\* nothing to anyone.
Fairness ==
  \A s \in Spenders :
    /\ WF_allVars(Spend(s) \/ SpendFails(s))
    /\ WF_allVars(\E n \in Notes : Prove(s, n))

ClientsSpec == ClientsInit /\ [][ClientsNext]_allVars /\ Fairness

-----------------------------------------------------------------------------
\* The latest root commits to every note ever deposited (lib.rs:3: the pool
\* holds the global Merkle root of unspent note commitments).  It holds when
\* one depositor computes roots at a time.
LatestRootHoldsAllNotes ==
  pool.exists => LatestRoot # ZeroBytes /\ Range(LatestRoot) = deposited

\* A note that was deposited is spent in the end: proofs that lose the race
\* against the eviction of their root are made again.
DepositedNotesGetSpent ==
  \A n \in Notes : n \in deposited ~> ~Unspent(n)

=============================================================================
