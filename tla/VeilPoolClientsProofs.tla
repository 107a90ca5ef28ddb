----------------------- MODULE VeilPoolClientsProofs ------------------------
(***************************************************************************)
(* Theorems of the pool program, for a ring of any length and a tree of any *)
(* size; and of its callers: whatever they do off chain, they take steps of *)
(* the program, and a pool with one depositor never loses a note from its  *)
(* latest root, whatever the spenders do.                                  *)
(***************************************************************************)
EXTENDS VeilPoolClients, TLAPS

-----------------------------------------------------------------------------
(* The pool program. *)

IInv ==
  /\ TypeOK
  /\ RingIsWindow
  /\ CountersAgree
  /\ NoDoubleSpend
  \* before initialize the account is zeroed, as the ring expects
  /\ ~pool.exists => pool.next_index = 0 /\ pool.root_index = 0

-----------------------------------------------------------------------------
(* The ring's index arithmetic. *)

\* The remainder in NextRootIndex wraps the index after the last place.
LEMMA NextIndexWraps ==
  ASSUME NEW i \in Indices
  PROVE  NextRootIndex(i) = IF i = RootHistoryLen - 1 THEN 0 ELSE i + 1
<1>1. RootHistoryLen \in Nat /\ RootHistoryLen > 0 /\ i \in Nat /\ i < RootHistoryLen
  BY PoolConstants DEF Indices
<1>2. CASE i = RootHistoryLen - 1
  BY <1>1, <1>2 DEF NextRootIndex
<1>3. CASE i # RootHistoryLen - 1
  BY <1>1, <1>3 DEF NextRootIndex
<1> QED BY <1>2, <1>3

\* Indices j places behind cover the ring without repetition.
LEMMA BehindIsIndex ==
  ASSUME pool.root_index \in Indices, NEW j \in Indices
  PROVE  /\ Behind(j) \in Indices
         /\ \A k \in Indices : Behind(j) = Behind(k) => j = k
  BY PoolConstants DEF Indices, Behind

\* Every place of the ring is some number of places behind the current one.
LEMMA BehindCovers ==
  ASSUME pool.root_index \in Indices, NEW i \in Indices
  PROVE  \E j \in Indices : Behind(j) = i
<1> DEFINE j == IF i <= pool.root_index THEN pool.root_index - i
                ELSE pool.root_index + RootHistoryLen - i
<1>1. j \in Indices /\ Behind(j) = i
  BY PoolConstants DEF Indices, Behind
<1> QED BY <1>1

-----------------------------------------------------------------------------
LEMMA InitIInv == Init => IInv
<1> SUFFICES ASSUME Init PROVE IInv
  OBVIOUS
<1>1. 0 \in Indices /\ 0 \in U64
  BY PoolConstants, MaxU64Assumption DEF Indices, U64
<1>2. TypeOK
  BY <1>1 DEF Init, TypeOK, Pool, AnyRoot
<1>3. RingIsWindow
  BY <1>1, PoolConstants DEF Init, RingIsWindow, Behind, Indices
<1> QED BY <1>2, <1>3, PoolConstants DEF Init, IInv, CountersAgree, NoDoubleSpend

LEMMA InitializeIInv ==
  ASSUME IInv, NEW root \in Roots, initialize(root)
  PROVE  IInv'
<1>1. 0 \in Indices /\ 0 \in U64
  BY PoolConstants, MaxU64Assumption DEF Indices, U64
<1>2. TypeOK'
  BY <1>1 DEF initialize, IInv, TypeOK, Pool, AnyRoot
<1>3. RingIsWindow'
  <2>1. /\ pool'.root_index = 0
        /\ pool'.roots = [i \in Indices |-> IF i = 0 THEN root ELSE ZeroBytes]
        /\ inserted' = <<root>>
    BY DEF initialize
  <2>2. ASSUME NEW j \in Indices
        PROVE  pool'.roots[Behind(j)'] =
                 IF j < Len(inserted') THEN inserted'[Len(inserted') - j] ELSE ZeroBytes
    <3>1. Behind(j)' = IF j = 0 THEN 0 ELSE RootHistoryLen - j
      BY <2>1, PoolConstants DEF Behind, Indices
    <3> QED BY <2>1, <3>1, PoolConstants DEF Indices
  <2> QED BY <2>2 DEF RingIsWindow
<1>4. CountersAgree' /\ NoDoubleSpend'
  BY PoolConstants DEF initialize, IInv, CountersAgree, NoDoubleSpend
<1> QED BY <1>2, <1>3, <1>4 DEF initialize, IInv

LEMMA InsertIInv ==
  ASSUME IInv, NEW root \in Roots, insert_commitment(root)
  PROVE  IInv'
<1> DEFINE ri == NextRootIndex(pool.root_index)
           n == Len(inserted)
<1>1. /\ pool \in Pool /\ pool.root_index \in Indices
      /\ pool.next_index \in Nat /\ pool.note_count \in Nat
      /\ inserted \in Seq(Roots) /\ n \in Nat
      /\ pool.roots \in [Indices -> AnyRoot]
  BY DEF IInv, TypeOK, Pool, U64
<1>2. ri = IF pool.root_index = RootHistoryLen - 1 THEN 0 ELSE pool.root_index + 1
  BY <1>1, NextIndexWraps
<1>3. ri \in Indices
  BY <1>1, <1>2, PoolConstants DEF Indices
<1> HIDE DEF ri
<1>4. /\ pool.exists
      /\ pool' = [pool EXCEPT !.next_index = @ + 1, !.root_index = ri,
                              !.roots[ri] = root, !.note_count = @ + 1]
      /\ inserted' = Append(inserted, root)
      /\ nullifiers' = nullifiers /\ spends' = spends
  BY DEF insert_commitment, Inserted, ri
<1>5. /\ pool'.exists /\ pool'.root_index = ri
      /\ pool'.next_index = pool.next_index + 1
      /\ pool'.note_count = pool.note_count + 1
      /\ pool'.roots = [pool.roots EXCEPT ![ri] = root]
  BY <1>1, <1>4 DEF Pool
<1>6. /\ pool.next_index + 1 <= TreeCapacity
      /\ pool.note_count = pool.next_index
      /\ n = pool.next_index + 1
  BY <1>1, PoolConstants DEF insert_commitment, TreeHasRoom, IInv, CountersAgree
<1>7. /\ Len(inserted') = n + 1
      /\ inserted'[n + 1] = root
      /\ \A k \in 1 .. n : inserted'[k] = inserted[k]
      /\ inserted' \in Seq(Roots)
  BY <1>1, <1>4
<1>8. TypeOK'
  <2>1. pool'.next_index \in U64 /\ pool'.note_count \in U64
    BY <1>1, <1>5, <1>6, PoolConstants, MaxU64Assumption DEF U64
  <2>2. pool'.roots \in [Indices -> AnyRoot]
    BY <1>1, <1>3, <1>5 DEF AnyRoot
  <2>3. pool' \in Pool
    BY <1>1, <1>3, <1>4, <1>5, <2>1, <2>2 DEF Pool
  <2> QED BY <1>4, <1>7, <2>3 DEF IInv, TypeOK
<1>9. RingIsWindow'
  <2> DEFINE place(j) == IF j <= ri THEN ri - j ELSE ri + RootHistoryLen - j
             value(j) == IF j < n + 1 THEN inserted'[n + 1 - j] ELSE ZeroBytes
  <2>1. ASSUME NEW j \in Indices PROVE pool'.roots[place(j)] = value(j)
    <3>1. CASE j = 0
      <4>1. place(j) = ri
        BY <1>3, <3>1 DEF Indices
      <4>2. pool'.roots[ri] = root
        BY <1>1, <1>3, <1>5
      <4>3. value(j) = inserted'[n + 1]
        BY <1>1, <3>1
      <4> QED BY <1>7, <4>1, <4>2, <4>3
    <3>2. CASE j # 0
      \* One place behind the new index lies where j - 1 was behind the old.
      <4>1. /\ pool.root_index \in Nat /\ pool.root_index < RootHistoryLen
            /\ j \in Nat /\ j > 0 /\ j < RootHistoryLen /\ RootHistoryLen \in Nat
        BY <1>1, <3>2, PoolConstants DEF Indices
      <4>2. j - 1 \in Indices
        BY <4>1 DEF Indices
      <4>3. /\ place(j) = Behind(j - 1)
            /\ Behind(j - 1) # ri
            /\ Behind(j - 1) \in Indices
        BY <1>2, <4>1 DEF Behind, Indices
      <4>4. pool'.roots[place(j)] = pool.roots[Behind(j - 1)]
        BY <1>1, <1>5, <4>3
      <4>5. pool.roots[Behind(j - 1)] =
              IF j - 1 < n THEN inserted[n - (j - 1)] ELSE ZeroBytes
        BY <4>2 DEF IInv, RingIsWindow
      <4>6. CASE j < n + 1
        <5>1. n + 1 - j \in 1 .. n /\ n - (j - 1) = n + 1 - j /\ j - 1 < n
          BY <1>1, <4>1, <4>6
        <5>2. inserted'[n + 1 - j] = inserted[n + 1 - j]
          BY <1>7, <5>1
        <5>3. value(j) = inserted'[n + 1 - j]
          BY <4>6
        <5>4. pool.roots[Behind(j - 1)] = inserted[n + 1 - j]
          BY <4>5, <5>1
        <5> QED BY <4>4, <5>2, <5>3, <5>4
      <4>7. CASE ~(j < n + 1)
        <5>1. ~(j - 1 < n)
          BY <1>1, <4>1, <4>7
        <5>2. value(j) = ZeroBytes
          BY <4>7
        <5>3. pool.roots[Behind(j - 1)] = ZeroBytes
          BY <4>5, <5>1
        <5> QED BY <4>4, <5>2, <5>3
      <4> QED BY <4>6, <4>7
    <3> QED BY <3>1, <3>2
  <2>2. Len(inserted') = n + 1 /\ pool'.root_index = ri
    BY <1>5, <1>7
  <2> QED BY <1>1, <2>1, <2>2, PoolConstants DEF RingIsWindow, Behind, Indices
<1>10. CountersAgree'
  BY <1>1, <1>5, <1>6, <1>7, PoolConstants DEF CountersAgree
<1>11. NoDoubleSpend'
  BY <1>4 DEF IInv, NoDoubleSpend
<1> QED BY <1>5, <1>8, <1>9, <1>10, <1>11 DEF IInv

LEMMA SpendIInv ==
  ASSUME IInv, NEW n \in Nullifiers, NEW root \in AnyRoot, spend_nullifier(n, root)
  PROVE  IInv'
<1>1. /\ pool' = pool /\ inserted' = inserted
      /\ spends' = Append(spends, [nullifier |-> n, root |-> root]) /\ nullifiers' = nullifiers \cup {n}
      /\ n \notin nullifiers
  BY DEF spend_nullifier, NullifierIsNew
<1>2. TypeOK' /\ RingIsWindow' /\ CountersAgree'
  BY <1>1 DEF IInv, TypeOK, SpendRecord, RingIsWindow, Behind, CountersAgree
<1>3. spends \in Seq(SpendRecord) /\ Len(spends) \in Nat
  BY DEF IInv, TypeOK
<1>4. /\ Len(spends') = Len(spends) + 1
      /\ spends'[Len(spends) + 1].nullifier = n
      /\ \A i \in 1 .. Len(spends) : spends'[i] = spends[i]
  BY <1>1, <1>3
<1>5. \A i \in 1 .. Len(spends) : spends[i].nullifier # n
  BY <1>1 DEF IInv, NoDoubleSpend
<1>6. 1 .. Len(spends') = (1 .. Len(spends)) \cup {Len(spends) + 1}
  BY <1>3, <1>4
<1>7. NoDoubleSpend'
  <2>1. \A i, j \in 1 .. Len(spends') : spends'[i].nullifier = spends'[j].nullifier => i = j
    BY <1>4, <1>5, <1>6 DEF IInv, NoDoubleSpend
  <2>2. nullifiers' = {spends'[i].nullifier : i \in 1 .. Len(spends')}
    BY <1>1, <1>4, <1>6 DEF IInv, NoDoubleSpend
  <2> QED BY <2>1, <2>2 DEF NoDoubleSpend
<1> QED BY <1>1, <1>2, <1>7 DEF IInv

LEMMA NextIInv == IInv /\ [Next]_vars => IInv'
<1> SUFFICES ASSUME IInv, [Next]_vars PROVE IInv'
  OBVIOUS
<1>1. CASE UNCHANGED vars
  BY <1>1 DEF IInv, TypeOK, RingIsWindow, Behind, CountersAgree, NoDoubleSpend, vars
<1> QED BY <1>1, InitializeIInv, InsertIInv, SpendIInv DEF Next

\* The ring is the window on the last roots, the counters agree and stay
\* within the tree, and no nullifier is spent twice, whatever the ring's
\* length, the tree's depth and the order of the instructions.
THEOREM PoolInvariant ==
  Spec => [](TypeOK /\ RingIsWindow /\ CountersAgree /\ NoDoubleSpend)
<1>1. IInv => TypeOK /\ RingIsWindow /\ CountersAgree /\ NoDoubleSpend
  BY DEF IInv
<1> QED BY <1>1, InitIInv, NextIInv, PTL DEF Spec

-----------------------------------------------------------------------------
\* What the program finds in the ring is what the abstract window accepts.
LEMMA KnownIsAccepted ==
  ASSUME IInv, NEW root, KnownRoot(root)
  PROVE  Abstract!Accepted(root)
<1>1. PICK i \in Indices : pool.roots[i] = root
  BY DEF KnownRoot
<1>2. pool.root_index \in Indices
  BY DEF IInv, TypeOK, Pool
<1>3. PICK j \in Indices : Behind(j) = i
  BY <1>2, BehindCovers
<1>4. Abstract!Recent(j) = root
  BY <1>1, <1>3 DEF IInv, RingIsWindow, Abstract!Recent
<1> QED BY <1>4 DEF Abstract!Accepted, Indices

\* The program implements the abstract pool, step by step.
THEOREM PoolImplementsNotePool == Spec => ImplementsNotePool
<1>1. Init => Abstract!Init
  BY DEF Init, Abstract!Init
<1>2. ASSUME IInv, NEW root \in Roots, initialize(root) PROVE Abstract!Create(root)
  <2>1. inserted = <<>>
    BY <1>2 DEF initialize, PoolIsNew, IInv, CountersAgree, TypeOK
  <2> QED BY <1>2, <2>1 DEF initialize, Abstract!Create
<1>3. ASSUME IInv, NEW root \in Roots, insert_commitment(root) PROVE Abstract!Insert(root)
  <2>1. Len(inserted) = pool.next_index + 1 /\ pool.next_index \in Nat
    BY <1>3 DEF insert_commitment, IInv, CountersAgree, TypeOK, Pool, U64
  <2>2. inserted # <<>> /\ Len(inserted) <= TreeCapacity
    BY <1>3, <2>1, PoolConstants DEF insert_commitment, TreeHasRoom
  <2> QED BY <1>3, <2>2 DEF insert_commitment, Abstract!Insert
<1>4. ASSUME IInv, NEW n \in Nullifiers, NEW root \in AnyRoot, spend_nullifier(n, root)
      PROVE  Abstract!Spend(n, root)
  <2>1. inserted # <<>>
    BY <1>4 DEF spend_nullifier, IInv, CountersAgree, TypeOK, Pool, U64
  <2>2. Abstract!Accepted(root)
    BY <1>4, KnownIsAccepted DEF spend_nullifier
  <2>3. \A i \in 1 .. Len(spends) : spends[i].nullifier # n
    BY <1>4 DEF spend_nullifier, NullifierIsNew, IInv, NoDoubleSpend
  <2> QED BY <1>4, <2>1, <2>2, <2>3 DEF spend_nullifier, Abstract!Spend
<1>5. IInv /\ [Next]_vars => [Abstract!Next]_(Abstract!vars)
  <2>1. ASSUME UNCHANGED vars PROVE UNCHANGED Abstract!vars
    BY <2>1 DEF vars, Abstract!vars
  <2> QED BY <1>2, <1>3, <1>4, <2>1 DEF Next, Abstract!Next, AnyRoot
<1> QED BY <1>1, <1>5, InitIInv, NextIInv, PTL DEF Spec, Abstract!Spec, ImplementsNotePool

-----------------------------------------------------------------------------
(* The program with its callers. *)

(* Trees. *)

LEMMA TreeIsSequence ==
  ASSUME NEW t \in Trees
  PROVE  t \in Seq(Notes) /\ Len(t) \in Nat /\ Len(t) <= TreeCapacity
<1>1. PICK m \in 0 .. TreeCapacity : t \in [1 .. m -> Notes]
  BY DEF Trees, SeqOf
<1>2. m \in Nat
  BY <1>1, PoolConstants
<1> QED BY <1>1, <1>2

LEMMA SequenceIsTree ==
  ASSUME NEW t \in Seq(Notes), Len(t) <= TreeCapacity
  PROVE  t \in Trees
<1>1. Len(t) \in 0 .. TreeCapacity /\ t \in [1 .. Len(t) -> Notes]
  BY PoolConstants
<1> QED BY <1>1 DEF Trees, SeqOf

LEMMA EmptyTree == <<>> \in Trees /\ Len(<<>>) = 0 /\ Range(<<>>) = {}
<1>1. <<>> \in Seq(Notes) /\ Len(<<>>) = 0
  OBVIOUS
<1>2. Range(<<>>) = {}
  BY DEF Range
<1>3. 0 <= TreeCapacity
  BY PoolConstants
<1>4. <<>> \in Trees
  BY <1>1, <1>3, SequenceIsTree
<1> QED BY <1>1, <1>2, <1>4

\* A tree with room and one more note.
LEMMA GrownTree ==
  ASSUME NEW t \in Trees, NEW n \in Notes, Len(t) < TreeCapacity
  PROVE  /\ Append(t, n) \in Trees
         /\ Len(Append(t, n)) = Len(t) + 1
         /\ Range(Append(t, n)) = Range(t) \cup {n}
<1>1. t \in Seq(Notes) /\ Len(t) \in Nat
  BY TreeIsSequence
<1>2. /\ Append(t, n) \in Seq(Notes) /\ Len(Append(t, n)) = Len(t) + 1
      /\ \A i \in 1 .. Len(t) : Append(t, n)[i] = t[i]
      /\ Append(t, n)[Len(t) + 1] = n
  BY <1>1
<1>3. Append(t, n) \in Trees
  <2>1. Len(t) + 1 <= TreeCapacity
    BY <1>1, PoolConstants
  <2>2. Len(Append(t, n)) <= TreeCapacity
    BY <1>2, <2>1
  <2> QED BY <1>2, <2>2, SequenceIsTree
<1>4. DOMAIN t = 1 .. Len(t) /\ DOMAIN Append(t, n) = (1 .. Len(t)) \cup {Len(t) + 1}
  BY <1>1, <1>2
<1>5. Range(Append(t, n)) = Range(t) \cup {n}
  BY <1>2, <1>4 DEF Range
<1> QED BY <1>2, <1>3, <1>5

-----------------------------------------------------------------------------
(* However many depositors there are. *)

ViewsSound ==
  \A d \in Depositors : view[d] # None =>
    pool.exists /\ view[d] \in Trees /\ Len(view[d]) <= pool.next_index
LatestSound ==
  pool.exists => LatestRoot \in Trees /\ Len(LatestRoot) <= pool.next_index
ProofsSound ==
  \A s \in Spenders : proof[s] # None =>
    proof[s].nullifier \in Nullifiers /\ proof[s].root \in Trees
HeldTyped ==
  view = [d \in Depositors |-> view[d]] /\ proof = [s \in Spenders |-> proof[s]]

\* IInv is of the program.  A tree read from the pool, even
\* one that is out of date, has no more leaves than were inserted, so the
\* tree a depositor computes from it fits where the program has room.
CInv == IInv /\ ViewsSound /\ LatestSound /\ ProofsSound /\ HeldTyped

LEMMA InitCInv == ClientsInit => CInv
BY InitIInv
   DEF ClientsInit, Init, CInv, ViewsSound, LatestSound, ProofsSound, HeldTyped

\* What a deployment or an insertion of root leaves behind.
NewLatest(root, leaves) ==
  pool'.exists /\ LatestRoot' = root /\ pool'.next_index = leaves

LEMMA DeployEffect ==
  ASSUME IInv, initialize(<<>>)
  PROVE  NewLatest(<<>>, 0) /\ ~pool.exists
<1>1. 0 \in Indices
  BY PoolConstants DEF Indices
<1> QED BY <1>1 DEF initialize, PoolIsNew, NewLatest, LatestRoot

LEMMA InsertEffect ==
  ASSUME IInv, NEW root \in Roots, insert_commitment(root)
  PROVE  /\ NewLatest(root, pool.next_index + 1)
         /\ pool.exists /\ pool.next_index \in Nat /\ pool.next_index < TreeCapacity
<1> DEFINE ri == NextRootIndex(pool.root_index)
<1>1. /\ pool \in Pool /\ pool.root_index \in Indices /\ pool.next_index \in Nat
      /\ pool.roots \in [Indices -> AnyRoot]
  BY DEF IInv, TypeOK, Pool, U64
<1>2. ri \in Indices
  BY <1>1, NextIndexWraps, PoolConstants DEF Indices
<1> HIDE DEF ri
<1>3. pool' = [pool EXCEPT !.next_index = @ + 1, !.root_index = ri,
                           !.roots[ri] = root, !.note_count = @ + 1]
  BY DEF insert_commitment, Inserted, ri
<1>4. /\ pool'.exists = pool.exists /\ pool'.root_index = ri
      /\ pool'.next_index = pool.next_index + 1
      /\ pool'.roots = [pool.roots EXCEPT ![ri] = root]
  BY <1>1, <1>3 DEF Pool
<1>5. pool.exists /\ pool.next_index < TreeCapacity
  BY DEF insert_commitment, TreeHasRoom
<1> QED BY <1>1, <1>2, <1>4, <1>5 DEF NewLatest, LatestRoot

\* A deposit inserts a tree the program's own specification considers.
LEMMA DepositEffect ==
  ASSUME CInv, NEW d \in Depositors, NEW n \in Notes, Deposit(d, n)
  PROVE  /\ view[d] \in Trees /\ Append(view[d], n) \in Roots
         /\ insert_commitment(Append(view[d], n))
         /\ NewLatest(Append(view[d], n), pool.next_index + 1)
         /\ Len(Append(view[d], n)) <= pool.next_index + 1
         /\ Range(Append(view[d], n)) = Range(view[d]) \cup {n}
         /\ pool.exists /\ pool.next_index \in Nat
<1>1. /\ view[d] \in Trees /\ Len(view[d]) <= pool.next_index
      /\ insert_commitment(Append(view[d], n))
  BY DEF Deposit, CInv, ViewsSound
<1>2. pool.next_index \in Nat /\ pool.next_index < TreeCapacity
  BY <1>1 DEF CInv, IInv, TypeOK, Pool, U64, insert_commitment, TreeHasRoom
<1>3. Len(view[d]) \in Nat /\ Len(view[d]) < TreeCapacity
  BY <1>1, <1>2, TreeIsSequence, PoolConstants
<1>4. /\ Append(view[d], n) \in Trees /\ Len(Append(view[d], n)) = Len(view[d]) + 1
      /\ Range(Append(view[d], n)) = Range(view[d]) \cup {n}
  BY <1>1, <1>3, GrownTree
<1>5. Append(view[d], n) \in Roots
  BY <1>4, ClientsConstants
<1>6. NewLatest(Append(view[d], n), pool.next_index + 1) /\ pool.exists
  BY <1>1, <1>5, InsertEffect DEF CInv
<1> QED BY <1>1, <1>2, <1>3, <1>4, <1>5, <1>6

\* On chain, every step of a caller is a step of the program.
LEMMA ProgramStep == CInv /\ [ClientsNext]_allVars => [Next]_vars
<1> SUFFICES ASSUME CInv, [ClientsNext]_allVars PROVE [Next]_vars
  OBVIOUS
<1>1. CASE UNCHANGED allVars
  BY <1>1 DEF allVars
<1>2. CASE Deploy
  BY <1>2, EmptyTree, ClientsConstants DEF Deploy, Next
<1>3. ASSUME NEW d \in Depositors, NEW n \in Notes, Deposit(d, n) PROVE Next
  BY <1>3, DepositEffect DEF Next
<1>4. ASSUME NEW s \in Spenders, Spend(s) PROVE Next
  <2>1. proof[s].nullifier \in Nullifiers /\ proof[s].root \in AnyRoot
    BY <1>4, ClientsConstants DEF Spend, CInv, ProofsSound, AnyRoot
  <2> QED BY <1>4, <2>1 DEF Spend, Next
<1>5. ASSUME NEW d \in Depositors, ReadTree(d) PROVE UNCHANGED vars
  BY <1>5 DEF ReadTree
<1>6. ASSUME NEW s \in Spenders, SpendFails(s) \/ \E n \in Notes : Prove(s, n)
      PROVE  UNCHANGED vars
  BY <1>6 DEF SpendFails, Prove
<1> QED BY <1>1, <1>2, <1>3, <1>4, <1>5, <1>6 DEF ClientsNext

\* Only deployments and deposits change the pool account.
LEMMA PoolStays ==
  ASSUME [ClientsNext]_allVars, ~Deploy,
         \A d \in Depositors, n \in Notes : ~Deposit(d, n)
  PROVE  pool' = pool /\ LatestRoot' = LatestRoot /\ deposited' = deposited
<1>1. pool' = pool /\ deposited' = deposited
  BY DEF ClientsNext, allVars, vars, ReadTree, Spend, spend_nullifier, SpendFails, Prove
<1> QED BY <1>1 DEF LatestRoot

LEMMA NextCInv == CInv /\ [ClientsNext]_allVars => CInv'
<1> SUFFICES ASSUME CInv, [ClientsNext]_allVars PROVE CInv'
  OBVIOUS
<1>1. IInv'
  BY ProgramStep, NextIInv DEF CInv
<1>2. CASE Deploy
  <2>1. /\ pool'.exists /\ LatestRoot' = <<>> /\ pool'.next_index = 0 /\ ~pool.exists
        /\ view' = view /\ proof' = proof
    BY <1>2, DeployEffect DEF Deploy, NewLatest, CInv
  <2> QED BY <1>1, <2>1, EmptyTree DEF CInv, ViewsSound, LatestSound, ProofsSound, HeldTyped
<1>3. ASSUME NEW d \in Depositors, NEW n \in Notes, Deposit(d, n) PROVE CInv'
  <2>1. /\ view' = [view EXCEPT ![d] = None] /\ proof' = proof
        /\ pool'.exists /\ LatestRoot' = Append(view[d], n)
        /\ pool'.next_index = pool.next_index + 1 /\ pool.next_index \in Nat
        /\ Append(view[d], n) \in Trees /\ Len(Append(view[d], n)) <= pool.next_index + 1
    BY <1>3, DepositEffect, ClientsConstants DEF Deposit, NewLatest
  <2>2. ViewsSound'
    <3> SUFFICES ASSUME NEW x \in Depositors, view'[x] # None
                 PROVE  view'[x] \in Trees /\ Len(view'[x]) <= pool'.next_index
      BY <2>1 DEF ViewsSound
    <3>1. view'[x] = view[x] /\ view[x] # None
      BY <2>1 DEF CInv, HeldTyped
    <3>2. view[x] \in Trees /\ Len(view[x]) <= pool.next_index
      BY <3>1 DEF CInv, ViewsSound
    <3>3. Len(view[x]) \in Nat
      BY <3>2, TreeIsSequence
    <3> QED BY <2>1, <3>1, <3>2, <3>3
  <2>3. HeldTyped'
    BY <2>1 DEF CInv, HeldTyped
  <2> QED BY <1>1, <2>1, <2>2, <2>3 DEF CInv, LatestSound, ProofsSound
<1>4. CASE ~Deploy /\ \A d \in Depositors, n \in Notes : ~Deposit(d, n)
  <2>1. pool' = pool /\ LatestRoot' = LatestRoot
    BY <1>4, PoolStays
  <2>2. LatestSound'
    BY <2>1 DEF CInv, LatestSound
  <2>3. ViewsSound' /\ view' = [d \in Depositors |-> view'[d]]
    <3>1. CASE view' = view
      BY <2>1, <3>1 DEF CInv, ViewsSound, HeldTyped
    <3>2. ASSUME NEW d \in Depositors, ReadTree(d)
          PROVE  ViewsSound' /\ view' = [x \in Depositors |-> view'[x]]
      <4>1. pool.exists /\ view' = [view EXCEPT ![d] = LatestRoot]
        BY <3>2 DEF ReadTree
      <4> QED BY <2>1, <4>1 DEF CInv, ViewsSound, LatestSound, HeldTyped
    <3> QED BY <1>4, <3>1, <3>2
          DEF ClientsNext, allVars, Spend, SpendFails, Prove
  <2>4. ProofsSound' /\ proof' = [s \in Spenders |-> proof'[s]]
    <3>1. CASE proof' = proof
      BY <3>1 DEF CInv, ProofsSound, HeldTyped
    <3>2. ASSUME NEW s \in Spenders, proof' = [proof EXCEPT ![s] = None]
          PROVE  ProofsSound' /\ proof' = [x \in Spenders |-> proof'[x]]
      BY <3>2 DEF CInv, ProofsSound, HeldTyped
    <3>3. ASSUME NEW s \in Spenders, NEW n \in Notes, Prove(s, n)
          PROVE  ProofsSound' /\ proof' = [x \in Spenders |-> proof'[x]]
      <4>1. PICK h \in NullifiersOf[n] :
              /\ pool.exists /\ LatestRoot \in Trees
              /\ proof' = [proof EXCEPT ![s] = [nullifier |-> h, root |-> LatestRoot]]
        BY <3>3 DEF Prove, CInv, LatestSound
      <4>2. h \in Nullifiers
        BY <4>1, ClientsConstants
      <4> QED BY <4>1, <4>2 DEF CInv, ProofsSound, HeldTyped
    <3> QED BY <1>4, <3>1, <3>2, <3>3
          DEF ClientsNext, allVars, ReadTree, Spend, SpendFails
  <2> QED BY <1>1, <2>2, <2>3, <2>4 DEF CInv, HeldTyped
<1> QED BY <1>2, <1>3, <1>4

\* Depositors and spenders, with stale trees and evicted roots, implement the
\* pool program: every theorem about it holds of the composition.
THEOREM ClientsImplementPool == ClientsSpec => Spec
<1>1. ClientsInit => Init
  BY DEF ClientsInit
<1> QED BY <1>1, InitCInv, NextCInv, ProgramStep, PTL DEF ClientsSpec, Spec

-----------------------------------------------------------------------------
(* With one depositor. *)

\* Until the depositor inserts again, the tree it read is the latest.
OneInv ==
  /\ CInv
  /\ IF pool.exists THEN Range(LatestRoot) = deposited ELSE deposited = {}
  /\ \A d \in Depositors : view[d] # None => view[d] = LatestRoot

\* One depositor at a time is enough for the latest root to commit to every
\* note ever deposited, for any number of spenders, whatever the length of the
\* ring.
THEOREM OneDepositorKeepsAllNotes ==
  ASSUME \A d, e \in Depositors : d = e
  PROVE  ClientsSpec => []LatestRootHoldsAllNotes
<1>1. ClientsInit => OneInv
  BY InitCInv DEF ClientsInit, Init, OneInv
<1>2. OneInv /\ [ClientsNext]_allVars => OneInv'
  <2> SUFFICES ASSUME OneInv, [ClientsNext]_allVars PROVE OneInv'
    OBVIOUS
  <2>1. CInv /\ CInv'
    BY NextCInv DEF OneInv
  <2>2. CASE Deploy
    <3>1. /\ pool'.exists /\ LatestRoot' = <<>> /\ ~pool.exists
          /\ view' = view /\ deposited' = deposited
      BY <2>1, <2>2, DeployEffect DEF Deploy, NewLatest, CInv
    <3> QED BY <2>1, <3>1, EmptyTree DEF OneInv, CInv, ViewsSound
  <2>3. ASSUME NEW d \in Depositors, NEW n \in Notes, Deposit(d, n) PROVE OneInv'
    <3>1. /\ view' = [view EXCEPT ![d] = None] /\ deposited' = deposited \cup {n}
          /\ pool.exists /\ pool'.exists /\ LatestRoot' = Append(view[d], n)
          /\ Range(Append(view[d], n)) = Range(view[d]) \cup {n}
          /\ view[d] = LatestRoot
      BY <2>1, <2>3, DepositEffect DEF Deposit, NewLatest, OneInv
    <3>2. Range(LatestRoot)' = deposited'
      BY <3>1 DEF OneInv
    <3>3. \A e \in Depositors : view'[e] = None
      BY <2>1, <3>1 DEF CInv, HeldTyped
    <3> QED BY <2>1, <3>1, <3>2, <3>3 DEF OneInv
  <2>4. CASE ~Deploy /\ \A d \in Depositors, n \in Notes : ~Deposit(d, n)
    <3>1. pool' = pool /\ LatestRoot' = LatestRoot /\ deposited' = deposited
      BY <2>4, PoolStays
    <3>2. \A d \in Depositors : view'[d] \in {view[d], LatestRoot}
      BY <2>1, <2>4
         DEF ClientsNext, allVars, ReadTree, Spend, SpendFails, Prove, CInv, HeldTyped
    <3> QED BY <2>1, <3>1, <3>2 DEF OneInv
  <2> QED BY <2>2, <2>3, <2>4
<1>3. OneInv => LatestRootHoldsAllNotes
  BY ClientsConstants DEF OneInv, CInv, LatestSound, LatestRootHoldsAllNotes
<1> QED BY <1>1, <1>2, <1>3, PTL DEF ClientsSpec

=============================================================================
