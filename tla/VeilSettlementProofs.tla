------------------------ MODULE VeilSettlementProofs ------------------------
(***************************************************************************)
(* Theorems of the session program: its invariants, the finality of what it *)
(* records, and that it implements SessionLedger, for any sets of sessions, *)
(* hashes and digests; of the circuits, whose comparisons and sums in the  *)
(* field are those of the integers, and one of which accepts nothing the SDK *)
(* computes for it; and of agents with the SDK and everybody else together, *)
(* who only take steps of the program: an account that agrees with a proof of *)
(* its session is within its ceiling, which can be reached, and an agent's *)
(* own closings stay apart.                                                *)
(***************************************************************************)
EXTENDS VeilSettlement, WellFoundedInduction, TLAPS

-----------------------------------------------------------------------------
(* The session program. *)

\* Inductive as it stands: the matching of nullifiers needs the timeline (a
\* session's seed is its root) and the types, and they need nothing of it.
IInv ==
  /\ TypeOK
  /\ NullifiersMatchClosings
  /\ SessionTimeline

-----------------------------------------------------------------------------
(* What each instruction does to the accounts. *)

\* Opening adds one open session and touches nothing else.
OpensWith(r, s) ==
  /\ r \notin DOMAIN sessions
  /\ DOMAIN sessions' = DOMAIN sessions \cup {r}
  /\ \A x \in DOMAIN sessions : sessions'[x] = sessions[x]
  /\ sessions'[r] = s
  /\ s.session_root = r /\ s.max_notional > 0 /\ s.opened_slot = slot
  /\ s.state = Open /\ s.completion_attestation = ZeroBytes /\ s.closed_slot = 0
  /\ slot' = slot /\ nullifiers' = nullifiers
  /\ IsAccountMap(sessions', Roots, Session)

LEMMA OpenEffect ==
  ASSUME IInv, NEW r \in Roots, NEW peer \in Peers, NEW notional \in Notionals,
         NEW epoch \in Epochs, NEW attestation \in Digests,
         open_session(r, peer, notional, epoch, attestation)
  PROVE  OpensWith(r, Opened(r, peer, notional, epoch, attestation, slot))
<1>1. r \notin DOMAIN sessions /\ notional > 0 /\ slot' = slot /\ nullifiers' = nullifiers
  BY DEF open_session, SessionIsNew
<1>2. Opened(r, peer, notional, epoch, attestation, slot) \in Session
  BY SessionConstants, MaxU64Assumption DEF Opened, Session, IInv, TypeOK, U64, Open, Closed
<1>3. sessions' = Put(sessions, r, Opened(r, peer, notional, epoch, attestation, slot))
  BY DEF open_session
<1>4. /\ DOMAIN sessions' = DOMAIN sessions \cup {r}
      /\ \A x \in DOMAIN sessions : sessions'[x] = sessions[x]
      /\ sessions'[r] = Opened(r, peer, notional, epoch, attestation, slot)
  BY <1>1, <1>3 DEF Put
<1>5. IsAccountMap(sessions', Roots, Session)
  BY <1>2, <1>3 DEF Put, IsAccountMap, IInv, TypeOK
<1> QED BY <1>1, <1>4, <1>5 DEF Opened, OpensWith

\* Closing turns one open session into a closed one with the same terms, and
\* adds one nullifier that names it.
ClosesWith(r, h, s) ==
  /\ r \in DOMAIN sessions
  /\ h \notin DOMAIN nullifiers
  /\ sessions[r].state = Open /\ sessions[r].session_root = r
  /\ DOMAIN sessions' = DOMAIN sessions
  /\ \A x \in DOMAIN sessions : x # r => sessions'[x] = sessions[x]
  /\ sessions'[r] = s
  /\ OpeningTerms(s) = OpeningTerms(sessions[r])
  /\ s.state = Closed /\ s.closed_slot = slot
  /\ s.proof_attestation # ZeroBytes /\ s.completion_attestation # ZeroBytes
  /\ DOMAIN nullifiers' = DOMAIN nullifiers \cup {h}
  /\ \A x \in DOMAIN nullifiers : nullifiers'[x] = nullifiers[x]
  /\ nullifiers'[h] = [session_root |-> r, nullifier_hash |-> h]
  /\ slot' = slot
  /\ IsAccountMap(sessions', Roots, Session)
  /\ IsAccountMap(nullifiers', Hashes, Nullifier)

LEMMA CloseEffect ==
  ASSUME IInv, NEW r \in Roots, NEW h \in Hashes, NEW net \in Commits,
         NEW attestation \in Digests, close_session(r, h, net, attestation)
  PROVE  ClosesWith(r, h, sessions'[r])
<1> DEFINE after == [sessions[r] EXCEPT
                       !.net_commit = net,
                       !.completion_attestation = attestation,
                       !.closed_slot = slot,
                       !.state = Closed]
<1>1. /\ r \in DOMAIN sessions /\ h \notin DOMAIN nullifiers /\ slot' = slot
      /\ sessions[r].state = Open /\ attestation # ZeroBytes
      /\ sessions[r].proof_attestation # ZeroBytes
  BY DEF close_session, NullifierIsNew, MayClose
<1>2. sessions[r] \in Session /\ sessions[r].session_root = r /\ slot \in U64
  BY <1>1 DEF IInv, TypeOK, IsAccountMap, SessionTimeline
<1>3. after \in Session
  BY <1>2 DEF Session, Open, Closed
<1>11. /\ OpeningTerms(after) = OpeningTerms(sessions[r])
       /\ after.state = Closed /\ after.closed_slot = slot
       /\ after.proof_attestation = sessions[r].proof_attestation
       /\ after.completion_attestation = attestation
  BY <1>2 DEF Session, OpeningTerms
<1>4. sessions' = [sessions EXCEPT ![r] = after]
  BY <1>1 DEF close_session
<1>5. [session_root |-> r, nullifier_hash |-> h] \in Nullifier
  BY DEF Nullifier
<1>6. nullifiers' = Put(nullifiers, h, [session_root |-> r, nullifier_hash |-> h])
  BY <1>2 DEF close_session
<1> HIDE DEF after
<1>7. /\ DOMAIN sessions' = DOMAIN sessions
      /\ \A x \in DOMAIN sessions : x # r => sessions'[x] = sessions[x]
      /\ sessions'[r] = after
  BY <1>1, <1>4 DEF IInv, TypeOK, IsAccountMap
<1>8. IsAccountMap(sessions', Roots, Session)
  BY <1>1, <1>3, <1>4 DEF IsAccountMap, IInv, TypeOK
<1>9. /\ DOMAIN nullifiers' = DOMAIN nullifiers \cup {h}
      /\ \A x \in DOMAIN nullifiers : nullifiers'[x] = nullifiers[x]
      /\ nullifiers'[h] = [session_root |-> r, nullifier_hash |-> h]
  BY <1>1, <1>6 DEF Put
<1>10. IsAccountMap(nullifiers', Hashes, Nullifier)
  BY <1>5, <1>6 DEF Put, IsAccountMap, IInv, TypeOK
<1> QED BY <1>1, <1>2, <1>7, <1>8, <1>9, <1>10, <1>11 DEF ClosesWith

-----------------------------------------------------------------------------
LEMMA InitIInv == Init => IInv
  BY MaxU64Assumption
     DEF Init, NoAccounts, IInv, TypeOK, IsAccountMap, NullifiersMatchClosings,
         ClosedSessions, SessionTimeline, U64

LEMMA OpenIInv ==
  ASSUME IInv, NEW r \in Roots, NEW s, OpensWith(r, s)
  PROVE  IInv'
<1>1. TypeOK'
  BY DEF OpensWith, IInv, TypeOK
<1>2. ClosedSessions' = ClosedSessions
  BY DEF OpensWith, ClosedSessions, Open, Closed
<1>3. NullifiersMatchClosings'
  BY <1>2 DEF OpensWith, IInv, NullifiersMatchClosings
<1>4. slot \in Nat
  BY MaxU64Assumption DEF IInv, TypeOK, U64
<1>5. SessionTimeline'
  BY <1>4 DEF OpensWith, IInv, SessionTimeline, Open, Closed
<1> QED BY <1>1, <1>3, <1>5 DEF IInv

LEMMA CloseIInv ==
  ASSUME IInv, NEW r \in Roots, NEW h \in Hashes, NEW s, ClosesWith(r, h, s)
  PROVE  IInv'
<1>1. sessions[r] \in Session /\ slot \in Nat
  BY MaxU64Assumption DEF ClosesWith, IInv, TypeOK, IsAccountMap, U64
<1>2. /\ s.session_root = r
      /\ s.max_notional = sessions[r].max_notional
      /\ s.opened_slot = sessions[r].opened_slot
  BY DEF ClosesWith, OpeningTerms
<1>3. TypeOK'
  BY DEF ClosesWith, IInv, TypeOK
<1>4. ClosedSessions' = ClosedSessions \cup {r} /\ r \notin ClosedSessions
  BY DEF ClosesWith, ClosedSessions, Open, Closed
<1>5. NullifiersMatchClosings'
  <2>1. /\ nullifiers'[h].session_root = r
        /\ nullifiers'[h].nullifier_hash = h
    BY DEF ClosesWith
  <2>2. \A x \in DOMAIN nullifiers : nullifiers[x].session_root # r
    BY <1>4 DEF IInv, NullifiersMatchClosings
  <2> QED
    BY <1>4, <2>1, <2>2 DEF ClosesWith, IInv, NullifiersMatchClosings
<1>6. SessionTimeline'
  BY <1>1, <1>2 DEF ClosesWith, IInv, SessionTimeline
<1> QED BY <1>3, <1>5, <1>6 DEF IInv

\* Every step is an opening, a closing or leaves the accounts alone.
LEMMA StepCases ==
  ASSUME IInv, [Next]_vars
  PROVE  \/ UNCHANGED vars
         \/ NextSlot
         \/ \E r \in Roots, s \in Session : OpensWith(r, s)
         \/ \E r \in Roots, h \in Hashes, s \in Session : ClosesWith(r, h, s)
<1>1. ASSUME NEW r \in Roots, NEW peer \in Peers, NEW notional \in Notionals,
             NEW epoch \in Epochs, NEW attestation \in Digests,
             open_session(r, peer, notional, epoch, attestation)
      PROVE  \E s \in Session : OpensWith(r, s)
  <2>1. OpensWith(r, Opened(r, peer, notional, epoch, attestation, slot))
    BY <1>1, OpenEffect
  <2> QED BY <2>1 DEF OpensWith, IsAccountMap
<1>2. ASSUME NEW r \in Roots, NEW h \in Hashes, NEW net \in Commits,
             NEW attestation \in Digests, close_session(r, h, net, attestation)
      PROVE  \E s \in Session : ClosesWith(r, h, s)
  <2>1. ClosesWith(r, h, sessions'[r])
    BY <1>2, CloseEffect
  <2> QED BY <2>1 DEF ClosesWith, IsAccountMap
<1> QED BY <1>1, <1>2 DEF Next

LEMMA NextIInv == IInv /\ [Next]_vars => IInv'
<1> SUFFICES ASSUME IInv, [Next]_vars PROVE IInv'
  OBVIOUS
<1>1. CASE UNCHANGED vars
  BY <1>1 DEF IInv, TypeOK, NullifiersMatchClosings, ClosedSessions, SessionTimeline, vars
<1>2. CASE NextSlot
  <2>1. slot \in Nat /\ slot' = slot + 1 /\ slot' \in U64
    BY <1>2, MaxU64Assumption DEF NextSlot, IInv, TypeOK, U64
  <2>2. sessions' = sessions /\ nullifiers' = nullifiers
    BY <1>2 DEF NextSlot
  <2>3. \A r \in DOMAIN sessions :
          sessions[r].opened_slot \in Nat /\ sessions[r].closed_slot \in Nat
    BY MaxU64Assumption DEF IInv, TypeOK, IsAccountMap, Session, U64
  <2>4. SessionTimeline'
    BY <2>1, <2>2, <2>3 DEF IInv, SessionTimeline
  <2> QED
    BY <2>1, <2>2, <2>4 DEF IInv, TypeOK, NullifiersMatchClosings, ClosedSessions
<1> QED BY <1>1, <1>2, StepCases, OpenIInv, CloseIInv

\* Every nullifier names the closed session that burned it and every closed
\* session burned exactly one; sessions are dated and attested in order.
THEOREM SessionInvariant ==
  Spec => [](TypeOK /\ NullifiersMatchClosings /\ SessionTimeline)
<1>1. IInv => TypeOK /\ NullifiersMatchClosings /\ SessionTimeline
  BY DEF IInv
<1> QED BY <1>1, InitIInv, NextIInv, PTL DEF Spec

-----------------------------------------------------------------------------
\* The terms of a session, a closed session and a burned nullifier are final.
THEOREM SessionFinality == Spec => SessionTermsFixed
<1>1. ASSUME NEW r \in Roots, NEW s, OpensWith(r, s) PROVE TermsFixedStep
  BY <1>1 DEF OpensWith, TermsFixedStep
<1>2. ASSUME NEW r \in Roots, NEW h \in Hashes, NEW s, ClosesWith(r, h, s)
      PROVE  TermsFixedStep
  BY <1>2 DEF ClosesWith, TermsFixedStep, Open, Closed
<1>3. ASSUME NextSlot PROVE TermsFixedStep
  BY <1>3 DEF NextSlot, TermsFixedStep
<1>4. IInv /\ [Next]_vars => [TermsFixedStep]_vars
  BY <1>1, <1>2, <1>3, StepCases
<1> QED BY <1>4, InitIInv, NextIInv, PTL DEF Spec, SessionTermsFixed

\* The program implements the abstract ledger: opening maps to Open, closing
\* to Settle, and the clock to a stutter.
THEOREM SessionImplementsLedger == Spec => ImplementsLedger
<1>1. Init => Ledger!Init
  BY DEF Init, NoAccounts, Ledger!Init, phaseOf, settledBy
<1>2. ASSUME NextSlot PROVE UNCHANGED Ledger!vars
  BY <1>2 DEF NextSlot, Ledger!vars, phaseOf, settledBy
<1>3. ASSUME NEW r \in Roots, NEW s, OpensWith(r, s) PROVE Ledger!Open(r)
  <2>1. phaseOf[r] = "unopened" /\ settledBy' = settledBy
    BY <1>3 DEF OpensWith, phaseOf, settledBy
  <2>2. phaseOf' = [phaseOf EXCEPT ![r] = "open"]
    BY <1>3 DEF OpensWith, phaseOf, Open
  <2> QED BY <2>1, <2>2 DEF Ledger!Open
<1>4. ASSUME NEW r \in Roots, NEW h \in Hashes, NEW s, ClosesWith(r, h, s)
      PROVE  Ledger!Settle(r, h)
  <2>1. phaseOf[r] = "open"
    BY <1>4 DEF ClosesWith, phaseOf
  <2>2. \A p \in settledBy : p[1] # h
    BY <1>4 DEF ClosesWith, settledBy
  <2>3. phaseOf' = [phaseOf EXCEPT ![r] = "closed"]
    <3>1. sessions'[r].state = Closed /\ r \in DOMAIN sessions'
      BY <1>4 DEF ClosesWith
    <3>2. \A x \in Roots : x # r =>
            /\ x \in DOMAIN sessions' <=> x \in DOMAIN sessions
            /\ x \in DOMAIN sessions => sessions'[x] = sessions[x]
      BY <1>4 DEF ClosesWith
    <3>3. \A x \in Roots :
            phaseOf'[x] = IF x = r THEN "closed" ELSE phaseOf[x]
      BY <3>1, <3>2 DEF phaseOf, Open, Closed
    <3> QED BY <3>3 DEF phaseOf
  <2>4. settledBy' = settledBy \cup {<<h, r>>}
    <3>1. nullifiers'[h].session_root = r
      BY <1>4 DEF ClosesWith
    <3>2. \A x \in DOMAIN nullifiers :
            nullifiers'[x].session_root = nullifiers[x].session_root
      BY <1>4 DEF ClosesWith
    <3>3. DOMAIN nullifiers' = DOMAIN nullifiers \cup {h}
      BY <1>4 DEF ClosesWith
    <3>4. settledBy' = {<<x, nullifiers'[x].session_root>> : x \in DOMAIN nullifiers'}
      BY DEF settledBy
    <3> QED BY <3>1, <3>2, <3>3, <3>4 DEF settledBy
  <2> QED BY <2>1, <2>2, <2>3, <2>4 DEF Ledger!Settle
<1>5. IInv /\ [Next]_vars => [Ledger!Next]_(Ledger!vars)
  <2>1. ASSUME UNCHANGED vars PROVE UNCHANGED Ledger!vars
    BY <2>1 DEF vars, Ledger!vars, phaseOf, settledBy
  <2> QED BY <1>2, <1>3, <1>4, <2>1, StepCases DEF Ledger!Next
<1> QED BY <1>1, <1>5, InitIInv, NextIInv, PTL DEF Spec, Ledger!Spec, ImplementsLedger

-----------------------------------------------------------------------------
(* Its callers and the circuits. *)

(* Arithmetic in the field. *)

\* Reduction changes nothing below the modulus.
LEMMA SmallModulus ==
  ASSUME NEW v \in Nat, v < FieldOrder
  PROVE  v % FieldOrder = v
BY CircuitConstants

\* The ceiling test of the completion circuit decides the order of integers:
\* whatever sum sixteen ranged transfers can have, and whatever ceiling the
\* auth circuit lets a session open with, the field does not wrap.
THEOREM ComparatorIsExact ==
  ASSUME NEW a \in Nat, a <= TransferSlots * AmountLimit,
         NEW b \in Nat, b < AmountLimit
  PROVE  LessEqThan65(a, b) <=> a <= b
<1> DEFINE v == a + 2 * AmountLimit - (b + 1)
           top == TransferSlots * AmountLimit
<1>1. /\ AmountLimit \in Nat /\ FieldOrder \in Nat /\ top \in Nat
      /\ top + 2 * AmountLimit <= FieldOrder /\ a <= top
  BY CircuitConstants
<1> HIDE DEF top
<1>2. v \in Nat /\ v < FieldOrder
  BY <1>1
<1>3. v % FieldOrder = v
  BY <1>2, SmallModulus
<1>4. v < 2 * AmountLimit <=> a <= b
  BY <1>1
<1> HIDE DEF v
<1>5. LessEqThan65(a, b) <=> v % FieldOrder < 2 * AmountLimit
  BY DEF LessEqThan65, v
<1> QED BY <1>3, <1>4, <1>5

\* Whatever ceiling a prover claims, one the auth circuit would not open a
\* session with included: the comparison never accepts a sum above it.
LEMMA ComparatorIsSound ==
  ASSUME NEW a \in Nat, a <= TransferSlots * AmountLimit,
         NEW b \in Nat, LessEqThan65(a, b)
  PROVE  a <= b
<1> DEFINE v == a + 2 * AmountLimit - (b + 1)
           top == TransferSlots * AmountLimit
<1>1. /\ AmountLimit \in Nat /\ FieldOrder \in Nat /\ top \in Nat
      /\ top + 2 * AmountLimit <= FieldOrder /\ a <= top
  BY CircuitConstants
<1> HIDE DEF top
<1> SUFFICES ASSUME b < a PROVE FALSE
  OBVIOUS
<1>2. v \in Nat /\ v < FieldOrder /\ 2 * AmountLimit <= v
  BY <1>1
<1>3. v % FieldOrder = v
  BY <1>2, SmallModulus
<1> HIDE DEF v
<1>4. v % FieldOrder < 2 * AmountLimit
  BY DEF LessEqThan65, v
<1>5. AmountLimit \in Nat
  BY <1>1
<1> QED BY <1>2, <1>3, <1>4, <1>5

\* A spend of the pool conserves money, not only residues: what the new note
\* and the fee are worth adds up, over the integers, to the note spent.
THEOREM NoteConservesValue ==
  ASSUME NEW s, s.amount \in Field, s.newAmount \in Field, s.fee \in Field,
         VeilPoolNote(s)
  PROVE  s.amount = s.newAmount + s.fee
<1>1. /\ s.newAmount < AmountLimit /\ s.fee < AmountLimit
      /\ s.amount = (s.newAmount + s.fee) % FieldOrder
  BY DEF VeilPoolNote, Num2Bits64
<1>2. /\ AmountLimit \in Nat /\ FieldOrder \in Nat
      /\ TransferSlots * AmountLimit \in Nat /\ 2 * AmountLimit <= FieldOrder
  BY CircuitConstants
<1>3. s.newAmount \in Nat /\ s.fee \in Nat
  BY <1>2 DEF Field
<1>4. s.newAmount + s.fee \in Nat /\ s.newAmount + s.fee < FieldOrder
  BY <1>1, <1>2, <1>3
<1> QED BY <1>1, <1>4, SmallModulus

\* No spend of a note can be proved with the SDK: generatePoolNoteProof hashes
\* four values into the new commitment where the circuit hashes three, so the
\* circuit accepts the signals of no input at all.
THEOREM NoSpendIsProvable ==
  ASSUME NEW in
  PROVE  ~ VeilPoolNote(PoolNoteSignals(in))
<1> DEFINE s == PoolNoteSignals(in)
<1>1. /\ s.newCommitment = <<in.newAmount, in.newOwnerPk, in.newSalt, in.noteSecret>>
      /\ s.newAmount = in.newAmount /\ s.newOwnerPk = in.newOwnerPk
      /\ s.newSalt = in.newSalt
  BY DEF PoolNoteSignals, Poseidon
<1>2. <<in.newAmount, in.newOwnerPk, in.newSalt>>
        # <<in.newAmount, in.newOwnerPk, in.newSalt, in.noteSecret>>
  OBVIOUS
<1> HIDE DEF s
<1>3. VeilPoolNote(s) => <<s.newAmount, s.newOwnerPk, s.newSalt>> = s.newCommitment
  BY DEF VeilPoolNote, Poseidon
<1> QED BY <1>1, <1>2, <1>3 DEF s

\* The circuit binds the secret and the index that a nullifier hashes to each
\* other, not to the note: what spends a note spends it with any other secret
\* and index too, under another nullifier.
THEOREM NoteHasManyNullifiers ==
  ASSUME NEW s, NEW secret, NEW index, VeilPoolNote(s),
         s = [x \in DOMAIN s |-> s[x]],
         {"nullifier", "noteSecret", "leafIndex"} \subseteq DOMAIN s
  PROVE  VeilPoolNote([s EXCEPT !.noteSecret = secret, !.leafIndex = index,
                                !.nullifier = Poseidon(<<secret, index>>)])
<1> DEFINE z == [s EXCEPT !.noteSecret = secret, !.leafIndex = index,
                          !.nullifier = Poseidon(<<secret, index>>)]
<1>1. /\ z.amount = s.amount /\ z.newAmount = s.newAmount /\ z.fee = s.fee
      /\ z.ownerPk = s.ownerPk /\ z.salt = s.salt
      /\ z.pathElements = s.pathElements /\ z.pathIndices = s.pathIndices
      /\ z.merkleRoot = s.merkleRoot /\ z.newOwnerPk = s.newOwnerPk
      /\ z.newSalt = s.newSalt /\ z.newCommitment = s.newCommitment
      /\ z.feeSalt = s.feeSalt /\ z.feeCommit = s.feeCommit
  OBVIOUS
<1>2. z.noteSecret = secret /\ z.leafIndex = index /\ z.nullifier = Poseidon(<<secret, index>>)
  OBVIOUS
<1> HIDE DEF z
<1>3. VeilPoolNote(z)
  BY <1>1, <1>2 DEF VeilPoolNote
<1> QED BY <1>3 DEF z

-----------------------------------------------------------------------------
(* Induction, over sets: the provers cannot instantiate a theorem that has *)
(* an operator as a parameter, but a set they can.                         *)

\* A set of naturals that is not empty has a least member.
LEMMA LeastNatural ==
  ASSUME NEW T, T \subseteq Nat, T # {}
  PROVE  \E x \in T : \A y \in T : x <= y
<1> DEFINE R == OpToRel(<, Nat)
<1>1. IsWellFoundedOn(R, Nat)
  BY NatLessThanWellFounded
<1>2. \A x, y \in Nat : x < y => <<x, y>> \in R
  BY DEF OpToRel
<1> HIDE DEF R
<1>3. PICK x \in T : \A y \in T : ~ (<<y, x>> \in R)
  BY <1>1, WFMin
<1>4. ASSUME NEW y \in T PROVE x <= y
  <2>1. x \in Nat /\ y \in Nat
    OBVIOUS
  <2>2. ~ (y < x)
    BY <1>2, <1>3, <2>1
  <2> QED BY <2>1, <2>2
<1> QED BY <1>4

\* A set that holds 0, and with a number the next, holds every natural.
LEMMA SetInduction ==
  ASSUME NEW D, 0 \in D, \A m \in Nat : m \in D => m + 1 \in D
  PROVE  Nat \subseteq D
<1> SUFFICES ASSUME ~ (Nat \subseteq D) PROVE FALSE
  OBVIOUS
<1> DEFINE T == Nat \ D
<1>1. PICK x \in T : \A y \in T : x <= y
  <2>1. T \subseteq Nat /\ T # {}
    OBVIOUS
  <2> HIDE DEF T
  <2> QED BY <2>1, LeastNatural
<1>2. x \in Nat /\ x \notin D /\ x # 0
  BY <1>1
<1>3. x - 1 \in Nat /\ x - 1 \in D /\ (x - 1) + 1 = x
  BY <1>1, <1>2
<1> QED BY <1>2, <1>3

\* What starts in S and never leaves S at one step is in S to the end.
LEMMA IntervalInduction ==
  ASSUME NEW S, NEW n \in Nat, NEW f, f[0] \in S,
         \A i \in 1 .. n : f[i - 1] \in S => f[i] \in S
  PROVE  \A i \in 0 .. n : f[i] \in S
<1> DEFINE D == {m \in Nat : m <= n => f[m] \in S}
<1>1. 0 \in D
  OBVIOUS
<1>2. ASSUME NEW m \in Nat, m \in D PROVE m + 1 \in D
  <2> SUFFICES ASSUME m + 1 <= n PROVE f[m + 1] \in S
    OBVIOUS
  <2>1. m + 1 \in 1 .. n /\ (m + 1) - 1 = m /\ f[m] \in S
    BY <1>2
  <2> QED BY <2>1
<1>3. Nat \subseteq D
  <2> HIDE DEF D
  <2> QED BY <1>1, <1>2, SetInduction
<1> QED BY <1>3

\* A function whose value at i is computed from the one before exists.
LEMMA RecursionDefined ==
  ASSUME NEW S, NEW c \in S, NEW n \in Nat, NEW h \in [1 .. n -> [S -> S]]
  PROVE  \E g \in [0 .. n -> S] : g[0] = c /\ \A i \in 1 .. n : g[i] = h[i][g[i - 1]]
<1> DEFINE G(m, g) == g[0] = c /\ \A i \in 1 .. m : g[i] = h[i][g[i - 1]]
           D == {m \in Nat : m <= n => \E g \in [0 .. m -> S] : G(m, g)}
<1>1. 0 \in D
  <2>1. G(0, [i \in 0 .. 0 |-> c])
    OBVIOUS
  <2> QED BY <2>1
<1>2. ASSUME NEW m \in Nat, m \in D PROVE m + 1 \in D
  <2> SUFFICES ASSUME m + 1 <= n PROVE \E g \in [0 .. m + 1 -> S] : G(m + 1, g)
    OBVIOUS
  <2>1. PICK g \in [0 .. m -> S] : G(m, g)
    BY <1>2
  <2> DEFINE e == [i \in 0 .. m + 1 |-> IF i = m + 1 THEN h[m + 1][g[m]] ELSE g[i]]
  <2>2. g[m] \in S /\ m + 1 \in 1 .. n
    OBVIOUS
  <2>3. e \in [0 .. m + 1 -> S]
    BY <2>2
  <2>4. e[0] = c
    BY <2>1
  <2>5. ASSUME NEW i \in 1 .. m + 1 PROVE e[i] = h[i][e[i - 1]]
    <3>1. CASE i = m + 1
      <4>1. e[i - 1] = g[m] /\ e[i] = h[m + 1][g[m]]
        BY <3>1
      <4> QED BY <3>1, <4>1
    <3>2. CASE i # m + 1
      <4>1. i \in 1 .. m /\ i - 1 \in 0 .. m + 1 /\ i - 1 # m + 1 /\ i \in 0 .. m + 1
        BY <3>2
      <4>2. e[i - 1] = g[i - 1] /\ e[i] = g[i]
        BY <4>1
      <4> QED BY <2>1, <4>1, <4>2
    <3> QED BY <3>1, <3>2
  <2> QED BY <2>3, <2>4, <2>5
<1>3. Nat \subseteq D
  <2> HIDE DEF D
  <2> QED BY <1>1, <1>2, SetInduction
<1> QED BY <1>3

-----------------------------------------------------------------------------
(* The sums. *)

\* The partial sums over the integers exist, and Total is the last.
LEMMA TotalDefined ==
  ASSUME NEW t, t \in [1 .. TransferSlots -> Int]
  PROVE  \E sum : /\ sum[0] = 0
                  /\ \A i \in 1 .. TransferSlots : sum[i] = sum[i - 1] + t[i]
                  /\ Total(t) = sum[TransferSlots]
<1> DEFINE IsSum(g) == g = [i \in 0 .. TransferSlots |->
                              IF i = 0 THEN 0 ELSE g[i - 1] + t[i]]
           h == [i \in 1 .. TransferSlots |-> [a \in Int |-> a + t[i]]]
           sum == CHOOSE g : IsSum(g)
<1>1. TransferSlots \in Nat
  BY CircuitConstants
<1>2. h \in [1 .. TransferSlots -> [Int -> Int]]
  OBVIOUS
<1>3. \A a \in Int, i \in 1 .. TransferSlots : h[i][a] = a + t[i]
  OBVIOUS
<1> HIDE DEF h
<1>4. PICK g \in [0 .. TransferSlots -> Int] :
        g[0] = 0 /\ \A i \in 1 .. TransferSlots : g[i] = h[i][g[i - 1]]
  <2> DEFINE S == Int
             c == 0
  <2>1. c \in S
    OBVIOUS
  <2>2. h \in [1 .. TransferSlots -> [S -> S]]
    BY <1>2
  <2> HIDE DEF S, c
  <2>3. \E g \in [0 .. TransferSlots -> S] :
          g[0] = c /\ \A i \in 1 .. TransferSlots : g[i] = h[i][g[i - 1]]
    BY ONLY <1>1, <2>1, <2>2, RecursionDefined
  <2> QED BY <2>3 DEF S, c
<1>5. IsSum(g)
  <2>1. ASSUME NEW i \in 1 .. TransferSlots PROVE g[i] = g[i - 1] + t[i]
    <3>1. i - 1 \in 0 .. TransferSlots /\ g[i] = h[i][g[i - 1]]
      BY <1>1, <1>4
    <3> QED BY <1>3, <3>1
  <2> QED BY <1>4, <2>1
<1>6. IsSum(sum)
  BY <1>5
<1>7. Total(t) = sum[TransferSlots]
  BY DEF Total
<1> HIDE DEF sum
<1>8. sum[0] = 0 /\ \A i \in 1 .. TransferSlots : sum[i] = sum[i - 1] + t[i]
  BY <1>1, <1>6
<1> QED BY <1>7, <1>8

\* The same for the sums in the field, and Accumulated.
LEMMA AccumulatedDefined ==
  ASSUME NEW t, t \in [1 .. TransferSlots -> Field]
  PROVE  \E accum : /\ accum[0] = 0
                    /\ \A i \in 1 .. TransferSlots :
                         accum[i] = (accum[i - 1] + t[i]) % FieldOrder
                    /\ Accumulated(t) = accum[TransferSlots]
<1> DEFINE IsAccum(g) == g = [i \in 0 .. TransferSlots |->
                                IF i = 0 THEN 0 ELSE (g[i - 1] + t[i]) % FieldOrder]
           h == [i \in 1 .. TransferSlots |-> [a \in Field |-> (a + t[i]) % FieldOrder]]
           accum == CHOOSE g : IsAccum(g)
<1>1. TransferSlots \in Nat
  BY CircuitConstants
<1>2. FieldOrder \in Nat /\ 0 < FieldOrder
  <2>1. TransferSlots * AmountLimit \in Nat
    BY CircuitConstants
  <2> QED BY <2>1, CircuitConstants
<1>3. h \in [1 .. TransferSlots -> [Field -> Field]]
  <2>1. ASSUME NEW v \in Nat PROVE v % FieldOrder \in Field
    BY <1>2 DEF Field
  <2>2. \A a \in Field, i \in 1 .. TransferSlots : a + t[i] \in Nat
    BY <1>2 DEF Field
  <2> QED BY <2>1, <2>2
<1>4. \A a \in Field, i \in 1 .. TransferSlots : h[i][a] = (a + t[i]) % FieldOrder
  OBVIOUS
<1>5. 0 \in Field
  BY <1>2 DEF Field
<1> HIDE DEF h
<1>6. PICK g \in [0 .. TransferSlots -> Field] :
        g[0] = 0 /\ \A i \in 1 .. TransferSlots : g[i] = h[i][g[i - 1]]
  <2> DEFINE c == 0
  <2>1. c \in Field
    BY <1>5
  <2> HIDE DEF c
  <2>2. \E g \in [0 .. TransferSlots -> Field] :
          g[0] = c /\ \A i \in 1 .. TransferSlots : g[i] = h[i][g[i - 1]]
    BY ONLY <1>1, <1>3, <2>1, RecursionDefined
  <2> QED BY <2>2 DEF c
<1>7. IsAccum(g)
  <2>1. ASSUME NEW i \in 1 .. TransferSlots
        PROVE  g[i] = (g[i - 1] + t[i]) % FieldOrder
    <3>1. i - 1 \in 0 .. TransferSlots /\ g[i] = h[i][g[i - 1]]
      BY <1>1, <1>6
    <3> QED BY <1>4, <1>6, <3>1
  <2> QED BY <1>6, <2>1
<1>8. IsAccum(accum)
  BY <1>7
<1>9. Accumulated(t) = accum[TransferSlots]
  BY DEF Accumulated
<1> HIDE DEF accum
<1> QED BY <1>1, <1>8, <1>9

\* However many of the slots are used, ranged transfers add up in the field to
\* what they add up to over the integers: the last sum is far from wrapping.
THEOREM FieldSumIsTotal ==
  ASSUME NEW t, t \in [1 .. TransferSlots -> Field], RangedTransfers(t)
  PROVE  /\ Accumulated(t) = Total(t)
         /\ Total(t) \in Nat /\ Total(t) <= TransferSlots * AmountLimit
<1>1. /\ TransferSlots \in Nat /\ AmountLimit \in Nat /\ FieldOrder \in Nat
      /\ TransferSlots * AmountLimit \in Nat
      /\ TransferSlots * AmountLimit + 2 * AmountLimit <= FieldOrder
      /\ 0 < AmountLimit
  BY CircuitConstants
<1>2. \A i \in 1 .. TransferSlots : t[i] \in Nat /\ t[i] < AmountLimit
  BY <1>1 DEF RangedTransfers, Num2Bits64, Field
<1>3. PICK sum : /\ sum[0] = 0
                 /\ \A i \in 1 .. TransferSlots : sum[i] = sum[i - 1] + t[i]
                 /\ Total(t) = sum[TransferSlots]
  <2>1. t \in [1 .. TransferSlots -> Int]
    BY <1>2
  <2> QED BY <2>1, TotalDefined
<1>4. PICK accum : /\ accum[0] = 0
                   /\ \A i \in 1 .. TransferSlots :
                        accum[i] = (accum[i - 1] + t[i]) % FieldOrder
                   /\ Accumulated(t) = accum[TransferSlots]
  BY AccumulatedDefined
<1> DEFINE D == {m \in Nat : m <= TransferSlots =>
                   sum[m] \in Nat /\ sum[m] <= m * AmountLimit /\ accum[m] = sum[m]}
<1>5. 0 \in D
  BY <1>1, <1>3, <1>4
<1>6. ASSUME NEW m \in Nat, m \in D PROVE m + 1 \in D
  <2> SUFFICES ASSUME m + 1 <= TransferSlots
               PROVE  /\ sum[m + 1] \in Nat /\ sum[m + 1] <= (m + 1) * AmountLimit
                      /\ accum[m + 1] = sum[m + 1]
    OBVIOUS
  <2>1. m + 1 \in 1 .. TransferSlots /\ (m + 1) - 1 = m
    BY <1>1
  <2>2. sum[m] \in Nat /\ sum[m] <= m * AmountLimit /\ accum[m] = sum[m]
    BY <1>1, <1>6
  <2>3. /\ sum[m + 1] = sum[m] + t[m + 1]
        /\ accum[m + 1] = (sum[m] + t[m + 1]) % FieldOrder
        /\ t[m + 1] \in Nat /\ t[m + 1] < AmountLimit
    BY <1>2, <1>3, <1>4, <2>1, <2>2
  <2>4. (m + 1) * AmountLimit = m * AmountLimit + AmountLimit
    BY <1>1
  <2>5. m * AmountLimit \in Nat /\ (m + 1) * AmountLimit <= TransferSlots * AmountLimit
    BY <1>1
  <2> DEFINE total == sum[m] + t[m + 1]
             before == m * AmountLimit
             after == (m + 1) * AmountLimit
             most == TransferSlots * AmountLimit
  <2>6. total \in Nat /\ total <= after /\ total < FieldOrder
    <3>1. /\ before \in Nat /\ after = before + AmountLimit /\ after <= most
          /\ most \in Nat /\ most + 2 * AmountLimit <= FieldOrder
          /\ sum[m] \in Nat /\ sum[m] <= before
          /\ AmountLimit \in Nat /\ FieldOrder \in Nat /\ 0 < AmountLimit
      BY <1>1, <2>2, <2>4, <2>5
    <3>2. t[m + 1] \in Nat /\ t[m + 1] < AmountLimit
      BY <2>3
    <3> HIDE DEF before, after, most
    <3> QED BY <3>1, <3>2
  <2>7. total % FieldOrder = total
    BY <2>6, SmallModulus
  <2> QED BY <2>3, <2>6, <2>7
<1>7. Nat \subseteq D
  <2> HIDE DEF D
  <2> QED BY <1>5, <1>6, SetInduction
<1>8. TransferSlots \in D
  BY <1>1, <1>7
<1> QED BY <1>1, <1>3, <1>4, <1>8

-----------------------------------------------------------------------------
\* What the completion circuit says of its signals, whatever ceiling they name:
\* the net amount is the sum of the transfers over the integers, and no more
\* than that ceiling.
THEOREM CompletionIsWithinCeiling ==
  ASSUME NEW s, s.transfers \in [1 .. TransferSlots -> Field],
         s.maxNotional \in Field, VeilCompletionProof(s)
  PROVE  s.netAmount = Total(s.transfers) /\ Total(s.transfers) <= s.maxNotional
<1>1. /\ RangedTransfers(s.transfers) /\ s.netAmount = Accumulated(s.transfers)
      /\ LessEqThan65(s.netAmount, s.maxNotional)
  BY DEF VeilCompletionProof
<1> DEFINE net == Total(s.transfers)
<1>2. s.netAmount = net /\ net \in Nat /\ net <= TransferSlots * AmountLimit
  BY <1>1, FieldSumIsTotal
<1>3. s.maxNotional \in Nat
  BY CircuitConstants DEF Field
<1> HIDE DEF net
<1>4. net <= s.maxNotional
  BY <1>1, <1>2, <1>3, ComparatorIsSound
<1> QED BY <1>2, <1>4 DEF net

-----------------------------------------------------------------------------
(* What the agents hold. *)

HandleOK(id, s) ==
  /\ s.sessionId = id /\ s.agentSk \in SecretKeys /\ s.agentSalt = Salt
  /\ s.epoch \in Epochs /\ s.maxNotional \in Notionals
  /\ s.peerCommitment = Poseidon(<<PeerKey, Salt>>)
  /\ s.sessionRoot = RootFor(id, s.epoch, s.agentSk)

\* The net amount a bundle commits to is the integer sum of its transfers, one a
\* caller may pass, within the ceiling the proof names.
BundleOK(id, p) ==
  /\ p.nullifierHash = HashFor(id, handles[id].agentSk)
  /\ Total(p.transfers) \in TransferValues \cup NetValues
  /\ Total(p.transfers) <= p.maxNotional
  /\ p.netCommit = Poseidon(<<Total(p.transfers), Salt>>)

\* A handle holds what it was opened with; a bundle is for its own session.
\* Nothing is said of the accounts, which anybody may have filled in.
HandlesSound == \A id \in DOMAIN handles : id \in SessionIds /\ HandleOK(id, handles[id])
BundlesSound == \A id \in DOMAIN bundles : id \in DOMAIN handles /\ BundleOK(id, bundles[id])
SInv == IInv /\ HandlesSound /\ BundlesSound

LEMMA InitSInv == SettlementInit => SInv
BY InitIInv DEF SettlementInit, SInv, HandlesSound, BundlesSound, NoAccounts

\* The arguments an agent calls the program with are among those the program's
\* own specification considers.
LEMMA HandleArguments ==
  ASSUME SInv, NEW id \in DOMAIN handles
  PROVE  /\ handles[id].sessionRoot \in Roots /\ handles[id].peerCommitment \in Peers
         /\ handles[id].maxNotional \in Notionals /\ handles[id].epoch \in Epochs
BY SettlementConstants DEF SInv, HandlesSound, HandleOK

LEMMA BundleArguments ==
  ASSUME SInv, NEW id \in DOMAIN bundles
  PROVE  /\ handles[id].sessionRoot \in Roots
         /\ bundles[id].nullifierHash \in Hashes /\ bundles[id].netCommit \in Commits
<1>1. /\ id \in SessionIds /\ id \in DOMAIN handles /\ handles[id].agentSk \in SecretKeys
      /\ bundles[id].nullifierHash = HashFor(id, handles[id].agentSk)
      /\ Total(bundles[id].transfers) \in TransferValues \cup NetValues
      /\ bundles[id].netCommit = Poseidon(<<Total(bundles[id].transfers), Salt>>)
  BY DEF SInv, BundlesSound, BundleOK, HandlesSound, HandleOK
<1> QED BY <1>1, SettlementConstants, HandleArguments

\* The two ways a step can go: an agent proves, or somebody calls the session
\* program, or the clock moves on, and the agents keep what they hold.
ProvesStep ==
  \E id \in SessionIds :
    \/ \E sk \in SecretKeys, max \in Ceilings, epoch \in Epochs :
         openSession(id, sk, max, epoch)
    \/ \E transfers \in [1 .. TransferSlots -> Field],
          net \in TransferValues \cup NetValues, max \in Field :
         generateCompletionProof(id, transfers, net, max)

LEMMA StepKinds ==
  ASSUME SInv, [SettlementNext]_allVars
  PROVE  ProvesStep \/ ([Next]_vars /\ UNCHANGED agentVars)
<1>1. ASSUME NEW id \in SessionIds, NEW attestation \in Digests, OpenOnChain(id, attestation)
      PROVE  Next /\ UNCHANGED agentVars
  BY <1>1, HandleArguments DEF OpenOnChain, Next
<1>2. ASSUME NEW id \in SessionIds, NEW attestation \in Digests, CloseOnChain(id, attestation)
      PROVE  Next /\ UNCHANGED agentVars
  BY <1>2, BundleArguments DEF CloseOnChain, Next
<1>3. ASSUME NEW attestation \in Digests, OtherOpens(attestation) \/ OtherCloses(attestation)
      PROVE  Next /\ UNCHANGED agentVars
  BY <1>3 DEF OtherOpens, OtherCloses, Next
<1>4. ASSUME NextSlot, UNCHANGED agentVars PROVE Next /\ UNCHANGED agentVars
  BY <1>4 DEF Next
<1>5. ASSUME NEW id \in SessionIds, NEW amount \in TransferValues, proveTransfer(id, amount)
      PROVE  ProvesStep
  <2> DEFINE transfers == [i \in 1 .. TransferSlots |-> IF i = 1 THEN amount ELSE 0]
  <2>1. amount \in Field /\ 0 \in Field
    BY SettlementConstants, CircuitConstants DEF Field
  <2>2. transfers \in [1 .. TransferSlots -> Field]
    BY <2>1
  <2>3. /\ id \in DOMAIN handles
        /\ generateCompletionProof(id, transfers, amount, handles[id].maxNotional)
    BY <1>5 DEF proveTransfer
  <2> HIDE DEF transfers
  <2>4. handles[id].maxNotional \in Field
    <3>1. handles[id].maxNotional \in 0 .. AmountLimit - 1
      BY <2>3, HandleArguments, SettlementConstants DEF U64
    <3>2. /\ AmountLimit \in Nat /\ FieldOrder \in Nat
          /\ TransferSlots * AmountLimit \in Nat
          /\ TransferSlots * AmountLimit + 2 * AmountLimit <= FieldOrder
      BY CircuitConstants
    <3> QED BY <3>1, <3>2 DEF Field
  <2> QED BY <2>2, <2>3, <2>4 DEF ProvesStep
<1>6. ASSUME NEW id \in SessionIds, NEW transfers \in [1 .. TransferSlots -> TransferValues],
             NEW net \in NetValues, NEW max \in Ceilings,
             generateCompletionProof(id, transfers, net, max)
      PROVE  ProvesStep
  <2>1. transfers \in [1 .. TransferSlots -> Field] /\ max \in Field
    BY SettlementConstants
  <2> QED BY <1>6, <2>1 DEF ProvesStep
<1>7. ASSUME NEW id \in SessionIds, NEW sk \in SecretKeys, NEW max \in Ceilings,
             NEW epoch \in Epochs, openSession(id, sk, max, epoch)
      PROVE  ProvesStep
  BY <1>7 DEF ProvesStep
<1>8. CASE UNCHANGED allVars
  BY <1>8 DEF allVars
<1> QED BY <1>1, <1>2, <1>3, <1>4, <1>5, <1>6, <1>7, <1>8 DEF SettlementNext

\* What the agents do off chain is invisible to the program, and all they and
\* everybody else do on chain the program's specification allows.
LEMMA ProgramStep == SInv /\ [SettlementNext]_allVars => [Next]_vars
<1>1. ProvesStep => UNCHANGED vars
  BY DEF ProvesStep, openSession, generateCompletionProof
<1> QED BY <1>1, StepKinds

-----------------------------------------------------------------------------
LEMMA OpenSessionSInv ==
  ASSUME SInv, IInv', NEW id \in SessionIds, NEW sk \in SecretKeys, NEW max \in Ceilings,
         NEW epoch \in Epochs, openSession(id, sk, max, epoch)
  PROVE  SInv'
<1> DEFINE in == [agentSk |-> sk, agentSalt |-> Salt, peerPubKey |-> PeerKey,
                  peerSalt |-> Salt, sessionId |-> id, registryEpoch |-> epoch,
                  maxNotional |-> max]
           s == [sessionRoot |-> AuthSignals(in).sessionRoot,
                 peerCommitment |-> AuthSignals(in).peerCommitment, maxNotional |-> max,
                 epoch |-> epoch, sessionId |-> id, agentSk |-> sk, agentSalt |-> Salt]
<1>1. /\ id \notin DOMAIN handles /\ VeilAuthProof(AuthSignals(in))
      /\ handles' = Put(handles, id, s)
      /\ bundles' = bundles
  BY DEF openSession
<1>2. AuthSignals(in).sessionRoot = RootFor(id, epoch, sk)
  BY DEF AuthSignals, RootFor, SessionRootOf, AgentCommitment
<1>3. AuthSignals(in).peerCommitment = Poseidon(<<PeerKey, Salt>>)
      /\ AuthSignals(in).maxNotional = max
  BY DEF AuthSignals
<1>4. max \in Notionals
  <2>1. max \in Field /\ max < AmountLimit
    BY <1>1, <1>3, SettlementConstants DEF VeilAuthProof, Num2Bits64
  <2>2. AmountLimit \in Nat /\ FieldOrder \in Nat
    BY CircuitConstants
  <2> QED BY <2>1, <2>2, SettlementConstants DEF Field, U64
<1>5. HandleOK(id, s)
  BY <1>2, <1>3, <1>4 DEF HandleOK
<1> HIDE DEF s
<1>6. /\ DOMAIN handles' = DOMAIN handles \cup {id} /\ handles'[id] = s
      /\ \A x \in DOMAIN handles : handles'[x] = handles[x]
  BY <1>1 DEF Put
<1>7. HandlesSound'
  BY <1>5, <1>6 DEF SInv, HandlesSound, HandleOK
<1>8. BundlesSound'
  BY <1>1, <1>6 DEF SInv, BundlesSound, BundleOK
<1> QED BY <1>7, <1>8 DEF SInv

LEMMA GenerateSInv ==
  ASSUME SInv, IInv', NEW id \in SessionIds, NEW transfers \in [1 .. TransferSlots -> Field],
         NEW net \in TransferValues \cup NetValues, NEW max \in Field,
         generateCompletionProof(id, transfers, net, max)
  PROVE  SInv'
<1> DEFINE in == CompletionInput(handles[id], transfers, net, max)
           s == CompletionSignals(in)
           p == [nullifierHash |-> s.nullifierHash, netCommit |-> s.netCommit,
                 maxNotional |-> s.maxNotional, transfers |-> transfers]
<1>1. /\ id \in DOMAIN handles /\ bundles' = Put(bundles, id, p) /\ VeilCompletionProof(s)
      /\ handles' = handles
  BY DEF generateCompletionProof
<1>2. HandleOK(id, handles[id])
  BY <1>1 DEF SInv, HandlesSound
<1>3. /\ in.sessionId = id /\ in.agentSk = handles[id].agentSk
      /\ in.netAmount = net /\ in.netSalt = Salt /\ in.transfers = transfers
      /\ in.maxNotional = max
  BY <1>2 DEF CompletionInput, HandleOK
<1> HIDE DEF in
<1>4. /\ s.nullifierHash = HashFor(id, handles[id].agentSk)
      /\ s.netCommit = Poseidon(<<net, Salt>>) /\ s.netAmount = net
      /\ s.transfers = transfers /\ s.maxNotional = max
  BY <1>3 DEF CompletionSignals, HashFor, NullifierOf
<1> HIDE DEF s
<1>5. Total(transfers) = net /\ Total(transfers) <= max
  BY <1>1, <1>4, CompletionIsWithinCeiling
<1>6. BundleOK(id, p)
  BY <1>4, <1>5 DEF BundleOK
<1> HIDE DEF p
<1>7. /\ DOMAIN bundles' = DOMAIN bundles \cup {id}
      /\ \A x \in DOMAIN bundles' : bundles'[x] = IF x = id THEN p ELSE bundles[x]
  BY <1>1 DEF Put
<1>8. BundlesSound'
  BY <1>1, <1>6, <1>7 DEF SInv, BundlesSound, BundleOK
<1>9. HandlesSound'
  BY <1>1 DEF SInv, HandlesSound, HandleOK
<1> QED BY <1>8, <1>9 DEF SInv

LEMMA NextSInv == SInv /\ [SettlementNext]_allVars => SInv'
<1> SUFFICES ASSUME SInv, [SettlementNext]_allVars PROVE SInv'
  OBVIOUS
<1>1. IInv'
  BY ProgramStep, NextIInv DEF SInv
<1>2. CASE ProvesStep
  BY <1>1, <1>2, OpenSessionSInv, GenerateSInv DEF ProvesStep
<1>3. CASE UNCHANGED agentVars
  BY <1>1, <1>3 DEF agentVars, SInv, HandlesSound, HandleOK, BundlesSound, BundleOK
<1> QED BY <1>2, <1>3, StepKinds

-----------------------------------------------------------------------------
\* Agents, their proofs and all other callers together implement the session
\* program on its own: every theorem about it holds of the composition.
THEOREM SettlementImplementsSession == SettlementSpec => Spec
<1>1. SettlementInit => Init
  BY DEF SettlementInit
<1> QED BY <1>1, InitSInv, NextSInv, ProgramStep, PTL DEF SettlementSpec, Spec

\* An agent's closing burns the nullifier of the session it closes and of no
\* other of its proofs, whether or not its sessions share their secret key.
THEOREM ClosingsStayApart == SettlementSpec => OwnClosingsStayApart
<1> DEFINE Apart(x) ==
      \A id \in DOMAIN bundles :
        bundles[id].nullifierHash \in DOMAIN nullifiers' \ DOMAIN nullifiers =>
          nullifiers'[bundles[id].nullifierHash].session_root = handles[id].sessionRoot
<1>1. ASSUME SInv, NEW x \in SessionIds, NEW attestation \in Digests,
             CloseOnChain(x, attestation)
      PROVE  Apart(x)
  <2> DEFINE r == handles[x].sessionRoot
             h == bundles[x].nullifierHash
  <2>1. x \in DOMAIN bundles /\ close_session(r, h, bundles[x].netCommit, attestation)
    BY <1>1 DEF CloseOnChain
  <2>2. r \in Roots /\ h \in Hashes /\ bundles[x].netCommit \in Commits
    BY <1>1, <2>1, BundleArguments
  <2>3. \A y \in DOMAIN bundles :
          y \in SessionIds /\ bundles[y].nullifierHash = HashFor(y, handles[y].agentSk)
    BY <1>1 DEF SInv, BundlesSound, BundleOK, HandlesSound
  <2>4. \A y \in DOMAIN bundles : bundles[y].nullifierHash = h => y = x
    <3>1. ASSUME NEW y \in DOMAIN bundles, bundles[y].nullifierHash = h PROVE y = x
      <4>1. <<y, handles[y].agentSk>> = <<x, handles[x].agentSk>>
        BY <2>1, <2>3, <3>1 DEF HashFor, NullifierOf, Poseidon
      <4> QED BY <4>1
    <3> QED BY <3>1
  <2> HIDE DEF r, h
  <2>5. ClosesWith(r, h, sessions'[r])
    BY <1>1, <2>1, <2>2, CloseEffect DEF SInv
  <2>6. DOMAIN nullifiers' = DOMAIN nullifiers \cup {h} /\ nullifiers'[h].session_root = r
    BY <2>5 DEF ClosesWith
  <2> QED BY <2>4, <2>6 DEF r, h
<1>2. SInv /\ [SettlementNext]_allVars =>
        [\A x \in SessionIds, attestation \in Digests :
           CloseOnChain(x, attestation) => Apart(x)]_allVars
  BY <1>1
<1> QED BY <1>2, InitSInv, NextSInv, PTL DEF SettlementSpec, OwnClosingsStayApart

\* A closed account that agrees with a completion proof of its session, on the
\* ceiling and on the net commitment, commits to the integer sum of the
\* transfers, and to no more than that ceiling: no sum wraps in the field and no
\* comparison is fooled, whoever opened and closed which sessions meanwhile.
THEOREM SettlementsWithinCeilings == SettlementSpec => []SettledWithinCeiling
<1>1. SInv => SettledWithinCeiling
  BY DEF SInv, BundlesSound, BundleOK, SettledWithinCeiling
<1> QED BY <1>1, InitSInv, NextSInv, PTL DEF SettlementSpec

\* An honest agent can always settle: of any amounts of 64 bits that add up to
\* no more than its ceiling, as many as the circuit has slots, a proof exists.
THEOREM CeilingsAreReachable == SettlementSpec => []CeilingIsReachable
<1>1. SInv => CeilingIsReachable
  <2> SUFFICES ASSUME SInv, NEW id \in DOMAIN handles,
                      NEW t, t \in [1 .. TransferSlots -> TransferValues \cap U64],
                      Total(t) <= handles[id].maxNotional
               PROVE  VeilCompletionProof(CompletionSignals(CompletionInput(
                        handles[id], t, Total(t), handles[id].maxNotional)))
    BY DEF CeilingIsReachable
  <2> DEFINE max == handles[id].maxNotional
             net == Total(t)
             in == CompletionInput(handles[id], t, net, max)
             s == CompletionSignals(in)
  <2>1. HandleOK(id, handles[id])
    BY DEF SInv, HandlesSound
  <2>2. AmountLimit \in Nat /\ max \in Nat /\ max < AmountLimit
    BY <2>1, SettlementConstants, CircuitConstants DEF HandleOK, U64
  <2>3. t \in [1 .. TransferSlots -> Field]
    BY SettlementConstants
  <2>4. RangedTransfers(t)
    <3>1. \A v \in U64 : v < AmountLimit
      BY <2>2, SettlementConstants DEF U64
    <3> QED BY <3>1 DEF RangedTransfers, Num2Bits64
  <2> HIDE DEF net
  <2>5. Accumulated(t) = net /\ net \in Nat /\ net <= TransferSlots * AmountLimit
    BY <2>3, <2>4, FieldSumIsTotal DEF net
  <2>6. LessEqThan65(net, max)
    <3>1. net <= max
      BY DEF net
    <3> HIDE DEF max
    <3> QED BY <2>2, <2>5, <3>1, ComparatorIsExact
  <2>7. /\ in.sessionId = id /\ in.agentSk = handles[id].agentSk /\ in.agentSalt = Salt
        /\ in.registryEpoch = handles[id].epoch
        /\ in.sessionRoot = RootFor(id, handles[id].epoch, handles[id].agentSk)
        /\ in.transfers = t /\ in.netAmount = net /\ in.maxNotional = max
    BY <2>1 DEF CompletionInput, HandleOK
  <2> HIDE DEF in, max
  <2>8. /\ s.transfers = t /\ s.netAmount = net /\ s.maxNotional = max
        /\ s.nullifierHash = NullifierOf(s)
        /\ s.netCommit = Poseidon(<<s.netAmount, s.netSalt>>)
    BY <2>7 DEF CompletionSignals, NullifierOf
  <2>9. SessionRootOf(s) = s.sessionRoot
    BY <2>7 DEF CompletionSignals, SessionRootOf, AgentCommitment, RootFor
  <2> HIDE DEF s
  <2>10. VeilCompletionProof(s)
    BY <2>4, <2>5, <2>6, <2>8, <2>9 DEF VeilCompletionProof
  <2> QED BY <2>10 DEF s, in, net, max
<1> QED BY <1>1, InitSInv, NextSInv, PTL DEF SettlementSpec

=============================================================================
