------------------------- MODULE RecentProofsProofs -------------------------
(***************************************************************************)
(* Theorems of RecentProofs, for any number of tabs and runs and a list of *)
(* any length: the list in localStorage is that of the additions, every    *)
(* tab comes to show it, an outcome is final, a proof has one row unless   *)
(* its outcome is not known, and a button is disabled by a run of its tab. *)
(***************************************************************************)
EXTENDS RecentProofs, SequenceTheorems, TLAPS

-----------------------------------------------------------------------------
(* The inductive invariant. *)

Entries == [id : Proofs, signed : BOOLEAN,
            status : {"submitting", "local", "submitted", "failed"}]

Shapes ==
  /\ store \in Seq(Entries) /\ views \in [Tabs -> Seq(Entries)]
  /\ events \subseteq Tabs /\ unsaved \subseteq Tabs
  /\ recorded \in Seq(Proofs)
  /\ landed \subseteq Proofs /\ chain \in [Tabs -> SUBSET landed]

RunsTyped ==
  /\ DOMAIN runs \subseteq Proofs
  /\ runs \in [DOMAIN runs -> [tab : Tabs, awaits : {"prover", "wallet"}]]
  /\ button \in [Tabs -> Proofs \cup {None}]

\* What StoreIsNewest says, position by position.
StoreIsRecorded ==
  /\ Len(store) = IF Len(recorded) <= MaxEntries THEN Len(recorded) ELSE MaxEntries
  /\ \A i \in 1 .. Len(store) : store[i].id = recorded[Len(recorded) + 1 - i]

\* A run is recorded once, after its prover and before its transaction.
RecordedOnce ==
  /\ \A i, j \in 1 .. Len(recorded) : recorded[i] = recorded[j] => i = j
  /\ \A p \in Awaiting("prover") :
       p \notin landed /\ \A i \in 1 .. Len(recorded) : recorded[i] # p

\* An entry is signed when it was submitted; a local one never reached a cluster.
EntriesSound ==
  \A i \in 1 .. Len(store) :
    /\ store[i].signed <=> store[i].status = "submitted"
    /\ store[i].status = "local" => store[i].id \notin landed

IInv ==
  /\ Shapes /\ RunsTyped
  /\ StoreIsRecorded /\ RecordedOnce /\ EntriesSound
  /\ SubmittingIsAwaited
  /\ ViewIsCurrent
  /\ ButtonHasARun

-----------------------------------------------------------------------------
(* The lists that are written. *)

LEMMA MinOfTwo ==
  ASSUME NEW a \in Nat, NEW b \in Nat
  PROVE  Min({a, b}) = IF a <= b THEN a ELSE b
<1> DEFINE m == IF a <= b THEN a ELSE b
<1>1. m \in {a, b} /\ \A y \in {a, b} : m <= y
  OBVIOUS
<1>2. \A x \in {a, b} : (\A y \in {a, b} : x <= y) => x = m
  OBVIOUS
<1> QED BY <1>1, <1>2 DEF Min

LEMMA NewestOf ==
  ASSUME NEW S, NEW s \in Seq(S)
  PROVE  /\ Newest(s) \in Seq(S)
         /\ Len(Newest(s)) = IF Len(s) <= MaxEntries THEN Len(s) ELSE MaxEntries
         /\ \A i \in 1 .. Len(Newest(s)) : i \in 1 .. Len(s) /\ Newest(s)[i] = s[i]
<1> DEFINE n == IF Len(s) <= MaxEntries THEN Len(s) ELSE MaxEntries
<1>1. Len(s) \in Nat /\ n \in Nat /\ n <= Len(s) /\ MaxEntries \in Nat
  BY LenProperties, EntriesAssumption
<1>2. Newest(s) = SubSeq(s, 1, n)
  BY <1>1, MinOfTwo DEF Newest
<1>3. \A i \in 1 .. n : s[i] \in S
  BY <1>1, ElementOfSeq
<1>4. /\ SubSeq(s, 1, n) \in Seq(S)
      /\ Len(SubSeq(s, 1, n)) = IF 1 <= n THEN n - 1 + 1 ELSE 0
      /\ \A i \in 1 .. n - 1 + 1 : SubSeq(s, 1, n)[i] = s[1 + i - 1]
  BY <1>1, <1>3, SubSeqProperties
<1>5. Len(SubSeq(s, 1, n)) = n
  BY <1>1, <1>4
<1>6. \A i \in 1 .. n : i \in 1 .. Len(s) /\ SubSeq(s, 1, n)[i] = s[i]
  BY <1>1, <1>4
<1> QED BY <1>2, <1>4, <1>5, <1>6

\* addRecentProof: the entry in front, the others behind it, the oldest cut off.
LEMMA AddedIs ==
  ASSUME NEW t, NEW entry \in Entries, store \in Seq(Entries)
  PROVE  /\ Added(t, entry) \in Seq(Entries)
         /\ Len(Added(t, entry)) =
              IF Len(store) + 1 <= MaxEntries THEN Len(store) + 1 ELSE MaxEntries
         /\ \A i \in 1 .. Len(Added(t, entry)) :
              /\ i = 1 => Added(t, entry)[i] = entry
              /\ i # 1 => i - 1 \in 1 .. Len(store) /\ Added(t, entry)[i] = store[i - 1]
<1> DEFINE s == <<entry>> \o store
<1>1. <<entry>> \in Seq(Entries) /\ Len(<<entry>>) = 1 /\ <<entry>>[1] = entry
  OBVIOUS
<1>2. Len(store) \in Nat
  BY LenProperties
<1>3. /\ s \in Seq(Entries) /\ Len(s) = 1 + Len(store)
      /\ \A i \in 1 .. 1 + Len(store) : s[i] = IF i <= 1 THEN <<entry>>[i] ELSE store[i - 1]
  BY <1>1, ConcatProperties
<1> HIDE DEF s, Entries
<1>4. /\ Newest(s) \in Seq(Entries)
      /\ Len(Newest(s)) = IF Len(s) <= MaxEntries THEN Len(s) ELSE MaxEntries
      /\ \A i \in 1 .. Len(Newest(s)) : i \in 1 .. Len(s) /\ Newest(s)[i] = s[i]
  BY <1>3, NewestOf
<1>5. Added(t, entry) = Newest(s)
  BY DEF Added, s
<1>6. ASSUME NEW i \in 1 .. Len(Newest(s))
      PROVE  /\ i = 1 => Newest(s)[i] = entry
             /\ i # 1 => i - 1 \in 1 .. Len(store) /\ Newest(s)[i] = store[i - 1]
  BY <1>1, <1>2, <1>3, <1>4
<1> QED BY <1>2, <1>3, <1>4, <1>5, <1>6

\* updateRecentProof: the entries in their places, that of p with its outcome.
LEMMA UpdatedIs ==
  ASSUME NEW t, NEW p, NEW ok \in BOOLEAN, store \in Seq(Entries)
  PROVE  /\ Updated(t, p, ok) \in Seq(Entries)
         /\ Len(Updated(t, p, ok)) = Len(store)
         /\ \A i \in 1 .. Len(store) :
              /\ Updated(t, p, ok)[i].id = store[i].id
              /\ store[i].id # p => Updated(t, p, ok)[i] = store[i]
              /\ store[i].id = p =>
                   /\ Updated(t, p, ok)[i].signed = ok
                   /\ Updated(t, p, ok)[i].status = IF ok THEN "submitted" ELSE "failed"
<1> DEFINE u == Updated(t, p, ok)
<1>1. Len(store) \in Nat /\ DOMAIN store = 1 .. Len(store)
  BY LenProperties
<1>2. \A i \in 1 .. Len(store) : store[i] \in Entries
  BY ElementOfSeq
<1>3. u = [i \in 1 .. Len(store) |->
             IF store[i].id = p THEN Patched(store[i], ok) ELSE store[i]]
  BY <1>1 DEF Updated
<1>4. ASSUME NEW e \in Entries
      PROVE  /\ Patched(e, ok) \in Entries /\ Patched(e, ok).id = e.id
             /\ Patched(e, ok).signed = ok
             /\ Patched(e, ok).status = IF ok THEN "submitted" ELSE "failed"
  BY DEF Patched, Entries
<1>5. u \in [1 .. Len(store) -> Entries]
  BY <1>2, <1>3, <1>4
<1>6. u \in Seq(Entries) /\ Len(u) = Len(store)
  BY <1>1, <1>5
<1> QED BY <1>2, <1>3, <1>4, <1>6

\* Ids are those of the additions, so no two entries share one.
LEMMA IdsDiffer ==
  ASSUME IInv, NEW i \in 1 .. Len(store), NEW j \in 1 .. Len(store), store[i].id = store[j].id
  PROVE  i = j
<1>1. Len(recorded) \in Nat /\ Len(store) \in Nat /\ Len(store) <= Len(recorded)
  BY LenProperties, EntriesAssumption DEF IInv, Shapes, StoreIsRecorded
<1>2. Len(recorded) + 1 - i \in 1 .. Len(recorded) /\ Len(recorded) + 1 - j \in 1 .. Len(recorded)
  BY <1>1
<1>3. recorded[Len(recorded) + 1 - i] = recorded[Len(recorded) + 1 - j]
  BY DEF IInv, StoreIsRecorded
<1>4. Len(recorded) + 1 - i = Len(recorded) + 1 - j
  BY <1>2, <1>3 DEF IInv, RecordedOnce
<1> QED BY <1>1, <1>4

\* A run that has not recorded has no entry.
LEMMA NoEntryYet ==
  ASSUME IInv, NEW p, \A i \in 1 .. Len(recorded) : recorded[i] # p
  PROVE  \A i \in 1 .. Len(store) : store[i].id # p
<1>1. Len(recorded) \in Nat /\ Len(store) \in Nat /\ Len(store) <= Len(recorded)
  BY LenProperties, EntriesAssumption DEF IInv, Shapes, StoreIsRecorded
<1>2. \A i \in 1 .. Len(store) : Len(recorded) + 1 - i \in 1 .. Len(recorded)
  BY <1>1
<1> QED BY <1>2 DEF IInv, StoreIsRecorded

\* StoreIsRecorded says what StoreIsNewest says.
LEMMA RecordedIsNewest == IInv => StoreIsNewest
<1> SUFFICES ASSUME IInv PROVE StoreIsNewest
  OBVIOUS
<1> DEFINE n == Len(recorded)
           r == Reverse(recorded)
<1>1. n \in Nat /\ Len(store) \in Nat /\ DOMAIN store = 1 .. Len(store) /\ MaxEntries \in Nat
  BY LenProperties, EntriesAssumption DEF IInv, Shapes
<1>2. r = [i \in 1 .. n |-> recorded[n - i + 1]]
  BY DEF Reverse
<1>3. \A i \in 1 .. n : recorded[n - i + 1] \in Proofs
  <2>1. \A i \in 1 .. n : n - i + 1 \in 1 .. n
    BY <1>1
  <2> QED BY <2>1, ElementOfSeq DEF IInv, Shapes
<1>4. r \in Seq(Proofs) /\ Len(r) = n
  BY <1>1, <1>2, <1>3
<1>5. /\ Newest(r) \in Seq(Proofs)
      /\ Len(Newest(r)) = IF n <= MaxEntries THEN n ELSE MaxEntries
      /\ \A i \in 1 .. Len(Newest(r)) : i \in 1 .. n /\ Newest(r)[i] = r[i]
  BY <1>4, NewestOf
<1>6. Len(Newest(r)) = Len(store) /\ DOMAIN Newest(r) = 1 .. Len(store)
  BY <1>5, LenProperties DEF IInv, StoreIsRecorded
<1>7. ASSUME NEW i \in 1 .. Len(store) PROVE Newest(r)[i] = store[i].id
  <2>1. i \in 1 .. n /\ Newest(r)[i] = recorded[n - i + 1]
    BY <1>2, <1>5, <1>6
  <2>2. n - i + 1 = n + 1 - i
    BY <1>1
  <2> QED BY <2>1, <2>2 DEF IInv, StoreIsRecorded
<1>8. Newest(r) = [i \in 1 .. Len(store) |-> Newest(r)[i]]
  BY <1>5, <1>6, LenProperties
<1> QED BY <1>1, <1>7, <1>8 DEF StoreIsNewest

-----------------------------------------------------------------------------
(* Every step keeps the invariant. *)

LEMMA InitIInv == Init => IInv
<1> SUFFICES ASSUME Init PROVE IInv
  OBVIOUS
<1> USE DEF Init
<1>1. <<>> \in Seq(Entries) /\ <<>> \in Seq(Proofs) /\ Len(<<>>) = 0 /\ MaxEntries \in Nat
  BY EmptySeq, EntriesAssumption
<1>2. DOMAIN runs = {} /\ DOMAIN store = {}
  OBVIOUS
<1>3. Shapes /\ StoreIsRecorded
  BY <1>1 DEF Shapes, StoreIsRecorded
<1>4. RunsTyped
  BY <1>2 DEF RunsTyped
<1>5. RecordedOnce /\ EntriesSound
  BY <1>1, <1>2 DEF RecordedOnce, EntriesSound, Awaiting
<1>6. SubmittingIsAwaited /\ ViewIsCurrent /\ ButtonHasARun
  BY <1>2 DEF SubmittingIsAwaited, ViewIsCurrent, ButtonHasARun
<1> QED BY <1>3, <1>4, <1>5, <1>6 DEF IInv

\* A tab shows what it wrote; the other tabs are told of what was stored.
LEMMA WriteShows ==
  ASSUME IInv, NEW t \in Tabs, NEW entries \in Seq(Entries), NEW taken \in BOOLEAN,
         Write(t, entries, taken)
  PROVE  /\ store' = IF taken THEN entries ELSE store
         /\ views' \in [Tabs -> Seq(Entries)] /\ events' \subseteq Tabs /\ unsaved' \subseteq Tabs
         /\ ViewIsCurrent'
<1>1. store' = IF taken THEN entries ELSE store
  BY DEF Write
<1>2. /\ views \in [Tabs -> Seq(Entries)] /\ events \subseteq Tabs /\ unsaved \subseteq Tabs
      /\ views' = [views EXCEPT ![t] = entries]
  BY DEF Write, IInv, Shapes
<1>3. views' \in [Tabs -> Seq(Entries)] /\ events' \subseteq Tabs /\ unsaved' \subseteq Tabs
  BY <1>2 DEF Write
<1>4. ASSUME NEW u \in Tabs, u \notin events', u \notin unsaved'
      PROVE  views'[u] = store'
  <2>1. CASE taken
    <3>1. store' = entries /\ events' = (IF entries = store THEN events ELSE events \cup (Tabs \ {t}))
      BY <2>1 DEF Write
    <3>2. CASE u = t
      BY <1>2, <3>1, <3>2
    <3>3. CASE u # t
      <4>1. entries = store /\ u \notin events /\ u \notin unsaved
        BY <1>4, <2>1, <3>1, <3>3 DEF Write
      <4> QED BY <1>2, <3>1, <3>3, <4>1 DEF IInv, ViewIsCurrent
    <3> QED BY <3>2, <3>3
  <2>2. CASE ~taken
    <3>1. u # t /\ u \notin events /\ u \notin unsaved /\ store' = store
      BY <1>4, <2>2 DEF Write
    <3> QED BY <1>2, <3>1 DEF IInv, ViewIsCurrent
  <2> QED BY <2>1, <2>2
<1>5. ViewIsCurrent'
  BY <1>4 DEF ViewIsCurrent
<1> QED BY <1>1, <1>3, <1>5

\* What a run awaits, and that of which tab, after p is over.
LEMMA RunOver ==
  ASSUME RunsTyped, ButtonHasARun, NEW p \in DOMAIN runs, runs' = Without(p), button' = Freed(p)
  PROVE  /\ RunsTyped' /\ ButtonHasARun' /\ DOMAIN runs' = DOMAIN runs \ {p}
         /\ \A q \in DOMAIN runs \ {p} : runs'[q] = runs[q]
<1>1. DOMAIN runs' = DOMAIN runs \ {p} /\ \A q \in DOMAIN runs \ {p} : runs'[q] = runs[q]
  BY DEF Without
<1>2. \A t \in Tabs : button'[t] = IF button[t] = p THEN None ELSE button[t]
  BY DEF Freed
<1>3. RunsTyped'
  <2>1. button' \in [Tabs -> Proofs \cup {None}]
    BY DEF Freed, RunsTyped
  <2>2. runs' \in [DOMAIN runs' -> [tab : Tabs, awaits : {"prover", "wallet"}]]
    BY DEF Without, RunsTyped
  <2> QED BY <1>1, <2>1, <2>2 DEF RunsTyped
<1>4. ButtonHasARun'
  BY <1>1, <1>2 DEF ButtonHasARun
<1> QED BY <1>1, <1>3, <1>4

\* The run goes from its prover to its wallet.
LEMMA RunGoesOn ==
  ASSUME RunsTyped, ButtonHasARun, NEW p \in DOMAIN runs,
         runs' = [runs EXCEPT ![p].awaits = "wallet"], UNCHANGED button
  PROVE  /\ RunsTyped' /\ ButtonHasARun' /\ DOMAIN runs' = DOMAIN runs
         /\ runs'[p].awaits = "wallet"
         /\ \A q \in DOMAIN runs \ {p} : runs'[q] = runs[q]
<1>1. /\ runs' \in [DOMAIN runs -> [tab : Tabs, awaits : {"prover", "wallet"}]]
      /\ runs'[p].awaits = "wallet" /\ runs'[p].tab = runs[p].tab
      /\ \A q \in DOMAIN runs \ {p} : runs'[q] = runs[q]
  BY DEF RunsTyped
<1>2. DOMAIN runs' = DOMAIN runs
  BY <1>1
<1>3. RunsTyped'
  BY <1>1, <1>2 DEF RunsTyped
<1>4. ButtonHasARun'
  BY <1>1, <1>2 DEF ButtonHasARun
<1> QED BY <1>1, <1>2, <1>3, <1>4

LEMMA RecordIInv ==
  ASSUME IInv, NEW p \in Proofs, NEW connected \in BOOLEAN, Record(p, connected)
  PROVE  IInv'
<1> DEFINE status == IF connected THEN "submitting" ELSE "local"
           entry == [id |-> p, signed |-> FALSE, status |-> status]
           t == runs[p].tab
           added == Added(t, entry)
<1>1. PICK taken \in BOOLEAN :
        /\ Write(t, added, taken)
        /\ recorded' = IF taken THEN Append(recorded, p) ELSE recorded
        /\ abandoned' = IF taken THEN abandoned ELSE abandoned \cup {p}
  BY DEF Record
<1>2. entry \in Entries
  BY DEF Entries
<1>3. p \in DOMAIN runs /\ runs[p].awaits = "prover" /\ t \in Tabs
  BY DEF Record, Awaiting, IInv, RunsTyped
<1>4. /\ store \in Seq(Entries) /\ recorded \in Seq(Proofs)
      /\ Len(store) \in Nat /\ Len(recorded) \in Nat /\ MaxEntries \in Nat \ {0}
  BY LenProperties, EntriesAssumption DEF IInv, Shapes
<1>5. /\ entry.id = p /\ entry.signed = FALSE /\ entry.status = status
  OBVIOUS
<1> HIDE DEF entry, added, t
<1>6. /\ added \in Seq(Entries)
      /\ Len(added) = IF Len(store) + 1 <= MaxEntries THEN Len(store) + 1 ELSE MaxEntries
      /\ \A i \in 1 .. Len(added) :
           /\ i = 1 => added[i] = entry
           /\ i # 1 => i - 1 \in 1 .. Len(store) /\ added[i] = store[i - 1]
  BY <1>2, <1>4, AddedIs DEF added
<1>7. /\ store' = IF taken THEN added ELSE store
      /\ views' \in [Tabs -> Seq(Entries)] /\ events' \subseteq Tabs /\ unsaved' \subseteq Tabs
      /\ ViewIsCurrent'
  BY <1>1, <1>3, <1>6, WriteShows
<1>8. /\ Append(recorded, p) \in Seq(Proofs) /\ Len(Append(recorded, p)) = Len(recorded) + 1
      /\ \A i \in 1 .. Len(recorded) : Append(recorded, p)[i] = recorded[i]
      /\ Append(recorded, p)[Len(recorded) + 1] = p
  BY <1>4, AppendProperties
<1>9. p \notin landed /\ \A i \in 1 .. Len(recorded) : recorded[i] # p
  BY <1>3 DEF IInv, RecordedOnce, Awaiting
<1>10. UNCHANGED <<landed, chain>>
  BY DEF Record
<1>11. /\ RunsTyped' /\ ButtonHasARun'
       /\ \A q \in DOMAIN runs \ {p} : q \in DOMAIN runs' /\ runs'[q] = runs[q]
       /\ DOMAIN runs' \subseteq DOMAIN runs
       /\ connected => p \in DOMAIN runs' /\ runs'[p].awaits = "wallet"
       /\ ~connected => p \notin DOMAIN runs'
  <2>1. CASE connected
    BY <1>3, <2>1, RunGoesOn DEF Record, IInv
  <2>2. CASE ~connected
    BY <1>3, <2>2, RunOver DEF Record, IInv
  <2> QED BY <2>1, <2>2
<1>12. Shapes'
  BY <1>1, <1>4, <1>6, <1>7, <1>8, <1>10 DEF IInv, Shapes
<1>13. StoreIsRecorded'
  <2>1. CASE taken
    <3>1. Len(store') = IF Len(recorded') <= MaxEntries THEN Len(recorded') ELSE MaxEntries
      BY <1>1, <1>4, <1>6, <1>7, <1>8, <2>1 DEF IInv, StoreIsRecorded
    <3>2. ASSUME NEW i \in 1 .. Len(store')
          PROVE  store'[i].id = recorded'[Len(recorded') + 1 - i]
      <4>1. CASE i = 1
        BY <1>1, <1>4, <1>5, <1>6, <1>7, <1>8, <2>1, <4>1
      <4>2. CASE i # 1
        <5>1. i - 1 \in 1 .. Len(store) /\ store'[i] = store[i - 1]
          BY <1>6, <1>7, <2>1, <4>2
        <5>2. store[i - 1].id = recorded[Len(recorded) + 1 - (i - 1)]
          BY <5>1 DEF IInv, StoreIsRecorded
        <5>3. /\ Len(recorded) + 1 - (i - 1) = Len(recorded') + 1 - i
              /\ Len(recorded') + 1 - i \in 1 .. Len(recorded)
          BY <1>1, <1>4, <1>8, <2>1, <4>2, <5>1 DEF IInv, StoreIsRecorded
        <5> QED BY <1>1, <1>8, <2>1, <5>1, <5>2, <5>3
      <4> QED BY <4>1, <4>2
    <3> QED BY <3>1, <3>2 DEF StoreIsRecorded
  <2>2. CASE ~taken
    BY <1>1, <1>7, <2>2 DEF IInv, StoreIsRecorded
  <2> QED BY <2>1, <2>2
<1>14. RecordedOnce'
  <2>1. \A i, j \in 1 .. Len(recorded') : recorded'[i] = recorded'[j] => i = j
    BY <1>1, <1>4, <1>8, <1>9 DEF IInv, RecordedOnce
  <2>2. ASSUME NEW q \in Awaiting("prover")'
        PROVE  q \notin landed' /\ \A i \in 1 .. Len(recorded') : recorded'[i] # q
    <3>1. q # p /\ q \in Awaiting("prover")
      BY <1>11 DEF Awaiting
    <3> QED BY <1>1, <1>4, <1>8, <1>10, <3>1 DEF IInv, RecordedOnce
  <2> QED BY <2>1, <2>2 DEF RecordedOnce
<1>15. EntriesSound'
  <2>1. ASSUME taken, NEW i \in 1 .. Len(added)
        PROVE  /\ added[i].signed <=> added[i].status = "submitted"
               /\ added[i].status = "local" => added[i].id \notin landed
    BY <1>5, <1>6, <1>9 DEF IInv, EntriesSound
  <2> QED BY <1>7, <1>10, <2>1 DEF IInv, EntriesSound
<1>16. SubmittingIsAwaited'
  <2> SUFFICES ASSUME NEW i \in 1 .. Len(store')
               PROVE  IF store'[i].status = "submitting"
                      THEN store'[i].id \in Awaiting("wallet")' \cup abandoned'
                      ELSE store'[i].id \notin DOMAIN runs'
    BY <1>12, LenProperties DEF Shapes, SubmittingIsAwaited
  <2>1. \A q : q # p => (q \in Awaiting("wallet") => q \in Awaiting("wallet")')
    BY <1>11 DEF Awaiting
  <2>2. abandoned \subseteq abandoned' /\ DOMAIN store = 1 .. Len(store)
    BY <1>1, <1>4, LenProperties
  <2>3. ASSUME NEW j \in 1 .. Len(store)
        PROVE  IF store[j].status = "submitting"
               THEN store[j].id \in Awaiting("wallet")' \cup abandoned'
               ELSE store[j].id \notin DOMAIN runs'
    <3>1. store[j].id # p
      BY <1>9, NoEntryYet
    <3> QED BY <1>11, <2>1, <2>2, <3>1 DEF IInv, SubmittingIsAwaited
  <2>4. CASE store'[i] = entry
    BY <1>5, <1>11, <2>4 DEF Awaiting
  <2>5. store'[i] = entry \/ \E j \in 1 .. Len(store) : store'[i] = store[j]
    BY <1>6, <1>7
  <2> QED BY <2>3, <2>4, <2>5
<1> QED BY <1>7, <1>11, <1>12, <1>13, <1>14, <1>15, <1>16 DEF IInv

LEMMA SettleIInv ==
  ASSUME IInv, NEW p \in Proofs, NEW ok \in BOOLEAN, Settle(p, ok)
  PROVE  IInv'
<1> DEFINE t == runs[p].tab
           updated == Updated(t, p, ok)
<1>1. PICK taken \in BOOLEAN :
        /\ Write(t, updated, taken)
        /\ abandoned' = IF taken THEN abandoned ELSE abandoned \cup {p}
  BY DEF Settle
<1>2. p \in DOMAIN runs /\ runs[p].awaits = "wallet" /\ t \in Tabs /\ (ok => p \in landed)
  BY DEF Settle, Awaiting, IInv, RunsTyped
<1>3. store \in Seq(Entries) /\ Len(store) \in Nat /\ DOMAIN store = 1 .. Len(store)
  BY LenProperties DEF IInv, Shapes
<1> HIDE DEF updated, t
<1>4. /\ updated \in Seq(Entries) /\ Len(updated) = Len(store)
      /\ \A i \in 1 .. Len(store) :
           /\ updated[i].id = store[i].id
           /\ store[i].id # p => updated[i] = store[i]
           /\ store[i].id = p =>
                /\ updated[i].signed = ok
                /\ updated[i].status = IF ok THEN "submitted" ELSE "failed"
  BY <1>3, UpdatedIs DEF updated
<1>5. /\ store' = IF taken THEN updated ELSE store
      /\ views' \in [Tabs -> Seq(Entries)] /\ events' \subseteq Tabs /\ unsaved' \subseteq Tabs
      /\ ViewIsCurrent'
  BY <1>1, <1>2, <1>4, WriteShows
<1>6. UNCHANGED <<landed, chain, recorded>> /\ abandoned \subseteq abandoned'
  BY <1>1 DEF Settle
<1>7. /\ RunsTyped' /\ ButtonHasARun' /\ DOMAIN runs' = DOMAIN runs \ {p}
      /\ \A q \in DOMAIN runs \ {p} : runs'[q] = runs[q]
  BY <1>2, RunOver DEF Settle, IInv
<1>8. Len(store') = Len(store) /\ store' \in Seq(Entries) /\ DOMAIN store' = 1 .. Len(store)
  BY <1>3, <1>4, <1>5, LenProperties
<1>9. Shapes' /\ StoreIsRecorded'
  BY <1>4, <1>5, <1>6, <1>8 DEF IInv, Shapes, StoreIsRecorded
<1>10. RecordedOnce'
  BY <1>6, <1>7 DEF IInv, RecordedOnce, Awaiting
<1>11. EntriesSound'
  <2> SUFFICES ASSUME NEW i \in 1 .. Len(store)
               PROVE  /\ store'[i].signed <=> store'[i].status = "submitted"
                      /\ store'[i].status = "local" => store'[i].id \notin landed
    BY <1>6, <1>8 DEF EntriesSound
  <2>1. CASE store'[i] = store[i]
    BY <2>1 DEF IInv, EntriesSound
  <2>2. CASE store'[i] # store[i]
    BY <1>4, <1>5, <2>2
  <2> QED BY <2>1, <2>2
<1>12. SubmittingIsAwaited'
  <2> SUFFICES ASSUME NEW i \in 1 .. Len(store)
               PROVE  IF store'[i].status = "submitting"
                      THEN store'[i].id \in Awaiting("wallet")' \cup abandoned'
                      ELSE store'[i].id \notin DOMAIN runs'
    BY <1>8 DEF SubmittingIsAwaited
  <2>1. IF store[i].status = "submitting"
        THEN store[i].id \in Awaiting("wallet") \cup abandoned
        ELSE store[i].id \notin DOMAIN runs
    BY <1>3 DEF IInv, SubmittingIsAwaited
  <2>2. \A q : q # p => (q \in Awaiting("wallet") => q \in Awaiting("wallet")')
    BY <1>7 DEF Awaiting
  <2>3. CASE store[i].id # p
    BY <1>4, <1>5, <1>6, <1>7, <2>1, <2>2, <2>3
  <2>4. CASE store[i].id = p /\ taken
    <3>1. store'[i].id = p /\ store'[i].status # "submitting"
      BY <1>4, <1>5, <2>4
    <3> QED BY <1>7, <3>1
  <2>5. CASE store[i].id = p /\ ~taken
    <3>1. store'[i] = store[i] /\ p \in abandoned'
      BY <1>1, <1>5, <2>5
    <3> QED BY <1>7, <2>1, <2>5, <3>1
  <2> QED BY <2>3, <2>4, <2>5
<1> QED BY <1>5, <1>7, <1>9, <1>10, <1>11, <1>12 DEF IInv

\* A run begins whose id was in no list and on no chain.
LEMMA RunIInv ==
  ASSUME IInv, NEW t \in Tabs, NEW p \in Proofs, Run(t, p)
  PROVE  IInv'
<1>1. /\ UNCHANGED <<store, views, events, unsaved, landed, chain, recorded, abandoned>>
      /\ p \notin DOMAIN runs /\ p \notin landed
      /\ button' = [button EXCEPT ![t] = p] /\ button[t] = None
  BY DEF Run, Fresh
<1>2. \A i \in 1 .. Len(recorded) : recorded[i] # p
  BY LenProperties DEF Run, Fresh, IInv, Shapes
<1>3. runs' = [q \in DOMAIN runs \cup {p} |->
                IF q = p THEN [tab |-> t, awaits |-> "prover"] ELSE runs[q]]
  BY DEF Run
<1>4. /\ DOMAIN runs' = DOMAIN runs \cup {p}
      /\ runs'[p] = [tab |-> t, awaits |-> "prover"]
      /\ \A q \in DOMAIN runs : runs'[q] = runs[q]
  BY <1>1, <1>3
<1>5. RunsTyped'
  <2>1. runs' \in [DOMAIN runs' -> [tab : Tabs, awaits : {"prover", "wallet"}]]
    BY <1>3, <1>4 DEF IInv, RunsTyped
  <2> QED BY <1>1, <1>4, <2>1 DEF IInv, RunsTyped
<1>6. Shapes' /\ StoreIsRecorded' /\ EntriesSound' /\ ViewIsCurrent'
  BY <1>1 DEF IInv, Shapes, StoreIsRecorded, EntriesSound, ViewIsCurrent
<1>7. RecordedOnce'
  BY <1>1, <1>2, <1>4 DEF IInv, RecordedOnce, Awaiting
<1>8. SubmittingIsAwaited'
  <2>1. \A i \in DOMAIN store : store[i].id # p
    BY <1>2, NoEntryYet, LenProperties DEF IInv, Shapes
  <2>2. Awaiting("wallet") \subseteq Awaiting("wallet")'
    BY <1>4 DEF Awaiting
  <2> QED BY <1>1, <1>4, <2>1, <2>2 DEF IInv, SubmittingIsAwaited
<1>9. ButtonHasARun'
  BY <1>1, <1>4 DEF IInv, ButtonHasARun, RunsTyped
<1> QED BY <1>5, <1>6, <1>7, <1>8, <1>9 DEF IInv

LEMMA ProverFailsIInv ==
  ASSUME IInv, NEW p \in Proofs, ProverFails(p)
  PROVE  IInv'
<1>1. /\ UNCHANGED <<store, views, events, unsaved, landed, chain, recorded>>
      /\ abandoned' = abandoned \cup {p} /\ p \in DOMAIN runs /\ runs[p].awaits = "prover"
  BY DEF ProverFails, Awaiting
<1>2. /\ RunsTyped' /\ ButtonHasARun' /\ DOMAIN runs' = DOMAIN runs \ {p}
      /\ \A q \in DOMAIN runs \ {p} : runs'[q] = runs[q]
  BY <1>1, RunOver DEF ProverFails, IInv
<1>3. Shapes' /\ StoreIsRecorded' /\ EntriesSound' /\ ViewIsCurrent'
  BY <1>1 DEF IInv, Shapes, StoreIsRecorded, EntriesSound, ViewIsCurrent
<1>4. RecordedOnce'
  BY <1>1, <1>2 DEF IInv, RecordedOnce, Awaiting
<1>5. SubmittingIsAwaited'
  <2>1. Awaiting("wallet") \subseteq Awaiting("wallet")'
    BY <1>1, <1>2 DEF Awaiting
  <2> QED BY <1>1, <1>2, <2>1 DEF IInv, SubmittingIsAwaited
<1> QED BY <1>2, <1>3, <1>4, <1>5 DEF IInv

\* A transaction of a run that still awaits it: no local entry is of that run.
LEMMA LandIInv ==
  ASSUME IInv, NEW p \in Proofs, Land(p)
  PROVE  IInv'
<1>1. /\ UNCHANGED <<store, views, events, unsaved, runs, button, chain, recorded, abandoned>>
      /\ landed' = landed \cup {p} /\ p \in DOMAIN runs /\ runs[p].awaits = "wallet"
  BY DEF Land, Awaiting
<1>2. Shapes' /\ StoreIsRecorded'
  BY <1>1 DEF IInv, Shapes, StoreIsRecorded
<1>3. EntriesSound'
  <2>1. ASSUME NEW i \in 1 .. Len(store), store[i].status = "local" PROVE store[i].id # p
    BY <1>1, <2>1, LenProperties DEF IInv, Shapes, SubmittingIsAwaited
  <2> QED BY <1>1, <2>1 DEF IInv, EntriesSound
<1>4. RecordedOnce'
  BY <1>1 DEF IInv, RecordedOnce, Awaiting
<1>5. RunsTyped' /\ SubmittingIsAwaited' /\ ViewIsCurrent' /\ ButtonHasARun'
  BY <1>1 DEF IInv, RunsTyped, SubmittingIsAwaited, ViewIsCurrent, ButtonHasARun, Awaiting
<1> QED BY <1>2, <1>3, <1>4, <1>5 DEF IInv

\* A page is left, an event arrives, the chain is polled: runs and list stay.
LEMMA PageIInv ==
  ASSUME IInv, NEW t \in Tabs, Leave(t) \/ OnStorage(t) \/ \E a \in BOOLEAN : Poll(t, a)
  PROVE  IInv'
<1>1. UNCHANGED <<store, runs, landed, recorded, abandoned>>
  BY DEF Leave, OnStorage, Poll
<1>2. /\ button' \in [Tabs -> Proofs \cup {None}]
      /\ \A u \in Tabs : button'[u] = None \/ button'[u] = button[u]
  BY DEF Leave, OnStorage, Poll, IInv, RunsTyped
<1>3. chain' \in [Tabs -> SUBSET landed]
  BY DEF Leave, OnStorage, Poll, IInv, Shapes
<1>4. /\ views' \in [Tabs -> Seq(Entries)] /\ events' \subseteq Tabs /\ unsaved' \subseteq Tabs
      /\ ViewIsCurrent'
  BY DEF Leave, OnStorage, Poll, IInv, Shapes, ViewIsCurrent
<1>5. Shapes' /\ StoreIsRecorded'
  BY <1>1, <1>3, <1>4 DEF IInv, Shapes, StoreIsRecorded
<1>6. RunsTyped' /\ ButtonHasARun'
  BY <1>1, <1>2 DEF IInv, RunsTyped, ButtonHasARun
<1>7. RecordedOnce' /\ EntriesSound' /\ SubmittingIsAwaited'
  BY <1>1 DEF IInv, RecordedOnce, EntriesSound, SubmittingIsAwaited, Awaiting
<1> QED BY <1>4, <1>5, <1>6, <1>7 DEF IInv

\* A tab goes with its runs; the entries they leave behind are abandoned.
LEMMA ReloadIInv ==
  ASSUME IInv, NEW t \in Tabs, Reload(t)
  PROVE  IInv'
<1> DEFINE lost == {p \in DOMAIN runs : runs[p].tab = t}
<1>1. /\ runs' = [p \in DOMAIN runs \ lost |-> runs[p]]
      /\ abandoned' = abandoned \cup lost
      /\ button' = [button EXCEPT ![t] = None]
      /\ UNCHANGED <<store, landed, recorded>>
  BY DEF Reload
<1>2. DOMAIN runs' = DOMAIN runs \ lost /\ \A p \in DOMAIN runs \ lost : runs'[p] = runs[p]
  BY <1>1
<1>3. chain' \in [Tabs -> SUBSET landed]
  BY DEF Reload, IInv, Shapes
<1>4. /\ views' \in [Tabs -> Seq(Entries)] /\ events' \subseteq Tabs /\ unsaved' \subseteq Tabs
      /\ ViewIsCurrent'
  BY DEF Reload, InitialPush, IInv, Shapes, ViewIsCurrent
<1>5. Shapes' /\ StoreIsRecorded' /\ EntriesSound'
  BY <1>1, <1>3, <1>4 DEF IInv, Shapes, StoreIsRecorded, EntriesSound
<1>6. RunsTyped'
  <2>1. runs' \in [DOMAIN runs' -> [tab : Tabs, awaits : {"prover", "wallet"}]]
    BY <1>1, <1>2 DEF IInv, RunsTyped
  <2> QED BY <1>1, <1>2, <2>1 DEF IInv, RunsTyped
<1>7. RecordedOnce'
  BY <1>1, <1>2 DEF IInv, RecordedOnce, Awaiting
<1>8. SubmittingIsAwaited'
  <2>1. Awaiting("wallet") \subseteq Awaiting("wallet")' \cup abandoned'
    BY <1>1, <1>2 DEF Awaiting
  <2> QED BY <1>1, <1>2, <2>1 DEF IInv, SubmittingIsAwaited
<1>9. ButtonHasARun'
  <2> SUFFICES ASSUME NEW u \in Tabs, button'[u] # None
               PROVE  button'[u] \in DOMAIN runs' /\ runs'[button'[u]].tab = u
    BY DEF ButtonHasARun
  <2>1. u # t /\ button'[u] = button[u]
    BY <1>1 DEF IInv, RunsTyped
  <2> QED BY <1>2, <2>1 DEF IInv, ButtonHasARun
<1> QED BY <1>4, <1>5, <1>6, <1>7, <1>8, <1>9 DEF IInv

LEMMA NextIInv == IInv /\ [Next]_vars => IInv'
<1> SUFFICES ASSUME IInv, [Next]_vars PROVE IInv'
  OBVIOUS
<1>1. CASE \E t \in Tabs, p \in Proofs : Run(t, p)
  BY <1>1, RunIInv
<1>2. CASE \E t \in Tabs : Leave(t) \/ OnStorage(t) \/ \E a \in BOOLEAN : Poll(t, a)
  BY <1>2, PageIInv
<1>3. CASE \E t \in Tabs : Reload(t)
  BY <1>3, ReloadIInv
<1>4. CASE \E p \in Proofs : ProverFails(p)
  BY <1>4, ProverFailsIInv
<1>5. CASE \E p \in Proofs : Land(p)
  BY <1>5, LandIInv
<1>6. CASE \E p \in Proofs, connected \in BOOLEAN : Record(p, connected)
  BY <1>6, RecordIInv
<1>7. CASE \E p \in Proofs, ok \in BOOLEAN : Settle(p, ok)
  BY <1>7, SettleIInv
<1>8. CASE UNCHANGED vars
  BY <1>8 DEF vars, IInv, Shapes, RunsTyped, StoreIsRecorded, RecordedOnce, EntriesSound,
       SubmittingIsAwaited, ViewIsCurrent, ButtonHasARun, Awaiting
<1> QED BY <1>1, <1>2, <1>3, <1>4, <1>5, <1>6, <1>7, <1>8 DEF Next

-----------------------------------------------------------------------------
LEMMA RecentInvariant == Spec => []IInv
<1>1. Init => IInv
  BY InitIInv
<1>2. IInv /\ [Next]_vars => IInv'
  BY NextIInv
<1> QED BY <1>1, <1>2, PTL DEF Spec

\* However tabs interleave their additions and updates (recentProofs.ts read and
\* write), the storage holds the entries added last, in the order of addition.
THEOREM NoAdditionIsLost == Spec => []StoreIsNewest
<1>1. IInv => StoreIsNewest
  BY RecordedIsNewest
<1> QED BY <1>1, RecentInvariant, PTL

\* A tab shows what is stored unless a storage event is on its way to it or its
\* own write was refused (recentProofs.ts subscribe).
THEOREM ViewsCatchUp == Spec => []ViewIsCurrent
<1>1. IInv => ViewIsCurrent
  BY DEF IInv
<1> QED BY <1>1, RecentInvariant, PTL

\* An entry says `submitting' while a tab awaits the outcome, or nobody will ever
\* store it (submitDemoProof.ts).
THEOREM SubmittingHasItsRun == Spec => []SubmittingIsAwaited
<1>1. IInv => SubmittingIsAwaited
  BY DEF IInv
<1> QED BY <1>1, RecentInvariant, PTL

\* Whatever fails, a button is disabled only by a run of its own tab that goes on.
THEOREM ButtonsComeFree == Spec => []ButtonHasARun
<1>1. IInv => ButtonHasARun
  BY DEF IInv
<1> QED BY <1>1, RecentInvariant, PTL

\* The dashboard's merge (mergeRows) shows a proof twice only where the list does
\* not know the outcome, or has it as failed.
THEOREM ProofsHaveOneRow == Spec => []OneRowPerProof
<1>1. IInv => OneRowPerProof
  <2> SUFFICES ASSUME IInv, NEW t \in Tabs, t \notin events, t \notin unsaved,
                      NEW i \in DOMAIN views[t],
                      views[t][i].id \in mergeRows(views[t], chain[t]).onChain
               PROVE  \/ views[t][i].id \in Awaiting("wallet") \cup abandoned
                      \/ views[t][i].status = "failed"
    BY DEF OneRowPerProof, mergeRows
  <2>1. views[t] = store
    BY DEF IInv, ViewIsCurrent
  <2>2. store \in Seq(Entries) /\ i \in 1 .. Len(store) /\ i \in DOMAIN store
    BY <2>1, LenProperties DEF IInv, Shapes
  <2>3. store[i] \in Entries
    BY <2>2, ElementOfSeq
  <2>4. store[i].id \in landed /\ ~store[i].signed
    BY <2>1, <2>2 DEF mergeRows, IInv, Shapes
  <2>5. store[i].status = "submitting" \/ store[i].status = "failed"
    BY <2>2, <2>3, <2>4 DEF IInv, EntriesSound, Entries
  <2> QED BY <2>1, <2>2, <2>5 DEF IInv, SubmittingIsAwaited
<1> QED BY <1>1, RecentInvariant, PTL

LEMMA StepIsFinal == IInv /\ [Next]_vars => [FinalStep]_vars
<1> SUFFICES ASSUME IInv, [Next]_vars PROVE FinalStep
  OBVIOUS
<1>1. store \in Seq(Entries) /\ Len(store) \in Nat /\ DOMAIN store = 1 .. Len(store)
  BY LenProperties DEF IInv, Shapes
<1>2. CASE store' = store
  BY <1>1, <1>2, IdsDiffer DEF FinalStep
<1>3. ASSUME NEW p \in Proofs, NEW connected \in BOOLEAN, Record(p, connected), store' # store
      PROVE  FinalStep
  <2> DEFINE entry == [id |-> p, signed |-> FALSE,
                       status |-> IF connected THEN "submitting" ELSE "local"]
             added == Added(runs[p].tab, entry)
  <2>1. entry \in Entries /\ entry.id = p
    BY DEF Entries
  <2>2. store' = added
    BY <1>3 DEF Record, Write
  <2> HIDE DEF entry
  <2>3. /\ added \in Seq(Entries)
        /\ \A i \in 1 .. Len(added) :
             /\ i = 1 => added[i] = entry
             /\ i # 1 => i - 1 \in 1 .. Len(store) /\ added[i] = store[i - 1]
    BY <1>1, <2>1, AddedIs
  <2>4. DOMAIN added = 1 .. Len(added)
    BY <2>3, LenProperties
  <2> HIDE DEF added
  <2>5. \A i \in 1 .. Len(recorded) : recorded[i] # p
    BY <1>3 DEF Record, IInv, RecordedOnce
  <2>6. \A i \in 1 .. Len(store) : store[i].id # p
    BY <2>5, NoEntryYet
  <2>7. ASSUME NEW i \in DOMAIN store, NEW j \in DOMAIN store', store[i].id = store'[j].id
        PROVE  store'[j] = store[i]
    <3>1. j # 1 /\ j - 1 \in 1 .. Len(store) /\ store'[j] = store[j - 1]
      BY <1>1, <2>1, <2>2, <2>3, <2>4, <2>6, <2>7
    <3>2. j - 1 = i
      BY <1>1, <2>7, <3>1, IdsDiffer
    <3> QED BY <3>1, <3>2
  <2>8. ASSUME NEW j \in DOMAIN store'
        PROVE  \/ \E i \in DOMAIN store : store[i].id = store'[j].id
               \/ \A i \in DOMAIN recorded : recorded[i] # store'[j].id
    <3>1. CASE j = 1
      BY <2>1, <2>2, <2>3, <2>4, <2>5, <3>1, LenProperties DEF IInv, Shapes
    <3>2. CASE j # 1
      BY <1>1, <2>2, <2>3, <2>4, <3>2
    <3> QED BY <3>1, <3>2
  <2> QED BY <2>7, <2>8 DEF FinalStep
<1>4. ASSUME NEW p \in Proofs, NEW ok \in BOOLEAN, Settle(p, ok), store' # store
      PROVE  FinalStep
  <2> DEFINE updated == Updated(runs[p].tab, p, ok)
  <2>1. store' = updated
    BY <1>4 DEF Settle, Write
  <2>2. /\ updated \in Seq(Entries) /\ Len(updated) = Len(store)
        /\ \A i \in 1 .. Len(store) :
             updated[i].id = store[i].id /\ (store[i].id # p => updated[i] = store[i])
    BY <1>1, UpdatedIs
  <2>3. DOMAIN updated = 1 .. Len(store)
    BY <2>2, LenProperties
  <2> HIDE DEF updated
  <2>4. p \in DOMAIN runs
    BY <1>4 DEF Settle, Awaiting
  <2>5. \A i \in DOMAIN store : store[i].id = p => store[i].status = "submitting"
    BY <2>4 DEF IInv, SubmittingIsAwaited
  <2>6. ASSUME NEW i \in DOMAIN store, NEW j \in DOMAIN store', store[i].id = store'[j].id,
               store[i].status # "submitting"
        PROVE  store'[j] = store[i]
    <3>1. j \in 1 .. Len(store) /\ store[j].id = store[i].id
      BY <2>1, <2>2, <2>3, <2>6
    <3>2. i = j
      BY <1>1, <3>1, IdsDiffer
    <3> QED BY <1>1, <2>1, <2>2, <2>5, <2>6, <3>2
  <2> QED BY <1>1, <2>1, <2>2, <2>3, <2>6 DEF FinalStep
<1>5. \/ store' = store
      \/ \E p \in Proofs, connected \in BOOLEAN : Record(p, connected)
      \/ \E p \in Proofs, ok \in BOOLEAN : Settle(p, ok)
  BY DEF Next, vars, Run, ProverFails, Leave, Land, OnStorage, Poll, Reload
<1> QED BY <1>2, <1>3, <1>4, <1>5

\* No later write, of whichever tab, changes a stored outcome, and an entry cut off
\* the list does not come back.
THEOREM OutcomesStay == Spec => OutcomesAreFinal
<1>1. IInv /\ [Next]_vars => [FinalStep]_vars
  BY StepIsFinal
<1>2. Spec => [][FinalStep]_vars
  BY <1>1, RecentInvariant, PTL DEF Spec
<1> QED BY <1>2 DEF OutcomesAreFinal

=============================================================================
