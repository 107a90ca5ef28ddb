--------------------------- MODULE DashboardProofs ---------------------------
(***************************************************************************)
(* Theorems of Dashboard, for any keys, slots, numbers of loads, mounts    *)
(* and failures: no load brings what is older than the display it started  *)
(* from, and what the table and the page say of a key is true of the       *)
(* account as it was read.                                                 *)
(***************************************************************************)
EXTENDS Dashboard, TLAPS

-----------------------------------------------------------------------------
(* The inductive invariant. *)

AllParts == UNION {PartsOf[q] : q \in DOMAIN PartsOf}

Reads == {r \in [state : {"nothing", "failed", "answered"}, at : Nat] :
            r.state # "answered" => r.at = 0}

Load(parts) == [live : BOOLEAN, got : [parts -> Reads], floor : [parts -> Nat]]

ChainTyped ==
  /\ panel \in DOMAIN PartsOf
  /\ slot \in Nat /\ newest \in [AllParts -> Nat]
  /\ \A p \in AllParts : newest[p] <= slot

\* What is on display was answered, and so were the parts a load has by now; a
\* load has nothing older than its floor, which is not newer than any answer to
\* come.
ShownKnown ==
  /\ shown \in [Parts -> Reads]
  /\ \A p \in Parts : shown[p].at <= newest[p]

LoadsKnown ==
  /\ loads \in [DOMAIN loads -> Load(Parts)]
  /\ \A l \in DOMAIN loads : \A p \in Parts :
       /\ loads[l].floor[p] <= newest[p]
       /\ loads[l].got[p].at <= newest[p]
       /\ loads[l].got[p].state = "answered" => loads[l].got[p].at >= loads[l].floor[p]

\* Each account holds the key uploaded last from its first byte on.
Held(accounts, keys) ==
  /\ DOMAIN keys = DOMAIN accounts
  /\ \A t \in DOMAIN accounts :
       /\ keys[t] \in KeyFiles /\ VkLen[keys[t]] <= MaxVkUnits
       /\ accounts[t].bytes_len = VkLen[keys[t]]
       /\ \A u \in 0 .. MaxVkUnits - 1 : u < VkLen[keys[t]] => accounts[t].bytes[u] = keys[t]

HistoryHeld ==
  /\ Held(vks, latest)
  /\ \A v \in 0 .. slot : Held(history[v].vks, history[v].latest)

IInv == ChainTyped /\ ShownKnown /\ LoadsKnown /\ HistoryHeld

-----------------------------------------------------------------------------
(* The parts of a panel and the reads. *)

LEMMA PartsKnown == ChainTyped => Parts \subseteq AllParts
BY DEF ChainTyped, Parts, AllParts

LEMMA ReadsAre ==
  /\ Nothing \in Reads /\ Failed \in Reads
  /\ \A v \in Nat : AnsweredAt(v) \in Reads /\ AnsweredAt(v).at = v
  /\ Nothing.at = 0 /\ Failed.at = 0
  /\ Nothing.state # "answered" /\ Failed.state # "answered"
  /\ \A r \in Reads : r.at \in Nat
  /\ \A r \in Reads : r # Nothing /\ r # Failed => r.state = "answered"
<1>1. \A r \in Reads : r.at \in Nat
  BY DEF Reads
<1>2. \A v \in Nat : AnsweredAt(v) \in Reads /\ AnsweredAt(v).at = v
  BY DEF Reads, AnsweredAt
<1>3. ASSUME NEW r \in Reads, r # Nothing, r # Failed PROVE r.state = "answered"
  <2>1. r = [state |-> r.state, at |-> r.at]
    BY DEF Reads
  <2>2. r.state \in {"nothing", "failed", "answered"} /\ (r.state # "answered" => r.at = 0)
    BY DEF Reads
  <2> QED BY <1>3, <2>1, <2>2 DEF Nothing, Failed
<1>4. Nothing \in Reads /\ Failed \in Reads
  BY DEF Reads, Nothing, Failed
<1>5. /\ Nothing.at = 0 /\ Failed.at = 0
      /\ Nothing.state # "answered" /\ Failed.state # "answered"
  BY DEF Nothing, Failed
<1> QED BY <1>1, <1>2, <1>3, <1>4, <1>5

\* Answers given make the newest ones newer: what was known stays known.
LEMMA KnownStays ==
  ASSUME IInv, UNCHANGED <<panel, shown, loads>>, newest' \in [AllParts -> Nat],
         \A p \in AllParts : newest[p] <= newest'[p]
  PROVE  ShownKnown' /\ LoadsKnown'
<1>1. Parts' = Parts /\ Parts \subseteq AllParts
  BY PartsKnown DEF IInv, Parts
<1>2. newest \in [AllParts -> Nat] /\ shown \in [Parts -> Reads]
  BY DEF IInv, ChainTyped, ShownKnown
<1>3. ShownKnown'
  BY <1>1, <1>2, ReadsAre DEF IInv, ShownKnown
<1>4. LoadsKnown'
  <2> SUFFICES ASSUME NEW l \in DOMAIN loads, NEW p \in Parts
               PROVE  loads[l].floor[p] <= newest'[p] /\ loads[l].got[p].at <= newest'[p]
    BY <1>1 DEF IInv, LoadsKnown
  <2>1. loads[l] \in Load(Parts)
    BY DEF IInv, LoadsKnown
  <2>2. loads[l].floor[p] \in Nat /\ loads[l].got[p].at \in Nat
    BY <2>1, ReadsAre DEF Load
  <2>3. newest[p] \in Nat /\ newest'[p] \in Nat /\ newest[p] <= newest'[p]
    BY <1>1, <1>2
  <2> QED BY <2>2, <2>3 DEF IInv, LoadsKnown
<1> QED BY <1>3, <1>4

\* A load starts with nothing, and the display as its floor.
LEMMA StartedKnown ==
  ASSUME IInv, Started(shown), UNCHANGED <<panel, newest>>
  PROVE  LoadsKnown'
<1>1. Parts' = Parts /\ Parts \subseteq AllParts /\ newest \in [AllParts -> Nat]
  BY PartsKnown DEF IInv, Parts, ChainTyped
<1>2. PICK l \in Free :
        loads' = [m \in DOMAIN loads \cup {l} |->
          IF m # l THEN loads[m]
          ELSE [live |-> TRUE, got |-> [p \in Parts |-> Nothing],
                floor |-> [p \in Parts |-> shown[p].at]]]
  BY DEF Started
<1> DEFINE new == [live |-> TRUE, got |-> [p \in Parts |-> Nothing],
                   floor |-> [p \in Parts |-> shown[p].at]]
<1>3. shown \in [Parts -> Reads]
  BY DEF IInv, ShownKnown
<1>4. new \in Load(Parts)
  BY <1>3, ReadsAre DEF Load
<1>5. \A p \in Parts : /\ new.floor[p] = shown[p].at /\ new.got[p] = Nothing
                       /\ shown[p].at <= newest[p]
  BY DEF IInv, ShownKnown
<1> HIDE DEF new
<1>6. DOMAIN loads' = DOMAIN loads \cup {l}
      /\ \A m \in DOMAIN loads' : loads'[m] = IF m # l THEN loads[m] ELSE new
  BY <1>2 DEF new
<1>7. loads' \in [DOMAIN loads' -> Load(Parts)]
  <2>1. \A m \in DOMAIN loads : loads[m] \in Load(Parts)
    BY DEF IInv, LoadsKnown
  <2>2. \A m \in DOMAIN loads' : loads'[m] \in Load(Parts)
    BY <1>4, <1>6, <2>1
  <2>3. loads' = [m \in DOMAIN loads' |-> loads'[m]]
    BY <1>2, <1>6
  <2> QED BY <2>2, <2>3
<1>8. ASSUME NEW m \in DOMAIN loads', NEW p \in Parts
      PROVE  /\ loads'[m].floor[p] <= newest[p]
             /\ loads'[m].got[p].at <= newest[p]
             /\ loads'[m].got[p].state = "answered" =>
                  loads'[m].got[p].at >= loads'[m].floor[p]
  <2>1. CASE m # l
    BY <1>6, <2>1 DEF IInv, LoadsKnown
  <2>2. CASE m = l
    <3>1. newest[p] \in Nat
      BY <1>1
    <3> QED BY <1>5, <1>6, <2>2, <3>1, ReadsAre
  <2> QED BY <2>1, <2>2
<1> QED BY <1>1, <1>7, <1>8 DEF LoadsKnown

\* One load goes on with one part more, or is over; on the page that part shows.
LEMMA SettlesKnown ==
  ASSUME IInv, NEW l, NEW p, NEW x \in Reads, Settles(l, p, x),
         newest' \in [AllParts -> Nat], \A q \in AllParts : newest[q] <= newest'[q],
         x.at <= newest'[p], x.state = "answered" => x.at >= newest[p]
  PROVE  ShownKnown' /\ LoadsKnown'
<1>1. /\ Parts' = Parts /\ Parts \subseteq AllParts
      /\ newest \in [AllParts -> Nat] /\ shown \in [Parts -> Reads]
      /\ l \in DOMAIN loads /\ p \in Parts
  BY PartsKnown DEF Settles, IInv, Parts, ChainTyped, ShownKnown
<1>2. ShownKnown'
  <2>1. shown' = shown \/ shown' = [shown EXCEPT ![p] = x]
    BY DEF Settles
  <2>2. shown' \in [Parts -> Reads] /\ \A q \in Parts : shown'[q] = shown[q] \/ (q = p /\ shown'[q] = x)
    BY <1>1, <2>1
  <2>3. \A q \in Parts : shown[q].at \in Nat /\ shown[q].at <= newest[q]
                         /\ newest[q] \in Nat /\ newest'[q] \in Nat /\ newest[q] <= newest'[q]
    BY <1>1, ReadsAre DEF IInv, ShownKnown
  <2>4. \A q \in Parts : shown'[q].at <= newest'[q]
    BY <2>2, <2>3
  <2> QED BY <1>1, <2>2, <2>4 DEF ShownKnown
<1>3. ASSUME NEW m \in DOMAIN loads, NEW q \in Parts
      PROVE  /\ loads[m].floor[q] \in Nat /\ loads[m].got[q].at \in Nat
             /\ newest[q] \in Nat /\ newest'[q] \in Nat /\ newest[q] <= newest'[q]
             /\ loads[m].floor[q] <= newest[q] /\ loads[m].got[q].at <= newest[q]
             /\ loads[m].got[q].state = "answered" => loads[m].got[q].at >= loads[m].floor[q]
  <2>1. loads[m] \in Load(Parts)
    BY DEF IInv, LoadsKnown
  <2>2. loads[m].floor[q] \in Nat /\ loads[m].got[q].at \in Nat
    BY <2>1, ReadsAre DEF Load
  <2> QED BY <1>1, <2>2 DEF IInv, LoadsKnown
<1>4. CASE loads' = Without(l)
  <2>1. DOMAIN loads' = DOMAIN loads \ {l} /\ \A m \in DOMAIN loads' : loads'[m] = loads[m]
    BY <1>4 DEF Without
  <2>2. loads' \in [DOMAIN loads' -> Load(Parts)]
    BY <1>4 DEF Without, IInv, LoadsKnown
  <2>3. ASSUME NEW m \in DOMAIN loads', NEW q \in Parts
        PROVE  /\ loads'[m].floor[q] <= newest'[q]
               /\ loads'[m].got[q].at <= newest'[q]
               /\ loads'[m].got[q].state = "answered" =>
                    loads'[m].got[q].at >= loads'[m].floor[q]
    BY <1>3, <2>1
  <2> QED BY <1>1, <1>2, <2>2, <2>3 DEF LoadsKnown
<1>5. CASE loads' = [loads EXCEPT ![l].got[p] = x]
  <2>1. loads[l] \in Load(Parts) /\ loads \in [DOMAIN loads -> Load(Parts)]
    BY <1>1 DEF IInv, LoadsKnown
  <2> DEFINE k == [loads[l] EXCEPT !.got[p] = x]
  <2>2. loads' = [loads EXCEPT ![l] = k]
    BY <1>5
  <2>3. /\ k \in Load(Parts) /\ k.floor = loads[l].floor
        /\ \A q \in Parts : k.got[q] = IF q = p THEN x ELSE loads[l].got[q]
    BY <1>1, <2>1 DEF Load
  <2> HIDE DEF k
  <2>4. DOMAIN loads' = DOMAIN loads /\ loads' \in [DOMAIN loads -> Load(Parts)]
        /\ \A m \in DOMAIN loads : loads'[m] = IF m = l THEN k ELSE loads[m]
    BY <1>1, <2>1, <2>2, <2>3
  <2>5. ASSUME NEW m \in DOMAIN loads, NEW q \in Parts
        PROVE  /\ loads'[m].floor[q] <= newest'[q]
               /\ loads'[m].got[q].at <= newest'[q]
               /\ loads'[m].got[q].state = "answered" =>
                    loads'[m].got[q].at >= loads'[m].floor[q]
    <3>1. x.at \in Nat
      BY ReadsAre
    <3>2. CASE m # l
      BY <1>3, <2>4, <3>2
    <3>3. CASE m = l /\ q # p
      BY <1>3, <2>3, <2>4, <3>3
    <3>4. CASE m = l /\ q = p
      <4>1. loads'[m].floor[q] = loads[l].floor[p] /\ loads'[m].got[q] = x
        BY <2>3, <2>4, <3>4
      <4> QED BY <1>1, <1>3, <3>1, <3>4, <4>1
    <3> QED BY <3>2, <3>3, <3>4
  <2> QED BY <1>1, <1>2, <2>4, <2>5 DEF LoadsKnown
<1> QED BY <1>4, <1>5 DEF Settles

-----------------------------------------------------------------------------
(* The chain. *)

\* An upload writes its key from the first byte on and notes it as the last.
LEMMA UploadHeld ==
  ASSUME Held(vks, latest), NEW t, NEW k \in KeyFiles, V!upload_vk(t, k)
  PROVE  Held(vks', latest')
<1> DEFINE vk == V!Uploaded(t, k)
<1>1. /\ VkLen[k] <= MaxVkUnits
      /\ vks' = V!Put(vks, t, vk) /\ latest' = V!Put(latest, t, k)
  BY DEF V!upload_vk, V!Fits
<1>2. /\ vk.bytes_len = VkLen[k]
      /\ \A u \in 0 .. MaxVkUnits - 1 : u < VkLen[k] => vk.bytes[u] = k
  BY DEF V!Uploaded
<1> HIDE DEF vk
<1>3. /\ DOMAIN vks' = DOMAIN vks \cup {t} /\ DOMAIN latest' = DOMAIN latest \cup {t}
      /\ vks'[t] = vk /\ latest'[t] = k
      /\ \A x \in DOMAIN vks \ {t} : vks'[x] = vks[x]
      /\ \A x \in DOMAIN latest \ {t} : latest'[x] = latest[x]
  BY <1>1 DEF V!Put
<1> QED BY <1>1, <1>2, <1>3 DEF Held

\* A block more: what the accounts were at the slots before is not rewritten.
LEMMA BlockHeld ==
  ASSUME IInv, Endpoint!Advances, Remember, PageStays, Held(vks', latest')
  PROVE  IInv'
<1>1. /\ slot \in Nat /\ slot' = slot + 1 /\ newest' = newest
      /\ newest \in [AllParts -> Nat] /\ \A p \in AllParts : newest[p] <= slot
  BY DEF IInv, ChainTyped, Endpoint!Advances
<1>2. ChainTyped'
  <2>1. \A p \in AllParts : newest[p] <= slot + 1
    BY <1>1
  <2> QED BY <1>1, <2>1 DEF IInv, ChainTyped, PageStays
<1>3. ShownKnown' /\ LoadsKnown'
  <2>1. \A p \in AllParts : newest[p] <= newest'[p]
    BY <1>1
  <2>2. newest' \in [AllParts -> Nat] /\ UNCHANGED <<panel, shown, loads>>
    BY <1>1 DEF PageStays
  <2> QED BY <2>1, <2>2, KnownStays
<1>4. ASSUME NEW v \in 0 .. slot'
      PROVE  Held(history'[v].vks, history'[v].latest)
  <2>1. CASE v = slot'
    <3>1. history'[v] = [vks |-> vks', latest |-> latest']
      BY <2>1 DEF Remember
    <3> QED BY <3>1
  <2>2. CASE v # slot'
    <3>1. history'[v] = history[v] /\ v \in 0 .. slot
      BY <1>1, <2>2 DEF Remember
    <3> QED BY <3>1 DEF IInv, HistoryHeld
  <2> QED BY <2>1, <2>2
<1>5. HistoryHeld'
  BY <1>4 DEF HistoryHeld
<1> QED BY <1>2, <1>3, <1>5 DEF IInv

LEMMA HistoryStays ==
  ASSUME IInv, UNCHANGED <<slot, vks, latest, history>>
  PROVE  HistoryHeld'
BY DEF IInv, HistoryHeld

-----------------------------------------------------------------------------
(* The steps of a panel. *)

\* Load l settles part p: with an answer, or with a failure.
LEMMA SettlingHeld ==
  ASSUME IInv, NEW l, NEW p \in Parts,
         Fail(l, p) \/ Unnumbered(l, p) \/ \E v \in 0 .. slot : Answer(l, p, v)
  PROVE  IInv'
<1>1. /\ slot \in Nat /\ newest \in [AllParts -> Nat] /\ p \in AllParts
      /\ \A q \in AllParts : newest[q] <= slot
  BY PartsKnown DEF IInv, ChainTyped
<1>2. CASE Fail(l, p) \/ Unnumbered(l, p)
  <2>1. Settles(l, p, Failed) /\ UNCHANGED <<slot, newest>>
    BY <1>2 DEF Fail, Unnumbered
  <2>2. \A q \in AllParts : newest[q] <= newest'[q]
    BY <1>1, <2>1
  <2>3. ShownKnown' /\ LoadsKnown'
    <3>1. Failed \in Reads /\ Failed.at <= newest'[p] /\ Failed.state # "answered"
      BY <1>1, <2>1, ReadsAre
    <3> QED BY <1>1, <2>1, <2>2, <3>1, SettlesKnown
  <2>4. UNCHANGED <<panel, vks, latest, history>>
    BY <2>1 DEF Settles
  <2> QED BY <2>1, <2>3, <2>4, HistoryStays DEF IInv, ChainTyped
<1>3. ASSUME NEW v \in 0 .. slot, Answer(l, p, v) PROVE IInv'
  <2>1. /\ Settles(l, p, AnsweredAt(v)) /\ slot' = slot
        /\ v \in newest[p] .. slot /\ newest' = [newest EXCEPT ![p] = v]
    BY <1>3 DEF Answer, Endpoint!Serves, Endpoint!Versions
  <2>2. /\ newest' \in [AllParts -> Nat] /\ newest'[p] = v
        /\ \A q \in AllParts : newest[q] <= newest'[q] /\ newest'[q] <= slot
    BY <1>1, <2>1
  <2>3. ShownKnown' /\ LoadsKnown'
    <3>1. AnsweredAt(v) \in Reads /\ AnsweredAt(v).at = v
      BY ReadsAre
    <3>2. v <= newest'[p] /\ v >= newest[p]
      BY <1>1, <2>1, <2>2
    <3> QED BY <2>1, <2>2, <3>1, <3>2, SettlesKnown
  <2>4. UNCHANGED <<panel, vks, latest, history>>
    BY <2>1 DEF Settles
  <2> QED BY <1>1, <2>1, <2>2, <2>3, <2>4, HistoryStays DEF IInv, ChainTyped
<1> QED BY <1>2, <1>3

\* A load that is over writes what it got, which was answered.
LEMMA FinishHeld == ASSUME IInv, NEW l, Finish(l) PROVE IInv'
<1>1. /\ Parts' = Parts /\ l \in DOMAIN loads /\ loads' = Without(l)
      /\ UNCHANGED <<slot, vks, latest, history, newest, panel>>
  BY DEF Finish, Parts, chainVars
<1>2. /\ loads[l] \in Load(Parts) /\ shown \in [Parts -> Reads]
      /\ \A p \in Parts : loads[l].got[p].at <= newest[p] /\ shown[p].at <= newest[p]
  BY <1>1 DEF IInv, ShownKnown, LoadsKnown
<1>3. ShownKnown'
  <2>1. CASE shown' = shown
    BY <1>1, <2>1 DEF IInv, ShownKnown
  <2>2. CASE shown' = Displayed(loads[l].got)
    <3>1. loads[l].got \in [Parts -> Reads]
      BY <1>2 DEF Load
    <3>2. \A p \in Parts : Displayed(loads[l].got)[p] \in {shown[p], loads[l].got[p]}
      BY DEF Displayed
    <3>3. shown' = [p \in Parts |-> shown'[p]]
      BY <2>2 DEF Displayed
    <3>4. \A p \in Parts : shown'[p] \in Reads /\ shown'[p].at <= newest[p]
      BY <1>2, <2>2, <3>1, <3>2
    <3>5. shown' \in [Parts -> Reads]
      BY <3>3, <3>4
    <3> QED BY <1>1, <3>4, <3>5 DEF ShownKnown
  <2> QED BY <2>1, <2>2 DEF Finish
<1>4. LoadsKnown'
  <2>1. loads' \in [DOMAIN loads' -> Load(Parts)] /\ DOMAIN loads' \subseteq DOMAIN loads
    BY <1>1 DEF Without, IInv, LoadsKnown
  <2>2. \A m \in DOMAIN loads' : loads'[m] = loads[m]
    BY <1>1 DEF Without
  <2> QED BY <1>1, <2>1, <2>2 DEF IInv, LoadsKnown
<1> QED BY <1>1, <1>3, <1>4, HistoryStays DEF IInv, ChainTyped

\* The loads of a panel that is left go on, for nobody.
LEMMA UnmountHeld == ASSUME IInv, Unmount PROVE IInv'
<1>1. /\ Parts' = Parts /\ Parts \subseteq AllParts /\ newest \in [AllParts -> Nat]
      /\ UNCHANGED <<slot, vks, latest, history, newest, panel>>
  BY PartsKnown DEF Unmount, Parts, chainVars, IInv, ChainTyped
<1>2. ShownKnown'
  <2>1. shown' = [p \in Parts |-> Nothing]
    BY DEF Unmount
  <2>2. shown' \in [Parts -> Reads] /\ \A p \in Parts : shown'[p].at = 0
    BY <2>1, ReadsAre
  <2>3. \A p \in Parts : newest[p] \in Nat
    BY <1>1
  <2> QED BY <1>1, <2>2, <2>3 DEF ShownKnown
<1>3. LoadsKnown'
  <2>1. loads' = [l \in DOMAIN loads |-> [loads[l] EXCEPT !.live = FALSE]]
    BY DEF Unmount
  <2>2. ASSUME NEW l \in DOMAIN loads
        PROVE  /\ loads'[l] \in Load(Parts)
               /\ loads'[l].got = loads[l].got /\ loads'[l].floor = loads[l].floor
    <3>1. loads[l] \in Load(Parts)
      BY DEF IInv, LoadsKnown
    <3> QED BY <2>1, <3>1 DEF Load
  <2>3. DOMAIN loads' = DOMAIN loads /\ loads' \in [DOMAIN loads -> Load(Parts)]
    BY <2>1, <2>2
  <2> QED BY <1>1, <2>2, <2>3 DEF IInv, LoadsKnown
<1> QED BY <1>1, <1>2, <1>3, HistoryStays DEF IInv, ChainTyped

\* A load starts, or none does; the display stays.
LEMMA StartingHeld == ASSUME IInv, Mount \/ LoadAgain \/ ManifestSettles PROVE IInv'
<1>1. /\ Started(shown) \/ UNCHANGED loads
      /\ UNCHANGED <<slot, vks, latest, history, newest, panel, shown>>
  BY DEF Mount, LoadAgain, ManifestSettles, chainVars
<1>2. ShownKnown'
  BY <1>1 DEF IInv, ShownKnown, Parts
<1>3. LoadsKnown'
  <2>1. CASE Started(shown)
    BY <1>1, <2>1, StartedKnown
  <2>2. CASE UNCHANGED loads
    BY <1>1, <2>2 DEF IInv, LoadsKnown, Parts
  <2> QED BY <1>1, <2>1, <2>2
<1> QED BY <1>1, <1>2, <1>3, HistoryStays DEF IInv, ChainTyped

-----------------------------------------------------------------------------
(* The invariant is inductive. *)

LEMMA InitIInv == Init => IInv
<1> SUFFICES ASSUME Init PROVE IInv
  OBVIOUS
<1>1. /\ slot = 0 /\ newest = [p \in AllParts |-> 0] /\ panel \in DOMAIN PartsOf
      /\ loads = [l \in {} |-> l] /\ shown = [p \in Parts |-> Nothing]
  BY DEF Init, Endpoint!Init, AllParts
<1>2. ChainTyped
  BY <1>1 DEF ChainTyped
<1>3. ShownKnown
  <2>1. shown \in [Parts -> Reads] /\ \A p \in Parts : shown[p].at = 0
    BY <1>1, ReadsAre
  <2>2. \A p \in Parts : newest[p] = 0
    BY <1>1, <1>2, PartsKnown
  <2> QED BY <2>1, <2>2 DEF ShownKnown
<1>4. LoadsKnown
  BY <1>1 DEF LoadsKnown
<1>5. Held(vks, latest)
  <2>1. CASE V!VerifierInit
    BY <2>1 DEF Held, V!VerifierInit, V!NoAccounts
  <2>2. ASSUME NEW c \in Circuits, NEW k \in KeyFiles, FirstUpload(c, k)
        PROVE  Held(vks, latest)
    BY <2>2 DEF FirstUpload, Held, V!Fits
  <2> QED BY <2>1, <2>2 DEF Init
<1>6. \A v \in 0 .. slot : history[v].vks = vks /\ history[v].latest = latest
  BY <1>1 DEF Init
<1> QED BY <1>2, <1>3, <1>4, <1>5, <1>6 DEF IInv, HistoryHeld

LEMMA NextIInv == IInv /\ [Next]_vars => IInv'
<1> SUFFICES ASSUME IInv, [Next]_vars PROVE IInv'
  OBVIOUS
<1>1. CASE OtherBlock
  <2>1. Held(vks', latest')
    BY <1>1 DEF OtherBlock, IInv, HistoryHeld
  <2> QED BY <1>1, <2>1, BlockHeld DEF OtherBlock
<1>2. ASSUME NEW c \in Circuits, NEW k \in KeyFiles, Upload(c, k) PROVE IInv'
  <2>1. Held(vks', latest')
    BY <1>2, UploadHeld DEF Upload, IInv, HistoryHeld
  <2> QED BY <1>2, <2>1, BlockHeld DEF Upload
<1>3. CASE Mount \/ LoadAgain \/ ManifestSettles
  BY <1>3, StartingHeld
<1>4. CASE Unmount
  BY <1>4, UnmountHeld
<1>5. ASSUME NEW l \in 1 .. MaxLoads, Finish(l) PROVE IInv'
  BY <1>5, FinishHeld
<1>6. ASSUME NEW l \in 1 .. MaxLoads, NEW p \in Parts,
             Fail(l, p) \/ Unnumbered(l, p) \/ \E v \in 0 .. slot : Answer(l, p, v)
      PROVE  IInv'
  BY <1>6, SettlingHeld
<1>7. CASE UNCHANGED vars
  <2>1. UNCHANGED <<slot, newest, vks, latest, history, panel, loads, shown>>
    BY <1>7 DEF vars, chainVars
  <2>2. ShownKnown' /\ LoadsKnown'
    BY <2>1 DEF IInv, ShownKnown, LoadsKnown, Parts
  <2> QED BY <2>1, <2>2, HistoryStays DEF IInv, ChainTyped
<1> QED BY <1>1, <1>2, <1>3, <1>4, <1>5, <1>6, <1>7 DEF Next

LEMMA Invariance == Spec => []IInv
BY InitIInv, NextIInv, PTL DEF Spec

-----------------------------------------------------------------------------
(* Theorems. *)

\* Loads overlap, overtake one another and outlive their panel, but none that
\* still counts brings an answer older than the display it started from, for
\* any number of loads and failures (useRpcStats, the lists and the key table).
THEOREM LoadsNeverGoBackHolds == Spec => []LoadsNeverGoBack
<1>1. IInv => LoadsNeverGoBack
  BY DEF IInv, LoadsKnown, LoadsNeverGoBack
<1> QED BY <1>1, Invariance, PTL

\* A verdict other than `loading' is about a read: the table may take a failed
\* one for an account not found, the page does not.
LEMMA StatusIsAboutARead ==
  ASSUME IInv, panel \in {"keys", "page"}, NEW c \in Parts,
         StatusOf(c) \in {"match", "drift", "missing"}
  PROVE  /\ panel = "page" => shown[c].state = "answered"
         /\ StatusOf(c) = "missing" => ~Found(c)
         /\ StatusOf(c) # "missing" =>
              Found(c) /\ Expected(c) # NoHash /\ StatusOf(c) = Verdict(c)
<1>1. shown[c] \in Reads
  BY DEF IInv, ShownKnown
<1>2. shown[c] # Nothing
  BY DEF StatusOf
<1>3. ~(panel = "keys" /\ Expected(c) = NoHash)
  BY <1>2 DEF StatusOf
<1>4. ~(panel = "page" /\ shown[c] = Failed)
  BY <1>2, <1>3 DEF StatusOf
<1>5. StatusOf(c) = IF ~Found(c) THEN "missing"
                    ELSE IF Expected(c) = NoHash THEN "unverifiable" ELSE Verdict(c)
  BY <1>2, <1>3, <1>4 DEF StatusOf
<1>6. panel = "page" => shown[c].state = "answered"
  BY <1>1, <1>2, <1>4, ReadsAre
<1>7. Verdict(c) # "missing"
  BY DEF Verdict
<1> QED BY <1>5, <1>6, <1>7

\* The hash is of the bytes of one key file, the one uploaded last.
LEMMA PinnedIsUploaded ==
  ASSUME NEW accounts, NEW keys, Held(accounts, keys), NEW t \in DOMAIN accounts
  PROVE  PinnedBytes(accounts[t]) = BytesOf(keys[t])
<1>1. /\ keys[t] \in KeyFiles /\ VkLen[keys[t]] <= MaxVkUnits
      /\ accounts[t].bytes_len = VkLen[keys[t]]
      /\ \A u \in 0 .. MaxVkUnits - 1 : u < VkLen[keys[t]] => accounts[t].bytes[u] = keys[t]
  BY DEF Held
<1>2. VkLen[keys[t]] \in Nat /\ MaxVkUnits \in Nat
  BY <1>1, DashboardConstants
<1>3. \A u \in 0 .. VkLen[keys[t]] - 1 : accounts[t].bytes[u] = keys[t]
  BY <1>1, <1>2
<1> QED BY <1>1, <1>3 DEF PinnedBytes, BytesOf

\* No key file is empty, so that two have the same bytes only if they are one.
LEMMA BytesTellKeysApart ==
  ASSUME NEW j \in KeyFiles, NEW k \in KeyFiles, BytesOf(j) = BytesOf(k)
  PROVE  j = k
<1>1. 0 \in 0 .. VkLen[j] - 1 /\ 0 \in 0 .. VkLen[k] - 1
  BY DashboardConstants
<1>2. BytesOf(j)[0] = j /\ BytesOf(k)[0] = k
  BY <1>1 DEF BytesOf
<1> QED BY <1>2

LEMMA StatusFollows == IInv => StatusIsTrue
<1> SUFFICES ASSUME IInv, panel \in {"keys", "page"}, NEW c \in Parts
             PROVE  LET uploaded == history[shown[c].at].latest IN
                    /\ StatusOf(c) = "match" =>
                         Found(c) /\ Published[c] = uploaded[IdOf[c]]
                    /\ StatusOf(c) = "drift" =>
                         Found(c) /\ Published[c] \notin {uploaded[IdOf[c]], NoHash}
                    /\ StatusOf(c) = "missing" =>
                         ~Found(c) /\ (panel = "page" => IdOf[c] \notin DOMAIN uploaded)
  BY DEF StatusIsTrue
<1> DEFINE v == shown[c].at
           accounts == history[v].vks
           keys == history[v].latest
<1>1. v \in 0 .. slot
  <2>1. v \in Nat /\ v <= newest[c]
    BY ReadsAre DEF IInv, ShownKnown
  <2>2. slot \in Nat /\ newest[c] \in Nat /\ newest[c] <= slot
    BY PartsKnown DEF IInv, ChainTyped
  <2> QED BY <2>1, <2>2
<1>2. Held(accounts, keys)
  BY <1>1 DEF IInv, HistoryHeld
<1>3. DOMAIN keys = DOMAIN accounts
  BY <1>2 DEF Held
<1>4. ASSUME StatusOf(c) \in {"match", "drift"}
      PROVE  /\ Found(c) /\ Published[c] \in KeyFiles /\ Published[c] # NoHash
             /\ keys[IdOf[c]] \in KeyFiles
             /\ StatusOf(c) = IF BytesOf(keys[IdOf[c]]) = BytesOf(Published[c])
                              THEN "match" ELSE "drift"
  <2>1. Found(c) /\ Expected(c) # NoHash /\ StatusOf(c) = Verdict(c)
    BY <1>4, StatusIsAboutARead
  <2>2. IdOf[c] \in DOMAIN accounts
    BY <2>1 DEF Found
  <2>3. Expected(c) = Published[c]
    BY <2>1 DEF Expected
  <2>4. Published[c] \in KeyFiles
    <3>1. PartsOf.keys = Circuits /\ PartsOf.page = Listed
      BY DEF PartsOf
    <3>2. Parts = PartsOf.keys \/ Parts = PartsOf.page
      BY DEF Parts
    <3>3. c \in Listed
      BY <3>1, <3>2, DashboardConstants
    <3> QED BY <2>1, <2>3, <3>3, DashboardConstants
  <2>5. keys[IdOf[c]] \in KeyFiles
    BY <1>2, <2>2 DEF Held
  <2>6. PinnedBytes(accounts[IdOf[c]]) = BytesOf(keys[IdOf[c]])
    BY <1>2, <2>2, PinnedIsUploaded
  <2> QED BY <2>1, <2>3, <2>4, <2>5, <2>6 DEF Verdict
<1>5. StatusOf(c) = "match" => Found(c) /\ Published[c] = keys[IdOf[c]]
  BY <1>4, BytesTellKeysApart
<1>6. StatusOf(c) = "drift" => Found(c) /\ Published[c] \notin {keys[IdOf[c]], NoHash}
  BY <1>4
<1>7. StatusOf(c) = "missing" =>
        ~Found(c) /\ (panel = "page" => IdOf[c] \notin DOMAIN keys)
  BY <1>3, StatusIsAboutARead DEF Found
<1> QED BY <1>5, <1>6, <1>7

\* Whatever an upload overwrites, however answers lag and requests fail, the
\* table of keys and the ceremony's page say `match' and `drift' only as the
\* key uploaded last at the slot they read was, or was not, the published one.
THEOREM StatusesAreTrue == Spec => []StatusIsTrue
BY StatusFollows, Invariance, PTL

=============================================================================
