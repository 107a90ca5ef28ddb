---------------------------- MODULE RecentProofs ----------------------------
(***************************************************************************)
(* The demo of the site from the button to the dashboard: a run makes a    *)
(* proof, recordAndSubmitDemoProof enters it in the list of recent proofs  *)
(* and submits it when a wallet is connected, and the dashboard merges the *)
(* list with what it polls from the chain.                                 *)
(*                                                                         *)
(* The list is in localStorage, shared by the tabs of one browser.  read() *)
(* and write() follow each other without an await, so an addition or an    *)
(* update is one step.  A tab shows what its listener was last given: at   *)
(* once when the tab itself writes, later, by a `storage' event, when      *)
(* another tab did.  A run outlives the page that started it, but not the  *)
(* tab.                                                                    *)
(***************************************************************************)
EXTENDS Naturals, SequencesExt

CONSTANTS
  Tabs,         \* tabs that run the demo and show the list
  Proofs,       \* the runs, and the ids of their entries (random UUIDs)
  MaxEntries,   \* MAX_ENTRIES
  None          \* no run

ASSUME EntriesAssumption == MaxEntries \in Nat \ {0} /\ None \notin Proofs

VARIABLES
  store,      \* the entries in localStorage, newest first
  views,      \* views[t]: the entries tab t shows
  events,     \* the tabs a storage event is on its way to
  unsaved,    \* the tabs whose last write the storage did not take
  runs,       \* runs[p]: the tab of run p, and what it awaits
  button,     \* button[t]: the run that disables the button of t's page
  landed,     \* the proofs whose transaction the cluster executed
  chain,      \* chain[t]: those t's dashboard last read from the chain
  recorded,   \* history: the entries the storage took in, in order
  abandoned   \* history: the runs whose tab went away, or whose outcome the
              \* storage did not take

vars == <<store, views, events, unsaved, runs, button, landed, chain,
          recorded, abandoned>>

-----------------------------------------------------------------------------
Init ==
  /\ store = <<>>
  /\ views = [t \in Tabs |-> <<>>]
  /\ events = {} /\ unsaved = {}
  /\ runs = [p \in {} |-> p]
  /\ button = [t \in Tabs |-> None]
  /\ landed = {} /\ chain = [t \in Tabs |-> {}]
  /\ recorded = <<>> /\ abandoned = {}

\* A run that has not started, and never will twice.
Fresh(p) ==
  /\ p \notin DOMAIN runs \cup landed \cup abandoned
  /\ \A i \in DOMAIN recorded : recorded[i] # p

Awaiting(what) == {p \in DOMAIN runs : runs[p].awaits = what}

Without(p) == [q \in DOMAIN runs \ {p} |-> runs[q]]

\* Mutation: no `finally'; only an outcome of the wallet frees the button.
FreedUnlessProving(p) ==
  [t \in Tabs |-> IF button[t] = p /\ runs[p].awaits = "wallet"
                  THEN None ELSE button[t]]

\* setIsRunning(false), when the page that the run disabled is still there.
Freed(p) == [t \in Tabs |-> IF button[t] = p THEN None ELSE button[t]]

\* The button of the home page or the playground starts a run, unless one is
\* running.  (Input that does not parse frees it in the same step.)
Run(t, p) ==
  /\ button[t] = None
  /\ Fresh(p)
  /\ runs' = [q \in DOMAIN runs \cup {p} |->
               IF q = p THEN [tab |-> t, awaits |-> "prover"] ELSE runs[q]]
  /\ button' = [button EXCEPT ![t] = p]
  /\ UNCHANGED <<store, views, events, unsaved, landed, chain, recorded, abandoned>>

\* generateDemoProof throws: an artefact is missing, the amount is no number.
ProverFails(p) ==
  /\ p \in Awaiting("prover")
  /\ button' = Freed(p)
  /\ runs' = Without(p)
  /\ abandoned' = abandoned \cup {p}
  /\ UNCHANGED <<store, views, events, unsaved, landed, chain, recorded>>

\* The user goes to another page of the site and back: the button is new, the
\* run goes on.
Leave(t) ==
  /\ button[t] # None
  /\ button' = [button EXCEPT ![t] = None]
  /\ UNCHANGED <<store, views, events, unsaved, runs, landed, chain, recorded,
                 abandoned>>

\* write(): the storage takes the entries, and the other tabs are told if they
\* differ; or it is full or disabled, and takes nothing.  Either way the
\* listeners of the tab itself get the entries.
Write(t, entries, taken) ==
  /\ views' = [views EXCEPT ![t] = entries]
  /\ IF taken
     THEN /\ store' = entries
          /\ events' = IF entries = store THEN events ELSE events \cup (Tabs \ {t})
          /\ unsaved' = unsaved \ {t}
     ELSE /\ unsaved' = unsaved \cup {t}
          /\ UNCHANGED <<store, events>>

Newest(s) == SubSeq(s, 1, Min({Len(s), MaxEntries}))

\* Mutation: the tab adds to the entries it shows, not to those stored.
AddedToShown(t, entry) == Newest(<<entry>> \o views[t])

\* The entries addRecentProof writes.
Added(t, entry) == Newest(<<entry>> \o store)

\* recordAndSubmitDemoProof up to its await: `submitting' with a wallet, which
\* is then awaited, `local' without, which ends the run.
Record(p, connected) ==
  /\ p \in Awaiting("prover")
  /\ LET entry == [id |-> p, signed |-> FALSE,
                   status |-> IF connected THEN "submitting" ELSE "local"]
     IN  \E taken \in BOOLEAN :
           /\ Write(runs[p].tab, Added(runs[p].tab, entry), taken)
           /\ recorded' = IF taken THEN Append(recorded, p) ELSE recorded
           /\ abandoned' = IF taken THEN abandoned ELSE abandoned \cup {p}
  /\ IF connected
     THEN /\ runs' = [runs EXCEPT ![p].awaits = "wallet"]
          /\ UNCHANGED button
     ELSE runs' = Without(p) /\ button' = Freed(p)
  /\ UNCHANGED <<landed, chain>>

\* The transaction of an awaited submission is executed.  The answer to the
\* tab is a different message and may come later, or not.
Land(p) ==
  /\ p \in Awaiting("wallet") \ landed
  /\ landed' = landed \cup {p}
  /\ UNCHANGED <<store, views, events, unsaved, runs, button, chain, recorded,
                 abandoned>>

Patched(entry, ok) ==
  [entry EXCEPT !.status = IF ok THEN "submitted" ELSE "failed", !.signed = ok]

\* Mutations: the newest entry is taken for the one submitted; what the tab
\* shows is patched and written back.
UpdatedNewest(t, p, ok) ==
  [i \in DOMAIN store |-> IF i = 1 THEN Patched(store[i], ok) ELSE store[i]]
UpdatedShown(t, p, ok) ==
  [i \in DOMAIN views[t] |->
     IF views[t][i].id = p THEN Patched(views[t][i], ok) ELSE views[t][i]]

\* The entries updateRecentProof writes: the entry p changes if still there.
Updated(t, p, ok) ==
  [i \in DOMAIN store |->
     IF store[i].id = p THEN Patched(store[i], ok) ELSE store[i]]

\* submitProof returns a signature, or throws; the run is over.
Settle(p, ok) ==
  /\ p \in Awaiting("wallet")
  /\ ok => p \in landed
  /\ \E taken \in BOOLEAN :
       /\ Write(runs[p].tab, Updated(runs[p].tab, p, ok), taken)
       /\ abandoned' = IF taken THEN abandoned ELSE abandoned \cup {p}
  /\ runs' = Without(p)
  /\ button' = Freed(p)
  /\ UNCHANGED <<landed, chain, recorded>>

\* The storage event reaches tab t, which reads the entries anew.
OnStorage(t) ==
  /\ t \in events
  /\ views' = [views EXCEPT ![t] = store]
  /\ events' = events \ {t} /\ unsaved' = unsaved \ {t}
  /\ UNCHANGED <<store, runs, button, landed, chain, recorded, abandoned>>

\* The dashboard reads the verifier's transactions, as it does every 30 s; a
\* failed reading leaves it with none.
Poll(t, answered) ==
  /\ chain' = [chain EXCEPT ![t] = IF answered THEN landed ELSE {}]
  /\ UNCHANGED <<store, views, events, unsaved, runs, button, landed, recorded,
                 abandoned>>

\* Mutation: a new subscriber is given nothing until something changes.
NothingAtFirst == <<>>

\* What a new subscriber is given at once.
InitialPush == store

\* Mutation: the signatures of the list are not remembered.
MergedUnseen(local, onChain) == [local |-> local, onChain |-> onChain]

\* The dashboard's rows: the list, and of the chain what the list lacks.
mergeRows(local, onChain) ==
  [local |-> local,
   onChain |-> onChain \ {local[i].id : i \in {j \in DOMAIN local : local[j].signed}}]

\* Tab t is closed or reloaded: nobody awaits the answers to its runs any
\* more.  When it is back it subscribes.
Reload(t) ==
  LET lost == {p \in DOMAIN runs : runs[p].tab = t} IN
  /\ runs' = [p \in DOMAIN runs \ lost |-> runs[p]]
  /\ abandoned' = abandoned \cup lost
  /\ button' = [button EXCEPT ![t] = None]
  /\ chain' = [chain EXCEPT ![t] = {}]
  /\ views' = [views EXCEPT ![t] = InitialPush]
  /\ events' = events \ {t} /\ unsaved' = unsaved \ {t}
  /\ UNCHANGED <<store, landed, recorded>>

Next ==
  \/ \E t \in Tabs :
       \/ OnStorage(t) \/ Reload(t) \/ Leave(t)
       \/ \E p \in Proofs : Run(t, p)
       \/ \E answered \in BOOLEAN : Poll(t, answered)
  \/ \E p \in Proofs :
       \/ ProverFails(p) \/ Land(p)
       \/ \E connected \in BOOLEAN : Record(p, connected)
       \/ \E ok \in BOOLEAN : Settle(p, ok)

Spec == Init /\ [][Next]_vars

-----------------------------------------------------------------------------
\* However the tabs interleave, the storage holds the entries added last,
\* newest first: no tab's write loses what another one added.
StoreIsNewest ==
  [i \in DOMAIN store |-> store[i].id] = Newest(Reverse(recorded))

\* A tab that no event is on its way to, and whose own write was taken, shows
\* what is stored.
ViewIsCurrent ==
  \A t \in Tabs \ (events \cup unsaved) : views[t] = store

\* An outcome once stored is final, whichever tab writes later, and an entry
\* cut off the list does not come back.
FinalStep ==
  /\ \A i \in DOMAIN store, j \in DOMAIN store' :
       store[i].id = store'[j].id /\ store[i].status # "submitting"
         => store'[j] = store[i]
  /\ \A j \in DOMAIN store' :
       \/ \E i \in DOMAIN store : store[i].id = store'[j].id
       \/ \A i \in DOMAIN recorded : recorded[i] # store'[j].id
OutcomesAreFinal == [][FinalStep]_vars

\* A stored entry says `submitting' exactly as long as a tab awaits its
\* submission.  It says so for ever only if that tab was closed meanwhile, or
\* the storage refused the outcome; no other tab's write brings it back.
SubmittingIsAwaited ==
  \A i \in DOMAIN store :
    LET p == store[i].id IN
    IF store[i].status = "submitting"
    THEN p \in Awaiting("wallet") \cup abandoned
    ELSE p \notin DOMAIN runs

\* A proof is in two rows of an up-to-date dashboard only while its outcome
\* is open or unknown to the list: awaited, abandoned or thought to have
\* failed.
OneRowPerProof ==
  \A t \in Tabs \ (events \cup unsaved) :
    LET rows == mergeRows(views[t], chain[t]) IN
    \A i \in DOMAIN rows.local :
      LET p == rows.local[i].id IN
      p \in rows.onChain =>
        \/ p \in Awaiting("wallet") \cup abandoned
        \/ rows.local[i].status = "failed"

\* The button is disabled only while the run it started still awaits something
\* in this tab: whatever fails on the way, it does not stay disabled.
ButtonHasARun ==
  \A t \in Tabs : button[t] # None =>
    button[t] \in DOMAIN runs /\ runs[button[t]].tab = t

=============================================================================
