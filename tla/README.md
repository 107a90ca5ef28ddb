# VeilRail in TLA+

VeilRail lets software agents pay each other privately on Solana. An agent
registers a commitment, opens a payment session with a zero-knowledge proof,
pays inside it and closes it with a second proof; notes of a shielded pool are
deposited and spent against a Merkle root. The repository holds the four
on-chain programs, the circuits and the scripts of their trusted setup, an SDK
that proves and submits, a site with a live dashboard, and the API server behind
it.

This directory models the parts of that system that keep state, checks them with
TLC on small instances, and proves the central invariants with TLAPS for every
instance. Paths below are relative to the repository root.

Contents: [system](#the-system) · [modules](#modules-and-code) ·
[runs](#runs) · [fairness and deadlock](#fairness-and-deadlock) ·
[proofs](#proofs) · [code and comments](#where-code-and-comments-part) ·
[limits](#what-is-not-modelled) · [plan](#plan) · [running](#running-it)

## The system

How the parts interact:

    circuits ──ceremony.sh, build.sh──> zkey, vk, published documents
                                         │   │          │
                           site serves zkey  upload-vk.sh   ceremony page
                                         │   │
    agent ── SDK client ──prove──────────┘   v
               │   └─────submit──────> veil-verifier     (vk accounts)
               │ fetchEpoch
               └────read────> veil-registry  <── init-registry.ts, rotate_epoch
    agents, with what the SDK proved ──> veil-session   (sessions, nullifiers)
    depositors, spenders ──> veil-pool                  (root ring, nullifiers)

    dashboard, wallet panel ──JSON-RPC──> devnet RPC cache ──> devnet
    demo widget ── recentProofs (localStorage, shared by tabs) ── dashboard

On chain every instruction is atomic, but the instructions of all clients
interleave in any order, and what a client read before it sends one may be out
of date when it lands. Off chain the code is single-threaded JavaScript with
awaits (every await is a point where others move) and shell scripts (which can
be killed between any two commands).

| Component | State | Operations | What is hard | What makes it correct |
|---|---|---|---|---|
| **veil-registry** `packages/programs/programs/veil-registry/src/lib.rs` | singleton: authority, epoch, agent_count, last_rotated_slot; one account per agent | initialize, register_agent, rotate_epoch | a counter kept beside the accounts by hand; a second initialize; spacing of rotations at its boundary | counter = accounts; epoch never ahead of the clock; nothing restarts |
| **veil-session** `.../veil-session/src/lib.rs` | session accounts, nullifier accounts | open_session, close_session | both peers closing; one instruction writing two account families | a closing and its nullifier go together; terms are fixed; closings are final |
| **veil-pool** `.../veil-pool/src/lib.rs` | ring of 32 roots, next_index, note_count; nullifier accounts | initialize, insert_commitment, spend_nullifier | ring wrap; last leaf; one nullifier against several roots | ring = window on the last roots; no nullifier spent twice |
| **callers of veil-pool** (not in the repository) | the tree each last read, the proof each holds | read, deposit, prove, spend, retry | two depositors with one tree; eviction of a proof's root | the latest root holds every note; notes get spent |
| **veil-verifier** `.../veil-verifier/src/lib.rs` | one vk account per circuit tag, overwritten in place | upload_vk, verify_auth, verify_completion, verify_pool, verify | a short key over a long one; slices and bounds; a key replaced between proof and check | the check is exact for the latest upload |
| **circuits** `packages/circuits/src/*.circom` and the SDK's inputs for them (`packages/sdk/src/{proof,hash,types}.ts`) | none | three predicates | sums modulo the field, comparisons over more bits than the amounts, two sides hashing the same things | money adds up; an agent's sessions have different nullifiers; what is in order is provable |
| **SDK client** `packages/sdk/src/{client,submit,proof,constants}.ts` | the session it holds | openSession, proveTransfer, submit, fetchEpoch | epoch read before a long await and used after it; two tables of circuit numbers; retries | only a replaced key causes a refusal; what is settled is within the ceiling |
| **deployment scripts** `packages/programs/migrations/init-registry.ts`, `scripts/veilrail/*.sh` | none of their own | init-registry, upload-vk | check-then-send on two machines | success means an initialised registry whose authority stays |
| **trusted setup** `packages/circuits/scripts/{ceremony,build}.sh` | a directory: chains of files, logs, keys, documents, their copies on the site | init, contribute, beacon, phase2-*, transcript, record-hashes, download-index, publish-website, dev, build | killed anywhere; damaged contributions; phase 1 finalised again; documents made from half-done work | logs and documents are true; final keys are of a verified chain that fits its phase-1 file |
| **devnet RPC cache** `artifacts/api-server/src/lib/devnetRpcCache.ts`, inlined in `artifacts/veilrail/vite.config.ts` | entries with an expiry; table of fetches in flight | handle | single flight; failure of a shared fetch; ids of shared answers; staleness | sound hits; own ids; answers never go back; everyone is answered |
| **dashboard readers** `artifacts/veilrail/src/lib/deployment.ts`, `.../dashboard/*.tsx`, `.../pages/{Dashboard,Ceremony}.tsx` | parts shown, loads under way, a memoised manifest, an error flag | mount, timer, load, verdict on the pinned keys | overlapping loads; failures between good answers; memoised failure | what is shown does not go back by more than a load; verdicts are true; an open page catches up |
| **recent proofs** `artifacts/veilrail/src/lib/{recentProofs,submitDemoProof,demoProof}.ts`, `.../components/DemoWidget.tsx`, `.../pages/{Playground,Dashboard}.tsx` | a list in localStorage, listeners, runs of the demo, rows of the dashboard | prove, add, update, subscribe, submit, merge with the chain | tabs sharing one list; full storage; a tab closed in an await; list and chain telling of one proof at different times | no write loses another's; outcomes are final; views catch up; one row per proof; buttons come free |
| **wallet panel** `artifacts/veilrail/src/hooks/useAutoAirdrop.ts`, `.../dashboard/ConnectWalletPanel.tsx` | session mark, cooldown, balance shown, busy flag | connect, disconnect, the effect and its clean-up, the button | marks tested and set around awaits; cancellation; a caching endpoint | one automatic airdrop; the button comes free |
| **API server wiring, site pages, UI kit, shared libraries** | none that persists | rendering, health check, fetch wrapper | - | - |

`PROJECT.json` lists the same components with their status, and under `hazards`
every place in this code that is hard to test, with the property that covers it.

## Modules and code

| Module | Models | Composition |
|---|---|---|
| `SolanaAccounts` | what the programs take from Solana and Anchor: accounts created once by `init`, u64, saturating_sub | extended by the program modules |
| `VeilRegistry` | veil-registry | |
| `VeilSession` | veil-session | implements `SessionLedger` |
| `SessionLedger` | abstract: a session opens once, settles once, with a fresh hash | |
| `VeilPool` | veil-pool | implements `NotePool` |
| `NotePool` | abstract: an append-only log of roots, spends naming one of the last `Window` of them | |
| `VeilVerifier` | veil-verifier | |
| `VeilCircuits` | the three circuits and the inputs the SDK computes for them | |
| `VeilPoolClients` | depositors and spenders around the pool | extends `VeilPool`, implements it |
| `VeilClient` | SDK client, migration, key uploads, site builds | extends `VeilRegistry` and `VeilVerifier`, implements both |
| `VeilSettlement` | agents who open, pay and settle sessions with what the SDK proves, beside other callers with any arguments | extends `VeilSession` and `VeilCircuits`, implements the former |
| `DevnetRpcCache` | the JSON-RPC cache | implements `OrderedReads` |
| `OrderedReads` | abstract: an endpoint that may lag, but whose answers for a key never go back | |
| `Dashboard` | the polling panels and the ceremony page | INSTANCEs of `OrderedReads` and `VeilVerifier` |
| `Ceremony` | ceremony.sh and build.sh | |
| `RecentProofs` | the demo from the button to the dashboard's rows | |
| `AirdropPanel` | wallet connection, automatic airdrop and button, over a caching endpoint | |
| `VeilSettlementProofs`, `VeilPoolClientsProofs`, `VeilClientProofs` | theorems of a composition and of the programs inside it: session and circuits, pool, registry and verifier | extend the composition and TLAPS |
| `DevnetRpcCacheProofs`, `CeremonyProofs`, `RecentProofsProofs`, `DashboardProofs`, `AirdropPanelProofs` | theorems of one module | extend it and TLAPS |
| `MC*` | small instances | extend their module and TLC |

Names follow the source: an action has the name of its handler, a record field
that of the struct, a helper that of the function, where there is one. The
operators marked `Mutation:` are not part of any specification; each is another
definition with one plausible mistake in it, and `PROJECT.json` pairs it with the
property that notices.

**Accounts.** A family of accounts under one seed prefix is a function whose
domain is the set of addresses in use. Anchor's `init` is the guard "not in the
domain", its seeds and `has_one` constraints are guards too, and an instruction
that fails is no step, because a failed Solana transaction leaves no trace.
`Clock::get()` is a variable `slot` that a step of its own advances.

**Registry.** `initialize`, `register_agent(c)` and `rotate_epoch(key)` are the
three handlers; the `unwrap` of each `checked_add` is the guard `< MaxU64`.

**Session.** `open_session` zeroes what it is not given, as a fresh account
does; `close_session` creates the nullifier and rewrites the session in one
step. `MayClose` is its three `require!`s in the code's order. The outcome does
not depend on the signer, so the signer is not a parameter.

**Pool.** The ring is a function on `0 .. RootHistoryLen - 1`. Two history
variables say what happened: `inserted`, every root in order, and `spends`.
The program accepts any of the ring's 32 places, and places not yet written hold
zeroes, so the zero root is accepted until 31 insertions have been made; the
abstract pool has this as its `Filler`.

**Pool callers.** The instruction's parameters say what a caller does: compute
the new root from the tree it knows, or prove membership under a root. A root is
modelled by the notes of its tree, in order, as a collision-free hash allows. A
note can be proved with any nullifier of a set of its own, `NullifiersOf`, because
the circuit does not relate `noteSecret` and `leafIndex` to the leaf
(`veil_pool_note.circom:70-80`; theorem `NoteHasManyNullifiers`). `NoDoubleSpend`
is therefore about what the program calls a spend, a nullifier, and says nothing
of notes. `LatestRootHoldsAllNotes` and `DepositedNotesGetSpent` are about notes.

**Verifier.** Bytes are counted in units of 64, the size of a G1 point, so the
offsets of `verify_inner` become 7 header units and one per ic point. A unit is
known by the key file it was copied from; this is all the exactness property
needs, as the pairing equation holds when all units are of the proof's own key.
Slices that panic and the checked bound on ic both fail the instruction.

**Circuits.** A circuit is a predicate over a record of its signals, conjunct by
conjunct as the constraints are written; a proof exists exactly when the
predicate holds. Sums are sums modulo `FieldOrder`, a bit decomposition is the
bound it enforces, `Poseidon` of a list is the list. The inputs are those
`proof.ts` computes, so SDK and circuit can disagree in the model where they do
in the code.

**Settlement.** An agent holds what `openSession` and `proveTransfer` returned
(`handles`, `bundles`) and puts it on chain; that caller is not in the
repository and is taken from the comments on both sides. Other callers open and
close anything with any root, peer, ceiling, epoch, hash and commitment, those of
the agents' own proofs included: these are public once used, and the session
program checks no proof. So an agent may find its root opened with another
ceiling, or its nullifier hash burnt on another session, and no property here
says otherwise. `SettledWithinCeiling` says what is left to somebody who compares
an account with a proof; `OwnClosingsStayApart` is about what the agent's own
instructions do.

**SDK client.** Each await (RPC, prover, wallet, cluster) ends an action. The
registry's and the verifier's own steps interleave between them, and so do key
uploads and new builds of the site. `Land` either executes `verify` of
`VeilVerifier` or fails when its guard does.

**RPC cache.** `handle()` runs up to its first await in one step (`Hit`, `Join`,
`Start` or `Bypass`); when a fetch settles, `finally` and all handlers waiting
for it run in one step (`Arrive` or `Reject`), as the event loop lets nothing
between. A body is the slot it was computed at and the id it carries. What a
fetch was sent by (API server or development server) makes no difference: the
code is the same.

**Dashboard.** One panel is followed at a time; all share one effect (load when
mounted, then on a timer, whether or not the load before is done). A load is the
answers it has so far, each the slot at which the chain was read, and whether the
effect that started it was cleaned up. `OrderedReads` decides what an answer may
show. The ceremony page is a fifth kind: no timer, one read after the other,
each shown as it comes. What a panel says of a key is computed from the account
at the slot shown, so a verdict can be compared with what was uploaded. Two
simplifications: reads that belong to one part are one read at one slot (the three
requests of `fetchDevnetStats`, `deployment.ts:281-291`; signatures and
transactions of `fetchOnChainProofs`), and the ceremony page is answered by the
caching endpoint everywhere, although its production build asks the cluster
directly (`Ceremony.tsx:57-67`). The first leaves out a part mixed of two slots,
which no property looks into; the second allows more answers than there are.

**Ceremony.** A subcommand is several programs in sequence; `job` is how far it
has got, and `Kill` stops it anywhere. A numbered file is who made it, whether
the chain up to it verifies, and which phase-1 result it was set up from; a key
keeps the latter, with whether that file is sound and was verified.
Outputs carry the number of the beacon that made them. Of the documents one copy
of one is followed at a time (`doc`, `copy`, `onSite`): it may be of any age, be
cut off, or be the site's. The directory starts empty and is used with one
`POT_POWER`; see [limits](#what-is-not-modelled).

**Recent proofs.** `read` and `write` follow each other without an await, so a
change of the list is one step; a `storage` event comes to the other tabs later.
A write may be refused (storage full), which the code swallows. A run of the
demo goes on when its page is left and dies with the tab. The dashboard's rows
are the merge its `useMemo` makes of the list and of what it last polled.

**Airdrop.** Each flow awaits balance, faucet, confirmation, balance. The two
awaits of the confirmation (`getLatestBlockhash`, `confirmTransaction`) are one
step. The cache in between answers every method, so a second `requestAirdrop`
soon after the first gets the first one's signature. The development proxy's
code is the cache above; here it is reduced to one entry per method. Each await
may throw, the last balance (`useAutoAirdrop.ts:51`, `ConnectWalletPanel.tsx:58`)
included.

## Runs

Distinct states are of TLC's breadth-first search; every run finishes.

| Run | Instance | States | What it shows |
|---|---|---|---|
| `settlement` | 2 sessions of one agent key, other callers with any arguments; 2 transfers of amounts 0, 1 and -1 in a field of 13 where 3 is the first amount too large, net 0 and 1, ceilings 1 and 3 | 199 852 | closings and nullifiers match one to one (`NullifiersMatchClosings`); each session's record tells one story in time (`SessionTimeline`); terms and closings are final (`SessionTermsFixed`); the program implements the ledger (`ImplementsLedger`); an account closed with the ceiling and net commitment of a proof commits to money within that ceiling, whoever opened and closed it (`SettledWithinCeiling`); every net amount up to the ceiling is provable (`CeilingIsReachable`); an agent that closes a session burns the nullifier of none of its others (`OwnClosingsStayApart`) |
| `pool_clients` | 1 depositor, 2 spenders, 4 notes, one of them with two nullifiers, ring of 2, tree of 3 leaves | 113 355 | the ring is the window on the last roots (`RingIsWindow`); both counters count insertions and stop at the last leaf (`CountersAgree`); no nullifier is spent twice (`NoDoubleSpend`); the program implements the abstract pool (`ImplementsNotePool`); with one depositor the latest root holds every note (`LatestRootHoldsAllNotes`); every note deposited is spent in the end although roots are evicted under the spenders (`DepositedNotesGetSpent`) |
| `pool_race` | 2 depositors, 1 spender | violation | with two depositors it does not: see [findings](#findings) |
| `verifier` | key files of 0, 7, 9, 10 and 11 units for an account of 10, 3 tags | 8 704 | the check accepts exactly the proofs of the latest upload, with enough inputs and not too many (`VerifyIsExact`); events name the key in force and the right circuit (`VerifiedUnderLatestKey`) |
| `client` | 1 client, 2 deployers, 2 agents and the zero commitment, 2 auth keys and 1 completion key, u64 up to 5, rotations 2 slots apart | 821 352 | `agent_count` is the number of agent accounts (`AgentCountExact`); epoch e takes e - 1 spaced rotations and never outruns the clock (`EpochIsPaced`); nothing restarts (`RegistryNeverRestarts`); an epoch read may fall behind but never runs ahead, also when the account did not exist yet (`SessionEpochReached`); a proof is refused only if the verifier holds another key at that moment (`RefusedOnlyForOtherKey`); racing migrations are harmless (`MigrationIsSafe`) |
| `client_rotation` | the same without agents, u64 up to 2 | violation | a rotation does not invalidate proofs: see [findings](#findings) |
| `rpc_cache` | 2 callers, a key that lives 1 tick and one that lives 2, ids 1 and 2, statuses 200 and 429 | 175 387 | hits are young and never failures (`HitsAreSound`); each answer has its asker's id (`IdsLineUp`); the proxy implements an endpoint whose answers for a key never go back (`ImplementsOrderedReads`); nobody waits for ever (`EveryRequestAnswered`) |
| `dashboard` | 2 loads at once, 2 mounts, 2 failures, 1 block; 1 circuit in the table, 3 on the page; a short and a long key | 205 511 | no load brings anything older than what was on display when it began (`LoadsNeverGoBack`); the verdict on a key is true of the account that was read (`StatusIsTrue`); a page left open catches up (`PanelCatchesUp`) |
| `ceremony` | 1 circuit and phase 1, 2 people, 2 contributions required, 3 files a chain, 3 finalizations | 13 440 746 | log lines name contributions that are there and verified (`LoggedIsInChain`); a final key is of a zkey chain that verified, with enough contributions in both phases, and a verification key is no younger than the zkey beside it (`FinalKeysEarned`); a key put in place was set up from the phase-1 file there at that time (`KeysFitPot`); what is published is true, however old it is and whatever was cut off before (`PublishedIsTrue`) |
| `ceremony_phase1` | 1 circuit and phase 1, 1 person, 1 contribution required, 2 files a chain, 2 finalizations | violation | a key may rest on a phase-1 file that failed its verification: see [findings](#findings) |
| `recent_proofs` | 2 tabs, 3 proofs, list of 2 | 787 296 | no tab's write loses another's (`StoreIsNewest`); views catch up (`ViewIsCurrent`); an entry is `submitting` only while somebody awaits its answer or the tab is gone (`SubmittingIsAwaited`); a proof shows in one row (`OneRowPerProof`); a disabled button has a run under way (`ButtonHasARun`); outcomes are final and an entry cut off stays off (`OutcomesAreFinal`) |
| `airdrop` | 2 runs of the effect, 2 airdrops, lifetimes 2, clock up to 4 | 238 612 | one automatic airdrop a session wherever a run is cancelled (`AutomaticOnce`); the button comes free whichever await fails (`ButtonComesFree`) |

The programs have no runs of their own: `client`, `settlement` and
`pool_clients` contain every instruction of the registry, the session and the
pool program, called by their clients and by others with any arguments. What
those runs check of the programs is proved for all constants as well.

**Why these bounds are enough to meet the interesting cases.** Every constant of
the code that is large is a parameter here, small in the instance: what matters
is that it is reached and passed.

- u64: `MaxU64` of 5 lets epoch, clock and counters hit the guard of
  `checked_add`; 1 and 2 elsewhere, where the slot only orders events.
- Registry: two commitments and zero give a refusal, a duplicate and two agents;
  with rotations two slots apart the clock lets two of them fit.
- Session: two sessions of one agent key give two roots and two hashes, which
  anybody may use, so that a root can be opened first by its agent or by another
  caller, and closed with a hash of its own, of the other session, or with one
  burnt already. A second key would add hashes that differ in one more respect.
- Circuits: the field of 13 leaves room for two transfers below 3 and for the
  extra bit of the comparison (`CircuitConstants`), and is small enough for
  dropped range checks to wrap around within it. The theorems cover the rest.
- Pool: 3 leaves and a ring of 2 give 4 roots with the empty one: the ring wraps
  twice, roots are evicted, and the tree fills up; a fourth note finds it full.
  A note with two nullifiers can be spent once by each spender or twice by one.
  There is one depositor; the race of two is `pool_race`.
  The proof covers 32 and 2^28.
- Verifier: the five key files are an empty one, one cut at the end of the
  header, one and two inputs, and one too large; each may overwrite each.
- Cache: one tick is the lifetime of the first key and half that of the second;
  slot 0 and 1 tell an older body from a newer one. The proof lifts all of this.
- Client: two auth keys are a replacement. `client_rotation` is about a proof
  submitted to the verifier; that `open_session` does not compare epochs either
  is in the session program's model, but no run asks about it.
- Dashboard: two loads overtake each other, in either order, over a chain that
  moves once; two mounts leave a load of the first behind in the second; two
  failures fail a whole header. One circuit is matched, one has no hash, one no
  number.
- Ceremony: `MinContributors` is 2 (4 by default in the script) so that a chain
  can be too short, just right, or have a damaged file in it. Three
  finalizations allow phase 1, phase 2 and one of them again. `MaxFiles` and
  `MaxRuns` bound what a person would repeat.
- Recent proofs: three entries in a list of two, so one is always cut off.
- Airdrop: a clock of 4 passes both lifetimes once and starts them again.

Symmetry reduces people, tabs, proofs and the sessions of one agent, in runs that
check no liveness.

**What the properties leave open.** `HitsAreSound` bounds the age of a hit from
when the reply arrived, not from when it was asked for, and a JSON-RPC error that
comes with status 200 is cached like an answer. `LoadsNeverGoBack` bounds how much
older than the display an answer may be (not older than the display when the load
began); between two loads the older slot can still be shown. `ViewIsCurrent`
excuses a tab whose write the storage refused, and `OneRowPerProof` proofs that
are awaited, were abandoned, or `failed` in the list. `PublishedIsTrue` takes a
document on what it says: the hashes of a zkey and a vk of two beacons (possible
after a kill between `ceremony.sh:297` and 298) are both of earned keys, and are
published.

### Findings

*`pool_race`, a bug in the code.* `insert_commitment` stores the root its caller
computed and relates it neither to the current root nor to the note
(`veil-pool/src/lib.rs:51`). Two depositors who read the same tree each compute
a root from it, and the later instruction wins: the latest root no longer
commits to the earlier note, while `note_count` counts both. The comment at
lib.rs:35-37 trusts the caller because the root "is also constrained by the
proof in the same tx", but the handler looks at no proof. The note can be spent
only while the overwritten root is in the ring. The `pool_clients` run shows the
property, and `OneDepositorKeepsAllNotes` proves it, for one depositor at a time:
the race is the only way to lose a note.

*`ceremony_phase1`, a bug in the code.* `beacon` counts the phase-1 files without
asking whether they verified (`ceremony.sh:174-179`), writes `pot18_final.ptau`
(187) and then verifies it (188); if that fails the script stops and the file
stays. `phase2-init` says "missing; finish phase 1 (beacon) first" (222), but asks
only for the file; phase 1 is "complete" (194) after the verification. A damaged
contribution, left under its number, thus leads to a final key: line 296 verifies
the zkey against the same file and finds nothing wrong. `KeysRestOnVerifiedPot`
states what line 222 says. `ceremony` and the theorem `KeysAreEarned` claim less:
the zkey chain verified, and the key belongs to the file it was set up from.

*`client_rotation`, documentation and code differ.* The comment on `rotate_epoch`
(`veil-registry/src/lib.rs:46-47`) and README.md:116-118 say a rotation
invalidates outstanding proofs. `verify_inner` checks a proof against the stored
key and the public inputs handed in, and no program compares the epoch among
those with the registry's. A client proves in epoch 1, the authority rotates,
the proof is verified.

## Fairness and deadlock

Four runs check liveness; the others have no fairness and need none.

- `DevnetRpcCache`: weak fairness on `Arrive(f) \/ Reject(f)` for each fetch. An
  open fetch settles one way or the other: the runtime's HTTP client rejects
  when a connection fails or the endpoint stays silent past its timeouts. There
  is no fairness on `Reply`, nor on which way it settles, nor on callers.
- `Dashboard`: weak fairness on the timer (`LoadAgain`), on each request of a
  load settling one way or the other, on a load whose requests have settled
  (`Finish`) and on the manifest's fetch. Strong fairness on one thing: that a
  key asked for again and again is in the end answered with the chain as it is,
  because a cached answer expires after its lifetime. Failures are bounded, as
  nothing can be promised of a page whose every request fails; nobody is
  obliged to mount, unmount or upload.
- `VeilPoolClients`: each spender submits the proof it holds, and proves again
  when it has none and a note is unspent. This is an assumption about callers
  outside the repository and is what the property is about: the program never
  puts a note out of the reach of a spender who keeps trying. Depositors have no
  fairness. The bounded tree matters here: when it is full, no root is evicted
  any more. Before that a spender may lose any number of races.
- `AirdropPanel`: weak fairness on the button's own awaits. An awaited RPC
  request returns or throws, and `confirmTransaction` returns, throws, or gives
  up when the blockhash it waits with expires.

`CHECK_DEADLOCK FALSE` stands where the instance really ends: in `settlement` the
clock is at its bound and every session closed, in `pool_clients` and `pool_race`
the tree is full and every nullifier spent, in `airdrop` the clock and the faucet
are at their bounds, and in `dashboard` the visits are. All other runs check for deadlock.

## Proofs

Forty theorems, in eight modules, for every value of the constants that
meets the assumptions named. Every invariant and every action property that a
passing run checks is among them; the runs show them on small instances.

| Theorem | States |
|---|---|
| **`VeilClientProofs`**: registry, verifier, SDK clients | |
| `RegistryInvariant` | `Spec => [](TypeOK /\ AgentCountExact /\ EpochIsPaced /\ AgentEpochsReached)` |
| `RegistryKeepsItsAccounts` | `Spec => RegistryNeverRestarts` |
| `VerifierInvariant` | `VerifierSpec => [](VerifierTypeOK /\ VerifyIsExact /\ VerifiedUnderLatestKey)` |
| `SystemImplementsRegistry` | `SystemSpec => Spec` |
| `SystemImplementsVerifier` | if every key file has a header and a point, `SystemSpec => VerifierSpec` |
| `SessionEpochsAreReached` | `SystemSpec => []SessionEpochReached` |
| `MigrationsAreSafe` | `SystemSpec => MigrationIsSafe` |
| `RefusalsAreDeserved` | `SystemSpec => RefusedOnlyForOtherKey` |
| **`VeilSettlementProofs`**: session program, circuits, agents | |
| `SessionInvariant` | `Spec => [](TypeOK /\ NullifiersMatchClosings /\ SessionTimeline)` |
| `SessionFinality` | `Spec => SessionTermsFixed` |
| `SessionImplementsLedger` | `Spec => ImplementsLedger` |
| `ComparatorIsExact` | the circuit's 65-bit comparison is `<=` on 64-bit amounts |
| `NoSpendIsProvable` | the pool circuit accepts no signals of the SDK |
| `NoteHasManyNullifiers` | what the pool circuit accepts, it accepts with any other secret and the nullifier of that |
| `NoteConservesValue` | a pool note's amount is new amount and fee, over the integers |
| `FieldSumIsTotal` | the field sum a circuit accumulates is the sum over the integers |
| `CompletionIsWithinCeiling` | accepted completion signals: net amount = integer sum of the transfers, at most the ceiling, whatever ceiling in the field is named |
| `SettlementImplementsSession` | `SettlementSpec => Spec` |
| `ClosingsStayApart` | `SettlementSpec => OwnClosingsStayApart` |
| `SettlementsWithinCeilings` | `SettlementSpec => []SettledWithinCeiling` |
| `CeilingsAreReachable` | `SettlementSpec => []CeilingIsReachable` |
| **`VeilPoolClientsProofs`**: pool program, depositors, spenders | |
| `PoolInvariant` | `Spec => [](TypeOK /\ RingIsWindow /\ CountersAgree /\ NoDoubleSpend)` |
| `PoolImplementsNotePool` | `Spec => ImplementsNotePool` |
| `ClientsImplementPool` | `ClientsSpec => Spec` |
| `OneDepositorKeepsAllNotes` | with one depositor, `ClientsSpec => []LatestRootHoldsAllNotes` |
| **`DevnetRpcCacheProofs`** | |
| `CacheInvariant` | `Spec => [](TypeOK /\ OneFetchPerKey /\ HitsAreSound /\ IdsLineUp /\ AnswersNeverGoBack)` |
| `CacheImplementsOrderedReads` | `Spec => ImplementsOrderedReads` |
| **`DashboardProofs`** | |
| `LoadsNeverGoBackHolds` | `Spec => []LoadsNeverGoBack` |
| `StatusesAreTrue` | `Spec => []StatusIsTrue` |
| **`CeremonyProofs`** | |
| `TranscriptIsTrue` | `Spec => []LoggedIsInChain` |
| `KeysAreEarned` | `Spec => []FinalKeysEarned` |
| `PapersAreTrue` | `Spec => []PublishedIsTrue` |
| `KeysBelongToPot` | `Spec => KeysFitPot` |
| **`RecentProofsProofs`** | |
| `NoAdditionIsLost` | `Spec => []StoreIsNewest` |
| `ViewsCatchUp` | `Spec => []ViewIsCurrent` |
| `SubmittingHasItsRun` | `Spec => []SubmittingIsAwaited` |
| `ButtonsComeFree` | `Spec => []ButtonHasARun` |
| `ProofsHaveOneRow` | `Spec => []OneRowPerProof` |
| `OutcomesStay` | `Spec => OutcomesAreFinal` |
| **`AirdropPanelProofs`** | |
| `AskedOnceASession` | `Spec => []AutomaticOnce` |

`ClientsSpec => Spec` and the three like it say that a composition is a refinement
of the program inside it, variables unchanged; so every theorem about the
program is one about the program with its callers, and the runs that check the
program's properties check them there.

**Assumptions.** `MaxU64Assumption`: u64 has at least the value 1.
`MinRotateAssumption`: the rotation interval is a number. `KeysAssumption`: the
zeroed pubkey is no signer. `SessionConstants`: notionals and epochs fit in u64,
and the zero digest may be passed. `PoolConstants`: the ring has a place, and
the tree's leaves fit in u64. `VerifierConstants`: lengths are numbers and blank
is no key. `CacheConstants`: lifetimes are positive, the markers for "no key" and
"no id" are neither. `ClientsConstants`: the pool's roots are its trees, the zero
root is none of them, and each note has at least one nullifier. `ClientConstants`:
there is an auth circuit, each key file is for one circuit and each circuit has a
first key; who runs the migration may sign. `CircuitConstants`: the field has
room for all transfers of a session and for the comparison's extra bit above
them, as BN254 has for sixteen amounts of 64 bits. `SettlementConstants`: u64 is
the range the circuits check amounts for, and what agents pass to the program is
among the values it takes, so that other callers may pass it, too.
`DashboardConstants`: the page lists what the table
lists, of the three circuits; the hash published for a circuit is that of a key
file or of none; no key file is empty, so that two have the same bytes only if
they are one. `CeremonyConstants`: the phase-1 chain is no circuit's, the absence
of a name is no name, and the markers for no key and a development key are no
ceremony's key. `EntriesAssumption`: the list has room for an entry.
`PanelConstants`: the button and the panel's own reading are no runs of the
effect. Bounds that only keep the instances finite (`MaxSlot`, `MaxLoads`,
`MaxRuns`, ...) are arbitrary numbers in the theorems. All assumptions are
evaluated by TLC in the runs.

**Arguments.** Each proof gives an inductive invariant, shows that the initial
states satisfy it and that every action keeps it, and draws the properties from it.

- *Registry.* `Cardinality` says something only of finite sets, so `IInv` adds
  that the agent accounts are finitely many, and that there are none counted
  before `initialize`. Pacing is arithmetic: a rotation adds one to the epoch
  and at least `MinRotateSlots` to the slot stored.
- *Session.* The two properties and the types are inductive together: for a
  nullifier to name the session closed, a session must lie at the address of
  its own root, which is part of the timeline. `OpenEffect` and `CloseEffect`
  say once what an instruction does to the accounts; invariant, finality and
  refinement are drawn from them.
- *Pool.* Besides the properties only that an account not yet initialised is
  zeroed. The work is in the ring: `NextIndexWraps`, `BehindIsIndex` and
  `BehindCovers` say that counting back from the current place visits every
  place once, and moving the current place on shifts each by one. The same facts
  turn "some place holds the root" into "one of the last roots is it", which is
  what the refinement needs of a spend.
- *Verifier.* `KeysHeld` says what an account holds: its own tag, the length
  and the whole of the key uploaded last, with anything behind. Exactness then
  follows for any account state, without looking at the steps (`HeldKeyIsExact`).
  An empty key file or one cut off in its header is covered, too; only what the
  clients send (`SystemImplementsVerifier`) is an instruction of the model just
  for key files that have a point, as snarkjs makes them.
- *Cache.* That answers never go back needs to know where an answer can come
  from. `EntriesNewest`: while an entry lives, nobody fetches its key, and
  nothing newer has been shown for it. `RepliesNewest`: nothing newer has been
  shown than a reply on its way. Both rest on `TableExact`, the exact
  correspondence of open fetches, the table and the handlers waiting. The
  refinement to `OrderedReads` is the same argument step by step.
- *Pool callers.* `CInv`: a tree somebody read, however old, has no more leaves
  than were inserted, so the tree computed from it still fits where the program
  has room and is a root the program takes; hence every step of a caller is one
  of the program (`ProgramStep`). `OneInv` adds, for one depositor, that the tree
  it holds is the latest until it inserts again.
- *Client.* `SInv`: an epoch held was reached, or was read as 1 before there was
  a registry; a migration reported done has left one. The registry only moves on
  (`Onward`), which keeps both, whatever verifier, wallet and prover do. A moving
  client changes one record, whose soundness is shown per action (`ReadMoves`,
  `ProveMoves`, `SubmitMoves`). For refusals the clients' steps keep `KeysHeld`,
  and `HeldKeyTakes` shows that an account which holds a proof's key takes
  whatever the SDK sends for it, by its tables of tags and entry points.
- *Settlement.* `SInv` says only what agents hold: a handle holds what its session
  was opened with, and a bundle the signals of a completion proof for its own
  handle. It says nothing of the accounts, which belong to everybody. Below the
  modulus nothing wraps, and comparisons are arithmetic; that the comparison is
  sound for a ceiling of any size (`ComparatorIsSound`) is what makes a proof good
  for the ceiling in it, and an account that shows that ceiling and that net
  commitment commits to the sum of the transfers. The sum of a session is a
  recursive function; that it is defined, that partial sums are bounded by the
  number of transfers times the largest amount, and that the field sum equals the
  integer sum, are inductions. `SetInduction` gets each from the well-foundedness
  of `<` on the naturals: the set of numbers for which a statement holds contains 0
  and with each number the next, hence it contains all. For `ClosingsStayApart`,
  `CloseEffect` says that one nullifier is new and names the session closed, and the
  hash of secret key and session id is of one session id only.
- *Ceremony.* `IInv` adds to the properties what a command in progress is allowed
  to rely on after each of its programs. `ContributionSound`: the file written is
  the last of its chain and not yet logged; it is logged only if it verified.
  `FinalizationSound`: what the beacon made comes of the last file and of the newest
  run, and is copied only when it is earned. `OriginsSound`: a chain's files were set
  up from a phase-1 file of an earlier beacon with enough contributions, although
  perhaps not from the one there now. A kill forgets the command and
  nothing else, so it keeps all of it. Numbers in a log rise, so looking a
  contributor up by number finds its own line (`LookupIsTrue`), and a log only
  grows, so a document of any age stays true (`PapersSound`).
- *Recent proofs.* `StoreIsNewest` position by position (`StoreIsRecorded`); a
  run is recorded once, between its prover and its transaction (`RecordedOnce`),
  so that an entry's place, outcome and run determine each other (`EntriesSound`,
  `SubmittingIsAwaited`). Without the last, `OneRowPerProof` and
  `OutcomesAreFinal` are not inductive: a second settlement would be possible.
- *Dashboard.* `LoadsKnown`: the floor of a load is at most the newest answer
  given for the part, so any answer to come is above it, whichever load it is
  for. `HistoryHeld`: at every slot of the past, each account held the key
  uploaded last, from its first byte. `StatusIsAboutARead` says which answers a
  status can come from; `PinnedIsUploaded` and `BytesTellKeysApart` do the rest.
- *Airdrop.* Only one run gets past the mark of the session, because setting it
  and looking at it are one step: it stays marked, so no second run is ever
  `Touched`, cancelled or not.

**Only model-checked.** Liveness, for which the prover has no means:
`DepositedNotesGetSpent`, `EveryRequestAnswered`, `ButtonComesFree` of the airdrop
panel, `PanelCatchesUp`. The three runs that end in a counterexample
(`pool_race`, `client_rotation`, `ceremony_phase1`) show their violation on one
instance, which is all a violation needs. Refinement is proved
for safety specifications, which all three abstract ones are.

**Inductive invariants on instances.** The invariants of `CeremonyProofs`,
`RecentProofsProofs`, `DashboardProofs` and `AirdropPanelProofs` were checked by
TLC on the states of the runs before they were proved; a proof module in place of
the module an `MC` module extends, and `IInv` in its cfg, repeats that.

## Where code and comments part

Met while modelling. The model follows the code in each case.

- `artifacts/veilrail/src/pages/Docs.tsx:226` calls the registry an append-only
  Merkle tree that bumps the epoch on each insert; `register_agent` leaves the
  epoch alone and keeps no tree.
- `Docs.tsx:321-323`: sessions expire at the next epoch; nothing expires one.
- `veil-session/src/lib.rs:4-6` says both proofs are verified, 58-64 that a closing
  is gated on a proof, 69-71 that a closer cannot replay an attestation generated
  for a different session. Lines 65-75 check that two digests are not zero; neither
  the attestations nor the nullifier hash are related to the session or to a
  proof. Another caller can therefore open an agent's root on other terms, close
  its session with any hash, or burn its hash on another session, and the model
  has all of these.
- The module comments of session (5-6), pool (3-5) and verifier (5-6) describe
  CPI calls into the verifier; the programs make none.
- `veil-pool/src/lib.rs:12` and 68 speak of the last 32 roots known; until 31
  insertions have been made the ring's zero filler (27) matches, too (70).
- The session account's `max_notional` is compared with nothing on chain, and the
  SDK proves against the ceiling the caller's own handle holds.
- Each call of `proveTransfer` makes a proof of its own, but all proofs of one
  session carry one nullifier, so only one of them settles.
- `packages/circuits/README.md:135-139` asks for four independent contributors
  and says the script enforces it; `ceremony.sh:174-179` and 282-287 count
  files, whoever made them and whether or not they verified. What `Ceremony`
  shows is that a key is put in place only from a zkey chain that verified; for
  phase 1 this is false (`ceremony_phase1`).
- `build.sh:17-19` says an existing final zkey is not overwritten; lines 51-56
  keep it only if the vk is there, too. After a kill between
  `ceremony.sh:297` and the export, a development build replaces it.
- `generatePoolNoteProof` hashes four values into the new note commitment, its
  secret included (`packages/sdk/src/proof.ts:114`), `veil_pool_note.circom:110-114`
  three. The signals contradict the circuit whatever is asked for, so `fullProve`
  throws on every spend that is in order (`NoSpendIsProvable`), where
  `packages/sdk/src/index.ts:4-5` offers proofs for all three circuits.
- `record-hashes` (`ceremony.sh:339-376`) hashes what lies in `build/`: after a
  kill between 297 and 298 a zkey and a vk of different beacons, after a
  development build the keys of one party.
- The same subcommand writes neither `circuit_id` nor `vk_onchain_sha256`, which
  `Ceremony.tsx:178-179` and 211 and the dashboard's table need and
  `upload-vk.sh:26` asks to paste in by hand. Running it again erases them: the
  page then shows an error for every circuit and the table never leaves
  "loading", where `Ceremony.tsx:271-272` promises that any drift is "a loud
  MISMATCH".
- The ceremony page reads each key once: after a failed request it says "RPC
  error" until it is visited again. The dashboard's table shows a failed request
  as a missing account (`deployment.ts:251-253`), so `StatusIsTrue` lets "missing"
  mean less there.
- A failed fetch of vk-hashes.json is memoised (`deployment.ts:261-272`): the
  table stays on "loading" until the page is reloaded.
- The header's error flag, set by a load that failed while a later one succeeded,
  stays until the next load starts.
- `RecentActivityFeed.tsx:31` says signatures come from devnet with "no backend in
  between"; `deployment.ts:43-47` puts the cache there.
- `fetchOnChainProofs` is said (`deployment.ts:80-82`) to return an empty list on
  any RPC failure; a `getTransaction` that fails only shortens it (100).
- `submitDemoProof.ts:11` says an entry is first recorded as `local`; with a
  wallet connected it starts as `submitting`.
- `demoProof.ts:106` proves with registry epoch 1, whatever the registry's is.
- When the answer to a submission is lost, a proof is `failed` in the list and
  verified on chain; the dashboard then has both rows, which `OneRowPerProof`
  allows for.
- When the storage refuses the outcome, the entry stays `submitting`.
- `useAutoAirdrop.ts:51-56` announces the balance after the airdrop, which behind
  the development proxy may be the cached one from before.

## What is not modelled

- Zero knowledge and the soundness of Groth16: a proof exists exactly when the
  predicate holds of its signals. Poseidon and SHA-256 are free of collisions.
- Byte layouts and instruction encoding (parts of `hash.ts`, `types.ts`,
  `submit.ts`): pure functions with unit tests of their own, among them the
  packing of a snarkjs key into the bytes that are put on chain.
- `deploy-programs.sh` and `build-circuits.sh`, which run tools in a row.
  `migrations/upload_vk.ts`, which `upload-vk.sh` calls, is not in the
  repository; an upload is one `upload_vk` instruction.
- In the ceremony: a program of a subcommand killed in the middle of writing a
  key or copying one into place (297-298; only documents are cut off), and edits of
  the circuits once it has begun. One `POT_POWER`, on a directory that starts
  empty: the script keeps a phase-1 chain per `POT_POWER` but one `pot.log` for all
  (31-33, 151, 451), so after a dry run with another power a line of the log may
  name a file of the wrong chain.
  `verify-pot` and `phase2-verify` write nothing.
- Solana's forks and rollbacks: a transaction that landed stays. The code waits
  for "confirmed" and treats it as final.
- Eviction from the RPC cache: the code has none, entries are only overwritten.
- The tables the ceremony page renders, the contributors' card, parsing of
  program logs, the clipboard.
- Pages, UI kit (`use-toast.ts` among it), the generated API client with its
  fetch wrapper, the health route, the logger and the database package, which
  has no tables.

About three quarters of the repository's lines of code are of that last kind:
vendored components and pages that render text. The modules cover about two
thirds of the lines that keep or change state.

## Plan

Done, in this order: the four programs with their abstract specifications and
proofs (the core: what is on chain cannot be repaired); the pool's callers and
the SDK client, where programs and clients interleave; the RPC cache with its
proof and the endpoint it implements; the circuits and the settlement of
sessions; the dashboard on top of that endpoint; the ceremony with what it
publishes; the browser's state; the proofs of all compositions on chain.

What is proved has grown with it: first the programs, then their callers, the
cache, and now the code off chain (ceremony, dashboard, recent proofs, airdrop),
the sums of a session and the refusals of the verifier.

What is left, in order of importance:

1. *An abstract list*: `RecentProofs` as an implementation of a bounded log that
   tabs append to and settle, which `StoreIsNewest` and `OutcomesAreFinal` hint at.
2. *Racing depositors*: `pool_race` shows that a note can be lost; how many can be,
   for any number of depositors, is not stated yet.
3. *The auth circuit*: that the inputs of `openSession` always satisfy it, as
   `CeilingsAreReachable` says of the completion circuit.

## Running it

With TLC and TLAPS installed, and the community modules on TLC's path:

    tlc -config MCVeilSettlement.cfg MCVeilSettlement   # a run: its cfg and its MC module
    tlapm VeilPoolClientsProofs.tla                     # the proofs of a module

`MCVeilClientRotation.cfg` goes with `MCVeilClient`, `MCVeilPoolRace.cfg` with
`MCVeilPoolClients`, `MCCeremonyPhase1.cfg` with `MCCeremony`; these three end
in a counterexample. The longest run is `ceremony`, two to three minutes; the
longest proof that of the cache.
