------------------------------ MODULE Ceremony ------------------------------
(***************************************************************************)
(* The trusted setup as ceremony.sh and build.sh run it on the             *)
(* coordinator's directory: a chain of powers-of-tau files (phase 1), a    *)
(* chain of zkey files per circuit (phase 2), and for each chain a log.    *)
(*                                                                         *)
(* A subcommand is several programs run one after the other under `set     *)
(* -e': it stops at the first that fails, it may be killed between any     *)
(* two, and what it has written stays.  `job' is the subcommand running.   *)
(* The file numbered 0 opens a chain and holds no contribution, so chain[x]*)
(* keeps its file number i at position i + 1.                              *)
(*                                                                         *)
(* The directory starts empty and is used with one POT_POWER: the script   *)
(* keeps a phase-1 chain per POT_POWER but one pot.log for all of them.    *)
(***************************************************************************)
EXTENDS Naturals, Sequences, SequencesExt

CONSTANTS
  Circuits,          \* CIRCUITS
  Names,             \* contributor names given on the command line
  NoName,            \* of a file numbered 0
  Pot,               \* the phase-1 chain
  MinContributors,   \* MIN_PHASE1_CONTRIBUTORS and MIN_PHASE2_CONTRIBUTORS
  NoJob, NoFile, Dev,
  Torn,              \* a document cut off when the subcommand writing it was killed
  MaxFiles,          \* bound on the files of a chain
  MaxRuns            \* bound on finalizations (beacon, phase2-finalize)

Chains == Circuits \cup {Pot}

\* A finalized file has the beacon run that made it, whether it is sound, the number
\* of contributions in it (from), and whether it was verified; the zkey or vk of a
\* circuit also the pot18_final.ptau its chain was set up from (pot).
PtauFiles == [run : Nat, sound : BOOLEAN, from : Nat, verified : BOOLEAN, pot : {NoFile}]
KeyFiles == [run : Nat, sound : BOOLEAN, from : Nat, verified : BOOLEAN,
             pot : PtauFiles \cup {NoFile}]

ASSUME CeremonyConstants ==
  /\ Pot \notin Circuits /\ NoName \notin Names
  /\ NoFile \notin KeyFiles /\ Dev \notin KeyFiles
  /\ MinContributors \in Nat /\ MaxFiles \in Nat /\ MaxRuns \in Nat

VARIABLES
  chain,     \* chain[x]: the numbered files of x
  logged,    \* logged[x]: the contribution lines of the log of x
  potFinal,  \* pot18_final.ptau
  zkey,      \* zkey[c]: build/c/c_final.zkey
  vk,        \* vk[c]: build/c/c_vk.json
  runs,      \* beacons applied so far; each makes its output different
  job,       \* the subcommand running
  devPtau,   \* pot15_final.ptau is there
  doc,       \* the document followed: one of Docs, the same in all of a behaviour
  copy,      \* the copy of it followed: what is in it,
  onSite     \* and whether it is the site's, or the one in ceremony/

vars == <<chain, logged, potFinal, zkey, vk, runs, job, devPtau, doc, copy, onSite>>

\* TRANSCRIPT.md, vk-hashes.json and download-index.json.
Docs == {"transcript", "hashes", "index"}

\* A numbered file has its contributor (by), whether `verify' finds the chain up
\* to it in order (sound), and for a zkey the pot18_final.ptau it was set up from
\* (pot).

-----------------------------------------------------------------------------
Init ==
  /\ chain = [x \in Chains |-> <<>>]
  /\ logged = [x \in Chains |-> <<>>]
  /\ potFinal = NoFile
  /\ zkey = [c \in Circuits |-> NoFile]
  /\ vk = [c \in Circuits |-> NoFile]
  /\ runs = 0
  /\ job = NoJob
  /\ devPtau = FALSE
  /\ doc \in Docs
  /\ copy = NoFile
  /\ onSite = FALSE

Idle == job = NoJob
Papers == <<doc, copy, onSite>>
Outputs == <<potFinal, zkey, vk, runs>>

\* init: file 0 of phase 1, never over an existing one.
cmd_init ==
  /\ Idle /\ chain[Pot] = <<>>
  /\ chain' = [chain EXCEPT ![Pot] = <<[by |-> NoName, sound |-> TRUE, pot |-> NoFile]>>]
  /\ UNCHANGED <<Papers, devPtau, logged, Outputs, job>>

\* phase2-init: file 0 of circuit c, set up from pot18_final.ptau if there is one,
\* verified or not.
cmd_phase2_init(c) ==
  /\ Idle /\ potFinal # NoFile /\ chain[c] = <<>>
  /\ chain' = [chain EXCEPT ![c] = <<[by |-> NoName, sound |-> TRUE, pot |-> potFinal]>>]
  /\ UNCHANGED <<Papers, devPtau, logged, Outputs, job>>

\* contribute and phase2-contribute begin: a name, and a file to build on.
StartContribute(x, name) ==
  /\ Idle /\ chain[x] # <<>>
  /\ job' = [cmd |-> "contribute", on |-> x, by |-> name, at |-> "write", out |-> NoFile]
  /\ UNCHANGED <<Papers, devPtau, chain, logged, Outputs>>

\* Mutation: the last file's own number, once there is a contribution.
LastNumber(x) == IF Len(chain[x]) = 1 THEN 1 ELSE Len(chain[x]) - 1

\* next_pot_index, next_phase2_index: one more than the last file's number.
NextNumber(x) == Len(chain[x])

\* snarkjs writes the next file; damaged, or built on a damaged one, it is
\* unsound, and nothing is checked before it is written.
WriteContribution ==
  /\ ~Idle /\ job.cmd = "contribute" /\ job.at = "write"
  /\ LET x == job.on
         n == NextNumber(x)
     IN  /\ n < MaxFiles
         /\ \E intact \in BOOLEAN :
              chain' = [chain EXCEPT ![x] =
                SubSeq(@, 1, n) \o
                <<[by |-> job.by, sound |-> intact /\ @[n].sound, pot |-> @[n].pot]>>]
  /\ job' = [job EXCEPT !.at = "verify"]
  /\ UNCHANGED <<Papers, devPtau, logged, Outputs>>

LastFile(x) == chain[x][Len(chain[x])]

\* Mutation: the exit status of `snarkjs verify' is not looked at.
AnyVerifies(x) == TRUE

\* Mutation: the zkey is checked by itself, not against a pot18_final.ptau.
VerifiesAlone(x) == LastFile(x).sound

\* snarkjs verify on the last file of x; a zkey is checked against the present
\* pot18_final.ptau, which is not itself checked again.
Verifies(x) ==
  /\ LastFile(x).sound
  /\ x # Pot => LastFile(x).pot = potFinal

VerifyContribution ==
  /\ ~Idle /\ job.cmd = "contribute" /\ job.at = "verify"
  /\ job' = IF Verifies(job.on) THEN [job EXCEPT !.at = "log"] ELSE NoJob
  /\ UNCHANGED <<Papers, devPtau, chain, logged, Outputs>>

LogContribution ==
  /\ ~Idle /\ job.cmd = "contribute" /\ job.at = "log"
  /\ logged' = [logged EXCEPT ![job.on] =
       Append(@, [number |-> Len(chain[job.on]) - 1, by |-> job.by])]
  /\ job' = NoJob
  /\ UNCHANGED <<Papers, devPtau, chain, Outputs>>

\* The contributions a finalization counts: the files but file 0.
Contributions(x) == Len(chain[x]) - 1

\* What a beacon applied to the last file of x gives.
Beaconed(x) ==
  [run |-> runs + 1, sound |-> LastFile(x).sound, from |-> Len(chain[x]) - 1,
   verified |-> FALSE, pot |-> LastFile(x).pot]

\* beacon and phase2-finalize begin: the count of contributions, then the
\* beaconed file, kept apart from the numbered ones.
StartFinalize(x) ==
  /\ Idle /\ chain[x] # <<>> /\ runs < MaxRuns
  /\ Contributions(x) >= MinContributors
  /\ job' = [cmd |-> "finalize", on |-> x, by |-> NoName,
             at |-> IF x = Pot THEN "write" ELSE "verify", out |-> Beaconed(x)]
  /\ runs' = runs + 1
  /\ UNCHANGED <<Papers, devPtau, chain, logged, potFinal, zkey, vk>>

\* Phase 1: pot18_final.ptau is written first and verified afterwards.
PreparePotFinal ==
  /\ ~Idle /\ job.cmd = "finalize" /\ job.on = Pot /\ job.at = "write"
  /\ potFinal' = job.out
  /\ job' = [job EXCEPT !.at = "verify"]
  /\ UNCHANGED <<Papers, devPtau, chain, logged, zkey, vk, runs>>

VerifyPotFinal ==
  /\ ~Idle /\ job.cmd = "finalize" /\ job.on = Pot /\ job.at = "verify"
  /\ potFinal' = [potFinal EXCEPT !.verified = potFinal.sound]
  /\ job' = NoJob
  /\ UNCHANGED <<Papers, devPtau, chain, logged, zkey, vk, runs>>

\* Phase 2: the beaconed zkey is verified first.
VerifyBeaconed ==
  /\ ~Idle /\ job.cmd = "finalize" /\ job.on \in Circuits /\ job.at = "verify"
  /\ job' = IF Verifies(job.on)
            THEN [job EXCEPT !.at = "copy", !.out.verified = TRUE] ELSE NoJob
  /\ UNCHANGED <<Papers, devPtau, chain, logged, Outputs>>

CopyFinal ==
  /\ ~Idle /\ job.cmd = "finalize" /\ job.at = "copy"
  /\ zkey' = [zkey EXCEPT ![job.on] = job.out]
  /\ job' = [job EXCEPT !.at = "export"]
  /\ UNCHANGED <<Papers, devPtau, chain, logged, potFinal, vk, runs>>

ExportVk ==
  /\ ~Idle /\ job.cmd = "finalize" /\ job.at = "export"
  /\ vk' = [vk EXCEPT ![job.on] = zkey[job.on]]
  /\ job' = NoJob
  /\ UNCHANGED <<Papers, devPtau, chain, logged, potFinal, zkey, runs>>

\* The subcommand is killed, or the next program of it fails to run.
Kill == ~Idle /\ job' = NoJob /\ UNCHANGED <<Papers, devPtau, chain, logged, Outputs>>

\* build.sh leaves the keys of c alone only when both are there.
BothKept(c) == zkey[c] # NoFile /\ vk[c] # NoFile

\* dev: the one-party phase 1 of a development build, as often as one likes.
cmd_dev ==
  /\ Idle /\ devPtau' = TRUE
  /\ UNCHANGED <<Papers, chain, logged, Outputs, job>>

\* DEV_BUILD=1 build.sh: single-party keys otherwise; killed before the export it
\* leaves the vk as it was.
DevBuild(c) ==
  /\ Idle /\ devPtau /\ ~BothKept(c)
  /\ zkey' = [zkey EXCEPT ![c] = Dev]
  /\ vk' \in {vk, [vk EXCEPT ![c] = Dev]}
  /\ UNCHANGED <<Papers, devPtau, chain, logged, potFinal, runs, job>>

\* Mutation: the line in the number's place is taken, not the one that has it.
LineInPlace(x, number) ==
  IF number \in DOMAIN logged[x] THEN logged[x][number].by ELSE NoName

\* lookup_contributor: the first line of the log with that number, if any.
lookup_contributor(x, number) ==
  LET lines == {j \in DOMAIN logged[x] : logged[x][j].number = number}
  IN  IF lines = {} THEN NoName
      ELSE logged[x][CHOOSE j \in lines : \A i \in lines : j <= i].by

\* What transcript, record-hashes and download-index put together: the logs as
\* they are; the finalized files there are; the numbered files, each with the
\* name logged for it.
Content ==
  CASE doc = "transcript" -> logged
    [] doc = "hashes" -> [ptau |-> potFinal, zkey |-> zkey, vk |-> vk]
    [] doc = "index" -> [x \in Chains |-> [i \in DOMAIN chain[x] |->
                           IF i = 1 THEN NoName ELSE lookup_contributor(x, i - 1)]]

\* The document is written over the one before, or cut off on the way; from then
\* on this edition is followed.
WriteDocument ==
  /\ Idle
  /\ copy' \in {Torn, Content}
  /\ onSite' = FALSE
  /\ UNCHANGED <<chain, logged, Outputs, job, devPtau, doc>>

\* publish-website copies the document if it is there, whatever is in it; from then
\* on the site's copy is followed.
cmd_publish_website ==
  /\ Idle /\ copy # NoFile /\ ~onSite
  /\ copy' \in {Torn, copy}
  /\ onSite' = TRUE
  /\ UNCHANGED <<chain, logged, Outputs, job, devPtau, doc>>

Next ==
  \/ cmd_init \/ cmd_dev
  \/ WriteDocument \/ cmd_publish_website
  \/ \E c \in Circuits : cmd_phase2_init(c) \/ DevBuild(c)
  \/ \E x \in Chains, name \in Names : StartContribute(x, name)
  \/ \E x \in Chains : StartFinalize(x)
  \/ WriteContribution \/ VerifyContribution \/ LogContribution
  \/ PreparePotFinal \/ VerifyPotFinal
  \/ VerifyBeaconed \/ CopyFinal \/ ExportVk
  \/ Kill

Spec == Init /\ [][Next]_vars

-----------------------------------------------------------------------------
\* The transcript tells the truth, wherever a subcommand was killed: a line
\* names a contribution that is in the chain under that number, by that name,
\* and that had verified; lines come in the order of the chain and none twice.
LoggedIsInChain ==
  \A x \in Chains : \A j \in 1 .. Len(logged[x]) :
    LET line == logged[x][j]
    IN  /\ line.number < Len(chain[x])
        /\ chain[x][line.number + 1].by = line.by
        /\ chain[x][line.number + 1].sound
        /\ \A i \in 1 .. j - 1 : logged[x][i].number < line.number

\* A key of the ceremony stems from a chain that verifies, set up from a
\* pot18_final.ptau that an earlier beacon made, with the required number of
\* contributions in either phase.  That pot18_final.ptau itself verifies is not
\* said: nothing asks it before phase 2 begins (see KeysRestOnVerifiedPot).
Earned(key) ==
  /\ key.sound /\ key.verified /\ key.from >= MinContributors
  /\ key.pot # NoFile /\ key.pot.run < key.run /\ key.pot.from >= MinContributors

OfCeremony(key) == key \notin {NoFile, Dev}

\* Whatever was killed or run again, each ceremony key in build/ is earned; a vk of
\* the ceremony lies beside a zkey of the ceremony, of the same beacon or a later
\* one.  (The two may differ: a finalization killed between the copy and the
\* export leaves the vk of the one before.)
FinalKeysEarned ==
  \A c \in Circuits :
    /\ \A key \in {zkey[c], vk[c]} : OfCeremony(key) => Earned(key)
    /\ OfCeremony(vk[c]) => OfCeremony(zkey[c]) /\ vk[c].run <= zkey[c].run

\* A beacon run again after phase 2 began leaves keys as they are and lets none in
\* that belongs to the earlier file: what a step puts into build/ was set up from
\* the pot18_final.ptau there at that time.
KeysFitPot ==
  [][\A c \in Circuits :
       \A key \in ({zkey'[c]} \ {zkey[c]}) \cup ({vk'[c]} \ {vk[c]}) :
         OfCeremony(key) => key.pot = potFinal]_vars

\* ceremony.sh:222, phase2-init: "missing; finish phase 1 (beacon) first".  Phase 1
\* is finished ("phase 1 complete", line 194) when pot18_final.ptau has verified;
\* of what phase 2 then makes, every key rests on a file that has.  The script
\* asks only whether the file is there, and lines 187-188 leave one that failed.
KeysRestOnVerifiedPot ==
  \A c \in Circuits : OfCeremony(zkey[c]) => zkey[c].pot.verified

Whole(paper) == paper \notin {NoFile, Torn}

\* What is written and published is true of the ceremony, however old it is and
\* whatever was killed before it was made.  Index: a name is that of the person
\* who made the file, and a file whose log line is missing has no name, not a
\* neighbour's.  Hashes: each one of a ceremony key is of a key that was earned (a
\* zkey and a vk of two beacons may stand side by side, as in FinalKeysEarned).
\* Transcript: its lines are the first of the logs.
PublishedIsTrue == Whole(copy) =>
  CASE doc = "index" ->
         \A x \in Chains : \A i \in DOMAIN copy[x] :
           i <= Len(chain[x]) /\ copy[x][i] \in {NoName, chain[x][i].by}
    [] doc = "hashes" ->
         \A c \in Circuits : \A key \in {copy.zkey[c], copy.vk[c]} :
           OfCeremony(key) => Earned(key)
    [] doc = "transcript" ->
         \A x \in Chains : IsPrefix(copy[x], logged[x])

=============================================================================
