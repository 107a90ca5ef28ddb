--------------------------- MODULE CeremonyProofs ---------------------------
(***************************************************************************)
(* Theorems of Ceremony, for any circuits, contributors and required       *)
(* number of contributions, and chains and logs of any length: wherever a  *)
(* subcommand is killed, the log stays true of the chain, the keys in      *)
(* build/ are earned and fit the phase-1 file they were made beside, and   *)
(* no document written or published is false.                              *)
(***************************************************************************)
EXTENDS Ceremony, SequenceTheorems, TLAPS

-----------------------------------------------------------------------------
(* The inductive invariant. *)

People == Names \cup {NoName}
Files == [by : People, sound : BOOLEAN, pot : PtauFiles \cup {NoFile}]
Lines == [number : Nat, by : People]
Stages == {"write", "verify", "log", "copy", "export"}
Jobs == [cmd : {"contribute", "finalize"}, on : Chains, by : People, at : Stages,
         out : KeyFiles \cup {NoFile}]

ChainsTyped == chain \in [Chains -> Seq(Files)]
LogsTyped == logged \in [Chains -> Seq(Lines)]

\* A pot18_final.ptau, whether or not it verified, had its contributions.
PotOK(pot) == pot \in PtauFiles /\ pot.run <= runs /\ pot.from >= MinContributors

\* A key of the ceremony, if it is one: it was earned in a run there has been.
KeyOK(key) ==
  OfCeremony(key) => key \in KeyFiles /\ Earned(key) /\ key.run <= runs

KeysSound ==
  /\ runs \in Nat
  /\ potFinal # NoFile => PotOK(potFinal)
  /\ zkey \in [Circuits -> {NoFile, Dev} \cup KeyFiles]
  /\ vk \in [Circuits -> {NoFile, Dev} \cup KeyFiles]
  /\ \A c \in Circuits :
       /\ KeyOK(zkey[c]) /\ KeyOK(vk[c])
       /\ OfCeremony(vk[c]) => OfCeremony(zkey[c]) /\ vk[c].run <= zkey[c].run

\* A zkey file was set up from some pot18_final.ptau, a phase-1 file from none.
OriginOK(x, f) ==
  IF x = Pot THEN f.pot = NoFile ELSE f.pot # NoFile /\ PotOK(f.pot)

OriginsSound ==
  \A x \in Chains : \A i \in 1 .. Len(chain[x]) : OriginOK(x, chain[x][i])

\* The contribution under way is the last file of its chain once it is written,
\* and no line of the log has its number yet; it is logged only if it verified.
ContributionSound ==
  /\ chain[job.on] # <<>> /\ job.by \in Names
  /\ job.at # "write" =>
       /\ LastFile(job.on).by = job.by
       /\ \A j \in 1 .. Len(logged[job.on]) :
            logged[job.on][j].number < Len(chain[job.on]) - 1
  /\ job.at = "log" => LastFile(job.on).sound

\* What is finalized comes of the last file of its chain and of the newest run;
\* it is copied only when it is earned and belongs to the present pot18_final.ptau,
\* and exported from the copy.
FinalizationSound ==
  /\ chain[job.on] # <<>>
  /\ job.out \in KeyFiles /\ job.out.run = runs /\ job.out.from >= MinContributors
  /\ job.out.sound = LastFile(job.on).sound /\ job.out.pot = LastFile(job.on).pot
  /\ job.on = Pot => job.out \in PtauFiles
  /\ job.on # Pot => job.out.pot # NoFile /\ PotOK(job.out.pot) /\ job.out.pot.run < job.out.run
  /\ job.on = Pot /\ job.at = "verify" => potFinal = job.out
  /\ job.at \in {"copy", "export"} =>
       job.on \in Circuits /\ Earned(job.out) /\ job.out.pot = potFinal
  /\ job.at = "export" => zkey[job.on] = job.out

JobSound == job # NoJob =>
  /\ job \in Jobs
  /\ job.cmd = "contribute" => ContributionSound
  /\ job.cmd = "finalize" => FinalizationSound

IndexTrue(paper) ==
  \A x \in Chains : \A i \in DOMAIN paper[x] :
    i \in 1 .. Len(chain[x]) /\ paper[x][i] \in {NoName, chain[x][i].by}
HashesTrue(paper) ==
  \A c \in Circuits : \A key \in {paper.zkey[c], paper.vk[c]} :
    OfCeremony(key) => Earned(key)
TranscriptTrue(paper) ==
  \A x \in Chains : paper[x] \in Seq(Lines) /\ IsPrefix(paper[x], logged[x])

PapersSound ==
  /\ doc \in Docs
  /\ Whole(copy) =>
       /\ doc = "index" => IndexTrue(copy)
       /\ doc = "hashes" => HashesTrue(copy)
       /\ doc = "transcript" => TranscriptTrue(copy)

IInv ==
  /\ ChainsTyped /\ LogsTyped
  /\ LoggedIsInChain
  /\ KeysSound
  /\ OriginsSound
  /\ JobSound
  /\ PapersSound

-----------------------------------------------------------------------------
(* Sequences. *)

LEMMA PrefixOfGrown ==
  ASSUME NEW S, NEW s \in Seq(S), NEW t \in Seq(S), NEW e \in S
  PROVE  /\ IsPrefix(s, s)
         /\ IsPrefix(s, t) => IsPrefix(s, Append(t, e))
<1>1. IsPrefix(s, s)
  BY LenProperties DEF IsPrefix
<1>2. ASSUME IsPrefix(s, t) PROVE IsPrefix(s, Append(t, e))
  <2>1. Len(s) \in Nat /\ Len(t) \in Nat /\ Len(s) <= Len(t)
    BY <1>2, LenProperties DEF IsPrefix
  <2>2. Len(Append(t, e)) = Len(t) + 1 /\ Append(t, e) = t \o <<e>>
    BY AppendProperties, AppendIsConcat
  <2>3. SubSeq(Append(t, e), 1, Len(s)) = SubSeq(t, 1, Len(s))
    <3>1. CASE Len(s) = 0
      BY <3>1, SubSeqEmpty
    <3>2. CASE Len(s) # 0
      <4>1. <<e>> \in Seq(S) /\ 1 \in 1 .. Len(t) /\ Len(s) \in 1 .. Len(t)
        BY <2>1, <3>2
      <4>2. SubSeq(t \o <<e>>, 1, Len(s)) = SubSeq(t, 1, Len(s))
        BY <4>1, SubSeqOfConcat1
      <4> QED BY <2>2, <4>2
    <3> QED BY <3>1, <3>2
  <2> QED BY <1>2, <2>1, <2>2, <2>3 DEF IsPrefix
<1> QED BY <1>1, <1>2

\* What snarkjs writes leaves every numbered file there is as it was.
LEMMA GrownChain ==
  ASSUME NEW s \in Seq(Files), NEW f \in Files, NEW t, t = SubSeq(s, 1, Len(s)) \o <<f>>
  PROVE  /\ t \in Seq(Files) /\ t # <<>> /\ Len(t) = Len(s) + 1
         /\ \A i \in 1 .. Len(s) : t[i] = s[i]
         /\ t[Len(s) + 1] = f
<1>1. t = Append(s, f)
  BY SubSeqFull, AppendIsConcat
<1>2. Append(s, f) # <<>>
  BY AppendProperties
<1>3. /\ Append(s, f) \in Seq(Files) /\ Len(Append(s, f)) = Len(s) + 1
      /\ \A i \in 1 .. Len(s) : Append(s, f)[i] = s[i]
      /\ Append(s, f)[Len(s) + 1] = f
  BY AppendProperties
<1> HIDE DEF Files
<1> QED BY <1>1, <1>2, <1>3

\* Numbers rise, so a number has one line in a log at the most, and that line
\* has the contributor of the file.
LEMMA LookupIsTrue ==
  ASSUME IInv, NEW x \in Chains, NEW n \in 1 .. Len(chain[x]) - 1
  PROVE  lookup_contributor(x, n) \in {NoName, chain[x][n + 1].by}
<1> DEFINE lines == {j \in DOMAIN logged[x] : logged[x][j].number = n}
<1>1. logged[x] \in Seq(Lines) /\ DOMAIN logged[x] = 1 .. Len(logged[x])
  BY LenProperties DEF IInv, LogsTyped
<1>2. \A i, j \in lines : i = j
  <2> SUFFICES ASSUME NEW i \in lines, NEW j \in lines, i < j PROVE FALSE
    BY <1>1
  <2>1. i \in 1 .. j - 1 /\ j \in 1 .. Len(logged[x])
    BY <1>1
  <2>2. logged[x][i].number < logged[x][j].number
    BY <2>1 DEF IInv, LoggedIsInChain
  <2> QED BY <2>2
<1>3. ASSUME NEW j \in lines
      PROVE  logged[x][j].by = chain[x][n + 1].by
  BY <1>1 DEF IInv, LoggedIsInChain
<1>4. CASE lines = {}
  BY <1>4 DEF lookup_contributor
<1>5. CASE lines # {}
  <2>1. PICK j \in lines : TRUE
    BY <1>5
  <2>2. j \in Nat /\ \A i \in lines : i = j
    BY <1>1, <1>2
  <2>3. (CHOOSE k \in lines : \A i \in lines : k <= i) \in lines
    BY <2>1, <2>2
  <2>4. lookup_contributor(x, n) = logged[x][CHOOSE k \in lines : \A i \in lines : k <= i].by
    BY <1>5 DEF lookup_contributor
  <2> QED BY <1>3, <2>3, <2>4
<1> QED BY <1>4, <1>5

-----------------------------------------------------------------------------
(* Every step keeps the invariant. *)

LEMMA InitIInv == Init => IInv
<1> SUFFICES ASSUME Init PROVE IInv
  OBVIOUS
<1> USE DEF Init
<1>1. <<>> \in Seq(Files) /\ <<>> \in Seq(Lines) /\ Len(<<>>) = 0
  BY EmptySeq
<1>2. ChainsTyped /\ LogsTyped
  BY <1>1 DEF ChainsTyped, LogsTyped
<1>3. LoggedIsInChain
  BY DEF LoggedIsInChain
<1>4. KeysSound
  BY DEF KeysSound, KeyOK, OfCeremony
<1>5. JobSound /\ OriginsSound
  BY <1>1 DEF JobSound, OriginsSound
<1>6. PapersSound
  BY DEF PapersSound, Whole
<1> QED BY <1>2, <1>3, <1>4, <1>5, <1>6 DEF IInv

\* A file opens an empty chain, of which the log says nothing yet, or is added.
LEMMA ChainSteps ==
  ASSUME IInv, NEW x \in Chains, NEW f \in Files, NEW t \in Seq(Files),
         chain' = [chain EXCEPT ![x] = t], UNCHANGED <<logged, doc, copy>>,
         Len(t) > Len(chain[x]), \A i \in 1 .. Len(chain[x]) : t[i] = chain[x][i]
  PROVE  ChainsTyped' /\ LogsTyped' /\ LoggedIsInChain' /\ PapersSound'
<1> USE DEF IInv
<1>1. \A y \in Chains : chain[y] \in Seq(Files) /\ Len(chain[y]) \in Nat
  BY LenProperties DEF ChainsTyped
<1>2. Len(t) \in Nat /\ chain'[x] = t
  BY LenProperties DEF ChainsTyped
<1>3. ASSUME NEW y \in Chains
      PROVE  /\ Len(chain[y]) <= Len(chain'[y]) /\ Len(chain'[y]) \in Nat
             /\ \A i \in 1 .. Len(chain[y]) : chain'[y][i] = chain[y][i]
  BY <1>1, <1>2 DEF ChainsTyped
<1>4. ChainsTyped' /\ LogsTyped'
  BY DEF ChainsTyped, LogsTyped
<1>5. LoggedIsInChain'
  <2> SUFFICES ASSUME NEW y \in Chains, NEW j \in 1 .. Len(logged[y])
               PROVE  LET line == logged[y][j]
                      IN  /\ line.number < Len(chain'[y])
                          /\ chain'[y][line.number + 1].by = line.by
                          /\ chain'[y][line.number + 1].sound
                          /\ \A i \in 1 .. j - 1 : logged[y][i].number < line.number
    BY DEF LoggedIsInChain
  <2> DEFINE n == logged[y][j].number
  <2>1. logged[y] \in Seq(Lines)
    BY DEF LogsTyped
  <2>2. logged[y][j] \in Lines
    BY <2>1, ElementOfSeq
  <2>3. n \in Nat
    BY <2>2 DEF Lines
  <2>4. n + 1 \in 1 .. Len(chain[y])
    BY <1>1, <2>3 DEF LoggedIsInChain
  <2>5. chain'[y][n + 1] = chain[y][n + 1] /\ n < Len(chain'[y])
    BY <1>1, <1>3, <2>3, <2>4
  <2> QED BY <2>5 DEF LoggedIsInChain
<1>6. PapersSound'
  <2>1. IndexTrue(copy) => IndexTrue(copy)'
    BY <1>1, <1>3 DEF IndexTrue
  <2>2. /\ HashesTrue(copy) => HashesTrue(copy)'
        /\ TranscriptTrue(copy) => TranscriptTrue(copy)'
    BY DEF HashesTrue, TranscriptTrue
  <2> QED BY <2>1, <2>2 DEF PapersSound, Whole
<1> QED BY <1>4, <1>5, <1>6

\* The keys and their runs are as they were.
LEMMA OutputsStay ==
  ASSUME KeysSound, UNCHANGED Outputs
  PROVE  KeysSound'
BY DEF KeysSound, Outputs, KeyOK, PotOK, OfCeremony, Earned

\* Nothing of what the papers and the logs speak of has changed.
LEMMA RecordsStay ==
  ASSUME IInv, UNCHANGED <<chain, logged, doc, copy>>
  PROVE  ChainsTyped' /\ LogsTyped' /\ LoggedIsInChain' /\ PapersSound'
<1>1. ChainsTyped' /\ LogsTyped' /\ LoggedIsInChain'
  BY DEF IInv, ChainsTyped, LogsTyped, LoggedIsInChain
<1>2. PapersSound'
  BY DEF IInv, PapersSound, Whole, IndexTrue, HashesTrue, TranscriptTrue, Earned
<1> QED BY <1>1, <1>2

\* A file whose beacon run there has been stays one as runs go on.
LEMMA OriginsStay ==
  ASSUME runs \in Nat, runs' \in {runs, runs + 1}
  PROVE  /\ \A pot : PotOK(pot) => PotOK(pot)'
         /\ \A x, f : OriginOK(x, f) => OriginOK(x, f)'
         /\ OriginsSound /\ UNCHANGED chain => OriginsSound'
<1>1. ASSUME NEW pot, PotOK(pot) PROVE PotOK(pot)'
  BY <1>1 DEF PotOK, PtauFiles
<1>2. ASSUME NEW x, NEW f, OriginOK(x, f) PROVE OriginOK(x, f)'
  BY <1>1, <1>2 DEF OriginOK
<1>3. ASSUME OriginsSound, UNCHANGED chain PROVE OriginsSound'
  BY <1>2, <1>3 DEF OriginsSound
<1> QED BY <1>1, <1>2, <1>3

\* A chain grows by files that were set up as the others were.
LEMMA OriginsGrow ==
  ASSUME OriginsSound, ChainsTyped, runs \in Nat, runs' = runs, NEW x \in Chains, NEW t,
         chain' = [chain EXCEPT ![x] = t], \A i \in 1 .. Len(t) : OriginOK(x, t[i])
  PROVE  OriginsSound'
<1>1. ASSUME NEW y \in Chains, NEW i \in 1 .. Len(chain'[y]), NEW f, f = chain'[y][i]
      PROVE  OriginOK(y, f)'
  <2>1. OriginOK(y, f)
    BY <1>1 DEF OriginsSound, ChainsTyped
  <2> QED BY <2>1, OriginsStay
<1> QED BY <1>1 DEF OriginsSound, OriginOK, PotOK

\* A step of the subcommand that writes no file of a chain, no log, no document and
\* no key leaves all but the subcommand's state as it is.
LEMMA OnlyJobMoves ==
  ASSUME IInv, UNCHANGED <<chain, logged, doc, copy>>, UNCHANGED Outputs
  PROVE  /\ ChainsTyped' /\ LogsTyped' /\ LoggedIsInChain' /\ PapersSound'
         /\ KeysSound' /\ OriginsSound'
<1>1. runs \in Nat /\ runs' = runs
  BY DEF IInv, KeysSound, Outputs
<1> QED BY <1>1, RecordsStay, OutputsStay, OriginsStay DEF IInv

LEMMA LastFileTyped ==
  ASSUME ChainsTyped, NEW x \in Chains, chain[x] # <<>>
  PROVE  LastFile(x) \in Files /\ Len(chain[x]) \in Nat \ {0}
<1>1. chain[x] \in Seq(Files)
  BY DEF ChainsTyped
<1>2. Len(chain[x]) \in Nat \ {0}
  BY <1>1, EmptySeq
<1>3. chain[x][Len(chain[x])] \in Files
  BY <1>1, <1>2, ElementOfSeq
<1> QED BY <1>2, <1>3 DEF LastFile

LEMMA JobMoves ==
  ASSUME NEW j \in Jobs, NEW a \in Stages, NEW k, k = [j EXCEPT !.at = a]
  PROVE  k \in Jobs /\ k.cmd = j.cmd /\ k.on = j.on /\ k.by = j.by /\ k.out = j.out /\ k.at = a
BY DEF Jobs

\* init, phase2-init: a file 0 where there was none.
LEMMA OpeningIInv ==
  ASSUME IInv, NEW x \in Chains, NEW pot \in PtauFiles \cup {NoFile}, Idle, chain[x] = <<>>,
         chain' = [chain EXCEPT ![x] = <<[by |-> NoName, sound |-> TRUE, pot |-> pot]>>],
         IF x = Pot THEN pot = NoFile ELSE pot # NoFile /\ PotOK(pot),
         UNCHANGED <<Papers, logged, Outputs, job>>
  PROVE  IInv'
<1> DEFINE f == [by |-> NoName, sound |-> TRUE, pot |-> pot]
<1>1. f \in Files /\ <<f>> \in Seq(Files) /\ Len(<<f>>) = 1 /\ Len(<<>>) = 0
  BY DEF Files, People
<1>2. ChainsTyped' /\ LogsTyped' /\ LoggedIsInChain' /\ PapersSound'
  <2>1. UNCHANGED <<logged, doc, copy>>
    BY DEF Papers
  <2>2. Len(<<f>>) > Len(chain[x]) /\ \A i \in 1 .. Len(chain[x]) : <<f>>[i] = chain[x][i]
    BY <1>1
  <2> QED BY ONLY IInv, x \in Chains, <1>1, <2>1, <2>2, ChainSteps,
               chain' = [chain EXCEPT ![x] = <<f>>]
<1>3. KeysSound'
  BY OutputsStay DEF IInv
<1>4. OriginsSound'
  <2>1. runs \in Nat /\ runs' = runs
    BY DEF IInv, KeysSound, Outputs
  <2>2. \A i \in 1 .. Len(<<f>>) : OriginOK(x, <<f>>[i])
    BY DEF OriginOK
  <2> QED BY <2>1, <2>2, OriginsGrow DEF IInv
<1>5. JobSound'
  BY DEF JobSound, Idle
<1> QED BY <1>2, <1>3, <1>4, <1>5 DEF IInv

\* The next contribution, sound or not, becomes the last file.
LEMMA WriteIInv ==
  ASSUME IInv, WriteContribution
  PROVE  IInv'
<1> SUFFICES ASSUME NEW x, x = job.on PROVE IInv'
  OBVIOUS
<1> DEFINE n == Len(chain[x])
<1>1. /\ job \in Jobs /\ job # NoJob /\ job.cmd = "contribute" /\ ContributionSound
      /\ x \in Chains /\ chain[x] # <<>> /\ job.by \in Names
  BY DEF WriteContribution, Idle, IInv, JobSound, ContributionSound, Jobs
<1>2. chain[x] \in Seq(Files) /\ n \in Nat \ {0} /\ chain[x][n] \in Files
  BY <1>1, LastFileTyped DEF IInv, ChainsTyped, LastFile
<1>3. PICK intact \in BOOLEAN :
        chain' = [chain EXCEPT ![x] =
          SubSeq(@, 1, n) \o
          <<[by |-> job.by, sound |-> intact /\ @[n].sound, pot |-> @[n].pot]>>]
  BY DEF WriteContribution, NextNumber
<1> DEFINE f == [by |-> job.by, sound |-> intact /\ chain[x][n].sound, pot |-> chain[x][n].pot]
           t == SubSeq(chain[x], 1, n) \o <<f>>
<1>4. f \in Files
  BY <1>1, <1>2 DEF Files, People
<1>5. chain' = [chain EXCEPT ![x] = t]
  BY <1>1, <1>3 DEF IInv, ChainsTyped
<1> HIDE DEF f
<1>6. /\ t \in Seq(Files) /\ t # <<>> /\ Len(t) = n + 1
      /\ \A i \in 1 .. n : t[i] = chain[x][i]
      /\ t[n + 1] = f
  BY ONLY <1>2, <1>4, GrownChain
<1> HIDE DEF t
<1>7. ChainsTyped' /\ LogsTyped' /\ LoggedIsInChain' /\ PapersSound'
  <2>1. UNCHANGED <<logged, doc, copy>>
    BY DEF WriteContribution, Papers
  <2>2. Len(t) > Len(chain[x])
    BY <1>2, <1>6
  <2> QED BY ONLY IInv, <1>1, <1>4, <1>5, <1>6, <2>1, <2>2, ChainSteps
<1>8. KeysSound' /\ OriginsSound'
  <2>1. runs \in Nat /\ runs' = runs /\ KeysSound'
    BY OutputsStay DEF IInv, KeysSound, Outputs, WriteContribution
  <2>2. f.pot = chain[x][n].pot
    BY DEF f
  <2>3. \A i \in 1 .. Len(t) : OriginOK(x, t[i])
    <3>1. \A i \in 1 .. n : OriginOK(x, chain[x][i])
      BY <1>1 DEF IInv, OriginsSound
    <3>2. OriginOK(x, f)
      BY <1>2, <2>2, <3>1 DEF OriginOK
    <3> QED BY <1>2, <1>6, <3>1, <3>2
  <2> QED BY <1>1, <1>5, <2>1, <2>3, OriginsGrow DEF IInv
<1>9. JobSound'
  <2>1. job' = [job EXCEPT !.at = "verify"] /\ UNCHANGED logged
    BY DEF WriteContribution
  <2>2. job' \in Jobs /\ job'.cmd = "contribute" /\ job'.on = x /\ job'.by = job.by /\ job'.at = "verify"
    BY <1>1, <2>1, JobMoves DEF Stages
  <2>3. chain'[x] = t
    BY <1>1, <1>5 DEF IInv, ChainsTyped
  <2>4. LastFile(job.on)' = f
    BY <1>2, <1>6, <2>2, <2>3 DEF LastFile
  <2>5. \A j \in 1 .. Len(logged[x]) : logged[x][j].number < Len(chain'[x]) - 1
    BY <1>1, <1>2, <1>6, <2>3 DEF IInv, LoggedIsInChain
  <2>6. f.by = job.by
    BY DEF f
  <2>7. chain'[x] # <<>>
    BY <1>6, <2>3
  <2>9. ContributionSound'
    BY ONLY x = job.on, <1>1, <2>1, <2>2, <2>4, <2>5, <2>6, <2>7 DEF ContributionSound
  <2> QED BY <2>2, <2>9 DEF JobSound, Jobs
<1> QED BY <1>7, <1>8, <1>9 DEF IInv

\* The name and number of the last file, which verified, are added to the log.
LEMMA LogIInv ==
  ASSUME IInv, LogContribution
  PROVE  IInv'
<1> SUFFICES ASSUME NEW x, x = job.on PROVE IInv'
  OBVIOUS
<1> DEFINE n == Len(chain[x])
           line == [number |-> n - 1, by |-> job.by]
<1>1. /\ job \in Jobs /\ job.cmd = "contribute" /\ ContributionSound /\ job.at = "log"
      /\ x \in Chains /\ chain[x] # <<>> /\ job.by \in Names
      /\ logged' = [logged EXCEPT ![x] = Append(@, line)]
  BY DEF LogContribution, Idle, IInv, JobSound, ContributionSound, Jobs
<1>2. n \in Nat \ {0} /\ LastFile(x) \in Files /\ chain[x][n] = LastFile(x)
  BY <1>1, LastFileTyped DEF IInv, LastFile
<1>3. /\ LastFile(x).by = job.by /\ LastFile(x).sound
      /\ \A j \in 1 .. Len(logged[x]) : logged[x][j].number < n - 1
  BY <1>1 DEF ContributionSound
<1>4. line \in Lines
  BY <1>1, <1>2 DEF Lines, People
<1>5. /\ UNCHANGED <<chain, doc, copy>> /\ logged[x] \in Seq(Lines)
      /\ logged'[x] = Append(logged[x], line) /\ Len(logged[x]) \in Nat
      /\ \A y \in Chains : y # x => logged'[y] = logged[y]
  BY <1>1, LenProperties DEF LogContribution, Papers, IInv, LogsTyped
<1> HIDE DEF line
<1>6. /\ logged'[x] \in Seq(Lines)
      /\ Len(logged'[x]) = Len(logged[x]) + 1
      /\ \A j \in 1 .. Len(logged[x]) : logged'[x][j] = logged[x][j]
      /\ logged'[x][Len(logged[x]) + 1] = line
  BY ONLY <1>4, <1>5, AppendProperties
<1>7. ChainsTyped' /\ LogsTyped'
  BY <1>1, <1>5, <1>6 DEF IInv, ChainsTyped, LogsTyped
<1>8. LoggedIsInChain'
  <2> SUFFICES ASSUME NEW y \in Chains, NEW j \in 1 .. Len(logged'[y])
               PROVE  LET l == logged'[y][j]
                      IN  /\ l.number < Len(chain[y])
                          /\ chain[y][l.number + 1].by = l.by
                          /\ chain[y][l.number + 1].sound
                          /\ \A i \in 1 .. j - 1 : logged'[y][i].number < l.number
    BY <1>5 DEF LoggedIsInChain
  <2>1. CASE y # x
    BY <1>5, <2>1 DEF IInv, LoggedIsInChain
  <2>2. CASE y = x /\ j \in 1 .. Len(logged[x])
    BY <1>1, <1>5, <1>6, <2>2 DEF IInv, LoggedIsInChain
  <2>3. CASE y = x /\ j = Len(logged[x]) + 1
    <3>1. line.number = n - 1 /\ line.by = job.by /\ n - 1 + 1 = n
      BY <1>2 DEF line
    <3>2. \A i \in 1 .. j - 1 : logged'[x][i].number < n - 1
      BY <1>3, <1>5, <1>6, <2>3
    <3>3. logged'[y][j] = line /\ line.number < n
      BY <1>2, <1>6, <2>3, <3>1
    <3>4. chain[y][line.number + 1] = LastFile(x)
      BY <1>2, <2>3, <3>1
    <3> QED BY <1>2, <1>3, <2>3, <3>1, <3>2, <3>3, <3>4
  <2> QED BY <1>5, <1>6, <2>1, <2>2, <2>3
<1>9. PapersSound'
  <2>1. TranscriptTrue(copy) => TranscriptTrue(copy)'
    <3> SUFFICES ASSUME TranscriptTrue(copy), NEW y \in Chains
                 PROVE  copy[y] \in Seq(Lines) /\ IsPrefix(copy[y], logged'[y])
      BY <1>5 DEF TranscriptTrue
    <3>1. copy[y] \in Seq(Lines) /\ IsPrefix(copy[y], logged[y])
      BY DEF TranscriptTrue
    <3>2. CASE y = x
      <4>1. IsPrefix(copy[x], Append(logged[x], line))
        BY ONLY <1>4, <1>5, <3>1, <3>2, PrefixOfGrown
      <4> QED BY <1>5, <3>1, <3>2, <4>1
    <3>3. CASE y # x
      BY <1>5, <3>1, <3>3
    <3> QED BY <3>2, <3>3
  <2>2. (IndexTrue(copy) => IndexTrue(copy)') /\ (HashesTrue(copy) => HashesTrue(copy)')
    BY <1>5 DEF IndexTrue, HashesTrue
  <2> QED BY <1>5, <2>1, <2>2 DEF IInv, PapersSound, Whole
<1>10. KeysSound' /\ OriginsSound' /\ JobSound'
  <2>1. runs \in Nat /\ runs' = runs
    BY DEF IInv, KeysSound, Outputs, LogContribution
  <2> QED BY <1>5, <2>1, OutputsStay, OriginsStay DEF IInv, LogContribution, JobSound
<1> QED BY <1>7, <1>8, <1>9, <1>10 DEF IInv

\* The other steps of `contribute' move the subcommand on, or end it.
LEMMA ContributeIInv ==
  ASSUME IInv,
         VerifyContribution \/ Kill \/ \E x \in Chains, name \in Names : StartContribute(x, name)
  PROVE  IInv'
<1>1. UNCHANGED <<chain, logged, doc, copy>> /\ UNCHANGED Outputs
  BY DEF VerifyContribution, Kill, StartContribute, Papers
<1>2. /\ ChainsTyped' /\ LogsTyped' /\ LoggedIsInChain' /\ PapersSound'
      /\ KeysSound' /\ OriginsSound'
  BY <1>1, OnlyJobMoves
<1>3. JobSound'
  <2>1. CASE job' = NoJob
    BY <2>1 DEF JobSound
  <2>2. CASE VerifyContribution /\ job' # NoJob
    <3>1. job \in Jobs /\ job.cmd = "contribute" /\ ContributionSound /\ job.at = "verify"
      BY <2>2 DEF VerifyContribution, Idle, IInv, JobSound
    <3>2. job' = [job EXCEPT !.at = "log"] /\ LastFile(job.on).sound
      BY <2>2 DEF VerifyContribution, Verifies
    <3>3. /\ job' \in Jobs /\ job'.cmd = "contribute" /\ job'.on = job.on
          /\ job'.by = job.by /\ job'.at = "log"
      BY <3>1, <3>2, JobMoves DEF Stages
    <3>4. ContributionSound'
      BY <1>1, <3>1, <3>2, <3>3 DEF ContributionSound, LastFile
    <3> QED BY <3>3, <3>4 DEF JobSound
  <2>3. CASE \E x \in Chains, name \in Names : StartContribute(x, name)
    <3>1. PICK x \in Chains, name \in Names : StartContribute(x, name)
      BY <2>3
    <3>2. /\ job' \in Jobs /\ job'.cmd = "contribute" /\ job'.on = x
          /\ job'.by = name /\ job'.at = "write"
      BY <3>1 DEF StartContribute, Jobs, Stages, People
    <3>3. ContributionSound'
      BY <1>1, <3>1, <3>2 DEF StartContribute, ContributionSound
    <3> QED BY <3>2, <3>3 DEF JobSound
  <2> QED BY <2>1, <2>2, <2>3 DEF Kill
<1> QED BY <1>2, <1>3 DEF IInv

-----------------------------------------------------------------------------
(* Finalization. *)

\* The beaconed file is of a new run, and of as many contributions as required.
LEMMA StartFinalizeIInv ==
  ASSUME IInv, NEW x \in Chains, StartFinalize(x)
  PROVE  IInv'
<1> SUFFICES ASSUME NEW b, b = Beaconed(x) PROVE IInv'
  OBVIOUS
<1>1. LastFile(x) \in Files /\ Len(chain[x]) \in Nat \ {0} /\ OriginOK(x, LastFile(x))
  <2>1. LastFile(x) \in Files /\ Len(chain[x]) \in Nat \ {0}
    BY LastFileTyped DEF StartFinalize, IInv
  <2> QED BY <2>1 DEF IInv, OriginsSound, LastFile
<1>2. runs \in Nat /\ runs' = runs + 1 /\ (OriginsSound /\ UNCHANGED chain => OriginsSound')
  BY OriginsStay DEF IInv, KeysSound, StartFinalize
<1>3. /\ b \in KeyFiles /\ b.run = runs' /\ b.from >= MinContributors
      /\ b.sound = LastFile(x).sound /\ b.pot = LastFile(x).pot
  BY <1>1, <1>2 DEF Beaconed, KeyFiles, Files, StartFinalize, Contributions
<1>4. /\ x = Pot => b \in PtauFiles
      /\ x # Pot => b.pot # NoFile /\ PotOK(b.pot)' /\ b.pot.run < b.run
  <2>1. ASSUME x = Pot PROVE b \in PtauFiles
    BY <1>1, <1>3, <2>1 DEF OriginOK, PtauFiles, KeyFiles
  <2>2. ASSUME x # Pot PROVE b.pot # NoFile /\ PotOK(b.pot)' /\ b.pot.run < b.run
    <3>1. b.pot # NoFile /\ PotOK(b.pot)
      BY <1>1, <1>3, <2>2 DEF OriginOK
    <3>2. PotOK(b.pot)' /\ b.pot.run < runs'
      BY <1>2, <3>1 DEF PotOK, PtauFiles
    <3> QED BY <1>3, <3>1, <3>2
  <2> QED BY <2>1, <2>2
<1>5. ChainsTyped' /\ LogsTyped' /\ LoggedIsInChain' /\ PapersSound'
  BY RecordsStay DEF StartFinalize, Papers
<1>6. KeysSound'
  <2>1. UNCHANGED <<potFinal, zkey, vk>>
    BY DEF StartFinalize
  <2>2. \A key : KeyOK(key) => KeyOK(key)'
    BY <1>2 DEF KeyOK, Earned, KeyFiles, OfCeremony
  <2>3. \A pot : PotOK(pot) => PotOK(pot)'
    BY <1>2, OriginsStay
  <2> QED BY <1>2, <2>1, <2>2, <2>3 DEF IInv, KeysSound, KeyOK, OfCeremony, PotOK
<1>7. JobSound'
  <2> DEFINE a == IF x = Pot THEN "write" ELSE "verify"
  <2>1. job' = [cmd |-> "finalize", on |-> x, by |-> NoName, at |-> a, out |-> b]
    BY DEF StartFinalize
  <2>2. a \in Stages /\ a \notin {"copy", "export"} /\ (x = Pot => a # "verify")
    BY DEF Stages
  <2> HIDE DEF a
  <2>3. /\ job' \in Jobs /\ job'.cmd = "finalize" /\ job'.on = x /\ job'.at = a
        /\ job'.out = b
    BY ONLY <1>3, <2>1, <2>2, x \in Chains DEF Jobs, People
  <2>4. UNCHANGED chain /\ chain[x] # <<>>
    BY DEF StartFinalize
  <2>5. FinalizationSound'
    <3>1. LastFile(job.on)' = LastFile(x) /\ chain'[job'.on] # <<>>
      BY <2>3, <2>4 DEF LastFile
    <3> QED BY ONLY <1>3, <1>4, <2>2, <2>3, <3>1 DEF FinalizationSound, PotOK
  <2> QED BY <2>3, <2>5 DEF JobSound
<1> QED BY <1>2, <1>5, <1>6, <1>7 DEF IInv, StartFinalize

\* pot18_final.ptau is written, then verified; no other key changes.
LEMMA PotFinalIInv ==
  ASSUME IInv, PreparePotFinal \/ VerifyPotFinal
  PROVE  IInv'
<1>1. /\ job # NoJob /\ job \in Jobs /\ job.cmd = "finalize" /\ FinalizationSound /\ job.on = Pot
      /\ UNCHANGED <<chain, logged, doc, copy, zkey, vk, runs>>
  BY DEF PreparePotFinal, VerifyPotFinal, Idle, IInv, JobSound, Papers
<1>2. ChainsTyped' /\ LogsTyped' /\ LoggedIsInChain' /\ PapersSound'
  BY <1>1, RecordsStay
<1>3. PotOK(potFinal)'
  <2>1. runs \in Nat /\ PotOK(job.out)
    BY <1>1 DEF FinalizationSound, PotOK, IInv, KeysSound
  <2>2. CASE PreparePotFinal
    BY <1>1, <2>1, <2>2 DEF PreparePotFinal, PotOK
  <2>3. CASE VerifyPotFinal
    <3>1. potFinal = job.out /\ potFinal' = [potFinal EXCEPT !.verified = potFinal.sound]
      BY <1>1, <2>3 DEF FinalizationSound, VerifyPotFinal
    <3> QED BY <1>1, <2>1, <3>1 DEF PotOK, PtauFiles
  <2> QED BY <2>2, <2>3
<1>4. KeysSound' /\ OriginsSound'
  <2>1. OriginsSound'
    BY <1>1, OriginsStay DEF IInv, KeysSound
  <2>2. KeysSound'
    BY <1>1, <1>3 DEF IInv, KeysSound, KeyOK, OfCeremony, Earned
  <2> QED BY <2>1, <2>2
<1>5. JobSound'
  <2>1. CASE PreparePotFinal
    <3>1. job' = [job EXCEPT !.at = "verify"] /\ potFinal' = job.out
      BY <2>1 DEF PreparePotFinal
    <3>2. /\ job' \in Jobs /\ job'.cmd = "finalize" /\ job'.on = job.on
          /\ job'.out = job.out /\ job'.at = "verify"
      BY <1>1, <3>1, JobMoves DEF Stages
    <3>3. FinalizationSound'
      BY <1>1, <3>1, <3>2 DEF FinalizationSound, LastFile, Earned, PotOK
    <3> QED BY <3>2, <3>3 DEF JobSound
  <2>2. CASE VerifyPotFinal
    BY <2>2 DEF VerifyPotFinal, JobSound
  <2> QED BY <2>1, <2>2
<1> QED BY <1>2, <1>4, <1>5 DEF IInv

\* A zkey is verified before it is copied into build/.
LEMMA VerifyBeaconedIInv ==
  ASSUME IInv, VerifyBeaconed
  PROVE  IInv'
<1>1. /\ job \in Jobs /\ job.cmd = "finalize" /\ FinalizationSound /\ job.on \in Circuits
      /\ UNCHANGED <<chain, logged, doc, copy>> /\ UNCHANGED Outputs
  BY DEF VerifyBeaconed, Idle, IInv, JobSound, Papers
<1>2. /\ ChainsTyped' /\ LogsTyped' /\ LoggedIsInChain' /\ PapersSound'
      /\ KeysSound' /\ OriginsSound'
  BY <1>1, OnlyJobMoves
<1>3. JobSound'
  <2>1. CASE job' = NoJob
    BY <2>1 DEF JobSound
  <2>2. CASE job' # NoJob
    <3>1. job.on # Pot
      BY <1>1, CeremonyConstants
    <3>2. /\ job' = [job EXCEPT !.at = "copy", !.out.verified = TRUE]
          /\ LastFile(job.on).sound /\ LastFile(job.on).pot = potFinal
      BY <2>2, <3>1 DEF VerifyBeaconed, Verifies
    <3>3. job.out \in KeyFiles
      BY <1>1 DEF FinalizationSound
    <3>4. /\ job' \in Jobs /\ job'.cmd = "finalize" /\ job'.on = job.on /\ job'.at = "copy"
          /\ job'.out = [job.out EXCEPT !.verified = TRUE]
      BY <1>1, <3>2, <3>3 DEF Jobs, Stages, KeyFiles
    <3>5. /\ job'.out \in KeyFiles /\ job'.out.run = job.out.run /\ job'.out.from = job.out.from
          /\ job'.out.sound = job.out.sound /\ job'.out.verified /\ job'.out.pot = job.out.pot
      BY <3>3, <3>4 DEF KeyFiles
    <3>6. runs' = runs /\ potFinal' = potFinal
      BY <1>1 DEF Outputs
    <3>7. Earned(job'.out) /\ job'.out.pot = potFinal
      BY <1>1, <3>1, <3>2, <3>5 DEF FinalizationSound, Earned, PotOK
    <3>8. FinalizationSound'
      BY <1>1, <3>1, <3>2, <3>4, <3>5, <3>6, <3>7 DEF FinalizationSound, LastFile, Earned, PotOK
    <3> QED BY <3>4, <3>8 DEF JobSound
  <2> QED BY <2>1, <2>2
<1> QED BY <1>2, <1>3 DEF IInv

\* The zkey comes into build/ as it was verified, newer than any vk there; the vk
\* comes of the zkey there.
LEMMA CopyIInv ==
  ASSUME IInv, CopyFinal \/ ExportVk
  PROVE  IInv'
<1>1. /\ job # NoJob /\ job \in Jobs /\ job.cmd = "finalize" /\ FinalizationSound
      /\ UNCHANGED <<chain, logged, doc, copy, potFinal, runs>>
  BY DEF CopyFinal, ExportVk, Idle, IInv, JobSound, Papers
<1>2. job.on \in Circuits /\ Earned(job.out) /\ job.out \in KeyFiles /\ job.out.run = runs
  BY <1>1 DEF CopyFinal, ExportVk, FinalizationSound
<1>3. ChainsTyped' /\ LogsTyped' /\ LoggedIsInChain' /\ PapersSound' /\ OriginsSound'
  BY <1>1, RecordsStay, OriginsStay DEF IInv, KeysSound
<1>4. KeysSound'
  <2>1. \A key : KeyOK(key) <=> KeyOK(key)'
    BY <1>1 DEF KeyOK, OfCeremony, Earned
  <2>2. KeyOK(job.out) /\ OfCeremony(job.out) /\ runs \in Nat
    BY <1>2, CeremonyConstants DEF KeyOK, OfCeremony, IInv, KeysSound
  <2>3. CASE CopyFinal
    <3>1. zkey' = [zkey EXCEPT ![job.on] = job.out] /\ vk' = vk
      BY <2>3 DEF CopyFinal
    <3>2. \A c \in Circuits : zkey'[c] = IF c = job.on THEN job.out ELSE zkey[c]
      BY <3>1 DEF IInv, KeysSound
    <3>3. \A c \in Circuits : OfCeremony(vk[c]) => vk[c].run <= runs
      BY DEF IInv, KeysSound, KeyOK
    <3>4. zkey' \in [Circuits -> {NoFile, Dev} \cup KeyFiles]
      BY <1>2, <3>1 DEF IInv, KeysSound
    <3>5. \A c \in Circuits : KeyOK(zkey'[c]) /\ KeyOK(vk[c])
      BY <2>2, <3>2 DEF IInv, KeysSound
    <3>6. \A c \in Circuits :
            OfCeremony(vk[c]) => OfCeremony(zkey'[c]) /\ vk[c].run <= zkey'[c].run
      BY <1>2, <2>2, <3>2, <3>3 DEF IInv, KeysSound
    <3> QED BY <1>1, <3>1, <3>4, <3>5, <3>6 DEF IInv, KeysSound, KeyOK, OfCeremony, Earned, PotOK
  <2>4. CASE ExportVk
    <3>1. vk' = [vk EXCEPT ![job.on] = zkey[job.on]] /\ zkey' = zkey
      BY <2>4 DEF ExportVk
    <3>2. \A c \in Circuits : vk'[c] = IF c = job.on THEN zkey[c] ELSE vk[c]
      BY <3>1 DEF IInv, KeysSound
    <3>3. vk' \in [Circuits -> {NoFile, Dev} \cup KeyFiles]
      BY <1>2, <3>1 DEF IInv, KeysSound
    <3>4. \A c \in Circuits : KeyOK(zkey[c]) /\ KeyOK(vk'[c])
      BY <3>2 DEF IInv, KeysSound
    <3>5. \A c \in Circuits :
            OfCeremony(vk'[c]) => OfCeremony(zkey[c]) /\ vk'[c].run <= zkey[c].run
      BY <3>2 DEF IInv, KeysSound, KeyOK, KeyFiles
    <3> QED BY <1>1, <3>1, <3>3, <3>4, <3>5 DEF IInv, KeysSound, KeyOK, OfCeremony, Earned, PotOK
  <2> QED BY <2>3, <2>4
<1>5. JobSound'
  <2>1. CASE CopyFinal
    <3>1. job' = [job EXCEPT !.at = "export"]
      BY <2>1 DEF CopyFinal
    <3>2. /\ job' \in Jobs /\ job'.cmd = "finalize" /\ job'.on = job.on
          /\ job'.out = job.out /\ job'.at = "export"
      BY <1>1, <3>1, JobMoves DEF Stages
    <3>3. zkey'[job.on] = job.out /\ job.out.pot = potFinal
      BY <1>1, <1>2, <2>1 DEF CopyFinal, FinalizationSound, IInv, KeysSound
    <3>4. FinalizationSound'
      BY <1>1, <1>2, <3>2, <3>3 DEF FinalizationSound, LastFile, Earned, PotOK
    <3> QED BY <3>2, <3>4 DEF JobSound
  <2>2. CASE ExportVk
    BY <2>2 DEF ExportVk, JobSound
  <2> QED BY <2>1, <2>2
<1> QED BY <1>3, <1>4, <1>5 DEF IInv

\* A development build replaces keys only where one of the two is missing.
LEMMA DevBuildIInv ==
  ASSUME IInv, NEW c \in Circuits, DevBuild(c)
  PROVE  IInv'
<1>1. /\ UNCHANGED <<chain, logged, doc, copy, potFinal, runs, job>> /\ job = NoJob
      /\ zkey' = [zkey EXCEPT ![c] = Dev]
      /\ vk' = vk \/ vk' = [vk EXCEPT ![c] = Dev]
      /\ zkey[c] = NoFile \/ vk[c] = NoFile
  BY DEF DevBuild, Papers, Idle, BothKept
<1>2. ChainsTyped' /\ LogsTyped' /\ LoggedIsInChain' /\ PapersSound' /\ OriginsSound'
  BY <1>1, RecordsStay, OriginsStay DEF IInv, KeysSound
<1>3. KeysSound'
  <2>1. /\ zkey' \in [Circuits -> {NoFile, Dev} \cup KeyFiles]
        /\ vk' \in [Circuits -> {NoFile, Dev} \cup KeyFiles]
    BY <1>1 DEF IInv, KeysSound
  <2>2. \A d \in Circuits : /\ zkey'[d] = Dev \/ zkey'[d] = zkey[d]
                            /\ vk'[d] = Dev \/ vk'[d] = vk[d]
    BY <1>1 DEF IInv, KeysSound
  <2>3. ASSUME NEW d \in Circuits, OfCeremony(vk'[d])
        PROVE  zkey'[d] = zkey[d] /\ vk'[d] = vk[d]
    BY <1>1, <2>2, <2>3 DEF IInv, KeysSound, OfCeremony
  <2> QED BY <1>1, <2>1, <2>2, <2>3 DEF IInv, KeysSound, KeyOK, OfCeremony, Earned, PotOK
<1>4. JobSound'
  BY <1>1 DEF JobSound
<1> QED BY <1>2, <1>3, <1>4 DEF IInv

-----------------------------------------------------------------------------
(* The documents. *)

\* What a document is made of is true when it is made.
LEMMA ContentIsTrue ==
  ASSUME IInv
  PROVE  /\ doc = "index" => IndexTrue(Content)
         /\ doc = "hashes" => HashesTrue(Content)
         /\ doc = "transcript" => TranscriptTrue(Content)
<1>1. ASSUME doc = "index" PROVE IndexTrue(Content)
  <2>1. Content = [x \in Chains |-> [i \in DOMAIN chain[x] |->
                     IF i = 1 THEN NoName ELSE lookup_contributor(x, i - 1)]]
    BY <1>1 DEF Content
  <2> SUFFICES ASSUME NEW x \in Chains, NEW i \in DOMAIN chain[x]
               PROVE  /\ i \in 1 .. Len(chain[x])
                      /\ (IF i = 1 THEN NoName ELSE lookup_contributor(x, i - 1))
                           \in {NoName, chain[x][i].by}
    BY <2>1 DEF IndexTrue
  <2>2. i \in 1 .. Len(chain[x]) /\ Len(chain[x]) \in Nat
    BY LenProperties DEF IInv, ChainsTyped
  <2>3. ASSUME i # 1
        PROVE  lookup_contributor(x, i - 1) \in {NoName, chain[x][i].by}
    <3>1. i - 1 \in 1 .. Len(chain[x]) - 1 /\ i - 1 + 1 = i
      BY <2>2, <2>3
    <3>2. lookup_contributor(x, i - 1) \in {NoName, chain[x][i - 1 + 1].by}
      BY <3>1, LookupIsTrue
    <3> QED BY <3>1, <3>2
  <2> QED BY <2>2, <2>3
<1>2. ASSUME doc = "hashes" PROVE HashesTrue(Content)
  BY <1>2 DEF Content, HashesTrue, IInv, KeysSound, KeyOK, OfCeremony
<1>3. ASSUME doc = "transcript" PROVE TranscriptTrue(Content)
  <2>1. Content = logged
    BY <1>3 DEF Content
  <2>2. ASSUME NEW x \in Chains
        PROVE  logged[x] \in Seq(Lines) /\ IsPrefix(logged[x], logged[x])
    BY LenProperties DEF IInv, LogsTyped, IsPrefix
  <2> QED BY <2>1, <2>2 DEF TranscriptTrue
<1> QED BY <1>1, <1>2, <1>3

\* A document is made of what is true now, or copied as it is, or cut off.
LEMMA DocumentIInv ==
  ASSUME IInv, WriteDocument \/ cmd_publish_website
  PROVE  IInv'
<1>1. UNCHANGED <<chain, logged, doc, job>> /\ UNCHANGED Outputs /\ job = NoJob
  BY DEF WriteDocument, cmd_publish_website, Idle
<1>2. /\ ChainsTyped' /\ LogsTyped' /\ LoggedIsInChain' /\ KeysSound' /\ OriginsSound'
      /\ JobSound'
  BY <1>1, OutputsStay, OriginsStay DEF IInv, KeysSound, Outputs, ChainsTyped, LogsTyped, LoggedIsInChain, JobSound
<1>3. PapersSound'
  <2>1. copy' \in {Torn, copy, Content}
    BY DEF WriteDocument, cmd_publish_website
  <2>2. \A paper : /\ IndexTrue(paper) => IndexTrue(paper)'
                   /\ HashesTrue(paper) => HashesTrue(paper)'
                   /\ TranscriptTrue(paper) => TranscriptTrue(paper)'
    BY <1>1 DEF IndexTrue, HashesTrue, TranscriptTrue, Earned
  <2> QED BY <1>1, <2>1, <2>2, ContentIsTrue DEF IInv, PapersSound, Whole
<1> QED BY <1>2, <1>3 DEF IInv

LEMMA NextIInv == IInv /\ [Next]_vars => IInv'
<1> SUFFICES ASSUME IInv, [Next]_vars PROVE IInv'
  OBVIOUS
<1>1. CASE UNCHANGED vars \/ cmd_dev
  <2>1. UNCHANGED <<chain, logged, doc, copy, job>> /\ UNCHANGED Outputs
    BY <1>1 DEF vars, cmd_dev, Papers, Outputs
  <2>2. /\ ChainsTyped' /\ LogsTyped' /\ LoggedIsInChain' /\ PapersSound'
        /\ KeysSound' /\ OriginsSound'
    BY <2>1, OnlyJobMoves
  <2>3. JobSound'
    BY <2>1 DEF IInv, JobSound, ContributionSound, FinalizationSound, LastFile, Earned, PotOK,
         Outputs
  <2> QED BY <2>2, <2>3 DEF IInv
<1>2. CASE cmd_init
  <2>1. Pot \in Chains
    BY DEF Chains
  <2> QED BY <1>2, <2>1, OpeningIInv DEF cmd_init
<1>3. CASE \E c \in Circuits : cmd_phase2_init(c)
  <2>1. PICK c \in Circuits : cmd_phase2_init(c)
    BY <1>3
  <2>2. /\ c \in Chains /\ c # Pot
        /\ potFinal # NoFile /\ potFinal \in PtauFiles /\ PotOK(potFinal)
    BY <2>1, CeremonyConstants DEF cmd_phase2_init, Chains, IInv, KeysSound, PotOK
  <2> QED BY <2>1, <2>2, OpeningIInv DEF cmd_phase2_init
<1>4. CASE \E x \in Chains, name \in Names : StartContribute(x, name)
  BY <1>4, ContributeIInv
<1>5. CASE WriteContribution
  BY <1>5, WriteIInv
<1>6. CASE VerifyContribution \/ Kill
  BY <1>6, ContributeIInv
<1>7. CASE LogContribution
  BY <1>7, LogIInv
<1>8. CASE \E x \in Chains : StartFinalize(x)
  BY <1>8, StartFinalizeIInv
<1>9. CASE PreparePotFinal \/ VerifyPotFinal
  BY <1>9, PotFinalIInv
<1>10. CASE VerifyBeaconed
  BY <1>10, VerifyBeaconedIInv
<1>11. CASE CopyFinal \/ ExportVk
  BY <1>11, CopyIInv
<1>12. CASE \E c \in Circuits : DevBuild(c)
  BY <1>12, DevBuildIInv
<1>13. CASE WriteDocument \/ cmd_publish_website
  BY <1>13, DocumentIInv
<1> QED BY <1>1, <1>2, <1>3, <1>4, <1>5, <1>6, <1>7, <1>8, <1>9, <1>10, <1>11, <1>12, <1>13
        DEF Next

-----------------------------------------------------------------------------
LEMMA CeremonyInvariant == Spec => []IInv
<1>1. Init => IInv
  BY InitIInv
<1>2. IInv /\ [Next]_vars => IInv'
  BY NextIInv
<1> QED BY <1>1, <1>2, PTL DEF Spec

\* Wherever a subcommand is killed, each line of a log (transcript.json, ceremony.sh
\* log_contribution) is true of the chain: the contribution is there under that
\* number and by that name, it verified, and no number is logged twice.
THEOREM TranscriptIsTrue == Spec => []LoggedIsInChain
<1>1. IInv => LoggedIsInChain
  BY DEF IInv
<1> QED BY <1>1, CeremonyInvariant, PTL

\* The keys build/ holds after any number of finalizations (cmd_phase2_finalize) and
\* beacons, killed anywhere: each one's own chain verified, with the contributions
\* required in phase 2 and, in the pot18_final.ptau it was set up from, in phase 1;
\* no vk is newer than its zkey or without one.  It is not claimed that this
\* pot18_final.ptau verified: KeysRestOnVerifiedPot is false.
THEOREM KeysAreEarned == Spec => []FinalKeysEarned
<1>1. IInv => FinalKeysEarned
  BY DEF IInv, KeysSound, KeyOK, OfCeremony, FinalKeysEarned
<1> QED BY <1>1, CeremonyInvariant, PTL

\* Transcript, hashes and download index, written or published at any time, state
\* no contribution, contributor or key that the ceremony did not have.
THEOREM PapersAreTrue == Spec => []PublishedIsTrue
<1>1. IInv => PublishedIsTrue
  <2> SUFFICES ASSUME IInv, Whole(copy) PROVE PublishedIsTrue
    BY DEF PublishedIsTrue
  <2>1. doc = "index" => PublishedIsTrue
    <3>1. ASSUME doc = "index", NEW x \in Chains, NEW i \in DOMAIN copy[x]
          PROVE  i <= Len(chain[x]) /\ copy[x][i] \in {NoName, chain[x][i].by}
      BY <3>1 DEF IInv, PapersSound, IndexTrue
    <3> QED BY <3>1 DEF PublishedIsTrue
  <2>2. doc = "hashes" => PublishedIsTrue
    BY DEF IInv, PapersSound, HashesTrue, PublishedIsTrue
  <2>3. doc = "transcript" => PublishedIsTrue
    BY DEF IInv, PapersSound, TranscriptTrue, PublishedIsTrue
  <2> QED BY <2>1, <2>2, <2>3 DEF IInv, PapersSound, Docs
<1> QED BY <1>1, CeremonyInvariant, PTL

\* What is put into build/ was set up from the pot18_final.ptau that is there: a
\* beacon run again (cmd_beacon) lets in no zkey or vk of the earlier file.
THEOREM KeysBelongToPot == Spec => KeysFitPot
<1> DEFINE Placed(c) == ({zkey'[c]} \ {zkey[c]}) \cup ({vk'[c]} \ {vk[c]})
           Fits == \A c \in Circuits : \A key \in Placed(c) :
                     OfCeremony(key) => key.pot = potFinal
<1>1. IInv /\ [Next]_vars => [Fits]_vars
  <2> SUFFICES ASSUME IInv, [Next]_vars, NEW c \in Circuits, NEW key \in Placed(c), OfCeremony(key)
               PROVE  key.pot = potFinal
    OBVIOUS
  <2>1. CASE CopyFinal \/ ExportVk
    <3>1. job # NoJob /\ FinalizationSound /\ job.at \in {"copy", "export"}
      BY <2>1 DEF CopyFinal, ExportVk, Idle, IInv, JobSound
    <3>2. /\ job.out.pot = potFinal
          /\ job.at = "export" => zkey[job.on] = job.out
      BY <3>1 DEF FinalizationSound
    <3>3. CASE CopyFinal
      BY <3>2, <3>3 DEF CopyFinal, IInv, KeysSound
    <3>4. CASE ExportVk
      BY <3>2, <3>4 DEF ExportVk, IInv, KeysSound
    <3> QED BY <2>1, <3>3, <3>4
  <2>2. CASE \E d \in Circuits : DevBuild(d)
    BY <2>2 DEF DevBuild, IInv, KeysSound, OfCeremony
  <2>3. CASE UNCHANGED <<zkey, vk>>
    BY <2>3
  <2>4. CASE UNCHANGED vars
    BY <2>3, <2>4 DEF vars
  <2> QED BY <2>1, <2>2, <2>3, <2>4 DEF Next, Outputs, cmd_init, cmd_dev, cmd_phase2_init,
             StartContribute, StartFinalize, WriteContribution, VerifyContribution,
             LogContribution, PreparePotFinal, VerifyPotFinal, VerifyBeaconed, Kill,
             WriteDocument, cmd_publish_website
<1>2. Spec => [][Fits]_vars
  BY <1>1, CeremonyInvariant, PTL DEF Spec
<1> QED BY <1>2 DEF KeysFitPot

=============================================================================
