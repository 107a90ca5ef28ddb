------------------------- MODULE AirdropPanelProofs -------------------------
(***************************************************************************)
(* Theorem of AirdropPanel, for any number of runs of the effect, any      *)
(* lifetimes of the cache and of the cooldown: the faucet is asked         *)
(* automatically at most once.                                             *)
(***************************************************************************)
EXTENDS AirdropPanel, FiniteSetTheorems, TLAPS

\* A run past its last look at the session's mark.
Beyond == {"faucet", "confirm", "refresh", "threw"}

Touched(r) == r \in asked \/ flows[r].at \in Beyond

\* The session is marked before any run gets past the mark, so that only the run
\* that marked it does, and only it has asked or may ask the faucet.
IInv ==
  /\ DOMAIN flows = Flows /\ flows = [f \in Flows |-> flows[f]]
  /\ asked \subseteq Runs
  /\ ~sessionFlag => \A r \in Runs : ~Touched(r)
  /\ \A r, s \in Runs : Touched(r) /\ Touched(s) => r = s

\* What a flow goes on with is its own affair.
LEMMA GoesOn ==
  ASSUME IInv, NEW f \in Flows, NEW step, NEW value, Goes(f, step, value)
  PROVE  /\ DOMAIN flows' = Flows /\ flows' = [g \in Flows |-> flows'[g]]
         /\ flows'[f].at = step
         /\ \A g \in Flows \ {f} : flows'[g] = flows[g]
BY DEF IInv, Goes

\* A step by which no run gets past the mark or asks for the first time.
LEMMA NoneTouched ==
  ASSUME IInv, DOMAIN flows' = Flows, flows' = [g \in Flows |-> flows'[g]],
         asked' \subseteq Runs, sessionFlag => sessionFlag',
         \A r \in Runs : Touched(r)' => Touched(r)
  PROVE  IInv'
BY DEF IInv

LEMMA InitIInv == Init => IInv
BY DEF Init, IInv, Touched, Beyond, Flows

LEMMA ConnectIInv == ASSUME IInv, NEW r \in Runs, Connect(r) PROVE IInv'
<1>1. PICK got : flows' = [f \in Flows |->
                   IF f \in {First} \cup {x \in {r} : Due} THEN [at |-> "balance", got |-> got]
                   ELSE flows[f]]
  BY DEF Connect
<1>2. UNCHANGED <<sessionFlag, asked>>
  BY DEF Connect
<1>3. Runs \subseteq Flows
  BY DEF Flows
<1>4. \A s \in Runs : Touched(s)' => Touched(s)
  BY <1>1, <1>2, <1>3 DEF Touched, Beyond
<1>5. DOMAIN flows' = Flows /\ flows' = [f \in Flows |-> flows'[f]]
  BY <1>1
<1> QED BY <1>2, <1>4, <1>5, NoneTouched DEF IInv

\* A run gets past the mark only in a session that is not marked, and marks it.
LEMMA AfterBalanceIInv == ASSUME IInv, NEW r \in Runs, AfterBalance(r) PROVE IInv'
<1>1. r \in Flows /\ Runs \subseteq Flows /\ asked' = asked
  BY DEF Flows, AfterBalance
<1>2. CASE Off(r) /\ UNCHANGED sessionFlag
  <2>1. /\ DOMAIN flows' = Flows /\ flows' = [g \in Flows |-> flows'[g]]
        /\ flows'[r].at = "off" /\ \A g \in Flows \ {r} : flows'[g] = flows[g]
    BY <1>1, <1>2, GoesOn DEF Off
  <2>2. \A s \in Runs : Touched(s)' => Touched(s)
    BY <1>1, <2>1 DEF Touched, Beyond
  <2> QED BY <1>1, <1>2, <2>1, <2>2, NoneTouched DEF IInv
<1>3. CASE ~sessionFlag /\ Goes(r, "faucet", 0) /\ sessionFlag' = FlagBeforeAsking
  <2>1. /\ DOMAIN flows' = Flows /\ flows' = [g \in Flows |-> flows'[g]]
        /\ \A g \in Flows \ {r} : flows'[g] = flows[g]
    BY <1>1, <1>3, GoesOn
  <2>2. \A s \in Runs \ {r} : ~Touched(s)'
    BY <1>1, <1>3, <2>1 DEF IInv, Touched
  <2> QED BY <1>1, <1>3, <2>1, <2>2 DEF IInv, FlagBeforeAsking
<1> QED BY <1>2, <1>3 DEF AfterBalance, Failed

\* Only a run past the mark asks the faucet, confirms or announces.
LEMMA AdvanceIInv ==
  ASSUME IInv, NEW f \in Runs \cup {Button}, Advance(f)
  PROVE  IInv'
<1>1. /\ f \in Flows /\ Runs \subseteq Flows
      /\ flows[f].at \in Beyond /\ UNCHANGED sessionFlag
      /\ asked' = asked \/ asked' = asked \cup ({f} \cap Runs)
  BY DEF Flows, Advance, AskFaucet, Confirm, Announce, Beyond
<1>2. \E step, value : Goes(f, step, value)
  BY DEF Advance, AskFaucet, RequestAirdrop, Failed, Off, Confirm, GetBalance, Announce
<1>3. /\ DOMAIN flows' = Flows /\ flows' = [g \in Flows |-> flows'[g]]
      /\ \A g \in Flows \ {f} : flows'[g] = flows[g]
  BY <1>1, <1>2, GoesOn
<1>4. ASSUME NEW r \in Runs, Touched(r)' PROVE Touched(r)
  <2>1. CASE r = f
    BY <1>1, <2>1 DEF Touched
  <2>2. CASE r # f
    BY <1>1, <1>3, <1>4, <2>2 DEF Touched
  <2> QED BY <2>1, <2>2
<1>5. asked' \subseteq Runs
  BY <1>1 DEF IInv
<1> QED BY <1>1, <1>3, <1>4, <1>5, NoneTouched

\* The panel's own reading and the button are no runs of the effect.
LEMMA OthersIInv ==
  ASSUME IInv, Tick \/ Executes \/ Disconnect \/ ShowBalance \/ Click \/ UNCHANGED vars
  PROVE  IInv'
<1>1. UNCHANGED <<sessionFlag, asked>>
  BY DEF Tick, Executes, Disconnect, ShowBalance, Click, Marks, vars
<1>2. /\ First \in Flows /\ Button \in Flows /\ Runs \subseteq Flows
      /\ First \notin Runs /\ Button \notin Runs
  BY PanelConstants DEF Flows
<1>3. CASE UNCHANGED flows
  BY <1>1, <1>3 DEF IInv, Touched
<1>4. ASSUME NEW f \in {First, Button}, \E step, value : Goes(f, step, value)
      PROVE  IInv'
  <2>1. /\ DOMAIN flows' = Flows /\ flows' = [g \in Flows |-> flows'[g]]
        /\ \A g \in Flows \ {f} : flows'[g] = flows[g]
    BY <1>2, <1>4, GoesOn
  <2>2. \A r \in Runs : Touched(r)' => Touched(r)
    BY <1>1, <1>2, <2>1 DEF Touched
  <2> QED BY <1>1, <2>1, <2>2, NoneTouched DEF IInv
<1>5. \/ UNCHANGED flows
      \/ \E f \in {First, Button} : \E step, value : Goes(f, step, value)
  BY DEF Tick, Executes, Disconnect, ShowBalance, Click, Off, vars
<1> QED BY <1>3, <1>4, <1>5

LEMMA NextIInv == IInv /\ [Next]_vars => IInv'
BY ConnectIInv, AfterBalanceIInv, AdvanceIInv, OthersIInv DEF Next

LEMMA AtMostOne ==
  ASSUME NEW S, \A x, y \in S : x = y
  PROVE  Cardinality(S) <= 1
<1>1. CASE S = {}
  BY <1>1, FS_EmptySet
<1>2. ASSUME NEW x \in S PROVE Cardinality(S) <= 1
  <2>1. S = {x}
    BY <1>2
  <2> QED BY <2>1, FS_Singleton
<1> QED BY <1>1, <1>2

\* However often the wallet reconnects, wherever a run of the effect is cancelled
\* or fails, and whatever the cache answers, the faucet is asked automatically
\* once a session (useAutoAirdrop: the mark is set before the first await after
\* the balance).
THEOREM AskedOnceASession == Spec => []AutomaticOnce
<1>1. IInv => AutomaticOnce
  <2> SUFFICES ASSUME IInv PROVE AutomaticOnce
    OBVIOUS
  <2>1. \A r, s \in asked : r = s
    BY DEF IInv, Touched
  <2>2. \A r, s \in {x \in Runs : flows[x].at \in {"faucet", "confirm", "refresh", "threw"}} : r = s
    BY DEF IInv, Touched, Beyond
  <2> QED BY <2>1, <2>2, AtMostOne DEF AutomaticOnce
<1> QED BY <1>1, InitIInv, NextIInv, PTL DEF Spec

=============================================================================
