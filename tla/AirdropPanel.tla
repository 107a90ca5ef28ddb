---------------------------- MODULE AirdropPanel ----------------------------
(***************************************************************************)
(* The wallet panel of the dashboard: the balance it reads when a wallet   *)
(* connects and the airdrop button (ConnectWalletPanel), and the automatic *)
(* airdrop for a wallet without funds (useAutoAirdrop).  In development    *)
(* both talk to devnet through the caching proxy of vite.config.ts, which  *)
(* keeps the answer to every method, getBalance and requestAirdrop         *)
(* included, for DEFAULT_TTL_MS.                                           *)
(*                                                                         *)
(* One wallet, one tab.  The effect runs anew when the wallet reconnects   *)
(* and its clean-up cancels the run before.  A balance is counted in       *)
(* airdrops; one that is not known yet disables nothing and counts as 0.   *)
(***************************************************************************)
EXTENDS Naturals, FiniteSets

CONSTANTS
  Runs,          \* runs of the effect
  Button,        \* the flow of the button
  First,         \* the panel's own reading of the balance
  MaxAirdrops,   \* bound on the airdrops issued
  Ttl,           \* DEFAULT_TTL_MS
  Cooldown,      \* COOLDOWN_MS
  MaxNow         \* bound on the clock

ASSUME PanelConstants ==
  /\ Button \notin Runs /\ First \notin Runs \cup {Button}
  /\ MaxAirdrops \in Nat /\ Ttl \in Nat /\ Cooldown \in Nat /\ MaxNow \in Nat

Flows == Runs \cup {Button, First}

VARIABLES
  now,         \* Date.now()
  issued,      \* airdrop transactions the faucet has issued, numbered 1, 2, ...
  landed,      \* those the cluster has executed
  cache,       \* cache[m]: the proxy's entry for method m
  flows,       \* flows[f].at: off, or awaiting the first balance, the
               \* faucet, the confirmation, the refreshed balance, which may
               \* have thrown; flows[f].got: what the await before returned
  connected,   \* the panel is on the page, with a wallet
  current,     \* the run of the effect that is not cancelled, if any
  sessionFlag, \* sessionStorage: this wallet was given its automatic airdrop
  coolUntil,   \* localStorage: the cooldown is over at this time
  shown,       \* the balance the panel shows
  asked        \* history: the runs of the effect that asked the faucet

vars == <<now, issued, landed, cache, flows, connected, current, sessionFlag,
          coolUntil, shown, asked>>

Methods == {"getBalance", "requestAirdrop"}

Balance == Cardinality(landed)

-----------------------------------------------------------------------------
Init ==
  /\ now = 0 /\ issued = 0 /\ landed = {}
  /\ cache = [m \in Methods |-> [value |-> 0, until |-> 0]]
  /\ flows = [f \in Flows |-> [at |-> "off", got |-> 0]]
  /\ connected = FALSE /\ current = {} /\ sessionFlag = FALSE /\ coolUntil = 0
  /\ shown = 0 /\ asked = {}

Chain == <<now, issued, landed>>
Marks == <<connected, current, sessionFlag, coolUntil, shown, asked>>

Tick ==
  /\ now < MaxNow /\ now' = now + 1
  /\ UNCHANGED <<issued, landed, cache, flows, Marks>>

\* The cluster executes an airdrop transaction.
Executes ==
  /\ \E i \in 1 .. issued : i \notin landed /\ landed' = landed \cup {i}
  /\ UNCHANGED <<now, issued, cache, flows, Marks>>

Live(m) == cache[m].until > now
Keep(m, value) == cache' = [cache EXCEPT ![m] = [value |-> value, until |-> now + Ttl]]

Goes(f, step, value) == flows' = [flows EXCEPT ![f] = [at |-> step, got |-> value]]

\* f sends getBalance and is answered by the cache or by the endpoint, or not:
\* then the await throws, and the cache keeps nothing.
GetBalance(f, step) ==
  \/ IF Live("getBalance")
     THEN Goes(f, step, cache["getBalance"].value) /\ UNCHANGED cache
     ELSE Goes(f, step, Balance) /\ Keep("getBalance", Balance)
  \/ Goes(f, "threw", 0) /\ UNCHANGED cache

\* f sends requestAirdrop; only what the cache does not answer reaches the
\* faucet.
RequestAirdrop(f) ==
  IF Live("requestAirdrop")
  THEN /\ Goes(f, "confirm", cache["requestAirdrop"].value)
       /\ UNCHANGED <<cache, issued>>
  ELSE /\ issued < MaxAirdrops /\ issued' = issued + 1
       /\ Goes(f, "confirm", issued + 1)
       /\ Keep("requestAirdrop", issued + 1)

Off(f) == Goes(f, "off", 0)

\* The automatic effect goes on: not twice in a session, not in the cooldown.
Due == ~sessionFlag /\ now >= coolUntil

\* The wallet connects: the panel reads the balance, and a run of the automatic
\* effect does the same if it is due.  The proxy gives both one answer.
Connect(r) ==
  /\ ~connected /\ flows[r].at = "off" /\ r \notin asked
  /\ LET got == IF Live("getBalance") THEN cache["getBalance"].value ELSE Balance
         readers == {First} \cup {x \in {r} : Due}
     IN  flows' = [f \in Flows |->
                     IF f \in readers THEN [at |-> "balance", got |-> got]
                     ELSE flows[f]]
  /\ IF Live("getBalance") THEN UNCHANGED cache ELSE Keep("getBalance", Balance)
  /\ connected' = TRUE
  /\ current' = {x \in {r} : Due}
  /\ UNCHANGED <<Chain, sessionFlag, coolUntil, shown, asked>>

\* It disconnects, or the user leaves: the clean-ups cancel the reading and
\* the run in progress, and the balance is forgotten.
Disconnect ==
  /\ connected /\ connected' = FALSE
  /\ current' = {} /\ shown' = 0
  /\ Off(First)
  /\ UNCHANGED <<Chain, cache, sessionFlag, coolUntil, asked>>

\* The panel's own reading is answered, and shown, or fails, and is ignored.
ShowBalance ==
  /\ flows[First].at = "balance"
  /\ Off(First)
  /\ shown' \in {flows[First].got, shown}
  /\ UNCHANGED <<Chain, cache, connected, current, sessionFlag, coolUntil, asked>>

\* Mutation: the session is marked once the airdrop is confirmed.
FlagWhenAsked == FALSE

\* The session is marked before the faucet is asked.
FlagBeforeAsking == TRUE

\* Mutation: a failed request leaves the button busy.
OffUnlessButton(f) == IF f = Button THEN UNCHANGED flows ELSE Off(f)

\* A flow that failed is over: the error is shown, the button is free again.
Failed(f) == Off(f)

\* After the first balance: cancelled, funded or marked already, or go on; or
\* it failed.
AfterBalance(r) ==
  /\ flows[r].at = "balance"
  /\ \/ IF r \notin current \/ flows[r].got # 0 \/ sessionFlag
        THEN Off(r) /\ UNCHANGED sessionFlag
        ELSE Goes(r, "faucet", 0) /\ sessionFlag' = FlagBeforeAsking
     \/ Failed(r) /\ UNCHANGED sessionFlag
  /\ UNCHANGED <<Chain, cache, connected, current, coolUntil, shown, asked>>

\* The faucet answers, or refuses; this goes on after a cancellation, too.
AskFaucet(f) ==
  /\ flows[f].at = "faucet"
  /\ asked' = asked \cup ({f} \cap Runs)
  /\ \/ RequestAirdrop(f)
     \/ Failed(f) /\ UNCHANGED <<cache, issued>>
  /\ UNCHANGED <<now, landed, connected, current, sessionFlag, coolUntil, shown>>

\* confirmTransaction returns once the transaction is executed, or throws.
\* The effect sets the cooldown here, unless it was cancelled.
Confirm(f) ==
  /\ flows[f].at = "confirm"
  /\ \/ /\ flows[f].got \in landed
        /\ IF f \in Runs /\ f \notin current
           THEN Off(f) /\ UNCHANGED <<cache, coolUntil>>
           ELSE /\ GetBalance(f, "refresh")
                /\ coolUntil' = IF f \in Runs THEN now + Cooldown ELSE coolUntil
     \/ Failed(f) /\ UNCHANGED <<cache, coolUntil>>
  /\ UNCHANGED <<Chain, connected, current, sessionFlag, shown, asked>>

\* The balance is shown and "Airdrop confirmed" announced; the button sets the
\* cooldown only now.  Not so if the balance could not be read, although the
\* airdrop was confirmed.
Announce(f) ==
  /\ \/ /\ flows[f].at = "refresh"
        /\ Off(f)
        /\ IF f \in Runs /\ f \notin current
           THEN UNCHANGED <<shown, coolUntil>>
           ELSE /\ shown' = flows[f].got
                /\ coolUntil' = IF f = Button THEN now + Cooldown ELSE coolUntil
     \/ /\ flows[f].at = "threw"
        /\ Failed(f)
        /\ UNCHANGED <<shown, coolUntil>>
  /\ UNCHANGED <<Chain, cache, connected, current, sessionFlag, asked>>

\* The button: free, not cooling down, and the balance shown is low.
Click ==
  /\ connected /\ flows[Button].at = "off" /\ now >= coolUntil /\ shown <= 1
  /\ Goes(Button, "faucet", 0)
  /\ UNCHANGED <<Chain, cache, Marks>>

Advance(f) == AskFaucet(f) \/ Confirm(f) \/ Announce(f)

Next ==
  \/ Tick \/ Executes \/ Disconnect \/ ShowBalance \/ Click
  \/ \E r \in Runs : Connect(r) \/ AfterBalance(r)
  \/ \E f \in Runs \cup {Button} : Advance(f)

\* An awaited request returns or throws: the faucet's by the HTTP client, the
\* confirmation because the blockhash it waits with expires.
Spec == Init /\ [][Next]_vars
FairSpec == Spec /\ WF_vars(Advance(Button))

-----------------------------------------------------------------------------
\* However often the wallet reconnects, and wherever a run of the effect is
\* cancelled, the faucet is asked automatically once a session.
AutomaticOnce ==
  /\ Cardinality(asked) <= 1
  /\ Cardinality({r \in Runs : flows[r].at \in {"faucet", "confirm", "refresh", "threw"}}) <= 1

\* The button comes free again, whatever fails.
ButtonComesFree == flows[Button].at # "off" ~> flows[Button].at = "off"

=============================================================================
