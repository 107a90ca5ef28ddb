------------------------------ MODULE Dashboard ------------------------------
(***************************************************************************)
(* The panels of the site's dashboard that poll the chain.  A panel loads  *)
(* when it is mounted and on every tick of its timer, whether or not an    *)
(* earlier load has finished; a load reads the parts of the panel at once, *)
(* awaits them all, and writes what it got over what is on display.        *)
(* Answers come through the caching endpoint (OrderedReads), each with the *)
(* chain as it was at some slot, and loads overtake one another.           *)
(*                                                                         *)
(* One panel is followed at a time: the header ("header"), the table of    *)
(* pinned keys ("keys"), or one of the three lists ("list": activity,      *)
(* programs, proofs on chain), which only differ in what they ask for; or  *)
(* the page of the ceremony ("page"), which has no timer: it waits for the *)
(* manifest, reads the keys in it one after the other, and writes each as  *)
(* it comes.  The verifier's key accounts are those of VeilVerifier.       *)
(***************************************************************************)
EXTENDS Naturals

CONSTANTS
  Circuits,      \* names of the circuits the table lists
  Listed,        \* those in vk-hashes.json, which the page lists
  KeyFiles, Blank, NoEvent, VkLen, MaxVkUnits, MaxU64,   \* of veil-verifier
  Published,     \* Published[c]: the key whose hash vk-hashes.json gives for c
  NoHash,        \* vk-hashes.json gives none
  Numbered,      \* the circuits whose circuit_id is in vk-hashes.json
  MaxSlot,       \* bound on the slot
  MaxLoads,      \* bound on the loads of a panel under way at once
  MaxMounts,     \* bound on the visits to the page
  MaxFailures    \* bound on the reads that fail

ASSUME DashboardConstants ==
  /\ Circuits \subseteq Listed /\ Listed \subseteq {"auth", "completion", "poolNote"}
  /\ Published \in [Listed -> KeyFiles \cup {NoHash}] /\ NoHash \notin KeyFiles
  /\ Numbered \subseteq Listed
  /\ VkLen \in [KeyFiles -> Nat \ {0}] /\ MaxVkUnits \in Nat
  /\ MaxSlot \in Nat /\ MaxLoads \in Nat \ {0}
  /\ MaxMounts \in Nat /\ MaxFailures \in Nat

VARIABLES
  slot, newest,  \* of OrderedReads
  vks, latest,   \* of VeilVerifier
  history,       \* history[v]: the key accounts, and who uploaded last, at slot v
  panel,         \* the panel that is followed
  mounted,       \* the panel is on the page
  mounts,        \* how often it was mounted
  loads,         \* loads[l]: a load under way
  shown,         \* shown[p]: what the panel shows for part p
  error,         \* the header says `rpc error'
  manifest,      \* what became of the fetch of vk-hashes.json; the page fetches it
                 \* at every visit, the table's is memoised
  failures       \* reads that failed so far

chainVars == <<slot, vks, latest, history>>
vars == <<chainVars, newest, panel, mounted, mounts, loads, shown, error,
          manifest, failures>>

\* CIRCUITS: the tag of each circuit.
IdOf == [auth |-> 0, completion |-> 1, poolNote |-> 2]

PartsOf == [header |-> {"stats", "slot"}, keys |-> Circuits, list |-> {"list"},
            page |-> Listed]
Parts == PartsOf[panel]

Endpoint == INSTANCE OrderedReads WITH
  Keys <- UNION {PartsOf[q] : q \in DOMAIN PartsOf}, answers <- {}

V == INSTANCE VeilVerifier WITH
  Tags <- 0 .. 2, event <- NoEvent

\* A part as far as the browser has it; `at' is the slot of an answer.
Nothing == [state |-> "nothing", at |-> 0]
Failed == [state |-> "failed", at |-> 0]
AnsweredAt(v) == [state |-> "answered", at |-> v]

-----------------------------------------------------------------------------
\* The key accounts after k was uploaded for c to a chain that had none.
FirstUpload(c, k) ==
  /\ V!Fits(k)
  /\ vks = [t \in {IdOf[c]} |->
       [circuit_id |-> t, bytes_len |-> VkLen[k],
        bytes |-> [u \in 0 .. MaxVkUnits - 1 |-> IF u < VkLen[k] THEN k ELSE Blank]]]
  /\ latest = [t \in {IdOf[c]} |-> k]

\* The page finds the chain without keys or, where it matters, with one.
Init ==
  /\ Endpoint!Init
  /\ panel \in DOMAIN PartsOf
  /\ \/ V!VerifierInit
     \/ panel \in {"keys", "page"} /\ \E c \in Circuits, k \in KeyFiles : FirstUpload(c, k)
  /\ history = [v \in {0} |-> [vks |-> vks, latest |-> latest]]
  /\ mounted = FALSE /\ mounts = 0
  /\ loads = [l \in {} |-> l]
  /\ shown = [p \in Parts |-> Nothing]
  /\ error = FALSE
  /\ manifest = "unasked"
  /\ failures = 0

-----------------------------------------------------------------------------
(* The chain. *)

PageStays == UNCHANGED <<panel, mounted, mounts, loads, shown, error, manifest, failures>>

Remember ==
  history' = [v \in 0 .. slot' |-> IF v = slot' THEN [vks |-> vks', latest |-> latest']
                                   ELSE history[v]]

Upload(c, k) ==
  /\ Endpoint!Advances /\ V!upload_vk(IdOf[c], k) /\ Remember
  /\ PageStays

OtherBlock ==
  /\ Endpoint!Advances /\ UNCHANGED <<vks, latest>> /\ Remember
  /\ PageStays

-----------------------------------------------------------------------------
(* The panel. *)

Free == {l \in 1 .. MaxLoads : l \notin DOMAIN loads}

\* load() starts; `display' is on display by then.  `live': the panel that
\* started it is still mounted (`cancelled' is false).
Started(display) ==
  \E l \in Free :
    /\ \A m \in Free : l <= m
    /\ loads' = [m \in DOMAIN loads \cup {l} |->
         IF m # l THEN loads[m]
         ELSE [live |-> TRUE, got |-> [p \in Parts |-> Nothing],
               floor |-> [p \in Parts |-> display[p].at]]]

AsksForManifest == panel \in {"keys", "page"} /\ manifest = "unasked"

\* The effect: it asks for the manifest, unless somebody did before, and loads;
\* the page does not load before it has the manifest.
Mount ==
  /\ ~mounted /\ mounts < MaxMounts
  /\ mounted' = TRUE /\ mounts' = mounts + 1
  /\ manifest' = IF AsksForManifest THEN "asked" ELSE manifest
  /\ IF panel = "page" THEN UNCHANGED loads ELSE Started(shown)
  /\ UNCHANGED <<chainVars, newest, panel, shown, error, failures>>

\* The cleanup of the effect; the state of the panel is gone.
Unmount ==
  /\ mounted /\ mounted' = FALSE
  /\ loads' = [l \in DOMAIN loads |-> [loads[l] EXCEPT !.live = FALSE]]
  /\ shown' = [p \in Parts |-> Nothing]
  /\ error' = FALSE
  /\ manifest' = IF panel = "page" THEN "unasked" ELSE manifest
  /\ UNCHANGED <<chainVars, newest, panel, mounts, failures>>

\* Mutation: a load does not clear the error of the one before.
ErrorStays == error

\* setError(false).
ErrorAtStart == FALSE

\* The timer, or the buttons of the header.
LoadAgain ==
  /\ mounted /\ panel # "page"
  /\ Started(shown)
  /\ error' = ErrorAtStart
  /\ UNCHANGED <<chainVars, newest, panel, mounted, mounts, shown, manifest, failures>>

\* The page takes the circuits in the order of their numbers.
InTurn(l, p) == \A q \in Parts : IdOf[q] < IdOf[p] => loads[l].got[q] # Nothing

LastOf(l, p) == \A q \in Parts \ {p} : loads[l].got[q] # Nothing

Without(l) == [m \in DOMAIN loads \ {l} |-> loads[m]]

\* Load l got x for part p.  A panel waits for the other parts.  The page writes
\* x at once and goes on to the next circuit, unless it was left.
Settles(l, p, x) ==
  /\ l \in DOMAIN loads /\ p \in Parts /\ loads[l].got[p] = Nothing
  /\ panel = "page" => InTurn(l, p)
  /\ loads' = IF panel = "page" /\ (~loads[l].live \/ LastOf(l, p)) THEN Without(l)
              ELSE [loads EXCEPT ![l].got[p] = x]
  /\ shown' = IF panel = "page" /\ loads[l].live THEN [shown EXCEPT ![p] = x] ELSE shown
  /\ UNCHANGED <<vks, latest, history, panel, mounted, mounts, error, manifest>>

AskedFor(p) == panel = "page" => p \in Numbered

\* rpc(): part p of load l is answered, as the chain was at slot v.
Answer(l, p, v) ==
  /\ Settles(l, p, AnsweredAt(v)) /\ AskedFor(p)
  /\ Endpoint!Serves(p, v)
  /\ UNCHANGED failures

\* It throws: the connection, the HTTP status or the JSON-RPC error.  The
\* readers catch it and give null, an empty list or an account not found; the
\* page's gives an error.
Fail(l, p) ==
  /\ failures < MaxFailures /\ failures' = failures + 1
  /\ Settles(l, p, Failed) /\ AskedFor(p)
  /\ UNCHANGED <<slot, newest>>

\* The page cannot ask for a circuit without a number and writes an error.
Unnumbered(l, p) ==
  /\ Settles(l, p, Failed) /\ ~AskedFor(p)
  /\ UNCHANGED <<slot, newest, failures>>

AllFailed(got) == \A p \in Parts : got[p] = Failed

\* What is on display after a load got what it got: the header keeps what it
\* has of a part that failed; the others write whatever the reader gave.
Displayed(got) ==
  [p \in Parts |-> IF panel = "header" /\ got[p] = Failed THEN shown[p] ELSE got[p]]

\* All parts of load l have settled.
Finish(l) ==
  /\ l \in DOMAIN loads /\ panel # "page"
  /\ \A p \in Parts : loads[l].got[p] # Nothing
  /\ IF loads[l].live
     THEN /\ shown' = Displayed(loads[l].got)
          /\ error' = (error \/ (panel = "header" /\ AllFailed(loads[l].got)))
     ELSE UNCHANGED <<shown, error>>
  /\ loads' = Without(l)
  /\ UNCHANGED <<chainVars, newest, panel, mounted, mounts, manifest, failures>>

\* The manifest comes, or does not; the table keeps the promise either way, the
\* page reads the keys if it came.
ManifestSettles ==
  /\ manifest = "asked"
  /\ manifest' \in {"loaded", "failed"}
  /\ IF panel = "page" /\ manifest' = "loaded" THEN Started(shown) ELSE UNCHANGED loads
  /\ UNCHANGED <<chainVars, newest, panel, mounted, mounts, shown, error, failures>>

Next ==
  \/ OtherBlock \/ \E c \in Circuits, k \in KeyFiles : Upload(c, k)
  \/ Mount \/ Unmount \/ LoadAgain \/ ManifestSettles
  \/ \E l \in 1 .. MaxLoads :
       \/ Finish(l)
       \/ \E p \in Parts :
            Fail(l, p) \/ Unnumbered(l, p) \/ \E v \in 0 .. slot : Answer(l, p, v)

\* The timer ticks, every request settles, and a cached answer expires, so
\* that a key asked for again and again is in the end answered from the chain
\* as it is.
Fairness ==
  /\ WF_vars(LoadAgain) /\ WF_vars(ManifestSettles)
  /\ \A l \in 1 .. MaxLoads :
       /\ WF_vars(Finish(l))
       /\ WF_vars(\E p \in Parts :
                    Fail(l, p) \/ Unnumbered(l, p) \/ \E v \in 0 .. slot : Answer(l, p, v))
  /\ SF_vars(\E l \in 1 .. MaxLoads, p \in Parts :
               newest[p] < slot /\ Answer(l, p, slot))

Spec == Init /\ [][Next]_vars /\ Fairness

-----------------------------------------------------------------------------
(* What the table of keys and the page say. *)

\* Mutation: the hash is taken of the whole array of the account.
WholeArray(vk) == vk.bytes

\* bytes.slice(start, start + bytes_len).
PinnedBytes(vk) == [u \in 0 .. vk.bytes_len - 1 |-> vk.bytes[u]]

\* The bytes of a key file; SHA-256 is taken to be one to one.
BytesOf(k) == [u \in 0 .. VkLen[k] - 1 |-> k]

Expected(c) == IF manifest = "loaded" THEN Published[c] ELSE NoHash

\* fetchVkPdaState found the account of c.
Found(c) == shown[c].state = "answered" /\ IdOf[c] \in DOMAIN history[shown[c].at].vks

Verdict(c) ==
  IF PinnedBytes(history[shown[c].at].vks[IdOf[c]]) = BytesOf(Expected(c)) THEN "match"
  ELSE "drift"

StatusOf(c) ==
  CASE shown[c] = Nothing -> "loading"
    [] panel = "keys" /\ Expected(c) = NoHash -> "loading"
    [] panel = "page" /\ shown[c] = Failed -> "error"
    [] OTHER ->
         IF ~Found(c) THEN "missing"
         ELSE IF Expected(c) = NoHash THEN "unverifiable" ELSE Verdict(c)

-----------------------------------------------------------------------------
\* Loads overlap and overtake one another, but none brings anything older than
\* what was on display when it started: what is on display is never more than
\* one load behind.
LoadsNeverGoBack ==
  \A l \in DOMAIN loads : loads[l].live =>
    \A p \in Parts : loads[l].got[p].state = "answered" =>
      loads[l].got[p].at >= loads[l].floor[p]

\* The verdict on a key is true of the account as it was read: `match' exactly
\* when the key uploaded last is the one published, whatever longer key the
\* account held before, `drift' exactly when it is another, and never because
\* a request failed.  The page, unlike the table, calls a key missing only when
\* the chain had none.
StatusIsTrue ==
  panel \in {"keys", "page"} => \A c \in Parts :
    LET uploaded == history[shown[c].at].latest IN
    /\ StatusOf(c) = "match" =>
         Found(c) /\ Published[c] = uploaded[IdOf[c]]
    /\ StatusOf(c) = "drift" =>
         Found(c) /\ Published[c] \notin {uploaded[IdOf[c]], NoHash}
    /\ StatusOf(c) = "missing" =>
         ~Found(c) /\ (panel = "page" => IdOf[c] \notin DOMAIN uploaded)

\* However requests fail and overtake one another while they do, a page left
\* open comes to show the chain as it is, with no error left on display, and
\* passes a verdict on every key whose hash it could load.  The page of the
\* ceremony reads once: it comes to say something of every circuit.
CaughtUp ==
  IF panel = "page"
  THEN manifest = "loaded" => \A c \in Parts : StatusOf(c) # "loading"
  ELSE /\ \A p \in Parts : shown[p] = AnsweredAt(slot)
       /\ ~error
       /\ panel = "keys" /\ manifest = "loaded" =>
            \A c \in Circuits : Published[c] # NoHash => StatusOf(c) # "loading"

PanelCatchesUp == <>[](mounted /\ slot = MaxSlot) => <>[]CaughtUp

=============================================================================
