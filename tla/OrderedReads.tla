---------------------------- MODULE OrderedReads ----------------------------
(***************************************************************************)
(* What a page may rely on when it reads the chain through the caching     *)
(* endpoint: an answer may lag behind the chain, but for one key no answer *)
(* is older than one given before, to whomever it went.                    *)
(***************************************************************************)
EXTENDS Naturals

CONSTANTS
  Keys,      \* what can be asked for
  MaxSlot    \* bound on the slot

VARIABLES
  slot,      \* how far the chain has got
  newest,    \* newest[k]: the slot of the newest answer given for k
  answers    \* the answers given in the last step: the key, and the slot shown

vars == <<slot, newest, answers>>

Init ==
  /\ slot = 0
  /\ newest = [k \in Keys |-> 0]
  /\ answers = {}

Advances == slot < MaxSlot /\ slot' = slot + 1 /\ UNCHANGED newest

\* Mutation: each read goes to some node of the cluster, however far behind.
AnyVersion(k) == 0 .. slot

\* The slots an answer for k may show.
Versions(k) == newest[k] .. slot

\* k is read and found as it was at slot v.
Serves(k, v) ==
  /\ v \in Versions(k)
  /\ newest' = [newest EXCEPT ![k] = v]
  /\ UNCHANGED slot

Serve(k) ==
  \E v \in Versions(k) : Serves(k, v) /\ answers' = {[key |-> k, slot |-> v]}

\* A step that answers nobody.
Silent == answers' = {} /\ (Advances \/ UNCHANGED <<slot, newest>>)

Next == Silent \/ \E k \in Keys : Serve(k)

Spec == Init /\ [][Next]_vars

=============================================================================
