---------------------------- MODULE MCVeilClient ----------------------------
(* Small instances of VeilClient for TLC: two auth keys and one completion
   key, all of one public input. *)
EXTENDS VeilClient, TLC

CONSTANTS a1, a2, authOld, authNew, completionKey

MCVkLen == [k \in KeyFiles |-> 9]
MCCircuitOf == [k \in KeyFiles |-> IF k = completionKey THEN "completion" ELSE "auth"]
MCFirstKey == [z \in Circuits |-> IF z = "auth" THEN authOld ELSE completionKey]
=============================================================================
