-------------------------- MODULE MCDevnetRpcCache --------------------------
(* Small instances of DevnetRpcCache for TLC. *)
EXTENDS DevnetRpcCache, TLC

CONSTANTS slotKey, accountKey

MCTtl == [k \in Keys |-> IF k = slotKey THEN 1 ELSE 2]
=============================================================================
