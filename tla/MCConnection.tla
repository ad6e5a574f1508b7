---------------------------- MODULE MCConnection ----------------------------
(* Two hosts; a panel and a worker; three keys, two of them of one type.    *)
EXTENDS Connection, TLC

CONSTANTS panel, worker, nas, web, rsa1, rsa2, ed1

MCHostOf == (nas :> "nas") @@ (web :> "web")
MCKeysAt == (nas :> Keys) @@ (web :> {rsa1})
MCTypeOf == [k \in Keys |-> IF k = ed1 THEN "ED25519" ELSE "RSA"]
=============================================================================
