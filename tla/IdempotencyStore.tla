-------------------------- MODULE IdempotencyStore --------------------------
(***************************************************************************)
(* pkg/idempotency over Redis: the responses of requests that completed,    *)
(* under the key idempotency:<scope>:<key>.  The scope is the wallet that   *)
(* pays or the admin who issues.                                            *)
(***************************************************************************)
CONSTANTS
  Scopes,      \* wallets or admins
  Keys,        \* values of X-Idempotency-Key
  NoResponse   \* no such Redis key

VARIABLE cache \* the response under each Redis key

RedisKeys == Scopes \X Keys

buildKey(scope, key) == <<scope, key>>

StoreInit == cache = [k \in RedisKeys |-> NoResponse]

\* The cached response, or NoResponse.
Cached(scope, key) == cache[buildKey(scope, key)]

\* SETNX: the first response stays.
StoreResponse(scope, key, response) ==
  cache' = [cache EXCEPT ![buildKey(scope, key)] =
              IF @ = NoResponse THEN response ELSE @]

\* A Redis key ends with its TTL, or with the memory of a Redis that restarts.
Forget(k) ==
  /\ cache[k] # NoResponse
  /\ cache' = [cache EXCEPT ![k] = NoResponse]
=============================================================================
