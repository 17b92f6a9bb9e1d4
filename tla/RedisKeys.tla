------------------------------ MODULE RedisKeys ------------------------------
(***************************************************************************)
(* The KEYS command of RedisStore (server/redis_store.cpp) on the map that *)
(* module RedisStore keeps.  Keys are sequences of characters here.        *)
(***************************************************************************)
EXTENDS RedisStore, StringMatch

CONSTANT Glob   \* patterns of KEYS, as sequences of tokens

(* RedisStore::keys.                                                       *)
keys(pattern) ==
    {k \in Key : key_values[k] # NoValue /\ string_match_len(pattern, k)}

=============================================================================
