----------------------------- MODULE RedisCache -----------------------------
(***************************************************************************)
(* The Redis key "rides:active" behind class RedisCache (redis_cache.cpp). *)
(* Get, Set and Del each send one command and swallow every exception: a   *)
(* failed Get looks like a miss, and after a failed Set or Del the caller  *)
(* goes on as if it had worked, whether or not Redis ran the command.      *)
(***************************************************************************)
EXTENDS Faults

CONSTANT NoList     \* the key does not exist, std::nullopt

VARIABLE cache      \* the cached list, or NoList

RedisInit == cache = NoList

\* found is what Get returns.
Get(found) ==
    /\ \/ found = cache
       \/ RedisMayFail /\ found = NoList
    /\ UNCHANGED cache

Set(list) ==
    \/ cache' = list
    \/ RedisMayFail /\ UNCHANGED cache

Del ==
    \/ cache' = NoList
    \/ RedisMayFail /\ UNCHANGED cache

\* The TTL given to SETEX runs out, or Redis evicts the key or restarts.
Expire ==
    /\ cache # NoList
    /\ cache' = NoList
=============================================================================
