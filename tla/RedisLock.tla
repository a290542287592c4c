----------------------------- MODULE RedisLock ------------------------------
(***************************************************************************)
(* RedisService's locks: SET key token PX ttl NX, and a Lua script that    *)
(* deletes the key only while it still holds the caller's token.  A token  *)
(* is a fresh UUID per call, so the caller itself stands for its token.    *)
(* A TTL is real time: it may run out in any state the key is held.        *)
(***************************************************************************)
CONSTANTS Key, Owner, Null

VARIABLE lock

TypeOK == lock \in [Key -> Owner \cup {Null}]

Init == lock = [k \in Key |-> Null]

held(k) == lock[k] # Null

acquireLock(k, o) ==
  /\ ~ held(k)
  /\ lock' = [lock EXCEPT ![k] = o]

\* Mutant: DEL without comparing the token.
releaseAnyToken(k, o) == lock' = [lock EXCEPT ![k] = Null]

releaseLock(k, o) ==
  lock' = [lock EXCEPT ![k] = IF @ = o THEN Null ELSE @]

expire(k) ==
  /\ held(k)
  /\ lock' = [lock EXCEPT ![k] = Null]
=============================================================================
