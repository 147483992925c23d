------------------------- MODULE RedisClaimsProofs --------------------------
(***************************************************************************)
(* create over a shared Redis and database, proved for any requests, keys  *)
(* and data and every combination of lapsed claims, lost data, interrupted *)
(* commands and dying processes.                                           *)
(***************************************************************************)
EXTENDS RedisClaims, TLAPS

\* What a request knows at each command of its way out of create.
Locals ==
    \A r \in Requests :
      /\ pc[r] \in {"save", "hset", "expire"} => ending[r] \in {"returned", "failed"}
      /\ pc[r] \in {"hget", "delete"} => ending[r] \in {"conflict", "error"}
      /\ pc[r] = "save" => payment[r] = r
      /\ pc[r] \in {"hset", "expire", "replay"} =>
           /\ payment[r] # None
           /\ payment[r] = keyIndex[Key(r)]
           /\ Fp(payment[r]) = Fp(r)

\* The database finds a payment under its own key.
IndexOwn == \A k \in Keys : keyIndex[k] # None => Key(keyIndex[k]) = k

\* A completed hash names the stored payment of its key and its data.
CompletedIsStored ==
    \A k \in Keys :
      records[k].status = "COMPLETED" =>
        /\ records[k].payment # None
        /\ records[k].payment = keyIndex[k]
        /\ records[k].fp = Fp(keyIndex[k])

StoreInv == TypeOK /\ Locals /\ IndexOwn /\ CompletedIsStored /\ AnswersAreStored

\* Redis has the claim of a request that works, until it is lost.
Owned ==
    \A r \in Requests :
      pc[r] \in Working /\ Key(r) \notin lapsed =>
        records[Key(r)].status # "ABSENT" /\ records[Key(r)].fp = Fp(r)

\* A request executes a key that is not stored, unless its claim was lost.
NotStoredYet ==
    \A r \in Requests :
      pc[r] \in {"execute", "save"} /\ Key(r) \notin lapsed => keyIndex[Key(r)] = None

\* Where a request that charged can be.
ChargedLocals ==
    \A r \in charged :
      /\ pc[r] \in {"save", "hset", "expire", "hget", "delete", "returned", "error", "crashed"}
      /\ pc[r] \in {"save", "hset", "expire"} => ending[r] = "returned"
      /\ pc[r] \in {"hget", "delete"} => ending[r] = "error"
      /\ pc[r] \in {"hset", "expire", "returned"} => keyIndex[Key(r)] # None

ClaimInv == Owned /\ ExclusiveUnlessLapsed /\ NotStoredYet

-----------------------------------------------------------------------------

(* Types and local facts. *)

\* The store and Redis are empty at first.
LEMMA StoreInit == Init => StoreInv
<1> SUFFICES ASSUME Init PROVE StoreInv
  OBVIOUS
<1>1. TypeOK
  BY DEF Init, TypeOK, PC, Absent, Record
<1> QED
  BY <1>1 DEF Init, StoreInv, Locals, IndexOwn, CompletedIsStored, AnswersAreStored, Absent

\* The records Redis may hold.
LEMMA RecordsTyped ==
  ASSUME NEW f \in Fingerprints, NEW p \in Requests
  PROVE  /\ Absent \in Record(Fingerprints, Requests)
         /\ Claimed(f) \in Record(Fingerprints, Requests)
         /\ Completed(f, p) \in Record(Fingerprints, Requests)
  BY DEF Absent, Claimed, Completed, Record

\* Where a request is after a step.
LEMMA GoTyped ==
  ASSUME TypeOK, NEW r \in Requests, NEW where \in PC, Go(r, where)
  PROVE  pc' \in [Requests -> PC]
  BY DEF TypeOK, Go

\* What the claim script decides, and what it leaves in Redis.
LEMMA ScriptTyped ==
  ASSUME TypeOK, NEW r \in Requests
  PROVE  /\ Decision(records[Key(r)], Fp(r)) \in {"CLAIMED", "CONFLICT", "COMPLETED", "WAIT"}
         /\ Decision(records[Key(r)], Fp(r)) = "COMPLETED" =>
              records[Key(r)].status = "COMPLETED" /\ records[Key(r)].fp = Fp(r)
         /\ Decision(records[Key(r)], Fp(r)) = "CLAIMED" => records[Key(r)].status = "ABSENT"
         /\ ClaimScript(r) => /\ records' \in [Keys -> Record(Fingerprints, Requests)]
                              /\ ttl' \in [Keys -> BOOLEAN]
<1>1. /\ records[Key(r)].status \in {"ABSENT", "PROCESSING", "COMPLETED"}
      /\ Key(r) \in Keys /\ Fp(r) \in Fingerprints
      /\ records[Key(r)].payment \in Requests \cup {None}
  BY DEF TypeOK, Record, Key, Fp
<1>2. /\ Decision(records[Key(r)], Fp(r)) \in {"CLAIMED", "CONFLICT", "COMPLETED", "WAIT"}
      /\ Decision(records[Key(r)], Fp(r)) = "COMPLETED" =>
              records[Key(r)].status = "COMPLETED" /\ records[Key(r)].fp = Fp(r)
      /\ Decision(records[Key(r)], Fp(r)) = "CLAIMED" => records[Key(r)].status = "ABSENT"
  BY <1>1 DEF Decision
<1>3. ASSUME ClaimScript(r)
      PROVE  records' \in [Keys -> Record(Fingerprints, Requests)] /\ ttl' \in [Keys -> BOOLEAN]
  <2>1. Claimed(Fp(r)) \in Record(Fingerprints, Requests)
    BY <1>1 DEF Claimed, Record
  <2> QED BY <1>1, <1>3, <2>1 DEF ClaimScript, TypeOK
<1> QED BY <1>2, <1>3

\* The script claims, or reports what it finds.
LEMMA AcquireStore == ASSUME StoreInv, NEW r \in Requests, Acquire(r) PROVE StoreInv'
<1> USE RedisAssumption DEF StoreInv, Key, Fp
<1>1. TypeOK'
  <2> DEFINE decision == Decision(records[Key(r)], Fp(r))
             where == CASE decision = "CLAIMED" -> "lookup"
                        [] decision = "CONFLICT" -> "conflict"
                        [] decision = "COMPLETED" -> "replay"
                        [] decision = "WAIT" -> "polling"
  <2>1. where \in PC
    BY ScriptTyped DEF PC, Working, Ended
  <2>2. pc' \in [Requests -> PC]
    BY <2>1, GoTyped DEF Acquire
  <2>3. payment' \in [Requests -> Requests \cup {None}]
    BY DEF Acquire, TypeOK, Record
  <2> QED BY <2>2, <2>3, ScriptTyped DEF TypeOK, Acquire
<1>2. Locals'
  <2>1. ASSUME NEW q \in Requests, pc'[q] # pc[q] \/ payment'[q] # payment[q]
        PROVE  /\ q = r /\ pc'[q] \in {"lookup", "conflict", "replay", "polling"}
               /\ pc'[q] = "replay" => /\ records[Key(q)].status = "COMPLETED"
                                       /\ records[Key(q)].fp = Fp(q)
                                       /\ payment'[q] = records[Key(q)].payment
    BY <2>1, ScriptTyped DEF TypeOK, Acquire, Go
  <2> QED BY <2>1 DEF TypeOK, Locals, CompletedIsStored, Acquire
<1>3. IndexOwn' /\ AnswersAreStored'
  BY DEF IndexOwn, AnswersAreStored, Acquire
<1>4. CompletedIsStored'
  BY DEF TypeOK, CompletedIsStored, Acquire, ClaimScript, Claimed
<1> QED BY <1>1, <1>2, <1>3, <1>4

\* A claim whose answer is lost stays in Redis without an owner.
LEMMA AcquireInterruptedStore == ASSUME StoreInv, NEW r \in Requests, AcquireInterrupted(r) PROVE StoreInv'
<1> USE RedisAssumption DEF StoreInv, Key, Fp, AcquireInterrupted, End, Go
<1>1. TypeOK'
  <2>1. records' \in [Keys -> Record(Fingerprints, Requests)] /\ ttl' \in [Keys -> BOOLEAN]
    <3>1. records' \in [Keys -> Record(Fingerprints, Requests)]
      BY ScriptTyped DEF TypeOK
    <3>2. ttl' \in [Keys -> BOOLEAN]
      BY ScriptTyped DEF TypeOK
    <3> QED BY <3>1, <3>2
  <2>2. "error" \in PC
    BY DEF PC, Ended
  <2>3. pc' \in [Requests -> PC]
    BY <2>2, GoTyped
  <2> QED BY <2>1, <2>3 DEF TypeOK
<1>2. Locals'
  BY DEF TypeOK, Locals
<1>3. IndexOwn' /\ AnswersAreStored'
  BY DEF IndexOwn, AnswersAreStored
<1>4. CompletedIsStored'
  BY DEF TypeOK, CompletedIsStored, ClaimScript, Claimed
<1> QED BY <1>1, <1>2, <1>3, <1>4

\* A replay reads the payment the hash names.
LEMMA ReplayStore == ASSUME StoreInv, NEW r \in Requests, Replay(r) PROVE StoreInv'
<1> USE RedisAssumption DEF StoreInv, Key, Fp, Replay, End, Go
<1>1. TypeOK'
  BY DEF TypeOK, PC, Ended
<1>2. Locals'
  BY DEF TypeOK, Locals
<1>3. IndexOwn' /\ CompletedIsStored'
  BY DEF IndexOwn, CompletedIsStored
<1>4. AnswersAreStored'
  BY DEF TypeOK, Locals, AnswersAreStored
<1> QED BY <1>1, <1>2, <1>3, <1>4

\* The lookup answers with the stored payment of the key.
LEMMA LookupStore == ASSUME StoreInv, NEW r \in Requests, Lookup(r) PROVE StoreInv'
<1> USE RedisAssumption DEF StoreInv, Key, Fp, Lookup, RaiseAndAbort, Settle, Go, local
<1>1. TypeOK'
  <2>1. \A where \in {"execute", "hget", "hset"} : where \in PC
    BY DEF PC, Working
  <2>2. pc' \in [Requests -> PC]
    BY <2>1 DEF TypeOK
  <2>3. payment' \in [Requests -> Requests \cup {None}]
    BY DEF TypeOK
  <2>4. ending' \in [Requests -> Ended \cup {None}]
    BY DEF TypeOK, Ended
  <2> QED BY <2>2, <2>3, <2>4 DEF TypeOK
<1>2. Locals'
  <2>1. ASSUME NEW q \in Requests, q # r
        PROVE  pc'[q] = pc[q] /\ payment'[q] = payment[q] /\ ending'[q] = ending[q]
    BY <2>1 DEF TypeOK
  <2>2. \/ pc'[r] = "execute"
        \/ pc'[r] = "hget" /\ ending'[r] = "conflict"
        \/ /\ pc'[r] = "hset" /\ ending'[r] = "returned"
           /\ payment'[r] = keyIndex[Key(r)] /\ payment'[r] # None /\ Fp(payment'[r]) = Fp(r)
    BY DEF TypeOK
  <2> QED BY <2>1, <2>2 DEF TypeOK, Locals
<1>3. IndexOwn' /\ CompletedIsStored' /\ AnswersAreStored'
  BY DEF IndexOwn, CompletedIsStored, AnswersAreStored
<1> QED BY <1>1, <1>2, <1>3

\* The provider's work leaves store and claims alone.
LEMMA ExecuteStore == ASSUME StoreInv, NEW r \in Requests, Execute(r) PROVE StoreInv'
<1> USE RedisAssumption DEF StoreInv, Key, Fp, Execute, Settle, Go
<1>1. TypeOK'
  <2>1. "save" \in PC /\ "returned" \in Ended /\ "failed" \in Ended
    BY DEF PC, Working, Ended
  <2>2. pc' \in [Requests -> PC]
    BY <2>1, GoTyped
  <2>3. payment' \in [Requests -> Requests \cup {None}]
    BY DEF TypeOK
  <2>4. ending' \in [Requests -> Ended \cup {None}]
    BY <2>1 DEF TypeOK
  <2> QED BY <2>2, <2>3, <2>4 DEF TypeOK
<1>2. Locals'
  BY DEF TypeOK, Locals
<1>3. IndexOwn' /\ CompletedIsStored' /\ AnswersAreStored'
  BY DEF IndexOwn, CompletedIsStored, AnswersAreStored
<1> QED BY <1>1, <1>2, <1>3

\* A commit gives a key without payment the payment of a request of the key.
Commits(r) ==
    /\ keyIndex[Key(r)] = None
    /\ keyIndex' = [keyIndex EXCEPT ![Key(r)] = r]

\* What is known of stored payments stays known when another one is stored.
LEMMA CommitKeeps ==
  ASSUME StoreInv, NEW r \in Requests, Commits(r), UNCHANGED <<data, records, returned>>
  PROVE  IndexOwn' /\ CompletedIsStored' /\ AnswersAreStored'
<1> USE RedisAssumption DEF StoreInv, Key, Fp, Commits, TypeOK
<1>1. IndexOwn'
  BY DEF IndexOwn
<1>2. CompletedIsStored'
  BY DEF CompletedIsStored
<1>3. AnswersAreStored'
  BY DEF AnswersAreStored
<1> QED BY <1>1, <1>2, <1>3

\* The save stores the first payment of its key or is refused.
LEMMA SaveStore == ASSUME StoreInv, NEW r \in Requests, Save(r) PROVE StoreInv'
<1> USE RedisAssumption DEF StoreInv, Save, RaiseAndAbort, Go, local
<1>1. TypeOK'
  <2>1. "hset" \in PC /\ "hget" \in PC /\ "error" \in Ended
    BY DEF PC, Working, Ended
  <2>2. pc' \in [Requests -> PC] /\ ending' \in [Requests -> Ended \cup {None}]
    <3>1. pc' \in [Requests -> PC]
      <4>1. Go(r, "hset") \/ Go(r, "hget")
        OBVIOUS
      <4> QED BY <2>1, <4>1, GoTyped
    <3>2. ending' \in [Requests -> Ended \cup {None}]
      BY <2>1 DEF TypeOK
    <3> QED BY <3>1, <3>2
  <2>3. payment' \in [Requests -> Requests \cup {None}] /\ keyIndex' \in [Keys -> Requests \cup {None}]
    <3>1. payment' \in [Requests -> Requests \cup {None}]
      BY DEF TypeOK
    <3>2. keyIndex' \in [Keys -> Requests \cup {None}]
      BY DEF TypeOK
    <3> QED BY <3>1, <3>2
  <2> QED BY <2>2, <2>3 DEF TypeOK
<1>2. Locals'
  BY DEF TypeOK, Locals, Key, Fp
<1>3. IndexOwn' /\ CompletedIsStored' /\ AnswersAreStored'
  <2>1. CASE keyIndex[Key(r)] = None
    BY <2>1, CommitKeeps DEF Commits
  <2>2. CASE keyIndex[Key(r)] # None
    BY <2>2 DEF IndexOwn, CompletedIsStored, AnswersAreStored, Key, Fp
  <2> QED BY <2>1, <2>2
<1> QED BY <1>1, <1>2, <1>3

\* An interrupted owner goes on to the abort, an interrupted replay ends.
LEMMA WorkInterruptedStore == ASSUME StoreInv, NEW r \in Requests, WorkInterrupted(r) PROVE StoreInv'
<1> USE RedisAssumption DEF StoreInv, WorkInterrupted, RaiseAndAbort, End, Go
<1>1. TypeOK'
  <2>1. "hget" \in PC /\ "error" \in PC /\ "error" \in Ended
    BY DEF PC, Working, Ended
  <2>2. pc' \in [Requests -> PC] /\ ending' \in [Requests -> Ended \cup {None}]
    <3>1. pc' \in [Requests -> PC]
      BY <2>1 DEF TypeOK
    <3>2. ending' \in [Requests -> Ended \cup {None}]
      BY <2>1 DEF TypeOK
    <3> QED BY <3>1, <3>2
  <2>3. payment' \in [Requests -> Requests \cup {None}] /\ keyIndex' \in [Keys -> Requests \cup {None}]
    <3>1. payment' \in [Requests -> Requests \cup {None}]
      BY DEF TypeOK
    <3>2. keyIndex' \in [Keys -> Requests \cup {None}]
      BY DEF TypeOK
    <3> QED BY <3>1, <3>2
  <2>4. charged' \subseteq Requests
    BY DEF TypeOK
  <2> QED BY <2>2, <2>3, <2>4 DEF TypeOK
<1>2. Locals'
  BY DEF TypeOK, Locals, Key, Fp
<1>3. IndexOwn' /\ CompletedIsStored' /\ AnswersAreStored'
  <2>1. CASE Commits(r)
    BY <2>1, CommitKeeps
  <2>2. CASE UNCHANGED keyIndex
    BY <2>2 DEF IndexOwn, CompletedIsStored, AnswersAreStored, Key, Fp
  <2> QED BY <2>1, <2>2 DEF Commits
<1> QED BY <1>1, <1>2, <1>3

\* The completion names a stored payment.
LEMMA HSetStore == ASSUME StoreInv, NEW r \in Requests, HSet(r) PROVE StoreInv'
<1> USE RedisAssumption DEF StoreInv, Key, Fp, HSet, SetCompleted, Go, local
<1>1. TypeOK'
  <2>1. payment[r] \in Requests
    BY DEF TypeOK, Locals
  <2>2. Completed(Fp(r), payment[r]) \in Record(Fingerprints, Requests)
    BY <2>1, RecordsTyped DEF TypeOK
  <2> QED BY <2>2 DEF TypeOK, PC, Working
<1>2. Locals'
  BY DEF TypeOK, Locals
<1>3. IndexOwn' /\ AnswersAreStored'
  BY DEF IndexOwn, AnswersAreStored
<1>4. CompletedIsStored'
  BY DEF TypeOK, Locals, CompletedIsStored, Completed
<1> QED BY <1>1, <1>2, <1>3, <1>4

\* The expiry of the completed hash.
LEMMA ExpireStore == ASSUME StoreInv, NEW r \in Requests, Expire(r) PROVE StoreInv'
<1> USE RedisAssumption DEF StoreInv, Key, Fp, Expire, SetExpiry, End, Go
<1>1. TypeOK'
  BY DEF TypeOK, PC, Ended, Locals
<1>2. Locals'
  BY DEF TypeOK, Locals
<1>3. IndexOwn' /\ CompletedIsStored'
  BY DEF IndexOwn, CompletedIsStored
<1>4. AnswersAreStored'
  BY DEF TypeOK, Locals, AnswersAreStored
<1> QED BY <1>1, <1>2, <1>3, <1>4

\* A completion cut short has or has not written the hash.
LEMMA CompleteInterruptedStore == ASSUME StoreInv, NEW r \in Requests, CompleteInterrupted(r) PROVE StoreInv'
<1> USE RedisAssumption DEF StoreInv, Key, Fp, CompleteInterrupted, SetCompleted, SetExpiry, RaiseAndAbort, Go
<1>1. TypeOK'
  <2>1. payment[r] \in Requests
    BY DEF TypeOK, Locals
  <2>2. Completed(Fp(r), payment[r]) \in Record(Fingerprints, Requests)
    BY <2>1, RecordsTyped DEF TypeOK
  <2>3. "hget" \in PC /\ "error" \in Ended
    BY DEF PC, Working, Ended
  <2>4. pc' \in [Requests -> PC] /\ ending' \in [Requests -> Ended \cup {None}]
    <3>1. pc' \in [Requests -> PC]
      BY <2>3 DEF TypeOK
    <3>2. ending' \in [Requests -> Ended \cup {None}]
      BY <2>3 DEF TypeOK
    <3> QED BY <3>1, <3>2
  <2>5. records' \in [Keys -> Record(Fingerprints, Requests)] /\ ttl' \in [Keys -> BOOLEAN]
    <3>1. records' \in [Keys -> Record(Fingerprints, Requests)]
      BY <2>2 DEF TypeOK
    <3>2. ttl' \in [Keys -> BOOLEAN]
      BY <2>2 DEF TypeOK
    <3> QED BY <3>1, <3>2
  <2>6. payment' \in [Requests -> Requests \cup {None}]
    BY DEF TypeOK
  <2> QED BY <2>4, <2>5, <2>6 DEF TypeOK
<1>2. Locals'
  BY DEF TypeOK, Locals
<1>3. IndexOwn' /\ AnswersAreStored'
  BY DEF IndexOwn, AnswersAreStored
<1>4. CompletedIsStored'
  BY DEF TypeOK, Locals, CompletedIsStored, Completed
<1> QED BY <1>1, <1>2, <1>3, <1>4

\* The abort reads the fingerprint of whatever record there is.
LEMMA HGetStore == ASSUME StoreInv, NEW r \in Requests, HGet(r) PROVE StoreInv'
<1> USE RedisAssumption DEF StoreInv, Key, Fp, HGet, End, Go, local
<1>1. TypeOK'
  <2>1. "delete" \in PC /\ ending[r] \in PC
    BY DEF PC, Working, Ended, Locals
  <2>2. pc' \in [Requests -> PC]
    BY <2>1 DEF TypeOK
  <2>3. payment' \in [Requests -> Requests \cup {None}] /\ ending' \in [Requests -> Ended \cup {None}]
    <3>1. payment' \in [Requests -> Requests \cup {None}]
      BY DEF TypeOK
    <3>2. ending' \in [Requests -> Ended \cup {None}]
      BY DEF TypeOK
    <3> QED BY <3>1, <3>2
  <2> QED BY <2>2, <2>3 DEF TypeOK
<1>2. Locals'
  BY DEF TypeOK, Locals
<1>3. IndexOwn' /\ CompletedIsStored' /\ AnswersAreStored'
  BY DEF IndexOwn, CompletedIsStored, AnswersAreStored
<1> QED BY <1>1, <1>2, <1>3

\* The abort deletes a hash, or its answer is lost.
LEMMA DeleteStore ==
  ASSUME StoreInv, NEW r \in Requests, Delete(r) \/ AbortInterrupted(r) PROVE StoreInv'
<1> USE RedisAssumption DEF StoreInv, Key, Fp, Delete, AbortInterrupted, DeleteRecord, End, Go
<1>1. TypeOK'
  <2>1. ending[r] \in PC
    BY DEF PC, Ended, Locals
  <2>2. pc' \in [Requests -> PC]
    BY <2>1 DEF TypeOK
  <2>3. payment' \in [Requests -> Requests \cup {None}] /\ ending' \in [Requests -> Ended \cup {None}]
    <3>1. payment' \in [Requests -> Requests \cup {None}]
      BY DEF TypeOK
    <3>2. ending' \in [Requests -> Ended \cup {None}]
      BY DEF TypeOK
    <3> QED BY <3>1, <3>2
  <2>4. Absent \in Record(Fingerprints, Requests)
    BY DEF Absent, Record
  <2>5. records' \in [Keys -> Record(Fingerprints, Requests)] /\ ttl' \in [Keys -> BOOLEAN]
    <3>1. records' \in [Keys -> Record(Fingerprints, Requests)]
      BY <2>4 DEF TypeOK
    <3>2. ttl' \in [Keys -> BOOLEAN]
      BY <2>4 DEF TypeOK
    <3> QED BY <3>1, <3>2
  <2> QED BY <2>2, <2>3, <2>5 DEF TypeOK
<1>2. Locals'
  BY DEF TypeOK, Locals
<1>3. IndexOwn' /\ AnswersAreStored'
  BY DEF IndexOwn, AnswersAreStored
<1>4. CompletedIsStored'
  BY DEF TypeOK, CompletedIsStored, Absent
<1> QED BY <1>1, <1>2, <1>3, <1>4

\* A process that dies leaves hash and row behind.
LEMMA ProcessDiesStore == ASSUME StoreInv, NEW r \in Requests, ProcessDies(r) PROVE StoreInv'
<1> USE RedisAssumption DEF StoreInv, Key, Fp, ProcessDies, End, Go
<1>1. TypeOK'
  BY DEF TypeOK, PC, Ended
<1>2. Locals'
  BY DEF TypeOK, Locals
<1>3. IndexOwn' /\ CompletedIsStored' /\ AnswersAreStored'
  BY DEF IndexOwn, CompletedIsStored, AnswersAreStored
<1> QED BY <1>1, <1>2, <1>3

\* Redis loses a record that expires, or all of them.
LEMMA RedisStore ==
  ASSUME StoreInv, RedisLosesData \/ \E k \in Keys : RecordExpires(k) PROVE StoreInv'
<1> USE RedisAssumption DEF StoreInv, Key, Fp, RedisLosesData, RecordExpires, local
<1>1. TypeOK'
  <2>1. Absent \in Record(Fingerprints, Requests)
    BY DEF Absent, Record
  <2>2. records' \in [Keys -> Record(Fingerprints, Requests)] /\ ttl' \in [Keys -> BOOLEAN]
    <3>1. records' \in [Keys -> Record(Fingerprints, Requests)]
      BY <2>1 DEF TypeOK
    <3>2. ttl' \in [Keys -> BOOLEAN]
      BY <2>1 DEF TypeOK
    <3> QED BY <3>1, <3>2
  <2>3. lapsed' \subseteq Keys
    BY DEF TypeOK, BeingWorkedOn
  <2> QED BY <2>2, <2>3 DEF TypeOK
<1>2. Locals' /\ IndexOwn' /\ AnswersAreStored'
  BY DEF Locals, IndexOwn, AnswersAreStored
<1>3. CompletedIsStored'
  BY DEF TypeOK, CompletedIsStored, Absent
<1> QED BY <1>1, <1>2, <1>3

\* Nothing changes when nothing happens.
LEMMA StutterStore == ASSUME StoreInv, UNCHANGED vars PROVE StoreInv'
  BY DEF StoreInv, vars, local, TypeOK, Locals, IndexOwn, CompletedIsStored, AnswersAreStored, Key, Fp

\* Every step keeps store, hashes and answers in agreement.
LEMMA StoreStep == StoreInv /\ [Next]_vars => StoreInv'
<1> SUFFICES ASSUME StoreInv, [Next]_vars PROVE StoreInv'
  OBVIOUS
<1> QED
  BY AcquireStore, AcquireInterruptedStore, ReplayStore, LookupStore, ExecuteStore, SaveStore,
     WorkInterruptedStore, HSetStore, ExpireStore, CompleteInterruptedStore, HGetStore, DeleteStore,
     ProcessDiesStore, RedisStore, StutterStore
  DEF Next, Step

\* This holds throughout.
LEMMA StoreInvariant == Spec => []StoreInv
  BY StoreInit, StoreStep, PTL DEF Spec

-----------------------------------------------------------------------------
(* Claims. *)

\* A step of a request that leaves the claims of others alone: it changes the
\* record of its key only while it works, and to one with its fingerprint.
LEMMA ClaimKept ==
  ASSUME StoreInv, ClaimInv, NEW r \in Requests, NEW where \in PC, Go(r, where),
         where \in Working => pc[r] \in Working,
         where \in {"execute", "save"} => keyIndex[Key(r)] = None \/ pc[r] \in {"execute", "save"},
         \/ UNCHANGED records
         \/ /\ pc[r] \in Working
            /\ \E p : records' = [records EXCEPT ![Key(r)] = Completed(Fp(r), p)]
         \/ /\ records[Key(r)].status = "ABSENT"
            /\ records' = [records EXCEPT ![Key(r)] = Claimed(Fp(r))]
         \/ /\ pc[r] \in Working
            /\ where \notin Working
            /\ records' = [records EXCEPT ![Key(r)] = Absent],
         UNCHANGED keyIndex \/ (pc[r] = "save" /\ where \notin {"execute", "save"} /\ Commits(r)),
         UNCHANGED <<data, lapsed>>
  PROVE  ClaimInv'
<1> USE DEF ClaimInv
<1>1. \A q \in Requests : /\ Key(q)' = Key(q) /\ Fp(q)' = Fp(q) /\ Key(q) \in Keys
                          /\ q # r => pc'[q] = pc[q]
                          /\ pc'[r] = where
  BY DEF StoreInv, TypeOK, Go, Key, Fp
<1>2. ExclusiveUnlessLapsed'
  BY <1>1 DEF ExclusiveUnlessLapsed
<1>3. Owned'
  <2> SUFFICES ASSUME NEW q \in Requests, pc'[q] \in Working, Key(q) \notin lapsed
               PROVE  records'[Key(q)].status # "ABSENT" /\ records'[Key(q)].fp = Fp(q)
    BY <1>1 DEF Owned
  <2>1. pc[q] \in Working
    BY <1>1
  <2>2. records[Key(q)].status # "ABSENT" /\ records[Key(q)].fp = Fp(q)
    BY <2>1 DEF Owned
  <2>3. Key(q) = Key(r) /\ pc[r] \in Working => q = r
    BY <2>1 DEF ExclusiveUnlessLapsed
  <2>4. records \in [Keys -> Record(Fingerprints, Requests)]
    BY DEF StoreInv, TypeOK
  <2>5. CASE Key(q) = Key(r) /\ pc[r] \in Working
    BY <1>1, <2>2, <2>3, <2>4, <2>5 DEF Completed
  <2>6. CASE Key(q) = Key(r) /\ pc[r] \notin Working
    BY <1>1, <2>2, <2>6
  <2>7. CASE Key(q) # Key(r)
    BY <1>1, <2>2, <2>4, <2>7
  <2> QED BY <2>5, <2>6, <2>7
<1>4. NotStoredYet'
  <2> SUFFICES ASSUME NEW q \in Requests, pc'[q] \in {"execute", "save"}, Key(q) \notin lapsed
               PROVE  keyIndex'[Key(q)] = None
    BY <1>1 DEF NotStoredYet
  <2>1. keyIndex[Key(q)] = None
    BY <1>1 DEF NotStoredYet
  <2>2. CASE UNCHANGED keyIndex
    BY <2>1, <2>2
  <2>3. CASE pc[r] = "save" /\ where \notin {"execute", "save"} /\ Commits(r)
    <3>1. q # r /\ pc[q] \in Working /\ pc[r] \in Working
      BY <1>1, <2>3 DEF Working
    <3>2. Key(q) # Key(r)
      BY <3>1 DEF ExclusiveUnlessLapsed
    <3> QED BY <1>1, <2>1, <2>3, <3>2 DEF Commits, StoreInv, TypeOK
  <2> QED BY <2>2, <2>3
<1> QED BY <1>2, <1>3, <1>4

\* A request takes the claim of a key that has none.
LEMMA ClaimTaken ==
  ASSUME StoreInv, ClaimInv, NEW r \in Requests, Go(r, "lookup"),
         records[Key(r)].status = "ABSENT",
         records' = [records EXCEPT ![Key(r)] = Claimed(Fp(r))],
         UNCHANGED <<data, lapsed, keyIndex>>
  PROVE  ClaimInv'
<1> USE DEF ClaimInv
<1>1. \A q \in Requests : /\ Key(q)' = Key(q) /\ Fp(q)' = Fp(q) /\ Key(q) \in Keys
                          /\ q # r => pc'[q] = pc[q]
                          /\ pc'[r] = "lookup"
  BY DEF StoreInv, TypeOK, Go, Key, Fp
<1>2. \A q \in Requests : pc[q] \in Working /\ Key(q) = Key(r) => Key(r) \in lapsed
  BY DEF Owned
<1>3. ExclusiveUnlessLapsed'
  BY <1>1, <1>2 DEF ExclusiveUnlessLapsed
<1>4. Owned'
  BY <1>1, <1>2 DEF Owned, StoreInv, TypeOK, Claimed
<1>5. NotStoredYet'
  BY <1>1 DEF NotStoredYet
<1> QED BY <1>3, <1>4, <1>5

\* Redis drops records; the keys that were being worked on are noted.
LEMMA ClaimsDropped ==
  ASSUME StoreInv, ClaimInv, NEW K \in SUBSET Keys,
         records' = [k \in Keys |-> IF k \in K THEN Absent ELSE records[k]],
         lapsed' = lapsed \cup (K \cap BeingWorkedOn),
         UNCHANGED <<data, pc, keyIndex>>
  PROVE  ClaimInv'
<1> USE DEF ClaimInv
<1>1. \A q \in Requests : Key(q)' = Key(q) /\ Fp(q)' = Fp(q) /\ Key(q) \in Keys
  BY DEF StoreInv, TypeOK, Key, Fp
<1>2. \A q \in Requests : pc[q] \in Working /\ Key(q) \in K => Key(q) \in lapsed'
  BY <1>1 DEF BeingWorkedOn
<1>3. ExclusiveUnlessLapsed' /\ NotStoredYet'
  BY <1>1 DEF ExclusiveUnlessLapsed, NotStoredYet
<1>4. Owned'
  BY <1>1, <1>2 DEF Owned
<1> QED BY <1>3, <1>4

\* Every step keeps the claims owned until one lapses.
LEMMA ClaimStep == StoreInv /\ ClaimInv /\ [Next]_vars => ClaimInv'
<1> SUFFICES ASSUME StoreInv, ClaimInv, [Next]_vars PROVE ClaimInv'
  OBVIOUS
<1> USE DEF PC, Working, Ended
<1>1. ASSUME NEW r \in Requests, Acquire(r) PROVE ClaimInv'
  <2> DEFINE decision == Decision(records[Key(r)], Fp(r))
  <2>1. CASE decision = "CLAIMED"
    BY <1>1, <2>1, ClaimTaken, ScriptTyped DEF Acquire, ClaimScript, StoreInv
  <2>2. CASE decision # "CLAIMED"
    <3>1. Go(r, "conflict") \/ Go(r, "replay") \/ Go(r, "polling")
      BY <1>1, <2>2, ScriptTyped DEF Acquire, StoreInv
    <3>2. UNCHANGED <<records, data, lapsed, keyIndex>>
      BY <1>1, <2>2 DEF Acquire, ClaimScript
    <3> QED BY <3>1, <3>2, ClaimKept
  <2> QED BY <2>1, <2>2
<1>2. ASSUME NEW r \in Requests, AcquireInterrupted(r) PROVE ClaimInv'
  <2>1. \/ UNCHANGED records
        \/ /\ records[Key(r)].status = "ABSENT"
           /\ records' = [records EXCEPT ![Key(r)] = Claimed(Fp(r))]
    BY <1>2, ScriptTyped DEF AcquireInterrupted, ClaimScript, StoreInv
  <2> QED BY <1>2, <2>1, ClaimKept DEF AcquireInterrupted, End
<1>3. ASSUME NEW r \in Requests, Replay(r) \/ ProcessDies(r) PROVE ClaimInv'
  <2>1. /\ Go(r, "returned") \/ Go(r, "error") \/ Go(r, "crashed")
        /\ UNCHANGED <<records, data, lapsed, keyIndex>>
    BY <1>3 DEF Replay, ProcessDies, End
  <2> QED BY <2>1, ClaimKept
<1>4. ASSUME NEW r \in Requests, Lookup(r) PROVE ClaimInv'
  <2>1. /\ (Go(r, "execute") /\ keyIndex[Key(r)] = None) \/ Go(r, "hget") \/ Go(r, "hset")
        /\ pc[r] = "lookup"
        /\ UNCHANGED <<records, data, lapsed, keyIndex>>
    BY <1>4 DEF Lookup, RaiseAndAbort
  <2> QED BY <2>1, ClaimKept
<1>5. ASSUME NEW r \in Requests, Execute(r) PROVE ClaimInv'
  BY <1>5, ClaimKept DEF Execute
<1>6. ASSUME NEW r \in Requests, Save(r) PROVE ClaimInv'
  <2>1. /\ Go(r, "hset") \/ Go(r, "hget")
        /\ pc[r] = "save"
        /\ UNCHANGED keyIndex \/ Commits(r)
        /\ UNCHANGED <<records, data, lapsed>>
    BY <1>6 DEF Save, RaiseAndAbort, Commits
  <2> QED BY <2>1, ClaimKept
<1>7. ASSUME NEW r \in Requests, WorkInterrupted(r) PROVE ClaimInv'
  <2>1. /\ (Go(r, "hget") /\ pc[r] \in {"lookup", "execute", "save"}) \/ Go(r, "error")
        /\ UNCHANGED keyIndex \/ (pc[r] = "save" /\ Commits(r))
        /\ UNCHANGED <<records, data, lapsed>>
    BY <1>7 DEF WorkInterrupted, RaiseAndAbort, Commits, End
  <2> QED BY <2>1, ClaimKept
<1>8. ASSUME NEW r \in Requests, HSet(r) \/ Expire(r) \/ CompleteInterrupted(r) PROVE ClaimInv'
  <2>1. pc[r] = "expire" => ending[r] \in {"returned", "failed"}
    BY DEF StoreInv, Locals
  <2>2. /\ pc[r] \in {"hset", "expire"}
        /\ Go(r, "expire") \/ Go(r, "hget") \/ Go(r, "returned") \/ Go(r, "failed")
        /\ UNCHANGED <<data, lapsed, keyIndex>>
        /\ UNCHANGED records \/ records' = [records EXCEPT ![Key(r)] = Completed(Fp(r), payment[r])]
    BY <1>8, <2>1 DEF HSet, Expire, CompleteInterrupted, SetCompleted, SetExpiry, RaiseAndAbort, End
  <2> QED BY <2>2, ClaimKept
<1>9. ASSUME NEW r \in Requests, HGet(r) \/ Delete(r) \/ AbortInterrupted(r) PROVE ClaimInv'
  <2>1. pc[r] \in {"hget", "delete"} => ending[r] \in {"conflict", "error"}
    BY DEF StoreInv, Locals
  <2>2. /\ pc[r] \in {"hget", "delete"}
        /\ \/ (Go(r, "delete") \/ Go(r, "conflict") \/ Go(r, "error")) /\ UNCHANGED records
           \/ /\ Go(r, "conflict") \/ Go(r, "error")
              /\ records' = [records EXCEPT ![Key(r)] = Absent]
        /\ UNCHANGED <<data, lapsed, keyIndex>>
    BY <1>9, <2>1 DEF HGet, Delete, AbortInterrupted, DeleteRecord, End
  <2> QED BY <2>2, ClaimKept
<1>10. ASSUME NEW k \in Keys, RecordExpires(k) PROVE ClaimInv'
  <2>1. records' = [j \in Keys |-> IF j \in {k} THEN Absent ELSE records[j]]
    BY <1>10 DEF RecordExpires, StoreInv, TypeOK
  <2>2. lapsed' = lapsed \cup ({k} \cap BeingWorkedOn) /\ UNCHANGED <<data, pc, keyIndex>>
    BY <1>10 DEF RecordExpires
  <2> QED BY <2>1, <2>2, ClaimsDropped
<1>11. CASE RedisLosesData
  <2>1. /\ records' = [k \in Keys |-> IF k \in Keys THEN Absent ELSE records[k]]
        /\ lapsed' = lapsed \cup (Keys \cap BeingWorkedOn)
        /\ UNCHANGED <<data, pc, keyIndex>>
    BY <1>11 DEF RedisLosesData, BeingWorkedOn
  <2> QED BY <2>1, ClaimsDropped
<1>12. CASE UNCHANGED vars
  BY <1>12 DEF vars, ClaimInv, Owned, ExclusiveUnlessLapsed, NotStoredYet, Key, Fp
<1> QED
  BY <1>1, <1>2, <1>3, <1>4, <1>5, <1>6, <1>7, <1>8, <1>9, <1>10, <1>11, <1>12 DEF Next, Step

\* Nobody has a claim at first.
LEMMA ClaimInit == Init => ClaimInv
  BY DEF Init, ClaimInv, Owned, ExclusiveUnlessLapsed, NotStoredYet, Working

\* This holds throughout.
LEMMA ClaimInvariant == Spec => []ClaimInv
  BY ClaimInit, ClaimStep, StoreInvariant, PTL DEF Spec

-----------------------------------------------------------------------------
(* Charges. *)

\* A request of the key that charged, and was not lost, is at work or has its
\* payment stored.
LEMMA ChargedStep ==
  ASSUME StoreInv, ClaimInv, ChargedLocals, [Next]_vars
  PROVE  ChargedLocals'
<1> USE DEF StoreInv, ChargedLocals
<1>1. charged \subseteq Requests
  BY DEF TypeOK
<1>2. ASSUME NEW r \in Requests, Acquire(r) \/ AcquireInterrupted(r) \/ Replay(r) \/ ProcessDies(r)
      PROVE  ChargedLocals'
  BY <1>1, <1>2 DEF TypeOK, Acquire, AcquireInterrupted, Replay, ProcessDies, End, Go, Key, Ended
<1>3. ASSUME NEW r \in Requests, Lookup(r)
      PROVE  ChargedLocals'
  BY <1>1, <1>3 DEF TypeOK, Lookup, RaiseAndAbort, Settle, Go, Key, local
<1>4. ASSUME NEW r \in Requests, Execute(r)
      PROVE  ChargedLocals'
  BY <1>1, <1>4 DEF TypeOK, Execute, Settle, Go, Key
<1>5. ASSUME NEW r \in Requests, Save(r)
      PROVE  ChargedLocals'
  BY <1>1, <1>5, RedisAssumption DEF TypeOK, Save, RaiseAndAbort, Go, Key, local
<1>6. ASSUME NEW r \in Requests, WorkInterrupted(r)
      PROVE  ChargedLocals'
  BY <1>1, <1>6, RedisAssumption DEF TypeOK, WorkInterrupted, RaiseAndAbort, End, Go, Key
<1>7. ASSUME NEW r \in Requests, HSet(r) \/ Expire(r) \/ CompleteInterrupted(r)
      PROVE  ChargedLocals'
  BY <1>1, <1>7 DEF TypeOK, HSet, Expire, CompleteInterrupted, RaiseAndAbort, End, Go, Key, local
<1>8. ASSUME NEW r \in Requests, HGet(r) \/ Delete(r) \/ AbortInterrupted(r)
      PROVE  ChargedLocals'
  BY <1>1, <1>8 DEF TypeOK, HGet, Delete, AbortInterrupted, End, Go, Key, local
<1>9. CASE RedisLosesData \/ (\E k \in Keys : RecordExpires(k)) \/ UNCHANGED vars
  BY <1>9 DEF RedisLosesData, RecordExpires, vars, local, Key
<1> QED
  BY <1>2, <1>3, <1>4, <1>5, <1>6, <1>7, <1>8, <1>9 DEF Next, Step

\* Every step keeps the charges accounted for.
LEMMA ChargesStep ==
  ASSUME StoreInv, ClaimInv, ChargedLocals, ChargedOnceUnlessLapsed, [Next]_vars
  PROVE  ChargedOnceUnlessLapsed'
<1>1. /\ UNCHANGED data
      /\ lapsed \subseteq lapsed'
      /\ \A q \in Requests : pc[q] \in {"error", "crashed"} => pc'[q] = pc[q]
  <2>1. UNCHANGED data /\ lapsed \subseteq lapsed'
    BY DEF Next, Step, vars, Acquire, AcquireInterrupted, Replay, Lookup, Execute, Save, WorkInterrupted,
           HSet, Expire, CompleteInterrupted, HGet, Delete, AbortInterrupted, ProcessDies,
           RecordExpires, RedisLosesData
  <2>2. ASSUME NEW r \in Requests, pc[r] \notin {"error", "crashed"}, NEW where, Go(r, where)
        PROVE  \A q \in Requests : pc[q] \in {"error", "crashed"} => pc'[q] = pc[q]
    BY <2>2 DEF StoreInv, TypeOK, Go
  <2>3. ASSUME NEW r \in Requests, Acquire(r) \/ AcquireInterrupted(r) \/ Replay(r) \/ ProcessDies(r)
                                    \/ Lookup(r) \/ Execute(r) \/ Save(r) \/ WorkInterrupted(r)
        PROVE  \A q \in Requests : pc[q] \in {"error", "crashed"} => pc'[q] = pc[q]
    BY <2>2, <2>3 DEF Acquire, AcquireInterrupted, Replay, ProcessDies, Lookup, Execute, Save,
                      WorkInterrupted, End, RaiseAndAbort, Ended
  <2>4. ASSUME NEW r \in Requests, HSet(r) \/ Expire(r) \/ CompleteInterrupted(r) \/ HGet(r)
                                    \/ Delete(r) \/ AbortInterrupted(r)
        PROVE  \A q \in Requests : pc[q] \in {"error", "crashed"} => pc'[q] = pc[q]
    BY <2>2, <2>4 DEF HSet, Expire, CompleteInterrupted, HGet, Delete, AbortInterrupted, End, RaiseAndAbort
  <2>5. CASE RedisLosesData \/ (\E k \in Keys : RecordExpires(k)) \/ UNCHANGED vars
    BY <2>5 DEF RedisLosesData, RecordExpires, vars
  <2> QED BY <2>1, <2>3, <2>4, <2>5 DEF Next, Step
<1>2. charged' = charged \/ \E r \in Requests : pc[r] = "execute" /\ charged' = charged \cup {r}
  BY DEF Next, Step, vars, Acquire, AcquireInterrupted, Replay, Lookup, Execute, Save, WorkInterrupted,
         HSet, Expire, CompleteInterrupted, HGet, Delete, AbortInterrupted, ProcessDies,
         RecordExpires, RedisLosesData
<1>3. \A q \in Requests : Key(q)' = Key(q)
  BY <1>1 DEF Key
<1>4. charged \subseteq Requests
  BY DEF StoreInv, TypeOK
<1>5. CASE charged' = charged
  BY <1>1, <1>3, <1>4, <1>5 DEF ChargedOnceUnlessLapsed
<1>6. ASSUME NEW r \in Requests, pc[r] = "execute", charged' = charged \cup {r}
      PROVE  ChargedOnceUnlessLapsed'
  <2>1. ASSUME NEW q \in charged, q # r, Key(q) = Key(r), Key(r) \notin lapsed
        PROVE  pc[q] \in {"error", "crashed"}
    <3>1. keyIndex[Key(r)] = None
      BY <1>6, <2>1 DEF ClaimInv, NotStoredYet
    <3>2. pc[q] \notin Working
      BY <1>4, <1>6, <2>1 DEF ClaimInv, ExclusiveUnlessLapsed, Working
    <3> QED BY <2>1, <3>1, <3>2 DEF ChargedLocals, Working
  <2> QED BY <1>1, <1>3, <1>4, <1>6, <2>1 DEF ChargedOnceUnlessLapsed
<1> QED BY <1>2, <1>5, <1>6

\* The state stays well-typed (idempotency.py, create).
THEOREM RedisTypeCorrect == Spec => []TypeOK
  BY StoreInvariant, PTL DEF StoreInv

\* Every answer of create is the stored payment of the request's key, made
\* from its data, whatever Redis forgets and whichever commands of complete
\* and abort fail half-way.
THEOREM RedisAnswersAreStored == Spec => []AnswersAreStored
  BY StoreInvariant, PTL DEF StoreInv

\* Requests of a key work on it one at a time while its claim is not lost:
\* the expiry is the only way round the claim script and the two-call abort.
THEOREM RedisExclusiveUnlessLapsed == Spec => []ExclusiveUnlessLapsed
  BY ClaimInvariant, PTL DEF ClaimInv

\* A key is charged twice only when a claim lapsed or the request that charged
\* it was lost (create).
THEOREM RedisChargedOnceUnlessLapsed == Spec => []ChargedOnceUnlessLapsed
<1>1. Init => ChargedLocals /\ ChargedOnceUnlessLapsed
  BY DEF Init, ChargedLocals, ChargedOnceUnlessLapsed
<1>2. StoreInv /\ ClaimInv /\ (ChargedLocals /\ ChargedOnceUnlessLapsed) /\ [Next]_vars
        => (ChargedLocals /\ ChargedOnceUnlessLapsed)'
  BY ChargedStep, ChargesStep
<1> QED BY <1>1, <1>2, StoreInvariant, ClaimInvariant, PTL DEF Spec
=============================================================================
