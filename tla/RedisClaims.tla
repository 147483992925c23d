---------------------------- MODULE RedisClaims -----------------------------
(***************************************************************************)
(* create (service.py) in several processes that share Redis and the       *)
(* database: RedisIdempotencyCoordinator (idempotency.py), whose claims    *)
(* expire, around the lookup, the provider calls and the save of           *)
(* SqlAlchemyPaymentRepository (db/repository.py), whose table refuses a   *)
(* second payment of a key.  The provider loop, which PaymentService       *)
(* details, is one step here, and a request creates at most one payment,   *)
(* which is named after it.                                                *)
(*                                                                         *)
(* Each Redis command and each database transaction is a step.             *)
(* RedisFaults turns on what may go wrong:                                 *)
(*   "lapse"      a claim expires while a request still works under it     *)
(*   "loss"       Redis loses its data                                     *)
(*   "interrupt"  a call raises, or its caller is cancelled, when it has   *)
(*                taken effect or when it has not                          *)
(*   "crash"      the process of a request dies                            *)
(***************************************************************************)
EXTENDS Idempotency

CONSTANTS Requests, Keys, Fingerprints, RedisFaults

ASSUME RedisAssumption ==
    /\ None \notin Requests \cup Fingerprints
    /\ RedisFaults \subseteq {"lapse", "loss", "interrupt", "crash"}

VARIABLES
    data,       \* the key and fingerprint each request carries
    pc,         \* where each request is
    records,    \* the Redis hash of each key
    ttl,        \* whether that hash has an expiry
    keyIndex,   \* the payment the database holds for each key
    payment,    \* the payment a request is to be answered with
    ending,     \* how a request ends when its last commands are done
    returned,   \* the payment each request was answered with
    charged,    \* history: requests whose provider call may have charged
    lapsed      \* history: keys whose claim went while a request worked on it

local == <<payment, ending>>
vars == <<data, pc, records, ttl, keyIndex, local, returned, charged, lapsed>>

\* Between the claim and the last command of complete or abort.
Working == {"lookup", "execute", "save", "hset", "expire", "hget", "delete"}

Ended == {"returned", "failed", "conflict", "error", "crashed"}

PC == {"new", "polling", "replay"} \cup Working \cup Ended

TypeOK ==
    /\ data \in [Requests -> [key : Keys, fp : Fingerprints]]
    /\ pc \in [Requests -> PC]
    /\ records \in [Keys -> Record(Fingerprints, Requests)]
    /\ ttl \in [Keys -> BOOLEAN]
    /\ keyIndex \in [Keys -> Requests \cup {None}]
    /\ payment \in [Requests -> Requests \cup {None}]
    /\ ending \in [Requests -> Ended \cup {None}]
    /\ returned \in [Requests -> Requests \cup {None}]
    /\ charged \subseteq Requests
    /\ lapsed \subseteq Keys

Init ==
    /\ data \in [Requests -> [key : Keys, fp : Fingerprints]]
    /\ pc = [r \in Requests |-> "new"]
    /\ records = [k \in Keys |-> Absent]
    /\ ttl = [k \in Keys |-> FALSE]
    /\ keyIndex = [k \in Keys |-> None]
    /\ payment = [r \in Requests |-> None]
    /\ ending = [r \in Requests |-> None]
    /\ returned = [r \in Requests |-> None]
    /\ charged = {}
    /\ lapsed = {}

Key(r) == data[r].key

Fp(r) == data[r].fp

Go(r, where) == pc' = [pc EXCEPT ![r] = where]

\* r leaves create and its local state is gone.
End(r, where) ==
    /\ Go(r, where)
    /\ payment' = [payment EXCEPT ![r] = None]
    /\ ending' = [ending EXCEPT ![r] = None]

\* The `except BaseException' of create: abort, then raise.
RaiseAndAbort(r, outcome) ==
    /\ Go(r, "hget")
    /\ ending' = [ending EXCEPT ![r] = outcome]
    /\ payment' = [payment EXCEPT ![r] = None]

\* complete for payment p, then end with `outcome'.
Settle(r, p, outcome) ==
    /\ ending' = [ending EXCEPT ![r] = outcome]
    /\ payment' = [payment EXCEPT ![r] = p]

-----------------------------------------------------------------------------
(* acquire *)

\* Slip: the claim is set without an expiry.
ClaimScriptWithoutExpiry(r) ==
    IF Decision(records[Key(r)], Fp(r)) = "CLAIMED"
    THEN /\ records' = [records EXCEPT ![Key(r)] = Claimed(Fp(r))]
         /\ UNCHANGED ttl
    ELSE UNCHANGED <<records, ttl>>

\* _CLAIM_SCRIPT, which Redis runs atomically.
ClaimScript(r) ==
    IF Decision(records[Key(r)], Fp(r)) = "CLAIMED"
    THEN /\ records' = [records EXCEPT ![Key(r)] = Claimed(Fp(r))]
         /\ ttl' = [ttl EXCEPT ![Key(r)] = TRUE]
    ELSE UNCHANGED <<records, ttl>>

\* One round of acquire: run the script, act on what it returned.
Acquire(r) ==
    LET decision == Decision(records[Key(r)], Fp(r)) IN
    /\ pc[r] \in {"new", "polling"}
    /\ ClaimScript(r)
    /\ Go(r, CASE decision = "CLAIMED" -> "lookup"
               [] decision = "CONFLICT" -> "conflict"
               [] decision = "COMPLETED" -> "replay"
               [] decision = "WAIT" -> "polling")
    /\ payment' = [payment EXCEPT ![r] = IF decision = "COMPLETED"
                                         THEN records[Key(r)].payment ELSE None]
    /\ UNCHANGED <<data, keyIndex, ending, returned, charged, lapsed>>

\* acquire raises; nobody aborts the claim it may have made.
AcquireInterrupted(r) ==
    /\ "interrupt" \in RedisFaults
    /\ pc[r] \in {"new", "polling"}
    /\ ClaimScript(r) \/ UNCHANGED <<records, ttl>>
    /\ End(r, "error")
    /\ UNCHANGED <<data, keyIndex, returned, charged, lapsed>>

\* store.get of the payment the script returned.
Replay(r) ==
    LET p == payment[r] IN
    /\ pc[r] = "replay"
    /\ IF p # None /\ keyIndex[Key(p)] = p
       THEN End(r, "returned") /\ returned' = [returned EXCEPT ![r] = p]
       ELSE End(r, "error") /\ UNCHANGED returned
    /\ UNCHANGED <<data, records, ttl, keyIndex, charged, lapsed>>

-----------------------------------------------------------------------------
(* create, with a claim *)

\* Slip: the claim is taken for proof that the key is new.
LookupSkipped(r) ==
    /\ pc[r] = "lookup"
    /\ Go(r, "execute")
    /\ UNCHANGED <<data, records, ttl, keyIndex, local, returned, charged, lapsed>>

\* store.get_by_idempotency under the claim.
Lookup(r) ==
    LET p == keyIndex[Key(r)] IN
    /\ pc[r] = "lookup"
    /\ \/ p = None /\ Go(r, "execute") /\ UNCHANGED local
       \/ p # None /\ Fp(p) # Fp(r) /\ RaiseAndAbort(r, "conflict")
       \/ p # None /\ Fp(p) = Fp(r) /\ Go(r, "hset") /\ Settle(r, p, "returned")
    /\ UNCHANGED <<data, records, ttl, keyIndex, returned, charged, lapsed>>

\* The provider loop ends with a charge or with the last provider error.
Execute(r) ==
    /\ pc[r] = "execute"
    /\ \/ charged' = charged \cup {r} /\ Settle(r, r, "returned")
       \/ UNCHANGED charged /\ Settle(r, r, "failed")
    /\ Go(r, "save")
    /\ UNCHANGED <<data, records, ttl, keyIndex, returned, lapsed>>

\* save_with_events commits, or the unique key raises IntegrityError.
Save(r) ==
    /\ pc[r] = "save"
    /\ IF keyIndex[Key(r)] = None
       THEN /\ keyIndex' = [keyIndex EXCEPT ![Key(r)] = r]
            /\ Go(r, "hset")
            /\ UNCHANGED local
       ELSE RaiseAndAbort(r, "error") /\ UNCHANGED keyIndex
    /\ UNCHANGED <<data, records, ttl, returned, charged, lapsed>>

\* A store or provider call raises, or is cancelled, and may have had effect.
WorkInterrupted(r) ==
    /\ "interrupt" \in RedisFaults
    /\ \/ /\ pc[r] \in {"lookup", "execute", "save"}
          /\ RaiseAndAbort(r, "error")
       \/ pc[r] = "replay" /\ End(r, "error")
    /\ charged' \in {charged} \cup (IF pc[r] = "execute" THEN {charged \cup {r}} ELSE {})
    /\ \/ UNCHANGED keyIndex
       \/ /\ pc[r] = "save" /\ keyIndex[Key(r)] = None
          /\ keyIndex' = [keyIndex EXCEPT ![Key(r)] = r]
    /\ UNCHANGED <<data, records, ttl, returned, lapsed>>

-----------------------------------------------------------------------------
(* complete: HSET, then EXPIRE *)

SetCompleted(r) ==
    /\ records' = [records EXCEPT ![Key(r)] = Completed(Fp(r), payment[r])]
    /\ UNCHANGED ttl

HSet(r) ==
    /\ pc[r] = "hset"
    /\ SetCompleted(r)
    /\ Go(r, "expire")
    /\ UNCHANGED <<data, keyIndex, local, returned, charged, lapsed>>

SetExpiry(r) ==
    /\ ttl' = [ttl EXCEPT ![Key(r)] = records[Key(r)].status # "ABSENT"]
    /\ UNCHANGED records

Expire(r) ==
    /\ pc[r] = "expire"
    /\ SetExpiry(r)
    /\ End(r, ending[r])
    /\ returned' = [returned EXCEPT ![r] = IF ending[r] = "returned" THEN payment[r] ELSE None]
    /\ UNCHANGED <<data, keyIndex, charged, lapsed>>

CompleteInterrupted(r) ==
    /\ "interrupt" \in RedisFaults
    /\ pc[r] \in {"hset", "expire"}
    /\ \/ UNCHANGED <<records, ttl>>
       \/ pc[r] = "hset" /\ SetCompleted(r)
       \/ pc[r] = "expire" /\ SetExpiry(r)
    /\ RaiseAndAbort(r, "error")
    /\ UNCHANGED <<data, keyIndex, returned, charged, lapsed>>

-----------------------------------------------------------------------------
(* abort: HGET of the fingerprint, then DEL *)

\* Whoever's record it is, claimed or completed.
HGet(r) ==
    /\ pc[r] = "hget"
    /\ IF records[Key(r)].fp = Fp(r)
       THEN Go(r, "delete") /\ UNCHANGED local
       ELSE End(r, ending[r])
    /\ UNCHANGED <<data, records, ttl, keyIndex, returned, charged, lapsed>>

DeleteRecord(r) ==
    /\ records' = [records EXCEPT ![Key(r)] = Absent]
    /\ ttl' = [ttl EXCEPT ![Key(r)] = FALSE]

Delete(r) ==
    /\ pc[r] = "delete"
    /\ DeleteRecord(r)
    /\ End(r, ending[r])
    /\ UNCHANGED <<data, keyIndex, returned, charged, lapsed>>

AbortInterrupted(r) ==
    /\ "interrupt" \in RedisFaults
    /\ \/ pc[r] \in {"hget", "delete"} /\ UNCHANGED <<records, ttl>>
       \/ pc[r] = "delete" /\ DeleteRecord(r)
    /\ End(r, ending[r])
    /\ UNCHANGED <<data, keyIndex, returned, charged, lapsed>>

-----------------------------------------------------------------------------
(* Redis and the processes. *)

BeingWorkedOn == {k \in Keys : \E r \in Requests : pc[r] \in Working /\ Key(r) = k}

\* A record reaches its expiry.
RecordExpires(k) ==
    /\ ttl[k]
    /\ "lapse" \in RedisFaults \/ k \notin BeingWorkedOn
    /\ records' = [records EXCEPT ![k] = Absent]
    /\ ttl' = [ttl EXCEPT ![k] = FALSE]
    /\ lapsed' = lapsed \cup ({k} \cap BeingWorkedOn)
    /\ UNCHANGED <<data, pc, keyIndex, local, returned, charged>>

RedisLosesData ==
    /\ "loss" \in RedisFaults
    /\ \E k \in Keys : records[k] # Absent
    /\ records' = [k \in Keys |-> Absent]
    /\ ttl' = [k \in Keys |-> FALSE]
    /\ lapsed' = lapsed \cup BeingWorkedOn
    /\ UNCHANGED <<data, pc, keyIndex, local, returned, charged>>

ProcessDies(r) ==
    /\ "crash" \in RedisFaults
    /\ pc[r] \notin {"new"} \cup Ended
    /\ End(r, "crashed")
    /\ UNCHANGED <<data, records, ttl, keyIndex, returned, charged, lapsed>>

Step(r) ==
    \/ Acquire(r) \/ Replay(r) \/ Lookup(r) \/ Execute(r) \/ Save(r)
    \/ HSet(r) \/ Expire(r) \/ HGet(r) \/ Delete(r)

Next ==
    \/ \E r \in Requests : \/ Step(r) \/ AcquireInterrupted(r) \/ WorkInterrupted(r)
                           \/ CompleteInterrupted(r) \/ AbortInterrupted(r) \/ ProcessDies(r)
    \/ \E k \in Keys : RecordExpires(k)
    \/ RedisLosesData
    \/ (\A r \in Requests : pc[r] \in Ended) /\ UNCHANGED vars

\* Live tasks run, and time passes.
Fairness ==
    /\ \A r \in Requests : WF_vars(Step(r))
    /\ \A k \in Keys : WF_vars(RecordExpires(k))

Spec == Init /\ [][Next]_vars /\ Fairness

-----------------------------------------------------------------------------
(* Properties. *)

\* While no claim of the key was lost under its owner, requests of one key
\* work one at a time, though acquire may leave claims nobody has, abort
\* deletes whatever carries its fingerprint, and workers die.
ExclusiveUnlessLapsed ==
    \A q, r \in Requests :
      pc[q] \in Working /\ pc[r] \in Working /\ Key(q) = Key(r) /\ q # r
        => Key(r) \in lapsed

\* A key is charged twice only when a claim lapsed, or a request that charged
\* it was lost before its payment was stored and known (create).
ChargedOnceUnlessLapsed ==
    \A q, r \in charged :
      Key(q) = Key(r) /\ q # r =>
        \/ Key(r) \in lapsed
        \/ \E z \in {q, r} : pc[z] \in {"error", "crashed"}

\* Every answer is the one stored payment of the key, made from the same data,
\* even after lapsed claims, lost data and half-done commands.
AnswersAreStored ==
    \A r \in Requests :
      returned[r] # None =>
        /\ returned[r] = keyIndex[Key(r)]
        /\ Fp(returned[r]) = Fp(r)

\* Every request ends: a claim whose worker died, or that was made for a
\* request that never heard of it, does not lock its key (_CLAIM_SCRIPT).
RequestsEnd == \A r \in Requests : <>(pc[r] \in Ended)
=============================================================================
