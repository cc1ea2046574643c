----------------------------- MODULE FleetProofs ----------------------------
(***************************************************************************)
(* Proofs about three components of the fleet, for any devices, benches,   *)
(* workflows, reservations and bounds: what a reservation was promised it  *)
(* keeps, and the lock manager implements FencedLocks (ResourceLocks); a   *)
(* workflow never gives back a lease it did not acquire (WorkflowDispatch);*)
(* and an upgrade of the schema that is interrupted anywhere loses no row  *)
(* and starts no server on an incomplete schema (SchemaMigration).         *)
(***************************************************************************)
EXTENDS ResourceLocks, WorkflowDispatch, SchemaMigration, SequenceTheorems, TLAPS

Lock == [owner : Claimant, until : 1..Never, token : 1..MaxTokens]

Promise == [keys : SUBSET LockKey, until : 0..Never]

\* The types of what only the lock manager keeps.
KeptTypes ==
    /\ locks \in [LockKey -> Lock \cup {Unlocked}]
    /\ tokens \in [LockKey -> 0..MaxTokens]
    /\ promised \in [Claimant -> Promise]
    /\ tokensIssued \subseteq LockKey \X (1..MaxTokens) \X Claimant

\* A promise that has not run out is covered by the locks.
PromisesKept ==
    \A h \in Claimant : promised[h].until > clock =>
        \A k \in promised[h].keys : locks[k].owner = h /\ locks[k].until >= promised[h].until

\* A token of a key that was issued has been counted, and was issued to one holder.
TokensCounted ==
    /\ \A x \in tokensIssued : x[2] <= tokens[x[1]]
    /\ \A x, y \in tokensIssued : x[1] = y[1] /\ x[2] = y[2] => x[3] = y[3]

LocksInv == LocksTypeOK /\ KeptTypes /\ PromisesKept /\ TokensCounted

\* A lock names a reservation and an hour, the absence of one names neither.
LEMMA LockFields ==
    /\ \A l \in Lock : /\ l.owner \in Claimant /\ l.until \in 1..Never
                       /\ l # Unlocked /\ l.owner # Unlocked.owner
    /\ Unlocked.owner = "nobody" /\ "nobody" \notin Claimant /\ Unlocked.until = 0
<1>1. \A l \in Lock : l.owner \in Claimant /\ l.until \in 1..Never
  BY DEF Lock
<1>2. Unlocked.owner = "nobody" /\ Unlocked.until = 0
  BY DEF Unlocked
<1>3. "nobody" \notin Claimant
  BY LocksAssumption
<1>4. \A l \in Lock : l.owner # Unlocked.owner
  BY <1>1, <1>2, <1>3
<1>5. \A l \in Lock : l # Unlocked
  BY <1>4
<1> QED
  BY <1>1, <1>2, <1>3, <1>4, <1>5

\* A lock taken over by a reservation, or extended, is a lock.
Taken(l, h, u) == [l EXCEPT !.owner = h, !.until = u]

LEMMA LockTaken ==
    ASSUME NEW l \in Lock, NEW h \in Claimant, NEW u \in 1..Never
    PROVE  /\ Taken(l, h, u) \in Lock
           /\ Taken(l, h, u).owner = h /\ Taken(l, h, u).until = u
<1>1. PICK a : a = [l EXCEPT !.owner = h]
  OBVIOUS
<1>2. a \in Lock /\ a.owner = h
  BY <1>1 DEF Lock
<1>3. Taken(l, h, u) = [a EXCEPT !.until = u]
  BY <1>1 DEF Taken
<1>4. /\ [a EXCEPT !.until = u] \in Lock /\ [a EXCEPT !.until = u].owner = a.owner
      /\ [a EXCEPT !.until = u].until = u
  BY <1>2 DEF Lock
<1> QED
  BY <1>2, <1>3, <1>4

\* A lock with a new expiry is a lock of the same reservation.
LEMMA LockExtended ==
    ASSUME NEW l \in Lock, NEW u \in 1..Never
    PROVE  /\ [l EXCEPT !.until = u] \in Lock
           /\ [l EXCEPT !.until = u].owner = l.owner
           /\ [l EXCEPT !.until = u].until = u
  BY DEF Lock

\* Forgetting the locks that ran out leaves locks, and those that have not.
LEMMA NowEffect ==
    ASSUME LocksInv
    PROVE  /\ LocksNow \in [LockKey -> Lock \cup {Unlocked}]
           /\ \A k \in LockKey : LocksNow[k] # Unlocked =>
                /\ LocksNow[k] = locks[k] /\ LocksNow[k] \in Lock /\ locks[k].until > clock
           /\ \A k \in LockKey : locks[k] # Unlocked /\ locks[k].until > clock =>
                LocksNow[k] = locks[k]
  BY DEF LocksInv, KeptTypes, LocksNow, Unexpired

\* What is promised and has not run out is locked, now.
LEMMA PromisedNow ==
    ASSUME LocksInv, NEW h \in Claimant, promised[h].until > clock, NEW k \in promised[h].keys
    PROVE  /\ k \in LockKey /\ LocksNow[k] = locks[k] /\ locks[k] \in Lock
           /\ locks[k].owner = h /\ locks[k].until >= promised[h].until
           /\ locks[k].until > clock
<1>1. promised[h] \in Promise
  BY DEF LocksInv, KeptTypes
<1>2. k \in LockKey /\ promised[h].until \in 0..Never
  BY <1>1 DEF Promise
<1>3. locks[k].owner = h /\ locks[k].until >= promised[h].until
  BY DEF LocksInv, PromisesKept
<1>4. locks[k] \in Lock
  <2>1. locks[k] \in Lock \cup {Unlocked}
    BY <1>2 DEF LocksInv, KeptTypes
  <2>2. locks[k] # Unlocked
    BY <1>3, LockFields
  <2> QED
    BY <2>1, <2>2
<1>5. clock \in Nat /\ locks[k].until \in Nat
  <2>1. locks[k].until \in 1..Never /\ Never \in Nat
    BY <1>4, LockFields, LocksAssumption DEF Never
  <2>2. clock \in 0..LockHorizon /\ LockHorizon \in Nat
    BY LocksAssumption DEF LocksInv, LocksTypeOK
  <2> QED
    BY <2>1, <2>2
<1>6. locks[k].until > clock
  BY <1>2, <1>3, <1>5, LocksAssumption DEF Never
<1> QED
  BY <1>2, <1>3, <1>4, <1>6, NowEffect, LockFields

\* Initially nothing is locked, promised or issued.
LEMMA LocksInitInv == LocksInit => LocksInv
<1> SUFFICES ASSUME LocksInit PROVE LocksInv
  OBVIOUS
<1>1. LocksTypeOK
  BY LocksAssumption DEF LocksInit, LocksTypeOK
<1>2. KeptTypes
  <2>1. NoPromise \in Promise
    BY LocksAssumption DEF NoPromise, Promise, Never
  <2> QED
    BY <2>1, LocksAssumption DEF LocksInit, KeptTypes
<1>3. PromisesKept
  BY DEF LocksInit, PromisesKept, NoPromise
<1> QED
  BY <1>1, <1>2, <1>3 DEF LocksInit, LocksInv, TokensCounted

\* The keys of a bench are lock keys.
LEMMA KeysOfBench ==
    ASSUME LocksInv, NEW c \in Composed PROVE LockKeys(c) \subseteq LockKey
  BY DEF LocksInv, LocksTypeOK, LockKeys, KeyOf, LockKey, Binding

\* All the keys of the bench become the reservation's, and nobody else loses one.
LEMMA AcquireEffect ==
    ASSUME LocksInv, NEW h \in Claimant, NEW until \in 1..Never, Acquire(h, until)
    PROVE  LET keys == LockKeys(HoldsBench[h])
               fresh == {k \in keys : LocksNow[k] = Unlocked}
           IN /\ keys \subseteq LockKey /\ until > clock
              /\ locks' \in [LockKey -> Lock \cup {Unlocked}]
              /\ tokens' \in [LockKey -> 0..MaxTokens]
              /\ \A k \in keys : locks'[k] \in Lock /\ locks'[k].owner = h /\ locks'[k].until = until
              /\ \A k \in LockKey \ keys : locks'[k] = LocksNow[k]
              /\ \A k \in keys \ fresh : LocksNow[k].owner = h
              /\ \A k \in fresh : tokens'[k] = tokens[k] + 1
              /\ \A k \in LockKey \ fresh : tokens'[k] = tokens[k]
<1> DEFINE keys == LockKeys(HoldsBench[h])
           fresh == {k \in keys : LocksNow[k] = Unlocked}
<1>1. keys \subseteq LockKey
  BY KeysOfBench, LocksAssumption
<1>2. /\ until > clock
      /\ Conflicts(h, keys) = {}
      /\ \A k \in fresh : tokens[k] < MaxTokens
      /\ locks' = [k \in LockKey |->
            IF k \in fresh THEN [owner |-> h, until |-> until, token |-> NextToken(k)]
            ELSE IF k \in keys THEN [LocksNow[k] EXCEPT !.owner = h, !.until = until]
            ELSE LocksNow[k]]
      /\ tokens' = [k \in LockKey |-> IF k \in fresh THEN NextToken(k) ELSE tokens[k]]
  BY DEF Acquire
<1>3. \A k \in keys \ fresh : LocksNow[k] \in Lock /\ LocksNow[k].owner = h
  BY <1>1, <1>2, NowEffect DEF Conflicts
<1>4. tokens \in [LockKey -> 0..MaxTokens] /\ MaxTokens \in Nat
  BY LocksAssumption DEF LocksInv, KeptTypes
<1> HIDE DEF keys
<1>5. ASSUME NEW k \in fresh
      PROVE  /\ NextToken(k) = tokens[k] + 1 /\ NextToken(k) \in 1..MaxTokens
             /\ NextToken(k) \in 0..MaxTokens
  <2>1. tokens[k] \in 0..MaxTokens /\ tokens[k] < MaxTokens
    BY <1>1, <1>2, <1>4
  <2> QED
    BY <1>4, <2>1 DEF NextToken
<1>6. ASSUME NEW k \in LockKey
      PROVE  /\ locks'[k] \in Lock \cup {Unlocked}
             /\ k \in keys => locks'[k] \in Lock /\ locks'[k].owner = h /\ locks'[k].until = until
  <2>1. CASE k \in fresh
    <3>1. locks'[k] = [owner |-> h, until |-> until, token |-> NextToken(k)]
      BY <1>2, <2>1
    <3> QED
      BY <1>5, <2>1, <3>1 DEF Lock
  <2>2. CASE k \in keys \ fresh
    <3>1. locks'[k] = [LocksNow[k] EXCEPT !.owner = h, !.until = until]
      BY <1>2, <2>2
    <3> QED
      <4>1. PICK l \in Lock : l = LocksNow[k]
        BY <1>3, <2>2
      <4>2. locks'[k] = Taken(l, h, until)
        BY <3>1, <4>1 DEF Taken
      <4> QED
        BY <4>1, <4>2, LockTaken
  <2>3. CASE k \notin keys
    BY <1>2, <2>3, NowEffect
  <2> QED
    BY <2>1, <2>2, <2>3
<1>7. tokens' \in [LockKey -> 0..MaxTokens]
  <2>1. \A k \in LockKey : (IF k \in fresh THEN NextToken(k) ELSE tokens[k]) \in 0..MaxTokens
    BY <1>4, <1>5
  <2> QED
    BY <1>2, <2>1
<1>8. /\ \A k \in fresh : tokens'[k] = tokens[k] + 1
      /\ \A k \in LockKey \ fresh : tokens'[k] = tokens[k]
      /\ \A k \in LockKey \ keys : locks'[k] = LocksNow[k]
  BY <1>1, <1>2, <1>5
<1>9. locks' \in [LockKey -> Lock \cup {Unlocked}]
  BY <1>2, <1>6
<1> QED
  BY <1>1, <1>2, <1>3, <1>6, <1>7, <1>8, <1>9 DEF keys

\* An acquisition breaks no promise and issues no token twice.
LEMMA AcquireKeeps ==
    ASSUME LocksInv, NEW h \in Claimant, NEW until \in 1..Never, Acquire(h, until)
    PROVE  LocksInv'
<1> DEFINE keys == LockKeys(HoldsBench[h])
           fresh == {k \in keys : LocksNow[k] = Unlocked}
<1>1. /\ keys \subseteq LockKey /\ until > clock
      /\ locks' \in [LockKey -> Lock \cup {Unlocked}]
      /\ tokens' \in [LockKey -> 0..MaxTokens]
      /\ \A k \in keys : locks'[k] \in Lock /\ locks'[k].owner = h /\ locks'[k].until = until
      /\ \A k \in LockKey \ keys : locks'[k] = LocksNow[k]
      /\ \A k \in keys \ fresh : LocksNow[k].owner = h
      /\ \A k \in fresh : tokens'[k] = tokens[k] + 1
      /\ \A k \in LockKey \ fresh : tokens'[k] = tokens[k]
  BY AcquireEffect
<1>2. /\ UNCHANGED <<resources, parts, clock, mixed>>
      /\ promised' = [promised EXCEPT ![h] = [keys |-> keys, until |-> until]]
      /\ tokensIssued' = tokensIssued \cup {<<k, NextToken(k), h>> : k \in fresh}
      /\ \A k \in fresh : tokens[k] < MaxTokens
  BY DEF Acquire
<1> HIDE DEF keys
<1>3. LocksTypeOK'
  BY <1>1, <1>2 DEF LocksInv, LocksTypeOK, Lock
<1>4. \A k \in fresh : NextToken(k) = tokens[k] + 1 /\ NextToken(k) \in 1..MaxTokens
  <2>1. tokens \in [LockKey -> 0..MaxTokens] /\ MaxTokens \in Nat
    BY LocksAssumption DEF LocksInv, KeptTypes
  <2> QED
    BY <1>1, <1>2, <2>1 DEF NextToken
<1>5. KeptTypes'
  <2>1. [keys |-> keys, until |-> until] \in Promise
    BY <1>1 DEF Promise, Never
  <2>2. promised' \in [Claimant -> Promise]
    BY <1>2, <2>1 DEF LocksInv, KeptTypes
  <2>3. tokensIssued' \subseteq LockKey \X (1..MaxTokens) \X Claimant
    BY <1>1, <1>2, <1>4 DEF LocksInv, KeptTypes
  <2> QED
    BY <1>1, <2>2, <2>3 DEF KeptTypes
<1>6. PromisesKept'
  <2> SUFFICES ASSUME NEW g \in Claimant, promised'[g].until > clock,
                      NEW k \in promised'[g].keys
               PROVE  locks'[k].owner = g /\ locks'[k].until >= promised'[g].until
    BY <1>2 DEF PromisesKept
  <2>1. promised \in [Claimant -> Promise]
    BY DEF LocksInv, KeptTypes
  <2>2. CASE g = h
    <3>1. promised'[g] = [keys |-> keys, until |-> until]
      BY <1>2, <2>1, <2>2
    <3>2. k \in keys /\ promised'[g].until = until
      BY <3>1
    <3> QED
      BY <1>1, <2>2, <3>2, LocksAssumption DEF Never
  <2>3. CASE g # h
    <3>1. promised'[g] = promised[g]
      BY <1>2, <2>1, <2>3
    <3>2. /\ k \in LockKey /\ LocksNow[k] = locks[k] /\ locks[k] \in Lock
          /\ locks[k].owner = g /\ locks[k].until >= promised[g].until
      BY <3>1, PromisedNow
    <3>3. k \notin keys
      <4> SUFFICES ASSUME k \in keys PROVE FALSE
        OBVIOUS
      <4>1. LocksNow[k] # Unlocked
        BY <3>2, LockFields
      <4>2. LocksNow[k].owner = h
        BY <1>1, <4>1
      <4> QED
        BY <2>3, <3>2, <4>2
    <3> QED
      BY <1>1, <3>1, <3>2, <3>3
  <2> QED
    BY <2>2, <2>3
<1>7. TokensCounted'
  <2>1. /\ tokens \in [LockKey -> 0..MaxTokens]
        /\ tokensIssued \subseteq LockKey \X (1..MaxTokens) \X Claimant
        /\ \A x \in tokensIssued : x[2] <= tokens[x[1]]
        /\ \A x, y \in tokensIssued : x[1] = y[1] /\ x[2] = y[2] => x[3] = y[3]
    BY DEF LocksInv, KeptTypes, TokensCounted
  <2>2. \A x \in tokensIssued : x[1] \in LockKey /\ x[2] \in 1..MaxTokens /\ x[2] <= tokens[x[1]]
    BY <2>1
  <2>3. ASSUME NEW x \in tokensIssued'
        PROVE  \/ x \in tokensIssued
               \/ x[1] \in fresh /\ x[2] = tokens[x[1]] + 1 /\ x[3] = h
    BY <1>2, <1>4
  <2>4. ASSUME NEW x \in tokensIssued' PROVE x[2] <= tokens'[x[1]]
    <3>1. CASE x \in tokensIssued
      <4>1. tokens'[x[1]] \in {tokens[x[1]], tokens[x[1]] + 1}
        BY <1>1, <2>2, <3>1
      <4> QED
        BY <2>1, <2>2, <3>1, <4>1
    <3>2. CASE x[1] \in fresh /\ x[2] = tokens[x[1]] + 1
      BY <1>1, <2>1, <3>2
    <3> QED
      BY <2>3, <3>1, <3>2
  <2>5. ASSUME NEW x \in tokensIssued', NEW y \in tokensIssued', x[1] = y[1], x[2] = y[2]
        PROVE  x[3] = y[3]
    <3>1. \A z \in tokensIssued : z[2] # tokens[z[1]] + 1
      BY <2>1, <2>2
    <3> QED
      BY <2>1, <2>3, <2>5, <3>1
  <2> QED
    BY <2>4, <2>5 DEF TokensCounted
<1> QED
  BY <1>3, <1>5, <1>6, <1>7 DEF LocksInv

\* A reservation extends what it still holds.
LEMMA RenewEffect ==
    ASSUME LocksInv, NEW h \in Claimant, NEW until \in 1..Never, Renew(h, until)
    PROVE  /\ locks' \in [LockKey -> Lock \cup {Unlocked}]
           /\ \A k \in LockKey :
                \/ LocksNow[k].owner # h /\ locks'[k] = LocksNow[k]
                \/ /\ LocksNow[k] \in Lock /\ LocksNow[k].owner = h
                   /\ locks'[k] \in Lock /\ locks'[k].owner = h /\ locks'[k].until = until
<1>1. locks' = [k \in LockKey |->
         IF LocksNow[k].owner = h THEN [LocksNow[k] EXCEPT !.until = until] ELSE LocksNow[k]]
  BY DEF Renew
<1>2. ASSUME NEW k \in LockKey
      PROVE  \/ LocksNow[k].owner # h /\ locks'[k] = LocksNow[k]
             \/ /\ LocksNow[k] \in Lock /\ LocksNow[k].owner = h
                /\ locks'[k] \in Lock /\ locks'[k].owner = h /\ locks'[k].until = until
  <2>1. CASE LocksNow[k].owner # h
    BY <1>1, <2>1
  <2>2. CASE LocksNow[k].owner = h
    <3>1. LocksNow[k] # Unlocked
      BY <2>2, LockFields
    <3>2. PICK l \in Lock : l = LocksNow[k]
      BY <3>1, NowEffect
    <3>3. locks'[k] = [l EXCEPT !.until = until]
      BY <1>1, <2>2, <3>2
    <3> QED
      BY <2>2, <3>2, <3>3, LockExtended
  <2> QED
    BY <2>1, <2>2
<1>3. \A k \in LockKey : locks'[k] \in Lock \cup {Unlocked}
  BY <1>2, NowEffect
<1> QED
  BY <1>1, <1>2, <1>3

\* A renewal breaks no promise, its own included.
LEMMA RenewKeeps ==
    ASSUME LocksInv, NEW h \in Claimant, NEW until \in 1..Never, Renew(h, until)
    PROVE  LocksInv'
<1>1. /\ locks' \in [LockKey -> Lock \cup {Unlocked}]
      /\ \A k \in LockKey :
           \/ LocksNow[k].owner # h /\ locks'[k] = LocksNow[k]
           \/ /\ LocksNow[k] \in Lock /\ LocksNow[k].owner = h
              /\ locks'[k] \in Lock /\ locks'[k].owner = h /\ locks'[k].until = until
  BY RenewEffect
<1>2. /\ UNCHANGED <<resources, parts, tokens, clock, tokensIssued, mixed>> /\ until > clock
      /\ promised' = [promised EXCEPT ![h] =
                        IF @.until > clock THEN [@ EXCEPT !.until = until] ELSE @]
  BY DEF Renew
<1>3. promised \in [Claimant -> Promise]
  BY DEF LocksInv, KeptTypes
<1>4. /\ promised'[h] \in Promise
      /\ promised[h].until > clock => /\ promised'[h].keys = promised[h].keys
                                      /\ promised'[h].until = until
      /\ ~(promised[h].until > clock) => promised'[h] = promised[h]
  <2>1. PICK p \in Promise : p = promised[h]
    BY <1>3
  <2>2. promised'[h] = IF p.until > clock THEN [p EXCEPT !.until = until] ELSE p
    BY <1>2, <1>3, <2>1
  <2>3. /\ [p EXCEPT !.until = until] \in Promise /\ [p EXCEPT !.until = until].keys = p.keys
        /\ [p EXCEPT !.until = until].until = until
    BY <2>1, LocksAssumption DEF Promise, Never
  <2> QED
    BY <2>1, <2>2, <2>3
<1>5. LocksTypeOK'
  BY <1>1, <1>2 DEF LocksInv, LocksTypeOK, Lock
<1>6. KeptTypes'
  <2>1. promised' \in [Claimant -> Promise]
    BY <1>2, <1>3, <1>4
  <2> QED
    BY <1>1, <1>2, <2>1 DEF LocksInv, KeptTypes
<1>7. PromisesKept'
  <2> SUFFICES ASSUME NEW g \in Claimant, promised'[g].until > clock,
                      NEW k \in promised'[g].keys
               PROVE  locks'[k].owner = g /\ locks'[k].until >= promised'[g].until
    BY <1>2 DEF PromisesKept
  <2>1. CASE g = h
    <3>1. promised[h].until > clock /\ k \in promised[h].keys /\ promised'[h].until = until
      BY <1>4, <2>1
    <3>2. k \in LockKey /\ LocksNow[k].owner = h
      BY <3>1, PromisedNow
    <3> QED
      BY <1>1, <2>1, <3>1, <3>2, LocksAssumption DEF Never
  <2>2. CASE g # h
    <3>1. promised'[g] = promised[g]
      BY <1>2, <1>3, <2>2
    <3>2. k \in LockKey /\ LocksNow[k] = locks[k] /\ locks[k].owner = g
          /\ locks[k].until >= promised[g].until
      BY <3>1, PromisedNow
    <3> QED
      BY <1>1, <2>2, <3>1, <3>2
  <2> QED
    BY <2>1, <2>2
<1>8. TokensCounted'
  BY <1>2 DEF LocksInv, TokensCounted
<1> QED
  BY <1>5, <1>6, <1>7, <1>8 DEF LocksInv

\* A reservation gives up what it was promised, and only what it holds.
LEMMA ReleaseKeeps == ASSUME LocksInv, NEW h \in Claimant, ReleaseLocks(h) PROVE LocksInv'
<1>1. /\ UNCHANGED <<resources, parts, tokens, clock, tokensIssued, mixed>>
      /\ locks' = [k \in LockKey |-> IF locks[k].owner = h THEN Unlocked ELSE locks[k]]
      /\ promised' = [promised EXCEPT ![h] = NoPromise]
  BY DEF ReleaseLocks
<1>2. locks \in [LockKey -> Lock \cup {Unlocked}] /\ promised \in [Claimant -> Promise]
  BY DEF LocksInv, KeptTypes
<1>3. locks' \in [LockKey -> Lock \cup {Unlocked}]
  BY <1>1, <1>2
<1>4. LocksTypeOK'
  BY <1>1, <1>3 DEF LocksInv, LocksTypeOK, Lock
<1>5. KeptTypes'
  <2>1. NoPromise \in Promise
    BY LocksAssumption DEF NoPromise, Promise, Never
  <2>2. promised' \in [Claimant -> Promise]
    BY <1>1, <1>2, <2>1
  <2> QED
    BY <1>1, <1>3, <2>2 DEF LocksInv, KeptTypes
<1>6. PromisesKept'
  <2> SUFFICES ASSUME NEW g \in Claimant, promised'[g].until > clock,
                      NEW k \in promised'[g].keys
               PROVE  locks'[k].owner = g /\ locks'[k].until >= promised'[g].until
    BY <1>1 DEF PromisesKept
  <2>1. g # h
    BY <1>1, <1>2 DEF NoPromise
  <2>2. promised'[g] = promised[g]
    BY <1>1, <1>2, <2>1
  <2>3. k \in LockKey /\ locks[k].owner = g /\ locks[k].until >= promised[g].until
    BY <2>2, PromisedNow
  <2>4. locks'[k] = locks[k]
    BY <1>1, <2>1, <2>3
  <2> QED
    BY <2>2, <2>3, <2>4
<1>7. TokensCounted'
  BY <1>1 DEF LocksInv, TokensCounted
<1> QED
  BY <1>4, <1>5, <1>6, <1>7 DEF LocksInv

\* Forgetting expired locks, at any operation.
LEMMA RecoverKeeps == ASSUME LocksInv, RecoverExpired PROVE LocksInv'
<1>1. /\ UNCHANGED <<resources, parts, tokens, clock, promised, tokensIssued, mixed>>
      /\ locks' = LocksNow
  BY DEF RecoverExpired
<1>2. locks' \in [LockKey -> Lock \cup {Unlocked}]
  BY <1>1, NowEffect
<1>3. LocksTypeOK'
  BY <1>1, <1>2 DEF LocksInv, LocksTypeOK, Lock
<1>4. KeptTypes'
  BY <1>1, <1>2 DEF LocksInv, KeptTypes
<1>5. PromisesKept'
  <2> SUFFICES ASSUME NEW g \in Claimant, promised[g].until > clock, NEW k \in promised[g].keys
               PROVE  locks'[k].owner = g /\ locks'[k].until >= promised[g].until
    BY <1>1 DEF PromisesKept
  <2> QED
    BY <1>1, PromisedNow
<1>6. TokensCounted'
  BY <1>1 DEF LocksInv, TokensCounted
<1> QED
  BY <1>3, <1>4, <1>5, <1>6 DEF LocksInv

\* Time runs promises out; it breaks none.
LEMMA PassKeeps == ASSUME LocksInv, Pass PROVE LocksInv'
<1>1. /\ UNCHANGED <<resources, parts, locks, tokens, promised, tokensIssued, mixed>>
      /\ clock < LockHorizon /\ clock' = clock + 1
  BY DEF Pass
<1>2. clock \in 0..LockHorizon /\ LockHorizon \in Nat
  BY LocksAssumption DEF LocksInv, LocksTypeOK
<1>3. LocksTypeOK'
  <2>1. clock' \in 0..LockHorizon
    BY <1>1, <1>2
  <2> QED
    BY <1>1, <2>1 DEF LocksInv, LocksTypeOK
<1>4. KeptTypes' /\ TokensCounted'
  BY <1>1 DEF LocksInv, KeptTypes, TokensCounted
<1>5. PromisesKept'
  <2> SUFFICES ASSUME NEW g \in Claimant, promised[g].until > clock + 1,
                      NEW k \in promised[g].keys
               PROVE  locks[k].owner = g /\ locks[k].until >= promised[g].until
    BY <1>1 DEF PromisesKept
  <2>1. promised[g].until \in 0..Never
    BY DEF LocksInv, KeptTypes, Promise
  <2>2. promised[g].until > clock
    BY <1>2, <2>1, LocksAssumption DEF Never
  <2> QED
    BY <2>2 DEF LocksInv, PromisesKept
<1> QED
  BY <1>3, <1>4, <1>5 DEF LocksInv

\* A report, a removal or a recomposition.
CatalogStep ==
    \/ \E d \in Device : (\E r \in Reports[d] : UpsertResource(d, r)) \/ RemoveResource(d)
    \/ \E c \in Composed : (\E b \in Designs[c] : RegisterBench(c, b)) \/ RemoveBench(c)

\* Discovery and recomposition leave the locks alone.
LEMMA CatalogKeeps ==
    ASSUME LocksInv, CatalogStep
    PROVE  LocksInv' /\ UNCHANGED <<locks, tokens, clock>>
<1>1. UNCHANGED <<locks, tokens, clock, promised, tokensIssued>>
  BY DEF CatalogStep, UpsertResource, RemoveResource, RegisterBench, RemoveBench
<1>2. resources' \in [Device -> Resource \cup {Absent}] /\ mixed' \subseteq Device
  <2>1. resources \in [Device -> Resource \cup {Absent}] /\ mixed \subseteq Device
    BY DEF LocksInv, LocksTypeOK
  <2>2. ASSUME NEW d \in Device, NEW r \in Reports[d], UpsertResource(d, r)
        PROVE  resources' \in [Device -> Resource \cup {Absent}] /\ mixed' \subseteq Device
    <3>1. r \in Resource
      BY LocksAssumption
    <3> QED
      BY <2>1, <2>2, <3>1 DEF UpsertResource
  <2>3. ASSUME NEW d \in Device, RemoveResource(d)
        PROVE  resources' \in [Device -> Resource \cup {Absent}] /\ mixed' \subseteq Device
    BY <2>1, <2>3 DEF RemoveResource
  <2> QED
    BY <2>1, <2>2, <2>3 DEF CatalogStep, RegisterBench, RemoveBench
<1>3. \A c \in Composed : parts'[c] \subseteq Binding
  <2>1. \A c \in Composed : parts[c] \subseteq Binding
    BY DEF LocksInv, LocksTypeOK
  <2>2. CASE parts' = parts
    BY <2>1, <2>2
  <2>3. ASSUME NEW c \in Composed, NEW b \in SUBSET Binding, parts' = [parts EXCEPT ![c] = b]
        PROVE  \A d \in Composed : parts'[d] \subseteq Binding
    <3>1. \A d \in Composed : parts'[d] \in {b, parts[d]}
      BY <2>3
    <3> QED
      BY <2>1, <3>1
  <2>4. \A c \in Composed : {} \in SUBSET Binding /\ \A b \in Designs[c] : b \in SUBSET Binding
    BY LocksAssumption
  <2> QED
    BY <2>2, <2>3, <2>4 DEF CatalogStep, UpsertResource, RemoveResource, RegisterBench, RemoveBench
<1>4. LocksTypeOK'
  BY <1>1, <1>2, <1>3 DEF LocksInv, LocksTypeOK
<1>5. KeptTypes' /\ TokensCounted' /\ PromisesKept'
  BY <1>1 DEF LocksInv, KeptTypes, TokensCounted, PromisesKept
<1> QED
  BY <1>1, <1>4, <1>5 DEF LocksInv

\* Every step keeps the invariant.
LEMMA LocksStep == ASSUME LocksInv, [LocksNext]_locksVars PROVE LocksInv'
<1>1. CASE UNCHANGED locksVars
  BY <1>1 DEF locksVars, LocksInv, LocksTypeOK, KeptTypes, TokensCounted, PromisesKept
<1> QED
  BY <1>1, CatalogKeeps, AcquireKeeps, RenewKeeps, ReleaseKeeps, RecoverKeeps, PassKeeps
     DEF LocksNext, CatalogStep

\* The invariant of the lock manager.
THEOREM LocksInvariant == LocksSpec => []LocksInv
<1>1. LocksInit => LocksInv
  BY LocksInitInv
<1>2. LocksInv /\ [LocksNext]_locksVars => LocksInv'
  BY LocksStep
<1> QED
  BY <1>1, <1>2, PTL DEF LocksSpec

-----------------------------------------------------------------------------
(* The lock manager implements fenced locks: holder is HolderNow, fence is tokens. *)

\* Initially every key is free with fence 0.
LEMMA FencedInitMaps == LocksInit => Fenced!FencedInit
<1> SUFFICES ASSUME LocksInit PROVE Fenced!FencedInit
  OBVIOUS
<1>1. \A k \in LockKey : LocksNow[k] = Unlocked
  BY DEF LocksInit, LocksNow, Unexpired
<1> QED
  BY <1>1 DEF LocksInit, HolderNow, Fenced!FencedInit

\* A lock that has not expired is there now, and stays until it expires.
LEMMA NowStays ==
    ASSUME LocksInv, NEW l, l \in Lock \cup {Unlocked}, l # Unlocked => l.until > clock,
           clock' = clock, NEW k \in LockKey, locks'[k] = l
    PROVE  LocksNow'[k] = l
  BY DEF LocksNow, Unexpired

\* What is held now is held after the clock forgets the rest.
LEMMA NowAgain ==
    ASSUME LocksInv, clock' = clock, NEW k \in LockKey, locks'[k] \in {locks[k], LocksNow[k]}
    PROVE  LocksNow'[k] = LocksNow[k]
  BY DEF LocksNow, Unexpired

\* An acquisition takes free keys for one reservation, each with the next token.
LEMMA AcquireTakes ==
    ASSUME LocksInv, NEW h \in Claimant, NEW until \in 1..Never, Acquire(h, until)
    PROVE  Fenced!Take
<1> DEFINE keys == LockKeys(HoldsBench[h])
           fresh == {k \in keys : LocksNow[k] = Unlocked}
<1>0. clock' = clock
  BY DEF Acquire
<1>1. /\ keys \subseteq LockKey /\ until > clock
      /\ \A k \in keys : locks'[k] \in Lock /\ locks'[k].owner = h /\ locks'[k].until = until
      /\ \A k \in LockKey \ keys : locks'[k] = LocksNow[k]
      /\ \A k \in keys \ fresh : LocksNow[k].owner = h
      /\ \A k \in fresh : tokens'[k] = tokens[k] + 1
      /\ \A k \in LockKey \ fresh : tokens'[k] = tokens[k]
  BY AcquireEffect
<1> HIDE DEF keys
<1>2. ASSUME NEW k \in LockKey
      PROVE  \/ LocksNow'[k].owner = LocksNow[k].owner /\ tokens'[k] = tokens[k]
             \/ /\ LocksNow[k].owner = Unlocked.owner /\ LocksNow'[k].owner = h
                /\ tokens'[k] = tokens[k] + 1
  <2>1. CASE k \in keys
    <3>1. LocksNow'[k] = locks'[k]
      BY <1>0, <1>1, <2>1, NowStays
    <3>2. LocksNow'[k].owner = h
      BY <1>1, <2>1, <3>1
    <3> QED
      BY <1>1, <2>1, <3>2
  <2>2. CASE k \notin keys
    <3>1. LocksNow'[k] = LocksNow[k]
      BY <1>0, <1>1, <2>2, NowAgain
    <3> QED
      BY <1>1, <2>2, <3>1
  <2> QED
    BY <2>1, <2>2
<1>3. ASSUME NEW k \in LockKey
      PROVE  \/ HolderNow'[k] = HolderNow[k] /\ tokens'[k] = tokens[k]
             \/ HolderNow[k] = Unlocked.owner /\ HolderNow'[k] = h /\ tokens'[k] = tokens[k] + 1
  BY <1>2 DEF HolderNow
<1> QED
  BY <1>3 DEF Fenced!Take

\* Every other step only frees keys.
LEMMA OthersDrop ==
    ASSUME LocksInv, tokens' = tokens,
           \A k \in LockKey : LocksNow'[k].owner \in {LocksNow[k].owner, Unlocked.owner}
    PROVE  Fenced!Drop
<1>1. \A k \in LockKey : HolderNow'[k] \in {HolderNow[k], Unlocked.owner}
  BY DEF HolderNow
<1> QED
  BY <1>1 DEF Fenced!Drop

\* A step of the lock manager that is no acquisition.
GivesUp ==
    \/ \E h \in Claimant, until \in 1..Never : Renew(h, until)
    \/ \E h \in Claimant : ReleaseLocks(h)
    \/ RecoverExpired
    \/ Pass

\* Such a step, and any step that leaves the locks alone, takes no key.
LEMMA OnlyDropped ==
    ASSUME LocksInv, GivesUp \/ UNCHANGED <<locks, tokens, clock>> PROVE Fenced!Drop
<1>1. ASSUME UNCHANGED <<locks, tokens, clock>> PROVE Fenced!Drop
  BY <1>1, NowAgain, OthersDrop
<1>2. ASSUME NEW h \in Claimant, NEW until \in 1..Never, Renew(h, until) PROVE Fenced!Drop
  <2>1. until > clock /\ clock' = clock /\ tokens' = tokens
    BY <1>2 DEF Renew
  <2>2. ASSUME NEW k \in LockKey PROVE LocksNow'[k].owner = LocksNow[k].owner
    <3>1. CASE LocksNow[k].owner # h /\ locks'[k] = LocksNow[k]
      BY <2>1, <3>1, NowAgain
    <3>2. CASE /\ LocksNow[k] \in Lock /\ LocksNow[k].owner = h
               /\ locks'[k] \in Lock /\ locks'[k].owner = h /\ locks'[k].until = until
      <4>1. LocksNow'[k] = locks'[k]
        BY <2>1, <3>2, NowStays
      <4> QED
        BY <3>2, <4>1
    <3> QED
      BY <1>2, <3>1, <3>2, RenewEffect
  <2> QED
    BY <2>1, <2>2, OthersDrop
<1>3. ASSUME NEW h \in Claimant, ReleaseLocks(h) PROVE Fenced!Drop
  <2>1. /\ clock' = clock /\ tokens' = tokens
        /\ \A k \in LockKey : locks'[k] \in {Unlocked, locks[k]}
    BY <1>3 DEF ReleaseLocks
  <2>2. ASSUME NEW k \in LockKey PROVE LocksNow'[k] \in {LocksNow[k], Unlocked}
    <3>1. CASE locks'[k] = locks[k]
      BY <2>1, <3>1, NowAgain
    <3>2. CASE locks'[k] = Unlocked
      BY <2>1, <3>2, NowStays
    <3> QED
      BY <2>1, <3>1, <3>2
  <2> QED
    BY <2>1, <2>2, OthersDrop
<1>4. ASSUME RecoverExpired PROVE Fenced!Drop
  <2>1. clock' = clock /\ tokens' = tokens /\ locks' = LocksNow
    BY <1>4 DEF RecoverExpired
  <2> QED
    BY <2>1, NowAgain, OthersDrop
<1>5. ASSUME Pass PROVE Fenced!Drop
  <2>1. tokens' = tokens /\ locks' = locks /\ clock' = clock + 1
    BY <1>5 DEF Pass
  <2>2. ASSUME NEW k \in LockKey PROVE LocksNow'[k] \in {LocksNow[k], Unlocked}
    <3>1. CASE Unexpired(k)'
      <4>1. locks[k] # Unlocked /\ locks[k].until > clock + 1
        BY <2>1, <3>1 DEF Unexpired
      <4>2. locks[k].until \in Nat /\ clock \in Nat
        BY <4>1, LockFields, LocksAssumption DEF LocksInv, KeptTypes, LocksTypeOK, Never
      <4>3. locks[k].until > clock
        BY <4>1, <4>2
      <4> QED
        BY <2>1, <3>1, <4>1, <4>3 DEF LocksNow, Unexpired
    <3>2. CASE ~Unexpired(k)'
      BY <3>2 DEF LocksNow
    <3> QED
      BY <3>1, <3>2
  <2> QED
    BY <2>1, <2>2, OthersDrop
<1> QED
  BY <1>1, <1>2, <1>3, <1>4, <1>5 DEF GivesUp

\* Every step takes free keys, drops keys or stutters.
LEMMA FencedStep ==
    ASSUME LocksInv, [LocksNext]_locksVars PROVE [Fenced!Take \/ Fenced!Drop]_<<HolderNow, tokens>>
<1>1. CASE UNCHANGED locksVars
  BY <1>1, OnlyDropped DEF locksVars
<1>2. CASE CatalogStep
  BY <1>2, CatalogKeeps, OnlyDropped
<1>3. CASE GivesUp
  BY <1>3, OnlyDropped
<1> QED
  BY <1>1, <1>2, <1>3, AcquireTakes DEF LocksNext, CatalogStep, GivesUp

\* ResourceLockManager implements the abstract lock: a key passes to another
\* reservation only by being free between, each time with the next fencing token.
THEOREM ImplementsFencedLocks == LocksSpec => LocksAreFenced
<1>1. LocksInit => Fenced!FencedInit
  BY FencedInitMaps
<1>2. LocksInv /\ [LocksNext]_locksVars =>
        [Fenced!Take \/ Fenced!Drop]_<<HolderNow, tokens>>
  BY FencedStep
<1> QED
  BY <1>1, <1>2, LocksInvariant, PTL DEF LocksSpec, LocksAreFenced, Fenced!FencedSpec

-----------------------------------------------------------------------------
(* A device that is not mixed is in use whole or by channels, never both.  *)

\* What is bound is known; and unless a device was reported to be shared another
\* way than what is in use of it says, everything in use of it agrees.
SharingInv ==
    /\ \A c \in Composed : \A b \in parts[c] : Known(b.device)
    /\ \A d \in Device \ mixed :
         /\ \A x \in InUse(d) : Known(d) => Fits(x, resources[d].sharing)
         /\ \A x, y \in InUse(d) : x = NoChannel => y = NoChannel

\* Only what fits the catalogue, or was in use already, may come into use.
LEMMA SharingStays ==
    ASSUME SharingInv, UNCHANGED <<resources, mixed>>,
           \A c \in Composed : \A b \in parts'[c] : Known(b.device),
           \A d \in Device \ mixed : \A x \in InUse(d)' :
             x \in InUse(d) \/ (Known(d) /\ Fits(x, resources[d].sharing))
    PROVE  SharingInv'
<1>1. \A d \in Device : Known(d)' <=> Known(d)
  BY DEF Known
<1>2. \A c \in Composed : \A b \in parts'[c] : Known(b.device)'
  BY DEF Known
<1>3. ASSUME NEW d \in Device \ mixed
      PROVE  /\ \A x \in InUse(d)' : Known(d) => Fits(x, resources[d].sharing)
             /\ \A x, y \in InUse(d)' : x = NoChannel => y = NoChannel
  <2>1. /\ \A x \in InUse(d) : Known(d) => Fits(x, resources[d].sharing)
        /\ \A x, y \in InUse(d) : x = NoChannel => y = NoChannel
    BY DEF SharingInv
  <2>2. \A x \in InUse(d)' : x \in InUse(d) \/ (Known(d) /\ Fits(x, resources[d].sharing))
    OBVIOUS
  <2>3. \A x \in InUse(d)' : Known(d) => Fits(x, resources[d].sharing)
    BY <2>1, <2>2
  <2>4. CASE Known(d)
    BY <2>3, <2>4 DEF Fits
  <2>5. CASE ~Known(d)
    BY <2>1, <2>2, <2>5
  <2> QED
    BY <2>3, <2>4, <2>5
<1> QED
  BY <1>1, <1>2, <1>3 DEF SharingInv

\* What is in use is bound or locked.
LEMMA InUseIs ==
    ASSUME NEW d \in Device
    PROVE  \A x : x \in InUse(d) <=>
             \/ \E c \in Composed : \E b \in parts[c] : b.device = d /\ b.channel = x
             \/ (x \in Channel \cup {NoChannel} /\ LocksNow[<<d, x>>] # Unlocked)
  BY DEF InUse, Bound

\* The same in the next state.
LEMMA InUseNext ==
    ASSUME NEW d \in Device
    PROVE  \A x : x \in InUse(d)' <=>
             \/ \E c \in Composed : \E b \in parts'[c] : b.device = d /\ b.channel = x
             \/ (x \in Channel \cup {NoChannel} /\ LocksNow'[<<d, x>>] # Unlocked)
  BY DEF InUse, Bound

\* A key that nobody held is held by nobody after a step that takes none.
LEMMA NothingTaken ==
    ASSUME LocksInv, LocksInv', Fenced!Drop, NEW k \in LockKey, LocksNow'[k] # Unlocked
    PROVE  LocksNow[k] # Unlocked
<1>1. LocksNow' \in [LockKey -> Lock \cup {Unlocked}]
  BY DEF LocksInv, KeptTypes, LocksNow, Unexpired
<1>2. LocksNow'[k].owner # Unlocked.owner
  BY <1>1, LockFields
<1>3. LocksNow'[k].owner \in {LocksNow[k].owner, Unlocked.owner}
  <2>1. HolderNow'[k] = LocksNow'[k].owner /\ HolderNow[k] = LocksNow[k].owner
    BY DEF HolderNow
  <2> QED
    BY <2>1 DEF Fenced!Drop
<1> QED
  BY <1>2, <1>3

\* An acquisition takes the keys its bench was bound to, where nothing is mixed.
LEMMA AcquireShares ==
    ASSUME LocksInv, LocksInv', SharingInv, NEW h \in Claimant, NEW until \in 1..Never,
           Acquire(h, until)
    PROVE  SharingInv'
<1> DEFINE keys == LockKeys(HoldsBench[h])
<1>1. UNCHANGED <<resources, parts, clock, mixed>> /\ HoldsBench[h] \in Composed
  BY LocksAssumption DEF Acquire
<1>2. keys \subseteq LockKey /\ \A k \in LockKey \ keys : locks'[k] = LocksNow[k]
  BY AcquireEffect
<1>3. ASSUME NEW k \in LockKey \ keys PROVE LocksNow'[k] = LocksNow[k]
  BY <1>1, <1>2, NowAgain
<1>4. ASSUME NEW d \in Device \ mixed, NEW x, <<d, x>> \in keys PROVE x \in InUse(d)
  <2>1. PICK b \in parts[HoldsBench[h]] : <<d, x>> = KeyOf(b)
    BY <1>4 DEF LockKeys
  <2>2. b.device = d /\ x = IF resources[d].sharing = "channel" THEN b.channel ELSE NoChannel
    BY <2>1 DEF KeyOf
  <2>3. b.channel \in InUse(d)
    BY <1>1, <2>2, InUseIs
  <2>4. Known(d)
    BY <1>1, <2>2 DEF SharingInv
  <2>5. Fits(b.channel, resources[d].sharing)
    BY <2>3, <2>4 DEF SharingInv
  <2>6. x = b.channel
    BY <2>2, <2>5 DEF Fits
  <2> QED
    BY <2>3, <2>6
<1> HIDE DEF keys
<1>5. ASSUME NEW d \in Device \ mixed, NEW x \in InUse(d)' PROVE x \in InUse(d)
  <2>1. CASE \E c \in Composed : \E b \in parts'[c] : b.device = d /\ b.channel = x
    BY <1>1, <2>1, InUseIs
  <2>2. CASE x \in Channel \cup {NoChannel} /\ LocksNow'[<<d, x>>] # Unlocked
    <3>1. <<d, x>> \in LockKey
      BY <2>2 DEF LockKey
    <3> QED
      BY <1>3, <1>4, <2>2, <3>1, InUseIs
  <2> QED
    BY <2>1, <2>2, InUseNext
<1> QED
  BY <1>1, <1>5, SharingStays DEF SharingInv

\* Where the locks stay, discovery and recomposition keep what is in use in accord.
LEMMA CatalogShares ==
    ASSUME LocksInv, SharingInv, CatalogStep PROVE SharingInv'
<1>1. LocksNow' = LocksNow
  BY CatalogKeeps DEF LocksNow, Unexpired
<1>2. ASSUME parts' = parts PROVE \A d \in Device : InUse(d)' = InUse(d)
  BY <1>1, <1>2 DEF InUse, Bound
<1>3. /\ resources \in [Device -> Resource \cup {Absent}]
      /\ \A c \in Composed : parts[c] \subseteq Binding
  BY DEF LocksInv, LocksTypeOK
<1>4. ASSUME NEW d \in Device, NEW r \in Reports[d], UpsertResource(d, r) PROVE SharingInv'
  <2>1. /\ resources' = [resources EXCEPT ![d] = r] /\ parts' = parts
        /\ mixed' = IF \A x \in InUse(d) : Fits(x, r.sharing) THEN mixed \ {d} ELSE mixed \cup {d}
    BY <1>4 DEF UpsertResource
  <2>2. r.sharing # "none"
    BY LocksAssumption DEF Resource
  <2>3. /\ resources'[d] = r
        /\ \A e \in Device \ {d} : resources'[e] = resources[e] /\ (e \in mixed' <=> e \in mixed)
    BY <1>3, <2>1
  <2>4. \A c \in Composed : \A b \in parts'[c] : Known(b.device)'
    BY <1>3, <2>1, <2>2, <2>3 DEF SharingInv, Known, Binding
  <2>5. ASSUME NEW e \in Device, e \notin mixed'
        PROVE  /\ \A x \in InUse(e)' : Known(e)' => Fits(x, resources'[e].sharing)
               /\ \A x, y \in InUse(e)' : x = NoChannel => y = NoChannel
    <3>1. InUse(e)' = InUse(e)
      BY <1>2, <2>1
    <3>2. CASE e = d
      <4>1. \A x \in InUse(d) : Fits(x, r.sharing)
        BY <2>1, <2>5, <3>2
      <4> QED
        BY <2>3, <3>1, <3>2, <4>1 DEF Fits
    <3>3. CASE e # d
      BY <2>3, <2>5, <3>1, <3>3 DEF SharingInv, Known
    <3> QED
      BY <3>2, <3>3
  <2> QED
    BY <2>4, <2>5 DEF SharingInv
<1>5. ASSUME NEW d \in Device, RemoveResource(d) PROVE SharingInv'
  <2>1. /\ resources' = [resources EXCEPT ![d] = Absent] /\ parts' = parts /\ mixed' = mixed
        /\ Bound(d) = {}
    BY <1>5 DEF RemoveResource
  <2>2. resources'[d].sharing = "none" /\ \A e \in Device \ {d} : resources'[e] = resources[e]
    BY <1>3, <2>1 DEF Absent
  <2>3. \A c \in Composed : \A b \in parts[c] : b.device \in Device \ {d}
    BY <1>3, <2>1 DEF Bound, Binding
  <2>4. \A c \in Composed : \A b \in parts'[c] : Known(b.device)'
    BY <2>1, <2>2, <2>3 DEF SharingInv, Known
  <2>5. ASSUME NEW e \in Device \ mixed
        PROVE  /\ \A x \in InUse(e)' : Known(e)' => Fits(x, resources'[e].sharing)
               /\ \A x, y \in InUse(e)' : x = NoChannel => y = NoChannel
    <3>1. InUse(e)' = InUse(e)
      BY <1>2, <2>1
    <3>2. Known(e)' => resources'[e] = resources[e] /\ Known(e)
      BY <2>2 DEF Known
    <3> QED
      BY <3>1, <3>2 DEF SharingInv
  <2> QED
    BY <2>1, <2>4, <2>5 DEF SharingInv
<1>6. ASSUME NEW c \in Composed, UNCHANGED <<resources, mixed>>,
             NEW bindings, \A b \in bindings : b.device \in Device /\ ValidBinding(b),
             parts' = [parts EXCEPT ![c] = bindings]
      PROVE  SharingInv'
  <2>1. \A e \in Composed : parts'[e] \in {bindings, parts[e]}
    BY <1>6
  <2>2. \A e \in Composed : \A b \in parts'[e] : Known(b.device)
    BY <1>6, <2>1 DEF SharingInv, ValidBinding
  <2>3. ASSUME NEW d \in Device \ mixed, NEW x \in InUse(d)'
        PROVE  x \in InUse(d) \/ (Known(d) /\ Fits(x, resources[d].sharing))
    <3>1. CASE x \in Channel \cup {NoChannel} /\ LocksNow'[<<d, x>>] # Unlocked
      BY <1>1, <3>1, InUseIs
    <3>2. ASSUME NEW e \in Composed, NEW b \in parts'[e], b.device = d, b.channel = x
          PROVE  x \in InUse(d) \/ (Known(d) /\ Fits(x, resources[d].sharing))
      <4>1. CASE b \in bindings
        BY <1>6, <3>2, <4>1 DEF ValidBinding
      <4>2. CASE b \in parts[e]
        BY <3>2, <4>2, InUseIs
      <4> QED
        BY <2>1, <4>1, <4>2
    <3> QED
      BY <3>1, <3>2, InUseNext
  <2> QED
    BY <1>6, <2>2, <2>3, SharingStays
<1>7. ASSUME NEW c \in Composed, NEW b \in Designs[c], RegisterBench(c, b) PROVE SharingInv'
  <2>1. \A x \in b : x.device \in Device
    BY LocksAssumption DEF Binding
  <2> QED
    BY <1>6, <1>7, <2>1 DEF RegisterBench
<1>8. ASSUME NEW c \in Composed, RemoveBench(c) PROVE SharingInv'
  <2>1. UNCHANGED <<resources, mixed>> /\ parts' = [parts EXCEPT ![c] = {}]
    BY <1>8 DEF RemoveBench
  <2> QED
    BY <1>6, <2>1
<1> QED
  BY <1>4, <1>5, <1>7, <1>8 DEF CatalogStep

\* Giving up locks brings nothing into use.
LEMMA GivingUpShares ==
    ASSUME LocksInv, LocksInv', SharingInv, GivesUp PROVE SharingInv'
<1>1. UNCHANGED <<resources, parts, mixed>>
  BY DEF GivesUp, Renew, ReleaseLocks, RecoverExpired, Pass
<1>2. ASSUME NEW d \in Device \ mixed, NEW x \in InUse(d)' PROVE x \in InUse(d)
  <2>1. CASE \E c \in Composed : \E b \in parts'[c] : b.device = d /\ b.channel = x
    BY <1>1, <2>1, InUseIs
  <2>2. CASE x \in Channel \cup {NoChannel} /\ LocksNow'[<<d, x>>] # Unlocked
    <3>1. <<d, x>> \in LockKey
      BY <2>2 DEF LockKey
    <3> QED
      BY <2>2, <3>1, OnlyDropped, NothingTaken, InUseIs
  <2> QED
    BY <2>1, <2>2, InUseNext
<1> QED
  BY <1>1, <1>2, SharingStays DEF SharingInv

\* Every step keeps what is in use of a device in accord.
LEMMA SharingStep ==
    ASSUME LocksInv, LocksInv', SharingInv, [LocksNext]_locksVars PROVE SharingInv'
<1>1. CASE UNCHANGED locksVars
  <2>1. \A d \in Device : InUse(d)' = InUse(d)
    BY <1>1 DEF locksVars, InUse, Bound, LocksNow, Unexpired
  <2> QED
    BY <1>1, <2>1, SharingStays DEF locksVars, SharingInv
<1> QED
  BY <1>1, AcquireShares, CatalogShares, GivingUpShares DEF LocksNext, CatalogStep, GivesUp

\* Nothing is in use at first.
LEMMA SharingInitInv == LocksInit => SharingInv
<1> SUFFICES ASSUME LocksInit PROVE SharingInv
  OBVIOUS
<1>1. \A c \in Composed : parts[c] = {}
  BY DEF LocksInit
<1>2. \A k \in LockKey : LocksNow[k] = Unlocked
  BY DEF LocksInit, LocksNow, Unexpired
<1>3. \A d \in Device : InUse(d) = {}
  <2> SUFFICES ASSUME NEW d \in Device, NEW x \in InUse(d) PROVE FALSE
    OBVIOUS
  <2> QED
    BY <1>1, <1>2, InUseIs DEF LockKey
<1> QED
  BY <1>1, <1>3 DEF SharingInv

\* A reservation keeps every key it was given until its expiry or release, no key is
\* promised to two, no device is held whole beside a channel of it unless it was
\* reported to be shared another way while in use, and no fencing token is issued to
\* two (acquire_for_bench, renew_owner, release_owner, upsert_resource), for any
\* reports discovery makes and any benches composed meanwhile.
THEOREM LocksHoldAlways == LocksSpec => []LocksHold
<1>1. ASSUME LocksInv, SharingInv PROVE LocksHold
  <2>1. ASSUME NEW g \in Claimant, NEW h \in Claimant, g # h, promised[g].until > clock,
               promised[h].until > clock, NEW j \in promised[g].keys, NEW k \in promised[h].keys
        PROVE  j # k /\ (j[1] = k[1] => j[1] \in mixed \/ NoChannel \notin {j[2], k[2]})
    <3>1. /\ j \in LockKey /\ LocksNow[j] \in Lock /\ locks[j].owner = g
          /\ k \in LockKey /\ LocksNow[k] \in Lock /\ locks[k].owner = h
      BY <1>1, <2>1, PromisedNow
    <3>2. j # k
      BY <2>1, <3>1
    <3>3. /\ j = <<j[1], j[2]>> /\ j[1] \in Device /\ j[2] \in Channel \cup {NoChannel}
          /\ k = <<k[1], k[2]>> /\ k[1] \in Device /\ k[2] \in Channel \cup {NoChannel}
      BY <3>1 DEF LockKey
    <3>4. j[2] \in InUse(j[1]) /\ k[2] \in InUse(k[1])
      BY <3>1, <3>3, InUseIs, LockFields
    <3>5. ASSUME j[1] = k[1], j[1] \notin mixed PROVE NoChannel \notin {j[2], k[2]}
      BY <1>1, <3>2, <3>3, <3>4, <3>5 DEF SharingInv
    <3> QED
      BY <3>2, <3>5
  <2> QED
    BY <1>1, <2>1 DEF LocksInv, PromisesKept, TokensCounted, LocksHold
<1>2. LocksInit => LocksInv /\ SharingInv
  BY LocksInitInv, SharingInitInv
<1>3. LocksInv /\ SharingInv /\ [LocksNext]_locksVars => (LocksInv /\ SharingInv)'
  BY LocksStep, SharingStep
<1> QED
  BY <1>1, <1>2, <1>3, PTL DEF LocksSpec

-----------------------------------------------------------------------------
Lease == [state : {"none", "ended", "released"} \cup LiveLease, version : Nat]

\* The types the argument needs, whatever the bounds.
DispatchTypes ==
    /\ asks \in [Flow -> [reuses : Entry \cup {NoEntryYet}, releaseAfter : BOOLEAN]]
    /\ heldLease \in [Holders -> Lease]
    /\ ticket \in [Entry -> {"none", "waiting", "promoted", "cancelled"}]
    /\ command \in [Flow -> [state : {"none", "created", "running", "terminal"},
                             version : Nat]]

DispatchInv == DispatchTypes /\ CallersLeaseKept

\* What justifies a released lease of a queue entry stays: a cancelled row stays
\* cancelled, and a finished command keeps its state and the version it ran under.
ReasonsStay ==
    /\ asks' = asks
    /\ \A e \in Entry : ticket[e] = "cancelled" => ticket'[e] = "cancelled"
    /\ \A k \in Flow : command[k].state = "terminal" => command'[k] = command[k]

\* A lease is released for such a reason, or as it was.
ReleasedForReason ==
    \A e \in Entry : heldLease'[e].state = "released" =>
        \/ heldLease'[e] = heldLease[e]
        \/ ticket'[e] = "cancelled"
        \/ \E k \in Flow : LeaseOf(k) = e /\ ReleaseIntended(k)
                           /\ command[k].version = heldLease'[e].version

LEMMA DispatchInitInv == DispatchInit => DispatchInv
<1> SUFFICES ASSUME DispatchInit PROVE DispatchInv
  OBVIOUS
<1>1. NoLease \in Lease /\ NoLease.state = "none"
  BY DEF NoLease, Lease
<1>2. heldLease \in [Holders -> Lease] /\ \A x \in Holders : heldLease[x].state = "none"
  BY <1>1 DEF DispatchInit
<1>3. command \in [Flow -> [state : {"none", "created", "running", "terminal"}, version : Nat]]
  BY DEF DispatchInit, NoCommand
<1>4. DispatchTypes
  BY <1>2, <1>3 DEF DispatchInit, DispatchTypes
<1>5. CallersLeaseKept
  BY <1>2 DEF CallersLeaseKept, Holders
<1> QED
  BY <1>4, <1>5 DEF DispatchInv

\* Reasons that stay and releases that have one keep the property.
LEMMA LeasesKept ==
    ASSUME DispatchInv, DispatchTypes', ReasonsStay, ReleasedForReason PROVE DispatchInv'
<1> SUFFICES ASSUME NEW e \in Entry, heldLease'[e].state = "released"
             PROVE  \/ ticket'[e] = "cancelled"
                    \/ \E k \in Flow : /\ LeaseOf(k)' = e /\ ReleaseIntended(k)'
                                       /\ command'[k].version = heldLease'[e].version
  BY DEF DispatchInv, CallersLeaseKept
<1>1. ASSUME NEW k \in Flow, LeaseOf(k) = e, ReleaseIntended(k)
      PROVE  LeaseOf(k)' = e /\ ReleaseIntended(k)' /\ command'[k] = command[k]
  BY <1>1 DEF ReasonsStay, LeaseOf, ReleaseIntended
<1>2. CASE heldLease'[e] = heldLease[e]
  <2>1. \/ ticket[e] = "cancelled"
        \/ \E k \in Flow : /\ LeaseOf(k) = e /\ ReleaseIntended(k)
                           /\ command[k].version = heldLease'[e].version
    BY <1>2 DEF DispatchInv, CallersLeaseKept
  <2> QED
    BY <1>1, <2>1 DEF ReasonsStay
<1> QED
  BY <1>1, <1>2 DEF ReleasedForReason

\* release() changes a lease only to "released", and only under the version named.
LEMMA ReleasedEffect ==
    ASSUME DispatchTypes, NEW versions, heldLease' = ReleasedLeases(versions)
    PROVE  /\ heldLease' \in [Holders -> Lease]
           /\ \A x \in Holders :
                \/ heldLease'[x] = heldLease[x]
                \/ /\ <<x, heldLease[x].version>> \in versions
                   /\ heldLease'[x].version = heldLease[x].version
<1>1. ASSUME NEW x \in Holders
      PROVE  /\ heldLease'[x] \in Lease
             /\ \/ heldLease'[x] = heldLease[x]
                \/ /\ <<x, heldLease[x].version>> \in versions
                   /\ heldLease'[x].version = heldLease[x].version
  <2>1. PICK l \in Lease : l = heldLease[x]
    BY DEF DispatchTypes
  <2>2. [l EXCEPT !.state = "released"] \in Lease
        /\ [l EXCEPT !.state = "released"].version = l.version
    BY <2>1 DEF Lease
  <2> QED
    BY <2>1, <2>2 DEF ReleasedLeases
<1> QED
  BY <1>1 DEF ReleasedLeases

\* A state set, and a version raised, of a lease leave leases, and the others alone.
LEMMA LeaseStateSet ==
    ASSUME DispatchTypes, NEW x, NEW s \in {"none", "ended"} \cup LiveLease, SetLease(x, s)
    PROVE  /\ heldLease' \in [Holders -> Lease]
           /\ \A y \in Holders : heldLease'[y] = heldLease[y] \/ heldLease'[y].state = s
<1>1. ASSUME NEW y \in Holders
      PROVE  heldLease'[y] \in Lease /\ (heldLease'[y] = heldLease[y] \/ heldLease'[y].state = s)
  <2>1. PICK l \in Lease : l = heldLease[y]
    BY DEF DispatchTypes
  <2>2. [l EXCEPT !.state = s] \in Lease /\ [l EXCEPT !.state = s].state = s
    BY <2>1 DEF Lease
  <2>3. heldLease'[y] = l \/ heldLease'[y] = [l EXCEPT !.state = s]
    BY <2>1 DEF DispatchTypes, SetLease
  <2> QED
    BY <2>1, <2>2, <2>3
<1>2. heldLease' = [y \in Holders |-> heldLease'[y]]
  BY DEF DispatchTypes, SetLease
<1> QED
  BY <1>1, <1>2

LEMMA LeaseGranted ==
    ASSUME DispatchTypes, NEW x, Granted(x)
    PROVE  /\ heldLease' \in [Holders -> Lease]
           /\ \A y \in Holders : heldLease'[y] = heldLease[y] \/ heldLease'[y].state = "activating"
<1>1. ASSUME NEW y \in Holders
      PROVE  /\ heldLease'[y] \in Lease
             /\ heldLease'[y] = heldLease[y] \/ heldLease'[y].state = "activating"
  <2>1. PICK l \in Lease : l = heldLease[y]
    BY DEF DispatchTypes
  <2>2. [state |-> "activating", version |-> l.version + 1] \in Lease
    BY <2>1 DEF Lease, LiveLease
  <2>3. heldLease'[y] = l \/ heldLease'[y] = [state |-> "activating", version |-> l.version + 1]
    BY <2>1 DEF DispatchTypes, Granted
  <2> QED
    BY <2>1, <2>2, <2>3
<1>2. heldLease' = [y \in Holders |-> heldLease'[y]]
  BY DEF DispatchTypes, Granted
<1> QED
  BY <1>1, <1>2

\* Steps that leave the tickets and the commands alone keep the reasons.
LEMMA NothingElseMoves ==
    ASSUME UNCHANGED <<asks, ticket, command>> PROVE ReasonsStay
  BY DEF ReasonsStay

\* A step that gives no lease of a queue entry back needs no reason.
LEMMA NoneReleased ==
    ASSUME NEW s, s # "released",
           \A y \in Holders : heldLease'[y] = heldLease[y] \/ heldLease'[y].state = s
    PROVE  ReleasedForReason
  BY DEF ReleasedForReason, Holders

\* What the entry's owner and the queue write of it leaves a cancelled row cancelled.
LEMMA MarkPromotedEffect ==
    ASSUME DispatchTypes, NEW e, MarkPromoted(e)
    PROVE  /\ ticket' \in [Entry -> {"none", "waiting", "promoted", "cancelled"}]
           /\ \A x \in Entry : ticket[x] = "cancelled" => ticket'[x] = "cancelled"
  BY DEF DispatchTypes, MarkPromoted

\* A failed call gives back a lease granted for the request, never one it reused.
LEMMA PreDispatchEffect ==
    ASSUME DispatchTypes, NEW k \in Flow, ReleasePreDispatch(k)
    PROVE  heldLease' \in [Holders -> Lease] /\ ReleasedForReason
<1>1. CASE OwnLease(k)
  <2>1. /\ heldLease' \in [Holders -> Lease]
        /\ \A x \in Holders : heldLease'[x] = heldLease[x]
                             \/ <<x, heldLease[x].version>> \in {<<k, heldLease[k].version>>}
    BY <1>1, ReleasedEffect DEF ReleasePreDispatch
  <2>2. \A x \in Entry : heldLease'[x] = heldLease[x]
    BY <2>1, DispatchAssumption DEF Holders
  <2> QED
    BY <2>1, <2>2 DEF ReleasedForReason
<1>2. CASE ~OwnLease(k)
  BY <1>2 DEF ReleasePreDispatch, ReleasedForReason, DispatchTypes
<1> QED
  BY <1>1, <1>2

\* Every step keeps the invariant.
LEMMA DispatchStep == DispatchInv /\ [DispatchNext]_dispatchVars => DispatchInv'
<1> SUFFICES ASSUME DispatchInv, [DispatchNext]_dispatchVars PROVE DispatchInv'
  OBVIOUS
<1> USE DEF DispatchInv
<1>1. ASSUME NEW x \in Holders, LeaseAnswered(x) PROVE DispatchInv'
  <2>1. /\ heldLease' \in [Holders -> Lease] /\ ReleasedForReason
    <3>1. PICK s \in {"active", "unknown"} : SetLease(x, s)
      BY <1>1 DEF LeaseAnswered
    <3> QED
      BY <3>1, LeaseStateSet, NoneReleased DEF LiveLease
  <2>2. ReasonsStay /\ DispatchTypes'
    BY <1>1, <2>1, NothingElseMoves DEF LeaseAnswered, DispatchTypes
  <2> QED
    BY <2>1, <2>2, LeasesKept
<1>2. ASSUME NEW x \in Holders, LeaseReconciled(x) PROVE DispatchInv'
  <2>1. /\ heldLease' \in [Holders -> Lease] /\ ReleasedForReason
    <3>1. PICK s \in {"active", "ended"} : SetLease(x, s)
      BY <1>2 DEF LeaseReconciled
    <3> QED
      BY <3>1, LeaseStateSet, NoneReleased DEF LiveLease
  <2>2. ReasonsStay /\ DispatchTypes'
    BY <1>2, <2>1, NothingElseMoves DEF LeaseReconciled, DispatchTypes
  <2> QED
    BY <2>1, <2>2, LeasesKept
<1>3. ASSUME NEW x \in Holders, LeaseOver(x) PROVE DispatchInv'
  <2>1. /\ heldLease' \in [Holders -> Lease] /\ ReleasedForReason
    BY <1>3, LeaseStateSet, NoneReleased DEF LeaseOver
  <2>2. ReasonsStay /\ DispatchTypes'
    BY <1>3, <2>1, NothingElseMoves DEF LeaseOver, DispatchTypes
  <2> QED
    BY <2>1, <2>2, LeasesKept
<1>4. ASSUME NEW x \in Holders, LeaseRenewed(x) PROVE DispatchInv'
  <2>1. /\ heldLease' \in [Holders -> Lease]
        /\ \A y \in Holders : heldLease'[y] = heldLease[y] \/ heldLease'[y].state = "active"
    <3>1. PICK l \in Lease : l = heldLease[x]
      BY DEF DispatchTypes
    <3>2. [l EXCEPT !.version = @ + 1] \in Lease
          /\ [l EXCEPT !.version = @ + 1].state = l.state
      BY <3>1 DEF Lease
    <3>3. heldLease' = [heldLease EXCEPT ![x] = [l EXCEPT !.version = @ + 1]]
          /\ l.state = "active"
      BY <1>4, <3>1 DEF LeaseRenewed
    <3> QED
      BY <3>2, <3>3 DEF DispatchTypes
  <2>2. ReleasedForReason
    BY <2>1, NoneReleased
  <2>3. ReasonsStay /\ DispatchTypes'
    BY <1>4, <2>1, NothingElseMoves DEF LeaseRenewed, DispatchTypes
  <2> QED
    BY <2>2, <2>3, LeasesKept
<1>5. ASSUME NEW e \in Entry, JoinQueue(e) \/ CancelEntry(e) PROVE DispatchInv'
  <2>1. ReasonsStay /\ ReleasedForReason
    BY <1>5 DEF JoinQueue, CancelEntry, ReasonsStay, ReleasedForReason, DispatchTypes
  <2>2. DispatchTypes'
    BY <1>5 DEF JoinQueue, CancelEntry, DispatchTypes
  <2> QED
    BY <2>1, <2>2, LeasesKept
<1>6. CASE Promote
  <2>1. PICK e : \/ Granted(e) /\ UNCHANGED ticket
                 \/ UNCHANGED <<heldLease, ticket>>
                 \/ MarkPromoted(e) /\ UNCHANGED heldLease
    BY <1>6 DEF Promote
  <2>2. UNCHANGED <<asks, command>>
    BY <1>6 DEF Promote
  <2>3. heldLease' \in [Holders -> Lease] /\ ReleasedForReason
    <3>1. CASE Granted(e)
      BY <3>1, LeaseGranted, NoneReleased
    <3>2. CASE UNCHANGED heldLease
      BY <3>2 DEF DispatchTypes, ReleasedForReason
    <3> QED
      BY <2>1, <3>1, <3>2
  <2>4. /\ ticket' \in [Entry -> {"none", "waiting", "promoted", "cancelled"}]
        /\ \A x \in Entry : ticket[x] = "cancelled" => ticket'[x] = "cancelled"
    <3>1. CASE UNCHANGED ticket
      BY <3>1 DEF DispatchTypes
    <3> QED
      BY <2>1, <3>1, MarkPromotedEffect
  <2>5. ReasonsStay /\ DispatchTypes'
    BY <2>2, <2>3, <2>4 DEF ReasonsStay, DispatchTypes
  <2> QED
    BY <2>3, <2>5, LeasesKept
<1>7. CASE PromoteEnds
  <2>1. UNCHANGED <<asks, command>>
    BY <1>7 DEF PromoteEnds
  <2>2. /\ ticket' \in [Entry -> {"none", "waiting", "promoted", "cancelled"}]
        /\ \A x \in Entry : ticket[x] = "cancelled" => ticket'[x] = "cancelled"
    <3>1. MarkPromoted(promoting) \/ UNCHANGED ticket
      BY <1>7 DEF PromoteEnds
    <3>2. CASE UNCHANGED ticket
      BY <3>2 DEF DispatchTypes
    <3> QED
      BY <3>1, <3>2, MarkPromotedEffect
  <2>3. heldLease' \in [Holders -> Lease] /\ ReleasedForReason
    <3>1. CASE UNCHANGED heldLease
      BY <3>1 DEF DispatchTypes, ReleasedForReason
    <3>2. CASE /\ ticket[promoting] = "cancelled"
               /\ heldLease' = ReleasedLeases({<<promoting, heldLease[promoting].version>>})
      <4>1. /\ heldLease' \in [Holders -> Lease]
            /\ \A x \in Holders : heldLease'[x] = heldLease[x]
                   \/ <<x, heldLease[x].version>> \in {<<promoting, heldLease[promoting].version>>}
        BY <3>2, ReleasedEffect
      <4>2. \A x \in Holders : heldLease'[x] = heldLease[x] \/ x = promoting
        BY <4>1
      <4> QED
        BY <2>2, <3>2, <4>1, <4>2 DEF ReleasedForReason, Holders
    <3> QED
      BY <1>7, <3>1, <3>2 DEF PromoteEnds
  <2>4. ReasonsStay /\ DispatchTypes'
    BY <2>1, <2>2, <2>3 DEF ReasonsStay, DispatchTypes
  <2> QED
    BY <2>3, <2>4, LeasesKept
<1>8. ASSUME NEW k \in Flow, RunFlow(k) PROVE DispatchInv'
  <2>1. heldLease' \in [Holders -> Lease] /\ ReleasedForReason
    <3>1. CASE Granted(k)
      BY <3>1, LeaseGranted, NoneReleased
    <3>2. CASE UNCHANGED heldLease
      BY <3>2 DEF DispatchTypes, ReleasedForReason
    <3> QED
      BY <1>8, <3>1, <3>2 DEF RunFlow
  <2>2. ReasonsStay /\ DispatchTypes'
    BY <1>8, <2>1, NothingElseMoves DEF RunFlow, DispatchTypes
  <2> QED
    BY <2>1, <2>2, LeasesKept
<1>9. ASSUME NEW k \in Flow, GrantReturns(k) \/ StageFails(k) PROVE DispatchInv'
  <2>1. heldLease' \in [Holders -> Lease] /\ ReleasedForReason
    <3>1. CASE ReleasePreDispatch(k)
      BY <3>1, PreDispatchEffect
    <3>2. CASE UNCHANGED heldLease
      BY <3>2 DEF DispatchTypes, ReleasedForReason
    <3> QED
      BY <1>9, <3>1, <3>2 DEF GrantReturns, StageFails
  <2>2. ReasonsStay /\ DispatchTypes'
    BY <1>9, <2>1, NothingElseMoves DEF GrantReturns, StageFails, DispatchTypes
  <2> QED
    BY <2>1, <2>2, LeasesKept
<1>10. ASSUME NEW k \in Flow, Stage(k) PROVE DispatchInv'
  <2>1. heldLease[LeaseOf(k)].version \in Nat
    <3>1. LeaseOf(k) \in Holders
      BY DEF LeaseOf, DispatchTypes, Holders
    <3> QED
      BY <3>1 DEF DispatchTypes, Lease
  <2>2. DispatchTypes' /\ ReasonsStay /\ ReleasedForReason
    <3>1. PICK c \in [state : {"none", "created", "running", "terminal"}, version : Nat] :
              c = command[k]
      BY DEF DispatchTypes
    <3>2. command' = [command EXCEPT ![k] =
            IF c.state = "none"
            THEN [state |-> "created", version |-> heldLease[LeaseOf(k)].version] ELSE c]
      BY <1>10, <3>1 DEF Stage, CreateCommand
    <3>3. UNCHANGED <<asks, heldLease, ticket>>
      BY <1>10 DEF Stage
    <3>4. DispatchTypes'
      BY <2>1, <3>1, <3>2, <3>3 DEF DispatchTypes
    <3>5. ReasonsStay
      BY <3>1, <3>2, <3>3 DEF ReasonsStay, DispatchTypes
    <3> QED
      BY <3>3, <3>4, <3>5 DEF ReleasedForReason
  <2> QED
    BY <2>2, LeasesKept
<1>11. ASSUME NEW k \in Flow, Dispatch(k) \/ CommandOver(k) PROVE DispatchInv'
  <2>1. PICK c \in [state : {"none", "created", "running", "terminal"}, version : Nat] :
            c = command[k]
    BY DEF DispatchTypes
  <2>2. PICK d \in [state : {"none", "created", "running", "terminal"}, version : Nat] :
            command' = [command EXCEPT ![k] = d] /\ (c.state = "terminal" => d = c)
    <3>1. CASE UNCHANGED command
      BY <2>1, <3>1 DEF DispatchTypes
    <3>2. CASE command' = [command EXCEPT ![k].state = IF @ = "created" THEN "running" ELSE @]
      <4>1. command' = [command EXCEPT ![k] =
              [c EXCEPT !.state = IF c.state = "created" THEN "running" ELSE c.state]]
        BY <2>1, <3>2
      <4>2. CASE c.state = "created"
        <5>1. [c EXCEPT !.state = "running"] \in
                [state : {"none", "created", "running", "terminal"}, version : Nat]
          BY <2>1
        <5> QED
          BY <4>1, <4>2, <5>1
      <4>3. CASE c.state # "created"
        <5>1. [c EXCEPT !.state = c.state] = c
          BY <2>1
        <5> QED
          BY <2>1, <4>1, <4>3, <5>1
      <4> QED
        BY <4>2, <4>3
    <3>3. CASE /\ command[k].state \in {"created", "running"}
               /\ command' = [command EXCEPT ![k].state = "terminal"]
      <4>1. [c EXCEPT !.state = "terminal"] \in
              [state : {"none", "created", "running", "terminal"}, version : Nat]
        BY <2>1
      <4> QED
        BY <2>1, <3>3, <4>1
    <3> QED
      BY <1>11, <3>1, <3>2, <3>3 DEF Dispatch, CommandOver
  <2>3. UNCHANGED <<asks, heldLease, ticket>>
    BY <1>11 DEF Dispatch, CommandOver
  <2>4. DispatchTypes'
    BY <2>1, <2>2, <2>3 DEF DispatchTypes
  <2>5. ReasonsStay /\ ReleasedForReason
    BY <2>1, <2>2, <2>3 DEF ReasonsStay, ReleasedForReason, DispatchTypes
  <2> QED
    BY <2>4, <2>5, LeasesKept
<1>12. CASE ReleaseTerminal
  <2>1. /\ heldLease' \in [Holders -> Lease]
        /\ \A x \in Holders : heldLease'[x] = heldLease[x]
             \/ /\ <<x, heldLease[x].version>> \in TerminalLeases
                /\ heldLease'[x].version = heldLease[x].version
    BY <1>12, ReleasedEffect DEF ReleaseTerminal
  <2>2. ReleasedForReason
    <3> SUFFICES ASSUME NEW e \in Entry, heldLease'[e] # heldLease[e]
                 PROVE  \E k \in Flow : LeaseOf(k) = e /\ ReleaseIntended(k)
                                         /\ command[k].version = heldLease'[e].version
      BY DEF ReleasedForReason
    <3>1. /\ <<e, heldLease[e].version>> \in TerminalLeases
          /\ heldLease'[e].version = heldLease[e].version
      BY <2>1 DEF Holders
    <3>2. PICK k \in Flow : /\ ReleaseIntended(k)
                            /\ <<e, heldLease[e].version>> = <<LeaseOf(k), command[k].version>>
      BY <3>1 DEF TerminalLeases
    <3> QED
      BY <3>1, <3>2
  <2>3. ReasonsStay /\ DispatchTypes'
    BY <1>12, <2>1, NothingElseMoves DEF ReleaseTerminal, DispatchTypes
  <2> QED
    BY <2>2, <2>3, LeasesKept
<1>13. CASE AgentGoes \/ ControlPlaneStops \/ UNCHANGED dispatchVars
  <2>1. UNCHANGED <<asks, heldLease, ticket, command>>
    BY <1>13 DEF AgentGoes, ControlPlaneStops, dispatchVars
  <2>2. DispatchTypes' /\ ReleasedForReason /\ ReasonsStay
    BY <2>1 DEF DispatchTypes, ReleasedForReason, ReasonsStay
  <2> QED
    BY <2>2, LeasesKept
<1> QED
  BY <1>1, <1>2, <1>3, <1>4, <1>5, <1>6, <1>7, <1>8, <1>9, <1>10, <1>11, <1>12, <1>13
     DEF DispatchNext

\* Every lease given back without its owner had a reason, which stays: the invariant
\* of the queue and the workflow requests (workflows.py, reservation_queue.py).
THEOREM DispatchInvariant == DispatchSpec => []DispatchInv
<1> QED
  BY DispatchInitInv, DispatchStep, PTL DEF DispatchSpec

\* However queue passes, cancellations, retries, failed dispatches, renewals and
\* restarts interleave, a lease obtained through the queue is given back without its
\* owner only after the row was cancelled or a workflow that was to give it back ended
\* under this version (release with expected_lease_version).
THEOREM CallersLeaseKeptHolds == DispatchSpec => []CallersLeaseKept
<1>1. DispatchInv => CallersLeaseKept
  BY DEF DispatchInv
<1> QED
  BY <1>1, DispatchInvariant, PTL

-----------------------------------------------------------------------------
(***************************************************************************)
(* Upgrades of the schema (SchemaMigration).  What a run still has to do   *)
(* is in todo, so the invariant says which statements may be there and in  *)
(* which order, what holds of the database when the next of them is due,   *)
(* and that everything the parts already begun promise is done or there.   *)
(***************************************************************************)

\* The tables that a rebuild fills and renames, the table each replaces, and
\* the shape each is created with.
Temporary == {"steps_phase4", "steps_phase10", "snapshots_ci_cancel"}
Rebuilt == {"steps", "snapshots"}
Original(t) == IF t = "snapshots_ci_cancel" THEN "snapshots" ELSE "steps"
NewShape(t) ==
    IF t = "steps_phase4" THEN "phase4" ELSE IF t = "steps_phase10" THEN "tenant" ELSE "ci"

\* Effects that may stand anywhere in a program, and all effects.
FreeEffect ==
    {Nothing} \cup {Make(o) : o \in Object} \cup {Record(v) : v \in Versions}
        \cup {Create("steps", "tenant"), Create("snapshots", "ci"),
              Create("idempotency", "global"),
              Reshape("steps", "tenant"), Reshape("snapshots", "ci")}

BoundEffect ==
    {Drop(t) : t \in Temporary \cup Rebuilt \cup {"idempotency"}}
        \cup {Create(t, NewShape(t)) : t \in Temporary}
        \cup {Create("idempotency", "tenant")}
        \cup {Copy(Original(t), t) : t \in Temporary}
        \cup {Rename(t, Original(t)) : t \in Temporary}

Statement ==
    {s \in [how : {"ddl", "dml", "begin", "commit"}, effect : FreeEffect \cup BoundEffect] :
        /\ s.how \in {"begin", "commit"} => s.effect = Nothing
        /\ s.effect.op = "copy" => s.how = "dml"}

FreeStatement == {s \in Statement : s.effect \in FreeEffect}

Effects(p) == {p[i].effect : i \in DOMAIN p}

\* An effect that need not come directly after another one, and which effect
\* comes directly after which.
Begins(e) ==
    /\ e.op \notin {"copy", "rename"}
    /\ e.op = "create" => e.what \notin Temporary /\ e # Create("idempotency", "tenant")
    /\ e.op = "drop" => e.what \notin Rebuilt

Leads(e, f) ==
    \/ Begins(f)
    \/ f.op = "create" /\ e = Drop(f.what)
    \/ f.op = "copy" /\ e = Create(f.to, NewShape(f.to))
    \/ f.op = "drop" /\ e.op = "copy"
    \/ f.op = "rename" /\ e.op = "drop" /\ e.what \in Rebuilt

\* A program, or what is left of one, in which rebuilds are complete: the old
\* table is dropped only between the copy and the renaming, and the index of
\* idempotency keys only before the new one is created.
Ordered(p) ==
    /\ p \in Seq(Statement)
    /\ \A i \in 2 .. Len(p) : Leads(p[i - 1].effect, p[i].effect)
    /\ \A i \in 1 .. Len(p) :
        /\ p[i].effect.op = "copy" =>
            /\ i + 2 <= Len(p)
            /\ p[i + 1].effect = Drop(p[i].effect.what)
            /\ p[i + 2].effect = Rename(p[i].effect.to, p[i].effect.what)
        /\ p[i].effect = Drop("idempotency") =>
            i + 1 <= Len(p) /\ p[i + 1].effect = Create("idempotency", "tenant")

Whole(p) == Ordered(p) /\ (Len(p) > 0 => Begins(p[1].effect))

\* Versions whose record makes a later run skip the work are recorded last.
SkippedBy(e) == e.op = "record" /\ e.what \in {3, 4, 10}
RecordsLast(p) == \A i \in 1 .. Len(p) : SkippedBy(p[i].effect) => i = Len(p)

\* The objects each part makes and the versions it records.
Makes ==
    << {}, {"reservation_columns", "reservation_times", "event_columns", "queue_tables",
            "reservation_triggers"},
       {"catalog_tables", "catalog_indexes"}, {}, {"phase4_tables", "phase4_indexes"},
       {"agent_tables", "agent_indexes"}, {"distributed_tables", "distributed_indexes"},
       {"result_column"}, {"identity_tables", "default_organisation", "organisation_columns"},
       {"cancel_columns", "phase6_indexes"}, {},
       {"queue_columns", "queue_order", "queue_trigger"},
       {"retention_columns", "decision_tables"} >>
Records == << {2}, {3}, {4}, {}, {5}, {6}, {7}, {8}, {}, {9}, {10}, {11}, {12} >>

\* What a recorded version promises, of the work that is skipped for it.
Recorded(d) ==
    /\ 3 \in d.versions => Makes[2] \subseteq d.made
    /\ 4 \in d.versions => Makes[3] \subseteq d.made
    /\ 10 \in d.versions => d.shape["steps"] = "tenant" /\ d.shape["idempotency"] = "tenant"

DatabaseSound(d) ==
    /\ d \in DatabaseType
    /\ Recorded(d)
    /\ d.shape["snapshots"] \in {"none", "plain", "ci"}

Due == Head(todo).effect
Coming == Effects(todo)

\* The new table has the rows of the old one, in an open transaction.
Carried(t) ==
    /\ open /\ view.shape[t] = NewShape(t)
    /\ Original(t) \in holds => t \in view.rows

\* What holds when the next statement is due.
Ready ==
    todo # <<>> =>
        /\ Due.op = "create" /\ ~Begins(Due) => view.shape[Due.what] = "none"
        /\ Due.op = "copy" => view.shape[Due.to] = NewShape(Due.to)
        /\ Due.op = "drop" /\ Due.what \in Rebuilt =>
            /\ Len(todo) > 1
            /\ \E t \in Temporary : todo[2].effect = Rename(t, Due.what) /\ Carried(t)
        /\ Due.op = "rename" => Carried(Due.what)

RowsKept ==
    /\ holds \subseteq disk.rows
    /\ holds \subseteq Rebuilt
    /\ \A x \in holds : \/ x \in view.rows
                        \/ todo # <<>> /\ Due.op = "rename" /\ Due.to = x

\* What the parts already begun have done, or will do with what is left of the
\* last one.
WorkDone ==
    \A p \in 1 .. 13 : p < part =>
        /\ \A o \in Makes[p] : o \in view.made \/ Make(o) \in Coming
        /\ \A v \in Records[p] : v \in view.versions \/ Record(v) \in Coming

ShapesDone ==
    /\ part > 9 => \/ view.shape["snapshots"] # "none"
                   \/ Create("snapshots", "ci") \in Coming
                   \/ Rename("snapshots_ci_cancel", "snapshots") \in Coming
    /\ part > 10 => \/ view.shape["snapshots"] = "ci"
                    \/ Reshape("snapshots", "ci") \in Coming
                    \/ Rename("snapshots_ci_cancel", "snapshots") \in Coming
    /\ part > 11 => \/ view.shape["steps"] = "tenant"
                    \/ Reshape("steps", "tenant") \in Coming
                    \/ Rename("steps_phase10", "steps") \in Coming
    /\ part > 11 => \/ view.shape["idempotency"] = "tenant"
                    \/ Create("idempotency", "tenant") \in Coming

\* Which part a statement belongs to, and that a run that undoes what version
\* 10 promises has not seen version 10.
Undoes(e) ==
    \/ e = Drop("idempotency")
    \/ e.op = "drop" /\ e.what = "steps"
    \/ e.op = "rename" /\ e.to = "steps"

InPlace ==
    /\ Record(3) \in Coming => part = 3
    /\ Record(4) \in Coming => part = 4
    /\ Record(10) \in Coming => part = 12
    /\ Rename("steps_phase4", "steps") \in Coming => part = 5
    /\ \A e \in Coming : Undoes(e) => 10 \notin view.versions
    /\ part > 0 /\ 10 \in view.versions => 10 \in applied \/ part > 11

RunnerInv ==
    /\ runner = "none" => todo = <<>> /\ part = 0 /\ ~open /\ applied = {}
    /\ runner # "none" => part \in 1 .. 14 /\ ~serving
    /\ applied \subseteq view.versions
    /\ serving => Complete(disk)

MigrationInv ==
    /\ backend \in {"sqlite", "postgresql"}
    /\ MigrationTypeOK
    /\ DatabaseSound(disk) /\ DatabaseSound(view)
    /\ Ordered(todo) /\ RecordsLast(todo)
    /\ RunnerInv /\ RowsKept /\ Ready
    /\ WorkDone /\ ShapesDone /\ InPlace
----------------------------------------------------------------------------
(* Statements and programs. *)

LEMMA FreeEffects ==
    ASSUME NEW e \in FreeEffect
    PROVE  Begins(e) /\ e.op \notin {"copy", "drop", "rename"} /\ e # Drop("idempotency")
BY DEF FreeEffect, Begins, Nothing, Make, Record, Create, Reshape, Temporary, Rebuilt, Drop

LEMMA StatementsHave ==
    ASSUME NEW s \in Statement
    PROVE  /\ s.how \in {"ddl", "dml", "begin", "commit"}
           /\ s.effect \in FreeEffect \cup BoundEffect
           /\ s.how \in {"begin", "commit"} => s.effect = Nothing
           /\ s.effect.op = "copy" => s.how = "dml"
BY DEF Statement

LEMMA FreeWhole == ASSUME NEW p \in Seq(FreeStatement) PROVE Whole(p)
<1>1. p \in Seq(Statement)
  BY DEF FreeStatement
<1>2. \A i \in 1 .. Len(p) : p[i].effect \in FreeEffect
  BY DEF FreeStatement
<1>3. \A i \in 1 .. Len(p) : /\ Begins(p[i].effect)
                             /\ p[i].effect.op \notin {"copy", "drop", "rename"}
                             /\ p[i].effect # Drop("idempotency")
  BY <1>2, FreeEffects
<1>4. \A i \in 2 .. Len(p) : Leads(p[i - 1].effect, p[i].effect)
  BY <1>3 DEF Leads
<1> QED  BY <1>1, <1>3, <1>4 DEF Whole, Ordered

LEMMA ConcatElements ==
    ASSUME NEW S, NEW s \in Seq(S), NEW t \in Seq(S)
    PROVE  /\ s \o t \in Seq(S)
           /\ Len(s \o t) = Len(s) + Len(t)
           /\ \A i \in 1 .. Len(s) : (s \o t)[i] = s[i]
           /\ \A i \in 1 .. Len(t) : (s \o t)[Len(s) + i] = t[i]
           /\ \A i \in 1 .. Len(s \o t) : i > Len(s) =>
                 i - Len(s) \in 1 .. Len(t) /\ (s \o t)[i] = t[i - Len(s)]
<1>1. s \o t \in Seq(S) /\ Len(s \o t) = Len(s) + Len(t)
  OBVIOUS
<1>2. \A i \in 1 .. Len(s) : (s \o t)[i] = s[i]
  OBVIOUS
<1>3. ASSUME NEW i \in 1 .. Len(t)
      PROVE  (s \o t)[Len(s) + i] = t[i]
  OBVIOUS
<1>4. ASSUME NEW i \in 1 .. Len(s \o t), i > Len(s)
      PROVE  i - Len(s) \in 1 .. Len(t) /\ (s \o t)[i] = t[i - Len(s)]
  <2>1. i - Len(s) \in 1 .. Len(t) /\ Len(s) + (i - Len(s)) = i
    BY <1>1, <1>4
  <2> QED  BY <2>1, <1>3
<1> QED  BY <1>1, <1>2, <1>3, <1>4

LEMMA ConcatEffects ==
    ASSUME NEW s \in Seq(Statement), NEW t \in Seq(Statement)
    PROVE  Effects(s \o t) = Effects(s) \cup Effects(t)
<1>0. /\ s \o t \in Seq(Statement)
      /\ DOMAIN s = 1 .. Len(s) /\ DOMAIN t = 1 .. Len(t)
      /\ DOMAIN (s \o t) = 1 .. Len(s \o t) /\ Len(s) \in Nat /\ Len(t) \in Nat
  BY ConcatElements
<1>1. ASSUME NEW e \in Effects(s \o t) PROVE e \in Effects(s) \cup Effects(t)
  <2> PICK i \in 1 .. Len(s \o t) : e = (s \o t)[i].effect
    BY <1>0 DEF Effects
  <2>1. CASE i <= Len(s)
    BY <2>1, <1>0, ConcatElements DEF Effects
  <2>2. CASE i > Len(s)
    BY <2>2, <1>0, ConcatElements DEF Effects
  <2> QED  BY <2>1, <2>2, <1>0
<1>2. ASSUME NEW e \in Effects(s) PROVE e \in Effects(s \o t)
  <2> PICK i \in 1 .. Len(s) : e = s[i].effect
    BY <1>0 DEF Effects
  <2> QED  BY <1>0, ConcatElements DEF Effects
<1>3. ASSUME NEW e \in Effects(t) PROVE e \in Effects(s \o t)
  <2> PICK i \in 1 .. Len(t) : e = t[i].effect
    BY <1>0 DEF Effects
  <2>1. Len(s) + i \in 1 .. Len(s \o t) /\ (s \o t)[Len(s) + i] = t[i]
    BY <1>0, ConcatElements
  <2> QED  BY <2>1, <1>0 DEF Effects
<1> QED  BY <1>1, <1>2, <1>3

LEMMA ConcatWhole ==
    ASSUME NEW s, NEW t, Whole(s), Whole(t)
    PROVE  Whole(s \o t)
<1>0. s \in Seq(Statement) /\ t \in Seq(Statement)
  BY DEF Whole, Ordered
<1> DEFINE u == s \o t
<1>1. /\ u \in Seq(Statement)
      /\ Len(u) = Len(s) + Len(t) /\ Len(s) \in Nat /\ Len(t) \in Nat
      /\ \A i \in 1 .. Len(s) : u[i] = s[i]
      /\ \A i \in 1 .. Len(t) : u[Len(s) + i] = t[i]
      /\ \A i \in 1 .. Len(u) : i > Len(s) =>
           i - Len(s) \in 1 .. Len(t) /\ u[i] = t[i - Len(s)]
  BY <1>0, ConcatElements
<1> HIDE DEF u
<1>2. ASSUME NEW i \in 2 .. Len(u) PROVE Leads(u[i - 1].effect, u[i].effect)
  <2>1. CASE i <= Len(s)
    <3>1. i \in 2 .. Len(s) /\ u[i] = s[i] /\ u[i - 1] = s[i - 1]
      BY <2>1, <1>1
    <3> QED  BY <3>1 DEF Whole, Ordered
  <2>2. CASE i = Len(s) + 1
    <3>1. u[i] = t[1] /\ Len(t) > 0
      BY <2>2, <1>1
    <3> QED  BY <3>1 DEF Whole, Leads
  <2>3. CASE i > Len(s) + 1
    <3> DEFINE j == i - Len(s)
    <3>1. j \in 2 .. Len(t) /\ u[i] = t[j]
      BY <2>3, <1>1
    <3>2. i - 1 \in 1 .. Len(u) /\ i - 1 > Len(s) /\ (i - 1) - Len(s) = j - 1
      BY <2>3, <1>1
    <3>3. u[i - 1] = t[j - 1]
      BY <3>2, <1>1
    <3> QED  BY <3>1, <3>3 DEF Whole, Ordered
  <2>4. i <= Len(s) \/ i = Len(s) + 1 \/ i > Len(s) + 1
    BY <1>1
  <2> QED  BY <2>1, <2>2, <2>3, <2>4
<1>3. ASSUME NEW i \in 1 .. Len(u)
      PROVE  /\ u[i].effect.op = "copy" =>
                /\ i + 2 <= Len(u)
                /\ u[i + 1].effect = Drop(u[i].effect.what)
                /\ u[i + 2].effect = Rename(u[i].effect.to, u[i].effect.what)
             /\ u[i].effect = Drop("idempotency") =>
                i + 1 <= Len(u) /\ u[i + 1].effect = Create("idempotency", "tenant")
  <2>1. CASE i <= Len(s)
    <3>1. i \in 1 .. Len(s) /\ u[i] = s[i]
      BY <2>1, <1>1
    <3>2. /\ i + 1 <= Len(s) => u[i + 1] = s[i + 1] /\ i + 1 <= Len(u)
          /\ i + 2 <= Len(s) => u[i + 2] = s[i + 2] /\ i + 2 <= Len(u) /\ i + 1 <= Len(s)
      BY <3>1, <1>1
    <3>3. Ordered(s)
      BY DEF Whole
    <3>4. /\ s[i].effect.op = "copy" =>
             /\ i + 2 <= Len(s)
             /\ s[i + 1].effect = Drop(s[i].effect.what)
             /\ s[i + 2].effect = Rename(s[i].effect.to, s[i].effect.what)
          /\ s[i].effect = Drop("idempotency") =>
             i + 1 <= Len(s) /\ s[i + 1].effect = Create("idempotency", "tenant")
      BY <3>1, <3>3 DEF Ordered
    <3> QED  BY <3>1, <3>2, <3>4
  <2>2. CASE i > Len(s)
    <3> DEFINE j == i - Len(s)
    <3>1. j \in 1 .. Len(t) /\ u[i] = t[j] /\ i = Len(s) + j
      BY <2>2, <1>1
    <3> HIDE DEF j
    <3>2. /\ j + 1 <= Len(t) => u[i + 1] = t[j + 1] /\ i + 1 <= Len(u)
          /\ j + 2 <= Len(t) => u[i + 2] = t[j + 2] /\ i + 2 <= Len(u)
      <4>0. j \in 1 .. Len(t) /\ i = Len(s) + j /\ Len(s) \in Nat /\ Len(t) \in Nat
        BY <3>1, <1>1
      <4>1. j + 1 <= Len(t) => j + 1 \in 1 .. Len(t) /\ Len(s) + (j + 1) = i + 1
        BY ONLY <4>0
      <4>2. j + 2 <= Len(t) => j + 2 \in 1 .. Len(t) /\ Len(s) + (j + 2) = i + 2
        BY ONLY <4>0
      <4>3. j + 1 <= Len(t) => u[i + 1] = t[j + 1]
        BY <4>1, <1>1
      <4>4. j + 2 <= Len(t) => u[i + 2] = t[j + 2]
        BY <4>2, <1>1
      <4> QED  BY <4>3, <4>4, <3>1, <1>1
    <3>3. Ordered(t)
      BY DEF Whole
    <3>4. /\ t[j].effect.op = "copy" =>
             /\ j + 2 <= Len(t)
             /\ t[j + 1].effect = Drop(t[j].effect.what)
             /\ t[j + 2].effect = Rename(t[j].effect.to, t[j].effect.what)
          /\ t[j].effect = Drop("idempotency") =>
             j + 1 <= Len(t) /\ t[j + 1].effect = Create("idempotency", "tenant")
      BY <3>1, <3>3 DEF Ordered
    <3>5. j + 2 <= Len(t) => j + 1 <= Len(t)
      BY <3>1, <1>1
    <3> QED  BY <3>1, <3>2, <3>4, <3>5
  <2> QED  BY <2>1, <2>2, <1>1
<1>4. Len(u) > 0 => Begins(u[1].effect)
  <2>1. CASE Len(s) > 0
    BY <2>1, <1>1 DEF Whole
  <2>2. CASE Len(s) = 0
    BY <2>2, <1>1 DEF Whole
  <2> QED  BY <2>1, <2>2, <1>1
<1> QED  BY <1>1, <1>2, <1>3, <1>4 DEF Whole, Ordered, u

LEMMA ConcatRecords ==
    ASSUME NEW s \in Seq(Statement), NEW t \in Seq(Statement),
           \A e \in Effects(s) : ~SkippedBy(e), RecordsLast(t)
    PROVE  RecordsLast(s \o t)
<1> DEFINE u == s \o t
<1>1. /\ Len(u) = Len(s) + Len(t) /\ Len(s) \in Nat /\ Len(t) \in Nat
      /\ \A i \in 1 .. Len(s) : u[i] = s[i]
      /\ \A i \in 1 .. Len(u) : i > Len(s) =>
           i - Len(s) \in 1 .. Len(t) /\ u[i] = t[i - Len(s)]
  BY ConcatElements
<1> HIDE DEF u
<1>2. \A i \in 1 .. Len(s) : ~SkippedBy(s[i].effect)
  BY DEF Effects
<1>3. ASSUME NEW i \in 1 .. Len(u), SkippedBy(u[i].effect)
      PROVE  i = Len(u)
  <2>1. i > Len(s)
    BY <1>1, <1>2, <1>3
  <2>2. i - Len(s) \in 1 .. Len(t) /\ u[i] = t[i - Len(s)]
    BY <2>1, <1>1
  <2>3. i - Len(s) = Len(t)
    BY <2>2, <1>3 DEF RecordsLast
  <2> QED  BY <2>3, <1>1
<1> QED  BY <1>3 DEF RecordsLast, u

LEMMA TailOrdered ==
    ASSUME NEW p, Ordered(p), p # <<>>
    PROVE  /\ Ordered(Tail(p))
           /\ Len(Tail(p)) = Len(p) - 1
           /\ \A i \in 1 .. Len(Tail(p)) : Tail(p)[i] = p[i + 1]
           /\ Head(p) = p[1] /\ Head(p) \in Statement
           /\ Effects(Tail(p)) \subseteq Effects(p)
           /\ Effects(p) = Effects(Tail(p)) \cup {Head(p).effect}
           /\ RecordsLast(p) => RecordsLast(Tail(p))
<1> DEFINE q == Tail(p)
<1>0. p \in Seq(Statement) /\ Len(p) \in Nat /\ Len(p) > 0 /\ DOMAIN p = 1 .. Len(p)
  BY DEF Ordered
<1>1. /\ q \in Seq(Statement) /\ Len(q) = Len(p) - 1 /\ DOMAIN q = 1 .. Len(q)
      /\ \A i \in 1 .. Len(q) : q[i] = p[i + 1]
      /\ Head(p) = p[1] /\ Head(p) \in Statement
  BY <1>0
<1> HIDE DEF q
<1>2. \A i \in 2 .. Len(q) : Leads(q[i - 1].effect, q[i].effect)
  <2> SUFFICES ASSUME NEW i \in 2 .. Len(q) PROVE Leads(q[i - 1].effect, q[i].effect)
    OBVIOUS
  <2>1. i + 1 \in 2 .. Len(p) /\ q[i] = p[i + 1] /\ q[i - 1] = p[(i - 1) + 1]
        /\ (i - 1) + 1 = (i + 1) - 1
    BY <1>0, <1>1
  <2> QED  BY <2>1 DEF Ordered
<1>3. ASSUME NEW i \in 1 .. Len(q)
      PROVE  /\ q[i].effect.op = "copy" =>
                /\ i + 2 <= Len(q)
                /\ q[i + 1].effect = Drop(q[i].effect.what)
                /\ q[i + 2].effect = Rename(q[i].effect.to, q[i].effect.what)
             /\ q[i].effect = Drop("idempotency") =>
                i + 1 <= Len(q) /\ q[i + 1].effect = Create("idempotency", "tenant")
  <2>1. i + 1 \in 1 .. Len(p) /\ q[i] = p[i + 1]
    BY <1>0, <1>1
  <2>2. /\ p[i + 1].effect.op = "copy" =>
           /\ (i + 1) + 2 <= Len(p)
           /\ p[(i + 1) + 1].effect = Drop(p[i + 1].effect.what)
           /\ p[(i + 1) + 2].effect = Rename(p[i + 1].effect.to, p[i + 1].effect.what)
        /\ p[i + 1].effect = Drop("idempotency") =>
           /\ (i + 1) + 1 <= Len(p)
           /\ p[(i + 1) + 1].effect = Create("idempotency", "tenant")
    BY <2>1 DEF Ordered
  <2>3. /\ (i + 1) + 1 <= Len(p) => i + 1 <= Len(q) /\ q[i + 1] = p[(i + 1) + 1]
        /\ (i + 1) + 2 <= Len(p) => /\ i + 2 <= Len(q) /\ q[i + 2] = p[(i + 1) + 2]
                                    /\ (i + 1) + 1 <= Len(p)
    <3>1. (i + 1) + 1 <= Len(p) => i + 1 \in 1 .. Len(q)
      BY <1>0, <1>1
    <3>2. (i + 1) + 2 <= Len(p) => i + 2 \in 1 .. Len(q) /\ (i + 2) + 1 = (i + 1) + 2
      BY <1>0, <1>1
    <3>3. (i + 1) + 2 <= Len(p) => q[i + 2] = p[(i + 2) + 1]
      BY <3>2, <1>1
    <3> QED  BY <3>1, <3>2, <3>3, <1>0, <1>1
  <2> QED  BY <2>1, <2>2, <2>3
<1>4. Effects(p) = Effects(q) \cup {Head(p).effect}
  <2>1. ASSUME NEW e \in Effects(p) PROVE e \in Effects(q) \cup {Head(p).effect}
    <3> PICK i \in 1 .. Len(p) : e = p[i].effect
      BY <1>0 DEF Effects
    <3>1. CASE i = 1
      BY <3>1, <1>1
    <3>2. CASE i > 1
      <4>1. i - 1 \in 1 .. Len(q) /\ (i - 1) + 1 = i
        BY <3>2, <1>0, <1>1
      <4>2. q[i - 1] = p[i]
        BY <4>1, <1>1
      <4> QED  BY <4>1, <4>2, <1>1 DEF Effects
    <3> QED  BY <3>1, <3>2
  <2>2. ASSUME NEW e \in Effects(q) PROVE e \in Effects(p)
    <3> PICK i \in 1 .. Len(q) : e = q[i].effect
      BY <1>1 DEF Effects
    <3>1. i + 1 \in 1 .. Len(p) /\ q[i] = p[i + 1]
      BY <1>0, <1>1
    <3> QED  BY <3>1, <1>0 DEF Effects
  <2>3. Head(p).effect \in Effects(p)
    BY <1>0, <1>1 DEF Effects
  <2> QED  BY <2>1, <2>2, <2>3
<1>5. RecordsLast(p) => RecordsLast(q)
  <2> SUFFICES ASSUME RecordsLast(p), NEW i \in 1 .. Len(q), SkippedBy(q[i].effect)
               PROVE  i = Len(q)
    BY DEF RecordsLast
  <2>1. i + 1 \in 1 .. Len(p) /\ q[i] = p[i + 1]
    BY <1>0, <1>1
  <2>2. i + 1 = Len(p)
    BY <2>1 DEF RecordsLast
  <2> QED  BY <2>2, <1>0, <1>1
<1>6. Ordered(q)
  BY <1>1, <1>2, <1>3 DEF Ordered
<1> QED  BY <1>1, <1>4, <1>5, <1>6 DEF q
LEMMA FreeStatements ==
    ASSUME NEW e \in FreeEffect
    PROVE  Ddl(e) \in FreeStatement /\ Dml(e) \in FreeStatement
<1>1. e.op # "copy" /\ e \in FreeEffect \cup BoundEffect
  BY FreeEffects
<1> QED  BY <1>1 DEF FreeStatement, Statement, Ddl, Dml

LEMMA CommitIsFree == Commit \in FreeStatement /\ Begin \in FreeStatement /\ Nothing \in FreeEffect
<1>1. Nothing \in FreeEffect /\ Nothing.op # "copy"
  BY DEF FreeEffect, Nothing
<1> QED  BY <1>1 DEF FreeStatement, Statement, Commit, Begin

LEMMA One ==
    ASSUME NEW S, NEW x \in S
    PROVE  /\ <<x>> \in Seq(S) /\ Len(<<x>>) = 1 /\ <<x>>[1] = x /\ DOMAIN <<x>> = {1}
OBVIOUS

LEMMA Two ==
    ASSUME NEW S, NEW x \in S, NEW y \in S
    PROVE  /\ <<x, y>> \in Seq(S) /\ Len(<<x, y>>) = 2 /\ DOMAIN <<x, y>> = {1, 2}
           /\ <<x, y>>[1] = x /\ <<x, y>>[2] = y
OBVIOUS

LEMMA FreeConcat ==
    ASSUME NEW s \in Seq(FreeStatement), NEW t \in Seq(FreeStatement)
    PROVE  /\ s \o t \in Seq(FreeStatement)
           /\ Effects(s \o t) = Effects(s) \cup Effects(t)
<1>1. s \in Seq(Statement) /\ t \in Seq(Statement)
  BY DEF FreeStatement
<1> QED  BY <1>1, ConcatEffects

LEMMA ScriptOf ==
    ASSUME NEW es \in Seq(FreeEffect)
    PROVE  /\ Script(es) \in Seq(FreeStatement)
           /\ Effects(Script(es)) = {Nothing} \cup {es[i] : i \in DOMAIN es}
<1> DEFINE f == [i \in DOMAIN es |-> Ddl(es[i])]
<1>1. f \in Seq(FreeStatement) /\ DOMAIN f = DOMAIN es
  <2>1. DOMAIN es = 1 .. Len(es) /\ Len(es) \in Nat
    OBVIOUS
  <2>2. \A i \in DOMAIN es : Ddl(es[i]) \in FreeStatement
    BY FreeStatements
  <2> QED  BY <2>1, <2>2
<1>2. Effects(f) = {es[i] : i \in DOMAIN es}
  BY DEF Effects, Ddl
<1>3. <<Commit>> \in Seq(FreeStatement) /\ Effects(<<Commit>>) = {Nothing}
  BY CommitIsFree, One DEF Effects, Commit
<1> HIDE DEF f
<1>4. Script(es) = <<Commit>> \o f
  BY DEF Script, f
<1> QED  BY <1>1, <1>2, <1>3, <1>4, FreeConcat

LEMMA ScriptOne ==
    ASSUME NEW e \in FreeEffect
    PROVE  Script(<<e>>) \in Seq(FreeStatement) /\ Effects(Script(<<e>>)) = {Nothing, e}
<1>1. <<e>> \in Seq(FreeEffect) /\ {<<e>>[i] : i \in DOMAIN <<e>>} = {e}
  BY One
<1> QED  BY <1>1, ScriptOf

LEMMA ScriptTwo ==
    ASSUME NEW e \in FreeEffect, NEW f \in FreeEffect
    PROVE  Script(<<e, f>>) \in Seq(FreeStatement) /\ Effects(Script(<<e, f>>)) = {Nothing, e, f}
<1>1. <<e, f>> \in Seq(FreeEffect) /\ {<<e, f>>[i] : i \in DOMAIN <<e, f>>} = {e, f}
  BY Two
<1> QED  BY <1>1, ScriptOf

LEMMA DdlOne ==
    ASSUME NEW e \in FreeEffect
    PROVE  /\ <<Ddl(e)>> \in Seq(FreeStatement) /\ Effects(<<Ddl(e)>>) = {e}
           /\ <<Dml(e)>> \in Seq(FreeStatement) /\ Effects(<<Dml(e)>>) = {e}
<1>1. Ddl(e) \in FreeStatement /\ Dml(e) \in FreeStatement
  BY FreeStatements
<1>2. <<Ddl(e)>> \in Seq(FreeStatement) /\ Effects(<<Ddl(e)>>) = {e}
  BY <1>1, One DEF Effects, Ddl
<1>3. <<Dml(e)>> \in Seq(FreeStatement) /\ Effects(<<Dml(e)>>) = {e}
  BY <1>1, One DEF Effects, Dml
<1> QED  BY <1>2, <1>3

LEMMA DdlTwo ==
    ASSUME NEW e \in FreeEffect, NEW f \in FreeEffect
    PROVE  /\ <<Ddl(e), Dml(f)>> \in Seq(FreeStatement)
           /\ Effects(<<Ddl(e), Dml(f)>>) = {e, f}
<1>1. Ddl(e) \in FreeStatement /\ Dml(f) \in FreeStatement
  BY FreeStatements
<1>2. <<Ddl(e), Dml(f)>> \in Seq(FreeStatement)
  BY <1>1, Two
<1>3. Effects(<<Ddl(e), Dml(f)>>) = {e, f}
  BY <1>1, Two DEF Effects, Ddl, Dml
<1> QED  BY <1>2, <1>3

LEMMA FreeMembers ==
    /\ \A o \in Object : Make(o) \in FreeEffect
    /\ \A v \in Versions : Record(v) \in FreeEffect
    /\ Create("steps", "tenant") \in FreeEffect /\ Create("snapshots", "ci") \in FreeEffect
    /\ Create("idempotency", "global") \in FreeEffect
    /\ Reshape("steps", "tenant") \in FreeEffect /\ Reshape("snapshots", "ci") \in FreeEffect
    /\ Nothing \in FreeEffect
BY DEF FreeEffect

LEMMA RecordVersionOf ==
    ASSUME NEW v \in Versions, NEW a
    PROVE  /\ RecordVersion(v, a) \in Seq(FreeStatement)
           /\ Effects(RecordVersion(v, a)) = IF v \in a THEN {} ELSE {Record(v)}
           /\ RecordsLast(RecordVersion(v, a))
<1>1. CASE v \in a
  <2>1. <<>> \in Seq(FreeStatement) /\ Len(<<>>) = 0 /\ DOMAIN <<>> = {}
    OBVIOUS
  <2>2. RecordVersion(v, a) = <<>>
    BY <1>1 DEF RecordVersion
  <2> QED  BY <1>1, <2>1, <2>2 DEF Effects, RecordsLast
<1>2. CASE v \notin a
  <2>1. RecordVersion(v, a) = <<Dml(Record(v))>> /\ Len(<<Dml(Record(v))>>) = 1
    BY <1>2 DEF RecordVersion
  <2>2. RecordsLast(RecordVersion(v, a))
    BY <2>1 DEF RecordsLast
  <2> QED  BY <1>2, <2>1, <2>2, FreeMembers, DdlOne
<1> QED  BY <1>1, <1>2
LEMMA SkippedAre ==
    /\ \A x : ~SkippedBy(Make(x)) /\ ~SkippedBy(Drop(x))
    /\ \A x, y : /\ ~SkippedBy(Create(x, y)) /\ ~SkippedBy(Reshape(x, y))
                 /\ ~SkippedBy(Copy(x, y)) /\ ~SkippedBy(Rename(x, y))
    /\ \A v : SkippedBy(Record(v)) <=> v \in {3, 4, 10}
    /\ ~SkippedBy(Nothing)
BY DEF SkippedBy, Record, Make, Nothing, Create, Reshape, Drop, Copy, Rename

\* A program of free statements with the effects E, none of them skipped for a
\* recorded version; and one that records version v at its end.
FreeProgram(p, E) == p \in Seq(FreeStatement) /\ Effects(p) = E /\ \A e \in E : ~SkippedBy(e)

Recording(p, E, v, a) ==
    /\ p \in Seq(FreeStatement) /\ RecordsLast(p)
    /\ Effects(p) = E \cup IF v \in a THEN {} ELSE {Record(v)}

LEMMA FreePrograms ==
    ASSUME NEW s, NEW t, NEW E, NEW F, FreeProgram(s, E), FreeProgram(t, F)
    PROVE  FreeProgram(s \o t, E \cup F)
BY FreeConcat DEF FreeProgram

LEMMA RecordingPrograms ==
    ASSUME NEW s, NEW E, NEW a, NEW v \in Versions, FreeProgram(s, E)
    PROVE  Recording(s \o RecordVersion(v, a), E, v, a)
<1>1. s \in Seq(FreeStatement) /\ Effects(s) = E /\ \A e \in E : ~SkippedBy(e)
  BY DEF FreeProgram
<1>2. RecordVersion(v, a) \in Seq(FreeStatement) /\ RecordsLast(RecordVersion(v, a))
      /\ Effects(RecordVersion(v, a)) = IF v \in a THEN {} ELSE {Record(v)}
  BY RecordVersionOf
<1>3. s \in Seq(Statement) /\ RecordVersion(v, a) \in Seq(Statement)
  BY <1>1, <1>2 DEF FreeStatement
<1>4. RecordsLast(s \o RecordVersion(v, a))
  BY <1>1, <1>2, <1>3, ConcatRecords
<1> QED  BY <1>1, <1>2, <1>4, FreeConcat DEF Recording

\* The functions of which the parts are put together.
LEMMA Pieces ==
    /\ FreeProgram(AddReservationColumns, {Make("reservation_columns"), Make("reservation_times")})
    /\ FreeProgram(AddEventColumns, {Make("event_columns")})
    /\ FreeProgram(CreatePhase3Tables, {Nothing, Make("queue_tables")})
    /\ FreeProgram(CreatePhase3IndexesAndTriggers,
                   {Nothing, Create("idempotency", "global"), Make("reservation_triggers")})
    /\ FreeProgram(CreateCatalogTables, {Nothing, Make("catalog_tables")})
    /\ FreeProgram(CreateCatalogIndexes, {Nothing, Make("catalog_indexes")})
    /\ FreeProgram(CreatePhase4Tables, {Nothing, Make("phase4_tables")})
    /\ FreeProgram(CreatePhase4Indexes,
                   {Nothing, Create("idempotency", "global"), Make("phase4_indexes")})
    /\ FreeProgram(CreatePhase5AgentTables, {Nothing, Make("agent_tables")})
    /\ FreeProgram(CreatePhase5AgentIndexes, {Nothing, Make("agent_indexes")})
    /\ FreeProgram(CreatePhase5DistributedTables, {Nothing, Make("distributed_tables")})
    /\ FreeProgram(CreatePhase5DistributedIndexes, {Nothing, Make("distributed_indexes")})
    /\ FreeProgram(AddDistributedOperationResultColumn, {Make("result_column")})
    /\ FreeProgram(CreatePhase6IdentityTables,
                   {Nothing, Make("identity_tables"), Create("snapshots", "ci")})
    /\ FreeProgram(SeedDefaultOrganisation, {Make("default_organisation")})
    /\ FreeProgram(AddPhase6CentralColumns, {Make("organisation_columns")})
    /\ FreeProgram(CreatePhase6Indexes, {Nothing, Make("phase6_indexes")})
    /\ FreeProgram(UpgradePhase11ReservationQueue, {Make("queue_columns"), Make("queue_order")})
    /\ FreeProgram(CreateQueueTransitionTrigger, {Nothing, Make("queue_trigger")})
    /\ FreeProgram(UpgradePhase12ArtifactRetention, {Make("retention_columns")})
    /\ FreeProgram(CreateDecisionTables, {Nothing, Make("decision_tables")})
    /\ FreeProgram(Script(<<Create("steps", "tenant")>>), {Nothing, Create("steps", "tenant")})
    /\ FreeProgram(<<Ddl(Make("cancel_columns"))>>, {Make("cancel_columns")})
    /\ FreeProgram(<<Ddl(Reshape("snapshots", "ci"))>>, {Reshape("snapshots", "ci")})
    /\ FreeProgram(<<Ddl(Reshape("steps", "tenant"))>>, {Reshape("steps", "tenant")})
    /\ FreeProgram(<<Commit>>, {Nothing})
    /\ FreeProgram(<<>>, {})
<1>1. ASSUME NEW o \in Object
      PROVE  /\ FreeProgram(Script(<<Make(o)>>), {Nothing, Make(o)})
             /\ FreeProgram(<<Ddl(Make(o))>>, {Make(o)}) /\ FreeProgram(<<Dml(Make(o))>>, {Make(o)})
  BY FreeMembers, ScriptOne, DdlOne, SkippedAre DEF FreeProgram
<1>2. ASSUME NEW o \in Object
      PROVE  FreeProgram(Script(<<Create("idempotency", "global"), Make(o)>>),
                         {Nothing, Create("idempotency", "global"), Make(o)})
  BY FreeMembers, ScriptTwo, SkippedAre DEF FreeProgram
<1>3. ASSUME NEW o \in Object
      PROVE  FreeProgram(Script(<<Make(o), Create("snapshots", "ci")>>),
                         {Nothing, Make(o), Create("snapshots", "ci")})
  BY FreeMembers, ScriptTwo, SkippedAre DEF FreeProgram
<1>4. ASSUME NEW o \in Object, NEW u \in Object
      PROVE  FreeProgram(<<Ddl(Make(o)), Dml(Make(u))>>, {Make(o), Make(u)})
  BY FreeMembers, DdlTwo, SkippedAre DEF FreeProgram
<1>5. /\ FreeProgram(Script(<<Create("steps", "tenant")>>), {Nothing, Create("steps", "tenant")})
      /\ FreeProgram(<<Ddl(Reshape("snapshots", "ci"))>>, {Reshape("snapshots", "ci")})
      /\ FreeProgram(<<Ddl(Reshape("steps", "tenant"))>>, {Reshape("steps", "tenant")})
  <2>1. ASSUME NEW e \in FreeEffect, ~SkippedBy(e)
        PROVE  FreeProgram(Script(<<e>>), {Nothing, e}) /\ FreeProgram(<<Ddl(e)>>, {e})
    BY <2>1, ScriptOne, DdlOne, SkippedAre DEF FreeProgram
  <2> QED  BY <2>1, FreeMembers, SkippedAre
<1>6. FreeProgram(<<Commit>>, {Nothing})
  BY CommitIsFree, One, SkippedAre DEF FreeProgram, Effects, Commit
<1>7. FreeProgram(<<>>, {})
  <2>1. <<>> \in Seq(FreeStatement) /\ DOMAIN <<>> = {}
    OBVIOUS
  <2> QED  BY <2>1 DEF FreeProgram, Effects
<1>8. {"reservation_columns", "reservation_times", "event_columns", "queue_tables",
           "reservation_triggers", "catalog_tables", "catalog_indexes", "phase4_tables",
           "phase4_indexes", "agent_tables", "agent_indexes", "distributed_tables",
           "distributed_indexes", "result_column", "identity_tables", "default_organisation",
           "organisation_columns", "cancel_columns", "phase6_indexes", "queue_columns",
           "queue_order", "queue_trigger", "retention_columns", "decision_tables"} \subseteq Object
  BY DEF Object
<1>9. /\ FreeProgram(CreatePhase3Tables, {Nothing, Make("queue_tables")})
      /\ FreeProgram(CreateCatalogTables, {Nothing, Make("catalog_tables")})
      /\ FreeProgram(CreateCatalogIndexes, {Nothing, Make("catalog_indexes")})
      /\ FreeProgram(CreatePhase4Tables, {Nothing, Make("phase4_tables")})
      /\ FreeProgram(CreatePhase5AgentTables, {Nothing, Make("agent_tables")})
      /\ FreeProgram(CreatePhase5AgentIndexes, {Nothing, Make("agent_indexes")})
      /\ FreeProgram(CreatePhase5DistributedTables, {Nothing, Make("distributed_tables")})
      /\ FreeProgram(CreatePhase5DistributedIndexes, {Nothing, Make("distributed_indexes")})
      /\ FreeProgram(CreatePhase6Indexes, {Nothing, Make("phase6_indexes")})
      /\ FreeProgram(CreateQueueTransitionTrigger, {Nothing, Make("queue_trigger")})
      /\ FreeProgram(CreateDecisionTables, {Nothing, Make("decision_tables")})
  BY <1>1, <1>8
     DEF CreatePhase3Tables, CreateCatalogTables, CreateCatalogIndexes, CreatePhase4Tables,
         CreatePhase5AgentTables, CreatePhase5AgentIndexes, CreatePhase5DistributedTables,
         CreatePhase5DistributedIndexes, CreatePhase6Indexes, CreateQueueTransitionTrigger,
         CreateDecisionTables
<1>10. /\ FreeProgram(CreatePhase3IndexesAndTriggers,
                      {Nothing, Create("idempotency", "global"), Make("reservation_triggers")})
       /\ FreeProgram(CreatePhase4Indexes,
                      {Nothing, Create("idempotency", "global"), Make("phase4_indexes")})
  BY <1>2, <1>8 DEF CreatePhase3IndexesAndTriggers, CreatePhase4Indexes
<1>11. FreeProgram(CreatePhase6IdentityTables,
                   {Nothing, Make("identity_tables"), Create("snapshots", "ci")})
  BY <1>3, <1>8 DEF CreatePhase6IdentityTables
<1>12. /\ FreeProgram(AddReservationColumns,
                      {Make("reservation_columns"), Make("reservation_times")})
       /\ FreeProgram(UpgradePhase11ReservationQueue, {Make("queue_columns"), Make("queue_order")})
  BY <1>4, <1>8 DEF AddReservationColumns, UpgradePhase11ReservationQueue
<1>13. /\ FreeProgram(AddEventColumns, {Make("event_columns")})
       /\ FreeProgram(AddDistributedOperationResultColumn, {Make("result_column")})
       /\ FreeProgram(AddPhase6CentralColumns, {Make("organisation_columns")})
       /\ FreeProgram(UpgradePhase12ArtifactRetention, {Make("retention_columns")})
       /\ FreeProgram(SeedDefaultOrganisation, {Make("default_organisation")})
       /\ FreeProgram(<<Ddl(Make("cancel_columns"))>>, {Make("cancel_columns")})
  BY <1>1, <1>8
     DEF AddEventColumns, AddDistributedOperationResultColumn, AddPhase6CentralColumns,
         UpgradePhase12ArtifactRetention, SeedDefaultOrganisation
<1> QED  BY <1>5, <1>6, <1>7, <1>9, <1>10, <1>11, <1>12, <1>13
\* A rebuild of a table is whole, by itself or in a transaction of its own.
LEMMA BoundMembers ==
    ASSUME NEW t \in Temporary
    PROVE  /\ Ddl(Drop(t)) \in Statement /\ Ddl(Create(t, NewShape(t))) \in Statement
           /\ Dml(Copy(Original(t), t)) \in Statement
           /\ Ddl(Drop(Original(t))) \in Statement
           /\ Ddl(Rename(t, Original(t))) \in Statement
           /\ Original(t) \in Rebuilt /\ t \notin Rebuilt
<1>1. Original(t) \in Rebuilt /\ t \notin Rebuilt
  BY DEF Original, Rebuilt, Temporary
<1>2. /\ Drop(t) \in BoundEffect /\ Create(t, NewShape(t)) \in BoundEffect
      /\ Copy(Original(t), t) \in BoundEffect /\ Drop(Original(t)) \in BoundEffect
      /\ Rename(t, Original(t)) \in BoundEffect
  BY <1>1 DEF BoundEffect
<1>3. /\ Drop(t).op = "drop" /\ Create(t, NewShape(t)).op = "create"
      /\ Drop(Original(t)).op = "drop" /\ Rename(t, Original(t)).op = "rename"
  BY DEF Drop, Create, Rename
<1> QED  BY <1>1, <1>2, <1>3 DEF Statement, Ddl, Dml

LEMMA BoundLeads ==
    ASSUME NEW t \in Temporary
    PROVE  /\ Begins(Drop(t)) /\ Begins(Nothing) /\ Begins(Drop("idempotency"))
           /\ Leads(Drop(t), Create(t, NewShape(t)))
           /\ Leads(Create(t, NewShape(t)), Copy(Original(t), t))
           /\ Leads(Copy(Original(t), t), Drop(Original(t)))
           /\ Leads(Drop(Original(t)), Rename(t, Original(t)))
           /\ Leads(Drop("idempotency"), Create("idempotency", "tenant"))
           /\ \A x : /\ Drop(x).op = "drop" /\ Drop(x).what = x
                     /\ Drop(x) = Drop("idempotency") => x = "idempotency"
           /\ \A x, y : /\ Create(x, y).op = "create"
                        /\ Rename(x, y).op = "rename"
                        /\ Copy(x, y).op = "copy" /\ Copy(x, y).what = x /\ Copy(x, y).to = y
           /\ Nothing.op = "nothing"
           /\ t # "idempotency" /\ Original(t) # "idempotency"
BY DEF Begins, Leads, Drop, Create, Copy, Rename, Nothing, Temporary, Rebuilt, Original

Rebuild(t) ==
    <<Ddl(Drop(t)), Ddl(Create(t, NewShape(t))), Dml(Copy(Original(t), t)),
      Ddl(Drop(Original(t))), Ddl(Rename(t, Original(t)))>>

LEMMA RebuildWhole ==
    ASSUME NEW t \in Temporary
    PROVE  /\ Whole(Rebuild(t))
           /\ Effects(Rebuild(t)) = {Drop(t), Create(t, NewShape(t)), Copy(Original(t), t),
                                     Drop(Original(t)), Rename(t, Original(t))}
<1> DEFINE p == Rebuild(t)
<1>1. /\ p \in Seq(Statement) /\ Len(p) = 5 /\ DOMAIN p = {1, 2, 3, 4, 5}
      /\ p[1].effect = Drop(t) /\ p[2].effect = Create(t, NewShape(t))
      /\ p[3].effect = Copy(Original(t), t) /\ p[4].effect = Drop(Original(t))
      /\ p[5].effect = Rename(t, Original(t))
  <2>1. p \in Seq(Statement) /\ Len(p) = 5 /\ DOMAIN p = {1, 2, 3, 4, 5}
    BY BoundMembers DEF Rebuild
  <2> QED  BY <2>1 DEF Rebuild, Ddl, Dml
<1> HIDE DEF p
<1>2. Effects(p) = {p[1].effect, p[2].effect, p[3].effect, p[4].effect, p[5].effect}
  BY <1>1 DEF Effects
<1>3. \A i \in 2 .. Len(p) : Leads(p[i - 1].effect, p[i].effect)
  <2>1. ASSUME NEW i \in 2 .. 5 PROVE Leads(p[i - 1].effect, p[i].effect)
    <3>1. i = 2 \/ i = 3 \/ i = 4 \/ i = 5
      OBVIOUS
    <3> QED  BY <3>1, <1>1, BoundLeads
  <2> QED  BY <2>1, <1>1
<1>4. \A i \in 1 .. Len(p) :
        /\ p[i].effect.op = "copy" =>
            /\ i + 2 <= Len(p)
            /\ p[i + 1].effect = Drop(p[i].effect.what)
            /\ p[i + 2].effect = Rename(p[i].effect.to, p[i].effect.what)
        /\ p[i].effect = Drop("idempotency") =>
            i + 1 <= Len(p) /\ p[i + 1].effect = Create("idempotency", "tenant")
  <2>1. ASSUME NEW i \in 1 .. 5
        PROVE  /\ p[i].effect.op = "copy" => i = 3
               /\ p[i].effect # Drop("idempotency")
    <3>1. i = 1 \/ i = 2 \/ i = 3 \/ i = 4 \/ i = 5
      OBVIOUS
    <3> QED  BY <3>1, <1>1, BoundLeads
  <2>2. p[3].effect.what = Original(t) /\ p[3].effect.to = t
    BY <1>1, BoundLeads
  <2> QED  BY <2>1, <2>2, <1>1
<1>5. Whole(p)
  BY <1>1, <1>3, <1>4, BoundLeads DEF Whole, Ordered
<1> QED  BY <1>1, <1>2, <1>5 DEF p
LEMMA Phase10Whole ==
    /\ Whole(RebuildPhase10Tables)
    /\ Effects(RebuildPhase10Tables) =
          {Nothing, Drop("steps_phase10"), Create("steps_phase10", "tenant"),
           Copy("steps", "steps_phase10"), Drop("steps"), Rename("steps_phase10", "steps")}
<1> DEFINE t == "steps_phase10"
           r == Rebuild(t)
           u == RebuildPhase10Tables
           b == <<Commit, Begin>>
           c == <<Commit>>
<1>1. t \in Temporary /\ NewShape(t) = "tenant" /\ Original(t) = "steps"
  BY DEF Temporary, NewShape, Original
<1>2. /\ Whole(r)
      /\ Effects(r) = {Drop(t), Create(t, "tenant"), Copy("steps", t), Drop("steps"),
                       Rename(t, "steps")}
  BY <1>1, RebuildWhole
<1>3. /\ r \in Seq(Statement) /\ Len(r) = 5
      /\ r[1] = Ddl(Drop(t)) /\ r[2] = Ddl(Create(t, "tenant")) /\ r[3] = Dml(Copy("steps", t))
      /\ r[4] = Ddl(Drop("steps")) /\ r[5] = Ddl(Rename(t, "steps"))
  <2>1. r \in Seq(Statement)
    BY <1>2 DEF Whole, Ordered
  <2> QED  BY <2>1, <1>1 DEF Rebuild
<1>4. /\ b \in Seq(FreeStatement) /\ Len(b) = 2 /\ b[1] = Commit /\ b[2] = Begin
      /\ c \in Seq(FreeStatement) /\ Len(c) = 1 /\ c[1] = Commit
      /\ Effects(b) = {Nothing} /\ Effects(c) = {Nothing}
  BY CommitIsFree, One, Two DEF Effects, Commit, Begin
<1>5. b \in Seq(Statement) /\ c \in Seq(Statement)
  BY <1>4 DEF FreeStatement
<1> DEFINE v1 == b \o r
           v == v1 \o c
<1>6. /\ u \in Seq(Statement) /\ Len(u) = 8
      /\ u[1] = Commit /\ u[2] = Begin /\ u[3] = r[1] /\ u[4] = r[2] /\ u[5] = r[3]
      /\ u[6] = r[4] /\ u[7] = r[5] /\ u[8] = Commit
  <2>1. /\ Commit \in Statement /\ Begin \in Statement
        /\ r[1] \in Statement /\ r[2] \in Statement /\ r[3] \in Statement /\ r[4] \in Statement
        /\ r[5] \in Statement
    BY <1>3, CommitIsFree DEF FreeStatement
  <2>2. u = <<Commit, Begin, r[1], r[2], r[3], r[4], r[5], Commit>>
    BY <1>3 DEF RebuildPhase10Tables
  <2> HIDE DEF u, r
  <2> QED  BY <2>1, <2>2
<1> HIDE DEF u, r, b, c, t
<1>7. /\ v1 \in Seq(Statement) /\ Len(v1) = 7 /\ v1[1] = Commit /\ v1[2] = Begin
      /\ v1[3] = r[1] /\ v1[4] = r[2] /\ v1[5] = r[3] /\ v1[6] = r[4] /\ v1[7] = r[5]
      /\ Effects(v1) = Effects(b) \cup Effects(r)
  <2>1. /\ v1 \in Seq(Statement) /\ Len(v1) = 2 + 5
        /\ \A i \in 1 .. 2 : v1[i] = b[i]
        /\ \A i \in 1 .. 5 : v1[2 + i] = r[i]
    <3>1. /\ v1 \in Seq(Statement) /\ Len(v1) = Len(b) + Len(r)
          /\ \A i \in 1 .. Len(b) : v1[i] = b[i]
          /\ \A i \in 1 .. Len(r) : v1[Len(b) + i] = r[i]
      <4>1. b \in Seq(Statement) /\ r \in Seq(Statement)
        BY <1>3, <1>5
      <4> QED  BY <4>1, ConcatElements
    <3> HIDE DEF v1
    <3> QED  BY <3>1, <1>3, <1>4
  <2>2. v1[2 + 1] = r[1] /\ v1[2 + 2] = r[2] /\ v1[2 + 3] = r[3] /\ v1[2 + 4] = r[4]
        /\ v1[2 + 5] = r[5]
    <3>1. 1 \in 1 .. 5 /\ 2 \in 1 .. 5 /\ 3 \in 1 .. 5 /\ 4 \in 1 .. 5 /\ 5 \in 1 .. 5
      OBVIOUS
    <3>2. \A i \in 1 .. 5 : v1[2 + i] = r[i]
      BY <2>1
    <3> HIDE DEF v1
    <3> QED  BY ONLY <3>1, <3>2
  <2>3. Effects(v1) = Effects(b) \cup Effects(r)
    BY <1>3, <1>5, ConcatEffects
  <2> HIDE DEF v1
  <2> QED  BY <2>1, <2>2, <2>3, <1>4
<1>8. /\ v \in Seq(Statement) /\ Len(v) = 8 /\ \A i \in 1 .. 7 : v[i] = v1[i]
      /\ v[8] = Commit
      /\ Effects(v) = Effects(v1) \cup Effects(c)
  <2> HIDE DEF v1
  <2>1. /\ v \in Seq(Statement) /\ Len(v) = 7 + 1
        /\ \A i \in 1 .. 7 : v[i] = v1[i]
        /\ \A i \in 1 .. 1 : v[7 + i] = c[i]
    <3>1. /\ v \in Seq(Statement) /\ Len(v) = Len(v1) + Len(c)
          /\ \A i \in 1 .. Len(v1) : v[i] = v1[i]
          /\ \A i \in 1 .. Len(c) : v[Len(v1) + i] = c[i]
      <4>1. v1 \in Seq(Statement) /\ c \in Seq(Statement)
        BY <1>5, <1>7
      <4> QED  BY <4>1, ConcatElements
    <3> HIDE DEF v
    <3> QED  BY <3>1, <1>4, <1>7
  <2>2. v[7 + 1] = c[1]
    BY <2>1
  <2>3. Effects(v) = Effects(v1) \cup Effects(c)
    BY <1>5, <1>7, ConcatEffects
  <2> HIDE DEF v
  <2> QED  BY <2>1, <2>2, <2>3, <1>4
<1>9. Whole(v)
  <2>1. Whole(b) /\ Whole(c)
    BY <1>4, FreeWhole
  <2>2. Whole(v1)
    BY <2>1, <1>2, ConcatWhole
  <2> QED  BY <2>1, <2>2, ConcatWhole
<1> HIDE DEF v, v1
<1>10. u = v
  <2>1. \A i \in 1 .. 8 : u[i] = v[i]
    <3> SUFFICES ASSUME NEW i \in 1 .. 8 PROVE u[i] = v[i]
      OBVIOUS
    <3>1. i = 1 \/ i = 2 \/ i = 3 \/ i = 4 \/ i = 5 \/ i = 6 \/ i = 7 \/ i = 8
      OBVIOUS
    <3> QED  BY <3>1, <1>6, <1>7, <1>8
  <2> QED  BY <2>1, <1>6, <1>8, SeqEqual
<1>11. Effects(u) = {Nothing, Drop(t), Create(t, "tenant"), Copy("steps", t), Drop("steps"),
                     Rename(t, "steps")}
  BY <1>2, <1>4, <1>7, <1>8, <1>10
<1> QED  BY <1>9, <1>10, <1>11 DEF u, t

LEMMA IndexesWhole ==
    /\ Whole(CreatePhase10ScopedIndexes)
    /\ Effects(CreatePhase10ScopedIndexes)
          = {Nothing, Drop("idempotency"), Create("idempotency", "tenant")}
<1> DEFINE es == <<Drop("idempotency"), Create("idempotency", "tenant")>>
           f == [i \in DOMAIN es |-> Ddl(es[i])]
<1>1. /\ Ddl(Drop("idempotency")) \in Statement
      /\ Ddl(Create("idempotency", "tenant")) \in Statement
  <2>1. Drop("idempotency") \in BoundEffect /\ Create("idempotency", "tenant") \in BoundEffect
    BY DEF BoundEffect
  <2>2. Drop("idempotency").op = "drop" /\ Create("idempotency", "tenant").op = "create"
    BY DEF Drop, Create
  <2> QED  BY <2>1, <2>2 DEF Statement, Ddl
<1>2. DOMAIN es = 1 .. 2 /\ es[1] = Drop("idempotency") /\ es[2] = Create("idempotency", "tenant")
  OBVIOUS
<1>3. /\ f \in Seq(Statement) /\ Len(f) = 2 /\ DOMAIN f = {1, 2}
      /\ f[1].effect = Drop("idempotency") /\ f[2].effect = Create("idempotency", "tenant")
  <2> HIDE DEF es
  <2>1. /\ DOMAIN f = 1 .. 2 /\ f[1] = Ddl(es[1]) /\ f[2] = Ddl(es[2])
        /\ f \in [1 .. 2 -> Statement]
    <3>1. \A i \in 1 .. 2 : Ddl(es[i]) \in Statement
      <4> SUFFICES ASSUME NEW i \in 1 .. 2 PROVE Ddl(es[i]) \in Statement
        OBVIOUS
      <4>1. i = 1 \/ i = 2
        OBVIOUS
      <4> QED  BY <4>1, <1>1, <1>2
    <3> QED  BY <1>2, <3>1
  <2>2. f \in Seq(Statement) /\ Len(f) = 2 /\ DOMAIN f = {1, 2}
    BY <2>1, LenProperties
  <2> HIDE DEF f
  <2> QED  BY <2>1, <2>2, <1>2 DEF Ddl
<1> HIDE DEF f
<1>4. Effects(f) = {Drop("idempotency"), Create("idempotency", "tenant")}
  BY <1>3 DEF Effects
<1>5. Whole(f)
  <2>1. \A i \in 2 .. Len(f) : Leads(f[i - 1].effect, f[i].effect)
    <3>1. ASSUME NEW i \in 2 .. 2 PROVE Leads(f[i - 1].effect, f[i].effect)
      <4>1. i = 2
        OBVIOUS
      <4> QED  BY <4>1, <1>3, BoundLeads DEF Temporary
    <3> QED  BY <3>1, <1>3
  <2>2. \A i \in 1 .. Len(f) :
          /\ f[i].effect.op # "copy"
          /\ f[i].effect = Drop("idempotency") => i = 1
    <3>1. ASSUME NEW i \in 1 .. 2
          PROVE  f[i].effect.op # "copy" /\ (f[i].effect = Drop("idempotency") => i = 1)
      <4>1. i = 1 \/ i = 2
        OBVIOUS
      <4>2. /\ f[1].effect.op = "drop" /\ f[2].effect.op = "create"
            /\ Drop("idempotency").op = "drop"
        BY <1>3 DEF Drop, Create
      <4> QED  BY <4>1, <4>2
    <3> QED  BY <3>1, <1>3
  <2>3. Begins(f[1].effect)
    BY <1>3, BoundLeads DEF Temporary
  <2> QED  BY <2>1, <2>2, <2>3, <1>3 DEF Whole, Ordered
<1>6. <<Commit>> \in Seq(FreeStatement) /\ Effects(<<Commit>>) = {Nothing}
  BY CommitIsFree, One DEF Effects, Commit
<1>7. Whole(<<Commit>> \o f) /\ Effects(<<Commit>> \o f) = Effects(<<Commit>>) \cup Effects(f)
  <2>1. Whole(<<Commit>>)
    BY <1>6, FreeWhole
  <2>2. <<Commit>> \in Seq(Statement) /\ f \in Seq(Statement)
    BY <1>3, <1>6 DEF FreeStatement
  <2> QED  BY <2>1, <2>2, <1>5, ConcatWhole, ConcatEffects
<1>8. CreatePhase10ScopedIndexes = <<Commit>> \o f
  BY DEF CreatePhase10ScopedIndexes, Script, f
<1> QED  BY <1>4, <1>6, <1>7, <1>8
\* What the proof uses of part p of apply_migrations, given the versions a that
\* were read at the start and the database d at the beginning of the part.
PartSound(p, a, d, P) ==
    /\ Whole(P) /\ RecordsLast(P)
    /\ \A o \in Makes[p] : Make(o) \in Effects(P) \/ (p = 2 /\ 3 \in a) \/ (p = 3 /\ 4 \in a)
    /\ \A v \in Records[p] : Record(v) \in Effects(P) \/ v \in a
    /\ Record(3) \in Effects(P) => p = 2
    /\ Record(4) \in Effects(P) => p = 3
    /\ Record(10) \in Effects(P) => p = 11
    /\ Rename("steps_phase4", "steps") \in Effects(P) => p = 4
    /\ \A e \in Effects(P) : Undoes(e) => \/ p = 4 /\ d.shape["steps"] = "phase3"
                                          \/ p = 11 /\ 10 \notin a
    /\ p = 9 => Create("snapshots", "ci") \in Effects(P)
    /\ p = 10 => \/ Reshape("snapshots", "ci") \in Effects(P)
                 \/ d.shape["snapshots"] # "plain"
                 \/ Rename("snapshots_ci_cancel", "snapshots") \in Effects(P)
    /\ p = 11 => \/ 10 \in a
                 \/ /\ \/ Reshape("steps", "tenant") \in Effects(P)
                       \/ Rename("steps_phase10", "steps") \in Effects(P)
                    /\ Create("idempotency", "tenant") \in Effects(P)

LEMMA FreeOfUndoing ==
    ASSUME NEW e \in FreeEffect
    PROVE  ~Undoes(e) /\ e # Rename("steps_phase4", "steps")
BY FreeEffects DEF Undoes, Rename

LEMMA RecordIs ==
    /\ \A v, w : Record(v) = Record(w) => v = w
    /\ \A v : Record(v).op = "record" /\ Record(v).what = v
BY DEF Record

LEMMA FreePart ==
    ASSUME NEW P, NEW E, FreeProgram(P, E)
    PROVE  /\ Whole(P) /\ RecordsLast(P) /\ Effects(P) = E
           /\ Record(3) \notin E /\ Record(4) \notin E /\ Record(10) \notin E
           /\ \A e \in E : ~Undoes(e)
           /\ Rename("steps_phase4", "steps") \notin E
<1>1. P \in Seq(FreeStatement) /\ Effects(P) = E /\ \A e \in E : ~SkippedBy(e)
  BY DEF FreeProgram
<1>2. Whole(P)
  BY <1>1, FreeWhole
<1>3. \A i \in 1 .. Len(P) : P[i].effect \in Effects(P)
  BY <1>1 DEF Effects
<1>4. RecordsLast(P)
  BY <1>1, <1>3 DEF RecordsLast
<1>5. \A e \in E : e \in FreeEffect
  BY <1>1 DEF Effects, FreeStatement
<1>6. (\A e \in E : ~Undoes(e)) /\ Rename("steps_phase4", "steps") \notin E
  BY <1>5, FreeOfUndoing
<1>7. Record(3) \notin E /\ Record(4) \notin E /\ Record(10) \notin E
  <2>1. SkippedBy(Record(3)) /\ SkippedBy(Record(4)) /\ SkippedBy(Record(10))
    BY SkippedAre
  <2> QED  BY <1>1, <2>1
<1> QED  BY <1>1, <1>2, <1>4, <1>6, <1>7

LEMMA RecordingPart ==
    ASSUME NEW P, NEW E, NEW a, NEW v \in Versions, Recording(P, E, v, a),
           \A e \in E : ~SkippedBy(e)
    PROVE  /\ Whole(P) /\ RecordsLast(P) /\ E \subseteq Effects(P)
           /\ Record(v) \in Effects(P) \/ v \in a
           /\ \A w \in {3, 4, 10} : Record(w) \in Effects(P) => v = w
           /\ \A e \in Effects(P) : ~Undoes(e)
           /\ Rename("steps_phase4", "steps") \notin Effects(P)
<1>1. /\ P \in Seq(FreeStatement) /\ RecordsLast(P)
      /\ Effects(P) = E \cup IF v \in a THEN {} ELSE {Record(v)}
  BY DEF Recording
<1>2. Whole(P)
  BY <1>1, FreeWhole
<1>3. \A e \in Effects(P) : e \in FreeEffect
  BY <1>1 DEF Effects, FreeStatement
<1>4. \A w \in {3, 4, 10} : Record(w) \in Effects(P) => v = w
  BY <1>1, SkippedAre, RecordIs
<1>5. (\A e \in Effects(P) : ~Undoes(e)) /\ Rename("steps_phase4", "steps") \notin Effects(P)
  BY <1>3, FreeOfUndoing
<1>6. E \subseteq Effects(P) /\ (Record(v) \in Effects(P) \/ v \in a)
  BY <1>1
<1> QED  BY <1>1, <1>2, <1>4, <1>5, <1>6

\* The parts that neither rebuild nor replace a table.
LEMMA FreePartSound ==
    ASSUME NEW p \in {1, 2, 3, 5, 6, 7, 8, 9, 12, 13}, NEW a, NEW d, NEW P, NEW E, NEW v \in Versions,
           Recording(P, E, v, a) \/ FreeProgram(P, E), \A e \in E : ~SkippedBy(e),
           \A o \in Makes[p] : Make(o) \in E,
           \A w \in Records[p] : Record(w) \in Effects(P) \/ w \in a,
           v = 3 => p = 2, v = 4 => p = 3, v # 10,
           p = 9 => Create("snapshots", "ci") \in E
    PROVE  PartSound(p, a, d, P)
<1>1. CASE Recording(P, E, v, a)
  <2>1. /\ Whole(P) /\ RecordsLast(P) /\ E \subseteq Effects(P)
        /\ \A w \in {3, 4, 10} : Record(w) \in Effects(P) => v = w
        /\ \A e \in Effects(P) : ~Undoes(e)
        /\ Rename("steps_phase4", "steps") \notin Effects(P)
    BY <1>1, RecordingPart
  <2>2. /\ Record(3) \in Effects(P) => p = 2
        /\ Record(4) \in Effects(P) => p = 3
        /\ Record(10) \notin Effects(P)
    BY <2>1
  <2>3. \A o \in Makes[p] : Make(o) \in Effects(P)
    BY <2>1
  <2>4. p = 9 => Create("snapshots", "ci") \in Effects(P)
    BY <2>1
  <2>5. p # 10 /\ p # 11
    OBVIOUS
  <2>6. Whole(P) /\ RecordsLast(P)
    BY <2>1
  <2>7. \A o \in Makes[p] : Make(o) \in Effects(P) \/ (p = 2 /\ 3 \in a) \/ (p = 3 /\ 4 \in a)
    BY <2>3
  <2>8. \A w \in Records[p] : Record(w) \in Effects(P) \/ w \in a
    OBVIOUS
  <2>9. /\ Record(3) \in Effects(P) => p = 2
        /\ Record(4) \in Effects(P) => p = 3
        /\ Record(10) \in Effects(P) => p = 11
        /\ Rename("steps_phase4", "steps") \in Effects(P) => p = 4
    BY <2>1, <2>2
  <2>10. \A e \in Effects(P) : Undoes(e) => \/ p = 4 /\ d.shape["steps"] = "phase3"
                                            \/ p = 11 /\ 10 \notin a
    BY <2>1
  <2>11. p = 9 => Create("snapshots", "ci") \in Effects(P)
    BY <2>1
  <2> QED  BY <2>5, <2>6, <2>7, <2>8, <2>9, <2>10, <2>11 DEF PartSound
<1>2. CASE FreeProgram(P, E)
  <2>1. /\ Whole(P) /\ RecordsLast(P) /\ Effects(P) = E
        /\ Record(3) \notin E /\ Record(4) \notin E /\ Record(10) \notin E
        /\ \A e \in E : ~Undoes(e)
        /\ Rename("steps_phase4", "steps") \notin E
    BY <1>2, FreePart
  <2>5. p # 10 /\ p # 11
    OBVIOUS
  <2>6. Whole(P) /\ RecordsLast(P)
    BY <2>1
  <2>7. \A o \in Makes[p] : Make(o) \in Effects(P) \/ (p = 2 /\ 3 \in a) \/ (p = 3 /\ 4 \in a)
    BY <2>1
  <2>8. \A w \in Records[p] : Record(w) \in Effects(P) \/ w \in a
    OBVIOUS
  <2>9. /\ Record(3) \in Effects(P) => p = 2
        /\ Record(4) \in Effects(P) => p = 3
        /\ Record(10) \in Effects(P) => p = 11
        /\ Rename("steps_phase4", "steps") \in Effects(P) => p = 4
    BY <2>1
  <2>10. \A e \in Effects(P) : Undoes(e) => \/ p = 4 /\ d.shape["steps"] = "phase3"
                                            \/ p = 11 /\ 10 \notin a
    BY <2>1
  <2>11. p = 9 => Create("snapshots", "ci") \in Effects(P)
    BY <2>1
  <2> QED  BY <2>5, <2>6, <2>7, <2>8, <2>9, <2>10, <2>11 DEF PartSound
<1> QED  BY <1>1, <1>2
LEMMA MakesAre ==
    /\ Makes[1] = {} /\ Makes[4] = {} /\ Makes[11] = {}
    /\ Makes[2] = {"reservation_columns", "reservation_times", "event_columns", "queue_tables",
                   "reservation_triggers"}
    /\ Makes[3] = {"catalog_tables", "catalog_indexes"}
    /\ Makes[5] = {"phase4_tables", "phase4_indexes"}
    /\ Makes[6] = {"agent_tables", "agent_indexes"}
    /\ Makes[7] = {"distributed_tables", "distributed_indexes"}
    /\ Makes[8] = {"result_column"}
    /\ Makes[9] = {"identity_tables", "default_organisation", "organisation_columns"}
    /\ Makes[10] = {"cancel_columns", "phase6_indexes"}
    /\ Makes[12] = {"queue_columns", "queue_order", "queue_trigger"}
    /\ Makes[13] = {"retention_columns", "decision_tables"}
BY DEF Makes

LEMMA RecordsAre ==
    /\ Records[1] = {2} /\ Records[2] = {3} /\ Records[3] = {4} /\ Records[4] = {}
    /\ Records[5] = {5} /\ Records[6] = {6} /\ Records[7] = {7} /\ Records[8] = {8}
    /\ Records[9] = {} /\ Records[10] = {9} /\ Records[11] = {10} /\ Records[12] = {11}
    /\ Records[13] = {12}
BY DEF Records

LEMMA PartsAre ==
    ASSUME NEW a, NEW d
    PROVE  LET M == ApplyMigrations(a, d)
           IN  /\ Len(M) = 13
               /\ M[1] = <<Dml(IF 2 \in a THEN Nothing ELSE Record(2))>>
               /\ M[2] = IF 3 \in a THEN <<>>
                         ELSE AddReservationColumns \o AddEventColumns \o CreatePhase3Tables
                                \o CreatePhase3IndexesAndTriggers \o RecordVersion(3, a)
               /\ M[3] = IF 4 \in a THEN <<>>
                         ELSE CreateCatalogTables \o CreateCatalogIndexes \o RecordVersion(4, a)
               /\ M[4] = EnsureWorkflowSchema(d)
               /\ M[5] = CreatePhase4Tables \o CreatePhase4Indexes \o RecordVersion(5, a)
               /\ M[6] = CreatePhase5AgentTables \o CreatePhase5AgentIndexes \o RecordVersion(6, a)
               /\ M[7] = CreatePhase5DistributedTables \o CreatePhase5DistributedIndexes
                            \o RecordVersion(7, a)
               /\ M[8] = AddDistributedOperationResultColumn \o RecordVersion(8, a)
               /\ M[9] = CreatePhase6IdentityTables \o SeedDefaultOrganisation
                            \o AddPhase6CentralColumns
               /\ M[10] = EnsureCiCancellationEvidenceSchema(d) \o CreatePhase6Indexes
                             \o RecordVersion(9, a)
               /\ M[11] = IF 10 \in a THEN <<>> ELSE UpgradePhase10TenantStorage
               /\ M[12] = UpgradePhase11ReservationQueue \o RecordVersion(11, a)
                             \o CreateQueueTransitionTrigger
               /\ M[13] = UpgradePhase12ArtifactRetention \o RecordVersion(12, a)
                             \o CreateDecisionTables
BY DEF ApplyMigrations

LEMMA PartCount == Parts = 13
BY PartsAre DEF Parts

LEMMA VersionMembers == {2, 3, 4, 5, 6, 7, 8, 9, 10, 11, 12} = Versions
BY DEF Versions, SCHEMA_VERSION

\* Parts 12 and 13 record their version before their last object; nothing is
\* skipped for these versions.
LEMMA RecordingFree ==
    ASSUME NEW v \in Versions \ {3, 4, 10}, NEW a
    PROVE  FreeProgram(RecordVersion(v, a), IF v \in a THEN {} ELSE {Record(v)})
BY RecordVersionOf, SkippedAre DEF FreeProgram

LEMMA EarlyParts ==
    ASSUME NEW a, NEW d, NEW p \in {1, 2, 3}
    PROVE  PartSound(p, a, d, ApplyMigrations(a, d)[p])
<1> DEFINE M == ApplyMigrations(a, d)
<1>1. CASE p = 1
  <2> DEFINE e == IF 2 \in a THEN Nothing ELSE Record(2)
  <2>1. e \in FreeEffect /\ ~SkippedBy(e)
    BY FreeMembers, VersionMembers, SkippedAre
  <2>2. FreeProgram(<<Dml(e)>>, {e})
    BY <2>1, DdlOne DEF FreeProgram
  <2>3. M[1] = <<Dml(e)>>
    BY PartsAre
  <2>4. Effects(M[1]) = {e}
    BY <2>2, <2>3 DEF FreeProgram
  <2>5. \A w \in Records[1] : Record(w) \in Effects(M[1]) \/ w \in a
    BY <2>4, RecordsAre
  <2>6. FreeProgram(M[1], {e}) /\ \A f \in {e} : ~SkippedBy(f)
    BY <2>1, <2>2, <2>3
  <2>7. \A o \in Makes[1] : Make(o) \in {e}
    BY MakesAre
  <2> HIDE DEF M, e
  <2>8. PartSound(1, a, d, M[1])
    <3>1. 2 \in Versions
      BY VersionMembers
    <3> QED  BY <2>5, <2>6, <2>7, <3>1, FreePartSound
  <2> QED  BY <1>1, <2>8 DEF M
<1>2. CASE p = 2
  <2>1. CASE 3 \in a
    <3>1. M[2] = <<>>
      BY <2>1, PartsAre
    <3>2. FreeProgram(M[2], {})
      BY <3>1, Pieces
    <3> HIDE DEF M
    <3>3. PartSound(2, a, d, M[2])
      BY <2>1, <3>2, FreePart, RecordsAre DEF PartSound, FreeProgram
    <3> QED  BY <1>2, <3>3 DEF M
  <2>2. CASE 3 \notin a
    <3> DEFINE E == {Make("reservation_columns"), Make("reservation_times")}
                      \cup {Make("event_columns")} \cup {Nothing, Make("queue_tables")}
                      \cup {Nothing, Create("idempotency", "global"), Make("reservation_triggers")}
               q == AddReservationColumns \o AddEventColumns \o CreatePhase3Tables
                        \o CreatePhase3IndexesAndTriggers
    <3>1. FreeProgram(q, E)
      <4>1. FreeProgram(AddReservationColumns \o AddEventColumns,
                        {Make("reservation_columns"), Make("reservation_times")}
                            \cup {Make("event_columns")})
        BY Pieces, FreePrograms
      <4>2. FreeProgram(AddReservationColumns \o AddEventColumns \o CreatePhase3Tables,
                        {Make("reservation_columns"), Make("reservation_times")}
                            \cup {Make("event_columns")} \cup {Nothing, Make("queue_tables")})
        BY <4>1, Pieces, FreePrograms
      <4> QED  BY <4>2, Pieces, FreePrograms
    <3>2. \A e \in E : ~SkippedBy(e)
      BY <3>1 DEF FreeProgram
    <3>3. \A o \in Makes[2] : Make(o) \in E
      BY MakesAre
    <3>4. M[2] = q \o RecordVersion(3, a)
      BY <2>2, PartsAre
    <3> HIDE DEF E, q, M
    <3>5. Recording(M[2], E, 3, a) /\ 3 \in Versions
      BY <3>1, <3>4, RecordingPrograms, VersionMembers
    <3>6. \A w \in Records[2] : Record(w) \in Effects(M[2]) \/ w \in a
      BY <3>5, RecordsAre DEF Recording
    <3>7. PartSound(2, a, d, M[2])
      BY <3>2, <3>3, <3>5, <3>6, FreePartSound
    <3> QED  BY <1>2, <3>7 DEF M
  <2> QED  BY <2>1, <2>2
<1>3. CASE p = 3
  <2>1. CASE 4 \in a
    <3>1. M[3] = <<>>
      BY <2>1, PartsAre
    <3>2. FreeProgram(M[3], {})
      BY <3>1, Pieces
    <3> HIDE DEF M
    <3>3. PartSound(3, a, d, M[3])
      BY <2>1, <3>2, FreePart, RecordsAre DEF PartSound, FreeProgram
    <3> QED  BY <1>3, <3>3 DEF M
  <2>2. CASE 4 \notin a
    <3> DEFINE E == {Nothing, Make("catalog_tables")} \cup {Nothing, Make("catalog_indexes")}
               q == CreateCatalogTables \o CreateCatalogIndexes
    <3>1. FreeProgram(q, E)
      BY Pieces, FreePrograms
    <3>2. \A e \in E : ~SkippedBy(e)
      BY <3>1 DEF FreeProgram
    <3>3. \A o \in Makes[3] : Make(o) \in E
      BY MakesAre
    <3>4. M[3] = q \o RecordVersion(4, a)
      BY <2>2, PartsAre
    <3> HIDE DEF E, q, M
    <3>5. Recording(M[3], E, 4, a) /\ 4 \in Versions
      BY <3>1, <3>4, RecordingPrograms, VersionMembers
    <3>6. \A w \in Records[3] : Record(w) \in Effects(M[3]) \/ w \in a
      BY <3>5, RecordsAre DEF Recording
    <3>7. PartSound(3, a, d, M[3])
      BY <3>2, <3>3, <3>5, <3>6, FreePartSound
    <3> QED  BY <1>3, <3>7 DEF M
  <2> QED  BY <2>1, <2>2
<1> QED  BY <1>1, <1>2, <1>3
\* Parts 5 to 8 end with the record of their version.
LEMMA MiddleParts ==
    ASSUME NEW a, NEW d, NEW p \in {5, 6, 7, 8}
    PROVE  PartSound(p, a, d, ApplyMigrations(a, d)[p])
<1> DEFINE M == ApplyMigrations(a, d)
<1>1. ASSUME NEW q, NEW E, FreeProgram(q, E), M[p] = q \o RecordVersion(p, a),
             \A o \in Makes[p] : Make(o) \in E
      PROVE  PartSound(p, a, d, M[p])
  <2> HIDE DEF M
  <2>1. p \in Versions
    BY VersionMembers
  <2>2. Recording(M[p], E, p, a)
    BY <1>1, <2>1, RecordingPrograms
  <2>3. \A e \in E : ~SkippedBy(e)
    BY <1>1 DEF FreeProgram
  <2>4. \A w \in Records[p] : Record(w) \in Effects(M[p]) \/ w \in a
    BY <2>2, RecordsAre DEF Recording
  <2>5. p \in {1, 2, 3, 5, 6, 7, 8, 9, 12, 13} /\ p # 3 /\ p # 4 /\ p # 10 /\ p # 9
    OBVIOUS
  <2> QED  BY <1>1, <2>1, <2>2, <2>3, <2>4, <2>5, FreePartSound
<1>2. CASE p = 5
  <2>1. FreeProgram(CreatePhase4Tables \o CreatePhase4Indexes,
                    {Nothing, Make("phase4_tables")}
                      \cup {Nothing, Create("idempotency", "global"), Make("phase4_indexes")})
    BY Pieces, FreePrograms
  <2>2. M[5] = (CreatePhase4Tables \o CreatePhase4Indexes) \o RecordVersion(5, a)
    BY PartsAre
  <2>3. \A o \in Makes[5] : Make(o) \in {Nothing, Make("phase4_tables")}
               \cup {Nothing, Create("idempotency", "global"), Make("phase4_indexes")}
    BY MakesAre
  <2> HIDE DEF M
  <2> QED  BY <1>2, <2>1, <2>2, <2>3, <1>1 DEF M
<1>3. CASE p = 6
  <2>1. FreeProgram(CreatePhase5AgentTables \o CreatePhase5AgentIndexes,
                    {Nothing, Make("agent_tables")} \cup {Nothing, Make("agent_indexes")})
    BY Pieces, FreePrograms
  <2>2. M[6] = (CreatePhase5AgentTables \o CreatePhase5AgentIndexes) \o RecordVersion(6, a)
    BY PartsAre
  <2>3. \A o \in Makes[6] : Make(o) \in {Nothing, Make("agent_tables")} \cup {Nothing, Make("agent_indexes")}
    BY MakesAre
  <2> HIDE DEF M
  <2> QED  BY <1>3, <2>1, <2>2, <2>3, <1>1 DEF M
<1>4. CASE p = 7
  <2>1. FreeProgram(CreatePhase5DistributedTables \o CreatePhase5DistributedIndexes,
                    {Nothing, Make("distributed_tables")}
                       \cup {Nothing, Make("distributed_indexes")})
    BY Pieces, FreePrograms
  <2>2. M[7] = (CreatePhase5DistributedTables \o CreatePhase5DistributedIndexes)
                  \o RecordVersion(7, a)
    BY PartsAre
  <2>3. \A o \in Makes[7] : Make(o) \in {Nothing, Make("distributed_tables")}
               \cup {Nothing, Make("distributed_indexes")}
    BY MakesAre
  <2> HIDE DEF M
  <2> QED  BY <1>4, <2>1, <2>2, <2>3, <1>1 DEF M
<1>5. CASE p = 8
  <2>1. FreeProgram(AddDistributedOperationResultColumn, {Make("result_column")})
    BY Pieces
  <2>2. M[8] = AddDistributedOperationResultColumn \o RecordVersion(8, a)
    BY PartsAre
  <2>3. \A o \in Makes[8] : Make(o) \in {Make("result_column")}
    BY MakesAre
  <2> HIDE DEF M
  <2> QED  BY <1>5, <2>1, <2>2, <2>3, <1>1 DEF M
<1> QED  BY <1>2, <1>3, <1>4, <1>5

\* Part 9 records nothing; parts 12 and 13 record a version for which nothing is
\* skipped.
LEMMA LateParts ==
    ASSUME NEW a, NEW d, NEW p \in {9, 12, 13}
    PROVE  PartSound(p, a, d, ApplyMigrations(a, d)[p])
<1> DEFINE M == ApplyMigrations(a, d)
<1>1. ASSUME NEW E, FreeProgram(M[p], E), \A o \in Makes[p] : Make(o) \in E,
             \A w \in Records[p] : Record(w) \in E \/ w \in a,
             p = 9 => Create("snapshots", "ci") \in E
      PROVE  PartSound(p, a, d, M[p])
  <2> HIDE DEF M
  <2>1. Effects(M[p]) = E /\ (\A e \in E : ~SkippedBy(e))
    BY <1>1 DEF FreeProgram
  <2>2. 12 \in Versions /\ p \in {1, 2, 3, 5, 6, 7, 8, 9, 12, 13}
    BY VersionMembers
  <2>3. \A w \in Records[p] : Record(w) \in Effects(M[p]) \/ w \in a
    BY <1>1, <2>1
  <2>4. (12 = 3 => p = 2) /\ (12 = 4 => p = 3) /\ 12 # 10
    OBVIOUS
  <2> QED  BY <1>1, <2>1, <2>2, <2>3, <2>4, FreePartSound, ZenonT(40)
<1>2. CASE p = 9
  <2> DEFINE E == ({Nothing, Make("identity_tables"), Create("snapshots", "ci")}
                    \cup {Make("default_organisation")}) \cup {Make("organisation_columns")}
  <2>1. FreeProgram(CreatePhase6IdentityTables \o SeedDefaultOrganisation,
                    {Nothing, Make("identity_tables"), Create("snapshots", "ci")}
                        \cup {Make("default_organisation")})
    BY Pieces, FreePrograms
  <2>2. FreeProgram((CreatePhase6IdentityTables \o SeedDefaultOrganisation)
                       \o AddPhase6CentralColumns, E)
    BY <2>1, Pieces, FreePrograms
  <2>3. M[9] = (CreatePhase6IdentityTables \o SeedDefaultOrganisation)
                   \o AddPhase6CentralColumns
    BY PartsAre, SMTT(40)
  <2>4. /\ \A o \in Makes[9] : Make(o) \in E
        /\ \A w \in Records[9] : Record(w) \in E \/ w \in a
        /\ Create("snapshots", "ci") \in E
    BY MakesAre, RecordsAre
  <2> HIDE DEF M, E
  <2> QED  BY <1>2, <2>2, <2>3, <2>4, <1>1 DEF M
<1>3. CASE p = 12
  <2> DEFINE R == IF 11 \in a THEN {} ELSE {Record(11)}
             E == ({Make("queue_columns"), Make("queue_order")} \cup R)
                    \cup {Nothing, Make("queue_trigger")}
  <2>1. FreeProgram(RecordVersion(11, a), R)
    BY RecordingFree, VersionMembers
  <2>2. FreeProgram(UpgradePhase11ReservationQueue \o RecordVersion(11, a),
                    {Make("queue_columns"), Make("queue_order")} \cup R)
    BY <2>1, Pieces, FreePrograms
  <2>3. FreeProgram((UpgradePhase11ReservationQueue \o RecordVersion(11, a))
                        \o CreateQueueTransitionTrigger, E)
    BY <2>2, Pieces, FreePrograms
  <2>4. M[12] = (UpgradePhase11ReservationQueue \o RecordVersion(11, a))
                    \o CreateQueueTransitionTrigger
    BY PartsAre
  <2>5. /\ \A o \in Makes[12] : Make(o) \in E
        /\ \A w \in Records[12] : Record(w) \in E \/ w \in a
    BY MakesAre, RecordsAre
  <2> HIDE DEF M, E
  <2> QED  BY <1>3, <2>3, <2>4, <2>5, <1>1 DEF M
<1>4. CASE p = 13
  <2> DEFINE R == IF 12 \in a THEN {} ELSE {Record(12)}
             E == ({Make("retention_columns")} \cup R) \cup {Nothing, Make("decision_tables")}
  <2>1. FreeProgram(RecordVersion(12, a), R)
    <3>1. 12 \in Versions \ {3, 4, 10}
      BY VersionMembers
    <3> QED  BY <3>1, RecordingFree
  <2>2. FreeProgram(UpgradePhase12ArtifactRetention \o RecordVersion(12, a),
                    {Make("retention_columns")} \cup R)
    BY <2>1, Pieces, FreePrograms
  <2>3. FreeProgram((UpgradePhase12ArtifactRetention \o RecordVersion(12, a))
                        \o CreateDecisionTables, E)
    BY <2>2, Pieces, FreePrograms
  <2>4. M[13] = (UpgradePhase12ArtifactRetention \o RecordVersion(12, a)) \o CreateDecisionTables
    BY PartsAre
  <2>5. /\ \A o \in Makes[13] : Make(o) \in E
        /\ \A w \in Records[13] : Record(w) \in E \/ w \in a
    BY MakesAre, RecordsAre
  <2> HIDE DEF M, E
  <2> QED  BY <1>4, <2>3, <2>4, <2>5, <1>1 DEF M
<1> QED  BY <1>2, <1>3, <1>4
\* Programs with rebuilds in them.
WholeProgram(p, E) == Whole(p) /\ Effects(p) = E /\ \A e \in E : ~SkippedBy(e)

LEMMA WholePrograms ==
    ASSUME NEW s, NEW t, NEW E, NEW F, WholeProgram(s, E), WholeProgram(t, F)
    PROVE  WholeProgram(s \o t, E \cup F)
<1>1. s \in Seq(Statement) /\ t \in Seq(Statement)
  BY DEF WholeProgram, Whole, Ordered
<1>2. Whole(s \o t)
  BY ConcatWhole DEF WholeProgram
<1> QED  BY <1>1, <1>2, ConcatEffects DEF WholeProgram

LEMMA WholeOfFree ==
    ASSUME NEW s, NEW E, FreeProgram(s, E)
    PROVE  WholeProgram(s, E)
BY FreeWhole DEF FreeProgram, WholeProgram

LEMMA WholeRecords ==
    ASSUME NEW s, NEW E, WholeProgram(s, E)
    PROVE  RecordsLast(s) /\ s \in Seq(Statement)
<1>1. s \in Seq(Statement)
  BY DEF WholeProgram, Whole, Ordered
<1>2. \A i \in 1 .. Len(s) : s[i].effect \in Effects(s)
  BY <1>1 DEF Effects
<1> QED  BY <1>1, <1>2 DEF RecordsLast, WholeProgram

LEMMA RebuildProgram ==
    ASSUME NEW t \in Temporary
    PROVE  WholeProgram(Rebuild(t), {Drop(t), Create(t, NewShape(t)), Copy(Original(t), t),
                                     Drop(Original(t)), Rename(t, Original(t))})
BY RebuildWhole, SkippedAre DEF WholeProgram

LEMMA NotRecords ==
    /\ \A x, v : Record(v) # Make(x) /\ Record(v) # Drop(x)
    /\ \A x, y, v : /\ Record(v) # Create(x, y) /\ Record(v) # Copy(x, y)
                    /\ Record(v) # Rename(x, y) /\ Record(v) # Reshape(x, y)
    /\ \A v : Record(v) # Nothing
    /\ \A x, y, z, w : /\ Rename(x, y) # Create(z, w) /\ Rename(x, y) # Copy(z, w)
                       /\ Rename(x, y) # Drop(z) /\ Rename(x, y) # Make(z)
                       /\ Rename(x, y) # Reshape(z, w) /\ Rename(x, y) # Nothing
                       /\ Rename(x, y) # Record(z)
                       /\ Rename(x, y) = Rename(z, w) => x = z
    /\ \A x : ~Undoes(Make(x)) /\ ~Undoes(Record(x))
    /\ \A x, y : ~Undoes(Create(x, y)) /\ ~Undoes(Copy(x, y)) /\ ~Undoes(Reshape(x, y))
    /\ \A x : Undoes(Drop(x)) => x \in {"steps", "idempotency"}
    /\ \A x, y : Undoes(Rename(x, y)) => y = "steps"
    /\ ~Undoes(Nothing)
<1>1. /\ \A x, v : Record(v) # Make(x) /\ Record(v) # Drop(x)
      /\ \A x, y, v : /\ Record(v) # Create(x, y) /\ Record(v) # Copy(x, y)
                      /\ Record(v) # Rename(x, y) /\ Record(v) # Reshape(x, y)
      /\ \A v : Record(v) # Nothing
  BY DEF Record, Make, Drop, Create, Copy, Rename, Reshape, Nothing
<1>2. \A x, y, z, w : /\ Rename(x, y) # Create(z, w) /\ Rename(x, y) # Copy(z, w)
                      /\ Rename(x, y) # Drop(z) /\ Rename(x, y) # Make(z)
                      /\ Rename(x, y) # Reshape(z, w) /\ Rename(x, y) # Nothing
                      /\ Rename(x, y) # Record(z)
                      /\ Rename(x, y) = Rename(z, w) => x = z
  BY DEF Record, Make, Drop, Create, Copy, Rename, Reshape, Nothing
<1>3. /\ \A x : ~Undoes(Make(x)) /\ ~Undoes(Record(x))
      /\ \A x, y : ~Undoes(Create(x, y)) /\ ~Undoes(Copy(x, y)) /\ ~Undoes(Reshape(x, y))
      /\ \A x : Undoes(Drop(x)) => x \in {"steps", "idempotency"}
      /\ \A x, y : Undoes(Rename(x, y)) => y = "steps"
      /\ ~Undoes(Nothing)
  BY DEF Undoes, Record, Make, Drop, Create, Copy, Rename, Reshape, Nothing
<1> QED  BY <1>1, <1>2, <1>3

LEMMA Part4Sound ==
    ASSUME NEW a, NEW d
    PROVE  PartSound(4, a, d, ApplyMigrations(a, d)[4])
<1> DEFINE P == ApplyMigrations(a, d)[4]
           s == Script(<<Create("steps", "tenant")>>)
           t == "steps_phase4"
           F == {Drop(t), Create(t, "phase4"), Copy("steps", t), Drop("steps"), Rename(t, "steps")}
<1>1. WholeProgram(s, {Nothing, Create("steps", "tenant")})
  BY Pieces, WholeOfFree
<1>2. P = s \o IF StepResultsNeedRebuild(d) THEN RebuildStepResults ELSE <<>>
  <2>1. P = EnsureWorkflowSchema(d)
    BY PartsAre
  <2> QED  BY <2>1 DEF EnsureWorkflowSchema
<1>3. CASE StepResultsNeedRebuild(d)
  <2>1. t \in Temporary /\ NewShape(t) = "phase4" /\ Original(t) = "steps"
    BY DEF Temporary, NewShape, Original
  <2>2. RebuildStepResults = Rebuild(t)
    BY <2>1 DEF RebuildStepResults, Rebuild
  <2>3. WholeProgram(RebuildStepResults, F)
    BY <2>1, <2>2, RebuildProgram
  <2>4. WholeProgram(P, {Nothing, Create("steps", "tenant")} \cup F)
    BY <1>1, <1>2, <1>3, <2>3, WholePrograms
  <2> HIDE DEF P
  <2>5. Whole(P) /\ RecordsLast(P) /\ Effects(P) = {Nothing, Create("steps", "tenant")} \cup F
    BY <2>4, WholeRecords DEF WholeProgram
  <2>6. \A v : Record(v) \notin Effects(P)
    BY <2>5, NotRecords
  <2>7. d.shape["steps"] = "phase3"
    BY <1>3 DEF StepResultsNeedRebuild
  <2>8. PartSound(4, a, d, P)
    BY <2>5, <2>6, <2>7, MakesAre, RecordsAre DEF PartSound
  <2> QED  BY <2>8 DEF P
<1>4. CASE ~StepResultsNeedRebuild(d)
  <2>1. WholeProgram(<<>>, {})
    BY Pieces, WholeOfFree
  <2>2. WholeProgram(P, {Nothing, Create("steps", "tenant")} \cup {})
    BY <1>1, <1>2, <1>4, <2>1, WholePrograms
  <2> HIDE DEF P
  <2>3. Whole(P) /\ RecordsLast(P) /\ Effects(P) = {Nothing, Create("steps", "tenant")}
    BY <2>2, WholeRecords DEF WholeProgram
  <2>4. (\A v : Record(v) \notin Effects(P)) /\ (\A e \in Effects(P) : ~Undoes(e))
    BY <2>3, NotRecords
  <2>5. PartSound(4, a, d, P)
    BY <2>3, <2>4, MakesAre, RecordsAre DEF PartSound
  <2> QED  BY <2>5 DEF P
<1> QED  BY <1>3, <1>4

LEMMA Part11Sound ==
    ASSUME NEW a, NEW d
    PROVE  PartSound(11, a, d, ApplyMigrations(a, d)[11])
<1> DEFINE P == ApplyMigrations(a, d)[11]
           r == IF backend = "sqlite" THEN RebuildPhase10Tables ELSE UpgradePhase10Constraints
           t == "steps_phase10"
           F == IF backend = "sqlite"
                THEN {Nothing, Drop(t), Create(t, "tenant"), Copy("steps", t), Drop("steps"),
                      Rename(t, "steps")}
                ELSE {Reshape("steps", "tenant")}
           G == {Nothing, Drop("idempotency"), Create("idempotency", "tenant")}
           c == <<Dml(Record(10))>>
<1>1. CASE 10 \in a
  <2>1. P = <<>>
    BY <1>1, PartsAre
  <2>2. FreeProgram(P, {})
    BY <2>1, Pieces
  <2> HIDE DEF P
  <2>3. Whole(P) /\ RecordsLast(P) /\ Effects(P) = {}
    BY <2>2, FreePart
  <2>4. PartSound(11, a, d, P)
    BY <1>1, <2>3, MakesAre, RecordsAre DEF PartSound
  <2> QED  BY <2>4 DEF P
<1>2. CASE 10 \notin a
  <2>1. WholeProgram(r, F)
    <3>1. WholeProgram(RebuildPhase10Tables,
                       {Nothing, Drop(t), Create(t, "tenant"), Copy("steps", t), Drop("steps"),
                        Rename(t, "steps")})
      BY Phase10Whole, SkippedAre DEF WholeProgram
    <3>2. WholeProgram(UpgradePhase10Constraints, {Reshape("steps", "tenant")})
      BY Pieces, WholeOfFree DEF UpgradePhase10Constraints
    <3> QED  BY <3>1, <3>2
  <2>2. WholeProgram(CreatePhase10ScopedIndexes, G)
    BY IndexesWhole, SkippedAre DEF WholeProgram
  <2>3. c \in Seq(FreeStatement) /\ Effects(c) = {Record(10)} /\ Len(c) = 1
    BY FreeMembers, VersionMembers, DdlOne, One
  <2>4. P = (r \o CreatePhase10ScopedIndexes) \o c
    <3>1. P = UpgradePhase10TenantStorage
      BY <1>2, PartsAre
    <3> HIDE DEF P
    <3> QED  BY <3>1 DEF UpgradePhase10TenantStorage
  <2>5. /\ Undoes(Record(10)) = FALSE
        /\ Reshape("steps", "tenant") \in F \/ Rename("steps_phase10", "steps") \in F
        /\ Create("idempotency", "tenant") \in G
    BY NotRecords
  <2>6. /\ \A v : Record(v) \notin F \cup G
        /\ Rename("steps_phase4", "steps") \notin F \cup G
    BY NotRecords
  <2> DEFINE q == r \o CreatePhase10ScopedIndexes
  <2> HIDE DEF P, r, F, G, c
  <2>7. WholeProgram(q, F \cup G)
    BY <2>1, <2>2, WholePrograms
  <2>8. q \in Seq(Statement) /\ c \in Seq(Statement) /\ Whole(q) /\ Whole(c)
        /\ Effects(q) = F \cup G /\ \A e \in Effects(q) : ~SkippedBy(e)
    <3>1. q \in Seq(Statement)
      BY <2>7, WholeRecords
    <3>2. c \in Seq(Statement)
      BY <2>3 DEF FreeStatement
    <3>3. Whole(c)
      BY <2>3, FreeWhole
    <3> QED  BY <2>7, <3>1, <3>2, <3>3 DEF WholeProgram
  <2> HIDE DEF q
  <2>9. P = q \o c
    BY <2>4 DEF q
  <2>10. RecordsLast(c)
    BY <2>3 DEF RecordsLast
  <2>11. Whole(P) /\ RecordsLast(P) /\ Effects(P) = F \cup G \cup {Record(10)}
    BY <2>3, <2>8, <2>9, <2>10, ConcatWhole, ConcatRecords, ConcatEffects
  <2>12. \A v : Record(v) \in Effects(P) => v = 10
    BY <2>6, <2>11, RecordIs
  <2>13. Rename("steps_phase4", "steps") \notin Effects(P)
    BY <2>6, <2>11, NotRecords
  <2>14. PartSound(11, a, d, P)
    BY <1>2, <2>5, <2>11, <2>12, <2>13, MakesAre, RecordsAre DEF PartSound
  <2> QED  BY <2>14 DEF P
<1> QED  BY <1>1, <1>2

LEMMA Part10Sound ==
    ASSUME NEW a, NEW d
    PROVE  PartSound(10, a, d, ApplyMigrations(a, d)[10])
<1> DEFINE P == ApplyMigrations(a, d)[10]
           t == "snapshots_ci_cancel"
           x == IF backend = "postgresql" THEN <<Ddl(Reshape("snapshots", "ci"))>>
                ELSE IF d.shape["snapshots"] # "plain" THEN <<>>
                ELSE Rebuild(t)
           X == IF backend = "postgresql" THEN {Reshape("snapshots", "ci")}
                ELSE IF d.shape["snapshots"] # "plain" THEN {}
                ELSE {Drop(t), Create(t, "ci"), Copy("snapshots", t), Drop("snapshots"),
                      Rename(t, "snapshots")}
           R == IF 9 \in a THEN {} ELSE {Record(9)}
           E == (({Make("cancel_columns")} \cup X) \cup {Nothing, Make("phase6_indexes")}) \cup R
<1>1. t \in Temporary /\ NewShape(t) = "ci" /\ Original(t) = "snapshots"
  BY DEF Temporary, NewShape, Original
<1>2. WholeProgram(x, X)
  <2>1. WholeProgram(<<Ddl(Reshape("snapshots", "ci"))>>, {Reshape("snapshots", "ci")})
        /\ WholeProgram(<<>>, {})
    BY Pieces, WholeOfFree
  <2>2. WholeProgram(Rebuild(t), {Drop(t), Create(t, "ci"), Copy("snapshots", t),
                                  Drop("snapshots"), Rename(t, "snapshots")})
    BY <1>1, RebuildProgram
  <2> QED  BY <2>1, <2>2
<1>3. EnsureCiCancellationEvidenceSchema(d) = <<Ddl(Make("cancel_columns"))>> \o x
  <2>1. Rebuild(t) = <<Ddl(Drop(t)), Ddl(Create(t, "ci")), Dml(Copy("snapshots", t)),
                       Ddl(Drop("snapshots")), Ddl(Rename(t, "snapshots"))>>
    BY <1>1 DEF Rebuild
  <2>2. x = IF backend = "postgresql" THEN <<Ddl(Reshape("snapshots", "ci"))>>
            ELSE IF d.shape["snapshots"] # "plain" THEN <<>>
            ELSE <<Ddl(Drop("snapshots_ci_cancel")), Ddl(Create("snapshots_ci_cancel", "ci")),
                   Dml(Copy("snapshots", "snapshots_ci_cancel")), Ddl(Drop("snapshots")),
                   Ddl(Rename("snapshots_ci_cancel", "snapshots"))>>
    BY <2>1
  <2> HIDE DEF x
  <2> QED  BY <2>2 DEF EnsureCiCancellationEvidenceSchema
<1>4. P = ((<<Ddl(Make("cancel_columns"))>> \o x) \o CreatePhase6Indexes) \o RecordVersion(9, a)
  <2>1. P = (EnsureCiCancellationEvidenceSchema(d) \o CreatePhase6Indexes) \o RecordVersion(9, a)
    BY PartsAre
  <2> HIDE DEF P, x
  <2> QED  BY <1>3, <2>1
<1>5. /\ \A v \in {3, 4, 10} : Record(v) \notin E
      /\ Rename("steps_phase4", "steps") \notin E
      /\ \A e \in E : ~Undoes(e)
      /\ \A o \in Makes[10] : Make(o) \in E
      /\ \A v \in Records[10] : Record(v) \in E \/ v \in a
      /\ \/ Reshape("snapshots", "ci") \in E
         \/ d.shape["snapshots"] # "plain"
         \/ Rename("snapshots_ci_cancel", "snapshots") \in E
  <2>1. \A v \in {3, 4, 10} : Record(v) \notin E
    <3>1. \A v \in {3, 4, 10} : Record(v) # Record(9)
      BY RecordIs
    <3>2. \A v : Record(v) \notin X
      BY NotRecords
    <3>3. \A v \in {3, 4, 10} : Record(v) \notin R
      BY <3>1
    <3> HIDE DEF X, R
    <3> QED  BY <3>2, <3>3, NotRecords
  <2>2. Rename("steps_phase4", "steps") \notin E
    BY NotRecords
  <2>3. \A e \in E : ~Undoes(e)
    BY NotRecords
  <2>4. /\ \A o \in Makes[10] : Make(o) \in E
        /\ \A v \in Records[10] : Record(v) \in E \/ v \in a
    BY MakesAre, RecordsAre
  <2> QED  BY <2>1, <2>2, <2>3, <2>4
<1> HIDE DEF P, x, X
<1>6. WholeProgram(P, E)
  <2>1. WholeProgram(<<Ddl(Make("cancel_columns"))>> \o x, {Make("cancel_columns")} \cup X)
    BY <1>2, Pieces, WholeOfFree, WholePrograms
  <2>2. WholeProgram((<<Ddl(Make("cancel_columns"))>> \o x) \o CreatePhase6Indexes,
                     ({Make("cancel_columns")} \cup X) \cup {Nothing, Make("phase6_indexes")})
    BY <2>1, Pieces, WholeOfFree, WholePrograms
  <2>3. WholeProgram(RecordVersion(9, a), R)
    <3>1. 9 \in Versions \ {3, 4, 10}
      BY VersionMembers
    <3> QED  BY <3>1, RecordingFree, WholeOfFree
  <2> HIDE DEF R
  <2> QED  BY <1>4, <2>2, <2>3, WholePrograms
<1> HIDE DEF E
<1>7. Whole(P) /\ RecordsLast(P) /\ Effects(P) = E
  BY <1>6, WholeRecords DEF WholeProgram
<1>8. PartSound(10, a, d, P)
  BY <1>5, <1>7 DEF PartSound
<1> QED  BY <1>8 DEF P

LEMMA PartsSound ==
    ASSUME NEW a, NEW d, NEW p \in 1 .. 13
    PROVE  PartSound(p, a, d, ApplyMigrations(a, d)[p])
<1>1. p \in {1, 2, 3} \/ p = 4 \/ p \in {5, 6, 7, 8} \/ p = 10 \/ p = 11 \/ p \in {9, 12, 13}
  OBVIOUS
<1> QED  BY <1>1, EarlyParts, Part4Sound, MiddleParts, Part10Sound, Part11Sound, LateParts
----------------------------------------------------------------------------
(* The effects of statements. *)

AnyEffect == FreeEffect \cup BoundEffect

LEMMA EffectForms ==
    ASSUME NEW e \in AnyEffect
    PROVE  \/ e = Nothing
           \/ \E o \in Object : e = Make(o)
           \/ \E v \in Versions : e = Record(v)
           \/ e \in {Create("steps", "tenant"), Create("snapshots", "ci"),
                     Create("idempotency", "global"), Create("idempotency", "tenant")}
           \/ e \in {Reshape("steps", "tenant"), Reshape("snapshots", "ci")}
           \/ \E t \in Temporary : \/ e = Drop(t) \/ e = Create(t, NewShape(t))
                                   \/ e = Copy(Original(t), t) \/ e = Rename(t, Original(t))
           \/ \E x \in Rebuilt : e = Drop(x)
           \/ e = Drop("idempotency")
BY DEF AnyEffect, FreeEffect, BoundEffect

LEMMA TableNames ==
    /\ Temporary \subseteq Table /\ Rebuilt \subseteq Table /\ "idempotency" \in Table
    /\ Temporary \cap Rebuilt = {} /\ "idempotency" \notin Temporary \cup Rebuilt
    /\ \A t \in Temporary : /\ Original(t) \in Rebuilt /\ NewShape(t) \in Shape \ {"none"}
                            /\ t # Original(t)
    /\ {"tenant", "ci", "global", "none"} \subseteq Shape
BY DEF Temporary, Rebuilt, Table, Original, NewShape, Shape

LEMMA EffectTypes ==
    ASSUME NEW e \in AnyEffect
    PROVE  /\ e.op \in {"nothing", "make", "record", "create", "reshape", "drop", "copy", "rename"}
           /\ e.op = "nothing" => e = Nothing
           /\ e.op = "make" => e.what \in Object /\ e = Make(e.what)
           /\ e.op = "record" => e.what \in Versions /\ e = Record(e.what)
           /\ e.op = "create" =>
                /\ e = Create(e.what, e.shape) /\ e.what \in Table /\ e.shape \in Shape
                /\ e.what = "steps" => e.shape = "tenant"
                /\ e.what = "snapshots" => e.shape = "ci"
                /\ e.what = "idempotency" => e.shape \in {"global", "tenant"}
                /\ e.what \in Temporary => e.shape = NewShape(e.what)
           /\ e.op = "reshape" =>
                \/ e = Reshape("steps", "tenant") /\ e.what = "steps" /\ e.shape = "tenant"
                \/ e = Reshape("snapshots", "ci") /\ e.what = "snapshots" /\ e.shape = "ci"
           /\ e.op = "drop" =>
                /\ e = Drop(e.what) /\ e.what \in Temporary \cup Rebuilt \cup {"idempotency"}
           /\ e.op = "copy" =>
                /\ e = Copy(e.what, e.to) /\ e.to \in Temporary /\ e.what = Original(e.to)
           /\ e.op = "rename" =>
                /\ e = Rename(e.what, e.to) /\ e.what \in Temporary /\ e.to = Original(e.what)
<1>1. CASE e = Nothing
  BY <1>1 DEF Nothing
<1>2. CASE \E o \in Object : e = Make(o)
  BY <1>2 DEF Make
<1>3. CASE \E v \in Versions : e = Record(v)
  BY <1>3 DEF Record
<1>4. CASE e \in {Create("steps", "tenant"), Create("snapshots", "ci"),
                  Create("idempotency", "global"), Create("idempotency", "tenant")}
  BY <1>4 DEF Create, Table, Shape, Temporary
<1>5. CASE e \in {Reshape("steps", "tenant"), Reshape("snapshots", "ci")}
  BY <1>5 DEF Reshape
<1>6. ASSUME NEW t \in Temporary,
             \/ e = Drop(t) \/ e = Create(t, NewShape(t))
             \/ e = Copy(Original(t), t) \/ e = Rename(t, Original(t))
      PROVE  \/ /\ e.op = "drop" /\ e.what = t /\ e = Drop(e.what)
             \/ /\ e.op = "create" /\ e.what = t /\ e.shape = NewShape(t)
                /\ e = Create(e.what, e.shape)
             \/ /\ e.op = "copy" /\ e.what = Original(t) /\ e.to = t /\ e = Copy(e.what, e.to)
             \/ /\ e.op = "rename" /\ e.what = t /\ e.to = Original(t)
                /\ e = Rename(e.what, e.to)
  BY <1>6 DEF Drop, Create, Copy, Rename
<1>7. CASE \E t \in Temporary : \/ e = Drop(t) \/ e = Create(t, NewShape(t))
                                \/ e = Copy(Original(t), t) \/ e = Rename(t, Original(t))
  BY <1>6, <1>7, TableNames DEF Rebuilt
<1>8. CASE \E x \in Rebuilt : e = Drop(x)
  BY <1>8 DEF Drop
<1>9. CASE e = Drop("idempotency")
  BY <1>9 DEF Drop
<1> QED  BY <1>1, <1>2, <1>3, <1>4, <1>5, <1>7, <1>8, <1>9, EffectForms

ShapeAfter(d, e, y) ==
    IF e.op = "create" /\ e.what = y /\ d.shape[y] = "none" THEN e.shape
    ELSE IF e.op = "reshape" /\ e.what = y THEN e.shape
    ELSE IF e.op \in {"drop", "rename"} /\ e.what = y THEN "none"
    ELSE IF e.op = "rename" /\ e.to = y THEN d.shape[e.what]
    ELSE d.shape[y]

LEMMA ApplyIs ==
    ASSUME NEW d \in DatabaseType, NEW e \in AnyEffect
    PROVE  /\ Apply(d, e) \in DatabaseType
           /\ Apply(d, e).made = d.made \cup IF e.op = "make" THEN {e.what} ELSE {}
           /\ Apply(d, e).versions = d.versions \cup IF e.op = "record" THEN {e.what} ELSE {}
           /\ Apply(d, e).rows = IF e.op = "drop" THEN d.rows \ {e.what}
                                 ELSE IF e.op = "copy" THEN Rows(d, e.what, e.to)
                                 ELSE IF e.op = "rename" THEN Rows(d, e.what, e.to) \ {e.what}
                                 ELSE d.rows
           /\ \A y \in Table : Apply(d, e).shape[y] = ShapeAfter(d, e, y)
<1> DEFINE n == Apply(d, e)
<1>0. /\ d.shape \in [Table -> Shape] /\ d.rows \subseteq Table /\ d.made \subseteq Object
      /\ d.versions \subseteq Versions
      /\ d = [shape |-> d.shape, rows |-> d.rows, made |-> d.made, versions |-> d.versions]
  BY DEF DatabaseType
<1>a. ASSUME NEW sh \in [Table -> Shape], NEW rs \in SUBSET Table,
             n = [d EXCEPT !.shape = sh, !.rows = rs]
      PROVE  /\ n \in DatabaseType /\ n.made = d.made /\ n.versions = d.versions
             /\ n.rows = rs /\ n.shape = sh
  <2> HIDE DEF n
  <2>1. n = [shape |-> sh, rows |-> rs, made |-> d.made, versions |-> d.versions]
    BY <1>0, <1>a
  <2> QED  BY <1>0, <2>1 DEF DatabaseType
<1>1. CASE e.op = "nothing"
  <2>1. n = d
    BY <1>1 DEF Apply
  <2> QED  BY <1>1, <2>1 DEF ShapeAfter
<1>2. CASE e.op = "make"
  <2>1. n = [d EXCEPT !.made = d.made \cup {e.what}] /\ e.what \in Object
    BY <1>2, EffectTypes DEF Apply
  <2>2. /\ n \in DatabaseType /\ n.shape = d.shape /\ n.rows = d.rows
        /\ n.made = d.made \cup (IF e.op = "make" THEN {e.what} ELSE {})
        /\ n.versions = d.versions \cup (IF e.op = "record" THEN {e.what} ELSE {})
    <3> HIDE DEF n
    <3> QED  BY <1>0, <1>2, <2>1 DEF DatabaseType
  <2> HIDE DEF n
  <2> QED  BY <1>2, <2>2 DEF ShapeAfter, n
<1>3. CASE e.op = "record"
  <2>1. n = [d EXCEPT !.versions = d.versions \cup {e.what}] /\ e.what \in Versions
    BY <1>3, EffectTypes DEF Apply
  <2>2. /\ n \in DatabaseType /\ n.shape = d.shape /\ n.rows = d.rows
        /\ n.made = d.made \cup (IF e.op = "make" THEN {e.what} ELSE {})
        /\ n.versions = d.versions \cup (IF e.op = "record" THEN {e.what} ELSE {})
    <3> HIDE DEF n
    <3> QED  BY <1>0, <1>3, <2>1 DEF DatabaseType
  <2> HIDE DEF n
  <2> QED  BY <1>3, <2>2 DEF ShapeAfter, n
<1>4. CASE e.op = "create"
  <2>1. e.what \in Table /\ e.shape \in Shape
    BY <1>4, EffectTypes
  <2>2. n = IF d.shape[e.what] # "none" THEN d ELSE [d EXCEPT !.shape[e.what] = e.shape]
    BY <1>4 DEF Apply
  <2>3. n = IF d.shape[e.what] # "none" THEN d
            ELSE [d EXCEPT !.shape = [d.shape EXCEPT ![e.what] = e.shape]]
    BY <2>2
  <2> DEFINE sh == IF d.shape[e.what] # "none" THEN d.shape
                   ELSE [d.shape EXCEPT ![e.what] = e.shape]
  <2>4. n = [d EXCEPT !.shape = sh, !.rows = d.rows]
    <3> HIDE DEF n
    <3> QED  BY <1>0, <2>3
  <2>5. sh \in [Table -> Shape]
    BY <1>0, <2>1
  <2>6. \A y \in Table : sh[y] = IF e.what = y /\ d.shape[y] = "none" THEN e.shape
                                  ELSE d.shape[y]
    BY <1>0, <2>1
  <2> HIDE DEF n, sh
  <2>7. /\ n \in DatabaseType /\ n.made = d.made /\ n.versions = d.versions
        /\ n.rows = d.rows /\ n.shape = sh
    BY <1>0, <2>4, <2>5, <1>a
  <2> QED  BY <1>4, <2>6, <2>7 DEF ShapeAfter, n
<1>5. CASE e.op = "reshape"
  <2>1. e.what \in Table /\ e.shape \in Shape
    BY <1>5, EffectTypes DEF Table, Shape
  <2>2. n = [d EXCEPT !.shape = [d.shape EXCEPT ![e.what] = e.shape]]
    BY <1>5 DEF Apply
  <2> DEFINE sh == [d.shape EXCEPT ![e.what] = e.shape]
  <2>4. n = [d EXCEPT !.shape = sh, !.rows = d.rows]
    <3> HIDE DEF n
    <3> QED  BY <1>0, <2>2
  <2>5. sh \in [Table -> Shape] /\ \A y \in Table : sh[y] = IF e.what = y THEN e.shape
                                                          ELSE d.shape[y]
    BY <1>0, <2>1
  <2> HIDE DEF n, sh
  <2>7. /\ n \in DatabaseType /\ n.made = d.made /\ n.versions = d.versions
        /\ n.rows = d.rows /\ n.shape = sh
    BY <1>0, <2>4, <2>5, <1>a
  <2> QED  BY <1>5, <2>5, <2>7 DEF ShapeAfter, n
<1>6. CASE e.op = "drop"
  <2>1. e.what \in Table /\ "none" \in Shape
    BY <1>6, EffectTypes, TableNames
  <2>2. n = [d EXCEPT !.shape = [d.shape EXCEPT ![e.what] = "none"], !.rows = d.rows \ {e.what}]
    BY <1>6 DEF Apply
  <2>3. /\ n \in DatabaseType /\ n.made = d.made /\ n.versions = d.versions
        /\ n.rows = d.rows \ {e.what} /\ n.shape = [d.shape EXCEPT ![e.what] = "none"]
    <3>1. [d.shape EXCEPT ![e.what] = "none"] \in [Table -> Shape]
      BY <1>0, <2>1
    <3>2. d.rows \ {e.what} \in SUBSET Table
      BY <1>0
    <3> HIDE DEF n
    <3> QED  BY <2>2, <3>1, <3>2, <1>a DEF n
  <2> HIDE DEF n
  <2> QED  BY <1>0, <1>6, <2>1, <2>3 DEF ShapeAfter, n
<1>7. CASE e.op = "copy"
  <2>1. e.to \in Table
    BY <1>7, EffectTypes, TableNames
  <2>2. n = [d EXCEPT !.rows = Rows(d, e.what, e.to)] /\ Rows(d, e.what, e.to) \subseteq Table
    BY <1>0, <1>7, <2>1 DEF Apply, Rows
  <2>3. /\ n \in DatabaseType /\ n.made = d.made /\ n.versions = d.versions
        /\ n.rows = Rows(d, e.what, e.to) /\ n.shape = d.shape
    <3>1. n = [d EXCEPT !.shape = d.shape, !.rows = Rows(d, e.what, e.to)]
      BY <1>0, <2>2
    <3> HIDE DEF n
    <3> QED  BY <1>0, <2>2, <3>1, <1>a, ZenonT(40) DEF n
  <2> HIDE DEF n
  <2> QED  BY <1>0, <1>7, <2>3 DEF ShapeAfter, n
<1>8. CASE e.op = "rename"
  <2>1. e.to \in Table /\ e.what \in Table /\ e.to # e.what /\ "none" \in Shape
    BY <1>8, EffectTypes, TableNames
  <2>2. n = [d EXCEPT !.shape = [d.shape EXCEPT ![e.to] = d.shape[e.what], ![e.what] = "none"],
                      !.rows = Rows(d, e.what, e.to) \ {e.what}]
    BY <1>8 DEF Apply
  <2>3. Rows(d, e.what, e.to) \subseteq Table
    BY <1>0, <2>1 DEF Rows
  <2> DEFINE sh == [d.shape EXCEPT ![e.to] = d.shape[e.what], ![e.what] = "none"]
  <2>4. /\ n \in DatabaseType /\ n.made = d.made /\ n.versions = d.versions
        /\ n.rows = Rows(d, e.what, e.to) \ {e.what} /\ n.shape = sh
    <3>1. sh \in [Table -> Shape]
      BY <1>0, <2>1
    <3>2. Rows(d, e.what, e.to) \ {e.what} \in SUBSET Table
      BY <2>3
    <3>3. n = [d EXCEPT !.shape = sh, !.rows = Rows(d, e.what, e.to) \ {e.what}]
      BY <2>2
    <3> HIDE DEF n, sh
    <3> QED  BY <3>1, <3>2, <3>3, <1>a
  <2>5. \A y \in Table : sh[y] = IF y = e.what THEN "none"
                                  ELSE IF y = e.to THEN d.shape[e.what] ELSE d.shape[y]
    BY <1>0, <2>1
  <2> HIDE DEF sh, n
  <2> QED  BY <1>8, <2>1, <2>4, <2>5 DEF ShapeAfter, n
<1> QED  BY <1>1, <1>2, <1>3, <1>4, <1>5, <1>6, <1>7, <1>8, EffectTypes
----------------------------------------------------------------------------
(* What a statement does to the state. *)

LEMMA StatementFacts ==
    ASSUME MigrationInv, ExecuteStatement, ~StatementRaises(view, Head(todo).effect)
    PROVE  /\ Due \in AnyEffect /\ Due = todo[1].effect
           /\ Due \in Coming /\ Coming = Coming' \cup {Due} /\ Coming \subseteq AnyEffect
           /\ Len(todo) \in Nat \ {0} /\ Len(todo') = Len(todo) - 1 /\ todo' \in Seq(Statement)
           /\ todo # <<>> /\ (todo' # <<>> <=> Len(todo) > 1)
           /\ \A i \in 1 .. Len(todo') : todo'[i] = todo[i + 1]
           /\ Len(todo) > 1 => Due' = todo[2].effect /\ Due' \in Coming'
           /\ Ordered(todo') /\ RecordsLast(todo')
           /\ view' = Apply(view, Due)
           /\ disk' = disk \/ (disk' = view' /\ (Due = Nothing \/ ~open))
           /\ open' \in BOOLEAN /\ (~open' => view' = disk')
           /\ Due.op = "copy" => open'
           /\ open /\ Due # Nothing => open'
           /\ runner # "none" /\ part \in 1 .. 14
           /\ UNCHANGED <<applied, part, runner, backend, profile, holds, serving, aborts, serves>>
<1>1. Ordered(todo) /\ RecordsLast(todo) /\ todo # <<>>
  BY DEF MigrationInv, ExecuteStatement
<1>2. /\ todo' = Tail(todo)
      /\ view' = Executed(Head(todo)).view
      /\ open' = Executed(Head(todo)).open
      /\ disk' = Executed(Head(todo)).disk
      /\ UNCHANGED <<applied, part, runner, backend, profile, holds, serving, aborts, serves>>
  BY DEF ExecuteStatement
<1>3. /\ Ordered(todo') /\ RecordsLast(todo')
      /\ Len(todo') = Len(todo) - 1
      /\ \A i \in 1 .. Len(todo') : todo'[i] = todo[i + 1]
      /\ Head(todo) = todo[1] /\ Head(todo) \in Statement
      /\ Effects(todo) = Effects(todo') \cup {Head(todo).effect}
  BY <1>1, <1>2, TailOrdered
<1>4. todo \in Seq(Statement) /\ todo' \in Seq(Statement)
  BY <1>1, <1>3 DEF Ordered
<1>5. Due \in AnyEffect /\ Due = todo[1].effect
  BY <1>3, StatementsHave DEF Due, AnyEffect
<1>6. Due \in Coming /\ Coming = Coming' \cup {Due}
  BY <1>3 DEF Coming, Due
<1>7. Coming \subseteq AnyEffect
  BY <1>4, StatementsHave DEF Coming, Effects, AnyEffect
<1>8. /\ Len(todo) \in Nat \ {0} /\ (todo' # <<>> <=> Len(todo) > 1)
  BY <1>1, <1>3, <1>4
<1>9. Len(todo) > 1 => Due' = todo[2].effect /\ Due' \in Coming'
  <2> SUFFICES ASSUME Len(todo) > 1 PROVE Due' = todo[2].effect /\ Due' \in Coming'
    OBVIOUS
  <2>1. 1 \in 1 .. Len(todo') /\ Head(todo') = todo'[1] /\ DOMAIN todo' = 1 .. Len(todo')
    BY <1>3, <1>4, <1>8
  <2>2. todo'[1] = todo[2]
    BY <2>1, <1>3
  <2> QED  BY <2>1, <2>2 DEF Due, Coming, Effects
<1> DEFINE h == Head(todo)
<1>10. /\ h.how \in {"begin", "commit"} => Due = Nothing
       /\ Due.op = "copy" => h.how = "dml"
       /\ h.how \in {"ddl", "dml", "begin", "commit"}
  BY <1>3, StatementsHave DEF Due
<1>11. Apply(view, Nothing) = view
  BY DEF Apply, Nothing
<1>12. open \in BOOLEAN /\ (~open => view = disk)
  BY DEF MigrationInv, MigrationTypeOK
<1>13. CASE h.how = "commit" /\ backend = "sqlite"
  <2>1. view' = view /\ open' = FALSE /\ disk' = view /\ Due = Nothing
    BY <1>2, <1>10, <1>13 DEF Executed
  <2>2. Due.op # "copy"
    BY <2>1 DEF Nothing
  <2>3. /\ view' = Apply(view, Due)
        /\ disk' = disk \/ (disk' = view' /\ (Due = Nothing \/ ~open))
        /\ open' \in BOOLEAN /\ (~open' => view' = disk')
        /\ Due.op = "copy" => open'
        /\ open /\ Due # Nothing => open'
    BY <2>1, <2>2, <1>11
  <2> QED  BY <2>3, <1>1, <1>2, <1>3, <1>4, <1>5, <1>6, <1>7, <1>8, <1>9
           DEF MigrationInv, RunnerInv
<1>14. CASE ~(h.how = "commit" /\ backend = "sqlite")
  <2> DEFINE inTransaction == open \/ h.how \in {"dml", "begin"}
  <2>1. /\ view' = Apply(view, Due) /\ open' = inTransaction
        /\ disk' = IF inTransaction THEN disk ELSE view'
    BY <1>2, <1>14 DEF Executed, Due
  <2>2. /\ disk' = disk \/ (disk' = view' /\ (Due = Nothing \/ ~open))
        /\ open' \in BOOLEAN /\ (~open' => view' = disk')
        /\ Due.op = "copy" => open'
        /\ open /\ Due # Nothing => open'
    BY <2>1, <1>10, <1>12
  <2> QED  BY <2>1, <2>2, <1>1, <1>2, <1>3, <1>4, <1>5, <1>6, <1>7, <1>8, <1>9
           DEF MigrationInv, RunnerInv
<1> QED  BY <1>13, <1>14

LEMMA SuccessorFollows ==
    ASSUME MigrationInv, ExecuteStatement, ~StatementRaises(view, Head(todo).effect)
    PROVE  /\ Len(todo) > 1 => Leads(Due, Due')
           /\ Due.op = "copy" =>
                /\ Len(todo) > 2 /\ Due' = Drop(Due.what)
                /\ todo'[2].effect = Rename(Due.to, Due.what)
           /\ Due = Drop("idempotency") =>
                Len(todo) > 1 /\ Due' = Create("idempotency", "tenant")
           /\ Due.op = "drop" /\ Due.what \in Rebuilt =>
                /\ Len(todo) > 1 /\ open
                /\ \E t \in Temporary : /\ Due' = Rename(t, Due.what) /\ Due.what = Original(t)
                                        /\ Carried(t)
           /\ Due.op = "rename" => open /\ Carried(Due.what)
<1>1. Ordered(todo) /\ Ready
  BY DEF MigrationInv
<1>2. Len(todo) > 1 => Leads(Due, Due')
  <2>1. Len(todo) > 1 => 2 \in 2 .. Len(todo) /\ 2 - 1 = 1
    BY StatementFacts
  <2>2. \A i \in 2 .. Len(todo) : Leads(todo[i - 1].effect, todo[i].effect)
    BY <1>1 DEF Ordered
  <2> QED  BY <2>1, <2>2, StatementFacts
<1>3. /\ Due.op = "copy" =>
            /\ 1 + 2 <= Len(todo) /\ todo[1 + 1].effect = Drop(Due.what)
            /\ todo[1 + 2].effect = Rename(Due.to, Due.what)
      /\ Due = Drop("idempotency") =>
            1 + 1 <= Len(todo) /\ todo[1 + 1].effect = Create("idempotency", "tenant")
  BY <1>1, StatementFacts DEF Ordered
<1>4. Due.op = "copy" => todo'[2] = todo[2 + 1]
  BY <1>3, StatementFacts
<1>5. /\ Due.op = "copy" =>
                /\ Len(todo) > 2 /\ Due' = Drop(Due.what)
                /\ todo'[2].effect = Rename(Due.to, Due.what)
      /\ Due = Drop("idempotency") =>
                Len(todo) > 1 /\ Due' = Create("idempotency", "tenant")
  BY <1>3, <1>4, StatementFacts
<1>6. ASSUME Due.op = "drop", Due.what \in Rebuilt
      PROVE  /\ Len(todo) > 1 /\ open
             /\ \E t \in Temporary : /\ Due' = Rename(t, Due.what) /\ Due.what = Original(t)
                                     /\ Carried(t)
  <2>1. Len(todo) > 1
    BY <1>1, <1>6, StatementFacts DEF Ready
  <2>2. PICK t \in Temporary : todo[2].effect = Rename(t, Due.what) /\ Carried(t)
    BY <1>1, <1>6, StatementFacts DEF Ready
  <2>3. Due' = Rename(t, Due.what)
    BY <2>1, <2>2, StatementFacts
  <2>4. Due' \in AnyEffect /\ Due'.op = "rename" /\ Due'.what = t /\ Due'.to = Due.what
    BY <2>1, <2>3, StatementFacts DEF Rename
  <2>5. Due.what = Original(t)
    BY <2>4, EffectTypes
  <2> QED  BY <2>1, <2>2, <2>3, <2>5 DEF Carried
<1>7. Due.op = "rename" => open /\ Carried(Due.what)
  BY <1>1, StatementFacts DEF Ready, Carried
<1> QED  BY <1>2, <1>5, <1>6, <1>7

LEMMA RowsKeptStep ==
    ASSUME MigrationInv, ExecuteStatement, ~StatementRaises(view, Head(todo).effect)
    PROVE  RowsKept'
<1>0. /\ Due \in AnyEffect /\ view \in DatabaseType /\ holds' = holds /\ holds \subseteq Rebuilt
      /\ holds \subseteq disk.rows /\ todo # <<>>
      /\ \A x \in holds : x \in view.rows \/ (Due.op = "rename" /\ Due.to = x)
  BY StatementFacts DEF MigrationInv, MigrationTypeOK, RowsKept
<1>1. view'.rows = IF Due.op = "drop" THEN view.rows \ {Due.what}
                   ELSE IF Due.op = "copy" THEN Rows(view, Due.what, Due.to)
                   ELSE IF Due.op = "rename" THEN Rows(view, Due.what, Due.to) \ {Due.what}
                   ELSE view.rows
  <2>1. view' = Apply(view, Due)
    BY StatementFacts
  <2> QED  BY <1>0, <2>1, ApplyIs
<1>2. ASSUME NEW x \in holds
      PROVE  x \in view'.rows \/ (todo' # <<>> /\ Due'.op = "rename" /\ Due'.to = x)
  <2>1. CASE Due.op = "drop" /\ Due.what = x
    <3>1. PICK t \in Temporary : Due' = Rename(t, x) /\ Len(todo) > 1
      BY <2>1, <1>0, SuccessorFollows
    <3> QED  BY <3>1, StatementFacts DEF Rename
  <2>2. CASE Due.op = "drop" /\ Due.what # x
    BY <2>2, <1>0, <1>1
  <2>3. CASE Due.op = "copy"
    BY <2>3, <1>0, <1>1 DEF Rows
  <2>4. CASE Due.op = "rename"
    <3>1. /\ Due.what \in Temporary /\ Due.to = Original(Due.what) /\ Carried(Due.what)
          /\ x # Due.what
      BY <2>4, <1>0, EffectTypes, SuccessorFollows, TableNames
    <3>2. CASE Due.to = x
      BY <2>4, <3>1, <3>2, <1>1 DEF Carried, Rows
    <3>3. CASE Due.to # x
      BY <2>4, <3>1, <3>3, <1>0, <1>1 DEF Rows
    <3> QED  BY <3>2, <3>3
  <2>5. CASE Due.op \notin {"drop", "copy", "rename"}
    BY <2>5, <1>0, <1>1
  <2> QED  BY <2>1, <2>2, <2>3, <2>4, <2>5
<1>3. holds \subseteq disk'.rows
  <2>1. CASE disk' = disk
    BY <2>1, <1>0
  <2>2. CASE disk' = view' /\ (Due = Nothing \/ ~open)
    <3>1. Due.op # "rename" /\ ~(Due.op = "drop" /\ Due.what \in Rebuilt)
      BY <2>2, SuccessorFollows DEF Nothing
    <3>2. holds \subseteq view'.rows
      BY <3>1, <1>0, <1>1 DEF Rows
    <3> QED  BY <2>2, <3>2
  <2> QED  BY <2>1, <2>2, StatementFacts
<1> QED  BY <1>0, <1>2, <1>3 DEF RowsKept

LEMMA ReadyStep ==
    ASSUME MigrationInv, ExecuteStatement, ~StatementRaises(view, Head(todo).effect)
    PROVE  Ready'
<1>0. /\ Due \in AnyEffect /\ view \in DatabaseType /\ holds' = holds /\ open' \in BOOLEAN
      /\ \A x \in holds : x \in view.rows \/ (Due.op = "rename" /\ Due.to = x)
      /\ Ready /\ todo # <<>> /\ view' = Apply(view, Due)
  BY StatementFacts DEF MigrationInv, MigrationTypeOK, RowsKept
<1>1. /\ view'.rows = IF Due.op = "drop" THEN view.rows \ {Due.what}
                      ELSE IF Due.op = "copy" THEN Rows(view, Due.what, Due.to)
                      ELSE IF Due.op = "rename" THEN Rows(view, Due.what, Due.to) \ {Due.what}
                      ELSE view.rows
      /\ \A y \in Table : view'.shape[y] = ShapeAfter(view, Due, y)
  BY <1>0, ApplyIs, ZenonT(40)
<1>2. ASSUME Len(todo) > 1 PROVE Due' \in AnyEffect /\ Leads(Due, Due')
  BY <1>2, StatementFacts, SuccessorFollows
<1>3. ASSUME Len(todo) > 1, Due'.op = "create", ~Begins(Due')
      PROVE  view'.shape[Due'.what] = "none"
  <2>1. Due = Drop(Due'.what)
    BY <1>2, <1>3 DEF Leads
  <2>2. Due.op = "drop" /\ Due.what = Due'.what
    BY <2>1 DEF Drop
  <2>3. Due'.what \in Table
    BY <1>2, <1>3, EffectTypes
  <2> QED  BY <2>2, <2>3, <1>1 DEF ShapeAfter
<1>4. ASSUME Len(todo) > 1, Due'.op = "copy"
      PROVE  view'.shape[Due'.to] = NewShape(Due'.to)
  <2>1. Due'.to \in Temporary
    BY <1>2, <1>4, EffectTypes
  <2>2. Due = Create(Due'.to, NewShape(Due'.to))
    BY <1>2, <1>4 DEF Leads, Begins
  <2>3. Due.op = "create" /\ Due.what = Due'.to /\ Due.shape = NewShape(Due'.to)
    BY <2>2 DEF Create
  <2>4. ~Begins(Due)
    BY <2>1, <2>3 DEF Begins
  <2>5. view.shape[Due.what] = "none"
    BY <1>0, <2>3, <2>4 DEF Ready
  <2> QED  BY <2>1, <2>3, <2>5, <1>1, TableNames DEF ShapeAfter
<1>5. ASSUME Len(todo) > 1, Due'.op = "drop", Due'.what \in Rebuilt
      PROVE  /\ Len(todo') > 1
             /\ \E t \in Temporary : todo'[2].effect = Rename(t, Due'.what) /\ Carried(t)'
  <2>1. Due.op = "copy"
    BY <1>2, <1>5 DEF Leads, Begins
  <2>2. /\ Len(todo) > 2 /\ Due' = Drop(Due.what)
        /\ todo'[2].effect = Rename(Due.to, Due.what) /\ open'
    BY <2>1, SuccessorFollows, StatementFacts
  <2>3. Due.to \in Temporary /\ Due.what = Original(Due.to) /\ Due'.what = Due.what
    BY <1>0, <2>1, <2>2, EffectTypes DEF Drop
  <2>4. view.shape[Due.to] = NewShape(Due.to)
    BY <1>0, <2>1 DEF Ready
  <2>5. view'.shape[Due.to] = NewShape(Due.to)
    BY <2>1, <2>3, <2>4, <1>1, TableNames DEF ShapeAfter
  <2>6. Original(Due.to) \in holds => Due.to \in view'.rows
    BY <2>1, <2>3, <1>0, <1>1 DEF Rows
  <2>7. Len(todo') > 1
    BY <2>2, StatementFacts
  <2>8. (open /\ view.shape[Due.to] = NewShape(Due.to)
            /\ (Original(Due.to) \in holds => Due.to \in view.rows))
        <=> Carried(Due.to)
    BY DEF Carried
  <2>9. \E t \in Temporary : todo'[2].effect = Rename(t, Due'.what) /\ Carried(t)'
    <3>1. ASSUME NEW t, t = Due.to PROVE Carried(t)'
      BY <3>1, <2>2, <2>5, <2>6, <1>0 DEF Carried
    <3> QED  BY <3>1, <2>2, <2>3
  <2> QED  BY <2>7, <2>9
<1>6. ASSUME Len(todo) > 1, Due'.op = "rename"
      PROVE  Carried(Due.what)'
  <2>1. Due.op = "drop" /\ Due.what \in Rebuilt
    BY <1>2, <1>6 DEF Leads, Begins
  <2>2. PICK t \in Temporary : Due' = Rename(t, Due.what) /\ Due.what = Original(t) /\ Carried(t)
    BY <2>1, SuccessorFollows
  <2>3. Due'.what = t /\ open
    BY <2>2 DEF Rename, Carried
  <2>4. open'
    BY <2>1, <2>3, StatementFacts DEF Nothing
  <2>5. view'.shape[t] = NewShape(t)
    BY <2>1, <2>2, <1>1, TableNames DEF ShapeAfter, Carried
  <2>6. Original(t) \in holds => t \in view'.rows
    BY <2>1, <2>2, <1>1, TableNames DEF Carried
  <2>7. Carried(t)'
    BY <2>4, <2>5, <2>6, <1>0 DEF Carried
  <2> QED  BY <2>3, <2>7 DEF Carried
<1> QED  BY <1>3, <1>4, <1>5, <1>6, StatementFacts DEF Ready
LEMMA LastRecord ==
    ASSUME MigrationInv, ExecuteStatement, ~StatementRaises(view, Head(todo).effect),
           SkippedBy(Due)
    PROVE  Coming = {Due} /\ Coming' = {}
<1>1. 1 \in 1 .. Len(todo) /\ todo[1].effect = Due
  BY StatementFacts
<1>2. Len(todo) = 1
  BY <1>1 DEF MigrationInv, RecordsLast
<1>3. todo' = <<>>
  BY <1>2, StatementFacts
<1>4. Coming' = {}
  BY <1>3 DEF Coming, Effects
<1> QED  BY <1>4, StatementFacts

LEMMA DatabaseStep ==
    ASSUME MigrationInv, ExecuteStatement, ~StatementRaises(view, Head(todo).effect)
    PROVE  DatabaseSound(view)' /\ DatabaseSound(disk)'
<1>0. /\ Due \in AnyEffect /\ view \in DatabaseType /\ view' = Apply(view, Due)
      /\ Recorded(view) /\ view.shape["snapshots"] \in {"none", "plain", "ci"}
      /\ Due \in Coming /\ WorkDone /\ ShapesDone /\ InPlace
  BY StatementFacts DEF MigrationInv, DatabaseSound
<1>1. /\ view' \in DatabaseType
      /\ view'.made = view.made \cup IF Due.op = "make" THEN {Due.what} ELSE {}
      /\ view'.versions = view.versions \cup IF Due.op = "record" THEN {Due.what} ELSE {}
      /\ \A y \in Table : view'.shape[y] = ShapeAfter(view, Due, y)
  BY <1>0, ApplyIs
<1>2. ASSUME NEW v \in {3, 4, 10}, v \in view'.versions, v \notin view.versions
      PROVE  Due = Record(v) /\ Coming = {Record(v)}
  <2>1. Due = Record(v)
    BY <1>0, <1>1, <1>2, EffectTypes
  <2> QED  BY <2>1, LastRecord, SkippedAre
<1>3. ASSUME 3 \in view'.versions PROVE Makes[2] \subseteq view'.made
  <2>1. CASE 3 \in view.versions
    BY <2>1, <1>0, <1>1 DEF Recorded
  <2>2. CASE 3 \notin view.versions
    <3>1. Coming = {Record(3)} /\ part = 3
      BY <2>2, <1>0, <1>2, <1>3 DEF InPlace
    <3>2. \A o \in Makes[2] : o \in view.made
      BY <3>1, <1>0, NotRecords DEF WorkDone
    <3> QED  BY <3>2, <1>1
  <2> QED  BY <2>1, <2>2
<1>4. ASSUME 4 \in view'.versions PROVE Makes[3] \subseteq view'.made
  <2>1. CASE 4 \in view.versions
    BY <2>1, <1>0, <1>1 DEF Recorded
  <2>2. CASE 4 \notin view.versions
    <3>1. Coming = {Record(4)} /\ part = 4
      BY <2>2, <1>0, <1>2, <1>4 DEF InPlace
    <3>2. \A o \in Makes[3] : o \in view.made
      BY <3>1, <1>0, NotRecords DEF WorkDone
    <3> QED  BY <3>2, <1>1
  <2> QED  BY <2>1, <2>2
<1>5. ASSUME 10 \in view'.versions
      PROVE  view'.shape["steps"] = "tenant" /\ view'.shape["idempotency"] = "tenant"
  <2>0. {"steps", "idempotency"} \subseteq Table
    BY DEF Table
  <2>1. CASE 10 \in view.versions
    <3>1. view.shape["steps"] = "tenant" /\ view.shape["idempotency"] = "tenant"
      BY <2>1, <1>0 DEF Recorded
    <3>2. ~Undoes(Due)
      BY <2>1, <1>0 DEF InPlace
    <3>3. ~(Due.op = "drop" /\ Due.what \in {"steps", "idempotency"})
      BY <3>2, <1>0, EffectTypes DEF Undoes
    <3>4. ~(Due.op = "rename" /\ (Due.what \in {"steps", "idempotency"} \/ Due.to = "steps"
                                    \/ Due.to = "idempotency"))
      BY <3>2, <1>0, EffectTypes, TableNames DEF Undoes, Rebuilt
    <3>5. Due.op = "reshape" => ~(Due.what = "idempotency")
                                /\ (Due.what = "steps" => Due.shape = "tenant")
      BY <1>0, EffectTypes
    <3> QED  BY <2>0, <3>1, <3>3, <3>4, <3>5, <1>1 DEF ShapeAfter
  <2>2. CASE 10 \notin view.versions
    <3>1. Due = Record(10) /\ Coming = {Record(10)} /\ part = 12
      BY <2>2, <1>0, <1>2, <1>5 DEF InPlace
    <3>2. view.shape["steps"] = "tenant" /\ view.shape["idempotency"] = "tenant"
      <4>1. /\ part > 11 /\ Reshape("steps", "tenant") \notin Coming
            /\ Rename("steps_phase10", "steps") \notin Coming
            /\ Create("idempotency", "tenant") \notin Coming
        <5>1. /\ Record(10) # Reshape("steps", "tenant")
              /\ Record(10) # Rename("steps_phase10", "steps")
              /\ Record(10) # Create("idempotency", "tenant")
          BY NotRecords
        <5>2. part > 11
          BY <3>1
        <5> QED  BY <3>1, <5>1, <5>2
      <4> QED  BY <4>1, <1>0 DEF ShapesDone
    <3>3. Due.op = "record"
      BY <3>1 DEF Record
    <3> QED  BY <2>0, <3>2, <3>3, <1>1 DEF ShapeAfter
  <2> QED  BY <2>1, <2>2
<1>6. view'.shape["snapshots"] \in {"none", "plain", "ci"}
  <2>0. "snapshots" \in Table /\ "snapshots" \notin Temporary
    BY DEF Table, Temporary
  <2>1. Due.op = "create" /\ Due.what = "snapshots" => Due.shape = "ci"
    BY <1>0, EffectTypes
  <2>2. Due.op = "reshape" /\ Due.what = "snapshots" => Due.shape = "ci"
    BY <1>0, EffectTypes
  <2>3. ASSUME Due.op = "rename", Due.to = "snapshots"
        PROVE  view.shape[Due.what] = "ci"
    <3>1. Due.what \in Temporary /\ Original(Due.what) = "snapshots" /\ Carried(Due.what)
      BY <2>3, <1>0, EffectTypes, SuccessorFollows
    <3>2. NewShape(Due.what) = "ci"
      BY <3>1 DEF Original, NewShape, Temporary
    <3> QED  BY <3>1, <3>2 DEF Carried
  <2> QED  BY <2>0, <2>1, <2>2, <2>3, <1>0, <1>1 DEF ShapeAfter
<1>7. DatabaseSound(view)'
  BY <1>1, <1>3, <1>4, <1>5, <1>6 DEF DatabaseSound, Recorded
<1>8. DatabaseSound(disk)'
  <2>1. CASE disk' = disk
    BY <2>1 DEF MigrationInv, DatabaseSound, Recorded
  <2>2. CASE disk' = view'
    BY <2>2, <1>7 DEF DatabaseSound, Recorded
  <2> QED  BY <2>1, <2>2, StatementFacts
<1> QED  BY <1>7, <1>8

LEMMA WorkStep ==
    ASSUME MigrationInv, ExecuteStatement, ~StatementRaises(view, Head(todo).effect)
    PROVE  WorkDone'
<1>0. /\ Due \in AnyEffect /\ view \in DatabaseType /\ view' = Apply(view, Due) /\ WorkDone
      /\ Coming = Coming' \cup {Due} /\ part' = part
  BY StatementFacts DEF MigrationInv, DatabaseSound
<1>1. /\ view'.made = view.made \cup IF Due.op = "make" THEN {Due.what} ELSE {}
      /\ view'.versions = view.versions \cup IF Due.op = "record" THEN {Due.what} ELSE {}
  BY <1>0, ApplyIs
<1>2. ASSUME NEW o, Make(o) = Due PROVE o \in view'.made
  BY <1>1, <1>2 DEF Make
<1>3. ASSUME NEW v, Record(v) = Due PROVE v \in view'.versions
  BY <1>1, <1>3 DEF Record
<1> QED  BY <1>0, <1>1, <1>2, <1>3 DEF WorkDone

LEMMA ShapesStep ==
    ASSUME MigrationInv, ExecuteStatement, ~StatementRaises(view, Head(todo).effect)
    PROVE  ShapesDone'
<1>0. /\ Due \in AnyEffect /\ view \in DatabaseType /\ view' = Apply(view, Due)
      /\ ShapesDone /\ InPlace /\ Ready /\ todo # <<>>
      /\ Coming = Coming' \cup {Due} /\ part' = part /\ Due \in Coming
      /\ Len(todo) > 1 => Due' \in Coming'
  BY StatementFacts DEF MigrationInv, DatabaseSound
<1>1. \A y \in Table : view'.shape[y] = ShapeAfter(view, Due, y)
  BY <1>0, ApplyIs
<1>2. {"steps", "snapshots", "idempotency"} \subseteq Table \ Temporary
  BY DEF Table, Temporary
<1>3. ASSUME Due.op = "drop", Due.what = "snapshots"
      PROVE  Rename("snapshots_ci_cancel", "snapshots") \in Coming'
  <2>1. PICK t \in Temporary : Due' = Rename(t, "snapshots") /\ Original(t) = "snapshots"
    BY <1>3, SuccessorFollows DEF Rebuilt
  <2>2. t = "snapshots_ci_cancel"
    BY <2>1 DEF Temporary, Original
  <2>3. Len(todo) > 1
    BY <1>3, SuccessorFollows DEF Rebuilt
  <2> QED  BY <2>1, <2>2, <2>3, <1>0
<1>4. ASSUME Due.op = "rename", Due.to = "snapshots"
      PROVE  view.shape[Due.what] = "ci"
  <2>1. Due.what \in Temporary /\ Original(Due.what) = "snapshots" /\ Carried(Due.what)
    BY <1>4, <1>0, EffectTypes, SuccessorFollows
  <2>2. NewShape(Due.what) = "ci"
    BY <2>1 DEF Original, NewShape, Temporary
  <2> QED  BY <2>1, <2>2 DEF Carried
<1>5. /\ Due.op = "create" /\ Due.what = "snapshots" => Due.shape = "ci"
      /\ Due.op = "reshape" /\ Due.what = "snapshots" => Due.shape = "ci"
      /\ Due.op = "create" /\ Due.what = "steps" => Due.shape = "tenant"
      /\ Due.op = "reshape" /\ Due.what = "steps" => Due.shape = "tenant"
      /\ ~(Due.op = "reshape" /\ Due.what = "idempotency")
      /\ Due.op = "rename" => Due.what \in Temporary /\ Due.to \in {"steps", "snapshots"}
  BY <1>0, EffectTypes, TableNames DEF Rebuilt
<1>6. /\ Due = Create("snapshots", "ci") =>
            Due.op = "create" /\ Due.what = "snapshots" /\ Due.shape = "ci"
      /\ Due = Reshape("snapshots", "ci") =>
            Due.op = "reshape" /\ Due.what = "snapshots" /\ Due.shape = "ci"
      /\ Due = Reshape("steps", "tenant") =>
            Due.op = "reshape" /\ Due.what = "steps" /\ Due.shape = "tenant"
      /\ Due = Rename("snapshots_ci_cancel", "snapshots") =>
            Due.op = "rename" /\ Due.to = "snapshots"
      /\ Due = Rename("steps_phase10", "steps") =>
            Due.op = "rename" /\ Due.to = "steps"
      /\ Due = Create("idempotency", "tenant") =>
            Due.op = "create" /\ Due.what = "idempotency" /\ Due.shape = "tenant"
  BY DEF Create, Reshape, Rename
<1>7. part > 9 => \/ view'.shape["snapshots"] # "none"
                  \/ Create("snapshots", "ci") \in Coming'
                  \/ Rename("snapshots_ci_cancel", "snapshots") \in Coming'
  <2>1. view'.shape["snapshots"] = ShapeAfter(view, Due, "snapshots")
    BY <1>1, <1>2
  <2> QED  BY <2>1, <1>0, <1>2, <1>3, <1>4, <1>5, <1>6 DEF ShapesDone, ShapeAfter
<1>8. part > 10 => \/ view'.shape["snapshots"] = "ci"
                   \/ Reshape("snapshots", "ci") \in Coming'
                   \/ Rename("snapshots_ci_cancel", "snapshots") \in Coming'
  <2>1. view'.shape["snapshots"] = ShapeAfter(view, Due, "snapshots")
    BY <1>1, <1>2
  <2> QED  BY <2>1, <1>0, <1>2, <1>3, <1>4, <1>5, <1>6 DEF ShapesDone, ShapeAfter
<1>9. ASSUME part > 11
      PROVE  \/ view'.shape["steps"] = "tenant"
             \/ Reshape("steps", "tenant") \in Coming'
             \/ Rename("steps_phase10", "steps") \in Coming'
  <2>1. view'.shape["steps"] = ShapeAfter(view, Due, "steps")
    BY <1>1, <1>2
  <2>2. Rename("steps_phase4", "steps") \notin Coming
    BY <1>0, <1>9 DEF InPlace
  <2>3. ASSUME Due.op = "drop", Due.what = "steps"
        PROVE  Rename("steps_phase10", "steps") \in Coming'
    <3>1. PICK t \in Temporary : Due' = Rename(t, "steps") /\ Original(t) = "steps"
      BY <2>3, SuccessorFollows DEF Rebuilt
    <3>2. Rename(t, "steps") \in Coming'
      BY <3>1, <2>3, <1>0, SuccessorFollows DEF Rebuilt
    <3>3. t # "snapshots_ci_cancel" /\ t # "steps_phase4"
      BY <3>1, <3>2, <2>2, <1>0 DEF Original
    <3> QED  BY <3>2, <3>3 DEF Temporary
  <2>4. ASSUME Due.op = "rename", Due.to = "steps"
        PROVE  view.shape[Due.what] = "tenant"
    <3>1. /\ Due.what \in Temporary /\ Original(Due.what) = "steps" /\ Carried(Due.what)
          /\ Due = Rename(Due.what, "steps")
      BY <2>4, <1>0, EffectTypes, SuccessorFollows
    <3>2. Due.what # "steps_phase4" /\ Due.what # "snapshots_ci_cancel"
      BY <3>1, <2>2, <1>0 DEF Original
    <3>3. NewShape(Due.what) = "tenant"
      BY <3>1, <3>2 DEF NewShape, Temporary
    <3> QED  BY <3>1, <3>3 DEF Carried
  <2> QED  BY <2>1, <2>3, <2>4, <1>0, <1>2, <1>5, <1>6, <1>9 DEF ShapesDone, ShapeAfter
<1>10. ASSUME part > 11
       PROVE  \/ view'.shape["idempotency"] = "tenant"
              \/ Create("idempotency", "tenant") \in Coming'
  <2>1. view'.shape["idempotency"] = ShapeAfter(view, Due, "idempotency")
    BY <1>1, <1>2
  <2>2. ASSUME Due.op = "drop", Due.what = "idempotency"
        PROVE  Create("idempotency", "tenant") \in Coming'
    <3>1. Due = Drop("idempotency")
      BY <2>2, <1>0, EffectTypes
    <3> QED  BY <3>1, <1>0, SuccessorFollows
  <2>3. ASSUME Due = Create("idempotency", "tenant")
        PROVE  view.shape["idempotency"] = "none"
    <3>1. Due.op = "create" /\ ~Begins(Due) /\ Due.what = "idempotency"
      BY <2>3 DEF Create, Begins
    <3> QED  BY <3>1, <1>0 DEF Ready
  <2> QED  BY <2>1, <2>2, <2>3, <1>0, <1>2, <1>5, <1>6, <1>10 DEF ShapesDone, ShapeAfter
<1> QED  BY <1>0, <1>7, <1>8, <1>9, <1>10 DEF ShapesDone

LEMMA PlaceStep ==
    ASSUME MigrationInv, ExecuteStatement, ~StatementRaises(view, Head(todo).effect)
    PROVE  InPlace'
<1>0. /\ Due \in AnyEffect /\ view \in DatabaseType /\ view' = Apply(view, Due) /\ InPlace
      /\ Coming' \subseteq Coming /\ part' = part /\ applied' = applied /\ Due \in Coming
  BY StatementFacts DEF MigrationInv, DatabaseSound
<1>1. view'.versions = view.versions \cup IF Due.op = "record" THEN {Due.what} ELSE {}
  BY <1>0, ApplyIs
<1>2. ASSUME 10 \in view'.versions, 10 \notin view.versions
      PROVE  Due = Record(10) /\ Coming' = {} /\ part = 12
  <2>1. Due = Record(10)
    BY <1>0, <1>1, <1>2, EffectTypes
  <2> QED  BY <2>1, <1>0, LastRecord, SkippedAre DEF InPlace
<1> QED  BY <1>0, <1>2 DEF InPlace
----------------------------------------------------------------------------
(* The invariant is inductive. *)

LEMMA PartCountNext == Parts' = 13
<1>1. Len(ApplyMigrations({}, disk))' = 13
  BY DEF ApplyMigrations
<1> QED  BY <1>1 DEF Parts

LEMMA StatementStep ==
    ASSUME MigrationInv, ExecuteStatement, ~StatementRaises(view, Head(todo).effect)
    PROVE  MigrationInv'
<1>1. Ordered(todo)' /\ RecordsLast(todo)'
  BY StatementFacts
<1>2. RunnerInv'
  <2>1. applied \subseteq view'.versions
    <3>1. view \in DatabaseType /\ applied \subseteq view.versions
      BY DEF MigrationInv, MigrationTypeOK, RunnerInv
    <3> QED  BY <3>1, ApplyIs, StatementFacts
  <2> QED  BY <2>1, StatementFacts DEF MigrationInv, RunnerInv
<1>3. MigrationTypeOK'
  <2>1. view' \in DatabaseType /\ disk' \in DatabaseType
    BY DatabaseStep DEF DatabaseSound
  <2>2. /\ open' \in BOOLEAN /\ (~open' => view' = disk')
        /\ UNCHANGED <<applied, part, runner, serving, aborts, serves>>
    BY StatementFacts
  <2>3. Parts = 13 /\ Parts' = 13
    BY PartCount, PartCountNext
  <2> QED  BY <2>1, <2>2, <2>3 DEF MigrationInv, MigrationTypeOK
<1>4. backend' \in {"sqlite", "postgresql"}
  BY StatementFacts DEF MigrationInv
<1> QED  BY <1>1, <1>2, <1>3, <1>4, DatabaseStep, RowsKeptStep, ReadyStep, WorkStep, ShapesStep,
            PlaceStep DEF MigrationInv

\* A run that ends leaves nothing to do.
LEMMA NothingToDo ==
    /\ Ordered(<<>>) /\ RecordsLast(<<>>) /\ Effects(<<>>) = {}
<1>1. <<>> \in Seq(Statement) /\ Len(<<>>) = 0 /\ DOMAIN <<>> = {}
  OBVIOUS
<1> QED  BY <1>1 DEF Ordered, RecordsLast, Effects

LEMMA AtRest ==
    ASSUME MigrationInv, todo' = <<>>, part' = 0, applied' = {}, open' = FALSE, runner' = "none",
           view' = disk', disk' \in {disk, view}, holds' = holds, backend' = backend,
           holds \subseteq disk'.rows, serving' \in BOOLEAN, serving' => Complete(disk'),
           aborts' \in 0 .. MaxAborts, serves' \in 0 .. MaxServes
    PROVE  MigrationInv'
<1>1. /\ DatabaseSound(disk) /\ DatabaseSound(view) /\ holds \subseteq Rebuilt
      /\ backend \in {"sqlite", "postgresql"}
  BY DEF MigrationInv, RowsKept
<1>2. DatabaseSound(disk)' /\ DatabaseSound(view)' /\ disk' \in DatabaseType
  BY <1>1 DEF DatabaseSound, Recorded
<1>3. /\ Ordered(todo)' /\ RecordsLast(todo)' /\ Coming' = {}
  BY NothingToDo DEF Coming
<1>4. RunnerInv' /\ RowsKept' /\ Ready'
  BY <1>1, <1>2 DEF RunnerInv, RowsKept, Ready, Complete, DatabaseType
<1>5. WorkDone' /\ ShapesDone' /\ InPlace'
  BY <1>3 DEF WorkDone, ShapesDone, InPlace
<1>6. MigrationTypeOK'
  <2>1. Parts' = 13
    BY PartCount, PartCountNext
  <2>2. part' \in 0 .. Parts' + 1
    BY <2>1
  <2>3. disk' \in DatabaseType /\ view' \in DatabaseType
    BY <1>2
  <2>4. open' \in BOOLEAN /\ applied' \subseteq Versions
    OBVIOUS
  <2>5. backend' \in {"sqlite", "postgresql"} /\ runner' \in {"none", "migrate", "serve"}
    BY <1>1
  <2> QED  BY <2>2, <2>3, <2>4, <2>5 DEF MigrationTypeOK
<1> QED  BY <1>1, <1>2, <1>3, <1>4, <1>5, <1>6 DEF MigrationInv

LEMMA InitializeStep ==
    ASSUME MigrationInv, NEW who \in {"migrate", "serve"}, Initialize(who),
           serves' \in 0 .. MaxServes
    PROVE  MigrationInv'
<1>1. /\ runner = "none" /\ ~serving /\ todo = <<>>
      /\ runner' = who /\ applied' = disk.versions /\ view' = disk /\ disk' = disk
      /\ open' \in BOOLEAN /\ part' = 1 /\ todo' = <<>>
      /\ UNCHANGED <<backend, profile, holds, serving, aborts>>
  BY DEF Initialize, MigrationInv, RunnerInv
<1>2. DatabaseSound(disk)' /\ DatabaseSound(view)' /\ disk \in DatabaseType
  BY <1>1 DEF MigrationInv, DatabaseSound, Recorded
<1>3. Ordered(todo)' /\ RecordsLast(todo)' /\ Coming' = {}
  BY <1>1, NothingToDo DEF Coming
<1>4. RunnerInv' /\ RowsKept' /\ Ready'
  BY <1>1, <1>2 DEF MigrationInv, RunnerInv, RowsKept, Ready, DatabaseType, Complete
<1>5. WorkDone' /\ ShapesDone' /\ InPlace'
  BY <1>1, <1>3 DEF WorkDone, ShapesDone, InPlace
<1>6. MigrationTypeOK'
  <2>1. Parts' = 13
    BY PartCount, PartCountNext
  <2> QED  BY <1>1, <1>2, <2>1 DEF MigrationTypeOK, MigrationInv, DatabaseType
<1> QED  BY <1>1, <1>2, <1>3, <1>4, <1>5, <1>6 DEF MigrationInv

LEMMA LoadPartStep ==
    ASSUME MigrationInv, LoadPart
    PROVE  MigrationInv'
<1>0. /\ runner # "none" /\ todo = <<>> /\ part \in 1 .. 13
      /\ todo' = ApplyMigrations(applied, view)[part] /\ part' = part + 1
      /\ UNCHANGED <<backend, profile, holds, disk, view, open, applied, runner, serving, aborts,
                     serves>>
  BY PartCount DEF LoadPart
<1>1. PartSound(part, applied, view, todo')
  BY <1>0, PartsSound
<1>2. Coming = {} /\ Coming' = Effects(todo')
  BY <1>0, NothingToDo DEF Coming
<1>3. /\ Recorded(view) /\ view.shape["snapshots"] \in {"none", "plain", "ci"}
      /\ applied \subseteq view.versions /\ WorkDone /\ ShapesDone /\ InPlace /\ RowsKept
      /\ RunnerInv /\ MigrationTypeOK
  BY DEF MigrationInv, DatabaseSound, RunnerInv
<1>4. Ordered(todo)' /\ RecordsLast(todo)'
  BY <1>1 DEF PartSound, Whole
<1>5. todo' # <<>> => Due' = todo'[1].effect /\ Begins(Due')
  <2>1. todo' \in Seq(Statement)
    BY <1>4 DEF Ordered
  <2>2. todo' # <<>> => Head(todo') = todo'[1] /\ Len(todo') > 0
    BY <2>1
  <2> QED  BY <2>2, <1>1 DEF PartSound, Whole, Due
<1>6. Ready'
  BY <1>5 DEF Ready, Begins
<1>7. RowsKept'
  BY <1>0, <1>3 DEF RowsKept
<1>8. RunnerInv'
  BY <1>0, <1>3 DEF RunnerInv, Complete
<1>9. WorkDone'
  <2> SUFFICES ASSUME NEW p \in 1 .. 13, p < part + 1
               PROVE  /\ \A o \in Makes[p] : o \in view.made \/ Make(o) \in Coming'
                      /\ \A v \in Records[p] : v \in view.versions \/ Record(v) \in Coming'
    BY <1>0 DEF WorkDone
  <2>1. CASE p < part
    BY <2>1, <1>2, <1>3 DEF WorkDone
  <2>2. CASE p = part
    <3>1. \A o \in Makes[p] : o \in view.made \/ Make(o) \in Coming'
      BY <2>2, <1>1, <1>2, <1>3 DEF PartSound, Recorded
    <3>2. \A v \in Records[p] : v \in view.versions \/ Record(v) \in Coming'
      BY <2>2, <1>1, <1>2, <1>3 DEF PartSound
    <3> QED  BY <3>1, <3>2
  <2> QED  BY <2>1, <2>2, <1>0
<1>10. ShapesDone'
  <2>1. part + 1 > 9 => \/ view.shape["snapshots"] # "none"
                        \/ Create("snapshots", "ci") \in Coming'
    BY <1>0, <1>1, <1>2, <1>3 DEF PartSound, ShapesDone
  <2>2. part + 1 > 10 => \/ view.shape["snapshots"] = "ci"
                         \/ Reshape("snapshots", "ci") \in Coming'
                         \/ Rename("snapshots_ci_cancel", "snapshots") \in Coming'
    BY <1>0, <1>1, <1>2, <1>3 DEF PartSound, ShapesDone
  <2>3. ASSUME part + 1 > 11
        PROVE  /\ \/ view.shape["steps"] = "tenant"
                  \/ Reshape("steps", "tenant") \in Coming'
                  \/ Rename("steps_phase10", "steps") \in Coming'
               /\ \/ view.shape["idempotency"] = "tenant"
                  \/ Create("idempotency", "tenant") \in Coming'
    <3>1. CASE part > 11
      BY <3>1, <1>2, <1>3 DEF ShapesDone
    <3>2. CASE part = 11
      <4>1. CASE 10 \in applied
        BY <4>1, <1>3 DEF Recorded
      <4>2. CASE 10 \notin applied
        BY <3>2, <4>2, <1>1, <1>2 DEF PartSound
      <4> QED  BY <4>1, <4>2
    <3> QED  BY <3>1, <3>2, <2>3, <1>0
  <2> QED  BY <2>1, <2>2, <2>3, <1>0 DEF ShapesDone
<1>11. InPlace'
  <2>1. /\ Record(3) \in Coming' => part + 1 = 3
        /\ Record(4) \in Coming' => part + 1 = 4
        /\ Record(10) \in Coming' => part + 1 = 12
        /\ Rename("steps_phase4", "steps") \in Coming' => part + 1 = 5
    BY <1>0, <1>1, <1>2 DEF PartSound
  <2>2. \A e \in Coming' : Undoes(e) => 10 \notin view.versions
    <3> SUFFICES ASSUME NEW e \in Coming', Undoes(e) PROVE 10 \notin view.versions
      OBVIOUS
    <3>1. \/ part = 4 /\ view.shape["steps"] = "phase3"
          \/ part = 11 /\ 10 \notin applied
      BY <1>1, <1>2 DEF PartSound
    <3> QED  BY <3>1, <1>0, <1>3 DEF Recorded, InPlace
  <2>3. 10 \in view.versions => 10 \in applied \/ part + 1 > 11
    BY <1>0, <1>3 DEF InPlace
  <2> QED  BY <2>1, <2>2, <2>3, <1>0 DEF InPlace
<1>12. MigrationTypeOK'
  <2>1. Parts = 13 /\ Parts' = 13
    BY PartCount, PartCountNext
  <2> QED  BY <2>1, <1>0, <1>3 DEF MigrationTypeOK
<1>13. DatabaseSound(disk)' /\ DatabaseSound(view)' /\ backend' \in {"sqlite", "postgresql"}
  BY <1>0 DEF MigrationInv, DatabaseSound, Recorded
<1> QED  BY <1>4, <1>6, <1>7, <1>8, <1>9, <1>10, <1>11, <1>12, <1>13 DEF MigrationInv

LEMMA FinishStep ==
    ASSUME MigrationInv, FinishMigration
    PROVE  MigrationInv'
<1>0. /\ runner # "none" /\ todo = <<>> /\ part = 14
      /\ disk' = view /\ view' = view /\ open' = FALSE /\ serving' \in BOOLEAN
      /\ runner' = "none" /\ part' = 0 /\ applied' = {} /\ todo' = <<>>
      /\ UNCHANGED <<backend, profile, holds, aborts, serves>>
  BY PartCount DEF FinishMigration
<1>1. Coming = {}
  BY <1>0, NothingToDo DEF Coming
<1>2. view \in DatabaseType /\ WorkDone /\ ShapesDone /\ holds \subseteq view.rows
  BY <1>0 DEF MigrationInv, MigrationTypeOK, RowsKept
<1>3. Complete(view)
  <2>1. \A p \in 1 .. 13 : Makes[p] \subseteq view.made /\ Records[p] \subseteq view.versions
    BY <1>0, <1>1, <1>2 DEF WorkDone
  <2>2. Versions \subseteq view.versions
    BY <2>1, RecordsAre, VersionMembers
  <2>3. Object \subseteq view.made
    <3>1. /\ Makes[2] \subseteq view.made /\ Makes[3] \subseteq view.made
          /\ Makes[5] \subseteq view.made /\ Makes[6] \subseteq view.made
          /\ Makes[7] \subseteq view.made /\ Makes[8] \subseteq view.made
          /\ Makes[9] \subseteq view.made /\ Makes[10] \subseteq view.made
          /\ Makes[12] \subseteq view.made /\ Makes[13] \subseteq view.made
      BY <2>1
    <3> QED  BY <3>1, MakesAre DEF Object
  <2>4. view.made \subseteq Object /\ view.versions \subseteq Versions
    BY <1>2 DEF DatabaseType
  <2> QED  BY <2>2, <2>3, <2>4, <1>0, <1>1, <1>2 DEF Complete, ShapesDone
<1>4. aborts \in 0 .. MaxAborts /\ serves \in 0 .. MaxServes
  BY DEF MigrationInv, MigrationTypeOK
<1> QED  BY <1>0, <1>2, <1>3, <1>4, AtRest

LEMMA MigrationInitial == MigrationInit => MigrationInv
<1> SUFFICES ASSUME MigrationInit PROVE MigrationInv
  OBVIOUS
<1>1. disk \in {Empty, Phase3, Phase9, Phase11}
  BY DEF MigrationInit
<1>2. /\ \A d \in {Empty, Phase3, Phase9, Phase11} :
            DatabaseSound(d) /\ d.rows \subseteq Rebuilt
  <2>1. /\ 2 .. 3 \subseteq Versions /\ 2 .. 9 \subseteq Versions /\ 2 .. 11 \subseteq Versions
        /\ {"phase3", "phase4", "tenant", "none", "plain", "ci", "global"} = Shape
        /\ {"steps", "snapshots", "idempotency"} \subseteq Table
    BY DEF Versions, SCHEMA_VERSION, Shape, Table
  <2>2. DatabaseSound(Empty) /\ Empty.rows \subseteq Rebuilt
    BY <2>1 DEF Empty, DatabaseSound, DatabaseType, Recorded
  <2> DEFINE shapes(s, n, i) == [[t \in Table |-> "none"] EXCEPT !["steps"] = s,
                                    !["snapshots"] = n, !["idempotency"] = i]
  <2>3. ASSUME NEW last \in {3, 9, 11}, NEW s \in Shape, NEW n \in Shape, NEW i \in Shape,
               NEW made \in SUBSET Object
        PROVE  /\ Database(last, s, n, i, made) \in DatabaseType
               /\ Database(last, s, n, i, made).rows = {"steps", "snapshots"}
               /\ Database(last, s, n, i, made).made = made
               /\ Database(last, s, n, i, made).versions = 2 .. last
               /\ Database(last, s, n, i, made).shape["steps"] = s
               /\ Database(last, s, n, i, made).shape["snapshots"] = n
               /\ Database(last, s, n, i, made).shape["idempotency"] = i
    <3>1. shapes(s, n, i) \in [Table -> Shape]
      BY <2>1
    <3>2. /\ shapes(s, n, i)["steps"] = s /\ shapes(s, n, i)["snapshots"] = n
          /\ shapes(s, n, i)["idempotency"] = i
      BY <2>1
    <3>3. Database(last, s, n, i, made) = [shape |-> shapes(s, n, i), rows |-> {"steps", "snapshots"},
                                           made |-> made, versions |-> 2 .. last]
      <4>1. /\ Empty = [shape |-> Empty.shape, rows |-> {}, made |-> {}, versions |-> {}]
            /\ Empty.shape = [t \in Table |-> "none"]
        BY DEF Empty
      <4>2. Database(last, s, n, i, made) =
              [Empty EXCEPT !.versions = 2 .. last, !.rows = {"steps", "snapshots"}, !.made = made,
                            !.shape = [Empty.shape EXCEPT !["steps"] = s, !["snapshots"] = n,
                                                          !["idempotency"] = i]]
        BY DEF Database
      <4>3. shapes(s, n, i) = [Empty.shape EXCEPT !["steps"] = s, !["snapshots"] = n,
                                                  !["idempotency"] = i]
        BY <4>1
      <4> HIDE DEF shapes
      <4>4. Database(last, s, n, i, made) =
              [Empty EXCEPT !.versions = 2 .. last, !.rows = {"steps", "snapshots"}, !.made = made,
                            !.shape = shapes(s, n, i)]
        BY <4>2, <4>3
      <4> QED  BY <4>1, <4>4
    <3> HIDE DEF shapes
    <3> QED  BY <2>1, <3>1, <3>2, <3>3 DEF DatabaseType
  <2>4. DatabaseSound(Phase3) /\ Phase3.rows \subseteq Rebuilt
    <3> DEFINE m == {"queue_tables", "reservation_columns", "reservation_times", "event_columns",
                     "reservation_triggers"}
               d == Database(3, "phase3", "none", "global", m)
    <3>1. m \in SUBSET Object /\ Makes[2] = m
      BY MakesAre DEF Object
    <3>2. /\ d \in DatabaseType /\ d.made = m /\ d.versions = 2 .. 3 /\ d.shape["snapshots"] = "none"
      BY <2>1, <2>3, <3>1, SMTT(40)
    <3>3. Phase3 = [d EXCEPT !.rows = {"steps"}]
      BY DEF Phase3
    <3> HIDE DEF d, m
    <3>4. /\ Phase3 \in DatabaseType /\ Phase3.made = m /\ Phase3.versions = 2 .. 3
          /\ Phase3.rows = {"steps"} /\ Phase3.shape["snapshots"] = "none"
      BY <2>1, <3>2, <3>3 DEF DatabaseType
    <3> QED  BY <3>1, <3>4 DEF DatabaseSound, Recorded, Rebuilt
  <2>5. DatabaseSound(Phase9) /\ Phase9.rows \subseteq Rebuilt
    <3> DEFINE m == Object \ {"cancel_columns", "queue_columns", "queue_order", "queue_trigger",
                              "retention_columns", "decision_tables"}
    <3>1. Makes[2] \subseteq m /\ Makes[3] \subseteq m /\ m \in SUBSET Object
      BY MakesAre DEF Object
    <3>2. /\ Phase9 \in DatabaseType /\ Phase9.rows = {"steps", "snapshots"} /\ Phase9.made = m
          /\ Phase9.versions = 2 .. 9 /\ Phase9.shape["snapshots"] = "plain"
      BY <2>1, <2>3, <3>1, SMTT(30) DEF Phase9
    <3> QED  BY <3>1, <3>2 DEF DatabaseSound, Recorded, Rebuilt
  <2>6. DatabaseSound(Phase11) /\ Phase11.rows \subseteq Rebuilt
    <3> DEFINE m == Object \ {"retention_columns", "decision_tables"}
    <3>1. Makes[2] \subseteq m /\ Makes[3] \subseteq m /\ m \in SUBSET Object
      BY MakesAre DEF Object
    <3>2. /\ Phase11 \in DatabaseType /\ Phase11.rows = {"steps", "snapshots"} /\ Phase11.made = m
          /\ Phase11.shape["snapshots"] = "ci" /\ Phase11.shape["steps"] = "tenant"
          /\ Phase11.shape["idempotency"] = "tenant"
      BY <2>1, <2>3, <3>1 DEF Phase11
    <3> QED  BY <3>1, <3>2 DEF DatabaseSound, Recorded, Rebuilt
  <2> QED  BY <2>2, <2>4, <2>5, <2>6
<1>3. /\ DatabaseSound(disk) /\ disk \in DatabaseType /\ holds = disk.rows /\ holds \subseteq Rebuilt
      /\ view = disk /\ open = FALSE /\ applied = {} /\ part = 0 /\ todo = <<>>
      /\ runner = "none" /\ serving = FALSE /\ aborts = 0 /\ serves = 0
      /\ backend \in {"sqlite", "postgresql"}
  BY <1>1, <1>2 DEF MigrationInit, DatabaseSound
<1>4. Ordered(todo) /\ RecordsLast(todo) /\ Coming = {}
  BY <1>3, NothingToDo DEF Coming
<1>5. RunnerInv /\ RowsKept /\ Ready
  BY <1>3 DEF RunnerInv, RowsKept, Ready
<1>6. WorkDone /\ ShapesDone /\ InPlace
  BY <1>3, <1>4 DEF WorkDone, ShapesDone, InPlace
<1>7. MigrationTypeOK
  <2>1. part \in 0 .. Parts + 1
    BY <1>3, PartCount
  <2>2. aborts \in 0 .. MaxAborts /\ serves \in 0 .. MaxServes
    BY <1>3, MigrationAssumption
  <2> QED  BY <1>3, <2>1, <2>2 DEF MigrationTypeOK
<1> QED  BY <1>3, <1>4, <1>5, <1>6, <1>7 DEF MigrationInv

LEMMA StillStep ==
    ASSUME MigrationInv, serving' \in BOOLEAN, serving' => serving,
           UNCHANGED <<backend, holds, disk, view, open, applied, part, todo, runner, aborts, serves>>
    PROVE  MigrationInv'
<1>1. DatabaseSound(disk)' /\ DatabaseSound(view)' /\ backend' \in {"sqlite", "postgresql"}
  BY DEF MigrationInv, DatabaseSound, Recorded
<1>2. Ordered(todo)' /\ RecordsLast(todo)'
  BY DEF MigrationInv
<1>3. RunnerInv'
  BY DEF MigrationInv, RunnerInv, Complete
<1>4. RowsKept'
  BY DEF MigrationInv, RowsKept, Due
<1>5. Ready'
  BY DEF MigrationInv, Ready, Due, Carried
<1>6. WorkDone' /\ ShapesDone' /\ InPlace'
  BY DEF MigrationInv, WorkDone, ShapesDone, InPlace, Coming
<1>7. MigrationTypeOK'
  <2>1. Parts = 13 /\ Parts' = 13
    BY PartCount, PartCountNext
  <2> QED  BY <2>1 DEF MigrationInv, MigrationTypeOK
<1> QED  BY <1>1, <1>2, <1>3, <1>4, <1>5, <1>6, <1>7 DEF MigrationInv

LEMMA MigrationInductive == MigrationInv /\ [MigrationNext]_migrationVars => MigrationInv'
<1> SUFFICES ASSUME MigrationInv, [MigrationNext]_migrationVars PROVE MigrationInv'
  OBVIOUS
<1>0. /\ disk.rows = disk.rows /\ holds \subseteq disk.rows
      /\ aborts \in 0 .. MaxAborts /\ serves \in 0 .. MaxServes
      /\ serving \in BOOLEAN /\ (serving => Complete(disk))
  BY DEF MigrationInv, MigrationTypeOK, RowsKept, RunnerInv
<1>1. CASE Migrate
  <2>1. Initialize("migrate") /\ serves' = serves
    BY <1>1 DEF Migrate
  <2> QED  BY <2>1, <1>0, InitializeStep
<1>2. CASE StartServer
  <2>1. Initialize("serve") /\ serves < MaxServes /\ serves' = serves + 1
    BY <1>2 DEF StartServer
  <2>2. serves' \in 0 .. MaxServes
    BY <2>1, <1>0, MigrationAssumption
  <2> QED  BY <2>1, <2>2, InitializeStep
<1>3. CASE LoadPart
  BY <1>3, LoadPartStep
<1>4. CASE ExecuteStatement
  <2>1. CASE StatementRaises(view, Head(todo).effect)
    <3>1. /\ Abort /\ disk' = disk
          /\ UNCHANGED <<backend, profile, holds, serving, aborts, serves>>
      BY <1>4, <2>1 DEF ExecuteStatement
    <3> QED  BY <3>1, <1>0, AtRest DEF Abort
  <2>2. CASE ~StatementRaises(view, Head(todo).effect)
    BY <1>4, <2>2, StatementStep
  <2> QED  BY <2>1, <2>2
<1>5. CASE AbortMigration
  <2>1. /\ Abort /\ disk' = disk /\ aborts < MaxAborts /\ aborts' = aborts + 1
        /\ UNCHANGED <<backend, profile, holds, serving, serves>>
    BY <1>5 DEF AbortMigration
  <2>2. aborts' \in 0 .. MaxAborts
    BY <2>1, <1>0, MigrationAssumption
  <2> QED  BY <2>1, <2>2, <1>0, AtRest DEF Abort
<1>6. CASE FinishMigration
  BY <1>6, FinishStep
<1>7. CASE StopServer
  <2>1. /\ serving' = FALSE
        /\ UNCHANGED <<backend, profile, holds, disk, view, open, applied, part, todo, runner,
                       aborts, serves>>
    BY <1>7 DEF StopServer
  <2> QED  BY <2>1, StillStep
<1>8. CASE UNCHANGED migrationVars
  <2>1. /\ serving' = serving
        /\ UNCHANGED <<backend, holds, disk, view, open, applied, part, todo, runner, aborts, serves>>
    BY <1>8 DEF migrationVars
  <2> QED  BY <2>1, <1>0, StillStep
<1> QED  BY <1>1, <1>2, <1>3, <1>4, <1>5, <1>6, <1>7, <1>8 DEF MigrationNext

\* Every state of an upgrade, of a server beside it and of their interruptions,
\* for either backend, any database it may find and any bounds, satisfies it.
THEOREM MigrationInvariant == MigrationSpec => []MigrationInv
<1> QED  BY MigrationInitial, MigrationInductive, PTL DEF MigrationSpec

\* The databases, the connection's transaction and its place in the program are
\* well formed, and without a transaction the connection sees what is committed.
THEOREM MigrationTypeCorrect == MigrationSpec => []MigrationTypeOK
<1>1. MigrationInv => MigrationTypeOK
  BY DEF MigrationInv
<1> QED  BY <1>1, MigrationInvariant, PTL

\* No interruption of an upgrade loses the user's rows, and no server starts on an
\* incomplete schema, however often the upgrade is interrupted and tried again.
THEOREM UpgradesAreSafeAlways == MigrationSpec => []UpgradesAreSafe
<1>1. MigrationInv => UpgradesAreSafe
  BY DEF MigrationInv, RowsKept, RunnerInv, UpgradesAreSafe
<1> QED  BY <1>1, MigrationInvariant, PTL
=============================================================================
