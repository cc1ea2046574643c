--------------------------- MODULE ResourceLocks ----------------------------
(***************************************************************************)
(* Physical resources composed into benches, and the locks that keep two   *)
(* reservations off one device: ResourceCatalog, ResourceLockManager and   *)
(* ResourceReservationCoordinator.  A resource is used by one bench at a   *)
(* time, by one per channel, or shared by all.  Discovery reports devices  *)
(* again, shared another way too, and benches are recomposed, while locks  *)
(* are held and locks expire.                                              *)
(***************************************************************************)
EXTENDS Naturals, FiniteSets

CONSTANTS
    Device,         \* hardware resources
    Reporter,       \* Agents and their plugins, which own what they report
    Reports,        \* what discovery may say of each device, a function on Device
    Required,       \* the devices a bench cannot do without, when it has them
    Channel,        \* channels of the devices shared by channel
    Composed,       \* benches composed of devices
    Designs,        \* the sets of bindings each may be given, a function on Composed
    Claimant,       \* reservations
    HoldsBench,     \* the bench each reservation is of, a function on Claimant
    LockHorizon,    \* bound: the clock runs from 0 to LockHorizon
    MaxTokens       \* bound: fencing tokens of one key

NoChannel == "whole"

\* A HardwareResource; its kind of sharing decides which locks its benches need.
Resource == [source : Reporter, sharing : {"exclusive", "shared", "channel"},
             channels : SUBSET Channel, usable : BOOLEAN]

Binding == [device : Device, channel : Channel \cup {NoChannel}]

ASSUME LocksAssumption ==
    /\ Reports \in [Device -> SUBSET Resource]
    /\ Required \subseteq Device
    /\ Designs \in [Composed -> SUBSET (SUBSET Binding \ {{}})]
    /\ HoldsBench \in [Claimant -> Composed]
    /\ LockHorizon \in Nat /\ MaxTokens \in Nat /\ IsFiniteSet(Device)
    /\ NoChannel \notin Channel /\ "nobody" \notin Claimant

VARIABLES
    resources,  \* ResourceCatalog._resources
    parts,      \* ResourceCatalog._benches: the bindings of each bench
    locks,      \* ResourceLockManager._locks
    tokens,     \* ResourceLockManager._fencing_tokens
    clock,
    promised,   \* what each holder was last given, and until when
    tokensIssued, \* every fencing token ever handed out, and to whom
    mixed       \* devices whose last report does not fit a lock or binding of then

locksVars == <<resources, parts, locks, tokens, clock, promised, tokensIssued, mixed>>

LockKey == Device \X (Channel \cup {NoChannel})

Unlocked == [owner |-> "nobody", until |-> 0, token |-> 0]

\* A lock without an expiry outlives the clock.
Never == LockHorizon + 1

NoPromise == [keys |-> {}, until |-> 0]

\* A device the catalogue does not know.
Absent == [source |-> "nobody", sharing |-> "none", channels |-> {}, usable |-> FALSE]

LocksInit ==
    /\ resources = [d \in Device |-> Absent]
    /\ parts = [c \in Composed |-> {}]
    /\ locks = [k \in LockKey |-> Unlocked]
    /\ tokens = [k \in LockKey |-> 0]
    /\ clock = 0
    /\ promised = [h \in Claimant |-> NoPromise]
    /\ tokensIssued = {}
    /\ mixed = {}

Known(d) == resources[d].sharing # "none"

\* A channel, or the whole device, goes with a kind of sharing.
Fits(x, sharing) == (x # NoChannel) <=> (sharing = "channel")

\* _validate_binding: a channel is named exactly where the device has channels.
ValidBinding(b) ==
    /\ Known(b.device)
    /\ Fits(b.channel, resources[b.device].sharing)
    /\ b.channel = NoChannel \/ b.channel \in resources[b.device].channels

Bound(d) == {b \in UNION {parts[c] : c \in Composed} : b.device = d}

\* _lock_keys, by what the catalogue says now: a shared device is never locked.
KeyOf(b) ==
    <<b.device, IF resources[b.device].sharing = "channel" THEN b.channel ELSE NoChannel>>

LockKeys(c) == {KeyOf(b) : b \in {x \in parts[c] : resources[x.device].sharing # "shared"}}

\* _expire_locked runs at the start of every operation on the locks.
Unexpired(k) == locks[k] # Unlocked /\ locks[k].until > clock

LocksNow == [k \in LockKey |-> IF Unexpired(k) THEN locks[k] ELSE Unlocked]

\* What of a device is locked or bound.
InUse(d) == {b.channel : b \in Bound(d)} \cup
            {x \in Channel \cup {NoChannel} : LocksNow[<<d, x>>] # Unlocked}

-----------------------------------------------------------------------------
\* upsert_resource: discovery reports a device, and its record is replaced by
\* what is reported now, whatever is locked or bound under the former one.
\* Another Agent or plugin is refused.
UpsertResource(d, r) ==
    /\ Known(d) => resources[d].source = r.source
    /\ r # resources[d]
    /\ resources' = [resources EXCEPT ![d] = r]
    /\ mixed' = IF \A x \in InUse(d) : Fits(x, r.sharing) THEN mixed \ {d} ELSE mixed \cup {d}
    /\ UNCHANGED <<parts, locks, tokens, clock, promised, tokensIssued>>

\* remove_resource is refused while a bench refers to the device.
RemoveResource(d) ==
    /\ Known(d) /\ Bound(d) = {}
    /\ resources' = [resources EXCEPT ![d] = Absent]
    /\ UNCHANGED <<parts, locks, tokens, clock, promised, tokensIssued, mixed>>

\* register_bench replaces the bindings of a bench, whoever holds it.
RegisterBench(c, bindings) ==
    /\ bindings # parts[c]
    /\ \A b \in bindings : ValidBinding(b)
    /\ parts' = [parts EXCEPT ![c] = bindings]
    /\ UNCHANGED <<resources, locks, tokens, clock, promised, tokensIssued, mixed>>

\* remove_bench
RemoveBench(c) ==
    /\ parts[c] # {}
    /\ parts' = [parts EXCEPT ![c] = {}]
    /\ UNCHANGED <<resources, locks, tokens, clock, promised, tokensIssued, mixed>>

\* require_available
DeviceAvailable(c) ==
    \A b \in parts[c] : b.device \in Required => resources[b.device].usable

\* Mutant: a key its holder does not free is passed over, the rest is taken
ConflictsNever(h, keys) == {}

Conflicts(h, keys) == {k \in keys : LocksNow[k] # Unlocked /\ LocksNow[k].owner # h}

\* Mutant: a key's token starts again when nobody holds it
NextTokenRestarted(k) == IF LocksNow[k] = Unlocked THEN 1 ELSE tokens[k] + 1

NextToken(k) == tokens[k] + 1

\* acquire_for_bench: all the keys of the bench or none.  A key the holder has
\* already keeps its token and takes the new expiry.
Acquire(h, until) ==
    LET c == HoldsBench[h]
        keys == LockKeys(c)
        fresh == {k \in keys : LocksNow[k] = Unlocked}
    IN /\ parts[c] # {}
       /\ DeviceAvailable(c)
       /\ until > clock
       /\ Conflicts(h, keys) = {}
       /\ \A k \in fresh : tokens[k] < MaxTokens
       /\ locks' = [k \in LockKey |->
            IF k \in fresh THEN [owner |-> h, until |-> until, token |-> NextToken(k)]
            ELSE IF k \in keys THEN [LocksNow[k] EXCEPT !.owner = h, !.until = until]
            ELSE LocksNow[k]]
       /\ tokens' = [k \in LockKey |-> IF k \in fresh THEN NextToken(k) ELSE tokens[k]]
       /\ promised' = [promised EXCEPT ![h] = [keys |-> keys, until |-> until]]
       /\ tokensIssued' = tokensIssued \cup {<<k, NextToken(k), h>> : k \in fresh}
       /\ UNCHANGED <<resources, parts, clock, mixed>>

\* An acquisition that meets another holder raises, and only forgets the locks
\* that have expired; so do active_locks and recover_expired.
RecoverExpired ==
    /\ LocksNow # locks
    /\ locks' = LocksNow
    /\ UNCHANGED <<resources, parts, tokens, clock, promised, tokensIssued, mixed>>

\* renew_owner extends the locks that have not expired, and only those.
Renew(h, until) ==
    /\ until > clock
    /\ locks' = [k \in LockKey |->
         IF LocksNow[k].owner = h THEN [LocksNow[k] EXCEPT !.until = until] ELSE LocksNow[k]]
    /\ promised' = [promised EXCEPT ![h] =
         IF @.until > clock THEN [@ EXCEPT !.until = until] ELSE @]
    /\ UNCHANGED <<resources, parts, tokens, clock, tokensIssued, mixed>>

\* release_owner
ReleaseLocks(h) ==
    /\ promised[h] # NoPromise
    /\ locks' = [k \in LockKey |-> IF locks[k].owner = h THEN Unlocked ELSE locks[k]]
    /\ promised' = [promised EXCEPT ![h] = NoPromise]
    /\ UNCHANGED <<resources, parts, tokens, clock, tokensIssued, mixed>>

\* External: time passes.
Pass ==
    /\ clock < LockHorizon
    /\ clock' = clock + 1
    /\ UNCHANGED <<resources, parts, locks, tokens, promised, tokensIssued, mixed>>

LocksNext ==
    \/ \E d \in Device : (\E r \in Reports[d] : UpsertResource(d, r)) \/ RemoveResource(d)
    \/ \E c \in Composed : (\E b \in Designs[c] : RegisterBench(c, b)) \/ RemoveBench(c)
    \/ \E h \in Claimant, until \in 1..Never : Acquire(h, until) \/ Renew(h, until)
    \/ \E h \in Claimant : ReleaseLocks(h)
    \/ RecoverExpired \/ Pass

LocksSpec == LocksInit /\ [][LocksNext]_locksVars

-----------------------------------------------------------------------------
LocksTypeOK ==
    /\ resources \in [Device -> Resource \cup {Absent}]
    /\ \A c \in Composed : parts[c] \subseteq Binding
    /\ \A k \in LockKey :
         \/ locks[k] = Unlocked
         \/ locks[k] \in [owner : Claimant, until : 1..Never, token : 1..MaxTokens]
    /\ clock \in 0..LockHorizon
    /\ mixed \subseteq Device

\* What a reservation was given it keeps, entire, until it expires or releases
\* it, whatever is reported or recomposed meanwhile; no two reservations hold one
\* device or one channel together; nor does one hold a device and another a
\* channel of it, unless the device was reported to be shared another way than
\* some lock or binding of it then said; and no fencing token of a key is ever
\* issued to two holders (resources.acquire_for_bench, upsert_resource).
LocksHold ==
    /\ \A h \in Claimant : promised[h].until > clock =>
         \A k \in promised[h].keys : locks[k].owner = h /\ locks[k].until >= promised[h].until
    /\ \A g, h \in Claimant : g # h /\ promised[g].until > clock /\ promised[h].until > clock =>
         \A j \in promised[g].keys, k \in promised[h].keys :
           /\ j # k
           /\ j[1] = k[1] => j[1] \in mixed \/ NoChannel \notin {j[2], k[2]}
    /\ \A x, y \in tokensIssued : x[1] = y[1] /\ x[2] = y[2] => x[3] = y[3]

\* Who holds each key now.
HolderNow == [k \in LockKey |-> LocksNow[k].owner]

Fenced == INSTANCE FencedLocks WITH Lockable <- LockKey, Party <- Claimant, Free <- Unlocked.owner,
                                    holder <- HolderNow, fence <- tokens

\* The lock manager implements fenced locks: expiry, renewal, recomposition and
\* partial overlap of benches never pass a key from one reservation straight to
\* another, and a key taken again always gets the next token.
LocksAreFenced == Fenced!FencedSpec
=============================================================================
