---------------------------- MODULE ConfigCache ----------------------------
(***************************************************************************)
(* Spec.decodeCall (src/config/spec.go:108-148): the decoded configs of a  *)
(* Skill, cached by (tenant, version), shared by every goroutine that      *)
(* serves an Execute call.  The mutex protects the map and the list, but   *)
(* it is released while a document is decoded, so a call may find at the   *)
(* second lock that the world has moved on: another goroutine stored the   *)
(* same key, or a newer version of the tenant, or evicted half the cache.  *)
(* One action per stretch of code between two such points, and one per     *)
(* round of its two loops.                                                 *)
(***************************************************************************)
EXTENDS ConfigCalls, Sequences

CONSTANTS
    Size,       \* Spec.size, the number of configs kept
    NoCaller    \* nobody holds the mutex

ASSUME SizeAssumption ==
    /\ Size \in Nat \ {0}
    /\ NoCaller \notin Callers

VARIABLES
    current,   \* the platform's effective config version of each tenant
    pc,        \* where each caller is in decodeCall
    call,      \* the call each caller serves
    cfg,       \* each caller's local result
    cache,     \* Spec.cache: the config reached through the map, by key
    lru,       \* Spec.lru: the keys of the list, most recent first
    mu         \* Spec.mu: who holds it

vars == <<current, pc, call, cfg, cache, lru, mu>>
shared == <<cache, lru, mu>>

(* The stretches of decodeCall that run under the mutex.                   *)
Locked == {"lookup", "recheck", "purge", "evict"}

Points == {"idle", "called", "decode", "store", "done"} \cup Locked

(* Mutants of Key: a key that forgets the version, or the tenant.          *)
TenantKey(c) == <<call[c].tenant, 1>>
VersionKey(c) == <<CHOOSE t \in Tenants : TRUE, call[c].version>>

Key(c) == KeyOf(call[c])

-----------------------------------------------------------------------------
(* container/list and the built-in map, as decodeCall uses them.           *)

Elements(s) == {s[i] : i \in DOMAIN s}

Distinct(s) == \A i, j \in DOMAIN s : s[i] = s[j] => i = j

(* List.Remove of the element that holds k; an element that is no longer   *)
(* in the list is left alone.                                              *)
Remove(s, k) ==
    IF k \in Elements(s)
    THEN LET at == CHOOSE i \in DOMAIN s : s[i] = k
         IN  SubSeq(s, 1, at - 1) \o SubSeq(s, at + 1, Len(s))
    ELSE s

PushFront(s, k) == <<k>> \o s

(* Mutant of MoveToFront: the entry used goes to the wrong end.            *)
MoveToBack(s, k) == IF k \in Elements(s) THEN Append(Remove(s, k), k) ELSE s

MoveToFront(s, k) == IF k \in Elements(s) THEN PushFront(Remove(s, k), k) ELSE s

Put(m, k, v) == [x \in DOMAIN m \cup {k} |-> IF x = k THEN v ELSE m[x]]

Delete(m, k) == [x \in DOMAIN m \ {k} |-> m[x]]

-----------------------------------------------------------------------------
TypeOK ==
    /\ current \in [Tenants -> 1 .. MaxVersion]
    /\ pc \in [Callers -> Points]
    /\ call \in [Callers -> Calls \cup {NoCall}]
    /\ cfg \in [Callers -> Outcomes \cup {NoConfig}]
    /\ DOMAIN cache \subseteq Keys
    /\ \A k \in DOMAIN cache : cache[k] \in Configs
    /\ lru \in Seq(Keys)
    /\ mu \in Callers \cup {NoCaller}

Init ==
    /\ current = [t \in Tenants |-> 1]
    /\ pc = [c \in Callers |-> "idle"]
    /\ call = [c \in Callers |-> NoCall]
    /\ cfg = [c \in Callers |-> NoConfig]
    /\ cache = [k \in {} |-> NoConfig]
    /\ lru = <<>>
    /\ mu = NoCaller

Go(c, point) == pc' = [pc EXCEPT ![c] = point]

(* decodeCall returns to Bind.                                             *)
ReturnWith(c, out) ==
    /\ Go(c, "done")
    /\ cfg' = [cfg EXCEPT ![c] = out]

Lock(c) == mu = NoCaller /\ mu' = c
Unlock(c) == mu = c /\ mu' = NoCaller

-----------------------------------------------------------------------------
(* The platform: the operator saves a new config for a tenant, if there is *)
(* one to be saved, and calls from then on carry the next version.         *)
Publish(t) ==
    /\ current[t] < MaxVersion
    /\ Sends[<<t, current[t] + 1>>] # {}
    /\ current' = [current EXCEPT ![t] = @ + 1]
    /\ UNCHANGED <<pc, call, cfg, shared>>

(* Execute reaches Bind with the call's context (grpc/server.go:167-173).  *)
Ask(c) ==
    /\ pc[c] = "idle"
    /\ \E k \in Calls :
         /\ k.version \in {NoVersion, current[k.tenant]}
         /\ MayCarry(k)
         /\ call' = [call EXCEPT ![c] = k]
    /\ Go(c, "called")
    /\ UNCHANGED <<current, cfg, shared>>

(* No version: decoded every time, the cache is not touched.               *)
DecodeUncached(c) ==
    /\ pc[c] = "called"
    /\ call[c].version = NoVersion
    /\ ReturnWith(c, Decode(call[c].values))
    /\ UNCHANGED <<current, call, shared>>

LockForLookup(c) ==
    /\ pc[c] = "called"
    /\ call[c].version # NoVersion
    /\ Lock(c)
    /\ Go(c, "lookup")
    /\ UNCHANGED <<current, call, cfg, cache, lru>>

LookupHit(c) ==
    /\ pc[c] = "lookup"
    /\ Key(c) \in DOMAIN cache
    /\ lru' = MoveToFront(lru, Key(c))
    /\ ReturnWith(c, cache[Key(c)])
    /\ Unlock(c)
    /\ UNCHANGED <<current, call, cache>>

LookupMiss(c) ==
    /\ pc[c] = "lookup"
    /\ Key(c) \notin DOMAIN cache
    /\ Unlock(c)
    /\ Go(c, "decode")
    /\ UNCHANGED <<current, call, cfg, cache, lru>>

(* Mutant of DecodeCall: the error is not looked at before the store.      *)
DecodeAndStore(c) ==
    /\ pc[c] = "decode"
    /\ Go(c, "store")
    /\ cfg' = [cfg EXCEPT ![c] = Decode(call[c].values)]
    /\ UNCHANGED <<current, call, shared>>

(* Outside the mutex; a failed decode is returned and stored nowhere.      *)
DecodeCall(c) ==
    /\ pc[c] = "decode"
    /\ LET out == Decode(call[c].values) IN
         IF out = DecodeError
         THEN ReturnWith(c, out)
         ELSE Go(c, "store") /\ cfg' = [cfg EXCEPT ![c] = out]
    /\ UNCHANGED <<current, call, shared>>

LockForStore(c) ==
    /\ pc[c] = "store"
    /\ Lock(c)
    /\ Go(c, "recheck")
    /\ UNCHANGED <<current, call, cfg, cache, lru>>

(* Mutants of RecheckHit: the caller keeps its own decode; the return      *)
(* inside the second critical section forgets the mutex.                   *)
RecheckIgnored(c) ==
    /\ pc[c] = "recheck"
    /\ Key(c) \in DOMAIN cache
    /\ lru' = MoveToFront(lru, Key(c))
    /\ ReturnWith(c, cfg[c])
    /\ Unlock(c)
    /\ UNCHANGED <<current, call, cache>>

RecheckLeaksMutex(c) ==
    /\ pc[c] = "recheck"
    /\ Key(c) \in DOMAIN cache
    /\ lru' = MoveToFront(lru, Key(c))
    /\ ReturnWith(c, cache[Key(c)])
    /\ UNCHANGED <<current, call, cache, mu>>

(* Decoded concurrently: the config stored first is the one returned.      *)
RecheckHit(c) ==
    /\ pc[c] = "recheck"
    /\ Key(c) \in DOMAIN cache
    /\ lru' = MoveToFront(lru, Key(c))
    /\ ReturnWith(c, cache[Key(c)])
    /\ Unlock(c)
    /\ UNCHANGED <<current, call, cache>>

RecheckMiss(c) ==
    /\ pc[c] = "recheck"
    /\ Key(c) \notin DOMAIN cache
    /\ Go(c, "purge")
    /\ UNCHANGED <<current, call, cfg, shared>>

(* Mutant of OwnKeys: only the versions that are older are purged.         *)
OlderKeys(c) ==
    {k \in Elements(lru) : k[1] = call[c].tenant /\ k[2] < call[c].version}

(* The listed keys of the caller's tenant.                                 *)
OwnKeys(c) == {k \in Elements(lru) : k[1] = call[c].tenant}

(* Mutant of PurgeOne: the map keeps what the list gives up.               *)
PurgeListOnly(c) ==
    /\ pc[c] = "purge"
    /\ \E k \in OwnKeys(c) : lru' = Remove(lru, k)
    /\ UNCHANGED <<current, pc, call, cfg, cache, mu>>

(* One round of the loop over the list that removes an entry.              *)
PurgeOne(c) ==
    /\ pc[c] = "purge"
    /\ \E k \in OwnKeys(c) :
         /\ lru' = Remove(lru, k)
         /\ cache' = Delete(cache, k)
    /\ UNCHANGED <<current, pc, call, cfg, mu>>

Push(c) ==
    /\ pc[c] = "purge"
    /\ OwnKeys(c) = {}
    /\ lru' = PushFront(lru, Key(c))
    /\ cache' = Put(cache, Key(c), cfg[c])
    /\ Go(c, "evict")
    /\ UNCHANGED <<current, call, cfg, mu>>

(* Mutant of Overfull: off by one.                                         *)
WellOverfull == Len(lru) > Size + 1

Overfull == Len(lru) > Size

(* Mutant of EvictOldest: the wrong end of the list.                       *)
EvictNewest(c) ==
    /\ pc[c] = "evict"
    /\ Overfull
    /\ lru' = Tail(lru)
    /\ cache' = Delete(cache, Head(lru))
    /\ UNCHANGED <<current, pc, call, cfg, mu>>

EvictOldest(c) ==
    /\ pc[c] = "evict"
    /\ Overfull
    /\ lru' = Remove(lru, lru[Len(lru)])
    /\ cache' = Delete(cache, lru[Len(lru)])
    /\ UNCHANGED <<current, pc, call, cfg, mu>>

ReturnStored(c) ==
    /\ pc[c] = "evict"
    /\ ~Overfull
    /\ ReturnWith(c, cfg[c])
    /\ Unlock(c)
    /\ UNCHANGED <<current, call, cache, lru>>

(* Bind hands the config on and the goroutine is free for another call.    *)
Return(c) ==
    /\ pc[c] = "done"
    /\ Go(c, "idle")
    /\ call' = [call EXCEPT ![c] = NoCall]
    /\ cfg' = [cfg EXCEPT ![c] = NoConfig]
    /\ UNCHANGED <<current, shared>>

-----------------------------------------------------------------------------
(* What the caller's goroutine does of its own accord.                     *)
Run(c) ==
    \/ DecodeUncached(c) \/ DecodeCall(c)
    \/ LookupHit(c) \/ LookupMiss(c)
    \/ RecheckHit(c) \/ RecheckMiss(c)
    \/ PurgeOne(c) \/ Push(c) \/ EvictOldest(c) \/ ReturnStored(c)

Acquire(c) == LockForLookup(c) \/ LockForStore(c)

Next ==
    \/ \E t \in Tenants : Publish(t)
    \/ \E c \in Callers : Ask(c) \/ Acquire(c) \/ Run(c) \/ Return(c)

Spec == Init /\ [][Next]_vars

(* A goroutine keeps running, and sync.Mutex hands itself to a waiter that *)
(* has starved for a millisecond: a goroutine that finds it free again and *)
(* again does get it.  Nothing says that a call arrives or that the        *)
(* operator saves.                                                         *)
FairSpec ==
    /\ Spec
    /\ \A c \in Callers : WF_vars(Run(c)) /\ SF_vars(Acquire(c))

-----------------------------------------------------------------------------
(* The map and the list always hold the same keys, each listed once: no    *)
(* entry is reachable through one and lost to the other, whichever         *)
(* goroutines stored, purged and evicted.                                  *)
MapMatchesList ==
    /\ Elements(lru) = DOMAIN cache
    /\ Distinct(lru)

(* At most one version of a tenant is cached, even when several versions   *)
(* are decoded at once.                                                    *)
OneVersionPerTenant ==
    \A k, l \in DOMAIN cache : k[1] = l[1] => k = l

(* CacheSize bounds the cache whenever the mutex is free, and inside it    *)
(* the list is at most one entry over.                                     *)
Bounded ==
    /\ Len(lru) <= Size + 1
    /\ mu = NoCaller => Len(lru) <= Size

(* A call whose version determines its document is answered the decode of  *)
(* the document it carries, as if there were no cache: never a config of   *)
(* another tenant or of another version, and a failure only if its own     *)
(* document fails.                                                         *)
Transparent ==
    \A c \in Callers :
        pc[c] = "done" /\ (call[c].version = NoVersion \/ Determined(Key(c)))
            => cfg[c] = Decode(call[c].values)

(* A versioned call that succeeds leaves with the config cached for its    *)
(* key at that moment, and its entry is the most recent one: goroutines    *)
(* that decoded the same key at once all leave with the first one stored.  *)
ReturnsTheStored ==
    [][\A c \in Callers :
         /\ pc[c] # "done" /\ pc'[c] = "done"
         /\ call[c].version # NoVersion /\ cfg'[c] # DecodeError
         => /\ Key(c) \in DOMAIN cache'
            /\ cfg'[c] = cache'[Key(c)]
            /\ lru' # <<>> /\ Head(lru') = Key(c)]_vars

(* An entry leaves the cache for one of two reasons only: a goroutine      *)
(* stores another version of its tenant, or the cache is over its bound    *)
(* and the entry is the least recently used one, which is never the entry  *)
(* just stored.                                                            *)
RemovedForAReason ==
    [][\A k \in DOMAIN cache \ DOMAIN cache' :
         \E c \in Callers :
             /\ mu = c
             /\ k # Key(c)
             /\ \/ k[1] = call[c].tenant /\ pc[c] = "purge"
                \/ Overfull /\ k = lru[Len(lru)]]_vars

(* Recency: of two entries that stay, the order in the list only changes   *)
(* when one of them is the entry just used, so the last of the list is     *)
(* the one that has gone unused the longest.                               *)
KeepsRecency ==
    [][\A i, j \in DOMAIN lru :
         /\ i < j /\ {lru[i], lru[j]} \subseteq DOMAIN cache'
         /\ \A c \in Callers : mu = c => lru[j] # Key(c)
         => \E m, n \in DOMAIN lru' :
                m < n /\ lru'[m] = lru[i] /\ lru'[n] = lru[j]]_vars

(* src/README.md:604-605: a tenant's new version replaces its old entry.   *)
(* Read as a rule of replacement, an entry makes room for a newer version  *)
(* of its tenant, never for an older one.                                  *)
NewVersionReplacesOld ==
    [][\A k \in DOMAIN cache \ DOMAIN cache' :
         \A c \in Callers :
             mu = c /\ pc[c] = "purge" => k[2] < call[c].version]_vars

(* A call that has reached Bind is answered: the mutex is given back on    *)
(* every path, and the loops over the list end.                            *)
EveryCallReturns ==
    \A c \in Callers : pc[c] = "called" ~> pc[c] = "done"

-----------------------------------------------------------------------------
(* decodeCall implements the service without a cache.                      *)
Service == INSTANCE ConfigService WITH
    answer <- [c \in Callers |-> IF pc[c] = "done" THEN cfg[c] ELSE NoConfig]

Implements == Service!Spec
=============================================================================
