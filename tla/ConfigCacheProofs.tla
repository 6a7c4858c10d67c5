------------------------- MODULE ConfigCacheProofs -------------------------
(***************************************************************************)
(* Theorems about ConfigCache for any number of goroutines, tenants,       *)
(* versions and documents and any cache size.                              *)
(***************************************************************************)
EXTENDS ConfigCache, SequenceTheorems, TLAPS

-----------------------------------------------------------------------------
(* The list operators.                                                     *)

(* Removing a listed key takes it out at one place and moves those behind  *)
(* it up by one.                                                           *)
LEMMA RemovePlaces ==
    ASSUME NEW S, NEW s \in Seq(S), NEW k \in Elements(s)
    PROVE  \E at \in 1 .. Len(s) :
              /\ s[at] = k
              /\ Remove(s, k) \in Seq(S) /\ Len(Remove(s, k)) = Len(s) - 1
              /\ \A j \in 1 .. Len(s) - 1 :
                    Remove(s, k)[j] = IF j < at THEN s[j] ELSE s[j + 1]
<1> DEFINE n == Len(s)
           at == CHOOSE i \in DOMAIN s : s[i] = k
           p == SubSeq(s, 1, at - 1)
           q == SubSeq(s, at + 1, n)
           r == Remove(s, k)
<1>0. n \in Nat /\ DOMAIN s = 1 .. n /\ \A i \in 1 .. n : s[i] \in S
  OBVIOUS
<1>1. at \in 1 .. n /\ s[at] = k
  BY <1>0 DEF Elements
<1>2. r = p \o q
  BY DEF Remove
<1> HIDE DEF n, at
<1>3. /\ p \in Seq(S) /\ Len(p) = at - 1
      /\ \A j \in 1 .. at - 1 : p[j] = s[j]
  <2>1. 1 \in Int /\ at - 1 \in Int /\ \A i \in 1 .. at - 1 : s[i] \in S
    BY <1>0, <1>1
  <2> HIDE DEF p
  <2>2. /\ p \in Seq(S) /\ Len(p) = IF 1 <= at - 1 THEN at - 1 - 1 + 1 ELSE 0
        /\ \A j \in 1 .. at - 1 - 1 + 1 : p[j] = s[1 + j - 1]
    BY <2>1, SubSeqProperties DEF p
  <2> QED BY <2>2, <1>0, <1>1
<1>4. /\ q \in Seq(S) /\ Len(q) = n - at
      /\ \A j \in 1 .. n - at : q[j] = s[at + j]
  <2>1. at + 1 \in Int /\ n \in Int /\ \A i \in at + 1 .. n : s[i] \in S
    BY <1>0, <1>1
  <2> HIDE DEF q
  <2>2. /\ q \in Seq(S) /\ Len(q) = IF at + 1 <= n THEN n - (at + 1) + 1 ELSE 0
        /\ \A j \in 1 .. n - (at + 1) + 1 : q[j] = s[at + 1 + j - 1]
    BY <2>1, SubSeqProperties DEF q
  <2> QED BY <2>2, <1>0, <1>1
<1> HIDE DEF p, q, r
<1>5. /\ r \in Seq(S) /\ Len(r) = n - 1 /\ DOMAIN r = 1 .. n - 1
      /\ \A j \in 1 .. n - 1 : r[j] = IF j < at THEN p[j] ELSE q[j - (at - 1)]
  <2>1. /\ r \in Seq(S) /\ Len(r) = Len(p) + Len(q)
        /\ \A j \in 1 .. Len(p) + Len(q) :
             r[j] = IF j <= Len(p) THEN p[j] ELSE q[j - Len(p)]
    BY <1>2, <1>3, <1>4, ConcatProperties
  <2>2. Len(r) = n - 1
    BY <2>1, <1>0, <1>1, <1>3, <1>4
  <2>3. DOMAIN r = 1 .. n - 1
    BY <2>1, <2>2
  <2> QED BY <2>1, <2>2, <2>3, <1>0, <1>1, <1>3, <1>4
<1>6. \A j \in 1 .. n - 1 : r[j] = IF j < at THEN s[j] ELSE s[j + 1]
  <2> SUFFICES ASSUME NEW j \in 1 .. n - 1
               PROVE  r[j] = IF j < at THEN s[j] ELSE s[j + 1]
    OBVIOUS
  <2>1. CASE j < at
    <3>1. j \in 1 .. at - 1
      BY <2>1, <1>0, <1>1
    <3> QED BY <3>1, <2>1, <1>3, <1>5
  <2>2. CASE ~(j < at)
    <3>1. j - (at - 1) \in 1 .. n - at /\ at + (j - (at - 1)) = j + 1
      BY <2>2, <1>0, <1>1
    <3>2. q[j - (at - 1)] = s[at + (j - (at - 1))]
      BY <3>1, <1>4
    <3> QED BY <3>1, <3>2, <2>2, <1>5
  <2> QED BY <2>1, <2>2
<1> QED BY <1>1, <1>5, <1>6 DEF n, r

(* Removing a listed key from a list without repetitions takes out that    *)
(* key and nothing else, and leaves the others in their order.             *)
LEMMA RemoveListed ==
    ASSUME NEW S, NEW s \in Seq(S), Distinct(s), NEW k \in Elements(s)
    PROVE  /\ Remove(s, k) \in Seq(S)
           /\ Len(Remove(s, k)) = Len(s) - 1
           /\ Elements(Remove(s, k)) = Elements(s) \ {k}
           /\ Distinct(Remove(s, k))
           /\ Len(s) > 1 /\ s[1] # k => Remove(s, k)[1] = s[1]
<1> DEFINE n == Len(s)
           r == Remove(s, k)
<1>0. n \in Nat /\ DOMAIN s = 1 .. n /\ \A i \in 1 .. n : s[i] \in S
  OBVIOUS
<1>1. PICK at \in 1 .. n :
         /\ s[at] = k
         /\ r \in Seq(S) /\ Len(r) = n - 1
         /\ \A j \in 1 .. n - 1 : r[j] = IF j < at THEN s[j] ELSE s[j + 1]
  BY RemovePlaces
<1> HIDE DEF n, r
<1>5. r \in Seq(S) /\ Len(r) = n - 1 /\ DOMAIN r = 1 .. n - 1
  BY <1>1
<1>6. \A j \in 1 .. n - 1 : r[j] = IF j < at THEN s[j] ELSE s[j + 1]
  BY <1>1
<1>7. Elements(r) = Elements(s) \ {k}
  <2>1. \A j \in 1 .. n - 1 : r[j] \in Elements(s) \ {k}
    <3> TAKE j \in 1 .. n - 1
    <3>1. \E x \in 1 .. n : x # at /\ r[j] = s[x]
      <4>1. CASE j < at
        BY <1>0, <1>6, <4>1
      <4>2. CASE ~(j < at)
        <5>1. j + 1 \in 1 .. n /\ j + 1 # at
          BY <1>0, <4>2
        <5> QED BY <1>6, <4>2, <5>1
      <4> QED BY <4>1, <4>2
    <3> QED BY <1>0, <1>1, <3>1 DEF Elements, Distinct
  <2>2. ASSUME NEW i \in 1 .. n, s[i] # k PROVE s[i] \in Elements(r)
    <3>1. CASE i < at
      <4>1. i \in 1 .. n - 1
        BY <3>1, <1>0, <1>1
      <4> QED BY <3>1, <4>1, <1>5, <1>6 DEF Elements
    <3>2. CASE i > at
      <4>1. i - 1 \in 1 .. n - 1 /\ ~(i - 1 < at) /\ (i - 1) + 1 = i
        BY <3>2, <1>0, <1>1
      <4> QED BY <4>1, <1>5, <1>6 DEF Elements
    <3> QED BY <3>1, <3>2, <2>2, <1>0, <1>1
  <2> QED BY <2>1, <2>2, <1>0, <1>5 DEF Elements
<1>8. Distinct(r)
  <2> SUFFICES ASSUME NEW i \in 1 .. n - 1, NEW j \in 1 .. n - 1, r[i] = r[j]
               PROVE  i = j
    BY <1>5 DEF Distinct
  <2> DEFINE up(x) == IF x < at THEN x ELSE x + 1
  <2>1. up(i) \in 1 .. n /\ up(j) \in 1 .. n /\ s[up(i)] = s[up(j)]
    BY <1>0, <1>1, <1>6
  <2>2. up(i) = up(j)
    BY <2>1, <1>0 DEF Distinct
  <2> QED BY <2>2, <1>0, <1>1
<1>9. n > 1 /\ s[1] # k => r[1] = s[1]
  <2> SUFFICES ASSUME n > 1, s[1] # k PROVE r[1] = s[1]
    OBVIOUS
  <2>1. 1 \in 1 .. n - 1 /\ 1 < at
    BY <1>0, <1>1
  <2> QED BY <2>1, <1>6
<1> QED BY <1>5, <1>7, <1>8, <1>9 DEF n, r

(* Pushing a key that is not listed adds it, in front.                     *)
LEMMA PushNew ==
    ASSUME NEW S, NEW s \in Seq(S), Distinct(s), NEW k \in S, k \notin Elements(s)
    PROVE  /\ PushFront(s, k) \in Seq(S)
           /\ Len(PushFront(s, k)) = Len(s) + 1
           /\ Elements(PushFront(s, k)) = Elements(s) \cup {k}
           /\ Distinct(PushFront(s, k))
           /\ PushFront(s, k)[1] = k
<1> DEFINE n == Len(s)
           r == PushFront(s, k)
<1>0. n \in Nat /\ DOMAIN s = 1 .. n
  OBVIOUS
<1>1. /\ r \in Seq(S) /\ Len(r) = n + 1 /\ DOMAIN r = 1 .. n + 1
      /\ r[1] = k
      /\ \A j \in 1 .. n + 1 : r[j] = IF j <= 1 THEN k ELSE s[j - 1]
  <2>1. <<k>> \in Seq(S) /\ Len(<<k>>) = 1 /\ <<k>>[1] = k
    OBVIOUS
  <2>2. /\ r \in Seq(S) /\ Len(r) = 1 + n
        /\ \A j \in 1 .. 1 + n : r[j] = IF j <= 1 THEN <<k>>[j] ELSE s[j - 1]
    BY <2>1, ConcatProperties DEF PushFront
  <2> HIDE DEF n, r
  <2>3. DOMAIN r = 1 .. n + 1 /\ 1 \in 1 .. 1 + n
    BY <2>2, <1>0
  <2> QED BY <2>1, <2>2, <2>3, <1>0
<1> HIDE DEF n, r
<1>2. \A i \in 1 .. n : i + 1 \in 1 .. n + 1 /\ r[i + 1] = s[i]
  <2> TAKE i \in 1 .. n
  <2>1. i + 1 \in 1 .. n + 1 /\ ~(i + 1 <= 1) /\ (i + 1) - 1 = i
    BY <1>0
  <2> QED BY <2>1, <1>1
<1>3. Elements(r) = Elements(s) \cup {k}
  <2>1. \A j \in 1 .. n + 1 : r[j] \in Elements(s) \cup {k}
    BY <1>0, <1>1 DEF Elements
  <2>2. Elements(s) \subseteq Elements(r)
    BY <1>0, <1>1, <1>2 DEF Elements
  <2>3. k \in Elements(r)
    BY <1>0, <1>1 DEF Elements
  <2>4. Elements(r) \subseteq Elements(s) \cup {k}
    BY <2>1, <1>1 DEF Elements
  <2> QED BY <2>2, <2>3, <2>4
<1>4. Distinct(r)
  <2> SUFFICES ASSUME NEW i \in 1 .. n + 1, NEW j \in 1 .. n + 1, r[i] = r[j]
               PROVE  i = j
    BY <1>1 DEF Distinct
  <2>1. \A x \in 2 .. n + 1 : x - 1 \in 1 .. n /\ r[x] = s[x - 1] /\ r[x] # k
    <3> TAKE x \in 2 .. n + 1
    <3>1. x - 1 \in 1 .. n /\ x \in 1 .. n + 1 /\ ~(x <= 1)
      BY <1>0
    <3>2. r[x] = s[x - 1]
      BY <3>1, <1>1
    <3> QED BY <3>1, <3>2, <1>0 DEF Elements
  <2>2. CASE i = 1 \/ j = 1
    <3>1. \A x \in 1 .. n + 1 : x = 1 \/ x \in 2 .. n + 1
      BY <1>0
    <3> QED BY <3>1, <2>1, <2>2, <1>1
  <2>3. CASE i # 1 /\ j # 1
    <3>1. i \in 2 .. n + 1 /\ j \in 2 .. n + 1
      BY <2>3, <1>0
    <3>2. s[i - 1] = s[j - 1] /\ i - 1 \in 1 .. n /\ j - 1 \in 1 .. n
      BY <3>1, <2>1
    <3>3. i - 1 = j - 1
      BY <3>2, <1>0 DEF Distinct
    <3> QED BY <3>1, <3>3, <1>0
  <2> QED BY <2>2, <2>3
<1> QED BY <1>1, <1>3, <1>4 DEF n, r

(* Moving a listed key to the front keeps the keys and leads with it.      *)
LEMMA MoveListed ==
    ASSUME NEW S, NEW s \in Seq(S), Distinct(s), NEW k \in Elements(s)
    PROVE  /\ MoveToFront(s, k) \in Seq(S)
           /\ Len(MoveToFront(s, k)) = Len(s)
           /\ Elements(MoveToFront(s, k)) = Elements(s)
           /\ Distinct(MoveToFront(s, k))
           /\ MoveToFront(s, k)[1] = k
<1>1. k \in S
  BY DEF Elements
<1>2. /\ Remove(s, k) \in Seq(S) /\ Len(Remove(s, k)) = Len(s) - 1
      /\ Elements(Remove(s, k)) = Elements(s) \ {k} /\ Distinct(Remove(s, k))
  BY RemoveListed
<1>3. MoveToFront(s, k) = PushFront(Remove(s, k), k)
  BY DEF MoveToFront
<1>4. Len(s) \in Nat
  OBVIOUS
<1> DEFINE r == Remove(s, k)
<1> HIDE DEF r
<1>5. /\ PushFront(r, k) \in Seq(S) /\ Len(PushFront(r, k)) = Len(r) + 1
      /\ Elements(PushFront(r, k)) = Elements(r) \cup {k}
      /\ Distinct(PushFront(r, k)) /\ PushFront(r, k)[1] = k
  <2>1. r \in Seq(S) /\ Distinct(r) /\ k \notin Elements(r)
    BY <1>2 DEF r
  <2> QED BY <2>1, <1>1, PushNew
<1> QED BY <1>2, <1>3, <1>4, <1>5 DEF r

(* What becomes of the order of the list.                                  *)
InOrder(s, k, l) == \E m, n \in DOMAIN s : m < n /\ s[m] = k /\ s[n] = l

(* Two keys that stay stay in their order.                                 *)
LEMMA RemoveOrdered ==
    ASSUME NEW S, NEW s \in Seq(S), NEW k \in Elements(s),
           NEW i \in DOMAIN s, NEW j \in DOMAIN s, i < j, s[i] # k, s[j] # k
    PROVE  InOrder(Remove(s, k), s[i], s[j])
<1> DEFINE n == Len(s)
           r == Remove(s, k)
<1>0. n \in Nat /\ i \in 1 .. n /\ j \in 1 .. n
  OBVIOUS
<1>1. PICK at \in 1 .. n :
         /\ s[at] = k
         /\ r \in Seq(S) /\ Len(r) = n - 1
         /\ \A x \in 1 .. n - 1 : r[x] = IF x < at THEN s[x] ELSE s[x + 1]
  BY RemovePlaces
<1> HIDE DEF n, r
<1> DEFINE down(x) == IF x < at THEN x ELSE x - 1
<1>2. ASSUME NEW x \in 1 .. n, s[x] # k
      PROVE  down(x) \in 1 .. n - 1 /\ r[down(x)] = s[x]
  <2>1. CASE x < at
    <3>1. x \in 1 .. n - 1
      BY <1>0, <2>1
    <3> QED BY <1>1, <2>1, <3>1
  <2>2. CASE x > at
    <3>1. x - 1 \in 1 .. n - 1 /\ ~(x - 1 < at) /\ (x - 1) + 1 = x /\ ~(x < at)
      BY <1>0, <2>2
    <3> QED BY <1>1, <3>1
  <2>3. x # at
    BY <1>1, <1>2
  <2> QED BY <1>0, <2>1, <2>2, <2>3
<1>3. down(i) \in 1 .. n - 1 /\ r[down(i)] = s[i] /\ down(j) \in 1 .. n - 1 /\ r[down(j)] = s[j]
  BY <1>0, <1>2
<1>4. down(i) < down(j)
  <2>1. i # at /\ j # at
    BY <1>1
  <2> QED BY <1>0, <2>1
<1>5. DOMAIN r = 1 .. n - 1
  BY <1>1
<1> HIDE DEF down
<1>6. InOrder(r, s[i], s[j])
  BY <1>3, <1>4, <1>5 DEF InOrder
<1> QED BY <1>6 DEF r

(* All stay in their order behind a key that is pushed.                    *)
LEMMA PushOrdered ==
    ASSUME NEW S, NEW s \in Seq(S), NEW k \in S
    PROVE  /\ \A x, y : InOrder(s, x, y) => InOrder(PushFront(s, k), x, y)
           /\ \A x \in Elements(s) : InOrder(PushFront(s, k), k, x)
<1> DEFINE n == Len(s)
           r == PushFront(s, k)
<1>0. n \in Nat /\ DOMAIN s = 1 .. n
  OBVIOUS
<1>1. /\ DOMAIN r = 1 .. n + 1 /\ r[1] = k
      /\ \A i \in 1 .. n : i + 1 \in 1 .. n + 1 /\ r[i + 1] = s[i]
  <2>1. <<k>> \in Seq(S) /\ Len(<<k>>) = 1 /\ <<k>>[1] = k
    OBVIOUS
  <2>2. /\ r \in Seq(S) /\ Len(r) = 1 + n
        /\ \A j \in 1 .. 1 + n : r[j] = IF j <= 1 THEN <<k>>[j] ELSE s[j - 1]
    BY <2>1, ConcatProperties DEF PushFront
  <2> HIDE DEF n, r
  <2>3. DOMAIN r = 1 .. n + 1 /\ 1 \in 1 .. 1 + n
    BY <2>2, <1>0
  <2>4. ASSUME NEW i \in 1 .. n PROVE i + 1 \in 1 .. n + 1 /\ r[i + 1] = s[i]
    <3>1. i + 1 \in 1 .. 1 + n /\ i + 1 \in 1 .. n + 1 /\ ~(i + 1 <= 1) /\ (i + 1) - 1 = i
      BY <1>0
    <3>2. \A x \in 1 .. 1 + n : ~(x <= 1) => r[x] = s[x - 1]
      BY <2>2
    <3>3. r[i + 1] = s[(i + 1) - 1]
      BY <3>1, <3>2
    <3> QED BY <3>1, <3>3
  <2> QED BY <2>1, <2>2, <2>3, <2>4
<1> HIDE DEF n, r
<1>2. ASSUME NEW x, NEW y, InOrder(s, x, y) PROVE InOrder(r, x, y)
  <2>1. PICK i, j \in 1 .. n : i < j /\ s[i] = x /\ s[j] = y
    BY <1>0, <1>2 DEF InOrder
  <2>2. i + 1 < j + 1
    BY <1>0, <2>1
  <2> QED BY <1>1, <2>1, <2>2 DEF InOrder
<1>3. ASSUME NEW x \in Elements(s) PROVE InOrder(r, k, x)
  <2>1. PICK i \in 1 .. n : s[i] = x
    BY <1>0 DEF Elements
  <2>2. 1 < i + 1 /\ 1 \in 1 .. n + 1
    BY <1>0
  <2> QED BY <1>1, <2>1, <2>2 DEF InOrder
<1> QED BY <1>2, <1>3 DEF r

(* Only the key that is moved overtakes others.                            *)
LEMMA MoveOrdered ==
    ASSUME NEW S, NEW s \in Seq(S), Distinct(s), NEW k \in Elements(s),
           NEW i \in DOMAIN s, NEW j \in DOMAIN s, i < j, s[j] # k
    PROVE  InOrder(MoveToFront(s, k), s[i], s[j])
<1> DEFINE r == Remove(s, k)
<1>1. k \in S /\ r \in Seq(S) /\ Elements(r) = Elements(s) \ {k}
  <2>1. k \in S
    BY DEF Elements
  <2> QED BY <2>1, RemoveListed
<1>2. s[j] \in Elements(r)
  BY <1>1 DEF Elements
<1>3. s[i] # k => InOrder(r, s[i], s[j])
  BY RemoveOrdered
<1> HIDE DEF r
<1>4. InOrder(PushFront(r, k), s[i], s[j])
  BY <1>1, <1>2, <1>3, PushOrdered
<1> QED BY <1>4 DEF MoveToFront, r

-----------------------------------------------------------------------------
(* The inductive invariant, one part per idea.                             *)

(* A caller has a call exactly while it is not idle, and the call is one   *)
(* the platform may send; only versioned calls go past the first branch.   *)
CallsSent ==
    \A c \in Callers :
        /\ pc[c] = "idle" => call[c] = NoCall
        /\ pc[c] # "idle" => call[c] \in Calls /\ MayCarry(call[c])
        /\ pc[c] \notin {"idle", "called", "done"} => call[c].version # NoVersion

(* The mutex is held by the caller inside a critical section, so there is  *)
(* at most one.                                                            *)
MutexHeld == \A c \in Callers : pc[c] \in Locked <=> mu = c

Carrying == {"store", "recheck", "purge", "evict"}

(* A local result is the caller's own successful decode on the way to the  *)
(* store, an answer the service allows at the end, and nothing before.     *)
ResultsAllowed ==
    \A c \in Callers :
        /\ pc[c] \in {"idle", "called", "lookup", "decode"} => cfg[c] = NoConfig
        /\ pc[c] \in Carrying =>
             cfg[c] = Decode(call[c].values) /\ cfg[c] # DecodeError
        /\ pc[c] = "done" => cfg[c] \in Service!Allowed(call[c])

(* What is cached under a key is the successful decode of a document the   *)
(* platform sends under that key.                                          *)
CachedSent ==
    \A k \in DOMAIN cache :
        cache[k] # DecodeError /\ \E x \in Sends[k] : cache[k] = Decode(x)

(* The list is over its bound only while its holder evicts, and then the   *)
(* entry just stored is in front; a caller that purges found its key       *)
(* missing.                                                                *)
StoreInProgress ==
    /\ Len(lru) <= Size + 1
    /\ (\A c \in Callers : pc[c] # "evict") => Len(lru) <= Size
    /\ \A c \in Callers : pc[c] = "purge" => Key(c) \notin DOMAIN cache
    /\ \A c \in Callers : pc[c] = "evict" =>
         /\ Len(lru) > 0 /\ lru[1] = Key(c)
         /\ Key(c) \in DOMAIN cache /\ cache[Key(c)] = cfg[c]

Inv ==
    /\ TypeOK
    /\ CallsSent
    /\ MutexHeld
    /\ ResultsAllowed
    /\ CachedSent
    /\ MapMatchesList
    /\ OneVersionPerTenant
    /\ StoreInProgress

-----------------------------------------------------------------------------
(* What each kind of step does to the list and the map.                    *)

LEMMA KeyTyped ==
    ASSUME TypeOK, CallsSent, NEW c \in Callers,
           pc[c] \notin {"idle", "called", "done"}
    PROVE  /\ call[c] \in Calls /\ call[c].version # NoVersion
           /\ Key(c) \in Keys /\ call[c].values \in Sends[Key(c)]
           /\ call[c].tenant \in Tenants /\ Key(c)[1] = call[c].tenant
<1>1. call[c] \in Calls /\ MayCarry(call[c]) /\ call[c].version # NoVersion
  BY DEF CallsSent
<1>2. /\ call[c].version \in 0 .. MaxVersion /\ call[c].version # 0
      /\ call[c].tenant \in Tenants
  BY <1>1 DEF Calls, NoVersion
<1>3. call[c].version \in 1 .. MaxVersion
  BY <1>2, CallsAssumption
<1> QED BY <1>1, <1>2, <1>3 DEF Keys, Key, KeyOf, MayCarry

LEMMA HitList ==
    ASSUME TypeOK, MapMatchesList, NEW c \in Callers,
           Key(c) \in DOMAIN cache, lru' = MoveToFront(lru, Key(c))
    PROVE  /\ lru' \in Seq(Keys) /\ Len(lru') = Len(lru)
           /\ Elements(lru') = Elements(lru) /\ Distinct(lru') /\ lru'[1] = Key(c)
<1>1. lru \in Seq(Keys) /\ Distinct(lru) /\ Key(c) \in Elements(lru)
  BY DEF TypeOK, MapMatchesList
<1> QED BY <1>1, MoveListed

LEMMA RemoveBoth ==
    ASSUME TypeOK, MapMatchesList, NEW k \in Elements(lru),
           lru' = Remove(lru, k), cache' = Delete(cache, k)
    PROVE  /\ lru' \in Seq(Keys) /\ Len(lru') = Len(lru) - 1
           /\ Elements(lru') = Elements(lru) \ {k} /\ Distinct(lru')
           /\ DOMAIN cache' = DOMAIN cache \ {k}
           /\ \A l \in DOMAIN cache' : cache'[l] = cache[l]
           /\ Len(lru) > 1 /\ lru[1] # k => lru'[1] = lru[1]
<1>1. lru \in Seq(Keys) /\ Distinct(lru)
  BY DEF TypeOK, MapMatchesList
<1>2. /\ lru' \in Seq(Keys) /\ Len(lru') = Len(lru) - 1
      /\ Elements(lru') = Elements(lru) \ {k} /\ Distinct(lru')
      /\ Len(lru) > 1 /\ lru[1] # k => lru'[1] = lru[1]
  BY <1>1, RemoveListed
<1> QED BY <1>2 DEF Delete

LEMMA PushBoth ==
    ASSUME TypeOK, CallsSent, MapMatchesList, NEW c \in Callers, Push(c)
    PROVE  /\ Key(c) \in Keys /\ Key(c) \notin DOMAIN cache
           /\ \A k \in DOMAIN cache : k[1] # call[c].tenant
           /\ lru' \in Seq(Keys) /\ Len(lru') = Len(lru) + 1
           /\ Elements(lru') = Elements(lru) \cup {Key(c)} /\ Distinct(lru')
           /\ lru'[1] = Key(c)
           /\ DOMAIN cache' = DOMAIN cache \cup {Key(c)}
           /\ cache'[Key(c)] = cfg[c]
           /\ \A k \in DOMAIN cache : cache'[k] = cache[k]
<1>1. Key(c) \in Keys /\ Key(c)[1] = call[c].tenant
  BY KeyTyped DEF Push
<1>2. \A k \in Elements(lru) : k[1] # call[c].tenant
  BY DEF Push, OwnKeys
<1>3. /\ lru \in Seq(Keys) /\ Distinct(lru) /\ Elements(lru) = DOMAIN cache
      /\ Key(c) \notin Elements(lru)
  BY <1>1, <1>2 DEF TypeOK, MapMatchesList
<1>4. lru' = PushFront(lru, Key(c)) /\ cache' = Put(cache, Key(c), cfg[c])
  BY DEF Push
<1>5. /\ lru' \in Seq(Keys) /\ Len(lru') = Len(lru) + 1
      /\ Elements(lru') = Elements(lru) \cup {Key(c)} /\ Distinct(lru')
      /\ lru'[1] = Key(c)
  BY <1>1, <1>3, <1>4, PushNew
<1>6. /\ DOMAIN cache' = DOMAIN cache \cup {Key(c)}
      /\ cache'[Key(c)] = cfg[c]
      /\ \A k \in DOMAIN cache : cache'[k] = cache[k]
  BY <1>3, <1>4 DEF Put
<1> QED BY <1>1, <1>2, <1>3, <1>5, <1>6

LEMMA LastListed ==
    ASSUME TypeOK, Overfull
    PROVE  Len(lru) > 1 /\ lru[Len(lru)] \in Elements(lru)
<1>1. lru \in Seq(Keys) /\ Len(lru) \in Nat /\ Size \in Nat \ {0}
  BY SizeAssumption DEF TypeOK
<1> QED BY <1>1 DEF Elements, Overfull

-----------------------------------------------------------------------------
(* Every step preserves the invariant.                                     *)

LEMMA InitInv == Init => Inv
<1> SUFFICES ASSUME Init PROVE Inv
  OBVIOUS
<1>1. TypeOK
  BY CallsAssumption DEF Init, TypeOK, Points
<1>2. CallsSent /\ MutexHeld /\ ResultsAllowed
  BY SizeAssumption DEF Init, CallsSent, MutexHeld, ResultsAllowed, Locked, Carrying
<1>3. CachedSent /\ MapMatchesList /\ OneVersionPerTenant
  BY DEF Init, CachedSent, MapMatchesList, OneVersionPerTenant, Elements, Distinct
<1>4. StoreInProgress
  BY SizeAssumption DEF Init, StoreInProgress
<1> QED BY <1>1, <1>2, <1>3, <1>4 DEF Inv

LEMMA TypeStep == Inv /\ [Next]_vars => TypeOK'
<1> SUFFICES ASSUME Inv, [Next]_vars PROVE TypeOK'
  OBVIOUS
<1> USE DEF Inv, Points, Locked
<1>1. ASSUME NEW t \in Tenants, Publish(t) PROVE TypeOK'
  BY <1>1, CallsAssumption DEF TypeOK, Publish, shared
<1>2. ASSUME NEW c \in Callers, Ask(c) PROVE TypeOK'
  BY <1>2 DEF TypeOK, Ask, Go, shared
<1>3. ASSUME NEW c \in Callers, DecodeUncached(c) PROVE TypeOK'
  <2>1. Decode(call[c].values) \in Outcomes
    BY <1>3, CallsAssumption DEF CallsSent, DecodeUncached, Calls, Decode
  <2> QED BY <1>3, <2>1 DEF TypeOK, DecodeUncached, ReturnWith, Go, shared
<1>4. ASSUME NEW c \in Callers, Acquire(c) PROVE TypeOK'
  BY <1>4 DEF TypeOK, Acquire, LockForLookup, LockForStore, Lock, Go
<1>5. ASSUME NEW c \in Callers, LookupHit(c) \/ RecheckHit(c) PROVE TypeOK'
  <2>1. lru' \in Seq(Keys)
    BY <1>5, HitList DEF LookupHit, RecheckHit
  <2>2. cache[Key(c)] \in Outcomes
    BY <1>5 DEF TypeOK, LookupHit, RecheckHit, Outcomes
  <2> QED BY <1>5, <2>1, <2>2 DEF TypeOK, LookupHit, RecheckHit, ReturnWith, Go, Unlock
<1>6. ASSUME NEW c \in Callers, LookupMiss(c) \/ RecheckMiss(c) PROVE TypeOK'
  BY <1>6 DEF TypeOK, LookupMiss, RecheckMiss, Unlock, Go, shared
<1>7. ASSUME NEW c \in Callers, DecodeCall(c) PROVE TypeOK'
  <2>1. Decode(call[c].values) \in Outcomes
    BY <1>7, CallsAssumption DEF CallsSent, DecodeCall, Calls, Decode
  <2> QED BY <1>7, <2>1 DEF TypeOK, DecodeCall, ReturnWith, Go, shared
<1>8. ASSUME NEW c \in Callers, PurgeOne(c) PROVE TypeOK'
  <2>1. PICK k \in Elements(lru) : lru' = Remove(lru, k) /\ cache' = Delete(cache, k)
    BY <1>8 DEF PurgeOne, OwnKeys
  <2> QED BY <1>8, <2>1, RemoveBoth DEF TypeOK, PurgeOne
<1>9. ASSUME NEW c \in Callers, Push(c) PROVE TypeOK'
  <2>1. cfg[c] \in Configs
    BY <1>9, CallsAssumption DEF Push, TypeOK, ResultsAllowed, CallsSent,
       Carrying, Decode, Calls, Outcomes
  <2>2. /\ lru' \in Seq(Keys) /\ Key(c) \in Keys
        /\ DOMAIN cache' = DOMAIN cache \cup {Key(c)}
        /\ cache'[Key(c)] = cfg[c]
        /\ \A k \in DOMAIN cache : cache'[k] = cache[k]
    BY <1>9, PushBoth
  <2>3. DOMAIN cache' \subseteq Keys /\ \A k \in DOMAIN cache' : cache'[k] \in Configs
    BY <2>1, <2>2 DEF TypeOK
  <2> QED BY <1>9, <2>2, <2>3 DEF TypeOK, Push, Go
<1>10. ASSUME NEW c \in Callers, EvictOldest(c) PROVE TypeOK'
  BY <1>10, LastListed, RemoveBoth DEF TypeOK, EvictOldest
<1>11. ASSUME NEW c \in Callers, ReturnStored(c) PROVE TypeOK'
  BY <1>11 DEF TypeOK, ReturnStored, ReturnWith, Go, Unlock
<1>12. ASSUME NEW c \in Callers, Return(c) PROVE TypeOK'
  BY <1>12 DEF TypeOK, Return, Go, shared
<1>13. CASE UNCHANGED vars
  BY <1>13 DEF TypeOK, vars
<1> QED
  BY <1>1, <1>2, <1>3, <1>4, <1>5, <1>6, <1>7, <1>8, <1>9, <1>10, <1>11, <1>12,
     <1>13 DEF Next, Run

LEMMA CallsStep == Inv /\ [Next]_vars => CallsSent'
<1> SUFFICES ASSUME Inv, [Next]_vars PROVE CallsSent'
  OBVIOUS
<1> USE DEF Inv, TypeOK, CallsSent, Go, ReturnWith, MayCarry
<1>1. ASSUME NEW t \in Tenants, Publish(t) PROVE CallsSent'
  BY <1>1 DEF Publish
<1>2. ASSUME NEW c \in Callers, Ask(c) PROVE CallsSent'
  BY <1>2 DEF Ask
<1>3. ASSUME NEW c \in Callers, Acquire(c) \/ DecodeUncached(c) PROVE CallsSent'
  BY <1>3 DEF Acquire, LockForLookup, LockForStore, DecodeUncached
<1>4. ASSUME NEW c \in Callers, LookupHit(c) \/ LookupMiss(c) \/ DecodeCall(c)
      PROVE  CallsSent'
  BY <1>4 DEF LookupHit, LookupMiss, DecodeCall
<1>5. ASSUME NEW c \in Callers, RecheckHit(c) \/ RecheckMiss(c) PROVE CallsSent'
  BY <1>5 DEF RecheckHit, RecheckMiss
<1>6. ASSUME NEW c \in Callers,
             PurgeOne(c) \/ Push(c) \/ EvictOldest(c) \/ ReturnStored(c)
      PROVE  CallsSent'
  BY <1>6 DEF PurgeOne, Push, EvictOldest, ReturnStored
<1>7. ASSUME NEW c \in Callers, Return(c) PROVE CallsSent'
  BY <1>7 DEF Return
<1>8. CASE UNCHANGED vars
  BY <1>8 DEF vars
<1> QED
  BY <1>1, <1>2, <1>3, <1>4, <1>5, <1>6, <1>7, <1>8 DEF Next, Run

LEMMA MutexStep == Inv /\ [Next]_vars => MutexHeld'
<1> SUFFICES ASSUME Inv, [Next]_vars PROVE MutexHeld'
  OBVIOUS
<1> USE SizeAssumption DEF Inv, TypeOK, MutexHeld, Locked, Go, ReturnWith, shared
<1>1. ASSUME NEW t \in Tenants, Publish(t) PROVE MutexHeld'
  BY <1>1 DEF Publish
<1>2. ASSUME NEW c \in Callers, Ask(c) PROVE MutexHeld'
  BY <1>2 DEF Ask
<1>3. ASSUME NEW c \in Callers, Acquire(c) PROVE MutexHeld'
  BY <1>3 DEF Acquire, LockForLookup, LockForStore, Lock
<1>4. ASSUME NEW c \in Callers, DecodeUncached(c) \/ DecodeCall(c)
      PROVE  MutexHeld'
  BY <1>4 DEF DecodeUncached, DecodeCall
<1>5. ASSUME NEW c \in Callers,
             LookupHit(c) \/ LookupMiss(c) \/ RecheckHit(c) \/ ReturnStored(c)
      PROVE  MutexHeld'
  BY <1>5 DEF LookupHit, LookupMiss, RecheckHit, ReturnStored, Unlock
<1>6. ASSUME NEW c \in Callers,
             RecheckMiss(c) \/ PurgeOne(c) \/ Push(c) \/ EvictOldest(c)
      PROVE  MutexHeld'
  BY <1>6 DEF RecheckMiss, PurgeOne, Push, EvictOldest
<1>7. ASSUME NEW c \in Callers, Return(c) PROVE MutexHeld'
  BY <1>7 DEF Return
<1>8. CASE UNCHANGED vars
  BY <1>8 DEF vars
<1> QED
  BY <1>1, <1>2, <1>3, <1>4, <1>5, <1>6, <1>7, <1>8 DEF Next, Run

(* The answers the service allows, in the terms of this module.            *)
LEMMA AllowedAnswers ==
    ASSUME NEW k
    PROVE  Service!Allowed(k) =
             {Decode(k.values)} \cup
             IF k.version = NoVersion THEN {}
             ELSE {Decode(x) : x \in Sends[KeyOf(k)]} \ {DecodeError}
  BY DEF Service!Allowed, Service!Shared, Service!Decode, Service!KeyOf,
     Service!NoVersion, Decode, KeyOf, NoVersion

(* An answer is a config or a failure.                                     *)
LEMMA AllowedOutcomes ==
    ASSUME NEW k \in Calls, MayCarry(k)
    PROVE  Service!Allowed(k) \subseteq Outcomes
<1>1. Decode(k.values) \in Outcomes
  BY CallsAssumption DEF Calls, Decode
<1>2. CASE k.version # NoVersion
  <2>1. k.tenant \in Tenants /\ k.version \in 1 .. MaxVersion
    BY <1>2, CallsAssumption DEF Calls, NoVersion
  <2>2. Sends[KeyOf(k)] \subseteq Values
    BY <2>1, CallsAssumption DEF KeyOf, Keys
  <2>3. \A x \in Sends[KeyOf(k)] : Decode(x) \in Outcomes
    BY <2>2, CallsAssumption DEF Decode
  <2> QED BY <1>1, <2>3, AllowedAnswers
<1> QED BY <1>1, <1>2, AllowedAnswers

(* What is cached under a caller's key is an answer its call allows.       *)
LEMMA HitAllowed ==
    ASSUME CachedSent, NEW c \in Callers, call[c].version # NoVersion,
           Key(c) \in DOMAIN cache
    PROVE  cache[Key(c)] \in Service!Allowed(call[c])
  BY AllowedAnswers DEF CachedSent, Key

LEMMA ResultsStep == Inv /\ [Next]_vars => ResultsAllowed'
<1> SUFFICES ASSUME Inv, [Next]_vars PROVE ResultsAllowed'
  OBVIOUS
<1> USE DEF Inv, TypeOK, ResultsAllowed, Carrying, Go, ReturnWith, shared
<1>1. ASSUME NEW t \in Tenants, Publish(t) PROVE ResultsAllowed'
  BY <1>1 DEF Publish
<1>2. ASSUME NEW c \in Callers, Ask(c) PROVE ResultsAllowed'
  BY <1>2 DEF Ask
<1>3. ASSUME NEW c \in Callers, Acquire(c) \/ LookupMiss(c) PROVE ResultsAllowed'
  BY <1>3 DEF Acquire, LockForLookup, LockForStore, LookupMiss
<1>4. ASSUME NEW c \in Callers, DecodeUncached(c) \/ DecodeCall(c)
      PROVE  ResultsAllowed'
  <2>1. Decode(call[c].values) \in Service!Allowed(call[c])
    BY AllowedAnswers
  <2> QED BY <1>4, <2>1 DEF DecodeUncached, DecodeCall
<1>5. ASSUME NEW c \in Callers, LookupHit(c) \/ RecheckHit(c)
      PROVE  ResultsAllowed'
  <2>1. call[c].version # NoVersion /\ Key(c) \in DOMAIN cache
    BY <1>5 DEF LookupHit, RecheckHit, CallsSent
  <2>2. cache[Key(c)] \in Service!Allowed(call[c])
    BY <2>1, HitAllowed
  <2> QED BY <1>5, <2>2 DEF LookupHit, RecheckHit
<1>6. ASSUME NEW c \in Callers, ReturnStored(c) PROVE ResultsAllowed'
  <2>1. cfg[c] \in Service!Allowed(call[c])
    BY <1>6, AllowedAnswers DEF ReturnStored
  <2> QED BY <1>6, <2>1 DEF ReturnStored
<1>7. ASSUME NEW c \in Callers,
             RecheckMiss(c) \/ PurgeOne(c) \/ Push(c) \/ EvictOldest(c)
      PROVE  ResultsAllowed'
  BY <1>7 DEF RecheckMiss, PurgeOne, Push, EvictOldest
<1>8. ASSUME NEW c \in Callers, Return(c) PROVE ResultsAllowed'
  BY <1>8 DEF Return
<1>9. CASE UNCHANGED vars
  BY <1>9 DEF vars
<1> QED
  BY <1>1, <1>2, <1>3, <1>4, <1>5, <1>6, <1>7, <1>8, <1>9 DEF Next, Run

(* The parts of the invariant about the map and the list.                  *)
CacheInv == CachedSent /\ MapMatchesList /\ OneVersionPerTenant

LEMMA CacheStep == Inv /\ [Next]_vars => CacheInv'
<1> SUFFICES ASSUME Inv, [Next]_vars PROVE CacheInv'
  OBVIOUS
<1>0. CacheInv /\ TypeOK /\ CallsSent /\ MapMatchesList
  BY DEF Inv, CacheInv
<1>1. CASE UNCHANGED <<cache, lru>>
  BY <1>0, <1>1 DEF CacheInv, CachedSent, MapMatchesList, OneVersionPerTenant
<1>2. ASSUME NEW c \in Callers, LookupHit(c) \/ RecheckHit(c) PROVE CacheInv'
  <2>1. Elements(lru') = Elements(lru) /\ Distinct(lru') /\ cache' = cache
    BY <1>0, <1>2, HitList DEF LookupHit, RecheckHit
  <2> QED BY <1>0, <2>1 DEF CacheInv, CachedSent, MapMatchesList, OneVersionPerTenant
<1>3. ASSUME NEW c \in Callers, PurgeOne(c) \/ EvictOldest(c) PROVE CacheInv'
  <2>1. PICK k \in Elements(lru) : lru' = Remove(lru, k) /\ cache' = Delete(cache, k)
    <3>1. CASE PurgeOne(c)
      BY <3>1 DEF PurgeOne, OwnKeys
    <3>2. CASE EvictOldest(c)
      BY <3>2, <1>0, LastListed DEF EvictOldest
    <3> QED BY <1>3, <3>1, <3>2
  <2>2. /\ Elements(lru') = Elements(lru) \ {k} /\ Distinct(lru')
        /\ DOMAIN cache' = DOMAIN cache \ {k}
        /\ \A l \in DOMAIN cache' : cache'[l] = cache[l]
    BY <1>0, <2>1, RemoveBoth
  <2> QED BY <1>0, <2>2 DEF CacheInv, CachedSent, MapMatchesList, OneVersionPerTenant
<1>4. ASSUME NEW c \in Callers, Push(c) PROVE CacheInv'
  <2>1. /\ Key(c) \in Keys /\ Key(c)[1] = call[c].tenant
        /\ call[c].values \in Sends[Key(c)]
    BY <1>0, <1>4, KeyTyped DEF Push
  <2>2. cfg[c] = Decode(call[c].values) /\ cfg[c] # DecodeError
    BY <1>4 DEF Inv, ResultsAllowed, Carrying, Push
  <2>3. /\ \A k \in DOMAIN cache : k[1] # call[c].tenant
        /\ Elements(lru') = Elements(lru) \cup {Key(c)} /\ Distinct(lru')
        /\ DOMAIN cache' = DOMAIN cache \cup {Key(c)}
        /\ cache'[Key(c)] = cfg[c]
        /\ \A k \in DOMAIN cache : cache'[k] = cache[k]
    BY <1>0, <1>4, PushBoth
  <2>4. CachedSent'
    BY <1>0, <2>1, <2>2, <2>3 DEF CacheInv, CachedSent
  <2>5. MapMatchesList' /\ OneVersionPerTenant'
    BY <1>0, <2>1, <2>3 DEF CacheInv, MapMatchesList, OneVersionPerTenant
  <2> QED BY <2>4, <2>5 DEF CacheInv
<1> QED
  BY <1>1, <1>2, <1>3, <1>4
  DEF Next, Run, Acquire, vars, shared, Publish, Ask, LockForLookup, LockForStore,
      DecodeUncached, DecodeCall, LookupMiss, RecheckMiss, ReturnStored, Return

LEMMA StoreStep == Inv /\ [Next]_vars => StoreInProgress'
<1> SUFFICES ASSUME Inv, [Next]_vars PROVE StoreInProgress'
  OBVIOUS
<1>0. /\ TypeOK /\ CallsSent /\ MapMatchesList /\ StoreInProgress
      /\ Len(lru) \in Nat /\ Size \in Nat \ {0}
      /\ \A c, d \in Callers : pc[c] \in Locked /\ pc[d] \in Locked => c = d
  BY SizeAssumption DEF Inv, TypeOK, MutexHeld
<1>1. ASSUME UNCHANGED <<cache, lru>>,
             \A c \in Callers : pc'[c] \in {"purge", "evict"} =>
                 pc'[c] = pc[c] /\ call'[c] = call[c] /\ cfg'[c] = cfg[c],
             (\A c \in Callers : pc'[c] # "evict") =>
                 (\A c \in Callers : pc[c] # "evict") \/ Len(lru) <= Size
      PROVE  StoreInProgress'
  BY <1>0, <1>1 DEF StoreInProgress, Key
<1>2. ASSUME NEW t \in Tenants, Publish(t) PROVE StoreInProgress'
  BY <1>1, <1>2 DEF Publish, shared
<1>3. ASSUME NEW c \in Callers,
             \/ Ask(c) \/ Acquire(c) \/ DecodeUncached(c) \/ DecodeCall(c)
             \/ LookupMiss(c) \/ Return(c)
      PROVE  StoreInProgress'
  <2> USE DEF Go, ReturnWith, shared, TypeOK, Points, Locked
  <2>1. UNCHANGED <<cache, lru>>
    BY <1>3 DEF Ask, Acquire, LockForLookup, LockForStore, DecodeUncached,
       DecodeCall, LookupMiss, Return
  <2>2. /\ pc[c] # "evict" /\ pc'[c] \notin {"purge", "evict"}
        /\ \A d \in Callers \ {c} :
             pc'[d] = pc[d] /\ call'[d] = call[d] /\ cfg'[d] = cfg[d]
    BY <1>0, <1>3 DEF Ask, Acquire, LockForLookup, LockForStore, DecodeUncached,
       DecodeCall, LookupMiss, Return
  <2> QED BY <1>1, <2>1, <2>2
<1>4. ASSUME NEW c \in Callers, RecheckMiss(c) PROVE StoreInProgress'
  BY <1>0, <1>4 DEF RecheckMiss, StoreInProgress, Key, TypeOK, Locked, Go, shared
<1>5. ASSUME NEW c \in Callers, ReturnStored(c) PROVE StoreInProgress'
  <2>1. Len(lru) <= Size /\ UNCHANGED <<cache, lru>>
    BY <1>0, <1>5 DEF ReturnStored, Overfull
  <2>2. \A d \in Callers : pc'[d] \notin {"purge", "evict"}
    BY <1>0, <1>5 DEF ReturnStored, ReturnWith, Go, TypeOK, Locked
  <2> QED BY <1>1, <2>1, <2>2
<1>6. ASSUME NEW c \in Callers, LookupHit(c) \/ RecheckHit(c)
      PROVE  StoreInProgress'
  <2>1. Len(lru') = Len(lru) /\ cache' = cache
    BY <1>0, <1>6, HitList DEF LookupHit, RecheckHit
  <2>2. \A d \in Callers :
          pc[d] \notin {"purge", "evict"} /\ pc'[d] \notin {"purge", "evict"}
    BY <1>0, <1>6 DEF LookupHit, RecheckHit, ReturnWith, Go, TypeOK, Locked
  <2> QED BY <1>0, <2>1, <2>2 DEF StoreInProgress
<1>7. ASSUME NEW c \in Callers, PurgeOne(c) PROVE StoreInProgress'
  <2>1. PICK k \in Elements(lru) : lru' = Remove(lru, k) /\ cache' = Delete(cache, k)
    BY <1>7 DEF PurgeOne, OwnKeys
  <2>2. Len(lru') = Len(lru) - 1 /\ DOMAIN cache' = DOMAIN cache \ {k}
    BY <1>0, <2>1, RemoveBoth
  <2>3. \A d \in Callers : pc[d] # "evict" /\ UNCHANGED <<pc, call>>
    BY <1>0, <1>7 DEF PurgeOne, Locked
  <2> QED BY <1>0, <2>2, <2>3 DEF StoreInProgress, Key
<1>8. ASSUME NEW c \in Callers, Push(c) PROVE StoreInProgress'
  <2>1. /\ Len(lru') = Len(lru) + 1 /\ lru'[1] = Key(c)
        /\ Key(c) \in DOMAIN cache' /\ cache'[Key(c)] = cfg[c]
    BY <1>0, <1>8, PushBoth
  <2>2. /\ pc' = [pc EXCEPT ![c] = "evict"] /\ UNCHANGED <<call, cfg>>
        /\ \A d \in Callers : pc[d] # "evict" /\ (d # c => pc[d] # "purge")
    BY <1>0, <1>8 DEF Push, Go, Locked
  <2> QED BY <1>0, <2>1, <2>2 DEF StoreInProgress, Key, TypeOK
<1>9. ASSUME NEW c \in Callers, EvictOldest(c) PROVE StoreInProgress'
  <2> DEFINE k == lru[Len(lru)]
  <2>1. /\ Len(lru) > 1 /\ k \in Elements(lru)
        /\ lru' = Remove(lru, k) /\ cache' = Delete(cache, k)
    BY <1>0, <1>9, LastListed DEF EvictOldest
  <2>2. lru[1] = Key(c) /\ Key(c) \in DOMAIN cache /\ cache[Key(c)] = cfg[c]
    BY <1>0, <1>9 DEF EvictOldest, StoreInProgress
  <2>3. lru[1] # k
    BY <1>0, <2>1 DEF MapMatchesList, Distinct, TypeOK
  <2>4. /\ Len(lru') = Len(lru) - 1 /\ lru'[1] = lru[1]
        /\ DOMAIN cache' = DOMAIN cache \ {k}
        /\ \A l \in DOMAIN cache' : cache'[l] = cache[l]
    BY <1>0, <2>1, <2>3, RemoveBoth
  <2>5. /\ pc[c] = "evict" /\ UNCHANGED <<pc, call, cfg>>
        /\ \A d \in Callers : pc[d] \in {"purge", "evict"} => d = c
    BY <1>0, <1>9 DEF EvictOldest, Locked
  <2> QED BY <1>0, <2>1, <2>2, <2>3, <2>4, <2>5 DEF StoreInProgress, Key
<1>10. CASE UNCHANGED vars
  BY <1>1, <1>10 DEF vars
<1> QED
  BY <1>2, <1>3, <1>4, <1>5, <1>6, <1>7, <1>8, <1>9, <1>10 DEF Next, Run

-----------------------------------------------------------------------------
(* The theorems.                                                           *)

(* The invariant above holds in every reachable state.                     *)
THEOREM Invariance == Spec => []Inv
<1>1. Init => Inv
  BY InitInv
<1>2. Inv /\ [Next]_vars => Inv'
  BY TypeStep, CallsStep, MutexStep, ResultsStep, CacheStep, StoreStep
  DEF Inv, CacheInv
<1> QED BY <1>1, <1>2, PTL DEF Spec

(* Every variable keeps its type: no failed decode is ever cached.         *)
THEOREM TypeCorrect == Spec => []TypeOK
<1>1. Inv => TypeOK
  BY DEF Inv
<1> QED BY <1>1, Invariance, PTL

(* The map and the list of decodeCall never disagree, whatever goroutines  *)
(* store, purge and evict at once.                                         *)
THEOREM CacheCoherent == Spec => [](MapMatchesList /\ OneVersionPerTenant)
<1>1. Inv => MapMatchesList /\ OneVersionPerTenant
  BY DEF Inv
<1> QED BY <1>1, Invariance, PTL

(* The cache never outgrows Spec.size outside the mutex.                   *)
THEOREM CacheBounded == Spec => []Bounded
<1>1. Inv => Bounded
  <2> SUFFICES ASSUME Inv, mu = NoCaller PROVE Len(lru) <= Size
    BY DEF Inv, StoreInProgress, Bounded
  <2>1. \A c \in Callers : pc[c] # "evict"
    BY SizeAssumption DEF Inv, MutexHeld, Locked
  <2> QED BY <2>1 DEF Inv, StoreInProgress
<1> QED BY <1>1, Invariance, PTL

(* A call whose version determines its document cannot tell decodeCall     *)
(* from Decode: what it is answered is the decode of its own document.     *)
THEOREM CacheTransparent == Spec => []Transparent
<1>1. Inv => Transparent
  <2> SUFFICES ASSUME Inv, NEW c \in Callers, pc[c] = "done",
                      call[c].version = NoVersion \/ Determined(Key(c))
               PROVE  cfg[c] = Decode(call[c].values)
    BY DEF Transparent
  <2>1. cfg[c] \in Service!Allowed(call[c]) /\ MayCarry(call[c])
    BY DEF Inv, ResultsAllowed, CallsSent
  <2>2. CASE call[c].version = NoVersion
    BY <2>1, <2>2, AllowedAnswers
  <2>3. CASE call[c].version # NoVersion
    <3>1. \A x \in Sends[KeyOf(call[c])] : x = call[c].values
      BY <2>1, <2>3 DEF MayCarry, Determined, Key
    <3> QED BY <2>1, <2>3, <3>1, AllowedAnswers
  <2> QED BY <2>2, <2>3
<1> QED BY <1>1, Invariance, PTL

(* A call that succeeds leaves with the config cached for its key, which   *)
(* is then the most recent entry.                                          *)
THEOREM StoredIsReturned == Spec => ReturnsTheStored
<1> DEFINE
      Stored(c) == /\ Key(c) \in DOMAIN cache' /\ cfg'[c] = cache'[Key(c)]
                   /\ lru' # <<>> /\ Head(lru') = Key(c)
      Returned == \A c \in Callers :
         /\ pc[c] # "done" /\ pc'[c] = "done"
         /\ call[c].version # NoVersion /\ cfg'[c] # DecodeError
         => /\ Key(c) \in DOMAIN cache'
            /\ cfg'[c] = cache'[Key(c)]
            /\ lru' # <<>> /\ Head(lru') = Key(c)
<1>1. Inv /\ [Next]_vars => [Returned]_vars
  <2> SUFFICES ASSUME Inv, Next, NEW c \in Callers,
                      pc[c] # "done", pc'[c] = "done",
                      call[c].version # NoVersion, cfg'[c] # DecodeError
               PROVE  Stored(c)
    OBVIOUS
  <2>0. TypeOK /\ MapMatchesList /\ StoreInProgress /\ Len(lru) \in Nat
    BY DEF Inv, TypeOK
  <2>1. LookupHit(c) \/ RecheckHit(c) \/ ReturnStored(c)
    <3>1. CASE \E t \in Tenants : Publish(t)
      BY <3>1 DEF Publish
    <3>2. CASE \E d \in Callers : Ask(d) \/ Acquire(d) \/ Run(d) \/ Return(d)
      BY <3>2, <2>0 DEF TypeOK, Run, Acquire, Ask, LockForLookup,
         LockForStore, DecodeUncached, DecodeCall, LookupHit, LookupMiss,
         RecheckHit, RecheckMiss, PurgeOne, Push, EvictOldest, ReturnStored,
         Return, Go, ReturnWith, shared
    <3> QED BY <3>1, <3>2 DEF Next
  <2>2. CASE LookupHit(c) \/ RecheckHit(c)
    <3>1. /\ Key(c) \in DOMAIN cache /\ cache' = cache /\ cfg'[c] = cache[Key(c)]
      BY <2>0, <2>2 DEF LookupHit, RecheckHit, ReturnWith, TypeOK
    <3>2. lru' \in Seq(Keys) /\ Len(lru') = Len(lru) /\ lru'[1] = Key(c)
      BY <2>0, <2>2, <3>1, HitList DEF LookupHit, RecheckHit
    <3>3. Len(lru) > 0
      BY <2>0, <3>1 DEF MapMatchesList, Elements, TypeOK
    <3> QED BY <3>1, <3>2, <3>3, <2>0
  <2>3. CASE ReturnStored(c)
    BY <2>0, <2>3 DEF ReturnStored, ReturnWith, StoreInProgress, TypeOK
  <2> QED BY <2>1, <2>2, <2>3
<1> QED BY <1>1, Invariance, PTL DEF Spec, ReturnsTheStored

(* Entries only make room for another version of their tenant or, when the *)
(* cache is over its bound, as the least recent one of the list.           *)
THEOREM RemovalJustified == Spec => RemovedForAReason
<1> DEFINE Reason(k) ==
             \E c \in Callers :
                 /\ mu = c
                 /\ k # Key(c)
                 /\ \/ k[1] = call[c].tenant /\ pc[c] = "purge"
                    \/ Overfull /\ k = lru[Len(lru)]
<1>1. Inv /\ [Next]_vars => [\A k \in DOMAIN cache \ DOMAIN cache' : Reason(k)]_vars
  <2> SUFFICES ASSUME Inv, Next, NEW k \in DOMAIN cache \ DOMAIN cache'
               PROVE  Reason(k)
    OBVIOUS
  <2>0. TypeOK /\ CallsSent /\ MapMatchesList /\ StoreInProgress /\ MutexHeld
    BY DEF Inv
  <2>1. PICK c \in Callers : PurgeOne(c) \/ Push(c) \/ EvictOldest(c)
    BY DEF Next, Run, Acquire, Publish, Ask, LockForLookup, LockForStore,
       DecodeUncached, DecodeCall, LookupHit, LookupMiss, RecheckHit,
       RecheckMiss, ReturnStored, Return, shared
  <2>2. CASE PurgeOne(c)
    <3>1. PICK l \in OwnKeys(c) : cache' = Delete(cache, l)
      BY <2>2 DEF PurgeOne
    <3>2. k = l /\ k[1] = call[c].tenant
      BY <3>1 DEF Delete, OwnKeys
    <3>3. mu = c /\ pc[c] = "purge" /\ Key(c) \notin DOMAIN cache
      BY <2>0, <2>2 DEF PurgeOne, MutexHeld, Locked, StoreInProgress
    <3> QED BY <3>2, <3>3
  <2>3. CASE Push(c)
    BY <2>0, <2>3, PushBoth
  <2>4. CASE EvictOldest(c)
    <3>1. k = lru[Len(lru)] /\ Overfull
      BY <2>4 DEF EvictOldest, Delete
    <3>2. mu = c /\ lru[1] = Key(c)
      BY <2>0, <2>4 DEF EvictOldest, MutexHeld, Locked, StoreInProgress
    <3>3. Len(lru) \in Nat /\ Len(lru) > 1
      BY <2>0, <3>1, LastListed DEF TypeOK
    <3>4. k # Key(c)
      BY <2>0, <3>1, <3>2, <3>3 DEF MapMatchesList, Distinct, TypeOK
    <3> QED BY <3>1, <3>2, <3>4
  <2> QED BY <2>1, <2>2, <2>3, <2>4
<1> QED BY <1>1, Invariance, PTL DEF Spec, RemovedForAReason

(* The order of the list is the order of use (KeepsRecency): no step but   *)
(* the use of an entry brings it before another, whatever is purged,       *)
(* stored and evicted meanwhile, so that eviction takes the least recent.  *)
THEOREM RecencyKept == Spec => KeepsRecency
<1> DEFINE Stays(i, j) ==
             /\ i < j /\ {lru[i], lru[j]} \subseteq DOMAIN cache'
             /\ \A c \in Callers : mu = c => lru[j] # Key(c)
           Before(i, j) == \E m, n \in DOMAIN lru' :
                             m < n /\ lru'[m] = lru[i] /\ lru'[n] = lru[j]
<1>1. Inv /\ [Next]_vars => [\A i, j \in DOMAIN lru : Stays(i, j) => Before(i, j)]_vars
  <2> SUFFICES ASSUME Inv, Next, NEW i \in DOMAIN lru, NEW j \in DOMAIN lru, Stays(i, j)
               PROVE  Before(i, j)
    OBVIOUS
  <2>0. /\ TypeOK /\ CallsSent /\ MapMatchesList
        /\ lru \in Seq(Keys) /\ Distinct(lru) /\ Elements(lru) = DOMAIN cache
    BY DEF Inv, TypeOK, MapMatchesList
  <2>1. InOrder(lru', lru[i], lru[j]) => Before(i, j)
    BY DEF InOrder
  <2>2. lru' = lru => Before(i, j)
    OBVIOUS
  <2>3. ASSUME NEW c \in Callers, LookupHit(c) \/ RecheckHit(c) PROVE Before(i, j)
    <3>1. mu = c /\ Key(c) \in Elements(lru) /\ lru' = MoveToFront(lru, Key(c))
      BY <2>0, <2>3 DEF LookupHit, RecheckHit, Unlock
    <3>2. InOrder(lru', lru[i], lru[j])
      BY <2>0, <3>1, MoveOrdered
    <3> QED BY <2>1, <3>2
  <2>4. ASSUME NEW k \in Elements(lru), lru' = Remove(lru, k), cache' = Delete(cache, k)
        PROVE  Before(i, j)
    <3>1. lru[i] # k /\ lru[j] # k
      BY <2>4 DEF Delete
    <3>2. InOrder(lru', lru[i], lru[j])
      BY <2>0, <2>4, <3>1, RemoveOrdered
    <3> QED BY <2>1, <3>2
  <2>5. ASSUME NEW c \in Callers, PurgeOne(c) PROVE Before(i, j)
    BY <2>4, <2>5 DEF PurgeOne, OwnKeys
  <2>6. ASSUME NEW c \in Callers, EvictOldest(c) PROVE Before(i, j)
    <3>1. lru[Len(lru)] \in Elements(lru)
      BY <2>0, <2>6, LastListed DEF EvictOldest
    <3> QED BY <2>4, <2>6, <3>1 DEF EvictOldest
  <2>7. ASSUME NEW c \in Callers, Push(c) PROVE Before(i, j)
    <3>1. Key(c) \in Keys /\ lru' = PushFront(lru, Key(c))
      BY <2>0, <2>7, PushBoth DEF Push
    <3>2. InOrder(lru, lru[i], lru[j])
      BY DEF InOrder
    <3>3. InOrder(lru', lru[i], lru[j])
      BY <2>0, <3>1, <3>2, PushOrdered
    <3> QED BY <2>1, <3>3
  <2>8. ASSUME NEW c \in Callers,
               \/ Ask(c) \/ LockForLookup(c) \/ LockForStore(c) \/ DecodeUncached(c)
               \/ DecodeCall(c) \/ LookupMiss(c) \/ RecheckMiss(c) \/ ReturnStored(c) \/ Return(c)
        PROVE  lru' = lru
    BY <2>8 DEF Ask, LockForLookup, LockForStore, DecodeUncached, DecodeCall, LookupMiss,
       RecheckMiss, ReturnStored, Return, shared
  <2>9. ASSUME NEW t \in Tenants, Publish(t) PROVE lru' = lru
    BY <2>9 DEF Publish, shared
  <2> HIDE DEF Before, Stays
  <2> QED BY <2>2, <2>3, <2>5, <2>6, <2>7, <2>8, <2>9 DEF Next, Run, Acquire
<1> QED BY <1>1, Invariance, PTL DEF Spec, KeepsRecency

(* Two versions of one tenant are never cached side by side, even when two *)
(* goroutines have decoded them at once.                                   *)
THEOREM OneVersionCached == Spec => []OneVersionPerTenant
<1>1. Inv => OneVersionPerTenant
  BY DEF Inv
<1> QED BY <1>1, Invariance, PTL

(* decodeCall implements the service that has no cache: every step is one  *)
(* of the service's or changes nothing the service knows of.               *)
THEOREM CacheImplementsService == Spec => Implements
<1>1. Init => Service!Init
  BY DEF Init, Service!Init
<1>2. Inv /\ [Next]_vars => [Service!Next]_Service!vars
  <2> SUFFICES ASSUME Inv, [Next]_vars PROVE [Service!Next]_Service!vars
    OBVIOUS
  <2> DEFINE answer == [c \in Callers |-> IF pc[c] = "done" THEN cfg[c] ELSE NoConfig]
  <2>0. TypeOK /\ CallsSent /\ ResultsAllowed
    BY DEF Inv
  <2>1. ASSUME NEW t \in Tenants, Publish(t) PROVE Service!Publish(t)
    BY <2>1 DEF Publish, Service!Publish
  <2>2. ASSUME NEW c \in Callers, Ask(c) PROVE Service!Ask(c)
    <3>1. call[c] = NoCall /\ answer' = answer
      BY <2>0, <2>2 DEF Ask, Go, CallsSent, TypeOK
    <3> QED
      BY <2>2, <3>1
      DEF Ask, Service!Ask, Service!Calls, Calls, Service!MayCarry, MayCarry,
          Service!KeyOf, KeyOf, Service!NoVersion, NoVersion
  <2>3. ASSUME NEW c \in Callers, Return(c) PROVE Service!Return(c)
    <3>1. cfg[c] # NoConfig /\ pc[c] = "done"
      BY <2>0, <2>3, AllowedOutcomes, CallsAssumption
      DEF Return, ResultsAllowed, CallsSent
    <3> QED BY <2>0, <2>3, <3>1 DEF Return, Go, Service!Return, TypeOK
  <2>4. ASSUME NEW c \in Callers, pc[c] \notin {"idle", "done"}, pc'[c] = "done",
               UNCHANGED <<current, call>>,
               pc' = [pc EXCEPT ![c] = "done"],
               cfg' = [cfg EXCEPT ![c] = cfg'[c]]
        PROVE  Service!Answer(c)
    <3>1. call[c] \in Calls /\ MayCarry(call[c])
      BY <2>0, <2>4 DEF CallsSent
    <3>2. ResultsAllowed'
      BY ResultsStep
    <3>3. cfg'[c] \in Service!Allowed(call[c])
      BY <3>2, <2>4, AllowedAnswers DEF ResultsAllowed
    <3>4. answer[c] = NoConfig /\ call[c] # NoCall
      BY <2>4, <3>1, CallsAssumption
    <3>5. answer' = [answer EXCEPT ![c] = cfg'[c]]
      BY <2>0, <2>4 DEF TypeOK
    <3> QED BY <2>4, <3>3, <3>4, <3>5 DEF Service!Answer
  <2>5. ASSUME NEW c \in Callers,
               \/ DecodeUncached(c) \/ LookupHit(c) \/ RecheckHit(c) \/ ReturnStored(c)
               \/ DecodeCall(c) /\ pc'[c] = "done"
        PROVE  Service!Answer(c)
    <3>1. /\ pc[c] \notin {"idle", "done"} /\ UNCHANGED <<current, call>>
          /\ pc' = [pc EXCEPT ![c] = "done"] /\ cfg' = [cfg EXCEPT ![c] = cfg'[c]]
      BY <2>0, <2>5 DEF DecodeUncached, LookupHit, RecheckHit, ReturnStored,
         DecodeCall, ReturnWith, Go, TypeOK
    <3>2. pc'[c] = "done"
      BY <2>0, <3>1 DEF TypeOK
    <3> QED BY <2>4, <3>1, <3>2
  <2>6. ASSUME NEW c \in Callers,
               \/ Acquire(c) \/ LookupMiss(c) \/ RecheckMiss(c) \/ PurgeOne(c)
               \/ Push(c) \/ EvictOldest(c)
               \/ DecodeCall(c) /\ pc'[c] # "done"
        PROVE  UNCHANGED Service!vars
    <3>1. /\ UNCHANGED <<current, call>>
          /\ \A d \in Callers : /\ pc[d] = "done" <=> pc'[d] = "done"
                                /\ pc[d] = "done" => cfg'[d] = cfg[d]
      BY <2>0, <2>6 DEF Acquire, LockForLookup, LockForStore, LookupMiss,
         RecheckMiss, PurgeOne, Push, EvictOldest, DecodeCall, ReturnWith, Go, TypeOK
    <3>2. answer' = answer
      BY <3>1
    <3> QED BY <3>1, <3>2 DEF Service!vars
  <2>7. CASE UNCHANGED vars
    BY <2>7 DEF vars, Service!vars
  <2> QED
    BY <2>1, <2>2, <2>3, <2>5, <2>6, <2>7 DEF Next, Run, Service!Next
<1> QED
  BY <1>1, <1>2, Invariance, PTL DEF Spec, Implements, Service!Spec
=============================================================================
