-------------------------- MODULE BoardConsumer_proofs -------------------------
(* Proofs about BoardConsumer, for any users, connections and times, any       *)
(* capacity and refill, and any number of handlers at a time.                  *)
EXTENDS BoardConsumer, FiniteSetTheorems, TLAPS

(***************************************************************************)
(* The inductive invariant.                                                *)
(***************************************************************************)

Bucket == [tokens : 0..Capacity, lastRefill : Nat]

Connection ==
    [state : {"new", "open", "closed"}, user : Users \cup {None}, bucket : Bucket]

Entries == [Users -> Entry \cup {Absent}]

Waiting == BoundedSeq(Users, 2)

Types ==
    /\ now \in Nat
    /\ conn \in [Connections -> Connection]
    /\ presence \in [value : Entries, until : Nat]
    /\ coop \in [Actions -> [value : Waiting, until : Nat]]
    /\ active \in [Users -> Nat]
    /\ gestured \in [Users \X Actions -> Nat]
    /\ cut \in [Actions -> Nat]
    /\ accepted \in [Connections -> Seq(Nat)]

\* What has got through since message i and what is left in the bucket is no
\* more than the capacity and the refill since then.
ConnectionOK(c) ==
    LET times == accepted[c]
        b == conn[c].bucket
    IN  /\ conn[c].state = "new" => times = <<>>
        /\ conn[c].state = "open" =>
              /\ conn[c].user \in Users
              /\ b.lastRefill <= now
              /\ \A i \in 1..Len(times) :
                    /\ times[i] <= b.lastRefill
                    /\ Len(times) - i + 1 + b.tokens <=
                          Capacity + Refill * (b.lastRefill - times[i])
        /\ \A i, j \in 1..Len(times) :
              i <= j => j - i + 1 <= Capacity + Refill * (times[j] - times[i])

\* Nobody was seen after he was last heard of.
SeenWhenHeard(entries) == \A u \in Users : entries[u].seen <= active[u]

\* The gesture is recent, or a completion of it has died half done since.
Fresh(u, a) ==
    \/ now - gestured[<<u, a>>] < CoopTimeout
    \/ gestured[<<u, a>>] <= cut[a]

\* Whose gesture is in the cache made it when it was put there, or an earlier
\* completion with it has died.
FreshWhileCached(u, a) ==
    \/ coop[a].until <= gestured[<<u, a>>] + CoopTimeout
    \/ gestured[<<u, a>>] <= cut[a]

PresenceKinds == {"join", "touch", "editing", "leave"}

\* What a handler has got and not set yet is no older than this instant.
CallOK(k) ==
    /\ k.conn \in Connections /\ conn[k.conn].state = "open"
    /\ conn[k.conn].user \in Users
    /\ k.kind \in PresenceKinds =>
          /\ k.entries \in Entries /\ SeenWhenHeard(k.entries)
          /\ active[conn[k.conn].user] = now
    /\ k.kind = "editing" => k.task \in Tasks \cup {None}
    /\ k.kind = "coop" =>
          /\ k.action \in Actions /\ k.current \in Waiting
          /\ \A v \in ToSet(k.current) : Fresh(v, k.action)
          /\ gestured[<<conn[k.conn].user, k.action>>] = now
    /\ k.kind = "complete" =>
          /\ k.action \in Actions
          /\ Cardinality(ToSet(k.participants)) = 2
          /\ \A v \in ToSet(k.participants) : v \in Users /\ Fresh(v, k.action)

OneCallEach == \A k, l \in calls : k.conn = l.conn => k = l

PresenceOK ==
    /\ \A u \in Users : active[u] <= now
    /\ SeenWhenHeard(presence.value)

\* The gestures of two people stay in the cache only while somebody is about to
\* delete them, or after he has died.
CoopOK(a) ==
    /\ coop[a].until <= now + CoopTimeout /\ cut[a] <= now
    /\ \A u \in Users : gestured[<<u, a>>] <= now
    /\ now < coop[a].until => \A v \in ToSet(coop[a].value) : Fresh(v, a)
    /\ \/ \A v \in ToSet(coop[a].value) : FreshWhileCached(v, a)
       \/ \E k \in Of("complete") : k.action = a

IInv ==
    /\ Types
    /\ \A c \in Connections : ConnectionOK(c)
    /\ \A k \in calls : CallOK(k)
    /\ OneCallEach
    /\ PresenceOK
    /\ \A a \in Actions : CoopOK(a)

(***************************************************************************)
(* The bucket.                                                             *)
(***************************************************************************)

LEMMA RefilledIsBounded ==
    ASSUME Types, NEW c \in Connections, conn[c].bucket.lastRefill <= now
    PROVE  /\ Refilled(conn[c].bucket) \in 0..Capacity
           /\ Refilled(conn[c].bucket) <=
                 conn[c].bucket.tokens + Refill * (now - conn[c].bucket.lastRefill)
  <1> DEFINE t == conn[c].bucket.tokens
             d == now - conn[c].bucket.lastRefill
  <1>1. t \in 0..Capacity /\ d \in Nat /\ Refill \in Nat /\ Capacity \in Nat
    BY LimitsArePositive DEF Types, Connection, Bucket
  <1>2. Refilled(conn[c].bucket) = IF t + d * Refill > Capacity THEN Capacity
                                   ELSE t + d * Refill
    BY DEF Refilled
  <1> HIDE DEF t, d
  <1>3. d * Refill \in Nat /\ d * Refill = Refill * d
    BY <1>1
  <1>4. /\ Refilled(conn[c].bucket) \in 0..Capacity
        /\ Refilled(conn[c].bucket) <= t + Refill * d
    BY <1>1, <1>2, <1>3
  <1> QED
    BY <1>4 DEF t, d

\* Time that passes adds what the bucket is refilled with.
LEMMA Interval ==
    ASSUME NEW x \in Nat, NEW y \in Nat, NEW z \in Nat, x <= y, y <= z
    PROVE  Refill * (z - x) = Refill * (y - x) + Refill * (z - y)
           /\ Refill * (z - x) \in Nat /\ Refill * (y - x) \in Nat
           /\ Refill * (z - y) \in Nat
  <1> DEFINE p == y - x
             q == z - y
  <1>1. p \in Nat /\ q \in Nat /\ z - x = p + q /\ Refill \in Nat
    BY LimitsArePositive
  <1> HIDE DEF p, q
  <1>2. Refill * (p + q) = Refill * p + Refill * q /\ Refill * p \in Nat /\ Refill * q \in Nat
        /\ Refill * (p + q) \in Nat
    BY <1>1
  <1> QED
    BY <1>1, <1>2 DEF p, q

LEMMA Carried ==
    ASSUME NEW C \in Nat, NEW m \in Nat, NEW n \in Nat, NEW i \in Nat, NEW t \in Nat,
           NEW r \in Nat, NEW p \in Nat, NEW q \in Nat, NEW e \in Nat,
           p = q + e, r <= t + e, m - i + 1 + t <= C + q
    PROVE  m + n - i + 1 + (r - n) <= C + p
  OBVIOUS

LEMMA Unspent ==
    ASSUME NEW C \in Nat, NEW l \in Nat, NEW i \in Nat, NEW x \in Nat, NEW p \in Nat,
           l - i + 1 + x <= C + p
    PROVE  l - i + 1 <= C + p
  OBVIOUS

\* A message is let through, or (n = 0) refused.
LEMMA BucketStep ==
    ASSUME IInv, NEW c \in Connections, conn[c].state = "open", now' = now,
           NEW n \in {0, 1}, n <= Refilled(conn[c].bucket),
           conn' = [conn EXCEPT ![c].bucket =
                      [tokens |-> Refilled(conn[c].bucket) - n, lastRefill |-> now]],
           accepted' = IF n = 0 THEN accepted
                       ELSE [accepted EXCEPT ![c] = Append(accepted[c], now)]
    PROVE  /\ conn' \in [Connections -> Connection]
           /\ accepted' \in [Connections -> Seq(Nat)]
           /\ \A d \in Connections : /\ conn'[d].state = conn[d].state
                                     /\ conn'[d].user = conn[d].user
           /\ \A d \in Connections : ConnectionOK(d)'
  <1> DEFINE b == conn[c].bucket
             r == Refilled(conn[c].bucket)
             s == accepted[c]
  <1>1. Types /\ ConnectionOK(c)
    BY DEF IInv
  <1>2. /\ b.lastRefill \in Nat /\ b.tokens \in Nat /\ b.lastRefill <= now /\ now \in Nat
        /\ s \in Seq(Nat) /\ Len(s) \in Nat /\ Capacity \in Nat /\ Refill \in Nat
        /\ \A i \in 1..Len(s) : s[i] \in Nat
    <2>1. b \in Bucket /\ now \in Nat /\ s \in Seq(Nat)
      BY <1>1 DEF Types, Connection
    <2>2. b.lastRefill <= now
      BY <1>1 DEF ConnectionOK
    <2>3. b.lastRefill \in Nat /\ b.tokens \in Nat
      BY <2>1, LimitsArePositive DEF Bucket
    <2> HIDE DEF b, s
    <2> QED
      BY <2>1, <2>2, <2>3, LimitsArePositive
  <1>3. r \in 0..Capacity /\ r <= b.tokens + Refill * (now - b.lastRefill)
    BY <1>1, <1>2, RefilledIsBounded
  <1>4. [tokens |-> r - n, lastRefill |-> now] \in Bucket
    BY <1>2, <1>3 DEF Bucket
  <1>5. conn' \in [Connections -> Connection]
    BY <1>1, <1>4 DEF Types, Connection
  <1>6. /\ accepted' \in [Connections -> Seq(Nat)]
        /\ \A d \in Connections : d # c => accepted'[d] = accepted[d]
        /\ accepted'[c] = IF n = 0 THEN s ELSE Append(s, now)
    BY <1>1, <1>2 DEF Types
  <1>7. /\ \A d \in Connections : /\ conn'[d].state = conn[d].state
                                  /\ conn'[d].user = conn[d].user
        /\ \A d \in Connections : d # c => conn'[d] = conn[d]
        /\ conn'[c].bucket.tokens = r - n /\ conn'[c].bucket.lastRefill = now
    BY <1>1 DEF Types, Connection
  <1>8. ASSUME NEW d \in Connections, d # c PROVE ConnectionOK(d)'
    BY <1>6, <1>7, <1>8 DEF IInv, ConnectionOK
  <1>9. ConnectionOK(c)'
    <2> DEFINE s2 == accepted'[c]
               m == Len(s)
    <2>0. r \in Nat /\ r - n \in Nat
      BY <1>2, <1>3
    <2>1. /\ Len(s2) = m + n /\ m \in Nat
          /\ \A i \in 1..m : s2[i] = s[i]
          /\ n = 1 => s2[m + 1] = now
      BY <1>2, <1>6
    <2>2. \A i \in 1..m : s[i] <= b.lastRefill
                          /\ m - i + 1 + b.tokens <= Capacity + Refill * (b.lastRefill - s[i])
      BY <1>1, <1>2 DEF ConnectionOK
    <2>3. \A i, j \in 1..m : i <= j => j - i + 1 <= Capacity + Refill * (s[j] - s[i])
      BY <1>1 DEF ConnectionOK
    <2>4. conn'[c].state = "open"
      BY <1>7
    <2> HIDE DEF s2, m, s, b, r
    <2>5. ASSUME NEW i \in 1..m
          PROVE  s2[i] <= now /\ m + n - i + 1 + (r - n) <= Capacity + Refill * (now - s2[i])
      <3>1. s[i] \in Nat /\ s[i] <= b.lastRefill
        BY <1>2, <2>2 DEF m
      <3> DEFINE p == Refill * (now - s[i])
                 q == Refill * (b.lastRefill - s[i])
                 e == Refill * (now - b.lastRefill)
      <3>2. p = q + e /\ p \in Nat /\ q \in Nat /\ e \in Nat
        BY <1>2, <3>1, Interval
      <3>3. m - i + 1 + b.tokens <= Capacity + q /\ r <= b.tokens + e
        BY <1>3, <2>2
      <3>4. s2[i] = s[i] /\ s[i] <= now
        BY <1>2, <2>1, <3>1
      <3> HIDE DEF p, q, e
      <3>5. m + n - i + 1 + (r - n) <= Capacity + p
        <4>1. b.tokens \in Nat /\ Capacity \in Nat /\ n \in Nat /\ m \in Nat /\ i \in Nat
          BY <1>2, <2>1
        <4> QED
          BY <2>0, <3>2, <3>3, <4>1, Carried
      <3> QED
        BY <3>4, <3>5 DEF p
    <2>6. \A i \in 1..Len(s2) :
              s2[i] <= now /\ Len(s2) - i + 1 + (r - n) <= Capacity + Refill * (now - s2[i])
      <3> SUFFICES ASSUME NEW i \in 1..Len(s2)
                   PROVE  /\ s2[i] <= now
                          /\ Len(s2) - i + 1 + (r - n) <= Capacity + Refill * (now - s2[i])
        OBVIOUS
      <3>1. CASE i \in 1..m
        BY <2>1, <2>5, <3>1
      <3>2. CASE i \notin 1..m
        <4>1. n = 1 /\ i = m + 1 /\ s2[i] = now
          BY <2>1, <3>2
        <4>2. Refill * (now - now) = 0
          BY <1>2
        <4> QED
          BY <1>2, <1>3, <2>1, <4>1, <4>2
      <3> QED
        BY <3>1, <3>2
    <2>7. \A i, j \in 1..Len(s2) :
              i <= j => j - i + 1 <= Capacity + Refill * (s2[j] - s2[i])
      <3> SUFFICES ASSUME NEW i \in 1..Len(s2), NEW j \in 1..Len(s2), i <= j
                   PROVE  j - i + 1 <= Capacity + Refill * (s2[j] - s2[i])
        OBVIOUS
      <3>1. CASE j \in 1..m
        BY <2>1, <2>3, <3>1
      <3>2. CASE j \notin 1..m
        <4>1. j = Len(s2) /\ n = 1 /\ s2[j] = now
          BY <2>1, <3>2
        <4>2. Len(s2) - i + 1 + (r - n) <= Capacity + Refill * (now - s2[i])
          BY <2>6
        <4>3. s2[i] \in Nat /\ s2[i] <= now
          <5>1. CASE i \in 1..m
            BY <1>2, <2>1, <2>6, <5>1 DEF m
          <5>2. CASE i \notin 1..m
            BY <1>2, <2>1, <4>1, <5>2
          <5> QED
            BY <5>1, <5>2
        <4> DEFINE p == Refill * (now - s2[i])
        <4>4. p \in Nat
          BY <1>2, <4>3
        <4>5. Len(s2) - i + 1 + (r - n) <= Capacity + p
          BY <4>2
        <4> HIDE DEF p
        <4>6. Len(s2) - i + 1 <= Capacity + p
          <5>1. Len(s2) \in Nat /\ i \in Nat /\ Capacity \in Nat
            BY <1>2, <2>1
          <5> QED
            BY <2>0, <4>4, <4>5, <5>1, Unspent
        <4> QED
          BY <4>1, <4>6 DEF p
      <3> QED
        BY <3>1, <3>2
    <2>8. \A i \in 1..Len(s2) :
              /\ s2[i] <= conn'[c].bucket.lastRefill
              /\ Len(s2) - i + 1 + conn'[c].bucket.tokens
                    <= Capacity + Refill * (conn'[c].bucket.lastRefill - s2[i])
      BY <1>7, <2>6, Zenon
    <2>10. conn'[c].user \in Users
      BY <1>1, <1>7 DEF ConnectionOK
    <2>9. conn'[c].bucket.lastRefill <= now'
      BY <1>2, <1>7
    <2> QED
      BY <2>4, <2>7, <2>8, <2>9, <2>10, Zenon DEF ConnectionOK, s2
  <1> QED
    BY <1>5, <1>6, <1>7, <1>8, <1>9

LEMMA WaitingAreUsers ==
    ASSUME NEW s \in Waiting
    PROVE  /\ ToSet(s) \subseteq Users
           /\ DOMAIN s \in {1..0, 1..1, 1..2}
  <1>1. PICK m \in 0..2 : s \in [1..m -> Users]
    BY DEF Waiting, BoundedSeq, SeqOf
  <1>2. ToSet(s) \subseteq Users
    BY <1>1 DEF ToSet
  <1>3. m = 0 \/ m = 1 \/ m = 2
    BY <1>1
  <1> QED
    BY <1>1, <1>2, <1>3

(***************************************************************************)
(* Calls, presence and gestures when something else changes.               *)
(***************************************************************************)

\* Time stands still; people may be heard of and make gestures.
Meanwhile ==
    /\ now' = now
    /\ \A u \in Users : active'[u] = active[u] \/ active'[u] = now
    /\ \A u \in Users, a \in Actions :
          gestured'[<<u, a>>] = gestured[<<u, a>>] \/ gestured'[<<u, a>>] = now
    /\ \A a \in Actions : cut'[a] = cut[a] \/ cut'[a] = now

LEMMA StaysFresh ==
    ASSUME IInv, Meanwhile, NEW u \in Users, NEW a \in Actions
    PROVE  /\ Fresh(u, a) => Fresh(u, a)'
           /\ gestured'[<<u, a>>] \in Nat /\ gestured'[<<u, a>>] >= gestured[<<u, a>>]
           /\ gestured'[<<u, a>>] <= now /\ cut'[a] >= cut[a] /\ cut'[a] <= now
           /\ active'[u] >= active[u] /\ active'[u] <= now
  <1>1. /\ now \in Nat /\ gestured[<<u, a>>] \in Nat /\ cut[a] \in Nat /\ active[u] \in Nat
        /\ gestured[<<u, a>>] <= now /\ cut[a] <= now /\ active[u] <= now
    BY DEF IInv, Types, CoopOK, PresenceOK
  <1>2. /\ gestured'[<<u, a>>] = gestured[<<u, a>>] \/ gestured'[<<u, a>>] = now
        /\ cut'[a] = cut[a] \/ cut'[a] = now
        /\ active'[u] = active[u] \/ active'[u] = now
        /\ now' = now
    BY DEF Meanwhile
  <1> QED
    BY <1>1, <1>2, LimitsArePositive DEF Fresh

\* A call of another connection, or of one that stays open, is as good as it was.
LEMMA CallStays ==
    ASSUME IInv, Meanwhile, NEW k \in calls,
           conn'[k.conn].state = "open", conn'[k.conn].user = conn[k.conn].user
    PROVE  CallOK(k)'
  <1>1. CallOK(k)
    BY DEF IInv
  <1> DEFINE u == conn[k.conn].user
  <1>2. /\ k.conn \in Connections /\ conn'[k.conn].state = "open"
        /\ u \in Users /\ conn'[k.conn].user = u
    BY <1>1 DEF CallOK
  <1> HIDE DEF u
  <1>3. k.kind \in PresenceKinds =>
            /\ k.entries \in Entries /\ SeenWhenHeard(k.entries)' /\ active'[u] = now
    <2> SUFFICES ASSUME k.kind \in PresenceKinds
                 PROVE  k.entries \in Entries /\ SeenWhenHeard(k.entries)' /\ active'[u] = now
      OBVIOUS
    <2>1. k.entries \in Entries /\ SeenWhenHeard(k.entries) /\ active[u] = now
      BY <1>1 DEF CallOK, u
    <2>2. \A v \in Users : k.entries[v].seen \in Nat
      BY <2>1 DEF Entries, Entry, Absent
    <2>3. \A v \in Users : active[v] \in Nat /\ active'[v] \in Nat /\ active'[v] >= active[v]
      <3> TAKE v \in Users
      <3>1. active[v] \in Nat /\ now \in Nat /\ active[v] <= now
        BY DEF IInv, Types, PresenceOK
      <3>2. active'[v] = active[v] \/ active'[v] = now
        BY DEF Meanwhile
      <3> QED
        BY <3>1, <3>2
    <2>4. SeenWhenHeard(k.entries)'
      BY <2>1, <2>2, <2>3 DEF SeenWhenHeard
    <2> QED
      BY <1>2, <2>1, <2>4 DEF Meanwhile
  <1>4. k.kind = "coop" =>
            /\ k.action \in Actions /\ k.current \in Waiting
            /\ \A v \in ToSet(k.current) : Fresh(v, k.action)'
            /\ gestured'[<<u, k.action>>] = now
    <2> SUFFICES ASSUME k.kind = "coop"
                 PROVE  /\ k.action \in Actions /\ k.current \in Waiting
                        /\ \A v \in ToSet(k.current) : Fresh(v, k.action)'
                        /\ gestured'[<<u, k.action>>] = now
      OBVIOUS
    <2>1. /\ k.action \in Actions /\ k.current \in Waiting
          /\ \A v \in ToSet(k.current) : Fresh(v, k.action)
          /\ gestured[<<u, k.action>>] = now
      BY <1>1 DEF CallOK, u
    <2>2. ToSet(k.current) \subseteq Users
      BY <2>1, WaitingAreUsers
    <2>3. \A v \in ToSet(k.current) : Fresh(v, k.action)'
      BY <2>1, <2>2, StaysFresh
    <2> QED
      BY <1>2, <2>1, <2>3 DEF Meanwhile
  <1>5. k.kind = "complete" =>
            /\ k.action \in Actions
            /\ Cardinality(ToSet(k.participants)) = 2
            /\ \A v \in ToSet(k.participants) : v \in Users /\ Fresh(v, k.action)'
    BY <1>1, StaysFresh DEF CallOK
  <1>6. k.kind = "editing" => k.task \in Tasks \cup {None}
    BY <1>1 DEF CallOK
  <1>7. now' = now
    BY DEF Meanwhile
  <1> QED
    BY <1>2, <1>3, <1>4, <1>5, <1>6, <1>7 DEF CallOK

LEMMA CoopStays ==
    ASSUME IInv, Meanwhile, coop' = coop, cut' = cut,
           \A k \in Of("complete") : k \in calls'
    PROVE  \A a \in Actions : CoopOK(a)'
  <1> SUFFICES ASSUME NEW a \in Actions PROVE CoopOK(a)'
    OBVIOUS
  <1> DEFINE until == coop[a].until
             value == coop[a].value
  <1>1. CoopOK(a)
    BY DEF IInv
  <1>2. /\ now' = now /\ now \in Nat /\ until \in Nat /\ cut[a] \in Nat
        /\ \A v \in ToSet(value) : v \in Users
    <2>1. coop[a] \in [value : Waiting, until : Nat] /\ now \in Nat /\ cut[a] \in Nat
      BY DEF IInv, Types
    <2>2. value \in Waiting
      BY <2>1
    <2> QED
      BY <2>1, <2>2, WaitingAreUsers DEF Meanwhile
  <1>3. until <= now + CoopTimeout /\ cut[a] <= now
    BY <1>1 DEF CoopOK
  <1>4. \A u \in Users : gestured'[<<u, a>>] <= now
    BY StaysFresh
  <1>5. now < until => \A v \in ToSet(value) : Fresh(v, a)'
    BY <1>1, <1>2, StaysFresh DEF CoopOK
  <1>6. ASSUME NEW v \in ToSet(value), FreshWhileCached(v, a) PROVE FreshWhileCached(v, a)'
    <2>1. /\ gestured[<<v, a>>] \in Nat /\ gestured'[<<v, a>>] \in Nat
          /\ gestured'[<<v, a>>] >= gestured[<<v, a>>]
      BY <1>2, StaysFresh DEF IInv, Types
    <2>2. gestured'[<<v, a>>] = gestured[<<v, a>>] \/ gestured'[<<v, a>>] = now
      BY <1>2 DEF Meanwhile
    <2> QED
      BY <1>2, <1>3, <1>6, <2>1, <2>2, LimitsArePositive DEF FreshWhileCached
  <1>7. \/ \A v \in ToSet(value) : FreshWhileCached(v, a)'
        \/ \E k \in Of("complete")' : k.action = a
    <2>1. Of("complete") \subseteq Of("complete")'
      BY DEF Of
    <2> QED
      BY <1>1, <1>6, <2>1 DEF CoopOK
  <1> QED
    BY <1>2, <1>3, <1>4, <1>5, <1>7 DEF CoopOK

LEMMA PresenceStays ==
    ASSUME IInv, Meanwhile, presence' = presence
    PROVE  PresenceOK'
  <1>1. \A u \in Users : active'[u] <= now /\ active[u] \in Nat /\ active[u] <= now
                         /\ (active'[u] = active[u] \/ active'[u] = now)
    BY DEF IInv, Types, PresenceOK, Meanwhile
  <1>2. \A u \in Users : presence.value[u].seen \in Nat /\ presence.value[u].seen <= active[u]
    <2>1. presence.value \in Entries
      BY DEF IInv, Types
    <2> QED
      BY <2>1 DEF Entries, Entry, Absent, IInv, PresenceOK, SeenWhenHeard
  <1>3. now \in Nat /\ now' = now
    BY DEF IInv, Types, Meanwhile
  <1> QED
    BY <1>1, <1>2, <1>3 DEF PresenceOK, SeenWhenHeard

\* Another call, of a connection that had none.
LEMMA CallBegun ==
    ASSUME IInv, Meanwhile, NEW c \in Connections, NEW call,
           calls' = calls \cup {call}, call.conn = c, CallOK(call)',
           \A k \in calls : k.conn # c,
           \A d \in Connections : d # c =>
               conn'[d].state = conn[d].state /\ conn'[d].user = conn[d].user
    PROVE  (\A k \in calls' : CallOK(k)') /\ OneCallEach'
  <1>1. ASSUME NEW k \in calls PROVE CallOK(k)'
    <2>1. k.conn \in Connections /\ k.conn # c /\ conn[k.conn].state = "open"
      BY DEF IInv, CallOK
    <2> QED
      BY <2>1, CallStays
  <1>2. OneCallEach'
    BY DEF IInv, OneCallEach
  <1> QED
    BY <1>1, <1>2

\* Calls that remain on connections that remain.
LEMMA CallsRemain ==
    ASSUME IInv, Meanwhile, calls' \subseteq calls,
           \A k \in calls' : /\ conn'[k.conn].state = "open"
                             /\ conn'[k.conn].user = conn[k.conn].user
    PROVE  (\A k \in calls' : CallOK(k)') /\ OneCallEach'
  <1>1. \A k \in calls' : CallOK(k)'
    BY CallStays
  <1> QED
    BY <1>1 DEF IInv, OneCallEach

\* What a handler gets.
LEMMA PresenceGot ==
    ASSUME IInv
    PROVE  Cached(presence, Nobody) \in Entries /\ SeenWhenHeard(Cached(presence, Nobody))
  <1>1. presence.value \in Entries /\ SeenWhenHeard(presence.value)
    BY DEF IInv, Types, PresenceOK
  <1>2. Nobody \in Entries /\ \A u \in Users : Nobody[u].seen = 0
    BY DEF Nobody, Entries, Absent
  <1>3. \A u \in Users : active[u] \in Nat
    BY DEF IInv, Types
  <1>4. SeenWhenHeard(Nobody)
    BY <1>2, <1>3 DEF SeenWhenHeard
  <1> QED
    BY <1>1, <1>2, <1>4 DEF Cached

LEMMA IdleIsOpen ==
    ASSUME IInv, NEW c \in Connections, Idle(c)
    PROVE  conn[c].state = "open" /\ \A k \in calls : k.conn # c
  BY DEF Idle

(***************************************************************************)
(* A message arrives, or a connection begins or ends.                      *)
(***************************************************************************)

LEMMA Consumed ==
    ASSUME IInv, NEW c \in Connections, Idle(c), Consume(c), now' = now
    PROVE  /\ conn' \in [Connections -> Connection]
           /\ accepted' \in [Connections -> Seq(Nat)]
           /\ \A d \in Connections : /\ conn'[d].state = conn[d].state
                                     /\ conn'[d].user = conn[d].user
           /\ \A d \in Connections : ConnectionOK(d)'
  <1> DEFINE n == 1
  <1>1. /\ conn[c].state = "open" /\ n \in {0, 1}
        /\ n <= Refilled(conn[c].bucket)
        /\ conn' = [conn EXCEPT ![c].bucket =
                      [tokens |-> Refilled(conn[c].bucket) - n, lastRefill |-> now]]
        /\ accepted' = IF n = 0 THEN accepted
                       ELSE [accepted EXCEPT ![c] = Append(accepted[c], now)]
    <2>1. Refilled(conn[c].bucket) \in Int
      <3>1. conn[c].state = "open"
        BY DEF Idle
      <3>2. conn[c].bucket.lastRefill <= now
        BY <3>1 DEF IInv, ConnectionOK
      <3> QED
        BY <3>2, RefilledIsBounded, LimitsArePositive DEF IInv
    <2> QED
      BY <2>1 DEF Consume, Idle
  <1> HIDE DEF n
  <1> QED
    BY <1>1, BucketStep

\* A connection that has sent no message keeps its bucket.
LEMMA BucketsStay ==
    ASSUME IInv, now' \in Nat, now' >= now, conn' = conn, accepted' = accepted
    PROVE  \A c \in Connections : ConnectionOK(c)'
  <1> TAKE c \in Connections
  <1>1. conn[c].bucket.lastRefill \in Nat /\ now \in Nat
    BY DEF IInv, Types, Connection, Bucket
  <1> QED
    BY <1>1 DEF IInv, ConnectionOK

\* active is only ever set to this instant, for one user; so is gestured.
LEMMA HeardIsMeanwhile ==
    ASSUME IInv, NEW u \in Users, Heard(u), now' = now, UNCHANGED <<gestured, cut>>
    PROVE  /\ Meanwhile /\ active' \in [Users -> Nat] /\ active'[u] = now
           /\ \A entries \in Entries : SeenWhenHeard(entries) => SeenWhenHeard(entries)'
  <1>1. active \in [Users -> Nat] /\ now \in Nat /\ \A v \in Users : active[v] <= now
    BY DEF IInv, Types, PresenceOK
  <1>2. /\ active' \in [Users -> Nat] /\ active'[u] = now
        /\ \A v \in Users : active'[v] = active[v] \/ active'[v] = now
    BY <1>1 DEF Heard
  <1>3. \A entries \in Entries : \A v \in Users : entries[v].seen \in Nat
    BY DEF Entries, Entry, Absent
  <1>4. \A v \in Users : active'[v] \in Nat /\ active'[v] >= active[v]
    BY <1>1, <1>2
  <1>5. \A entries \in Entries : SeenWhenHeard(entries) => SeenWhenHeard(entries)'
    BY <1>1, <1>2, <1>3, <1>4 DEF SeenWhenHeard
  <1> QED
    BY <1>2, <1>5 DEF Meanwhile

\* The handlers that get the presence (editing has a task, too).
LEMMA GetPreserves ==
    ASSUME IInv, NEW c \in Connections, NEW u \in Users, NEW call,
           calls' = calls \cup {call}, call.conn = c, call.kind \in PresenceKinds,
           call.entries = Cached(presence, Nobody),
           call.kind = "editing" => call.task \in Tasks \cup {None},
           \A k \in calls : k.conn # c,
           conn' \in [Connections -> Connection], accepted' \in [Connections -> Seq(Nat)],
           conn'[c].state = "open", conn'[c].user = u,
           \A d \in Connections : d # c =>
               conn'[d].state = conn[d].state /\ conn'[d].user = conn[d].user,
           \A d \in Connections : ConnectionOK(d)',
           Heard(u), UNCHANGED <<now, presence, coop, gestured, cut>>
    PROVE  IInv'
  <1>1. /\ Meanwhile /\ active' \in [Users -> Nat] /\ active'[u] = now
        /\ \A entries \in Entries : SeenWhenHeard(entries) => SeenWhenHeard(entries)'
    BY HeardIsMeanwhile
  <1>2. Types'
    BY <1>1 DEF IInv, Types
  <1>3. CallOK(call)'
    <2>1. call.entries \in Entries /\ SeenWhenHeard(call.entries)'
      BY <1>1, PresenceGot
    <2>2. call.kind # "coop" /\ call.kind # "complete"
      BY DEF PresenceKinds
    <2> QED
      BY <1>1, <2>1, <2>2 DEF CallOK
  <1>4. (\A k \in calls' : CallOK(k)') /\ OneCallEach'
    BY <1>1, <1>3, CallBegun
  <1>5. PresenceOK'
    BY <1>1, PresenceStays
  <1>6. \A a \in Actions : CoopOK(a)'
    BY <1>1, CoopStays DEF Of
  <1> QED
    BY <1>2, <1>4, <1>5, <1>6 DEF IInv

LEMMA HeartbeatPreserves ==
    ASSUME IInv, NEW c \in Connections, Heartbeat(c)
    PROVE  IInv'
  <1> DEFINE call == [kind |-> "touch", conn |-> c, entries |-> Cached(presence, Nobody)]
             u == conn[c].user
  <1>1. /\ Idle(c) /\ Consume(c) /\ calls' = calls \cup {call} /\ Heard(u)
        /\ UNCHANGED <<now, presence, coop, gestured, cut>>
    BY DEF Heartbeat, GetPresence, Begin, UserOf
  <1>2. /\ call.kind = "touch" /\ call.conn = c /\ call.entries = Cached(presence, Nobody)
    OBVIOUS
  <1>3. conn[c].state = "open" /\ u \in Users /\ \A k \in calls : k.conn # c
    BY <1>1 DEF Idle, IInv, ConnectionOK
  <1> HIDE DEF call
  <1>4. /\ conn' \in [Connections -> Connection] /\ accepted' \in [Connections -> Seq(Nat)]
        /\ \A d \in Connections : conn'[d].state = conn[d].state /\ conn'[d].user = conn[d].user
        /\ \A d \in Connections : ConnectionOK(d)'
    BY <1>1, Consumed
  <1> QED
    BY <1>1, <1>2, <1>3, <1>4, GetPreserves DEF PresenceKinds

LEMMA EditingPreserves ==
    ASSUME IInv, NEW c \in Connections, NEW task \in Tasks \cup {None},
           HandleEditing(c, task)
    PROVE  IInv'
  <1> DEFINE call == [kind |-> "editing", conn |-> c,
                      entries |-> Cached(presence, Nobody), task |-> task]
             u == conn[c].user
  <1>1. /\ Idle(c) /\ Consume(c) /\ calls' = calls \cup {call} /\ Heard(u)
        /\ UNCHANGED <<now, presence, coop, gestured, cut>>
    BY DEF HandleEditing, Begin, UserOf
  <1>2. /\ call.kind = "editing" /\ call.conn = c /\ call.entries = Cached(presence, Nobody)
        /\ call.task \in Tasks \cup {None}
    OBVIOUS
  <1>3. conn[c].state = "open" /\ u \in Users /\ \A k \in calls : k.conn # c
    BY <1>1 DEF Idle, IInv, ConnectionOK
  <1> HIDE DEF call
  <1>4. /\ conn' \in [Connections -> Connection] /\ accepted' \in [Connections -> Seq(Nat)]
        /\ \A d \in Connections : conn'[d].state = conn[d].state /\ conn'[d].user = conn[d].user
        /\ \A d \in Connections : ConnectionOK(d)'
    BY <1>1, Consumed
  <1> QED
    BY <1>1, <1>2, <1>3, <1>4, GetPreserves DEF PresenceKinds

LEMMA DisconnectPreserves ==
    ASSUME IInv, NEW c \in Connections, Disconnect(c)
    PROVE  IInv'
  <1> DEFINE call == [kind |-> "leave", conn |-> c, entries |-> Cached(presence, Nobody)]
             u == conn[c].user
  <1>1. /\ Idle(c) /\ calls' = calls \cup {call} /\ Heard(u)
        /\ UNCHANGED <<now, conn, presence, coop, gestured, cut, accepted>>
    BY DEF Disconnect, GetPresence, Begin, UserOf
  <1>2. /\ call.kind = "leave" /\ call.conn = c /\ call.entries = Cached(presence, Nobody)
    OBVIOUS
  <1>3. conn[c].state = "open" /\ u \in Users /\ \A k \in calls : k.conn # c
    BY <1>1 DEF Idle, IInv, ConnectionOK
  <1> HIDE DEF call
  <1>4. /\ conn' \in [Connections -> Connection] /\ accepted' \in [Connections -> Seq(Nat)]
        /\ now \in Nat
    BY <1>1 DEF IInv, Types
  <1>5. \A d \in Connections : ConnectionOK(d)'
    BY <1>1, <1>4, BucketsStay
  <1> QED
    BY <1>1, <1>2, <1>3, <1>4, <1>5, GetPreserves DEF PresenceKinds

LEMMA ConnectPreserves ==
    ASSUME IInv, NEW c \in Connections, NEW u \in Users, Connect(c, u)
    PROVE  IInv'
  <1> DEFINE call == [kind |-> "join", conn |-> c, entries |-> Cached(presence, Nobody)]
             fresh == [state |-> "open", user |-> u,
                       bucket |-> [tokens |-> Capacity, lastRefill |-> now]]
  <1>1. /\ conn[c].state = "new" /\ calls' = calls \cup {call} /\ Heard(u)
        /\ conn' = [conn EXCEPT ![c] = fresh]
        /\ UNCHANGED <<now, presence, coop, gestured, cut, accepted>>
    BY DEF Connect, GetPresence, Begin
  <1>2. /\ call.kind = "join" /\ call.conn = c /\ call.entries = Cached(presence, Nobody)
    OBVIOUS
  <1>3. \A k \in calls : k.conn # c
    BY <1>1 DEF IInv, CallOK
  <1>4. conn \in [Connections -> Connection] /\ now \in Nat
    BY DEF IInv, Types
  <1>5. /\ fresh \in Connection /\ fresh.state = "open" /\ fresh.user = u
        /\ fresh.bucket.lastRefill = now
    BY <1>4, LimitsArePositive DEF Connection, Bucket
  <1> HIDE DEF call, fresh
  <1>6. /\ conn' \in [Connections -> Connection] /\ accepted' \in [Connections -> Seq(Nat)]
        /\ conn'[c] = fresh /\ \A d \in Connections : d # c => conn'[d] = conn[d]
    BY <1>1, <1>4, <1>5 DEF IInv, Types
  <1>7. \A d \in Connections : ConnectionOK(d)'
    <2>1. accepted[c] = <<>>
      BY <1>1 DEF IInv, ConnectionOK
    <2>2. ConnectionOK(c)'
      BY <1>1, <1>4, <1>5, <1>6, <2>1 DEF ConnectionOK
    <2>3. \A d \in Connections : d # c => ConnectionOK(d)'
      BY <1>1, <1>6 DEF IInv, ConnectionOK
    <2> QED
      BY <2>2, <2>3
  <1> QED
    BY <1>1, <1>2, <1>3, <1>5, <1>6, <1>7, GetPreserves DEF PresenceKinds

LEMMA RefusalPreserves ==
    ASSUME IInv, NEW c \in Connections, RateLimited(c)
    PROVE  IInv'
  <1> DEFINE n == 0
  <1>1. /\ conn[c].state = "open" /\ conn[c].bucket.lastRefill <= now
    BY DEF RateLimited, Idle, IInv, ConnectionOK
  <1>2. Refilled(conn[c].bucket) \in 0..Capacity
    BY <1>1, RefilledIsBounded DEF IInv
  <1>3. /\ n \in {0, 1} /\ n <= Refilled(conn[c].bucket)
        /\ conn' = [conn EXCEPT ![c].bucket =
                      [tokens |-> Refilled(conn[c].bucket) - n, lastRefill |-> now]]
        /\ accepted' = IF n = 0 THEN accepted
                       ELSE [accepted EXCEPT ![c] = Append(accepted[c], now)]
    <2>1. Refilled(conn[c].bucket) - n = Refilled(conn[c].bucket)
      BY <1>2, LimitsArePositive
    <2>2. /\ conn' = [conn EXCEPT ![c].bucket =
                        [tokens |-> Refilled(conn[c].bucket), lastRefill |-> now]]
          /\ accepted' = accepted
      BY DEF RateLimited
    <2>3. n \in {0, 1} /\ n <= Refilled(conn[c].bucket)
      BY <1>2, LimitsArePositive
    <2>4. accepted' = IF n = 0 THEN accepted
                      ELSE [accepted EXCEPT ![c] = Append(accepted[c], now)]
      BY <2>2
    <2>5. conn' = [conn EXCEPT ![c].bucket =
                     [tokens |-> Refilled(conn[c].bucket) - n, lastRefill |-> now]]
      BY <2>1, <2>2, Zenon
    <2> QED
      BY <2>3, <2>4, <2>5, Zenon
  <1>4. UNCHANGED <<now, presence, coop, calls, active, gestured, cut>>
    BY DEF RateLimited
  <1> HIDE DEF n
  <1>5. /\ conn' \in [Connections -> Connection] /\ accepted' \in [Connections -> Seq(Nat)]
        /\ \A d \in Connections : conn'[d].state = conn[d].state /\ conn'[d].user = conn[d].user
        /\ \A d \in Connections : ConnectionOK(d)'
    BY <1>1, <1>3, <1>4, BucketStep
  <1>6. Meanwhile
    BY <1>4 DEF Meanwhile
  <1>7. Types'
    BY <1>4, <1>5 DEF IInv, Types
  <1>8. (\A k \in calls' : CallOK(k)') /\ OneCallEach'
    BY <1>4, <1>5, <1>6, CallsRemain DEF IInv, CallOK
  <1>9. PresenceOK' /\ \A a \in Actions : CoopOK(a)'
    BY <1>4, <1>6, PresenceStays, CoopStays DEF Of
  <1> QED
    BY <1>5, <1>7, <1>8, <1>9 DEF IInv

LEMMA GesturePreserves ==
    ASSUME IInv, NEW c \in Connections, NEW a \in Actions, HandleCooperativeAction(c, a)
    PROVE  IInv'
  <1>call. PICK call : call = [kind |-> "coop", conn |-> c, action |-> a,
                            current |-> Cached(coop[a], <<>>)]
    OBVIOUS
  <1>user. PICK u : u = conn[c].user
    OBVIOUS
  <1>1. /\ Idle(c) /\ Consume(c) /\ calls' = calls \cup {call}
        /\ gestured' = [gestured EXCEPT ![<<u, a>>] = now]
        /\ UNCHANGED <<now, presence, coop, active, cut>>
    BY <1>call, <1>user DEF HandleCooperativeAction, Begin, UserOf
  <1>2. call.kind = "coop" /\ call.conn = c /\ call.action = a
        /\ call.current = Cached(coop[a], <<>>)
    BY <1>call
  <1>3. conn[c].state = "open" /\ u \in Users /\ \A k \in calls : k.conn # c
    BY <1>1, <1>user DEF Idle, IInv, ConnectionOK
  <1>4. /\ conn' \in [Connections -> Connection] /\ accepted' \in [Connections -> Seq(Nat)]
        /\ \A d \in Connections : conn'[d].state = conn[d].state /\ conn'[d].user = conn[d].user
        /\ \A d \in Connections : ConnectionOK(d)'
    BY <1>1, Consumed
  <1>12. conn'[c].state = "open" /\ conn'[c].user = u
    BY <1>3, <1>4, <1>user
  <1>5. /\ gestured' \in [Users \X Actions -> Nat] /\ gestured'[<<u, a>>] = now
        /\ \A v \in Users, b \in Actions :
              gestured'[<<v, b>>] = gestured[<<v, b>>] \/ gestured'[<<v, b>>] = now
    <2>1. gestured \in [Users \X Actions -> Nat] /\ now \in Nat /\ <<u, a>> \in Users \X Actions
      BY <1>3 DEF IInv, Types
    <2> QED
      BY <1>1, <2>1
  <1>6. Meanwhile
    BY <1>1, <1>5 DEF Meanwhile
  <1>7. Types'
    BY <1>1, <1>4, <1>5 DEF IInv, Types
  <1>8. /\ call.current \in Waiting
        /\ \A v \in ToSet(call.current) : v \in Users /\ Fresh(v, a)
    <2>1. /\ coop[a].value \in Waiting
          /\ now < coop[a].until => \A v \in ToSet(coop[a].value) : Fresh(v, a)
      BY DEF IInv, Types, CoopOK
    <2>2. <<>> \in Waiting /\ ToSet(<<>>) = {}
      BY DEF Waiting, BoundedSeq, SeqOf, ToSet
    <2>3. call.current \in Waiting
          /\ \A v \in ToSet(call.current) : Fresh(v, a)
      BY <1>2, <2>1, <2>2 DEF Cached
    <2> QED
      BY <2>3, WaitingAreUsers
  <1>9. CallOK(call)'
    <2>1. call.kind \notin PresenceKinds
      BY <1>2 DEF PresenceKinds
    <2>2. \A v \in ToSet(call.current) : Fresh(v, a)'
      BY <1>6, <1>8, StaysFresh
    <2>3. now' = now
      BY <1>1
    <2> QED
      BY <1>2, <1>3, <1>5, <1>8, <1>12, <2>1, <2>2, <2>3 DEF CallOK
  <1>10. (\A k \in calls' : CallOK(k)') /\ OneCallEach'
    BY <1>1, <1>2, <1>3, <1>4, <1>6, <1>9, CallBegun
  <1>11. PresenceOK' /\ \A b \in Actions : CoopOK(b)'
    BY <1>1, <1>6, PresenceStays, CoopStays DEF Of
  <1> QED
    BY <1>4, <1>7, <1>10, <1>11 DEF IInv

(***************************************************************************)
(* A handler sets what it has got.                                         *)
(***************************************************************************)

\* The presence is set, or left alone; the connection may be closed with it.
LEMMA PresenceSet ==
    ASSUME IInv, NEW k \in calls, k.kind \in PresenceKinds,
           calls' = calls \ {k},
           \/ presence' = presence
           \/ \E entries \in Entries :
                /\ SeenWhenHeard(entries)
                /\ presence' = Set(entries, 2 * PresenceTtl),
           conn' = conn \/ conn' = [conn EXCEPT ![k.conn] = Gone("closed")],
           UNCHANGED <<now, coop, active, gestured, cut, accepted>>
    PROVE  IInv'
  <1>1. now \in Nat /\ Types /\ Meanwhile
    BY DEF IInv, Types, Meanwhile
  <1>2. presence' \in [value : Entries, until : Nat] /\ SeenWhenHeard(presence.value)'
    <2>1. CASE presence' = presence
      BY <2>1 DEF IInv, Types, PresenceOK, SeenWhenHeard
    <2>2. ASSUME NEW entries \in Entries, SeenWhenHeard(entries),
                 presence' = Set(entries, 2 * PresenceTtl)
          PROVE  presence' \in [value : Entries, until : Nat] /\ SeenWhenHeard(presence.value)'
      <3>1. now + 2 * PresenceTtl \in Nat
        BY <1>1, LimitsArePositive
      <3>2. presence' \in [value : Entries, until : Nat] /\ presence'.value = entries
        BY <2>2, <3>1 DEF Set
      <3> QED
        BY <2>2, <3>2 DEF SeenWhenHeard
    <2> QED
      BY <2>1, <2>2
  <1>3. Gone("closed") \in Connection /\ Gone("closed").state = "closed"
    BY LimitsArePositive DEF Gone, Connection, Bucket
  <1>4. /\ conn' \in [Connections -> Connection]
        /\ \A c \in Connections : \/ conn'[c] = conn[c]
                                  \/ c = k.conn /\ conn'[c].state = "closed"
    <2>1. conn \in [Connections -> Connection] /\ k.conn \in Connections
      BY DEF IInv, Types, CallOK
    <2>2. CASE conn' = conn
      BY <2>1, <2>2
    <2>3. CASE conn' = [conn EXCEPT ![k.conn] = Gone("closed")]
      BY <1>3, <2>1, <2>3
    <2> QED
      BY <2>2, <2>3
  <1>5. Types'
    BY <1>1, <1>2, <1>4 DEF Types
  <1>6. \A c \in Connections : ConnectionOK(c)'
    <2> TAKE c \in Connections
    <2>1. ConnectionOK(c)
      BY DEF IInv
    <2>2. CASE conn'[c] = conn[c]
      BY <2>1, <2>2 DEF ConnectionOK
    <2>3. CASE conn'[c].state = "closed"
      BY <2>1, <2>3 DEF ConnectionOK
    <2> QED
      BY <1>4, <2>2, <2>3
  <1>7. (\A l \in calls' : CallOK(l)') /\ OneCallEach'
    <2>1. \A l \in calls' : l \in calls /\ l.conn # k.conn
      BY DEF IInv, OneCallEach
    <2>2. \A l \in calls' : conn'[l.conn].state = "open" /\ conn'[l.conn].user = conn[l.conn].user
      BY <1>4, <2>1 DEF IInv, CallOK
    <2> QED
      BY <1>1, <2>1, <2>2, CallsRemain
  <1>8. PresenceOK'
    BY <1>2 DEF IInv, PresenceOK
  <1>9. \A a \in Actions : CoopOK(a)'
    <2>1. \A l \in Of("complete") : l \in calls'
      BY DEF Of, PresenceKinds
    <2> QED
      BY <1>1, <2>1, CoopStays
  <1> QED
    BY <1>5, <1>6, <1>7, <1>8, <1>9 DEF IInv

LEMMA GotByCall ==
    ASSUME IInv, NEW k \in calls, k.kind \in PresenceKinds
    PROVE  /\ k.entries \in Entries /\ SeenWhenHeard(k.entries)
           /\ conn[k.conn].user \in Users /\ k.conn \in Connections
           /\ active[conn[k.conn].user] = now /\ now \in Nat
           /\ \A u \in Users : active[u] \in Nat
           /\ \A u \in Users : /\ k.entries[u] \in Entry \cup {Absent}
                               /\ k.entries[u].seen \in Nat
  <1>1. k.entries \in Entries /\ SeenWhenHeard(k.entries)
        /\ conn[k.conn].user \in Users /\ k.conn \in Connections
        /\ active[conn[k.conn].user] = now
    BY DEF IInv, CallOK
  <1>2. now \in Nat /\ \A u \in Users : active[u] \in Nat
    BY DEF IInv, Types
  <1>3. \A u \in Users : k.entries[u] \in Entry \cup {Absent} /\ k.entries[u].seen \in Nat
    BY <1>1 DEF Entries, Entry, Absent
  <1> QED
    BY <1>1, <1>2, <1>3

\* One user's entry is replaced by one that says he was seen now.
LEMMA EntryReplaced ==
    ASSUME IInv, NEW u \in Users, active[u] = now,
           NEW entries \in Entries, SeenWhenHeard(entries),
           NEW e \in Entry \cup {Absent}, e.seen = now \/ e = Absent
    PROVE  /\ [entries EXCEPT ![u] = e] \in Entries
           /\ SeenWhenHeard([entries EXCEPT ![u] = e])
           /\ [entries EXCEPT ![u] = e][u] = e
           /\ \A v \in Users : v # u => [entries EXCEPT ![u] = e][v] = entries[v]
  <1>1. now \in Nat
    BY DEF IInv, Types
  <1>2. e.seen <= now
    BY <1>1 DEF Absent
  <1>3. /\ [entries EXCEPT ![u] = e] \in Entries
        /\ [entries EXCEPT ![u] = e][u] = e
        /\ \A v \in Users : v # u => [entries EXCEPT ![u] = e][v] = entries[v]
    BY DEF Entries
  <1> QED
    BY <1>2, <1>3 DEF SeenWhenHeard

LEMMA CleanedIsEntries ==
    ASSUME IInv, NEW entries \in Entries, SeenWhenHeard(entries)
    PROVE  /\ Cleaned(entries) \in Entries /\ SeenWhenHeard(Cleaned(entries))
           /\ \A u \in Users : Cleaned(entries)[u] # Absent => now - active[u] <= PresenceTtl
  <1>1. \A u \in Users : /\ entries[u] \in Entry \cup {Absent} /\ entries[u].seen \in Nat
                         /\ entries[u].seen <= active[u]
                         /\ active[u] \in Nat /\ now \in Nat
    BY DEF IInv, Types, Entries, Entry, Absent, SeenWhenHeard
  <1>2. \A u \in Users :
            \/ Cleaned(entries)[u] = entries[u] /\ now - entries[u].seen <= PresenceTtl
            \/ Cleaned(entries)[u] = Absent
    BY DEF Cleaned
  <1>3. Absent.seen = 0
    BY DEF Absent
  <1>4. Cleaned(entries) \in Entries
    BY <1>1 DEF Cleaned, Entries
  <1>5. SeenWhenHeard(Cleaned(entries))
    BY <1>1, <1>2, <1>3 DEF SeenWhenHeard
  <1>6. \A u \in Users : Cleaned(entries)[u] # Absent => now - active[u] <= PresenceTtl
    BY <1>1, <1>2, LimitsArePositive
  <1> QED
    BY <1>4, <1>5, <1>6

LEMMA JoinPreserves ==
    ASSUME IInv, NEW k \in Of("join"), PresenceJoin(k)
    PROVE  IInv' /\ SnapshotsAreRecent'
  <1> DEFINE u == conn[k.conn].user
             cleaned == Cleaned(k.entries)
             e == [connections |-> cleaned[u].connections + 1, seen |-> now,
                   task |-> cleaned[u].task]
             joined == [cleaned EXCEPT ![u] = e]
  <1>1. k \in calls /\ k.kind \in PresenceKinds
    BY DEF Of, PresenceKinds
  <1>2. /\ k.entries \in Entries /\ SeenWhenHeard(k.entries) /\ u \in Users /\ active[u] = now
        /\ now \in Nat
    BY <1>1, GotByCall
  <1>3. /\ cleaned \in Entries /\ SeenWhenHeard(cleaned)
        /\ \A v \in Users : cleaned[v] # Absent => now - active[v] <= PresenceTtl
    BY <1>2, CleanedIsEntries
  <1>4. /\ presence' = Set(joined, 2 * PresenceTtl)
        /\ calls' = calls \ {k}
        /\ sent'.type = "presence.snapshot" /\ sent'.users = Present(joined)
        /\ UNCHANGED <<now, conn, coop, active, gestured, cut, accepted>>
    BY DEF PresenceJoin, SetPresence, End, UserOf
  <1>5. e \in Entry
    <2>1. cleaned[u] \in Entry \cup {Absent}
      BY <1>2, <1>3 DEF Entries
    <2>2. cleaned[u].connections \in Nat /\ cleaned[u].task \in Tasks \cup {None}
      BY <2>1 DEF Entry, Absent
    <2>3. cleaned[u].connections + 1 \in Nat \ {0}
      BY <2>2
    <2> HIDE DEF cleaned
    <2> QED
      BY <1>2, <2>2, <2>3 DEF Entry
  <1>6. e.seen = now
    OBVIOUS
  <1> HIDE DEF e, cleaned, u
  <1>7. /\ joined \in Entries /\ SeenWhenHeard(joined)
        /\ \A v \in Users : v # u => joined[v] = cleaned[v]
    BY <1>2, <1>3, <1>5, <1>6, EntryReplaced
  <1> HIDE DEF joined
  <1>8. IInv'
    BY <1>1, <1>4, <1>7, PresenceSet
  <1>9. \A v \in Present(joined) : now - active[v] <= PresenceTtl
    BY <1>2, <1>3, <1>7, LimitsArePositive DEF Present
  <1> QED
    BY <1>4, <1>8, <1>9 DEF SnapshotsAreRecent

\* touch and editing.
LEMMA TouchPreserves ==
    ASSUME IInv, NEW k \in calls, k.kind \in {"touch", "editing"}, NEW task,
           task = k.entries[UserOf(k.conn)].task \/ task \in Tasks \cup {None},
           Touched(k, task), UNCHANGED <<now, conn, coop, active, gestured, cut, accepted>>
    PROVE  IInv'
  <1> DEFINE u == conn[k.conn].user
  <1>1. k.kind \in PresenceKinds
    BY DEF PresenceKinds
  <1>2. /\ k.entries \in Entries /\ SeenWhenHeard(k.entries) /\ u \in Users /\ active[u] = now
        /\ now \in Nat /\ k.entries[u] \in Entry \cup {Absent}
    BY <1>1, GotByCall
  <1>3. CASE k.entries[u] = Absent
    BY <1>1, <1>3, PresenceSet DEF Touched, UserOf, End
  <1>4. CASE k.entries[u] # Absent
    <2> DEFINE e == [k.entries[u] EXCEPT !.seen = now, !.task = task]
    <2>1. e \in Entry /\ e.seen = now
      BY <1>2, <1>4 DEF Entry, UserOf
    <2>2. [k.entries EXCEPT ![u].seen = now, ![u].task = task] = [k.entries EXCEPT ![u] = e]
      BY <1>2 DEF Entries
    <2>3. /\ presence' = Set([k.entries EXCEPT ![u].seen = now, ![u].task = task],
                             2 * PresenceTtl)
          /\ calls' = calls \ {k}
      BY <1>4 DEF Touched, UserOf, SetPresence, End
    <2> HIDE DEF e, u
    <2>4. /\ [k.entries EXCEPT ![u] = e] \in Entries
          /\ SeenWhenHeard([k.entries EXCEPT ![u] = e])
      BY <1>2, <2>1, EntryReplaced
    <2> QED
      BY <1>1, <2>2, <2>3, <2>4, PresenceSet
  <1> QED
    BY <1>3, <1>4

LEMMA LeavePreserves ==
    ASSUME IInv, NEW k \in Of("leave"), PresenceLeave(k)
    PROVE  IInv'
  <1> DEFINE u == conn[k.conn].user
             entry == k.entries[u]
  <1>1. k \in calls /\ k.kind \in PresenceKinds
    BY DEF Of, PresenceKinds
  <1>2. /\ k.entries \in Entries /\ SeenWhenHeard(k.entries) /\ u \in Users /\ active[u] = now
        /\ now \in Nat /\ entry \in Entry \cup {Absent}
    BY <1>1, GotByCall
  <1>3. /\ conn' = [conn EXCEPT ![k.conn] = Gone("closed")]
        /\ UNCHANGED <<now, coop, active, gestured, cut, accepted>>
    BY DEF PresenceLeave
  <1>4. /\ calls' = calls \ {k}
        /\ \/ presence' = presence
           \/ presence' = Set([k.entries EXCEPT ![u] = Absent], 2 * PresenceTtl)
           \/ /\ entry.connections > 1
              /\ presence' = Set([k.entries EXCEPT ![u].seen = now,
                                                   ![u].connections = @ - 1],
                                 2 * PresenceTtl)
    BY DEF PresenceLeave, SetPresence, End, UserOf
  <1>5. CASE presence' = presence
    BY <1>1, <1>3, <1>4, <1>5, PresenceSet
  <1>6. CASE presence' = Set([k.entries EXCEPT ![u] = Absent], 2 * PresenceTtl)
    <2> HIDE DEF u
    <2>1. /\ [k.entries EXCEPT ![u] = Absent] \in Entries
          /\ SeenWhenHeard([k.entries EXCEPT ![u] = Absent])
      BY <1>2, EntryReplaced
    <2> QED
      BY <1>1, <1>3, <1>4, <1>6, <2>1, PresenceSet
  <1>7. CASE /\ entry.connections > 1
             /\ presence' = Set([k.entries EXCEPT ![u].seen = now,
                                                  ![u].connections = @ - 1],
                                2 * PresenceTtl)
    <2> DEFINE e == [entry EXCEPT !.seen = now, !.connections = @ - 1]
    <2>1. entry \in Entry
      <3>1. Absent.connections = 0
        BY DEF Absent
      <3>2. entry # Absent
        BY <1>7, <3>1
      <3> QED
        BY <1>2, <3>2
    <2>2. e \in Entry /\ e.seen = now
      <3>1. entry.connections - 1 \in Nat \ {0}
        <4>1. entry.connections > 1
          BY <1>7
        <4>2. entry.connections \in Nat
          BY <2>1 DEF Entry
        <4> QED
          BY <4>1, <4>2
      <3> HIDE DEF entry
      <3> QED
        BY <1>2, <2>1, <3>1 DEF Entry
    <2>3. [k.entries EXCEPT ![u].seen = now, ![u].connections = @ - 1]
             = [k.entries EXCEPT ![u] = e]
      BY <1>2 DEF Entries
    <2> HIDE DEF e, u
    <2>4. /\ [k.entries EXCEPT ![u] = e] \in Entries
          /\ SeenWhenHeard([k.entries EXCEPT ![u] = e])
      BY <1>2, <2>2, EntryReplaced
    <2> QED
      BY <1>1, <1>3, <1>4, <1>7, <2>3, <2>4, PresenceSet
  <1> QED
    BY <1>4, <1>5, <1>6, <1>7

(***************************************************************************)
(* Gestures.                                                               *)
(***************************************************************************)

LEMMA PartnerIsWaiting ==
    ASSUME NEW current \in Waiting, NEW u \in Users
    PROVE  LET both == WithPartner(current, u)
           IN  /\ both \in Waiting
               /\ ToSet(both) \subseteq ToSet(current) \cup {u}
               /\ Cardinality(ToSet(both)) \in {1, 2}
               /\ Cardinality(ToSet(both)) = 1 => ToSet(both) = {u}
  <1> DEFINE others == {i \in DOMAIN current : current[i] # u}
             i == Max(others)
  <1>1. CASE others = {}
    <2>1. WithPartner(current, u) = <<u>>
      BY <1>1 DEF WithPartner
    <2>2. <<u>> \in Waiting
      <3>1. <<u>> \in [1..1 -> Users] /\ 1 \in 0..2
        OBVIOUS
      <3> QED
        BY <3>1 DEF Waiting, BoundedSeq, SeqOf
    <2>3. ToSet(<<u>>) = {u}
      BY DEF ToSet
    <2> QED
      BY <2>1, <2>2, <2>3, FS_Singleton
  <1>2. CASE others # {}
    <2>1. i \in others
      <3>1. others \subseteq {1, 2}
        BY WaitingAreUsers
      <3>2. \E x \in others : \A y \in others : x >= y
        <4>1. CASE 2 \in others
          BY <3>1, <4>1
        <4>2. CASE 2 \notin others
          BY <1>2, <3>1, <4>2
        <4> QED
          BY <4>1, <4>2
      <3> HIDE DEF others
      <3> QED
        BY <3>2 DEF Max
    <2> DEFINE v == current[i]
    <2>2. v # u /\ v \in ToSet(current) /\ v \in Users
      BY <2>1, WaitingAreUsers DEF ToSet
    <2>3. WithPartner(current, u) = <<v, u>>
      BY <1>2 DEF WithPartner
    <2> HIDE DEF v
    <2>4. <<v, u>> \in Waiting
      <3>1. <<v, u>> \in [1..2 -> Users] /\ 2 \in 0..2
        BY <2>2
      <3> QED
        BY <3>1 DEF Waiting, BoundedSeq, SeqOf
    <2>5. ToSet(<<v, u>>) = {v, u}
      BY DEF ToSet
    <2>6. Cardinality({v, u}) = 2
      <3>1. PICK S : S = {v}
        OBVIOUS
      <3>2. IsFiniteSet(S) /\ Cardinality(S) = 1
        BY <3>1, FS_Singleton
      <3>3. {v, u} = S \cup {u} /\ u \notin S
        BY <2>2, <3>1
      <3>4. Cardinality(S \cup {u}) = Cardinality(S) + 1
        BY <3>2, <3>3, FS_AddElement
      <3> QED
        BY <3>2, <3>3, <3>4
    <2> QED
      BY <2>2, <2>3, <2>4, <2>5, <2>6
  <1> QED
    BY <1>1, <1>2

LEMMA SetCoopPreserves ==
    ASSUME IInv, NEW k \in Of("coop"), SetCoop(k)
    PROVE  IInv'
  <1>1. PICK a : a = k.action
    OBVIOUS
  <1>2. PICK u : u = conn[k.conn].user
    OBVIOUS
  <1>3. PICK both : both = WithPartner(k.current, u)
    OBVIOUS
  <1>4. PICK next : next = [kind |-> "complete", conn |-> k.conn, action |-> a,
                            participants |-> both]
    OBVIOUS
  <1>5. next.kind = "complete" /\ next.conn = k.conn /\ next.action = a
        /\ next.participants = both
    BY <1>4
  <1>6. k \in calls /\ k.kind = "coop" /\ k.conn \in Connections /\ conn[k.conn].state = "open"
    BY DEF Of, IInv, CallOK
  <1>7. /\ u \in Users /\ a \in Actions /\ k.current \in Waiting
        /\ \A v \in ToSet(k.current) : Fresh(v, a)
        /\ gestured[<<u, a>>] = now
    BY <1>1, <1>2, <1>6 DEF IInv, CallOK
  <1>8. /\ coop' = [coop EXCEPT ![a] = Set(both, CoopTimeout)]
        /\ calls' = (calls \ {k}) \cup
              IF Cardinality(ToSet(both)) < 2 THEN {} ELSE {next}
        /\ UNCHANGED <<now, conn, presence, active, gestured, cut, accepted>>
    BY <1>1, <1>2, <1>3, <1>4 DEF SetCoop, UserOf
  <1>9. /\ both \in Waiting /\ ToSet(both) \subseteq ToSet(k.current) \cup {u}
        /\ Cardinality(ToSet(both)) \in {1, 2}
        /\ Cardinality(ToSet(both)) = 1 => ToSet(both) = {u}
    BY <1>3, <1>7, PartnerIsWaiting
  <1>10. now \in Nat /\ Types /\ Meanwhile
    BY <1>8 DEF IInv, Types, Meanwhile
  <1>11. Fresh(u, a)
    BY <1>7, <1>10, LimitsArePositive DEF Fresh
  <1>12. \A v \in ToSet(both) : v \in Users /\ Fresh(v, a)
    BY <1>7, <1>9, <1>11, WaitingAreUsers
  <1>13. \A v \in ToSet(both) : Fresh(v, a)'
    BY <1>7, <1>10, <1>12, StaysFresh
  <1>14. /\ coop' \in [Actions -> [value : Waiting, until : Nat]]
         /\ coop'[a].value = both /\ coop'[a].until = now + CoopTimeout
         /\ \A b \in Actions : b # a => coop'[b] = coop[b]
    <2>1. Set(both, CoopTimeout) \in [value : Waiting, until : Nat]
      BY <1>9, <1>10, LimitsArePositive DEF Set
    <2>2. Set(both, CoopTimeout).value = both /\ Set(both, CoopTimeout).until = now + CoopTimeout
      BY DEF Set
    <2>3. coop \in [Actions -> [value : Waiting, until : Nat]]
      BY <1>10 DEF Types
    <2>4. coop'[a] = Set(both, CoopTimeout) /\ \A b \in Actions : b # a => coop'[b] = coop[b]
      BY <1>7, <1>8, <2>3
    <2> QED
      BY <1>8, <2>1, <2>2, <2>3, <2>4
  <1>15. Types'
    BY <1>8, <1>10, <1>14 DEF Types
  <1>16. \A c \in Connections : ConnectionOK(c)'
    BY <1>8, <1>10, BucketsStay
  <1>17. PresenceOK'
    BY <1>8, <1>10, PresenceStays
  <1>18. \A l \in calls \ {k} : CallOK(l)' /\ l.conn # k.conn
    BY <1>6, <1>8, <1>10, CallStays DEF IInv, OneCallEach, CallOK
  <1>19. Cardinality(ToSet(both)) = 2 => CallOK(next)'
    BY <1>5, <1>6, <1>7, <1>8, <1>12, <1>13, <1>2 DEF CallOK, PresenceKinds
  <1>20. \A l \in calls' : l \in calls \ {k} \/ (l = next /\ Cardinality(ToSet(both)) = 2)
    BY <1>8, <1>9
  <1>21. (\A l \in calls' : CallOK(l)') /\ OneCallEach'
    <2>1. \A l \in calls' : CallOK(l)'
      BY <1>18, <1>19, <1>20
    <2>2. OneCallEach'
      BY <1>5, <1>18, <1>20 DEF IInv, OneCallEach
    <2> QED
      BY <2>1, <2>2
  <1>22. \A l \in Of("complete") : l \in calls'
    BY <1>6, <1>8 DEF Of
  <1>23. ASSUME NEW b \in Actions, b # a PROVE CoopOK(b)'
    <2>1. Of("complete") \subseteq Of("complete")'
      BY <1>22 DEF Of
    <2>2. coop'[b] = coop[b]
      BY <1>14, <1>23
    <2>3. CoopOK(b)
      BY DEF IInv
    <2> QED
      BY <1>8, <2>1, <2>2, <2>3 DEF CoopOK, Fresh, FreshWhileCached
  <1>24. CoopOK(a)'
    <2>1. /\ coop'[a].until <= now' + CoopTimeout /\ cut'[a] <= now'
          /\ \A v \in Users : gestured'[<<v, a>>] <= now'
      BY <1>7, <1>8, <1>10, <1>14, LimitsArePositive DEF IInv, CoopOK
    <2>2. CASE Cardinality(ToSet(both)) = 2
      <3>1. next \in Of("complete")'
        BY <1>5, <1>8, <2>2 DEF Of
      <3> QED
        BY <1>5, <1>13, <1>14, <2>1, <3>1 DEF CoopOK
    <2>3. CASE Cardinality(ToSet(both)) = 1
      <3>1. \A v \in ToSet(both) : v = u
        BY <1>9, <2>3
      <3>2. FreshWhileCached(u, a)'
        BY <1>7, <1>8, <1>10, <1>14, LimitsArePositive DEF FreshWhileCached
      <3> QED
        BY <1>13, <1>14, <2>1, <3>1, <3>2 DEF CoopOK
    <2> QED
      BY <1>9, <2>2, <2>3
  <1> QED
    BY <1>15, <1>16, <1>17, <1>21, <1>23, <1>24 DEF IInv

LEMMA CompletePreserves ==
    ASSUME IInv, NEW k \in Of("complete"), CompleteCoop(k)
    PROVE  IInv' /\ GesturesAreMutual'
  <1>1. PICK a : a = k.action
    OBVIOUS
  <1>2. k \in calls /\ k.kind = "complete"
    BY DEF Of
  <1>3. /\ a \in Actions /\ Cardinality(ToSet(k.participants)) = 2
        /\ \A v \in ToSet(k.participants) : v \in Users /\ Fresh(v, a)
    BY <1>1, <1>2 DEF IInv, CallOK
  <1>4. /\ coop' = [coop EXCEPT ![a] = [value |-> <<>>, until |-> now]]
        /\ sent'.type = "carly.coop.completed" /\ sent'.action = a
        /\ sent'.participants = k.participants
        /\ calls' = calls \ {k}
        /\ UNCHANGED <<now, conn, presence, active, gestured, cut, accepted>>
    BY <1>1 DEF CompleteCoop, End
  <1>5. now \in Nat /\ Types /\ Meanwhile
    BY <1>4 DEF IInv, Types, Meanwhile
  <1>6. /\ coop' \in [Actions -> [value : Waiting, until : Nat]]
        /\ coop'[a].value = <<>> /\ coop'[a].until = now
        /\ \A b \in Actions : b # a => coop'[b] = coop[b]
    <2>1. <<>> \in Waiting
      <3>1. <<>> \in [1..0 -> Users] /\ 0 \in 0..2
        OBVIOUS
      <3> QED
        BY <3>1 DEF Waiting, BoundedSeq, SeqOf
    <2>2. coop \in [Actions -> [value : Waiting, until : Nat]]
      BY <1>5 DEF Types
    <2> QED
      BY <1>3, <1>4, <1>5, <2>1, <2>2
  <1>7. Types'
    BY <1>4, <1>5, <1>6 DEF Types
  <1>8. \A c \in Connections : ConnectionOK(c)'
    BY <1>4, <1>5, BucketsStay
  <1>9. PresenceOK'
    BY <1>4, <1>5, PresenceStays
  <1>10. (\A l \in calls' : CallOK(l)') /\ OneCallEach'
    BY <1>4, <1>5, CallsRemain DEF IInv, CallOK
  <1>11. ASSUME NEW b \in Actions, b # a PROVE CoopOK(b)'
    <2>1. \A l \in Of("complete") : l.action = b => l \in Of("complete")'
      BY <1>1, <1>4, <1>11 DEF Of
    <2>2. coop'[b] = coop[b]
      BY <1>6, <1>11
    <2>3. CoopOK(b)
      BY DEF IInv
    <2> QED
      BY <1>4, <2>1, <2>2, <2>3 DEF CoopOK, Fresh, FreshWhileCached
  <1>12. CoopOK(a)'
    <2>1. /\ cut'[a] <= now' /\ \A v \in Users : gestured'[<<v, a>>] <= now'
      BY <1>3, <1>4 DEF IInv, CoopOK
    <2>2. ToSet(<<>>) = {} /\ now' = now /\ now <= now + CoopTimeout
      BY <1>4, <1>5, LimitsArePositive DEF ToSet
    <2> QED
      BY <1>6, <2>1, <2>2 DEF CoopOK
  <1>13. GesturesAreMutual'
    BY <1>3, <1>4 DEF GesturesAreMutual, Fresh
  <1> QED
    BY <1>7, <1>8, <1>9, <1>10, <1>11, <1>12, <1>13 DEF IInv

(***************************************************************************)
(* Death, time, and all steps.                                             *)
(***************************************************************************)

LEMMA CrashPreserves ==
    ASSUME IInv, NEW c \in Connections, Crash(c)
    PROVE  IInv'
  <1>1. /\ conn[c].state = "open"
        /\ conn' = [conn EXCEPT ![c] = Gone("closed")]
        /\ calls' = {k \in calls : k.conn # c}
        /\ cut' = [a \in Actions |->
              IF \E k \in Of("complete") : k.conn = c /\ k.action = a THEN now ELSE cut[a]]
        /\ UNCHANGED <<now, presence, coop, active, gestured, accepted>>
    BY DEF Crash
  <1>2. now \in Nat /\ Types /\ Meanwhile
    BY <1>1 DEF IInv, Types, Meanwhile
  <1>3. Gone("closed") \in Connection /\ Gone("closed").state = "closed"
    BY LimitsArePositive DEF Gone, Connection, Bucket
  <1>4. /\ conn' \in [Connections -> Connection] /\ conn'[c].state = "closed"
        /\ \A d \in Connections : d # c => conn'[d] = conn[d]
    BY <1>1, <1>2, <1>3 DEF Types
  <1>5. cut' \in [Actions -> Nat]
    BY <1>1, <1>2 DEF Types
  <1>6. Types'
    BY <1>1, <1>2, <1>4, <1>5 DEF Types
  <1>7. \A d \in Connections : ConnectionOK(d)'
    <2> TAKE d \in Connections
    <2>1. ConnectionOK(d)
      BY DEF IInv
    <2>2. CASE d # c
      BY <1>1, <1>4, <2>1, <2>2 DEF ConnectionOK
    <2>3. CASE d = c
      BY <1>1, <1>4, <2>1, <2>3 DEF ConnectionOK
    <2> QED
      BY <2>2, <2>3
  <1>8. (\A k \in calls' : CallOK(k)') /\ OneCallEach'
    <2>1. \A k \in calls' : k \in calls /\ k.conn # c
      BY <1>1
    <2>2. \A k \in calls' : conn'[k.conn].state = "open" /\ conn'[k.conn].user = conn[k.conn].user
      BY <1>4, <2>1 DEF IInv, CallOK
    <2> QED
      BY <1>2, <2>1, <2>2, CallsRemain
  <1>9. PresenceOK'
    BY <1>1, <1>2, PresenceStays
  <1>10. \A a \in Actions : CoopOK(a)'
    <2> TAKE a \in Actions
    <2>1. CoopOK(a)
      BY DEF IInv
    <2>2. /\ now' = now /\ coop' = coop /\ gestured' = gestured
          /\ cut'[a] \in Nat /\ cut[a] \in Nat /\ cut'[a] >= cut[a] /\ cut'[a] <= now
      <3>1. cut[a] \in Nat /\ cut[a] <= now
        BY <1>2, <2>1 DEF Types, CoopOK
      <3> QED
        BY <1>1, <1>2, <1>5, <3>1
    <2>3. \A v \in ToSet(coop[a].value) : v \in Users /\ gestured[<<v, a>>] \in Nat
                                          /\ gestured[<<v, a>>] <= now
      <3>1. coop[a].value \in Waiting
        BY <1>2 DEF Types
      <3> QED
        BY <1>2, <2>1, <3>1, WaitingAreUsers DEF Types, CoopOK
    <2>4. now < coop[a].until => \A v \in ToSet(coop[a].value) : Fresh(v, a)'
      BY <1>2, <2>1, <2>3, StaysFresh DEF CoopOK
    <2>5. CASE cut'[a] = now
      <3>1. \A v \in ToSet(coop[a].value) : FreshWhileCached(v, a)'
        BY <2>2, <2>3, <2>5 DEF FreshWhileCached
      <3> QED
        BY <2>1, <2>2, <2>4, <3>1 DEF CoopOK
    <2>6. CASE cut'[a] # now
      <3>1. /\ cut'[a] = cut[a]
            /\ \A k \in Of("complete") : k.action = a => k \in Of("complete")'
        BY <1>1, <2>6 DEF Of
      <3>2. \A v \in ToSet(coop[a].value) : FreshWhileCached(v, a) => FreshWhileCached(v, a)'
        BY <2>2, <3>1 DEF FreshWhileCached
      <3> QED
        BY <2>1, <2>2, <2>4, <3>1, <3>2 DEF CoopOK
    <2> QED
      BY <2>5, <2>6
  <1> QED
    BY <1>6, <1>7, <1>8, <1>9, <1>10 DEF IInv

LEMMA TickPreserves ==
    ASSUME IInv, Tick
    PROVE  IInv'
  <1>1. /\ calls = {} /\ now \in Nat /\ now' = now + 1
        /\ UNCHANGED <<conn, presence, coop, calls, active, gestured, cut, accepted>>
    BY DEF Tick, IInv, Types
  <1>2. Types'
    BY <1>1 DEF IInv, Types
  <1>3. \A c \in Connections : ConnectionOK(c)'
    BY <1>1, BucketsStay
  <1>4. (\A k \in calls' : CallOK(k)') /\ OneCallEach'
    BY <1>1 DEF OneCallEach
  <1>5. PresenceOK'
    <2>1. \A u \in Users : active[u] \in Nat /\ active[u] <= now /\ active' = active
      BY <1>1 DEF IInv, Types, PresenceOK
    <2> QED
      BY <1>1, <2>1 DEF IInv, PresenceOK, SeenWhenHeard
  <1>6. \A a \in Actions : CoopOK(a)'
    <2> TAKE a \in Actions
    <2>1. CoopOK(a)
      BY DEF IInv
    <2>2. \A v \in ToSet(coop[a].value) : v \in Users /\ gestured[<<v, a>>] \in Nat
      <3>1. coop[a].value \in Waiting
        BY DEF IInv, Types
      <3> QED
        BY <3>1, WaitingAreUsers DEF IInv, Types
    <2>3. coop[a].until \in Nat /\ cut[a] \in Nat
      BY DEF IInv, Types
    <2>4. \A v \in ToSet(coop[a].value) : FreshWhileCached(v, a)
      BY <1>1, <2>1 DEF CoopOK, Of
    <2>5. now' < coop[a].until => \A v \in ToSet(coop[a].value) : Fresh(v, a)'
      BY <1>1, <2>2, <2>3, <2>4, LimitsArePositive DEF Fresh, FreshWhileCached
    <2>6. /\ coop'[a].until <= now' + CoopTimeout /\ cut'[a] <= now'
          /\ \A u \in Users : gestured'[<<u, a>>] <= now'
      <3>1. \A u \in Users : gestured[<<u, a>>] \in Nat
        BY DEF IInv, Types
      <3> QED
        BY <1>1, <2>1, <2>3, <3>1, LimitsArePositive DEF CoopOK
    <2>7. \A v \in ToSet(coop[a].value) : FreshWhileCached(v, a)'
      BY <1>1, <2>4 DEF FreshWhileCached
    <2> QED
      BY <1>1, <2>5, <2>6, <2>7 DEF CoopOK
  <1> QED
    BY <1>2, <1>3, <1>4, <1>5, <1>6 DEF IInv

LEMMA InitEstablishes == Init => IInv
  <1> SUFFICES ASSUME Init PROVE IInv
    OBVIOUS
  <1>1. Nobody \in Entries /\ \A u \in Users : Nobody[u].seen = 0
    BY DEF Nobody, Entries, Absent
  <1>2. <<>> \in Waiting /\ ToSet(<<>>) = {}
    <2>1. <<>> \in [1..0 -> Users] /\ 0 \in 0..2
      OBVIOUS
    <2> QED
      BY <2>1 DEF Waiting, BoundedSeq, SeqOf, ToSet
  <1>3. Gone("new") \in Connection /\ Gone("new").state = "new"
    BY LimitsArePositive DEF Gone, Connection, Bucket
  <1>4. Types
    <2>1. presence \in [value : Entries, until : Nat]
      BY <1>1 DEF Init
    <2>2. coop \in [Actions -> [value : Waiting, until : Nat]]
      BY <1>2 DEF Init
    <2>3. conn \in [Connections -> Connection]
      BY <1>3 DEF Init
    <2> QED
      BY <2>1, <2>2, <2>3 DEF Init, Types
  <1>5. \A c \in Connections : ConnectionOK(c)
    BY <1>3 DEF Init, ConnectionOK
  <1>6. PresenceOK
    BY <1>1 DEF Init, PresenceOK, SeenWhenHeard
  <1>7. \A a \in Actions : CoopOK(a)
    <2> TAKE a \in Actions
    <2>1. coop[a].value = <<>> /\ coop[a].until = 1 /\ now = 1 /\ cut[a] = 0
      BY DEF Init
    <2>2. \A u \in Users : gestured[<<u, a>>] = 0
      BY DEF Init
    <2> QED
      BY <1>2, <2>1, <2>2, LimitsArePositive DEF CoopOK
  <1> QED
    BY <1>4, <1>5, <1>6, <1>7 DEF Init, IInv, OneCallEach

\* What the clients are told.
Told == SnapshotsAreRecent /\ GesturesAreMutual

LEMMA QuietTells ==
    ASSUME sent'.type \notin {"presence.snapshot", "carly.coop.completed"}
    PROVE  Told'
  BY DEF Told, SnapshotsAreRecent, GesturesAreMutual

LEMMA ReceivePreserves ==
    ASSUME IInv, NEW c \in Connections, Receive(c)
    PROVE  IInv' /\ Told'
  <1>1. IInv'
    BY ConnectPreserves, HeartbeatPreserves, EditingPreserves, GesturePreserves,
       RefusalPreserves, DisconnectPreserves, CrashPreserves DEF Receive
  <1>2. sent' = Nothing
    BY DEF Receive, Connect, Heartbeat, HandleEditing, HandleCooperativeAction,
           RateLimited, Disconnect, Crash, Quiet
  <1> QED
    BY <1>1, <1>2, QuietTells DEF Nothing

LEMMA ProceedPreserves ==
    ASSUME IInv, Proceed
    PROVE  IInv' /\ Told'
  <1>1. ASSUME NEW k \in Of("join"), PresenceJoin(k) PROVE IInv' /\ Told'
    <2>1. sent'.type = "presence.snapshot"
      BY <1>1 DEF PresenceJoin
    <2> QED
      BY <1>1, <2>1, JoinPreserves DEF Told, GesturesAreMutual
  <1>2. ASSUME NEW k \in Of("touch"), PresenceTouch(k) PROVE IInv' /\ Told'
    <2>1. sent' = Nothing
      BY <1>2 DEF PresenceTouch, Quiet
    <2>2. Touched(k, k.entries[UserOf(k.conn)].task)
          /\ UNCHANGED <<now, conn, coop, active, gestured, cut, accepted>>
      BY <1>2 DEF PresenceTouch
    <2>3. k \in calls /\ k.kind \in {"touch", "editing"}
      BY DEF Of
    <2>4. IInv'
      BY <2>2, <2>3, TouchPreserves
    <2> QED
      BY <2>1, <2>4, QuietTells DEF Nothing
  <1>3. ASSUME NEW k \in Of("editing"), PresenceEditing(k) PROVE IInv' /\ Told'
    <2>1. sent'.type = "editing.changed"
      BY <1>3 DEF PresenceEditing
    <2>2. Touched(k, k.task) /\ UNCHANGED <<now, conn, coop, active, gestured, cut, accepted>>
      BY <1>3 DEF PresenceEditing
    <2>3. k \in calls /\ k.kind \in {"touch", "editing"} /\ k.task \in Tasks \cup {None}
      BY DEF Of, IInv, CallOK
    <2>4. IInv'
      BY <2>2, <2>3, TouchPreserves
    <2> QED
      BY <2>1, <2>4, QuietTells
  <1>4. ASSUME NEW k \in Of("leave"), PresenceLeave(k) PROVE IInv' /\ Told'
    <2>1. sent'.type = "presence.left" \/ sent' = Nothing
      BY <1>4 DEF PresenceLeave, Left, Quiet
    <2> QED
      BY <1>4, <2>1, LeavePreserves, QuietTells DEF Nothing
  <1>5. ASSUME NEW k \in Of("coop"), SetCoop(k) PROVE IInv' /\ Told'
    <2>1. sent' = Nothing
      BY <1>5 DEF SetCoop, Quiet
    <2> QED
      BY <1>5, <2>1, SetCoopPreserves, QuietTells DEF Nothing
  <1>6. ASSUME NEW k \in Of("complete"), CompleteCoop(k) PROVE IInv' /\ Told'
    <2>1. sent'.type = "carly.coop.completed"
      BY <1>6 DEF CompleteCoop
    <2> QED
      BY <1>6, <2>1, CompletePreserves DEF Told, SnapshotsAreRecent
  <1> QED
    BY <1>1, <1>2, <1>3, <1>4, <1>5, <1>6 DEF Proceed

LEMMA NextPreserves ==
    ASSUME IInv /\ Told, [Next]_vars
    PROVE  (IInv /\ Told)'
  <1>1. CASE Tick
    <2>1. sent' = Nothing
      BY <1>1 DEF Tick, Quiet
    <2> QED
      BY <1>1, <2>1, TickPreserves, QuietTells DEF Nothing
  <1>2. CASE UNCHANGED vars
    BY <1>2 DEF vars, IInv, Types, ConnectionOK, CallOK, SeenWhenHeard, Fresh, OneCallEach,
                PresenceOK, CoopOK, FreshWhileCached, Of, Told, SnapshotsAreRecent,
                GesturesAreMutual
  <1> QED
    BY <1>1, <1>2, ProceedPreserves, ReceivePreserves DEF Next

LEMMA InitTells == Init => Told
  BY DEF Init, Nothing, Told, SnapshotsAreRecent, GesturesAreMutual

(***************************************************************************)
(* Theorems.                                                               *)
(***************************************************************************)

\* Cached values have the form that the handlers expect, and the bucket never
\* overflows (consumers.py:275-279, rate_limit.py:27).
THEOREM TypeCorrect == Spec => []TypeOK
  <1>1. IInv => TypeOK
    BY DEF IInv, Types, TypeOK, Entries, Waiting, Connection, Bucket
  <1> QED
    BY InitEstablishes, InitTells, NextPreserves, <1>1, PTL DEF Spec

\* Whatever updates of the presence overwrite each other, and whichever
\* connections die: whom a snapshot shows was heard of within the time to live
\* (consumers.py:221-241).
THEOREM SnapshotsRecent == Spec => []SnapshotsAreRecent
  <1>1. Told => SnapshotsAreRecent
    BY DEF Told
  <1> QED
    BY InitEstablishes, InitTells, NextPreserves, <1>1, PTL DEF Spec

\* Two different people complete a gesture, within its time unless a completion
\* has died half done since (consumers.py:146-163).
THEOREM GesturesMutual == Spec => []GesturesAreMutual
  <1>1. Told => GesturesAreMutual
    BY DEF Told
  <1> QED
    BY InitEstablishes, InitTells, NextPreserves, <1>1, PTL DEF Spec

\* For any capacity and refill, at any times, in any interval no more gets
\* through than the capacity and what is refilled in it (rate_limit.py:22-31).
THEOREM MessagesLimited == Spec => []MessagesAreLimited
  <1>1. IInv => MessagesAreLimited
    <2> SUFFICES ASSUME IInv, NEW c \in Connections,
                        NEW i \in DOMAIN accepted[c], NEW j \in DOMAIN accepted[c], i <= j
                 PROVE  j - i + 1 <= Capacity + Refill * (accepted[c][j] - accepted[c][i])
      BY DEF MessagesAreLimited
    <2>1. DOMAIN accepted[c] = 1..Len(accepted[c])
      BY DEF IInv, Types
    <2> QED
      BY <2>1 DEF IInv, ConnectionOK
  <1> QED
    BY InitEstablishes, InitTells, NextPreserves, <1>1, PTL DEF Spec
================================================================================
