------------------------- MODULE PayloadCacheProofs -------------------------
(* The cache of undecipherable payloads keeps its invariant, the newest       *)
(* payloads of every key, and evicts by recency, for every set of users and   *)
(* keys and every capacity.                                                   *)
EXTENDS PayloadCache, FiniteSetTheorems, SequenceTheorems, TLAPS

-----------------------------------------------------------------------------
(* The inductive invariant. *)

KeyEntry == [id : Keys, msgs : Seq(1 .. MaxPushes)]
UserEntry == [id : Users, total : Nat, cache : Seq(KeyEntry)]

\* The queues of a user: one for each key, none empty, the key of the newest payload first.
Recent(e, f) == e.id # f.id /\ e.msgs[Len(e.msgs)] > f.msgs[Len(f.msgs)]
Queues(keys) ==
  /\ keys \in Seq(KeyEntry)
  /\ \A a \in DOMAIN keys : Len(keys[a].msgs) > 0
  /\ \A a, b \in DOMAIN keys : a < b => Recent(keys[a], keys[b])

\* What is cached for a key is an end of what was pushed for it.
EndOf(s, t) ==
  /\ Len(s) <= Len(t)
  /\ \A i \in 1 .. Len(s) : s[i] = t[Len(t) - Len(s) + i]
EndsIn(p, u, keys) == \A a \in DOMAIN keys : EndOf(keys[a].msgs, p[<<u, keys[a].id>>])
Ends(u, keys) == EndsIn(pushed, u, keys)

Full(c) == c.total = Cardinality(Payloads(c.cache)) /\ c.total <= MessagesCapacity

\* Payloads are numbered as they are pushed.
Numbered ==
  /\ \A q \in Users \X Keys :
       /\ \A i, j \in DOMAIN pushed[q] : i < j => pushed[q][i] < pushed[q][j]
       /\ \A i \in DOMAIN pushed[q] : pushed[q][i] <= pushes
  /\ \A q, r \in Users \X Keys : \A i \in DOMAIN pushed[q], j \in DOMAIN pushed[r] :
       q # r => pushed[q][i] # pushed[r][j]

KeptIn(p, c) == c \in UserEntry /\ Queues(c.cache) /\ EndsIn(p, c.id, c.cache) /\ Full(c)
Kept(c) == KeptIn(pushed, c)

CacheInv ==
  /\ TypeOK
  /\ Numbered
  /\ Len(user_caches) <= UsersCapacity
  /\ \A i, j \in DOMAIN user_caches : i < j => user_caches[i].id # user_caches[j].id
  /\ \A i \in DOMAIN user_caches : Kept(user_caches[i])

-----------------------------------------------------------------------------
(* Sequences. *)

LEMMA Elements ==
  ASSUME NEW S, NEW s \in Seq(S), NEW i \in DOMAIN s
  PROVE  s[i] \in S
OBVIOUS

LEMMA RemoveAtProps ==
  ASSUME NEW S, NEW s \in Seq(S), NEW i \in 1 .. Len(s)
  PROVE  /\ RemoveAt(s, i) \in Seq(S)
         /\ Len(RemoveAt(s, i)) = Len(s) - 1
         /\ \A j \in 1 .. (Len(s) - 1) :
              RemoveAt(s, i)[j] = IF j < i THEN s[j] ELSE s[j + 1]
<1>. DEFINE before == SubSeq(s, 1, i - 1)
            after == SubSeq(s, i + 1, Len(s))
<1>1. /\ before \in Seq(S) /\ Len(before) = i - 1
      /\ \A j \in 1 .. (i - 1) : before[j] = s[j]
  OBVIOUS
<1>2. /\ after \in Seq(S) /\ Len(after) = Len(s) - i
      /\ \A j \in 1 .. (Len(s) - i) : after[j] = s[i + j]
  OBVIOUS
<1>3. RemoveAt(s, i) = before \o after
  BY DEF RemoveAt
<1>. HIDE DEF before, after
<1>4. before \o after \in Seq(S) /\ Len(before \o after) = Len(s) - 1
  BY <1>1, <1>2
<1>5. ASSUME NEW j \in 1 .. (Len(s) - 1)
      PROVE  (before \o after)[j] = IF j < i THEN s[j] ELSE s[j + 1]
  BY <1>1, <1>2
<1>. QED  BY <1>3, <1>4, <1>5

LEMMA ConsProps ==
  ASSUME NEW S, NEW s \in Seq(S), NEW e \in S
  PROVE  /\ <<e>> \o s \in Seq(S) /\ Len(<<e>> \o s) = Len(s) + 1
         /\ (<<e>> \o s)[1] = e
         /\ \A j \in 1 .. Len(s) : (<<e>> \o s)[j + 1] = s[j]
         /\ \A j \in 2 .. Len(s) + 1 : (<<e>> \o s)[j] = s[j - 1]
OBVIOUS

LEMMA FrontProps ==
  ASSUME NEW S, NEW s \in Seq(S), Len(s) > 0
  PROVE  /\ Front(s) \in Seq(S) /\ Len(Front(s)) = Len(s) - 1
         /\ \A j \in 1 .. (Len(s) - 1) : Front(s)[j] = s[j]
         /\ Last(s) \in S /\ Last(s) = s[Len(s)]
<1>1. Len(s) \in Nat \ {0} /\ Len(s) - 1 \in 0 .. Len(s) /\ s[Len(s)] \in S
  OBVIOUS
<1>2. \A n \in 0 .. Len(s) :
        /\ SubSeq(s, 1, n) \in Seq(S) /\ Len(SubSeq(s, 1, n)) = n
        /\ \A j \in 1 .. n : SubSeq(s, 1, n)[j] = s[j]
  BY <1>1
<1>. QED  BY <1>1, <1>2 DEF Front, Last

LEMMA IndexProps ==
  ASSUME NEW S, NEW s \in Seq(S), NEW x, Has(s, x)
  PROVE  Index(s, x) \in 1 .. Len(s) /\ s[Index(s, x)].id = x /\ Entry(s, x) = s[Index(s, x)]
BY DEF Has, Index, Entry

\* Removing an entry keeps the others, in their order.
LEMMA WithoutProps ==
  ASSUME NEW S, NEW s \in Seq(S), NEW x,
         \A i, j \in DOMAIN s : i < j => s[i].id # s[j].id
  PROVE  /\ Without(s, x) \in Seq(S)
         /\ Len(Without(s, x)) <= Len(s)
         /\ \A j \in DOMAIN Without(s, x) :
              Without(s, x)[j].id # x /\ \E i \in DOMAIN s : s[i] = Without(s, x)[j]
         /\ \A i \in DOMAIN s : s[i].id # x =>
              \E j \in DOMAIN Without(s, x) : Without(s, x)[j] = s[i]
         /\ \A j, k \in DOMAIN Without(s, x) : j < k =>
              \E a, b \in DOMAIN s : a < b /\ s[a] = Without(s, x)[j] /\ s[b] = Without(s, x)[k]
<1>1. CASE ~Has(s, x)
  <2>1. Without(s, x) = s
    BY <1>1 DEF Without
  <2>2. \A i \in DOMAIN s : s[i].id # x
    BY <1>1 DEF Has
  <2>. QED  BY <2>1, <2>2
<1>2. CASE Has(s, x)
  <2>. DEFINE p == Index(s, x)
              r == RemoveAt(s, p)
  <2>1. Without(s, x) = r
    BY <1>2 DEF Without
  <2>2. p \in 1 .. Len(s) /\ s[p].id = x
    BY <1>2, IndexProps
  <2>. HIDE DEF p
  <2>3. /\ r \in Seq(S) /\ Len(r) = Len(s) - 1
        /\ \A j \in 1 .. (Len(s) - 1) : r[j] = IF j < p THEN s[j] ELSE s[j + 1]
    BY <2>2, RemoveAtProps
  <2>. HIDE DEF r
  <2>4. \A i \in 1 .. Len(s) : i # p => s[i].id # x
    BY <2>2
  <2>5. DOMAIN r = 1 .. (Len(s) - 1) /\ DOMAIN s = 1 .. Len(s) /\ Len(s) \in Nat
    BY <2>3
  <2>. DEFINE at(j) == IF j < p THEN j ELSE j + 1
  <2>6. \A j \in 1 .. (Len(s) - 1) : at(j) \in 1 .. Len(s) /\ at(j) # p /\ r[j] = s[at(j)]
    BY <2>2, <2>3, <2>5
  <2>7. \A j, k \in 1 .. (Len(s) - 1) : j < k => at(j) < at(k)
    BY <2>2, <2>5
  <2>8. \A i \in 1 .. Len(s) : i # p => \E j \in 1 .. (Len(s) - 1) : at(j) = i
    <3>1. ASSUME NEW i \in 1 .. Len(s), i < p
          PROVE  \E j \in 1 .. (Len(s) - 1) : at(j) = i
      <4>1. i \in 1 .. (Len(s) - 1) /\ at(i) = i
        BY <2>2, <2>5, <3>1
      <4>. QED  BY <4>1
    <3>2. ASSUME NEW i \in 1 .. Len(s), i > p
          PROVE  \E j \in 1 .. (Len(s) - 1) : at(j) = i
      <4>1. i - 1 \in 1 .. (Len(s) - 1) /\ at(i - 1) = i
        BY <2>2, <2>5, <3>2
      <4>. QED  BY <4>1
    <3>. QED  BY <2>2, <2>5, <3>1, <3>2
  <2>. HIDE DEF at
  <2>9. \A j \in DOMAIN r : r[j].id # x /\ \E i \in DOMAIN s : s[i] = r[j]
    BY <2>4, <2>5, <2>6
  <2>10. \A i \in DOMAIN s : s[i].id # x => \E j \in DOMAIN r : r[j] = s[i]
    BY <2>2, <2>5, <2>6, <2>8
  <2>11. \A j, k \in DOMAIN r : j < k =>
           \E a, b \in DOMAIN s : a < b /\ s[a] = r[j] /\ s[b] = r[k]
    BY <2>5, <2>6, <2>7
  <2>. QED  BY <2>1, <2>3, <2>5, <2>9, <2>10, <2>11
<1>. QED  BY <1>1, <1>2

-----------------------------------------------------------------------------
(* Ends of sequences. *)

LEMMA EndsAreSuffixes ==
  ASSUME NEW S, NEW s \in Seq(S), NEW t \in Seq(S), EndOf(s, t)
  PROVE  IsSuffix(s, t)
<1>. DEFINE r == Reverse(s)
            q == Reverse(t)
<1>1. /\ r \in Seq(S) /\ Len(r) = Len(s)
      /\ \A i \in 1 .. Len(s) : r[i] = s[Len(s) - i + 1]
  BY DEF Reverse
<1>2. /\ q \in Seq(S) /\ Len(q) = Len(t)
      /\ \A i \in 1 .. Len(t) : q[i] = t[Len(t) - i + 1]
  BY DEF Reverse
<1>. HIDE DEF r, q
<1>3. Len(r) <= Len(q) /\ \A i \in 1 .. Len(r) : r[i] = q[i]
  <2>1. Len(r) <= Len(q)
    BY <1>1, <1>2 DEF EndOf
  <2>2. ASSUME NEW i \in 1 .. Len(s) PROVE r[i] = q[i]
    <3>1. Len(s) - i + 1 \in 1 .. Len(s)
      OBVIOUS
    <3>2. s[Len(s) - i + 1] = t[Len(t) - Len(s) + (Len(s) - i + 1)]
      BY <3>1 DEF EndOf
    <3>3. Len(t) - Len(s) + (Len(s) - i + 1) = Len(t) - i + 1
      OBVIOUS
    <3>4. r[i] = s[Len(s) - i + 1] /\ q[i] = t[Len(t) - i + 1]
      <4>1. i \in 1 .. Len(t)
        BY DEF EndOf
      <4>. QED  BY <1>1, <1>2, <4>1, Zenon
    <3>. QED  BY <3>2, <3>3, <3>4
  <2>3. Len(r) = Len(s)
    BY <1>1
  <2>. QED  BY <2>1, <2>2, <2>3, Zenon
<1>4. SubSeq(r, 1, Len(r)) = SubSeq(q, 1, Len(r))
  BY <1>1, <1>2, <1>3
<1>. QED  BY <1>3, <1>4 DEF IsSuffix, IsPrefix, r, q

LEMMA EndOfAppend ==
  ASSUME NEW S, NEW s \in Seq(S), NEW t \in Seq(S), NEW x \in S, EndOf(s, t)
  PROVE  EndOf(Append(s, x), Append(t, x))
<1>1. /\ Len(Append(s, x)) = Len(s) + 1 /\ Append(s, x)[Len(s) + 1] = x
      /\ \A i \in 1 .. Len(s) : Append(s, x)[i] = s[i]
  OBVIOUS
<1>0. /\ Len(Append(t, x)) = Len(t) + 1 /\ Append(t, x)[Len(t) + 1] = x
      /\ \A i \in 1 .. Len(t) : Append(t, x)[i] = t[i]
  OBVIOUS
<1>2. ASSUME NEW i \in 1 .. Len(s) + 1
      PROVE  Append(s, x)[i] = Append(t, x)[Len(t) - Len(s) + i]
  <2>1. CASE i = Len(s) + 1
    <3>1. Len(t) - Len(s) + i = Len(t) + 1
      BY <2>1
    <3>. QED  BY <1>0, <1>1, <2>1, <3>1
  <2>2. CASE i \in 1 .. Len(s)
    <3>1. Len(t) - Len(s) + i \in 1 .. Len(t) /\ s[i] = t[Len(t) - Len(s) + i]
      BY <2>2 DEF EndOf
    <3>. QED  BY <1>0, <1>1, <2>2, <3>1
  <2>3. i = Len(s) + 1 \/ i \in 1 .. Len(s)
    OBVIOUS
  <2>. QED  BY <2>1, <2>2, <2>3
<1>3. Len(s) <= Len(t) /\ Len(s) \in Nat /\ Len(t) \in Nat
  BY DEF EndOf
<1>4. Len(t) + 1 - (Len(s) + 1) = Len(t) - Len(s)
  BY <1>3
<1>5. \A i \in 1 .. Len(Append(s, x)) :
        Append(s, x)[i] = Append(t, x)[Len(Append(t, x)) - Len(Append(s, x)) + i]
  <2>1. Len(Append(t, x)) - Len(Append(s, x)) = Len(t) - Len(s)
    BY <1>0, <1>1, <1>4
  <2>2. 1 .. Len(Append(s, x)) = 1 .. Len(s) + 1
    BY <1>1, Zenon
  <2>. QED  BY <1>2, <2>1, <2>2, Zenon
<1>6. Len(Append(s, x)) <= Len(Append(t, x))
  BY <1>0, <1>1, <1>3
<1>. QED  BY <1>5, <1>6, Zenon DEF EndOf

LEMMA EndOfTail ==
  ASSUME NEW S, NEW s \in Seq(S), NEW t \in Seq(S), Len(s) > 0, EndOf(s, t)
  PROVE  EndOf(Tail(s), t)
<1>1. Len(Tail(s)) = Len(s) - 1 /\ \A i \in 1 .. (Len(s) - 1) : Tail(s)[i] = s[i + 1]
  OBVIOUS
<1>2. ASSUME NEW i \in 1 .. (Len(s) - 1) PROVE Tail(s)[i] = t[Len(t) - (Len(s) - 1) + i]
  <2>1. s[i + 1] = t[Len(t) - Len(s) + (i + 1)]
    BY DEF EndOf
  <2>2. Len(t) - Len(s) + (i + 1) = Len(t) - (Len(s) - 1) + i
    OBVIOUS
  <2>. QED  BY <1>1, <2>1, <2>2
<1>3. Len(s) - 1 <= Len(t)
  BY DEF EndOf
<1>. QED  BY <1>1, <1>2, <1>3 DEF EndOf

-----------------------------------------------------------------------------
(* Where push makes room. *)

Rest(keys, k) == Without(keys, k)

LEMMA QueuesAreUnique ==
  ASSUME NEW keys, Queues(keys)
  PROVE  /\ \A i, j \in DOMAIN keys : i < j => keys[i].id # keys[j].id
         /\ \A i, j \in DOMAIN keys : keys[i].id = keys[j].id => i = j
<1>1. DOMAIN keys \subseteq Int
  BY DEF Queues
<1>. QED  BY <1>1 DEF Queues, Recent

\* What is left of the queues without one of them is ordered as they were.
LEMMA RestProps ==
  ASSUME NEW keys, Queues(keys), NEW k
  PROVE  /\ Queues(Rest(keys, k))
         /\ Len(Rest(keys, k)) <= Len(keys)
         /\ \A j \in DOMAIN Rest(keys, k) :
              Rest(keys, k)[j].id # k /\ \E i \in DOMAIN keys : keys[i] = Rest(keys, k)[j]
         /\ \A i \in DOMAIN keys : keys[i].id # k =>
              \E j \in DOMAIN Rest(keys, k) : Rest(keys, k)[j] = keys[i]
<1>. DEFINE r == Without(keys, k)
<1>1. keys \in Seq(KeyEntry)
  BY DEF Queues
<1>2. /\ r \in Seq(KeyEntry) /\ Len(r) <= Len(keys)
      /\ \A j \in DOMAIN r : r[j].id # k /\ \E i \in DOMAIN keys : keys[i] = r[j]
      /\ \A i \in DOMAIN keys : keys[i].id # k => \E j \in DOMAIN r : r[j] = keys[i]
      /\ \A i, j \in DOMAIN r : i < j =>
           \E a, b \in DOMAIN keys : a < b /\ keys[a] = r[i] /\ keys[b] = r[j]
  BY <1>1, QueuesAreUnique, WithoutProps
<1>. HIDE DEF r
<1>3. \A j \in DOMAIN r : Len(r[j].msgs) > 0
  BY <1>2 DEF Queues
<1>4. \A i, j \in DOMAIN r : i < j => Recent(r[i], r[j])
  BY <1>2 DEF Queues
<1>5. Queues(r)
  BY <1>2, <1>3, <1>4 DEF Queues
<1>. QED  BY <1>2, <1>5 DEF Rest, r

LEMMA QueueProps ==
  ASSUME NEW keys, Queues(keys), NEW k \in Keys
  PROVE  /\ Queue(keys, k) \in Seq(1 .. MaxPushes)
         /\ Has(keys, k) => \E i \in DOMAIN keys : keys[i].id = k /\ keys[i] = Entry(keys, k)
                                                   /\ Queue(keys, k) = keys[i].msgs
         /\ ~Has(keys, k) => Queue(keys, k) = <<>>
<1>1. keys \in Seq(KeyEntry)
  BY DEF Queues
<1>2. CASE Has(keys, k)
  <2>1. Index(keys, k) \in DOMAIN keys /\ keys[Index(keys, k)].id = k
        /\ Entry(keys, k) = keys[Index(keys, k)]
    BY <1>1, <1>2, IndexProps
  <2>2. Queue(keys, k) = keys[Index(keys, k)].msgs
    BY <1>2, <2>1 DEF Queue
  <2>3. keys[Index(keys, k)] \in KeyEntry
    BY <1>1, <2>1
  <2>. QED  BY <1>2, <2>1, <2>2, <2>3 DEF KeyEntry
<1>3. CASE ~Has(keys, k)
  BY <1>3 DEF Queue
<1>. QED  BY <1>2, <1>3

\* An entry in front of others with other keys is the one found, and leaves them when it goes.
LEMMA FrontEntry ==
  ASSUME NEW e \in KeyEntry, NEW keys \in Seq(KeyEntry), \A j \in DOMAIN keys : keys[j].id # e.id
  PROVE  /\ Has(<<e>> \o keys, e.id)
         /\ Entry(<<e>> \o keys, e.id) = e
         /\ Queue(<<e>> \o keys, e.id) = e.msgs
         /\ Without(<<e>> \o keys, e.id) = keys
<1>. DEFINE s == <<e>> \o keys
<1>1. /\ s \in Seq(KeyEntry) /\ Len(s) = Len(keys) + 1 /\ s[1] = e
      /\ \A j \in 1 .. Len(keys) : s[j + 1] = keys[j]
      /\ \A j \in 2 .. Len(keys) + 1 : s[j] = keys[j - 1]
  BY ConsProps
<1>. HIDE DEF s
<1>2. Has(s, e.id)
  <2>1. 1 \in DOMAIN s
    BY <1>1
  <2>. QED  BY <1>1, <2>1 DEF Has
<1>3. Index(s, e.id) \in 1 .. Len(s) /\ s[Index(s, e.id)].id = e.id
      /\ Entry(s, e.id) = s[Index(s, e.id)]
  BY <1>1, <1>2, IndexProps
<1>4. Index(s, e.id) = 1
  <2>1. ASSUME NEW j \in 2 .. Len(keys) + 1 PROVE s[j].id # e.id
    <3>1. j - 1 \in DOMAIN keys
      OBVIOUS
    <3>. QED  BY <1>1, <3>1
  <2>. QED  BY <1>1, <1>3, <2>1
<1>5. Without(s, e.id) = RemoveAt(s, 1)
  BY <1>2, <1>4 DEF Without
<1>6. RemoveAt(s, 1) = keys
  <2>0. 1 \in 1 .. Len(s)
    BY <1>3, <1>4
  <2>1. /\ RemoveAt(s, 1) \in Seq(KeyEntry) /\ Len(RemoveAt(s, 1)) = Len(s) - 1
        /\ \A j \in 1 .. (Len(s) - 1) : RemoveAt(s, 1)[j] = IF j < 1 THEN s[j] ELSE s[j + 1]
    BY <1>1, <2>0, RemoveAtProps, Zenon
  <2>2. Len(RemoveAt(s, 1)) = Len(keys) /\ Len(s) - 1 = Len(keys)
    BY <1>1, <2>1
  <2>3. \A j \in 1 .. Len(keys) : RemoveAt(s, 1)[j] = keys[j]
    BY <1>1, <2>1, <2>2
  <2>. QED  BY <2>1, <2>2, <2>3, SeqEqual
<1>. QED  BY <1>1, <1>2, <1>3, <1>4, <1>5, <1>6 DEF Queue, s

LEMMA FrontOfCons ==
  ASSUME NEW S, NEW e \in S, NEW s \in Seq(S), Len(s) > 0
  PROVE  Front(<<e>> \o s) = <<e>> \o Front(s) /\ Last(<<e>> \o s) = Last(s)
<1>. DEFINE t == <<e>> \o s
<1>1. /\ t \in Seq(S) /\ Len(t) = Len(s) + 1 /\ t[1] = e
      /\ \A j \in 1 .. Len(s) : t[j + 1] = s[j]
      /\ \A j \in 2 .. Len(s) + 1 : t[j] = s[j - 1]
  BY ConsProps
<1>2. /\ Front(s) \in Seq(S) /\ Len(Front(s)) = Len(s) - 1
      /\ \A j \in 1 .. (Len(s) - 1) : Front(s)[j] = s[j]
      /\ Last(s) = s[Len(s)]
  BY FrontProps
<1>. HIDE DEF t
<1>3. /\ Front(t) \in Seq(S) /\ Len(Front(t)) = Len(t) - 1
      /\ \A j \in 1 .. (Len(t) - 1) : Front(t)[j] = t[j]
      /\ Last(t) = t[Len(t)]
  <2>1. Len(t) > 0
    BY <1>1
  <2>. QED  BY <1>1, <2>1, FrontProps
<1>. DEFINE f == Front(s)
<1>. HIDE DEF f
<1>4. f \in Seq(S) /\ Len(f) = Len(s) - 1 /\ \A j \in 1 .. (Len(s) - 1) : f[j] = s[j]
  BY <1>2 DEF f
<1>5. /\ <<e>> \o f \in Seq(S) /\ Len(<<e>> \o f) = Len(f) + 1 /\ (<<e>> \o f)[1] = e
      /\ \A j \in 2 .. Len(f) + 1 : (<<e>> \o f)[j] = f[j - 1]
  BY <1>4, ConsProps
<1>. DEFINE g == <<e>> \o f
<1>. HIDE DEF g
<1>6. g \in Seq(S) /\ Len(g) = Len(s) /\ g[1] = e /\ \A j \in 2 .. Len(s) : g[j] = f[j - 1]
  BY <1>4, <1>5 DEF g
<1>7. \A j \in 1 .. Len(s) : g[j] = Front(t)[j]
  <2>1. ASSUME NEW j \in 1 .. Len(s) PROVE g[j] = Front(t)[j]
    <3>1. Front(t)[j] = t[j]
      BY <1>1, <1>3
    <3>2. CASE j = 1
      BY <1>1, <1>6, <3>1, <3>2
    <3>3. CASE j \in 2 .. Len(s)
      <4>1. j - 1 \in 1 .. (Len(s) - 1) /\ j \in 2 .. Len(s) + 1
        BY <3>3
      <4>2. t[j] = s[j - 1] /\ g[j] = f[j - 1] /\ f[j - 1] = s[j - 1]
        BY <1>1, <1>4, <1>6, <3>3, <4>1
      <4>. QED  BY <3>1, <4>2
    <3>. QED  BY <3>2, <3>3
  <2>. QED  BY <2>1
<1>8. Front(t) = g
  BY <1>1, <1>3, <1>6, <1>7, SeqEqual
<1>9. Last(t) = Last(s)
  BY <1>1, <1>2, <1>3
<1>. QED  BY <1>8, <1>9 DEF t, g, f

LEMMA EvictsNothing ==
  ASSUME NEW c, NEW k, c.total < MessagesCapacity
  PROVE  Eviction(c, k).keys = c.cache /\ Eviction(c, k).out = <<>>
BY DEF Eviction

\* A full cache with other keys than the pushed one loses the queue of the last of them.
LEMMA EvictsOther ==
  ASSUME NEW c \in UserEntry, Queues(c.cache), NEW k \in Keys,
         ~(c.total < MessagesCapacity), Len(Rest(c.cache, k)) > 0
  PROVE  /\ Eviction(c, k).out = Last(Rest(c.cache, k)).msgs
         /\ Queue(Eviction(c, k).keys, k) = Queue(c.cache, k)
         /\ Without(Eviction(c, k).keys, k) = Front(Rest(c.cache, k))
<1>. DEFINE keys == c.cache
            r == Rest(keys, k)
            bumped == Promote(keys, k)
<1>1. keys \in Seq(KeyEntry) /\ r \in Seq(KeyEntry) /\ Len(r) > 0
      /\ \A j \in DOMAIN r : r[j].id # k
  BY RestProps DEF Queues
<1>2. /\ Front(r) \in Seq(KeyEntry) /\ Len(Front(r)) = Len(r) - 1
      /\ \A j \in 1 .. (Len(r) - 1) : Front(r)[j] = r[j]
      /\ Last(r) = r[Len(r)]
  <2>. HIDE DEF r
  <2>. QED  BY <1>1, FrontProps
<1>3. Last(r).id # k
  <2>. HIDE DEF r
  <2>1. Len(r) \in DOMAIN r
    BY <1>1
  <2>. QED  BY <1>1, <1>2, <2>1
<1>4. \A j \in DOMAIN Front(r) : Front(r)[j].id # k
  <2>. HIDE DEF r
  <2>. QED  BY <1>1, <1>2
<1>5. Last(bumped) = Last(r) /\ Queue(Front(bumped), k) = Queue(keys, k)
      /\ Without(Front(bumped), k) = Front(r)
  <2>1. CASE Has(keys, k)
    <3>. DEFINE e == Entry(keys, k)
    <3>1. e \in KeyEntry /\ e.id = k /\ Queue(keys, k) = e.msgs
      BY <1>1, <2>1, QueueProps
    <3>2. bumped = <<e>> \o r
      BY <2>1 DEF Promote, Rest
    <3>. HIDE DEF e, r, bumped
    <3>3. Front(bumped) = <<e>> \o Front(r) /\ Last(bumped) = Last(r)
      BY <1>1, <3>1, <3>2, FrontOfCons
    <3>4. Queue(<<e>> \o Front(r), k) = e.msgs /\ Without(<<e>> \o Front(r), k) = Front(r)
      BY <1>2, <1>4, <3>1, FrontEntry
    <3>. QED  BY <3>1, <3>3, <3>4
  <2>2. CASE ~Has(keys, k)
    <3>1. bumped = keys /\ r = keys
      BY <2>2 DEF Promote, Rest, Without
    <3>. HIDE DEF r, bumped
    <3>2. ~Has(Front(r), k)
      BY <1>4 DEF Has
    <3>. QED  BY <2>2, <3>1, <3>2 DEF Queue, Without
  <2>. QED  BY <2>1, <2>2
<1>. HIDE DEF keys, r, bumped
<1>6. Eviction(c, k) = [keys |-> Front(bumped), out |-> Last(bumped).msgs]
  BY <1>3, <1>5 DEF Eviction, bumped, keys
<1>. QED  BY <1>5, <1>6 DEF keys, r

\* A full cache of one key, the pushed one, loses the oldest payload of its queue.
LEMMA EvictsOldest ==
  ASSUME NEW c \in UserEntry, Queues(c.cache), NEW k \in Keys,
         ~(c.total < MessagesCapacity), Len(Rest(c.cache, k)) = 0, Len(c.cache) > 0
  PROVE  /\ Len(c.cache) = 1 /\ c.cache[1].id = k /\ Has(c.cache, k)
         /\ Queue(c.cache, k) = c.cache[1].msgs
         /\ Eviction(c, k).out = <<Head(c.cache[1].msgs)>>
         /\ Queue(Eviction(c, k).keys, k) = Tail(c.cache[1].msgs)
         /\ Without(Eviction(c, k).keys, k) = <<>>
<1>. DEFINE keys == c.cache
            r == Rest(keys, k)
            e == Entry(keys, k)
<1>1. keys \in Seq(KeyEntry) /\ r \in Seq(KeyEntry) /\ Len(r) = 0 /\ Len(keys) > 0
  BY RestProps DEF Queues
<1>2. Has(keys, k)
  BY <1>1 DEF Rest, Without
<1>3. Len(keys) = 1
  <2>1. Index(keys, k) \in 1 .. Len(keys)
    BY <1>1, <1>2, IndexProps
  <2>2. Len(RemoveAt(keys, Index(keys, k))) = Len(keys) - 1
    BY <1>1, <2>1, RemoveAtProps
  <2>3. r = RemoveAt(keys, Index(keys, k))
    BY <1>2 DEF Rest, Without
  <2>. HIDE DEF r, keys
  <2>. QED  BY <1>1, <2>2, <2>3
<1>4. e = keys[1] /\ e.id = k /\ e \in KeyEntry
  <2>1. Index(keys, k) \in 1 .. Len(keys) /\ keys[Index(keys, k)].id = k
        /\ e = keys[Index(keys, k)]
    BY <1>1, <1>2, IndexProps
  <2>. HIDE DEF e, keys
  <2>2. Index(keys, k) = 1
    BY <1>3, <2>1
  <2>3. keys[1] \in KeyEntry
    BY <1>1
  <2>. QED  BY <2>1, <2>2, <2>3, Zenon
<1>5. r = <<>>
  <2>. HIDE DEF r
  <2>. QED  BY <1>1
<1>6. Promote(keys, k) = <<e>> \o <<>>
  BY <1>2, <1>5 DEF Promote, Rest
<1>7. Promote(keys, k) = <<e>>
  <2>. HIDE DEF e
  <2>. QED  BY <1>4, <1>6
<1>8. Last(Promote(keys, k)) = e
  <2>. HIDE DEF e
  <2>. QED  BY <1>7 DEF Last
<1>. DEFINE f == [e EXCEPT !.msgs = Tail(@)]
<1>9. f \in KeyEntry /\ f.id = k /\ f.msgs = Tail(e.msgs)
  <2>1. e.msgs \in Seq(1 .. MaxPushes) /\ Len(e.msgs) > 0
    <3>1. 1 \in DOMAIN keys
      BY <1>1, <1>3
    <3>. QED  BY <1>4, <3>1 DEF KeyEntry, Queues
  <2>. DEFINE q == e.msgs
  <2>2. Tail(q) \in Seq(1 .. MaxPushes)
    <3>1. q \in Seq(1 .. MaxPushes) /\ Len(q) > 0
      BY <2>1
    <3>. HIDE DEF q
    <3>. QED  BY <3>1
  <2>. HIDE DEF e
  <2>. QED  BY <1>4, <2>2 DEF KeyEntry
<1>10. Eviction(c, k) = [keys |-> <<f>>, out |-> <<Head(e.msgs)>>]
  BY <1>4, <1>8 DEF Eviction
<1>. HIDE DEF f, e, keys, r
<1>11. <<f>> = <<f>> \o <<>>
  BY <1>9
<1>12. Queue(<<f>>, k) = f.msgs /\ Without(<<f>>, k) = <<>>
  <2>1. <<>> \in Seq(KeyEntry) /\ \A j \in DOMAIN <<>> : <<>>[j].id # f.id
    OBVIOUS
  <2>2. Queue(<<f>> \o <<>>, f.id) = f.msgs /\ Without(<<f>> \o <<>>, f.id) = <<>>
    BY <1>9, <2>1, FrontEntry
  <2>. QED  BY <1>9, <1>11, <2>2
<1>13. Queue(keys, k) = e.msgs
  BY <1>2 DEF Queue, e
<1>. QED  BY <1>2, <1>3, <1>4, <1>9, <1>10, <1>12, <1>13 DEF keys

-----------------------------------------------------------------------------
(* The payloads of a user. *)

LEMMA PayloadsOf ==
  ASSUME NEW keys, NEW x
  PROVE  x \in Payloads(keys) <=>
           \E a \in DOMAIN keys : \E i \in DOMAIN keys[a].msgs : x = keys[a].msgs[i]
BY DEF Payloads, ToSet

LEMMA PayloadsCons ==
  ASSUME NEW keys \in Seq(KeyEntry), NEW e \in KeyEntry
  PROVE  Payloads(<<e>> \o keys) = ToSet(e.msgs) \cup Payloads(keys)
<1>. DEFINE s == <<e>> \o keys
<1>1. /\ s \in Seq(KeyEntry) /\ Len(s) = Len(keys) + 1 /\ s[1] = e
      /\ \A j \in 1 .. Len(keys) : s[j + 1] = keys[j]
      /\ \A j \in 2 .. Len(keys) + 1 : s[j] = keys[j - 1]
  BY ConsProps
<1>. HIDE DEF s
<1>2. ASSUME NEW a \in DOMAIN s PROVE ToSet(s[a].msgs) \subseteq ToSet(e.msgs) \cup Payloads(keys)
  <2>1. CASE a = 1
    BY <1>1, <2>1
  <2>2. CASE a \in 2 .. Len(keys) + 1
    <3>1. s[a] = keys[a - 1] /\ a - 1 \in DOMAIN keys
      BY <1>1, <2>2
    <3>. QED  BY <3>1 DEF Payloads
  <2>3. a = 1 \/ a \in 2 .. Len(keys) + 1
    BY <1>1
  <2>. QED  BY <2>1, <2>2, <2>3
<1>3. ASSUME NEW a \in DOMAIN keys PROVE ToSet(keys[a].msgs) \subseteq Payloads(s)
  <2>1. a + 1 \in DOMAIN s /\ s[a + 1] = keys[a]
    BY <1>1
  <2>. QED  BY <2>1 DEF Payloads
<1>4. ToSet(e.msgs) \subseteq Payloads(s)
  <2>1. 1 \in DOMAIN s
    BY <1>1
  <2>. QED  BY <1>1, <2>1 DEF Payloads
<1>5. Payloads(s) \subseteq ToSet(e.msgs) \cup Payloads(keys)
  BY <1>2 DEF Payloads
<1>6. Payloads(keys) \subseteq Payloads(s)
  BY <1>3 DEF Payloads
<1>. QED  BY <1>4, <1>5, <1>6 DEF s

LEMMA PayloadsFront ==
  ASSUME NEW keys \in Seq(KeyEntry), Len(keys) > 0
  PROVE  Payloads(keys) = Payloads(Front(keys)) \cup ToSet(Last(keys).msgs)
<1>. DEFINE f == Front(keys)
<1>1. /\ f \in Seq(KeyEntry) /\ Len(f) = Len(keys) - 1
      /\ \A j \in 1 .. (Len(keys) - 1) : f[j] = keys[j]
      /\ Last(keys) = keys[Len(keys)]
  BY FrontProps
<1>. HIDE DEF f
<1>2. ASSUME NEW a \in DOMAIN keys
      PROVE  ToSet(keys[a].msgs) \subseteq Payloads(f) \cup ToSet(Last(keys).msgs)
  <2>1. CASE a = Len(keys)
    BY <1>1, <2>1
  <2>2. CASE a # Len(keys)
    <3>1. a \in DOMAIN f /\ f[a] = keys[a]
      BY <1>1, <2>2
    <3>. QED  BY <3>1 DEF Payloads
  <2>. QED  BY <2>1, <2>2
<1>3. ASSUME NEW a \in DOMAIN f PROVE ToSet(f[a].msgs) \subseteq Payloads(keys)
  <2>1. a \in DOMAIN keys /\ f[a] = keys[a]
    BY <1>1
  <2>. QED  BY <2>1 DEF Payloads
<1>4. ToSet(Last(keys).msgs) \subseteq Payloads(keys)
  <2>1. Len(keys) \in DOMAIN keys
    OBVIOUS
  <2>. QED  BY <1>1, <2>1 DEF Payloads
<1>5. Payloads(keys) \subseteq Payloads(f) \cup ToSet(Last(keys).msgs)
  BY <1>2 DEF Payloads
<1>6. Payloads(f) \subseteq Payloads(keys)
  BY <1>3 DEF Payloads
<1>. QED  BY <1>4, <1>5, <1>6 DEF f

LEMMA PayloadsRest ==
  ASSUME NEW keys, Queues(keys), NEW k \in Keys
  PROVE  Payloads(keys) = ToSet(Queue(keys, k)) \cup Payloads(Rest(keys, k))
<1>. DEFINE r == Rest(keys, k)
            q == Queue(keys, k)
<1>1. /\ \A j \in DOMAIN r : r[j].id # k /\ \E i \in DOMAIN keys : keys[i] = r[j]
      /\ \A i \in DOMAIN keys : keys[i].id # k => \E j \in DOMAIN r : r[j] = keys[i]
  BY RestProps
<1>2. /\ Has(keys, k) => \E i \in DOMAIN keys : keys[i].id = k /\ q = keys[i].msgs
      /\ ~Has(keys, k) => q = <<>>
  BY QueueProps
<1>3. \A i, j \in DOMAIN keys : keys[i].id = keys[j].id => i = j
  BY QueuesAreUnique
<1>. HIDE DEF r, q
<1>4. \A i \in DOMAIN keys : keys[i].id = k => q = keys[i].msgs
  BY <1>2, <1>3 DEF Has
<1>5. Payloads(keys) \subseteq ToSet(q) \cup Payloads(r)
  BY <1>1, <1>4 DEF Payloads
<1>6. Payloads(r) \subseteq Payloads(keys)
  BY <1>1 DEF Payloads
<1>7. ToSet(q) \subseteq Payloads(keys)
  <2>1. CASE Has(keys, k)
    BY <1>2, <2>1 DEF Payloads
  <2>2. CASE ~Has(keys, k)
    BY <1>2, <2>2 DEF ToSet
  <2>. QED  BY <2>1, <2>2
<1>. QED  BY <1>5, <1>6, <1>7 DEF r, q

\* where the payload at i of a queue is among those pushed for its key
Place(u, e, i) == Len(pushed[<<u, e.id>>]) - Len(e.msgs) + i

\* A cached payload is one that was pushed for its key, so it has one place in the cache.
LEMMA WhereFrom ==
  ASSUME TypeOK, NEW u \in Users, NEW keys, Queues(keys), Ends(u, keys),
         NEW a \in DOMAIN keys, NEW i \in DOMAIN keys[a].msgs
  PROVE  /\ keys[a].msgs \in Seq(1 .. MaxPushes) /\ keys[a].id \in Keys
         /\ pushed[<<u, keys[a].id>>] \in Seq(1 .. MaxPushes)
         /\ Place(u, keys[a], i) \in DOMAIN pushed[<<u, keys[a].id>>]
         /\ keys[a].msgs[i] = pushed[<<u, keys[a].id>>][Place(u, keys[a], i)]
<1>. DEFINE s == keys[a].msgs
            t == pushed[<<u, keys[a].id>>]
<1>1. keys[a] \in KeyEntry
  BY DEF Queues
<1>2. s \in Seq(1 .. MaxPushes) /\ keys[a].id \in Keys
  BY <1>1 DEF KeyEntry
<1>3. t \in Seq(1 .. MaxPushes)
  BY <1>2 DEF TypeOK
<1>4. EndOf(s, t)
  BY DEF Ends, EndsIn
<1>. HIDE DEF s, t
<1>5. i \in 1 .. Len(s)
  BY <1>2 DEF s
<1>6. Len(t) - Len(s) + i \in DOMAIN t /\ s[i] = t[Len(t) - Len(s) + i]
  BY <1>2, <1>3, <1>4, <1>5 DEF EndOf
<1>. QED  BY <1>2, <1>3, <1>6 DEF s, t, Place

LEMMA PayloadsAreOld ==
  ASSUME TypeOK, Numbered, NEW u \in Users, NEW keys, Queues(keys), Ends(u, keys)
  PROVE  \A x \in Payloads(keys) : x \in 1 .. pushes
<1>1. ASSUME NEW a \in DOMAIN keys, NEW i \in DOMAIN keys[a].msgs
      PROVE  keys[a].msgs[i] \in 1 .. pushes
  <2>. DEFINE t == pushed[<<u, keys[a].id>>]
  <2>1. t \in Seq(1 .. MaxPushes) /\ keys[a].id \in Keys
    BY WhereFrom
  <2>. DEFINE j == Place(u, keys[a], i)
  <2>2. j \in DOMAIN t /\ keys[a].msgs[i] = t[j]
    BY WhereFrom
  <2>3. t[j] <= pushes
    BY <2>1, <2>2 DEF Numbered
  <2>4. t[j] \in 1 .. MaxPushes
    BY <2>1, <2>2, Elements
  <2>. HIDE DEF t
  <2>. QED  BY <2>2, <2>3, <2>4 DEF TypeOK
<1>. QED  BY <1>1, PayloadsOf

LEMMA PayloadsAreDistinct ==
  ASSUME TypeOK, Numbered, NEW u \in Users, NEW keys, Queues(keys), Ends(u, keys),
         NEW a \in DOMAIN keys, NEW i \in DOMAIN keys[a].msgs,
         NEW b \in DOMAIN keys, NEW j \in DOMAIN keys[b].msgs,
         keys[a].msgs[i] = keys[b].msgs[j]
  PROVE  a = b /\ i = j
<1>. DEFINE s == keys[a].msgs
            t == pushed[<<u, keys[a].id>>]
            v == keys[b].msgs
            w == pushed[<<u, keys[b].id>>]
<1>1. s \in Seq(1 .. MaxPushes) /\ t \in Seq(1 .. MaxPushes) /\ keys[a].id \in Keys
  BY WhereFrom
<1>. DEFINE m == Place(u, keys[a], i)
            n == Place(u, keys[b], j)
<1>2. m \in DOMAIN t /\ s[i] = t[m]
  BY WhereFrom
<1>3. v \in Seq(1 .. MaxPushes) /\ w \in Seq(1 .. MaxPushes) /\ keys[b].id \in Keys
  BY WhereFrom
<1>4. n \in DOMAIN w /\ v[j] = w[n]
  BY WhereFrom
<1>5. keys[a].id = keys[b].id
  <2>1. <<u, keys[a].id>> \in Users \X Keys /\ <<u, keys[b].id>> \in Users \X Keys
    BY <1>1, <1>3
  <2>2. t[m] = w[n]
    BY <1>2, <1>4
  <2>3. <<u, keys[a].id>> = <<u, keys[b].id>>
    BY <1>2, <1>4, <2>1, <2>2 DEF Numbered
  <2>. QED  BY <2>3
<1>6. a = b
  BY <1>5, QueuesAreUnique
<1>7. i = j
  <2>1. \A x, y \in DOMAIN t : x < y => t[x] < t[y]
    <3>1. <<u, keys[a].id>> \in Users \X Keys
      BY <1>1
    <3>. QED  BY <3>1 DEF Numbered
  <2>2. s = v /\ t = w
    BY <1>6
  <2>3. m \in DOMAIN t /\ n \in DOMAIN t /\ t[m] = t[n]
    BY <1>2, <1>4, <2>2, Zenon
  <2>4. t[m] \in 1 .. MaxPushes /\ t[n] \in 1 .. MaxPushes
    BY <1>1, <2>3, Elements
  <2>. DEFINE d == Len(t) - Len(s)
  <2>6. m = d + i /\ n = d + j
    BY <2>2, Zenon DEF Place
  <2>7. d \in Int /\ i \in Int /\ j \in Int /\ m \in Int /\ n \in Int
    BY <1>1, <1>3, <2>2, <2>3
  <2>. HIDE DEF t, s, d, m, n
  <2>5. ~(m < n) /\ ~(n < m)
    BY <2>1, <2>3, <2>4
  <2>. QED  BY <2>5, <2>6, <2>7
<1>. QED  BY <1>6, <1>7

LEMMA QueuesAreDisjoint ==
  ASSUME TypeOK, Numbered, NEW u \in Users, NEW keys, Queues(keys), Ends(u, keys)
  PROVE  /\ \A a, b \in DOMAIN keys :
              a # b => ToSet(keys[a].msgs) \cap ToSet(keys[b].msgs) = {}
         /\ \A a \in DOMAIN keys : \A i, j \in DOMAIN keys[a].msgs :
              keys[a].msgs[i] = keys[a].msgs[j] => i = j
BY PayloadsAreDistinct DEF ToSet

LEMMA EmptyEnd ==
  ASSUME NEW S, NEW t \in Seq(S)
  PROVE  EndOf(<<>>, t)
BY DEF EndOf

\* The queue of a key is an end of what was pushed for it, be it empty.
LEMMA QueueIsEnd ==
  ASSUME TypeOK, NEW u \in Users, NEW keys, Queues(keys), Ends(u, keys), NEW k \in Keys
  PROVE  EndOf(Queue(keys, k), pushed[<<u, k>>])
<1>1. CASE Has(keys, k)
  BY <1>1, QueueProps DEF Ends, EndsIn
<1>2. CASE ~Has(keys, k)
  <2>1. pushed[<<u, k>>] \in Seq(1 .. MaxPushes)
    BY DEF TypeOK
  <2>. QED  BY <1>2, <2>1, QueueProps, EmptyEnd
<1>. QED  BY <1>1, <1>2

LEMMA RestEnds ==
  ASSUME NEW u, NEW keys, Queues(keys), Ends(u, keys), NEW k
  PROVE  Ends(u, Rest(keys, k))
BY RestProps DEF Ends, EndsIn

LEMMA FrontQueues ==
  ASSUME NEW keys, Queues(keys), Len(keys) > 0
  PROVE  /\ Queues(Front(keys))
         /\ \A j \in DOMAIN Front(keys) : j \in DOMAIN keys /\ Front(keys)[j] = keys[j]
         /\ \A j \in DOMAIN Front(keys) : j # Len(keys)
<1>. DEFINE f == Front(keys)
<1>1. keys \in Seq(KeyEntry)
  BY DEF Queues
<1>2. /\ f \in Seq(KeyEntry) /\ Len(f) = Len(keys) - 1
      /\ \A j \in 1 .. (Len(keys) - 1) : f[j] = keys[j]
  BY <1>1, FrontProps
<1>. HIDE DEF f
<1>3. \A j \in DOMAIN f : j \in DOMAIN keys /\ f[j] = keys[j] /\ j # Len(keys)
  BY <1>1, <1>2
<1>4. Queues(f)
  BY <1>2, <1>3 DEF Queues
<1>. QED  BY <1>3, <1>4 DEF f

-----------------------------------------------------------------------------
(* What an eviction leaves. *)

\* what push starts from: the queue of its key and the others, once there is room
Left(c, k) == Queue(Eviction(c, k).keys, k)
Others(c, k) == Without(Eviction(c, k).keys, k)
Out(c, k) == Eviction(c, k).out

LEMMA EvictionLeaves ==
  ASSUME TypeOK, Numbered, NEW c, Kept(c), c.id \in Users, NEW k \in Keys
  PROVE  /\ Left(c, k) \in Seq(1 .. MaxPushes) /\ EndOf(Left(c, k), pushed[<<c.id, k>>])
         /\ Queues(Others(c, k)) /\ Ends(c.id, Others(c, k))
         /\ \A j \in DOMAIN Others(c, k) : Others(c, k)[j].id # k
         /\ Out(c, k) \in Seq(1 .. MaxPushes) /\ ToSet(Out(c, k)) \subseteq Payloads(c.cache)
         /\ \A i, j \in DOMAIN Out(c, k) : Out(c, k)[i] = Out(c, k)[j] => i = j
         /\ ToSet(Left(c, k)) \cup Payloads(Others(c, k)) = Payloads(c.cache) \ ToSet(Out(c, k))
         /\ c.total < MessagesCapacity \/ Len(Out(c, k)) > 0
<1>. DEFINE u == c.id
            K == c.cache
            r == Rest(K, k)
            q == Queue(K, k)
<1>1. c \in UserEntry /\ Queues(K) /\ Ends(u, K) /\ K \in Seq(KeyEntry) /\ u \in Users
  BY DEF Kept, KeptIn, Ends, UserEntry
<1>2. /\ Queues(r) /\ Ends(u, r)
      /\ \A j \in DOMAIN r : r[j].id # k /\ \E i \in DOMAIN K : K[i] = r[j]
  BY <1>1, RestProps, RestEnds
<1>3. /\ q \in Seq(1 .. MaxPushes) /\ EndOf(q, pushed[<<u, k>>])
      /\ Payloads(K) = ToSet(q) \cup Payloads(r)
  BY <1>1, QueueProps, QueueIsEnd, PayloadsRest
<1>4. CASE c.total < MessagesCapacity
  <2>1. Left(c, k) = q /\ Others(c, k) = r /\ Out(c, k) = <<>>
    BY <1>4, EvictsNothing DEF Left, Others, Out, Rest
  <2>2. ToSet(<<>>) = {}
    BY DEF ToSet
  <2>. HIDE DEF q, r, u, K
  <2>3. /\ q \in Seq(1 .. MaxPushes) /\ EndOf(q, pushed[<<u, k>>]) /\ Queues(r) /\ Ends(u, r)
        /\ \A j \in DOMAIN r : r[j].id # k
        /\ ToSet(q) \cup Payloads(r) = Payloads(K) \ {}
    BY <1>2, <1>3
  <2>. QED  BY <1>4, <2>1, <2>2, <2>3 DEF u, K
<1>5. CASE ~(c.total < MessagesCapacity) /\ Len(r) > 0
  <2>. DEFINE f == Front(r)
              o == Last(r).msgs
  <2>1. Left(c, k) = q /\ Others(c, k) = f /\ Out(c, k) = o
    BY <1>1, <1>5, EvictsOther DEF Left, Others, Out
  <2>2. /\ Queues(f)
        /\ \A j \in DOMAIN f : j \in DOMAIN r /\ f[j] = r[j] /\ j # Len(r)
    BY <1>2, <1>5, FrontQueues
  <2>3. Ends(u, f) /\ \A j \in DOMAIN f : f[j].id # k
    BY <1>2, <2>2 DEF Ends, EndsIn
  <2>4. r \in Seq(KeyEntry) /\ Last(r) = r[Len(r)] /\ Len(r) \in DOMAIN r
    <3>1. r \in Seq(KeyEntry)
      BY <1>2 DEF Queues
    <3>. HIDE DEF r
    <3>. QED  BY <1>5, <3>1 DEF Last
  <2>5. o = r[Len(r)].msgs /\ r[Len(r)] \in KeyEntry
    BY <2>4, Elements
  <2>6. o \in Seq(1 .. MaxPushes) /\ Len(o) > 0
    <3>1. \A a \in DOMAIN r : Len(r[a].msgs) > 0
      BY <1>2 DEF Queues
    <3>. HIDE DEF r, o
    <3>. QED  BY <2>4, <2>5, <3>1 DEF KeyEntry
  <2>7. Payloads(r) = Payloads(f) \cup ToSet(o)
    BY <1>5, <2>4, PayloadsFront
  <2>8. Payloads(f) \cap ToSet(o) = {}
    <3>0. \A a, b \in DOMAIN r : a # b => ToSet(r[a].msgs) \cap ToSet(r[b].msgs) = {}
      BY <1>1, <1>2, QueuesAreDisjoint
    <3>1. \A a \in DOMAIN f : ToSet(f[a].msgs) \cap ToSet(o) = {}
      <4>. HIDE DEF f, o, r
      <4>. QED  BY <2>2, <2>4, <2>5, <3>0
    <3>. HIDE DEF f, o
    <3>. QED  BY <3>1 DEF Payloads
  <2>9. ToSet(q) \cap ToSet(o) = {}
    <3>1. CASE Has(K, k)
      <4>1. PICK a \in DOMAIN K : K[a].id = k /\ q = K[a].msgs
        BY <1>1, <3>1, QueueProps
      <4>2. PICK b \in DOMAIN K : K[b] = r[Len(r)]
        BY <1>2, <2>4
      <4>3. a # b
        BY <1>2, <2>4, <4>1, <4>2
      <4>4. ToSet(K[a].msgs) \cap ToSet(K[b].msgs) = {}
        BY <1>1, <4>3, QueuesAreDisjoint
      <4>. HIDE DEF q, K, r, o
      <4>. QED  BY <2>5, <4>1, <4>2, <4>4
    <3>2. CASE ~Has(K, k)
      BY <1>1, <3>2, QueueProps DEF ToSet
    <3>. QED  BY <3>1, <3>2
  <2>10. \A i, j \in DOMAIN o : o[i] = o[j] => i = j
    <3>1. \A a \in DOMAIN r : \A i, j \in DOMAIN r[a].msgs : r[a].msgs[i] = r[a].msgs[j] => i = j
      BY <1>1, <1>2, QueuesAreDisjoint
    <3>. HIDE DEF r, o
    <3>. QED  BY <2>4, <2>5, <3>1
  <2>. HIDE DEF q, r, u, K, f, o
  <2>11. ToSet(q) \cup Payloads(f) = Payloads(K) \ ToSet(o) /\ ToSet(o) \subseteq Payloads(K)
    BY <1>3, <2>7, <2>8, <2>9
  <2>. QED  BY <1>3, <2>1, <2>2, <2>3, <2>6, <2>10, <2>11 DEF u, K
<1>6. CASE ~(c.total < MessagesCapacity) /\ Len(r) = 0
  <2>1. Len(K) > 0
    <3>1. Cardinality(Payloads(K)) > 0
      BY <1>1, <1>6, CapacityAssumption DEF Kept, KeptIn, Full, UserEntry
    <3>2. Payloads(K) # {}
      BY <3>1, FS_EmptySet
    <3>. HIDE DEF K
    <3>3. K # <<>>
      BY <3>2 DEF Payloads
    <3>. QED  BY <1>1, <3>3
  <2>. DEFINE s == K[1].msgs
              o == <<Head(s)>>
  <2>2. /\ Len(K) = 1 /\ K[1].id = k /\ Has(K, k) /\ q = s
        /\ Left(c, k) = Tail(s) /\ Others(c, k) = <<>> /\ Out(c, k) = o
    BY <1>1, <1>6, <2>1, EvictsOldest DEF Left, Others, Out
  <2>3. s \in Seq(1 .. MaxPushes) /\ Len(s) > 0 /\ EndOf(s, pushed[<<u, k>>])
        /\ \A i, j \in DOMAIN s : s[i] = s[j] => i = j
    <3>1. 1 \in DOMAIN K
      BY <1>1, <2>1
    <3>. QED  BY <1>1, <1>3, <2>2, <3>1, QueuesAreDisjoint DEF Queues
  <2>4. pushed[<<u, k>>] \in Seq(1 .. MaxPushes)
    BY <1>1 DEF TypeOK
  <2>. DEFINE t == Tail(s)
  <2>5. EndOf(t, pushed[<<u, k>>])
    <3>. HIDE DEF s
    <3>. QED  BY <2>3, <2>4, EndOfTail
  <2>6. Payloads(r) = {}
    <3>1. r = <<>>
      <4>1. r \in Seq(KeyEntry)
        BY <1>2 DEF Queues
      <4>. HIDE DEF r
      <4>. QED  BY <1>6, <4>1
    <3>. HIDE DEF r
    <3>. QED  BY <3>1 DEF Payloads
  <2>7. Queues(<<>>) /\ Ends(u, <<>>) /\ Payloads(<<>>) = {}
    BY DEF Queues, Ends, EndsIn, Payloads
  <2>8. /\ t \in Seq(1 .. MaxPushes) /\ Len(t) = Len(s) - 1
        /\ \A i \in 1 .. (Len(s) - 1) : t[i] = s[i + 1]
        /\ Head(s) = s[1] /\ 1 \in DOMAIN s
    <3>. HIDE DEF s
    <3>. QED  BY <2>3
  <2>9. ToSet(t) = ToSet(s) \ {s[1]} /\ s[1] \in ToSet(s)
    <3>. HIDE DEF s, t
    <3>1. \A i \in DOMAIN t : i + 1 \in DOMAIN s /\ i + 1 # 1 /\ t[i] = s[i + 1]
      BY <2>3, <2>8
    <3>2. ToSet(t) \subseteq ToSet(s) \ {s[1]}
      BY <2>3, <2>8, <3>1 DEF ToSet
    <3>3. ASSUME NEW i \in DOMAIN s, s[i] # s[1] PROVE s[i] \in ToSet(t)
      <4>1. i - 1 \in DOMAIN t /\ t[i - 1] = s[i]
        BY <2>3, <2>8, <3>3
      <4>. QED  BY <4>1 DEF ToSet
    <3>4. ToSet(s) \ {s[1]} \subseteq ToSet(t)
      <4>. HIDE DEF t
      <4>. QED  BY <3>3 DEF ToSet
    <3>5. s[1] \in ToSet(s)
      BY <2>8 DEF ToSet
    <3>. QED  BY <3>2, <3>4, <3>5
  <2>10. o \in Seq(1 .. MaxPushes) /\ Len(o) = 1 /\ ToSet(o) = {s[1]}
         /\ \A i, j \in DOMAIN o : o[i] = o[j] => i = j
    <3>1. s[1] \in 1 .. MaxPushes
      BY <2>3, <2>8, Elements
    <3>. HIDE DEF s
    <3>. QED  BY <2>8, <3>1 DEF ToSet
  <2>. HIDE DEF q, r, u, K, s, o, t
  <2>11. ToSet(t) \cup {} = Payloads(K) \ ToSet(o) /\ ToSet(o) \subseteq Payloads(K)
    BY <1>3, <2>2, <2>6, <2>9, <2>10
  <2>12. Left(c, k) = t /\ Others(c, k) = <<>> /\ Out(c, k) = o
    BY <2>2 DEF t
  <2>13. \A j \in DOMAIN <<>> : <<>>[j].id # k
    OBVIOUS
  <2>14. Len(o) > 0
    BY <2>10
  <2>15. ToSet(t) \cup Payloads(<<>>) = Payloads(K) \ ToSet(o)
    BY <2>7, <2>11
  <2>. QED  BY <2>5, <2>7, <2>8, <2>10, <2>11, <2>12, <2>13, <2>14, <2>15, Zenon DEF u, K
<1>7. Len(r) > 0 \/ Len(r) = 0
  <2>1. r \in Seq(KeyEntry)
    BY <1>2 DEF Queues
  <2>. HIDE DEF r
  <2>. QED  BY <2>1
<1>. QED  BY <1>4, <1>5, <1>6, <1>7

-----------------------------------------------------------------------------
(* Arithmetic of the total. *)

LEMMA LengthOfDistinct ==
  ASSUME NEW S, NEW s \in Seq(S), \A i, j \in DOMAIN s : s[i] = s[j] => i = j
  PROVE  IsFiniteSet(ToSet(s)) /\ Cardinality(ToSet(s)) = Len(s)
<1>1. Len(s) \in Nat /\ DOMAIN s = 1 .. Len(s) /\ s = [i \in 1 .. Len(s) |-> s[i]]
  OBVIOUS
<1>2. s \in Bijection(1 .. Len(s), ToSet(s))
  <2>1. \A i \in 1 .. Len(s) : s[i] \in ToSet(s)
    BY <1>1 DEF ToSet
  <2>2. s \in [1 .. Len(s) -> ToSet(s)]
    BY <1>1, <2>1
  <2>3. \A x \in ToSet(s) : \E i \in 1 .. Len(s) : s[i] = x
    BY <1>1 DEF ToSet
  <2>4. s \in Injection(1 .. Len(s), ToSet(s))
    BY <1>1, <2>2, Zenon DEF Injection, IsInjective
  <2>5. s \in Surjection(1 .. Len(s), ToSet(s))
    BY <2>2, <2>3, Zenon DEF Surjection
  <2>. QED  BY <2>4, <2>5 DEF Bijection
<1>3. ExistsBijection(1 .. Len(s), ToSet(s))
  BY <1>2 DEF ExistsBijection
<1>. QED  BY <1>1, <1>3, FS_CountingElements, FS_NatBijection

LEMMA NewTotal ==
  ASSUME NEW S, NEW T, NEW m, NEW n \in Nat, IsFiniteSet(S), T \subseteq S, m \notin S,
         Cardinality(T) = n
  PROVE  Cardinality((S \ T) \cup {m}) = Cardinality(S) - n + 1
<1>1. IsFiniteSet(S \ T) /\ Cardinality(S \ T) = Cardinality(S) - Cardinality(S \cap T)
  BY FS_Difference
<1>2. S \cap T = T
  OBVIOUS
<1>3. Cardinality((S \ T) \cup {m}) = Cardinality(S \ T) + 1
  BY <1>1, FS_AddElement
<1>4. Cardinality(S) \in Nat
  BY FS_CardinalityType
<1>. QED  BY <1>1, <1>2, <1>3, <1>4

LEMMA PayloadsAreFinite ==
  ASSUME NEW keys, pushes \in Nat, \A x \in Payloads(keys) : x \in 1 .. pushes
  PROVE  IsFiniteSet(Payloads(keys)) /\ pushes + 1 \notin Payloads(keys)
<1>1. IsFiniteSet(1 .. pushes)
  BY FS_Interval
<1>2. Payloads(keys) \subseteq 1 .. pushes
  OBVIOUS
<1>3. pushes + 1 \notin 1 .. pushes
  OBVIOUS
<1>. QED  BY <1>1, <1>2, <1>3, FS_Subset

-----------------------------------------------------------------------------
(* What a push puts there. *)

NewEntry(c, k) == [id |-> k, msgs |-> Append(Left(c, k), pushes + 1)]

LEMMA PushedCache ==
  ASSUME NEW c, NEW k, c \in UserEntry
  PROVE  /\ PushInto(c, k, pushes + 1).id = c.id
         /\ PushInto(c, k, pushes + 1).cache = <<NewEntry(c, k)>> \o Others(c, k)
         /\ PushInto(c, k, pushes + 1).total = c.total - Len(Out(c, k)) + 1
         /\ PushInto(c, k, pushes + 1)
              = [id |-> c.id, total |-> c.total - Len(Out(c, k)) + 1,
                 cache |-> <<NewEntry(c, k)>> \o Others(c, k)]
<1>1. PushInto(c, k, pushes + 1)
        = [id |-> c.id, total |-> c.total - Len(Out(c, k)) + 1,
           cache |-> <<NewEntry(c, k)>> \o Others(c, k)]
  <2>1. PushInto(c, k, pushes + 1)
          = [c EXCEPT !.cache = <<NewEntry(c, k)>> \o Others(c, k),
                      !.total = c.total - Len(Out(c, k)) + 1]
    BY Zenon DEF PushInto, NewEntry, Left, Others, Out
  <2>2. \A x, y : [c EXCEPT !.cache = x, !.total = y] = [id |-> c.id, total |-> y, cache |-> x]
    <3>. TAKE x, y
    <3>1. [c EXCEPT !.cache = x, !.total = y] = [[c EXCEPT !.cache = x] EXCEPT !.total = y]
      OBVIOUS
    <3>2. [c EXCEPT !.cache = x] = [id |-> c.id, total |-> c.total, cache |-> x]
      BY DEF UserEntry
    <3>3. [[id |-> c.id, total |-> c.total, cache |-> x] EXCEPT !.total = y]
            = [id |-> c.id, total |-> y, cache |-> x]
      OBVIOUS
    <3>. QED  BY <3>1, <3>2, <3>3, Zenon
  <2>. QED  BY <2>1, <2>2, Zenon
<1>. QED  BY <1>1

\* The new payload is newer than all others, so that its queue goes in front.
LEMMA NewQueue ==
  ASSUME pushes \in Nat, NEW q \in Seq(1 .. MaxPushes), NEW k \in Keys, NEW r, Queues(r),
         pushes + 1 \in 1 .. MaxPushes,
         \A j \in DOMAIN r : r[j].id # k, \A x \in Payloads(r) : x \in 1 .. pushes
  PROVE  Queues(<<[id |-> k, msgs |-> Append(q, pushes + 1)]>> \o r)
<1>. DEFINE m == pushes + 1
            e == [id |-> k, msgs |-> Append(q, m)]
            s == <<e>> \o r
<1>1. /\ Append(q, m) \in Seq(1 .. MaxPushes) /\ Len(Append(q, m)) = Len(q) + 1
      /\ Append(q, m)[Len(q) + 1] = m
  OBVIOUS
<1>2. e \in KeyEntry /\ e.id = k /\ Len(e.msgs) > 0 /\ e.msgs[Len(e.msgs)] = m
  BY <1>1 DEF KeyEntry
<1>. HIDE DEF e, m
<1>3. r \in Seq(KeyEntry)
  BY DEF Queues
<1>4. /\ s \in Seq(KeyEntry) /\ Len(s) = Len(r) + 1 /\ s[1] = e
      /\ \A j \in 2 .. Len(r) + 1 : s[j] = r[j - 1]
  BY <1>2, <1>3, ConsProps
<1>. HIDE DEF s
<1>5. ASSUME NEW j \in DOMAIN r
      PROVE  Recent(e, r[j])
  <2>1. r[j].msgs \in Seq(1 .. MaxPushes) /\ Len(r[j].msgs) > 0
    <3>1. r[j] \in KeyEntry
      BY <1>3
    <3>. QED  BY <3>1 DEF KeyEntry, Queues
  <2>. DEFINE t == r[j].msgs
  <2>2. Len(t) \in DOMAIN t
    <3>. HIDE DEF t
    <3>1. t \in Seq(1 .. MaxPushes) /\ Len(t) > 0
      BY <2>1 DEF t
    <3>. QED  BY <3>1
  <2>3. t[Len(t)] \in Payloads(r)
    BY <2>2, PayloadsOf
  <2>4. t[Len(t)] \in 1 .. pushes
    BY <2>3
  <2>. HIDE DEF t
  <2>5. m > t[Len(t)]
    BY <2>4 DEF m
  <2>. QED  BY <1>2, <2>5 DEF Recent, t
<1>6. \A a \in DOMAIN s : a = 1 \/ (a - 1 \in DOMAIN r /\ s[a] = r[a - 1])
  BY <1>3, <1>4
<1>7. \A a \in DOMAIN s : Len(s[a].msgs) > 0
  BY <1>2, <1>4, <1>6 DEF Queues
<1>8. ASSUME NEW a \in DOMAIN s, NEW b \in DOMAIN s, a < b
      PROVE  Recent(s[a], s[b])
  <2>1. a \in Nat \ {0} /\ b \in Nat \ {0} /\ b # 1
    BY <1>4, <1>8
  <2>2. b - 1 \in DOMAIN r /\ s[b] = r[b - 1]
    BY <1>6, <2>1
  <2>3. CASE a = 1
    BY <1>4, <1>5, <2>2, <2>3
  <2>4. CASE a # 1
    <3>1. a - 1 \in DOMAIN r /\ s[a] = r[a - 1] /\ a - 1 < b - 1
      BY <1>6, <1>8, <2>1, <2>4
    <3>. QED  BY <2>2, <3>1 DEF Queues
  <2>. QED  BY <2>3, <2>4
<1>9. Queues(s)
  BY <1>4, <1>7, <1>8 DEF Queues
<1>. QED  BY <1>9 DEF s, e, m

LEMMA NewEnds ==
  ASSUME NEW p, NEW n, NEW u, NEW k \in Keys, NEW m \in 1 .. MaxPushes,
         p \in [Users \X Keys -> Seq(1 .. MaxPushes)], u \in Users,
         n = [p EXCEPT ![<<u, k>>] = Append(@, m)],
         NEW q \in Seq(1 .. MaxPushes), EndOf(q, p[<<u, k>>]),
         NEW r \in Seq(KeyEntry), EndsIn(p, u, r), \A j \in DOMAIN r : r[j].id # k
  PROVE  EndsIn(n, u, <<[id |-> k, msgs |-> Append(q, m)]>> \o r)
<1>. DEFINE e == [id |-> k, msgs |-> Append(q, m)]
            s == <<e>> \o r
<1>1. e \in KeyEntry /\ e.id = k /\ e.msgs = Append(q, m)
  BY DEF KeyEntry
<1>. HIDE DEF e
<1>2. /\ s \in Seq(KeyEntry) /\ Len(s) = Len(r) + 1 /\ s[1] = e
      /\ \A j \in 2 .. Len(r) + 1 : s[j] = r[j - 1]
  BY <1>1, ConsProps
<1>. HIDE DEF s
<1>3. n[<<u, k>>] = Append(p[<<u, k>>], m)
      /\ \A j \in Keys : j # k => n[<<u, j>>] = p[<<u, j>>]
  OBVIOUS
<1>4. p[<<u, k>>] \in Seq(1 .. MaxPushes)
  OBVIOUS
<1>5. EndOf(e.msgs, n[<<u, e.id>>])
  <2>1. EndOf(Append(q, m), Append(p[<<u, k>>], m))
    BY <1>4, EndOfAppend
  <2>. QED  BY <1>1, <1>3, <2>1, Zenon
<1>6. ASSUME NEW j \in DOMAIN r
      PROVE  EndOf(r[j].msgs, n[<<u, r[j].id>>])
  <2>1. r[j].id \in Keys /\ r[j].id # k
    <3>1. r[j] \in KeyEntry
      OBVIOUS
    <3>. QED  BY <3>1 DEF KeyEntry
  <2>2. n[<<u, r[j].id>>] = p[<<u, r[j].id>>]
    BY <1>3, <2>1
  <2>. QED  BY <2>2 DEF EndsIn
<1>7. \A a \in DOMAIN s : a = 1 \/ (a - 1 \in DOMAIN r /\ s[a] = r[a - 1])
  BY <1>2
<1>8. EndsIn(n, u, s)
  BY <1>2, <1>5, <1>6, <1>7 DEF EndsIn
<1>. QED  BY <1>8 DEF s, e

\* The cache that a push starts from is one of those kept, or new.
LEMMA UserCacheKept ==
  ASSUME CacheInv, NEW u \in Users
  PROVE  Kept(UserCache(u)) /\ UserCache(u).id = u
<1>1. user_caches \in Seq(UserEntry)
  BY DEF CacheInv, TypeOK, UserEntry, KeyEntry
<1>2. CASE Has(user_caches, u)
  <2>1. Index(user_caches, u) \in DOMAIN user_caches /\ user_caches[Index(user_caches, u)].id = u
        /\ Entry(user_caches, u) = user_caches[Index(user_caches, u)]
    BY <1>1, <1>2, IndexProps
  <2>. QED  BY <1>2, <2>1 DEF UserCache, CacheInv
<1>3. CASE ~Has(user_caches, u)
  <2>. DEFINE c == [id |-> u, total |-> 0, cache |-> <<>>]
  <2>1. UserCache(u) = c
    BY <1>3 DEF UserCache, NewUserCache
  <2>2. c \in UserEntry
    BY DEF UserEntry
  <2>3. Queues(<<>>) /\ Payloads(<<>>) = {} /\ EndsIn(pushed, u, <<>>)
    BY DEF Queues, Payloads, EndsIn
  <2>4. Full(c)
    <3>1. c.total = 0 /\ c.cache = <<>> /\ 0 <= MessagesCapacity
      BY CapacityAssumption
    <3>2. Cardinality({}) = 0
      BY FS_EmptySet
    <3>. HIDE DEF c
    <3>. QED  BY <2>3, <3>1, <3>2 DEF Full
  <2>5. c.id = u /\ c.cache = <<>>
    OBVIOUS
  <2>. HIDE DEF c
  <2>. QED  BY <2>1, <2>2, <2>3, <2>4, <2>5 DEF Kept, KeptIn
<1>. QED  BY <1>2, <1>3

LEMMA PushIntoKeeps ==
  ASSUME TypeOK, Numbered, NEW c, Kept(c), c.id \in Users, NEW k \in Keys, pushes < MaxPushes
  PROVE  /\ KeptIn([pushed EXCEPT ![<<c.id, k>>] = Append(@, pushes + 1)],
                   PushInto(c, k, pushes + 1))
         /\ PushInto(c, k, pushes + 1).id = c.id
         /\ Payloads(PushInto(c, k, pushes + 1).cache)
              = (Payloads(c.cache) \cup {pushes + 1}) \ ToSet(Out(c, k))
<1>. DEFINE u == c.id
            m == pushes + 1
            d == PushInto(c, k, m)
            l == Left(c, k)
            t == Others(c, k)
            o == Out(c, k)
            e == [id |-> k, msgs |-> Append(l, m)]
            K == c.cache
            p == [pushed EXCEPT ![<<u, k>>] = Append(@, m)]
<1>1. c \in UserEntry /\ Queues(K) /\ Ends(u, K) /\ Full(c)
  BY DEF Kept, KeptIn, Ends
<1>2. pushes \in Nat /\ m \in 1 .. MaxPushes
  BY CapacityAssumption DEF TypeOK
<1>3. /\ d.id = u /\ d.cache = <<e>> \o t /\ d.total = c.total - Len(o) + 1
      /\ d = [id |-> u, total |-> c.total - Len(o) + 1, cache |-> <<e>> \o t]
  BY <1>1, PushedCache DEF NewEntry
<1>4. /\ l \in Seq(1 .. MaxPushes) /\ EndOf(l, pushed[<<u, k>>])
      /\ Queues(t) /\ Ends(u, t)
      /\ \A j \in DOMAIN t : t[j].id # k
      /\ o \in Seq(1 .. MaxPushes) /\ ToSet(o) \subseteq Payloads(K)
      /\ \A i, j \in DOMAIN o : o[i] = o[j] => i = j
      /\ ToSet(l) \cup Payloads(t) = Payloads(K) \ ToSet(o)
      /\ c.total < MessagesCapacity \/ Len(o) > 0
  BY EvictionLeaves
<1>5. \A x \in Payloads(K) : x \in 1 .. pushes
  BY <1>1, PayloadsAreOld
<1>6. IsFiniteSet(Payloads(K)) /\ m \notin Payloads(K)
  BY <1>2, <1>5, PayloadsAreFinite
<1>. HIDE DEF u, m, d, l, t, o, K
<1>7. t \in Seq(KeyEntry)
  BY <1>4 DEF Queues
<1>8. \A x \in Payloads(t) : x \in 1 .. pushes
  BY <1>4, <1>5
<1>9. Queues(<<e>> \o t)
  BY <1>2, <1>4, <1>8, NewQueue DEF m
<1>10. EndsIn(p, u, <<e>> \o t)
  <2>1. pushed \in [Users \X Keys -> Seq(1 .. MaxPushes)] /\ u \in Users
    BY DEF TypeOK, u
  <2>2. EndsIn(pushed, u, t)
    BY <1>4 DEF Ends
  <2>. QED  BY <1>2, <1>4, <1>7, <2>1, <2>2, NewEnds
<1>11. Payloads(<<e>> \o t) = (Payloads(K) \ ToSet(o)) \cup {m}
  <2>1. e \in KeyEntry /\ e.msgs = Append(l, m)
    BY <1>2, <1>4 DEF KeyEntry
  <2>2. Payloads(<<e>> \o t) = ToSet(e.msgs) \cup Payloads(t)
    <3>. HIDE DEF e
    <3>. QED  BY <1>7, <2>1, PayloadsCons
  <2>3. ToSet(Append(l, m)) = ToSet(l) \cup {m}
    <3>1. /\ DOMAIN Append(l, m) = 1 .. Len(l) + 1 /\ Append(l, m)[Len(l) + 1] = m
          /\ \A i \in 1 .. Len(l) : Append(l, m)[i] = l[i]
          /\ DOMAIN l = 1 .. Len(l) /\ Len(l) \in Nat
      BY <1>2, <1>4
    <3>2. \A i \in 1 .. Len(l) + 1 : i = Len(l) + 1 \/ i \in 1 .. Len(l)
      BY <3>1
    <3>3. \A i \in 1 .. Len(l) : i \in 1 .. Len(l) + 1
      BY <3>1
    <3>4. Len(l) + 1 \in 1 .. Len(l) + 1
      BY <3>1
    <3>. DEFINE a == Append(l, m)
    <3>. HIDE DEF a
    <3>5. DOMAIN a = 1 .. Len(l) + 1 /\ a[Len(l) + 1] = m /\ \A i \in 1 .. Len(l) : a[i] = l[i]
      BY <3>1 DEF a
    <3>6. ToSet(a) \subseteq ToSet(l) \cup {m}
      BY <3>1, <3>2, <3>5 DEF ToSet
    <3>7. ToSet(l) \cup {m} \subseteq ToSet(a)
      BY <3>1, <3>3, <3>4, <3>5 DEF ToSet
    <3>. QED  BY <3>6, <3>7 DEF a
  <2>. QED  BY <1>4, <2>1, <2>2, <2>3
<1>12. Cardinality(Payloads(<<e>> \o t)) = c.total - Len(o) + 1
  <2>1. Cardinality(ToSet(o)) = Len(o) /\ Len(o) \in Nat
    BY <1>4, LengthOfDistinct
  <2>2. c.total = Cardinality(Payloads(K))
    BY <1>1 DEF Full, K
  <2>. HIDE DEF e
  <2>. QED  BY <1>4, <1>6, <1>11, <2>1, <2>2, NewTotal
<1>13. c.total - Len(o) + 1 \in Nat /\ c.total - Len(o) + 1 <= MessagesCapacity
  <2>1. IsFiniteSet(Payloads(<<e>> \o t))
    <3>1. IsFiniteSet(Payloads(K) \ ToSet(o))
      BY <1>6, FS_Difference
    <3>. QED  BY <1>11, <3>1, FS_AddElement
  <2>2. c.total - Len(o) + 1 \in Nat
    BY <1>12, <2>1, FS_CardinalityType
  <2>3. c.total \in Nat /\ c.total <= MessagesCapacity /\ Len(o) \in Nat /\ MessagesCapacity \in Nat
    BY <1>1, <1>4, CapacityAssumption DEF UserEntry, Full
  <2>. QED  BY <1>4, <2>2, <2>3
<1>14. KeptIn(p, d)
  <2>1. <<e>> \o t \in Seq(KeyEntry)
    BY <1>9 DEF Queues
  <2>. HIDE DEF e, p
  <2>2. d \in UserEntry
    <3>1. u \in Users
      BY DEF u
    <3>. QED  BY <1>3, <1>13, <2>1, <3>1 DEF UserEntry
  <2>3. Full(d)
    BY <1>3, <1>12, <1>13 DEF Full
  <2>. QED  BY <1>3, <1>9, <1>10, <2>2, <2>3 DEF KeptIn
<1>15. Payloads(d.cache) = (Payloads(K) \cup {m}) \ ToSet(o)
  <2>. HIDE DEF e
  <2>. QED  BY <1>3, <1>4, <1>6, <1>11
<1>. QED  BY <1>3, <1>14, <1>15 DEF d, u, m, K, o

-----------------------------------------------------------------------------
(* The users. *)

\* The entry put in front is found there; the others are among those that were there.
LEMMA PutProps ==
  ASSUME NEW S, NEW s \in Seq(S), NEW e \in S, NEW n \in Nat \ {0},
         \A i, j \in DOMAIN s : i < j => s[i].id # s[j].id
  PROVE  /\ Put(s, e, n) \in Seq(S) /\ Len(Put(s, e, n)) <= n
         /\ Has(Put(s, e, n), e.id) /\ Entry(Put(s, e, n), e.id) = e
         /\ \A i, j \in DOMAIN Put(s, e, n) : i < j => Put(s, e, n)[i].id # Put(s, e, n)[j].id
         /\ \A i \in DOMAIN Put(s, e, n) :
              \/ Put(s, e, n)[i] = e
              \/ Put(s, e, n)[i].id # e.id /\ \E j \in DOMAIN s : s[j] = Put(s, e, n)[i]
<1>. DEFINE w == Without(s, e.id)
            all == <<e>> \o w
            l == IF Len(all) > n THEN n ELSE Len(all)
            t == SubSeq(all, 1, l)
<1>1. Put(s, e, n) = t
  BY DEF Put
<1>2. /\ w \in Seq(S)
      /\ \A j \in DOMAIN w : w[j].id # e.id /\ \E i \in DOMAIN s : s[i] = w[j]
      /\ \A j, k \in DOMAIN w : j < k =>
           \E a, b \in DOMAIN s : a < b /\ s[a] = w[j] /\ s[b] = w[k]
  BY WithoutProps
<1>. HIDE DEF w
<1>3. /\ all \in Seq(S) /\ Len(all) = Len(w) + 1 /\ all[1] = e
      /\ \A j \in 2 .. Len(w) + 1 : all[j] = w[j - 1]
  BY <1>2, ConsProps
<1>. HIDE DEF all
<1>4. Len(w) \in Nat /\ l \in 1 .. Len(all) /\ l <= n
  BY <1>2, <1>3
<1>. HIDE DEF l
<1>5. t \in Seq(S) /\ Len(t) = l /\ \A j \in 1 .. l : t[j] = all[j]
  <2>1. \A j \in 1 .. Len(all) :
          /\ SubSeq(all, 1, j) \in Seq(S) /\ Len(SubSeq(all, 1, j)) = j
          /\ \A i \in 1 .. j : SubSeq(all, 1, j)[i] = all[i]
    BY <1>3
  <2>. QED  BY <1>4, <2>1
<1>. HIDE DEF t
<1>6. \A j \in DOMAIN t : j \in Nat \ {0}
                         /\ ((j = 1 /\ t[j] = e) \/ (j # 1 /\ j - 1 \in DOMAIN w /\ t[j] = w[j - 1]))
  BY <1>2, <1>3, <1>4, <1>5
<1>7. ASSUME NEW i \in DOMAIN t, NEW j \in DOMAIN t, i < j
      PROVE  t[i].id # t[j].id
  <2>1. j # 1 /\ j - 1 \in DOMAIN w /\ t[j] = w[j - 1]
    BY <1>6, <1>7
  <2>2. CASE i = 1
    BY <1>2, <1>6, <2>1, <2>2
  <2>3. CASE i # 1
    <3>1. i - 1 \in DOMAIN w /\ t[i] = w[i - 1] /\ i - 1 < j - 1
      BY <1>6, <1>7, <2>1, <2>3
    <3>2. PICK a, b \in DOMAIN s : a < b /\ s[a] = w[i - 1] /\ s[b] = w[j - 1]
      BY <1>2, <2>1, <3>1
    <3>. QED  BY <2>1, <3>1, <3>2
  <2>. QED  BY <2>2, <2>3
<1>8. 1 \in DOMAIN t /\ t[1] = e
  BY <1>4, <1>5, <1>6
<1>9. Has(t, e.id)
  BY <1>8 DEF Has
<1>10. Entry(t, e.id) = e
  <2>1. Index(t, e.id) \in DOMAIN t /\ t[Index(t, e.id)].id = e.id
        /\ Entry(t, e.id) = t[Index(t, e.id)]
    BY <1>5, <1>9, IndexProps
  <2>. QED  BY <1>2, <1>6, <2>1
<1>11. \A i \in DOMAIN t : t[i] = e \/ (t[i].id # e.id /\ \E j \in DOMAIN s : s[j] = t[i])
  BY <1>2, <1>6
<1>12. Len(t) <= n
  BY <1>4, <1>5
<1>. QED  BY <1>1, <1>5, <1>7, <1>9, <1>10, <1>11, <1>12

\* A push leaves the other users' caches as they were.
LEMMA OthersKept ==
  ASSUME NEW p \in [Users \X Keys -> Seq(1 .. MaxPushes)], NEW u, NEW k, NEW x,
         NEW c, KeptIn(p, c), c.id # u
  PROVE  KeptIn([p EXCEPT ![<<u, k>>] = Append(@, x)], c)
<1>. DEFINE n == [p EXCEPT ![<<u, k>>] = Append(@, x)]
<1>1. c.id \in Users /\ c.cache \in Seq(KeyEntry)
  BY DEF KeptIn, UserEntry
<1>2. ASSUME NEW a \in DOMAIN c.cache
      PROVE  n[<<c.id, c.cache[a].id>>] = p[<<c.id, c.cache[a].id>>]
  <2>1. c.cache[a] \in KeyEntry
    BY <1>1, Elements
  <2>2. c.cache[a].id \in Keys
    BY <2>1 DEF KeyEntry
  <2>3. <<c.id, c.cache[a].id>> \in Users \X Keys /\ <<c.id, c.cache[a].id>> # <<u, k>>
    BY <1>1, <2>2
  <2>. QED  BY <2>3
<1>. HIDE DEF n
<1>3. EndsIn(n, c.id, c.cache)
  BY <1>2 DEF EndsIn, KeptIn
<1>. QED  BY <1>3 DEF KeptIn, n

LEMMA PushNumbers ==
  ASSUME TypeOK, Numbered, NEW u \in Users, NEW k \in Keys, Push(u, k)
  PROVE  Numbered'
<1>. DEFINE m == pushes + 1
<1>1. pushes \in Nat /\ pushes' = m /\ m \in 1 .. MaxPushes
  BY CapacityAssumption DEF Push, TypeOK
<1>2. /\ pushed' = [pushed EXCEPT ![<<u, k>>] = Append(@, m)]
      /\ pushed \in [Users \X Keys -> Seq(1 .. MaxPushes)]
  BY DEF Push, TypeOK
<1>3. \A q \in Users \X Keys : pushed[q] \in Seq(1 .. MaxPushes)
  BY <1>2
<1>4. \A q \in Users \X Keys : \A i \in DOMAIN pushed[q] :
        i \in 1 .. Len(pushed[q]) /\ pushed[q][i] \in Nat
  <2>1. ASSUME NEW q \in Users \X Keys, NEW i \in DOMAIN pushed[q]
        PROVE  i \in 1 .. Len(pushed[q]) /\ pushed[q][i] \in Nat
    <3>1. pushed[q] \in Seq(1 .. MaxPushes)
      BY <1>3
    <3>2. pushed[q][i] \in 1 .. MaxPushes
      BY <3>1, Elements
    <3>. QED  BY <3>1, <3>2
  <2>. QED  BY <2>1
<1>5. \A q \in Users \X Keys : \A i \in DOMAIN pushed[q] : pushed[q][i] < m
  BY <1>1, <1>4 DEF Numbered
<1>. HIDE DEF m
<1>6. ASSUME NEW q \in Users \X Keys, NEW i \in DOMAIN pushed'[q]
      PROVE  \/ i \in DOMAIN pushed[q] /\ pushed'[q][i] = pushed[q][i]
             \/ /\ q = <<u, k>> /\ i = Len(pushed[q]) + 1 /\ pushed'[q][i] = m
                /\ \A j \in DOMAIN pushed[q] : j < i
  <2>1. CASE q = <<u, k>>
    <3>. DEFINE s == pushed[q]
    <3>1. pushed'[q] = Append(s, m) /\ s \in Seq(1 .. MaxPushes)
      BY <1>2, <2>1
    <3>. HIDE DEF s
    <3>2. DOMAIN Append(s, m) = 1 .. Len(s) + 1 /\ Append(s, m)[Len(s) + 1] = m
          /\ \A j \in 1 .. Len(s) : Append(s, m)[j] = s[j]
      BY <1>1, <3>1
    <3>3. DOMAIN s = 1 .. Len(s) /\ Len(s) \in Nat
      BY <3>1
    <3>4. i = Len(s) + 1 \/ i \in 1 .. Len(s)
      BY <3>1, <3>2, <3>3
    <3>5. \A j \in DOMAIN s : j < Len(s) + 1
      BY <3>3
    <3>. QED  BY <2>1, <3>1, <3>2, <3>3, <3>4, <3>5, Zenon DEF s
  <2>2. CASE q # <<u, k>>
    BY <1>2, <2>2
  <2>. QED  BY <2>1, <2>2
<1>7. ASSUME NEW q \in Users \X Keys, NEW i \in DOMAIN pushed'[q], NEW j \in DOMAIN pushed'[q], i < j
      PROVE  pushed'[q][i] < pushed'[q][j]
  <2>1. CASE j \in DOMAIN pushed[q] /\ pushed'[q][j] = pushed[q][j]
    <3>1. i \in DOMAIN pushed[q] /\ pushed'[q][i] = pushed[q][i]
      <4>1. ~(i = Len(pushed[q]) + 1)
        BY <1>4, <1>7, <2>1
      <4>. QED  BY <1>6, <4>1
    <3>. QED  BY <1>7, <2>1, <3>1 DEF Numbered
  <2>2. CASE q = <<u, k>> /\ j = Len(pushed[q]) + 1 /\ pushed'[q][j] = m
    <3>1. ~(i = Len(pushed[q]) + 1)
      <4>1. Len(pushed[q]) \in Nat
        BY <1>3
      <4>. QED  BY <1>7, <2>2, <4>1
    <3>2. i \in DOMAIN pushed[q] /\ pushed'[q][i] = pushed[q][i]
      BY <1>6, <3>1
    <3>. QED  BY <1>5, <2>2, <3>2
  <2>. QED  BY <1>6, <2>1, <2>2
<1>8. ASSUME NEW q \in Users \X Keys, NEW i \in DOMAIN pushed'[q]
      PROVE  pushed'[q][i] <= pushes'
  <2>1. m <= m
    BY <1>1
  <2>2. CASE i \in DOMAIN pushed[q] /\ pushed'[q][i] = pushed[q][i]
    BY <1>1, <1>4, <1>5, <2>2
  <2>. QED  BY <1>1, <1>6, <2>1, <2>2
<1>9. ASSUME NEW q \in Users \X Keys, NEW r \in Users \X Keys,
             NEW i \in DOMAIN pushed'[q], NEW j \in DOMAIN pushed'[r], q # r
      PROVE  pushed'[q][i] # pushed'[r][j]
  <2>1. \A x \in Nat : x < m => x # m
    BY <1>1
  <2>2. CASE i \in DOMAIN pushed[q] /\ pushed'[q][i] = pushed[q][i]
    <3>1. CASE j \in DOMAIN pushed[r] /\ pushed'[r][j] = pushed[r][j]
      BY <1>9, <2>2, <3>1 DEF Numbered
    <3>2. CASE pushed'[r][j] = m
      BY <1>4, <1>5, <2>1, <2>2, <3>2
    <3>. QED  BY <1>6, <3>1, <3>2
  <2>3. CASE q = <<u, k>> /\ pushed'[q][i] = m
    <3>1. j \in DOMAIN pushed[r] /\ pushed'[r][j] = pushed[r][j]
      BY <1>6, <1>9, <2>3
    <3>. QED  BY <1>4, <1>5, <2>1, <2>3, <3>1
  <2>. QED  BY <1>6, <2>2, <2>3
<1>. QED  BY <1>7, <1>8, <1>9 DEF Numbered

LEMMA PushKeeps ==
  ASSUME CacheInv, NEW u \in Users, NEW k \in Keys, Push(u, k)
  PROVE  CacheInv'
<1>. DEFINE c == UserCache(u)
            d == PushInto(c, k, pushes + 1)
            n == [pushed EXCEPT ![<<u, k>>] = Append(@, pushes + 1)]
<1>1. TypeOK /\ Numbered /\ pushes < MaxPushes /\ pushes' = pushes + 1
      /\ pushed' = n /\ user_caches' = Put(user_caches, d, UsersCapacity)
      /\ evicted' = Out(c, k)
  BY DEF Push, CacheInv, Out
<1>2. Kept(c) /\ c.id = u
  BY UserCacheKept
<1>. HIDE DEF c
<1>3. KeptIn(n, d) /\ d.id = u
  BY <1>1, <1>2, PushIntoKeeps
<1>4. Out(c, k) \in Seq(1 .. MaxPushes)
  BY <1>1, <1>2, EvictionLeaves
<1>. HIDE DEF d
<1>5. user_caches \in Seq(UserEntry)
  BY <1>1 DEF TypeOK, UserEntry, KeyEntry
<1>6. d \in UserEntry
  BY <1>3 DEF KeptIn
<1>. DEFINE t == Put(user_caches, d, UsersCapacity)
<1>7. /\ t \in Seq(UserEntry) /\ Len(t) <= UsersCapacity
      /\ \A i, j \in DOMAIN t : i < j => t[i].id # t[j].id
      /\ \A i \in DOMAIN t :
           t[i] = d \/ (t[i].id # d.id /\ \E j \in DOMAIN user_caches : user_caches[j] = t[i])
  BY <1>5, <1>6, CapacityAssumption, PutProps DEF CacheInv
<1>. HIDE DEF t
<1>8. pushed \in [Users \X Keys -> Seq(1 .. MaxPushes)]
  BY <1>1 DEF TypeOK
<1>9. ASSUME NEW i \in DOMAIN t
      PROVE  KeptIn(n, t[i])
  <2>1. CASE t[i] = d
    BY <1>3, <2>1, Zenon
  <2>2. CASE t[i].id # u /\ \E j \in DOMAIN user_caches : user_caches[j] = t[i]
    <3>1. KeptIn(pushed, t[i])
      BY <2>2 DEF CacheInv, Kept
    <3>. QED  BY <1>8, <2>2, <3>1, OthersKept
  <2>. QED  BY <1>3, <1>7, <2>1, <2>2
<1>10. n \in [Users \X Keys -> Seq(1 .. MaxPushes)] /\ pushes + 1 \in 0 .. MaxPushes
  <2>1. pushes + 1 \in 1 .. MaxPushes /\ pushes + 1 \in 0 .. MaxPushes
    BY <1>1, CapacityAssumption DEF TypeOK
  <2>2. Append(pushed[<<u, k>>], pushes + 1) \in Seq(1 .. MaxPushes)
    BY <1>8, <2>1
  <2>. QED  BY <1>8, <2>1, <2>2
<1>. HIDE DEF n
<1>11. user_caches' = t /\ pushed' = n
  BY <1>1 DEF t
<1>12. TypeOK'
  BY <1>1, <1>4, <1>7, <1>10, <1>11 DEF TypeOK, UserEntry, KeyEntry
<1>13. Numbered'
  BY <1>1, PushNumbers
<1>14. \A i \in DOMAIN user_caches' : KeptIn(pushed', user_caches'[i])
  BY <1>9, <1>11, Zenon
<1>15. /\ Len(user_caches') <= UsersCapacity
       /\ \A i, j \in DOMAIN user_caches' : i < j => user_caches'[i].id # user_caches'[j].id
  BY <1>7, <1>11
<1>. QED  BY <1>12, <1>13, <1>14, <1>15 DEF CacheInv, Kept

LEMMA PopKeeps ==
  ASSUME CacheInv, NEW u \in Users, NEW k \in Keys, Pop(u, k)
  PROVE  CacheInv'
<1>. DEFINE t == Without(user_caches, u)
<1>1. user_caches' = t /\ evicted' = <<>> /\ pushed' = pushed /\ pushes' = pushes
  BY DEF Pop
<1>2. user_caches \in Seq(UserEntry)
  BY DEF CacheInv, TypeOK, UserEntry, KeyEntry
<1>3. /\ t \in Seq(UserEntry) /\ Len(t) <= Len(user_caches)
      /\ \A j \in DOMAIN t : \E i \in DOMAIN user_caches : user_caches[i] = t[j]
      /\ \A i, j \in DOMAIN t : i < j => t[i].id # t[j].id
  <2>1. \A i, j \in DOMAIN user_caches : i < j => user_caches[i].id # user_caches[j].id
    BY DEF CacheInv
  <2>2. /\ t \in Seq(UserEntry) /\ Len(t) <= Len(user_caches)
        /\ \A j \in DOMAIN t : \E i \in DOMAIN user_caches : user_caches[i] = t[j]
        /\ \A j, i \in DOMAIN t : j < i =>
             \E a, b \in DOMAIN user_caches :
               a < b /\ user_caches[a] = t[j] /\ user_caches[b] = t[i]
    BY <1>2, <2>1, WithoutProps
  <2>. HIDE DEF t
  <2>3. ASSUME NEW i \in DOMAIN t, NEW j \in DOMAIN t, i < j PROVE t[i].id # t[j].id
    <3>1. PICK a, b \in DOMAIN user_caches :
            a < b /\ user_caches[a] = t[i] /\ user_caches[b] = t[j]
      BY <2>2, <2>3
    <3>. QED  BY <2>1, <3>1
  <2>. QED  BY <2>2, <2>3
<1>. HIDE DEF t
<1>4. TypeOK'
  BY <1>1, <1>3 DEF TypeOK, CacheInv, UserEntry, KeyEntry
<1>5. Numbered'
  BY <1>1 DEF Numbered, CacheInv
<1>6. \A i \in DOMAIN user_caches' : KeptIn(pushed', user_caches'[i])
  BY <1>1, <1>3 DEF CacheInv, Kept
<1>7. Len(user_caches') <= UsersCapacity
  BY <1>1, <1>2, <1>3, CapacityAssumption DEF CacheInv
<1>. QED  BY <1>1, <1>3, <1>4, <1>5, <1>6, <1>7 DEF CacheInv, Kept

\* The inductive invariant holds in every reachable state.
THEOREM Invariant == Spec => []CacheInv
<1>1. Init => CacheInv
  <2>. SUFFICES ASSUME Init PROVE CacheInv
    OBVIOUS
  <2>1. user_caches = <<>> /\ pushes = 0 /\ evicted = <<>>
        /\ pushed = [q \in Users \X Keys |-> <<>>]
    BY DEF Init
  <2>2. TypeOK
    BY <2>1, CapacityAssumption DEF TypeOK
  <2>3. Numbered
    BY <2>1 DEF Numbered
  <2>. QED  BY <2>1, <2>2, <2>3, CapacityAssumption DEF CacheInv
<1>2. CacheInv /\ [Next]_vars => CacheInv'
  <2>. SUFFICES ASSUME CacheInv, [Next]_vars PROVE CacheInv'
    OBVIOUS
  <2>1. ASSUME NEW u \in Users, NEW k \in Keys, Push(u, k) PROVE CacheInv'
    BY <2>1, PushKeeps
  <2>2. ASSUME NEW u \in Users, NEW k \in Keys, Pop(u, k) PROVE CacheInv'
    BY <2>2, PopKeeps
  <2>3. CASE UNCHANGED vars
    BY <2>3 DEF CacheInv, vars, TypeOK, Numbered, Kept
  <2>. QED  BY <2>1, <2>2, <2>3 DEF Next
<1>. QED  BY <1>1, <1>2, PTL DEF Spec

\* The queues of a user are well formed.
LEMMA KeptIsWellFormed ==
  ASSUME TypeOK, Numbered, NEW c, Kept(c)
  PROVE  /\ \A a \in DOMAIN c.cache : c.cache[a].msgs # <<>>
         /\ \A a, b \in DOMAIN c.cache : c.cache[a].id = c.cache[b].id => a = b
         /\ \A a, b \in DOMAIN c.cache :
              \A m \in DOMAIN c.cache[a].msgs, n \in DOMAIN c.cache[b].msgs :
                c.cache[a].msgs[m] = c.cache[b].msgs[n] => a = b /\ m = n
         /\ c.total = Cardinality(Payloads(c.cache))
         /\ c.total <= MessagesCapacity
<1>1. c.id \in Users /\ Queues(c.cache) /\ Ends(c.id, c.cache) /\ Full(c)
  BY DEF Kept, KeptIn, UserEntry, Ends
<1>2. \A a \in DOMAIN c.cache : c.cache[a].msgs # <<>>
  BY <1>1 DEF Queues
<1>3. \A a, b \in DOMAIN c.cache : c.cache[a].id = c.cache[b].id => a = b
  BY <1>1, QueuesAreUnique
<1>4. \A a, b \in DOMAIN c.cache :
        \A m \in DOMAIN c.cache[a].msgs, n \in DOMAIN c.cache[b].msgs :
          c.cache[a].msgs[m] = c.cache[b].msgs[n] => a = b /\ m = n
  BY <1>1, PayloadsAreDistinct
<1>. QED  BY <1>1, <1>2, <1>3, <1>4 DEF Full

\* The cache is well formed: each payload once, in a queue of its key that is not
\* empty, the total right, and neither limit passed (PayloadCache::push, pop).
THEOREM CacheIsWellFormed == Spec => []WellFormed
<1>1. CacheInv => WellFormed
  <2>. SUFFICES ASSUME CacheInv PROVE WellFormed
    OBVIOUS
  <2>1. TypeOK /\ Numbered /\ user_caches \in Seq(UserEntry)
    BY DEF CacheInv, TypeOK, UserEntry, KeyEntry
  <2>2. \A i, j \in DOMAIN user_caches : user_caches[i].id = user_caches[j].id => i = j
    <3>1. DOMAIN user_caches \subseteq Int
      BY <2>1
    <3>. QED  BY <3>1 DEF CacheInv
  <2>3. ASSUME NEW i \in DOMAIN user_caches
        PROVE  Kept(user_caches[i])
    BY DEF CacheInv
  <2>4. Len(user_caches) <= UsersCapacity
    BY DEF CacheInv
  <2>. QED  BY <2>1, <2>2, <2>3, <2>4, KeptIsWellFormed DEF WellFormed
<1>. QED  BY Invariant, <1>1, PTL

\* What is cached for a key is an uninterrupted end of what was pushed for it, whatever
\* was evicted (PayloadCache::push).
THEOREM TheNewestAreKept == Spec => []NewestKept
<1>1. CacheInv => NewestKept
  <2>. SUFFICES ASSUME CacheInv,
                       NEW i \in DOMAIN user_caches, NEW a \in DOMAIN user_caches[i].cache
                PROVE  IsSuffix(user_caches[i].cache[a].msgs,
                                pushed[<<user_caches[i].id, user_caches[i].cache[a].id>>])
    BY DEF NewestKept
  <2>. DEFINE c == user_caches[i]
              e == c.cache[a]
  <2>1. c.id \in Users /\ c.cache \in Seq(KeyEntry) /\ EndsIn(pushed, c.id, c.cache)
    BY DEF CacheInv, Kept, KeptIn, UserEntry
  <2>2. e \in KeyEntry
    BY <2>1, Elements
  <2>3. e.id \in Keys /\ e.msgs \in Seq(1 .. MaxPushes)
    BY <2>2 DEF KeyEntry
  <2>4. pushed[<<c.id, e.id>>] \in Seq(1 .. MaxPushes)
    BY <2>1, <2>3 DEF CacheInv, TypeOK
  <2>5. EndOf(e.msgs, pushed[<<c.id, e.id>>])
    BY <2>1 DEF EndsIn
  <2>. QED  BY <2>3, <2>4, <2>5, EndsAreSuffixes
<1>. QED  BY Invariant, <1>1, PTL

\* What a full cache evicts.
LEMMA EvictionIsFair ==
  ASSUME TypeOK, Numbered, NEW c, Kept(c), NEW k \in Keys, Out(c, k) # <<>>
  PROVE  \/ /\ Len(c.cache) = 1 /\ c.cache[1].id = k
            /\ Out(c, k) = <<Head(c.cache[1].msgs)>>
         \/ \E a \in DOMAIN c.cache :
              /\ c.cache[a].id # k
              /\ Out(c, k) = c.cache[a].msgs
              /\ \A b \in DOMAIN c.cache :
                   c.cache[b].id # k => Last(c.cache[a].msgs) <= Last(c.cache[b].msgs)
<1>. DEFINE K == c.cache
            r == Rest(K, k)
<1>1. c \in UserEntry /\ Queues(K) /\ K \in Seq(KeyEntry)
  BY DEF Kept, KeptIn, UserEntry
<1>2. /\ Queues(r) /\ r \in Seq(KeyEntry)
      /\ \A j \in DOMAIN r : r[j].id # k /\ \E i \in DOMAIN K : K[i] = r[j]
      /\ \A i \in DOMAIN K : K[i].id # k => \E j \in DOMAIN r : r[j] = K[i]
  BY <1>1, RestProps DEF Queues
<1>3. ~(c.total < MessagesCapacity)
  BY EvictsNothing DEF Out
<1>4. CASE Len(r) > 0
  <2>1. Out(c, k) = Last(r).msgs
    BY <1>1, <1>3, <1>4, EvictsOther DEF Out
  <2>. HIDE DEF r, K
  <2>2. Len(r) \in DOMAIN r /\ Last(r) = r[Len(r)]
    BY <1>2, <1>4 DEF Last
  <2>3. PICK a \in DOMAIN K : K[a] = r[Len(r)]
    BY <1>2, <2>2
  <2>4. \A j \in DOMAIN r : r[j].msgs[Len(r[j].msgs)] \in 1 .. MaxPushes
    <3>. TAKE j \in DOMAIN r
    <3>1. r[j] \in KeyEntry /\ Len(r[j].msgs) > 0
      BY <1>2, Elements DEF Queues
    <3>. DEFINE t == r[j].msgs
    <3>2. t \in Seq(1 .. MaxPushes) /\ Len(t) > 0
      BY <3>1 DEF KeyEntry
    <3>. HIDE DEF t
    <3>4. Len(t) \in DOMAIN t
      BY <3>2
    <3>3. t[Len(t)] \in 1 .. MaxPushes
      BY <3>2, <3>4, Elements
    <3>. QED  BY <3>3 DEF t
  <2>5. ASSUME NEW b \in DOMAIN K, K[b].id # k
        PROVE  Last(K[a].msgs) <= Last(K[b].msgs)
    <3>1. PICK j \in DOMAIN r : r[j] = K[b]
      BY <1>2, <2>5
    <3>2. j = Len(r) \/ j < Len(r)
      BY <1>2
    <3>3. r[Len(r)].msgs[Len(r[Len(r)].msgs)] <= r[j].msgs[Len(r[j].msgs)]
      <4>1. CASE j = Len(r)
        BY <2>2, <2>4, <4>1
      <4>2. CASE j < Len(r)
        <5>1. Recent(r[j], r[Len(r)])
          BY <1>2, <2>2, <4>2 DEF Queues
        <5>. QED  BY <2>2, <2>4, <5>1 DEF Recent
      <4>. QED  BY <3>2, <4>1, <4>2
    <3>. QED  BY <2>3, <3>1, <3>3 DEF Last
  <2>6. K[a].id # k /\ Out(c, k) = K[a].msgs
    BY <1>2, <2>1, <2>2, <2>3
  <2>. QED  BY <2>5, <2>6 DEF K
<1>5. CASE Len(r) = 0
  <2>1. Len(K) > 0
    <3>1. K # <<>>
      <4>1. Full(c) /\ c.total \in Nat
        BY <1>1 DEF Kept, KeptIn, UserEntry
      <4>2. Payloads(<<>>) = {}
        BY DEF Payloads
      <4>3. Cardinality({}) = 0
        BY FS_EmptySet
      <4>4. c.total > 0 /\ c.total = Cardinality(Payloads(K))
        BY <1>3, <4>1, CapacityAssumption DEF Full
      <4>. HIDE DEF K
      <4>. QED  BY <4>2, <4>3, <4>4
    <3>. HIDE DEF K
    <3>. QED  BY <1>1, <3>1
  <2>. QED  BY <1>1, <1>3, <1>5, <2>1, EvictsOldest DEF Out
<1>6. Len(r) > 0 \/ Len(r) = 0
  <2>. HIDE DEF r
  <2>. QED  BY <1>2
<1>. QED  BY <1>4, <1>5, <1>6

\* A push costs its user nothing but what it returns, and that is the queue whose last
\* push is the oldest, or the oldest payload of the only key (UserPayloadCache::push).
THEOREM EvictsByRecency == Spec => EvictsLeastRecentlyUsed
<1>. DEFINE Fair ==
       \A u \in Users, k \in Keys :
         pushed'[<<u, k>>] # pushed[<<u, k>>] =>
           /\ Cached(user_caches', u) =
                (Cached(user_caches, u) \cup {pushes'}) \ ToSet(evicted')
           /\ evicted' # <<>> =>
                LET keys == Entry(user_caches, u).cache IN
                  \/ /\ Len(keys) = 1 /\ keys[1].id = k
                     /\ evicted' = <<Head(keys[1].msgs)>>
                  \/ \E a \in DOMAIN keys :
                       /\ keys[a].id # k
                       /\ evicted' = keys[a].msgs
                       /\ \A b \in DOMAIN keys :
                            keys[b].id # k => Last(keys[a].msgs) <= Last(keys[b].msgs)
<1>1. CacheInv /\ [Next]_vars => [Fair]_vars
  <2>. SUFFICES ASSUME CacheInv, Next, NEW u \in Users, NEW k \in Keys,
                       pushed'[<<u, k>>] # pushed[<<u, k>>]
                PROVE  /\ Cached(user_caches', u) =
                            (Cached(user_caches, u) \cup {pushes'}) \ ToSet(evicted')
                       /\ evicted' # <<>> =>
                            LET keys == Entry(user_caches, u).cache IN
                              \/ /\ Len(keys) = 1 /\ keys[1].id = k
                                 /\ evicted' = <<Head(keys[1].msgs)>>
                              \/ \E a \in DOMAIN keys :
                                   /\ keys[a].id # k
                                   /\ evicted' = keys[a].msgs
                                   /\ \A b \in DOMAIN keys :
                                        keys[b].id # k => Last(keys[a].msgs) <= Last(keys[b].msgs)
    BY Zenon DEF vars
  <2>1. Push(u, k)
    <3>1. \A v \in Users, j \in Keys : ~Pop(v, j)
      BY DEF Pop
    <3>2. PICK v \in Users, j \in Keys : Push(v, j)
      BY <3>1 DEF Next
    <3>3. <<v, j>> = <<u, k>>
      BY <3>2 DEF Push, CacheInv, TypeOK
    <3>4. v = u /\ j = k
      BY <3>3
    <3>. QED  BY <3>2, <3>4
  <2>. DEFINE c == UserCache(u)
              d == PushInto(c, k, pushes + 1)
  <2>2. /\ TypeOK /\ Numbered /\ pushes < MaxPushes /\ pushes' = pushes + 1
        /\ user_caches' = Put(user_caches, d, UsersCapacity)
        /\ evicted' = Out(c, k)
    BY <2>1 DEF Push, CacheInv, Out
  <2>3. Kept(c) /\ c.id = u
    BY UserCacheKept
  <2>4. d.id = u /\ Payloads(d.cache) = (Payloads(c.cache) \cup {pushes + 1}) \ ToSet(Out(c, k))
        /\ d \in UserEntry
    <3>. HIDE DEF c
    <3>. QED  BY <2>2, <2>3, PushIntoKeeps DEF KeptIn
  <2>5. Cached(user_caches, u) = Payloads(c.cache)
    <3>1. CASE Has(user_caches, u)
      BY <3>1 DEF Cached, UserCache
    <3>2. CASE ~Has(user_caches, u)
      BY <3>2 DEF Cached, UserCache, NewUserCache, Payloads
    <3>. QED  BY <3>1, <3>2
  <2>6. Cached(user_caches', u) = Payloads(d.cache)
    <3>1. user_caches \in Seq(UserEntry)
      BY DEF CacheInv, TypeOK, UserEntry, KeyEntry
    <3>. DEFINE t == Put(user_caches, d, UsersCapacity)
    <3>2. Has(t, d.id) /\ Entry(t, d.id) = d
      <4>. HIDE DEF d
      <4>. QED  BY <2>4, <3>1, CapacityAssumption, PutProps DEF CacheInv
    <3>. HIDE DEF t, d
    <3>3. user_caches' = t
      BY <2>2 DEF t
    <3>. QED  BY <2>4, <3>2, <3>3 DEF Cached
  <2>7. Out(c, k) # <<>> => Entry(user_caches, u) = c
    <3>1. CASE Has(user_caches, u)
      BY <3>1 DEF UserCache
    <3>2. CASE ~Has(user_caches, u)
      <4>1. c.total = 0
        BY <3>2 DEF UserCache, NewUserCache
      <4>2. c.total < MessagesCapacity
        BY <4>1, CapacityAssumption
      <4>. QED  BY <4>2, EvictsNothing DEF Out
    <3>. QED  BY <3>1, <3>2
  <2>. HIDE DEF c, d
  <2>8. Cached(user_caches', u) = (Cached(user_caches, u) \cup {pushes'}) \ ToSet(evicted')
    BY <2>2, <2>4, <2>5, <2>6, Zenon
  <2>. QED  BY <2>2, <2>3, <2>7, <2>8, EvictionIsFair
<1>2. Spec => [][Fair]_vars
  BY Invariant, <1>1, PTL DEF Spec
<1>. QED  BY <1>2 DEF EvictsLeastRecentlyUsed
=============================================================================
