---------------------------- MODULE PayloadCache ----------------------------
(***************************************************************************)
(* The receive worker's cache of payloads that it has no key for, to be    *)
(* decrypted when a key rotation brings the key: an LRU cache of users,    *)
(* each with an LRU cache of keys, each with a queue of payloads. The      *)
(* number of users is limited, and the number of payloads of each user.    *)
(*                                                                         *)
(* A payload is the serial number of its push. An LRU cache (crate lru) is *)
(* the sequence of its entries, the most recently used first.              *)
(***************************************************************************)
EXTENDS Naturals, FiniteSets, Sequences, SequencesExt

CONSTANTS
  Users,
  Keys,
  UsersCapacity,      \* users_capacity (100 in the receive worker)
  MessagesCapacity,   \* messages_capacity (50)
  MaxPushes           \* bound: payloads that are pushed

ASSUME CapacityAssumption ==
  /\ UsersCapacity \in Nat \ {0} /\ MessagesCapacity \in Nat \ {0}
  /\ MaxPushes \in Nat

VARIABLES
  user_caches,   \* PayloadCache.user_caches
  pushed,        \* the payloads pushed so far for each user and key
  evicted,       \* the payloads that the last push returned
  pushes         \* counter behind the bound

vars == <<user_caches, pushed, evicted, pushes>>

-----------------------------------------------------------------------------
(* The LRU caches.                                                         *)

Has(lru, x) == \E i \in DOMAIN lru : lru[i].id = x
Index(lru, x) == CHOOSE i \in DOMAIN lru : lru[i].id = x
Entry(lru, x) == lru[Index(lru, x)]
Without(lru, x) == IF Has(lru, x) THEN RemoveAt(lru, Index(lru, x)) ELSE lru
Promote(lru, x) == IF Has(lru, x) THEN <<Entry(lru, x)>> \o Without(lru, x) ELSE lru

\* Insertion or update in front; an entry beyond the capacity falls out at the end.
Put(lru, entry, capacity) ==
  LET all == <<entry>> \o Without(lru, entry.id)
  IN SubSeq(all, 1, IF Len(all) > capacity THEN capacity ELSE Len(all))

-----------------------------------------------------------------------------
(* UserPayloadCache.                                                       *)

NewUserCache(u) == [id |-> u, total |-> 0, cache |-> <<>>]
UserCache(u) == IF Has(user_caches, u) THEN Entry(user_caches, u) ELSE NewUserCache(u)
Queue(keys, k) == IF Has(keys, k) THEN Entry(keys, k).msgs ELSE <<>>

\* Mutant of Eviction: the key that is pushed is not bumped first.
EvictionNoBump(c, k) ==
  IF c.total < MessagesCapacity THEN [keys |-> c.cache, out |-> <<>>]
  ELSE LET lru == Last(c.cache)
       IN IF lru.id = k
          THEN [keys |-> <<[lru EXCEPT !.msgs = Tail(@)]>> \o Front(c.cache),
                out |-> <<Head(lru.msgs)>>]
          ELSE [keys |-> Front(c.cache), out |-> lru.msgs]

\* Mutant of Eviction: the newest payload of the key is dropped.
EvictionNewest(c, k) ==
  IF c.total < MessagesCapacity THEN [keys |-> c.cache, out |-> <<>>]
  ELSE LET bumped == Promote(c.cache, k)
           lru == Last(bumped)
       IN IF lru.id = k
          THEN [keys |-> <<[lru EXCEPT !.msgs = Front(@)]>>, out |-> <<Last(lru.msgs)>>]
          ELSE [keys |-> Front(bumped), out |-> lru.msgs]

\* What push makes room with: the keys that are left and the payloads that are
\* evicted. The pushed key is bumped, so that it is the last one only if it is the
\* only one.
Eviction(c, k) ==
  IF c.total < MessagesCapacity THEN [keys |-> c.cache, out |-> <<>>]
  ELSE LET bumped == Promote(c.cache, k)
           lru == Last(bumped)
       IN IF lru.id = k
          THEN [keys |-> <<[lru EXCEPT !.msgs = Tail(@)]>>, out |-> <<Head(lru.msgs)>>]
          ELSE [keys |-> Front(bumped), out |-> lru.msgs]

\* Mutant of PushInto: the evicted payloads stay in the total.
PushIntoNoDecrement(c, k, m) ==
  LET keys == Eviction(c, k).keys
  IN [c EXCEPT
        !.cache = <<[id |-> k, msgs |-> Append(Queue(keys, k), m)]>> \o Without(keys, k),
        !.total = @ + 1]

\* UserPayloadCache::push
PushInto(c, k, m) ==
  LET e == Eviction(c, k)
  IN [c EXCEPT
        !.cache = <<[id |-> k, msgs |-> Append(Queue(e.keys, k), m)]>> \o Without(e.keys, k),
        !.total = @ - Len(e.out) + 1]

-----------------------------------------------------------------------------
(* PayloadCache.                                                           *)

TypeOK ==
  /\ user_caches \in Seq([id : Users, total : Nat,
                          cache : Seq([id : Keys, msgs : Seq(1 .. MaxPushes)])])
  /\ pushed \in [Users \X Keys -> Seq(1 .. MaxPushes)]
  /\ evicted \in Seq(1 .. MaxPushes)
  /\ pushes \in 0 .. MaxPushes

Init ==
  /\ user_caches = <<>>
  /\ pushed = [q \in Users \X Keys |-> <<>>]
  /\ evicted = <<>>
  /\ pushes = 0

\* push: a user without a cache gets one, at the expense of the least recently used.
Push(u, k) ==
  /\ pushes < MaxPushes
  /\ pushes' = pushes + 1
  /\ pushed' = [pushed EXCEPT ![<<u, k>>] = Append(@, pushes + 1)]
  /\ user_caches' = Put(user_caches, PushInto(UserCache(u), k, pushes + 1), UsersCapacity)
  /\ evicted' = Eviction(UserCache(u), k).out

\* pop: the user's whole cache is taken out, and the key's payloads from it.
Pop(u, k) ==
  /\ Has(user_caches, u)
  /\ user_caches' = Without(user_caches, u)
  /\ evicted' = <<>>
  /\ UNCHANGED <<pushed, pushes>>

Next == \E u \in Users, k \in Keys : Push(u, k) \/ Pop(u, k)

Spec == Init /\ [][Next]_vars

-----------------------------------------------------------------------------
(* Properties.                                                             *)

\* the payloads cached for a user, over all keys
Payloads(keys) == UNION {ToSet(keys[a].msgs) : a \in DOMAIN keys}

\* "`cache` never contains empty queues", "`total_messages` is the total number of
\* payloads stored in the cache", each of them once: what eviction and its panics rely
\* on. And the two limits hold, and no user or key is there twice.
WellFormed ==
  /\ TypeOK
  /\ Len(user_caches) <= UsersCapacity
  /\ \A i, j \in DOMAIN user_caches : user_caches[i].id = user_caches[j].id => i = j
  /\ \A i \in DOMAIN user_caches :
       LET c == user_caches[i] IN
         /\ \A a \in DOMAIN c.cache : c.cache[a].msgs # <<>>
         /\ \A a, b \in DOMAIN c.cache : c.cache[a].id = c.cache[b].id => a = b
         /\ \A a, b \in DOMAIN c.cache :
              \A m \in DOMAIN c.cache[a].msgs, n \in DOMAIN c.cache[b].msgs :
                c.cache[a].msgs[m] = c.cache[b].msgs[n] => a = b /\ m = n
         /\ c.total = Cardinality(Payloads(c.cache))
         /\ c.total <= MessagesCapacity

\* The payloads cached for a key are the last that were pushed for it, in their
\* order: eviction drops the oldest first, so that a key rotation that comes late
\* finds an uninterrupted end of the conversation.
NewestKept ==
  \A i \in DOMAIN user_caches :
    \A a \in DOMAIN user_caches[i].cache :
      IsSuffix(user_caches[i].cache[a].msgs,
               pushed[<<user_caches[i].id, user_caches[i].cache[a].id>>])

Cached(caches, u) == IF Has(caches, u) THEN Payloads(Entry(caches, u).cache) ELSE {}

\* "When going over the limit, the cache will try to evict the messages of the
\* least-recently used key, or the oldest message for the key": a push costs its
\* user nothing but what it returns, and that is the queue whose last push is the
\* oldest, the pushed key's own only by its oldest payload and if it is alone.
EvictsLeastRecentlyUsed ==
  [][\A u \in Users, k \in Keys :
       pushed'[<<u, k>>] # pushed[<<u, k>>] =>
         /\ Cached(user_caches', u) =
              (Cached(user_caches, u) \cup {pushes'}) \ ToSet(evicted')
         /\ evicted' # <<>> =>
              LET keys == Entry(user_caches, u).cache IN
                \/ /\ Len(keys) = 1 /\ keys[1].id = k
                   /\ evicted' = <<Head(keys[1].msgs)>>
                \/ \E a \in DOMAIN keys :
                     /\ keys[a].id # k
                     /\ evicted' = keys[a].msgs
                     /\ \A b \in DOMAIN keys :
                          keys[b].id # k => Last(keys[a].msgs) <= Last(keys[b].msgs)]_vars
=============================================================================
