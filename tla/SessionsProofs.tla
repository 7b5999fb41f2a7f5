--------------------------- MODULE SessionsProofs ---------------------------
(***************************************************************************)
(* Proofs about Sessions, for every set of users and tasks and any number  *)
(* of openings, messages and stops: type correctness, the two directions   *)
(* of a conversation never share a key, the keys of a session stay in the  *)
(* storage whatever crosses, repeats, stops or is cleaned up, and, in a    *)
(* calm run, the key a user encrypts with is one that the peer has or will *)
(* have, and messages are lost in two races, or with a batch, only.        *)
(***************************************************************************)
EXTENDS Sessions, TLAPS

\* A user sends with the first key of its own opening or with the second of its
\* peer's.
SendsWith(u, v, k) ==
  \/ k.by = u /\ k.to = v /\ k.side = "i"
  \/ k.by = v /\ k.to = u /\ k.side = "j"

\* What a client or the server may carry: a message is encrypted with a key of its
\* sender, and an opening names its own first key.
Carried ==
  {p \in Packet : /\ p.kind # "ok"
                  /\ p.from # p.to
                  /\ p.kind = "msg" => p.id # 0 /\ SendsWith(p.from, p.to, p.key)
                  /\ p.kind = "open" => /\ p.key.by = p.from
                                        /\ p.key.to = p.to
                                        /\ p.key.side = "i"}
Sent(u) == {p \in Carried : p.from = u}
Written(u) == {p \in Packet : p.kind = "ok"} \cup {p \in Carried : p.to = u}
Openings(u) == {p \in Carried : p.kind = "open" /\ p.to = u}
Messages(u) == {p \in Carried : p.kind = "msg" /\ p.to = u}

ChannelsSound ==
  \A u \in Users : /\ up[u] \in Seq(Sent(u))
                   /\ wire[u] \in Seq(Written(u))
                   /\ initial[u] \in Seq(Openings(u))
                   /\ mailbox[u] \in Seq(Messages(u))

\* A task that opens a session opens it with a peer, and has the number of its
\* opening once it has sent it.
TasksSound ==
  \A w \in Users \X Tasks :
    /\ task[w].st # "idle" => task[w].to # w[1]
    /\ task[w].st \in {"opening", "opened"} => task[w].n \in 1 .. MaxOpens

SendersSound ==
  \A q \in Pairs : sess[q] # Nobody => SendsWith(q[1], q[2], sess[q].send)

\* What a client has fetched and not handled comes first in the store it fetches from.
BatchSound == \A u \in Users : fetched[u] <= Len(Source(u))

IInv ==
  /\ TypeOK
  /\ ChannelsSound
  /\ BatchSound
  /\ TasksSound
  /\ SendersSound
  /\ SessionKeysKept

-----------------------------------------------------------------------------
(* Sequences.                                                              *)

\* A sequence over a set is one over a larger set.
LEMMA SeqMonotonic ==
  ASSUME NEW S, NEW T, S \subseteq T, NEW s \in Seq(S)
  PROVE  s \in Seq(T)
<1>1. Len(s) \in Nat /\ s \in [1 .. Len(s) -> S]
  OBVIOUS
<1>2. s \in [1 .. Len(s) -> T]
  BY <1>1
<1> QED BY <1>1, <1>2

\* The last element and the rest.
LEMMA FrontLast ==
  ASSUME NEW S, NEW s \in Seq(S), s # <<>>
  PROVE  Front(s) \in Seq(S) /\ Last(s) \in S
<1>1. /\ Len(s) \in Nat \ {0} /\ DOMAIN s = 1 .. Len(s)
      /\ \A i \in 1 .. Len(s) : s[i] \in S
  OBVIOUS
<1>2. Last(s) \in S
  BY <1>1 DEF Last
<1>3. Len(s) - 1 \in Nat /\ Len(s) - 1 <= Len(s)
  BY <1>1
<1>4. Front(s) \in Seq(S)
  BY <1>1, <1>3 DEF Front
<1> QED BY <1>2, <1>4

\* What is left of a sequence without its first n elements.
LEMMA WithoutBatch ==
  ASSUME NEW S, NEW s \in Seq(S), NEW n \in Nat, n <= Len(s)
  PROVE  /\ SubSeq(s, n + 1, Len(s)) \in Seq(S)
         /\ Len(SubSeq(s, n + 1, Len(s))) = Len(s) - n
         /\ \A i \in 1 .. Len(s) - n : SubSeq(s, n + 1, Len(s))[i] = s[n + i]
  OBVIOUS

\* What the sound channels hold are packets.
LEMMA ChannelFunctions ==
  ASSUME ChannelsSound',
         up' = [w \in Users |-> up'[w]], wire' = [w \in Users |-> wire'[w]],
         initial' = [w \in Users |-> initial'[w]], mailbox' = [w \in Users |-> mailbox'[w]]
  PROVE  /\ up' \in [Users -> Seq(Packet)] /\ wire' \in [Users -> Seq(Packet)]
         /\ initial' \in [Users -> Seq(Packet)] /\ mailbox' \in [Users -> Seq(Packet)]
<1>1. \A u \in Users : /\ up'[u] \in Seq(Packet)
                       /\ wire'[u] \in Seq(Packet)
                       /\ initial'[u] \in Seq(Packet)
                       /\ mailbox'[u] \in Seq(Packet)
  <2>1. ASSUME NEW u \in Users
        PROVE  /\ Sent(u) \subseteq Packet /\ Written(u) \subseteq Packet
               /\ Openings(u) \subseteq Packet /\ Messages(u) \subseteq Packet
    BY DEF Sent, Written, Openings, Messages, Carried
  <2> QED BY <2>1, SeqMonotonic DEF ChannelsSound
<1> QED BY <1>1

\* What is fetched stays in a store that does not shrink, in the same mode.
LEMMA BatchKept ==
  ASSUME IInv, UNCHANGED <<mode, fetched>>,
         \A w \in Users : Len(initial[w]) <= Len(initial'[w]) /\ Len(mailbox[w]) <= Len(mailbox'[w]),
         \A w \in Users : initial'[w] \in Seq(Packet) /\ mailbox'[w] \in Seq(Packet)
  PROVE  BatchSound'
<1> SUFFICES ASSUME NEW w \in Users PROVE fetched[w] <= Len(Source(w)')
  BY DEF BatchSound
<1>1. /\ fetched[w] \in Nat /\ fetched[w] <= Len(Source(w))
      /\ initial[w] \in Seq(Packet) /\ mailbox[w] \in Seq(Packet)
  BY DEF IInv, BatchSound, TypeOK
<1> QED BY <1>1 DEF Source

LEMMA BatchSame ==
  ASSUME IInv, UNCHANGED <<mode, fetched, initial, mailbox>>
  PROVE  BatchSound'
  BY DEF IInv, BatchSound, Source

-----------------------------------------------------------------------------
(* Sessions that are saved.                                                *)

\* A session is saved with both its keys.
LEMMA SaveInv ==
  ASSUME IInv, NEW u \in Users, NEW v \in Users, u # v,
         NEW i \in Keys, NEW j \in Keys, SendsWith(u, v, i),
         keys' = [keys EXCEPT ![<<u, v>>] = @ \cup {i, j}],
         sess' = [sess EXCEPT ![<<u, v>>] = [send |-> i, recv |-> j]]
  PROVE  /\ keys' \in [Pairs -> SUBSET Keys]
         /\ sess' \in [Pairs -> Session \cup {Nobody}]
         /\ SendersSound' /\ SessionKeysKept'
<1>1. <<u, v>> \in Pairs
  BY DEF Pairs
<1>2. keys \in [Pairs -> SUBSET Keys] /\ sess \in [Pairs -> Session \cup {Nobody}]
  BY DEF IInv, TypeOK
<1> DEFINE s == [send |-> i, recv |-> j]
<1>3. s \in Session /\ s.send = i /\ s.recv = j
  BY DEF Session
<1> HIDE DEF s
<1>4. /\ keys' \in [Pairs -> SUBSET Keys]
      /\ keys'[<<u, v>>] = keys[<<u, v>>] \cup {i, j}
      /\ \A q \in Pairs : q # <<u, v>> => keys'[q] = keys[q]
  BY <1>1, <1>2
<1>5. /\ sess' \in [Pairs -> Session \cup {Nobody}]
      /\ sess'[<<u, v>>] = s
      /\ \A q \in Pairs : q # <<u, v>> => sess'[q] = sess[q]
  BY <1>1, <1>2, <1>3 DEF s
<1>6. SendersSound'
  BY <1>3, <1>5 DEF SendersSound, IInv
<1>7. SessionKeysKept'
  BY <1>3, <1>4, <1>5 DEF SessionKeysKept, IInv
<1> QED BY <1>4, <1>5, <1>6, <1>7

\* A key of an opening that was started.
LEMMA KeyType ==
  ASSUME NEW n \in 1 .. MaxOpens, NEW u \in Users, NEW v \in Users, NEW side \in {"i", "j"}
  PROVE  Key(n, u, v, side) \in Keys
  BY DEF Key, Keys

\* Both sides of an opening save its keys as their session.
LEMMA AcceptInv ==
  ASSUME IInv, NEW u \in Users, NEW p \in Openings(u), AcceptSession(u, p)
  PROVE  /\ keys' \in [Pairs -> SUBSET Keys]
         /\ sess' \in [Pairs -> Session \cup {Nobody}]
         /\ SendersSound' /\ SessionKeysKept'
<1>1. /\ p \in Packet /\ p.kind = "open" /\ p.to = u /\ p.from # u /\ p.from \in Users
      /\ p.key \in Keys /\ p.key.by = p.from /\ p.key.to = u
  BY DEF Openings, Carried, Packet
<1> DEFINE v == p.from
           j == [p.key EXCEPT !.side = "j"]
<1>2. j \in Keys /\ j.by = v /\ j.to = u /\ j.side = "j"
  BY <1>1 DEF Keys
<1>3. SendsWith(u, v, j)
  BY <1>2 DEF SendsWith
<1>4. /\ keys' = [keys EXCEPT ![<<u, v>>] = @ \cup {j, p.key}]
      /\ sess' = [sess EXCEPT ![<<u, v>>] = [send |-> j, recv |-> p.key]]
  <2>1. {p.key, j} = {j, p.key}
    OBVIOUS
  <2> QED BY <2>1 DEF AcceptSession
<1> HIDE DEF v, j
<1>5. v \in Users /\ u # v
  BY <1>1 DEF v
<1> QED BY <1>1, <1>2, <1>3, <1>4, <1>5, SaveInv

LEMMA UpdateInv ==
  ASSUME IInv, NEW u \in Users, NEW t \in Tasks, UpdateSession(u, t)
  PROVE  IInv'
<1> DEFINE v == task[<<u, t>>].to
           n == task[<<u, t>>].n
           i == Key(n, u, v, "i")
           j == Key(n, u, v, "j")
<1>1. /\ task[<<u, t>>].st = "opened"
      /\ keys' = [keys EXCEPT ![<<u, v>>] = @ \cup {i, j}]
      /\ sess' = [sess EXCEPT ![<<u, v>>] = [send |-> i, recv |-> j]]
      /\ task' = [task EXCEPT ![<<u, t>>] = Idle(u)]
      /\ UNCHANGED <<mode, seen, fetched, serverVars, lost, interrupted, counters>>
  BY DEF UpdateSession
<1>2. task \in [Users \X Tasks -> Task] /\ <<u, t>> \in Users \X Tasks
  BY DEF IInv, TypeOK
<1>3. v \in Users /\ v # u /\ n \in 1 .. MaxOpens
  BY <1>1, <1>2 DEF IInv, TasksSound, Task
<1>4. i \in Keys /\ j \in Keys /\ SendsWith(u, v, i)
  BY <1>3, KeyType DEF SendsWith, Key
<1> HIDE DEF i, j, v, n
<1>5. /\ keys' \in [Pairs -> SUBSET Keys]
      /\ sess' \in [Pairs -> Session \cup {Nobody}]
      /\ SendersSound' /\ SessionKeysKept'
  BY <1>1, <1>3, <1>4, SaveInv
<1>6. Idle(u) \in Task /\ Idle(u).st = "idle"
  BY SessionsAssumption DEF Idle, Task
<1>7. /\ task' \in [Users \X Tasks -> Task]
      /\ \A w \in Users \X Tasks : task'[w] = task[w] \/ task'[w] = Idle(u)
  BY <1>1, <1>2, <1>6
<1>8. TypeOK'
  BY <1>1, <1>5, <1>7 DEF IInv, TypeOK, serverVars, counters
<1>9. ChannelsSound'
  BY <1>1 DEF IInv, ChannelsSound, serverVars
<1>10. TasksSound'
  BY <1>6, <1>7 DEF IInv, TasksSound
<1>11. BatchSound'
  BY <1>1, BatchSame DEF serverVars
<1> QED BY <1>5, <1>8, <1>9, <1>10, <1>11 DEF IInv

-----------------------------------------------------------------------------
(* The other steps of the client's tasks.                                  *)

\* The initial state: no sessions, nothing in the channels.
LEMMA InitInv == Init => IInv
<1> SUFFICES ASSUME Init PROVE IInv
  OBVIOUS
<1> USE DEF Init
<1>1. \A u \in Users : Idle(u) \in Task /\ Idle(u).st = "idle"
  BY SessionsAssumption DEF Idle, Task
<1>2. \A w \in Users \X Tasks : w[1] \in Users
  OBVIOUS
<1>3. task \in [Users \X Tasks -> Task]
  BY <1>1, <1>2
<1>4. TypeOK
  <2>1. /\ 0 \in 0 .. MaxOpens /\ 0 \in 0 .. MaxMsgs /\ 0 \in 0 .. MaxStops
    BY SessionsAssumption
  <2>2. /\ up \in [Users -> Seq(Packet)] /\ wire \in [Users -> Seq(Packet)]
        /\ initial \in [Users -> Seq(Packet)] /\ mailbox \in [Users -> Seq(Packet)]
    OBVIOUS
  <2>3. fetched \in [Users -> 0 .. BatchSize]
    BY SessionsAssumption
  <2> QED BY <1>3, <2>1, <2>2, <2>3 DEF TypeOK
<1>5. ChannelsSound
  BY DEF ChannelsSound
<1>6. TasksSound
  BY <1>1, <1>2 DEF TasksSound
<1>7. SendersSound /\ SessionKeysKept
  BY DEF SendersSound, SessionKeysKept
<1>8. BatchSound
  BY DEF BatchSound, Source
<1> QED BY <1>4, <1>5, <1>6, <1>7, <1>8 DEF IInv

\* The steps that change no session.
LEMMA KeptInv ==
  ASSUME IInv, UNCHANGED <<sess, keys>>
  PROVE  SendersSound' /\ SessionKeysKept'
  BY DEF IInv, SendersSound, SessionKeysKept

LEMMA SendInv ==
  ASSUME IInv, NEW u \in Users, NEW t \in Tasks, NEW v \in Peers(u), Send(u, t, v)
  PROVE  IInv'
<1> DEFINE p == [kind |-> "msg", from |-> u, to |-> v, key |-> sess[<<u, v>>].send,
                 id |-> msgs + 1]
<1>1. /\ sess[<<u, v>>] # Nobody /\ msgs < MaxMsgs /\ msgs' = msgs + 1
      /\ up' = [up EXCEPT ![u] = Append(@, p)]
      /\ UNCHANGED <<clientVars, wire, initial, mailbox, lost, opens, stops, interrupted>>
  BY DEF Send
<1>2. v \in Users /\ u # v /\ <<u, v>> \in Pairs
  BY DEF Peers, Pairs
<1>3. sess[<<u, v>>].send \in Keys
  BY <1>1, <1>2 DEF IInv, TypeOK, Session
<1>4. msgs + 1 \in 0 .. MaxMsgs /\ msgs + 1 # 0
  BY <1>1, SessionsAssumption DEF IInv, TypeOK
<1>5. p \in Sent(u)
  <2>1. SendsWith(u, v, sess[<<u, v>>].send)
    BY <1>1, <1>2 DEF IInv, SendersSound
  <2>2. p.kind = "msg" /\ p.from = u /\ p.to = v /\ p.key = sess[<<u, v>>].send /\ p.id = msgs + 1
        /\ p \in Packet
    BY <1>2, <1>3, <1>4 DEF Packet
  <2> HIDE DEF p
  <2> QED BY <1>2, <1>4, <2>1, <2>2 DEF Sent, Carried
<1> HIDE DEF p
<1>6. up \in [Users -> Seq(Packet)] /\ up[u] \in Seq(Sent(u)) /\ p \in Packet
  BY <1>5 DEF IInv, TypeOK, ChannelsSound, Sent, Carried
<1>7. /\ up' \in [Users -> Seq(Packet)]
      /\ up'[u] \in Seq(Sent(u))
      /\ \A w \in Users : w # u => up'[w] = up[w]
  BY <1>1, <1>5, <1>6
<1>8. TypeOK'
  BY <1>1, <1>4, <1>7 DEF IInv, TypeOK, clientVars
<1>9. ChannelsSound'
  BY <1>1, <1>7 DEF IInv, ChannelsSound, Sent, Written, Openings, Messages
<1>10. TasksSound'
  BY <1>1 DEF IInv, TasksSound, clientVars
<1>11. BatchSound'
  BY <1>1, BatchSame DEF clientVars
<1> QED BY <1>1, <1>8, <1>9, <1>10, <1>11, KeptInv DEF IInv, clientVars

LEMMA RequestInv ==
  ASSUME IInv, NEW u \in Users, NEW t \in Tasks, NEW v \in Peers(u), RequestBundle(u, t, v)
  PROVE  IInv'
<1> DEFINE d == [st |-> "bundle", to |-> v, n |-> 0]
<1>1. /\ task' = [task EXCEPT ![<<u, t>>] = d]
      /\ UNCHANGED <<mode, sess, keys, seen, fetched, serverVars, lost, interrupted, counters>>
  BY DEF RequestBundle
<1>2. d \in Task /\ d.st = "bundle" /\ d.to = v /\ v # u
  BY SessionsAssumption DEF Task, Peers
<1> HIDE DEF d
<1>3. /\ task' \in [Users \X Tasks -> Task]
      /\ task'[<<u, t>>] = d
      /\ \A w \in Users \X Tasks : w # <<u, t>> => task'[w] = task[w]
  BY <1>1, <1>2 DEF IInv, TypeOK
<1>4. TypeOK'
  BY <1>1, <1>3 DEF IInv, TypeOK, serverVars, counters
<1>5. ChannelsSound'
  BY <1>1 DEF IInv, ChannelsSound, serverVars
<1>6. TasksSound'
  BY <1>2, <1>3 DEF IInv, TasksSound
<1>7. BatchSound'
  BY <1>1, BatchSame DEF serverVars
<1> QED BY <1>1, <1>4, <1>5, <1>6, <1>7, KeptInv DEF IInv

LEMMA OpenInv ==
  ASSUME IInv, NEW u \in Users, NEW t \in Tasks, OpenSession(u, t)
  PROVE  IInv'
<1> DEFINE v == task[<<u, t>>].to
           d == [st |-> "opening", to |-> v, n |-> opens + 1]
           k == Key(opens + 1, u, v, "i")
           p == [kind |-> "open", from |-> u, to |-> v, key |-> k, id |-> 0]
<1>1. /\ task[<<u, t>>].st = "bundle" /\ opens < MaxOpens /\ opens' = opens + 1
      /\ task' = [task EXCEPT ![<<u, t>>] = d]
      /\ up' = [up EXCEPT ![u] = Append(@, p)]
      /\ UNCHANGED <<mode, sess, keys, seen, fetched, wire, initial, mailbox, lost, msgs,
                     stops, interrupted>>
  BY DEF OpenSession
<1>2. v \in Users /\ v # u
  BY <1>1 DEF IInv, TypeOK, TasksSound, Task
<1>3. opens + 1 \in 1 .. MaxOpens /\ opens + 1 \in 0 .. MaxOpens /\ 0 \in 0 .. MaxMsgs
  BY <1>1, SessionsAssumption DEF IInv, TypeOK
<1>4. k \in Keys /\ k.by = u /\ k.to = v /\ k.side = "i"
  BY <1>2, <1>3, KeyType DEF Key
<1>5. d \in Task /\ d.st = "opening" /\ d.to = v /\ d.n = opens + 1
  BY <1>2, <1>3 DEF Task
<1> HIDE DEF k
<1>6. p \in Packet /\ p \in Sent(u)
  BY <1>2, <1>3, <1>4 DEF Sent, Carried, Packet
<1> HIDE DEF d, p
<1>7. /\ up' \in [Users -> Seq(Packet)]
      /\ up'[u] \in Seq(Sent(u))
      /\ \A w \in Users : w # u => up'[w] = up[w]
  BY <1>1, <1>6 DEF IInv, TypeOK, ChannelsSound
<1>8. /\ task' \in [Users \X Tasks -> Task]
      /\ task'[<<u, t>>] = d
      /\ \A w \in Users \X Tasks : w # <<u, t>> => task'[w] = task[w]
  BY <1>1, <1>5 DEF IInv, TypeOK
<1>9. TypeOK'
  BY <1>1, <1>3, <1>7, <1>8 DEF IInv, TypeOK
<1>10. ChannelsSound'
  BY <1>1, <1>7 DEF IInv, ChannelsSound
<1>11. TasksSound'
  BY <1>2, <1>3, <1>5, <1>8 DEF IInv, TasksSound
<1>12. BatchSound'
  BY <1>1, BatchSame
<1> QED BY <1>1, <1>9, <1>10, <1>11, <1>12, KeptInv DEF IInv

-----------------------------------------------------------------------------
(* The server and the receive worker.                                      *)

\* The server puts a packet in the channel of its kind, or in the connection.
LEMMA ServerInv == ASSUME IInv, NEW u \in Users, ServerHandle(u) PROVE IInv'
<1> DEFINE p == Head(up[u])
           ok == [p EXCEPT !.kind = "ok"]
<1>1. /\ up[u] # <<>> /\ up' = [up EXCEPT ![u] = Tail(@)]
      /\ wire' = [w \in Users |->
                    IF w = p.to /\ mode[w] = "up" THEN Append(wire[w], p)
                    ELSE IF w = u /\ p.kind = "open" THEN Append(wire[u], ok) ELSE wire[w]]
      /\ initial' = Stored(initial, "open", p, p.to)
      /\ mailbox' = Stored(mailbox, "msg", p, p.to)
      /\ UNCHANGED <<clientVars, lost, interrupted, counters>>
  BY DEF ServerHandle
<1>2. up[u] \in Seq(Sent(u))
  BY DEF IInv, ChannelsSound
<1>3. p \in Sent(u) /\ Tail(up[u]) \in Seq(Sent(u))
  BY <1>1, <1>2
<1>4. /\ p \in Carried /\ p \in Packet /\ p.to \in Users
  BY <1>3 DEF Sent, Carried, Packet
<1>5. ok \in Written(u)
  BY <1>4 DEF Written, Packet
<1>6. /\ p \in Written(p.to)
      /\ p.kind = "open" => p \in Openings(p.to)
      /\ p.kind = "msg" => p \in Messages(p.to)
  BY <1>4 DEF Written, Openings, Messages
<1>7. /\ up \in [Users -> Seq(Packet)] /\ initial \in [Users -> Seq(Packet)]
      /\ mailbox \in [Users -> Seq(Packet)]
  BY DEF IInv, TypeOK
<1> HIDE DEF ok
<1>8. \A w \in Users : up'[w] \in Seq(Sent(w))
  BY <1>1, <1>3, <1>7 DEF IInv, ChannelsSound
<1>9. \A w \in Users : wire'[w] \in Seq(Written(w))
  <2> SUFFICES ASSUME NEW w \in Users PROVE wire'[w] \in Seq(Written(w))
    OBVIOUS
  <2>1. wire[w] \in Seq(Written(w))
    BY DEF IInv, ChannelsSound
  <2>2. wire'[w] = IF w = p.to /\ mode[w] = "up" THEN Append(wire[w], p)
                   ELSE IF w = u /\ p.kind = "open" THEN Append(wire[u], ok) ELSE wire[w]
    BY <1>1
  <2> HIDE DEF p
  <2> QED BY <1>5, <1>6, <2>1, <2>2
<1>10. \A w \in Users : initial'[w] \in Seq(Openings(w))
  <2> SUFFICES ASSUME NEW w \in Users PROVE initial'[w] \in Seq(Openings(w))
    OBVIOUS
  <2>1. initial[w] \in Seq(Openings(w))
    BY DEF IInv, ChannelsSound
  <2>2. initial'[w] = initial[w] \/ (w = p.to /\ p.kind = "open"
                                      /\ initial'[w] = Append(initial[w], p))
    BY <1>1, <1>4, <1>7 DEF Stored
  <2> HIDE DEF p
  <2> QED BY <1>6, <2>1, <2>2
<1>11. \A w \in Users : mailbox'[w] \in Seq(Messages(w))
  <2> SUFFICES ASSUME NEW w \in Users PROVE mailbox'[w] \in Seq(Messages(w))
    OBVIOUS
  <2>1. mailbox[w] \in Seq(Messages(w))
    BY DEF IInv, ChannelsSound
  <2>2. mailbox'[w] = mailbox[w] \/ (w = p.to /\ p.kind = "msg"
                                      /\ mailbox'[w] = Append(mailbox[w], p))
    BY <1>1, <1>4, <1>7 DEF Stored
  <2> HIDE DEF p
  <2>3. CASE mailbox'[w] = mailbox[w]
    BY <2>1, <2>3
  <2>4. CASE w = p.to /\ p.kind = "msg" /\ mailbox'[w] = Append(mailbox[w], p)
    <3>1. p \in Messages(w)
      BY <1>6, <2>4
    <3> QED BY <2>1, <2>4, <3>1
  <2> QED BY <2>2, <2>3, <2>4
<1>12. ChannelsSound'
  BY <1>8, <1>9, <1>10, <1>11
  DEF ChannelsSound, Sent, Written, Openings, Messages, Carried, Packet
<1>13. /\ up' = [w \in Users |-> up'[w]] /\ wire' = [w \in Users |-> wire'[w]]
       /\ initial' = [w \in Users |-> initial'[w]]
       /\ mailbox' = [w \in Users |-> mailbox'[w]]
  BY <1>1, <1>7 DEF Stored
<1>14. TypeOK'
  BY <1>1, <1>12, <1>13, ChannelFunctions DEF IInv, TypeOK, clientVars, counters
<1>15. TasksSound'
  BY <1>1 DEF IInv, TasksSound, clientVars
<1>16. BatchSound'
  <2>1. ASSUME NEW w \in Users
        PROVE  /\ initial'[w] \in {initial[w], Append(initial[w], p)}
               /\ mailbox'[w] \in {mailbox[w], Append(mailbox[w], p)}
    BY <1>1, <1>4, <1>7 DEF Stored
  <2> HIDE DEF p
  <2>2. ASSUME NEW w \in Users
        PROVE  Len(initial[w]) <= Len(initial'[w]) /\ Len(mailbox[w]) <= Len(mailbox'[w])
    <3>1. initial[w] \in Seq(Packet) /\ mailbox[w] \in Seq(Packet)
      BY <1>7
    <3>2. /\ Len(Append(initial[w], p)) = Len(initial[w]) + 1
          /\ Len(Append(mailbox[w], p)) = Len(mailbox[w]) + 1
      BY <1>4, <3>1
    <3> QED BY <2>1, <3>1, <3>2
  <2>3. \A w \in Users : initial'[w] \in Seq(Packet) /\ mailbox'[w] \in Seq(Packet)
    BY <1>14 DEF TypeOK
  <2> QED BY <1>1, <2>2, <2>3, BatchKept DEF clientVars
<1> QED BY <1>1, <1>12, <1>14, <1>15, <1>16, KeptInv DEF IInv, clientVars

\* A packet is taken from the connection.
LEMMA ReceivesChannels ==
  ASSUME IInv, NEW u \in Users, NEW kind, Receives(u, kind),
         UNCHANGED <<up, initial, mailbox>>
  PROVE  /\ Head(wire[u]) \in Written(u)
         /\ ChannelsSound'
         /\ wire' \in [Users -> Seq(Packet)]
<1>1. /\ wire[u] # <<>> /\ wire' = [wire EXCEPT ![u] = Tail(@)]
      /\ wire \in [Users -> Seq(Packet)] /\ wire[u] \in Seq(Written(u))
  BY DEF Receives, IInv, TypeOK, ChannelsSound
<1>2. Head(wire[u]) \in Written(u) /\ Tail(wire[u]) \in Seq(Written(u))
  BY <1>1
<1>3. \A w \in Users : wire'[w] \in Seq(Written(w))
  BY <1>1, <1>2 DEF IInv, ChannelsSound
<1>4. ChannelsSound'
  BY <1>3 DEF IInv, ChannelsSound, Sent, Written, Openings, Messages, Carried, Packet
<1>5. wire' \in [Users -> Seq(Packet)]
  BY <1>1
<1> QED BY <1>2, <1>4, <1>5

LEMMA ReceiveOkInv == ASSUME IInv, NEW u \in Users, ReceiveOk(u) PROVE IInv'
<1>1. /\ Receives(u, "ok")
      /\ task' = [w \in Users \X Tasks |->
                    IF w[1] = u /\ task[w].st = "opening" /\ task[w].n = Head(wire[u]).key.n
                    THEN [task[w] EXCEPT !.st = "opened"] ELSE task[w]]
      /\ UNCHANGED <<mode, sess, keys, seen, fetched, up, initial, mailbox, lost, interrupted,
                     counters>>
  BY DEF ReceiveOk
<1>2. ChannelsSound' /\ wire' \in [Users -> Seq(Packet)]
  BY <1>1, ReceivesChannels
<1>3. \A w \in Users \X Tasks :
        \/ task'[w] = task[w]
        \/ task[w].st = "opening" /\ task'[w] = [task[w] EXCEPT !.st = "opened"]
  BY <1>1
<1>4. \A w \in Users \X Tasks :
        /\ task[w] \in Task /\ task'[w] \in Task
        /\ task'[w].to = task[w].to /\ task'[w].n = task[w].n
        /\ \/ task'[w].st = task[w].st
           \/ task[w].st = "opening" /\ task'[w].st = "opened"
  <2> SUFFICES ASSUME NEW w \in Users \X Tasks
               PROVE  /\ task[w] \in Task /\ task'[w] \in Task
                      /\ task'[w].to = task[w].to /\ task'[w].n = task[w].n
                      /\ \/ task'[w].st = task[w].st
                         \/ task[w].st = "opening" /\ task'[w].st = "opened"
    OBVIOUS
  <2>1. task[w] \in Task
    BY DEF IInv, TypeOK
  <2>2. CASE task'[w] = task[w]
    BY <2>1, <2>2
  <2>3. CASE task[w].st = "opening" /\ task'[w] = [task[w] EXCEPT !.st = "opened"]
    BY <2>1, <2>3 DEF Task
  <2> QED BY <1>3, <2>2, <2>3
<1>5. task' \in [Users \X Tasks -> Task]
  BY <1>1, <1>4
<1>6. TypeOK'
  BY <1>1, <1>2, <1>5 DEF IInv, TypeOK, counters
<1>7. TasksSound'
  BY <1>4 DEF IInv, TasksSound
<1>8. BatchSound'
  BY <1>1, BatchSame
<1> QED BY <1>1, <1>2, <1>6, <1>7, <1>8, KeptInv DEF IInv

LEMMA ReceiveOpenInv == ASSUME IInv, NEW u \in Users, ReceiveOpen(u) PROVE IInv'
<1> DEFINE p == Head(wire[u])
<1>1. /\ Receives(u, "open") /\ p.kind = "open" /\ AcceptSession(u, p)
      /\ UNCHANGED <<mode, task, seen, fetched, up, initial, mailbox, lost, interrupted,
                     counters>>
  BY DEF ReceiveOpen, Receives
<1>2. p \in Written(u) /\ ChannelsSound' /\ wire' \in [Users -> Seq(Packet)]
  BY <1>1, ReceivesChannels
<1> HIDE DEF p
<1>3. p \in Openings(u)
  BY <1>1, <1>2 DEF Written, Openings
<1>4. /\ keys' \in [Pairs -> SUBSET Keys]
      /\ sess' \in [Pairs -> Session \cup {Nobody}]
      /\ SendersSound' /\ SessionKeysKept'
  BY <1>1, <1>3, AcceptInv
<1>5. TypeOK'
  BY <1>1, <1>2, <1>4 DEF IInv, TypeOK, counters
<1>6. TasksSound'
  BY <1>1 DEF IInv, TasksSound
<1>7. BatchSound'
  BY <1>1, BatchSame
<1> QED BY <1>2, <1>4, <1>5, <1>6, <1>7 DEF IInv

LEMMA ReceiveMsgInv == ASSUME IInv, NEW u \in Users, ReceiveMsg(u) PROVE IInv'
<1> DEFINE p == Head(wire[u])
<1>1. /\ Receives(u, "msg") /\ p.kind = "msg" /\ lost' \in {lost, lost \cup {p.id}}
      /\ UNCHANGED <<clientVars, up, initial, mailbox, counters, interrupted>>
  BY DEF ReceiveMsg, Receives
<1>2. p \in Written(u) /\ ChannelsSound' /\ wire' \in [Users -> Seq(Packet)]
  BY <1>1, ReceivesChannels
<1> HIDE DEF p
<1>3. p.id \in 1 .. MaxMsgs
  BY <1>1, <1>2, SessionsAssumption DEF Written, Carried, Packet
<1>4. TypeOK'
  BY <1>1, <1>2, <1>3 DEF IInv, TypeOK, clientVars, counters
<1>5. TasksSound'
  BY <1>1 DEF IInv, TasksSound, clientVars
<1>6. BatchSound'
  BY <1>1, BatchSame DEF clientVars
<1> QED BY <1>1, <1>2, <1>4, <1>5, <1>6, KeptInv DEF IInv, clientVars

-----------------------------------------------------------------------------
(* Stopping, starting and synchronizing a client.                          *)

LEMMA StopInv == ASSUME IInv, NEW u \in Users, Stop(u) PROVE IInv'
<1>1. /\ stops < MaxStops /\ stops' = stops + 1
      /\ mode' = [mode EXCEPT ![u] = "down"]
      /\ task' = [w \in Users \X Tasks |-> IF w[1] = u THEN Idle(u) ELSE task[w]]
      /\ seen' = [seen EXCEPT ![u] = {}]
      /\ up' = [up EXCEPT ![u] = <<>>]
      /\ interrupted' \in BOOLEAN
      /\ fetched' = [fetched EXCEPT ![u] = 0]
      /\ initial' = IF mode[u] = "initial" THEN Unfetched(initial, u) ELSE initial
      /\ mailbox' = IF mode[u] = "messages" THEN Unfetched(mailbox, u) ELSE mailbox
      /\ lost' = IF mode[u] = "messages"
                 THEN lost \cup {mailbox[u][i].id : i \in 1 .. fetched[u]} ELSE lost
      /\ UNCHANGED <<sess, keys, wire, opens, msgs>>
  BY DEF Stop, IInv, TypeOK
<1>2. Idle(u) \in Task /\ Idle(u).st = "idle"
  BY SessionsAssumption DEF Idle, Task
<1>3. /\ task' \in [Users \X Tasks -> Task]
      /\ \A w \in Users \X Tasks : task'[w] = task[w] \/ task'[w] = Idle(u)
  BY <1>1, <1>2 DEF IInv, TypeOK
<1>4. up' \in [Users -> Seq(Packet)] /\ \A w \in Users : up'[w] = up[w] \/ up'[w] = <<>>
  BY <1>1 DEF IInv, TypeOK
<1>5. stops' \in 0 .. MaxStops
  BY <1>1, SessionsAssumption DEF IInv, TypeOK
<1>10. /\ fetched[u] \in Nat
       /\ mode[u] = "initial" => fetched[u] <= Len(initial[u])
       /\ mode[u] = "messages" => fetched[u] <= Len(mailbox[u])
  BY DEF IInv, TypeOK, BatchSound, Source
<1>11. /\ initial \in [Users -> Seq(Packet)] /\ mailbox \in [Users -> Seq(Packet)]
       /\ initial[u] \in Seq(Openings(u)) /\ mailbox[u] \in Seq(Messages(u))
  BY DEF IInv, TypeOK, ChannelsSound
<1>12. /\ \A w \in Users : initial'[w] \in Seq(Openings(w))
       /\ initial' = [w \in Users |-> initial'[w]]
  <2>1. mode[u] = "initial" =>
          SubSeq(initial[u], fetched[u] + 1, Len(initial[u])) \in Seq(Openings(u))
    BY <1>10, <1>11, WithoutBatch
  <2> QED BY <1>1, <1>11, <2>1 DEF IInv, ChannelsSound, Unfetched
<1>13. /\ \A w \in Users : mailbox'[w] \in Seq(Messages(w))
       /\ mailbox' = [w \in Users |-> mailbox'[w]]
  <2>1. mode[u] = "messages" =>
          SubSeq(mailbox[u], fetched[u] + 1, Len(mailbox[u])) \in Seq(Messages(u))
    BY <1>10, <1>11, WithoutBatch
  <2> QED BY <1>1, <1>11, <2>1 DEF IInv, ChannelsSound, Unfetched
<1>14. lost' \subseteq 1 .. MaxMsgs
  <2>1. lost \subseteq 1 .. MaxMsgs
    BY DEF IInv, TypeOK
  <2>2. ASSUME mode[u] = "messages", NEW i \in 1 .. fetched[u]
        PROVE  mailbox[u][i].id \in 1 .. MaxMsgs
    <3>1. i \in 1 .. Len(mailbox[u])
      BY <1>10, <1>11, <2>2
    <3>2. mailbox[u][i] \in Messages(u)
      BY <1>11, <3>1
    <3> QED BY <3>2, SessionsAssumption DEF Messages, Carried, Packet
  <2> QED BY <1>1, <2>1, <2>2
<1>15. fetched' \in [Users -> 0 .. BatchSize]
  BY <1>1, SessionsAssumption DEF IInv, TypeOK
<1>7. \A w \in Users : up'[w] \in Seq(Sent(w))
  BY <1>4 DEF IInv, ChannelsSound
<1>8. ChannelsSound'
  BY <1>1, <1>7, <1>12, <1>13
  DEF IInv, ChannelsSound, Sent, Written, Openings, Messages, Carried, Packet
<1>16. up' = [w \in Users |-> up'[w]] /\ wire' = [w \in Users |-> wire'[w]]
  BY <1>1 DEF IInv, TypeOK
<1>6. TypeOK'
  <2>1. /\ up' \in [Users -> Seq(Packet)] /\ wire' \in [Users -> Seq(Packet)]
        /\ initial' \in [Users -> Seq(Packet)] /\ mailbox' \in [Users -> Seq(Packet)]
    BY <1>8, <1>12, <1>13, <1>16, ChannelFunctions
  <2> QED BY <1>1, <1>3, <1>5, <1>14, <1>15, <2>1 DEF IInv, TypeOK
<1>17. BatchSound'
  <2> SUFFICES ASSUME NEW w \in Users PROVE fetched'[w] <= Len(Source(w)')
    BY DEF BatchSound
  <2>1. CASE w = u
    <3>1. mode'[u] = "down" /\ fetched'[u] = 0
      BY <1>1 DEF IInv, TypeOK
    <3> QED BY <2>1, <3>1 DEF Source
  <2>2. CASE w # u
    <3>1. mode'[w] = mode[w] /\ fetched'[w] = fetched[w]
      BY <1>1, <2>2 DEF IInv, TypeOK
    <3>2. initial'[w] = initial[w] /\ mailbox'[w] = mailbox[w]
      BY <1>1, <1>11, <2>2 DEF Unfetched
    <3> QED BY <3>1, <3>2 DEF Source, IInv, BatchSound
  <2> QED BY <2>1, <2>2
<1>9. TasksSound'
  BY <1>2, <1>3 DEF IInv, TasksSound
<1> QED BY <1>1, <1>6, <1>8, <1>9, <1>17, KeptInv DEF IInv

LEMMA TakeBackInv == ASSUME IInv, NEW u \in Users, TakeBack(u) PROVE IInv'
<1> DEFINE p == Last(wire[u])
<1>1. /\ mode[u] = "down" /\ wire[u] # <<>> /\ wire' = [wire EXCEPT ![u] = Front(@)]
      /\ initial' = IF p.kind = "open" THEN [initial EXCEPT ![u] = <<p>> \o @] ELSE initial
      /\ mailbox' = IF p.kind = "msg" THEN [mailbox EXCEPT ![u] = <<p>> \o @] ELSE mailbox
      /\ UNCHANGED <<clientVars, up, lost, interrupted, counters>>
  BY DEF TakeBack
<1>2. /\ wire \in [Users -> Seq(Packet)] /\ initial \in [Users -> Seq(Packet)]
      /\ mailbox \in [Users -> Seq(Packet)] /\ up \in [Users -> Seq(Packet)]
      /\ wire[u] \in Seq(Written(u))
      /\ initial[u] \in Seq(Openings(u)) /\ mailbox[u] \in Seq(Messages(u))
  BY DEF IInv, TypeOK, ChannelsSound
<1>3. p \in Written(u) /\ Front(wire[u]) \in Seq(Written(u))
  BY <1>1, <1>2, FrontLast
<1> HIDE DEF p
<1>4. (p.kind = "open" => p \in Openings(u)) /\ (p.kind = "msg" => p \in Messages(u))
  BY <1>3 DEF Written, Openings, Messages
<1>5. \A w \in Users : wire'[w] \in Seq(Written(w))
  BY <1>1, <1>2, <1>3 DEF IInv, ChannelsSound
<1>6. \A w \in Users : initial'[w] \in Seq(Openings(w))
  <2>1. p.kind = "open" => <<p>> \o initial[u] \in Seq(Openings(u))
    BY <1>2, <1>4
  <2> QED BY <1>1, <1>2, <2>1 DEF IInv, ChannelsSound
<1>7. \A w \in Users : mailbox'[w] \in Seq(Messages(w))
  <2>1. p.kind = "msg" => <<p>> \o mailbox[u] \in Seq(Messages(u))
    BY <1>2, <1>4
  <2> QED BY <1>1, <1>2, <2>1 DEF IInv, ChannelsSound
<1>8. ChannelsSound'
  BY <1>1, <1>5, <1>6, <1>7
  DEF IInv, ChannelsSound, Sent, Written, Openings, Messages, Carried, Packet
<1>9. /\ up' = [w \in Users |-> up'[w]] /\ wire' = [w \in Users |-> wire'[w]]
      /\ initial' = [w \in Users |-> initial'[w]]
      /\ mailbox' = [w \in Users |-> mailbox'[w]]
  BY <1>1, <1>2
<1>10. TypeOK'
  BY <1>1, <1>8, <1>9, ChannelFunctions DEF IInv, TypeOK, clientVars, counters
<1>11. TasksSound'
  BY <1>1 DEF IInv, TasksSound, clientVars
<1>12. BatchSound'
  <2> SUFFICES ASSUME NEW w \in Users PROVE fetched'[w] <= Len(Source(w)')
    BY DEF BatchSound
  <2>1. fetched[w] <= Len(Source(w)) /\ fetched'[w] = fetched[w] /\ mode'[w] = mode[w]
    BY <1>1 DEF IInv, BatchSound, clientVars
  <2>2. w # u => initial'[w] = initial[w] /\ mailbox'[w] = mailbox[w]
    BY <1>1, <1>2
  <2> QED BY <1>1, <2>1, <2>2 DEF Source
<1> QED BY <1>1, <1>8, <1>10, <1>11, <1>12, KeptInv DEF IInv, clientVars

LEMMA StartInv ==
  ASSUME IInv, NEW u \in Users, Start(u) \/ SyncInitialDone(u)
  PROVE  IInv'
<1>1. /\ \E m \in {"initial", "messages"} : mode' = [mode EXCEPT ![u] = m]
      /\ UNCHANGED <<sess, keys, task, seen, fetched, serverVars, lost, interrupted, counters>>
  BY DEF Start, SyncInitialDone
<1>2. TypeOK' /\ TasksSound' /\ ChannelsSound'
  BY <1>1 DEF IInv, TypeOK, TasksSound, ChannelsSound, serverVars, counters
<1>3. fetched[u] = 0
  <2>1. CASE Start(u)
    <3>1. Source(u) = <<>>
      BY <2>1 DEF Source, Start
    <3>2. fetched[u] <= Len(<<>>) /\ fetched[u] \in Nat
      BY <3>1 DEF IInv, BatchSound, TypeOK
    <3> QED BY <3>2
  <2>2. CASE SyncInitialDone(u)
    BY <2>2 DEF SyncInitialDone, Ready
  <2> QED BY <2>1, <2>2
<1>4. BatchSound'
  <2> SUFFICES ASSUME NEW w \in Users PROVE fetched[w] <= Len(Source(w)')
    BY <1>1 DEF BatchSound
  <2>1. CASE w = u
    <3>1. initial'[w] \in Seq(Packet) /\ mailbox'[w] \in Seq(Packet)
      BY <1>2 DEF TypeOK
    <3>2. /\ mode'[w] = "initial" \/ mode'[w] = "messages"
      BY <1>1, <2>1 DEF IInv, TypeOK
    <3> QED BY <1>3, <2>1, <3>1, <3>2 DEF Source
  <2>2. CASE w # u
    BY <1>1, <2>2 DEF Source, IInv, BatchSound, TypeOK, serverVars
  <2> QED BY <2>1, <2>2
<1> QED BY <1>1, <1>2, <1>4, KeptInv DEF IInv

LEMMA FetchInv == ASSUME IInv, NEW u \in Users, Fetch(u) PROVE IInv'
<1>1. /\ fetched' = [fetched EXCEPT ![u] = IF Len(Source(u)) < BatchSize
                                           THEN Len(Source(u)) ELSE BatchSize]
      /\ UNCHANGED <<mode, sess, keys, task, seen, serverVars, lost, interrupted, counters>>
  BY DEF Fetch
<1>2. fetched \in [Users -> 0 .. BatchSize] /\ Len(Source(u)) \in Nat
  BY DEF IInv, TypeOK, Source
<1>3. /\ fetched' \in [Users -> 0 .. BatchSize]
      /\ fetched'[u] <= Len(Source(u))
      /\ \A w \in Users : w # u => fetched'[w] = fetched[w]
  BY <1>1, <1>2, SessionsAssumption
<1>4. TypeOK' /\ TasksSound' /\ ChannelsSound'
  BY <1>1, <1>3 DEF IInv, TypeOK, TasksSound, ChannelsSound, serverVars, counters
<1>5. BatchSound'
  <2> SUFFICES ASSUME NEW w \in Users PROVE fetched'[w] <= Len(Source(w)')
    BY DEF BatchSound
  <2>1. Source(w)' = Source(w)
    BY <1>1 DEF Source, serverVars
  <2> QED BY <1>3, <2>1 DEF IInv, BatchSound
<1> QED BY <1>1, <1>4, <1>5, KeptInv DEF IInv

\* Whoever has fetched messages has a store that holds them.
LEMMA BatchThere ==
  ASSUME IInv, NEW u \in Users, fetched[u] # 0
  PROVE  /\ mode[u] = "initial" => initial[u] # <<>>
         /\ mode[u] = "messages" => mailbox[u] # <<>>
<1>1. fetched[u] \in Nat /\ fetched[u] <= Len(Source(u))
  BY DEF IInv, TypeOK, BatchSound
<1>2. Source(u) # <<>>
  BY <1>1
<1> QED BY <1>2 DEF Source

LEMMA SyncInitialInv == ASSUME IInv, NEW u \in Users, SyncInitial(u) PROVE IInv'
<1> DEFINE p == Head(initial[u])
<1>1. /\ mode[u] = "initial" /\ fetched[u] # 0 /\ fetched' = [fetched EXCEPT ![u] = @ - 1]
      /\ AcceptSession(u, p)
      /\ initial' = [initial EXCEPT ![u] = Tail(@)]
      /\ UNCHANGED <<mode, task, seen, up, wire, mailbox, lost, interrupted, counters>>
  BY DEF SyncInitial
<1>2. initial \in [Users -> Seq(Packet)] /\ initial[u] \in Seq(Openings(u))
  BY DEF IInv, TypeOK, ChannelsSound
<1>0. /\ fetched \in [Users -> 0 .. BatchSize] /\ fetched[u] \in Nat
      /\ fetched[u] <= Len(initial[u]) /\ initial[u] # <<>>
  <2>1. fetched[u] \in Nat /\ fetched[u] <= Len(initial[u])
    BY <1>1 DEF IInv, TypeOK, BatchSound, Source
  <2>2. fetched \in [Users -> 0 .. BatchSize]
    BY DEF IInv, TypeOK
  <2>3. initial[u] # <<>>
    BY <1>1, <2>1
  <2> QED BY <2>1, <2>2, <2>3
<1>3. p \in Openings(u) /\ Tail(initial[u]) \in Seq(Openings(u))
  BY <1>0, <1>2
<1> HIDE DEF p
<1>4. /\ keys' \in [Pairs -> SUBSET Keys]
      /\ sess' \in [Pairs -> Session \cup {Nobody}]
      /\ SendersSound' /\ SessionKeysKept'
  BY <1>1, <1>3, AcceptInv
<1>5. /\ initial' \in [Users -> Seq(Packet)]
      /\ \A w \in Users : initial'[w] \in Seq(Openings(w))
  BY <1>1, <1>2, <1>3 DEF IInv, ChannelsSound
<1>20. fetched' \in [Users -> 0 .. BatchSize]
  BY <1>0, <1>1, SessionsAssumption
<1>21. BatchSound'
  <2> SUFFICES ASSUME NEW w \in Users PROVE fetched'[w] <= Len(Source(w)')
    BY DEF BatchSound
  <2>1. CASE w = u
    <3>1. fetched'[u] = fetched[u] - 1 /\ Source(u)' = Tail(initial[u])
      BY <1>0, <1>1, <1>2 DEF Source
    <3>2. Len(Tail(initial[u])) = Len(initial[u]) - 1
      BY <1>0, <1>2
    <3>3. Len(initial[u]) \in Nat
      BY <1>2
    <3> QED BY <1>0, <2>1, <3>1, <3>2, <3>3
  <2>2. CASE w # u
    BY <1>0, <1>1, <1>2, <2>2 DEF Source, IInv, BatchSound
  <2> QED BY <2>1, <2>2
<1>6. TypeOK'
  BY <1>1, <1>4, <1>5, <1>20 DEF IInv, TypeOK, counters
<1>7. ChannelsSound'
  BY <1>1, <1>5 DEF IInv, ChannelsSound, Sent, Written, Openings, Messages, Carried, Packet
<1>8. TasksSound'
  BY <1>1 DEF IInv, TasksSound
<1> QED BY <1>4, <1>6, <1>7, <1>8, <1>21 DEF IInv

LEMMA SyncMsgInv == ASSUME IInv, NEW u \in Users, SyncMsg(u) PROVE IInv'
<1> DEFINE p == Head(mailbox[u])
<1>1. /\ mode[u] = "messages" /\ fetched[u] # 0 /\ fetched' = [fetched EXCEPT ![u] = @ - 1]
      /\ mailbox' = [mailbox EXCEPT ![u] = Tail(@)]
      /\ lost' \in {lost, lost \cup {p.id}}
      /\ seen' = seen \/ seen' = [seen EXCEPT ![u] = @ \cup {p.from}]
      /\ UNCHANGED <<mode, sess, keys, task, up, wire, initial, counters, interrupted>>
  BY DEF SyncMsg
<1>2. mailbox \in [Users -> Seq(Packet)] /\ mailbox[u] \in Seq(Messages(u))
  BY DEF IInv, TypeOK, ChannelsSound
<1>0. /\ fetched \in [Users -> 0 .. BatchSize] /\ fetched[u] \in Nat
      /\ fetched[u] <= Len(mailbox[u]) /\ mailbox[u] # <<>>
  <2>1. fetched[u] \in Nat /\ fetched[u] <= Len(mailbox[u])
    BY <1>1 DEF IInv, TypeOK, BatchSound, Source
  <2>2. fetched \in [Users -> 0 .. BatchSize]
    BY DEF IInv, TypeOK
  <2>3. mailbox[u] # <<>>
    BY <1>1, <2>1
  <2> QED BY <2>1, <2>2, <2>3
<1>3. p \in Messages(u) /\ Tail(mailbox[u]) \in Seq(Messages(u))
  BY <1>0, <1>2
<1> HIDE DEF p
<1>4. p.id \in 1 .. MaxMsgs /\ p.from \in Users
  BY <1>3, SessionsAssumption DEF Messages, Carried, Packet
<1>5. /\ mailbox' \in [Users -> Seq(Packet)]
      /\ \A w \in Users : mailbox'[w] \in Seq(Messages(w))
  BY <1>1, <1>2, <1>3 DEF IInv, ChannelsSound
<1>6. seen' \in [Users -> SUBSET Users]
  <2>1. seen \in [Users -> SUBSET Users] /\ seen[u] \cup {p.from} \in SUBSET Users
    BY <1>4 DEF IInv, TypeOK
  <2> QED BY <1>1, <2>1
<1>7. lost' \subseteq 1 .. MaxMsgs
  BY <1>1, <1>4 DEF IInv, TypeOK
<1>20. fetched' \in [Users -> 0 .. BatchSize]
  BY <1>0, <1>1, SessionsAssumption
<1>21. BatchSound'
  <2> SUFFICES ASSUME NEW w \in Users PROVE fetched'[w] <= Len(Source(w)')
    BY DEF BatchSound
  <2>1. CASE w = u
    <3>1. fetched'[u] = fetched[u] - 1 /\ Source(u)' = Tail(mailbox[u])
      BY <1>0, <1>1, <1>2 DEF Source
    <3>2. Len(Tail(mailbox[u])) = Len(mailbox[u]) - 1
      BY <1>0, <1>2
    <3>3. Len(mailbox[u]) \in Nat
      BY <1>2
    <3> QED BY <1>0, <2>1, <3>1, <3>2, <3>3
  <2>2. CASE w # u
    BY <1>0, <1>1, <1>2, <2>2 DEF Source, IInv, BatchSound
  <2> QED BY <2>1, <2>2
<1>8. TypeOK'
  BY <1>1, <1>5, <1>6, <1>7, <1>20 DEF IInv, TypeOK, counters
<1>9. ChannelsSound'
  BY <1>1, <1>5 DEF IInv, ChannelsSound, Sent, Written, Openings, Messages, Carried, Packet
<1>10. TasksSound'
  BY <1>1 DEF IInv, TasksSound
<1> QED BY <1>1, <1>8, <1>9, <1>10, <1>21, KeptInv DEF IInv

\* The cleanup spares the keys of the session.
LEMMA SyncDoneInv == ASSUME IInv, NEW u \in Users, SyncDone(u) PROVE IInv'
<1>1. /\ keys' = [q \in Pairs |-> IF q[1] = u /\ q[2] \in seen[u]
                                  THEN keys[q] \cap CurrentKeys(sess[q]) ELSE keys[q]]
      /\ seen' = [seen EXCEPT ![u] = {}]
      /\ mode' = [mode EXCEPT ![u] = "up"]
      /\ wire' = [wire EXCEPT ![u] = @ \o initial[u]]
      /\ initial' = [initial EXCEPT ![u] = <<>>]
      /\ fetched[u] = 0
      /\ UNCHANGED <<sess, task, fetched, up, mailbox, lost, interrupted, counters>>
  BY DEF SyncDone, Ready
<1>2. /\ wire \in [Users -> Seq(Packet)] /\ initial \in [Users -> Seq(Packet)]
      /\ wire[u] \in Seq(Written(u)) /\ initial[u] \in Seq(Openings(u))
      /\ initial[u] \in Seq(Packet) /\ wire[u] \in Seq(Packet)
  BY DEF IInv, TypeOK, ChannelsSound
<1>3. initial[u] \in Seq(Written(u))
  <2>1. Openings(u) \subseteq Written(u)
    BY DEF Openings, Written
  <2> QED BY <1>2, <2>1, SeqMonotonic
<1>4. wire[u] \o initial[u] \in Seq(Written(u)) /\ wire[u] \o initial[u] \in Seq(Packet)
  BY <1>2, <1>3
<1>5. /\ wire' \in [Users -> Seq(Packet)] /\ initial' \in [Users -> Seq(Packet)]
      /\ \A w \in Users : wire'[w] \in Seq(Written(w)) /\ initial'[w] \in Seq(Openings(w))
  BY <1>1, <1>2, <1>4 DEF IInv, ChannelsSound
<1>6. keys' \in [Pairs -> SUBSET Keys] /\ \A q \in Pairs : keys'[q] \subseteq keys[q]
  BY <1>1 DEF IInv, TypeOK
<1>7. SessionKeysKept'
  <2>1. ASSUME NEW q \in Pairs, sess[q] # Nobody
        PROVE  {sess[q].send, sess[q].recv} \subseteq keys'[q]
    BY <1>1, <2>1 DEF IInv, SessionKeysKept, CurrentKeys
  <2> QED BY <1>1, <2>1 DEF SessionKeysKept
<1>8. TypeOK'
  BY <1>1, <1>5, <1>6 DEF IInv, TypeOK, counters
<1>9. ChannelsSound'
  BY <1>1, <1>5 DEF IInv, ChannelsSound, Sent, Written, Openings, Messages, Carried, Packet
<1>10. TasksSound' /\ SendersSound'
  BY <1>1 DEF IInv, TasksSound, SendersSound
<1>11. BatchSound'
  <2> SUFFICES ASSUME NEW w \in Users PROVE fetched'[w] <= Len(Source(w)')
    BY DEF BatchSound
  <2>1. CASE w = u
    BY <1>1, <2>1 DEF Source, IInv, TypeOK
  <2>2. CASE w # u
    BY <1>1, <1>2, <2>2 DEF Source, IInv, BatchSound, TypeOK
  <2> QED BY <2>1, <2>2
<1> QED BY <1>7, <1>8, <1>9, <1>10, <1>11 DEF IInv

-----------------------------------------------------------------------------

LEMMA StepInv == IInv /\ [Next]_vars => IInv'
<1> SUFFICES ASSUME IInv, [Next]_vars PROVE IInv'
  OBVIOUS
<1>1. CASE UNCHANGED vars
  <2>1. /\ UNCHANGED <<mode, sess, keys, task, seen, fetched>>
        /\ UNCHANGED <<up, wire, initial, mailbox>>
        /\ UNCHANGED <<lost, interrupted, opens, msgs, stops>>
    BY <1>1 DEF vars, clientVars, serverVars, counters
  <2>2. TypeOK' /\ ChannelsSound' /\ TasksSound'
    BY <2>1 DEF IInv, TypeOK, ChannelsSound, TasksSound
  <2> QED BY <2>1, <2>2, BatchSame, KeptInv DEF IInv
<1>2. CASE Next
  <2>1. PICK u \in Users :
          \/ \E t \in Tasks :
               \/ \E v \in Peers(u) : Send(u, t, v) \/ RequestBundle(u, t, v)
               \/ OpenSession(u, t) \/ UpdateSession(u, t)
          \/ ServerHandle(u)
          \/ ReceiveOk(u) \/ ReceiveOpen(u) \/ ReceiveMsg(u)
          \/ Stop(u) \/ TakeBack(u) \/ Start(u)
          \/ Fetch(u) \/ SyncInitial(u) \/ SyncInitialDone(u) \/ SyncMsg(u) \/ SyncDone(u)
    BY <1>2 DEF Next
  <2>2. CASE \E t \in Tasks, v \in Peers(u) : Send(u, t, v) \/ RequestBundle(u, t, v)
    BY <2>2, SendInv, RequestInv
  <2>3. CASE \E t \in Tasks : OpenSession(u, t) \/ UpdateSession(u, t)
    BY <2>3, OpenInv, UpdateInv
  <2>4. CASE ServerHandle(u)
    BY <2>4, ServerInv
  <2>5. CASE ReceiveOk(u) \/ ReceiveOpen(u) \/ ReceiveMsg(u)
    BY <2>5, ReceiveOkInv, ReceiveOpenInv, ReceiveMsgInv
  <2>6. CASE Stop(u) \/ TakeBack(u) \/ Start(u) \/ SyncInitialDone(u)
    BY <2>6, StopInv, TakeBackInv, StartInv
  <2>7. CASE Fetch(u) \/ SyncInitial(u) \/ SyncMsg(u) \/ SyncDone(u)
    BY <2>7, FetchInv, SyncInitialInv, SyncMsgInv, SyncDoneInv
  <2> QED BY <2>1, <2>2, <2>3, <2>4, <2>5, <2>6, <2>7
<1> QED BY <1>1, <1>2

\* The invariant holds whatever the users, their tasks and the server do.
THEOREM SessionsInductive == Spec => []IInv
<1>1. Init => IInv
  BY InitInv
<1>2. IInv /\ [Next]_vars => IInv'
  BY StepInv
<1> QED BY <1>1, <1>2, PTL DEF Spec

\* Every variable keeps its type; no opening or message is taken for another.
THEOREM SessionsTypeCorrect == Spec => []TypeOK
<1>1. IInv => TypeOK
  BY DEF IInv
<1> QED BY <1>1, SessionsInductive, PTL

\* For any number of openings that cross or repeat, two users never encrypt with
\* the same key.
THEOREM DirectionsNeverShareAKey == Spec => []DirectionsDisjoint
<1>1. IInv => DirectionsDisjoint
  <2> SUFFICES ASSUME IInv, NEW q \in Pairs,
                      sess[q] # Nobody, sess[<<q[2], q[1]>>] # Nobody
               PROVE  sess[q].send # sess[<<q[2], q[1]>>].send
    BY DEF DirectionsDisjoint
  <2> DEFINE r == <<q[2], q[1]>>
  <2>1. q[1] # q[2] /\ r \in Pairs /\ r[1] = q[2] /\ r[2] = q[1]
    BY DEF Pairs
  <2> HIDE DEF r
  <2>2. /\ SendsWith(q[1], q[2], sess[q].send)
        /\ SendsWith(q[2], q[1], sess[r].send)
    BY <2>1 DEF IInv, SendersSound, r
  <2>3. sess[q].send # sess[r].send
    BY <2>1, <2>2 DEF SendsWith
  <2> QED BY <2>3 DEF r
<1> QED BY <1>1, SessionsInductive, PTL

\* No cleanup, whenever it runs, deletes a key of the client's own session.
THEOREM SessionKeysStay == Spec => []SessionKeysKept
<1>1. IInv => SessionKeysKept
  BY DEF IInv
<1> QED BY <1>1, SessionsInductive, PTL

-----------------------------------------------------------------------------
(* Keys that the peer has, or will have.                                   *)

\* The other key of an opening.
Other(k) == [k EXCEPT !.side = IF k.side = "i" THEN "j" ELSE "i"]

SameOpening(k, l) == k.n = l.n /\ k.by = l.by /\ k.to = l.to

Back(q) == <<q[2], q[1]>>

\* p is an opening of q[2] by q[1] that is on its way.
InTransit(q, p) ==
  /\ p.kind = "open" /\ p.from = q[1] /\ p.to = q[2]
  /\ p \in Range(up[q[1]]) \/ p \in Range(wire[q[2]]) \/ p \in Range(initial[q[2]])

Flying(q) == {k \in Keys : OpeningComing(q[1], q[2], k)}
Awaited(q) == {k \in Keys : OpeningPending(q[1], q[2], k)}

Known(q) == keys[q] \cup Flying(q) \cup Awaited(q)

\* Openings are numbered, and so are their answers.
Counted ==
  /\ \A q \in Pairs : \A k \in Known(q) : k.n <= opens
  /\ \A u \in Users : \A p \in Range(wire[u]) : p.kind = "ok" => p.key.n <= opens

\* A first opening is alone.
OneOpening ==
  opens <= 1 => \A q, r \in Pairs : \A k \in Known(q), l \in Known(r) : SameOpening(k, l)

\* An opening that the server has not handled is there once, has no answer, and
\* its task waits for one.
NoTwice(s) ==
  \A i, j \in DOMAIN s :
    i # j /\ s[i].kind = "open" /\ s[j].kind = "open" => s[i].key.n # s[j].key.n
Unanswered(u) ==
  \A p \in Range(up[u]), o \in Range(wire[u]) :
    p.kind = "open" /\ o.kind = "ok" => p.key.n # o.key.n
Asks(w, n) == task[w].st = "opening" /\ task[w].n = n
Asked(u) ==
  \A p \in Range(up[u]) : p.kind = "open" => \E t \in Tasks : Asks(<<u, t>>, p.key.n)

Once(u) == NoTwice(up[u]) /\ Unanswered(u) /\ Asked(u)

Shaped == \A q \in Pairs : sess[q] # Nobody => sess[q].recv = Other(sess[q].send)

SeenSound == \A u \in Users : \A v \in seen[u] : v # u /\ sess[<<u, v>>] # Nobody

AllUp == stops = 0 => \A u \in Users : mode[u] = "up"

\* What q[1] sends with, q[2] has or will have.
Reaches(q) == sess[q].send \in keys[Back(q)] \cup Flying(q) \cup Awaited(Back(q))

\* Of the two keys of an opening, whoever waits for one side has the other.
Met ==
  \A q \in Pairs :
    /\ \A k \in Flying(q) : Other(k) \in Awaited(q) \cup keys[q]
    /\ \A k \in Awaited(q) : Other(k) \in Flying(q) \cup keys[Back(q)]
    /\ sess[q] # Nobody => Reaches(q)

ReachInv ==
  /\ Counted /\ (\A u \in Users : Once(u)) /\ Shaped /\ SeenSound /\ AllUp
  /\ OneOpening
  /\ Calm => Met

\* An opening has two keys, and each is the other one of the other.
LEMMA OtherKey ==
  ASSUME NEW k \in Keys
  PROVE  Other(k) \in Keys /\ SameOpening(Other(k), k) /\ Other(Other(k)) = k
<1>1. \A l \in Keys :
        Other(l) = [n |-> l.n, by |-> l.by, to |-> l.to, side |-> IF l.side = "i" THEN "j" ELSE "i"]
  BY DEF Other, Keys
<1>2. k.side \in {"i", "j"} /\ k = [n |-> k.n, by |-> k.by, to |-> k.to, side |-> k.side]
      /\ k.n \in 1 .. MaxOpens /\ k.by \in Users /\ k.to \in Users
  BY DEF Keys
<1>3. Other(k) \in Keys /\ SameOpening(Other(k), k)
  BY <1>1, <1>2 DEF Keys, SameOpening
<1>4. Other(k).side = (IF k.side = "i" THEN "j" ELSE "i") /\ Other(k).n = k.n
      /\ Other(k).by = k.by /\ Other(k).to = k.to
  BY <1>1
<1>5. Other(Other(k)) = [n |-> k.n, by |-> k.by, to |-> k.to,
                         side |-> IF Other(k).side = "i" THEN "j" ELSE "i"]
  BY <1>1, <1>3, <1>4
<1> QED BY <1>2, <1>3, <1>4, <1>5

\* It has no third.
LEMMA TwoKeys ==
  ASSUME NEW k \in Keys, NEW l \in Keys, SameOpening(k, l)
  PROVE  l = k \/ l = Other(k)
<1>1. /\ k = [n |-> k.n, by |-> k.by, to |-> k.to, side |-> k.side] /\ k.side \in {"i", "j"}
      /\ l = [n |-> l.n, by |-> l.by, to |-> l.to, side |-> l.side] /\ l.side \in {"i", "j"}
  BY DEF Keys
<1>2. Other(k) = [n |-> k.n, by |-> k.by, to |-> k.to, side |-> IF k.side = "i" THEN "j" ELSE "i"]
  BY DEF Other, Keys
<1> QED BY <1>1, <1>2 DEF SameOpening

\* A conversation has two directions.
LEMMA BackPair ==
  ASSUME NEW q \in Pairs
  PROVE  Back(q) \in Pairs /\ Back(Back(q)) = q /\ q = <<q[1], q[2]>> /\ q[1] \in Users
         /\ q[2] \in Users /\ q[1] # q[2] /\ Back(q)[1] = q[2] /\ Back(q)[2] = q[1]
  BY DEF Pairs, Back

\* No opening appears from nowhere.
Narrows ==
  /\ \A q \in Pairs : Flying(q)' \subseteq Flying(q) /\ Awaited(q)' \subseteq Awaited(q)
  /\ \A q \in Pairs : \A k \in keys'[q] :
       \/ k \in keys[q]
       \/ \E r \in Pairs : \E l \in Flying(r) \cup Awaited(r) : SameOpening(k, l)

\* None is lost before its keys are stored, and no key is.
Delivers ==
  /\ \A q \in Pairs : /\ Flying(q) \subseteq Flying(q)' \cup keys'[Back(q)]
                      /\ Awaited(q) \subseteq Awaited(q)' \cup keys'[q]
                      /\ keys[q] \subseteq keys'[q]
  /\ \A q \in Pairs : sess'[q] # Nobody => sess'[q] = sess[q] \/ Reaches(q)'

\* A step that invents no opening and delivers those it removes keeps the keys met.
LEMMA MetStays ==
  ASSUME Met, Narrows, Delivers
  PROVE  Met'
<1>1. ASSUME NEW q \in Pairs, NEW k \in Flying(q)'
      PROVE  Other(k) \in Awaited(q)' \cup keys'[q]
  <2>1. k \in Flying(q)
    BY DEF Narrows
  <2>2. Other(k) \in Awaited(q) \cup keys[q]
    BY <2>1 DEF Met
  <2> QED BY <2>2 DEF Delivers
<1>2. ASSUME NEW q \in Pairs, NEW k \in Awaited(q)'
      PROVE  Other(k) \in Flying(q)' \cup keys'[Back(q)]
  <2>1. k \in Awaited(q) /\ Back(q) \in Pairs
    BY BackPair DEF Narrows
  <2>2. Other(k) \in Flying(q) \cup keys[Back(q)]
    BY <2>1 DEF Met
  <2> QED BY <2>1, <2>2 DEF Delivers
<1>3. ASSUME NEW q \in Pairs, sess'[q] # Nobody
      PROVE  Reaches(q)'
  <2>1. CASE sess'[q] = sess[q]
    <3>1. Back(q) \in Pairs
      BY BackPair
    <3>2. sess[q].send \in keys[Back(q)] \cup Flying(q) \cup Awaited(Back(q))
      BY <1>3, <2>1 DEF Met, Reaches
    <3>3. sess[q].send \in keys'[Back(q)] \cup Flying(q)' \cup Awaited(Back(q))'
      BY <3>1, <3>2 DEF Delivers
    <3> QED BY <2>1, <3>3 DEF Reaches
  <2>2. CASE Reaches(q)'
    BY <2>2
  <2> QED BY <1>3, <2>1, <2>2 DEF Delivers
<1> QED BY <1>1, <1>2, <1>3 DEF Met

\* Such a step keeps the invariant, if what it does to the channels and tasks does.
LEMMA Follows ==
  ASSUME ReachInv, Narrows, opens' = opens, Shaped', SeenSound', AllUp',
         \A u \in Users : Once(u)',
         \A u \in Users : \A p \in Range(wire'[u]) : p.kind = "ok" => p.key.n <= opens,
         Calm' => Calm /\ Delivers
  PROVE  ReachInv'
<1>1. ASSUME NEW q \in Pairs, NEW k \in Known(q)'
      PROVE  \E r \in Pairs : \E l \in Known(r) : SameOpening(k, l)
  <2>1. CASE k \in keys[q] \cup Flying(q) \cup Awaited(q)
    BY <2>1 DEF SameOpening, Known
  <2> QED BY <2>1 DEF Narrows, Known
<1>2. Counted'
  <2>1. ASSUME NEW q \in Pairs, NEW k \in Known(q)'
        PROVE  k.n <= opens'
    <3>1. PICK r \in Pairs : \E l \in Known(r) : SameOpening(k, l)
      BY <1>1
    <3> QED BY <3>1 DEF ReachInv, Counted, SameOpening
  <2> QED BY <2>1 DEF Counted
<1>3. OneOpening'
  <2> SUFFICES ASSUME opens <= 1,
                      NEW q \in Pairs, NEW r \in Pairs, NEW k \in Known(q)', NEW l \in Known(r)'
               PROVE  SameOpening(k, l)
    BY DEF OneOpening, SameOpening
  <2>1. PICK qq \in Pairs : \E kk \in Known(qq) : SameOpening(k, kk)
    BY <1>1
  <2>2. PICK rr \in Pairs : \E ll \in Known(rr) : SameOpening(l, ll)
    BY <1>1
  <2> QED BY <2>1, <2>2 DEF ReachInv, OneOpening, SameOpening
<1>4. Calm' => Met'
  BY MetStays DEF ReachInv
<1> QED BY <1>2, <1>3, <1>4 DEF ReachInv

-----------------------------------------------------------------------------
(* What is in a channel, and what is on its way.                           *)

\* What a sequence holds once it has grown or shrunk at either end.
LEMMA RangeOfAppend ==
  ASSUME NEW S, NEW s \in Seq(S), NEW e \in S
  PROVE  Range(Append(s, e)) = Range(s) \cup {e}
<1> DEFINE c == Append(s, e)
<1>1. /\ Len(s) \in Nat /\ DOMAIN s = 1 .. Len(s) /\ DOMAIN c = 1 .. Len(s) + 1
      /\ c[Len(s) + 1] = e /\ \A i \in 1 .. Len(s) : c[i] = s[i]
  OBVIOUS
<1> HIDE DEF c
<1>2. \A x \in Range(c) : x \in Range(s) \cup {e}
  BY <1>1 DEF Range
<1>3. \A i \in DOMAIN s : i \in DOMAIN c /\ c[i] = s[i]
  BY <1>1
<1>4. Len(s) + 1 \in DOMAIN c
  BY <1>1
<1>5. \A x \in Range(s) \cup {e} : x \in Range(c)
  BY <1>1, <1>3, <1>4 DEF Range
<1> QED BY <1>2, <1>5 DEF c

LEMMA RangeOfTail ==
  ASSUME NEW S, NEW s \in Seq(S), s # <<>>
  PROVE  Range(s) = Range(Tail(s)) \cup {Head(s)}
<1> DEFINE c == Tail(s)
           n == Len(s)
<1>1. /\ n \in Nat /\ n >= 1 /\ DOMAIN s = 1 .. n /\ DOMAIN c = 1 .. n - 1
      /\ Head(s) = s[1] /\ \A i \in 1 .. n - 1 : c[i] = s[i + 1]
  OBVIOUS
<1> HIDE DEF c, n
<1>2. ASSUME NEW x \in Range(s) PROVE x \in Range(c) \cup {Head(s)}
  <2>1. PICK i \in 1 .. n : x = s[i]
    BY <1>1 DEF Range
  <2>2. CASE i = 1
    BY <1>1, <2>1, <2>2
  <2>3. CASE i # 1
    <3>1. i - 1 \in 1 .. n - 1 /\ (i - 1) + 1 = i
      BY <1>1, <2>3
    <3>2. c[i - 1] = s[i]
      BY <1>1, <3>1
    <3> QED BY <1>1, <2>1, <3>1, <3>2 DEF Range
  <2> QED BY <2>2, <2>3
<1>3. ASSUME NEW x \in Range(c) \cup {Head(s)} PROVE x \in Range(s)
  <2>1. CASE x = Head(s)
    <3>1. 1 \in DOMAIN s
      BY <1>1
    <3> QED BY <1>1, <2>1, <3>1 DEF Range
  <2>2. CASE x \in Range(c)
    <3>1. PICK i \in 1 .. n - 1 : x = c[i]
      BY <1>1, <2>2 DEF Range
    <3>2. i + 1 \in DOMAIN s /\ c[i] = s[i + 1]
      BY <1>1
    <3> QED BY <3>1, <3>2 DEF Range
  <2> QED BY <2>1, <2>2
<1> QED BY <1>2, <1>3 DEF c

LEMMA RangeOfFront ==
  ASSUME NEW S, NEW s \in Seq(S), s # <<>>
  PROVE  Range(s) = Range(Front(s)) \cup {Last(s)}
<1> DEFINE c == Front(s)
           n == Len(s)
<1>1. /\ n \in Nat /\ n >= 1 /\ DOMAIN s = 1 .. n
  OBVIOUS
<1>2. DOMAIN c = 1 .. n - 1 /\ Last(s) = s[n] /\ \A i \in 1 .. n - 1 : c[i] = s[i]
  BY <1>1 DEF Front, Last
<1> HIDE DEF c, n
<1>3. ASSUME NEW x \in Range(s) PROVE x \in Range(c) \cup {Last(s)}
  <2>1. PICK i \in 1 .. n : x = s[i]
    BY <1>1 DEF Range
  <2>2. i = n \/ i \in 1 .. n - 1
    BY <1>1
  <2> QED BY <1>2, <2>1, <2>2 DEF Range
<1>4. n \in DOMAIN s /\ \A i \in 1 .. n - 1 : i \in DOMAIN s
  BY <1>1
<1>5. \A x \in Range(c) \cup {Last(s)} : x \in Range(s)
  BY <1>2, <1>4 DEF Range
<1> QED BY <1>3, <1>5 DEF c

LEMMA RangeOfJoin ==
  ASSUME NEW S, NEW s \in Seq(S), NEW t \in Seq(S)
  PROVE  Range(s \o t) = Range(s) \cup Range(t)
<1> DEFINE c == s \o t
<1>1. /\ Len(s) \in Nat /\ Len(t) \in Nat /\ DOMAIN s = 1 .. Len(s) /\ DOMAIN t = 1 .. Len(t)
      /\ DOMAIN c = 1 .. Len(s) + Len(t)
      /\ \A i \in 1 .. Len(s) : c[i] = s[i]
      /\ \A i \in 1 .. Len(t) : c[Len(s) + i] = t[i]
  OBVIOUS
<1> HIDE DEF c
<1>2. ASSUME NEW x \in Range(c) PROVE x \in Range(s) \cup Range(t)
  <2>1. PICK i \in 1 .. Len(s) + Len(t) : x = c[i]
    BY <1>1 DEF Range
  <2>2. CASE i \in 1 .. Len(s)
    BY <1>1, <2>1, <2>2 DEF Range
  <2>3. CASE i \notin 1 .. Len(s)
    <3> DEFINE k == i - Len(s)
    <3>1. k \in 1 .. Len(t) /\ Len(s) + k = i
      BY <1>1, <2>3
    <3> HIDE DEF k
    <3>2. c[i] = t[k] /\ k \in DOMAIN t
      BY <1>1, <3>1
    <3> QED BY <2>1, <3>2 DEF Range
  <2> QED BY <2>2, <2>3
<1>3. \A i \in DOMAIN s : i \in DOMAIN c /\ c[i] = s[i]
  BY <1>1
<1>4. \A i \in DOMAIN t : Len(s) + i \in DOMAIN c /\ c[Len(s) + i] = t[i]
  BY <1>1
<1>5. \A x \in Range(s) \cup Range(t) : x \in Range(c)
  BY <1>3, <1>4 DEF Range
<1> QED BY <1>2, <1>5 DEF c

LEMMA RangeOfCons ==
  ASSUME NEW S, NEW s \in Seq(S), NEW e \in S
  PROVE  Range(<<e>> \o s) = Range(s) \cup {e}
<1> DEFINE o == <<e>>
<1>1. o \in Seq(S) /\ Range(o) = {e}
  BY DEF Range
<1> HIDE DEF o
<1>2. Range(o \o s) = Range(o) \cup Range(s)
  BY <1>1, RangeOfJoin
<1> QED BY <1>1, <1>2 DEF o

\* Openings stay distinct when the oldest leaves and when a new one enters.
LEMMA NoTwiceTail ==
  ASSUME NEW S, NEW s \in Seq(S), s # <<>>, NoTwice(s)
  PROVE  /\ NoTwice(Tail(s))
         /\ Head(s).kind = "open" =>
              \A p \in Range(Tail(s)) : p.kind = "open" => p.key.n # Head(s).key.n
<1> DEFINE c == Tail(s)
           n == Len(s)
<1>1. /\ n \in Nat /\ n >= 1 /\ DOMAIN s = 1 .. n /\ DOMAIN c = 1 .. n - 1
      /\ Head(s) = s[1] /\ \A i \in 1 .. n - 1 : c[i] = s[i + 1]
  OBVIOUS
<1> HIDE DEF c, n
<1>2. \A i \in 1 .. n - 1 : i + 1 \in DOMAIN s /\ i + 1 # 1
  BY <1>1
<1>3. 1 \in DOMAIN s
  BY <1>1
<1>4. NoTwice(c)
  <2> SUFFICES ASSUME NEW i \in 1 .. n - 1, NEW j \in 1 .. n - 1, i # j,
                      c[i].kind = "open", c[j].kind = "open"
               PROVE  c[i].key.n # c[j].key.n
    BY <1>1 DEF NoTwice
  <2>1. i + 1 # j + 1
    OBVIOUS
  <2> QED BY <1>1, <1>2, <2>1 DEF NoTwice
<1>5. ASSUME Head(s).kind = "open", NEW p \in Range(c), p.kind = "open"
      PROVE  p.key.n # Head(s).key.n
  <2>1. PICK i \in 1 .. n - 1 : p = c[i]
    BY <1>1 DEF Range
  <2>2. p = s[i + 1] /\ i + 1 \in DOMAIN s /\ i + 1 # 1
    BY <1>1, <1>2, <2>1
  <2> QED BY <1>1, <1>3, <1>5, <2>2 DEF NoTwice
<1> QED BY <1>4, <1>5 DEF c

LEMMA NoTwiceAppend ==
  ASSUME NEW S, NEW s \in Seq(S), NEW e \in S, NoTwice(s),
         e.kind = "open" => \A p \in Range(s) : p.kind = "open" => p.key.n # e.key.n
  PROVE  NoTwice(Append(s, e))
<1> DEFINE c == Append(s, e)
           n == Len(s) + 1
<1>1. /\ Len(s) \in Nat /\ DOMAIN s = 1 .. Len(s) /\ DOMAIN c = 1 .. n
      /\ c[n] = e /\ \A i \in 1 .. Len(s) : c[i] = s[i]
  OBVIOUS
<1> HIDE DEF c
<1>2. \A i \in DOMAIN c : i = n \/ (i # n /\ i \in DOMAIN s /\ c[i] = s[i])
  BY <1>1
<1>3. \A i \in DOMAIN s : s[i] \in Range(s)
  BY DEF Range
<1> HIDE DEF n
<1> QED BY <1>1, <1>2, <1>3 DEF NoTwice, c

\* The channels hold what their types say.
LEMMA InChannels ==
  ASSUME IInv, NEW u \in Users
  PROVE  /\ up[u] \in Seq(Sent(u)) /\ wire[u] \in Seq(Written(u))
         /\ initial[u] \in Seq(Openings(u)) /\ mailbox[u] \in Seq(Messages(u))
         /\ \A p \in Range(up[u]) : p \in Sent(u)
         /\ \A p \in Range(wire[u]) : p \in Written(u)
         /\ \A p \in Range(initial[u]) : p \in Openings(u)
<1>1. /\ up[u] \in Seq(Sent(u)) /\ wire[u] \in Seq(Written(u))
      /\ initial[u] \in Seq(Openings(u)) /\ mailbox[u] \in Seq(Messages(u))
  BY DEF IInv, ChannelsSound
<1>2. ASSUME NEW S, NEW s \in Seq(S), NEW p \in Range(s) PROVE p \in S
  BY DEF Range
<1> QED BY <1>1, <1>2

\* What is on its way is the same when the same openings are in transit.
LEMMA FlyingSame ==
  ASSUME \A q \in Pairs : \A p : InTransit(q, p)' <=> InTransit(q, p)
  PROVE  \A q \in Pairs : Flying(q)' = Flying(q)
BY DEF Flying, OpeningComing, InTransit

\* The definition of what is on its way, before and after a step.
LEMMA InFlight ==
  ASSUME NEW q, NEW k
  PROVE  /\ k \in Flying(q) <=> k \in Keys /\ \E p : InTransit(q, p) /\ p.key = k
         /\ k \in Flying(q)' <=> k \in Keys /\ \E p : InTransit(q, p)' /\ p.key = k
BY DEF Flying, OpeningComing, InTransit

\* What is waited for is the same when the same tasks wait.
LEMMA AwaitedSame ==
  ASSUME \A w \in Users \X Tasks :
           /\ task'[w].st \in {"opening", "opened"} <=> task[w].st \in {"opening", "opened"}
           /\ task[w].st \in {"opening", "opened"} => task'[w].to = task[w].to /\ task'[w].n = task[w].n
  PROVE  \A q \in Pairs : Awaited(q)' = Awaited(q)
<1> SUFFICES ASSUME NEW q \in Pairs, NEW k
             PROVE  OpeningPending(q[1], q[2], k)' <=> OpeningPending(q[1], q[2], k)
  BY DEF Awaited
<1>1. \A t \in Tasks : <<q[1], t>> \in Users \X Tasks
  BY BackPair
<1> QED BY <1>1 DEF OpeningPending

\* A step that stores nothing and keeps what is on its way.
LEMMA QuietReach ==
  ASSUME ReachInv, UNCHANGED <<keys, sess, opens>>,
         \A q \in Pairs : Flying(q)' = Flying(q) /\ Awaited(q)' = Awaited(q),
         SeenSound', AllUp', \A u \in Users : Once(u)', Calm' => Calm,
         \A u \in Users : \A p \in Range(wire'[u]) : p.kind = "ok" => p.key.n <= opens
  PROVE  ReachInv'
<1>1. Narrows /\ Delivers
  BY DEF Narrows, Delivers
<1>2. Shaped'
  BY DEF ReachInv, Shaped
<1> QED BY <1>1, <1>2, Follows

\* A client whose queue the step leaves alone still asks once.
LEMMA OnceStays ==
  ASSUME NEW u \in Users, Once(u), up'[u] = up[u],
         \A p \in Range(wire'[u]) : p.kind = "ok" => p \in Range(wire[u]),
         \A n : \A t \in Tasks : Asks(<<u, t>>, n) => Asks(<<u, t>>, n)'
  PROVE  Once(u)'
BY DEF Once, Unanswered, Asked

\* Steps that leave the channels alone but for what is not an opening or an
\* answer, and the tasks that wait for an answer.
LEMMA IdleReach ==
  ASSUME IInv, ReachInv, UNCHANGED <<keys, sess, opens, stops, interrupted, up, initial>>,
         \A w \in Users : \A p : p.kind \in {"open", "ok"} =>
                                   (p \in Range(wire'[w]) <=> p \in Range(wire[w])),
         \A w \in Users \X Tasks : task'[w] = task[w] \/ {task[w].st, task'[w].st} \subseteq {"idle", "bundle"},
         SeenSound', AllUp'
  PROVE  ReachInv'
<1>1. \A q \in Pairs : Flying(q)' = Flying(q)
  <2>1. \A q \in Pairs : \A p : InTransit(q, p)' <=> InTransit(q, p)
    BY BackPair DEF InTransit
  <2> QED BY <2>1, FlyingSame
<1>2. \A q \in Pairs : Awaited(q)' = Awaited(q)
  BY AwaitedSame
<1>3. ASSUME NEW u \in Users PROVE Once(u)'
  <2>1. Once(u)
    BY DEF ReachInv
  <2>2. \A t \in Tasks : <<u, t>> \in Users \X Tasks
    OBVIOUS
  <2>3. \A n : \A t \in Tasks : Asks(<<u, t>>, n) => Asks(<<u, t>>, n)'
    BY <2>2 DEF Asks
  <2> QED BY <2>1, <2>3, OnceStays
<1>4. \A u \in Users : \A p \in Range(wire'[u]) : p.kind = "ok" => p.key.n <= opens
  BY DEF ReachInv, Counted
<1>5. Calm' => Calm
  BY DEF Calm
<1> QED BY <1>1, <1>2, <1>3, <1>4, <1>5, QuietReach

-----------------------------------------------------------------------------
(* The steps keep the reach of every key.                                  *)

\* Steps that leave the synchronization alone.
LEMMA SeenUpStay ==
  ASSUME ReachInv, UNCHANGED <<seen, sess, mode, stops>>
  PROVE  SeenSound' /\ AllUp'
BY DEF ReachInv, SeenSound, AllUp

\* A request for a prekey bundle opens nothing.
LEMMA RequestReach ==
  ASSUME IInv, ReachInv, NEW u \in Users, NEW t \in Tasks, NEW v \in Peers(u),
         RequestBundle(u, t, v)
  PROVE  ReachInv'
<1> DEFINE b == [st |-> "bundle", to |-> v, n |-> 0]
<1>1. /\ task[<<u, t>>].st = "idle" /\ task' = [task EXCEPT ![<<u, t>>] = b] /\ b.st = "bundle"
      /\ UNCHANGED <<mode, sess, keys, seen, up, wire, initial, mailbox, lost, interrupted,
                     opens, msgs, stops>>
  BY DEF RequestBundle, serverVars, counters
<1> HIDE DEF b
<1>2. task \in [Users \X Tasks -> Task]
  BY DEF IInv, TypeOK
<1>3. \A w \in Users \X Tasks : task'[w] = task[w] \/ (w = <<u, t>> /\ task'[w] = b)
  BY <1>1, <1>2
<1>4. \A w \in Users \X Tasks : task'[w] = task[w] \/ {task[w].st, task'[w].st} \subseteq {"idle", "bundle"}
  BY <1>1, <1>3
<1>5. SeenSound' /\ AllUp'
  BY <1>1, SeenUpStay
<1> QED BY <1>1, <1>4, <1>5, IdleReach

\* The channel loses its head.
LEMMA HeadGone ==
  ASSUME IInv, NEW u \in Users, wire[u] # <<>>, wire' = [wire EXCEPT ![u] = Tail(@)]
  PROVE  /\ Head(wire[u]) \in Written(u)
         /\ \A w \in Users : w # u => wire'[w] = wire[w]
         /\ Range(wire[u]) = Range(wire'[u]) \cup {Head(wire[u])}
<1>1. wire \in [Users -> Seq(Packet)] /\ wire[u] \in Seq(Written(u))
  BY InChannels DEF IInv, TypeOK
<1>2. wire'[u] = Tail(wire[u]) /\ \A w \in Users : w # u => wire'[w] = wire[w]
  BY <1>1
<1>3. Head(wire[u]) \in Written(u)
  BY <1>1
<1>4. Range(wire[u]) = Range(Tail(wire[u])) \cup {Head(wire[u])}
  BY <1>1, RangeOfTail
<1> QED BY <1>2, <1>3, <1>4

\* Receiving a message stores nothing.
LEMMA ReceiveMsgReach ==
  ASSUME IInv, ReachInv, NEW u \in Users, ReceiveMsg(u)
  PROVE  ReachInv'
<1>1. /\ wire[u] # <<>> /\ Head(wire[u]).kind = "msg" /\ wire' = [wire EXCEPT ![u] = Tail(@)]
      /\ UNCHANGED <<mode, sess, keys, task, seen, up, initial, mailbox, interrupted,
                     opens, msgs, stops>>
  BY DEF ReceiveMsg, Receives, clientVars, counters
<1>2. /\ \A w \in Users : w # u => wire'[w] = wire[w]
      /\ Range(wire[u]) = Range(wire'[u]) \cup {Head(wire[u])}
  BY <1>1, HeadGone
<1>3. \A w \in Users : \A p : p.kind \in {"open", "ok"} =>
                              (p \in Range(wire'[w]) <=> p \in Range(wire[w]))
  BY <1>1, <1>2
<1>4. SeenSound' /\ AllUp'
  BY <1>1, SeenUpStay
<1> QED BY <1>1, <1>3, <1>4, IdleReach

\* The steps of the synchronization before its messages and after its openings.
LEMMA SyncingReach ==
  ASSUME IInv, ReachInv, NEW u \in Users, Start(u) \/ Fetch(u) \/ SyncInitialDone(u)
  PROVE  ReachInv'
<1>1. /\ mode[u] # "up" /\ \A w \in Users : mode'[w] = "up" <=> mode[w] = "up"
      /\ UNCHANGED <<sess, keys, task, seen, up, wire, initial, mailbox, lost, interrupted,
                     opens, msgs, stops>>
  <2>1. mode \in [Users -> {"down", "initial", "messages", "up"}]
    BY DEF IInv, TypeOK
  <2>2. CASE Start(u) \/ SyncInitialDone(u)
    BY <2>1, <2>2 DEF Start, SyncInitialDone, serverVars, counters
  <2>3. CASE Fetch(u)
    BY <2>3 DEF Fetch, Source, serverVars, counters
  <2> QED BY <2>2, <2>3
<1>2. SeenSound' /\ AllUp'
  BY <1>1 DEF ReachInv, SeenSound, AllUp
<1> QED BY <1>1, <1>2, IdleReach

\* A message that is synchronized is from a user with a session, if it is seen.
LEMMA SyncMsgReach ==
  ASSUME IInv, ReachInv, NEW u \in Users, SyncMsg(u)
  PROVE  ReachInv'
<1> DEFINE v == Head(mailbox[u]).from
<1>1. /\ mode[u] = "messages" /\ fetched[u] # 0
      /\ \/ UNCHANGED seen
         \/ sess[<<u, v>>] # Nobody /\ seen' = [seen EXCEPT ![u] = @ \cup {v}]
      /\ UNCHANGED <<mode, sess, keys, task, up, wire, initial, interrupted, opens, msgs, stops>>
  BY DEF SyncMsg, counters
<1>2. v # u
  <2>1. mailbox[u] \in Seq(Messages(u))
    BY InChannels
  <2>2. Head(mailbox[u]) \in Messages(u)
    BY <1>1, <2>1, BatchThere
  <2> QED BY <2>2 DEF Messages, Carried
<1>3. seen \in [Users -> SUBSET Users]
  BY DEF IInv, TypeOK
<1> HIDE DEF v
<1>4. SeenSound'
  <2>1. CASE UNCHANGED seen
    BY <1>1, <2>1 DEF ReachInv, SeenSound
  <2>2. CASE sess[<<u, v>>] # Nobody /\ seen' = [seen EXCEPT ![u] = @ \cup {v}]
    <3>1. \A w \in Users : \A x \in seen'[w] : x \in seen[w] \/ (w = u /\ x = v)
      BY <1>3, <2>2
    <3>2. ASSUME NEW w \in Users, NEW x \in seen'[w]
          PROVE  x # w /\ sess[<<w, x>>] # Nobody
      <4>1. CASE x \in seen[w]
        BY <4>1 DEF ReachInv, SeenSound
      <4>2. CASE w = u /\ x = v
        BY <1>2, <2>2, <4>2
      <4> QED BY <3>1, <4>1, <4>2
    <3>3. sess' = sess
      BY <1>1
    <3> QED BY <3>2, <3>3 DEF SeenSound
  <2> QED BY <1>1, <2>1, <2>2
<1>5. AllUp'
  BY <1>1 DEF ReachInv, AllUp
<1> QED BY <1>1, <1>4, <1>5, IdleReach

\* A message is no opening.
LEMMA SendReach ==
  ASSUME IInv, ReachInv, NEW u \in Users, NEW t \in Tasks, NEW v \in Peers(u), Send(u, t, v)
  PROVE  ReachInv'
<1> DEFINE e == [kind |-> "msg", from |-> u, to |-> v, key |-> sess[<<u, v>>].send, id |-> msgs + 1]
<1>1. /\ up' = [up EXCEPT ![u] = Append(@, e)] /\ e.kind = "msg" /\ sess[<<u, v>>] # Nobody
      /\ UNCHANGED <<mode, sess, keys, task, seen, wire, initial, mailbox, interrupted,
                     opens, stops>>
  BY DEF Send, clientVars
<1>2. up \in [Users -> Seq(Packet)]
  BY DEF IInv, TypeOK
<1> HIDE DEF e
<1>3. up'[u] = Append(up[u], e) /\ \A w \in Users : w # u => up'[w] = up[w]
  BY <1>1, <1>2
<1>4. up[u] \in Seq(Packet \cup {e})
  <2>1. up[u] \in Seq(Packet) /\ Packet \subseteq Packet \cup {e}
    BY <1>2
  <2> QED BY <2>1, SeqMonotonic
<1>5. Range(up'[u]) = Range(up[u]) \cup {e}
  BY <1>3, <1>4, RangeOfAppend
<1>6. \A w \in Users : \A p : p.kind = "open" => (p \in Range(up'[w]) <=> p \in Range(up[w]))
  BY <1>1, <1>3, <1>5
<1>7. \A q \in Pairs : Flying(q)' = Flying(q)
  <2>1. \A q \in Pairs : \A p : InTransit(q, p)' <=> InTransit(q, p)
    BY <1>1, <1>6, BackPair DEF InTransit
  <2> QED BY <2>1, FlyingSame
<1>8. \A q \in Pairs : Awaited(q)' = Awaited(q)
  BY <1>1, AwaitedSame
<1>9. ASSUME NEW w \in Users PROVE Once(w)'
  <2>1. Once(w)
    BY DEF ReachInv
  <2>2. CASE w = u
    <3>1. NoTwice(up[u])
      BY <2>1, <2>2 DEF Once
    <3>2. NoTwice(Append(up[u], e))
      BY <1>1, <1>4, <3>1, NoTwiceAppend
    <3>3. Unanswered(w)' /\ Asked(w)'
      BY <1>1, <1>6, <2>1 DEF Once, Unanswered, Asked, Asks
    <3> QED BY <1>3, <2>2, <3>2, <3>3 DEF Once
  <2>3. CASE w # u
    <3>1. \A n : \A x \in Tasks : Asks(<<w, x>>, n) => Asks(<<w, x>>, n)'
      BY <1>1 DEF Asks
    <3> QED BY <1>1, <1>3, <2>1, <2>3, <3>1, OnceStays
  <2> QED BY <2>2, <2>3
<1>10. SeenSound' /\ AllUp'
  BY <1>1, SeenUpStay
<1>11. Calm' => Calm
  BY <1>1 DEF Calm
<1>12. \A w \in Users : \A p \in Range(wire'[w]) : p.kind = "ok" => p.key.n <= opens
  BY <1>1 DEF ReachInv, Counted
<1> QED BY <1>1, <1>7, <1>8, <1>9, <1>10, <1>11, <1>12, QuietReach

\* The answer moves the task that waits for it on, and only that one.
LEMMA ReceiveOkReach ==
  ASSUME IInv, ReachInv, NEW u \in Users, ReceiveOk(u)
  PROVE  ReachInv'
<1> DEFINE h == Head(wire[u])
<1>1. /\ wire[u] # <<>> /\ h.kind = "ok" /\ wire' = [wire EXCEPT ![u] = Tail(@)]
      /\ task' = [w \in Users \X Tasks |->
                    IF w[1] = u /\ task[w].st = "opening" /\ task[w].n = h.key.n
                    THEN [task[w] EXCEPT !.st = "opened"] ELSE task[w]]
      /\ UNCHANGED <<mode, sess, keys, seen, up, initial, mailbox, lost, interrupted,
                     opens, msgs, stops>>
  BY DEF ReceiveOk, Receives, counters
<1>2. /\ \A w \in Users : w # u => wire'[w] = wire[w]
      /\ Range(wire[u]) = Range(wire'[u]) \cup {h}
  BY <1>1, HeadGone
<1> HIDE DEF h
<1>3. \A w \in Users \X Tasks : task[w] \in Task
  BY DEF IInv, TypeOK
<1>4. \A w \in Users \X Tasks :
        \/ task'[w] = task[w]
        \/ /\ w[1] = u /\ task[w].st = "opening" /\ task[w].n = h.key.n
           /\ task'[w].st = "opened" /\ task'[w].to = task[w].to /\ task'[w].n = task[w].n
  BY <1>1, <1>3 DEF Task
<1>5. \A q \in Pairs : Flying(q)' = Flying(q)
  <2>1. \A q \in Pairs : \A p : InTransit(q, p)' <=> InTransit(q, p)
    BY <1>1, <1>2, BackPair DEF InTransit
  <2> QED BY <2>1, FlyingSame
<1>6. \A q \in Pairs : Awaited(q)' = Awaited(q)
  BY <1>4, AwaitedSame
<1>7. ASSUME NEW w \in Users PROVE Once(w)'
  <2>1. Once(w)
    BY DEF ReachInv
  <2>2. CASE w = u
    <3>1. Unanswered(w)' /\ NoTwice(up[w])'
      BY <1>1, <1>2, <2>1, <2>2 DEF Once, Unanswered
    <3>2. ASSUME NEW p \in Range(up[w]), p.kind = "open"
          PROVE  \E t \in Tasks : Asks(<<w, t>>, p.key.n)'
      <4>1. PICK t \in Tasks : Asks(<<w, t>>, p.key.n)
        BY <2>1, <3>2 DEF Once, Asked
      <4>2. p.key.n # h.key.n
        BY <1>1, <1>2, <2>1, <2>2, <3>2 DEF Once, Unanswered
      <4>3. <<w, t>> \in Users \X Tasks
        OBVIOUS
      <4>4. task'[<<w, t>>] = task[<<w, t>>]
        BY <1>4, <4>1, <4>2, <4>3 DEF Asks
      <4> QED BY <4>1, <4>4 DEF Asks
    <3>3. Asked(w)'
      BY <1>1, <3>2 DEF Asked
    <3> QED BY <3>1, <3>3 DEF Once
  <2>3. CASE w # u
    <3>1. \A t \in Tasks : <<w, t>> \in Users \X Tasks /\ <<w, t>>[1] = w
      OBVIOUS
    <3>2. \A n : \A x \in Tasks : Asks(<<w, x>>, n) => Asks(<<w, x>>, n)'
      BY <1>4, <2>3, <3>1 DEF Asks
    <3> QED BY <1>1, <1>2, <2>1, <2>3, <3>2, OnceStays
  <2> QED BY <2>2, <2>3
<1>8. SeenSound' /\ AllUp'
  BY <1>1, SeenUpStay
<1>9. Calm' => Calm
  BY <1>1 DEF Calm
<1>10. \A w \in Users : \A p \in Range(wire'[w]) : p.kind = "ok" => p.key.n <= opens
  BY <1>2 DEF ReachInv, Counted
<1> QED BY <1>1, <1>5, <1>6, <1>7, <1>8, <1>9, <1>10, QuietReach

\* The server passes an opening on, or stores it.
LEMMA ServerReach ==
  ASSUME IInv, ReachInv, NEW u \in Users, ServerHandle(u)
  PROVE  ReachInv'
<1> DEFINE h == Head(up[u])
           o == [h EXCEPT !.kind = "ok"]
<1>1. /\ up[u] # <<>> /\ up' = [up EXCEPT ![u] = Tail(@)]
      /\ wire' = [w \in Users |->
                    IF w = h.to /\ mode[w] = "up" THEN Append(wire[w], h)
                    ELSE IF w = u /\ h.kind = "open" THEN Append(wire[u], o) ELSE wire[w]]
      /\ initial' = IF h.kind = "open" /\ mode[h.to] # "up"
                    THEN [initial EXCEPT ![h.to] = Append(@, h)] ELSE initial
      /\ UNCHANGED <<mode, sess, keys, task, seen, interrupted, opens, stops>>
  BY DEF ServerHandle, Stored, clientVars, counters
<1>2. /\ up \in [Users -> Seq(Packet)] /\ wire \in [Users -> Seq(Packet)]
      /\ initial \in [Users -> Seq(Packet)]
  BY DEF IInv, TypeOK
<1>3. /\ h \in Packet /\ h.from = u /\ h.to \in Users /\ h.to # u /\ h.kind # "ok"
      /\ h.kind = "open" => h.key \in Keys
  <2>1. up[u] \in Seq(Sent(u))
    BY InChannels
  <2>2. h \in Sent(u)
    BY <1>1, <2>1
  <2> QED BY <2>2 DEF Sent, Carried, Packet
<1>4. o \in Packet /\ o.kind = "ok" /\ o.key = h.key
  BY <1>3 DEF Packet
<1> HIDE DEF o
<1>5. up'[u] = Tail(up[u]) /\ \A w \in Users : w # u => up'[w] = up[w]
  BY <1>1, <1>2
<1>6. Range(up[u]) = Range(up'[u]) \cup {h}
  <2>1. up[u] \in Seq(Packet)
    BY <1>2
  <2> QED BY <1>1, <1>5, <2>1, RangeOfTail
<1> HIDE DEF h
<1>7. \A w \in Users : wire[w] \in Seq(Packet) /\ initial[w] \in Seq(Packet)
  BY <1>2
<1>8. ASSUME NEW w \in Users, NEW p
      PROVE  p \in Range(wire'[w]) <=>
               \/ p \in Range(wire[w])
               \/ w = h.to /\ mode[w] = "up" /\ p = h
               \/ w = u /\ h.kind = "open" /\ p = o
  <2>1. CASE w = h.to /\ mode[w] = "up"
    <3>1. wire'[w] = Append(wire[w], h)
      BY <1>1, <2>1
    <3>2. Range(wire'[w]) = Range(wire[w]) \cup {h}
      BY <1>3, <1>7, <3>1, RangeOfAppend
    <3> QED BY <1>3, <2>1, <3>2
  <2>2. CASE w = u /\ h.kind = "open"
    <3>1. wire'[w] = Append(wire[w], o)
      BY <1>1, <1>3, <2>2
    <3>2. Range(wire'[w]) = Range(wire[w]) \cup {o}
      BY <1>4, <1>7, <3>1, RangeOfAppend
    <3> QED BY <1>3, <2>2, <3>2
  <2>3. CASE ~(w = h.to /\ mode[w] = "up") /\ ~(w = u /\ h.kind = "open")
    <3>1. wire'[w] = wire[w]
      BY <1>1, <2>3
    <3> QED BY <2>3, <3>1
  <2> QED BY <2>1, <2>2, <2>3
<1>9. ASSUME NEW w \in Users, NEW p
      PROVE  p \in Range(initial'[w]) <=>
               \/ p \in Range(initial[w])
               \/ w = h.to /\ mode[w] # "up" /\ h.kind = "open" /\ p = h
  <2>1. CASE w = h.to /\ mode[w] # "up" /\ h.kind = "open"
    <3>1. initial'[w] = Append(initial[w], h)
      BY <1>1, <1>2, <2>1
    <3>2. Range(initial'[w]) = Range(initial[w]) \cup {h}
      BY <1>3, <1>7, <3>1, RangeOfAppend
    <3> QED BY <2>1, <3>2
  <2>2. CASE ~(w = h.to /\ mode[w] # "up" /\ h.kind = "open")
    <3>1. initial'[w] = initial[w]
      BY <1>1, <1>2, <1>3, <2>2
    <3> QED BY <2>2, <3>1
  <2> QED BY <2>1, <2>2
<1>10. \A q \in Pairs : Flying(q)' = Flying(q)
  <2>1. ASSUME NEW q \in Pairs, NEW p PROVE InTransit(q, p)' <=> InTransit(q, p)
    <3>1. q[1] \in Users /\ q[2] \in Users /\ q[1] # q[2]
      BY BackPair
    <3>2. p \in Range(up[q[1]]) <=> p \in Range(up'[q[1]]) \/ (q[1] = u /\ p = h)
      BY <1>5, <1>6, <3>1
    <3>3. /\ p \in Range(wire'[q[2]]) <=>
               \/ p \in Range(wire[q[2]])
               \/ q[2] = h.to /\ mode[q[2]] = "up" /\ p = h
               \/ q[2] = u /\ h.kind = "open" /\ p = o
          /\ p \in Range(initial'[q[2]]) <=>
               \/ p \in Range(initial[q[2]])
               \/ q[2] = h.to /\ mode[q[2]] # "up" /\ h.kind = "open" /\ p = h
      BY <1>8, <1>9, <3>1
    <3> QED BY <1>3, <1>4, <3>2, <3>3 DEF InTransit
  <2> QED BY <2>1, FlyingSame
<1>11. \A q \in Pairs : Awaited(q)' = Awaited(q)
  BY <1>1, AwaitedSame
<1>12. ASSUME NEW w \in Users PROVE Once(w)'
  <2>1. Once(w)
    BY DEF ReachInv
  <2>2. CASE w = u
    <3>1. up[u] \in Seq(Packet) /\ NoTwice(up[u])
      BY <1>2, <2>1, <2>2 DEF Once
    <3>2. /\ NoTwice(up'[u])
          /\ h.kind = "open" => \A p \in Range(up'[u]) : p.kind = "open" => p.key.n # h.key.n
      BY <1>1, <1>5, <3>1, NoTwiceTail DEF h
    <3>3. Unanswered(u)'
      <4> SUFFICES ASSUME NEW p \in Range(up'[u]), NEW x \in Range(wire'[u]),
                          p.kind = "open", x.kind = "ok"
                   PROVE  p.key.n # x.key.n
        BY DEF Unanswered
      <4>1. x \in Range(wire[u]) \/ (h.kind = "open" /\ x = o)
        BY <1>3, <1>8
      <4>2. CASE x \in Range(wire[u])
        BY <1>6, <2>1, <2>2, <4>2 DEF Once, Unanswered
      <4>3. CASE h.kind = "open" /\ x = o
        BY <1>4, <3>2, <4>3
      <4> QED BY <4>1, <4>2, <4>3
    <3>4. Asked(u)'
      BY <1>1, <1>6, <2>1, <2>2 DEF Once, Asked, Asks
    <3> QED BY <2>2, <3>2, <3>3, <3>4 DEF Once
  <2>3. CASE w # u
    <3>1. \A p \in Range(wire'[w]) : p.kind = "ok" => p \in Range(wire[w])
      BY <1>3, <1>8, <2>3
    <3>2. \A n : \A x \in Tasks : Asks(<<w, x>>, n) => Asks(<<w, x>>, n)'
      BY <1>1 DEF Asks
    <3> QED BY <1>5, <2>1, <2>3, <3>1, <3>2, OnceStays
  <2> QED BY <2>2, <2>3
<1>13. SeenSound' /\ AllUp'
  BY <1>1, SeenUpStay
<1>14. Calm' => Calm
  BY <1>1 DEF Calm
<1>15. ASSUME NEW w \in Users, NEW p \in Range(wire'[w]), p.kind = "ok" PROVE p.key.n <= opens
  <2>1. p \in Range(wire[w]) \/ (h.kind = "open" /\ p = o)
    BY <1>3, <1>8, <1>15
  <2>2. CASE p \in Range(wire[w])
    BY <1>15, <2>2 DEF ReachInv, Counted
  <2>3. CASE h.kind = "open" /\ p = o
    <3> DEFINE q == <<u, h.to>>
    <3>1. q \in Pairs /\ q[1] = u /\ q[2] = h.to
      BY <1>3 DEF Pairs
    <3> HIDE DEF q
    <3>2. InTransit(q, h)
      BY <1>3, <1>6, <2>3, <3>1 DEF InTransit
    <3>3. h.key \in Flying(q)
      BY <1>3, <2>3, <3>2, InFlight
    <3> QED BY <1>4, <2>3, <3>1, <3>3 DEF ReachInv, Counted, Known
  <2> QED BY <2>1, <2>2, <2>3
<1> QED BY <1>1, <1>10, <1>11, <1>12, <1>13, <1>14, <1>15, QuietReach

\* What the server could not relay, it stores.
LEMMA TakeBackReach ==
  ASSUME IInv, ReachInv, NEW u \in Users, TakeBack(u)
  PROVE  ReachInv'
<1> DEFINE e == Last(wire[u])
<1>1. /\ wire[u] # <<>> /\ wire' = [wire EXCEPT ![u] = Front(@)]
      /\ initial' = IF e.kind = "open" THEN [initial EXCEPT ![u] = <<e>> \o @] ELSE initial
      /\ UNCHANGED <<mode, sess, keys, task, seen, up, interrupted, opens, stops>>
  BY DEF TakeBack, clientVars, counters
<1>2. wire \in [Users -> Seq(Packet)] /\ initial \in [Users -> Seq(Packet)]
  BY DEF IInv, TypeOK
<1>3. e \in Packet
  BY <1>1, <1>2, FrontLast
<1>4. wire'[u] = Front(wire[u]) /\ \A w \in Users : w # u => wire'[w] = wire[w]
  BY <1>1, <1>2
<1>5. Range(wire[u]) = Range(wire'[u]) \cup {e}
  <2>1. wire[u] \in Seq(Packet)
    BY <1>2
  <2> QED BY <1>1, <1>4, <2>1, RangeOfFront
<1> HIDE DEF e
<1>6. \A w \in Users : w # u => initial'[w] = initial[w]
  BY <1>1, <1>2
<1>7. ASSUME NEW p
      PROVE  p \in Range(initial'[u]) <=> p \in Range(initial[u]) \/ (e.kind = "open" /\ p = e)
  <2>1. CASE e.kind = "open"
    <3>1. initial'[u] = <<e>> \o initial[u] /\ initial[u] \in Seq(Packet)
      BY <1>1, <1>2, <2>1
    <3>2. Range(initial'[u]) = Range(initial[u]) \cup {e}
      BY <1>3, <3>1, RangeOfCons
    <3> QED BY <2>1, <3>2
  <2>2. CASE e.kind # "open"
    BY <1>1, <2>2
  <2> QED BY <2>1, <2>2
<1>8. \A q \in Pairs : Flying(q)' = Flying(q)
  <2>1. ASSUME NEW q \in Pairs, NEW p PROVE InTransit(q, p)' <=> InTransit(q, p)
    <3>1. q[1] \in Users /\ q[2] \in Users
      BY BackPair
    <3>2. CASE q[2] = u
      BY <1>1, <1>5, <1>7, <3>2 DEF InTransit
    <3>3. CASE q[2] # u
      BY <1>1, <1>4, <1>6, <3>1, <3>3 DEF InTransit
    <3> QED BY <3>2, <3>3
  <2> QED BY <2>1, FlyingSame
<1>9. \A q \in Pairs : Awaited(q)' = Awaited(q)
  BY <1>1, AwaitedSame
<1>10. \A w \in Users : Range(wire'[w]) \subseteq Range(wire[w])
  BY <1>4, <1>5
<1>11. ASSUME NEW w \in Users PROVE Once(w)'
  <2>1. Once(w)
    BY DEF ReachInv
  <2>2. \A n : \A x \in Tasks : Asks(<<w, x>>, n) => Asks(<<w, x>>, n)'
    BY <1>1 DEF Asks
  <2> QED BY <1>1, <1>10, <2>1, <2>2, OnceStays
<1>12. SeenSound' /\ AllUp'
  BY <1>1, SeenUpStay
<1>13. Calm' => Calm
  BY <1>1 DEF Calm
<1>14. \A w \in Users : \A p \in Range(wire'[w]) : p.kind = "ok" => p.key.n <= opens
  BY <1>10 DEF ReachInv, Counted
<1> QED BY <1>1, <1>8, <1>9, <1>11, <1>12, <1>13, <1>14, QuietReach

\* One opening has two keys.
LEMMA OneSession ==
  ASSUME IInv, ReachInv, opens <= 1, NEW q \in Pairs, sess[q] # Nobody
  PROVE  keys[q] \subseteq CurrentKeys(sess[q])
<1>1. keys[q] \subseteq Keys /\ sess[q] \in Session /\ {sess[q].send, sess[q].recv} \subseteq keys[q]
  BY DEF IInv, TypeOK, SessionKeysKept
<1>2. sess[q].send \in Keys /\ sess[q].recv = Other(sess[q].send)
  BY <1>1 DEF Session, ReachInv, Shaped
<1>3. ASSUME NEW k \in keys[q] PROVE k \in CurrentKeys(sess[q])
  <2>1. SameOpening(sess[q].send, k)
    BY <1>1 DEF ReachInv, OneOpening, Known
  <2>2. k = sess[q].send \/ k = Other(sess[q].send)
    BY <1>1, <1>2, <2>1, TwoKeys
  <2> QED BY <1>2, <2>2 DEF CurrentKeys
<1> QED BY <1>3

\* The cleanup at the end of a synchronization spares what a calm run has met.
LEMMA CleanupSpares ==
  ASSUME IInv, ReachInv, Calm, NEW u \in Users, SyncDone(u)
  PROVE  \A q \in Pairs : keys'[q] = keys[q]
<1>1. /\ mode[u] = "messages"
      /\ keys' = [q \in Pairs |-> IF q[1] = u /\ q[2] \in seen[u]
                                  THEN keys[q] \cap CurrentKeys(sess[q]) ELSE keys[q]]
  BY DEF SyncDone
<1>2. stops # 0
  BY <1>1 DEF ReachInv, AllUp
<1>3. opens <= 1
  BY <1>2 DEF Calm
<1>4. ASSUME NEW q \in Pairs PROVE keys'[q] = keys[q]
  <2>1. CASE q[1] = u /\ q[2] \in seen[u]
    <3>1. q = <<u, q[2]>>
      BY <2>1, BackPair
    <3>2. sess[q] # Nobody
      BY <2>1, <3>1 DEF ReachInv, SeenSound
    <3>3. keys[q] \subseteq CurrentKeys(sess[q])
      BY <1>3, <3>2, OneSession
    <3> QED BY <1>1, <2>1, <3>3
  <2>2. CASE ~(q[1] = u /\ q[2] \in seen[u])
    BY <1>1, <2>2
  <2> QED BY <2>1, <2>2
<1> QED BY <1>4

LEMMA SyncDoneReach ==
  ASSUME IInv, ReachInv, NEW u \in Users, SyncDone(u)
  PROVE  ReachInv'
<1>1. /\ mode[u] = "messages" /\ mode' = [mode EXCEPT ![u] = "up"]
      /\ keys' = [q \in Pairs |-> IF q[1] = u /\ q[2] \in seen[u]
                                  THEN keys[q] \cap CurrentKeys(sess[q]) ELSE keys[q]]
      /\ seen' = [seen EXCEPT ![u] = {}]
      /\ wire' = [wire EXCEPT ![u] = @ \o initial[u]] /\ initial' = [initial EXCEPT ![u] = <<>>]
      /\ UNCHANGED <<sess, task, up, interrupted, opens, stops>>
  BY DEF SyncDone, counters
<1>2. /\ wire \in [Users -> Seq(Packet)] /\ initial \in [Users -> Seq(Packet)]
      /\ seen \in [Users -> SUBSET Users]
      /\ mode \in [Users -> {"down", "initial", "messages", "up"}]
  BY DEF IInv, TypeOK
<1>3. \A w \in Users : w # u => wire'[w] = wire[w] /\ initial'[w] = initial[w]
  BY <1>1, <1>2
<1>4. Range(wire'[u]) = Range(wire[u]) \cup Range(initial[u]) /\ Range(initial'[u]) = {}
  <2>1. wire'[u] = wire[u] \o initial[u] /\ initial'[u] = <<>>
    BY <1>1, <1>2
  <2>2. wire[u] \in Seq(Packet) /\ initial[u] \in Seq(Packet)
    BY <1>2
  <2>3. Range(wire'[u]) = Range(wire[u]) \cup Range(initial[u])
    BY <2>1, <2>2, RangeOfJoin
  <2>4. Range(<<>>) = {}
    BY DEF Range
  <2> QED BY <2>1, <2>3, <2>4
<1>5. \A q \in Pairs : Flying(q)' = Flying(q)
  <2>1. ASSUME NEW q \in Pairs, NEW p PROVE InTransit(q, p)' <=> InTransit(q, p)
    <3>1. q[1] \in Users /\ q[2] \in Users
      BY BackPair
    <3> QED BY <1>1, <1>3, <1>4, <3>1 DEF InTransit
  <2> QED BY <2>1, FlyingSame
<1>6. \A q \in Pairs : Awaited(q)' = Awaited(q)
  BY <1>1, AwaitedSame
<1>7. \A p \in Range(initial[u]) : p.kind = "open"
  BY InChannels DEF Openings
<1>8. \A w \in Users : \A p \in Range(wire'[w]) : p.kind = "ok" => p \in Range(wire[w])
  BY <1>3, <1>4, <1>7
<1>9. ASSUME NEW w \in Users PROVE Once(w)'
  <2>1. Once(w)
    BY DEF ReachInv
  <2>2. \A n : \A x \in Tasks : Asks(<<w, x>>, n) => Asks(<<w, x>>, n)'
    BY <1>1 DEF Asks
  <2> QED BY <1>1, <1>8, <2>1, <2>2, OnceStays
<1>10. SeenSound'
  <2>1. \A w \in Users : seen'[w] \subseteq seen[w]
    BY <1>1, <1>2
  <2> QED BY <1>1, <2>1 DEF ReachInv, SeenSound
<1>11. AllUp'
  BY <1>1, <1>2 DEF ReachInv, AllUp
<1>12. Shaped'
  BY <1>1 DEF ReachInv, Shaped
<1>13. \A q \in Pairs : keys'[q] \subseteq keys[q]
  BY <1>1
<1>14. Narrows
  BY <1>5, <1>6, <1>13 DEF Narrows
<1>15. ASSUME Calm' PROVE Calm /\ Delivers
  <2>1. Calm
    BY <1>1, <1>15 DEF Calm
  <2>2. \A q \in Pairs : keys'[q] = keys[q]
    BY <2>1, CleanupSpares
  <2>3. Delivers
    BY <1>1, <1>5, <1>6, <2>2 DEF Delivers
  <2> QED BY <2>1, <2>3
<1>16. \A w \in Users : \A p \in Range(wire'[w]) : p.kind = "ok" => p.key.n <= opens
  BY <1>8 DEF ReachInv, Counted
<1>17. opens' = opens
  BY <1>1
<1> QED BY <1>9, <1>10, <1>11, <1>12, <1>14, <1>15, <1>16, <1>17, Follows

\* A client that handles an opening has its keys, and whoever sent it has or waits
\* for the other one.
LEMMA AcceptReach ==
  ASSUME IInv, ReachInv, NEW u \in Users, NEW p \in Openings(u), AcceptSession(u, p),
         InTransit(<<p.from, u>>, p),
         \A r \in Pairs : \A x :
           /\ InTransit(r, x) => InTransit(r, x)' \/ (r = <<p.from, u>> /\ x = p)
           /\ InTransit(r, x)' => InTransit(r, x),
         \A w \in Users : Range(wire'[w]) \subseteq Range(wire[w]),
         UNCHANGED <<mode, task, seen, up, interrupted, opens, stops>>
  PROVE  ReachInv'
<1> DEFINE v == p.from
           k == p.key
           j == [p.key EXCEPT !.side = "j"]
           q == <<u, v>>
           b == <<v, u>>
           s == [send |-> j, recv |-> k]
<1>1. /\ v \in Users /\ v # u /\ k \in Keys /\ k.side = "i"
  BY DEF Openings, Carried, Packet
<1>2. /\ j \in Keys /\ j = Other(k) /\ SameOpening(j, k) /\ SameOpening(k, k) /\ Other(j) = k
  <2>1. j = Other(k)
    BY <1>1 DEF Other, Keys
  <2> HIDE DEF j
  <2> QED BY <1>1, <2>1, OtherKey DEF SameOpening
<1>3. /\ q \in Pairs /\ b \in Pairs /\ Back(q) = b /\ Back(b) = q
  BY <1>1 DEF Pairs, Back
<1>4. /\ keys' = [keys EXCEPT ![q] = @ \cup {k, j}] /\ sess' = [sess EXCEPT ![q] = s]
  BY DEF AcceptSession
<1>5. s.send = j /\ s.recv = k /\ s \in Session
  BY <1>1, <1>2 DEF Session
<1>6. InTransit(b, p)
  OBVIOUS
<1>7. \A r \in Pairs : \A x :
        /\ InTransit(r, x) => InTransit(r, x)' \/ (r = b /\ x = p)
        /\ InTransit(r, x)' => InTransit(r, x)
  OBVIOUS
<1> HIDE DEF s, q, b, j, v
<1>8. keys \in [Pairs -> SUBSET Keys] /\ sess \in [Pairs -> Session \cup {Nobody}]
  BY DEF IInv, TypeOK
<1>9. keys'[q] = keys[q] \cup {k, j} /\ \A r \in Pairs : r # q => keys'[r] = keys[r]
  BY <1>3, <1>4, <1>8
<1>10. sess'[q] = s /\ \A r \in Pairs : r # q => sess'[r] = sess[r]
  BY <1>3, <1>4, <1>8
<1>11. k \in Flying(b)
  BY <1>1, <1>6, InFlight
<1>12. \A r \in Pairs : /\ Flying(r)' \subseteq Flying(r)
                        /\ Flying(r) \subseteq Flying(r)' \cup (IF r = b THEN {k} ELSE {})
  <2>1. ASSUME NEW r \in Pairs, NEW x \in Flying(r)' PROVE x \in Flying(r)
    <3>1. x \in Keys /\ \E y : InTransit(r, y)' /\ y.key = x
      BY <2>1, InFlight
    <3> QED BY <1>7, <3>1, InFlight
  <2>2. ASSUME NEW r \in Pairs, NEW x \in Flying(r) PROVE x \in Flying(r)' \/ (r = b /\ x = k)
    <3>1. x \in Keys
      BY <2>2, InFlight
    <3>2. PICK y : InTransit(r, y) /\ y.key = x
      BY <2>2, InFlight
    <3>3. CASE InTransit(r, y)'
      BY <3>1, <3>2, <3>3, InFlight
    <3>4. CASE r = b /\ y = p
      BY <3>2, <3>4
    <3>5. InTransit(r, y)' \/ (r = b /\ y = p)
      BY <1>7, <3>2
    <3> QED BY <3>3, <3>4, <3>5
  <2> QED BY <2>1, <2>2
<1>13. \A r \in Pairs : Awaited(r)' = Awaited(r)
  BY AwaitedSame
<1>14. Narrows
  <2>1. ASSUME NEW r \in Pairs, NEW x \in keys'[r], x \notin keys[r]
        PROVE  \E y \in Pairs : \E l \in Flying(y) \cup Awaited(y) : SameOpening(x, l)
    <3>1. x = k \/ x = j
      BY <1>9, <2>1
    <3>2. SameOpening(x, k)
      BY <1>2, <3>1
    <3> QED BY <1>3, <1>11, <3>2
  <2> QED BY <1>12, <1>13, <2>1 DEF Narrows
<1>15. ASSUME Calm' PROVE Calm /\ Delivers
  <2>1. Calm
    BY <1>15 DEF Calm
  <2>2. j \in Awaited(b) \cup keys[b]
    BY <1>2, <1>3, <1>11, <2>1 DEF ReachInv, Met
  <2>3. b # q
    BY <1>1 DEF b, q
  <2>4. Reaches(q)'
    <3>1. j \in Awaited(b)' \cup keys'[b]
      BY <1>3, <1>9, <1>13, <2>2, <2>3
    <3> QED BY <1>3, <1>5, <1>10, <3>1 DEF Reaches
  <2>5. ASSUME NEW r \in Pairs PROVE Flying(r) \subseteq Flying(r)' \cup keys'[Back(r)]
    <3>1. CASE r = b
      BY <1>3, <1>9, <1>12, <3>1
    <3>2. CASE r # b
      BY <1>12, <3>2
    <3> QED BY <3>1, <3>2
  <2>6. Delivers
    BY <1>9, <1>10, <1>13, <2>4, <2>5 DEF Delivers
  <2> QED BY <2>1, <2>6
<1>16. Shaped'
  <2>1. ASSUME NEW r \in Pairs, sess'[r] # Nobody PROVE sess'[r].recv = Other(sess'[r].send)
    <3>1. CASE r = q
      BY <1>2, <1>5, <1>10, <3>1
    <3>2. CASE r # q
      BY <1>10, <2>1, <3>2 DEF ReachInv, Shaped
    <3> QED BY <3>1, <3>2
  <2> QED BY <2>1 DEF Shaped
<1>17. SeenSound'
  <2>1. ASSUME NEW w \in Users, NEW x \in seen[w] PROVE x # w /\ sess'[<<w, x>>] # Nobody
    <3>1. x # w /\ sess[<<w, x>>] # Nobody
      BY DEF ReachInv, SeenSound
    <3>2. x \in Users
      BY DEF IInv, TypeOK
    <3>3. <<w, x>> \in Pairs
      BY <3>1, <3>2 DEF Pairs
    <3>4. s # Nobody
      BY <1>5, SessionsAssumption
    <3> QED BY <1>10, <3>1, <3>3, <3>4
  <2> QED BY <2>1 DEF SeenSound
<1>18. AllUp'
  BY DEF ReachInv, AllUp
<1>19. ASSUME NEW w \in Users PROVE Once(w)'
  <2>1. Once(w)
    BY DEF ReachInv
  <2>2. \A n : \A x \in Tasks : Asks(<<w, x>>, n) => Asks(<<w, x>>, n)'
    BY DEF Asks
  <2> QED BY <2>1, <2>2, OnceStays
<1>20. \A w \in Users : \A x \in Range(wire'[w]) : x.kind = "ok" => x.key.n <= opens
  BY DEF ReachInv, Counted
<1> QED BY <1>14, <1>15, <1>16, <1>17, <1>18, <1>19, <1>20, Follows

\* An opening that is relayed is accepted.
LEMMA ReceiveOpenReach ==
  ASSUME IInv, ReachInv, NEW u \in Users, ReceiveOpen(u)
  PROVE  ReachInv'
<1> DEFINE p == Head(wire[u])
<1>1. /\ wire[u] # <<>> /\ p.kind = "open" /\ wire' = [wire EXCEPT ![u] = Tail(@)]
      /\ AcceptSession(u, p)
      /\ UNCHANGED <<mode, task, seen, up, initial, interrupted, opens, stops>>
  BY DEF ReceiveOpen, Receives, counters
<1>2. /\ p \in Written(u)
      /\ \A w \in Users : w # u => wire'[w] = wire[w]
      /\ Range(wire[u]) = Range(wire'[u]) \cup {p}
  BY <1>1, HeadGone
<1> HIDE DEF p
<1>3. p \in Openings(u)
  BY <1>1, <1>2 DEF Written, Openings
<1> DEFINE b == <<p.from, u>>
<1>4. b[1] = p.from /\ b[2] = u
  OBVIOUS
<1> HIDE DEF b
<1>5. p.to = u
  BY <1>3 DEF Openings
<1>6. InTransit(b, p)
  BY <1>1, <1>2, <1>4, <1>5 DEF InTransit
<1>7. ASSUME NEW r \in Pairs, NEW x
      PROVE  /\ InTransit(r, x) => InTransit(r, x)' \/ (r = b /\ x = p)
             /\ InTransit(r, x)' => InTransit(r, x)
  <2>1. r[1] \in Users /\ r[2] \in Users /\ r = <<r[1], r[2]>>
    BY BackPair
  <2>2. CASE r[2] # u
    BY <1>1, <1>2, <2>1, <2>2 DEF InTransit
  <2>3. CASE r[2] = u
    <3>1. ASSUME InTransit(r, p) PROVE r = b
      BY <2>1, <2>3, <3>1 DEF InTransit, b
    <3> QED BY <1>1, <1>2, <2>3, <3>1 DEF InTransit
  <2> QED BY <2>2, <2>3
<1>8. \A w \in Users : Range(wire'[w]) \subseteq Range(wire[w])
  BY <1>2
<1> QED BY <1>1, <1>3, <1>6, <1>7, <1>8, AcceptReach DEF b

\* An opening that was stored is accepted.
LEMMA SyncInitialReach ==
  ASSUME IInv, ReachInv, NEW u \in Users, SyncInitial(u)
  PROVE  ReachInv'
<1> DEFINE p == Head(initial[u])
<1>1. /\ mode[u] = "initial" /\ fetched[u] # 0 /\ initial' = [initial EXCEPT ![u] = Tail(@)]
      /\ AcceptSession(u, p)
      /\ UNCHANGED <<mode, task, seen, up, wire, interrupted, opens, stops>>
  BY DEF SyncInitial, counters
<1>2. initial[u] \in Seq(Openings(u)) /\ initial \in [Users -> Seq(Packet)] /\ initial[u] # <<>>
  BY <1>1, InChannels, BatchThere DEF IInv, TypeOK
<1>3. initial'[u] = Tail(initial[u]) /\ \A w \in Users : w # u => initial'[w] = initial[w]
  BY <1>1, <1>2
<1>4. p \in Openings(u)
  BY <1>1, <1>2
<1>5. Range(initial[u]) = Range(initial'[u]) \cup {p}
  BY <1>1, <1>2, <1>3, RangeOfTail
<1> HIDE DEF p
<1> DEFINE b == <<p.from, u>>
<1>6. b[1] = p.from /\ b[2] = u
  OBVIOUS
<1> HIDE DEF b
<1>7. p.to = u /\ p.kind = "open"
  BY <1>4 DEF Openings
<1>8. InTransit(b, p)
  BY <1>5, <1>6, <1>7 DEF InTransit
<1>9. ASSUME NEW r \in Pairs, NEW x
      PROVE  /\ InTransit(r, x) => InTransit(r, x)' \/ (r = b /\ x = p)
             /\ InTransit(r, x)' => InTransit(r, x)
  <2>1. r[1] \in Users /\ r[2] \in Users /\ r = <<r[1], r[2]>>
    BY BackPair
  <2>2. CASE r[2] # u
    BY <1>1, <1>3, <2>1, <2>2 DEF InTransit
  <2>3. CASE r[2] = u
    <3>1. ASSUME InTransit(r, p) PROVE r = b
      BY <2>1, <2>3, <3>1 DEF InTransit, b
    <3> QED BY <1>1, <1>5, <2>3, <3>1 DEF InTransit
  <2> QED BY <2>2, <2>3
<1>10. \A w \in Users : Range(wire'[w]) \subseteq Range(wire[w])
  BY <1>1
<1> QED BY <1>1, <1>4, <1>8, <1>9, <1>10, AcceptReach DEF b

\* What a task that is not idle waits for.
LEMMA InWait ==
  ASSUME NEW q, NEW k
  PROVE  k \in Awaited(q) <=>
           k \in Keys /\ \E t \in Tasks : /\ task[<<q[1], t>>].st \in {"opening", "opened"}
                                          /\ task[<<q[1], t>>].to = q[2]
                                          /\ Key(task[<<q[1], t>>].n, q[1], q[2], "j") = k
BY DEF Awaited, OpeningPending

\* The task that was answered stores its keys, the peer has or will have them.
LEMMA UpdateReach ==
  ASSUME IInv, ReachInv, NEW u \in Users, NEW t \in Tasks, UpdateSession(u, t)
  PROVE  ReachInv'
<1>2. task \in [Users \X Tasks -> Task] /\ <<u, t>> \in Users \X Tasks
  BY DEF IInv, TypeOK
<1>3. PICK v \in Users, n \in 1 .. MaxOpens :
         v # u /\ task[<<u, t>>].to = v /\ task[<<u, t>>].n = n
  <2>1. task[<<u, t>>].st = "opened"
    BY DEF UpdateSession
  <2> QED BY <1>2, <2>1 DEF IInv, TasksSound, Task
<1> DEFINE i == Key(n, u, v, "i")
           j == Key(n, u, v, "j")
           q == <<u, v>>
           s == [send |-> i, recv |-> j]
<1>1. /\ task[<<u, t>>].st = "opened"
      /\ keys' = [keys EXCEPT ![q] = @ \cup {i, j}] /\ sess' = [sess EXCEPT ![q] = s]
      /\ task' = [task EXCEPT ![<<u, t>>] = Idle(u)]
      /\ UNCHANGED <<mode, seen, up, wire, initial, interrupted, opens, stops>>
  BY <1>3 DEF UpdateSession, serverVars, counters
<1>4. i \in Keys /\ j \in Keys /\ j = Other(i) /\ i = Other(j)
      /\ SameOpening(i, j) /\ SameOpening(j, j)
  <2>1. i \in Keys /\ j \in Keys
    BY <1>3, KeyType
  <2>2. j = Other(i) /\ SameOpening(i, j) /\ SameOpening(j, j)
    BY DEF Other, Key, SameOpening
  <2> HIDE DEF i, j
  <2> QED BY <2>1, <2>2, OtherKey
<1>5. q \in Pairs /\ Back(q) \in Pairs /\ q[1] = u /\ q[2] = v /\ Back(q) # q
  BY <1>3 DEF Pairs, Back
<1>6. s.send = i /\ s.recv = j /\ s \in Session
  BY <1>4 DEF Session
<1>7. j \in Awaited(q)
  <2>1. /\ task[<<q[1], t>>].st \in {"opening", "opened"} /\ task[<<q[1], t>>].to = q[2]
        /\ Key(task[<<q[1], t>>].n, q[1], q[2], "j") = j
    BY <1>1, <1>3
  <2> HIDE DEF j, q
  <2> QED BY <1>4, <2>1, InWait
<1>8. ASSUME NEW r \in Pairs
      PROVE  Awaited(r)' \subseteq Awaited(r) /\ Awaited(r) \subseteq Awaited(r)' \cup (IF r = q THEN {j} ELSE {})
  <2>1. r[1] \in Users /\ r = <<r[1], r[2]>> /\ \A x \in Tasks : <<r[1], x>> \in Users \X Tasks
    BY BackPair
  <2>2. \A x \in Tasks : \/ task'[<<r[1], x>>] = task[<<r[1], x>>]
                         \/ /\ r[1] = u /\ x = t
                            /\ task'[<<r[1], x>>].st = "idle"
    BY <1>1, <1>2, <2>1 DEF Idle
  <2>3. \A k \in Awaited(r)' : k \in Awaited(r)
    BY <2>2 DEF Awaited, OpeningPending
  <2>4. ASSUME NEW k \in Awaited(r) PROVE k \in Awaited(r)' \/ (r = q /\ k = j)
    <3>1. PICK x \in Tasks : /\ task[<<r[1], x>>].st \in {"opening", "opened"}
                             /\ task[<<r[1], x>>].to = r[2]
                             /\ Key(task[<<r[1], x>>].n, r[1], r[2], "j") = k
      BY <2>4, InWait
    <3>2. CASE task'[<<r[1], x>>] = task[<<r[1], x>>]
      BY <2>4, <3>1, <3>2 DEF Awaited, OpeningPending
    <3>3. CASE r[1] = u /\ x = t
      BY <1>3, <2>1, <3>1, <3>3
    <3> QED BY <2>2, <3>2, <3>3
  <2> QED BY <2>3, <2>4
<1> HIDE DEF s, q, i, j
<1>9. keys \in [Pairs -> SUBSET Keys] /\ sess \in [Pairs -> Session \cup {Nobody}]
  BY DEF IInv, TypeOK
<1>10. keys'[q] = keys[q] \cup {i, j} /\ \A r \in Pairs : r # q => keys'[r] = keys[r]
  BY <1>1, <1>5, <1>9
<1>11. sess'[q] = s /\ \A r \in Pairs : r # q => sess'[r] = sess[r]
  BY <1>1, <1>5, <1>9
<1>12. \A r \in Pairs : Flying(r)' = Flying(r)
  <2>1. \A r \in Pairs : \A p : InTransit(r, p)' <=> InTransit(r, p)
    BY <1>1 DEF InTransit
  <2> QED BY <2>1, FlyingSame
<1>13. Narrows
  <2>1. ASSUME NEW r \in Pairs, NEW x \in keys'[r], x \notin keys[r]
        PROVE  \E y \in Pairs : \E l \in Flying(y) \cup Awaited(y) : SameOpening(x, l)
    <3>1. x = i \/ x = j
      BY <1>10, <2>1
    <3>2. SameOpening(x, j)
      BY <1>4, <3>1
    <3> QED BY <1>5, <1>7, <3>2
  <2> QED BY <1>8, <1>12, <2>1 DEF Narrows
<1>14. ASSUME Calm' PROVE Calm /\ Delivers
  <2>1. Calm
    BY <1>1, <1>14 DEF Calm
  <2>2. i \in Flying(q) \cup keys[Back(q)]
    BY <1>4, <1>5, <1>7, <2>1 DEF ReachInv, Met
  <2>3. Reaches(q)'
    <3>1. i \in Flying(q)' \cup keys'[Back(q)]
      BY <1>5, <1>10, <1>12, <2>2
    <3> QED BY <1>6, <1>11, <3>1 DEF Reaches
  <2>4. ASSUME NEW r \in Pairs PROVE Awaited(r) \subseteq Awaited(r)' \cup keys'[r]
    <3>1. CASE r = q
      BY <1>8, <1>10, <3>1
    <3>2. CASE r # q
      BY <1>8, <3>2
    <3> QED BY <3>1, <3>2
  <2>5. Delivers
    BY <1>10, <1>11, <1>12, <2>3, <2>4 DEF Delivers
  <2> QED BY <2>1, <2>5
<1>15. Shaped'
  <2>1. ASSUME NEW r \in Pairs, sess'[r] # Nobody PROVE sess'[r].recv = Other(sess'[r].send)
    <3>1. CASE r = q
      BY <1>4, <1>6, <1>11, <3>1
    <3>2. CASE r # q
      BY <1>11, <2>1, <3>2 DEF ReachInv, Shaped
    <3> QED BY <3>1, <3>2
  <2> QED BY <2>1 DEF Shaped
<1>16. SeenSound'
  <2>1. ASSUME NEW w \in Users, NEW x \in seen[w] PROVE x # w /\ sess'[<<w, x>>] # Nobody
    <3>1. x # w /\ sess[<<w, x>>] # Nobody
      BY DEF ReachInv, SeenSound
    <3>2. x \in Users
      BY DEF IInv, TypeOK
    <3>3. <<w, x>> \in Pairs
      BY <3>1, <3>2 DEF Pairs
    <3>4. s # Nobody
      BY <1>6, SessionsAssumption
    <3> QED BY <1>11, <3>1, <3>3, <3>4
  <2> QED BY <1>1, <2>1 DEF SeenSound
<1>17. AllUp'
  BY <1>1 DEF ReachInv, AllUp
<1>18. ASSUME NEW w \in Users PROVE Once(w)'
  <2>1. Once(w)
    BY DEF ReachInv
  <2>2. \A x \in Tasks : <<w, x>> \in Users \X Tasks
    OBVIOUS
  <2>3. \A m : \A x \in Tasks : Asks(<<w, x>>, m) => Asks(<<w, x>>, m)'
    BY <1>1, <1>2, <2>2 DEF Asks
  <2> QED BY <1>1, <2>1, <2>3, OnceStays
<1>19. \A w \in Users : \A x \in Range(wire'[w]) : x.kind = "ok" => x.key.n <= opens
  BY <1>1 DEF ReachInv, Counted
<1>20. opens' = opens
  BY <1>1
<1> QED BY <1>13, <1>14, <1>15, <1>16, <1>17, <1>18, <1>19, <1>20, Follows

\* A new opening is on its way, and its task waits for it.
LEMMA OpenReach ==
  ASSUME IInv, ReachInv, NEW u \in Users, NEW t \in Tasks, OpenSession(u, t)
  PROVE  ReachInv'
<1>1. task \in [Users \X Tasks -> Task] /\ <<u, t>> \in Users \X Tasks
  BY DEF IInv, TypeOK
<1>2. PICK v \in Users : v # u /\ task[<<u, t>>].to = v
  <2>1. task[<<u, t>>].st = "bundle"
    BY DEF OpenSession
  <2> QED BY <1>1, <2>1 DEF IInv, TasksSound, Task
<1>3. PICK n \in 1 .. MaxOpens : n = opens + 1
  <2>1. opens \in 0 .. MaxOpens /\ opens < MaxOpens
    BY DEF OpenSession, IInv, TypeOK
  <2>2. opens + 1 \in 1 .. MaxOpens
    BY <2>1, SessionsAssumption
  <2> QED BY <2>2
<1> DEFINE i == Key(n, u, v, "i")
           j == Key(n, u, v, "j")
           q == <<u, v>>
           e == [kind |-> "open", from |-> u, to |-> v, key |-> i, id |-> 0]
           a == [st |-> "opening", to |-> v, n |-> n]
<1>4. /\ task[<<u, t>>].st = "bundle" /\ opens' = n
      /\ task' = [task EXCEPT ![<<u, t>>] = a] /\ up' = [up EXCEPT ![u] = Append(@, e)]
      /\ UNCHANGED <<mode, sess, keys, seen, wire, initial, interrupted, stops>>
  BY <1>2, <1>3 DEF OpenSession
<1>5. /\ i \in Keys /\ j \in Keys /\ j = Other(i) /\ i = Other(j) /\ i.n = n /\ j.n = n
      /\ SameOpening(i, i) /\ SameOpening(i, j) /\ SameOpening(j, i) /\ SameOpening(j, j)
  <2>1. i \in Keys /\ j \in Keys
    BY <1>2, KeyType
  <2>2. /\ j = Other(i) /\ i.n = n /\ j.n = n /\ SameOpening(i, j) /\ SameOpening(j, j)
        /\ SameOpening(i, i) /\ SameOpening(j, i)
    BY DEF Other, Key, SameOpening
  <2> HIDE DEF i, j
  <2> QED BY <2>1, <2>2, OtherKey
<1>6. q \in Pairs /\ q[1] = u /\ q[2] = v
  BY <1>2 DEF Pairs
<1>7. e.kind = "open" /\ e.from = u /\ e.to = v /\ e.key = i
  OBVIOUS
<1>8. a.st = "opening" /\ a.to = v /\ a.n = n
  OBVIOUS
<1>9. up \in [Users -> Seq(Packet)]
  BY DEF IInv, TypeOK
<1>10. opens \in Nat
  BY SessionsAssumption DEF IInv, TypeOK
<1>11. /\ \A w \in Users \X Tasks : w # <<u, t>> => task'[w] = task[w]
       /\ task'[<<u, t>>] = a
  BY <1>1, <1>4
<1>12. Key(n, u, v, "j") = j
  OBVIOUS
<1> HIDE DEF i, j, e, a
<1>13. up'[u] = Append(up[u], e) /\ \A w \in Users : w # u => up'[w] = up[w]
  BY <1>4, <1>9
<1>14. up[u] \in Seq(Packet \cup {e})
  <2>1. up[u] \in Seq(Packet) /\ Packet \subseteq Packet \cup {e}
    BY <1>9
  <2> QED BY <2>1, SeqMonotonic
<1>15. Range(up'[u]) = Range(up[u]) \cup {e}
  BY <1>13, <1>14, RangeOfAppend
<1>16. ASSUME NEW r \in Pairs, NEW p
       PROVE  InTransit(r, p)' <=> InTransit(r, p) \/ (r = q /\ p = e)
  <2>1. r[1] \in Users /\ r = <<r[1], r[2]>>
    BY BackPair
  <2>2. p \in Range(up'[r[1]]) <=> p \in Range(up[r[1]]) \/ (r[1] = u /\ p = e)
    BY <1>13, <1>15, <2>1
  <2>3. e.kind = "open" /\ e.from = r[1] /\ e.to = r[2] <=> r = q
    BY <1>6, <1>7, <2>1
  <2> QED BY <1>4, <1>6, <1>7, <2>2, <2>3 DEF InTransit
<1>17. \A r \in Pairs : Flying(r)' = Flying(r) \cup (IF r = q THEN {i} ELSE {})
  <2>1. ASSUME NEW r \in Pairs, NEW k PROVE k \in Flying(r)' <=> k \in Flying(r) \/ (r = q /\ k = i)
    <3>1. k \in Flying(r) <=> k \in Keys /\ \E p : InTransit(r, p) /\ p.key = k
      BY InFlight
    <3>2. k \in Flying(r)' <=> k \in Keys /\ \E p : InTransit(r, p)' /\ p.key = k
      BY InFlight
    <3> QED BY <1>5, <1>7, <1>16, <3>1, <3>2
  <2> QED BY <2>1
<1>18. \A r \in Pairs : Awaited(r)' = Awaited(r) \cup (IF r = q THEN {j} ELSE {})
  <2>1. ASSUME NEW r \in Pairs, NEW k PROVE k \in Awaited(r)' <=> k \in Awaited(r) \/ (r = q /\ k = j)
    <3>1. r[1] \in Users /\ r = <<r[1], r[2]>> /\ \A x \in Tasks : <<r[1], x>> \in Users \X Tasks
      BY BackPair
    <3>2. ASSUME NEW x \in Tasks
          PROVE  (/\ task'[<<r[1], x>>].st \in {"opening", "opened"} /\ task'[<<r[1], x>>].to = r[2]
                  /\ Key(task'[<<r[1], x>>].n, r[1], r[2], "j") = k)
                 <=> \/ /\ task[<<r[1], x>>].st \in {"opening", "opened"}
                        /\ task[<<r[1], x>>].to = r[2]
                        /\ Key(task[<<r[1], x>>].n, r[1], r[2], "j") = k
                     \/ r = q /\ x = t /\ k = j
      <4>1. CASE r[1] = u /\ x = t
        <5>1. task'[<<r[1], x>>] = a /\ task[<<r[1], x>>].st = "bundle"
          BY <1>4, <1>11, <4>1
        <5>2. r = q <=> r[2] = v
          BY <1>6, <3>1, <4>1
        <5> QED BY <1>8, <1>12, <4>1, <5>1, <5>2
      <4>2. CASE ~(r[1] = u /\ x = t)
        <5>1. task'[<<r[1], x>>] = task[<<r[1], x>>]
          BY <1>11, <3>1, <4>2
        <5> QED BY <1>6, <4>2, <5>1
      <4> QED BY <4>1, <4>2
    <3> QED BY <1>5, <3>2 DEF Awaited, OpeningPending
  <2> QED BY <2>1
<1> HIDE DEF q
<1>19. \A r \in Pairs : Known(r)' = Known(r) \cup (IF r = q THEN {i, j} ELSE {})
  BY <1>4, <1>17, <1>18 DEF Known
<1>20. \A r \in Pairs : Known(r) \subseteq Keys
  BY DEF Known, Flying, Awaited, IInv, TypeOK
<1>21. Counted'
  <2>1. ASSUME NEW r \in Pairs, NEW k \in Known(r)' PROVE k.n <= opens'
    <3>1. CASE k \in Known(r)
      <4>1. k.n <= opens /\ k.n \in Nat
        BY <1>20, <3>1, SessionsAssumption DEF Keys, ReachInv, Counted
      <4> QED BY <1>3, <1>4, <1>10, <4>1
    <3>2. CASE k \in {i, j}
      BY <1>4, <1>5, <3>2
    <3> QED BY <1>19, <3>1, <3>2
  <2>2. ASSUME NEW w \in Users, NEW p \in Range(wire[w]), p.kind = "ok" PROVE p.key.n <= opens'
    <3>1. p.key.n <= opens
      BY <2>2 DEF ReachInv, Counted
    <3>2. p.key.n \in Nat
      <4>1. p \in Packet
        BY InChannels DEF Written, Carried
      <4> QED BY <4>1 DEF Packet, Keys
    <3> QED BY <1>3, <1>4, <1>10, <3>1, <3>2
  <2> QED BY <1>4, <2>1, <2>2 DEF Counted
<1>22. OneOpening'
  <2> SUFFICES ASSUME opens' <= 1,
                      NEW r1 \in Pairs, NEW r2 \in Pairs, NEW k \in Known(r1)', NEW l \in Known(r2)'
               PROVE  SameOpening(k, l)
    BY DEF OneOpening, SameOpening
  <2>1. opens = 0
    BY <1>3, <1>4, <1>10
  <2>2. ASSUME NEW r \in Pairs, NEW x \in Known(r) PROVE FALSE
    <3>1. x.n <= 0 /\ x.n \in 1 .. MaxOpens
      BY <1>20, <2>1 DEF Keys, ReachInv, Counted
    <3> QED BY <3>1
  <2>3. k \in {i, j} /\ l \in {i, j}
    BY <1>19, <2>2
  <2> QED BY <1>5, <2>3
<1>23. ASSUME NEW w \in Users PROVE Once(w)'
  <2>1. Once(w)
    BY DEF ReachInv
  <2>2. CASE w = u
    <3>1. ASSUME NEW p \in Range(up[u]), p.kind = "open" PROVE p.key.n # n
      <4>1. p \in Packet /\ p.from = u /\ p.to \in Users /\ p.to # u
        <5>1. p \in Sent(u)
          BY InChannels
        <5> QED BY <5>1 DEF Sent, Carried, Packet
      <4> DEFINE r == <<u, p.to>>
      <4>2. r \in Pairs /\ r[1] = u /\ r[2] = p.to
        BY <4>1 DEF Pairs
      <4> HIDE DEF r
      <4>3. InTransit(r, p)
        BY <3>1, <4>1, <4>2 DEF InTransit
      <4>4. p.key \in Keys
        BY <4>1 DEF Packet
      <4>5. p.key \in Known(r)
        BY <4>3, <4>4, InFlight DEF Known
      <4>6. p.key.n <= opens /\ p.key.n \in Nat
        BY <4>2, <4>4, <4>5 DEF Keys, ReachInv, Counted
      <4> QED BY <1>3, <1>10, <4>6
    <3>2. NoTwice(up[u])
      BY <2>1, <2>2 DEF Once
    <3>3. e \in Packet \cup {e}
      OBVIOUS
    <3>4. e.kind = "open" => \A p \in Range(up[u]) : p.kind = "open" => p.key.n # e.key.n
      BY <1>5, <1>7, <3>1
    <3>5. NoTwice(Append(up[u], e))
      BY ONLY <1>14, <3>2, <3>3, <3>4, NoTwiceAppend
    <3>6. Unanswered(u)'
      <4> SUFFICES ASSUME NEW p \in Range(up'[u]), NEW o \in Range(wire[u]),
                          p.kind = "open", o.kind = "ok"
                   PROVE  p.key.n # o.key.n
        BY <1>4 DEF Unanswered
      <4>1. CASE p \in Range(up[u])
        BY <2>1, <2>2, <4>1 DEF Once, Unanswered
      <4>2. CASE p = e
        <5>1. o.key.n <= opens
          BY DEF ReachInv, Counted
        <5>2. o.key.n \in Nat
          <6>1. o \in Packet
            BY InChannels DEF Written, Carried
          <6> QED BY <6>1 DEF Packet, Keys
        <5> QED BY <1>3, <1>5, <1>7, <1>10, <4>2, <5>1, <5>2
      <4> QED BY <1>15, <4>1, <4>2
    <3>7. Asked(u)'
      <4> SUFFICES ASSUME NEW p \in Range(up'[u]), p.kind = "open"
                   PROVE  \E x \in Tasks : Asks(<<u, x>>, p.key.n)'
        BY DEF Asked
      <4>1. CASE p \in Range(up[u])
        <5>1. PICK x \in Tasks : Asks(<<u, x>>, p.key.n)
          BY <2>1, <2>2, <4>1 DEF Once, Asked
        <5>2. <<u, x>> # <<u, t>> /\ <<u, x>> \in Users \X Tasks
          BY <1>4, <5>1 DEF Asks
        <5>3. task'[<<u, x>>] = task[<<u, x>>]
          BY <1>11, <5>2
        <5> QED BY <5>1, <5>3 DEF Asks
      <4>2. CASE p = e
        <5>1. p.key.n = n
          BY <1>5, <1>7, <4>2
        <5> QED BY <1>8, <1>11, <5>1 DEF Asks
      <4> QED BY <1>15, <4>1, <4>2
    <3> QED BY <1>13, <2>2, <3>5, <3>6, <3>7 DEF Once
  <2>3. CASE w # u
    <3>1. \A x \in Tasks : <<w, x>> \in Users \X Tasks /\ <<w, x>> # <<u, t>>
      BY <2>3
    <3>2. \A m : \A x \in Tasks : Asks(<<w, x>>, m) => Asks(<<w, x>>, m)'
      BY <1>11, <3>1 DEF Asks
    <3> QED BY <1>4, <1>13, <2>1, <2>3, <3>2, OnceStays
  <2> QED BY <2>2, <2>3
<1>24. Shaped' /\ SeenSound' /\ AllUp'
  BY <1>4, SeenUpStay DEF ReachInv, Shaped
<1>25. ASSUME Calm' PROVE Met'
  <2>1. Calm
    BY <1>3, <1>4, <1>10, <1>25 DEF Calm
  <2>2. Met
    BY <2>1 DEF ReachInv
  <2>3. ASSUME NEW r \in Pairs, NEW k \in Flying(r)' PROVE Other(k) \in Awaited(r)' \cup keys[r]
    <3>1. CASE k \in Flying(r)
      BY <1>18, <2>2, <3>1 DEF Met
    <3>2. CASE r = q /\ k = i
      BY <1>5, <1>18, <3>2
    <3> QED BY <1>17, <3>1, <3>2
  <2>4. ASSUME NEW r \in Pairs, NEW k \in Awaited(r)' PROVE Other(k) \in Flying(r)' \cup keys[Back(r)]
    <3>1. CASE k \in Awaited(r)
      BY <1>17, <2>2, <3>1 DEF Met
    <3>2. CASE r = q /\ k = j
      BY <1>5, <1>17, <3>2
    <3> QED BY <1>18, <3>1, <3>2
  <2>5. ASSUME NEW r \in Pairs, sess[r] # Nobody PROVE Reaches(r)'
    <3>1. Back(r) \in Pairs
      BY BackPair
    <3>2. sess[r].send \in keys[Back(r)] \cup Flying(r) \cup Awaited(Back(r))
      BY <2>2, <2>5 DEF Met, Reaches
    <3>3. sess[r].send \in keys[Back(r)] \cup Flying(r)' \cup Awaited(Back(r))'
      BY <1>17, <1>18, <3>1, <3>2
    <3> QED BY <1>4, <3>3 DEF Reaches
  <2> QED BY <1>4, <2>3, <2>4, <2>5 DEF Met
<1> QED BY <1>21, <1>22, <1>23, <1>24, <1>25 DEF ReachInv

\* A stop takes from the client's stores what was fetched, and nothing else.
LEMMA StopStores ==
  ASSUME IInv, NEW u \in Users, Stop(u)
  PROVE  /\ \A w \in Users : w # u => initial'[w] = initial[w] /\ mailbox'[w] = mailbox[w]
         /\ Range(initial'[u]) \subseteq Range(initial[u])
         /\ Range(mailbox'[u]) \subseteq Range(mailbox[u])
         /\ initial' = initial \/ (mode[u] = "initial" /\ fetched[u] # 0)
         /\ mode[u] # "messages" => mailbox' = mailbox
<1>1. /\ initial' = IF mode[u] = "initial" THEN Unfetched(initial, u) ELSE initial
      /\ mailbox' = IF mode[u] = "messages" THEN Unfetched(mailbox, u) ELSE mailbox
  BY DEF Stop
<1>2. /\ initial \in [Users -> Seq(Packet)] /\ mailbox \in [Users -> Seq(Packet)]
      /\ fetched[u] \in Nat
      /\ mode[u] = "initial" => fetched[u] <= Len(initial[u])
      /\ mode[u] = "messages" => fetched[u] <= Len(mailbox[u])
  BY DEF IInv, TypeOK, BatchSound, Source
<1>3. ASSUME NEW s \in Seq(Packet), fetched[u] <= Len(s)
      PROVE  /\ Range(SubSeq(s, fetched[u] + 1, Len(s))) \subseteq Range(s)
             /\ fetched[u] = 0 => SubSeq(s, fetched[u] + 1, Len(s)) = s
  <2> DEFINE r == SubSeq(s, fetched[u] + 1, Len(s))
  <2>1. /\ r \in Seq(Packet) /\ Len(r) = Len(s) - fetched[u]
        /\ \A i \in 1 .. Len(s) - fetched[u] : r[i] = s[fetched[u] + i]
    BY <1>2, <1>3, WithoutBatch
  <2> HIDE DEF r
  <2>2. ASSUME NEW i \in DOMAIN r PROVE r[i] \in Range(s)
    <3>1. i \in 1 .. Len(s) - fetched[u] /\ fetched[u] + i \in 1 .. Len(s)
      BY <1>2, <2>1
    <3>2. fetched[u] + i \in DOMAIN s
      BY <3>1
    <3> QED BY <2>1, <3>1, <3>2 DEF Range
  <2>3. fetched[u] = 0 => r = s
    <3>1. fetched[u] = 0 => Len(r) = Len(s) /\ \A i \in 1 .. Len(s) : r[i] = s[i]
      BY <2>1
    <3> QED BY <2>1, <3>1
  <2> QED BY <2>2, <2>3 DEF Range, r
<1>4. mode[u] = "initial" =>
        /\ Range(initial'[u]) \subseteq Range(initial[u])
        /\ fetched[u] = 0 => initial'[u] = initial[u]
  BY <1>1, <1>2, <1>3 DEF Unfetched
<1>5. mode[u] = "messages" => Range(mailbox'[u]) \subseteq Range(mailbox[u])
  BY <1>1, <1>2, <1>3 DEF Unfetched
<1>6. \A w \in Users : w # u => initial'[w] = initial[w] /\ mailbox'[w] = mailbox[w]
  BY <1>1, <1>2 DEF Unfetched
<1>7. initial' = initial \/ (mode[u] = "initial" /\ fetched[u] # 0)
  <2>1. initial' \in [Users -> {initial'[w] : w \in Users}]
    BY <1>1, <1>2 DEF Unfetched
  <2>2. ASSUME mode[u] = "initial", fetched[u] = 0 PROVE initial' = initial
    <3>1. \A w \in Users : initial'[w] = initial[w]
      BY <1>4, <1>6, <2>2
    <3> QED BY <1>2, <2>1, <3>1
  <2> QED BY <1>1, <2>2
<1> QED BY <1>1, <1>4, <1>5, <1>6, <1>7

\* A stop in a calm run finds no opening under way.
LEMMA StopReach ==
  ASSUME IInv, ReachInv, NEW u \in Users, Stop(u)
  PROVE  ReachInv'
<1> DEFINE busy == \E t \in Tasks : task[<<u, t>>].st \in {"opening", "opened"}
<1>1. /\ stops' = stops + 1
      /\ task' = [w \in Users \X Tasks |-> IF w[1] = u THEN Idle(u) ELSE task[w]]
      /\ seen' = [seen EXCEPT ![u] = {}] /\ up' = [up EXCEPT ![u] = <<>>]
      /\ interrupted' = (interrupted \/ busy \/ (mode[u] = "initial" /\ fetched[u] # 0))
      /\ UNCHANGED <<sess, keys, wire, opens>>
  BY DEF Stop
<1>0. \A w \in Users : Range(initial'[w]) \subseteq Range(initial[w])
  BY StopStores
<1>2. /\ up \in [Users -> Seq(Packet)] /\ seen \in [Users -> SUBSET Users] /\ stops \in Nat
      /\ interrupted \in BOOLEAN
  BY SessionsAssumption DEF IInv, TypeOK
<1>3. up'[u] = <<>> /\ \A w \in Users : w # u => up'[w] = up[w]
  BY <1>1, <1>2
<1>4. Range(up'[u]) = {}
  BY <1>3 DEF Range
<1>5. \A w \in Users \X Tasks : IF w[1] = u THEN task'[w].st = "idle" ELSE task'[w] = task[w]
  BY <1>1 DEF Idle
<1>6. \A q \in Pairs : Flying(q)' \subseteq Flying(q)
  <2>1. ASSUME NEW q \in Pairs, NEW p, InTransit(q, p)' PROVE InTransit(q, p)
    <3>1. q[1] \in Users /\ q[2] \in Users
      BY BackPair
    <3> QED BY <1>0, <1>1, <1>3, <1>4, <2>1, <3>1 DEF InTransit
  <2>2. ASSUME NEW q \in Pairs, NEW k \in Flying(q)' PROVE k \in Flying(q)
    <3>1. k \in Keys /\ \E p : InTransit(q, p)' /\ p.key = k
      BY <2>2, InFlight
    <3> QED BY <2>1, <3>1, InFlight
  <2> QED BY <2>2
<1>7. \A q \in Pairs : \A t \in Tasks : <<q[1], t>> \in Users \X Tasks /\ <<q[1], t>>[1] = q[1]
  BY BackPair
<1>8. \A q \in Pairs : Awaited(q)' \subseteq Awaited(q)
  BY <1>5, <1>7 DEF Awaited, OpeningPending
<1>9. Narrows
  BY <1>1, <1>6, <1>8 DEF Narrows
<1>10. Shaped'
  BY <1>1 DEF ReachInv, Shaped
<1>11. SeenSound'
  <2>1. \A w \in Users : seen'[w] \subseteq seen[w]
    BY <1>1, <1>2
  <2> QED BY <1>1, <2>1 DEF ReachInv, SeenSound
<1>12. AllUp'
  <2>1. stops' # 0
    BY <1>1, <1>2
  <2> QED BY <2>1 DEF AllUp
<1>13. ASSUME NEW w \in Users PROVE Once(w)'
  <2>1. Once(w)
    BY DEF ReachInv
  <2>2. CASE w = u
    <3>1. NoTwice(<<>>)
      BY DEF NoTwice
    <3>2. Unanswered(u)' /\ Asked(u)'
      BY <1>4 DEF Unanswered, Asked
    <3> QED BY <1>3, <2>2, <3>1, <3>2 DEF Once
  <2>3. CASE w # u
    <3>1. \A x \in Tasks : <<w, x>> \in Users \X Tasks /\ <<w, x>>[1] = w
      OBVIOUS
    <3>2. \A m : \A x \in Tasks : Asks(<<w, x>>, m) => Asks(<<w, x>>, m)'
      BY <1>5, <2>3, <3>1 DEF Asks
    <3> QED BY <1>1, <1>3, <2>1, <2>3, <3>2, OnceStays
  <2> QED BY <2>2, <2>3
<1>14. \A w \in Users : \A p \in Range(wire'[w]) : p.kind = "ok" => p.key.n <= opens
  BY <1>1 DEF ReachInv, Counted
<1>15. ASSUME Calm' PROVE Calm /\ Delivers
  <2>1. ~interrupted /\ ~busy /\ ~(mode[u] = "initial" /\ fetched[u] # 0)
    BY <1>1, <1>15 DEF Calm
  <2> HIDE DEF busy
  <2>2. Calm
    <3>1. stops' # 0
      BY <1>1, <1>2
    <3> QED BY <1>1, <1>15, <2>1, <3>1 DEF Calm
  <2>7. initial' = initial
    BY <2>1, StopStores
  <2>3. \A p \in Range(up[u]) : p.kind # "open"
    BY <2>1 DEF ReachInv, Once, Asked, Asks, busy
  <2>4. \A q \in Pairs : Flying(q)' = Flying(q)
    <3>1. ASSUME NEW q \in Pairs, NEW p PROVE InTransit(q, p)' <=> InTransit(q, p)
      <4>1. q[1] \in Users
        BY BackPair
      <4> QED BY <1>1, <1>3, <1>4, <2>3, <2>7, <4>1 DEF InTransit
    <3> QED BY <3>1, FlyingSame
  <2>5. \A q \in Pairs : Awaited(q)' = Awaited(q)
    <3>1. \A t \in Tasks : task[<<u, t>>].st \notin {"opening", "opened"}
      BY <2>1 DEF busy
    <3>2. ASSUME NEW w \in Users \X Tasks, w[1] = u PROVE task[w].st \notin {"opening", "opened"}
      <4>1. w = <<u, w[2]>> /\ w[2] \in Tasks
        BY <3>2
      <4> QED BY <3>1, <4>1
    <3> QED BY <1>5, <3>2, AwaitedSame
  <2>6. Delivers
    BY <1>1, <2>4, <2>5 DEF Delivers
  <2> QED BY <2>2, <2>6
<1>16. opens' = opens
  BY <1>1
<1> QED BY <1>9, <1>10, <1>11, <1>12, <1>13, <1>14, <1>15, <1>16, Follows

\* At first there is no opening.
LEMMA StartReach == Init => ReachInv
<1> SUFFICES ASSUME Init PROVE ReachInv
  OBVIOUS
<1>1. Range(<<>>) = {}
  BY DEF Range
<1>2. \A u \in Users : Range(up[u]) = {} /\ Range(wire[u]) = {} /\ Range(initial[u]) = {}
  BY <1>1 DEF Init
<1>3. \A w \in Users \X Tasks : task[w].st = "idle"
  BY DEF Init, Idle
<1>4. ASSUME NEW q \in Pairs PROVE Flying(q) = {} /\ Awaited(q) = {} /\ keys[q] = {}
  <2>1. q[1] \in Users /\ q[2] \in Users /\ \A t \in Tasks : <<q[1], t>> \in Users \X Tasks
    BY BackPair
  <2>2. Flying(q) = {}
    BY <1>2, <2>1 DEF Flying, OpeningComing
  <2>3. Awaited(q) = {}
    BY <1>3, <2>1 DEF Awaited, OpeningPending
  <2>4. keys[q] = {}
    BY DEF Init
  <2> QED BY <2>2, <2>3, <2>4
<1>5. \A q \in Pairs : Known(q) = {}
  BY <1>4 DEF Known
<1>6. Counted /\ OneOpening
  BY <1>2, <1>5 DEF Counted, OneOpening
<1>7. ASSUME NEW u \in Users PROVE Once(u)
  <2>1. up[u] = <<>>
    BY DEF Init
  <2>2. NoTwice(<<>>)
    BY DEF NoTwice
  <2> QED BY <1>2, <2>1, <2>2 DEF Once, Unanswered, Asked
<1>8. Shaped /\ SeenSound /\ AllUp
  BY DEF Init, Shaped, SeenSound, AllUp
<1>9. Met
  BY <1>4 DEF Met, Init
<1> QED BY <1>6, <1>7, <1>8, <1>9 DEF ReachInv

\* Nothing happens.
LEMMA StutterReach == ASSUME IInv, ReachInv, UNCHANGED vars PROVE ReachInv'
<1>1. /\ UNCHANGED <<keys, sess, opens, stops, interrupted, up, initial, wire, task, seen, mode>>
  BY DEF vars, clientVars, serverVars, counters
<1>2. SeenSound' /\ AllUp'
  BY <1>1, SeenUpStay
<1> QED BY <1>1, <1>2, IdleReach

BothInv == IInv /\ ReachInv

\* Every step.
LEMMA StepReach == BothInv /\ [Next]_vars => BothInv'
<1> SUFFICES ASSUME IInv, ReachInv, [Next]_vars PROVE ReachInv'
  BY StepInv DEF BothInv
<1>1. CASE UNCHANGED vars
  BY <1>1, StutterReach
<1>2. ASSUME Next PROVE ReachInv'
  <2>1. PICK u \in Users :
          \/ \E t \in Tasks, v \in Peers(u) : Send(u, t, v) \/ RequestBundle(u, t, v)
          \/ \E t \in Tasks : OpenSession(u, t) \/ UpdateSession(u, t)
          \/ ServerHandle(u)
          \/ ReceiveOk(u) \/ ReceiveOpen(u) \/ ReceiveMsg(u)
          \/ Stop(u) \/ TakeBack(u) \/ Start(u) \/ Fetch(u) \/ SyncInitialDone(u)
          \/ SyncInitial(u) \/ SyncMsg(u) \/ SyncDone(u)
    BY <1>2 DEF Next
  <2>2. CASE \E t \in Tasks, v \in Peers(u) : Send(u, t, v) \/ RequestBundle(u, t, v)
    BY <2>2, SendReach, RequestReach
  <2>3. CASE \E t \in Tasks : OpenSession(u, t) \/ UpdateSession(u, t)
    BY <2>3, OpenReach, UpdateReach
  <2>4. CASE ServerHandle(u)
    BY <2>4, ServerReach
  <2>5. CASE ReceiveOk(u) \/ ReceiveOpen(u) \/ ReceiveMsg(u)
    BY <2>5, ReceiveOkReach, ReceiveOpenReach, ReceiveMsgReach
  <2>6. CASE Stop(u) \/ TakeBack(u) \/ Start(u) \/ Fetch(u) \/ SyncInitialDone(u)
    BY <2>6, StopReach, TakeBackReach, SyncingReach
  <2>7. CASE SyncInitial(u) \/ SyncMsg(u) \/ SyncDone(u)
    BY <2>7, SyncInitialReach, SyncMsgReach, SyncDoneReach
  <2> QED BY <2>1, <2>2, <2>3, <2>4, <2>5, <2>6, <2>7
<1> QED BY <1>1, <1>2

\* As long as no client stops between the dispatch of an opening and update_session, or
\* with openings that it has fetched and not handled, and none cleans its keys up after
\* openings that crossed or repeated, the key a user encrypts with is stored by the peer,
\* in an opening on its way to it, or one that a task of the peer is about to store.
THEOREM KeysReachPeers == Spec => []KeyReachesPeer
<1>1. Init => BothInv
  BY InitInv, StartReach DEF BothInv
<1>2. BothInv => KeyReachesPeer
  <2> SUFFICES ASSUME IInv, ReachInv, Calm, NEW q \in Pairs, sess[q] # Nobody
               PROVE  \/ sess[q].send \in keys[<<q[2], q[1]>>]
                      \/ OpeningComing(q[1], q[2], sess[q].send)
                      \/ OpeningPending(q[2], q[1], sess[q].send)
    BY DEF BothInv, KeyReachesPeer
  <2>1. sess[q].send \in keys[Back(q)] \cup Flying(q) \cup Awaited(Back(q))
    BY DEF ReachInv, Met, Reaches
  <2>2. Back(q) = <<q[2], q[1]>> /\ Back(q)[1] = q[2] /\ Back(q)[2] = q[1]
    BY DEF Back
  <2> QED BY <2>1, <2>2 DEF Flying, Awaited
<1> QED BY <1>1, <1>2, StepReach, PTL DEF Spec

-----------------------------------------------------------------------------
(* Messages that are lost.                                                 *)

\* What the server has for a client, on the wire or in its store of openings.
Inbox(u) == Range(wire[u]) \cup Range(initial[u])

\* From o, an opening by q[2] or the answer to one of its own, q[1] has the session
\* in which q[2] encrypts with k.
Tells(o, q, k) ==
  \/ o.kind = "open" /\ o.from = q[2] /\ o.key = k
  \/ o.kind = "ok" /\ o.to = q[2] /\ o.key = Other(k)

\* A task of q[1] is about to save that session.
Answered(q, k) ==
  \E t \in Tasks : /\ task[<<q[1], t>>].st = "opened"
                   /\ task[<<q[1], t>>].to = q[2]
                   /\ Key(task[<<q[1], t>>].n, q[1], q[2], "j") = k

Held(q, k) == k \in keys[q] \/ Answered(q, k)
Told(q, k) == Answered(q, k) \/ \E o \in Inbox(q[1]) : Tells(o, q, k)
Assured(q, k) == k \in keys[q] \/ Told(q, k)

\* q[1] encrypts for q[2] with k, has done so in a message that is on its way, or
\* will once it is told.
Promised(q, k) ==
  \/ sess[q] # Nobody /\ sess[q].send = k
  \/ \E p \in Range(up[q[1]]) : p.kind = "msg" /\ p.to = q[2] /\ p.key = k
  \/ \E p \in Range(mailbox[q[2]]) : p.from = q[1] /\ p.key = k
  \/ Told(q, Other(k))

PromisesKept == \A q \in Pairs, k \in Keys : Promised(q, k) => Assured(Back(q), k)

\* The key of a message on the wire to u is held, or told by what comes before.
Ahead(u, i, q, k) == Held(q, k) \/ \E j \in 1 .. i - 1 : Tells(wire[u][j], q, k)
InOrder(u) ==
  \A i \in DOMAIN wire[u] :
    wire[u][i].kind = "msg" => Ahead(u, i, <<u, wire[u][i].from>>, wire[u][i].key)

\* The answer to an opening is for a task that waits, or whose session is stored.
Meant(q, o) ==
  o.kind = "ok" /\ o.to = q[2] => Other(o.key) \in Awaited(q) \cup keys[q]
OksMeant == \A q \in Pairs : \A o \in Range(wire[q[1]]) : Meant(q, o)

\* What is left of a client that is not up, and what is not stored for one that is.
Modes ==
  \A u \in Users :
    /\ mode[u] # "up" => /\ \A p \in Range(up[u]) : p.kind = "msg"
                         /\ \A t \in Tasks : task[<<u, t>>].st = "idle"
    /\ mode[u] \in {"initial", "messages"} => wire[u] = <<>>
    /\ mode[u] = "up" => initial[u] = <<>> /\ mailbox[u] = <<>>

Keyed == \A q \in Pairs : keys[q] # {} => sess[q] # Nobody

RaceInv ==
  /\ Modes /\ Keyed
  /\ Calm => OksMeant /\ PromisesKept /\ \A u \in Users : InOrder(u)

\* A step keeps every key and every session about to be saved, or stores its key.
Grows ==
  \A q \in Pairs : /\ keys[q] \subseteq keys'[q]
                   /\ \A k \in Keys : Answered(q, k) => Held(q, k)'

\* A packet leaves an inbox once its key is held.
Lasts ==
  \A q \in Pairs, k \in Keys : \A o \in Inbox(q[1]) :
    Tells(o, q, k) => o \in Inbox(q[1])' \/ Held(q, k)'

\* No promise appears from nowhere.
Honest ==
  \A q \in Pairs, k \in Keys : Promised(q, k)' => Promised(q, k) \/ Assured(Back(q), k)'

\* A step that keeps what the peers are told, and promises only what they are told,
\* keeps the promises.
LEMMA RaceFollows ==
  ASSUME RaceInv, Modes', Keyed',
         Calm' => Calm /\ Grows /\ Lasts /\ Honest /\ OksMeant' /\ \A u \in Users : InOrder(u)'
  PROVE  RaceInv'
<1>1. ASSUME Calm' PROVE PromisesKept'
  <2>1. PromisesKept /\ Grows /\ Lasts /\ Honest
    BY <1>1 DEF RaceInv
  <2>2. ASSUME NEW q \in Pairs, NEW k \in Keys, Assured(q, k) PROVE Assured(q, k)'
    <3>1. CASE k \in keys[q] \/ Answered(q, k)
      BY <2>1, <3>1 DEF Grows, Assured, Held, Told
    <3>2. CASE \E o \in Inbox(q[1]) : Tells(o, q, k)
      <4>1. PICK o \in Inbox(q[1]) : Tells(o, q, k)
        BY <3>2
      <4>2. o \in Inbox(q[1])' \/ Held(q, k)'
        BY <2>1, <4>1 DEF Lasts
      <4>3. Tells(o, q, k)'
        BY <4>1 DEF Tells, Other
      <4> QED BY <4>2, <4>3 DEF Assured, Held, Told
    <3> QED BY <2>2, <3>1, <3>2 DEF Assured, Told
  <2>3. ASSUME NEW q \in Pairs, NEW k \in Keys, Promised(q, k)' PROVE Assured(Back(q), k)'
    <3>1. Promised(q, k) \/ Assured(Back(q), k)'
      BY <2>1, <2>3 DEF Honest
    <3>2. Promised(q, k) => Assured(Back(q), k)
      BY <2>1 DEF PromisesKept
    <3>3. Back(q) \in Pairs
      BY BackPair
    <3> QED BY <2>2, <3>1, <3>2, <3>3
  <2> QED BY <2>3 DEF PromisesKept
<1> QED BY <1>1 DEF RaceInv

\* A message on the wire is from a peer.
LEMMA WireMessage ==
  ASSUME IInv, NEW u \in Users, NEW i \in DOMAIN wire[u], wire[u][i].kind = "msg"
  PROVE  /\ <<u, wire[u][i].from>> \in Pairs /\ wire[u][i].key \in Keys /\ wire[u][i].to = u
         /\ wire[u][i].from \in Users /\ wire[u][i].from # u
<1>1. wire[u][i] \in Range(wire[u])
  BY DEF Range
<1>2. wire[u][i] \in Written(u)
  BY <1>1, InChannels
<1>3. wire[u][i] \in Carried /\ wire[u][i].to = u
  BY <1>2 DEF Written
<1> DEFINE p == wire[u][i]
<1>4. p.from \in Users /\ p.key \in Keys /\ p.from # u
  BY <1>3 DEF Carried, Packet
<1> QED BY <1>3, <1>4 DEF Pairs

\* What o tells u is held after the step.
Heeded(u, o) == \A q \in Pairs, k \in Keys : q[1] = u /\ Tells(o, q, k) => Held(q, k)'

\* The wire stays in order when each message on it was there, behind the same packets
\* but for those that the client has heeded.
LEMMA OrderMoves ==
  ASSUME IInv, Grows, NEW u \in Users, InOrder(u),
         \A i \in DOMAIN wire'[u] : wire'[u][i].kind = "msg" =>
           \E m \in DOMAIN wire[u] :
             /\ wire[u][m] = wire'[u][i]
             /\ \A n \in 1 .. m - 1 : \/ \E j \in 1 .. i - 1 : wire'[u][j] = wire[u][n]
                                     \/ Heeded(u, wire[u][n])
  PROVE  InOrder(u)'
<1> SUFFICES ASSUME NEW i \in DOMAIN wire'[u], wire'[u][i].kind = "msg"
             PROVE  Ahead(u, i, <<u, wire[u][i].from>>, wire[u][i].key)'
  BY DEF InOrder
<1>1. PICK m \in DOMAIN wire[u] :
        /\ wire[u][m] = wire'[u][i]
        /\ \A n \in 1 .. m - 1 : \/ \E j \in 1 .. i - 1 : wire'[u][j] = wire[u][n]
                                \/ Heeded(u, wire[u][n])
  OBVIOUS
<1>2. wire[u][m].kind = "msg"
  BY <1>1
<1>3. PICK q \in Pairs, k \in Keys : q = <<u, wire[u][m].from>> /\ k = wire[u][m].key
  BY <1>2, WireMessage
<1>4. Ahead(u, m, q, k)
  BY <1>2, <1>3 DEF InOrder
<1>5. wire'[u][i].key = k /\ <<u, wire'[u][i].from>> = q /\ q[1] = u
  BY <1>1, <1>3
<1>6. CASE Held(q, k)
  <2>1. Held(q, k)'
    BY <1>3, <1>6 DEF Grows, Held
  <2> QED BY <1>5, <2>1 DEF Ahead
<1>7. ASSUME NEW n \in 1 .. m - 1, Tells(wire[u][n], q, k)
      PROVE  Ahead(u, i, <<u, wire[u][i].from>>, wire[u][i].key)'
  <2>1. CASE Heeded(u, wire[u][n])
    <3>1. Held(q, k)'
      BY <1>5, <1>7, <2>1 DEF Heeded
    <3> QED BY <1>5, <3>1 DEF Ahead
  <2>2. CASE \E j \in 1 .. i - 1 : wire'[u][j] = wire[u][n]
    <3>1. PICK j \in 1 .. i - 1 : wire'[u][j] = wire[u][n]
      BY <2>2
    <3>2. Tells(wire'[u][j], q, k)
      BY <1>7, <3>1
    <3> QED BY <1>5, <3>1, <3>2 DEF Ahead
  <2> QED BY <1>1, <2>1, <2>2
<1> QED BY <1>4, <1>6, <1>7 DEF Ahead

\* That is so when the wire stays,
LEMMA OrderKept ==
  ASSUME IInv, Grows, NEW u \in Users, InOrder(u), wire'[u] = wire[u]
  PROVE  InOrder(u)'
<1>1. wire[u] \in Seq(Packet)
  BY DEF IInv, TypeOK
<1>2. \A i \in DOMAIN wire[u] : \A n \in 1 .. i - 1 : wire'[u][n] = wire[u][n]
  OBVIOUS
<1> QED BY <1>2, OrderMoves

\* when its last packet is taken,
LEMMA OrderFront ==
  ASSUME IInv, Grows, NEW u \in Users, InOrder(u), wire[u] # <<>>, wire'[u] = Front(wire[u])
  PROVE  InOrder(u)'
<1> DEFINE s == wire[u]
           c == wire'[u]
<1>1. s \in Seq(Packet)
  BY DEF IInv, TypeOK
<1>2. Len(s) \in Nat /\ Len(s) >= 1 /\ DOMAIN s = 1 .. Len(s)
  BY <1>1
<1>3. DOMAIN c = 1 .. Len(s) - 1 /\ \A i \in 1 .. Len(s) - 1 : c[i] = s[i]
  BY <1>1, <1>2 DEF Front
<1> HIDE DEF s, c
<1>4. \A i \in DOMAIN c : i \in DOMAIN s /\ c[i] = s[i] /\ \A n \in 1 .. i - 1 : c[n] = s[n]
  BY <1>2, <1>3
<1> QED BY <1>4, OrderMoves DEF s, c

\* when its first one is, and heeded,
LEMMA OrderTail ==
  ASSUME IInv, Grows, NEW u \in Users, InOrder(u), wire[u] # <<>>, wire'[u] = Tail(wire[u]),
         Heeded(u, Head(wire[u]))
  PROVE  InOrder(u)'
<1> DEFINE s == wire[u]
           c == wire'[u]
<1>1. s \in Seq(Packet)
  BY DEF IInv, TypeOK
<1>2. Len(s) \in Nat /\ Len(s) >= 1 /\ DOMAIN s = 1 .. Len(s) /\ Head(s) = s[1]
  BY <1>1
<1>3. DOMAIN c = 1 .. Len(s) - 1 /\ \A i \in 1 .. Len(s) - 1 : c[i] = s[i + 1]
  BY <1>1, <1>2
<1>4. Heeded(u, s[1])
  BY <1>2
<1> HIDE DEF s, c
<1>5. ASSUME NEW i \in DOMAIN c
      PROVE  /\ i + 1 \in DOMAIN s /\ s[i + 1] = c[i]
             /\ \A n \in 1 .. (i + 1) - 1 : (\E j \in 1 .. i - 1 : c[j] = s[n]) \/ Heeded(u, s[n])
  <2>1. i \in Nat /\ i >= 1 /\ i + 1 \in DOMAIN s /\ s[i + 1] = c[i] /\ i <= Len(s) - 1
    BY <1>2, <1>3
  <2>2. ASSUME NEW n \in 1 .. i, n # 1 PROVE \E j \in 1 .. i - 1 : c[j] = s[n]
    <3>1. n - 1 \in 1 .. i - 1 /\ n - 1 \in 1 .. Len(s) - 1 /\ (n - 1) + 1 = n
      BY <1>2, <2>1, <2>2
    <3>2. c[n - 1] = s[n]
      BY <1>3, <3>1
    <3> QED BY <3>1, <3>2
  <2>3. (i + 1) - 1 = i
    BY <2>1
  <2> QED BY <1>4, <2>1, <2>2, <2>3
<1> QED BY <1>5, OrderMoves DEF s, c

\* and when a packet comes whose key, if it is a message, is held or told by the wire.
LEMMA OrderAppend ==
  ASSUME IInv, Grows, NEW u \in Users, InOrder(u), NEW p \in Packet, wire'[u] = Append(wire[u], p),
         p.kind = "msg" =>
           Held(<<u, p.from>>, p.key)' \/ \E o \in Range(wire[u]) : Tells(o, <<u, p.from>>, p.key)
  PROVE  InOrder(u)'
<1> DEFINE s == wire[u]
           c == wire'[u]
           l == Len(s) + 1
<1>1. s \in Seq(Packet)
  BY DEF IInv, TypeOK
<1>2. Len(s) \in Nat /\ DOMAIN s = 1 .. Len(s)
  BY <1>1
<1>3. DOMAIN c = 1 .. l /\ c[l] = p /\ \A i \in 1 .. Len(s) : c[i] = s[i]
  BY <1>1, <1>2
<1> HIDE DEF c, s
<1>4. ASSUME NEW i \in DOMAIN c, c[i].kind = "msg"
      PROVE  Ahead(u, i, <<u, wire[u][i].from>>, wire[u][i].key)'
  <2>1. CASE i = l
    <3>1. c[i] = p
      BY <1>3, <2>1
    <3>2. CASE Held(<<u, p.from>>, p.key)'
      BY <3>1, <3>2 DEF Ahead, c
    <3>3. CASE \E o \in Range(s) : Tells(o, <<u, p.from>>, p.key)
      <4>1. PICK n \in DOMAIN s : Tells(s[n], <<u, p.from>>, p.key)
        BY <3>3 DEF Range
      <4>2. n \in 1 .. i - 1 /\ c[n] = s[n]
        BY <1>2, <1>3, <2>1, <4>1
      <4> QED BY <3>1, <4>1, <4>2 DEF Ahead, c
    <3> QED BY <1>4, <3>1, <3>2, <3>3 DEF s
  <2>2. CASE i # l
    <3>1. i \in DOMAIN s /\ c[i] = s[i] /\ \A n \in 1 .. i - 1 : c[n] = s[n]
      BY <1>2, <1>3, <2>2
    <3>2. s[i].kind = "msg"
      BY <1>4, <3>1
    <3>3. PICK q \in Pairs, k \in Keys : q = <<u, s[i].from>> /\ k = s[i].key
      BY <3>1, <3>2, WireMessage DEF s
    <3>4. Ahead(u, i, q, k)
      BY <3>1, <3>2, <3>3 DEF InOrder, s
    <3>5. wire'[u][i].key = k /\ <<u, wire'[u][i].from>> = q
      BY <3>1, <3>3 DEF c
    <3>6. CASE Held(q, k)
      <4>1. Held(q, k)'
        BY <3>3, <3>6 DEF Grows, Held
      <4> QED BY <3>5, <4>1 DEF Ahead
    <3>7. ASSUME NEW n \in 1 .. i - 1, Tells(s[n], q, k)
          PROVE  Ahead(u, i, <<u, wire[u][i].from>>, wire[u][i].key)'
      <4>1. Tells(wire'[u][n], q, k)
        BY <3>1, <3>7 DEF c
      <4> QED BY <3>5, <4>1 DEF Ahead
    <3> QED BY <3>4, <3>6, <3>7 DEF Ahead, s
  <2> QED BY <2>1, <2>2
<1> QED BY <1>4 DEF InOrder, c

\* No inbox grows, what leaves one is heeded, and no answer comes.
Heeds ==
  \A u \in Users : /\ Inbox(u)' \subseteq Inbox(u)
                   /\ \A o \in Inbox(u) : o \in Inbox(u)' \/ Heeded(u, o)
                   /\ \A o \in Range(wire'[u]) : o.kind = "ok" => o \in Range(wire[u])

\* A session, a message or a task that was answered promises what was promised, or
\* what the peer is told.
Sources ==
  \A q \in Pairs, k \in Keys :
    /\ Answered(q, k)' => Answered(q, k) \/ Assured(Back(q), Other(k))'
    /\ sess'[q] # Nobody /\ sess'[q].send = k => Promised(q, k) \/ Assured(Back(q), k)'
    /\ \A p \in Range(up'[q[1]]) :
         p.kind = "msg" /\ p.to = q[2] /\ p.key = k => Promised(q, k)
    /\ \A p \in Range(mailbox'[q[2]]) :
         p.from = q[1] /\ p.key = k => Promised(q, k) \/ Assured(Back(q), k)'

Waits == \A q \in Pairs : Awaited(q) \subseteq Awaited(q)' \cup keys'[q]

\* A step of a client keeps the invariant if it heeds what it takes from its inbox.
LEMMA RaceHeeds ==
  ASSUME IInv, RaceInv, Modes', Keyed',
         Calm' => Calm /\ Grows /\ Heeds /\ Sources /\ Waits /\ \A u \in Users : InOrder(u)'
  PROVE  RaceInv'
<1> SUFFICES ASSUME Calm' PROVE Lasts /\ Honest /\ OksMeant'
  BY RaceFollows
<1>1. Calm /\ Grows /\ Heeds /\ Sources /\ Waits /\ OksMeant
  BY DEF RaceInv
<1>2. Lasts
  <2> SUFFICES ASSUME NEW q \in Pairs, NEW k \in Keys, NEW o \in Inbox(q[1]), Tells(o, q, k)
               PROVE  o \in Inbox(q[1])' \/ Held(q, k)'
    BY DEF Lasts
  <2>1. q[1] \in Users
    BY BackPair
  <2> QED BY <1>1, <2>1 DEF Heeds, Heeded
<1>3. Honest
  <2> SUFFICES ASSUME NEW q \in Pairs, NEW k \in Keys, Promised(q, k)'
               PROVE  Promised(q, k) \/ Assured(Back(q), k)'
    BY DEF Honest
  <2>1. q[1] \in Users /\ Other(k) \in Keys /\ Other(Other(k)) = k
    BY BackPair, OtherKey
  <2>2. CASE Answered(q, Other(k))'
    <3>1. Answered(q, Other(k)) \/ Assured(Back(q), k)'
      BY <1>1, <2>1, <2>2 DEF Sources
    <3> QED BY <3>1 DEF Promised, Told
  <2>3. ASSUME NEW o \in Inbox(q[1])', Tells(o, q, Other(k)) PROVE Promised(q, k)
    <3>1. o \in Inbox(q[1])
      BY <1>1, <2>1, <2>3 DEF Heeds
    <3> QED BY <2>3, <3>1 DEF Promised, Told
  <2>4. Told(q, Other(k))' => Answered(q, Other(k))' \/ \E o \in Inbox(q[1])' : Tells(o, q, Other(k))
    BY DEF Told, Tells, Other
  <2> QED BY <1>1, <2>2, <2>3, <2>4 DEF Sources, Promised
<1>4. OksMeant'
  <2> SUFFICES ASSUME NEW q \in Pairs, NEW o \in Range(wire'[q[1]]), o.kind = "ok", o.to = q[2]
               PROVE  Other(o.key) \in Awaited(q)' \cup keys'[q]
    BY DEF OksMeant, Meant
  <2>1. q[1] \in Users
    BY BackPair
  <2>2. o \in Range(wire[q[1]])
    BY <1>1, <2>1 DEF Heeds
  <2>3. Other(o.key) \in Awaited(q) \cup keys[q]
    BY <1>1, <2>2 DEF OksMeant, Meant
  <2> QED BY <1>1, <2>3 DEF Grows, Waits
<1> QED BY <1>1, <1>2, <1>3, <1>4

\* A step of a client that is up.
LEMMA ModesUp ==
  ASSUME Modes, NEW u \in Users, mode[u] = "up", UNCHANGED <<mode, initial, mailbox>>,
         \A w \in Users : w # u => /\ up'[w] = up[w] /\ wire'[w] = wire[w]
                                   /\ \A t \in Tasks : task'[<<w, t>>] = task[<<w, t>>]
  PROVE  Modes'
BY DEF Modes

\* The same tasks are about to save a session.
LEMMA AnsweredSame ==
  ASSUME \A w \in Users \X Tasks : "opened" \in {task[w].st, task'[w].st} => task'[w] = task[w]
  PROVE  \A q \in Pairs, k \in Keys : Answered(q, k)' <=> Answered(q, k)
<1> SUFFICES ASSUME NEW q \in Pairs, NEW k \in Keys
             PROVE  Answered(q, k)' <=> Answered(q, k)
  OBVIOUS
<1>1. \A t \in Tasks : <<q[1], t>> \in Users \X Tasks
  BY BackPair
<1> QED BY <1>1 DEF Answered

\* Steps that leave the inboxes and what is stored alone.
LEMMA QuietRace ==
  ASSUME IInv, RaceInv, Modes', UNCHANGED <<sess, keys, wire>>,
         Calm' =>
           /\ Calm /\ Waits /\ initial' = initial
           /\ \A w \in Users \X Tasks :
                "opened" \in {task[w].st, task'[w].st} => task'[w] = task[w]
           /\ \A q \in Pairs, k \in Keys : \A p \in Range(up'[q[1]]) :
                p.kind = "msg" /\ p.to = q[2] /\ p.key = k => Promised(q, k)
           /\ \A u \in Users : Range(mailbox'[u]) \subseteq Range(mailbox[u])
  PROVE  RaceInv'
<1>1. Keyed'
  BY DEF RaceInv, Keyed
<1> SUFFICES ASSUME Calm' PROVE Calm /\ Grows /\ Heeds /\ Sources /\ Waits /\ \A u \in Users : InOrder(u)'
  BY <1>1, RaceHeeds
<1>2. Calm /\ Waits /\ initial' = initial
  OBVIOUS
<1>3. \A q \in Pairs, k \in Keys : Answered(q, k)' <=> Answered(q, k)
  BY AnsweredSame
<1>4. Grows
  BY <1>3 DEF Grows, Held
<1>5. Heeds
  BY <1>2 DEF Heeds, Inbox
<1>6. Sources
  <2> SUFFICES ASSUME NEW q \in Pairs, NEW k \in Keys
               PROVE  /\ Answered(q, k)' => Answered(q, k)
                      /\ sess'[q] # Nobody /\ sess'[q].send = k => Promised(q, k)
                      /\ \A p \in Range(up'[q[1]]) :
                           p.kind = "msg" /\ p.to = q[2] /\ p.key = k => Promised(q, k)
                      /\ \A p \in Range(mailbox'[q[2]]) : p.from = q[1] /\ p.key = k => Promised(q, k)
    BY DEF Sources
  <2>1. q[2] \in Users
    BY BackPair
  <2> QED BY <1>3, <2>1 DEF Promised
<1>7. \A u \in Users : InOrder(u)'
  BY <1>2, <1>4, OrderKept DEF RaceInv
<1> QED BY <1>2, <1>4, <1>5, <1>6, <1>7

\* The tasks and the queue of the other clients are left alone.
LEMMA RequestRace ==
  ASSUME IInv, RaceInv, NEW u \in Users, NEW t \in Tasks, NEW v \in Peers(u),
         RequestBundle(u, t, v)
  PROVE  RaceInv'
<1> DEFINE b == [st |-> "bundle", to |-> v, n |-> 0]
<1>1. /\ mode[u] = "up" /\ task[<<u, t>>].st = "idle"
      /\ task' = [task EXCEPT ![<<u, t>>] = b] /\ b.st = "bundle"
      /\ UNCHANGED <<mode, sess, keys, up, wire, initial, mailbox, interrupted, opens, stops>>
  BY DEF RequestBundle, serverVars, counters
<1> HIDE DEF b
<1>2. task \in [Users \X Tasks -> Task]
  BY DEF IInv, TypeOK
<1>3. \A w \in Users \X Tasks : task'[w] = task[w] \/ (w = <<u, t>> /\ task'[w] = b)
  BY <1>1, <1>2
<1>4. \A w \in Users \X Tasks : "opened" \in {task[w].st, task'[w].st} => task'[w] = task[w]
  BY <1>1, <1>3
<1>5. Waits
  <2>1. \A q \in Pairs : Awaited(q)' = Awaited(q)
    BY <1>1, <1>3, AwaitedSame
  <2> QED BY <2>1 DEF Waits
<1>6. Modes'
  <2>1. ASSUME NEW w \in Users, w # u, NEW x \in Tasks PROVE task'[<<w, x>>] = task[<<w, x>>]
    BY <1>3, <2>1
  <2> QED BY <1>1, <2>1, ModesUp DEF RaceInv
<1>7. Calm' => Calm
  BY <1>1 DEF Calm
<1>8. \A q \in Pairs, k \in Keys : \A p \in Range(up'[q[1]]) :
        p.kind = "msg" /\ p.to = q[2] /\ p.key = k => Promised(q, k)
  BY <1>1 DEF Promised
<1> QED BY <1>1, <1>4, <1>5, <1>6, <1>7, <1>8, QuietRace

\* A message is encrypted with the key of the session.
LEMMA SendRace ==
  ASSUME IInv, RaceInv, NEW u \in Users, NEW t \in Tasks, NEW v \in Peers(u), Send(u, t, v)
  PROVE  RaceInv'
<1> DEFINE e == [kind |-> "msg", from |-> u, to |-> v, key |-> sess[<<u, v>>].send, id |-> msgs + 1]
           q == <<u, v>>
<1>1. /\ up' = [up EXCEPT ![u] = Append(@, e)] /\ sess[q] # Nobody
      /\ e.kind = "msg" /\ e.to = v /\ e.key = sess[q].send
      /\ UNCHANGED <<mode, sess, keys, task, wire, initial, mailbox, interrupted, opens, stops>>
  BY DEF Send, clientVars
<1>2. up \in [Users -> Seq(Packet)] /\ q \in Pairs /\ q[1] = u /\ q[2] = v
  BY DEF IInv, TypeOK, Pairs, Peers
<1> HIDE DEF e, q
<1>3. up'[u] = Append(up[u], e) /\ \A w \in Users : w # u => up'[w] = up[w]
  BY <1>1, <1>2
<1>4. Range(up'[u]) = Range(up[u]) \cup {e}
  <2>1. up[u] \in Seq(Packet) /\ Packet \subseteq Packet \cup {e}
    BY <1>2
  <2>2. up[u] \in Seq(Packet \cup {e})
    BY <2>1, SeqMonotonic
  <2> QED BY <1>3, <2>2, RangeOfAppend
<1>5. ASSUME NEW r \in Pairs, NEW k \in Keys, NEW p \in Range(up'[r[1]]),
             p.kind = "msg", p.to = r[2], p.key = k
      PROVE  Promised(r, k)
  <2>1. r[1] \in Users /\ r = <<r[1], r[2]>> /\ q = <<q[1], q[2]>>
    BY <1>2, BackPair
  <2>2. CASE p \in Range(up[r[1]])
    BY <1>5, <2>2 DEF Promised
  <2>3. CASE r[1] = u /\ p = e
    <3>1. r = q
      BY <1>1, <1>2, <1>5, <2>1, <2>3
    <3> QED BY <1>1, <1>5, <2>3, <3>1 DEF Promised
  <2> QED BY <1>3, <1>4, <1>5, <2>1, <2>2, <2>3
<1>6. Modes'
  <2>1. ASSUME NEW w \in Users, NEW p \in Range(up'[w])
        PROVE  p \in Range(up[w]) \/ p.kind = "msg"
    BY <1>1, <1>3, <1>4, <2>1
  <2> QED BY <1>1, <2>1 DEF RaceInv, Modes
<1>7. Waits
  <2>1. \A r \in Pairs : Awaited(r)' = Awaited(r)
    BY <1>1, AwaitedSame
  <2> QED BY <2>1 DEF Waits
<1>8. Calm' => Calm
  BY <1>1 DEF Calm
<1> QED BY <1>1, <1>5, <1>6, <1>7, <1>8, QuietRace

\* An opening is no message, and its task only begins to wait.
LEMMA OpenRace ==
  ASSUME IInv, RaceInv, NEW u \in Users, NEW t \in Tasks, OpenSession(u, t)
  PROVE  RaceInv'
<1> DEFINE v == task[<<u, t>>].to
           a == [st |-> "opening", to |-> v, n |-> opens + 1]
           e == [kind |-> "open", from |-> u, to |-> v, key |-> Key(opens + 1, u, v, "i"), id |-> 0]
<1>1. /\ task[<<u, t>>].st = "bundle" /\ opens' = opens + 1 /\ a.st = "opening" /\ e.kind = "open"
      /\ task' = [task EXCEPT ![<<u, t>>] = a] /\ up' = [up EXCEPT ![u] = Append(@, e)]
      /\ UNCHANGED <<mode, sess, keys, wire, initial, mailbox, interrupted, stops>>
  BY DEF OpenSession
<1>2. /\ task \in [Users \X Tasks -> Task] /\ up \in [Users -> Seq(Packet)]
      /\ opens \in Nat
  BY SessionsAssumption DEF IInv, TypeOK
<1> HIDE DEF a, e
<1>3. \A w \in Users \X Tasks : task'[w] = task[w] \/ (w = <<u, t>> /\ task'[w] = a)
  BY <1>1, <1>2
<1>4. \A w \in Users \X Tasks : "opened" \in {task[w].st, task'[w].st} => task'[w] = task[w]
  BY <1>1, <1>3
<1>5. Waits
  <2>1. ASSUME NEW q \in Pairs, NEW k \in Awaited(q) PROVE k \in Awaited(q)'
    <3>1. q[1] \in Users /\ \A x \in Tasks : <<q[1], x>> \in Users \X Tasks
      BY BackPair
    <3>2. PICK x \in Tasks : /\ task[<<q[1], x>>].st \in {"opening", "opened"}
                             /\ task[<<q[1], x>>].to = q[2]
                             /\ Key(task[<<q[1], x>>].n, q[1], q[2], "j") = k
      BY <2>1, InWait
    <3>3. task'[<<q[1], x>>] = task[<<q[1], x>>]
      BY <1>1, <1>3, <3>1, <3>2
    <3> QED BY <2>1, <3>2, <3>3 DEF Awaited, OpeningPending
  <2> QED BY <2>1 DEF Waits
<1>6. up'[u] = Append(up[u], e) /\ \A w \in Users : w # u => up'[w] = up[w]
  BY <1>1, <1>2
<1>7. Range(up'[u]) = Range(up[u]) \cup {e}
  <2>1. up[u] \in Seq(Packet) /\ Packet \subseteq Packet \cup {e}
    BY <1>2
  <2>2. up[u] \in Seq(Packet \cup {e})
    BY <2>1, SeqMonotonic
  <2> QED BY <1>6, <2>2, RangeOfAppend
<1>8. ASSUME NEW q \in Pairs, NEW k \in Keys, NEW p \in Range(up'[q[1]]),
             p.kind = "msg", p.to = q[2], p.key = k
      PROVE  Promised(q, k)
  <2>1. q[1] \in Users
    BY BackPair
  <2>2. p \in Range(up[q[1]])
    BY <1>1, <1>6, <1>7, <1>8, <2>1
  <2> QED BY <1>8, <2>2 DEF Promised
<1>9. Modes'
  <2>1. mode[u] = "up"
    BY <1>1 DEF RaceInv, Modes
  <2>2. ASSUME NEW w \in Users, w # u, NEW x \in Tasks PROVE task'[<<w, x>>] = task[<<w, x>>]
    BY <1>3, <2>2
  <2> QED BY <1>1, <1>6, <2>1, <2>2, ModesUp DEF RaceInv
<1>10. Calm' => Calm
  BY <1>1, <1>2 DEF Calm
<1> QED BY <1>1, <1>4, <1>5, <1>8, <1>9, <1>10, QuietRace

\* A stop in a calm run finds no task that waits or is about to save a session.
LEMMA StopRace ==
  ASSUME IInv, RaceInv, NEW u \in Users, Stop(u)
  PROVE  RaceInv'
<1> DEFINE busy == \E t \in Tasks : task[<<u, t>>].st \in {"opening", "opened"}
<1>1. /\ stops' = stops + 1 /\ mode' = [mode EXCEPT ![u] = "down"]
      /\ task' = [w \in Users \X Tasks |-> IF w[1] = u THEN Idle(u) ELSE task[w]]
      /\ up' = [up EXCEPT ![u] = <<>>]
      /\ interrupted' = (interrupted \/ busy \/ (mode[u] = "initial" /\ fetched[u] # 0))
      /\ UNCHANGED <<sess, keys, wire, opens>>
  BY DEF Stop
<1>2. /\ up \in [Users -> Seq(Packet)] /\ stops \in Nat /\ interrupted \in BOOLEAN
      /\ mode \in [Users -> {"down", "initial", "messages", "up"}]
  BY SessionsAssumption DEF IInv, TypeOK
<1>3. up'[u] = <<>> /\ \A w \in Users : w # u => up'[w] = up[w]
  BY <1>1, <1>2
<1>4. \A w \in Users \X Tasks : IF w[1] = u THEN task'[w].st = "idle" ELSE task'[w] = task[w]
  BY <1>1 DEF Idle
<1>5. mode'[u] = "down" /\ \A w \in Users : w # u => mode'[w] = mode[w]
  BY <1>1, <1>2
<1>0. /\ \A w \in Users : w # u => initial'[w] = initial[w] /\ mailbox'[w] = mailbox[w]
      /\ \A w \in Users : Range(mailbox'[w]) \subseteq Range(mailbox[w])
      /\ initial' = initial \/ (mode[u] = "initial" /\ fetched[u] # 0)
  BY StopStores
<1>6. Modes'
  <2>1. \A w \in Users, t \in Tasks :
          IF w = u THEN task'[<<w, t>>].st = "idle" ELSE task'[<<w, t>>] = task[<<w, t>>]
    <3>1. \A w \in Users, t \in Tasks : <<w, t>> \in Users \X Tasks /\ <<w, t>>[1] = w
      OBVIOUS
    <3> QED BY <1>4, <3>1
  <2>2. Range(<<>>) = {}
    BY DEF Range
  <2>3. ASSUME NEW w \in Users
        PROVE  /\ mode'[w] # "up" => /\ \A p \in Range(up'[w]) : p.kind = "msg"
                                     /\ \A t \in Tasks : task'[<<w, t>>].st = "idle"
               /\ mode'[w] \in {"initial", "messages"} => wire'[w] = <<>>
               /\ mode'[w] = "up" => initial'[w] = <<>> /\ mailbox'[w] = <<>>
    <3>1. CASE w = u
      BY <1>3, <1>5, <2>1, <2>2, <3>1
    <3>2. CASE w # u
      <4>1. /\ mode'[w] = mode[w] /\ up'[w] = up[w] /\ wire'[w] = wire[w]
            /\ initial'[w] = initial[w] /\ mailbox'[w] = mailbox[w]
            /\ \A t \in Tasks : task'[<<w, t>>] = task[<<w, t>>]
        BY <1>0, <1>1, <1>3, <1>5, <2>1, <3>2
      <4> QED BY <4>1 DEF RaceInv, Modes
    <3> QED BY <3>1, <3>2
  <2> QED BY <2>3 DEF Modes
<1>7. \A q \in Pairs, k \in Keys : \A p \in Range(up'[q[1]]) :
        p.kind = "msg" /\ p.to = q[2] /\ p.key = k => Promised(q, k)
  <2>1. Range(<<>>) = {}
    BY DEF Range
  <2>2. \A q \in Pairs : q[1] \in Users
    BY BackPair
  <2> QED BY <1>3, <2>1, <2>2 DEF Promised
<1>8. ASSUME Calm' PROVE Calm /\ ~busy /\ initial' = initial
  <2>1. ~interrupted /\ ~busy /\ ~(mode[u] = "initial" /\ fetched[u] # 0)
    BY <1>1, <1>8 DEF Calm
  <2> HIDE DEF busy
  <2>2. stops' # 0
    BY <1>1, <1>2
  <2> QED BY <1>0, <1>1, <1>8, <2>1, <2>2 DEF Calm
<1>9. ASSUME ~busy, NEW w \in Users \X Tasks, w[1] = u PROVE task[w].st \notin {"opening", "opened"}
  <2>1. w = <<u, w[2]>> /\ w[2] \in Tasks
    BY <1>9
  <2> QED BY <1>9, <2>1
<1> HIDE DEF busy
<1>10. ~busy => Waits
  <2> SUFFICES ASSUME ~busy PROVE Waits
    OBVIOUS
  <2>1. \A q \in Pairs : Awaited(q)' = Awaited(q)
    BY <1>4, <1>9, AwaitedSame
  <2> QED BY <2>1 DEF Waits
<1>11. ~busy => \A w \in Users \X Tasks :
                  "opened" \in {task[w].st, task'[w].st} => task'[w] = task[w]
  BY <1>4, <1>9
<1> QED BY <1>0, <1>1, <1>6, <1>7, <1>8, <1>10, <1>11, QuietRace

\* The steps of a synchronization that handle no packet.
LEMMA SyncingRace ==
  ASSUME IInv, RaceInv, NEW u \in Users, Start(u) \/ Fetch(u) \/ SyncInitialDone(u)
  PROVE  RaceInv'
<1>1. /\ mode[u] # "up" /\ wire[u] = <<>>
      /\ \/ mode' = [mode EXCEPT ![u] = "initial"] \/ mode' = [mode EXCEPT ![u] = "messages"]
         \/ mode' = mode /\ mode[u] \in {"initial", "messages"}
      /\ UNCHANGED <<sess, keys, task, up, wire, initial, mailbox, interrupted, opens, stops>>
  <2>1. CASE Start(u) \/ SyncInitialDone(u)
    BY <2>1 DEF Start, SyncInitialDone, serverVars, counters, RaceInv, Modes
  <2>2. CASE Fetch(u)
    <3>1. mode[u] \in {"initial", "messages"}
      BY <2>2 DEF Fetch, Source
    <3> QED BY <2>2, <3>1 DEF Fetch, serverVars, counters, RaceInv, Modes
  <2> QED BY <2>1, <2>2
<1>2. mode \in [Users -> {"down", "initial", "messages", "up"}]
  BY DEF IInv, TypeOK
<1>3. mode'[u] \in {"initial", "messages"} /\ \A w \in Users : w # u => mode'[w] = mode[w]
  BY <1>1, <1>2
<1>4. Modes'
  BY <1>1, <1>3 DEF RaceInv, Modes
<1>5. Waits
  <2>1. \A q \in Pairs : Awaited(q)' = Awaited(q)
    BY <1>1, AwaitedSame
  <2> QED BY <2>1 DEF Waits
<1>6. Calm' => Calm
  BY <1>1 DEF Calm
<1>7. \A q \in Pairs, k \in Keys : \A p \in Range(up'[q[1]]) :
        p.kind = "msg" /\ p.to = q[2] /\ p.key = k => Promised(q, k)
  BY <1>1 DEF Promised
<1> QED BY <1>1, <1>4, <1>5, <1>6, <1>7, QuietRace

\* A message leaves the mailbox.
LEMMA SyncMsgRace ==
  ASSUME IInv, RaceInv, NEW u \in Users, SyncMsg(u)
  PROVE  RaceInv'
<1>1. /\ mode[u] = "messages" /\ fetched[u] # 0 /\ mailbox' = [mailbox EXCEPT ![u] = Tail(@)]
      /\ UNCHANGED <<mode, sess, keys, task, up, wire, initial, interrupted, opens, stops>>
  BY DEF SyncMsg, counters
<1>2. mailbox \in [Users -> Seq(Packet)]
  BY DEF IInv, TypeOK
<1>3. mailbox'[u] = Tail(mailbox[u]) /\ \A w \in Users : w # u => mailbox'[w] = mailbox[w]
  BY <1>1, <1>2
<1>4. \A w \in Users : Range(mailbox'[w]) \subseteq Range(mailbox[w])
  <2>1. mailbox[u] \in Seq(Packet)
    BY <1>2
  <2>2. Range(mailbox[u]) = Range(mailbox'[u]) \cup {Head(mailbox[u])}
    BY <1>1, <1>3, <2>1, BatchThere, RangeOfTail
  <2> QED BY <1>3, <2>2
<1>5. Modes'
  BY <1>1, <1>3 DEF RaceInv, Modes
<1>6. Waits
  <2>1. \A q \in Pairs : Awaited(q)' = Awaited(q)
    BY <1>1, AwaitedSame
  <2> QED BY <2>1 DEF Waits
<1>7. Calm' => Calm
  BY <1>1 DEF Calm
<1>8. \A q \in Pairs, k \in Keys : \A p \in Range(up'[q[1]]) :
        p.kind = "msg" /\ p.to = q[2] /\ p.key = k => Promised(q, k)
  BY <1>1 DEF Promised
<1> QED BY <1>1, <1>4, <1>5, <1>6, <1>7, <1>8, QuietRace

\* A client that handles the first packet on its wire.
LEMMA RaceHead ==
  ASSUME IInv, RaceInv, NEW u \in Users, mode[u] = "up", wire[u] # <<>>,
         wire' = [wire EXCEPT ![u] = Tail(@)],
         \A w \in Users : w # u => \A t \in Tasks : task'[<<w, t>>] = task[<<w, t>>],
         UNCHANGED <<mode, up, initial, mailbox>>, Keyed',
         Calm' =>
           /\ Calm /\ Grows /\ Waits /\ Heeded(u, Head(wire[u]))
           /\ \A q \in Pairs, k \in Keys :
                /\ Answered(q, k)' => Answered(q, k) \/ Assured(Back(q), Other(k))'
                /\ sess'[q] # Nobody /\ sess'[q].send = k => Promised(q, k) \/ Assured(Back(q), k)'
  PROVE  RaceInv'
<1>1. /\ \A w \in Users : w # u => wire'[w] = wire[w]
      /\ Range(wire[u]) = Range(wire'[u]) \cup {Head(wire[u])}
  BY HeadGone
<1>2. wire'[u] = Tail(wire[u])
  BY DEF IInv, TypeOK
<1>3. Modes'
  BY <1>1, ModesUp DEF RaceInv
<1> SUFFICES ASSUME Calm' PROVE Calm /\ Grows /\ Heeds /\ Sources /\ Waits /\ \A w \in Users : InOrder(w)'
  BY <1>3, RaceHeeds
<1>4. Calm /\ Grows /\ Waits /\ Heeded(u, Head(wire[u]))
  OBVIOUS
<1>5. Heeds
  <2> SUFFICES ASSUME NEW w \in Users
               PROVE  /\ Inbox(w)' \subseteq Inbox(w)
                      /\ \A o \in Inbox(w) : o \in Inbox(w)' \/ Heeded(w, o)
                      /\ \A o \in Range(wire'[w]) : o.kind = "ok" => o \in Range(wire[w])
    BY DEF Heeds
  <2>1. CASE w = u
    BY <1>1, <1>4, <2>1 DEF Inbox
  <2>2. CASE w # u
    BY <1>1, <2>2 DEF Inbox
  <2> QED BY <2>1, <2>2
<1>6. Sources
  <2> SUFFICES ASSUME NEW q \in Pairs, NEW k \in Keys
               PROVE  /\ \A p \in Range(up'[q[1]]) :
                           p.kind = "msg" /\ p.to = q[2] /\ p.key = k => Promised(q, k)
                      /\ \A p \in Range(mailbox'[q[2]]) : p.from = q[1] /\ p.key = k => Promised(q, k)
    BY DEF Sources
  <2> QED BY DEF Promised
<1>7. ASSUME NEW w \in Users PROVE InOrder(w)'
  <2>1. InOrder(w)
    BY <1>4 DEF RaceInv
  <2>2. CASE w = u
    BY <1>2, <1>4, <2>1, <2>2, OrderTail
  <2>3. CASE w # u
    BY <1>1, <1>4, <2>1, <2>3, OrderKept
  <2> QED BY <2>2, <2>3
<1> QED BY <1>4, <1>5, <1>6, <1>7

\* A message tells no key.
LEMMA ReceiveMsgRace ==
  ASSUME IInv, RaceInv, NEW u \in Users, ReceiveMsg(u)
  PROVE  RaceInv'
<1>1. /\ mode[u] = "up" /\ wire[u] # <<>> /\ Head(wire[u]).kind = "msg"
      /\ wire' = [wire EXCEPT ![u] = Tail(@)]
      /\ UNCHANGED <<mode, sess, keys, task, up, initial, mailbox, interrupted, opens, stops>>
  BY DEF ReceiveMsg, Receives, clientVars, counters
<1>2. Heeded(u, Head(wire[u]))
  BY <1>1 DEF Heeded, Tells
<1>3. \A q \in Pairs, k \in Keys : Answered(q, k)' <=> Answered(q, k)
  BY <1>1, AnsweredSame
<1>4. Grows
  BY <1>1, <1>3 DEF Grows, Held
<1>5. Waits
  <2>1. \A q \in Pairs : Awaited(q)' = Awaited(q)
    BY <1>1, AwaitedSame
  <2> QED BY <2>1 DEF Waits
<1>6. Calm' => Calm
  BY <1>1 DEF Calm
<1>7. Keyed'
  BY <1>1 DEF RaceInv, Keyed
<1>8. \A q \in Pairs, k \in Keys : sess'[q] # Nobody /\ sess'[q].send = k => Promised(q, k)
  BY <1>1 DEF Promised
<1> QED BY <1>1, <1>2, <1>3, <1>4, <1>5, <1>6, <1>7, <1>8, RaceHead

\* The second key of an opening tells which opening it is.
LEMMA SecondKey ==
  ASSUME NEW q \in Pairs, NEW n
  PROVE  Key(n, q[1], q[2], "j").n = n /\ Other(Key(n, q[1], q[2], "j")).n = n
BY DEF Key, Other

\* The answer to an opening gives its task the session, and the peer has been told:
\* the server has relayed or stored the opening, since it has answered it.
LEMMA ReceiveOkRace ==
  ASSUME IInv, ReachInv, RaceInv, NEW u \in Users, ReceiveOk(u)
  PROVE  RaceInv'
<1> DEFINE h == Head(wire[u])
<1>1. /\ mode[u] = "up" /\ wire[u] # <<>> /\ h.kind = "ok" /\ wire' = [wire EXCEPT ![u] = Tail(@)]
      /\ task' = [w \in Users \X Tasks |->
                    IF w[1] = u /\ task[w].st = "opening" /\ task[w].n = h.key.n
                    THEN [task[w] EXCEPT !.st = "opened"] ELSE task[w]]
      /\ UNCHANGED <<mode, sess, keys, up, initial, mailbox, interrupted, opens, stops>>
  BY DEF ReceiveOk, Receives, counters
<1>2. /\ h \in Written(u) /\ \A w \in Users : w # u => wire'[w] = wire[w]
      /\ Range(wire[u]) = Range(wire'[u]) \cup {h}
  BY <1>1, HeadGone
<1> HIDE DEF h
<1>3. \A w \in Users \X Tasks : task[w] \in Task
  BY DEF IInv, TypeOK
<1>4. \A w \in Users \X Tasks :
        IF w[1] = u /\ task[w].st = "opening" /\ task[w].n = h.key.n
        THEN task'[w].st = "opened" /\ task'[w].to = task[w].to /\ task'[w].n = task[w].n
        ELSE task'[w] = task[w]
  BY <1>1, <1>3 DEF Task
<1>5. h \in Packet /\ h.key \in Keys
  BY <1>2 DEF Written, Carried, Packet
<1>6. Grows
  <2>1. ASSUME NEW q \in Pairs, NEW k \in Keys, Answered(q, k) PROVE Answered(q, k)'
    <3>1. \A t \in Tasks : <<q[1], t>> \in Users \X Tasks
      BY BackPair
    <3> QED BY <1>4, <2>1, <3>1 DEF Answered
  <2> QED BY <1>1, <2>1 DEF Grows, Held
<1>7. Waits
  <2>1. \A q \in Pairs : Awaited(q)' = Awaited(q)
    BY <1>4, AwaitedSame
  <2> QED BY <2>1 DEF Waits
<1>8. Calm' => Calm
  BY <1>1 DEF Calm
<1>9. Keyed'
  BY <1>1 DEF RaceInv, Keyed
<1>10. ASSUME Calm PROVE Heeded(u, h)
  <2> SUFFICES ASSUME NEW q \in Pairs, NEW k \in Keys, q[1] = u, Tells(h, q, k)
               PROVE  Held(q, k)'
    BY DEF Heeded
  <2>1. h.to = q[2] /\ h.key = Other(k) /\ Other(h.key) = k
    BY <1>1, OtherKey DEF Tells
  <2>2. k \in Awaited(q) \cup keys[q]
    BY <1>1, <1>2, <1>10, <2>1 DEF RaceInv, OksMeant, Meant
  <2>3. CASE k \in keys[q]
    BY <1>1, <2>3 DEF Held
  <2>4. CASE k \in Awaited(q)
    <3>1. PICK t \in Tasks : /\ task[<<q[1], t>>].st \in {"opening", "opened"}
                             /\ task[<<q[1], t>>].to = q[2]
                             /\ Key(task[<<q[1], t>>].n, q[1], q[2], "j") = k
      BY <2>4, InWait
    <3>2. task[<<q[1], t>>].n = h.key.n
      BY <2>1, <3>1, SecondKey
    <3>3. <<q[1], t>> \in Users \X Tasks /\ <<q[1], t>>[1] = u
      BY <2>1
    <3>4. /\ task'[<<q[1], t>>].st = "opened" /\ task'[<<q[1], t>>].to = q[2]
          /\ Key(task'[<<q[1], t>>].n, q[1], q[2], "j") = k
      BY <1>4, <3>1, <3>2, <3>3
    <3> QED BY <3>4 DEF Held, Answered
  <2> QED BY <2>2, <2>3, <2>4
<1>11. ASSUME Calm, NEW q \in Pairs, NEW k \in Keys, Answered(q, k)', ~Answered(q, k)
       PROVE  Assured(Back(q), Other(k))'
  <2>1. PICK t \in Tasks : /\ task'[<<q[1], t>>].st = "opened" /\ task'[<<q[1], t>>].to = q[2]
                           /\ Key(task'[<<q[1], t>>].n, q[1], q[2], "j") = k
    BY <1>11 DEF Answered
  <2>2. <<q[1], t>> \in Users \X Tasks /\ <<q[1], t>>[1] = q[1] /\ q[2] \in Users /\ q[1] # q[2]
    BY BackPair
  <2>3. task'[<<q[1], t>>] # task[<<q[1], t>>]
    BY <1>11, <2>1 DEF Answered
  <2>4. /\ q[1] = u /\ task[<<q[1], t>>].st = "opening" /\ task[<<q[1], t>>].n = h.key.n
        /\ task[<<q[1], t>>].to = q[2] /\ Key(task[<<q[1], t>>].n, q[1], q[2], "j") = k
    BY <1>4, <2>1, <2>2, <2>3
  <2>5. k \in Awaited(q)
    BY <2>4 DEF Awaited, OpeningPending
  <2>6. Other(k).n = h.key.n /\ Other(k) \in Keys /\ Back(q)[1] = q[2] /\ Back(q)[2] = q[1]
    BY <2>4, SecondKey, OtherKey, BackPair
  <2>7. Other(k) \in Flying(q) \cup keys[Back(q)]
    BY <1>11, <2>5 DEF ReachInv, Met
  <2>8. CASE Other(k) \in keys[Back(q)]
    BY <1>1, <2>8 DEF Assured
  <2>9. CASE Other(k) \in Flying(q)
    <3>1. PICK p : InTransit(q, p) /\ p.key = Other(k)
      BY <2>9, InFlight
    <3>2. p \notin Range(up[u])
      <4>1. h \in Range(wire[u])
        BY <1>2
      <4>2. Unanswered(u)
        BY DEF ReachInv, Once
      <4> QED BY <1>1, <2>6, <3>1, <4>1, <4>2 DEF Unanswered, InTransit
    <3>3. p \in Inbox(q[2])'
      BY <1>1, <1>2, <2>2, <2>4, <3>1, <3>2 DEF InTransit, Inbox
    <3>4. Tells(p, Back(q), Other(k))
      BY <2>6, <3>1 DEF Tells, InTransit
    <3>5. Tells(p, Back(q), Other(k))'
      BY <3>4 DEF Tells, Other, Back
    <3>6. p \in Inbox(Back(q)[1])'
      BY <2>6, <3>3
    <3> QED BY <3>5, <3>6 DEF Assured, Told
  <2> QED BY <2>7, <2>8, <2>9
<1>12. \A q \in Pairs, k \in Keys : sess'[q] # Nobody /\ sess'[q].send = k => Promised(q, k)
  BY <1>1 DEF Promised
<1>13. \A w \in Users : w # u => \A t \in Tasks : task'[<<w, t>>] = task[<<w, t>>]
  <2>1. \A w \in Users, t \in Tasks : <<w, t>> \in Users \X Tasks /\ <<w, t>>[1] = w
    OBVIOUS
  <2> QED BY <1>4, <2>1
<1> QED BY <1>1, <1>6, <1>7, <1>8, <1>9, <1>10, <1>11, <1>12, <1>13, RaceHead DEF h

\* A client that accepts an opening stores the key it tells, and encrypts with the other
\* one, which it was told to use.
LEMMA AcceptHeeds ==
  ASSUME IInv, RaceInv, NEW u \in Users, NEW p \in Openings(u), p \in Inbox(u),
         AcceptSession(u, p), UNCHANGED task
  PROVE  /\ Keyed' /\ Grows /\ Waits /\ Heeded(u, p)
         /\ \A q \in Pairs, k \in Keys :
              /\ Answered(q, k)' <=> Answered(q, k)
              /\ sess'[q] # Nobody /\ sess'[q].send = k => Promised(q, k)
<1> DEFINE v == p.from
           i == p.key
           j == [p.key EXCEPT !.side = "j"]
           q == <<u, v>>
           s == [send |-> j, recv |-> i]
<1>1. v \in Users /\ v # u /\ i \in Keys /\ i.side = "i" /\ p.kind = "open"
  BY DEF Openings, Carried, Packet
<1>2. j \in Keys /\ Other(j) = i
  <2>1. j = Other(i)
    BY <1>1 DEF Other, Keys
  <2> HIDE DEF j
  <2> QED BY <1>1, <2>1, OtherKey
<1>3. q \in Pairs /\ q[1] = u /\ q[2] = v
  BY <1>1 DEF Pairs
<1>4. keys' = [keys EXCEPT ![q] = @ \cup {i, j}] /\ sess' = [sess EXCEPT ![q] = s]
  BY DEF AcceptSession
<1>5. s.send = j /\ s # Nobody
  <2>1. s \in Session
    BY <1>1, <1>2 DEF Session
  <2> QED BY <2>1, SessionsAssumption
<1> HIDE DEF s, q, j
<1>6. keys \in [Pairs -> SUBSET Keys] /\ sess \in [Pairs -> Session \cup {Nobody}]
  BY DEF IInv, TypeOK
<1>7. keys'[q] = keys[q] \cup {i, j} /\ \A r \in Pairs : r # q => keys'[r] = keys[r]
  BY <1>3, <1>4, <1>6
<1>8. sess'[q] = s /\ \A r \in Pairs : r # q => sess'[r] = sess[r]
  BY <1>3, <1>4, <1>6
<1>9. Keyed'
  BY <1>5, <1>7, <1>8 DEF RaceInv, Keyed
<1>10. \A r \in Pairs, k \in Keys : Answered(r, k)' <=> Answered(r, k)
  BY AnsweredSame
<1>11. Grows
  BY <1>7, <1>10 DEF Grows, Held
<1>12. Waits
  <2>1. \A r \in Pairs : Awaited(r)' = Awaited(r)
    BY AwaitedSame
  <2> QED BY <2>1 DEF Waits
<1>13. Heeded(u, p)
  <2> SUFFICES ASSUME NEW r \in Pairs, NEW k \in Keys, r[1] = u, Tells(p, r, k)
               PROVE  Held(r, k)'
    BY DEF Heeded
  <2>1. r[2] = v /\ k = i
    BY <1>1 DEF Tells
  <2>2. r = q
    BY <2>1, BackPair DEF q
  <2> QED BY <1>7, <2>1, <2>2 DEF Held
<1>14. ASSUME NEW r \in Pairs, NEW k \in Keys, sess'[r] # Nobody, sess'[r].send = k
       PROVE  Promised(r, k)
  <2>1. CASE r = q
    <3>1. k = j
      BY <1>5, <1>8, <1>14, <2>1
    <3>2. Tells(p, r, Other(k))
      BY <1>1, <1>2, <1>3, <2>1, <3>1 DEF Tells
    <3> QED BY <1>3, <2>1, <3>2 DEF Promised, Told
  <2>2. CASE r # q
    BY <1>8, <1>14, <2>2 DEF Promised
  <2> QED BY <2>1, <2>2
<1> QED BY <1>9, <1>10, <1>11, <1>12, <1>13, <1>14

\* An opening that was relayed is accepted.
LEMMA ReceiveOpenRace ==
  ASSUME IInv, RaceInv, NEW u \in Users, ReceiveOpen(u)
  PROVE  RaceInv'
<1> DEFINE p == Head(wire[u])
<1>1. /\ mode[u] = "up" /\ wire[u] # <<>> /\ p.kind = "open" /\ wire' = [wire EXCEPT ![u] = Tail(@)]
      /\ AcceptSession(u, p)
      /\ UNCHANGED <<mode, task, up, initial, mailbox, interrupted, opens, stops>>
  BY DEF ReceiveOpen, Receives, counters
<1>2. p \in Written(u) /\ Range(wire[u]) = Range(wire'[u]) \cup {p}
  BY <1>1, HeadGone
<1> HIDE DEF p
<1>3. p \in Openings(u) /\ p \in Inbox(u)
  BY <1>1, <1>2 DEF Written, Openings, Inbox
<1>4. /\ Keyed' /\ Grows /\ Waits /\ Heeded(u, p)
      /\ \A q \in Pairs, k \in Keys :
           /\ Answered(q, k)' <=> Answered(q, k)
           /\ sess'[q] # Nobody /\ sess'[q].send = k => Promised(q, k)
  BY <1>1, <1>3, AcceptHeeds
<1>5. Calm' => Calm
  BY <1>1 DEF Calm
<1> QED BY <1>1, <1>4, <1>5, RaceHead DEF p

\* An opening that was stored is accepted.
LEMMA SyncInitialRace ==
  ASSUME IInv, RaceInv, NEW u \in Users, SyncInitial(u)
  PROVE  RaceInv'
<1> DEFINE p == Head(initial[u])
<1>1. /\ mode[u] = "initial" /\ fetched[u] # 0 /\ initial' = [initial EXCEPT ![u] = Tail(@)]
      /\ AcceptSession(u, p)
      /\ UNCHANGED <<mode, task, up, wire, mailbox, interrupted, opens, stops>>
  BY DEF SyncInitial, counters
<1>2. initial[u] \in Seq(Openings(u)) /\ initial \in [Users -> Seq(Packet)] /\ initial[u] # <<>>
  BY <1>1, InChannels, BatchThere DEF IInv, TypeOK
<1>3. initial'[u] = Tail(initial[u]) /\ \A w \in Users : w # u => initial'[w] = initial[w]
  BY <1>1, <1>2
<1>4. p \in Openings(u)
  BY <1>1, <1>2
<1>5. Range(initial[u]) = Range(initial'[u]) \cup {p}
  BY <1>1, <1>2, <1>3, RangeOfTail
<1> HIDE DEF p
<1>6. p \in Inbox(u)
  BY <1>5 DEF Inbox
<1>7. /\ Keyed' /\ Grows /\ Waits /\ Heeded(u, p)
      /\ \A q \in Pairs, k \in Keys :
           /\ Answered(q, k)' <=> Answered(q, k)
           /\ sess'[q] # Nobody /\ sess'[q].send = k => Promised(q, k)
  BY <1>1, <1>4, <1>6, AcceptHeeds
<1>8. Modes'
  BY <1>1, <1>3 DEF RaceInv, Modes
<1>9. Heeds
  <2> SUFFICES ASSUME NEW w \in Users
               PROVE  /\ Inbox(w)' \subseteq Inbox(w)
                      /\ \A o \in Inbox(w) : o \in Inbox(w)' \/ Heeded(w, o)
    BY <1>1 DEF Heeds
  <2>1. CASE w = u
    BY <1>1, <1>5, <1>7, <2>1 DEF Inbox
  <2>2. CASE w # u
    BY <1>1, <1>3, <2>2 DEF Inbox
  <2> QED BY <2>1, <2>2
<1>10. Sources
  <2> SUFFICES ASSUME NEW q \in Pairs, NEW k \in Keys
               PROVE  /\ \A x \in Range(up'[q[1]]) :
                           x.kind = "msg" /\ x.to = q[2] /\ x.key = k => Promised(q, k)
                      /\ \A x \in Range(mailbox'[q[2]]) : x.from = q[1] /\ x.key = k => Promised(q, k)
    BY <1>7 DEF Sources
  <2> QED BY <1>1 DEF Promised
<1>11. Calm' => Calm
  BY <1>1 DEF Calm
<1>12. Calm => \A w \in Users : InOrder(w)'
  BY <1>1, <1>7, OrderKept DEF RaceInv
<1> QED BY <1>7, <1>8, <1>9, <1>10, <1>11, <1>12, RaceHeeds

\* A task that was answered stores the keys, and has the session to encrypt with.
LEMMA UpdateRace ==
  ASSUME IInv, RaceInv, NEW u \in Users, NEW t \in Tasks, UpdateSession(u, t)
  PROVE  RaceInv'
<1>1. task \in [Users \X Tasks -> Task] /\ <<u, t>> \in Users \X Tasks
  BY DEF IInv, TypeOK
<1>2. PICK v \in Users, n \in 1 .. MaxOpens :
         v # u /\ task[<<u, t>>].to = v /\ task[<<u, t>>].n = n
  <2>1. task[<<u, t>>].st = "opened"
    BY DEF UpdateSession
  <2> QED BY <1>1, <2>1 DEF IInv, TasksSound, Task
<1> DEFINE i == Key(n, u, v, "i")
           j == Key(n, u, v, "j")
           q == <<u, v>>
           s == [send |-> i, recv |-> j]
<1>3. /\ task[<<u, t>>].st = "opened"
      /\ keys' = [keys EXCEPT ![q] = @ \cup {i, j}] /\ sess' = [sess EXCEPT ![q] = s]
      /\ task' = [task EXCEPT ![<<u, t>>] = Idle(u)]
      /\ UNCHANGED <<mode, up, wire, initial, mailbox, interrupted, opens, stops>>
  BY <1>2 DEF UpdateSession, serverVars, counters
<1>4. i \in Keys /\ j \in Keys /\ j = Other(i)
  <2>1. i \in Keys /\ j \in Keys
    BY <1>2, KeyType
  <2> QED BY <2>1 DEF Other, Key
<1>5. q \in Pairs /\ q[1] = u /\ q[2] = v
  BY <1>2 DEF Pairs
<1>6. s.send = i /\ s # Nobody
  <2>1. s \in Session
    BY <1>4 DEF Session
  <2> QED BY <2>1, SessionsAssumption
<1>7. Answered(q, j)
  BY <1>2, <1>3 DEF Answered
<1>8. \A w \in Users \X Tasks : task'[w] = task[w] \/ (w = <<u, t>> /\ task'[w].st = "idle")
  BY <1>1, <1>3 DEF Idle
<1>9. keys \in [Pairs -> SUBSET Keys] /\ sess \in [Pairs -> Session \cup {Nobody}]
  BY DEF IInv, TypeOK
<1>10. ASSUME NEW r \in Pairs, NEW x \in Tasks, NEW k,
              task[<<r[1], x>>].to = r[2], Key(task[<<r[1], x>>].n, r[1], r[2], "j") = k,
              task'[<<r[1], x>>] # task[<<r[1], x>>]
       PROVE  r = q /\ k = j
  <2>1. r[1] \in Users /\ r = <<r[1], r[2]>> /\ <<r[1], x>> \in Users \X Tasks
    BY BackPair
  <2>2. r[1] = u /\ x = t
    BY <1>8, <1>10, <2>1
  <2> QED BY <1>2, <1>10, <2>1, <2>2
<1> HIDE DEF s, q, i, j
<1>11. keys'[q] = keys[q] \cup {i, j} /\ \A r \in Pairs : r # q => keys'[r] = keys[r]
  BY <1>3, <1>5, <1>9
<1>12. sess'[q] = s /\ \A r \in Pairs : r # q => sess'[r] = sess[r]
  BY <1>3, <1>5, <1>9
<1>13. Keyed'
  BY <1>6, <1>11, <1>12 DEF RaceInv, Keyed
<1>14. Grows
  <2>1. ASSUME NEW r \in Pairs, NEW k \in Keys, Answered(r, k) PROVE Held(r, k)'
    <3>1. PICK x \in Tasks : /\ task[<<r[1], x>>].st = "opened"
                             /\ task[<<r[1], x>>].to = r[2]
                             /\ Key(task[<<r[1], x>>].n, r[1], r[2], "j") = k
      BY <2>1 DEF Answered
    <3>2. CASE task'[<<r[1], x>>] = task[<<r[1], x>>]
      BY <3>1, <3>2 DEF Held, Answered
    <3>3. CASE r = q /\ k = j
      BY <1>11, <3>3 DEF Held
    <3> QED BY <1>10, <3>1, <3>2, <3>3
  <2> QED BY <1>11, <2>1 DEF Grows
<1>15. Waits
  <2>1. ASSUME NEW r \in Pairs, NEW k \in Awaited(r) PROVE k \in Awaited(r)' \cup keys'[r]
    <3>1. PICK x \in Tasks : /\ task[<<r[1], x>>].st \in {"opening", "opened"}
                             /\ task[<<r[1], x>>].to = r[2]
                             /\ Key(task[<<r[1], x>>].n, r[1], r[2], "j") = k
      BY <2>1, InWait
    <3>2. CASE task'[<<r[1], x>>] = task[<<r[1], x>>]
      BY <2>1, <3>1, <3>2 DEF Awaited, OpeningPending
    <3>3. CASE r = q /\ k = j
      BY <1>11, <3>3
    <3> QED BY <1>10, <3>1, <3>2, <3>3
  <2> QED BY <2>1 DEF Waits
<1>16. ASSUME NEW r \in Pairs, NEW k \in Keys
       PROVE  /\ Answered(r, k)' => Answered(r, k)
              /\ sess'[r] # Nobody /\ sess'[r].send = k => Promised(r, k)
              /\ \A p \in Range(up'[r[1]]) :
                   p.kind = "msg" /\ p.to = r[2] /\ p.key = k => Promised(r, k)
              /\ \A p \in Range(mailbox'[r[2]]) : p.from = r[1] /\ p.key = k => Promised(r, k)
  <2>1. Answered(r, k)' => Answered(r, k)
    <3>1. \A x \in Tasks : <<r[1], x>> \in Users \X Tasks
      BY BackPair
    <3>2. \A x \in Tasks : task'[<<r[1], x>>].st = "opened" => task'[<<r[1], x>>] = task[<<r[1], x>>]
      BY <1>8, <3>1
    <3> QED BY <3>2 DEF Answered
  <2>2. ASSUME sess'[r] # Nobody, sess'[r].send = k PROVE Promised(r, k)
    <3>1. CASE r = q
      <4>1. k = i
        BY <1>6, <1>12, <2>2, <3>1
      <4> QED BY <1>4, <1>7, <3>1, <4>1 DEF Promised, Told
    <3>2. CASE r # q
      BY <1>12, <2>2, <3>2 DEF Promised
    <3> QED BY <3>1, <3>2
  <2> QED BY <1>3, <2>1, <2>2 DEF Promised
<1>17. Modes'
  <2>1. mode[u] = "up"
    BY <1>3 DEF RaceInv, Modes
  <2>2. ASSUME NEW w \in Users, w # u, NEW x \in Tasks PROVE task'[<<w, x>>] = task[<<w, x>>]
    BY <1>8, <2>2
  <2> QED BY <1>3, <2>1, <2>2, ModesUp DEF RaceInv
<1>18. Calm' => Calm
  BY <1>3 DEF Calm
<1>19. Heeds /\ Sources
  BY <1>3, <1>16 DEF Heeds, Inbox, Sources
<1>20. Calm => \A w \in Users : InOrder(w)'
  BY <1>3, <1>14, OrderKept DEF RaceInv
<1> QED BY <1>13, <1>14, <1>15, <1>17, <1>18, <1>19, <1>20, RaceHeeds

\* The server takes back a message behind the opening that tells its key, or for a key
\* that is stored, and an answer whose session is stored.
LEMMA TakeBackRace ==
  ASSUME IInv, RaceInv, NEW u \in Users, TakeBack(u)
  PROVE  RaceInv'
<1> DEFINE e == Last(wire[u])
<1>1. /\ mode[u] = "down" /\ wire[u] # <<>> /\ wire' = [wire EXCEPT ![u] = Front(@)]
      /\ initial' = IF e.kind = "open" THEN [initial EXCEPT ![u] = <<e>> \o @] ELSE initial
      /\ mailbox' = IF e.kind = "msg" THEN [mailbox EXCEPT ![u] = <<e>> \o @] ELSE mailbox
      /\ UNCHANGED <<mode, sess, keys, task, up, interrupted, opens, stops>>
  BY DEF TakeBack, clientVars, counters
<1>2. /\ wire \in [Users -> Seq(Packet)] /\ initial \in [Users -> Seq(Packet)]
      /\ mailbox \in [Users -> Seq(Packet)]
  BY DEF IInv, TypeOK
<1>3. wire'[u] = Front(wire[u]) /\ \A w \in Users : w # u => wire'[w] = wire[w]
  BY <1>1, <1>2
<1>4. e \in Packet /\ Range(wire[u]) = Range(wire'[u]) \cup {e}
  <2>1. wire[u] \in Seq(Packet)
    BY <1>2
  <2> QED BY <1>1, <1>3, <2>1, FrontLast, RangeOfFront
<1>5. /\ Len(wire[u]) \in DOMAIN wire[u] /\ e = wire[u][Len(wire[u])]
      /\ \A j \in 1 .. Len(wire[u]) - 1 : wire[u][j] \in Range(wire'[u])
  <2> DEFINE s == wire[u]
  <2>1. s \in Seq(Packet) /\ s # <<>>
    BY <1>1, <1>2
  <2>2. Len(s) \in Nat /\ Len(s) >= 1 /\ DOMAIN s = 1 .. Len(s)
    BY <2>1
  <2>3. Last(s) = s[Len(s)] /\ DOMAIN Front(s) = 1 .. Len(s) - 1
        /\ \A j \in 1 .. Len(s) - 1 : Front(s)[j] = s[j]
    BY <2>1, <2>2 DEF Front, Last
  <2>4. \A j \in 1 .. Len(s) - 1 : s[j] \in Range(Front(s))
    BY <2>3 DEF Range
  <2>5. Len(s) \in DOMAIN s
    BY <2>2
  <2> HIDE DEF s
  <2>6. Last(s) = e /\ wire'[u] = Front(s)
    BY <1>3 DEF s
  <2> QED BY <2>3, <2>4, <2>5, <2>6 DEF s
<1> HIDE DEF e
<1>6. \A w \in Users : w # u => initial'[w] = initial[w] /\ mailbox'[w] = mailbox[w]
  BY <1>1, <1>2
<1>7. Range(initial'[u]) = Range(initial[u]) \cup (IF e.kind = "open" THEN {e} ELSE {})
  <2>1. CASE e.kind = "open"
    <3>1. initial'[u] = <<e>> \o initial[u] /\ initial[u] \in Seq(Packet)
      BY <1>1, <1>2, <2>1
    <3> QED BY <1>4, <2>1, <3>1, RangeOfCons
  <2>2. CASE e.kind # "open"
    BY <1>1, <2>2
  <2> QED BY <2>1, <2>2
<1>8. Range(mailbox'[u]) = Range(mailbox[u]) \cup (IF e.kind = "msg" THEN {e} ELSE {})
  <2>1. CASE e.kind = "msg"
    <3>1. mailbox'[u] = <<e>> \o mailbox[u] /\ mailbox[u] \in Seq(Packet)
      BY <1>1, <1>2, <2>1
    <3> QED BY <1>4, <2>1, <3>1, RangeOfCons
  <2>2. CASE e.kind # "msg"
    BY <1>1, <2>2
  <2> QED BY <2>1, <2>2
<1>9. Modes' /\ Keyed'
  BY <1>1, <1>3, <1>6 DEF RaceInv, Modes, Keyed
<1>10. \A q \in Pairs, k \in Keys : Answered(q, k)' <=> Answered(q, k)
  BY <1>1, AnsweredSame
<1>11. Grows
  BY <1>1, <1>10 DEF Grows, Held
<1>12. Waits
  <2>1. \A q \in Pairs : Awaited(q)' = Awaited(q)
    BY <1>1, AwaitedSame
  <2> QED BY <2>1 DEF Waits
<1>13. Calm' => Calm
  BY <1>1 DEF Calm
<1>14. ASSUME Calm, e.kind # "open" PROVE Heeded(u, e)
  <2> SUFFICES ASSUME NEW q \in Pairs, NEW k \in Keys, q[1] = u, Tells(e, q, k)
               PROVE  Held(q, k)'
    BY DEF Heeded
  <2>1. e.kind = "ok" /\ e.to = q[2] /\ Other(e.key) = k
    BY <1>14, OtherKey DEF Tells
  <2>2. k \in Awaited(q) \cup keys[q]
    BY <1>4, <1>14, <2>1 DEF RaceInv, OksMeant, Meant
  <2>3. \A t \in Tasks : task[<<q[1], t>>].st = "idle"
    BY <1>1 DEF RaceInv, Modes
  <2>4. k \notin Awaited(q)
    BY <2>3, InWait
  <2> QED BY <1>1, <2>2, <2>4 DEF Held
<1>15. Calm => Heeds
  <2> SUFFICES ASSUME Calm, NEW w \in Users
               PROVE  /\ Inbox(w)' \subseteq Inbox(w)
                      /\ \A o \in Inbox(w) : o \in Inbox(w)' \/ Heeded(w, o)
                      /\ \A o \in Range(wire'[w]) : o.kind = "ok" => o \in Range(wire[w])
    BY DEF Heeds
  <2>1. CASE w = u
    BY <1>4, <1>7, <1>14, <2>1 DEF Inbox
  <2>2. CASE w # u
    BY <1>3, <1>6, <2>2 DEF Inbox
  <2> QED BY <2>1, <2>2
<1>16. ASSUME Calm, NEW q \in Pairs, NEW k \in Keys, NEW p \in Range(mailbox'[q[2]]),
              p.from = q[1], p.key = k
       PROVE  Promised(q, k) \/ Assured(Back(q), k)'
  <2>1. q[2] \in Users /\ Back(q) = <<q[2], q[1]>> /\ Back(q)[1] = q[2] /\ Back(q) \in Pairs
    BY BackPair DEF Back
  <2>2. CASE p \in Range(mailbox[q[2]])
    BY <1>16, <2>2 DEF Promised
  <2>3. CASE q[2] = u /\ p = e /\ e.kind = "msg"
    <3> DEFINE l == Len(wire[u])
    <3>1. Ahead(u, l, <<u, e.from>>, e.key)
      BY <1>5, <1>16, <2>3 DEF RaceInv, InOrder
    <3>2. <<u, e.from>> = Back(q) /\ e.key = k
      BY <1>16, <2>1, <2>3
    <3>3. CASE Held(Back(q), k)
      <4>1. Held(Back(q), k)'
        BY <1>11, <2>1, <3>3 DEF Grows, Held
      <4> QED BY <4>1 DEF Held, Assured, Told
    <3>4. ASSUME NEW j \in 1 .. l - 1, Tells(wire[u][j], Back(q), k)
          PROVE  Assured(Back(q), k)'
      <4>1. wire[u][j] \in Range(wire'[u])
        BY <1>5
      <4> DEFINE o == wire[u][j]
      <4>2. o \in Inbox(u)' /\ Tells(o, Back(q), k)
        BY <3>4, <4>1 DEF Inbox
      <4> HIDE DEF o
      <4>3. o \in Inbox(Back(q)[1])'
        BY <2>1, <2>3, <4>2
      <4> QED BY <4>2, <4>3 DEF Assured, Told, Tells, Other, Back
    <3> QED BY <3>1, <3>2, <3>3, <3>4 DEF Ahead
  <2> QED BY <1>6, <1>8, <1>16, <2>1, <2>2, <2>3
<1>17. Calm => Sources
  <2> SUFFICES ASSUME NEW q \in Pairs, NEW k \in Keys
               PROVE  /\ sess'[q] # Nobody /\ sess'[q].send = k => Promised(q, k)
                      /\ \A p \in Range(up'[q[1]]) :
                           p.kind = "msg" /\ p.to = q[2] /\ p.key = k => Promised(q, k)
    BY <1>10, <1>16 DEF Sources
  <2> QED BY <1>1 DEF Promised
<1>18. ASSUME Calm, NEW w \in Users PROVE InOrder(w)'
  <2>1. InOrder(w)
    BY <1>18 DEF RaceInv
  <2>2. CASE w = u
    BY <1>1, <1>3, <1>11, <2>1, <2>2, OrderFront
  <2>3. CASE w # u
    BY <1>3, <1>11, <2>1, <2>3, OrderKept
  <2> QED BY <2>2, <2>3
<1> QED BY <1>9, <1>11, <1>12, <1>13, <1>15, <1>17, <1>18, RaceHeeds

\* A client that comes up has handled what it was sent, and its openings are relayed.
LEMMA SyncDoneRace ==
  ASSUME IInv, ReachInv, RaceInv, NEW u \in Users, SyncDone(u)
  PROVE  RaceInv'
<1>1. /\ mode[u] = "messages" /\ mode' = [mode EXCEPT ![u] = "up"] /\ mailbox[u] = <<>>
      /\ keys' = [q \in Pairs |-> IF q[1] = u /\ q[2] \in seen[u]
                                  THEN keys[q] \cap CurrentKeys(sess[q]) ELSE keys[q]]
      /\ wire' = [wire EXCEPT ![u] = @ \o initial[u]] /\ initial' = [initial EXCEPT ![u] = <<>>]
      /\ UNCHANGED <<sess, task, up, mailbox, interrupted, opens, stops>>
  BY DEF SyncDone, counters
<1>2. /\ wire \in [Users -> Seq(Packet)] /\ initial \in [Users -> Seq(Packet)]
      /\ mode \in [Users -> {"down", "initial", "messages", "up"}]
  BY DEF IInv, TypeOK
<1>3. \A w \in Users : w # u => wire'[w] = wire[w] /\ initial'[w] = initial[w] /\ mode'[w] = mode[w]
  BY <1>1, <1>2
<1>4. wire[u] = <<>>
  BY <1>1 DEF RaceInv, Modes
<1>5. wire'[u] = initial[u] /\ initial'[u] = <<>> /\ mode'[u] = "up"
  <2>1. initial[u] \in Seq(Packet)
    BY <1>2
  <2>2. <<>> \o initial[u] = initial[u]
    BY <2>1
  <2> QED BY <1>1, <1>2, <1>4, <2>2
<1>6. Range(<<>>) = {}
  BY DEF Range
<1>7. \A w \in Users : Inbox(w)' = Inbox(w)
  <2> SUFFICES ASSUME NEW w \in Users PROVE Inbox(w)' = Inbox(w)
    OBVIOUS
  <2>1. CASE w = u
    BY <1>4, <1>5, <1>6, <2>1 DEF Inbox
  <2>2. CASE w # u
    BY <1>3, <2>2 DEF Inbox
  <2> QED BY <2>1, <2>2
<1>8. \A p \in Range(initial[u]) : p.kind = "open"
  BY InChannels DEF Openings
<1>9. Modes'
  BY <1>1, <1>3, <1>5 DEF RaceInv, Modes
<1>10. Keyed'
  BY <1>1 DEF RaceInv, Keyed
<1>11. Calm' => Calm
  BY <1>1 DEF Calm
<1>12. Calm => \A q \in Pairs : keys'[q] = keys[q]
  BY CleanupSpares
<1>13. \A q \in Pairs, k \in Keys : Answered(q, k)' <=> Answered(q, k)
  BY <1>1, AnsweredSame
<1>14. Calm => Grows
  BY <1>12, <1>13 DEF Grows, Held
<1>15. Waits
  <2>1. \A q \in Pairs : Awaited(q)' = Awaited(q)
    BY <1>1, AwaitedSame
  <2> QED BY <2>1 DEF Waits
<1>16. Heeds
  <2>1. \A w \in Users : \A o \in Range(wire'[w]) : o.kind = "ok" => o \in Range(wire[w])
    BY <1>3, <1>5, <1>8
  <2> QED BY <1>7, <2>1 DEF Heeds
<1>17. Sources
  <2> SUFFICES ASSUME NEW q \in Pairs, NEW k \in Keys
               PROVE  /\ sess'[q] # Nobody /\ sess'[q].send = k => Promised(q, k)
                      /\ \A p \in Range(up'[q[1]]) :
                           p.kind = "msg" /\ p.to = q[2] /\ p.key = k => Promised(q, k)
                      /\ \A p \in Range(mailbox'[q[2]]) : p.from = q[1] /\ p.key = k => Promised(q, k)
    BY <1>13 DEF Sources
  <2> QED BY <1>1 DEF Promised
<1>18. ASSUME Calm, NEW w \in Users PROVE InOrder(w)'
  <2>1. CASE w = u
    <3>1. \A i \in DOMAIN initial[u] : initial[u][i].kind = "open"
      BY <1>8 DEF Range
    <3> QED BY <1>5, <2>1, <3>1 DEF InOrder
  <2>2. CASE w # u
    <3>1. InOrder(w)
      BY <1>18 DEF RaceInv
    <3> QED BY <1>3, <1>14, <1>18, <2>2, <3>1, OrderKept
  <2> QED BY <2>1, <2>2
<1> QED BY <1>9, <1>10, <1>11, <1>14, <1>15, <1>16, <1>17, <1>18, RaceHeeds

\* The server relays or stores an opening in the same step as it answers it, and what it
\* relays to a client that is up comes behind all that it has for it.
LEMMA ServerRace ==
  ASSUME IInv, ReachInv, RaceInv, NEW u \in Users, ServerHandle(u)
  PROVE  RaceInv'
<1>0. PICK h : h = Head(up[u])
  OBVIOUS
<1> DEFINE o == [h EXCEPT !.kind = "ok"]
           v == h.to
           q == <<u, v>>
           b == <<v, u>>
<1>1. /\ up[u] # <<>> /\ up' = [up EXCEPT ![u] = Tail(@)]
      /\ wire' = [w \in Users |->
                    IF w = h.to /\ mode[w] = "up" THEN Append(wire[w], h)
                    ELSE IF w = u /\ h.kind = "open" THEN Append(wire[u], o) ELSE wire[w]]
      /\ initial' = IF h.kind = "open" /\ mode[h.to] # "up"
                    THEN [initial EXCEPT ![h.to] = Append(@, h)] ELSE initial
      /\ mailbox' = IF h.kind = "msg" /\ mode[h.to] # "up"
                    THEN [mailbox EXCEPT ![h.to] = Append(@, h)] ELSE mailbox
      /\ UNCHANGED <<mode, sess, keys, task, interrupted, opens, stops>>
  BY <1>0 DEF ServerHandle, Stored, clientVars, counters
<1>2. /\ up \in [Users -> Seq(Packet)] /\ wire \in [Users -> Seq(Packet)]
      /\ initial \in [Users -> Seq(Packet)] /\ mailbox \in [Users -> Seq(Packet)]
  BY DEF IInv, TypeOK
<1>3. /\ h \in Packet /\ h.from = u /\ v \in Users /\ v # u /\ h.kind # "ok" /\ h.key \in Keys
  <2>1. up[u] \in Seq(Sent(u))
    BY InChannels
  <2>2. h \in Sent(u)
    BY <1>0, <1>1, <2>1
  <2> QED BY <2>2 DEF Sent, Carried, Packet
<1>4. o \in Packet /\ o.kind = "ok" /\ o.key = h.key /\ o.to = v
  BY <1>3 DEF Packet
<1>5. up'[u] = Tail(up[u]) /\ \A w \in Users : w # u => up'[w] = up[w]
  BY <1>1, <1>2
<1>6. Range(up[u]) = Range(up'[u]) \cup {h}
  <2>1. up[u] \in Seq(Packet)
    BY <1>2
  <2> QED BY <1>0, <1>1, <1>5, <2>1, RangeOfTail
<1>7. /\ q \in Pairs /\ q[1] = u /\ q[2] = v /\ Back(q) = b
      /\ b \in Pairs /\ b[1] = v /\ b[2] = u /\ Back(b) = q
  BY <1>3 DEF Pairs, Back
<1>8. /\ wire'[v] = IF mode[v] = "up" THEN Append(wire[v], h) ELSE wire[v]
      /\ wire'[u] = IF h.kind = "open" THEN Append(wire[u], o) ELSE wire[u]
      /\ \A w \in Users : w # u /\ w # v => wire'[w] = wire[w]
  BY <1>1, <1>3
<1> HIDE DEF o, v, q, b
<1>9. /\ \A w \in Users : w # v => initial'[w] = initial[w] /\ mailbox'[w] = mailbox[w]
      /\ mode[v] = "up" => initial'[v] = initial[v] /\ mailbox'[v] = mailbox[v]
      /\ initial'[v] = IF h.kind = "open" /\ mode[v] # "up" THEN Append(initial[v], h) ELSE initial[v]
      /\ mailbox'[v] = IF h.kind = "msg" /\ mode[v] # "up" THEN Append(mailbox[v], h) ELSE mailbox[v]
  BY <1>1, <1>2, <1>3 DEF v
<1>10. /\ Range(wire'[v]) = Range(wire[v]) \cup (IF mode[v] = "up" THEN {h} ELSE {})
       /\ Range(wire'[u]) = Range(wire[u]) \cup (IF h.kind = "open" THEN {o} ELSE {})
       /\ Range(initial'[v]) = Range(initial[v]) \cup (IF h.kind = "open" /\ mode[v] # "up" THEN {h} ELSE {})
       /\ Range(mailbox'[v]) = Range(mailbox[v]) \cup (IF h.kind = "msg" /\ mode[v] # "up" THEN {h} ELSE {})
  <2>1. /\ wire[v] \in Seq(Packet) /\ wire[u] \in Seq(Packet)
        /\ initial[v] \in Seq(Packet) /\ mailbox[v] \in Seq(Packet)
    BY <1>2, <1>3
  <2>2. /\ Range(Append(wire[v], h)) = Range(wire[v]) \cup {h}
        /\ Range(Append(wire[u], o)) = Range(wire[u]) \cup {o}
        /\ Range(Append(initial[v], h)) = Range(initial[v]) \cup {h}
        /\ Range(Append(mailbox[v], h)) = Range(mailbox[v]) \cup {h}
    BY <1>3, <1>4, <2>1, RangeOfAppend
  <2> QED BY <1>8, <1>9, <2>2
<1>11. \A w \in Users : \A p : p \in Inbox(w)' <=>
         \/ p \in Inbox(w)
         \/ w = v /\ p = h /\ (mode[v] = "up" \/ h.kind = "open")
         \/ w = u /\ p = o /\ h.kind = "open"
  <2> SUFFICES ASSUME NEW w \in Users
               PROVE  \A p : p \in Inbox(w)' <=>
                        \/ p \in Inbox(w)
                        \/ w = v /\ p = h /\ (mode[v] = "up" \/ h.kind = "open")
                        \/ w = u /\ p = o /\ h.kind = "open"
    OBVIOUS
  <2>1. CASE w = v
    BY <1>3, <1>10, <2>1 DEF Inbox
  <2>2. CASE w = u
    BY <1>3, <1>9, <1>10, <2>2 DEF Inbox
  <2>3. CASE w # v /\ w # u
    BY <1>8, <1>9, <2>3 DEF Inbox
  <2> QED BY <2>1, <2>2, <2>3
<1>12. Modes'
  <2> SUFFICES ASSUME NEW w \in Users
               PROVE  /\ mode[w] # "up" => /\ \A p \in Range(up'[w]) : p.kind = "msg"
                                           /\ \A t \in Tasks : task[<<w, t>>].st = "idle"
                      /\ mode[w] \in {"initial", "messages"} => wire'[w] = <<>>
                      /\ mode[w] = "up" => initial'[w] = <<>> /\ mailbox'[w] = <<>>
    BY <1>1 DEF Modes
  <2>1. h.kind = "open" => mode[u] = "up"
    BY <1>6 DEF RaceInv, Modes
  <2>2. CASE w = u
    <3>1. \A p \in Range(up'[u]) : p \in Range(up[u])
      BY <1>6
    <3>2. u # v
      BY <1>3, <1>7
    <3>3. initial'[u] = initial[u] /\ mailbox'[u] = mailbox[u] /\ (mode[u] # "up" => wire'[u] = wire[u])
      BY <1>8, <1>9, <2>1, <3>2
    <3> QED BY <2>2, <3>1, <3>3 DEF RaceInv, Modes
  <2>3. CASE w = v
    BY <1>3, <1>5, <1>8, <1>9, <2>3 DEF RaceInv, Modes
  <2>4. CASE w # u /\ w # v
    BY <1>5, <1>8, <1>9, <2>4 DEF RaceInv, Modes
  <2> QED BY <2>2, <2>3, <2>4
<1>13. Keyed'
  BY <1>1 DEF RaceInv, Keyed
<1>14. \A r \in Pairs, k \in Keys : Answered(r, k)' <=> Answered(r, k)
  BY <1>1, AnsweredSame
<1>15. Grows
  BY <1>1, <1>14 DEF Grows, Held
<1>16. Lasts
  <2>1. \A r \in Pairs : r[1] \in Users
    BY BackPair
  <2> QED BY <1>11, <2>1 DEF Lasts
<1>17. ASSUME NEW r \in Pairs, NEW k \in Keys, Promised(r, k)', ~Promised(r, k)
       PROVE  Assured(Back(r), k)'
  <2>1. /\ r[1] \in Users /\ r[2] \in Users /\ r = <<r[1], r[2]>> /\ Back(r) = <<r[2], r[1]>>
        /\ Other(k) \in Keys /\ Other(Other(k)) = k
    BY BackPair, OtherKey DEF Back
  <2>2. ~(sess'[r] # Nobody /\ sess'[r].send = k)
    BY <1>1, <1>17 DEF Promised
  <2>3. ~\E p \in Range(up'[r[1]]) : p.kind = "msg" /\ p.to = r[2] /\ p.key = k
    BY <1>5, <1>6, <1>17, <2>1 DEF Promised
  <2>4. ~\E p \in Range(mailbox'[r[2]]) : p.from = r[1] /\ p.key = k
    <3> SUFFICES ASSUME NEW p \in Range(mailbox'[r[2]]), p.from = r[1], p.key = k PROVE FALSE
      OBVIOUS
    <3>1. CASE p \in Range(mailbox[r[2]])
      BY <1>17, <3>1 DEF Promised
    <3>2. CASE r[2] = v /\ p = h /\ h.kind = "msg"
      <4>1. p \in Range(up[u]) /\ p.to = v /\ r[1] = u
        BY <1>3, <1>6, <3>2 DEF v
      <4> QED BY <1>17, <3>2, <4>1 DEF Promised
    <3> QED BY <1>9, <1>10, <2>1, <3>1, <3>2
  <2>5. ~Answered(r, Other(k))'
    BY <1>14, <1>17, <2>1 DEF Promised, Told
  <2>6. Told(r, Other(k))'
    BY <1>17, <2>2, <2>3, <2>4 DEF Promised
  <2>7. PICK p \in Inbox(r[1])' : Tells(p, r, Other(k))
    BY <2>5, <2>6 DEF Told, Tells, Other
  <2>8. p \notin Inbox(r[1])
    BY <1>17, <2>7 DEF Promised, Told
  <2>9. CASE r[1] = v /\ p = h
    <3>1. h.kind = "open" /\ r[2] = u /\ h.key = Other(k)
      BY <1>3, <2>7, <2>9 DEF Tells
    <3>2. o \in Inbox(u)'
      BY <1>3, <1>11, <3>1
    <3>3. Tells(o, q, k)
      BY <1>4, <1>7, <3>1 DEF Tells
    <3>4. Back(r) = q /\ Back(r)[1] = u
      BY <1>7, <2>1, <2>9, <3>1 DEF q
    <3>5. Assured(q, k)'
      <4>1. o \in Inbox(q[1])'
        BY <1>7, <3>2
      <4> QED BY <3>3, <4>1 DEF Assured, Told, Tells, Other
    <3> QED BY <3>4, <3>5
  <2>10. CASE r[1] = u /\ p = o /\ h.kind = "open"
    <3>1. r[2] = v /\ h.key = k
      BY <1>4, <2>1, <2>7, <2>10 DEF Tells
    <3>2. h \in Inbox(v)'
      BY <1>3, <1>11, <2>10
    <3>3. Tells(h, b, k)
      BY <1>3, <1>7, <2>10, <3>1 DEF Tells
    <3>4. Back(r) = b
      BY <2>1, <2>10, <3>1 DEF b
    <3>5. Assured(b, k)'
      <4>1. h \in Inbox(b[1])'
        BY <1>7, <3>2
      <4> QED BY <3>3, <4>1 DEF Assured, Told, Tells, Other
    <3> QED BY <3>4, <3>5
  <2> QED BY <1>11, <2>1, <2>7, <2>8, <2>9, <2>10
<1>18. Honest
  BY <1>17 DEF Honest
<1>19. ASSUME Calm PROVE OksMeant'
  <2> SUFFICES ASSUME NEW r \in Pairs, NEW x \in Range(wire'[r[1]]), x.kind = "ok", x.to = r[2]
               PROVE  Other(x.key) \in Awaited(r)' \cup keys'[r]
    BY DEF OksMeant, Meant
  <2>1. r[1] \in Users /\ r = <<r[1], r[2]>>
    BY BackPair
  <2>2. Awaited(r)' = Awaited(r) /\ keys'[r] = keys[r]
    BY <1>1, AwaitedSame
  <2>3. CASE x \in Range(wire[r[1]])
    BY <1>19, <2>2, <2>3 DEF RaceInv, OksMeant, Meant
  <2>4. CASE r[1] = u /\ x = o /\ h.kind = "open"
    <3>1. r = q
      BY <1>4, <2>1, <2>4 DEF q
    <3>2. InTransit(q, h)
      BY <1>3, <1>6, <1>7, <2>4 DEF InTransit, v
    <3>3. h.key \in Flying(q)
      BY <1>3, <3>2, InFlight
    <3>4. Other(h.key) \in Awaited(q) \cup keys[q]
      BY <1>7, <1>19, <3>3 DEF ReachInv, Met
    <3> QED BY <1>4, <2>2, <2>4, <3>1, <3>4
  <2>5. x \in Range(wire[r[1]]) \/ (r[1] = u /\ x = o /\ h.kind = "open")
    <3>1. CASE r[1] = u
      BY <1>10, <3>1
    <3>2. CASE r[1] = v
      BY <1>3, <1>10, <3>2
    <3>3. CASE r[1] # u /\ r[1] # v
      BY <1>8, <2>1, <3>3
    <3> QED BY <3>1, <3>2, <3>3
  <2> QED BY <2>3, <2>4, <2>5
<1>20. ASSUME Calm, NEW w \in Users PROVE InOrder(w)'
  <2>1. InOrder(w)
    BY <1>20 DEF RaceInv
  <2>2. CASE w = v /\ mode[v] = "up"
    <3>1. ASSUME h.kind = "msg" PROVE Held(b, h.key)' \/ \E x \in Range(wire[v]) : Tells(x, b, h.key)
      <4>1. Promised(q, h.key)
        <5>1. h \in Range(up[u]) /\ h.to = v
          BY <1>6 DEF v
        <5> QED BY <1>7, <3>1, <5>1 DEF Promised
      <4>2. Assured(b, h.key)
        BY <1>3, <1>7, <1>20, <4>1 DEF RaceInv, PromisesKept
      <4>3. initial[v] = <<>>
        BY <1>3, <2>2 DEF RaceInv, Modes
      <4>4. Inbox(v) = Range(wire[v])
        <5>1. Range(<<>>) = {}
          BY DEF Range
        <5> QED BY <4>3, <5>1 DEF Inbox
      <4>5. CASE Held(b, h.key)
        BY <1>3, <1>7, <1>15, <4>5 DEF Grows, Held
      <4>6. Held(b, h.key) \/ \E x \in Inbox(v) : Tells(x, b, h.key)
        BY <1>7, <4>2 DEF Assured, Told, Held
      <4> QED BY <4>4, <4>5, <4>6
    <3>2. b = <<v, h.from>>
      BY <1>3 DEF b
    <3> QED BY <1>3, <1>8, <1>15, <2>1, <2>2, <3>1, <3>2, OrderAppend
  <2>3. CASE w = u /\ h.kind = "open"
    BY <1>3, <1>4, <1>8, <1>15, <2>1, <2>3, OrderAppend
  <2>4. CASE ~(w = v /\ mode[v] = "up") /\ ~(w = u /\ h.kind = "open")
    <3>1. wire'[w] = wire[w]
      BY <1>8, <2>4
    <3> QED BY <1>15, <2>1, <3>1, OrderKept
  <2> QED BY <2>2, <2>3, <2>4
<1>21. Calm' => Calm
  BY <1>1 DEF Calm
<1> QED BY <1>12, <1>13, <1>15, <1>16, <1>18, <1>19, <1>20, <1>21, RaceFollows

\* At first there is nothing to tell.
LEMMA StartRace == Init => RaceInv
<1> SUFFICES ASSUME Init PROVE RaceInv
  OBVIOUS
<1>1. Range(<<>>) = {}
  BY DEF Range
<1>2. \A u \in Users : /\ Range(up[u]) = {} /\ Range(wire[u]) = {} /\ Range(initial[u]) = {}
                       /\ Range(mailbox[u]) = {} /\ wire[u] = <<>> /\ initial[u] = <<>>
                       /\ mailbox[u] = <<>> /\ mode[u] = "up"
  BY <1>1 DEF Init
<1>3. \A w \in Users \X Tasks : task[w].st = "idle"
  BY DEF Init, Idle
<1>4. Modes
  BY <1>2 DEF Modes
<1>5. Keyed
  BY DEF Init, Keyed
<1>6. ASSUME NEW q \in Pairs, NEW k \in Keys PROVE ~Promised(q, k)
  <2>1. q[1] \in Users /\ q[2] \in Users /\ \A t \in Tasks : <<q[1], t>> \in Users \X Tasks
    BY BackPair
  <2>2. ~Told(q, Other(k))
    BY <1>2, <1>3, <2>1 DEF Told, Answered, Inbox
  <2>3. sess[q] = Nobody
    BY DEF Init
  <2> QED BY <1>2, <2>1, <2>2, <2>3 DEF Promised
<1>7. OksMeant
  <2>1. \A q \in Pairs : q[1] \in Users
    BY BackPair
  <2> QED BY <1>2, <2>1 DEF OksMeant
<1>8. ASSUME NEW u \in Users PROVE InOrder(u)
  BY <1>2 DEF InOrder
<1> QED BY <1>4, <1>5, <1>6, <1>7, <1>8 DEF RaceInv, PromisesKept

RacesInv == BothInv /\ RaceInv

\* Every step.
LEMMA StepRace == RacesInv /\ [Next]_vars => RacesInv'
<1> SUFFICES ASSUME IInv, ReachInv, RaceInv, [Next]_vars PROVE RaceInv'
  BY StepReach DEF RacesInv, BothInv
<1>1. CASE UNCHANGED vars
  <2>1. UNCHANGED <<mode, sess, keys, task, up, wire, initial, mailbox, interrupted, opens, stops>>
    BY <1>1 DEF vars, clientVars, serverVars, counters
  <2>2. Modes'
    BY <2>1 DEF RaceInv, Modes
  <2>3. Waits
    <3>1. \A q \in Pairs : Awaited(q)' = Awaited(q)
      BY <2>1, AwaitedSame
    <3> QED BY <3>1 DEF Waits
  <2>4. Calm' => Calm
    BY <2>1 DEF Calm
  <2>5. \A q \in Pairs, k \in Keys : \A p \in Range(up'[q[1]]) :
          p.kind = "msg" /\ p.to = q[2] /\ p.key = k => Promised(q, k)
    BY <2>1 DEF Promised
  <2> QED BY <2>1, <2>2, <2>3, <2>4, <2>5, QuietRace
<1>2. ASSUME Next PROVE RaceInv'
  <2>1. PICK u \in Users :
          \/ \E t \in Tasks, v \in Peers(u) : Send(u, t, v) \/ RequestBundle(u, t, v)
          \/ \E t \in Tasks : OpenSession(u, t) \/ UpdateSession(u, t)
          \/ ServerHandle(u)
          \/ ReceiveOk(u) \/ ReceiveOpen(u) \/ ReceiveMsg(u)
          \/ Stop(u) \/ TakeBack(u) \/ Start(u) \/ Fetch(u) \/ SyncInitialDone(u)
          \/ SyncInitial(u) \/ SyncMsg(u) \/ SyncDone(u)
    BY <1>2 DEF Next
  <2>2. CASE \E t \in Tasks, v \in Peers(u) : Send(u, t, v) \/ RequestBundle(u, t, v)
    BY <2>2, SendRace, RequestRace
  <2>3. CASE \E t \in Tasks : OpenSession(u, t) \/ UpdateSession(u, t)
    BY <2>3, OpenRace, UpdateRace
  <2>4. CASE ServerHandle(u)
    BY <2>4, ServerRace
  <2>5. CASE ReceiveOk(u) \/ ReceiveOpen(u) \/ ReceiveMsg(u)
    BY <2>5, ReceiveOkRace, ReceiveOpenRace, ReceiveMsgRace
  <2>6. CASE Stop(u) \/ TakeBack(u) \/ Start(u) \/ Fetch(u) \/ SyncInitialDone(u)
    BY <2>6, StopRace, TakeBackRace, SyncingRace
  <2>7. CASE SyncInitial(u) \/ SyncMsg(u) \/ SyncDone(u)
    BY <2>7, SyncInitialRace, SyncMsgRace, SyncDoneRace
  <2> QED BY <2>1, <2>2, <2>3, <2>4, <2>5, <2>6, <2>7
<1> QED BY <1>1, <1>2

\* A sequence that loses its head is another one.
LEMMA TailDiffers == ASSUME NEW S, NEW s \in Seq(S), s # <<>> PROVE Tail(s) # s
<1> DEFINE n == Len(s)
           m == Len(Tail(s))
<1>1. n \in Nat /\ n >= 1 /\ m = n - 1
  OBVIOUS
<1> HIDE DEF n, m
<1>2. m # n
  BY <1>1
<1> QED BY <1>2 DEF n, m

\* A client that is up and receives a message it cannot decrypt has had the answer to
\* the opening of that session.
LEMMA ReceiveMsgLoses ==
  ASSUME RacesInv, Calm, NEW u \in Users, ReceiveMsg(u), lost' # lost
  PROVE  wire'[u] # wire[u] /\ AnsweredNotSaved(u, Head(wire[u]))
<1> DEFINE p == Head(wire[u])
           q == <<u, p.from>>
<1>1. /\ wire[u] # <<>> /\ p.kind = "msg" /\ wire' = [wire EXCEPT ![u] = Tail(@)]
      /\ ~CanDecrypt(u, p)
  BY DEF ReceiveMsg, Receives
<1>2. IInv /\ RaceInv /\ wire \in [Users -> Seq(Packet)]
  BY DEF RacesInv, BothInv, IInv, TypeOK
<1>3. wire'[u] # wire[u]
  <2>1. wire[u] \in Seq(Packet) /\ wire'[u] = Tail(wire[u])
    BY <1>1, <1>2
  <2> QED BY <1>1, <2>1, TailDiffers
<1>4. 1 \in DOMAIN wire[u] /\ wire[u][1] = p
  <2>1. wire[u] \in Seq(Packet)
    BY <1>2
  <2> QED BY <1>1, <2>1
<1> HIDE DEF p
<1>5. q \in Pairs /\ q[1] = u /\ q[2] = p.from
  BY <1>1, <1>2, <1>4, WireMessage
<1>6. Ahead(u, 1, q, p.key)
  BY <1>1, <1>2, <1>4 DEF RaceInv, InOrder
<1>7. Held(q, p.key)
  <2>1. 1 .. 1 - 1 = {}
    OBVIOUS
  <2> QED BY <1>6, <2>1 DEF Ahead
<1>8. p.key \notin keys[q]
  BY <1>1, <1>2, <1>5 DEF CanDecrypt, RaceInv, Keyed
<1>9. Answered(q, p.key)
  BY <1>7, <1>8 DEF Held
<1>10. AnsweredNotSaved(u, p)
  BY <1>5, <1>9 DEF Answered, AnsweredNotSaved
<1> QED BY <1>3, <1>10 DEF p

\* A client that synchronizes and cannot decrypt a message has the opening of that session
\* in its inbox, which is the server's store: the one session there is has no other key
\* for the message.
LEMMA SyncMsgLoses ==
  ASSUME RacesInv, Calm, NEW u \in Users, SyncMsg(u), lost' # lost
  PROVE  mailbox'[u] # mailbox[u] /\ OpenedTooLate(u, Head(mailbox[u]))
<1> DEFINE p == Head(mailbox[u])
           q == <<u, p.from>>
<1>1. /\ mode[u] = "messages" /\ fetched[u] # 0 /\ mailbox' = [mailbox EXCEPT ![u] = Tail(@)]
      /\ sess[q] = Nobody \/ p.key # sess[q].recv
  BY DEF SyncMsg
<1>2. IInv /\ ReachInv /\ RaceInv /\ mailbox \in [Users -> Seq(Packet)]
  BY DEF RacesInv, BothInv, IInv, TypeOK
<1>3. mailbox[u] \in Seq(Messages(u)) /\ mailbox[u] \in Seq(Packet) /\ mailbox[u] # <<>>
  BY <1>1, <1>2, InChannels, BatchThere
<1>4. mailbox'[u] # mailbox[u]
  <2>1. mailbox'[u] = Tail(mailbox[u])
    BY <1>1, <1>2
  <2> QED BY <1>3, <2>1, TailDiffers
<1>5. p \in Messages(u) /\ p \in Range(mailbox[u])
  <2>1. p \in Messages(u)
    BY <1>3
  <2>2. Range(mailbox[u]) = Range(Tail(mailbox[u])) \cup {p}
    BY <1>3, RangeOfTail
  <2> QED BY <2>1, <2>2
<1> HIDE DEF p
<1>6. p.from \in Users /\ p.from # u /\ p.key \in Keys
  BY <1>5 DEF Messages, Carried, Packet
<1> DEFINE b == <<p.from, u>>
<1>7. /\ q \in Pairs /\ q[1] = u /\ q[2] = p.from
      /\ b \in Pairs /\ b[1] = p.from /\ b[2] = u /\ Back(b) = q
  BY <1>6 DEF Pairs, Back
<1> HIDE DEF b, q
<1>8. Assured(q, p.key)
  <2>1. Promised(b, p.key)
    BY <1>5, <1>7 DEF Promised
  <2> QED BY <1>2, <1>6, <1>7, <2>1 DEF RaceInv, PromisesKept
<1>9. p.key \notin keys[q]
  <2> SUFFICES ASSUME p.key \in keys[q] PROVE FALSE
    OBVIOUS
  <2>1. sess[q] # Nobody
    BY <1>2, <1>7 DEF RaceInv, Keyed
  <2>2. stops # 0
    BY <1>1, <1>2 DEF ReachInv, AllUp
  <2>3. keys[q] \subseteq CurrentKeys(sess[q])
    BY <1>2, <1>7, <2>1, <2>2, OneSession DEF Calm
  <2>4. p.key = sess[q].send
    BY <1>1, <2>1, <2>3 DEF CurrentKeys
  <2>5. SendsWith(q[1], q[2], p.key)
    BY <1>2, <1>7, <2>1, <2>4 DEF IInv, SendersSound
  <2>6. SendsWith(p.from, u, p.key)
    BY <1>5 DEF Messages, Carried
  <2> QED BY <1>6, <1>7, <2>5, <2>6 DEF SendsWith
<1>10. \A t \in Tasks : task[<<u, t>>].st = "idle"
  BY <1>1, <1>2 DEF RaceInv, Modes
<1>11. wire[u] = <<>>
  BY <1>1, <1>2 DEF RaceInv, Modes
<1>12. PICK o \in Inbox(u) : Tells(o, q, p.key)
  BY <1>7, <1>8, <1>9, <1>10 DEF Assured, Told, Answered
<1>13. o \in Range(initial[u])
  <2>1. Range(<<>>) = {}
    BY DEF Range
  <2> QED BY <1>11, <1>12, <2>1 DEF Inbox
<1>14. o.kind = "open"
  BY <1>2, <1>13, InChannels DEF Openings
<1>15. OpenedTooLate(u, p)
  BY <1>7, <1>12, <1>13, <1>14 DEF Tells, OpenedTooLate
<1> QED BY <1>4, <1>15 DEF p

\* A stop loses the messages of a batch that is not handled, and no other.
LEMMA StopLoses ==
  ASSUME IInv, NEW u \in Users, Stop(u), lost' # lost
  PROVE  DropsBatch(u)
<1>1. mode \in [Users -> {"down", "initial", "messages", "up"}]
  BY DEF IInv, TypeOK
<1>2. /\ mode' = [mode EXCEPT ![u] = "down"]
      /\ lost' = IF mode[u] = "messages"
                 THEN lost \cup {mailbox[u][i].id : i \in 1 .. fetched[u]} ELSE lost
  BY DEF Stop
<1>3. fetched[u] # 0
  <2> SUFFICES ASSUME fetched[u] = 0 PROVE FALSE
    OBVIOUS
  <2>1. 1 .. fetched[u] = {}
    OBVIOUS
  <2> QED BY <1>2, <2>1
<1> QED BY <1>1, <1>2, <1>3 DEF DropsBatch

\* In a calm run a message is lost in two races, a client that is up receives it between
\* the answer to its opening and update_session, or a client that synchronizes gets it
\* while its opening is still in the server's store, or with a batch that the server had
\* deleted when the client stopped.
THEOREM LossesAreRaces == Spec => LostOnlyInRace
<1>1. Init => RacesInv
  BY InitInv, StartReach, StartRace DEF RacesInv, BothInv
<1>2. RacesInv /\ [Next]_vars =>
        [(Calm /\ lost' # lost) =>
            \E u \in Users :
              \/ wire'[u] # wire[u] /\ AnsweredNotSaved(u, Head(wire[u]))
              \/ mailbox'[u] # mailbox[u] /\ OpenedTooLate(u, Head(mailbox[u]))
              \/ DropsBatch(u)]_vars
  <2> SUFFICES ASSUME RacesInv, Next, Calm, lost' # lost
               PROVE  \E u \in Users :
                        \/ wire'[u] # wire[u] /\ AnsweredNotSaved(u, Head(wire[u]))
                        \/ mailbox'[u] # mailbox[u] /\ OpenedTooLate(u, Head(mailbox[u]))
                        \/ DropsBatch(u)
    OBVIOUS
  <2>1. PICK u \in Users :
          \/ \E t \in Tasks, v \in Peers(u) : Send(u, t, v) \/ RequestBundle(u, t, v)
          \/ \E t \in Tasks : OpenSession(u, t) \/ UpdateSession(u, t)
          \/ ServerHandle(u)
          \/ ReceiveOk(u) \/ ReceiveOpen(u) \/ ReceiveMsg(u)
          \/ Stop(u) \/ TakeBack(u) \/ Start(u) \/ Fetch(u) \/ SyncInitialDone(u)
          \/ SyncInitial(u) \/ SyncMsg(u) \/ SyncDone(u)
    BY DEF Next
  <2>2. ReceiveMsg(u) \/ SyncMsg(u) \/ Stop(u)
    <3>1. \A t \in Tasks, v \in Peers(u) :
            (Send(u, t, v) => lost' = lost) /\ (RequestBundle(u, t, v) => lost' = lost)
      BY DEF Send, RequestBundle
    <3>2. \A t \in Tasks : OpenSession(u, t) => lost' = lost
      BY DEF OpenSession
    <3>3. \A t \in Tasks : UpdateSession(u, t) => lost' = lost
      BY DEF UpdateSession
    <3>4. (ServerHandle(u) => lost' = lost) /\ (ReceiveOk(u) => lost' = lost)
      BY DEF ServerHandle, ReceiveOk
    <3>5. (ReceiveOpen(u) => lost' = lost) /\ (SyncInitial(u) => lost' = lost)
      BY DEF ReceiveOpen, SyncInitial
    <3>6. (Fetch(u) => lost' = lost) /\ (TakeBack(u) => lost' = lost)
      BY DEF Fetch, TakeBack
    <3>7. (Start(u) => lost' = lost) /\ (SyncInitialDone(u) => lost' = lost)
      BY DEF Start, SyncInitialDone
    <3>8. SyncDone(u) => lost' = lost
      BY DEF SyncDone
    <3> QED BY <2>1, <3>1, <3>2, <3>3, <3>4, <3>5, <3>6, <3>7, <3>8
  <2>3. IInv
    BY DEF RacesInv, BothInv
  <2> QED BY <2>2, <2>3, ReceiveMsgLoses, SyncMsgLoses, StopLoses
<1> QED BY <1>1, <1>2, StepRace, PTL DEF Spec, LostOnlyInRace
=============================================================================
