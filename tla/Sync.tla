-------------------------------- MODULE Sync --------------------------------
(***************************************************************************)
(* The synchronization of a client that starts (SyncIterator), with the    *)
(* key rotations of its peers: batches of stored messages, messages that   *)
(* wait for a key, and what the receive worker does with a rotation once   *)
(* the client is live.                                                     *)
(*                                                                         *)
(* The peers and the server are external. A peer's keys are numbered in    *)
(* the order it creates them, by an opening or by a rotation; a message    *)
(* carries the number of the key it is encrypted with, and an opening or a *)
(* rotation the number of the key it brings.                               *)
(***************************************************************************)
EXTENDS Naturals, Sequences, SequencesExt, Functions, FiniteSets

CONSTANTS
  Peers,        \* users who write to the client
  Strangers,    \* users known by their id only (peers without a username)
  Deleted,      \* those of them whose account may be deleted
  BatchSize,    \* messages fetched at once
  MaxSent,      \* bound: messages of all peers, openings and rotations included
  MaxOpens,     \* bound: openings of all peers
  MaxOvertakes, \* bound: times a stored message overtakes another
  MaxStops      \* bound: times the client stops or loses an answer

ASSUME SyncAssumption ==
  /\ Deleted \subseteq Strangers
  /\ BatchSize \in Nat \ {0} /\ MaxSent \in Nat /\ MaxOpens \in Nat /\ MaxStops \in Nat

VARIABLES
  step,       \* SynchronizationStep, or "off" or "live"
  queue,      \* the batch that process_messages works on
  messages,   \* SyncIterator.messages, decrypted and not returned
  waiting,    \* undecipherable_messages of a peer; live, the worker's cache
  known,      \* SyncIterator.session_keys: the keys of a peer, {} when not met
  sess,       \* E2EClientState.sessions: the receiving key, 0 without a session
  stored,     \* the session keys in the storage
  unknown,    \* peers of the storage without a username
  pending,    \* the unknown peers still to resolve
  opens,      \* the server's store: opening messages
  mailbox,    \* the server's store: conversation messages; live, what it relays
  sent,       \* how many messages a peer has sent
  key,        \* a peer's current key
  openings,   \* how many sessions a peer has opened
  gone,       \* the deleted users that the client has asked for
  delivered,  \* what the chat client got of each peer, in order
  lost,       \* what the client received and dropped
  disturbed,  \* peers whose messages came in an order the protocol does not promise
  failed,     \* peers one of whose messages stopped the receive worker
  overtakes, stops   \* counters behind the bounds

iterator == <<queue, messages, known, pending>>
storage == <<sess, stored, unknown>>
server == <<opens, mailbox>>
peers == <<sent, key, openings, gone>>
history == <<delivered, lost, disturbed>>
counters == <<failed, overtakes, stops>>
syncVars == <<step, iterator, waiting, storage, server, peers, history, counters>>

Syncing == {"prekeys", "initial", "messages", "final", "resolve"}
Kinds == {"open", "badOpen", "noOpenConv", "msg", "rotate"}
Message == [kind : Kinds, from : Peers, key : Nat, next : Nat, id : Nat]
ChatMessage(m) == [from |-> m.from, id |-> m.id]
Chats == [from : Peers, id : Nat \ {0}]
\* The chat messages that a set of messages carries (id 0: a rotation alone).
ChatsIn(S) == {ChatMessage(m) : m \in {x \in S : x.id # 0}}

\* The elements of s at the indices I, in their order.
Kept(s, I) ==
  LET at == CHOOSE f \in [1 .. Cardinality(I) -> I] :
              \A i, j \in DOMAIN f : i < j => f[i] < f[j]
  IN [i \in DOMAIN at |-> s[at[i]]]
WithKey(s, k) == Kept(s, {i \in DOMAIN s : s[i].key = k})
WithoutKey(s, k) == Kept(s, {i \in DOMAIN s : s[i].key # k})

SyncTypeOK ==
  /\ step \in Syncing \cup {"off", "live"}
  /\ queue \in Seq(Message) /\ messages \in Seq(Chats)
  /\ waiting \in [Peers -> Seq(Message)]
  /\ known \in [Peers -> SUBSET (Nat \ {0})]
  /\ sess \in [Peers -> Nat]
  /\ stored \in [Peers -> SUBSET (Nat \ {0})]
  /\ pending \subseteq unknown /\ unknown \subseteq Strangers
  /\ opens \in Seq(Message) /\ mailbox \in Seq(Message)
  /\ {sent, key, openings} \subseteq [Peers -> Nat] /\ gone \subseteq Deleted
  /\ \A p \in Peers : sess[p] # 0 => sess[p] \in stored[p]
  /\ delivered \in [Peers -> Seq(Nat \ {0})] /\ lost \subseteq Chats /\ disturbed \subseteq Peers
  /\ failed \subseteq Peers
  /\ overtakes \in Nat /\ stops \in Nat

SyncInit ==
  /\ step = "off" /\ queue = <<>> /\ messages = <<>> /\ pending = {}
  /\ waiting = [p \in Peers |-> <<>>] /\ known = [p \in Peers |-> {}]
  /\ sess = [p \in Peers |-> 0] /\ stored = [p \in Peers |-> {}]
  /\ unknown = Strangers
  /\ opens = <<>> /\ mailbox = <<>>
  /\ sent = [p \in Peers |-> 0] /\ key = [p \in Peers |-> 0]
  /\ openings = [p \in Peers |-> 0] /\ gone = {}
  /\ delivered = [p \in Peers |-> <<>>] /\ lost = {} /\ disturbed = {}
  /\ failed = {} /\ overtakes = 0 /\ stops = 0

-----------------------------------------------------------------------------
(* The peers (external): what they write reaches the server's store, or a  *)
(* client that is live.                                                    *)

MoreToSend == FoldFunction(+, 0, sent) < MaxSent
MoreToOpen == FoldFunction(+, 0, openings) < MaxOpens

\* A peer opens a session. The opening may use a prekey the client does not have,
\* or carry another first message than OpenConv. A second opening, or one that
\* comes when the initial messages have been fetched, leaves messages that the
\* iterator meets in the wrong order.
PeerOpens(p, kind) ==
  /\ MoreToSend /\ MoreToOpen
  /\ sent' = [sent EXCEPT ![p] = @ + 1]
  /\ key' = [key EXCEPT ![p] = sent[p] + 1]
  /\ openings' = [openings EXCEPT ![p] = @ + 1]
  /\ LET m == [kind |-> kind, from |-> p, key |-> 0, next |-> sent[p] + 1, id |-> sent[p] + 1]
     IN IF step = "live" THEN mailbox' = Append(mailbox, m) /\ UNCHANGED opens
                         ELSE opens' = Append(opens, m) /\ UNCHANGED mailbox
  /\ disturbed' = IF kind # "open" \/ openings[p] > 0 \/ step \in Syncing \ {"prekeys"}
                  THEN disturbed \cup {p} ELSE disturbed
  /\ UNCHANGED <<step, iterator, waiting, storage, gone, delivered, lost, counters>>

\* The server adds m at the end of its store, or before the last message.
Arrives(m) ==
  \/ mailbox' = Append(mailbox, m) /\ UNCHANGED <<disturbed, overtakes>>
  \/ /\ overtakes < MaxOvertakes /\ mailbox # <<>>
     /\ mailbox' = InsertAt(mailbox, Len(mailbox), m)
     /\ disturbed' = IF Last(mailbox).from = m.from THEN disturbed \cup {m.from} ELSE disturbed
     /\ overtakes' = overtakes + 1

PeerSends(p) ==
  /\ key[p] # 0 /\ MoreToSend
  /\ sent' = [sent EXCEPT ![p] = @ + 1]
  /\ Arrives([kind |-> "msg", from |-> p, key |-> key[p], next |-> 0, id |-> sent[p] + 1])
  /\ UNCHANGED <<step, iterator, waiting, storage, opens, key, openings, gone, delivered, lost,
                 failed, stops>>

\* A KeyRotation encrypted with the current key, with a message inside.
PeerRotates(p) ==
  /\ key[p] # 0 /\ MoreToSend
  /\ sent' = [sent EXCEPT ![p] = @ + 1]
  /\ key' = [key EXCEPT ![p] = sent[p] + 1]
  /\ Arrives([kind |-> "rotate", from |-> p, key |-> key[p], next |-> sent[p] + 1,
              id |-> sent[p] + 1])
  /\ UNCHANGED <<step, iterator, waiting, storage, opens, openings, gone, delivered, lost, failed,
                 stops>>

-----------------------------------------------------------------------------
(* SyncIterator::next, when no batch is in progress.                       *)

Idle == queue = <<>> /\ messages = <<>>

\* E2EClient::load, then SyncIterator::new.
Start ==
  /\ step = "off"
  /\ step' = "prekeys"
  /\ UNCHANGED <<iterator, waiting, storage, server, peers, history, counters>>

Delivers(m) == delivered' = [delivered EXCEPT ![m.from] = Append(@, m.id)]

\* Messages already decrypted are returned first, one per call.
ReturnDecrypted ==
  /\ step \in Syncing /\ queue = <<>> /\ messages # <<>>
  /\ Delivers(Head(messages))
  /\ messages' = Tail(messages)
  /\ UNCHANGED <<step, queue, known, pending, waiting, storage, server, peers, lost,
                 disturbed, counters>>

SyncPrekeys ==
  /\ step = "prekeys"
  /\ step' = "initial"
  /\ UNCHANGED <<iterator, waiting, storage, server, peers, history, counters>>

\* What one request takes from the server, which deletes it.
Batch(store) == SubSeq(store, 1, IF Len(store) < BatchSize THEN Len(store) ELSE BatchSize)
Rest(store) == SubSeq(store, Len(Batch(store)) + 1, Len(store))

SyncInitialMessages ==
  /\ step = "initial" /\ Idle
  /\ queue' = Batch(opens) /\ opens' = Rest(opens)
  /\ step' = IF opens = <<>> THEN "messages" ELSE step
  /\ UNCHANGED <<messages, known, pending, waiting, storage, mailbox, peers, history, counters>>

SyncConversationMessages ==
  /\ step = "messages" /\ Idle
  /\ queue' = Batch(mailbox) /\ mailbox' = Rest(mailbox)
  /\ step' = IF mailbox = <<>> THEN "final" ELSE step
  /\ UNCHANGED <<messages, known, pending, waiting, storage, opens, peers, history, counters>>

\* The last sync_prekeys, and the peers to resolve.
FinalPrekeys ==
  /\ step = "final" /\ Idle
  /\ step' = "resolve"
  /\ pending' = unknown
  /\ UNCHANGED <<queue, messages, known, waiting, storage, server, peers, history, counters>>

\* The next peer to resolve, in the order of the storage.
ToResolve == CHOOSE p \in pending : TRUE

\* UserProfileById: the peer gets its name.
ResolvePeer ==
  /\ step = "resolve" /\ pending # {} /\ ToResolve \notin gone
  /\ pending' = pending \ {ToResolve}
  /\ unknown' = unknown \ {ToResolve}
  /\ UNCHANGED <<step, queue, messages, known, waiting, sess, stored, server, peers, history,
                 counters>>

\* What a client that stops has taken from the server and not delivered.
InHand ==
  ChatsIn(Range(queue) \cup UNION {Range(waiting[p]) : p \in Peers}) \cup Range(messages)

\* The client is gone with what it has in hand, and the chat messages S.
StopsWith(S) ==
  /\ step' = "off"
  /\ lost' = lost \cup InHand \cup S
  /\ queue' = <<>> /\ messages' = <<>> /\ pending' = {}
  /\ waiting' = [p \in Peers |-> <<>>] /\ known' = [p \in Peers |-> {}]

\* The answer for a deleted user is ProtocolError(UserNotFound), which the arm for
\* UserNotFound does not match: the synchronization fails, and so do all the next ones.
ResolveFails ==
  /\ step = "resolve" /\ pending # {} /\ ToResolve \in Deleted
  /\ gone' = gone \cup {ToResolve}
  /\ StopsWith({})
  /\ UNCHANGED <<storage, server, sent, key, openings, delivered, disturbed, counters>>

\* clean_session_keys, for the users the iterator met.
CleanSessionKeys == [p \in Peers |-> IF known[p] # {} THEN stored[p] \cap {sess[p]} ELSE stored[p]]

\* The iterator ends: what still waits is logged and dropped, and the async workers
\* start; EnableInstantRelay makes the server relay what it still stores.
Finish ==
  /\ step = "resolve" /\ pending = {}
  /\ step' = "live"
  /\ stored' = CleanSessionKeys
  /\ lost' = lost \cup ChatsIn(UNION {Range(waiting[p]) : p \in Peers})
  /\ waiting' = [p \in Peers |-> <<>>] /\ known' = [p \in Peers |-> {}]
  /\ mailbox' = opens \o mailbox /\ opens' = <<>>
  /\ UNCHANGED <<queue, messages, pending, sess, unknown, peers, delivered, disturbed, counters>>

-----------------------------------------------------------------------------
(* process_messages: one message of the batch.                             *)

Processes(kinds) == queue # <<>> /\ Head(queue).kind \in kinds

\* process_open_conversation: handle_open_session fails, and nothing is created.
OpenFails ==
  /\ step \in Syncing /\ Processes({"badOpen"})
  /\ queue' = Tail(queue)
  /\ lost' = lost \cup {ChatMessage(Head(queue))}
  /\ UNCHANGED <<step, messages, known, pending, waiting, storage, server, peers, delivered,
                 disturbed, counters>>

\* SessionKeyStore::upsert.
SaveKey(p, k) == stored' = [stored EXCEPT ![p] = @ \cup {k}]

\* handle_open_session saves the session and its keys.
OpensSession(m) ==
  /\ sess' = [sess EXCEPT ![m.from] = m.next]
  /\ SaveKey(m.from, m.next)

\* The session is created even when the first message is not OpenConv and is dropped.
ProcessOpenConversation ==
  /\ step \in Syncing /\ Processes({"open", "noOpenConv"})
  /\ LET m == Head(queue) IN
       /\ OpensSession(m)
       /\ IF m.kind = "open"
          THEN messages' = Append(messages, ChatMessage(m)) /\ UNCHANGED lost
          ELSE lost' = lost \cup {ChatMessage(m)} /\ UNCHANGED messages
  /\ queue' = Tail(queue)
  /\ UNCHANGED <<step, known, pending, waiting, unknown, server, peers, delivered, disturbed,
                 counters>>

NoSession ==
  /\ step \in Syncing /\ Processes({"msg", "rotate"})
  /\ known[Head(queue).from] = {} /\ sess[Head(queue).from] = 0
  /\ queue' = Tail(queue)
  /\ lost' = lost \cup ChatsIn({Head(queue)})
  /\ UNCHANGED <<step, messages, known, pending, waiting, storage, server, peers, delivered,
                 disturbed, counters>>

\* Mutant of KeysOf: every key of the storage is tried.
XKeysOfStored(p) == IF sess[p] # 0 THEN known[p] \cup stored[p] ELSE known[p]

\* The keys the iterator has for p: the ones it met, or the session's receiving key.
KeysOf(p) == IF known[p] = {} /\ sess[p] # 0 THEN {sess[p]} ELSE known[p]

\* Mutant of Decrypt: the message is pushed to the wrong end.
XDecrypt ==
  /\ step \in Syncing /\ Processes({"msg"})
  /\ LET m == Head(queue) IN
       /\ m.key \in KeysOf(m.from)
       /\ known' = [known EXCEPT ![m.from] = KeysOf(m.from)]
       /\ messages' = <<ChatMessage(m)>> \o messages
  /\ queue' = Tail(queue)
  /\ UNCHANGED <<step, pending, waiting, storage, server, peers, history, counters>>

\* A chat message whose key the iterator has.
Decrypt ==
  /\ step \in Syncing /\ Processes({"msg"})
  /\ LET m == Head(queue) IN
       /\ m.key \in KeysOf(m.from)
       /\ known' = [known EXCEPT ![m.from] = KeysOf(m.from)]
       /\ messages' = Append(messages, ChatMessage(m))
  /\ queue' = Tail(queue)
  /\ UNCHANGED <<step, pending, waiting, storage, server, peers, history, counters>>

\* Mutant of Wait: the message goes back to the end of the queue.
XWait ==
  /\ step \in Syncing /\ Processes({"msg", "rotate"})
  /\ LET m == Head(queue) IN
       /\ KeysOf(m.from) # {} /\ m.key \notin KeysOf(m.from)
       /\ known' = [known EXCEPT ![m.from] = KeysOf(m.from)]
       /\ queue' = Append(Tail(queue), m)
  /\ UNCHANGED <<step, messages, pending, waiting, storage, server, peers, history, counters>>

\* No key for it: the message, or the rotation, waits. The keys that the storage has
\* beside the session's are not tried.
Wait ==
  /\ step \in Syncing /\ Processes({"msg", "rotate"})
  /\ LET m == Head(queue) IN
       /\ KeysOf(m.from) # {} /\ m.key \notin KeysOf(m.from)
       /\ known' = [known EXCEPT ![m.from] = KeysOf(m.from)]
       /\ waiting' = [waiting EXCEPT ![m.from] = Append(@, m)]
  /\ queue' = Tail(queue)
  /\ UNCHANGED <<step, messages, pending, storage, server, peers, history, counters>>

\* Mutant of Released: only the first message that waited for the key.
XReleased(p, k) ==
  LET released == WithKey(waiting[p], k)
  IN IF released = <<>> THEN <<>> ELSE <<Head(released)>>

\* The messages that waited for the key k: each is pushed to the front of the queue,
\* so that the last to come is the first to be processed.
Released(p, k) == Reverse(WithKey(waiting[p], k))

\* The message inside a rotation, still encrypted with the key before it.
Inner(m) ==
  IF m.id = 0 THEN <<>>
  ELSE <<[kind |-> "msg", from |-> m.from, key |-> m.key, next |-> 0, id |-> m.id]>>

\* "Update client session".
RotatesSession(m) ==
  /\ sess' = [sess EXCEPT ![m.from] = m.next]
  /\ SaveKey(m.from, m.next)

\* process_key_rotation: the next key is known and becomes the session's; the
\* messages that waited for it go before the one the rotation contains.
Rotate ==
  /\ step \in Syncing /\ Processes({"rotate"})
  /\ LET m == Head(queue) IN
       /\ m.key \in KeysOf(m.from)
       /\ known' = [known EXCEPT ![m.from] = KeysOf(m.from) \cup {m.next}]
       /\ RotatesSession(m)
       /\ queue' = Released(m.from, m.next) \o Inner(m) \o Tail(queue)
       /\ waiting' = [waiting EXCEPT ![m.from] = WithoutKey(@, m.next)]
  /\ UNCHANGED <<step, messages, pending, unknown, server, peers, history, counters>>

-----------------------------------------------------------------------------
(* The receive worker of a client that is live.                            *)

Relays(kinds) == step = "live" /\ mailbox # <<>> /\ Head(mailbox).kind \in kinds

LiveOpen ==
  /\ Relays({"open", "noOpenConv"})
  /\ LET m == Head(mailbox) IN
       /\ OpensSession(m)
       /\ IF m.kind = "open"
          THEN Delivers(m) /\ UNCHANGED lost
          ELSE lost' = lost \cup {ChatMessage(m)} /\ UNCHANGED delivered
  /\ mailbox' = Tail(mailbox)
  /\ UNCHANGED <<step, iterator, waiting, unknown, opens, peers, disturbed, counters>>

\* SessionKeyStore::find.
FindsKey(p, k) == k \in stored[p]

\* decrypt_payload: the session's key, or another one of the storage.
CanDecrypt(m) == sess[m.from] # 0 /\ (m.key = sess[m.from] \/ FindsKey(m.from, m.key))

LiveMessage ==
  /\ Relays({"msg"}) /\ CanDecrypt(Head(mailbox))
  /\ Delivers(Head(mailbox))
  /\ mailbox' = Tail(mailbox)
  /\ UNCHANGED <<step, iterator, waiting, storage, opens, peers, lost, disturbed, counters>>

\* NoSessionKey: the payload is cached, "in case the key rotation message arrives later".
LiveCache ==
  /\ Relays({"msg", "rotate"}) /\ ~CanDecrypt(Head(mailbox))
  /\ LET m == Head(mailbox) IN
       IF sess[m.from] # 0
       THEN waiting' = [waiting EXCEPT ![m.from] = Append(@, m)] /\ UNCHANGED lost
       ELSE lost' = lost \cup ChatsIn({m}) /\ UNCHANGED waiting
  /\ mailbox' = Tail(mailbox)
  /\ UNCHANGED <<step, iterator, storage, opens, peers, delivered, disturbed, counters>>

\* The server keeps the openings it could not relay apart.
OpeningsBack ==
  /\ opens' = WithKey(mailbox, 0)
  /\ mailbox' = WithoutKey(mailbox, 0)

\* An opening that fails, or a rotation of a known key, stops the worker:
\* process_open_session returns the error, and process_key_rotation is called with
\* the key id in place of the sender's, for which there is no session.
LiveStops ==
  /\ Relays({"badOpen", "rotate"})
  /\ Head(mailbox).kind = "rotate" => CanDecrypt(Head(mailbox))
  /\ StopsWith(ChatsIn({Head(mailbox)}))
  /\ failed' = failed \cup {Head(mailbox).from}
  /\ opens' = WithKey(Tail(mailbox), 0)
  /\ mailbox' = WithoutKey(Tail(mailbox), 0)
  /\ UNCHANGED <<storage, peers, delivered, disturbed, overtakes, stops>>

-----------------------------------------------------------------------------
(* Failures.                                                               *)

\* The application stops, or a request of the iterator fails and it is dropped.
Stop ==
  /\ step # "off" /\ stops < MaxStops
  /\ stops' = stops + 1
  /\ StopsWith({})
  /\ IF step = "live" THEN OpeningsBack ELSE UNCHANGED server
  /\ UNCHANGED <<storage, peers, delivered, disturbed, failed, overtakes>>

\* The server has sent and deleted a batch, and the answer does not come.
AnswerLost ==
  /\ step \in {"initial", "messages"} /\ Idle /\ stops < MaxStops
  /\ stops' = stops + 1
  /\ LET store == IF step = "initial" THEN opens ELSE mailbox IN
       /\ store # <<>>
       /\ StopsWith(ChatsIn(Range(Batch(store))))
       /\ opens' = IF step = "initial" THEN Rest(opens) ELSE opens
       /\ mailbox' = IF step = "messages" THEN Rest(mailbox) ELSE mailbox
  /\ UNCHANGED <<storage, peers, delivered, disturbed, failed, overtakes>>

-----------------------------------------------------------------------------

Iterator ==
  \/ ReturnDecrypted \/ SyncPrekeys \/ SyncInitialMessages \/ SyncConversationMessages
  \/ FinalPrekeys \/ ResolvePeer \/ ResolveFails \/ Finish
  \/ OpenFails \/ ProcessOpenConversation \/ NoSession \/ Decrypt \/ Wait \/ Rotate

Worker == LiveOpen \/ LiveMessage \/ LiveCache \/ LiveStops

SyncNext ==
  \/ \E p \in Peers :
       \/ \E kind \in {"open", "badOpen", "noOpenConv"} : PeerOpens(p, kind)
       \/ PeerSends(p) \/ PeerRotates(p)
  \/ Start \/ Iterator \/ Worker
  \/ Stop \/ AnswerLost

\* The iterator is consumed to its end. Nothing else is needed: the client need not start
\* again, nor the worker run.
SyncSpec == SyncInit /\ [][SyncNext]_syncVars /\ WF_syncVars(Iterator)

-----------------------------------------------------------------------------
(* Properties.                                                             *)

\* How many places hold the message n of p.
HowMany(s, X) == Cardinality({i \in DOMAIN s : s[i] \in X})
Copies(p, n) == [kind : Kinds, from : {p}, key : Nat, next : Nat, id : {n}]
Places(p, n) ==
  HowMany(opens, Copies(p, n)) + HowMany(mailbox, Copies(p, n))
  + HowMany(queue, Copies(p, n)) + HowMany(waiting[p], Copies(p, n))
  + HowMany(messages, {[from |-> p, id |-> n]}) + HowMany(delivered[p], {n})
  + IF [from |-> p, id |-> n] \in lost THEN 1 ELSE 0

\* Once a batch is processed nothing waits for a key that the iterator has
\* (process_key_rotation, "Add queued messages for this key, if any").
NothingWaitsForAKnownKey ==
  (step \in Syncing /\ queue = <<>>) =>
    \A p \in Peers : \A m \in Range(waiting[p]) : m.key \notin known[p]

\* Every message that a peer sent is in exactly one place: none is delivered twice
\* or forgotten when it waits for a key, is released, or is contained in a rotation;
\* and none waits without need.
AllAccounted ==
  /\ SyncTypeOK
  /\ \A p \in Peers : \A n \in 1 .. sent[p] : Places(p, n) = 1
  /\ NothingWaitsForAKnownKey

\* Messages of one peer are delivered in the order they were sent.
OrderKept(p) ==
  \A i, j \in DOMAIN delivered[p] : i < j => delivered[p][i] < delivered[p][j]

\* The messages of a peer that opened one session in time and whose messages the
\* server kept in order are delivered in the order they were sent, across batches,
\* rotations, stops and the switch to the live worker. None is lost in the
\* synchronizations, however many rotations they meet and also when a peer cannot be
\* resolved, as long as the client does not stop. One exception is the code's: a
\* rotation that the live worker receives stops it (receive.rs:263), and what it
\* contains, and all that the peer then encrypts with its key, is lost.
UndisturbedInOrder ==
  \A p \in Peers \ disturbed :
    OrderKept(p) /\ (stops = 0 /\ p \notin failed => ~\E c \in lost : c.from = p)

\* The receiving key of a session never goes back to an older one, whatever the order
\* in which rotations, openings and restarts come.
KeyMovesForward == [][\A p \in Peers : sess'[p] >= sess[p]]_syncVars

\* A synchronization ends, with the client live and every peer of the storage named:
\* messages that go back to the queue when a key comes do not keep it busy for ever.
\* The iterator is dropped before only if the client stops, or if the server does not
\* know a peer without a name any more.
SyncEnds ==
  (step = "prekeys") ~> \/ step = "live" /\ unknown = {}
                        \/ step = "off" /\ (stops # 0 \/ gone # {})

=============================================================================
