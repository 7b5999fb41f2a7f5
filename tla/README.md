# Sickgnal, verified

TLA+ models of Sickgnal's client (`lib/`, `app/`), TLC runs on small instances
and TLAPS proofs for every instance. Sickgnal is an instant messenger with
end-to-end encryption over a server that is a program of its own (another
repository): the server is modelled here only as far as the client relies on it.

Paths below are relative to `lib/sickgnal_core/src/`, `lib/sickgnal_sdk/src/`
(`sdk:`), `lib/sickgnal_insecure_tls/src/` (`tls:`) and `app/sickgnal_tui/src/` (`tui:`).

## 1. Inventory

| Component | State | Operations | Hard behaviour | What makes it correct |
|---|---|---|---|---|
| **Asynchronous E2E client** `e2e/client/{client_handle,state,workers/*}.rs`, `chat/client/worker.rs` | `waiting_requests`, `next_request_id`, two bounded channels, a oneshot channel per request | `request`, `send`, `tag_message`, `send_loop`, `ReceiveWorker::main_loop`, `shutdown`, `receive_loop` | tasks and workers that interleave, lost connection, answers out of order, full channels, id reuse | an answer reaches the caller that asked; every request ends; the table does not leak; bounded channels do not lock up |
| **Sessions** `client_handle.rs`, `state.rs`, `workers/receive.rs`, `sync_iterator.rs`, `sdk:storage/store/session*.rs` | `sessions` (memory and storage), session keys in the storage, the iterator's `session_keys` | `prepare_message`, `prepare_open_new_session`, `update_session`, `handle_open_session`, `clean_session_keys`, `load` | openings that cross or repeat, stops in the middle, messages before the session, cleanup of keys in use | the peer has the key a user encrypts with; the two directions are distinct; a session's keys are stored; no message is lost |
| **Prekeys and account** `e2e/client/client.rs`, `sdk:storage/store/{ephemeral_keys,account}.rs` | account, midterm key, ephemeral prekeys; on the server the prekeys, the signed midterm key | `create_account`, `upload_prekeys`, `sync_prekeys`, `handle_open_session` (pop) | a stop between the storage and the request; peers that take keys meanwhile | every bundle the server hands out can be opened; the server is topped up |
| **Payload cache** `e2e/client/payload_cache.rs` | LRU of users, each an LRU of keys, each a queue, with a total by hand | `push`, `pop` | eviction at two capacities | counts are exact, the right payloads fall out, order is kept |
| **Messages** `chat/client/client.rs`, `sdk:storage/store/message.rs` | a row per message on each side | `send_message`, `edit_message`, `delete_message`, `mark_as_read`, the handlers of data and control messages | read-modify-write without a transaction, a send per peer, workers and interface together | status never promises too much; all sides converge; what is deleted stays so |
| **Conversations and members** `chat/client/client.rs`, `sdk:storage/store/conversation.rs` | conversations, members, peers | `create_conversation`, `add_peer_to_conversation`, handlers of OpenConv, AddPeer | a dispatch that fails midway, messages from users who are not members | members agree, all of them exist, an invitation reaches everybody, messages are ignored in known races only |
| **Key rotation** `state.rs`, `workers/receive.rs`, `sync_iterator.rs` | `key_msg_count`, the payload cache, the iterator's waiting messages | `process_key_rotation`, `prepare_message` | the new key overtaken by what it encrypts, wrong sender id, counter not persisted | messages under a new key are decrypted once, in order; a session's key never goes back |
| **Synchronization iterator** `sync_iterator.rs` | step, batch, session keys met | `next`, `sync_initial_messages`, `sync_conversation_messages` | a batch fetched (and deleted on the server) then a stop; errors in the middle | every stored message is delivered, waits or is known to be lost; the synchronization ends |
| **Authentication** `e2e/client/client.rs` | token in memory | `authenticate`, `send_authenticated_e2e_raw` | one retry | no request is given up for an expired token |
| **TLS 1.3 client** `tls:client/stream`, `tls:connection`, `tls:record_layer` | input and output buffers, deframers, handshake state, record sequence numbers | `poll_read`, `poll_write`, `poll_flush`, `handshake`, `process_new_packets` | partial reads and writes, Pending and retry, keys that change between two records of one read, messages cut and joined in records | bytes arrive once, in order; no nonce repeats; a server that departs from the protocol gets no stream; end of stream only at the end |
| **SDK and accounts** `sdk:client`, `sdk:account` | profile directories (credentials, encrypted database, account), the event channel (32) | `ProfileManager`, `SdkClientBuilder`, `load`, `SyncBridge::connect` | a sign-up that fails or is cut between its writes; a full event channel that nobody reads yet | what is on disk can be used; a connection attempt ends |
| **Terminal interface** `tui:app.rs`, `tui:main.rs` | screen, profile list and selection, conversation list with counts and members, the open conversation and its modes | a handler per screen and key, `handle_sdk_event`, `poll_sdk_events` | reads of a database that the chat worker writes, events that are late, repeated or of something deleted; calls that fail after their first half | once events are handled the screen is what the database holds; what is selected exists; what is shown gets marked as read |
| Cryptography, formats, codecs, GUI, test programs | | | | see section 7 |

How they interact: the interface (GUI or TUI) calls the SDK, which calls the chat
client's handle (`ChatClientHandle`); this calls the E2E handle (`ClientHandle`)
once per peer of the conversation. The E2E handle encrypts with the session,
opening one first when there is none, and puts packets on `send_channel`, which
the send worker writes to the connection (over TLS). The receive worker reads the
connection, completes the requests that wait, accepts openings, decrypts messages
and puts them on `out_channel`; the chat worker takes them from there, updates
the storage, tells the interface and may call the E2E handle itself
(acknowledgements, unknown members). A client that starts loads its sessions,
synchronizes through the iterator with a synchronous connection, and only then
starts the workers. Sessions, requests and prekeys share one `E2EClientState`
behind a lock; the lock is released at every `await` on the network, and that is
where the interleavings come from.

## 2. Modules

| Module | Models | State ↔ code | Actions ↔ code |
|---|---|---|---|
| `AsyncClient` | requests, workers, channels | `waiting_requests`, `next_request_id` by name; `pc`, `rid`, `req`: where a task is in `request`/`send`; `shot`, `got`: its oneshot; `send_channel`, `out_channel` (its length); `rx`, `tx`, `chat`: the three workers; `toServer`, `fromServer`: the connection | `TagMessage`, `Post`, `Enqueue`, `EnqueueFails`, `Return`: `request`/`send`; `WriterSend`, `WriterFails`: `send_loop`; `DispatchAnswer`, `ProcessMessage`, `ProcessFails`, `ReaderFails`, `Deliver`, `DeliverFails`: `main_loop`; `ChatTake`, `ChatDone`, `ChatEnd`: `receive_loop` |
| `Sessions` | sessions of all users at once | `sess`: `sessions`; `keys`: the table of session keys; `task`: where a task is in `send`; `up`, `wire`: the connection; `initial`, `mailbox`: the server's store; `fetched`: how many of its first messages the server has handed out, and deleted, and the iterator has not handled; `seen`: the iterator's `session_keys` | `Send`, `RequestBundle`, `OpenSession`, `UpdateSession`: `send`; `Receive*`: the receive worker; `Stop`, `Start`; `Fetch`: `GetInitialMessages`, `GetMessages`; `Sync*`: one message of the batch, and the iterator's steps |
| `Prekeys` | one owner's prekeys | `account`, `stored`, `midterm`: the storage; `pc`, `phase`: the place in `create_account`/`sync_prekeys`; `available`, `signed`, `inbox`: the server | one action per write to the storage and per request |
| `PayloadCache` | the LRU cache | `user_caches` by name: sequences, most recently used first | `Push`, `Pop` |
| `Sync` | the synchronization iterator, key rotation at both receivers, then the receive worker of the live client | `step`, `queue`, `messages`, `known` (`session_keys`), `waiting` (`undecipherable_messages`, and the worker's cache when live), `pending`: the iterator; `sess`, `stored`, `unknown`: the storage; `opens`, `mailbox`: the server's store; `gone`: users that the server answered it does not know; `failed`: peers one of whose messages stopped the receive worker | `Start`, `SyncPrekeys`, `SyncInitialMessages`, `SyncConversationMessages`, `FinalPrekeys`, `ResolvePeer`, `ResolveFails`, `Finish`: the steps of `next`; `ProcessOpenConversation`, `OpenFails`, `NoSession`, `Decrypt`, `Wait`, `Rotate`: one message of a batch; `ReturnDecrypted`: the next call; `Live*`: the live client; `Stop`, `AnswerLost` between any two |
| `Messages`, `MCMessages` | the life of one message | `arow`, `rrow`: rows of the storage; `task`: operations of the author's interface; `worker`: a chat worker between two calls of the storage; `marking`, `telling`: `mark_as_read` between its sends and its update; `toReader`, `toAuthor`, `acks`: what is on its way, to a reader from the author and from other readers | one action per call of the storage and per send to a peer |
| `Conversations` | who is in a conversation, for all its members | `conv`: `conversation_participants`; `known`: the table of peers; `task`: what an operation has still to send; `net`: the E2E layer; `dead`: chat workers that stopped | `CreateConversation`, `InvitePeer`, `TellMembers`, `SendMessage`, one `SendOne` or `SendFails` per recipient, `Finish*`; `ReceiveOpen`, `ReceiveAdd`, `ReceiveData`: the chat worker; `DeleteConversation` |
| `TlsMessages` | what a message of the server must satisfy to be decoded and accepted | | operators named as the decoders and checks |
| `Tls`, `MCTls` | a connection from `connect` to the application's last read | `st`: `Connection.state`; `input`, `data`, `hs`, `decoded`: the receiver's buffers; `dec`, `enc`: the two record states, with the key as the term the key schedule computes; `output`; `got`, `reader`, `written`, `stalled`: the application; `toServer`, `toClient`: the socket, in half records | `Start`, `HandshakeRead`, `HandshakeProcessed`: `connect`; one action per record of `process_new_packets` and per message of a state's `handle`; `PollReadTls`, `PollProcessed`, `PollRead`, `PollWrite`: the two tasks over the stream |
| `BytePipe` | the abstract byte stream that `AsyncRead` promises | `put`, `taken` | `Put`, `Take` |
| `TuiAuth` | profiles, sign-up, sign-in, the connecting thread | `disk`: what each directory holds, write by write; the `App` fields by name; `thread`: `SyncBridge::connect` and how far it got, the handshake that reads on after the server has closed (`spinning`) included | one action per key of the profile and form screens, one per step of the thread |
| `Tui` | `TuiAuth`, then the screens over a connected client | `convs`, `members`, `store`: the database; `pending`, `events`: the worker and the event channel; `entries`, `sel`, `current`, `shown`, `picked`, `editing`, `confirm`, `reply`, `form`, `group`, `peer`: fields of `App` | `Store*` and `Emit`: the chat worker; `PollSdkEvents` with one `On*` operator per event; one action per key of each screen |
| `ClientProofs` (of `AsyncClient` and of `Sync`), `SessionsProofs`, `PrekeysProofs`, `MessagesProofs`, `ConversationsProofs`, `PayloadCacheProofs`, `TlsProofs`, `TuiProofs` | the inductive invariants of each component and its theorems | | |

The TLA+ operators keep the source's names where they can. In each module
definitions that come just before `X` and whose comment says "Mutant of X" are
plausible bugs, used only to test that a property can fail.

How the modules compose. `Tui` extends `TuiAuth`: one run goes from the profile list
to the open conversation. `Tls` extends `TlsMessages` and implements `BytePipe`:
`Downstream == INSTANCE BytePipe WITH put <- sent, taken <- got`, and the run
checks `Downstream!Pipe`. The other modules meet at stated interfaces:
`Conversations` and `Messages` use the end-to-end layer as a FIFO channel between two
users, which is what `Sessions` (openings), `Sync` (stored messages and rotations)
and `AsyncClient` (relayed messages) say it is, and where it is not; `AsyncClient` and
`Sync` use a connection that delivers bytes, which is `Tls`; `Sync` has the waiting
payloads of one key as a sequence, whose bounds and eviction are `PayloadCache`;
`Tui` has the chat client's handlers with their events, whose effect on the other members
is `Messages` and `Conversations`.

### What is abstracted

* A packet's content is a serial number (`AsyncClient`), a key's name (`Sessions`), the
  number of a message and of its key (`Sync`), a text's number (`Messages`), old or new
  (`Tui`). Cryptography is ideal: who has the key decrypts. In `Tls` a key is the term
  (label, transcript, generation), and a record opens under the same term and sequence
  number.
* The server answers each request once under the id it carries, in any order;
  relays in order; stores for a client that is not up, deletes what it hands
  out, and takes back what it could not relay. This is what the client's code
  relies on; the server's code is not in the repository.
* In `AsyncClient` fewer than `MaxId` requests are made while one of them is
  outstanding (`next_request_id \notin IdsInUse`): with 65535 ids a live id does not
  come round. `Enqueue` waits for room with no order among waiting tasks; the channel of the code is fair.
* In `AsyncClient` the connection holds at most `WireCap` packets for the client that nobody has
  read: a bound, the server is slow or waits.
* In `Sessions` a client that stops loses its queued packets and the batch that it has
  fetched and not handled; a stop right after `Fetch` is also a connection that ends before the answer
  to the fetch has come. One that is synchronizing has no handle, so that it opens no session,
  but it acknowledges the messages that it handles (`Send`, when `Yields`): while it has a batch of
  openings it has not yielded anything yet, and an acknowledgement is answered before the next
  request. `Yields` also lets it send before its first fetch, which the code does not do.
* In `Sync` the peers and the server are external; a stored message may overtake the one
  before it (`MaxOvertakes`), a peer may open a second session or with a prekey the client
  lacks. A peer of whom any of this is true is `disturbed`, and only the accounting of
  its messages, not their order, is required; a rotation that the live worker receives disturbs
  nobody, it stops the worker (`failed`). A stranger is a peer of the storage without a name, whose
  account the server may have deleted. No code of the client sends a rotation that a
  peer accepts (section 6), so the sender is a peer that follows the protocol.
* In `Messages` an `AckRead` goes to every member, as in the code, where the row it names becomes
  `Read` whoever sent the message. The `AckRead`s of other readers are counted, not put in order: an
  `AckReception`, which goes to the author alone, is the only other thing a reader sends.
  Messages between two clients arrive once, in order; at most `MaxTransit` are on their way from the author to a reader, or back.
* In `Conversations` there is one conversation. `calm` becomes false when an operation breaks
  off, overlaps another change of the members, or the conversation is deleted.
* In `Prekeys` a request that was sent has reached the server before the stop or
  never does. `Limit` is how many prekeys the server stores for a user; the `limit`
  it answers with is what it still takes. The numbers stand for random ids.
* In `Tls` a record is a header and a body, a handshake message two halves, so that reads,
  writes and records may cut them. Bytes are numbered. What the protocol asks of a server
  (`GoodServers`) is stated from RFC 8446 and the ClientHello's offers, apart from what the client
  decodes and accepts (`TlsMessages`).
* In `TuiAuth` typing is left out: a form's contents are chosen when Enter submits them. In
  `Tui` a call of the SDK is one step of the interface, except where the handler reads the
  database twice (`pc`); titles, fingerprints, toasts, scrolling and the cursor are left out.

## 3. What the runs check

Every run allows the system to stop (`CHECK_DEADLOCK FALSE`): with all bounded
inputs used up, a program closed or a connection refused, nothing remains to be done; that
nobody waits in vain is stated by the liveness properties.

| Run | Bounds | Result |
|---|---|---|
| `AsyncClient_requests` | 2 tasks (one the chat worker), both channels of 1, ids wrap after 2, 3 sends, 3 relayed messages, 2 packets on the connection, faults anywhere | `AnswersMatch`, `SenderKept`, `NoStaleEntry`; every request made before the receive worker stops ends (`RequestsEndBeforeStop`) and relayed messages are taken unless it stops (`RelayedAreTaken`), both but for the deadlock of section 6, which happens in this run (`Deadlocked`) |
| `AsyncClient_backlog` | no faults, 1 send, `out_channel` of 1, 3 relayed messages | violates `RequestsEnd`: the deadlock of section 6 |
| `Sessions_sessions` | 2 users, 2 tasks each, 2 openings, 2 messages, 2 stops, batches of 2 | `DirectionsDisjoint`, `SessionKeysKept`, `KeyReachesPeer`, `LostOnlyInRace` |
| `Sessions_reply` | 1 opening, 1 message, no stop | violates `NothingLost` |
| `Messages_edits` | one or two tasks of the interface and one or two readers (three actors in all), 2 texts, 1 message on its way to a reader and 1 back, one send may fail | the status never says too much (`StatusIsTrue`) or, but for a race or an acknowledgement silenced by another reader's, too little (`ReadIsShown`); all sides converge (`Converges`); `DeletedStaysDeleted` |
| `Prekeys_prekeys` | 2 peers, 2 prekeys kept, 5 made, 3 openings, 1 stop at any step | `OpeningsSucceed`, `ServerKeysStored`, `ToppedUp` |
| `PayloadCache_lru` | 3 users for 2 places, 3 keys, 3 payloads per user, 5 pushes | `WellFormed`, `NewestKept`, `EvictsLeastRecentlyUsed` |
| `Tls_stream` | 1 server that follows the protocol and that the client supports; 4 that follow it and that the client refuses (an answer to the server name, `supported_groups`, a CertificateRequest, a HelloRetryRequest); 1 whose ServerHello carries a cookie and a server name, which the client accepts; 22 that each depart from the protocol in one point; 3 or 8 halves of messages per record; fragments of 1 byte, keys updated after 2 records, writes of 2 bytes; 2 records after the handshake or polls of a write | the stream is the server's bytes (`StreamIntact`, and `ReadsAStream`: `Tls` implements `BytePipe`); `OnlyGoodServers`; the server can open all it gets (`ServerUnderstands`); `NoncesNeverReused`; `NothingIsStuck` |
| `Tls_eof` | as above | violates `EofIsReal` |
| `Sync_iterator` | 2 peers and a stranger, who may be deleted, batches of 2, 4 messages (openings and rotations included), 2 openings, 2 overtakings, 1 stop | every message is in one place and none waits for a key that is there (`AllAccounted`); `UndisturbedInOrder`; `KeyMovesForward`; `SyncEnds` |
| `Conversations_members` | 4 users, one of them gone from the server; 1 message, 2 additions, 1 failing send, 1 deletion | `MembersAgree`, `MembersExist`, `IgnoredOnlyInRace`, `InvitationsReachAll` |
| `Tui_interface` | 2 names (one taken), 2 passwords, 2 attempts; 2 conversations of 2 messages, 2 peers, a channel of 1, 2 writes of peers or user, 1 failing call, a server that may close | `ProfilesAreUsable`, `SignUpStaysInPlace`; `SelectionIsValid`; `ListIsStored`, `ChatIsStored`; `AttemptEnds`, `ShownIsRead` |

The type invariants are part of `WellFormed`, `StatusIsTrue`, `AllAccounted`, `MembersExist`,
`StreamIntact` and `SelectionIsValid`; those of `AsyncClient`, `Sessions` and `Prekeys` are
proved. Properties that are conjunctions of named parts (`ListIsStored`, `ChatIsStored`,
`SelectionIsValid`, `OnlyGoodServers`, `NoncesNeverReused`, `NothingIsStuck`) list the parts
just above them, each with the behaviour it is about.

Why the bounds are enough. In `AsyncClient` three sends wrap the ids once and
let both tasks wait while a third packet fills the channel; two relayed messages
fill `out_channel` and the receive worker's hand, and the third, in the chat worker's, makes it ask
for what the receive worker cannot read. In `Sessions` two openings are
what it takes to cross (one from each side), to race (two tasks of one client) and
to repeat; a stop of each client, or two of the same, falls at every step of both;
two messages let one be sent under each session; a batch of two holds both of what can be
stored, so that a stop may drop one handled by half. In `Messages` two overlapping
operations are what a read-modify-write needs to be undone, an edition and a deletion or
two senders of one text let one be overtaken by the other, and two readers acknowledge in different
orders, to the author and to each other. In
`Prekeys` three openings drain two prekeys and get one bundle without; the five keys allow a
full creation, a creation that starts over and a top-up. In `PayloadCache` the fourth payload
meets the message limit and the third user the user limit, with one push left after either.
In `Tls` three halves per record cut every message at some record's end, and eight put the
flight in one record, where the keys change inside a batch; a write of two fragments with a
limit of two records changes the key in the middle of a write. In `Sync` four messages are two
batches: an opening, a rotation, and messages under both keys on either side of the batch's
end. In `Conversations` four users give a creator, a member, one who is invited and one who
is gone; two additions overlap. In `Tui` a channel of one already blocks the worker
behind one event while the interface reads the database, and a login that synchronizes two
messages fills it; two conversations make leaving, deleting and reopening differ. The
behaviours of a run start either at the profile list or at the end of a sign-in with
conversations that the synchronization has just received, so that neither half's bounds pay for the other's.

### Conditions in the properties

* `RequestsEndBeforeStop` and `RelayedAreTaken` except `Deadlocked`, the two workers waiting
  for one another.
* `KeyReachesPeer` and `LostOnlyInRace` hold under `Calm`: no client stopped between the
  dispatch of an opening and `update_session`, none stopped with openings that it had fetched and not
  handled, and no synchronization follows openings that crossed or repeated. Outside it they
  fail, see section 6. A batch of conversation messages that a stop drops is not excluded: it is
  one of the three ways of `LostOnlyInRace` (`DropsBatch`).
* `Converges` speaks of operations that did not fail and did not overlap; `ReadIsShown` of
  any, but excepts `raced`, an acknowledgement that came while a task held the row or an
  `AckRead` sent before the `AckReception`, and `Silenced`, a reader whose unread row another's
  `AckRead` has made `Read`.
* `ToppedUp` is stated when the server accepts `MinPrekeys`.
* `UndisturbedInOrder` is about peers that are not `disturbed`; that nothing is lost, about
  clients that do not stop, and about peers none of whose rotations stopped the live worker (`failed`).
* `SyncEnds` lets a synchronization end with the client live and every peer of the storage
  named, or with the iterator dropped because the client stopped or the server does not know
  such a peer any more (`gone`).
* `MembersAgree`, `IgnoredOnlyInRace` and `InvitationsReachAll` are about `calm` behaviours.
* `OnlyGoodServers` excepts by name what the client does not support (`Unsupported`) and what it
  accepts though the protocol forbids it (`LaxServers`), and does not ask that a server be
  accepted that closes or sends an alert;
  `NothingIsStuck` stops at a server that closes; `ServerUnderstands` holds while no
  write found the socket full.
* `ProfilesAreUsable` leaves out a sign-up `cut` by the end of the program or a panic of
  the thread; `AttemptEnds` a synchronization that waits for room in the event channel
  (`SyncBlocked`) and a handshake that reads on after the server has closed (`Spinning`); the properties of the list and the chat what was `excused` by a
  failed call, and the list's what a deleted conversation `haunted`.

## 4. Fairness

Weak fairness everywhere, of steps that a scheduler or a loop of the code runs as soon as
they can be run. Nothing is assumed of users, of peers or of failures.

* `AsyncClient`: a task that has room in `send_channel`, whose oneshot completed, or whose
  channel is closed; the three workers on a non-empty queue; the detection of a lost
  connection by the reader and, when it writes, by the writer; and a server that answers
  some outstanding packet while it is connected. Each of these steps stays enabled until it
  is taken, but for `Enqueue` when several tasks compete for the last place; with the
  bounded sends of a run every competitor gets its turn, and in the code tokio's channel
  serves them in order.
* `Tls`: the client (`connect`'s loop, then the two tasks that poll the stream: an application
  that reads goes on reading), and the server's handshake and reading. The server need not
  send or close.
* `Sync`: the iterator is consumed (its caller loops until `None` or an error); nothing is asked of
  the client's restart or of the live worker.
* `Conversations`: as long as an operation that has started or a chat worker can go on, one of
  them does. A behaviour is finite, so that they all do in the end.
* `Tui`: the connecting thread's steps, for which the server answers or closes (the code has no
  timeout), and the main loop's poll of it, the rest of a
  handler that has started, the poll of events at each turn of the main loop, and the
  worker's send. No key is ever pressed out of fairness.

## 5. What is proved

TLAPS checks the theorems below for every value of the constants. They rest on
the named assumptions of each module only: the chat worker is a caller
(`CallersAssumption`), and bounds, limits and capacities are naturals
(`BoundsAssumption`, `SessionsAssumption`, `PrekeysAssumption`, `MessagesAssumption`,
`ConversationsAssumption`, `CapacityAssumption`, `TlsAssumption`, `SyncAssumption`), the capacities of the
channels, the id range and the batch of a synchronization positive; the users that the server has deleted are among those known by id only; an absent row is not a row (`NoRowAssumption`), an absent
conversation not a list, nor is `Nobody` a session; the users of a conversation are finitely many;
users are finitely many, there is one and a password, the names others have taken are names of users, and no user is named like the default directory
(`UsersAssumption`); there is a conversation and finitely many, but some, peers (`ChatAssumption`);
None is none of the values it stands in for; a server's flight is made of the names of its messages.
An inductive invariant was first an invariant of a TLC run on the same instance as the component's
run, but for those of `Tls` that speak of a chain of records that exists: there the parts that TLC can evaluate.

| Module | Theorem | States |
|---|---|---|
| `ClientProofs`, of `AsyncClient` | `TypeCorrect`, `AnswersReachTheirCaller`, `UnansweredAreRegistered`, `TableDoesNotLeak` | `Spec => []` of `TypeOK`, `AnswersMatch`, `SenderKept`, `NoStaleEntry`: all the safety properties of its runs |
| `ClientProofs`, of `Sync` | `SyncInvHolds`, `EveryMessageAccounted`, `UndisturbedDelivered`, `KeysMoveForward` | `SyncSpec => []` of the inductive invariant `SyncInv`, of `AllAccounted` (which has `SyncTypeOK`) and of `UndisturbedInOrder`; `SyncSpec => KeyMovesForward`: all the safety properties of its run |
| `SessionsProofs` | `SessionsTypeCorrect`, `DirectionsNeverShareAKey`, `SessionKeysStay`, `KeysReachPeers`, `LossesAreRaces` | `Spec => []` of `TypeOK`, `DirectionsDisjoint`, `SessionKeysKept`, `KeyReachesPeer`; `Spec => LostOnlyInRace`: all the properties of its run |
| `PrekeysProofs` | `PrekeysTypeCorrect`, `EveryOpeningSucceeds`, `ServerOnlyHasStoredKeys`, `SyncTopsUp` | `Spec => []` of `TypeOK`, `OpeningsSucceed`, `ServerKeysStored`; `Spec => ToppedUp` |
| `MessagesProofs` | `StatusAlwaysTrue`, `OperationsConverge`, `ReadIsAlwaysShown`, `DeletedAlwaysStaysDeleted` | `Spec => []` of `StatusIsTrue` (which has `TypeOK` as a conjunct), `Converges` and `ReadIsShown`, `Spec => DeletedStaysDeleted` |
| `ConversationsProofs` | `MembersAlwaysExist`, `MembersAlwaysAgree`, `IgnoresOnlyInRace` | `Spec => []` of `MembersExist` (which has `TypeOK`, with the foreign key of the members) and `MembersAgree`, `Spec => IgnoredOnlyInRace` |
| `PayloadCacheProofs` | `CacheIsWellFormed`, `TheNewestAreKept`, `EvictsByRecency` | `Spec => []` of `WellFormed` and `NewestKept`, `Spec => EvictsLeastRecentlyUsed` |
| `TlsProofs` | `NoncesAreNeverReused`, `NothingIsLost`, `ReadsOneStream`, `OpensOnlyToGood`, `OpensExactlyToGood`, `ServerReadsWrites` | `Spec => NoncesNeverReused`; `Spec => []StreamIntact` (which has `TypeOK`); `Spec => ReadsAStream`: `Tls` implements `BytePipe`; `Spec => []` of `BadServerRefused`, `OnlyGoodServers` and `ServerUnderstands`: all the safety properties of its run |
| `TuiProofs` | `ProfilesStayUsable`, `SignUpNeverStrays`, `ListStaysStored`, `ChatStaysStored`, `SelectionStaysValid` | `Spec => []` of `ProfilesAreUsable`, `SignUpStaysInPlace`, `ListIsStored`, `ChatIsStored` and `SelectionIsValid` (which has `TypeOK`), of the whole of `Tui`: all the safety properties of its run |

**AsyncClient.** None of the three properties is inductive: that an answer fits its
caller depends on every packet that is still on its way. `IInv` adds what the code
maintains without saying so: a packet or answer in transit under a tag
carries the serial of the request whose sender is registered there (`TransitMatch`), and so
does a caller about to enqueue or waiting (`CallerMatch`); an answered request is out of
the table (`AnsweredGone`); serials are unique (`SerialsUnique`); relayed messages are
untagged (`RelaysUntagged`). There is one lemma per action or group of actions that
disturb the same conjuncts, and `QuietStep` for those that only move messages.

**Sync.** That a message is in one place needs, beyond the count itself, that nobody has a message that its peer has
not sent yet: `CountInv` says of every number whether it is in one place or in none. A step moves a message
from one sequence to another, so the proof counts: what a filter keeps and what it drops, a batch and the rest of the store, the
released messages reversed before the queue, have together what there was (`HeadCut`, `BatchAndRest`,
`Pushed`, and lemmas like them for what each step does to `HowMany`). The filters are an order-preserving enumeration of indices
(`Kept`), which exists by an induction over sets of naturals (`SetInduction`).

Where a message may be depends on the step of the iterator (`PhaseInv`): openings are fetched before
conversation messages, so that a batch never mixes them and nothing waits while initial messages are processed.
That nothing waits for a known key (`WaitInv`) needs that a rotation only brings its own key, and that the messages
it releases are the only ones that wait for it.

The receiving key goes forward because a rotation that the client can read is encrypted with the
session's newest key, never with an older one it still has, and because openings come in the order they were made (`KeyInv`). For the
first: a message that was sent after a rotation or an opening is not encrypted with a key before the one that
it brings (the last conjunct of `MsgInv`), so that two rotations never start from the same key.
For the second, the openings in the queue, in the store and relayed are in order (`OrderInv`), and a client that
goes live or stops keeps their order. `OrderInv` says the same of all messages of an undisturbed peer: in each
sequence, and between what is decrypted or waits, the batch, and the stores. `DeliveryInv` adds that what was delivered is older than all that, and
`LossInv` that, until a stop, each key used by a message of such a peer is had or brought by a message before it:
so nothing of it waits when the iterator ends. That the live worker is stopped by a rotation of such a peer
is not excluded, since the code does it: the peer is then in `failed`, and so is what is lost.
The proof has one lemma per action, and lemmas for what several do alike: a message sent (`Sends`), one that
comes to the store (`Comes`), one handled (`Handled`), one relayed (`Relayed`), messages moved (`Turns`, `Parted`), a step that touches none (`Quiet`).

**Sessions.** Two users never encrypt with the same key because a user only ever
sends with the first key of its own opening or the second key of its peer's
(`SendersSound`); for that, openings must keep naming their sender's key while they
are relayed, stored, taken back and relayed again (`ChannelsSound`, stated as what
each channel is a sequence of), and a task must remember whom it opens a session with
(`TasksSound`). A session's keys are stored with it by both sides (`SaveInv`), and the
cleanup spares them (`SyncDoneInv`).

That a key reaches the peer takes a second invariant, `ReachInv`, since the peer's copy may be
in any of its places: stored, in an opening on its way (`Flying`), or with a task that waits for
the answer to its own opening (`Awaited`). `Met` says that of the two keys of an opening
whoever is to store the one finds the other where it will be stored. Each step either moves
a key from one of these places to the next (`Narrows`, `Delivers`, and `MetStays` for the
conclusion) or starts an opening. A stop and a cleanup are the two that could break it: a stop
loses no opening because an opening that the server has not handled has a task that waits
for it (`Once`, which needs that an opening is queued once and answered once), and in a
calm run there is none; a cleanup deletes no key because a client only cleans up after a
stop (`AllUp`), and in a calm run there was then one opening, whose two keys are those of
the session (`OneOpening`, `OneSession`). A batch that the server has deleted is still in the model's
store, of which it is the beginning (`BatchSound`): handling its first message shortens both, and a
stop removes it (`StopStores`), which in a calm run takes no opening and loses the messages it says
(`StopLoses`).

That a message is only lost in a race is a promise that follows it. What a client sends a
message with, now or later (the key of its session, of an opening that it is to read, of an
answered one that it is to save: `Promised`), its peer has, is about to save, or is told by a packet
of its inbox (`PromisesKept`); and once the message is on the wire, its key is held or the packet that tells it comes
before the message (`InOrder`), which is where the order of the channels matters: the server
relays or stores an opening in the step that answers it (`ServerRace`), so that the opener's
messages come behind it. An answer is for a task that waits for it, or whose session is stored
(`OksMeant`). `RaceInv` joins the three under `Calm`, with what is left of a client that is not up
(`Modes`). It is kept because a step heeds each packet that it takes from an inbox, or leaves
it there (`RaceHeeds`), while keys are only added (`Grows`) until a cleanup, which in a
calm run has one session and spares what its messages are encrypted with (`CleanupSpares`,
for which `Carried` says with which keys a message may be sent). A message whose key
is told but not held, when it is taken, is one of the two races that `LostOnlyInRace` names; its third
way is a stop.

**Prekeys.** An opening succeeds because its prekey is still stored, which holds
because nobody else can have used it. `IInv` follows each prekey on its way: the
upload, the server, a peer's hands, the inbox, the batch. Each prekey on its way is
stored (`PlacesStored`), in one place only (`PlacesDisjoint`, `Unique`), and was made
by a counter (random ids in the code) that never repeats; everything made with a midterm
key was made with the owner's (`MidtermKnown`). `ShrinkInv` serves all the steps that only
take prekeys out of a place (a stop, a dropped bundle, a deletion), `OpenInv` the two that
consume one.

That a synchronization tops up is a matter of counting: from `PreKeyStatus` to the upload the
server has as many prekeys of the owner as it answered with, less those that peers took
meanwhile (`CountInv`, with `taken`), and the upload adds what was missing then (`Missing`). The deletion between the two removes none of
those the server has.

**Messages.** The status is overwritten by four writers that read it at different times. It
stays true because what any of them will write is true already: an acknowledgement in transit
was sent by a reader that has stored, or marked, the message (`ChannelsInv`, `AcksOf`), a
worker about to acknowledge has stored it (`WorkersInv`), and the row a task read had a true
status, which no later step makes false (`TasksInv`, `GrowInv`). A deleted message stays
deleted because the content is sent to each reader once (`SendsOnce`) and arrives once
(`ArrivesOnce`), and an edition is only saved over the row it was read from (`EditsStored`):
the chat worker handles a deletion before or after the two calls of an edition, never between.
This uses that the worker is one task.

All sides converge because the last content that was sent to a reader and has not arrived
(`Coming`) is what the author has, or will have when the one operation in progress ends
(`Told`, `Calm`), and the channel keeps what was sent in order (`InOrder`): this is `ConvInv`. An
acknowledgement is not lost because the last that a reader sends the author is its `AckRead`: when
all have read, none was silenced and the last one has come, the row has `Read`, and so has what a task is about
to write over it, unless they raced (`Settled`, `ReadInv`); this does not depend on sends that
failed, and the property, which first excluded them, no longer does.

**Conversations.** A member is saved only when it is in the table of peers, and this table
only has users of the server (`PeersExist`). For the operations that save members at their end,
that is a promise made at their start: `TaskInv` says that each peer an operation will save is
either still to be sent to or in the table (`SendOne` moves it from one to the other), and
is never the user itself.

That the members agree is said of a list that no variable has: in a calm state there is a set `H`
of members, the last user that changed it and the peer it added, such that every member
has `H` without itself, or is to get the OpenConv (`OpenTo`), or has `H` without the new peer as
well and is to be told of it (`AddTo`). `CalmInv` adds that all that is on its way says so
(`Sound`), from one sender, and that an OpenConv comes once to a user without the conversation
(`OneOpen`): it would be discarded otherwise. An invitation starts the next `H` from a state in
which nothing of the last is left (`SettledMembers`). The two races of `IgnoredOnlyInRace` are
`OpenTo` and `AddTo`.

**PayloadCache.** `CacheInv` says what the code's three counters and two orders amount to. The
queues of a user are ordered by their newest payload (`Recent`), so that the last of the list
is the least recently used; what is cached for a key is an end of what was pushed for it
(`EndOf`); the total of a user is the number of its payloads, which are distinct because pushes
are numbered (`Numbered`). The proof follows `push` through its cases: another key's last queue
is evicted, or the oldest payload of the only key; the user's cache is moved to the front, or
made after the last user was dropped.

**Tls.** `NonceInv`: what the client has sealed and not yet put on the socket, or put there, is
behind the state of the sender (`AllPast`) in the order of stages, generations and sequence
numbers, and distinct (`Unique`). What a call of `send` adds lies between the states before and
after it (`Grows`, which composes: `GrowsTwice`), so that neither a key update before the
fragments nor an encryption that is repeated after `Pending` meets an old nonce.

`ReadsOneStream` is a refinement: a read of the application takes the next bytes of what the
server's application sent, each step of `Tls` being a `Put`, a `Take` or a stutter of
`BytePipe`. `StreamInv` says that the units in the input buffer and then in the socket are
those of a chain of records (`Chain`, `Flown`), each of which leads from a number of bytes to a
greater one, the first from what was read and buffered (`InOrder`), the last to what was sent. The
chain is cut at either end wherever the socket cuts (`FlightRead`, `FlightTail`) and lengthened
by the server (`FlightAppend`). Before the client has keys, application data must not be taken
for a clear record: the chain counts the halves of the ServerHello, and no protected record
comes before they are through. The state `err` is excepted: it drops the input. `NothingIsLost`
is the same invariant read as a sum: joined, the bytes of a chain are those from its first number to its last
(`CarriedByChain`, by the induction of `SetInduction`; `Flattened` gives the meaning of the
community modules' recursive `FlattenSeq`).

That a server which is neither supported nor lax is refused is a matter of what has been checked when. `TrustInv` says that
the messages on their way are halves of the server's own (`SourceInv`), that the state, `pc` and the transcript tell
the same number of handled messages (`ControlInv`, `Handled`), and that each of these has passed its check
(`Vetted`). At the end all have, the transcript is the order of a handshake, and the server's
HMAC over it says that its flight was `<<EncryptedExtensions, Certificate, CertificateVerify, Finished>>`.
What the decoder lets through is then compared with what the protocol asks: a ServerHello that the client
accepts takes up its offer, and is good or lax; an empty list and this flight are what supported servers have.

That a supported one is never refused needs what is on its way, however it is cut. A position is what one
side must have when it reads the next record: a key and a number, and how many halves of messages
were read. A record leads from a position to the next (`DownStep` for what the server sends, `UpStep`
for what the client sends, `Flow` for a sequence of them); `GoodInv` says that the records on their way lead from where
the client is (`ClientAt`) to where the server is (`ServerAt`). A key changes at a position, not
at a time, so that records of both sides of a change may be in one batch. `UpInv` is the same for the other direction (`Receiving`, `Sending`), where a position counts the bytes
of the application: a write's fragments lead on from one another because the chunks of a write do
(`ChunksCarry`, with the arithmetic of `chunks`), before or after a key update of either side's making. `ServerUnderstands` follows from it, and
fails after a stalled write because the bytes are then encrypted a second time.

**Tui.** A profile is usable because a sign-up leaves its credentials, its database's key, its
account and the account's keys behind it in this order (`SignUpProgress`), and because one that
ends early removes the credentials or is counted as cut. `AttemptInv` ties the connecting
thread to what the interface remembers of it (`data_dir`, `was_signup`), through every key of
the profile and form screens; the screens over a connected client leave all of it alone
(`FrameKeeps`). `AuthTypes` adds what the keys of these screens index: the selection is in the list as it
was last read, and a password is only asked for a profile of it, while no attempt is under way.

What the list and the open conversation show is about a `Queue`: the events of the channel and then the
one that the worker is about to send. The interface reads a database that is ahead of the queue, and
then hears of what it has read already, so that nothing it shows can be compared with the database
alone: `ConvInv` compares it with what the queue still has to tell. In the list (`Counted`), a conversation of the
database is listed or its creation is in the queue; an unread message is counted or its event is
on its way (`Due` are those that no event will count), behind the creation if the conversation is not listed. The members of an entry are the database's, or the
event of an addition is in the queue (`ListInv`, unless `haunted`). In the chat (`Shows`), a message
is shown or about to arrive, and its first copy has the database's text or an event will rewrite it.
For that the queue itself must be true (`QueueInv`): the last event about a message leads to the
text that the database has, and none is about a message that the user wrote. `StoreInv` numbers the messages;
`ScreenInv` says what is open, listed and edited on each screen and inside each
handler that reads twice (`pc`); `ModesInv` that what is edited or deleted is the user's own, of the open conversation, and that no event
in the queue concerns it, which is why a key and an event never write the same row.
The proof has a lemma for each thing that happens to the queue (an event joins it, is handled, is
dropped with the channel; `QueueJoined`, `QueueTail`, `QueueDropped`) and for each part of the invariant under
each (`ListJoined`, `CountKept`, `ChatKept`, `HandlesList`, `HandlesModes`), so that an action is a case of these.
The enumerations it rests on (`ListIs`: the list read from the database; `LoadIs`: the messages loaded) need that an increasing
enumeration of a finite set of numbers exists, which is proved by induction as a set of naturals with its
least element outside (`SetInduction`).

Proving changed the models where they could not be reasoned about, or were wrong. `Tls` had
`connect` go on after the `todo!()` of an alert; the attempt at `ReadsOneStream` needed that
nothing is processed in state `err`, and `ReceiveAlert` now ends `connect` with the panic. The
fragments of a write (`Encrypted`), the queues without a key (`Without`) and the total of a user
are written in closed form instead of by a fold, as are the halves of the server's flight (`HalvesOf`),
the bytes that `ServerUnderstands` compares, and the filters and counts of `Sync` (`WithKey`, `HowMany`), whose
specification is named `SyncSpec` since `ClientProofs` extends `AsyncClient` as well; the lists that `Tui` and `TuiAuth` read in order (`InOrder`) are
not a filter of a sequence any more. `TuiAuth` names the stages of an attempt. `GoodServers` was a
constant of `Tls`, of which nothing could be proved: it is now the set of the servers that follow the
protocol, and `MCTls` assumes that of its 28 servers five do, one of which the client supports, and that one is lax.

Only model-checked: the seven liveness properties (`RequestsEndBeforeStop`, `RelayedAreTaken`, `SyncEnds`, `InvitationsReachAll`,
`NothingIsStuck`, `AttemptEnds`, `ShownIsRead`), since
fairness and ENABLED are beyond TLAPS. Every invariant and every action property of a passing run is a theorem.

## 6. What the models show of the code

Checked by a run:

* `AsyncClient_backlog`: the chat worker requests something (an unknown
  member's profile, a session) while `out_channel` is full and the receive worker
  waits for room in it (`workers/receive.rs:253`): the answer is never read. It takes
  102 relayed messages in the code, 3 with a channel of 1. `AsyncClient_requests` reaches it too.
* `Sessions_reply`: the server's `Ok` wakes the opener's task, but the peer's
  first message may be handled first; the session is not saved yet, the error is
  `NoSession`, and only `NoSessionKey` is cached (`state.rs:183`).
* `Tls_eof`: `wants_read` (`tls:connection/connection.rs:126`) is false while a part of a record is
  buffered, and `poll_read` then returns without a byte: to its caller, the end of the stream.

In the models, without a run of their own (the properties name them as exceptions or exclude them by
their conditions, section 3):

* `send_message` writes `Sent` after its dispatch, over the `Delivered` or `Read` that a quick
  reader's acknowledgements have set (`chat/client/client.rs:220`); `edit_message` does the
  same with the row it had read. This is `raced` in `Messages`.
* An `AckRead` goes to all members and its handler looks at nothing but the message's id
  (`chat/client/client.rs:670`): the unread row of another reader becomes `Read`, is not among what
  opening the conversation marks as read, and is never acknowledged; that reader's own late
  `AckReception` may leave the author at `Delivered`. This is `Silenced`.
* `edit_message` may save back a row that `delete_message` has deleted; the reader's worker may
  undo `mark_as_read` the same way; a message whose dispatch failed stays `Sending` (no code
  assigns `Failed`).
* A request tagged after `shutdown` (`workers/receive.rs:79`) is not woken while the
  send worker still lives.
* A stop between the server's `Ok` and `update_session` leaves the peer with a
  session whose keys the client never stored; after openings that crossed, each user
  sends under a key of one exchange and the other under a key of the other, and a cleanup then
  deletes a key in use (`state.rs:272`).
* A stop in `create_account` after `set_account` leaves an account that loads and
  synchronizes but whose midterm key is never uploaded (`e2e/client/client.rs:144`).
* Messages that waited for a key go back in front of the iterator's queue one by one, which
  reverses them (`sync_iterator.rs:465-471`; the receive worker uses `rev()`); a message
  whose key never comes is dropped with the iterator.
* The server deletes a batch when it hands it out: a client that stops, or loses its connection,
  before it has handled all of it loses the rest (`sync_iterator.rs:26-34` warns of it). With an opening it
  loses the peer's session: the peer keeps encrypting with a key that this client never gets.
* A peer of the storage whose account was deleted makes every synchronization fail: the answer is
  `ProtocolError(UserNotFound)` (`e2e/client/client.rs:335`), which the arm for `UserNotFound` does not
  match (`sync_iterator.rs:154`).
* `process_key_rotation` is called with the key id in place of the sender's id
  (`workers/receive.rs:263`), so that a live client fails on a rotation, also of a peer that did
  everything in order, and stops its worker; and the
  rotation that `prepare_message` adds (`state.rs:126`) has neither token nor recipient.
* `PayloadCache::pop` takes the whole cache of the user out to return one key's
  queue (`payload_cache.rs:81`).
* A creation or an addition that fails at one recipient leaves the earlier ones with a
  conversation or a member that the others do not have. A member who no longer exists
  cannot be resolved: the foreign key of the members refuses the row, the error is not
  handled, and the recipient's chat worker stops (`chat/client/client.rs:453`). A reply that
  comes before the creator has saved the conversation is ignored.
* The connecting thread waits for ever when the synchronization emits more events than the
  channel of 32 holds (`sdk:client/client.rs:36`): nobody reads it before the connection is
  returned. This is `SyncBlocked` in `Tui`.
* After a failed sign-up the interface keeps the directory and the database keeps the first
  password's key; a sign-up that is cut leaves credentials without an account. The form opened
  by deleting the last profile signs in, or up, as the last attempt did.
* A conversation that is deleted while the event of its creation is in the channel is listed
  again (`haunted`).
* `poll_write` encrypts its buffer at each call: after `Pending` the bytes are encrypted and
  sent a second time (`tls:client/stream/tls_stream.rs:99`).
* An alert after the handshake, `close_notify` included, reaches a `todo!()`
  (`tls:connection/state/connected.rs:18`); the handshake's loop spins on a server that closes
  (`tls:connection/connection.rs:79`), and the interface stays at loading, since nothing in the
  connecting thread has a timeout.
* A ServerHello may carry more than the two extensions of TLS 1.3, which the code means to refuse
  (`tls:msgs/server_hello.rs:92-98`): `contains_only` joins with `||` (256). And servers that
  follow the protocol are refused when they acknowledge the server name or send `supported_groups` in
  EncryptedExtensions, a CertificateRequest (`tls:msgs/handhake.rs:78-83`, `107-110`), or a
  HelloRetryRequest.

## 7. What is not modelled

* Authentication: tokens and the single retry of `send_authenticated_e2e_raw` (one straight
  sequence with the synchronous client); requests and answers are taken as authenticated.
* Cryptography, key derivation, encodings, JSON framing, the bytes of TLS messages and their
  length limits: pure functions whose correctness is not a matter of states.
* `key_msg_count` (`state.rs:113`): it only decides when `prepare_message` adds a rotation that
  no peer receives.
* Fingerprints and profile names: they are stored and shown, and nothing is decided by them
  (`get_profile_by_id` writes a row without the fingerprint over one that has it).
* The GUI beyond the fact that every action is a task of its own: its callbacks are calls that
  the other modules model. Of the TUI, rendering, text editing, scrolling, toasts.
* `poll_shutdown` of the TLS stream, a `todo!()`.
* SQLite beyond the effect of the statements used; database encryption.
* Typing indicators (no state), the storage traits, the test programs.

## 8. What would come next

1. An abstract request/reply specification that `AsyncClient` implements, with the refinement
   proved from `IInv`.
2. Authentication: a token that expires between two requests of several tasks.
