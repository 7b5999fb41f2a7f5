------------------------------ MODULE Sessions ------------------------------
(***************************************************************************)
(* End-to-end sessions between users: how they are opened (from one side,  *)
(* from both sides at once, by two tasks of the same client), replaced,    *)
(* used to send, restored by the synchronization of a client that starts,  *)
(* and which session keys each client keeps.                               *)
(*                                                                         *)
(* A session key is identified by the opening that created it and by its   *)
(* side: "i" is the opener's sending key, "j" its receiving key. Whoever   *)
(* knows the key id knows the key: the key exchange itself is taken for    *)
(* granted, and keys are not rotated.                                      *)
(***************************************************************************)
EXTENDS Naturals, Sequences, SequencesExt

CONSTANTS
  Users,
  Tasks,        \* the tasks of a client that share its ClientHandle
  Nobody,       \* no session with a user
  MaxOpens,     \* bound: key exchanges that are started
  MaxMsgs,      \* bound: messages sent over sessions
  MaxStops,     \* bound: times a client stops
  BatchSize     \* SyncIterator.batch_size: messages that it asks for at once

VARIABLES
  mode,      \* client: "down", synchronizing ("initial", "messages"), or "up"
  sess,      \* E2EClientState.sessions of u for v; the storage holds the same
  keys,      \* the session_keys that u stores for v
  task,      \* where each task is in ClientHandle::send
  up,        \* packets of a client that the server has not handled
  wire,      \* what the server has written to a client that is up
  initial,   \* the server's store: opening messages for a client that is not up
  mailbox,   \* the server's store: conversation messages
  fetched,   \* how many of the first messages of the store that a client fetches from
             \* the server has deleted: they are only in the answer, or in the client
  seen,      \* the users in SyncIterator.session_keys
  lost,      \* messages that their recipient received and could not decrypt, or that
             \* were deleted for it and that it never handled
  interrupted,           \* whether a client stopped in the middle of an opening: its
                         \* own, or one it had fetched and not handled
  opens, msgs, stops     \* counters behind the bounds

clientVars == <<mode, sess, keys, task, seen, fetched>>
serverVars == <<up, wire, initial, mailbox>>
counters == <<opens, msgs, stops>>
vars == <<clientVars, serverVars, lost, interrupted, counters>>

Pairs == {q \in Users \X Users : q[1] # q[2]}
Peers(u) == Users \ {u}

Keys == [n : 1 .. MaxOpens, by : Users, to : Users, side : {"i", "j"}]
Key(n, u, v, side) == [n |-> n, by |-> u, to |-> v, side |-> side]
Session == [send : Keys, recv : Keys]

ASSUME SessionsAssumption ==
  /\ MaxOpens \in Nat /\ MaxMsgs \in Nat /\ MaxStops \in Nat
  /\ BatchSize \in Nat \ {0}
  /\ Nobody \notin Session

Packet == [kind : {"open", "msg", "ok"}, from : Users, to : Users, key : Keys,
           id : 0 .. MaxMsgs]
Idle(u) == [st |-> "idle", to |-> u, n |-> 0]
Task == [st : {"idle", "bundle", "opening", "opened"}, to : Users, n : 0 .. MaxOpens]

TypeOK ==
  /\ mode \in [Users -> {"down", "initial", "messages", "up"}]
  /\ sess \in [Pairs -> Session \cup {Nobody}]
  /\ keys \in [Pairs -> SUBSET Keys]
  /\ task \in [Users \X Tasks -> Task]
  /\ up \in [Users -> Seq(Packet)]
  /\ wire \in [Users -> Seq(Packet)]
  /\ initial \in [Users -> Seq(Packet)]
  /\ mailbox \in [Users -> Seq(Packet)]
  /\ fetched \in [Users -> 0 .. BatchSize]
  /\ seen \in [Users -> SUBSET Users]
  /\ lost \subseteq 1 .. MaxMsgs
  /\ interrupted \in BOOLEAN
  /\ opens \in 0 .. MaxOpens /\ msgs \in 0 .. MaxMsgs /\ stops \in 0 .. MaxStops

Init ==
  /\ mode = [u \in Users |-> "up"]
  /\ sess = [q \in Pairs |-> Nobody]
  /\ keys = [q \in Pairs |-> {}]
  /\ task = [w \in Users \X Tasks |-> Idle(w[1])]
  /\ up = [u \in Users |-> <<>>]
  /\ wire = [u \in Users |-> <<>>]
  /\ initial = [u \in Users |-> <<>>]
  /\ mailbox = [u \in Users |-> <<>>]
  /\ fetched = [u \in Users |-> 0]
  /\ seen = [u \in Users |-> {}]
  /\ lost = {} /\ interrupted = FALSE
  /\ opens = 0 /\ msgs = 0 /\ stops = 0

-----------------------------------------------------------------------------
(* ClientHandle::send.                                                     *)

\* SyncIterator::next may have returned a message, and wait until the client has
\* handled it: of a batch of openings it has then handled all, and there is no request
\* under way. (A start that has fetched nothing yet has nothing to return: that it may
\* send here too is more than the code does.)
Yields(u) ==
  /\ mode[u] = "messages" \/ (mode[u] = "initial" /\ fetched[u] = 0)
  /\ up[u] = <<>>

\* prepare_message finds a session: encrypt with its sending key, and queue the
\* packet for the server. A client that is synchronizing acknowledges the messages it
\* handles, and waits for each answer. It opens no session for that: whoever sent
\* what it has decrypted has one.
Send(u, t, v) ==
  /\ mode[u] = "up" \/ Yields(u)
  /\ task[<<u, t>>].st = "idle"
  /\ sess[<<u, v>>] # Nobody
  /\ msgs < MaxMsgs
  /\ msgs' = msgs + 1
  /\ up' = [up EXCEPT ![u] = Append(@, [kind |-> "msg", from |-> u, to |-> v,
                                        key |-> sess[<<u, v>>].send, id |-> msgs + 1])]
  /\ UNCHANGED <<clientVars, wire, initial, mailbox, lost, opens, stops, interrupted>>

\* prepare_message finds none: ask the server for the peer's prekey bundle.
RequestBundle(u, t, v) ==
  /\ mode[u] = "up"
  /\ task[<<u, t>>].st = "idle"
  /\ sess[<<u, v>>] = Nobody
  /\ task' = [task EXCEPT ![<<u, t>>] = [st |-> "bundle", to |-> v, n |-> 0]]
  /\ UNCHANGED <<mode, sess, keys, seen, fetched, serverVars, lost, interrupted, counters>>

\* The bundle has come: prepare_open_new_session, whether or not a session was
\* created meanwhile, and send the opening as a request.
OpenSession(u, t) ==
  /\ task[<<u, t>>].st = "bundle"
  /\ opens < MaxOpens
  /\ opens' = opens + 1
  /\ LET v == task[<<u, t>>].to IN
       /\ task' = [task EXCEPT ![<<u, t>>] = [st |-> "opening", to |-> v, n |-> opens + 1]]
       /\ up' = [up EXCEPT ![u] = Append(@, [kind |-> "open", from |-> u, to |-> v,
                                             key |-> Key(opens + 1, u, v, "i"), id |-> 0])]
  /\ UNCHANGED <<mode, sess, keys, seen, fetched, wire, initial, mailbox, lost, msgs,
                 stops, interrupted>>

\* Mutant of UpdateSession: the receiving key is not stored.
UpdateSessionOneKey(u, t) ==
  /\ task[<<u, t>>].st = "opened"
  /\ LET v == task[<<u, t>>].to
         i == Key(task[<<u, t>>].n, u, v, "i")
         j == Key(task[<<u, t>>].n, u, v, "j")
     IN /\ keys' = [keys EXCEPT ![<<u, v>>] = @ \cup {i}]
        /\ sess' = [sess EXCEPT ![<<u, v>>] = [send |-> i, recv |-> j]]
  /\ task' = [task EXCEPT ![<<u, t>>] = Idle(u)]
  /\ UNCHANGED <<mode, seen, fetched, serverVars, lost, interrupted, counters>>

\* The server has answered Ok: update_session stores both keys and the session,
\* over the one that may be there.
UpdateSession(u, t) ==
  /\ task[<<u, t>>].st = "opened"
  /\ LET v == task[<<u, t>>].to
         i == Key(task[<<u, t>>].n, u, v, "i")
         j == Key(task[<<u, t>>].n, u, v, "j")
     IN /\ keys' = [keys EXCEPT ![<<u, v>>] = @ \cup {i, j}]
        /\ sess' = [sess EXCEPT ![<<u, v>>] = [send |-> i, recv |-> j]]
  /\ task' = [task EXCEPT ![<<u, t>>] = Idle(u)]
  /\ UNCHANGED <<mode, seen, fetched, serverVars, lost, interrupted, counters>>

-----------------------------------------------------------------------------
(* The server: it relays to a client that is up, stores for one that is    *)
(* not, and answers the opening.                                           *)

Stored(store, kind, p, v) ==
  IF p.kind = kind /\ mode[v] # "up" THEN [store EXCEPT ![v] = Append(@, p)] ELSE store

ServerHandle(u) ==
  /\ up[u] # <<>>
  /\ up' = [up EXCEPT ![u] = Tail(@)]
  /\ LET p == Head(up[u]) IN
       /\ wire' = [w \in Users |->
                     IF w = p.to /\ mode[w] = "up" THEN Append(wire[w], p)
                     ELSE IF w = u /\ p.kind = "open"
                          THEN Append(wire[u], [p EXCEPT !.kind = "ok"])
                          ELSE wire[w]]
       /\ initial' = Stored(initial, "open", p, p.to)
       /\ mailbox' = Stored(mailbox, "msg", p, p.to)
  /\ UNCHANGED <<clientVars, lost, interrupted, counters>>

-----------------------------------------------------------------------------
(* The receive worker.                                                     *)

Receives(u, kind) ==
  /\ mode[u] = "up"
  /\ wire[u] # <<>>
  /\ Head(wire[u]).kind = kind
  /\ wire' = [wire EXCEPT ![u] = Tail(@)]

\* The answer to an opening completes its task's request.
ReceiveOk(u) ==
  /\ Receives(u, "ok")
  /\ task' = [w \in Users \X Tasks |->
                IF w[1] = u /\ task[w].st = "opening" /\ task[w].n = Head(wire[u]).key.n
                THEN [task[w] EXCEPT !.st = "opened"] ELSE task[w]]
  /\ UNCHANGED <<mode, sess, keys, seen, fetched, up, initial, mailbox, lost, interrupted,
                 counters>>

\* Mutant of AcceptSession: the key ids are not inverted, they are used from the
\* sender's point of view.
AcceptSessionNotInverted(u, p) ==
  LET v == p.from
      i == p.key
      j == [p.key EXCEPT !.side = "j"]
  IN /\ keys' = [keys EXCEPT ![<<u, v>>] = @ \cup {i, j}]
     /\ sess' = [sess EXCEPT ![<<u, v>>] = [send |-> i, recv |-> j]]

\* Mutant of AcceptSession: the key the sender encrypts with is not stored.
AcceptSessionOneKey(u, p) ==
  LET v == p.from
      i == p.key
      j == [p.key EXCEPT !.side = "j"]
  IN /\ keys' = [keys EXCEPT ![<<u, v>>] = @ \cup {j}]
     /\ sess' = [sess EXCEPT ![<<u, v>>] = [send |-> j, recv |-> i]]

\* handle_open_session, once the opening is decrypted: both keys are stored, "key
\* ids are inverted since they're from the sender's POV", and the session replaces
\* the one that may be there.
AcceptSession(u, p) ==
  LET v == p.from
      i == p.key
      j == [p.key EXCEPT !.side = "j"]
  IN /\ keys' = [keys EXCEPT ![<<u, v>>] = @ \cup {i, j}]
     /\ sess' = [sess EXCEPT ![<<u, v>>] = [send |-> j, recv |-> i]]

ReceiveOpen(u) ==
  /\ Receives(u, "open")
  /\ AcceptSession(u, Head(wire[u]))
  /\ UNCHANGED <<mode, task, seen, fetched, up, initial, mailbox, lost, interrupted,
                 counters>>

\* decrypt_payload: the session's receiving key, or any key that is stored.
CanDecrypt(u, p) ==
  /\ sess[<<u, p.from>>] # Nobody
  /\ p.key = sess[<<u, p.from>>].recv \/ p.key \in keys[<<u, p.from>>]

\* process_conversation_message. Without a session the message is dropped; without
\* its key it is cached until a key rotation, which does not come.
ReceiveMsg(u) ==
  /\ Receives(u, "msg")
  /\ LET p == Head(wire[u]) IN
       lost' = IF CanDecrypt(u, p) THEN lost ELSE lost \cup {p.id}
  /\ UNCHANGED <<clientVars, up, initial, mailbox, counters, interrupted>>

-----------------------------------------------------------------------------
(* Stopping, starting and synchronizing a client.                          *)

\* The store that a client which synchronizes fetches from.
Source(u) == IF mode[u] = "initial" THEN initial[u]
             ELSE IF mode[u] = "messages" THEN mailbox[u] ELSE <<>>

\* What is left of a store without the messages that the server has deleted.
Unfetched(store, u) == [store EXCEPT ![u] = SubSeq(@, fetched[u] + 1, Len(@))]

\* The client's tasks, caches and queued packets are gone, and so is what it has
\* fetched and not handled, which the server "deletes after sending" it. So stops a
\* client whose connection ends before the answer to a fetch has come.
Stop(u) ==
  /\ mode[u] # "down"
  /\ stops < MaxStops
  /\ stops' = stops + 1
  /\ mode' = [mode EXCEPT ![u] = "down"]
  /\ task' = [w \in Users \X Tasks |-> IF w[1] = u THEN Idle(u) ELSE task[w]]
  /\ seen' = [seen EXCEPT ![u] = {}]
  /\ up' = [up EXCEPT ![u] = <<>>]
  /\ fetched' = [fetched EXCEPT ![u] = 0]
  /\ initial' = IF mode[u] = "initial" THEN Unfetched(initial, u) ELSE initial
  /\ mailbox' = IF mode[u] = "messages" THEN Unfetched(mailbox, u) ELSE mailbox
  /\ lost' = IF mode[u] = "messages"
             THEN lost \cup {mailbox[u][i].id : i \in 1 .. fetched[u]} ELSE lost
  /\ interrupted' = \/ interrupted
                    \/ \E t \in Tasks : task[<<u, t>>].st \in {"opening", "opened"}
                    \/ mode[u] = "initial" /\ fetched[u] # 0
  /\ UNCHANGED <<sess, keys, wire, opens, msgs>>

\* The server puts what it could not relay back into its store, the last first; an
\* answer is dropped.
TakeBack(u) ==
  /\ mode[u] = "down"
  /\ wire[u] # <<>>
  /\ LET p == Last(wire[u]) IN
       /\ initial' = IF p.kind = "open" THEN [initial EXCEPT ![u] = <<p>> \o @] ELSE initial
       /\ mailbox' = IF p.kind = "msg" THEN [mailbox EXCEPT ![u] = <<p>> \o @] ELSE mailbox
  /\ wire' = [wire EXCEPT ![u] = Front(@)]
  /\ UNCHANGED <<clientVars, up, lost, interrupted, counters>>

\* E2EClient::load: the stored sessions, then the first step of the iterator.
Start(u) ==
  /\ mode[u] = "down"
  /\ wire[u] = <<>>
  /\ mode' = [mode EXCEPT ![u] = "initial"]
  /\ UNCHANGED <<sess, keys, task, seen, fetched, serverVars, lost, interrupted, counters>>

\* The iterator has handled the batch it had, and nothing is under way.
Ready(u) == fetched[u] = 0 /\ up[u] = <<>>

\* GetInitialMessages or GetMessages: the server deletes the batch it answers with.
Fetch(u) ==
  /\ Ready(u)
  /\ Source(u) # <<>>
  /\ fetched' = [fetched EXCEPT ![u] = IF Len(Source(u)) < BatchSize
                                       THEN Len(Source(u)) ELSE BatchSize]
  /\ UNCHANGED <<mode, sess, keys, task, seen, serverVars, lost, interrupted, counters>>

\* sync_initial_messages, process_open_conversation: the next opening of the batch.
SyncInitial(u) ==
  /\ mode[u] = "initial"
  /\ fetched[u] # 0
  /\ AcceptSession(u, Head(initial[u]))
  /\ initial' = [initial EXCEPT ![u] = Tail(@)]
  /\ fetched' = [fetched EXCEPT ![u] = @ - 1]
  /\ UNCHANGED <<mode, task, seen, up, wire, mailbox, lost, interrupted, counters>>

\* The list of initial messages is empty: on to the conversation messages, and
\* never back.
SyncInitialDone(u) ==
  /\ mode[u] = "initial"
  /\ Ready(u)
  /\ initial[u] = <<>>
  /\ mode' = [mode EXCEPT ![u] = "messages"]
  /\ UNCHANGED <<sess, keys, task, seen, fetched, serverVars, lost, interrupted, counters>>

\* sync_conversation_messages, process_conversation_message, for the next message of
\* the batch, and what SyncIterator::next returns of it: the only key of a session
\* that is tried is its receiving key.
SyncMsg(u) ==
  /\ mode[u] = "messages"
  /\ fetched[u] # 0
  /\ up[u] = <<>>
  /\ LET p == Head(mailbox[u]) IN
       IF sess[<<u, p.from>>] = Nobody
       THEN lost' = lost \cup {p.id} /\ UNCHANGED seen
       ELSE /\ seen' = [seen EXCEPT ![u] = @ \cup {p.from}]
            /\ lost' = IF p.key = sess[<<u, p.from>>].recv THEN lost ELSE lost \cup {p.id}
  /\ mailbox' = [mailbox EXCEPT ![u] = Tail(@)]
  /\ fetched' = [fetched EXCEPT ![u] = @ - 1]
  /\ UNCHANGED <<mode, sess, keys, task, up, wire, initial, counters, interrupted>>

\* Mutant of CurrentKeys: the receiving key is not spared.
CurrentKeysSendOnly(s) == {s.send}

\* What cleanup_session_keys leaves.
CurrentKeys(s) == {s.send, s.recv}

\* No messages are left: clean_session_keys for the users met, then the async mode.
\* EnableInstantRelay makes the server relay what it still stores.
SyncDone(u) ==
  /\ mode[u] = "messages"
  /\ Ready(u)
  /\ mailbox[u] = <<>>
  /\ keys' = [q \in Pairs |-> IF q[1] = u /\ q[2] \in seen[u]
                              THEN keys[q] \cap CurrentKeys(sess[q]) ELSE keys[q]]
  /\ seen' = [seen EXCEPT ![u] = {}]
  /\ mode' = [mode EXCEPT ![u] = "up"]
  /\ wire' = [wire EXCEPT ![u] = @ \o initial[u]]
  /\ initial' = [initial EXCEPT ![u] = <<>>]
  /\ UNCHANGED <<sess, task, fetched, up, mailbox, lost, interrupted, counters>>

-----------------------------------------------------------------------------

Next ==
  \E u \in Users :
    \/ \E t \in Tasks :
         \/ \E v \in Peers(u) : Send(u, t, v) \/ RequestBundle(u, t, v)
         \/ OpenSession(u, t) \/ UpdateSession(u, t)
    \/ ServerHandle(u)
    \/ ReceiveOk(u) \/ ReceiveOpen(u) \/ ReceiveMsg(u)
    \/ Stop(u) \/ TakeBack(u) \/ Start(u)
    \/ Fetch(u) \/ SyncInitial(u) \/ SyncInitialDone(u) \/ SyncMsg(u) \/ SyncDone(u)

Spec == Init /\ [][Next]_vars

-----------------------------------------------------------------------------
(* Properties.                                                             *)

\* The two directions of a conversation never share a key, whatever openings
\* cross or repeat: what one user encrypts with, the other never encrypts with
\* ("key ids are inverted since they're from the sender's POV").
DirectionsDisjoint ==
  \A q \in Pairs :
    LET back == sess[<<q[2], q[1]>>]
    IN (sess[q] # Nobody /\ back # Nobody) => sess[q].send # back.send

\* A session's keys are stored: the storage declares them as foreign keys of the
\* session, and cleanup_session_keys must not break that.
SessionKeysKept ==
  \A q \in Pairs : sess[q] # Nobody => {sess[q].send, sess[q].recv} \subseteq keys[q]

\* An opening of v by u with key k that v has not handled yet.
OpeningComing(u, v, k) ==
  \E p \in Range(up[u]) \cup Range(wire[v]) \cup Range(initial[v]) :
    p.kind = "open" /\ p.from = u /\ p.to = v /\ p.key = k

\* A task of u has sent the opening to v whose second key is k.
OpeningPending(u, v, k) ==
  \E t \in Tasks : /\ task[<<u, t>>].st \in {"opening", "opened"}
                   /\ task[<<u, t>>].to = v
                   /\ Key(task[<<u, t>>].n, u, v, "j") = k

\* What the two guarantees below need. No client stopped between the dispatch of an
\* opening and update_session. None stopped, or lost its connection, with openings
\* that it had fetched and not handled: the server has deleted them, and what their
\* senders encrypt is noise for it from then on (the warning of SyncIterator). And no
\* synchronization cleaned up after openings that crossed or were repeated. Without
\* any of the three they fail.
Calm == ~interrupted /\ (opens <= 1 \/ stops = 0)

\* The key a user encrypts with is one that the peer has, or will have once it has
\* handled an opening that is on its way or has finished its own: no session turns
\* a client's messages into noise for the other side.
KeyReachesPeer ==
  Calm =>
    \A q \in Pairs :
      LET u == q[1]
          v == q[2]
          k == sess[q].send
      IN sess[q] # Nobody => \/ k \in keys[<<v, u>>]
                             \/ OpeningComing(u, v, k)
                             \/ OpeningPending(v, u, k)

\* A task of u has had the answer to its opening and is about to save the session
\* that p is encrypted for (send, before update_session).
AnsweredNotSaved(u, p) ==
  \E t \in Tasks : /\ task[<<u, t>>].st = "opened"
                   /\ p.key = Key(task[<<u, t>>].n, u, task[<<u, t>>].to, "j")

\* The server stored the opening of p's session after the initial messages were
\* fetched (sync_initial_messages).
OpenedTooLate(u, p) ==
  \E o \in Range(initial[u]) : o.from = p.from /\ o.key = p.key

\* A client that fetches conversation messages stops with some that it has not
\* handled, which the server has deleted.
DropsBatch(u) == mode[u] = "messages" /\ fetched[u] # 0 /\ mode'[u] = "down"

\* Messages are lost in two races, a client that is up receives the peer's first
\* message before the session is saved, or a client that synchronizes gets it before
\* the opening, and with a batch that the server deleted and the client did not
\* handle. They are lost in no other way.
LostOnlyInRace ==
  [][(Calm /\ lost' # lost) =>
       \E u \in Users :
         \/ wire'[u] # wire[u] /\ AnsweredNotSaved(u, Head(wire[u]))
         \/ mailbox'[u] # mailbox[u] /\ OpenedTooLate(u, Head(mailbox[u]))
         \/ DropsBatch(u)]_vars

\* "Cache for undecipherable payloads, to handle out-of-order messages during key
\* rotation or session creation" (ReceiveWorker): no message is lost.
NothingLost == lost = {}
=============================================================================
