---------------------------- MODULE Conversations ----------------------------
(***************************************************************************)
(* Who is in a conversation: each member keeps its own list, and learns of *)
(* the conversation and of its new members by messages that the creator or *)
(* a member dispatches one recipient at a time. One conversation, the      *)
(* chat clients of several users, and the messages sent in it.             *)
(*                                                                         *)
(* The end-to-end layer is a FIFO channel from each user to each other     *)
(* (Sessions says when that holds). A user may be gone from the server:    *)
(* a message to it cannot be sent and its profile is not found.            *)
(***************************************************************************)
EXTENDS Naturals, Sequences, SequencesExt, FiniteSets

CONSTANTS
  Users,
  Gone,         \* users that the server does not know any more
  NoConv,       \* the conversation is not in the storage
  MaxMsgs,      \* bound: messages sent in the conversation
  MaxAdds,      \* bound: members added
  MaxFails,     \* bound: sends that fail
  MaxDeletes    \* bound: times a user deletes the conversation

ASSUME ConversationsAssumption ==
  /\ Gone \subseteq Users /\ IsFiniteSet(Users) /\ \A P \in SUBSET Users : NoConv # P
  /\ MaxMsgs \in Nat /\ MaxAdds \in Nat /\ MaxFails \in Nat /\ MaxDeletes \in Nat

VARIABLES
  conv,      \* conversation_participants of a user, or NoConv
  known,     \* the table of peers of a user
  task,      \* what a user's operation has still to do
  net,       \* messages from one user to another
  dead,      \* users whose chat receive_loop has stopped
  got,       \* messages saved by a user
  ignored,   \* <<user, message>>: received and not saved
  created,   \* whether the conversation was created
  calm,      \* no operation broke off, none overlapped another, nothing was deleted
  msgs, adds, fails, deletes   \* counters behind the bounds

counters == <<msgs, adds, fails, deletes>>
vars == <<conv, known, task, net, dead, got, ignored, created, calm, counters>>

Alive == Users \ Gone
Pairs == {q \in Alive \X Alive : q[1] # q[2]}

\* kind: OpenConv, AddPeerToConv or a ContentMessage; id 0: without a message.
Message == [kind : {"open", "add", "data"}, peers : SUBSET Users, peer : Users,
            id : 0 .. MaxMsgs]
Task == [kind : {"idle", "create", "invite", "add", "send"}, todo : SUBSET Users,
         members : SUBSET Users, msg : Message]
Idle(u) == [kind |-> "idle", todo |-> {}, members |-> {},
            msg |-> [kind |-> "data", peers |-> {}, peer |-> u, id |-> 0]]

TypeOK ==
  /\ conv \in [Alive -> {NoConv} \cup SUBSET Users]
  /\ known \in [Alive -> SUBSET Users]
  /\ task \in [Alive -> Task]
  /\ net \in [Pairs -> Seq(Message)]
  /\ dead \subseteq Alive
  /\ got \in [Alive -> SUBSET (1 .. MaxMsgs)]
  /\ ignored \subseteq Alive \X (1 .. MaxMsgs)
  /\ created \in BOOLEAN /\ calm \in BOOLEAN
  \* The foreign key of conversation_participants.
  /\ \A u \in Alive : conv[u] # NoConv => conv[u] \subseteq known[u] \ {u}

Init ==
  /\ conv = [u \in Alive |-> NoConv]
  /\ known = [u \in Alive |-> {}]
  /\ task = [u \in Alive |-> Idle(u)]
  /\ net = [q \in Pairs |-> <<>>]
  /\ dead = {}
  /\ got = [u \in Alive |-> {}] /\ ignored = {}
  /\ created = FALSE /\ calm = TRUE
  /\ msgs = 0 /\ adds = 0 /\ fails = 0 /\ deletes = 0

-----------------------------------------------------------------------------
(* ChatClientHandle: what the user asks for. Each operation sends to one   *)
(* peer after the other, and the receive loop runs in between.             *)

Exists(u) == conv[u] # NoConv

\* Nothing of an earlier operation on the members is on its way.
Settled ==
  /\ \A u \in Alive : task[u].kind \notin {"create", "invite", "add"}
  /\ \A q \in Pairs : \A m \in Range(net[q]) : m.kind = "data"

\* new_open_conv for one peer, new_open_group_conv for several: the recipient is
\* itself in the list, the sender is not.
OpenConv(u, P, n) ==
  [kind |-> "open", peers |-> IF Cardinality(P) = 1 THEN {} ELSE P, peer |-> u, id |-> n]

\* create_conversation, until the first send. first: with an initial message.
CreateConversation(u, P, first) ==
  /\ ~created /\ P # {} /\ (first => msgs < MaxMsgs)
  /\ created' = TRUE
  /\ msgs' = IF first THEN msgs + 1 ELSE msgs
  /\ task' = [task EXCEPT ![u] = [kind |-> "create", todo |-> P, members |-> P,
                msg |-> OpenConv(u, P, IF first THEN msgs' ELSE 0)]]
  /\ UNCHANGED <<conv, known, net, dead, got, ignored, calm, adds, fails, deletes>>

\* send_message: the message is saved, then dispatched to the peers the storage has.
SendMessage(u) ==
  /\ task[u].kind = "idle" /\ Exists(u) /\ msgs < MaxMsgs
  /\ msgs' = msgs + 1
  /\ got' = [got EXCEPT ![u] = @ \cup {msgs'}]
  /\ task' = [task EXCEPT ![u] = [kind |-> "send", todo |-> conv[u], members |-> {},
                msg |-> [kind |-> "data", peers |-> {}, peer |-> u, id |-> msgs']]]
  /\ UNCHANGED <<conv, known, net, dead, ignored, created, calm, adds, fails, deletes>>

\* add_peer_to_conversation: the new peer gets the list of the others first.
InvitePeer(u, v) ==
  /\ task[u].kind = "idle" /\ Exists(u) /\ adds < MaxAdds
  /\ v \notin conv[u] \cup {u}
  /\ adds' = adds + 1
  /\ calm' = (calm /\ Settled)
  /\ task' = [task EXCEPT ![u] = [kind |-> "invite", todo |-> {v}, members |-> {},
                msg |-> [kind |-> "open", peers |-> conv[u], peer |-> v, id |-> 0]]]
  /\ UNCHANGED <<conv, known, net, dead, got, ignored, created, msgs, fails, deletes>>

\* ClientHandle::send to one peer. The first message to a peer saves it in the table.
SendOne(u, v) ==
  /\ v \in task[u].todo /\ v \notin Gone
  /\ net' = [net EXCEPT ![<<u, v>>] = Append(@, task[u].msg)]
  /\ known' = [known EXCEPT ![u] = @ \cup {v}]
  /\ task' = [task EXCEPT ![u].todo = @ \ {v}]
  /\ UNCHANGED <<conv, dead, got, ignored, created, calm, counters>>

\* A send fails, always to a user that is gone: the operation returns its error and
\* leaves the rest, with what was sent and saved before.
SendFails(u, v) ==
  /\ v \in task[u].todo
  /\ \/ v \in Gone /\ UNCHANGED fails
     \/ v \notin Gone /\ fails < MaxFails /\ fails' = fails + 1
  /\ task' = [task EXCEPT ![u] = Idle(u)]
  /\ calm' = FALSE
  /\ UNCHANGED <<conv, known, net, dead, got, ignored, created, msgs, adds, deletes>>

\* ConversationStore::create_conversation, then the message that came with it.
SaveConversation(u, peers, id) ==
  /\ conv' = [conv EXCEPT ![u] = peers]
  /\ got' = [got EXCEPT ![u] = @ \cup ({id} \ {0})]

Finishes(u, kind) == task[u].kind = kind /\ task[u].todo = {}

\* Every peer has the OpenConv: the conversation and its first message are saved.
FinishCreate(u) ==
  /\ Finishes(u, "create")
  /\ SaveConversation(u, task[u].members, task[u].msg.id)
  /\ task' = [task EXCEPT ![u] = Idle(u)]
  /\ UNCHANGED <<known, net, dead, ignored, created, calm, counters>>

\* Mutant of TellMembers: the members are not told.
XTellMembers(u) ==
  /\ task[u].kind = "invite" /\ task[u].msg.kind = "open"
  /\ task' = [task EXCEPT ![u] = [kind |-> "add", todo |-> {}, members |-> {},
                msg |-> [kind |-> "add", peers |-> {}, peer |-> task[u].msg.peer, id |-> 0]]]
  /\ UNCHANGED <<conv, known, net, dead, got, ignored, created, calm, counters>>

\* The new peer has the OpenConv: dispatch_in_conversation reads the peers again and
\* tells them.
TellMembers(u) ==
  /\ Finishes(u, "invite")
  /\ task' = [task EXCEPT ![u] =
       IF Exists(u)
       THEN [kind |-> "add", todo |-> conv[u], members |-> {},
             msg |-> [kind |-> "add", peers |-> {}, peer |-> task[u].msg.peer, id |-> 0]]
       ELSE Idle(u)]
  /\ calm' = (calm /\ Exists(u))
  /\ UNCHANGED <<conv, known, net, dead, got, ignored, created, counters>>

\* Every member was told: the new peer is added. In a conversation that was deleted
\* meanwhile the insertion fails.
FinishAdd(u) ==
  /\ Finishes(u, "add")
  /\ conv' = [conv EXCEPT ![u] = IF Exists(u) THEN @ \cup {task[u].msg.peer} ELSE @]
  /\ task' = [task EXCEPT ![u] = Idle(u)]
  /\ UNCHANGED <<known, net, dead, got, ignored, created, calm, counters>>

FinishSend(u) ==
  /\ Finishes(u, "send")
  /\ task' = [task EXCEPT ![u] = Idle(u)]
  /\ UNCHANGED <<conv, known, net, dead, got, ignored, created, calm, counters>>

\* delete_conversation: the participants and the messages go with it, and nobody is
\* told.
DeleteConversation(u) ==
  /\ Exists(u) /\ deletes < MaxDeletes
  /\ deletes' = deletes + 1
  /\ conv' = [conv EXCEPT ![u] = NoConv]
  /\ got' = [got EXCEPT ![u] = {}]
  /\ calm' = FALSE
  /\ UNCHANGED <<known, task, net, dead, ignored, created, msgs, adds, fails>>

-----------------------------------------------------------------------------
(* The chat receive loop: handle_incomming_message.                        *)

Receives(u, v, kind) ==
  /\ u \notin dead
  /\ net[<<v, u>>] # <<>> /\ Head(net[<<v, u>>]).kind = kind
  /\ net' = [net EXCEPT ![<<v, u>>] = Tail(@)]

\* A message that carries a content message and is not handled.
Ignores(u, m) == ignored' = IF m.id = 0 THEN ignored ELSE ignored \cup {<<u, m.id>>}

\* Mutant of Resolved: a peer that is not found is saved without a name.
XResolved(u, P) == known[u] \cup P

\* get_profile_by_id saves the peers that the server knows.
Resolved(u, P) == known[u] \cup (P \ Gone)

\* Mutant of OtherPeers: the sender is not added.
XOtherPeers(u, v, m) == IF m.peers = {} THEN {v} ELSE m.peers \ {u}

\* "remove ourself from the other peers", "add the sender if he's not in the peers".
OtherPeers(u, v, m) == (m.peers \ {u}) \cup {v}

\* handle_new_conversation: the peers are resolved and the conversation is created
\* with the initial message. A peer that could not be resolved is not in the table of
\* peers: the insertion fails and the receive loop stops.
OpensConversation(u, v, m) ==
  LET peers == OtherPeers(u, v, m) IN
  /\ known' = [known EXCEPT ![u] = Resolved(u, peers)]
  /\ IF peers \subseteq known'[u]
     THEN /\ SaveConversation(u, peers, m.id)
          /\ UNCHANGED <<dead, ignored, calm>>
     ELSE /\ dead' = dead \cup {u} /\ calm' = FALSE
          /\ Ignores(u, m)
          /\ UNCHANGED <<conv, got>>

\* "discarding OpenConv message in existing conversation", whoever sends it.
ReceiveOpen(u, v) ==
  /\ Receives(u, v, "open")
  /\ LET m == Head(net[<<v, u>>]) IN
       IF Exists(u)
       THEN Ignores(u, m) /\ UNCHANGED <<conv, known, dead, got, calm>>
       ELSE OpensConversation(u, v, m)
  /\ UNCHANGED <<task, created, counters>>

\* conversation_exists and conversation_has_peer.
HasPeer(u, v) == conv[u] # NoConv /\ v \in conv[u]

\* A content message of a member is saved; another is ignored.
ReceiveData(u, v) ==
  /\ Receives(u, v, "data")
  /\ LET m == Head(net[<<v, u>>]) IN
       IF HasPeer(u, v)
       THEN got' = [got EXCEPT ![u] = @ \cup {m.id}] /\ UNCHANGED ignored
       ELSE Ignores(u, m) /\ UNCHANGED got
  /\ UNCHANGED <<conv, known, task, dead, created, calm, counters>>

\* Mutant of AddsPeer: the new peer is looked up and not added.
XAddsPeer(u, p) ==
  /\ known' = [known EXCEPT ![u] = Resolved(u, {p})]
  /\ UNCHANGED <<conv, dead, calm>>

\* AddPeerToConv: the profile is looked up, and the peer is added when it is in the
\* table of peers; when the server did not know it the insertion fails and the
\* receive loop stops.
AddsPeer(u, p) ==
  /\ known' = [known EXCEPT ![u] = Resolved(u, {p})]
  /\ IF p \in known'[u]
     THEN conv' = [conv EXCEPT ![u] = @ \cup {p}] /\ UNCHANGED <<dead, calm>>
     ELSE dead' = dead \cup {u} /\ calm' = FALSE /\ UNCHANGED conv

\* AddPeerToConv of a member, with another peer than the user itself.
ReceiveAdd(u, v) ==
  /\ Receives(u, v, "add")
  /\ LET p == Head(net[<<v, u>>]).peer IN
       IF HasPeer(u, v) /\ p # u
       THEN AddsPeer(u, p)
       ELSE UNCHANGED <<conv, known, dead, calm>>
  /\ UNCHANGED <<task, got, ignored, created, counters>>

-----------------------------------------------------------------------------

Operation(u) ==
  \/ \E v \in Users : SendOne(u, v) \/ SendFails(u, v)
  \/ FinishCreate(u) \/ TellMembers(u) \/ FinishAdd(u) \/ FinishSend(u)

Receive(u) == \E v \in Alive \ {u} : ReceiveOpen(u, v) \/ ReceiveData(u, v) \/ ReceiveAdd(u, v)

Next ==
  \E u \in Alive :
    \/ \E P \in SUBSET (Users \ {u}) : \E first \in BOOLEAN : CreateConversation(u, P, first)
    \/ \E v \in Users : InvitePeer(u, v)
    \/ SendMessage(u) \/ DeleteConversation(u)
    \/ Operation(u) \/ Receive(u)

\* An operation that has started goes on, and the receive loops run: while one of them can,
\* one of them does.
Spec == Init /\ [][Next]_vars /\ WF_vars(\E u \in Alive : Operation(u) \/ Receive(u))

-----------------------------------------------------------------------------
(* Properties.                                                             *)

Quiet == Settled /\ (\A q \in Pairs : net[q] = <<>>) /\ (\A u \in Alive : task[u].kind = "idle")

\* When everything has arrived, and no operation broke off or overlapped another, all
\* the members have the same list, each without itself: neither the creation nor an
\* addition leaves out who sends the message or who receives it.
MembersAgree ==
  (Quiet /\ calm) =>
    \A u \in Alive : Exists(u) =>
      /\ u \notin conv[u]
      /\ \A v \in conv[u] : Exists(v) /\ conv[v] \cup {v} = conv[u] \cup {u}

\* A user that the server does not know is never in a conversation, however it was
\* created or extended, and whatever the recipients were told.
MembersExist == TypeOK /\ \A u \in Alive : Exists(u) => conv[u] \cap Gone = {}

\* u creates the conversation and has not saved it, or its OpenConv is to come.
OpenPending(u) ==
  ~Exists(u) /\ \/ task[u].kind = "create"
                \/ \E w \in Alive \ {u} :
                     \/ u \in task[w].todo /\ task[w].msg.kind = "open"
                     \/ \E m \in Range(net[<<w, u>>]) : m.kind = "open"

\* u has still to learn that v is a member.
JoinPending(u, v) ==
  \/ \E w \in Alive \ {u} : \E m \in Range(net[<<w, u>>]) : m.kind = "add" /\ m.peer = v
  \/ \E w \in Alive : task[w].kind \in {"invite", "add"} /\ task[w].msg.peer = v

\* A message is ignored in two races only: its sender got the OpenConv before the
\* creator has saved the conversation or the recipient has heard of it, or its sender
\* was invited and the recipient was not told yet. (Or an operation broke off or
\* overlapped another.)
IgnoredOnlyInRace ==
  [][\A u \in Alive : \A n \in 1 .. MaxMsgs :
       (<<u, n>> \in ignored' \ ignored /\ calm') =>
         \/ OpenPending(u)
         \/ \E v \in Alive \ {u} : net'[<<v, u>>] # net[<<v, u>>] /\ JoinPending(u, v)]_vars

\* A peer that is invited ends up with the conversation, and every member with the
\* peer in its list, unless an operation broke off or overlapped another.
InvitationsReachAll ==
  \A v \in Alive :
    (\E u \in Alive : task[u].kind = "invite" /\ task[u].msg.peer = v)
      ~> (calm => Exists(v) /\ \A w \in Alive \ {v} : Exists(w) => v \in conv[w])
=============================================================================
