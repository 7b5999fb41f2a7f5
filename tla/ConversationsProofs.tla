------------------------ MODULE ConversationsProofs ------------------------
(***************************************************************************)
(* Proofs about Conversations, for every set of users and every bound.     *)
(* From a first inductive invariant, IInv: type correctness, the foreign   *)
(* key of the members, and that no user the server does not know is ever a *)
(* member. From a second one, CalmInv, which says what each member has and *)
(* is still to be told: the members agree, and a message is ignored in two *)
(* races only.                                                             *)
(***************************************************************************)
EXTENDS Conversations, FiniteSetTheorems, TLAPS

\* A content message has an id.
Sendable == {m \in Message : m.kind = "data" => m.id # 0}

\* The table of peers has users of the server only: get_profile_by_id and the sends
\* save those that the server knows.
PeersExist == \A u \in Alive : known[u] \cap Gone = {}

\* What an operation of u has still to save will be in the table of peers by then:
\* each peer was saved when a message was sent to it, and none is u itself.
TaskInv(u) ==
  LET w == task[u] IN
    /\ w.todo # {} => w.msg \in Sendable
    /\ w.kind = "create" => u \notin w.members /\ w.members \ w.todo \subseteq known[u]
    /\ w.kind = "invite" => w.msg.peer # u /\ w.msg.peer \in w.todo \cup known[u]
    /\ w.kind = "add" => w.msg.peer # u /\ w.msg.peer \in known[u]

IInv ==
  /\ TypeOK
  /\ msgs \in 0 .. MaxMsgs
  /\ net \in [Pairs -> Seq(Sendable)]
  /\ PeersExist
  /\ \A u \in Alive : TaskInv(u)

-----------------------------------------------------------------------------
(* The table of peers and the channels.                                    *)

\* Before the creation nobody knows anybody.
LEMMA InitInv == Init => IInv
<1> SUFFICES ASSUME Init PROVE IInv
  OBVIOUS
<1>1. TypeOK
  <2>1. \A u \in Alive : Idle(u) \in Task
    BY ConversationsAssumption DEF Idle, Task, Message, Alive
  <2>2. task \in [Alive -> Task]
    BY <2>1 DEF Init
  <2>3. /\ conv \in [Alive -> {NoConv} \cup SUBSET Users]
        /\ known \in [Alive -> SUBSET Users]
        /\ net \in [Pairs -> Seq(Message)]
        /\ dead \subseteq Alive
        /\ got \in [Alive -> SUBSET (1 .. MaxMsgs)]
        /\ ignored \subseteq Alive \X (1 .. MaxMsgs)
        /\ \A u \in Alive : conv[u] = NoConv
    BY DEF Init
  <2>4. created \in BOOLEAN /\ calm \in BOOLEAN
    BY Zenon DEF Init
  <2> QED BY <2>2, <2>3, <2>4 DEF TypeOK
<1>2. msgs \in 0 .. MaxMsgs
  BY ConversationsAssumption DEF Init
<1>3. net \in [Pairs -> Seq(Sendable)]
  BY DEF Init
<1>4. PeersExist
  BY DEF Init, PeersExist
<1>5. \A u \in Alive : TaskInv(u)
  BY DEF Init, TaskInv, Idle
<1> QED BY <1>1, <1>2, <1>3, <1>4, <1>5 DEF IInv

\* A user that learns of more peers has still those its operation will save.
LEMMA PeersGrow ==
  ASSUME IInv, NEW u \in Alive, NEW S, S \subseteq Users, S \cap Gone = {},
         known' = [known EXCEPT ![u] = @ \cup S]
  PROVE  /\ known' \in [Alive -> SUBSET Users]
         /\ PeersExist'
         /\ \A q \in Alive : known[q] \subseteq known'[q]
         /\ known'[u] = known[u] \cup S
  BY DEF IInv, TypeOK, PeersExist

\* A step that leaves the operations alone keeps what is said of them.
LEMMA TasksKept ==
  ASSUME \A q \in Alive : TaskInv(q), UNCHANGED task,
         \A q \in Alive : known[q] \subseteq known'[q]
  PROVE  \A q \in Alive : TaskInv(q)'
  BY DEF TaskInv

\* A message that is taken from a channel is one that could be sent, and the rest of
\* the channel too.
LEMMA Received ==
  ASSUME IInv, NEW u \in Alive, NEW v \in Alive \ {u}, NEW kind, Receives(u, v, kind)
  PROVE  /\ Head(net[<<v, u>>]) \in Sendable
         /\ Head(net[<<v, u>>]).kind = kind
         /\ net' \in [Pairs -> Seq(Sendable)]
         /\ net' \in [Pairs -> Seq(Message)]
<1>1. <<v, u>> \in Pairs
  BY DEF Pairs
<1>2. /\ net[<<v, u>>] \in Seq(Sendable) /\ net[<<v, u>>] \in Seq(Message)
      /\ net[<<v, u>>] # <<>> /\ net' = [net EXCEPT ![<<v, u>>] = Tail(@)]
      /\ Head(net[<<v, u>>]).kind = kind
  <2> HIDE DEF Pairs
  <2> QED BY <1>1 DEF Receives, IInv, TypeOK
<1>3. /\ Head(net[<<v, u>>]) \in Sendable /\ Tail(net[<<v, u>>]) \in Seq(Sendable)
      /\ Tail(net[<<v, u>>]) \in Seq(Message)
  BY <1>2
<1> QED BY <1>2, <1>3 DEF IInv, TypeOK

-----------------------------------------------------------------------------
(* What the user asks for.                                                 *)

\* An operation of u that is replaced by another, w, whose peers are in the table.
LEMMA Replaced ==
  ASSUME IInv, NEW u \in Alive, NEW w \in Task,
         task' = [task EXCEPT ![u] = w],
         UNCHANGED known,
         w.todo # {} => w.msg \in Sendable,
         w.kind = "create" => u \notin w.members /\ w.members \ w.todo \subseteq known[u],
         w.kind = "invite" => w.msg.peer # u /\ w.msg.peer \in w.todo \cup known[u],
         w.kind = "add" => w.msg.peer # u /\ w.msg.peer \in known[u]
  PROVE  task' \in [Alive -> Task] /\ \A q \in Alive : TaskInv(q)'
<1>1. task' \in [Alive -> Task] /\ task'[u] = w /\ \A q \in Alive \ {u} : task'[q] = task[q]
  BY DEF IInv, TypeOK
<1>2. TaskInv(u)'
  BY <1>1 DEF TaskInv
<1>3. \A q \in Alive \ {u} : TaskInv(q)'
  BY <1>1 DEF IInv, TaskInv
<1> QED BY <1>1, <1>2, <1>3

\* The operation that is over.
LEMMA Ended ==
  ASSUME IInv, NEW u \in Alive, task' = [task EXCEPT ![u] = Idle(u)], UNCHANGED known
  PROVE  task' \in [Alive -> Task] /\ \A q \in Alive : TaskInv(q)'
<1>1. Idle(u) \in Task /\ Idle(u).kind = "idle" /\ Idle(u).todo = {}
  BY ConversationsAssumption DEF Idle, Task, Message, Alive
<1> HIDE DEF Idle
<1> QED BY <1>1, Replaced

LEMMA AskedKeepsInv ==
  ASSUME IInv, NEW u \in Alive,
         \/ \E P \in SUBSET (Users \ {u}) : \E first \in BOOLEAN : CreateConversation(u, P, first)
         \/ \E v \in Users : InvitePeer(u, v)
         \/ SendMessage(u) \/ DeleteConversation(u)
  PROVE  IInv'
<1> USE ConversationsAssumption
<1>1. ASSUME NEW P \in SUBSET (Users \ {u}), NEW first \in BOOLEAN, CreateConversation(u, P, first)
      PROVE  IInv'
  <2> DEFINE n == IF first THEN msgs' ELSE 0
             w == [kind |-> "create", todo |-> P, members |-> P, msg |-> OpenConv(u, P, n)]
  <2>1. msgs' \in 0 .. MaxMsgs /\ n \in 0 .. MaxMsgs
    BY <1>1 DEF CreateConversation, IInv
  <2>2. /\ OpenConv(u, P, n) \in Message /\ OpenConv(u, P, n).kind = "open"
    <3> HIDE DEF n
    <3> QED BY <2>1 DEF OpenConv, Message, Alive
  <2>3. w \in Task /\ w.msg \in Sendable /\ w.kind = "create" /\ u \notin w.members
        /\ w.members \ w.todo = {}
    <3> HIDE DEF n, OpenConv
    <3> QED BY <2>2 DEF Task, Sendable
  <2>4. task' = [task EXCEPT ![u] = w] /\ UNCHANGED <<conv, known, net, dead, got, ignored, calm>>
    BY <1>1 DEF CreateConversation
  <2> HIDE DEF w
  <2>5. task' \in [Alive -> Task] /\ \A q \in Alive : TaskInv(q)'
    BY <2>3, <2>4, Replaced
  <2>6. created' \in BOOLEAN
    BY <1>1, Zenon DEF CreateConversation
  <2>7. TypeOK'
    BY <2>4, <2>5, <2>6 DEF IInv, TypeOK
  <2> QED BY <2>1, <2>4, <2>5, <2>7 DEF IInv, PeersExist
<1>2. ASSUME NEW v \in Users, InvitePeer(u, v) PROVE IInv'
  <2> DEFINE m == [kind |-> "open", peers |-> conv[u], peer |-> v, id |-> 0]
             w == [kind |-> "invite", todo |-> {v}, members |-> {}, msg |-> m]
  <2>1. conv[u] \in SUBSET Users /\ v # u
    BY <1>2 DEF InvitePeer, Exists, IInv, TypeOK
  <2>2. m \in Message /\ m.kind = "open" /\ m.peer = v
    BY <2>1 DEF Message
  <2>3. w \in Task /\ w.kind = "invite" /\ w.msg \in Sendable /\ w.msg.peer # u
        /\ w.msg.peer \in w.todo
    <3> HIDE DEF m
    <3> QED BY <2>1, <2>2 DEF Task, Sendable
  <2>4. /\ task' = [task EXCEPT ![u] = w]
        /\ UNCHANGED <<conv, known, net, dead, got, ignored, created, msgs>>
    BY <1>2 DEF InvitePeer
  <2> HIDE DEF w
  <2>5. task' \in [Alive -> Task] /\ \A q \in Alive : TaskInv(q)'
    BY <2>3, <2>4, Replaced
  <2>6. calm' \in BOOLEAN
    BY <1>2, Zenon DEF InvitePeer
  <2>7. TypeOK'
    BY <2>4, <2>5, <2>6 DEF IInv, TypeOK
  <2> QED BY <2>4, <2>5, <2>7 DEF IInv, PeersExist
<1>3. CASE SendMessage(u)
  <2> DEFINE m == [kind |-> "data", peers |-> {}, peer |-> u, id |-> msgs']
             w == [kind |-> "send", todo |-> conv[u], members |-> {}, msg |-> m]
  <2>1. conv[u] \in SUBSET Users /\ msgs' \in 0 .. MaxMsgs /\ msgs' # 0 /\ msgs' \in 1 .. MaxMsgs
    BY <1>3 DEF SendMessage, Exists, IInv, TypeOK
  <2>2. m \in Sendable
    BY <2>1 DEF Sendable, Message, Alive
  <2>3. w \in Task /\ w.kind = "send" /\ w.msg \in Sendable
    <3> HIDE DEF m
    <3> QED BY <2>1, <2>2 DEF Task, Sendable
  <2>4. /\ task' = [task EXCEPT ![u] = w]
        /\ got' = [got EXCEPT ![u] = @ \cup {msgs'}]
        /\ UNCHANGED <<conv, known, net, dead, ignored, created, calm>>
    BY <1>3 DEF SendMessage
  <2> HIDE DEF w
  <2>5. task' \in [Alive -> Task] /\ \A q \in Alive : TaskInv(q)'
    BY <2>3, <2>4, Replaced
  <2>6. got' \in [Alive -> SUBSET (1 .. MaxMsgs)]
    BY <2>1, <2>4 DEF IInv, TypeOK
  <2>7. TypeOK'
    BY <2>4, <2>5, <2>6 DEF IInv, TypeOK
  <2> QED BY <2>1, <2>4, <2>5, <2>7 DEF IInv, PeersExist
<1>4. CASE DeleteConversation(u)
  <2>1. UNCHANGED <<known, task, net, dead, ignored, created, msgs>>
    BY <1>4 DEF DeleteConversation
  <2>2. /\ conv' \in [Alive -> {NoConv} \cup SUBSET Users]
        /\ \A q \in Alive : conv'[q] # NoConv => conv'[q] = conv[q] /\ conv[q] # NoConv
        /\ got' \in [Alive -> SUBSET (1 .. MaxMsgs)]
    BY <1>4 DEF DeleteConversation, IInv, TypeOK
  <2>3. calm' \in BOOLEAN
    BY <1>4, Zenon DEF DeleteConversation
  <2>4. TypeOK'
    BY <2>1, <2>2, <2>3 DEF IInv, TypeOK
  <2>5. \A q \in Alive : TaskInv(q)'
    BY <2>1, TasksKept DEF IInv
  <2> QED BY <2>1, <2>4, <2>5 DEF IInv, PeersExist
<1> QED BY <1>1, <1>2, <1>3, <1>4

-----------------------------------------------------------------------------
(* The steps of an operation.                                              *)

LEMMA OperationKeepsInv ==
  ASSUME IInv, NEW u \in Alive, Operation(u)
  PROVE  IInv'
<1> USE ConversationsAssumption
<1>a. task[u] \in Task /\ TaskInv(u) /\ task[u].msg \in Message
  BY DEF IInv, TypeOK, Task
<1>1. ASSUME NEW v \in Users, SendOne(u, v) PROVE IInv'
  <2>1. /\ v \in task[u].todo /\ v \notin Gone /\ v \in Alive
        /\ UNCHANGED <<conv, dead, got, ignored, created, calm, msgs>>
    BY <1>1 DEF SendOne, Alive, counters
  <2>2. /\ known' \in [Alive -> SUBSET Users] /\ PeersExist'
        /\ \A q \in Alive : known[q] \subseteq known'[q]
        /\ known'[u] = known[u] \cup {v}
    <3>1. {v} \subseteq Users /\ {v} \cap Gone = {} /\ known' = [known EXCEPT ![u] = @ \cup {v}]
      BY <1>1, <2>1 DEF SendOne
    <3> QED BY <3>1, PeersGrow
  <2>3. net' \in [Pairs -> Seq(Sendable)] /\ net' \in [Pairs -> Seq(Message)]
    <3>1. task[u].msg \in Sendable /\ task[u].msg \in Message
      BY <1>a, <2>1 DEF TaskInv
    <3>2. net' = [net EXCEPT ![<<u, v>>] = Append(@, task[u].msg)]
      BY <1>1 DEF SendOne
    <3> DEFINE c == <<u, v>>
    <3>3. net' = [net EXCEPT ![c] = Append(@, task[u].msg)]
      BY <3>2
    <3> HIDE DEF c
    <3>4. ASSUME c \in Pairs
          PROVE  /\ Append(net[c], task[u].msg) \in Seq(Sendable)
                 /\ Append(net[c], task[u].msg) \in Seq(Message)
      BY <3>1, <3>4 DEF IInv, TypeOK
    <3> QED BY <3>3, <3>4 DEF IInv, TypeOK
  <2>4. /\ task'[u] = [task[u] EXCEPT !.todo = @ \ {v}]
        /\ \A q \in Alive \ {u} : task'[q] = task[q]
        /\ task' \in [Alive -> Task]
    BY <1>1, <1>a DEF SendOne, IInv, TypeOK, Task
  <2>5. TaskInv(u)'
    BY <1>a, <2>1, <2>2, <2>4 DEF TaskInv, Task
  <2>6. \A q \in Alive \ {u} : TaskInv(q)'
    BY <2>2, <2>4 DEF IInv, TaskInv
  <2>7. TypeOK'
    BY <2>1, <2>2, <2>3, <2>4 DEF IInv, TypeOK
  <2> QED BY <2>1, <2>2, <2>3, <2>5, <2>6, <2>7 DEF IInv
<1>2. ASSUME NEW v \in Users, SendFails(u, v) PROVE IInv'
  <2>1. /\ task' = [task EXCEPT ![u] = Idle(u)]
        /\ UNCHANGED <<conv, known, net, dead, got, ignored, created, msgs>>
    BY <1>2 DEF SendFails
  <2>2. task' \in [Alive -> Task] /\ \A q \in Alive : TaskInv(q)'
    BY <2>1, Ended
  <2>3. calm' \in BOOLEAN
    BY <1>2, Zenon DEF SendFails
  <2>4. TypeOK'
    BY <2>1, <2>2, <2>3 DEF IInv, TypeOK
  <2> QED BY <2>1, <2>2, <2>4 DEF IInv, PeersExist
<1>3. CASE FinishCreate(u)
  <2>1. /\ task[u].kind = "create" /\ task[u].todo = {}
        /\ conv' = [conv EXCEPT ![u] = task[u].members]
        /\ got' = [got EXCEPT ![u] = @ \cup ({task[u].msg.id} \ {0})]
        /\ task' = [task EXCEPT ![u] = Idle(u)]
        /\ UNCHANGED <<known, net, dead, ignored, created, calm, msgs>>
    BY <1>3 DEF FinishCreate, Finishes, SaveConversation, counters
  <2>2. task[u].members \subseteq known[u] \ {u} /\ task[u].members \subseteq Users
    BY <1>a, <2>1 DEF TaskInv, Task
  <2>3. task[u].msg.id \in 0 .. MaxMsgs
    BY <1>a DEF Message
  <2>4. got' \in [Alive -> SUBSET (1 .. MaxMsgs)]
    BY <2>1, <2>3 DEF IInv, TypeOK
  <2>5. /\ conv' \in [Alive -> {NoConv} \cup SUBSET Users]
        /\ \A q \in Alive : conv'[q] # NoConv => conv'[q] \subseteq known[q] \ {q}
    BY <2>1, <2>2 DEF IInv, TypeOK
  <2>6. task' \in [Alive -> Task] /\ \A q \in Alive : TaskInv(q)'
    BY <2>1, Ended
  <2>7. TypeOK'
    BY <2>1, <2>4, <2>5, <2>6 DEF IInv, TypeOK
  <2> QED BY <2>1, <2>6, <2>7 DEF IInv, PeersExist
<1>4. CASE TellMembers(u)
  <2> DEFINE m == [kind |-> "add", peers |-> {}, peer |-> task[u].msg.peer, id |-> 0]
             w == [kind |-> "add", todo |-> conv[u], members |-> {}, msg |-> m]
  <2>1. /\ task[u].kind = "invite" /\ task[u].todo = {}
        /\ UNCHANGED <<conv, known, net, dead, got, ignored, created, msgs>>
    BY <1>4 DEF TellMembers, Finishes, counters
  <2>2. calm' \in BOOLEAN
    BY <1>4, Zenon DEF TellMembers
  <2>3. task' \in [Alive -> Task] /\ \A q \in Alive : TaskInv(q)'
    <3>1. CASE ~Exists(u)
      BY <1>4, <2>1, <3>1, Ended DEF TellMembers
    <3>2. CASE Exists(u)
      <4>1. conv[u] \in SUBSET Users
        BY <3>2 DEF Exists, IInv, TypeOK
      <4>2. m \in Sendable /\ m.peer # u /\ m.peer \in known[u]
        BY <1>a, <2>1 DEF TaskInv, Sendable, Message
      <4>3. task' = [task EXCEPT ![u] = w]
        BY <1>4, <3>2 DEF TellMembers
      <4>4. w \in Task /\ w.kind = "add" /\ w.msg = m
        <5>1. m \in Message
          BY <4>2 DEF Sendable
        <5> HIDE DEF m
        <5> QED BY <4>1, <5>1 DEF Task
      <4> HIDE DEF w, m
      <4> QED BY <2>1, <4>2, <4>3, <4>4, Replaced
    <3> QED BY <3>1, <3>2
  <2>4. TypeOK'
    BY <2>1, <2>2, <2>3 DEF IInv, TypeOK
  <2> QED BY <2>1, <2>3, <2>4 DEF IInv, PeersExist
<1>5. CASE FinishAdd(u)
  <2>1. /\ task[u].kind = "add"
        /\ conv' = [conv EXCEPT ![u] = IF Exists(u) THEN @ \cup {task[u].msg.peer} ELSE @]
        /\ task' = [task EXCEPT ![u] = Idle(u)]
        /\ UNCHANGED <<known, net, dead, got, ignored, created, calm, msgs>>
    BY <1>5 DEF FinishAdd, Finishes, counters
  <2>2. task[u].msg.peer \in known[u] \ {u} /\ known[u] \subseteq Users
    BY <1>a, <2>1 DEF TaskInv, IInv, TypeOK
  <2>3. /\ conv' \in [Alive -> {NoConv} \cup SUBSET Users]
        /\ \A q \in Alive : conv'[q] # NoConv => conv'[q] \subseteq known[q] \ {q}
    BY <2>1, <2>2 DEF IInv, TypeOK, Exists
  <2>4. task' \in [Alive -> Task] /\ \A q \in Alive : TaskInv(q)'
    BY <2>1, Ended
  <2>5. TypeOK'
    BY <2>1, <2>3, <2>4 DEF IInv, TypeOK
  <2> QED BY <2>1, <2>4, <2>5 DEF IInv, PeersExist
<1>6. CASE FinishSend(u)
  <2>1. /\ task' = [task EXCEPT ![u] = Idle(u)]
        /\ UNCHANGED <<conv, known, net, dead, got, ignored, created, calm, msgs>>
    BY <1>6 DEF FinishSend, counters
  <2>2. task' \in [Alive -> Task] /\ \A q \in Alive : TaskInv(q)'
    BY <2>1, Ended
  <2>3. TypeOK'
    BY <2>1, <2>2 DEF IInv, TypeOK
  <2> QED BY <2>1, <2>2, <2>3 DEF IInv, PeersExist
<1> QED BY <1>1, <1>2, <1>3, <1>4, <1>5, <1>6 DEF Operation

-----------------------------------------------------------------------------
(* The receive loop.                                                       *)

LEMMA ReceiveKeepsInv ==
  ASSUME IInv, NEW u \in Alive, NEW v \in Alive \ {u},
         ReceiveOpen(u, v) \/ ReceiveData(u, v) \/ ReceiveAdd(u, v)
  PROVE  IInv'
<1> USE ConversationsAssumption
<1> DEFINE m == Head(net[<<v, u>>])
<1>1. CASE ReceiveOpen(u, v)
  <2>1. Receives(u, v, "open") /\ UNCHANGED <<task, created, msgs>>
    BY <1>1 DEF ReceiveOpen, counters
  <2>2. /\ m \in Message
        /\ net' \in [Pairs -> Seq(Sendable)] /\ net' \in [Pairs -> Seq(Message)]
    BY <2>1, Received DEF Sendable
  <2> HIDE DEF m
  <2>3. m.id \in 0 .. MaxMsgs /\ m.peers \in SUBSET Users
    BY <2>2 DEF Message
  <2>4. Ignores(u, m) => ignored' \subseteq Alive \X (1 .. MaxMsgs)
    BY <2>3 DEF Ignores, IInv, TypeOK
  <2>5. CASE Exists(u)
    <3>1. Ignores(u, m) /\ UNCHANGED <<conv, known, dead, got, calm>>
      BY <1>1, <2>5 DEF ReceiveOpen, m
    <3>2. TypeOK'
      BY <2>1, <2>2, <2>4, <3>1 DEF IInv, TypeOK
    <3>3. \A q \in Alive : TaskInv(q)'
      BY <2>1, <3>1, TasksKept DEF IInv
    <3> QED BY <2>1, <2>2, <3>1, <3>2, <3>3 DEF IInv, PeersExist
  <2>6. CASE ~Exists(u)
    <3> DEFINE peers == OtherPeers(u, v, m)
    <3>1. OpensConversation(u, v, m)
      BY <1>1, <2>6 DEF ReceiveOpen, m
    <3>2. peers \subseteq Users /\ u \notin peers
      BY <2>3 DEF OtherPeers, Alive
    <3> HIDE DEF peers
    <3>3. known' = [known EXCEPT ![u] = @ \cup (peers \ Gone)]
      BY <3>1 DEF OpensConversation, Resolved, peers
    <3>4. /\ known' \in [Alive -> SUBSET Users] /\ PeersExist'
          /\ \A q \in Alive : known[q] \subseteq known'[q]
      <4>1. peers \ Gone \subseteq Users /\ (peers \ Gone) \cap Gone = {}
        BY <3>2
      <4> QED BY <3>3, <4>1, PeersGrow
    <3>5. \A q \in Alive : TaskInv(q)'
      BY <2>1, <3>4, TasksKept DEF IInv
    <3>6. CASE peers \subseteq known'[u]
      <4>1. /\ conv' = [conv EXCEPT ![u] = peers]
            /\ got' = [got EXCEPT ![u] = @ \cup ({m.id} \ {0})]
            /\ UNCHANGED <<dead, ignored, calm>>
        BY <3>1, <3>6 DEF OpensConversation, SaveConversation, peers
      <4>2. got' \in [Alive -> SUBSET (1 .. MaxMsgs)]
        BY <2>3, <4>1 DEF IInv, TypeOK
      <4>3. /\ conv' \in [Alive -> {NoConv} \cup SUBSET Users]
            /\ \A q \in Alive : conv'[q] # NoConv => conv'[q] \subseteq known'[q] \ {q}
        BY <3>2, <3>4, <3>6, <4>1 DEF IInv, TypeOK
      <4>4. TypeOK'
        BY <2>1, <2>2, <3>4, <4>1, <4>2, <4>3 DEF IInv, TypeOK
      <4> QED BY <2>1, <2>2, <3>4, <3>5, <4>4 DEF IInv
    <3>7. CASE ~(peers \subseteq known'[u])
      <4>1. /\ dead' = dead \cup {u} /\ calm' = FALSE
            /\ Ignores(u, m) /\ UNCHANGED <<conv, got>>
        BY <3>1, <3>7 DEF OpensConversation, peers
      <4>2. \A q \in Alive : conv'[q] # NoConv => conv'[q] \subseteq known'[q] \ {q}
        BY <3>4, <4>1 DEF IInv, TypeOK
      <4>3. calm' \in BOOLEAN
        BY <4>1, Zenon
      <4>4. TypeOK'
        BY <2>1, <2>2, <2>4, <3>4, <4>1, <4>2, <4>3 DEF IInv, TypeOK
      <4> QED BY <2>1, <2>2, <3>4, <3>5, <4>4 DEF IInv
    <3> QED BY <3>6, <3>7
  <2> QED BY <2>5, <2>6
<1>2. CASE ReceiveData(u, v)
  <2>1. Receives(u, v, "data") /\ UNCHANGED <<conv, known, task, dead, created, calm, msgs>>
    BY <1>2 DEF ReceiveData, counters
  <2>2. /\ m \in Sendable /\ m.kind = "data"
        /\ net' \in [Pairs -> Seq(Sendable)] /\ net' \in [Pairs -> Seq(Message)]
    BY <2>1, Received
  <2>3. \/ got' = [got EXCEPT ![u] = @ \cup {m.id}] /\ UNCHANGED ignored
        \/ Ignores(u, m) /\ UNCHANGED got
    BY <1>2 DEF ReceiveData
  <2> HIDE DEF m
  <2>4. m.id \in 1 .. MaxMsgs
    BY <2>2 DEF Sendable, Message
  <2>5. /\ got' \in [Alive -> SUBSET (1 .. MaxMsgs)]
        /\ ignored' \subseteq Alive \X (1 .. MaxMsgs)
    BY <2>3, <2>4 DEF Ignores, IInv, TypeOK
  <2>6. TypeOK'
    BY <2>1, <2>2, <2>5 DEF IInv, TypeOK
  <2>7. \A q \in Alive : TaskInv(q)'
    BY <2>1, TasksKept DEF IInv
  <2> QED BY <2>1, <2>2, <2>6, <2>7 DEF IInv, PeersExist
<1>3. CASE ReceiveAdd(u, v)
  <2> DEFINE p == m.peer
  <2>1. Receives(u, v, "add") /\ UNCHANGED <<task, got, ignored, created, msgs>>
    BY <1>3 DEF ReceiveAdd, counters
  <2>2. /\ m \in Message
        /\ net' \in [Pairs -> Seq(Sendable)] /\ net' \in [Pairs -> Seq(Message)]
    BY <2>1, Received DEF Sendable
  <2>3. IF HasPeer(u, v) /\ p # u THEN AddsPeer(u, p) ELSE UNCHANGED <<conv, known, dead, calm>>
    BY <1>3 DEF ReceiveAdd
  <2>4. p \in Users
    BY <2>2 DEF Message
  <2> HIDE DEF p, m
  <2>5. CASE ~(HasPeer(u, v) /\ p # u)
    <3>1. UNCHANGED <<conv, known, dead, calm>>
      BY <2>3, <2>5
    <3>2. TypeOK'
      BY <2>1, <2>2, <3>1 DEF IInv, TypeOK
    <3>3. \A q \in Alive : TaskInv(q)'
      BY <2>1, <3>1, TasksKept DEF IInv
    <3> QED BY <2>1, <2>2, <3>1, <3>2, <3>3 DEF IInv, PeersExist
  <2>6. CASE HasPeer(u, v) /\ p # u
    <3>1. AddsPeer(u, p) /\ p # u /\ conv[u] # NoConv
      BY <2>3, <2>6 DEF HasPeer
    <3>2. known' = [known EXCEPT ![u] = @ \cup ({p} \ Gone)]
      BY <3>1 DEF AddsPeer, Resolved
    <3>3. /\ known' \in [Alive -> SUBSET Users] /\ PeersExist'
          /\ \A q \in Alive : known[q] \subseteq known'[q]
      <4>1. {p} \ Gone \subseteq Users /\ ({p} \ Gone) \cap Gone = {}
        BY <2>4
      <4> QED BY <3>2, <4>1, PeersGrow
    <3>4. \A q \in Alive : TaskInv(q)'
      BY <2>1, <3>3, TasksKept DEF IInv
    <3>5. \/ p \in known'[u] /\ conv' = [conv EXCEPT ![u] = @ \cup {p}] /\ UNCHANGED <<dead, calm>>
          \/ dead' = dead \cup {u} /\ calm' = FALSE /\ UNCHANGED conv
      BY <3>1 DEF AddsPeer
    <3>6. /\ conv' \in [Alive -> {NoConv} \cup SUBSET Users]
          /\ \A q \in Alive : conv'[q] # NoConv => conv'[q] \subseteq known'[q] \ {q}
      <4>1. CASE p \in known'[u] /\ conv' = [conv EXCEPT ![u] = @ \cup {p}]
        <5>1. conv[u] \in SUBSET Users /\ conv[u] \subseteq known[u] \ {u}
          BY <3>1 DEF IInv, TypeOK
        <5>2. conv[u] \cup {p} \in SUBSET Users /\ conv[u] \cup {p} \subseteq known'[u] \ {u}
          BY <2>4, <3>1, <3>3, <4>1, <5>1
        <5> QED BY <3>3, <4>1, <5>2 DEF IInv, TypeOK
      <4>2. CASE UNCHANGED conv
        BY <3>3, <4>2 DEF IInv, TypeOK
      <4> QED BY <3>5, <4>1, <4>2
    <3>7. calm' \in BOOLEAN /\ dead' \subseteq Alive
      BY <3>5, Zenon DEF IInv, TypeOK
    <3>8. TypeOK'
      BY <2>1, <2>2, <3>3, <3>6, <3>7 DEF IInv, TypeOK
    <3> QED BY <2>1, <2>2, <3>3, <3>4, <3>8 DEF IInv
  <2> QED BY <2>5, <2>6
<1> QED BY <1>1, <1>2, <1>3

-----------------------------------------------------------------------------

\* A step that changes nothing keeps the invariant.
LEMMA StutterInv == IInv /\ UNCHANGED vars => IInv'
  BY DEF IInv, vars, counters, TypeOK, PeersExist, TaskInv

\* The invariant holds in every reachable state.
LEMMA Invariant == Spec => []IInv
<1>1. IInv /\ [Next]_vars => IInv'
  <2> SUFFICES ASSUME IInv, [Next]_vars PROVE IInv'
    OBVIOUS
  <2>1. ASSUME Next PROVE IInv'
    BY <2>1, AskedKeepsInv, OperationKeepsInv, ReceiveKeepsInv DEF Next, Receive
  <2> QED BY <2>1, StutterInv
<1> QED BY <1>1, InitInv, PTL DEF Spec

\* A user that the server does not know is never a member of a conversation, for every
\* set of users, of those who are gone, and every number of messages, additions and
\* failures (create_conversation, add_peer_to_conversation, handle_new_conversation,
\* AddPeerToConv): nobody is a member that is not in the table of peers.
THEOREM MembersAlwaysExist == Spec => []MembersExist
<1>1. IInv => MembersExist
  BY DEF IInv, MembersExist, TypeOK, PeersExist, Exists
<1> QED BY <1>1, Invariant, PTL

-----------------------------------------------------------------------------
(* The members of the conversation, while no operation broke off or        *)
(* overlapped another: H is the list all its members will have, o the user *)
(* that created it or extended it last, and n the peer it added, o itself  *)
(* after the creation.                                                     *)

Has(kind, v, u) == \E m \in Range(net[<<v, u>>]) : m.kind = kind

Opens == {"create", "invite"}

\* u has still to save the conversation, and will.
OpenTo(o, u) ==
  ~Exists(u) /\ \/ u = o /\ task[o].kind = "create"
                \/ u # o /\ task[o].kind \in Opens /\ u \in task[o].todo
                \/ u # o /\ u \in Alive /\ Has("open", o, u)

\* u has the list without n, and will add it.
AddTo(H, o, n, u) ==
  /\ u # n /\ conv[u] = H \ {u, n}
  /\ \/ task[o].kind = "invite"
     \/ task[o].kind = "add" /\ u \in task[o].todo \cup {o}
     \/ u # o /\ Has("add", o, u)

\* A user that is gone is still to be told; another has the list, or will.
Place(H, o, n, u) ==
  IF u \in Alive
  THEN OpenTo(o, u) \/ (Exists(u) /\ (conv[u] = H \ {u} \/ AddTo(H, o, n, u)))
  ELSE task[o].kind \in Opens /\ u \in task[o].todo

\* What o has to do.
Work(H, o, n) ==
  /\ task[o].kind = "create" =>
       ~Exists(o) /\ task[o].members = H \ {o} /\ task[o].todo \subseteq H \ {o}
  /\ task[o].kind = "invite" =>
       n # o /\ task[o].msg.peer = n /\ task[o].todo \subseteq {n} /\ Exists(o) /\ conv[o] = H \ {o, n}
  /\ task[o].kind = "add" =>
       /\ n # o /\ task[o].msg.kind = "add" /\ task[o].msg.peer = n
       /\ task[o].todo \subseteq H \ {o, n} /\ Exists(o) /\ conv[o] = H \ {o, n}
  /\ \A u \in task[o].todo : task[o].kind \in Opens =>
       task[o].msg.kind = "open" /\ OtherPeers(u, o, task[o].msg) = H \ {u}

\* What is on its way is of o and of the members.
Sound(H, o, n, v, u, m) ==
  /\ v \in H /\ u \in H
  /\ m.kind = "open" => v = o /\ OtherPeers(u, o, m) = H \ {u}
  /\ m.kind = "add" => v = o /\ n # o /\ m.peer = n

\* At most one OpenConv is on its way to u.
Once(o, u) ==
  \A i, j \in DOMAIN net[<<o, u>>] :
    net[<<o, u>>][i].kind = "open" /\ net[<<o, u>>][j].kind = "open" => i = j

\* The OpenConv comes once, to a user that does not have the conversation.
OneOpen(o, u) ==
  /\ Once(o, u)
  /\ Has("open", o, u) => ~Exists(u) /\ (task[o].kind \in Opens => u \notin task[o].todo)
  /\ Exists(u) /\ task[o].kind \in Opens => u \notin task[o].todo

\* Nobody but o works on the members; the others send to members.
Others(H, o, u) ==
  /\ u # o => task[u].kind \in {"idle", "send"}
  /\ task[u].kind = "send" =>
       u \in H /\ task[u].todo \subseteq H \ {u} /\ task[u].msg.kind = "data"
  /\ task[u].kind = "idle" => task[u].todo = {}

Agreeing(H, o, n) ==
  /\ created /\ o \in Alive
  /\ \A u \in Alive : Exists(u) => u \in H
  /\ \A u \in H : Place(H, o, n, u)
  /\ \A u \in Alive : Others(H, o, u)
  /\ Work(H, o, n)
  /\ \A v, u \in Alive : v # u => \A m \in Range(net[<<v, u>>]) : Sound(H, o, n, v, u, m)
  /\ \A u \in Alive \ {o} : OneOpen(o, u)

NotCreated ==
  /\ ~created
  /\ \A u \in Alive : ~Exists(u) /\ task[u] = Idle(u)
  /\ \A q \in Pairs : net[q] = <<>>

CalmInv == calm => NotCreated \/ \E H \in SUBSET Users : \E o, n \in H : Agreeing(H, o, n)

-----------------------------------------------------------------------------
(* What a send and a receipt change in the channels.                       *)

LEMMA InChannel ==
  ASSUME IInv, NEW a \in Alive, NEW b \in Alive, a # b
  PROVE  <<a, b>> \in Pairs /\ net[<<a, b>>] \in Seq(Message)
<1>1. <<a, b>> \in Pairs
  BY DEF Pairs
<1>2. net \in [Pairs -> Seq(Message)]
  BY DEF IInv, TypeOK
<1> QED BY <1>1, <1>2

\* A message that is sent is the last of its channel, and the others stay.
LEMMA Sends ==
  ASSUME IInv, NEW u \in Alive, NEW v \in Alive, u # v, SendOne(u, v)
  PROVE  /\ \A a, b \in Alive : a # b /\ ~(a = u /\ b = v) => net'[<<a, b>>] = net[<<a, b>>]
         /\ Range(net'[<<u, v>>]) = Range(net[<<u, v>>]) \cup {task[u].msg}
         /\ Once(u, v) /\ (task[u].msg.kind = "open" => ~Has("open", u, v)) => Once(u, v)'
<1>1. <<u, v>> \in Pairs /\ net[<<u, v>>] \in Seq(Message)
  BY InChannel
<1>2. net' = [net EXCEPT ![<<u, v>>] = Append(@, task[u].msg)]
  BY DEF SendOne
<1>3. ASSUME NEW a \in Alive, NEW b \in Alive, a # b, ~(a = u /\ b = v)
      PROVE  net'[<<a, b>>] = net[<<a, b>>]
  <2>1. <<a, b>> \in Pairs /\ <<a, b>> # <<u, v>>
    BY <1>3 DEF Pairs
  <2> HIDE DEF Pairs
  <2> QED BY <1>2, <2>1 DEF IInv, TypeOK
<1> DEFINE c == net[<<u, v>>]
           m == task[u].msg
<1>4. net'[<<u, v>>] = Append(c, m)
  BY <1>1, <1>2 DEF IInv, TypeOK
<1>5. c \in Seq(Message) /\ m \in Message
  BY <1>1 DEF IInv, TypeOK, Task
<1>6. Range(Append(c, m)) = Range(c) \cup {m}
  <2> HIDE DEF c, m
  <2>1. DOMAIN Append(c, m) = DOMAIN c \cup {Len(c) + 1} /\ Append(c, m)[Len(c) + 1] = m
        /\ \A i \in DOMAIN c : Append(c, m)[i] = c[i]
    BY <1>5
  <2> QED BY <2>1 DEF Range
<1>7. ASSUME Once(u, v), m.kind = "open" => ~Has("open", u, v) PROVE Once(u, v)'
  <2>1. m.kind = "open" => \A i \in DOMAIN c : c[i].kind # "open"
    BY <1>7 DEF Has, Range
  <2>2. \A i, j \in DOMAIN c : c[i].kind = "open" /\ c[j].kind = "open" => i = j
    BY <1>7 DEF Once
  <2> HIDE DEF c, m
  <2>3. DOMAIN Append(c, m) = DOMAIN c \cup {Len(c) + 1} /\ Append(c, m)[Len(c) + 1] = m
        /\ \A i \in DOMAIN c : Append(c, m)[i] = c[i]
    BY <1>5
  <2>4. \A i, j \in DOMAIN Append(c, m) :
          Append(c, m)[i].kind = "open" /\ Append(c, m)[j].kind = "open" => i = j
    BY <2>1, <2>2, <2>3
  <2> QED BY <1>4, <2>4 DEF Once
<1> QED BY <1>3, <1>4, <1>6, <1>7

\* A message that is received was the first of its channel, and the others stay.
LEMMA Receipt ==
  ASSUME IInv, NEW u \in Alive, NEW v \in Alive \ {u}, NEW kind, Receives(u, v, kind)
  PROVE  /\ \A a, b \in Alive : a # b /\ ~(a = v /\ b = u) => net'[<<a, b>>] = net[<<a, b>>]
         /\ Head(net[<<v, u>>]) \in Range(net[<<v, u>>]) /\ Head(net[<<v, u>>]).kind = kind
         /\ \A m \in Range(net[<<v, u>>]) :
              m = Head(net[<<v, u>>]) \/ m \in Range(net'[<<v, u>>])
         /\ Range(net'[<<v, u>>]) \subseteq Range(net[<<v, u>>])
         /\ net'[<<v, u>>] # net[<<v, u>>]
         /\ Once(v, u) => Once(v, u)' /\ (kind = "open" => ~Has("open", v, u)')
<1>1. <<v, u>> \in Pairs /\ net[<<v, u>>] \in Seq(Message)
  BY InChannel
<1>2. /\ net' = [net EXCEPT ![<<v, u>>] = Tail(@)] /\ net[<<v, u>>] # <<>>
      /\ Head(net[<<v, u>>]).kind = kind
  BY DEF Receives
<1>3. ASSUME NEW a \in Alive, NEW b \in Alive, a # b, ~(a = v /\ b = u)
      PROVE  net'[<<a, b>>] = net[<<a, b>>]
  <2>1. <<a, b>> \in Pairs /\ <<a, b>> # <<v, u>>
    BY <1>3 DEF Pairs
  <2> HIDE DEF Pairs
  <2> QED BY <1>2, <2>1 DEF IInv, TypeOK
<1> DEFINE c == net[<<v, u>>]
           t == Tail(c)
<1>4. net'[<<v, u>>] = t
  BY <1>1, <1>2 DEF IInv, TypeOK
<1>5. /\ DOMAIN c = 1 .. Len(c) /\ Len(c) \in Nat \ {0} /\ DOMAIN t = 1 .. Len(c) - 1
      /\ \A i \in DOMAIN t : t[i] = c[i + 1]
      /\ Head(c) = c[1] /\ Len(t) = Len(c) - 1
  <2>1. c \in Seq(Message) /\ c # <<>>
    BY <1>1, <1>2
  <2> HIDE DEF c
  <2> QED BY <2>1
<1>6. /\ Head(c) \in Range(c)
      /\ \A m \in Range(c) : m = Head(c) \/ m \in Range(t)
      /\ Range(t) \subseteq Range(c)
      /\ t # c
  <2>0. c # <<>> /\ Len(t) # Len(c) /\ Head(c) = c[1] /\ 1 \in DOMAIN c
    <3>1. c \in Seq(Message) /\ c # <<>>
      BY <1>1, <1>2
    <3> HIDE DEF c
    <3> QED BY <3>1
  <2> HIDE DEF c, t
  <2>1. \A i \in DOMAIN c : i = 1 \/ (i - 1 \in DOMAIN t /\ t[i - 1] = c[i])
    BY <1>5
  <2>2. \A i \in DOMAIN t : i + 1 \in DOMAIN c
    BY <1>5
  <2>3. Head(c) \in Range(c) /\ t # c
    <3>1. t # c
      BY <2>0, Zenon
    <3> QED BY <2>0, <3>1, Zenon DEF Range
  <2>4. \A m \in Range(c) : m = Head(c) \/ m \in Range(t)
    BY <1>5, <2>1 DEF Range
  <2>5. Range(t) \subseteq Range(c)
    BY <1>5, <2>2 DEF Range
  <2> QED BY <2>3, <2>4, <2>5
<1>7. ASSUME Once(v, u) PROVE Once(v, u)' /\ (kind = "open" => ~Has("open", v, u)')
  <2>1. \A i, j \in DOMAIN c : c[i].kind = "open" /\ c[j].kind = "open" => i = j
    BY <1>7 DEF Once
  <2>2. Head(c).kind = kind
    BY <1>2
  <2> HIDE DEF c, t
  <2>3. \A i, j \in DOMAIN t : t[i].kind = "open" /\ t[j].kind = "open" => i = j
    <3> SUFFICES ASSUME NEW i \in DOMAIN t, NEW j \in DOMAIN t,
                        t[i].kind = "open", t[j].kind = "open"
                 PROVE  i = j
      OBVIOUS
    <3>1. i + 1 \in DOMAIN c /\ j + 1 \in DOMAIN c /\ c[i + 1] = t[i] /\ c[j + 1] = t[j]
      BY <1>5
    <3>2. i + 1 = j + 1
      BY <2>1, <3>1
    <3> QED BY <1>5, <3>2
  <2>4. kind = "open" => \A i \in DOMAIN t : t[i].kind # "open"
    <3> SUFFICES ASSUME kind = "open", NEW i \in DOMAIN t, t[i].kind = "open" PROVE FALSE
      OBVIOUS
    <3>1. i + 1 \in DOMAIN c /\ c[i + 1] = t[i] /\ 1 \in DOMAIN c /\ c[1].kind = "open" /\ i + 1 # 1
      BY <1>5, <2>2
    <3> QED BY <2>1, <3>1
  <2>5. Once(v, u)'
    BY <1>4, <2>3 DEF Once
  <2>6. kind = "open" => ~Has("open", v, u)'
    BY <1>4, <2>4 DEF Has, Range
  <2> QED BY <2>5, <2>6
<1> QED BY <1>2, <1>3, <1>4, <1>6, <1>7

-----------------------------------------------------------------------------
(* The creation.                                                           *)

\* new_open_conv and new_open_group_conv: a recipient, which adds the sender and takes
\* itself out, comes to the same list.
LEMMA OpenConvPeers ==
  ASSUME NEW u \in Users, NEW P \in SUBSET (Users \ {u}), NEW k, NEW w \in P
  PROVE  OtherPeers(w, u, OpenConv(u, P, k)) = (P \cup {u}) \ {w}
<1>1. OpenConv(u, P, k).peers = IF Cardinality(P) = 1 THEN {} ELSE P
  BY DEF OpenConv
<1>2. CASE Cardinality(P) = 1
  <2>1. IsFiniteSet(P)
    BY ConversationsAssumption, FS_Subset
  <2>2. P = {w}
    BY <1>2, <2>1, FS_Singleton
  <2> QED BY <1>1, <1>2, <2>2 DEF OtherPeers
<1>3. CASE Cardinality(P) # 1
  BY <1>1, <1>3 DEF OtherPeers
<1> QED BY <1>2, <1>3

LEMMA CreationAgrees ==
  ASSUME IInv, NotCreated, NEW u \in Alive, NEW P \in SUBSET (Users \ {u}),
         NEW first \in BOOLEAN, CreateConversation(u, P, first)
  PROVE  Agreeing(P \cup {u}, u, u)'
<1> DEFINE k == IF first THEN msgs' ELSE 0
           w == [kind |-> "create", todo |-> P, members |-> P, msg |-> OpenConv(u, P, k)]
           H == P \cup {u}
<1>1. /\ created' /\ UNCHANGED <<conv, net>> /\ task' = [task EXCEPT ![u] = w]
      /\ u \in Users /\ u \notin P
  BY DEF CreateConversation, Alive
<1>2. OpenConv(u, P, k).kind = "open"
  BY DEF OpenConv
<1>3. \A q \in P : OtherPeers(q, u, OpenConv(u, P, k)) = H \ {q}
  BY <1>1, OpenConvPeers
<1> DEFINE m == OpenConv(u, P, k)
<1> HIDE DEF m
<1>4. /\ task'[u].kind = "create" /\ task'[u].todo = P /\ task'[u].members = P
      /\ task'[u].msg = m
      /\ \A q \in Alive \ {u} : task'[q].kind = "idle" /\ task'[q].todo = {}
  BY <1>1 DEF IInv, TypeOK, NotCreated, Idle, m
<1>5. \A q \in Alive : ~Exists(q)'
  BY <1>1 DEF NotCreated, Exists
<1>6. \A a, b \in Alive : a # b => net'[<<a, b>>] = <<>>
  BY <1>1 DEF NotCreated, Pairs
<1>7. \A q \in H : Place(H, u, u, q)'
  BY <1>4, <1>5 DEF Place, OpenTo, Opens
<1>8. \A q \in Alive : Others(H, u, q)'
  BY <1>4 DEF Others
<1>9. Work(H, u, u)'
  BY <1>1, <1>2, <1>3, <1>4, <1>5 DEF Work, m
<1>10. \A a, b \in Alive : a # b => Range(net'[<<a, b>>]) = {}
  BY <1>6 DEF Range
<1>11. \A q \in Alive \ {u} : OneOpen(u, q)'
  <2> TAKE q \in Alive \ {u}
  <2>1. net'[<<u, q>>] = <<>> /\ Range(net'[<<u, q>>]) = {}
    BY <1>6, <1>10
  <2>2. Once(u, q)'
    BY <2>1 DEF Once
  <2>3. ~Has("open", u, q)'
    BY <2>1 DEF Has
  <2> QED BY <1>5, <2>2, <2>3 DEF OneOpen
<1> QED BY <1>1, <1>5, <1>7, <1>8, <1>9, <1>10, <1>11 DEF Agreeing

-----------------------------------------------------------------------------
(* The user's other operations.                                            *)

\* When nothing on the members is on its way, each of them is reached and has the list.
LEMMA SettledMembers ==
  ASSUME IInv, NEW H \in SUBSET Users, NEW o \in H, NEW n \in H, Agreeing(H, o, n), Settled
  PROVE  H \subseteq Alive /\ \A q \in H : Exists(q) /\ conv[q] = H \ {q}
<1>1. \A q \in Alive : task[q].kind \notin {"create", "invite", "add"}
  BY DEF Settled
<1>2. \A a, b \in Alive : a # b => \A m \in Range(net[<<a, b>>]) : m.kind = "data"
  BY DEF Settled, Pairs
<1>3. o \in Alive /\ \A q \in H : Place(H, o, n, q)
  BY DEF Agreeing
<1>4. \A q \in Alive \ {o} : ~Has("open", o, q) /\ ~Has("add", o, q)
  BY <1>2, <1>3 DEF Has
<1> QED BY <1>1, <1>3, <1>4 DEF Place, OpenTo, AddTo, Opens

LEMMA InvitationAgrees ==
  ASSUME IInv, NEW H \in SUBSET Users, NEW o \in H, NEW n \in H, Agreeing(H, o, n),
         NEW u \in Alive, NEW v \in Users, InvitePeer(u, v), calm'
  PROVE  Agreeing(H \cup {v}, u, v)'
<1> DEFINE m == [kind |-> "open", peers |-> conv[u], peer |-> v, id |-> 0]
           w == [kind |-> "invite", todo |-> {v}, members |-> {}, msg |-> m]
           G == H \cup {v}
<1>1. /\ Settled /\ Exists(u) /\ v \notin conv[u] \cup {u} /\ UNCHANGED <<conv, net, created>>
      /\ task' = [task EXCEPT ![u] = w]
  BY DEF InvitePeer
<1>2. H \subseteq Alive /\ \A q \in H : Exists(q) /\ conv[q] = H \ {q}
  BY <1>1, SettledMembers
<1>3. u \in H /\ conv[u] = H \ {u} /\ v # u /\ v \notin H
  BY <1>1, <1>2 DEF Agreeing
<1>4. /\ task'[u].kind = "invite" /\ task'[u].todo = {v} /\ task'[u].msg = m
      /\ \A q \in Alive \ {u} : task'[q] = task[q]
  BY <1>1 DEF IInv, TypeOK
<1>5. m.kind = "open" /\ m.peer = v /\ OtherPeers(v, u, m) = G \ {v}
  BY <1>3 DEF OtherPeers
<1> HIDE DEF m, w
<1>6. \A q \in Alive : (Exists(q)' <=> Exists(q)) /\ (Exists(q) => q \in H)
  BY <1>1 DEF Exists, Agreeing
<1>7. \A q \in G : Place(G, u, v, q)'
  <2>1. Place(G, u, v, v)'
    BY <1>3, <1>4, <1>6 DEF Place, OpenTo, Opens
  <2>2. ASSUME NEW q \in H PROVE Place(G, u, v, q)'
    <3>1. q \in Alive /\ Exists(q)' /\ q # v /\ conv'[q] = G \ {q, v}
      BY <1>1, <1>2, <1>3, <1>6
    <3> QED BY <1>4, <3>1 DEF Place, AddTo
  <2> QED BY <2>1, <2>2
<1>8. \A q \in Alive : Others(G, u, q)'
  <2>1. Others(G, u, u)'
    BY <1>4 DEF Others
  <2>2. ASSUME NEW q \in Alive, q # u PROVE Others(G, u, q)'
    <3>1. task'[q] = task[q] /\ task[q].kind \in {"idle", "send"} /\ Others(H, o, q)
      BY <1>1, <1>4, <2>2 DEF Agreeing, Settled, IInv, TypeOK, Task
    <3> QED BY <1>3, <3>1 DEF Others
  <2> QED BY <2>1, <2>2
<1>9. Work(G, u, v)'
  <2>1. conv'[u] = G \ {u, v} /\ Exists(u)'
    BY <1>1, <1>2, <1>3, <1>6
  <2> QED BY <1>3, <1>4, <1>5, <2>1 DEF Work
<1>10. \A a, b \in Alive : a # b => \A x \in Range(net'[<<a, b>>]) : Sound(G, u, v, a, b, x)
  BY <1>1 DEF Agreeing, Settled, Sound, Pairs
<1>11. \A q \in Alive \ {u} : OneOpen(u, q)'
  <2> TAKE q \in Alive \ {u}
  <2>1. \A x \in Range(net'[<<u, q>>]) : x.kind = "data"
    BY <1>1 DEF Settled, Pairs
  <2>2. Once(u, q)' /\ ~Has("open", u, q)'
    BY <2>1 DEF Once, Has, Range
  <2> QED BY <1>3, <1>4, <1>6, <2>2 DEF OneOpen
<1>12. created' /\ u \in Alive /\ \A q \in Alive : Exists(q)' => q \in G
  BY <1>1, <1>6 DEF Agreeing
<1>13. \A a, b \in Alive : a # b => \A x \in Range(net[<<a, b>>])' : Sound(G, u, v, a, b, x)'
  BY <1>10 DEF Sound, OtherPeers
<1> QED BY <1>7, <1>8, <1>9, <1>11, <1>12, <1>13 DEF Agreeing

\* An operation of u that sends content messages to the members, or none.
LEMMA SendersAgree ==
  ASSUME IInv, NEW H \in SUBSET Users, NEW o \in H, NEW n \in H, Agreeing(H, o, n),
         NEW u \in Alive, NEW w, task' = [task EXCEPT ![u] = w],
         task[u].kind \in {"idle", "send"}, w.kind \in {"idle", "send"},
         w.kind = "send" => u \in H /\ w.todo \subseteq H \ {u} /\ w.msg.kind = "data",
         w.kind = "idle" => w.todo = {},
         UNCHANGED <<conv, net, created>>
  PROVE  Agreeing(H, o, n)'
<1>1. task'[u] = w /\ \A q \in Alive \ {u} : task'[q] = task[q]
  BY DEF IInv, TypeOK
<1>2. o \in Alive /\ created' /\ \A q \in Alive : Exists(q)' <=> Exists(q)
  BY DEF Agreeing, Exists
<1>3. \A k : \A q \in Alive : Has(k, o, q)' <=> Has(k, o, q)
  BY DEF Has
<1>4. task'[o] = task[o] \/ (task'[o].kind \in {"idle", "send"} /\ task[o].kind \in {"idle", "send"})
  BY <1>1, <1>2
<1>5. \A q \in H : Place(H, o, n, q)'
  <2> TAKE q \in H
  <2>1. Place(H, o, n, q)
    BY DEF Agreeing
  <2>2. OpenTo(o, q) /\ q \in Alive => OpenTo(o, q)'
    BY <1>2, <1>3, <1>4 DEF OpenTo, Opens
  <2>3. AddTo(H, o, n, q) /\ q \in Alive => AddTo(H, o, n, q)'
    BY <1>3, <1>4 DEF AddTo
  <2> QED BY <1>2, <1>4, <2>1, <2>2, <2>3 DEF Place, Opens
<1>6. \A q \in Alive : Others(H, o, q)'
  BY <1>1 DEF Others, Agreeing
<1>7. Work(H, o, n)'
  BY <1>2, <1>4 DEF Work, Agreeing, Opens
<1>8. \A q \in Alive \ {o} : OneOpen(o, q)'
  <2> TAKE q \in Alive \ {o}
  <2>1. OneOpen(o, q) /\ (Once(o, q)' <=> Once(o, q))
    BY DEF Agreeing, Once
  <2> QED BY <1>2, <1>3, <1>4, <2>1 DEF OneOpen, Opens
<1> QED BY <1>2, <1>5, <1>6, <1>7, <1>8 DEF Agreeing, Sound, OtherPeers

-----------------------------------------------------------------------------
(* The steps of an operation.                                              *)

LEMMA SendOneAgrees ==
  ASSUME IInv, NEW H \in SUBSET Users, NEW o \in H, NEW n \in H, Agreeing(H, o, n),
         NEW u \in Alive, NEW v \in Users, SendOne(u, v)
  PROVE  Agreeing(H, o, n)'
<1> DEFINE m == task[u].msg
<1>1. /\ v \in task[u].todo /\ v \in Alive /\ UNCHANGED <<conv, created>>
      /\ task'[u] = [task[u] EXCEPT !.todo = @ \ {v}]
      /\ \A q \in Alive \ {u} : task'[q] = task[q]
  BY DEF SendOne, Alive, IInv, TypeOK
<1>2. task[u] \in Task
  BY DEF IInv, TypeOK
<1>3. /\ task'[u].todo = task[u].todo \ {v} /\ task'[u].kind = task[u].kind
      /\ task'[u].msg = m /\ task'[u].members = task[u].members
  BY <1>1, <1>2 DEF Task
<1>4. \A q \in Alive : /\ task'[q].kind = task[q].kind /\ task'[q].msg = task[q].msg
                       /\ task'[q].members = task[q].members
                       /\ task'[q].todo = IF q = u THEN task[u].todo \ {v} ELSE task[q].todo
  BY <1>1, <1>3
<1>5. o \in Alive /\ created' /\ \A q \in Alive : Exists(q)' <=> Exists(q)
  BY <1>1 DEF Agreeing, Exists
<1>6. /\ Work(H, o, n) /\ Others(H, o, u)
      /\ task[u].kind \in {"idle", "create", "invite", "add", "send"}
  BY <1>2, <1>5 DEF Agreeing, Task
\* What the message says of o and n.
<1>7. Sound(H, o, n, u, v, m) /\ u # v
      /\ (u = o /\ task[o].kind \in Opens => m.kind = "open")
      /\ (u = o /\ task[o].kind = "add" => m.kind = "add")
      /\ (m.kind = "open" => u = o /\ task[o].kind \in Opens)
  <2>1. CASE task[u].kind = "send"
    BY <1>1, <1>6, <2>1 DEF Others, Sound, Opens
  <2>2. CASE task[u].kind \in Opens
    <3>1. u = o
      BY <1>6, <2>2 DEF Others, Opens
    <3>2. m.kind = "open" /\ OtherPeers(v, o, m) = H \ {v}
      BY <1>1, <1>6, <2>2, <3>1 DEF Work
    <3>3. v \in H /\ v # o
      BY <1>1, <1>6, <2>2, <3>1 DEF Work, Opens
    <3> QED BY <2>2, <3>1, <3>2, <3>3 DEF Sound, Opens
  <2>3. CASE task[u].kind = "add"
    <3>1. u = o
      BY <1>6, <2>3 DEF Others
    <3> QED BY <1>1, <1>6, <2>3, <3>1 DEF Work, Sound, Opens
  <2>4. CASE task[u].kind = "idle"
    BY <1>1, <1>6, <2>4 DEF Others
  <2> QED BY <1>6, <2>1, <2>2, <2>3, <2>4 DEF Opens
<1>8. /\ \A a, b \in Alive : a # b /\ ~(a = u /\ b = v) => net'[<<a, b>>] = net[<<a, b>>]
      /\ Range(net'[<<u, v>>]) = Range(net[<<u, v>>]) \cup {m}
      /\ Once(u, v) /\ (m.kind = "open" => ~Has("open", u, v)) => Once(u, v)'
  BY <1>1, <1>7, Sends
<1> HIDE DEF m
<1>9. \A k : \A a, b \in Alive : a # b => (Has(k, a, b)' <=> Has(k, a, b) \/ (a = u /\ b = v /\ m.kind = k))
  BY <1>8 DEF Has
<1>10. \A q \in H : Place(H, o, n, q)'
  <2> TAKE q \in H
  <2>1. Place(H, o, n, q)
    BY DEF Agreeing
  <2>2. ASSUME OpenTo(o, q), q \in Alive PROVE OpenTo(o, q)'
    <3>1. CASE q = o
      BY <1>4, <1>5, <2>2, <3>1 DEF OpenTo
    <3>2. CASE q # o /\ Has("open", o, q)
      BY <1>5, <1>9, <2>2, <3>2 DEF OpenTo
    <3>3. CASE q # o /\ task[o].kind \in Opens /\ q \in task[o].todo
      <4>1. CASE o = u /\ q = v
        BY <1>5, <1>7, <1>9, <2>2, <3>3, <4>1 DEF OpenTo
      <4>2. CASE ~(o = u /\ q = v)
        BY <1>4, <1>5, <2>2, <3>3, <4>2 DEF OpenTo
      <4> QED BY <4>1, <4>2
    <3> QED BY <2>2, <3>1, <3>2, <3>3 DEF OpenTo
  <2>3. ASSUME AddTo(H, o, n, q), q \in Alive PROVE AddTo(H, o, n, q)'
    <3>1. q # n /\ conv'[q] = H \ {q, n}
      BY <1>1, <2>3 DEF AddTo
    <3>2. CASE task[o].kind = "invite"
      BY <1>4, <1>5, <3>1, <3>2 DEF AddTo
    <3>3. CASE q # o /\ Has("add", o, q)
      BY <1>5, <1>9, <2>3, <3>1, <3>3 DEF AddTo
    <3>4. CASE task[o].kind = "add" /\ q \in task[o].todo \cup {o}
      <4>1. CASE o = u /\ q = v
        BY <1>5, <1>7, <1>9, <2>3, <3>1, <3>4, <4>1 DEF AddTo
      <4>2. CASE ~(o = u /\ q = v)
        BY <1>4, <1>5, <3>1, <3>4, <4>2 DEF AddTo
      <4> QED BY <4>1, <4>2
    <3> QED BY <2>3, <3>2, <3>3, <3>4 DEF AddTo
  <2>4. q \notin Alive => q # v
    BY <1>1
  <2> QED BY <1>1, <1>4, <1>5, <2>1, <2>2, <2>3, <2>4 DEF Place
<1>11. \A q \in Alive : Others(H, o, q)'
  <2> TAKE q \in Alive
  <2>1. Others(H, o, q) /\ task'[q].todo \subseteq task[q].todo
    BY <1>4 DEF Agreeing
  <2> QED BY <1>4, <2>1 DEF Others
<1>12. Work(H, o, n)'
  <2>1. task'[o].todo \subseteq task[o].todo /\ conv' = conv
    BY <1>1, <1>4, <1>5
  <2>2. \A q \in task'[o].todo : task'[o].kind \in Opens =>
          task'[o].msg.kind = "open" /\ OtherPeers(q, o, task'[o].msg) = H \ {q}
    BY <1>4, <1>5, <1>6, <2>1 DEF Work, OtherPeers
  <2> QED BY <1>4, <1>5, <1>6, <2>1, <2>2 DEF Work
<1>13. \A a, b \in Alive : a # b => \A x \in Range(net'[<<a, b>>]) : Sound(H, o, n, a, b, x)
  <2> TAKE a, b \in Alive
  <2>1. CASE a = u /\ b = v
    BY <1>7, <1>8, <2>1 DEF Agreeing, m
  <2>2. CASE ~(a = u /\ b = v)
    BY <1>8, <2>2 DEF Agreeing
  <2> QED BY <2>1, <2>2
<1>14. \A q \in Alive \ {o} : OneOpen(o, q)'
  <2> TAKE q \in Alive \ {o}
  <2>1. OneOpen(o, q)
    BY DEF Agreeing
  <2>2. CASE o = u /\ q = v /\ m.kind = "open"
    <3>1. ~Exists(q) /\ ~Has("open", o, q) /\ task'[o].todo = task[o].todo \ {q}
      BY <1>1, <1>4, <1>5, <1>7, <2>1, <2>2 DEF OneOpen
    <3> QED BY <1>4, <1>5, <1>8, <2>1, <2>2, <3>1 DEF OneOpen
  <2>3. CASE ~(o = u /\ q = v /\ m.kind = "open")
    <3>1. Has("open", o, q)' <=> Has("open", o, q)
      BY <1>5, <1>9, <2>3
    <3>2. Once(o, q)'
      <4>1. CASE o = u /\ q = v
        BY <1>8, <2>1, <2>3, <4>1 DEF OneOpen
      <4>2. CASE ~(o = u /\ q = v)
        BY <1>5, <1>8, <2>1, <4>2 DEF OneOpen, Once
      <4> QED BY <4>1, <4>2
    <3>3. task'[o].todo \subseteq task[o].todo /\ task'[o].kind = task[o].kind
      BY <1>4, <1>5
    <3> QED BY <1>5, <2>1, <3>1, <3>2, <3>3 DEF OneOpen
  <2> QED BY <2>2, <2>3
<1> QED BY <1>1, <1>5, <1>10, <1>11, <1>12, <1>13, <1>14 DEF Agreeing, Sound, OtherPeers

\* The end of a part of the operation of o, with nobody left to send to: what o has
\* still to do, w, is the rest.
LEMMA FinishAgrees ==
  ASSUME IInv, NEW H \in SUBSET Users, NEW o \in H, NEW n \in H, Agreeing(H, o, n),
         task[o].kind \in {"create", "invite", "add"}, task[o].todo = {},
         NEW w, task' = [task EXCEPT ![o] = w], UNCHANGED <<net, created>>,
         NEW C \in SUBSET Users, conv' = [conv EXCEPT ![o] = C],
         \/ /\ w.kind = "idle" /\ w.todo = {} /\ C = H \ {o} /\ task[o].kind # "invite"
         \/ /\ w.kind = "add" /\ task[o].kind = "invite" /\ w.msg.kind = "add"
            /\ w.msg.peer = n /\ C = conv[o] /\ w.todo = C
  PROVE  Agreeing(H, o, n)'
<1>1. o \in Alive /\ created' /\ Work(H, o, n)
  BY DEF Agreeing
<1>2. task'[o] = w /\ \A q \in Alive \ {o} : task'[q] = task[q]
  BY <1>1 DEF IInv, TypeOK
<1>3. conv'[o] = C /\ C # NoConv /\ \A q \in Alive \ {o} : conv'[q] = conv[q]
  BY <1>1, ConversationsAssumption DEF IInv, TypeOK
<1>4. Exists(o)' /\ \A q \in Alive \ {o} : Exists(q)' <=> Exists(q)
  BY <1>3 DEF Exists
<1>5. \A k : \A q \in Alive : Has(k, o, q)' <=> Has(k, o, q)
  BY DEF Has
<1>6. task[o].kind = "invite" => n # o /\ conv[o] = H \ {o, n}
  BY <1>1 DEF Work
<1>7. \A q \in H : Place(H, o, n, q)'
  <2> TAKE q \in H
  <2>1. Place(H, o, n, q)
    BY DEF Agreeing
  <2>2. q \in Alive
    BY <2>1 DEF Place
  <2>3. CASE q = o
    BY <1>1, <1>2, <1>3, <1>4, <1>6, <2>2, <2>3 DEF Place, AddTo
  <2>4. CASE q # o
    <3>1. OpenTo(o, q) => OpenTo(o, q)'
      BY <1>4, <1>5, <2>2, <2>4 DEF OpenTo
    <3>2. AddTo(H, o, n, q) => AddTo(H, o, n, q)'
      BY <1>2, <1>3, <1>5, <1>6, <2>2, <2>4 DEF AddTo
    <3> QED BY <1>3, <1>4, <2>1, <2>2, <2>4, <3>1, <3>2 DEF Place
  <2> QED BY <2>3, <2>4
<1>8. \A q \in Alive : Others(H, o, q)'
  BY <1>2 DEF Others, Agreeing
<1>9. Work(H, o, n)'
  BY <1>2, <1>3, <1>4, <1>6 DEF Work, Opens
<1>10. \A q \in Alive \ {o} : OneOpen(o, q)'
  <2> TAKE q \in Alive \ {o}
  <2>1. OneOpen(o, q) /\ (Once(o, q)' <=> Once(o, q))
    BY DEF Agreeing, Once
  <2> QED BY <1>1, <1>2, <1>4, <1>5, <2>1 DEF OneOpen, Opens
<1>11. \A q \in Alive : Exists(q)' => q \in H
  BY <1>4 DEF Agreeing
<1> QED BY <1>1, <1>7, <1>8, <1>9, <1>10, <1>11 DEF Agreeing, Sound, OtherPeers

LEMMA OperationAgrees ==
  ASSUME IInv, NEW H \in SUBSET Users, NEW o \in H, NEW n \in H, Agreeing(H, o, n),
         NEW u \in Alive, Operation(u), calm'
  PROVE  Agreeing(H, o, n)'
<1>1. ASSUME NEW v \in Users, SendOne(u, v) PROVE Agreeing(H, o, n)'
  BY <1>1, SendOneAgrees
<1>2. ASSUME NEW v \in Users, SendFails(u, v) PROVE FALSE
  BY <1>2 DEF SendFails
<1>3. Others(H, o, u) /\ Work(H, o, n)
  BY DEF Agreeing
<1>4. Idle(u).kind = "idle" /\ Idle(u).todo = {}
  BY DEF Idle
<1> HIDE DEF Idle
<1>5. CASE FinishCreate(u)
  <2>1. /\ task[u].kind = "create" /\ task[u].todo = {} /\ UNCHANGED <<net, created>>
        /\ conv' = [conv EXCEPT ![u] = task[u].members]
        /\ task' = [task EXCEPT ![u] = Idle(u)]
    BY <1>5 DEF FinishCreate, Finishes, SaveConversation
  <2>2. u = o /\ task[o].members = H \ {o}
    BY <1>3, <2>1 DEF Others, Work
  <2> QED BY <1>4, <2>1, <2>2, FinishAgrees
<1>6. CASE TellMembers(u)
  <2> DEFINE m == [kind |-> "add", peers |-> {}, peer |-> task[u].msg.peer, id |-> 0]
             w == [kind |-> "add", todo |-> conv[u], members |-> {}, msg |-> m]
  <2>1. /\ task[u].kind = "invite" /\ task[u].todo = {} /\ UNCHANGED <<net, created, conv>>
        /\ Exists(u) /\ task' = [task EXCEPT ![u] = w]
    BY <1>6 DEF TellMembers, Finishes
  <2>2. u = o /\ task[o].msg.peer = n /\ conv[o] = H \ {o, n}
    BY <1>3, <2>1 DEF Others, Work
  <2>3. w.kind = "add" /\ w.todo = conv[o] /\ w.msg.kind = "add" /\ w.msg.peer = n
    BY <2>2
  <2>4. conv' = [conv EXCEPT ![o] = conv[o]]
    BY <2>1 DEF IInv, TypeOK
  <2> HIDE DEF w
  <2> QED BY <2>1, <2>2, <2>3, <2>4, FinishAgrees
<1>7. CASE FinishAdd(u)
  <2>1. /\ task[u].kind = "add" /\ task[u].todo = {} /\ UNCHANGED <<net, created>>
        /\ conv' = [conv EXCEPT ![u] = IF Exists(u) THEN @ \cup {task[u].msg.peer} ELSE @]
        /\ task' = [task EXCEPT ![u] = Idle(u)]
    BY <1>7 DEF FinishAdd, Finishes
  <2>2. u = o /\ task[o].msg.peer = n /\ Exists(o) /\ conv[o] = H \ {o, n} /\ n # o
    BY <1>3, <2>1 DEF Others, Work
  <2> DEFINE C == H \ {o}
  <2>3. C = conv[o] \cup {n} /\ C \in SUBSET Users
    BY <2>2
  <2>4. conv' = [conv EXCEPT ![o] = conv[o] \cup {n}]
    BY <2>1, <2>2
  <2>5. conv' = [conv EXCEPT ![o] = C] /\ task' = [task EXCEPT ![o] = Idle(u)]
    BY <2>1, <2>2, <2>3, <2>4
  <2> HIDE DEF C
  <2>6. C = H \ {o}
    BY DEF C
  <2> QED BY <1>4, <2>1, <2>2, <2>3, <2>5, <2>6, FinishAgrees
<1>8. CASE FinishSend(u)
  <2>1. /\ task[u].kind = "send" /\ UNCHANGED <<conv, net, created>>
        /\ task' = [task EXCEPT ![u] = Idle(u)]
    BY <1>8 DEF FinishSend, Finishes
  <2> QED BY <1>4, <2>1, SendersAgree
<1> QED BY <1>1, <1>2, <1>5, <1>6, <1>7, <1>8 DEF Operation

-----------------------------------------------------------------------------
(* The receive loop.                                                       *)

\* A message that u takes from v, and what it changes in the list of u alone.
LEMMA ReceiptAgrees ==
  ASSUME IInv, NEW H \in SUBSET Users, NEW o \in H, NEW n \in H, Agreeing(H, o, n),
         NEW u \in Alive, NEW v \in Alive \ {u}, NEW kind, Receives(u, v, kind),
         UNCHANGED <<task, created>>,
         \A q \in Alive \ {u} : conv'[q] = conv[q],
         conv'[u] # conv[u] => u # o,
         conv'[u] = conv[u] \/ conv'[u] = H \ {u},
         kind = "open" => v = o /\ conv'[u] = H \ {u},
         kind = "add" /\ v = o /\ AddTo(H, o, n, u) => conv'[u] = H \ {u},
         ~Exists(u) /\ conv'[u] # conv[u] => kind = "open"
  PROVE  Agreeing(H, o, n)'
<1>1. /\ \A a, b \in Alive : a # b /\ ~(a = v /\ b = u) => net'[<<a, b>>] = net[<<a, b>>]
      /\ Head(net[<<v, u>>]) \in Range(net[<<v, u>>]) /\ Head(net[<<v, u>>]).kind = kind
      /\ \A m \in Range(net[<<v, u>>]) : m = Head(net[<<v, u>>]) \/ m \in Range(net'[<<v, u>>])
      /\ Range(net'[<<v, u>>]) \subseteq Range(net[<<v, u>>])
      /\ Once(v, u) => Once(v, u)' /\ (kind = "open" => ~Has("open", v, u)')
  BY Receipt
<1>2. \A a, b \in Alive : a # b => Range(net'[<<a, b>>]) \subseteq Range(net[<<a, b>>])
  BY <1>1
<1>3. \A k : \A a, b \in Alive : a # b =>
        /\ Has(k, a, b)' => Has(k, a, b)
        /\ Has(k, a, b) => Has(k, a, b)' \/ (k = kind /\ a = v /\ b = u)
  BY <1>1 DEF Has
<1>4. o \in Alive /\ created' /\ u \in Alive /\ v \in Alive /\ u # v
  BY DEF Agreeing
<1>5. u \in H /\ H \ {u} # NoConv
  BY <1>1, <1>4, ConversationsAssumption DEF Agreeing, Sound
<1>6. \A q \in Alive \ {u} : Exists(q)' <=> Exists(q)
  BY DEF Exists
<1>7. Exists(u) => Exists(u)'
  BY <1>5 DEF Exists
<1>8. \A q \in H : Place(H, o, n, q)'
  <2> TAKE q \in H
  <2>1. Place(H, o, n, q)
    BY DEF Agreeing
  <2>2. CASE q # u
    <3>1. OpenTo(o, q) /\ q \in Alive => OpenTo(o, q)'
      BY <1>3, <1>4, <1>6, <2>2 DEF OpenTo
    <3>2. AddTo(H, o, n, q) /\ q \in Alive => AddTo(H, o, n, q)'
      BY <1>3, <1>4, <2>2 DEF AddTo
    <3> QED BY <1>6, <2>1, <2>2, <3>1, <3>2 DEF Place
  <2>3. CASE q = u /\ conv'[u] = H \ {u}
    BY <1>4, <1>5, <2>3 DEF Place, Exists
  <2>4. CASE q = u /\ conv'[u] # H \ {u}
    <3>1. conv'[u] = conv[u] /\ kind # "open"
      BY <2>4
    <3>2. OpenTo(o, u) => OpenTo(o, u)'
      BY <1>3, <1>4, <3>1 DEF OpenTo, Exists
    <3>3. AddTo(H, o, n, u) => AddTo(H, o, n, u)'
      <4>1. ~(kind = "add" /\ v = o /\ AddTo(H, o, n, u))
        BY <2>4
      <4> QED BY <1>3, <1>4, <3>1, <4>1 DEF AddTo
    <3> QED BY <1>4, <2>1, <2>4, <3>1, <3>2, <3>3 DEF Place, Exists
  <2> QED BY <2>2, <2>3, <2>4
<1>9. \A q \in Alive : Others(H, o, q)'
  BY DEF Others, Agreeing
<1>10. Work(H, o, n)'
  <2>1. Work(H, o, n)
    BY DEF Agreeing
  <2>2. CASE conv'[o] = conv[o]
    BY <2>1, <2>2 DEF Work, Exists
  <2>3. CASE conv'[o] # conv[o]
    BY <1>4, <2>3
  <2> QED BY <2>2, <2>3
<1>11. \A q \in Alive \ {o} : OneOpen(o, q)'
  <2> TAKE q \in Alive \ {o}
  <2>1. OneOpen(o, q)
    BY DEF Agreeing
  <2>2. CASE ~(o = v /\ q = u)
    <3>1. Once(o, q)' /\ (Has("open", o, q)' <=> Has("open", o, q))
      BY <1>1, <1>4, <2>1, <2>2 DEF OneOpen, Once, Has
    <3>2. Exists(q)' <=> Exists(q)
      <4>1. CASE q = u
        BY <1>7, <2>2, <4>1 DEF Exists
      <4>2. CASE q # u
        BY <1>6, <4>2
      <4> QED BY <4>1, <4>2
    <3> QED BY <2>1, <3>1, <3>2 DEF OneOpen
  <2>3. CASE o = v /\ q = u
    <3>1. Once(o, q)' /\ (kind = "open" => ~Has("open", o, q)') /\ (Has("open", o, q)' => Has("open", o, q))
      BY <1>1, <1>3, <1>4, <2>1, <2>3 DEF OneOpen
    <3>2. CASE kind = "open"
      <4>1. Has("open", o, q)
        BY <1>1, <2>3, <3>2 DEF Has
      <4> QED BY <2>1, <3>1, <3>2, <4>1 DEF OneOpen
    <3>3. CASE kind # "open"
      <4>1. Exists(q)' <=> Exists(q)
        BY <1>7, <2>3, <3>3 DEF Exists
      <4> QED BY <2>1, <3>1, <4>1 DEF OneOpen
    <3> QED BY <3>2, <3>3
  <2> QED BY <2>2, <2>3
<1>12. \A q \in Alive : Exists(q)' => q \in H
  BY <1>5, <1>6 DEF Agreeing
<1>13. \A a, b \in Alive : a # b => \A m \in Range(net'[<<a, b>>]) : Sound(H, o, n, a, b, m)
  BY <1>2 DEF Agreeing
<1> QED BY <1>4, <1>8, <1>9, <1>10, <1>11, <1>12, <1>13 DEF Agreeing, Sound, OtherPeers

\* A member that is told of n by o has o in its list.
LEMMA TeacherIsMember ==
  ASSUME IInv, NEW H \in SUBSET Users, NEW o \in H, NEW n \in H, n # o, NEW u \in Alive, u # o,
         conv[u] = H \ {u} \/ AddTo(H, o, n, u)
  PROVE  HasPeer(u, o)
<1>1. conv[u] # NoConv
  BY ConversationsAssumption DEF AddTo
<1> QED BY <1>1 DEF HasPeer, AddTo

LEMMA ReceiveAgrees ==
  ASSUME IInv, NEW H \in SUBSET Users, NEW o \in H, NEW n \in H, Agreeing(H, o, n),
         NEW u \in Alive, NEW v \in Alive \ {u},
         ReceiveOpen(u, v) \/ ReceiveData(u, v) \/ ReceiveAdd(u, v), calm'
  PROVE  Agreeing(H, o, n)'
<1> DEFINE m == Head(net[<<v, u>>])
<1>1. ASSUME NEW kind, Receives(u, v, kind)
      PROVE  m.kind = kind /\ m \in Range(net[<<v, u>>]) /\ Sound(H, o, n, v, u, m)
  <2>1. m.kind = kind /\ m \in Range(net[<<v, u>>])
    BY <1>1, Receipt
  <2> HIDE DEF m
  <2> QED BY <2>1 DEF Agreeing
<1>2. CASE ReceiveOpen(u, v)
  <2>1. Receives(u, v, "open") /\ UNCHANGED <<task, created>>
    BY <1>2 DEF ReceiveOpen
  <2>2. v = o /\ u # o /\ OtherPeers(u, v, m) = H \ {u} /\ Has("open", o, u)
    BY <1>1, <2>1 DEF Sound, Has
  <2>3. ~Exists(u)
    BY <2>2 DEF Agreeing, OneOpen
  <2>4. OpensConversation(u, v, m)
    BY <1>2, <2>3 DEF ReceiveOpen
  <2> HIDE DEF m
  <2>5. conv' = [conv EXCEPT ![u] = H \ {u}]
    BY <2>2, <2>4 DEF OpensConversation, SaveConversation
  <2>6. conv'[u] = H \ {u} /\ \A q \in Alive \ {u} : conv'[q] = conv[q]
    BY <2>5 DEF IInv, TypeOK
  <2> QED BY <2>1, <2>2, <2>6, ReceiptAgrees
<1>3. CASE ReceiveData(u, v)
  <2>1. Receives(u, v, "data") /\ UNCHANGED <<conv, task, created>>
    BY <1>3 DEF ReceiveData
  <2> QED BY <2>1, ReceiptAgrees
<1>4. CASE ReceiveAdd(u, v)
  <2>1. Receives(u, v, "add") /\ UNCHANGED <<task, created>>
    BY <1>4 DEF ReceiveAdd
  <2>2. v = o /\ u # o /\ n # o /\ m.peer = n
    BY <1>1, <2>1 DEF Sound
  <2>3. IF HasPeer(u, o) /\ n # u THEN AddsPeer(u, n) ELSE UNCHANGED conv
    BY <1>4, <2>2 DEF ReceiveAdd
  <2>4. u \in H /\ Place(H, o, n, u)
    BY <1>1, <2>1 DEF Sound, Agreeing
  <2> HIDE DEF m
  <2>5. CASE HasPeer(u, o) /\ n # u
    <3>1. conv' = [conv EXCEPT ![u] = @ \cup {n}]
      BY <2>3, <2>5 DEF AddsPeer
    <3>2. conv'[u] = conv[u] \cup {n} /\ \A q \in Alive \ {u} : conv'[q] = conv[q]
      BY <3>1 DEF IInv, TypeOK
    <3>3. Exists(u)
      BY <2>5 DEF HasPeer, Exists
    <3>4. conv[u] = H \ {u} \/ AddTo(H, o, n, u)
      BY <2>4, <3>3 DEF Place, OpenTo
    <3>5. conv'[u] = H \ {u}
      BY <2>5, <3>2, <3>4 DEF AddTo
    <3> QED BY <2>1, <2>2, <3>2, <3>3, <3>5, ReceiptAgrees
  <2>6. CASE ~(HasPeer(u, o) /\ n # u)
    <3>1. UNCHANGED conv
      BY <2>3, <2>6
    <3>2. ~AddTo(H, o, n, u)
      <4>1. AddTo(H, o, n, u) => n # u
        BY DEF AddTo
      <4> QED BY <2>2, <2>6, <4>1, TeacherIsMember
    <3> QED BY <2>1, <2>2, <3>1, <3>2, ReceiptAgrees
  <2> QED BY <2>5, <2>6
<1> QED BY <1>2, <1>3, <1>4

-----------------------------------------------------------------------------
(* The invariant of the members.                                           *)

\* Before the creation nothing can be done but create the conversation.
LEMMA NothingBefore ==
  ASSUME IInv, NotCreated, NEW u \in Alive
  PROVE  /\ \A v \in Users : ~InvitePeer(u, v)
         /\ ~SendMessage(u) /\ ~DeleteConversation(u) /\ ~Operation(u) /\ ~Receive(u)
<1>1. ~Exists(u) /\ task[u].kind = "idle" /\ task[u].todo = {}
  <2>1. ~Exists(u) /\ task[u] = Idle(u)
    BY Zenon DEF NotCreated
  <2> QED BY <2>1 DEF Idle
<1>2. \A v \in Users : ~SendOne(u, v) /\ ~SendFails(u, v)
  BY <1>1 DEF SendOne, SendFails
<1>3. ~FinishCreate(u) /\ ~TellMembers(u) /\ ~FinishAdd(u) /\ ~FinishSend(u)
  BY <1>1 DEF FinishCreate, TellMembers, FinishAdd, FinishSend, Finishes
<1>4. \A v \in Alive \ {u} : net[<<v, u>>] = <<>>
  BY DEF NotCreated, Pairs
<1>5. ~Receive(u)
  BY <1>4 DEF Receive, ReceiveOpen, ReceiveData, ReceiveAdd, Receives
<1> QED BY <1>1, <1>2, <1>3, <1>5 DEF InvitePeer, SendMessage, DeleteConversation, Operation

LEMMA CalmInit == Init => CalmInv
<1> SUFFICES ASSUME Init PROVE NotCreated
  BY DEF CalmInv
<1> QED BY DEF Init, NotCreated, Exists

LEMMA CalmStep == IInv /\ CalmInv /\ [Next]_vars => CalmInv'
<1> SUFFICES ASSUME IInv, CalmInv, [Next]_vars, calm'
             PROVE  NotCreated' \/ \E H \in SUBSET Users : \E o, n \in H : Agreeing(H, o, n)'
  BY DEF CalmInv
<1>1. CASE UNCHANGED vars
  <2>1. NotCreated \/ \E H \in SUBSET Users : \E o, n \in H : Agreeing(H, o, n)
    BY <1>1 DEF CalmInv, vars
  <2>2. UNCHANGED <<conv, task, net, created>>
    BY <1>1 DEF vars
  <2>3. CASE NotCreated
    BY <2>2, <2>3 DEF NotCreated, Exists, Idle
  <2>4. ASSUME NEW H \in SUBSET Users, NEW o \in H, NEW n \in H, Agreeing(H, o, n)
        PROVE  Agreeing(H, o, n)'
    BY <2>2, <2>4 DEF Agreeing, Place, OpenTo, AddTo, Others, Work, Sound, OtherPeers, OneOpen,
                      Once, Has, Exists
  <2> QED BY <2>1, <2>3, <2>4
<1>2. CASE Next
  <2>1. PICK u \in Alive :
          \/ \E P \in SUBSET (Users \ {u}) : \E first \in BOOLEAN : CreateConversation(u, P, first)
          \/ \E v \in Users : InvitePeer(u, v)
          \/ SendMessage(u) \/ DeleteConversation(u)
          \/ Operation(u) \/ Receive(u)
    BY <1>2 DEF Next
  <2>2. calm
    BY <2>1 DEF CreateConversation, InvitePeer, SendMessage, DeleteConversation, Operation,
         SendOne, SendFails, FinishCreate, TellMembers, FinishAdd, FinishSend, Receive,
         ReceiveOpen, OpensConversation, ReceiveData, ReceiveAdd, AddsPeer
  <2>3. CASE NotCreated
    <3>1. PICK P \in SUBSET (Users \ {u}), first \in BOOLEAN : CreateConversation(u, P, first)
      BY <2>1, <2>3, NothingBefore
    <3>2. Agreeing(P \cup {u}, u, u)'
      BY <2>3, <3>1, CreationAgrees
    <3>3. P \cup {u} \in SUBSET Users /\ u \in P \cup {u}
      BY DEF Alive
    <3> QED BY <3>2, <3>3
  <2>4. CASE ~NotCreated
    <3>1. PICK H \in SUBSET Users : \E o, n \in H : Agreeing(H, o, n)
      BY <2>2, <2>4 DEF CalmInv
    <3>2. PICK o \in H, n \in H : Agreeing(H, o, n)
      BY <3>1
    <3>3. ASSUME NEW P \in SUBSET (Users \ {u}), NEW first \in BOOLEAN,
                 CreateConversation(u, P, first)
          PROVE  FALSE
      BY <3>2, <3>3 DEF CreateConversation, Agreeing
    <3>4. ASSUME NEW v \in Users, InvitePeer(u, v)
          PROVE  \E G \in SUBSET Users : \E p, q \in G : Agreeing(G, p, q)'
      <4>1. Agreeing(H \cup {v}, u, v)'
        BY <3>2, <3>4, InvitationAgrees
      <4>2. u \in H
        BY <3>2, <3>4 DEF InvitePeer, Agreeing
      <4>3. H \cup {v} \in SUBSET Users /\ u \in H \cup {v} /\ v \in H \cup {v}
        BY <4>2
      <4> QED BY <4>1, <4>3
    <3>5. CASE SendMessage(u)
      <4> DEFINE m == [kind |-> "data", peers |-> {}, peer |-> u, id |-> msgs']
                 w == [kind |-> "send", todo |-> conv[u], members |-> {}, msg |-> m]
      <4>1. /\ task[u].kind = "idle" /\ Exists(u) /\ UNCHANGED <<conv, net, created>>
            /\ task' = [task EXCEPT ![u] = w]
        BY <3>5 DEF SendMessage
      <4>2. w.kind = "send" /\ w.todo = conv[u] /\ w.msg.kind = "data"
        OBVIOUS
      <4>3. u \in H /\ conv[u] \subseteq H \ {u}
        <5>1. u \in H /\ Place(H, o, n, u)
          BY <3>2, <4>1 DEF Agreeing
        <5> QED BY <4>1, <5>1 DEF Place, OpenTo, AddTo
      <4> HIDE DEF w
      <4> QED BY <3>2, <4>1, <4>2, <4>3, SendersAgree
    <3>6. CASE DeleteConversation(u)
      BY <3>6 DEF DeleteConversation
    <3>7. CASE Operation(u)
      BY <3>2, <3>7, OperationAgrees
    <3>8. CASE Receive(u)
      BY <3>2, <3>8, ReceiveAgrees DEF Receive
    <3> QED BY <2>1, <3>3, <3>4, <3>5, <3>6, <3>7, <3>8
  <2> QED BY <2>3, <2>4
<1> QED BY <1>1, <1>2

LEMMA CalmInvariant == Spec => [](IInv /\ CalmInv)
<1>1. CalmInv /\ IInv /\ [Next]_vars => CalmInv'
  BY CalmStep
<1> QED BY <1>1, CalmInit, Invariant, PTL DEF Spec

\* All the members have the same list when everything has arrived, for every set of
\* users and every number of messages and additions: neither new_open_conv,
\* new_open_group_conv and handle_new_conversation, nor the OpenConv and the
\* AddPeerToConv of an addition, leave out a member or count one twice.
THEOREM MembersAlwaysAgree == Spec => []MembersAgree
<1>1. IInv /\ CalmInv => MembersAgree
  <2> SUFFICES ASSUME IInv, CalmInv, Quiet, calm, NEW u \in Alive, Exists(u)
               PROVE  /\ u \notin conv[u]
                      /\ \A v \in conv[u] : Exists(v) /\ conv[v] \cup {v} = conv[u] \cup {u}
    BY DEF MembersAgree
  <2>1. PICK H \in SUBSET Users : \E o, n \in H : Agreeing(H, o, n)
    BY DEF CalmInv, NotCreated
  <2>2. PICK o \in H, n \in H : Agreeing(H, o, n)
    BY <2>1
  <2>3. H \subseteq Alive /\ \A q \in H : Exists(q) /\ conv[q] = H \ {q}
    BY <2>2, SettledMembers DEF Quiet
  <2>4. u \in H
    BY <2>2 DEF Agreeing
  <2> QED BY <2>3, <2>4
<1> QED BY <1>1, CalmInvariant, PTL

\* A content message of v that u ignores, as v is not in its list: the list of u is
\* still to come, or v is still to be added to it.
LEMMA IgnoredInRace ==
  ASSUME IInv, NEW H \in SUBSET Users, NEW o \in H, NEW n \in H, Agreeing(H, o, n),
         NEW u \in Alive, NEW v \in Alive \ {u}, Receives(u, v, "data"), ~HasPeer(u, v)
  PROVE  OpenPending(u) \/ (net'[<<v, u>>] # net[<<v, u>>] /\ JoinPending(u, v))
<1>1. /\ Head(net[<<v, u>>]) \in Range(net[<<v, u>>]) /\ net'[<<v, u>>] # net[<<v, u>>]
  BY Receipt
<1>2. v \in H /\ u \in H
  BY <1>1 DEF Agreeing, Sound
<1>3. /\ o \in Alive /\ Place(H, o, n, u) /\ Work(H, o, n)
      /\ \A a, b \in Alive : a # b => \A m \in Range(net[<<a, b>>]) : Sound(H, o, n, a, b, m)
  BY <1>2 DEF Agreeing
<1>4. CASE OpenTo(o, u)
  <2>1. u # o /\ task[o].kind \in Opens /\ u \in task[o].todo => task[o].msg.kind = "open"
    BY <1>3 DEF Work
  <2> QED BY <1>3, <1>4, <2>1 DEF OpenTo, OpenPending, Has
<1>5. CASE Exists(u) /\ conv[u] = H \ {u}
  BY <1>2, <1>5 DEF Exists, HasPeer
<1>6. CASE Exists(u) /\ AddTo(H, o, n, u)
  <2>1. v = n
    BY <1>2, <1>6 DEF AddTo, HasPeer, Exists
  <2>2. CASE task[o].kind \in {"invite", "add"}
    BY <1>1, <1>3, <2>1, <2>2 DEF Work, JoinPending
  <2>3. CASE u # o /\ Has("add", o, u)
    <3>1. PICK m \in Range(net[<<o, u>>]) : m.kind = "add"
      BY <2>3 DEF Has
    <3>2. m.peer = n
      BY <1>3, <2>3, <3>1 DEF Sound
    <3> QED BY <1>1, <1>3, <2>1, <2>3, <3>1, <3>2 DEF JoinPending
  <2> QED BY <1>6, <2>2, <2>3 DEF AddTo
<1> QED BY <1>3, <1>4, <1>5, <1>6 DEF Place

\* A message that arrives is ignored in two races only, for every set of users and
\* every number of messages and additions: the recipient has still to save the
\* conversation, or to learn that the sender is a member ("discarding message" in
\* handle_incomming_message).
THEOREM IgnoresOnlyInRace == Spec => IgnoredOnlyInRace
<1>1. IInv /\ CalmInv /\ [Next]_vars =>
        [\A u \in Alive : \A n \in 1 .. MaxMsgs :
           (<<u, n>> \in ignored' \ ignored /\ calm') =>
             \/ OpenPending(u)
             \/ \E v \in Alive \ {u} : net'[<<v, u>>] # net[<<v, u>>] /\ JoinPending(u, v)]_vars
  <2> SUFFICES ASSUME IInv, CalmInv, Next, NEW u \in Alive, NEW k \in 1 .. MaxMsgs,
                      <<u, k>> \in ignored' \ ignored, calm'
               PROVE  \/ OpenPending(u)
                      \/ \E v \in Alive \ {u} :
                           net'[<<v, u>>] # net[<<v, u>>] /\ JoinPending(u, v)
    OBVIOUS
  <2>1. PICK w \in Alive : Receive(w)
    BY DEF Next, CreateConversation, InvitePeer, SendMessage, DeleteConversation, Operation,
       SendOne, SendFails, FinishCreate, TellMembers, FinishAdd, FinishSend
  <2>2. PICK v \in Alive \ {w} : ReceiveOpen(w, v) \/ ReceiveData(w, v) \/ ReceiveAdd(w, v)
    BY <2>1 DEF Receive
  <2>3. calm
    BY <2>2 DEF ReceiveOpen, OpensConversation, ReceiveData, ReceiveAdd, AddsPeer
  <2>4. PICK H \in SUBSET Users : \E o, n \in H : Agreeing(H, o, n)
    BY <2>1, <2>3, NothingBefore DEF CalmInv
  <2>5. PICK o \in H, n \in H : Agreeing(H, o, n)
    BY <2>4
  <2>6. CASE ReceiveAdd(w, v)
    BY <2>6 DEF ReceiveAdd
  <2>7. CASE ReceiveOpen(w, v)
    <3>1. Receives(w, v, "open")
      BY <2>7 DEF ReceiveOpen
    <3>2. Head(net[<<v, w>>]) \in Range(net[<<v, w>>]) /\ Head(net[<<v, w>>]).kind = "open"
      BY <3>1, Receipt
    <3>3. v = o /\ Has("open", o, w)
      BY <2>5, <3>2 DEF Agreeing, Sound, Has
    <3>4. ~Exists(w)
      BY <2>5, <3>3 DEF Agreeing, OneOpen
    <3>5. OpensConversation(w, v, Head(net[<<v, w>>]))
      BY <2>7, <3>4 DEF ReceiveOpen
    <3> QED BY <3>5 DEF OpensConversation
  <2>8. CASE ReceiveData(w, v)
    <3>1. /\ Receives(w, v, "data") /\ ~HasPeer(w, v)
          /\ Ignores(w, Head(net[<<v, w>>]))
      BY <2>8 DEF ReceiveData
    <3>2. u = w
      BY <3>1 DEF Ignores
    <3> QED BY <2>5, <3>1, <3>2, IgnoredInRace
  <2> QED BY <2>2, <2>6, <2>7, <2>8
<1> QED BY <1>1, CalmInvariant, PTL DEF Spec, IgnoredOnlyInRace

=============================================================================
