---------------------------- MODULE AsyncClient ----------------------------
(***************************************************************************)
(* The asynchronous mode of the end-to-end client (e2e/client): tasks that *)
(* share a ClientHandle, the send worker, the receive worker, the server   *)
(* at the other end of the connection, and the chat worker that consumes   *)
(* what the receive worker decrypts and may itself make requests.          *)
(*                                                                         *)
(* A packet is a request id and the serial number of the send that made    *)
(* it: the serial stands for the packet's content, so that an answer can   *)
(* be compared with the request it answers.                                *)
(***************************************************************************)
EXTENDS Naturals, Sequences, Functions

CONSTANTS
  Callers,      \* the tasks that hold a clone of the ClientHandle
  Chat,         \* the one that runs chat/client/worker.rs
  MaxId,        \* u16::MAX, the largest request id
  SendCap,      \* capacity of send_channel (100 in the code)
  OutCap,       \* capacity of out_channel (100 in the code)
  Faulty,       \* whether the connection may be lost and packets may be bad
  WireCap,      \* bound: packets the server has written and nobody has read
  MaxSends,     \* bound: packets handed to send_channel in a behaviour
  MaxChats      \* bound: conversation messages the server relays

ASSUME CallersAssumption == Chat \in Callers
ASSUME BoundsAssumption ==
  /\ MaxId \in Nat \ {0} /\ SendCap \in Nat \ {0} /\ OutCap \in Nat \ {0}
  /\ WireCap \in Nat \ {0}
  /\ Faulty \in BOOLEAN
  /\ MaxSends \in Nat /\ MaxChats \in Nat

VARIABLES
  next_request_id,   \* E2EClientState.next_request_id
  waiting_requests,  \* id -> serial whose oneshot sender is held, 0 if none
  pc,                \* where each caller is in ClientHandle::request or a plain send
  rid,               \* the request id of each caller's current request
  req,               \* the serial of each caller's current packet, 0 before the first
  shot,              \* the receiving half of each caller's oneshot channel
  got,               \* the serial of the request that the answer in it answers
  send_channel,      \* packets queued for the send worker
  toServer,          \* packets written, not yet handled by the server
  fromServer,        \* what the server wrote, in order
  rx,                \* receive worker: running, holding a chat message, stopped
  tx,                \* send worker
  out_channel,       \* number of chat messages queued for the chat worker
  chat,              \* chat worker: waiting for a message, handling one, ended
  connected,         \* whether the connection is up
  sends, relayed     \* counters behind the bounds

callVars == <<next_request_id, waiting_requests, pc, rid, req, shot, got>>
wireVars == <<send_channel, toServer, fromServer>>
workVars == <<rx, tx, out_channel, chat, connected>>
vars == <<callVars, wireVars, workVars, sends, relayed>>

Ids == 0 .. MaxId
Serials == 0 .. MaxSends
Packet == [id : Ids, req : Serials]
Reply == [id : Ids, req : Serials, kind : {"ok", "error", "chat"}]

TypeOK ==
  /\ next_request_id \in 1 .. MaxId
  /\ waiting_requests \in [Ids -> Serials]
  /\ pc \in [Callers -> {"idle", "posting", "requesting", "waiting"}]
  /\ rid \in [Callers -> Ids]
  /\ req \in [Callers -> Serials]
  /\ shot \in [Callers -> {"open", "ok", "error", "closed"}]
  /\ got \in [Callers -> Serials]
  /\ send_channel \in Seq(Packet)
  /\ toServer \subseteq Packet
  /\ fromServer \in Seq(Reply)
  /\ rx \in {"running", "sending", "stopped"}
  /\ tx \in {"running", "stopped"}
  /\ out_channel \in 0 .. OutCap
  /\ chat \in {"receiving", "handling", "ended"}
  /\ connected \in BOOLEAN
  /\ sends \in Serials
  /\ relayed \in 0 .. MaxChats

Init ==
  /\ next_request_id = 1
  /\ waiting_requests = [i \in Ids |-> 0]
  /\ pc = [c \in Callers |-> "idle"]
  /\ rid = [c \in Callers |-> 0]
  /\ req = [c \in Callers |-> 0]
  /\ shot = [c \in Callers |-> "closed"]
  /\ got = [c \in Callers |-> 0]
  /\ send_channel = <<>> /\ toServer = {} /\ fromServer = <<>>
  /\ rx = "running" /\ tx = "running"
  /\ out_channel = 0
  /\ chat = "receiving"
  /\ connected = TRUE
  /\ sends = 0 /\ relayed = 0

-----------------------------------------------------------------------------
(* The callers.                                                            *)

\* A request whose oneshot sender may still be used: not yet answered.
Pending(c) == pc[c] \in {"requesting", "waiting"}

\* The chat worker calls the handle only while it handles a message.
MayCall(c) == pc[c] = "idle" /\ (c = Chat => chat = "handling")

\* Mutant of NextId: the overflow is not treated, 0 becomes a request id.
NextIdNoSkip(n) == (n + 1) % (MaxId + 1)

\* u16 overflowing_add, skipping 0, the id of untagged packets.
NextId(n) == IF n = MaxId THEN 1 ELSE n + 1

\* Ids that a packet or a caller still carries.
IdsInUse ==
  {p.id : p \in Range(send_channel) \cup toServer \cup Range(fromServer)}
    \cup {rid[c] : c \in {d \in Callers : Pending(d)}}

\* Mutant of TagMessage: the oneshot sender is not registered.
TagMessageUnregistered(c) ==
  /\ MayCall(c)
  /\ sends < MaxSends
  /\ next_request_id \notin IdsInUse
  /\ sends' = sends + 1
  /\ next_request_id' = NextId(next_request_id)
  /\ pc' = [pc EXCEPT ![c] = "requesting"]
  /\ rid' = [rid EXCEPT ![c] = next_request_id]
  /\ req' = [req EXCEPT ![c] = sends + 1]
  /\ shot' = [shot EXCEPT ![c] = "open"]
  /\ UNCHANGED <<waiting_requests, got, wireVars, workVars, relayed>>

\* E2EClientState::tag_message, under the state's lock. Bound: fewer than
\* MaxId requests are made while one of them is outstanding, so the counter
\* never comes round to an id that is in use.
TagMessage(c) ==
  /\ MayCall(c)
  /\ sends < MaxSends
  /\ next_request_id \notin IdsInUse
  /\ sends' = sends + 1
  /\ waiting_requests' = [waiting_requests EXCEPT ![next_request_id] = sends + 1]
  /\ next_request_id' = NextId(next_request_id)
  /\ pc' = [pc EXCEPT ![c] = "requesting"]
  /\ rid' = [rid EXCEPT ![c] = next_request_id]
  /\ req' = [req EXCEPT ![c] = sends + 1]
  /\ shot' = [shot EXCEPT ![c] = "open"]
  /\ UNCHANGED <<got, wireVars, workVars, relayed>>

\* ClientHandle::send over an existing session: an untagged packet, no answer
\* is awaited.
Post(c) ==
  /\ MayCall(c)
  /\ sends < MaxSends
  /\ sends' = sends + 1
  /\ pc' = [pc EXCEPT ![c] = "posting"]
  /\ rid' = [rid EXCEPT ![c] = 0]
  /\ req' = [req EXCEPT ![c] = sends + 1]
  /\ UNCHANGED <<next_request_id, waiting_requests, shot, got, wireVars, workVars, relayed>>

\* send_channel.send(packet).await: waits for room.
Enqueue(c) ==
  /\ pc[c] \in {"posting", "requesting"}
  /\ tx = "running"
  /\ Len(send_channel) < SendCap
  /\ send_channel' = Append(send_channel, [id |-> rid[c], req |-> req[c]])
  /\ pc' = [pc EXCEPT ![c] = IF @ = "posting" THEN "idle" ELSE "waiting"]
  /\ UNCHANGED <<next_request_id, waiting_requests, rid, req, shot, got,
                 toServer, fromServer, workVars, sends, relayed>>

\* A failed call of the chat worker is an error of handle_incomming_message,
\* which ends receive_loop and drops the receiver of out_channel.
ChatStopsIf(failed) ==
  /\ chat' = IF failed THEN "ended" ELSE chat
  /\ out_channel' = IF failed THEN 0 ELSE out_channel

\* The call of the handle ends and its half of the oneshot channel with it.
EndCall(c) ==
  /\ pc' = [pc EXCEPT ![c] = "idle"]
  /\ rid' = [rid EXCEPT ![c] = 0] /\ req' = [req EXCEPT ![c] = 0]
  /\ shot' = [shot EXCEPT ![c] = "closed"] /\ got' = [got EXCEPT ![c] = 0]

\* The send worker is gone: SendError, and the oneshot sender stays registered.
EnqueueFails(c) ==
  /\ pc[c] \in {"posting", "requesting"}
  /\ tx = "stopped"
  /\ EndCall(c)
  /\ ChatStopsIf(c = Chat)
  /\ UNCHANGED <<next_request_id, waiting_requests, wireVars, rx, tx, connected,
                 sends, relayed>>

\* channel.await completes. The chat worker tolerates one error answer only,
\* UserNotFound while it resolves the members of a new conversation.
Return(c) ==
  /\ pc[c] = "waiting"
  /\ shot[c] # "open"
  /\ EndCall(c)
  /\ \E failed \in BOOLEAN :
       /\ failed => c = Chat /\ shot[c] # "ok"
       /\ (c = Chat /\ shot[c] = "closed") => failed
       /\ ChatStopsIf(failed)
  /\ UNCHANGED <<next_request_id, waiting_requests, wireVars, rx, tx, connected,
                 sends, relayed>>

-----------------------------------------------------------------------------
(* The chat worker's own loop.                                             *)

ChatTake ==
  /\ chat = "receiving"
  /\ out_channel > 0
  /\ out_channel' = out_channel - 1
  /\ chat' = "handling"
  /\ UNCHANGED <<callVars, wireVars, rx, tx, connected, sends, relayed>>

ChatDone ==
  /\ chat = "handling"
  /\ pc[Chat] = "idle"
  /\ chat' = "receiving"
  /\ UNCHANGED <<callVars, wireVars, rx, tx, out_channel, connected, sends, relayed>>

\* A storage error while handling a message, or the receive worker's end of
\* out_channel dropped and the queue drained.
ChatEnd ==
  /\ \/ chat = "handling" /\ pc[Chat] = "idle" /\ Faulty
     \/ chat = "receiving" /\ out_channel = 0 /\ rx = "stopped"
  /\ ChatStopsIf(TRUE)
  /\ UNCHANGED <<callVars, wireVars, rx, tx, connected, sends, relayed>>

-----------------------------------------------------------------------------
(* The send worker, the connection and the server.                         *)

WriterSend ==
  /\ tx = "running"
  /\ send_channel # <<>>
  /\ connected
  /\ toServer' = toServer \cup {Head(send_channel)}
  /\ send_channel' = Tail(send_channel)
  /\ UNCHANGED <<callVars, fromServer, workVars, sends, relayed>>

\* The writer fails: the worker ends, its receiver and the queue are dropped.
WriterFails ==
  /\ tx = "running"
  /\ send_channel # <<>>
  /\ ~connected
  /\ tx' = "stopped"
  /\ send_channel' = <<>>
  /\ UNCHANGED <<callVars, toServer, fromServer, rx, out_channel, chat, connected,
                 sends, relayed>>

ConnectionLost ==
  /\ Faulty
  /\ connected
  /\ connected' = FALSE
  /\ toServer' = {}
  /\ UNCHANGED <<callVars, send_channel, fromServer, rx, tx, out_channel, chat, sends, relayed>>

\* The server answers a packet under the id it carries, in no particular
\* order; an untagged packet gets an untagged answer.
ServerReply(p) ==
  /\ connected
  /\ p \in toServer
  /\ Len(fromServer) < WireCap
  /\ toServer' = toServer \ {p}
  /\ \E kind \in {"ok", "error"} :
       /\ kind = "error" => Faulty
       /\ fromServer' = Append(fromServer, [id |-> p.id, req |-> p.req, kind |-> kind])
  /\ UNCHANGED <<callVars, send_channel, workVars, sends, relayed>>

\* Instant relay of another user's conversation message.
ServerRelay ==
  /\ connected
  /\ relayed < MaxChats
  /\ Len(fromServer) < WireCap
  /\ relayed' = relayed + 1
  /\ fromServer' = Append(fromServer, [id |-> 0, req |-> 0, kind |-> "chat"])
  /\ UNCHANGED <<callVars, send_channel, toServer, workVars, sends>>

-----------------------------------------------------------------------------
(* The receive worker.                                                     *)

\* Mutant of Holds: an answer goes to the oldest request, its id is ignored.
HoldsOldest(c, s) ==
  Pending(c) /\ \A d \in Callers : Pending(d) => req[c] <= req[d]

\* The caller that holds the receiving half of the oneshot of serial s.
Holds(c, s) == Pending(c) /\ req[c] = s

\* Whether a packet is a synchronous answer someone may be waiting for.
Answers(p) == p.id # 0 /\ waiting_requests[p.id] # 0

\* Mutant of DispatchAnswer: the sender is looked up and not removed.
DispatchAnswerKept ==
  /\ rx = "running"
  /\ fromServer # <<>>
  /\ LET p == Head(fromServer) IN
       /\ Answers(p)
       /\ shot' = [c \in Callers |-> IF Holds(c, waiting_requests[p.id]) THEN p.kind ELSE shot[c]]
       /\ got' = [c \in Callers |-> IF Holds(c, waiting_requests[p.id]) THEN p.req ELSE got[c]]
  /\ fromServer' = Tail(fromServer)
  /\ UNCHANGED <<waiting_requests, next_request_id, pc, rid, req, send_channel, toServer,
                 workVars, sends, relayed>>

\* main_loop, tagged packet with a waiting channel: remove it and send. When the
\* receiving half is gone the answer is discarded.
DispatchAnswer ==
  /\ rx = "running"
  /\ fromServer # <<>>
  /\ LET p == Head(fromServer) IN
       /\ Answers(p)
       /\ waiting_requests' = [waiting_requests EXCEPT ![p.id] = 0]
       /\ shot' = [c \in Callers |-> IF Holds(c, waiting_requests[p.id]) THEN p.kind ELSE shot[c]]
       /\ got' = [c \in Callers |-> IF Holds(c, waiting_requests[p.id]) THEN p.req ELSE got[c]]
  /\ fromServer' = Tail(fromServer)
  /\ UNCHANGED <<next_request_id, pc, rid, req, send_channel, toServer, workVars,
                 sends, relayed>>

\* Mutant of Shutdown: the worker ends without clearing waiting_requests, which
\* the callers' handles keep alive.
ShutdownNoClear ==
  /\ rx' = "stopped"
  /\ fromServer' = <<>>
  /\ UNCHANGED callVars

\* shutdown(): every registered oneshot sender is dropped. The end of the task
\* drops the reader and its end of out_channel.
Shutdown ==
  /\ rx' = "stopped"
  /\ waiting_requests' = [i \in Ids |-> 0]
  /\ shot' = [c \in Callers |->
                IF \E i \in 1 .. MaxId :
                     waiting_requests[i] # 0 /\ Holds(c, waiting_requests[i])
                THEN "closed" ELSE shot[c]]
  /\ fromServer' = <<>>
  /\ UNCHANGED <<next_request_id, pc, rid, req, got>>

\* process_message on a packet nobody waits for: Ok and answers that came too
\* late are dropped, and so is a conversation message that cannot be decrypted
\* (it is cached), or it is decrypted and held for out_channel.
ProcessMessage ==
  /\ rx = "running"
  /\ fromServer # <<>>
  /\ LET p == Head(fromServer) IN
       /\ ~Answers(p)
       /\ p.kind # "error"
       /\ rx' \in IF p.kind = "chat" THEN {"sending"} \cup (IF Faulty THEN {"running"} ELSE {})
                  ELSE {"running"}
  /\ fromServer' = Tail(fromServer)
  /\ UNCHANGED <<callVars, send_channel, toServer, tx, out_channel, chat, connected,
                 sends, relayed>>

\* An untagged Error, or a message whose processing fails for good, stops the
\* worker.
ProcessFails ==
  /\ rx = "running"
  /\ fromServer # <<>>
  /\ LET p == Head(fromServer) IN
       ~Answers(p) /\ (p.kind = "error" \/ (p.kind = "chat" /\ Faulty))
  /\ Shutdown
  /\ UNCHANGED <<send_channel, toServer, tx, out_channel, chat, connected, sends, relayed>>

ReaderFails ==
  /\ rx = "running"
  /\ ~connected
  /\ Shutdown
  /\ UNCHANGED <<send_channel, toServer, tx, out_channel, chat, connected, sends, relayed>>

\* out_channel.send(m).await: waits for room.
Deliver ==
  /\ rx = "sending"
  /\ chat # "ended"
  /\ out_channel < OutCap
  /\ out_channel' = out_channel + 1
  /\ rx' = "running"
  /\ UNCHANGED <<callVars, wireVars, tx, chat, connected, sends, relayed>>

DeliverFails ==
  /\ rx = "sending"
  /\ chat = "ended"
  /\ Shutdown
  /\ UNCHANGED <<send_channel, toServer, tx, out_channel, chat, connected, sends, relayed>>

-----------------------------------------------------------------------------

Next ==
  \/ \E c \in Callers :
       TagMessage(c) \/ Post(c) \/ Enqueue(c) \/ EnqueueFails(c) \/ Return(c)
  \/ ChatTake \/ ChatDone \/ ChatEnd
  \/ WriterSend \/ WriterFails \/ ConnectionLost
  \/ \E p \in toServer : ServerReply(p)
  \/ ServerRelay
  \/ DispatchAnswer \/ ProcessMessage \/ ProcessFails \/ ReaderFails
  \/ Deliver \/ DeliverFails

Spec == Init /\ [][Next]_vars

\* The runtime runs every task that is ready; a server that is connected
\* answers; a lost connection is noticed. Nobody has to make a call, to relay a
\* message or to lose the connection.
Fairness ==
  /\ \A c \in Callers :
       WF_vars(Enqueue(c)) /\ WF_vars(EnqueueFails(c)) /\ WF_vars(Return(c))
  /\ WF_vars(ChatTake) /\ WF_vars(ChatDone) /\ WF_vars(ChatEnd)
  /\ WF_vars(WriterSend) /\ WF_vars(WriterFails)
  /\ WF_vars(\E p \in toServer : ServerReply(p))
  /\ WF_vars(DispatchAnswer \/ ProcessMessage \/ ProcessFails)
  /\ WF_vars(ReaderFails) /\ WF_vars(Deliver) /\ WF_vars(DeliverFails)

FairSpec == Spec /\ Fairness

-----------------------------------------------------------------------------
(* Properties.                                                             *)

\* An answer reaches the caller that asked for it: whatever the order of the
\* server's answers and the reuse of request ids, what a caller finds in its
\* oneshot channel answers the packet it sent (request, main_loop).
AnswersMatch ==
  \A c \in Callers :
    (Pending(c) /\ shot[c] \in {"ok", "error"}) => got[c] = req[c]

\* No caller waits on a channel nobody can complete: while a request is
\* unanswered its oneshot sender is registered under its id (tag_message,
\* shutdown).
SenderKept ==
  \A c \in Callers :
    (Pending(c) /\ shot[c] = "open") => waiting_requests[rid[c]] = req[c]

\* waiting_requests does not leak: while the send worker lives, each registered
\* sender is that of a request somebody is still waiting for.
NoStaleEntry ==
  tx = "running" =>
    \A i \in 1 .. MaxId :
      waiting_requests[i] # 0 => \E c \in Callers : Holds(c, waiting_requests[i]) /\ rid[c] = i

\* The two workers wait for one another for ever: the receive worker holds a
\* message for a full out_channel, which only the chat worker empties, and the
\* chat worker waits for an answer, which only the receive worker can give it
\* (receive.rs:253, the out_channel.send inside main_loop).
Deadlocked ==
  /\ rx = "sending" /\ out_channel = OutCap
  /\ pc[Chat] = "waiting" /\ shot[Chat] = "open"

\* A request made before the receive worker stops ends, with its answer or with
\* ReceiveWorkerStopped, even if the connection is lost in between: this is what
\* shutdown's clearing of waiting_requests is for. The one exception is the
\* deadlock of the two workers, in which no caller's request ends.
RequestsEndBeforeStop ==
  \A c \in Callers :
    (pc[c] = "waiting" /\ rx # "stopped") ~> (pc[c] # "waiting" \/ Deadlocked)

\* "Send a synchronous request and wait for the response": every request ends.
RequestsEnd == \A c \in Callers : (pc[c] = "waiting") ~> (pc[c] # "waiting")

\* Every conversation message that reached the receive worker is taken by the
\* chat worker in the end, unless the receive worker stops or the two workers
\* deadlock: a full out_channel holds nothing up for another reason.
RelayedAreTaken ==
  (rx = "sending" \/ out_channel > 0)
    ~> ((rx # "sending" /\ out_channel = 0) \/ rx = "stopped" \/ Deadlocked)
=============================================================================
