---------------------------- MODULE ClientProofs ----------------------------
(***************************************************************************)
(* Proofs about the asynchronous client, for every set of callers, peers,  *)
(* capacities and bounds.                                                  *)
(*                                                                         *)
(* The first part is about AsyncClient: type correctness, and the three    *)
(* safety properties of the request table, from the invariant IInv.        *)
(*                                                                         *)
(* The second part is about Sync, the synchronization that comes before    *)
(* the workers: lemmas about sequences that are filtered, counted and kept *)
(* in order, then its three safety properties, from the invariant SyncInv. *)
(***************************************************************************)
EXTENDS AsyncClient, Sync, FiniteSetTheorems, WellFoundedInduction, TLAPS

-----------------------------------------------------------------------------
(* The request table.                                                      *)

InTransit == Range(send_channel) \cup toServer \cup Range(fromServer)

\* A packet under a registered id carries the registered request.
TransitMatch ==
  \A p \in InTransit :
    (p.id # 0 /\ waiting_requests[p.id] # 0) => waiting_requests[p.id] = p.req

\* So does a pending caller; and requests have ids and serials that are not 0,
\* untagged sends the id 0.
CallerMatch ==
  \A c \in Callers :
    /\ Pending(c) => /\ rid[c] # 0 /\ req[c] # 0
                     /\ waiting_requests[rid[c]] # 0 => waiting_requests[rid[c]] = req[c]
    /\ pc[c] = "posting" => rid[c] = 0

\* A caller whose oneshot channel is complete or closed is no longer registered.
AnsweredGone ==
  \A c \in Callers : (Pending(c) /\ shot[c] # "open") => waiting_requests[rid[c]] = 0

\* Each serial is registered once, and none from the future.
SerialsUnique ==
  /\ \A i, j \in Ids :
       (waiting_requests[i] # 0 /\ waiting_requests[i] = waiting_requests[j]) => i = j
  /\ \A i \in Ids : waiting_requests[i] <= sends

RelaysUntagged == \A p \in Range(fromServer) : p.kind = "chat" => p.id = 0

IInv ==
  /\ TypeOK
  /\ TransitMatch
  /\ CallerMatch
  /\ AnsweredGone
  /\ SerialsUnique
  /\ RelaysUntagged
  /\ AnswersMatch
  /\ SenderKept
  /\ NoStaleEntry

-----------------------------------------------------------------------------
(* Sequences as channels.                                                  *)

\* A packet appended to a channel is the only new one in it.
LEMMA RangeAppend ==
  ASSUME NEW S, NEW s \in Seq(S), NEW x \in S
  PROVE  Range(Append(s, x)) = Range(s) \cup {x}
<1> DEFINE t == Append(s, x)
<1>1. /\ Len(s) \in Nat /\ DOMAIN s = 1 .. Len(s)
      /\ t \in Seq(S) /\ Len(t) = Len(s) + 1 /\ DOMAIN t = 1 .. Len(t)
      /\ \A i \in 1 .. Len(s) : t[i] = s[i]
      /\ t[Len(t)] = x
  OBVIOUS
<1> HIDE DEF t
<1>2. DOMAIN t = DOMAIN s \cup {Len(t)}
  BY <1>1
<1>3. Range(t) = Range(s) \cup {x}
  BY <1>1, <1>2 DEF Range
<1> QED BY <1>3 DEF t

\* Taking the head of a channel adds nothing to it.
LEMMA RangeTail ==
  ASSUME NEW S, NEW s \in Seq(S), s # <<>>
  PROVE  /\ Head(s) \in Range(s) /\ Head(s) \in S
         /\ Tail(s) \in Seq(S)
         /\ Range(Tail(s)) \subseteq Range(s)
  BY DEF Range

\* Nothing is in an empty channel.
LEMMA RangeEmpty == Range(<<>>) = {}
  BY DEF Range

\* What is in a channel has the type of its packets.
LEMMA RangeType ==
  ASSUME NEW S, NEW s \in Seq(S)
  PROVE  Range(s) \subseteq S
  BY DEF Range

\* What is in transit has an id and a serial, whichever channel it is in.
LEMMA TransitType ==
  TypeOK => \A p \in InTransit : p.id \in Ids /\ p.req \in Serials
  <1> SUFFICES ASSUME TypeOK, NEW p \in InTransit PROVE p.id \in Ids /\ p.req \in Serials
    OBVIOUS
  <1>1. Range(send_channel) \subseteq Packet /\ Range(fromServer) \subseteq Reply
    BY RangeType DEF TypeOK
  <1> QED BY <1>1 DEF TypeOK, InTransit, Packet, Reply

\* The successor of a request id is a request id, never 0: the u16 overflow is
\* skipped (tag_message).
LEMMA NextIdType == \A n \in 1 .. MaxId : NextId(n) \in 1 .. MaxId
  BY BoundsAssumption DEF NextId

-----------------------------------------------------------------------------
(* Each action preserves the invariant.                                    *)

\* A client that has just started satisfies the invariant.
LEMMA InitInv == Init => IInv
<1> SUFFICES ASSUME Init PROVE IInv
  OBVIOUS
<1> USE BoundsAssumption, RangeEmpty
        DEF Init, Ids, Serials
<1>1. TypeOK
  BY DEF TypeOK, Packet, Reply
<1>2. InTransit = {} /\ Range(fromServer) = {}
  BY DEF InTransit
<1>3. \A c \in Callers : ~Pending(c) /\ pc[c] # "posting"
  BY DEF Pending
<1>4. TransitMatch /\ RelaysUntagged
  BY <1>2 DEF TransitMatch, RelaysUntagged
<1>5. CallerMatch /\ AnsweredGone /\ AnswersMatch /\ SenderKept
  BY <1>3 DEF CallerMatch, AnsweredGone, AnswersMatch, SenderKept
<1>6. SerialsUnique /\ NoStaleEntry
  BY DEF SerialsUnique, NoStaleEntry
<1> QED BY <1>1, <1>4, <1>5, <1>6 DEF IInv

\* tag_message registers a fresh request under an id nothing else carries.
LEMMA TagInv ==
  ASSUME IInv, NEW c \in Callers, TagMessage(c)
  PROVE  IInv'
<1> DEFINE n == next_request_id
<1> USE DEF IInv
<1>0. /\ n \in Ids /\ n # 0 /\ n \in 1 .. MaxId
      /\ sends \in Nat /\ sends + 1 \in Serials /\ sends' = sends + 1
      /\ Serials \subseteq Nat /\ 0 \in Serials
      /\ waiting_requests' = [waiting_requests EXCEPT ![n] = sends + 1]
      /\ waiting_requests \in [Ids -> Serials]
  BY BoundsAssumption DEF TagMessage, TypeOK, Ids, Serials
<1>a. /\ \A p \in InTransit : p.id # n
      /\ \A d \in Callers : Pending(d) => rid[d] # n
  BY DEF TagMessage, IdsInUse, InTransit
<1>1. TypeOK'
  <2>1. NextId(n) \in 1 .. MaxId
    BY <1>0, NextIdType
  <2>2. waiting_requests' \in [Ids -> Serials]
    BY <1>0
  <2>3. /\ pc' \in [Callers -> {"idle", "posting", "requesting", "waiting"}]
        /\ rid' \in [Callers -> Ids] /\ req' \in [Callers -> Serials]
        /\ shot' \in [Callers -> {"open", "ok", "error", "closed"}]
    BY <1>0 DEF TypeOK, TagMessage
  <2> QED BY <1>0, <2>1, <2>2, <2>3 DEF TypeOK, TagMessage, wireVars, workVars
<1>2. InTransit' = InTransit /\ Range(fromServer)' = Range(fromServer)
  BY DEF TagMessage, InTransit, wireVars
<1>3. /\ Pending(c)' /\ ~Pending(c) /\ rid'[c] = n /\ req'[c] = sends + 1 /\ shot'[c] = "open"
      /\ pc'[c] = "requesting"
      /\ \A d \in Callers : d # c =>
           /\ Pending(d)' <=> Pending(d)
           /\ pc'[d] = pc[d] /\ rid'[d] = rid[d] /\ req'[d] = req[d]
           /\ shot'[d] = shot[d] /\ got'[d] = got[d]
  BY DEF TagMessage, TypeOK, Pending, MayCall
<1>b. /\ waiting_requests'[n] = sends + 1
      /\ \A i \in Ids : i # n => waiting_requests'[i] = waiting_requests[i]
      /\ \A i \in Ids : waiting_requests[i] \in Nat
      /\ \A d \in Callers : rid[d] \in Ids /\ req[d] \in Nat
      /\ \A p \in InTransit : p.id \in Ids
  <2>1. \A i \in Ids : waiting_requests[i] \in Nat
    BY <1>0
  <2>2. \A d \in Callers : rid[d] \in Ids /\ req[d] \in Nat
    BY <1>0 DEF TypeOK
  <2>3. \A p \in InTransit : p.id \in Ids
    BY TransitType
  <2> QED BY <1>0, <2>1, <2>2, <2>3
<1>4. TransitMatch'
  BY <1>0, <1>a, <1>b, <1>2 DEF TransitMatch
<1>5. CallerMatch' /\ AnsweredGone' /\ SenderKept'
  BY <1>0, <1>a, <1>b, <1>3 DEF CallerMatch, AnsweredGone, SenderKept
<1>6. AnswersMatch'
  BY <1>3 DEF AnswersMatch
<1>7. SerialsUnique'
  BY <1>0, <1>b DEF SerialsUnique
<1>8. RelaysUntagged'
  BY <1>2 DEF RelaysUntagged
<1>9. NoStaleEntry'
  <2>0. SUFFICES ASSUME tx' = "running", NEW i \in 1 .. MaxId, waiting_requests'[i] # 0
               PROVE  \E d \in Callers : Holds(d, waiting_requests[i])' /\ rid'[d] = i
    BY DEF NoStaleEntry
  <2>1. CASE i = n
    BY <1>b, <1>3, <2>1 DEF Holds
  <2>2. CASE i # n
    <3>1. waiting_requests'[i] = waiting_requests[i] /\ tx = "running"
      BY BoundsAssumption, <1>b, <2>0, <2>2 DEF TagMessage, workVars, Ids
    <3>2. PICK d \in Callers : Holds(d, waiting_requests[i]) /\ rid[d] = i
      BY <2>0, <3>1 DEF NoStaleEntry
    <3>3. d # c
      BY <3>2, <1>3 DEF Holds
    <3> QED BY <3>1, <3>2, <3>3, <1>3 DEF Holds
  <2> QED BY <2>1, <2>2
<1> QED BY <1>1, <1>4, <1>5, <1>6, <1>7, <1>8, <1>9

\* A step that leaves the callers and the table alone and puts nothing new in
\* transit but untagged packets and answers to what was in transit.
LEMMA QuietStep ==
  ASSUME IInv, TypeOK', RelaysUntagged',
         UNCHANGED callVars, sends' = sends,
         tx' = "running" => tx = "running",
         \A p \in InTransit' :
           p.id = 0 \/ \E q \in InTransit : q.id = p.id /\ q.req = p.req
  PROVE  IInv'
<1> USE DEF IInv, callVars
<1>1. TransitMatch'
  BY DEF TransitMatch
<1>2. \A c \in Callers : /\ Pending(c)' <=> Pending(c)
                         /\ \A n : Holds(c, n)' <=> Holds(c, n)
  BY DEF Pending, Holds
<1>3. CallerMatch' /\ AnsweredGone' /\ SenderKept' /\ AnswersMatch'
  BY <1>2 DEF CallerMatch, AnsweredGone, SenderKept, AnswersMatch
<1>4. SerialsUnique'
  BY DEF SerialsUnique
<1>5. NoStaleEntry'
  BY DEF NoStaleEntry, Holds, Pending
<1> QED BY <1>1, <1>3, <1>4, <1>5

\* Moving conversation messages between the receive worker and the chat worker
\* does not touch the requests.
LEMMA ChatInv ==
  ASSUME IInv, ChatTake \/ ChatDone \/ ChatEnd \/ Deliver
  PROVE  IInv'
<1> USE DEF ChatTake, ChatDone, ChatEnd, ChatStopsIf, Deliver
<1>1. TypeOK'
  BY BoundsAssumption DEF IInv, TypeOK, callVars, wireVars
<1>2. UNCHANGED <<callVars, wireVars, tx, sends>>
  OBVIOUS
<1>3. RelaysUntagged' /\ InTransit' = InTransit
  BY <1>2 DEF IInv, RelaysUntagged, InTransit, wireVars
<1> QED BY <1>1, <1>2, <1>3, QuietStep DEF callVars

\* Packets that are written or lost with the connection were in transit before.
LEMMA WriterInv ==
  ASSUME IInv, WriterSend \/ WriterFails \/ ConnectionLost
  PROVE  IInv'
<1> USE DEF WriterSend, WriterFails, ConnectionLost
<1>1. /\ send_channel \in Seq(Packet) /\ toServer \subseteq Packet
      /\ UNCHANGED <<callVars, fromServer, rx, out_channel, chat, sends, relayed>>
      /\ tx' \in {tx, "stopped"}
  BY DEF IInv, TypeOK, workVars
<1>2. /\ send_channel' \in Seq(Packet) /\ toServer' \subseteq Packet
      /\ Range(send_channel') \cup toServer' \subseteq Range(send_channel) \cup toServer
  <2>1. CASE WriterSend
    BY <1>1, <2>1, RangeTail
  <2>2. CASE WriterFails
    BY <1>1, <2>2, RangeEmpty
  <2>3. CASE ConnectionLost
    BY <1>1, <2>3
  <2> QED BY <2>1, <2>2, <2>3
<1>3. TypeOK'
  BY <1>1, <1>2 DEF IInv, TypeOK, callVars, workVars
<1>4. RelaysUntagged' /\ InTransit' \subseteq InTransit
  BY <1>1, <1>2 DEF IInv, RelaysUntagged, InTransit
<1> QED BY <1>1, <1>3, <1>4, QuietStep

\* The server answers under the id and for the request of a packet it got, or
\* relays under id 0.
LEMMA ServerInv ==
  ASSUME IInv, ServerRelay \/ \E p \in toServer : ServerReply(p)
  PROVE  IInv'
<1>1. CASE ServerRelay
  <2> DEFINE r == [id |-> 0, req |-> 0, kind |-> "chat"]
  <2>1. /\ r \in Reply /\ r.id = 0 /\ r.kind = "chat"
        /\ fromServer \in Seq(Reply) /\ fromServer' = Append(fromServer, r)
        /\ UNCHANGED <<callVars, send_channel, toServer, workVars, sends>>
        /\ relayed' \in 0 .. MaxChats
    BY <1>1, BoundsAssumption DEF ServerRelay, IInv, TypeOK, Reply, Ids, Serials
  <2> HIDE DEF r
  <2>2. Range(fromServer') = Range(fromServer) \cup {r} /\ fromServer' \in Seq(Reply)
    BY <2>1, RangeAppend
  <2>3. TypeOK'
    BY <2>1, <2>2 DEF IInv, TypeOK, callVars, workVars
  <2>4. RelaysUntagged' /\ InTransit' = InTransit \cup {r}
    BY <2>1, <2>2 DEF IInv, RelaysUntagged, InTransit
  <2> QED BY <2>1, <2>3, <2>4, QuietStep DEF workVars
<1>2. ASSUME NEW p \in toServer, ServerReply(p) PROVE IInv'
  <2>1. PICK kind \in {"ok", "error"} :
          fromServer' = Append(fromServer, [id |-> p.id, req |-> p.req, kind |-> kind])
    BY <1>2 DEF ServerReply
  <2> DEFINE r == [id |-> p.id, req |-> p.req, kind |-> kind]
  <2>2. /\ r \in Reply /\ r.id = p.id /\ r.req = p.req /\ r.kind # "chat"
        /\ fromServer \in Seq(Reply) /\ fromServer' = Append(fromServer, r)
        /\ UNCHANGED <<callVars, send_channel, workVars, sends, relayed>>
        /\ toServer' \subseteq toServer
    BY <1>2, <2>1 DEF ServerReply, IInv, TypeOK, Packet, Reply
  <2> HIDE DEF r
  <2>3. Range(fromServer') = Range(fromServer) \cup {r} /\ fromServer' \in Seq(Reply)
    BY <2>2, RangeAppend
  <2>4. TypeOK'
    BY <2>2, <2>3 DEF IInv, TypeOK, callVars, workVars
  <2>5. RelaysUntagged' /\ InTransit' \subseteq InTransit \cup {r} /\ p \in InTransit
    BY <2>2, <2>3 DEF IInv, RelaysUntagged, InTransit
  <2> QED BY <2>2, <2>4, <2>5, QuietStep DEF workVars
<1> QED BY <1>1, <1>2

\* A packet nobody waits for leaves no trace in the request table.
LEMMA ProcessInv ==
  ASSUME IInv, ProcessMessage
  PROVE  IInv'
<1>1. /\ fromServer \in Seq(Reply) /\ fromServer # <<>> /\ fromServer' = Tail(fromServer)
      /\ UNCHANGED <<callVars, send_channel, toServer, tx, out_channel, chat, connected,
                     sends, relayed>>
      /\ rx' \in {"running", "sending"}
  BY DEF ProcessMessage, IInv, TypeOK
<1>2. Range(fromServer') \subseteq Range(fromServer) /\ fromServer' \in Seq(Reply)
  BY <1>1, RangeTail
<1>3. TypeOK'
  BY <1>1, <1>2 DEF IInv, TypeOK, callVars
<1>4. RelaysUntagged' /\ InTransit' \subseteq InTransit
  BY <1>1, <1>2 DEF IInv, RelaysUntagged, InTransit
<1> QED BY <1>1, <1>3, <1>4, QuietStep

\* A step of caller c that ends with c not pending, leaves the table and the
\* other callers alone and puts nothing new in transit. If c was pending and the
\* send worker lives, c must have been answered.
LEMMA CallerLeaves ==
  ASSUME IInv, TypeOK', RelaysUntagged', NEW c \in Callers,
         UNCHANGED waiting_requests,
         sends' \in {sends, sends + 1},
         tx' = "running" => tx = "running",
         InTransit' \subseteq InTransit \cup {[id |-> 0, req |-> req[c]]},
         ~Pending(c)', pc'[c] = "posting" => rid'[c] = 0,
         tx' = "running" /\ Pending(c) => shot[c] # "open",
         \A d \in Callers : d # c =>
           /\ pc'[d] = pc[d] /\ rid'[d] = rid[d] /\ req'[d] = req[d]
           /\ shot'[d] = shot[d] /\ got'[d] = got[d]
  PROVE  IInv'
<1> USE DEF IInv
<1>1. TransitMatch'
  BY DEF TransitMatch
<1>2. \A d \in Callers : d # c => /\ Pending(d)' <=> Pending(d)
                                  /\ \A n : Holds(d, n)' <=> Holds(d, n)
  BY DEF Pending, Holds
<1>3. CallerMatch' /\ AnsweredGone' /\ SenderKept' /\ AnswersMatch'
  BY <1>2 DEF CallerMatch, AnsweredGone, SenderKept, AnswersMatch
<1>4. SerialsUnique'
  <2>1. sends \in Nat /\ sends' \in Nat /\ \A i \in Ids : waiting_requests[i] \in Nat
    BY BoundsAssumption DEF TypeOK, Serials
  <2> QED BY <2>1 DEF SerialsUnique
<1>5. NoStaleEntry'
  <2>0. SUFFICES ASSUME tx' = "running", NEW i \in 1 .. MaxId, waiting_requests[i] # 0
        PROVE  \E d \in Callers : Holds(d, waiting_requests[i])' /\ rid'[d] = i
    BY DEF NoStaleEntry
  <2>1. PICK d \in Callers : Holds(d, waiting_requests[i]) /\ rid[d] = i
    BY <2>0 DEF NoStaleEntry
  <2>2. d # c
    BY <2>0, <2>1 DEF Holds, AnsweredGone
  <2> QED BY <2>1, <2>2, <1>2 DEF Holds
<1> QED BY <1>1, <1>3, <1>4, <1>5

\* An untagged send starts without touching the request table.
LEMMA PostInv ==
  ASSUME IInv, NEW c \in Callers, Post(c)
  PROVE  IInv'
<1> USE DEF IInv
<1>1. sends + 1 \in Serials /\ 0 \in Ids
  BY BoundsAssumption DEF Post, TypeOK, Serials, Ids
<1>2. TypeOK'
  <2>1. /\ pc' \in [Callers -> {"idle", "posting", "requesting", "waiting"}]
        /\ rid' \in [Callers -> Ids] /\ req' \in [Callers -> Serials]
    BY <1>1 DEF Post, TypeOK
  <2> QED BY <1>1, <2>1 DEF Post, TypeOK, wireVars, workVars
<1>3. RelaysUntagged' /\ InTransit' = InTransit
  BY DEF Post, RelaysUntagged, InTransit, wireVars
<1>4. pc'[c] = "posting" /\ rid'[c] = 0 /\ ~Pending(c)' /\ ~Pending(c)
  BY DEF Post, TypeOK, Pending, MayCall
<1>5. \A d \in Callers : d # c => pc'[d] = pc[d] /\ rid'[d] = rid[d] /\ req'[d] = req[d]
  BY DEF Post, TypeOK
<1>6. UNCHANGED <<waiting_requests, shot, got, tx>> /\ sends' = sends + 1
  BY DEF Post, workVars
<1> QED BY <1>2, <1>3, <1>4, <1>5, <1>6, CallerLeaves

\* A caller leaves with an answer, or with an error once the send worker is gone.
LEMMA ReturnInv ==
  ASSUME IInv, NEW c \in Callers, Return(c) \/ EnqueueFails(c)
  PROVE  IInv'
<1> USE DEF IInv
<1>1. /\ EndCall(c)
      /\ chat' \in {chat, "ended"} /\ out_channel' \in {out_channel, 0}
      /\ UNCHANGED <<next_request_id, waiting_requests, wireVars, rx, tx, connected,
                     sends, relayed>>
      /\ tx' = "running" => shot[c] # "open"
  BY DEF Return, EnqueueFails, ChatStopsIf
<1>2. TypeOK'
  <2>1. 0 \in Ids /\ 0 \in Serials
    BY BoundsAssumption DEF Ids, Serials
  <2>2. /\ pc' \in [Callers -> {"idle", "posting", "requesting", "waiting"}]
        /\ rid' \in [Callers -> Ids] /\ req' \in [Callers -> Serials]
        /\ shot' \in [Callers -> {"open", "ok", "error", "closed"}]
        /\ got' \in [Callers -> Serials]
    BY <1>1, <2>1 DEF TypeOK, EndCall
  <2> QED BY <1>1, <2>2, BoundsAssumption DEF TypeOK, wireVars
<1>3. RelaysUntagged' /\ InTransit' = InTransit
  BY <1>1 DEF RelaysUntagged, InTransit, wireVars
<1>4. /\ pc'[c] = "idle"
      /\ \A d \in Callers : d # c =>
           /\ pc'[d] = pc[d] /\ rid'[d] = rid[d] /\ req'[d] = req[d]
           /\ shot'[d] = shot[d] /\ got'[d] = got[d]
  BY <1>1 DEF TypeOK, EndCall
<1> QED BY <1>1, <1>2, <1>3, <1>4, CallerLeaves DEF Pending

\* The packet queued for the send worker is that of its caller's request.
LEMMA EnqueueInv ==
  ASSUME IInv, NEW c \in Callers, Enqueue(c)
  PROVE  IInv'
<1> USE DEF IInv
<1> DEFINE p == [id |-> rid[c], req |-> req[c]]
<1>1. /\ p \in Packet /\ p.id = rid[c] /\ p.req = req[c]
      /\ send_channel \in Seq(Packet) /\ send_channel' = Append(send_channel, p)
      /\ UNCHANGED <<next_request_id, waiting_requests, rid, req, shot, got,
                     toServer, fromServer, workVars, sends, relayed>>
  BY DEF Enqueue, TypeOK, Packet
<1> HIDE DEF p
<1>2. Range(send_channel') = Range(send_channel) \cup {p} /\ send_channel' \in Seq(Packet)
  BY <1>1, RangeAppend
<1>3. TypeOK'
  <2>1. pc' \in [Callers -> {"idle", "posting", "requesting", "waiting"}]
    BY DEF TypeOK, Enqueue
  <2> QED BY <1>1, <1>2, <2>1 DEF TypeOK, workVars
<1>4. RelaysUntagged' /\ InTransit' = InTransit \cup {p}
  BY <1>1, <1>2 DEF RelaysUntagged, InTransit
<1>5. /\ \A d \in Callers : d # c => pc'[d] = pc[d]
      /\ pc[c] \in {"posting", "requesting"}
      /\ pc'[c] = IF pc[c] = "posting" THEN "idle" ELSE "waiting"
  BY DEF Enqueue, TypeOK
<1>6. CASE pc[c] = "posting"
  <2>1. rid[c] = 0 /\ p = [id |-> 0, req |-> req[c]]
    BY <1>6 DEF CallerMatch, p
  <2> QED BY <1>1, <1>3, <1>4, <1>5, <1>6, <2>1, CallerLeaves DEF Pending, workVars
<1>7. CASE pc[c] = "requesting"
  <2>1. \A d \in Callers : /\ Pending(d)' <=> Pending(d)
                           /\ pc'[d] = "posting" => pc[d] = "posting"
                           /\ \A n : Holds(d, n)' <=> Holds(d, n)
    BY <1>1, <1>5, <1>7 DEF Pending, Holds
  <2>2. TransitMatch'
    <3>1. p.id # 0 /\ waiting_requests[p.id] # 0 => waiting_requests[p.id] = p.req
      BY <1>1, <1>7 DEF CallerMatch, Pending
    <3> QED BY <1>1, <1>4, <3>1 DEF TransitMatch
  <2>3. CallerMatch' /\ AnsweredGone' /\ SenderKept' /\ AnswersMatch'
    BY <1>1, <2>1 DEF CallerMatch, AnsweredGone, SenderKept, AnswersMatch
  <2>4. SerialsUnique'
    BY <1>1 DEF SerialsUnique
  <2>5. NoStaleEntry'
    BY <1>1, <2>1 DEF NoStaleEntry, workVars
  <2> QED BY <1>3, <1>4, <2>2, <2>3, <2>4, <2>5
<1> QED BY <1>5, <1>6, <1>7

\* The answer to a registered request completes one oneshot channel at most, the
\* channel of the caller that made the request.
LEMMA DispatchInv ==
  ASSUME IInv, DispatchAnswer
  PROVE  IInv'
<1> USE DEF IInv
<1> DEFINE p == Head(fromServer)
           n == waiting_requests[p.id]
<1>1. /\ p \in Reply /\ p \in Range(fromServer) /\ p \in InTransit
      /\ Tail(fromServer) \in Seq(Reply)
      /\ Range(Tail(fromServer)) \subseteq Range(fromServer)
  BY RangeTail DEF DispatchAnswer, TypeOK, InTransit
<1>2. /\ p.id # 0 /\ n # 0 /\ n = p.req /\ p.kind \in {"ok", "error"}
      /\ p.id \in Ids /\ p.req \in Serials /\ p.id \in 1 .. MaxId
  <2>1. p.id # 0 /\ n # 0
    BY DEF DispatchAnswer, Answers
  <2>2. n = p.req
    BY <1>1, <2>1 DEF TransitMatch
  <2>3. p.id \in Ids /\ p.req \in Serials /\ p.kind \in {"ok", "error"}
    BY <1>1, <2>1 DEF Reply, RelaysUntagged
  <2> QED BY <2>1, <2>2, <2>3, BoundsAssumption DEF Ids
<1>3. /\ fromServer' = Tail(fromServer)
      /\ waiting_requests' = [waiting_requests EXCEPT ![p.id] = 0]
      /\ \A c \in Callers : shot'[c] = IF Holds(c, n) THEN p.kind ELSE shot[c]
      /\ \A c \in Callers : got'[c] = IF Holds(c, n) THEN p.req ELSE got[c]
      /\ UNCHANGED <<next_request_id, pc, rid, req, send_channel, toServer, workVars,
                     sends, relayed>>
  BY DEF DispatchAnswer
<1>4. TypeOK'
  <2>1. shot' \in [Callers -> {"open", "ok", "error", "closed"}]
    BY <1>2 DEF DispatchAnswer, TypeOK
  <2>2. got' \in [Callers -> Serials]
    BY <1>2 DEF DispatchAnswer, TypeOK
  <2>3. waiting_requests' \in [Ids -> Serials]
    BY <1>2, <1>3, BoundsAssumption DEF TypeOK, Serials
  <2> QED BY <1>1, <1>3, <2>1, <2>2, <2>3 DEF TypeOK, workVars
<1> HIDE DEF p
<1>5. /\ waiting_requests'[p.id] = 0
      /\ \A i \in Ids : i # p.id => waiting_requests'[i] = waiting_requests[i]
      /\ \A i \in Ids : waiting_requests[i] \in Nat
      /\ \A c \in Callers : rid[c] \in Ids
      /\ \A q \in InTransit : q.id \in Ids
  <2>1. \A q \in InTransit : q.id \in Ids
    BY TransitType
  <2> QED BY <1>2, <1>3, <2>1 DEF TypeOK, Serials
<1>6. InTransit' \subseteq InTransit /\ Range(fromServer)' \subseteq Range(fromServer)
  BY <1>1, <1>3 DEF InTransit, p
<1>7. \A c \in Callers : /\ Pending(c)' <=> Pending(c)
                         /\ \A m : Holds(c, m)' <=> Holds(c, m)
  BY <1>3 DEF Pending, Holds
<1>8. \A c \in Callers : (Pending(c) /\ shot[c] = "open") => (Holds(c, n) <=> rid[c] = p.id)
  <2> SUFFICES ASSUME NEW c \in Callers, Pending(c), shot[c] = "open"
               PROVE  Holds(c, n) <=> rid[c] = p.id
    OBVIOUS
  <2>1. waiting_requests[rid[c]] = req[c] /\ req[c] # 0 /\ rid[c] \in Ids
    BY <1>5 DEF SenderKept, CallerMatch
  <2>2. rid[c] = p.id <=> req[c] = n
    BY <1>2, <2>1 DEF SerialsUnique
  <2> QED BY <2>2 DEF Holds
<1>9. TransitMatch' /\ RelaysUntagged'
  BY <1>2, <1>5, <1>6 DEF TransitMatch, RelaysUntagged
<1>10. CallerMatch'
  BY <1>2, <1>3, <1>5, <1>7 DEF CallerMatch
<1>11. AnsweredGone'
  BY <1>2, <1>3, <1>5, <1>7, <1>8 DEF AnsweredGone
<1>12. SenderKept'
  BY <1>2, <1>3, <1>5, <1>7, <1>8 DEF SenderKept
<1>13. AnswersMatch'
  BY <1>2, <1>3, <1>7 DEF AnswersMatch, Holds
<1>14. SerialsUnique'
  <2>1. sends' = sends /\ sends \in Nat
    BY <1>3 DEF TypeOK, Serials
  <2>2. \A i \in Ids : waiting_requests'[i] \in {0, waiting_requests[i]}
    BY <1>5
  <2>3. \A i \in Ids : waiting_requests'[i] # 0 => waiting_requests'[i] = waiting_requests[i]
    BY <2>2
  <2>4. \A i \in Ids : waiting_requests'[i] <= sends'
    BY <1>5, <2>1, <2>2 DEF SerialsUnique
  <2> QED BY <2>3, <2>4 DEF SerialsUnique
<1>15. NoStaleEntry'
  <2>0. SUFFICES ASSUME tx' = "running", NEW i \in 1 .. MaxId, waiting_requests'[i] # 0
        PROVE  \E d \in Callers : Holds(d, waiting_requests[i])' /\ rid'[d] = i
    BY DEF NoStaleEntry
  <2>1. i \in Ids /\ i # p.id /\ waiting_requests'[i] = waiting_requests[i] /\ tx = "running"
    BY <1>3, <1>5, <2>0, BoundsAssumption DEF workVars, Ids
  <2>2. PICK d \in Callers : Holds(d, waiting_requests[i]) /\ rid[d] = i
    BY <2>0, <2>1 DEF NoStaleEntry
  <2> QED BY <1>3, <1>7, <2>1, <2>2 DEF Holds
<1> QED BY <1>4, <1>9, <1>10, <1>11, <1>12, <1>13, <1>14, <1>15

\* The end of the receive worker, whatever its reason, empties the table and
\* closes the channel of every caller that was still registered.
LEMMA ShutdownInv ==
  ASSUME IInv, ProcessFails \/ ReaderFails \/ DeliverFails
  PROVE  IInv'
<1> USE DEF IInv
<1>1. /\ Shutdown
      /\ UNCHANGED <<send_channel, toServer, tx, out_channel, chat, connected, sends, relayed>>
  BY DEF ProcessFails, ReaderFails, DeliverFails
<1>2. /\ fromServer' = <<>> /\ rx' = "stopped"
      /\ \A i \in Ids : waiting_requests'[i] = 0
      /\ UNCHANGED <<next_request_id, pc, rid, req, got>>
      /\ 0 \in Serials /\ 1 .. MaxId \subseteq Ids
  BY <1>1, BoundsAssumption DEF Shutdown, Ids, Serials
<1>3. TypeOK'
  <2>1. /\ waiting_requests' \in [Ids -> Serials]
        /\ shot' \in [Callers -> {"open", "ok", "error", "closed"}]
    BY <1>1, <1>2 DEF Shutdown, TypeOK
  <2> QED BY <1>1, <1>2, <2>1 DEF TypeOK
<1>4. InTransit' \subseteq InTransit /\ Range(fromServer)' = {}
  BY <1>1, <1>2, RangeEmpty DEF InTransit
<1>5. \A c \in Callers : Pending(c)' <=> Pending(c)
  BY <1>2 DEF Pending
<1>6. \A c \in Callers : rid[c] \in Ids
  BY DEF TypeOK
<1>7. \A c \in Callers : shot'[c] \in {"closed", shot[c]}
  BY <1>1 DEF Shutdown
<1>8. \A c \in Callers : Pending(c) => shot'[c] # "open"
  <2> SUFFICES ASSUME NEW c \in Callers, Pending(c), shot[c] = "open"
               PROVE  shot'[c] = "closed"
    BY <1>7
  <2>1. waiting_requests[rid[c]] = req[c] /\ req[c] # 0 /\ rid[c] # 0
    BY DEF SenderKept, CallerMatch
  <2>2. rid[c] \in 1 .. MaxId
    BY <1>6, <2>1, BoundsAssumption DEF Ids
  <2>3. Holds(c, waiting_requests[rid[c]])
    BY <2>1 DEF Holds
  <2> QED BY <1>1, <2>1, <2>2, <2>3 DEF Shutdown
<1>9. TransitMatch' /\ RelaysUntagged'
  <2>1. \A q \in InTransit : q.id \in Ids
    BY TransitType
  <2> QED BY <1>2, <1>4, <2>1 DEF TransitMatch, RelaysUntagged
<1>10. CallerMatch' /\ AnsweredGone' /\ SenderKept'
  BY <1>2, <1>5, <1>6, <1>8 DEF CallerMatch, AnsweredGone, SenderKept
<1>11. AnswersMatch'
  BY <1>2, <1>5, <1>7 DEF AnswersMatch
<1>12. SerialsUnique'
  <2>1. sends' \in Nat
    BY <1>1 DEF TypeOK, Serials
  <2> QED BY <1>2, <2>1 DEF SerialsUnique
<1>13. NoStaleEntry'
  BY <1>2 DEF NoStaleEntry
<1> QED BY <1>3, <1>9, <1>10, <1>11, <1>12, <1>13

-----------------------------------------------------------------------------
(* The theorems.                                                           *)

\* Every step of the client, its workers and the server keeps the invariant.
LEMMA StepInv == IInv /\ [Next]_vars => IInv'
<1> SUFFICES ASSUME IInv, [Next]_vars PROVE IInv'
  OBVIOUS
<1>1. ASSUME NEW c \in Callers,
             TagMessage(c) \/ Post(c) \/ Enqueue(c) \/ EnqueueFails(c) \/ Return(c)
      PROVE  IInv'
  BY <1>1, TagInv, PostInv, EnqueueInv, ReturnInv
<1>2. CASE ChatTake \/ ChatDone \/ ChatEnd \/ Deliver
  BY <1>2, ChatInv
<1>3. CASE WriterSend \/ WriterFails \/ ConnectionLost
  BY <1>3, WriterInv
<1>4. CASE ServerRelay \/ \E p \in toServer : ServerReply(p)
  BY <1>4, ServerInv
<1>5. CASE DispatchAnswer
  BY <1>5, DispatchInv
<1>6. CASE ProcessMessage
  BY <1>6, ProcessInv
<1>7. CASE ProcessFails \/ ReaderFails \/ DeliverFails
  BY <1>7, ShutdownInv
<1>8. CASE UNCHANGED vars
  <2>1. UNCHANGED <<callVars, wireVars, workVars, sends, relayed>>
    BY <1>8 DEF vars
  <2>2. TypeOK'
    BY <2>1 DEF IInv, TypeOK, callVars, wireVars, workVars
  <2>3. InTransit' = InTransit /\ RelaysUntagged'
    BY <2>1 DEF IInv, InTransit, RelaysUntagged, wireVars
  <2> QED BY <2>1, <2>2, <2>3, QuietStep DEF workVars
<1> QED BY <1>1, <1>2, <1>3, <1>4, <1>5, <1>6, <1>7, <1>8 DEF Next

\* The invariant holds in every state the client can reach.
THEOREM Inductive == Spec => []IInv
<1>1. Init => IInv
  BY InitInv
<1>2. IInv /\ [Next]_vars => IInv'
  BY StepInv
<1> QED BY <1>1, <1>2, PTL DEF Spec

\* Every variable keeps its type; in particular out_channel and send_channel
\* stay sequences and counts within what their declarations allow, and the next
\* request id is never 0, the id of untagged packets.
THEOREM TypeCorrect == Spec => []TypeOK
<1>1. IInv => TypeOK
  BY DEF IInv
<1> QED BY <1>1, Inductive, PTL

\* For any number of callers, whatever the order of the answers and the reuse of
\* ids, an answer reaches the caller whose request it answers.
THEOREM AnswersReachTheirCaller == Spec => []AnswersMatch
<1>1. IInv => AnswersMatch
  BY DEF IInv
<1> QED BY <1>1, Inductive, PTL

\* For any number of callers, the sender of an unanswered request is registered
\* under its id: no caller can wait on a channel that nobody can complete.
THEOREM UnansweredAreRegistered == Spec => []SenderKept
<1>1. IInv => SenderKept
  BY DEF IInv
<1> QED BY <1>1, Inductive, PTL

\* While the send worker lives, waiting_requests holds nothing but the senders of
\* requests somebody waits for.
THEOREM TableDoesNotLeak == Spec => []NoStaleEntry
<1>1. IInv => NoStaleEntry
  BY DEF IInv
<1> QED BY <1>1, Inductive, PTL
-----------------------------------------------------------------------------
(* Enumerations, and sequences that are cut and joined.                    *)

\* Induction over the naturals, for a set.
LEMMA SetInduction ==
  ASSUME NEW S \in SUBSET Nat, 0 \in S, \A n \in S : n + 1 \in S
  PROVE  S = Nat
<1> DEFINE T == Nat \ S
           Below == OpToRel(<, Nat)
<1>1. SUFFICES ASSUME T # {} PROVE FALSE
  OBVIOUS
<1>2. IsWellFoundedOn(Below, Nat)
  BY NatLessThanWellFounded
<1>3. T \subseteq Nat
  OBVIOUS
<1>4. \A x, y \in Nat : x < y => <<x, y>> \in Below
  BY DEF OpToRel
<1> HIDE DEF T, Below
<1>5. PICK x \in T : \A y \in T : <<y, x>> \notin Below
  BY <1>1, <1>2, <1>3, WFMin
<1>6. x \in Nat /\ x # 0 /\ x - 1 \in Nat /\ x \notin S
  BY <1>5 DEF T
<1>7. x - 1 \in T
  BY <1>6 DEF T
<1>8. x - 1 < x
  BY <1>6
<1> QED BY <1>4, <1>5, <1>6, <1>7, <1>8

Climbs(f, n) == \A i, j \in 1 .. n : i < j => f[i] < f[j]

\* A set of numbers up to n can be enumerated from the lowest on.
LEMMA Enumerable ==
  ASSUME NEW n \in Nat, NEW T \in SUBSET (1 .. n)
  PROVE  \E f \in [1 .. Cardinality(T) -> T] : Climbs(f, Cardinality(T))
<1> DEFINE Has(k) == \A U \in SUBSET (1 .. k) :
                       \E f \in [1 .. Cardinality(U) -> U] : Climbs(f, Cardinality(U))
           S == {k \in Nat : Has(k)}
<1>1. 0 \in S
  <2>1. ASSUME NEW U \in SUBSET (1 .. 0)
        PROVE  \E f \in [1 .. Cardinality(U) -> U] : Climbs(f, Cardinality(U))
    <3>0. U = {}
      OBVIOUS
    <3>1. U = {} /\ Cardinality(U) = 0
      BY <3>0, FS_EmptySet
    <3>2. [i \in 1 .. 0 |-> i] \in [1 .. 0 -> U] /\ Climbs([i \in 1 .. 0 |-> i], 0)
      BY DEF Climbs
    <3> QED BY <3>1, <3>2
  <2> QED BY <2>1
<1>2. ASSUME NEW k \in S PROVE k + 1 \in S
  <2>1. ASSUME NEW U \in SUBSET (1 .. k + 1)
        PROVE  \E f \in [1 .. Cardinality(U) -> U] : Climbs(f, Cardinality(U))
    <3> DEFINE V == U \ {k + 1}
    <3>0. V \in SUBSET (1 .. k) /\ k \in Nat /\ IsFiniteSet(1 .. k)
      BY FS_Interval
    <3>1. V \in SUBSET (1 .. k) /\ IsFiniteSet(V) /\ k \in Nat
      BY <3>0, FS_Subset, Zenon
    <3>2. PICK g \in [1 .. Cardinality(V) -> V] : Climbs(g, Cardinality(V))
      BY <3>1
    <3>3. CASE k + 1 \notin U
      <4>1. V = U
        BY <3>3
      <4> HIDE DEF V
      <4> QED BY <3>2, <4>1
    <3>4. CASE k + 1 \in U
      <4> DEFINE c == Cardinality(V)
                 f == [i \in 1 .. c + 1 |-> IF i = c + 1 THEN k + 1 ELSE g[i]]
      <4>1. U = V \union {k + 1} /\ k + 1 \notin V
        BY <3>4
      <4> HIDE DEF V
      <4>2. Cardinality(U) = c + 1 /\ c \in Nat
        BY <3>1, <4>1, FS_AddElement, FS_CardinalityType
      <4> HIDE DEF c
      <4>3. g \in [1 .. c -> V] /\ Climbs(g, c) /\ \A v \in V : v \in Nat /\ v < k + 1
        BY <3>1, <3>2 DEF c
      <4>4. f \in [1 .. c + 1 -> U]
        <5>1. ASSUME NEW i \in 1 .. c + 1 PROVE f[i] \in U
          <6>1. CASE i = c + 1
            BY <3>4, <6>1
          <6>2. CASE i # c + 1
            <7>1. i \in 1 .. c
              BY <4>2, <6>2
            <7>2. g[i] \in V
              BY <4>3, <7>1
            <7> QED BY <4>1, <6>2, <7>2
          <6> QED BY <6>1, <6>2
        <5> QED BY <5>1
      <4>5. Climbs(f, c + 1)
        <5> SUFFICES ASSUME NEW i \in 1 .. c + 1, NEW j \in 1 .. c + 1, i < j
                     PROVE  f[i] < f[j]
          BY DEF Climbs
        <5>1. i \in 1 .. c /\ f[i] = g[i]
          BY <4>2
        <5>2. CASE j = c + 1
          BY <4>3, <5>1, <5>2
        <5>3. CASE j # c + 1
          BY <4>2, <4>3, <5>1, <5>3 DEF Climbs
        <5> QED BY <5>2, <5>3
      <4> QED BY <4>2, <4>4, <4>5
    <3> QED BY <3>3, <3>4
  <2>2. Has(k + 1)
    BY <2>1
  <2> QED BY <2>2
<1> HIDE DEF Has
<1>3. S = Nat
  BY <1>1, <1>2, SetInduction
<1> QED BY <1>3 DEF Has

\* What Kept takes from s, and in which order: at lists the indices I.
LEMMA KeptAt ==
  ASSUME NEW S, NEW s \in Seq(S), NEW I \in SUBSET DOMAIN s
  PROVE  \E at \in [1 .. Cardinality(I) -> I] :
           /\ Climbs(at, Cardinality(I))
           /\ Cardinality(I) \in Nat
           /\ at \in Bijection(1 .. Cardinality(I), I)
           /\ Kept(s, I) = [i \in 1 .. Cardinality(I) |-> s[at[i]]]
<1> DEFINE c == Cardinality(I)
<1>0. Len(s) \in Nat /\ DOMAIN s = 1 .. Len(s) /\ I \in SUBSET (1 .. Len(s))
  OBVIOUS
<1>1. IsFiniteSet(I) /\ c \in Nat
  <2>1. IsFiniteSet(1 .. Len(s))
    BY <1>0, FS_Interval
  <2>2. IsFiniteSet(I)
    BY <1>0, <2>1, FS_Subset
  <2> QED BY <2>2, FS_CardinalityType
<1> DEFINE at == CHOOSE f \in [1 .. c -> I] : \A i, j \in DOMAIN f : i < j => f[i] < f[j]
<1>2. at \in [1 .. c -> I] /\ Climbs(at, c)
  <2>1. PICK f \in [1 .. c -> I] : Climbs(f, c)
    BY <1>0, Enumerable
  <2>2. f \in [1 .. c -> I] /\ \A i, j \in DOMAIN f : i < j => f[i] < f[j]
    BY <2>1 DEF Climbs
  <2>3. at \in [1 .. c -> I] /\ \A i, j \in DOMAIN at : i < j => at[i] < at[j]
    BY <2>2
  <2>4. DOMAIN at = 1 .. c
    BY <2>3
  <2> QED BY <2>3, <2>4 DEF Climbs
<1>3. Kept(s, I) = [i \in DOMAIN at |-> s[at[i]]]
  BY DEF Kept
<1>4. DOMAIN at = 1 .. c
  BY <1>2
<1> HIDE DEF at, c
<1>5. at \in Injection(1 .. c, I)
  <2>1. ASSUME NEW i \in 1 .. c, NEW j \in 1 .. c, at[i] = at[j] PROVE i = j
    <3>1. at[i] \in Nat /\ at[j] \in Nat
      BY <1>0, <1>2
    <3>2. (i < j => at[i] < at[j]) /\ (j < i => at[j] < at[i])
      BY <1>2 DEF Climbs
    <3> QED BY <1>1, <2>1, <3>1, <3>2
  <2> QED BY <1>2, <2>1 DEF Injection, IsInjective
<1>6. Cardinality(1 .. c) = c /\ IsFiniteSet(1 .. c)
  BY <1>1, FS_Interval
<1>7. at \in Surjection(1 .. c, I)
  BY <1>1, <1>5, <1>6, FS_Injection DEF c
<1>8. at \in Bijection(1 .. c, I)
  BY <1>5, <1>7 DEF Bijection
<1> QED BY <1>1, <1>2, <1>3, <1>4, <1>8 DEF c

\* The elements that are kept are those at the indices I.
LEMMA KeptRange ==
  ASSUME NEW S, NEW s \in Seq(S), NEW I \in SUBSET DOMAIN s
  PROVE  Kept(s, I) \in Seq(S) /\ Range(Kept(s, I)) = {s[i] : i \in I}
<1> DEFINE c == Cardinality(I)
<1>1. PICK at \in [1 .. c -> I] :
        /\ c \in Nat /\ at \in Bijection(1 .. c, I)
        /\ Kept(s, I) = [i \in 1 .. c |-> s[at[i]]]
  BY KeptAt
<1> HIDE DEF c
<1>2. \A i \in I : \E j \in 1 .. c : at[j] = i
  BY <1>1 DEF Bijection, Surjection
<1>3. \A i \in I : s[i] \in S
  OBVIOUS
<1>4. Kept(s, I) \in Seq(S)
  <2>1. \A i \in 1 .. c : s[at[i]] \in S
    BY <1>1, <1>3
  <2> QED BY <1>1, <2>1
<1>5. Range(Kept(s, I)) = {s[at[j]] : j \in 1 .. c}
  <2>1. PICK k : k = Kept(s, I)
    OBVIOUS
  <2>2. k = [i \in 1 .. c |-> s[at[i]]]
    BY <1>1, <2>1
  <2>3. DOMAIN k = 1 .. c /\ \A j \in 1 .. c : k[j] = s[at[j]]
    BY ONLY <2>2
  <2>4. {k[j] : j \in DOMAIN k} = {s[at[j]] : j \in 1 .. c}
    BY ONLY <2>3
  <2>5. Range(k) = {s[at[j]] : j \in 1 .. c}
    BY <2>4 DEF Range
  <2> QED BY <2>1, <2>5
<1>6. {s[at[j]] : j \in 1 .. c} = {s[i] : i \in I}
  BY <1>1, <1>2
<1> QED BY <1>4, <1>5, <1>6

\* What is in two sequences that are joined.
LEMMA RangeJoin ==
  ASSUME NEW S, NEW s \in Seq(S), NEW t \in Seq(S)
  PROVE  s \o t \in Seq(S) /\ Range(s \o t) = Range(s) \cup Range(t)
<1> DEFINE u == s \o t
<1>1. /\ Len(s) \in Nat /\ Len(t) \in Nat /\ DOMAIN s = 1 .. Len(s) /\ DOMAIN t = 1 .. Len(t)
      /\ u \in Seq(S) /\ Len(u) = Len(s) + Len(t) /\ DOMAIN u = 1 .. Len(u)
      /\ \A i \in 1 .. Len(s) : u[i] = s[i]
      /\ \A i \in 1 .. Len(t) : u[Len(s) + i] = t[i]
  OBVIOUS
<1> HIDE DEF u
<1>2. ASSUME NEW i \in DOMAIN u PROVE u[i] \in Range(s) \cup Range(t)
  <2>1. CASE i \in 1 .. Len(s)
    BY <1>1, <2>1 DEF Range
  <2>2. CASE i \notin 1 .. Len(s)
    <3>1. i - Len(s) \in 1 .. Len(t) /\ i = Len(s) + (i - Len(s))
      BY <1>1, <2>2
    <3>2. u[i] = t[i - Len(s)]
      BY <1>1, <3>1
    <3> QED BY <1>1, <3>1, <3>2 DEF Range
  <2> QED BY <2>1, <2>2
<1>3. ASSUME NEW i \in DOMAIN s PROVE s[i] \in Range(u)
  <2>1. i \in DOMAIN u /\ u[i] = s[i]
    BY <1>1
  <2> QED BY <2>1 DEF Range
<1>4. ASSUME NEW i \in DOMAIN t PROVE t[i] \in Range(u)
  <2>1. Len(s) + i \in DOMAIN u /\ u[Len(s) + i] = t[i]
    BY <1>1
  <2> QED BY <2>1 DEF Range
<1>5. Range(u) = Range(s) \cup Range(t)
  BY <1>2, <1>3, <1>4 DEF Range
<1> QED BY <1>1, <1>5 DEF u

\* A sequence of one, and none.
LEMMA RangeOne ==
  /\ Range(<<>>) = {}
  /\ \A x : Range(<<x>>) = {x}
  BY DEF Range

\* What is in a sequence has the type of its elements.
LEMMA RangeIn ==
  ASSUME NEW S, NEW s \in Seq(S)
  PROVE  Range(s) \subseteq S /\ \A i \in DOMAIN s : s[i] \in Range(s) /\ s[i] \in S
  BY DEF Range

\* Ways to cut a sequence in two.
LEMMA Cuts ==
  ASSUME NEW S, NEW s \in Seq(S)
  PROVE  /\ \A x \in S : Append(s, x) = s \o <<x>> /\ Append(s, x) \in Seq(S) /\ <<x>> \in Seq(S)
         /\ s # <<>> => /\ s = <<Head(s)>> \o Tail(s) /\ <<Head(s)>> \in Seq(S)
                        /\ Tail(s) \in Seq(S) /\ Head(s) \in S
<1>1. ASSUME NEW x \in S
      PROVE  Append(s, x) = s \o <<x>> /\ Append(s, x) \in Seq(S) /\ <<x>> \in Seq(S)
  OBVIOUS
<1>2. ASSUME s # <<>>
      PROVE  s = <<Head(s)>> \o Tail(s) /\ <<Head(s)>> \in Seq(S) /\ Tail(s) \in Seq(S) /\ Head(s) \in S
  BY <1>2
<1> QED BY <1>1, <1>2

\* A part of a sequence.
LEMMA PartOf ==
  ASSUME NEW S, NEW s \in Seq(S), NEW a \in 1 .. Len(s) + 1, NEW b \in 0 .. Len(s), a <= b + 1
  PROVE  /\ SubSeq(s, a, b) \in Seq(S) /\ Len(SubSeq(s, a, b)) = b - a + 1
         /\ \A i \in 1 .. b - a + 1 : SubSeq(s, a, b)[i] = s[a + i - 1]
  OBVIOUS

\* The first elements of a sequence, joined with the others.
LEMMA Rejoined ==
  ASSUME NEW S, NEW s \in Seq(S), NEW b \in Seq(S), NEW r \in Seq(S), NEW n \in 0 .. Len(s),
         Len(b) = n, Len(r) = Len(s) - n,
         \A i \in 1 .. n : b[i] = s[i], \A i \in 1 .. Len(s) - n : r[i] = s[n + i]
  PROVE  s = b \o r
<1> DEFINE u == b \o r
<1>1. /\ u \in Seq(S) /\ Len(u) = Len(s) /\ Len(s) \in Nat
      /\ \A i \in 1 .. n : u[i] = b[i]
      /\ \A i \in 1 .. Len(s) - n : u[n + i] = r[i]
  <2>1. /\ Len(s) \in Nat /\ Len(b) \in Nat /\ Len(r) \in Nat
        /\ u \in Seq(S) /\ Len(u) = Len(b) + Len(r)
        /\ \A i \in 1 .. Len(b) : u[i] = b[i]
        /\ \A i \in 1 .. Len(r) : u[Len(b) + i] = r[i]
    BY ONLY s \in Seq(S), b \in Seq(S), r \in Seq(S)
  <2> HIDE DEF u
  <2> QED BY <2>1
<1> HIDE DEF u
<1>2. \A i \in 1 .. Len(s) : u[i] = s[i]
  <2> SUFFICES ASSUME NEW i \in 1 .. Len(s) PROVE u[i] = s[i]
    OBVIOUS
  <2>1. CASE i <= n
    BY <1>1, <2>1
  <2>2. CASE i > n
    <3>1. i - n \in 1 .. Len(s) - n /\ i = n + (i - n)
      BY <1>1, <2>2
    <3>2. PICK j \in 1 .. Len(s) - n : i = n + j
      BY <3>1
    <3>3. u[n + j] = r[j] /\ r[j] = s[n + j]
      BY <1>1
    <3> QED BY <3>2, <3>3
  <2> QED BY <1>1, <2>1, <2>2
<1>3. s = u
  <2>1. u \in Seq(S) /\ Len(u) = Len(s)
    BY <1>1
  <2> QED BY ONLY s \in Seq(S), <2>1, <1>2
<1> QED BY <1>3 DEF u

\* A batch and the rest of the store.
LEMMA BatchAndRest ==
  ASSUME NEW S, NEW s \in Seq(S), BatchSize \in Nat
  PROVE  /\ Batch(s) \in Seq(S) /\ Rest(s) \in Seq(S) /\ s = Batch(s) \o Rest(s)
         /\ (BatchSize # 0 /\ s # <<>>) => Batch(s) # <<>>
<1> DEFINE n == IF Len(s) < BatchSize THEN Len(s) ELSE BatchSize
<1>1. n \in 0 .. Len(s) /\ Len(s) \in Nat /\ n \in Nat
  OBVIOUS
<1>2. Batch(s) = SubSeq(s, 1, n)
  BY DEF Batch
<1>a. (BatchSize # 0 /\ s # <<>>) => n # 0
  OBVIOUS
<1> HIDE DEF n
<1>b. /\ SubSeq(s, 1, n) \in Seq(S) /\ Len(SubSeq(s, 1, n)) = n - 1 + 1
      /\ \A i \in 1 .. n - 1 + 1 : SubSeq(s, 1, n)[i] = s[1 + i - 1]
  <2>1. 1 \in 1 .. Len(s) + 1 /\ 1 <= n + 1 /\ n \in 0 .. Len(s)
    BY <1>1
  <2> QED BY ONLY <2>1, s \in Seq(S), PartOf
<1>3. Batch(s) \in Seq(S) /\ Len(Batch(s)) = n /\ \A i \in 1 .. n : Batch(s)[i] = s[i]
  BY <1>1, <1>2, <1>b
<1>4. Rest(s) = SubSeq(s, n + 1, Len(s))
  BY <1>3 DEF Rest
<1>5. Rest(s) \in Seq(S) /\ Len(Rest(s)) = Len(s) - n /\ \A i \in 1 .. Len(s) - n : Rest(s)[i] = s[n + i]
  <2>1. n + 1 \in 1 .. Len(s) + 1 /\ n + 1 <= Len(s) + 1 /\ Len(s) \in 0 .. Len(s)
    BY <1>1
  <2>2. /\ SubSeq(s, n + 1, Len(s)) \in Seq(S)
        /\ Len(SubSeq(s, n + 1, Len(s))) = Len(s) - (n + 1) + 1
        /\ \A i \in 1 .. Len(s) - (n + 1) + 1 : SubSeq(s, n + 1, Len(s))[i] = s[(n + 1) + i - 1]
    BY ONLY <2>1, s \in Seq(S), PartOf
  <2> QED BY <1>1, <1>4, <2>2
<1> DEFINE b == Batch(s)
           r == Rest(s)
<1>8. s = b \o r
  <2> HIDE DEF b, r
  <2>1. /\ b \in Seq(S) /\ r \in Seq(S) /\ n \in 0 .. Len(s) /\ Len(b) = n /\ Len(r) = Len(s) - n
        /\ \A i \in 1 .. n : b[i] = s[i]
        /\ \A i \in 1 .. Len(s) - n : r[i] = s[n + i]
    BY <1>1, <1>3, <1>5 DEF b, r
  <2> QED BY ONLY <2>1, s \in Seq(S), Rejoined
<1>9. (BatchSize # 0 /\ s # <<>>) => b # <<>>
  BY <1>a, <1>3
<1> QED BY <1>3, <1>5, <1>8, <1>9

\* A message that arrives before the last one.
LEMMA InsertCut ==
  ASSUME NEW S, NEW s \in Seq(S), s # <<>>, NEW x \in S
  PROVE  \E f \in Seq(S) : /\ s = f \o <<Last(s)>> /\ Last(s) \in S
                           /\ InsertAt(s, Len(s), x) = f \o (<<x>> \o <<Last(s)>>)
<1> DEFINE f == SubSeq(s, 1, Len(s) - 1)
<1>1. Len(s) \in Nat /\ Len(s) >= 1 /\ s[Len(s)] \in S
  OBVIOUS
<1>2. f \in Seq(S) /\ Len(f) = Len(s) - 1 /\ \A i \in 1 .. Len(s) - 1 : f[i] = s[i]
  <2>1. 1 \in 1 .. Len(s) + 1 /\ 1 <= (Len(s) - 1) + 1 /\ Len(s) - 1 \in 0 .. Len(s)
    BY <1>1
  <2>2. /\ f \in Seq(S) /\ Len(f) = (Len(s) - 1) - 1 + 1
        /\ \A i \in 1 .. (Len(s) - 1) - 1 + 1 : f[i] = s[1 + i - 1]
    BY ONLY <2>1, s \in Seq(S), PartOf
  <2> HIDE DEF f
  <2> QED BY <1>1, <2>2
<1>3. SubSeq(s, Len(s), Len(s)) = <<s[Len(s)]>>
  <2>1. Len(s) \in 1 .. Len(s) + 1 /\ Len(s) <= Len(s) + 1 /\ Len(s) \in 0 .. Len(s)
    BY <1>1
  <2>2. /\ SubSeq(s, Len(s), Len(s)) \in Seq(S)
        /\ Len(SubSeq(s, Len(s), Len(s))) = Len(s) - Len(s) + 1
        /\ \A i \in 1 .. Len(s) - Len(s) + 1 : SubSeq(s, Len(s), Len(s))[i] = s[Len(s) + i - 1]
    BY ONLY <2>1, s \in Seq(S), PartOf
  <2>3. PICK l : l = SubSeq(s, Len(s), Len(s))
    OBVIOUS
  <2>4. l \in Seq(S) /\ Len(l) = 1 /\ l[1] = s[Len(s)]
    BY <1>1, <2>2, <2>3
  <2>5. l = <<s[Len(s)]>>
    BY <2>4
  <2> QED BY <2>3, <2>5
<1>4. InsertAt(s, Len(s), x) = f \o <<x>> \o <<s[Len(s)]>>
  BY <1>3 DEF InsertAt
<1> HIDE DEF f
<1>5. s = f \o <<s[Len(s)]>>
  <2>1. PICK l : l = s[Len(s)]
    OBVIOUS
  <2>2. f \o <<l>> \in Seq(S) /\ Len(f \o <<l>>) = Len(s)
    BY <1>1, <1>2, <2>1
  <2>3. \A i \in 1 .. Len(s) : (f \o <<l>>)[i] = s[i]
    BY <1>1, <1>2, <2>1
  <2>4. s = f \o <<l>>
    BY <2>2, <2>3
  <2> QED BY <2>1, <2>4
<1>6. f \o <<x>> \o <<s[Len(s)]>> = f \o (<<x>> \o <<s[Len(s)]>>)
  BY <1>1, <1>2
<1> QED BY <1>1, <1>2, <1>4, <1>5, <1>6 DEF Last

\* Reverse keeps what is in a sequence.
LEMMA RangeReverse ==
  ASSUME NEW S, NEW s \in Seq(S)
  PROVE  Reverse(s) \in Seq(S) /\ Range(Reverse(s)) = Range(s)
<1> DEFINE r == [i \in 1 .. Len(s) |-> s[(Len(s) - i) + 1]]
<1>1. Reverse(s) = r
  BY DEF Reverse
<1>2. Len(s) \in Nat /\ DOMAIN s = 1 .. Len(s) /\ \A i \in 1 .. Len(s) : s[i] \in S
  OBVIOUS
<1>3. \A i \in 1 .. Len(s) : (Len(s) - i) + 1 \in 1 .. Len(s) /\ (Len(s) - ((Len(s) - i) + 1)) + 1 = i
  BY <1>2
<1>4. r \in Seq(S)
  BY <1>2, <1>3
<1>5. PICK q : q = r
  OBVIOUS
<1>6. DOMAIN q = 1 .. Len(s) /\ \A i \in 1 .. Len(s) : q[i] = s[(Len(s) - i) + 1]
  BY <1>5
<1> HIDE DEF r
<1>7. \A i \in DOMAIN q : q[i] \in Range(s)
  BY <1>2, <1>3, <1>6 DEF Range
<1>8. \A i \in DOMAIN s : s[i] \in Range(q)
  <2> SUFFICES ASSUME NEW i \in DOMAIN s PROVE s[i] \in Range(q)
    OBVIOUS
  <2>1. (Len(s) - i) + 1 \in DOMAIN q /\ q[(Len(s) - i) + 1] = s[i]
    BY <1>2, <1>3, <1>6
  <2> QED BY <2>1 DEF Range
<1>9. Range(q) = Range(s)
  BY <1>7, <1>8 DEF Range
<1> QED BY <1>1, <1>4, <1>5, <1>9

-----------------------------------------------------------------------------
(* How many elements of a sequence are in a set.                           *)

\* The indices that HowMany counts.
At(s, X) == {i \in DOMAIN s : s[i] \in X}

\* The indices that a count counts are finitely many.
LEMMA AtFinite ==
  ASSUME NEW S, NEW s \in Seq(S), NEW X
  PROVE  IsFiniteSet(At(s, X)) /\ HowMany(s, X) = Cardinality(At(s, X)) /\ HowMany(s, X) \in Nat
<1>1. Len(s) \in Nat /\ DOMAIN s = 1 .. Len(s)
  OBVIOUS
<1>2. IsFiniteSet(DOMAIN s)
  BY <1>1, FS_Interval
<1>3. At(s, X) \subseteq DOMAIN s
  BY DEF At
<1>4. IsFiniteSet(At(s, X))
  BY <1>2, <1>3, FS_Subset
<1>5. HowMany(s, X) = Cardinality(At(s, X))
  BY DEF HowMany, At
<1> QED BY <1>4, <1>5, FS_CardinalityType

\* None is counted when none is there.
LEMMA CountNone ==
  ASSUME NEW S, NEW s \in Seq(S), NEW X
  PROVE  HowMany(s, X) = 0 <=> \A x \in Range(s) : x \notin X
<1>1. IsFiniteSet(At(s, X)) /\ HowMany(s, X) = Cardinality(At(s, X))
  BY AtFinite
<1>2. HowMany(s, X) = 0 <=> At(s, X) = {}
  BY <1>1, FS_EmptySet
<1>3. At(s, X) = {} <=> \A x \in Range(s) : x \notin X
  BY DEF At, Range
<1> QED BY <1>2, <1>3

\* A sequence of one.
LEMMA CountOne ==
  ASSUME NEW x, NEW X
  PROVE  HowMany(<<x>>, X) = IF x \in X THEN 1 ELSE 0
<1>1. DOMAIN <<x>> = {1} /\ <<x>>[1] = x
  OBVIOUS
<1>2. At(<<x>>, X) = IF x \in X THEN {1} ELSE {}
  BY <1>1 DEF At
<1>3. HowMany(<<x>>, X) = Cardinality(At(<<x>>, X))
  BY DEF HowMany, At
<1> QED BY <1>2, <1>3, FS_EmptySet, FS_Singleton

\* The empty sequence holds nothing.
LEMMA CountEmpty ==
  ASSUME NEW X
  PROVE  HowMany(<<>>, X) = 0
<1>1. At(<<>>, X) = {}
  BY DEF At
<1>2. HowMany(<<>>, X) = Cardinality(At(<<>>, X))
  BY DEF HowMany, At
<1> QED BY <1>1, <1>2, FS_EmptySet

\* Joined sequences: the counts add up.
LEMMA CountJoin ==
  ASSUME NEW S, NEW s \in Seq(S), NEW t \in Seq(S), NEW X
  PROVE  HowMany(s \o t, X) = HowMany(s, X) + HowMany(t, X)
<1> DEFINE u == s \o t
           n == Len(s)
           B == {n + i : i \in At(t, X)}
<1>1. /\ n \in Nat /\ Len(t) \in Nat /\ DOMAIN s = 1 .. n /\ DOMAIN t = 1 .. Len(t)
      /\ u \in Seq(S) /\ Len(u) = n + Len(t) /\ DOMAIN u = 1 .. Len(u)
      /\ \A i \in 1 .. n : u[i] = s[i]
      /\ \A i \in 1 .. Len(t) : u[n + i] = t[i]
  OBVIOUS
<1>2. /\ IsFiniteSet(At(s, X)) /\ HowMany(s, X) = Cardinality(At(s, X)) /\ HowMany(s, X) \in Nat
      /\ IsFiniteSet(At(t, X)) /\ HowMany(t, X) = Cardinality(At(t, X)) /\ HowMany(t, X) \in Nat
  BY AtFinite
<1>u. HowMany(u, X) = Cardinality(At(u, X))
  BY DEF HowMany, At
<1> HIDE DEF u, n
<1>3. At(u, X) = At(s, X) \cup B
  <2>1. ASSUME NEW i \in At(u, X) PROVE i \in At(s, X) \cup B
    <3>1. i \in 1 .. Len(u) /\ u[i] \in X
      BY <1>1 DEF At
    <3>2. CASE i \in 1 .. n
      BY <1>1, <3>1, <3>2 DEF At
    <3>3. CASE i \notin 1 .. n
      <4>1. i - n \in 1 .. Len(t) /\ i = n + (i - n)
        BY <1>1, <3>1, <3>3
      <4>2. i - n \in At(t, X)
        BY <1>1, <3>1, <4>1 DEF At
      <4> QED BY <4>1, <4>2
    <3> QED BY <3>2, <3>3
  <2>2. ASSUME NEW i \in At(s, X) PROVE i \in At(u, X)
    BY <1>1 DEF At
  <2>3. ASSUME NEW i \in At(t, X) PROVE n + i \in At(u, X)
    <3>1. i \in 1 .. Len(t) /\ t[i] \in X
      BY <1>1 DEF At
    <3>2. n + i \in 1 .. Len(u) /\ u[n + i] = t[i]
      BY <1>1, <3>1
    <3> QED BY <1>1, <3>1, <3>2 DEF At
  <2> QED BY <2>1, <2>2, <2>3
<1>4. At(s, X) \cap B = {}
  BY <1>1 DEF At
<1>5. IsFiniteSet(B) /\ Cardinality(B) = Cardinality(At(t, X))
  <2> DEFINE f == [i \in At(t, X) |-> n + i]
  <2>1. \A i \in At(t, X) : i \in Nat
    BY <1>1 DEF At
  <2>2. f \in [At(t, X) -> B] /\ \A i \in At(t, X) : f[i] = n + i
    OBVIOUS
  <2>3. \A i, j \in At(t, X) : f[i] = f[j] => i = j
    BY <1>1, <2>1, <2>2
  <2>4. \A b \in B : \E i \in At(t, X) : f[i] = b
    BY <2>2
  <2> HIDE DEF f
  <2>5. f \in Bijection(At(t, X), B)
    BY <2>2, <2>3, <2>4 DEF Bijection, Injection, Surjection, IsInjective
  <2>6. ExistsBijection(At(t, X), B)
    BY <2>5 DEF ExistsBijection
  <2> HIDE DEF B
  <2> QED BY <1>2, <2>6, FS_Bijection
<1> HIDE DEF B
<1>6. Cardinality(At(s, X) \cup B) = Cardinality(At(s, X)) + Cardinality(B)
  <2>1. /\ Cardinality(At(s, X) \cup B)
             = Cardinality(At(s, X)) + Cardinality(B) - Cardinality(At(s, X) \cap B)
    BY <1>2, <1>5, FS_Union
  <2>2. Cardinality(At(s, X) \cap B) = 0
    BY <1>4, FS_EmptySet
  <2> QED BY <1>2, <1>5, <2>1, <2>2
<1>7. HowMany(u, X) = HowMany(s, X) + HowMany(t, X)
  BY <1>2, <1>3, <1>5, <1>6, <1>u
<1> QED BY <1>7 DEF u

\* A bijection between the counted indices of two sequences makes the counts equal.
LEMMA CountSame ==
  ASSUME NEW S, NEW s \in Seq(S), NEW T, NEW t \in Seq(T), NEW X,
         NEW f \in Bijection(At(s, X), At(t, X))
  PROVE  HowMany(s, X) = HowMany(t, X)
<1>1. /\ IsFiniteSet(At(s, X)) /\ HowMany(s, X) = Cardinality(At(s, X))
      /\ HowMany(t, X) = Cardinality(At(t, X))
  BY AtFinite
<1>2. ExistsBijection(At(s, X), At(t, X))
  BY DEF ExistsBijection
<1> QED BY <1>1, <1>2, FS_Bijection

\* Reverse keeps the counts.
LEMMA CountReverse ==
  ASSUME NEW S, NEW s \in Seq(S), NEW X
  PROVE  HowMany(Reverse(s), X) = HowMany(s, X)
<1>1. PICK q : q = Reverse(s)
  OBVIOUS
<1>2. Len(s) \in Nat /\ DOMAIN s = 1 .. Len(s)
  OBVIOUS
<1>3. q \in Seq(S)
  BY <1>1, RangeReverse
<1>4. DOMAIN q = 1 .. Len(s) /\ \A i \in 1 .. Len(s) : q[i] = s[(Len(s) - i) + 1]
  <2>1. q = [i \in 1 .. Len(s) |-> s[(Len(s) - i) + 1]]
    BY <1>1 DEF Reverse
  <2> QED BY <2>1
<1> DEFINE f == [i \in At(s, X) |-> (Len(s) - i) + 1]
<1>5. \A i \in 1 .. Len(s) : /\ (Len(s) - i) + 1 \in 1 .. Len(s)
                             /\ (Len(s) - ((Len(s) - i) + 1)) + 1 = i
  BY <1>2
<1>6. \A i \in At(s, X) : i \in 1 .. Len(s) /\ (Len(s) - i) + 1 \in At(q, X)
  BY <1>2, <1>4, <1>5 DEF At
<1>7. \A i \in At(q, X) : i \in 1 .. Len(s) /\ (Len(s) - i) + 1 \in At(s, X)
  BY <1>2, <1>4, <1>5 DEF At
<1>8. f \in [At(s, X) -> At(q, X)] /\ \A i \in At(s, X) : f[i] = (Len(s) - i) + 1
  BY <1>6
<1> HIDE DEF f
<1>9. \A i, j \in At(s, X) : f[i] = f[j] => i = j
  BY <1>2, <1>6, <1>8
<1>10. ASSUME NEW j \in At(q, X) PROVE \E i \in At(s, X) : f[i] = j
  <2>1. f[(Len(s) - j) + 1] = j
    BY <1>5, <1>7, <1>8
  <2> QED BY <1>7, <2>1
<1>11. f \in Bijection(At(s, X), At(q, X))
  BY <1>8, <1>9, <1>10 DEF Bijection, Injection, Surjection, IsInjective
<1>12. HowMany(s, X) = HowMany(q, X)
  BY <1>3, <1>11, CountSame
<1> QED BY <1>1, <1>12

\* Kept counts what is at the indices that are kept.
LEMMA CountKept ==
  ASSUME NEW S, NEW s \in Seq(S), NEW I \in SUBSET DOMAIN s, NEW X
  PROVE  HowMany(Kept(s, I), X) = Cardinality(At(s, X) \cap I)
<1> DEFINE c == Cardinality(I)
<1>1. PICK at \in [1 .. c -> I] :
        /\ c \in Nat /\ at \in Bijection(1 .. c, I)
        /\ Kept(s, I) = [i \in 1 .. c |-> s[at[i]]]
  BY KeptAt
<1>2. PICK k : k = Kept(s, I)
  OBVIOUS
<1> HIDE DEF c
<1>3. k \in Seq(S)
  BY <1>2, KeptRange
<1>4. DOMAIN k = 1 .. c /\ \A i \in 1 .. c : k[i] = s[at[i]]
  <2>1. k = [i \in 1 .. c |-> s[at[i]]]
    BY <1>1, <1>2
  <2> QED BY ONLY <2>1
<1> DEFINE f == [i \in At(k, X) |-> at[i]]
<1>5. \A i \in At(k, X) : i \in 1 .. c /\ at[i] \in At(s, X) \cap I
  BY <1>1, <1>4 DEF At
<1>6. f \in [At(k, X) -> At(s, X) \cap I] /\ \A i \in At(k, X) : f[i] = at[i]
  BY <1>5
<1> HIDE DEF f
<1>7. \A i, j \in At(k, X) : f[i] = f[j] => i = j
  BY <1>1, <1>5, <1>6 DEF Bijection, Injection, IsInjective
<1>8. ASSUME NEW j \in At(s, X) \cap I PROVE \E i \in At(k, X) : f[i] = j
  <2>1. PICK i \in 1 .. c : at[i] = j
    BY <1>1 DEF Bijection, Surjection
  <2>2. i \in At(k, X)
    BY <1>4, <2>1 DEF At
  <2> QED BY <1>6, <2>1, <2>2
<1>9. f \in Bijection(At(k, X), At(s, X) \cap I)
  BY <1>6, <1>7, <1>8 DEF Bijection, Injection, Surjection, IsInjective
<1>10. ExistsBijection(At(k, X), At(s, X) \cap I)
  BY <1>9 DEF ExistsBijection
<1>11. IsFiniteSet(At(k, X)) /\ HowMany(k, X) = Cardinality(At(k, X))
  BY <1>3, AtFinite
<1>12. Cardinality(At(s, X) \cap I) = Cardinality(At(k, X))
  BY <1>10, <1>11, FS_Bijection
<1> QED BY <1>2, <1>11, <1>12

\* What a key keeps, and what it leaves, are together what was there.
LEMMA CountByKey ==
  ASSUME NEW s \in Seq(Message), NEW k, NEW X
  PROVE  /\ WithKey(s, k) \in Seq(Message) /\ WithoutKey(s, k) \in Seq(Message)
         /\ Range(WithKey(s, k)) = {m \in Range(s) : m.key = k}
         /\ Range(WithoutKey(s, k)) = {m \in Range(s) : m.key # k}
         /\ HowMany(WithKey(s, k), X) + HowMany(WithoutKey(s, k), X) = HowMany(s, X)
<1> DEFINE I == {i \in DOMAIN s : s[i].key = k}
           J == {i \in DOMAIN s : s[i].key # k}
<1>1. I \in SUBSET DOMAIN s /\ J \in SUBSET DOMAIN s
  OBVIOUS
<1>2. WithKey(s, k) = Kept(s, I) /\ WithoutKey(s, k) = Kept(s, J)
  BY DEF WithKey, WithoutKey
<1>3. /\ Kept(s, I) \in Seq(Message) /\ Range(Kept(s, I)) = {s[i] : i \in I}
      /\ Kept(s, J) \in Seq(Message) /\ Range(Kept(s, J)) = {s[i] : i \in J}
  BY <1>1, KeptRange
<1>4. {s[i] : i \in I} = {m \in Range(s) : m.key = k}
  BY DEF Range
<1>5. {s[i] : i \in J} = {m \in Range(s) : m.key # k}
  BY DEF Range
<1>6. /\ HowMany(Kept(s, I), X) = Cardinality(At(s, X) \cap I)
      /\ HowMany(Kept(s, J), X) = Cardinality(At(s, X) \cap J)
  BY <1>1, CountKept
<1>7. At(s, X) = (At(s, X) \cap I) \cup (At(s, X) \cap J)
  BY DEF At
<1>8. (At(s, X) \cap I) \cap (At(s, X) \cap J) = {}
  OBVIOUS
<1>9. IsFiniteSet(At(s, X)) /\ HowMany(s, X) = Cardinality(At(s, X))
  BY AtFinite
<1> HIDE DEF I, J
<1>10. PICK A, B : A = At(s, X) \cap I /\ B = At(s, X) \cap J
  OBVIOUS
<1>11. IsFiniteSet(A) /\ IsFiniteSet(B)
  <2>1. A \in SUBSET At(s, X) /\ B \in SUBSET At(s, X)
    BY <1>10
  <2> QED BY <1>9, <2>1, FS_Subset
<1>12. Cardinality(A) \in Nat /\ Cardinality(B) \in Nat /\ Cardinality(A \cap B) = 0
  BY <1>8, <1>10, <1>11, FS_CardinalityType, FS_EmptySet
<1>13. Cardinality(A \cup B) = Cardinality(A) + Cardinality(B) - Cardinality(A \cap B)
  BY <1>11, FS_Union
<1>14. Cardinality(A) + Cardinality(B) = HowMany(s, X)
  <2>1. A \cup B = At(s, X)
    BY <1>7, <1>10
  <2>2. Cardinality(A \cup B) = HowMany(s, X)
    BY <1>9, <2>1
  <2> QED BY <1>12, <1>13, <2>2
<1> QED BY <1>2, <1>3, <1>4, <1>5, <1>6, <1>10, <1>14

-----------------------------------------------------------------------------
(* The order of the messages of a peer, among those in the set X.          *)

Ordered(s, X) ==
  \A i, j \in DOMAIN s :
    (i < j /\ s[i] \in X /\ s[j] \in X /\ s[i].from = s[j].from) => s[i].id < s[j].id
Precede(A, B, X) ==
  \A a \in A, b \in B : (a \in X /\ b \in X /\ a.from = b.from) => a.id < b.id

\* Fewer messages, in smaller sets, are still in order.
LEMMA PrecedeLess ==
  ASSUME NEW A, NEW B, NEW X, NEW C, NEW D, NEW Y, Precede(A, B, X),
         C \cap Y \subseteq A, D \cap Y \subseteq B, Y \subseteq X
  PROVE  Precede(C, D, Y)
  BY DEF Precede

\* What is in order is so among fewer messages.
LEMMA OrderedLess ==
  ASSUME NEW s, NEW X, NEW Y, Ordered(s, X), Y \subseteq X
  PROVE  Ordered(s, Y)
  BY DEF Ordered

\* One message, and those that the set does not have.
LEMMA OrderedOne ==
  ASSUME NEW X
  PROVE  Ordered(<<>>, X) /\ \A x : Ordered(<<x>>, X)
<1>1. Ordered(<<>>, X)
  BY DEF Ordered
<1>2. ASSUME NEW x PROVE Ordered(<<x>>, X)
  <2>1. DOMAIN <<x>> = {1}
    OBVIOUS
  <2> QED BY <2>1 DEF Ordered
<1> QED BY <1>1, <1>2

\* Messages outside the set are in any order.
LEMMA OrderedOut ==
  ASSUME NEW S, NEW s \in Seq(S), NEW X, Range(s) \cap X = {}
  PROVE  Ordered(s, X)
  BY DEF Ordered, Range

\* Joined sequences are in order when both are, and one precedes the other.
LEMMA OrderedJoin ==
  ASSUME NEW S, NEW s \in Seq(S), NEW t \in Seq(S), NEW X
  PROVE  Ordered(s \o t, X) <=> /\ Ordered(s, X) /\ Ordered(t, X)
                               /\ Precede(Range(s), Range(t), X)
<1> DEFINE u == s \o t
           n == Len(s)
<1>1. /\ n \in Nat /\ Len(t) \in Nat /\ DOMAIN s = 1 .. n /\ DOMAIN t = 1 .. Len(t)
      /\ u \in Seq(S) /\ Len(u) = n + Len(t) /\ DOMAIN u = 1 .. Len(u)
      /\ \A i \in 1 .. n : u[i] = s[i]
      /\ \A i \in 1 .. Len(t) : u[n + i] = t[i]
  OBVIOUS
<1> HIDE DEF u, n
<1>2. ASSUME Ordered(u, X)
      PROVE  Ordered(s, X) /\ Ordered(t, X) /\ Precede(Range(s), Range(t), X)
  <2>1. Ordered(s, X)
    <3> SUFFICES ASSUME NEW i \in DOMAIN s, NEW j \in DOMAIN s, i < j, s[i] \in X, s[j] \in X,
                        s[i].from = s[j].from
                 PROVE  s[i].id < s[j].id
      BY DEF Ordered
    <3>1. i \in DOMAIN u /\ j \in DOMAIN u /\ u[i] = s[i] /\ u[j] = s[j]
      BY <1>1
    <3> QED BY <1>2, <3>1 DEF Ordered
  <2>2. Ordered(t, X)
    <3> SUFFICES ASSUME NEW i \in DOMAIN t, NEW j \in DOMAIN t, i < j, t[i] \in X, t[j] \in X,
                        t[i].from = t[j].from
                 PROVE  t[i].id < t[j].id
      BY DEF Ordered
    <3>1. /\ n + i \in DOMAIN u /\ n + j \in DOMAIN u /\ u[n + i] = t[i] /\ u[n + j] = t[j]
          /\ n + i < n + j
      BY <1>1
    <3> QED BY <1>2, <3>1 DEF Ordered
  <2>3. Precede(Range(s), Range(t), X)
    <3> SUFFICES ASSUME NEW i \in DOMAIN s, NEW j \in DOMAIN t, s[i] \in X, t[j] \in X,
                        s[i].from = t[j].from
                 PROVE  s[i].id < t[j].id
      BY DEF Precede, Range
    <3>1. /\ i \in DOMAIN u /\ n + j \in DOMAIN u /\ u[i] = s[i] /\ u[n + j] = t[j]
          /\ i < n + j
      BY <1>1
    <3> QED BY <1>2, <3>1 DEF Ordered
  <2> QED BY <2>1, <2>2, <2>3
<1>3. ASSUME Ordered(s, X), Ordered(t, X), Precede(Range(s), Range(t), X)
      PROVE  Ordered(u, X)
  <2> SUFFICES ASSUME NEW i \in DOMAIN u, NEW j \in DOMAIN u, i < j, u[i] \in X, u[j] \in X,
                      u[i].from = u[j].from
               PROVE  u[i].id < u[j].id
    BY DEF Ordered
  <2>1. CASE i \in 1 .. n /\ j \in 1 .. n
    BY <1>1, <1>3, <2>1 DEF Ordered
  <2>2. CASE i \in 1 .. n /\ j \notin 1 .. n
    <3>1. j - n \in 1 .. Len(t) /\ j = n + (j - n)
      BY <1>1, <2>2
    <3>2. u[j] = t[j - n] /\ t[j - n] \in Range(t) /\ u[i] = s[i] /\ s[i] \in Range(s)
      BY <1>1, <2>2, <3>1 DEF Range
    <3> QED BY <1>3, <3>2 DEF Precede
  <2>3. CASE i \notin 1 .. n /\ j \notin 1 .. n
    <3>1. /\ i - n \in 1 .. Len(t) /\ i = n + (i - n) /\ j - n \in 1 .. Len(t) /\ j = n + (j - n)
          /\ i - n < j - n
      BY <1>1, <2>3
    <3>2. u[j] = t[j - n] /\ u[i] = t[i - n]
      BY <1>1, <3>1
    <3> QED BY <1>1, <1>3, <3>1, <3>2 DEF Ordered
  <2>4. ~(i \notin 1 .. n /\ j \in 1 .. n)
    BY <1>1
  <2> QED BY <2>1, <2>2, <2>3, <2>4
<1> QED BY <1>2, <1>3 DEF u

\* What is kept of a sequence is in its order.
LEMMA OrderedKept ==
  ASSUME NEW S, NEW s \in Seq(S), NEW I \in SUBSET DOMAIN s, NEW X, Ordered(s, X)
  PROVE  Ordered(Kept(s, I), X)
<1> DEFINE c == Cardinality(I)
<1>1. PICK at \in [1 .. c -> I] :
        /\ c \in Nat /\ Climbs(at, c)
        /\ Kept(s, I) = [i \in 1 .. c |-> s[at[i]]]
  BY KeptAt
<1>2. PICK k : k = Kept(s, I)
  OBVIOUS
<1> HIDE DEF c
<1>3. DOMAIN k = 1 .. c /\ \A i \in 1 .. c : k[i] = s[at[i]]
  <2>1. k = [i \in 1 .. c |-> s[at[i]]]
    BY <1>1, <1>2
  <2> QED BY ONLY <2>1
<1>4. Ordered(k, X)
  <2> SUFFICES ASSUME NEW i \in DOMAIN k, NEW j \in DOMAIN k, i < j, k[i] \in X, k[j] \in X,
                      k[i].from = k[j].from
               PROVE  k[i].id < k[j].id
    BY DEF Ordered
  <2>1. at[i] \in DOMAIN s /\ at[j] \in DOMAIN s /\ at[i] < at[j]
    BY <1>1, <1>3 DEF Climbs
  <2> QED BY <1>3, <2>1 DEF Ordered
<1> QED BY <1>2, <1>4

\* A filter by key keeps the order.
LEMMA OrderedByKey ==
  ASSUME NEW s \in Seq(Message), NEW k, NEW X, Ordered(s, X)
  PROVE  Ordered(WithKey(s, k), X) /\ Ordered(WithoutKey(s, k), X)
<1>1. /\ {i \in DOMAIN s : s[i].key = k} \in SUBSET DOMAIN s
      /\ {i \in DOMAIN s : s[i].key # k} \in SUBSET DOMAIN s
  OBVIOUS
<1> QED BY <1>1, OrderedKept DEF WithKey, WithoutKey

\* Joined sequences: what is in them, how often and in which order.
LEMMA Joined ==
  ASSUME NEW S, NEW s \in Seq(S), NEW t \in Seq(S)
  PROVE  /\ s \o t \in Seq(S) /\ Range(s \o t) = Range(s) \cup Range(t)
         /\ \A X : HowMany(s \o t, X) = HowMany(s, X) + HowMany(t, X)
         /\ \A X : Ordered(s \o t, X) <=> /\ Ordered(s, X) /\ Ordered(t, X)
                                          /\ Precede(Range(s), Range(t), X)
  BY RangeJoin, CountJoin, OrderedJoin

\* The same for a sequence of one.
LEMMA Single ==
  ASSUME NEW S, NEW x \in S
  PROVE  \E a \in Seq(S) : /\ a = <<x>> /\ Range(a) = {x}
                           /\ \A X : HowMany(a, X) = (IF x \in X THEN 1 ELSE 0) /\ Ordered(a, X)
<1>1. <<x>> \in Seq(S) /\ Range(<<x>>) = {x}
  BY RangeOne
<1>2. \A X : HowMany(<<x>>, X) = IF x \in X THEN 1 ELSE 0
  BY CountOne
<1>3. \A X : Ordered(<<x>>, X)
  BY OrderedOne
<1>4. PICK a : a = <<x>>
  OBVIOUS
<1> QED BY <1>1, <1>2, <1>3, <1>4

\* The first message of a sequence, and the others.
LEMMA HeadCut ==
  ASSUME NEW S, NEW s \in Seq(S), s # <<>>
  PROVE  /\ Head(s) \in S /\ Tail(s) \in Seq(S)
         /\ Range(s) = {Head(s)} \cup Range(Tail(s))
         /\ \A X : HowMany(s, X) = (IF Head(s) \in X THEN 1 ELSE 0) + HowMany(Tail(s), X)
         /\ \A X : Ordered(s, X) => Ordered(Tail(s), X) /\ Precede({Head(s)}, Range(Tail(s)), X)
<1>1. PICK h, t : h = Head(s) /\ t = Tail(s)
  OBVIOUS
<1>2. s = <<h>> \o t /\ t \in Seq(S) /\ h \in S
  BY <1>1, Cuts
<1>3. PICK a \in Seq(S) : /\ a = <<h>> /\ Range(a) = {h}
                          /\ \A X : HowMany(a, X) = (IF h \in X THEN 1 ELSE 0) /\ Ordered(a, X)
  BY <1>2, Single
<1>4. s = a \o t
  BY <1>2, <1>3
<1>5. /\ Range(s) = Range(a) \cup Range(t)
      /\ \A X : HowMany(s, X) = HowMany(a, X) + HowMany(t, X)
      /\ \A X : Ordered(s, X) <=> /\ Ordered(a, X) /\ Ordered(t, X)
                                  /\ Precede(Range(a), Range(t), X)
  BY <1>2, <1>4, Joined
<1> QED BY <1>1, <1>2, <1>3, <1>5

\* A message at the end.
LEMMA EndCut ==
  ASSUME NEW S, NEW s \in Seq(S), NEW x \in S
  PROVE  /\ Append(s, x) \in Seq(S) /\ Range(Append(s, x)) = Range(s) \cup {x}
         /\ \A X : HowMany(Append(s, x), X) = HowMany(s, X) + (IF x \in X THEN 1 ELSE 0)
         /\ \A X : (Ordered(s, X) /\ Precede(Range(s), {x}, X)) => Ordered(Append(s, x), X)
<1>1. PICK a \in Seq(S) : /\ a = <<x>> /\ Range(a) = {x}
                          /\ \A X : HowMany(a, X) = (IF x \in X THEN 1 ELSE 0) /\ Ordered(a, X)
  BY Single
<1>2. PICK u : u = Append(s, x)
  OBVIOUS
<1>3. u = s \o a
  BY <1>1, <1>2, Cuts
<1>4. /\ u \in Seq(S) /\ Range(u) = Range(s) \cup Range(a)
      /\ \A X : HowMany(u, X) = HowMany(s, X) + HowMany(a, X)
      /\ \A X : Ordered(u, X) <=> /\ Ordered(s, X) /\ Ordered(a, X)
                                  /\ Precede(Range(s), Range(a), X)
  BY <1>3, Joined
<1> QED BY <1>1, <1>2, <1>4

\* A message before the last one.
LEMMA InsertedCut ==
  ASSUME NEW S, NEW s \in Seq(S), s # <<>>, NEW x \in S
  PROVE  LET u == InsertAt(s, Len(s), x) IN
         /\ u \in Seq(S) /\ Range(u) = Range(s) \cup {x} /\ Last(s) \in Range(s)
         /\ \A X : HowMany(u, X) = HowMany(s, X) + (IF x \in X THEN 1 ELSE 0)
         /\ \A X : (Ordered(s, X) /\ Precede(Range(s), {x}, X) /\ Precede({x}, {Last(s)}, X))
                     => Ordered(u, X)
<1>1. PICK f \in Seq(S) : /\ s = f \o <<Last(s)>> /\ Last(s) \in S
                          /\ InsertAt(s, Len(s), x) = f \o (<<x>> \o <<Last(s)>>)
  BY InsertCut
<1>2. PICK l, u : l = Last(s) /\ u = InsertAt(s, Len(s), x)
  OBVIOUS
<1>3. l \in S
  BY <1>1, <1>2
<1>4. PICK a \in Seq(S) : /\ a = <<x>> /\ Range(a) = {x}
                          /\ \A X : HowMany(a, X) = (IF x \in X THEN 1 ELSE 0) /\ Ordered(a, X)
  BY Single
<1>5. PICK b \in Seq(S) : /\ b = <<l>> /\ Range(b) = {l}
                          /\ \A X : HowMany(b, X) = (IF l \in X THEN 1 ELSE 0) /\ Ordered(b, X)
  BY <1>3, Single
<1>6. PICK e : e = a \o b
  OBVIOUS
<1>7. /\ e \in Seq(S) /\ Range(e) = {x} \cup {l}
      /\ \A X : HowMany(e, X) = HowMany(a, X) + HowMany(b, X)
      /\ \A X : Ordered(e, X) <=> Ordered(a, X) /\ Ordered(b, X) /\ Precede({x}, {l}, X)
  <2>1. /\ e \in Seq(S) /\ Range(e) = Range(a) \cup Range(b)
        /\ \A X : HowMany(e, X) = HowMany(a, X) + HowMany(b, X)
        /\ \A X : Ordered(e, X) <=> Ordered(a, X) /\ Ordered(b, X) /\ Precede(Range(a), Range(b), X)
    BY ONLY a \in Seq(S), b \in Seq(S), <1>6, Joined
  <2>2. Range(a) = {x} /\ Range(b) = {l}
    BY <1>4, <1>5
  <2> QED BY ONLY <2>1, <2>2
<1>8. s = f \o b /\ u = f \o e
  BY <1>1, <1>2, <1>4, <1>5, <1>6
<1>9. /\ Range(s) = Range(f) \cup {l}
      /\ \A X : HowMany(s, X) = HowMany(f, X) + HowMany(b, X)
      /\ \A X : Ordered(s, X) <=> Ordered(f, X) /\ Ordered(b, X) /\ Precede(Range(f), {l}, X)
  <2>1. /\ Range(s) = Range(f) \cup Range(b)
        /\ \A X : HowMany(s, X) = HowMany(f, X) + HowMany(b, X)
        /\ \A X : Ordered(s, X) <=> Ordered(f, X) /\ Ordered(b, X) /\ Precede(Range(f), Range(b), X)
    BY ONLY f \in Seq(S), b \in Seq(S), <1>8, Joined
  <2>2. Range(b) = {l}
    BY <1>5
  <2> QED BY ONLY <2>1, <2>2
<1>10. /\ u \in Seq(S) /\ Range(u) = Range(f) \cup Range(e)
       /\ \A X : HowMany(u, X) = HowMany(f, X) + HowMany(e, X)
       /\ \A X : Ordered(u, X) <=> Ordered(f, X) /\ Ordered(e, X) /\ Precede(Range(f), Range(e), X)
  <2>1. e \in Seq(S)
    BY <1>7
  <2> QED BY ONLY f \in Seq(S), <2>1, <1>8, Joined
<1>11. ASSUME NEW X PROVE HowMany(u, X) = HowMany(s, X) + (IF x \in X THEN 1 ELSE 0)
  <2>1. HowMany(f, X) \in Nat /\ HowMany(a, X) \in Nat /\ HowMany(b, X) \in Nat
    BY AtFinite
  <2> QED BY <1>4, <1>7, <1>9, <1>10, <2>1
<1>12. ASSUME NEW X, Ordered(s, X), Precede(Range(s), {x}, X), Precede({x}, {l}, X)
       PROVE  Ordered(u, X)
  <2>1. Ordered(f, X) /\ Precede(Range(f), {l}, X)
    BY <1>9, <1>12
  <2>2. Ordered(e, X)
    BY <1>4, <1>5, <1>7, <1>12
  <2>3. Precede(Range(f), Range(e), X)
    BY <1>7, <1>9, <1>12, <2>1 DEF Precede
  <2> QED BY <1>10, <2>1, <2>2, <2>3
<1>13. l \in Range(s) /\ Range(u) = Range(s) \cup {x}
  BY <1>7, <1>9, <1>10
<1> QED BY <1>2, <1>10, <1>11, <1>12, <1>13

\* A batch, and what it leaves in the store.
LEMMA BatchCut ==
  ASSUME NEW S, NEW s \in Seq(S)
  PROVE  /\ Batch(s) \in Seq(S) /\ Rest(s) \in Seq(S)
         /\ Range(s) = Range(Batch(s)) \cup Range(Rest(s))
         /\ \A X : HowMany(s, X) = HowMany(Batch(s), X) + HowMany(Rest(s), X)
         /\ \A X : Ordered(s, X) => /\ Ordered(Batch(s), X) /\ Ordered(Rest(s), X)
                                    /\ Precede(Range(Batch(s)), Range(Rest(s)), X)
<1>0. BatchSize \in Nat
  BY SyncAssumption
<1>1. PICK b, r : b = Batch(s) /\ r = Rest(s)
  OBVIOUS
<1>2. b \in Seq(S) /\ r \in Seq(S) /\ s = b \o r
  BY <1>0, <1>1, BatchAndRest
<1>3. Range(s) = Range(b) \cup Range(r)
  BY <1>2, RangeJoin
<1>4. \A X : HowMany(s, X) = HowMany(b, X) + HowMany(r, X)
  BY <1>2, CountJoin
<1>5. ASSUME NEW X, Ordered(s, X)
      PROVE  Ordered(b, X) /\ Ordered(r, X) /\ Precede(Range(b), Range(r), X)
  BY <1>2, <1>5, OrderedJoin
<1> QED BY <1>1, <1>2, <1>3, <1>4, <1>5
-----------------------------------------------------------------------------
(* The invariant.                                                          *)

\* The messages in flight: stored by the server, in the batch, or waiting for a key.
Stored == Range(queue) \cup Range(opens) \cup Range(mailbox)
Waiting == UNION {Range(waiting[p]) : p \in Peers}
InFlight == Stored \cup Waiting

\* The steps in which the initial messages have been fetched.
Fetched == {"messages", "final", "resolve"}
Openings == {"open", "badOpen", "noOpenConv"}

\* Where messages may be in each step: openings are fetched first, and the server keeps
\* them apart unless it relays them.
PhaseInv ==
  /\ step \in {"off", "prekeys", "live", "resolve"} => messages = <<>> /\ queue = <<>>
  /\ step \in {"off", "prekeys", "initial"} => \A p \in Peers : waiting[p] = <<>>
  /\ step = "live" => opens = <<>>
  /\ step = "initial" => \A m \in Range(queue) : m.key = 0
  /\ step \in Fetched => /\ \A m \in Range(queue) : m.key # 0
                         /\ \A m \in Range(opens) : m.from \in disturbed
  /\ step \notin Fetched => \A p \in Peers : known[p] = {}
  /\ step # "live" => /\ \A m \in Range(opens) : m.key = 0
                      /\ \A m \in Range(mailbox) : m.key # 0

\* What a message is: keys and messages of a peer are numbered in the order they are made.
Wellformed(m) ==
  /\ m.id \in 1 .. sent[m.from] /\ m.next <= key[m.from] /\ m.key <= key[m.from] /\ m.key < m.id
  /\ m.kind \in Openings <=> m.key = 0
  /\ m.next = IF m.kind = "msg" THEN 0 ELSE m.id
MsgInv ==
  /\ \A p \in Peers : key[p] <= sent[p] /\ (openings[p] = 0 => sent[p] = 0)
  /\ \A p \in Peers : \A m \in Range(waiting[p]) : m.from = p /\ m.key # 0
  /\ \A m \in InFlight : Wellformed(m)
  /\ \A a, b \in InFlight : (a.from = b.from /\ a.id < b.id /\ b.key # 0) => a.next <= b.key

\* Every message sent is in one place, and none is that was not sent.
CountInv ==
  \A p \in Peers : \A n \in Nat \ {0} : Places(p, n) = IF n <= sent[p] THEN 1 ELSE 0

\* Nothing waits for a key that the iterator has.
WaitInv ==
  step \in Syncing =>
    \A p \in Peers : \A m \in Range(waiting[p]) : m.key \notin known[p] /\ known[p] # {}

\* The keys of the iterator lead to the session's; a rotation that it can read is one of
\* the session's key; and an opening brings a key that is newer.
KeyInv ==
  /\ \A p \in Peers : /\ sess[p] <= key[p] /\ known[p] \subseteq 1 .. sess[p]
                      /\ known[p] # {} => sess[p] \in known[p]
  /\ \A m \in InFlight :
       /\ (m.kind = "rotate" /\ m.key \in KeysOf(m.from)) => m.key = sess[m.from]
       /\ m.key = 0 => sess[m.from] < m.next

\* What is in order: the openings of a peer, and all that an undisturbed peer sent.
PlacedBut(D) ==
  {m \in Message : m.key = 0 \/ m.from \notin D} \cup {c \in Chats : c.from \notin D}
Placed == PlacedBut(disturbed)
OrderInv ==
  /\ Ordered(queue, Placed) /\ Ordered(opens, Placed) /\ Ordered(mailbox, Placed)
  /\ Ordered(messages, Placed)
  /\ Precede(Range(queue), Range(opens) \cup Range(mailbox), Placed)
  /\ Precede(Range(opens), Range(mailbox), Placed)
  /\ Precede(Range(messages) \cup Waiting, Stored, Placed)

DeliveryInv ==
  \A p \in Peers \ disturbed :
    /\ OrderKept(p)
    /\ \A d \in Range(delivered[p]), x \in Stored \cup Range(messages) : x.from = p => d < x.id
    /\ \A m \in InFlight : (m.from = p /\ m.key = 0) => m.kind = "open" /\ m.id = 1

\* A key that the client has, or that a message in flight brings.
Introduced(p, k) == k \in KeysOf(p) \/ \E b \in InFlight : b.from = p /\ b.next = k

\* The peers of which messages may be lost though the client does not stop.
Unsure == disturbed \cup failed

\* Until the client stops, nothing of the other peers waits or is lost, and each key they
\* use is introduced.
LossInv ==
  stops = 0 =>
    \A p \in Peers \ Unsure :
      /\ waiting[p] = <<>> /\ \A c \in lost : c.from # p
      /\ key[p] # 0 => Introduced(p, key[p])
      /\ \A m \in InFlight : (m.from = p /\ m.key # 0) => Introduced(p, m.key)
      /\ \A m \in Range(mailbox) : (m.from = p /\ m.key \in KeysOf(p)) => m.key = sess[p]

SyncInv ==
  /\ SyncTypeOK /\ PhaseInv /\ MsgInv /\ CountInv /\ WaitInv
  /\ KeyInv /\ OrderInv /\ DeliveryInv /\ LossInv

-----------------------------------------------------------------------------
(* Facts about the invariant's parts.                                      *)

\* A message is not a chat message.
LEMMA Apart == Message \cap Chats = {}
<1> SUFFICES ASSUME NEW x \in Message, x \in Chats PROVE FALSE
  OBVIOUS
<1>1. DOMAIN x = {"kind", "from", "key", "next", "id"}
  BY DEF Message
<1>2. DOMAIN x = {"from", "id"}
  BY DEF Chats
<1>3. "kind" \in {"kind", "from", "key", "next", "id"} /\ "kind" \notin {"from", "id"}
  OBVIOUS
<1> QED BY <1>1, <1>2, <1>3

\* Membership in PlacedBut, for messages and for chats.
LEMMA PlacedIs ==
  ASSUME NEW D
  PROVE  /\ \A m \in Message : m \in PlacedBut(D) <=> (m.key = 0 \/ m.from \notin D)
         /\ \A c \in Chats : c \in PlacedBut(D) <=> c.from \notin D
  BY Apart DEF PlacedBut

\* With more peers disturbed, less has to be in order.
LEMMA PlacedMore ==
  ASSUME NEW D, NEW E, D \subseteq E
  PROVE  PlacedBut(E) \subseteq PlacedBut(D)
  BY DEF PlacedBut

\* The types of what is in the sequences.
LEMMA FlightType ==
  ASSUME SyncTypeOK
  PROVE  /\ queue \in Seq(Message) /\ opens \in Seq(Message) /\ mailbox \in Seq(Message)
         /\ messages \in Seq(Chats)
         /\ \A p \in Peers : waiting[p] \in Seq(Message) /\ delivered[p] \in Seq(Nat \ {0})
         /\ Range(queue) \subseteq Message /\ Range(opens) \subseteq Message
         /\ Range(mailbox) \subseteq Message /\ Range(messages) \subseteq Chats
         /\ \A p \in Peers : Range(waiting[p]) \subseteq Message /\ Range(delivered[p]) \subseteq Nat \ {0}
         /\ Stored \subseteq Message /\ Waiting \subseteq Message /\ InFlight \subseteq Message
<1>1. /\ queue \in Seq(Message) /\ opens \in Seq(Message) /\ mailbox \in Seq(Message)
      /\ messages \in Seq(Chats)
      /\ \A p \in Peers : waiting[p] \in Seq(Message) /\ delivered[p] \in Seq(Nat \ {0})
  BY DEF SyncTypeOK
<1>2. /\ Range(queue) \subseteq Message /\ Range(opens) \subseteq Message
      /\ Range(mailbox) \subseteq Message /\ Range(messages) \subseteq Chats
  BY <1>1, RangeIn
<1>3. \A p \in Peers : Range(waiting[p]) \subseteq Message /\ Range(delivered[p]) \subseteq Nat \ {0}
  BY <1>1, RangeIn
<1>4. Stored \subseteq Message /\ Waiting \subseteq Message /\ InFlight \subseteq Message
  BY <1>2, <1>3 DEF Stored, Waiting, InFlight
<1> QED BY <1>1, <1>2, <1>3, <1>4

\* The fields of a message.
LEMMA MessageIs ==
  ASSUME NEW m \in Message
  PROVE  m.kind \in Kinds /\ m.from \in Peers /\ m.key \in Nat /\ m.next \in Nat /\ m.id \in Nat
  BY DEF Message

\* The keys of the iterator.
LEMMA KeysOfIs ==
  ASSUME SyncTypeOK, NEW p \in Peers
  PROVE  /\ KeysOf(p) \subseteq Nat \ {0}
         /\ KeysOf(p) = IF known[p] = {} /\ sess[p] # 0 THEN {sess[p]} ELSE known[p]
         /\ known[p] # {} => KeysOf(p) = known[p]
         /\ KeyInv => /\ \A k \in KeysOf(p) : k <= sess[p] /\ sess[p] \in KeysOf(p) /\ sess[p] # 0
                      /\ sess[p] # 0 => sess[p] \in KeysOf(p)
<1>1. known[p] \subseteq Nat \ {0} /\ sess[p] \in Nat
  BY DEF SyncTypeOK
<1>2. KeyInv => known[p] \subseteq 1 .. sess[p] /\ (known[p] # {} => sess[p] \in known[p])
  BY DEF KeyInv
<1> QED BY <1>1, <1>2 DEF KeysOf

\* How many copies a sequence holds is a number.
LEMMA CountTypes ==
  ASSUME SyncTypeOK, NEW p \in Peers, NEW n
  PROVE  /\ HowMany(opens, Copies(p, n)) \in Nat /\ HowMany(mailbox, Copies(p, n)) \in Nat
         /\ HowMany(queue, Copies(p, n)) \in Nat /\ HowMany(waiting[p], Copies(p, n)) \in Nat
         /\ HowMany(messages, {[from |-> p, id |-> n]}) \in Nat
         /\ HowMany(delivered[p], {n}) \in Nat
  BY FlightType, AtFinite

\* Which messages are copies.
LEMMA CopiesAre ==
  ASSUME NEW m \in Message, NEW p \in Peers, NEW n \in Nat
  PROVE  /\ m \in Copies(p, n) <=> m.from = p /\ m.id = n
         /\ ChatMessage(m) \in {[from |-> p, id |-> n]} <=> m.from = p /\ m.id = n
         /\ ChatMessage(m) = [from |-> p, id |-> n] <=> m.from = p /\ m.id = n
<1>1. m \in Copies(p, n) <=> m.from = p /\ m.id = n
  BY DEF Copies, Message
<1>2. ChatMessage(m) = [from |-> p, id |-> n] <=> m.from = p /\ m.id = n
  BY DEF ChatMessage
<1> QED BY <1>1, <1>2

\* When the places of all messages keep their number, every message sent is still in one.
LEMMA CountKeeps ==
  ASSUME CountInv, sent' = sent,
         \A p \in Peers : \A n \in Nat \ {0} : Places(p, n)' = Places(p, n)
  PROVE  CountInv'
  BY DEF CountInv

\* Messages that are only moved or dropped stay what they were.
LEMMA MsgKeeps ==
  ASSUME MsgInv, UNCHANGED <<sent, key, openings>>, InFlight' \subseteq InFlight,
         \A p \in Peers : \A m \in Range(waiting'[p]) :
            m \in Range(waiting[p]) \/ (m.from = p /\ m.key # 0)
  PROVE  MsgInv'
<1>1. \A p \in Peers : key'[p] <= sent'[p] /\ (openings'[p] = 0 => sent'[p] = 0)
  BY DEF MsgInv
<1>2. \A p \in Peers : \A m \in Range(waiting'[p]) : m.from = p /\ m.key # 0
  BY DEF MsgInv
<1>3. \A m \in InFlight' : Wellformed(m)'
  BY DEF MsgInv, Wellformed
<1>4. \A a, b \in InFlight' : (a.from = b.from /\ a.id < b.id /\ b.key # 0) => a.next <= b.key
  BY DEF MsgInv
<1> QED BY <1>1, <1>2, <1>3, <1>4 DEF MsgInv

\* The sessions stay, and the iterator forgets the keys of a peer or meets it.
LEMMA KeyKeeps ==
  ASSUME SyncTypeOK, KeyInv, UNCHANGED <<sess, key>>, InFlight' \subseteq InFlight,
         \A p \in Peers : \/ known'[p] = {} \/ known'[p] = known[p] \/ known'[p] = KeysOf(p)
  PROVE  KeyInv' /\ \A p \in Peers : \/ KeysOf(p)' = KeysOf(p)
                                     \/ /\ known'[p] = {} /\ KeysOf(p)' \subseteq {sess[p]}
                                        /\ (sess[p] # 0 => KeysOf(p)' = {sess[p]})
<1>0. \A p \in Peers : sess[p] \in Nat
  BY DEF SyncTypeOK
<1>1. ASSUME NEW p \in Peers
      PROVE  /\ sess'[p] <= key'[p] /\ known'[p] \subseteq 1 .. sess'[p]
             /\ known'[p] # {} => sess'[p] \in known'[p]
  <2>1. /\ sess[p] <= key[p] /\ known[p] \subseteq 1 .. sess[p]
        /\ known[p] # {} => sess[p] \in known[p]
    BY DEF KeyInv
  <2>2. KeysOf(p) = {} \/ (KeysOf(p) \subseteq 1 .. sess[p] /\ sess[p] \in KeysOf(p))
    <3>1. CASE known[p] = {} /\ sess[p] # 0
      <4>1. KeysOf(p) = {sess[p]}
        BY <3>1 DEF KeysOf
      <4>2. sess[p] \in 1 .. sess[p]
        BY <1>0, <3>1
      <4> QED BY <4>1, <4>2
    <3>2. CASE ~(known[p] = {} /\ sess[p] # 0)
      <4>1. KeysOf(p) = known[p]
        BY <3>2 DEF KeysOf
      <4> QED BY <2>1, <4>1
    <3> QED BY <3>1, <3>2
  <2> QED BY <2>1, <2>2
<1>2. ASSUME NEW p \in Peers
      PROVE  \/ KeysOf(p)' = KeysOf(p)
             \/ /\ known'[p] = {} /\ KeysOf(p)' \subseteq {sess[p]}
                /\ (sess[p] # 0 => KeysOf(p)' = {sess[p]})
  <2>1. CASE known'[p] = {}
    BY <2>1 DEF KeysOf
  <2>2. CASE known'[p] = known[p]
    BY <2>2 DEF KeysOf
  <2>3. CASE known'[p] = KeysOf(p) /\ known'[p] # {}
    BY <2>3 DEF KeysOf
  <2> QED BY <2>1, <2>2, <2>3
<1>3. ASSUME NEW m \in InFlight'
      PROVE  /\ (m.kind = "rotate" /\ m.key \in KeysOf(m.from)') => m.key = sess'[m.from]
             /\ m.key = 0 => sess'[m.from] < m.next
  <2>1. m \in InFlight /\ m.from \in Peers
    BY FlightType, MessageIs
  <2>2. /\ (m.kind = "rotate" /\ m.key \in KeysOf(m.from)) => m.key = sess[m.from]
        /\ m.key = 0 => sess[m.from] < m.next
    BY <2>1 DEF KeyInv
  <2> QED BY <1>2, <2>1, <2>2
<1>4. KeyInv'
  BY <1>1, <1>3 DEF KeyInv
<1> QED BY <1>2, <1>4

-----------------------------------------------------------------------------
(* process_messages takes the first message of the batch.                  *)

IsFirst(h, t) == queue # <<>> /\ h = Head(queue) /\ t = Tail(queue)
Pops(h) == IsFirst(h, queue')

\* What taking the first message of the batch does to its set, counts and order.
LEMMA FirstFacts ==
  ASSUME SyncTypeOK, NEW h, NEW t, IsFirst(h, t)
  PROVE  /\ h \in Message /\ h \in Range(queue) /\ t \in Seq(Message)
         /\ Range(queue) = {h} \cup Range(t)
         /\ \A X : HowMany(queue, X) = (IF h \in X THEN 1 ELSE 0) + HowMany(t, X)
         /\ \A X : Ordered(queue, X) => Ordered(t, X) /\ Precede({h}, Range(t), X)
<1>1. queue \in Seq(Message) /\ queue # <<>> /\ h = Head(queue) /\ t = Tail(queue)
  BY DEF SyncTypeOK, IsFirst
<1>2. PICK q : q = queue
  OBVIOUS
<1>3. q \in Seq(Message) /\ q # <<>> /\ h = Head(q) /\ t = Tail(q)
  BY <1>1, <1>2
<1>4. /\ h \in Message /\ t \in Seq(Message)
      /\ Range(q) = {h} \cup Range(t)
      /\ \A X : HowMany(q, X) = (IF h \in X THEN 1 ELSE 0) + HowMany(t, X)
      /\ \A X : Ordered(q, X) => Ordered(t, X) /\ Precede({h}, Range(t), X)
  BY ONLY <1>3, HeadCut
<1> QED BY <1>2, <1>4

\* The places that the message leaves to another one: none of its copies is lost, and
\* there is none in another place.
LEMMA FirstOnly ==
  ASSUME SyncTypeOK, CountInv, NEW h, NEW t, IsFirst(h, t), h.id # 0
  PROVE  /\ ChatMessage(h) \notin lost
         /\ \A m \in Range(t) \cup Range(opens) \cup Range(mailbox) \cup Range(waiting[h.from]) :
              m.from = h.from => m.id # h.id
<1> DEFINE X == Copies(h.from, h.id)
<1>1. /\ h \in Message /\ t \in Seq(Message)
      /\ HowMany(queue, X) = (IF h \in X THEN 1 ELSE 0) + HowMany(t, X)
  <2>1. /\ h \in Message /\ t \in Seq(Message)
        /\ \A Z : HowMany(queue, Z) = (IF h \in Z THEN 1 ELSE 0) + HowMany(t, Z)
    BY ONLY SyncTypeOK, IsFirst(h, t), FirstFacts
  <2> QED BY <2>1
<1>2. h.from \in Peers /\ h.id \in Nat \ {0} /\ h \in X
  BY <1>1, MessageIs, CopiesAre
<1>3. /\ HowMany(opens, X) \in Nat /\ HowMany(mailbox, X) \in Nat
      /\ HowMany(queue, X) \in Nat /\ HowMany(waiting[h.from], X) \in Nat
      /\ HowMany(messages, {[from |-> h.from, id |-> h.id]}) \in Nat
      /\ HowMany(delivered[h.from], {h.id}) \in Nat
  BY <1>2, CountTypes
<1>4. HowMany(t, X) \in Nat
  BY <1>1, AtFinite
<1>5. Places(h.from, h.id) = IF h.id <= sent[h.from] THEN 1 ELSE 0
  BY <1>2 DEF CountInv
<1>6. Places(h.from, h.id) \in {0, 1}
  BY <1>5
<1>7. /\ HowMany(opens, X) = 0 /\ HowMany(mailbox, X) = 0 /\ HowMany(t, X) = 0
      /\ HowMany(waiting[h.from], X) = 0
      /\ (IF [from |-> h.from, id |-> h.id] \in lost THEN 1 ELSE 0) = 0
  <2> DEFINE L == IF [from |-> h.from, id |-> h.id] \in lost THEN 1 ELSE 0
  <2>1. Places(h.from, h.id) = HowMany(opens, X) + HowMany(mailbox, X) + HowMany(queue, X)
          + HowMany(waiting[h.from], X) + HowMany(messages, {[from |-> h.from, id |-> h.id]})
          + HowMany(delivered[h.from], {h.id}) + L
    BY DEF Places
  <2>2. L \in {0, 1}
    OBVIOUS
  <2>3. HowMany(queue, X) = 1 + HowMany(t, X)
    BY <1>1, <1>2
  <2> HIDE DEF L, X
  <2>4. PICK o \in Nat, m \in Nat, q \in Nat, r \in Nat, w \in Nat, g \in Nat, d \in Nat,
             l \in {0, 1}, s \in {0, 1} :
          /\ o = HowMany(opens, X) /\ m = HowMany(mailbox, X) /\ q = HowMany(queue, X)
          /\ r = HowMany(t, X) /\ w = HowMany(waiting[h.from], X)
          /\ g = HowMany(messages, {[from |-> h.from, id |-> h.id]})
          /\ d = HowMany(delivered[h.from], {h.id}) /\ l = L /\ s = Places(h.from, h.id)
    BY <1>3, <1>4, <1>6, <2>2
  <2>5. s = o + m + q + w + g + d + l /\ q = 1 + r
    BY <2>1, <2>3, <2>4
  <2>6. o = 0 /\ m = 0 /\ r = 0 /\ w = 0 /\ l = 0
    BY ONLY <2>5, o \in Nat, m \in Nat, q \in Nat, r \in Nat, w \in Nat, g \in Nat, d \in Nat,
             l \in {0, 1}, s \in {0, 1}
  <2> QED BY <2>4, <2>6 DEF L
<1>8. ChatMessage(h) \notin lost
  BY <1>7 DEF ChatMessage
<1>9. ASSUME NEW m \in Range(t) \cup Range(opens) \cup Range(mailbox) \cup Range(waiting[h.from])
      PROVE  m \notin X
  <2>1. opens \in Seq(Message) /\ mailbox \in Seq(Message) /\ waiting[h.from] \in Seq(Message)
    BY <1>2, FlightType
  <2> HIDE DEF X
  <2>2. m \in Range(t) => m \notin X
    BY <1>1, <1>7, CountNone
  <2>3. (m \in Range(opens) => m \notin X) /\ (m \in Range(mailbox) => m \notin X)
    BY <1>7, <2>1, CountNone
  <2>4. m \in Range(waiting[h.from]) => m \notin X
    BY <1>7, <2>1, CountNone
  <2> QED BY <2>2, <2>3, <2>4
<1>10. ASSUME NEW m \in Range(t) \cup Range(opens) \cup Range(mailbox) \cup Range(waiting[h.from])
       PROVE  m.from = h.from => m.id # h.id
  <2>1. Range(t) \subseteq Message
    BY <1>1, RangeIn
  <2>2. m \in Message
    BY <1>2, <2>1, FlightType
  <2>3. m \notin X
    BY <1>9
  <2> QED BY <1>2, <2>2, <2>3, CopiesAre
<1> QED BY <1>8, <1>10

\* The same when the rest is the next batch.
LEMMA PopFacts ==
  ASSUME SyncTypeOK, NEW h, Pops(h)
  PROVE  /\ h \in Message /\ h \in Range(queue) /\ queue' \in Seq(Message)
         /\ Range(queue) = {h} \cup Range(queue')
         /\ \A X : HowMany(queue, X) = (IF h \in X THEN 1 ELSE 0) + HowMany(queue', X)
         /\ \A X : Ordered(queue, X) => Ordered(queue', X) /\ Precede({h}, Range(queue'), X)
<1>1. PICK t : t = queue'
  OBVIOUS
<1>2. IsFirst(h, t)
  BY <1>1 DEF Pops
<1>3. /\ h \in Message /\ h \in Range(queue) /\ t \in Seq(Message)
      /\ Range(queue) = {h} \cup Range(t)
      /\ \A X : HowMany(queue, X) = (IF h \in X THEN 1 ELSE 0) + HowMany(t, X)
      /\ \A X : Ordered(queue, X) => Ordered(t, X) /\ Precede({h}, Range(t), X)
  BY ONLY <1>2, SyncTypeOK, FirstFacts
<1> QED BY <1>1, <1>3

\* The first message is not lost yet.
LEMMA PopOnly ==
  ASSUME SyncTypeOK, CountInv, NEW h, Pops(h), h.id # 0
  PROVE  ChatMessage(h) \notin lost
  BY FirstOnly DEF Pops

\* A message that is added to a sequence, and to what waits for a peer.
LEMMA Pushed ==
  ASSUME NEW S, NEW s \in Seq(S), NEW x \in S, NEW X
  PROVE  HowMany(Append(s, x), X) = HowMany(s, X) + (IF x \in X THEN 1 ELSE 0)
<1>1. \A Z : HowMany(Append(s, x), Z) = HowMany(s, Z) + (IF x \in Z THEN 1 ELSE 0)
  BY EndCut
<1> QED BY <1>1

\* The number of copies when the message is lost, decrypted, or waits.
LEMMA PopCounts ==
  ASSUME SyncTypeOK, CountInv, NEW h, Pops(h), h.id # 0,
         UNCHANGED <<opens, mailbox, delivered, sent>>,
         \/ lost' = lost \cup {ChatMessage(h)} /\ UNCHANGED <<waiting, messages>>
         \/ messages' = Append(messages, ChatMessage(h)) /\ UNCHANGED <<waiting, lost>>
         \/ waiting' = [waiting EXCEPT ![h.from] = Append(@, h)] /\ UNCHANGED <<messages, lost>>
  PROVE  CountInv'
<1>1. h \in Message /\ h.from \in Peers /\ h.id \in Nat \ {0} /\ ChatMessage(h) \in Chats
  <2>1. h \in Message
    BY PopFacts
  <2>2. h.from \in Peers /\ h.id \in Nat \ {0}
    BY <2>1, MessageIs
  <2> QED BY <2>1, <2>2 DEF Chats, ChatMessage
<1> SUFFICES ASSUME NEW p \in Peers, NEW n \in Nat \ {0} PROVE Places(p, n)' = Places(p, n)
  BY CountKeeps
<1>2. PICK X, Y : X = Copies(p, n) /\ Y = {[from |-> p, id |-> n]}
  OBVIOUS
<1>3. PICK b \in {0, 1}, L \in {0, 1}, M \in {0, 1} :
        /\ b = IF h.from = p /\ h.id = n THEN 1 ELSE 0
        /\ L = IF [from |-> p, id |-> n] \in lost THEN 1 ELSE 0
        /\ M = IF [from |-> p, id |-> n] \in lost' THEN 1 ELSE 0
  <2>1. /\ (IF h.from = p /\ h.id = n THEN 1 ELSE 0) \in {0, 1}
        /\ (IF [from |-> p, id |-> n] \in lost THEN 1 ELSE 0) \in {0, 1}
        /\ (IF [from |-> p, id |-> n] \in lost' THEN 1 ELSE 0) \in {0, 1}
    OBVIOUS
  <2> QED BY <2>1
<1>4. PICK o \in Nat, m \in Nat, q \in Nat, w \in Nat, g \in Nat, d \in Nat :
        /\ o = HowMany(opens, X) /\ m = HowMany(mailbox, X) /\ q = HowMany(queue, X)
        /\ w = HowMany(waiting[p], X) /\ g = HowMany(messages, Y) /\ d = HowMany(delivered[p], {n})
  <2>1. /\ HowMany(opens, X) \in Nat /\ HowMany(mailbox, X) \in Nat
        /\ HowMany(queue, X) \in Nat /\ HowMany(waiting[p], X) \in Nat
        /\ HowMany(messages, Y) \in Nat /\ HowMany(delivered[p], {n}) \in Nat
    BY <1>2, CountTypes
  <2> QED BY <2>1
<1>5. /\ h \in X <=> b = 1
      /\ ChatMessage(h) \in Y <=> b = 1
      /\ ChatMessage(h) = [from |-> p, id |-> n] <=> b = 1
  BY <1>1, <1>2, <1>3, CopiesAre
<1>6. PICK r \in Nat : r = HowMany(queue', X) /\ q = b + r
  <2>1. queue' \in Seq(Message) /\ HowMany(queue, X) = (IF h \in X THEN 1 ELSE 0) + HowMany(queue', X)
    BY PopFacts
  <2>2. HowMany(queue', X) \in Nat
    BY <2>1, AtFinite
  <2>3. (IF h \in X THEN 1 ELSE 0) = b
    BY <1>5
  <2> QED BY <1>4, <2>1, <2>2, <2>3
<1>7. b = 1 => L = 0
  <2>1. b = 1 => ChatMessage(h) \notin lost
    BY PopOnly
  <2> QED BY <1>3, <1>5, <2>1
<1>8. PICK v \in Nat, f \in Nat :
        /\ v = HowMany(waiting'[p], X) /\ f = HowMany(messages', Y)
        /\ \/ M = L + b /\ v = w /\ f = g
           \/ M = L /\ v = w /\ f = g + b
           \/ M = L /\ v = w + b /\ f = g
  <2>1. CASE lost' = lost \cup {ChatMessage(h)} /\ UNCHANGED <<waiting, messages>>
    <3>1. M = L + b
      BY <1>3, <1>5, <1>7, <2>1
    <3> QED BY <1>4, <2>1, <3>1
  <2>2. CASE messages' = Append(messages, ChatMessage(h)) /\ UNCHANGED <<waiting, lost>>
    <3>1. messages \in Seq(Chats)
      BY FlightType
    <3>2. HowMany(messages', Y) = HowMany(messages, Y) + (IF ChatMessage(h) \in Y THEN 1 ELSE 0)
      BY <1>1, <2>2, <3>1, Pushed
    <3>3. (IF ChatMessage(h) \in Y THEN 1 ELSE 0) = b
      BY <1>5
    <3>4. HowMany(messages', Y) = g + b /\ g + b \in Nat
      BY <1>4, <3>2, <3>3
    <3>5. M = L
      BY <1>3, <2>2
    <3>6. HowMany(waiting'[p], X) = w
      BY <1>4, <2>2
    <3> QED BY <3>4, <3>5, <3>6
  <2>3. CASE waiting' = [waiting EXCEPT ![h.from] = Append(@, h)] /\ UNCHANGED <<messages, lost>>
    <3>1. waiting \in [Peers -> Seq(Message)]
      BY DEF SyncTypeOK
    <3>2. HowMany(waiting'[p], X) = w + b /\ w + b \in Nat
      <4>1. CASE p = h.from
        <5>1. PICK s, t : s = waiting[p] /\ t = waiting'[p]
          OBVIOUS
        <5>2. s \in Seq(Message) /\ t = Append(s, h)
          BY <2>3, <3>1, <4>1, <5>1
        <5>3. HowMany(t, X) = HowMany(s, X) + (IF h \in X THEN 1 ELSE 0)
          BY <1>1, <5>2, Pushed
        <5>4. (IF h \in X THEN 1 ELSE 0) = b
          BY <1>5
        <5> QED BY <1>4, <5>1, <5>3, <5>4
      <4>2. CASE p # h.from
        <5>1. waiting'[p] = waiting[p]
          BY <2>3, <3>1, <4>2
        <5>2. b = 0
          BY <1>3, <4>2
        <5> QED BY <1>4, <5>1, <5>2
      <4> QED BY <4>1, <4>2
    <3>5. M = L
      BY <1>3, <2>3
    <3>6. HowMany(messages', Y) = g
      BY <1>4, <2>3
    <3> QED BY <3>2, <3>5, <3>6
  <2> QED BY <2>1, <2>2, <2>3
<1>9. Places(p, n) = o + m + q + w + g + d + L
  BY <1>2, <1>3, <1>4 DEF Places
<1>10. Places(p, n)' = o + m + r + v + f + d + M
  BY <1>2, <1>3, <1>4, <1>6, <1>8 DEF Places
<1>11. \/ M = L + b /\ v = w /\ f = g
       \/ M = L /\ v = w /\ f = g + b
       \/ M = L /\ v = w + b /\ f = g
  BY <1>8
<1>12. q = b + r
  BY <1>6
<1>13. o + m + r + v + f + d + M = o + m + q + w + g + d + L
  BY ONLY <1>11, <1>12, o \in Nat, m \in Nat, q \in Nat, w \in Nat, g \in Nat, d \in Nat, r \in Nat,
          v \in Nat, f \in Nat, b \in {0, 1}, L \in {0, 1}, M \in {0, 1}
<1> QED BY <1>9, <1>10, <1>13
-----------------------------------------------------------------------------
(* Steps that move no message.                                             *)

\* A step that moves no message and no key keeps these parts of the invariant.
LEMMA Quiet ==
  ASSUME SyncInv,
         UNCHANGED <<queue, messages, waiting, known, sess, stored, opens, mailbox, sent, key, openings,
                     delivered, lost, disturbed, overtakes, failed, gone, stops>>
  PROVE  MsgInv' /\ CountInv' /\ KeyInv' /\ OrderInv' /\ DeliveryInv' /\ LossInv'
<1>1. MsgInv /\ CountInv /\ KeyInv /\ OrderInv /\ DeliveryInv /\ LossInv
  BY DEF SyncInv
<1>2. Stored' = Stored /\ Waiting' = Waiting
  BY DEF Stored, Waiting
<1>3. InFlight' = InFlight
  BY <1>2 DEF InFlight
<1>4. MsgInv'
  BY <1>1, <1>3 DEF MsgInv, Wellformed
<1>5. CountInv'
  BY <1>1 DEF CountInv, Places
<1>6. KeyInv'
  BY <1>1, <1>3 DEF KeyInv, KeysOf
<1>7. OrderInv'
  BY <1>1, <1>2 DEF OrderInv, Placed
<1>8. DeliveryInv'
  BY <1>1, <1>2, <1>3 DEF DeliveryInv, OrderKept
<1>9. LossInv'
  <2>1. \A p, k : Introduced(p, k)' = Introduced(p, k)
    BY <1>3 DEF Introduced, KeysOf
  <2>2. \A p : KeysOf(p)' = KeysOf(p)
    BY DEF KeysOf
  <2> QED BY <1>1, <1>3, <2>1, <2>2 DEF LossInv, Unsure
<1> QED BY <1>4, <1>5, <1>6, <1>7, <1>8, <1>9

\* The invariant is kept by the start of the client.
LEMMA StartStep ==
  ASSUME SyncInv, Start PROVE SyncInv'
<1>1. /\ step = "off" /\ step' = "prekeys"
      /\ UNCHANGED <<queue, messages, known, pending, waiting, sess, stored, unknown, opens, mailbox,
                     sent, key, openings, delivered, lost, disturbed, overtakes, failed, gone, stops>>
  BY DEF Start, iterator, storage, server, peers, history, counters
<1>2. SyncTypeOK /\ PhaseInv /\ WaitInv
  BY DEF SyncInv
<1>3. MsgInv' /\ CountInv' /\ KeyInv' /\ OrderInv' /\ DeliveryInv' /\ LossInv'
  BY <1>1, Quiet
<1>4. SyncTypeOK'
  BY <1>1, <1>2 DEF SyncTypeOK, Syncing
<1>5. PhaseInv'
  BY <1>1, <1>2 DEF PhaseInv, Fetched
<1>6. WaitInv'
  <2>1. \A p \in Peers : waiting[p] = <<>>
    BY <1>1, <1>2 DEF PhaseInv
  <2> QED BY <1>1, <2>1, RangeOne DEF WaitInv
<1> QED BY <1>3, <1>4, <1>5, <1>6 DEF SyncInv

\* The invariant is kept by the first sync_prekeys.
LEMMA PrekeysStep ==
  ASSUME SyncInv, SyncPrekeys PROVE SyncInv'
<1>1. /\ step = "prekeys" /\ step' = "initial"
      /\ UNCHANGED <<queue, messages, known, pending, waiting, sess, stored, unknown, opens, mailbox,
                     sent, key, openings, delivered, lost, disturbed, overtakes, failed, gone, stops>>
  BY DEF SyncPrekeys, iterator, storage, server, peers, history, counters
<1>2. SyncTypeOK /\ PhaseInv /\ WaitInv
  BY DEF SyncInv
<1>3. MsgInv' /\ CountInv' /\ KeyInv' /\ OrderInv' /\ DeliveryInv' /\ LossInv'
  BY <1>1, Quiet
<1>4. SyncTypeOK'
  BY <1>1, <1>2 DEF SyncTypeOK, Syncing
<1>5. PhaseInv'
  <2>1. queue' = <<>>
    BY <1>1, <1>2 DEF PhaseInv
  <2>2. Range(queue') = {}
    BY <2>1, RangeOne
  <2> QED BY <1>1, <1>2, <2>2 DEF PhaseInv, Fetched
<1>6. WaitInv'
  BY <1>1, <1>2 DEF WaitInv, Syncing
<1> QED BY <1>3, <1>4, <1>5, <1>6 DEF SyncInv

\* The invariant is kept by the last sync_prekeys.
LEMMA FinalStep ==
  ASSUME SyncInv, FinalPrekeys PROVE SyncInv'
<1>1. /\ step = "final" /\ step' = "resolve" /\ queue = <<>> /\ messages = <<>> /\ pending' = unknown
      /\ UNCHANGED <<queue, messages, known, waiting, sess, stored, unknown, opens, mailbox,
                     sent, key, openings, delivered, lost, disturbed, overtakes, failed, gone, stops>>
  BY DEF FinalPrekeys, Idle, storage, server, peers, history, counters
<1>2. SyncTypeOK /\ PhaseInv /\ WaitInv
  BY DEF SyncInv
<1>3. MsgInv' /\ CountInv' /\ KeyInv' /\ OrderInv' /\ DeliveryInv' /\ LossInv'
  BY <1>1, Quiet
<1>4. SyncTypeOK'
  BY <1>1, <1>2 DEF SyncTypeOK, Syncing
<1>5. PhaseInv'
  BY <1>1, <1>2 DEF PhaseInv, Fetched
<1>6. WaitInv'
  BY <1>1, <1>2 DEF WaitInv, Syncing
<1> QED BY <1>3, <1>4, <1>5, <1>6 DEF SyncInv

\* The invariant is kept by the resolution of a peer.
LEMMA ResolveStep ==
  ASSUME SyncInv, ResolvePeer PROVE SyncInv'
<1>1. /\ step = "resolve" /\ pending' \subseteq pending
      /\ \E s \in pending : pending' = pending \ {s} /\ unknown' = unknown \ {s}
      /\ UNCHANGED <<step, queue, messages, known, waiting, sess, stored, opens, mailbox,
                     sent, key, openings, delivered, lost, disturbed, overtakes, failed, gone, stops>>
  <2>1. ToResolve \in pending
    BY DEF ResolvePeer, ToResolve
  <2> QED BY <2>1 DEF ResolvePeer, server, peers, history, counters
<1>2. SyncTypeOK /\ PhaseInv /\ WaitInv
  BY DEF SyncInv
<1>3. MsgInv' /\ CountInv' /\ KeyInv' /\ OrderInv' /\ DeliveryInv' /\ LossInv'
  BY <1>1, Quiet
<1>4. SyncTypeOK'
  BY <1>1, <1>2 DEF SyncTypeOK, Syncing
<1>5. PhaseInv'
  BY <1>1, <1>2 DEF PhaseInv, Fetched
<1>6. WaitInv'
  BY <1>1, <1>2 DEF WaitInv, Syncing
<1> QED BY <1>3, <1>4, <1>5, <1>6 DEF SyncInv
-----------------------------------------------------------------------------
(* next() returns a decrypted message.                                     *)

\* How many copies each place holds.
LEMMA Numbers ==
  ASSUME SyncTypeOK, NEW p \in Peers, NEW n \in Nat \ {0}
  PROVE  \E o, m, q, w, g, d \in Nat, L \in {0, 1} :
           /\ o = HowMany(opens, Copies(p, n)) /\ m = HowMany(mailbox, Copies(p, n))
           /\ q = HowMany(queue, Copies(p, n)) /\ w = HowMany(waiting[p], Copies(p, n))
           /\ g = HowMany(messages, {[from |-> p, id |-> n]}) /\ d = HowMany(delivered[p], {n})
           /\ L = (IF [from |-> p, id |-> n] \in lost THEN 1 ELSE 0)
           /\ Places(p, n) = o + m + q + w + g + d + L
<1>1. /\ HowMany(opens, Copies(p, n)) \in Nat /\ HowMany(mailbox, Copies(p, n)) \in Nat
      /\ HowMany(queue, Copies(p, n)) \in Nat /\ HowMany(waiting[p], Copies(p, n)) \in Nat
      /\ HowMany(messages, {[from |-> p, id |-> n]}) \in Nat /\ HowMany(delivered[p], {n}) \in Nat
  BY CountTypes
<1>2. (IF [from |-> p, id |-> n] \in lost THEN 1 ELSE 0) \in {0, 1}
  OBVIOUS
<1>3. Places(p, n) = HowMany(opens, Copies(p, n)) + HowMany(mailbox, Copies(p, n))
        + HowMany(queue, Copies(p, n)) + HowMany(waiting[p], Copies(p, n))
        + HowMany(messages, {[from |-> p, id |-> n]}) + HowMany(delivered[p], {n})
        + (IF [from |-> p, id |-> n] \in lost THEN 1 ELSE 0)
  BY DEF Places
<1> QED BY <1>1, <1>2, <1>3

\* What the client has of a peer, the peer sent.
LEMMA SentOnly ==
  ASSUME SyncTypeOK, CountInv, NEW p \in Peers, NEW n \in Nat \ {0}, n > sent[p]
  PROVE  /\ \A c \in Range(messages) : c # [from |-> p, id |-> n]
         /\ n \notin Range(delivered[p]) /\ [from |-> p, id |-> n] \notin lost
         /\ \A s \in {queue, opens, mailbox, waiting[p]} : \A x \in Range(s) : x \notin Copies(p, n)
<1>1. PICK o, m, q, w, g, d \in Nat, L \in {0, 1} :
        /\ o = HowMany(opens, Copies(p, n)) /\ m = HowMany(mailbox, Copies(p, n))
        /\ q = HowMany(queue, Copies(p, n)) /\ w = HowMany(waiting[p], Copies(p, n))
        /\ g = HowMany(messages, {[from |-> p, id |-> n]}) /\ d = HowMany(delivered[p], {n})
        /\ L = (IF [from |-> p, id |-> n] \in lost THEN 1 ELSE 0)
        /\ Places(p, n) = o + m + q + w + g + d + L
  BY Numbers
<1>2. sent[p] \in Nat
  BY DEF SyncTypeOK
<1>3. Places(p, n) = 0
  BY <1>2 DEF CountInv
<1>4. o + m + q + w + g + d + L = 0
  BY <1>1, <1>3
<1>5. o = 0 /\ m = 0 /\ q = 0 /\ w = 0 /\ g = 0 /\ d = 0 /\ L = 0
  BY ONLY <1>4, o \in Nat, m \in Nat, q \in Nat, w \in Nat, g \in Nat, d \in Nat, L \in {0, 1}
<1>6. messages \in Seq(Chats) /\ delivered[p] \in Seq(Nat \ {0})
      /\ queue \in Seq(Message) /\ opens \in Seq(Message) /\ mailbox \in Seq(Message)
      /\ waiting[p] \in Seq(Message)
  BY FlightType
<1>7. \A c \in Range(messages) : c \notin {[from |-> p, id |-> n]}
  BY <1>1, <1>5, <1>6, CountNone
<1>8. \A c \in Range(delivered[p]) : c \notin {n}
  BY <1>1, <1>5, <1>6, CountNone
<1>9. [from |-> p, id |-> n] \notin lost
  BY <1>1, <1>5
<1>10. /\ \A x \in Range(queue) : x \notin Copies(p, n)
       /\ \A x \in Range(opens) : x \notin Copies(p, n)
       /\ \A x \in Range(mailbox) : x \notin Copies(p, n)
       /\ \A x \in Range(waiting[p]) : x \notin Copies(p, n)
  BY <1>1, <1>5, <1>6, CountNone
<1> QED BY <1>7, <1>8, <1>9, <1>10

\* What is decrypted or delivered was sent.
LEMMA SentBefore ==
  ASSUME SyncTypeOK, CountInv
  PROVE  /\ \A c \in Range(messages) : c.from \in Peers /\ c.id \in 1 .. sent[c.from]
         /\ \A p \in Peers : \A d \in Range(delivered[p]) : d \in 1 .. sent[p]
<1>0. \A p \in Peers : sent[p] \in Nat
  BY DEF SyncTypeOK
<1>1. ASSUME NEW c \in Range(messages) PROVE c.from \in Peers /\ c.id \in 1 .. sent[c.from]
  <2>1. c \in Chats
    BY FlightType
  <2>2. c.from \in Peers /\ c.id \in Nat \ {0} /\ c = [from |-> c.from, id |-> c.id]
    BY <2>1 DEF Chats
  <2>3. ~(c.id > sent[c.from])
    BY <2>2, SentOnly
  <2> QED BY <1>0, <2>2, <2>3
<1>2. ASSUME NEW p \in Peers, NEW d \in Range(delivered[p]) PROVE d \in 1 .. sent[p]
  <2>1. d \in Nat \ {0}
    BY FlightType
  <2>2. ~(d > sent[p])
    BY <2>1, SentOnly
  <2> QED BY <1>0, <2>1, <2>2
<1> QED BY <1>1, <1>2

\* Fewer messages in the same places, in their order.
LEMMA OrderFewer ==
  ASSUME OrderInv, disturbed \subseteq disturbed',
         Ordered(queue', Placed'), Ordered(opens', Placed'), Ordered(mailbox', Placed'),
         Ordered(messages', Placed'),
         Range(queue') \subseteq Range(queue), Range(opens') \subseteq Range(opens),
         Range(mailbox') \subseteq Range(mailbox), Range(messages') \subseteq Range(messages),
         Waiting' \subseteq Waiting
  PROVE  OrderInv'
<1>1. Placed' \subseteq Placed
  BY PlacedMore DEF Placed
<1>2. Stored' \subseteq Stored
  BY DEF Stored
<1>3. /\ Precede(Range(queue), Range(opens) \cup Range(mailbox), Placed)
      /\ Precede(Range(opens), Range(mailbox), Placed)
      /\ Precede(Range(messages) \cup Waiting, Stored, Placed)
  BY DEF OrderInv
<1>4. Precede(Range(queue'), Range(opens') \cup Range(mailbox'), Placed')
  BY <1>1, <1>3 DEF Precede
<1>5. Precede(Range(opens'), Range(mailbox'), Placed')
  BY <1>1, <1>3 DEF Precede
<1>6. Precede(Range(messages') \cup Waiting', Stored', Placed')
  BY <1>1, <1>2, <1>3 DEF Precede
<1> QED BY <1>4, <1>5, <1>6 DEF OrderInv

\* A sequence of numbers stays in order when a larger one is added.
LEMMA OrderGrows ==
  ASSUME NEW s \in Seq(Nat \ {0}), NEW x \in Nat \ {0}, \A i, j \in DOMAIN s : i < j => s[i] < s[j],
         \A d \in Range(s) : d < x
  PROVE  LET u == Append(s, x) IN \A i, j \in DOMAIN u : i < j => u[i] < u[j]
<1> DEFINE u == Append(s, x)
<1>1. /\ Len(s) \in Nat /\ DOMAIN s = 1 .. Len(s) /\ DOMAIN u = 1 .. Len(s) + 1
      /\ \A i \in 1 .. Len(s) : u[i] = s[i]
      /\ u[Len(s) + 1] = x
  OBVIOUS
<1>2. \A i \in 1 .. Len(s) : s[i] < x
  BY <1>1 DEF Range
<1> HIDE DEF u
<1>3. \A i, j \in DOMAIN u : i < j => u[i] < u[j]
  BY <1>1, <1>2
<1> QED BY <1>3 DEF u

\* A message x of a peer is delivered, after all that was delivered, before all that is left.
LEMMA DeliveryGrows ==
  ASSUME SyncTypeOK, DeliveryInv, NEW x, x.from \in Peers, x.id \in Nat \ {0}, disturbed' = disturbed,
         delivered' = [delivered EXCEPT ![x.from] = Append(@, x.id)],
         InFlight' \subseteq InFlight, Stored' \cup Range(messages') \subseteq Stored \cup Range(messages),
         x.from \notin disturbed =>
           /\ \A d \in Range(delivered[x.from]) : d < x.id
           /\ \A y \in Stored' \cup Range(messages') : y.from = x.from => x.id < y.id
  PROVE  DeliveryInv'
<1> SUFFICES ASSUME NEW p \in Peers \ disturbed
             PROVE  /\ OrderKept(p)'
                    /\ \A d \in Range(delivered'[p]), y \in Stored' \cup Range(messages') : y.from = p => d < y.id
                    /\ \A m \in InFlight' : (m.from = p /\ m.key = 0) => m.kind = "open" /\ m.id = 1
  BY DEF DeliveryInv
<1>1. /\ OrderKept(p)
      /\ \A d \in Range(delivered[p]), y \in Stored \cup Range(messages) : y.from = p => d < y.id
      /\ \A m \in InFlight : (m.from = p /\ m.key = 0) => m.kind = "open" /\ m.id = 1
  BY DEF DeliveryInv
<1>2. \A m \in InFlight' : (m.from = p /\ m.key = 0) => m.kind = "open" /\ m.id = 1
  BY <1>1
<1>3. delivered \in [Peers -> Seq(Nat \ {0})]
  BY DEF SyncTypeOK
<1>4. CASE p # x.from
  <2>1. delivered'[p] = delivered[p]
    BY <1>3, <1>4
  <2>2. OrderKept(p)'
    BY <1>1, <2>1 DEF OrderKept
  <2> QED BY <1>1, <1>2, <2>1, <2>2
<1>5. CASE p = x.from
  <2>1. PICK s, t, i : s = delivered[p] /\ t = delivered'[p] /\ i = x.id
    OBVIOUS
  <2>2. s \in Seq(Nat \ {0}) /\ t = Append(s, i) /\ i \in Nat \ {0}
    BY <1>3, <1>5, <2>1
  <2>3. (\A j, k \in DOMAIN s : j < k => s[j] < s[k]) /\ (\A d \in Range(s) : d < i)
    BY <1>1, <1>5, <2>1 DEF OrderKept
  <2>4. \A j, k \in DOMAIN t : j < k => t[j] < t[k]
    BY ONLY <2>2, <2>3, OrderGrows
  <2>5. Range(t) = Range(s) \cup {i}
    <3>1. PICK S : S = Nat \ {0}
      OBVIOUS
    <3>2. s \in Seq(S) /\ i \in S
      BY <2>2, <3>1
    <3>3. Range(Append(s, i)) = Range(s) \cup {i}
      BY ONLY <3>2, EndCut
    <3> QED BY <2>2, <3>3
  <2>6. OrderKept(p)'
    BY <2>1, <2>4 DEF OrderKept
  <2>7. ASSUME NEW d \in Range(delivered'[p]), NEW y \in Stored' \cup Range(messages'), y.from = p
        PROVE  d < y.id
    <3>1. d \in Range(s) \/ d = i
      BY <2>1, <2>5
    <3>2. CASE d \in Range(s)
      BY <1>1, <2>1, <2>7, <3>2
    <3>3. CASE d = i
      BY <1>5, <2>1, <2>7, <3>3
    <3> QED BY <3>1, <3>2, <3>3
  <2> QED BY <1>2, <2>6, <2>7
<1> QED BY <1>4, <1>5
\* Nothing is delivered, and what is left was there.
LEMMA DeliveryFewer ==
  ASSUME DeliveryInv, delivered' = delivered, disturbed \subseteq disturbed',
         \A y \in Stored' \cup Range(messages') :
            y.from \notin disturbed' =>
              \E x \in Stored \cup Range(messages) : x.from = y.from /\ x.id = y.id,
         \A m \in InFlight' : m.key = 0 => m \in InFlight
  PROVE  DeliveryInv'
<1> SUFFICES ASSUME NEW p \in Peers \ disturbed'
             PROVE  /\ OrderKept(p)'
                    /\ \A d \in Range(delivered'[p]), y \in Stored' \cup Range(messages') : y.from = p => d < y.id
                    /\ \A m \in InFlight' : (m.from = p /\ m.key = 0) => m.kind = "open" /\ m.id = 1
  BY DEF DeliveryInv
<1>1. /\ OrderKept(p)
      /\ \A d \in Range(delivered[p]), y \in Stored \cup Range(messages) : y.from = p => d < y.id
      /\ \A m \in InFlight : (m.from = p /\ m.key = 0) => m.kind = "open" /\ m.id = 1
  BY DEF DeliveryInv
<1>2. OrderKept(p)'
  BY <1>1 DEF OrderKept
<1>3. ASSUME NEW d \in Range(delivered'[p]), NEW y \in Stored' \cup Range(messages'), y.from = p
      PROVE  d < y.id
  <2>1. PICK x \in Stored \cup Range(messages) : x.from = p /\ x.id = y.id
    BY <1>3
  <2>2. d \in Range(delivered[p])
    OBVIOUS
  <2>3. d < x.id
    BY <1>1, <2>1, <2>2
  <2> QED BY <2>1, <2>3
<1> QED BY <1>1, <1>2, <1>3

\* The messages in flight stay, and nothing is lost.
LEMMA LossSame ==
  ASSUME LossInv, UNCHANGED <<waiting, known, sess, key, lost, disturbed, failed, stops>>,
         InFlight' = InFlight, Range(mailbox') \subseteq Range(mailbox)
  PROVE  LossInv'
<1>1. \A p : KeysOf(p)' = KeysOf(p)
  BY DEF KeysOf
<1>2. \A p, k : Introduced(p, k)' = Introduced(p, k)
  BY <1>1 DEF Introduced
<1> QED BY <1>1, <1>2 DEF LossInv, Unsure

\* A decrypted message that is returned moves from messages to delivered.
LEMMA ReturnCounts ==
  ASSUME SyncTypeOK, CountInv, messages # <<>>, Delivers(Head(messages)), messages' = Tail(messages),
         UNCHANGED <<queue, opens, mailbox, waiting, sent, lost>>
  PROVE  CountInv'
<1>1. PICK c, s, t : c = Head(messages) /\ s = messages /\ t = messages'
  OBVIOUS
<1>2. s \in Seq(Chats) /\ s # <<>> /\ c = Head(s) /\ t = Tail(s)
  BY <1>1, FlightType
<1>3. c \in Chats /\ t \in Seq(Chats)
      /\ \A X : HowMany(s, X) = (IF c \in X THEN 1 ELSE 0) + HowMany(t, X)
  BY ONLY <1>2, HeadCut
<1>4. c.from \in Peers /\ c.id \in Nat \ {0} /\ c = [from |-> c.from, id |-> c.id]
  BY <1>3 DEF Chats
<1> SUFFICES ASSUME NEW p \in Peers, NEW n \in Nat \ {0} PROVE Places(p, n)' = Places(p, n)
  BY CountKeeps
<1>5. PICK X, Y : X = Copies(p, n) /\ Y = {[from |-> p, id |-> n]}
  OBVIOUS
<1>6. PICK o, m, q, w, g, d \in Nat, L \in {0, 1} :
        /\ o = HowMany(opens, Copies(p, n)) /\ m = HowMany(mailbox, Copies(p, n))
        /\ q = HowMany(queue, Copies(p, n)) /\ w = HowMany(waiting[p], Copies(p, n))
        /\ g = HowMany(messages, {[from |-> p, id |-> n]}) /\ d = HowMany(delivered[p], {n})
        /\ L = (IF [from |-> p, id |-> n] \in lost THEN 1 ELSE 0)
        /\ Places(p, n) = o + m + q + w + g + d + L
  BY ONLY SyncTypeOK, p \in Peers, n \in Nat \ {0}, Numbers
<1>7. PICK b \in {0, 1} : b = IF c.from = p /\ c.id = n THEN 1 ELSE 0
  OBVIOUS
<1>8. c \in Y <=> b = 1
  BY <1>4, <1>5, <1>7
<1>9. PICK f \in Nat : f = HowMany(messages', Y) /\ g = b + f
  <2>1. HowMany(t, Y) \in Nat
    BY <1>3, AtFinite
  <2>2. HowMany(s, Y) = (IF c \in Y THEN 1 ELSE 0) + HowMany(t, Y)
    BY <1>3
  <2>3. (IF c \in Y THEN 1 ELSE 0) = b
    BY <1>8
  <2> QED BY <1>1, <1>5, <1>6, <2>1, <2>2, <2>3
<1>10. PICK e \in Nat : e = HowMany(delivered'[p], {n}) /\ e = d + b
  <2>1. delivered \in [Peers -> Seq(Nat \ {0})] /\ delivered' = [delivered EXCEPT ![c.from] = Append(@, c.id)]
    BY <1>1 DEF SyncTypeOK, Delivers
  <2>2. CASE p = c.from
    <3>1. PICK u, v, i, S : u = delivered[p] /\ v = delivered'[p] /\ i = c.id /\ S = Nat \ {0}
      OBVIOUS
    <3>2. u \in Seq(S) /\ v = Append(u, i) /\ i \in S
      BY <1>4, <2>1, <2>2, <3>1
    <3>3. HowMany(v, {n}) = HowMany(u, {n}) + (IF i \in {n} THEN 1 ELSE 0)
      BY ONLY <3>2, Pushed
    <3>4. (IF i \in {n} THEN 1 ELSE 0) = b
      BY <1>7, <2>2, <3>1
    <3>5. d + b \in Nat
      BY ONLY d \in Nat, b \in {0, 1}
    <3> QED BY <1>6, <3>1, <3>3, <3>4, <3>5
  <2>3. CASE p # c.from
    <3>1. delivered'[p] = delivered[p] /\ b = 0
      BY <1>7, <2>1, <2>3
    <3>2. d + b = d
      BY ONLY <3>1, d \in Nat
    <3>3. d = HowMany(delivered'[p], {n})
      BY <1>6, <3>1
    <3> QED BY <3>2, <3>3
  <2> QED BY <2>2, <2>3
<1>11. Places(p, n)' = o + m + q + w + f + e + L
  BY <1>5, <1>6, <1>9, <1>10 DEF Places
<1>12. o + m + q + w + f + e + L = o + m + q + w + g + d + L
  BY ONLY <1>9, <1>10, o \in Nat, m \in Nat, q \in Nat, w \in Nat, g \in Nat, d \in Nat, f \in Nat,
          e \in Nat, b \in {0, 1}, L \in {0, 1}
<1> QED BY <1>6, <1>11, <1>12

\* The invariant is kept by a call that returns a decrypted message.
LEMMA ReturnStep ==
  ASSUME SyncInv, ReturnDecrypted PROVE SyncInv'
<1>1. /\ step \in Syncing /\ queue = <<>> /\ messages # <<>> /\ Delivers(Head(messages))
      /\ messages' = Tail(messages)
      /\ UNCHANGED <<step, queue, known, pending, waiting, sess, stored, unknown, opens, mailbox,
                     sent, key, openings, lost, disturbed, overtakes, failed, gone, stops>>
  BY DEF ReturnDecrypted, storage, server, peers, counters
<1>2. /\ SyncTypeOK /\ PhaseInv /\ MsgInv /\ CountInv /\ WaitInv
      /\ KeyInv /\ OrderInv /\ DeliveryInv /\ LossInv
  BY DEF SyncInv
<1>3. PICK c, s, t : c = Head(messages) /\ s = messages /\ t = messages'
  OBVIOUS
<1>4. s \in Seq(Chats) /\ s # <<>> /\ c = Head(s) /\ t = Tail(s)
  BY <1>1, <1>2, <1>3, FlightType
<1>5. /\ c \in Chats /\ t \in Seq(Chats) /\ Range(s) = {c} \cup Range(t)
      /\ \A X : Ordered(s, X) => Ordered(t, X) /\ Precede({c}, Range(t), X)
  BY ONLY <1>4, HeadCut
<1>6. c.from \in Peers /\ c.id \in Nat \ {0} /\ c = [from |-> c.from, id |-> c.id]
  BY <1>5 DEF Chats
<1>7. delivered' = [delivered EXCEPT ![c.from] = Append(@, c.id)]
  BY <1>1, <1>3 DEF Delivers
<1>8. Stored' = Stored /\ Waiting' = Waiting /\ InFlight' = InFlight
  BY <1>1 DEF Stored, Waiting, InFlight
<1>9. Range(messages) = {c} \cup Range(messages')
  BY <1>3, <1>5
<1>10. SyncTypeOK'
  <2>1. delivered' \in [Peers -> Seq(Nat \ {0})]
    BY <1>2, <1>6, <1>7 DEF SyncTypeOK
  <2>2. messages' \in Seq(Chats)
    BY <1>3, <1>5
  <2> QED BY <1>1, <1>2, <2>1, <2>2 DEF SyncTypeOK
<1>11. PhaseInv'
  <2>1. step \notin {"off", "prekeys", "live", "resolve"}
    BY <1>1, <1>2 DEF PhaseInv
  <2> QED BY <1>1, <1>2, <2>1 DEF PhaseInv, Fetched
<1>12. MsgInv'
  BY <1>1, <1>2, <1>8, MsgKeeps
<1>13. CountInv'
  BY <1>1, <1>2, ReturnCounts
<1>14. WaitInv'
  BY <1>1, <1>2 DEF WaitInv
<1>15. KeyInv'
  BY <1>1, <1>2, <1>8, KeyKeeps
<1>16. OrderInv'
  <2>1. Placed' = Placed
    BY <1>1 DEF Placed
  <2>2. Ordered(queue, Placed) /\ Ordered(opens, Placed) /\ Ordered(mailbox, Placed) /\ Ordered(messages, Placed)
    BY <1>2 DEF OrderInv
  <2>3. Ordered(messages', Placed)
    BY <1>3, <1>5, <2>2
  <2> QED BY <1>1, <1>2, <1>8, <1>9, <2>1, <2>2, <2>3, OrderFewer
<1>17. DeliveryInv'
  <2>1. ASSUME c.from \notin disturbed
        PROVE  /\ \A d \in Range(delivered[c.from]) : d < c.id
               /\ \A y \in Stored' \cup Range(messages') : y.from = c.from => c.id < y.id
    <3>1. c \in Range(messages)
      BY <1>9
    <3>2. \A d \in Range(delivered[c.from]) : d < c.id
      BY <1>2, <1>6, <2>1, <3>1 DEF DeliveryInv
    <3>3. c \in Placed
      BY <1>5, <2>1, PlacedIs DEF Placed
    <3>4. ASSUME NEW y \in Stored', y.from = c.from PROVE c.id < y.id
      <4>1. y \in Message
        BY <1>2, <1>8, FlightType
      <4>2. y \in Placed
        BY <2>1, <3>4, <4>1, PlacedIs DEF Placed
      <4>3. Precede(Range(messages) \cup Waiting, Stored, Placed)
        BY <1>2 DEF OrderInv
      <4> QED BY <1>8, <3>1, <3>3, <3>4, <4>2, <4>3 DEF Precede
    <3>5. ASSUME NEW y \in Range(messages'), y.from = c.from PROVE c.id < y.id
      <4>1. y \in Chats
        BY <1>2, <1>9, FlightType
      <4>2. y \in Placed
        BY <2>1, <3>5, <4>1, PlacedIs DEF Placed
      <4>3. Precede({c}, Range(messages'), Placed)
        <5>1. Ordered(messages, Placed)
          BY <1>2 DEF OrderInv
        <5> QED BY <1>3, <1>5, <5>1
      <4> QED BY <3>3, <3>5, <4>2, <4>3 DEF Precede
    <3> QED BY <3>2, <3>4, <3>5
  <2> QED BY <1>1, <1>2, <1>6, <1>7, <1>8, <1>9, <2>1, DeliveryGrows
<1>18. LossInv'
  BY <1>1, <1>2, <1>8, LossSame
<1> QED BY <1>10, <1>11, <1>12, <1>13, <1>14, <1>15, <1>16, <1>17, <1>18 DEF SyncInv
-----------------------------------------------------------------------------
(* A batch of initial messages is fetched.                                            *)

\* A batch of initial messages moves from the store to the queue.
LEMMA InitialCounts ==
  ASSUME SyncTypeOK, CountInv, queue = <<>>, queue' = Batch(opens), opens' = Rest(opens),
         UNCHANGED <<messages, mailbox, waiting, sent, lost, delivered>>
  PROVE  CountInv'
<1>1. PICK s : s = opens
  OBVIOUS
<1>2. s \in Seq(Message)
  BY <1>1, FlightType
<1>3. Batch(s) \in Seq(Message) /\ Rest(s) \in Seq(Message)
      /\ \A X : HowMany(s, X) = HowMany(Batch(s), X) + HowMany(Rest(s), X)
  BY ONLY <1>2, BatchCut
<1> SUFFICES ASSUME NEW p \in Peers, NEW n \in Nat \ {0} PROVE Places(p, n)' = Places(p, n)
  BY CountKeeps
<1>4. PICK o, m, q, w, g, d \in Nat, L \in {0, 1} :
        /\ o = HowMany(opens, Copies(p, n)) /\ m = HowMany(mailbox, Copies(p, n))
        /\ q = HowMany(queue, Copies(p, n)) /\ w = HowMany(waiting[p], Copies(p, n))
        /\ g = HowMany(messages, {[from |-> p, id |-> n]}) /\ d = HowMany(delivered[p], {n})
        /\ L = (IF [from |-> p, id |-> n] \in lost THEN 1 ELSE 0)
        /\ Places(p, n) = o + m + q + w + g + d + L
  BY ONLY SyncTypeOK, p \in Peers, n \in Nat \ {0}, Numbers
<1>5. PICK b, r \in Nat : b = HowMany(queue', Copies(p, n)) /\ r = HowMany(opens', Copies(p, n))
                          /\ o = b + r
  <2>1. HowMany(Batch(s), Copies(p, n)) \in Nat /\ HowMany(Rest(s), Copies(p, n)) \in Nat
    BY <1>3, AtFinite
  <2> QED BY <1>1, <1>3, <1>4, <2>1
<1>6. q = 0
  BY <1>4, CountEmpty
<1>7. Places(p, n)' = r + m + b + w + g + d + L
  BY <1>4, <1>5 DEF Places
<1>8. r + m + b + w + g + d + L = o + m + q + w + g + d + L
  BY ONLY <1>5, <1>6, o \in Nat, m \in Nat, q \in Nat, w \in Nat, g \in Nat, d \in Nat, b \in Nat,
          r \in Nat, L \in {0, 1}
<1> QED BY <1>4, <1>7, <1>8

\* The invariant is kept by a request for initial messages.
LEMMA InitialStep ==
  ASSUME SyncInv, SyncInitialMessages PROVE SyncInv'
<1>1. /\ step = "initial" /\ queue = <<>> /\ messages = <<>>
      /\ queue' = Batch(opens) /\ opens' = Rest(opens)
      /\ step' = IF opens = <<>> THEN "messages" ELSE step
      /\ UNCHANGED <<messages, known, pending, waiting, sess, stored, unknown, mailbox,
                     sent, key, openings, delivered, lost, disturbed, overtakes, failed, gone, stops>>
  BY DEF SyncInitialMessages, Idle, storage, peers, history, counters
<1>2. /\ SyncTypeOK /\ PhaseInv /\ MsgInv /\ CountInv /\ WaitInv
      /\ KeyInv /\ OrderInv /\ DeliveryInv /\ LossInv
  BY DEF SyncInv
<1>3. PICK s, a, b : s = opens /\ a = queue' /\ b = opens'
  OBVIOUS
<1>4. s \in Seq(Message) /\ a = Batch(s) /\ b = Rest(s)
  BY <1>1, <1>2, <1>3, FlightType
<1>5. /\ a \in Seq(Message) /\ b \in Seq(Message) /\ Range(s) = Range(a) \cup Range(b)
      /\ \A X : Ordered(s, X) => Ordered(a, X) /\ Ordered(b, X) /\ Precede(Range(a), Range(b), X)
  BY ONLY <1>4, BatchCut
<1>6. Range(queue) = {} /\ Range(opens) = Range(queue') \cup Range(opens')
  BY <1>1, <1>3, <1>5, RangeOne
<1>7. Stored' = Stored /\ Waiting' = Waiting /\ InFlight' = InFlight
  BY <1>1, <1>6 DEF Stored, Waiting, InFlight
<1>8. SyncTypeOK'
  <2>1. queue' \in Seq(Message) /\ opens' \in Seq(Message)
    BY <1>3, <1>5
  <2>2. step' \in Syncing
    BY <1>1 DEF Syncing
  <2> QED BY <1>1, <1>2, <2>1, <2>2 DEF SyncTypeOK
<1>9. PhaseInv'
  <2>1. \A m \in Range(opens) : m.key = 0
    BY <1>1, <1>2 DEF PhaseInv
  <2>2. opens = <<>> => Range(queue') = {} /\ Range(opens') = {}
    BY <1>6, RangeOne
  <2>3. CASE opens = <<>>
    <3>1. step' = "messages"
      BY <1>1, <2>3
    <3> QED BY <1>1, <1>2, <2>2, <2>3, <3>1 DEF PhaseInv, Fetched
  <2>4. CASE opens # <<>>
    <3>1. step' = "initial"
      BY <1>1, <2>4
    <3> QED BY <1>1, <1>2, <1>6, <2>1, <3>1 DEF PhaseInv, Fetched
  <2> QED BY <2>3, <2>4
<1>10. MsgInv'
  BY <1>1, <1>2, <1>7, MsgKeeps
<1>11. CountInv'
  BY <1>1, <1>2, InitialCounts
<1>12. WaitInv'
  BY <1>1, <1>2 DEF WaitInv, Syncing
<1>13. KeyInv'
  BY <1>1, <1>2, <1>7, KeyKeeps
<1>14. OrderInv'
  <2>1. Placed' = Placed
    BY <1>1 DEF Placed
  <2>2. /\ Ordered(opens, Placed) /\ Ordered(mailbox, Placed) /\ Ordered(messages, Placed)
        /\ Precede(Range(opens), Range(mailbox), Placed)
        /\ Precede(Range(messages) \cup Waiting, Stored, Placed)
    BY <1>2 DEF OrderInv
  <2>3. /\ Ordered(queue', Placed) /\ Ordered(opens', Placed)
        /\ Precede(Range(queue'), Range(opens'), Placed)
    BY <1>3, <1>5, <2>2
  <2>4. Precede(Range(queue'), Range(opens') \cup Range(mailbox'), Placed)
    BY <1>1, <1>6, <2>2, <2>3 DEF Precede
  <2>5. Precede(Range(opens'), Range(mailbox'), Placed)
    BY <1>1, <1>6, <2>2 DEF Precede
  <2>6. Precede(Range(messages') \cup Waiting', Stored', Placed)
    BY <1>1, <1>7, <2>2
  <2> QED BY <1>1, <2>1, <2>2, <2>3, <2>4, <2>5, <2>6 DEF OrderInv
<1>15. DeliveryInv'
  <2>1. Stored' \cup Range(messages') = Stored \cup Range(messages)
    BY <1>1, <1>7
  <2> QED BY <1>1, <1>2, <1>7, <2>1, DeliveryFewer
<1>16. LossInv'
  BY <1>1, <1>2, <1>6, <1>7, LossSame
<1> QED BY <1>8, <1>9, <1>10, <1>11, <1>12, <1>13, <1>14, <1>15, <1>16 DEF SyncInv

-----------------------------------------------------------------------------
(* A batch of conversation messages is fetched.                                            *)

\* So does a batch of conversation messages.
LEMMA ConversationCounts ==
  ASSUME SyncTypeOK, CountInv, queue = <<>>, queue' = Batch(mailbox), mailbox' = Rest(mailbox),
         UNCHANGED <<messages, opens, waiting, sent, lost, delivered>>
  PROVE  CountInv'
<1>1. PICK s : s = mailbox
  OBVIOUS
<1>2. s \in Seq(Message)
  BY <1>1, FlightType
<1>3. Batch(s) \in Seq(Message) /\ Rest(s) \in Seq(Message)
      /\ \A X : HowMany(s, X) = HowMany(Batch(s), X) + HowMany(Rest(s), X)
  BY ONLY <1>2, BatchCut
<1> SUFFICES ASSUME NEW p \in Peers, NEW n \in Nat \ {0} PROVE Places(p, n)' = Places(p, n)
  BY CountKeeps
<1>4. PICK o, m, q, w, g, d \in Nat, L \in {0, 1} :
        /\ o = HowMany(opens, Copies(p, n)) /\ m = HowMany(mailbox, Copies(p, n))
        /\ q = HowMany(queue, Copies(p, n)) /\ w = HowMany(waiting[p], Copies(p, n))
        /\ g = HowMany(messages, {[from |-> p, id |-> n]}) /\ d = HowMany(delivered[p], {n})
        /\ L = (IF [from |-> p, id |-> n] \in lost THEN 1 ELSE 0)
        /\ Places(p, n) = o + m + q + w + g + d + L
  BY ONLY SyncTypeOK, p \in Peers, n \in Nat \ {0}, Numbers
<1>5. PICK b, r \in Nat : b = HowMany(queue', Copies(p, n)) /\ r = HowMany(mailbox', Copies(p, n))
                          /\ m = b + r
  <2>1. HowMany(Batch(s), Copies(p, n)) \in Nat /\ HowMany(Rest(s), Copies(p, n)) \in Nat
    BY <1>3, AtFinite
  <2> QED BY <1>1, <1>3, <1>4, <2>1
<1>6. q = 0
  BY <1>4, CountEmpty
<1>7. Places(p, n)' = o + r + b + w + g + d + L
  BY <1>4, <1>5 DEF Places
<1>8. o + r + b + w + g + d + L = o + m + q + w + g + d + L
  BY ONLY <1>5, <1>6, o \in Nat, m \in Nat, q \in Nat, w \in Nat, g \in Nat, d \in Nat, b \in Nat,
          r \in Nat, L \in {0, 1}
<1> QED BY <1>4, <1>7, <1>8

\* The invariant is kept by a request for conversation messages.
LEMMA ConversationStep ==
  ASSUME SyncInv, SyncConversationMessages PROVE SyncInv'
<1>1. /\ step = "messages" /\ queue = <<>> /\ messages = <<>>
      /\ queue' = Batch(mailbox) /\ mailbox' = Rest(mailbox)
      /\ step' = IF mailbox = <<>> THEN "final" ELSE step
      /\ UNCHANGED <<messages, known, pending, waiting, sess, stored, unknown, opens,
                     sent, key, openings, delivered, lost, disturbed, overtakes, failed, gone, stops>>
  BY DEF SyncConversationMessages, Idle, storage, peers, history, counters
<1>2. /\ SyncTypeOK /\ PhaseInv /\ MsgInv /\ CountInv /\ WaitInv
      /\ KeyInv /\ OrderInv /\ DeliveryInv /\ LossInv
  BY DEF SyncInv
<1>3. PICK s, a, b : s = mailbox /\ a = queue' /\ b = mailbox'
  OBVIOUS
<1>4. s \in Seq(Message) /\ a = Batch(s) /\ b = Rest(s)
  BY <1>1, <1>2, <1>3, FlightType
<1>5. /\ a \in Seq(Message) /\ b \in Seq(Message) /\ Range(s) = Range(a) \cup Range(b)
      /\ \A X : Ordered(s, X) => Ordered(a, X) /\ Ordered(b, X) /\ Precede(Range(a), Range(b), X)
  BY ONLY <1>4, BatchCut
<1>6. Range(queue) = {} /\ Range(mailbox) = Range(queue') \cup Range(mailbox')
  BY <1>1, <1>3, <1>5, RangeOne
<1>7. Stored' = Stored /\ Waiting' = Waiting /\ InFlight' = InFlight
  BY <1>1, <1>6 DEF Stored, Waiting, InFlight
<1>8. SyncTypeOK'
  <2>1. queue' \in Seq(Message) /\ mailbox' \in Seq(Message)
    BY <1>3, <1>5
  <2>2. step' \in Syncing
    BY <1>1 DEF Syncing
  <2> QED BY <1>1, <1>2, <2>1, <2>2 DEF SyncTypeOK
<1>9. PhaseInv'
  <2>1. (\A m \in Range(mailbox) : m.key # 0) /\ (\A m \in Range(opens) : m.from \in disturbed)
        /\ (\A m \in Range(opens) : m.key = 0)
    BY <1>1, <1>2 DEF PhaseInv, Fetched
  <2>2. step' \in {"messages", "final"}
    BY <1>1
  <2> QED BY <1>1, <1>2, <1>6, <2>1, <2>2 DEF PhaseInv, Fetched
<1>10. MsgInv'
  BY <1>1, <1>2, <1>7, MsgKeeps
<1>11. CountInv'
  BY <1>1, <1>2, ConversationCounts
<1>12. WaitInv'
  BY <1>1, <1>2 DEF WaitInv, Syncing
<1>13. KeyInv'
  BY <1>1, <1>2, <1>7, KeyKeeps
<1>14. OrderInv'
  <2>1. Placed' = Placed
    BY <1>1 DEF Placed
  <2>2. /\ Ordered(mailbox, Placed) /\ Ordered(opens, Placed) /\ Ordered(messages, Placed)
        /\ Precede(Range(opens), Range(mailbox), Placed)
        /\ Precede(Range(messages) \cup Waiting, Stored, Placed)
    BY <1>2 DEF OrderInv
  <2>3. /\ Ordered(queue', Placed) /\ Ordered(mailbox', Placed)
        /\ Precede(Range(queue'), Range(mailbox'), Placed)
    BY <1>3, <1>5, <2>2
  <2>4. Precede(Range(queue'), Range(opens') \cup Range(mailbox'), Placed)
    <3>1. ASSUME NEW x \in Range(queue'), NEW y \in Range(opens'), x \in Placed, y \in Placed,
                 x.from = y.from
          PROVE  FALSE
      <4>1. x \in Message /\ x.key # 0
        <5>1. x \in Range(mailbox)
          BY <1>6
        <5> QED BY <1>1, <1>2, <5>1, FlightType DEF PhaseInv
      <4>2. y.from \in disturbed
        BY <1>1, <1>2 DEF PhaseInv, Fetched
      <4> QED BY <3>1, <4>1, <4>2, PlacedIs DEF Placed
    <3> QED BY <2>3, <3>1 DEF Precede
  <2>5. Precede(Range(opens'), Range(mailbox'), Placed)
    BY <1>1, <1>6, <2>2 DEF Precede
  <2>6. Precede(Range(messages') \cup Waiting', Stored', Placed)
    BY <1>1, <1>7, <2>2
  <2> QED BY <1>1, <2>1, <2>2, <2>3, <2>4, <2>5, <2>6 DEF OrderInv
<1>15. DeliveryInv'
  <2>1. Stored' \cup Range(messages') = Stored \cup Range(messages)
    BY <1>1, <1>7
  <2> QED BY <1>1, <1>2, <1>7, <2>1, DeliveryFewer
<1>16. LossInv'
  BY <1>1, <1>2, <1>6, <1>7, LossSame
<1> QED BY <1>8, <1>9, <1>10, <1>11, <1>12, <1>13, <1>14, <1>15, <1>16 DEF SyncInv

-----------------------------------------------------------------------------
(* Where a message of the batch goes.                                      *)

\* It is lost, decrypted, or it waits.
Lands(h) ==
  \/ lost' = lost \cup {ChatMessage(h)} /\ UNCHANGED <<waiting, messages>>
  \/ messages' = Append(messages, ChatMessage(h)) /\ UNCHANGED <<waiting, lost>>
  \/ h.key # 0 /\ waiting' = [waiting EXCEPT ![h.from] = Append(@, h)] /\ UNCHANGED <<messages, lost>>

\* What is known of a message in flight.
LEMMA InFlightIs ==
  ASSUME SyncTypeOK, MsgInv, NEW m \in InFlight
  PROVE  /\ m \in Message /\ m.from \in Peers /\ m.kind \in Kinds
         /\ m.key \in Nat /\ m.next \in Nat /\ m.id \in Nat \ {0}
         /\ m.id <= sent[m.from] /\ m.next <= key[m.from] /\ m.key <= key[m.from] /\ m.key < m.id
         /\ m.kind \in Openings <=> m.key = 0
         /\ m.next = IF m.kind = "msg" THEN 0 ELSE m.id
         /\ key[m.from] \in Nat /\ sent[m.from] \in Nat /\ sess[m.from] \in Nat
         /\ ChatMessage(m) \in Chats
<1>1. m \in Message
  BY FlightType
<1>2. m.from \in Peers /\ m.kind \in Kinds /\ m.key \in Nat /\ m.next \in Nat /\ m.id \in Nat
  BY <1>1, MessageIs
<1>3. key[m.from] \in Nat /\ sent[m.from] \in Nat /\ sess[m.from] \in Nat
  BY <1>2 DEF SyncTypeOK
<1>4. Wellformed(m)
  BY DEF MsgInv
<1>5. /\ m.id \in 1 .. sent[m.from] /\ m.next <= key[m.from] /\ m.key <= key[m.from] /\ m.key < m.id
      /\ m.kind \in Openings <=> m.key = 0
      /\ m.next = IF m.kind = "msg" THEN 0 ELSE m.id
  BY <1>4 DEF Wellformed
<1>6. m.id \in Nat \ {0} /\ m.id <= sent[m.from]
  BY <1>3, <1>5
<1>7. ChatMessage(m) \in Chats
  BY <1>2, <1>6 DEF ChatMessage, Chats
<1> QED BY <1>1, <1>2, <1>3, <1>5, <1>6, <1>7

\* The sets of messages when one leaves the batch.
LEMMA PopSets ==
  ASSUME SyncTypeOK, NEW h, Pops(h), Lands(h), UNCHANGED <<opens, mailbox>>
  PROVE  /\ h \in Message /\ h \in Stored /\ Stored = {h} \cup Stored'
         /\ \A p \in Peers : \A m \in Range(waiting'[p]) :
              m \in Range(waiting[p]) \/ (m = h /\ p = h.from /\ h.key # 0)
         /\ \A p \in Peers : Range(waiting[p]) \subseteq Range(waiting'[p])
         /\ Waiting' \subseteq Waiting \cup {h} /\ Waiting \subseteq Waiting'
         /\ InFlight' \subseteq InFlight /\ InFlight \subseteq InFlight' \cup {h}
<1>1. h \in Message /\ h \in Range(queue) /\ Range(queue) = {h} \cup Range(queue')
  BY PopFacts
<1>2. h \in Stored /\ Stored = {h} \cup Stored'
  BY <1>1 DEF Stored
<1>3. ASSUME NEW p \in Peers
      PROVE  /\ \A m \in Range(waiting'[p]) : m \in Range(waiting[p]) \/ (m = h /\ p = h.from /\ h.key # 0)
             /\ Range(waiting[p]) \subseteq Range(waiting'[p])
  <2>1. CASE waiting' = waiting
    BY <2>1
  <2>2. CASE h.key # 0 /\ waiting' = [waiting EXCEPT ![h.from] = Append(@, h)]
    <3>1. waiting \in [Peers -> Seq(Message)]
      BY DEF SyncTypeOK
    <3>2. CASE p = h.from
      <4>1. PICK s, t : s = waiting[p] /\ t = waiting'[p]
        OBVIOUS
      <4>2. s \in Seq(Message) /\ t = Append(s, h)
        BY <2>2, <3>1, <3>2, <4>1
      <4>3. Range(t) = Range(s) \cup {h}
        BY ONLY <1>1, <4>2, EndCut
      <4> QED BY <2>2, <3>2, <4>1, <4>3
    <3>3. CASE p # h.from
      BY <2>2, <3>1, <3>3
    <3> QED BY <3>2, <3>3
  <2> QED BY <2>1, <2>2 DEF Lands
<1>4. Waiting' \subseteq Waiting \cup {h} /\ Waiting \subseteq Waiting'
  BY <1>3 DEF Waiting
<1>5. InFlight' \subseteq InFlight /\ InFlight \subseteq InFlight' \cup {h}
  BY <1>2, <1>4 DEF InFlight
<1> QED BY <1>1, <1>2, <1>3, <1>4, <1>5

\* A message that leaves the batch, for wherever it lands, comes before what stays.
LEMMA PopOrder ==
  ASSUME SyncTypeOK, OrderInv, MsgInv, NEW h, Pops(h), Lands(h), UNCHANGED <<opens, mailbox, disturbed>>
  PROVE  OrderInv'
<1>1. /\ h \in Message /\ h \in Stored /\ Stored = {h} \cup Stored'
      /\ Waiting' \subseteq Waiting \cup {h} /\ Waiting \subseteq Waiting'
  BY PopSets
<1>2. h \in InFlight /\ ChatMessage(h) \in Chats
  <2>1. h \in InFlight
    BY <1>1 DEF InFlight
  <2> QED BY <2>1, InFlightIs
<1>3. Placed' = Placed
  BY DEF Placed
<1>4. /\ Ordered(queue, Placed) /\ Ordered(opens, Placed) /\ Ordered(mailbox, Placed)
      /\ Ordered(messages, Placed)
      /\ Precede(Range(queue), Range(opens) \cup Range(mailbox), Placed)
      /\ Precede(Range(opens), Range(mailbox), Placed)
      /\ Precede(Range(messages) \cup Waiting, Stored, Placed)
  BY DEF OrderInv
<1>5. /\ Ordered(queue', Placed) /\ Precede({h}, Range(queue'), Placed)
      /\ Range(queue) = {h} \cup Range(queue')
  <2>1. Range(queue) = {h} \cup Range(queue')
    BY PopFacts
  <2>2. \A X : Ordered(queue, X) => Ordered(queue', X) /\ Precede({h}, Range(queue'), X)
    BY PopFacts
  <2> QED BY <1>4, <2>1, <2>2
<1>6. Precede(Range(queue'), Range(opens) \cup Range(mailbox), Placed)
  BY <1>4, <1>5 DEF Precede
<1>7. Precede({h}, Stored', Placed)
  BY <1>4, <1>5 DEF Precede, Stored
<1>8. /\ ChatMessage(h).from = h.from /\ ChatMessage(h).id = h.id
      /\ ChatMessage(h) \in Placed => h \in Placed
  <2>1. ChatMessage(h).from = h.from /\ ChatMessage(h).id = h.id
    BY DEF ChatMessage
  <2>2. ChatMessage(h) \in Placed <=> h.from \notin disturbed
    BY <1>2, <2>1, PlacedIs DEF Placed
  <2>3. h \in Placed <=> (h.key = 0 \/ h.from \notin disturbed)
    BY <1>1, PlacedIs DEF Placed
  <2> QED BY <2>1, <2>2, <2>3
<1>9. Range(messages') \subseteq Range(messages) \cup {ChatMessage(h)} /\ Ordered(messages', Placed)
  <2>1. CASE messages' = messages
    BY <1>4, <2>1
  <2>2. CASE messages' = Append(messages, ChatMessage(h))
    <3>1. PICK s, t, c : s = messages /\ t = messages' /\ c = ChatMessage(h)
      OBVIOUS
    <3>2. s \in Seq(Chats) /\ t = Append(s, c) /\ c \in Chats
      BY <1>2, <2>2, <3>1, FlightType
    <3>3. /\ Range(t) = Range(s) \cup {c}
          /\ \A X : (Ordered(s, X) /\ Precede(Range(s), {c}, X)) => Ordered(t, X)
      BY ONLY <3>2, EndCut
    <3>4. Precede(Range(s), {c}, Placed)
      BY <1>1, <1>4, <1>8, <3>1 DEF Precede
    <3> QED BY <1>4, <3>1, <3>3, <3>4
  <2> QED BY <2>1, <2>2 DEF Lands
<1>10. Precede(Range(messages') \cup Waiting', Stored', Placed)
  <2>1. ASSUME NEW x \in Range(messages') \cup Waiting', NEW y \in Stored', x \in Placed, y \in Placed,
               x.from = y.from
        PROVE  x.id < y.id
    <3>1. y \in Stored
      BY <1>1
    <3>2. CASE x \in Range(messages) \cup Waiting
      BY <1>4, <2>1, <3>1, <3>2 DEF Precede
    <3>3. CASE x = h
      BY <1>7, <2>1, <3>3 DEF Precede
    <3>4. CASE x = ChatMessage(h)
      BY <1>7, <1>8, <2>1, <3>4 DEF Precede
    <3> QED BY <1>1, <1>9, <3>2, <3>3, <3>4
  <2> QED BY <2>1 DEF Precede
<1> QED BY <1>3, <1>4, <1>5, <1>6, <1>9, <1>10 DEF OrderInv

\* What holds of the messages, wherever the message goes.
LEMMA PopMoves ==
  ASSUME SyncInv, NEW h, Pops(h), Lands(h),
         UNCHANGED <<opens, mailbox, delivered, sent, key, openings, disturbed>>
  PROVE  MsgInv' /\ CountInv' /\ OrderInv' /\ DeliveryInv'
<1>1. /\ SyncTypeOK /\ MsgInv /\ CountInv /\ OrderInv /\ DeliveryInv
  BY DEF SyncInv
<1>2. /\ h \in Message /\ h \in Stored /\ Stored = {h} \cup Stored'
      /\ \A p \in Peers : \A m \in Range(waiting'[p]) :
            m \in Range(waiting[p]) \/ (m = h /\ p = h.from /\ h.key # 0)
      /\ InFlight' \subseteq InFlight
  BY <1>1, PopSets
<1>3. h.id # 0 /\ ChatMessage(h) \in Chats
  <2>1. h \in InFlight
    BY <1>2 DEF InFlight
  <2> QED BY <1>1, <2>1, InFlightIs
<1>4. MsgInv'
  BY <1>1, <1>2, MsgKeeps
<1>5. CountInv'
  <2>1. \/ lost' = lost \cup {ChatMessage(h)} /\ UNCHANGED <<waiting, messages>>
        \/ messages' = Append(messages, ChatMessage(h)) /\ UNCHANGED <<waiting, lost>>
        \/ waiting' = [waiting EXCEPT ![h.from] = Append(@, h)] /\ UNCHANGED <<messages, lost>>
    BY DEF Lands
  <2> QED BY <1>1, <1>3, <2>1, PopCounts
<1>6. OrderInv'
  BY <1>1, PopOrder
<1>7. Range(messages') \subseteq Range(messages) \cup {ChatMessage(h)}
  <2>1. CASE messages' = messages
    BY <2>1
  <2>2. CASE messages' = Append(messages, ChatMessage(h))
    <3>1. messages \in Seq(Chats)
      BY <1>1, FlightType
    <3> QED BY <1>3, <2>2, <3>1, EndCut
  <2> QED BY <2>1, <2>2 DEF Lands
<1>8. DeliveryInv'
  <2>1. ASSUME NEW y \in Stored' \cup Range(messages')
        PROVE  \E x \in Stored \cup Range(messages) : x.from = y.from /\ x.id = y.id
    <3>1. CASE y = ChatMessage(h)
      <4>1. y.from = h.from /\ y.id = h.id
        BY <3>1 DEF ChatMessage
      <4> QED BY <1>2, <4>1
    <3>2. CASE y \in Stored \cup Range(messages)
      BY <3>2
    <3> QED BY <1>2, <1>7, <3>1, <3>2
  <2> QED BY <1>1, <1>2, <2>1, DeliveryFewer
<1> QED BY <1>4, <1>5, <1>6, <1>8
-----------------------------------------------------------------------------
(* Facts about the message at the head of the batch.                       *)

\* In which steps the batch holds which kind of message.
LEMMA PopStep ==
  ASSUME SyncInv, NEW h, Pops(h), step \in Syncing
  PROVE  /\ step \in {"initial"} \cup Fetched /\ step \notin {"off", "prekeys", "live", "resolve"}
         /\ step \in Fetched <=> h.key # 0
         /\ h.kind \in Openings <=> h.key = 0
         /\ h.key = 0 => \A p \in Peers : known[p] = {}
<1>1. /\ SyncTypeOK /\ PhaseInv /\ MsgInv
  BY DEF SyncInv
<1>2. h \in Range(queue)
  BY <1>1, PopFacts
<1>3. h \in InFlight
  BY <1>2 DEF InFlight, Stored
<1>4. h.kind \in Openings <=> h.key = 0
  BY <1>1, <1>3, InFlightIs
<1>5. step \notin {"off", "prekeys", "live", "resolve"}
  BY <1>1 DEF PhaseInv, Pops, IsFirst
<1>6. step \in {"initial"} \cup Fetched
  BY <1>5 DEF Syncing, Fetched
<1>7. (step = "initial" => h.key = 0) /\ (step \in Fetched => h.key # 0)
  BY <1>1, <1>2 DEF PhaseInv
<1>8. step \notin Fetched => \A p \in Peers : known[p] = {}
  BY <1>1 DEF PhaseInv
<1>9. "initial" \notin Fetched
  BY DEF Fetched
<1> QED BY <1>4, <1>5, <1>6, <1>7, <1>8, <1>9

\* A message that leaves the batch is where its step lets it be.
LEMMA PopPhase ==
  ASSUME SyncInv, NEW h, Pops(h), step \in Syncing, Lands(h), UNCHANGED <<step, opens, mailbox, disturbed>>,
         known' = known \/ h.key # 0
  PROVE  PhaseInv'
<1>1. SyncTypeOK /\ PhaseInv
  BY DEF SyncInv
<1>2. /\ step \notin {"off", "prekeys", "live", "resolve"}
      /\ step \in Fetched <=> h.key # 0
      /\ step \in {"initial"} \cup Fetched
  BY PopStep
<1>3. Range(queue') \subseteq Range(queue)
  BY <1>1, PopFacts
<1>4. (\A p \in Peers : waiting'[p] = waiting[p]) \/ h.key # 0
  BY DEF Lands
<1> QED BY <1>1, <1>2, <1>3, <1>4 DEF PhaseInv, Fetched

\* The messages of a peer that is not disturbed, the first one first: a key that the
\* message at the head needs is known.
LEMMA HeadKnown ==
  ASSUME SyncInv, stops = 0, NEW h \in Stored, h.from \notin Unsure, h.key # 0,
         \A y \in Stored : (y \in Placed /\ y.from = h.from) => y.id >= h.id
  PROVE  h.key \in KeysOf(h.from)
<1>1. SyncTypeOK /\ MsgInv /\ LossInv
  BY DEF SyncInv
<1>2. h \in InFlight
  BY DEF InFlight
<1>3. h.from \in Peers /\ h.key < h.id /\ h.key \in Nat /\ h.id \in Nat
  BY <1>1, <1>2, InFlightIs
<1>4. waiting[h.from] = <<>> /\ Introduced(h.from, h.key)
  BY <1>1, <1>2, <1>3 DEF LossInv
<1>5. ASSUME NEW b \in InFlight, b.from = h.from, b.next = h.key PROVE FALSE
  <2>1. b.id = h.key /\ b \in Message
    BY <1>1, <1>5, InFlightIs
  <2>2. b \in Stored
    <3>1. ASSUME b \in Waiting PROVE FALSE
      <4>1. PICK q \in Peers : b \in Range(waiting[q])
        BY <3>1 DEF Waiting
      <4>2. q = h.from
        BY <1>1, <1>5, <4>1 DEF MsgInv
      <4> QED BY <1>4, <4>1, <4>2, RangeOne
    <3> QED BY <3>1 DEF InFlight
  <2>3. b \in Placed
    BY <1>5, <2>1, PlacedIs DEF Placed, Unsure
  <2>4. b.id >= h.id
    BY <1>5, <2>2, <2>3
  <2> QED BY <1>3, <2>1, <2>4
<1> QED BY <1>4, <1>5 DEF Introduced

\* Until a stop, the iterator has the key of the next message of an undisturbed peer.
LEMMA HeadOfBatch ==
  ASSUME SyncInv, stops = 0, NEW h, Pops(h), h.from \notin Unsure, h.key # 0
  PROVE  h.key \in KeysOf(h.from)
<1>1. SyncTypeOK /\ OrderInv /\ MsgInv
  BY DEF SyncInv
<1>2. h \in Message /\ h \in Range(queue) /\ Range(queue) = {h} \cup Range(queue')
  BY <1>1, PopFacts
<1>3. Precede({h}, Range(queue'), Placed)
  <2>1. \A X : Ordered(queue, X) => Precede({h}, Range(queue'), X)
    BY <1>1, PopFacts
  <2> QED BY <1>1, <2>1 DEF OrderInv
<1>4. h \in Placed
  BY <1>2, PlacedIs DEF Placed, Unsure
<1>5. ASSUME NEW y \in Stored, y \in Placed, y.from = h.from PROVE y.id >= h.id
  <2>1. y.id \in Nat /\ h.id \in Nat
    BY <1>1, <1>2, FlightType, MessageIs
  <2>2. CASE y = h
    BY <2>1, <2>2
  <2>3. CASE y \in Range(queue')
    BY <1>3, <1>4, <1>5, <2>1, <2>3 DEF Precede
  <2>4. CASE y \in Range(opens) \cup Range(mailbox)
    <3>1. Precede(Range(queue), Range(opens) \cup Range(mailbox), Placed)
      BY <1>1 DEF OrderInv
    <3> QED BY <1>2, <1>4, <1>5, <2>1, <2>4, <3>1 DEF Precede
  <2> QED BY <1>2, <2>2, <2>3, <2>4 DEF Stored
<1>6. h \in Stored
  BY <1>2 DEF Stored
<1> QED BY <1>5, <1>6, HeadKnown

\* What LossInv asks of the step that takes the message h.
NothingLost(h) ==
  \A p \in Peers \ Unsure :
    /\ waiting'[p] = <<>> /\ \A c \in lost' : c.from # p
    /\ \A k \in KeysOf(p) : k \in KeysOf(p)'
    /\ h.from = p /\ h.next # 0 => h.next \in KeysOf(p)'
    /\ \A m \in Range(mailbox') : (m.from = p /\ m.key \in KeysOf(p)') => m.key = sess'[p]

\* LossInv stays when the message h is handled and no key of the others is lost.
LEMMA LossMoves ==
  ASSUME LossInv, NEW h, UNCHANGED <<key, disturbed, failed, stops>>,
         InFlight \subseteq InFlight' \cup {h},
         \A m \in InFlight' : \E x \in InFlight : x.from = m.from /\ x.key = m.key,
         stops = 0 => NothingLost(h)
  PROVE  LossInv'
<1> SUFFICES ASSUME stops = 0, NEW p \in Peers \ Unsure
             PROVE  /\ waiting'[p] = <<>> /\ \A c \in lost' : c.from # p
                    /\ key'[p] # 0 => Introduced(p, key[p])'
                    /\ \A m \in InFlight' : (m.from = p /\ m.key # 0) => Introduced(p, m.key)'
                    /\ \A m \in Range(mailbox') : (m.from = p /\ m.key \in KeysOf(p)') => m.key = sess'[p]
  BY DEF LossInv, Unsure
<1>1. /\ waiting'[p] = <<>> /\ \A c \in lost' : c.from # p
      /\ \A k \in KeysOf(p) : k \in KeysOf(p)'
      /\ h.from = p /\ h.next # 0 => h.next \in KeysOf(p)'
      /\ \A m \in Range(mailbox') : (m.from = p /\ m.key \in KeysOf(p)') => m.key = sess'[p]
  BY DEF NothingLost
<1>2. /\ key[p] # 0 => Introduced(p, key[p])
      /\ \A m \in InFlight : (m.from = p /\ m.key # 0) => Introduced(p, m.key)
  BY DEF LossInv
<1>3. ASSUME NEW k, k # 0, Introduced(p, k) PROVE Introduced(p, k)'
  <2>1. CASE k \in KeysOf(p)
    BY <1>1, <2>1 DEF Introduced
  <2>2. CASE \E b \in InFlight : b.from = p /\ b.next = k
    <3>1. PICK b \in InFlight : b.from = p /\ b.next = k
      BY <2>2
    <3>2. CASE b = h
      BY <1>1, <1>3, <3>1, <3>2 DEF Introduced
    <3>3. CASE b \in InFlight'
      BY <3>1, <3>3 DEF Introduced
    <3> QED BY <3>2, <3>3
  <2> QED BY <1>3, <2>1, <2>2 DEF Introduced
<1>4. key'[p] # 0 => Introduced(p, key[p])'
  <2>1. PICK k : k = key[p]
    OBVIOUS
  <2>2. k # 0 => Introduced(p, k)'
    BY <1>2, <1>3, <2>1
  <2> QED BY <2>1, <2>2 DEF Introduced
<1>5. ASSUME NEW m \in InFlight', m.from = p, m.key # 0 PROVE Introduced(p, m.key)'
  <2>1. PICK x \in InFlight : x.from = m.from /\ x.key = m.key
    OBVIOUS
  <2>2. Introduced(p, m.key)
    BY <1>2, <1>5, <2>1
  <2> QED BY <1>3, <1>5, <2>2
<1> QED BY <1>1, <1>4, <1>5
-----------------------------------------------------------------------------
(* process_messages, except for a rotation whose key is known.             *)

\* A message of a disturbed peer may be lost.
LEMMA LossOfDisturbed ==
  ASSUME LossInv, SyncTypeOK, stops = 0, NEW h, h.from \in Unsure, Lands(h),
         UNCHANGED <<mailbox, disturbed, failed, sess>>, \A p \in Peers \ Unsure : KeysOf(p)' = KeysOf(p)
  PROVE  NothingLost(h)
<1> SUFFICES ASSUME NEW p \in Peers \ Unsure
             PROVE  waiting'[p] = waiting[p] /\ \A c \in lost' : c \in lost \/ c.from # p
  BY DEF LossInv, NothingLost
<1>1. h.from # p
  OBVIOUS
<1>2. ChatMessage(h).from = h.from
  BY DEF ChatMessage
<1>3. waiting \in [Peers -> Seq(Message)]
  BY DEF SyncTypeOK
<1>4. waiting'[p] = waiting[p]
  BY <1>1, <1>3 DEF Lands
<1>5. \A c \in lost' : c \in lost \/ c = ChatMessage(h)
  BY DEF Lands
<1> QED BY <1>1, <1>2, <1>4, <1>5

\* The keys of a peer are the same when the iterator meets it.
LEMMA KeysOfMet ==
  ASSUME SyncTypeOK, sess' = sess, NEW r \in Peers, known' = [known EXCEPT ![r] = KeysOf(r)]
  PROVE  /\ \A p \in Peers : KeysOf(p)' = KeysOf(p)
         /\ \A p \in Peers : known'[p] = IF p = r THEN KeysOf(r) ELSE known[p]
         /\ known' \in [Peers -> SUBSET (Nat \ {0})]
<1>1. known \in [Peers -> SUBSET (Nat \ {0})]
  BY DEF SyncTypeOK
<1>2. KeysOf(r) \subseteq Nat \ {0}
  BY KeysOfIs
<1>3. \A p \in Peers : known'[p] = IF p = r THEN KeysOf(r) ELSE known[p]
  BY <1>1
<1>4. ASSUME NEW p \in Peers PROVE KeysOf(p)' = KeysOf(p)
  <2>1. CASE p # r
    BY <1>3, <2>1 DEF KeysOf
  <2>2. CASE p = r
    <3>1. known'[r] = KeysOf(r)
      BY <1>3
    <3>2. KeysOf(r)' = IF KeysOf(r) = {} /\ sess[r] # 0 THEN {sess[r]} ELSE KeysOf(r)
      BY <3>1 DEF KeysOf
    <3>3. KeysOf(r) = {} => sess[r] = 0
      BY DEF KeysOf
    <3> QED BY <2>2, <3>2, <3>3
  <2> QED BY <2>1, <2>2
<1>5. known' \in [Peers -> SUBSET (Nat \ {0})]
  BY <1>1, <1>2
<1> QED BY <1>3, <1>4, <1>5

\* The invariant is kept by an opening that fails.
LEMMA OpenFailsStep ==
  ASSUME SyncInv, OpenFails PROVE SyncInv'
<1>1. PICK h : h = Head(queue)
  OBVIOUS
<1>2. /\ step \in Syncing /\ queue # <<>> /\ h.kind = "badOpen" /\ queue' = Tail(queue)
      /\ lost' = lost \cup {ChatMessage(h)}
      /\ UNCHANGED <<step, messages, known, pending, waiting, sess, stored, unknown, opens, mailbox,
                     sent, key, openings, delivered, disturbed, overtakes, failed, gone, stops>>
  BY <1>1 DEF OpenFails, Processes, storage, server, peers, counters
<1>3. /\ SyncTypeOK /\ MsgInv /\ WaitInv /\ KeyInv /\ DeliveryInv /\ LossInv
  BY DEF SyncInv
<1>4. Pops(h) /\ Lands(h)
  BY <1>1, <1>2 DEF Pops, IsFirst, Lands
<1>5. /\ h \in Message /\ h \in Stored /\ Stored = {h} \cup Stored'
      /\ InFlight' \subseteq InFlight /\ InFlight \subseteq InFlight' \cup {h}
  BY <1>2, <1>3, <1>4, PopSets
<1>6. h \in InFlight /\ ChatMessage(h) \in Chats /\ h.from \in Peers /\ h.key = 0
  <2>1. h \in InFlight
    BY <1>5 DEF InFlight
  <2> QED BY <1>2, <1>3, <2>1, InFlightIs DEF Openings
<1>7. SyncTypeOK'
  <2>1. queue' \in Seq(Message)
    BY <1>3, <1>4, PopFacts
  <2> QED BY <1>2, <1>3, <1>6, <2>1 DEF SyncTypeOK
<1>8. PhaseInv'
  BY <1>2, <1>4, PopPhase
<1>9. MsgInv' /\ CountInv' /\ OrderInv' /\ DeliveryInv'
  BY <1>2, <1>4, PopMoves
<1>10. WaitInv'
  BY <1>2, <1>3 DEF WaitInv
<1>11. KeyInv'
  BY <1>2, <1>3, <1>5, KeyKeeps
<1>12. LossInv'
  <2>1. h.from \in Unsure
    BY <1>2, <1>3, <1>6 DEF DeliveryInv, Unsure
  <2>2. \A p : KeysOf(p)' = KeysOf(p)
    BY <1>2 DEF KeysOf
  <2>3. stops = 0 => NothingLost(h)
    BY <1>2, <1>3, <1>4, <2>1, <2>2, LossOfDisturbed
  <2> QED BY <1>2, <1>3, <1>5, <2>3, LossMoves
<1> QED BY <1>7, <1>8, <1>9, <1>10, <1>11, <1>12 DEF SyncInv

\* The invariant is kept by a message without a session.
LEMMA NoSessionStep ==
  ASSUME SyncInv, NoSession PROVE SyncInv'
<1>1. PICK h : h = Head(queue)
  OBVIOUS
<1>2. /\ step \in Syncing /\ queue # <<>> /\ h.kind \in {"msg", "rotate"} /\ queue' = Tail(queue)
      /\ known[h.from] = {} /\ sess[h.from] = 0
      /\ lost' = lost \cup ChatsIn({h})
      /\ UNCHANGED <<step, messages, known, pending, waiting, sess, stored, unknown, opens, mailbox,
                     sent, key, openings, delivered, disturbed, overtakes, failed, gone, stops>>
  BY <1>1 DEF NoSession, Processes, storage, server, peers, counters
<1>3. /\ SyncTypeOK /\ MsgInv /\ WaitInv /\ KeyInv /\ DeliveryInv /\ LossInv
  BY DEF SyncInv
<1>4. Pops(h)
  BY <1>1, <1>2 DEF Pops, IsFirst
<1>5. h \in InFlight /\ ChatMessage(h) \in Chats /\ h.from \in Peers /\ h.key # 0 /\ h.id # 0
  <2>1. h \in InFlight
    BY <1>3, <1>4, PopFacts DEF InFlight, Stored
  <2> QED BY <1>2, <1>3, <2>1, InFlightIs DEF Openings
<1>6. lost' = lost \cup {ChatMessage(h)} /\ Lands(h)
  <2>1. lost' = lost \cup {ChatMessage(h)}
    BY <1>2, <1>5 DEF ChatsIn
  <2> QED BY <1>2, <2>1 DEF Lands
<1>7. InFlight' \subseteq InFlight /\ InFlight \subseteq InFlight' \cup {h}
  BY <1>2, <1>3, <1>4, <1>6, PopSets
<1>8. SyncTypeOK'
  <2>1. queue' \in Seq(Message)
    BY <1>3, <1>4, PopFacts
  <2> QED BY <1>2, <1>3, <1>5, <1>6, <2>1 DEF SyncTypeOK
<1>9. PhaseInv'
  BY <1>2, <1>4, <1>6, PopPhase
<1>10. MsgInv' /\ CountInv' /\ OrderInv' /\ DeliveryInv'
  BY <1>2, <1>4, <1>6, PopMoves
<1>11. WaitInv'
  BY <1>2, <1>3 DEF WaitInv
<1>12. KeyInv'
  BY <1>2, <1>3, <1>7, KeyKeeps
<1>13. LossInv'
  <2>1. \A p : KeysOf(p)' = KeysOf(p)
    BY <1>2 DEF KeysOf
  <2>2. stops = 0 => h.from \in Unsure
    <3>1. KeysOf(h.from) = {}
      BY <1>2 DEF KeysOf
    <3> QED BY <1>4, <1>5, <3>1, HeadOfBatch
  <2>3. stops = 0 => NothingLost(h)
    BY <1>2, <1>3, <1>6, <2>1, <2>2, LossOfDisturbed
  <2> QED BY <1>2, <1>3, <1>7, <2>3, LossMoves
<1> QED BY <1>8, <1>9, <1>10, <1>11, <1>12, <1>13 DEF SyncInv

\* The invariant is kept by a message that is decrypted.
LEMMA DecryptStep ==
  ASSUME SyncInv, Decrypt PROVE SyncInv'
<1>1. PICK h : h = Head(queue)
  OBVIOUS
<1>2. /\ step \in Syncing /\ queue # <<>> /\ h.kind = "msg" /\ queue' = Tail(queue)
      /\ h.key \in KeysOf(h.from) /\ known' = [known EXCEPT ![h.from] = KeysOf(h.from)]
      /\ messages' = Append(messages, ChatMessage(h))
      /\ UNCHANGED <<step, pending, waiting, sess, stored, unknown, opens, mailbox,
                     sent, key, openings, delivered, lost, disturbed, overtakes, failed, gone, stops>>
  BY <1>1 DEF Decrypt, Processes, storage, server, peers, history, counters
<1>3. /\ SyncTypeOK /\ MsgInv /\ WaitInv /\ KeyInv /\ DeliveryInv /\ LossInv
  BY DEF SyncInv
<1>4. Pops(h) /\ Lands(h)
  BY <1>1, <1>2 DEF Pops, IsFirst, Lands
<1>5. h \in InFlight /\ ChatMessage(h) \in Chats /\ h.from \in Peers /\ h.key # 0 /\ h.next = 0
  <2>1. h \in InFlight
    BY <1>3, <1>4, PopFacts DEF InFlight, Stored
  <2> QED BY <1>2, <1>3, <2>1, InFlightIs DEF Openings
<1>6. InFlight' \subseteq InFlight /\ InFlight \subseteq InFlight' \cup {h}
  BY <1>2, <1>3, <1>4, PopSets
<1>7. /\ \A p \in Peers : KeysOf(p)' = KeysOf(p)
      /\ \A p \in Peers : known'[p] = IF p = h.from THEN KeysOf(h.from) ELSE known[p]
      /\ known' \in [Peers -> SUBSET (Nat \ {0})]
  BY <1>2, <1>3, <1>5, KeysOfMet
<1>8. SyncTypeOK'
  <2>1. queue' \in Seq(Message)
    BY <1>3, <1>4, PopFacts
  <2>2. messages' \in Seq(Chats)
    BY <1>2, <1>3, <1>5, FlightType
  <2> QED BY <1>2, <1>3, <1>7, <2>1, <2>2 DEF SyncTypeOK
<1>9. PhaseInv'
  BY <1>2, <1>4, <1>5, PopPhase
<1>10. MsgInv' /\ CountInv' /\ OrderInv' /\ DeliveryInv'
  BY <1>2, <1>4, PopMoves
<1>11. WaitInv'
  <2>1. ASSUME NEW p \in Peers, NEW m \in Range(waiting'[p])
        PROVE  m.key \notin known'[p] /\ known'[p] # {}
    <3>1. m.key \notin known[p] /\ known[p] # {}
      BY <1>2, <1>3 DEF WaitInv
    <3>2. KeysOf(p) = known[p]
      BY <3>1 DEF KeysOf
    <3> QED BY <1>7, <3>1, <3>2
  <2> QED BY <2>1 DEF WaitInv
<1>12. KeyInv'
  BY <1>2, <1>3, <1>6, <1>7, KeyKeeps
<1>13. LossInv'
  <2>1. stops = 0 => NothingLost(h)
    BY <1>2, <1>3, <1>5, <1>7 DEF LossInv, NothingLost
  <2> QED BY <1>2, <1>3, <1>6, <2>1, LossMoves
<1> QED BY <1>8, <1>9, <1>10, <1>11, <1>12, <1>13 DEF SyncInv

\* The invariant is kept by a message that waits.
LEMMA WaitStep ==
  ASSUME SyncInv, Wait PROVE SyncInv'
<1>1. PICK h : h = Head(queue)
  OBVIOUS
<1>2. /\ step \in Syncing /\ queue # <<>> /\ h.kind \in {"msg", "rotate"} /\ queue' = Tail(queue)
      /\ KeysOf(h.from) # {} /\ h.key \notin KeysOf(h.from)
      /\ known' = [known EXCEPT ![h.from] = KeysOf(h.from)]
      /\ waiting' = [waiting EXCEPT ![h.from] = Append(@, h)]
      /\ UNCHANGED <<step, messages, pending, sess, stored, unknown, opens, mailbox,
                     sent, key, openings, delivered, lost, disturbed, overtakes, failed, gone, stops>>
  BY <1>1 DEF Wait, Processes, storage, server, peers, history, counters
<1>3. /\ SyncTypeOK /\ MsgInv /\ WaitInv /\ KeyInv /\ DeliveryInv /\ LossInv
  BY DEF SyncInv
<1>4. Pops(h)
  BY <1>1, <1>2 DEF Pops, IsFirst
<1>5. h \in InFlight /\ h \in Message /\ h.from \in Peers /\ h.key # 0
  <2>1. h \in InFlight
    BY <1>3, <1>4, PopFacts DEF InFlight, Stored
  <2> QED BY <1>2, <1>3, <2>1, InFlightIs DEF Openings
<1>6. Lands(h)
  BY <1>2, <1>5 DEF Lands
<1>7. /\ InFlight' \subseteq InFlight /\ InFlight \subseteq InFlight' \cup {h}
      /\ \A p \in Peers : \A m \in Range(waiting'[p]) :
            m \in Range(waiting[p]) \/ (m = h /\ p = h.from /\ h.key # 0)
  BY <1>2, <1>3, <1>4, <1>6, PopSets
<1>8. /\ \A p \in Peers : KeysOf(p)' = KeysOf(p)
      /\ \A p \in Peers : known'[p] = IF p = h.from THEN KeysOf(h.from) ELSE known[p]
      /\ known' \in [Peers -> SUBSET (Nat \ {0})]
  BY <1>2, <1>3, <1>5, KeysOfMet
<1>9. SyncTypeOK'
  <2>1. queue' \in Seq(Message)
    BY <1>3, <1>4, PopFacts
  <2>2. waiting' \in [Peers -> Seq(Message)]
    BY <1>2, <1>3, <1>5 DEF SyncTypeOK
  <2> QED BY <1>2, <1>3, <1>8, <2>1, <2>2 DEF SyncTypeOK
<1>10. PhaseInv'
  BY <1>2, <1>4, <1>5, <1>6, PopPhase
<1>11. MsgInv' /\ CountInv' /\ OrderInv' /\ DeliveryInv'
  BY <1>2, <1>4, <1>6, PopMoves
<1>12. WaitInv'
  <2>1. ASSUME NEW p \in Peers, NEW m \in Range(waiting'[p])
        PROVE  m.key \notin known'[p] /\ known'[p] # {}
    <3>1. CASE m \in Range(waiting[p])
      <4>1. m.key \notin known[p] /\ known[p] # {}
        BY <1>2, <1>3, <3>1 DEF WaitInv
      <4>2. KeysOf(p) = known[p]
        BY <4>1 DEF KeysOf
      <4> QED BY <1>8, <4>1, <4>2
    <3>2. CASE m = h /\ p = h.from
      BY <1>2, <1>8, <3>2
    <3> QED BY <1>7, <3>1, <3>2
  <2> QED BY <2>1 DEF WaitInv
<1>13. KeyInv'
  BY <1>2, <1>3, <1>7, <1>8, KeyKeeps
<1>14. LossInv'
  <2>1. stops = 0 => h.from \in Unsure
    BY <1>2, <1>4, <1>5, HeadOfBatch
  <2>2. stops = 0 => NothingLost(h)
    BY <1>2, <1>3, <1>6, <1>8, <2>1, LossOfDisturbed
  <2> QED BY <1>2, <1>3, <1>7, <2>2, LossMoves
<1> QED BY <1>9, <1>10, <1>11, <1>12, <1>13, <1>14 DEF SyncInv
-----------------------------------------------------------------------------
(* Openings.                                                               *)

\* A message of the batch comes before all that is stored.
LEMMA PopFirst ==
  ASSUME SyncTypeOK, OrderInv, NEW h, Pops(h), UNCHANGED <<opens, mailbox>>
  PROVE  Precede({h}, Stored', Placed)
<1>1. h \in Range(queue) /\ (\A X : Ordered(queue, X) => Precede({h}, Range(queue'), X))
  BY PopFacts
<1>2. Ordered(queue, Placed) /\ Precede(Range(queue), Range(opens) \cup Range(mailbox), Placed)
  BY DEF OrderInv
<1>3. Precede({h}, Range(queue'), Placed)
  BY <1>1, <1>2
<1> QED BY <1>1, <1>2, <1>3 DEF Precede, Stored

\* An opening brings a key newer than the session's, and makes it the session's.
LEMMA OpenKeys ==
  ASSUME SyncTypeOK, MsgInv, KeyInv, NEW h \in InFlight, h.key = 0, \A p \in Peers : known[p] = {},
         UNCHANGED <<known, key>>, sess' = [sess EXCEPT ![h.from] = h.next], InFlight' \subseteq InFlight,
         \A m \in InFlight' : (m.from = h.from /\ m.key = 0) => h.id < m.id
  PROVE  /\ KeyInv' /\ h.next = h.id /\ sess[h.from] < h.next
         /\ \A p \in Peers : sess'[p] = IF p = h.from THEN h.next ELSE sess[p]
         /\ \A p \in Peers : KeysOf(p)' = IF sess'[p] # 0 THEN {sess'[p]} ELSE {}
<1>1. /\ h.from \in Peers /\ h.next = h.id /\ h.id \in Nat \ {0} /\ h.next <= key[h.from]
  BY InFlightIs DEF Openings
<1>2. sess[h.from] < h.next
  BY DEF KeyInv
<1>3. sess \in [Peers -> Nat] /\ key \in [Peers -> Nat]
  BY DEF SyncTypeOK
<1>4. \A p \in Peers : sess'[p] = IF p = h.from THEN h.next ELSE sess[p]
  BY <1>3
<1>5. \A p \in Peers : KeysOf(p)' = IF sess'[p] # 0 THEN {sess'[p]} ELSE {}
  BY DEF KeysOf
<1>6. ASSUME NEW p \in Peers
      PROVE  /\ sess'[p] <= key'[p] /\ known'[p] \subseteq 1 .. sess'[p]
             /\ known'[p] # {} => sess'[p] \in known'[p]
  BY <1>1, <1>4 DEF KeyInv
<1>7. ASSUME NEW m \in InFlight'
      PROVE  /\ (m.kind = "rotate" /\ m.key \in KeysOf(m.from)') => m.key = sess'[m.from]
             /\ m.key = 0 => sess'[m.from] < m.next
  <2>1. /\ m \in InFlight /\ m.from \in Peers /\ m.id \in Nat \ {0}
        /\ m.key = 0 => m.next = m.id
    BY InFlightIs DEF Openings
  <2>2. m.key = 0 => sess[m.from] < m.next
    BY <2>1 DEF KeyInv
  <2>3. (m.from = h.from /\ m.key = 0) => h.next < m.next
    BY <1>1, <2>1
  <2>4. m.key = 0 => sess'[m.from] < m.next
    BY <1>4, <2>1, <2>2, <2>3
  <2>5. m.key \in KeysOf(m.from)' => m.key = sess'[m.from]
    BY <1>5, <2>1
  <2> QED BY <2>4, <2>5
<1>8. KeyInv'
  BY <1>6, <1>7 DEF KeyInv
<1> QED BY <1>1, <1>2, <1>4, <1>5, <1>8

\* An opening takes no key that a message of an undisturbed peer needs.
LEMMA OpenLoss ==
  ASSUME SyncInv, stops = 0, NEW h \in InFlight, h.key = 0, \A p \in Peers : known[p] = {},
         UNCHANGED <<disturbed, failed, waiting>>, Range(mailbox') \subseteq Range(mailbox),
         h.next = h.id, sess[h.from] < h.next,
         \A p \in Peers : sess'[p] = IF p = h.from THEN h.next ELSE sess[p],
         \A p \in Peers : KeysOf(p)' = IF sess'[p] # 0 THEN {sess'[p]} ELSE {},
         lost' = lost \/ (h.kind # "open" /\ lost' = lost \cup {ChatMessage(h)})
  PROVE  NothingLost(h)
<1>1. SyncTypeOK /\ MsgInv /\ DeliveryInv /\ LossInv
  BY DEF SyncInv
<1>2. h.from \in Peers /\ h.id \in Nat \ {0} /\ sess[h.from] \in Nat
  BY <1>1, InFlightIs
<1>3. ChatMessage(h).from = h.from
  BY DEF ChatMessage
<1> SUFFICES ASSUME NEW p \in Peers \ Unsure
             PROVE  /\ waiting'[p] = <<>> /\ \A c \in lost' : c.from # p
                    /\ \A k \in KeysOf(p) : k \in KeysOf(p)'
                    /\ h.from = p /\ h.next # 0 => h.next \in KeysOf(p)'
                    /\ \A m \in Range(mailbox') : (m.from = p /\ m.key \in KeysOf(p)') => m.key = sess'[p]
  BY DEF NothingLost
<1>4. waiting'[p] = <<>> /\ \A c \in lost : c.from # p
  BY <1>1 DEF LossInv
<1>5. h.from = p => h.kind = "open" /\ h.id = 1
  BY <1>1 DEF DeliveryInv, Unsure
<1>6. \A c \in lost' : c.from # p
  BY <1>3, <1>4, <1>5
<1>7. KeysOf(p) = IF sess[p] # 0 THEN {sess[p]} ELSE {}
  BY DEF KeysOf
<1>8. \A k \in KeysOf(p) : k \in KeysOf(p)'
  <2>1. CASE h.from = p
    <3>1. sess[p] = 0
      BY <1>2, <1>5, <2>1
    <3> QED BY <1>7, <3>1
  <2>2. CASE h.from # p
    BY <1>7, <2>2
  <2> QED BY <2>1, <2>2
<1>9. h.from = p /\ h.next # 0 => h.next \in KeysOf(p)'
  OBVIOUS
<1>10. \A m \in Range(mailbox') : (m.from = p /\ m.key \in KeysOf(p)') => m.key = sess'[p]
  OBVIOUS
<1> QED BY <1>4, <1>6, <1>8, <1>9, <1>10

\* The types of the session of a peer and of the keys stored.
LEMMA SavesType ==
  ASSUME SyncTypeOK, NEW p \in Peers, NEW k \in Nat \ {0}, sess' = [sess EXCEPT ![p] = k], SaveKey(p, k)
  PROVE  /\ sess' \in [Peers -> Nat] /\ stored' \in [Peers -> SUBSET (Nat \ {0})]
         /\ \A q \in Peers : sess'[q] # 0 => sess'[q] \in stored'[q]
<1>1. /\ sess \in [Peers -> Nat] /\ stored \in [Peers -> SUBSET (Nat \ {0})]
      /\ \A q \in Peers : sess[q] # 0 => sess[q] \in stored[q]
  BY DEF SyncTypeOK
<1>2. stored' = [stored EXCEPT ![p] = @ \cup {k}]
  BY DEF SaveKey
<1>3. \A q \in Peers : sess'[q] = IF q = p THEN k ELSE sess[q]
  BY <1>1
<1>4. \A q \in Peers : stored'[q] = IF q = p THEN stored[p] \cup {k} ELSE stored[q]
  BY <1>1, <1>2
<1> QED BY <1>1, <1>2, <1>3, <1>4

\* The invariant is kept by an opening.
LEMMA OpenStep ==
  ASSUME SyncInv, ProcessOpenConversation PROVE SyncInv' /\ \A p \in Peers : sess'[p] >= sess[p]
<1>1. PICK h : h = Head(queue)
  OBVIOUS
<1>2. /\ step \in Syncing /\ queue # <<>> /\ h.kind \in {"open", "noOpenConv"} /\ queue' = Tail(queue)
      /\ sess' = [sess EXCEPT ![h.from] = h.next] /\ SaveKey(h.from, h.next)
      /\ \/ h.kind = "open" /\ messages' = Append(messages, ChatMessage(h)) /\ lost' = lost
         \/ h.kind # "open" /\ lost' = lost \cup {ChatMessage(h)} /\ messages' = messages
      /\ UNCHANGED <<step, known, pending, waiting, unknown, opens, mailbox,
                     sent, key, openings, delivered, disturbed, overtakes, failed, gone, stops>>
  BY <1>1 DEF ProcessOpenConversation, Processes, OpensSession, server, peers, counters
<1>3. /\ SyncTypeOK /\ MsgInv /\ WaitInv /\ KeyInv /\ OrderInv /\ DeliveryInv /\ LossInv
  BY DEF SyncInv
<1>4. Pops(h) /\ Lands(h)
  BY <1>1, <1>2 DEF Pops, IsFirst, Lands
<1>5. h \in InFlight /\ ChatMessage(h) \in Chats /\ h.from \in Peers /\ h.key = 0 /\ h.next \in Nat \ {0}
      /\ h \in Message
  <2>1. h \in InFlight
    BY <1>3, <1>4, PopFacts DEF InFlight, Stored
  <2> QED BY <1>2, <1>3, <2>1, InFlightIs DEF Openings
<1>6. InFlight' \subseteq InFlight /\ InFlight \subseteq InFlight' \cup {h}
  BY <1>2, <1>3, <1>4, PopSets
<1>7. \A p \in Peers : known[p] = {}
  BY <1>2, <1>4, <1>5, PopStep
<1>8. ASSUME NEW m \in InFlight', m.from = h.from, m.key = 0 PROVE h.id < m.id
  <2>1. m \in Message
    BY <1>3, <1>6, FlightType
  <2>2. m \in Stored'
    <3>1. ASSUME NEW q \in Peers, m \in Range(waiting'[q]) PROVE FALSE
      BY <1>2, <1>3, <1>8, <3>1 DEF MsgInv
    <3> QED BY <3>1 DEF InFlight, Waiting
  <2>3. h \in Placed /\ m \in Placed
    BY <1>5, <1>8, <2>1, PlacedIs DEF Placed
  <2>4. Precede({h}, Stored', Placed)
    BY <1>2, <1>3, <1>4, PopFirst
  <2> QED BY <1>8, <2>2, <2>3, <2>4 DEF Precede
<1>9. /\ KeyInv' /\ h.next = h.id /\ sess[h.from] < h.next
      /\ \A p \in Peers : sess'[p] = IF p = h.from THEN h.next ELSE sess[p]
      /\ \A p \in Peers : KeysOf(p)' = IF sess'[p] # 0 THEN {sess'[p]} ELSE {}
  BY <1>2, <1>3, <1>5, <1>6, <1>7, <1>8, OpenKeys
<1>10. SyncTypeOK'
  <2>1. queue' \in Seq(Message)
    BY <1>3, <1>4, PopFacts
  <2>2. messages' \in Seq(Chats) /\ lost' \subseteq Chats
    <3>1. messages \in Seq(Chats) /\ lost \subseteq Chats
      BY <1>3 DEF SyncTypeOK
    <3>2. PICK s, c : s = messages /\ c = ChatMessage(h)
      OBVIOUS
    <3>3. Append(s, c) \in Seq(Chats)
      BY <1>5, <3>1, <3>2
    <3>4. messages' = Append(s, c) \/ messages' = s
      BY <1>2, <3>2
    <3>5. messages' \in Seq(Chats)
      BY <3>1, <3>2, <3>3, <3>4
    <3>6. lost' \subseteq Chats
      BY <1>2, <1>5, <3>1
    <3> QED BY <3>5, <3>6
  <2>3. /\ sess' \in [Peers -> Nat] /\ stored' \in [Peers -> SUBSET (Nat \ {0})]
        /\ \A q \in Peers : sess'[q] # 0 => sess'[q] \in stored'[q]
    BY <1>2, <1>3, <1>5, SavesType
  <2> QED BY <1>2, <1>3, <2>1, <2>2, <2>3 DEF SyncTypeOK
<1>11. PhaseInv'
  BY <1>2, <1>4, PopPhase
<1>12. MsgInv' /\ CountInv' /\ OrderInv' /\ DeliveryInv'
  BY <1>2, <1>4, PopMoves
<1>13. WaitInv'
  BY <1>2, <1>3 DEF WaitInv
<1>14. LossInv'
  <2>1. stops = 0 => NothingLost(h)
    BY <1>2, <1>5, <1>7, <1>9, OpenLoss
  <2> QED BY <1>2, <1>3, <1>6, <2>1, LossMoves
<1>15. \A p \in Peers : sess'[p] >= sess[p]
  <2>1. \A p \in Peers : sess[p] \in Nat
    BY <1>3 DEF SyncTypeOK
  <2> QED BY <1>5, <1>9, <2>1
<1> QED BY <1>9, <1>10, <1>11, <1>12, <1>13, <1>14, <1>15 DEF SyncInv
-----------------------------------------------------------------------------
(* A rotation whose key is known.                                          *)

InnerOf(h) == [kind |-> "msg", from |-> h.from, key |-> h.key, next |-> 0, id |-> h.id]

ByKey(w, k) == {m \in Range(w) : m.key = k}

\* The messages that waited for the key k go to the front, the others o still wait.
Splices(u, o, w, k, i, t) ==
  u = (Reverse(WithKey(w, k)) \o <<i>>) \o t /\ o = WithoutKey(w, k)

CountsAdd(u, o, w, i, t) ==
  \A X : HowMany(u, X) + HowMany(o, X) = HowMany(w, X) + (IF i \in X THEN 1 ELSE 0) + HowMany(t, X)

OrderAdds(u, w, k, i, t) ==
  \A X : (ByKey(w, k) \cap X = {} /\ Ordered(t, X) /\ Precede({i}, Range(t), X)) => Ordered(u, X)

\* The queue and the waiting messages after a rotation, by set, count and order.
LEMMA Releases ==
  ASSUME NEW w \in Seq(Message), NEW t \in Seq(Message), NEW i \in Message, NEW k, NEW u, NEW o,
         Splices(u, o, w, k, i, t)
  PROVE  /\ u \in Seq(Message) /\ o \in Seq(Message)
         /\ Range(u) = ByKey(w, k) \cup {i} \cup Range(t)
         /\ Range(o) = Range(w) \ ByKey(w, k)
         /\ CountsAdd(u, o, w, i, t)
         /\ OrderAdds(u, w, k, i, t)
<1>1. PICK r, l, a, b : /\ r = WithKey(w, k) /\ l = Reverse(r) /\ o = WithoutKey(w, k)
                        /\ a = <<i>> /\ b = l \o a /\ u = b \o t
  BY DEF Splices
<1>2. /\ r \in Seq(Message) /\ o \in Seq(Message)
      /\ Range(r) = ByKey(w, k) /\ Range(o) = Range(w) \ ByKey(w, k)
      /\ \A X : HowMany(r, X) + HowMany(o, X) = HowMany(w, X)
  <2>1. /\ r \in Seq(Message) /\ o \in Seq(Message)
        /\ Range(r) = {m \in Range(w) : m.key = k}
        /\ Range(o) = {m \in Range(w) : m.key # k}
        /\ \A X : HowMany(r, X) + HowMany(o, X) = HowMany(w, X)
    BY <1>1, CountByKey
  <2> QED BY <2>1 DEF ByKey
<1>3. /\ l \in Seq(Message) /\ Range(l) = Range(r)
      /\ \A X : HowMany(l, X) = HowMany(r, X)
  BY <1>1, <1>2, RangeReverse, CountReverse
<1>4. a \in Seq(Message) /\ Range(a) = {i}
      /\ \A X : HowMany(a, X) = (IF i \in X THEN 1 ELSE 0) /\ Ordered(a, X)
  <2>1. a = <<i>>
    BY <1>1
  <2>2. <<i>> \in Seq(Message)
    OBVIOUS
  <2>3. Range(<<i>>) = {i}
    BY RangeOne
  <2>4. \A X : HowMany(<<i>>, X) = (IF i \in X THEN 1 ELSE 0)
    BY CountOne
  <2>5. \A X : Ordered(<<i>>, X)
    BY OrderedOne
  <2> QED BY <2>1, <2>2, <2>3, <2>4, <2>5
<1>5. /\ b \in Seq(Message) /\ Range(b) = Range(l) \cup {i}
      /\ \A X : HowMany(b, X) = HowMany(l, X) + HowMany(a, X)
      /\ \A X : Ordered(b, X) <=> Ordered(l, X) /\ Ordered(a, X) /\ Precede(Range(l), Range(a), X)
  <2>1. b = l \o a /\ l \in Seq(Message) /\ a \in Seq(Message)
    BY <1>1, <1>3, <1>4
  <2>2. /\ b \in Seq(Message) /\ Range(b) = Range(l) \cup Range(a)
        /\ \A X : HowMany(b, X) = HowMany(l, X) + HowMany(a, X)
        /\ \A X : Ordered(b, X) <=> Ordered(l, X) /\ Ordered(a, X) /\ Precede(Range(l), Range(a), X)
    BY ONLY <2>1, Joined
  <2> QED BY <1>4, <2>2
<1>6. /\ u \in Seq(Message) /\ Range(u) = Range(b) \cup Range(t)
      /\ \A X : HowMany(u, X) = HowMany(b, X) + HowMany(t, X)
      /\ \A X : Ordered(u, X) <=> Ordered(b, X) /\ Ordered(t, X) /\ Precede(Range(b), Range(t), X)
  <2>1. u = b \o t /\ b \in Seq(Message)
    BY <1>1, <1>5
  <2> QED BY ONLY <2>1, t \in Seq(Message), Joined
<1>7. Range(u) = ByKey(w, k) \cup {i} \cup Range(t)
  BY <1>2, <1>3, <1>5, <1>6
<1>8. ASSUME NEW X
      PROVE  HowMany(u, X) + HowMany(o, X) = HowMany(w, X) + (IF i \in X THEN 1 ELSE 0) + HowMany(t, X)
  <2>1. PICK cu, cb, ct, cl, ca, cr, co, cw \in Nat :
          /\ cu = HowMany(u, X) /\ cb = HowMany(b, X) /\ ct = HowMany(t, X) /\ cl = HowMany(l, X)
          /\ ca = HowMany(a, X) /\ cr = HowMany(r, X) /\ co = HowMany(o, X) /\ cw = HowMany(w, X)
    <3>1. HowMany(u, X) \in Nat /\ HowMany(b, X) \in Nat /\ HowMany(t, X) \in Nat /\ HowMany(l, X) \in Nat
      BY <1>3, <1>5, <1>6, AtFinite
    <3>2. HowMany(a, X) \in Nat /\ HowMany(r, X) \in Nat /\ HowMany(o, X) \in Nat /\ HowMany(w, X) \in Nat
      BY <1>2, <1>4, AtFinite
    <3> QED BY <3>1, <3>2
  <2>2. cu = cb + ct /\ cb = cl + ca /\ cl = cr /\ cr + co = cw
    BY <1>2, <1>3, <1>5, <1>6, <2>1
  <2>3. ca = IF i \in X THEN 1 ELSE 0
    BY <1>4, <2>1
  <2>4. cu + co = cw + ca + ct
    BY ONLY <2>2, cu \in Nat, cb \in Nat, ct \in Nat, cl \in Nat, ca \in Nat, cr \in Nat, co \in Nat, cw \in Nat
  <2> QED BY <2>1, <2>3, <2>4
<1>9. ASSUME NEW X, ByKey(w, k) \cap X = {}, Ordered(t, X), Precede({i}, Range(t), X)
      PROVE  Ordered(u, X)
  <2>1. Range(l) \cap X = {}
    BY <1>2, <1>3, <1>9
  <2>2. Ordered(l, X)
    BY <1>3, <2>1, OrderedOut
  <2>3. Precede(Range(l), Range(a), X)
    BY <2>1 DEF Precede
  <2>4. Precede(Range(b), Range(t), X)
    BY <1>5, <1>9, <2>1 DEF Precede
  <2> QED BY <1>4, <1>5, <1>6, <1>9, <2>2, <2>3, <2>4
<1>10. /\ u \in Seq(Message) /\ o \in Seq(Message)
       /\ Range(o) = Range(w) \ ByKey(w, k)
  BY <1>2, <1>6
<1>11. CountsAdd(u, o, w, i, t)
  BY <1>8 DEF CountsAdd
<1>12. OrderAdds(u, w, k, i, t)
  BY <1>9 DEF OrderAdds
<1> QED BY <1>7, <1>10, <1>11, <1>12
\* process_key_rotation, h the rotation and t the rest of the batch.
Turns(h, t) ==
  /\ step \in Syncing /\ IsFirst(h, t) /\ h.kind = "rotate" /\ h.key \in KeysOf(h.from)
  /\ known' = [known EXCEPT ![h.from] = KeysOf(h.from) \cup {h.next}]
  /\ sess' = [sess EXCEPT ![h.from] = h.next] /\ SaveKey(h.from, h.next)
  /\ queue' = (Reverse(WithKey(waiting[h.from], h.next)) \o <<InnerOf(h)>>) \o t
  /\ waiting' = [waiting EXCEPT ![h.from] = WithoutKey(@, h.next)]
  /\ UNCHANGED <<step, messages, pending, unknown, opens, mailbox, sent, key, openings, delivered, lost,
                 disturbed, overtakes, failed, gone, stops>>

\* What waits for the key that the rotation brings.
Freed(h) == ByKey(waiting[h.from], h.next)

\* Rotate is Turns, of the head and the tail of the batch.
LEMMA RotateTurns ==
  ASSUME SyncInv, Rotate PROVE \E h, t : Turns(h, t)
<1>1. PICK h, t : h = Head(queue) /\ t = Tail(queue)
  OBVIOUS
<1>2. queue # <<>> /\ h.kind = "rotate"
  BY <1>1 DEF Rotate, Processes
<1>3. IsFirst(h, t)
  BY <1>1, <1>2 DEF IsFirst
<1>4. h.id # 0
  <2>1. SyncTypeOK /\ MsgInv
    BY DEF SyncInv
  <2>2. h \in InFlight
    BY <1>3, <2>1, FirstFacts DEF InFlight, Stored
  <2> QED BY <2>1, <2>2, InFlightIs
<1>5. Inner(h) = <<InnerOf(h)>>
  BY <1>4 DEF Inner, InnerOf
<1>6. queue' = (Reverse(WithKey(waiting[h.from], h.next)) \o <<InnerOf(h)>>) \o t
  BY <1>1, <1>5 DEF Rotate, Released
<1> QED BY <1>1, <1>2, <1>3, <1>6
        DEF Rotate, Turns, RotatesSession, server, peers, history, counters

\* What a rotation does to the messages and the keys, by set.
LEMMA TurnSets ==
  ASSUME SyncInv, NEW h, NEW t, Turns(h, t)
  PROVE  /\ h \in InFlight /\ h \in Stored /\ h \in Message /\ h.from \in Peers
         /\ h.key \in Nat \ {0} /\ h.id \in Nat \ {0} /\ h.next = h.id /\ h.key < h.id
         /\ h.key = sess[h.from]
         /\ t \in Seq(Message) /\ Range(queue) = {h} \cup Range(t)
         /\ InnerOf(h) \in Message /\ InnerOf(h).from = h.from /\ InnerOf(h).id = h.id
         /\ InnerOf(h).key = h.key /\ InnerOf(h).next = 0 /\ InnerOf(h).kind = "msg"
         /\ queue' \in Seq(Message) /\ waiting' \in [Peers -> Seq(Message)]
         /\ Range(queue') = Freed(h) \cup {InnerOf(h)} \cup Range(t)
         /\ \A p \in Peers : Range(waiting'[p]) \subseteq Range(waiting[p])
         /\ \A m \in Range(waiting'[h.from]) : m.key # h.next
         /\ \A p \in Peers : waiting[p] = <<>> => waiting'[p] = <<>>
         /\ Freed(h) \subseteq Waiting
         /\ Waiting' \subseteq Waiting /\ Waiting \subseteq Waiting' \cup Freed(h)
         /\ Stored' = Freed(h) \cup {InnerOf(h)} \cup (Range(t) \cup Range(opens) \cup Range(mailbox))
         /\ Stored = {h} \cup (Range(t) \cup Range(opens) \cup Range(mailbox))
         /\ InFlight' \subseteq InFlight \cup {InnerOf(h)} /\ InFlight \subseteq InFlight' \cup {h}
<1>1. SyncTypeOK /\ MsgInv /\ KeyInv
  BY DEF SyncInv
<1>2. IsFirst(h, t) /\ h.kind = "rotate" /\ h.key \in KeysOf(h.from)
  BY DEF Turns
<1>3. h \in Message /\ h \in Range(queue) /\ t \in Seq(Message) /\ Range(queue) = {h} \cup Range(t)
  BY <1>1, <1>2, FirstFacts
<1>4. h \in Stored /\ h \in InFlight
  BY <1>3 DEF Stored, InFlight
<1>5. /\ h.from \in Peers /\ h.key \in Nat \ {0} /\ h.id \in Nat \ {0} /\ h.next = h.id /\ h.key < h.id
      /\ h.key = sess[h.from]
  <2>1. /\ h.from \in Peers /\ h.key \in Nat /\ h.id \in Nat \ {0} /\ h.next = h.id /\ h.key < h.id
        /\ h.key # 0
    BY <1>1, <1>2, <1>4, InFlightIs DEF Openings
  <2>2. h.key = sess[h.from]
    BY <1>1, <1>2, <1>4 DEF KeyInv
  <2> QED BY <2>1, <2>2
<1>6. /\ InnerOf(h).from = h.from /\ InnerOf(h).id = h.id
      /\ InnerOf(h).key = h.key /\ InnerOf(h).next = 0 /\ InnerOf(h).kind = "msg"
      /\ InnerOf(h) \in Message
  BY <1>5 DEF InnerOf, Message, Kinds
<1>7. waiting \in [Peers -> Seq(Message)] /\ waiting[h.from] \in Seq(Message)
  BY <1>1, <1>5 DEF SyncTypeOK
<1>8. PICK w, i, k : w = waiting[h.from] /\ i = InnerOf(h) /\ k = h.next
  OBVIOUS
<1>9. PICK u, o : u = queue' /\ o = waiting'[h.from]
  OBVIOUS
<1>91. u = (Reverse(WithKey(w, k)) \o <<i>>) \o t /\ o = WithoutKey(w, k)
  BY <1>5, <1>7, <1>8, <1>9 DEF Turns
<1>92. /\ u \in Seq(Message) /\ o \in Seq(Message)
       /\ Range(u) = ByKey(w, k) \cup {i} \cup Range(t)
       /\ Range(o) = Range(w) \ ByKey(w, k)
  <2>1. w \in Seq(Message) /\ i \in Message
    BY <1>6, <1>7, <1>8
  <2>2. t \in Seq(Message)
    BY <1>3
  <2>3. Splices(u, o, w, k, i, t)
    BY <1>91 DEF Splices
  <2> QED BY ONLY <2>1, <2>2, <2>3, Releases
<1>10. queue' \in Seq(Message) /\ Range(queue') = Freed(h) \cup {InnerOf(h)} \cup Range(t)
  BY <1>8, <1>9, <1>92 DEF Freed
<1>11. \A p \in Peers : p # h.from => waiting'[p] = waiting[p]
  BY <1>5, <1>7 DEF Turns
<1>12. waiting' \in [Peers -> Seq(Message)]
  <2>1. waiting' = [waiting EXCEPT ![h.from] = WithoutKey(@, h.next)]
    BY DEF Turns
  <2>2. WithoutKey(waiting[h.from], h.next) \in Seq(Message)
    BY <1>8, <1>91, <1>92
  <2> QED BY <1>5, <1>7, <2>1, <2>2
<1>13. /\ \A p \in Peers : Range(waiting'[p]) \subseteq Range(waiting[p])
       /\ \A p \in Peers : \A m \in Range(waiting[p]) : m \in Range(waiting'[p]) \/ m \in Freed(h)
       /\ \A m \in Range(waiting'[h.from]) : m.key # h.next
  <2>1. Range(waiting'[h.from]) = Range(waiting[h.from]) \ Freed(h)
    BY <1>8, <1>9, <1>92 DEF Freed
  <2>2. \A m \in Range(waiting[h.from]) : m \notin Freed(h) => m.key # h.next
    BY DEF Freed, ByKey
  <2> QED BY <1>11, <2>1, <2>2
<1>14. ASSUME NEW p \in Peers, waiting[p] = <<>> PROVE waiting'[p] = <<>>
  <2>1. PICK s : s = waiting'[p]
    OBVIOUS
  <2>2. s \in Seq(Message) /\ Range(s) = {}
    BY <1>12, <1>13, <1>14, <2>1, RangeOne
  <2>3. DOMAIN s = {} /\ DOMAIN s = 1 .. Len(s) /\ Len(s) \in Nat
    BY <2>2 DEF Range
  <2>4. Len(s) = 0
    BY <2>3
  <2>5. s = <<>>
    BY ONLY <2>2, <2>4, s \in Seq(Message)
  <2> QED BY <2>1, <2>5
<1>15. Freed(h) \subseteq Waiting
  BY <1>5 DEF Freed, ByKey, Waiting
<1>16. Waiting' \subseteq Waiting /\ Waiting \subseteq Waiting' \cup Freed(h)
  BY <1>13 DEF Waiting
<1>17. /\ Stored' = Freed(h) \cup {InnerOf(h)} \cup (Range(t) \cup Range(opens) \cup Range(mailbox))
       /\ Stored = {h} \cup (Range(t) \cup Range(opens) \cup Range(mailbox))
  BY <1>3, <1>10 DEF Stored, Turns
<1>18. InFlight' \subseteq InFlight \cup {InnerOf(h)} /\ InFlight \subseteq InFlight' \cup {h}
  BY <1>15, <1>16, <1>17 DEF InFlight
<1> QED BY <1>3, <1>4, <1>5, <1>6, <1>10, <1>12, <1>13, <1>14, <1>15, <1>16, <1>17, <1>18
\* The messages that are freed are not those of a peer in order: they would have come
\* before the key they need.
LEMMA TurnFreed ==
  ASSUME SyncInv, NEW h, NEW t, Turns(h, t)
  PROVE  Freed(h) \cap Placed = {} /\ \A m \in Freed(h) : m.key # 0 /\ m.from = h.from /\ m.key = h.id
<1>1. SyncTypeOK /\ MsgInv /\ OrderInv
  BY DEF SyncInv
<1>2. h \in Stored /\ h \in Message /\ h.from \in Peers /\ h.next = h.id /\ h.id \in Nat \ {0}
  BY TurnSets
<1>3. ASSUME NEW m \in Freed(h)
      PROVE  m \notin Placed /\ m.key # 0 /\ m.from = h.from /\ m.key = h.id
  <2>1. m \in Range(waiting[h.from]) /\ m.key = h.id
    BY <1>2 DEF Freed, ByKey
  <2>2. m \in Waiting /\ m \in InFlight
    BY <1>2, <2>1 DEF Waiting, InFlight
  <2>3. m.from = h.from /\ m.key # 0
    BY <1>1, <1>2, <2>1 DEF MsgInv
  <2>4. m.key < m.id /\ m \in Message /\ m.id \in Nat
    BY <1>1, <2>2, InFlightIs
  <2>5. ASSUME m \in Placed PROVE FALSE
    <3>1. m.from \notin disturbed
      BY <2>3, <2>4, <2>5, PlacedIs DEF Placed
    <3>2. h \in Placed
      BY <1>2, <2>3, <3>1, PlacedIs DEF Placed
    <3>3. Precede(Range(messages) \cup Waiting, Stored, Placed)
      BY <1>1 DEF OrderInv
    <3>4. m.id < h.id
      BY <1>2, <2>2, <2>3, <2>5, <3>2, <3>3 DEF Precede
    <3> QED BY <1>2, <2>1, <2>4, <3>4
  <2> QED BY <2>1, <2>3, <2>5
<1> QED BY <1>3

\* There is no other message with the number of the rotation.
LEMMA TurnOnly ==
  ASSUME SyncInv, NEW h, NEW t, Turns(h, t), NEW m \in InFlight', m # InnerOf(h)
  PROVE  m \in InFlight /\ (m.from = h.from => m.id # h.id)
<1>1. SyncTypeOK /\ MsgInv /\ CountInv
  BY DEF SyncInv
<1>2. /\ InFlight' \subseteq InFlight \cup {InnerOf(h)} /\ h.id \in Nat \ {0} /\ h.from \in Peers
      /\ Stored' = Freed(h) \cup {InnerOf(h)} \cup (Range(t) \cup Range(opens) \cup Range(mailbox))
      /\ Waiting' \subseteq Waiting
  BY TurnSets
<1>3. m \in Range(t) \cup Range(opens) \cup Range(mailbox) \cup Waiting
  <2>1. m \in Stored' \cup Waiting'
    BY DEF InFlight
  <2>2. Freed(h) \subseteq Waiting
    BY TurnSets
  <2> QED BY <1>2, <2>1, <2>2
<1>4. ASSUME m.from = h.from PROVE m.id # h.id
  <2>1. m \in Waiting => m \in Range(waiting[h.from])
    BY <1>1, <1>4 DEF MsgInv, Waiting
  <2>2. IsFirst(h, t)
    BY DEF Turns
  <2>3. \A x \in Range(t) \cup Range(opens) \cup Range(mailbox) \cup Range(waiting[h.from]) :
           x.from = h.from => x.id # h.id
    BY <1>1, <1>2, <2>2, FirstOnly
  <2> QED BY <1>3, <1>4, <2>1, <2>3
<1> QED BY <1>2, <1>4

\* The message inside a rotation is well formed.
LEMMA TurnMsg ==
  ASSUME SyncInv, NEW h, NEW t, Turns(h, t)
  PROVE  MsgInv'
<1>1. SyncTypeOK /\ MsgInv
  BY DEF SyncInv
<1>2. /\ h \in InFlight /\ h.from \in Peers
      /\ h.key \in Nat \ {0} /\ h.id \in Nat \ {0} /\ h.next = h.id /\ h.key < h.id
      /\ InnerOf(h).from = h.from /\ InnerOf(h).id = h.id
      /\ InnerOf(h).key = h.key /\ InnerOf(h).next = 0 /\ InnerOf(h).kind = "msg"
      /\ \A p \in Peers : Range(waiting'[p]) \subseteq Range(waiting[p])
      /\ InFlight' \subseteq InFlight \cup {InnerOf(h)}
  BY TurnSets
<1>3. UNCHANGED <<sent, key, openings>>
  BY DEF Turns
<1>4. /\ h.id \in 1 .. sent[h.from] /\ h.key <= key[h.from] /\ key[h.from] \in Nat
  <2>1. Wellformed(h)
    BY <1>1, <1>2 DEF MsgInv
  <2> QED BY <1>1, <1>2, <2>1, InFlightIs DEF Wellformed
<1>5. \A p \in Peers : key'[p] <= sent'[p] /\ (openings'[p] = 0 => sent'[p] = 0)
  BY <1>1, <1>3 DEF MsgInv
<1>6. \A p \in Peers : \A m \in Range(waiting'[p]) : m.from = p /\ m.key # 0
  BY <1>1, <1>2 DEF MsgInv
<1>7. ASSUME NEW m \in InFlight' PROVE Wellformed(m)'
  <2>1. CASE m \in InFlight
    BY <1>1, <1>3, <2>1 DEF MsgInv, Wellformed
  <2>2. CASE m = InnerOf(h)
    BY <1>2, <1>3, <1>4, <2>2 DEF Wellformed, Openings
  <2> QED BY <1>2, <2>1, <2>2
<1>8. ASSUME NEW a \in InFlight', NEW b \in InFlight', a.from = b.from, a.id < b.id, b.key # 0
      PROVE  a.next <= b.key
  <2>1. PICK x \in InFlight : x.from = b.from /\ x.id = b.id /\ x.key = b.key
    BY <1>2
  <2>2. CASE a \in InFlight
    BY <1>1, <1>8, <2>1, <2>2 DEF MsgInv
  <2>3. CASE a = InnerOf(h)
    <3>1. x.key \in Nat
      BY <1>1, <2>1, InFlightIs
    <3> QED BY <1>2, <2>1, <2>3, <3>1
  <2> QED BY <1>2, <2>2, <2>3
<1> QED BY <1>5, <1>6, <1>7, <1>8 DEF MsgInv

\* A rotation moves the session to the key it brings.
LEMMA TurnKeys ==
  ASSUME SyncInv, NEW h, NEW t, Turns(h, t)
  PROVE  /\ KeyInv'
         /\ \A p \in Peers : sess'[p] = IF p = h.from THEN h.next ELSE sess[p]
         /\ \A p \in Peers : known'[p] = IF p = h.from THEN KeysOf(p) \cup {h.next} ELSE known[p]
         /\ \A p \in Peers : KeysOf(p)' = IF p = h.from THEN KeysOf(p) \cup {h.next} ELSE KeysOf(p)
<1>1. SyncTypeOK /\ MsgInv /\ KeyInv
  BY DEF SyncInv
<1>2. /\ h \in InFlight /\ h.from \in Peers
      /\ h.key \in Nat \ {0} /\ h.id \in Nat \ {0} /\ h.next = h.id /\ h.key < h.id
      /\ h.key = sess[h.from]
      /\ InnerOf(h).key = h.key /\ InnerOf(h).kind = "msg"
      /\ InFlight' \subseteq InFlight \cup {InnerOf(h)}
  BY TurnSets
<1>3. /\ sess' = [sess EXCEPT ![h.from] = h.next] /\ key' = key
      /\ known' = [known EXCEPT ![h.from] = KeysOf(h.from) \cup {h.next}]
      /\ h.kind = "rotate" /\ h.key \in KeysOf(h.from)
  BY DEF Turns
<1>4. sess \in [Peers -> Nat] /\ known \in [Peers -> SUBSET (Nat \ {0})] /\ key \in [Peers -> Nat]
  BY <1>1 DEF SyncTypeOK
<1>5. \A p \in Peers : sess'[p] = IF p = h.from THEN h.next ELSE sess[p]
  BY <1>3, <1>4
<1>6. \A p \in Peers : known'[p] = IF p = h.from THEN KeysOf(p) \cup {h.next} ELSE known[p]
  BY <1>3, <1>4
<1>7. \A p \in Peers : KeysOf(p)' = IF p = h.from THEN KeysOf(p) \cup {h.next} ELSE KeysOf(p)
  <2>1. ASSUME NEW p \in Peers, p = h.from PROVE KeysOf(p)' = KeysOf(p) \cup {h.next}
    <3>1. known'[p] = KeysOf(p) \cup {h.next}
      BY <1>6, <2>1
    <3>2. known'[p] # {}
      BY <3>1
    <3>3. KeysOf(p)' = known'[p]
      BY <3>2 DEF KeysOf
    <3> QED BY <3>1, <3>3
  <2>2. ASSUME NEW p \in Peers, p # h.from PROVE KeysOf(p)' = KeysOf(p)
    BY <1>5, <1>6, <2>2 DEF KeysOf
  <2> QED BY <2>1, <2>2
<1>8. /\ \A k \in KeysOf(h.from) : k \in Nat \ {0} /\ k <= h.key
      /\ h.next <= key[h.from]
  <2>1. \A k \in KeysOf(h.from) : k <= sess[h.from]
    BY <1>1, <1>2, KeysOfIs
  <2>2. KeysOf(h.from) \subseteq Nat \ {0}
    BY <1>1, <1>2, KeysOfIs
  <2>3. h.next <= key[h.from]
    BY <1>1, <1>2, InFlightIs
  <2> QED BY <1>2, <2>1, <2>2, <2>3
<1>9. ASSUME NEW p \in Peers
      PROVE  /\ sess'[p] <= key'[p] /\ known'[p] \subseteq 1 .. sess'[p]
             /\ known'[p] # {} => sess'[p] \in known'[p]
  <2>1. CASE p = h.from
    <3>1. KeysOf(p) \subseteq 1 .. h.next /\ h.next \in 1 .. h.next
      BY <1>2, <1>8, <2>1
    <3> QED BY <1>3, <1>5, <1>6, <1>8, <2>1, <3>1
  <2>2. CASE p # h.from
    BY <1>1, <1>3, <1>5, <1>6, <2>2 DEF KeyInv
  <2> QED BY <2>1, <2>2
<1>10. ASSUME NEW m \in InFlight'
       PROVE  /\ (m.kind = "rotate" /\ m.key \in KeysOf(m.from)') => m.key = sess'[m.from]
              /\ m.key = 0 => sess'[m.from] < m.next
  <2>1. CASE m = InnerOf(h)
    BY <1>2, <2>1
  <2>2. CASE m # InnerOf(h)
    <3>1. m \in InFlight /\ (m.from = h.from => m.id # h.id)
      BY <2>2, TurnOnly
    <3>2. /\ m.from \in Peers /\ m.key \in Nat /\ m.id \in Nat \ {0} /\ m.key < m.id /\ m.next \in Nat
          /\ m.next = IF m.kind = "msg" THEN 0 ELSE m.id
          /\ m.kind \in Openings <=> m.key = 0
      BY <1>1, <3>1, InFlightIs
    <3>3. /\ (m.kind = "rotate" /\ m.key \in KeysOf(m.from)) => m.key = sess[m.from]
          /\ m.key = 0 => sess[m.from] < m.next
      BY <1>1, <3>1 DEF KeyInv
    <3>4. CASE m.from # h.from
      BY <1>5, <1>7, <3>2, <3>3, <3>4
    <3>5. CASE m.from = h.from
      <4>1. (m.id < h.id => m.next <= h.key) /\ (h.id < m.id /\ m.key # 0 => h.next <= m.key)
        BY <1>1, <1>2, <3>1, <3>5 DEF MsgInv
      <4>2. m.id < h.id \/ h.id < m.id
        BY <1>2, <3>1, <3>2, <3>5
      <4>3. ASSUME m.kind = "rotate", m.key \in KeysOf(m.from)' PROVE m.key = sess'[m.from]
        <5>1. m.next = m.id /\ m.key # 0
          BY <3>2, <4>3 DEF Openings
        <5>2. CASE m.key = h.next
          BY <1>5, <3>2, <3>5, <5>2
        <5>3. CASE m.key # h.next
          <6>1. m.key \in KeysOf(m.from)
            BY <1>7, <3>2, <3>5, <4>3, <5>3
          <6>2. m.key = h.key
            BY <1>2, <3>3, <3>5, <4>3, <6>1
          <6> QED BY <1>2, <3>2, <4>1, <4>2, <5>1, <6>2
        <5> QED BY <5>2, <5>3
      <4>4. ASSUME m.key = 0 PROVE sess'[m.from] < m.next
        <5>1. m.next = m.id /\ h.key < m.next
          BY <1>2, <3>2, <3>3, <3>5, <4>4 DEF Openings
        <5>2. h.id < m.id
          BY <1>2, <3>2, <4>1, <4>2, <5>1
        <5> QED BY <1>2, <1>5, <3>2, <3>5, <5>1, <5>2
      <4> QED BY <4>3, <4>4
    <3> QED BY <3>4, <3>5
  <2> QED BY <2>1, <2>2
<1>11. KeyInv'
  BY <1>9, <1>10 DEF KeyInv
<1> QED BY <1>5, <1>6, <1>7, <1>11
\* A rotation with its message inside counts as that message.
LEMMA TurnCounts ==
  ASSUME SyncInv, NEW h, NEW t, Turns(h, t)
  PROVE  CountInv'
<1>1. SyncTypeOK /\ MsgInv /\ CountInv
  BY DEF SyncInv
<1>17. \A X : HowMany(queue, X) = (IF h \in X THEN 1 ELSE 0) + HowMany(t, X)
  <2>1. IsFirst(h, t)
    BY DEF Turns
  <2> QED BY ONLY <1>1, <2>1, FirstFacts
<1>2. /\ h \in Message /\ h.from \in Peers /\ h.id \in Nat \ {0} /\ t \in Seq(Message)
      /\ InnerOf(h) \in Message /\ InnerOf(h).from = h.from /\ InnerOf(h).id = h.id
      /\ queue' \in Seq(Message) /\ waiting' \in [Peers -> Seq(Message)]
      /\ \A p \in Peers : Range(waiting'[p]) \subseteq Range(waiting[p])
  BY TurnSets
<1>3. UNCHANGED <<messages, opens, mailbox, sent, delivered, lost>> /\ IsFirst(h, t)
  BY DEF Turns
<1>4. waiting \in [Peers -> Seq(Message)]
  BY <1>1 DEF SyncTypeOK
<1>5. PICK w, i, k, u, o : w = waiting[h.from] /\ i = InnerOf(h) /\ k = h.next /\ u = queue' /\ o = waiting'[h.from]
  OBVIOUS
<1>6. CountsAdd(u, o, w, i, t)
  <2>1. u = (Reverse(WithKey(w, k)) \o <<i>>) \o t /\ o = WithoutKey(w, k)
    BY <1>2, <1>4, <1>5 DEF Turns
  <2>2. Splices(u, o, w, k, i, t)
    BY <2>1 DEF Splices
  <2>3. w \in Seq(Message) /\ i \in Message /\ t \in Seq(Message)
    BY <1>2, <1>4, <1>5
  <2> QED BY ONLY <2>2, <2>3, Releases
<1> SUFFICES ASSUME NEW p \in Peers, NEW n \in Nat \ {0} PROVE Places(p, n)' = Places(p, n)
  BY <1>1, <1>3, CountKeeps
<1>7. PICK po, m, q, pw, g, d \in Nat, L \in {0, 1} :
        /\ po = HowMany(opens, Copies(p, n)) /\ m = HowMany(mailbox, Copies(p, n))
        /\ q = HowMany(queue, Copies(p, n)) /\ pw = HowMany(waiting[p], Copies(p, n))
        /\ g = HowMany(messages, {[from |-> p, id |-> n]}) /\ d = HowMany(delivered[p], {n})
        /\ L = (IF [from |-> p, id |-> n] \in lost THEN 1 ELSE 0)
        /\ Places(p, n) = po + m + q + pw + g + d + L
  BY ONLY <1>1, p \in Peers, n \in Nat \ {0}, Numbers
<1>16. PICK X : X = Copies(p, n)
  OBVIOUS
<1>8. PICK b \in {0, 1} : b = IF h.from = p /\ h.id = n THEN 1 ELSE 0
  <2>1. (IF h.from = p /\ h.id = n THEN 1 ELSE 0) \in {0, 1}
    OBVIOUS
  <2> QED BY <2>1
<1>9. (IF h \in X THEN 1 ELSE 0) = b /\ (IF i \in X THEN 1 ELSE 0) = b
  <2>1. (h \in X <=> (h.from = p /\ h.id = n)) /\ (i \in X <=> (h.from = p /\ h.id = n))
    BY <1>2, <1>5, <1>8, <1>16, CopiesAre
  <2> QED BY <1>8, <1>16, <2>1
<1>10. PICK ct, cu, cv \in Nat :
         ct = HowMany(t, X) /\ cu = HowMany(queue', X) /\ cv = HowMany(waiting'[p], X)
  <2>1. HowMany(t, X) \in Nat /\ HowMany(queue', X) \in Nat
    BY <1>2, AtFinite
  <2>2. waiting'[p] \in Seq(Message)
    BY <1>2
  <2>3. HowMany(waiting'[p], X) \in Nat
    BY <2>2, AtFinite
  <2> QED BY <2>1, <2>3
<1>11. q = b + ct
  <2>2. HowMany(queue, X) = (IF h \in X THEN 1 ELSE 0) + HowMany(t, X)
    BY <1>17
  <2> QED BY <1>7, <1>8, <1>16, <1>9, <1>10, <2>2
<1>12. PICK co, cw \in Nat : co = HowMany(o, X) /\ cw = HowMany(w, X) /\ cu + co = cw + b + ct
  <2>1. w \in Seq(Message) /\ o \in Seq(Message)
    BY <1>2, <1>4, <1>5
  <2>2. HowMany(w, X) \in Nat /\ HowMany(o, X) \in Nat
    BY <2>1, AtFinite
  <2>3. HowMany(u, X) + HowMany(o, X) = HowMany(w, X) + (IF i \in X THEN 1 ELSE 0) + HowMany(t, X)
    BY <1>6 DEF CountsAdd
  <2> QED BY <1>5, <1>9, <1>10, <2>2, <2>3
<1>13. cu + cv = pw + b + ct
  <2>1. CASE p = h.from
    BY <1>5, <1>7, <1>8, <1>16, <1>10, <1>12, <2>1
  <2>2. CASE p # h.from
    <3>1. waiting'[p] = waiting[p]
      BY <1>4, <2>2 DEF Turns
    <3>2. ASSUME NEW x \in Range(waiting[h.from]) PROVE x \notin X
      <4>1. x.from = h.from
        BY <1>1, <1>2 DEF MsgInv
      <4> QED BY <1>16, <2>2, <4>1 DEF Copies
    <3>3. co = 0 /\ cw = 0
      <4>1. w \in Seq(Message) /\ o \in Seq(Message)
        BY <1>2, <1>4, <1>5
      <4>2. (\A x \in Range(w) : x \notin X) /\ (\A x \in Range(o) : x \notin X)
        BY <1>2, <1>5, <3>2
      <4>3. HowMany(w, X) = 0 /\ HowMany(o, X) = 0
        BY <4>1, <4>2, CountNone
      <4> QED BY <1>12, <4>3
    <3>4. cv = pw
      BY <1>7, <1>8, <1>16, <1>10, <3>1
    <3>5. cu + co = cw + b + ct
      BY <1>12
    <3> QED BY ONLY <3>3, <3>4, <3>5, cu \in Nat, cv \in Nat, pw \in Nat, co \in Nat, cw \in Nat, ct \in Nat,
                    b \in {0, 1}
  <2> QED BY <2>1, <2>2
<1>14. Places(p, n)' = po + m + cu + cv + g + d + L
  BY <1>3, <1>7, <1>8, <1>16, <1>10 DEF Places
<1>15. po + m + cu + cv + g + d + L = po + m + q + pw + g + d + L
  BY ONLY <1>11, <1>13, po \in Nat, m \in Nat, q \in Nat, pw \in Nat, g \in Nat, d \in Nat, cu \in Nat,
          cv \in Nat, ct \in Nat, b \in {0, 1}, L \in {0, 1}
<1> QED BY <1>7, <1>14, <1>15

\* What a rotation releases comes before its message, and that before the rest of the batch.
LEMMA TurnOrder ==
  ASSUME SyncInv, NEW h, NEW t, Turns(h, t)
  PROVE  OrderInv' /\ DeliveryInv'
<1>1. SyncTypeOK /\ MsgInv /\ OrderInv /\ DeliveryInv
  BY DEF SyncInv
<1>2. /\ h \in InFlight /\ h \in Stored /\ h \in Message /\ h.from \in Peers
      /\ h.key \in Nat \ {0} /\ h.id \in Nat \ {0}
      /\ t \in Seq(Message) /\ Range(queue) = {h} \cup Range(t)
      /\ InnerOf(h) \in Message /\ InnerOf(h).from = h.from /\ InnerOf(h).id = h.id
      /\ InnerOf(h).key = h.key
      /\ waiting' \in [Peers -> Seq(Message)]
      /\ Range(queue') = Freed(h) \cup {InnerOf(h)} \cup Range(t)
      /\ Waiting' \subseteq Waiting
      /\ InFlight' \subseteq InFlight \cup {InnerOf(h)}
      /\ Stored' = Freed(h) \cup {InnerOf(h)} \cup (Range(t) \cup Range(opens) \cup Range(mailbox))
      /\ Stored = {h} \cup (Range(t) \cup Range(opens) \cup Range(mailbox))
  BY TurnSets
<1>3. UNCHANGED <<messages, opens, mailbox, delivered, disturbed>> /\ IsFirst(h, t)
  BY DEF Turns
<1>4. Placed' = Placed
  BY <1>3 DEF Placed
<1>5. Freed(h) \cap Placed = {} /\ \A m \in Freed(h) : m.key # 0
  BY TurnFreed
<1>6. InnerOf(h) \in Placed => h \in Placed
  BY <1>2, PlacedIs DEF Placed
<1>7. /\ Ordered(queue, Placed) /\ Ordered(opens, Placed) /\ Ordered(mailbox, Placed)
      /\ Ordered(messages, Placed)
      /\ Precede(Range(queue), Range(opens) \cup Range(mailbox), Placed)
      /\ Precede(Range(opens), Range(mailbox), Placed)
      /\ Precede(Range(messages) \cup Waiting, Stored, Placed)
  BY <1>1 DEF OrderInv
<1>8. Ordered(t, Placed) /\ Precede({h}, Range(t), Placed)
  <2>1. \A Z : Ordered(queue, Z) => Ordered(t, Z) /\ Precede({h}, Range(t), Z)
    BY <1>1, <1>3, FirstFacts
  <2> QED BY <1>7, <2>1
<1>9. Precede({InnerOf(h)}, Range(t), Placed)
  BY <1>2, <1>6, <1>8 DEF Precede
<1>10. Ordered(queue', Placed)
  <2>1. PICK w, i, k, u, o : w = waiting[h.from] /\ i = InnerOf(h) /\ k = h.next /\ u = queue' /\ o = waiting'[h.from]
    OBVIOUS
  <2>2. waiting \in [Peers -> Seq(Message)]
    BY <1>1 DEF SyncTypeOK
  <2>3. u = (Reverse(WithKey(w, k)) \o <<i>>) \o t /\ o = WithoutKey(w, k)
    BY <1>2, <2>1, <2>2 DEF Turns
  <2>4. Splices(u, o, w, k, i, t)
    BY <2>3 DEF Splices
  <2>5. w \in Seq(Message) /\ i \in Message /\ t \in Seq(Message)
    BY <1>2, <2>1, <2>2
  <2>6. OrderAdds(u, w, k, i, t)
    BY ONLY <2>4, <2>5, Releases
  <2>7. ByKey(w, k) = Freed(h)
    BY <2>1 DEF Freed
  <2> QED BY <1>5, <1>8, <1>9, <2>1, <2>6, <2>7 DEF OrderAdds
<1>11. Precede(Range(queue'), Range(opens) \cup Range(mailbox), Placed)
  <2>1. ASSUME NEW x \in Range(queue'), NEW y \in Range(opens) \cup Range(mailbox), x \in Placed, y \in Placed,
               x.from = y.from
        PROVE  x.id < y.id
    <3>1. x \in Range(t) \/ x = InnerOf(h)
      BY <1>2, <1>5, <2>1
    <3> QED BY <1>2, <1>6, <1>7, <2>1, <3>1 DEF Precede
  <2> QED BY <2>1 DEF Precede
<1>12. Precede(Range(messages) \cup Waiting', Stored', Placed)
  <2>1. ASSUME NEW x \in Range(messages) \cup Waiting', NEW y \in Stored', x \in Placed, y \in Placed,
               x.from = y.from
        PROVE  x.id < y.id
    <3>1. y \in Stored \/ y = InnerOf(h)
      BY <1>2, <1>5, <2>1
    <3>2. x \in Range(messages) \cup Waiting
      BY <1>2
    <3> QED BY <1>2, <1>6, <1>7, <2>1, <3>1, <3>2 DEF Precede
  <2> QED BY <2>1 DEF Precede
<1>13. OrderInv'
  BY <1>3, <1>4, <1>7, <1>10, <1>11, <1>12 DEF OrderInv
<1>14. DeliveryInv'
  <2>1. ASSUME NEW y \in Stored' \cup Range(messages'), y.from \notin disturbed'
        PROVE  \E x \in Stored \cup Range(messages) : x.from = y.from /\ x.id = y.id
    <3>1. CASE y \in Freed(h)
      <4>1. y \in Message
        <5>1. Freed(h) \subseteq Waiting
          BY TurnSets
        <5> QED BY <1>1, <3>1, <5>1, FlightType
      <4>2. y \in Placed
        BY <1>3, <2>1, <4>1, PlacedIs DEF Placed
      <4> QED BY <1>5, <3>1, <4>2
    <3>2. CASE y = InnerOf(h)
      BY <1>2, <3>2
    <3>3. CASE y \in Stored \cup Range(messages)
      BY <3>3
    <3> QED BY <1>2, <1>3, <3>1, <3>2, <3>3
  <2>2. \A m \in InFlight' : m.key = 0 => m \in InFlight
    BY <1>2
  <2> QED BY <1>1, <1>3, <2>1, <2>2, DeliveryFewer
<1> QED BY <1>13, <1>14

\* The key that a rotation brings is introduced by it, then known.
LEMMA TurnLoss ==
  ASSUME SyncInv, NEW h, NEW t, Turns(h, t)
  PROVE  LossInv'
<1>1. SyncTypeOK /\ MsgInv /\ OrderInv /\ LossInv
  BY DEF SyncInv
<1>2. /\ h \in InFlight /\ h \in Message /\ h.from \in Peers
      /\ h.key \in Nat \ {0} /\ h.id \in Nat \ {0} /\ h.next = h.id /\ h.key < h.id /\ h.key = sess[h.from]
      /\ Range(queue) = {h} \cup Range(t)
      /\ InnerOf(h).from = h.from /\ InnerOf(h).key = h.key
      /\ \A p \in Peers : waiting[p] = <<>> => waiting'[p] = <<>>
      /\ InFlight' \subseteq InFlight \cup {InnerOf(h)} /\ InFlight \subseteq InFlight' \cup {h}
  BY TurnSets
<1>3. UNCHANGED <<mailbox, key, lost, disturbed, failed, stops>>
  BY DEF Turns
<1>4. /\ \A p \in Peers : sess'[p] = IF p = h.from THEN h.next ELSE sess[p]
      /\ \A p \in Peers : KeysOf(p)' = IF p = h.from THEN KeysOf(p) \cup {h.next} ELSE KeysOf(p)
  BY TurnKeys
<1>5. ASSUME stops = 0, NEW p \in Peers \ Unsure
      PROVE  /\ waiting'[p] = <<>> /\ \A c \in lost' : c.from # p
             /\ \A k \in KeysOf(p) : k \in KeysOf(p)'
             /\ h.from = p /\ h.next # 0 => h.next \in KeysOf(p)'
             /\ \A m \in Range(mailbox') : (m.from = p /\ m.key \in KeysOf(p)') => m.key = sess'[p]
  <2>1. /\ waiting[p] = <<>> /\ \A c \in lost : c.from # p
        /\ \A m \in Range(mailbox) : (m.from = p /\ m.key \in KeysOf(p)) => m.key = sess[p]
    BY <1>1, <1>5 DEF LossInv
  <2>2. ASSUME NEW m \in Range(mailbox'), m.from = p, m.key \in KeysOf(p)' PROVE m.key = sess'[p]
    <3>1. CASE p # h.from
      BY <1>3, <1>4, <2>1, <2>2, <3>1
    <3>2. CASE p = h.from
      <4>1. ASSUME m.key # h.next PROVE FALSE
        <5>1. m.key \in KeysOf(p)
          BY <1>4, <2>2, <3>2, <4>1
        <5>2. m.key = h.key
          BY <1>2, <1>3, <2>1, <2>2, <3>2, <5>1
        <5>3. m \in Range(mailbox) /\ m \in InFlight
          BY <1>3 DEF InFlight, Stored
        <5>4. m \in Message
          BY <1>1, <5>3, FlightType
        <5>5. m \in Placed /\ h \in Placed
          BY <1>2, <2>2, <3>2, <5>4, PlacedIs DEF Placed, Unsure
        <5>6. h.id < m.id
          BY <1>1, <1>2, <2>2, <3>2, <5>3, <5>5 DEF OrderInv, Precede
        <5>7. h.next <= m.key
          BY <1>1, <1>2, <2>2, <3>2, <5>2, <5>3, <5>6 DEF MsgInv
        <5> QED BY <1>2, <5>2, <5>7
      <4> QED BY <1>4, <3>2, <4>1
    <3> QED BY <3>1, <3>2
  <2> QED BY <1>2, <1>3, <1>4, <2>1, <2>2
<1>6. stops = 0 => NothingLost(h)
  BY <1>5 DEF NothingLost
<1>7. \A m \in InFlight' : \E x \in InFlight : x.from = m.from /\ x.key = m.key
  BY <1>2
<1> QED BY <1>1, <1>2, <1>3, <1>6, <1>7, LossMoves

\* The invariant is kept by a rotation.
LEMMA RotateStep ==
  ASSUME SyncInv, Rotate PROVE SyncInv' /\ \A p \in Peers : sess'[p] >= sess[p]
<1>1. PICK h, t : Turns(h, t)
  BY RotateTurns
<1>2. SyncTypeOK /\ PhaseInv /\ MsgInv /\ WaitInv
  BY DEF SyncInv
<1>3. /\ h \in Message /\ h.from \in Peers
      /\ h.key \in Nat \ {0} /\ h.id \in Nat \ {0} /\ h.next = h.id /\ h.key < h.id
      /\ h.key = sess[h.from]
      /\ Range(queue) = {h} \cup Range(t)
      /\ InnerOf(h).key = h.key
      /\ queue' \in Seq(Message) /\ waiting' \in [Peers -> Seq(Message)]
      /\ Range(queue') = Freed(h) \cup {InnerOf(h)} \cup Range(t)
      /\ \A p \in Peers : Range(waiting'[p]) \subseteq Range(waiting[p])
      /\ \A m \in Range(waiting'[h.from]) : m.key # h.next
  BY <1>1, TurnSets
<1>4. /\ KeyInv'
      /\ \A p \in Peers : sess'[p] = IF p = h.from THEN h.next ELSE sess[p]
      /\ \A p \in Peers : known'[p] = IF p = h.from THEN KeysOf(p) \cup {h.next} ELSE known[p]
      /\ \A p \in Peers : KeysOf(p)' = IF p = h.from THEN KeysOf(p) \cup {h.next} ELSE KeysOf(p)
  BY <1>1, TurnKeys
<1>5. /\ step \in Syncing /\ IsFirst(h, t)
      /\ known' = [known EXCEPT ![h.from] = KeysOf(h.from) \cup {h.next}]
      /\ sess' = [sess EXCEPT ![h.from] = h.next] /\ SaveKey(h.from, h.next)
      /\ UNCHANGED <<step, messages, pending, unknown, opens, mailbox, sent, key, openings, delivered, lost,
                     disturbed, overtakes, failed, gone, stops>>
  BY <1>1 DEF Turns
<1>6. SyncTypeOK'
  <2>1. /\ sess' \in [Peers -> Nat] /\ stored' \in [Peers -> SUBSET (Nat \ {0})]
        /\ \A q \in Peers : sess'[q] # 0 => sess'[q] \in stored'[q]
    BY <1>2, <1>3, <1>5, SavesType
  <2>2. known' \in [Peers -> SUBSET (Nat \ {0})]
    <3>1. KeysOf(h.from) \subseteq Nat \ {0} /\ known \in [Peers -> SUBSET (Nat \ {0})]
      BY <1>2, <1>3, KeysOfIs DEF SyncTypeOK
    <3> QED BY <1>3, <1>5, <3>1
  <2> QED BY <1>2, <1>3, <1>5, <2>1, <2>2 DEF SyncTypeOK
<1>7. PhaseInv'
  <2>1. step \notin {"off", "prekeys", "live", "resolve"}
    BY <1>2, <1>5 DEF PhaseInv, IsFirst
  <2>2. step # "initial"
    <3>1. h \in Range(queue)
      BY <1>3
    <3> QED BY <1>2, <1>3, <3>1 DEF PhaseInv
  <2>3. step \in Fetched
    BY <1>5, <2>1, <2>2 DEF Syncing, Fetched
  <2>4. \A m \in Range(queue') : m.key # 0
    <3>1. \A m \in Freed(h) : m.key # 0
      BY <1>1, TurnFreed
    <3>2. \A m \in Range(queue) : m.key # 0
      BY <1>2, <2>3 DEF PhaseInv
    <3> QED BY <1>3, <3>1, <3>2
  <2> QED BY <1>2, <1>5, <2>1, <2>2, <2>3, <2>4 DEF PhaseInv
<1>8. MsgInv' /\ CountInv' /\ OrderInv' /\ DeliveryInv' /\ LossInv'
  BY <1>1, TurnMsg, TurnCounts, TurnOrder, TurnLoss
<1>9. WaitInv'
  <2>1. ASSUME NEW p \in Peers, NEW m \in Range(waiting'[p])
        PROVE  m.key \notin known'[p] /\ known'[p] # {}
    <3>1. m \in Range(waiting[p])
      BY <1>3
    <3>2. m.key \notin known[p] /\ known[p] # {}
      BY <1>2, <1>5, <3>1 DEF WaitInv
    <3>3. KeysOf(p) = known[p]
      BY <3>2 DEF KeysOf
    <3>4. CASE p = h.from
      <4>1. m.key # h.next
        BY <1>3, <3>4
      <4>2. known'[p] = KeysOf(p) \cup {h.next}
        BY <1>4, <3>4
      <4> QED BY <3>2, <3>3, <4>1, <4>2
    <3>5. CASE p # h.from
      BY <1>4, <3>2, <3>5
    <3> QED BY <3>4, <3>5
  <2> QED BY <2>1 DEF WaitInv
<1>10. \A p \in Peers : sess'[p] >= sess[p]
  <2>1. \A p \in Peers : sess[p] \in Nat
    BY <1>2 DEF SyncTypeOK
  <2> QED BY <1>3, <1>4, <2>1
<1> QED BY <1>4, <1>6, <1>7, <1>8, <1>9, <1>10 DEF SyncInv
-----------------------------------------------------------------------------
(* What the client has in hand is dropped.                                 *)

\* The copies that the server or the client holds.
Held(p, n) ==
  HowMany(opens, Copies(p, n)) + HowMany(mailbox, Copies(p, n))
  + HowMany(queue, Copies(p, n)) + HowMany(waiting[p], Copies(p, n))
  + HowMany(messages, {[from |-> p, id |-> n]})

\* Counts are numbers, and Places is their sum.
LEMMA HeldType ==
  ASSUME SyncTypeOK, NEW p \in Peers, NEW n \in Nat
  PROVE  /\ Held(p, n) \in Nat /\ HowMany(delivered[p], {n}) \in Nat
         /\ Places(p, n) = Held(p, n) + HowMany(delivered[p], {n})
                           + IF [from |-> p, id |-> n] \in lost THEN 1 ELSE 0
<1>1. PICK o \in Nat, m \in Nat, q \in Nat, w \in Nat, g \in Nat, d \in Nat :
        /\ o = HowMany(opens, Copies(p, n)) /\ m = HowMany(mailbox, Copies(p, n))
        /\ q = HowMany(queue, Copies(p, n)) /\ w = HowMany(waiting[p], Copies(p, n))
        /\ g = HowMany(messages, {[from |-> p, id |-> n]}) /\ d = HowMany(delivered[p], {n})
  BY CountTypes
<1>2. Held(p, n) = o + m + q + w + g
  BY <1>1 DEF Held
<1>3. Places(p, n) = o + m + q + w + g + d + IF [from |-> p, id |-> n] \in lost THEN 1 ELSE 0
  BY <1>1 DEF Places
<1> QED BY <1>1, <1>2, <1>3

\* What is no longer held is lost, and nothing else is.
LEMMA DropCounts ==
  ASSUME SyncTypeOK, SyncTypeOK', CountInv, UNCHANGED <<sent, delivered>>, NEW S, lost' = lost \cup S,
         \A p \in Peers : \A n \in Nat \ {0} :
           \E b \in Nat : Held(p, n) = Held(p, n)' + b /\ (b # 0 <=> [from |-> p, id |-> n] \in S)
  PROVE  CountInv'
<1> SUFFICES ASSUME NEW p \in Peers, NEW n \in Nat \ {0} PROVE Places(p, n)' = Places(p, n)
  BY CountKeeps
<1>1. PICK b \in Nat : Held(p, n) = Held(p, n)' + b /\ (b # 0 <=> [from |-> p, id |-> n] \in S)
  OBVIOUS
<1>2. PICK L \in {0, 1}, M \in {0, 1} :
        /\ L = IF [from |-> p, id |-> n] \in lost THEN 1 ELSE 0
        /\ M = IF [from |-> p, id |-> n] \in lost' THEN 1 ELSE 0
  <2>1. /\ (IF [from |-> p, id |-> n] \in lost THEN 1 ELSE 0) \in {0, 1}
        /\ (IF [from |-> p, id |-> n] \in lost' THEN 1 ELSE 0) \in {0, 1}
    OBVIOUS
  <2> QED BY <2>1
<1>3. PICK H \in Nat, d \in Nat : H = Held(p, n) /\ d = HowMany(delivered[p], {n}) /\ Places(p, n) = H + d + L
  BY <1>2, HeldType
<1>4. PICK G \in Nat : G = Held(p, n)' /\ Places(p, n)' = G + d + M
  <2>1. /\ opens' \in Seq(Message) /\ mailbox' \in Seq(Message) /\ queue' \in Seq(Message)
        /\ waiting'[p] \in Seq(Message) /\ messages' \in Seq(Chats)
    BY DEF SyncTypeOK
  <2>2. PICK o \in Nat, m \in Nat, q \in Nat, w \in Nat, g \in Nat :
          /\ o = HowMany(opens', Copies(p, n)) /\ m = HowMany(mailbox', Copies(p, n))
          /\ q = HowMany(queue', Copies(p, n)) /\ w = HowMany(waiting'[p], Copies(p, n))
          /\ g = HowMany(messages', {[from |-> p, id |-> n]})
    <3>1. /\ HowMany(opens', Copies(p, n)) \in Nat /\ HowMany(mailbox', Copies(p, n)) \in Nat
          /\ HowMany(queue', Copies(p, n)) \in Nat
      BY <2>1, AtFinite
    <3>2. HowMany(waiting'[p], Copies(p, n)) \in Nat
      BY <2>1, AtFinite
    <3>3. HowMany(messages', {[from |-> p, id |-> n]}) \in Nat
      BY <2>1, AtFinite
    <3> QED BY <3>1, <3>2, <3>3
  <2>3. Held(p, n)' = o + m + q + w + g
    BY <2>2 DEF Held
  <2>4. HowMany(delivered'[p], {n}) = d
    BY <1>3
  <2>5. Places(p, n)' = o + m + q + w + g + d + M
    BY <1>2, <2>2, <2>4 DEF Places
  <2> QED BY <2>3, <2>5
<1>5. Places(p, n) \in {0, 1}
  BY DEF CountInv
<1>6. M = IF b # 0 THEN 1 ELSE L
  BY <1>1, <1>2
<1>7. H = G + b
  BY <1>1, <1>3, <1>4
<1>8. H + d + L = G + d + M
  BY ONLY <1>3, <1>5, <1>6, <1>7, H \in Nat, G \in Nat, d \in Nat, b \in Nat, L \in {0, 1}, M \in {0, 1}
<1> QED BY <1>3, <1>4, <1>8

\* A chat message is lost when one of the copies that carry it is.
LEMMA ChatsAre ==
  ASSUME NEW R \in SUBSET Message, NEW p \in Peers, NEW n \in Nat \ {0}
  PROVE  [from |-> p, id |-> n] \in ChatsIn(R) <=> \E x \in R : x \in Copies(p, n)
<1>1. \A x \in R : x \in Copies(p, n) <=> x.from = p /\ x.id = n
  BY CopiesAre
<1>2. \A x \in R : ChatMessage(x) = [from |-> p, id |-> n] <=> x.from = p /\ x.id = n
  BY CopiesAre
<1> QED BY <1>1, <1>2 DEF ChatsIn

\* The copies in the batch B, and in what the client has in hand.
LEMMA InHandIs ==
  ASSUME SyncTypeOK, MsgInv, NEW B \in Seq(Message), NEW p \in Peers, NEW n \in Nat \ {0}
  PROVE  \E a, q, w, g \in Nat :
           /\ a = HowMany(B, Copies(p, n)) /\ q = HowMany(queue, Copies(p, n))
           /\ w = HowMany(waiting[p], Copies(p, n)) /\ g = HowMany(messages, {[from |-> p, id |-> n]})
           /\ w # 0 <=> [from |-> p, id |-> n] \in ChatsIn(Waiting)
           /\ (a # 0 \/ q # 0 \/ w # 0 \/ g # 0) <=> [from |-> p, id |-> n] \in InHand \cup ChatsIn(Range(B))
<1>1. PICK a \in Nat, q \in Nat, w \in Nat, g \in Nat :
        /\ a = HowMany(B, Copies(p, n)) /\ q = HowMany(queue, Copies(p, n))
        /\ w = HowMany(waiting[p], Copies(p, n)) /\ g = HowMany(messages, {[from |-> p, id |-> n]})
  <2>1. HowMany(B, Copies(p, n)) \in Nat
    BY AtFinite
  <2> QED BY <2>1, CountTypes
<1>2. PICK c : c = [from |-> p, id |-> n]
  OBVIOUS
<1>3. /\ queue \in Seq(Message) /\ waiting[p] \in Seq(Message) /\ messages \in Seq(Chats)
      /\ Range(queue) \subseteq Message /\ Waiting \subseteq Message /\ Range(B) \subseteq Message
  BY FlightType, RangeIn
<1>4. a # 0 <=> c \in ChatsIn(Range(B))
  <2>1. HowMany(B, Copies(p, n)) = 0 <=> \A x \in Range(B) : x \notin Copies(p, n)
    BY CountNone
  <2> QED BY <1>1, <1>2, <1>3, <2>1, ChatsAre
<1>5. q # 0 <=> c \in ChatsIn(Range(queue))
  <2>1. HowMany(queue, Copies(p, n)) = 0 <=> \A x \in Range(queue) : x \notin Copies(p, n)
    BY <1>3, CountNone
  <2> QED BY <1>1, <1>2, <1>3, <2>1, ChatsAre
<1>6. w # 0 <=> c \in ChatsIn(Waiting)
  <2>1. HowMany(waiting[p], Copies(p, n)) = 0 <=> \A x \in Range(waiting[p]) : x \notin Copies(p, n)
    BY <1>3, CountNone
  <2>2. ASSUME NEW x \in Waiting, x \in Copies(p, n) PROVE x \in Range(waiting[p])
    <3>1. PICK r \in Peers : x \in Range(waiting[r])
      BY DEF Waiting
    <3>2. x.from = r /\ x.from = p
      BY <2>2, <3>1 DEF MsgInv, Copies
    <3> QED BY <3>1, <3>2
  <2>3. Range(waiting[p]) \subseteq Waiting
    BY DEF Waiting
  <2>4. (\E x \in Waiting : x \in Copies(p, n)) <=> \E x \in Range(waiting[p]) : x \in Copies(p, n)
    BY <2>2, <2>3
  <2>5. c \in ChatsIn(Waiting) <=> \E x \in Waiting : x \in Copies(p, n)
    BY <1>2, <1>3, ChatsAre
  <2> QED BY <1>1, <2>1, <2>4, <2>5
<1>7. g # 0 <=> c \in Range(messages)
  <2>1. HowMany(messages, {c}) = 0 <=> \A x \in Range(messages) : x \notin {c}
    BY <1>3, CountNone
  <2> QED BY <1>1, <1>2, <2>1
<1>8. ChatsIn(Range(queue) \cup Waiting) = ChatsIn(Range(queue)) \cup ChatsIn(Waiting)
  BY DEF ChatsIn
<1>9. c \in InHand \cup ChatsIn(Range(B)) <=>
        c \in ChatsIn(Range(queue)) \/ c \in ChatsIn(Waiting) \/ c \in Range(messages) \/ c \in ChatsIn(Range(B))
  BY <1>8 DEF InHand, Waiting
<1>11. (a # 0 \/ q # 0 \/ w # 0 \/ g # 0) <=> c \in InHand \cup ChatsIn(Range(B))
  BY ONLY <1>4, <1>5, <1>6, <1>7, <1>9
<1>12. /\ w # 0 <=> [from |-> p, id |-> n] \in ChatsIn(Waiting)
       /\ (a # 0 \/ q # 0 \/ w # 0 \/ g # 0) <=> [from |-> p, id |-> n] \in InHand \cup ChatsIn(Range(B))
  BY ONLY <1>2, <1>6, <1>11
<1> QED BY ONLY <1>1, <1>12, a \in Nat, q \in Nat, w \in Nat, g \in Nat
-----------------------------------------------------------------------------
(* The client stops, with the messages B that the server gave up.          *)

\* What the server still has of its store, when it gave B.
Gives(B) ==
  /\ B \in Seq(Message) /\ opens' \in Seq(Message) /\ mailbox' \in Seq(Message)
  /\ \A X : HowMany(opens, X) + HowMany(mailbox, X)
              = HowMany(B, X) + HowMany(opens', X) + HowMany(mailbox', X)
  /\ Range(opens') \cup Range(mailbox') \subseteq Range(opens) \cup Range(mailbox)
  /\ \A m \in Range(opens') : m.key = 0
  /\ \A m \in Range(mailbox') : m.key # 0
  /\ Ordered(opens', Placed') /\ Ordered(mailbox', Placed')
  /\ Precede(Range(opens'), Range(mailbox'), Placed')

\* A client that stops keeps the types.
LEMMA StopsType ==
  ASSUME SyncTypeOK, MsgInv, NEW B, Gives(B), StopsWith(ChatsIn(Range(B))),
         disturbed' \subseteq Peers, failed' \subseteq Peers, gone' \subseteq Deleted, stops' \in Nat,
         UNCHANGED <<sess, stored, unknown, sent, key, openings, delivered, overtakes>>,
         Range(B) \subseteq InFlight
  PROVE  SyncTypeOK'
<1>1. /\ step' = "off" /\ lost' = (lost \cup InHand) \cup ChatsIn(Range(B))
      /\ queue' = <<>> /\ messages' = <<>> /\ pending' = {}
      /\ waiting' = [p \in Peers |-> <<>>] /\ known' = [p \in Peers |-> {}]
  BY DEF StopsWith
<1>2. lost' \subseteq Chats
  <2>1. ASSUME NEW R \in SUBSET InFlight PROVE ChatsIn(R) \subseteq Chats
    <3>1. \A m \in InFlight : ChatMessage(m) \in Chats
      BY InFlightIs
    <3> QED BY <3>1 DEF ChatsIn
  <2>2. Range(queue) \cup Waiting \subseteq InFlight
    BY DEF InFlight, Stored
  <2>3. ChatsIn(Range(queue) \cup Waiting) \subseteq Chats /\ ChatsIn(Range(B)) \subseteq Chats
    BY <2>1, <2>2
  <2>4. Range(messages) \subseteq Chats /\ lost \subseteq Chats
    BY FlightType DEF SyncTypeOK
  <2> QED BY <1>1, <2>3, <2>4 DEF InHand, Waiting
<1>3. queue' \in Seq(Message) /\ messages' \in Seq(Chats) /\ waiting' \in [Peers -> Seq(Message)]
  BY <1>1
<1>4. known' \in [Peers -> SUBSET (Nat \ {0})]
  BY <1>1
<1>5. opens' \in Seq(Message) /\ mailbox' \in Seq(Message)
  BY DEF Gives
<1> QED BY <1>1, <1>2, <1>3, <1>4, <1>5 DEF SyncTypeOK

\* What a client has in hand when it stops is lost, and nothing else.
LEMMA StopsCounts ==
  ASSUME SyncTypeOK, SyncTypeOK', MsgInv, CountInv, NEW B, Gives(B), StopsWith(ChatsIn(Range(B))),
         UNCHANGED <<sent, delivered>>
  PROVE  CountInv'
<1>1. PICK S : S = InHand \cup ChatsIn(Range(B))
  OBVIOUS
<1>2. /\ lost' = lost \cup S /\ queue' = <<>> /\ messages' = <<>>
      /\ \A p \in Peers : waiting'[p] = <<>>
  BY <1>1 DEF StopsWith
<1>3. /\ B \in Seq(Message) /\ opens' \in Seq(Message) /\ mailbox' \in Seq(Message)
      /\ \A X : HowMany(opens, X) + HowMany(mailbox, X)
                  = HowMany(B, X) + HowMany(opens', X) + HowMany(mailbox', X)
  BY DEF Gives
<1>4. ASSUME NEW p \in Peers, NEW n \in Nat \ {0}
      PROVE  \E b \in Nat : Held(p, n) = Held(p, n)' + b /\ (b # 0 <=> [from |-> p, id |-> n] \in S)
  <2>1. PICK a, q, w, g \in Nat :
           /\ a = HowMany(B, Copies(p, n)) /\ q = HowMany(queue, Copies(p, n))
           /\ w = HowMany(waiting[p], Copies(p, n)) /\ g = HowMany(messages, {[from |-> p, id |-> n]})
           /\ w # 0 <=> [from |-> p, id |-> n] \in ChatsIn(Waiting)
           /\ (a # 0 \/ q # 0 \/ w # 0 \/ g # 0) <=> [from |-> p, id |-> n] \in InHand \cup ChatsIn(Range(B))
    BY ONLY SyncTypeOK, MsgInv, <1>3, p \in Peers, n \in Nat \ {0}, InHandIs
  <2>2. PICK o \in Nat, m \in Nat, r \in Nat, t \in Nat :
          /\ o = HowMany(opens, Copies(p, n)) /\ m = HowMany(mailbox, Copies(p, n))
          /\ r = HowMany(opens', Copies(p, n)) /\ t = HowMany(mailbox', Copies(p, n))
    <3>1. HowMany(opens', Copies(p, n)) \in Nat /\ HowMany(mailbox', Copies(p, n)) \in Nat
      BY <1>3, AtFinite
    <3> QED BY <3>1, CountTypes
  <2>3. o + m = a + r + t
    BY <1>3, <2>1, <2>2
  <2>4. Held(p, n) = o + m + q + w + g
    BY <2>1, <2>2 DEF Held
  <2>5. Held(p, n)' = r + t + 0 + 0 + 0
    <3>1. /\ HowMany(queue', Copies(p, n)) = 0 /\ HowMany(waiting'[p], Copies(p, n)) = 0
          /\ HowMany(messages', {[from |-> p, id |-> n]}) = 0
      BY <1>2, CountEmpty
    <3> QED BY <2>2, <3>1 DEF Held
  <2>6. PICK b \in Nat : b = a + q + w + g
    OBVIOUS
  <2>7. Held(p, n) = Held(p, n)' + b
    BY ONLY <2>3, <2>4, <2>5, <2>6, o \in Nat, m \in Nat, r \in Nat, t \in Nat, a \in Nat, q \in Nat,
            w \in Nat, g \in Nat
  <2>8. b # 0 <=> (a # 0 \/ q # 0 \/ w # 0 \/ g # 0)
    BY ONLY <2>6, a \in Nat, q \in Nat, w \in Nat, g \in Nat
  <2>9. b # 0 <=> [from |-> p, id |-> n] \in S
    BY ONLY <1>1, <2>1, <2>8
  <2> QED BY <2>6, <2>7, <2>9
<1> QED BY ONLY SyncTypeOK, SyncTypeOK', CountInv, UNCHANGED <<sent, delivered>>, <1>2, <1>4, DropCounts

\* All the stops, by what the server still has.
LEMMA StopsStep ==
  ASSUME SyncInv, NEW B, Gives(B), StopsWith(ChatsIn(Range(B))), Range(B) \subseteq InFlight,
         failed' \subseteq Peers, gone' \subseteq Deleted, stops' \in Nat, LossInv',
         UNCHANGED <<sess, stored, unknown, sent, key, openings, delivered, disturbed, overtakes>>
  PROVE  SyncInv'
<1>1. SyncTypeOK /\ MsgInv /\ CountInv /\ KeyInv /\ OrderInv /\ DeliveryInv
  BY DEF SyncInv
<1>2. /\ step' = "off" /\ queue' = <<>> /\ messages' = <<>> /\ pending' = {}
      /\ \A p \in Peers : waiting'[p] = <<>> /\ known'[p] = {}
  BY DEF StopsWith
<1>3. SyncTypeOK'
  <2>1. disturbed' \subseteq Peers
    BY <1>1 DEF SyncTypeOK
  <2> QED BY <1>1, <2>1, StopsType
<1>4. CountInv'
  BY ONLY <1>1, <1>3, Gives(B), StopsWith(ChatsIn(Range(B))), UNCHANGED <<sent, delivered>>, StopsCounts
<1>5. /\ Range(opens') \cup Range(mailbox') \subseteq Range(opens) \cup Range(mailbox)
      /\ \A m \in Range(opens') : m.key = 0
      /\ \A m \in Range(mailbox') : m.key # 0
      /\ Ordered(opens', Placed') /\ Ordered(mailbox', Placed')
      /\ Precede(Range(opens'), Range(mailbox'), Placed')
  BY DEF Gives
<1>6. Range(queue') = {} /\ Range(messages') = {} /\ \A p \in Peers : Range(waiting'[p]) = {}
  BY <1>2, RangeOne
<1>7. Waiting' = {} /\ Stored' \subseteq Stored /\ InFlight' \subseteq InFlight
  <2>1. Waiting' = {}
    BY <1>6 DEF Waiting
  <2>2. Stored' \subseteq Stored
    BY <1>5, <1>6 DEF Stored
  <2> QED BY <2>1, <2>2 DEF InFlight
<1>8. PhaseInv'
  <2>1. "off" \notin Fetched
    BY DEF Fetched
  <2> QED BY <1>2, <1>5, <2>1 DEF PhaseInv
<1>9. MsgInv'
  BY <1>1, <1>6, <1>7, MsgKeeps
<1>10. WaitInv'
  BY <1>2 DEF WaitInv, Syncing
<1>11. KeyInv'
  BY <1>1, <1>2, <1>7, KeyKeeps
<1>12. OrderInv'
  <2>1. Ordered(queue', Placed') /\ Ordered(messages', Placed')
    BY <1>2, OrderedOne
  <2> QED BY <1>5, <1>6, <1>7, <2>1 DEF OrderInv, Precede
<1>13. DeliveryInv'
  BY <1>1, <1>6, <1>7, DeliveryFewer
<1> QED BY <1>3, <1>4, <1>8, <1>9, <1>10, <1>11, <1>12, <1>13 DEF SyncInv

\* A client that stops in these steps has nothing in hand of a peer whose key it knows
\* to come, and leaves its messages with the server.
LEMMA DropsLoss ==
  ASSUME SyncInv, step \in {"resolve", "live"}, NEW B, Gives(B), StopsWith(ChatsIn(Range(B))),
         UNCHANGED <<sess, key, disturbed, stops>>,
         failed \subseteq failed', \A m \in Range(B) : m.from \in failed',
         Range(opens) \cup Range(mailbox) \subseteq Range(opens') \cup Range(mailbox') \cup Range(B)
  PROVE  LossInv'
<1>1. SyncTypeOK /\ PhaseInv /\ MsgInv /\ KeyInv /\ LossInv
  BY DEF SyncInv
<1>2. /\ lost' = lost \cup InHand \cup ChatsIn(Range(B)) /\ queue' = <<>>
      /\ \A p \in Peers : waiting'[p] = <<>> /\ known'[p] = {}
  BY DEF StopsWith
<1>3. Range(queue) = {} /\ Range(messages) = {}
  BY <1>1, RangeOne DEF PhaseInv
<1>4. Range(queue') = {} /\ Waiting' = {}
  <2>1. Range(queue') = {} /\ \A p \in Peers : Range(waiting'[p]) = {}
    BY <1>2, RangeOne
  <2> QED BY <2>1 DEF Waiting
<1>5. /\ Range(opens') \cup Range(mailbox') \subseteq Range(opens) \cup Range(mailbox)
      /\ \A m \in Range(opens') : m.key = 0
  BY DEF Gives
<1> SUFFICES ASSUME stops = 0, NEW p \in Peers \ Unsure'
             PROVE  /\ waiting'[p] = <<>> /\ \A c \in lost' : c.from # p
                    /\ key'[p] # 0 => Introduced(p, key[p])'
                    /\ \A m \in InFlight' : (m.from = p /\ m.key # 0) => Introduced(p, m.key)'
                    /\ \A m \in Range(mailbox') : (m.from = p /\ m.key \in KeysOf(p)') => m.key = sess'[p]
  BY DEF LossInv
<1>6. p \in Peers \ Unsure /\ p \notin failed' /\ p \notin disturbed
  BY DEF Unsure
<1>7. /\ waiting[p] = <<>> /\ \A c \in lost : c.from # p
      /\ key[p] # 0 => Introduced(p, key[p])
      /\ \A m \in InFlight : (m.from = p /\ m.key # 0) => Introduced(p, m.key)
      /\ \A m \in Range(mailbox) : (m.from = p /\ m.key \in KeysOf(p)) => m.key = sess[p]
  BY <1>1, <1>6 DEF LossInv
<1>8. \A m \in Waiting : m.from # p
  <2>1. ASSUME NEW q \in Peers, NEW m \in Range(waiting[q]), m.from = p PROVE FALSE
    <3>1. q = p
      BY <1>1, <2>1 DEF MsgInv
    <3> QED BY <1>7, <2>1, <3>1, RangeOne
  <2> QED BY <2>1 DEF Waiting
<1>9. \A c \in lost' : c.from # p
  <2>1. InHand = ChatsIn(Waiting)
    BY <1>3 DEF InHand, Waiting
  <2>2. \A m \in Waiting \cup Range(B) : m.from # p
    BY <1>6, <1>8
  <2>3. \A c \in ChatsIn(Waiting) \cup ChatsIn(Range(B)) : c.from # p
    BY <2>2 DEF ChatsIn, ChatMessage
  <2> QED BY <1>2, <1>7, <2>1, <2>3
<1>10. KeysOf(p)' = IF sess[p] # 0 THEN {sess[p]} ELSE {}
  BY <1>2, <1>6 DEF KeysOf
<1>11. ASSUME NEW k, k # 0, Introduced(p, k), k \in KeysOf(p) => k = sess[p] PROVE Introduced(p, k)'
  <2>1. CASE k \in KeysOf(p)
    BY <1>10, <1>11, <2>1 DEF Introduced
  <2>2. CASE \E b \in InFlight : b.from = p /\ b.next = k
    <3>1. PICK b \in InFlight : b.from = p /\ b.next = k
      BY <2>2
    <3>2. b \in Range(opens) \cup Range(mailbox)
      BY <1>3, <1>8, <3>1 DEF InFlight, Stored
    <3>3. b \in Range(opens') \cup Range(mailbox')
      BY <1>6, <3>1, <3>2
    <3> QED BY <3>1, <3>3 DEF Introduced, InFlight, Stored
  <2> QED BY <1>11, <2>1, <2>2 DEF Introduced
<1>12. key'[p] # 0 => Introduced(p, key[p])'
  <2>1. PICK k : k = key[p]
    OBVIOUS
  <2>2. k \in KeysOf(p) => k = sess[p]
    <3>1. /\ k \in Nat /\ sess[p] \in Nat /\ sess[p] <= k
          /\ \A j \in KeysOf(p) : j <= sess[p]
      BY <1>1, <1>6, <2>1, KeysOfIs DEF SyncTypeOK, KeyInv
    <3> QED BY <3>1
  <2>3. k # 0 => Introduced(p, k)'
    BY <1>7, <1>11, <2>1, <2>2
  <2> QED BY <2>1, <2>3 DEF Introduced
<1>13. ASSUME NEW m \in InFlight', m.from = p, m.key # 0 PROVE Introduced(p, m.key)'
  <2>1. m \in Range(mailbox)
    <3>1. m \in Range(mailbox')
      BY <1>4, <1>5, <1>13 DEF InFlight, Stored
    <3>2. \A x \in Range(opens) : x.from # p
      <4>1. step = "live" => Range(opens) = {}
        BY <1>1, RangeOne DEF PhaseInv
      <4>2. step = "resolve" => \A x \in Range(opens) : x.from \in disturbed
        BY <1>1 DEF PhaseInv, Fetched
      <4> QED BY <1>6, <4>1, <4>2
    <3> QED BY <1>5, <1>13, <3>1, <3>2
  <2>2. Introduced(p, m.key)
    BY <1>7, <1>13, <2>1 DEF InFlight, Stored
  <2> QED BY <1>7, <1>11, <1>13, <2>1, <2>2
<1>14. \A m \in Range(mailbox') : (m.from = p /\ m.key \in KeysOf(p)') => m.key = sess'[p]
  BY <1>10
<1> QED BY <1>2, <1>6, <1>9, <1>12, <1>13, <1>14
-----------------------------------------------------------------------------
(* The steps that stop the client.                                         *)

\* The openings of what the server relayed, and the rest.
LEMMA Parted ==
  ASSUME NEW s \in Seq(Message), NEW a, NEW b, a = WithKey(s, 0), b = WithoutKey(s, 0)
  PROVE  /\ a \in Seq(Message) /\ b \in Seq(Message)
         /\ Range(a) = {m \in Range(s) : m.key = 0} /\ Range(b) = {m \in Range(s) : m.key # 0}
         /\ \A X : HowMany(a, X) \in Nat /\ HowMany(b, X) \in Nat /\ HowMany(s, X) \in Nat
                   /\ HowMany(a, X) + HowMany(b, X) = HowMany(s, X)
         /\ \A X : Ordered(s, X) => Ordered(a, X) /\ Ordered(b, X)
<1>1. /\ a \in Seq(Message) /\ b \in Seq(Message)
      /\ Range(a) = {m \in Range(s) : m.key = 0} /\ Range(b) = {m \in Range(s) : m.key # 0}
  BY CountByKey
<1>2. ASSUME NEW X
      PROVE  HowMany(a, X) \in Nat /\ HowMany(b, X) \in Nat /\ HowMany(s, X) \in Nat
             /\ HowMany(a, X) + HowMany(b, X) = HowMany(s, X)
  <2>1. HowMany(a, X) \in Nat /\ HowMany(b, X) \in Nat /\ HowMany(s, X) \in Nat
    BY <1>1, AtFinite
  <2> QED BY <2>1, CountByKey
<1>3. ASSUME NEW X, Ordered(s, X) PROVE Ordered(a, X) /\ Ordered(b, X)
  BY <1>3, OrderedByKey
<1> QED BY ONLY <1>1, <1>2, <1>3

\* The opening of an undisturbed peer is the first message it sent.
LEMMA OpeningFirst ==
  ASSUME SyncInv, NEW A \in SUBSET InFlight, NEW B \in SUBSET InFlight,
         \A m \in A : m.key = 0, \A m \in B : m.key # 0
  PROVE  Precede(A, B, Placed)
<1> SUFFICES ASSUME NEW a \in A, NEW b \in B, a \in Placed, b \in Placed, a.from = b.from PROVE a.id < b.id
  BY DEF Precede
<1>1. SyncTypeOK /\ MsgInv /\ DeliveryInv
  BY DEF SyncInv
<1>2. /\ a.from \in Peers /\ b.from \in Peers /\ b.key \in Nat /\ b.id \in Nat /\ b.key < b.id /\ b \in Message
  BY <1>1, InFlightIs
<1>3. b.from \notin disturbed
  BY <1>2, PlacedIs DEF Placed
<1>4. a.id = 1
  BY <1>1, <1>2, <1>3 DEF DeliveryInv
<1> QED BY <1>2, <1>4

\* The invariant is kept by a stop.
LEMMA StopStep ==
  ASSUME SyncInv, Stop PROVE SyncInv'
<1>1. /\ step # "off" /\ stops' = stops + 1 /\ StopsWith({})
      /\ IF step = "live" THEN OpeningsBack ELSE UNCHANGED <<opens, mailbox>>
      /\ UNCHANGED <<sess, stored, unknown, sent, key, openings, delivered, disturbed, failed, gone, overtakes>>
  BY DEF Stop, storage, server, peers
<1>2. SyncTypeOK /\ PhaseInv /\ OrderInv
  BY DEF SyncInv
<1>3. stops' \in Nat /\ failed' \subseteq Peers /\ gone' \subseteq Deleted /\ LossInv'
  <2>1. stops' \in Nat /\ stops' # 0 /\ failed' \subseteq Peers /\ gone' \subseteq Deleted
    BY <1>1, <1>2 DEF SyncTypeOK
  <2> QED BY <2>1 DEF LossInv
<1>4. PICK B : B = <<>>
  OBVIOUS
<1>5. B \in Seq(Message) /\ Range(B) = {} /\ ChatsIn(Range(B)) = {} /\ \A X : HowMany(B, X) = 0
  BY <1>4, RangeOne, CountEmpty DEF ChatsIn
<1>6. Gives(B)
  <2>1. Placed' = Placed
    BY <1>1 DEF Placed
  <2>2. opens \in Seq(Message) /\ mailbox \in Seq(Message) /\ Range(mailbox) \subseteq InFlight
    BY <1>2 DEF SyncTypeOK, InFlight, Stored
  <2>3. \A X : HowMany(opens, X) \in Nat /\ HowMany(mailbox, X) \in Nat
    BY <2>2, AtFinite
  <2>4. CASE step = "live"
    <3>1. opens = <<>> /\ Range(opens) = {} /\ \A X : HowMany(opens, X) = 0
      BY <1>2, <2>4, RangeOne, CountEmpty DEF PhaseInv
    <3>2. PICK s, a, b : s = mailbox /\ a = opens' /\ b = mailbox'
      OBVIOUS
    <3>3. s \in Seq(Message) /\ a = WithKey(s, 0) /\ b = WithoutKey(s, 0)
      BY <1>1, <2>2, <2>4, <3>2 DEF OpeningsBack
    <3>4. /\ a \in Seq(Message) /\ b \in Seq(Message)
          /\ Range(a) = {m \in Range(s) : m.key = 0} /\ Range(b) = {m \in Range(s) : m.key # 0}
          /\ \A X : HowMany(a, X) \in Nat /\ HowMany(b, X) \in Nat /\ HowMany(s, X) \in Nat
                    /\ HowMany(a, X) + HowMany(b, X) = HowMany(s, X)
          /\ \A X : Ordered(s, X) => Ordered(a, X) /\ Ordered(b, X)
      BY ONLY <3>3, Parted
    <3>5. Ordered(a, Placed) /\ Ordered(b, Placed)
      BY <1>2, <3>2, <3>4 DEF OrderInv
    <3>6. Precede(Range(a), Range(b), Placed)
      <4>1. Range(a) \subseteq InFlight /\ Range(b) \subseteq InFlight
        BY <2>2, <3>2, <3>4
      <4>2. (\A m \in Range(a) : m.key = 0) /\ (\A m \in Range(b) : m.key # 0)
        BY <3>4
      <4> QED BY ONLY SyncInv, <4>1, <4>2, OpeningFirst
    <3>7. \A X : HowMany(opens, X) + HowMany(mailbox, X)
                   = HowMany(B, X) + HowMany(opens', X) + HowMany(mailbox', X)
      <4> SUFFICES ASSUME NEW X
                   PROVE  HowMany(opens, X) + HowMany(s, X) = HowMany(B, X) + HowMany(a, X) + HowMany(b, X)
        BY <3>2
      <4>1. HowMany(opens, X) = 0 /\ HowMany(B, X) = 0
        BY <1>5, <3>1
      <4>2. /\ HowMany(a, X) \in Nat /\ HowMany(b, X) \in Nat /\ HowMany(s, X) \in Nat
            /\ HowMany(a, X) + HowMany(b, X) = HowMany(s, X)
        BY <3>4
      <4> QED BY ONLY <4>1, <4>2
    <3> QED BY <1>5, <2>1, <3>2, <3>4, <3>5, <3>6, <3>7 DEF Gives
  <2>5. CASE step # "live"
    <3>1. opens' = opens /\ mailbox' = mailbox
      BY <1>1, <2>5
    <3>2. \A X : HowMany(opens, X) + HowMany(mailbox, X)
                   = HowMany(B, X) + HowMany(opens, X) + HowMany(mailbox, X)
      BY <1>5, <2>3
    <3>3. (\A m \in Range(opens) : m.key = 0) /\ (\A m \in Range(mailbox) : m.key # 0)
      BY <1>2, <2>5 DEF PhaseInv
    <3>4. Ordered(opens, Placed) /\ Ordered(mailbox, Placed) /\ Precede(Range(opens), Range(mailbox), Placed)
      BY <1>2 DEF OrderInv
    <3> QED BY <1>5, <2>1, <2>2, <3>1, <3>2, <3>3, <3>4 DEF Gives
  <2> QED BY <2>4, <2>5
<1> QED BY <1>1, <1>3, <1>5, <1>6, StopsStep

\* The invariant is kept by a lost batch.
LEMMA AnswerLostStep ==
  ASSUME SyncInv, AnswerLost PROVE SyncInv'
<1>1. PICK s, B, r : /\ s = (IF step = "initial" THEN opens ELSE mailbox)
                     /\ B = Batch(s) /\ r = Rest(s)
  OBVIOUS
<1>2. /\ step \in {"initial", "messages"} /\ stops' = stops + 1 /\ StopsWith(ChatsIn(Range(B)))
      /\ opens' = IF step = "initial" THEN r ELSE opens
      /\ mailbox' = IF step = "messages" THEN r ELSE mailbox
      /\ UNCHANGED <<sess, stored, unknown, sent, key, openings, delivered, disturbed, failed, gone, overtakes>>
  BY <1>1 DEF AnswerLost, storage, peers
<1>3. SyncTypeOK /\ PhaseInv /\ OrderInv
  BY DEF SyncInv
<1>4. stops' \in Nat /\ failed' \subseteq Peers /\ gone' \subseteq Deleted /\ LossInv'
  <2>1. stops' \in Nat /\ stops' # 0 /\ failed' \subseteq Peers /\ gone' \subseteq Deleted
    BY <1>2, <1>3 DEF SyncTypeOK
  <2> QED BY <2>1 DEF LossInv
<1>5. s \in Seq(Message) /\ opens \in Seq(Message) /\ mailbox \in Seq(Message)
  BY <1>1, <1>3 DEF SyncTypeOK
<1>6. /\ B \in Seq(Message) /\ r \in Seq(Message) /\ Range(s) = Range(B) \cup Range(r)
      /\ \A X : HowMany(s, X) = HowMany(B, X) + HowMany(r, X)
      /\ \A X : Ordered(s, X) => /\ Ordered(B, X) /\ Ordered(r, X)
                                 /\ Precede(Range(B), Range(r), X)
  BY ONLY <1>1, <1>5, BatchCut
<1>7. /\ \A X : HowMany(B, X) \in Nat /\ HowMany(r, X) \in Nat
      /\ \A X : HowMany(opens, X) \in Nat /\ HowMany(mailbox, X) \in Nat
  <2>1. \A X : HowMany(B, X) \in Nat
    BY <1>6, AtFinite
  <2>2. \A X : HowMany(r, X) \in Nat
    BY <1>6, AtFinite
  <2>3. \A X : HowMany(opens, X) \in Nat
    BY <1>5, AtFinite
  <2>4. \A X : HowMany(mailbox, X) \in Nat
    BY <1>5, AtFinite
  <2> QED BY <2>1, <2>2, <2>3, <2>4
<1>8. /\ Ordered(opens, Placed) /\ Ordered(mailbox, Placed) /\ Precede(Range(opens), Range(mailbox), Placed)
      /\ \A m \in Range(opens) : m.key = 0
      /\ \A m \in Range(mailbox) : m.key # 0
  BY <1>2, <1>3 DEF OrderInv, PhaseInv
<1>9. Ordered(r, Placed)
  BY <1>1, <1>6, <1>8
<1>10. Placed' = Placed
  BY <1>2 DEF Placed
<1>11. Gives(B) /\ Range(B) \subseteq InFlight
  <2>1. CASE step = "initial"
    <3>1. s = opens /\ opens' = r /\ mailbox' = mailbox
      BY <1>1, <1>2, <2>1
    <3>2. \A X : HowMany(opens, X) + HowMany(mailbox, X)
                   = HowMany(B, X) + HowMany(r, X) + HowMany(mailbox, X)
      BY <1>6, <1>7, <3>1
    <3>3. Range(r) \subseteq Range(opens) /\ Range(B) \subseteq Range(opens)
      BY <1>6, <3>1
    <3>4. Precede(Range(r), Range(mailbox), Placed)
      BY <1>8, <3>3 DEF Precede
    <3> QED BY <1>5, <1>6, <1>8, <1>9, <1>10, <3>1, <3>2, <3>3, <3>4 DEF Gives, InFlight, Stored
  <2>2. CASE step = "messages"
    <3>1. s = mailbox /\ mailbox' = r /\ opens' = opens
      BY <1>1, <1>2, <2>2
    <3>2. \A X : HowMany(opens, X) + HowMany(mailbox, X)
                   = HowMany(B, X) + HowMany(opens, X) + HowMany(r, X)
      BY <1>6, <1>7, <3>1
    <3>3. Range(r) \subseteq Range(mailbox) /\ Range(B) \subseteq Range(mailbox)
      BY <1>6, <3>1
    <3>4. Precede(Range(opens), Range(r), Placed)
      BY <1>8, <3>3 DEF Precede
    <3> QED BY <1>5, <1>6, <1>8, <1>9, <1>10, <3>1, <3>2, <3>3, <3>4 DEF Gives, InFlight, Stored
  <2> QED BY <1>2, <2>1, <2>2
<1> QED BY <1>2, <1>4, <1>11, StopsStep

\* The invariant is kept by a synchronization that fails.
LEMMA ResolveFailsStep ==
  ASSUME SyncInv, ResolveFails PROVE SyncInv'
<1>1. /\ step = "resolve" /\ ToResolve \in Deleted /\ gone' = gone \cup {ToResolve} /\ StopsWith({})
      /\ UNCHANGED <<sess, stored, unknown, opens, mailbox, sent, key, openings, delivered, disturbed,
                     failed, overtakes, stops>>
  BY DEF ResolveFails, storage, server, counters
<1>2. SyncTypeOK /\ PhaseInv /\ OrderInv
  BY DEF SyncInv
<1>3. PICK B : B = <<>>
  OBVIOUS
<1>4. B \in Seq(Message) /\ Range(B) = {} /\ ChatsIn(Range(B)) = {} /\ \A X : HowMany(B, X) = 0
  BY <1>3, RangeOne, CountEmpty DEF ChatsIn
<1>5. Gives(B)
  <2>1. opens \in Seq(Message) /\ mailbox \in Seq(Message)
    BY <1>2 DEF SyncTypeOK
  <2>2. \A X : HowMany(opens, X) \in Nat /\ HowMany(mailbox, X) \in Nat
    BY <2>1, AtFinite
  <2>3. \A X : HowMany(opens, X) + HowMany(mailbox, X)
                 = HowMany(B, X) + HowMany(opens, X) + HowMany(mailbox, X)
    BY <1>4, <2>2
  <2>4. (\A m \in Range(opens) : m.key = 0) /\ (\A m \in Range(mailbox) : m.key # 0)
    BY <1>1, <1>2 DEF PhaseInv
  <2>5. Placed' = Placed
    BY <1>1 DEF Placed
  <2>6. Ordered(opens, Placed) /\ Ordered(mailbox, Placed) /\ Precede(Range(opens), Range(mailbox), Placed)
    BY <1>2 DEF OrderInv
  <2> QED BY <1>1, <1>4, <2>1, <2>3, <2>4, <2>5, <2>6 DEF Gives
<1>6. stops' \in Nat /\ failed' \subseteq Peers /\ gone' \subseteq Deleted
  BY <1>1, <1>2 DEF SyncTypeOK
<1>7. LossInv'
  BY <1>1, <1>4, <1>5, DropsLoss
<1> QED BY <1>1, <1>4, <1>5, <1>6, <1>7, StopsStep

\* The invariant is kept by a worker that stops.
LEMMA LiveStopsStep ==
  ASSUME SyncInv, LiveStops PROVE SyncInv'
<1>1. PICK h, t : h = Head(mailbox) /\ t = Tail(mailbox)
  OBVIOUS
<1>2. /\ step = "live" /\ mailbox # <<>> /\ StopsWith(ChatsIn({h}))
      /\ failed' = failed \cup {h.from}
      /\ opens' = WithKey(t, 0) /\ mailbox' = WithoutKey(t, 0)
      /\ UNCHANGED <<sess, stored, unknown, sent, key, openings, delivered, disturbed, overtakes, gone, stops>>
  BY <1>1 DEF LiveStops, Relays, storage, peers
<1>3. SyncTypeOK /\ PhaseInv /\ OrderInv
  BY DEF SyncInv
<1>4. PICK s, a, b, B : s = mailbox /\ a = opens' /\ b = mailbox' /\ B = <<h>>
  OBVIOUS
<1>5. /\ s \in Seq(Message) /\ s # <<>> /\ h = Head(s) /\ t = Tail(s)
      /\ a = WithKey(t, 0) /\ b = WithoutKey(t, 0)
  BY <1>1, <1>2, <1>3, <1>4 DEF SyncTypeOK
<1>6. /\ h \in Message /\ t \in Seq(Message) /\ Range(s) = {h} \cup Range(t)
      /\ \A X : HowMany(s, X) = (IF h \in X THEN 1 ELSE 0) + HowMany(t, X)
      /\ \A X : Ordered(s, X) => Ordered(t, X)
  <2>1. \A X : Ordered(s, X) => Ordered(t, X) /\ Precede({h}, Range(t), X)
    BY ONLY <1>5, HeadCut
  <2>2. /\ h \in Message /\ t \in Seq(Message) /\ Range(s) = {h} \cup Range(t)
        /\ \A X : HowMany(s, X) = (IF h \in X THEN 1 ELSE 0) + HowMany(t, X)
    BY ONLY <1>5, HeadCut
  <2> QED BY ONLY <2>1, <2>2
<1>7. /\ a \in Seq(Message) /\ b \in Seq(Message)
      /\ Range(a) = {m \in Range(t) : m.key = 0} /\ Range(b) = {m \in Range(t) : m.key # 0}
      /\ \A X : HowMany(a, X) \in Nat /\ HowMany(b, X) \in Nat /\ HowMany(t, X) \in Nat
                /\ HowMany(a, X) + HowMany(b, X) = HowMany(t, X)
      /\ \A X : Ordered(t, X) => Ordered(a, X) /\ Ordered(b, X)
  <2>1. t \in Seq(Message) /\ a = WithKey(t, 0) /\ b = WithoutKey(t, 0)
    BY <1>5, <1>6
  <2> QED BY ONLY <2>1, Parted
<1>8. B \in Seq(Message) /\ Range(B) = {h} /\ \A X : HowMany(B, X) = IF h \in X THEN 1 ELSE 0
  BY <1>4, <1>6, RangeOne, CountOne
<1>9. Range(opens) = {} /\ \A X : HowMany(opens, X) = 0
  BY <1>2, <1>3, RangeOne, CountEmpty DEF PhaseInv
<1>10. Range(B) \subseteq InFlight /\ Range(s) \subseteq InFlight
  BY <1>4, <1>6, <1>8 DEF InFlight, Stored
<1>11. Gives(B)
  <2>1. \A X : HowMany(opens, X) + HowMany(mailbox, X)
                 = HowMany(B, X) + HowMany(opens', X) + HowMany(mailbox', X)
    <3> SUFFICES ASSUME NEW X
                 PROVE  HowMany(opens, X) + HowMany(s, X) = HowMany(B, X) + HowMany(a, X) + HowMany(b, X)
      BY <1>4
    <3>1. HowMany(opens, X) = 0
      BY <1>9
    <3>2. /\ HowMany(a, X) \in Nat /\ HowMany(b, X) \in Nat /\ HowMany(t, X) \in Nat
          /\ HowMany(a, X) + HowMany(b, X) = HowMany(t, X)
      BY <1>7
    <3>3. PICK e \in {0, 1} : e = IF h \in X THEN 1 ELSE 0
      <4>1. (IF h \in X THEN 1 ELSE 0) \in {0, 1}
        OBVIOUS
      <4> QED BY <4>1
    <3>4. HowMany(B, X) = e /\ HowMany(s, X) = e + HowMany(t, X)
      BY <1>6, <1>8, <3>3
    <3> QED BY ONLY <3>1, <3>2, <3>4, e \in {0, 1}
  <2>2. Range(a) \cup Range(b) \subseteq Range(s)
    BY <1>6, <1>7
  <2>3. Placed' = Placed
    BY <1>2 DEF Placed
  <2>4. Ordered(a, Placed) /\ Ordered(b, Placed)
    <3>1. Ordered(s, Placed)
      BY <1>3, <1>4 DEF OrderInv
    <3>2. Ordered(t, Placed)
      BY <1>6, <3>1
    <3> QED BY <1>7, <3>2
  <2>5. Precede(Range(a), Range(b), Placed)
    <3>1. Range(a) \subseteq InFlight /\ Range(b) \subseteq InFlight
      BY <1>10, <2>2
    <3>2. (\A m \in Range(a) : m.key = 0) /\ (\A m \in Range(b) : m.key # 0)
      BY <1>7
    <3> QED BY ONLY SyncInv, <3>1, <3>2, OpeningFirst
  <2> QED BY <1>4, <1>7, <1>8, <2>1, <2>2, <2>3, <2>4, <2>5 DEF Gives
<1>12. stops' \in Nat /\ failed' \subseteq Peers /\ gone' \subseteq Deleted
  <2>1. h.from \in Peers
    BY <1>6, MessageIs
  <2> QED BY <1>2, <1>3, <2>1 DEF SyncTypeOK
<1>13. LossInv'
  <2>1. \A m \in Range(B) : m.from \in failed'
    BY <1>2, <1>8
  <2>2. Range(opens) \cup Range(mailbox) \subseteq Range(opens') \cup Range(mailbox') \cup Range(B)
    <3>1. Range(t) = Range(a) \cup Range(b)
      BY <1>7
    <3> QED BY <1>4, <1>6, <1>8, <1>9, <3>1
  <2> QED BY <1>2, <1>8, <1>11, <2>1, <2>2, DropsLoss
<1> QED BY <1>2, <1>8, <1>10, <1>11, <1>12, <1>13, StopsStep
-----------------------------------------------------------------------------
(* The iterator ends: what waits is lost, and the server relays its store. *)

Ends ==
  /\ step = "resolve" /\ pending = {} /\ step' = "live"
  /\ stored' = CleanSessionKeys /\ lost' = lost \cup ChatsIn(Waiting)
  /\ waiting' = [p \in Peers |-> <<>>] /\ known' = [p \in Peers |-> {}]
  /\ mailbox' = opens \o mailbox /\ opens' = <<>>
  /\ UNCHANGED <<queue, messages, pending, sess, unknown, sent, key, openings, delivered, disturbed,
                 overtakes, failed, gone, stops>>

\* Finish is Ends.
LEMMA FinishEnds ==
  ASSUME Finish PROVE Ends
  BY DEF Finish, Ends, Waiting, peers, counters

\* The server relays the openings it has, then the rest of its store.
LEMMA EndsStore ==
  ASSUME SyncTypeOK, Ends
  PROVE  /\ mailbox' \in Seq(Message) /\ Range(mailbox') = Range(opens) \cup Range(mailbox)
         /\ \A X : HowMany(mailbox', X) = HowMany(opens, X) + HowMany(mailbox, X)
         /\ \A X : Ordered(mailbox', X) <=> /\ Ordered(opens, X) /\ Ordered(mailbox, X)
                                            /\ Precede(Range(opens), Range(mailbox), X)
<1>1. PICK s, a, b : s = mailbox' /\ a = opens /\ b = mailbox
  OBVIOUS
<1>2. a \in Seq(Message) /\ b \in Seq(Message) /\ s = a \o b
  BY <1>1 DEF SyncTypeOK, Ends
<1>3. /\ s \in Seq(Message) /\ Range(s) = Range(a) \cup Range(b)
      /\ \A X : HowMany(s, X) = HowMany(a, X) + HowMany(b, X)
      /\ \A X : Ordered(s, X) <=> /\ Ordered(a, X) /\ Ordered(b, X)
                                  /\ Precede(Range(a), Range(b), X)
  BY ONLY <1>2, Joined
<1> QED BY ONLY <1>1, <1>3

\* The end of the iterator keeps the types.
LEMMA EndsType ==
  ASSUME SyncTypeOK, MsgInv, Ends
  PROVE  SyncTypeOK'
<1>1. mailbox' \in Seq(Message) /\ opens' \in Seq(Message)
  BY EndsStore DEF Ends
<1>2. ChatsIn(Waiting) \subseteq Chats
  BY InFlightIs DEF ChatsIn, InFlight
<1>3. waiting' \in [Peers -> Seq(Message)] /\ known' \in [Peers -> SUBSET (Nat \ {0})]
  BY DEF Ends
<1>4. /\ stored' \in [Peers -> SUBSET (Nat \ {0})]
      /\ \A p \in Peers : sess'[p] # 0 => sess'[p] \in stored'[p]
  <2>1. /\ stored \in [Peers -> SUBSET (Nat \ {0})] /\ \A p \in Peers : sess[p] # 0 => sess[p] \in stored[p]
    BY DEF SyncTypeOK
  <2>2. stored' = [p \in Peers |-> IF known[p] # {} THEN stored[p] \cap {sess[p]} ELSE stored[p]]
    BY DEF Ends, CleanSessionKeys
  <2>3. \A p \in Peers : stored[p] \cap {sess[p]} \in SUBSET (Nat \ {0})
    BY <2>1
  <2>4. stored' \in [Peers -> SUBSET (Nat \ {0})]
    BY <2>1, <2>2, <2>3
  <2>5. sess' = sess
    BY DEF Ends
  <2> QED BY <2>1, <2>2, <2>4, <2>5
<1>5. step' = "live" /\ lost' = lost \cup ChatsIn(Waiting)
  BY DEF Ends
<1> QED BY <1>1, <1>2, <1>3, <1>4, <1>5 DEF SyncTypeOK, Ends

\* What waits when the iterator ends is lost.
LEMMA EndsCounts ==
  ASSUME SyncTypeOK, MsgInv, CountInv, Ends
  PROVE  CountInv'
<1>1. PICK S : S = ChatsIn(Waiting)
  OBVIOUS
<1>2. /\ lost' = lost \cup S /\ opens' = <<>> /\ \A p \in Peers : waiting'[p] = <<>>
      /\ UNCHANGED <<queue, messages, sent, delivered>>
  BY <1>1 DEF Ends
<1>3. SyncTypeOK'
  BY EndsType
<1>4. ASSUME NEW p \in Peers, NEW n \in Nat \ {0}
      PROVE  \E b \in Nat : Held(p, n) = Held(p, n)' + b /\ (b # 0 <=> [from |-> p, id |-> n] \in S)
  <2>1. PICK B : B = queue /\ B \in Seq(Message)
    BY DEF SyncTypeOK
  <2>2. PICK a, q, w, g \in Nat :
           /\ a = HowMany(B, Copies(p, n)) /\ q = HowMany(queue, Copies(p, n))
           /\ w = HowMany(waiting[p], Copies(p, n)) /\ g = HowMany(messages, {[from |-> p, id |-> n]})
           /\ w # 0 <=> [from |-> p, id |-> n] \in ChatsIn(Waiting)
           /\ (a # 0 \/ q # 0 \/ w # 0 \/ g # 0) <=> [from |-> p, id |-> n] \in InHand \cup ChatsIn(Range(B))
    BY ONLY SyncTypeOK, MsgInv, <2>1, p \in Peers, n \in Nat \ {0}, InHandIs
  <2>3. PICK o \in Nat, m \in Nat : o = HowMany(opens, Copies(p, n)) /\ m = HowMany(mailbox, Copies(p, n))
    BY CountTypes
  <2>4. HowMany(mailbox', Copies(p, n)) = o + m
    <3>1. \A X : HowMany(mailbox', X) = HowMany(opens, X) + HowMany(mailbox, X)
      BY EndsStore
    <3> QED BY <2>3, <3>1
  <2>5. HowMany(opens', Copies(p, n)) = 0 /\ HowMany(waiting'[p], Copies(p, n)) = 0
    BY <1>2, CountEmpty
  <2>6. Held(p, n) = o + m + q + w + g
    BY <2>2, <2>3 DEF Held
  <2>7. Held(p, n)' = 0 + (o + m) + q + 0 + g
    BY <1>2, <2>2, <2>4, <2>5 DEF Held
  <2>8. Held(p, n) = Held(p, n)' + w
    BY ONLY <2>6, <2>7, o \in Nat, m \in Nat, q \in Nat, w \in Nat, g \in Nat
  <2>9. w # 0 <=> [from |-> p, id |-> n] \in S
    BY ONLY <1>1, <2>2
  <2> QED BY <2>8, <2>9
<1> QED BY ONLY SyncTypeOK, <1>3, CountInv, <1>2, <1>4, DropCounts

\* Nothing of an undisturbed peer waits when the iterator ends, and the session has the key it needs.
LEMMA EndsLoss ==
  ASSUME SyncInv, Ends, KeyInv', InFlight' = Stored,
         \A p \in Peers : KeysOf(p)' \subseteq {sess[p]} /\ (sess[p] # 0 => KeysOf(p)' = {sess[p]})
  PROVE  LossInv'
<1>1. SyncTypeOK /\ PhaseInv /\ MsgInv /\ KeyInv /\ LossInv
  BY DEF SyncInv
<1>2. /\ step = "resolve" /\ lost' = lost \cup ChatsIn(Waiting) /\ \A p \in Peers : waiting'[p] = <<>>
      /\ UNCHANGED <<sess, key, disturbed, failed, stops>>
  BY DEF Ends
<1> SUFFICES ASSUME stops = 0, NEW p \in Peers \ Unsure
             PROVE  /\ waiting'[p] = <<>> /\ \A c \in lost' : c.from # p
                    /\ key'[p] # 0 => Introduced(p, key[p])'
                    /\ \A m \in InFlight' : (m.from = p /\ m.key # 0) => Introduced(p, m.key)'
                    /\ \A m \in Range(mailbox') : (m.from = p /\ m.key \in KeysOf(p)') => m.key = sess'[p]
  BY <1>2 DEF LossInv, Unsure
<1>3. /\ waiting[p] = <<>> /\ \A c \in lost : c.from # p
      /\ key[p] # 0 => Introduced(p, key[p])
      /\ \A m \in InFlight : (m.from = p /\ m.key # 0) => Introduced(p, m.key)
      /\ \A m \in Range(mailbox) : (m.from = p /\ m.key \in KeysOf(p)) => m.key = sess[p]
  BY <1>1 DEF LossInv
<1>4. \A m \in Waiting : m.from # p
  <2>1. ASSUME NEW q \in Peers, NEW m \in Range(waiting[q]), m.from = p PROVE FALSE
    <3>1. q = p
      BY <1>1, <2>1 DEF MsgInv
    <3> QED BY <1>3, <3>1, RangeOne
  <2> QED BY <2>1 DEF Waiting
<1>5. \A c \in lost' : c.from # p
  BY <1>2, <1>3, <1>4 DEF ChatsIn, ChatMessage
<1>6. ASSUME NEW k, k # 0, Introduced(p, k), k \in KeysOf(p) => k = sess[p] PROVE Introduced(p, k)'
  <2>1. CASE k \in KeysOf(p)
    BY <1>6, <2>1 DEF Introduced
  <2>2. CASE \E b \in InFlight : b.from = p /\ b.next = k
    <3>1. PICK b \in InFlight : b.from = p /\ b.next = k
      BY <2>2
    <3>2. b \in Stored
      BY <1>4, <3>1 DEF InFlight
    <3> QED BY <3>1, <3>2 DEF Introduced
  <2> QED BY <1>6, <2>1, <2>2 DEF Introduced
<1>7. key'[p] # 0 => Introduced(p, key[p])'
  <2>1. PICK k : k = key[p]
    OBVIOUS
  <2>2. k \in KeysOf(p) => k = sess[p]
    <3>1. /\ k \in Nat /\ sess[p] \in Nat /\ sess[p] <= k
          /\ \A j \in KeysOf(p) : j <= sess[p]
      BY <1>1, <2>1, KeysOfIs DEF SyncTypeOK, KeyInv
    <3> QED BY <3>1
  <2>3. k # 0 => Introduced(p, k)'
    BY <1>3, <1>6, <2>1, <2>2
  <2> QED BY <1>2, <2>1, <2>3 DEF Introduced
<1>8. ASSUME NEW m \in InFlight', m.from = p, m.key # 0 PROVE Introduced(p, m.key)'
  <2>1. m \in Range(opens) \cup Range(mailbox)
    <3>1. Range(queue) = {}
      BY <1>1, <1>2, RangeOne DEF PhaseInv
    <3> QED BY <3>1 DEF Stored
  <2>2. m \in Range(mailbox)
    <3>1. \A x \in Range(opens) : x.from \in disturbed
      BY <1>1, <1>2 DEF PhaseInv, Fetched
    <3> QED BY <1>8, <2>1, <3>1 DEF Unsure
  <2>3. Introduced(p, m.key)
    BY <1>3, <1>8, <2>2 DEF InFlight, Stored
  <2> QED BY <1>3, <1>6, <1>8, <2>2, <2>3
<1>9. \A m \in Range(mailbox') : (m.from = p /\ m.key \in KeysOf(p)') => m.key = sess'[p]
  BY <1>2
<1> QED BY <1>2, <1>5, <1>7, <1>8, <1>9

\* The invariant is kept by the end of the iterator.
LEMMA FinishStep ==
  ASSUME SyncInv, Finish PROVE SyncInv'
<1>1. Ends
  BY FinishEnds
<1>2. /\ step = "resolve" /\ step' = "live" /\ opens' = <<>>
      /\ \A p \in Peers : waiting'[p] = <<>> /\ known'[p] = {}
      /\ UNCHANGED <<queue, messages, sess, sent, key, openings, delivered, disturbed, failed, stops>>
  BY <1>1 DEF Ends
<1>3. /\ SyncTypeOK /\ PhaseInv /\ MsgInv /\ CountInv /\ KeyInv /\ OrderInv /\ DeliveryInv
  BY DEF SyncInv
<1>4. /\ Range(mailbox') = Range(opens) \cup Range(mailbox)
      /\ \A X : Ordered(mailbox', X) <=> /\ Ordered(opens, X) /\ Ordered(mailbox, X)
                                         /\ Precede(Range(opens), Range(mailbox), X)
  BY <1>1, <1>3, EndsStore
<1>5. Range(opens') = {} /\ \A p \in Peers : Range(waiting'[p]) = {}
  BY <1>2, RangeOne
<1>6. Waiting' = {} /\ Stored' = Stored /\ InFlight' = Stored
  <2>1. Waiting' = {}
    BY <1>5 DEF Waiting
  <2>2. Stored' = Stored
    BY <1>2, <1>4, <1>5 DEF Stored
  <2> QED BY <2>1, <2>2 DEF InFlight
<1>7. Stored \subseteq InFlight
  BY DEF InFlight
<1>8. SyncTypeOK' /\ CountInv'
  BY <1>1, <1>3, EndsType, EndsCounts
<1>9. PhaseInv'
  <2>1. messages = <<>> /\ queue = <<>>
    BY <1>2, <1>3 DEF PhaseInv
  <2> QED BY <1>2, <2>1 DEF PhaseInv, Fetched
<1>10. MsgInv'
  BY <1>2, <1>3, <1>5, <1>6, <1>7, MsgKeeps
<1>11. WaitInv'
  BY <1>2 DEF WaitInv, Syncing
<1>12. KeyInv' /\ \A p \in Peers : KeysOf(p)' \subseteq {sess[p]} /\ (sess[p] # 0 => KeysOf(p)' = {sess[p]})
  <2>1. KeyInv'
    BY <1>2, <1>3, <1>6, <1>7, KeyKeeps
  <2>2. \A p \in Peers : KeysOf(p)' = IF sess[p] # 0 THEN {sess[p]} ELSE {}
    BY <1>2 DEF KeysOf
  <2> QED BY <2>1, <2>2
<1>13. OrderInv'
  <2>1. Placed' = Placed
    BY <1>2 DEF Placed
  <2>2. Ordered(mailbox', Placed)
    BY <1>3, <1>4 DEF OrderInv
  <2>3. Ordered(opens', Placed)
    BY <1>2, OrderedOne
  <2> QED BY <1>2, <1>3, <1>4, <1>5, <1>6, <2>1, <2>2, <2>3 DEF OrderInv, Precede
<1>14. DeliveryInv'
  BY <1>2, <1>3, <1>6, <1>7, DeliveryFewer
<1>15. LossInv'
  BY <1>1, <1>6, <1>12, EndsLoss
<1> QED BY <1>8, <1>9, <1>10, <1>11, <1>12, <1>13, <1>14, <1>15 DEF SyncInv
-----------------------------------------------------------------------------
(* The worker takes the first message that the server relays.              *)

Relayed(h) ==
  /\ step = "live" /\ mailbox # <<>> /\ h = Head(mailbox) /\ mailbox' = Tail(mailbox)
  /\ UNCHANGED <<step, queue, messages, known, pending, unknown, opens, sent, key, openings, disturbed,
                 overtakes, failed, gone, stops>>

\* It is lost, delivered, or cached.
Handled(h) ==
  \/ lost' = lost \cup {ChatMessage(h)} /\ UNCHANGED <<waiting, delivered>>
  \/ delivered' = [delivered EXCEPT ![h.from] = Append(@, h.id)] /\ UNCHANGED <<waiting, lost>>
  \/ h.key # 0 /\ waiting' = [waiting EXCEPT ![h.from] = Append(@, h)] /\ UNCHANGED <<lost, delivered>>

\* What taking the first relayed message does to its set, counts and order.
LEMMA RelayCut ==
  ASSUME SyncTypeOK, NEW h, Relayed(h)
  PROVE  /\ h \in Message /\ mailbox' \in Seq(Message)
         /\ Range(mailbox) = {h} \cup Range(mailbox')
         /\ \A X : HowMany(mailbox, X) = (IF h \in X THEN 1 ELSE 0) + HowMany(mailbox', X)
         /\ \A X : Ordered(mailbox, X) => Ordered(mailbox', X) /\ Precede({h}, Range(mailbox'), X)
<1>1. PICK s, t : s = mailbox /\ t = mailbox'
  OBVIOUS
<1>2. s \in Seq(Message) /\ s # <<>> /\ h = Head(s) /\ t = Tail(s)
  BY <1>1 DEF SyncTypeOK, Relayed
<1>3. /\ h \in Message /\ t \in Seq(Message) /\ Range(s) = {h} \cup Range(t)
      /\ \A X : HowMany(s, X) = (IF h \in X THEN 1 ELSE 0) + HowMany(t, X)
      /\ \A X : Ordered(s, X) => Ordered(t, X) /\ Precede({h}, Range(t), X)
  BY ONLY <1>2, HeadCut
<1> QED BY ONLY <1>1, <1>3

\* A relayed message comes before all that the server still has.
LEMMA RelaySets ==
  ASSUME SyncInv, NEW h, Relayed(h)
  PROVE  /\ h \in Message /\ h \in Stored /\ h \in InFlight /\ h.from \in Peers /\ h.id \in Nat \ {0}
         /\ Stored = {h} \cup Stored' /\ Stored' = Range(mailbox')
         /\ messages = <<>> /\ queue = <<>> /\ opens = <<>> /\ \A p \in Peers : known[p] = {}
         /\ Precede({h}, Stored', Placed)
<1>1. SyncTypeOK /\ PhaseInv /\ MsgInv /\ OrderInv
  BY DEF SyncInv
<1>2. step = "live" /\ UNCHANGED <<queue, opens>>
  BY DEF Relayed
<1>3. messages = <<>> /\ queue = <<>> /\ opens = <<>> /\ \A p \in Peers : known[p] = {}
  BY <1>1, <1>2 DEF PhaseInv, Fetched
<1>4. Range(queue) = {} /\ Range(opens) = {}
  BY <1>3, RangeOne
<1>5. h \in Message /\ Range(mailbox) = {h} \cup Range(mailbox')
  BY <1>1, RelayCut
<1>6. Stored = Range(mailbox) /\ Stored' = Range(mailbox')
  BY <1>2, <1>4 DEF Stored
<1>7. h \in Stored /\ h \in InFlight
  BY <1>5, <1>6 DEF InFlight
<1>8. h.from \in Peers /\ h.id \in Nat \ {0}
  BY <1>1, <1>7, InFlightIs
<1>9. Precede({h}, Range(mailbox'), Placed)
  <2>1. \A X : Ordered(mailbox, X) => Ordered(mailbox', X) /\ Precede({h}, Range(mailbox'), X)
    BY <1>1, RelayCut
  <2> QED BY <1>1, <2>1 DEF OrderInv
<1> QED BY <1>3, <1>5, <1>6, <1>7, <1>8, <1>9

\* A relayed message may wait; nothing else moves.
LEMMA HandledSets ==
  ASSUME SyncInv, NEW h, Relayed(h), Handled(h)
  PROVE  /\ \A p \in Peers : \A m \in Range(waiting'[p]) :
              m \in Range(waiting[p]) \/ (m = h /\ p = h.from /\ h.key # 0)
         /\ waiting' \in [Peers -> Seq(Message)]
         /\ Waiting' \subseteq Waiting \cup {h} /\ Waiting \subseteq Waiting'
         /\ InFlight' \subseteq InFlight /\ InFlight \subseteq InFlight' \cup {h}
<1>1. SyncTypeOK
  BY DEF SyncInv
<1>2. h \in Message /\ h.from \in Peers /\ Stored = {h} \cup Stored'
  BY RelaySets
<1>3. waiting \in [Peers -> Seq(Message)]
  BY <1>1 DEF SyncTypeOK
<1>4. ASSUME NEW p \in Peers
      PROVE  /\ waiting'[p] \in Seq(Message)
             /\ \/ waiting'[p] = waiting[p]
                \/ p = h.from /\ h.key # 0 /\ Range(waiting'[p]) = Range(waiting[p]) \cup {h}
  <2>1. CASE waiting' = waiting
    BY <1>3, <2>1
  <2>2. CASE h.key # 0 /\ waiting' = [waiting EXCEPT ![h.from] = Append(@, h)]
    <3>1. CASE p = h.from
      <4>1. PICK s, t : s = waiting[p] /\ t = waiting'[p]
        OBVIOUS
      <4>2. s \in Seq(Message) /\ t = Append(s, h)
        BY <1>3, <2>2, <3>1, <4>1
      <4>3. t \in Seq(Message) /\ Range(t) = Range(s) \cup {h}
        BY ONLY <1>2, <4>2, EndCut
      <4> QED BY <2>2, <3>1, <4>1, <4>3
    <3>2. CASE p # h.from
      BY <1>3, <2>2, <3>2
    <3> QED BY <3>1, <3>2
  <2> QED BY <2>1, <2>2 DEF Handled
<1>5. waiting' \in [Peers -> Seq(Message)]
  <2>1. waiting' = [waiting EXCEPT ![h.from] = Append(@, h)] \/ waiting' = waiting
    BY DEF Handled
  <2>2. DOMAIN waiting' = Peers /\ waiting' = [p \in Peers |-> waiting'[p]]
    BY <1>3, <2>1
  <2> QED BY <1>4, <2>2
<1>6. \A p \in Peers : Range(waiting[p]) \subseteq Range(waiting'[p])
  BY <1>4
<1>7. Waiting' \subseteq Waiting \cup {h} /\ Waiting \subseteq Waiting'
  <2>1. ASSUME NEW m \in Waiting' PROVE m \in Waiting \cup {h}
    <3>1. PICK p \in Peers : m \in Range(waiting'[p])
      BY DEF Waiting
    <3>2. m \in Range(waiting[p]) \/ m = h
      BY <1>4, <3>1
    <3> QED BY <3>2 DEF Waiting
  <2>2. ASSUME NEW m \in Waiting PROVE m \in Waiting'
    <3>1. PICK p \in Peers : m \in Range(waiting[p])
      BY DEF Waiting
    <3>2. m \in Range(waiting'[p])
      BY <1>6, <3>1
    <3> QED BY <3>2 DEF Waiting
  <2> QED BY <2>1, <2>2
<1>8. InFlight' \subseteq InFlight /\ InFlight \subseteq InFlight' \cup {h}
  BY <1>2, <1>7 DEF InFlight
<1> QED BY <1>4, <1>5, <1>7, <1>8

\* A relayed message is in one place after it is handled.
LEMMA HandledCounts ==
  ASSUME SyncInv, NEW h, Relayed(h), Handled(h)
  PROVE  CountInv'
<1>1. SyncTypeOK /\ CountInv
  BY DEF SyncInv
<1>2. h \in Message /\ h.from \in Peers /\ h.id \in Nat \ {0}
  BY RelaySets
<1>3. UNCHANGED <<queue, messages, opens, sent>>
  BY DEF Relayed
<1> SUFFICES ASSUME NEW p \in Peers, NEW n \in Nat \ {0} PROVE Places(p, n)' = Places(p, n)
  BY <1>1, <1>3, CountKeeps
<1>4. PICK X : X = Copies(p, n)
  OBVIOUS
<1>5. PICK b \in {0, 1}, L \in {0, 1}, M \in {0, 1} :
        /\ b = IF h.from = p /\ h.id = n THEN 1 ELSE 0
        /\ L = IF [from |-> p, id |-> n] \in lost THEN 1 ELSE 0
        /\ M = IF [from |-> p, id |-> n] \in lost' THEN 1 ELSE 0
  <2>1. /\ (IF h.from = p /\ h.id = n THEN 1 ELSE 0) \in {0, 1}
        /\ (IF [from |-> p, id |-> n] \in lost THEN 1 ELSE 0) \in {0, 1}
        /\ (IF [from |-> p, id |-> n] \in lost' THEN 1 ELSE 0) \in {0, 1}
    OBVIOUS
  <2> QED BY <2>1
<1>6. PICK o \in Nat, m \in Nat, q \in Nat, w \in Nat, g \in Nat, d \in Nat :
        /\ o = HowMany(opens, X) /\ m = HowMany(mailbox, X) /\ q = HowMany(queue, X)
        /\ w = HowMany(waiting[p], X) /\ g = HowMany(messages, {[from |-> p, id |-> n]})
        /\ d = HowMany(delivered[p], {n})
  BY <1>1, <1>4, CountTypes
<1>7. (h \in X <=> b = 1) /\ (ChatMessage(h) = [from |-> p, id |-> n] <=> b = 1)
  BY <1>2, <1>4, <1>5, CopiesAre
<1>8. PICK r \in Nat : r = HowMany(mailbox', X) /\ m = b + r
  <2>1. /\ mailbox' \in Seq(Message)
        /\ \A Z : HowMany(mailbox, Z) = (IF h \in Z THEN 1 ELSE 0) + HowMany(mailbox', Z)
    BY <1>1, RelayCut
  <2>2. HowMany(mailbox', X) \in Nat
    BY <2>1, AtFinite
  <2>3. (IF h \in X THEN 1 ELSE 0) = b
    BY <1>7
  <2> QED BY <1>6, <2>1, <2>2, <2>3
<1>9. Places(p, n) = o + m + q + w + g + d + L
  BY <1>4, <1>5, <1>6 DEF Places
<1>10. Places(p, n) \in {0, 1}
  BY <1>1 DEF CountInv
<1>11. b = 1 => L = 0
  BY ONLY <1>8, <1>9, <1>10, o \in Nat, m \in Nat, q \in Nat, w \in Nat, g \in Nat, d \in Nat, r \in Nat,
          b \in {0, 1}, L \in {0, 1}
<1>12. PICK v \in Nat, f \in Nat :
         /\ v = HowMany(waiting'[p], X) /\ f = HowMany(delivered'[p], {n})
         /\ \/ M = L + b /\ v = w /\ f = d
            \/ M = L /\ v = w /\ f = d + b
            \/ M = L /\ v = w + b /\ f = d
  <2>1. CASE lost' = lost \cup {ChatMessage(h)} /\ UNCHANGED <<waiting, delivered>>
    <3>1. M = L + b
      BY <1>5, <1>7, <1>11, <2>1
    <3> QED BY <1>6, <2>1, <3>1
  <2>2. CASE delivered' = [delivered EXCEPT ![h.from] = Append(@, h.id)] /\ UNCHANGED <<waiting, lost>>
    <3>1. delivered \in [Peers -> Seq(Nat \ {0})]
      BY <1>1 DEF SyncTypeOK
    <3>2. HowMany(delivered'[p], {n}) = d + b /\ d + b \in Nat
      <4>1. CASE p = h.from
        <5>1. PICK s, t, i, S : s = delivered[p] /\ t = delivered'[p] /\ i = h.id /\ S = Nat \ {0}
          OBVIOUS
        <5>2. s \in Seq(S) /\ t = Append(s, i) /\ i \in S
          BY <1>2, <2>2, <3>1, <4>1, <5>1
        <5>3. HowMany(t, {n}) = HowMany(s, {n}) + (IF i \in {n} THEN 1 ELSE 0)
          BY ONLY <5>2, Pushed
        <5>4. (IF i \in {n} THEN 1 ELSE 0) = b
          BY <1>5, <4>1, <5>1
        <5> QED BY <1>6, <5>1, <5>3, <5>4
      <4>2. CASE p # h.from
        <5>1. delivered'[p] = delivered[p]
          BY <2>2, <3>1, <4>2
        <5>2. b = 0
          BY <1>5, <4>2
        <5> QED BY <1>6, <5>1, <5>2
      <4> QED BY <4>1, <4>2
    <3>3. M = L
      BY <1>5, <2>2
    <3>4. HowMany(waiting'[p], X) = w
      BY <1>6, <2>2
    <3> QED BY <3>2, <3>3, <3>4
  <2>3. CASE waiting' = [waiting EXCEPT ![h.from] = Append(@, h)] /\ UNCHANGED <<lost, delivered>>
    <3>1. waiting \in [Peers -> Seq(Message)]
      BY <1>1 DEF SyncTypeOK
    <3>2. HowMany(waiting'[p], X) = w + b /\ w + b \in Nat
      <4>1. CASE p = h.from
        <5>1. PICK s, t : s = waiting[p] /\ t = waiting'[p]
          OBVIOUS
        <5>2. s \in Seq(Message) /\ t = Append(s, h)
          BY <2>3, <3>1, <4>1, <5>1
        <5>3. HowMany(t, X) = HowMany(s, X) + (IF h \in X THEN 1 ELSE 0)
          BY <1>2, <5>2, Pushed
        <5>4. (IF h \in X THEN 1 ELSE 0) = b
          BY <1>7
        <5> QED BY <1>6, <5>1, <5>3, <5>4
      <4>2. CASE p # h.from
        <5>1. waiting'[p] = waiting[p]
          BY <2>3, <3>1, <4>2
        <5>2. b = 0
          BY <1>5, <4>2
        <5> QED BY <1>6, <5>1, <5>2
      <4> QED BY <4>1, <4>2
    <3>3. M = L
      BY <1>5, <2>3
    <3>4. HowMany(delivered'[p], {n}) = d
      BY <1>6, <2>3
    <3> QED BY <3>2, <3>3, <3>4
  <2> QED BY <2>1, <2>2, <2>3 DEF Handled
<1>13. Places(p, n)' = o + r + q + v + g + f + M
  BY <1>3, <1>4, <1>5, <1>6, <1>8, <1>12 DEF Places
<1>14. o + r + q + v + g + f + M = o + m + q + w + g + d + L
  BY ONLY <1>8, <1>12, o \in Nat, m \in Nat, q \in Nat, w \in Nat, g \in Nat, d \in Nat, r \in Nat,
          v \in Nat, f \in Nat, b \in {0, 1}, L \in {0, 1}, M \in {0, 1}
<1> QED BY <1>9, <1>13, <1>14
\* What holds of the messages, wherever the worker puts it.
LEMMA HandledMoves ==
  ASSUME SyncInv, NEW h, Relayed(h), Handled(h)
  PROVE  MsgInv' /\ PhaseInv' /\ WaitInv' /\ OrderInv' /\ DeliveryInv'
<1>1. SyncTypeOK /\ PhaseInv /\ MsgInv /\ OrderInv /\ DeliveryInv
  BY DEF SyncInv
<1>2. /\ h \in Message /\ h \in Stored /\ h \in InFlight /\ h.from \in Peers /\ h.id \in Nat \ {0}
      /\ Stored = {h} \cup Stored' /\ Stored' = Range(mailbox')
      /\ messages = <<>> /\ queue = <<>> /\ opens = <<>> /\ \A p \in Peers : known[p] = {}
      /\ Precede({h}, Stored', Placed)
  BY RelaySets
<1>3. /\ \A p \in Peers : \A m \in Range(waiting'[p]) :
           m \in Range(waiting[p]) \/ (m = h /\ p = h.from /\ h.key # 0)
      /\ Waiting' \subseteq Waiting \cup {h} /\ InFlight' \subseteq InFlight
  BY HandledSets
<1>4. /\ step = "live"
      /\ UNCHANGED <<step, queue, messages, known, opens, sent, key, openings, disturbed>>
  BY DEF Relayed
<1>5. MsgInv'
  BY <1>1, <1>3, <1>4, MsgKeeps
<1>6. PhaseInv'
  BY <1>2, <1>4 DEF PhaseInv, Fetched
<1>7. WaitInv'
  BY <1>4 DEF WaitInv, Syncing
<1>8. Placed' = Placed /\ Range(messages') = {} /\ Range(queue') = {} /\ Range(opens') = {}
  BY <1>2, <1>4, RangeOne DEF Placed
<1>9. OrderInv'
  <2>1. Ordered(queue', Placed) /\ Ordered(opens', Placed) /\ Ordered(messages', Placed)
    BY <1>2, <1>4, OrderedOne
  <2>2. Ordered(mailbox', Placed)
    <3>1. \A X : Ordered(mailbox, X) => Ordered(mailbox', X) /\ Precede({h}, Range(mailbox'), X)
      BY <1>1, RelayCut
    <3> QED BY <1>1, <3>1 DEF OrderInv
  <2>3. Precede(Waiting, Stored, Placed)
    BY <1>1 DEF OrderInv, Precede
  <2>4. Precede(Waiting', Stored', Placed)
    BY <1>2, <1>3, <2>3 DEF Precede
  <2>5. Precede(Range(messages') \cup Waiting', Stored', Placed)
    BY <1>8, <2>4 DEF Precede
  <2>6. /\ Precede(Range(queue'), Range(opens') \cup Range(mailbox'), Placed)
        /\ Precede(Range(opens'), Range(mailbox'), Placed)
    BY <1>8 DEF Precede
  <2> QED BY <1>8, <2>1, <2>2, <2>5, <2>6 DEF OrderInv
<1>10. DeliveryInv'
  <2>1. CASE delivered' = delivered
    BY <1>1, <1>2, <1>3, <1>4, <1>8, <2>1, DeliveryFewer
  <2>2. CASE delivered' = [delivered EXCEPT ![h.from] = Append(@, h.id)]
    <3>1. ASSUME h.from \notin disturbed
          PROVE  /\ \A d \in Range(delivered[h.from]) : d < h.id
                 /\ \A y \in Stored' \cup Range(messages') : y.from = h.from => h.id < y.id
      <4>1. \A d \in Range(delivered[h.from]) : d < h.id
        BY <1>1, <1>2, <3>1 DEF DeliveryInv
      <4>2. ASSUME NEW y \in Stored', y.from = h.from PROVE h.id < y.id
        <5>1. y \in Message /\ h \in Message
          BY <1>1, <1>2, FlightType
        <5>2. y \in Placed /\ h \in Placed
          BY <3>1, <4>2, <5>1, PlacedIs DEF Placed
        <5> QED BY <1>2, <4>2, <5>2 DEF Precede
      <4> QED BY <1>8, <4>1, <4>2
    <3>2. Stored' \cup Range(messages') \subseteq Stored \cup Range(messages)
      BY <1>2, <1>8
    <3> QED BY <1>1, <1>2, <1>3, <1>4, <2>2, <3>1, <3>2, DeliveryGrows
  <2> QED BY <2>1, <2>2 DEF Handled
<1> QED BY <1>5, <1>6, <1>7, <1>9, <1>10

\* A handled message keeps the types.
LEMMA HandledType ==
  ASSUME SyncInv, NEW h, Relayed(h), Handled(h),
         sess' \in [Peers -> Nat], stored' \in [Peers -> SUBSET (Nat \ {0})],
         \A p \in Peers : sess'[p] # 0 => sess'[p] \in stored'[p]
  PROVE  SyncTypeOK'
<1>1. SyncTypeOK /\ MsgInv
  BY DEF SyncInv
<1>2. h \in InFlight /\ h.from \in Peers /\ h.id \in Nat \ {0}
  BY RelaySets
<1>3. mailbox' \in Seq(Message) /\ waiting' \in [Peers -> Seq(Message)]
  BY <1>1, RelayCut, HandledSets
<1>4. ChatMessage(h) \in Chats
  BY <1>1, <1>2, InFlightIs
<1>5. lost' \subseteq Chats
  BY <1>1, <1>4 DEF SyncTypeOK, Handled
<1>6. delivered' \in [Peers -> Seq(Nat \ {0})]
  <2>1. delivered \in [Peers -> Seq(Nat \ {0})]
    BY <1>1 DEF SyncTypeOK
  <2>2. CASE delivered' = [delivered EXCEPT ![h.from] = Append(@, h.id)]
    <3>1. Append(delivered[h.from], h.id) \in Seq(Nat \ {0})
      BY <1>2, <2>1
    <3> QED BY <1>2, <2>1, <2>2, <3>1
  <2> QED BY <2>1, <2>2 DEF Handled
<1>7. UNCHANGED <<step, queue, messages, known, pending, unknown, opens, sent, key, openings, disturbed,
                  overtakes, failed, gone, stops>>
  BY DEF Relayed
<1> QED BY <1>1, <1>3, <1>5, <1>6, <1>7 DEF SyncTypeOK

\* The invariant is kept by an opening that is relayed.
LEMMA LiveOpenStep ==
  ASSUME SyncInv, LiveOpen PROVE SyncInv' /\ \A p \in Peers : sess'[p] >= sess[p]
<1>1. PICK h : h = Head(mailbox)
  OBVIOUS
<1>2. /\ step = "live" /\ mailbox # <<>> /\ h.kind \in {"open", "noOpenConv"} /\ mailbox' = Tail(mailbox)
      /\ sess' = [sess EXCEPT ![h.from] = h.next] /\ SaveKey(h.from, h.next)
      /\ \/ h.kind = "open" /\ delivered' = [delivered EXCEPT ![h.from] = Append(@, h.id)] /\ lost' = lost
         \/ h.kind # "open" /\ lost' = lost \cup {ChatMessage(h)} /\ delivered' = delivered
      /\ UNCHANGED <<step, queue, messages, known, pending, waiting, unknown, opens,
                     sent, key, openings, disturbed, overtakes, failed, gone, stops>>
  BY <1>1 DEF LiveOpen, Relays, OpensSession, Delivers, iterator, peers, counters
<1>3. Relayed(h) /\ Handled(h)
  BY <1>1, <1>2 DEF Relayed, Handled
<1>4. /\ SyncTypeOK /\ MsgInv /\ KeyInv /\ DeliveryInv /\ LossInv
  BY DEF SyncInv
<1>5. /\ h \in Message /\ h \in InFlight /\ h.from \in Peers
      /\ Stored = {h} \cup Stored' /\ \A p \in Peers : known[p] = {}
      /\ Precede({h}, Stored', Placed)
  BY <1>3, RelaySets
<1>6. h.key = 0 /\ h.next \in Nat \ {0}
  BY <1>2, <1>4, <1>5, InFlightIs DEF Openings
<1>7. InFlight' \subseteq InFlight /\ InFlight \subseteq InFlight' \cup {h}
  BY <1>3, HandledSets
<1>8. ASSUME NEW m \in InFlight', m.from = h.from, m.key = 0 PROVE h.id < m.id
  <2>1. m \in Message
    BY <1>4, <1>7, FlightType
  <2>2. m \in Stored'
    <3>1. ASSUME NEW q \in Peers, m \in Range(waiting'[q]) PROVE FALSE
      BY <1>2, <1>4, <1>8, <3>1 DEF MsgInv
    <3> QED BY <3>1 DEF InFlight, Waiting
  <2>3. h \in Placed /\ m \in Placed
    BY <1>5, <1>6, <1>8, <2>1, PlacedIs DEF Placed
  <2> QED BY <1>5, <1>8, <2>2, <2>3 DEF Precede
<1>9. /\ KeyInv' /\ h.next = h.id /\ sess[h.from] < h.next
      /\ \A p \in Peers : sess'[p] = IF p = h.from THEN h.next ELSE sess[p]
      /\ \A p \in Peers : KeysOf(p)' = IF sess'[p] # 0 THEN {sess'[p]} ELSE {}
  BY <1>2, <1>4, <1>5, <1>6, <1>7, <1>8, OpenKeys
<1>10. SyncTypeOK'
  <2>1. /\ sess' \in [Peers -> Nat] /\ stored' \in [Peers -> SUBSET (Nat \ {0})]
        /\ \A q \in Peers : sess'[q] # 0 => sess'[q] \in stored'[q]
    BY <1>2, <1>4, <1>5, <1>6, SavesType
  <2> QED BY <1>3, <2>1, HandledType
<1>11. MsgInv' /\ PhaseInv' /\ WaitInv' /\ OrderInv' /\ DeliveryInv' /\ CountInv'
  BY <1>3, HandledMoves, HandledCounts
<1>12. LossInv'
  <2>1. Range(mailbox') \subseteq Range(mailbox)
    BY <1>3, <1>4, RelayCut
  <2>2. stops = 0 => NothingLost(h)
    BY <1>2, <1>5, <1>6, <1>9, <2>1, OpenLoss
  <2> QED BY <1>2, <1>4, <1>7, <2>2, LossMoves
<1>13. \A p \in Peers : sess'[p] >= sess[p]
  <2>1. \A p \in Peers : sess[p] \in Nat
    BY <1>4 DEF SyncTypeOK
  <2> QED BY <1>6, <1>9, <2>1
<1> QED BY <1>9, <1>10, <1>11, <1>12, <1>13 DEF SyncInv

\* The invariant is kept by a relayed message that is decrypted.
LEMMA LiveMessageStep ==
  ASSUME SyncInv, LiveMessage PROVE SyncInv'
<1>1. PICK h : h = Head(mailbox)
  OBVIOUS
<1>2. /\ step = "live" /\ mailbox # <<>> /\ h.kind = "msg" /\ mailbox' = Tail(mailbox)
      /\ delivered' = [delivered EXCEPT ![h.from] = Append(@, h.id)]
      /\ UNCHANGED <<step, queue, messages, known, pending, waiting, sess, stored, unknown, opens,
                     sent, key, openings, lost, disturbed, overtakes, failed, gone, stops>>
  BY <1>1 DEF LiveMessage, Relays, Delivers, iterator, storage, peers, counters
<1>3. Relayed(h) /\ Handled(h)
  BY <1>1, <1>2 DEF Relayed, Handled
<1>4. SyncTypeOK /\ MsgInv /\ KeyInv /\ LossInv
  BY DEF SyncInv
<1>5. h \in InFlight
  BY <1>3, RelaySets
<1>6. h.next = 0
  BY <1>2, <1>4, <1>5, InFlightIs
<1>7. InFlight' \subseteq InFlight /\ InFlight \subseteq InFlight' \cup {h}
  BY <1>3, HandledSets
<1>8. SyncTypeOK'
  <2>1. /\ sess' \in [Peers -> Nat] /\ stored' \in [Peers -> SUBSET (Nat \ {0})]
        /\ \A q \in Peers : sess'[q] # 0 => sess'[q] \in stored'[q]
    BY <1>2, <1>4 DEF SyncTypeOK
  <2> QED BY <1>3, <2>1, HandledType
<1>9. MsgInv' /\ PhaseInv' /\ WaitInv' /\ OrderInv' /\ DeliveryInv' /\ CountInv'
  BY <1>3, HandledMoves, HandledCounts
<1>10. KeyInv'
  BY <1>2, <1>4, <1>7, KeyKeeps
<1>11. LossInv'
  <2>1. Range(mailbox') \subseteq Range(mailbox)
    BY <1>3, <1>4, RelayCut
  <2>2. \A p : KeysOf(p)' = KeysOf(p)
    BY <1>2 DEF KeysOf
  <2>3. stops = 0 => NothingLost(h)
    BY <1>2, <1>4, <1>6, <2>1, <2>2 DEF LossInv, NothingLost
  <2> QED BY <1>2, <1>4, <1>7, <2>3, LossMoves
<1> QED BY <1>8, <1>9, <1>10, <1>11 DEF SyncInv

\* A message of an undisturbed peer can be decrypted when its turn comes.
LEMMA RelayedKnown ==
  ASSUME SyncInv, stops = 0, NEW h, Relayed(h), h.from \notin Unsure, h.key # 0
  PROVE  CanDecrypt(h)
<1>1. /\ h \in Message /\ h \in Stored /\ h.from \in Peers /\ h.id \in Nat \ {0}
      /\ Stored = {h} \cup Stored' /\ \A p \in Peers : known[p] = {}
      /\ Precede({h}, Stored', Placed)
  BY RelaySets
<1>2. h \in Placed
  BY <1>1, PlacedIs DEF Placed, Unsure
<1>3. ASSUME NEW y \in Stored, y \in Placed, y.from = h.from PROVE y.id >= h.id
  <2>1. y.id \in Nat
    BY <1>3, FlightType, MessageIs DEF SyncInv
  <2>2. CASE y = h
    BY <1>1, <2>2
  <2>3. CASE y \in Stored'
    BY <1>1, <1>2, <1>3, <2>1, <2>3 DEF Precede
  <2> QED BY <1>1, <2>2, <2>3
<1>4. h.key \in KeysOf(h.from)
  BY <1>1, <1>3, HeadKnown
<1> QED BY <1>1, <1>4 DEF KeysOf, CanDecrypt

\* The invariant is kept by a relayed message that is cached.
LEMMA LiveCacheStep ==
  ASSUME SyncInv, LiveCache PROVE SyncInv'
<1>1. PICK h : h = Head(mailbox)
  OBVIOUS
<1>2. /\ step = "live" /\ mailbox # <<>> /\ h.kind \in {"msg", "rotate"} /\ mailbox' = Tail(mailbox)
      /\ ~CanDecrypt(h)
      /\ \/ waiting' = [waiting EXCEPT ![h.from] = Append(@, h)] /\ lost' = lost
         \/ lost' = lost \cup ChatsIn({h}) /\ waiting' = waiting
      /\ UNCHANGED <<step, queue, messages, known, pending, sess, stored, unknown, opens,
                     sent, key, openings, delivered, disturbed, overtakes, failed, gone, stops>>
  BY <1>1 DEF LiveCache, Relays, iterator, storage, peers, counters
<1>3. SyncTypeOK /\ MsgInv /\ KeyInv /\ LossInv
  BY DEF SyncInv
<1>4. Relayed(h)
  BY <1>1, <1>2 DEF Relayed
<1>5. h \in InFlight /\ h.from \in Peers
  BY <1>4, RelaySets
<1>6. h.key # 0 /\ h.id # 0
  BY <1>2, <1>3, <1>5, InFlightIs DEF Openings
<1>7. ChatsIn({h}) = {ChatMessage(h)} /\ ChatMessage(h).from = h.from
  BY <1>6 DEF ChatsIn, ChatMessage
<1>8. Handled(h)
  BY <1>2, <1>6, <1>7 DEF Handled
<1>9. InFlight' \subseteq InFlight /\ InFlight \subseteq InFlight' \cup {h}
  BY <1>4, <1>8, HandledSets
<1>10. SyncTypeOK'
  <2>1. /\ sess' \in [Peers -> Nat] /\ stored' \in [Peers -> SUBSET (Nat \ {0})]
        /\ \A q \in Peers : sess'[q] # 0 => sess'[q] \in stored'[q]
    BY <1>2, <1>3 DEF SyncTypeOK
  <2> QED BY <1>4, <1>8, <2>1, HandledType
<1>11. MsgInv' /\ PhaseInv' /\ WaitInv' /\ OrderInv' /\ DeliveryInv' /\ CountInv'
  BY <1>4, <1>8, HandledMoves, HandledCounts
<1>12. KeyInv'
  BY <1>2, <1>3, <1>9, KeyKeeps
<1>13. LossInv'
  <2>1. Range(mailbox') \subseteq Range(mailbox)
    BY <1>3, <1>4, RelayCut
  <2>2. \A p : KeysOf(p)' = KeysOf(p)
    BY <1>2 DEF KeysOf
  <2>3. ASSUME stops = 0 PROVE NothingLost(h)
    <3>1. h.from \in Unsure
      BY <1>2, <1>4, <1>6, <2>3, RelayedKnown
    <3>2. ASSUME NEW p \in Peers \ Unsure
          PROVE  waiting'[p] = waiting[p] /\ \A c \in lost' : c \in lost \/ c.from # p
      <4>1. waiting \in [Peers -> Seq(Message)]
        BY <1>3 DEF SyncTypeOK
      <4>2. waiting'[p] = waiting[p]
        BY <1>2, <3>1, <4>1
      <4> QED BY <1>2, <1>7, <3>1, <4>2
    <3> QED BY <1>2, <1>3, <2>1, <2>2, <2>3, <3>1, <3>2 DEF LossInv, NothingLost
  <2> QED BY <1>2, <1>3, <1>9, <2>3, LossMoves
<1> QED BY <1>10, <1>11, <1>12, <1>13 DEF SyncInv
-----------------------------------------------------------------------------
(* A peer sends the message m.                                             *)

Sends(p, m) ==
  /\ p \in Peers /\ m \in Message /\ m.from = p /\ m.id = sent[p] + 1
  /\ m.kind \in Openings <=> m.key = 0
  /\ m.next = IF m.kind = "msg" THEN 0 ELSE m.id
  /\ m.key # 0 => m.key = key[p]
  /\ sent' = [sent EXCEPT ![p] = @ + 1]
  /\ key' \in [Peers -> Nat] /\ openings' \in [Peers -> Nat]
  /\ \A q \in Peers : key'[q] = IF q = p /\ m.next # 0 THEN m.next ELSE key[q]
  /\ \A q \in Peers : openings'[q] = 0 => openings[q] = 0 /\ q # p
  /\ disturbed \subseteq disturbed' /\ disturbed' \subseteq disturbed \cup {p}
  /\ (m.key = 0 /\ p \notin disturbed') => m.kind = "open" /\ sent[p] = 0 /\ step \notin Fetched
  /\ overtakes' \in Nat
  /\ UNCHANGED <<step, queue, messages, waiting, known, pending, sess, stored, unknown, delivered, lost,
                 failed, gone, stops>>

\* Where the server puts it.
Comes(m) ==
  \/ m.key = 0 /\ step # "live" /\ opens' = Append(opens, m) /\ mailbox' = mailbox
  \/ (m.key # 0 \/ step = "live") /\ mailbox' = Append(mailbox, m) /\ opens' = opens
  \/ /\ m.key # 0 /\ mailbox # <<>> /\ mailbox' = InsertAt(mailbox, Len(mailbox), m) /\ opens' = opens
     /\ Last(mailbox).from = m.from => m.from \in disturbed'

\* It has the largest number of its sender.
LEMMA SendsLast ==
  ASSUME SyncInv, NEW p, NEW m, Sends(p, m)
  PROVE  /\ \A x \in InFlight \cup Range(messages) : x.from = p => x.id < m.id
         /\ \A d \in Range(delivered[p]) : d < m.id
         /\ m.id \in Nat \ {0} /\ sent[p] \in Nat /\ m.id = sent[p] + 1 /\ p \in Peers
         /\ m.key = 0 \/ m.key = key[p]
         /\ key[p] \in Nat /\ key[p] <= sent[p]
<1>1. SyncTypeOK /\ MsgInv /\ CountInv
  BY DEF SyncInv
<1>2. p \in Peers /\ m.id = sent[p] + 1 /\ (m.key = 0 \/ m.key = key[p])
  BY DEF Sends
<1>3. sent[p] \in Nat /\ key[p] \in Nat /\ key[p] <= sent[p]
  BY <1>1, <1>2 DEF SyncTypeOK, MsgInv
<1>4. ASSUME NEW x \in InFlight, x.from = p PROVE x.id < m.id
  <2>1. x.id \in Nat /\ x.id <= sent[p]
    BY <1>1, <1>4, InFlightIs
  <2> QED BY <1>2, <1>3, <2>1
<1>5. ASSUME NEW x \in Range(messages), x.from = p PROVE x.id < m.id
  <2>1. x.id \in 1 .. sent[p]
    BY <1>1, <1>5, SentBefore
  <2> QED BY <1>2, <1>3, <2>1
<1>6. ASSUME NEW d \in Range(delivered[p]) PROVE d < m.id
  <2>1. d \in 1 .. sent[p]
    BY <1>1, <1>2, SentBefore
  <2> QED BY <1>2, <1>3, <2>1
<1> QED BY <1>2, <1>3, <1>4, <1>5, <1>6

\* The server has one message more.
LEMMA ComesSets ==
  ASSUME SyncTypeOK, NEW m \in Message, Comes(m), queue' = queue
  PROVE  /\ opens' \in Seq(Message) /\ mailbox' \in Seq(Message)
         /\ \A X : HowMany(opens', X) + HowMany(mailbox', X)
                     = HowMany(opens, X) + HowMany(mailbox, X) + (IF m \in X THEN 1 ELSE 0)
         /\ \/ opens' = opens /\ Range(mailbox') = Range(mailbox) \cup {m} /\ (m.key # 0 \/ step = "live")
            \/ /\ mailbox' = mailbox /\ Range(opens') = Range(opens) \cup {m} /\ m.key = 0 /\ step # "live"
         /\ Stored' = Stored \cup {m}
<1>1. opens \in Seq(Message) /\ mailbox \in Seq(Message)
  BY DEF SyncTypeOK
<1>2. \A X : HowMany(opens, X) \in Nat /\ HowMany(mailbox, X) \in Nat
  BY <1>1, AtFinite
<1>3. \A X : (IF m \in X THEN 1 ELSE 0) \in {0, 1}
  OBVIOUS
<1>4. CASE opens' = Append(opens, m) /\ mailbox' = mailbox /\ m.key = 0 /\ step # "live"
  <2>1. PICK s, t : s = opens /\ t = opens'
    OBVIOUS
  <2>2. s \in Seq(Message) /\ t = Append(s, m)
    BY <1>1, <1>4, <2>1
  <2>3. /\ t \in Seq(Message) /\ Range(t) = Range(s) \cup {m}
        /\ \A X : HowMany(t, X) = HowMany(s, X) + (IF m \in X THEN 1 ELSE 0)
    BY ONLY <2>2, m \in Message, EndCut
  <2>4. ASSUME NEW X
        PROVE  HowMany(opens', X) + HowMany(mailbox', X)
                 = HowMany(opens, X) + HowMany(mailbox, X) + (IF m \in X THEN 1 ELSE 0)
    <3>1. PICK o \in Nat, b \in Nat, e \in {0, 1} :
            o = HowMany(opens, X) /\ b = HowMany(mailbox, X) /\ e = IF m \in X THEN 1 ELSE 0
      BY <1>2, <1>3
    <3>2. HowMany(opens', X) = o + e /\ HowMany(mailbox', X) = b
      BY <1>4, <2>1, <2>3, <3>1
    <3>3. (o + e) + b = o + b + e
      OBVIOUS
    <3> QED BY <3>1, <3>2, <3>3
  <2>5. Stored' = Stored \cup {m}
    BY <1>4, <2>1, <2>3 DEF Stored
  <2> QED BY <1>1, <1>4, <2>1, <2>3, <2>4, <2>5
<1>5. CASE /\ mailbox' = Append(mailbox, m) \/ (mailbox # <<>> /\ mailbox' = InsertAt(mailbox, Len(mailbox), m))
           /\ opens' = opens /\ (m.key # 0 \/ step = "live")
  <2>1. PICK s, t : s = mailbox /\ t = mailbox'
    OBVIOUS
  <2>2. s \in Seq(Message) /\ (t = Append(s, m) \/ (s # <<>> /\ t = InsertAt(s, Len(s), m)))
    BY <1>1, <1>5, <2>1
  <2>3. /\ t \in Seq(Message) /\ Range(t) = Range(s) \cup {m}
        /\ \A X : HowMany(t, X) = HowMany(s, X) + (IF m \in X THEN 1 ELSE 0)
    <3>1. CASE t = Append(s, m)
      BY ONLY <2>2, <3>1, m \in Message, EndCut
    <3>2. CASE s # <<>> /\ t = InsertAt(s, Len(s), m)
      BY ONLY <2>2, <3>2, m \in Message, InsertedCut
    <3> QED BY <2>2, <3>1, <3>2
  <2>4. ASSUME NEW X
        PROVE  HowMany(opens', X) + HowMany(mailbox', X)
                 = HowMany(opens, X) + HowMany(mailbox, X) + (IF m \in X THEN 1 ELSE 0)
    <3>1. PICK o \in Nat, b \in Nat, e \in {0, 1} :
            o = HowMany(opens, X) /\ b = HowMany(mailbox, X) /\ e = IF m \in X THEN 1 ELSE 0
      BY <1>2, <1>3
    <3>2. HowMany(opens', X) = o /\ HowMany(mailbox', X) = b + e
      BY <1>5, <2>1, <2>3, <3>1
    <3>3. o + (b + e) = o + b + e
      OBVIOUS
    <3> QED BY <3>1, <3>2, <3>3
  <2>5. Stored' = Stored \cup {m}
    BY <1>5, <2>1, <2>3 DEF Stored
  <2> QED BY <1>1, <1>5, <2>1, <2>3, <2>4, <2>5
<1> QED BY <1>4, <1>5 DEF Comes

\* A message sent is in one place, where none was.
LEMMA ComesCounts ==
  ASSUME SyncInv, NEW p, NEW m, Sends(p, m), Comes(m)
  PROVE  CountInv'
<1>1. SyncTypeOK /\ CountInv
  BY DEF SyncInv
<1>2. m \in Message /\ m.from = p /\ UNCHANGED <<queue, messages, waiting, delivered, lost>>
  BY DEF Sends
<1>3. \A X : HowMany(opens', X) + HowMany(mailbox', X)
               = HowMany(opens, X) + HowMany(mailbox, X) + (IF m \in X THEN 1 ELSE 0)
  BY <1>1, <1>2, ComesSets
<1>4. opens' \in Seq(Message) /\ mailbox' \in Seq(Message)
  BY <1>1, <1>2, ComesSets
<1>5. p \in Peers /\ sent[p] \in Nat /\ m.id = sent[p] + 1
  BY SendsLast
<1>6. ASSUME NEW r \in Peers PROVE sent[r] \in Nat /\ sent'[r] = IF r = p THEN sent[r] + 1 ELSE sent[r]
  BY <1>1, <1>5 DEF SyncTypeOK, Sends
<1> SUFFICES ASSUME NEW r \in Peers, NEW n \in Nat \ {0}
             PROVE  Places(r, n)' = IF n <= sent'[r] THEN 1 ELSE 0
  BY DEF CountInv
<1>7. PICK o, b, q, w, g, d \in Nat, L \in {0, 1} :
        /\ o = HowMany(opens, Copies(r, n)) /\ b = HowMany(mailbox, Copies(r, n))
        /\ q = HowMany(queue, Copies(r, n)) /\ w = HowMany(waiting[r], Copies(r, n))
        /\ g = HowMany(messages, {[from |-> r, id |-> n]}) /\ d = HowMany(delivered[r], {n})
        /\ L = (IF [from |-> r, id |-> n] \in lost THEN 1 ELSE 0)
        /\ Places(r, n) = o + b + q + w + g + d + L
  BY ONLY <1>1, r \in Peers, n \in Nat \ {0}, Numbers
<1>8. PICK e \in {0, 1} : e = IF r = p /\ n = sent[p] + 1 THEN 1 ELSE 0
  <2>1. (IF r = p /\ n = sent[p] + 1 THEN 1 ELSE 0) \in {0, 1}
    OBVIOUS
  <2> QED BY <2>1
<1>9. (IF m \in Copies(r, n) THEN 1 ELSE 0) = e
  <2>1. m \in Copies(r, n) <=> m.from = r /\ m.id = n
    BY <1>2, CopiesAre
  <2>2. m \in Copies(r, n) <=> (r = p /\ n = sent[p] + 1)
    BY <1>2, <1>5, <2>1
  <2> QED BY <1>8, <2>2
<1>10. PICK o1 \in Nat, b1 \in Nat :
         o1 = HowMany(opens', Copies(r, n)) /\ b1 = HowMany(mailbox', Copies(r, n)) /\ o1 + b1 = o + b + e
  <2>1. HowMany(opens', Copies(r, n)) \in Nat /\ HowMany(mailbox', Copies(r, n)) \in Nat
    BY <1>4, AtFinite
  <2> QED BY <1>3, <1>7, <1>9, <2>1
<1>11. Places(r, n)' = o1 + b1 + q + w + g + d + L
  BY <1>2, <1>7, <1>10 DEF Places
<1>12. o1 + b1 + q + w + g + d + L = (o + b + q + w + g + d + L) + e
  BY ONLY <1>10, o \in Nat, b \in Nat, q \in Nat, w \in Nat, g \in Nat, d \in Nat, o1 \in Nat, b1 \in Nat,
          L \in {0, 1}, e \in {0, 1}
<1>13. Places(r, n) = IF n <= sent[r] THEN 1 ELSE 0
  BY <1>1 DEF CountInv
<1>14. (IF n <= sent[r] THEN 1 ELSE 0) + e = IF n <= sent'[r] THEN 1 ELSE 0
  BY <1>5, <1>6, <1>8
<1> QED BY <1>7, <1>11, <1>12, <1>13, <1>14
\* A message sent last comes last, unless its peer is disturbed.
LEMMA ComesOrder ==
  ASSUME SyncInv, NEW p, NEW m, Sends(p, m), Comes(m)
  PROVE  OrderInv'
<1>1. SyncTypeOK /\ PhaseInv /\ MsgInv /\ OrderInv
  BY DEF SyncInv
<1>2. /\ m \in Message /\ m.from = p /\ p \in Peers /\ UNCHANGED <<queue, messages, waiting>>
      /\ disturbed \subseteq disturbed'
      /\ (m.key = 0 /\ p \notin disturbed') => sent[p] = 0
  BY DEF Sends
<1>3. \A x \in InFlight \cup Range(messages) : x.from = p => x.id < m.id
  BY SendsLast
<1>4. /\ opens' \in Seq(Message) /\ mailbox' \in Seq(Message) /\ Stored' = Stored \cup {m}
      /\ \/ opens' = opens /\ Range(mailbox') = Range(mailbox) \cup {m} /\ (m.key # 0 \/ step = "live")
         \/ mailbox' = mailbox /\ Range(opens') = Range(opens) \cup {m} /\ m.key = 0 /\ step # "live"
  BY <1>1, <1>2, ComesSets
<1>5. PICK Y : Y = Placed'
  OBVIOUS
<1>6. Y \subseteq Placed
  BY <1>2, <1>5, PlacedMore DEF Placed
<1>7. opens \in Seq(Message) /\ mailbox \in Seq(Message) /\ Stored \subseteq InFlight /\ Waiting' = Waiting
  BY <1>1, <1>2 DEF SyncTypeOK, InFlight, Waiting
<1>8. Ordered(queue, Y) /\ Ordered(opens, Y) /\ Ordered(mailbox, Y) /\ Ordered(messages, Y)
  BY <1>1, <1>6, OrderedLess DEF OrderInv
<1>9. /\ Precede(Range(queue), Range(opens) \cup Range(mailbox), Y)
      /\ Precede(Range(opens), Range(mailbox), Y)
      /\ Precede(Range(messages) \cup Waiting, Stored, Y)
  BY <1>1, <1>6 DEF OrderInv, Precede
<1>10. \A A \in SUBSET (InFlight \cup Range(messages)) : Precede(A, {m}, Y)
  BY <1>2, <1>3 DEF Precede
<1>11. /\ Range(queue) \subseteq InFlight /\ Range(opens) \subseteq InFlight
       /\ Range(mailbox) \subseteq InFlight /\ Waiting \subseteq InFlight
  BY DEF InFlight, Stored
<1>12. Ordered(opens', Y)
  <2>1. CASE opens' = Append(opens, m)
    <3>1. PICK s, t : s = opens /\ t = opens'
      OBVIOUS
    <3>2. s \in Seq(Message) /\ t = Append(s, m)
      BY <1>7, <2>1, <3>1
    <3>3. \A X : (Ordered(s, X) /\ Precede(Range(s), {m}, X)) => Ordered(t, X)
      BY ONLY <1>2, <3>2, EndCut
    <3> QED BY <1>8, <1>10, <1>11, <3>1, <3>3
  <2>2. CASE opens' = opens
    BY <1>8, <2>2
  <2> QED BY <2>1, <2>2 DEF Comes
<1>13. Ordered(mailbox', Y)
  <2>1. PICK s, t : s = mailbox /\ t = mailbox'
    OBVIOUS
  <2>2. s \in Seq(Message) /\ Ordered(s, Y) /\ Precede(Range(s), {m}, Y)
    BY <1>7, <1>8, <1>10, <1>11, <2>1
  <2>3. CASE t = Append(s, m)
    <3>1. \A X : (Ordered(s, X) /\ Precede(Range(s), {m}, X)) => Ordered(t, X)
      BY ONLY <1>2, <2>2, <2>3, EndCut
    <3> QED BY <2>1, <2>2, <3>1
  <2>4. CASE /\ m.key # 0 /\ s # <<>> /\ t = InsertAt(s, Len(s), m)
             /\ Last(s).from = m.from => m.from \in disturbed'
    <3>1. /\ Last(s) \in Range(s)
          /\ \A X : (Ordered(s, X) /\ Precede(Range(s), {m}, X) /\ Precede({m}, {Last(s)}, X))
                      => Ordered(t, X)
      BY ONLY <1>2, <2>2, <2>4, InsertedCut
    <3>2. Last(s).from = m.from => m \notin Y
      BY <1>2, <1>5, <2>4, PlacedIs DEF Placed
    <3>3. Precede({m}, {Last(s)}, Y)
      BY <3>2 DEF Precede
    <3> QED BY <2>1, <2>2, <3>1, <3>3
  <2>5. CASE t = s
    BY <2>1, <2>2, <2>5
  <2> QED BY <2>1, <2>3, <2>4, <2>5 DEF Comes
<1>14. Precede(Range(queue), {m}, Y) /\ Precede(Range(opens), {m}, Y) /\ Precede(Range(messages) \cup Waiting, {m}, Y)
  BY <1>10, <1>11
<1>15. Precede(Range(queue), Range(opens') \cup Range(mailbox'), Y)
  BY <1>4, <1>9, <1>14 DEF Precede
<1>16. Precede(Range(messages) \cup Waiting, Stored', Y)
  BY <1>4, <1>9, <1>14 DEF Precede
<1>17. Precede(Range(opens'), Range(mailbox'), Y)
  <2>1. CASE opens' = opens /\ Range(mailbox') = Range(mailbox) \cup {m}
    BY <1>9, <1>14, <2>1 DEF Precede
  <2>2. CASE mailbox' = mailbox /\ Range(opens') = Range(opens) \cup {m} /\ m.key = 0 /\ step # "live"
    <3>1. ASSUME NEW b \in Range(mailbox), b \in Y, b.from = p PROVE FALSE
      <4>1. b \in Message /\ b \in InFlight
        BY <1>1, <1>11, FlightType
      <4>2. b.key # 0
        BY <1>1, <2>2 DEF PhaseInv
      <4>3. p \notin disturbed'
        BY <1>5, <3>1, <4>1, <4>2, PlacedIs DEF Placed
      <4>4. b.id \in Nat \ {0} /\ b.id <= sent[p]
        BY <1>1, <3>1, <4>1, InFlightIs
      <4> QED BY <1>2, <2>2, <4>3, <4>4
    <3>2. Precede({m}, Range(mailbox), Y)
      BY <1>2, <3>1 DEF Precede
    <3> QED BY <1>9, <2>2, <3>2 DEF Precede
  <2> QED BY <1>4, <2>1, <2>2
<1> QED BY <1>2, <1>5, <1>7, <1>8, <1>12, <1>13, <1>15, <1>16, <1>17 DEF OrderInv

\* A message sent is well formed, and its key is the last that was brought.
LEMMA ComesMsg ==
  ASSUME SyncInv, NEW p, NEW m, Sends(p, m), InFlight' = InFlight \cup {m}
  PROVE  MsgInv'
<1>1. SyncTypeOK /\ MsgInv
  BY DEF SyncInv
<1>2. /\ m \in Message /\ m.from = p /\ p \in Peers /\ m.id = sent[p] + 1 /\ waiting' = waiting
      /\ m.kind \in Openings <=> m.key = 0
      /\ m.next = IF m.kind = "msg" THEN 0 ELSE m.id
      /\ \A r \in Peers : key'[r] = IF r = p /\ m.next # 0 THEN m.next ELSE key[r]
      /\ \A r \in Peers : openings'[r] = 0 => openings[r] = 0 /\ r # p
  BY DEF Sends
<1>3. /\ \A x \in InFlight : x.from = p => x.id < m.id
      /\ m.id \in Nat \ {0} /\ sent[p] \in Nat /\ key[p] \in Nat /\ key[p] <= sent[p]
      /\ m.key = 0 \/ m.key = key[p]
  BY SendsLast
<1>4. ASSUME NEW r \in Peers
      PROVE  /\ sent[r] \in Nat /\ key[r] \in Nat
             /\ sent'[r] = IF r = p THEN sent[r] + 1 ELSE sent[r]
             /\ key[r] <= sent[r] /\ (openings[r] = 0 => sent[r] = 0)
  BY <1>1 DEF SyncTypeOK, MsgInv, Sends
<1>5. \A r \in Peers : key[r] <= key'[r] /\ sent[r] <= sent'[r] /\ key'[r] \in Nat /\ sent'[r] \in Nat
  BY <1>2, <1>3, <1>4
<1>6. ASSUME NEW r \in Peers PROVE key'[r] <= sent'[r] /\ (openings'[r] = 0 => sent'[r] = 0)
  BY <1>2, <1>3, <1>4
<1>7. \A r \in Peers : \A x \in Range(waiting'[r]) : x.from = r /\ x.key # 0
  BY <1>1, <1>2 DEF MsgInv
<1>8. ASSUME NEW x \in InFlight' PROVE Wellformed(x)'
  <2>1. CASE x \in InFlight
    <3>1. /\ x.from \in Peers /\ x.id \in Nat \ {0} /\ x.next \in Nat /\ x.key \in Nat
          /\ x.id <= sent[x.from] /\ x.next <= key[x.from] /\ x.key <= key[x.from] /\ x.key < x.id
          /\ x.kind \in Openings <=> x.key = 0
          /\ x.next = IF x.kind = "msg" THEN 0 ELSE x.id
      BY <1>1, <2>1, InFlightIs
    <3>2. /\ key[x.from] <= key'[x.from] /\ sent[x.from] <= sent'[x.from]
          /\ key'[x.from] \in Nat /\ sent'[x.from] \in Nat /\ key[x.from] \in Nat /\ sent[x.from] \in Nat
      BY <1>4, <1>5, <3>1
    <3>3. x.id \in 1 .. sent'[x.from] /\ x.next <= key'[x.from] /\ x.key <= key'[x.from]
      BY <3>1, <3>2
    <3> QED BY <3>1, <3>3 DEF Wellformed
  <2>2. CASE x = m
    <3>1. sent'[p] = sent[p] + 1 /\ m.id \in 1 .. sent'[p]
      BY <1>2, <1>3, <1>4
    <3>2. m.next <= key'[p] /\ m.key <= key'[p] /\ m.key < m.id
      BY <1>2, <1>3, <1>5
    <3> QED BY <1>2, <2>2, <3>1, <3>2 DEF Wellformed
  <2> QED BY <2>1, <2>2
<1>9. ASSUME NEW a \in InFlight', NEW b \in InFlight', a.from = b.from, a.id < b.id, b.key # 0
      PROVE  a.next <= b.key
  <2>1. CASE a \in InFlight /\ b \in InFlight
    BY <1>1, <1>9, <2>1 DEF MsgInv
  <2>2. CASE a \in InFlight /\ b = m
    <3>1. a.next <= key[a.from]
      BY <1>1, <2>2, InFlightIs
    <3> QED BY <1>2, <1>3, <1>9, <2>2, <3>1
  <2>3. CASE a = m
    <3>1. b.id <= m.id /\ b.id \in Nat
      <4>1. CASE b = m
        BY <1>3, <4>1
      <4>2. CASE b \in InFlight
        BY <1>1, <1>2, <1>3, <1>9, <2>3, <4>2, InFlightIs
      <4> QED BY <4>1, <4>2
    <3> QED BY <1>3, <1>9, <2>3, <3>1
  <2> QED BY <2>1, <2>2, <2>3
<1> QED BY <1>6, <1>7, <1>8, <1>9 DEF MsgInv

\* A new rotation starts from the newest key of its peer.
LEMMA ComesKeys ==
  ASSUME SyncInv, NEW p, NEW m, Sends(p, m), InFlight' = InFlight \cup {m}
  PROVE  KeyInv' /\ (m.key \in KeysOf(p) => m.key = sess[p]) /\ (key[p] \in KeysOf(p) => key[p] = sess[p])
<1>1. SyncTypeOK /\ MsgInv /\ KeyInv
  BY DEF SyncInv
<1>2. /\ m.from = p /\ p \in Peers /\ UNCHANGED <<known, sess>>
      /\ m.kind \in Openings <=> m.key = 0
      /\ m.next = IF m.kind = "msg" THEN 0 ELSE m.id
      /\ \A r \in Peers : key'[r] = IF r = p /\ m.next # 0 THEN m.next ELSE key[r]
  BY DEF Sends
<1>3. /\ m.id \in Nat \ {0} /\ sent[p] \in Nat /\ m.id = sent[p] + 1 /\ key[p] \in Nat /\ key[p] <= sent[p]
      /\ m.key = 0 \/ m.key = key[p]
  BY SendsLast
<1>4. sess[p] \in Nat /\ sess[p] <= key[p] /\ KeysOf(p) \subseteq Nat \ {0} /\ \A k \in KeysOf(p) : k <= sess[p]
  BY <1>1, <1>2, KeysOfIs DEF SyncTypeOK, KeyInv
<1>5. key[p] \in KeysOf(p) => key[p] = sess[p]
  BY <1>3, <1>4
<1>6. m.key \in KeysOf(p) => m.key = sess[p]
  BY <1>3, <1>4, <1>5
<1>7. \A r : KeysOf(r)' = KeysOf(r)
  BY <1>2 DEF KeysOf
<1>8. ASSUME NEW r \in Peers
      PROVE  /\ sess'[r] <= key'[r] /\ known'[r] \subseteq 1 .. sess'[r]
             /\ known'[r] # {} => sess'[r] \in known'[r]
  <2>1. sess[r] <= key[r] /\ known[r] \subseteq 1 .. sess[r] /\ (known[r] # {} => sess[r] \in known[r])
    BY <1>1 DEF KeyInv
  <2> QED BY <1>2, <1>3, <1>4, <2>1
<1>9. ASSUME NEW x \in InFlight'
      PROVE  /\ (x.kind = "rotate" /\ x.key \in KeysOf(x.from)') => x.key = sess'[x.from]
             /\ x.key = 0 => sess'[x.from] < x.next
  <2>1. CASE x \in InFlight
    BY <1>1, <1>2, <1>7, <2>1 DEF KeyInv
  <2>2. CASE x = m
    <3>1. m.key = 0 => m.next = m.id
      BY <1>2 DEF Openings
    <3> QED BY <1>2, <1>3, <1>4, <1>6, <1>7, <2>2, <3>1
  <2> QED BY <2>1, <2>2
<1> QED BY <1>5, <1>6, <1>8, <1>9 DEF KeyInv

\* The key of a message sent is introduced.
LEMMA ComesLoss ==
  ASSUME SyncInv, NEW p, NEW m, Sends(p, m), InFlight' = InFlight \cup {m},
         Range(mailbox') \subseteq Range(mailbox) \cup {m}
  PROVE  LossInv'
<1>1. SyncTypeOK /\ MsgInv /\ LossInv
  BY DEF SyncInv
<1>2. /\ m.from = p /\ p \in Peers /\ UNCHANGED <<known, sess, waiting, lost, failed, stops>>
      /\ disturbed \subseteq disturbed'
      /\ m.key # 0 => m.key = key[p]
      /\ \A r \in Peers : key'[r] = IF r = p /\ m.next # 0 THEN m.next ELSE key[r]
  BY DEF Sends
<1>3. \A r : KeysOf(r)' = KeysOf(r)
  BY <1>2 DEF KeysOf
<1>4. m.key \in KeysOf(p) => m.key = sess[p]
  BY ComesKeys
<1> SUFFICES ASSUME stops = 0, NEW r \in Peers \ Unsure'
             PROVE  /\ waiting'[r] = <<>> /\ \A c \in lost' : c.from # r
                    /\ key'[r] # 0 => Introduced(r, key[r])'
                    /\ \A x \in InFlight' : (x.from = r /\ x.key # 0) => Introduced(r, x.key)'
                    /\ \A x \in Range(mailbox') : (x.from = r /\ x.key \in KeysOf(r)') => x.key = sess'[r]
  BY <1>2 DEF LossInv
<1>5. /\ waiting[r] = <<>> /\ \A c \in lost : c.from # r
      /\ key[r] # 0 => Introduced(r, key[r])
      /\ \A x \in InFlight : (x.from = r /\ x.key # 0) => Introduced(r, x.key)
      /\ \A x \in Range(mailbox) : (x.from = r /\ x.key \in KeysOf(r)) => x.key = sess[r]
  <2>1. r \in Peers \ Unsure
    BY <1>2 DEF Unsure
  <2> QED BY ONLY <1>1, <2>1, stops = 0 DEF LossInv
<1>6. ASSUME NEW k, Introduced(r, k) PROVE Introduced(r, k)'
  BY <1>3, <1>6 DEF Introduced
<1>7. key'[r] # 0 => Introduced(r, key[r])'
  <2>1. PICK k : k = key'[r]
    OBVIOUS
  <2>2. CASE r = p /\ m.next # 0
    <3>1. k = m.next
      BY <1>2, <2>1, <2>2
    <3>2. Introduced(r, k)'
      BY <1>2, <2>2, <3>1 DEF Introduced
    <3> QED BY <2>1, <3>2 DEF Introduced
  <2>3. CASE ~(r = p /\ m.next # 0)
    <3>1. k = key[r]
      BY <1>2, <2>1, <2>3
    <3>2. k # 0 => Introduced(r, k)'
      BY <1>5, <1>6, <3>1
    <3> QED BY <2>1, <3>2 DEF Introduced
  <2> QED BY <2>2, <2>3
<1>8. ASSUME NEW x \in InFlight', x.from = r, x.key # 0 PROVE Introduced(r, x.key)'
  <2>1. CASE x \in InFlight
    BY <1>5, <1>6, <1>8, <2>1
  <2>2. CASE x = m
    <3>1. PICK k : k = key[r]
      OBVIOUS
    <3>2. x.key = k /\ k # 0
      BY <1>2, <1>8, <2>2, <3>1
    <3>3. Introduced(r, k)'
      BY <1>5, <1>6, <3>1, <3>2
    <3> QED BY <3>2, <3>3
  <2> QED BY <2>1, <2>2
<1>9. \A x \in Range(mailbox') : (x.from = r /\ x.key \in KeysOf(r)') => x.key = sess'[r]
  BY <1>2, <1>3, <1>4, <1>5
<1> QED BY <1>2, <1>5, <1>7, <1>8, <1>9

\* A message sent is newer than what was delivered.
LEMMA ComesDelivery ==
  ASSUME SyncInv, NEW p, NEW m, Sends(p, m), InFlight' = InFlight \cup {m}, Stored' = Stored \cup {m}
  PROVE  DeliveryInv'
<1>1. DeliveryInv
  BY DEF SyncInv
<1>2. /\ m.from = p /\ m.id = sent[p] + 1 /\ UNCHANGED <<messages, delivered>>
      /\ disturbed \subseteq disturbed'
      /\ (m.key = 0 /\ p \notin disturbed') => m.kind = "open" /\ sent[p] = 0
  BY DEF Sends
<1>3. \A d \in Range(delivered[p]) : d < m.id
  BY SendsLast
<1> SUFFICES ASSUME NEW r \in Peers \ disturbed'
             PROVE  /\ OrderKept(r)'
                    /\ \A d \in Range(delivered'[r]), x \in Stored' \cup Range(messages') : x.from = r => d < x.id
                    /\ \A x \in InFlight' : (x.from = r /\ x.key = 0) => x.kind = "open" /\ x.id = 1
  BY DEF DeliveryInv
<1>4. /\ OrderKept(r)
      /\ \A d \in Range(delivered[r]), x \in Stored \cup Range(messages) : x.from = r => d < x.id
      /\ \A x \in InFlight : (x.from = r /\ x.key = 0) => x.kind = "open" /\ x.id = 1
  BY <1>1, <1>2 DEF DeliveryInv
<1>5. OrderKept(r)'
  BY <1>2, <1>4 DEF OrderKept
<1>6. \A d \in Range(delivered'[r]), x \in Stored' \cup Range(messages') : x.from = r => d < x.id
  BY <1>2, <1>3, <1>4
<1>7. \A x \in InFlight' : (x.from = r /\ x.key = 0) => x.kind = "open" /\ x.id = 1
  BY <1>2, <1>4
<1> QED BY <1>5, <1>6, <1>7

\* All that peers send.
LEMMA SendsStep ==
  ASSUME SyncInv, NEW p, NEW m, Sends(p, m), Comes(m)
  PROVE  SyncInv' /\ sess' = sess
<1>1. SyncTypeOK /\ PhaseInv /\ WaitInv
  BY DEF SyncInv
<1>2. /\ p \in Peers /\ m \in Message /\ m.from = p
      /\ key' \in [Peers -> Nat] /\ openings' \in [Peers -> Nat] /\ overtakes' \in Nat
      /\ sent' = [sent EXCEPT ![p] = @ + 1] /\ disturbed' \subseteq disturbed \cup {p}
      /\ disturbed \subseteq disturbed'
      /\ (m.key = 0 /\ p \notin disturbed') => step \notin Fetched
      /\ UNCHANGED <<step, queue, messages, waiting, known, pending, sess, stored, unknown, delivered, lost,
                     failed, gone, stops>>
  BY DEF Sends
<1>3. /\ opens' \in Seq(Message) /\ mailbox' \in Seq(Message) /\ Stored' = Stored \cup {m}
      /\ \/ opens' = opens /\ Range(mailbox') = Range(mailbox) \cup {m} /\ (m.key # 0 \/ step = "live")
         \/ mailbox' = mailbox /\ Range(opens') = Range(opens) \cup {m} /\ m.key = 0 /\ step # "live"
  BY <1>1, <1>2, ComesSets
<1>4. InFlight' = InFlight \cup {m}
  <2>1. Waiting' = Waiting
    BY <1>2 DEF Waiting
  <2> QED BY <1>3, <2>1 DEF InFlight
<1>5. Range(mailbox') \subseteq Range(mailbox) \cup {m}
  BY <1>3
<1>6. SyncTypeOK'
  <2>1. sent' \in [Peers -> Nat]
    BY <1>1, <1>2 DEF SyncTypeOK
  <2>2. disturbed' \subseteq Peers
    BY <1>1, <1>2 DEF SyncTypeOK
  <2> QED BY <1>1, <1>2, <1>3, <2>1, <2>2 DEF SyncTypeOK
<1>7. PhaseInv'
  <2>1. step = "live" => opens' = <<>>
    BY <1>1, <1>3 DEF PhaseInv
  <2>2. step \in Fetched => \A x \in Range(opens') : x.from \in disturbed'
    <3>1. step \in Fetched => \A x \in Range(opens) : x.from \in disturbed
      BY <1>1 DEF PhaseInv
    <3> QED BY <1>2, <1>3, <3>1
  <2>3. step # "live" => /\ \A x \in Range(opens') : x.key = 0
                         /\ \A x \in Range(mailbox') : x.key # 0
    <3>1. step # "live" => /\ \A x \in Range(opens) : x.key = 0
                           /\ \A x \in Range(mailbox) : x.key # 0
      BY <1>1 DEF PhaseInv
    <3> QED BY <1>3, <3>1
  <2> QED BY <1>1, <1>2, <2>1, <2>2, <2>3 DEF PhaseInv
<1>8. MsgInv' /\ KeyInv' /\ LossInv' /\ DeliveryInv'
  BY <1>3, <1>4, <1>5, ComesMsg, ComesKeys, ComesLoss, ComesDelivery
<1>9. CountInv' /\ OrderInv'
  BY ComesCounts, ComesOrder
<1>10. WaitInv'
  BY <1>1, <1>2 DEF WaitInv
<1> QED BY <1>2, <1>6, <1>7, <1>8, <1>9, <1>10 DEF SyncInv
-----------------------------------------------------------------------------
(* What the peers do.                                                      *)

\* The invariant is kept by an opening that is sent.
LEMMA PeerOpensStep ==
  ASSUME SyncInv, NEW p \in Peers, NEW kind \in Openings, PeerOpens(p, kind)
  PROVE  SyncInv' /\ sess' = sess
<1>1. PICK m : m = [kind |-> kind, from |-> p, key |-> 0, next |-> sent[p] + 1, id |-> sent[p] + 1]
  OBVIOUS
<1>2. /\ sent' = [sent EXCEPT ![p] = @ + 1] /\ key' = [key EXCEPT ![p] = sent[p] + 1]
      /\ openings' = [openings EXCEPT ![p] = @ + 1]
      /\ IF step = "live" THEN mailbox' = Append(mailbox, m) /\ opens' = opens
                          ELSE opens' = Append(opens, m) /\ mailbox' = mailbox
      /\ disturbed' = IF kind # "open" \/ openings[p] > 0 \/ step \in Syncing \ {"prekeys"}
                      THEN disturbed \cup {p} ELSE disturbed
      /\ UNCHANGED <<step, queue, messages, known, pending, waiting, sess, stored, unknown, delivered, lost,
                     overtakes, failed, gone, stops>>
  BY <1>1 DEF PeerOpens, iterator, storage, counters
<1>3. SyncTypeOK /\ MsgInv
  BY DEF SyncInv
<1>4. /\ sent \in [Peers -> Nat] /\ key \in [Peers -> Nat] /\ openings \in [Peers -> Nat] /\ overtakes \in Nat
      /\ sent[p] + 1 \in Nat \ {0}
  BY <1>3 DEF SyncTypeOK
<1>5. /\ m \in Message /\ m.from = p /\ m.key = 0 /\ m.id = sent[p] + 1 /\ m.next = m.id /\ m.kind = kind
      /\ m.next # 0
  BY <1>1, <1>4 DEF Message, Kinds, Openings
<1>6. p \notin disturbed' => m.kind = "open" /\ sent[p] = 0 /\ step \notin Fetched
  <2>1. ASSUME p \notin disturbed' PROVE kind = "open" /\ ~(openings[p] > 0) /\ step \notin Syncing \ {"prekeys"}
    BY <1>2, <2>1
  <2>2. ~(openings[p] > 0) => sent[p] = 0
    BY <1>3, <1>4 DEF MsgInv
  <2>3. step \notin Syncing \ {"prekeys"} => step \notin Fetched
    BY DEF Syncing, Fetched
  <2> QED BY <1>5, <2>1, <2>2, <2>3
<1>7. /\ key' \in [Peers -> Nat] /\ openings' \in [Peers -> Nat]
      /\ \A q \in Peers : key'[q] = IF q = p THEN m.next ELSE key[q]
      /\ \A q \in Peers : openings'[q] = 0 => openings[q] = 0 /\ q # p
  BY <1>2, <1>4, <1>5
<1>8. Sends(p, m)
  <2>1. m.kind \in Openings /\ m.kind # "msg"
    BY <1>5 DEF Openings
  <2>2. disturbed \subseteq disturbed' /\ disturbed' \subseteq disturbed \cup {p}
    BY <1>2
  <2> QED BY <1>2, <1>4, <1>5, <1>6, <1>7, <2>1, <2>2 DEF Sends
<1>9. Comes(m)
  BY <1>2, <1>5 DEF Comes
<1> QED BY <1>8, <1>9, SendsStep

\* A message or a rotation, encrypted with the current key.
Writes(p, m) ==
  /\ m \in Message /\ m.from = p /\ m.id = sent[p] + 1 /\ m.key = key[p] /\ key[p] # 0
  /\ \/ m.kind = "msg" /\ m.next = 0 /\ key' = key
     \/ m.kind = "rotate" /\ m.next = m.id /\ key' = [key EXCEPT ![p] = m.next]
  /\ sent' = [sent EXCEPT ![p] = @ + 1] /\ Arrives(m)
  /\ UNCHANGED <<step, queue, messages, known, pending, waiting, sess, stored, unknown, opens, openings,
                 delivered, lost, failed, gone, stops>>

\* A message or a rotation that is sent keeps the invariant.
LEMMA WritesStep ==
  ASSUME SyncInv, NEW p \in Peers, NEW m, Writes(p, m)
  PROVE  SyncInv' /\ sess' = sess
<1>9. /\ m \in Message /\ m.from = p /\ m.id = sent[p] + 1 /\ m.key = key[p] /\ key[p] # 0
      /\ \/ m.kind = "msg" /\ m.next = 0 /\ key' = key
         \/ m.kind = "rotate" /\ m.next = m.id /\ key' = [key EXCEPT ![p] = m.next]
      /\ sent' = [sent EXCEPT ![p] = @ + 1] /\ Arrives(m)
      /\ UNCHANGED <<step, queue, messages, known, pending, waiting, sess, stored, unknown, opens, openings,
                     delivered, lost, failed, gone, stops>>
  BY DEF Writes
<1>1. SyncTypeOK /\ MsgInv
  BY DEF SyncInv
<1>2. /\ sent \in [Peers -> Nat] /\ key \in [Peers -> Nat] /\ openings \in [Peers -> Nat] /\ overtakes \in Nat
      /\ m.next \in Nat
  BY <1>1, <1>9, MessageIs DEF SyncTypeOK
<1>3. openings[p] # 0
  <2>1. key[p] <= sent[p] /\ (openings[p] = 0 => sent[p] = 0)
    BY <1>1 DEF MsgInv
  <2> QED BY <1>2, <1>9, <2>1
<1>4. /\ disturbed \subseteq disturbed' /\ disturbed' \subseteq disturbed \cup {p} /\ overtakes' \in Nat
      /\ Comes(m)
  <2>1. CASE mailbox' = Append(mailbox, m) /\ UNCHANGED <<disturbed, overtakes>>
    BY <1>2, <1>9, <2>1 DEF Comes
  <2>2. CASE /\ mailbox # <<>>
             /\ mailbox' = InsertAt(mailbox, Len(mailbox), m)
             /\ disturbed' = IF Last(mailbox).from = m.from THEN disturbed \cup {m.from} ELSE disturbed
             /\ overtakes' = overtakes + 1
    BY <1>2, <1>9, <2>2 DEF Comes
  <2> QED BY <1>9, <2>1, <2>2 DEF Arrives
<1>5. \A q \in Peers : key'[q] = IF q = p /\ m.next # 0 THEN m.next ELSE key[q]
  BY <1>2, <1>9
<1>6. key' \in [Peers -> Nat]
  BY <1>2, <1>9
<1>7. m.kind \notin Openings /\ m.next = IF m.kind = "msg" THEN 0 ELSE m.id
  BY <1>9 DEF Openings
<1>8. Sends(p, m)
  BY <1>2, <1>3, <1>4, <1>5, <1>6, <1>7, <1>9 DEF Sends
<1> QED BY <1>4, <1>8, SendsStep

\* The invariant is kept by a message that is sent.
LEMMA PeerSendsStep ==
  ASSUME SyncInv, NEW p \in Peers, PeerSends(p)
  PROVE  SyncInv' /\ sess' = sess
<1>1. PICK m : m = [kind |-> "msg", from |-> p, key |-> key[p], next |-> 0, id |-> sent[p] + 1]
  OBVIOUS
<1>2. sent \in [Peers -> Nat] /\ key \in [Peers -> Nat]
  BY DEF SyncInv, SyncTypeOK
<1>3. /\ m \in Message /\ m.kind = "msg" /\ m.from = p /\ m.id = sent[p] + 1 /\ m.key = key[p] /\ m.next = 0
  BY <1>1, <1>2 DEF Message, Kinds
<1>4. /\ key[p] # 0 /\ sent' = [sent EXCEPT ![p] = @ + 1] /\ Arrives(m) /\ key' = key
      /\ UNCHANGED <<step, queue, messages, known, pending, waiting, sess, stored, unknown, opens, openings,
                     delivered, lost, failed, gone, stops>>
  BY <1>1 DEF PeerSends, iterator, storage
<1> QED BY <1>3, <1>4, WritesStep DEF Writes

\* The invariant is kept by a rotation that is sent.
LEMMA PeerRotatesStep ==
  ASSUME SyncInv, NEW p \in Peers, PeerRotates(p)
  PROVE  SyncInv' /\ sess' = sess
<1>1. PICK m : m = [kind |-> "rotate", from |-> p, key |-> key[p], next |-> sent[p] + 1, id |-> sent[p] + 1]
  OBVIOUS
<1>2. sent \in [Peers -> Nat] /\ key \in [Peers -> Nat] /\ sent[p] + 1 \in Nat \ {0}
  BY DEF SyncInv, SyncTypeOK
<1>3. /\ m \in Message /\ m.kind = "rotate" /\ m.from = p /\ m.id = sent[p] + 1 /\ m.key = key[p]
      /\ m.next = m.id /\ m.next # 0
  BY <1>1, <1>2 DEF Message, Kinds
<1>4. /\ key[p] # 0 /\ sent' = [sent EXCEPT ![p] = @ + 1] /\ Arrives(m) /\ key' = [key EXCEPT ![p] = m.next]
      /\ UNCHANGED <<step, queue, messages, known, pending, waiting, sess, stored, unknown, opens, openings,
                     delivered, lost, failed, gone, stops>>
  BY <1>1, <1>3 DEF PeerRotates, iterator, storage
<1> QED BY <1>3, <1>4, WritesStep DEF Writes

-----------------------------------------------------------------------------
(* The theorems.                                                           *)

\* The invariant holds at the start.
LEMMA SyncStarts == SyncInit => SyncInv
<1> SUFFICES ASSUME SyncInit PROVE SyncInv
  OBVIOUS
<1>1. /\ step = "off" /\ queue = <<>> /\ messages = <<>> /\ pending = {}
      /\ waiting = [p \in Peers |-> <<>>] /\ known = [p \in Peers |-> {}]
      /\ sess = [p \in Peers |-> 0] /\ stored = [p \in Peers |-> {}]
      /\ unknown = Strangers
      /\ opens = <<>> /\ mailbox = <<>>
      /\ sent = [p \in Peers |-> 0] /\ key = [p \in Peers |-> 0]
      /\ openings = [p \in Peers |-> 0] /\ gone = {} /\ failed = {}
      /\ delivered = [p \in Peers |-> <<>>] /\ lost = {} /\ disturbed = {}
      /\ overtakes = 0 /\ stops = 0
  BY DEF SyncInit
<1>2. SyncTypeOK
  <2>1. /\ queue \in Seq(Message) /\ messages \in Seq(Chats) /\ opens \in Seq(Message) /\ mailbox \in Seq(Message)
    BY <1>1
  <2>2. waiting \in [Peers -> Seq(Message)] /\ delivered \in [Peers -> Seq(Nat \ {0})]
    BY <1>1
  <2>3. /\ known \in [Peers -> SUBSET (Nat \ {0})] /\ stored \in [Peers -> SUBSET (Nat \ {0})]
        /\ sess \in [Peers -> Nat] /\ sent \in [Peers -> Nat] /\ key \in [Peers -> Nat]
        /\ openings \in [Peers -> Nat]
        /\ \A p \in Peers : sess[p] # 0 => sess[p] \in stored[p]
    BY <1>1
  <2> QED BY <1>1, <2>1, <2>2, <2>3 DEF SyncTypeOK
<1>3. /\ Range(queue) = {} /\ Range(opens) = {} /\ Range(mailbox) = {} /\ Range(messages) = {}
      /\ \A p \in Peers : Range(waiting[p]) = {} /\ Range(delivered[p]) = {}
  BY <1>1, RangeOne
<1>4. Stored = {} /\ Waiting = {} /\ InFlight = {}
  BY <1>3 DEF Stored, Waiting, InFlight
<1>5. PhaseInv
  BY <1>1, <1>3 DEF PhaseInv, Fetched
<1>6. MsgInv
  BY <1>1, <1>3, <1>4 DEF MsgInv
<1>7. CountInv
  <2> SUFFICES ASSUME NEW p \in Peers, NEW n \in Nat \ {0} PROVE Places(p, n) = 0
    BY <1>1 DEF CountInv
  <2>1. /\ HowMany(opens, Copies(p, n)) = 0 /\ HowMany(mailbox, Copies(p, n)) = 0
        /\ HowMany(queue, Copies(p, n)) = 0 /\ HowMany(waiting[p], Copies(p, n)) = 0
        /\ HowMany(messages, {[from |-> p, id |-> n]}) = 0 /\ HowMany(delivered[p], {n}) = 0
    BY <1>1, CountEmpty
  <2> QED BY <1>1, <2>1 DEF Places
<1>8. WaitInv
  BY <1>1 DEF WaitInv, Syncing
<1>9. KeyInv
  BY <1>1, <1>4 DEF KeyInv
<1>10. OrderInv
  BY <1>1, <1>3, <1>4, OrderedOne DEF OrderInv, Precede
<1>11. DeliveryInv
  BY <1>1, <1>3, <1>4 DEF DeliveryInv, OrderKept
<1>12. LossInv
  BY <1>1, <1>3, <1>4 DEF LossInv
<1> QED BY <1>2, <1>5, <1>6, <1>7, <1>8, <1>9, <1>10, <1>11, <1>12 DEF SyncInv

\* Each step keeps the invariant, and no session goes back to an older key.
LEMMA SyncSteps ==
  ASSUME SyncInv, [SyncNext]_syncVars
  PROVE  SyncInv' /\ \A p \in Peers : sess'[p] >= sess[p]
<1>1. \A p \in Peers : sess[p] \in Nat
  BY DEF SyncInv, SyncTypeOK
<1>2. sess' = sess => \A p \in Peers : sess'[p] >= sess[p]
  BY <1>1
<1>3. CASE \E p \in Peers : \E kind \in {"open", "badOpen", "noOpenConv"} : PeerOpens(p, kind)
  <2>1. PICK p \in Peers, kind \in Openings : PeerOpens(p, kind)
    BY <1>3 DEF Openings
  <2> QED BY <1>2, <2>1, PeerOpensStep
<1>4. CASE \E p \in Peers : PeerSends(p) \/ PeerRotates(p)
  BY <1>2, <1>4, PeerSendsStep, PeerRotatesStep
<1>5. CASE Start
  <2>1. sess' = sess
    BY <1>5 DEF Start, storage
  <2> QED BY <1>2, <1>5, <2>1, StartStep
<1>6. CASE Iterator
  <2>1. CASE ReturnDecrypted
    <3>1. sess' = sess
      BY <2>1 DEF ReturnDecrypted, storage
    <3> QED BY <1>2, <2>1, <3>1, ReturnStep
  <2>2. CASE SyncPrekeys
    <3>1. sess' = sess
      BY <2>2 DEF SyncPrekeys, storage
    <3> QED BY <1>2, <2>2, <3>1, PrekeysStep
  <2>3. CASE SyncInitialMessages
    <3>1. sess' = sess
      BY <2>3 DEF SyncInitialMessages, storage
    <3> QED BY <1>2, <2>3, <3>1, InitialStep
  <2>4. CASE SyncConversationMessages
    <3>1. sess' = sess
      BY <2>4 DEF SyncConversationMessages, storage
    <3> QED BY <1>2, <2>4, <3>1, ConversationStep
  <2>5. CASE FinalPrekeys
    <3>1. sess' = sess
      BY <2>5 DEF FinalPrekeys, storage
    <3> QED BY <1>2, <2>5, <3>1, FinalStep
  <2>6. CASE ResolvePeer
    <3>1. sess' = sess
      BY <2>6 DEF ResolvePeer
    <3> QED BY <1>2, <2>6, <3>1, ResolveStep
  <2>14. CASE ResolveFails
    <3>1. sess' = sess
      BY <2>14 DEF ResolveFails, storage
    <3> QED BY <1>2, <2>14, <3>1, ResolveFailsStep
  <2>7. CASE Finish
    <3>1. sess' = sess
      BY <2>7 DEF Finish
    <3> QED BY <1>2, <2>7, <3>1, FinishStep
  <2>8. CASE OpenFails
    <3>1. sess' = sess
      BY <2>8 DEF OpenFails, storage
    <3> QED BY <1>2, <2>8, <3>1, OpenFailsStep
  <2>9. CASE ProcessOpenConversation
    BY <2>9, OpenStep
  <2>10. CASE NoSession
    <3>1. sess' = sess
      BY <2>10 DEF NoSession, storage
    <3> QED BY <1>2, <2>10, <3>1, NoSessionStep
  <2>11. CASE Decrypt
    <3>1. sess' = sess
      BY <2>11 DEF Decrypt, storage
    <3> QED BY <1>2, <2>11, <3>1, DecryptStep
  <2>12. CASE Wait
    <3>1. sess' = sess
      BY <2>12 DEF Wait, storage
    <3> QED BY <1>2, <2>12, <3>1, WaitStep
  <2>13. CASE Rotate
    BY <2>13, RotateStep
  <2> QED BY <1>6, <2>1, <2>2, <2>3, <2>4, <2>5, <2>6, <2>7, <2>8, <2>9, <2>10, <2>11, <2>12, <2>13, <2>14
          DEF Iterator
<1>7. CASE Worker
  <2>1. CASE LiveOpen
    BY <2>1, LiveOpenStep
  <2>2. CASE LiveMessage
    <3>1. sess' = sess
      BY <2>2 DEF LiveMessage, storage
    <3> QED BY <1>2, <2>2, <3>1, LiveMessageStep
  <2>3. CASE LiveCache
    <3>1. sess' = sess
      BY <2>3 DEF LiveCache, storage
    <3> QED BY <1>2, <2>3, <3>1, LiveCacheStep
  <2>4. CASE LiveStops
    <3>1. sess' = sess
      BY <2>4 DEF LiveStops, storage
    <3> QED BY <1>2, <2>4, <3>1, LiveStopsStep
  <2> QED BY <1>7, <2>1, <2>2, <2>3, <2>4 DEF Worker
<1>8. CASE Stop
  <2>1. sess' = sess
    BY <1>8 DEF Stop, storage
  <2> QED BY <1>2, <1>8, <2>1, StopStep
<1>9. CASE AnswerLost
  <2>1. sess' = sess
    BY <1>9 DEF AnswerLost, storage
  <2> QED BY <1>2, <1>9, <2>1, AnswerLostStep
<1>10. CASE UNCHANGED syncVars
  <2>1. UNCHANGED <<step, queue, messages, waiting, known, pending, sess, stored, unknown, opens, mailbox, sent,
                    key, openings, delivered, lost, disturbed, overtakes, failed, gone, stops>>
    BY <1>10 DEF syncVars, iterator, storage, server, peers, history, counters
  <2>2. SyncTypeOK /\ PhaseInv /\ WaitInv
    BY DEF SyncInv
  <2>3. SyncTypeOK' /\ PhaseInv' /\ WaitInv'
    BY <2>1, <2>2 DEF SyncTypeOK, PhaseInv, WaitInv
  <2>4. MsgInv' /\ CountInv' /\ KeyInv' /\ OrderInv' /\ DeliveryInv' /\ LossInv'
    BY <2>1, Quiet
  <2> QED BY <1>2, <2>1, <2>3, <2>4 DEF SyncInv
<1> QED BY <1>3, <1>4, <1>5, <1>6, <1>7, <1>8, <1>9, <1>10 DEF SyncNext

\* The strengthening holds in every reachable state of the synchronization.
THEOREM SyncInvHolds == SyncSpec => []SyncInv
<1>1. SyncInit => SyncInv
  BY SyncStarts
<1>2. SyncInv /\ [SyncNext]_syncVars => SyncInv'
  BY SyncSteps
<1> QED BY <1>1, <1>2, PTL DEF SyncSpec

\* Every message that a peer sent is in exactly one place, in the server's store, in the
\* batch, waiting, decrypted, delivered or lost, and none waits for a key the iterator has.
THEOREM EveryMessageAccounted == SyncSpec => []AllAccounted
<1>1. SyncInv => AllAccounted
  <2> SUFFICES ASSUME SyncInv PROVE AllAccounted
    OBVIOUS
  <2>1. SyncTypeOK /\ CountInv /\ WaitInv
    BY DEF SyncInv
  <2>2. NothingWaitsForAKnownKey
    BY <2>1 DEF WaitInv, NothingWaitsForAKnownKey
  <2>3. ASSUME NEW p \in Peers, NEW n \in 1 .. sent[p] PROVE Places(p, n) = 1
    <3>1. sent[p] \in Nat
      BY <2>1 DEF SyncTypeOK
    <3>2. n \in Nat \ {0} /\ n <= sent[p]
      BY <3>1
    <3> QED BY <2>1, <3>2 DEF CountInv
  <2> QED BY <2>1, <2>2, <2>3 DEF AllAccounted
<1> QED BY <1>1, SyncInvHolds, PTL

\* The messages of a peer that opened one session in time, and whose messages the server
\* kept in order, are delivered in the order they were sent, and all of them unless the
\* client stops, for any number of peers, rotations, batches and restarts.
THEOREM UndisturbedDelivered == SyncSpec => []UndisturbedInOrder
<1>1. SyncInv => UndisturbedInOrder
  BY DEF SyncInv, DeliveryInv, LossInv, Unsure, UndisturbedInOrder
<1> QED BY <1>1, SyncInvHolds, PTL

\* No step of the iterator, of the live worker or of a restart gives a session a receiving
\* key that is older than the one it has.
THEOREM KeysMoveForward == SyncSpec => KeyMovesForward
<1>1. SyncInv /\ [SyncNext]_syncVars => [\A p \in Peers : sess'[p] >= sess[p]]_syncVars
  BY SyncSteps
<1> QED BY <1>1, SyncInvHolds, PTL DEF SyncSpec, KeyMovesForward

=============================================================================
