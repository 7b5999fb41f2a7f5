--------------------------- MODULE MessagesProofs ---------------------------
(***************************************************************************)
(* Proofs about Messages, for every set of readers and every number of     *)
(* tasks and of contents: type correctness, that the status shown to the      *)
(* author is true and in the end Read, that a deleted message does not     *)
(* come back, and that the author and the readers end with one content.    *)
(***************************************************************************)
EXTENDS Messages, TLAPS

\* A message with a content carries one of those the author gave.
Sendable == {m \in ChatMessage : m.kind # "DeleteMsg" => m.text \in 1 .. MaxTexts}

\* The acknowledgements that reader r can have sent, when S have stored the message
\* and M have acknowledged reading it.
AcksOf(r, S, M) == {a \in {"AckReception", "AckRead"} :
                      (a = "AckReception" => r \in S) /\ (a = "AckRead" => r \in M)}

\* A status is true of those who have stored the message and of those who have read it.
TrueRow(row, S, M) ==
  row # NoRow => /\ row.st = "Delivered" => S # {}
                 /\ row.st = "Read" => M # {}

\* What is in transit.
ChannelsInv ==
  /\ toReader \in [Readers -> Seq(Sendable)]
  /\ \A r \in Readers : toAuthor[r] \in Seq(AcksOf(r, stored, marked))

\* The tasks that save or send a row hold one, and its status was true when they read
\* it: it is what edit_message writes over the author's row, at any later time.
TasksInv ==
  \A t \in Tasks :
    /\ task[t].op \in {"send", "read", "edit"} => task[t].row \in Row
    /\ TrueRow(task[t].row, stored, marked)

\* A worker that is about to acknowledge the reception has stored the message.
WorkersInv == \A r \in Readers : worker[r].op = "ack" => r \in stored

IInv ==
  /\ TypeOK
  /\ members \subseteq Readers
  /\ ChannelsInv
  /\ TasksInv
  /\ WorkersInv
  /\ TrueRow(arow, stored, marked)

-----------------------------------------------------------------------------

\* A channel of acknowledgements that were true stays one when more readers have
\* stored and read the message.
LEMMA AcksGrow ==
  ASSUME NEW r, NEW S1, NEW M1, NEW S2, NEW M2, S1 \subseteq S2, M1 \subseteq M2,
         NEW s \in Seq(AcksOf(r, S1, M1))
  PROVE  s \in Seq(AcksOf(r, S2, M2))
<1>1. AcksOf(r, S1, M1) \subseteq AcksOf(r, S2, M2)
  BY DEF AcksOf
<1> HIDE DEF AcksOf
<1> QED BY <1>1

\* Before the first send nothing holds a row.
LEMMA InitInv == Init => IInv
<1> SUFFICES ASSUME Init PROVE IInv
  OBVIOUS
<1>1. TypeOK
  <2>1. toReader \in [Readers -> Seq(ChatMessage)]
        /\ toAuthor \in [Readers -> Seq({"AckReception", "AckRead"})]
    BY DEF Init
  <2>2. task \in [Tasks -> [op : {"idle", "send", "read", "edit", "delete"},
                          todo : SUBSET Readers, row : Row \cup {NoRow}]]
    BY DEF Init, Idle
  <2>3. worker \in [Readers -> [op : {"idle", "ack", "edit"}, row : Row \cup {NoRow}]]
    BY DEF Init
  <2>4. /\ arow \in Row \cup {NoRow} /\ rrow \in [Readers -> Row \cup {NoRow}]
        /\ marking \subseteq Readers /\ telling \in [Readers -> SUBSET (Readers \cup {Author})]
        /\ acks \in [Readers -> Nat]
        /\ marked \subseteq Readers /\ stored \subseteq Readers
    BY DEF Init
  <2>5. texts \in 0 .. MaxTexts
    BY MessagesAssumption DEF Init
  <2>6. {failed, overlapped, raced} \subseteq BOOLEAN
    BY Zenon DEF Init
  <2> QED BY <2>1, <2>2, <2>3, <2>4, <2>5, <2>6 DEF TypeOK
<1>2. ChannelsInv
  BY DEF Init, ChannelsInv
<1>3. TasksInv /\ WorkersInv /\ TrueRow(arow, stored, marked)
  BY DEF Init, TasksInv, WorkersInv, TrueRow, Idle
<1> QED BY <1>1, <1>2, <1>3 DEF Init, IInv

\* What the author's tasks do: the rows they save were read with a true status.
LEMMA StartInv ==
  ASSUME IInv, NEW t \in Tasks, NEW w, StartTask(t, w),
         w.op \in {"send", "read", "edit"} => w.row \in Row,
         w \in [op : {"send", "read", "edit", "delete"}, todo : SUBSET Readers,
                row : Row \cup {NoRow}],
         TrueRow(w.row, stored, marked),
         UNCHANGED <<stored, marked>>
  PROVE  /\ task' \in [Tasks -> [op : {"idle", "send", "read", "edit", "delete"},
                                 todo : SUBSET Readers, row : Row \cup {NoRow}]]
         /\ overlapped' \in BOOLEAN
         /\ TasksInv'
  BY DEF IInv, TypeOK, StartTask, TasksInv, TrueRow

LEMMA TasksKeepInv ==
  ASSUME IInv, NEW t \in Tasks,
         \/ SendMessage(t) \/ EditMessage(t) \/ SaveEdit(t) \/ DeleteMessage(t)
         \/ \E r \in Readers : DispatchTo(t, r)
         \/ DispatchFails(t) \/ Finish(t)
  PROVE  IInv'
<1> USE MessagesAssumption DEF steady, setting, readerVars, markingVars, authorVars
<1>1. CASE SendMessage(t)
  <2> DEFINE w == [op |-> "send", todo |-> members, row |-> arow']
  <2>1. arow' = [st |-> "Sending", text |-> 1] /\ arow' \in Row /\ StartTask(t, w)
    BY <1>1 DEF SendMessage, Row, Status
  <2>2. /\ w \in [op : {"send", "read", "edit", "delete"}, todo : SUBSET Readers,
                 row : Row \cup {NoRow}]
        /\ w.row \in Row /\ TrueRow(w.row, stored, marked)
        /\ TrueRow(arow', stored, marked)
    BY <2>1 DEF IInv, TrueRow
  <2>3. UNCHANGED <<stored, marked>>
    BY <1>1 DEF SendMessage
  <2> HIDE DEF w
  <2>4. TasksInv' /\ overlapped' \in BOOLEAN
        /\ task' \in [Tasks -> [op : {"idle", "send", "read", "edit", "delete"},
                                todo : SUBSET Readers, row : Row \cup {NoRow}]]
    BY <2>1, <2>2, <2>3, StartInv
  <2>5. TypeOK'
    BY <1>1, <2>1, <2>4 DEF SendMessage, IInv, TypeOK
  <2> QED BY <1>1, <2>2, <2>4, <2>5 DEF SendMessage, IInv, ChannelsInv, WorkersInv
<1>2. CASE EditMessage(t)
  <2> DEFINE w == [op |-> "read", todo |-> {}, row |-> [arow EXCEPT !.text = texts + 1]]
  <2>1. arow \in Row /\ texts + 1 \in 1 .. MaxTexts /\ StartTask(t, w)
    BY <1>2 DEF EditMessage, IInv, TypeOK
  <2>2. w.row \in Row /\ w.row.st = arow.st
    BY <2>1 DEF Row
  <2>3. /\ w \in [op : {"send", "read", "edit", "delete"}, todo : SUBSET Readers,
                 row : Row \cup {NoRow}]
        /\ TrueRow(w.row, stored, marked)
    BY <1>2, <2>1, <2>2 DEF EditMessage, IInv, TrueRow
  <2>4. UNCHANGED <<stored, marked>>
    BY <1>2 DEF EditMessage
  <2> HIDE DEF w
  <2>5. TasksInv' /\ overlapped' \in BOOLEAN
        /\ task' \in [Tasks -> [op : {"idle", "send", "read", "edit", "delete"},
                                todo : SUBSET Readers, row : Row \cup {NoRow}]]
    BY <2>1, <2>2, <2>3, <2>4, StartInv
  <2>6. TypeOK'
    BY <1>2, <2>1, <2>5 DEF EditMessage, IInv, TypeOK
  <2> QED BY <1>2, <2>5, <2>6 DEF EditMessage, IInv, ChannelsInv, WorkersInv
<1>3. CASE SaveEdit(t)
  <2>1. /\ arow' = task[t].row /\ arow' \in Row /\ TrueRow(arow', stored, marked)
    BY <1>3 DEF SaveEdit, IInv, TasksInv
  <2>2. task' \in [Tasks -> [op : {"idle", "send", "read", "edit", "delete"},
                             todo : SUBSET Readers, row : Row \cup {NoRow}]]
    <3> DEFINE w1 == [task[t] EXCEPT !.op = "edit"]
               w2 == [w1 EXCEPT !.todo = members]
    <3>1. task[t] \in [op : {"idle", "send", "read", "edit", "delete"},
                       todo : SUBSET Readers, row : Row \cup {NoRow}]
      BY DEF IInv, TypeOK
    <3>2. w1 \in [op : {"idle", "send", "read", "edit", "delete"},
                  todo : SUBSET Readers, row : Row \cup {NoRow}]
      BY <3>1
    <3>3. w2 \in [op : {"idle", "send", "read", "edit", "delete"},
                  todo : SUBSET Readers, row : Row \cup {NoRow}]
      <4> HIDE DEF w1
      <4> QED BY <3>2 DEF IInv
    <3>4. task' = [task EXCEPT ![t] = w2]
      BY <1>3 DEF SaveEdit, IInv, TypeOK
    <3> HIDE DEF w2
    <3> QED BY <3>3, <3>4 DEF IInv, TypeOK
  <2>3. TypeOK'
    BY <1>3, <2>1, <2>2 DEF SaveEdit, IInv, TypeOK
  <2>4. TasksInv'
    BY <1>3 DEF SaveEdit, IInv, TypeOK, TasksInv, TrueRow
  <2> QED BY <1>3, <2>1, <2>3, <2>4 DEF SaveEdit, IInv, ChannelsInv, WorkersInv
<1>4. CASE DeleteMessage(t)
  <2> DEFINE w == [op |-> "delete", todo |-> members, row |-> arow]
  <2>1. /\ w \in [op : {"send", "read", "edit", "delete"}, todo : SUBSET Readers,
                 row : Row \cup {NoRow}]
        /\ TrueRow(w.row, stored, marked) /\ w.op = "delete" /\ StartTask(t, w)
    BY <1>4 DEF DeleteMessage, IInv, TypeOK
  <2>2. UNCHANGED <<stored, marked>>
    BY <1>4 DEF DeleteMessage
  <2> HIDE DEF w
  <2>3. TasksInv' /\ overlapped' \in BOOLEAN
        /\ task' \in [Tasks -> [op : {"idle", "send", "read", "edit", "delete"},
                                todo : SUBSET Readers, row : Row \cup {NoRow}]]
    BY <2>1, <2>2, StartInv
  <2>4. TypeOK'
    BY <1>4, <2>3 DEF DeleteMessage, IInv, TypeOK
  <2> QED BY <1>4, <2>3, <2>4 DEF DeleteMessage, IInv, ChannelsInv, WorkersInv
<1>5. ASSUME NEW r \in Readers, DispatchTo(t, r) PROVE IInv'
  <2>1. MessageOf(task[t]) \in Sendable /\ Sendable \subseteq ChatMessage
    BY <1>5 DEF DispatchTo, Dispatching, MessageOf, Sendable, ChatMessage, IInv, TasksInv, Row
  <2>2. /\ toReader' \in [Readers -> Seq(Sendable)]
        /\ toReader' \in [Readers -> Seq(ChatMessage)]
    <3> HIDE DEF Sendable, ChatMessage, MessageOf
    <3> QED BY <1>5, <2>1 DEF DispatchTo, IInv, ChannelsInv, TypeOK
  <2>3. TypeOK'
    <3>1. task' \in [Tasks -> [op : {"idle", "send", "read", "edit", "delete"},
                               todo : SUBSET Readers, row : Row \cup {NoRow}]]
      <4> DEFINE w == [task[t] EXCEPT !.todo = @ \ {r}]
      <4>1. w \in [op : {"idle", "send", "read", "edit", "delete"},
                   todo : SUBSET Readers, row : Row \cup {NoRow}]
        <5>1. task[t] \in [op : {"idle", "send", "read", "edit", "delete"},
                           todo : SUBSET Readers, row : Row \cup {NoRow}]
          BY DEF IInv, TypeOK
        <5>2. task[t].todo \ {r} \in SUBSET Readers
          BY <5>1
        <5> QED BY <5>1, <5>2
      <4>2. task' = [task EXCEPT ![t] = w]
        BY <1>5 DEF DispatchTo
      <4> HIDE DEF w
      <4> QED BY <4>1, <4>2 DEF IInv, TypeOK
    <3>2. UNCHANGED <<arow, rrow, worker, marking, telling, acks, toAuthor, texts, marked, stored, failed,
                      overlapped, raced>>
      BY <1>5 DEF DispatchTo
    <3> QED BY <2>2, <3>1, <3>2 DEF IInv, TypeOK
  <2>4. TasksInv'
    BY <1>5 DEF DispatchTo, IInv, TypeOK, TasksInv, TrueRow
  <2> QED BY <1>5, <2>2, <2>3, <2>4 DEF DispatchTo, IInv, ChannelsInv, WorkersInv
<1>6. CASE DispatchFails(t)
  <2>1. TypeOK'
    BY <1>6 DEF DispatchFails, Dispatching, IInv, TypeOK, Idle
  <2>2. TasksInv'
    BY <1>6 DEF DispatchFails, IInv, TypeOK, TasksInv, TrueRow, Idle
  <2> QED BY <1>6, <2>1, <2>2 DEF DispatchFails, IInv, ChannelsInv, WorkersInv
<1>7. CASE Finish(t)
  <2>1. arow' \in Row \cup {NoRow} /\ TrueRow(arow', stored, marked)
    BY <1>7 DEF Finish, Updated, IInv, TypeOK, TrueRow, Row, Status
  <2>2. task' \in [Tasks -> [op : {"idle", "send", "read", "edit", "delete"},
                             todo : SUBSET Readers, row : Row \cup {NoRow}]]
    BY <1>7 DEF Finish, IInv, TypeOK, Idle
  <2>3. TypeOK'
    BY <1>7, <2>1, <2>2 DEF Finish, IInv, TypeOK
  <2>4. TasksInv'
    BY <1>7 DEF Finish, IInv, TypeOK, TasksInv, TrueRow, Idle
  <2> QED BY <1>7, <2>1, <2>3, <2>4 DEF Finish, IInv, ChannelsInv, WorkersInv
<1> QED BY <1>1, <1>2, <1>3, <1>4, <1>5, <1>6, <1>7

-----------------------------------------------------------------------------

\* An acknowledgement changes the author's row to a status that its sender made true.
LEMMA AckKeepsInv ==
  ASSUME IInv, NEW r \in Readers, HandleAck(r)
  PROVE  IInv'
<1> USE DEF setting, readerVars, markingVars
<1>1. /\ toAuthor[r] # <<>>
      /\ toAuthor[r] \in Seq(AcksOf(r, stored, marked))
      /\ UNCHANGED <<stored, marked>>
  BY DEF HandleAck, IInv, ChannelsInv
<1>2. /\ Head(toAuthor[r]) \in AcksOf(r, stored, marked)
      /\ Tail(toAuthor[r]) \in Seq(AcksOf(r, stored, marked))
  <2> HIDE DEF AcksOf
  <2> QED BY <1>1
<1>3. \A q \in Readers : toAuthor'[q] \in Seq(AcksOf(q, stored, marked))
  <2> HIDE DEF AcksOf
  <2> QED BY <1>2 DEF HandleAck, IInv, TypeOK, ChannelsInv
<1>4. toAuthor' \in [Readers -> Seq({"AckReception", "AckRead"})]
  <2>1. Tail(toAuthor[r]) \in Seq({"AckReception", "AckRead"})
    BY <1>1 DEF IInv, TypeOK
  <2> QED BY <2>1 DEF HandleAck, IInv, TypeOK
<1>5. arow' \in Row \cup {NoRow} /\ TrueRow(arow', stored, marked)
  <2>1. CASE arow = NoRow
    BY <2>1 DEF HandleAck, Updated, TrueRow
  <2>2. CASE arow # NoRow
    <3>1. arow \in Row /\ arow' = [arow EXCEPT !.st = StatusOf(Head(toAuthor[r]))]
      BY <2>2 DEF HandleAck, Updated, IInv, TypeOK
    <3>2. /\ StatusOf(Head(toAuthor[r])) = "Delivered" => r \in stored
          /\ StatusOf(Head(toAuthor[r])) = "Read" => r \in marked
          /\ StatusOf(Head(toAuthor[r])) \in {"Delivered", "Read"}
      BY <1>2 DEF StatusOf, AcksOf
    <3> QED BY <3>1, <3>2 DEF TrueRow, Row, Status
  <2> QED BY <2>1, <2>2
<1>6. raced' \in BOOLEAN
  BY DEF HandleAck, IInv, TypeOK
<1>7. TypeOK'
  BY <1>4, <1>5, <1>6 DEF HandleAck, IInv, TypeOK
<1> QED BY <1>1, <1>3, <1>5, <1>7 DEF HandleAck, IInv, ChannelsInv, WorkersInv, TasksInv

\* More readers that have stored or read the message make no status false.
LEMMA GrowInv ==
  ASSUME IInv, stored \subseteq stored', marked \subseteq marked',
         UNCHANGED <<arow, task>>
  PROVE  TasksInv' /\ TrueRow(arow, stored, marked)'
  BY DEF IInv, TasksInv, TrueRow

\* The steps of mark_as_read that touch nothing but the acknowledgements of other readers.
TellsOther(r) == MarkFails(r) \/ \E s \in Readers : TellReader(r, s)

\* The types of the members that are still to be told.
LEMMA TellsType ==
  ASSUME IInv, NEW r \in Readers, NEW m, Tells(r, m)
  PROVE  marking' \subseteq Readers /\ telling' \in [Readers -> SUBSET (Readers \cup {Author})]
<1>1. ToTell(r) \subseteq Readers \cup {Author}
  BY DEF ToTell, IInv, TypeOK
<1> QED BY <1>1 DEF Tells, IInv, TypeOK

\* They move nothing else.
LEMMA TellsOtherFrame ==
  ASSUME NEW r \in Readers, TellsOther(r)
  PROVE  UNCHANGED <<members, used, arow, task, texts, overlapped, raced, rrow, worker, marked, stored,
                     toReader, toAuthor>>
  BY DEF TellsOther, MarkFails, TellReader, steady, setting, authorVars

LEMMA ReaderKeepsInv ==
  ASSUME IInv, NEW r \in Readers,
         \/ HandleData(r) \/ AckReception(r)
         \/ HandleEdit(r) \/ SaveEdited(r) \/ HandleDelete(r)
         \/ TellAuthor(r) \/ TellsOther(r) \/ HandlePeerAck(r) \/ UpdateRead(r)
  PROVE  IInv'
<1> USE DEF steady, setting, authorVars, markingVars
<1>a. ASSUME NEW kind, Handles(r, kind)
      PROVE  /\ Head(toReader[r]) \in Sendable
             /\ toReader' \in [Readers -> Seq(Sendable)]
             /\ toReader' \in [Readers -> Seq(ChatMessage)]
             /\ Head(toReader[r]).kind = kind /\ worker[r].op = "idle"
  <2>1. /\ toReader[r] \in Seq(Sendable) /\ toReader[r] \in Seq(ChatMessage)
        /\ toReader[r] # <<>> /\ toReader' = [toReader EXCEPT ![r] = Tail(@)]
        /\ Head(toReader[r]).kind = kind /\ worker[r].op = "idle"
    BY <1>a DEF Handles, IInv, ChannelsInv, TypeOK
  <2>2. /\ Head(toReader[r]) \in Sendable /\ Tail(toReader[r]) \in Seq(Sendable)
        /\ Tail(toReader[r]) \in Seq(ChatMessage)
    BY <2>1
  <2> QED BY <2>1, <2>2 DEF IInv, ChannelsInv, TypeOK
<1>1. CASE HandleData(r)
  <2>1. Handles(r, "Data") /\ stored' = stored \cup {r} /\ UNCHANGED <<arow, task, marked>>
    BY <1>1 DEF HandleData
  <2>2. /\ Head(toReader[r]).text \in 1 .. MaxTexts
        /\ toReader' \in [Readers -> Seq(Sendable)]
        /\ toReader' \in [Readers -> Seq(ChatMessage)]
    BY <1>a, <2>1 DEF Sendable
  <2>3. TypeOK'
    <3>1. /\ rrow' \in [Readers -> Row \cup {NoRow}]
          /\ worker' \in [Readers -> [op : {"idle", "ack", "edit"}, row : Row \cup {NoRow}]]
      BY <1>1, <2>2 DEF HandleData, IInv, TypeOK, Row, Status
    <3> QED BY <1>1, <2>2, <3>1 DEF HandleData, IInv, TypeOK
  <2>4. \A q \in Readers : toAuthor'[q] \in Seq(AcksOf(q, stored', marked'))
    BY <1>1, <2>1, AcksGrow DEF HandleData, IInv, ChannelsInv
  <2>5. WorkersInv'
    BY <1>1 DEF HandleData, IInv, WorkersInv, TypeOK
  <2> QED BY <1>1, <2>1, <2>2, <2>3, <2>4, <2>5, GrowInv DEF HandleData, IInv, ChannelsInv
<1>2. CASE AckReception(r)
  <2>1. r \in stored /\ UNCHANGED <<stored, marked>>
    BY <1>2 DEF AckReception, IInv, WorkersInv
  <2>2. "AckReception" \in AcksOf(r, stored, marked)
    BY <2>1 DEF AcksOf
  <2>3. \A q \in Readers : toAuthor'[q] \in Seq(AcksOf(q, stored, marked))
    <3> HIDE DEF AcksOf
    <3> QED BY <1>2, <2>2 DEF AckReception, IInv, TypeOK, ChannelsInv
  <2>4. toAuthor' \in [Readers -> Seq({"AckReception", "AckRead"})]
    <3>1. Append(toAuthor[r], "AckReception") \in Seq({"AckReception", "AckRead"})
      BY DEF IInv, TypeOK
    <3> QED BY <1>2, <3>1 DEF AckReception, IInv, TypeOK
  <2>5. worker' \in [Readers -> [op : {"idle", "ack", "edit"}, row : Row \cup {NoRow}]]
    BY <1>2 DEF AckReception, IInv, TypeOK
  <2>6. TypeOK'
    BY <1>2, <2>4, <2>5 DEF AckReception, IInv, TypeOK
  <2>7. WorkersInv'
    BY <1>2 DEF AckReception, IInv, WorkersInv, TypeOK
  <2> QED BY <1>2, <2>1, <2>3, <2>6, <2>7 DEF AckReception, IInv, ChannelsInv, TasksInv
<1>3. CASE HandleEdit(r)
  <2>1. Handles(r, "EditMsg") /\ UNCHANGED <<arow, task, stored, marked, toAuthor>>
    BY <1>3 DEF HandleEdit
  <2>2. /\ Head(toReader[r]).text \in 1 .. MaxTexts
        /\ toReader' \in [Readers -> Seq(Sendable)]
        /\ toReader' \in [Readers -> Seq(ChatMessage)]
    BY <1>a, <2>1 DEF Sendable
  <2>3. worker' \in [Readers -> [op : {"idle", "ack", "edit"}, row : Row \cup {NoRow}]]
    <3>1. CASE rrow[r] = NoRow
      BY <1>3, <3>1 DEF HandleEdit, IInv, TypeOK
    <3>2. CASE rrow[r] # NoRow
      <4>1. /\ rrow[r] \in Row
            /\ worker' = [worker EXCEPT ![r] =
                 [op |-> "edit", row |-> [rrow[r] EXCEPT !.text = Head(toReader[r]).text]]]
        BY <1>3, <3>2 DEF HandleEdit, IInv, TypeOK
      <4>2. [rrow[r] EXCEPT !.text = Head(toReader[r]).text] \in Row
        BY <2>2, <4>1 DEF Row
      <4> QED BY <4>1, <4>2 DEF IInv, TypeOK
    <3> QED BY <3>1, <3>2
  <2>4. TypeOK'
    BY <1>3, <2>2, <2>3 DEF HandleEdit, IInv, TypeOK
  <2>5. WorkersInv'
    BY <1>3 DEF HandleEdit, IInv, WorkersInv, TypeOK
  <2> QED BY <1>3, <2>1, <2>2, <2>4, <2>5 DEF HandleEdit, IInv, ChannelsInv, TasksInv
<1>4. CASE SaveEdited(r)
  <2>1. TypeOK'
    BY <1>4 DEF SaveEdited, IInv, TypeOK
  <2>2. WorkersInv'
    BY <1>4 DEF SaveEdited, IInv, WorkersInv, TypeOK
  <2> QED BY <1>4, <2>1, <2>2 DEF SaveEdited, IInv, ChannelsInv, TasksInv
<1>5. CASE HandleDelete(r)
  <2>1. /\ toReader' \in [Readers -> Seq(Sendable)]
        /\ toReader' \in [Readers -> Seq(ChatMessage)]
    BY <1>5, <1>a DEF HandleDelete
  <2>2. TypeOK'
    BY <1>5, <2>1 DEF HandleDelete, IInv, TypeOK
  <2> QED BY <1>5, <2>1, <2>2 DEF HandleDelete, IInv, ChannelsInv, TasksInv, WorkersInv
<1>6. CASE TellAuthor(r)
  <2>1. marked' = marked \cup {r} /\ UNCHANGED <<arow, task, stored>>
    BY <1>6 DEF TellAuthor
  <2>2. "AckRead" \in AcksOf(r, stored', marked')
    BY <2>1 DEF AcksOf
  <2>3. \A q \in Readers : toAuthor[q] \in Seq(AcksOf(q, stored', marked'))
    BY <2>1, AcksGrow DEF IInv, ChannelsInv
  <2>4. \A q \in Readers : toAuthor'[q] \in Seq(AcksOf(q, stored', marked'))
    <3> SUFFICES ASSUME NEW q \in Readers
                 PROVE  toAuthor'[q] \in Seq(AcksOf(q, stored', marked'))
      OBVIOUS
    <3>1. CASE q # r
      BY <1>6, <2>3, <3>1 DEF TellAuthor, IInv, TypeOK
    <3>2. CASE q = r
      <4>1. toAuthor'[r] = Append(toAuthor[r], "AckRead")
        BY <1>6 DEF TellAuthor, IInv, TypeOK
      <4>2. toAuthor[r] \in Seq(AcksOf(r, stored', marked'))
        BY <2>3
      <4> HIDE DEF AcksOf
      <4> QED BY <2>2, <3>2, <4>1, <4>2
    <3> QED BY <3>1, <3>2
  <2>5. toAuthor' \in [Readers -> Seq({"AckReception", "AckRead"})]
    <3>1. Append(toAuthor[r], "AckRead") \in Seq({"AckReception", "AckRead"})
      BY DEF IInv, TypeOK
    <3> QED BY <1>6, <3>1 DEF TellAuthor, IInv, TypeOK
  <2>6. raced' \in BOOLEAN
    BY <1>6 DEF TellAuthor, IInv, TypeOK
  <2>7. TypeOK'
    <3>1. marking' \subseteq Readers /\ telling' \in [Readers -> SUBSET (Readers \cup {Author})]
      BY <1>6, TellsType DEF TellAuthor
    <3> QED BY <1>6, <2>5, <2>6, <3>1 DEF TellAuthor, IInv, TypeOK
  <2> QED BY <1>6, <2>1, <2>4, <2>7, GrowInv DEF TellAuthor, IInv, ChannelsInv, WorkersInv
<1>7. CASE UpdateRead(r)
  <2>1. rrow' \in [Readers -> Row \cup {NoRow}]
    BY <1>7 DEF UpdateRead, Updated, IInv, TypeOK, Row, Status
  <2>2. TypeOK'
    BY <1>7, <2>1 DEF UpdateRead, IInv, TypeOK
  <2> QED BY <1>7, <2>2 DEF UpdateRead, IInv, ChannelsInv, TasksInv, WorkersInv
<1>8. CASE HandlePeerAck(r)
  <2>1. rrow' \in [Readers -> Row \cup {NoRow}]
    BY <1>8 DEF HandlePeerAck, Updated, IInv, TypeOK, Row, Status
  <2>2. acks' \in [Readers -> Nat]
    BY <1>8 DEF HandlePeerAck, IInv, TypeOK
  <2>3. TypeOK'
    BY <1>8, <2>1, <2>2 DEF HandlePeerAck, IInv, TypeOK
  <2> QED BY <1>8, <2>3 DEF HandlePeerAck, IInv, ChannelsInv, TasksInv, WorkersInv
<1>9. CASE TellsOther(r)
  <2>1. UNCHANGED <<members, used, arow, task, texts, overlapped, raced, rrow, worker, marked, stored,
                    toReader, toAuthor>>
    BY <1>9, TellsOtherFrame
  <2>2. /\ marking' \subseteq Readers /\ telling' \in [Readers -> SUBSET (Readers \cup {Author})]
        /\ acks' \in [Readers -> Nat] /\ failed' \in BOOLEAN
    <3>1. CASE MarkFails(r)
      BY <3>1 DEF MarkFails, IInv, TypeOK
    <3>2. CASE \E s \in Readers : TellReader(r, s)
      <4>1. PICK s \in Readers : TellReader(r, s)
        BY <3>2
      <4> QED BY <4>1, TellsType DEF TellReader, IInv, TypeOK
    <3> QED BY <1>9, <3>1, <3>2 DEF TellsOther
  <2>3. TypeOK'
    BY <2>1, <2>2 DEF IInv, TypeOK
  <2> QED BY <2>1, <2>3 DEF IInv, ChannelsInv, TasksInv, WorkersInv, TrueRow
<1> QED BY <1>1, <1>2, <1>3, <1>4, <1>5, <1>6, <1>7, <1>8, <1>9

-----------------------------------------------------------------------------

\* A step that changes nothing keeps the invariant.
LEMMA StutterInv == IInv /\ UNCHANGED vars => IInv'
  BY DEF IInv, vars, setting, authorVars, readerVars, markingVars, TypeOK, ChannelsInv, TasksInv,
         WorkersInv, TrueRow

\* The invariant holds in every reachable state.
LEMMA Invariant == Spec => []IInv
<1>1. IInv /\ [Next]_vars => IInv'
  <2> SUFFICES ASSUME IInv, [Next]_vars PROVE IInv'
    OBVIOUS
  <2>1. ASSUME Next PROVE IInv'
    BY <2>1, TasksKeepInv, AckKeepsInv, ReaderKeepsInv DEF Next, TellsOther
  <2> QED BY <2>1, StutterInv
<1> QED BY <1>1, InitInv, PTL DEF Spec

\* The author never sees a message delivered that no reader has stored, or read that
\* no reader has acknowledged reading: for every number of readers, of tasks that send,
\* edit and delete at once, and of contents (send_message, edit_message, AckReception,
\* AckRead; StatusIsTrue, which has the types of the state with it).
THEOREM StatusAlwaysTrue == Spec => []StatusIsTrue
<1>1. IInv => StatusIsTrue
  BY DEF IInv, StatusIsTrue, TrueRow
<1> QED BY <1>1, Invariant, PTL

-----------------------------------------------------------------------------
(* A deleted message does not come back: the author sends it to each       *)
(* reader once, and a worker that holds a row has it in the storage.       *)

NoData(s) == \A i \in 1 .. Len(s) : s[i].kind # "Data"

OneData(s) ==
  \A i, j \in 1 .. Len(s) : s[i].kind = "Data" /\ s[j].kind = "Data" => i = j

\* The message is sent to a reader by one task, and only while it is neither on its
\* way to the reader nor stored by it.
SendsOnce ==
  \A t \in Tasks : task[t].op = "send" =>
    /\ texts # 0
    /\ \A s \in Tasks : task[s].op = "send" => s = t
    /\ \A r \in task[t].todo : NoData(toReader[r]) /\ r \notin stored

\* It is on its way once, and not after it was stored.
ArrivesOnce ==
  /\ \A r \in Readers : OneData(toReader[r]) /\ (r \in stored => NoData(toReader[r]))
  /\ texts = 0 => stored = {} /\ \A r \in Readers : NoData(toReader[r])

EditsStored == \A r \in Readers : worker[r].op = "edit" => rrow[r] # NoRow

OnceInv == SendsOnce /\ ArrivesOnce /\ EditsStored

\* What a channel has after a send: another message than the content, or the content
\* for the first time.
LEMMA AppendData ==
  ASSUME NEW S, NEW s \in Seq(S), NEW x \in S
  PROVE  /\ NoData(s) => OneData(Append(s, x))
         /\ x.kind # "Data" /\ NoData(s) => NoData(Append(s, x))
         /\ x.kind # "Data" /\ OneData(s) => OneData(Append(s, x))
<1> DEFINE t == Append(s, x)
<1>1. /\ Len(s) \in Nat /\ Len(t) = Len(s) + 1 /\ t[Len(t)] = x
      /\ \A i \in 1 .. Len(s) : t[i] = s[i]
  OBVIOUS
<1> HIDE DEF t
<1>2. \A i \in 1 .. Len(t) : i = Len(t) \/ (i \in 1 .. Len(s) /\ t[i] = s[i])
  BY <1>1
<1>3. NoData(s) => OneData(t)
  BY <1>1, <1>2 DEF NoData, OneData
<1>4. x.kind # "Data" /\ NoData(s) => NoData(t)
  BY <1>1, <1>2 DEF NoData
<1>5. x.kind # "Data" /\ OneData(s) => OneData(t)
  BY <1>1, <1>2 DEF OneData
<1> QED BY <1>3, <1>4, <1>5 DEF t

\* What a channel has after its first message is taken.
LEMMA TailData ==
  ASSUME NEW S, NEW s \in Seq(S), s # <<>>, OneData(s)
  PROVE  /\ OneData(Tail(s))
         /\ NoData(s) => NoData(Tail(s)) /\ Head(s).kind # "Data"
         /\ Head(s).kind = "Data" => NoData(Tail(s))
<1> DEFINE t == Tail(s)
<1>1. /\ Len(s) \in Nat \ {0} /\ Len(t) = Len(s) - 1 /\ Head(s) = s[1]
      /\ \A i \in 1 .. Len(t) : t[i] = s[i + 1]
  OBVIOUS
<1> HIDE DEF t
<1>2. \A i \in 1 .. Len(t) : i + 1 \in 1 .. Len(s) /\ t[i] = s[i + 1] /\ i + 1 # 1
  BY <1>1
<1>3. 1 \in 1 .. Len(s)
  BY <1>1
<1>4. OneData(t)
  <2> SUFFICES ASSUME NEW i \in 1 .. Len(t), NEW j \in 1 .. Len(t),
                      t[i].kind = "Data", t[j].kind = "Data"
               PROVE  i = j
    BY DEF OneData
  <2>1. i + 1 = j + 1
    BY <1>2 DEF OneData
  <2> QED BY <2>1, <1>1
<1>5. NoData(s) => NoData(t) /\ Head(s).kind # "Data"
  BY <1>1, <1>2, <1>3 DEF NoData
<1>6. Head(s).kind = "Data" => NoData(t)
  BY <1>1, <1>2, <1>3 DEF NoData, OneData
<1> QED BY <1>4, <1>5, <1>6 DEF t

\* Before the first send nothing is on its way.
LEMMA InitOnce == Init => OnceInv
  BY DEF Init, OnceInv, SendsOnce, ArrivesOnce, EditsStored, OneData, NoData, Idle

\* A step of the author that sends nothing and starts no send.
LEMMA NothingSent ==
  ASSUME IInv, OnceInv, UNCHANGED <<toReader, stored, worker, rrow>>,
         texts' # 0 \/ texts' = texts,
         \A s \in Tasks : task'[s].op = "send" =>
            task[s].op = "send" /\ task'[s].todo \subseteq task[s].todo
  PROVE  OnceInv'
<1>1. SendsOnce'
  BY DEF OnceInv, SendsOnce
<1>2. ArrivesOnce'
  BY DEF OnceInv, ArrivesOnce
<1>3. EditsStored'
  BY DEF OnceInv, EditsStored
<1> QED BY <1>1, <1>2, <1>3 DEF OnceInv

LEMMA TasksKeepOnce ==
  ASSUME IInv, OnceInv, NEW t \in Tasks,
         \/ SendMessage(t) \/ EditMessage(t) \/ SaveEdit(t) \/ DeleteMessage(t)
         \/ \E r \in Readers : DispatchTo(t, r)
         \/ DispatchFails(t) \/ Finish(t)
  PROVE  OnceInv'
<1> USE DEF readerVars, markingVars
<1>1. CASE SendMessage(t)
  <2>1. /\ texts = 0 /\ texts' = 1 /\ UNCHANGED <<toReader, stored, worker, rrow>>
        /\ \A s \in Tasks : task[s].op # "send"
        /\ task'[t].op = "send" /\ task'[t].todo = members /\ members \subseteq Readers
        /\ \A s \in Tasks \ {t} : task'[s] = task[s]
    BY <1>1 DEF SendMessage, StartTask, IInv, TypeOK
  <2>2. stored = {} /\ \A r \in Readers : NoData(toReader[r])
    BY <2>1 DEF OnceInv, ArrivesOnce
  <2>3. SendsOnce'
    BY <2>1, <2>2 DEF SendsOnce
  <2>4. ArrivesOnce'
    BY <2>1 DEF OnceInv, ArrivesOnce
  <2> QED BY <2>1, <2>3, <2>4 DEF OnceInv, EditsStored
<1>2. CASE EditMessage(t)
  <2>1. /\ texts' # 0 /\ UNCHANGED <<toReader, stored, worker, rrow>>
        /\ \A s \in Tasks : task'[s].op = "send" => task'[s] = task[s]
    BY <1>2, MessagesAssumption DEF EditMessage, StartTask, IInv, TypeOK
  <2> QED BY <2>1, NothingSent
<1>3. CASE SaveEdit(t)
  <2>1. /\ UNCHANGED <<texts, toReader, stored, worker, rrow>>
        /\ task'[t].op = "edit" /\ \A s \in Tasks \ {t} : task'[s] = task[s]
    BY <1>3 DEF SaveEdit, IInv, TypeOK
  <2> QED BY <2>1, NothingSent
<1>4. CASE DeleteMessage(t)
  <2>1. /\ UNCHANGED <<texts, toReader, stored, worker, rrow>>
        /\ \A s \in Tasks : task'[s].op = "send" => task'[s] = task[s]
    BY <1>4 DEF DeleteMessage, StartTask, IInv, TypeOK
  <2> QED BY <2>1, NothingSent
<1>5. ASSUME NEW r \in Readers, DispatchTo(t, r) PROVE OnceInv'
  <2>1. /\ r \in task[t].todo /\ task[t].op \in {"send", "edit", "delete"}
        /\ toReader'[r] = Append(toReader[r], MessageOf(task[t]))
        /\ \A q \in Readers \ {r} : toReader'[q] = toReader[q]
        /\ task'[t].op = task[t].op /\ task'[t].todo = task[t].todo \ {r}
        /\ \A s \in Tasks \ {t} : task'[s] = task[s]
        /\ UNCHANGED <<texts, stored, worker, rrow>>
    BY <1>5 DEF DispatchTo, Dispatching, IInv, TypeOK
  <2>2. MessageOf(task[t]) \in ChatMessage
    BY <2>1, MessagesAssumption DEF MessageOf, ChatMessage, IInv, TasksInv, Row
  <2>3. toReader[r] \in Seq(ChatMessage)
    BY DEF IInv, TypeOK
  <2>4. CASE task[t].op = "send"
    <3>1. /\ texts # 0 /\ r \notin stored /\ NoData(toReader[r])
          /\ \A s \in Tasks : task[s].op = "send" => s = t
          /\ \A q \in task[t].todo : NoData(toReader[q]) /\ q \notin stored
      BY <2>1, <2>4 DEF OnceInv, SendsOnce
    <3>2. OneData(toReader'[r])
      BY <2>1, <2>2, <2>3, <3>1, AppendData
    <3>3. task[t].todo \subseteq Readers
      BY DEF IInv, TypeOK
    <3>4. SendsOnce'
      BY <2>1, <3>1, <3>3 DEF SendsOnce
    <3>5. ArrivesOnce'
      BY <2>1, <3>1, <3>2 DEF OnceInv, ArrivesOnce
    <3> QED BY <2>1, <3>4, <3>5 DEF OnceInv, EditsStored
  <2>5. CASE task[t].op # "send"
    <3>1. MessageOf(task[t]).kind # "Data"
      BY <2>1, <2>5 DEF MessageOf
    <3>2. /\ OneData(toReader[r]) => OneData(toReader'[r])
          /\ NoData(toReader[r]) => NoData(toReader'[r])
      BY <2>1, <2>2, <2>3, <3>1, AppendData
    <3>3. \A s \in Tasks : task[s].todo \subseteq Readers
      BY DEF IInv, TypeOK
    <3>4. \A q \in Readers : NoData(toReader[q]) => NoData(toReader'[q])
      BY <2>1, <3>2
    <3>5. SendsOnce'
      BY <2>1, <2>5, <3>3, <3>4 DEF OnceInv, SendsOnce
    <3>6. ArrivesOnce'
      BY <2>1, <3>2, <3>4 DEF OnceInv, ArrivesOnce
    <3> QED BY <2>1, <3>5, <3>6 DEF OnceInv, EditsStored
  <2> QED BY <2>4, <2>5
<1>6. CASE DispatchFails(t)
  <2>1. /\ UNCHANGED <<texts, toReader, stored, worker, rrow>>
        /\ \A s \in Tasks : task'[s].op = "send" => task'[s] = task[s]
    BY <1>6 DEF DispatchFails, Idle, IInv, TypeOK
  <2> QED BY <2>1, NothingSent
<1>7. CASE Finish(t)
  <2>1. /\ UNCHANGED <<texts, toReader, stored, worker, rrow>>
        /\ \A s \in Tasks : task'[s].op = "send" => task'[s] = task[s]
    BY <1>7 DEF Finish, Idle, IInv, TypeOK
  <2> QED BY <2>1, NothingSent
<1> QED BY <1>1, <1>2, <1>3, <1>4, <1>5, <1>6, <1>7

\* What a reader does: it takes the content from its channel once.
LEMMA ReaderKeepsOnce ==
  ASSUME IInv, OnceInv, NEW r \in Readers,
         \/ HandleAck(r) \/ HandleData(r) \/ AckReception(r)
         \/ HandleEdit(r) \/ SaveEdited(r) \/ HandleDelete(r)
         \/ TellAuthor(r) \/ TellsOther(r) \/ HandlePeerAck(r) \/ UpdateRead(r)
  PROVE  OnceInv'
<1> USE DEF authorVars, readerVars, markingVars
<1>n. NoRow \notin Row
  BY NoRowAssumption
<1>a. ASSUME NEW kind, Handles(r, kind)
      PROVE  /\ OneData(toReader'[r]) /\ worker[r].op = "idle"
             /\ \A q \in Readers : NoData(toReader[q]) => NoData(toReader'[q])
             /\ \A q \in Readers \ {r} : toReader'[q] = toReader[q]
             /\ kind = "Data" => NoData(toReader'[r]) /\ ~NoData(toReader[r])
  <2>1. /\ toReader[r] \in Seq(ChatMessage) /\ toReader[r] # <<>>
        /\ toReader'[r] = Tail(toReader[r]) /\ Head(toReader[r]).kind = kind
        /\ \A q \in Readers \ {r} : toReader'[q] = toReader[q]
        /\ worker[r].op = "idle"
    BY <1>a DEF Handles, IInv, TypeOK
  <2>2. OneData(toReader[r])
    BY DEF OnceInv, ArrivesOnce
  <2> QED BY <2>1, <2>2, TailData
<1>b. \A t \in Tasks : task[t].todo \subseteq Readers
  BY DEF IInv, TypeOK
<1>1. CASE HandleData(r)
  <2>1. /\ Handles(r, "Data") /\ stored' = stored \cup {r} /\ UNCHANGED <<task, texts>>
        /\ worker'[r].op = "ack"
        /\ \A q \in Readers \ {r} : worker'[q] = worker[q] /\ rrow'[q] = rrow[q]
    BY <1>1 DEF HandleData, IInv, TypeOK
  <2>2. /\ OneData(toReader'[r]) /\ NoData(toReader'[r]) /\ ~NoData(toReader[r])
        /\ \A q \in Readers : NoData(toReader[q]) => NoData(toReader'[q])
        /\ \A q \in Readers \ {r} : toReader'[q] = toReader[q]
    BY <1>a, <2>1
  <2>3. SendsOnce'
    BY <1>b, <2>1, <2>2 DEF OnceInv, SendsOnce
  <2>4. ArrivesOnce'
    BY <2>1, <2>2 DEF OnceInv, ArrivesOnce
  <2>5. EditsStored'
    BY <2>1 DEF OnceInv, EditsStored
  <2> QED BY <2>3, <2>4, <2>5 DEF OnceInv
<1>2. ASSUME HandleEdit(r) \/ HandleDelete(r) PROVE OnceInv'
  <2>1. /\ Handles(r, "EditMsg") \/ Handles(r, "DeleteMsg")
        /\ UNCHANGED <<task, texts, stored>>
    BY <1>2 DEF HandleEdit, HandleDelete
  <2>2. /\ OneData(toReader'[r]) /\ worker[r].op = "idle"
        /\ \A q \in Readers : NoData(toReader[q]) => NoData(toReader'[q])
        /\ \A q \in Readers \ {r} : toReader'[q] = toReader[q]
    BY <1>a, <2>1
  <2>3. SendsOnce'
    BY <1>b, <2>1, <2>2 DEF OnceInv, SendsOnce
  <2>4. ArrivesOnce'
    BY <2>1, <2>2 DEF OnceInv, ArrivesOnce
  <2>5. EditsStored'
    <3>1. CASE HandleEdit(r)
      BY <2>2, <3>1 DEF HandleEdit, OnceInv, EditsStored, IInv, TypeOK
    <3>2. CASE HandleDelete(r)
      BY <2>2, <3>2 DEF HandleDelete, OnceInv, EditsStored, IInv, TypeOK
    <3> QED BY <1>2, <3>1, <3>2
  <2> QED BY <2>3, <2>4, <2>5 DEF OnceInv
<1>3. ASSUME \/ HandleAck(r) \/ AckReception(r) \/ SaveEdited(r) \/ TellAuthor(r) \/ TellsOther(r)
             \/ HandlePeerAck(r) \/ UpdateRead(r)
      PROVE  OnceInv'
  <2>1. UNCHANGED <<task, texts, stored, toReader>>
    BY <1>3, TellsOtherFrame DEF HandleAck, AckReception, SaveEdited, TellAuthor, HandlePeerAck, UpdateRead
  <2>2. EditsStored'
    <3>1. CASE HandleAck(r) \/ TellAuthor(r) \/ TellsOther(r)
      BY <3>1, TellsOtherFrame DEF HandleAck, TellAuthor, OnceInv, EditsStored
    <3>2. CASE AckReception(r) \/ SaveEdited(r)
      BY <3>2 DEF AckReception, SaveEdited, OnceInv, EditsStored, IInv, TypeOK
    <3>3. CASE HandlePeerAck(r) \/ UpdateRead(r)
      <4>1. rrow[r] # NoRow => Updated(rrow[r], "Read") \in Row
        <5> SUFFICES ASSUME rrow[r] # NoRow PROVE Updated(rrow[r], "Read") \in Row
          OBVIOUS
        <5>1. rrow[r] \in Row
          BY DEF IInv, TypeOK
        <5>2. [rrow[r] EXCEPT !.st = "Read"] \in Row
          BY <5>1 DEF Row, Status
        <5> QED BY <5>2 DEF Updated
      <4> QED BY <1>n, <3>3, <4>1 DEF HandlePeerAck, UpdateRead, OnceInv, EditsStored, IInv, TypeOK
    <3> QED BY <1>3, <3>1, <3>2, <3>3
  <2> QED BY <2>1, <2>2 DEF OnceInv, SendsOnce, ArrivesOnce
<1> QED BY <1>1, <1>2, <1>3

LEMMA StepOnce == IInv /\ OnceInv /\ [Next]_vars => OnceInv'
<1> SUFFICES ASSUME IInv, OnceInv, [Next]_vars PROVE OnceInv'
  OBVIOUS
<1>1. CASE Next
  BY <1>1, TasksKeepOnce, ReaderKeepsOnce DEF Next, TellsOther
<1>2. CASE UNCHANGED vars
  BY <1>2 DEF vars, authorVars, readerVars, markingVars, OnceInv, SendsOnce, ArrivesOnce, EditsStored
<1> QED BY <1>1, <1>2

\* A reader's row that a step brings back was never there: the message it saves is the
\* first, and an edition is saved over the row it was made of.
LEMMA DeletedStep ==
  ASSUME IInv, OnceInv, [Next]_vars, NEW r \in Readers, r \in stored, rrow[r] = NoRow
  PROVE  rrow'[r] = NoRow
<1> USE DEF readerVars, markingVars
<1>1. CASE UNCHANGED rrow
  BY <1>1
<1>2. ASSUME NEW q \in Readers,
             \/ HandleData(q) \/ SaveEdited(q) \/ HandleDelete(q)
             \/ HandlePeerAck(q) \/ UpdateRead(q)
      PROVE  rrow'[r] = NoRow
  <2>1. CASE q # r
    BY <1>2, <2>1 DEF HandleData, SaveEdited, HandleDelete, HandlePeerAck, UpdateRead, IInv, TypeOK
  <2>2. CASE q = r /\ HandleData(q)
    <3>1. /\ toReader[r] \in Seq(ChatMessage) /\ toReader[r] # <<>>
          /\ Head(toReader[r]).kind = "Data" /\ NoData(toReader[r])
      BY <2>2 DEF HandleData, Handles, IInv, TypeOK, OnceInv, ArrivesOnce
    <3>2. 1 \in 1 .. Len(toReader[r]) /\ Head(toReader[r]) = toReader[r][1]
      BY <3>1
    <3> QED BY <3>1, <3>2 DEF NoData
  <2>3. CASE q = r /\ SaveEdited(q)
    BY <2>3 DEF SaveEdited, OnceInv, EditsStored
  <2>4. CASE q = r /\ (HandleDelete(q) \/ HandlePeerAck(q) \/ UpdateRead(q))
    BY <2>4 DEF HandleDelete, HandlePeerAck, UpdateRead, Updated, IInv, TypeOK
  <2> QED BY <1>2, <2>1, <2>2, <2>3, <2>4
<1>3. ASSUME Next, rrow' # rrow
      PROVE  \E q \in Readers :
                \/ HandleData(q) \/ SaveEdited(q) \/ HandleDelete(q)
                \/ HandlePeerAck(q) \/ UpdateRead(q)
  BY <1>3 DEF Next, SendMessage, EditMessage, SaveEdit, DeleteMessage, DispatchTo,
              DispatchFails, Finish, HandleAck, AckReception, HandleEdit, TellAuthor, TellReader, MarkFails
<1> QED BY <1>1, <1>2, <1>3 DEF vars

\* A message that a reader has had and lost to a DeleteMsg does not come back: for every
\* number of editions and deletions dispatched at once (dispatch_in_conversation,
\* handle_data_message, EditMsg, DeleteMsg).
THEOREM DeletedAlwaysStaysDeleted == Spec => DeletedStaysDeleted
<1>1. IInv /\ OnceInv /\ [Next]_vars => OnceInv'
  BY StepOnce
<1>2. IInv /\ OnceInv /\ [Next]_vars =>
        [\A r \in Readers : (r \in stored /\ rrow[r] = NoRow) => rrow'[r] = NoRow]_vars
  BY DeletedStep
<1> QED BY <1>1, <1>2, InitOnce, Invariant, PTL DEF Spec, DeletedStaysDeleted
-----------------------------------------------------------------------------
(* Only the members of the conversation have to do with the message.       *)

MembersInv ==
  /\ members # {}
  /\ marked \subseteq stored /\ marking \subseteq stored /\ stored \subseteq members
  /\ \A t \in Tasks : task[t].todo \subseteq members
  /\ \A r \in Readers : /\ toReader[r] # <<>> => r \in members
                        /\ rrow[r] # NoRow => r \in stored

LEMMA InitMembers == Init => MembersInv
  BY DEF Init, MembersInv, Idle

LEMMA StepMembers == IInv /\ OnceInv /\ MembersInv /\ [Next]_vars => MembersInv'
<1> SUFFICES ASSUME IInv, OnceInv, MembersInv, [Next]_vars PROVE MembersInv'
  OBVIOUS
<1> USE DEF steady, setting, authorVars, readerVars, markingVars
<1>1. ASSUME NEW t \in Tasks,
             \/ SendMessage(t) \/ EditMessage(t) \/ SaveEdit(t) \/ DeleteMessage(t)
             \/ DispatchFails(t) \/ Finish(t)
      PROVE  MembersInv'
  <2>1. /\ UNCHANGED <<members, marking, marked, stored, toReader, rrow>>
        /\ \A s \in Tasks : task'[s].todo \in {task[s].todo, members, {}}
    <3>1. CASE SendMessage(t)
      BY <3>1 DEF SendMessage, StartTask, IInv, TypeOK
    <3>2. CASE EditMessage(t)
      BY <3>2 DEF EditMessage, StartTask, IInv, TypeOK
    <3>3. CASE DeleteMessage(t)
      BY <3>3 DEF DeleteMessage, StartTask, IInv, TypeOK
    <3>4. CASE SaveEdit(t)
      BY <3>4 DEF SaveEdit, IInv, TypeOK
    <3>5. ASSUME DispatchFails(t) \/ Finish(t)
          PROVE  \A s \in Tasks : task'[s].todo \in {task[s].todo, {}}
      <4>1. task' = [task EXCEPT ![t] = Idle]
        BY <3>5 DEF DispatchFails, Finish
      <4>2. Idle.todo = {}
        BY DEF Idle
      <4> QED BY <4>1, <4>2 DEF IInv, TypeOK
    <3>6. CASE DispatchFails(t) \/ Finish(t)
      BY <3>5, <3>6 DEF DispatchFails, Finish
    <3> QED BY <1>1, <3>1, <3>2, <3>3, <3>4, <3>6
  <2> QED BY <2>1 DEF MembersInv
<1>2. ASSUME NEW t \in Tasks, NEW r \in Readers, DispatchTo(t, r) PROVE MembersInv'
  <2>1. /\ UNCHANGED <<members, marking, marked, stored, rrow>> /\ r \in task[t].todo
        /\ \A s \in Tasks : task'[s].todo \subseteq task[s].todo
        /\ \A q \in Readers \ {r} : toReader'[q] = toReader[q]
    BY <1>2 DEF DispatchTo, IInv, TypeOK
  <2> QED BY <2>1 DEF MembersInv
<1>3. ASSUME NEW r \in Readers,
             HandleAck(r) \/ AckReception(r) \/ TellAuthor(r) \/ TellsOther(r)
      PROVE  MembersInv'
  <2>1. /\ UNCHANGED <<members, task, stored, toReader, rrow>>
        /\ marked' = marked \/ (marked' = marked \cup {r} /\ r \in stored)
        /\ marking' \subseteq marking \/ (marking' = marking \cup {r} /\ r \in stored)
    <3>1. ASSUME NEW m, Tells(r, m) PROVE r \in stored /\ marking' = marking \cup {r}
      BY <3>1 DEF Tells, ToTell, MembersInv
    <3> QED BY <1>3, <3>1 DEF HandleAck, AckReception, TellAuthor, TellsOther, TellReader, MarkFails
  <2> QED BY <2>1 DEF MembersInv
<1>4. ASSUME NEW r \in Readers,
             \/ HandleData(r) \/ HandleEdit(r) \/ SaveEdited(r)
             \/ HandleDelete(r) \/ HandlePeerAck(r) \/ UpdateRead(r)
      PROVE  MembersInv'
  <2>1. /\ UNCHANGED <<members, task, marked>> /\ marking' \subseteq marking
        /\ stored' = stored \/ (stored' = stored \cup {r} /\ toReader[r] # <<>>)
        /\ \A q \in Readers \ {r} : toReader'[q] = toReader[q] /\ rrow'[q] = rrow[q]
        /\ toReader'[r] = toReader[r] \/ toReader[r] # <<>>
    BY <1>4 DEF HandleData, HandleEdit, SaveEdited, HandleDelete, HandlePeerAck, UpdateRead, Handles,
                IInv, TypeOK
  <2>2. rrow'[r] # NoRow => r \in stored'
    <3>1. CASE HandleData(r)
      BY <3>1 DEF HandleData
    <3>2. CASE SaveEdited(r)
      BY <3>2 DEF SaveEdited, OnceInv, EditsStored, MembersInv
    <3>3. CASE HandleEdit(r) \/ HandleDelete(r) \/ HandlePeerAck(r) \/ UpdateRead(r)
      BY <3>3 DEF HandleEdit, HandleDelete, HandlePeerAck, UpdateRead, Updated, MembersInv, IInv, TypeOK
    <3> QED BY <1>4, <3>1, <3>2, <3>3
  <2> QED BY <2>1, <2>2 DEF MembersInv
<1>5. CASE UNCHANGED vars
  BY <1>5 DEF vars, MembersInv
<1> QED BY <1>1, <1>2, <1>3, <1>4, <1>5 DEF Next, TellsOther

-----------------------------------------------------------------------------
(* The content: the last message on its way to a reader is the one that    *)
(* counts, and it is what the author's row has, for each reader that the   *)
(* operation under way has reached.                                        *)

TextOf(row) == IF row = NoRow THEN 0 ELSE row.text

\* The content that reader r will have once it has handled its messages, 0 for none.
Coming(r) ==
  IF toReader[r] # <<>> THEN toReader[r][Len(toReader[r])].text
  ELSE IF worker[r].op = "edit" THEN worker[r].row.text
  ELSE TextOf(rrow[r])

\* A message is first its content, then its editions, then its deletion, and an
\* edition comes when the reader has the message.
InOrder(r) ==
  LET s == toReader[r] IN
  /\ \A i \in 1 .. Len(s) : s[i].kind = "DeleteMsg" <=> s[i].text = 0
  /\ \A i \in 1 .. Len(s) : s[i].kind = "DeleteMsg" => i = Len(s)
  /\ \A i \in 1 .. Len(s) : s[i].kind = "Data" => i = 1
  /\ s # <<>> => s[1].kind = "Data" \/ rrow[r] # NoRow
  /\ worker[r].op = "edit" => worker[r].row \in Row

\* What the task of the author has told reader r, or has still to tell.
Told(t, r) ==
  /\ task[t].op # "idle" => arow # NoRow
  /\ task[t].op \in {"send", "edit"} => arow.text = task[t].row.text
  /\ task[t].op = "read" => Coming(r) = arow.text
  /\ task[t].op \in {"send", "edit"} /\ r \notin task[t].todo => Coming(r) = arow.text
  /\ task[t].op = "send" /\ r \in task[t].todo => toReader[r] = <<>> /\ rrow[r] = NoRow
  /\ task[t].op = "edit" /\ r \in task[t].todo => Coming(r) # 0
  /\ task[t].op = "delete" =>
       Coming(r) = IF r \in task[t].todo THEN arow.text ELSE 0

Calm == ~failed /\ ~overlapped

ConvInv ==
  /\ texts = 0 => /\ arow = NoRow
                  /\ \A r \in Readers : toReader[r] = <<>> /\ rrow[r] = NoRow
                  /\ \A t \in Tasks : task[t].op = "idle"
  /\ Calm =>
       /\ \A s, t \in Tasks : task[s].op # "idle" /\ task[t].op # "idle" => s = t
       /\ \A r \in members : InOrder(r)
       /\ \A t \in Tasks : \A r \in members : Told(t, r)
       /\ (\A t \in Tasks : task[t].op = "idle") =>
            \A r \in members : Coming(r) = TextOf(arow)

\* What a channel has after a send.
LEMMA ChannelAppend ==
  ASSUME NEW S, NEW s \in Seq(S), NEW x \in S
  PROVE  LET t == Append(s, x) IN
         /\ t # <<>> /\ Len(s) \in Nat /\ Len(t) = Len(s) + 1 /\ t[Len(t)] = x
         /\ \A i \in 1 .. Len(t) : i = Len(t) \/ (i \in 1 .. Len(s) /\ t[i] = s[i])
         /\ s # <<>> => Len(s) \in 1 .. Len(s) /\ t[1] = s[1]
         /\ s = <<>> => t[1] = x /\ Len(t) = 1
  OBVIOUS

\* What a channel has after its first message is taken.
LEMMA ChannelTail ==
  ASSUME NEW S, NEW s \in Seq(S), s # <<>>
  PROVE  LET t == Tail(s) IN
         /\ Head(s) = s[1] /\ Head(s) \in S /\ 1 \in 1 .. Len(s)
         /\ Len(s) \in Nat /\ Len(t) = Len(s) - 1 /\ t \in Seq(S)
         /\ \A i \in 1 .. Len(t) : i + 1 \in 1 .. Len(s) /\ t[i] = s[i + 1] /\ i + 1 # 1
         /\ t = <<>> => Len(s) = 1
         /\ t # <<>> => Len(t) \in 1 .. Len(t) /\ t[Len(t)] = s[Len(s)] /\ Len(s) # 1
<1> DEFINE t == Tail(s)
<1>1. /\ Head(s) = s[1] /\ Head(s) \in S /\ 1 \in 1 .. Len(s)
      /\ Len(s) \in Nat \ {0} /\ Len(t) = Len(s) - 1 /\ t \in Seq(S)
      /\ \A i \in 1 .. Len(t) : t[i] = s[i + 1]
  OBVIOUS
<1>3. t # <<>> => Len(t) \in Nat \ {0}
  BY <1>1
<1> HIDE DEF t
<1>2. t = <<>> => Len(t) = 0
  OBVIOUS
<1>4. \A i \in 1 .. Len(t) : i + 1 \in 1 .. Len(s) /\ t[i] = s[i + 1] /\ i + 1 # 1
  BY <1>1
<1>5. t # <<>> => Len(t) \in 1 .. Len(t) /\ t[Len(t)] = s[Len(s)] /\ Len(s) # 1
  BY <1>1, <1>3
<1> QED BY <1>1, <1>2, <1>4, <1>5 DEF t

LEMMA SameReader ==
  ASSUME NEW r \in Readers, toReader'[r] = toReader[r],
         worker'[r].op = worker[r].op \/ {worker'[r].op, worker[r].op} \subseteq {"idle", "ack"},
         worker[r].op = "edit" => worker'[r].row = worker[r].row,
         TextOf(rrow'[r]) = TextOf(rrow[r]), rrow'[r] = NoRow <=> rrow[r] = NoRow
  PROVE  Coming(r)' = Coming(r) /\ (InOrder(r) => InOrder(r)')
<1>1. TextOf(rrow[r])' = TextOf(rrow[r])
  BY DEF TextOf
<1> QED BY <1>1 DEF Coming, InOrder

\* A row has a content, and an update of its status keeps it.
LEMMA RowText ==
  ASSUME NEW row \in Row \cup {NoRow}, NEW st
  PROVE  /\ TextOf(row) \in 0 .. MaxTexts
         /\ TextOf(row) = 0 <=> row = NoRow
         /\ row # NoRow => TextOf(row) = row.text /\ row.text \in 1 .. MaxTexts
         /\ st \in Status => /\ TextOf(Updated(row, st)) = TextOf(row)
                             /\ Updated(row, st) = NoRow <=> row = NoRow
                             /\ row # NoRow => Updated(row, st).text = row.text
  BY MessagesAssumption, NoRowAssumption DEF TextOf, Updated, Row

\* Whatever a reader does, what it will end up with stays the same.
LEMMA ReaderKeepsComing ==
  ASSUME IInv, OnceInv, MembersInv, NEW r \in Readers,
         \/ HandleAck(r) \/ HandleData(r) \/ AckReception(r)
         \/ HandleEdit(r) \/ SaveEdited(r) \/ HandleDelete(r)
         \/ TellAuthor(r) \/ TellsOther(r) \/ HandlePeerAck(r) \/ UpdateRead(r),
         NEW q \in Readers, InOrder(q)
  PROVE  /\ Coming(q)' = Coming(q) /\ InOrder(q)'
         /\ toReader[q] = <<>> /\ rrow[q] = NoRow => toReader'[q] = <<>> /\ rrow'[q] = NoRow
<1> USE DEF authorVars, readerVars, markingVars
<1>n. NoRow \notin Row
  BY NoRowAssumption
<1>1. CASE q # r \/ HandleAck(r) \/ TellAuthor(r) \/ TellsOther(r)
  <2>1. UNCHANGED <<toReader[q], worker[q], rrow[q]>>
    BY <1>1, TellsOtherFrame
       DEF HandleAck, HandleData, AckReception, HandleEdit, SaveEdited, HandleDelete,
                TellAuthor, HandlePeerAck, UpdateRead, Handles, IInv, TypeOK
  <2> QED BY <2>1, SameReader
<1>2. CASE q = r /\ AckReception(r)
  <2>1. /\ UNCHANGED <<toReader[r], rrow[r]>> /\ worker[r].op = "ack" /\ worker'[r].op = "idle"
    BY <1>2 DEF AckReception, IInv, TypeOK
  <2> QED BY <1>2, <2>1, SameReader
<1>3. CASE q = r /\ (HandlePeerAck(r) \/ UpdateRead(r))
  <2>1. /\ UNCHANGED <<toReader[r], worker[r]>> /\ rrow'[r] = Updated(rrow[r], "Read")
        /\ rrow[r] \in Row \cup {NoRow} /\ "Read" \in Status
    BY <1>3 DEF HandlePeerAck, UpdateRead, IInv, TypeOK, Status
  <2>2. TextOf(rrow'[r]) = TextOf(rrow[r]) /\ (rrow'[r] = NoRow <=> rrow[r] = NoRow)
    BY <2>1, RowText
  <2> QED BY <1>3, <2>1, <2>2, SameReader
<1>4. CASE q = r /\ SaveEdited(r)
  <2>1. /\ toReader'[r] = toReader[r] /\ worker[r].op = "edit" /\ worker'[r].op = "idle"
        /\ rrow'[r] = worker[r].row
    BY <1>4 DEF SaveEdited, IInv, TypeOK
  <2>2. worker[r].row \in Row /\ rrow[r] # NoRow
    BY <1>4, <2>1 DEF InOrder, OnceInv, EditsStored
  <2>3. Coming(r)' = Coming(r)
    BY <1>n, <2>1, <2>2 DEF Coming, TextOf
  <2>4. InOrder(r)'
    BY <1>n, <1>4, <2>1, <2>2 DEF InOrder
  <2> QED BY <1>4, <2>2, <2>3, <2>4
<1>5. CASE q = r /\ (HandleData(r) \/ HandleEdit(r) \/ HandleDelete(r))
  <2> DEFINE s == toReader[r]
             t == Tail(s)
  <2>1. /\ s \in Seq(Sendable) /\ s # <<>> /\ toReader'[r] = t /\ worker[r].op = "idle"
    BY <1>5 DEF HandleData, HandleEdit, HandleDelete, Handles, IInv, ChannelsInv, TypeOK
  <2>2. /\ Head(s) = s[1] /\ Head(s) \in Sendable /\ 1 \in 1 .. Len(s)
        /\ Len(s) \in Nat /\ Len(t) = Len(s) - 1
        /\ \A i \in 1 .. Len(t) : i + 1 \in 1 .. Len(s) /\ t[i] = s[i + 1] /\ i + 1 # 1
        /\ t = <<>> => Len(s) = 1
        /\ t # <<>> => Len(t) \in 1 .. Len(t) /\ t[Len(t)] = s[Len(s)] /\ Len(s) # 1
    BY <2>1, ChannelTail
  <2>3. /\ \A i \in 1 .. Len(s) : s[i].kind = "DeleteMsg" <=> s[i].text = 0
        /\ \A i \in 1 .. Len(s) : s[i].kind = "DeleteMsg" => i = Len(s)
        /\ \A i \in 1 .. Len(s) : s[i].kind = "Data" => i = 1
        /\ s[1].kind = "Data" \/ rrow[r] # NoRow
    BY <1>5, <2>1 DEF InOrder
  <2>4. Coming(r) = s[Len(s)].text
    BY <2>1 DEF Coming
  <2> HIDE DEF s, t
  <2>5. /\ \A i \in 1 .. Len(t) : t[i].kind = "DeleteMsg" <=> t[i].text = 0
        /\ \A i \in 1 .. Len(t) : t[i].kind = "DeleteMsg" => i = Len(t)
        /\ \A i \in 1 .. Len(t) : t[i].kind # "Data"
    BY <2>2, <2>3
  <2>6. CASE HandleData(r)
    <3>1. /\ rrow'[r] = [st |-> "Delivered", text |-> s[1].text] /\ worker'[r].op = "ack"
          /\ s[1].kind = "Data"
      BY <2>2, <2>6 DEF HandleData, Handles, IInv, TypeOK, s
    <3>2. rrow'[r] \in Row
      BY <2>2, <3>1 DEF Sendable, Row, Status
    <3>3. InOrder(r)'
      BY <1>n, <2>1, <2>5, <3>1, <3>2 DEF InOrder
    <3>4. Coming(r)' = Coming(r)
      BY <1>n, <2>1, <2>2, <2>4, <3>1, <3>2 DEF Coming, TextOf
    <3> QED BY <1>5, <2>1, <3>3, <3>4 DEF s
  <2>7. CASE HandleEdit(r)
    <3>1. s[1].kind = "EditMsg" /\ rrow'[r] = rrow[r] /\ rrow[r] \in Row
      BY <2>2, <2>3, <2>7 DEF HandleEdit, Handles, IInv, TypeOK, s
    <3> DEFINE u == [rrow[r] EXCEPT !.text = s[1].text]
    <3>2. worker'[r] = [op |-> "edit", row |-> u]
      BY <1>n, <2>2, <2>7, <3>1 DEF HandleEdit, IInv, TypeOK, s
    <3>3. u \in Row /\ u.text = s[1].text
      BY <2>2, <3>1 DEF Sendable, Row
    <3> HIDE DEF u
    <3>4. InOrder(r)'
      BY <1>n, <2>1, <2>5, <3>1, <3>2, <3>3 DEF InOrder
    <3>5. worker'[r].op = "edit" /\ worker'[r].row.text = s[1].text
      BY <3>2, <3>3
    <3>6. Coming(r)' = Coming(r)
      <4>1. CASE t = <<>>
        BY <2>1, <2>2, <2>4, <3>5, <4>1 DEF Coming
      <4>2. CASE t # <<>>
        BY <2>1, <2>2, <2>4, <4>2 DEF Coming
      <4> QED BY <4>1, <4>2
    <3> QED BY <1>5, <2>1, <3>4, <3>6 DEF s
  <2>8. CASE HandleDelete(r)
    <3>1. s[1].kind = "DeleteMsg" /\ rrow'[r] = NoRow /\ worker'[r] = worker[r]
      BY <2>2, <2>8 DEF HandleDelete, Handles, IInv, TypeOK, s
    <3>2. t = <<>> /\ Len(s) = 1 /\ s[1].text = 0
      BY <2>2, <2>3, <3>1
    <3>3. InOrder(r)'
      BY <2>1, <3>1, <3>2 DEF InOrder
    <3>4. Coming(r)' = Coming(r)
      BY <2>1, <2>4, <3>1, <3>2 DEF Coming, TextOf
    <3> QED BY <1>5, <2>1, <3>3, <3>4 DEF s
  <2> QED BY <1>5, <2>6, <2>7, <2>8
<1> QED BY <1>1, <1>2, <1>3, <1>4, <1>5

LEMMA InitConv == Init => ConvInv
<1> SUFFICES ASSUME Init PROVE ConvInv
  OBVIOUS
<1>1. /\ arow = NoRow /\ \A t \in Tasks : task[t].op = "idle"
      /\ \A r \in Readers : /\ toReader[r] = <<>> /\ rrow[r] = NoRow
                            /\ worker[r].op = "idle"
      /\ members \subseteq Readers
  BY DEF Init, Idle
<1>2. \A r \in members : InOrder(r) /\ Coming(r) = 0 /\ TextOf(arow) = 0
  BY <1>1 DEF InOrder, Coming, TextOf
<1>3. \A t \in Tasks : \A r \in members : Told(t, r)
  BY <1>1 DEF Told
<1> QED BY <1>1, <1>2, <1>3 DEF ConvInv

LEMMA ReaderKeepsConv ==
  ASSUME IInv, OnceInv, MembersInv, ConvInv, NEW r \in Readers,
         \/ HandleAck(r) \/ HandleData(r) \/ AckReception(r)
         \/ HandleEdit(r) \/ SaveEdited(r) \/ HandleDelete(r)
         \/ TellAuthor(r) \/ TellsOther(r) \/ HandlePeerAck(r) \/ UpdateRead(r)
  PROVE  ConvInv'
<1>1. /\ UNCHANGED <<members, task, texts, overlapped>>
      /\ failed' = failed \/ failed'
      /\ arow' = arow \/ \E st \in Status : arow' = Updated(arow, st)
  BY DEF HandleAck, HandleData, AckReception, HandleEdit, SaveEdited, HandleDelete,
         TellAuthor, TellsOther, TellReader, MarkFails, HandlePeerAck, UpdateRead, steady, setting, authorVars, StatusOf, Status
<1>2. /\ TextOf(arow)' = TextOf(arow) /\ (arow' = NoRow <=> arow = NoRow)
      /\ arow # NoRow => arow'.text = arow.text
  <2>1. arow \in Row \cup {NoRow}
    BY DEF IInv, TypeOK
  <2>2. TextOf(arow') = TextOf(arow) /\ (arow' = NoRow <=> arow = NoRow)
        /\ (arow # NoRow => arow'.text = arow.text)
    BY <1>1, <2>1, RowText
  <2> QED BY <2>2 DEF TextOf
<1>3. ASSUME NEW q \in Readers, InOrder(q)
      PROVE  /\ Coming(q)' = Coming(q) /\ InOrder(q)'
             /\ toReader[q] = <<>> /\ rrow[q] = NoRow => toReader'[q] = <<>> /\ rrow'[q] = NoRow
  BY <1>3, ReaderKeepsComing
<1>4. texts' = 0 => /\ arow' = NoRow
                    /\ \A q \in Readers : toReader'[q] = <<>> /\ rrow'[q] = NoRow
                    /\ \A t \in Tasks : task'[t].op = "idle"
  <2>1. \A q \in Readers : toReader[q] = <<>> /\ rrow[q] = NoRow => InOrder(q)
    BY DEF InOrder, OnceInv, EditsStored
  <2> QED BY <1>1, <1>2, <1>3, <2>1 DEF ConvInv
<1>5. ASSUME Calm'
      PROVE  /\ \A s, t \in Tasks : task'[s].op # "idle" /\ task'[t].op # "idle" => s = t
             /\ \A q \in members' : InOrder(q)'
             /\ \A t \in Tasks : \A q \in members' : Told(t, q)'
             /\ (\A t \in Tasks : task'[t].op = "idle") =>
                  \A q \in members' : Coming(q)' = TextOf(arow)'
  <2>1. Calm /\ members \subseteq Readers
    BY <1>1, <1>5 DEF Calm, IInv
  <2>2. \A q \in members :
          /\ InOrder(q) /\ InOrder(q)' /\ Coming(q)' = Coming(q)
          /\ toReader[q] = <<>> /\ rrow[q] = NoRow => toReader'[q] = <<>> /\ rrow'[q] = NoRow
    BY <1>3, <2>1 DEF ConvInv
  <2>3. ASSUME NEW t \in Tasks, NEW q \in members PROVE Told(t, q)'
    <3>1. Told(t, q)
      BY <2>1 DEF ConvInv
    <3>2. Coming(q)' = Coming(q)
      BY <2>2
    <3>3. toReader[q] = <<>> /\ rrow[q] = NoRow => toReader'[q] = <<>> /\ rrow'[q] = NoRow
      BY <2>2
    <3> QED BY <1>1, <1>2, <3>1, <3>2, <3>3 DEF Told
  <2> QED BY <1>1, <1>2, <2>1, <2>2, <2>3 DEF ConvInv
<1> QED BY <1>4, <1>5 DEF ConvInv

\* A task that starts while no other runs finds every member with what the author has.
LEMMA StartKeepsConv ==
  ASSUME IInv, OnceInv, MembersInv, ConvInv, NEW t \in Tasks,
         SendMessage(t) \/ EditMessage(t) \/ DeleteMessage(t)
  PROVE  ConvInv'
<1> USE DEF steady, setting, readerVars, markingVars
<1>1. /\ UNCHANGED <<members, failed, toReader, rrow, worker>>
      /\ overlapped' = (overlapped \/ \E s \in Tasks : task[s].op # "idle")
      /\ \A s \in Tasks \ {t} : task'[s] = task[s]
      /\ task[t].op = "idle"
  BY DEF SendMessage, EditMessage, DeleteMessage, StartTask, IInv, TypeOK
<1>2. texts' # 0
  <2>1. CASE SendMessage(t)
    BY <2>1 DEF SendMessage
  <2>2. CASE EditMessage(t)
    BY <2>2, MessagesAssumption DEF EditMessage, IInv, TypeOK
  <2>3. CASE DeleteMessage(t)
    BY <2>3 DEF DeleteMessage, ConvInv
  <2> QED BY <2>1, <2>2, <2>3
<1>3. ASSUME Calm'
      PROVE  /\ \A s, u \in Tasks : task'[s].op # "idle" /\ task'[u].op # "idle" => s = u
             /\ \A q \in members' : InOrder(q)'
             /\ \A s \in Tasks : \A q \in members' : Told(s, q)'
             /\ (\A s \in Tasks : task'[s].op = "idle") =>
                  \A q \in members' : Coming(q)' = TextOf(arow)'
  <2>1. Calm /\ members \subseteq Readers /\ \A s \in Tasks : task[s].op = "idle"
    BY <1>1, <1>3 DEF Calm, IInv, TypeOK
  <2>2. \A q \in members : /\ Coming(q) = TextOf(arow) /\ Coming(q)' = Coming(q)
                           /\ InOrder(q) /\ InOrder(q)'
    BY <1>1, <2>1, SameReader DEF ConvInv
  <2>3. \A s \in Tasks \ {t} : \A q \in members' : Told(s, q)'
    BY <1>1, <2>1 DEF Told
  <2>4. task'[t].op # "idle" /\ \A q \in members : Told(t, q)'
    <3>1. CASE SendMessage(t)
      <4>1. /\ arow' = [st |-> "Sending", text |-> 1] /\ arow' # NoRow
            /\ task'[t] = [op |-> "send", todo |-> members, row |-> arow']
        BY <3>1, MessagesAssumption, NoRowAssumption
        DEF SendMessage, StartTask, IInv, TypeOK, Row, Status
      <4>2. \A q \in members : toReader'[q] = <<>> /\ rrow'[q] = NoRow
        BY <1>1, <2>1, <3>1 DEF SendMessage, ConvInv
      <4> QED BY <4>1, <4>2 DEF Told
    <3>2. CASE EditMessage(t)
      <4>1. arow' = arow /\ arow # NoRow /\ task'[t].op = "read"
        BY <3>2 DEF EditMessage, StartTask, IInv, TypeOK
      <4>2. \A q \in members : Coming(q)' = arow.text
        BY <2>2, <4>1 DEF TextOf
      <4> QED BY <4>1, <4>2 DEF Told
    <3>3. CASE DeleteMessage(t)
      <4>1. arow' = arow /\ arow # NoRow
            /\ task'[t] = [op |-> "delete", todo |-> members, row |-> arow]
        BY <3>3 DEF DeleteMessage, StartTask, IInv, TypeOK
      <4>2. \A q \in members : Coming(q)' = arow.text
        BY <2>2, <4>1 DEF TextOf
      <4> QED BY <4>1, <4>2 DEF Told
    <3> QED BY <3>1, <3>2, <3>3
  <2> QED BY <1>1, <2>1, <2>2, <2>3, <2>4
<1> QED BY <1>2, <1>3 DEF ConvInv

\* The only task that runs saves its edition, fails, or ends.
LEMMA TaskKeepsConv ==
  ASSUME IInv, OnceInv, MembersInv, ConvInv, NEW t \in Tasks,
         SaveEdit(t) \/ DispatchFails(t) \/ Finish(t)
  PROVE  ConvInv'
<1> USE DEF steady, setting, readerVars, markingVars
<1>1. /\ UNCHANGED <<members, texts, overlapped, toReader, rrow, worker>>
      /\ \A s \in Tasks \ {t} : task'[s] = task[s]
      /\ task[t].op # "idle"
  BY DEF SaveEdit, DispatchFails, Dispatching, Finish, IInv, TypeOK
<1>2. texts' # 0
  BY <1>1 DEF ConvInv
<1>3. ASSUME Calm'
      PROVE  /\ \A s, u \in Tasks : task'[s].op # "idle" /\ task'[u].op # "idle" => s = u
             /\ \A q \in members' : InOrder(q)'
             /\ \A s \in Tasks : \A q \in members' : Told(s, q)'
             /\ (\A s \in Tasks : task'[s].op = "idle") =>
                  \A q \in members' : Coming(q)' = TextOf(arow)'
  <2>1. ~DispatchFails(t)
    BY <1>3 DEF DispatchFails, Calm
  <2>2. Calm /\ members \subseteq Readers
    BY <1>1, <1>3, <2>1 DEF Calm, IInv, SaveEdit, Finish
  <2>3. \A s \in Tasks \ {t} : task[s].op = "idle" /\ task'[s].op = "idle"
    BY <1>1, <2>2 DEF ConvInv
  <2>4. \A q \in members : Told(t, q) /\ Coming(q)' = Coming(q) /\ InOrder(q) /\ InOrder(q)'
    BY <1>1, <2>2, SameReader DEF ConvInv
  <2>5. \A s \in Tasks \ {t} : \A q \in members' : Told(s, q)'
    BY <2>3 DEF Told
  <2>6. CASE SaveEdit(t)
    <3>1. /\ task[t].op = "read" /\ arow' = task[t].row
          /\ task'[t].op = "edit" /\ task'[t].todo = members /\ task'[t].row = task[t].row
      BY <2>6 DEF SaveEdit, IInv, TypeOK
    <3>2. arow' # NoRow
      BY <3>1, NoRowAssumption DEF IInv, TasksInv
    <3>3. arow \in Row \cup {NoRow}
      BY DEF IInv, TypeOK
    <3>4. \A q \in members : Coming(q)' # 0
      BY <2>4, <3>1, <3>3, RowText DEF Told
    <3>5. \A q \in members : Told(t, q)'
      BY <3>1, <3>2, <3>4 DEF Told
    <3> QED BY <1>1, <2>3, <2>4, <2>5, <3>1, <3>5
  <2>7. CASE Finish(t)
    <3>1. /\ task[t].op \in {"send", "edit", "delete"} /\ task[t].todo = {}
          /\ task'[t].op = "idle"
          /\ arow' = CASE task[t].op = "send"   -> Updated(arow, "Sent")
                       [] task[t].op = "edit"   -> arow
                       [] task[t].op = "delete" -> NoRow
      BY <2>7 DEF Finish, Idle, IInv, TypeOK
    <3>2. arow \in Row \cup {NoRow} /\ "Sent" \in Status
      BY DEF IInv, TypeOK, Status
    <3>3. ASSUME NEW q \in members PROVE Coming(q)' = TextOf(arow)'
      <4>1. CASE task[t].op = "delete"
        <5>1. arow' = NoRow /\ Coming(q) = 0
          BY <2>4, <3>1, <4>1 DEF Told
        <5> QED BY <2>4, <5>1 DEF TextOf
      <4>2. CASE task[t].op = "edit"
        <5>1. arow' = arow /\ arow # NoRow /\ Coming(q) = arow.text
          BY <2>4, <3>1, <4>2 DEF Told
        <5> QED BY <2>4, <5>1 DEF TextOf
      <4>3. CASE task[t].op = "send"
        <5>1. arow' = Updated(arow, "Sent") /\ arow # NoRow /\ Coming(q) = arow.text
          BY <2>4, <3>1, <4>3 DEF Told
        <5>2. arow' # NoRow /\ arow'.text = arow.text
          BY <3>2, <5>1, RowText
        <5> QED BY <2>4, <5>1, <5>2 DEF TextOf
      <4> QED BY <3>1, <4>1, <4>2, <4>3
    <3>4. \A q \in members' : Told(t, q)'
      BY <3>1 DEF Told
    <3> QED BY <1>1, <2>3, <2>4, <2>5, <3>1, <3>3, <3>4
  <2> QED BY <2>1, <2>6, <2>7
<1> QED BY <1>2, <1>3 DEF ConvInv

\* What is sent to a member comes behind what it has been sent, and is then the last.
LEMMA DispatchKeepsConv ==
  ASSUME IInv, OnceInv, MembersInv, ConvInv, NEW t \in Tasks, NEW r \in Readers,
         DispatchTo(t, r)
  PROVE  ConvInv'
<1> USE DEF steady, setting, readerVars, markingVars
<1> DEFINE m == MessageOf(task[t])
           s == toReader[r]
           x == Append(s, m)
<1>1. /\ UNCHANGED <<members, texts, failed, overlapped, arow, rrow, worker>>
      /\ \A u \in Tasks \ {t} : task'[u] = task[u]
      /\ task[t].op \in {"send", "edit", "delete"} /\ r \in task[t].todo
      /\ task'[t].op = task[t].op /\ task'[t].row = task[t].row
      /\ task'[t].todo = task[t].todo \ {r}
      /\ toReader'[r] = x
      /\ \A q \in Readers \ {r} : toReader'[q] = toReader[q]
  BY DEF DispatchTo, Dispatching, IInv, TypeOK
<1>2. texts' # 0
  BY <1>1 DEF ConvInv
<1>3. ASSUME Calm'
      PROVE  /\ \A u, v \in Tasks : task'[u].op # "idle" /\ task'[v].op # "idle" => u = v
             /\ \A q \in members' : InOrder(q)'
             /\ \A u \in Tasks : \A q \in members' : Told(u, q)'
             /\ ~\A u \in Tasks : task'[u].op = "idle"
  <2>1. Calm /\ members \subseteq Readers /\ r \in members
    BY <1>1, <1>3 DEF Calm, IInv, MembersInv
  <2>2. \A u \in Tasks \ {t} : task[u].op = "idle" /\ task'[u].op = "idle"
    BY <1>1, <2>1 DEF ConvInv
  <2>3. \A q \in members \ {r} : /\ Told(t, q) /\ Coming(q)' = Coming(q)
                                 /\ InOrder(q) /\ InOrder(q)'
    BY <1>1, <2>1, SameReader DEF ConvInv
  <2>4. \A u \in Tasks \ {t} : \A q \in members' : Told(u, q)'
    BY <2>2 DEF Told
  <2>5. \A q \in members \ {r} : Told(t, q)'
    BY <1>1, <2>1, <2>3 DEF Told
  <2>6. Told(t, r) /\ InOrder(r)
    BY <2>1 DEF ConvInv
  <2>7. /\ m \in Sendable
        /\ m.kind = "DeleteMsg" <=> m.text = 0
        /\ m.kind = "Data" <=> task[t].op = "send"
        /\ m.kind = "DeleteMsg" <=> task[t].op = "delete"
        /\ task[t].op # "delete" => m.text = task[t].row.text
    BY <1>1, MessagesAssumption
    DEF MessageOf, Sendable, ChatMessage, IInv, TasksInv, Row
  <2>8. s \in Seq(Sendable) /\ arow \in Row \cup {NoRow}
    BY DEF IInv, ChannelsInv, TypeOK
  <2>9. /\ x # <<>> /\ Len(s) \in Nat /\ Len(x) = Len(s) + 1 /\ x[Len(x)] = m
        /\ \A i \in 1 .. Len(x) : i = Len(x) \/ (i \in 1 .. Len(s) /\ x[i] = s[i])
        /\ s # <<>> => Len(s) \in 1 .. Len(s) /\ x[1] = s[1]
        /\ s = <<>> => x[1] = m /\ Len(x) = 1
    BY <2>7, <2>8, ChannelAppend
  <2>10. Coming(r)' = m.text
    <3> HIDE DEF x, m
    <3> QED BY <1>1, <2>9 DEF Coming
  <2>11. /\ task[t].op = "send" => s = <<>> /\ rrow[r] = NoRow
         /\ task[t].op # "send" => Coming(r) # 0
    BY <1>1, <2>6, <2>8, RowText DEF Told
  <2>12. \A i \in 1 .. Len(s) : s[i].kind # "DeleteMsg"
    <3>1. CASE s = <<>>
      BY <3>1
    <3>2. CASE s # <<>>
      <4>1. Coming(r) = s[Len(s)].text /\ Coming(r) # 0
        BY <2>11, <3>2 DEF Coming
      <4> QED BY <2>6, <2>9, <3>2, <4>1 DEF InOrder
    <3> QED BY <3>1, <3>2
  <2>13. InOrder(r)'
    <3>1. \A i \in 1 .. Len(s) : s[i].kind = "DeleteMsg" <=> s[i].text = 0
      BY <2>6 DEF InOrder
    <3>2. \A i \in 1 .. Len(s) : s[i].kind = "Data" => i = 1
      BY <2>6 DEF InOrder
    <3>3. s # <<>> => s[1].kind = "Data" \/ rrow[r] # NoRow
      BY <2>6 DEF InOrder
    <3>4. worker[r].op = "edit" => worker[r].row \in Row /\ rrow[r] # NoRow
      BY <2>6 DEF InOrder, OnceInv, EditsStored
    <3>5. s = <<>> /\ task[t].op # "send" => rrow[r] # NoRow
      BY <2>11, <3>4 DEF Coming, TextOf
    <3> HIDE DEF s, x, m
    <3>6. ASSUME NEW i \in 1 .. Len(x) PROVE x[i].kind = "DeleteMsg" <=> x[i].text = 0
      <4>1. CASE i = Len(x)
        BY <2>7, <2>9, <4>1
      <4>2. CASE i \in 1 .. Len(s) /\ x[i] = s[i]
        BY <3>1, <4>2
      <4> QED BY <2>9, <4>1, <4>2
    <3>7. \A i \in 1 .. Len(x) : x[i].kind = "DeleteMsg" => i = Len(x)
      BY <2>9, <2>12
    <3>8. \A i \in 1 .. Len(x) : x[i].kind = "Data" => i = 1
      BY <2>7, <2>9, <2>11, <3>2
    <3>9. x[1].kind = "Data" \/ rrow[r] # NoRow
      BY <2>7, <2>9, <3>3, <3>5
    <3> QED BY <1>1, <3>4, <3>6, <3>7, <3>8, <3>9 DEF InOrder
  <2>14. Told(t, r)'
    <3>1. /\ task'[t].op = task[t].op /\ task'[t].row = task[t].row /\ r \notin task'[t].todo
          /\ task[t].op \in {"send", "edit", "delete"} /\ arow' = arow
      BY <1>1
    <3>2. arow # NoRow /\ (task[t].op \in {"send", "edit"} => arow.text = task[t].row.text)
      BY <2>6, <3>1 DEF Told
    <3>3. /\ task[t].op \in {"send", "edit"} => Coming(r)' = task[t].row.text
          /\ task[t].op = "delete" => Coming(r)' = 0
      <4> HIDE DEF m
      <4> QED BY <2>7, <2>10
    <3> QED BY <3>1, <3>2, <3>3 DEF Told
  <2> QED BY <1>1, <2>1, <2>2, <2>3, <2>4, <2>5, <2>13, <2>14
<1> QED BY <1>2, <1>3 DEF ConvInv

LEMMA StepConv == IInv /\ OnceInv /\ MembersInv /\ ConvInv /\ [Next]_vars => ConvInv'
<1> SUFFICES ASSUME IInv, OnceInv, MembersInv, ConvInv, [Next]_vars PROVE ConvInv'
  OBVIOUS
<1>1. CASE Next
  BY <1>1, StartKeepsConv, TaskKeepsConv, DispatchKeepsConv, ReaderKeepsConv DEF Next, TellsOther
<1>2. CASE UNCHANGED vars
  <2>1. UNCHANGED <<members, arow, task, texts, failed, overlapped, rrow, worker, toReader>>
    BY <1>2 DEF vars, setting, authorVars, readerVars, markingVars
  <2>2. \A r \in Readers : Coming(r)' = Coming(r) /\ (InOrder(r) => InOrder(r)')
    BY <2>1, SameReader DEF TextOf
  <2>3. \A t \in Tasks : \A r \in Readers : Told(t, r) => Told(t, r)'
    BY <2>1, <2>2 DEF Told
  <2>4. TextOf(arow)' = TextOf(arow) /\ members \subseteq Readers
    BY <2>1 DEF TextOf, IInv
  <2> QED BY <2>1, <2>2, <2>3, <2>4 DEF ConvInv, Calm
<1> QED BY <1>1, <1>2

-----------------------------------------------------------------------------
(* The status: it is Read when the last acknowledgement has come, for the  *)
(* last that a reader sends is its AckRead.                                *)

\* The status st is the one to show as soon as every acknowledgement has come.
Settled(st) ==
  (marked = members /\ \A r \in Readers : toAuthor[r] = <<>>) => st = "Read"

ReadInv ==
  ~raced =>
    /\ \A r \in marked : /\ worker[r].op # "ack"
                         /\ toAuthor[r] # <<>> => toAuthor[r][Len(toAuthor[r])] = "AckRead"
    /\ (\E t \in Tasks : task[t].op = "send") => \A r \in marked : toAuthor[r] # <<>>
    /\ arow # NoRow => Settled(arow.st)
    /\ \A t \in Tasks : task[t].op = "read" => Settled(task[t].row.st)

LEMMA InitRead == Init => ReadInv
  BY DEF Init, ReadInv, Settled, Idle

\* A step of task t that touches no acknowledgement.
LEMMA TaskFrame ==
  ASSUME MembersInv, ReadInv, NEW t \in Tasks,
         UNCHANGED <<members, marked, toAuthor, worker, raced>>,
         \A s \in Tasks \ {t} : task'[s] = task[s],
         task'[t].op = "send" => task[t].op = "send" \/ marked = {},
         ~raced /\ arow' # NoRow => Settled(arow'.st),
         ~raced /\ task'[t].op = "read" => Settled(task'[t].row.st)
  PROVE  ReadInv'
<1>1. ASSUME NEW st, Settled(st) PROVE Settled(st)'
  BY <1>1 DEF Settled
<1>2. ~raced /\ arow' # NoRow => Settled(arow.st)'
  BY DEF Settled
<1>3. ASSUME ~raced, NEW s \in Tasks, task'[s].op = "read" PROVE Settled(task[s].row.st)'
  <2>1. CASE s = t
    BY <1>3, <2>1 DEF Settled
  <2>2. CASE s # t
    BY <1>3, <2>2 DEF ReadInv, Settled
  <2> QED BY <2>1, <2>2
<1> QED BY <1>2, <1>3 DEF ReadInv

\* What the author's tasks save was read with no acknowledgement since.
LEMMA TasksKeepRead ==
  ASSUME IInv, OnceInv, MembersInv, ReadInv, NEW t \in Tasks,
         \/ SendMessage(t) \/ EditMessage(t) \/ SaveEdit(t) \/ DeleteMessage(t)
         \/ \E r \in Readers : DispatchTo(t, r)
         \/ DispatchFails(t) \/ Finish(t)
  PROVE  ReadInv'
<1> USE DEF steady, setting, readerVars, markingVars
<1>1. UNCHANGED <<members, marked, toAuthor, worker, raced>>
  BY DEF SendMessage, EditMessage, SaveEdit, DeleteMessage, DispatchTo, DispatchFails, Finish
<1>2. \A s \in Tasks \ {t} : task'[s] = task[s]
  BY DEF SendMessage, EditMessage, SaveEdit, DeleteMessage, DispatchTo, DispatchFails, Finish,
         StartTask, IInv, TypeOK
<1>3. ~raced /\ arow # NoRow => Settled(arow.st)
  BY DEF ReadInv
<1>4. CASE SendMessage(t)
  <2>1. marked = {} /\ task'[t].op = "send"
    BY <1>4 DEF SendMessage, StartTask, IInv, TypeOK, OnceInv, ArrivesOnce, MembersInv
  <2>2. Settled(arow'.st)
    BY <2>1 DEF Settled, MembersInv
  <2> QED BY <1>1, <1>2, <2>1, <2>2, TaskFrame
<1>5. CASE EditMessage(t)
  <2>1. /\ arow' = arow /\ arow \in Row /\ task'[t].op = "read"
        /\ task'[t].row = [arow EXCEPT !.text = texts + 1]
    BY <1>5 DEF EditMessage, StartTask, IInv, TypeOK
  <2>2. task'[t].row.st = arow.st /\ arow # NoRow
    BY <1>5, <2>1 DEF EditMessage, Row
  <2> QED BY <1>1, <1>2, <1>3, <2>1, <2>2, TaskFrame
<1>6. CASE SaveEdit(t)
  <2>1. /\ task[t].op = "read" /\ arow' = task[t].row /\ task'[t].op = "edit"
    BY <1>6 DEF SaveEdit, IInv, TypeOK
  <2>2. ~raced => Settled(arow'.st)
    BY <2>1 DEF ReadInv
  <2> QED BY <1>1, <1>2, <2>1, <2>2, TaskFrame
<1>7. CASE DeleteMessage(t)
  <2>1. arow' = arow /\ task'[t].op = "delete"
    BY <1>7 DEF DeleteMessage, StartTask, IInv, TypeOK
  <2> QED BY <1>1, <1>2, <1>3, <2>1, TaskFrame
<1>8. CASE \E r \in Readers : DispatchTo(t, r)
  <2>1. arow' = arow /\ task'[t].op = task[t].op /\ task[t].op # "read"
    BY <1>8 DEF DispatchTo, Dispatching, IInv, TypeOK
  <2> QED BY <1>1, <1>2, <1>3, <2>1, TaskFrame
<1>9. CASE DispatchFails(t)
  <2>1. arow' = arow /\ task'[t].op = "idle"
    BY <1>9 DEF DispatchFails, IInv, TypeOK, Idle
  <2> QED BY <1>1, <1>2, <1>3, <2>1, TaskFrame
<1>10. CASE Finish(t)
  <2>1. /\ task'[t].op = "idle" /\ task[t].op \in {"send", "edit", "delete"}
        /\ arow' = CASE task[t].op = "send"   -> Updated(arow, "Sent")
                     [] task[t].op = "edit"   -> arow
                     [] task[t].op = "delete" -> NoRow
    BY <1>10 DEF Finish, Idle, IInv, TypeOK
  <2>2. ~raced /\ arow' # NoRow => Settled(arow'.st)
    <3>1. CASE task[t].op = "send"
      <4>1. ASSUME ~raced, marked = members PROVE \E r \in Readers : toAuthor[r] # <<>>
        <5>1. PICK r \in marked : toAuthor[r] # <<>>
          BY <3>1, <4>1 DEF ReadInv, MembersInv
        <5> QED BY <5>1 DEF IInv, TypeOK
      <4> QED BY <4>1 DEF Settled
    <3>2. CASE task[t].op \in {"edit", "delete"}
      BY <1>3, <2>1, <3>2
    <3> QED BY <2>1, <3>1, <3>2
  <2> QED BY <1>1, <1>2, <2>1, <2>2, TaskFrame
<1> QED BY <1>4, <1>5, <1>6, <1>7, <1>8, <1>9, <1>10

\* While a channel has an acknowledgement, no status is due.
LEMMA NothingDue ==
  ASSUME NEW r \in Readers, toAuthor[r] # <<>>, NEW st PROVE Settled(st)
  BY DEF Settled

\* The acknowledgement that leaves no other is an AckRead.
LEMMA AckKeepsRead ==
  ASSUME IInv, OnceInv, MembersInv, ReadInv, NEW r \in Readers, HandleAck(r)
  PROVE  ReadInv'
<1> USE DEF setting, readerVars, markingVars
<1> DEFINE s == toAuthor[r]
           x == Tail(s)
<1>1. /\ UNCHANGED <<members, marked, worker, task>> /\ s # <<>> /\ toAuthor'[r] = x
      /\ \A q \in Readers \ {r} : toAuthor'[q] = toAuthor[q]
      /\ arow' = Updated(arow, StatusOf(Head(s)))
      /\ raced' = (raced \/ \E t \in Tasks : task[t].op \in {"send", "read"})
  BY DEF HandleAck, IInv, TypeOK
<1>2. SUFFICES ASSUME ~raced' PROVE ReadInv'
  BY DEF ReadInv
<1>3. ~raced /\ \A t \in Tasks : task[t].op \notin {"send", "read"}
  BY <1>1, <1>2 DEF IInv, TypeOK
<1>4. s \in Seq(AcksOf(r, stored, marked))
  BY DEF IInv, ChannelsInv
<1>5. /\ Head(s) = s[1] /\ Head(s) \in AcksOf(r, stored, marked)
      /\ x = <<>> => Len(s) = 1
      /\ x # <<>> => x[Len(x)] = s[Len(s)]
  <2> HIDE DEF AcksOf, s
  <2> QED BY <1>1, <1>4, ChannelTail DEF s
<1> HIDE DEF s, x
<1>6. \A q \in marked : worker[q].op # "ack"
  BY <1>3 DEF ReadInv
<1>7. \A q \in marked : toAuthor'[q] # <<>> => toAuthor'[q][Len(toAuthor'[q])] = "AckRead"
  <2> SUFFICES ASSUME NEW q \in marked, toAuthor'[q] # <<>>
               PROVE  toAuthor'[q][Len(toAuthor'[q])] = "AckRead"
    OBVIOUS
  <2>1. q \in Readers
    BY DEF IInv, TypeOK
  <2>2. toAuthor[q] # <<>> => toAuthor[q][Len(toAuthor[q])] = "AckRead"
    BY <1>3 DEF ReadInv
  <2>3. CASE q = r
    BY <1>1, <1>5, <2>2, <2>3 DEF s
  <2>4. CASE q # r
    BY <1>1, <2>1, <2>2, <2>4
  <2> QED BY <2>3, <2>4
<1>8. ASSUME arow' # NoRow PROVE Settled(arow.st)'
  <2> SUFFICES ASSUME marked = members, x = <<>> PROVE arow'.st = "Read"
    BY <1>1 DEF Settled
  <2>1. r \in marked
    BY <1>5 DEF AcksOf, MembersInv
  <2>2. Head(s) = "AckRead"
    BY <1>1, <1>3, <1>5, <2>1 DEF ReadInv, s
  <2>3. arow \in Row
    BY <1>1, <1>8 DEF IInv, TypeOK, Updated
  <2> QED BY <1>1, <1>8, <2>2, <2>3 DEF StatusOf, Updated, Row
<1> QED BY <1>1, <1>3, <1>6, <1>7, <1>8 DEF ReadInv

\* A reader acknowledges the reception before it acknowledges reading.
LEMMA ReaderKeepsRead ==
  ASSUME IInv, OnceInv, MembersInv, ReadInv, NEW r \in Readers,
         \/ HandleData(r) \/ AckReception(r)
         \/ HandleEdit(r) \/ SaveEdited(r) \/ HandleDelete(r)
         \/ TellAuthor(r) \/ TellsOther(r) \/ HandlePeerAck(r) \/ UpdateRead(r)
  PROVE  ReadInv'
<1> USE DEF steady, setting, authorVars, markingVars
<1>1. UNCHANGED <<members, task, arow>>
  BY TellsOtherFrame DEF HandleData, AckReception, HandleEdit, SaveEdited, HandleDelete, TellAuthor,
                         HandlePeerAck, UpdateRead
<1>2. CASE \/ HandleData(r) \/ HandleEdit(r) \/ SaveEdited(r) \/ HandleDelete(r)
           \/ TellsOther(r) \/ HandlePeerAck(r) \/ UpdateRead(r)
  <2>1. UNCHANGED <<marked, toAuthor, raced>>
    BY <1>2, TellsOtherFrame DEF HandleData, HandleEdit, SaveEdited, HandleDelete, HandlePeerAck, UpdateRead
  <2>2. \A q \in marked : worker[q].op # "ack" => worker'[q].op # "ack"
    <3>1. CASE HandleData(r)
      <4>1. /\ toReader[r] \in Seq(ChatMessage) /\ toReader[r] # <<>>
            /\ Head(toReader[r]).kind = "Data"
        BY <3>1 DEF HandleData, Handles, IInv, TypeOK
      <4>2. 1 \in 1 .. Len(toReader[r]) /\ Head(toReader[r]) = toReader[r][1]
        BY <4>1
      <4>3. r \notin stored
        BY <4>1, <4>2 DEF OnceInv, ArrivesOnce, NoData
      <4>4. r \notin marked /\ \A q \in Readers \ {r} : worker'[q] = worker[q]
        BY <3>1, <4>3 DEF HandleData, MembersInv, IInv, TypeOK
      <4> QED BY <4>4 DEF IInv, TypeOK
    <3>2. CASE HandleEdit(r)
      BY <3>2 DEF HandleEdit, Handles, IInv, TypeOK
    <3>3. CASE SaveEdited(r)
      BY <3>3 DEF SaveEdited, IInv, TypeOK
    <3>4. CASE HandleDelete(r) \/ TellsOther(r) \/ HandlePeerAck(r) \/ UpdateRead(r)
      BY <3>4, TellsOtherFrame DEF HandleDelete, HandlePeerAck, UpdateRead
    <3> QED BY <1>2, <3>1, <3>2, <3>3, <3>4
  <2> QED BY <1>1, <2>1, <2>2 DEF ReadInv, Settled
<1>3. CASE AckReception(r)
  <2>1. /\ UNCHANGED <<marked, raced>> /\ worker[r].op = "ack" /\ worker'[r].op = "idle"
        /\ toAuthor'[r] = Append(toAuthor[r], "AckReception")
        /\ \A q \in Readers \ {r} : toAuthor'[q] = toAuthor[q] /\ worker'[q] = worker[q]
    BY <1>3 DEF AckReception, IInv, TypeOK
  <2>2. toAuthor'[r] # <<>>
    <3>1. toAuthor[r] \in Seq({"AckReception", "AckRead"})
      BY DEF IInv, TypeOK
    <3> QED BY <2>1, <3>1
  <2>3. ~raced => r \notin marked
    BY <2>1 DEF ReadInv
  <2>4. \A st : Settled(st)'
    BY <2>2 DEF Settled
  <2>5. ASSUME ~raced, NEW q \in marked
        PROVE  q \in Readers /\ q # r /\ toAuthor'[q] = toAuthor[q] /\ worker'[q] = worker[q]
    BY <2>1, <2>3, <2>5 DEF IInv, TypeOK
  <2>6. Settled(arow.st)' /\ \A t \in Tasks : Settled(task[t].row.st)'
    BY <2>2 DEF Settled
  <2> QED BY <1>1, <2>1, <2>5, <2>6 DEF ReadInv
<1>4. CASE TellAuthor(r)
  <2>1. /\ marked' = marked \cup {r} /\ worker' = worker
        /\ raced' = (raced \/ worker[r].op = "ack")
        /\ toAuthor'[r] = Append(toAuthor[r], "AckRead")
        /\ \A q \in Readers \ {r} : toAuthor'[q] = toAuthor[q]
    BY <1>4 DEF TellAuthor, IInv, TypeOK
  <2>2. toAuthor'[r] # <<>> /\ toAuthor'[r][Len(toAuthor'[r])] = "AckRead"
    <3>1. toAuthor[r] \in Seq({"AckReception", "AckRead"})
      BY DEF IInv, TypeOK
    <3> QED BY <2>1, <3>1
  <2>3. Settled(arow.st)' /\ \A t \in Tasks : Settled(task[t].row.st)'
    BY <2>2 DEF Settled
  <2>4. ~raced' => ~raced /\ worker[r].op # "ack"
    BY <2>1 DEF IInv, TypeOK
  <2>5. marked \subseteq Readers
    BY DEF IInv, TypeOK
  <2> QED BY <1>1, <2>1, <2>2, <2>3, <2>4, <2>5 DEF ReadInv
<1> QED BY <1>2, <1>3, <1>4

LEMMA StepRead == IInv /\ OnceInv /\ MembersInv /\ ReadInv /\ [Next]_vars => ReadInv'
<1> SUFFICES ASSUME IInv, OnceInv, MembersInv, ReadInv, [Next]_vars PROVE ReadInv'
  OBVIOUS
<1>1. CASE Next
  BY <1>1, TasksKeepRead, AckKeepsRead, ReaderKeepsRead DEF Next, TellsOther
<1>2. CASE UNCHANGED vars
  BY <1>2 DEF vars, setting, authorVars, readerVars, markingVars, ReadInv, Settled
<1> QED BY <1>1, <1>2

-----------------------------------------------------------------------------

\* The invariants that need one another.
LEMMA AllInv == Spec => [](IInv /\ OnceInv /\ MembersInv /\ ConvInv /\ ReadInv)
<1>1. Init => OnceInv /\ MembersInv /\ ConvInv /\ ReadInv
  BY InitOnce, InitMembers, InitConv, InitRead
<1>2. IInv /\ OnceInv /\ MembersInv /\ ConvInv /\ ReadInv /\ [Next]_vars =>
        OnceInv' /\ MembersInv' /\ ConvInv' /\ ReadInv'
  BY StepOnce, StepMembers, StepConv, StepRead
<1> QED BY <1>1, <1>2, Invariant, PTL DEF Spec

\* Whatever readers a conversation has and however its messages cross, the content that the
\* author has and the content that each reader has are the same once all has arrived, if
\* no send failed and the author waited for each operation to end (send_message,
\* edit_message, delete_message, handle_data_message, EditMsg, DeleteMsg).
THEOREM OperationsConverge == Spec => []Converges
<1>1. IInv /\ OnceInv /\ ConvInv => Converges
  <2> SUFFICES ASSUME IInv, ConvInv, Quiet, texts > 0, ~failed, ~overlapped,
                      NEW r \in members
               PROVE  /\ rrow[r] = NoRow <=> arow = NoRow
                      /\ arow # NoRow => rrow[r].text = arow.text
    BY DEF Converges
  <2>1. r \in Readers /\ rrow[r] \in Row \cup {NoRow} /\ arow \in Row \cup {NoRow}
    BY DEF IInv, TypeOK
  <2>2. Coming(r) = TextOf(rrow[r])
    BY <2>1 DEF Quiet, Coming
  <2>3. Coming(r) = TextOf(arow)
    BY DEF ConvInv, Calm, Quiet
  <2> QED BY <2>1, <2>2, <2>3, RowText
<1> QED BY <1>1, AllInv, PTL

\* A message whose readers have each acknowledged reading it, or have the row Read, is
\* shown as Read when the acknowledgements have come, except where one raced a row that a
\* task of the author held or an AckReception (raced), or where the AckRead of another
\* reader, which goes to every member, left a reader nothing to acknowledge (Silenced):
\* for any readers, tasks, editions and failed sends (mark_as_read, AckReception, AckRead,
\* send_message, edit_message).
THEOREM ReadIsAlwaysShown == Spec => []ReadIsShown
<1>1. IInv /\ MembersInv /\ ReadInv => ReadIsShown
  <2> SUFFICES ASSUME IInv, MembersInv, ReadInv, Quiet, arow # NoRow,
                      members \subseteq marked \cup Silenced, ~raced, Silenced = {}
               PROVE  arow.st = "Read"
    BY DEF ReadIsShown
  <2>1. marked = members
    BY DEF MembersInv
  <2>2. Settled(arow.st)
    BY DEF ReadInv
  <2> QED BY <2>1, <2>2 DEF Settled, Quiet
<1> QED BY <1>1, AllInv, PTL

=============================================================================
