------------------------------ MODULE Messages ------------------------------
(***************************************************************************)
(* The life of one message of a conversation: its row in the storage of    *)
(* its author and of each reader, the tasks of the author's interface that *)
(* send, edit and delete it, the readers' interfaces that mark it as read, *)
(* and the chat workers of both sides (chat/client). Each call of the      *)
(* storage is one step, and so is each send to one peer: tasks, interfaces *)
(* and workers interleave between them.                                    *)
(*                                                                         *)
(* Between two clients messages arrive once, in the order of the sends.    *)
(***************************************************************************)
EXTENDS Naturals, Sequences, FiniteSets

CONSTANTS
  Author,       \* the peer who sends the message
  Readers,      \* the other peers a conversation may have
  MaxTasks,     \* bound: tasks the author's interface runs at a time
  NoRow,        \* the message is not in the storage
  Faulty,       \* whether the send to a peer may fail
  MaxTexts,     \* bound: contents the message is given
  MaxActors,    \* bound: readers and tasks of a behaviour, together
  MaxTransit    \* bound: messages on their way between the author and a reader

ASSUME MessagesAssumption ==
  /\ Author \notin Readers /\ Faulty \in BOOLEAN
  /\ {MaxTasks, MaxTexts} \subseteq Nat \ {0}

Tasks == 1 .. MaxTasks

VARIABLES
  members,    \* the other peers of this conversation
  used,       \* the tasks the interface runs at a time in this behaviour
  arow,       \* the author's row
  rrow,       \* each reader's row
  task,       \* what each task of the author's interface is doing
  worker,     \* what each reader's chat worker is doing
  marking,    \* readers whose interface is marking the message as read
  telling,    \* the members whom it has not told yet
  toReader,   \* from the author to each reader
  toAuthor,   \* from each reader to the author
  acks,       \* how many AckReads of other readers are on their way to each reader
  texts,      \* contents given so far: the number is the content
  marked,     \* readers who have acknowledged reading the message
  stored,     \* readers who have stored it, whose interface has been told
  failed,     \* whether a send has failed
  overlapped, \* whether an operation was started before another was over
  raced       \* whether an acknowledgement came while a task held the row it had read,
              \* or an AckRead was sent before the AckReception

authorVars == <<arow, task, texts, failed, overlapped>>
markingVars == <<marking, telling, marked, acks>>
readerVars == <<rrow, worker, stored, markingVars>>
setting == <<members, used>>
steady == <<setting, raced>>
vars == <<setting, authorVars, raced, readerVars, toReader, toAuthor>>

Status == {"Sending", "Sent", "Delivered", "Read"}
Row == [st : Status, text : 1 .. MaxTexts]
ASSUME NoRowAssumption == NoRow \notin Row

ChatMessage == [kind : {"Data", "EditMsg", "DeleteMsg"}, text : 0 .. MaxTexts]
Idle == [op |-> "idle", todo |-> {}, row |-> NoRow]

TypeOK ==
  /\ arow \in Row \cup {NoRow}
  /\ rrow \in [Readers -> Row \cup {NoRow}]
  /\ task \in [Tasks -> [op : {"idle", "send", "read", "edit", "delete"},
                         todo : SUBSET Readers, row : Row \cup {NoRow}]]
  /\ worker \in [Readers -> [op : {"idle", "ack", "edit"}, row : Row \cup {NoRow}]]
  /\ marking \subseteq Readers /\ telling \in [Readers -> SUBSET (Readers \cup {Author})]
  /\ toReader \in [Readers -> Seq(ChatMessage)]
  /\ toAuthor \in [Readers -> Seq({"AckReception", "AckRead"})]
  /\ acks \in [Readers -> Nat]
  /\ texts \in 0 .. MaxTexts
  /\ marked \subseteq Readers /\ stored \subseteq Readers
  /\ {failed, overlapped, raced} \subseteq BOOLEAN

Init ==
  /\ members \in (SUBSET Readers) \ {{}}
  /\ used \in {1 .. n : n \in Tasks}
  /\ Cardinality(members) + Cardinality(used) <= MaxActors
  /\ arow = NoRow
  /\ rrow = [r \in Readers |-> NoRow]
  /\ task = [t \in Tasks |-> Idle]
  /\ worker = [r \in Readers |-> [op |-> "idle", row |-> NoRow]]
  /\ marking = {} /\ telling = [r \in Readers |-> {}] /\ acks = [r \in Readers |-> 0]
  /\ toReader = [r \in Readers |-> <<>>]
  /\ toAuthor = [r \in Readers |-> <<>>]
  /\ texts = 0
  /\ marked = {} /\ stored = {} /\ failed = FALSE /\ overlapped = FALSE /\ raced = FALSE

-----------------------------------------------------------------------------
(* The author's interface.                                                 *)

\* A message is shown, and can be edited or deleted, once send_message is over; each
\* edition or deletion is a task of its own, the interface does not wait for it.
StartTask(t, w) ==
  /\ t \in used
  /\ task[t].op = "idle"
  /\ \A s \in Tasks : task[s].op # "send"
  /\ task' = [task EXCEPT ![t] = w]
  /\ overlapped' = (overlapped \/ \E s \in Tasks : task[s].op # "idle")

\* send_message: the row is saved before anything is sent.
SendMessage(t) ==
  /\ texts = 0
  /\ texts' = 1
  /\ arow' = [st |-> "Sending", text |-> 1]
  /\ StartTask(t, [op |-> "send", todo |-> members, row |-> arow'])
  /\ UNCHANGED <<steady, failed, readerVars, toReader, toAuthor>>

\* edit_message, get_message.
EditMessage(t) ==
  /\ arow # NoRow
  /\ texts < MaxTexts
  /\ texts' = texts + 1
  /\ StartTask(t, [op |-> "read", todo |-> {}, row |-> [arow EXCEPT !.text = texts + 1]])
  /\ UNCHANGED <<steady, arow, failed, readerVars, toReader, toAuthor>>

\* Mutant of SaveEdit: the row is saved with the content that was read.
SaveEditOldText(t) ==
  /\ task[t].op = "read"
  /\ arow' = [task[t].row EXCEPT !.text = IF arow = NoRow THEN @ ELSE arow.text]
  /\ task' = [task EXCEPT ![t].op = "edit", ![t].todo = members]
  /\ UNCHANGED <<steady, texts, failed, overlapped, readerVars, toReader, toAuthor>>

\* edit_message, save_message: the whole row as it was read, with the new content.
SaveEdit(t) ==
  /\ task[t].op = "read"
  /\ arow' = task[t].row
  /\ task' = [task EXCEPT ![t].op = "edit", ![t].todo = members]
  /\ UNCHANGED <<steady, texts, failed, overlapped, readerVars, toReader, toAuthor>>

\* delete_message: the peers are told before the row is deleted.
DeleteMessage(t) ==
  /\ arow # NoRow
  /\ StartTask(t, [op |-> "delete", todo |-> members, row |-> arow])
  /\ UNCHANGED <<steady, arow, texts, failed, readerVars, toReader, toAuthor>>

MessageOf(w) ==
  CASE w.op = "send"   -> [kind |-> "Data", text |-> w.row.text]
    [] w.op = "edit"   -> [kind |-> "EditMsg", text |-> w.row.text]
    [] w.op = "delete" -> [kind |-> "DeleteMsg", text |-> 0]

Dispatching(t) == task[t].op \in {"send", "edit", "delete"} /\ task[t].todo # {}

\* dispatch_in_conversation: one peer after the other.
DispatchTo(t, r) ==
  /\ Dispatching(t)
  /\ r \in task[t].todo /\ Len(toReader[r]) < MaxTransit
  /\ toReader' = [toReader EXCEPT ![r] = Append(@, MessageOf(task[t]))]
  /\ task' = [task EXCEPT ![t].todo = @ \ {r}]
  /\ UNCHANGED <<steady, arow, texts, failed, overlapped, readerVars, toAuthor>>

\* The first error ends the operation: the other peers get nothing, and the row
\* stays as it is.
DispatchFails(t) ==
  /\ Faulty
  /\ Dispatching(t)
  /\ ~failed     \* bound: one send fails
  /\ failed' = TRUE
  /\ task' = [task EXCEPT ![t] = Idle]
  /\ UNCHANGED <<steady, arow, texts, overlapped, readerVars, toReader, toAuthor>>

Updated(row, st) == IF row = NoRow THEN NoRow ELSE [row EXCEPT !.st = st]

\* The last storage call of an operation that reached every peer.
Finish(t) ==
  /\ task[t].op \in {"send", "edit", "delete"}
  /\ task[t].todo = {}
  /\ arow' = CASE task[t].op = "send"   -> Updated(arow, "Sent")
               [] task[t].op = "edit"   -> arow
               [] task[t].op = "delete" -> NoRow
  /\ task' = [task EXCEPT ![t] = Idle]
  /\ UNCHANGED <<steady, texts, failed, overlapped, readerVars, toReader, toAuthor>>

-----------------------------------------------------------------------------
(* The author's chat worker.                                               *)

\* Mutant of StatusOf: the two acknowledgements are swapped.
StatusOfSwapped(ack) == IF ack = "AckRead" THEN "Delivered" ELSE "Read"

StatusOf(ack) == IF ack = "AckRead" THEN "Read" ELSE "Delivered"

\* Mutant of HandleAck: an acknowledgement is taken only for a message that is Sent.
HandleFirstAck(r) ==
  /\ toAuthor[r] # <<>>
  /\ arow' = IF arow # NoRow /\ arow.st = "Sent"
               THEN Updated(arow, StatusOf(Head(toAuthor[r]))) ELSE arow
  /\ toAuthor' = [toAuthor EXCEPT ![r] = Tail(@)]
  /\ raced' = (raced \/ \E t \in Tasks : task[t].op \in {"send", "read"})
  /\ UNCHANGED <<setting, task, texts, failed, overlapped, readerVars, toReader>>

\* handle_control_message, AckReception and AckRead: whatever the status was.
HandleAck(r) ==
  /\ toAuthor[r] # <<>>
  /\ arow' = Updated(arow, StatusOf(Head(toAuthor[r])))
  /\ toAuthor' = [toAuthor EXCEPT ![r] = Tail(@)]
  /\ raced' = (raced \/ \E t \in Tasks : task[t].op \in {"send", "read"})
  /\ UNCHANGED <<setting, task, texts, failed, overlapped, readerVars, toReader>>

-----------------------------------------------------------------------------
(* A reader's chat worker.                                                 *)

Handles(r, kind) ==
  /\ worker[r].op = "idle"
  /\ toReader[r] # <<>>
  /\ Head(toReader[r]).kind = kind
  /\ toReader' = [toReader EXCEPT ![r] = Tail(@)]

\* handle_data_message: the row is saved and the interface told.
HandleData(r) ==
  /\ Handles(r, "Data")
  /\ rrow' = [rrow EXCEPT ![r] = [st |-> "Delivered", text |-> Head(toReader[r]).text]]
  /\ stored' = stored \cup {r}
  /\ worker' = [worker EXCEPT ![r].op = "ack"]
  /\ UNCHANGED <<steady, authorVars, markingVars, toAuthor>>

\* Then the reception is acknowledged.
AckReception(r) ==
  /\ worker[r].op = "ack" /\ Len(toAuthor[r]) < MaxTransit
  /\ toAuthor' = [toAuthor EXCEPT ![r] = Append(@, "AckReception")]
  /\ worker' = [worker EXCEPT ![r].op = "idle"]
  /\ UNCHANGED <<steady, authorVars, rrow, stored, markingVars, toReader>>

\* Mutant of HandleEdit: the edition of a message that is not there is saved.
HandleEditUnknown(r) ==
  /\ Handles(r, "EditMsg")
  /\ worker' = [worker EXCEPT ![r] =
                  [op |-> "edit", row |-> [st |-> "Delivered", text |-> Head(toReader[r]).text]]]
  /\ UNCHANGED <<steady, authorVars, rrow, stored, markingVars, toAuthor>>

\* handle_control_message, EditMsg, get_message: an unknown message is discarded.
HandleEdit(r) ==
  /\ Handles(r, "EditMsg")
  /\ worker' = IF rrow[r] = NoRow THEN worker
               ELSE [worker EXCEPT ![r] =
                       [op |-> "edit", row |-> [rrow[r] EXCEPT !.text = Head(toReader[r]).text]]]
  /\ UNCHANGED <<steady, authorVars, rrow, stored, markingVars, toAuthor>>

\* EditMsg, save_message: the whole row as it was read, with the new content.
SaveEdited(r) ==
  /\ worker[r].op = "edit"
  /\ rrow' = [rrow EXCEPT ![r] = worker[r].row]
  /\ worker' = [worker EXCEPT ![r] = [op |-> "idle", row |-> NoRow]]
  /\ UNCHANGED <<steady, authorVars, stored, markingVars, toReader, toAuthor>>

HandleDelete(r) ==
  /\ Handles(r, "DeleteMsg")
  /\ rrow' = [rrow EXCEPT ![r] = NoRow]
  /\ UNCHANGED <<steady, authorVars, worker, stored, markingVars, toAuthor>>

\* AckRead of another reader: the row is updated by its id, whoever sent the message.
HandlePeerAck(r) ==
  /\ worker[r].op = "idle"
  /\ acks[r] > 0
  /\ acks' = [acks EXCEPT ![r] = @ - 1]
  /\ rrow' = [rrow EXCEPT ![r] = Updated(@, "Read")]
  /\ UNCHANGED <<steady, authorVars, worker, stored, marking, telling, marked, toReader, toAuthor>>

-----------------------------------------------------------------------------
(* A reader's interface: mark_as_read, mark_conversation_as_read.          *)

\* The members whom r has still to tell. mark_as_read, for a message just received, does
\* not look at the row; mark_conversation_as_read takes the rows that are still Delivered.
ToTell(r) ==
  IF r \in marking THEN telling[r]
  ELSE IF r \in stored \ marked THEN (members \ {r}) \cup {Author}     \* bound: once
  ELSE {}

\* dispatch_in_conversation: the AckRead goes to every member, one after the other.
Tells(r, m) ==
  /\ m \in ToTell(r)
  /\ telling' = [telling EXCEPT ![r] = ToTell(r) \ {m}]
  /\ marking' = marking \cup {r}

TellAuthor(r) ==
  /\ Tells(r, Author) /\ Len(toAuthor[r]) < MaxTransit
  /\ toAuthor' = [toAuthor EXCEPT ![r] = Append(@, "AckRead")]
  /\ marked' = marked \cup {r}
  /\ raced' = (raced \/ worker[r].op = "ack")
  /\ UNCHANGED <<setting, authorVars, rrow, worker, stored, acks, toReader>>

TellReader(r, s) ==
  /\ Tells(r, s)
  /\ acks' = [acks EXCEPT ![s] = @ + 1]
  /\ UNCHANGED <<steady, authorVars, rrow, worker, stored, marked, toReader, toAuthor>>

\* The first error ends it, with the row as it is.
MarkFails(r) ==
  /\ Faulty
  /\ telling[r] # {}
  /\ ~failed     \* bound: one send fails
  /\ failed' = TRUE
  /\ marking' = marking \ {r}
  /\ telling' = [telling EXCEPT ![r] = {}]
  /\ UNCHANGED <<steady, arow, task, texts, overlapped, rrow, worker, stored, marked, acks,
                 toReader, toAuthor>>

UpdateRead(r) ==
  /\ r \in marking /\ telling[r] = {}
  /\ rrow' = [rrow EXCEPT ![r] = Updated(@, "Read")]
  /\ marking' = marking \ {r}
  /\ UNCHANGED <<steady, authorVars, worker, telling, marked, stored, acks, toReader, toAuthor>>

-----------------------------------------------------------------------------

Next ==
  \/ \E t \in Tasks :
       \/ SendMessage(t) \/ EditMessage(t) \/ SaveEdit(t) \/ DeleteMessage(t)
       \/ \E r \in Readers : DispatchTo(t, r)
       \/ DispatchFails(t) \/ Finish(t)
  \/ \E r \in Readers :
       \/ HandleAck(r)
       \/ HandleData(r) \/ AckReception(r)
       \/ HandleEdit(r) \/ SaveEdited(r) \/ HandleDelete(r)
       \/ HandlePeerAck(r)
       \/ TellAuthor(r) \/ MarkFails(r) \/ UpdateRead(r)
       \/ \E s \in Readers : TellReader(r, s)

Spec == Init /\ [][Next]_vars

-----------------------------------------------------------------------------
(* Properties.                                                             *)

\* Nothing is under way or in transit.
Quiet ==
  /\ \A t \in Tasks : task[t].op = "idle"
  /\ \A r \in Readers : /\ worker[r].op = "idle"
                        /\ r \notin marking /\ acks[r] = 0
                        /\ toReader[r] = <<>> /\ toAuthor[r] = <<>>

\* The author never sees a message delivered that no reader has stored, or read
\* that no reader has acknowledged reading, whatever overwrites the status and in
\* which order (send_message, edit_message, AckReception, AckRead).
StatusIsTrue ==
  /\ TypeOK
  /\ arow # NoRow => /\ arow.st = "Delivered" => stored # {}
                     /\ arow.st = "Read" => marked # {}

\* When everything has arrived, no send failed and no operation was started before
\* another was over, the author and the readers have the message with the same
\* content, or none of them has it (send_message, edit_message and delete_message
\* order their own update and the dispatch in three different ways).
Converges ==
  (Quiet /\ texts > 0 /\ ~failed /\ ~overlapped) =>
    \A r \in members :
      /\ rrow[r] = NoRow <=> arow = NoRow
      /\ arow # NoRow => rrow[r].text = arow.text

\* A message that a reader has had and lost to a DeleteMsg does not come back,
\* whatever editions were dispatched around the deletion.
DeletedStaysDeleted ==
  [][\A r \in Readers : (r \in stored /\ rrow[r] = NoRow) => rrow'[r] = NoRow]_vars

\* Readers for whom nothing is left to acknowledge: another reader's AckRead, which
\* reached them too, has made their unread row Read.
Silenced == {r \in members \ marked : rrow[r] # NoRow /\ rrow[r].st = "Read"}

\* A message whose readers have each acknowledged reading it, or have the row Read, is
\* shown to its author as Read once every acknowledgement has arrived, also when a send
\* failed, with two exceptions: an acknowledgement came while send_message or edit_message
\* held the row, which they write over with the status they knew, or a reader's interface
\* was faster than its worker (raced); another reader's AckRead silenced one of them
\* (Silenced), whose late AckReception may then leave the author at Delivered.
ReadIsShown ==
  (Quiet /\ arow # NoRow /\ members \subseteq marked \cup Silenced) =>
    arow.st = "Read" \/ raced \/ Silenced # {}
=============================================================================
