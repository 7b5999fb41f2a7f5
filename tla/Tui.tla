--------------------------------- MODULE Tui ---------------------------------
(* The terminal interface over a connected client: the list of conversations, *)
(* the open conversation and its modes, and the events that the chat worker   *)
(* sends while the interface reads the same database.                         *)
(*                                                                            *)
(* The interface runs one key or one event at a time; the worker writes the   *)
(* database first and sends its event afterwards, so what the interface reads *)
(* may already hold what an event in the channel is about to tell it.  The    *)
(* two handlers that read the database more than once are split there: the    *)
(* login (drain the events, then list) and Enter on a conversation (mark as   *)
(* read, then load).                                                          *)
(*                                                                            *)
(* Left out: titles and fingerprints, typing indicators, toasts, scrolling    *)
(* and the cursor, the status ticks that messages show, the texts typed in    *)
(* the forms, and ConversationDeleted, which the chat client never sends.  A  *)
(* lookup or a creation that fails leaves its form as it is.                  *)
EXTENDS TuiAuth

CONSTANTS
  Convs,       \* conversations
  Peers,       \* who may be a member of one
  PerConv,     \* bound: messages of a conversation
  Cap,         \* capacity of the event channel
  MaxNews,     \* bound: what peers and user write, in all
  MaxFails     \* bound: calls of the SDK that fail on the network

VARIABLES
  convs,     \* the conversations in the database
  members,   \* their members but the user
  store,     \* the messages in the database, None for an absent one
  next,      \* how many messages each conversation had
  pending,   \* the event that the worker is about to send
  events,    \* App.event_rx
  pc,        \* where the interface is inside a handler that reads the database twice
  entries,   \* App.conversations: [conv, unread, peers]
  sel,       \* App.selected_conversation, from 1
  current,   \* App.current_conversation
  shown,     \* App.messages: [msg, mine, text]
  picked,    \* App.selected_message, from 1; 0 for None
  editing,   \* App.editing_message_id
  confirm,   \* App.confirm_delete
  reply,     \* App.reply_to_message
  form,      \* new_conversation_mode, group_conversation_mode, info_add_member_mode
  group,     \* App.group_conversation_peer_ids
  peer,      \* App.info_selected_peer, from 1
  news,      \* what may still be written
  fails,     \* the calls that may still fail
  excused,   \* history: messages whose sending, edit or read mark failed, or that went
             \* with their conversation
  haunted    \* history: a conversation was deleted while the event of its creation was under way

dbVars == <<convs, members, store, next>>
formVars == <<form, group, peer>>
modeVars == <<picked, editing, confirm, reply, formVars>>
appVars == <<pc, entries, sel, current, shown>>
chatVars == <<dbVars, pending, events, appVars, modeVars, news, fails, excused, haunted>>
vars == <<authVars, chatVars>>

Msgs == Convs \X (1 .. PerConv)
ConvOf(m) == m[1]
Rows == [status : {"delivered", "read", "own"}, text : {"old", "new"}]
Events ==
  [type : {"received", "edited", "deleted"}, conv : Convs, about : Msgs]
    \union [type : {"created"}, conv : Convs, about : SUBSET Peers]
    \union [type : {"added", "status"}, conv : Convs, about : {None}]

ASSUME ChatAssumption ==
  /\ Convs # {} /\ IsFiniteSet(Peers) /\ Peers # {}
  /\ PerConv \in Nat /\ Cap \in Nat /\ MaxNews \in Nat /\ MaxFails \in Nat
  /\ None \notin Convs \union Msgs \union Rows /\ None \notin Events

Stored(c) == {m \in Msgs : ConvOf(m) = c /\ store[m] # None}
Unread(c) == {m \in Stored(c) : store[m].status = "delivered"}
Message(status) == [status |-> status, text |-> "old"]
\* about: a message, the members of a new conversation, or None
Event(type, c, about) == [type |-> type, conv |-> c, about |-> about]
Entry(c, unread, peers) == [conv |-> c, unread |-> unread, peers |-> peers]

ChatScreens == {"Conversations", "Chat", "ConversationInfo"}
\* the synchronization handles messages as the chat worker does after it
WorkersRun == AtStage("start") \/ AtStage("connected") \/ screen \in ChatScreens
Idle == pc = "idle" /\ screen \in ChatScreens

\* ConversationStore::list_conversations; the order of the list is not relied on
ListConversations ==
  LET order == SetToSeq(convs)
  IN [i \in DOMAIN order |->
        Entry(order[i], Cardinality(Unread(order[i])), members[order[i]])]

\* MessageStore::get_messages_in_conversation, reversed: in the order of their time
GetMessages(c) ==
  LET order == InOrder({i \in 1 .. PerConv : store[<<c, i>>] # None})
      row(m) == [msg |-> m, mine |-> store[m].status = "own", text |-> store[m].text]
  IN [i \in DOMAIN order |-> row(<<c, order[i]>>)]

\* messages.iter_mut().find(...): only the first of two copies is found
FirstCopy(m) == SelectInSeq(shown, LAMBDA e : e.msg = m)
Rewrite(m, text) ==
  IF \E i \in DOMAIN shown : shown[i].msg = m
    THEN shown' = [shown EXCEPT ![FirstCopy(m)].text = text]
    ELSE UNCHANGED shown

-----------------------------------------------------------------------------
(* handle_control_message and handle_data_message in the chat worker: the     *)
(* storage is written, then the event is sent.                                *)

Writes(event) ==
  /\ WorkersRun /\ pending = None /\ news > 0
  /\ pending' = event
  /\ news' = news - 1
  /\ UNCHANGED <<authVars, events, appVars, modeVars, fails, excused, haunted>>

StoreMessage(c) ==
  LET m == <<c, next[c] + 1>>
  IN /\ c \in convs /\ next[c] < PerConv
     /\ store' = [store EXCEPT ![m] = Message("delivered")]
     /\ next' = [next EXCEPT ![c] = @ + 1]
     /\ Writes(Event("received", c, m))
     /\ UNCHANGED <<convs, members>>

StoreConversation(c, peers) ==
  /\ c \notin convs /\ peers # {}
  /\ convs' = convs \union {c}
  /\ members' = [members EXCEPT ![c] = peers]
  /\ Writes(Event("created", c, peers))
  /\ UNCHANGED <<store, next>>

\* AddPeerToConv: the event is sent only for a member that was added
StoreMember(c, u) ==
  /\ c \in convs /\ u \notin members[c]
  /\ members' = [members EXCEPT ![c] = @ \union {u}]
  /\ Writes(Event("added", c, None))
  /\ UNCHANGED <<convs, store, next>>

FromPeer(m) == store[m] # None /\ store[m].status # "own"

StoreEdit(m) ==
  /\ FromPeer(m) /\ store[m].text = "old"
  /\ store' = [store EXCEPT ![m].text = "new"]
  /\ Writes(Event("edited", ConvOf(m), m))
  /\ UNCHANGED <<convs, members, next>>

StoreDeletion(m) ==
  /\ FromPeer(m)
  /\ store' = [store EXCEPT ![m] = None]
  /\ Writes(Event("deleted", ConvOf(m), m))
  /\ UNCHANGED <<convs, members, next>>

\* AckReception and AckRead: the row becomes what the sender, whoever it is, says of it; a
\* message of a peer is acknowledged by the others who read it, and is then no more unread
StoreStatus(m) ==
  /\ ConvOf(m) \in convs /\ m[2] <= next[ConvOf(m)]
  /\ store' = IF FromPeer(m) THEN [store EXCEPT ![m].status = "read"] ELSE store
  /\ Writes(Event("status", ConvOf(m), None))
  /\ UNCHANGED <<convs, members, next>>

\* send on the event channel, which waits while it is full
Emit ==
  /\ pending # None /\ Len(events) < Cap
  /\ events' = Append(events, pending)
  /\ pending' = None
  /\ UNCHANGED <<authVars, dbVars, appVars, modeVars, news, fails, excused, haunted>>

-----------------------------------------------------------------------------
(* poll_sdk_events and handle_sdk_event *)

\* mark_as_read: its dispatch to the members may fail, and fails for a conversation
\* that the database no longer has
MarkAsRead(m) ==
  \/ /\ ConvOf(m) \in convs
     /\ store' = IF store[m] = None THEN store ELSE [store EXCEPT ![m].status = "read"]
     /\ UNCHANGED <<fails, excused>>
  \/ /\ fails > 0 /\ fails' = fails - 1
     /\ excused' = excused \union {m}
     /\ UNCHANGED store
  \/ ConvOf(m) \notin convs /\ UNCHANGED <<store, fails, excused>>

\* Mutant of CountUnread: nothing is counted while a conversation is open
XCountUnread(c) ==
  entries' = [i \in DOMAIN entries |->
                IF entries[i].conv = c /\ current = None
                  THEN [entries[i] EXCEPT !.unread = @ + 1] ELSE entries[i]]

CountUnread(c) ==
  entries' = [i \in DOMAIN entries |->
                IF entries[i].conv = c /\ current # c
                  THEN [entries[i] EXCEPT !.unread = @ + 1] ELSE entries[i]]

\* Mutant of OnReceived: the message is shown and not marked as read
XOnReceivedUnread(c, m) ==
  /\ IF current = c
       THEN shown' = Append(shown, [msg |-> m, mine |-> FALSE, text |-> "old"])
       ELSE UNCHANGED shown
  /\ CountUnread(c)
  /\ UNCHANGED <<store, fails, excused, haunted>>

OnReceived(c, m) ==
  /\ IF current = c
       THEN /\ shown' = Append(shown, [msg |-> m, mine |-> FALSE, text |-> "old"])
            /\ MarkAsRead(m)
       ELSE UNCHANGED <<shown, store, fails, excused>>
  /\ CountUnread(c)
  /\ UNCHANGED haunted

Listed == {entries[i].conv : i \in DOMAIN entries}

OnCreated(c, peers) ==
  /\ entries' = IF c \in Listed THEN entries ELSE Append(entries, Entry(c, 0, peers))
  /\ UNCHANGED <<shown, store, fails, excused, haunted>>

\* the entry is replaced by what the database holds, if it still holds it
RefreshEntry(c) ==
  entries' = [i \in DOMAIN entries |->
                IF entries[i].conv = c /\ c \in convs
                  THEN [entries[i] EXCEPT !.peers = members'[c]] ELSE entries[i]]

OnMemberAdded(c) ==
  /\ RefreshEntry(c)
  /\ UNCHANGED <<shown, store, fails, excused, haunted>>

\* Mutant of OnRewritten: edits and deletions are applied only on the chat's own screen
XOnRewritten(c, m, text) ==
  /\ IF current = c /\ screen = "Chat" THEN Rewrite(m, text) ELSE UNCHANGED shown
  /\ UNCHANGED <<entries, store, fails, excused, haunted>>

OnRewritten(c, m, text) ==
  /\ IF current = c THEN Rewrite(m, text) ELSE UNCHANGED shown
  /\ UNCHANGED <<entries, store, fails, excused, haunted>>

\* the ticks of the message are left out
OnStatus == UNCHANGED <<entries, shown, store, fails, excused, haunted>>

HandleSdkEvent(e) ==
  CASE e.type = "received" -> OnReceived(e.conv, e.about)
    [] e.type = "created" -> OnCreated(e.conv, e.about)
    [] e.type = "added" -> OnMemberAdded(e.conv)
    [] e.type = "edited" -> OnRewritten(e.conv, e.about, "new")
    [] e.type = "deleted" -> OnRewritten(e.conv, e.about, "deleted")
    [] e.type = "status" -> OnStatus

PollSdkEvents ==
  /\ Idle /\ events # <<>>
  /\ events' = Tail(events)
  /\ UNCHANGED <<convs, members>>
  /\ HandleSdkEvent(Head(events))
  /\ UNCHANGED <<authVars, next, pending, pc, sel, current, modeVars, news>>

-----------------------------------------------------------------------------
(* poll_auth_completion, success: the events of the synchronization are       *)
(* drained, then the conversations are listed.                                *)

LogIn ==
  /\ AuthSucceeds
  /\ events' = <<>>
  /\ pc' = "list"
  /\ UNCHANGED <<dbVars, pending, entries, sel, current, shown, modeVars, news, fails,
                 excused, haunted>>

ShowConversations ==
  /\ pc = "list"
  /\ entries' = ListConversations
  /\ pc' = "idle"
  /\ UNCHANGED <<authVars, dbVars, pending, events, sel, current, shown, modeVars, news, fails,
                 excused, haunted>>

-----------------------------------------------------------------------------
(* handle_conversations_key *)

Selected == entries[sel].conv
OnList == Idle /\ screen = "Conversations"
ListKey == OnList /\ form = "none"
ScreenIs(s) ==
  /\ screen' = s
  /\ UNCHANGED <<disk, registered, profiles, selected, password_mode, auth_mode, auth_loading,
                 data_dir, was_signup, thread, tries, typed, cut>>

SelectConversation ==
  /\ ListKey
  /\ \/ sel > 1 /\ sel' = sel - 1
     \/ sel < Len(entries) /\ sel' = sel + 1
  /\ UNCHANGED <<authVars, dbVars, pending, events, pc, entries, current, shown, modeVars, news,
                 fails, excused, haunted>>

\* ChatClientHandle::mark_conversation_as_read
MarkConversation(c) ==
  \/ /\ store' = [m \in Msgs |-> IF m \in Unread(c) /\ c \in convs
                                   THEN [store[m] EXCEPT !.status = "read"] ELSE store[m]]
     /\ UNCHANGED <<fails, excused>>
  \/ /\ fails > 0 /\ fails' = fails - 1
     /\ excused' = excused \union Unread(c)
     /\ UNCHANGED store

\* Enter, up to the load of the messages
OpenConversation ==
  /\ ListKey /\ sel \in DOMAIN entries
  /\ MarkConversation(Selected)
  /\ current' = Selected
  /\ entries' = [entries EXCEPT ![sel].unread = 0]
  /\ pc' = "load"
  /\ UNCHANGED <<authVars, convs, members, next, pending, events, sel, shown, modeVars, news, haunted>>

LoadMessages ==
  /\ pc = "load"
  /\ shown' = GetMessages(current)
  /\ picked' = 0
  /\ pc' = "idle"
  /\ ScreenIs("Chat")
  /\ UNCHANGED <<dbVars, pending, events, entries, sel, current, editing, confirm, reply,
                 formVars, news, fails, excused, haunted>>

UnderWay == ({pending} \ {None}) \union Range(events)
Haunts(c) == \E e \in UnderWay : e.type = "created" /\ e.conv = c

\* Mutant of DeleteConversation: the selection is not brought back into the list
XDeleteConversation ==
  /\ ListKey /\ sel \in DOMAIN entries
  /\ convs' = convs \ {Selected}
  /\ store' = [m \in Msgs |-> IF ConvOf(m) = Selected THEN None ELSE store[m]]
  /\ excused' = excused \union Stored(Selected)
  /\ entries' = RemoveAt(entries, sel)
  /\ haunted' = (haunted \/ Haunts(Selected))
  /\ UNCHANGED <<authVars, members, next, pending, events, pc, sel, current, shown, modeVars, news, fails>>

\* d
DeleteConversation ==
  /\ ListKey /\ sel \in DOMAIN entries
  /\ convs' = convs \ {Selected}
  /\ store' = [m \in Msgs |-> IF ConvOf(m) = Selected THEN None ELSE store[m]]
  /\ excused' = excused \union Stored(Selected)
  /\ entries' = RemoveAt(entries, sel)
  /\ haunted' = (haunted \/ Haunts(Selected))
  /\ sel' = IF sel > Len(entries') /\ sel > 1 THEN (IF entries' = <<>> THEN 1 ELSE Len(entries')) ELSE sel
  /\ UNCHANGED <<authVars, members, next, pending, events, pc, current, shown, modeVars, news, fails>>

-----------------------------------------------------------------------------
(* handle_new_conversation_key and handle_group_conversation_key *)

OnlyForms ==
  UNCHANGED <<authVars, dbVars, pending, events, appVars, picked, editing, confirm, reply, news,
              fails, excused, haunted>>

\* n, g
OpenForm ==
  /\ ListKey
  /\ form' \in {"new", "group"} /\ group' = {}
  /\ OnlyForms /\ UNCHANGED peer

\* Esc in any of the three forms
LeaveForm ==
  /\ Idle /\ form # "none"
  /\ form' = "none" /\ group' = {}
  /\ OnlyForms /\ UNCHANGED peer

\* Enter: the user is looked up, and refused when already in
AddToGroup(u) ==
  /\ OnList /\ form = "group" /\ u \notin group
  /\ group' = group \union {u}
  /\ OnlyForms /\ UNCHANGED <<form, peer>>

\* create_conversation chooses a fresh identifier
Fresh(c) ==
  /\ c \notin convs \union Listed /\ next[c] = 0
  /\ \A e \in UnderWay : e.conv # c

\* the conversation that was created is listed and opened
StartConversation(c, peers) ==
  /\ OnList /\ news > 0 /\ Fresh(c)
  /\ convs' = convs \union {c}
  /\ members' = [members EXCEPT ![c] = peers]
  /\ news' = news - 1
  /\ entries' = Append(entries, Entry(c, 0, peers))
  /\ sel' = Len(entries')
  /\ form' = "none" /\ group' = {}
  /\ current' = c
  /\ shown' = <<>>
  /\ ScreenIs("Chat")
  /\ UNCHANGED <<store, next, pending, events, pc, picked, editing, confirm, reply, peer, fails,
                 excused, haunted>>

\* Enter in the form of a new conversation, F5 in the one of a group
CreateConversation(c, u) == form = "new" /\ StartConversation(c, {u})
CreateGroup(c) == form = "group" /\ Cardinality(group) >= 2 /\ StartConversation(c, group)

-----------------------------------------------------------------------------
(* handle_chat_key: the modes shadow one another, confirmation first *)

ChatKey == Idle /\ screen = "Chat"
Confirming == ChatKey /\ confirm # None
Editing == ChatKey /\ confirm = None /\ editing # None
Picking == ChatKey /\ confirm = None /\ editing = None /\ picked # 0
Writing == ChatKey /\ confirm = None /\ editing = None /\ picked = 0

OnlyModes ==
  UNCHANGED <<authVars, dbVars, pending, events, appVars, formVars, news, fails, excused, haunted>>

StartPicking ==
  /\ Writing /\ shown # <<>>
  /\ picked' = Len(shown)
  /\ OnlyModes /\ UNCHANGED <<editing, confirm, reply>>

MovePick ==
  /\ Picking
  /\ \/ picked > 1 /\ picked' = picked - 1
     \/ picked' = IF picked < Len(shown) THEN picked + 1 ELSE 0
     \/ picked' = 0
  /\ OnlyModes /\ UNCHANGED <<editing, confirm, reply>>

\* e, d on one's own message, r on any
StartEditing ==
  /\ Picking /\ picked \in DOMAIN shown /\ shown[picked].mine
  /\ editing' = shown[picked].msg /\ picked' = 0
  /\ OnlyModes /\ UNCHANGED <<confirm, reply>>

AskDelete ==
  /\ Picking /\ picked \in DOMAIN shown /\ shown[picked].mine
  /\ confirm' = shown[picked].msg
  /\ OnlyModes /\ UNCHANGED <<picked, editing, reply>>

StartReply ==
  /\ Picking /\ picked \in DOMAIN shown
  /\ reply' = shown[picked].msg /\ picked' = 0
  /\ OnlyModes /\ UNCHANGED <<editing, confirm>>

\* n or Esc
KeepMessage == Confirming /\ confirm' = None /\ OnlyModes /\ UNCHANGED <<picked, editing, reply>>
CancelEditing == Editing /\ editing' = None /\ OnlyModes /\ UNCHANGED <<picked, confirm, reply>>
CancelReply == Writing /\ reply # None /\ reply' = None /\ OnlyModes
               /\ UNCHANGED <<picked, editing, confirm>>

\* y: delete_message dispatches, then deletes the row
DeleteMessage ==
  /\ Confirming
  /\ \/ /\ current \in convs
        /\ store' = [store EXCEPT ![confirm] = None]
        /\ Rewrite(confirm, "deleted")
        /\ UNCHANGED fails
     \/ fails > 0 /\ fails' = fails - 1 /\ UNCHANGED <<store, shown>>
  /\ confirm' = None /\ picked' = 0
  /\ UNCHANGED <<authVars, convs, members, next, pending, events, pc, entries, sel, current,
                 editing, reply, formVars, news, excused, haunted>>

\* Enter while editing: edit_message saves the row, then dispatches
EditMessage ==
  /\ Editing
  /\ \/ store[editing] = None /\ UNCHANGED <<store, shown, fails, excused>>
     \/ /\ store[editing] # None
        /\ store' = [store EXCEPT ![editing].text = "new"]
        /\ \/ Rewrite(editing, "new") /\ UNCHANGED <<fails, excused>>
           \/ fails > 0 /\ fails' = fails - 1 /\ excused' = excused \union {editing} /\ UNCHANGED shown
  /\ editing' = None
  /\ UNCHANGED <<authVars, convs, members, next, pending, events, pc, entries, sel, current,
                 picked, confirm, reply, formVars, news, haunted>>

\* Enter: send_message or send_reply saves the row, then dispatches; a failure leaves the
\* row, shows nothing and gives the reply up
SendMessage ==
  /\ Writing /\ news > 0 /\ current \in convs /\ next[current] < PerConv
  /\ LET m == <<current, next[current] + 1>>
     IN /\ store' = [store EXCEPT ![m] = Message("own")]
        /\ \/ /\ shown' = Append(shown, [msg |-> m, mine |-> TRUE, text |-> "old"])
              /\ UNCHANGED <<fails, excused>>
           \/ /\ fails > 0 /\ fails' = fails - 1
              /\ excused' = excused \union {m}
              /\ UNCHANGED shown
  /\ next' = [next EXCEPT ![current] = @ + 1]
  /\ news' = news - 1
  /\ reply' = None
  /\ UNCHANGED <<authVars, convs, members, pending, events, pc, entries, sel, current, picked,
                 editing, confirm, formVars, haunted>>

\* Esc: back to the list, read again from the database
LeaveChat ==
  /\ Writing /\ reply = None
  /\ entries' = ListConversations
  /\ current' = None
  /\ shown' = <<>>
  /\ picked' = 0
  /\ ScreenIs("Conversations")
  /\ UNCHANGED <<dbVars, pending, events, pc, sel, editing, confirm, reply, formVars, news,
                 fails, excused, haunted>>

\* F3
OpenInfo ==
  /\ Writing /\ ScreenIs("ConversationInfo")
  /\ peer' = 1 /\ form' = "none"
  /\ UNCHANGED <<dbVars, pending, events, appVars, picked, editing, confirm, reply, group, news,
                 fails, excused, haunted>>

-----------------------------------------------------------------------------
(* handle_conversation_info_key *)

InfoKey == Idle /\ screen = "ConversationInfo" /\ form = "none"

CloseInfo == InfoKey /\ ScreenIs("Chat") /\ UNCHANGED chatVars

SelectPeer ==
  /\ InfoKey
  /\ \/ peer > 1 /\ peer' = peer - 1
     \/ /\ \E i \in DOMAIN entries :
             entries[i].conv = current /\ peer < Cardinality(entries[i].peers)
        /\ peer' = peer + 1
  /\ OnlyForms /\ UNCHANGED <<form, group>>

\* a
AskMember == InfoKey /\ form' = "member" /\ OnlyForms /\ UNCHANGED <<group, peer>>

\* Enter: the user is invited, the members are told, the row is written, and the entry read again
AddMember(u) ==
  /\ Idle /\ form = "member" /\ news > 0 /\ current \in convs
  /\ members' = [members EXCEPT ![current] = @ \union {u}]
  /\ RefreshEntry(current)
  /\ form' = "none"
  /\ news' = news - 1
  /\ UNCHANGED <<authVars, convs, store, next, pending, events, pc, sel, current, shown, picked,
                 editing, confirm, reply, group, peer, fails, excused, haunted>>

-----------------------------------------------------------------------------
ChatKeys ==
  \/ SelectConversation \/ OpenConversation \/ DeleteConversation
  \/ OpenForm \/ LeaveForm \/ \E u \in Peers : AddToGroup(u)
  \/ \E c \in Convs : CreateGroup(c) \/ \E u \in Peers : CreateConversation(c, u)
  \/ StartPicking \/ MovePick \/ StartEditing \/ AskDelete \/ StartReply
  \/ KeepMessage \/ CancelEditing \/ CancelReply
  \/ DeleteMessage \/ EditMessage \/ SendMessage
  \/ LeaveChat \/ OpenInfo \/ CloseInfo \/ SelectPeer \/ AskMember
  \/ \E u \in Peers : AddMember(u)

Worker ==
  \/ \E c \in Convs : StoreMessage(c) \/ \E u \in Peers : StoreMember(c, u)
  \/ \E c \in Convs, peers \in SUBSET Peers : StoreConversation(c, peers)
  \/ \E m \in Msgs : StoreEdit(m) \/ StoreDeletion(m) \/ StoreStatus(m)

\* the rest of the handler under way
Continue == ShowConversations \/ LoadMessages

\* the keys of the profile and sign-up screens (bound: none once a database has
\* conversations, which are not kept by directory)
ProfileKey == AuthKey /\ convs = {} /\ UNCHANGED chatVars

\* the thread goes on from the synchronization when what it handled has been sent
ConnectStep == ThreadStep /\ pending = None /\ UNCHANGED chatVars

\* the receiver of the events is lost with the thread
ConnectEnds ==
  /\ AuthFails \/ AuthCrashes
  /\ events' = <<>>
  /\ UNCHANGED <<dbVars, pending, appVars, modeVars, news, fails, excused, haunted>>

\* the end of the process, and the start of another: the database is what remains
Restart ==
  /\ ProcessEnds
  /\ pending' = None /\ events' = <<>>
  /\ pc' = "idle" /\ entries' = <<>> /\ sel' = 1 /\ current' = None /\ shown' = <<>>
  /\ picked' = 0 /\ editing' = None /\ confirm' = None /\ reply' = None
  /\ form' = "none" /\ group' = {} /\ peer' = 1
  /\ UNCHANGED <<dbVars, news, fails, excused, haunted>>

Next == ProfileKey \/ ConnectStep \/ ConnectEnds \/ LogIn \/ Continue \/ ChatKeys \/ Worker \/ Emit \/ PollSdkEvents \/ Restart

\* without a conversation, or with one, of all Peers, and a message or none
ChatInit ==
  /\ convs \in {{}, {CHOOSE c \in Convs : TRUE}}
  /\ members = [c \in Convs |-> IF c \in convs THEN Peers ELSE {}]
  /\ next \in [Convs -> 0 .. 1] /\ \A c \in Convs : next[c] = 1 => c \in convs
  /\ store = [m \in Msgs |-> IF m[2] <= next[ConvOf(m)] THEN Message("delivered") ELSE None]
  /\ pending = None /\ events = <<>>
  /\ pc = "idle" /\ entries = <<>> /\ sel = 1 /\ current = None /\ shown = <<>>
  /\ picked = 0 /\ editing = None /\ confirm = None /\ reply = None
  /\ form = "none" /\ group = {} /\ peer = 1
  /\ excused = {} /\ haunted = FALSE

\* a sign-in whose synchronization begins
SigningIn ==
  LET u == CHOOSE x \in Users : TRUE  p == CHOOSE x \in Passwords : TRUE
      mine == [user |-> u, pass |-> p, key |-> p, account |-> u, keys |-> TRUE]
  IN /\ disk = [d \in Dirs |-> IF d = u THEN mine ELSE NoProfile]
     /\ registered = {u}
     /\ profiles = ListProfiles(disk)
     /\ screen = "ProfileSelect" /\ selected = 1 /\ password_mode = FALSE
     /\ auth_mode = "SignIn" /\ auth_loading = TRUE /\ was_signup = FALSE
     /\ data_dir = u /\ typed = {} /\ cut = {}
     /\ thread = [Connecting("SignIn", u, p, u) EXCEPT !.stage = "start"]

\* a behaviour spends its bounds on the attempts to log in, or on the conversations
Init ==
  /\ ChatInit
  /\ \/ AuthInit /\ tries = MaxTries /\ news = 0 /\ fails = 0 /\ convs = {}
     \/ SigningIn /\ tries = 0 /\ news = MaxNews /\ fails = MaxFails

\* Each turn of the main loop drains the events and polls the thread, whatever keys come,
\* and a handler that has begun runs to its end; nothing makes the user press a key.  The
\* server answers or closes: nothing in the thread waits with a timeout.
Fairness ==
  /\ WF_vars(ConnectStep) /\ WF_vars(LogIn \/ ConnectEnds)
  /\ WF_vars(Continue) /\ WF_vars(PollSdkEvents) /\ WF_vars(Emit)

Spec == Init /\ [][Next]_vars /\ Fairness

-----------------------------------------------------------------------------
TypeOK ==
  /\ AuthTypeOK
  /\ convs \subseteq Convs /\ store \in [Msgs -> Rows \union {None}]
  /\ members \in [Convs -> SUBSET Peers] /\ group \subseteq Peers
  /\ form \in {"none", "new", "group", "member"}
  /\ Range(events) \union ({pending} \ {None}) \subseteq Events /\ Len(events) <= Cap
  /\ pc \in {"idle", "list", "load"}
  /\ \A i \in DOMAIN entries : entries[i].conv \in Convs /\ entries[i].unread \in Nat
  /\ current \in Convs \union {None}
  /\ \A i \in DOMAIN shown : shown[i].msg \in Msgs
  /\ {editing, confirm, reply} \subseteq Msgs \union {None}

\* the synchronization waits for a room in the channel that nobody reads before it ends
SyncBlocked == AtStage("start") /\ pending # None /\ Len(events) = Cap

\* the handshake reads again and again from a connection that the server closed
Spinning == AtStage("spinning")

\* An attempt to connect ends: the interface does not stay blocked in loading (loading is left
\* when the thread has finished), unless the server closes the connection during the handshake,
\* or the synchronization handles more messages than the event channel can hold.
AttemptEnds == auth_loading ~> (~auth_loading \/ Spinning \/ SyncBlocked)

\* everything the worker did has reached the interface
Settled == Idle /\ pending = None /\ events = <<>>

\* Every conversation of the database is listed once the events are handled, whether it was
\* there at the login, came while the login ran, or came later.
EveryConversationListed == Settled => convs \subseteq Listed

\* A message that waits to be read is counted: a conversation's count is never lower than
\* what the database has unread, but for the messages whose read mark failed.
UnreadIsCounted ==
  Settled =>
    \A i \in DOMAIN entries :
      entries[i].conv # current =>
        entries[i].unread >= Cardinality(Unread(entries[i].conv) \ excused)

\* The members that a listed conversation shows are the database's, whether it was opened by the
\* user or by a peer, and whoever added them, as long as none was deleted while the event of its creation
\* was under way, which lists it again.
MembersShown ==
  ~haunted /\ Settled =>
    \A i \in DOMAIN entries :
      entries[i].conv \in convs => entries[i].peers = members[entries[i].conv]

\* Once the events are handled the list is what the database holds: its conversations, their
\* members and at least their unread messages (refresh_conversations, handle_sdk_event).
ListIsStored == EveryConversationListed /\ UnreadIsCounted /\ MembersShown

\* The open conversation shows every message the database has of it, but for those whose
\* sending failed.
NothingMissed ==
  Settled /\ current # None =>
    Stored(current) \ excused \subseteq {shown[i].msg : i \in DOMAIN shown}

\* What the open conversation shows of a message, in its first copy, is what the database
\* holds: edits and deletions are not undone by events that come late.  Excused are the
\* messages whose edit failed and those that went with their conversation.
ShownIsStored ==
  Settled /\ current # None =>
    \A i \in DOMAIN shown :
      LET m == shown[i].msg
      IN (\A j \in 1 .. (i - 1) : shown[j].msg # m) /\ m \notin excused =>
           shown[i].text = (IF store[m] = None THEN "deleted" ELSE store[m].text)

\* Once the events are handled the open conversation shows every message the database has of
\* it, and each in its first copy as the database has it, whatever came while it was loaded
\* (load_messages, handle_sdk_event).  A message that came in between may be there twice, and
\* nothing is said of its second copy.
ChatIsStored == NothingMissed /\ ShownIsStored

\* The message being edited, deleted or answered is one of the open conversation's.
ModesStayInConversation ==
  \A m \in {editing, confirm, reply} \ {None} :
    ConvOf(m) = current /\ \E i \in DOMAIN shown : shown[i].msg = m

\* Enter and d find a conversation under the selection, as long as none was deleted while
\* the event of its creation was under way, which lists it again.
SelectionIsListed ==
  ~haunted /\ ListKey /\ entries # <<>> => sel \in DOMAIN entries

\* The member selected on the information screen is one of the open conversation's, so that its
\* fingerprint is what Enter shows.
PeerIsMember ==
  ~haunted /\ Idle /\ screen = "ConversationInfo" =>
    \E i \in DOMAIN entries :
      entries[i].conv = current /\ peer \in 1 .. Cardinality(entries[i].peers)

\* Whatever the order of keys and events, what the interface has selected, a profile, a
\* conversation, a member or a message, is there, and of the open conversation.
SelectionIsValid ==
  TypeOK /\ ProfileSelected /\ SelectionIsListed /\ PeerIsMember /\ ModesStayInConversation

\* The messages of the open conversation are marked as read in the end, unless the user leaves
\* it or the call fails.
ShownIsRead ==
  \A c \in Convs : current = c ~> (Unread(c) \subseteq excused \/ current # c)

=============================================================================
