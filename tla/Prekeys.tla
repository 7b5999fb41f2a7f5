------------------------------ MODULE Prekeys ------------------------------
(***************************************************************************)
(* The prekeys of one user, the owner: made and uploaded when its account  *)
(* is created, topped up when it synchronizes, handed out by the server to *)
(* peers that want to open a session with it, and consumed when it handles *)
(* their openings. The owner may stop between any two steps, also between  *)
(* a write to its storage and the request to the server that goes with it. *)
(*                                                                         *)
(* An ephemeral prekey is its number. An opening carries the midterm key   *)
(* and the ephemeral prekey (0 if the bundle had none) it was made with:   *)
(* the owner can decrypt it exactly if it still has both.                  *)
(***************************************************************************)
EXTENDS Naturals, Sequences, FiniteSets

CONSTANTS
  Peers,        \* the users who open sessions with the owner
  MinPrekeys,   \* E2EClient.min_prekeys (DEFAULT_PREKEY_AMOUNT)
  Limit,        \* ephemeral prekeys that the server stores for a user
  MaxKeys,      \* bound: ephemeral prekeys the owner makes
  MaxOpenings,  \* bound: bundles the server hands out
  MaxStops      \* bound: times the owner stops

ASSUME PrekeysAssumption ==
  /\ MinPrekeys \in Nat /\ Limit \in Nat /\ MaxKeys \in Nat
  /\ MaxOpenings \in Nat /\ MaxStops \in Nat

VARIABLES
  pc,           \* where the owner is in create_account, sync_prekeys or its life
  phase,        \* who called: create_account, the first or the final sync_prekeys
  account,      \* whether the owner's storage has its account
  stored,       \* ephemeral prekeys in the owner's storage
  midterm,      \* the midterm key in its storage, 0 if none
  fresh,        \* the prekeys that the current call of upload_prekeys has made
  status,       \* the prekeys of the last PreKeyStatus
  made,         \* ephemeral prekeys made so far
  registered,   \* server: whether the owner's name is taken
  available,    \* server: the owner's ephemeral prekeys
  signed,       \* server: the owner's signed midterm prekey, 0 if none
  inbox,        \* server: openings the owner has not fetched
  batch,        \* openings the owner has fetched, the server has deleted them
  bundle,       \* the bundle each peer holds
  taken,        \* prekeys handed out since the last PreKeyStatus
  failed,       \* the peers whose opening the owner could not decrypt
  openings, stops

ownerVars == <<pc, phase, account, stored, midterm, fresh, status, made, batch, failed>>
serverVars == <<registered, available, signed, inbox>>
vars == <<ownerVars, serverVars, bundle, taken, openings, stops>>

Prekey == 1 .. MaxKeys
Bundle == [mid : 0 .. 1, key : 0 .. MaxKeys]
NoBundle == [mid |-> 0, key |-> 0]
Opening == [from : Peers, mid : 0 .. 1, key : 0 .. MaxKeys]

TypeOK ==
  /\ pc \in {"none", "registering", "saving", "generate", "midterm", "uploading",
             "uploaded", "down", "status", "remove", "initial", "up"}
  /\ phase \in {"create", "first", "final"}
  /\ account \in BOOLEAN
  /\ stored \subseteq Prekey
  /\ midterm \in 0 .. 1
  /\ fresh \subseteq Prekey
  /\ status \subseteq Prekey
  /\ made \in 0 .. MaxKeys
  /\ registered \in BOOLEAN
  /\ available \subseteq Prekey
  /\ signed \in 0 .. 1
  /\ inbox \in Seq(Opening)
  /\ batch \in Seq(Opening)
  /\ bundle \in [Peers -> Bundle]
  /\ taken \in 0 .. MaxOpenings
  /\ failed \subseteq Peers
  /\ openings \in 0 .. MaxOpenings
  /\ stops \in 0 .. MaxStops

Init ==
  /\ pc = "none" /\ phase = "create" /\ account = FALSE
  /\ stored = {} /\ midterm = 0 /\ fresh = {} /\ status = {} /\ made = 0
  /\ registered = FALSE /\ available = {} /\ signed = 0
  /\ inbox = <<>> /\ batch = <<>>
  /\ bundle = [p \in Peers |-> NoBundle]
  /\ taken = 0
  /\ failed = {}
  /\ openings = 0 /\ stops = 0

-----------------------------------------------------------------------------
(* create_account.                                                         *)

\* The request is sent; a name that is taken would be refused for good.
Register ==
  /\ pc = "none"
  /\ ~registered
  /\ pc' = "registering"
  /\ UNCHANGED <<phase, account, stored, midterm, fresh, status, made, batch, failed,
                 serverVars, bundle, taken, openings, stops>>

ServerRegister ==
  /\ pc = "registering"
  /\ registered' = TRUE
  /\ pc' = "saving"
  /\ UNCHANGED <<phase, account, stored, midterm, fresh, status, made, batch, failed,
                 available, signed, inbox, bundle, taken, openings, stops>>

\* set_account, then upload_prekeys(min_prekeys, true, true).
SaveAccount ==
  /\ pc = "saving"
  /\ account' = TRUE
  /\ pc' = "generate"
  /\ phase' = "create"
  /\ UNCHANGED <<stored, midterm, fresh, status, made, batch, failed, serverVars, bundle,
                 taken, openings, stops>>

-----------------------------------------------------------------------------
(* upload_prekeys.                                                         *)

\* Mutant of Missing: the prekeys are only topped up when none is left.
MissingWhenEmpty ==
  IF status # {} THEN 0 ELSE IF MinPrekeys < Limit THEN MinPrekeys ELSE Limit

\* The number of prekeys sync_prekeys uploads; the server's limit is what it still
\* takes.
Missing ==
  LET room == IF Cardinality(status) < Limit THEN Limit - Cardinality(status) ELSE 0
  IN IF Cardinality(status) >= MinPrekeys THEN 0
     ELSE IF MinPrekeys - Cardinality(status) < room
          THEN MinPrekeys - Cardinality(status) ELSE room

ToUpload == IF phase = "create" THEN MinPrekeys ELSE Missing

NewKeys == made + 1 .. made + ToUpload

\* Where the caller goes on once the prekeys are up to date.
Continue ==
  /\ pc' = CASE phase = "create" -> "status" [] phase = "first" -> "initial"
             [] phase = "final" -> "up"
  /\ phase' = IF phase = "create" THEN "first" ELSE phase

\* Mutant of Generate: the keys are not saved before they are uploaded.
GenerateUnsaved ==
  /\ pc = "generate"
  /\ made + ToUpload <= MaxKeys
  /\ IF ToUpload = 0 /\ phase # "create"
     THEN Continue /\ UNCHANGED <<stored, fresh, made>>
     ELSE /\ fresh' = NewKeys
          /\ stored' = IF phase = "create" THEN stored \cup NewKeys ELSE stored
          /\ made' = made + ToUpload
          /\ pc' = IF phase = "create" THEN "midterm" ELSE "uploading"
          /\ UNCHANGED phase
  /\ UNCHANGED <<account, midterm, status, batch, failed, serverVars, bundle, taken,
                 openings, stops>>

\* save_many_ephemeral_keys, one transaction, before anything is sent.
Generate ==
  /\ pc = "generate"
  /\ made + ToUpload <= MaxKeys
  /\ IF ToUpload = 0 /\ phase # "create"
     THEN Continue /\ UNCHANGED <<stored, fresh, made>>
     ELSE /\ fresh' = NewKeys
          /\ stored' = stored \cup NewKeys
          /\ made' = made + ToUpload
          /\ pc' = IF phase = "create" THEN "midterm" ELSE "uploading"
          /\ UNCHANGED phase
  /\ UNCHANGED <<account, midterm, status, batch, failed, serverVars, bundle, taken,
                 openings, stops>>

\* set_midterm_key.
SetMidterm ==
  /\ pc = "midterm"
  /\ midterm' = 1
  /\ pc' = "uploading"
  /\ UNCHANGED <<phase, account, stored, fresh, status, made, batch, failed, serverVars,
                 bundle, taken, openings, stops>>

\* PreKeyUpload reaches the server: create_account replaces what it has, and only
\* create_account sends a midterm key.
ServerUpload ==
  /\ pc = "uploading"
  /\ available' = IF phase = "create" THEN fresh ELSE available \cup fresh
  /\ signed' = IF phase = "create" THEN midterm ELSE signed
  /\ pc' = "uploaded"
  /\ UNCHANGED <<phase, account, stored, midterm, fresh, status, made, batch, failed,
                 registered, inbox, bundle, taken, openings, stops>>

UploadDone ==
  /\ pc = "uploaded"
  /\ fresh' = {}
  /\ Continue
  /\ UNCHANGED <<account, stored, midterm, status, made, batch, failed, serverVars,
                 bundle, taken, openings, stops>>

-----------------------------------------------------------------------------
(* load, sync_prekeys and the openings.                                    *)

Load ==
  /\ pc = "down"
  /\ account
  /\ pc' = "status"
  /\ phase' = "first"
  /\ UNCHANGED <<account, stored, midterm, fresh, status, made, batch, failed, serverVars,
                 bundle, taken, openings, stops>>

PreKeyStatus ==
  /\ pc = "status"
  /\ status' = available
  /\ taken' = 0
  /\ pc' = "remove"
  /\ UNCHANGED <<phase, account, stored, midterm, fresh, made, batch, failed, serverVars,
                 bundle, openings, stops>>

\* Mutant of RemoveUnknown: the owner also forgets the keys that are not on the
\* server any more.
RemoveUnknownBoth ==
  /\ pc = "remove"
  /\ available' = available \ (status \ stored)
  /\ stored' = stored \cap status
  /\ pc' = "generate"
  /\ UNCHANGED <<phase, account, midterm, fresh, status, made, batch, failed,
                 registered, signed, inbox, bundle, taken, openings, stops>>

\* PreKeyDelete of the keys of the status that the owner does not store, if there
\* are any; they still count as available.
RemoveUnknown ==
  /\ pc = "remove"
  /\ available' = available \ (status \ stored)
  /\ pc' = "generate"
  /\ UNCHANGED <<phase, account, stored, midterm, fresh, status, made, batch, failed,
                 registered, signed, inbox, bundle, taken, openings, stops>>

\* GetInitialMessages: the server deletes what it sends.
FetchOpenings ==
  /\ pc = "initial"
  /\ batch = <<>>
  /\ inbox # <<>>
  /\ batch' = inbox
  /\ inbox' = <<>>
  /\ UNCHANGED <<pc, phase, account, stored, midterm, fresh, status, made, failed,
                 registered, available, signed, bundle, taken, openings, stops>>

\* None is left: once the conversation messages are processed, the final
\* sync_prekeys.
OpeningsDone ==
  /\ pc = "initial"
  /\ batch = <<>>
  /\ inbox = <<>>
  /\ pc' = "status"
  /\ phase' = "final"
  /\ UNCHANGED <<account, stored, midterm, fresh, status, made, batch, failed, serverVars,
                 bundle, taken, openings, stops>>

\* handle_open_session: the prekey is popped, whether or not the payload can be
\* decrypted with it.
OpenWith(o) ==
  /\ stored' = stored \ {o.key}
  /\ failed' = IF (o.key = 0 \/ o.key \in stored) /\ o.mid = midterm THEN failed
               ELSE failed \cup {o.from}

HandleFetched ==
  /\ pc = "initial"
  /\ batch # <<>>
  /\ OpenWith(Head(batch))
  /\ batch' = Tail(batch)
  /\ UNCHANGED <<pc, phase, account, midterm, fresh, status, made, serverVars, bundle,
                 taken, openings, stops>>

\* A client that is up is relayed the openings.
HandleRelayed ==
  /\ pc = "up"
  /\ inbox # <<>>
  /\ OpenWith(Head(inbox))
  /\ inbox' = Tail(inbox)
  /\ UNCHANGED <<pc, phase, account, midterm, fresh, status, made, batch, registered,
                 available, signed, bundle, taken, openings, stops>>

\* The owner stops, in the middle of a request too: what it had fetched is lost. A
\* request that was sent has reached the server before the stop, or never does.
Stop ==
  /\ pc \notin {"none", "down"}
  /\ stops < MaxStops
  /\ stops' = stops + 1
  /\ pc' = IF account THEN "down" ELSE "none"
  /\ batch' = <<>>
  /\ fresh' = {}
  /\ UNCHANGED <<phase, account, stored, midterm, status, made, failed, serverVars,
                 bundle, taken, openings>>

-----------------------------------------------------------------------------
(* The peers.                                                              *)

\* PreKeyBundleRequest: the server gives each ephemeral prekey once, and a bundle
\* without one when it has none. Without a signed midterm key there is no bundle.
RequestBundle(p) ==
  /\ signed # 0
  /\ bundle[p] = NoBundle
  /\ openings < MaxOpenings
  /\ openings' = openings + 1
  /\ \E k \in IF available = {} THEN {0} ELSE available :
       /\ bundle' = [bundle EXCEPT ![p] = [mid |-> signed, key |-> k]]
       /\ available' = available \ {k}
       /\ taken' = IF k = 0 THEN taken ELSE taken + 1
  /\ UNCHANGED <<ownerVars, registered, signed, inbox, stops>>

\* prepare_open_new_session and SendInitialMessage.
SendOpening(p) ==
  /\ bundle[p] # NoBundle
  /\ inbox' = Append(inbox, [from |-> p, mid |-> bundle[p].mid, key |-> bundle[p].key])
  /\ bundle' = [bundle EXCEPT ![p] = NoBundle]
  /\ UNCHANGED <<ownerVars, registered, available, signed, taken, openings, stops>>

\* The peer stops, or its request fails, with the bundle in hand.
DropBundle(p) ==
  /\ bundle[p] # NoBundle
  /\ bundle' = [bundle EXCEPT ![p] = NoBundle]
  /\ UNCHANGED <<ownerVars, serverVars, taken, openings, stops>>

-----------------------------------------------------------------------------

Next ==
  \/ Register \/ ServerRegister \/ SaveAccount
  \/ Generate \/ SetMidterm \/ ServerUpload \/ UploadDone
  \/ Load \/ PreKeyStatus \/ RemoveUnknown
  \/ FetchOpenings \/ OpeningsDone \/ HandleFetched \/ HandleRelayed
  \/ Stop
  \/ \E p \in Peers : RequestBundle(p) \/ SendOpening(p) \/ DropBundle(p)

Spec == Init /\ [][Next]_vars

-----------------------------------------------------------------------------
(* Properties.                                                             *)

\* Whenever the owner stops, between its writes and its requests, no opening made
\* with a bundle of the server fails for want of a prekey (NoSuchPrekey) or of the
\* midterm key: prekeys are stored before they are uploaded (upload_prekeys), and
\* popped by the one opening that uses them (handle_open_session).
OpeningsSucceed == failed = {}

\* PreKeyDelete has nothing to delete: the server never has a prekey that the owner
\* does not store (sync_prekeys, "Remove keys on the server that are not on the
\* client").
ServerKeysStored == available \subseteq stored

\* A client that is done with synchronizing left the server at least min_prekeys
\* prekeys for its peers, those included that they took meanwhile, and never more
\* than the server's limit.
ToppedUp ==
  [][(pc' = "up" /\ pc # "up" /\ Limit >= MinPrekeys) =>
       /\ Cardinality(available') + taken' >= MinPrekeys
       /\ Cardinality(available') <= Limit]_vars
=============================================================================
