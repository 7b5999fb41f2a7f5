------------------------------- MODULE TuiAuth -------------------------------
(* The profile and sign-up screens of the terminal interface, the profiles   *)
(* they keep on disk, and the thread that connects in the background.        *)
(*                                                                           *)
(* A profile is a directory: credentials.txt (a user name and the hash of a  *)
(* password), the database encrypted under the password it was first opened  *)
(* with, and the account the database holds.  The three are written at       *)
(* different moments of a sign-up, which can fail, or be cut by the end of   *)
(* the program, between any two of them.                                     *)
(*                                                                           *)
(* Typing is left out: the form's contents are chosen when Enter submits     *)
(* them, and error texts are not kept.                                       *)
EXTENDS Naturals, FiniteSets, SequencesExt

CONSTANTS
  Users,       \* the names a user may type, each also a directory's name
  Passwords,   \* the passwords a user may type
  Default,     \* the directory "default"
  None,        \* an absent value
  Taken,       \* the names that others may have registered
  MaxTries     \* bound: attempts to sign up or in

\* an attempt to connect, in the thread that runs it
Stages == {"open", "connect", "spinning", "register", "save", "upload", "load", "start", "connected",
           "failed", "crashed"}
Attempts ==
  [stage : Stages, existing : BOOLEAN, user : Users, pass : Passwords, dir : Users \union {Default}]

ASSUME UsersAssumption ==
  /\ IsFiniteSet(Users) /\ Users # {} /\ Passwords # {} /\ Default \notin Users
  /\ Taken \subseteq Users /\ MaxTries \in Nat
  /\ None \notin Users \union {Default} \union Passwords /\ None \notin Attempts

Dirs == Users \union {Default}
\* read_dir sorted by name: any fixed order of the directories
DirOrder == SetToSeq(Dirs)

VARIABLES
  screen,         \* App.screen
  disk,           \* the files of each profile directory
  registered,     \* the names the server knows
  profiles,       \* App.profiles: [name, username] as last listed
  selected,       \* App.selected_profile; Len(profiles) + 1 is "+ New Account"
  password_mode,  \* App.profile_password_mode
  auth_mode,      \* App.auth_mode
  auth_loading,   \* App.auth_loading
  data_dir,       \* App.data_dir, None while empty
  was_signup,     \* App.auth_was_signup
  thread,         \* App.auth_handle: the thread that runs SyncBridge::connect
  tries,          \* attempts left
  typed,          \* history: the names submitted on this visit of the sign-up form
  cut             \* history: the directories whose sign-up was cut short by the end
                  \* of the program or of the thread

authVars == <<screen, disk, registered, profiles, selected, password_mode, auth_mode,
              auth_loading, data_dir, was_signup, thread, tries, typed, cut>>

NoProfile == [user |-> None, pass |-> None, key |-> None, account |-> None, keys |-> FALSE]

HasCredentials(dir) == disk[dir].user # None
Owners == {disk[d].user : d \in {x \in Dirs : HasCredentials(x)}}

\* the members of a finite set of numbers, from the lowest on
InOrder(numbers) ==
  CHOOSE order \in [1 .. Cardinality(numbers) -> numbers] :
    \A i, j \in DOMAIN order : i < j => order[i] < order[j]

\* ProfileManager::list_profiles: the directories that hold credentials.txt
ListProfiles(files) ==
  LET listed == InOrder({i \in DOMAIN DirOrder : files[DirOrder[i]].user # None})
  IN [i \in DOMAIN listed |->
        [name |-> DirOrder[listed[i]], username |-> files[DirOrder[listed[i]]].user]]

\* AccountFile::verify
Verify(dir, user, pass) ==
  HasCredentials(dir) /\ disk[dir].user = user /\ disk[dir].pass = pass

-----------------------------------------------------------------------------
(* App::new over what the directories hold. *)
StartOver(files) ==
  /\ profiles' = ListProfiles(files)
  /\ screen' = IF profiles' = <<>> THEN "Auth" ELSE "ProfileSelect"
  /\ selected' = 1
  /\ password_mode' = FALSE
  /\ auth_mode' = "SignUp"
  /\ auth_loading' = FALSE
  /\ data_dir' = None
  /\ was_signup' = FALSE
  /\ thread' = None
  /\ typed' = {}

AuthInit ==
  /\ disk \in [Dirs -> {NoProfile} \union
                 {[user |-> u, pass |-> p, key |-> p, account |-> u, keys |-> TRUE] :
                    u \in Users, p \in Passwords}]
  /\ \A d \in Dirs : HasCredentials(d) => disk[d].user = d
  /\ \E taken \in SUBSET Taken : registered = taken \union Owners
  /\ profiles = ListProfiles(disk)
  /\ screen = IF profiles = <<>> THEN "Auth" ELSE "ProfileSelect"
  /\ selected = 1
  /\ password_mode = FALSE
  /\ auth_mode = "SignUp"
  /\ auth_loading = FALSE
  /\ data_dir = None
  /\ was_signup = FALSE
  /\ thread = None
  /\ typed = {}
  /\ cut = {}

-----------------------------------------------------------------------------
(* handle_profile_key *)

Selecting == screen = "ProfileSelect" /\ ~auth_loading /\ ~password_mode

\* Left and Right
SelectProfile ==
  /\ Selecting
  /\ \E i \in {selected - 1, selected + 1} : i \in 1 .. Len(profiles) + 1 /\ selected' = i
  /\ UNCHANGED <<screen, disk, registered, profiles, password_mode, auth_mode, auth_loading,
                 data_dir, was_signup, thread, tries, typed, cut>>

\* Mutant of NewAccount: the directory of the last attempt is kept
XNewAccount ==
  /\ Selecting
  /\ selected = Len(profiles) + 1
  /\ auth_mode' = "SignUp"
  /\ screen' = "Auth"
  /\ typed' = {}
  /\ UNCHANGED <<disk, registered, profiles, selected, password_mode, auth_loading, data_dir,
                 was_signup, thread, tries, cut>>

\* Enter on "+ New Account"
NewAccount ==
  /\ Selecting
  /\ selected = Len(profiles) + 1
  /\ data_dir' = None
  /\ auth_mode' = "SignUp"
  /\ screen' = "Auth"
  /\ typed' = {}
  /\ UNCHANGED <<disk, registered, profiles, selected, password_mode, auth_loading,
                 was_signup, thread, tries, cut>>

\* Enter on a profile
ChooseProfile ==
  /\ Selecting
  /\ selected <= Len(profiles)
  /\ password_mode' = TRUE
  /\ UNCHANGED <<screen, disk, registered, profiles, selected, auth_mode, auth_loading,
                 data_dir, was_signup, thread, tries, typed, cut>>

\* d; the list may have lost other profiles since it was last read
DeleteProfile ==
  /\ Selecting
  /\ selected <= Len(profiles)
  /\ disk' = [disk EXCEPT ![profiles[selected].name] = NoProfile]
  /\ profiles' = ListProfiles(disk')
  /\ selected' = IF selected > Len(profiles') + 1 THEN Len(profiles') + 1 ELSE selected
  /\ IF profiles' = <<>>
       THEN data_dir' = Default /\ screen' = "Auth"
       ELSE UNCHANGED <<data_dir, screen>>
  /\ cut' = cut \ {profiles[selected].name}
  /\ UNCHANGED <<registered, password_mode, auth_mode, auth_loading, was_signup, thread,
                 tries, typed>>

LeavePassword ==
  /\ screen = "ProfileSelect" /\ ~auth_loading /\ password_mode
  /\ password_mode' = FALSE
  /\ UNCHANGED <<screen, disk, registered, profiles, selected, auth_mode, auth_loading,
                 data_dir, was_signup, thread, tries, typed, cut>>

-----------------------------------------------------------------------------
(* attempt_auth, for a form that passed its validation, in the directory dir *)

Connecting(mode, user, pass, dir) ==
  [stage |-> "open", existing |-> (mode = "SignIn"), user |-> user, pass |-> pass, dir |-> dir]

\* the local account file is checked or written, then the thread is spawned;
\* a refusal leaves only the directory chosen
AttemptAuth(mode, user, pass, dir) ==
  /\ tries > 0 /\ tries' = tries - 1
  /\ data_dir' = dir
  /\ auth_mode' = mode
  /\ IF mode = "SignIn" /\ ~Verify(dir, user, pass)
       THEN /\ auth_loading' = FALSE
            /\ UNCHANGED <<disk, was_signup, thread>>
       ELSE /\ disk' = IF mode = "SignIn" THEN disk
                       ELSE [disk EXCEPT ![dir].user = user, ![dir].pass = pass]
            /\ auth_loading' = TRUE
            /\ was_signup' = (mode = "SignUp")
            /\ thread' = Connecting(mode, user, pass, dir)

\* Enter in the password mode: the profile as it was listed against the files as they are
SubmitPassword(pass) ==
  /\ screen = "ProfileSelect" /\ ~auth_loading /\ password_mode
  /\ LET profile == profiles[selected]
     IN /\ Verify(profile.name, profile.username, pass)
        /\ AttemptAuth("SignIn", profile.username, pass, profile.name)
  /\ password_mode' = FALSE
  /\ UNCHANGED <<screen, registered, profiles, selected, typed, cut>>

\* Enter in the sign-up form; its two passwords agree when it signs up
SubmitForm(user, pass) ==
  /\ screen = "Auth" /\ ~auth_loading
  /\ AttemptAuth(auth_mode, user, pass, IF data_dir = None THEN user ELSE data_dir)
  /\ typed' = typed \union {user}
  /\ UNCHANGED <<screen, registered, profiles, selected, password_mode, cut>>

LeaveAuth ==
  /\ screen = "Auth" /\ ~auth_loading
  /\ profiles # <<>>
  /\ screen' = "ProfileSelect"
  /\ UNCHANGED <<disk, registered, profiles, selected, password_mode, auth_mode, auth_loading,
                 data_dir, was_signup, thread, tries, typed, cut>>

-----------------------------------------------------------------------------
(* SyncBridge::connect, Sdk::connect and SdkClient::{new, load} in the thread *)

AtStage(stage) == thread # None /\ thread.stage = stage

ThreadMoves(stage) == thread' = [thread EXCEPT !.stage = stage]

OutsideThread == <<screen, profiles, selected, password_mode, auth_mode, auth_loading,
                   data_dir, was_signup, tries, typed, cut>>

\* SdkClient::init, the storage: the first password to open a directory's database
\* encrypts it, any other is refused from then on
OpenStorage ==
  /\ AtStage("open")
  /\ IF disk[thread.dir].key \in {None, thread.pass}
       THEN /\ disk' = [disk EXCEPT ![thread.dir].key = thread.pass]
            /\ ThreadMoves("connect")
       ELSE ThreadMoves("failed") /\ UNCHANGED disk
  /\ UNCHANGED registered
  /\ UNCHANGED OutsideThread

\* connect_transport; the insecure client's handshake may also panic, and when the server
\* closes the connection it reads 0 bytes again and again: nothing ends it but the process
ConnectTransport ==
  /\ AtStage("connect")
  /\ \/ ThreadMoves(IF thread.existing THEN "load" ELSE "register")
     \/ ThreadMoves("failed")
     \/ ThreadMoves("crashed")
     \/ ThreadMoves("spinning")
  /\ UNCHANGED <<disk, registered>>
  /\ UNCHANGED OutsideThread

\* the CreateAccount request of create_account: the server refuses a name it knows,
\* and the connection may be lost before or after it registers the name
Register ==
  /\ AtStage("register")
  /\ \/ /\ thread.user \notin registered
        /\ registered' = registered \union {thread.user}
        /\ ThreadMoves("save") \/ ThreadMoves("failed")
     \/ ThreadMoves("failed") /\ UNCHANGED registered
  /\ UNCHANGED disk
  /\ UNCHANGED OutsideThread

\* set_account; the prekeys of the new account are not on the server yet
SaveAccount ==
  /\ AtStage("save")
  /\ disk' = [disk EXCEPT ![thread.dir].account = thread.user, ![thread.dir].keys = FALSE]
  /\ ThreadMoves("upload")
  /\ UNCHANGED registered
  /\ UNCHANGED OutsideThread

\* the rest of create_account: the upload of the prekeys
UploadKeys ==
  /\ AtStage("upload")
  /\ \/ disk' = [disk EXCEPT ![thread.dir].keys = TRUE] /\ ThreadMoves("start")
     \/ ThreadMoves("failed") /\ UNCHANGED disk
  /\ UNCHANGED registered
  /\ UNCHANGED OutsideThread

\* SdkClient::load: load_account
LoadAccount ==
  /\ AtStage("load")
  /\ ThreadMoves(IF disk[thread.dir].account = None THEN "failed" ELSE "start")
  /\ UNCHANGED <<disk, registered>>
  /\ UNCHANGED OutsideThread

\* ClientBuilder::start: the synchronization, then the workers are spawned
StartClient ==
  /\ AtStage("start")
  /\ ThreadMoves("connected") \/ ThreadMoves("failed")
  /\ UNCHANGED <<disk, registered>>
  /\ UNCHANGED OutsideThread

ThreadStep == OpenStorage \/ ConnectTransport \/ Register \/ SaveAccount \/ UploadKeys
              \/ LoadAccount \/ StartClient

-----------------------------------------------------------------------------
(* poll_auth_completion, once the thread has finished *)

AuthSucceeds ==
  /\ AtStage("connected")
  /\ thread' = None
  /\ auth_loading' = FALSE
  /\ screen' = "Conversations"
  /\ profiles' = ListProfiles(disk)
  /\ UNCHANGED <<disk, registered, selected, password_mode, auth_mode, data_dir, was_signup,
                 tries, typed, cut>>

\* Mutant of WithoutCredentials: a failed sign-up keeps its account file
XWithoutCredentials(dir) == disk

\* AccountFile::delete
WithoutCredentials(dir) == [disk EXCEPT ![dir].user = None, ![dir].pass = None]

AuthFails ==
  /\ AtStage("failed")
  /\ thread' = None
  /\ auth_loading' = FALSE
  /\ disk' = IF was_signup THEN WithoutCredentials(data_dir) ELSE disk
  /\ screen' = IF ~was_signup /\ profiles # <<>> THEN "ProfileSelect" ELSE screen
  /\ UNCHANGED <<registered, profiles, selected, password_mode, auth_mode, data_dir,
                 was_signup, tries, typed, cut>>

\* Mutant of AuthCrashes: the interface stays in loading
XAuthCrashes ==
  /\ AtStage("crashed")
  /\ thread' = None
  /\ screen' = IF ~was_signup /\ profiles # <<>> THEN "ProfileSelect" ELSE screen
  /\ cut' = IF was_signup THEN cut \union {data_dir} ELSE cut
  /\ UNCHANGED <<disk, registered, profiles, selected, password_mode, auth_mode, data_dir,
                 auth_loading, was_signup, tries, typed>>

AuthCrashes ==
  /\ AtStage("crashed")
  /\ thread' = None
  /\ auth_loading' = FALSE
  /\ screen' = IF ~was_signup /\ profiles # <<>> THEN "ProfileSelect" ELSE screen
  /\ cut' = IF was_signup THEN cut \union {data_dir} ELSE cut
  /\ UNCHANGED <<disk, registered, profiles, selected, password_mode, auth_mode, data_dir,
                 was_signup, tries, typed>>

\* Ctrl-C or q, at any moment: the thread ends with the process, and another process
\* starts (bound: while an attempt is left)
ProcessEnds ==
  /\ tries > 0
  /\ cut' = IF thread # None /\ ~thread.existing THEN cut \union {thread.dir} ELSE cut
  /\ StartOver(disk)
  /\ UNCHANGED <<disk, registered, tries>>

AuthKey == \/ SelectProfile \/ NewAccount \/ ChooseProfile \/ DeleteProfile \/ LeavePassword
           \/ \E pass \in Passwords : SubmitPassword(pass)
           \/ \E user \in Users, pass \in Passwords : SubmitForm(user, pass)
           \/ LeaveAuth

-----------------------------------------------------------------------------
AuthTypeOK ==
  /\ screen \in {"ProfileSelect", "Auth", "Conversations", "Chat", "ConversationInfo"}
  /\ disk \in [Dirs -> [user : Users \union {None}, pass : Passwords \union {None},
                        key : Passwords \union {None}, account : Users \union {None}, keys : BOOLEAN]]
  /\ registered \subseteq Users
  /\ \A i \in DOMAIN profiles : profiles[i] \in [name : Dirs, username : Users]
  /\ selected \in Nat
  /\ {password_mode, auth_loading, was_signup} \subseteq BOOLEAN
  /\ auth_mode \in {"SignUp", "SignIn"}
  /\ data_dir \in Dirs \union {None}
  /\ thread \in Attempts \union {None}
  /\ cut \subseteq Dirs

\* The profile list can be indexed wherever its keys index it: the selection is one of
\* the profiles or the "+" card, and a password is asked for a profile.
ProfileSelected ==
  /\ screen = "ProfileSelect" => selected \in 1 .. Len(profiles) + 1
  /\ password_mode => screen = "ProfileSelect" /\ selected <= Len(profiles)

\* A profile on disk can be used: unless its sign-up was cut short, its database opens with
\* the password that its credentials accept, holds the account of its user, and the server
\* has that account's keys; whatever attempts failed before, in this directory or another.
ProfilesAreUsable ==
  \A d \in Dirs \ cut :
    HasCredentials(d) /\ ~(thread # None /\ thread.dir = d) =>
      disk[d].key = disk[d].pass /\ disk[d].account = disk[d].user /\ disk[d].keys

\* A sign-up writes only in a directory that the user named on this visit of the form,
\* or in "default", never in the directory of a profile tried or opened before.
SignUpStaysInPlace ==
  thread # None /\ ~thread.existing => thread.dir \in typed \union {Default}

=============================================================================
