------------------------------ MODULE TuiProofs ------------------------------
(* What the profiles on disk keep through the sign-ups and sign-ins of the   *)
(* terminal interface, and what its lists and its open conversation show of  *)
(* a database that the worker writes beside it: for every set of names,      *)
(* conversations and messages, any number of attempts and events, and a      *)
(* channel of any capacity.                                                  *)
EXTENDS Tui, FiniteSetTheorems, TLAPS

-----------------------------------------------------------------------------
(* The inductive invariant. *)

File == [user : Users \union {None}, pass : Passwords \union {None},
         key : Passwords \union {None}, account : Users \union {None}, keys : BOOLEAN]

\* A sign-up leaves a directory's credentials, its database's key, its account and the
\* keys of the account behind it, in this order.
SignUpProgress(file, attempt) ==
  /\ file.user = attempt.user /\ file.pass = attempt.pass
  /\ attempt.stage \in {"connect", "register", "save", "upload", "start", "connected"} =>
       file.key = attempt.pass
  /\ attempt.stage \in {"upload", "start", "connected"} => file.account = attempt.user
  /\ attempt.stage \in {"start", "connected"} => file.keys

\* What the interface and the files say of the attempt that is under way.
AttemptInv ==
  /\ thread = [stage |-> thread.stage, existing |-> thread.existing, user |-> thread.user,
               pass |-> thread.pass, dir |-> thread.dir]
  /\ was_signup = ~thread.existing
  /\ data_dir = thread.dir
  /\ thread.pass \in Passwords
  /\ \/ /\ thread.existing = TRUE
        /\ thread.stage \notin {"register", "save", "upload"}
        /\ thread.dir \in Dirs => disk[thread.dir].pass = thread.pass
     \/ /\ thread.existing = FALSE
        /\ thread.stage # "load"
        /\ thread.user \in Users
        /\ thread.dir \in typed \union {Default}
        /\ SignUpProgress(disk[thread.dir], thread)

SigningUp(d) == thread # None /\ thread.existing = FALSE /\ thread.dir = d

Usable(file) == file.key = file.pass /\ file.account = file.user /\ file.keys

AuthInv ==
  /\ disk \in [Dirs -> File]
  /\ auth_loading \in BOOLEAN /\ auth_mode \in {"SignUp", "SignIn"}
  /\ ~auth_loading => thread = None
  /\ thread # None => AttemptInv
  /\ typed \subseteq Users
  /\ screen = "Auth" => data_dir \in typed \union {None, Default}
  /\ \A d \in Dirs \ cut : disk[d].user # None /\ ~SigningUp(d) => Usable(disk[d])

-----------------------------------------------------------------------------
\* The profiles and the attempt, step by step.
LEMMA InitAuth == Init => AuthInv
<1>. USE UsersAssumption
<1>1. ASSUME AuthInit PROVE AuthInv
  <2>. DEFINE Signed == {[user |-> u, pass |-> p, key |-> p, account |-> u, keys |-> TRUE] :
                           u \in Users, p \in Passwords}
  <2>0. Signed \subseteq File /\ NoProfile \in File
    <3>1. ASSUME NEW f \in Signed PROVE f \in File
      <4>1. PICK u \in Users, p \in Passwords :
              f = [user |-> u, pass |-> p, key |-> p, account |-> u, keys |-> TRUE]
        BY <3>1
      <4>. QED  BY <4>1 DEF File
    <3>2. NoProfile \in File
      BY DEF NoProfile, File
    <3>. HIDE DEF Signed
    <3>. QED  BY <3>1, <3>2
  <2>1. disk \in [Dirs -> File]
    <3>1. disk \in [Dirs -> {NoProfile} \union Signed]
      BY <1>1 DEF AuthInit
    <3>. HIDE DEF Signed
    <3>. QED  BY <2>0, <3>1
  <2>2. \A d \in Dirs : disk[d].user # None => Usable(disk[d])
    BY <1>1 DEF AuthInit, NoProfile, Usable
  <2>. QED  BY <1>1, <2>1, <2>2 DEF AuthInit, AuthInv
<1>2. ASSUME SigningIn PROVE AuthInv
  <2>. DEFINE u == CHOOSE x \in Users : TRUE
             p == CHOOSE x \in Passwords : TRUE
             mine == [user |-> u, pass |-> p, key |-> p, account |-> u, keys |-> TRUE]
  <2>1. u \in Users /\ p \in Passwords
    OBVIOUS
  <2>2. disk = [d \in Dirs |-> IF d = u THEN mine ELSE NoProfile]
    BY <1>2 DEF SigningIn
  <2>3. thread = [stage |-> "start", existing |-> TRUE, user |-> u, pass |-> p, dir |-> u]
    BY <1>2 DEF SigningIn, Connecting
  <2>4. /\ auth_loading = TRUE /\ auth_mode = "SignIn" /\ was_signup = FALSE /\ data_dir = u /\ typed = {} /\ cut = {}
        /\ screen = "ProfileSelect"
    BY <1>2 DEF SigningIn
  <2>. HIDE DEF u, p
  <2>5. disk \in [Dirs -> File]
    BY <2>1, <2>2 DEF File, NoProfile
  <2>6. disk[u].pass = p
    BY <2>1, <2>2 DEF Dirs
  <2>7. AttemptInv
    BY <2>1, <2>3, <2>4, <2>6 DEF AttemptInv
  <2>8. \A d \in Dirs : disk[d].user # None => Usable(disk[d])
    BY <2>2 DEF Usable, NoProfile
  <2>. QED  BY <2>4, <2>5, <2>7, <2>8 DEF AuthInv
<1>. QED  BY <1>1, <1>2 DEF Init

\* A step that leaves the files, the attempt and the directory chosen alone, and that leads to
\* no sign-up form, keeps the invariant.
LEMMA FrameKeeps ==
  ASSUME AuthInv,
         UNCHANGED <<disk, auth_loading, auth_mode, data_dir, was_signup, thread, typed, cut>>,
         screen' = "Auth" => screen = "Auth"
  PROVE  AuthInv'
<1>1. AttemptInv <=> AttemptInv'
  BY DEF AttemptInv, SignUpProgress
<1>2. \A d : SigningUp(d) <=> SigningUp(d)'
  BY DEF SigningUp
<1>3. \A d : Usable(disk[d]) <=> Usable(disk'[d])
  BY DEF Usable
<1>. QED  BY <1>1, <1>2, <1>3 DEF AuthInv

LEMMA NewAccountKeeps == AuthInv /\ NewAccount => AuthInv'
<1>. SUFFICES ASSUME AuthInv, NewAccount PROVE AuthInv'
  OBVIOUS
<1>1. thread = None /\ thread' = None /\ auth_loading' = FALSE
  BY DEF AuthInv, NewAccount, Selecting
<1>2. disk' = disk /\ cut' = cut /\ data_dir' = None /\ typed' = {} /\ auth_mode' = "SignUp"
  BY DEF NewAccount
<1>. QED  BY <1>1, <1>2 DEF AuthInv, SigningUp, Usable

LEMMA DeleteProfileKeeps == AuthInv /\ DeleteProfile => AuthInv'
<1>. USE UsersAssumption
<1>. SUFFICES ASSUME AuthInv, DeleteProfile PROVE AuthInv'
  OBVIOUS
<1>. DEFINE name == profiles[selected].name
<1>1. thread = None /\ thread' = None /\ auth_loading' = FALSE /\ auth_loading = FALSE
  BY DEF AuthInv, DeleteProfile, Selecting
<1>2. /\ disk' = [disk EXCEPT ![name] = NoProfile] /\ cut' = cut \ {name} /\ typed' = typed
        /\ auth_mode' = auth_mode
  BY DEF DeleteProfile
<1>3. screen' = "Auth" => data_dir' \in typed' \union {None, Default}
  BY DEF DeleteProfile, Selecting
<1>. HIDE DEF name
<1>4. disk' \in [Dirs -> File]
  BY <1>2 DEF AuthInv, NoProfile, File
<1>5. ASSUME NEW d \in Dirs \ cut', disk'[d].user # None PROVE Usable(disk'[d])
  <2>1. d # name
    BY <1>2, <1>5 DEF AuthInv, NoProfile
  <2>2. disk'[d] = disk[d] /\ d \in Dirs \ cut
    BY <1>2, <2>1 DEF AuthInv
  <2>. QED  BY <1>1, <1>5, <2>2 DEF AuthInv, SigningUp
<1>. QED  BY <1>1, <1>2, <1>3, <1>4, <1>5 DEF AuthInv

\* An attempt that starts knows the password of its directory, or has just written it there.
LEMMA AttemptStarts ==
  ASSUME AuthInv, NEW mode \in {"SignIn", "SignUp"}, NEW user, NEW pass \in Passwords, NEW dir,
         AttemptAuth(mode, user, pass, dir),
         thread = None,
         UNCHANGED cut, typed \subseteq typed', typed' \subseteq Users,
         mode = "SignUp" => user \in Users /\ dir \in typed' \union {Default},
         screen' = "Auth" => dir \in typed' \union {None, Default}
  PROVE  AuthInv'
<1>. USE UsersAssumption
<1>0. auth_mode' \in {"SignUp", "SignIn"}
  BY DEF AttemptAuth
<1>1. CASE mode = "SignIn" /\ ~Verify(dir, user, pass)
  <2>1. disk' = disk /\ thread' = None /\ auth_loading' = FALSE /\ data_dir' = dir
    BY <1>1 DEF AttemptAuth
  <2>. QED  BY <1>0, <2>1 DEF AuthInv, SigningUp, Usable
<1>2. CASE mode = "SignIn" /\ Verify(dir, user, pass)
  <2>1. disk' = disk /\ auth_loading' = TRUE /\ data_dir' = dir /\ was_signup' = FALSE
    BY <1>2 DEF AttemptAuth
  <2>2. thread' = [stage |-> "open", existing |-> TRUE, user |-> user, pass |-> pass, dir |-> dir]
    BY <1>2 DEF AttemptAuth, Connecting
  <2>3. disk[dir].pass = pass
    BY <1>2 DEF Verify
  <2>4. AttemptInv'
    BY <2>1, <2>2, <2>3 DEF AttemptInv
  <2>5. \A d : ~SigningUp(d) /\ ~SigningUp(d)'
    BY <2>2 DEF SigningUp
  <2>. QED  BY <1>0, <2>1, <2>4, <2>5 DEF AuthInv, Usable
<1>3. CASE mode = "SignUp"
  <2>1. /\ disk' = [disk EXCEPT ![dir].user = user, ![dir].pass = pass]
        /\ auth_loading' = TRUE /\ data_dir' = dir /\ was_signup' = TRUE
    BY <1>3 DEF AttemptAuth
  <2>2. thread' = [stage |-> "open", existing |-> FALSE, user |-> user, pass |-> pass, dir |-> dir]
    BY <1>3 DEF AttemptAuth, Connecting
  <2>3. user \in Users /\ dir \in Dirs
    BY <1>3 DEF Dirs
  <2>4. thread' \in Attempts
    BY <2>2, <2>3 DEF Attempts, Stages, Dirs
  <2>5. thread' # None
    BY <2>4
  <2>6. disk' \in [Dirs -> File] /\ disk'[dir].user = user /\ disk'[dir].pass = pass
    <3>. DEFINE file == [disk[dir] EXCEPT !.user = user, !.pass = pass]
    <3>1. disk[dir] \in File
      BY <2>3 DEF AuthInv
    <3>2. file \in File /\ file.user = user /\ file.pass = pass
      BY <2>3, <3>1 DEF File
    <3>3. disk' = [disk EXCEPT ![dir] = file]
      BY <2>1, <2>3 DEF AuthInv
    <3>. HIDE DEF file
    <3>. QED  BY <2>3, <3>2, <3>3 DEF AuthInv
  <2>7. SignUpProgress(disk'[dir], thread')
    BY <2>2, <2>6 DEF SignUpProgress
  <2>8. AttemptInv'
    BY <1>3, <2>1, <2>2, <2>3, <2>7 DEF AttemptInv
  <2>9. \A d \in Dirs : ~SigningUp(d)' => disk'[d] = disk[d] /\ ~SigningUp(d)
    BY <2>1, <2>2, <2>5 DEF SigningUp, AuthInv
  <2>. QED  BY <1>0, <2>1, <2>6, <2>8, <2>9 DEF AuthInv
<1>. QED  BY <1>1, <1>2, <1>3

LEMMA SubmitPasswordKeeps ==
  ASSUME AuthInv, NEW pass \in Passwords, SubmitPassword(pass)
  PROVE  AuthInv'
<1>. DEFINE profile == profiles[selected]
<1>1. AttemptAuth("SignIn", profile.username, pass, profile.name)
  BY DEF SubmitPassword
<1>2. thread = None /\ cut' = cut /\ typed' = typed /\ screen' = "ProfileSelect"
  BY DEF SubmitPassword, AuthInv
<1>. HIDE DEF profile
<1>. QED  BY <1>1, <1>2, AttemptStarts DEF AuthInv

LEMMA SubmitFormKeeps ==
  ASSUME AuthInv, NEW user \in Users, NEW pass \in Passwords, SubmitForm(user, pass)
  PROVE  AuthInv'
<1>. DEFINE dir == IF data_dir = None THEN user ELSE data_dir
<1>1. AttemptAuth(auth_mode, user, pass, dir)
  BY DEF SubmitForm
<1>2. thread = None /\ cut' = cut /\ typed' = typed \union {user} /\ screen = "Auth" /\ screen' = "Auth"
  BY DEF SubmitForm, AuthInv
<1>3. dir \in typed' \union {Default}
  BY <1>2 DEF AuthInv
<1>. HIDE DEF dir
<1>4. typed' \subseteq Users /\ auth_mode \in {"SignIn", "SignUp"}
  BY <1>2 DEF AuthInv
<1>. QED  BY <1>1, <1>2, <1>3, <1>4, AttemptStarts

-----------------------------------------------------------------------------
(* The thread that connects. *)

\* A step of the thread that changes no files but its directory's, where a sign-in leaves a
\* profile that is usable.
LEMMA ThreadKeeps ==
  ASSUME AuthInv, thread # None, NEW stage \in Stages,
         ThreadMoves(stage),
         UNCHANGED OutsideThread,
         disk' \in [Dirs -> File],
         \A d \in Dirs \ {thread.dir} : disk'[d] = disk[d],
         AttemptInv',
         thread.existing = TRUE =>
           \A d \in Dirs \ cut : d = thread.dir /\ disk'[d].user # None => Usable(disk'[d])
  PROVE  AuthInv'
<1>. USE UsersAssumption
<1>1. /\ screen' = screen /\ auth_loading' = auth_loading /\ data_dir' = data_dir
      /\ typed' = typed /\ cut' = cut /\ auth_mode' = auth_mode
  BY DEF OutsideThread
<1>2. /\ thread'.dir = thread.dir /\ thread'.existing = thread.existing /\ thread'.stage = stage
      /\ thread'.user = thread.user /\ thread'.pass = thread.pass
  BY DEF AuthInv, AttemptInv, ThreadMoves
<1>3. auth_loading = TRUE
  BY DEF AuthInv
<1>4. ASSUME NEW d \in Dirs \ cut, disk'[d].user # None, ~SigningUp(d)' PROVE Usable(disk'[d])
  <2>1. CASE d # thread.dir
    BY <1>4, <2>1 DEF AuthInv, SigningUp
  <2>2. CASE d = thread.dir /\ thread.existing = TRUE
    BY <1>4, <2>2
  <2>3. CASE d = thread.dir /\ thread.existing = FALSE
    <3>1. thread' \in Attempts
      BY <1>1, <1>2, <2>3 DEF AttemptInv, Attempts, Dirs
    <3>2. thread' # None
      BY <3>1
    <3>. QED  BY <1>2, <1>4, <2>3, <3>2 DEF SigningUp
  <2>. QED  BY <2>1, <2>2, <2>3 DEF AuthInv, AttemptInv
<1>. QED  BY <1>1, <1>3, <1>4 DEF AuthInv

\* The record of the attempt after a step to another stage.
LEMMA MovedThread ==
  ASSUME AuthInv, thread # None, NEW stage, ThreadMoves(stage)
  PROVE  /\ thread' = [stage |-> stage, existing |-> thread.existing, user |-> thread.user,
                       pass |-> thread.pass, dir |-> thread.dir]
         /\ thread.existing \in BOOLEAN /\ was_signup = ~thread.existing
         /\ data_dir = thread.dir /\ thread.pass \in Passwords
BY DEF AuthInv, AttemptInv, ThreadMoves

\* A step that leaves the files alone, and whose new stage asks no more of them than they hold.
LEMMA StageMoves ==
  ASSUME AuthInv, thread # None, NEW stage \in Stages, ThreadMoves(stage),
         UNCHANGED OutsideThread, UNCHANGED disk,
         thread.existing = TRUE => stage \notin {"register", "save", "upload"},
         thread.existing = FALSE => stage # "load" /\ SignUpProgress(disk[thread.dir], thread')
  PROVE  AuthInv'
<1>1. AttemptInv'
  <2>1. typed' = typed /\ was_signup' = was_signup /\ data_dir' = data_dir /\ disk' = disk
    BY DEF OutsideThread
  <2>2. /\ thread' = [stage |-> stage, existing |-> thread.existing, user |-> thread.user,
                      pass |-> thread.pass, dir |-> thread.dir]
        /\ was_signup = ~thread.existing /\ data_dir = thread.dir /\ thread.pass \in Passwords
    BY MovedThread
  <2>3. /\ thread'.stage = stage /\ thread'.existing = thread.existing /\ thread'.user = thread.user
        /\ thread'.pass = thread.pass /\ thread'.dir = thread.dir
    BY <2>2
  <2>4. thread' = [stage |-> thread'.stage, existing |-> thread'.existing, user |-> thread'.user,
                   pass |-> thread'.pass, dir |-> thread'.dir]
    BY <2>2, <2>3
  <2>5. AttemptInv
    BY DEF AuthInv
  <2>6. CASE thread.existing = TRUE
    BY <2>1, <2>2, <2>3, <2>4, <2>5, <2>6 DEF AttemptInv
  <2>7. CASE thread.existing = FALSE
    BY <2>1, <2>2, <2>3, <2>4, <2>5, <2>7 DEF AttemptInv
  <2>. QED  BY <2>5, <2>6, <2>7 DEF AttemptInv
<1>2. disk' \in [Dirs -> File]
  BY DEF AuthInv
<1>3. thread.existing = TRUE =>
        \A d \in Dirs \ cut : d = thread.dir /\ disk'[d].user # None => Usable(disk'[d])
  BY DEF AuthInv, SigningUp
<1>. QED  BY <1>1, <1>2, <1>3, ThreadKeeps

LEMMA SignUpIn ==
  ASSUME AuthInv, thread # None, thread.existing = FALSE
  PROVE  /\ thread.dir \in Dirs /\ thread.user \in Users /\ thread.stage # "load"
         /\ SignUpProgress(disk[thread.dir], thread) /\ disk[thread.dir] \in File
BY DEF AuthInv, AttemptInv, Dirs

LEMMA OpenStorageKeeps == AuthInv /\ OpenStorage => AuthInv'
<1>. SUFFICES ASSUME AuthInv, OpenStorage PROVE AuthInv'
  OBVIOUS
<1>1. thread # None /\ thread.stage = "open" /\ UNCHANGED OutsideThread
  BY DEF OpenStorage, AtStage
<1>2. CASE disk[thread.dir].key \in {None, thread.pass}
  <2>1. disk' = [disk EXCEPT ![thread.dir].key = thread.pass] /\ ThreadMoves("connect")
    BY <1>2 DEF OpenStorage
  <2>. DEFINE file == [disk[thread.dir] EXCEPT !.key = thread.pass]
  <2>2. /\ thread' = [stage |-> "connect", existing |-> thread.existing, user |-> thread.user,
                      pass |-> thread.pass, dir |-> thread.dir]
        /\ thread.existing \in BOOLEAN /\ was_signup = ~thread.existing
        /\ data_dir = thread.dir /\ thread.pass \in Passwords
    BY <1>1, <2>1, MovedThread
  <2>3. disk' = [disk EXCEPT ![thread.dir] = file]
    BY <2>1
  <2>4. thread.dir \in Dirs => /\ file \in File /\ file.key = thread.pass
                               /\ file.user = disk[thread.dir].user
                               /\ file.pass = disk[thread.dir].pass
                               /\ file.account = disk[thread.dir].account
                               /\ file.keys = disk[thread.dir].keys
    BY <2>2 DEF AuthInv, File
  <2>. HIDE DEF file
  <2>5. disk' \in [Dirs -> File] /\ \A d \in Dirs \ {thread.dir} : disk'[d] = disk[d]
    BY <2>3, <2>4 DEF AuthInv
  <2>6. thread.dir \in Dirs => disk'[thread.dir] = file
    BY <2>3 DEF AuthInv
  <2>7. typed' = typed /\ was_signup' = was_signup /\ data_dir' = data_dir
    BY <1>1 DEF OutsideThread
  <2>8. ASSUME thread.existing = FALSE PROVE SignUpProgress(disk'[thread.dir], thread')
    BY <1>1, <2>2, <2>4, <2>6, <2>8, SignUpIn DEF SignUpProgress
  <2>9. AttemptInv'
    BY <1>1, <2>2, <2>4, <2>6, <2>7, <2>8 DEF AuthInv, AttemptInv
  <2>10. ASSUME thread.existing = TRUE, NEW d \in Dirs \ cut, d = thread.dir, disk'[d].user # None
         PROVE  Usable(disk'[d])
    <3>1. Usable(disk[d])
      BY <2>4, <2>6, <2>10 DEF AuthInv, SigningUp
    <3>2. disk[d].pass = thread.pass
      BY <1>1, <2>10 DEF AuthInv, AttemptInv
    <3>. QED  BY <2>4, <2>6, <2>10, <3>1, <3>2 DEF Usable
  <2>. QED  BY <1>1, <2>1, <2>5, <2>9, <2>10, ThreadKeeps DEF Stages
<1>3. CASE disk[thread.dir].key \notin {None, thread.pass}
  <2>1. ThreadMoves("failed") /\ UNCHANGED disk
    BY <1>3 DEF OpenStorage
  <2>2. ASSUME thread.existing = FALSE PROVE SignUpProgress(disk[thread.dir], thread')
    <3>1. thread'.user = thread.user /\ thread'.pass = thread.pass /\ thread'.stage = "failed"
      BY <1>1, <2>1, MovedThread
    <3>2. SignUpProgress(disk[thread.dir], thread)
      BY <1>1, <2>2, SignUpIn
    <3>. QED  BY <3>1, <3>2 DEF SignUpProgress
  <2>3. "failed" \in Stages /\ "failed" # "load" /\ "failed" \notin {"register", "save", "upload"}
    BY DEF Stages
  <2>. QED  BY <1>1, <2>1, <2>2, <2>3, StageMoves
<1>. QED  BY <1>2, <1>3

LEMMA ConnectTransportKeeps == AuthInv /\ ConnectTransport => AuthInv'
<1>. SUFFICES ASSUME AuthInv, ConnectTransport PROVE AuthInv'
  OBVIOUS
<1>1. thread # None /\ thread.stage = "connect" /\ UNCHANGED OutsideThread /\ UNCHANGED disk
  BY DEF ConnectTransport, AtStage
<1>2. PICK stage : /\ ThreadMoves(stage)
                   /\ stage \in {IF thread.existing THEN "load" ELSE "register", "failed", "crashed",
                                "spinning"}
  BY DEF ConnectTransport
<1>3. stage \in Stages
  BY <1>2 DEF Stages
<1>4. thread.existing \in BOOLEAN
  BY <1>1, <1>2, MovedThread
<1>5. ASSUME thread.existing = FALSE
      PROVE  stage # "load" /\ SignUpProgress(disk[thread.dir], thread')
  <2>1. SignUpProgress(disk[thread.dir], thread)
    BY <1>1, <1>5, SignUpIn
  <2>2. /\ thread'.user = thread.user /\ thread'.pass = thread.pass /\ thread'.stage = stage
        /\ stage \in {"register", "failed", "crashed", "spinning"}
    BY <1>1, <1>2, <1>5, MovedThread
  <2>. QED  BY <1>1, <2>1, <2>2 DEF SignUpProgress
<1>6. thread.existing = TRUE => stage \notin {"register", "save", "upload"}
  BY <1>2
<1>. QED  BY <1>1, <1>2, <1>3, <1>5, <1>6, StageMoves

\* A step of a sign-up: the files of its directory, and its stage.
LEMMA SignUpMoves ==
  ASSUME AuthInv, thread # None, thread.existing = FALSE,
         NEW stage \in Stages, stage # "load", ThreadMoves(stage), UNCHANGED OutsideThread,
         NEW file \in File, disk' = [disk EXCEPT ![thread.dir] = file],
         SignUpProgress(file, [thread EXCEPT !.stage = stage])
  PROVE  AuthInv'
<1>1. /\ thread' = [stage |-> stage, existing |-> FALSE, user |-> thread.user,
                    pass |-> thread.pass, dir |-> thread.dir]
      /\ was_signup = ~thread.existing /\ data_dir = thread.dir /\ thread.pass \in Passwords
  BY MovedThread
<1>2. /\ thread'.stage = stage /\ thread'.existing = FALSE /\ thread'.user = thread.user
      /\ thread'.pass = thread.pass /\ thread'.dir = thread.dir
  BY <1>1
<1>3. thread' = [stage |-> thread'.stage, existing |-> thread'.existing, user |-> thread'.user,
                 pass |-> thread'.pass, dir |-> thread'.dir]
  BY <1>1, <1>2
<1>4. typed' = typed /\ was_signup' = was_signup /\ data_dir' = data_dir
  BY DEF OutsideThread
<1>5. thread.dir \in Dirs /\ thread.user \in Users /\ thread.dir \in typed \union {Default}
  BY SignUpIn DEF AuthInv, AttemptInv
<1>6. disk' \in [Dirs -> File] /\ disk'[thread.dir] = file
      /\ \A d \in Dirs \ {thread.dir} : disk'[d] = disk[d]
  BY <1>5 DEF AuthInv
<1>7. SignUpProgress(disk'[thread'.dir], thread')
  BY <1>2, <1>6 DEF ThreadMoves
<1>8. AttemptInv'
  BY <1>1, <1>2, <1>3, <1>4, <1>5, <1>7 DEF AttemptInv
<1>. QED  BY <1>6, <1>8, ThreadKeeps

LEMMA RegisterKeeps == AuthInv /\ Register => AuthInv'
<1>. SUFFICES ASSUME AuthInv, Register PROVE AuthInv'
  OBVIOUS
<1>1. thread # None /\ thread.stage = "register" /\ UNCHANGED OutsideThread /\ UNCHANGED disk
  BY DEF Register, AtStage
<1>2. PICK stage \in {"save", "failed"} : ThreadMoves(stage)
  BY DEF Register
<1>3. thread.existing = FALSE
  BY <1>1 DEF AuthInv, AttemptInv
<1>4. stage \in Stages /\ stage # "load"
  BY DEF Stages
<1>5. SignUpProgress(disk[thread.dir], thread')
  <2>1. thread'.user = thread.user /\ thread'.pass = thread.pass /\ thread'.stage = stage
    BY <1>1, <1>2, MovedThread
  <2>2. SignUpProgress(disk[thread.dir], thread)
    BY <1>1, <1>3, SignUpIn
  <2>. QED  BY <1>1, <2>1, <2>2 DEF SignUpProgress
<1>. QED  BY <1>1, <1>2, <1>3, <1>4, <1>5, StageMoves

LEMMA SaveAccountKeeps == AuthInv /\ SaveAccount => AuthInv'
<1>. SUFFICES ASSUME AuthInv, SaveAccount PROVE AuthInv'
  OBVIOUS
<1>. DEFINE file == [disk[thread.dir] EXCEPT !.account = thread.user, !.keys = FALSE]
<1>1. /\ thread # None /\ thread.stage = "save" /\ UNCHANGED OutsideThread
      /\ ThreadMoves("upload") /\ disk' = [disk EXCEPT ![thread.dir] = file]
  BY DEF SaveAccount, AtStage
<1>2. thread.existing = FALSE
  BY <1>1 DEF AuthInv, AttemptInv
<1>3. /\ disk[thread.dir] \in File /\ thread.user \in Users
      /\ SignUpProgress(disk[thread.dir], thread)
  BY <1>1, <1>2, SignUpIn
<1>4. /\ file \in File /\ file.user = disk[thread.dir].user /\ file.pass = disk[thread.dir].pass
      /\ file.key = disk[thread.dir].key /\ file.account = thread.user
  BY <1>3 DEF File
<1>. DEFINE after == [thread EXCEPT !.stage = "upload"]
<1>5. after.user = thread.user /\ after.pass = thread.pass /\ after.stage = "upload"
  BY <1>1, MovedThread DEF ThreadMoves
<1>. HIDE DEF file, after
<1>6. SignUpProgress(file, after)
  BY <1>1, <1>3, <1>4, <1>5 DEF SignUpProgress
<1>7. "upload" \in Stages /\ "upload" # "load"
  BY DEF Stages
<1>. QED  BY <1>1, <1>2, <1>4, <1>6, <1>7, SignUpMoves DEF after

LEMMA UploadKeysKeeps == AuthInv /\ UploadKeys => AuthInv'
<1>. SUFFICES ASSUME AuthInv, UploadKeys PROVE AuthInv'
  OBVIOUS
<1>1. thread # None /\ thread.stage = "upload" /\ UNCHANGED OutsideThread
  BY DEF UploadKeys, AtStage
<1>2. thread.existing = FALSE
  BY <1>1 DEF AuthInv, AttemptInv
<1>3. /\ disk[thread.dir] \in File /\ thread.user \in Users
      /\ SignUpProgress(disk[thread.dir], thread)
  BY <1>1, <1>2, SignUpIn
<1>4. CASE disk' = [disk EXCEPT ![thread.dir].keys = TRUE] /\ ThreadMoves("start")
  <2>. DEFINE file == [disk[thread.dir] EXCEPT !.keys = TRUE]
              after == [thread EXCEPT !.stage = "start"]
  <2>1. disk' = [disk EXCEPT ![thread.dir] = file]
    BY <1>4
  <2>2. /\ file \in File /\ file.user = disk[thread.dir].user /\ file.pass = disk[thread.dir].pass
        /\ file.key = disk[thread.dir].key /\ file.account = disk[thread.dir].account
        /\ file.keys = TRUE
    BY <1>3 DEF File
  <2>3. after.user = thread.user /\ after.pass = thread.pass /\ after.stage = "start"
    BY <1>1, <1>4, MovedThread DEF ThreadMoves
  <2>. HIDE DEF file, after
  <2>4. SignUpProgress(file, after)
    BY <1>1, <1>3, <2>2, <2>3 DEF SignUpProgress
  <2>5. "start" \in Stages /\ "start" # "load"
    BY DEF Stages
  <2>. QED  BY <1>1, <1>2, <1>4, <2>1, <2>2, <2>4, <2>5, SignUpMoves DEF after
<1>5. CASE UNCHANGED disk /\ ThreadMoves("failed")
  <2>1. thread'.user = thread.user /\ thread'.pass = thread.pass /\ thread'.stage = "failed"
    BY <1>1, <1>5, MovedThread
  <2>2. SignUpProgress(disk[thread.dir], thread')
    BY <1>3, <2>1 DEF SignUpProgress
  <2>3. "failed" \in Stages /\ "failed" # "load"
    BY DEF Stages
  <2>. QED  BY <1>1, <1>2, <1>5, <2>2, <2>3, StageMoves
<1>. QED  BY <1>4, <1>5 DEF UploadKeys

LEMMA LoadAccountKeeps == AuthInv /\ LoadAccount => AuthInv'
<1>. SUFFICES ASSUME AuthInv, LoadAccount PROVE AuthInv'
  OBVIOUS
<1>1. thread # None /\ thread.stage = "load" /\ UNCHANGED OutsideThread /\ UNCHANGED disk
  BY DEF LoadAccount, AtStage
<1>2. PICK stage \in {"failed", "start"} : ThreadMoves(stage)
  BY DEF LoadAccount
<1>3. thread.existing = TRUE
  BY <1>1 DEF AuthInv, AttemptInv
<1>4. stage \in Stages /\ stage \notin {"register", "save", "upload"}
  BY DEF Stages
<1>. QED  BY <1>1, <1>2, <1>3, <1>4, StageMoves

LEMMA StartClientKeeps == AuthInv /\ StartClient => AuthInv'
<1>. SUFFICES ASSUME AuthInv, StartClient PROVE AuthInv'
  OBVIOUS
<1>1. thread # None /\ thread.stage = "start" /\ UNCHANGED OutsideThread /\ UNCHANGED disk
  BY DEF StartClient, AtStage
<1>2. PICK stage \in {"failed", "connected"} : ThreadMoves(stage)
  BY DEF StartClient
<1>3. stage \in Stages /\ stage # "load" /\ stage \notin {"register", "save", "upload"}
  BY DEF Stages
<1>4. ASSUME thread.existing = FALSE PROVE SignUpProgress(disk[thread.dir], thread')
  <2>1. thread'.user = thread.user /\ thread'.pass = thread.pass /\ thread'.stage = stage
    BY <1>1, <1>2, MovedThread
  <2>2. SignUpProgress(disk[thread.dir], thread)
    BY <1>1, <1>4, SignUpIn
  <2>. QED  BY <1>1, <2>1, <2>2 DEF SignUpProgress
<1>. QED  BY <1>1, <1>2, <1>3, <1>4, StageMoves

-----------------------------------------------------------------------------
(* The end of an attempt. *)

LEMMA AuthSucceedsKeeps == AuthInv /\ AuthSucceeds => AuthInv'
<1>. SUFFICES ASSUME AuthInv, AuthSucceeds PROVE AuthInv'
  OBVIOUS
<1>1. thread # None /\ thread.stage = "connected"
  BY DEF AuthSucceeds, AtStage
<1>2. /\ disk' = disk /\ auth_loading' = FALSE /\ auth_mode' = auth_mode /\ thread' = None
      /\ typed' = typed /\ cut' = cut /\ screen' = "Conversations"
  BY DEF AuthSucceeds
<1>3. ASSUME NEW d \in Dirs \ cut, disk[d].user # None PROVE Usable(disk[d])
  <2>1. CASE SigningUp(d)
    BY <1>1, <2>1, SignUpIn DEF SigningUp, SignUpProgress, Usable
  <2>. QED  BY <1>3, <2>1 DEF AuthInv
<1>. QED  BY <1>2, <1>3 DEF AuthInv

LEMMA AuthFailsKeeps == AuthInv /\ AuthFails => AuthInv'
<1>. SUFFICES ASSUME AuthInv, AuthFails PROVE AuthInv'
  OBVIOUS
<1>1. thread # None
  BY DEF AuthFails, AtStage
<1>2. /\ auth_loading' = FALSE /\ auth_mode' = auth_mode /\ thread' = None
      /\ typed' = typed /\ cut' = cut /\ data_dir' = data_dir
      /\ screen' = "Auth" => screen = "Auth"
      /\ disk' = IF was_signup THEN WithoutCredentials(data_dir) ELSE disk
  BY DEF AuthFails
<1>3. was_signup = ~thread.existing /\ data_dir = thread.dir /\ thread.existing \in BOOLEAN
  BY <1>1 DEF AuthInv, AttemptInv
<1>4. CASE thread.existing = TRUE
  <2>1. \A d : ~SigningUp(d)
    BY <1>4 DEF SigningUp
  <2>. QED  BY <1>2, <1>3, <1>4, <2>1 DEF AuthInv
<1>5. CASE thread.existing = FALSE
  <2>. DEFINE file == [disk[thread.dir] EXCEPT !.user = None, !.pass = None]
  <2>1. thread.dir \in Dirs /\ disk[thread.dir] \in File
    BY <1>1, <1>5, SignUpIn
  <2>2. file \in File /\ file.user = None
    BY <2>1 DEF File
  <2>3. disk' = [disk EXCEPT ![thread.dir] = file]
    BY <1>2, <1>3, <1>5, <2>1 DEF WithoutCredentials, AuthInv
  <2>. HIDE DEF file
  <2>4. disk' \in [Dirs -> File] /\ disk'[thread.dir].user = None
        /\ \A d \in Dirs \ {thread.dir} : disk'[d] = disk[d] /\ ~SigningUp(d)
    BY <2>1, <2>2, <2>3 DEF AuthInv, SigningUp
  <2>. QED  BY <1>2, <2>4 DEF AuthInv
<1>. QED  BY <1>3, <1>4, <1>5

LEMMA AuthCrashesKeeps == AuthInv /\ AuthCrashes => AuthInv'
<1>. SUFFICES ASSUME AuthInv, AuthCrashes PROVE AuthInv'
  OBVIOUS
<1>1. thread # None
  BY DEF AuthCrashes, AtStage
<1>2. /\ auth_loading' = FALSE /\ auth_mode' = auth_mode /\ thread' = None
      /\ typed' = typed /\ data_dir' = data_dir /\ disk' = disk
      /\ screen' = "Auth" => screen = "Auth"
      /\ cut' = IF was_signup THEN cut \union {data_dir} ELSE cut
  BY DEF AuthCrashes
<1>3. was_signup = ~thread.existing /\ data_dir = thread.dir /\ thread.existing \in BOOLEAN
  BY <1>1 DEF AuthInv, AttemptInv
<1>4. \A d \in Dirs \ cut' : d \in Dirs \ cut /\ ~SigningUp(d)
  BY <1>2, <1>3 DEF SigningUp
<1>. QED  BY <1>2, <1>4 DEF AuthInv

LEMMA ProcessEndsKeeps == AuthInv /\ ProcessEnds => AuthInv'
<1>. SUFFICES ASSUME AuthInv, ProcessEnds PROVE AuthInv'
  OBVIOUS
<1>1. /\ auth_loading' = FALSE /\ auth_mode' = "SignUp" /\ thread' = None /\ disk' = disk
      /\ typed' = {} /\ data_dir' = None
      /\ cut' = IF thread # None /\ ~thread.existing THEN cut \union {thread.dir} ELSE cut
  BY DEF ProcessEnds, StartOver
<1>2. \A d \in Dirs \ cut' : d \in Dirs \ cut /\ ~SigningUp(d)
  BY <1>1 DEF SigningUp
<1>. QED  BY <1>1, <1>2 DEF AuthInv

-----------------------------------------------------------------------------
(* The whole interface. *)

AuthFrame ==
  /\ UNCHANGED <<disk, auth_loading, auth_mode, data_dir, was_signup, thread, typed, cut>>
  /\ screen' = "Auth" => screen = "Auth"

LEMMA KeysKeep == AuthInv /\ AuthKey => AuthInv'
<1>. SUFFICES ASSUME AuthInv, AuthKey PROVE AuthInv'
  OBVIOUS
<1>1. CASE SelectProfile
  BY <1>1, FrameKeeps DEF SelectProfile
<1>2. CASE ChooseProfile
  BY <1>2, FrameKeeps DEF ChooseProfile
<1>3. CASE LeavePassword
  BY <1>3, FrameKeeps DEF LeavePassword
<1>4. CASE LeaveAuth
  BY <1>4, FrameKeeps DEF LeaveAuth
<1>. QED  BY <1>1, <1>2, <1>3, <1>4, NewAccountKeeps, DeleteProfileKeeps, SubmitPasswordKeeps,
             SubmitFormKeeps DEF AuthKey

LEMMA ThreadStepKeeps == AuthInv /\ ThreadStep => AuthInv'
BY OpenStorageKeeps, ConnectTransportKeeps, RegisterKeeps, SaveAccountKeeps, UploadKeysKeeps,
   LoadAccountKeeps, StartClientKeeps DEF ThreadStep

\* The screens of the conversations, the chat worker and the event channel leave the profiles
\* and the attempt alone.
LEMMA ChatFrame == Continue \/ ChatKeys \/ Worker \/ Emit \/ PollSdkEvents => AuthFrame
<1>1. Worker => UNCHANGED authVars
  BY DEF Worker, StoreMessage, StoreMember, StoreConversation, StoreEdit, StoreDeletion, StoreStatus, Writes
<1>2. Emit \/ PollSdkEvents => UNCHANGED authVars
  BY DEF Emit, PollSdkEvents
<1>3. \A s \in ChatScreens : ScreenIs(s) => AuthFrame
  BY DEF ScreenIs, AuthFrame, ChatScreens
<1>4. Continue => AuthFrame
  BY <1>3 DEF Continue, ShowConversations, LoadMessages, ChatScreens, authVars, AuthFrame
<1>5. \A c \in Convs : CreateGroup(c) \/ (\E u \in Peers : CreateConversation(c, u)) => AuthFrame
  BY <1>3 DEF CreateGroup, CreateConversation, StartConversation, ChatScreens
<1>6. SelectConversation \/ OpenConversation \/ DeleteConversation => UNCHANGED authVars
  BY DEF SelectConversation, OpenConversation, DeleteConversation
<1>7. OpenForm \/ LeaveForm \/ (\E u \in Peers : AddToGroup(u)) \/ SelectPeer \/ AskMember
        => UNCHANGED authVars
  BY DEF OpenForm, LeaveForm, AddToGroup, SelectPeer, AskMember, OnlyForms
<1>8. StartPicking \/ MovePick \/ StartEditing \/ AskDelete \/ StartReply \/ KeepMessage
        \/ CancelEditing \/ CancelReply => UNCHANGED authVars
  BY DEF StartPicking, MovePick, StartEditing, AskDelete, StartReply, KeepMessage, CancelEditing,
         CancelReply, OnlyModes
<1>9. DeleteMessage \/ EditMessage \/ SendMessage \/ (\E u \in Peers : AddMember(u))
        => UNCHANGED authVars
  BY DEF DeleteMessage, EditMessage, SendMessage, AddMember
<1>10. LeaveChat \/ OpenInfo \/ CloseInfo => AuthFrame
  BY <1>3 DEF LeaveChat, OpenInfo, CloseInfo, ChatScreens
<1>11. UNCHANGED authVars => AuthFrame
  BY DEF authVars, AuthFrame
<1>. QED  BY <1>1, <1>2, <1>4, <1>5, <1>6, <1>7, <1>8, <1>9, <1>10, <1>11 DEF ChatKeys

LEMMA StepKeeps == AuthInv /\ [Next]_vars => AuthInv'
<1>. SUFFICES ASSUME AuthInv, [Next]_vars PROVE AuthInv'
  OBVIOUS
<1>1. AuthFrame => AuthInv'
  BY FrameKeeps DEF AuthFrame
<1>2. CASE UNCHANGED vars
  BY <1>1, <1>2 DEF vars, authVars, AuthFrame
<1>3. CASE ProfileKey
  BY <1>3, KeysKeep DEF ProfileKey
<1>4. CASE ConnectStep
  BY <1>4, ThreadStepKeeps DEF ConnectStep
<1>5. CASE ConnectEnds
  BY <1>5, AuthFailsKeeps, AuthCrashesKeeps DEF ConnectEnds
<1>6. CASE LogIn
  BY <1>6, AuthSucceedsKeeps DEF LogIn
<1>7. CASE Restart
  BY <1>7, ProcessEndsKeeps DEF Restart
<1>. QED  BY <1>1, <1>2, <1>3, <1>4, <1>5, <1>6, <1>7, ChatFrame DEF Next

LEMMA Invariant == Spec => []AuthInv
BY InitAuth, StepKeeps, PTL DEF Spec

-----------------------------------------------------------------------------
(* The theorems. *)

\* A profile on disk can be used: unless its sign-up was cut short by the end of the program
\* or of its thread, its database opens with the password that its credentials accept, holds
\* the account of its user, and the server has that account's keys, whatever attempts failed
\* before in this directory or another (attempt_auth, SyncBridge::connect, poll_auth_completion).
THEOREM ProfilesStayUsable == Spec => []ProfilesAreUsable
<1>1. AuthInv => ProfilesAreUsable
  BY DEF AuthInv, ProfilesAreUsable, HasCredentials, Usable, SigningUp
<1>. QED  BY <1>1, Invariant, PTL

\* A sign-up writes only in a directory that the user named on this visit of the form, or in
\* "default": no profile tried or opened before lends its directory to it (attempt_auth's
\* data_dir, which outlives the attempts).
THEOREM SignUpNeverStrays == Spec => []SignUpStaysInPlace
<1>1. AuthInv => SignUpStaysInPlace
  BY DEF AuthInv, AttemptInv, SignUpStaysInPlace
<1>. QED  BY <1>1, Invariant, PTL

-----------------------------------------------------------------------------
(* The conversations: the inductive invariant.                               *)

\* what the worker has to tell, in the order in which the interface will hear it
Queue == IF pending = None THEN events ELSE Append(events, pending)

OfConversation(e, c, type) == e.type = type /\ e.conv = c
Receives(e, m) == e.type = "received" /\ e.about = m
Rewrites(e, m) == e.type \in {"edited", "deleted"} /\ e.about = m
Concerns(e, m) == Receives(e, m) \/ Rewrites(e, m)

\* the text that the message of an event has once the event is handled
TextOf(e) == CASE e.type = "received" -> "old" [] e.type = "edited" -> "new" [] e.type = "deleted" -> "deleted"

\* an event of q after the k-th, or anywhere when k is 0
Arrives(q, m) == \E j \in DOMAIN q : Receives(q[j], m)
Tells(q, k, type, c) == \E j \in DOMAIN q : k < j /\ OfConversation(q[j], c, type)
Rewritten(q, k, m) == \E j \in DOMAIN q : k < j /\ Rewrites(q[j], m)
ArrivesListed(q, m) ==
  \E i, j \in DOMAIN q : i < j /\ OfConversation(q[i], ConvOf(m), "created") /\ Receives(q[j], m)

Expected(m) == IF store[m] = None THEN "deleted" ELSE store[m].text
Own(m) == store[m] # None /\ store[m].status = "own"

StoreInv ==
  /\ convs \subseteq Convs /\ IsFiniteSet(convs)
  /\ members \in [Convs -> SUBSET Peers] /\ next \in [Convs -> Nat]
  /\ store \in [Msgs -> Rows \union {None}]
  /\ \A m \in Msgs : store[m] # None => ConvOf(m) \in convs /\ m[2] <= next[ConvOf(m)]
  /\ \A c \in convs : members[c] # {}

QueueInv ==
  /\ events \in Seq(Events) /\ Len(events) <= Cap /\ pending \in Events \union {None}
  /\ \A k \in DOMAIN Queue : Queue[k].type = "created" => Queue[k].about # {}
  /\ \A k \in DOMAIN Queue, m \in Msgs :
       Concerns(Queue[k], m) =>
         /\ Queue[k].conv = ConvOf(m) /\ m[2] <= next[ConvOf(m)] /\ ~Own(m)
         /\ TextOf(Queue[k]) = Expected(m) \/ m \in excused \/ Rewritten(Queue, k, m)

\* nothing is open and nothing listed
Blank ==
  /\ entries = <<>> /\ sel = 1 /\ current = None /\ shown = <<>>
  /\ editing = None /\ confirm = None /\ reply = None /\ form = "none" /\ group = {}

InChat == screen \in {"Chat", "ConversationInfo"}
Loaded == screen \in ChatScreens /\ pc # "list"

Entries == [conv : Convs, unread : Nat, peers : SUBSET Peers]
Copies == [msg : Msgs, mine : BOOLEAN, text : {"old", "new", "deleted"}]
ShownMsgs == {shown[i].msg : i \in DOMAIN shown}
Mine(m) == \E i \in DOMAIN shown : shown[i].msg = m /\ shown[i].mine

ScreenInv ==
  /\ entries \in Seq(Entries) /\ shown \in Seq(Copies) /\ sel \in Nat \ {0} /\ peer \in Nat \ {0}
  /\ group \subseteq Peers /\ current \in Convs \union {None}
  /\ pc \in {"idle", "list", "load"}
  /\ screen \in {"ProfileSelect", "Auth", "Conversations", "Chat", "ConversationInfo"}
  /\ screen \in ChatScreens => thread = None
  /\ screen \notin ChatScreens => pc = "idle"
  /\ ~Loaded => Blank
  /\ pc # "idle" => screen = "Conversations" /\ form = "none"
  /\ pc = "load" => current # None
  /\ screen = "Conversations" =>
       /\ shown = <<>> /\ editing = None /\ confirm = None /\ reply = None
       /\ pc # "load" => current = None
       /\ form \in {"none", "new", "group"}
  /\ screen = "Chat" => form = "none"
  /\ screen = "ConversationInfo" => form \in {"none", "member"} /\ editing = None /\ confirm = None
  /\ InChat => current # None
  /\ current # None => current \in Listed

ModesInv ==
  /\ \A m \in ShownMsgs : ConvOf(m) = current /\ m[2] <= next[ConvOf(m)]
  /\ \A m \in ShownMsgs : Mine(m) =>
       /\ store[m] = None \/ Own(m)
       /\ \A k \in DOMAIN Queue : ~Concerns(Queue[k], m)
  /\ {editing, confirm} \ {None} \subseteq {m \in ShownMsgs : Mine(m)}
  /\ {reply} \ {None} \subseteq ShownMsgs

\* unless a conversation was deleted while the event of its creation was under way
ListInv ==
  /\ \A k \in DOMAIN Queue : Queue[k].type = "created" =>
       /\ Queue[k].conv \in convs /\ Queue[k].about \subseteq members[Queue[k].conv]
       /\ \/ Queue[k].conv \in Listed \/ Queue[k].about = members[Queue[k].conv]
          \/ Tells(Queue, k, "added", Queue[k].conv)
  /\ \A i, j \in DOMAIN entries : entries[i].conv = entries[j].conv => i = j
  /\ \A i \in DOMAIN entries :
       /\ entries[i].conv \in convs /\ entries[i].peers # {}
       /\ entries[i].peers \subseteq members[entries[i].conv]
       /\ entries[i].peers = members[entries[i].conv] \/ Tells(Queue, 0, "added", entries[i].conv)
  /\ entries = <<>> => sel = 1
  /\ entries # <<>> => sel \in DOMAIN entries
  /\ screen = "ConversationInfo" =>
       \E i \in DOMAIN entries :
         entries[i].conv = current /\ peer \in 1 .. Cardinality(entries[i].peers)

\* the unread messages that no event will count
Due(c) == {m \in Unread(c) \ excused : ~Arrives(Queue, m)}

Counted ==
  /\ \A c \in convs : c \in Listed \/ Tells(Queue, 0, "created", c)
  /\ \A c \in Convs \ Listed : \A m \in Unread(c) \ excused : ArrivesListed(Queue, m)
  /\ \A c \in Convs : \A i \in DOMAIN entries :
       entries[i].conv = c /\ c # current => Cardinality(Due(c)) <= entries[i].unread

CountInv == Loaded => Counted

Shows ==
  /\ \A m \in Msgs : m \in Stored(current) \ excused => m \in ShownMsgs \/ Arrives(Queue, m)
  /\ \A m \in Msgs, i \in DOMAIN shown :
       shown[i].msg = m =>
         \/ \E j \in 1 .. (i - 1) : shown[j].msg = m
         \/ shown[i].text = Expected(m) \/ m \in excused \/ Rewritten(Queue, 0, m)

ChatInv == InChat => Shows

ConvInv ==
  StoreInv /\ QueueInv /\ ScreenInv /\ ModesInv /\ (~haunted => ListInv) /\ CountInv /\ ChatInv

-----------------------------------------------------------------------------
(* Enumerations and sequences.                                               *)

\* induction over the naturals, for a set
LEMMA SetInduction ==
  ASSUME NEW S \in SUBSET Nat, 0 \in S, \A n \in S : n + 1 \in S
  PROVE  S = Nat
<1>. DEFINE T == Nat \ S
            Below == OpToRel(<, Nat)
<1>1. SUFFICES ASSUME T # {} PROVE FALSE
  OBVIOUS
<1>2. IsWellFoundedOn(Below, Nat)
  BY NatLessThanWellFounded
<1>3. T \subseteq Nat
  OBVIOUS
<1>4. \A x, y \in Nat : x < y => <<x, y>> \in Below
  BY DEF OpToRel
<1>. HIDE DEF T, Below
<1>5. PICK x \in T : \A y \in T : <<y, x>> \notin Below
  BY <1>1, <1>2, <1>3, WFMin
<1>6. x \in Nat /\ x # 0 /\ x - 1 \in Nat /\ x \notin S
  BY <1>5 DEF T
<1>7. x - 1 \in T
  BY <1>6 DEF T
<1>8. x - 1 < x
  BY <1>6
<1>. QED  BY <1>4, <1>5, <1>6, <1>7, <1>8

Increasing(f, n) == \A i, j \in 1 .. n : i < j => f[i] < f[j]

\* every set of numbers up to n can be enumerated from the lowest on
LEMMA Enumerable ==
  ASSUME NEW n \in Nat, NEW T \in SUBSET (1 .. n)
  PROVE  \E f \in [1 .. Cardinality(T) -> T] : Increasing(f, Cardinality(T))
<1>. DEFINE Has(k) == \A U \in SUBSET (1 .. k) : \E f \in [1 .. Cardinality(U) -> U] : Increasing(f, Cardinality(U))
            S == {k \in Nat : Has(k)}
<1>1. 0 \in S
  <2>1. ASSUME NEW U \in SUBSET (1 .. 0)
        PROVE  \E f \in [1 .. Cardinality(U) -> U] : Increasing(f, Cardinality(U))
    <3>0. U = {}
      OBVIOUS
    <3>1. U = {} /\ Cardinality(U) = 0
      BY <3>0, FS_EmptySet
    <3>2. [i \in 1 .. 0 |-> i] \in [1 .. 0 -> U] /\ Increasing([i \in 1 .. 0 |-> i], 0)
      BY DEF Increasing
    <3>. QED  BY <3>1, <3>2
  <2>. QED  BY <2>1
<1>2. ASSUME NEW k \in S PROVE k + 1 \in S
  <2>1. ASSUME NEW U \in SUBSET (1 .. k + 1)
        PROVE  \E f \in [1 .. Cardinality(U) -> U] : Increasing(f, Cardinality(U))
    <3>. DEFINE V == U \ {k + 1}
    <3>0. V \in SUBSET (1 .. k) /\ k \in Nat /\ IsFiniteSet(1 .. k)
      BY FS_Interval
    <3>1. V \in SUBSET (1 .. k) /\ IsFiniteSet(V) /\ k \in Nat
      BY <3>0, FS_Subset, Zenon
    <3>2. PICK g \in [1 .. Cardinality(V) -> V] : Increasing(g, Cardinality(V))
      BY <3>1
    <3>3. CASE k + 1 \notin U
      <4>1. V = U
        BY <3>3
      <4>. HIDE DEF V
      <4>. QED  BY <3>2, <4>1
    <3>4. CASE k + 1 \in U
      <4>. DEFINE c == Cardinality(V)
                  f == [i \in 1 .. c + 1 |-> IF i = c + 1 THEN k + 1 ELSE g[i]]
      <4>1. U = V \union {k + 1} /\ k + 1 \notin V
        BY <3>4
      <4>. HIDE DEF V
      <4>2. Cardinality(U) = c + 1 /\ c \in Nat
        BY <3>1, <4>1, FS_AddElement, FS_CardinalityType
      <4>. HIDE DEF c
      <4>3. g \in [1 .. c -> V] /\ Increasing(g, c) /\ \A v \in V : v \in Nat /\ v < k + 1
        BY <3>1, <3>2 DEF c
      <4>4. f \in [1 .. c + 1 -> U]
        <5>1. ASSUME NEW i \in 1 .. c + 1 PROVE f[i] \in U
          <6>1. CASE i = c + 1
            BY <3>4, <6>1
          <6>2. CASE i # c + 1
            <7>1. i \in 1 .. c
              BY <4>2, <6>2
            <7>2. g[i] \in V
              BY <4>3, <7>1
            <7>. QED  BY <4>1, <6>2, <7>2
          <6>. QED  BY <6>1, <6>2
        <5>. QED  BY <5>1
      <4>5. Increasing(f, c + 1)
        <5>. SUFFICES ASSUME NEW i \in 1 .. c + 1, NEW j \in 1 .. c + 1, i < j PROVE f[i] < f[j]
          BY DEF Increasing
        <5>1. i \in 1 .. c /\ f[i] = g[i]
          BY <4>2
        <5>2. CASE j = c + 1
          BY <4>3, <5>1, <5>2
        <5>3. CASE j # c + 1
          BY <4>2, <4>3, <5>1, <5>3 DEF Increasing
        <5>. QED  BY <5>2, <5>3
      <4>. QED  BY <4>2, <4>4, <4>5
    <3>. QED  BY <3>3, <3>4
  <2>2. Has(k + 1)
    BY <2>1
  <2>. QED  BY <2>2
<1>. HIDE DEF Has
<1>3. S = Nat
  BY <1>1, <1>2, SetInduction
<1>. QED  BY <1>3 DEF Has

\* InOrder enumerates all of a set of numbers, each once
LEMMA InOrderAll ==
  ASSUME NEW n \in Nat, NEW T \in SUBSET (1 .. n)
  PROVE  /\ Cardinality(T) \in Nat /\ InOrder(T) \in [1 .. Cardinality(T) -> T]
         /\ \A t \in T : \E i \in 1 .. Cardinality(T) : InOrder(T)[i] = t
<1>. DEFINE c == Cardinality(T)
<1>1. IsFiniteSet(T) /\ c \in Nat
  <2>1. IsFiniteSet(1 .. n)
    BY FS_Interval
  <2>2. IsFiniteSet(T)
    BY <2>1, FS_Subset
  <2>. QED  BY <2>2, FS_CardinalityType
<1>2. InOrder(T) \in [1 .. c -> T] /\ Increasing(InOrder(T), c)
  <2>1. PICK f \in [1 .. c -> T] : Increasing(f, c)
    BY Enumerable
  <2>2. f \in [1 .. c -> T] /\ \A i, j \in DOMAIN f : i < j => f[i] < f[j]
    BY <2>1 DEF Increasing
  <2>3. InOrder(T) \in [1 .. c -> T] /\ \A i, j \in DOMAIN InOrder(T) : i < j => InOrder(T)[i] < InOrder(T)[j]
    BY <2>2 DEF InOrder
  <2>4. DOMAIN InOrder(T) = 1 .. c
    BY <2>3
  <2>. QED  BY <2>3, <2>4 DEF Increasing
<1>. HIDE DEF c
<1>3. InOrder(T) \in Injection(1 .. c, T)
  <2>1. ASSUME NEW i \in 1 .. c, NEW j \in 1 .. c, i # j PROVE InOrder(T)[i] # InOrder(T)[j]
    <3>. DEFINE f == InOrder(T)
    <3>1. f[i] \in T /\ f[j] \in T
      BY <1>2
    <3>2. f[i] \in Nat /\ f[j] \in Nat
      <4>1. \A t \in T : t \in Nat
        OBVIOUS
      <4>. HIDE DEF f
      <4>. QED  BY <3>1, <4>1
    <3>3. i < j \/ j < i
      BY <1>1, <2>1
    <3>4. i < j => f[i] < f[j]
      BY <1>2 DEF Increasing
    <3>5. j < i => f[j] < f[i]
      BY <1>2 DEF Increasing
    <3>. HIDE DEF f
    <3>. QED  BY <3>2, <3>3, <3>4, <3>5 DEF f
  <2>. QED  BY <1>2, <2>1 DEF Injection, IsInjective
<1>4. Cardinality(1 .. c) = c
  BY <1>1, FS_Interval
<1>5. InOrder(T) \in Surjection(1 .. c, T)
  BY <1>1, <1>3, <1>4, FS_Injection DEF c
<1>. QED  BY <1>1, <1>2, <1>5 DEF Surjection, c

\* SetToSeq lists every element of a finite set, once
LEMMA SetToSeqAll ==
  ASSUME NEW S, IsFiniteSet(S)
  PROVE  /\ Cardinality(S) \in Nat /\ SetToSeq(S) \in [1 .. Cardinality(S) -> S]
         /\ \A i, j \in 1 .. Cardinality(S) : SetToSeq(S)[i] = SetToSeq(S)[j] => i = j
         /\ \A x \in S : \E i \in 1 .. Cardinality(S) : SetToSeq(S)[i] = x
<1>. DEFINE c == Cardinality(S)
<1>1. c \in Nat /\ ExistsBijection(1 .. c, S)
  BY FS_CardinalityType
<1>2. PICK f \in [1 .. c -> S] : IsInjective(f)
  BY <1>1 DEF ExistsBijection, Bijection, Injection
<1>3. SetToSeq(S) \in [1 .. c -> S] /\ IsInjective(SetToSeq(S))
  BY <1>2 DEF SetToSeq
<1>. HIDE DEF c
<1>4. SetToSeq(S) \in Injection(1 .. c, S)
  BY <1>3 DEF Injection
<1>5. Cardinality(1 .. c) = c
  BY <1>1, FS_Interval
<1>6. SetToSeq(S) \in Surjection(1 .. c, S)
  BY <1>1, <1>4, <1>5, FS_Injection DEF c
<1>. QED  BY <1>1, <1>3, <1>6 DEF Surjection, IsInjective, c

\* removing the i-th element moves the later ones down by one
LEMMA RemoveAtIs ==
  ASSUME NEW S, NEW s \in Seq(S), NEW i \in 1 .. Len(s)
  PROVE  /\ RemoveAt(s, i) \in Seq(S) /\ Len(RemoveAt(s, i)) = Len(s) - 1
         /\ \A j \in 1 .. Len(s) - 1 : RemoveAt(s, i)[j] = s[IF j < i THEN j ELSE j + 1]
<1>. DEFINE a == SubSeq(s, 1, i - 1)  b == SubSeq(s, i + 1, Len(s))
<1>1. /\ a \in Seq(S) /\ Len(a) = i - 1 /\ \A j \in 1 .. i - 1 : a[j] = s[j]
  OBVIOUS
<1>2. /\ b \in Seq(S) /\ Len(b) = Len(s) - i /\ \A j \in 1 .. Len(s) - i : b[j] = s[i + j]
  OBVIOUS
<1>3. RemoveAt(s, i) = a \o b
  BY DEF RemoveAt
<1>. HIDE DEF a, b
<1>4. a \o b \in Seq(S) /\ Len(a \o b) = Len(s) - 1
  <2>1. a \in Seq(S) /\ b \in Seq(S)
    BY <1>1, <1>2
  <2>2. a \o b \in Seq(S)
    BY <2>1
  <2>3. Len(a \o b) = Len(a) + Len(b)
    BY <2>1
  <2>. QED  BY <1>1, <1>2, <2>2, <2>3
<1>5. ASSUME NEW j \in 1 .. Len(s) - 1 PROVE (a \o b)[j] = s[IF j < i THEN j ELSE j + 1]
  <2>1. CASE j < i
    BY <1>1, <1>2, <2>1
  <2>2. CASE ~(j < i)
    <3>1. (a \o b)[j] = b[j - (i - 1)]
      BY <1>1, <1>2, <2>2
    <3>2. j - (i - 1) \in 1 .. Len(s) - i /\ i + (j - (i - 1)) = j + 1
      BY <2>2
    <3>3. b[j - (i - 1)] = s[i + (j - (i - 1))]
      BY <1>2, <3>2
    <3>. QED  BY <2>2, <3>1, <3>2, <3>3
  <2>. QED  BY <2>1, <2>2
<1>. QED  BY <1>3, <1>4, <1>5

\* FirstCopy is the first of the copies of a message
LEMMA FirstOf ==
  ASSUME shown \in Seq(Copies), NEW m, NEW i \in 1 .. Len(shown), shown[i].msg = m
  PROVE  LET f == FirstCopy(m)
         IN f \in 1 .. Len(shown) /\ shown[f].msg = m /\ \A j \in 1 .. (f - 1) : shown[j].msg # m
<1>. DEFINE s == shown
            I == {j \in 1 .. Len(s) : s[j].msg = m}
<1>1. I # {} /\ I \subseteq Nat
  OBVIOUS
<1>2. FirstCopy(m) = Min(I)
  BY <1>1 DEF FirstCopy, SelectInSeq
<1>3. Min(I) \in I /\ \A j \in I : Min(I) <= j
  <2>. DEFINE Below == OpToRel(<, Nat)
  <2>. HIDE DEF I
  <2>1. IsWellFoundedOn(Below, Nat)
    BY NatLessThanWellFounded
  <2>2. \A x, y \in Nat : x < y => <<x, y>> \in Below
    BY DEF OpToRel
  <2>. HIDE DEF Below
  <2>3. PICK x \in I : \A y \in I : <<y, x>> \notin Below
    BY <1>1, <2>1, WFMin
  <2>4. ASSUME NEW y \in I PROVE x <= y
    <3>1. x \in Nat /\ y \in Nat /\ ~(y < x)
      BY <1>1, <2>2, <2>3
    <3>. QED  BY <3>1
  <2>. QED  BY <2>3, <2>4 DEF Min
<1>4. Min(I) \in 1 .. Len(s) /\ s[Min(I)].msg = m
  BY <1>3
<1>5. ASSUME NEW j \in 1 .. (Min(I) - 1) PROVE s[j].msg # m
  <2>1. j \in 1 .. Len(s) /\ ~(Min(I) <= j)
    BY <1>4
  <2>. QED  BY <1>3, <2>1
<1>. QED  BY <1>2, <1>4, <1>5

-----------------------------------------------------------------------------
(* The queue. *)

LEMMA QueueType ==
  ASSUME QueueInv
  PROVE  Queue \in Seq(Events)
<1>. USE ChatAssumption
<1>1. CASE pending = None
  BY <1>1 DEF QueueInv, Queue
<1>2. CASE pending # None
  <2>1. pending \in Events /\ events \in Seq(Events)
    BY <1>2 DEF QueueInv
  <2>. QED  BY <1>2, <2>1 DEF Queue
<1>. QED  BY <1>1, <1>2

\* what the events are about
LEMMA EventIs ==
  ASSUME NEW e \in Events
  PROVE  /\ e.conv \in Convs /\ e.type \in {"received", "edited", "deleted", "created", "added", "status"}
         /\ e.type \in {"received", "edited", "deleted"} => e.about \in Msgs
         /\ e.type = "created" => e.about \subseteq Peers
BY DEF Events

LEMMA EventIn ==
  ASSUME NEW c \in Convs
  PROVE  /\ \A m \in Msgs, t \in {"received", "edited", "deleted"} : Event(t, c, m) \in Events
         /\ \A p \in SUBSET Peers : Event("created", c, p) \in Events
         /\ Event("added", c, None) \in Events /\ Event("status", c, None) \in Events
BY DEF Events, Event

\* What a queue tells once an event joined it,
LEMMA AppendTells ==
  ASSUME NEW q \in Seq(Events), NEW e \in Events
  PROVE  LET r == Append(q, e) IN
         /\ DOMAIN r = DOMAIN q \union {Len(q) + 1} /\ r[Len(q) + 1] = e
         /\ \A k \in DOMAIN q : k \in DOMAIN r /\ r[k] = q[k] /\ k < Len(q) + 1
         /\ \A m : Arrives(q, m) => Arrives(r, m)
         /\ \A m : Receives(e, m) => Arrives(r, m)
         /\ \A k, type, c : Tells(q, k, type, c) => Tells(r, k, type, c)
         /\ \A k \in DOMAIN q \union {0} : \A type, c : OfConversation(e, c, type) => Tells(r, k, type, c)
         /\ \A k, m : Rewritten(q, k, m) => Rewritten(r, k, m)
         /\ \A k \in DOMAIN q \union {0} : \A m : Rewrites(e, m) => Rewritten(r, k, m)
         /\ \A m : ArrivesListed(q, m) => ArrivesListed(r, m)
         /\ \A m : Tells(q, 0, "created", ConvOf(m)) /\ Receives(e, m) => ArrivesListed(r, m)
<1>. DEFINE r == Append(q, e)
<1>1. /\ DOMAIN r = DOMAIN q \union {Len(q) + 1} /\ r[Len(q) + 1] = e
      /\ \A k \in DOMAIN q : k \in DOMAIN r /\ r[k] = q[k] /\ k < Len(q) + 1
  OBVIOUS
<1>2. Len(q) + 1 \in DOMAIN r /\ 0 < Len(q) + 1
  OBVIOUS
<1>. HIDE DEF r
<1>3. \A m : Arrives(q, m) => Arrives(r, m)
  BY <1>1 DEF Arrives
<1>4. \A m : Receives(e, m) => Arrives(r, m)
  BY <1>1, <1>2 DEF Arrives
<1>5. \A k, type, c : Tells(q, k, type, c) => Tells(r, k, type, c)
  BY <1>1 DEF Tells
<1>6. \A k \in DOMAIN q \union {0} : \A type, c : OfConversation(e, c, type) => Tells(r, k, type, c)
  BY <1>1, <1>2 DEF Tells
<1>7. \A k, m : Rewritten(q, k, m) => Rewritten(r, k, m)
  BY <1>1 DEF Rewritten
<1>8. \A k \in DOMAIN q \union {0} : \A m : Rewrites(e, m) => Rewritten(r, k, m)
  BY <1>1, <1>2 DEF Rewritten
<1>9. \A m : ArrivesListed(q, m) => ArrivesListed(r, m)
  BY <1>1 DEF ArrivesListed
<1>10. \A m : Tells(q, 0, "created", ConvOf(m)) /\ Receives(e, m) => ArrivesListed(r, m)
  BY <1>1, <1>2 DEF ArrivesListed, Tells
<1>. QED  BY <1>1, <1>3, <1>4, <1>5, <1>6, <1>7, <1>8, <1>9, <1>10 DEF r

\* and once its first event is handled.
LEMMA TailTells ==
  ASSUME NEW q \in Seq(Events), q # <<>>
  PROVE  LET r == Tail(q)  e == Head(q) IN
         /\ r \in Seq(Events) /\ e \in Events /\ 1 \in DOMAIN q /\ e = q[1]
         /\ \A k \in DOMAIN r : k \in Nat /\ k + 1 \in DOMAIN q /\ r[k] = q[k + 1]
         /\ \A m : Arrives(q, m) => Arrives(r, m) \/ Receives(e, m)
         /\ \A k \in Nat : \A type, c : Tells(q, k + 1, type, c) => Tells(r, k, type, c)
         /\ \A type, c : Tells(q, 0, type, c) => Tells(r, 0, type, c) \/ OfConversation(e, c, type)
         /\ \A k \in Nat : \A m : Rewritten(q, k + 1, m) => Rewritten(r, k, m)
         /\ \A m : Rewritten(q, 0, m) => Rewritten(r, 0, m) \/ Rewrites(e, m)
         /\ \A m : ArrivesListed(q, m) =>
              ArrivesListed(r, m) \/ (OfConversation(e, ConvOf(m), "created") /\ Arrives(r, m))
<1>. DEFINE r == Tail(q)  e == Head(q)
<1>1. /\ r \in Seq(Events) /\ e \in Events /\ e = q[1]
      /\ \A k \in DOMAIN r : k \in Nat /\ k + 1 \in DOMAIN q /\ r[k] = q[k + 1]
      /\ \A k \in DOMAIN q : k \in Nat /\ k # 0 /\ (k = 1 \/ (k - 1 \in DOMAIN r /\ r[k - 1] = q[k]))
      /\ 1 \in DOMAIN q
  OBVIOUS
<1>. HIDE DEF r, e
<1>2. \A m : Arrives(q, m) => Arrives(r, m) \/ Receives(e, m)
  BY <1>1 DEF Arrives
<1>3. ASSUME NEW k \in Nat, NEW type, NEW c, Tells(q, k + 1, type, c) PROVE Tells(r, k, type, c)
  <2>1. PICK j \in DOMAIN q : k + 1 < j /\ OfConversation(q[j], c, type)
    BY <1>3 DEF Tells
  <2>2. j - 1 \in DOMAIN r /\ r[j - 1] = q[j] /\ k < j - 1
    BY <1>1, <2>1
  <2>. QED  BY <2>1, <2>2 DEF Tells
<1>4. ASSUME NEW type, NEW c, Tells(q, 0, type, c)
      PROVE  Tells(r, 0, type, c) \/ OfConversation(e, c, type)
  <2>1. PICK j \in DOMAIN q : OfConversation(q[j], c, type)
    BY <1>4 DEF Tells
  <2>2. j # 1 => j - 1 \in DOMAIN r /\ r[j - 1] = q[j] /\ 0 < j - 1
    BY <1>1
  <2>. QED  BY <1>1, <2>1, <2>2 DEF Tells
<1>5. ASSUME NEW k \in Nat, NEW m, Rewritten(q, k + 1, m) PROVE Rewritten(r, k, m)
  <2>1. PICK j \in DOMAIN q : k + 1 < j /\ Rewrites(q[j], m)
    BY <1>5 DEF Rewritten
  <2>2. j - 1 \in DOMAIN r /\ r[j - 1] = q[j] /\ k < j - 1
    BY <1>1, <2>1
  <2>. QED  BY <2>1, <2>2 DEF Rewritten
<1>6. ASSUME NEW m, Rewritten(q, 0, m) PROVE Rewritten(r, 0, m) \/ Rewrites(e, m)
  <2>1. PICK j \in DOMAIN q : Rewrites(q[j], m)
    BY <1>6 DEF Rewritten
  <2>2. j # 1 => j - 1 \in DOMAIN r /\ r[j - 1] = q[j] /\ 0 < j - 1
    BY <1>1
  <2>. QED  BY <1>1, <2>1, <2>2 DEF Rewritten
<1>7. ASSUME NEW m, ArrivesListed(q, m)
      PROVE  ArrivesListed(r, m) \/ (OfConversation(e, ConvOf(m), "created") /\ Arrives(r, m))
  <2>1. PICK i \in DOMAIN q, j \in DOMAIN q :
          i < j /\ OfConversation(q[i], ConvOf(m), "created") /\ Receives(q[j], m)
    BY <1>7 DEF ArrivesListed
  <2>2. j - 1 \in DOMAIN r /\ r[j - 1] = q[j]
    BY <1>1, <2>1
  <2>3. i # 1 => i - 1 \in DOMAIN r /\ r[i - 1] = q[i] /\ i - 1 < j - 1
    BY <1>1, <2>1
  <2>. QED  BY <1>1, <2>1, <2>2, <2>3 DEF ArrivesListed, Arrives
<1>. QED  BY <1>1, <1>2, <1>3, <1>4, <1>5, <1>6, <1>7 DEF r, e

\* an empty queue tells nothing
LEMMA EmptyTells ==
  /\ \A k, type, c : ~Tells(<<>>, k, type, c)
  /\ \A m : ~Arrives(<<>>, m)
  /\ \A k, m : ~Rewritten(<<>>, k, m)
  /\ DOMAIN <<>> = {}
BY DEF Tells, Arrives, Rewritten

\* the four ways in which the queue changes
Emitted(e) == pending = None /\ pending' = e /\ events' = events
Polled == events # <<>> /\ events' = Tail(events) /\ pending' = pending
Dropped == events' = <<>> /\ pending' \in {pending, None}

\* the worker's event is the last of the queue
LEMMA QueueWrites ==
  ASSUME QueueInv, NEW e \in Events, Emitted(e)
  PROVE  Queue' = Append(Queue, e)
BY ChatAssumption DEF Emitted, Queue

\* sending the pending event leaves the queue as it is
LEMMA QueueMoves ==
  ASSUME QueueInv, Emit
  PROVE  Queue' = Queue /\ events' \in Seq(Events) /\ Len(events') <= Cap /\ pending' = None
<1>1. pending \in Events /\ events \in Seq(Events)
  BY DEF QueueInv, Emit
<1>2. Len(events') = Len(events) + 1 /\ events' \in Seq(Events)
  BY <1>1 DEF Emit
<1>3. Len(events) \in Nat /\ Len(events) < Cap /\ Cap \in Nat
  BY <1>1, ChatAssumption DEF Emit
<1>. QED  BY <1>2, <1>3 DEF Emit, Queue

\* handling an event takes the first of the queue
LEMMA QueueShrinks ==
  ASSUME QueueInv, Polled
  PROVE  Queue # <<>> /\ Head(Queue) = Head(events) /\ Queue' = Tail(Queue)
<1>1. events \in Seq(Events) /\ events # <<>>
  BY DEF QueueInv, Polled
<1>2. CASE pending = None
  BY <1>1, <1>2 DEF Polled, Queue
<1>3. CASE pending # None
  <2>1. pending \in Events
    BY <1>3 DEF QueueInv
  <2>2. Append(events, pending) # <<>> /\ Head(Append(events, pending)) = Head(events)
    BY <1>1, <2>1
  <2>3. Tail(Append(events, pending)) = Append(Tail(events), pending)
    BY <1>1, <2>1
  <2>. QED  BY <1>3, <2>2, <2>3 DEF Polled, Queue
<1>. QED  BY <1>2, <1>3

\* what is left is the event about to be sent, the last
LEMMA QueueDrops ==
  ASSUME QueueInv, Dropped
  PROVE  /\ \A k \in DOMAIN Queue' : k = 1 /\ Len(Queue) \in DOMAIN Queue /\ Queue'[k] = Queue[Len(Queue)]
         /\ \A k, m : k = Len(Queue) => ~Rewritten(Queue, k, m)
         /\ \A k, type, c : k = Len(Queue) => ~Tells(Queue, k, type, c)
         /\ \A k \in DOMAIN Queue : k = Len(Queue) \/ k < Len(Queue)
<1>0. Queue \in Seq(Events) /\ DOMAIN Queue = 1 .. Len(Queue) /\ Len(Queue) \in Nat
  BY QueueType
<1>1. CASE pending' = None
  BY <1>0, <1>1 DEF Dropped, Queue, Rewritten, Tells
<1>2. CASE pending' # None
  <2>1. pending \in Events /\ events \in Seq(Events) /\ pending # None /\ pending' = pending
    BY <1>2 DEF QueueInv, Dropped
  <2>2. Queue' = <<pending>>
    BY <1>2, <2>1 DEF Queue, Dropped
  <2>3. Queue = Append(events, pending)
    BY <2>1 DEF Queue
  <2>4. Len(Queue) = Len(events) + 1 /\ Queue[Len(Queue)] = pending
    BY <2>1, <2>3
  <2>. QED  BY <1>0, <2>2, <2>4 DEF Rewritten, Tells
<1>. QED  BY <1>1, <1>2

\* what is said of m stays as true as it was
Undisturbed(m) ==
  /\ next[ConvOf(m)] <= next'[ConvOf(m)]
  /\ Own(m)' => Own(m)
  /\ Expected(m)' = Expected(m) \/ m \in excused'

\* a message is one of a conversation, and has a number in it
LEMMA MsgIs ==
  ASSUME NEW m \in Msgs
  PROVE  ConvOf(m) \in Convs /\ m[2] \in 1 .. PerConv /\ m = <<ConvOf(m), m[2]>> /\ m[2] \in Nat /\ m # None
BY ChatAssumption DEF Msgs, ConvOf

LEMMA StillKnown ==
  ASSUME StoreInv, StoreInv', NEW m \in Msgs, Undisturbed(m), m[2] <= next[ConvOf(m)]
  PROVE  m[2] <= next'[ConvOf(m)]
<1>1. ConvOf(m) \in Convs /\ m[2] \in Nat
  BY MsgIs
<1>2. next[ConvOf(m)] \in Nat /\ next'[ConvOf(m)] \in Nat
  BY <1>1 DEF StoreInv
<1>. QED  BY <1>1, <1>2 DEF Undisturbed

\* The cell at k' of a queue was at k, and what comes after it is still to come.
LEMMA CellKept ==
  ASSUME QueueInv, StoreInv, StoreInv', excused \subseteq excused',
         NEW k \in DOMAIN Queue, NEW j, NEW m \in Msgs, Undisturbed(m),
         Queue'[j] = Queue[k],
         Rewritten(Queue, k, m) => Rewritten(Queue', j, m),
         Concerns(Queue'[j], m)
  PROVE  /\ Queue'[j].conv = ConvOf(m) /\ m[2] <= next'[ConvOf(m)] /\ ~Own(m)'
         /\ TextOf(Queue'[j]) = Expected(m)' \/ m \in excused' \/ Rewritten(Queue', j, m)
<1>1. /\ Queue[k].conv = ConvOf(m) /\ m[2] <= next[ConvOf(m)] /\ ~Own(m)
      /\ TextOf(Queue[k]) = Expected(m) \/ m \in excused \/ Rewritten(Queue, k, m)
  BY DEF QueueInv
<1>2. m[2] <= next'[ConvOf(m)]
  BY <1>1, StillKnown
<1>. QED  BY <1>1, <1>2 DEF Undisturbed

\* The queue keeps its invariant: when no event comes or goes,
LEMMA QueueSame ==
  ASSUME QueueInv, StoreInv, StoreInv', excused \subseteq excused', \A m \in Msgs : Undisturbed(m),
         UNCHANGED <<events, pending>> \/ Emit
  PROVE  QueueInv' /\ Queue' = Queue
<1>1. /\ Queue' = Queue /\ events' \in Seq(Events) /\ Len(events') <= Cap
      /\ pending' \in Events \union {None}
  <2>1. CASE UNCHANGED <<events, pending>>
    BY <2>1 DEF QueueInv, Queue
  <2>2. CASE Emit
    BY <2>2, QueueMoves
  <2>. QED  BY <2>1, <2>2
<1>2. ASSUME NEW k \in DOMAIN Queue', NEW m \in Msgs, Concerns(Queue'[k], m)
      PROVE  /\ Queue'[k].conv = ConvOf(m) /\ m[2] <= next'[ConvOf(m)] /\ ~Own(m)'
             /\ TextOf(Queue'[k]) = Expected(m)' \/ m \in excused' \/ Rewritten(Queue', k, m)
  <2>1. k \in DOMAIN Queue /\ Queue'[k] = Queue[k] /\ (Rewritten(Queue, k, m) => Rewritten(Queue', k, m))
    BY <1>1
  <2>. QED  BY <1>2, <2>1, CellKept
<1>3. \A k \in DOMAIN Queue' : Queue'[k].type = "created" => Queue'[k].about # {}
  BY <1>1 DEF QueueInv
<1>. QED  BY <1>1, <1>2, <1>3 DEF QueueInv

\* when its first event is handled,
LEMMA QueueTail ==
  ASSUME QueueInv, StoreInv, StoreInv', excused \subseteq excused', \A m \in Msgs : Undisturbed(m),
         Polled
  PROVE  QueueInv'
<1>1. Queue \in Seq(Events) /\ Queue # <<>> /\ Queue' = Tail(Queue)
  BY QueueType, QueueShrinks
<1>2. events' \in Seq(Events) /\ Len(events') <= Cap /\ pending' \in Events \union {None}
  <2>1. events \in Seq(Events) /\ events # <<>> /\ Len(events) <= Cap /\ Cap \in Nat
    BY ChatAssumption DEF QueueInv, Polled
  <2>2. Tail(events) \in Seq(Events) /\ Len(Tail(events)) = Len(events) - 1 /\ Len(events) \in Nat
    BY <2>1
  <2>. QED  BY <2>1, <2>2 DEF QueueInv, Polled
<1>3. ASSUME NEW k \in DOMAIN Queue', NEW m \in Msgs, Concerns(Queue'[k], m)
      PROVE  /\ Queue'[k].conv = ConvOf(m) /\ m[2] <= next'[ConvOf(m)] /\ ~Own(m)'
             /\ TextOf(Queue'[k]) = Expected(m)' \/ m \in excused' \/ Rewritten(Queue', k, m)
  <2>1. /\ k + 1 \in DOMAIN Queue /\ Queue'[k] = Queue[k + 1]
        /\ Rewritten(Queue, k + 1, m) => Rewritten(Queue', k, m)
    BY <1>1, TailTells
  <2>. QED  BY <1>3, <2>1, CellKept
<1>4. \A k \in DOMAIN Queue' : Queue'[k].type = "created" => Queue'[k].about # {}
  BY <1>1, TailTells DEF QueueInv
<1>. QED  BY <1>2, <1>3, <1>4 DEF QueueInv

\* and when the channel is emptied.
LEMMA QueueDropped ==
  ASSUME QueueInv, StoreInv, StoreInv', excused \subseteq excused', \A m \in Msgs : Undisturbed(m),
         Dropped
  PROVE  QueueInv'
<1>1. events' \in Seq(Events) /\ Len(events') <= Cap /\ pending' \in Events \union {None}
  BY ChatAssumption DEF QueueInv, Dropped
<1>2. ASSUME NEW k \in DOMAIN Queue', NEW m \in Msgs, Concerns(Queue'[k], m)
      PROVE  /\ Queue'[k].conv = ConvOf(m) /\ m[2] <= next'[ConvOf(m)] /\ ~Own(m)'
             /\ TextOf(Queue'[k]) = Expected(m)' \/ m \in excused' \/ Rewritten(Queue', k, m)
  <2>. DEFINE n == Len(Queue)
  <2>1. n \in DOMAIN Queue /\ Queue'[k] = Queue[n] /\ ~Rewritten(Queue, n, m)
    BY QueueDrops
  <2>. HIDE DEF n
  <2>. QED  BY <1>2, <2>1, CellKept
<1>3. \A k \in DOMAIN Queue' : Queue'[k].type = "created" => Queue'[k].about # {}
  BY QueueDrops DEF QueueInv
<1>. QED  BY <1>1, <1>2, <1>3 DEF QueueInv

\* An event joins the queue, true to the database as it is after the write; what it makes
\* untrue it rewrites.
LEMMA QueueJoined ==
  ASSUME QueueInv, StoreInv, StoreInv', excused \subseteq excused', NEW e \in Events, Emitted(e),
         \A m \in Msgs : Undisturbed(m)
           \/ (next[ConvOf(m)] <= next'[ConvOf(m)] /\ (Own(m)' => Own(m)) /\ Rewrites(e, m))
           \/ next[ConvOf(m)] < m[2],
         e.type = "created" => e.about # {},
         \A m \in Msgs : Concerns(e, m) =>
           /\ e.conv = ConvOf(m) /\ m[2] <= next'[ConvOf(m)] /\ ~Own(m)'
           /\ TextOf(e) = Expected(m)'
  PROVE  QueueInv' /\ Queue' = Append(Queue, e)
<1>1. Queue \in Seq(Events) /\ Queue' = Append(Queue, e)
  BY QueueType, QueueWrites
<1>2. events' \in Seq(Events) /\ Len(events') <= Cap /\ pending' \in Events \union {None}
  BY DEF QueueInv, Emitted
<1>3. /\ DOMAIN Queue' = DOMAIN Queue \union {Len(Queue) + 1} /\ Queue'[Len(Queue) + 1] = e
      /\ \A k \in DOMAIN Queue : Queue'[k] = Queue[k]
  BY <1>1, AppendTells
<1>4. ASSUME NEW k \in DOMAIN Queue', NEW m \in Msgs, Concerns(Queue'[k], m)
      PROVE  /\ Queue'[k].conv = ConvOf(m) /\ m[2] <= next'[ConvOf(m)] /\ ~Own(m)'
             /\ TextOf(Queue'[k]) = Expected(m)' \/ m \in excused' \/ Rewritten(Queue', k, m)
  <2>1. CASE k = Len(Queue) + 1
    BY <1>3, <1>4, <2>1
  <2>2. CASE k \in DOMAIN Queue /\ Undisturbed(m)
    <3>1. Rewritten(Queue, k, m) => Rewritten(Queue', k, m)
      BY <1>1, AppendTells
    <3>. QED  BY <1>3, <1>4, <2>2, <3>1, CellKept
  <2>3. CASE k \in DOMAIN Queue /\ ~Undisturbed(m)
    <3>1. /\ Queue[k].conv = ConvOf(m) /\ m[2] <= next[ConvOf(m)] /\ ~Own(m)
      BY <1>3, <1>4, <2>3 DEF QueueInv
    <3>2. m[2] \in Nat /\ next[ConvOf(m)] \in Nat /\ next'[ConvOf(m)] \in Nat
      BY MsgIs DEF StoreInv
    <3>3. next[ConvOf(m)] <= next'[ConvOf(m)] /\ (Own(m)' => Own(m)) /\ Rewrites(e, m)
      BY <2>3, <3>1, <3>2
    <3>4. Rewritten(Queue', k, m)
      BY <1>1, <2>3, <3>3, AppendTells
    <3>5. m[2] <= next'[ConvOf(m)]
      BY <3>1, <3>2, <3>3
    <3>. QED  BY <1>3, <2>3, <3>1, <3>3, <3>4, <3>5
  <2>. QED  BY <1>3, <2>1, <2>2, <2>3
<1>5. \A k \in DOMAIN Queue' : Queue'[k].type = "created" => Queue'[k].about # {}
  BY <1>3 DEF QueueInv
<1>. QED  BY <1>1, <1>2, <1>4, <1>5 DEF QueueInv

-----------------------------------------------------------------------------
(* What the interface reads and rewrites. *)

\* the list that is read from the database has each conversation once, as the database has it
LEMMA ListIs ==
  ASSUME StoreInv
  PROVE  LET l == ListConversations IN
         /\ l \in Seq(Entries) /\ Len(l) = Cardinality(convs) /\ Cardinality(convs) \in Nat
         /\ DOMAIN l = 1 .. Cardinality(convs)
         /\ \A i \in DOMAIN l :
              /\ l[i].conv \in convs
              /\ l[i].unread = Cardinality(Unread(l[i].conv)) /\ l[i].peers = members[l[i].conv]
         /\ \A i, j \in DOMAIN l : l[i].conv = l[j].conv => i = j
         /\ \A c \in convs : \E i \in DOMAIN l : l[i].conv = c
<1>. DEFINE order == SetToSeq(convs)
            n == Cardinality(convs)
            l == [i \in DOMAIN order |-> Entry(order[i], Cardinality(Unread(order[i])), members[order[i]])]
<1>1. /\ n \in Nat /\ order \in [1 .. n -> convs]
      /\ \A i, j \in 1 .. n : order[i] = order[j] => i = j
      /\ \A x \in convs : \E i \in 1 .. n : order[i] = x
  BY SetToSeqAll DEF StoreInv
<1>2. l = ListConversations
  BY DEF ListConversations
<1>3. ASSUME NEW c \in convs PROVE Cardinality(Unread(c)) \in Nat
  <2>0. IsFiniteSet({c}) /\ IsFiniteSet(1 .. PerConv)
    <3>1. PerConv \in Nat
      BY ChatAssumption
    <3>2. IsFiniteSet(1 .. PerConv)
      BY <3>1, FS_Interval
    <3>. QED  BY <3>2, FS_Singleton
  <2>1. IsFiniteSet({c} \X (1 .. PerConv))
    BY <2>0, FS_Product
  <2>2. Unread(c) \subseteq {c} \X (1 .. PerConv)
    BY DEF Unread, Stored, Msgs, ConvOf
  <2>3. IsFiniteSet(Unread(c))
    BY <2>1, <2>2, FS_Subset
  <2>. QED  BY <2>3, FS_CardinalityType
<1>. HIDE DEF order, n
<1>4. DOMAIN l = 1 .. n
  BY <1>1
<1>5. ASSUME NEW i \in 1 .. n
      PROVE  /\ l[i] = Entry(order[i], Cardinality(Unread(order[i])), members[order[i]])
             /\ l[i] \in Entries /\ l[i].conv = order[i] /\ l[i].conv \in convs
             /\ l[i].unread = Cardinality(Unread(l[i].conv)) /\ l[i].peers = members[l[i].conv]
  <2>1. order[i] \in convs
    BY <1>1
  <2>2. Cardinality(Unread(order[i])) \in Nat
    BY <1>3, <2>1
  <2>3. members[order[i]] \in SUBSET Peers /\ order[i] \in Convs
    BY <2>1 DEF StoreInv
  <2>4. l[i] = Entry(order[i], Cardinality(Unread(order[i])), members[order[i]])
    BY <1>4
  <2>. HIDE DEF l
  <2>. QED  BY <2>1, <2>2, <2>3, <2>4 DEF Entry, Entries
<1>6. l \in Seq(Entries) /\ Len(l) = n
  <2>1. l \in [1 .. n -> Entries]
    <3>1. \A i \in DOMAIN l : l[i] \in Entries
      BY <1>4, <1>5
    <3>2. l = [i \in DOMAIN l |-> l[i]]
      OBVIOUS
    <3>. HIDE DEF l
    <3>. QED  BY <1>4, <3>1, <3>2
  <2>. HIDE DEF l
  <2>. QED  BY <1>1, <2>1
<1>. HIDE DEF l
<1>7. \A i, j \in DOMAIN l : l[i].conv = l[j].conv => i = j
  BY <1>1, <1>4, <1>5
<1>8. \A c \in convs : \E i \in DOMAIN l : l[i].conv = c
  BY <1>1, <1>4, <1>5
<1>. QED  BY <1>1, <1>2, <1>4, <1>5, <1>6, <1>7, <1>8 DEF n

\* the messages that are read from the database are those it has of the conversation
LEMMA LoadIs ==
  ASSUME StoreInv, NEW c \in Convs
  PROVE  LET l == GetMessages(c) IN
         /\ l \in Seq(Copies)
         /\ \A i \in DOMAIN l :
              /\ l[i].msg \in Stored(c) /\ l[i].mine = Own(l[i].msg) /\ l[i].text = Expected(l[i].msg)
         /\ \A m \in Stored(c) : \E i \in DOMAIN l : l[i].msg = m
<1>. DEFINE T == {i \in 1 .. PerConv : store[<<c, i>>] # None}
            order == InOrder(T)
            n == Cardinality(T)
            l == [i \in DOMAIN order |->
                    [msg |-> <<c, order[i]>>, mine |-> store[<<c, order[i]>>].status = "own",
                     text |-> store[<<c, order[i]>>].text]]
<1>1. /\ n \in Nat /\ order \in [1 .. n -> T]
      /\ \A t \in T : \E i \in 1 .. n : order[i] = t
  <2>1. T \in SUBSET (1 .. PerConv) /\ PerConv \in Nat
    BY ChatAssumption
  <2>. HIDE DEF T
  <2>. QED  BY <2>1, InOrderAll
<1>2. l = GetMessages(c)
  BY DEF GetMessages
<1>3. ASSUME NEW t \in T
      PROVE  /\ <<c, t>> \in Stored(c) /\ <<c, t>> \in Msgs
             /\ store[<<c, t>>] \in Rows /\ store[<<c, t>>] # None
  <2>1. <<c, t>> \in Msgs /\ ConvOf(<<c, t>>) = c
    BY DEF Msgs, ConvOf
  <2>. QED  BY <2>1 DEF Stored, StoreInv
<1>4. \A m \in Stored(c) : m[2] \in T /\ m = <<c, m[2]>>
  BY MsgIs DEF Stored
<1>. HIDE DEF T, order, n
<1>5. DOMAIN l = 1 .. n
  BY <1>1
<1>6. ASSUME NEW i \in 1 .. n
      PROVE  /\ l[i] \in Copies /\ l[i].msg = <<c, order[i]>> /\ l[i].msg \in Stored(c)
             /\ l[i].mine = Own(l[i].msg) /\ l[i].text = Expected(l[i].msg)
  <2>. DEFINE m == <<c, order[i]>>
  <2>1. order[i] \in T
    BY <1>1
  <2>2. m \in Stored(c) /\ m \in Msgs /\ store[m] \in Rows /\ store[m] # None
    BY <1>3, <2>1
  <2>3. l[i] = [msg |-> m, mine |-> store[m].status = "own", text |-> store[m].text]
    BY <1>5
  <2>. HIDE DEF l, m
  <2>4. store[m].text \in {"old", "new"} /\ (store[m].status = "own") \in BOOLEAN
    BY <2>2 DEF Rows
  <2>5. (store[m].status = "own") = Own(m) /\ store[m].text = Expected(m)
    BY <2>2 DEF Own, Expected
  <2>. QED  BY <2>2, <2>3, <2>4, <2>5 DEF Copies, m
<1>7. l \in Seq(Copies)
  <2>1. l \in [1 .. n -> Copies]
    <3>1. \A i \in DOMAIN l : l[i] \in Copies
      BY <1>5, <1>6
    <3>2. l = [i \in DOMAIN l |-> l[i]]
      OBVIOUS
    <3>. HIDE DEF l
    <3>. QED  BY <1>5, <3>1, <3>2
  <2>. HIDE DEF l
  <2>. QED  BY <1>1, <2>1
<1>. HIDE DEF l
<1>8. ASSUME NEW m \in Stored(c) PROVE \E i \in DOMAIN l : l[i].msg = m
  <2>1. PICK i \in 1 .. n : order[i] = m[2]
    BY <1>1, <1>4
  <2>2. l[i].msg = m
    BY <1>4, <1>6, <2>1
  <2>. QED  BY <1>5, <2>2
<1>. QED  BY <1>2, <1>5, <1>6, <1>7, <1>8

\* only the first copy of the message changes, and only its text
LEMMA RewriteIs ==
  ASSUME NEW m, NEW text \in {"old", "new", "deleted"}, shown \in Seq(Copies), Rewrite(m, text)
  PROVE  /\ shown' \in Seq(Copies) /\ DOMAIN shown' = DOMAIN shown
         /\ \A i \in DOMAIN shown :
              /\ shown'[i].msg = shown[i].msg /\ shown'[i].mine = shown[i].mine
              /\ \/ \E j \in 1 .. (i - 1) : shown[j].msg = shown[i].msg
                 \/ shown'[i].text = IF shown[i].msg = m THEN text ELSE shown[i].text
<1>1. CASE ~\E i \in DOMAIN shown : shown[i].msg = m
  <2>1. shown' = shown
    BY <1>1 DEF Rewrite
  <2>. QED  BY <1>1, <2>1
<1>2. CASE \E i \in DOMAIN shown : shown[i].msg = m
  <2>. DEFINE f == FirstCopy(m)
  <2>1. shown' = [shown EXCEPT ![f].text = text]
    BY <1>2 DEF Rewrite
  <2>2. PICK i0 \in 1 .. Len(shown) : shown[i0].msg = m
    BY <1>2
  <2>3. f \in 1 .. Len(shown) /\ shown[f].msg = m /\ \A j \in 1 .. (f - 1) : shown[j].msg # m
    BY <2>2, FirstOf
  <2>. HIDE DEF f
  <2>. DEFINE copy == [shown[f] EXCEPT !.text = text]
  <2>4. shown[f] \in Copies
    BY <2>3
  <2>5. copy \in Copies /\ copy.msg = m /\ copy.mine = shown[f].mine /\ copy.text = text
    BY <2>3, <2>4 DEF Copies
  <2>6. shown' = [shown EXCEPT ![f] = copy]
    BY <2>1, <2>3
  <2>. HIDE DEF copy
  <2>7. /\ shown' \in Seq(Copies) /\ DOMAIN shown' = DOMAIN shown
        /\ \A i \in DOMAIN shown : shown'[i] = IF i = f THEN copy ELSE shown[i]
    BY <2>3, <2>5, <2>6
  <2>8. ASSUME NEW i \in DOMAIN shown
        PROVE  /\ shown'[i].msg = shown[i].msg /\ shown'[i].mine = shown[i].mine
               /\ \/ \E j \in 1 .. (i - 1) : shown[j].msg = shown[i].msg
                  \/ shown'[i].text = IF shown[i].msg = m THEN text ELSE shown[i].text
    <3>1. CASE i = f
      BY <2>3, <2>5, <2>7, <3>1
    <3>2. CASE i # f /\ shown[i].msg # m
      BY <2>7, <3>2
    <3>3. CASE i # f /\ shown[i].msg = m
      <4>1. f \in 1 .. (i - 1)
        BY <2>3, <3>3
      <4>. QED  BY <2>3, <2>7, <3>3, <4>1
    <3>. QED  BY <3>1, <3>2, <3>3
  <2>. QED  BY <2>7, <2>8
<1>. QED  BY <1>1, <1>2

\* the sets whose members the list counts are finite
LEMMA DueFinite ==
  ASSUME NEW c \in Convs
  PROVE  /\ IsFiniteSet(Unread(c)) /\ IsFiniteSet(Due(c)) /\ Due(c) \subseteq Unread(c)
         /\ Cardinality(Due(c)) \in Nat /\ Cardinality(Unread(c)) \in Nat
<1>0. IsFiniteSet({c}) /\ IsFiniteSet(1 .. PerConv)
  <2>1. PerConv \in Nat
    BY ChatAssumption
  <2>2. IsFiniteSet(1 .. PerConv)
    BY <2>1, FS_Interval
  <2>. QED  BY <2>2, FS_Singleton
<1>1. IsFiniteSet({c} \X (1 .. PerConv))
  BY <1>0, FS_Product
<1>2. Unread(c) \subseteq {c} \X (1 .. PerConv) /\ Due(c) \subseteq Unread(c)
  BY DEF Unread, Stored, Msgs, ConvOf, Due
<1>3. IsFiniteSet(Unread(c))
  BY <1>1, <1>2, FS_Subset
<1>4. IsFiniteSet(Due(c))
  BY <1>2, <1>3, FS_Subset
<1>. QED  BY <1>2, <1>3, <1>4, FS_CardinalityType

-----------------------------------------------------------------------------
(* Steps outside the conversations. *)

\* the database keeps its invariant when it is left alone
LEMMA StoreSame == ASSUME StoreInv, UNCHANGED dbVars PROVE StoreInv'
BY DEF StoreInv, dbVars

\* a step that does not write the messages disturbs none
LEMMA QuietStore ==
  ASSUME StoreInv, store' = store, next' = next
  PROVE  \A m \in Msgs : Undisturbed(m)
<1>. SUFFICES ASSUME NEW m \in Msgs PROVE Undisturbed(m)
  OBVIOUS
<1>1. next[ConvOf(m)] \in Nat
  BY MsgIs DEF StoreInv
<1>2. Own(m)' = Own(m) /\ Expected(m)' = Expected(m)
  BY DEF Own, Expected
<1>. QED  BY <1>1, <1>2 DEF Undisturbed

\* nothing is shown, so nothing of it is edited, deleted or answered
LEMMA ModesEmpty ==
  ASSUME shown' = <<>>, editing' = None, confirm' = None, reply' = None
  PROVE  ModesInv'
<1>1. ShownMsgs' = {}
  BY DEF ShownMsgs
<1>. QED  BY <1>1 DEF ModesInv

\* The screens before the conversations, and the moment between the login and the list.
LEMMA OutsideKeeps ==
  ASSUME ConvInv, UNCHANGED <<dbVars, excused, haunted>>,
         UNCHANGED <<events, pending>> \/ Dropped,
         Blank', Blank \/ Queue' = <<>>, peer' \in Nat \ {0},
         \/ screen' \in {"ProfileSelect", "Auth"} /\ pc' = "idle"
         \/ screen' = "Conversations" /\ pc' = "list" /\ thread' = None
  PROVE  ConvInv'
<1>. USE DEF ConvInv
<1>1. StoreInv'
  BY StoreSame
<1>2. \A m \in Msgs : Undisturbed(m)
  BY QuietStore DEF dbVars
<1>3. QueueInv'
  <2>1. excused \subseteq excused'
    OBVIOUS
  <2>. QED  BY <1>1, <1>2, <2>1, QueueSame, QueueDropped
<1>4. ~Loaded' /\ ~InChat' /\ screen' # "ConversationInfo"
  BY DEF Loaded, InChat, ChatScreens
<1>5. ScreenInv'
  BY <1>4 DEF ScreenInv, Blank, Loaded, InChat, ChatScreens, Listed
<1>6. ModesInv'
  BY ModesEmpty DEF Blank
<1>7. ASSUME ~haunted PROVE ListInv'
  <2>1. ASSUME NEW k \in DOMAIN Queue', Queue'[k].type = "created"
        PROVE  /\ Queue'[k].conv \in convs /\ Queue'[k].about \subseteq members[Queue'[k].conv]
               /\ Queue'[k].about = members[Queue'[k].conv] \/ Tells(Queue', k, "added", Queue'[k].conv)
    <3>1. Blank /\ Listed = {}
      BY <2>1 DEF Blank, Listed
    <3>2. CASE UNCHANGED <<events, pending>>
      <4>1. Queue' = Queue
        BY <3>2 DEF Queue
      <4>. QED  BY <1>7, <2>1, <3>1, <4>1 DEF ListInv
    <3>3. CASE Dropped
      <4>. DEFINE n == Len(Queue)
      <4>1. n \in DOMAIN Queue /\ Queue'[k] = Queue[n] /\ \A c : ~Tells(Queue, n, "added", c)
        BY <2>1, <3>3, QueueDrops
      <4>. HIDE DEF n
      <4>. QED  BY <1>7, <2>1, <3>1, <4>1 DEF ListInv
    <3>. QED  BY <3>2, <3>3
  <2>2. entries' = <<>> /\ sel' = 1
    BY DEF Blank
  <2>. QED  BY <1>4, <2>1, <2>2 DEF ListInv, dbVars
<1>. QED  BY <1>1, <1>3, <1>4, <1>5, <1>6, <1>7 DEF CountInv, ChatInv

\* which screens the keys, the thread and its end lead from and to
LEMMA KeyScreens ==
  /\ AuthKey => screen \in {"ProfileSelect", "Auth"} /\ screen' \in {"ProfileSelect", "Auth"}
  /\ ThreadStep => thread # None /\ screen' = screen
  /\ AuthFails \/ AuthCrashes => thread # None /\ screen' \in {"ProfileSelect", screen}
  /\ AuthSucceeds => thread # None /\ thread' = None /\ screen' = "Conversations"
  /\ ProcessEnds => screen' \in {"ProfileSelect", "Auth"}
<1>1. ASSUME AuthKey PROVE screen \in {"ProfileSelect", "Auth"} /\ screen' \in {"ProfileSelect", "Auth"}
  <2>1. SelectProfile \/ NewAccount \/ ChooseProfile \/ DeleteProfile =>
          screen \in {"ProfileSelect", "Auth"} /\ screen' \in {"ProfileSelect", "Auth"}
    BY DEF SelectProfile, NewAccount, ChooseProfile, DeleteProfile, Selecting
  <2>2. LeavePassword \/ LeaveAuth =>
          screen \in {"ProfileSelect", "Auth"} /\ screen' \in {"ProfileSelect", "Auth"}
    BY DEF LeavePassword, LeaveAuth
  <2>3. ASSUME NEW pass \in Passwords, SubmitPassword(pass)
        PROVE  screen \in {"ProfileSelect", "Auth"} /\ screen' \in {"ProfileSelect", "Auth"}
    BY <2>3 DEF SubmitPassword
  <2>4. ASSUME NEW user \in Users, NEW pass \in Passwords, SubmitForm(user, pass)
        PROVE  screen \in {"ProfileSelect", "Auth"} /\ screen' \in {"ProfileSelect", "Auth"}
    BY <2>4 DEF SubmitForm
  <2>. QED  BY <1>1, <2>1, <2>2, <2>3, <2>4 DEF AuthKey
<1>2. ThreadStep => thread # None /\ screen' = screen
  BY DEF ThreadStep, OpenStorage, ConnectTransport, Register, SaveAccount, UploadKeys, LoadAccount,
         StartClient, AtStage, OutsideThread
<1>3. AuthFails \/ AuthCrashes => thread # None /\ screen' \in {"ProfileSelect", screen}
  BY DEF AuthFails, AuthCrashes, AtStage
<1>4. AuthSucceeds => thread # None /\ thread' = None /\ screen' = "Conversations"
  BY DEF AuthSucceeds, AtStage
<1>5. ProcessEnds => screen' \in {"ProfileSelect", "Auth"}
  BY DEF ProcessEnds, StartOver
<1>. QED  BY <1>1, <1>2, <1>3, <1>4, <1>5

\* while a thread connects no conversation is open
LEMMA Unopened ==
  ASSUME ConvInv, thread # None \/ screen \in {"ProfileSelect", "Auth"}
  PROVE  Blank /\ screen \in {"ProfileSelect", "Auth"} /\ pc = "idle" /\ peer \in Nat \ {0}
BY DEF ConvInv, ScreenInv, ChatScreens, Loaded

LEMMA BlankStays ==
  ASSUME Blank, UNCHANGED <<entries, sel, current, shown, editing, confirm, reply, form, group>>
  PROVE  Blank'
BY DEF Blank

LEMMA ProfileKeyConv == ConvInv /\ ProfileKey => ConvInv'
<1>. SUFFICES ASSUME ConvInv, ProfileKey PROVE ConvInv'
  OBVIOUS
<1>1. screen \in {"ProfileSelect", "Auth"} /\ screen' \in {"ProfileSelect", "Auth"} /\ UNCHANGED chatVars
  BY KeyScreens DEF ProfileKey
<1>2. Blank /\ pc = "idle" /\ peer \in Nat \ {0}
  BY <1>1, Unopened
<1>3. UNCHANGED <<dbVars, excused, haunted, events, pending, pc, peer, entries, sel, current, shown,
                  editing, confirm, reply, form, group>>
  BY <1>1 DEF chatVars, appVars, modeVars, formVars
<1>4. Blank'
  BY <1>2, <1>3, BlankStays
<1>. QED  BY <1>1, <1>2, <1>3, <1>4, OutsideKeeps

LEMMA ConnectStepConv == ConvInv /\ ConnectStep => ConvInv'
<1>. SUFFICES ASSUME ConvInv, ConnectStep PROVE ConvInv'
  OBVIOUS
<1>1. thread # None /\ screen' = screen /\ UNCHANGED chatVars
  BY KeyScreens DEF ConnectStep
<1>2. Blank /\ screen \in {"ProfileSelect", "Auth"} /\ pc = "idle" /\ peer \in Nat \ {0}
  BY <1>1, Unopened
<1>3. UNCHANGED <<dbVars, excused, haunted, events, pending, pc, peer, entries, sel, current, shown,
                  editing, confirm, reply, form, group>>
  BY <1>1 DEF chatVars, appVars, modeVars, formVars
<1>4. Blank'
  BY <1>2, <1>3, BlankStays
<1>. QED  BY <1>1, <1>2, <1>3, <1>4, OutsideKeeps

LEMMA ConnectEndsConv == ConvInv /\ ConnectEnds => ConvInv'
<1>. SUFFICES ASSUME ConvInv, ConnectEnds PROVE ConvInv'
  OBVIOUS
<1>1. thread # None /\ screen' \in {"ProfileSelect", screen}
  BY KeyScreens DEF ConnectEnds
<1>2. Blank /\ screen \in {"ProfileSelect", "Auth"} /\ pc = "idle" /\ peer \in Nat \ {0}
  BY <1>1, Unopened
<1>3. UNCHANGED <<dbVars, excused, haunted, pending, pc, peer, entries, sel, current, shown,
                  editing, confirm, reply, form, group>>
  BY DEF ConnectEnds, appVars, modeVars, formVars
<1>4. Blank' /\ Dropped
  BY <1>2, <1>3, BlankStays DEF ConnectEnds, Dropped
<1>. QED  BY <1>1, <1>2, <1>3, <1>4, OutsideKeeps

LEMMA LogInConv == ConvInv /\ LogIn => ConvInv'
<1>. SUFFICES ASSUME ConvInv, LogIn PROVE ConvInv'
  OBVIOUS
<1>1. thread # None /\ thread' = None /\ screen' = "Conversations" /\ pc' = "list"
  BY KeyScreens DEF LogIn
<1>2. Blank /\ screen \in {"ProfileSelect", "Auth"} /\ pc = "idle" /\ peer \in Nat \ {0}
  BY <1>1, Unopened
<1>3. UNCHANGED <<dbVars, excused, haunted, pending, peer, entries, sel, current, shown,
                  editing, confirm, reply, form, group>>
  BY DEF LogIn, modeVars, formVars
<1>4. Blank' /\ Dropped
  BY <1>2, <1>3, BlankStays DEF LogIn, Dropped
<1>. QED  BY <1>1, <1>2, <1>3, <1>4, OutsideKeeps

LEMMA RestartConv == ConvInv /\ Restart => ConvInv'
<1>. SUFFICES ASSUME ConvInv, Restart PROVE ConvInv'
  OBVIOUS
<1>1. screen' \in {"ProfileSelect", "Auth"}
  BY KeyScreens DEF Restart
<1>2. Blank' /\ Dropped /\ Queue' = <<>> /\ peer' \in Nat \ {0} /\ pc' = "idle"
  BY DEF Restart, Blank, Dropped, Queue
<1>3. UNCHANGED <<dbVars, excused, haunted>>
  BY DEF Restart
<1>. QED  BY <1>1, <1>2, <1>3, OutsideKeeps

-----------------------------------------------------------------------------
(* The worker. *)

\* a message whose row is kept is not disturbed
\* a row as it was, or that an acknowledgement made read
Kept(m) ==
  \/ store'[m] = store[m]
  \/ /\ FromPeer(m) /\ store'[m] # None
     /\ store'[m].text = store[m].text /\ store'[m].status = "read"

LEMMA SameRow ==
  ASSUME StoreInv, NEW m \in Msgs, Kept(m),
         next'[ConvOf(m)] = next[ConvOf(m)] \/ next'[ConvOf(m)] = next[ConvOf(m)] + 1
  PROVE  Undisturbed(m)
<1>1. next[ConvOf(m)] \in Nat
  BY MsgIs DEF StoreInv
<1>2. Own(m)' = Own(m) /\ Expected(m)' = Expected(m)
  BY DEF Own, Expected, Kept, FromPeer
<1>. QED  BY <1>1, <1>2 DEF Undisturbed

\* a step that leaves the interface alone keeps what it shows
LEMMA ScreenSame ==
  ASSUME ScreenInv,
         UNCHANGED <<entries, shown, sel, peer, group, current, pc, screen, thread, form,
                     editing, confirm, reply>>
  PROVE  ScreenInv' /\ (Loaded' <=> Loaded) /\ (InChat' <=> InChat) /\ Listed' = Listed
                    /\ ShownMsgs' = ShownMsgs /\ \A m : Mine(m)' <=> Mine(m)
<1>1. (Loaded' <=> Loaded) /\ (InChat' <=> InChat) /\ Listed' = Listed /\ (Blank' <=> Blank)
      /\ ShownMsgs' = ShownMsgs /\ \A m : Mine(m)' <=> Mine(m)
  BY DEF Loaded, InChat, Listed, Blank, ShownMsgs, Mine
<1>. QED  BY <1>1 DEF ScreenInv

QueueGrows ==
  /\ \A k, type, c : Tells(Queue, k, type, c) => Tells(Queue', k, type, c)
  /\ \A m : Arrives(Queue, m) => Arrives(Queue', m)
  /\ \A m : ArrivesListed(Queue, m) => ArrivesListed(Queue', m)
  /\ \A k, m : Rewritten(Queue, k, m) => Rewritten(Queue', k, m)

\* a queue that is kept, or that one event joins, forgets nothing
LEMMA GrowsSame == Queue' = Queue => QueueGrows
BY DEF QueueGrows

LEMMA GrowsAppend ==
  ASSUME QueueInv, NEW e \in Events, Queue' = Append(Queue, e) PROVE QueueGrows
<1>1. Queue \in Seq(Events)
  BY QueueType
<1>. QED  BY <1>1, AppendTells DEF QueueGrows

\* The messages being edited, deleted or answered stay the open conversation's: the general case,
LEMMA ModesKept ==
  ASSUME ModesInv, StoreInv, StoreInv', current' = current,
         ShownMsgs' = ShownMsgs, \A m \in ShownMsgs : Mine(m)' => Mine(m),
         \A m \in ShownMsgs : m \in Msgs /\ next[ConvOf(m)] <= next'[ConvOf(m)],
         \A m \in ShownMsgs : Mine(m) => store'[m] = None \/ (Own(m) /\ Own(m)'),
         \A m \in ShownMsgs, k \in DOMAIN Queue' : Mine(m) =>
           ~Concerns(Queue'[k], m) \/ \E j \in DOMAIN Queue : Queue'[k] = Queue[j],
         {editing', confirm'} \ {None} \subseteq {m \in ShownMsgs : Mine(m)'},
         {reply'} \ {None} \subseteq ShownMsgs
  PROVE  ModesInv'
<1>1. ASSUME NEW m \in ShownMsgs PROVE ConvOf(m) = current' /\ m[2] <= next'[ConvOf(m)]
  <2>1. ConvOf(m) = current /\ m[2] <= next[ConvOf(m)]
    BY DEF ModesInv
  <2>2. m[2] \in Nat /\ next[ConvOf(m)] \in Nat /\ next'[ConvOf(m)] \in Nat
    BY MsgIs DEF StoreInv
  <2>. QED  BY <2>1, <2>2
<1>2. ASSUME NEW m \in ShownMsgs, Mine(m)
      PROVE  /\ store'[m] = None \/ Own(m)'
             /\ \A k \in DOMAIN Queue' : ~Concerns(Queue'[k], m)
  BY <1>2 DEF ModesInv
<1>. QED  BY <1>1, <1>2 DEF ModesInv

\* and the one of a step that leaves the messages shown alone.
LEMMA ModesSame ==
  ASSUME ModesInv, UNCHANGED <<current, shown, editing, confirm, reply>>
  PROVE  /\ ShownMsgs' = ShownMsgs /\ \A m : Mine(m)' <=> Mine(m)
         /\ {editing', confirm'} \ {None} \subseteq {m \in ShownMsgs : Mine(m)'}
         /\ {reply'} \ {None} \subseteq ShownMsgs
<1>1. ShownMsgs' = ShownMsgs /\ \A m : Mine(m)' <=> Mine(m)
  BY DEF ShownMsgs, Mine
<1>. QED  BY <1>1 DEF ModesInv

LEMMA ShownIs == ScreenInv => ShownMsgs \subseteq Msgs
<1>. SUFFICES ASSUME ScreenInv, NEW i \in DOMAIN shown PROVE shown[i].msg \in Msgs
  BY DEF ShownMsgs
<1>1. shown[i] \in Copies
  BY DEF ScreenInv
<1>. QED  BY <1>1 DEF Copies

LEMMA ListedIs == ScreenInv => Listed \subseteq Convs
<1>. SUFFICES ASSUME ScreenInv, NEW i \in DOMAIN entries PROVE entries[i].conv \in Convs
  BY DEF Listed
<1>1. entries[i] \in Entries
  BY DEF ScreenInv
<1>. QED  BY <1>1 DEF Entries

\* The list keeps its invariant: when nothing that it is about changes,
LEMMA ListSame ==
  ASSUME ListInv, Queue' = Queue, UNCHANGED <<convs, members, entries, sel, screen, current, peer>>
  PROVE  ListInv'
<1>1. Listed' = Listed
  BY DEF Listed
<1>. QED  BY <1>1 DEF ListInv

\* and when the worker writes and its event joins the queue.
LEMMA ListJoined ==
  ASSUME ListInv, StoreInv, QueueInv, ScreenInv, NEW e \in Events, Queue' = Append(Queue, e),
         UNCHANGED <<entries, sel, screen, current, peer>>,
         convs \subseteq convs',
         \A c \in convs : members[c] \subseteq members'[c]
                          /\ (members'[c] = members[c] \/ OfConversation(e, c, "added")),
         e.type = "created" => e.conv \in convs' /\ e.about = members'[e.conv]
  PROVE  ListInv'
<1>1. Queue \in Seq(Events)
  BY QueueType
<1>2. /\ DOMAIN Queue' = DOMAIN Queue \union {Len(Queue) + 1} /\ Queue'[Len(Queue) + 1] = e
      /\ \A k \in DOMAIN Queue : Queue'[k] = Queue[k]
      /\ \A k, type, c : Tells(Queue, k, type, c) => Tells(Queue', k, type, c)
      /\ \A k \in DOMAIN Queue \union {0} : \A type, c : OfConversation(e, c, type) => Tells(Queue', k, type, c)
  BY <1>1, AppendTells
<1>3. Listed' = Listed
  BY DEF Listed
<1>4. ASSUME NEW k \in DOMAIN Queue', Queue'[k].type = "created"
      PROVE  /\ Queue'[k].conv \in convs' /\ Queue'[k].about \subseteq members'[Queue'[k].conv]
             /\ \/ Queue'[k].conv \in Listed' \/ Queue'[k].about = members'[Queue'[k].conv]
                \/ Tells(Queue', k, "added", Queue'[k].conv)
  <2>1. CASE k = Len(Queue) + 1
    BY <1>2, <1>4, <2>1
  <2>2. CASE k \in DOMAIN Queue
    <3>. DEFINE c == Queue[k].conv  p == Queue[k].about
    <3>1. Queue'[k] = Queue[k] /\ Queue[k].type = "created"
      BY <1>2, <1>4, <2>2
    <3>2. c \in convs /\ p \subseteq members[c] /\ (c \in Listed \/ p = members[c] \/ Tells(Queue, k, "added", c))
      BY <2>2, <3>1 DEF ListInv
    <3>3. members[c] \subseteq members'[c] /\ (members'[c] = members[c] \/ Tells(Queue', k, "added", c))
      BY <1>2, <2>2, <3>2
    <3>4. Tells(Queue, k, "added", c) => Tells(Queue', k, "added", c)
      BY <1>2
    <3>. HIDE DEF c, p
    <3>. QED  BY <1>3, <3>1, <3>2, <3>3, <3>4 DEF c, p
  <2>. QED  BY <1>2, <2>1, <2>2
<1>5. ASSUME NEW i \in DOMAIN entries
      PROVE  /\ entries[i].conv \in convs' /\ entries[i].peers # {}
             /\ entries[i].peers \subseteq members'[entries[i].conv]
             /\ entries[i].peers = members'[entries[i].conv] \/ Tells(Queue', 0, "added", entries[i].conv)
  <2>. DEFINE c == entries[i].conv
  <2>1. /\ c \in convs /\ entries[i].peers # {} /\ entries[i].peers \subseteq members[c]
        /\ entries[i].peers = members[c] \/ Tells(Queue, 0, "added", c)
    BY DEF ListInv
  <2>2. members[c] \subseteq members'[c] /\ (members'[c] = members[c] \/ Tells(Queue', 0, "added", c))
    BY <1>2, <2>1
  <2>3. Tells(Queue, 0, "added", c) => Tells(Queue', 0, "added", c)
    BY <1>2
  <2>. HIDE DEF c
  <2>. QED  BY <2>1, <2>2, <2>3 DEF c
<1>. QED  BY <1>4, <1>5 DEF ListInv

\* The unread messages are counted, or will be: none is new but with its event.
LEMMA CountKept ==
  ASSUME CountInv, ScreenInv, Loaded' => Loaded, UNCHANGED <<entries, current>>, QueueGrows,
         \A c \in convs' : c \in convs \/ Tells(Queue', 0, "created", c),
         \A c \in Convs, m \in Msgs : m \in Unread(c)' /\ m \notin excused' =>
           \/ m \in Unread(c) \ excused
           \/ Arrives(Queue', m) /\ (c \notin Listed => ArrivesListed(Queue', m))
  PROVE  CountInv'
<1>1. Listed' = Listed
  BY DEF Listed
<1>2. ASSUME NEW c, NEW m, m \in Unread(c)' PROVE m \in Msgs
  BY <1>2 DEF Unread, Stored
<1>. SUFFICES ASSUME Counted, Loaded' PROVE Counted'
  BY DEF CountInv
<1>3. \A c \in convs' : c \in Listed' \/ Tells(Queue', 0, "created", c)
  BY <1>1 DEF Counted, QueueGrows
<1>4. ASSUME NEW c \in Convs \ Listed', NEW m \in Unread(c)' \ excused' PROVE ArrivesListed(Queue', m)
  BY <1>1, <1>2 DEF Counted, QueueGrows
<1>5. ASSUME NEW c \in Convs, NEW i \in DOMAIN entries, entries[i].conv = c, c # current
      PROVE  Cardinality(Due(c)') <= entries[i].unread
  <2>0. entries[i].unread \in Nat
    <3>1. entries[i] \in Entries
      BY DEF ScreenInv
    <3>. QED  BY <3>1 DEF Entries
  <2>1. Due(c)' \subseteq Due(c)
    <3>. SUFFICES ASSUME NEW m \in Due(c)' PROVE m \in Due(c)
      OBVIOUS
    <3>1. m \in Unread(c)' /\ m \notin excused' /\ ~Arrives(Queue', m)
      BY DEF Due
    <3>2. m \in Unread(c) \ excused
      BY <1>2, <2>0, <3>1
    <3>3. ~Arrives(Queue, m)
      BY <3>1 DEF QueueGrows
    <3>. QED  BY <3>2, <3>3 DEF Due
  <2>2. IsFiniteSet(Due(c)) /\ Cardinality(Due(c)) \in Nat
    BY <2>0, DueFinite
  <2>3. Cardinality(Due(c)') <= Cardinality(Due(c)) /\ IsFiniteSet(Due(c)')
    BY <2>1, <2>2, FS_Subset
  <2>4. Cardinality(Due(c)') \in Nat
    BY <2>3, FS_CardinalityType
  <2>5. Cardinality(Due(c)) <= entries[i].unread
    BY <1>5 DEF Counted
  <2>. QED  BY <2>0, <2>2, <2>3, <2>4, <2>5
<1>. QED  BY <1>3, <1>4, <1>5 DEF Counted

\* the open conversation keeps its invariant when what it shows does not change
LEMMA ChatKept ==
  ASSUME ChatInv, InChat' => InChat, UNCHANGED <<current, shown>>, QueueGrows, excused \subseteq excused',
         \A m \in Msgs : m \in Stored(current)' /\ m \notin excused' =>
           m \in Stored(current) \ excused \/ Arrives(Queue', m),
         \A m \in ShownMsgs : Expected(m)' = Expected(m) \/ m \in excused' \/ Rewritten(Queue', 0, m)
  PROVE  ChatInv'
<1>1. ShownMsgs' = ShownMsgs /\ Stored(current)' \subseteq Msgs /\ \A i \in DOMAIN shown : shown[i].msg \in ShownMsgs
  BY DEF ShownMsgs, Stored
<1>. SUFFICES ASSUME Shows, InChat' PROVE Shows'
  BY DEF ChatInv
<1>2. ASSUME NEW m \in Msgs, m \in Stored(current)' \ excused' PROVE m \in ShownMsgs' \/ Arrives(Queue', m)
  BY <1>1, <1>2 DEF Shows, QueueGrows
<1>3. ASSUME NEW m \in Msgs, NEW i \in DOMAIN shown, shown[i].msg = m
      PROVE  \/ \E j \in 1 .. (i - 1) : shown[j].msg = m
             \/ shown[i].text = Expected(m)' \/ m \in excused' \/ Rewritten(Queue', 0, m)
  <2>1. m \in ShownMsgs
    BY <1>1, <1>3
  <2>2. \/ \E j \in 1 .. (i - 1) : shown[j].msg = m
        \/ shown[i].text = Expected(m) \/ m \in excused \/ Rewritten(Queue, 0, m)
    BY <1>3 DEF Shows
  <2>3. Rewritten(Queue, 0, m) => Rewritten(Queue', 0, m)
    BY DEF QueueGrows
  <2>. QED  BY <2>1, <2>2, <2>3
<1>. QED  BY <1>2, <1>3 DEF Shows

\* The worker writes what its event says.
LEMMA WritesKeep ==
  ASSUME ConvInv, NEW e \in Events, Writes(e), StoreInv',
         \A m \in Msgs : ~Concerns(e, m) => Kept(m),
         \A m \in Msgs : Rewrites(e, m) =>
           FromPeer(m) /\ (store'[m] = None \/ store'[m].status = store[m].status),
         \A m \in Msgs : Receives(e, m) =>
           next[ConvOf(m)] < m[2] /\ ConvOf(m) \in convs /\ store'[m] = Message("delivered"),
         \A m \in Msgs : Concerns(e, m) =>
           e.conv = ConvOf(m) /\ m[2] <= next'[ConvOf(m)] /\ TextOf(e) = Expected(m)',
         \A c \in Convs : next'[c] = next[c] \/ next'[c] = next[c] + 1,
         convs \subseteq convs', \A c \in convs' : c \in convs \/ OfConversation(e, c, "created"),
         \A c \in convs : members[c] \subseteq members'[c]
                          /\ (members'[c] = members[c] \/ OfConversation(e, c, "added")),
         e.type = "created" => e.about # {} /\ e.conv \in convs' /\ e.about = members'[e.conv]
  PROVE  ConvInv'
<1>. USE DEF ConvInv
<1>1. /\ Emitted(e) /\ excused' = excused /\ haunted' = haunted
      /\ UNCHANGED <<entries, shown, sel, peer, group, current, pc, screen, thread, form,
                     editing, confirm, reply>>
  BY DEF Writes, Emitted, authVars, appVars, modeVars, formVars
<1>2. ASSUME NEW m \in Msgs
      PROVE  /\ next[ConvOf(m)] \in Nat /\ m[2] \in Nat /\ next[ConvOf(m)] <= next'[ConvOf(m)]
             /\ Own(m)' => Own(m)
             /\ ~Concerns(e, m) => Undisturbed(m)
             /\ Concerns(e, m) => ~Own(m)
  <2>1. ConvOf(m) \in Convs /\ m[2] \in Nat /\ next[ConvOf(m)] \in Nat
    BY MsgIs DEF StoreInv
  <2>2. next'[ConvOf(m)] = next[ConvOf(m)] \/ next'[ConvOf(m)] = next[ConvOf(m)] + 1
    BY <2>1
  <2>3. ~Concerns(e, m) => Undisturbed(m)
    BY <2>2, SameRow
  <2>4. Rewrites(e, m) => ~Own(m) /\ ~Own(m)'
    BY DEF FromPeer, Own
  <2>5. Receives(e, m) => ~Own(m) /\ ~Own(m)'
    <3>1. ASSUME Receives(e, m) PROVE store[m] = None
      <4>1. ~(m[2] <= next[ConvOf(m)])
        BY <2>1, <3>1
      <4>. QED  BY <4>1 DEF StoreInv
    <3>. QED  BY <3>1 DEF Own, Message
  <2>. QED  BY <2>1, <2>2, <2>3, <2>4, <2>5 DEF Concerns, Undisturbed
<1>3. QueueInv' /\ Queue' = Append(Queue, e)
  <2>1. \A m \in Msgs : Undisturbed(m)
           \/ (next[ConvOf(m)] <= next'[ConvOf(m)] /\ (Own(m)' => Own(m)) /\ Rewrites(e, m))
           \/ next[ConvOf(m)] < m[2]
    BY <1>2 DEF Concerns
  <2>2. \A m \in Msgs : Concerns(e, m) =>
           /\ e.conv = ConvOf(m) /\ m[2] <= next'[ConvOf(m)] /\ ~Own(m)'
           /\ TextOf(e) = Expected(m)'
    BY <1>2
  <2>. QED  BY <1>1, <2>1, <2>2, QueueJoined
<1>4. Queue \in Seq(Events) /\ QueueGrows
  BY <1>3, QueueType, GrowsAppend
<1>5. /\ DOMAIN Queue' = DOMAIN Queue \union {Len(Queue) + 1} /\ Queue'[Len(Queue) + 1] = e
      /\ \A k \in DOMAIN Queue : Queue'[k] = Queue[k]
      /\ \A m : Receives(e, m) => Arrives(Queue', m)
      /\ \A c : OfConversation(e, c, "created") => Tells(Queue', 0, "created", c)
      /\ \A m : Rewrites(e, m) => Rewritten(Queue', 0, m)
      /\ \A m : Tells(Queue, 0, "created", ConvOf(m)) /\ Receives(e, m) => ArrivesListed(Queue', m)
  BY <1>3, <1>4, AppendTells
<1>6. ScreenInv' /\ (Loaded' <=> Loaded) /\ (InChat' <=> InChat)
  BY <1>1, ScreenSame
<1>7. ModesInv'
  <2>1. /\ ShownMsgs' = ShownMsgs /\ \A m : Mine(m)' <=> Mine(m)
        /\ {editing', confirm'} \ {None} \subseteq {m \in ShownMsgs : Mine(m)'}
        /\ {reply'} \ {None} \subseteq ShownMsgs
    BY <1>1, ModesSame
  <2>2. ASSUME NEW m \in ShownMsgs, Mine(m) PROVE m \in Msgs /\ ~Concerns(e, m)
    <3>1. m \in Msgs /\ m[2] <= next[ConvOf(m)] /\ (store[m] = None \/ Own(m))
      BY <2>2, ShownIs DEF ModesInv
    <3>2. ~Rewrites(e, m)
      BY <3>1 DEF FromPeer, Own
    <3>3. ~Receives(e, m)
      <4>1. m[2] \in Nat /\ next[ConvOf(m)] \in Nat
        BY <1>2, <3>1
      <4>. QED  BY <3>1, <4>1
    <3>. QED  BY <3>1, <3>2, <3>3 DEF Concerns
  <2>3. \A m \in ShownMsgs : m \in Msgs /\ next[ConvOf(m)] <= next'[ConvOf(m)]
    BY <1>2, ShownIs
  <2>4. ASSUME NEW m \in ShownMsgs, Mine(m) PROVE store'[m] = None \/ (Own(m) /\ Own(m)')
    <3>1. store[m] = None \/ Own(m)
      BY <2>4 DEF ModesInv
    <3>2. store'[m] = store[m]
      BY <2>2, <2>4, <3>1 DEF Kept, FromPeer, Own
    <3>. QED  BY <2>4, <3>1, <3>2 DEF Own
  <2>5. \A m \in ShownMsgs, k \in DOMAIN Queue' : Mine(m) =>
           ~Concerns(Queue'[k], m) \/ \E j \in DOMAIN Queue : Queue'[k] = Queue[j]
    BY <1>5, <2>2
  <2>. QED  BY <1>1, <2>1, <2>3, <2>4, <2>5, ModesKept
<1>8. ~haunted => ListInv'
  BY <1>1, <1>3, ListJoined
<1>9. \A c \in Convs, m \in Msgs : m \in Unread(c)' =>
         \/ m \in Unread(c) \/ (Receives(e, m) /\ c = ConvOf(m) /\ c \in convs)
  <2>. SUFFICES ASSUME NEW c \in Convs, NEW m \in Msgs, m \in Unread(c)', ~Receives(e, m) PROVE m \in Unread(c)
    BY DEF Unread, Stored
  <2>1. ConvOf(m) = c /\ store'[m] # None /\ store'[m].status = "delivered"
    BY DEF Unread, Stored
  <2>2. CASE Rewrites(e, m)
    BY <2>1, <2>2 DEF FromPeer, Unread, Stored
  <2>3. CASE ~Rewrites(e, m)
    BY <2>1, <2>3 DEF Concerns, Unread, Stored, Kept
  <2>. QED  BY <2>2, <2>3
<1>10. CountInv'
  <2>1. ASSUME NEW c \in Convs, NEW m \in Msgs, m \in Unread(c)', m \notin excused', Loaded
        PROVE  \/ m \in Unread(c) \ excused
               \/ Arrives(Queue', m) /\ (c \notin Listed => ArrivesListed(Queue', m))
    <3>1. CASE m \in Unread(c)
      BY <1>1, <2>1, <3>1
    <3>2. CASE Receives(e, m) /\ c = ConvOf(m) /\ c \in convs
      <4>1. c \notin Listed => Tells(Queue, 0, "created", c)
        BY <2>1, <3>2 DEF CountInv, Counted
      <4>. QED  BY <1>5, <3>2, <4>1
    <3>. QED  BY <1>9, <2>1, <3>1, <3>2
  <2>2. CASE ~Loaded
    BY <1>6, <2>2 DEF CountInv
  <2>3. CASE Loaded
    BY <1>1, <1>4, <1>5, <1>6, <2>1, <2>3, CountKept
  <2>. QED  BY <2>2, <2>3
<1>11. ChatInv'
  <2>1. ASSUME NEW m \in Msgs, m \in Stored(current)', m \notin excused'
        PROVE  m \in Stored(current) \ excused \/ Arrives(Queue', m)
    <3>1. ConvOf(m) = current /\ store'[m] # None
      BY <1>1, <2>1 DEF Stored
    <3>2. CASE Receives(e, m)
      BY <1>5, <3>2
    <3>3. CASE ~Receives(e, m)
      <4>1. store[m] # None
        BY <3>1, <3>3 DEF Concerns, FromPeer, Kept
      <4>. QED  BY <1>1, <2>1, <3>1, <4>1 DEF Stored
    <3>. QED  BY <3>2, <3>3
  <2>2. ASSUME NEW m \in ShownMsgs
        PROVE  Expected(m)' = Expected(m) \/ m \in excused' \/ Rewritten(Queue', 0, m)
    <3>1. m \in Msgs /\ m[2] <= next[ConvOf(m)]
      BY ShownIs DEF ModesInv
    <3>2. ~Receives(e, m)
      BY <1>2, <3>1
    <3>3. CASE Rewrites(e, m)
      BY <1>5, <3>3
    <3>4. CASE ~Rewrites(e, m)
      BY <1>2, <3>1, <3>2, <3>4 DEF Concerns, Undisturbed
    <3>. QED  BY <3>3, <3>4
  <2>. QED  BY <1>1, <1>4, <1>6, <2>1, <2>2, ChatKept
<1>. QED  BY <1>1, <1>3, <1>6, <1>7, <1>8, <1>10, <1>11

\* the creation of a conversation, a new member and an acknowledgement change no message's text
LEMMA NoConcern ==
  ASSUME NEW e, e.type \in {"created", "added", "status"}
  PROVE  \A m : ~Concerns(e, m) /\ ~Rewrites(e, m) /\ ~Receives(e, m)
BY DEF Concerns, Rewrites, Receives

LEMMA StoreMessageConv ==
  ASSUME ConvInv, NEW c \in Convs, StoreMessage(c), NEW m0, m0 = <<c, next[c] + 1>>
  PROVE  ConvInv'
<1>. DEFINE e == Event("received", c, m0)
<1>0. StoreInv
  BY DEF ConvInv
<1>1. /\ c \in convs /\ next[c] < PerConv /\ store' = [store EXCEPT ![m0] = Message("delivered")]
      /\ next' = [next EXCEPT ![c] = @ + 1] /\ Writes(e) /\ convs' = convs /\ members' = members
  BY DEF StoreMessage
<1>2. next[c] \in Nat /\ next'[c] = next[c] + 1 /\ next' \in [Convs -> Nat]
      /\ \A d \in Convs : next'[d] = next[d] \/ next'[d] = next[d] + 1
  BY <1>0, <1>1 DEF StoreInv
<1>3. m0 \in Msgs /\ ConvOf(m0) = c /\ m0[2] = next[c] + 1
  BY <1>1, <1>2, ChatAssumption DEF Msgs, ConvOf
<1>4. e \in Events /\ e.type = "received" /\ e.conv = c /\ e.about = m0
  BY <1>3, EventIn DEF Event
<1>. HIDE DEF e
<1>5. \A m : ~Rewrites(e, m) /\ (Receives(e, m) <=> m = m0) /\ (Concerns(e, m) <=> m = m0) /\ TextOf(e) = "old"
  BY <1>4 DEF Rewrites, Receives, Concerns, TextOf
<1>6. Message("delivered") \in Rows /\ Message("delivered") # None /\ Message("delivered").text = "old"
  BY ChatAssumption DEF Message, Rows
<1>7. store' \in [Msgs -> Rows \union {None}] /\ store'[m0] = Message("delivered")
      /\ \A m \in Msgs : m # m0 => store'[m] = store[m]
  BY <1>0, <1>1, <1>3, <1>6 DEF StoreInv
<1>8. StoreInv'
  <2>1. ASSUME NEW m \in Msgs, store'[m] # None PROVE ConvOf(m) \in convs /\ m[2] <= next'[ConvOf(m)]
    <3>1. CASE m = m0
      BY <1>1, <1>2, <1>3, <3>1
    <3>2. CASE m # m0
      <4>1. ConvOf(m) \in convs /\ m[2] <= next[ConvOf(m)] /\ m[2] \in Nat /\ ConvOf(m) \in Convs
        BY <1>0, <1>7, <2>1, <3>2, MsgIs DEF StoreInv
      <4>2. next[ConvOf(m)] \in Nat
        BY <1>0, <4>1 DEF StoreInv
      <4>. QED  BY <1>2, <4>1, <4>2
    <3>. QED  BY <3>1, <3>2
  <2>. QED  BY <1>0, <1>1, <1>2, <1>7, <2>1 DEF StoreInv
<1>9. Expected(m0)' = "old" /\ m0[2] <= next'[ConvOf(m0)] /\ next[ConvOf(m0)] < m0[2]
  <2>1. Expected(m0)' = "old"
    BY <1>6, <1>7 DEF Expected
  <2>2. next[c] < m0[2] /\ m0[2] <= next'[c]
    BY <1>2, <1>3
  <2>. QED  BY <1>3, <2>1, <2>2
<1>10. \A d : ~OfConversation(e, d, "created")
  BY <1>4 DEF OfConversation
<1>11. \A m \in Msgs : Receives(e, m) =>
          next[ConvOf(m)] < m[2] /\ ConvOf(m) \in convs /\ store'[m] = Message("delivered")
  BY <1>1, <1>3, <1>5, <1>7, <1>9
<1>12. \A m \in Msgs : Concerns(e, m) =>
          e.conv = ConvOf(m) /\ m[2] <= next'[ConvOf(m)] /\ TextOf(e) = Expected(m)'
  BY <1>3, <1>4, <1>5, <1>9
<1>13. e.type # "created" /\ \A d \in convs : members'[d] = members[d]
  BY <1>1, <1>4
<1>. QED  BY <1>1, <1>2, <1>4, <1>5, <1>7, <1>8, <1>10, <1>11, <1>12, <1>13, WritesKeep DEF Kept

\* A step that changes rows of the database only, none of which appears.
LEMMA StoreRows ==
  ASSUME StoreInv, UNCHANGED <<convs, members, next>>, store' \in [Msgs -> Rows \union {None}],
         \A m \in Msgs : store'[m] # None => store[m] # None
  PROVE  StoreInv'
BY DEF StoreInv

LEMMA StoreEditConv == ASSUME ConvInv, NEW m0 \in Msgs, StoreEdit(m0) PROVE ConvInv'
<1>. DEFINE c == ConvOf(m0)
            e == Event("edited", c, m0)
            row == [store[m0] EXCEPT !.text = "new"]
<1>0. StoreInv /\ c \in Convs
  BY MsgIs DEF ConvInv
<1>1. /\ FromPeer(m0) /\ store' = [store EXCEPT ![m0].text = "new"] /\ Writes(e)
      /\ UNCHANGED <<convs, members, next>>
  BY DEF StoreEdit
<1>2. store[m0] \in Rows /\ store[m0] # None
  BY <1>0, <1>1 DEF FromPeer, StoreInv
<1>3. row \in Rows /\ row.status = store[m0].status /\ row.text = "new" /\ row # None
  BY <1>2, ChatAssumption DEF Rows
<1>4. store' = [store EXCEPT ![m0] = row]
  BY <1>0, <1>1 DEF StoreInv
<1>5. e \in Events /\ e.type = "edited" /\ e.conv = c /\ e.about = m0
  BY <1>0, EventIn DEF Event
<1>. HIDE DEF e, row
<1>6. store' \in [Msgs -> Rows \union {None}] /\ store'[m0] = row /\ \A m \in Msgs : m # m0 => store'[m] = store[m]
  BY <1>0, <1>3, <1>4 DEF StoreInv
<1>7. StoreInv'
  BY <1>0, <1>1, <1>2, <1>6, StoreRows
<1>8. \A m : ~Receives(e, m) /\ (Rewrites(e, m) <=> m = m0) /\ (Concerns(e, m) <=> m = m0) /\ TextOf(e) = "new"
  BY <1>5 DEF Rewrites, Receives, Concerns, TextOf
<1>9. Expected(m0)' = "new" /\ m0[2] <= next'[ConvOf(m0)]
  BY <1>0, <1>1, <1>2, <1>3, <1>6 DEF Expected, StoreInv
<1>10. \A d : ~OfConversation(e, d, "created")
  BY <1>5 DEF OfConversation
<1>. QED  BY <1>1, <1>3, <1>5, <1>6, <1>7, <1>8, <1>9, <1>10, WritesKeep DEF Kept

LEMMA StoreDeletionConv == ASSUME ConvInv, NEW m0 \in Msgs, StoreDeletion(m0) PROVE ConvInv'
<1>. DEFINE c == ConvOf(m0)
            e == Event("deleted", c, m0)
<1>0. StoreInv /\ c \in Convs
  BY MsgIs DEF ConvInv
<1>1. /\ FromPeer(m0) /\ store' = [store EXCEPT ![m0] = None] /\ Writes(e)
      /\ UNCHANGED <<convs, members, next>>
  BY DEF StoreDeletion
<1>5. e \in Events /\ e.type = "deleted" /\ e.conv = c /\ e.about = m0
  BY <1>0, EventIn DEF Event
<1>. HIDE DEF e
<1>6. store' \in [Msgs -> Rows \union {None}] /\ store'[m0] = None /\ \A m \in Msgs : m # m0 => store'[m] = store[m]
  BY <1>0, <1>1 DEF StoreInv
<1>7. StoreInv'
  BY <1>0, <1>1, <1>6, StoreRows
<1>8. \A m : ~Receives(e, m) /\ (Rewrites(e, m) <=> m = m0) /\ (Concerns(e, m) <=> m = m0) /\ TextOf(e) = "deleted"
  BY <1>5 DEF Rewrites, Receives, Concerns, TextOf
<1>9. Expected(m0)' = "deleted" /\ m0[2] <= next'[ConvOf(m0)]
  BY <1>0, <1>1, <1>6 DEF Expected, StoreInv, FromPeer
<1>10. \A d : ~OfConversation(e, d, "created")
  BY <1>5 DEF OfConversation
<1>. QED  BY <1>1, <1>5, <1>6, <1>7, <1>8, <1>9, <1>10, WritesKeep DEF Kept

LEMMA StoreStatusConv == ASSUME ConvInv, NEW m0 \in Msgs, StoreStatus(m0) PROVE ConvInv'
<1>. DEFINE c == ConvOf(m0)
            e == Event("status", c, None)
            row == [store[m0] EXCEPT !.status = "read"]
<1>0. StoreInv /\ c \in Convs
  BY MsgIs DEF ConvInv
<1>1. /\ store' = IF FromPeer(m0) THEN [store EXCEPT ![m0].status = "read"] ELSE store
      /\ Writes(e) /\ UNCHANGED <<convs, members, next>>
  BY DEF StoreStatus
<1>2. e \in Events /\ e.type = "status" /\ e.conv = c
  BY <1>0, EventIn DEF Event
<1>. HIDE DEF e
<1>3. store' \in [Msgs -> Rows \union {None}] /\ \A m \in Msgs : Kept(m)
  <2>1. CASE FromPeer(m0)
    <3>1. store[m0] \in Rows /\ store[m0] # None
      BY <1>0, <2>1 DEF FromPeer, StoreInv
    <3>2. row \in Rows /\ row.status = "read" /\ row.text = store[m0].text /\ row # None
      BY <3>1, ChatAssumption DEF Rows
    <3>3. store' = [store EXCEPT ![m0] = row]
      BY <1>0, <1>1, <2>1 DEF StoreInv
    <3>. HIDE DEF row
    <3>4. store' \in [Msgs -> Rows \union {None}] /\ store'[m0] = row
          /\ \A m \in Msgs : m # m0 => store'[m] = store[m]
      BY <1>0, <3>2, <3>3 DEF StoreInv
    <3>. QED  BY <2>1, <3>2, <3>4 DEF Kept
  <2>2. CASE ~FromPeer(m0)
    BY <1>0, <1>1, <2>2 DEF Kept, StoreInv
  <2>. QED  BY <2>1, <2>2
<1>4. StoreInv'
  <2>1. \A m \in Msgs : store'[m] # None => store[m] # None
    BY <1>3 DEF Kept, FromPeer
  <2>. QED  BY <1>0, <1>1, <1>3, <2>1, StoreRows
<1>5. \A d : ~OfConversation(e, d, "created")
  BY <1>2 DEF OfConversation
<1>. QED  BY <1>1, <1>2, <1>3, <1>4, <1>5, NoConcern, WritesKeep

LEMMA StoreMemberConv == ASSUME ConvInv, NEW c \in Convs, NEW u \in Peers, StoreMember(c, u) PROVE ConvInv'
<1>. DEFINE e == Event("added", c, None)
<1>0. StoreInv
  BY DEF ConvInv
<1>1. /\ c \in convs /\ members' = [members EXCEPT ![c] = @ \union {u}] /\ Writes(e)
      /\ UNCHANGED <<convs, store, next>>
  BY DEF StoreMember
<1>2. e \in Events /\ e.type = "added" /\ e.conv = c
  BY EventIn DEF Event
<1>. HIDE DEF e
<1>3. /\ members' \in [Convs -> SUBSET Peers] /\ members'[c] = members[c] \union {u}
      /\ \A d \in Convs : d # c => members'[d] = members[d]
  BY <1>0, <1>1 DEF StoreInv
<1>4. StoreInv'
  BY <1>0, <1>1, <1>3 DEF StoreInv
<1>5. OfConversation(e, c, "added")
  BY <1>2 DEF OfConversation
<1>6. \A d \in convs : members[d] \subseteq members'[d]
                       /\ (members'[d] = members[d] \/ OfConversation(e, d, "added"))
  BY <1>0, <1>3, <1>5 DEF StoreInv
<1>. QED  BY <1>1, <1>2, <1>4, <1>6, NoConcern, WritesKeep DEF Kept

LEMMA StoreConversationConv ==
  ASSUME ConvInv, NEW c \in Convs, NEW p \in SUBSET Peers, StoreConversation(c, p)
  PROVE  ConvInv'
<1>. DEFINE e == Event("created", c, p)
<1>0. StoreInv
  BY DEF ConvInv
<1>1. /\ c \notin convs /\ p # {} /\ convs' = convs \union {c} /\ members' = [members EXCEPT ![c] = p]
      /\ Writes(e) /\ UNCHANGED <<store, next>>
  BY DEF StoreConversation
<1>2. e \in Events /\ e.type = "created" /\ e.conv = c /\ e.about = p
  BY EventIn DEF Event
<1>. HIDE DEF e
<1>3. /\ members' \in [Convs -> SUBSET Peers] /\ members'[c] = p
      /\ \A d \in Convs : d # c => members'[d] = members[d]
  BY <1>0, <1>1 DEF StoreInv
<1>4. IsFiniteSet(convs')
  BY <1>0, <1>1, FS_AddElement DEF StoreInv
<1>5. StoreInv'
  BY <1>0, <1>1, <1>3, <1>4 DEF StoreInv
<1>6. \A d \in convs : members[d] \subseteq members'[d]
                       /\ (members'[d] = members[d] \/ OfConversation(e, d, "added"))
  BY <1>0, <1>1, <1>3 DEF StoreInv
<1>7. \A d \in convs' : d \in convs \/ OfConversation(e, d, "created")
  BY <1>1, <1>2 DEF OfConversation
<1>. QED  BY <1>1, <1>2, <1>3, <1>5, <1>6, <1>7, NoConcern, WritesKeep DEF Kept

LEMMA WorkerConv == ConvInv /\ Worker => ConvInv'
<1>1. ASSUME ConvInv, NEW c \in Convs, StoreMessage(c) PROVE ConvInv'
  BY <1>1, StoreMessageConv
<1>. QED  BY <1>1, StoreMemberConv, StoreConversationConv, StoreEditConv, StoreDeletionConv,
             StoreStatusConv DEF Worker

LEMMA EmitConv == ConvInv /\ Emit => ConvInv'
<1>. SUFFICES ASSUME ConvInv, Emit PROVE ConvInv'
  OBVIOUS
<1>. USE DEF ConvInv
<1>1. /\ UNCHANGED dbVars /\ store' = store /\ next' = next /\ excused' = excused /\ haunted' = haunted
      /\ UNCHANGED <<entries, shown, sel, peer, group, current, pc, screen, thread, form,
                     editing, confirm, reply, convs, members>>
  BY DEF Emit, authVars, dbVars, appVars, modeVars, formVars
<1>2. StoreInv' /\ \A m \in Msgs : Undisturbed(m)
  BY <1>1, StoreSame, QuietStore
<1>3. QueueInv' /\ Queue' = Queue /\ QueueGrows
  BY <1>1, <1>2, QueueSame, GrowsSame
<1>4. ScreenInv' /\ (Loaded' <=> Loaded) /\ (InChat' <=> InChat) /\ ShownMsgs' = ShownMsgs
  BY <1>1, ScreenSame
<1>5. ModesInv'
  <2>1. /\ \A m : Mine(m)' <=> Mine(m)
        /\ {editing', confirm'} \ {None} \subseteq {m \in ShownMsgs : Mine(m)'}
        /\ {reply'} \ {None} \subseteq ShownMsgs
    BY <1>1, ModesSame
  <2>2. \A m \in ShownMsgs : m \in Msgs /\ next[ConvOf(m)] <= next'[ConvOf(m)]
    BY <1>2, ShownIs DEF Undisturbed
  <2>3. \A m \in ShownMsgs : Mine(m) => store'[m] = None \/ (Own(m) /\ Own(m)')
    BY <1>1 DEF ModesInv, Own
  <2>. QED  BY <1>1, <1>2, <1>3, <1>4, <2>1, <2>2, <2>3, ModesKept
<1>6. ~haunted => ListInv'
  BY <1>1, <1>3, ListSame
<1>7. \A c : Unread(c)' = Unread(c) /\ Stored(c)' = Stored(c)
  BY <1>1 DEF Unread, Stored
<1>8. CountInv'
  BY <1>1, <1>3, <1>4, <1>7, CountKept
<1>9. \A m : Expected(m)' = Expected(m)
  BY <1>1 DEF Expected
<1>10. ChatInv'
  BY <1>1, <1>3, <1>4, <1>7, <1>9, ChatKept DEF Stored
<1>. QED  BY <1>1, <1>2, <1>3, <1>4, <1>5, <1>6, <1>8, <1>10

-----------------------------------------------------------------------------
(* Handling an event. *)

Handles(e) ==
  /\ Polled /\ e = Head(events) /\ Idle
  /\ UNCHANGED <<convs, members, next, pending, pc, sel, current, screen, thread, editing, confirm,
                 reply, form, group, peer>>

\* what is known of the event that is being handled, and of the queue after it
LEMMA HandlesTells ==
  ASSUME ConvInv, NEW e, Handles(e)
  PROVE  /\ e \in Events /\ Loaded /\ Loaded' /\ (InChat' <=> InChat) /\ Counted
         /\ \A k \in DOMAIN Queue' : k + 1 \in DOMAIN Queue /\ Queue'[k] = Queue[k + 1]
         /\ e.type = "created" => e.about # {}
         /\ \A m \in Msgs : Concerns(e, m) =>
              /\ e.conv = ConvOf(m) /\ m[2] <= next[ConvOf(m)] /\ ~Own(m)
              /\ TextOf(e) = Expected(m) \/ m \in excused \/ Rewritten(Queue', 0, m)
              /\ m \in ShownMsgs => ~Mine(m)
         /\ \A m : Arrives(Queue, m) => Arrives(Queue', m) \/ Receives(e, m)
         /\ \A type, c : Tells(Queue, 0, type, c) => Tells(Queue', 0, type, c) \/ OfConversation(e, c, type)
         /\ \A k \in DOMAIN Queue' : \A type, c : Tells(Queue, k + 1, type, c) => Tells(Queue', k, type, c)
         /\ \A m : Rewritten(Queue, 0, m) => Rewritten(Queue', 0, m) \/ Rewrites(e, m)
         /\ \A m : ArrivesListed(Queue, m) =>
              ArrivesListed(Queue', m) \/ (OfConversation(e, ConvOf(m), "created") /\ Arrives(Queue', m))
<1>1. Queue \in Seq(Events) /\ Queue # <<>> /\ e = Head(Queue) /\ Queue' = Tail(Queue)
  BY QueueType, QueueShrinks DEF ConvInv, Handles
<1>2. e \in Events /\ 1 \in DOMAIN Queue /\ e = Queue[1]
  BY <1>1, TailTells
<1>3. Loaded /\ Loaded' /\ (InChat' <=> InChat)
  BY DEF Handles, Idle, Loaded, InChat
<1>4. Counted
  BY <1>3 DEF ConvInv, CountInv
<1>5. \A k \in DOMAIN Queue' : k \in Nat /\ k + 1 \in DOMAIN Queue /\ Queue'[k] = Queue[k + 1]
  BY <1>1, TailTells
<1>6. e.type = "created" => e.about # {}
  BY <1>2 DEF ConvInv, QueueInv
<1>7. ASSUME NEW m \in Msgs, Concerns(e, m)
      PROVE  /\ e.conv = ConvOf(m) /\ m[2] <= next[ConvOf(m)] /\ ~Own(m)
             /\ TextOf(e) = Expected(m) \/ m \in excused \/ Rewritten(Queue', 0, m)
             /\ m \in ShownMsgs => ~Mine(m)
  <2>1. /\ e.conv = ConvOf(m) /\ m[2] <= next[ConvOf(m)] /\ ~Own(m)
        /\ TextOf(e) = Expected(m) \/ m \in excused \/ Rewritten(Queue, 1, m)
    BY <1>2, <1>7 DEF ConvInv, QueueInv
  <2>2. Rewritten(Queue, 0 + 1, m) => Rewritten(Queue', 0, m)
    BY <1>1, TailTells
  <2>3. m \in ShownMsgs => ~Mine(m)
    BY <1>2, <1>7 DEF ConvInv, ModesInv
  <2>. QED  BY <2>1, <2>2, <2>3
<1>8. /\ \A m : Arrives(Queue, m) => Arrives(Queue', m) \/ Receives(e, m)
      /\ \A type, c : Tells(Queue, 0, type, c) => Tells(Queue', 0, type, c) \/ OfConversation(e, c, type)
      /\ \A m : Rewritten(Queue, 0, m) => Rewritten(Queue', 0, m) \/ Rewrites(e, m)
      /\ \A m : ArrivesListed(Queue, m) =>
           ArrivesListed(Queue', m) \/ (OfConversation(e, ConvOf(m), "created") /\ Arrives(Queue', m))
  BY <1>1, TailTells
<1>9. \A k \in DOMAIN Queue' : \A type, c : Tells(Queue, k + 1, type, c) => Tells(Queue', k, type, c)
  BY <1>1, <1>5, TailTells
<1>. QED  BY <1>2, <1>3, <1>4, <1>5, <1>6, <1>7, <1>8, <1>9

\* the entries that were there keep their places
LEMMA HandlesScreen ==
  ASSUME ConvInv, NEW e, Handles(e),
         entries' \in Seq(Entries), shown' \in Seq(Copies), Listed \subseteq Listed',
         current = None => shown' = shown
  PROVE  ScreenInv'
<1>1. Loaded /\ Loaded' /\ (InChat' <=> InChat) /\ ScreenInv /\ Idle
  BY HandlesTells DEF Handles, ConvInv
<1>2. screen = "Conversations" => current = None /\ shown' = <<>>
  BY <1>1 DEF ScreenInv, Idle
<1>3. current # None => current \in Listed'
  BY <1>1 DEF ScreenInv
<1>4. UNCHANGED <<pc, sel, current, screen, thread, editing, confirm, reply, form, group, peer>>
  BY DEF Handles
<1>. QED  BY <1>1, <1>2, <1>3, <1>4 DEF ScreenInv

\* the list keeps its invariant when an event is handled that adds to its entries
LEMMA HandlesList ==
  ASSUME ConvInv, NEW e, Handles(e), ~haunted,
         entries \in Seq(Entries), entries' \in Seq(Entries), Len(entries) <= Len(entries'),
         \A i \in DOMAIN entries : entries'[i].conv = entries[i].conv,
         \A i \in DOMAIN entries : Cardinality(entries[i].peers) <= Cardinality(entries'[i].peers)
                                   /\ Cardinality(entries[i].peers) \in Nat
                                   /\ Cardinality(entries'[i].peers) \in Nat,
         \A i, j \in DOMAIN entries' : entries'[i].conv = entries'[j].conv => i = j,
         \A i \in DOMAIN entries' :
           /\ entries'[i].conv \in convs /\ entries'[i].peers # {}
           /\ entries'[i].peers \subseteq members[entries'[i].conv]
           /\ entries'[i].peers = members[entries'[i].conv] \/ Tells(Queue', 0, "added", entries'[i].conv)
  PROVE  ListInv'
<1>1. ListInv /\ UNCHANGED <<convs, members, sel, screen, current, peer>>
  BY DEF ConvInv, Handles
<1>2. DOMAIN entries \subseteq DOMAIN entries'
  OBVIOUS
<1>3. Listed \subseteq Listed'
  BY <1>2 DEF Listed
<1>4. ASSUME NEW k \in DOMAIN Queue', Queue'[k].type = "created"
      PROVE  /\ Queue'[k].conv \in convs /\ Queue'[k].about \subseteq members[Queue'[k].conv]
             /\ \/ Queue'[k].conv \in Listed' \/ Queue'[k].about = members[Queue'[k].conv]
                \/ Tells(Queue', k, "added", Queue'[k].conv)
  <2>1. k + 1 \in DOMAIN Queue /\ Queue'[k] = Queue[k + 1]
        /\ \A type, c : Tells(Queue, k + 1, type, c) => Tells(Queue', k, type, c)
    BY HandlesTells
  <2>. QED  BY <1>1, <1>3, <1>4, <2>1 DEF ListInv
<1>5. entries' = <<>> => sel' = 1
  BY <1>1 DEF ListInv
<1>6. entries' # <<>> => sel' \in DOMAIN entries'
  BY <1>1, <1>2 DEF ListInv
<1>7. ASSUME screen = "ConversationInfo"
      PROVE  \E i \in DOMAIN entries' : entries'[i].conv = current /\ peer \in 1 .. Cardinality(entries'[i].peers)
  <2>1. PICK i \in DOMAIN entries : entries[i].conv = current /\ peer \in 1 .. Cardinality(entries[i].peers)
    BY <1>1, <1>7 DEF ListInv
  <2>. QED  BY <1>2, <2>1
<1>. QED  BY <1>1, <1>4, <1>5, <1>6, <1>7 DEF ListInv

\* A member list of an entry is finite.
LEMMA EntryPeers ==
  ASSUME ScreenInv, NEW i \in DOMAIN entries
  PROVE  entries[i] \in Entries /\ entries[i].conv \in Convs /\ entries[i].unread \in Nat
         /\ entries[i].peers \subseteq Peers /\ IsFiniteSet(entries[i].peers)
         /\ Cardinality(entries[i].peers) \in Nat
<1>1. entries[i] \in Entries
  BY DEF ScreenInv
<1>2. entries[i].peers \subseteq Peers /\ entries[i].conv \in Convs /\ entries[i].unread \in Nat
  BY <1>1 DEF Entries
<1>3. IsFiniteSet(Peers)
  BY ChatAssumption
<1>4. IsFiniteSet(entries[i].peers)
  BY <1>2, <1>3, FS_Subset
<1>. QED  BY <1>1, <1>2, <1>4, FS_CardinalityType

\* The message of an event is not one that the user sent here.
LEMMA HandlesModes ==
  ASSUME ConvInv, StoreInv', NEW e, Handles(e),
         \A m \in ShownMsgs' : m \in ShownMsgs \/ (Concerns(e, m) /\ m \in Msgs /\ ConvOf(m) = current),
         ShownMsgs \subseteq ShownMsgs',
         \A m : Mine(m)' <=> Mine(m),
         \A m \in Msgs : Undisturbed(m),
         \A m \in Msgs : Mine(m) => store'[m] = store[m]
  PROVE  ModesInv'
<1>0. ModesInv /\ ShownMsgs \subseteq Msgs /\ StoreInv
      /\ UNCHANGED <<editing, confirm, reply, current, next>>
  BY ShownIs DEF ConvInv, Handles
<1>1. \A m : Mine(m) => m \in ShownMsgs
  BY DEF Mine, ShownMsgs
<1>2. ASSUME NEW m \in ShownMsgs' PROVE ConvOf(m) = current' /\ m[2] <= next'[ConvOf(m)]
  <2>1. CASE m \in ShownMsgs
    BY <1>0, <2>1 DEF ModesInv
  <2>2. CASE Concerns(e, m) /\ m \in Msgs /\ ConvOf(m) = current
    BY <1>0, <2>2, HandlesTells
  <2>. QED  BY <2>1, <2>2
<1>3. ASSUME NEW m \in ShownMsgs', Mine(m)'
      PROVE  /\ store'[m] = None \/ Own(m)'
             /\ \A k \in DOMAIN Queue' : ~Concerns(Queue'[k], m)
  <2>1. Mine(m) /\ m \in ShownMsgs
    BY <1>1, <1>3
  <2>2. store'[m] = None \/ Own(m)'
    BY <1>0, <2>1 DEF ModesInv, Own
  <2>3. \A k \in DOMAIN Queue' : ~Concerns(Queue'[k], m)
    BY <1>0, <2>1, HandlesTells DEF ModesInv
  <2>. QED  BY <2>2, <2>3
<1>4. /\ {editing', confirm'} \ {None} \subseteq {m \in ShownMsgs' : Mine(m)'}
      /\ {reply'} \ {None} \subseteq ShownMsgs'
  BY <1>0 DEF ModesInv
<1>. QED  BY <1>2, <1>3, <1>4 DEF ModesInv

\* what is unread and no event will count, when the event only leaves the queue
LEMMA HandlesDue ==
  ASSUME ConvInv, NEW e, Handles(e), NEW c \in Convs, excused \subseteq excused',
         \A m \in Msgs : m \in Unread(c)' => m \in Unread(c) \/ m \in excused'
  PROVE  \A m \in Due(c)' : m \in Due(c) \/ (Receives(e, m) /\ m \in Unread(c) /\ m \in Msgs)
<1>1. Unread(c)' \subseteq Msgs
  BY DEF Unread, Stored
<1>. SUFFICES ASSUME NEW m \in Due(c)' PROVE m \in Due(c) \/ (Receives(e, m) /\ m \in Unread(c) /\ m \in Msgs)
  OBVIOUS
<1>2. m \in Unread(c)' /\ m \notin excused' /\ ~Arrives(Queue', m)
  BY DEF Due
<1>3. m \in Unread(c) \ excused /\ m \in Msgs
  BY <1>1, <1>2
<1>4. Arrives(Queue, m) => Receives(e, m)
  BY <1>2, HandlesTells
<1>. QED  BY <1>3, <1>4 DEF Due

\* what CountUnread and RefreshEntry make of the entries
LEMMA CountUnreadIs ==
  ASSUME ScreenInv, NEW c, CountUnread(c)
  PROVE  /\ entries' \in Seq(Entries) /\ DOMAIN entries' = DOMAIN entries /\ Len(entries') = Len(entries)
         /\ Listed' = Listed
         /\ \A i \in DOMAIN entries :
              /\ entries'[i].conv = entries[i].conv /\ entries'[i].peers = entries[i].peers
              /\ entries'[i].unread = IF entries[i].conv = c /\ current # c
                                        THEN entries[i].unread + 1 ELSE entries[i].unread
<1>1. ASSUME NEW i \in DOMAIN entries
      PROVE  LET x == [entries[i] EXCEPT !.unread = @ + 1]
             IN x \in Entries /\ x.conv = entries[i].conv /\ x.peers = entries[i].peers
                /\ x.unread = entries[i].unread + 1
  <2>1. entries[i] \in Entries
    BY EntryPeers
  <2>. QED  BY <2>1 DEF Entries
<1>2. entries \in Seq(Entries)
  BY DEF ScreenInv
<1>3. DOMAIN entries' = DOMAIN entries /\ \A i \in DOMAIN entries :
        entries'[i] = IF entries[i].conv = c /\ current # c
                        THEN [entries[i] EXCEPT !.unread = @ + 1] ELSE entries[i]
  BY DEF CountUnread
<1>4. ASSUME NEW i \in DOMAIN entries
      PROVE  /\ entries'[i] \in Entries /\ entries'[i].conv = entries[i].conv /\ entries'[i].peers = entries[i].peers
             /\ entries'[i].unread = IF entries[i].conv = c /\ current # c
                                       THEN entries[i].unread + 1 ELSE entries[i].unread
  <2>1. CASE entries[i].conv = c /\ current # c
    BY <1>1, <1>3, <2>1
  <2>2. CASE ~(entries[i].conv = c /\ current # c)
    BY <1>3, <2>2, EntryPeers
  <2>. QED  BY <2>1, <2>2
<1>5. entries' = [i \in 1 .. Len(entries) |-> entries'[i]] /\ Len(entries) \in Nat
  BY <1>2 DEF CountUnread
<1>6. entries' \in Seq(Entries) /\ Len(entries') = Len(entries)
  BY <1>2, <1>4, <1>5
<1>7. Listed' = Listed
  BY <1>3, <1>4 DEF Listed
<1>. QED  BY <1>3, <1>4, <1>6, <1>7

\* what the refresh of an entry changes
LEMMA RefreshIs ==
  ASSUME StoreInv, ScreenInv, NEW c, RefreshEntry(c), members' \in [Convs -> SUBSET Peers]
  PROVE  /\ entries' \in Seq(Entries) /\ DOMAIN entries' = DOMAIN entries /\ Len(entries') = Len(entries)
         /\ Listed' = Listed
         /\ \A i \in DOMAIN entries :
              /\ entries'[i].conv = entries[i].conv /\ entries'[i].unread = entries[i].unread
              /\ entries'[i].peers = IF entries[i].conv = c /\ c \in convs THEN members'[c] ELSE entries[i].peers
<1>1. ASSUME NEW i \in DOMAIN entries, c \in convs
      PROVE  LET x == [entries[i] EXCEPT !.peers = members'[c]]
             IN x \in Entries /\ x.conv = entries[i].conv /\ x.peers = members'[c]
                /\ x.unread = entries[i].unread
  <2>1. entries[i] \in Entries
    BY EntryPeers
  <2>2. members'[c] \in SUBSET Peers
    BY <1>1 DEF StoreInv
  <2>. QED  BY <2>1, <2>2 DEF Entries
<1>2. entries \in Seq(Entries)
  BY DEF ScreenInv
<1>3. DOMAIN entries' = DOMAIN entries /\ \A i \in DOMAIN entries :
        entries'[i] = IF entries[i].conv = c /\ c \in convs
                        THEN [entries[i] EXCEPT !.peers = members'[c]] ELSE entries[i]
  BY DEF RefreshEntry
<1>4. ASSUME NEW i \in DOMAIN entries
      PROVE  /\ entries'[i] \in Entries /\ entries'[i].conv = entries[i].conv /\ entries'[i].unread = entries[i].unread
             /\ entries'[i].peers = IF entries[i].conv = c /\ c \in convs THEN members'[c] ELSE entries[i].peers
  <2>1. CASE entries[i].conv = c /\ c \in convs
    BY <1>1, <1>3, <2>1
  <2>2. CASE ~(entries[i].conv = c /\ c \in convs)
    BY <1>3, <2>2, EntryPeers
  <2>. QED  BY <2>1, <2>2
<1>5. entries' = [i \in 1 .. Len(entries) |-> entries'[i]] /\ Len(entries) \in Nat
  BY <1>2 DEF RefreshEntry
<1>6. entries' \in Seq(Entries) /\ Len(entries') = Len(entries)
  BY <1>2, <1>4, <1>5
<1>7. Listed' = Listed
  BY <1>3, <1>4 DEF Listed
<1>. QED  BY <1>3, <1>4, <1>6, <1>7

\* mark_as_read leaves the text, and the sender
LEMMA MarkAsReadIs ==
  ASSUME StoreInv, NEW m0 \in Msgs, MarkAsRead(m0) \/ UNCHANGED <<store, fails, excused>>
  PROVE  /\ store' \in [Msgs -> Rows \union {None}] /\ excused \subseteq excused'
         /\ \A m \in Msgs : m # m0 => store'[m] = store[m]
         /\ \A m \in Msgs : /\ store'[m] # None <=> store[m] # None
                            /\ Expected(m)' = Expected(m)
                            /\ Own(m)' => Own(m)
                            /\ \A c : m \in Unread(c)' => m \in Unread(c)
<1>1. CASE UNCHANGED <<store, excused>> \/ (UNCHANGED store /\ excused \subseteq excused')
  BY <1>1 DEF StoreInv, Expected, Own, Unread, Stored
<1>2. CASE store[m0] # None /\ store' = [store EXCEPT ![m0].status = "read"] /\ excused' = excused
  <2>. DEFINE row == [store[m0] EXCEPT !.status = "read"]
  <2>1. store[m0] \in Rows
    BY <1>2 DEF StoreInv
  <2>2. row \in Rows /\ row.text = store[m0].text /\ row.status = "read" /\ row # None
    BY <2>1, ChatAssumption DEF Rows
  <2>3. store' = [store EXCEPT ![m0] = row]
    BY <1>2 DEF StoreInv
  <2>. HIDE DEF row
  <2>4. store' \in [Msgs -> Rows \union {None}] /\ store'[m0] = row /\ \A m \in Msgs : m # m0 => store'[m] = store[m]
    BY <2>2, <2>3 DEF StoreInv
  <2>. QED  BY <1>2, <2>2, <2>4 DEF Expected, Own, Unread, Stored
<1>3. CASE store' = store /\ excused' = excused
  BY <1>1, <1>3
<1>. QED  BY <1>1, <1>2, <1>3 DEF MarkAsRead

\* The events, one by one: a message that arrives,
LEMMA ReceivedConv ==
  ASSUME ConvInv, NEW e, Handles(e), e.type = "received", OnReceived(e.conv, e.about)
  PROVE  ConvInv'
<1>. DEFINE c == e.conv
            m0 == e.about
            copy == [msg |-> m0, mine |-> FALSE, text |-> "old"]
<1>0. /\ StoreInv /\ QueueInv /\ ScreenInv /\ ModesInv /\ CountInv /\ ChatInv
      /\ UNCHANGED <<convs, members, next, current>> /\ haunted' = haunted
      /\ current \in Convs \union {None}
  BY DEF ConvInv, Handles, OnReceived, ScreenInv
<1>1. e \in Events /\ c \in Convs /\ m0 \in Msgs /\ m0 # None
  BY HandlesTells, EventIs, MsgIs
<1>2. /\ \A m : ~Rewrites(e, m) /\ (Receives(e, m) <=> m = m0) /\ (Concerns(e, m) <=> m = m0)
      /\ \A d : ~OfConversation(e, d, "created") /\ ~OfConversation(e, d, "added")
      /\ TextOf(e) = "old"
  BY DEF Rewrites, Receives, Concerns, TextOf, OfConversation
<1>3. /\ c = ConvOf(m0) /\ m0[2] <= next[c] /\ ~Own(m0)
      /\ "old" = Expected(m0) \/ m0 \in excused \/ Rewritten(Queue', 0, m0)
      /\ m0 \in ShownMsgs => ~Mine(m0)
  BY <1>1, <1>2, HandlesTells
<1>4. CountUnread(c) /\ (MarkAsRead(m0) \/ UNCHANGED <<store, fails, excused>>)
  BY DEF OnReceived
<1>5. shown' = IF current = c THEN Append(shown, copy) ELSE shown
  BY DEF OnReceived
<1>6. /\ store' \in [Msgs -> Rows \union {None}] /\ excused \subseteq excused'
      /\ \A m \in Msgs : m # m0 => store'[m] = store[m]
      /\ \A m \in Msgs : /\ store'[m] # None <=> store[m] # None
                         /\ Expected(m)' = Expected(m)
                         /\ Own(m)' => Own(m)
                         /\ \A d : m \in Unread(d)' => m \in Unread(d)
  BY <1>0, <1>1, <1>4, MarkAsReadIs
<1>7. StoreInv'
  BY <1>0, <1>6 DEF StoreInv
<1>8. \A m \in Msgs : Undisturbed(m)
  <2>. SUFFICES ASSUME NEW m \in Msgs PROVE Undisturbed(m)
    OBVIOUS
  <2>1. next[ConvOf(m)] \in Nat
    BY <1>0, MsgIs DEF StoreInv
  <2>. QED  BY <1>0, <1>6, <2>1 DEF Undisturbed
<1>9. QueueInv'
  BY <1>0, <1>6, <1>7, <1>8, QueueTail DEF Handles
<1>10. /\ entries' \in Seq(Entries) /\ DOMAIN entries' = DOMAIN entries /\ Len(entries') = Len(entries)
       /\ Listed' = Listed
       /\ \A i \in DOMAIN entries :
            /\ entries'[i].conv = entries[i].conv /\ entries'[i].peers = entries[i].peers
            /\ entries'[i].unread = IF entries[i].conv = c /\ current # c
                                      THEN entries[i].unread + 1 ELSE entries[i].unread
  BY <1>0, <1>4, CountUnreadIs
<1>11. copy \in Copies /\ copy.msg = m0 /\ copy.mine = FALSE /\ copy.text = "old"
  BY <1>1 DEF Copies
<1>12. shown \in Seq(Copies) /\ entries \in Seq(Entries)
  BY <1>0 DEF ScreenInv
<1>. HIDE DEF copy, c, m0
<1>13. /\ shown' \in Seq(Copies)
       /\ DOMAIN shown \subseteq DOMAIN shown' /\ Len(shown) \in Nat
       /\ \A i \in DOMAIN shown : shown'[i] = shown[i] /\ i < Len(shown) + 1 /\ i \in Nat
       /\ \A i \in DOMAIN shown' : i \in DOMAIN shown \/ (current = c /\ i = Len(shown) + 1 /\ shown'[i] = copy)
       /\ current = c => Len(shown) + 1 \in DOMAIN shown' /\ shown'[Len(shown) + 1] = copy
  BY <1>5, <1>11, <1>12
<1>14. ScreenInv'
  BY <1>1, <1>5, <1>10, <1>13, HandlesScreen, ChatAssumption
<1>15. /\ ShownMsgs \subseteq ShownMsgs'
       /\ \A m \in ShownMsgs' : m \in ShownMsgs \/ (current = c /\ m = m0)
       /\ current = c => m0 \in ShownMsgs'
       /\ \A m : Mine(m)' <=> Mine(m)
  BY <1>11, <1>13 DEF ShownMsgs, Mine
<1>16. ModesInv'
  <2>1. \A m \in Msgs : Mine(m) => store'[m] = store[m]
    BY <1>3, <1>6 DEF ShownMsgs, Mine
  <2>. QED  BY <1>1, <1>2, <1>3, <1>7, <1>8, <1>15, <2>1, HandlesModes
<1>17. ASSUME ~haunted PROVE ListInv'
  <2>1. ListInv
    BY <1>17 DEF ConvInv
  <2>2. \A d : Tells(Queue, 0, "added", d) => Tells(Queue', 0, "added", d)
    BY <1>2, HandlesTells
  <2>3. \A i \in DOMAIN entries' :
           /\ entries'[i].conv \in convs /\ entries'[i].peers # {}
           /\ entries'[i].peers \subseteq members[entries'[i].conv]
           /\ entries'[i].peers = members[entries'[i].conv] \/ Tells(Queue', 0, "added", entries'[i].conv)
    BY <1>10, <2>1, <2>2 DEF ListInv
  <2>4. \A i \in DOMAIN entries : Cardinality(entries[i].peers) \in Nat
                                  /\ Cardinality(entries'[i].peers) = Cardinality(entries[i].peers)
    BY <1>0, <1>10, EntryPeers
  <2>5. \A i \in DOMAIN entries : Cardinality(entries[i].peers) <= Cardinality(entries'[i].peers)
                                  /\ Cardinality(entries[i].peers) \in Nat
                                  /\ Cardinality(entries'[i].peers) \in Nat
    BY <2>4
  <2>6. \A i, j \in DOMAIN entries' : entries'[i].conv = entries'[j].conv => i = j
    BY <1>10, <2>1 DEF ListInv
  <2>7. Len(entries) <= Len(entries')
    BY <1>10, <1>12
  <2>. QED  BY <1>10, <1>12, <1>17, <2>3, <2>5, <2>6, <2>7, HandlesList
<1>18. Counted'
  <2>0. Counted
    BY HandlesTells
  <2>1. \A d \in convs' : d \in Listed' \/ Tells(Queue', 0, "created", d)
    BY <1>0, <1>2, <1>10, <2>0, HandlesTells DEF Counted
  <2>2. ASSUME NEW d \in Convs \ Listed', NEW m \in Unread(d)' \ excused' PROVE ArrivesListed(Queue', m)
    <3>1. m \in Msgs
      BY <2>2 DEF Unread, Stored
    <3>2. m \in Unread(d) \ excused
      BY <1>6, <2>2, <3>1
    <3>. QED  BY <1>2, <1>10, <2>0, <2>2, <3>2, HandlesTells DEF Counted
  <2>3. ASSUME NEW d \in Convs, NEW i \in DOMAIN entries', entries'[i].conv = d, d # current'
        PROVE  Cardinality(Due(d)') <= entries'[i].unread
    <3>1. /\ IsFiniteSet(Due(d)) /\ Cardinality(Due(d)) \in Nat /\ Cardinality(Due(d)) <= entries[i].unread
          /\ entries[i].unread \in Nat
      BY <1>0, <1>10, <2>0, <2>3, DueFinite, EntryPeers DEF Counted
    <3>2. \A m \in Msgs : m \in Unread(d)' => m \in Unread(d) \/ m \in excused'
      BY <1>6
    <3>3. \A m \in Due(d)' : m \in Due(d) \/ (m = m0 /\ d = c)
      <4>1. \A m \in Due(d)' : m \in Due(d) \/ (Receives(e, m) /\ m \in Unread(d) /\ m \in Msgs)
        BY <1>6, <3>2, HandlesDue
      <4>. QED  BY <1>2, <1>3, <4>1 DEF Unread, Stored
    <3>4. CASE d = c
      <4>1. Due(d)' \subseteq Due(d) \union {m0}
        BY <3>3
      <4>2. IsFiniteSet(Due(d) \union {m0}) /\ Cardinality(Due(d) \union {m0}) <= Cardinality(Due(d)) + 1
            /\ Cardinality(Due(d) \union {m0}) \in Nat
        <5>1. IsFiniteSet(Due(d) \union {m0})
              /\ Cardinality(Due(d) \union {m0}) = IF m0 \in Due(d) THEN Cardinality(Due(d)) ELSE Cardinality(Due(d)) + 1
          BY <3>1, FS_AddElement
        <5>. QED  BY <3>1, <5>1
      <4>3. IsFiniteSet(Due(d)') /\ Cardinality(Due(d)') <= Cardinality(Due(d) \union {m0})
        BY <4>1, <4>2, FS_Subset
      <4>4. Cardinality(Due(d)') \in Nat
        BY <4>3, FS_CardinalityType
      <4>5. entries'[i].unread = entries[i].unread + 1
        BY <1>0, <1>10, <2>3, <3>4
      <4>. QED  BY <3>1, <4>2, <4>3, <4>4, <4>5
    <3>5. CASE d # c
      <4>1. Due(d)' \subseteq Due(d)
        BY <3>3, <3>5
      <4>2. IsFiniteSet(Due(d)') /\ Cardinality(Due(d)') <= Cardinality(Due(d))
        BY <3>1, <4>1, FS_Subset
      <4>3. Cardinality(Due(d)') \in Nat
        BY <4>2, FS_CardinalityType
      <4>4. entries'[i].unread = entries[i].unread
        BY <1>10, <2>3, <3>5
      <4>. QED  BY <3>1, <4>2, <4>3, <4>4
    <3>. QED  BY <3>4, <3>5
  <2>. QED  BY <2>1, <2>2, <2>3 DEF Counted
<1>19. ASSUME InChat' PROVE Shows'
  <2>0. Shows
    BY <1>0, <1>19, HandlesTells DEF ChatInv
  <2>1. ASSUME NEW m \in Msgs, m \in Stored(current)' \ excused'
        PROVE  m \in ShownMsgs' \/ Arrives(Queue', m)
    <3>1. m \in Stored(current) \ excused /\ ConvOf(m) = current
      BY <1>0, <1>6, <2>1 DEF Stored
    <3>2. m \in ShownMsgs \/ Arrives(Queue', m) \/ Receives(e, m)
      BY <2>0, <3>1, HandlesTells DEF Shows
    <3>. QED  BY <1>2, <1>3, <1>15, <3>1, <3>2
  <2>2. ASSUME NEW m \in Msgs, NEW i \in DOMAIN shown', shown'[i].msg = m
        PROVE  \/ \E j \in 1 .. (i - 1) : shown'[j].msg = m
               \/ shown'[i].text = Expected(m)' \/ m \in excused' \/ Rewritten(Queue', 0, m)
    <3>1. CASE i \in DOMAIN shown
      <4>1. \/ \E j \in 1 .. (i - 1) : shown[j].msg = m
            \/ shown[i].text = Expected(m) \/ m \in excused \/ Rewritten(Queue, 0, m)
        BY <1>13, <2>0, <2>2, <3>1 DEF Shows
      <4>2. Rewritten(Queue, 0, m) => Rewritten(Queue', 0, m)
        BY <1>2, HandlesTells
      <4>3. \A j \in 1 .. (i - 1) : j \in DOMAIN shown /\ shown'[j] = shown[j]
        BY <1>12, <1>13, <3>1
      <4>. QED  BY <1>6, <1>13, <3>1, <4>1, <4>2, <4>3
    <3>2. CASE shown'[i] = copy
      <4>1. m = m0 /\ shown'[i].text = "old"
        BY <1>11, <2>2, <3>2
      <4>. QED  BY <1>1, <1>3, <1>6, <4>1
    <3>. QED  BY <1>13, <2>2, <3>1, <3>2
  <2>. QED  BY <2>1, <2>2 DEF Shows
<1>. QED  BY <1>7, <1>9, <1>14, <1>16, <1>17, <1>18, <1>19, <1>0 DEF ConvInv, CountInv, ChatInv

\* an event that is about no message leaves the open conversation as it is
LEMMA HandlesChat ==
  ASSUME ConvInv, NEW e, Handles(e), UNCHANGED <<shown, store, excused, current>>,
         \A m : ~Concerns(e, m) /\ ~Rewrites(e, m) /\ ~Receives(e, m)
  PROVE  ChatInv'
<1>. SUFFICES ASSUME InChat' PROVE Shows'
  BY DEF ChatInv
<1>1. Shows
  BY HandlesTells DEF ConvInv, ChatInv
<1>2. ShownMsgs' = ShownMsgs /\ Stored(current)' = Stored(current) /\ \A m : Expected(m)' = Expected(m)
  BY DEF ShownMsgs, Stored, Expected
<1>3. \A m : /\ Arrives(Queue, m) => Arrives(Queue', m)
             /\ Rewritten(Queue, 0, m) => Rewritten(Queue', 0, m)
  BY HandlesTells
<1>4. \A m \in Msgs : m \in Stored(current)' \ excused' => m \in ShownMsgs' \/ Arrives(Queue', m)
  BY <1>1, <1>2, <1>3 DEF Shows
<1>5. ASSUME NEW m \in Msgs, NEW i \in DOMAIN shown, shown[i].msg = m
      PROVE  \/ \E j \in 1 .. (i - 1) : shown[j].msg = m
             \/ shown[i].text = Expected(m)' \/ m \in excused \/ Rewritten(Queue', 0, m)
  BY <1>1, <1>2, <1>3, <1>5 DEF Shows
<1>. QED  BY <1>4, <1>5 DEF Shows

\* a conversation that was created,
LEMMA CreatedConv ==
  ASSUME ConvInv, NEW e, Handles(e), e.type = "created", OnCreated(e.conv, e.about)
  PROVE  ConvInv'
<1>. DEFINE c == e.conv
            entry == Entry(c, 0, e.about)
<1>0. /\ StoreInv /\ QueueInv /\ ScreenInv /\ ModesInv /\ CountInv /\ ChatInv
      /\ UNCHANGED <<convs, members, next, current>>
      /\ UNCHANGED <<shown, store, excused, haunted>> /\ UNCHANGED dbVars
  BY DEF ConvInv, Handles, OnCreated, dbVars
<1>1. e \in Events /\ c \in Convs /\ e.about \subseteq Peers /\ e.about # {}
  BY HandlesTells, EventIs
<1>2. /\ \A m : ~Concerns(e, m) /\ ~Rewrites(e, m) /\ ~Receives(e, m)
      /\ \A d : (OfConversation(e, d, "created") <=> d = c) /\ ~OfConversation(e, d, "added")
  BY NoConcern DEF OfConversation
<1>3. entry \in Entries /\ entry.conv = c /\ entry.unread = 0 /\ entry.peers = e.about
  BY <1>1 DEF Entries, Entry
<1>4. entries' = IF c \in Listed THEN entries ELSE Append(entries, entry)
  BY DEF OnCreated
<1>5. entries \in Seq(Entries) /\ shown \in Seq(Copies)
  BY <1>0 DEF ScreenInv
<1>. HIDE DEF entry, c
<1>6. StoreInv' /\ \A m \in Msgs : Undisturbed(m)
  BY <1>0, StoreSame, QuietStore
<1>7. QueueInv'
  BY <1>0, <1>6, QueueTail DEF Handles
<1>8. /\ entries' \in Seq(Entries) /\ Len(entries) <= Len(entries')
      /\ DOMAIN entries \subseteq DOMAIN entries'
      /\ \A i \in DOMAIN entries : entries'[i] = entries[i]
      /\ \A i \in DOMAIN entries' : i \in DOMAIN entries \/ (c \notin Listed /\ i = Len(entries) + 1 /\ entries'[i] = entry)
      /\ c \notin Listed => Len(entries) + 1 \in DOMAIN entries' /\ entries'[Len(entries) + 1] = entry
  BY <1>3, <1>4, <1>5
<1>9. Listed' = Listed \union {c}
  BY <1>3, <1>8 DEF Listed
<1>10. ScreenInv'
  BY <1>0, <1>5, <1>8, <1>9, HandlesScreen
<1>11. ModesInv'
  <2>1. ShownMsgs' = ShownMsgs /\ \A m : Mine(m)' <=> Mine(m)
    BY <1>0 DEF ShownMsgs, Mine
  <2>. QED  BY <1>0, <1>6, <2>1, HandlesModes
<1>12. ASSUME ~haunted PROVE ListInv'
  <2>1. ListInv
    BY <1>12 DEF ConvInv
  <2>2. \A d : Tells(Queue, 0, "added", d) => Tells(Queue', 0, "added", d)
    BY <1>2, HandlesTells
  <2>3. /\ c \in convs /\ e.about \subseteq members[c]
        /\ c \in Listed \/ e.about = members[c] \/ Tells(Queue', 0, "added", c)
    <3>1. Queue # <<>> /\ e = Head(Queue) /\ Queue' = Tail(Queue) /\ Queue \in Seq(Events)
      BY <1>0, QueueShrinks, QueueType DEF Handles
    <3>2. 1 \in DOMAIN Queue /\ e = Queue[1] /\ (Tells(Queue, 0 + 1, "added", c) => Tells(Queue', 0, "added", c))
      BY <3>1, TailTells
    <3>. QED  BY <2>1, <3>2 DEF ListInv, c
  <2>4. ASSUME NEW i \in DOMAIN entries'
        PROVE  /\ entries'[i].conv \in convs /\ entries'[i].peers # {}
               /\ entries'[i].peers \subseteq members[entries'[i].conv]
               /\ entries'[i].peers = members[entries'[i].conv] \/ Tells(Queue', 0, "added", entries'[i].conv)
    <3>1. CASE i \in DOMAIN entries
      BY <1>8, <2>1, <2>2, <3>1 DEF ListInv
    <3>2. CASE c \notin Listed /\ entries'[i] = entry
      BY <1>1, <1>3, <2>3, <3>2
    <3>. QED  BY <1>8, <3>1, <3>2
  <2>5. \A i \in DOMAIN entries : Cardinality(entries[i].peers) \in Nat
                                  /\ Cardinality(entries'[i].peers) = Cardinality(entries[i].peers)
    BY <1>0, <1>8, EntryPeers
  <2>6. \A i \in DOMAIN entries : Cardinality(entries[i].peers) <= Cardinality(entries'[i].peers)
                                  /\ Cardinality(entries[i].peers) \in Nat
                                  /\ Cardinality(entries'[i].peers) \in Nat
    BY <2>5
  <2>7. \A i, j \in DOMAIN entries' : entries'[i].conv = entries'[j].conv => i = j
    <3>1. \A i \in DOMAIN entries : entries[i].conv \in Listed
      BY DEF Listed
    <3>2. \A i, j \in DOMAIN entries : entries[i].conv = entries[j].conv => i = j
      BY <2>1 DEF ListInv
    <3>. QED  BY <1>3, <1>8, <3>1, <3>2
  <2>. QED  BY <1>5, <1>8, <1>12, <2>4, <2>6, <2>7, HandlesList
<1>13. Counted'
  <2>0. Counted
    BY HandlesTells
  <2>1. \A d \in convs' : d \in Listed' \/ Tells(Queue', 0, "created", d)
    BY <1>0, <1>2, <1>9, <2>0, HandlesTells DEF Counted
  <2>2. \A d : Unread(d)' = Unread(d)
    BY <1>0 DEF Unread, Stored
  <2>3. ASSUME NEW d \in Convs \ Listed', NEW m \in Unread(d)' \ excused' PROVE ArrivesListed(Queue', m)
    <3>1. ArrivesListed(Queue, m) /\ ConvOf(m) = d /\ d # c
      BY <1>0, <1>9, <2>0, <2>2, <2>3 DEF Counted, Unread, Stored
    <3>. QED  BY <1>2, <3>1, HandlesTells
  <2>4. ASSUME NEW d \in Convs, NEW i \in DOMAIN entries', entries'[i].conv = d, d # current'
        PROVE  Cardinality(Due(d)') <= entries'[i].unread
    <3>1. CASE i \in DOMAIN entries
      <4>1. /\ IsFiniteSet(Due(d)) /\ Cardinality(Due(d)) \in Nat /\ Cardinality(Due(d)) <= entries[i].unread
            /\ entries[i].unread \in Nat /\ entries'[i] = entries[i]
        BY <1>0, <1>8, <2>0, <2>4, <3>1, DueFinite, EntryPeers DEF Counted
      <4>2. Due(d)' \subseteq Due(d)
        BY <1>0, <1>2, <2>2, HandlesDue
      <4>3. IsFiniteSet(Due(d)') /\ Cardinality(Due(d)') <= Cardinality(Due(d))
        BY <4>1, <4>2, FS_Subset
      <4>4. Cardinality(Due(d)') \in Nat
        BY <4>3, FS_CardinalityType
      <4>. QED  BY <4>1, <4>3, <4>4
    <3>2. CASE c \notin Listed /\ entries'[i] = entry
      <4>1. d = c /\ entries'[i].unread = 0
        BY <1>3, <2>4, <3>2
      <4>2. ASSUME NEW m \in Due(d)' PROVE FALSE
        <5>1. m \in Unread(d) \ excused /\ ~Arrives(Queue', m) /\ ConvOf(m) = d
          BY <1>0, <2>2, <4>2 DEF Due, Unread, Stored
        <5>2. ArrivesListed(Queue, m)
          BY <2>0, <3>2, <4>1, <5>1 DEF Counted
        <5>3. ArrivesListed(Queue', m) => Arrives(Queue', m)
          BY DEF ArrivesListed, Arrives
        <5>. QED  BY <5>1, <5>2, <5>3, HandlesTells
      <4>3. Due(d)' = {}
        BY <4>2
      <4>. QED  BY <4>1, <4>3, FS_EmptySet
    <3>. QED  BY <1>8, <2>4, <3>1, <3>2
  <2>. QED  BY <2>1, <2>3, <2>4 DEF Counted
<1>14. ChatInv'
  BY <1>0, <1>2, HandlesTells, HandlesChat
<1>. QED  BY <1>6, <1>7, <1>10, <1>11, <1>12, <1>13, <1>14, <1>0 DEF ConvInv, CountInv

\* a member that was added,
LEMMA AddedConv ==
  ASSUME ConvInv, NEW e, Handles(e), e.type = "added", OnMemberAdded(e.conv)
  PROVE  ConvInv'
<1>. DEFINE c == e.conv
<1>0. /\ StoreInv /\ QueueInv /\ ScreenInv /\ ModesInv /\ CountInv /\ ChatInv
      /\ UNCHANGED <<convs, members, next, current>>
      /\ UNCHANGED <<shown, store, excused, haunted>> /\ UNCHANGED dbVars
  BY DEF ConvInv, Handles, OnMemberAdded, dbVars
<1>1. e \in Events /\ c \in Convs
  BY HandlesTells, EventIs
<1>2. /\ \A m : ~Concerns(e, m) /\ ~Rewrites(e, m) /\ ~Receives(e, m)
      /\ \A d : ~OfConversation(e, d, "created") /\ (OfConversation(e, d, "added") <=> d = c)
  BY NoConcern DEF OfConversation
<1>3. RefreshEntry(c) /\ members' \in [Convs -> SUBSET Peers] /\ members' = members
  BY <1>0 DEF OnMemberAdded, StoreInv
<1>. HIDE DEF c
<1>5. entries \in Seq(Entries) /\ shown \in Seq(Copies)
  BY <1>0 DEF ScreenInv
<1>6. StoreInv' /\ \A m \in Msgs : Undisturbed(m)
  BY <1>0, StoreSame, QuietStore
<1>7. QueueInv'
  BY <1>0, <1>6, QueueTail DEF Handles
<1>8. /\ entries' \in Seq(Entries) /\ DOMAIN entries' = DOMAIN entries /\ Len(entries') = Len(entries)
      /\ Listed' = Listed
      /\ \A i \in DOMAIN entries :
           /\ entries'[i].conv = entries[i].conv /\ entries'[i].unread = entries[i].unread
           /\ entries'[i].peers = IF entries[i].conv = c /\ c \in convs THEN members[c] ELSE entries[i].peers
  BY <1>0, <1>3, RefreshIs
<1>10. ScreenInv'
  BY <1>0, <1>5, <1>8, HandlesScreen
<1>11. ModesInv'
  <2>1. ShownMsgs' = ShownMsgs /\ \A m : Mine(m)' <=> Mine(m)
    BY <1>0 DEF ShownMsgs, Mine
  <2>. QED  BY <1>0, <1>6, <2>1, HandlesModes
<1>12. ASSUME ~haunted PROVE ListInv'
  <2>1. ListInv
    BY <1>12 DEF ConvInv
  <2>2. \A d : Tells(Queue, 0, "added", d) => Tells(Queue', 0, "added", d) \/ d = c
    BY <1>2, HandlesTells
  <2>4. ASSUME NEW i \in DOMAIN entries'
        PROVE  /\ entries'[i].conv \in convs /\ entries'[i].peers # {}
               /\ entries'[i].peers \subseteq members[entries'[i].conv]
               /\ entries'[i].peers = members[entries'[i].conv] \/ Tells(Queue', 0, "added", entries'[i].conv)
    <3>0. /\ entries[i].conv \in convs /\ entries[i].peers # {}
          /\ entries[i].peers \subseteq members[entries[i].conv]
          /\ entries[i].peers = members[entries[i].conv] \/ Tells(Queue, 0, "added", entries[i].conv)
      BY <1>8, <2>1 DEF ListInv
    <3>1. CASE entries[i].conv = c
      BY <1>8, <3>0, <3>1
    <3>2. CASE entries[i].conv # c
      BY <1>8, <2>2, <3>0, <3>2
    <3>. QED  BY <3>1, <3>2
  <2>5. ASSUME NEW i \in DOMAIN entries
        PROVE  Cardinality(entries[i].peers) <= Cardinality(entries'[i].peers)
               /\ Cardinality(entries[i].peers) \in Nat /\ Cardinality(entries'[i].peers) \in Nat
    <3>1. entries[i].peers \subseteq entries'[i].peers
      BY <1>8, <2>1 DEF ListInv
    <3>2. entries'[i].peers \subseteq Peers
      <4>1. entries'[i] \in Entries
        BY <1>5, <1>8
      <4>. QED  BY <4>1 DEF Entries
    <3>3. IsFiniteSet(Peers)
      BY ChatAssumption
    <3>4. IsFiniteSet(entries'[i].peers)
      BY <3>2, <3>3, FS_Subset
    <3>5. IsFiniteSet(entries[i].peers) /\ Cardinality(entries[i].peers) <= Cardinality(entries'[i].peers)
      BY <3>1, <3>4, FS_Subset
    <3>. QED  BY <3>4, <3>5, FS_CardinalityType
  <2>7. \A i, j \in DOMAIN entries' : entries'[i].conv = entries'[j].conv => i = j
    BY <1>8, <2>1 DEF ListInv
  <2>8. Len(entries) <= Len(entries')
    BY <1>5, <1>8
  <2>. QED  BY <1>5, <1>8, <1>12, <2>4, <2>5, <2>7, <2>8, HandlesList
<1>13. Counted'
  <2>0. Counted
    BY HandlesTells
  <2>1. \A d \in convs' : d \in Listed' \/ Tells(Queue', 0, "created", d)
    BY <1>0, <1>2, <1>8, <2>0, HandlesTells DEF Counted
  <2>2. \A d : Unread(d)' = Unread(d)
    BY <1>0 DEF Unread, Stored
  <2>3. ASSUME NEW d \in Convs \ Listed', NEW m \in Unread(d)' \ excused' PROVE ArrivesListed(Queue', m)
    <3>1. ArrivesListed(Queue, m) /\ ConvOf(m) = d
      BY <1>0, <1>8, <2>0, <2>2, <2>3 DEF Counted, Unread, Stored
    <3>. QED  BY <1>2, <3>1, HandlesTells
  <2>4. ASSUME NEW d \in Convs, NEW i \in DOMAIN entries', entries'[i].conv = d, d # current'
        PROVE  Cardinality(Due(d)') <= entries'[i].unread
    <4>1. /\ IsFiniteSet(Due(d)) /\ Cardinality(Due(d)) \in Nat /\ Cardinality(Due(d)) <= entries[i].unread
          /\ entries[i].unread \in Nat /\ entries'[i].unread = entries[i].unread
      BY <1>0, <1>8, <2>0, <2>4, DueFinite, EntryPeers DEF Counted
    <4>2. Due(d)' \subseteq Due(d)
      BY <1>0, <1>2, <2>2, HandlesDue
    <4>3. IsFiniteSet(Due(d)') /\ Cardinality(Due(d)') <= Cardinality(Due(d))
      BY <4>1, <4>2, FS_Subset
    <4>4. Cardinality(Due(d)') \in Nat
      BY <4>3, FS_CardinalityType
    <4>. QED  BY <4>1, <4>3, <4>4
  <2>. QED  BY <2>1, <2>3, <2>4 DEF Counted
<1>14. ChatInv'
  BY <1>0, <1>2, HandlesTells, HandlesChat
<1>. QED  BY <1>6, <1>7, <1>10, <1>11, <1>12, <1>13, <1>14, <1>0 DEF ConvInv, CountInv

\* and a message that was edited or deleted.
LEMMA RewrittenConv ==
  ASSUME ConvInv, NEW e, Handles(e), e.type \in {"edited", "deleted"},
         OnRewritten(e.conv, e.about, TextOf(e))
  PROVE  ConvInv'
<1>. DEFINE c == e.conv
            m0 == e.about
            text == TextOf(e)
<1>0. /\ StoreInv /\ QueueInv /\ ScreenInv /\ ModesInv /\ CountInv /\ ChatInv
      /\ UNCHANGED <<convs, members, next, current>> /\ current \in Convs \union {None}
      /\ UNCHANGED <<entries, store, excused, haunted>> /\ UNCHANGED dbVars
  BY DEF ConvInv, Handles, OnRewritten, dbVars, ScreenInv
<1>1. e \in Events /\ c \in Convs /\ m0 \in Msgs
  BY HandlesTells, EventIs
<1>2. /\ \A m : ~Receives(e, m) /\ (Rewrites(e, m) <=> m = m0) /\ (Concerns(e, m) <=> m = m0)
      /\ \A d : ~OfConversation(e, d, "created") /\ ~OfConversation(e, d, "added")
      /\ text \in {"old", "new", "deleted"}
  BY DEF Rewrites, Receives, Concerns, TextOf, OfConversation
<1>3. c = ConvOf(m0) /\ (text = Expected(m0) \/ m0 \in excused \/ Rewritten(Queue', 0, m0))
  BY <1>1, <1>2, HandlesTells
<1>4. IF current = c THEN Rewrite(m0, text) ELSE shown' = shown
  BY DEF OnRewritten
<1>. HIDE DEF c, m0, text
<1>5. entries \in Seq(Entries) /\ shown \in Seq(Copies)
  BY <1>0 DEF ScreenInv
<1>6. StoreInv' /\ \A m \in Msgs : Undisturbed(m)
  BY <1>0, StoreSame, QuietStore
<1>7. QueueInv'
  BY <1>0, <1>6, QueueTail DEF Handles
<1>8. /\ shown' \in Seq(Copies) /\ DOMAIN shown' = DOMAIN shown
      /\ \A i \in DOMAIN shown :
           /\ shown'[i].msg = shown[i].msg /\ shown'[i].mine = shown[i].mine
           /\ \/ \E j \in 1 .. (i - 1) : shown[j].msg = shown[i].msg
              \/ shown'[i].text = IF current = c /\ shown[i].msg = m0 THEN text ELSE shown[i].text
  <2>1. CASE current = c
    BY <1>2, <1>4, <1>5, <2>1, RewriteIs
  <2>2. CASE current # c
    BY <1>4, <1>5, <2>2
  <2>. QED  BY <2>1, <2>2
<1>9. Listed' = Listed
  BY <1>0 DEF Listed
<1>10. ScreenInv'
  <2>1. current = None => shown' = shown
    BY <1>1, <1>4, ChatAssumption
  <2>. QED  BY <1>0, <1>5, <1>8, <1>9, <2>1, HandlesScreen
<1>11. ShownMsgs' = ShownMsgs /\ \A m : Mine(m)' <=> Mine(m)
  BY <1>8 DEF ShownMsgs, Mine
<1>12. ModesInv'
  BY <1>0, <1>6, <1>11, HandlesModes
<1>13. ASSUME ~haunted PROVE ListInv'
  <2>1. ListInv
    BY <1>13 DEF ConvInv
  <2>2. \A d : Tells(Queue, 0, "added", d) => Tells(Queue', 0, "added", d)
    BY <1>2, HandlesTells
  <2>3. \A i \in DOMAIN entries :
          /\ entries[i].conv \in convs /\ entries[i].peers # {}
          /\ entries[i].peers \subseteq members[entries[i].conv]
          /\ entries[i].peers = members[entries[i].conv] \/ Tells(Queue', 0, "added", entries[i].conv)
    BY <2>1, <2>2 DEF ListInv
  <2>4. \A i \in DOMAIN entries : Cardinality(entries[i].peers) \in Nat
    BY <1>0, EntryPeers
  <2>5. Len(entries) <= Len(entries')
    BY <1>0, <1>5
  <2>6. \A i \in DOMAIN entries : Cardinality(entries[i].peers) <= Cardinality(entries'[i].peers)
                                  /\ Cardinality(entries'[i].peers) \in Nat
    BY <1>0, <2>4
  <2>7. \A i, j \in DOMAIN entries' : entries'[i].conv = entries'[j].conv => i = j
    BY <1>0, <2>1 DEF ListInv
  <2>. QED  BY <1>0, <1>5, <1>13, <2>3, <2>4, <2>5, <2>6, <2>7, HandlesList
<1>14. Counted'
  <2>0. Counted
    BY HandlesTells
  <2>1. \A d \in convs' : d \in Listed' \/ Tells(Queue', 0, "created", d)
    BY <1>0, <1>2, <1>9, <2>0, HandlesTells DEF Counted
  <2>2. \A d : Unread(d)' = Unread(d)
    BY <1>0 DEF Unread, Stored
  <2>3. ASSUME NEW d \in Convs \ Listed', NEW m \in Unread(d)' \ excused' PROVE ArrivesListed(Queue', m)
    <3>1. ArrivesListed(Queue, m) /\ ConvOf(m) = d
      BY <1>0, <1>9, <2>0, <2>2, <2>3 DEF Counted, Unread, Stored
    <3>. QED  BY <1>2, <3>1, HandlesTells
  <2>4. ASSUME NEW d \in Convs, NEW i \in DOMAIN entries', entries'[i].conv = d, d # current'
        PROVE  Cardinality(Due(d)') <= entries'[i].unread
    <4>1. /\ IsFiniteSet(Due(d)) /\ Cardinality(Due(d)) \in Nat /\ Cardinality(Due(d)) <= entries[i].unread
          /\ entries[i].unread \in Nat /\ entries'[i].unread = entries[i].unread
      BY <1>0, <2>0, <2>4, DueFinite, EntryPeers DEF Counted
    <4>2. Due(d)' \subseteq Due(d)
      BY <1>0, <1>2, <2>2, HandlesDue
    <4>3. IsFiniteSet(Due(d)') /\ Cardinality(Due(d)') <= Cardinality(Due(d))
      BY <4>1, <4>2, FS_Subset
    <4>4. Cardinality(Due(d)') \in Nat
      BY <4>3, FS_CardinalityType
    <4>. QED  BY <4>1, <4>3, <4>4
  <2>. QED  BY <2>1, <2>3, <2>4 DEF Counted
<1>15. ASSUME InChat' PROVE Shows'
  <2>0. Shows
    BY <1>0, <1>15, HandlesTells DEF ChatInv
  <2>1. Stored(current)' = Stored(current) /\ \A m : Expected(m)' = Expected(m)
    BY <1>0 DEF Stored, Expected
  <2>2. \A m \in Msgs : m \in Stored(current)' \ excused' => m \in ShownMsgs' \/ Arrives(Queue', m)
    BY <1>0, <1>2, <1>11, <2>0, <2>1, HandlesTells DEF Shows
  <2>3. ASSUME NEW m \in Msgs, NEW i \in DOMAIN shown', shown'[i].msg = m
        PROVE  \/ \E j \in 1 .. (i - 1) : shown'[j].msg = m
               \/ shown'[i].text = Expected(m)' \/ m \in excused' \/ Rewritten(Queue', 0, m)
    <3>1. i \in DOMAIN shown /\ shown[i].msg = m /\ ConvOf(m) = current
      BY <1>0, <1>8, <2>3 DEF ModesInv, ShownMsgs
    <3>2. CASE \E j \in 1 .. (i - 1) : shown[j].msg = m
      <4>1. \A j \in 1 .. (i - 1) : j \in DOMAIN shown
        BY <1>5, <3>1
      <4>. QED  BY <1>8, <3>2, <4>1
    <3>3. CASE ~\E j \in 1 .. (i - 1) : shown[j].msg = m
      <4>1. shown[i].text = Expected(m) \/ m \in excused \/ Rewritten(Queue, 0, m)
        BY <2>0, <3>1, <3>3 DEF Shows
      <4>2. shown'[i].text = IF current = c /\ m = m0 THEN text ELSE shown[i].text
        BY <1>8, <3>1, <3>3
      <4>3. CASE m = m0
        BY <1>0, <1>3, <2>1, <3>1, <4>2, <4>3
      <4>4. CASE m # m0
        <5>1. Rewritten(Queue, 0, m) => Rewritten(Queue', 0, m)
          BY <1>2, <4>4, HandlesTells
        <5>. QED  BY <1>0, <2>1, <4>1, <4>2, <4>4, <5>1
      <4>. QED  BY <4>3, <4>4
    <3>. QED  BY <3>2, <3>3
  <2>. QED  BY <2>2, <2>3 DEF Shows
<1>. QED  BY <1>0, <1>6, <1>7, <1>10, <1>12, <1>13, <1>14, <1>15 DEF ConvInv, CountInv, ChatInv

\* An acknowledgement tells the interface of a tick.
LEMMA StatusConv ==
  ASSUME ConvInv, NEW e, Handles(e), e.type = "status", OnStatus
  PROVE  ConvInv'
<1>0. /\ StoreInv /\ QueueInv /\ ScreenInv /\ ModesInv /\ CountInv /\ ChatInv
      /\ UNCHANGED <<convs, members, next, current>>
      /\ UNCHANGED <<entries, shown, store, excused, haunted>> /\ UNCHANGED dbVars
  BY DEF ConvInv, Handles, OnStatus, dbVars
<1>2. /\ \A m : ~Concerns(e, m) /\ ~Rewrites(e, m) /\ ~Receives(e, m)
      /\ \A d : ~OfConversation(e, d, "created") /\ ~OfConversation(e, d, "added")
  BY NoConcern DEF OfConversation
<1>5. entries \in Seq(Entries) /\ shown \in Seq(Copies)
  BY <1>0 DEF ScreenInv
<1>6. StoreInv' /\ \A m \in Msgs : Undisturbed(m)
  BY <1>0, StoreSame, QuietStore
<1>7. QueueInv'
  BY <1>0, <1>6, QueueTail DEF Handles
<1>9. Listed' = Listed
  BY <1>0 DEF Listed
<1>10. ScreenInv'
  BY <1>0, <1>5, <1>9, HandlesScreen
<1>12. ModesInv'
  <2>1. ShownMsgs' = ShownMsgs /\ \A m : Mine(m)' <=> Mine(m)
    BY <1>0 DEF ShownMsgs, Mine
  <2>. QED  BY <1>0, <1>6, <2>1, HandlesModes
<1>13. ASSUME ~haunted PROVE ListInv'
  <2>1. ListInv
    BY <1>13 DEF ConvInv
  <2>2. \A d : Tells(Queue, 0, "added", d) => Tells(Queue', 0, "added", d)
    BY <1>2, HandlesTells
  <2>3. \A i \in DOMAIN entries :
          /\ entries[i].conv \in convs /\ entries[i].peers # {}
          /\ entries[i].peers \subseteq members[entries[i].conv]
          /\ entries[i].peers = members[entries[i].conv] \/ Tells(Queue', 0, "added", entries[i].conv)
    BY <2>1, <2>2 DEF ListInv
  <2>4. \A i \in DOMAIN entries : Cardinality(entries[i].peers) \in Nat
    BY <1>0, EntryPeers
  <2>5. Len(entries) <= Len(entries')
    BY <1>0, <1>5
  <2>6. \A i \in DOMAIN entries : Cardinality(entries[i].peers) <= Cardinality(entries'[i].peers)
                                  /\ Cardinality(entries'[i].peers) \in Nat
    BY <1>0, <2>4
  <2>7. \A i, j \in DOMAIN entries' : entries'[i].conv = entries'[j].conv => i = j
    BY <1>0, <2>1 DEF ListInv
  <2>. QED  BY <1>0, <1>5, <1>13, <2>3, <2>4, <2>5, <2>6, <2>7, HandlesList
<1>14. Counted'
  <2>0. Counted
    BY HandlesTells
  <2>1. \A d \in convs' : d \in Listed' \/ Tells(Queue', 0, "created", d)
    BY <1>0, <1>2, <1>9, <2>0, HandlesTells DEF Counted
  <2>2. \A d : Unread(d)' = Unread(d)
    BY <1>0 DEF Unread, Stored
  <2>3. ASSUME NEW d \in Convs \ Listed', NEW m \in Unread(d)' \ excused' PROVE ArrivesListed(Queue', m)
    <3>1. ArrivesListed(Queue, m) /\ ConvOf(m) = d
      BY <1>0, <1>9, <2>0, <2>2, <2>3 DEF Counted, Unread, Stored
    <3>. QED  BY <1>2, <3>1, HandlesTells
  <2>4. ASSUME NEW d \in Convs, NEW i \in DOMAIN entries', entries'[i].conv = d, d # current'
        PROVE  Cardinality(Due(d)') <= entries'[i].unread
    <4>1. /\ IsFiniteSet(Due(d)) /\ Cardinality(Due(d)) \in Nat /\ Cardinality(Due(d)) <= entries[i].unread
          /\ entries[i].unread \in Nat /\ entries'[i].unread = entries[i].unread
      BY <1>0, <2>0, <2>4, DueFinite, EntryPeers DEF Counted
    <4>2. Due(d)' \subseteq Due(d)
      BY <1>0, <1>2, <2>2, HandlesDue
    <4>3. IsFiniteSet(Due(d)') /\ Cardinality(Due(d)') <= Cardinality(Due(d))
      BY <4>1, <4>2, FS_Subset
    <4>4. Cardinality(Due(d)') \in Nat
      BY <4>3, FS_CardinalityType
    <4>. QED  BY <4>1, <4>3, <4>4
  <2>. QED  BY <2>1, <2>3, <2>4 DEF Counted
<1>15. ChatInv'
  BY <1>0, <1>2, HandlesTells, HandlesChat
<1>. QED  BY <1>0, <1>6, <1>7, <1>10, <1>12, <1>13, <1>14, <1>15 DEF ConvInv, CountInv

LEMMA PollConv == ConvInv /\ PollSdkEvents => ConvInv'
<1>. SUFFICES ASSUME ConvInv, PollSdkEvents PROVE ConvInv'
  OBVIOUS
<1>. DEFINE e == Head(events)
<1>1. Idle /\ events # <<>> /\ events' = Tail(events) /\ HandleSdkEvent(e)
  BY DEF PollSdkEvents
<1>2. UNCHANGED <<convs, members, next, pending, pc, sel, current, screen, thread, editing, confirm,
                  reply, form, group, peer>>
  BY DEF PollSdkEvents, authVars, modeVars, formVars
<1>3. PICK x : x = e
  OBVIOUS
<1>. HIDE DEF e
<1>4. Handles(x)
  BY <1>1, <1>2, <1>3 DEF Handles, Polled, e
<1>5. x \in Events /\ x.type \in {"received", "edited", "deleted", "created", "added", "status"} /\ HandleSdkEvent(x)
  BY <1>1, <1>3, <1>4, HandlesTells, EventIs
<1>6. CASE x.type = "received"
  BY <1>4, <1>5, <1>6, ReceivedConv DEF HandleSdkEvent
<1>7. CASE x.type = "created"
  BY <1>4, <1>5, <1>7, CreatedConv DEF HandleSdkEvent
<1>8. CASE x.type = "added"
  BY <1>4, <1>5, <1>8, AddedConv DEF HandleSdkEvent
<1>9. CASE x.type \in {"edited", "deleted"}
  <2>1. OnRewritten(x.conv, x.about, TextOf(x))
    BY <1>5, <1>9 DEF HandleSdkEvent, TextOf
  <2>. QED  BY <1>4, <1>9, <2>1, RewrittenConv
<1>10. CASE x.type = "status"
  BY <1>4, <1>5, <1>10, StatusConv DEF HandleSdkEvent
<1>. QED  BY <1>5, <1>6, <1>7, <1>8, <1>9, <1>10

-----------------------------------------------------------------------------
(* The keys. *)

\* A key that moves a selection or a mode, and nothing else.
LEMMA QuietKeeps ==
  ASSUME ConvInv, ScreenInv',
         UNCHANGED <<dbVars, events, pending, entries, current, shown, excused, haunted>>,
         Loaded' => Loaded, InChat' => InChat,
         {editing', confirm'} \ {None} \subseteq {m \in ShownMsgs : Mine(m)},
         {reply'} \ {None} \subseteq ShownMsgs,
         ~haunted /\ ListInv =>
           /\ entries = <<>> => sel' = 1
           /\ entries # <<>> => sel' \in DOMAIN entries
           /\ screen' = "ConversationInfo" =>
                \E i \in DOMAIN entries :
                  entries[i].conv = current /\ peer' \in 1 .. Cardinality(entries[i].peers)
  PROVE  ConvInv'
<1>. USE DEF ConvInv
<1>1. UNCHANGED <<convs, members, next, store>>
  BY DEF dbVars
<1>2. StoreInv' /\ \A m \in Msgs : Undisturbed(m)
  BY <1>1, StoreSame, QuietStore
<1>3. QueueInv' /\ Queue' = Queue /\ QueueGrows
  BY <1>2, QueueSame, GrowsSame
<1>4. ShownMsgs' = ShownMsgs /\ (\A m : Mine(m)' <=> Mine(m)) /\ Listed' = Listed
  BY DEF ShownMsgs, Mine, Listed
<1>5. ModesInv'
  <2>1. \A m \in ShownMsgs : m \in Msgs /\ next[ConvOf(m)] <= next'[ConvOf(m)]
    BY <1>2, ShownIs DEF Undisturbed
  <2>2. \A m \in ShownMsgs : Mine(m) => store'[m] = None \/ (Own(m) /\ Own(m)')
    BY <1>1 DEF ModesInv, Own
  <2>. QED  BY <1>2, <1>3, <1>4, <2>1, <2>2, ModesKept
<1>6. ASSUME ~haunted PROVE ListInv'
  <2>1. ListInv /\ current' = current /\ entries' = entries
    BY <1>6
  <2>. QED  BY <1>1, <1>3, <1>4, <1>6, <2>1 DEF ListInv
<1>7. \A c : Unread(c)' = Unread(c) /\ Stored(c)' = Stored(c)
  BY <1>1 DEF Unread, Stored
<1>8. CountInv'
  BY <1>1, <1>3, <1>4, <1>7, CountKept
<1>9. \A m : Expected(m)' = Expected(m)
  BY <1>1 DEF Expected
<1>10. ChatInv'
  BY <1>1, <1>3, <1>4, <1>7, <1>9, ChatKept DEF Stored
<1>. QED  BY <1>2, <1>3, <1>5, <1>6, <1>8, <1>10

\* what is known on a screen, whatever mode it is in
LEMMA OnScreen ==
  ASSUME ConvInv
  PROVE  /\ {editing, confirm} \ {None} \subseteq {m \in ShownMsgs : Mine(m)}
         /\ {reply} \ {None} \subseteq ShownMsgs
         /\ ~haunted => ListInv
         /\ shown \in Seq(Copies) /\ entries \in Seq(Entries)
         /\ \A i \in DOMAIN shown : shown[i].msg \in ShownMsgs /\ (shown[i].mine => Mine(shown[i].msg))
BY DEF ConvInv, ModesInv, ScreenInv, ShownMsgs, Mine

\* the keys that move the modes of the chat screen
LEMMA OnlyModesConv ==
  ASSUME ConvInv, OnlyModes, ChatKey,
         {editing', confirm'} \ {None} \subseteq {m \in ShownMsgs : Mine(m)},
         {reply'} \ {None} \subseteq ShownMsgs
  PROVE  ConvInv'
<1>1. UNCHANGED <<dbVars, events, pending, pc, entries, sel, current, shown, screen, thread, form, group,
                  peer, excused, haunted>>
  BY DEF OnlyModes, appVars, formVars, authVars
<1>2. (Loaded' <=> Loaded) /\ (InChat' <=> InChat) /\ Loaded /\ Loaded' /\ Listed' = Listed /\ screen = "Chat"
  BY <1>1 DEF Loaded, InChat, Listed, ChatKey, Idle
<1>3. ScreenInv'
  BY <1>1, <1>2 DEF ConvInv, ScreenInv, ChatKey, Idle
<1>. QED  BY <1>1, <1>2, <1>3, QuietKeeps DEF ListInv

LEMMA ModeKeysConv ==
  ASSUME ConvInv,
         \/ StartPicking \/ MovePick \/ StartEditing \/ AskDelete \/ StartReply
         \/ KeepMessage \/ CancelEditing \/ CancelReply
  PROVE  ConvInv'
<1>1. OnlyModes /\ ChatKey
  BY DEF StartPicking, MovePick, StartEditing, AskDelete, StartReply, KeepMessage, CancelEditing,
         CancelReply, Writing, Picking, Editing, Confirming
<1>2. {editing', confirm'} \ {None} \subseteq {m \in ShownMsgs : Mine(m)}
  <2>1. CASE StartEditing
    BY <2>1, OnScreen DEF StartEditing
  <2>2. CASE AskDelete
    BY <2>2, OnScreen DEF AskDelete
  <2>3. CASE ~StartEditing /\ ~AskDelete
    <3>1. editing' \in {editing, None} /\ confirm' \in {confirm, None}
      BY <2>3 DEF StartPicking, MovePick, StartReply, KeepMessage, CancelEditing, CancelReply
    <3>. QED  BY <3>1, OnScreen
  <2>. QED  BY <2>1, <2>2, <2>3
<1>3. {reply'} \ {None} \subseteq ShownMsgs
  <2>1. CASE StartReply
    BY <2>1, OnScreen DEF StartReply
  <2>2. CASE ~StartReply
    <3>1. reply' \in {reply, None}
      BY <2>2 DEF StartPicking, MovePick, StartEditing, AskDelete, KeepMessage, CancelEditing, CancelReply
    <3>. QED  BY <3>1, OnScreen
  <2>. QED  BY <2>1, <2>2
<1>. QED  BY <1>1, <1>2, <1>3, OnlyModesConv

\* the forms of the list and of the information screen
LEMMA OnlyFormsConv ==
  ASSUME ConvInv, OnlyForms, Idle,
         group' \subseteq Peers, peer' \in Nat \ {0},
         screen = "Conversations" => form' \in {"none", "new", "group"},
         screen = "Chat" => form' = "none",
         screen = "ConversationInfo" => form' \in {"none", "member"},
         ~haunted /\ screen = "ConversationInfo" =>
           \E i \in DOMAIN entries :
             entries[i].conv = current /\ peer' \in 1 .. Cardinality(entries[i].peers)
  PROVE  ConvInv'
<1>1. UNCHANGED <<dbVars, events, pending, pc, entries, sel, current, shown, screen, thread, editing,
                  confirm, reply, excused, haunted>>
  BY DEF OnlyForms, appVars, authVars
<1>2. (Loaded' <=> Loaded) /\ (InChat' <=> InChat) /\ Loaded /\ Loaded' /\ Listed' = Listed
  BY <1>1 DEF Loaded, InChat, Listed, Idle
<1>3. ScreenInv'
  BY <1>1, <1>2 DEF ConvInv, ScreenInv, Idle
<1>4. /\ {editing', confirm'} \ {None} \subseteq {m \in ShownMsgs : Mine(m)}
      /\ {reply'} \ {None} \subseteq ShownMsgs
  BY <1>1, OnScreen
<1>. QED  BY <1>1, <1>2, <1>3, <1>4, QuietKeeps DEF ListInv

LEMMA FormKeysConv ==
  ASSUME ConvInv, OpenForm \/ LeaveForm \/ AskMember \/ SelectPeer \/ \E u \in Peers : AddToGroup(u)
  PROVE  ConvInv'
<1>1. OnlyForms /\ Idle
  BY DEF OpenForm, LeaveForm, AskMember, SelectPeer, AddToGroup, OnList, ListKey, InfoKey
<1>2. /\ group \subseteq Peers /\ peer \in Nat \ {0}
      /\ screen \in ChatScreens
      /\ screen = "Conversations" => form \in {"none", "new", "group"}
      /\ screen = "Chat" => form = "none"
      /\ screen = "ConversationInfo" => form \in {"none", "member"}
  BY <1>1 DEF ConvInv, ScreenInv, Idle
<1>3. /\ \/ form' = "none" \/ form' = form
         \/ screen = "Conversations" /\ form' \in {"new", "group"}
         \/ screen = "ConversationInfo" /\ form' = "member"
      /\ group' \subseteq Peers
  BY <1>2 DEF OpenForm, LeaveForm, AskMember, SelectPeer, AddToGroup, OnList, ListKey, InfoKey
<1>4. peer' \in Nat \ {0}
  BY <1>2 DEF OpenForm, LeaveForm, AskMember, SelectPeer, AddToGroup
<1>5. ASSUME ~haunted, screen = "ConversationInfo"
      PROVE  \E i \in DOMAIN entries :
               entries[i].conv = current /\ peer' \in 1 .. Cardinality(entries[i].peers)
  <2>1. PICK i \in DOMAIN entries : entries[i].conv = current /\ peer \in 1 .. Cardinality(entries[i].peers)
    BY <1>5, OnScreen DEF ListInv
  <2>2. CASE peer' = peer
    BY <2>1, <2>2
  <2>3. CASE peer > 1 /\ peer' = peer - 1
    <3>1. Cardinality(entries[i].peers) \in Nat
      BY EntryPeers DEF ConvInv
    <3>. QED  BY <1>2, <2>1, <2>3, <3>1
  <2>4. CASE SelectPeer /\ peer' = peer + 1
    <3>1. PICK j \in DOMAIN entries : entries[j].conv = current /\ peer < Cardinality(entries[j].peers)
      BY <1>2, <2>4 DEF SelectPeer
    <3>2. ScreenInv
      BY DEF ConvInv
    <3>3. Cardinality(entries[j].peers) \in Nat
      BY <3>2, EntryPeers
    <3>. QED  BY <1>2, <2>4, <3>1, <3>3
  <2>. QED  BY <2>2, <2>3, <2>4 DEF OpenForm, LeaveForm, AskMember, SelectPeer, AddToGroup
<1>. QED  BY <1>1, <1>2, <1>3, <1>4, <1>5, OnlyFormsConv

LEMMA SelectConversationConv == ConvInv /\ SelectConversation => ConvInv'
<1>. SUFFICES ASSUME ConvInv, SelectConversation PROVE ConvInv'
  OBVIOUS
<1>1. UNCHANGED <<dbVars, events, pending, pc, entries, current, shown, screen, thread, editing,
                  confirm, reply, excused, haunted, form, group, peer>> /\ Idle /\ screen = "Conversations"
  BY DEF SelectConversation, authVars, modeVars, formVars, ListKey, OnList
<1>2. (Loaded' <=> Loaded) /\ (InChat' <=> InChat) /\ Loaded /\ Loaded' /\ Listed' = Listed
  BY <1>1 DEF Loaded, InChat, Listed, Idle
<1>3. /\ sel \in Nat \ {0} /\ Len(entries) \in Nat /\ DOMAIN entries = 1 .. Len(entries)
      /\ (sel > 1 /\ sel' = sel - 1) \/ (sel < Len(entries) /\ sel' = sel + 1)
  BY DEF ConvInv, ScreenInv, SelectConversation
<1>4. sel' \in Nat \ {0}
  BY <1>3
<1>5. ScreenInv'
  BY <1>1, <1>2, <1>4 DEF ConvInv, ScreenInv, Idle
<1>6. ASSUME ~haunted, ListInv
      PROVE  (entries = <<>> => sel' = 1) /\ (entries # <<>> => sel' \in DOMAIN entries)
  <2>1. CASE entries = <<>>
    <3>1. Len(entries) = 0 /\ sel = 1
      BY <1>6, <2>1 DEF ListInv
    <3>. QED  BY <1>3, <2>1, <3>1
  <2>2. CASE entries # <<>>
    <3>1. sel \in DOMAIN entries
      BY <1>6, <2>2 DEF ListInv
    <3>. QED  BY <1>3, <2>2, <3>1
  <2>. QED  BY <2>1, <2>2
<1>7. /\ {editing', confirm'} \ {None} \subseteq {m \in ShownMsgs : Mine(m)}
      /\ {reply'} \ {None} \subseteq ShownMsgs /\ screen' # "ConversationInfo"
  BY <1>1, OnScreen
<1>. QED  BY <1>1, <1>2, <1>5, <1>6, <1>7, QuietKeeps

\* a member of a conversation that is listed
LEMMA FirstPeer ==
  ASSUME ConvInv, ~haunted, current # None
  PROVE  \E i \in DOMAIN entries : entries[i].conv = current /\ 1 \in 1 .. Cardinality(entries[i].peers)
<1>1. PICK i \in DOMAIN entries : entries[i].conv = current
  BY DEF ConvInv, ScreenInv, Listed
<1>2. entries[i].peers # {}
  BY DEF ConvInv, ListInv
<1>3. IsFiniteSet(entries[i].peers) /\ Cardinality(entries[i].peers) \in Nat
  BY EntryPeers DEF ConvInv
<1>4. Cardinality(entries[i].peers) # 0
  BY <1>2, <1>3, FS_EmptySet
<1>. QED  BY <1>1, <1>3, <1>4

LEMMA InfoKeysConv == ConvInv /\ (OpenInfo \/ CloseInfo) => ConvInv'
<1>. SUFFICES ASSUME ConvInv, OpenInfo \/ CloseInfo PROVE ConvInv'
  OBVIOUS
<1>1. UNCHANGED <<dbVars, events, pending, pc, entries, sel, current, shown, thread, editing,
                  confirm, reply, excused, haunted, group>> /\ Idle
  BY DEF OpenInfo, CloseInfo, ScreenIs, chatVars, appVars, modeVars, formVars, Writing, ChatKey, InfoKey
<1>2. \/ OpenInfo /\ screen = "Chat" /\ screen' = "ConversationInfo" /\ peer' = 1 /\ form' = "none"
         /\ editing = None /\ confirm = None
      \/ CloseInfo /\ screen = "ConversationInfo" /\ screen' = "Chat" /\ peer' = peer /\ form' = "none"
  BY DEF OpenInfo, CloseInfo, ScreenIs, chatVars, modeVars, formVars, Writing, ChatKey, InfoKey
<1>3. Loaded' /\ Loaded /\ InChat' /\ InChat /\ Listed' = Listed
  BY <1>1, <1>2 DEF Loaded, InChat, Listed, Idle, ChatScreens
<1>4. ScreenInv'
  BY <1>1, <1>2, <1>3 DEF ConvInv, ScreenInv, Idle, ChatScreens
<1>5. current # None
  BY <1>3 DEF ConvInv, ScreenInv
<1>6. ~haunted /\ screen' = "ConversationInfo" =>
        \E i \in DOMAIN entries : entries[i].conv = current /\ peer' \in 1 .. Cardinality(entries[i].peers)
  BY <1>2, <1>5, FirstPeer
<1>7. /\ {editing', confirm'} \ {None} \subseteq {m \in ShownMsgs : Mine(m)}
      /\ {reply'} \ {None} \subseteq ShownMsgs
  BY <1>1, OnScreen
<1>. QED  BY <1>1, <1>3, <1>4, <1>6, <1>7, QuietKeeps DEF ListInv

LEMMA StutterConv == ConvInv /\ UNCHANGED vars => ConvInv'
<1>. SUFFICES ASSUME ConvInv, UNCHANGED vars PROVE ConvInv'
  OBVIOUS
<1>1. UNCHANGED <<dbVars, events, pending, pc, entries, sel, current, shown, screen, thread, editing,
                  confirm, reply, excused, haunted, form, group, peer>>
  BY DEF vars, authVars, chatVars, appVars, modeVars, formVars
<1>2. ScreenInv' /\ (Loaded' <=> Loaded) /\ (InChat' <=> InChat)
  BY <1>1, ScreenSame DEF ConvInv
<1>3. /\ {editing', confirm'} \ {None} \subseteq {m \in ShownMsgs : Mine(m)}
      /\ {reply'} \ {None} \subseteq ShownMsgs
  BY <1>1, OnScreen
<1>. QED  BY <1>1, <1>2, <1>3, QuietKeeps DEF ListInv

\* A key under which no message becomes unread keeps the counts.
LEMMA CountLess ==
  ASSUME ConvInv, ScreenInv', Loaded, Queue' = Queue, excused \subseteq excused',
         \A c \in convs' : c \in Listed' \/ Tells(Queue, 0, "created", c),
         \A c \in Convs : \A m \in Unread(c)' : m \in excused' \/ m \in Unread(c),
         \A c \in Convs \ Listed' : c \notin Listed \/ Unread(c)' = {},
         \A c \in Convs, i \in DOMAIN entries' :
           entries'[i].conv = c =>
             \/ c = current' \/ Unread(c)' = {}
             \/ \E j \in DOMAIN entries :
                  entries[j].conv = c /\ c # current /\ entries[j].unread = entries'[i].unread
  PROVE  Counted'
<1>0. Counted /\ ScreenInv
  BY DEF ConvInv, CountInv
<1>1. ASSUME NEW c \in Convs \ Listed', NEW m \in Unread(c)' \ excused' PROVE ArrivesListed(Queue', m)
  BY <1>0, <1>1 DEF Counted
<1>2. ASSUME NEW c \in Convs, NEW i \in DOMAIN entries', entries'[i].conv = c, c # current'
      PROVE  Cardinality(Due(c)') <= entries'[i].unread
  <2>1. Due(c)' = {m \in Unread(c)' \ excused' : ~Arrives(Queue', m)}
    BY DEF Due
  <2>2. CASE Unread(c)' = {}
    <3>1. Due(c)' = {}
      BY <2>1, <2>2
    <3>2. entries'[i] \in Entries
      BY DEF ScreenInv
    <3>3. entries'[i].unread \in Nat
      BY <3>2 DEF Entries
    <3>. QED  BY <3>1, <3>3, FS_EmptySet
  <2>3. CASE Unread(c)' # {}
    <3>1. PICK j \in DOMAIN entries : entries[j].conv = c /\ c # current /\ entries[j].unread = entries'[i].unread
      BY <1>2, <2>3
    <3>2. IsFiniteSet(Due(c)) /\ Cardinality(Due(c)) <= entries[j].unread /\ entries[j].unread \in Nat
          /\ Cardinality(Due(c)) \in Nat
      BY <1>0, <3>1, DueFinite, EntryPeers DEF Counted
    <3>3. Due(c)' \subseteq Due(c)
      BY <2>1 DEF Due
    <3>4. IsFiniteSet(Due(c)') /\ Cardinality(Due(c)') <= Cardinality(Due(c))
      BY <3>2, <3>3, FS_Subset
    <3>5. Cardinality(Due(c)') \in Nat
      BY <3>4, FS_CardinalityType
    <3>. QED  BY <3>1, <3>2, <3>4, <3>5
  <2>. QED  BY <2>2, <2>3
<1>. QED  BY <1>1, <1>2 DEF Counted

\* the list is read again, with no conversation open
LEMMA Relisted ==
  ASSUME ConvInv, UNCHANGED <<dbVars, events, pending, excused, haunted, form>>,
         entries' = ListConversations, current' = None, shown' = <<>>,
         editing' = None, confirm' = None, reply' = None, screen' = "Conversations", thread' = None,
         group' \subseteq Peers, pc' = "idle", peer' \in Nat \ {0},
         form \in {"none", "new", "group"}, sel' \in Nat \ {0},
         ~haunted => sel' = 1 \/ sel' <= Cardinality(convs),
         ~haunted => (convs = {} => sel' = 1)
  PROVE  ConvInv'
<1>. USE DEF ConvInv
<1>1. UNCHANGED <<convs, members, next, store>>
  BY DEF dbVars
<1>2. StoreInv' /\ \A m \in Msgs : Undisturbed(m)
  BY <1>1, StoreSame, QuietStore
<1>3. QueueInv' /\ Queue' = Queue
  BY <1>2, QueueSame
<1>4. /\ entries' \in Seq(Entries) /\ Len(entries') = Cardinality(convs) /\ Cardinality(convs) \in Nat
      /\ DOMAIN entries' = 1 .. Cardinality(convs)
      /\ \A i \in DOMAIN entries' :
           /\ entries'[i].conv \in convs
           /\ entries'[i].unread = Cardinality(Unread(entries'[i].conv)) /\ entries'[i].peers = members[entries'[i].conv]
      /\ \A i, j \in DOMAIN entries' : entries'[i].conv = entries'[j].conv => i = j
      /\ \A c \in convs : \E i \in DOMAIN entries' : entries'[i].conv = c
  BY ListIs
<1>5. Listed' = convs
  BY <1>4 DEF Listed
<1>6. Loaded' /\ ~InChat' /\ screen' # "ConversationInfo"
  BY DEF Loaded, InChat, ChatScreens
<1>7. ScreenInv'
  BY <1>4, <1>6, ChatAssumption DEF ScreenInv, ChatScreens
<1>8. ModesInv'
  BY ModesEmpty
<1>9. ASSUME ~haunted PROVE ListInv'
  <2>1. \A i \in DOMAIN entries' : entries'[i].conv \in convs' /\ entries'[i].peers # {}
          /\ entries'[i].peers = members'[entries'[i].conv]
    BY <1>1, <1>4 DEF StoreInv
  <2>2. \A k \in DOMAIN Queue' : Queue'[k].type = "created" =>
          Queue'[k].conv \in convs' /\ Queue'[k].about \subseteq members'[Queue'[k].conv] /\ Queue'[k].conv \in Listed'
    BY <1>1, <1>3, <1>5, <1>9 DEF ListInv
  <2>3. entries' = <<>> => sel' = 1
    <3>1. Cardinality(convs) = 0 => convs = {}
      BY <1>2, FS_EmptySet DEF StoreInv
    <3>. QED  BY <1>4, <1>9, <3>1
  <2>4. entries' # <<>> => sel' \in DOMAIN entries'
    BY <1>4, <1>9
  <2>. QED  BY <1>4, <1>6, <2>1, <2>2, <2>3, <2>4 DEF ListInv
<1>10. Counted'
  <2>1. \A c : Unread(c)' = Unread(c)
    BY <1>1 DEF Unread, Stored
  <2>2. \A c \in Convs \ convs : Unread(c) = {}
    BY DEF StoreInv, Unread, Stored
  <2>3. ASSUME NEW c \in Convs, NEW i \in DOMAIN entries', entries'[i].conv = c
        PROVE  Cardinality(Due(c)') <= entries'[i].unread
    <3>1. Due(c)' \subseteq Unread(c) /\ IsFiniteSet(Unread(c)) /\ Cardinality(Unread(c)) \in Nat
      BY <2>1, DueFinite DEF Due
    <3>2. IsFiniteSet(Due(c)') /\ Cardinality(Due(c)') <= Cardinality(Unread(c))
      BY <3>1, FS_Subset
    <3>. QED  BY <1>4, <2>3, <3>2
  <2>. QED  BY <1>1, <1>5, <2>1, <2>2, <2>3 DEF Counted
<1>. QED  BY <1>2, <1>3, <1>6, <1>7, <1>8, <1>9, <1>10 DEF CountInv, ChatInv

LEMMA ShowConversationsConv == ConvInv /\ ShowConversations => ConvInv'
<1>. SUFFICES ASSUME ConvInv, ShowConversations PROVE ConvInv'
  OBVIOUS
<1>1. UNCHANGED <<dbVars, events, pending, sel, current, shown, screen, thread, editing,
                  confirm, reply, excused, haunted, form, group, peer>>
      /\ pc = "list" /\ entries' = ListConversations /\ pc' = "idle"
  BY DEF ShowConversations, authVars, modeVars, formVars
<1>2. Blank /\ screen = "Conversations" /\ thread = None /\ peer \in Nat \ {0}
  BY <1>1 DEF ConvInv, ScreenInv, Loaded, ChatScreens
<1>. QED  BY <1>1, <1>2, Relisted DEF Blank

\* the list is no longer than the database's
LEMMA ListFits ==
  ASSUME StoreInv, ScreenInv, ListInv
  PROVE  Len(entries) <= Cardinality(convs) /\ Len(entries) \in Nat /\ Cardinality(convs) \in Nat
<1>1. PICK n \in Nat : n = Len(entries) /\ DOMAIN entries = 1 .. n
  BY DEF ScreenInv
<1>. DEFINE f == [i \in 1 .. n |-> entries[i].conv]
<1>2. f \in Injection(1 .. n, convs)
  <2>1. f \in [1 .. n -> convs]
    BY <1>1 DEF ListInv
  <2>2. \A i, j \in 1 .. n : f[i] = f[j] => i = j
    BY <1>1 DEF ListInv
  <2>. QED  BY <2>1, <2>2 DEF Injection, IsInjective
<1>3. IsFiniteSet(convs)
  BY DEF StoreInv
<1>. HIDE DEF f
<1>4. Cardinality(1 .. n) <= Cardinality(convs)
  BY <1>2, <1>3, FS_Injection
<1>5. Cardinality(1 .. n) = n
  BY FS_Interval
<1>. QED  BY <1>1, <1>3, <1>4, <1>5, FS_CardinalityType

LEMMA LeaveChatConv == ConvInv /\ LeaveChat => ConvInv'
<1>. SUFFICES ASSUME ConvInv, LeaveChat PROVE ConvInv'
  OBVIOUS
<1>1. UNCHANGED <<dbVars, events, pending, pc, sel, thread, editing,
                  confirm, reply, excused, haunted, form, group, peer>>
      /\ entries' = ListConversations /\ current' = None /\ shown' = <<>> /\ screen' = "Conversations"
      /\ editing = None /\ confirm = None /\ reply = None /\ pc = "idle" /\ screen = "Chat"
  BY DEF LeaveChat, ScreenIs, formVars, Writing, ChatKey, Idle
<1>2. thread = None /\ form = "none" /\ peer \in Nat \ {0} /\ sel \in Nat \ {0} /\ group \subseteq Peers
      /\ entries \in Seq(Entries) /\ StoreInv /\ ScreenInv
  BY <1>1 DEF ConvInv, ScreenInv, ChatScreens
<1>3. ASSUME ~haunted PROVE (sel = 1 \/ sel <= Cardinality(convs)) /\ (convs = {} => sel = 1)
  <2>1. ListInv
    BY <1>3 DEF ConvInv
  <2>2. Len(entries) <= Cardinality(convs) /\ Len(entries) \in Nat /\ Cardinality(convs) \in Nat
    BY <1>2, <2>1, ListFits
  <2>3. CASE entries = <<>>
    BY <2>1, <2>3 DEF ListInv
  <2>4. CASE entries # <<>>
    <3>1. sel \in 1 .. Len(entries) /\ entries[sel].conv \in convs
      BY <1>2, <2>1, <2>4 DEF ListInv
    <3>. QED  BY <2>2, <3>1
  <2>. QED  BY <2>3, <2>4
<1>. QED  BY <1>1, <1>2, <1>3, Relisted

\* Enter, up to the load of the messages
LEMMA MarkConversationIs ==
  ASSUME StoreInv, NEW c \in Convs, MarkConversation(c)
  PROVE  /\ store' \in [Msgs -> Rows \union {None}] /\ excused \subseteq excused'
         /\ \A m \in Msgs : /\ store'[m] # None <=> store[m] # None
                            /\ Expected(m)' = Expected(m)
                            /\ Own(m)' => Own(m)
                            /\ \A d : m \in Unread(d)' => m \in Unread(d)
<1>1. CASE store' = store
  <2>1. excused \subseteq excused'
    BY DEF MarkConversation
  <2>. QED  BY <1>1, <2>1 DEF StoreInv, Expected, Own, Unread, Stored
<1>2. CASE /\ store' = [m \in Msgs |-> IF m \in Unread(c) /\ c \in convs
                                         THEN [store[m] EXCEPT !.status = "read"] ELSE store[m]]
           /\ excused' = excused
  <2>1. ASSUME NEW m \in Msgs
        PROVE  /\ store'[m] \in Rows \union {None} /\ (store'[m] # None <=> store[m] # None)
               /\ store[m] # None => store'[m].text = store[m].text /\ store'[m].status \in {store[m].status, "read"}
    <3>0. store[m] \in Rows \union {None}
      BY DEF StoreInv
    <3>1. CASE m \in Unread(c) /\ c \in convs
      <4>1. store[m] \in Rows /\ store[m] # None
        BY <3>0, <3>1 DEF Unread, Stored
      <4>2. store'[m] = [store[m] EXCEPT !.status = "read"]
        BY <1>2, <3>1
      <4>3. store'[m] \in Rows /\ store'[m].text = store[m].text /\ store'[m].status = "read"
        BY <4>1, <4>2 DEF Rows
      <4>. QED  BY <4>1, <4>3, ChatAssumption
    <3>2. CASE ~(m \in Unread(c) /\ c \in convs)
      BY <1>2, <3>0, <3>2
    <3>. QED  BY <3>1, <3>2
  <2>2. store' \in [Msgs -> Rows \union {None}]
    BY <1>2, <2>1
  <2>. QED  BY <1>2, <2>1, <2>2 DEF Expected, Own, Unread, Stored
<1>. QED  BY <1>1, <1>2 DEF MarkConversation

LEMMA OpenConversationConv == ConvInv /\ OpenConversation => ConvInv'
<1>. SUFFICES ASSUME ConvInv, OpenConversation PROVE ConvInv'
  OBVIOUS
<1>. DEFINE opened == [entries[sel] EXCEPT !.unread = 0]
<1>0. StoreInv /\ QueueInv /\ ScreenInv /\ ModesInv
  BY DEF ConvInv
<1>1. /\ UNCHANGED <<convs, members, next, events, pending, sel, shown, screen, thread, editing, confirm, reply,
                     haunted, form, group, peer>>
      /\ sel \in DOMAIN entries /\ MarkConversation(Selected) /\ current' = Selected /\ pc' = "load"
      /\ entries' = [entries EXCEPT ![sel].unread = 0]
      /\ Idle /\ screen = "Conversations" /\ form = "none" /\ pc = "idle"
  BY DEF OpenConversation, authVars, modeVars, formVars, ListKey, OnList, Idle
<1>2. current = None /\ shown = <<>> /\ editing = None /\ confirm = None /\ reply = None
  BY <1>0, <1>1 DEF ScreenInv
<1>3. /\ entries[sel] \in Entries /\ Selected \in Convs /\ Selected = entries[sel].conv
  BY <1>0, <1>1, EntryPeers DEF Selected
<1>4. opened \in Entries /\ opened.conv = entries[sel].conv /\ opened.peers = entries[sel].peers
  BY <1>3 DEF Entries
<1>5. entries' = [entries EXCEPT ![sel] = opened] /\ entries \in Seq(Entries)
  BY <1>0, <1>1 DEF ScreenInv
<1>. HIDE DEF opened
<1>6. /\ entries' \in Seq(Entries) /\ DOMAIN entries' = DOMAIN entries
      /\ \A i \in DOMAIN entries : /\ entries'[i].conv = entries[i].conv /\ entries'[i].peers = entries[i].peers
                                   /\ i # sel => entries'[i] = entries[i]
  BY <1>1, <1>4, <1>5
<1>7. Listed' = Listed /\ Selected \in Listed
  BY <1>1, <1>3, <1>6 DEF Listed
<1>8. /\ store' \in [Msgs -> Rows \union {None}] /\ excused \subseteq excused'
      /\ \A m \in Msgs : /\ store'[m] # None <=> store[m] # None
                         /\ Expected(m)' = Expected(m)
                         /\ Own(m)' => Own(m)
                         /\ \A d : m \in Unread(d)' => m \in Unread(d)
  BY <1>0, <1>1, <1>3, MarkConversationIs
<1>9. StoreInv'
  BY <1>0, <1>1, <1>8 DEF StoreInv
<1>10. \A m \in Msgs : Undisturbed(m)
  <2>. SUFFICES ASSUME NEW m \in Msgs PROVE Undisturbed(m)
    OBVIOUS
  <2>1. next[ConvOf(m)] \in Nat
    BY <1>0, MsgIs DEF StoreInv
  <2>. QED  BY <1>1, <1>8, <2>1 DEF Undisturbed
<1>11. QueueInv' /\ Queue' = Queue
  BY <1>0, <1>1, <1>8, <1>9, <1>10, QueueSame
<1>12. Loaded /\ Loaded' /\ ~InChat'
  BY <1>1 DEF Loaded, InChat, ChatScreens
<1>13. ScreenInv'
  BY <1>0, <1>1, <1>2, <1>3, <1>6, <1>7, <1>12, ChatAssumption DEF ScreenInv, ChatScreens
<1>14. ModesInv'
  BY <1>1, <1>2, ModesEmpty
<1>15. ASSUME ~haunted PROVE ListInv'
  <2>1. ListInv
    BY <1>15 DEF ConvInv
  <2>2. entries' = <<>> <=> entries = <<>>
    BY <1>5, <1>6
  <2>3. screen' # "ConversationInfo"
    BY <1>1
  <2>4. \A i \in DOMAIN entries' :
          /\ entries'[i].conv \in convs /\ entries'[i].peers # {}
          /\ entries'[i].peers \subseteq members[entries'[i].conv]
          /\ entries'[i].peers = members[entries'[i].conv] \/ Tells(Queue', 0, "added", entries'[i].conv)
    BY <1>6, <1>11, <2>1 DEF ListInv
  <2>5. \A i, j \in DOMAIN entries' : entries'[i].conv = entries'[j].conv => i = j
    BY <1>6, <2>1 DEF ListInv
  <2>. QED  BY <1>1, <1>6, <1>7, <1>11, <2>1, <2>2, <2>3, <2>4, <2>5 DEF ListInv
<1>16. Counted'
  <2>1. \A c \in convs' : c \in Listed' \/ Tells(Queue, 0, "created", c)
    BY <1>1, <1>7, <1>12 DEF ConvInv, CountInv, Counted
  <2>2. ASSUME NEW c \in Convs, NEW m \in Unread(c)' PROVE m \in Unread(c)
    <3>1. m \in Msgs
      BY DEF Unread, Stored
    <3>. QED  BY <1>8, <3>1
  <2>3. \A c \in Convs, i \in DOMAIN entries' :
           entries'[i].conv = c =>
             \/ c = current'
             \/ \E j \in DOMAIN entries :
                  entries[j].conv = c /\ c # current /\ entries[j].unread = entries'[i].unread
    BY <1>1, <1>2, <1>3, <1>6, ChatAssumption
  <2>. QED  BY <1>7, <1>8, <1>11, <1>12, <1>13, <2>1, <2>2, <2>3, CountLess
<1>. QED  BY <1>1, <1>9, <1>11, <1>12, <1>13, <1>14, <1>15, <1>16 DEF ConvInv, CountInv, ChatInv

LEMMA LoadMessagesConv == ConvInv /\ LoadMessages => ConvInv'
<1>. SUFFICES ASSUME ConvInv, LoadMessages PROVE ConvInv'
  OBVIOUS
<1>0. StoreInv /\ QueueInv /\ ScreenInv /\ ModesInv
  BY DEF ConvInv
<1>1. /\ UNCHANGED <<convs, members, next, store>> /\ UNCHANGED dbVars
      /\ UNCHANGED <<events, pending, entries, sel, current, thread, editing, confirm, reply,
                     excused, haunted, form, group, peer>>
      /\ pc = "load" /\ pc' = "idle" /\ shown' = GetMessages(current) /\ screen' = "Chat"
  BY DEF LoadMessages, ScreenIs, formVars, dbVars
<1>2. /\ screen = "Conversations" /\ form = "none" /\ editing = None /\ confirm = None /\ reply = None
      /\ current # None /\ current \in Convs /\ current \in Listed /\ thread = None
  BY <1>0, <1>1 DEF ScreenInv, ChatScreens
<1>3. /\ shown' \in Seq(Copies)
      /\ \A i \in DOMAIN shown' :
           /\ shown'[i].msg \in Stored(current) /\ shown'[i].mine = Own(shown'[i].msg)
           /\ shown'[i].text = Expected(shown'[i].msg)
      /\ \A m \in Stored(current) : \E i \in DOMAIN shown' : shown'[i].msg = m
  BY <1>0, <1>1, <1>2, LoadIs
<1>4. StoreInv' /\ \A m \in Msgs : Undisturbed(m)
  BY <1>0, <1>1, StoreSame, QuietStore
<1>5. QueueInv' /\ Queue' = Queue
  BY <1>0, <1>1, <1>4, QueueSame
<1>6. Loaded /\ Loaded' /\ InChat' /\ Listed' = Listed
  BY <1>1, <1>2 DEF Loaded, InChat, ChatScreens, Listed
<1>7. ScreenInv'
  BY <1>0, <1>1, <1>2, <1>3, <1>6 DEF ScreenInv, ChatScreens
<1>8. /\ ShownMsgs' = Stored(current) /\ \A m : Mine(m)' => Own(m)
      /\ \A m : Own(m)' = Own(m) /\ Expected(m)' = Expected(m)
  <2>1. ShownMsgs' = Stored(current)
    BY <1>3 DEF ShownMsgs
  <2>2. \A i \in DOMAIN shown' : shown'[i].mine => Own(shown'[i].msg)
    BY <1>3
  <2>3. \A m : Mine(m)' => Own(m)
    BY <2>2 DEF Mine
  <2>4. \A m : Own(m)' = Own(m) /\ Expected(m)' = Expected(m)
    BY <1>1 DEF Own, Expected
  <2>. QED  BY <2>1, <2>3, <2>4
<1>9. ModesInv'
  <2>1. \A m \in ShownMsgs' : m \in Msgs /\ ConvOf(m) = current' /\ m[2] <= next'[ConvOf(m)]
    BY <1>0, <1>1, <1>8 DEF Stored, StoreInv
  <2>2. \A m \in ShownMsgs' : Mine(m)' => Own(m)' /\ \A k \in DOMAIN Queue' : ~Concerns(Queue'[k], m)
    BY <1>0, <1>5, <1>8, <2>1 DEF QueueInv
  <2>. QED  BY <1>1, <1>2, <2>1, <2>2 DEF ModesInv
<1>10. ASSUME ~haunted PROVE ListInv'
  <2>1. ListInv /\ screen' # "ConversationInfo"
    BY <1>1, <1>10 DEF ConvInv
  <2>. QED  BY <1>1, <1>5, <1>6, <2>1 DEF ListInv
<1>11. CountInv'
  <2>1. \A c : Unread(c)' = Unread(c)
    BY <1>1 DEF Unread, Stored
  <2>2. QueueGrows
    BY <1>5, GrowsSame
  <2>. QED  BY <1>0, <1>1, <1>6, <2>1, <2>2, CountKept DEF ConvInv
<1>12. Shows'
  <2>1. Stored(current)' = Stored(current)
    BY <1>1 DEF Stored
  <2>2. \A m \in Msgs, i \in DOMAIN shown' : shown'[i].msg = m => shown'[i].text = Expected(m)'
    BY <1>3, <1>8
  <2>. QED  BY <1>8, <2>1, <2>2 DEF Shows
<1>. QED  BY <1>1, <1>4, <1>5, <1>7, <1>9, <1>10, <1>11, <1>12 DEF ConvInv, ChatInv

\* a conversation that no event under way is about
LEMMA HauntsIs ==
  ASSUME QueueInv, NEW c
  PROVE  /\ ~Haunts(c) => \A k \in DOMAIN Queue : Queue[k].type = "created" => Queue[k].conv # c
         /\ (\A x \in UnderWay : x.conv # c) => \A k \in DOMAIN Queue : Queue[k].conv # c
<1>1. \A k \in DOMAIN Queue : Queue[k] \in UnderWay
  <2>. SUFFICES ASSUME NEW k \in DOMAIN Queue PROVE Queue[k] \in UnderWay
    OBVIOUS
  <2>1. events \in Seq(Events) /\ pending \in Events \union {None}
    BY DEF QueueInv
  <2>2. CASE k \in DOMAIN events /\ Queue[k] = events[k]
    BY <2>2 DEF UnderWay, Range
  <2>3. CASE pending # None /\ Queue[k] = pending
    BY <2>3 DEF UnderWay
  <2>. QED  BY <2>1, <2>2, <2>3 DEF Queue
<1>. QED  BY <1>1 DEF Haunts

LEMMA DeleteConversationConv == ConvInv /\ DeleteConversation => ConvInv'
<1>. SUFFICES ASSUME ConvInv, DeleteConversation PROVE ConvInv'
  OBVIOUS
<1>0. StoreInv /\ QueueInv /\ ScreenInv /\ ModesInv
  BY DEF ConvInv
<1>1. PICK c \in Convs : c = Selected
  BY <1>0, EntryPeers DEF DeleteConversation, Selected
<1>2. /\ UNCHANGED <<members, next, events, pending, pc, current, shown, screen, thread, editing, confirm, reply,
                     form, group, peer>>
      /\ sel \in DOMAIN entries /\ entries[sel].conv = c
      /\ convs' = convs \ {c} /\ excused' = excused \union Stored(c)
      /\ store' = [m \in Msgs |-> IF ConvOf(m) = c THEN None ELSE store[m]]
      /\ entries' = RemoveAt(entries, sel) /\ haunted' = (haunted \/ Haunts(c))
      /\ sel' = IF sel > Len(entries') /\ sel > 1 THEN (IF entries' = <<>> THEN 1 ELSE Len(entries')) ELSE sel
      /\ Idle /\ screen = "Conversations" /\ form = "none" /\ pc = "idle"
  BY <1>1 DEF DeleteConversation, Selected, authVars, modeVars, formVars, ListKey, OnList, Idle
<1>3. current = None /\ shown = <<>> /\ editing = None /\ confirm = None /\ reply = None
  BY <1>0, <1>2 DEF ScreenInv
<1>4. entries \in Seq(Entries) /\ DOMAIN entries = 1 .. Len(entries) /\ Len(entries) \in Nat
  BY <1>0 DEF ScreenInv
<1>5. /\ entries' \in Seq(Entries) /\ Len(entries') = Len(entries) - 1
      /\ \A j \in 1 .. Len(entries) - 1 : entries'[j] = entries[IF j < sel THEN j ELSE j + 1]
  <2>1. sel \in 1 .. Len(entries) /\ entries' = RemoveAt(entries, sel)
    BY <1>2, <1>4
  <2>. QED  BY <1>4, <2>1, RemoveAtIs
<1>6. DOMAIN entries' = 1 .. Len(entries) - 1
  <2>1. entries' \in Seq(Entries) /\ Len(entries') = Len(entries) - 1
    BY <1>5
  <2>. QED  BY <2>1
<1>7. \A i \in DOMAIN entries : i # sel => \E j \in DOMAIN entries' : entries'[j] = entries[i]
  <2>. SUFFICES ASSUME NEW i \in DOMAIN entries, i # sel PROVE \E j \in DOMAIN entries' : entries'[j] = entries[i]
    OBVIOUS
  <2>1. CASE i < sel
    <3>1. i \in 1 .. Len(entries) - 1
      BY <1>2, <1>4, <2>1
    <3>2. entries'[i] = entries[i]
      BY <1>5, <2>1, <3>1
    <3>. QED  BY <1>6, <3>1, <3>2
  <2>2. CASE ~(i < sel)
    <3>1. i - 1 \in 1 .. Len(entries) - 1 /\ ~(i - 1 < sel) /\ (i - 1) + 1 = i
      BY <1>2, <1>4, <2>2
    <3>2. entries'[i - 1] = entries[i]
      BY <1>5, <3>1
    <3>. QED  BY <1>6, <3>1, <3>2
  <2>. QED  BY <2>1, <2>2
<1>8. \A j \in DOMAIN entries' : LET i == IF j < sel THEN j ELSE j + 1
                                 IN i \in DOMAIN entries /\ i # sel /\ entries'[j] = entries[i]
  BY <1>2, <1>4, <1>5, <1>6
<1>9. \A d \in Listed : d # c => d \in Listed'
  BY <1>2, <1>7 DEF Listed
<1>10. Listed' \subseteq Listed
  BY <1>8 DEF Listed
<1>11. \A m \in Msgs : store'[m] = IF ConvOf(m) = c THEN None ELSE store[m]
  BY <1>2
<1>12. StoreInv'
  <2>1. store' \in [Msgs -> Rows \union {None}]
    BY <1>0, <1>2 DEF StoreInv
  <2>2. IsFiniteSet(convs') /\ convs' \subseteq Convs
    BY <1>0, <1>2, FS_Subset DEF StoreInv
  <2>3. \A m \in Msgs : store'[m] # None => ConvOf(m) \in convs' /\ m[2] <= next'[ConvOf(m)]
    BY <1>0, <1>2, <1>11 DEF StoreInv
  <2>. QED  BY <1>0, <1>2, <2>1, <2>2, <2>3 DEF StoreInv
<1>13. ASSUME NEW m \in Msgs PROVE Undisturbed(m)
  <2>1. next[ConvOf(m)] \in Nat
    BY <1>0, MsgIs DEF StoreInv
  <2>2. CASE ConvOf(m) = c
    <3>1. store'[m] = None
      BY <1>11, <2>2
    <3>2. ~Own(m)' /\ Expected(m)' = "deleted"
      BY <3>1 DEF Own, Expected
    <3>3. Expected(m) = "deleted" \/ m \in excused'
      BY <1>2, <2>2 DEF Expected, Stored
    <3>. QED  BY <1>2, <2>1, <3>2, <3>3 DEF Undisturbed
  <2>3. CASE ConvOf(m) # c
    <3>1. store'[m] = store[m]
      BY <1>11, <2>3
    <3>2. Own(m)' = Own(m) /\ Expected(m)' = Expected(m)
      BY <3>1 DEF Own, Expected
    <3>. QED  BY <1>2, <2>1, <3>2 DEF Undisturbed
  <2>. QED  BY <2>2, <2>3
<1>14. QueueInv' /\ Queue' = Queue
  BY <1>0, <1>2, <1>12, <1>13, QueueSame
<1>15. Loaded /\ Loaded' /\ ~InChat'
  BY <1>2 DEF Loaded, InChat, ChatScreens
<1>16. sel' \in Nat \ {0} /\ (entries' = <<>> => sel' = 1) /\ (entries' # <<>> => sel' \in DOMAIN entries')
  <2>1. sel \in 1 .. Len(entries)
    BY <1>2, <1>4
  <2>2. CASE entries' = <<>>
    <3>1. Len(entries') = 0
      BY <2>2
    <3>2. sel = 1
      <4>1. Len(entries) - 1 = 0
        BY <1>5, <3>1
      <4>2. Len(entries) \in Nat
        BY <1>4
      <4>3. Len(entries) = 1
        BY <4>1, <4>2
      <4>. QED  BY <2>1, <4>3
    <3>3. sel' = 1
      BY <1>2, <3>2
    <3>. QED  BY <2>2, <3>3
  <2>3. CASE entries' # <<>>
    <3>1. Len(entries') # 0
      BY <1>5, <2>3
    <3>. QED  BY <1>2, <1>4, <1>5, <1>6, <2>1, <2>3, <3>1
  <2>. QED  BY <2>2, <2>3
<1>17. ScreenInv'
  BY <1>0, <1>2, <1>3, <1>5, <1>15, <1>16 DEF ScreenInv, ChatScreens
<1>18. ModesInv'
  BY <1>2, <1>3, ModesEmpty
<1>19. ASSUME ~haunted' PROVE ListInv'
  <2>1. ListInv /\ ~Haunts(c)
    BY <1>2, <1>19 DEF ConvInv
  <2>2. \A k \in DOMAIN Queue : Queue[k].type = "created" => Queue[k].conv # c
    BY <1>0, <2>1, HauntsIs
  <2>3. ASSUME NEW k \in DOMAIN Queue', Queue'[k].type = "created"
        PROVE  /\ Queue'[k].conv \in convs' /\ Queue'[k].about \subseteq members[Queue'[k].conv]
               /\ \/ Queue'[k].conv \in Listed' \/ Queue'[k].about = members[Queue'[k].conv]
                  \/ Tells(Queue', k, "added", Queue'[k].conv)
    BY <1>2, <1>9, <1>14, <2>1, <2>2, <2>3 DEF ListInv
  <2>4. ASSUME NEW i \in DOMAIN entries', NEW j \in DOMAIN entries', entries'[i].conv = entries'[j].conv PROVE i = j
    <3>1. PICK a \in DOMAIN entries : a = (IF i < sel THEN i ELSE i + 1) /\ entries'[i] = entries[a]
      BY <1>8
    <3>2. PICK b \in DOMAIN entries : b = (IF j < sel THEN j ELSE j + 1) /\ entries'[j] = entries[b]
      BY <1>8
    <3>3. a = b
      BY <2>1, <2>4, <3>1, <3>2 DEF ListInv
    <3>. QED  BY <1>2, <1>4, <1>6, <3>1, <3>2, <3>3
  <2>5. ASSUME NEW j \in DOMAIN entries'
        PROVE  /\ entries'[j].conv \in convs' /\ entries'[j].peers # {}
               /\ entries'[j].peers \subseteq members[entries'[j].conv]
               /\ entries'[j].peers = members[entries'[j].conv] \/ Tells(Queue', 0, "added", entries'[j].conv)
    <3>1. PICK i \in DOMAIN entries : i # sel /\ entries'[j] = entries[i]
      BY <1>8
    <3>2. entries[i].conv # c
      BY <1>2, <2>1, <3>1 DEF ListInv
    <3>. QED  BY <1>2, <1>14, <2>1, <3>1, <3>2 DEF ListInv
  <2>. QED  BY <1>2, <1>16, <2>3, <2>4, <2>5 DEF ListInv
<1>20. Counted'
  <2>0. Counted
    BY <1>15 DEF ConvInv, CountInv
  <2>1. \A d \in convs' : d \in Listed' \/ Tells(Queue, 0, "created", d)
    BY <1>2, <1>9, <2>0 DEF Counted
  <2>2. \A d \in Convs : \A m \in Unread(d)' : m \in Unread(d)
    BY <1>11 DEF Unread, Stored
  <2>3. Unread(c)' = {}
    BY <1>11 DEF Unread, Stored
  <2>4. \A d \in Convs \ Listed' : d \notin Listed \/ Unread(d)' = {}
    <3>. SUFFICES ASSUME NEW d \in Convs \ Listed' PROVE d \notin Listed \/ d = c
      BY <2>3
    <3>. QED  BY <1>9
  <2>5. ASSUME NEW d \in Convs, NEW i \in DOMAIN entries', entries'[i].conv = d
        PROVE  \E j \in DOMAIN entries :
                 entries[j].conv = d /\ d # current /\ entries[j].unread = entries'[i].unread
    BY <1>3, <1>8, <2>5, ChatAssumption
  <2>6. excused \subseteq excused'
    BY <1>2
  <2>. QED  BY <1>14, <1>15, <1>17, <2>1, <2>2, <2>4, <2>5, <2>6, CountLess
<1>. QED  BY <1>12, <1>14, <1>15, <1>17, <1>18, <1>19, <1>20 DEF ConvInv, CountInv, ChatInv

LEMMA StartConversationConv ==
  ASSUME ConvInv, NEW c \in Convs, NEW p \in SUBSET Peers, p # {}, form \in {"new", "group"},
         StartConversation(c, p)
  PROVE  ConvInv'
<1>. DEFINE entry == Entry(c, 0, p)
<1>0. StoreInv /\ QueueInv /\ ScreenInv /\ ModesInv
  BY DEF ConvInv
<1>1. /\ UNCHANGED <<store, next, events, pending, pc, thread, editing, confirm, reply, peer, excused, haunted>>
      /\ Fresh(c) /\ convs' = convs \union {c} /\ members' = [members EXCEPT ![c] = p]
      /\ entries' = Append(entries, entry) /\ sel' = Len(entries') /\ current' = c /\ shown' = <<>>
      /\ form' = "none" /\ group' = {} /\ screen' = "Chat" /\ Idle /\ screen = "Conversations" /\ pc = "idle"
  BY DEF StartConversation, ScreenIs, OnList, Idle
<1>2. c \notin convs /\ c \notin Listed /\ next[c] = 0 /\ \A x \in UnderWay : x.conv # c
  BY <1>1 DEF Fresh
<1>3. current = None /\ editing = None /\ confirm = None /\ reply = None /\ thread = None
  BY <1>0, <1>1 DEF ScreenInv, ChatScreens
<1>4. entry \in Entries /\ entry.conv = c /\ entry.peers = p
  BY DEF Entries, Entry
<1>5. entries \in Seq(Entries)
  BY <1>0 DEF ScreenInv
<1>. HIDE DEF entry
<1>6. /\ entries' \in Seq(Entries) /\ Len(entries') = Len(entries) + 1 /\ Len(entries) \in Nat
      /\ DOMAIN entries \subseteq DOMAIN entries' /\ Len(entries) + 1 \in DOMAIN entries'
      /\ \A i \in DOMAIN entries : entries'[i] = entries[i]
      /\ \A i \in DOMAIN entries' : i \in DOMAIN entries \/ (i = Len(entries) + 1 /\ entries'[i] = entry)
      /\ entries'[Len(entries) + 1] = entry
  BY <1>1, <1>4, <1>5
<1>7. Listed' = Listed \union {c}
  BY <1>4, <1>6 DEF Listed
<1>8. /\ members' \in [Convs -> SUBSET Peers] /\ members'[c] = p
      /\ \A d \in Convs : d # c => members'[d] = members[d]
  BY <1>0, <1>1 DEF StoreInv
<1>9. StoreInv'
  <2>1. IsFiniteSet(convs') /\ convs' \subseteq Convs
    BY <1>0, <1>1, FS_AddElement DEF StoreInv
  <2>2. \A d \in convs' : members'[d] # {}
    BY <1>0, <1>1, <1>8 DEF StoreInv
  <2>. QED  BY <1>0, <1>1, <1>8, <2>1, <2>2 DEF StoreInv
<1>10. \A m \in Msgs : Undisturbed(m)
  BY <1>0, <1>1, QuietStore
<1>11. QueueInv' /\ Queue' = Queue
  BY <1>0, <1>1, <1>9, <1>10, QueueSame
<1>12. \A k \in DOMAIN Queue : Queue[k].conv # c
  BY <1>0, <1>2, HauntsIs
<1>13. Loaded /\ Loaded' /\ InChat'
  BY <1>1 DEF Loaded, InChat, ChatScreens
<1>14. ScreenInv'
  <2>1. shown' \in Seq(Copies) /\ c # None /\ sel' \in Nat \ {0} /\ c \in Listed'
    BY <1>1, <1>6, <1>7, ChatAssumption
  <2>. QED  BY <1>0, <1>1, <1>3, <1>6, <1>13, <2>1 DEF ScreenInv, ChatScreens
<1>15. ModesInv'
  BY <1>1, <1>3, ModesEmpty
<1>16. \A i \in DOMAIN entries : entries[i].conv \in Listed
  BY DEF Listed
<1>17. ASSUME ~haunted PROVE ListInv'
  <2>1. ListInv
    BY <1>17 DEF ConvInv
  <2>2. ASSUME NEW k \in DOMAIN Queue', Queue'[k].type = "created"
        PROVE  /\ Queue'[k].conv \in convs' /\ Queue'[k].about \subseteq members'[Queue'[k].conv]
               /\ \/ Queue'[k].conv \in Listed' \/ Queue'[k].about = members'[Queue'[k].conv]
                  \/ Tells(Queue', k, "added", Queue'[k].conv)
    <3>1. /\ Queue[k].conv \in convs /\ Queue[k].about \subseteq members[Queue[k].conv]
          /\ \/ Queue[k].conv \in Listed \/ Queue[k].about = members[Queue[k].conv]
             \/ Tells(Queue, k, "added", Queue[k].conv)
      BY <1>11, <2>1, <2>2 DEF ListInv
    <3>2. members'[Queue[k].conv] = members[Queue[k].conv]
      BY <1>0, <1>8, <1>11, <1>12, <3>1 DEF StoreInv
    <3>. QED  BY <1>1, <1>7, <1>11, <3>1, <3>2
  <2>3. ASSUME NEW i \in DOMAIN entries', NEW j \in DOMAIN entries', entries'[i].conv = entries'[j].conv PROVE i = j
    <3>1. \A a, b \in DOMAIN entries : entries[a].conv = entries[b].conv => a = b
      BY <2>1 DEF ListInv
    <3>. QED  BY <1>2, <1>4, <1>6, <1>16, <2>3, <3>1
  <2>4. ASSUME NEW i \in DOMAIN entries'
        PROVE  /\ entries'[i].conv \in convs' /\ entries'[i].peers # {}
               /\ entries'[i].peers \subseteq members'[entries'[i].conv]
               /\ entries'[i].peers = members'[entries'[i].conv] \/ Tells(Queue', 0, "added", entries'[i].conv)
    <3>1. CASE i \in DOMAIN entries
      <4>1. /\ entries[i].conv \in convs /\ entries[i].peers # {}
            /\ entries[i].peers \subseteq members[entries[i].conv]
            /\ entries[i].peers = members[entries[i].conv] \/ Tells(Queue, 0, "added", entries[i].conv)
        BY <2>1, <3>1 DEF ListInv
      <4>2. members'[entries[i].conv] = members[entries[i].conv]
        BY <1>0, <1>2, <1>8, <4>1 DEF StoreInv
      <4>. QED  BY <1>1, <1>6, <1>11, <3>1, <4>1, <4>2
    <3>2. CASE entries'[i] = entry
      BY <1>1, <1>4, <1>8, <3>2
    <3>. QED  BY <1>6, <3>1, <3>2
  <2>5. entries' # <<>> /\ sel' \in DOMAIN entries' /\ screen' # "ConversationInfo"
    BY <1>1, <1>6
  <2>. QED  BY <2>2, <2>3, <2>4, <2>5 DEF ListInv
<1>18. Counted'
  <2>0. Counted
    BY <1>13 DEF ConvInv, CountInv
  <2>1. \A d \in convs' : d \in Listed' \/ Tells(Queue, 0, "created", d)
    BY <1>1, <1>7, <2>0 DEF Counted
  <2>2. \A d : Unread(d)' = Unread(d)
    BY <1>1 DEF Unread, Stored
  <2>3. ASSUME NEW d \in Convs, NEW i \in DOMAIN entries', entries'[i].conv = d
        PROVE  \/ d = current'
               \/ \E j \in DOMAIN entries :
                    entries[j].conv = d /\ d # current /\ entries[j].unread = entries'[i].unread
    <3>1. CASE i \in DOMAIN entries
      BY <1>3, <1>6, <2>3, <3>1, ChatAssumption
    <3>2. CASE entries'[i] = entry
      BY <1>1, <1>4, <2>3, <3>2
    <3>. QED  BY <1>6, <3>1, <3>2
  <2>4. excused \subseteq excused' /\ \A d \in Convs \ Listed' : d \notin Listed
    BY <1>1, <1>7
  <2>. QED  BY <1>11, <1>13, <1>14, <2>1, <2>2, <2>3, <2>4, CountLess
<1>19. Shows'
  <2>1. Stored(current)' = {}
    BY <1>0, <1>1, <1>2 DEF Stored, StoreInv
  <2>. QED  BY <1>1, <2>1 DEF Shows
<1>. QED  BY <1>1, <1>9, <1>11, <1>14, <1>15, <1>17, <1>18, <1>19 DEF ConvInv, CountInv, ChatInv

LEMMA CreateConv ==
  ASSUME ConvInv, NEW c \in Convs, CreateGroup(c) \/ \E u \in Peers : CreateConversation(c, u)
  PROVE  ConvInv'
<1>1. CASE CreateGroup(c)
  <2>1. group \in SUBSET Peers
    BY DEF ConvInv, ScreenInv
  <2>2. group # {}
    BY <1>1, FS_EmptySet DEF CreateGroup
  <2>3. form \in {"new", "group"} /\ StartConversation(c, group)
    BY <1>1 DEF CreateGroup
  <2>4. PICK p \in SUBSET Peers : p = group
    BY <2>1
  <2>. QED  BY <2>2, <2>3, <2>4, StartConversationConv
<1>2. ASSUME NEW u \in Peers, CreateConversation(c, u) PROVE ConvInv'
  BY <1>2, StartConversationConv DEF CreateConversation
<1>. QED  BY <1>1, <1>2

LEMMA AddMemberConv == ASSUME ConvInv, NEW u \in Peers, AddMember(u) PROVE ConvInv'
<1>0. StoreInv /\ QueueInv /\ ScreenInv /\ ModesInv /\ CountInv /\ ChatInv
  BY DEF ConvInv
<1>1. PICK c \in convs : c = current
  BY DEF AddMember
<1>2. /\ UNCHANGED <<convs, store, next, events, pending, pc, sel, current, shown, screen, thread, editing,
                     confirm, reply, group, peer, excused, haunted>>
      /\ members' = [members EXCEPT ![c] = @ \union {u}] /\ RefreshEntry(c) /\ form' = "none"
      /\ Idle /\ form = "member"
  BY <1>1 DEF AddMember, authVars
<1>3. /\ members' \in [Convs -> SUBSET Peers] /\ members'[c] = members[c] \union {u} /\ c \in Convs
      /\ \A d \in Convs : d # c => members'[d] = members[d]
  BY <1>0, <1>2 DEF StoreInv
<1>4. \A d \in Convs : members[d] \subseteq members'[d]
  BY <1>3
<1>5. /\ entries' \in Seq(Entries) /\ DOMAIN entries' = DOMAIN entries /\ Len(entries') = Len(entries)
      /\ Listed' = Listed
      /\ \A i \in DOMAIN entries :
           /\ entries'[i].conv = entries[i].conv /\ entries'[i].unread = entries[i].unread
           /\ entries'[i].peers = IF entries[i].conv = c THEN members'[c] ELSE entries[i].peers
  BY <1>0, <1>2, <1>3, RefreshIs
<1>6. StoreInv'
  <2>1. \A d \in convs : d \in Convs /\ members'[d] # {}
    BY <1>0, <1>4 DEF StoreInv
  <2>. QED  BY <1>0, <1>2, <1>3, <2>1 DEF StoreInv
<1>7. \A m \in Msgs : Undisturbed(m)
  BY <1>0, <1>2, QuietStore
<1>8. QueueInv' /\ Queue' = Queue /\ QueueGrows
  BY <1>0, <1>2, <1>6, <1>7, QueueSame, GrowsSame
<1>9. (Loaded' <=> Loaded) /\ Loaded /\ Loaded' /\ (InChat' <=> InChat)
  BY <1>2 DEF Loaded, InChat, Idle
<1>10. ScreenInv'
  BY <1>0, <1>2, <1>5, <1>9 DEF ScreenInv, Idle
<1>11. ModesInv'
  <2>1. /\ ShownMsgs' = ShownMsgs /\ \A m : Mine(m)' <=> Mine(m)
        /\ {editing', confirm'} \ {None} \subseteq {m \in ShownMsgs : Mine(m)'}
        /\ {reply'} \ {None} \subseteq ShownMsgs
    BY <1>0, <1>2, ModesSame
  <2>2. \A m \in ShownMsgs : m \in Msgs /\ next[ConvOf(m)] <= next'[ConvOf(m)]
    BY <1>0, <1>7, ShownIs DEF Undisturbed
  <2>3. \A m \in ShownMsgs : Mine(m) => store'[m] = None \/ (Own(m) /\ Own(m)')
    BY <1>0, <1>2 DEF ModesInv, Own
  <2>. QED  BY <1>0, <1>2, <1>6, <1>8, <2>1, <2>2, <2>3, ModesKept
<1>12. ASSUME ~haunted PROVE ListInv'
  <2>1. ListInv
    BY <1>12 DEF ConvInv
  <2>2. c \in Listed
    BY <1>0, <1>1, <1>3, ChatAssumption DEF ScreenInv
  <2>3. ASSUME NEW k \in DOMAIN Queue', Queue'[k].type = "created"
        PROVE  /\ Queue'[k].conv \in convs' /\ Queue'[k].about \subseteq members'[Queue'[k].conv]
               /\ \/ Queue'[k].conv \in Listed' \/ Queue'[k].about = members'[Queue'[k].conv]
                  \/ Tells(Queue', k, "added", Queue'[k].conv)
    <3>1. /\ Queue[k].conv \in convs /\ Queue[k].about \subseteq members[Queue[k].conv]
          /\ \/ Queue[k].conv \in Listed \/ Queue[k].about = members[Queue[k].conv]
             \/ Tells(Queue, k, "added", Queue[k].conv)
      BY <1>8, <2>1, <2>3 DEF ListInv
    <3>2. Queue[k].conv \in Convs
      BY <1>0, <3>1 DEF StoreInv
    <3>3. Queue[k].about \subseteq members'[Queue[k].conv]
      BY <1>4, <3>1, <3>2
    <3>4. CASE Queue[k].conv = c
      BY <1>2, <1>5, <1>8, <2>2, <3>1, <3>3, <3>4
    <3>5. CASE Queue[k].conv # c
      BY <1>2, <1>3, <1>5, <1>8, <3>1, <3>2, <3>3, <3>5
    <3>. QED  BY <3>4, <3>5
  <2>4. ASSUME NEW i \in DOMAIN entries
        PROVE  /\ entries'[i].conv \in convs' /\ entries'[i].peers # {}
               /\ entries'[i].peers \subseteq members'[entries'[i].conv]
               /\ entries'[i].peers = members'[entries'[i].conv] \/ Tells(Queue', 0, "added", entries'[i].conv)
               /\ entries[i].peers \subseteq entries'[i].peers
    <3>1. /\ entries[i].conv \in convs /\ entries[i].conv \in Convs /\ entries[i].peers # {}
          /\ entries[i].peers \subseteq members[entries[i].conv]
          /\ entries[i].peers = members[entries[i].conv] \/ Tells(Queue, 0, "added", entries[i].conv)
      BY <1>0, <2>1 DEF ListInv, StoreInv
    <3>2. CASE entries[i].conv = c
      BY <1>2, <1>3, <1>5, <3>1, <3>2
    <3>3. CASE entries[i].conv # c
      BY <1>2, <1>3, <1>5, <1>8, <3>1, <3>3
    <3>. QED  BY <3>2, <3>3
  <2>5. \A i, j \in DOMAIN entries' : entries'[i].conv = entries'[j].conv => i = j
    BY <1>5, <2>1 DEF ListInv
  <2>6. (entries' = <<>> => sel' = 1) /\ (entries' # <<>> => sel' \in DOMAIN entries')
    <3>1. entries' = <<>> <=> entries = <<>>
      BY <1>5
    <3>. QED  BY <1>2, <1>5, <2>1, <3>1 DEF ListInv
  <2>7. ASSUME screen = "ConversationInfo"
        PROVE  \E i \in DOMAIN entries' : entries'[i].conv = current /\ peer \in 1 .. Cardinality(entries'[i].peers)
    <3>1. PICK i \in DOMAIN entries : entries[i].conv = current /\ peer \in 1 .. Cardinality(entries[i].peers)
      BY <2>1, <2>7 DEF ListInv
    <3>2. entries'[i] \in Entries
      BY <1>5
    <3>3. entries'[i].peers \subseteq Peers
      BY <3>2 DEF Entries
    <3>4. IsFiniteSet(Peers)
      BY ChatAssumption
    <3>5. IsFiniteSet(entries'[i].peers)
      BY <3>3, <3>4, FS_Subset
    <3>6. entries[i].peers \subseteq entries'[i].peers
      BY <2>4
    <3>7. IsFiniteSet(entries[i].peers) /\ Cardinality(entries[i].peers) <= Cardinality(entries'[i].peers)
      BY <3>5, <3>6, FS_Subset
    <3>8. Cardinality(entries[i].peers) \in Nat /\ Cardinality(entries'[i].peers) \in Nat
      BY <3>5, <3>7, FS_CardinalityType
    <3>9. peer \in 1 .. Cardinality(entries'[i].peers)
      BY <3>1, <3>7, <3>8
    <3>. QED  BY <1>5, <3>1, <3>9
  <2>. QED  BY <1>2, <1>5, <2>3, <2>4, <2>5, <2>6, <2>7 DEF ListInv
<1>13. \A d : Unread(d)' = Unread(d) /\ Stored(d)' = Stored(d)
  BY <1>2 DEF Unread, Stored
<1>14. Counted'
  <2>1. \A d \in convs' : d \in Listed' \/ Tells(Queue, 0, "created", d)
    BY <1>0, <1>2, <1>5, <1>9 DEF CountInv, Counted
  <2>2. \A d \in Convs, i \in DOMAIN entries' : entries'[i].conv = d =>
           \/ d = current'
           \/ \E j \in DOMAIN entries :
                entries[j].conv = d /\ d # current /\ entries[j].unread = entries'[i].unread
    BY <1>2, <1>5
  <2>. QED  BY <1>2, <1>5, <1>8, <1>9, <1>10, <1>13, <2>1, <2>2, CountLess
<1>15. ChatInv'
  <2>1. \A m : Expected(m)' = Expected(m)
    BY <1>2 DEF Expected
  <2>. QED  BY <1>0, <1>2, <1>8, <1>9, <1>13, <2>1, ChatKept DEF Stored
<1>. QED  BY <1>2, <1>6, <1>8, <1>10, <1>11, <1>12, <1>14, <1>15 DEF ConvInv, CountInv

\* The user's own messages are what no event is about.
LEMMA QueueOwn ==
  ASSUME QueueInv, StoreInv, StoreInv', excused \subseteq excused', UNCHANGED <<events, pending>>,
         \A m \in Msgs : Undisturbed(m) \/ \A k \in DOMAIN Queue : ~Concerns(Queue[k], m)
  PROVE  QueueInv' /\ Queue' = Queue
<1>1. Queue' = Queue
  BY DEF Queue
<1>2. ASSUME NEW k \in DOMAIN Queue, NEW m \in Msgs, Concerns(Queue[k], m)
      PROVE  /\ Queue'[k].conv = ConvOf(m) /\ m[2] <= next'[ConvOf(m)] /\ ~Own(m)'
             /\ TextOf(Queue'[k]) = Expected(m)' \/ m \in excused' \/ Rewritten(Queue', k, m)
  <2>1. Undisturbed(m)
    BY <1>2
  <2>. QED  BY <1>1, <1>2, <2>1, CellKept
<1>. QED  BY <1>1, <1>2 DEF QueueInv

\* A key of the chat screen that changes one message of the user's: what of it is kept.
LEMMA OwnKeeps ==
  ASSUME ConvInv, StoreInv', NEW m0 \in Msgs, Loaded, Loaded', InChat,
         UNCHANGED <<convs, members, events, pending, pc, entries, sel, current, screen, thread,
                     form, group, peer, haunted>>,
         excused \subseteq excused',
         \A k \in DOMAIN Queue : ~Concerns(Queue[k], m0),
         \A m \in Msgs : m # m0 => store'[m] = store[m],
         \A c \in Convs : next[c] <= next'[c],
         m0 \notin Unread(ConvOf(m0))',
         shown' \in Seq(Copies),
         editing' \in {editing, None}, confirm' \in {confirm, None}, reply' \in {reply, None},
         ShownMsgs \subseteq ShownMsgs',
         \A m \in ShownMsgs' : m \in ShownMsgs \/ m = m0,
         \A m : m # m0 => (Mine(m)' <=> Mine(m)),
         Mine(m0) => Mine(m0)',
         m0 \in ShownMsgs' => ConvOf(m0) = current /\ m0[2] <= next'[current] /\ (store'[m0] = None \/ Own(m0)')
  PROVE  StoreInv' /\ QueueInv' /\ ScreenInv' /\ ModesInv' /\ (~haunted' => ListInv') /\ CountInv' /\ Queue' = Queue
<1>0. StoreInv /\ QueueInv /\ ScreenInv /\ ModesInv /\ CountInv
  BY DEF ConvInv
<1>1. ASSUME NEW m \in Msgs PROVE Undisturbed(m) \/ \A k \in DOMAIN Queue : ~Concerns(Queue[k], m)
  <2>1. CASE m = m0
    BY <2>1
  <2>2. CASE m # m0
    <3>1. Own(m)' = Own(m) /\ Expected(m)' = Expected(m)
      BY <2>2 DEF Own, Expected
    <3>. QED  BY <3>1, MsgIs DEF Undisturbed
  <2>. QED  BY <2>1, <2>2
<1>2. QueueInv' /\ Queue' = Queue
  BY <1>0, <1>1, QueueOwn
<1>3. Listed' = Listed /\ (InChat' <=> InChat)
  BY DEF Listed, InChat
<1>4. ScreenInv'
  <2>1. screen # "Conversations"
    BY DEF InChat
  <2>. QED  BY <1>0, <1>3, <2>1 DEF ScreenInv
<1>5. ModesInv'
  <2>1. ASSUME NEW m \in ShownMsgs' PROVE ConvOf(m) = current' /\ m[2] <= next'[ConvOf(m)]
    <3>1. CASE m \in ShownMsgs
      <4>1. ConvOf(m) = current /\ m[2] <= next[ConvOf(m)] /\ m \in Msgs
        BY <1>0, <3>1, ShownIs DEF ModesInv
      <4>2. m[2] \in Nat /\ ConvOf(m) \in Convs /\ next[ConvOf(m)] \in Nat /\ next'[ConvOf(m)] \in Nat
        BY <1>0, <4>1, MsgIs DEF StoreInv
      <4>. QED  BY <4>1, <4>2
    <3>2. CASE m = m0
      BY <2>1, <3>2
    <3>. QED  BY <2>1, <3>1, <3>2
  <2>2. ASSUME NEW m \in ShownMsgs', Mine(m)'
        PROVE  (store'[m] = None \/ Own(m)') /\ \A k \in DOMAIN Queue' : ~Concerns(Queue'[k], m)
    <3>1. CASE m = m0
      BY <1>2, <2>2, <3>1
    <3>2. CASE m # m0
      <4>1. m \in ShownMsgs /\ Mine(m) /\ m \in Msgs
        BY <1>0, <2>2, <3>2, ShownIs
      <4>2. store'[m] = store[m]
        BY <3>2, <4>1
      <4>. QED  BY <1>0, <1>2, <4>1, <4>2 DEF ModesInv, Own
    <3>. QED  BY <3>1, <3>2
  <2>3. {editing', confirm'} \ {None} \subseteq {m \in ShownMsgs' : Mine(m)'}
    <3>. SUFFICES ASSUME NEW m \in {editing, confirm} \ {None} PROVE m \in ShownMsgs' /\ Mine(m)'
      OBVIOUS
    <3>1. m \in ShownMsgs /\ Mine(m)
      BY <1>0 DEF ModesInv
    <3>. QED  BY <3>1
  <2>4. {reply'} \ {None} \subseteq ShownMsgs'
    BY <1>0 DEF ModesInv
  <2>. QED  BY <2>1, <2>2, <2>3, <2>4 DEF ModesInv
<1>6. ASSUME ~haunted PROVE ListInv'
  <2>1. ListInv
    BY <1>6 DEF ConvInv
  <2>. QED  BY <1>2, <2>1, ListSame
<1>7. CountInv'
  <2>1. ASSUME NEW c \in Convs, NEW m \in Msgs, m \in Unread(c)' PROVE m \in Unread(c)
    <3>1. m # m0
      BY <2>1 DEF Unread, Stored
    <3>. QED  BY <2>1, <3>1 DEF Unread, Stored
  <2>2. QueueGrows /\ \A c \in convs' : c \in convs
    BY <1>2, GrowsSame
  <2>. QED  BY <1>0, <2>1, <2>2, CountKept
<1>. QED  BY <1>2, <1>4, <1>5, <1>6, <1>7

LEMMA DeleteMessageConv == ConvInv /\ DeleteMessage => ConvInv'
<1>. SUFFICES ASSUME ConvInv, DeleteMessage PROVE ConvInv'
  OBVIOUS
<1>0. StoreInv /\ QueueInv /\ ScreenInv /\ ModesInv /\ ChatInv
  BY DEF ConvInv
<1>1. /\ UNCHANGED <<convs, members, next, events, pending, pc, entries, sel, current, screen, thread,
                     editing, reply, form, group, peer, excused, haunted>>
      /\ confirm # None /\ confirm' = None /\ Idle /\ screen = "Chat"
      /\ \/ store' = [store EXCEPT ![confirm] = None] /\ Rewrite(confirm, "deleted")
         \/ UNCHANGED <<store, shown>>
  BY DEF DeleteMessage, formVars, authVars, Confirming, ChatKey, Idle
<1>2. confirm \in ShownMsgs /\ Mine(confirm) /\ ShownMsgs \subseteq Msgs /\ shown \in Seq(Copies)
  BY <1>0, <1>1, ShownIs DEF ModesInv, ScreenInv
<1>3. PICK m0 \in Msgs : m0 = confirm
  BY <1>2
<1>4. /\ ConvOf(m0) = current /\ m0[2] <= next[ConvOf(m0)]
      /\ store[m0] = None \/ Own(m0)
      /\ \A k \in DOMAIN Queue : ~Concerns(Queue[k], m0)
  BY <1>0, <1>2, <1>3 DEF ModesInv
<1>5. store' \in [Msgs -> Rows \union {None}] /\ store'[m0] \in {store[m0], None}
      /\ \A m \in Msgs : m # m0 => store'[m] = store[m]
  BY <1>0, <1>1, <1>3 DEF StoreInv
<1>6. StoreInv'
  BY <1>0, <1>1, <1>5, StoreRows
<1>7. Loaded /\ Loaded' /\ InChat /\ InChat'
  BY <1>1 DEF Loaded, InChat, Idle, ChatScreens
<1>8. /\ shown' \in Seq(Copies) /\ DOMAIN shown' = DOMAIN shown
      /\ \A i \in DOMAIN shown :
           /\ shown'[i].msg = shown[i].msg /\ shown'[i].mine = shown[i].mine
           /\ \/ \E j \in 1 .. (i - 1) : shown[j].msg = shown[i].msg
              \/ shown'[i].text = shown[i].text /\ (shown[i].msg # m0 \/ store' = store)
              \/ shown[i].msg = m0 /\ shown'[i].text = "deleted" /\ store'[m0] = None
  <2>1. CASE UNCHANGED <<store, shown>>
    BY <1>2, <2>1
  <2>2. CASE store' = [store EXCEPT ![m0] = None] /\ Rewrite(m0, "deleted")
    <3>1. store'[m0] = None
      BY <1>0, <2>2 DEF StoreInv
    <3>2. /\ shown' \in Seq(Copies) /\ DOMAIN shown' = DOMAIN shown
          /\ \A i \in DOMAIN shown :
               /\ shown'[i].msg = shown[i].msg /\ shown'[i].mine = shown[i].mine
               /\ \/ \E j \in 1 .. (i - 1) : shown[j].msg = shown[i].msg
                  \/ shown'[i].text = IF shown[i].msg = m0 THEN "deleted" ELSE shown[i].text
      BY <1>2, <2>2, RewriteIs
    <3>. QED  BY <3>1, <3>2
  <2>. QED  BY <1>1, <1>3, <2>1, <2>2
<1>9. ShownMsgs' = ShownMsgs /\ \A m : Mine(m)' <=> Mine(m)
  BY <1>8 DEF ShownMsgs, Mine
<1>10. m0 \notin Unread(ConvOf(m0))'
  BY <1>4, <1>5 DEF Unread, Stored, Own
<1>11. \A c \in Convs : next[c] <= next'[c]
  BY <1>0, <1>1 DEF StoreInv
<1>12. m0 \in ShownMsgs' => ConvOf(m0) = current /\ m0[2] <= next'[current] /\ (store'[m0] = None \/ Own(m0)')
  BY <1>1, <1>4, <1>5 DEF Own
<1>13. QueueInv' /\ ScreenInv' /\ ModesInv' /\ (~haunted' => ListInv') /\ CountInv' /\ Queue' = Queue
  BY <1>1, <1>4, <1>5, <1>6, <1>7, <1>8, <1>9, <1>10, <1>11, <1>12, OwnKeeps
<1>14. Shows'
  <2>0. Shows
    BY <1>0, <1>7 DEF ChatInv
  <2>1. \A m \in Msgs : m \in Stored(current)' \ excused' => m \in ShownMsgs' \/ Arrives(Queue', m)
    <3>. SUFFICES ASSUME NEW m \in Msgs, m \in Stored(current)' \ excused' PROVE m \in ShownMsgs' \/ Arrives(Queue', m)
      OBVIOUS
    <3>1. m \in Stored(current) \/ m = m0
      BY <1>1, <1>5 DEF Stored
    <3>. QED  BY <1>1, <1>2, <1>3, <1>9, <1>13, <2>0, <3>1 DEF Shows
  <2>2. ASSUME NEW m \in Msgs, NEW i \in DOMAIN shown', shown'[i].msg = m
        PROVE  \/ \E j \in 1 .. (i - 1) : shown'[j].msg = m
               \/ shown'[i].text = Expected(m)' \/ m \in excused' \/ Rewritten(Queue', 0, m)
    <3>1. i \in DOMAIN shown /\ shown[i].msg = m
      BY <1>8, <2>2
    <3>2. CASE \E j \in 1 .. (i - 1) : shown[j].msg = m
      <4>1. \A j \in 1 .. (i - 1) : j \in DOMAIN shown
        BY <1>2, <3>1
      <4>. QED  BY <1>8, <3>2, <4>1
    <3>3. CASE ~\E j \in 1 .. (i - 1) : shown[j].msg = m
      <4>1. shown[i].text = Expected(m) \/ m \in excused \/ Rewritten(Queue, 0, m)
        BY <2>0, <3>1, <3>3 DEF Shows
      <4>2. CASE m = m0 /\ store'[m0] = None /\ shown'[i].text = "deleted"
        BY <4>2 DEF Expected
      <4>3. CASE shown'[i].text = shown[i].text /\ store'[m] = store[m]
        <5>1. Expected(m)' = Expected(m)
          BY <4>3 DEF Expected
        <5>. QED  BY <1>1, <1>13, <4>1, <4>3, <5>1
      <4>. QED  BY <1>5, <1>8, <3>1, <3>3, <4>2, <4>3
    <3>. QED  BY <3>2, <3>3
  <2>. QED  BY <2>1, <2>2 DEF Shows
<1>. QED  BY <1>6, <1>13, <1>14 DEF ConvInv, ChatInv

LEMMA EditMessageConv == ConvInv /\ EditMessage => ConvInv'
<1>. SUFFICES ASSUME ConvInv, EditMessage PROVE ConvInv'
  OBVIOUS
<1>0. StoreInv /\ QueueInv /\ ScreenInv /\ ModesInv /\ ChatInv
  BY DEF ConvInv
<1>1. /\ UNCHANGED <<convs, members, next, events, pending, pc, entries, sel, current, screen, thread,
                     confirm, reply, form, group, peer, haunted>>
      /\ editing # None /\ editing' = None /\ Idle /\ screen = "Chat"
      /\ \/ store[editing] = None /\ UNCHANGED <<store, shown, excused>>
         \/ /\ store[editing] # None /\ store' = [store EXCEPT ![editing].text = "new"]
            /\ \/ Rewrite(editing, "new") /\ excused' = excused
               \/ excused' = excused \union {editing} /\ shown' = shown
  BY DEF EditMessage, formVars, authVars, Editing, ChatKey, Idle
<1>2. editing \in ShownMsgs /\ Mine(editing) /\ ShownMsgs \subseteq Msgs /\ shown \in Seq(Copies)
  BY <1>0, <1>1, ShownIs DEF ModesInv, ScreenInv
<1>3. PICK m0 \in Msgs : m0 = editing
  BY <1>2
<1>4. /\ ConvOf(m0) = current /\ m0[2] <= next[ConvOf(m0)]
      /\ store[m0] = None \/ Own(m0)
      /\ \A k \in DOMAIN Queue : ~Concerns(Queue[k], m0)
  BY <1>0, <1>2, <1>3 DEF ModesInv
\* the row is gone, or has the new text
<1>5. /\ store' \in [Msgs -> Rows \union {None}]
      /\ \A m \in Msgs : m # m0 => store'[m] = store[m]
      /\ \/ store[m0] = None /\ UNCHANGED <<store, shown, excused>>
         \/ /\ store[m0] # None /\ store'[m0] # None
            /\ store'[m0].text = "new" /\ store'[m0].status = store[m0].status
            /\ \/ Rewrite(m0, "new") /\ excused' = excused
               \/ excused' = excused \union {m0} /\ shown' = shown
  <2>1. CASE store[m0] = None /\ UNCHANGED <<store, shown, excused>>
    BY <1>0, <2>1 DEF StoreInv
  <2>2. CASE store[m0] # None /\ store' = [store EXCEPT ![m0].text = "new"]
    <3>. DEFINE row == [store[m0] EXCEPT !.text = "new"]
    <3>1. store[m0] \in Rows
      BY <1>0, <2>2 DEF StoreInv
    <3>2. row \in Rows /\ row.text = "new" /\ row.status = store[m0].status /\ row # None
      BY <3>1, ChatAssumption DEF Rows
    <3>3. store' = [store EXCEPT ![m0] = row]
      BY <1>0, <2>2 DEF StoreInv
    <3>. HIDE DEF row
    <3>4. store' \in [Msgs -> Rows \union {None}] /\ store'[m0] = row /\ \A m \in Msgs : m # m0 => store'[m] = store[m]
      BY <1>0, <3>2, <3>3 DEF StoreInv
    <3>5. (Rewrite(m0, "new") /\ excused' = excused) \/ (excused' = excused \union {m0} /\ shown' = shown)
      BY <1>1, <1>3, <2>2
    <3>. QED  BY <2>2, <3>2, <3>4, <3>5
  <2>. QED  BY <1>1, <1>3, <2>1, <2>2
<1>6. StoreInv'
  BY <1>0, <1>1, <1>5, StoreRows
<1>7. Loaded /\ Loaded' /\ InChat /\ InChat'
  BY <1>1 DEF Loaded, InChat, Idle, ChatScreens
<1>8. /\ shown' \in Seq(Copies) /\ DOMAIN shown' = DOMAIN shown
      /\ \A i \in DOMAIN shown :
           /\ shown'[i].msg = shown[i].msg /\ shown'[i].mine = shown[i].mine
           /\ \/ \E j \in 1 .. (i - 1) : shown[j].msg = shown[i].msg
              \/ shown'[i].text = shown[i].text /\ (shown[i].msg # m0 \/ store' = store \/ m0 \in excused')
              \/ shown[i].msg = m0 /\ shown'[i].text = "new" /\ store'[m0] # None /\ store'[m0].text = "new"
  <2>1. CASE UNCHANGED <<store, shown>>
    BY <1>2, <2>1
  <2>2. CASE shown' = shown /\ m0 \in excused'
    BY <1>2, <2>2
  <2>3. CASE store'[m0] # None /\ store'[m0].text = "new" /\ Rewrite(m0, "new")
    <3>1. /\ shown' \in Seq(Copies) /\ DOMAIN shown' = DOMAIN shown
          /\ \A i \in DOMAIN shown :
               /\ shown'[i].msg = shown[i].msg /\ shown'[i].mine = shown[i].mine
               /\ \/ \E j \in 1 .. (i - 1) : shown[j].msg = shown[i].msg
                  \/ shown'[i].text = IF shown[i].msg = m0 THEN "new" ELSE shown[i].text
      BY <1>2, RewriteIs, <2>3
    <3>. QED  BY <2>3, <3>1
  <2>. QED  BY <1>5, <2>1, <2>2, <2>3
<1>9. ShownMsgs' = ShownMsgs /\ \A m : Mine(m)' <=> Mine(m)
  BY <1>8 DEF ShownMsgs, Mine
<1>10. (store'[m0] = None \/ Own(m0)') /\ m0 \notin Unread(ConvOf(m0))'
  BY <1>4, <1>5 DEF Unread, Stored, Own
<1>11. \A c \in Convs : next[c] <= next'[c]
  BY <1>0, <1>1 DEF StoreInv
<1>12. excused \subseteq excused' /\ current' = current
  BY <1>1, <1>5
<1>13. QueueInv' /\ ScreenInv' /\ ModesInv' /\ (~haunted' => ListInv') /\ CountInv' /\ Queue' = Queue
  BY <1>1, <1>4, <1>5, <1>6, <1>7, <1>8, <1>9, <1>10, <1>11, <1>12, OwnKeeps
<1>14. Shows'
  <2>0. Shows
    BY <1>0, <1>7 DEF ChatInv
  <2>1. \A m \in Msgs : m \in Stored(current)' \ excused' => m \in ShownMsgs' \/ Arrives(Queue', m)
    <3>. SUFFICES ASSUME NEW m \in Msgs, m \in Stored(current)' \ excused' PROVE m \in ShownMsgs' \/ Arrives(Queue', m)
      OBVIOUS
    <3>1. m \in Stored(current) \/ m = m0
      BY <1>1, <1>5 DEF Stored
    <3>. QED  BY <1>2, <1>3, <1>9, <1>12, <1>13, <2>0, <3>1 DEF Shows
  <2>2. ASSUME NEW m \in Msgs, NEW i \in DOMAIN shown', shown'[i].msg = m
        PROVE  \/ \E j \in 1 .. (i - 1) : shown'[j].msg = m
               \/ shown'[i].text = Expected(m)' \/ m \in excused' \/ Rewritten(Queue', 0, m)
    <3>1. i \in DOMAIN shown /\ shown[i].msg = m
      BY <1>8, <2>2
    <3>2. CASE \E j \in 1 .. (i - 1) : shown[j].msg = m
      <4>1. \A j \in 1 .. (i - 1) : j \in DOMAIN shown
        BY <1>2, <3>1
      <4>. QED  BY <1>8, <3>2, <4>1
    <3>3. CASE ~\E j \in 1 .. (i - 1) : shown[j].msg = m
      <4>1. shown[i].text = Expected(m) \/ m \in excused \/ Rewritten(Queue, 0, m)
        BY <2>0, <3>1, <3>3 DEF Shows
      <4>2. CASE m = m0 /\ shown'[i].text = "new" /\ store'[m0] # None /\ store'[m0].text = "new"
        BY <4>2 DEF Expected
      <4>3. CASE shown'[i].text = shown[i].text /\ store'[m] = store[m]
        <5>1. Expected(m)' = Expected(m)
          BY <4>3 DEF Expected
        <5>. QED  BY <1>12, <1>13, <4>1, <4>3, <5>1
      <4>. QED  BY <1>5, <1>8, <3>1, <3>3, <4>2, <4>3
    <3>. QED  BY <3>2, <3>3
  <2>. QED  BY <2>1, <2>2 DEF Shows
<1>. QED  BY <1>6, <1>13, <1>14 DEF ConvInv, ChatInv

LEMMA SendMessageConv ==
  ASSUME ConvInv, SendMessage, NEW m0, m0 = <<current, next[current] + 1>>
  PROVE  ConvInv'
<1>. DEFINE copy == [msg |-> m0, mine |-> TRUE, text |-> "old"]
<1>0. StoreInv /\ QueueInv /\ ScreenInv /\ ModesInv /\ ChatInv
  BY DEF ConvInv
<1>1. PICK c \in convs : c = current
  BY DEF SendMessage
<1>2. /\ UNCHANGED <<convs, members, events, pending, pc, entries, sel, current, screen, thread,
                     editing, confirm, form, group, peer, haunted>>
      /\ reply' = None /\ Idle /\ screen = "Chat"
      /\ next[c] < PerConv /\ next' = [next EXCEPT ![c] = @ + 1]
      /\ store' = [store EXCEPT ![m0] = Message("own")]
      /\ \/ shown' = Append(shown, copy) /\ excused' = excused
         \/ excused' = excused \union {m0} /\ shown' = shown
  BY <1>1 DEF SendMessage, formVars, authVars, Writing, ChatKey, Idle
<1>3. c \in Convs /\ next[c] \in Nat /\ next'[c] = next[c] + 1 /\ next' \in [Convs -> Nat]
      /\ \A d \in Convs : next[d] <= next'[d]
  BY <1>0, <1>2 DEF StoreInv
<1>4. m0 \in Msgs /\ ConvOf(m0) = c /\ m0[2] = next[c] + 1
  BY <1>1, <1>2, <1>3, ChatAssumption DEF Msgs, ConvOf
<1>5. Message("own") \in Rows /\ Message("own") # None /\ Message("own").text = "old" /\ Message("own").status = "own"
  BY ChatAssumption DEF Message, Rows
<1>6. store' \in [Msgs -> Rows \union {None}] /\ store'[m0] = Message("own")
      /\ \A m \in Msgs : m # m0 => store'[m] = store[m]
  BY <1>0, <1>2, <1>4, <1>5 DEF StoreInv
<1>7. copy \in Copies /\ copy.msg = m0 /\ copy.mine /\ copy.text = "old"
  BY <1>4 DEF Copies
<1>8. shown \in Seq(Copies) /\ ShownMsgs \subseteq Msgs
  BY <1>0, ShownIs DEF ScreenInv
<1>9. StoreInv'
  <2>1. ASSUME NEW m \in Msgs, store'[m] # None PROVE ConvOf(m) \in convs /\ m[2] <= next'[ConvOf(m)]
    <3>1. CASE m = m0
      BY <1>3, <1>4, <3>1
    <3>2. CASE m # m0
      <4>1. ConvOf(m) \in convs /\ m[2] <= next[ConvOf(m)] /\ m[2] \in Nat /\ ConvOf(m) \in Convs
        BY <1>0, <1>6, <2>1, <3>2, MsgIs DEF StoreInv
      <4>2. next[ConvOf(m)] \in Nat /\ next'[ConvOf(m)] \in Nat
        BY <1>0, <1>3, <4>1 DEF StoreInv
      <4>. QED  BY <1>3, <4>1, <4>2
    <3>. QED  BY <3>1, <3>2
  <2>. QED  BY <1>0, <1>2, <1>3, <1>6, <2>1 DEF StoreInv
<1>10. \A k \in DOMAIN Queue : ~Concerns(Queue[k], m0)
  BY <1>0, <1>3, <1>4 DEF QueueInv
<1>11. m0 \notin ShownMsgs /\ ~Mine(m0)
  <2>1. m0 \notin ShownMsgs
    BY <1>0, <1>3, <1>4 DEF ModesInv
  <2>. QED  BY <2>1 DEF Mine, ShownMsgs
<1>. HIDE DEF copy
<1>12. /\ shown' \in Seq(Copies) /\ DOMAIN shown \subseteq DOMAIN shown'
       /\ \A i \in DOMAIN shown : shown'[i] = shown[i]
       /\ \A i \in DOMAIN shown' : i \in DOMAIN shown \/ shown'[i] = copy
       /\ m0 \in excused' \/ \E i \in DOMAIN shown' : shown'[i] = copy
  <2>1. CASE shown' = Append(shown, copy)
    <3>1. /\ shown' \in Seq(Copies) /\ DOMAIN shown' = DOMAIN shown \union {Len(shown) + 1}
          /\ shown'[Len(shown) + 1] = copy /\ \A i \in DOMAIN shown : shown'[i] = shown[i]
      BY <1>7, <1>8, <2>1
    <3>. QED  BY <3>1
  <2>2. CASE shown' = shown /\ excused' = excused \union {m0}
    BY <1>8, <2>2
  <2>. QED  BY <1>2, <2>1, <2>2
<1>13. /\ ShownMsgs \subseteq ShownMsgs' /\ \A m \in ShownMsgs' : m \in ShownMsgs \/ m = m0
       /\ m0 \in excused' \/ m0 \in ShownMsgs'
  BY <1>7, <1>12 DEF ShownMsgs
<1>14. \A m : m # m0 => (Mine(m)' <=> Mine(m))
  BY <1>7, <1>12 DEF Mine
<1>15. Loaded /\ Loaded' /\ InChat /\ InChat'
  BY <1>2 DEF Loaded, InChat, Idle, ChatScreens
<1>16. m0 \notin Unread(ConvOf(m0))' /\ Own(m0)'
  BY <1>5, <1>6 DEF Unread, Stored, Own
<1>17. ConvOf(m0) = current /\ m0[2] <= next'[current] /\ excused \subseteq excused'
  BY <1>1, <1>2, <1>3, <1>4
<1>18. QueueInv' /\ ScreenInv' /\ ModesInv' /\ (~haunted' => ListInv') /\ CountInv' /\ Queue' = Queue
  BY <1>2, <1>3, <1>4, <1>6, <1>9, <1>10, <1>11, <1>12, <1>13, <1>14, <1>15, <1>16, <1>17, OwnKeeps
<1>19. Shows'
  <2>0. Shows
    BY <1>0, <1>15 DEF ChatInv
  <2>1. \A m \in Msgs : m \in Stored(current)' \ excused' => m \in ShownMsgs' \/ Arrives(Queue', m)
    <3>. SUFFICES ASSUME NEW m \in Msgs, m \in Stored(current)' \ excused' PROVE m \in ShownMsgs' \/ Arrives(Queue', m)
      OBVIOUS
    <3>1. m \in Stored(current) \/ m = m0
      BY <1>2, <1>6 DEF Stored
    <3>. QED  BY <1>13, <1>17, <1>18, <2>0, <3>1 DEF Shows
  <2>2. ASSUME NEW m \in Msgs, NEW i \in DOMAIN shown', shown'[i].msg = m
        PROVE  \/ \E j \in 1 .. (i - 1) : shown'[j].msg = m
               \/ shown'[i].text = Expected(m)' \/ m \in excused' \/ Rewritten(Queue', 0, m)
    <3>1. CASE i \in DOMAIN shown
      <4>1. m # m0
        BY <1>11, <1>12, <2>2, <3>1 DEF ShownMsgs
      <4>2. Expected(m)' = Expected(m)
        BY <1>6, <4>1 DEF Expected
      <4>3. \A j \in 1 .. (i - 1) : j \in DOMAIN shown
        BY <1>8, <3>1
      <4>4. \/ \E j \in 1 .. (i - 1) : shown[j].msg = m
            \/ shown[i].text = Expected(m) \/ m \in excused \/ Rewritten(Queue, 0, m)
        BY <1>12, <2>0, <2>2, <3>1 DEF Shows
      <4>. QED  BY <1>12, <1>17, <1>18, <3>1, <4>2, <4>3, <4>4
    <3>2. CASE shown'[i] = copy
      <4>1. m = m0 /\ shown'[i].text = "old"
        BY <1>7, <2>2, <3>2
      <4>2. Expected(m0)' = "old"
        BY <1>5, <1>6 DEF Expected
      <4>. QED  BY <4>1, <4>2
    <3>. QED  BY <1>12, <2>2, <3>1, <3>2
  <2>. QED  BY <2>1, <2>2 DEF Shows
<1>. QED  BY <1>9, <1>18, <1>19 DEF ConvInv, ChatInv

LEMMA ChatKeysConv == ConvInv /\ ChatKeys => ConvInv'
<1>1. ASSUME ConvInv, SendMessage PROVE ConvInv'
  BY <1>1, SendMessageConv
<1>2. ASSUME ConvInv, OpenForm \/ LeaveForm \/ AskMember \/ SelectPeer \/ \E u \in Peers : AddToGroup(u) PROVE ConvInv'
  BY <1>2, FormKeysConv
<1>3. ASSUME ConvInv, \/ StartPicking \/ MovePick \/ StartEditing \/ AskDelete \/ StartReply
                      \/ KeepMessage \/ CancelEditing \/ CancelReply
      PROVE ConvInv'
  BY <1>3, ModeKeysConv
<1>4. ASSUME ConvInv, \E c \in Convs : CreateGroup(c) \/ \E u \in Peers : CreateConversation(c, u) PROVE ConvInv'
  BY <1>4, CreateConv
<1>5. ASSUME ConvInv, \E u \in Peers : AddMember(u) PROVE ConvInv'
  BY <1>5, AddMemberConv
<1>. QED  BY <1>1, <1>2, <1>3, <1>4, <1>5, SelectConversationConv, OpenConversationConv, DeleteConversationConv,
             DeleteMessageConv, EditMessageConv, LeaveChatConv, InfoKeysConv DEF ChatKeys

-----------------------------------------------------------------------------
LEMMA InitConv == Init => ConvInv
<1>. SUFFICES ASSUME Init PROVE ConvInv
  OBVIOUS
<1>1. ChatInit /\ screen \in {"ProfileSelect", "Auth"}
  BY DEF Init, AuthInit, SigningIn
<1>2. ~Loaded /\ ~InChat /\ screen \notin ChatScreens
  BY <1>1 DEF Loaded, InChat, ChatScreens
<1>3. Blank /\ Queue = <<>> /\ pending = None /\ events = <<>> /\ pc = "idle" /\ peer = 1
  BY <1>1 DEF ChatInit, Blank, Queue
<1>4. StoreInv
  <2>1. convs \subseteq Convs /\ IsFiniteSet(convs)
    <3>1. PICK x : x = CHOOSE c \in Convs : TRUE
      OBVIOUS
    <3>2. x \in Convs
      BY <3>1, ChatAssumption
    <3>3. convs = {} \/ convs = {x}
      BY <1>1, <3>1 DEF ChatInit
    <3>. QED  BY <3>2, <3>3, FS_EmptySet, FS_Singleton
  <2>2. members \in [Convs -> SUBSET Peers] /\ \A c \in convs : members[c] # {}
    BY <1>1, <2>1, ChatAssumption DEF ChatInit
  <2>3. next \in [Convs -> 0 .. 1] /\ \A c \in Convs : next[c] = 1 => c \in convs
    BY <1>1 DEF ChatInit
  <2>4. Message("delivered") \in Rows
    BY DEF Message, Rows
  <2>5. store \in [Msgs -> Rows \union {None}]
        /\ \A m \in Msgs : store[m] # None => m[2] <= next[ConvOf(m)]
    BY <1>1, <2>4 DEF ChatInit
  <2>6. ASSUME NEW m \in Msgs, store[m] # None PROVE ConvOf(m) \in convs /\ m[2] <= next[ConvOf(m)]
    <3>1. m[2] <= next[ConvOf(m)] /\ m[2] \in 1 .. PerConv /\ ConvOf(m) \in Convs
      BY <2>5, <2>6, MsgIs
    <3>2. next[ConvOf(m)] \in 0 .. 1
      BY <2>3, <3>1
    <3>3. PerConv \in Nat
      BY ChatAssumption
    <3>4. next[ConvOf(m)] = 1
      BY <3>1, <3>2, <3>3
    <3>. QED  BY <2>3, <3>1, <3>4
  <2>7. next \in [Convs -> Nat]
    BY <2>3
  <2>. QED  BY <2>1, <2>2, <2>5, <2>6, <2>7 DEF StoreInv
<1>5. QueueInv
  <2>1. Cap \in Nat /\ 0 <= Cap
    <3>1. Cap \in Nat
      BY ChatAssumption
    <3>. QED  BY <3>1
  <2>. QED  BY <1>3, <2>1 DEF QueueInv
<1>6. ScreenInv
  BY <1>1, <1>2, <1>3 DEF ScreenInv, Blank, ChatScreens
<1>7. ModesInv
  BY <1>3 DEF ModesInv, ShownMsgs, Blank
<1>8. ListInv
  BY <1>1, <1>3 DEF ListInv, Blank
<1>. QED  BY <1>2, <1>4, <1>5, <1>6, <1>7, <1>8 DEF ConvInv, CountInv, ChatInv

LEMMA StepConv == ConvInv /\ [Next]_vars => ConvInv'
<1>1. ASSUME ConvInv, Continue PROVE ConvInv'
  BY <1>1, ShowConversationsConv, LoadMessagesConv DEF Continue
<1>. QED  BY <1>1, ProfileKeyConv, ConnectStepConv, ConnectEndsConv, LogInConv, ChatKeysConv, WorkerConv,
             EmitConv, PollConv, RestartConv, StutterConv DEF Next

LEMMA ConversationsHold == Spec => []ConvInv
BY InitConv, StepConv, PTL DEF Spec

\* nothing is on its way to the interface
LEMMA SettledQueue ==
  ASSUME ConvInv, Settled
  PROVE  Queue = <<>> /\ Counted /\ (current # None => Shows)
<1>1. Queue = <<>>
  BY DEF Settled, Queue
<1>2. Counted
  BY DEF Settled, Idle, ConvInv, CountInv, Loaded
<1>3. current # None => InChat
  BY DEF Settled, Idle, ConvInv, ScreenInv, InChat, ChatScreens
<1>. QED  BY <1>1, <1>2, <1>3 DEF ConvInv, ChatInv

\* Once the events are handled, the list is what the database holds: every conversation that it
\* has, at least the messages that are unread, and the members, whatever the order in which the
\* login, the worker and the keys read and wrote it (refresh_conversations, handle_sdk_event).
THEOREM ListStaysStored == Spec => []ListIsStored
<1>1. ConvInv => ListIsStored
  <2>. SUFFICES ASSUME ConvInv, Settled
                PROVE  /\ convs \subseteq Listed
                       /\ \A i \in DOMAIN entries :
                            entries[i].conv # current =>
                              entries[i].unread >= Cardinality(Unread(entries[i].conv) \ excused)
                       /\ ~haunted => \A i \in DOMAIN entries :
                            entries[i].conv \in convs => entries[i].peers = members[entries[i].conv]
    BY DEF ListIsStored, EveryConversationListed, UnreadIsCounted, MembersShown
  <2>1. Queue = <<>> /\ Counted /\ ScreenInv /\ (~haunted => ListInv)
    BY SettledQueue DEF ConvInv
  <2>2. convs \subseteq Listed
    BY <2>1, EmptyTells DEF Counted
  <2>3. ASSUME NEW i \in DOMAIN entries, entries[i].conv # current
        PROVE  entries[i].unread >= Cardinality(Unread(entries[i].conv) \ excused)
    <3>. DEFINE c == entries[i].conv
    <3>1. c \in Convs /\ entries[i].unread \in Nat
      BY <2>1, EntryPeers
    <3>2. Due(c) = Unread(c) \ excused
      BY <2>1, EmptyTells DEF Due
    <3>3. Cardinality(Due(c)) <= entries[i].unread /\ Cardinality(Due(c)) \in Nat
      BY <2>1, <2>3, <3>1, DueFinite DEF Counted
    <3>. QED  BY <3>1, <3>2, <3>3
  <2>4. ASSUME ~haunted, NEW i \in DOMAIN entries PROVE entries[i].peers = members[entries[i].conv]
    BY <2>1, <2>4, EmptyTells DEF ListInv
  <2>. QED  BY <2>2, <2>3, <2>4
<1>. QED  BY <1>1, ConversationsHold, PTL

\* Once the events are handled, the open conversation is what the database holds of it: no
\* message is missing, and no edit or deletion is undone by what arrived while the messages
\* were loaded, or was sent by the user meanwhile (load_messages, handle_sdk_event).
THEOREM ChatStaysStored == Spec => []ChatIsStored
<1>1. ConvInv => ChatIsStored
  <2>. SUFFICES ASSUME ConvInv, Settled, current # None
                PROVE  /\ Stored(current) \ excused \subseteq ShownMsgs
                       /\ \A i \in DOMAIN shown :
                            (\A j \in 1 .. (i - 1) : shown[j].msg # shown[i].msg) /\ shown[i].msg \notin excused =>
                              shown[i].text = Expected(shown[i].msg)
    BY DEF ChatIsStored, NothingMissed, ShownIsStored, ShownMsgs, Expected
  <2>1. Queue = <<>> /\ Shows /\ ScreenInv
    BY SettledQueue DEF ConvInv
  <2>2. Stored(current) \subseteq Msgs
    BY DEF Stored
  <2>3. Stored(current) \ excused \subseteq ShownMsgs
    BY <2>1, <2>2, EmptyTells DEF Shows
  <2>4. \A i \in DOMAIN shown : shown[i].msg \in Msgs
    BY <2>1, ShownIs DEF ShownMsgs
  <2>5. ASSUME NEW i \in DOMAIN shown, \A j \in 1 .. (i - 1) : shown[j].msg # shown[i].msg,
               shown[i].msg \notin excused
        PROVE  shown[i].text = Expected(shown[i].msg)
    BY <2>1, <2>4, <2>5, EmptyTells DEF Shows
  <2>. QED  BY <2>3, <2>5
<1>. QED  BY <1>1, ConversationsHold, PTL

-----------------------------------------------------------------------------
(* What the profile and sign-up screens index and write. *)

Profiles == [name : Dirs, username : Users]

AuthTypes ==
  /\ screen \in {"ProfileSelect", "Auth", "Conversations", "Chat", "ConversationInfo"}
  /\ registered \subseteq Users
  /\ profiles \in Seq(Profiles)
  /\ selected \in Nat
  /\ password_mode \in BOOLEAN /\ was_signup \in BOOLEAN
  /\ data_dir \in Dirs \union {None}
  /\ thread \in Attempts \union {None}
  /\ cut \subseteq Dirs
  /\ screen \in {"ProfileSelect", "Auth"} => selected \in 1 .. Len(profiles) + 1
  /\ password_mode => screen = "ProfileSelect" /\ selected <= Len(profiles) /\ ~auth_loading

\* the profiles listed are those of directories, under the names of users
LEMMA ListProfilesType ==
  ASSUME NEW files \in [Dirs -> File]
  PROVE  ListProfiles(files) \in Seq(Profiles)
<1>. DEFINE T == {i \in DOMAIN DirOrder : files[DirOrder[i]].user # None}
            order == InOrder(T)
<1>1. Cardinality(Dirs) \in Nat /\ DirOrder \in [1 .. Cardinality(Dirs) -> Dirs]
  <2>1. IsFiniteSet(Dirs)
    BY UsersAssumption, FS_Union, FS_Singleton DEF Dirs
  <2>. QED  BY <2>1, SetToSeqAll DEF DirOrder
<1>2. T \subseteq 1 .. Cardinality(Dirs)
  BY <1>1
<1>. HIDE DEF T
<1>3. Cardinality(T) \in Nat /\ order \in [1 .. Cardinality(T) -> T]
  BY <1>1, <1>2, InOrderAll
<1>. HIDE DEF order
<1>4. DOMAIN order = 1 .. Cardinality(T)
  BY <1>3
<1>5. ASSUME NEW i \in 1 .. Cardinality(T)
      PROVE  [name |-> DirOrder[order[i]], username |-> files[DirOrder[order[i]]].user] \in Profiles
  <2>1. order[i] \in T
    BY <1>3
  <2>2. order[i] \in DOMAIN DirOrder /\ files[DirOrder[order[i]]].user # None
    BY <2>1 DEF T
  <2>3. DirOrder[order[i]] \in Dirs
    BY <1>1, <2>2
  <2>4. files[DirOrder[order[i]]].user \in Users
    BY <2>2, <2>3 DEF File
  <2>. QED  BY <2>3, <2>4 DEF Profiles
<1>6. ListProfiles(files) =
        [i \in 1 .. Cardinality(T) |->
           [name |-> DirOrder[order[i]], username |-> files[DirOrder[order[i]]].user]]
  BY <1>4 DEF ListProfiles, T, order
<1>. QED  BY <1>3, <1>5, <1>6

\* The type of each variable, step by step.
LEMMA InitTypes == Init => AuthTypes
<1>. SUFFICES ASSUME Init PROVE AuthTypes
  OBVIOUS
<1>. USE UsersAssumption
<1>0. profiles = ListProfiles(disk)
  BY DEF Init, AuthInit, SigningIn
<1>1. profiles \in Seq(Profiles) /\ Len(profiles) \in Nat
  BY <1>0, InitAuth, ListProfilesType DEF AuthInv
<1>2. ASSUME AuthInit PROVE AuthTypes
  <2>0. /\ screen \in {"ProfileSelect", "Auth"} /\ selected = 1 /\ password_mode = FALSE
        /\ was_signup = FALSE /\ data_dir = None /\ thread = None /\ cut = {}
    BY <1>2 DEF AuthInit
  <2>1. registered \subseteq Users
    <3>1. PICK taken \in SUBSET Taken : registered = taken \union Owners
      BY <1>2 DEF AuthInit
    <3>2. Owners \subseteq Users
      BY InitAuth DEF AuthInv, File, HasCredentials, Owners
    <3>. QED  BY <3>1, <3>2
  <2>2. selected \in 1 .. Len(profiles) + 1 /\ selected \in Nat
    BY <1>1, <2>0
  <2>. QED  BY <1>1, <2>0, <2>1, <2>2 DEF AuthTypes
<1>3. ASSUME SigningIn PROVE AuthTypes
  <2>. DEFINE u == CHOOSE x \in Users : TRUE
             p == CHOOSE x \in Passwords : TRUE
  <2>1. u \in Users /\ p \in Passwords
    OBVIOUS
  <2>2. thread = [stage |-> "start", existing |-> TRUE, user |-> u, pass |-> p, dir |-> u]
    BY <1>3 DEF SigningIn, Connecting
  <2>3. /\ registered = {u} /\ data_dir = u /\ cut = {} /\ was_signup = FALSE
        /\ screen = "ProfileSelect" /\ selected = 1 /\ password_mode = FALSE
    BY <1>3 DEF SigningIn
  <2>. HIDE DEF u, p
  <2>4. thread \in Attempts
    BY <2>1, <2>2 DEF Attempts, Stages
  <2>5. registered \subseteq Users /\ data_dir \in Dirs \union {None}
    BY <2>1, <2>3 DEF Dirs
  <2>6. selected \in 1 .. Len(profiles) + 1 /\ selected \in Nat
    BY <1>1, <2>3
  <2>. QED  BY <1>1, <2>3, <2>4, <2>5, <2>6 DEF AuthTypes
<1>. QED  BY <1>2, <1>3 DEF Init

\* an attempt starts in a directory, under a name
LEMMA AttemptTypes ==
  ASSUME NEW mode \in {"SignIn", "SignUp"}, NEW user \in Users, NEW pass \in Passwords,
         NEW dir \in Dirs, AttemptAuth(mode, user, pass, dir),
         was_signup \in BOOLEAN, thread \in Attempts \union {None}
  PROVE  /\ data_dir' = dir /\ was_signup' \in BOOLEAN /\ thread' \in Attempts \union {None}
<1>1. CASE mode = "SignIn" /\ ~Verify(dir, user, pass)
  BY <1>1 DEF AttemptAuth
<1>2. CASE ~(mode = "SignIn" /\ ~Verify(dir, user, pass))
  <2>1. /\ was_signup' = (mode = "SignUp")
        /\ thread' = [stage |-> "open", existing |-> (mode = "SignIn"), user |-> user, pass |-> pass, dir |-> dir]
    BY <1>2 DEF AttemptAuth, Connecting
  <2>2. thread' \in Attempts
    BY <2>1 DEF Attempts, Stages, Dirs
  <2>. QED  BY <2>1, <2>2 DEF AttemptAuth
<1>. QED  BY <1>1, <1>2

LEMMA KeyTypes == AuthInv /\ AuthTypes /\ AuthKey => AuthTypes'
<1>. SUFFICES ASSUME AuthInv, AuthTypes, AuthKey PROVE AuthTypes'
  OBVIOUS
<1>. USE UsersAssumption
<1>0. Len(profiles) \in Nat
  BY DEF AuthTypes
<1>1. CASE SelectProfile
  BY <1>0, <1>1 DEF SelectProfile, Selecting, AuthTypes
<1>2. CASE ChooseProfile
  BY <1>0, <1>2 DEF ChooseProfile, Selecting, AuthTypes
<1>3. CASE LeavePassword
  BY <1>0, <1>3 DEF LeavePassword, AuthTypes
<1>4. CASE LeaveAuth
  BY <1>0, <1>4 DEF LeaveAuth, AuthTypes
<1>5. CASE NewAccount
  BY <1>0, <1>5 DEF NewAccount, Selecting, AuthTypes
<1>6. CASE DeleteProfile
  <2>1. disk' \in [Dirs -> File]
    BY <1>6, DeleteProfileKeeps DEF AuthInv
  <2>2. profiles' \in Seq(Profiles) /\ Len(profiles') \in Nat
    <3>1. profiles' = ListProfiles(disk')
      BY <1>6 DEF DeleteProfile
    <3>2. ListProfiles(disk') \in Seq(Profiles)
      BY <2>1, ListProfilesType
    <3>. QED  BY <3>1, <3>2
  <2>3. /\ screen = "ProfileSelect" /\ screen' \in {"ProfileSelect", "Auth"} /\ password_mode = FALSE
        /\ selected' = IF selected > Len(profiles') + 1 THEN Len(profiles') + 1 ELSE selected
        /\ data_dir' \in Dirs \union {None} /\ cut' \subseteq Dirs
        /\ UNCHANGED <<registered, password_mode, auth_loading, was_signup, thread>>
    BY <1>6 DEF DeleteProfile, Selecting, AuthTypes, Dirs
  <2>4. selected \in 1 .. Len(profiles) + 1
    BY <2>3 DEF AuthTypes
  <2>5. selected' \in 1 .. Len(profiles') + 1 /\ selected' \in Nat
    BY <1>0, <2>2, <2>3, <2>4
  <2>. QED  BY <2>2, <2>3, <2>5 DEF AuthTypes
<1>7. ASSUME NEW pass \in Passwords, SubmitPassword(pass) PROVE AuthTypes'
  <2>. DEFINE profile == profiles[selected]
  <2>1. AttemptAuth("SignIn", profile.username, pass, profile.name)
    BY <1>7 DEF SubmitPassword
  <2>2. /\ screen = "ProfileSelect" /\ screen' = screen /\ password_mode = TRUE /\ password_mode' = FALSE
        /\ UNCHANGED <<registered, profiles, selected, cut>>
    BY <1>7 DEF SubmitPassword, AuthTypes
  <2>3. selected \in 1 .. Len(profiles)
    BY <1>0, <2>2 DEF AuthTypes
  <2>4. profile \in Profiles
    BY <2>3 DEF AuthTypes
  <2>5. profile.name \in Dirs /\ profile.username \in Users
    BY <2>4 DEF Profiles
  <2>. HIDE DEF profile
  <2>6. data_dir' \in Dirs /\ was_signup' \in BOOLEAN /\ thread' \in Attempts \union {None}
    BY <2>1, <2>5, AttemptTypes DEF AuthTypes
  <2>. QED  BY <1>0, <2>2, <2>6 DEF AuthTypes
<1>8. ASSUME NEW user \in Users, NEW pass \in Passwords, SubmitForm(user, pass) PROVE AuthTypes'
  <2>. DEFINE dir == IF data_dir = None THEN user ELSE data_dir
  <2>1. AttemptAuth(auth_mode, user, pass, dir)
    BY <1>8 DEF SubmitForm
  <2>2. screen = "Auth" /\ screen' = screen /\ UNCHANGED <<registered, profiles, selected, password_mode, cut>>
    BY <1>8 DEF SubmitForm
  <2>3. dir \in Dirs
    BY DEF AuthTypes, Dirs
  <2>. HIDE DEF dir
  <2>4. data_dir' \in Dirs /\ was_signup' \in BOOLEAN /\ thread' \in Attempts \union {None}
    BY <2>1, <2>3, AttemptTypes DEF AuthTypes, AuthInv
  <2>. QED  BY <1>0, <2>2, <2>4 DEF AuthTypes
<1>. QED  BY <1>1, <1>2, <1>3, <1>4, <1>5, <1>6, <1>7, <1>8 DEF AuthKey

LEMMA ThreadTypes == AuthTypes /\ ThreadStep => AuthTypes'
<1>. SUFFICES ASSUME AuthTypes, ThreadStep PROVE AuthTypes'
  OBVIOUS
<1>. USE UsersAssumption
<1>1. thread # None /\ thread \in Attempts
  BY DEF AuthTypes, ThreadStep, OpenStorage, ConnectTransport, Register, SaveAccount, UploadKeys,
         LoadAccount, StartClient, AtStage
<1>2. PICK stage \in Stages : ThreadMoves(stage)
  BY DEF ThreadStep, OpenStorage, ConnectTransport, Register, SaveAccount, UploadKeys,
         LoadAccount, StartClient, Stages
<1>3. thread' \in Attempts /\ thread.user \in Users
  BY <1>1, <1>2 DEF ThreadMoves, Attempts
<1>4. registered' \subseteq Users
  BY <1>3 DEF AuthTypes, ThreadStep, OpenStorage, ConnectTransport, Register, SaveAccount, UploadKeys,
         LoadAccount, StartClient
<1>5. UNCHANGED OutsideThread
  BY DEF ThreadStep, OpenStorage, ConnectTransport, Register, SaveAccount, UploadKeys,
         LoadAccount, StartClient
<1>. QED  BY <1>3, <1>4, <1>5 DEF AuthTypes, OutsideThread

LEMMA EndTypes == AuthInv /\ ConvInv /\ AuthTypes /\ (AuthFails \/ AuthCrashes) => AuthTypes'
<1>. SUFFICES ASSUME AuthInv, ConvInv, AuthTypes, AuthFails \/ AuthCrashes PROVE AuthTypes'
  OBVIOUS
<1>1. thread # None
  BY DEF AuthFails, AuthCrashes, AtStage
<1>2. auth_loading = TRUE /\ data_dir = thread.dir
  BY <1>1 DEF AuthInv, AttemptInv
<1>3. data_dir \in Dirs /\ password_mode = FALSE
  <2>1. thread \in Attempts
    BY <1>1 DEF AuthTypes
  <2>2. data_dir \in Dirs
    BY <1>2, <2>1 DEF Attempts, Dirs
  <2>. QED  BY <1>2, <2>2 DEF AuthTypes
<1>4. screen \in {"ProfileSelect", "Auth"}
  BY <1>1, Unopened
<1>5. /\ thread' = None /\ cut' \subseteq Dirs /\ screen' \in {"ProfileSelect", screen}
      /\ UNCHANGED <<registered, profiles, selected, password_mode, was_signup, data_dir>>
  BY <1>3 DEF AuthFails, AuthCrashes, AuthTypes
<1>. QED  BY <1>3, <1>4, <1>5 DEF AuthTypes

LEMMA StartTypes == AuthInv /\ AuthTypes /\ ProcessEnds => AuthTypes'
<1>. SUFFICES ASSUME AuthInv, AuthTypes, ProcessEnds PROVE AuthTypes'
  OBVIOUS
<1>1. profiles' \in Seq(Profiles) /\ Len(profiles') \in Nat
  BY ListProfilesType DEF ProcessEnds, StartOver, AuthInv
<1>2. cut' \subseteq Dirs
  BY DEF ProcessEnds, AuthTypes, Attempts, Dirs
<1>3. /\ screen' \in {"ProfileSelect", "Auth"} /\ selected' = 1 /\ password_mode' = FALSE
      /\ was_signup' = FALSE /\ data_dir' = None /\ thread' = None /\ registered' = registered
  BY DEF ProcessEnds, StartOver
<1>4. selected' \in 1 .. Len(profiles') + 1 /\ selected' \in Nat
  BY <1>1, <1>3
<1>5. registered' \subseteq Users
  BY <1>3 DEF AuthTypes
<1>. QED  BY <1>1, <1>2, <1>3, <1>4, <1>5 DEF AuthTypes

LEMMA LogInTypes == AuthInv /\ AuthTypes /\ AuthSucceeds => AuthTypes'
<1>. SUFFICES ASSUME AuthInv, AuthTypes, AuthSucceeds PROVE AuthTypes'
  OBVIOUS
<1>1. profiles' \in Seq(Profiles) /\ Len(profiles') \in Nat
  BY ListProfilesType DEF AuthSucceeds, AuthInv
<1>2. thread # None
  BY DEF AuthSucceeds, AtStage
<1>3. password_mode = FALSE
  BY <1>2 DEF AuthInv, AuthTypes
<1>. QED  BY <1>1, <1>3 DEF AuthSucceeds, AuthTypes

\* A step of the conversations moves only between their screens.
ChatMoves ==
  /\ UNCHANGED <<registered, profiles, selected, password_mode, auth_loading, data_dir, was_signup,
                 thread, cut>>
  /\ screen' = screen \/ (screen \in ChatScreens /\ screen' \in ChatScreens)

LEMMA MovesTypes == AuthTypes /\ ChatMoves => AuthTypes'
BY DEF AuthTypes, ChatMoves, ChatScreens

LEMMA StepMoves ==
  ASSUME ConvInv, Continue \/ ChatKeys \/ Worker \/ Emit \/ PollSdkEvents
  PROVE  ChatMoves
<1>1. Worker \/ Emit \/ PollSdkEvents => UNCHANGED authVars
  BY DEF Worker, StoreMessage, StoreMember, StoreConversation, StoreEdit, StoreDeletion, StoreStatus, Writes,
         Emit, PollSdkEvents
<1>2. ASSUME NEW s \in ChatScreens, ScreenIs(s), screen \in ChatScreens PROVE ChatMoves
  BY <1>2 DEF ScreenIs, ChatMoves
<1>3. ASSUME Continue PROVE ChatMoves
  <2>1. screen \in ChatScreens
    BY <1>3 DEF Continue, ShowConversations, LoadMessages, ConvInv, ScreenInv, ChatScreens
  <2>2. ShowConversations => UNCHANGED authVars
    BY DEF ShowConversations
  <2>3. LoadMessages => ChatMoves
    BY <1>2, <2>1 DEF LoadMessages, ChatScreens
  <2>. QED  BY <1>3, <2>2, <2>3 DEF Continue, authVars, ChatMoves
<1>4. \A c \in Convs : CreateGroup(c) \/ (\E u \in Peers : CreateConversation(c, u)) => ChatMoves
  BY <1>2 DEF CreateGroup, CreateConversation, StartConversation, OnList, Idle, ChatScreens
<1>5. SelectConversation \/ OpenConversation \/ DeleteConversation => UNCHANGED authVars
  BY DEF SelectConversation, OpenConversation, DeleteConversation
<1>6. OpenForm \/ LeaveForm \/ (\E u \in Peers : AddToGroup(u)) \/ SelectPeer \/ AskMember
        => UNCHANGED authVars
  BY DEF OpenForm, LeaveForm, AddToGroup, SelectPeer, AskMember, OnlyForms
<1>7. StartPicking \/ MovePick \/ StartEditing \/ AskDelete \/ StartReply \/ KeepMessage
        \/ CancelEditing \/ CancelReply => UNCHANGED authVars
  BY DEF StartPicking, MovePick, StartEditing, AskDelete, StartReply, KeepMessage, CancelEditing,
         CancelReply, OnlyModes
<1>8. DeleteMessage \/ EditMessage \/ SendMessage \/ (\E u \in Peers : AddMember(u))
        => UNCHANGED authVars
  BY DEF DeleteMessage, EditMessage, SendMessage, AddMember
<1>9. LeaveChat \/ OpenInfo \/ CloseInfo => ChatMoves
  BY <1>2 DEF LeaveChat, OpenInfo, CloseInfo, ChatScreens, Writing, ChatKey, InfoKey, Idle
<1>10. UNCHANGED authVars => ChatMoves
  BY DEF authVars, ChatMoves
<1>. QED  BY <1>1, <1>3, <1>4, <1>5, <1>6, <1>7, <1>8, <1>9, <1>10 DEF ChatKeys

LEMMA StepTypes == AuthInv /\ ConvInv /\ AuthTypes /\ [Next]_vars => AuthTypes'
<1>. SUFFICES ASSUME AuthInv, ConvInv, AuthTypes, [Next]_vars PROVE AuthTypes'
  OBVIOUS
<1>1. CASE UNCHANGED vars
  BY <1>1, MovesTypes DEF vars, authVars, ChatMoves
<1>2. CASE ProfileKey
  BY <1>2, KeyTypes DEF ProfileKey
<1>3. CASE ConnectStep
  BY <1>3, ThreadTypes DEF ConnectStep
<1>4. CASE ConnectEnds
  BY <1>4, EndTypes DEF ConnectEnds
<1>5. CASE LogIn
  BY <1>5, LogInTypes DEF LogIn
<1>6. CASE Restart
  BY <1>6, StartTypes DEF Restart
<1>. QED  BY <1>1, <1>2, <1>3, <1>4, <1>5, <1>6, StepMoves, MovesTypes DEF Next

LEMMA TypesHold == Spec => []AuthTypes
BY InitTypes, StepTypes, Invariant, ConversationsHold, PTL DEF Spec

\* Whatever the order of the keys, of the events and of the ends of attempts, what the interface
\* has selected is there: a profile or the "+" card, a conversation of the list, a member of the
\* open conversation; and the message being edited, deleted or answered is one of the open
\* conversation's (handle_profile_key, handle_conversations_key, handle_chat_key,
\* handle_conversation_info_key, which index their lists without a check).
THEOREM SelectionStaysValid == Spec => []SelectionIsValid
<1>1. AuthInv /\ AuthTypes => AuthTypeOK /\ ProfileSelected
  <2>. SUFFICES ASSUME AuthInv, AuthTypes PROVE AuthTypeOK /\ ProfileSelected
    OBVIOUS
  <2>1. \A i \in DOMAIN profiles : profiles[i] \in [name : Dirs, username : Users]
    <3>1. profiles \in Seq(Profiles)
      BY DEF AuthTypes
    <3>. HIDE DEF Profiles
    <3>2. \A i \in DOMAIN profiles : profiles[i] \in Profiles
      BY <3>1
    <3>. QED  BY <3>2 DEF Profiles
  <2>2. disk \in [Dirs -> [user : Users \union {None}, pass : Passwords \union {None},
                        key : Passwords \union {None}, account : Users \union {None}, keys : BOOLEAN]]
    BY DEF AuthInv, File
  <2>. QED  BY <2>1, <2>2 DEF AuthInv, AuthTypes, AuthTypeOK, ProfileSelected
<1>2. ASSUME ConvInv, AuthTypeOK PROVE TypeOK
  <2>1. StoreInv /\ QueueInv /\ ScreenInv /\ ModesInv
    BY <1>2 DEF ConvInv
  <2>2. form \in {"none", "new", "group", "member"}
    BY <2>1 DEF ScreenInv, Blank, Loaded, ChatScreens
  <2>3. \A i \in DOMAIN entries : entries[i].conv \in Convs /\ entries[i].unread \in Nat
    BY <2>1, EntryPeers
  <2>4. ShownMsgs \subseteq Msgs
    BY <2>1, ShownIs
  <2>5. {editing, confirm, reply} \subseteq Msgs \union {None} /\ \A i \in DOMAIN shown : shown[i].msg \in Msgs
    BY <2>1, <2>4 DEF ModesInv, ShownMsgs
  <2>6. Range(events) \union ({pending} \ {None}) \subseteq Events
    BY <2>1 DEF QueueInv, Range
  <2>. QED  BY <1>2, <2>1, <2>2, <2>3, <2>5, <2>6 DEF TypeOK, StoreInv, QueueInv, ScreenInv
<1>3. ConvInv => SelectionIsListed /\ PeerIsMember
  BY DEF ConvInv, ListInv, SelectionIsListed, PeerIsMember
<1>4. ConvInv => ModesStayInConversation
  BY DEF ConvInv, ModesInv, ModesStayInConversation, ShownMsgs
<1>5. AuthInv /\ ConvInv /\ AuthTypes => SelectionIsValid
  BY <1>1, <1>2, <1>3, <1>4 DEF SelectionIsValid
<1>. QED  BY <1>5, Invariant, ConversationsHold, TypesHold, PTL

=============================================================================
