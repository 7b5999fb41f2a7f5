----------------------------- MODULE TlsProofs -----------------------------
(* No nonce of the client's is used twice; what the application reads is the  *)
(* stream that the server's application sent, and no byte of it is lost; the  *)
(* connection opens only to a server that follows the protocol, or departs    *)
(* from it in the one way that LaxServers names, and the server, when it is   *)
(* one the client supports, reads what the application wrote: whatever the    *)
(* lengths of fragments and writes, the limit after which a key is changed,   *)
(* the server, and how the socket takes and gives what is written.            *)
EXTENDS Tls, WellFoundedInduction, TLAPS

-----------------------------------------------------------------------------
(* Types. *)

Labels == {"none", "s hs traffic", "c hs traffic", "s ap traffic", "c ap traffic"}
Names == ServerHandshakes \cup {"ClientHello"}
Types == {"Handshake", "ApplicationData"}
Key == [label : Labels, transcript : Seq(Names), generation : Nat]
State == [key : Key, sequence_number : Nat]

\* What the client puts in its records.
ClientMessages == {ClientHello, KeyUpdate(FALSE)} \cup {OurFinished(h) : h \in Seq(Names)}
Contents == {Data(bytes) : bytes \in Seq(Nat)} \cup {Handshakes(Halves(m)) : m \in ClientMessages}

Record == [header : {"valid"}, typ : Types, key : Key, seq : Nat, inner : Types,
           content : Contents]
Unit == [part : {"header", "body"}, of : Record]

\* the records that units belong to
Records(units) == {units[i].of : i \in DOMAIN units}

-----------------------------------------------------------------------------
(* The inductive invariant. *)

\* The nonce of r was left behind by the state s.
Past(r, s) ==
    \/ Stage(r) < Stage(s)
    \/ /\ r.key.label = s.key.label /\ r.key.transcript = s.key.transcript
       /\ \/ r.key.generation < s.key.generation
          \/ r.key = s.key /\ r.seq < s.sequence_number

Unique(R) == \A r, q \in R : r.key # NoKey /\ r.key = q.key /\ r.seq = q.seq => r = q

AllPast(R, s) == \A r \in R : r.key # NoKey => Past(r, s)

HandshakeStates == {"WaitEncryptedExtensions", "WaitCertificate", "WaitCertificateVerify",
                    "WaitFinished"}

\* Which secrets the states of the connection have.
StagesInv ==
    /\ st \in {"Start", "WaitServerHello"} => enc.key = NoKey /\ Stage(dec) = 0
    /\ st \in HandshakeStates => Stage(enc) = 1 /\ Stage(dec) = 1
    /\ st = "Connected" => Stage(enc) = 2 /\ Stage(dec) = 2
    /\ st \in {"Start", "WaitServerHello", "Connected", "err"} \cup HandshakeStates
    /\ pc = "open" => Stage(enc) = 2
    /\ pc = "handshake" => st # "err"

ConnectionTypes ==
    /\ enc \in State /\ dec \in State
    /\ transcript \in Seq(Names)
    /\ output \in Seq(Unit) /\ toServer \in Seq(Unit)
    /\ written \in Nat

Outgoing == Records(output) \cup Records(toServer)

NonceInv == ConnectionTypes /\ StagesInv /\ AllPast(Outgoing, enc) /\ Unique(Outgoing)

-----------------------------------------------------------------------------
(* Units and their records. *)

LEMMA RecordsOfConcat ==
    ASSUME NEW s \in Seq(Unit), NEW t \in Seq(Unit)
    PROVE  s \o t \in Seq(Unit) /\ Records(s \o t) = Records(s) \cup Records(t)
<1>. DEFINE c == s \o t
<1>1. /\ c \in Seq(Unit) /\ DOMAIN c = 1 .. Len(s) + Len(t)
      /\ \A i \in 1 .. Len(s) : c[i] = s[i]
      /\ \A i \in 1 .. Len(t) : c[Len(s) + i] = t[i]
  OBVIOUS
<1>2. Len(s) \in Nat /\ Len(t) \in Nat /\ DOMAIN s = 1 .. Len(s) /\ DOMAIN t = 1 .. Len(t)
  OBVIOUS
<1>. HIDE DEF c
<1>3. ASSUME NEW i \in DOMAIN c PROVE c[i].of \in Records(s) \cup Records(t)
  <2>1. CASE i \in 1 .. Len(s)
    BY <1>1, <1>2, <2>1 DEF Records
  <2>2. CASE i \in Len(s) + 1 .. Len(s) + Len(t)
    <3>1. i - Len(s) \in 1 .. Len(t) /\ Len(s) + (i - Len(s)) = i
      BY <1>2, <2>2
    <3>2. c[i] = t[i - Len(s)]
      BY <1>1, <3>1
    <3>. QED  BY <1>2, <3>1, <3>2 DEF Records
  <2>. QED  BY <1>1, <1>2, <2>1, <2>2
<1>4. ASSUME NEW i \in 1 .. Len(s) PROVE s[i].of \in Records(c)
  <2>1. i \in DOMAIN c
    BY <1>1, <1>2
  <2>. QED  BY <1>1, <2>1 DEF Records
<1>5. ASSUME NEW i \in 1 .. Len(t) PROVE t[i].of \in Records(c)
  <2>1. Len(s) + i \in DOMAIN c
    BY <1>1, <1>2
  <2>. QED  BY <1>1, <2>1 DEF Records
<1>6. Records(c) \subseteq Records(s) \cup Records(t)
  BY <1>3 DEF Records
<1>7. Records(s) \subseteq Records(c) /\ Records(t) \subseteq Records(c)
  BY <1>2, <1>4, <1>5 DEF Records
<1>. QED  BY <1>1, <1>6, <1>7 DEF c

LEMMA RecordsOfSubSeq ==
    ASSUME NEW s \in Seq(Unit), NEW a \in 1 .. 3, NEW b \in 0 .. Len(s)
    PROVE  SubSeq(s, a, b) \in Seq(Unit) /\ Records(SubSeq(s, a, b)) \subseteq Records(s)
<1>. DEFINE c == SubSeq(s, a, b)
<1>0. Len(s) \in Nat /\ b \in Nat /\ b <= Len(s)
  OBVIOUS
<1>1. c \in Seq(Unit) /\ Len(c) = IF a <= b THEN b - a + 1 ELSE 0
  BY <1>0
<1>2. \A i \in DOMAIN c : a + i - 1 \in 1 .. Len(s) /\ c[i] = s[a + i - 1]
  <2>. TAKE i \in DOMAIN c
  <2>1. i \in 1 .. Len(c)
    BY <1>1
  <2>2. a <= b /\ i \in 1 .. (b - a + 1)
    BY <1>0, <1>1, <2>1
  <2>. QED  BY <1>0, <2>2
<1>. HIDE DEF c
<1>3. Records(c) \subseteq Records(s)
  BY <1>2 DEF Records
<1>. QED  BY <1>1, <1>3 DEF c

LEMMA RecordsOfUnits ==
    ASSUME NEW r \in Record
    PROVE  Units(r) \in Seq(Unit) /\ Records(Units(r)) = {r}
<1>1. [part |-> "header", of |-> r] \in Unit /\ [part |-> "body", of |-> r] \in Unit
  BY DEF Unit
<1>2. Units(r) \in Seq(Unit)
  BY <1>1 DEF Units
<1>3. DOMAIN Units(r) = 1 .. 2 /\ Units(r)[1].of = r /\ Units(r)[2].of = r
  BY DEF Units
<1>. QED  BY <1>2, <1>3 DEF Records

LEMMA RecordsOfUnitsOf ==
    ASSUME NEW rs \in Seq(Record)
    PROVE  UnitsOf(rs) \in Seq(Unit) /\ Records(UnitsOf(rs)) \subseteq {rs[i] : i \in DOMAIN rs}
<1>. DEFINE n == 2 * Len(rs)
            us == [u \in 1 .. n |->
                     [part |-> IF u % 2 = 1 THEN "header" ELSE "body", of |-> rs[(u + 1) \div 2]]]
<1>1. UnitsOf(rs) = us
  BY DEF UnitsOf
<1>2. Len(rs) \in Nat /\ n \in Nat /\ DOMAIN rs = 1 .. Len(rs)
  OBVIOUS
<1>3. ASSUME NEW u \in 1 .. n
      PROVE  (u + 1) \div 2 \in 1 .. Len(rs)
  BY <1>2
<1>4. ASSUME NEW u \in 1 .. n
      PROVE  us[u] \in Unit /\ us[u].of = rs[(u + 1) \div 2]
  <2>1. rs[(u + 1) \div 2] \in Record
    BY <1>2, <1>3
  <2>. DEFINE r == rs[(u + 1) \div 2]
  <2>2. us[u] = [part |-> IF u % 2 = 1 THEN "header" ELSE "body", of |-> r]
    OBVIOUS
  <2>. HIDE DEF r, us
  <2>3. r \in Record
    BY <2>1 DEF r
  <2>4. us[u] \in Unit /\ us[u].of = r
    <3>1. CASE u % 2 = 1
      BY <2>2, <2>3, <3>1 DEF Unit
    <3>2. CASE ~(u % 2 = 1)
      BY <2>2, <2>3, <3>2 DEF Unit
    <3>. QED  BY <3>1, <3>2
  <2>. QED  BY <2>4 DEF r
<1>5. us \in Seq(Unit) /\ DOMAIN us = 1 .. n
  BY <1>2, <1>4
<1>. HIDE DEF us, n
<1>6. Records(us) \subseteq {rs[i] : i \in DOMAIN rs}
  BY <1>2, <1>3, <1>4, <1>5 DEF Records
<1>. QED  BY <1>1, <1>5, <1>6

-----------------------------------------------------------------------------
(* Secrets. *)

LEMMA PastIsKept ==
    ASSUME NEW r \in Record, NEW s \in State, NEW t \in State, Past(r, s), Later(t, s)
    PROVE  Past(r, t)
<1>1. Stage(r) \in 0 .. 2 /\ Stage(s) \in 0 .. 2 /\ Stage(t) \in 0 .. 2
  BY DEF Stage
<1>2. /\ r.seq \in Nat /\ s.sequence_number \in Nat /\ t.sequence_number \in Nat
      /\ r.key.generation \in Nat /\ s.key.generation \in Nat /\ t.key.generation \in Nat
  BY DEF Record, State, Key
<1>3. r.key.label = s.key.label => Stage(r) = Stage(s)
  BY DEF Stage
<1>4. t.key = s.key => Stage(t) = Stage(s)
  BY DEF Stage
<1>. QED  BY <1>1, <1>2, <1>3, <1>4 DEF Past, Later

LEMMA LaterAgain ==
    ASSUME NEW s \in State, NEW t \in State, NEW u \in State, Later(t, s), Later(u, t)
    PROVE  Later(u, s)
<1>1. Stage(u) \in 0 .. 2 /\ Stage(s) \in 0 .. 2 /\ Stage(t) \in 0 .. 2
  BY DEF Stage
<1>2. /\ u.sequence_number \in Nat /\ s.sequence_number \in Nat /\ t.sequence_number \in Nat
      /\ u.key.generation \in Nat /\ s.key.generation \in Nat /\ t.key.generation \in Nat
  BY DEF State, Key
<1>3. t.key = s.key => Stage(t) = Stage(s)
  BY DEF Stage
<1>4. t.key = u.key => Stage(t) = Stage(u)
  BY DEF Stage
<1>. QED  BY <1>1, <1>2, <1>3, <1>4 DEF Later

LEMMA LaterNow == ASSUME NEW s \in State PROVE Later(s, s)
BY DEF Later, State

\* From the records R and the state s to R2 and s2: what is new was sealed in between.
Grows(R, s, R2, s2) ==
    /\ s2 \in State /\ Later(s2, s) /\ Stage(s2) = Stage(s)
    /\ \A r \in R2 \ R : r \in Record /\ Past(r, s2) /\ ~Past(r, s)
    /\ \A r, q \in R2 \ R : r.key = q.key /\ r.seq = q.seq => r = q

LEMMA SameNonce ==
    ASSUME NEW r, NEW q, NEW s, r.key = q.key, r.seq = q.seq
    PROVE  Past(r, s) <=> Past(q, s)
BY DEF Past, Stage

LEMMA GrowsTwice ==
    ASSUME NEW R, NEW s \in State, NEW R1, NEW t, NEW R2, NEW u,
           Grows(R, s, R1, t), Grows(R1, t, R2, u)
    PROVE  Grows(R, s, R2, u)
<1>1. t \in State /\ u \in State /\ Later(t, s) /\ Later(u, t) /\ Stage(u) = Stage(s)
  BY DEF Grows
<1>2. Later(u, s)
  BY <1>1, LaterAgain
<1>3. ASSUME NEW r \in R2 \ R PROVE r \in Record /\ Past(r, u) /\ ~Past(r, s)
  <2>1. CASE r \in R1
    BY <1>1, <2>1, PastIsKept DEF Grows
  <2>2. CASE r \notin R1
    BY <1>1, <2>2, PastIsKept DEF Grows
  <2>. QED  BY <2>1, <2>2
<1>4. ASSUME NEW r \in R2 \ R, NEW q \in R2 \ R, r.key = q.key, r.seq = q.seq PROVE r = q
  <2>0. Past(r, t) <=> Past(q, t)
    BY <1>4, SameNonce
  <2>1. r \in R1 <=> q \in R1
    BY <2>0 DEF Grows
  <2>. QED  BY <1>4, <2>1 DEF Grows
<1>. QED  BY <1>1, <1>2, <1>3, <1>4 DEF Grows

-----------------------------------------------------------------------------
(* What the sender seals. *)

LEMMA SealedRecord ==
    ASSUME NEW s \in State, NEW typ \in Types, NEW c \in Contents
    PROVE  /\ Sealed(s, typ, c) \in Record
           /\ Sealed(s, typ, c).key = s.key /\ Sealed(s, typ, c).seq = s.sequence_number
<1>1. CASE Enabled(s)
  BY <1>1 DEF Sealed, Record, State, Types
<1>2. CASE ~Enabled(s)
  BY <1>2 DEF Sealed, Record, State, Types
<1>. QED  BY <1>1, <1>2

LEMMA Contained ==
    /\ Handshakes(Halves(ClientHello)) \in Contents
    /\ Handshakes(Halves(KeyUpdate(FALSE))) \in Contents
    /\ \A h \in Seq(Names) : Handshakes(Halves(OurFinished(h))) \in Contents
    /\ \A bytes \in Seq(Nat) : Data(bytes) \in Contents
<1>1. ClientHello \in ClientMessages /\ KeyUpdate(FALSE) \in ClientMessages
      /\ \A h \in Seq(Names) : OurFinished(h) \in ClientMessages
  BY DEF ClientMessages
<1>. QED  BY <1>1 DEF Contents

\* A key update is sealed under the key it ends.
LEMMA KeyUpdateGrows ==
    ASSUME NEW s \in State, NEW out \in Seq(Unit)
    PROVE  /\ WithKeyUpdate([state |-> s, out |-> out]).out \in Seq(Unit)
           /\ WithKeyUpdate([state |-> s, out |-> out]).state \in State
           /\ WithKeyUpdate([state |-> s, out |-> out]).state.key.label = s.key.label
           /\ Grows(Records(out), s, Records(WithKeyUpdate([state |-> s, out |-> out]).out),
                    WithKeyUpdate([state |-> s, out |-> out]).state)
           /\ Records(out) \subseteq Records(WithKeyUpdate([state |-> s, out |-> out]).out)
<1>. DEFINE r == Sealed(s, "Handshake", Handshakes(Halves(KeyUpdate(FALSE))))
            t == Updated(s)
            new == WithKeyUpdate([state |-> s, out |-> out])
<1>1. new.out = out \o Units(r) /\ new.state = t
  BY DEF WithKeyUpdate
<1>2. r \in Record /\ r.key = s.key /\ r.seq = s.sequence_number
  <2>1. "Handshake" \in Types
    BY DEF Types
  <2>. QED  BY <2>1, Contained, SealedRecord
<1>. HIDE DEF r, new
<1>3. new.out \in Seq(Unit) /\ Records(new.out) = Records(out) \cup {r}
  BY <1>1, <1>2, RecordsOfUnits, RecordsOfConcat
<1>4. /\ t \in State /\ t.sequence_number = 0 /\ t.key.label = s.key.label
      /\ t.key.transcript = s.key.transcript /\ t.key.generation = s.key.generation + 1
  <2>1. s.key \in Key
    BY DEF State
  <2>. DEFINE k == [s.key EXCEPT !.generation = @ + 1]
  <2>2. k \in Key /\ k.label = s.key.label /\ k.transcript = s.key.transcript
        /\ k.generation = s.key.generation + 1
    BY <2>1 DEF Key
  <2>3. t = [key |-> k, sequence_number |-> 0]
    BY DEF Updated, Fresh, Numbered
  <2>. HIDE DEF k, t
  <2>. QED  BY <2>2, <2>3 DEF State
<1>. HIDE DEF t
<1>5. s.key.generation \in Nat /\ s.sequence_number \in Nat
  BY DEF State, Key
<1>6. Later(t, s) /\ Stage(t) = Stage(s)
  BY <1>4, <1>5 DEF Later, Stage
<1>7. Stage(r) = Stage(s) /\ Stage(s) \in 0 .. 2
  BY <1>2 DEF Stage
<1>8. Past(r, t) /\ ~Past(r, s)
  BY <1>2, <1>4, <1>5, <1>7 DEF Past
<1>9. Grows(Records(out), s, Records(new.out), t)
  BY <1>2, <1>3, <1>4, <1>6, <1>8 DEF Grows
<1>. QED  BY <1>1, <1>3, <1>4, <1>9 DEF new

\* Each fragment takes the next number of the key.
LEMMA FragmentsGrow ==
    ASSUME NEW s \in State, Enabled(s), NEW out \in Seq(Unit), NEW typ \in Types,
           NEW fragments \in Seq(Contents)
    PROVE  /\ Encrypted([state |-> s, out |-> out], typ, fragments).out \in Seq(Unit)
           /\ Grows(Records(out), s,
                    Records(Encrypted([state |-> s, out |-> out], typ, fragments).out),
                    Encrypted([state |-> s, out |-> out], typ, fragments).state)
           /\ Records(out) \subseteq
                Records(Encrypted([state |-> s, out |-> out], typ, fragments).out)
<1>. DEFINE n == Len(fragments)
            at(i) == Sealed(AdvancedBy(s, i - 1), typ, fragments[i])
            rs == [i \in DOMAIN fragments |-> at(i)]
            t == AdvancedBy(s, n)
            new == Encrypted([state |-> s, out |-> out], typ, fragments)
<1>1. new.out = out \o UnitsOf(rs) /\ new.state = t
  BY DEF Encrypted
<1>. HIDE DEF new
<1>2. n \in Nat /\ DOMAIN fragments = 1 .. n
  OBVIOUS
<1>3. s.sequence_number \in Nat /\ s.key \in Key
  BY DEF State
<1>4. ASSUME NEW m \in Nat
      PROVE  /\ AdvancedBy(s, m) \in State /\ AdvancedBy(s, m).key = s.key
             /\ AdvancedBy(s, m).sequence_number = s.sequence_number + m
  BY <1>3 DEF AdvancedBy, Numbered, State
<1>5. ASSUME NEW i \in 1 .. n
      PROVE  at(i) \in Record /\ at(i).key = s.key /\ at(i).seq = s.sequence_number + (i - 1)
  <2>1. i - 1 \in Nat /\ fragments[i] \in Contents
    BY <1>2
  <2>2. /\ AdvancedBy(s, i - 1) \in State /\ AdvancedBy(s, i - 1).key = s.key
        /\ AdvancedBy(s, i - 1).sequence_number = s.sequence_number + (i - 1)
    BY <1>4, <2>1
  <2>. QED  BY <2>1, <2>2, SealedRecord
<1>6. t \in State /\ t.key = s.key /\ t.sequence_number = s.sequence_number + n
  BY <1>2, <1>4
<1>. HIDE DEF at, t, n
<1>7. rs \in Seq(Record) /\ {rs[i] : i \in DOMAIN rs} = {at(i) : i \in 1 .. n}
  <2>1. rs = [i \in 1 .. n |-> at(i)]
    BY <1>2, Zenon
  <2>2. \A i \in 1 .. n : at(i) \in Record
    BY <1>5
  <2>. HIDE DEF rs
  <2>3. rs \in [1 .. n -> Record] /\ DOMAIN rs = 1 .. n /\ \A i \in 1 .. n : rs[i] = at(i)
    BY <2>1, <2>2
  <2>4. rs \in Seq(Record)
    BY <1>2, <2>3
  <2>. QED  BY <2>3, <2>4
<1>. HIDE DEF rs
<1>8. new.out \in Seq(Unit) /\ Records(out) \subseteq Records(new.out)
      /\ Records(new.out) \subseteq Records(out) \cup {at(i) : i \in 1 .. n}
  BY <1>1, <1>7, RecordsOfUnitsOf, RecordsOfConcat
<1>9. Later(t, s) /\ Stage(t) = Stage(s)
  BY <1>2, <1>3, <1>6 DEF Later, Stage
<1>10. ASSUME NEW i \in 1 .. n PROVE Past(at(i), t) /\ ~Past(at(i), s)
  <2>1. Stage(at(i)) = Stage(s) /\ Stage(s) \in 0 .. 2 /\ s.key.generation \in Nat
    <3>. DEFINE r == at(i)
    <3>1. r.key = s.key
      BY <1>5
    <3>. HIDE DEF r
    <3>2. Stage(r) = Stage(s) /\ Stage(s) \in 0 .. 2
      BY <3>1 DEF Stage
    <3>. QED  BY <1>3, <3>2 DEF r, Key
  <2>2. i - 1 < n /\ i - 1 >= 0
    BY <1>2
  <2>. DEFINE r == at(i)
  <2>3. r.key = s.key /\ r.seq = s.sequence_number + (i - 1) /\ Stage(r) = Stage(s)
    BY <1>5, <2>1
  <2>. HIDE DEF r
  <2>4. Past(r, t)
    BY <1>2, <1>3, <1>6, <2>2, <2>3 DEF Past
  <2>5. ~Past(r, s)
    BY <1>2, <1>3, <2>1, <2>2, <2>3 DEF Past
  <2>. QED  BY <2>4, <2>5 DEF r
<1>11. ASSUME NEW i \in 1 .. n, NEW j \in 1 .. n, at(i).seq = at(j).seq PROVE at(i) = at(j)
  <2>1. i = j
    BY <1>2, <1>3, <1>5, <1>11
  <2>. QED  BY <2>1
<1>12. Grows(Records(out), s, Records(new.out), t)
  BY <1>5, <1>6, <1>8, <1>9, <1>10, <1>11 DEF Grows
<1>. QED  BY <1>1, <1>8, <1>12 DEF new

LEMMA SendGrows ==
    ASSUME ConnectionTypes, Enabled(enc), NEW typ \in Types, NEW fragments \in Seq(Contents)
    PROVE  /\ Sent(CurrentSender, typ, fragments).out \in Seq(Unit)
           /\ Grows(Records(output), enc, Records(Sent(CurrentSender, typ, fragments).out),
                    Sent(CurrentSender, typ, fragments).state)
<1>. DEFINE new == Sent(CurrentSender, typ, fragments)
<1>1. enc \in State /\ output \in Seq(Unit)
  BY DEF ConnectionTypes
<1>2. CASE NeedsRekey(enc)
  <2>. DEFINE mid == WithKeyUpdate([state |-> enc, out |-> output])
  <2>1. new = Encrypted(mid, typ, fragments)
    BY <1>2 DEF Sent, CurrentSender
  <2>2. /\ mid.out \in Seq(Unit) /\ mid.state \in State
        /\ mid.state.key.label = enc.key.label
        /\ Grows(Records(output), enc, Records(mid.out), mid.state)
        /\ Records(output) \subseteq Records(mid.out)
    BY <1>1, KeyUpdateGrows
  <2>3. mid = [state |-> mid.state, out |-> mid.out]
    BY DEF WithKeyUpdate
  <2>4. Enabled(mid.state)
    <3>1. mid.state = Updated(enc)
      BY DEF WithKeyUpdate
    <3>2. Updated(enc).key.generation = enc.key.generation + 1 /\ enc.key.generation \in Nat
      BY <1>1 DEF Updated, Fresh, Numbered, State, Key
    <3>3. NoKey.generation = 0
      BY DEF NoKey
    <3>. QED  BY <3>1, <3>2, <3>3 DEF Enabled
  <2>. HIDE DEF mid, new
  <2>5. /\ new.out \in Seq(Unit)
        /\ Grows(Records(mid.out), mid.state, Records(new.out), new.state)
    <3>. DEFINE s == mid.state
                o == mid.out
    <3>1. s \in State /\ o \in Seq(Unit) /\ Enabled(s)
      BY <2>2, <2>4
    <3>2. new = Encrypted([state |-> s, out |-> o], typ, fragments)
      BY <2>1, <2>3
    <3>. HIDE DEF s, o
    <3>3. /\ new.out \in Seq(Unit) /\ Grows(Records(o), s, Records(new.out), new.state)
      BY <3>1, <3>2, FragmentsGrow
    <3>. QED  BY <3>3 DEF s, o
  <2>6. Grows(Records(output), enc, Records(new.out), new.state)
    BY <1>1, <2>2, <2>5, GrowsTwice
  <2>. QED  BY <2>5, <2>6 DEF new
<1>3. CASE ~NeedsRekey(enc)
  <2>1. new = Encrypted([state |-> enc, out |-> output], typ, fragments)
    BY <1>3 DEF Sent, CurrentSender
  <2>. QED  BY <1>1, <2>1, FragmentsGrow
<1>. QED  BY <1>2, <1>3

LEMMA ChunksAreContents ==
    ASSUME NEW w \in Nat
    PROVE  Chunks(Bytes(w + 1)) \in Seq(Contents)
<1>1. WriteLen \in Nat \ {0} /\ ChunkLen \in Nat \ {0}
  BY TlsAssumption
<1>. DEFINE b == Bytes(w + 1)
<1>2. b \in Seq(Nat) /\ Len(b) = WriteLen
  <2>1. \A i \in 1 .. WriteLen : (w + 1 - 1) * WriteLen + i \in Nat
    <3>1. w * WriteLen \in Nat
      BY <1>1
    <3>2. w + 1 - 1 = w
      OBVIOUS
    <3>. QED  BY <1>1, <3>1, <3>2
  <2>. QED  BY <1>1, <2>1 DEF Bytes
<1>. HIDE DEF b
<1>. DEFINE n == (Len(b) + ChunkLen - 1) \div ChunkLen
            piece(i) == SubSeq(b, (i - 1) * ChunkLen + 1,
                               IF i * ChunkLen < Len(b) THEN i * ChunkLen ELSE Len(b))
<1>3. n \in Nat
  BY <1>1, <1>2
<1>4. ASSUME NEW i \in 1 .. n PROVE Data(piece(i)) \in Contents
  <2>1. (i - 1) * ChunkLen \in Nat /\ i * ChunkLen \in Nat
    BY <1>1, <1>3
  <2>2. (i - 1) * ChunkLen + 1 \in Nat \ {0}
    BY <2>1
  <2>3. (IF i * ChunkLen < Len(b) THEN i * ChunkLen ELSE Len(b)) \in 0 .. Len(b)
    BY <1>2, <2>1
  <2>4. \A x \in Nat \ {0}, y \in 0 .. Len(b) : SubSeq(b, x, y) \in Seq(Nat)
    BY <1>2
  <2>5. piece(i) \in Seq(Nat)
    BY <2>2, <2>3, <2>4
  <2>. HIDE DEF piece
  <2>. QED  BY <2>5, Contained
<1>5. Chunks(b) = [i \in 1 .. n |-> Data(piece(i))]
  BY DEF Chunks
<1>. HIDE DEF piece, n
<1>6. Chunks(b) \in Seq(Contents)
  BY <1>3, <1>4, <1>5
<1>. QED  BY <1>6 DEF b

-----------------------------------------------------------------------------
(* Steps. *)

LEMMA OutgoingRecords ==
    ASSUME ConnectionTypes
    PROVE  Records(output) \subseteq Record /\ Records(toServer) \subseteq Record
<1>1. \A s \in Seq(Unit) : Records(s) \subseteq Record
  <2>1. ASSUME NEW s \in Seq(Unit), NEW i \in DOMAIN s PROVE s[i].of \in Record
    <3>1. s[i] \in Unit
      OBVIOUS
    <3>. QED  BY <3>1 DEF Unit
  <2>. QED  BY <2>1 DEF Records
<1>. QED  BY <1>1 DEF ConnectionTypes

\* A step that seals nothing.
LEMMA Calm ==
    ASSUME NonceInv, enc' = enc, dec' \in State, Later(dec', dec), transcript' \in Seq(Names),
           output' \in Seq(Unit), toServer' \in Seq(Unit), written' \in Nat,
           Records(output') \cup Records(toServer') \subseteq Outgoing, StagesInv'
    PROVE  NonceInv' /\ KeysAdvance
<1>1. enc \in State /\ Later(enc', enc)
  BY LaterNow DEF NonceInv, ConnectionTypes
<1>2. ConnectionTypes'
  BY <1>1 DEF ConnectionTypes
<1>3. AllPast(Records(output') \cup Records(toServer'), enc')
  BY DEF NonceInv, AllPast
<1>4. Unique(Records(output') \cup Records(toServer'))
  BY DEF NonceInv, Unique
<1>. QED  BY <1>1, <1>2, <1>3, <1>4 DEF NonceInv, KeysAdvance, Outgoing

\* A step that seals, and may change the secret after it.
LEMMA Busy ==
    ASSUME NonceInv, NEW out, NEW e, Grows(Records(output), enc, Records(out), e),
           enc' \in State, Later(enc', e), dec' \in State, Later(dec', dec),
           transcript' \in Seq(Names), output' \in Seq(Unit), toServer' \in Seq(Unit),
           written' \in Nat,
           Records(output') \cup Records(toServer')
             \subseteq Records(output) \cup Records(out) \cup Records(toServer),
           StagesInv'
    PROVE  NonceInv' /\ KeysAdvance
<1>1. enc \in State /\ e \in State /\ Later(e, enc)
  BY DEF NonceInv, ConnectionTypes, Grows
<1>2. Later(enc', enc)
  BY <1>1, LaterAgain
<1>3. ConnectionTypes'
  BY DEF ConnectionTypes
<1>4. Outgoing \in SUBSET Record /\ Records(output) \subseteq Outgoing
  BY OutgoingRecords DEF NonceInv, Outgoing
<1>5. AllPast(Outgoing, enc) /\ Unique(Outgoing)
  BY DEF NonceInv
<1>6. Outgoing' \subseteq Outgoing \cup Records(out)
  BY DEF Outgoing
<1>7. ASSUME NEW r \in Outgoing' PROVE r \in Record /\ (r.key # NoKey => Past(r, e))
  <2>1. CASE r \in Outgoing
    BY <1>1, <1>4, <1>5, <2>1, PastIsKept DEF AllPast
  <2>2. CASE r \in Records(out) \ Records(output)
    BY <2>2 DEF Grows
  <2>. QED  BY <1>4, <1>6, <2>1, <2>2
<1>8. ASSUME NEW r \in Outgoing', NEW q \in Outgoing', r.key # NoKey, r.key = q.key, r.seq = q.seq
      PROVE  r = q
  <2>1. Past(r, enc) <=> Past(q, enc)
    BY <1>8, SameNonce
  <2>2. \A x \in Outgoing : x.key # NoKey => Past(x, enc)
    BY <1>5 DEF AllPast
  <2>3. \A x \in Records(out) \ Records(output) : ~Past(x, enc)
    BY DEF Grows
  <2>4. q.key # NoKey
    BY <1>8
  <2>5. r \in Outgoing <=> q \in Outgoing
    BY <1>4, <1>6, <1>8, <2>1, <2>2, <2>3, <2>4
  <2>6. CASE r \in Outgoing /\ q \in Outgoing
    BY <1>5, <1>8, <2>6 DEF Unique
  <2>7. CASE r \notin Outgoing /\ q \notin Outgoing
    <3>1. r \in Records(out) \ Records(output) /\ q \in Records(out) \ Records(output)
      BY <1>4, <1>6, <2>7
    <3>. QED  BY <1>8, <3>1 DEF Grows
  <2>. QED  BY <2>5, <2>6, <2>7
<1>9. AllPast(Outgoing', enc')
  BY <1>1, <1>7, PastIsKept DEF AllPast
<1>10. Unique(Outgoing')
  BY <1>8 DEF Unique
<1>. QED  BY <1>2, <1>3, <1>9, <1>10 DEF NonceInv, KeysAdvance

LEMMA NothingGrows ==
    ASSUME NEW R, NEW s \in State
    PROVE  Grows(R, s, R, s)
BY LaterNow DEF Grows

LEMMA AdvancedIsLater ==
    ASSUME NEW s \in State
    PROVE  /\ Advanced(s) \in State /\ Later(Advanced(s), s)
           /\ Stage(Advanced(s)) = Stage(s) /\ Advanced(s).key = s.key
<1>1. s.key \in Key /\ s.sequence_number \in Nat
  BY DEF State
<1>2. CASE Enabled(s)
  BY <1>1, <1>2 DEF Advanced, AdvancedBy, Numbered, Later, Stage, State
<1>3. CASE ~Enabled(s)
  BY <1>1, <1>3 DEF Advanced, AdvancedBy, Numbered, Later, Stage, State
<1>. QED  BY <1>2, <1>3

LEMMA DerivedIsFresh ==
    ASSUME NEW l \in Labels, NEW h \in Seq(Names)
    PROVE  /\ Fresh(Derived(l, h)) \in State
           /\ Stage(Fresh(Derived(l, h)))
                = IF l = "none" THEN 0 ELSE IF l \in {"s hs traffic", "c hs traffic"} THEN 1 ELSE 2
BY DEF Fresh, Numbered, Derived, State, Key, Stage

LEMMA StageIsLater ==
    ASSUME NEW s \in State, NEW t \in State, Stage(t) > Stage(s)
    PROVE  Later(t, s)
BY DEF Later

LEMMA UpdatedIsLater ==
    ASSUME NEW s \in State
    PROVE  Updated(s) \in State /\ Later(Updated(s), s) /\ Stage(Updated(s)) = Stage(s)
<1>. DEFINE k == [s.key EXCEPT !.generation = @ + 1]
            t == Updated(s)
<1>1. s.key \in Key
  BY DEF State
<1>2. k \in Key /\ k.label = s.key.label /\ k.transcript = s.key.transcript
      /\ k.generation = s.key.generation + 1
  BY <1>1 DEF Key
<1>3. t = [key |-> k, sequence_number |-> 0]
  BY DEF Updated, Fresh, Numbered
<1>4. s.key.generation \in Nat
  BY <1>1 DEF Key
<1>. HIDE DEF k, t
<1>5. t \in State /\ t.key.label = s.key.label
      /\ t.key.transcript = s.key.transcript /\ t.key.generation = s.key.generation + 1
  BY <1>2, <1>3 DEF State
<1>6. Later(t, s) /\ Stage(t) = Stage(s)
  BY <1>4, <1>5 DEF Later, Stage
<1>. QED  BY <1>5, <1>6 DEF t

LEMMA HashedNames ==
    ASSUME transcript \in Seq(Names), NEW name \in Names, Hashed(name)
    PROVE  transcript' \in Seq(Names)
BY DEF Hashed

\* The server, and what only reads, seals nothing.
LEMMA ServerKeeps ==
    ASSUME NonceInv, ServerHandshake \/ ServerPosts \/ ServerReceives
    PROVE  NonceInv' /\ KeysAdvance
<1>1. ConnectionTypes /\ StagesInv
  BY DEF NonceInv
<1>2. UNCHANGED <<pc, st, dec, enc, output, transcript, written>>
  <2>1. CASE ServerHandshake
    BY <2>1 DEF ServerHandshake, ServerAnswers, ServerStartsFlight, ServerEndsFlight,
                ServerSendsHandshake, connection, app
  <2>2. CASE ServerPosts
    BY <2>2 DEF ServerPosts, ServerSendsData, ServerSendsTicket, ServerUpdatesKey, ServerCloses,
                connection, app
  <2>3. CASE ServerReceives
    BY <2>3 DEF ServerReceives, connection, app
  <2>. QED  BY <2>1, <2>2, <2>3, Zenon
<1>3. Later(dec', dec)
  BY <1>1, <1>2, LaterNow DEF ConnectionTypes
<1>4. StagesInv'
  BY <1>1, <1>2 DEF StagesInv, Stage
<1>5. toServer' = toServer \/ toServer' = <<>> \/ toServer' = SubSeq(toServer, 3, Len(toServer))
  <2>1. CASE ServerHandshake
    BY <2>1 DEF ServerHandshake, ServerAnswers, ServerStartsFlight, ServerEndsFlight,
                ServerSendsHandshake
  <2>2. CASE ServerPosts
    BY <2>2 DEF ServerPosts, ServerSendsData, ServerSendsTicket, ServerUpdatesKey, ServerCloses
  <2>3. CASE ServerReceives
    BY <2>3 DEF ServerReceives
  <2>. QED  BY <2>1, <2>2, <2>3, Zenon
<1>6. toServer' \in Seq(Unit) /\ Records(toServer') \subseteq Records(toServer)
  <2>1. CASE toServer' = <<>>
    BY <2>1 DEF Records
  <2>2. CASE toServer' = SubSeq(toServer, 3, Len(toServer))
    <3>1. toServer \in Seq(Unit) /\ Len(toServer) \in 0 .. Len(toServer) /\ 3 \in 1 .. 3
      BY <1>1 DEF ConnectionTypes
    <3>. QED  BY <2>2, <3>1, RecordsOfSubSeq
  <2>. QED  BY <1>1, <1>5, <2>1, <2>2 DEF ConnectionTypes
<1>. QED  BY <1>1, <1>2, <1>3, <1>4, <1>6, Calm DEF ConnectionTypes, Outgoing

\* The actions of the client that change neither its secrets nor what it sends.
Reading ==
    \/ \E n \in 0 .. Len(toClient) : HandshakeRead(n) \/ PollReadTls(n)
    \/ PollProcessed \/ \E n \in 0 .. Len(data) : PollRead(n)
    \/ DiscardCcs \/ ReceiveData \/ ReceiveHandshake \/ ReceiveAlert \/ RefuseRecord
    \/ RefuseHandshake \/ HandleTicket

LEMMA ReadingKeeps ==
    ASSUME NonceInv, Reading
    PROVE  NonceInv' /\ KeysAdvance
<1>1. ConnectionTypes /\ StagesInv
  BY DEF NonceInv
<1>2. UNCHANGED <<enc, output, transcript, written, toServer>>
  BY DEF Reading, HandshakeRead, PollReadTls, PollProcessed, PollRead, DiscardCcs, ReceiveData,
         ReceiveHandshake, ReceiveAlert, RefuseRecord, RefuseHandshake, HandleTicket, Handle, app
<1>3. dec' = dec \/ dec' = Advanced(dec)
  BY DEF Reading, HandshakeRead, PollReadTls, PollProcessed, PollRead, DiscardCcs, ReceiveData,
         ReceiveHandshake, ReceiveAlert, RefuseRecord, RefuseHandshake, HandleTicket, Handle,
         Received
<1>4. dec' \in State /\ Later(dec', dec) /\ Stage(dec') = Stage(dec)
  BY <1>1, <1>3, LaterNow, AdvancedIsLater DEF ConnectionTypes
<1>5. \/ UNCHANGED <<pc, st>>
      \/ st' = "err" /\ pc' = IF pc = "handshake" THEN "refused" ELSE pc
  BY DEF Reading, HandshakeRead, PollReadTls, PollProcessed, PollRead, DiscardCcs, ReceiveData,
         ReceiveHandshake, ReceiveAlert, RefuseRecord, RefuseHandshake, HandleTicket, Handle, Fail
<1>6. StagesInv'
  BY <1>1, <1>2, <1>4, <1>5 DEF StagesInv, Stage, HandshakeStates
<1>. QED  BY <1>1, <1>2, <1>4, <1>6, Calm DEF ConnectionTypes, Outgoing

LEMMA ProcessedKeeps ==
    ASSUME NonceInv, HandshakeProcessed
    PROVE  NonceInv' /\ KeysAdvance
<1>1. ConnectionTypes /\ StagesInv
  BY DEF NonceInv
<1>2. UNCHANGED <<st, enc, dec, transcript, written>>
      /\ toServer' = toServer \o output /\ output' = <<>> /\ pc = "handshake"
      /\ pc' = IF IsHandshaking THEN "handshake" ELSE "open"
  BY DEF HandshakeProcessed, app
<1>3. Later(dec', dec)
  BY <1>1, <1>2, LaterNow DEF ConnectionTypes
<1>4. toServer' \in Seq(Unit) /\ output' \in Seq(Unit)
      /\ Records(toServer') = Records(toServer) \cup Records(output) /\ Records(output') = {}
  <2>1. toServer \in Seq(Unit) /\ output \in Seq(Unit)
    BY <1>1 DEF ConnectionTypes
  <2>2. toServer \o output \in Seq(Unit)
        /\ Records(toServer \o output) = Records(toServer) \cup Records(output)
    BY <2>1, RecordsOfConcat
  <2>3. <<>> \in Seq(Unit) /\ Records(<<>>) = {}
    BY DEF Records
  <2>. QED  BY <1>2, <2>2, <2>3
<1>5. StagesInv'
  BY <1>1, <1>2 DEF StagesInv, Stage, HandshakeStates, IsHandshaking
<1>. QED  BY <1>1, <1>2, <1>3, <1>4, <1>5, Calm DEF ConnectionTypes, Outgoing

\* No key, no stage.
LEMMA NoKeyNoStage ==
    ASSUME NEW s
    PROVE  s.key = NoKey => Stage(s) = 0
<1>1. NoKey.label = "none"
  BY DEF NoKey
<1>. QED  BY <1>1 DEF Stage

LEMMA StartKeeps ==
    ASSUME NonceInv, Start
    PROVE  NonceInv' /\ KeysAdvance
<1>1. ConnectionTypes /\ StagesInv
  BY DEF NonceInv
<1>2. st = "Start" /\ ~Enabled(enc)
  BY <1>1 DEF Start, StagesInv, Enabled
<1>. DEFINE c == Handshakes(Halves(ClientHello))
            r == Sealed(AdvancedBy(enc, 0), "Handshake", c)
            s == Sent(CurrentSender, "Handshake", <<c>>)
<1>3. AdvancedBy(enc, 0) = enc /\ AdvancedBy(enc, 1) = enc
  BY <1>1, <1>2 DEF AdvancedBy, Numbered, ConnectionTypes, State
<1>4. r \in Record /\ r.key = enc.key
  BY <1>1, <1>3, SealedRecord, Contained DEF Types, ConnectionTypes
<1>5. s.state = enc /\ s.out = output \o UnitsOf(<<r>>)
  <2>1. [i \in DOMAIN <<c>> |-> Sealed(AdvancedBy(enc, i - 1), "Handshake", <<c>>[i])] = <<r>>
    OBVIOUS
  <2>2. s = Encrypted(CurrentSender, "Handshake", <<c>>)
    BY <1>2 DEF Sent, NeedsRekey, CurrentSender
  <2>3. Len(<<c>>) = 1
    OBVIOUS
  <2>. HIDE DEF r, c, s
  <2>. QED  BY <1>3, <2>1, <2>2, <2>3 DEF Encrypted, CurrentSender
<1>. HIDE DEF r, s
<1>6. UnitsOf(<<r>>) \in Seq(Unit) /\ Records(UnitsOf(<<r>>)) \subseteq {r}
  <2>1. <<r>> \in Seq(Record) /\ {<<r>>[i] : i \in DOMAIN <<r>>} = {r}
    BY <1>4
  <2>. QED  BY <2>1, RecordsOfUnitsOf
<1>7. /\ enc' = enc /\ toServer' = toServer \o s.out /\ transcript' = <<"ClientHello">>
      /\ st' = "WaitServerHello" /\ pc' = "handshake"
      /\ UNCHANGED <<dec, output, written>>
  BY <1>5 DEF Start, app, s, c
<1>8. /\ output \in Seq(Unit) /\ toServer \in Seq(Unit)
      /\ s.out \in Seq(Unit) /\ Records(s.out) \subseteq Records(output) \cup {r}
  BY <1>1, <1>5, <1>6, RecordsOfConcat DEF ConnectionTypes
<1>9. toServer' \in Seq(Unit) /\ Records(toServer') \subseteq Outgoing \cup {r}
  BY <1>7, <1>8, RecordsOfConcat DEF Outgoing
<1>10. transcript' \in Seq(Names)
  BY <1>7 DEF Names
<1>11. ConnectionTypes' /\ Later(dec', dec) /\ Later(enc', enc)
  BY <1>1, <1>7, <1>9, <1>10, LaterNow DEF ConnectionTypes
<1>12. StagesInv'
  BY <1>1, <1>2, <1>7 DEF StagesInv, Stage, HandshakeStates
<1>13. r.key = NoKey
  BY <1>2, <1>4 DEF Enabled
<1>14. Outgoing' \subseteq Outgoing \cup {r}
  BY <1>7, <1>9 DEF Outgoing
<1>15. AllPast(Outgoing', enc')
  BY <1>7, <1>13, <1>14 DEF NonceInv, AllPast
<1>16. Unique(Outgoing')
  BY <1>13, <1>14 DEF NonceInv, Unique
<1>. QED  BY <1>11, <1>12, <1>15, <1>16 DEF NonceInv, KeysAdvance

\* The keys of the handshake.
LEMMA ServerHelloKeeps ==
    ASSUME NonceInv, HandleServerHello
    PROVE  NonceInv' /\ KeysAdvance
<1>1. ConnectionTypes /\ StagesInv
  BY DEF NonceInv
<1>2. /\ st = "WaitServerHello" /\ st' = "WaitEncryptedExtensions"
      /\ UNCHANGED <<pc, output, toServer, written>> /\ Hashed("ServerHello")
      /\ dec' = Fresh(Derived("s hs traffic", transcript'))
      /\ enc' = Fresh(Derived("c hs traffic", transcript'))
  BY DEF HandleServerHello, Handle, app
<1>3. transcript' \in Seq(Names)
  BY <1>1, <1>2, HashedNames DEF ConnectionTypes, Names, ServerHandshakes
<1>4. dec' \in State /\ enc' \in State /\ Stage(dec') = 1 /\ Stage(enc') = 1
  BY <1>2, <1>3, DerivedIsFresh DEF Labels
<1>5. Stage(enc) = 0 /\ Stage(dec) = 0
  BY <1>1, <1>2, NoKeyNoStage DEF StagesInv
<1>6. Later(enc', enc) /\ Later(dec', dec)
  BY <1>1, <1>4, <1>5, StageIsLater DEF ConnectionTypes
<1>7. StagesInv'
  <2>0. Stage(enc) # 2
    BY <1>5
  <2>1. pc # "open" /\ pc' = pc
    BY <1>1, <1>2, <2>0, Zenon DEF StagesInv
  <2>2. st' = "WaitEncryptedExtensions" /\ st' \in HandshakeStates
    BY <1>2 DEF HandshakeStates
  <2>. QED  BY <1>4, <2>1, <2>2 DEF StagesInv
<1>8. Grows(Records(output), enc, Records(output), enc)
  BY <1>1, NothingGrows DEF ConnectionTypes
<1>. QED  BY <1>1, <1>2, <1>3, <1>4, <1>6, <1>7, <1>8, Busy DEF ConnectionTypes

\* The messages that are only hashed.
LEMMA HashingKeeps ==
    ASSUME NonceInv, HandleEncryptedExtensions \/ HandleCertificate \/ HandleCertificateVerify
    PROVE  NonceInv' /\ KeysAdvance
<1>1. ConnectionTypes /\ StagesInv
  BY DEF NonceInv
<1>2. /\ st \in HandshakeStates /\ st' \in HandshakeStates
      /\ UNCHANGED <<pc, enc, dec, output, toServer, written>>
      /\ \E name \in {"EncryptedExtensions", "Certificate", "CertificateVerify"} : Hashed(name)
  BY DEF HandleEncryptedExtensions, HandleCertificate, HandleCertificateVerify, Handle, app,
         HandshakeStates
<1>3. transcript' \in Seq(Names)
  BY <1>1, <1>2, HashedNames DEF ConnectionTypes, Names, ServerHandshakes
<1>4. Later(dec', dec)
  BY <1>1, <1>2, LaterNow DEF ConnectionTypes
<1>5. StagesInv'
  BY <1>1, <1>2 DEF StagesInv, Stage, HandshakeStates
<1>. QED  BY <1>1, <1>2, <1>3, <1>4, <1>5, Calm DEF ConnectionTypes, Outgoing

\* Our Finished, then the keys of the application.
LEMMA FinishedKeeps ==
    ASSUME NonceInv, HandleFinished
    PROVE  NonceInv' /\ KeysAdvance
<1>1. ConnectionTypes /\ StagesInv
  BY DEF NonceInv
<1>. DEFINE f == <<Handshakes(Halves(OurFinished(transcript')))>>
            s == Sent(CurrentSender, "Handshake", f)
<1>2. /\ st = "WaitFinished" /\ st' = "Connected"
      /\ UNCHANGED <<pc, toServer, written>> /\ Hashed("Finished")
      /\ output' = s.out
      /\ dec' = Fresh(Derived("s ap traffic", transcript'))
      /\ enc' = Fresh(Derived("c ap traffic", transcript'))
  BY DEF HandleFinished, Handle, app
<1>3. transcript' \in Seq(Names)
  BY <1>1, <1>2, HashedNames DEF ConnectionTypes, Names, ServerHandshakes
<1>4. dec' \in State /\ enc' \in State /\ Stage(dec') = 2 /\ Stage(enc') = 2
  BY <1>2, <1>3, DerivedIsFresh DEF Labels
<1>5. Stage(enc) = 1 /\ Stage(dec) = 1 /\ Enabled(enc)
  <2>1. st \in HandshakeStates
    BY <1>2 DEF HandshakeStates
  <2>2. Stage(enc) = 1 /\ Stage(dec) = 1
    BY <1>1, <2>1 DEF StagesInv
  <2>3. enc.key # NoKey
    BY <2>2, NoKeyNoStage
  <2>. QED  BY <2>2, <2>3 DEF Enabled
<1>6. f \in Seq(Contents) /\ "Handshake" \in Types
  BY <1>3, Contained DEF Types
<1>. HIDE DEF f
<1>7. s.out \in Seq(Unit) /\ Grows(Records(output), enc, Records(s.out), s.state)
  BY <1>1, <1>5, <1>6, SendGrows
<1>. HIDE DEF s
<1>8. Later(enc', s.state) /\ Later(dec', dec)
  BY <1>1, <1>4, <1>5, <1>7, StageIsLater DEF ConnectionTypes, Grows
<1>9. StagesInv'
  BY <1>1, <1>2, <1>4 DEF StagesInv, HandshakeStates
<1>. QED  BY <1>1, <1>2, <1>3, <1>4, <1>7, <1>8, <1>9, Busy DEF ConnectionTypes

LEMMA KeyUpdateKeeps ==
    ASSUME NonceInv, HandleKeyUpdate
    PROVE  NonceInv' /\ KeysAdvance
<1>1. ConnectionTypes /\ StagesInv
  BY DEF NonceInv
<1>. DEFINE s == WithKeyUpdate([state |-> enc, out |-> output])
<1>2. /\ st = "Connected" /\ UNCHANGED <<pc, st, toServer, written, transcript>>
      /\ dec' = Updated(dec)
      /\ \/ enc' = s.state /\ output' = s.out
         \/ UNCHANGED <<enc, output>>
  BY DEF HandleKeyUpdate, Handle, app, CurrentSender
<1>3. dec' \in State /\ Later(dec', dec) /\ Stage(dec') = Stage(dec)
  BY <1>1, <1>2, UpdatedIsLater DEF ConnectionTypes
<1>4. s.out \in Seq(Unit) /\ Grows(Records(output), enc, Records(s.out), s.state)
  BY <1>1, KeyUpdateGrows DEF ConnectionTypes
<1>. HIDE DEF s
<1>5. Stage(enc') = Stage(enc)
  BY <1>2, <1>4 DEF Grows, Stage
<1>6. StagesInv'
  BY <1>1, <1>2, <1>3, <1>5 DEF StagesInv, HandshakeStates, Stage
<1>7. CASE enc' = s.state /\ output' = s.out
  <2>1. enc' \in State /\ Later(enc', s.state)
    BY <1>4, <1>7, LaterNow DEF Grows
  <2>. QED  BY <1>1, <1>2, <1>3, <1>4, <1>6, <1>7, <2>1, Busy DEF ConnectionTypes
<1>8. CASE UNCHANGED <<enc, output>>
  BY <1>1, <1>2, <1>3, <1>6, <1>8, Calm DEF ConnectionTypes, Outgoing
<1>. QED  BY <1>2, <1>7, <1>8

\* A write encrypts its bytes each time it is polled.
LEMMA WriteKeeps ==
    ASSUME NonceInv, Write
    PROVE  NonceInv' /\ KeysAdvance
<1>1. ConnectionTypes /\ StagesInv
  BY DEF NonceInv
<1>. DEFINE f == Chunks(Bytes(written + 1))
            s == Sent(CurrentSender, "ApplicationData", f)
<1>2. /\ pc = "open" /\ UNCHANGED <<pc, st, dec, transcript>> /\ enc' = s.state
      /\ written' \in {written, written + 1}
      /\ output' \in {<<>>, s.out}
      /\ \/ toServer' = toServer
         \/ \E n \in 0 .. Len(s.out) : toServer' = toServer \o SubSeq(s.out, 1, n)
  BY DEF Write, PollWrite, PollWriteFails
<1>3. f \in Seq(Contents) /\ "ApplicationData" \in Types
  BY <1>1, ChunksAreContents DEF ConnectionTypes, Types
<1>4. Enabled(enc) /\ Stage(enc) = 2
  BY <1>1, <1>2, NoKeyNoStage DEF StagesInv, Enabled
<1>. HIDE DEF f
<1>5. s.out \in Seq(Unit) /\ Grows(Records(output), enc, Records(s.out), s.state)
  BY <1>1, <1>3, <1>4, SendGrows
<1>. HIDE DEF s
<1>6. enc' \in State /\ Later(enc', s.state) /\ Stage(enc') = Stage(enc)
  BY <1>2, <1>5, LaterNow DEF Grows
<1>7. output' \in Seq(Unit) /\ Records(output') \subseteq Records(s.out)
  <2>1. <<>> \in Seq(Unit) /\ Records(<<>>) = {}
    BY DEF Records
  <2>. QED  BY <1>2, <1>5, <2>1
<1>8. toServer' \in Seq(Unit)
      /\ Records(toServer') \subseteq Records(toServer) \cup Records(s.out)
  <2>1. toServer \in Seq(Unit)
    BY <1>1 DEF ConnectionTypes
  <2>2. CASE \E n \in 0 .. Len(s.out) : toServer' = toServer \o SubSeq(s.out, 1, n)
    <3>1. PICK n \in 0 .. Len(s.out) : toServer' = toServer \o SubSeq(s.out, 1, n)
      BY <2>2
    <3>2. SubSeq(s.out, 1, n) \in Seq(Unit)
          /\ Records(SubSeq(s.out, 1, n)) \subseteq Records(s.out)
      BY <1>5, RecordsOfSubSeq
    <3>. QED  BY <2>1, <3>1, <3>2, RecordsOfConcat
  <2>. QED  BY <1>2, <2>1, <2>2
<1>9. StagesInv'
  <2>1. Stage(dec') = Stage(dec)
    BY <1>2 DEF Stage
  <2>2. st \notin {"Start", "WaitServerHello"}
    BY <1>1, <1>4 DEF StagesInv, Enabled
  <2>3. pc' = pc /\ st' = st
    BY <1>2
  <2>. QED  BY <1>1, <1>4, <1>6, <2>1, <2>2, <2>3 DEF StagesInv
<1>10. dec' \in State /\ Later(dec', dec) /\ transcript' \in Seq(Names) /\ written' \in Nat
  BY <1>1, <1>2, LaterNow DEF ConnectionTypes
<1>. QED  BY <1>5, <1>6, <1>7, <1>8, <1>9, <1>10, Busy

-----------------------------------------------------------------------------
(* Every step. *)

LEMMA StepKeeps ==
    ASSUME NonceInv, Next
    PROVE  NonceInv' /\ KeysAdvance
<1>1. CASE Start
  BY <1>1, StartKeeps
<1>2. CASE Reading
  BY <1>2, ReadingKeeps
<1>3. CASE HandshakeProcessed
  BY <1>3, ProcessedKeeps
<1>4. CASE HandleServerHello
  BY <1>4, ServerHelloKeeps
<1>5. CASE HandleEncryptedExtensions \/ HandleCertificate \/ HandleCertificateVerify
  BY <1>5, HashingKeeps
<1>6. CASE HandleFinished
  BY <1>6, FinishedKeeps
<1>7. CASE HandleKeyUpdate
  BY <1>7, KeyUpdateKeeps
<1>8. CASE Write
  BY <1>8, WriteKeeps
<1>9. CASE ServerHandshake \/ ServerPosts \/ ServerReceives
  BY <1>9, ServerKeeps
<1>. QED
  BY <1>1, <1>2, <1>3, <1>4, <1>5, <1>6, <1>7, <1>8, <1>9
     DEF Next, Client, ProcessNewPackets, Reading

LEMMA StutterKeeps ==
    ASSUME NonceInv, UNCHANGED vars
    PROVE  NonceInv'
<1>1. UNCHANGED <<pc, st, enc, dec, transcript, output, toServer, written>>
  BY DEF vars, connection, app
<1>2. ConnectionTypes /\ StagesInv
  BY DEF NonceInv
<1>3. Later(dec', dec) /\ Stage(dec') = Stage(dec) /\ Stage(enc') = Stage(enc)
  BY <1>1, <1>2, LaterNow DEF ConnectionTypes, Stage
<1>4. StagesInv'
  BY <1>1, <1>2, <1>3 DEF StagesInv
<1>. QED  BY <1>1, <1>2, <1>3, <1>4, Calm DEF ConnectionTypes, Outgoing

LEMMA InitialNonces ==
    ASSUME Init
    PROVE  NonceInv
<1>1. Disabled \in State /\ Stage(Disabled) = 0 /\ Disabled.key = NoKey
  <2>1. NoKey \in Key
    <3>1. "none" \in Labels /\ <<>> \in Seq(Names) /\ 0 \in Nat
      BY DEF Labels
    <3>. QED  BY <3>1 DEF NoKey, Key
  <2>2. Disabled = [key |-> NoKey, sequence_number |-> 0]
    BY DEF Disabled, Fresh, Numbered
  <2>3. Disabled \in State /\ Disabled.key = NoKey
    BY <2>1, <2>2 DEF State
  <2>. QED  BY <2>3, NoKeyNoStage
<1>2. Records(<<>>) = {} /\ <<>> \in Seq(Unit) /\ <<>> \in Seq(Names)
  BY DEF Records
<1>. QED  BY <1>1, <1>2 DEF Init, NonceInv, ConnectionTypes, StagesInv, AllPast, Unique, Outgoing,
                            HandshakeStates

LEMMA NoncesAreUnique ==
    ASSUME NonceInv
    PROVE  NoncesUnique
<1>1. output \in Seq(Unit) /\ toServer \in Seq(Unit)
  BY DEF NonceInv, ConnectionTypes
<1>. DEFINE u == output \o toServer
<1>2. Records(u) = Outgoing
  BY <1>1, RecordsOfConcat DEF Outgoing
<1>. HIDE DEF u
<1>3. \A i \in DOMAIN u : u[i].of \in Outgoing
  BY <1>2 DEF Records
<1>4. \A i, j \in DOMAIN u :
         u[i].of.key # NoKey /\ u[i].of.key = u[j].of.key /\ u[i].of.seq = u[j].of.seq
            => u[i].of = u[j].of
  BY <1>3 DEF NonceInv, Unique
<1>. QED  BY <1>4 DEF NoncesUnique, u

\* The records on their way have nonces that the sender left behind, no two
\* the same (EncryptionState::encrypt, perform_key_update, the key schedule).
THEOREM Invariant == Spec => []NonceInv
<1>1. NonceInv /\ [Next]_vars => NonceInv'
  BY StepKeeps, StutterKeeps
<1>. QED  BY <1>1, InitialNonces, PTL DEF Spec

\* No nonce is used for two records, neither of those on their way nor by one
\* that comes after the record is gone, also when poll_write encrypts its
\* bytes again, and whatever the server and the socket do.
THEOREM NoncesAreNeverReused == Spec => NoncesNeverReused
<1>1. NonceInv /\ NonceInv' /\ [Next]_vars => [NoncesUnique' /\ KeysAdvance]_vars
  <2>1. NonceInv' => NoncesUnique'
    BY NoncesAreUnique, PTL
  <2>. QED  BY <2>1, StepKeeps
<1>. QED  BY <1>1, Invariant, PTL DEF Spec, NoncesNeverReused

-----------------------------------------------------------------------------
(* Units in flight: the records of a stream, however the socket cuts them.   *)

UnitIn(S) == [part : {"header", "body"}, of : S]

\* The first n bytes of a stream: a byte is known by its place.
FirstBytes(n) == [i \in 1 .. n |-> i]

LEMMA Joined ==
    ASSUME NEW U, NEW s \in Seq(U), NEW t \in Seq(U)
    PROVE  /\ s \o t \in Seq(U) /\ Len(s \o t) = Len(s) + Len(t)
           /\ \A i \in 1 .. Len(s) : (s \o t)[i] = s[i]
           /\ \A i \in 1 .. Len(t) : (s \o t)[Len(s) + i] = t[i]
OBVIOUS

LEMMA Cut ==
    ASSUME NEW U, NEW s \in Seq(U), NEW m \in Nat \ {0}, m <= Len(s) + 1
    PROVE  /\ SubSeq(s, m, Len(s)) \in Seq(U) /\ Len(SubSeq(s, m, Len(s))) = Len(s) - m + 1
           /\ \A i \in 1 .. Len(s) - m + 1 : SubSeq(s, m, Len(s))[i] = s[m + i - 1]
OBVIOUS

LEMMA SameSequence ==
    ASSUME NEW U, NEW s \in Seq(U), NEW t \in Seq(U), Len(s) = Len(t),
           \A i \in 1 .. Len(s) : s[i] = t[i]
    PROVE  s = t
OBVIOUS

LEMMA UnitsAppend ==
    ASSUME NEW S, NEW rs \in Seq(S), NEW r \in S
    PROVE  /\ UnitsOf(rs) \in Seq(UnitIn(S)) /\ Units(r) \in Seq(UnitIn(S))
           /\ UnitsOf(rs) \o Units(r) = UnitsOf(Append(rs, r))
<1>. DEFINE n == Len(rs)
            unit(x, u) == [part |-> IF u % 2 = 1 THEN "header" ELSE "body", of |-> x]
            a == Append(rs, r)
<1>1. n \in Nat /\ Len(a) = n + 1 /\ a[n + 1] = r /\ (\A i \in 1 .. n : a[i] = rs[i] /\ rs[i] \in S)
      /\ a \in Seq(S)
  OBVIOUS
<1>2. UnitsOf(rs) = [u \in 1 .. 2 * n |-> unit(rs[(u + 1) \div 2], u)]
      /\ UnitsOf(a) = [u \in 1 .. 2 * (n + 1) |-> unit(a[(u + 1) \div 2], u)]
  BY <1>1 DEF UnitsOf
<1>3. \A x \in S, u \in Nat : unit(x, u) \in UnitIn(S)
  <2>. TAKE x \in S, u \in Nat
  <2>1. CASE u % 2 = 1
    BY <2>1 DEF UnitIn
  <2>2. CASE ~(u % 2 = 1)
    BY <2>2 DEF UnitIn
  <2>. QED  BY <2>1, <2>2
<1>4. Units(r) = <<unit(r, 1), unit(r, 2)>>
  BY DEF Units
<1>. HIDE DEF unit, a, n
<1>5. \A u \in 1 .. 2 * n : (u + 1) \div 2 \in 1 .. n
  BY <1>1
<1>6. UnitsOf(rs) \in Seq(UnitIn(S)) /\ Len(UnitsOf(rs)) = 2 * n
  BY <1>1, <1>2, <1>3, <1>5
<1>7. Units(r) \in Seq(UnitIn(S)) /\ Len(Units(r)) = 2
      /\ Units(r)[1] = unit(r, 1) /\ Units(r)[2] = unit(r, 2)
  BY <1>3, <1>4
<1>8. \A u \in 1 .. 2 * (n + 1) : (u + 1) \div 2 \in 1 .. n + 1 /\ a[(u + 1) \div 2] \in S
  BY <1>1
<1>9. UnitsOf(a) \in Seq(UnitIn(S)) /\ Len(UnitsOf(a)) = 2 * n + 2
  BY <1>1, <1>2, <1>3, <1>8
<1>. DEFINE c == UnitsOf(rs) \o Units(r)
<1>10. /\ c \in Seq(UnitIn(S)) /\ Len(c) = 2 * n + 2
       /\ \A u \in 1 .. 2 * n : c[u] = UnitsOf(rs)[u]
       /\ c[2 * n + 1] = Units(r)[1] /\ c[2 * n + 2] = Units(r)[2]
  <2>1. /\ c \in Seq(UnitIn(S)) /\ Len(c) = Len(UnitsOf(rs)) + Len(Units(r))
        /\ \A i \in 1 .. Len(UnitsOf(rs)) : c[i] = UnitsOf(rs)[i]
        /\ \A i \in 1 .. Len(Units(r)) : c[Len(UnitsOf(rs)) + i] = Units(r)[i]
    <3>1. UnitsOf(rs) \in Seq(UnitIn(S)) /\ Units(r) \in Seq(UnitIn(S))
      BY <1>6, <1>7
    <3>. QED  BY ONLY <3>1, Joined
  <2>. HIDE DEF c
  <2>2. 1 \in 1 .. 2 /\ 2 \in 1 .. 2
    OBVIOUS
  <2>. QED  BY <1>1, <1>6, <1>7, <2>1, <2>2
<1>. HIDE DEF c
<1>11. ASSUME NEW u \in 1 .. 2 * n + 2 PROVE c[u] = UnitsOf(a)[u]
  <2>1. CASE u \in 1 .. 2 * n
    BY <1>1, <1>2, <1>5, <1>10, <2>1
  <2>2. CASE u = 2 * n + 1
    <3>1. (u + 1) \div 2 = n + 1 /\ u \in 1 .. 2 * (n + 1) /\ u % 2 = 1
      BY <1>1, <2>2
    <3>. QED  BY <1>1, <1>2, <1>7, <1>10, <2>2, <3>1 DEF unit
  <2>3. CASE u = 2 * n + 2
    <3>1. (u + 1) \div 2 = n + 1 /\ u \in 1 .. 2 * (n + 1) /\ u % 2 = 0
      BY <1>1, <2>3
    <3>. QED  BY <1>1, <1>2, <1>7, <1>10, <2>3, <3>1 DEF unit
  <2>. QED  BY <1>1, <2>1, <2>2, <2>3
<1>12. c = UnitsOf(a)
  BY <1>9, <1>10, <1>11
<1>. QED  BY <1>6, <1>7, <1>12 DEF a, c

\* the units, cut anywhere, of records
LEMMA UnitsTail ==
    ASSUME NEW S, NEW rs \in Seq(S), NEW s \in Seq(UnitIn(S)), NEW t \in Seq(UnitIn(S)),
           s \o t = UnitsOf(rs), Len(s) >= 2
    PROVE  /\ rs # <<>> /\ s[1].of = rs[1] /\ SubSeq(s, 3, Len(s)) \in Seq(UnitIn(S))
           /\ SubSeq(s, 3, Len(s)) \o t = UnitsOf(Tail(rs))
<1>. DEFINE n == Len(rs)
            unit(x, u) == [part |-> IF u % 2 = 1 THEN "header" ELSE "body", of |-> x]
            a == Tail(rs)
            s3 == SubSeq(s, 3, Len(s))
            c == s \o t
            d == s3 \o t
<1>1. n \in Nat /\ (\A i \in 1 .. n : rs[i] \in S) /\ Len(s) \in Nat /\ Len(t) \in Nat
  OBVIOUS
<1>2. c = [u \in 1 .. 2 * n |-> unit(rs[(u + 1) \div 2], u)]
  BY <1>1 DEF UnitsOf
<1>3. /\ c \in Seq(UnitIn(S)) /\ Len(c) = Len(s) + Len(t)
      /\ \A i \in 1 .. Len(s) : c[i] = s[i]
      /\ \A i \in 1 .. Len(t) : c[Len(s) + i] = t[i]
  BY ONLY s \in Seq(UnitIn(S)), t \in Seq(UnitIn(S)), Joined
<1>4. /\ s3 \in Seq(UnitIn(S)) /\ Len(s3) = Len(s) - 2
      /\ \A i \in 1 .. Len(s) - 2 : s3[i] = s[3 + i - 1]
  <2>1. 3 \in Nat \ {0} /\ 3 <= Len(s) + 1 /\ Len(s) - 3 + 1 = Len(s) - 2
    BY <1>1
  <2>. QED  BY <2>1, Cut
<1>. HIDE DEF s3
<1>5. /\ d \in Seq(UnitIn(S)) /\ Len(d) = Len(s) - 2 + Len(t)
      /\ \A i \in 1 .. Len(s) - 2 : d[i] = s3[i]
      /\ \A i \in 1 .. Len(t) : d[Len(s) - 2 + i] = t[i]
  <2>1. /\ d \in Seq(UnitIn(S)) /\ Len(d) = Len(s3) + Len(t)
        /\ \A i \in 1 .. Len(s3) : d[i] = s3[i]
        /\ \A i \in 1 .. Len(t) : d[Len(s3) + i] = t[i]
    <3>1. s3 \in Seq(UnitIn(S)) /\ t \in Seq(UnitIn(S))
      BY <1>4
    <3>. QED  BY ONLY <3>1, Joined
  <2>. HIDE DEF d
  <2>. QED  BY <1>4, <2>1
<1>. HIDE DEF c, d
<1>6. Len(c) = 2 * n
  BY <1>1, <1>2
<1>7. n >= 1
  BY <1>1, <1>3, <1>6
<1>8. rs # <<>> /\ a \in Seq(S) /\ Len(a) = n - 1 /\ \A i \in 1 .. n - 1 : a[i] = rs[i + 1]
  BY <1>1, <1>7
<1>9. UnitsOf(a) = [u \in 1 .. 2 * (n - 1) |-> unit(a[(u + 1) \div 2], u)]
  BY <1>8 DEF UnitsOf
<1>. HIDE DEF unit, a
<1>10. s[1] = unit(rs[1], 1)
  <2>1. 1 \in 1 .. 2 * n /\ (1 + 1) \div 2 = 1 /\ 1 \in 1 .. Len(s)
    BY <1>1, <1>7
  <2>. QED  BY <1>2, <1>3, <2>1
<1>11. ASSUME NEW u \in 1 .. 2 * (n - 1) PROVE d[u] = c[u + 2]
  <2>1. CASE u \in 1 .. Len(s) - 2
    <3>1. u + 2 \in 1 .. Len(s)
      BY <1>1, <2>1
    <3>. QED  BY <1>1, <1>3, <1>4, <1>5, <2>1, <3>1
  <2>2. CASE u > Len(s) - 2
    <3>1. u - (Len(s) - 2) \in 1 .. Len(t)
          /\ Len(s) - 2 + (u - (Len(s) - 2)) = u /\ Len(s) + (u - (Len(s) - 2)) = u + 2
      BY <1>1, <1>3, <1>6, <2>2
    <3>. QED  BY <1>3, <1>5, <3>1
  <2>. QED  BY <1>1, <2>1, <2>2
<1>12. ASSUME NEW u \in 1 .. 2 * (n - 1) PROVE d[u] = unit(a[(u + 1) \div 2], u)
  <2>1. u + 2 \in 1 .. 2 * n /\ (u + 2 + 1) \div 2 = (u + 1) \div 2 + 1 /\ (u + 1) \div 2 \in 1 .. n - 1
        /\ u + 2 \in Nat
    BY <1>1
  <2>2. c[u + 2] = unit(rs[(u + 1) \div 2 + 1], u + 2)
    BY <1>2, <2>1
  <2>3. a[(u + 1) \div 2] = rs[(u + 1) \div 2 + 1]
    BY <1>8, <2>1
  <2>4. (u + 2) % 2 = u % 2
    BY <1>1
  <2>5. \A x : unit(x, u + 2) = unit(x, u)
    BY <2>4 DEF unit
  <2>. QED  BY <1>11, <2>2, <2>3, <2>5
<1>13. DOMAIN d = 1 .. 2 * (n - 1) /\ d = [u \in DOMAIN d |-> d[u]]
  BY <1>1, <1>3, <1>5, <1>6
<1>14. d = UnitsOf(a)
  BY <1>9, <1>12, <1>13
<1>15. s[1].of = rs[1]
  BY <1>10 DEF unit
<1>. QED  BY <1>4, <1>8, <1>14, <1>15 DEF a, d, s3

\* What is moved from the front of t to the end of s is neither lost nor changed.
Kept(U, s, t, n) ==
    /\ s \o SubSeq(t, 1, n) \in Seq(U) /\ SubSeq(t, n + 1, Len(t)) \in Seq(U)
    /\ (s \o SubSeq(t, 1, n)) \o SubSeq(t, n + 1, Len(t)) = s \o t

LEMMA ReadKeeps ==
    ASSUME NEW U, NEW s \in Seq(U), NEW t \in Seq(U), NEW n \in 0 .. Len(t)
    PROVE  Kept(U, s, t, n)
<1>. DEFINE a == SubSeq(t, 1, n)
            b == SubSeq(t, n + 1, Len(t))
            c == s \o a
            d == c \o b
            e == s \o t
<1>1. Len(t) \in Nat /\ Len(s) \in Nat /\ n \in Nat /\ n <= Len(t)
  OBVIOUS
<1>2. a \in Seq(U) /\ Len(a) = n /\ \A i \in 1 .. n : a[i] = t[i]
  BY <1>1
<1>3. b \in Seq(U) /\ Len(b) = Len(t) - n /\ \A i \in 1 .. Len(t) - n : b[i] = t[n + i]
  BY <1>1
<1>. HIDE DEF a, b
<1>4. /\ c \in Seq(U) /\ Len(c) = Len(s) + n /\ (\A i \in 1 .. Len(s) : c[i] = s[i])
      /\ \A i \in 1 .. n : c[Len(s) + i] = a[i]
  BY <1>1, <1>2
<1>. HIDE DEF c
<1>5. /\ d \in Seq(U) /\ Len(d) = Len(s) + Len(t) /\ (\A i \in 1 .. Len(s) + n : d[i] = c[i])
      /\ \A i \in 1 .. Len(t) - n : d[Len(s) + n + i] = b[i]
  <2>1. /\ d \in Seq(U) /\ Len(d) = Len(c) + Len(b) /\ (\A i \in 1 .. Len(c) : d[i] = c[i])
        /\ \A i \in 1 .. Len(b) : d[Len(c) + i] = b[i]
    <3>1. c \in Seq(U) /\ b \in Seq(U)
      BY <1>3, <1>4
    <3>. QED  BY ONLY <3>1, Joined
  <2>2. Len(s) + n + (Len(t) - n) = Len(s) + Len(t)
    BY <1>1
  <2>. HIDE DEF d
  <2>. QED  BY <1>3, <1>4, <2>1, <2>2
<1>6. /\ e \in Seq(U) /\ Len(e) = Len(s) + Len(t) /\ (\A i \in 1 .. Len(s) : e[i] = s[i])
      /\ \A i \in 1 .. Len(t) : e[Len(s) + i] = t[i]
  BY <1>1
<1>. HIDE DEF d, e
<1>7. ASSUME NEW i \in 1 .. Len(s) + Len(t) PROVE d[i] = e[i]
  <2>1. CASE i \in 1 .. Len(s)
    BY <1>1, <1>4, <1>5, <1>6, <2>1
  <2>2. CASE i \in Len(s) + 1 .. Len(s) + n
    <3>1. i - Len(s) \in 1 .. n /\ Len(s) + (i - Len(s)) = i /\ i - Len(s) \in 1 .. Len(t)
      BY <1>1, <2>2
    <3>. DEFINE k == i - Len(s)
    <3>2. k \in 1 .. n /\ Len(s) + k = i /\ k \in 1 .. Len(t) /\ i \in 1 .. Len(s) + n
      BY <1>1, <2>2, <3>1
    <3>. HIDE DEF k
    <3>3. d[i] = c[i] /\ c[i] = a[k] /\ a[k] = t[k] /\ e[i] = t[k]
      BY <1>2, <1>4, <1>5, <1>6, <3>2
    <3>. QED  BY <3>3
  <2>3. CASE i > Len(s) + n
    <3>. DEFINE k == i - (Len(s) + n)
    <3>1. k \in 1 .. Len(t) - n /\ Len(s) + n + k = i /\ n + k \in 1 .. Len(t)
          /\ Len(s) + (n + k) = i
      BY <1>1, <2>3
    <3>. HIDE DEF k
    <3>2. d[i] = b[k] /\ b[k] = t[n + k] /\ e[i] = t[n + k]
      BY <1>3, <1>5, <1>6, <3>1
    <3>. QED  BY <3>2
  <2>. QED  BY <1>1, <2>1, <2>2, <2>3
<1>8. d = e
  BY <1>5, <1>6, <1>7, SameSequence
<1>. QED  BY <1>3, <1>4, <1>8 DEF a, b, c, d, e, Kept

\* A record between the p first bytes and the q first bytes of the stream, the
\* h first halves of the ServerHello and the k first: how a server fills it.
Link(H, r, p, q, h, k) ==
    /\ p <= q
    /\ IF r.inner = "ApplicationData"
       THEN r.content.bytes = [i \in 1 .. q - p |-> p + i]
       ELSE q = p
    /\ r.typ # "ApplicationData" => r.inner = r.typ
    /\ IF r.typ = "Handshake"
       THEN r.content.halves \in Seq(H) /\ k = h + Len(r.content.halves)
       ELSE k = h
    /\ r.typ = "ApplicationData" => h = 2

Chain(H, rs, p, h) ==
    /\ p \in [0 .. Len(rs) -> Nat] /\ h \in [0 .. Len(rs) -> Nat]
    /\ \A i \in 1 .. Len(rs) : Link(H, rs[i], p[i - 1], p[i], h[i - 1], h[i])
    /\ \A i \in 0 .. Len(rs) : p[i] <= p[Len(rs)]

\* The units s and then t are those of the records rs, which lead from the a
\* first bytes to the b first, and from the x first halves to the y first.
Flown(H, S, rs, p, h, s, t, a, b, x, y) ==
    /\ rs \in Seq(S) /\ s \in Seq(UnitIn(S)) /\ t \in Seq(UnitIn(S))
    /\ s \o t = UnitsOf(rs)
    /\ Chain(H, rs, p, h)
    /\ p[0] = a /\ p[Len(rs)] = b /\ h[0] = x /\ h[Len(rs)] = y

InFlight(H, s, t, a, b, x, y) ==
    \E S, rs, p, h : Flown(H, S, rs, p, h, s, t, a, b, x, y)

LEMMA FlightStarts ==
    ASSUME NEW H
    PROVE  InFlight(H, <<>>, <<>>, 0, 0, 0, 0)
<1>. DEFINE z == [i \in 0 .. 0 |-> 0]
<1>1. z \in [0 .. 0 -> Nat] /\ z[0] = 0 /\ Len(<<>>) = 0 /\ <<>> \in Seq({}) /\ <<>> \in Seq(UnitIn({}))
  OBVIOUS
<1>. HIDE DEF z
<1>2. <<>> \o <<>> = UnitsOf(<<>>)
  BY DEF UnitsOf
<1>3. Chain(H, <<>>, z, z)
  BY <1>1 DEF Chain
<1>4. Flown(H, {}, <<>>, z, z, <<>>, <<>>, 0, 0, 0, 0)
  BY <1>1, <1>2, <1>3 DEF Flown
<1>. QED  BY <1>4 DEF InFlight

LEMMA FlightRead ==
    ASSUME NEW H, NEW s, NEW t, NEW a, NEW b, NEW x, NEW y, InFlight(H, s, t, a, b, x, y),
           NEW n \in 0 .. Len(t)
    PROVE  InFlight(H, s \o SubSeq(t, 1, n), SubSeq(t, n + 1, Len(t)), a, b, x, y)
<1>1. PICK S, rs, p, h : Flown(H, S, rs, p, h, s, t, a, b, x, y)
  BY DEF InFlight
<1>2. s \in Seq(UnitIn(S)) /\ t \in Seq(UnitIn(S))
  BY <1>1 DEF Flown
<1>. DEFINE s2 == s \o SubSeq(t, 1, n)
            t2 == SubSeq(t, n + 1, Len(t))
<1>3. s2 \in Seq(UnitIn(S)) /\ t2 \in Seq(UnitIn(S)) /\ s2 \o t2 = s \o t
  <2>1. Kept(UnitIn(S), s, t, n)
    BY <1>2, ReadKeeps
  <2>. QED  BY <2>1 DEF Kept
<1>. HIDE DEF s2, t2
<1>4. Flown(H, S, rs, p, h, s2, t2, a, b, x, y)
  BY <1>1, <1>3 DEF Flown
<1>. QED  BY <1>4 DEF InFlight, s2, t2

LEMMA FlightAppend ==
    ASSUME NEW H, NEW s, NEW t, NEW a, NEW b, NEW x, NEW y, InFlight(H, s, t, a, b, x, y),
           NEW b2 \in Nat, NEW y2 \in Nat, NEW r, Link(H, r, b, b2, y, y2)
    PROVE  InFlight(H, s, t \o Units(r), a, b2, x, y2)
<1>1. PICK S0, rs, p, h : Flown(H, S0, rs, p, h, s, t, a, b, x, y)
  BY DEF InFlight
<1>. DEFINE S == S0 \cup {r}
            n == Len(rs)
            t2 == t \o Units(r)
            rs2 == Append(rs, r)
            p2 == [i \in 0 .. n + 1 |-> IF i = n + 1 THEN b2 ELSE p[i]]
            h2 == [i \in 0 .. n + 1 |-> IF i = n + 1 THEN y2 ELSE h[i]]
<1>2. /\ rs \in Seq(S0) /\ s \in Seq(UnitIn(S0)) /\ t \in Seq(UnitIn(S0))
      /\ s \o t = UnitsOf(rs) /\ Chain(H, rs, p, h)
      /\ p[0] = a /\ p[n] = b /\ h[0] = x /\ h[n] = y
  BY <1>1 DEF Flown
<1>3. S0 \subseteq S /\ UnitIn(S0) \subseteq UnitIn(S) /\ r \in S
  BY DEF UnitIn
<1>. HIDE DEF S
<1>4. rs \in Seq(S) /\ s \in Seq(UnitIn(S)) /\ t \in Seq(UnitIn(S))
  BY <1>2, <1>3
<1>5. Units(r) \in Seq(UnitIn(S)) /\ UnitsOf(rs) \o Units(r) = UnitsOf(rs2)
  BY <1>3, <1>4, UnitsAppend
<1>6. t2 \in Seq(UnitIn(S)) /\ s \o t2 = (s \o t) \o Units(r)
  BY ONLY <1>4, <1>5
<1>7. s \o t2 = UnitsOf(rs2)
  BY <1>2, <1>5, <1>6, Zenon
<1>8. /\ n \in Nat /\ rs2 \in Seq(S) /\ Len(rs2) = n + 1 /\ rs2[n + 1] = r
      /\ \A i \in 1 .. n : rs2[i] = rs[i]
  BY <1>3, <1>4
<1>9. /\ p \in [0 .. n -> Nat] /\ h \in [0 .. n -> Nat]
      /\ \A i \in 1 .. n : Link(H, rs[i], p[i - 1], p[i], h[i - 1], h[i])
      /\ \A i \in 0 .. n : p[i] <= b
  BY <1>2 DEF Chain
<1>. HIDE DEF n, rs2, t2
<1>10. /\ p2 \in [0 .. n + 1 -> Nat] /\ h2 \in [0 .. n + 1 -> Nat]
       /\ p2[n + 1] = b2 /\ h2[n + 1] = y2
       /\ \A i \in 0 .. n : p2[i] = p[i] /\ h2[i] = h[i]
  BY <1>8, <1>9
<1>. HIDE DEF p2, h2
<1>11. b <= b2 /\ b \in Nat
  BY <1>2, <1>8, <1>9 DEF Link
<1>12. ASSUME NEW i \in 1 .. n + 1
       PROVE  Link(H, rs2[i], p2[i - 1], p2[i], h2[i - 1], h2[i])
  <2>1. CASE i \in 1 .. n
    <3>1. i \in 0 .. n /\ i - 1 \in 0 .. n
      BY <1>8, <2>1
    <3>2. /\ rs2[i] = rs[i] /\ p2[i - 1] = p[i - 1] /\ p2[i] = p[i] /\ h2[i - 1] = h[i - 1]
          /\ h2[i] = h[i]
      BY <1>8, <1>10, <2>1, <3>1
    <3>. QED  BY <1>9, <2>1, <3>2
  <2>2. CASE i = n + 1
    <3>1. i - 1 = n /\ n \in 0 .. n
      BY <1>8, <2>2
    <3>2. /\ rs2[i] = r /\ p2[i - 1] = b /\ p2[i] = b2 /\ h2[i - 1] = y /\ h2[i] = y2
      BY <1>2, <1>8, <1>10, <2>2, <3>1
    <3>. QED  BY <3>2
  <2>. QED  BY <1>8, <2>1, <2>2
<1>13. \A i \in 0 .. n + 1 : p2[i] <= p2[n + 1]
  <2>. TAKE i \in 0 .. n + 1
  <2>1. CASE i \in 0 .. n
    <3>1. p2[i] \in Nat /\ p2[i] <= b
      BY <1>9, <1>10, <2>1
    <3>. QED  BY <1>10, <1>11, <3>1
  <2>2. CASE i = n + 1
    BY <1>10, <2>2
  <2>. QED  BY <1>8, <2>1, <2>2
<1>14. Chain(H, rs2, p2, h2)
  BY <1>8, <1>10, <1>12, <1>13 DEF Chain
<1>15. p2[0] = a /\ h2[0] = x
  BY <1>2, <1>8, <1>10
<1>16. Flown(H, S, rs2, p2, h2, s, t2, a, b2, x, y2)
  BY <1>4, <1>6, <1>7, <1>8, <1>10, <1>14, <1>15 DEF Flown
<1>. QED  BY <1>16 DEF InFlight, t2

LEMMA FlightTail ==
    ASSUME NEW H, NEW s, NEW t, NEW a, NEW b, NEW x, NEW y, InFlight(H, s, t, a, b, x, y),
           Len(s) >= 2
    PROVE  \E a2, x2 \in Nat :
              /\ Link(H, s[1].of, a, a2, x, x2) /\ a2 <= b
              /\ InFlight(H, SubSeq(s, 3, Len(s)), t, a2, b, x2, y)
<1>1. PICK S, rs, p, h : Flown(H, S, rs, p, h, s, t, a, b, x, y)
  BY DEF InFlight
<1>. DEFINE n == Len(rs)
            s2 == SubSeq(s, 3, Len(s))
            rs2 == Tail(rs)
            p2 == [i \in 0 .. n - 1 |-> p[i + 1]]
            h2 == [i \in 0 .. n - 1 |-> h[i + 1]]
<1>2. /\ rs \in Seq(S) /\ s \in Seq(UnitIn(S)) /\ t \in Seq(UnitIn(S))
      /\ s \o t = UnitsOf(rs) /\ Chain(H, rs, p, h)
      /\ p[0] = a /\ p[n] = b /\ h[0] = x /\ h[n] = y
  BY <1>1 DEF Flown
<1>3. rs # <<>> /\ s[1].of = rs[1] /\ s2 \in Seq(UnitIn(S)) /\ s2 \o t = UnitsOf(rs2)
  BY <1>2, UnitsTail
<1>4. /\ n \in Nat /\ n >= 1 /\ rs2 \in Seq(S) /\ Len(rs2) = n - 1
      /\ \A i \in 1 .. n - 1 : rs2[i] = rs[i + 1]
  BY <1>2, <1>3
<1>5. /\ p \in [0 .. n -> Nat] /\ h \in [0 .. n -> Nat]
      /\ \A i \in 1 .. n : Link(H, rs[i], p[i - 1], p[i], h[i - 1], h[i])
      /\ \A i \in 0 .. n : p[i] <= b
  BY <1>2 DEF Chain
<1>. HIDE DEF n, rs2, s2
<1>6. /\ p2 \in [0 .. n - 1 -> Nat] /\ h2 \in [0 .. n - 1 -> Nat]
      /\ \A i \in 0 .. n - 1 : p2[i] = p[i + 1] /\ h2[i] = h[i + 1]
  <2>1. \A i \in 0 .. n - 1 : i + 1 \in 0 .. n
    BY <1>4
  <2>2. \A i \in 0 .. n - 1 : p[i + 1] \in Nat /\ h[i + 1] \in Nat
    BY <1>5, <2>1
  <2>. QED  BY <2>2
<1>. HIDE DEF p2, h2
<1>7. p2[n - 1] = b /\ h2[n - 1] = y /\ p2[0] = p[1] /\ h2[0] = h[1]
      /\ p[1] \in Nat /\ h[1] \in Nat /\ p[1] <= b
  <2>1. n - 1 \in 0 .. n - 1 /\ n - 1 + 1 = n /\ 0 \in 0 .. n - 1 /\ 0 + 1 = 1 /\ 1 \in 0 .. n
    BY <1>4
  <2>2. p2[n - 1] = p[n - 1 + 1] /\ h2[n - 1] = h[n - 1 + 1] /\ p2[0] = p[0 + 1] /\ h2[0] = h[0 + 1]
    BY <1>6, <2>1
  <2>. QED  BY <1>2, <1>5, <2>1, <2>2
<1>8. Link(H, s[1].of, a, p[1], x, h[1])
  <2>1. 1 \in 1 .. n /\ 1 - 1 = 0
    BY <1>4
  <2>. QED  BY <1>2, <1>3, <1>5, <2>1
<1>9. ASSUME NEW i \in 1 .. n - 1
      PROVE  Link(H, rs2[i], p2[i - 1], p2[i], h2[i - 1], h2[i])
  <2>1. i \in 0 .. n - 1 /\ i - 1 \in 0 .. n - 1 /\ i - 1 + 1 = i /\ i + 1 \in 1 .. n /\ i + 1 - 1 = i
    BY <1>4
  <2>2. /\ rs2[i] = rs[i + 1] /\ p2[i - 1] = p[i] /\ p2[i] = p[i + 1] /\ h2[i - 1] = h[i]
        /\ h2[i] = h[i + 1]
    BY <1>4, <1>6, <2>1
  <2>3. Link(H, rs[i + 1], p[i + 1 - 1], p[i + 1], h[i + 1 - 1], h[i + 1])
    BY <1>5, <2>1
  <2>. QED  BY <2>1, <2>2, <2>3
<1>10. \A i \in 0 .. n - 1 : p2[i] <= p2[n - 1]
  <2>. TAKE i \in 0 .. n - 1
  <2>1. i + 1 \in 0 .. n
    BY <1>4
  <2>. QED  BY <1>5, <1>6, <1>7, <2>1
<1>11. Chain(H, rs2, p2, h2)
  BY <1>4, <1>6, <1>9, <1>10 DEF Chain
<1>12. Flown(H, S, rs2, p2, h2, s2, t, p[1], b, h[1], y)
  BY <1>2, <1>3, <1>4, <1>7, <1>11 DEF Flown
<1>13. InFlight(H, s2, t, p[1], b, h[1], y)
  BY <1>12 DEF InFlight
<1>. QED  BY <1>7, <1>8, <1>13 DEF s2

-----------------------------------------------------------------------------
(* The stream, by the actions. *)

Hello == [name |-> "ServerHello", hello |-> cfg.hello]
HelloHalves == [half : {1, 2}, of : {Hello}]

Phases == {"wait", "hello", "flight", "sent", "open", "failed"}

ServerFields == {"phase", "script", "send", "recv", "got", "closed", "posts"}

\* There is a key.
Keyed(state) ==
    /\ state.key = [label |-> state.key.label, transcript |-> state.key.transcript,
                    generation |-> state.key.generation]
    /\ state.key.label # "none"

LEMMA KeyedIsEnabled ==
    ASSUME NEW s, Keyed(s)
    PROVE  s.key # NoKey
<1>1. NoKey.label = "none"
  BY DEF NoKey
<1>. QED  BY <1>1 DEF Keyed

LEMMA KeyedNext ==
    ASSUME NEW s, Keyed(s)
    PROVE  Keyed(Advanced(s)) /\ Keyed(Updated(s))
<1>. DEFINE k == [s.key EXCEPT !.generation = @ + 1]
<1>1. k = [label |-> s.key.label, transcript |-> s.key.transcript, generation |-> s.key.generation + 1]
  BY DEF Keyed
<1>. HIDE DEF k
<1>2. Keyed(Fresh(k))
  <2>1. Fresh(k).key = k
    BY DEF Fresh, Numbered
  <2>2. k = [label |-> k.label, transcript |-> k.transcript, generation |-> k.generation]
        /\ k.label = s.key.label
    BY <1>1
  <2>. QED  BY <2>1, <2>2 DEF Keyed
<1>3. Updated(s) = Fresh(k)
  BY DEF Updated, k
<1>4. Advanced(s).key = s.key
  BY DEF Advanced, AdvancedBy, Numbered
<1>5. Keyed(Advanced(s))
  BY <1>4 DEF Keyed
<1>. QED  BY <1>2, <1>3, <1>5

LEMMA DerivedIsKeyed ==
    ASSUME NEW label, NEW m, label # "none"
    PROVE  Keyed(Fresh(Derived(label, m)))
<1>1. Fresh(Derived(label, m)).key = [label |-> label, transcript |-> m, generation |-> 0]
  BY DEF Fresh, Numbered, Derived
<1>. QED  BY <1>1 DEF Keyed

\* how much of its ServerHello the server sent
HellosSent ==
    IF server.phase = "wait" THEN 0
    ELSE IF server.phase = "hello" THEN 2 - Len(server.script) ELSE 2

ServerInv ==
    /\ DOMAIN server = ServerFields /\ server = [f \in ServerFields |-> server[f]]
    /\ server.phase \in Phases
    /\ server.phase \in {"wait", "hello"} => server.send.key = NoKey
    /\ server.phase \in {"flight", "sent", "open"} => Keyed(server.send)
    /\ server.phase = "hello" => server.script \in Seq(HelloHalves) /\ Len(server.script) <= 2
    /\ server.phase = "failed" => server.closed

\* The first bytes of the stream were read, or wait to be.
InOrder ==
    /\ sent \in Seq(Nat) /\ got \in Seq(Nat) /\ data \in Seq(Nat)
    /\ sent = FirstBytes(Len(sent))
    /\ got \o data = FirstBytes(Len(got) + Len(data))
    /\ Len(got) + Len(data) <= Len(sent)

Processes == processing => pc \in {"handshake", "open"} /\ st # "err"

Greeting == {"Start", "WaitServerHello"}

\* What is to come are the bytes that follow, and before the handshake keys the
\* rest of the ServerHello.
ToCome ==
    \E x \in Nat :
        /\ InFlight(HelloHalves, input, toClient, Len(got) + Len(data), Len(sent), x, HellosSent)
        /\ st \in Greeting =>
              /\ x = 2 * Len(decoded) + Len(hs)
              /\ Len(decoded) \in Nat /\ hs \in Seq(HelloHalves) /\ Len(hs) <= 1

StreamInv == ServerInv /\ InOrder /\ Processes /\ (st # "err" => ToCome)

\* A step that reads nothing and sends nothing to the client.
LEMMA QuietKeeps ==
    ASSUME StreamInv, UNCHANGED <<input, toClient, got, data, sent, cfg>>, HellosSent' = HellosSent,
           st' = "err" \/ (st # "err" /\ st' \notin Greeting) \/ (st' \in Greeting /\ st \in Greeting
                                                /\ UNCHANGED <<decoded, hs>>),
           ServerInv', Processes'
    PROVE  StreamInv'
<1>1. HelloHalves' = HelloHalves
  BY DEF HelloHalves, Hello
<1>2. InOrder'
  BY DEF StreamInv, InOrder
<1>3. ASSUME st' # "err" PROVE ToCome'
  <2>1. st # "err"
    BY <1>3 DEF Greeting
  <2>2. ToCome
    BY <2>1 DEF StreamInv
  <2>. QED  BY <1>1, <1>3, <2>2 DEF ToCome
<1>. QED  BY <1>2, <1>3 DEF StreamInv

\* An error drops what was to come.
LEMMA ErrorKeeps ==
    ASSUME StreamInv, st' = "err", ~processing', UNCHANGED <<got, data, sent, server, cfg>>
    PROVE  StreamInv'
<1>1. InOrder' /\ Processes'
  BY DEF StreamInv, InOrder, Processes
<1>2. ServerInv'
  BY DEF StreamInv, ServerInv, HelloHalves, Hello
<1>. QED  BY <1>1, <1>2 DEF StreamInv

\* A record that the server sends.
LEMMA LoudKeeps ==
    ASSUME StreamInv, UNCHANGED <<pc, st, processing, input, got, data, decoded, hs, cfg>>,
           NEW r, toClient' = toClient \o Units(r), InOrder', ServerInv', HellosSent' \in Nat,
           st # "err" => Link(HelloHalves, r, Len(sent), Len(sent'), HellosSent, HellosSent')
    PROVE  StreamInv'
<1>1. HelloHalves' = HelloHalves
  BY DEF HelloHalves, Hello
<1>2. Processes'
  BY DEF StreamInv, Processes
<1>3. ASSUME st' # "err" PROVE ToCome'
  <2>1. ToCome
    BY <1>3 DEF StreamInv
  <2>2. PICK x \in Nat :
           /\ InFlight(HelloHalves, input, toClient, Len(got) + Len(data), Len(sent), x, HellosSent)
           /\ st \in Greeting =>
                 /\ x = 2 * Len(decoded) + Len(hs)
                 /\ Len(decoded) \in Nat /\ hs \in Seq(HelloHalves) /\ Len(hs) <= 1
    BY <2>1 DEF ToCome
  <2>3. Len(sent') \in Nat
    BY DEF InOrder
  <2>4. InFlight(HelloHalves, input, toClient \o Units(r), Len(got) + Len(data), Len(sent'), x,
                 HellosSent')
    BY <1>3, <2>2, <2>3, FlightAppend
  <2>5. InFlight(HelloHalves, input, toClient, Len(got) + Len(data), Len(sent), x, HellosSent)'
    BY <1>1, <2>4
  <2>. QED  BY <1>1, <2>2, <2>5 DEF ToCome
<1>. QED  BY <1>2, <1>3 DEF StreamInv

LEMMA SealedFields ==
    ASSUME NEW state, NEW typ, NEW c
    PROVE  /\ Sealed(state, typ, c).inner = typ /\ Sealed(state, typ, c).content = c
           /\ Sealed(state, typ, c).typ = IF Enabled(state) THEN "ApplicationData" ELSE typ
BY DEF Sealed

LEMMA FirstBytesSum ==
    ASSUME NEW n \in Nat, NEW m \in Nat
    PROVE  FirstBytes(n) \o [i \in 1 .. m |-> n + i] = FirstBytes(n + m)
<1>. DEFINE a == FirstBytes(n)
            b == [i \in 1 .. m |-> n + i]
            c == a \o b
            d == FirstBytes(n + m)
<1>1. a \in Seq(Nat) /\ Len(a) = n /\ \A i \in 1 .. n : a[i] = i
  BY DEF FirstBytes
<1>2. b \in Seq(Nat) /\ Len(b) = m /\ \A i \in 1 .. m : b[i] = n + i
  OBVIOUS
<1>3. d \in Seq(Nat) /\ Len(d) = n + m /\ \A i \in 1 .. n + m : d[i] = i
  BY DEF FirstBytes
<1>. HIDE DEF a, b, d
<1>4. /\ c \in Seq(Nat) /\ Len(c) = Len(a) + Len(b) /\ (\A i \in 1 .. Len(a) : c[i] = a[i])
      /\ \A i \in 1 .. Len(b) : c[Len(a) + i] = b[i]
  <2>1. a \in Seq(Nat) /\ b \in Seq(Nat)
    BY <1>1, <1>2
  <2>. QED  BY ONLY <2>1, Joined
<1>. HIDE DEF c
<1>5. ASSUME NEW i \in 1 .. n + m PROVE c[i] = d[i]
  <2>1. CASE i \in 1 .. n
    BY <1>1, <1>3, <1>4, <2>1
  <2>2. CASE i > n
    <3>. DEFINE k == i - n
    <3>1. k \in 1 .. m /\ n + k = i
      BY <2>2
    <3>. HIDE DEF k
    <3>2. c[i] = b[k] /\ b[k] = n + k
      BY <1>1, <1>2, <1>4, <3>1
    <3>. QED  BY <1>3, <3>1, <3>2
  <2>. QED  BY <2>1, <2>2
<1>6. c = d
  BY <1>1, <1>2, <1>3, <1>4, <1>5, SameSequence
<1>. QED  BY <1>6 DEF a, b, c, d

-----------------------------------------------------------------------------
(* The server's steps. *)

\* What all of its steps leave alone.
Still == UNCHANGED <<pc, st, processing, input, got, data, decoded, hs, cfg>>

LEMMA AnswersKeeps ==
    ASSUME StreamInv, ServerAnswers
    PROVE  StreamInv'
<1>1. Still /\ UNCHANGED <<toClient, sent>> /\ server.phase = "wait"
      /\ server' = [server EXCEPT !.phase = "hello", !.script = Halves(Hello)]
  BY DEF ServerAnswers, Still, connection, app, Hello
<1>2. DOMAIN server = ServerFields /\ server = [f \in ServerFields |-> server[f]]
      /\ server.send.key = NoKey
  BY <1>1 DEF StreamInv, ServerInv
<1>3. /\ server'.phase = "hello" /\ server'.script = Halves(Hello) /\ server'.send = server.send
      /\ DOMAIN server' = ServerFields /\ server' = [f \in ServerFields |-> server'[f]]
  BY <1>1, <1>2 DEF ServerFields
<1>4. Halves(Hello) \in Seq(HelloHalves) /\ Len(Halves(Hello)) = 2
  BY DEF Halves, HelloHalves
<1>5. HelloHalves' = HelloHalves
  BY <1>1 DEF HelloHalves, Hello, Still
<1>6. ServerInv'
  BY <1>2, <1>3, <1>4, <1>5 DEF ServerInv, Phases
<1>7. HellosSent' = HellosSent
  BY <1>1, <1>3, <1>4 DEF HellosSent
<1>8. Processes' /\ (st' = "err" \/ (st' \notin Greeting /\ st # "err") \/ st' \in Greeting)
  BY <1>1 DEF StreamInv, Processes, Still
<1>. QED  BY <1>1, <1>6, <1>7, <1>8, QuietKeeps DEF Still

LEMMA EndsFlightKeeps ==
    ASSUME StreamInv, ServerEndsFlight
    PROVE  StreamInv'
<1>. DEFINE k == Fresh(Derived("s ap traffic", ServerTranscript(Len(cfg.flight) + 1)))
<1>1. Still /\ UNCHANGED <<toClient, sent>> /\ server.phase = "flight"
      /\ server' = [server EXCEPT !.phase = "sent", !.send = k]
  BY DEF ServerEndsFlight, Still, connection, app
<1>2. DOMAIN server = ServerFields /\ server = [f \in ServerFields |-> server[f]]
  BY <1>1 DEF StreamInv, ServerInv
<1>3. Keyed(k)
  BY DerivedIsKeyed
<1>. HIDE DEF k
<1>4. /\ server'.phase = "sent" /\ server'.send = k
      /\ DOMAIN server' = ServerFields /\ server' = [f \in ServerFields |-> server'[f]]
  BY <1>1, <1>2 DEF ServerFields
<1>6. ServerInv'
  BY <1>3, <1>4 DEF ServerInv, Phases
<1>7. HellosSent' = HellosSent
  BY <1>1, <1>4 DEF HellosSent
<1>8. Processes' /\ (st' = "err" \/ (st' \notin Greeting /\ st # "err") \/ st' \in Greeting)
  BY <1>1 DEF StreamInv, Processes, Still
<1>. QED  BY <1>1, <1>6, <1>7, <1>8, QuietKeeps DEF Still

LEMMA StartsFlightKeeps ==
    ASSUME StreamInv, ServerStartsFlight
    PROVE  StreamInv'
<1>. DEFINE k == Fresh(Derived("s hs traffic", Hellos))
            r == Sealed(Disabled, "ChangeCipherSpec", Handshakes(<<>>))
<1>1. Still /\ UNCHANGED sent /\ server.phase = "hello" /\ server.script = <<>>
      /\ toClient' = toClient \o Units(r)
  BY DEF ServerStartsFlight, Still, connection, app
<1>2. DOMAIN server = ServerFields /\ server = [f \in ServerFields |-> server[f]]
  BY <1>1 DEF StreamInv, ServerInv
<1>3. Keyed(k)
  BY DerivedIsKeyed
<1>4. \E script, recv : server' = [server EXCEPT !.phase = "flight", !.script = script,
                                                 !.send = k, !.recv = recv]
  BY DEF ServerStartsFlight
<1>. HIDE DEF k
<1>5. /\ server'.phase = "flight" /\ server'.send = k
      /\ DOMAIN server' = ServerFields /\ server' = [f \in ServerFields |-> server'[f]]
  BY <1>2, <1>4 DEF ServerFields
<1>6. ServerInv'
  BY <1>3, <1>5 DEF ServerInv, Phases
<1>7. HellosSent' = 2 /\ HellosSent = 2
  BY <1>1, <1>5 DEF HellosSent
<1>8. r.typ = "ChangeCipherSpec" /\ r.inner = "ChangeCipherSpec"
  BY SealedFields DEF Disabled, Enabled, Fresh, Numbered
<1>. HIDE DEF r
<1>9. Len(sent) \in Nat /\ InOrder'
  BY <1>1 DEF StreamInv, InOrder, Still
<1>10. Link(HelloHalves, r, Len(sent), Len(sent'), HellosSent, HellosSent')
  BY <1>1, <1>7, <1>8, <1>9 DEF Link
<1>. QED  BY <1>1, <1>6, <1>7, <1>9, <1>10, LoudKeeps DEF Still

LEMMA SendsHandshakeKeeps ==
    ASSUME StreamInv, NEW n \in Packings, ServerSendsHandshake(n)
    PROVE  StreamInv'
<1>. DEFINE m == IF n < Len(server.script) THEN n ELSE Len(server.script)
            r == Sealed(server.send, "Handshake", Handshakes(SubSeq(server.script, 1, m)))
            rest == SubSeq(server.script, m + 1, Len(server.script))
<1>1. Still /\ UNCHANGED sent /\ server.phase \in {"hello", "flight"}
      /\ toClient' = toClient \o Units(r)
  BY DEF ServerSendsHandshake, Still, connection, app
<1>2. DOMAIN server = ServerFields /\ server = [f \in ServerFields |-> server[f]]
  BY <1>1 DEF StreamInv, ServerInv
<1>3. server' = [server EXCEPT !.send = Advanced(@), !.script = rest]
  BY DEF ServerSendsHandshake
<1>4. r.typ = (IF Enabled(server.send) THEN "ApplicationData" ELSE "Handshake")
      /\ r.inner = "Handshake" /\ r.content.halves = SubSeq(server.script, 1, m)
  BY SealedFields DEF Handshakes
<1>. HIDE DEF r
<1>5. /\ server'.phase = server.phase /\ server'.send = Advanced(server.send)
      /\ server'.script = rest
      /\ DOMAIN server' = ServerFields /\ server' = [f \in ServerFields |-> server'[f]]
  <2>. HIDE DEF rest
  <2>. QED  BY <1>2, <1>3 DEF ServerFields
<1>6. Advanced(server.send).key = server.send.key
      /\ (Keyed(server.send) => Keyed(Advanced(server.send)))
  BY KeyedNext DEF Advanced, AdvancedBy, Numbered
<1>7. Len(sent) \in Nat /\ InOrder'
  BY <1>1 DEF StreamInv, InOrder, Still
<1>8. HelloHalves' = HelloHalves
  BY <1>1 DEF HelloHalves, Hello, Still
<1>9. CASE server.phase = "hello"
  <2>1. /\ server.script \in Seq(HelloHalves) /\ Len(server.script) \in Nat
        /\ Len(server.script) <= 2 /\ server.send.key = NoKey
    BY <1>9 DEF StreamInv, ServerInv
  <2>2. n \in Nat \ {0}
    BY TlsAssumption
  <2>3. m \in Nat /\ m <= Len(server.script)
    BY <2>1, <2>2
  <2>. HIDE DEF m
  <2>4. /\ SubSeq(server.script, 1, m) \in Seq(HelloHalves) /\ Len(SubSeq(server.script, 1, m)) = m
        /\ rest \in Seq(HelloHalves) /\ Len(rest) = Len(server.script) - m
    <3>. DEFINE script == server.script
    <3>1. script \in Seq(HelloHalves) /\ m \in 0 .. Len(script)
      BY <2>1, <2>3
    <3>. HIDE DEF script
    <3>2. /\ SubSeq(script, 1, m) \in Seq(HelloHalves) /\ Len(SubSeq(script, 1, m)) = m
          /\ SubSeq(script, m + 1, Len(script)) \in Seq(HelloHalves)
          /\ Len(SubSeq(script, m + 1, Len(script))) = Len(script) - m
      BY ONLY <3>1
    <3>. QED  BY <3>2 DEF script
  <2>. HIDE DEF rest
  <2>5. ServerInv'
    BY <1>5, <1>6, <1>8, <1>9, <2>1, <2>3, <2>4 DEF ServerInv, Phases
  <2>6. HellosSent = 2 - Len(server.script) /\ HellosSent' = HellosSent + m
        /\ HellosSent' \in Nat
    <3>1. HellosSent = 2 - Len(server.script) /\ HellosSent' = 2 - Len(rest)
      BY <1>5, <1>9 DEF HellosSent
    <3>. QED  BY <2>1, <2>3, <2>4, <3>1
  <2>7. ~Enabled(server.send)
    BY <2>1 DEF Enabled
  <2>8. Link(HelloHalves, r, Len(sent), Len(sent'), HellosSent, HellosSent')
    BY <1>1, <1>4, <1>7, <2>4, <2>6, <2>7 DEF Link
  <2>9. UNCHANGED <<pc, st, processing, input, got, data, decoded, hs, cfg>>
        /\ toClient' = toClient \o Units(r)
    BY <1>1 DEF Still
  <2>. QED  BY <1>7, <2>5, <2>6, <2>8, <2>9, LoudKeeps
<1>10. CASE server.phase = "flight"
  <2>1. Keyed(server.send) /\ server.send.key # NoKey
    BY <1>10, KeyedIsEnabled DEF StreamInv, ServerInv
  <2>2. ServerInv'
    BY <1>5, <1>6, <1>10, <2>1 DEF ServerInv, Phases
  <2>3. HellosSent = 2 /\ HellosSent' = 2
    BY <1>5, <1>10 DEF HellosSent
  <2>4. Link(HelloHalves, r, Len(sent), Len(sent'), HellosSent, HellosSent')
    BY <1>1, <1>4, <1>7, <2>1, <2>3 DEF Link, Enabled
  <2>. QED  BY <1>1, <1>7, <2>2, <2>3, <2>4, LoudKeeps DEF Still
<1>. QED  BY <1>1, <1>9, <1>10

\* A record of an open connection.
LEMMA PostKeeps ==
    ASSUME StreamInv, Still, server.phase \in {"sent", "open"}, ServerInv',
           server'.phase \in {"sent", "open", "failed"}, NEW typ \in {"Handshake", "Alert"}, NEW c,
           toClient' = toClient \o Units(Sealed(server.send, typ, c)), UNCHANGED sent
    PROVE  StreamInv'
<1>. DEFINE r == Sealed(server.send, typ, c)
<1>1. server.send.key # NoKey
  BY KeyedIsEnabled DEF StreamInv, ServerInv
<1>2. r.typ = "ApplicationData" /\ r.inner = typ
  BY <1>1, SealedFields DEF Enabled
<1>. HIDE DEF r
<1>3. HellosSent = 2 /\ HellosSent' = 2
  BY DEF HellosSent
<1>4. Len(sent) \in Nat /\ InOrder'
  BY DEF StreamInv, InOrder, Still
<1>5. Link(HelloHalves, r, Len(sent), Len(sent'), HellosSent, HellosSent')
  BY <1>2, <1>3, <1>4 DEF Link
<1>6. toClient' = toClient \o Units(r)
  BY DEF r
<1>. QED  BY <1>3, <1>4, <1>5, <1>6, LoudKeeps DEF Still

LEMMA SendsDataKeeps ==
    ASSUME StreamInv, NEW n \in {1, 2}, ServerSendsData(n)
    PROVE  StreamInv' /\ Len(sent') = Len(sent) + n /\ UNCHANGED got
<1>. DEFINE bytes == [i \in 1 .. n |-> Len(sent) + i]
            r == Sealed(server.send, "ApplicationData", Data(bytes))
<1>1. /\ Still /\ server.phase \in {"sent", "open"} /\ sent' = sent \o bytes
      /\ toClient' = toClient \o Units(r)
      /\ server' = [server EXCEPT !.send = Advanced(@), !.posts = @ + 1]
  BY DEF ServerSendsData, ServerIsOpen, Still, connection, app
<1>2. DOMAIN server = ServerFields /\ server = [f \in ServerFields |-> server[f]]
      /\ Keyed(server.send) /\ server.send.key # NoKey
  BY <1>1, KeyedIsEnabled DEF StreamInv, ServerInv
<1>3. r.typ = "ApplicationData" /\ r.inner = "ApplicationData" /\ r.content.bytes = bytes
  BY <1>2, SealedFields DEF Enabled, Data
<1>. HIDE DEF r
<1>4. /\ server'.phase = server.phase /\ server'.send = Advanced(server.send)
      /\ DOMAIN server' = ServerFields /\ server' = [f \in ServerFields |-> server'[f]]
  BY <1>1, <1>2 DEF ServerFields
<1>5. Keyed(Advanced(server.send)) /\ Keyed(Updated(server.send))
  BY <1>2, KeyedNext
<1>6. ServerInv'
  BY <1>1, <1>2, <1>4, <1>5 DEF ServerInv, Phases
<1>7. HellosSent = 2 /\ HellosSent' = 2
  BY <1>1, <1>4 DEF HellosSent
<1>8. InOrder
  BY DEF StreamInv
<1>9. Len(sent) \in Nat /\ n \in Nat /\ bytes \in Seq(Nat) /\ Len(bytes) = n
  BY <1>8 DEF InOrder
<1>10. sent' \in Seq(Nat) /\ Len(sent') = Len(sent) + n /\ sent' = FirstBytes(Len(sent) + n)
  <2>1. sent' = FirstBytes(Len(sent) + n)
    BY <1>1, <1>8, <1>9, FirstBytesSum DEF InOrder
  <2>2. FirstBytes(Len(sent) + n) \in Seq(Nat) /\ Len(FirstBytes(Len(sent) + n)) = Len(sent) + n
    BY <1>9 DEF FirstBytes
  <2>. QED  BY <2>1, <2>2
<1>. HIDE DEF bytes
<1>11. InOrder'
  <2>1. /\ got \in Seq(Nat) /\ data \in Seq(Nat) /\ got' = got /\ data' = data
        /\ got \o data = FirstBytes(Len(got) + Len(data)) /\ Len(got) + Len(data) <= Len(sent)
    BY <1>1, <1>8 DEF InOrder, Still
  <2>2. Len(got) + Len(data) <= Len(sent')
    BY <1>9, <1>10, <2>1
  <2>3. sent' = FirstBytes(Len(sent'))
    BY <1>10
  <2>. QED  BY <1>10, <2>1, <2>2, <2>3 DEF InOrder
<1>12. Link(HelloHalves, r, Len(sent), Len(sent'), HellosSent, HellosSent')
  <2>1. Len(sent') - Len(sent) = n /\ Len(sent) <= Len(sent')
    BY <1>9, <1>10
  <2>2. r.content.bytes = [i \in 1 .. Len(sent') - Len(sent) |-> Len(sent) + i]
    BY <1>3, <2>1 DEF bytes
  <2>. QED  BY <1>3, <1>7, <2>1, <2>2 DEF Link
<1>13. StreamInv'
  BY <1>1, <1>6, <1>7, <1>11, <1>12, LoudKeeps DEF Still
<1>. QED  BY <1>1, <1>10, <1>13 DEF Still

LEMMA PostsKeep ==
    ASSUME StreamInv,
           ServerSendsTicket \/ (\E request \in BOOLEAN : ServerUpdatesKey(request))
    PROVE  StreamInv' /\ UNCHANGED <<sent, got>>
<1>1. /\ Still /\ server.phase = "open" /\ UNCHANGED sent
      /\ \E c : toClient' = toClient \o Units(Sealed(server.send, "Handshake", c))
  BY DEF ServerSendsTicket, ServerUpdatesKey, Still, connection, app
<1>2. DOMAIN server = ServerFields /\ server = [f \in ServerFields |-> server[f]]
      /\ Keyed(server.send) /\ server.send.key # NoKey
  BY <1>1, KeyedIsEnabled DEF StreamInv, ServerInv
<1>3. \/ server' = [server EXCEPT !.send = Advanced(@), !.posts = @ + 1]
      \/ server' = [server EXCEPT !.send = Updated(@), !.posts = @ + 1]
  BY DEF ServerSendsTicket, ServerUpdatesKey
<1>4. /\ server'.phase = server.phase
      /\ server'.send \in {Advanced(server.send), Updated(server.send)}
      /\ DOMAIN server' = ServerFields /\ server' = [f \in ServerFields |-> server'[f]]
  BY <1>2, <1>3 DEF ServerFields
<1>5. Keyed(Advanced(server.send)) /\ Keyed(Updated(server.send))
  BY <1>2, KeyedNext
<1>6. ServerInv'
  BY <1>1, <1>4, <1>5 DEF ServerInv, Phases
<1>7. PICK c : toClient' = toClient \o Units(Sealed(server.send, "Handshake", c))
  BY <1>1
<1>8. server.phase \in {"sent", "open"} /\ server'.phase \in {"sent", "open", "failed"}
      /\ "Handshake" \in {"Handshake", "Alert"}
  BY <1>1, <1>4
<1>9. StreamInv'
  BY <1>1, <1>6, <1>7, <1>8, PostKeeps
<1>. QED  BY <1>1, <1>9 DEF Still

LEMMA ClosesKeeps ==
    ASSUME StreamInv, NEW notified \in BOOLEAN, ServerCloses(notified)
    PROVE  StreamInv' /\ UNCHANGED <<sent, got>>
<1>. DEFINE r == Sealed(server.send, "Alert", Handshakes(<<>>))
<1>1. /\ Still /\ UNCHANGED sent /\ server.closed # TRUE
      /\ toClient' = IF notified THEN toClient \o Units(r) ELSE toClient
      /\ server' = [server EXCEPT !.closed = TRUE]
  BY DEF ServerCloses, Still, connection, app
<1>2. ServerInv
  BY DEF StreamInv
<1>3. /\ server'.phase = server.phase /\ server'.send = server.send
      /\ server'.script = server.script /\ server'.closed
      /\ DOMAIN server' = ServerFields /\ server' = [f \in ServerFields |-> server'[f]]
  BY <1>1, <1>2 DEF ServerInv, ServerFields
<1>4. HelloHalves' = HelloHalves
  BY <1>1 DEF HelloHalves, Hello, Still
<1>5. ServerInv'
  BY <1>2, <1>3, <1>4 DEF ServerInv
<1>6. HellosSent' = HellosSent
  BY <1>3 DEF HellosSent
<1>7. Processes' /\ (st' = "err" \/ (st' \notin Greeting /\ st # "err") \/ st' \in Greeting)
  BY <1>1 DEF StreamInv, Processes, Still
<1>8. CASE ~notified
  BY <1>1, <1>5, <1>6, <1>7, <1>8, QuietKeeps DEF Still
<1>9. CASE notified
  <2>1. Len(sent) \in Nat /\ InOrder'
    BY <1>1 DEF StreamInv, InOrder, Still
  <2>2. r.inner = "Alert" /\ r.typ = IF Enabled(server.send) THEN "ApplicationData" ELSE "Alert"
    BY SealedFields
  <2>. HIDE DEF r
  <2>3. HellosSent \in Nat
    <3>1. server.phase = "hello" => Len(server.script) \in Nat /\ Len(server.script) <= 2
      BY <1>2 DEF ServerInv
    <3>. QED  BY <3>1 DEF HellosSent
  <2>4. Enabled(server.send) => HellosSent = 2
    BY <1>2 DEF ServerInv, HellosSent, Enabled
  <2>5. Link(HelloHalves, r, Len(sent), Len(sent'), HellosSent, HellosSent')
    BY <1>1, <1>6, <2>1, <2>2, <2>4 DEF Link
  <2>6. toClient' = toClient \o Units(r)
    BY <1>1, <1>9
  <2>7. StreamInv'
    BY <1>1, <1>5, <1>6, <2>1, <2>3, <2>5, <2>6, LoudKeeps DEF Still
  <2>. QED  BY <1>1, <2>7 DEF Still
<1>10. UNCHANGED <<sent, got>>
  BY <1>1 DEF Still
<1>. QED  BY <1>8, <1>9, <1>10

\* What the server makes of a record: it stays as far as it was, opens or fails.
LEMMA AcceptsAs ==
    ASSUME ServerInv, server.phase \in {"sent", "open"}, NEW r
    PROVE  LET s == ServerAccepts(r)
           IN  /\ s.phase \in {"sent", "open", "failed"} /\ s.send = server.send
               /\ DOMAIN s = ServerFields /\ s = [f \in ServerFields |-> s[f]]
<1>1. DOMAIN server = ServerFields /\ server = [f \in ServerFields |-> server[f]]
  BY DEF ServerInv
<1>. DEFINE k == Fresh(Derived("c ap traffic", ServerTranscript(Len(cfg.flight) + 1)))
            b == server.got \o r.content.bytes
            a == Advanced(server.recv)
            u == Updated(server.recv)
<1>2. ServerAccepts(r) \in {[server EXCEPT !.phase = "failed"],
                            [server EXCEPT !.got = b, !.recv = a],
                            [server EXCEPT !.phase = "open", !.recv = k],
                            [server EXCEPT !.recv = u]}
  BY DEF ServerAccepts
<1>. HIDE DEF k, b, a, u
<1>. QED  BY <1>1, <1>2 DEF ServerFields

LEMMA ReceivesKeeps ==
    ASSUME StreamInv, ServerReceives
    PROVE  StreamInv' /\ UNCHANGED <<sent, got>>
<1>. DEFINE after == IF WholeRecord(toServer) THEN ServerAccepts(toServer[1].of)
                                              ELSE [server EXCEPT !.phase = "failed"]
            failed == after.phase = "failed"
<1>1. /\ Still /\ UNCHANGED sent /\ server.phase \in {"sent", "open"}
      /\ server' = [after EXCEPT !.closed = failed]
      /\ toClient' = IF failed THEN toClient \o Units(Sealed(server.send, "Alert", Handshakes(<<>>)))
                                ELSE toClient
  BY DEF ServerReceives, ServerIsOpen, Still, connection, app
<1>2. /\ ServerInv /\ Keyed(server.send)
      /\ DOMAIN server = ServerFields /\ server = [f \in ServerFields |-> server[f]]
  BY <1>1 DEF StreamInv, ServerInv
<1>3. /\ after.phase \in {"sent", "open", "failed"} /\ after.send = server.send
      /\ DOMAIN after = ServerFields /\ after = [f \in ServerFields |-> after[f]]
  <2>1. CASE WholeRecord(toServer)
    BY <1>1, <1>2, <2>1, AcceptsAs
  <2>2. CASE ~WholeRecord(toServer)
    BY <1>2, <2>2 DEF ServerFields
  <2>. QED  BY <2>1, <2>2
<1>. HIDE DEF after
<1>4. /\ server'.phase = after.phase /\ server'.send = server.send /\ server'.closed = failed
      /\ DOMAIN server' = ServerFields /\ server' = [f \in ServerFields |-> server'[f]]
  BY <1>1, <1>3 DEF ServerFields
<1>5. ServerInv'
  BY <1>2, <1>3, <1>4 DEF ServerInv, Phases
<1>6. HellosSent = 2 /\ HellosSent' = 2
  BY <1>1, <1>3, <1>4 DEF HellosSent
<1>7. Processes' /\ (st' = "err" \/ (st' \notin Greeting /\ st # "err") \/ st' \in Greeting)
  BY <1>1 DEF StreamInv, Processes, Still
<1>8. CASE ~failed
  <2>1. StreamInv'
    BY <1>1, <1>5, <1>6, <1>7, <1>8, QuietKeeps DEF Still
  <2>. QED  BY <1>1, <2>1 DEF Still
<1>9. CASE failed
  <2>1. toClient' = toClient \o Units(Sealed(server.send, "Alert", Handshakes(<<>>)))
    BY <1>1, <1>9
  <2>2. "Alert" \in {"Handshake", "Alert"} /\ server'.phase \in {"sent", "open", "failed"}
    BY <1>3, <1>4
  <2>3. StreamInv'
    BY <1>1, <1>5, <2>1, <2>2, PostKeeps
  <2>. QED  BY <1>1, <2>3 DEF Still
<1>. QED  BY <1>8, <1>9

-----------------------------------------------------------------------------
(* The client's steps. *)

LEMMA SameServer ==
    ASSUME StreamInv, UNCHANGED <<server, cfg>>
    PROVE  ServerInv' /\ HellosSent' = HellosSent /\ HelloHalves' = HelloHalves
<1>1. HelloHalves' = HelloHalves
  BY DEF HelloHalves, Hello
<1>2. ServerInv
  BY DEF StreamInv
<1>. QED  BY <1>1, <1>2 DEF ServerInv, HellosSent

\* A step of the client that neither reads the socket nor ends a record.
LEMMA ClientKeeps ==
    ASSUME StreamInv, UNCHANGED <<input, toClient, got, data, external>>, Processes',
           st' = "err" \/ (st # "err" /\ st' \notin Greeting) \/ (st' \in Greeting /\ st \in Greeting
                                                /\ UNCHANGED <<decoded, hs>>)
    PROVE  StreamInv'
<1>1. UNCHANGED <<server, cfg, sent>>
  BY DEF external
<1>2. ServerInv' /\ HellosSent' = HellosSent
  BY <1>1, SameServer
<1>. QED  BY <1>1, <1>2, QuietKeeps

LEMMA HandlesKeeps ==
    ASSUME StreamInv,
           \/ Start \/ HandshakeProcessed \/ PollProcessed \/ HandleServerHello
           \/ HandleEncryptedExtensions \/ HandleCertificate \/ HandleCertificateVerify
           \/ HandleFinished \/ HandleTicket \/ HandleKeyUpdate \/ Write
    PROVE  StreamInv' /\ UNCHANGED <<sent, got>>
<1>1. UNCHANGED <<input, toClient, got, data, external>>
  BY DEF Start, HandshakeProcessed, PollProcessed, HandleServerHello, HandleEncryptedExtensions,
         HandleCertificate, HandleCertificateVerify, HandleFinished, HandleTicket,
         HandleKeyUpdate, Write, PollWrite, PollWriteFails, Handle, app
<1>2. /\ processing' = FALSE \/ (processing' = processing /\ (pc' = pc \/ pc' = "handshake"))
      /\ st' = st \/ (st # "err" /\ st' # "err")
  BY DEF Start, HandshakeProcessed, PollProcessed, HandleServerHello, HandleEncryptedExtensions,
         HandleCertificate, HandleCertificateVerify, HandleFinished, HandleTicket,
         HandleKeyUpdate, Write, PollWrite, PollWriteFails, Handle
<1>3. Processes'
  BY <1>2 DEF StreamInv, Processes
<1>4. \/ st' \notin Greeting /\ st # "err"
      \/ st' = st /\ UNCHANGED <<decoded, hs>>
      \/ st \in Greeting /\ st' \in Greeting /\ UNCHANGED <<decoded, hs>>
  <2>1. CASE Start
    BY <2>1 DEF Start, Greeting
  <2>2. CASE HandshakeProcessed \/ PollProcessed
    BY <2>2 DEF HandshakeProcessed, PollProcessed
  <2>3. CASE Write
    BY <2>3 DEF Write, PollWrite, PollWriteFails
  <2>4. CASE \/ HandleServerHello \/ HandleEncryptedExtensions \/ HandleCertificate
             \/ HandleCertificateVerify \/ HandleFinished
    BY <2>4 DEF HandleServerHello, HandleEncryptedExtensions, HandleCertificate,
                HandleCertificateVerify, HandleFinished, Greeting
  <2>5. CASE HandleTicket \/ HandleKeyUpdate
    BY <2>5 DEF HandleTicket, HandleKeyUpdate, Greeting
  <2>. QED  BY <2>1, <2>2, <2>3, <2>4, <2>5
<1>5. StreamInv'
  BY <1>1, <1>3, <1>4, ClientKeeps
<1>. QED  BY <1>1, <1>5 DEF external

LEMMA RefusesKeeps ==
    ASSUME StreamInv, ReceiveAlert \/ RefuseRecord \/ RefuseHandshake
    PROVE  StreamInv' /\ UNCHANGED <<sent, got>>
<1>1. st' = "err" /\ processing' = FALSE /\ UNCHANGED <<got, data, sent, server, cfg>>
  BY DEF ReceiveAlert, RefuseRecord, RefuseHandshake, Fail, external
<1>. QED  BY <1>1, ErrorKeeps

LEMMA SocketKeeps ==
    ASSUME StreamInv, NEW n \in 0 .. Len(toClient), ReadTls(n), st # "err", Processes',
           UNCHANGED <<st, got, data, hs, decoded, external>>
    PROVE  StreamInv'
<1>1. UNCHANGED <<server, cfg, sent>>
  BY DEF external
<1>2. ServerInv' /\ HellosSent' = HellosSent /\ HelloHalves' = HelloHalves
  BY <1>1, SameServer
<1>3. InOrder'
  BY <1>1 DEF StreamInv, InOrder
<1>4. PICK x \in Nat :
         /\ InFlight(HelloHalves, input, toClient, Len(got) + Len(data), Len(sent), x, HellosSent)
         /\ st \in Greeting =>
               /\ x = 2 * Len(decoded) + Len(hs)
               /\ Len(decoded) \in Nat /\ hs \in Seq(HelloHalves) /\ Len(hs) <= 1
  BY DEF StreamInv, ToCome
<1>5. InFlight(HelloHalves, input \o SubSeq(toClient, 1, n), SubSeq(toClient, n + 1, Len(toClient)),
               Len(got) + Len(data), Len(sent), x, HellosSent)
  BY <1>4, FlightRead
<1>6. InFlight(HelloHalves, input, toClient, Len(got) + Len(data), Len(sent), x, HellosSent)'
  BY <1>1, <1>2, <1>5 DEF ReadTls
<1>7. ToCome'
  BY <1>2, <1>4, <1>6 DEF ToCome
<1>. QED  BY <1>2, <1>3, <1>7 DEF StreamInv

LEMMA ReadsKeep ==
    ASSUME StreamInv, StagesInv, NEW n \in 0 .. Len(toClient), HandshakeRead(n) \/ PollReadTls(n)
    PROVE  StreamInv' /\ UNCHANGED <<sent, got>>
<1>1. ReadTls(n) /\ UNCHANGED <<st, got, data, hs, decoded, external>>
  BY DEF HandshakeRead, PollReadTls, app
<1>2. st # "err"
  BY DEF HandshakeRead, PollReadTls, StagesInv, WantsRead
<1>3. pc' \in {"handshake", "open"}
  BY DEF HandshakeRead, PollReadTls
<1>4. Processes'
  BY <1>1, <1>2, <1>3 DEF Processes
<1>5. StreamInv'
  BY <1>1, <1>2, <1>4, SocketKeeps
<1>. QED  BY <1>1, <1>5 DEF external

\* The record at the front leads on.
LEMMA RecordLeads ==
    ASSUME StreamInv, NextRecord
    PROVE  /\ st # "err"
           /\ \E a, x, y \in Nat :
                 /\ Link(HelloHalves, record, Len(got) + Len(data), a, x, y) /\ a <= Len(sent)
                 /\ InFlight(HelloHalves, SubSeq(input, 3, Len(input)), toClient, a, Len(sent), y,
                             HellosSent)
                 /\ st \in Greeting => x = Len(hs) /\ hs \in Seq(HelloHalves) /\ Len(hs) <= 1
<1>1. st # "err"
  BY DEF StreamInv, Processes, NextRecord
<1>2. Len(input) >= 2 /\ decoded = <<>> /\ record = input[1].of
  BY DEF NextRecord, WholeRecord, record
<1>3. PICK x \in Nat :
         /\ InFlight(HelloHalves, input, toClient, Len(got) + Len(data), Len(sent), x, HellosSent)
         /\ st \in Greeting =>
               /\ x = 2 * Len(decoded) + Len(hs)
               /\ Len(decoded) \in Nat /\ hs \in Seq(HelloHalves) /\ Len(hs) <= 1
  BY <1>1 DEF StreamInv, ToCome
<1>4. \E a, y \in Nat :
         /\ Link(HelloHalves, input[1].of, Len(got) + Len(data), a, x, y) /\ a <= Len(sent)
         /\ InFlight(HelloHalves, SubSeq(input, 3, Len(input)), toClient, a, Len(sent), y, HellosSent)
  BY <1>2, <1>3, FlightTail
<1>5. st \in Greeting => x = Len(hs) /\ hs \in Seq(HelloHalves) /\ Len(hs) <= 1
  BY <1>2, <1>3
<1>. QED  BY <1>1, <1>2, <1>4, <1>5

\* A record is taken from the input, with what becomes of its content.
LEMMA RecordKeeps ==
    ASSUME StreamInv, Consumed, UNCHANGED <<pc, st, processing, toClient, external>>, st # "err",
           NEW a \in Nat, NEW y \in Nat, a <= Len(sent),
           InFlight(HelloHalves, SubSeq(input, 3, Len(input)), toClient, a, Len(sent), y, HellosSent),
           got' \in Seq(Nat), data' \in Seq(Nat), Len(got') + Len(data') = a,
           got' \o data' = FirstBytes(a),
           st \in Greeting => /\ y = 2 * Len(decoded') + Len(hs')
                             /\ Len(decoded') \in Nat /\ hs' \in Seq(HelloHalves) /\ Len(hs') <= 1
    PROVE  StreamInv'
<1>1. UNCHANGED <<server, cfg, sent>>
  BY DEF external
<1>2. ServerInv' /\ HellosSent' = HellosSent /\ HelloHalves' = HelloHalves
  BY <1>1, SameServer
<1>3. InOrder'
  BY <1>1 DEF StreamInv, InOrder
<1>4. Processes'
  BY DEF StreamInv, Processes
<1>5. InFlight(HelloHalves, input, toClient, Len(got) + Len(data), Len(sent), y, HellosSent)'
  BY <1>1, <1>2 DEF Consumed
<1>6. ToCome'
  BY <1>2, <1>5 DEF ToCome
<1>. QED  BY <1>2, <1>3, <1>4, <1>6 DEF StreamInv

\* Before there is a key to decrypt with, the handshake is at its start.
LEMMA NoKeyGreets ==
    ASSUME StagesInv, st # "err", ~Enabled(dec)
    PROVE  st \in Greeting
<1>1. Stage(dec) = 0
  BY NoKeyNoStage DEF Enabled
<1>2. st \notin HandshakeStates /\ st # "Connected"
  BY <1>1 DEF StagesInv
<1>. QED  BY <1>2 DEF StagesInv, Greeting

LEMMA DiscardKeeps ==
    ASSUME StreamInv, DiscardCcs
    PROVE  StreamInv' /\ UNCHANGED <<sent, got>>
<1>1. /\ NextRecord /\ Consumed /\ record.typ = "ChangeCipherSpec" /\ decoded = <<>>
      /\ UNCHANGED <<pc, st, processing, got, data, hs, decoded, toClient, external>>
  BY DEF DiscardCcs, Discarded, NextRecord, app
<1>2. PICK a \in Nat, x \in Nat, y \in Nat :
         /\ Link(HelloHalves, record, Len(got) + Len(data), a, x, y) /\ a <= Len(sent)
         /\ InFlight(HelloHalves, SubSeq(input, 3, Len(input)), toClient, a, Len(sent), y, HellosSent)
         /\ st \in Greeting => x = Len(hs) /\ hs \in Seq(HelloHalves) /\ Len(hs) <= 1
  BY <1>1, RecordLeads
<1>3. st # "err"
  BY <1>1, RecordLeads
<1>4. a = Len(got) + Len(data) /\ y = x
  BY <1>1, <1>2 DEF Link
<1>5. /\ got' \in Seq(Nat) /\ data' \in Seq(Nat) /\ Len(got') + Len(data') = a
      /\ got' \o data' = FirstBytes(a)
  BY <1>1, <1>4 DEF StreamInv, InOrder
<1>6. st \in Greeting => /\ y = 2 * Len(decoded') + Len(hs')
                        /\ Len(decoded') \in Nat /\ hs' \in Seq(HelloHalves) /\ Len(hs') <= 1
  BY <1>1, <1>2, <1>4
<1>7. StreamInv'
  BY <1>1, <1>2, <1>3, <1>5, <1>6, RecordKeeps
<1>. QED  BY <1>1, <1>7 DEF external

\* No handshake is at its start once a protected record arrives.
LEMMA ProtectedComesLater ==
    ASSUME NEW H, NEW r, NEW p, NEW q, NEW x, NEW y, Link(H, r, p, q, x, y),
           r.typ = "ApplicationData"
    PROVE  x = 2
BY DEF Link

LEMMA DataKeeps ==
    ASSUME StreamInv, StagesInv, ReceiveData
    PROVE  StreamInv' /\ UNCHANGED <<sent, got>>
<1>1. /\ NextRecord /\ Consumed /\ Opens /\ RecordType = "ApplicationData"
      /\ data' = data \o record.content.bytes
      /\ UNCHANGED <<pc, st, processing, got, hs, decoded, toClient, external>>
  BY DEF ReceiveData, Received, app
<1>2. PICK a \in Nat, x \in Nat, y \in Nat :
         /\ Link(HelloHalves, record, Len(got) + Len(data), a, x, y) /\ a <= Len(sent)
         /\ InFlight(HelloHalves, SubSeq(input, 3, Len(input)), toClient, a, Len(sent), y, HellosSent)
         /\ st \in Greeting => x = Len(hs) /\ hs \in Seq(HelloHalves) /\ Len(hs) <= 1
  BY <1>1, RecordLeads
<1>3. st # "err"
  BY <1>1, RecordLeads
<1>4. record.typ = "ApplicationData"
  BY <1>1 DEF Opens, RecordType
<1>5. st \notin Greeting
  <2>1. x = 2
    BY <1>2, <1>4, ProtectedComesLater
  <2>2. st \in Greeting => x = Len(hs) /\ Len(hs) <= 1
    BY <1>2
  <2>3. ~(2 <= 1)
    OBVIOUS
  <2>. QED  BY <2>1, <2>2, <2>3
<1>6. record.inner = "ApplicationData"
  BY <1>1, <1>3, <1>5, NoKeyGreets DEF RecordType
<1>. DEFINE p == Len(got) + Len(data)
            bytes == [i \in 1 .. a - p |-> p + i]
<1>7. p <= a /\ record.content.bytes = bytes
  BY <1>2, <1>6 DEF Link
<1>8. got \in Seq(Nat) /\ data \in Seq(Nat) /\ got \o data = FirstBytes(p) /\ p \in Nat
  BY DEF StreamInv, InOrder
<1>9. FirstBytes(p) \o bytes = FirstBytes(a)
  <2>1. a - p \in Nat /\ p + (a - p) = a
    BY <1>7, <1>8
  <2>. HIDE DEF p
  <2>2. FirstBytes(p) \o [i \in 1 .. a - p |-> p + i] = FirstBytes(p + (a - p))
    BY <1>8, <2>1, FirstBytesSum
  <2>. QED  BY <2>1, <2>2
<1>10. bytes \in Seq(Nat) /\ Len(bytes) = a - p
  BY <1>7, <1>8
<1>. HIDE DEF bytes
<1>11. /\ data \o bytes \in Seq(Nat) /\ Len(data \o bytes) = Len(data) + (a - p)
       /\ got \o (data \o bytes) = (got \o data) \o bytes
  <2>1. data \o bytes \in Seq(Nat) /\ Len(data \o bytes) = Len(data) + Len(bytes)
        /\ got \o (data \o bytes) = (got \o data) \o bytes
    <3>1. got \in Seq(Nat) /\ data \in Seq(Nat) /\ bytes \in Seq(Nat)
      BY <1>8, <1>10
    <3>. QED  BY ONLY <3>1
  <2>. QED  BY <1>10, <2>1
<1>12. /\ got' \in Seq(Nat) /\ data' \in Seq(Nat) /\ Len(got') + Len(data') = a
       /\ got' \o data' = FirstBytes(a)
  <2>1. got' = got /\ data' = data \o bytes
    BY <1>1, <1>7
  <2>2. Len(got) + (Len(data) + (a - p)) = a
    BY <1>8
  <2>. QED  BY <1>8, <1>9, <1>11, <2>1, <2>2
<1>13. StreamInv'
  BY <1>1, <1>2, <1>3, <1>5, <1>12, RecordKeeps
<1>. QED  BY <1>1, <1>13 DEF external

\* Of n halves the whole messages are n \div 2, and n % 2 halves are left.
LEMMA WholeAndRest ==
    ASSUME NEW H, NEW s \in Seq(H)
    PROVE  /\ Len(Whole(s)) \in Nat /\ Rest(s) \in Seq(H) /\ Len(Rest(s)) <= 1
           /\ Len(s) = 2 * Len(Whole(s)) + Len(Rest(s))
<1>1. Len(s) \in Nat /\ Len(s) \div 2 \in Nat /\ Len(s) = 2 * (Len(s) \div 2) + (Len(s) % 2)
      /\ Len(s) % 2 \in {0, 1}
  OBVIOUS
<1>2. Len(Whole(s)) = Len(s) \div 2
  BY <1>1 DEF Whole
<1>3. CASE Len(s) % 2 = 0
  BY <1>1, <1>2, <1>3 DEF Rest
<1>4. CASE Len(s) % 2 = 1
  <2>1. s # <<>> /\ Rest(s) = <<s[Len(s)]>>
    BY <1>1, <1>4 DEF Rest, Last
  <2>2. Rest(s) \in Seq(H) /\ Len(Rest(s)) = 1
    BY <2>1
  <2>. QED  BY <1>1, <1>2, <1>4, <2>2
<1>. QED  BY <1>1, <1>3, <1>4

LEMMA HandshakeKeeps ==
    ASSUME StreamInv, StagesInv, ReceiveHandshake
    PROVE  StreamInv' /\ UNCHANGED <<sent, got>>
<1>. DEFINE buffer == hs \o record.content.halves
<1>1. /\ NextRecord /\ Consumed /\ Opens /\ RecordType = "Handshake"
      /\ decoded' = Whole(buffer) /\ hs' = Rest(buffer)
      /\ UNCHANGED <<pc, st, processing, got, data, toClient, external>>
  BY DEF ReceiveHandshake, Received, app
<1>2. PICK a \in Nat, x \in Nat, y \in Nat :
         /\ Link(HelloHalves, record, Len(got) + Len(data), a, x, y) /\ a <= Len(sent)
         /\ InFlight(HelloHalves, SubSeq(input, 3, Len(input)), toClient, a, Len(sent), y, HellosSent)
         /\ st \in Greeting => x = Len(hs) /\ hs \in Seq(HelloHalves) /\ Len(hs) <= 1
  BY <1>1, RecordLeads
<1>3. st # "err"
  BY <1>1, RecordLeads
<1>4. record.typ = "ApplicationData" => st \notin Greeting
  <2>1. ASSUME record.typ = "ApplicationData" PROVE x = 2
    BY <1>2, <2>1, ProtectedComesLater
  <2>2. st \in Greeting => x = Len(hs) /\ Len(hs) <= 1
    BY <1>2
  <2>3. ~(2 <= 1)
    OBVIOUS
  <2>. QED  BY <2>1, <2>2, <2>3
<1>5. record.inner = "Handshake" /\ (st \in Greeting => record.typ = "Handshake")
  <2>1. CASE Enabled(dec)
    <3>1. record.inner = "Handshake" /\ record.typ = "ApplicationData"
      BY <1>1, <2>1 DEF RecordType, Opens
    <3>. QED  BY <1>4, <3>1
  <2>2. CASE ~Enabled(dec)
    <3>1. record.typ = "Handshake"
      BY <1>1, <2>2 DEF RecordType
    <3>. QED  BY <1>2, <3>1 DEF Link
  <2>. QED  BY <2>1, <2>2
<1>6. a = Len(got) + Len(data)
  BY <1>2, <1>5 DEF Link
<1>7. /\ got' \in Seq(Nat) /\ data' \in Seq(Nat) /\ Len(got') + Len(data') = a
      /\ got' \o data' = FirstBytes(a)
  BY <1>1, <1>6 DEF StreamInv, InOrder
<1>8. ASSUME st \in Greeting
      PROVE  /\ y = 2 * Len(decoded') + Len(hs')
             /\ Len(decoded') \in Nat /\ hs' \in Seq(HelloHalves) /\ Len(hs') <= 1
  <2>. DEFINE more == record.content.halves
  <2>1. hs \in Seq(HelloHalves) /\ more \in Seq(HelloHalves) /\ y = Len(hs) + Len(more)
    BY <1>2, <1>5, <1>8 DEF Link
  <2>. HIDE DEF more
  <2>2. hs \o more \in Seq(HelloHalves) /\ Len(hs \o more) = Len(hs) + Len(more)
    BY ONLY <2>1, Joined
  <2>3. buffer = hs \o more
    BY DEF more
  <2>. HIDE DEF buffer
  <2>4. buffer \in Seq(HelloHalves) /\ Len(buffer) = y
    BY <2>1, <2>2, <2>3
  <2>. QED  BY <1>1, <2>4, WholeAndRest
<1>. HIDE DEF buffer
<1>9. StreamInv'
  BY <1>1, <1>2, <1>3, <1>7, <1>8, RecordKeeps
<1>. QED  BY <1>1, <1>9 DEF external

LEMMA PollReadKeeps ==
    ASSUME StreamInv, NEW n \in 0 .. Len(data), PollRead(n)
    PROVE  /\ StreamInv' /\ sent' = sent /\ got' = got \o SubSeq(data, 1, n)
           /\ Len(got') = Len(got) + n
<1>1. /\ got' = got \o SubSeq(data, 1, n) /\ data' = SubSeq(data, n + 1, Len(data))
      /\ UNCHANGED <<pc, st, processing, input, hs, decoded, toClient, server, cfg, sent>>
  BY DEF PollRead, external
<1>2. InOrder /\ got \in Seq(Nat) /\ data \in Seq(Nat)
  BY DEF StreamInv, InOrder
<1>3. got' \in Seq(Nat) /\ data' \in Seq(Nat) /\ got' \o data' = got \o data
  <2>1. Kept(Nat, got, data, n)
    BY <1>2, ReadKeeps
  <2>. QED  BY <1>1, <2>1, Zenon DEF Kept
<1>4. Len(got') = Len(got) + n /\ Len(data') = Len(data) - n /\ Len(data) \in Nat /\ Len(got) \in Nat
  <2>1. n \in Nat /\ n <= Len(data) /\ Len(data) \in Nat
    BY <1>2
  <2>2. SubSeq(data, 1, n) \in Seq(Nat) /\ Len(SubSeq(data, 1, n)) = n
    BY <1>2, <2>1
  <2>3. Len(SubSeq(data, n + 1, Len(data))) = Len(data) - n
    BY <1>2, <2>1
  <2>4. Len(got \o SubSeq(data, 1, n)) = Len(got) + Len(SubSeq(data, 1, n))
    BY ONLY <1>2, <2>2, Joined
  <2>. QED  BY <1>1, <1>2, <2>2, <2>3, <2>4
<1>5. Len(got') + Len(data') = Len(got) + Len(data)
  BY <1>4
<1>6. InOrder'
  BY <1>1, <1>2, <1>3, <1>5 DEF InOrder
<1>7. ServerInv' /\ HellosSent' = HellosSent /\ HelloHalves' = HelloHalves
  BY <1>1, SameServer
<1>8. Processes'
  BY <1>1 DEF StreamInv, Processes
<1>9. st # "err" => ToCome'
  BY <1>1, <1>5, <1>7 DEF StreamInv, ToCome
<1>. QED  BY <1>1, <1>4, <1>6, <1>7, <1>8, <1>9 DEF StreamInv

LEMMA InitialStream ==
    ASSUME Init
    PROVE  StreamInv
<1>1. /\ pc = "start" /\ st = "Start" /\ processing = FALSE
      /\ input = <<>> /\ data = <<>> /\ hs = <<>> /\ decoded = <<>>
      /\ got = <<>> /\ toClient = <<>> /\ sent = <<>>
      /\ server = [phase |-> "wait", script |-> <<>>, send |-> Disabled, recv |-> Disabled,
                  got |-> <<>>, closed |-> FALSE, posts |-> 0]
  BY DEF Init
<1>2. /\ DOMAIN server = ServerFields /\ server = [f \in ServerFields |-> server[f]]
      /\ server.phase = "wait" /\ server.send = Disabled
  BY <1>1 DEF ServerFields
<1>3. Disabled.key = NoKey
  BY DEF Disabled, Fresh, Numbered
<1>4. ServerInv
  BY <1>2, <1>3 DEF ServerInv, Phases
<1>5. Len(<<>>) = 0 /\ <<>> \in Seq(Nat) /\ FirstBytes(0) = <<>> /\ <<>> \o <<>> = <<>>
      /\ <<>> \in Seq(HelloHalves)
  BY DEF FirstBytes
<1>6. InOrder
  BY <1>1, <1>5 DEF InOrder
<1>7. HellosSent = 0
  BY <1>2 DEF HellosSent
<1>8. InFlight(HelloHalves, <<>>, <<>>, 0, 0, 0, 0)
  BY FlightStarts
<1>9. InFlight(HelloHalves, input, toClient, Len(got) + Len(data), Len(sent), 0, HellosSent)
      /\ 0 = 2 * Len(decoded) + Len(hs) /\ Len(decoded) \in Nat /\ hs \in Seq(HelloHalves)
      /\ Len(hs) <= 1 /\ 0 \in Nat
  BY <1>1, <1>5, <1>7, <1>8
<1>10. ToCome
  BY <1>9 DEF ToCome
<1>. QED  BY <1>1, <1>4, <1>6, <1>10 DEF StreamInv, Processes

\* A longer beginning of the stream begins with the shorter one.
LEMMA FirstBytesPrefix ==
    ASSUME NEW n \in Nat, NEW m \in Nat, n <= m
    PROVE  Downstream!IsPrefix(FirstBytes(n), FirstBytes(m))
<1>. DEFINE a == FirstBytes(n)
            b == FirstBytes(m)
<1>1. a \in Seq(Nat) /\ Len(a) = n /\ \A i \in 1 .. n : a[i] = i
  BY DEF FirstBytes
<1>2. b \in Seq(Nat) /\ Len(b) = m /\ \A i \in 1 .. m : b[i] = i
  BY DEF FirstBytes
<1>. HIDE DEF a, b
<1>3. SubSeq(a, 1, n) = SubSeq(b, 1, n)
  <2>1. /\ SubSeq(a, 1, n) \in Seq(Nat) /\ Len(SubSeq(a, 1, n)) = n
        /\ \A i \in 1 .. n : SubSeq(a, 1, n)[i] = a[i]
    BY <1>1
  <2>2. /\ SubSeq(b, 1, n) \in Seq(Nat) /\ Len(SubSeq(b, 1, n)) = n
        /\ \A i \in 1 .. n : SubSeq(b, 1, n)[i] = b[i]
    BY <1>2
  <2>3. \A i \in 1 .. n : a[i] = b[i]
    BY <1>1, <1>2
  <2>. HIDE DEF a, b
  <2>. QED  BY <2>1, <2>2, <2>3, SameSequence
<1>4. Downstream!IsPrefix(a, b)
  BY <1>1, <1>2, <1>3 DEF Downstream!IsPrefix
<1>. QED  BY <1>4 DEF a, b

\* The bytes read are the first of the stream.
FirstRead ==
    /\ Len(got) \in Nat /\ got = FirstBytes(Len(got)) /\ Len(got) <= Len(sent)
    /\ Len(sent) \in Nat /\ sent = FirstBytes(Len(sent))

LEMMA ReadIsFirst ==
    ASSUME StreamInv
    PROVE  FirstRead
<1>1. /\ got \in Seq(Nat) /\ data \in Seq(Nat) /\ got \o data = FirstBytes(Len(got) + Len(data))
      /\ Len(got) + Len(data) <= Len(sent) /\ sent \in Seq(Nat) /\ sent = FirstBytes(Len(sent))
  BY DEF StreamInv, InOrder
<1>2. \A i \in 1 .. Len(got) : (got \o data)[i] = got[i]
  BY ONLY <1>1, Joined
<1>3. \A i \in 1 .. Len(got) : FirstBytes(Len(got) + Len(data))[i] = i
  BY <1>1 DEF FirstBytes
<1>4. \A i \in 1 .. Len(got) : got[i] = i
  BY <1>1, <1>2, <1>3
<1>5. /\ FirstBytes(Len(got)) \in Seq(Nat) /\ Len(FirstBytes(Len(got))) = Len(got)
      /\ \A i \in 1 .. Len(got) : FirstBytes(Len(got))[i] = i
  BY <1>1 DEF FirstBytes
<1>6. got = FirstBytes(Len(got))
  BY <1>1, <1>4, <1>5, SameSequence
<1>. QED  BY <1>1, <1>6 DEF FirstRead

LEMMA ReadIsFirstAfter == StreamInv' => FirstRead'
<1>1. StreamInv => FirstRead
  BY ReadIsFirst
<1>. QED  BY <1>1, PTL

LEMMA StreamStep ==
    ASSUME StreamInv, StagesInv, Next
    PROVE  /\ StreamInv'
           /\ \/ Downstream!Put
              \/ Downstream!Take
              \/ UNCHANGED <<sent, got>>
<1>1. CASE \/ Start \/ HandshakeProcessed \/ PollProcessed \/ HandleServerHello
           \/ HandleEncryptedExtensions \/ HandleCertificate \/ HandleCertificateVerify
           \/ HandleFinished \/ HandleTicket \/ HandleKeyUpdate \/ Write
  BY <1>1, HandlesKeeps
<1>2. CASE ReceiveAlert \/ RefuseRecord \/ RefuseHandshake
  BY <1>2, RefusesKeeps
<1>3. CASE \E n \in 0 .. Len(toClient) : HandshakeRead(n) \/ PollReadTls(n)
  BY <1>3, ReadsKeep
<1>4. CASE DiscardCcs
  BY <1>4, DiscardKeeps
<1>5. CASE ReceiveData
  BY <1>5, DataKeeps
<1>6. CASE ReceiveHandshake
  BY <1>6, HandshakeKeeps
<1>7. CASE \E n \in 0 .. Len(data) : PollRead(n)
  <2>1. PICK n \in 0 .. Len(data) : PollRead(n)
    BY <1>7
  <2>2. StreamInv' /\ sent' = sent /\ got' = got \o SubSeq(data, 1, n) /\ Len(got') = Len(got) + n
    BY <2>1, PollReadKeeps
  <2>3. /\ Len(got) \in Nat /\ got = FirstBytes(Len(got)) /\ Len(got) <= Len(sent)
        /\ Len(sent) \in Nat /\ sent = FirstBytes(Len(sent))
    BY ReadIsFirst DEF FirstRead
  <2>4. Len(got') \in Nat /\ got' = FirstBytes(Len(got')) /\ Len(got') <= Len(sent')
    BY <2>2, ReadIsFirstAfter DEF FirstRead
  <2>5. n \in Nat
    BY <2>3
  <2>6. CASE n = 0
    <3>1. got' = got
      BY <2>2, <2>3, <2>4, <2>6
    <3>. QED  BY <2>2, <3>1
  <2>7. CASE n > 0
    <3>1. Len(got') > Len(got)
      BY <2>2, <2>3, <2>7
    <3>2. Downstream!IsPrefix(got, got') /\ Downstream!IsPrefix(got', sent)
      <4>1. Downstream!IsPrefix(FirstBytes(Len(got)), FirstBytes(Len(got')))
        BY <2>3, <2>4, <3>1, FirstBytesPrefix
      <4>2. Downstream!IsPrefix(FirstBytes(Len(got')), FirstBytes(Len(sent)))
        BY <2>2, <2>3, <2>4, FirstBytesPrefix
      <4>. QED  BY <2>3, <2>4, <4>1, <4>2
    <3>3. Downstream!Take
      BY <2>2, <3>1, <3>2 DEF Downstream!Take
    <3>. QED  BY <2>2, <3>3
  <2>. QED  BY <2>5, <2>6, <2>7
<1>8. CASE ServerAnswers
  <2>1. UNCHANGED <<sent, got>>
    BY <1>8 DEF ServerAnswers, app
  <2>. QED  BY <1>8, <2>1, AnswersKeeps
<1>9. CASE ServerStartsFlight
  <2>1. UNCHANGED <<sent, got>>
    BY <1>9 DEF ServerStartsFlight, app
  <2>. QED  BY <1>9, <2>1, StartsFlightKeeps
<1>10. CASE ServerEndsFlight
  <2>1. UNCHANGED <<sent, got>>
    BY <1>10 DEF ServerEndsFlight, app
  <2>. QED  BY <1>10, <2>1, EndsFlightKeeps
<1>11. CASE \E n \in Packings : ServerSendsHandshake(n)
  <2>1. PICK n \in Packings : ServerSendsHandshake(n)
    BY <1>11
  <2>2. UNCHANGED <<sent, got>>
    BY <2>1 DEF ServerSendsHandshake, app
  <2>. QED  BY <2>1, <2>2, SendsHandshakeKeeps
<1>12. CASE \E n \in {1, 2} : ServerSendsData(n)
  <2>1. PICK n \in {1, 2} : ServerSendsData(n)
    BY <1>12
  <2>2. StreamInv' /\ Len(sent') = Len(sent) + n /\ UNCHANGED got
    BY <2>1, SendsDataKeeps
  <2>3. Len(sent) \in Nat /\ sent = FirstBytes(Len(sent))
    BY ReadIsFirst DEF FirstRead
  <2>4. Len(sent') \in Nat /\ sent' = FirstBytes(Len(sent'))
    BY <2>2, ReadIsFirstAfter DEF FirstRead
  <2>5. Len(sent') > Len(sent)
    BY <2>2, <2>3
  <2>6. Downstream!IsPrefix(FirstBytes(Len(sent)), FirstBytes(Len(sent')))
    BY <2>3, <2>4, <2>5, FirstBytesPrefix
  <2>7. Downstream!IsPrefix(sent, sent')
    BY <2>3, <2>4, <2>6
  <2>. QED  BY <2>2, <2>5, <2>7 DEF Downstream!Put
<1>13. CASE ServerSendsTicket \/ (\E request \in BOOLEAN : ServerUpdatesKey(request))
  BY <1>13, PostsKeep
<1>14. CASE \E notified \in BOOLEAN : ServerCloses(notified)
  BY <1>14, ClosesKeeps
<1>15. CASE ServerReceives
  BY <1>15, ReceivesKeeps
<1>. QED
  BY <1>1, <1>2, <1>3, <1>4, <1>5, <1>6, <1>7, <1>8, <1>9, <1>10, <1>11, <1>12, <1>13, <1>14, <1>15
     DEF Next, Client, ProcessNewPackets, ServerHandshake, ServerPosts

LEMMA StreamStutter ==
    ASSUME StreamInv, UNCHANGED vars
    PROVE  StreamInv'
<1>1. UNCHANGED <<pc, st, processing, input, got, data, decoded, hs, toClient, external>>
  BY DEF vars, connection, app
<1>2. Processes'
  BY <1>1 DEF StreamInv, Processes
<1>3. st' = "err" \/ (st # "err" /\ st' \notin Greeting) \/ (st' \in Greeting /\ st \in Greeting
                                                         /\ UNCHANGED <<decoded, hs>>)
  BY <1>1
<1>. QED  BY <1>1, <1>2, <1>3, ClientKeeps

\* However the socket cuts and joins records, whenever keys change and
\* wherever the connection fails, what the application reads is the stream
\* that the server's application sent: its bytes, once and in order
\* (Receiver::process_new_packets, Connection::read, poll_read).
THEOREM ReadsOneStream == Spec => ReadsAStream
<1>1. Init => StreamInv /\ Downstream!PipeInit
  BY InitialStream DEF Init, Downstream!PipeInit
<1>2. StreamInv /\ NonceInv /\ [Next]_vars => StreamInv'
  BY StreamStep, StreamStutter DEF NonceInv
<1>3. StreamInv /\ NonceInv /\ [Next]_vars
        => [Downstream!Put \/ Downstream!Take]_<<sent, got>>
  <2>1. UNCHANGED vars => UNCHANGED <<sent, got>>
    BY DEF vars, app, external
  <2>. QED  BY <2>1, StreamStep DEF NonceInv
<1>. QED  BY <1>1, <1>2, <1>3, Invariant, PTL DEF Spec, ReadsAStream, Downstream!Pipe
-----------------------------------------------------------------------------
(* Only good servers: what the server's messages say, wherever they are on their *)
(* way, and what the client has checked when it is in a state.                   *)

FlightNames == {"EncryptedExtensions", "CertificateRequest", "Certificate",
                "CertificateVerify", "Finished"}

\* The messages of a handshake, as the client hashes them.
Order == <<"ClientHello", "ServerHello", "EncryptedExtensions", "Certificate",
           "CertificateVerify", "Finished">>
Hashes(n) == [i \in 1 .. n + 1 |-> Order[i]]

\* what the server signs, and what its Finished covers
Signed == IF cfg.signed THEN ServerTranscript(Len(cfg.flight) - 1) ELSE <<>>
Mac == IF cfg.mac THEN ServerTranscript(Len(cfg.flight)) ELSE <<>>

Ticket == [name |-> "NewSessionTicket"]
Message(name) ==
    CASE name = "EncryptedExtensions" -> [name |-> name, list |-> cfg.list]
      [] name = "CertificateRequest" -> [name |-> name]
      [] name = "Certificate" -> [name |-> name, cert |-> cfg.cert]
      [] name = "CertificateVerify" -> [name |-> name, scheme |-> cfg.scheme, signed |-> Signed]
      [] name = "Finished" -> [name |-> name, mac |-> Mac]

\* All that the server ever says.
Messages ==
    {Hello, Ticket} \cup {KeyUpdate(b) : b \in BOOLEAN}
    \cup {Message(cfg.flight[i]) : i \in 1 .. Len(cfg.flight)}

HalfOf(M) == [half : {1, 2}, of : M]

\* The handshake messages of a record are among M.
Genuine(M, r) ==
    r.typ = "Handshake" \/ r.inner = "Handshake" => r.content.halves \in Seq(HalfOf(M))
AllGenuine(M, units) ==
    \E S : units \in Seq(UnitIn(S)) /\ \A r \in S : Genuine(M, r)

SourceInv ==
    /\ server.script \in Seq(HalfOf(Messages))
    /\ AllGenuine(Messages, input) /\ AllGenuine(Messages, toClient)
    /\ hs \in Seq(HalfOf(Messages))
    /\ decoded \in Seq(Messages)
    /\ \A i \in 1 .. Len(decoded) : HandshakeDecodes(decoded[i])

\* How many messages of the server the client has handled.
Handled ==
    CASE st = "WaitEncryptedExtensions" -> 1
      [] st = "WaitCertificate" -> 2
      [] st = "WaitCertificateVerify" -> 3
      [] st = "WaitFinished" -> 4
      [] st = "Connected" \/ (st = "err" /\ pc = "open") -> 5
      [] OTHER -> 0

ControlInv ==
    /\ pc = "start" <=> st = "Start"
    /\ pc = "open" => st \in {"Connected", "err"}
    /\ st \notin {"Start", "err"} => transcript = Hashes(Handled)

GoodHello == ServerHelloDecodes(cfg.hello) /\ ServerHelloAccepted(cfg.hello)
GoodCertificate == CertificateDecodes(cfg.cert) /\ CertificateAccepted(cfg.cert)
GoodSignature == cfg.scheme = OFFERED_SIG_SCHEME /\ cfg.signed
GoodFlight ==
    /\ cfg.mac /\ ServerTranscript(Len(cfg.flight)) = Hashes(4)
    /\ \E i \in 1 .. Len(cfg.flight) : cfg.flight[i] = "Finished"

\* What the server has proved of itself by then.
Vetted ==
    /\ Handled >= 1 => GoodHello
    /\ Handled >= 2 => cfg.list = {}
    /\ Handled >= 3 => GoodCertificate
    /\ Handled >= 4 => GoodSignature
    /\ Handled >= 5 => GoodFlight

TrustInv == cfg \in Servers /\ SourceInv /\ ControlInv /\ Vetted

-----------------------------------------------------------------------------
LEMMA FlightIsNamed ==
    ASSUME cfg \in Servers
    PROVE  cfg.flight \in Seq(FlightNames)
BY TlsAssumption DEF FlightNames

LEMMA MessageNames ==
    ASSUME NEW name \in FlightNames
    PROVE  /\ Message(name).name = name
           /\ name = "EncryptedExtensions" => Message(name).list = cfg.list
           /\ name = "Certificate" => Message(name).cert = cfg.cert
           /\ name = "CertificateVerify" => /\ Message(name).scheme = cfg.scheme
                                           /\ Message(name).signed = Signed
           /\ name = "Finished" => Message(name).mac = Mac
<1>1. CASE name = "EncryptedExtensions"
  BY <1>1 DEF Message
<1>2. CASE name = "CertificateRequest"
  BY <1>2 DEF Message
<1>3. CASE name = "Certificate"
  BY <1>3 DEF Message
<1>4. CASE name = "CertificateVerify"
  BY <1>4 DEF Message
<1>5. CASE name = "Finished"
  BY <1>5 DEF Message
<1>. QED  BY <1>1, <1>2, <1>3, <1>4, <1>5 DEF FlightNames

\* A message is known by its name.
LEMMA MessagesByName ==
    ASSUME cfg \in Servers, NEW m \in Messages
    PROVE  /\ m.name = "ServerHello" => m = Hello
           /\ m.name \in FlightNames => /\ m = Message(m.name)
                                        /\ \E i \in 1 .. Len(cfg.flight) : cfg.flight[i] = m.name
<1>1. CASE m \in {Hello, Ticket} \cup {KeyUpdate(b) : b \in BOOLEAN}
  BY <1>1 DEF Hello, Ticket, KeyUpdate, FlightNames
<1>2. ASSUME NEW i \in 1 .. Len(cfg.flight), m = Message(cfg.flight[i])
      PROVE  m.name = cfg.flight[i] /\ m.name \in FlightNames
  <2>1. cfg.flight[i] \in FlightNames
    BY FlightIsNamed
  <2>. QED  BY <1>2, <2>1, MessageNames
<1>3. "ServerHello" \notin FlightNames
  BY DEF FlightNames
<1>4. CASE \E i \in 1 .. Len(cfg.flight) : m = Message(cfg.flight[i])
  BY <1>2, <1>3, <1>4
<1>. QED  BY <1>1, <1>4 DEF Messages

\* Its signature and its HMAC cover something only if it made them.
LEMMA HashesAreSome ==
    ASSUME NEW n \in Nat
    PROVE  Hashes(n) # <<>>
BY DEF Hashes

LEMMA HashesGrow ==
    ASSUME NEW n \in 0 .. 4
    PROVE  Hashes(n + 1) = Append(Hashes(n), Order[n + 2])
<1>. DEFINE a == Append(Hashes(n), Order[n + 2])
            b == Hashes(n + 1)
<1>1. Hashes(n) \in Seq(Range(Order)) /\ Len(Hashes(n)) = n + 1 /\ \A i \in 1 .. n + 1 : Hashes(n)[i] = Order[i]
  <2>1. DOMAIN Order = 1 .. 6
    BY DEF Order
  <2>. QED  BY <2>1 DEF Hashes, Range
<1>2. DOMAIN a = 1 .. n + 2 /\ (\A i \in 1 .. n + 1 : a[i] = Order[i]) /\ a[n + 2] = Order[n + 2]
      /\ a = [i \in DOMAIN a |-> a[i]]
  BY <1>1
<1>. HIDE DEF a
<1>3. b = [i \in 1 .. n + 2 |-> Order[i]]
  BY DEF Hashes
<1>4. \A i \in 1 .. n + 2 : a[i] = Order[i]
  BY <1>2
<1>5. a = [i \in 1 .. n + 2 |-> Order[i]]
  BY <1>2, <1>4
<1>. QED  BY <1>3, <1>5 DEF a

-----------------------------------------------------------------------------
(* Genuine records. *)

LEMMA SequenceOfMore ==
    ASSUME NEW A, NEW B, A \subseteq B, NEW s \in Seq(A)
    PROVE  s \in Seq(B)
OBVIOUS

LEMMA PartOfSequence ==
    ASSUME NEW A, NEW s \in Seq(A), NEW m \in Nat \ {0}, NEW n \in Nat, n <= Len(s)
    PROVE  SubSeq(s, m, n) \in Seq(A)
OBVIOUS

LEMMA UnitsOfMore ==
    ASSUME NEW S, NEW R, NEW s \in Seq(UnitIn(S))
    PROVE  s \in Seq(UnitIn(S \cup R)) /\ s \in Seq(UnitIn(R \cup S))
<1>1. UnitIn(S) \subseteq UnitIn(S \cup R) /\ UnitIn(S) \subseteq UnitIn(R \cup S)
  BY DEF UnitIn
<1>. QED  BY ONLY <1>1, s \in Seq(UnitIn(S)), SequenceOfMore

LEMMA GenuineJoin ==
    ASSUME NEW M, NEW s, NEW t, AllGenuine(M, s), AllGenuine(M, t)
    PROVE  AllGenuine(M, s \o t)
<1>1. PICK S : s \in Seq(UnitIn(S)) /\ \A r \in S : Genuine(M, r)
  BY DEF AllGenuine
<1>2. PICK R : t \in Seq(UnitIn(R)) /\ \A r \in R : Genuine(M, r)
  BY DEF AllGenuine
<1>3. s \in Seq(UnitIn(S \cup R)) /\ t \in Seq(UnitIn(S \cup R))
  BY <1>1, <1>2, UnitsOfMore
<1>4. s \o t \in Seq(UnitIn(S \cup R))
  BY ONLY <1>3, Joined
<1>5. \A r \in S \cup R : Genuine(M, r)
  BY <1>1, <1>2
<1>. QED  BY <1>4, <1>5 DEF AllGenuine

LEMMA GenuineCut ==
    ASSUME NEW M, NEW s, AllGenuine(M, s), NEW m \in Nat \ {0}, NEW n \in Nat, n <= Len(s)
    PROVE  AllGenuine(M, SubSeq(s, m, n))
<1>1. PICK S : s \in Seq(UnitIn(S)) /\ \A r \in S : Genuine(M, r)
  BY DEF AllGenuine
<1>2. SubSeq(s, m, n) \in Seq(UnitIn(S))
  BY ONLY <1>1, m \in Nat \ {0}, n \in Nat, n <= Len(s), PartOfSequence
<1>. QED  BY <1>1, <1>2 DEF AllGenuine

LEMMA GenuineNone ==
    ASSUME NEW M
    PROVE  AllGenuine(M, <<>>)
<1>1. PICK S : S = {}
  OBVIOUS
<1>2. <<>> \in Seq(UnitIn(S)) /\ \A r \in S : Genuine(M, r)
  BY <1>1
<1>. QED  BY <1>2 DEF AllGenuine

LEMMA GenuineOne ==
    ASSUME NEW M, NEW r, Genuine(M, r)
    PROVE  AllGenuine(M, Units(r))
<1>1. Units(r) \in Seq(UnitIn({r}))
  BY DEF Units, UnitIn
<1>2. \A q \in {r} : Genuine(M, q)
  OBVIOUS
<1>. QED  BY <1>1, <1>2 DEF AllGenuine

LEMMA GenuineFirst ==
    ASSUME NEW M, NEW s, AllGenuine(M, s), Len(s) >= 1
    PROVE  Genuine(M, s[1].of)
<1>1. PICK S : s \in Seq(UnitIn(S)) /\ \A r \in S : Genuine(M, r)
  BY DEF AllGenuine
<1>2. s[1] \in UnitIn(S)
  BY <1>1
<1>3. s[1].of \in S
  BY <1>2 DEF UnitIn
<1>. QED  BY <1>1, <1>3

-----------------------------------------------------------------------------
(* The server's steps. *)

LEMMA SameMessages ==
    ASSUME cfg' = cfg
    PROVE  /\ Messages' = Messages /\ GoodHello' = GoodHello /\ GoodCertificate' = GoodCertificate
           /\ GoodSignature' = GoodSignature /\ GoodFlight' = GoodFlight
BY DEF Messages, Message, Hello, Signed, Mac, ServerTranscript, GoodHello, GoodCertificate,
       GoodSignature, GoodFlight

LEMMA ServerTrust ==
    ASSUME TrustInv, UNCHANGED <<pc, connection, cfg>>,
           server'.script \in Seq(HalfOf(Messages)), AllGenuine(Messages, toClient')
    PROVE  TrustInv'
<1>1. UNCHANGED <<pc, st, input, hs, decoded, transcript, cfg>>
  BY DEF connection
<1>2. Handled' = Handled
  BY <1>1 DEF Handled
<1>3. ControlInv' /\ Vetted'
  BY <1>1, <1>2, SameMessages DEF TrustInv, ControlInv, Vetted
<1>4. SourceInv'
  BY <1>1, SameMessages DEF TrustInv, SourceInv
<1>. QED  BY <1>1, <1>3, <1>4 DEF TrustInv

LEMMA HalvesOfMessages ==
    ASSUME NEW M, NEW s \in Seq(M)
    PROVE  HalvesOf(s) \in Seq(HalfOf(M))
<1>1. \A h \in 1 .. 2 * Len(s) : (h + 1) \div 2 \in 1 .. Len(s)
  OBVIOUS
<1>2. \A h \in 1 .. 2 * Len(s) : HalvesOf(s)[h] \in HalfOf(M)
  <2>. TAKE h \in 1 .. 2 * Len(s)
  <2>1. s[(h + 1) \div 2] \in M
    BY <1>1
  <2>2. HalvesOf(s)[h] = [half |-> IF h % 2 = 1 THEN 1 ELSE 2, of |-> s[(h + 1) \div 2]]
    BY DEF HalvesOf
  <2>. QED  BY <2>1, <2>2 DEF HalfOf
<1>3. 2 * Len(s) \in Nat /\ HalvesOf(s) = [h \in 1 .. 2 * Len(s) |-> HalvesOf(s)[h]]
  BY DEF HalvesOf
<1>. QED  BY <1>2, <1>3

LEMMA TwoHalves ==
    ASSUME NEW M, NEW m \in M
    PROVE  Halves(m) \in Seq(HalfOf(M))
<1>1. [half |-> 1, of |-> m] \in HalfOf(M) /\ [half |-> 2, of |-> m] \in HalfOf(M)
  BY DEF HalfOf
<1>. QED  BY <1>1 DEF Halves

LEMMA FlightMessages ==
    ASSUME cfg \in Servers
    PROVE  /\ Flight(Signed, Mac) = HalvesOf([i \in 1 .. Len(cfg.flight) |-> Message(cfg.flight[i])])
           /\ Flight(Signed, Mac) \in Seq(HalfOf(Messages))
<1>. DEFINE s == [i \in 1 .. Len(cfg.flight) |-> Message(cfg.flight[i])]
<1>1. cfg.flight \in Seq(FlightNames) /\ DOMAIN cfg.flight = 1 .. Len(cfg.flight)
  BY FlightIsNamed
<1>2. Flight(Signed, Mac) = HalvesOf(s)
  BY <1>1 DEF Flight, Message
<1>3. s \in Seq(Messages)
  BY <1>1 DEF Messages
<1>4. HalvesOf(s) \in Seq(HalfOf(Messages))
  BY <1>3, HalvesOfMessages
<1>. QED  BY <1>2, <1>4

\* A record of handshake messages, or without any.
LEMMA SealedIsGenuine ==
    ASSUME NEW M, NEW state, NEW typ, NEW c, typ = "Handshake" => c.halves \in Seq(HalfOf(M))
    PROVE  AllGenuine(M, Units(Sealed(state, typ, c)))
<1>1. Genuine(M, Sealed(state, typ, c))
  BY SealedFields DEF Genuine
<1>. QED  BY <1>1, GenuineOne

LEMMA ServerStepTrust ==
    ASSUME StreamInv, TrustInv, ServerHandshake \/ ServerReceives \/ ServerPosts
    PROVE  TrustInv'
<1>1. SourceInv /\ cfg \in Servers
  BY DEF TrustInv
<1>2. server.script \in Seq(HalfOf(Messages)) /\ AllGenuine(Messages, toClient)
  BY <1>1 DEF SourceInv
<1>3. DOMAIN server = ServerFields /\ server = [f \in ServerFields |-> server[f]]
  BY DEF StreamInv, ServerInv
<1>4. ASSUME NEW state, NEW typ, NEW c, typ = "Handshake" => c.halves \in Seq(HalfOf(Messages))
      PROVE  AllGenuine(Messages, toClient \o Units(Sealed(state, typ, c)))
  BY <1>2, <1>4, SealedIsGenuine, GenuineJoin
<1>5. CASE ServerAnswers
  <2>1. server'.script = Halves(Hello) /\ UNCHANGED <<pc, connection, cfg, toClient>>
    BY <1>3, <1>5 DEF ServerAnswers, ServerFields, Hello
  <2>2. server'.script \in Seq(HalfOf(Messages))
    <3>1. Hello \in Messages
      BY DEF Messages
    <3>. QED  BY <2>1, <3>1, TwoHalves
  <2>. QED  BY <1>2, <2>1, <2>2, ServerTrust
<1>6. CASE \E n \in Packings : ServerSendsHandshake(n)
  <2>1. PICK n \in Packings : ServerSendsHandshake(n)
    BY <1>6
  <2>. DEFINE k == IF n < Len(server.script) THEN n ELSE Len(server.script)
              h == SubSeq(server.script, 1, k)
  <2>2. /\ server'.script = SubSeq(server.script, k + 1, Len(server.script))
        /\ toClient' = toClient \o Units(Sealed(server.send, "Handshake", Handshakes(h)))
        /\ UNCHANGED <<pc, connection, cfg>>
    BY <1>3, <2>1 DEF ServerSendsHandshake, ServerFields
  <2>3. k \in Nat /\ k <= Len(server.script) /\ Len(server.script) \in Nat
    BY <1>2, TlsAssumption
  <2>. HIDE DEF k
  <2>4. h \in Seq(HalfOf(Messages)) /\ server'.script \in Seq(HalfOf(Messages))
    <3>1. 1 \in Nat \ {0} /\ k + 1 \in Nat \ {0}
      BY <2>3
    <3>. QED  BY ONLY <1>2, <2>2, <2>3, <3>1, PartOfSequence
  <2>. HIDE DEF h
  <2>5. Handshakes(h).halves = h
    BY DEF Handshakes
  <2>6. AllGenuine(Messages, toClient')
    BY <1>4, <2>2, <2>4, <2>5
  <2>. QED  BY <2>2, <2>4, <2>6, ServerTrust
<1>7. CASE ServerStartsFlight
  <2>1. /\ server'.script = Flight(Signed, Mac) /\ UNCHANGED <<pc, connection, cfg>>
        /\ toClient' = toClient \o Units(Sealed(Disabled, "ChangeCipherSpec", Handshakes(<<>>)))
    BY <1>3, <1>7 DEF ServerStartsFlight, ServerFields, Signed, Mac
  <2>2. AllGenuine(Messages, toClient')
    BY <1>4, <2>1
  <2>3. server'.script \in Seq(HalfOf(Messages))
    BY <1>1, <2>1, FlightMessages
  <2>. QED  BY <2>1, <2>2, <2>3, ServerTrust
<1>8. CASE ServerEndsFlight
  <2>1. server'.script = server.script /\ UNCHANGED <<pc, connection, cfg, toClient>>
    BY <1>3, <1>8 DEF ServerEndsFlight, ServerFields
  <2>. QED  BY <1>2, <2>1, ServerTrust
<1>9. CASE ServerReceives
  <2>. DEFINE after == IF WholeRecord(toServer) THEN ServerAccepts(toServer[1].of)
                                                ELSE [server EXCEPT !.phase = "failed"]
  <2>1. /\ server' = [after EXCEPT !.closed = (after.phase = "failed")]
        /\ UNCHANGED <<pc, connection, cfg>>
        /\ \/ toClient' = toClient
           \/ toClient' = toClient \o Units(Sealed(server.send, "Alert", Handshakes(<<>>)))
    BY <1>9 DEF ServerReceives
  <2>2. after.script = server.script /\ DOMAIN after = ServerFields
    <3>. DEFINE k == Fresh(Derived("c ap traffic", ServerTranscript(Len(cfg.flight) + 1)))
                b == server.got \o toServer[1].of.content.bytes
                a == Advanced(server.recv)
                u == Updated(server.recv)
    <3>1. after \in {[server EXCEPT !.phase = "failed"], [server EXCEPT !.got = b, !.recv = a],
                     [server EXCEPT !.phase = "open", !.recv = k], [server EXCEPT !.recv = u]}
      <4>1. server.phase \in {"sent", "open"}
        BY <1>9 DEF ServerReceives, ServerIsOpen
      <4>. QED  BY <4>1 DEF ServerAccepts
    <3>. HIDE DEF k, b, a, u, after
    <3>. QED  BY <1>3, <3>1 DEF ServerFields
  <2>. HIDE DEF after
  <2>3. server'.script = server.script
    BY <2>1, <2>2 DEF ServerFields
  <2>4. AllGenuine(Messages, toClient')
    BY <1>2, <1>4, <2>1
  <2>. QED  BY <1>2, <2>1, <2>3, <2>4, ServerTrust
<1>10. CASE ServerPosts
  <2>1. UNCHANGED <<pc, connection, cfg>> /\ server'.script = server.script
    BY <1>3, <1>10 DEF ServerPosts, ServerSendsData, ServerSendsTicket, ServerUpdatesKey, ServerCloses,
                       ServerFields
  <2>2. Halves(Ticket) \in Seq(HalfOf(Messages))
        /\ \A b \in BOOLEAN : Halves(KeyUpdate(b)) \in Seq(HalfOf(Messages))
    <3>1. Ticket \in Messages /\ \A b \in BOOLEAN : KeyUpdate(b) \in Messages
      BY DEF Messages
    <3>. QED  BY <3>1, TwoHalves
  <2>3. \A h : Handshakes(h).halves = h
    BY DEF Handshakes
  <2>4. CASE \E n \in {1, 2} : ServerSendsData(n)
    <3>1. PICK b : toClient' = toClient \o Units(Sealed(server.send, "ApplicationData", Data(b)))
      BY <2>4 DEF ServerSendsData
    <3>. QED  BY <1>2, <1>4, <2>1, <3>1, ServerTrust
  <2>5. CASE ServerSendsTicket
    <3>1. toClient' = toClient \o Units(Sealed(server.send, "Handshake", Handshakes(Halves(Ticket))))
      BY <2>5 DEF ServerSendsTicket, Ticket
    <3>2. AllGenuine(Messages, toClient')
      BY <1>4, <2>2, <2>3, <3>1
    <3>. QED  BY <1>2, <2>1, <3>2, ServerTrust
  <2>6. CASE \E request \in BOOLEAN : ServerUpdatesKey(request)
    <3>1. PICK b \in BOOLEAN :
             toClient' = toClient \o Units(Sealed(server.send, "Handshake",
                                                  Handshakes(Halves(KeyUpdate(b)))))
      BY <2>6 DEF ServerUpdatesKey
    <3>2. AllGenuine(Messages, toClient')
      BY <1>4, <2>2, <2>3, <3>1
    <3>. QED  BY <1>2, <2>1, <3>2, ServerTrust
  <2>7. CASE \E notified \in BOOLEAN : ServerCloses(notified)
    <3>1. \/ toClient' = toClient
          \/ toClient' = toClient \o Units(Sealed(server.send, "Alert", Handshakes(<<>>)))
      BY <2>7 DEF ServerCloses
    <3>2. AllGenuine(Messages, toClient')
      BY <1>2, <1>4, <3>1
    <3>. QED  BY <1>2, <2>1, <3>2, ServerTrust
  <2>. QED  BY <1>10, <2>4, <2>5, <2>6, <2>7 DEF ServerPosts
<1>. QED  BY <1>5, <1>6, <1>7, <1>8, <1>9, <1>10 DEF ServerHandshake
-----------------------------------------------------------------------------
(* The client's steps. *)

LEMMA SourcesKept ==
    ASSUME TrustInv, UNCHANGED external, AllGenuine(Messages, input'), AllGenuine(Messages, toClient'),
           hs' \in Seq(HalfOf(Messages)), decoded' \in Seq(Messages),
           \A i \in 1 .. Len(decoded') : HandshakeDecodes(decoded'[i])
    PROVE  SourceInv' /\ cfg' \in Servers
<1>1. server' = server /\ cfg' = cfg
  BY DEF external
<1>. QED  BY <1>1, SameMessages DEF TrustInv, SourceInv

\* A step that neither handles a message nor fails.
LEMMA StateTrust ==
    ASSUME TrustInv, UNCHANGED <<st, transcript, external>>, pc' = pc \/ (pc = "handshake" /\ pc' = "open" /\ st = "Connected"),
           SourceInv'
    PROVE  TrustInv'
<1>1. cfg' = cfg
  BY DEF external
<1>2. Handled' = Handled
  BY DEF Handled
<1>3. ControlInv'
  BY <1>2 DEF TrustInv, ControlInv
<1>4. Vetted'
  BY <1>1, <1>2, SameMessages DEF TrustInv, Vetted
<1>. QED  BY <1>1, <1>3, <1>4 DEF TrustInv

\* A message is handled: the n-th.
LEMMA HandledOne ==
    ASSUME TrustInv, decoded # <<>>, decoded' = Tail(decoded), UNCHANGED <<input, hs, toClient, external>>
    PROVE  /\ SourceInv' /\ cfg' \in Servers /\ cfg' = cfg
           /\ Head(decoded) \in Messages /\ HandshakeDecodes(Head(decoded))
<1>1. /\ decoded \in Seq(Messages) /\ \A i \in 1 .. Len(decoded) : HandshakeDecodes(decoded[i])
      /\ AllGenuine(Messages, input) /\ AllGenuine(Messages, toClient) /\ hs \in Seq(HalfOf(Messages))
  BY DEF TrustInv, SourceInv
<1>2. /\ Head(decoded) = decoded[1] /\ Len(decoded) >= 1 /\ Len(decoded) \in Nat /\ Head(decoded) \in Messages
      /\ Len(decoded') = Len(decoded) - 1 /\ decoded' \in Seq(Messages)
      /\ \A i \in 1 .. Len(decoded) - 1 : decoded'[i] = decoded[i + 1]
  BY <1>1
<1>3. HandshakeDecodes(Head(decoded))
  BY <1>1, <1>2
<1>4. \A i \in 1 .. Len(decoded') : HandshakeDecodes(decoded'[i])
  BY <1>1, <1>2
<1>. QED  BY <1>1, <1>2, <1>3, <1>4, SourcesKept DEF external

LEMMA HandleServerHelloTrust ==
    ASSUME TrustInv, Processes, HandleServerHello
    PROVE  TrustInv'
<1>1. /\ decoded # <<>> /\ Head(decoded).name = "ServerHello" /\ decoded' = Tail(decoded)
      /\ UNCHANGED <<pc, input, hs, toClient, external>>
      /\ st = "WaitServerHello" /\ st' = "WaitEncryptedExtensions"
      /\ ServerHelloAccepted(Head(decoded).hello) /\ transcript' = Append(transcript, "ServerHello")
      /\ pc \in {"handshake", "open"}
  BY DEF HandleServerHello, Handle, Hashed, Processes
<1>2. SourceInv' /\ cfg' \in Servers /\ cfg' = cfg /\ Head(decoded) \in Messages /\ HandshakeDecodes(Head(decoded))
  BY <1>1, HandledOne
<1>3. Head(decoded) = Hello
  BY <1>1, <1>2, MessagesByName DEF TrustInv
<1>4. GoodHello
  BY <1>1, <1>2, <1>3 DEF GoodHello, Hello, HandshakeDecodes
<1>5. Handled = 0 /\ Handled' = 1
  BY <1>1 DEF Handled
<1>6. transcript' = Hashes(1)
  BY <1>1, <1>5, HashesGrow DEF TrustInv, ControlInv, Order
<1>7. ControlInv'
  BY <1>1, <1>5, <1>6 DEF TrustInv, ControlInv
<1>8. Vetted'
  BY <1>2, <1>4, <1>5, SameMessages DEF Vetted
<1>. QED  BY <1>2, <1>7, <1>8 DEF TrustInv

LEMMA HandleExtensionsTrust ==
    ASSUME TrustInv, Processes, HandleEncryptedExtensions
    PROVE  TrustInv'
<1>1. /\ decoded # <<>> /\ Head(decoded).name = "EncryptedExtensions" /\ decoded' = Tail(decoded)
      /\ UNCHANGED <<pc, input, hs, toClient, external>>
      /\ st = "WaitEncryptedExtensions" /\ st' = "WaitCertificate"
      /\ transcript' = Append(transcript, "EncryptedExtensions")
      /\ pc \in {"handshake", "open"}
  BY DEF HandleEncryptedExtensions, Handle, Hashed, Processes
<1>2. SourceInv' /\ cfg' \in Servers /\ cfg' = cfg /\ Head(decoded) \in Messages /\ HandshakeDecodes(Head(decoded))
  BY <1>1, HandledOne
<1>3. Head(decoded).list = cfg.list
  BY <1>1, <1>2, MessagesByName, MessageNames DEF TrustInv, FlightNames
<1>4. cfg.list = {}
  BY <1>1, <1>2, <1>3 DEF HandshakeDecodes
<1>5. Handled = 1 /\ Handled' = 2
  BY <1>1 DEF Handled
<1>6. transcript' = Hashes(2)
  BY <1>1, <1>5, HashesGrow DEF TrustInv, ControlInv, Order
<1>7. ControlInv'
  BY <1>1, <1>5, <1>6 DEF TrustInv, ControlInv
<1>8. Vetted'
  BY <1>2, <1>4, <1>5, SameMessages DEF TrustInv, Vetted
<1>. QED  BY <1>2, <1>7, <1>8 DEF TrustInv

LEMMA HandleCertificateTrust ==
    ASSUME TrustInv, Processes, HandleCertificate
    PROVE  TrustInv'
<1>1. /\ decoded # <<>> /\ Head(decoded).name = "Certificate" /\ decoded' = Tail(decoded)
      /\ UNCHANGED <<pc, input, hs, toClient, external>>
      /\ st = "WaitCertificate" /\ st' = "WaitCertificateVerify"
      /\ CertificateAccepted(Head(decoded).cert) /\ transcript' = Append(transcript, "Certificate")
      /\ pc \in {"handshake", "open"}
  BY DEF HandleCertificate, Handle, Hashed, Processes
<1>2. SourceInv' /\ cfg' \in Servers /\ cfg' = cfg /\ Head(decoded) \in Messages /\ HandshakeDecodes(Head(decoded))
  BY <1>1, HandledOne
<1>3. Head(decoded).cert = cfg.cert
  BY <1>1, <1>2, MessagesByName, MessageNames DEF TrustInv, FlightNames
<1>4. GoodCertificate
  BY <1>1, <1>2, <1>3 DEF HandshakeDecodes, GoodCertificate
<1>5. Handled = 2 /\ Handled' = 3
  BY <1>1 DEF Handled
<1>6. transcript' = Hashes(3)
  BY <1>1, <1>5, HashesGrow DEF TrustInv, ControlInv, Order
<1>7. ControlInv'
  BY <1>1, <1>5, <1>6 DEF TrustInv, ControlInv
<1>8. Vetted'
  BY <1>2, <1>4, <1>5, SameMessages DEF TrustInv, Vetted
<1>. QED  BY <1>2, <1>7, <1>8 DEF TrustInv

LEMMA HandleVerifyTrust ==
    ASSUME TrustInv, Processes, HandleCertificateVerify
    PROVE  TrustInv'
<1>1. /\ decoded # <<>> /\ Head(decoded).name = "CertificateVerify" /\ decoded' = Tail(decoded)
      /\ UNCHANGED <<pc, input, hs, toClient, external>>
      /\ st = "WaitCertificateVerify" /\ st' = "WaitFinished"
      /\ SignatureAccepted(Head(decoded), transcript)
      /\ transcript' = Append(transcript, "CertificateVerify")
      /\ pc \in {"handshake", "open"}
  BY DEF HandleCertificateVerify, Handle, Hashed, Processes
<1>2. SourceInv' /\ cfg' \in Servers /\ cfg' = cfg /\ Head(decoded) \in Messages /\ HandshakeDecodes(Head(decoded))
  BY <1>1, HandledOne
<1>3. Head(decoded).scheme = cfg.scheme /\ Head(decoded).signed = Signed
  BY <1>1, <1>2, MessagesByName, MessageNames DEF TrustInv, FlightNames
<1>4. Handled = 3 /\ Handled' = 4
  BY <1>1 DEF Handled
<1>5. transcript = Hashes(3)
  BY <1>1, <1>4 DEF TrustInv, ControlInv
<1>6. cfg.scheme = OFFERED_SIG_SCHEME /\ Signed # <<>>
  BY <1>1, <1>3, <1>5, HashesAreSome DEF SignatureAccepted
<1>7. GoodSignature
  BY <1>6 DEF Signed, GoodSignature
<1>8. transcript' = Hashes(4)
  BY <1>1, <1>5, HashesGrow DEF Order
<1>9. ControlInv'
  BY <1>1, <1>4, <1>8 DEF TrustInv, ControlInv
<1>10. Vetted'
  BY <1>2, <1>4, <1>7, SameMessages DEF TrustInv, Vetted
<1>. QED  BY <1>2, <1>9, <1>10 DEF TrustInv

LEMMA HandleFinishedTrust ==
    ASSUME TrustInv, Processes, HandleFinished
    PROVE  TrustInv'
<1>1. /\ decoded # <<>> /\ Head(decoded).name = "Finished" /\ decoded' = Tail(decoded)
      /\ UNCHANGED <<pc, input, hs, toClient, external>>
      /\ st = "WaitFinished" /\ st' = "Connected"
      /\ Head(decoded).mac = transcript
      /\ transcript' = Append(transcript, "Finished")
      /\ pc \in {"handshake", "open"}
  BY DEF HandleFinished, Handle, Hashed, Processes, VerifiesFinished
<1>2. SourceInv' /\ cfg' \in Servers /\ cfg' = cfg /\ Head(decoded) \in Messages /\ HandshakeDecodes(Head(decoded))
  BY <1>1, HandledOne
<1>3. Head(decoded).mac = Mac /\ \E i \in 1 .. Len(cfg.flight) : cfg.flight[i] = "Finished"
  BY <1>1, <1>2, MessagesByName, MessageNames DEF TrustInv, FlightNames
<1>4. Handled = 4 /\ Handled' = 5
  BY <1>1 DEF Handled
<1>5. transcript = Hashes(4)
  BY <1>1, <1>4 DEF TrustInv, ControlInv
<1>6. Mac = Hashes(4) /\ Mac # <<>>
  BY <1>1, <1>3, <1>5, HashesAreSome
<1>7. GoodFlight
  BY <1>3, <1>6 DEF Mac, GoodFlight
<1>8. transcript' = Hashes(5)
  BY <1>1, <1>5, HashesGrow DEF Order
<1>9. ControlInv'
  BY <1>1, <1>4, <1>8 DEF TrustInv, ControlInv
<1>10. Vetted'
  BY <1>2, <1>4, <1>7, SameMessages DEF TrustInv, Vetted
<1>. QED  BY <1>2, <1>9, <1>10 DEF TrustInv

LEMMA ConnectedTrust ==
    ASSUME TrustInv, HandleTicket \/ HandleKeyUpdate
    PROVE  TrustInv'
<1>1. /\ decoded # <<>> /\ decoded' = Tail(decoded)
      /\ UNCHANGED <<pc, st, transcript, input, hs, toClient, external>>
  BY DEF HandleTicket, HandleKeyUpdate, Handle
<1>2. SourceInv'
  BY <1>1, HandledOne
<1>. QED  BY <1>1, <1>2, StateTrust

LEMMA SourcesNow ==
    ASSUME TrustInv
    PROVE  /\ AllGenuine(Messages, input) /\ AllGenuine(Messages, toClient)
           /\ hs \in Seq(HalfOf(Messages)) /\ decoded \in Seq(Messages)
           /\ \A i \in 1 .. Len(decoded) : HandshakeDecodes(decoded[i])
BY DEF TrustInv, SourceInv

LEMMA StartTrust ==
    ASSUME TrustInv, Start
    PROVE  TrustInv'
<1>1. /\ st' = "WaitServerHello" /\ pc' = "handshake" /\ transcript' = <<"ClientHello">>
      /\ UNCHANGED <<input, hs, decoded, toClient, external>>
  BY DEF Start
<1>2. SourceInv' /\ cfg' \in Servers
  BY <1>1, SourcesNow, SourcesKept
<1>3. Handled' = 0
  BY <1>1 DEF Handled
<1>4. Hashes(0) = <<"ClientHello">>
  BY DEF Hashes, Order
<1>5. ControlInv' /\ Vetted'
  BY <1>1, <1>3, <1>4 DEF ControlInv, Vetted
<1>. QED  BY <1>2, <1>5 DEF TrustInv

LEMMA ErrorTrust ==
    ASSUME TrustInv, StagesInv, Processes, ReceiveAlert \/ RefuseRecord \/ RefuseHandshake
    PROVE  TrustInv'
<1>1. /\ processing /\ st' = "err" /\ input' = <<>> /\ pc' = IF pc = "handshake" THEN "refused" ELSE pc
      /\ decoded' = <<>> /\ UNCHANGED <<hs, transcript, toClient, external>>
  BY DEF ReceiveAlert, RefuseRecord, RefuseHandshake, Fail, Received, NextRecord, external
<1>2. pc \in {"handshake", "open"} /\ st # "err"
  BY <1>1 DEF Processes
<1>3. SourceInv' /\ cfg' \in Servers
  BY <1>1, SourcesNow, SourcesKept, GenuineNone
<1>4. cfg' = cfg
  BY <1>1 DEF external
<1>5. ControlInv'
  BY <1>1, <1>2 DEF ControlInv
<1>6. CASE pc = "open"
  <2>1. Handled = 5 /\ Handled' = 5
    BY <1>1, <1>2, <1>6 DEF TrustInv, ControlInv, Handled
  <2>2. Vetted'
    BY <1>4, <2>1, SameMessages DEF TrustInv, Vetted
  <2>. QED  BY <1>3, <1>5, <2>2 DEF TrustInv
<1>7. CASE pc = "handshake"
  <2>1. Handled' = 0
    BY <1>1, <1>7 DEF Handled
  <2>2. Vetted'
    BY <2>1 DEF Vetted
  <2>. QED  BY <1>3, <1>5, <2>2 DEF TrustInv
<1>. QED  BY <1>2, <1>6, <1>7

LEMMA ReadTrust ==
    ASSUME TrustInv, NEW n \in 0 .. Len(toClient), HandshakeRead(n) \/ PollReadTls(n)
    PROVE  TrustInv'
<1>1. /\ ReadTls(n) /\ UNCHANGED <<pc, st, hs, decoded, transcript, external>>
  BY DEF HandshakeRead, PollReadTls
<1>2. /\ AllGenuine(Messages, input) /\ AllGenuine(Messages, toClient)
  BY SourcesNow
<1>3. PICK S : toClient \in Seq(UnitIn(S))
  BY <1>2 DEF AllGenuine
<1>4. n \in Nat /\ n <= Len(toClient) /\ Len(toClient) \in Nat /\ 1 \in Nat \ {0} /\ n + 1 \in Nat \ {0}
  BY <1>3
<1>5. AllGenuine(Messages, SubSeq(toClient, 1, n)) /\ AllGenuine(Messages, SubSeq(toClient, n + 1, Len(toClient)))
  BY <1>2, <1>4, GenuineCut
<1>6. AllGenuine(Messages, input') /\ AllGenuine(Messages, toClient')
  BY <1>1, <1>2, <1>5, GenuineJoin DEF ReadTls
<1>7. SourceInv'
  BY <1>1, <1>6, SourcesNow, SourcesKept
<1>. QED  BY <1>1, <1>7, StateTrust

\* A record is taken from the input.
LEMMA ConsumedTrust ==
    ASSUME TrustInv, Consumed, Len(input) >= 2
    PROVE  AllGenuine(Messages, input') /\ Genuine(Messages, record)
<1>1. AllGenuine(Messages, input)
  BY SourcesNow
<1>2. PICK S : input \in Seq(UnitIn(S))
  BY <1>1 DEF AllGenuine
<1>3. Len(input) \in Nat /\ 3 \in Nat \ {0}
  BY <1>2
<1>4. AllGenuine(Messages, SubSeq(input, 3, Len(input)))
  BY <1>1, <1>3, GenuineCut
<1>. QED  BY <1>1, <1>2, <1>4, GenuineFirst DEF Consumed, record

LEMMA RecordTrust ==
    ASSUME TrustInv, DiscardCcs \/ ReceiveData
    PROVE  TrustInv'
<1>1. /\ Consumed /\ Len(input) >= 2 /\ UNCHANGED <<pc, st, hs, decoded, transcript, toClient, external>>
  BY DEF DiscardCcs, ReceiveData, Received, NextRecord, WholeRecord
<1>2. SourceInv'
  BY <1>1, ConsumedTrust, SourcesNow, SourcesKept
<1>. QED  BY <1>1, <1>2, StateTrust

LEMMA HalfOfNumber ==
    ASSUME NEW n \in Nat
    PROVE  n \div 2 \in Nat /\ \A i \in 1 .. n \div 2 : 2 * i \in 1 .. n
OBVIOUS

LEMMA WholeMessages ==
    ASSUME NEW M, NEW s \in Seq(HalfOf(M))
    PROVE  Whole(s) \in Seq(M)
<1>1. PICK n \in Nat : n = Len(s)
  OBVIOUS
<1>2. n \div 2 \in Nat /\ \A i \in 1 .. n \div 2 : 2 * i \in 1 .. n
  BY HalfOfNumber
<1>3. \A i \in 1 .. n : s[i].of \in M
  <2>1. \A i \in 1 .. n : s[i] \in HalfOf(M)
    BY <1>1
  <2>2. \A x \in HalfOf(M) : x.of \in M
    BY DEF HalfOf
  <2>. QED  BY <2>1, <2>2
<1>4. \A i \in 1 .. n \div 2 : s[2 * i].of \in M
  BY <1>2, <1>3
<1>5. Whole(s) = [i \in 1 .. n \div 2 |-> s[2 * i].of]
  BY <1>1 DEF Whole
<1>. QED  BY <1>2, <1>4, <1>5

LEMMA HandshakeTrust ==
    ASSUME TrustInv, ReceiveHandshake
    PROVE  TrustInv'
<1>. DEFINE buffer == hs \o record.content.halves
<1>1. /\ Consumed /\ Len(input) >= 2 /\ UNCHANGED <<pc, st, transcript, toClient, external>>
      /\ decoded' = Whole(buffer) /\ hs' = Rest(buffer) /\ RecordType = "Handshake"
      /\ \A i \in DOMAIN Whole(buffer) : HandshakeDecodes(Whole(buffer)[i])
  BY DEF ReceiveHandshake, Received, NextRecord, WholeRecord
<1>2. AllGenuine(Messages, input') /\ Genuine(Messages, record)
  BY <1>1, ConsumedTrust
<1>3. record.content.halves \in Seq(HalfOf(Messages))
  BY <1>1, <1>2 DEF RecordType, Genuine
<1>4. buffer \in Seq(HalfOf(Messages))
  BY ONLY <1>3, SourcesNow, Joined, TrustInv
<1>. HIDE DEF buffer
<1>5. decoded' \in Seq(Messages) /\ hs' \in Seq(HalfOf(Messages))
  BY <1>1, <1>4, WholeMessages, WholeAndRest
<1>6. \A i \in 1 .. Len(decoded') : HandshakeDecodes(decoded'[i])
  BY <1>1, <1>5
<1>7. SourceInv'
  BY <1>1, <1>2, <1>5, <1>6, SourcesNow, SourcesKept
<1>. QED  BY <1>1, <1>7, StateTrust

LEMMA QuietTrust ==
    ASSUME TrustInv, StagesInv,
           HandshakeProcessed \/ PollProcessed \/ (\E n \in 0 .. Len(data) : PollRead(n)) \/ Write
    PROVE  TrustInv'
<1>1. /\ UNCHANGED <<st, input, hs, decoded, transcript, toClient, external>>
      /\ pc' = pc \/ (pc = "handshake" /\ pc' = "open" /\ ~IsHandshaking)
  BY DEF HandshakeProcessed, PollProcessed, PollRead, Write, PollWrite, PollWriteFails
<1>2. pc = "handshake" /\ ~IsHandshaking => st = "Connected"
  BY DEF StagesInv, IsHandshaking
<1>3. SourceInv'
  BY <1>1, SourcesNow, SourcesKept
<1>. QED  BY <1>1, <1>2, <1>3, StateTrust

LEMMA StutterTrust ==
    ASSUME TrustInv, UNCHANGED vars
    PROVE  TrustInv'
<1>1. UNCHANGED <<pc, st, input, hs, decoded, transcript, toClient, external>>
  BY DEF vars, connection
<1>2. SourceInv'
  BY <1>1, SourcesNow, SourcesKept
<1>. QED  BY <1>1, <1>2, StateTrust

LEMMA InitialTrust ==
    ASSUME Init
    PROVE  TrustInv
<1>1. SourceInv
  BY GenuineNone DEF Init, SourceInv
<1>2. Handled = 0
  BY DEF Init, Handled
<1>3. ControlInv /\ Vetted
  BY <1>2 DEF Init, ControlInv, Vetted
<1>. QED  BY <1>1, <1>3 DEF Init, TrustInv

LEMMA TrustStep ==
    ASSUME TrustInv, StreamInv, StagesInv, Next
    PROVE  TrustInv'
<1>1. Processes
  BY DEF StreamInv
<1>2. CASE Client
  BY <1>1, <1>2, StartTrust, ReadTrust, QuietTrust, RecordTrust, HandshakeTrust, ErrorTrust, ConnectedTrust,
     HandleServerHelloTrust, HandleExtensionsTrust, HandleCertificateTrust, HandleVerifyTrust,
     HandleFinishedTrust DEF Client, ProcessNewPackets
<1>3. CASE Write
  BY <1>3, QuietTrust
<1>4. CASE ServerHandshake \/ ServerReceives \/ ServerPosts
  BY <1>4, ServerStepTrust
<1>. QED  BY <1>2, <1>3, <1>4 DEF Next

\* What it has checked by then makes the server a good one.
LEMMA OpenIsGood ==
    ASSUME TrustInv, pc = "open"
    PROVE  cfg \in SupportedServers \cup LaxServers
<1>1. Handled = 5 /\ cfg \in Servers
  BY DEF TrustInv, ControlInv, Handled
<1>2. /\ GoodHello /\ cfg.list = {} /\ GoodCertificate /\ GoodSignature /\ GoodFlight
  BY <1>1 DEF TrustInv, Vetted
<1>3. AnswersOffer(cfg.hello) \/ CarriesMore(cfg.hello)
  <2>. DEFINE h == cfg.hello
  <2>1. /\ h.version = "TLSv1_2" /\ h.session = "empty" /\ h.compression = "none"
        /\ h.random \notin {"downgrade", "helloRetryRequest"} /\ h.suite = OFFERED_CIPHERSUITE
        /\ NotRepeated(h.extensions)
        /\ \A i \in DOMAIN h.extensions : ExtensionDecodes(h.extensions[i], FALSE)
    BY <1>2 DEF GoodHello, ServerHelloDecodes, LegacyFieldsDecode, IsDowngrade, ServerHelloAccepted, Retry
  <2>2. NegotiatesVersion(h) /\ SharesKey(h)
    BY <1>2 DEF GoodHello, ServerHelloAccepted
  <2>. HIDE DEF h
  <2>3. \A i, j \in DOMAIN h.extensions :
           h.extensions[i].typ = h.extensions[j].typ /\ h.extensions[i].typ # "ServerName" => i = j
    BY <2>1 DEF NotRepeated
  <2>4. HasOnce(h, "SupportedVersions", Offers.versions)
    BY <2>2, <2>3 DEF NegotiatesVersion, HasOnce, Offers
  <2>5. HasOnce(h, "KeyShare", Offers.groups)
    <3>1. PICK i \in DOMAIN h.extensions : h.extensions[i].typ = "KeyShare"
      BY <2>2 DEF SharesKey, HasExtension
    <3>2. h.extensions[i].value = "x25519"
      BY <2>1, <3>1 DEF ExtensionDecodes, KeyShareDecodes
    <3>. QED  BY <2>3, <3>1, <3>2 DEF HasOnce, Offers
  <2>6. TakesUpOffer(h)
    BY <2>1, <2>4, <2>5 DEF TakesUpOffer, EchoesClient, ClientHello, Offers
  <2>7. ASSUME NEW i \in DOMAIN h.extensions
        PROVE  \/ h.extensions[i].typ \in {"SupportedVersions", "KeyShare"}
               \/ WellFormedMore(h.extensions[i])
    BY <2>1 DEF ExtensionDecodes, WellFormedMore
  <2>8. AnswersOffer(h) \/ CarriesMore(h)
    BY <2>6, <2>7 DEF AnswersOffer, CarriesMore, HasOnly
  <2>. QED  BY <2>8 DEF h
<1>4. cfg.flight = <<"EncryptedExtensions", "Certificate", "CertificateVerify", "Finished">>
  <2>. DEFINE f == cfg.flight
              n == Len(f)
              t == SubSeq(f, 1, n - 1)
  <2>1. f \in Seq(FlightNames) /\ n \in Nat
    BY <1>1, FlightIsNamed
  <2>2. PICK i \in 1 .. n : f[i] = "Finished"
    BY <1>2 DEF GoodFlight
  <2>3. n >= 1 /\ t \in Seq(FlightNames) /\ Len(t) = n - 1 /\ \A j \in 1 .. n - 1 : t[j] = f[j]
    BY <2>1, <2>2
  <2>4. Hellos \o t = Hashes(4)
    BY <1>2 DEF GoodFlight, ServerTranscript
  <2>. HIDE DEF t, n, f
  <2>5. PICK A : A = {"ClientHello", "ServerHello"} \cup FlightNames
    OBVIOUS
  <2>6. Len(Hellos \o t) = 2 + (n - 1) /\ \A j \in 1 .. n - 1 : (Hellos \o t)[2 + j] = t[j]
    <3>1. FlightNames \subseteq A /\ "ClientHello" \in A /\ "ServerHello" \in A
      BY <2>5
    <3>2. Hellos \in Seq(A) /\ Len(Hellos) = 2
      BY <3>1 DEF Hellos
    <3>3. t \in Seq(A)
      BY ONLY <2>3, <3>1, SequenceOfMore
    <3>4. PICK h \in Seq(A), x \in Seq(A) : h = Hellos /\ x = t
      BY <3>2, <3>3
    <3>5. Len(h \o x) = Len(h) + Len(x) /\ \A j \in 1 .. Len(x) : (h \o x)[Len(h) + j] = x[j]
      BY ONLY h \in Seq(A), x \in Seq(A), Joined
    <3>6. Len(x) = n - 1 /\ Len(h) = 2
      BY <2>3, <3>2, <3>4
    <3>7. Len(h \o x) = 2 + (n - 1) /\ \A j \in 1 .. n - 1 : (h \o x)[2 + j] = x[j]
      BY ONLY <3>5, <3>6
    <3>. QED  BY <3>4, <3>7
  <2>7. Len(Hashes(4)) = 5 /\ \A j \in 1 .. 5 : Hashes(4)[j] = Order[j]
    <3>1. Hashes(4) = [j \in 1 .. 5 |-> Order[j]]
      BY DEF Hashes
    <3>. QED  BY <3>1
  <2>8. n = 4
    <3>1. 2 + (n - 1) = 5
      BY <2>4, <2>6, <2>7
    <3>. QED  BY <2>1, <3>1
  <2>9. f[1] = Order[3] /\ f[2] = Order[4] /\ f[3] = Order[5]
    BY <2>3, <2>4, <2>6, <2>7, <2>8
  <2>10. i = 4
    BY <2>2, <2>8, <2>9 DEF Order
  <2>. QED  BY <2>1, <2>2, <2>8, <2>9, <2>10 DEF Order, f, n
<1>. QED
  BY <1>1, <1>2, <1>3, <1>4
     DEF SupportedServers, GoodServers, LaxServers, Unsupported, Proves, Flights, ShortFlight, Answerable,
         Offers, AnswersOffer, CarriesMore, TakesUpOffer, Retry, Range, GoodCertificate, CertificateDecodes,
         EntriesDecode, CertificateAccepted, GoodSignature, GoodFlight

\* A stream only opens with a server that follows the protocol as far as the client supports it,
\* or whose ServerHello carries a cookie or server names besides.
THEOREM OpensOnlyToGood == Spec => []BadServerRefused
<1>1. TrustInv => BadServerRefused
  BY OpenIsGood DEF BadServerRefused
<1>2. Init => TrustInv /\ StreamInv
  BY InitialTrust, InitialStream
<1>3. StreamInv /\ NonceInv /\ [Next]_vars => StreamInv'
  BY StreamStep, StreamStutter DEF NonceInv
<1>4. TrustInv /\ StreamInv /\ NonceInv /\ [Next]_vars => TrustInv'
  BY TrustStep, StutterTrust DEF NonceInv
<1>. QED  BY <1>1, <1>2, <1>3, <1>4, Invariant, PTL DEF Spec
-----------------------------------------------------------------------------
(* What either side expects of the other: positions that records lead on from.   *)

ServerHsKeys == Fresh(Derived("s hs traffic", Hellos))
ServerApKeys == Fresh(Derived("s ap traffic", Order))
ClientHsKeys == Fresh(Derived("c hs traffic", Hellos))
ClientApKeys == Fresh(Derived("c ap traffic", Order))

\* From the server: T are the halves of its handshake, n of them were sent, and
\* what follows is under the keys dec.
DownStep(T, p, r, q) ==
    \/ /\ p.n < q.n /\ q.n <= 10 /\ (q.n <= 2 \/ p.n >= 2)
       /\ r = Sealed(p.dec, "Handshake", Handshakes([i \in 1 .. q.n - p.n |-> T[p.n + i]]))
       /\ q.dec = IF q.n = 2 THEN ServerHsKeys
                  ELSE IF q.n = 10 THEN ServerApKeys ELSE Advanced(p.dec)
    \/ /\ p.n = 2 /\ q = p
       /\ r = Sealed(Disabled, "ChangeCipherSpec", Handshakes(<<>>))
    \/ /\ p.n = 10 /\ q.n = 10 /\ q.dec = Advanced(p.dec)
       /\ \/ \E c : r = Sealed(p.dec, "ApplicationData", c)
          \/ r = Sealed(p.dec, "Handshake", Handshakes(Halves(Ticket)))
    \/ /\ p.n = 10 /\ q.n = 10 /\ q.dec = Updated(p.dec)
       /\ \E b \in BOOLEAN : r = Sealed(p.dec, "Handshake", Handshakes(Halves(KeyUpdate(b))))

\* From the client: n bytes of the application were sent, and what follows is
\* under the keys recv.
UpStep(p, r, q) ==
    \/ /\ p.at = "hello" /\ r.content = Handshakes(Halves(ClientHello))
       /\ q = [at |-> "sent", recv |-> ClientHsKeys, n |-> p.n]
    \/ /\ p.at = "sent"
       /\ r = Sealed(p.recv, "Handshake", Handshakes(Halves(OurFinished(Order))))
       /\ q = [at |-> "open", recv |-> ClientApKeys, n |-> p.n]
    \/ /\ p.at = "open" /\ q = [at |-> "open", recv |-> Advanced(p.recv), n |-> q.n] /\ p.n <= q.n
       /\ r = Sealed(p.recv, "ApplicationData", Data([i \in 1 .. q.n - p.n |-> p.n + i]))
    \/ /\ p.at = "open" /\ q = [at |-> "open", recv |-> Updated(p.recv), n |-> p.n]
       /\ r = Sealed(p.recv, "Handshake", Handshakes(Halves(KeyUpdate(FALSE))))

Step(side, T, p, r, q) == IF side = "server" THEN DownStep(T, p, r, q) ELSE UpStep(p, r, q)

\* The records rs lead from d[0] to d[Len(rs)].
Way(side, T, rs, d) ==
    /\ \A i \in 1 .. Len(rs) : Step(side, T, d[i - 1], rs[i], d[i])
    /\ \A i \in 0 .. Len(rs) : d[i].n \in Nat /\ d[i].n <= d[Len(rs)].n

\* The units s and then t are those of records that lead from a to b.
Leads(S, D, rs, d, side, T, s, t, a, b) ==
    /\ rs \in Seq(S) /\ s \in Seq(UnitIn(S)) /\ t \in Seq(UnitIn(S)) /\ s \o t = UnitsOf(rs)
    /\ d \in [0 .. Len(rs) -> D] /\ d[0] = a /\ d[Len(rs)] = b
    /\ Way(side, T, rs, d)

Flow(side, T, s, t, a, b) == \E S, D, rs, d : Leads(S, D, rs, d, side, T, s, t, a, b)

LEMMA UnitOfRecord ==
    ASSUME NEW S, NEW r \in S, NEW u \in Nat
    PROVE  [part |-> IF u % 2 = 1 THEN "header" ELSE "body", of |-> r] \in UnitIn(S)
<1>1. CASE u % 2 = 1
  BY <1>1 DEF UnitIn
<1>2. CASE ~(u % 2 = 1)
  BY <1>2 DEF UnitIn
<1>. QED  BY <1>1, <1>2

LEMMA UnitsTyped ==
    ASSUME NEW S, NEW rs \in Seq(S)
    PROVE  UnitsOf(rs) \in Seq(UnitIn(S)) /\ Len(UnitsOf(rs)) = 2 * Len(rs)
<1>1. PICK n \in Nat : n = Len(rs)
  OBVIOUS
<1>2. \A u \in 1 .. 2 * n : (u + 1) \div 2 \in 1 .. n
  OBVIOUS
<1>3. \A i \in 1 .. n : rs[i] \in S
  BY <1>1
<1>4. \A u \in 1 .. 2 * n : [part |-> IF u % 2 = 1 THEN "header" ELSE "body", of |-> rs[(u + 1) \div 2]] \in UnitIn(S)
  BY <1>2, <1>3, UnitOfRecord
<1>5. UnitsOf(rs) = [u \in 1 .. 2 * n |-> [part |-> IF u % 2 = 1 THEN "header" ELSE "body",
                                            of |-> rs[(u + 1) \div 2]]]
  BY <1>1 DEF UnitsOf
<1>. QED  BY <1>1, <1>4, <1>5

LEMMA HalfOfSum ==
    ASSUME NEW n \in Nat, NEW m \in Nat, NEW v \in 1 .. 2 * m
    PROVE  (2 * n + v + 1) \div 2 = n + (v + 1) \div 2 /\ (v + 1) \div 2 \in 1 .. m /\ (2 * n + v) % 2 = v % 2
OBVIOUS

LEMMA UnitsJoin ==
    ASSUME NEW S, NEW rs \in Seq(S), NEW qs \in Seq(S)
    PROVE  UnitsOf(rs) \o UnitsOf(qs) = UnitsOf(rs \o qs)
<1>1. PICK n \in Nat, m \in Nat : n = Len(rs) /\ m = Len(qs)
  OBVIOUS
<1>. DEFINE unit(x, u) == [part |-> IF u % 2 = 1 THEN "header" ELSE "body", of |-> x]
            a == rs \o qs
            c == UnitsOf(rs) \o UnitsOf(qs)
<1>2. a \in Seq(S) /\ Len(a) = n + m /\ (\A i \in 1 .. n : a[i] = rs[i]) /\ (\A i \in 1 .. m : a[n + i] = qs[i])
  <2>1. /\ a \in Seq(S) /\ Len(a) = Len(rs) + Len(qs) /\ (\A i \in 1 .. Len(rs) : a[i] = rs[i])
        /\ (\A i \in 1 .. Len(qs) : a[Len(rs) + i] = qs[i])
    BY ONLY rs \in Seq(S), qs \in Seq(S), Joined
  <2>. HIDE DEF a
  <2>. QED  BY <1>1, <2>1
<1>3. /\ UnitsOf(rs) \in Seq(UnitIn(S)) /\ Len(UnitsOf(rs)) = 2 * n
      /\ UnitsOf(qs) \in Seq(UnitIn(S)) /\ Len(UnitsOf(qs)) = 2 * m
  BY <1>1, UnitsTyped
<1>4. /\ c \in Seq(UnitIn(S)) /\ Len(c) = 2 * n + 2 * m /\ (\A i \in 1 .. 2 * n : c[i] = UnitsOf(rs)[i])
      /\ (\A i \in 1 .. 2 * m : c[2 * n + i] = UnitsOf(qs)[i])
  <2>1. PICK x \in Seq(UnitIn(S)), y \in Seq(UnitIn(S)) : x = UnitsOf(rs) /\ y = UnitsOf(qs)
    BY <1>3
  <2>2. /\ x \o y \in Seq(UnitIn(S)) /\ Len(x \o y) = Len(x) + Len(y)
        /\ (\A i \in 1 .. Len(x) : (x \o y)[i] = x[i])
        /\ (\A i \in 1 .. Len(y) : (x \o y)[Len(x) + i] = y[i])
    BY ONLY x \in Seq(UnitIn(S)), y \in Seq(UnitIn(S)), Joined
  <2>3. Len(x) = 2 * n /\ Len(y) = 2 * m /\ c = x \o y
    BY <1>3, <2>1
  <2>. HIDE DEF c
  <2>4. /\ c \in Seq(UnitIn(S)) /\ Len(c) = 2 * n + 2 * m /\ (\A i \in 1 .. 2 * n : c[i] = x[i])
        /\ (\A i \in 1 .. 2 * m : c[2 * n + i] = y[i])
    BY ONLY <2>2, <2>3
  <2>. QED  BY <2>1, <2>4
<1>. HIDE DEF a, c
<1>5. UnitsOf(a) \in Seq(UnitIn(S)) /\ Len(UnitsOf(a)) = 2 * (n + m)
  BY <1>2, UnitsTyped
<1>6. /\ \A u \in 1 .. 2 * n : UnitsOf(rs)[u] = unit(rs[(u + 1) \div 2], u)
      /\ \A u \in 1 .. 2 * m : UnitsOf(qs)[u] = unit(qs[(u + 1) \div 2], u)
      /\ \A u \in 1 .. 2 * (n + m) : UnitsOf(a)[u] = unit(a[(u + 1) \div 2], u)
  BY <1>1, <1>2 DEF UnitsOf
<1>. HIDE DEF unit
<1>7. ASSUME NEW u \in 1 .. 2 * (n + m) PROVE c[u] = UnitsOf(a)[u]
  <2>1. CASE u \in 1 .. 2 * n
    <3>1. (u + 1) \div 2 \in 1 .. n
      BY <2>1
    <3>. QED  BY <1>2, <1>4, <1>6, <2>1, <3>1
  <2>2. CASE u > 2 * n
    <3>1. PICK v \in 1 .. 2 * m : u = 2 * n + v
      <4>1. u - 2 * n \in 1 .. 2 * m /\ u = 2 * n + (u - 2 * n)
        BY <2>2
      <4>. QED  BY <4>1
    <3>2. (u + 1) \div 2 = n + (v + 1) \div 2 /\ (v + 1) \div 2 \in 1 .. m /\ u % 2 = v % 2
      BY ONLY <3>1, HalfOfSum
    <3>3. \A x : unit(x, u) = unit(x, v)
      BY <3>2 DEF unit
    <3>4. c[u] = UnitsOf(qs)[v]
      BY <1>4, <3>1
    <3>5. UnitsOf(qs)[v] = unit(qs[(v + 1) \div 2], v)
      BY <1>6
    <3>6. UnitsOf(a)[u] = unit(a[(u + 1) \div 2], u)
      BY <1>6
    <3>7. a[(u + 1) \div 2] = qs[(v + 1) \div 2]
      <4>1. PICK w \in 1 .. m : w = (v + 1) \div 2
        BY <3>2
      <4>2. (u + 1) \div 2 = n + w
        BY <3>2, <4>1
      <4>3. a[n + w] = qs[w]
        BY <1>2
      <4>. QED  BY <4>1, <4>2, <4>3
    <3>. QED  BY <3>3, <3>4, <3>5, <3>6, <3>7
  <2>. QED  BY <2>1, <2>2
<1>8. Len(c) = Len(UnitsOf(a)) /\ \A u \in 1 .. Len(c) : c[u] = UnitsOf(a)[u]
  BY <1>4, <1>5, <1>7
<1>9. c = UnitsOf(a)
  BY ONLY <1>4, <1>5, <1>8, SameSequence
<1>. QED  BY <1>9 DEF a, c

LEMMA UnitsOfOne ==
    ASSUME NEW r
    PROVE  Units(r) = UnitsOf(<<r>>)
<1>. DEFINE f == UnitsOf(<<r>>)
<1>1. f = [u \in 1 .. 2 |-> [part |-> IF u % 2 = 1 THEN "header" ELSE "body", of |-> <<r>>[(u + 1) \div 2]]]
  BY DEF UnitsOf
<1>2. f[1] = [part |-> "header", of |-> r] /\ f[2] = [part |-> "body", of |-> r]
  <2>1. 1 % 2 = 1 /\ 2 % 2 = 0 /\ (1 + 1) \div 2 = 1 /\ (2 + 1) \div 2 = 1
    OBVIOUS
  <2>. QED  BY <1>1, <2>1
<1>3. DOMAIN f = 1 .. 2
  BY <1>1
<1>. HIDE DEF f
<1>4. PICK x, y : x = f[1] /\ y = f[2]
  OBVIOUS
<1>5. f = <<x, y>>
  <2>1. f = [u \in 1 .. 2 |-> IF u = 1 THEN x ELSE y]
    BY <1>3, <1>4 DEF UnitsOf, f
  <2>2. <<x, y>> = [u \in 1 .. 2 |-> IF u = 1 THEN x ELSE y]
    OBVIOUS
  <2>. QED  BY <2>1, <2>2
<1>. QED  BY <1>2, <1>4, <1>5 DEF f, Units

\* The front of a line of whole records is a whole record.
LEMMA WholeFront ==
    ASSUME NEW S, NEW rs \in Seq(S), NEW s \in Seq(UnitIn(S)), NEW t \in Seq(UnitIn(S)),
           s \o t = UnitsOf(rs), Len(s) >= 2
    PROVE  WholeRecord(s)
<1>1. PICK n \in Nat : n = Len(rs)
  OBVIOUS
<1>2. UnitsOf(rs) \in Seq(UnitIn(S)) /\ Len(UnitsOf(rs)) = 2 * n
  BY <1>1, UnitsTyped
<1>3. Len(s \o t) = Len(s) + Len(t) /\ \A i \in 1 .. Len(s) : (s \o t)[i] = s[i]
  BY ONLY s \in Seq(UnitIn(S)), t \in Seq(UnitIn(S)), Joined
<1>4. Len(s) \in Nat /\ Len(t) \in Nat
  OBVIOUS
<1>5. 2 * n >= 2
  BY <1>2, <1>3, <1>4
<1>6. UnitsOf(rs)[1] = s[1] /\ UnitsOf(rs)[2] = s[2]
  BY <1>3, <1>4
<1>7. UnitsOf(rs) = [u \in 1 .. 2 * n |-> [part |-> IF u % 2 = 1 THEN "header" ELSE "body",
                                            of |-> rs[(u + 1) \div 2]]]
  BY <1>1 DEF UnitsOf
<1>8. 1 % 2 = 1 /\ 2 % 2 = 0 /\ (1 + 1) \div 2 = 1 /\ (2 + 1) \div 2 = 1 /\ 1 \in 1 .. 2 * n /\ 2 \in 1 .. 2 * n
  BY <1>5
<1>9. UnitsOf(rs)[1] = [part |-> "header", of |-> rs[1]] /\ UnitsOf(rs)[2] = [part |-> "body", of |-> rs[1]]
  BY <1>7, <1>8
<1>. QED  BY <1>6, <1>9 DEF WholeRecord

LEMMA FlowStarts ==
    ASSUME NEW side, NEW T, NEW a, a.n \in Nat
    PROVE  Flow(side, T, <<>>, <<>>, a, a)
<1>1. PICK S, D, rs, d : S = {} /\ D = {a} /\ rs = <<>> /\ d = [i \in 0 .. 0 |-> a]
  OBVIOUS
<1>2. rs \in Seq(S) /\ <<>> \in Seq(UnitIn(S)) /\ Len(rs) = 0
  BY <1>1
<1>3. <<>> \o <<>> = UnitsOf(rs)
  BY <1>1 DEF UnitsOf
<1>4. d \in [0 .. 0 -> D] /\ d[0] = a /\ 0 \in 0 .. 0 /\ \A i \in 0 .. 0 : i = 0
  BY <1>1
<1>5. Way(side, T, rs, d)
  BY <1>2, <1>4 DEF Way
<1>6. Leads(S, D, rs, d, side, T, <<>>, <<>>, a, a)
  BY <1>2, <1>3, <1>4, <1>5 DEF Leads
<1>. QED  BY <1>6 DEF Flow

LEMMA FlowRead ==
    ASSUME NEW side, NEW T, NEW s, NEW t, NEW a, NEW b, Flow(side, T, s, t, a, b), NEW n \in 0 .. Len(t)
    PROVE  Flow(side, T, s \o SubSeq(t, 1, n), SubSeq(t, n + 1, Len(t)), a, b)
<1>1. PICK S, D, rs, d : Leads(S, D, rs, d, side, T, s, t, a, b)
  BY DEF Flow
<1>2. s \in Seq(UnitIn(S)) /\ t \in Seq(UnitIn(S))
  BY <1>1 DEF Leads
<1>. DEFINE s2 == s \o SubSeq(t, 1, n)
            t2 == SubSeq(t, n + 1, Len(t))
<1>3. s2 \in Seq(UnitIn(S)) /\ t2 \in Seq(UnitIn(S)) /\ s2 \o t2 = s \o t
  <2>1. Kept(UnitIn(S), s, t, n)
    BY <1>2, ReadKeeps
  <2>. QED  BY <2>1 DEF Kept
<1>. HIDE DEF s2, t2
<1>4. Leads(S, D, rs, d, side, T, s2, t2, a, b)
  BY <1>1, <1>3 DEF Leads
<1>. QED  BY <1>4 DEF Flow, s2, t2

LEMMA FlowJoins ==
    ASSUME NEW side, NEW T, NEW s, NEW t, NEW a, NEW b, NEW c, Flow(side, T, s, t, a, b),
           NEW R, NEW E, NEW qs \in Seq(R), NEW e \in [0 .. Len(qs) -> E], e[0] = b, e[Len(qs)] = c,
           Way(side, T, qs, e)
    PROVE  Flow(side, T, s, t \o UnitsOf(qs), a, c)
<1>1. PICK S0, D0, rs, d : Leads(S0, D0, rs, d, side, T, s, t, a, b)
  BY DEF Flow
<1>2. /\ rs \in Seq(S0) /\ s \in Seq(UnitIn(S0)) /\ t \in Seq(UnitIn(S0)) /\ s \o t = UnitsOf(rs)
      /\ d \in [0 .. Len(rs) -> D0] /\ d[0] = a /\ d[Len(rs)] = b /\ Way(side, T, rs, d)
  BY <1>1 DEF Leads
<1>3. PICK S, D : S = S0 \cup R /\ D = D0 \cup E
  OBVIOUS
<1>4. rs \in Seq(S) /\ qs \in Seq(S)
  <2>1. S0 \subseteq S /\ R \subseteq S
    BY <1>3
  <2>. QED  BY ONLY <1>2, <2>1, qs \in Seq(R), SequenceOfMore
<1>5. s \in Seq(UnitIn(S)) /\ t \in Seq(UnitIn(S))
  BY <1>2, <1>3, UnitsOfMore
<1>6. UnitsOf(qs) \in Seq(UnitIn(S))
  BY <1>4, UnitsTyped
<1>7. PICK v : v = UnitsOf(qs)
  OBVIOUS
<1>8. t \o v \in Seq(UnitIn(S)) /\ s \o (t \o v) = (s \o t) \o v
  BY ONLY <1>5, <1>6, <1>7
<1>9. s \o (t \o v) = UnitsOf(rs \o qs)
  BY <1>2, <1>4, <1>7, <1>8, UnitsJoin
<1>10. PICK n \in Nat, m \in Nat : n = Len(rs) /\ m = Len(qs)
  BY <1>2
<1>11. PICK f : f = [i \in 0 .. n + m |-> IF i <= n THEN d[i] ELSE e[i - n]]
  OBVIOUS
<1>12. PICK rq : rq = rs \o qs
  OBVIOUS
<1>13. rq \in Seq(S) /\ Len(rq) = n + m /\ (\A i \in 1 .. n : rq[i] = rs[i]) /\ (\A i \in 1 .. m : rq[n + i] = qs[i])
  <2>1. /\ rq \in Seq(S) /\ Len(rq) = Len(rs) + Len(qs) /\ (\A i \in 1 .. Len(rs) : rq[i] = rs[i])
        /\ (\A i \in 1 .. Len(qs) : rq[Len(rs) + i] = qs[i])
    BY ONLY <1>4, <1>12, Joined
  <2>. QED  BY <1>10, <2>1
<1>14. /\ \A i \in 0 .. n : f[i] = d[i] /\ d[i] \in D
       /\ \A i \in 0 .. m : f[n + i] = e[i] /\ e[i] \in D
  <2>1. \A i \in 0 .. n : f[i] = d[i]
    BY <1>11
  <2>2. ASSUME NEW i \in 0 .. m PROVE f[n + i] = e[i]
    <3>1. CASE i = 0
      BY <1>2, <1>10, <2>1, <3>1
    <3>2. CASE i > 0
      <4>1. n + i \in 0 .. n + m /\ ~(n + i <= n) /\ n + i - n = i
        BY <3>2
      <4>. QED  BY <1>11, <4>1
    <3>. QED  BY <3>1, <3>2
  <2>3. (\A i \in 0 .. n : d[i] \in D) /\ (\A i \in 0 .. m : e[i] \in D)
    BY <1>2, <1>3, <1>10
  <2>. QED  BY <2>1, <2>2, <2>3
<1>15. f \in [0 .. n + m -> D]
  <2>1. ASSUME NEW i \in 0 .. n + m PROVE f[i] \in D
    <3>1. CASE i <= n
      BY <1>14, <3>1
    <3>2. CASE i > n
      <4>1. i - n \in 0 .. m /\ n + (i - n) = i
        BY <3>2
      <4>. QED  BY <1>14, <4>1
    <3>. QED  BY <3>1, <3>2
  <2>. QED  BY <1>11, <2>1
<1>16. f[0] = a /\ f[n + m] = c
  <2>1. 0 \in 0 .. n /\ m \in 0 .. m
    OBVIOUS
  <2>. QED  BY <1>2, <1>10, <1>14, <2>1
<1>17. ASSUME NEW i \in 1 .. n + m PROVE Step(side, T, f[i - 1], rq[i], f[i])
  <2>1. CASE i <= n
    <3>1. i \in 1 .. n /\ i - 1 \in 0 .. n /\ i \in 0 .. n
      BY <2>1
    <3>2. Step(side, T, d[i - 1], rs[i], d[i])
      BY <1>2, <1>10, <3>1 DEF Way
    <3>. QED  BY <1>13, <1>14, <3>1, <3>2
  <2>2. CASE i > n
    <3>1. PICK j \in 1 .. m : i = n + j
      <4>1. i - n \in 1 .. m /\ i = n + (i - n)
        BY <2>2
      <4>. QED  BY <4>1
    <3>2. j \in 0 .. m /\ j - 1 \in 0 .. m /\ i - 1 = n + (j - 1)
      BY <3>1
    <3>3. Step(side, T, e[j - 1], qs[j], e[j])
      BY <1>10, <3>1 DEF Way
    <3>4. f[i - 1] = e[j - 1] /\ f[i] = e[j] /\ rq[i] = qs[j]
      BY <1>13, <1>14, <3>1, <3>2
    <3>. QED  BY <3>3, <3>4
  <2>. QED  BY <2>1, <2>2
<1>18. ASSUME NEW i \in 0 .. n + m PROVE f[i].n \in Nat /\ f[i].n <= f[n + m].n
  <2>1. /\ \A j \in 0 .. n : d[j].n \in Nat /\ d[j].n <= b.n
        /\ \A j \in 0 .. m : e[j].n \in Nat /\ e[j].n <= c.n
    BY <1>2, <1>10 DEF Way
  <2>2. b.n \in Nat /\ b.n <= c.n /\ c.n \in Nat
    <3>1. 0 \in 0 .. m /\ m \in 0 .. m
      OBVIOUS
    <3>2. e[0].n \in Nat /\ e[0].n <= c.n /\ e[m].n \in Nat
      BY <2>1, <3>1
    <3>. QED  BY <1>10, <3>2
  <2>3. CASE i <= n
    <3>1. f[i] = d[i] /\ d[i].n \in Nat /\ d[i].n <= b.n
      BY <1>14, <2>1, <2>3
    <3>. QED  BY <1>16, <2>2, <3>1
  <2>4. CASE i > n
    <3>1. i - n \in 0 .. m /\ n + (i - n) = i
      BY <2>4
    <3>2. f[i] = e[i - n] /\ e[i - n].n \in Nat /\ e[i - n].n <= c.n
      BY <1>14, <2>1, <3>1
    <3>. QED  BY <1>16, <3>2
  <2>. QED  BY <2>3, <2>4
<1>19. Way(side, T, rq, f)
  BY <1>13, <1>17, <1>18 DEF Way
<1>20. Leads(S, D, rq, f, side, T, s, t \o v, a, c)
  BY <1>5, <1>8, <1>9, <1>12, <1>13, <1>15, <1>16, <1>19 DEF Leads
<1>. QED  BY <1>7, <1>20 DEF Flow

LEMMA FlowAppends ==
    ASSUME NEW side, NEW T, NEW s, NEW t, NEW a, NEW b, NEW c, NEW r, Flow(side, T, s, t, a, b),
           Step(side, T, b, r, c), c.n \in Nat, b.n <= c.n, b.n \in Nat
    PROVE  Flow(side, T, s, t \o Units(r), a, c)
<1>1. PICK e : e = [i \in 0 .. 1 |-> IF i = 0 THEN b ELSE c]
  OBVIOUS
<1>2. PICK qs : qs = <<r>>
  OBVIOUS
<1>3. qs \in Seq({r}) /\ Len(qs) = 1 /\ qs[1] = r
  BY <1>2
<1>4. e \in [0 .. 1 -> {b, c}] /\ e[0] = b /\ e[1] = c
  BY <1>1
<1>5. Way(side, T, qs, e)
  <2>1. \A i \in 1 .. 1 : i = 1 /\ i - 1 = 0
    OBVIOUS
  <2>2. \A i \in 0 .. 1 : i = 0 \/ i = 1
    OBVIOUS
  <2>. QED  BY <1>3, <1>4, <2>1, <2>2 DEF Way
<1>6. Flow(side, T, s, t \o UnitsOf(qs), a, c)
  BY <1>3, <1>4, <1>5, FlowJoins
<1>. QED  BY <1>2, <1>6, UnitsOfOne

LEMMA FlowTail ==
    ASSUME NEW side, NEW T, NEW s, NEW t, NEW a, NEW b, Flow(side, T, s, t, a, b), Len(s) >= 2
    PROVE  /\ WholeRecord(s)
           /\ \E q : /\ Step(side, T, a, s[1].of, q) /\ q.n \in Nat /\ q.n <= b.n
                     /\ Flow(side, T, SubSeq(s, 3, Len(s)), t, q, b)
<1>1. PICK S, D, rs, d : Leads(S, D, rs, d, side, T, s, t, a, b)
  BY DEF Flow
<1>2. /\ rs \in Seq(S) /\ s \in Seq(UnitIn(S)) /\ t \in Seq(UnitIn(S)) /\ s \o t = UnitsOf(rs)
      /\ d \in [0 .. Len(rs) -> D] /\ d[0] = a /\ d[Len(rs)] = b /\ Way(side, T, rs, d)
  BY <1>1 DEF Leads
<1>3. WholeRecord(s)
  BY <1>2, WholeFront
<1>4. PICK s2, qs : s2 = SubSeq(s, 3, Len(s)) /\ qs = Tail(rs)
  OBVIOUS
<1>5. rs # <<>> /\ s[1].of = rs[1] /\ s2 \in Seq(UnitIn(S)) /\ s2 \o t = UnitsOf(qs)
  BY <1>2, <1>4, UnitsTail
<1>6. PICK n \in Nat : n = Len(rs)
  BY <1>2
<1>7. n >= 1 /\ qs \in Seq(S) /\ Len(qs) = n - 1 /\ \A i \in 1 .. n - 1 : qs[i] = rs[i + 1]
  BY <1>2, <1>4, <1>5, <1>6
<1>8. PICK e : e = [i \in 0 .. n - 1 |-> d[i + 1]]
  OBVIOUS
<1>9. e \in [0 .. n - 1 -> D] /\ (\A i \in 0 .. n - 1 : e[i] = d[i + 1] /\ i + 1 \in 0 .. n)
  BY <1>2, <1>6, <1>8
<1>10. e[0] = d[1] /\ e[n - 1] = b
  <2>1. 0 \in 0 .. n - 1 /\ n - 1 \in 0 .. n - 1 /\ n - 1 + 1 = n /\ 0 + 1 = 1
    BY <1>7
  <2>. QED  BY <1>2, <1>6, <1>9, <2>1
<1>11. ASSUME NEW i \in 1 .. n - 1 PROVE Step(side, T, e[i - 1], qs[i], e[i])
  <2>1. i + 1 \in 1 .. n /\ i \in 0 .. n - 1 /\ i - 1 \in 0 .. n - 1 /\ i + 1 - 1 = i /\ i - 1 + 1 = i
    BY <1>7
  <2>2. Step(side, T, d[i + 1 - 1], rs[i + 1], d[i + 1])
    BY <1>2, <1>6, <2>1 DEF Way
  <2>. QED  BY <1>7, <1>9, <2>1, <2>2
<1>12. \A i \in 0 .. n : d[i].n \in Nat /\ d[i].n <= b.n
  BY <1>2, <1>6 DEF Way
<1>13. \A i \in 0 .. n - 1 : e[i].n \in Nat /\ e[i].n <= e[n - 1].n
  BY <1>9, <1>10, <1>12
<1>14. Way(side, T, qs, e)
  BY <1>7, <1>11, <1>13 DEF Way
<1>15. Leads(S, D, qs, e, side, T, s2, t, d[1], b)
  BY <1>2, <1>5, <1>7, <1>9, <1>10, <1>14 DEF Leads
<1>16. Step(side, T, a, s[1].of, d[1]) /\ d[1].n \in Nat /\ d[1].n <= b.n
  <2>1. 1 \in 1 .. n /\ 1 \in 0 .. n /\ 1 - 1 = 0
    BY <1>7
  <2>. QED  BY <1>2, <1>5, <1>6, <1>12, <2>1 DEF Way
<1>17. Flow(side, T, s2, t, d[1], b)
  BY <1>15 DEF Flow
<1>. QED  BY <1>3, <1>4, <1>16, <1>17

LEMMA FlowBounds ==
    ASSUME NEW side, NEW T, NEW s, NEW t, NEW a, NEW b, Flow(side, T, s, t, a, b)
    PROVE  /\ a.n \in Nat /\ b.n \in Nat /\ a.n <= b.n
           /\ \E S : s \in Seq(UnitIn(S)) /\ t \in Seq(UnitIn(S))
<1>1. PICK S, D, rs, d : Leads(S, D, rs, d, side, T, s, t, a, b)
  BY DEF Flow
<1>2. /\ rs \in Seq(S) /\ d[0] = a /\ d[Len(rs)] = b
      /\ \A i \in 0 .. Len(rs) : d[i].n \in Nat /\ d[i].n <= d[Len(rs)].n
  BY <1>1 DEF Leads, Way
<1>3. 0 \in 0 .. Len(rs) /\ Len(rs) \in 0 .. Len(rs)
  BY <1>2
<1>4. s \in Seq(UnitIn(S)) /\ t \in Seq(UnitIn(S))
  BY <1>1 DEF Leads
<1>. QED  BY <1>2, <1>3, <1>4
-----------------------------------------------------------------------------
(* A good server is never refused: what its records lead to, from where the      *)
(* client is to where the server is.                                             *)

\* The messages of the server's handshake, and their halves.
Said == [m \in 1 .. 5 |-> IF m = 1 THEN Hello ELSE Message(cfg.flight[m - 1])]
Script == [i \in 1 .. 10 |-> [half |-> IF i % 2 = 1 THEN 1 ELSE 2, of |-> Said[(i + 1) \div 2]]]

\* The client received p.n of them: Handled messages are handled, others decoded.
InHandshake(p, m, k) ==
    /\ m <= k /\ (m = 0 => p.n <= 2)
    /\ Len(decoded) = k - m /\ \A i \in 1 .. k - m : decoded[i] = Said[m + i]
    /\ Len(hs) = p.n - 2 * k /\ (p.n > 2 * k => hs[1] = Script[p.n])
    /\ p.dec = IF m = 0 /\ p.n = 2 THEN ServerHsKeys
               ELSE IF p.n = 10 THEN ServerApKeys ELSE dec

AfterHandshake(p) ==
    /\ p.n = 10 /\ hs = <<>>
    /\ \/ decoded \in {<<>>, <<Ticket>>} /\ p.dec = dec
       \/ \E b \in BOOLEAN : decoded = <<KeyUpdate(b)>> /\ p.dec = Updated(dec)

ClientAt(p) == IF Handled < 5 THEN InHandshake(p, Handled, p.n \div 2) ELSE AfterHandshake(p)

\* n halves less z.n are still to send.
ToSend(z, n) ==
    /\ z.n <= n /\ Len(server.script) = n - z.n
    /\ \A i \in 1 .. n - z.n : server.script[i] = Script[z.n + i]

ServerAt(z) ==
    /\ server.phase = "wait" => z.n = 0 /\ z.dec = Disabled /\ server.send = Disabled
    /\ server.phase = "hello" => /\ ToSend(z, 2) /\ server.send = Disabled
                                 /\ z.dec = IF z.n = 2 THEN ServerHsKeys ELSE Disabled
    /\ server.phase = "flight" => /\ ToSend(z, 10) /\ z.n >= 2
                                  /\ z.dec = IF z.n = 10 THEN ServerApKeys ELSE server.send
    /\ server.phase \in {"sent", "open"} => z.n = 10 /\ z.dec = server.send

Between(p, z) == Flow("server", Script, input, toClient, p, z) /\ ClientAt(p) /\ ServerAt(z)

GoodInv ==
    cfg \in SupportedServers /\ ~server.closed =>
        st # "err" /\ pc # "refused" /\ \E p, z : Between(p, z)

-----------------------------------------------------------------------------
\* What a server that the client supports answers.
LEMMA SupportedIs ==
    ASSUME cfg \in SupportedServers
    PROVE  /\ cfg \in Servers /\ AnswersOffer(cfg.hello) /\ cfg.list = {} /\ Proves(cfg)
           /\ cfg.flight = <<"EncryptedExtensions", "Certificate", "CertificateVerify", "Finished">>
<1>1. cfg \in GoodServers /\ ~Unsupported(cfg)
  BY DEF SupportedServers
<1>2. AnswersOffer(cfg.hello)
  BY <1>1 DEF GoodServers, AsksAgain, Unsupported, Retry
<1>3. cfg.flight \in Flights /\ "CertificateRequest" \notin Range(cfg.flight)
  BY <1>1 DEF GoodServers, Unsupported
<1>4. cfg.flight = ShortFlight
  <2>1. \A f : f = <<"EncryptedExtensions", "CertificateRequest", "Certificate", "CertificateVerify",
                     "Finished">> => "CertificateRequest" \in Range(f)
    BY DEF Range
  <2>. QED  BY <1>3, <2>1 DEF Flights
<1>. QED  BY <1>1, <1>2, <1>4 DEF GoodServers, Unsupported, ShortFlight

LEMMA ServersStay == SupportedServers' = SupportedServers
BY DEF SupportedServers, GoodServers, Unsupported, Retry, AnswersOffer, AsksAgain, TakesUpOffer, EchoesClient,
       HasOnce, HasOnly, Answerable, Flights, ShortFlight, Proves, Offers, ClientHello, Range

LEMMA GoodFlightOrder ==
    ASSUME cfg \in SupportedServers
    PROVE  /\ cfg \in Servers /\ Len(cfg.flight) = 4
           /\ cfg.flight[1] = "EncryptedExtensions" /\ cfg.flight[2] = "Certificate"
           /\ cfg.flight[3] = "CertificateVerify" /\ cfg.flight[4] = "Finished"
           /\ cfg.flight \in Seq(FlightNames)
           /\ cfg.flight = <<"EncryptedExtensions", "Certificate", "CertificateVerify", "Finished">>
<1>1. cfg \in Servers
      /\ cfg.flight = <<"EncryptedExtensions", "Certificate", "CertificateVerify", "Finished">>
  BY SupportedIs
<1>2. cfg.flight \in Seq(FlightNames)
  BY <1>1, FlightIsNamed
<1>. QED  BY <1>1, <1>2

\* What the server has hashed before the n-th message of its flight is what the
\* client has.
LEMMA ServerHashes ==
    ASSUME cfg \in SupportedServers, NEW n \in 1 .. 5
    PROVE  ServerTranscript(n) = Hashes(n)
<1>1. /\ cfg.flight \in Seq(FlightNames) /\ Len(cfg.flight) = 4
      /\ \A i \in 1 .. 4 : cfg.flight[i] = Order[2 + i]
  BY GoodFlightOrder DEF Order
<1>2. PICK A : A = {"ClientHello", "ServerHello"} \cup FlightNames
  OBVIOUS
<1>3. PICK t, h : t = SubSeq(cfg.flight, 1, n - 1) /\ h = Hellos
  OBVIOUS
<1>4. /\ t \in Seq(A) /\ Len(t) = n - 1 /\ \A i \in 1 .. n - 1 : t[i] = Order[2 + i]
  <2>1. PICK f \in Seq(FlightNames) : f = cfg.flight
    BY <1>1
  <2>5. Len(f) = 4 /\ t = SubSeq(f, 1, n - 1) /\ n - 1 \in Nat /\ n - 1 <= 4
    BY <1>1, <1>3, <2>1
  <2>2. t \in Seq(FlightNames) /\ Len(t) = n - 1 /\ \A i \in 1 .. n - 1 : t[i] = f[i]
    BY ONLY <2>5, f \in Seq(FlightNames)
  <2>3. FlightNames \subseteq A
    BY <1>2
  <2>4. t \in Seq(A)
    BY ONLY <2>2, <2>3, SequenceOfMore
  <2>. QED  BY <1>1, <2>1, <2>2, <2>4
<1>5. h \in Seq(A) /\ Len(h) = 2 /\ h[1] = Order[1] /\ h[2] = Order[2]
  BY <1>2, <1>3 DEF Hellos, Order
<1>6. /\ h \o t \in Seq(A) /\ Len(h \o t) = Len(h) + Len(t) /\ (\A i \in 1 .. Len(h) : (h \o t)[i] = h[i])
      /\ \A i \in 1 .. Len(t) : (h \o t)[Len(h) + i] = t[i]
  <2>1. h \in Seq(A) /\ t \in Seq(A)
    BY <1>4, <1>5
  <2>. QED  BY ONLY <2>1, Joined
<1>7. PICK s : s = h \o t
  OBVIOUS
<1>8. /\ s \in Seq(A) /\ Len(s) = n + 1 /\ s[1] = Order[1] /\ s[2] = Order[2]
      /\ \A i \in 1 .. n - 1 : s[2 + i] = Order[2 + i]
  BY <1>4, <1>5, <1>6, <1>7
<1>9. ASSUME NEW i \in 1 .. n + 1 PROVE s[i] = Order[i]
  <2>1. CASE i <= 2
    BY <1>8, <2>1
  <2>2. CASE i > 2
    <3>1. i - 2 \in 1 .. n - 1 /\ 2 + (i - 2) = i
      BY <2>2
    <3>. QED  BY <1>8, <3>1
  <2>. QED  BY <2>1, <2>2
<1>10. s = [i \in 1 .. n + 1 |-> s[i]]
  BY <1>8
<1>. QED  BY <1>3, <1>7, <1>9, <1>10 DEF ServerTranscript, Hashes

LEMMA AllHashes == Hashes(5) = Order
BY DEF Hashes, Order

\* What a good server says is what the client's states wait for.
LEMMA SaidIsExpected ==
    ASSUME cfg \in SupportedServers
    PROVE  /\ Said[1] = Hello /\ ServerHelloAccepted(cfg.hello)
           /\ Said[2].name = "EncryptedExtensions"
           /\ Said[3].name = "Certificate" /\ CertificateAccepted(Said[3].cert)
           /\ Said[4].name = "CertificateVerify" /\ SignatureAccepted(Said[4], Hashes(3))
           /\ Said[5].name = "Finished" /\ Said[5].mac = Hashes(4)
           /\ \A m \in 1 .. 5 : Said[m] \in Messages /\ HandshakeDecodes(Said[m])
<1>1. /\ Said[1] = Hello /\ Said[2] = Message("EncryptedExtensions") /\ Said[3] = Message("Certificate")
      /\ Said[4] = Message("CertificateVerify") /\ Said[5] = Message("Finished")
  BY GoodFlightOrder DEF Said
<1>2. /\ Said[2].name = "EncryptedExtensions" /\ Said[2].list = cfg.list
      /\ Said[3].name = "Certificate" /\ Said[3].cert = cfg.cert
      /\ Said[4].name = "CertificateVerify" /\ Said[4].scheme = cfg.scheme /\ Said[4].signed = Signed
      /\ Said[5].name = "Finished" /\ Said[5].mac = Mac
  BY <1>1 DEF Message
<1>3. Signed = Hashes(3) /\ Mac = Hashes(4)
  <2>1. cfg.signed /\ cfg.mac /\ Len(cfg.flight) = 4
    BY GoodFlightOrder, SupportedIs DEF Proves
  <2>2. ServerTranscript(3) = Hashes(3) /\ ServerTranscript(4) = Hashes(4)
    BY ServerHashes
  <2>. QED  BY <2>1, <2>2 DEF Signed, Mac
<1>4. /\ cfg.list = {} /\ cfg.scheme = OFFERED_SIG_SCHEME /\ AnswersOffer(cfg.hello)
      /\ CertificateAccepted(cfg.cert) /\ CertificateDecodes(cfg.cert)
  BY SupportedIs DEF Proves, Offers, CertificateAccepted, CertificateDecodes, EntriesDecode
<1>5. ServerHelloAccepted(cfg.hello) /\ ServerHelloDecodes(cfg.hello)
  <2>. DEFINE h == cfg.hello
  <2>1. TakesUpOffer(h) /\ HasOnly(h, {"SupportedVersions", "KeyShare"})
    BY <1>4 DEF AnswersOffer
  <2>. HIDE DEF h
  <2>2. /\ h.version = "TLSv1_2" /\ h.session = "empty" /\ h.compression = "none"
        /\ h.random # "downgrade" /\ h.random # "helloRetryRequest" /\ h.suite = OFFERED_CIPHERSUITE
    BY <2>1 DEF TakesUpOffer, EchoesClient, ClientHello, Offers
  <2>3. PICK v \in DOMAIN h.extensions :
           /\ h.extensions[v].typ = "SupportedVersions" /\ h.extensions[v].value = "TLSv1_3"
           /\ \A j \in DOMAIN h.extensions : h.extensions[j].typ = "SupportedVersions" => j = v
    BY <2>1 DEF TakesUpOffer, HasOnce, Offers
  <2>4. PICK k \in DOMAIN h.extensions :
           /\ h.extensions[k].typ = "KeyShare" /\ h.extensions[k].value = "x25519"
           /\ \A j \in DOMAIN h.extensions : h.extensions[j].typ = "KeyShare" => j = k
    BY <2>1 DEF TakesUpOffer, HasOnce, Offers
  <2>5. \A i \in DOMAIN h.extensions : i = v \/ i = k
    BY <2>1, <2>3, <2>4 DEF HasOnly
  <2>6. ServerHelloAccepted(h)
    BY <2>2, <2>3, <2>4 DEF ServerHelloAccepted, Retry, NegotiatesVersion, SharesKey, HasExtension
  <2>7. NotRepeated(h.extensions)
    BY <2>3, <2>4, <2>5 DEF NotRepeated
  <2>8. \A i \in DOMAIN h.extensions : ExtensionDecodes(h.extensions[i], Retry(h))
    BY <2>3, <2>4, <2>5 DEF ExtensionDecodes, KeyShareDecodes
  <2>9. \A A : ContainsOnly(h.extensions, {"KeyShare", "SupportedVersions"} \cup A)
    BY DEF ContainsOnly
  <2>10. LegacyFieldsDecode(h)
    BY <2>2 DEF LegacyFieldsDecode, IsDowngrade
  <2>11. ServerHelloDecodes(h)
    BY <2>2, <2>7, <2>8, <2>9, <2>10 DEF ServerHelloDecodes
  <2>. QED  BY <2>6, <2>11 DEF h
<1>6. ServerHelloDecodes(cfg.hello)
  BY <1>5
<1>7. HandshakeDecodes(Said[1])
  BY <1>1, <1>6 DEF HandshakeDecodes, Hello
<1>8. HandshakeDecodes(Said[2]) /\ HandshakeDecodes(Said[3])
  BY <1>2, <1>4 DEF HandshakeDecodes
<1>9. HandshakeDecodes(Said[4]) /\ HandshakeDecodes(Said[5])
  BY <1>2 DEF HandshakeDecodes, ServerHandshakes
<1>10. ASSUME NEW m \in 1 .. 5 PROVE Said[m] \in Messages
  <2>1. CASE m = 1
    BY <1>1, <2>1 DEF Messages
  <2>2. CASE m > 1
    <3>1. m - 1 \in 1 .. Len(cfg.flight) /\ Said[m] = Message(cfg.flight[m - 1])
      BY <2>2, GoodFlightOrder DEF Said
    <3>. QED  BY <3>1 DEF Messages
  <2>. QED  BY <2>1, <2>2
<1>11. \A m \in 1 .. 5 : m = 1 \/ m = 2 \/ m = 3 \/ m = 4 \/ m = 5
  OBVIOUS
<1>12. \A m \in 1 .. 5 : HandshakeDecodes(Said[m])
  BY <1>7, <1>8, <1>9, <1>11
<1>13. SignatureAccepted(Said[4], Hashes(3))
  BY <1>2, <1>3, <1>4 DEF SignatureAccepted
<1>. QED  BY <1>1, <1>2, <1>3, <1>4, <1>5, <1>10, <1>12, <1>13

LEMMA ScriptIsSaid ==
    ASSUME cfg \in SupportedServers
    PROVE  /\ \A i \in 1 .. 10 : Script[i] \in HalfOf(Messages)
           /\ \A m \in 1 .. 5 : Script[2 * m].of = Said[m]
<1>1. ASSUME NEW i \in 1 .. 10 PROVE Script[i] \in HalfOf(Messages)
  <2>1. (i + 1) \div 2 \in 1 .. 5
    OBVIOUS
  <2>2. Said[(i + 1) \div 2] \in Messages
    BY <2>1, SaidIsExpected
  <2>3. Script[i] = [half |-> IF i % 2 = 1 THEN 1 ELSE 2, of |-> Said[(i + 1) \div 2]]
    BY DEF Script
  <2>. QED  BY <2>2, <2>3 DEF HalfOf
<1>2. ASSUME NEW m \in 1 .. 5 PROVE Script[2 * m].of = Said[m]
  <2>1. 2 * m \in 1 .. 10 /\ (2 * m + 1) \div 2 = m
    OBVIOUS
  <2>. QED  BY <2>1 DEF Script
<1>. QED  BY <1>1, <1>2

\* What the server has to send at first, and after its ServerHello.
LEMMA ScriptIsSent ==
    ASSUME cfg \in SupportedServers
    PROVE  /\ Len(Halves(Hello)) = 2 /\ \A i \in 1 .. 2 : Halves(Hello)[i] = Script[i]
           /\ Len(Flight(Signed, Mac)) = 8 /\ \A i \in 1 .. 8 : Flight(Signed, Mac)[i] = Script[2 + i]
<1>1. Said[1] = Hello
  BY SaidIsExpected
<1>2. Script[1] = [half |-> 1, of |-> Hello] /\ Script[2] = [half |-> 2, of |-> Hello]
  <2>1. (1 + 1) \div 2 = 1 /\ (2 + 1) \div 2 = 1 /\ 1 % 2 = 1 /\ 2 % 2 = 0
    OBVIOUS
  <2>. QED  BY <1>1, <2>1 DEF Script
<1>3. Len(Halves(Hello)) = 2 /\ \A i \in 1 .. 2 : Halves(Hello)[i] = Script[i]
  <2>1. \A i \in 1 .. 2 : i = 1 \/ i = 2
    OBVIOUS
  <2>. QED  BY <1>2, <2>1 DEF Halves
<1>4. PICK s : s = [i \in 1 .. 4 |-> Message(cfg.flight[i])]
  OBVIOUS
<1>5. Flight(Signed, Mac) = HalvesOf(s)
  BY <1>4, GoodFlightOrder, FlightMessages
<1>6. Len(s) = 4 /\ \A i \in 1 .. 4 : s[i] = Said[i + 1]
  BY <1>4 DEF Said
<1>7. HalvesOf(s) = [h \in 1 .. 8 |-> [half |-> IF h % 2 = 1 THEN 1 ELSE 2, of |-> s[(h + 1) \div 2]]]
  BY <1>6 DEF HalvesOf
<1>8. ASSUME NEW i \in 1 .. 8 PROVE HalvesOf(s)[i] = Script[2 + i]
  <2>1. (i + 1) \div 2 \in 1 .. 4 /\ (2 + i + 1) \div 2 = (i + 1) \div 2 + 1 /\ (2 + i) % 2 = i % 2 /\ 2 + i \in 1 .. 10
    OBVIOUS
  <2>2. s[(i + 1) \div 2] = Said[(i + 1) \div 2 + 1]
    BY <1>6, <2>1
  <2>3. Script[2 + i] = [half |-> IF (2 + i) % 2 = 1 THEN 1 ELSE 2, of |-> Said[(2 + i + 1) \div 2]]
    BY <2>1 DEF Script
  <2>. QED  BY <1>7, <2>1, <2>2, <2>3
<1>9. Len(HalvesOf(s)) = 8
  BY <1>7
<1>. QED  BY <1>3, <1>5, <1>8, <1>9

LEMMA SameScript ==
    ASSUME cfg' = cfg
    PROVE  Said' = Said /\ Script' = Script
<1>1. Said' = Said
  BY DEF Said, Message, Hello, Signed, Mac, ServerTranscript
<1>. QED  BY <1>1 DEF Script
-----------------------------------------------------------------------------
(* The server's steps. *)

LEMMA ClientStays ==
    ASSUME NEW p, ClientAt(p), Handled' = Handled, UNCHANGED <<hs, decoded, dec, cfg>>
    PROVE  ClientAt(p)'
<1>1. Said' = Said /\ Script' = Script
  BY SameScript
<1>2. ServerHsKeys' = ServerHsKeys /\ ServerApKeys' = ServerApKeys /\ Ticket' = Ticket
  BY DEF ServerHsKeys, ServerApKeys, Ticket, Hellos, Order
<1>. QED  BY <1>1, <1>2 DEF ClientAt, InHandshake, AfterHandshake

\* The server sends a record, or none.
LEMMA ServerGoes ==
    ASSUME cfg \in SupportedServers, st # "err", pc # "refused", NEW p, NEW z, Between(p, z), NEW z2,
           UNCHANGED <<pc, connection, cfg>>, z2.n \in Nat, z.n <= z2.n, ServerAt(z2)',
           \/ toClient' = toClient /\ z2 = z
           \/ \E r : toClient' = toClient \o Units(r) /\ DownStep(Script, z, r, z2)
    PROVE  GoodInv'
<1>1. UNCHANGED <<st, hs, decoded, dec, input>>
  BY DEF connection
<1>2. ClientAt(p)'
  <2>1. Handled' = Handled
    BY <1>1 DEF Handled
  <2>. QED  BY <1>1, <2>1, ClientStays DEF Between
<1>3. PICK T : T = Script
  OBVIOUS
<1>4. Flow("server", T, input, toClient, p, z) /\ Script' = T
  BY <1>3, SameScript DEF Between
<1>5. Flow("server", T, input, toClient', p, z2)
  <2>1. CASE toClient' = toClient /\ z2 = z
    BY <1>4, <2>1
  <2>2. CASE \E r : toClient' = toClient \o Units(r) /\ DownStep(Script, z, r, z2)
    <3>1. PICK r : toClient' = toClient \o Units(r) /\ DownStep(T, z, r, z2)
      BY <1>3, <2>2
    <3>2. z.n \in Nat
      BY <1>4, FlowBounds
    <3>3. Step("server", T, z, r, z2)
      BY <3>1 DEF Step
    <3>4. Flow("server", T, input, toClient \o Units(r), p, z2)
      BY <1>4, <3>2, <3>3, FlowAppends
    <3>. QED  BY <3>1, <3>4
  <2>. QED  BY <2>1, <2>2
<1>6. Flow("server", Script, input, toClient, p, z2)'
  BY <1>1, <1>4, <1>5
<1>. QED  BY <1>1, <1>2, <1>6 DEF GoodInv, Between

LEMMA AnswersGoes ==
    ASSUME StreamInv, cfg \in SupportedServers, st # "err", pc # "refused", NEW p, NEW z, Between(p, z),
           ServerAnswers
    PROVE  GoodInv'
<1>1. /\ server.phase = "wait" /\ server' = [server EXCEPT !.phase = "hello", !.script = Halves(Hello)]
      /\ UNCHANGED <<pc, connection, cfg, toClient>>
  BY DEF ServerAnswers, Hello
<1>2. DOMAIN server = ServerFields /\ server = [f \in ServerFields |-> server[f]]
  BY DEF StreamInv, ServerInv
<1>3. server'.phase = "hello" /\ server'.script = Halves(Hello) /\ server'.send = server.send
  BY <1>1, <1>2 DEF ServerFields
<1>4. z.n = 0 /\ z.dec = Disabled /\ server.send = Disabled
  BY <1>1 DEF Between, ServerAt
<1>5. Disabled' = Disabled /\ ServerHsKeys' = ServerHsKeys
  BY DEF Disabled, ServerHsKeys, Hellos
<1>6. ToSend(z, 2)'
  <2>1. Len(Halves(Hello)) = 2 /\ \A i \in 1 .. 2 : Halves(Hello)[i] = Script[i]
    BY ScriptIsSent
  <2>2. Script' = Script
    BY <1>1, SameScript
  <2>. QED  BY <1>3, <1>4, <2>1, <2>2 DEF ToSend
<1>7. ServerAt(z)'
  BY <1>3, <1>4, <1>5, <1>6 DEF ServerAt
<1>. QED  BY <1>1, <1>4, <1>7, ServerGoes

LEMMA SendsGoes ==
    ASSUME StreamInv, TrustInv, cfg \in SupportedServers, st # "err", pc # "refused", NEW p, NEW z, Between(p, z),
           NEW n \in Packings, ServerSendsHandshake(n)
    PROVE  GoodInv'
<1>1. PICK s, l : s = server.script /\ l = Len(s)
  OBVIOUS
<1>2. s \in Seq(HalfOf(Messages)) /\ l \in Nat /\ n \in Nat \ {0}
  BY <1>1, TlsAssumption DEF TrustInv, SourceInv
<1>3. PICK k : k = IF n < l THEN n ELSE l
  OBVIOUS
<1>4. k \in 1 .. l
  <2>1. s # <<>>
    BY <1>1 DEF ServerSendsHandshake
  <2>. QED  BY <1>1, <1>2, <1>3, <2>1
<1>5. /\ server.phase \in {"hello", "flight"} /\ UNCHANGED <<pc, connection, cfg>>
      /\ toClient' = toClient \o Units(Sealed(server.send, "Handshake", Handshakes(SubSeq(s, 1, k))))
      /\ server' = [server EXCEPT !.send = Advanced(@), !.script = SubSeq(@, k + 1, Len(@))]
  BY <1>1, <1>3 DEF ServerSendsHandshake
<1>6. DOMAIN server = ServerFields /\ server = [f \in ServerFields |-> server[f]]
  BY DEF StreamInv, ServerInv
<1>7. /\ server'.phase = server.phase /\ server'.send = Advanced(server.send)
      /\ server'.script = SubSeq(s, k + 1, l)
  BY <1>1, <1>5, <1>6 DEF ServerFields
<1>8. PICK a, b : a = SubSeq(s, 1, k) /\ b = SubSeq(s, k + 1, l)
  OBVIOUS
<1>9. /\ DOMAIN a = 1 .. k /\ a = [i \in 1 .. k |-> s[i]]
      /\ Len(b) = l - k /\ \A i \in 1 .. l - k : b[i] = s[k + i]
  <2>1. /\ a \in Seq(HalfOf(Messages)) /\ Len(a) = k /\ \A i \in 1 .. k : a[i] = s[i]
        /\ Len(b) = l - k /\ \A i \in 1 .. l - k : b[i] = s[k + i]
    BY ONLY <1>1, <1>2, <1>4, <1>8
  <2>. QED  BY <2>1
<1>10. z.n \in Nat
  BY FlowBounds DEF Between
<1>11. PICK m : m = IF server.phase = "hello" THEN 2 ELSE 10
  OBVIOUS
<1>12. z.n + l = m /\ (\A i \in 1 .. l : s[i] = Script[z.n + i]) /\ (m = 10 => z.n >= 2)
  <2>1. ToSend(z, m) /\ (m = 10 => z.n >= 2)
    BY <1>5, <1>11 DEF Between, ServerAt
  <2>. QED  BY <1>1, <1>2, <1>10, <1>11, <2>1 DEF ToSend
<1>13. PICK z2 : z2 = [n |-> z.n + k, dec |-> IF z.n + k = 2 THEN ServerHsKeys
                            ELSE IF z.n + k = 10 THEN ServerApKeys ELSE Advanced(server.send)]
  OBVIOUS
<1>14. z2.n = z.n + k /\ z2.n \in Nat /\ z.n < z2.n /\ z2.n <= m /\ z2.n - z.n = k
  BY <1>4, <1>10, <1>12, <1>13, <1>2
<1>15. z.dec = server.send
  BY <1>2, <1>4, <1>5, <1>10, <1>11, <1>12 DEF Between, ServerAt
<1>16. a = [i \in 1 .. z2.n - z.n |-> Script[z.n + i]]
  BY <1>2, <1>4, <1>9, <1>12, <1>14
<1>17. DownStep(Script, z, Sealed(server.send, "Handshake", Handshakes(a)), z2)
  BY <1>11, <1>12, <1>13, <1>14, <1>15, <1>16, <1>10 DEF DownStep
<1>18. ToSend(z2, m)'
  <2>1. Script' = Script
    BY <1>5, SameScript
  <2>2. m - z2.n = l - k
    BY <1>2, <1>4, <1>10, <1>12, <1>14
  <2>3. Len(b) = m - z2.n
    BY <1>9, <2>2
  <2>4. ASSUME NEW i \in 1 .. m - z2.n PROVE b[i] = Script[z2.n + i]
    <3>1. i \in 1 .. l - k /\ k + i \in 1 .. l /\ z.n + (k + i) = z2.n + i
      BY <1>2, <1>4, <1>10, <1>14, <2>2
    <3>. QED  BY <1>9, <1>12, <3>1
  <2>. QED  BY <1>7, <1>8, <1>14, <2>1, <2>3, <2>4 DEF ToSend
<1>19. Advanced(Disabled) = Disabled
  BY DEF Disabled, Advanced, AdvancedBy, Numbered, Enabled, Fresh
<1>20. /\ Disabled' = Disabled /\ ServerHsKeys' = ServerHsKeys /\ ServerApKeys' = ServerApKeys
  BY DEF Disabled, ServerHsKeys, ServerApKeys, Hellos, Order
<1>21. ServerAt(z2)'
  <2>1. CASE server.phase = "hello"
    <3>1. server.send = Disabled /\ m = 2
      BY <1>11, <2>1 DEF Between, ServerAt
    <3>2. z2.dec = IF z2.n = 2 THEN ServerHsKeys ELSE Disabled
      BY <1>13, <1>14, <1>19, <3>1
    <3>. QED  BY <1>7, <1>18, <1>19, <1>20, <2>1, <3>1, <3>2 DEF ServerAt
  <2>2. CASE server.phase = "flight"
    <3>1. m = 10 /\ z2.n > 2
      BY <1>10, <1>11, <1>12, <1>14, <2>2
    <3>2. z2.dec = IF z2.n = 10 THEN ServerApKeys ELSE Advanced(server.send)
      BY <1>13, <1>14, <3>1
    <3>. QED  BY <1>7, <1>14, <1>18, <1>20, <2>2, <3>1, <3>2 DEF ServerAt
  <2>. QED  BY <1>5, <2>1, <2>2
<1>. QED
  <2>1. z.n <= z2.n
    BY <1>10, <1>14
  <2>. QED  BY <1>5, <1>8, <1>14, <1>17, <1>21, <2>1, ServerGoes

LEMMA StartsGoes ==
    ASSUME StreamInv, TrustInv, cfg \in SupportedServers, st # "err", pc # "refused", NEW p, NEW z, Between(p, z),
           ServerStartsFlight
    PROVE  GoodInv'
<1>1. /\ server.phase = "hello" /\ server.script = <<>> /\ UNCHANGED <<pc, connection, cfg>>
      /\ toClient' = toClient \o Units(Sealed(Disabled, "ChangeCipherSpec", Handshakes(<<>>)))
  BY DEF ServerStartsFlight
<1>2. DOMAIN server = ServerFields /\ server = [f \in ServerFields |-> server[f]]
  BY DEF StreamInv, ServerInv
<1>3. server'.phase = "flight" /\ server'.script = Flight(Signed, Mac) /\ server'.send = ServerHsKeys
  <2>. DEFINE f == Flight(Signed, Mac)
              k == Fresh(Derived("c hs traffic", Hellos))
  <2>1. server' = [server EXCEPT !.phase = "flight", !.script = f, !.send = ServerHsKeys, !.recv = k]
    BY DEF ServerStartsFlight, Signed, Mac, ServerHsKeys
  <2>. HIDE DEF f, k
  <2>2. server'.phase = "flight" /\ server'.script = f /\ server'.send = ServerHsKeys
    BY <1>2, <2>1 DEF ServerFields
  <2>. QED  BY <2>2 DEF f
<1>4. z.n \in Nat
  BY FlowBounds DEF Between
<1>5. z.n = 2 /\ z.dec = ServerHsKeys
  <2>1. ToSend(z, 2) /\ (z.n = 2 => z.dec = ServerHsKeys)
    BY <1>1 DEF Between, ServerAt
  <2>2. 0 = 2 - z.n
    BY <1>1, <2>1 DEF ToSend
  <2>. QED  BY <1>4, <2>1, <2>2
<1>6. ToSend(z, 10)'
  <2>1. Script' = Script
    BY <1>1, SameScript
  <2>2. Len(Flight(Signed, Mac)) = 8 /\ \A i \in 1 .. 8 : Flight(Signed, Mac)[i] = Script[2 + i]
    BY ScriptIsSent
  <2>. QED  BY <1>3, <1>5, <2>1, <2>2 DEF ToSend
<1>7. ServerHsKeys' = ServerHsKeys
  BY DEF ServerHsKeys, Hellos
<1>8. ServerAt(z)'
  BY <1>3, <1>5, <1>6, <1>7 DEF ServerAt
<1>9. DownStep(Script, z, Sealed(Disabled, "ChangeCipherSpec", Handshakes(<<>>)), z)
  BY <1>5 DEF DownStep
<1>10. PICK r : r = Sealed(Disabled, "ChangeCipherSpec", Handshakes(<<>>))
  OBVIOUS
<1>11. toClient' = toClient \o Units(r) /\ DownStep(Script, z, r, z)
  BY <1>1, <1>9, <1>10
<1>12. z.n <= z.n
  BY <1>4
<1>. QED  BY <1>1, <1>4, <1>8, <1>11, <1>12, ServerGoes

LEMMA EndsGoes ==
    ASSUME StreamInv, TrustInv, cfg \in SupportedServers, st # "err", pc # "refused", NEW p, NEW z, Between(p, z),
           ServerEndsFlight
    PROVE  GoodInv'
<1>1. /\ server.phase = "flight" /\ server.script = <<>> /\ UNCHANGED <<pc, connection, cfg, toClient>>
  BY DEF ServerEndsFlight
<1>2. DOMAIN server = ServerFields /\ server = [f \in ServerFields |-> server[f]]
  BY DEF StreamInv, ServerInv
<1>3. ServerTranscript(Len(cfg.flight) + 1) = Order
  <2>1. Len(cfg.flight) + 1 = 5
    <3>1. Len(cfg.flight) = 4
      BY GoodFlightOrder
    <3>. QED  BY <3>1
  <2>2. ServerTranscript(5) = Hashes(5)
    <3>1. 5 \in 1 .. 5
      OBVIOUS
    <3>. QED  BY <3>1, ServerHashes
  <2>. QED  BY <2>1, <2>2, AllHashes
<1>4. server'.phase = "sent" /\ server'.send = ServerApKeys
  BY <1>2, <1>3 DEF ServerEndsFlight, ServerApKeys, ServerFields
<1>5. z.n \in Nat
  BY FlowBounds DEF Between
<1>6. z.n = 10 /\ z.dec = ServerApKeys
  <2>1. ToSend(z, 10) /\ (z.n = 10 => z.dec = ServerApKeys)
    BY <1>1 DEF Between, ServerAt
  <2>2. 0 = 10 - z.n
    BY <1>1, <2>1 DEF ToSend
  <2>. QED  BY <1>5, <2>1, <2>2
<1>7. ServerAt(z)'
  BY <1>4, <1>6 DEF ServerAt
<1>. QED  BY <1>1, <1>5, <1>7, ServerGoes

\* A record after the handshake.
LEMMA PostGoes ==
    ASSUME StreamInv, cfg \in SupportedServers, st # "err", pc # "refused", NEW p, NEW z, Between(p, z),
           server.phase \in {"sent", "open"}, server'.phase \in {"sent", "open"},
           UNCHANGED <<pc, connection, cfg>>, NEW r, toClient' = toClient \o Units(r),
           \/ /\ server'.send = Advanced(server.send)
              /\ \/ \E c : r = Sealed(server.send, "ApplicationData", c)
                 \/ r = Sealed(server.send, "Handshake", Handshakes(Halves(Ticket)))
           \/ /\ server'.send = Updated(server.send)
              /\ \E b \in BOOLEAN : r = Sealed(server.send, "Handshake", Handshakes(Halves(KeyUpdate(b))))
    PROVE  GoodInv'
<1>1. z.n = 10 /\ z.dec = server.send
  BY DEF Between, ServerAt
<1>2. PICK z2 : z2 = [n |-> 10, dec |-> server'.send]
  OBVIOUS
<1>3. DownStep(Script, z, r, z2)
  BY <1>1, <1>2 DEF DownStep
<1>4. ServerAt(z2)'
  BY <1>2 DEF ServerAt
<1>. QED  BY <1>1, <1>2, <1>3, <1>4, ServerGoes

LEMMA PostsGo ==
    ASSUME StreamInv, cfg \in SupportedServers, st # "err", pc # "refused", NEW p, NEW z, Between(p, z), ServerPosts
    PROVE  GoodInv'
<1>1. DOMAIN server = ServerFields /\ server = [f \in ServerFields |-> server[f]]
  BY DEF StreamInv, ServerInv
<1>2. CASE \E n \in {1, 2} : ServerSendsData(n)
  <2>1. PICK n \in {1, 2} : ServerSendsData(n)
    BY <1>2
  <2>2. server'.phase = server.phase /\ server'.send = Advanced(server.send)
        /\ server.phase \in {"sent", "open"} /\ UNCHANGED <<pc, connection, cfg>>
    BY <1>1, <2>1 DEF ServerSendsData, ServerIsOpen, ServerFields
  <2>3. PICK c : toClient' = toClient \o Units(Sealed(server.send, "ApplicationData", c))
    BY <2>1 DEF ServerSendsData
  <2>. QED  BY <2>2, <2>3, PostGoes
<1>3. CASE ServerSendsTicket
  <2>1. server'.phase = server.phase /\ server'.send = Advanced(server.send)
        /\ server.phase = "open" /\ UNCHANGED <<pc, connection, cfg>>
    BY <1>1, <1>3 DEF ServerSendsTicket, ServerFields
  <2>2. toClient' = toClient \o Units(Sealed(server.send, "Handshake", Handshakes(Halves(Ticket))))
    BY <1>3 DEF ServerSendsTicket, Ticket
  <2>. QED  BY <2>1, <2>2, PostGoes
<1>4. CASE \E request \in BOOLEAN : ServerUpdatesKey(request)
  <2>1. PICK b \in BOOLEAN : ServerUpdatesKey(b)
    BY <1>4
  <2>2. server'.phase = server.phase /\ server'.send = Updated(server.send)
        /\ server.phase = "open" /\ UNCHANGED <<pc, connection, cfg>>
    BY <1>1, <2>1 DEF ServerUpdatesKey, ServerFields
  <2>3. toClient' = toClient \o Units(Sealed(server.send, "Handshake", Handshakes(Halves(KeyUpdate(b)))))
    BY <2>1 DEF ServerUpdatesKey
  <2>. QED  BY <2>2, <2>3, PostGoes
<1>5. CASE \E notified \in BOOLEAN : ServerCloses(notified)
  <2>1. server'.closed
    BY <1>1, <1>5 DEF ServerCloses, ServerFields
  <2>. QED  BY <2>1 DEF GoodInv
<1>. QED  BY <1>2, <1>3, <1>4, <1>5 DEF ServerPosts

LEMMA ReceivesGoes ==
    ASSUME StreamInv, cfg \in SupportedServers, st # "err", pc # "refused", NEW p, NEW z, Between(p, z),
           ServerReceives
    PROVE  GoodInv'
<1>. DEFINE after == IF WholeRecord(toServer) THEN ServerAccepts(toServer[1].of)
                                              ELSE [server EXCEPT !.phase = "failed"]
            failed == after.phase = "failed"
<1>1. /\ server.phase \in {"sent", "open"} /\ UNCHANGED <<pc, connection, cfg>>
      /\ server' = [after EXCEPT !.closed = failed] /\ (~failed => toClient' = toClient)
  BY DEF ServerReceives, ServerIsOpen
<1>2. /\ ServerInv /\ DOMAIN server = ServerFields /\ server = [f \in ServerFields |-> server[f]]
  BY DEF StreamInv, ServerInv
<1>3. /\ after.phase \in {"sent", "open", "failed"} /\ after.send = server.send
      /\ DOMAIN after = ServerFields
  <2>1. CASE WholeRecord(toServer)
    BY <1>1, <1>2, <2>1, AcceptsAs
  <2>2. CASE ~WholeRecord(toServer)
    BY <1>2, <2>2 DEF ServerFields
  <2>. QED  BY <2>1, <2>2
<1>. HIDE DEF after
<1>4. server'.phase = after.phase /\ server'.send = server.send /\ server'.closed = failed
  BY <1>1, <1>3 DEF ServerFields
<1>5. CASE failed
  BY <1>4, <1>5 DEF GoodInv
<1>6. CASE ~failed
  <2>1. z.n = 10 /\ z.dec = server.send
    BY <1>1 DEF Between, ServerAt
  <2>2. ServerAt(z)'
    BY <1>3, <1>4, <1>6, <2>1 DEF ServerAt
  <2>. QED  BY <1>1, <1>6, <2>1, <2>2, ServerGoes
<1>. QED  BY <1>5, <1>6

\* A connection that is closed stays so.
LEMMA StaysClosed ==
    ASSUME StreamInv, ServerHandshake \/ ServerReceives \/ ServerPosts
    PROVE  ~server.closed' => ~server.closed
<1>1. CASE ServerPosts
  <2>1. ~server.closed
    BY <1>1 DEF ServerPosts, ServerSendsData, ServerSendsTicket, ServerUpdatesKey, ServerCloses, ServerIsOpen
  <2>. QED  BY <2>1
<1>2. CASE ServerHandshake \/ ServerReceives
  <2>1. ~server.closed
    BY <1>2 DEF ServerHandshake, ServerAnswers, ServerSendsHandshake, ServerStartsFlight, ServerEndsFlight,
                ServerReceives, ServerIsOpen
  <2>. QED  BY <2>1
<1>. QED  BY <1>1, <1>2

LEMMA ServerGoodStep ==
    ASSUME GoodInv, StreamInv, TrustInv, ServerHandshake \/ ServerReceives \/ ServerPosts
    PROVE  GoodInv'
<1>1. cfg' = cfg
  BY DEF ServerHandshake, ServerAnswers, ServerSendsHandshake, ServerStartsFlight, ServerEndsFlight,
         ServerReceives, ServerPosts, ServerSendsData, ServerSendsTicket, ServerUpdatesKey, ServerCloses
<1>2. SupportedServers' = SupportedServers
  BY ServersStay
<1>3. CASE ~(cfg' \in SupportedServers' /\ ~server.closed')
  BY <1>3 DEF GoodInv
<1>4. CASE cfg' \in SupportedServers' /\ ~server.closed'
  <2>1. cfg \in SupportedServers /\ ~server.closed
    BY <1>1, <1>2, <1>4, StaysClosed
  <2>2. st # "err" /\ pc # "refused" /\ \E p, z : Between(p, z)
    BY <2>1 DEF GoodInv
  <2>3. PICK p, z : Between(p, z)
    BY <2>2
  <2>. QED  BY <2>1, <2>2, <2>3, AnswersGoes, SendsGoes, StartsGoes, EndsGoes, ReceivesGoes, PostsGo
            DEF ServerHandshake
<1>. QED  BY <1>3, <1>4
-----------------------------------------------------------------------------
(* The client's steps. *)

LEMMA AtMostAll ==
    ASSUME StreamInv, ~server.closed, NEW p, NEW z, Between(p, z)
    PROVE  p.n \in Nat /\ z.n \in Nat /\ p.n <= z.n /\ z.n <= 10
<1>1. p.n \in Nat /\ z.n \in Nat /\ p.n <= z.n
  BY FlowBounds DEF Between
<1>2. server.phase \in Phases /\ server.phase # "failed"
  BY DEF StreamInv, ServerInv
<1>3. z.n <= 10
  BY <1>1, <1>2 DEF Between, ServerAt, ToSend, Phases
<1>. QED  BY <1>1, <1>3

LEMMA ClientGoes ==
    ASSUME NEW p, NEW z, Flow("server", Script, input', toClient', p, z), ClientAt(p)', ServerAt(z),
           UNCHANGED external, st' # "err", pc' # "refused"
    PROVE  GoodInv'
<1>1. cfg' = cfg /\ server' = server
  BY DEF external
<1>2. Script' = Script
  BY <1>1, SameScript
<1>3. ServerAt(z)'
  <2>1. /\ Disabled' = Disabled /\ ServerHsKeys' = ServerHsKeys /\ ServerApKeys' = ServerApKeys
    BY DEF Disabled, ServerHsKeys, ServerApKeys, Hellos, Order
  <2>. QED  BY <1>1, <1>2, <2>1 DEF ServerAt, ToSend
<1>4. PICK T : T = Script
  OBVIOUS
<1>5. Flow("server", T, input', toClient', p, z) /\ Script' = T
  BY <1>2, <1>4
<1>6. Flow("server", Script, input, toClient, p, z)'
  BY <1>5
<1>. QED  BY <1>3, <1>6 DEF GoodInv, Between

LEMMA QuietGoes ==
    ASSUME StagesInv, NEW p, NEW z, Between(p, z), st # "err", pc # "refused",
           \/ Start \/ HandshakeProcessed \/ PollProcessed \/ Write \/ UNCHANGED vars
           \/ \E n \in 0 .. Len(data) : PollRead(n)
    PROVE  GoodInv'
<1>1. /\ UNCHANGED <<input, toClient, hs, decoded, dec, external>> /\ pc' # "refused"
      /\ st' = st \/ (st = "Start" /\ st' = "WaitServerHello")
  BY DEF Start, HandshakeProcessed, PollProcessed, Write, PollWrite, PollWriteFails, PollRead, vars,
         connection
<1>2. Handled' = Handled /\ cfg' = cfg
  BY <1>1 DEF Handled, external
<1>3. ClientAt(p)'
  BY <1>1, <1>2, ClientStays DEF Between
<1>4. Flow("server", Script, input', toClient', p, z) /\ ServerAt(z)
  BY <1>1 DEF Between
<1>. QED  BY <1>1, <1>3, <1>4, ClientGoes

LEMMA ReadGoes ==
    ASSUME NEW p, NEW z, Between(p, z), st # "err", pc # "refused",
           NEW n \in 0 .. Len(toClient), HandshakeRead(n) \/ PollReadTls(n)
    PROVE  GoodInv'
<1>1. ReadTls(n) /\ UNCHANGED <<pc, st, hs, decoded, dec, external>>
  BY DEF HandshakeRead, PollReadTls
<1>2. Handled' = Handled /\ cfg' = cfg
  BY <1>1 DEF Handled, external
<1>3. ClientAt(p)'
  BY <1>1, <1>2, ClientStays DEF Between
<1>4. Flow("server", Script, input \o SubSeq(toClient, 1, n), SubSeq(toClient, n + 1, Len(toClient)), p, z)
  BY FlowRead DEF Between
<1>5. Flow("server", Script, input', toClient', p, z) /\ ServerAt(z)
  BY <1>1, <1>4 DEF ReadTls, Between
<1>. QED  BY <1>1, <1>3, <1>5, ClientGoes

-----------------------------------------------------------------------------
(* Messages of the handshake. *)

\* The next message that is decoded.
LEMMA NextIsSaid ==
    ASSUME TrustInv, NEW p, ClientAt(p), Handled < 5, decoded # <<>>, p.n \in Nat, p.n <= 10
    PROVE  /\ Handled \in 0 .. 4 /\ Handled < p.n \div 2 /\ p.n \div 2 <= 5
           /\ Head(decoded) = Said[Handled + 1]
<1>1. PICK m, k : m = Handled /\ k = p.n \div 2
  OBVIOUS
<1>2. m \in 0 .. 4
  BY <1>1 DEF Handled
<1>3. k \in 0 .. 5
  BY <1>1
<1>4. /\ m <= k /\ Len(decoded) = k - m /\ \A i \in 1 .. k - m : decoded[i] = Said[m + i]
  BY <1>1 DEF ClientAt, InHandshake
<1>5. decoded \in Seq(Messages)
  BY SourcesNow
<1>6. Len(decoded) >= 1 /\ Head(decoded) = decoded[1]
  BY <1>5
<1>7. 1 \in 1 .. k - m
  BY <1>2, <1>3, <1>4, <1>6
<1>. QED  BY <1>1, <1>2, <1>3, <1>4, <1>6, <1>7

\* It is handled.
LEMMA HandledAt ==
    ASSUME TrustInv, NEW p, ClientAt(p), Handled < 5, decoded # <<>>, p.n \in Nat, p.n <= 10,
           Handled' = Handled + 1, decoded' = Tail(decoded), UNCHANGED <<hs, cfg>>,
           dec' = IF Handled = 0 THEN ServerHsKeys ELSE IF Handled = 4 THEN ServerApKeys ELSE dec
    PROVE  ClientAt(p)'
<1>1. PICK m, k, n : m = Handled /\ k = p.n \div 2 /\ n = p.n
  OBVIOUS
<1>2. m \in 0 .. 4 /\ k \in 0 .. 5 /\ m < k /\ n \in 0 .. 10 /\ 2 * k <= n /\ n <= 2 * k + 1
  <2>1. m \in 0 .. 4 /\ m < k
    BY <1>1, NextIsSaid
  <2>2. n \in 0 .. 10 /\ k = n \div 2
    BY <1>1
  <2>3. k \in 0 .. 5 /\ 2 * k <= n /\ n <= 2 * k + 1
    BY <2>2
  <2>. QED  BY <2>1, <2>2, <2>3
<1>3. /\ m = 0 => n <= 2
      /\ Len(decoded) = k - m /\ \A i \in 1 .. k - m : decoded[i] = Said[m + i]
      /\ Len(hs) = n - 2 * k /\ (n > 2 * k => hs[1] = Script[n])
      /\ p.dec = IF m = 0 /\ n = 2 THEN ServerHsKeys ELSE IF n = 10 THEN ServerApKeys ELSE dec
  BY <1>1 DEF ClientAt, InHandshake
<1>4. decoded \in Seq(Messages) /\ hs \in Seq(HalfOf(Messages))
  BY SourcesNow
<1>5. PICK d : d = decoded
  OBVIOUS
<1>6. /\ Len(Tail(d)) = k - m - 1 /\ Tail(d) \in Seq(Messages)
      /\ \A i \in 1 .. k - m - 1 : Tail(d)[i] = d[i + 1]
  <2>1. d \in Seq(Messages) /\ Len(d) = k - m /\ k - m > 0
    BY <1>2, <1>3, <1>4, <1>5
  <2>. QED  BY ONLY <2>1, <1>2
<1>7. /\ Len(decoded') = k - (m + 1) /\ decoded' \in Seq(Messages)
      /\ \A i \in 1 .. k - (m + 1) : decoded'[i] = Said[m + 1 + i]
  <2>1. k - (m + 1) = k - m - 1
    BY <1>2
  <2>2. ASSUME NEW i \in 1 .. k - m - 1 PROVE Tail(d)[i] = Said[m + 1 + i]
    <3>1. i + 1 \in 1 .. k - m /\ m + (i + 1) = m + 1 + i
      BY <1>2
    <3>. QED  BY <1>3, <1>5, <1>6, <3>1
  <2>. QED  BY <1>5, <1>6, <2>1, <2>2
<1>8. /\ Said' = Said /\ Script' = Script /\ ServerHsKeys' = ServerHsKeys
      /\ ServerApKeys' = ServerApKeys /\ Ticket' = Ticket
  BY SameScript DEF ServerHsKeys, ServerApKeys, Ticket, Hellos, Order
<1>9. CASE m < 4
  <2>1. p.dec = IF n = 10 THEN ServerApKeys ELSE dec'
    <3>1. CASE m = 0
      <4>1. n = 2
        BY <1>2, <1>3, <3>1
      <4>. QED  BY <1>1, <1>3, <3>1, <4>1
    <3>2. CASE m > 0
      BY <1>1, <1>2, <1>3, <1>9, <3>2
    <3>. QED  BY <1>2, <3>1, <3>2
  <2>2. Handled' = m + 1 /\ m + 1 < 5 /\ m + 1 # 0 /\ m + 1 <= k
    BY <1>1, <1>2, <1>9
  <2>3. InHandshake(p, m + 1, k)'
    BY <1>1, <1>3, <1>7, <1>8, <2>1, <2>2 DEF InHandshake
  <2>. QED  BY <1>1, <2>2, <2>3 DEF ClientAt
<1>10. CASE m = 4
  <2>1. k = 5 /\ n = 10
    BY <1>2, <1>10
  <2>2. Len(hs) = 0 /\ Len(decoded') = 0
    BY <1>3, <1>7, <1>10, <2>1
  <2>3. hs' = <<>> /\ decoded' = <<>>
    BY <1>4, <1>7, <2>2
  <2>4. p.dec = dec'
    BY <1>1, <1>3, <1>8, <1>10, <2>1
  <2>5. Handled' = 5 /\ ~(Handled' < 5)
    BY <1>1, <1>10
  <2>. QED  BY <1>1, <2>1, <2>3, <2>4, <2>5 DEF ClientAt, AfterHandshake
<1>. QED  BY <1>2, <1>9, <1>10

LEMMA NotRefused ==
    ASSUME TrustInv, StagesInv, cfg \in SupportedServers, NEW p, ClientAt(p), decoded # <<>>, p.n \in Nat, p.n <= 10,
           st # "err", st # "Start"
    PROVE  Expected(Head(decoded))
<1>1. CASE Handled < 5
  <2>1. Head(decoded) = Said[Handled + 1] /\ Handled \in 0 .. 4
    BY <1>1, NextIsSaid
  <2>2. transcript = Hashes(Handled)
    BY DEF TrustInv, ControlInv
  <2>3. st # "Connected"
    BY <1>1 DEF Handled
  <2>4. st = "WaitServerHello" => Handled = 0
    BY DEF Handled
  <2>5. st = "WaitEncryptedExtensions" => Handled = 1
    BY DEF Handled
  <2>6. st = "WaitCertificate" => Handled = 2
    BY DEF Handled
  <2>7. st = "WaitCertificateVerify" => Handled = 3
    BY DEF Handled
  <2>8. st = "WaitFinished" => Handled = 4
    BY DEF Handled
  <2>9. CASE st = "WaitServerHello"
    <3>1. Head(decoded) = Hello /\ ServerHelloAccepted(cfg.hello)
      BY <2>1, <2>4, <2>9, SaidIsExpected
    <3>. QED  BY <2>9, <3>1 DEF Expected, Hello
  <2>10. CASE st = "WaitEncryptedExtensions"
    BY <2>1, <2>5, <2>10, SaidIsExpected DEF Expected
  <2>11. CASE st = "WaitCertificate"
    BY <2>1, <2>6, <2>11, SaidIsExpected DEF Expected
  <2>12. CASE st = "WaitCertificateVerify"
    BY <2>1, <2>2, <2>7, <2>12, SaidIsExpected DEF Expected
  <2>13. CASE st = "WaitFinished"
    BY <2>1, <2>2, <2>8, <2>13, SaidIsExpected DEF Expected, VerifiesFinished
  <2>14. st \in {"WaitServerHello", "WaitEncryptedExtensions", "WaitCertificate",
                "WaitCertificateVerify", "WaitFinished"}
    BY <2>3 DEF StagesInv, HandshakeStates
  <2>. QED  BY <2>9, <2>10, <2>11, <2>12, <2>13, <2>14
<1>2. CASE ~(Handled < 5)
  <2>1. st = "Connected"
    BY <1>2 DEF Handled
  <2>2. decoded = <<Ticket>> \/ \E b \in BOOLEAN : decoded = <<KeyUpdate(b)>>
    BY <1>2 DEF ClientAt, AfterHandshake
  <2>3. Head(decoded).name \in {"NewSessionTicket", "KeyUpdate"}
    BY <2>2 DEF Ticket, KeyUpdate
  <2>. QED  BY <2>1, <2>3 DEF Expected
<1>. QED  BY <1>1, <1>2

LEMMA HandleGoes ==
    ASSUME TrustInv, TrustInv', StreamInv, StagesInv, cfg \in SupportedServers, ~server.closed, NEW p, NEW z, Between(p, z),
           st # "err", pc # "refused",
           \/ HandleServerHello \/ HandleEncryptedExtensions \/ HandleCertificate
           \/ HandleCertificateVerify \/ HandleFinished \/ HandleTicket \/ HandleKeyUpdate
           \/ RefuseHandshake
    PROVE  GoodInv'
<1>1. p.n \in Nat /\ p.n <= 10 /\ ClientAt(p)
  <2>1. p.n \in Nat /\ z.n \in Nat /\ p.n <= z.n /\ z.n <= 10
    BY AtMostAll
  <2>. QED  BY <2>1 DEF Between
<1>2. processing /\ decoded # <<>>
  BY DEF HandleServerHello, HandleEncryptedExtensions, HandleCertificate, HandleCertificateVerify,
         HandleFinished, HandleTicket, HandleKeyUpdate, RefuseHandshake, Handle
<1>3. ~RefuseHandshake
  <2>1. st # "Start"
    BY <1>2 DEF StreamInv, Processes, TrustInv, ControlInv
  <2>. QED  BY <1>1, <1>2, <2>1, NotRefused DEF RefuseHandshake
<1>4. /\ decoded' = Tail(decoded) /\ UNCHANGED <<pc, input, hs, toClient, external>>
  BY <1>3 DEF HandleServerHello, HandleEncryptedExtensions, HandleCertificate, HandleCertificateVerify,
         HandleFinished, HandleTicket, HandleKeyUpdate, Handle
<1>5. cfg' = cfg
  BY <1>4 DEF external
<1>6. CASE HandleServerHello
  <2>1. st = "WaitServerHello" /\ st' = "WaitEncryptedExtensions" /\ dec' = Fresh(Derived("s hs traffic", transcript'))
    BY <1>6 DEF HandleServerHello
  <2>2. Handled = 0 /\ Handled' = 1
    BY <2>1 DEF Handled
  <2>3. transcript' = Hashes(1)
    BY <2>1, <2>2 DEF TrustInv, ControlInv
  <2>4. Hashes(1) = Hellos
    BY DEF Hashes, Hellos, Order
  <2>5. dec' = ServerHsKeys
    BY <2>1, <2>3, <2>4 DEF ServerHsKeys
  <2>6. ClientAt(p)'
    BY <1>1, <1>2, <1>4, <1>5, <2>2, <2>5, HandledAt
  <2>. QED  BY <1>4, <2>1, <2>6, ClientGoes DEF Between
<1>7. CASE HandleEncryptedExtensions \/ HandleCertificate \/ HandleCertificateVerify
  <2>1. /\ dec' = dec /\ st' # "err"
        /\ \/ st = "WaitEncryptedExtensions" /\ st' = "WaitCertificate"
           \/ st = "WaitCertificate" /\ st' = "WaitCertificateVerify"
           \/ st = "WaitCertificateVerify" /\ st' = "WaitFinished"
    BY <1>7 DEF HandleEncryptedExtensions, HandleCertificate, HandleCertificateVerify
  <2>2. Handled \in 1 .. 3 /\ Handled' = Handled + 1
    BY <2>1 DEF Handled
  <2>3. ClientAt(p)'
    BY <1>1, <1>2, <1>4, <1>5, <2>1, <2>2, HandledAt
  <2>. QED  BY <1>4, <2>1, <2>3, ClientGoes DEF Between
<1>8. CASE HandleFinished
  <2>1. st = "WaitFinished" /\ st' = "Connected" /\ dec' = Fresh(Derived("s ap traffic", transcript'))
    BY <1>8 DEF HandleFinished
  <2>2. Handled = 4 /\ Handled' = 5
    BY <2>1 DEF Handled
  <2>3. transcript' = Order
    BY <2>1, <2>2, AllHashes DEF TrustInv, ControlInv
  <2>4. dec' = ServerApKeys
    BY <2>1, <2>3 DEF ServerApKeys
  <2>5. ClientAt(p)'
    BY <1>1, <1>2, <1>4, <1>5, <2>2, <2>4, HandledAt
  <2>. QED  BY <1>4, <2>1, <2>5, ClientGoes DEF Between
<1>9. CASE HandleTicket \/ HandleKeyUpdate
  <2>1. st = "Connected" /\ st' = st
    BY <1>9 DEF HandleTicket, HandleKeyUpdate
  <2>2. Handled = 5 /\ Handled' = 5 /\ ~(5 < 5)
    BY <2>1 DEF Handled
  <2>3. /\ p.n = 10 /\ hs = <<>>
        /\ \/ decoded = <<Ticket>> /\ p.dec = dec
           \/ \E b \in BOOLEAN : decoded = <<KeyUpdate(b)>> /\ p.dec = Updated(dec)
    BY <1>1, <1>2, <2>2 DEF ClientAt, AfterHandshake
  <2>4. decoded' = <<>>
    BY <1>4, <2>3
  <2>5. p.dec = dec'
    <3>1. CASE HandleTicket
      <4>1. dec' = dec /\ Head(decoded).name = "NewSessionTicket"
        BY <3>1 DEF HandleTicket, Handle
      <4>2. \A b \in BOOLEAN : decoded # <<KeyUpdate(b)>>
        BY <4>1 DEF KeyUpdate
      <4>. QED  BY <2>3, <4>1, <4>2
    <3>2. CASE HandleKeyUpdate
      <4>1. dec' = Updated(dec) /\ Head(decoded).name = "KeyUpdate"
        BY <3>2 DEF HandleKeyUpdate, Handle
      <4>2. decoded # <<Ticket>>
        BY <4>1 DEF Ticket
      <4>. QED  BY <2>3, <4>1, <4>2
    <3>. QED  BY <1>9, <3>1, <3>2
  <2>6. ClientAt(p)'
    BY <1>4, <2>2, <2>3, <2>4, <2>5 DEF ClientAt, AfterHandshake
  <2>. QED  BY <1>4, <2>1, <2>6, ClientGoes DEF Between
<1>. QED  BY <1>3, <1>6, <1>7, <1>8, <1>9
-----------------------------------------------------------------------------
(* Records of the server. *)

LEMMA Halved ==
    ASSUME NEW n \in Nat
    PROVE  n \div 2 \in Nat /\ 2 * (n \div 2) <= n /\ n <= 2 * (n \div 2) + 1
OBVIOUS

LEMMA HalvesBetween ==
    ASSUME NEW b \in Nat, NEW k \in Nat, NEW l \in Nat, k <= l, 2 * l <= b, b <= 2 * l + 1
    PROVE  (b - 2 * k) \div 2 = l - k /\ (b - 2 * k) % 2 = b - 2 * l
<1>1. CASE b = 2 * l
  <2>1. b - 2 * k = 2 * (l - k) /\ l - k \in Nat
    BY <1>1
  <2>2. \A x \in Nat : (2 * x) \div 2 = x /\ (2 * x) % 2 = 0
    OBVIOUS
  <2>. QED  BY <1>1, <2>1, <2>2
<1>2. CASE b = 2 * l + 1
  <2>1. b - 2 * k = 2 * (l - k) + 1 /\ l - k \in Nat
    BY <1>2
  <2>2. \A x \in Nat : (2 * x + 1) \div 2 = x /\ (2 * x + 1) % 2 = 1
    OBVIOUS
  <2>3. b - 2 * l = 1
    BY <1>2
  <2>. QED  BY <2>1, <2>2, <2>3
<1>. QED  BY <1>1, <1>2

LEMMA Listed ==
    ASSUME NEW H, NEW T, NEW a \in Nat, NEW b \in Nat, a <= b, \A i \in a + 1 .. b : T[i] \in H
    PROVE  /\ [i \in 1 .. b - a |-> T[a + i]] \in Seq(H) /\ Len([i \in 1 .. b - a |-> T[a + i]]) = b - a
           /\ \A i \in 1 .. b - a : [j \in 1 .. b - a |-> T[a + j]][i] = T[a + i]
<1>1. PICK n \in Nat : n = b - a
  OBVIOUS
<1>2. PICK f : f = [i \in 1 .. n |-> T[a + i]]
  OBVIOUS
<1>3. \A i \in 1 .. n : a + i \in a + 1 .. b
  BY <1>1
<1>4. \A i \in 1 .. n : f[i] \in H
  BY <1>2, <1>3
<1>5. f \in Seq(H)
  <2>1. DOMAIN f = 1 .. n /\ f = [i \in DOMAIN f |-> f[i]]
    BY <1>2
  <2>2. f \in [1 .. n -> H]
    BY <1>4, <2>1
  <2>. QED  BY ONLY <1>1, <2>2
<1>6. Len(f) = n /\ \A i \in 1 .. n : f[i] = T[a + i]
  BY <1>2
<1>. QED  BY <1>1, <1>2, <1>5, <1>6

\* The halves T[a + 1] to T[b] arrive, as h, where those of the first k messages
\* were taken and the last of a halves may be left, as s; l messages are then whole.
Arriving(H, T, a, b, k, l, s, h, buffer) ==
    /\ buffer = s \o h
    /\ a \in 0 .. 10 /\ b \in 0 .. 10 /\ a < b
    /\ k \in Nat /\ 2 * k <= a /\ a <= 2 * k + 1
    /\ l \in Nat /\ 2 * l <= b /\ b <= 2 * l + 1
    /\ s \in Seq(H) /\ Len(s) = a - 2 * k /\ (a > 2 * k => s[1] = T[a])
    /\ h \in Seq(H) /\ Len(h) = b - a /\ \A i \in 1 .. Len(h) : h[i] = T[a + i]

LEMMA Buffered ==
    ASSUME NEW H, NEW T, NEW a, NEW b, NEW k, NEW l, NEW s, NEW h, NEW buffer,
           Arriving(H, T, a, b, k, l, s, h, buffer)
    PROVE  /\ DOMAIN Whole(buffer) = 1 .. l - k /\ Len(Whole(buffer)) = l - k
           /\ \A i \in 1 .. l - k : Whole(buffer)[i] = T[2 * (k + i)].of
           /\ Len(Rest(buffer)) = b - 2 * l
           /\ b > 2 * l => Rest(buffer)[1] = T[b]
<1>1. /\ a \in 0 .. 10 /\ b \in 0 .. 10 /\ k \in 0 .. 5 /\ l \in 0 .. 5 /\ k <= l
      /\ a - 2 * k \in {0, 1} /\ b - 2 * l \in {0, 1} /\ a < b /\ 2 * l <= b /\ b <= 2 * l + 1
  <2>1. a \in 0 .. 10 /\ b \in 0 .. 10 /\ a < b /\ k \in Nat /\ l \in Nat
    BY DEF Arriving
  <2>2. 2 * k <= a /\ a <= 2 * k + 1 /\ 2 * l <= b /\ b <= 2 * l + 1
    BY DEF Arriving
  <2>. QED  BY ONLY <2>1, <2>2
<1>2. /\ k \in 0 .. 5 /\ l \in 0 .. 5 /\ k <= l /\ a - 2 * k \in {0, 1} /\ b - 2 * l \in {0, 1}
      /\ (b - 2 * k) \div 2 = l - k /\ (b - 2 * k) % 2 = b - 2 * l
  <2>1. b \in Nat /\ k \in Nat /\ l \in Nat
    BY <1>1
  <2>. QED  BY <1>1, <2>1, HalvesBetween
<1>3. PICK n \in Nat, c \in Nat, w \in Nat :
        n = b - a /\ c = b - 2 * k /\ w = l - k /\ c \div 2 = w /\ c % 2 = b - 2 * l /\ 2 * w <= c
  <2>1. b - a \in Nat /\ b - 2 * k \in Nat /\ l - k \in Nat /\ 2 * (l - k) <= b - 2 * k
    BY ONLY <1>1
  <2>. QED  BY <1>2, <2>1
<1>4. /\ s \in Seq(H) /\ Len(s) = a - 2 * k /\ (a > 2 * k => s[1] = T[a])
      /\ h \in Seq(H) /\ Len(h) = n /\ \A i \in 1 .. n : h[i] = T[a + i]
  BY <1>3 DEF Arriving
<1>5. /\ buffer \in Seq(H) /\ Len(buffer) = Len(s) + Len(h) /\ (\A i \in 1 .. Len(s) : buffer[i] = s[i])
      /\ \A i \in 1 .. Len(h) : buffer[Len(s) + i] = h[i]
  <2>1. s \in Seq(H) /\ h \in Seq(H) /\ buffer = s \o h
    BY <1>4 DEF Arriving
  <2>. QED  BY ONLY <2>1, Joined
<1>6. Len(buffer) = c
  BY <1>1, <1>3, <1>4, <1>5
<1>7. ASSUME NEW j \in 1 .. c PROVE buffer[j] = T[2 * k + j]
  <2>0. a = 2 * k \/ a = 2 * k + 1
    BY <1>1
  <2>1. CASE a = 2 * k
    <3>1. Len(s) = 0 /\ j \in 1 .. n /\ 0 + j = j
      BY <1>1, <1>3, <1>4, <2>1
    <3>2. buffer[0 + j] = h[j]
      BY <1>4, <1>5, <3>1
    <3>3. buffer[j] = h[j]
      BY <3>1, <3>2
    <3>. QED  BY <1>4, <2>1, <3>1, <3>3
  <2>2. CASE a = 2 * k + 1 /\ j = 1
    <3>1. Len(s) = 1 /\ 1 \in 1 .. 1 /\ a > 2 * k
      BY <1>1, <1>4, <2>2
    <3>. QED  BY <1>4, <1>5, <2>2, <3>1
  <2>3. CASE a = 2 * k + 1 /\ j # 1
    <3>1. Len(s) = 1 /\ j - 1 \in 1 .. n /\ 1 + (j - 1) = j /\ a + (j - 1) = 2 * k + j
      BY <1>1, <1>3, <1>4, <2>3
    <3>2. buffer[1 + (j - 1)] = h[j - 1]
      BY <1>4, <1>5, <3>1
    <3>3. buffer[j] = h[j - 1]
      BY <3>1, <3>2
    <3>4. h[j - 1] = T[a + (j - 1)]
      BY <1>4, <3>1
    <3>. QED  BY <3>1, <3>3, <3>4
  <2>4. j = 1 \/ j # 1
    OBVIOUS
  <2>. QED  BY <2>0, <2>1, <2>2, <2>3, <2>4
<1>8. Whole(buffer) = [i \in 1 .. w |-> buffer[2 * i].of]
  BY <1>3, <1>6 DEF Whole
<1>9. ASSUME NEW i \in 1 .. w PROVE Whole(buffer)[i] = T[2 * (k + i)].of
  <2>1. 2 * i \in 1 .. c /\ 2 * k + 2 * i = 2 * (k + i)
    BY <1>1, <1>3
  <2>2. Whole(buffer)[i] = buffer[2 * i].of
    BY <1>8
  <2>3. buffer[2 * i] = T[2 * k + 2 * i]
    BY <1>7, <2>1
  <2>. QED  BY <2>1, <2>2, <2>3
<1>10. DOMAIN Whole(buffer) = 1 .. w /\ Len(Whole(buffer)) = w
  BY <1>3, <1>8
<1>11. Len(Rest(buffer)) = b - 2 * l /\ (b > 2 * l => Rest(buffer)[1] = T[b])
  <2>1. CASE b - 2 * l = 0
    <3>1. Len(buffer) % 2 = 0 /\ ~(b > 2 * l)
      <4>1. c % 2 = 0
        BY <1>3, <2>1
      <4>2. b = 2 * l
        BY <1>1, <2>1
      <4>. QED  BY <1>1, <1>6, <4>1, <4>2
    <3>2. Rest(buffer) = <<>>
      BY <3>1 DEF Rest
    <3>. QED  BY <2>1, <3>1, <3>2
  <2>2. CASE b - 2 * l = 1
    <3>1. Len(buffer) % 2 = 1
      BY <1>3, <1>6, <2>2
    <3>2. Rest(buffer) = <<buffer[c]>>
      <4>1. Rest(buffer) = <<Last(buffer)>>
        BY <3>1 DEF Rest
      <4>. QED  BY <1>6, <4>1 DEF Last
    <3>3. c \in 1 .. c /\ 2 * k + c = b
      BY <1>1, <1>3, <2>2
    <3>4. buffer[c] = T[b]
      BY <1>7, <3>3
    <3>5. Len(Rest(buffer)) = 1 /\ Rest(buffer)[1] = buffer[c]
      <4>1. \A x : Len(<<x>>) = 1 /\ <<x>>[1] = x
        OBVIOUS
      <4>. QED  BY <3>2, <4>1
    <3>. QED  BY <2>2, <3>4, <3>5
  <2>. QED  BY <1>2, <2>1, <2>2
<1>12. w = l - k
  BY <1>3
<1>. QED  BY <1>9, <1>10, <1>11, <1>12

LEMMA WholeOfOne ==
    ASSUME NEW m
    PROVE  Whole(<<>> \o Halves(m)) = <<m>> /\ Rest(<<>> \o Halves(m)) = <<>>
<1>1. PICK s : s = <<>> \o Halves(m)
  OBVIOUS
<1>2. s = Halves(m) /\ Len(s) = 2 /\ s[2].of = m
  BY <1>1 DEF Halves
<1>3. 2 \div 2 = 1 /\ 2 % 2 = 0 /\ 2 * 1 = 2
  OBVIOUS
<1>4. Whole(s) = [i \in 1 .. 1 |-> s[2 * i].of]
  BY <1>2, <1>3 DEF Whole
<1>5. Whole(s) = <<m>>
  BY <1>2, <1>3, <1>4
<1>6. Rest(s) = <<>>
  BY <1>2, <1>3 DEF Rest
<1>. QED  BY <1>1, <1>5, <1>6

\* What was sealed with the state that decrypts opens.
LEMMA SealedOpens ==
    ASSUME NEW typ \in {"Handshake", "ApplicationData"}, NEW c, record = Sealed(dec, typ, c)
    PROVE  HeaderValid(record) /\ Opens /\ RecordType = typ /\ record.content = c /\ ~Discarded
<1>1. /\ record.header = "valid" /\ record.typ = (IF Enabled(dec) THEN "ApplicationData" ELSE typ)
      /\ record.key = dec.key /\ record.seq = dec.sequence_number /\ record.inner = typ
      /\ record.content = c
  BY DEF Sealed
<1>2. HeaderValid(record) /\ ~Discarded
  BY <1>1 DEF HeaderValid, Discarded
<1>3. Opens
  BY <1>1 DEF Opens
<1>4. RecordType = typ
  BY <1>1 DEF RecordType
<1>. QED  BY <1>1, <1>2, <1>3, <1>4

\* The next record, when no message is being handled.
LEMMA NextLeads ==
    ASSUME StreamInv, TrustInv, ~server.closed, NEW p, NEW z, Between(p, z), NextRecord
    PROVE  /\ p.n \in 0 .. 10 /\ Handled = p.n \div 2 /\ p.dec = dec /\ decoded = <<>>
           /\ Len(hs) = p.n - 2 * (p.n \div 2) /\ (p.n > 2 * (p.n \div 2) => hs[1] = Script[p.n])
           /\ p.n = 10 => hs = <<>>
           /\ \E q : /\ DownStep(Script, p, record, q) /\ q.n \in 0 .. 10
                     /\ Flow("server", Script, SubSeq(input, 3, Len(input)), toClient, q, z)
<1>1. decoded = <<>> /\ Len(input) >= 2 /\ record = input[1].of
  BY DEF NextRecord, WholeRecord, record
<1>2. p.n \in Nat /\ z.n \in Nat /\ p.n <= z.n /\ z.n <= 10
  BY AtMostAll
<1>3. \E q : /\ Step("server", Script, p, record, q) /\ q.n \in Nat /\ q.n <= z.n
             /\ Flow("server", Script, SubSeq(input, 3, Len(input)), toClient, q, z)
  BY <1>1, FlowTail DEF Between
<1>4. PICK q : /\ Step("server", Script, p, record, q) /\ q.n \in Nat /\ q.n <= z.n
               /\ Flow("server", Script, SubSeq(input, 3, Len(input)), toClient, q, z)
  BY <1>3
<1>5. DownStep(Script, p, record, q) /\ q.n \in 0 .. 10
  BY <1>2, <1>4 DEF Step
<1>6. PICK k, m, n : k = p.n \div 2 /\ m = Handled /\ n = p.n
  OBVIOUS
<1>7. n \in 0 .. 10 /\ k \in 0 .. 5 /\ 2 * k <= n /\ n <= 2 * k + 1 /\ m \in 0 .. 5
  <2>1. n \in 0 .. 10 /\ k = n \div 2
    BY <1>2, <1>6
  <2>2. m \in 0 .. 5
    BY <1>6 DEF Handled
  <2>. QED  BY <2>1, <2>2
<1>8. CASE m < 5
  <2>1. /\ m <= k /\ Len(decoded) = k - m /\ Len(hs) = n - 2 * k /\ (n > 2 * k => hs[1] = Script[n])
        /\ p.dec = IF m = 0 /\ n = 2 THEN ServerHsKeys ELSE IF n = 10 THEN ServerApKeys ELSE dec
    BY <1>6, <1>8 DEF Between, ClientAt, InHandshake
  <2>2. m = k
    BY <1>1, <1>7, <2>1
  <2>3. n # 10 /\ ~(m = 0 /\ n = 2)
    BY <1>7, <1>8, <2>2
  <2>. QED  BY <1>1, <1>4, <1>5, <1>6, <1>7, <2>1, <2>2, <2>3
<1>9. CASE m = 5
  <2>1. n = 10 /\ hs = <<>> /\ p.dec = dec
    BY <1>1, <1>6, <1>9 DEF Between, ClientAt, AfterHandshake
  <2>2. k = 5
    BY <1>7, <2>1
  <2>3. Len(hs) = n - 2 * k /\ ~(n > 2 * k)
    BY <2>1, <2>2
  <2>. QED  BY <1>1, <1>4, <1>5, <1>6, <1>7, <1>9, <2>1, <2>2, <2>3
<1>. QED  BY <1>7, <1>8, <1>9

\* A record with messages of the handshake.
LEMMA MessagesArrive ==
    ASSUME StreamInv, TrustInv, StagesInv, cfg \in SupportedServers, ~server.closed, NEW p, NEW z, Between(p, z),
           NextRecord, st # "err", pc # "refused", NEW q, q.n \in 0 .. 10,
           Flow("server", Script, SubSeq(input, 3, Len(input)), toClient, q, z),
           p.n < q.n, q.n <= 2 \/ p.n >= 2,
           record = Sealed(p.dec, "Handshake", Handshakes([i \in 1 .. q.n - p.n |-> Script[p.n + i]])),
           q.dec = IF q.n = 2 THEN ServerHsKeys ELSE IF q.n = 10 THEN ServerApKeys ELSE Advanced(p.dec),
           DiscardCcs \/ ReceiveData \/ ReceiveHandshake \/ ReceiveAlert \/ RefuseRecord
    PROVE  GoodInv'
<1>1. /\ p.n \in 0 .. 10 /\ Handled = p.n \div 2 /\ p.dec = dec /\ decoded = <<>>
      /\ Len(hs) = p.n - 2 * (p.n \div 2) /\ (p.n > 2 * (p.n \div 2) => hs[1] = Script[p.n])
  BY NextLeads
<1>2. PICK a \in 0 .. 10, b \in 0 .. 10 : a = p.n /\ b = q.n
  BY <1>1
<1>3. PICK T : T = Script
  OBVIOUS
<1>4. PICK h : h = [i \in 1 .. b - a |-> T[a + i]]
  OBVIOUS
<1>5. record = Sealed(dec, "Handshake", Handshakes(h))
  BY <1>1, <1>2, <1>3, <1>4
<1>6. HeaderValid(record) /\ Opens /\ RecordType = "Handshake" /\ record.content.halves = h /\ ~Discarded
  BY <1>5, SealedOpens DEF Handshakes
<1>7. PICK buffer : buffer = hs \o h
  OBVIOUS
<1>8. PICK k, l : k = a \div 2 /\ l = b \div 2
  OBVIOUS
<1>9. /\ DOMAIN Whole(buffer) = 1 .. l - k /\ Len(Whole(buffer)) = l - k
      /\ \A i \in 1 .. l - k : Whole(buffer)[i] = T[2 * (k + i)].of
      /\ Len(Rest(buffer)) = b - 2 * l /\ (b > 2 * l => Rest(buffer)[1] = T[b])
  <2>1. hs \in Seq(HalfOf(Messages))
    BY SourcesNow
  <2>2. \A i \in 1 .. 10 : T[i] \in HalfOf(Messages)
    BY <1>3, ScriptIsSaid
  <2>3. Len(hs) = a - 2 * (a \div 2) /\ (a > 2 * (a \div 2) => hs[1] = T[a]) /\ a < b
    BY <1>1, <1>2, <1>3
  <2>4. PICK M, r : M = HalfOf(Messages) /\ r = hs
    OBVIOUS
  <2>5. r \in Seq(M) /\ (\A i \in 1 .. 10 : T[i] \in M)
    BY <2>1, <2>2, <2>4
  <2>6. Len(r) = a - 2 * k /\ (a > 2 * k => r[1] = T[a]) /\ a < b
    BY <1>8, <2>3, <2>4
  <2>7. /\ a \in 0 .. 10 /\ b \in 0 .. 10 /\ k \in Nat /\ 2 * k <= a /\ a <= 2 * k + 1
        /\ l \in Nat /\ 2 * l <= b /\ b <= 2 * l + 1
    BY <1>8, Halved
  <2>8. buffer = r \o h
    BY <1>7, <2>4
  <2>9. h \in Seq(M) /\ Len(h) = b - a /\ \A i \in 1 .. Len(h) : h[i] = T[a + i]
    <3>1. a \in Nat /\ b \in Nat /\ a <= b /\ \A i \in a + 1 .. b : T[i] \in M
      <4>1. a < b
        BY <2>6
      <4>. QED  BY <2>5, <4>1
    <3>. QED  BY <1>4, <3>1, Listed
  <2>10. Arriving(M, T, a, b, k, l, r, h, buffer)
    BY ONLY <2>5, <2>6, <2>7, <2>8, <2>9 DEF Arriving
  <2>. QED  BY ONLY <2>10, Buffered
<1>10. k \in 0 .. 5 /\ l \in 0 .. 5 /\ k <= l /\ 2 * l <= b /\ b <= 2 * l + 1 /\ 2 * k <= a /\ a <= 2 * k + 1 /\ a < b
  <2>1. a < b
    BY <1>2
  <2>2. l \in 0 .. 5 /\ k \in 0 .. 5 /\ 2 * l <= b /\ b <= 2 * l + 1 /\ 2 * k <= a /\ a <= 2 * k + 1
    BY <1>8
  <2>. QED  BY <2>1, <2>2
<1>11. \A i \in 1 .. l - k : Whole(buffer)[i] = Said[k + i] /\ HandshakeDecodes(Whole(buffer)[i])
  <2>1. \A i \in 1 .. l - k : k + i \in 1 .. 5
    BY <1>10
  <2>. QED  BY <1>3, <1>9, <2>1, ScriptIsSaid, SaidIsExpected
<1>12. ~RefuseRecord
  <2>1. hs \o record.content.halves = buffer
    BY <1>6, <1>7
  <2>2. PayloadDecodes("Handshake")
    BY DEF PayloadDecodes
  <2>. QED  BY <1>6, <1>9, <1>11, <2>1, <2>2 DEF RefuseRecord
<1>13. ReceiveHandshake
  BY <1>6, <1>12 DEF DiscardCcs, ReceiveData, ReceiveAlert, Received
<1>14. /\ decoded' = Whole(buffer) /\ hs' = Rest(buffer) /\ dec' = Advanced(dec)
       /\ input' = SubSeq(input, 3, Len(input))
       /\ UNCHANGED <<pc, st, toClient, external>>
  BY <1>6, <1>7, <1>13 DEF ReceiveHandshake, Received, Consumed
<1>15. Handled = k /\ Handled' = k /\ cfg' = cfg
  BY <1>1, <1>2, <1>8, <1>14 DEF Handled, external
<1>16. k < 5
  BY <1>10
<1>17. InHandshake(q, k, l)'
  <2>1. /\ Said' = Said /\ Script' = Script /\ ServerHsKeys' = ServerHsKeys /\ ServerApKeys' = ServerApKeys
    BY <1>15, SameScript DEF ServerHsKeys, ServerApKeys, Hellos, Order
  <2>2. k = 0 => q.n <= 2
    BY <1>2, <1>10
  <2>3. q.dec = IF k = 0 /\ q.n = 2 THEN ServerHsKeys ELSE IF q.n = 10 THEN ServerApKeys ELSE dec'
    <3>1. b = 2 => k = 0
      BY <1>10
    <3>. QED  BY <1>1, <1>2, <1>14, <3>1
  <2>. QED  BY <1>2, <1>3, <1>9, <1>10, <1>11, <1>14, <2>1, <2>2, <2>3 DEF InHandshake
<1>18. ClientAt(q)'
  BY <1>2, <1>8, <1>15, <1>16, <1>17 DEF ClientAt
<1>19. Flow("server", Script, input', toClient', q, z)
  BY <1>14
<1>. QED  BY <1>14, <1>18, <1>19, ClientGoes DEF Between

\* A record after the handshake.
LEMMA PostArrives ==
    ASSUME StreamInv, TrustInv, StagesInv, cfg \in SupportedServers, ~server.closed, NEW p, NEW z, Between(p, z),
           NextRecord, st # "err", pc # "refused", NEW q, q.n \in 0 .. 10,
           Flow("server", Script, SubSeq(input, 3, Len(input)), toClient, q, z),
           p.n = 10, q.n = 10,
           \/ /\ q.dec = Advanced(p.dec)
              /\ \/ \E c : record = Sealed(p.dec, "ApplicationData", c)
                 \/ record = Sealed(p.dec, "Handshake", Handshakes(Halves(Ticket)))
           \/ /\ q.dec = Updated(p.dec)
              /\ \E b \in BOOLEAN : record = Sealed(p.dec, "Handshake", Handshakes(Halves(KeyUpdate(b)))),
           DiscardCcs \/ ReceiveData \/ ReceiveHandshake \/ ReceiveAlert \/ RefuseRecord
    PROVE  GoodInv'
<1>1. Handled = 5 /\ p.dec = dec /\ decoded = <<>> /\ hs = <<>>
  BY NextLeads
<1>2. \A typ \in {"Handshake", "ApplicationData"} : PayloadDecodes(typ)
  BY DEF PayloadDecodes
<1>3. ASSUME DiscardCcs \/ ReceiveData \/ ReceiveHandshake, UNCHANGED <<pc, st, toClient, external>>,
             hs' = <<>>, \/ decoded' \in {<<>>, <<Ticket>>} /\ q.dec = dec'
                         \/ \E b \in BOOLEAN : decoded' = <<KeyUpdate(b)>> /\ q.dec = Updated(dec')
      PROVE  GoodInv'
  <2>1. input' = SubSeq(input, 3, Len(input))
    BY <1>3 DEF DiscardCcs, ReceiveData, ReceiveHandshake, Consumed
  <2>2. Handled' = 5 /\ Ticket' = Ticket /\ ~(5 < 5)
    BY <1>1, <1>3 DEF Handled, Ticket
  <2>3. ClientAt(q)'
    BY <1>3, <2>2 DEF ClientAt, AfterHandshake
  <2>4. Flow("server", Script, input', toClient', q, z)
    BY <1>3, <2>1
  <2>. QED  BY <1>3, <2>3, <2>4, ClientGoes DEF Between
<1>4. CASE q.dec = Advanced(p.dec) /\ \E c : record = Sealed(p.dec, "ApplicationData", c)
  <2>1. PICK c : record = Sealed(dec, "ApplicationData", c)
    BY <1>1, <1>4
  <2>2. HeaderValid(record) /\ Opens /\ RecordType = "ApplicationData" /\ ~Discarded
    BY <2>1, SealedOpens
  <2>3. ReceiveData
    BY <1>1, <1>2, <2>2 DEF DiscardCcs, ReceiveHandshake, ReceiveAlert, RefuseRecord, Received
  <2>4. UNCHANGED <<pc, st, decoded, hs, toClient, external>> /\ dec' = Advanced(dec)
    BY <2>3 DEF ReceiveData, Received
  <2>. QED  BY <1>1, <1>3, <1>4, <2>3, <2>4
<1>5. ASSUME NEW m, HandshakeDecodes(m), record = Sealed(p.dec, "Handshake", Handshakes(Halves(m)))
      PROVE  /\ ReceiveHandshake /\ UNCHANGED <<pc, st, toClient, external>> /\ hs' = <<>>
             /\ decoded' = <<m>> /\ dec' = Advanced(dec)
  <2>1. record = Sealed(dec, "Handshake", Handshakes(Halves(m)))
    BY <1>1, <1>5
  <2>2. /\ HeaderValid(record) /\ Opens /\ RecordType = "Handshake" /\ ~Discarded
        /\ record.content.halves = Halves(m)
    BY <2>1, SealedOpens DEF Handshakes
  <2>3. PICK buffer : buffer = hs \o record.content.halves
    OBVIOUS
  <2>4. Whole(buffer) = <<m>> /\ Rest(buffer) = <<>>
    BY <1>1, <2>2, <2>3, WholeOfOne
  <2>5. \A i \in DOMAIN Whole(buffer) : HandshakeDecodes(Whole(buffer)[i])
    BY <1>5, <2>4
  <2>6. ~RefuseRecord
    BY <1>1, <1>2, <2>2, <2>3, <2>5 DEF RefuseRecord
  <2>7. ReceiveHandshake
    BY <2>2, <2>6 DEF DiscardCcs, ReceiveData, ReceiveAlert, Received
  <2>. QED  BY <2>3, <2>4, <2>7 DEF ReceiveHandshake, Received
<1>6. CASE q.dec = Advanced(p.dec) /\ record = Sealed(p.dec, "Handshake", Handshakes(Halves(Ticket)))
  <2>1. HandshakeDecodes(Ticket)
    BY DEF HandshakeDecodes, Ticket, ServerHandshakes
  <2>. QED  BY <1>1, <1>3, <1>5, <1>6, <2>1
<1>7. CASE q.dec = Updated(p.dec)
           /\ \E b \in BOOLEAN : record = Sealed(p.dec, "Handshake", Handshakes(Halves(KeyUpdate(b))))
  <2>1. PICK b \in BOOLEAN : record = Sealed(p.dec, "Handshake", Handshakes(Halves(KeyUpdate(b))))
    BY <1>7
  <2>2. HandshakeDecodes(KeyUpdate(b))
    BY DEF HandshakeDecodes, KeyUpdate, ServerHandshakes
  <2>3. Updated(Advanced(dec)) = Updated(dec)
    BY DEF Updated, Advanced, AdvancedBy, Numbered
  <2>. QED  BY <1>1, <1>3, <1>5, <1>7, <2>1, <2>2, <2>3
<1>. QED  BY <1>4, <1>6, <1>7

LEMMA CcsArrives ==
    ASSUME StreamInv, TrustInv, StagesInv, cfg \in SupportedServers, ~server.closed, NEW p, NEW z, Between(p, z),
           NextRecord, st # "err", pc # "refused",
           Flow("server", Script, SubSeq(input, 3, Len(input)), toClient, p, z), p.n = 2,
           record = Sealed(Disabled, "ChangeCipherSpec", Handshakes(<<>>)),
           DiscardCcs \/ ReceiveData \/ ReceiveHandshake \/ ReceiveAlert \/ RefuseRecord
    PROVE  GoodInv'
<1>1. Handled = 1
  <2>1. Handled = 2 \div 2 /\ 2 \div 2 = 1
    BY NextLeads
  <2>. QED  BY <2>1
<1>2. st # "Connected"
  BY <1>1 DEF Handled
<1>3. record.header = "valid" /\ record.typ = "ChangeCipherSpec"
  BY DEF Sealed, Disabled, Enabled, Fresh, Numbered
<1>4. Discarded
  BY <1>2, <1>3 DEF Discarded, HeaderValid, IsHandshaking
<1>5. DiscardCcs
  BY <1>4 DEF ReceiveData, ReceiveHandshake, ReceiveAlert, RefuseRecord, Received
<1>6. /\ input' = SubSeq(input, 3, Len(input))
      /\ UNCHANGED <<pc, st, hs, decoded, dec, toClient, external>>
  BY <1>5 DEF DiscardCcs, Consumed
<1>7. Handled' = Handled /\ cfg' = cfg
  BY <1>6 DEF Handled, external
<1>8. ClientAt(p)'
  BY <1>6, <1>7, ClientStays DEF Between
<1>9. Flow("server", Script, input', toClient', p, z)
  BY <1>6
<1>. QED  BY <1>6, <1>8, <1>9, ClientGoes DEF Between

LEMMA RecordGoes ==
    ASSUME StreamInv, TrustInv, StagesInv, cfg \in SupportedServers, ~server.closed, NEW p, NEW z, Between(p, z),
           st # "err", pc # "refused",
           DiscardCcs \/ ReceiveData \/ ReceiveHandshake \/ ReceiveAlert \/ RefuseRecord
    PROVE  GoodInv'
<1>1. NextRecord
  BY DEF DiscardCcs, ReceiveData, ReceiveHandshake, ReceiveAlert, RefuseRecord, Received
<1>2. PICK q : /\ DownStep(Script, p, record, q) /\ q.n \in 0 .. 10
               /\ Flow("server", Script, SubSeq(input, 3, Len(input)), toClient, q, z)
  BY <1>1, NextLeads
<1>3. \/ /\ p.n < q.n /\ (q.n <= 2 \/ p.n >= 2)
         /\ record = Sealed(p.dec, "Handshake", Handshakes([i \in 1 .. q.n - p.n |-> Script[p.n + i]]))
         /\ q.dec = IF q.n = 2 THEN ServerHsKeys ELSE IF q.n = 10 THEN ServerApKeys ELSE Advanced(p.dec)
      \/ p.n = 2 /\ q = p /\ record = Sealed(Disabled, "ChangeCipherSpec", Handshakes(<<>>))
      \/ /\ p.n = 10 /\ q.n = 10
         /\ \/ /\ q.dec = Advanced(p.dec)
               /\ \/ \E c : record = Sealed(p.dec, "ApplicationData", c)
                  \/ record = Sealed(p.dec, "Handshake", Handshakes(Halves(Ticket)))
            \/ /\ q.dec = Updated(p.dec)
               /\ \E b \in BOOLEAN : record = Sealed(p.dec, "Handshake", Handshakes(Halves(KeyUpdate(b))))
  BY <1>2 DEF DownStep
<1>. QED  BY <1>1, <1>2, <1>3, MessagesArrive, PostArrives, CcsArrives

-----------------------------------------------------------------------------
LEMMA GoodStep ==
    ASSUME GoodInv, TrustInv, TrustInv', StreamInv, StagesInv, [Next]_vars
    PROVE  GoodInv'
<1>1. CASE ServerHandshake \/ ServerReceives \/ ServerPosts
  BY <1>1, ServerGoodStep
<1>2. CASE Client \/ Write \/ UNCHANGED vars
  <2>1. UNCHANGED external
    BY <1>2 DEF Client, Write, Start, HandshakeRead, PollReadTls, HandshakeProcessed, ProcessNewPackets,
                DiscardCcs, ReceiveData, ReceiveHandshake, ReceiveAlert, RefuseRecord, HandleServerHello,
                HandleEncryptedExtensions, HandleCertificate, HandleCertificateVerify, HandleFinished,
                HandleTicket, HandleKeyUpdate, RefuseHandshake, Handle, PollProcessed, PollRead,
                PollWrite, PollWriteFails, vars
  <2>2. cfg' = cfg /\ server' = server
    BY <2>1 DEF external
  <2>3. SupportedServers' = SupportedServers
    BY ServersStay
  <2>4. CASE ~(cfg \in SupportedServers /\ ~server.closed)
    BY <2>2, <2>3, <2>4 DEF GoodInv
  <2>5. CASE cfg \in SupportedServers /\ ~server.closed
    <3>1. st # "err" /\ pc # "refused" /\ \E p, z : Between(p, z)
      BY <2>5 DEF GoodInv
    <3>2. PICK p, z : Between(p, z)
      BY <3>1
    <3>. QED  BY <1>2, <2>5, <3>1, <3>2, QuietGoes, ReadGoes, HandleGoes, RecordGoes
              DEF Client, ProcessNewPackets
  <2>. QED  BY <2>4, <2>5
<1>. QED  BY <1>1, <1>2 DEF Next

LEMMA InitialGood ==
    ASSUME Init
    PROVE  GoodInv
<1>1. PICK p : p = [n |-> 0, dec |-> Disabled]
  OBVIOUS
<1>2. Flow("server", Script, <<>>, <<>>, p, p)
  BY <1>1, FlowStarts
<1>3. ServerAt(p)
  BY <1>1 DEF Init, ServerAt
<1>4. Handled = 0
  BY DEF Init, Handled
<1>5. 0 \div 2 = 0
  OBVIOUS
<1>6. InHandshake(p, 0, 0)
  BY <1>1 DEF Init, InHandshake
<1>7. ClientAt(p)
  BY <1>1, <1>4, <1>5, <1>6 DEF ClientAt
<1>. QED  BY <1>2, <1>3, <1>7 DEF Init, GoodInv, Between

\* The client tells the servers that follow the protocol with what it offered
\* from the others: it never refuses the first, whatever records their messages
\* come in, and never opens a stream to the others.
THEOREM OpensExactlyToGood == Spec => []OnlyGoodServers
<1>1. GoodInv => GoodServerAccepted
  BY DEF GoodInv, GoodServerAccepted
<1>2. Init => GoodInv /\ TrustInv /\ StreamInv
  BY InitialGood, InitialTrust, InitialStream
<1>3. StreamInv /\ NonceInv /\ [Next]_vars => StreamInv'
  BY StreamStep, StreamStutter DEF NonceInv
<1>4. TrustInv /\ StreamInv /\ NonceInv /\ [Next]_vars => TrustInv'
  BY TrustStep, StutterTrust DEF NonceInv
<1>5. GoodInv /\ TrustInv /\ TrustInv' /\ StreamInv /\ NonceInv /\ [Next]_vars => GoodInv'
  BY GoodStep DEF NonceInv
<1>. QED  BY <1>1, <1>2, <1>3, <1>4, <1>5, Invariant, OpensOnlyToGood, PTL DEF Spec, OnlyGoodServers
-----------------------------------------------------------------------------
(* What the client writes: the chunks of a write lead on from one another.       *)

LEMMA ChunkCount ==
    ASSUME NEW c \in Nat \ {0}, NEW w \in Nat \ {0}, NEW m, m = (w + c - 1) \div c
    PROVE  m \in Nat /\ w <= m * c /\ m * c < w + c
<1>1. PICK n \in Nat : n = w + c - 1
  OBVIOUS
<1>2. n \div c \in Nat /\ c * (n \div c) <= n /\ n < c * (n \div c) + c
  BY ONLY n \in Nat, c \in Nat \ {0}
<1>3. m \in Nat /\ c * m <= n /\ n < c * m + c
  BY <1>1, <1>2
<1>4. c * m = m * c
  BY <1>3
<1>. QED  BY <1>1, <1>3, <1>4

LEMMA ChunkStarts ==
    ASSUME NEW c \in Nat \ {0}, NEW w \in Nat, NEW m \in Nat, m * c < w + c, NEW i \in 1 .. m
    PROVE  /\ (i - 1) * c \in Nat /\ i * c \in Nat /\ i * c = (i - 1) * c + c
           /\ (i - 1) * c < w
<1>1. (i - 1) * c \in Nat /\ i * c \in Nat /\ m * c \in Nat /\ (m - i) * c \in Nat
  <2>1. i - 1 \in Nat /\ m - i \in Nat /\ i \in Nat
    OBVIOUS
  <2>2. \A a \in Nat, b \in Nat : a * b \in Nat
    OBVIOUS
  <2>. QED  BY <2>1, <2>2
<1>2. i * c = (i - 1) * c + c /\ m * c = i * c + (m - i) * c
  OBVIOUS
<1>. QED  BY <1>1, <1>2

LEMMA PieceOf ==
    ASSUME NEW w \in Nat, NEW b \in Nat, NEW x \in Nat, NEW y \in Nat, x <= y, y <= w
    PROVE  SubSeq([j \in 1 .. w |-> b + j], x + 1, y) = [j \in 1 .. y - x |-> b + x + j]
<1>1. PICK s : s = [j \in 1 .. w |-> b + j]
  OBVIOUS
<1>2. s \in Seq(Nat) /\ Len(s) = w /\ \A j \in 1 .. w : s[j] = b + j
  BY <1>1
<1>3. PICK n \in Nat : n = y - x
  OBVIOUS
<1>4. PICK t : t = SubSeq(s, x + 1, y)
  OBVIOUS
<1>5. t \in Seq(Nat) /\ Len(t) = n /\ \A j \in 1 .. n : t[j] = s[x + j]
  <2>1. t \in Seq(Nat) /\ Len(t) = y - x /\ \A j \in 1 .. y - x : t[j] = s[x + j]
    BY ONLY <1>2, <1>4, w \in Nat, x \in Nat, y \in Nat, x <= y, y <= w
  <2>. QED  BY <1>3, <2>1
<1>6. \A j \in 1 .. n : t[j] = b + x + j
  <2>1. \A j \in 1 .. n : x + j \in 1 .. w /\ b + (x + j) = b + x + j
    BY <1>3
  <2>. QED  BY <1>2, <1>5, <2>1
<1>7. t = [j \in 1 .. n |-> b + x + j]
  BY <1>5, <1>6
<1>. QED  BY <1>1, <1>3, <1>4, <1>7

\* The bytes of the stream up to the i-th chunk of a write that begins after b.
UpTo(b, i) == b + (IF i * ChunkLen < WriteLen THEN i * ChunkLen ELSE WriteLen)

Piece(b, i) == Data([j \in 1 .. UpTo(b, i) - UpTo(b, i - 1) |-> UpTo(b, i - 1) + j])

\* The write after the first w, in chunks.
WriteAt(b, w, f) == w \in Nat /\ b = w * WriteLen /\ f = Chunks(Bytes(w + 1))

LEMMA ChunksCarry ==
    ASSUME NEW w, NEW b, NEW f, WriteAt(b, w, f)
    PROVE  /\ Len(f) \in Nat /\ DOMAIN f = 1 .. Len(f)
           /\ b \in Nat /\ UpTo(b, 0) = b /\ UpTo(b, Len(f)) = (w + 1) * WriteLen
           /\ \A i \in 0 .. Len(f) : UpTo(b, i) \in Nat /\ UpTo(b, i) <= UpTo(b, Len(f))
           /\ \A i \in 1 .. Len(f) :
                 /\ UpTo(b, i - 1) <= UpTo(b, i)
                 /\ f[i] = Piece(b, i)
<1>0. w \in Nat /\ b = w * WriteLen /\ f = Chunks(Bytes(w + 1))
  BY DEF WriteAt
<1>1. WriteLen \in Nat \ {0} /\ ChunkLen \in Nat \ {0}
  BY TlsAssumption
<1>2. PICK c \in Nat \ {0}, l \in Nat \ {0} : c = ChunkLen /\ l = WriteLen
  BY <1>1
<1>3. PICK m : m = (l + c - 1) \div c
  OBVIOUS
<1>4. m \in Nat /\ l <= m * c /\ m * c < l + c
  BY <1>3, ChunkCount
<1>5. b \in Nat /\ (w + 1) * WriteLen = b + l /\ (w + 1 - 1) * WriteLen = b
  <2>1. w * l \in Nat /\ (w + 1) * l = w * l + l /\ w + 1 - 1 = w
    BY <1>0
  <2>. QED  BY <1>0, <1>2, <2>1
<1>6. PICK s : s = Bytes(w + 1)
  OBVIOUS
<1>7. s = [j \in 1 .. l |-> b + j] /\ Len(s) = l
  <2>1. s = [j \in 1 .. l |-> b + j]
    <3>1. w \in Nat
      BY <1>0
    <3>. QED  BY <1>2, <1>5, <1>6, <3>1 DEF Bytes
  <2>. QED  BY <1>2, <2>1
<1>8. f = [i \in 1 .. m |-> Data(SubSeq(s, (i - 1) * c + 1, IF i * c < l THEN i * c ELSE l))]
  BY <1>0, <1>2, <1>3, <1>6, <1>7 DEF Chunks
<1>9. Len(f) = m /\ DOMAIN f = 1 .. m
  BY <1>4, <1>8
<1>10. \A i \in 0 .. m : i * c \in Nat
  BY <1>4
<1>11. \A i : UpTo(b, i) = b + (IF i * c < l THEN i * c ELSE l)
  BY <1>2 DEF UpTo
<1>12. UpTo(b, 0) = b
  <2>1. 0 * c = 0 /\ 0 < l
    OBVIOUS
  <2>. QED  BY <1>5, <1>11, <2>1
<1>13. UpTo(b, m) = b + l
  <2>1. m * c \in Nat
    BY <1>4
  <2>2. ~(m * c < l)
    BY <1>4, <2>1
  <2>. QED  BY <1>11, <2>2
<1>14. ASSUME NEW i \in 0 .. m PROVE UpTo(b, i) \in Nat /\ UpTo(b, i) <= b + l
  <2>1. PICK y \in Nat : y = i * c
    BY <1>10
  <2>. QED  BY <1>5, <1>11, <2>1
<1>15. ASSUME NEW i \in 1 .. m
       PROVE  /\ UpTo(b, i - 1) <= UpTo(b, i)
              /\ f[i] = Piece(b, i)
  <2>1. PICK x \in Nat, y \in Nat : x = (i - 1) * c /\ y = i * c /\ y = x + c /\ x < l
    BY <1>4, ChunkStarts
  <2>2. PICK e \in Nat : e = IF y < l THEN y ELSE l
    OBVIOUS
  <2>3. x <= e /\ e <= l
    BY <2>1, <2>2
  <2>4. UpTo(b, i - 1) = b + x /\ UpTo(b, i) = b + e
    BY <1>11, <2>1, <2>2
  <2>5. SubSeq(s, x + 1, e) = [j \in 1 .. e - x |-> b + x + j]
    BY <1>5, <1>7, <2>3, PieceOf
  <2>6. f[i] = Data(SubSeq(s, x + 1, e))
    BY <1>8, <2>1, <2>2
  <2>7. UpTo(b, i) - UpTo(b, i - 1) = e - x
    BY <1>5, <2>4
  <2>8. f[i] = Data([j \in 1 .. e - x |-> b + x + j])
    BY <2>5, <2>6
  <2>9. UpTo(b, i - 1) <= UpTo(b, i)
    BY <1>5, <2>3, <2>4
  <2>. QED  BY <2>4, <2>7, <2>8, <2>9 DEF Piece
<1>. QED  BY <1>4, <1>5, <1>9, <1>12, <1>13, <1>14, <1>15

Opened(state, n) == [at |-> "open", recv |-> state, n |-> n]

LEMMA AdvancedByOne ==
    ASSUME NEW s, s.sequence_number \in Nat, NEW i \in Nat \ {0}
    PROVE  Advanced(AdvancedBy(s, i - 1)) = AdvancedBy(s, i)
BY DEF Advanced, AdvancedBy, Numbered, Enabled

LEMMA AdvancedByNone ==
    ASSUME NEW s \in State
    PROVE  AdvancedBy(s, 0) = s
<1>1. s = [key |-> s.key, sequence_number |-> s.sequence_number] /\ s.sequence_number \in Nat
  BY DEF State
<1>2. AdvancedBy(s, 0) = [key |-> s.key, sequence_number |-> s.sequence_number]
  BY <1>1 DEF AdvancedBy, Numbered
<1>. QED  BY <1>1, <1>2

\* A write, after which the client has sent (w + 1) * WriteLen bytes.
LEMMA FragmentsGo ==
    ASSUME NEW s, NEW t, NEW a, NEW w \in Nat, NEW f, f = Chunks(Bytes(w + 1)), NEW state \in State,
           Flow("client", <<>>, s, t, a, Opened(state, w * WriteLen)),
           NEW qs, qs = [i \in DOMAIN f |-> Sealed(AdvancedBy(state, i - 1), "ApplicationData", f[i])]
    PROVE  Flow("client", <<>>, s, t \o UnitsOf(qs), a,
                Opened(AdvancedBy(state, Len(f)), (w + 1) * WriteLen))
<1>1. PICK b : b = w * WriteLen
  OBVIOUS
<1>2. PICK m : m = Len(f)
  OBVIOUS
<1>3. /\ m \in Nat /\ DOMAIN f = 1 .. m
      /\ b \in Nat /\ UpTo(b, 0) = b /\ UpTo(b, m) = (w + 1) * WriteLen
      /\ \A i \in 0 .. m : UpTo(b, i) \in Nat /\ UpTo(b, i) <= UpTo(b, m)
      /\ \A i \in 1 .. m :
            /\ UpTo(b, i - 1) <= UpTo(b, i)
            /\ f[i] = Piece(b, i)
  <2>1. /\ Len(f) \in Nat /\ DOMAIN f = 1 .. Len(f)
        /\ b \in Nat /\ UpTo(b, 0) = b /\ UpTo(b, Len(f)) = (w + 1) * WriteLen
        /\ \A i \in 0 .. Len(f) : UpTo(b, i) \in Nat /\ UpTo(b, i) <= UpTo(b, Len(f))
        /\ \A i \in 1 .. Len(f) : UpTo(b, i - 1) <= UpTo(b, i) /\ f[i] = Piece(b, i)
    <3>1. WriteAt(b, w, f)
      BY <1>1 DEF WriteAt
    <3>. QED  BY ONLY <3>1, ChunksCarry
  <2>. QED  BY <1>2, <2>1
<1>4. PICK e : e = [i \in 0 .. m |-> Opened(AdvancedBy(state, i), UpTo(b, i))]
  OBVIOUS
<1>5. PICK R, E : R = {qs[i] : i \in 1 .. m} /\ E = {e[i] : i \in 0 .. m}
  OBVIOUS
<1>6. Len(qs) = m /\ qs \in Seq(R) /\ \A i \in 1 .. m : qs[i] = Sealed(AdvancedBy(state, i - 1), "ApplicationData", f[i])
  <2>1. DOMAIN qs = 1 .. m /\ qs = [i \in 1 .. m |-> qs[i]]
    BY <1>3
  <2>2. \A i \in 1 .. m : qs[i] \in R
    BY <1>5
  <2>3. qs \in [1 .. m -> R]
    BY <2>1, <2>2
  <2>4. qs \in Seq(R)
    BY ONLY <1>3, <2>3
  <2>. QED  BY <1>3, <2>1, <2>4
<1>7. e \in [0 .. m -> E] /\ \A i \in 0 .. m : e[i] = Opened(AdvancedBy(state, i), UpTo(b, i))
  BY <1>4, <1>5
<1>8. e[0] = Opened(state, b) /\ e[m] = Opened(AdvancedBy(state, m), (w + 1) * WriteLen)
  <2>1. 0 \in 0 .. m /\ m \in 0 .. m
    BY <1>3
  <2>. QED  BY <1>3, <1>7, <2>1, AdvancedByNone
<1>9. ASSUME NEW i \in 1 .. m PROVE Step("client", <<>>, e[i - 1], qs[i], e[i])
  <2>1. i - 1 \in 0 .. m /\ i \in 0 .. m /\ i \in Nat \ {0}
    BY <1>3
  <2>2. PICK x, y : x = UpTo(b, i - 1) /\ y = UpTo(b, i)
    OBVIOUS
  <2>3. PICK g : g = AdvancedBy(state, i - 1)
    OBVIOUS
  <2>4. Advanced(g) = AdvancedBy(state, i)
    BY <2>1, <2>3, AdvancedByOne DEF State
  <2>5. e[i - 1] = Opened(g, x) /\ e[i] = Opened(Advanced(g), y) /\ x <= y
    BY <1>3, <1>7, <2>1, <2>2, <2>3, <2>4
  <2>6. qs[i] = Sealed(g, "ApplicationData", Data([j \in 1 .. y - x |-> x + j]))
    BY <1>3, <1>6, <2>2, <2>3 DEF Piece
  <2>7. UpStep(Opened(g, x), qs[i], Opened(Advanced(g), y))
    BY <2>5, <2>6 DEF UpStep, Opened
  <2>. QED  BY <2>5, <2>7 DEF Step
<1>10. ASSUME NEW i \in 0 .. m PROVE e[i].n \in Nat /\ e[i].n <= e[m].n
  <2>1. e[i].n = UpTo(b, i) /\ e[m].n = UpTo(b, m)
    BY <1>3, <1>7 DEF Opened
  <2>. QED  BY <1>3, <2>1
<1>11. Way("client", <<>>, qs, e)
  BY <1>6, <1>9, <1>10 DEF Way
<1>12. Flow("client", <<>>, s, t \o UnitsOf(qs), a, e[m])
  BY <1>1, <1>6, <1>7, <1>8, <1>11, FlowJoins
<1>. QED  BY <1>2, <1>8, <1>12
-----------------------------------------------------------------------------
(* A good server understands the client: what the client's records lead to, from *)
(* where the server is to where the client is.                                   *)

Receiving(p) ==
    /\ server.got = FirstBytes(p.n)
    /\ server.phase = "wait" => p.at = "hello"
    /\ server.phase \in {"hello", "flight", "sent"} => p.at = "sent" /\ p.recv = ClientHsKeys
    /\ server.phase \in {"flight", "sent"} => server.recv = ClientHsKeys
    /\ server.phase = "open" => p.at = "open" /\ p.recv = server.recv

Sending(z) ==
    /\ z.n = written * WriteLen
    /\ st = "Start" => z.at = "hello" /\ output = <<>>
    /\ st = "WaitServerHello" => z.at = "sent" /\ z.recv = ClientHsKeys
    /\ st \in HandshakeStates => z.at = "sent" /\ z.recv = ClientHsKeys /\ enc = ClientHsKeys
    /\ st = "Connected" \/ pc = "open" => z = Opened(enc, z.n)

Linked(p, z) == Flow("client", <<>>, toServer, output, p, z) /\ Receiving(p) /\ Sending(z)

UpInv ==
    /\ stalled \in Nat
    /\ cfg \in SupportedServers /\ stalled = 0 => server.phase # "failed" /\ \E p, z : Linked(p, z)

-----------------------------------------------------------------------------
(* The client's steps. *)

\* What waits goes to the socket.
LEMMA FlowFlushes ==
    ASSUME NEW side, NEW T, NEW s, NEW t, NEW a, NEW b, Flow(side, T, s, t, a, b)
    PROVE  Flow(side, T, s \o t, <<>>, a, b)
<1>1. PICK S : t \in Seq(UnitIn(S))
  BY FlowBounds
<1>2. PICK n \in Nat : n = Len(t)
  BY <1>1
<1>3. SubSeq(t, 1, n) = t /\ SubSeq(t, n + 1, Len(t)) = <<>>
  BY ONLY <1>1, <1>2
<1>4. n \in 0 .. Len(t)
  BY <1>2
<1>5. Flow(side, T, s \o SubSeq(t, 1, n), SubSeq(t, n + 1, Len(t)), a, b)
  BY <1>4, FlowRead
<1>. QED  BY <1>3, <1>5

LEMMA SameKeys ==
    /\ ClientHsKeys' = ClientHsKeys /\ ClientApKeys' = ClientApKeys /\ Disabled' = Disabled
BY DEF ClientHsKeys, ClientApKeys, Disabled, Hellos, Order

LEMMA ReceivingStays ==
    ASSUME NEW p, Receiving(p), server'.phase = server.phase, server'.got = server.got, server'.recv = server.recv
    PROVE  Receiving(p)'
BY SameKeys DEF Receiving, FirstBytes

LEMMA ClientLinks ==
    ASSUME NEW p, NEW z, Receiving(p), Flow("client", <<>>, toServer', output', p, z), Sending(z)',
           server' = server, server.phase # "failed", stalled' \in Nat
    PROVE  UpInv'
<1>1. Receiving(p)'
  BY ReceivingStays
<1>. QED  BY <1>1 DEF UpInv, Linked

\* Steps that send nothing and change no key of the client's.
LEMMA SilentLinks ==
    ASSUME NEW p, NEW z, Linked(p, z), server.phase # "failed", stalled \in Nat,
           UNCHANGED <<toServer, output, enc, written, stalled, server>>,
           st' \in {"Start", "WaitServerHello"} => st' = st,
           st' \in HandshakeStates => st \in HandshakeStates,
           st' = "Connected" => st = "Connected", pc' = "open" => pc = "open" \/ st = "Connected"
    PROVE  UpInv'
<1>1. Sending(z)'
  BY SameKeys DEF Linked, Sending, HandshakeStates, Opened
<1>. QED  BY <1>1, ClientLinks DEF Linked

LEMMA FailLinks ==
    ASSUME NEW p, NEW z, Linked(p, z), server.phase # "failed", stalled \in Nat,
           UNCHANGED <<toServer, output, enc, written, stalled, server>>, Fail
    PROVE  UpInv'
<1>1. st' = "err" /\ (pc' = "open" => pc = "open")
  BY DEF Fail
<1>. QED  BY <1>1, SilentLinks DEF HandshakeStates

LEMMA QuietLinks ==
    ASSUME NEW p, NEW z, Linked(p, z), server.phase # "failed", stalled \in Nat,
           \/ \E n \in 0 .. Len(toClient) : HandshakeRead(n) \/ PollReadTls(n)
           \/ DiscardCcs \/ ReceiveData \/ ReceiveHandshake \/ ReceiveAlert \/ RefuseRecord
           \/ HandleEncryptedExtensions \/ HandleCertificate \/ HandleCertificateVerify \/ HandleTicket
           \/ RefuseHandshake \/ PollProcessed \/ UNCHANGED vars
           \/ \E n \in 0 .. Len(data) : PollRead(n)
    PROVE  UpInv'
<1>1. UNCHANGED <<toServer, output, enc, written, stalled, server>>
  BY DEF HandshakeRead, PollReadTls, ReadTls, DiscardCcs, ReceiveData, ReceiveHandshake, ReceiveAlert,
         RefuseRecord, HandleEncryptedExtensions, HandleCertificate, HandleCertificateVerify, HandleTicket,
         RefuseHandshake, PollProcessed, PollRead, Handle, Received, Fail, vars, connection, app, external
<1>2. CASE RefuseRecord \/ RefuseHandshake
  BY <1>1, <1>2, FailLinks DEF RefuseRecord, RefuseHandshake
<1>3. CASE HandleEncryptedExtensions \/ HandleCertificate \/ HandleCertificateVerify
  <2>1. st \in HandshakeStates /\ st' \in HandshakeStates /\ pc' = pc
    BY <1>3 DEF HandleEncryptedExtensions, HandleCertificate, HandleCertificateVerify, Handle, HandshakeStates
  <2>. QED  BY <1>1, <2>1, SilentLinks DEF HandshakeStates
<1>4. CASE \/ \E n \in 0 .. Len(toClient) : HandshakeRead(n) \/ PollReadTls(n)
           \/ DiscardCcs \/ ReceiveData \/ ReceiveHandshake \/ HandleTicket \/ PollProcessed
           \/ UNCHANGED vars \/ \E n \in 0 .. Len(data) : PollRead(n)
  <2>1. st' = st /\ pc' = pc
    BY <1>4 DEF HandshakeRead, PollReadTls, DiscardCcs, ReceiveData, ReceiveHandshake, HandleTicket, Handle,
                PollProcessed, PollRead, vars, connection
  <2>. QED  BY <1>1, <2>1, SilentLinks
<1>5. CASE ReceiveAlert
  <2>1. (st' = "err" \/ st' = st) /\ (pc' = "open" => pc = "open")
    BY <1>5 DEF ReceiveAlert, Fail
  <2>. QED  BY <1>1, <2>1, SilentLinks DEF HandshakeStates
<1>. QED  BY <1>2, <1>3, <1>4, <1>5

LEMMA SentOne ==
    ASSUME NEW c, ~NeedsRekey(enc)
    PROVE  Sent(CurrentSender, "Handshake", <<c>>).out = output \o Units(Sealed(AdvancedBy(enc, 0), "Handshake", c))
<1>1. Sent(CurrentSender, "Handshake", <<c>>) = Encrypted(CurrentSender, "Handshake", <<c>>)
  BY DEF Sent, CurrentSender
<1>2. PICK r : r = Sealed(AdvancedBy(enc, 0), "Handshake", c)
  OBVIOUS
<1>3. [i \in DOMAIN <<c>> |-> Sealed(AdvancedBy(enc, i - 1), "Handshake", <<c>>[i])] = <<r>>
  <2>1. DOMAIN <<c>> = {1} /\ DOMAIN <<r>> = {1} /\ <<c>>[1] = c /\ <<r>>[1] = r /\ 1 - 1 = 0
    OBVIOUS
  <2>2. <<r>> = [i \in {1} |-> r]
    OBVIOUS
  <2>. QED  BY <1>2, <2>1, <2>2
<1>4. Encrypted(CurrentSender, "Handshake", <<c>>).out = output \o UnitsOf(<<r>>)
  BY <1>3 DEF Encrypted, CurrentSender
<1>. QED  BY <1>1, <1>2, <1>4, UnitsOfOne

LEMMA StartLinks ==
    ASSUME StagesInv, NEW p, NEW z, Linked(p, z), server.phase # "failed", stalled \in Nat, Start
    PROVE  UpInv'
<1>1. st = "Start" /\ st' = "WaitServerHello" /\ pc' = "handshake"
      /\ UNCHANGED <<output, written, stalled, server>>
  BY DEF Start, app, external
<1>2. ~NeedsRekey(enc)
  BY <1>1 DEF StagesInv, NeedsRekey, Enabled
<1>3. PICK c, r, z2 : /\ c = Handshakes(Halves(ClientHello)) /\ r = Sealed(AdvancedBy(enc, 0), "Handshake", c)
                      /\ z2 = [at |-> "sent", recv |-> ClientHsKeys, n |-> z.n]
  OBVIOUS
<1>4. toServer' = toServer \o (output \o Units(r))
  BY <1>2, <1>3, SentOne DEF Start
<1>5. z.at = "hello" /\ output = <<>> /\ z.n = written * WriteLen
  BY <1>1 DEF Linked, Sending
<1>6. Step("client", <<>>, z, r, z2)
  BY <1>3, <1>5, SealedFields DEF Step, UpStep
<1>7. z.n \in Nat /\ z2.n = z.n /\ z.n <= z2.n
  BY <1>3, FlowBounds DEF Linked
<1>8. Flow("client", <<>>, toServer, output \o Units(r), p, z2)
  BY <1>6, <1>7, FlowAppends DEF Linked
<1>9. Flow("client", <<>>, toServer', output', p, z2)
  BY <1>1, <1>4, <1>5, <1>8, FlowFlushes
<1>10. Sending(z2)'
  BY <1>1, <1>3, <1>5, <1>7, SameKeys DEF Sending, HandshakeStates
<1>. QED  BY <1>1, <1>9, <1>10, ClientLinks DEF Linked

LEMMA ProcessedLinks ==
    ASSUME StagesInv, NEW p, NEW z, Linked(p, z), server.phase # "failed", stalled \in Nat,
           HandshakeProcessed
    PROVE  UpInv'
<1>1. /\ pc = "handshake" /\ st' = st /\ toServer' = toServer \o output /\ output' = <<>>
      /\ pc' = (IF IsHandshaking THEN "handshake" ELSE "open")
      /\ UNCHANGED <<enc, written, stalled, server>>
  BY DEF HandshakeProcessed, app, external
<1>2. pc' = "open" => st = "Connected"
  BY <1>1 DEF IsHandshaking, StagesInv
<1>3. Flow("client", <<>>, toServer', output', p, z)
  BY <1>1, FlowFlushes DEF Linked
<1>4. Sending(z)'
  BY <1>1, <1>2, SameKeys DEF Linked, Sending, HandshakeStates, Opened
<1>. QED  BY <1>1, <1>3, <1>4, ClientLinks DEF Linked

LEMMA HelloLinks ==
    ASSUME TrustInv', NEW p, NEW z, Linked(p, z), server.phase # "failed", stalled \in Nat,
           pc # "open", HandleServerHello
    PROVE  UpInv'
<1>1. /\ st = "WaitServerHello" /\ st' = "WaitEncryptedExtensions" /\ pc' = pc
      /\ enc' = Fresh(Derived("c hs traffic", transcript'))
      /\ UNCHANGED <<toServer, output, written, stalled, server>>
  BY DEF HandleServerHello, Handle, app, external
<1>2. transcript' = Hellos
  <2>1. Handled' = 1
    BY <1>1 DEF Handled
  <2>2. transcript' = Hashes(1)
    BY <1>1, <2>1 DEF TrustInv, ControlInv
  <2>3. Hashes(1) = Hellos
    BY DEF Hashes, Hellos, Order
  <2>. QED  BY <2>2, <2>3
<1>3. enc' = ClientHsKeys
  BY <1>1, <1>2 DEF ClientHsKeys
<1>4. Sending(z)'
  BY <1>1, <1>3, SameKeys DEF Linked, Sending, HandshakeStates
<1>5. Flow("client", <<>>, toServer', output', p, z)
  BY <1>1 DEF Linked
<1>. QED  BY <1>1, <1>4, <1>5, ClientLinks DEF Linked
-----------------------------------------------------------------------------
(* What the client sends once it has keys. *)

LEMMA FinishedLinks ==
    ASSUME TrustInv', NEW p, NEW z, Linked(p, z), server.phase # "failed", stalled \in Nat,
           HandleFinished
    PROVE  UpInv'
<1>1. /\ st = "WaitFinished" /\ st' = "Connected" /\ pc' = pc
      /\ enc' = Fresh(Derived("c ap traffic", transcript'))
      /\ output' = Sent(CurrentSender, "Handshake", <<Handshakes(Halves(OurFinished(transcript')))>>).out
      /\ UNCHANGED <<toServer, written, stalled, server>>
  BY DEF HandleFinished, Handle, app, external
<1>2. transcript' = Order
  <2>1. Handled' = 5
    BY <1>1 DEF Handled
  <2>2. transcript' = Hashes(5)
    BY <1>1, <2>1 DEF TrustInv, ControlInv
  <2>. QED  BY <2>2, AllHashes
<1>3. enc' = ClientApKeys
  BY <1>1, <1>2 DEF ClientApKeys
<1>4. enc = ClientHsKeys /\ z.at = "sent" /\ z.recv = ClientHsKeys /\ z.n = written * WriteLen
  BY <1>1 DEF Linked, Sending, HandshakeStates
<1>5. enc.sequence_number = 0 /\ AdvancedBy(enc, 0) = enc
  <2>1. PICK k : k = Derived("c hs traffic", Hellos)
    OBVIOUS
  <2>2. enc = [key |-> k, sequence_number |-> 0]
    BY <1>4, <2>1 DEF ClientHsKeys, Fresh, Numbered
  <2>3. enc.key = k /\ enc.sequence_number = 0 /\ 0 + 0 = 0
    BY <2>2
  <2>4. AdvancedBy(enc, 0) = [key |-> k, sequence_number |-> 0]
    BY <2>3 DEF AdvancedBy, Numbered
  <2>. QED  BY <2>2, <2>3, <2>4
<1>6. ~NeedsRekey(enc)
  <2>1. RekeyLimit \in Nat \ {0}
    BY TlsAssumption
  <2>. QED  BY <1>5, <2>1 DEF NeedsRekey
<1>7. PICK c, r, z2 : /\ c = Handshakes(Halves(OurFinished(Order))) /\ r = Sealed(enc, "Handshake", c)
                      /\ z2 = [at |-> "open", recv |-> ClientApKeys, n |-> z.n]
  OBVIOUS
<1>8. output' = output \o Units(r)
  BY <1>1, <1>2, <1>5, <1>6, <1>7, SentOne
<1>9. Step("client", <<>>, z, r, z2)
  BY <1>4, <1>7 DEF Step, UpStep
<1>10. z.n \in Nat /\ z2.n = z.n /\ z.n <= z2.n
  BY <1>7, FlowBounds DEF Linked
<1>11. Flow("client", <<>>, toServer, output \o Units(r), p, z2)
  BY <1>9, <1>10, FlowAppends DEF Linked
<1>12. Sending(z2)'
  <2>1. z2 = Opened(enc', z2.n)
    BY <1>3, <1>7, <1>10 DEF Opened
  <2>. QED  BY <1>1, <1>4, <1>10, <2>1 DEF Sending, HandshakeStates, Opened
<1>. QED  BY <1>1, <1>8, <1>11, <1>12, ClientLinks DEF Linked

\* The key is changed, and that announced.
LEMMA UpdateGoes ==
    ASSUME NEW p, NEW n, enc \in State, Flow("client", <<>>, toServer, output, p, Opened(enc, n))
    PROVE  /\ WithKeyUpdate(CurrentSender).state = Updated(enc) /\ Updated(enc) \in State
           /\ Flow("client", <<>>, toServer, WithKeyUpdate(CurrentSender).out, p, Opened(Updated(enc), n))
<1>1. PICK r, z, z2 : /\ r = Sealed(enc, "Handshake", Handshakes(Halves(KeyUpdate(FALSE))))
                      /\ z = Opened(enc, n) /\ z2 = Opened(Updated(enc), n)
  OBVIOUS
<1>2. /\ WithKeyUpdate(CurrentSender).state = Updated(enc)
      /\ WithKeyUpdate(CurrentSender).out = output \o Units(r)
  BY <1>1 DEF WithKeyUpdate, CurrentSender
<1>3. Step("client", <<>>, z, r, z2)
  BY <1>1 DEF Step, UpStep, Opened
<1>4. z.n = n /\ z2.n = n
  BY <1>1 DEF Opened
<1>5. z.n \in Nat /\ z2.n \in Nat /\ z.n <= z2.n
  <2>1. z.n \in Nat
    BY <1>1, FlowBounds
  <2>. QED  BY <1>4, <2>1
<1>6. Flow("client", <<>>, toServer, output \o Units(r), p, z2)
  BY <1>1, <1>3, <1>5, FlowAppends
<1>7. Updated(enc) \in State
  BY UpdatedIsLater
<1>. QED  BY <1>1, <1>2, <1>6, <1>7

LEMMA KeyUpdateLinks ==
    ASSUME ConnectionTypes, NEW p, NEW z, Linked(p, z), server.phase # "failed", stalled \in Nat,
           HandleKeyUpdate
    PROVE  UpInv'
<1>1. /\ st = "Connected" /\ st' = st /\ pc' = pc
      /\ UNCHANGED <<toServer, written, stalled, server>>
      /\ enc' = (IF Head(decoded).request THEN WithKeyUpdate(CurrentSender) ELSE CurrentSender).state
      /\ output' = (IF Head(decoded).request THEN WithKeyUpdate(CurrentSender) ELSE CurrentSender).out
  BY DEF HandleKeyUpdate, Handle, app, external
<1>2. z = Opened(enc, z.n) /\ z.n = written * WriteLen /\ enc \in State
  BY <1>1 DEF Linked, Sending, ConnectionTypes
<1>3. PICK n : n = z.n
  OBVIOUS
<1>4. Flow("client", <<>>, toServer, output, p, Opened(enc, n))
  BY <1>2, <1>3 DEF Linked
<1>5. PICK e : e = enc'
  OBVIOUS
<1>6. Flow("client", <<>>, toServer', output', p, Opened(e, n))
  <2>1. CASE Head(decoded).request
    BY <1>1, <1>2, <1>4, <1>5, <2>1, UpdateGoes
  <2>2. CASE ~Head(decoded).request
    BY <1>1, <1>4, <1>5, <2>2 DEF CurrentSender
  <2>. QED  BY <2>1, <2>2
<1>7. PICK z2 : z2 = Opened(e, n)
  OBVIOUS
<1>8. Sending(z2)'
  <2>1. z2.n = n /\ z2 = Opened(enc', z2.n)
    BY <1>5, <1>7 DEF Opened
  <2>. QED  BY <1>1, <1>2, <1>3, <2>1 DEF Sending, HandshakeStates
<1>. QED  BY <1>1, <1>6, <1>7, <1>8, ClientLinks DEF Linked

\* A write of the application's: a change of key if one is due, then the chunks.
LEMMA WriteGoes ==
    ASSUME ConnectionTypes, NEW p, Flow("client", <<>>, toServer, output, p, Opened(enc, written * WriteLen)),
           NEW sender, sender = Sent(CurrentSender, "ApplicationData", Chunks(Bytes(written + 1)))
    PROVE  Flow("client", <<>>, toServer, sender.out, p, Opened(sender.state, (written + 1) * WriteLen))
<1>1. PICK f, w, b : /\ f = Chunks(Bytes(written + 1)) /\ w = written
                     /\ b = IF NeedsRekey(enc) THEN WithKeyUpdate(CurrentSender) ELSE CurrentSender
  OBVIOUS
<1>2. w \in Nat /\ enc \in State
  BY <1>1 DEF ConnectionTypes
<1>3. sender = Encrypted(b, "ApplicationData", f)
  BY <1>1 DEF Sent, CurrentSender
<1>4. b.state \in State /\ Flow("client", <<>>, toServer, b.out, p, Opened(b.state, w * WriteLen))
  <2>1. CASE NeedsRekey(enc)
    BY <1>1, <1>2, <2>1, UpdateGoes
  <2>2. CASE ~NeedsRekey(enc)
    BY <1>1, <1>2, <2>2 DEF CurrentSender
  <2>. QED  BY <2>1, <2>2
<1>5. PICK qs : qs = [i \in DOMAIN f |-> Sealed(AdvancedBy(b.state, i - 1), "ApplicationData", f[i])]
  OBVIOUS
<1>6. sender.state = AdvancedBy(b.state, Len(f)) /\ sender.out = b.out \o UnitsOf(qs)
  BY <1>3, <1>5 DEF Encrypted
<1>7. PICK s, o, t : s = b.state /\ o = b.out /\ t = toServer
  OBVIOUS
<1>8. f = Chunks(Bytes(w + 1))
  BY <1>1
<1>9. s \in State /\ Flow("client", <<>>, t, o, p, Opened(s, w * WriteLen))
      /\ qs = [i \in DOMAIN f |-> Sealed(AdvancedBy(s, i - 1), "ApplicationData", f[i])]
  BY <1>4, <1>5, <1>7
<1>10. Flow("client", <<>>, t, o \o UnitsOf(qs), p, Opened(AdvancedBy(s, Len(f)), (w + 1) * WriteLen))
  BY ONLY <1>2, <1>8, <1>9, FragmentsGo
<1>. QED  BY <1>1, <1>6, <1>7, <1>10

LEMMA WriteLinks ==
    ASSUME ConnectionTypes, TrustInv, NEW p, NEW z, Linked(p, z), server.phase # "failed", stalled \in Nat,
           Write, stalled' = 0
    PROVE  UpInv'
<1>1. PICK sender : sender = Sent(CurrentSender, "ApplicationData", Chunks(Bytes(written + 1)))
  OBVIOUS
<1>2. pc = "open" /\ pc' = pc /\ st' = st /\ enc' = sender.state /\ server' = server
  BY <1>1 DEF Write, PollWrite, PollWriteFails, external
<1>3. z = Opened(enc, z.n) /\ z.n = written * WriteLen
  BY <1>2 DEF Linked, Sending
<1>4. Flow("client", <<>>, toServer, sender.out, p, Opened(sender.state, (written + 1) * WriteLen))
  <2>1. Flow("client", <<>>, toServer, output, p, Opened(enc, written * WriteLen))
    BY <1>3 DEF Linked
  <2>. QED  BY <1>1, <2>1, WriteGoes
<1>5. /\ written' = written + 1
      /\ \/ toServer' = toServer \o sender.out /\ output' = <<>>
         \/ toServer' = toServer /\ output' = sender.out
  <2>1. CASE PollWriteFails
    BY <1>1, <2>1 DEF PollWriteFails
  <2>2. CASE \E n \in 0 .. 2 * (WriteLen + 2) + Len(output) : PollWrite(n)
    <3>1. PICK n : PollWrite(n)
      BY <2>2
    <3>2. /\ n \in 0 .. Len(sender.out) /\ toServer' = toServer \o SubSeq(sender.out, 1, n)
          /\ \/ n = Len(sender.out) /\ output' = <<>> /\ written' = written + 1
             \/ stalled' = stalled + 1
      BY <1>1, <3>1 DEF PollWrite
    <3>3. n = Len(sender.out) /\ output' = <<>> /\ written' = written + 1
      BY <3>2
    <3>4. PICK S : sender.out \in Seq(UnitIn(S))
      BY <1>4, FlowBounds
    <3>5. SubSeq(sender.out, 1, Len(sender.out)) = sender.out
      <4>1. PICK o : o = sender.out
        OBVIOUS
      <4>2. o \in Seq(UnitIn(S))
        BY <3>4, <4>1
      <4>3. SubSeq(o, 1, Len(o)) = o
        BY ONLY <4>2
      <4>. QED  BY <4>1, <4>3
    <3>. QED  BY <3>2, <3>3, <3>5
  <2>. QED  BY <2>1, <2>2 DEF Write
<1>6. PICK z2, n : n = (written + 1) * WriteLen /\ z2 = Opened(sender.state, n)
  OBVIOUS
<1>7. Flow("client", <<>>, toServer', output', p, z2)
  BY <1>4, <1>5, <1>6, FlowFlushes
<1>8. Sending(z2)'
  <2>1. z2.n = n /\ z2 = Opened(enc', z2.n) /\ n = written' * WriteLen
    BY <1>2, <1>5, <1>6 DEF Opened
  <2>2. st' \notin {"Start", "WaitServerHello"} \cup HandshakeStates
    BY <1>2 DEF TrustInv, ControlInv, HandshakeStates
  <2>. QED  BY <2>1, <2>2 DEF Sending
<1>9. stalled' \in Nat
  OBVIOUS
<1>. QED  BY <1>2, <1>7, <1>8, <1>9, ClientLinks DEF Linked
-----------------------------------------------------------------------------
(* The server's steps. *)

LEMMA ServerLinks ==
    ASSUME NEW p, NEW z, Flow("client", <<>>, toServer', output, p, z), Receiving(p)', Sending(z),
           server'.phase # "failed", stalled \in Nat, UNCHANGED <<pc, connection, app, cfg>>
    PROVE  UpInv'
<1>1. Sending(z)'
  BY SameKeys DEF Sending, HandshakeStates, Opened, connection, app
<1>2. output' = output /\ stalled' = stalled
  BY DEF connection, app
<1>. QED  BY <1>1, <1>2 DEF UpInv, Linked

LEMMA SpeaksLinks ==
    ASSUME StreamInv, cfg \in SupportedServers, NEW p, NEW z, Linked(p, z), server.phase # "failed", stalled \in Nat,
           \/ \E n \in Packings : ServerSendsHandshake(n)
           \/ ServerStartsFlight \/ ServerEndsFlight \/ ServerPosts
    PROVE  UpInv'
<1>1. DOMAIN server = ServerFields /\ server = [f \in ServerFields |-> server[f]]
  BY DEF StreamInv, ServerInv
<1>2. UNCHANGED <<pc, connection, app, cfg, toServer>>
  BY DEF ServerSendsHandshake, ServerStartsFlight, ServerEndsFlight, ServerPosts, ServerSendsData,
         ServerSendsTicket, ServerUpdatesKey, ServerCloses
<1>3. Receiving(p)' /\ server'.phase # "failed"
  <2>1. CASE (\E n \in Packings : ServerSendsHandshake(n)) \/ ServerPosts
    <3>1. server'.phase = server.phase /\ server'.got = server.got /\ server'.recv = server.recv
      <4>1. CASE \E n \in Packings : ServerSendsHandshake(n)
        <5>1. PICK n \in Packings : ServerSendsHandshake(n)
          BY <4>1
        <5>2. PICK a, b : server' = [server EXCEPT !.send = a, !.script = b]
          BY <5>1 DEF ServerSendsHandshake
        <5>. QED  BY <1>1, <5>2 DEF ServerFields
      <4>2. CASE ServerPosts
        BY <1>1, <4>2 DEF ServerPosts, ServerSendsData, ServerSendsTicket, ServerUpdatesKey, ServerCloses,
                          ServerFields
      <4>. QED  BY <2>1, <4>1, <4>2
    <3>. QED  BY <3>1, ReceivingStays DEF Linked
  <2>2. CASE ServerStartsFlight
    <3>1. PICK f : server' = [server EXCEPT !.phase = "flight", !.script = f, !.send = ServerHsKeys,
                                            !.recv = ClientHsKeys]
      BY <2>2 DEF ServerStartsFlight, ServerHsKeys, ClientHsKeys
    <3>2. server'.phase = "flight" /\ server'.recv = ClientHsKeys /\ server'.got = server.got
      BY <1>1, <3>1 DEF ServerFields
    <3>3. server.phase = "hello"
      BY <2>2 DEF ServerStartsFlight
    <3>. QED  BY <3>2, <3>3, SameKeys DEF Linked, Receiving, FirstBytes
  <2>3. CASE ServerEndsFlight
    <3>1. PICK s : server' = [server EXCEPT !.phase = "sent", !.send = s]
      BY <2>3 DEF ServerEndsFlight
    <3>2. server'.phase = "sent" /\ server'.recv = server.recv /\ server'.got = server.got
      BY <1>1, <3>1 DEF ServerFields
    <3>3. server.phase = "flight"
      BY <2>3 DEF ServerEndsFlight
    <3>. QED  BY <3>2, <3>3, SameKeys DEF Linked, Receiving, FirstBytes
  <2>. QED  BY <2>1, <2>2, <2>3
<1>. QED  BY <1>2, <1>3, ServerLinks DEF Linked

LEMMA AnswersLinks ==
    ASSUME StreamInv, cfg \in SupportedServers, NEW p, NEW z, Linked(p, z), server.phase # "failed", stalled \in Nat,
           ServerAnswers
    PROVE  UpInv'
<1>1. DOMAIN server = ServerFields /\ server = [f \in ServerFields |-> server[f]]
  BY DEF StreamInv, ServerInv
<1>2. /\ UNCHANGED <<pc, connection, app, cfg>> /\ Len(toServer) >= 2 /\ server.phase = "wait"
      /\ toServer' = SubSeq(toServer, 3, Len(toServer))
      /\ server' = [server EXCEPT !.phase = "hello", !.script = Halves(Hello)]
  BY DEF ServerAnswers, WholeRecord, Hello
<1>3. server'.phase = "hello" /\ server'.got = server.got
  BY <1>1, <1>2 DEF ServerFields
<1>4. PICK q : /\ Step("client", <<>>, p, toServer[1].of, q)
               /\ Flow("client", <<>>, SubSeq(toServer, 3, Len(toServer)), output, q, z)
  BY <1>2, FlowTail DEF Linked
<1>5. p.at = "hello" /\ server.got = FirstBytes(p.n)
  BY <1>2 DEF Linked, Receiving
<1>6. q.at = "sent" /\ q.recv = ClientHsKeys /\ q.n = p.n
  BY <1>4, <1>5 DEF Step, UpStep
<1>7. Receiving(q)'
  BY <1>3, <1>5, <1>6, SameKeys DEF Receiving, FirstBytes
<1>. QED  BY <1>2, <1>3, <1>4, <1>7, ServerLinks DEF Linked

\* The server can open the next record, and expects it.
LEMMA AcceptsNext ==
    ASSUME StreamInv, cfg \in SupportedServers, server.phase \in {"sent", "open"}, NEW p, Receiving(p),
           NEW r, NEW q, UpStep(p, r, q), p.n \in Nat, q.n \in Nat
    PROVE  /\ ServerAccepts(r).phase = "open"
           /\ ServerAccepts(r).got = FirstBytes(q.n)
           /\ q.at = "open" /\ q.recv = ServerAccepts(r).recv
<1>1. DOMAIN server = ServerFields /\ server = [f \in ServerFields |-> server[f]]
  BY DEF StreamInv, ServerInv
<1>2. server.got = FirstBytes(p.n) /\ p.recv = server.recv
  BY DEF Receiving
<1>3. ServerTranscript(Len(cfg.flight) + 1) = Order
  <2>1. Len(cfg.flight) + 1 = 5
    <3>1. Len(cfg.flight) = 4
      BY GoodFlightOrder
    <3>. QED  BY <3>1
  <2>2. ServerTranscript(5) = Hashes(5)
    <3>1. 5 \in 1 .. 5
      OBVIOUS
    <3>. QED  BY <3>1, ServerHashes
  <2>. QED  BY <2>1, <2>2, AllHashes
<1>4. CASE server.phase = "sent"
  <2>1. p.at = "sent"
    BY <1>4 DEF Receiving
  <2>2. /\ r = Sealed(server.recv, "Handshake", Handshakes(Halves(OurFinished(Order))))
        /\ q = [at |-> "open", recv |-> ClientApKeys, n |-> p.n]
    BY <1>2, <2>1 DEF UpStep
  <2>3. /\ r.key = server.recv.key /\ r.seq = server.recv.sequence_number /\ r.inner = "Handshake"
        /\ r.content = Handshakes(Halves([name |-> "Finished", mac |-> Order]))
    BY <2>2 DEF Sealed, OurFinished
  <2>4. ServerAccepts(r) = [server EXCEPT !.phase = "open", !.recv = ClientApKeys]
    BY <1>3, <1>4, <2>3 DEF ServerAccepts, ClientApKeys
  <2>5. /\ ServerAccepts(r).phase = "open" /\ ServerAccepts(r).got = server.got
        /\ ServerAccepts(r).recv = ClientApKeys
    BY <1>1, <2>4 DEF ServerFields
  <2>. QED  BY <1>2, <2>2, <2>5
<1>5. CASE server.phase = "open"
  <2>1. p.at = "open"
    BY <1>5 DEF Receiving
  <2>2. CASE /\ q = [at |-> "open", recv |-> Advanced(p.recv), n |-> q.n] /\ p.n <= q.n
             /\ r = Sealed(p.recv, "ApplicationData", Data([i \in 1 .. q.n - p.n |-> p.n + i]))
    <3>1. PICK b : b = [i \in 1 .. q.n - p.n |-> p.n + i]
      OBVIOUS
    <3>2. /\ r.key = server.recv.key /\ r.seq = server.recv.sequence_number /\ r.inner = "ApplicationData"
          /\ r.content.bytes = b
      <4>1. r = Sealed(server.recv, "ApplicationData", Data(b))
        BY <1>2, <2>2, <3>1
      <4>2. r.content = Data(b)
        BY ONLY <4>1 DEF Sealed
      <4>3. r.content.bytes = b
        BY ONLY <4>2 DEF Data
      <4>. QED  BY ONLY <4>1, <4>3 DEF Sealed
    <3>3. PICK g, v : g = server.got \o r.content.bytes /\ v = Advanced(server.recv)
      OBVIOUS
    <3>4. ServerAccepts(r) = [server EXCEPT !.got = g, !.recv = v]
      BY <1>5, <3>2, <3>3 DEF ServerAccepts
    <3>5. ServerAccepts(r).phase = "open" /\ ServerAccepts(r).got = g /\ ServerAccepts(r).recv = v
      BY <1>1, <1>5, <3>4 DEF ServerFields
    <3>6. g = FirstBytes(q.n)
      <4>1. PICK x \in Nat, y \in Nat : x = p.n /\ y = q.n
        OBVIOUS
      <4>2. x <= y
        BY ONLY <2>2, <4>1
      <4>3. (y - x) \in Nat /\ x + (y - x) = y
        BY ONLY <4>2, <4>1
      <4>4. PICK m \in Nat : m = q.n - p.n /\ p.n + m = q.n
        BY ONLY <4>1, <4>3
      <4>5. b = [i \in 1 .. m |-> p.n + i]
        BY <3>1, <4>4
      <4>6. FirstBytes(p.n) \o b = FirstBytes(p.n + m)
        BY <4>5, FirstBytesSum
      <4>. QED  BY <1>2, <3>2, <3>3, <4>4, <4>6
    <3>7. q.at = "open" /\ q.recv = v
      BY <1>2, <2>2, <3>3
    <3>. QED  BY <3>5, <3>6, <3>7
  <2>3. CASE /\ q = [at |-> "open", recv |-> Updated(p.recv), n |-> p.n]
             /\ r = Sealed(p.recv, "Handshake", Handshakes(Halves(KeyUpdate(FALSE))))
    <3>1. /\ r.key = server.recv.key /\ r.seq = server.recv.sequence_number /\ r.inner = "Handshake"
          /\ r.content = Handshakes(Halves(KeyUpdate(FALSE)))
      BY <1>2, <2>3 DEF Sealed
    <3>2. PICK u : u = Updated(server.recv)
      OBVIOUS
    <3>3. ServerAccepts(r) = [server EXCEPT !.recv = u]
      BY <1>5, <3>1, <3>2 DEF ServerAccepts
    <3>4. ServerAccepts(r).phase = "open" /\ ServerAccepts(r).got = server.got /\ ServerAccepts(r).recv = u
      BY <1>1, <1>5, <3>3 DEF ServerFields
    <3>. QED  BY <1>2, <2>3, <3>2, <3>4
  <2>. QED  BY <2>1, <2>2, <2>3 DEF UpStep
<1>. QED  BY <1>4, <1>5

LEMMA ReceivesLinks ==
    ASSUME StreamInv, cfg \in SupportedServers, NEW p, NEW z, Linked(p, z), server.phase # "failed", stalled \in Nat,
           ServerReceives
    PROVE  UpInv'
<1>1. /\ UNCHANGED <<pc, connection, app, cfg>> /\ Len(toServer) >= 2 /\ server.phase \in {"sent", "open"}
  BY DEF ServerReceives, ServerIsOpen
<1>2. /\ WholeRecord(toServer)
      /\ \E q : /\ Step("client", <<>>, p, toServer[1].of, q) /\ q.n \in Nat
                /\ Flow("client", <<>>, SubSeq(toServer, 3, Len(toServer)), output, q, z)
  BY <1>1, FlowTail DEF Linked
<1>3. PICK q, r : /\ r = toServer[1].of /\ UpStep(p, r, q) /\ q.n \in Nat
                  /\ Flow("client", <<>>, SubSeq(toServer, 3, Len(toServer)), output, q, z)
  BY <1>2 DEF Step
<1>4. PICK s : s = ServerAccepts(r)
  OBVIOUS
<1>5. /\ s.phase = "open" /\ s.got = FirstBytes(q.n) /\ q.at = "open" /\ q.recv = s.recv
  <2>1. p.n \in Nat
    BY FlowBounds DEF Linked
  <2>. QED  BY <1>1, <1>3, <1>4, <2>1, AcceptsNext DEF Linked
<1>6. DOMAIN s = ServerFields
  BY <1>1, <1>4, AcceptsAs DEF StreamInv
<1>7. toServer' = SubSeq(toServer, 3, Len(toServer)) /\ server' = [s EXCEPT !.closed = FALSE]
  BY <1>2, <1>3, <1>4, <1>5 DEF ServerReceives
<1>8. server'.phase = "open" /\ server'.got = s.got /\ server'.recv = s.recv
  BY <1>5, <1>6, <1>7 DEF ServerFields
<1>9. Receiving(q)'
  BY <1>5, <1>8 DEF Receiving, FirstBytes
<1>. QED  BY <1>1, <1>3, <1>7, <1>8, <1>9, ServerLinks DEF Linked

-----------------------------------------------------------------------------
LEMMA StallsGrow ==
    ASSUME stalled \in Nat, [Next]_vars
    PROVE  stalled' \in Nat /\ (stalled' = 0 => stalled = 0) /\ cfg' = cfg
<1>1. CASE Client \/ UNCHANGED vars
  BY <1>1 DEF Client, Start, HandshakeRead, PollReadTls, HandshakeProcessed, ProcessNewPackets,
              DiscardCcs, ReceiveData, ReceiveHandshake, ReceiveAlert, RefuseRecord, HandleServerHello,
              HandleEncryptedExtensions, HandleCertificate, HandleCertificateVerify, HandleFinished,
              HandleTicket, HandleKeyUpdate, RefuseHandshake, Handle, PollProcessed, PollRead,
              Received, Fail, vars, app, external
<1>2. CASE Write
  BY <1>2 DEF Write, PollWrite, PollWriteFails, external
<1>3. CASE ServerHandshake \/ ServerReceives \/ ServerPosts
  BY <1>3 DEF ServerHandshake, ServerAnswers, ServerSendsHandshake, ServerStartsFlight, ServerEndsFlight,
              ServerReceives, ServerPosts, ServerSendsData, ServerSendsTicket, ServerUpdatesKey, ServerCloses,
              app
<1>. QED  BY <1>1, <1>2, <1>3 DEF Next

LEMMA UpStepKeeps ==
    ASSUME UpInv, StreamInv, TrustInv, TrustInv', ConnectionTypes, StagesInv, [Next]_vars
    PROVE  UpInv'
<1>1. stalled' \in Nat /\ (stalled' = 0 => stalled = 0) /\ cfg' = cfg
  BY StallsGrow DEF UpInv
<1>2. SupportedServers' = SupportedServers
  BY ServersStay
<1>3. CASE ~(cfg' \in SupportedServers' /\ stalled' = 0)
  BY <1>1, <1>3 DEF UpInv
<1>4. CASE cfg' \in SupportedServers' /\ stalled' = 0
  <2>1. cfg \in SupportedServers /\ stalled = 0 /\ stalled \in Nat
    BY <1>1, <1>2, <1>4
  <2>2. server.phase # "failed" /\ \E p, z : Linked(p, z)
    BY <2>1 DEF UpInv
  <2>3. PICK p, z : Linked(p, z)
    BY <2>2
  <2>4. HandleServerHello => pc # "open"
    BY DEF HandleServerHello, TrustInv, ControlInv
  <2>5. CASE Client \/ UNCHANGED vars
    BY <2>1, <2>2, <2>3, <2>4, <2>5, QuietLinks, StartLinks, ProcessedLinks, HelloLinks, FinishedLinks,
       KeyUpdateLinks DEF Client, ProcessNewPackets
  <2>6. CASE Write
    BY <1>4, <2>1, <2>2, <2>3, <2>6, WriteLinks
  <2>7. CASE ServerHandshake \/ ServerReceives \/ ServerPosts
    BY <2>1, <2>2, <2>3, <2>7, SpeaksLinks, AnswersLinks, ReceivesLinks DEF ServerHandshake
  <2>. QED  BY <2>5, <2>6, <2>7 DEF Next
<1>. QED  BY <1>3, <1>4

LEMMA InitialUp ==
    ASSUME Init
    PROVE  UpInv
<1>1. PICK p : p = [at |-> "hello", recv |-> Disabled, n |-> 0]
  OBVIOUS
<1>2. Flow("client", <<>>, <<>>, <<>>, p, p)
  BY <1>1, FlowStarts
<1>3. FirstBytes(0) = <<>>
  BY DEF FirstBytes
<1>4. Receiving(p)
  BY <1>1, <1>3 DEF Init, Receiving
<1>5. 0 * WriteLen = 0
  BY TlsAssumption
<1>6. Sending(p)
  BY <1>1, <1>5 DEF Init, Sending, HandshakeStates
<1>. QED  BY <1>2, <1>4, <1>6 DEF Init, UpInv, Linked

\* What the server got are bytes of the writes that returned.
LEMMA UpIsUnderstood ==
    ASSUME UpInv, ConnectionTypes
    PROVE  ServerUnderstands
<1>1. SUFFICES ASSUME cfg \in SupportedServers, stalled = 0
               PROVE  /\ server.phase # "failed"
                      /\ IsPrefix(server.got, [i \in 1 .. written * WriteLen |-> i])
  BY DEF ServerUnderstands
<1>2. server.phase # "failed" /\ \E p, z : Linked(p, z)
  BY <1>1 DEF UpInv
<1>3. PICK p, z : Linked(p, z)
  BY <1>2
<1>4. p.n \in Nat /\ z.n \in Nat /\ p.n <= z.n
  BY <1>3, FlowBounds DEF Linked
<1>5. server.got = FirstBytes(p.n) /\ z.n = written * WriteLen
  BY <1>3 DEF Linked, Receiving, Sending
<1>6. Downstream!IsPrefix(FirstBytes(p.n), FirstBytes(z.n))
  BY <1>4, FirstBytesPrefix
<1>7. IsPrefix(FirstBytes(p.n), FirstBytes(z.n))
  BY <1>6 DEF Downstream!IsPrefix, IsPrefix
<1>8. FirstBytes(z.n) = [i \in 1 .. written * WriteLen |-> i]
  BY <1>5 DEF FirstBytes
<1>. QED  BY <1>2, <1>5, <1>7, <1>8

\* The server can open every record of the client's, and its application gets
\* the bytes that the client's application wrote, in order and each once, across
\* the changes of key of either side, as long as the socket takes each write.
THEOREM ServerReadsWrites == Spec => []ServerUnderstands
<1>1. Init => UpInv /\ TrustInv /\ StreamInv
  BY InitialUp, InitialTrust, InitialStream
<1>2. UpInv /\ NonceInv => ServerUnderstands
  BY UpIsUnderstood DEF NonceInv
<1>3. StreamInv /\ NonceInv /\ [Next]_vars => StreamInv'
  BY StreamStep, StreamStutter DEF NonceInv
<1>4. TrustInv /\ StreamInv /\ NonceInv /\ [Next]_vars => TrustInv'
  BY TrustStep, StutterTrust DEF NonceInv
<1>5. UpInv /\ TrustInv /\ TrustInv' /\ StreamInv /\ NonceInv /\ [Next]_vars => UpInv'
  BY UpStepKeeps DEF NonceInv
<1>. QED  BY <1>1, <1>2, <1>3, <1>4, <1>5, Invariant, PTL DEF Spec
-----------------------------------------------------------------------------
(* No byte is lost: the bytes that wait, joined to those that were read.       *)

\* induction over the naturals, for a set
LEMMA SetInduction ==
    ASSUME NEW S \in SUBSET Nat, 0 \in S, \A n \in S : n + 1 \in S
    PROVE  S = Nat
<1>. DEFINE T == Nat \ S
            Below == OpToRel(<, Nat)
<1>1. SUFFICES ASSUME T # {} PROVE FALSE
  OBVIOUS
<1>2. IsWellFoundedOn(Below, Nat)
  BY NatLessThanWellFounded
<1>3. T \subseteq Nat
  OBVIOUS
<1>4. \A x, y \in Nat : x < y => <<x, y>> \in Below
  BY DEF OpToRel
<1>. HIDE DEF T, Below
<1>5. PICK x \in T : \A y \in T : <<y, x>> \notin Below
  BY <1>1, <1>2, <1>3, WFMin
<1>6. x \in Nat /\ x # 0 /\ x - 1 \in Nat /\ x \notin S
  BY <1>5 DEF T
<1>7. x - 1 \in T
  BY <1>6 DEF T
<1>8. x - 1 < x
  BY <1>6
<1>. QED  BY <1>4, <1>5, <1>6, <1>7, <1>8

\* what has been joined after each of the sequences
Joins(seqs, g) ==
    g = [i \in 1 .. Len(seqs) |-> IF i = 1 THEN seqs[i] ELSE g[i - 1] \o seqs[i]]

LEMMA Flattened ==
    ASSUME NEW seqs, Len(seqs) \in Nat \ {0}, NEW g, Joins(seqs, g)
    PROVE  FlattenSeq(seqs) = g[Len(seqs)]
<1>. DEFINE n == Len(seqs)
            h == CHOOSE f : f = [i \in 1 .. n |-> IF i = 1 THEN seqs[i] ELSE f[i - 1] \o seqs[i]]
<1>1. FlattenSeq(seqs) = h[n]
  BY DEF FlattenSeq
<1>2. h = [i \in 1 .. n |-> IF i = 1 THEN seqs[i] ELSE h[i - 1] \o seqs[i]]
  BY DEF Joins
<1>. HIDE DEF h
<1>. DEFINE S == {k \in Nat : k + 1 \in 1 .. n => h[k + 1] = g[k + 1]}
<1>3. 0 \in S
  <2>1. 0 + 1 = 1
    OBVIOUS
  <2>2. 1 \in 1 .. n => h[1] = g[1]
    BY <1>2 DEF Joins
  <2>. QED  BY <2>1, <2>2
<1>4. ASSUME NEW k \in S PROVE k + 1 \in S
  <2>1. k \in Nat /\ k + 1 \in Nat /\ k + 1 + 1 # 1 /\ k + 1 + 1 - 1 = k + 1
    OBVIOUS
  <2>2. ASSUME k + 1 + 1 \in 1 .. n PROVE h[k + 1 + 1] = g[k + 1 + 1]
    <3>1. k + 1 \in 1 .. n /\ h[k + 1] = g[k + 1]
      BY <2>1, <2>2
    <3>2. \A m \in 1 .. n : m # 1 => h[m] = h[m - 1] \o seqs[m] /\ g[m] = g[m - 1] \o seqs[m]
      <4>. TAKE m \in 1 .. n
      <4>1. h[m] = IF m = 1 THEN seqs[m] ELSE h[m - 1] \o seqs[m]
        BY <1>2
      <4>2. g[m] = IF m = 1 THEN seqs[m] ELSE g[m - 1] \o seqs[m]
        BY DEF Joins
      <4>. QED  BY <4>1, <4>2
    <3>3. PICK m : m = k + 1 + 1
      OBVIOUS
    <3>4. m \in 1 .. n /\ m # 1 /\ m - 1 = k + 1
      BY <2>1, <2>2, <3>3
    <3>5. h[m] = h[m - 1] \o seqs[m] /\ g[m] = g[m - 1] \o seqs[m]
      BY <3>2, <3>4
    <3>. QED  BY <3>1, <3>3, <3>4, <3>5
  <2>. QED  BY <2>1, <2>2
<1>5. S = Nat
  <2>1. S \in SUBSET Nat
    OBVIOUS
  <2>. HIDE DEF S
  <2>. QED  BY <1>3, <1>4, <2>1, SetInduction
<1>6. n - 1 \in Nat /\ n - 1 + 1 = n /\ n \in 1 .. n
  OBVIOUS
<1>7. h[n] = g[n]
  <2>1. n - 1 \in S
    BY <1>5, <1>6
  <2>. QED  BY <1>6, <2>1
<1>. QED  BY <1>1, <1>7

\* The bytes of the stream after the a first ones, up to the b first.
Span(a, b) == [i \in 1 .. b - a |-> a + i]

LEMMA SpansJoin ==
    ASSUME NEW a \in Nat, NEW b \in Nat, NEW c \in Nat, a <= b, b <= c
    PROVE  Span(a, b) \o Span(b, c) = Span(a, c)
<1>. DEFINE s == Span(a, b)
            t == Span(b, c)
            u == Span(a, c)
<1>1. s \in Seq(Nat) /\ Len(s) = b - a /\ \A i \in 1 .. b - a : s[i] = a + i
  BY DEF Span
<1>2. t \in Seq(Nat) /\ Len(t) = c - b /\ \A i \in 1 .. c - b : t[i] = b + i
  BY DEF Span
<1>3. u \in Seq(Nat) /\ Len(u) = c - a /\ \A i \in 1 .. c - a : u[i] = a + i
  BY DEF Span
<1>. HIDE DEF s, t, u
<1>. DEFINE w == s \o t
<1>4. /\ w \in Seq(Nat) /\ Len(w) = Len(s) + Len(t)
      /\ \A i \in 1 .. Len(s) : w[i] = s[i]
      /\ \A i \in 1 .. Len(t) : w[Len(s) + i] = t[i]
  <2>1. s \in Seq(Nat) /\ t \in Seq(Nat)
    BY <1>1, <1>2
  <2>. QED  BY ONLY <2>1, Joined
<1>. HIDE DEF w
<1>5. Len(w) = c - a
  BY <1>1, <1>2, <1>4
<1>6. ASSUME NEW i \in 1 .. c - a PROVE w[i] = u[i]
  <2>1. CASE i <= b - a
    <3>1. i \in 1 .. b - a
      BY <2>1
    <3>. QED  BY <1>1, <1>3, <1>4, <3>1
  <2>2. CASE i > b - a
    <3>1. PICK m \in 1 .. c - b : (b - a) + m = i /\ b + m = a + i
      <4>1. i - (b - a) \in 1 .. c - b /\ (b - a) + (i - (b - a)) = i /\ b + (i - (b - a)) = a + i
        BY <2>2
      <4>. QED  BY <4>1
    <3>2. w[i] = t[m]
      BY <1>1, <1>2, <1>4, <3>1
    <3>. QED  BY <1>2, <1>3, <3>1, <3>2
  <2>. QED  BY <2>1, <2>2
<1>7. w = u
  BY <1>3, <1>4, <1>5, <1>6, SameSequence
<1>. QED  BY <1>7 DEF s, t, u, w

LEMMA EmptySpan == ASSUME NEW a \in Nat PROVE Span(a, a) = <<>>
<1>1. a - a = 0
  OBVIOUS
<1>. QED  BY <1>1 DEF Span

\* A chain leads forward.
LEMMA ChainForward ==
    ASSUME NEW H, NEW S, NEW rs \in Seq(S), NEW p, NEW h, Chain(H, rs, p, h)
    PROVE  \A i \in 0 .. Len(rs) : p[i] \in Nat /\ p[0] <= p[i]
<1>. DEFINE n == Len(rs)
            F == {k \in Nat : k \in 0 .. n => p[0] <= p[k]}
<1>1. n \in Nat /\ p \in [0 .. n -> Nat] /\ \A i \in 1 .. n : p[i - 1] <= p[i]
  <2>1. n \in Nat
    OBVIOUS
  <2>2. p \in [0 .. n -> Nat]
    BY DEF Chain
  <2>3. \A i \in 1 .. n : Link(H, rs[i], p[i - 1], p[i], h[i - 1], h[i])
    BY DEF Chain
  <2>4. \A i \in 1 .. n : p[i - 1] <= p[i]
    BY <2>3 DEF Link
  <2>. QED  BY <2>1, <2>2, <2>4
<1>. HIDE DEF n
<1>2. 0 \in 0 .. n /\ p[0] \in Nat
  BY <1>1
<1>3. 0 \in F
  BY <1>2
<1>4. ASSUME NEW k \in F PROVE k + 1 \in F
  <2>1. ASSUME k + 1 \in 0 .. n PROVE p[0] <= p[k + 1]
    <3>1. PICK m : m = k + 1
      OBVIOUS
    <3>2. m \in 1 .. n /\ m - 1 = k /\ k \in 0 .. n /\ m \in 0 .. n
      BY <1>1, <2>1, <3>1
    <3>3. p[k] <= p[m] /\ p[0] <= p[k] /\ p[k] \in Nat /\ p[m] \in Nat
      BY <1>1, <3>2
    <3>. QED  BY <1>2, <3>1, <3>3
  <2>. QED  BY <2>1
<1>5. F = Nat
  <2>1. F \in SUBSET Nat
    OBVIOUS
  <2>. HIDE DEF F
  <2>. QED  BY <1>3, <1>4, <2>1, SetInduction
<1>6. \A i \in 0 .. n : p[i] \in Nat /\ p[0] <= p[i]
  <2>. TAKE i \in 0 .. n
  <2>1. i \in Nat
    BY <1>1
  <2>2. i \in F
    BY ONLY <1>5, <2>1
  <2>. QED  BY <1>1, <2>2
<1>. QED  BY <1>6 DEF n

LEMMA HalfOfUnit ==
    ASSUME NEW u \in Nat \ {0}
    PROVE  LET i == (u + 1) \div 2
           IN  /\ i \in Nat \ {0}
               /\ u % 2 = 1 => u \div 2 = i - 1
               /\ u % 2 # 1 => u \div 2 = i
OBVIOUS

\* What the units of a chain carry.
LEMMA CarriedByChain ==
    ASSUME NEW H, NEW S, NEW rs \in Seq(S), NEW p, NEW h, Chain(H, rs, p, h)
    PROVE  Carried(UnitsOf(rs)) = Span(p[0], p[Len(rs)])
<1>. DEFINE n == Len(rs)
            units == UnitsOf(rs)
            bytes == [u \in DOMAIN units |->
                         IF units[u].part = "header" /\ units[u].of.inner = "ApplicationData"
                         THEN units[u].of.content.bytes ELSE <<>>]
            a == p[0]
            g == [u \in 1 .. 2 * n |-> Span(a, p[(u + 1) \div 2])]
<1>1. n \in Nat /\ \A i \in 0 .. n : p[i] \in Nat /\ a <= p[i]
  BY ChainForward
<1>2. units = [u \in 1 .. 2 * n |->
                  [part |-> IF u % 2 = 1 THEN "header" ELSE "body", of |-> rs[(u + 1) \div 2]]]
  BY DEF UnitsOf
<1>3. DOMAIN bytes = 1 .. 2 * n /\ Len(bytes) = 2 * n
  BY <1>1, <1>2
<1>4. ASSUME NEW i \in 1 .. n
      PROVE  /\ i - 1 \in 0 .. n /\ i \in 0 .. n /\ p[i - 1] <= p[i]
             /\ (IF rs[i].inner = "ApplicationData" THEN rs[i].content.bytes ELSE <<>>)
                   = Span(p[i - 1], p[i])
  <2>1. i - 1 \in 0 .. n /\ i \in 0 .. n
    BY <1>1
  <2>2. PICK b, c : b = p[i - 1] /\ c = p[i] /\ b \in Nat /\ c \in Nat
    BY <1>1, <2>1
  <2>3. Link(H, rs[i], b, c, h[i - 1], h[i])
    BY <2>2 DEF Chain
  <2>4. CASE rs[i].inner = "ApplicationData"
    BY <2>1, <2>2, <2>3, <2>4 DEF Link, Span
  <2>5. CASE rs[i].inner # "ApplicationData"
    <3>1. b = c
      BY <2>3, <2>5 DEF Link
    <3>. QED  BY <2>1, <2>2, <2>5, <3>1, EmptySpan
  <2>. QED  BY <2>4, <2>5
<1>5. ASSUME NEW u \in 1 .. 2 * n
      PROVE  g[u] = IF u = 1 THEN bytes[u] ELSE g[u - 1] \o bytes[u]
  <2>1. PICK i : i = (u + 1) \div 2
    OBVIOUS
  <2>2. /\ i \in 1 .. n /\ i \in Nat \ {0}
        /\ u % 2 = 1 => u \div 2 = i - 1
        /\ u % 2 # 1 => u \div 2 = i
    <3>1. u \in Nat \ {0} /\ u <= 2 * n
      BY <1>1
    <3>2. i <= n
      BY <1>1, <2>1, <3>1
    <3>. QED  BY <1>1, <2>1, <3>1, <3>2, HalfOfUnit
  <2>3. g[u] = Span(a, p[i])
    BY <2>1
  <2>4. bytes[u] = IF u % 2 = 1 THEN Span(p[i - 1], p[i]) ELSE <<>>
    <3>1. bytes[u] = IF u % 2 = 1 /\ rs[i].inner = "ApplicationData" THEN rs[i].content.bytes ELSE <<>>
      BY <1>2, <1>3, <2>1
    <3>. QED  BY <1>4, <2>2, <3>1
  <2>5. CASE u = 1
    <3>1. i = 1 /\ u % 2 = 1 /\ i - 1 = 0
      BY <2>1, <2>5
    <3>. QED  BY <2>3, <2>4, <2>5, <3>1
  <2>6. CASE u # 1
    <3>1. u - 1 \in 1 .. 2 * n /\ u - 1 + 1 = u
      BY <1>1, <2>6
    <3>2. g[u - 1] = Span(a, p[u \div 2])
      BY <3>1
    <3>3. CASE u % 2 = 1
      <4>1. Span(a, p[i - 1]) \o Span(p[i - 1], p[i]) = Span(a, p[i])
        <5>1. /\ a \in Nat /\ p[i - 1] \in Nat /\ p[i] \in Nat
              /\ a <= p[i - 1] /\ p[i - 1] <= p[i]
          BY <1>1, <1>4, <2>2
        <5>. QED  BY ONLY <5>1, SpansJoin
      <4>2. g[u - 1] = Span(a, p[i - 1]) /\ bytes[u] = Span(p[i - 1], p[i])
        BY <2>2, <2>4, <3>2, <3>3
      <4>. QED  BY <2>3, <2>6, <4>1, <4>2
    <3>4. CASE u % 2 # 1
      <4>1. g[u - 1] = Span(a, p[i]) /\ bytes[u] = <<>>
        BY <2>2, <2>4, <3>2, <3>4
      <4>2. Span(a, p[i]) \o <<>> = Span(a, p[i])
        <5>1. p[i] \in Nat /\ a \in Nat /\ a <= p[i]
          <6>1. i \in 0 .. n /\ 0 \in 0 .. n
            BY <1>1, <2>2
          <6>2. \A k \in 0 .. n : p[k] \in Nat /\ a <= p[k]
            BY <1>1
          <6>3. p[i] \in Nat /\ a <= p[i]
            BY ONLY <6>1, <6>2
          <6>4. a \in Nat
            BY ONLY <6>1, <6>2
          <6>. QED  BY ONLY <6>3, <6>4
        <5>2. PICK b \in Nat, c \in Nat : b = a /\ c = p[i] /\ b <= c
          BY ONLY <5>1
        <5>3. c <= c
          BY ONLY <5>2
        <5>4. Span(b, c) \o Span(c, c) = Span(b, c)
          BY ONLY <5>2, <5>3, SpansJoin
        <5>5. Span(c, c) = <<>>
          BY ONLY <5>2, EmptySpan
        <5>. QED  BY ONLY <5>2, <5>4, <5>5
      <4>. QED  BY <2>3, <2>6, <4>1, <4>2
    <3>. QED  BY <3>3, <3>4
  <2>. QED  BY <2>5, <2>6
<1>6. Carried(units) = FlattenSeq(bytes)
  BY DEF Carried
<1>. HIDE DEF bytes, units
<1>7. CASE n = 0
  <2>1. bytes = <<>>
    BY <1>3, <1>7
  <2>2. FlattenSeq(bytes) = <<>>
    BY <2>1 DEF FlattenSeq
  <2>. QED  BY <1>1, <1>6, <1>7, <2>2, EmptySpan DEF units
<1>8. CASE n > 0
  <2>1. Joins(bytes, g)
    <3>1. g = [u \in 1 .. 2 * n |-> g[u]]
      OBVIOUS
    <3>. HIDE DEF g
    <3>. QED  BY <1>3, <1>5, <3>1 DEF Joins
  <2>2. Len(bytes) \in Nat \ {0}
    BY <1>1, <1>3, <1>8
  <2>3. FlattenSeq(bytes) = g[2 * n]
    <3>. HIDE DEF g
    <3>. QED  BY <1>3, <2>1, <2>2, Flattened
  <2>4. 2 * n \in 1 .. 2 * n /\ (2 * n + 1) \div 2 = n
    BY <1>1, <1>8
  <2>5. g[2 * n] = Span(a, p[n])
    BY <2>4
  <2>. QED  BY <1>6, <2>3, <2>5 DEF units
<1>. QED  BY <1>1, <1>7, <1>8

LEMMA NoneIsLost ==
    ASSUME StreamInv, st # "err"
    PROVE  LET received == IF input # <<>> /\ input[1].part = "body"
                           THEN <<[input[1] EXCEPT !.part = "header"]>> \o input ELSE input
           IN  got \o data \o Carried(received \o toClient) = sent
<1>1. /\ sent = FirstBytes(Len(sent)) /\ Len(sent) \in Nat
      /\ got \o data = FirstBytes(Len(got) + Len(data))
      /\ Len(got) + Len(data) \in Nat /\ Len(got) + Len(data) <= Len(sent)
  BY DEF StreamInv, InOrder
<1>2. \E x \in Nat : InFlight(HelloHalves, input, toClient, Len(got) + Len(data), Len(sent), x, HellosSent)
  BY DEF StreamInv, ToCome
<1>3. PICK a, b : a = Len(got) + Len(data) /\ b = Len(sent)
  OBVIOUS
<1>4. PICK x, S, rs, p, h : Flown(HelloHalves, S, rs, p, h, input, toClient, a, b, x, HellosSent)
  BY <1>2, <1>3 DEF InFlight
<1>5. /\ rs \in Seq(S) /\ input \in Seq(UnitIn(S)) /\ toClient \in Seq(UnitIn(S))
      /\ input \o toClient = UnitsOf(rs) /\ Chain(HelloHalves, rs, p, h)
      /\ p[0] = a /\ p[Len(rs)] = b
  BY <1>4 DEF Flown
<1>6. Carried(input \o toClient) = Span(a, b)
  BY <1>5, CarriedByChain
<1>7. input # <<>> => input[1].part = "header"
  <2>1. SUFFICES ASSUME input # <<>> PROVE input[1].part = "header"
    OBVIOUS
  <2>2. Len(input) \in Nat /\ 1 \in 1 .. Len(input) /\ Len(toClient) \in Nat
    BY <1>5, <2>1
  <2>3. UnitsOf(rs)[1] = input[1] /\ Len(UnitsOf(rs)) = Len(input) + Len(toClient)
    BY ONLY <1>5, <2>2, Joined
  <2>4. 1 \in 1 .. 2 * Len(rs) /\ 1 % 2 = 1
    <3>1. Len(rs) \in Nat /\ Len(UnitsOf(rs)) = 2 * Len(rs)
      BY <1>5 DEF UnitsOf
    <3>. QED  BY <2>2, <2>3, <3>1
  <2>5. UnitsOf(rs)[1].part = "header"
    BY <2>4 DEF UnitsOf
  <2>. QED  BY <2>3, <2>5
<1>8. Span(0, a) \o Span(a, b) = Span(0, b)
  <2>1. 0 \in Nat /\ a \in Nat /\ b \in Nat /\ 0 <= a /\ a <= b
    BY <1>1, <1>3
  <2>. QED  BY ONLY <2>1, SpansJoin
<1>9. ASSUME NEW n \in Nat PROVE Span(0, n) = FirstBytes(n)
  <2>1. n - 0 = n /\ \A i \in 1 .. n : 0 + i = i
    OBVIOUS
  <2>. QED  BY <2>1 DEF Span, FirstBytes
<1>10. Span(0, a) = got \o data /\ Span(0, b) = sent
  BY <1>1, <1>3, <1>9
<1>11. got \o data \o Carried(input \o toClient) = sent
  BY <1>6, <1>8, <1>10
<1>. QED  BY <1>7, <1>11

-----------------------------------------------------------------------------
\* The types, and how far the counters go.
TypesInv ==
    /\ pc \in {"start", "handshake", "refused", "open"}
    /\ reader \in {"reads", "eof", "failed", "panicked"}
    /\ processing \in BOOLEAN
    /\ Len(hs) <= 1
    /\ written \in Nat /\ stalled \in Nat /\ server.posts \in Nat
    /\ written + stalled + server.posts <= MaxSteps
    /\ Len(sent) <= 2 * server.posts

LEMMA RestIsShort == ASSUME NEW buffer PROVE Len(Rest(buffer)) <= 1
BY DEF Rest

LEMMA TypesByClient ==
    ASSUME TypesInv, Client \/ UNCHANGED vars
    PROVE  TypesInv'
<1>1. UNCHANGED <<written, stalled, server, sent>>
  BY DEF Client, Start, HandshakeRead, PollReadTls, HandshakeProcessed, ProcessNewPackets,
         DiscardCcs, ReceiveData, ReceiveHandshake, ReceiveAlert, RefuseRecord, HandleServerHello,
         HandleEncryptedExtensions, HandleCertificate, HandleCertificateVerify, HandleFinished,
         HandleTicket, HandleKeyUpdate, RefuseHandshake, Handle, PollProcessed, PollRead,
         Received, Fail, vars, app, external
<1>2. Len(hs') <= 1
  <2>1. CASE ReceiveHandshake
    BY <2>1, RestIsShort DEF ReceiveHandshake
  <2>2. CASE ~ReceiveHandshake
    <3>1. hs' = hs
      BY <2>2 DEF Client, Start, HandshakeRead, PollReadTls, HandshakeProcessed, ProcessNewPackets,
         DiscardCcs, ReceiveData, ReceiveAlert, RefuseRecord, HandleServerHello,
         HandleEncryptedExtensions, HandleCertificate, HandleCertificateVerify, HandleFinished,
         HandleTicket, HandleKeyUpdate, RefuseHandshake, Handle, PollProcessed, PollRead,
         Received, Fail, vars, connection
    <3>. QED  BY <3>1 DEF TypesInv
  <2>. QED  BY <2>1, <2>2
<1>3. /\ pc' \in {"start", "handshake", "refused", "open"}
      /\ reader' \in {"reads", "eof", "failed", "panicked"}
      /\ processing' \in BOOLEAN
  <2>1. CASE Start \/ HandshakeProcessed \/ PollProcessed \/ UNCHANGED vars
    BY <2>1 DEF TypesInv, Start, HandshakeProcessed, PollProcessed, vars, app, connection
  <2>2. CASE \E n \in 0 .. Len(toClient) : HandshakeRead(n) \/ PollReadTls(n)
    <3>1. PICK n \in 0 .. Len(toClient) : HandshakeRead(n) \/ PollReadTls(n)
      BY <2>2
    <3>2. CASE HandshakeRead(n)
      BY <3>2 DEF TypesInv, HandshakeRead, app
    <3>3. CASE PollReadTls(n)
      <4>1. processing' = (n > 0)
        BY <3>3 DEF PollReadTls
      <4>2. processing' \in BOOLEAN
        <5>1. CASE n > 0
          BY ONLY <4>1, <5>1
        <5>2. CASE ~(n > 0)
          BY ONLY <4>1, <5>2
        <5>. QED  BY ONLY <5>1, <5>2
      <4>. QED  BY <3>3, <4>2 DEF TypesInv, PollReadTls
    <3>. QED  BY <3>1, <3>2, <3>3
  <2>3. CASE \E n \in 0 .. Len(data) : PollRead(n)
    BY <2>3 DEF TypesInv, PollRead
  <2>4. CASE DiscardCcs \/ ReceiveData \/ ReceiveHandshake \/ ReceiveAlert
    BY <2>4 DEF TypesInv, DiscardCcs, ReceiveData, ReceiveHandshake, ReceiveAlert, app
  <2>5. CASE RefuseRecord \/ RefuseHandshake
    BY <2>5 DEF TypesInv, RefuseRecord, RefuseHandshake, Fail
  <2>6. CASE \/ HandleServerHello \/ HandleEncryptedExtensions \/ HandleCertificate
             \/ HandleCertificateVerify \/ HandleFinished \/ HandleTicket \/ HandleKeyUpdate
    BY <2>6 DEF TypesInv, HandleServerHello, HandleEncryptedExtensions, HandleCertificate,
       HandleCertificateVerify, HandleFinished, HandleTicket, HandleKeyUpdate, Handle, app
  <2>. QED  BY <2>1, <2>2, <2>3, <2>4, <2>5, <2>6 DEF Client, ProcessNewPackets
<1>. QED  BY <1>1, <1>2, <1>3 DEF TypesInv

LEMMA TypesByWrite ==
    ASSUME TypesInv, Write
    PROVE  TypesInv'
<1>1. /\ UNCHANGED <<pc, reader, processing, hs, server, sent>>
      /\ written + stalled + server.posts < MaxSteps
      /\ \/ written' = written + 1 /\ stalled' = stalled
         \/ written' = written /\ stalled' = stalled + 1
  BY DEF Write, PollWrite, PollWriteFails, StepsTaken, external
<1>2. written \in Nat /\ stalled \in Nat /\ server.posts \in Nat /\ MaxSteps \in Nat
  BY TlsAssumption DEF TypesInv
<1>3. /\ written' \in Nat /\ stalled' \in Nat
      /\ written' + stalled' + server.posts <= MaxSteps
  BY <1>1, <1>2
<1>4. server' = server /\ sent' = sent
  BY <1>1
<1>. QED  BY <1>1, <1>2, <1>3, <1>4 DEF TypesInv

LEMMA TypesByServer ==
    ASSUME TypesInv, StreamInv, ServerHandshake \/ ServerReceives \/ ServerPosts
    PROVE  TypesInv'
<1>1. UNCHANGED <<pc, reader, processing, hs, written, stalled>>
  BY DEF ServerHandshake, ServerAnswers, ServerSendsHandshake, ServerStartsFlight, ServerEndsFlight,
         ServerReceives, ServerPosts, ServerSendsData, ServerSendsTicket, ServerUpdatesKey, ServerCloses,
         app, connection
<1>2. DOMAIN server = ServerFields /\ server = [f \in ServerFields |-> server[f]]
  BY DEF StreamInv, ServerInv
<1>3. CASE ServerHandshake \/ (\E notified \in BOOLEAN : ServerCloses(notified))
  <2>1. sent' = sent /\ server'.posts = server.posts
    BY <1>2, <1>3 DEF ServerHandshake, ServerAnswers, ServerSendsHandshake, ServerStartsFlight,
       ServerEndsFlight, ServerCloses, ServerFields
  <2>. QED  BY <1>1, <2>1 DEF TypesInv
<1>4. CASE ServerSendsTicket \/ (\E request \in BOOLEAN : ServerUpdatesKey(request))
  <2>1. /\ sent' = sent /\ server'.posts = server.posts + 1
        /\ written + stalled + server.posts < MaxSteps
    BY <1>2, <1>4 DEF ServerSendsTicket, ServerUpdatesKey, ServerFields, StepsTaken
  <2>. QED  BY <1>1, <2>1, TlsAssumption DEF TypesInv
<1>5. CASE \E n \in {1, 2} : ServerSendsData(n)
  <2>1. PICK n \in {1, 2} : ServerSendsData(n)
    BY <1>5
  <2>2. server'.posts = server.posts + 1 /\ written + stalled + server.posts < MaxSteps
    BY <1>2, <2>1 DEF ServerSendsData, ServerFields, StepsTaken
  <2>3. Len(sent') = Len(sent) + n
    BY <2>1, SendsDataKeeps
  <2>4. Len(sent) \in Nat
    BY DEF StreamInv, InOrder
  <2>. QED  BY <1>1, <2>2, <2>3, <2>4, TlsAssumption DEF TypesInv
<1>6. CASE ServerReceives
  <2>1. PICK after : /\ after = IF WholeRecord(toServer) THEN ServerAccepts(toServer[1].of)
                                                        ELSE [server EXCEPT !.phase = "failed"]
                     /\ server' = [after EXCEPT !.closed = after.phase = "failed"]
                     /\ sent' = sent
    BY <1>6 DEF ServerReceives
  <2>2. after.posts = server.posts /\ DOMAIN after = ServerFields
    <3>1. CASE WholeRecord(toServer)
      <4>1. PICK r : r = toServer[1].of /\ after = ServerAccepts(r)
        BY <2>1, <3>1
      <4>2. PICK k, b, a, u : /\ k = Fresh(Derived("c ap traffic", ServerTranscript(Len(cfg.flight) + 1)))
                              /\ b = server.got \o r.content.bytes
                              /\ a = Advanced(server.recv) /\ u = Updated(server.recv)
        OBVIOUS
      <4>3. after \in {[server EXCEPT !.phase = "failed"],
                       [server EXCEPT !.got = b, !.recv = a],
                       [server EXCEPT !.phase = "open", !.recv = k],
                       [server EXCEPT !.recv = u]}
        BY <4>1, <4>2 DEF ServerAccepts
      <4>. QED  BY <1>2, <4>3 DEF ServerFields
    <3>2. CASE ~WholeRecord(toServer)
      BY <1>2, <2>1, <3>2 DEF ServerFields
    <3>. QED  BY <3>1, <3>2
  <2>3. server'.posts = server.posts
    BY <2>1, <2>2 DEF ServerFields
  <2>. QED  BY <1>1, <2>1, <2>3 DEF TypesInv
<1>. QED  BY <1>3, <1>4, <1>5, <1>6 DEF ServerPosts

LEMMA InitialTypes ==
    ASSUME Init
    PROVE  TypesInv
<1>1. Len(<<>>) = 0 /\ 0 <= MaxSteps
  BY TlsAssumption
<1>2. pc = "start" /\ reader = "reads" /\ processing = FALSE /\ hs = <<>> /\ sent = <<>>
  BY DEF Init
<1>3. written = 0 /\ stalled = 0 /\ server.posts = 0
  BY DEF Init
<1>4. written + stalled + server.posts <= MaxSteps /\ Len(sent) <= 2 * server.posts
  BY <1>1, <1>2, <1>3
<1>5. /\ pc \in {"start", "handshake", "refused", "open"}
      /\ reader \in {"reads", "eof", "failed", "panicked"}
      /\ processing \in BOOLEAN
  BY <1>2
<1>6. Len(hs) <= 1 /\ written \in Nat /\ stalled \in Nat /\ server.posts \in Nat
  <2>1. Len(hs) = 0
    BY <1>1, <1>2
  <2>. QED  BY <1>3, <2>1
<1>. QED  BY <1>4, <1>5, <1>6 DEF TypesInv

LEMMA BytesBelow ==
    ASSUME NEW n \in Nat, NEW m \in Nat, n <= m, NEW s \in Seq(Nat),
           \A i \in 1 .. Len(s) : s[i] <= n /\ s[i] >= 1
    PROVE  {s[i] : i \in DOMAIN s} \subseteq 1 .. m
<1>1. ASSUME NEW i \in DOMAIN s PROVE s[i] \in 1 .. m
  <2>1. i \in 1 .. Len(s) /\ s[i] \in Nat
    OBVIOUS
  <2>2. PICK b \in Nat : b = s[i] /\ b <= n /\ b >= 1
    BY <2>1
  <2>3. b \in 1 .. m
    BY ONLY <2>2, m \in Nat, n \in Nat, n <= m
  <2>. QED  BY <2>2, <2>3
<1>. QED  BY <1>1

LEMMA TypesAreOK ==
    ASSUME TypesInv, StreamInv, StagesInv
    PROVE  TypeOK
<1>1. /\ sent \in Seq(Nat) /\ got \in Seq(Nat) /\ data \in Seq(Nat)
      /\ sent = FirstBytes(Len(sent))
      /\ got \o data = FirstBytes(Len(got) + Len(data))
      /\ Len(got) + Len(data) <= Len(sent)
  BY DEF StreamInv, InOrder
<1>2. PICK n, a, m : n = Len(sent) /\ a = Len(got) + Len(data) /\ m = 2 * MaxSteps
  OBVIOUS
<1>3. n \in Nat /\ a \in Nat /\ m \in Nat /\ a <= n
  BY <1>1, <1>2, TlsAssumption
<1>4. n <= m
  <2>1. server.posts \in Nat /\ server.posts <= MaxSteps /\ MaxSteps \in Nat
    BY TlsAssumption DEF TypesInv
  <2>. QED  BY <1>2, <1>3, <2>1 DEF TypesInv
<1>5. ASSUME NEW k \in Nat PROVE \A i \in 1 .. k : FirstBytes(k)[i] = i
  BY DEF FirstBytes
<1>6. \A i \in 1 .. Len(sent) : sent[i] <= n /\ sent[i] >= 1
  <2>1. \A i \in 1 .. n : FirstBytes(n)[i] = i
    BY <1>3, <1>5
  <2>2. sent = FirstBytes(n)
    BY <1>1, <1>2
  <2>3. \A i \in 1 .. n : sent[i] = i
    BY ONLY <2>1, <2>2
  <2>. QED  BY <1>2, <1>3, <2>3
<1>7. /\ \A i \in 1 .. Len(got) : got[i] <= n /\ got[i] >= 1
      /\ \A i \in 1 .. Len(data) : data[i] <= n /\ data[i] >= 1
  <2>1. /\ \A i \in 1 .. Len(got) : (got \o data)[i] = got[i]
        /\ \A i \in 1 .. Len(data) : (got \o data)[Len(got) + i] = data[i]
    BY ONLY <1>1, Joined
  <2>2. \A i \in 1 .. a : (got \o data)[i] = i
    BY <1>1, <1>2, <1>3, <1>5
  <2>3. Len(got) \in Nat /\ Len(data) \in Nat
    BY <1>1
  <2>4. ASSUME NEW i \in 1 .. Len(got) PROVE got[i] = i /\ i <= n /\ i >= 1
    <3>1. i \in 1 .. a /\ i <= n
      BY <1>2, <1>3, <2>3
    <3>. QED  BY <2>1, <2>2, <3>1
  <2>5. ASSUME NEW i \in 1 .. Len(data) PROVE data[i] = Len(got) + i /\ Len(got) + i <= n /\ Len(got) + i >= 1
    <3>1. Len(got) + i \in 1 .. a /\ Len(got) + i <= n
      BY <1>2, <1>3, <2>3
    <3>. QED  BY <2>1, <2>2, <3>1
  <2>. QED  BY <2>4, <2>5
<1>8. {sent[i] : i \in DOMAIN sent} \subseteq 1 .. m
  BY ONLY <1>1, <1>3, <1>4, <1>6, BytesBelow
<1>9. {got[i] : i \in DOMAIN got} \subseteq 1 .. m
  BY ONLY <1>1, <1>3, <1>4, <1>7, BytesBelow
<1>10. {data[i] : i \in DOMAIN data} \subseteq 1 .. m
  BY ONLY <1>1, <1>3, <1>4, <1>7, BytesBelow
<1>11. st \in {"Start", "WaitServerHello", "WaitEncryptedExtensions", "WaitCertificate",
               "WaitCertificateVerify", "WaitFinished", "Connected", "err"}
  BY DEF StagesInv, HandshakeStates
<1>12. StepsTaken \in 0 .. MaxSteps
  <2>1. /\ written \in Nat /\ stalled \in Nat /\ server.posts \in Nat /\ MaxSteps \in Nat
        /\ written + stalled + server.posts <= MaxSteps
    BY TlsAssumption DEF TypesInv
  <2>. QED  BY <2>1 DEF StepsTaken
<1>. QED  BY <1>2, <1>8, <1>9, <1>10, <1>11, <1>12 DEF TypeOK, TypesInv

\* The bytes the server's application sent are those that the application
\* read, then those that wait in the data buffer, in the input buffer and in
\* the socket, whatever the cuts of records and the changes of key: none is
\* lost, doubled or moved (Receiver::process_new_packets, Connection::read,
\* poll_read).
THEOREM NothingIsLost == Spec => []StreamIntact
<1>1. Init => StreamInv /\ TypesInv
  BY InitialStream, InitialTypes
<1>2. StreamInv /\ NonceInv /\ TypesInv /\ [Next]_vars => StreamInv' /\ TypesInv'
  <2>1. SUFFICES ASSUME StreamInv, NonceInv, TypesInv, [Next]_vars
                 PROVE  StreamInv' /\ TypesInv'
    OBVIOUS
  <2>2. StreamInv'
    BY <2>1, StreamStep, StreamStutter DEF NonceInv
  <2>3. TypesInv'
    BY <2>1, TypesByClient, TypesByWrite, TypesByServer DEF Next
  <2>. QED  BY <2>2, <2>3
<1>3. StreamInv /\ NonceInv /\ TypesInv => StreamIntact
  BY TypesAreOK, NoneIsLost DEF NonceInv, StreamIntact
<1>. QED  BY <1>1, <1>2, <1>3, Invariant, PTL DEF Spec
=============================================================================
