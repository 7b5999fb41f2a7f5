--------------------------- MODULE PrekeysProofs ---------------------------
(***************************************************************************)
(* Proofs about Prekeys, for every number of peers, prekeys, openings and  *)
(* stops: an ephemeral prekey is in one place at a time on its way from    *)
(* the owner's upload to the opening that uses it, and is stored by the    *)
(* owner all the way; so every opening succeeds.                           *)
(***************************************************************************)
EXTENDS Prekeys, FiniteSetTheorems, TLAPS

\* The prekeys that openings carry, and those in the peers' hands.
KeysIn(s) == {s[i].key : i \in DOMAIN s} \ {0}
KeysHeld == {bundle[p].key : p \in Peers} \ {0}

\* The prekeys made for an upload that has not reached the server.
Uploading == IF pc \in {"midterm", "uploading"} THEN fresh ELSE {}

\* No two openings, no two bundles with the same prekey.
UniqueIn(s) == \A i, j \in DOMAIN s : s[i].key = s[j].key => i = j \/ s[i].key = 0
UniqueHeld == \A p, q \in Peers : bundle[p].key = bundle[q].key => p = q \/ bundle[p].key = 0

\* The owner stores each prekey on its way, and no prekey is in two places.
PlacesStored ==
  /\ available \subseteq stored
  /\ Uploading \subseteq stored
  /\ KeysHeld \subseteq stored
  /\ KeysIn(inbox) \subseteq stored
  /\ KeysIn(batch) \subseteq stored

PlacesDisjoint ==
  /\ available \cap (Uploading \cup KeysHeld \cup KeysIn(inbox) \cup KeysIn(batch)) = {}
  /\ Uploading \cap (KeysHeld \cup KeysIn(inbox) \cup KeysIn(batch)) = {}
  /\ KeysHeld \cap (KeysIn(inbox) \cup KeysIn(batch)) = {}
  /\ KeysIn(inbox) \cap KeysIn(batch) = {}

Unique == UniqueHeld /\ UniqueIn(inbox) /\ UniqueIn(batch)

\* Whatever was made with a midterm key was made with the one the owner has.
MidtermKnown ==
  /\ signed # 0 => midterm = 1
  /\ \A p \in Peers : bundle[p] # NoBundle => bundle[p].mid = 1 /\ midterm = 1
  /\ \A i \in DOMAIN inbox : inbox[i].mid = 1 /\ midterm = 1
  /\ \A i \in DOMAIN batch : batch[i].mid = 1 /\ midterm = 1

IInv ==
  /\ TypeOK
  /\ stored \subseteq 1 .. made
  /\ taken <= openings
  /\ PlacesStored
  /\ PlacesDisjoint
  /\ Unique
  /\ MidtermKnown
  /\ OpeningsSucceed

-----------------------------------------------------------------------------
(* Sequences of openings.                                                  *)

LEMMA KeysInEmpty == KeysIn(<<>>) = {} /\ UniqueIn(<<>>)
  BY DEF KeysIn, UniqueIn

\* An opening at the end adds its prekey.
LEMMA KeysInAppend ==
  ASSUME NEW s \in Seq(Opening), NEW o \in Opening
  PROVE  /\ KeysIn(Append(s, o)) = KeysIn(s) \cup ({o.key} \ {0})
         /\ UniqueIn(s) /\ o.key \notin KeysIn(s) => UniqueIn(Append(s, o))
<1> DEFINE t == Append(s, o)
<1>1. /\ Len(s) \in Nat /\ DOMAIN s = 1 .. Len(s)
      /\ t \in Seq(Opening) /\ DOMAIN t = 1 .. Len(s) + 1
      /\ \A i \in 1 .. Len(s) : t[i] = s[i]
      /\ t[Len(s) + 1] = o
  OBVIOUS
<1> HIDE DEF t
<1>2. KeysIn(t) = KeysIn(s) \cup ({o.key} \ {0})
  BY <1>1 DEF KeysIn
<1>3. ASSUME UniqueIn(s), o.key \notin KeysIn(s) PROVE UniqueIn(t)
  BY <1>1, <1>3 DEF KeysIn, UniqueIn
<1> QED BY <1>2, <1>3 DEF t

\* To take the first opening takes its prekey, and no other.
LEMMA KeysInTail ==
  ASSUME NEW s \in Seq(Opening), s # <<>>, UniqueIn(s)
  PROVE  /\ Head(s) \in Opening /\ Tail(s) \in Seq(Opening)
         /\ Head(s).key # 0 => Head(s).key \in KeysIn(s)
         /\ KeysIn(Tail(s)) = KeysIn(s) \ {Head(s).key}
         /\ UniqueIn(Tail(s))
         /\ \A i \in DOMAIN Tail(s) : \E j \in DOMAIN s : Tail(s)[i] = s[j]
         /\ \E j \in DOMAIN s : Head(s) = s[j]
<1> DEFINE t == Tail(s)
<1>1. /\ Len(s) \in Nat \ {0} /\ DOMAIN s = 1 .. Len(s)
      /\ t \in Seq(Opening) /\ DOMAIN t = 1 .. Len(s) - 1
      /\ \A i \in 1 .. Len(s) - 1 : t[i] = s[i + 1]
      /\ Head(s) = s[1] /\ 1 \in DOMAIN s /\ Head(s) \in Opening
  OBVIOUS
<1> HIDE DEF t
<1>2. \A i \in DOMAIN t : i + 1 \in DOMAIN s /\ t[i] = s[i + 1] /\ i + 1 # 1
  BY <1>1
<1>3. \A j \in DOMAIN s : j = 1 \/ (j - 1 \in DOMAIN t /\ t[j - 1] = s[j])
  BY <1>1
<1>4. UniqueIn(t)
  BY <1>1, <1>2 DEF UniqueIn
<1>5. Head(s).key # 0 => Head(s).key \in KeysIn(s)
  BY <1>1 DEF KeysIn
<1>6. KeysIn(t) = KeysIn(s) \ {Head(s).key}
  <2>1. ASSUME NEW k \in KeysIn(t) PROVE k \in KeysIn(s) /\ k # Head(s).key
    BY <1>1, <1>2 DEF KeysIn, UniqueIn
  <2>2. ASSUME NEW k \in KeysIn(s), k # Head(s).key PROVE k \in KeysIn(t)
    BY <1>1, <1>3, <2>2 DEF KeysIn
  <2> QED BY <2>1, <2>2
<1> QED BY <1>1, <1>2, <1>4, <1>5, <1>6 DEF t

\* The number of prekeys to upload is a natural number.
LEMMA ToUploadType == TypeOK => ToUpload \in Nat
<1> SUFFICES ASSUME TypeOK PROVE ToUpload \in Nat
  OBVIOUS
<1>1. MaxKeys \in Nat /\ MinPrekeys \in Nat /\ Limit \in Nat
  BY PrekeysAssumption
<1>2. IsFiniteSet(Prekey) /\ status \in SUBSET Prekey
  BY <1>1, FS_Interval DEF Prekey, TypeOK
<1>3. Cardinality(status) \in Nat
  BY <1>2, FS_Subset, FS_CardinalityType
<1> QED BY <1>1, <1>3 DEF ToUpload, Missing

-----------------------------------------------------------------------------
(* Each action preserves the invariant.                                    *)

LEMMA InitInv == Init => IInv
<1> SUFFICES ASSUME Init PROVE IInv
  OBVIOUS
<1> USE PrekeysAssumption DEF Init
<1>1. TypeOK
  <2>1. NoBundle \in Bundle
    BY DEF Bundle, NoBundle
  <2>2. <<>> \in Seq(Opening)
    OBVIOUS
  <2>3. bundle \in [Peers -> Bundle]
    BY <2>1
  <2>4. inbox \in Seq(Opening) /\ batch \in Seq(Opening)
    BY <2>2
  <2>5. /\ 0 \in 0 .. MaxKeys /\ 0 \in 0 .. MaxOpenings /\ 0 \in 0 .. MaxStops
        /\ 0 \in 0 .. 1
    OBVIOUS
  <2> QED BY <2>3, <2>4, <2>5 DEF TypeOK
<1>2. Uploading = {} /\ KeysHeld = {} /\ UniqueHeld
  BY DEF Uploading, KeysHeld, UniqueHeld, NoBundle
<1>3. MidtermKnown
  BY DEF MidtermKnown, NoBundle
<1> QED
  BY <1>1, <1>2, <1>3, KeysInEmpty
  DEF IInv, PlacesStored, PlacesDisjoint, Unique, OpeningsSucceed

\* The steps that make no prekey, consume none, and only take some out of their
\* places.
LEMMA ShrinkInv ==
  ASSUME IInv, TypeOK', stored' = stored, made' = made, failed' = failed,
         taken' <= openings',
         available' \subseteq available,
         Uploading' \subseteq Uploading,
         KeysHeld' \subseteq KeysHeld,
         KeysIn(inbox)' \subseteq KeysIn(inbox),
         KeysIn(batch)' \subseteq KeysIn(batch),
         Unique', MidtermKnown'
  PROVE  IInv'
<1>1. PlacesStored' /\ PlacesDisjoint'
  BY DEF IInv, PlacesStored, PlacesDisjoint
<1> QED BY <1>1 DEF IInv, OpeningsSucceed

\* The steps of the owner that touch no prekey.
LEMMA OwnerInv ==
  ASSUME IInv,
         \/ Register \/ ServerRegister \/ SaveAccount \/ SetMidterm \/ UploadDone
         \/ Load \/ PreKeyStatus \/ RemoveUnknown \/ OpeningsDone
  PROVE  IInv'
<1> USE DEF Register, ServerRegister, SaveAccount, SetMidterm, UploadDone, Load,
            PreKeyStatus, RemoveUnknown, OpeningsDone, Continue, serverVars
<1>1. /\ UNCHANGED <<stored, made, batch, failed, signed, inbox, bundle, openings>>
      /\ available' \subseteq available
      /\ midterm' \in {midterm, 1}
      /\ taken' \in {taken, 0}
  BY DEF IInv, TypeOK
<1>2. TypeOK'
  <2>1. /\ pc' \in {"registering", "saving", "generate", "uploading", "initial", "up",
                    "status", "remove"}
        /\ phase' \in {"create", "first", "final"}
        /\ account' \in BOOLEAN /\ registered' \in BOOLEAN
        /\ fresh' \in {fresh, {}} /\ status' \in {status, available}
        /\ UNCHANGED stops
    BY DEF IInv, TypeOK
  <2> QED BY <1>1, <2>1, PrekeysAssumption DEF IInv, TypeOK
<1>3. Uploading' \subseteq Uploading
  BY DEF Uploading, IInv, TypeOK
<1>4. KeysHeld' = KeysHeld /\ KeysIn(inbox)' = KeysIn(inbox) /\ KeysIn(batch)' = KeysIn(batch)
  BY <1>1 DEF KeysHeld, KeysIn
<1>5. Unique'
  BY <1>1 DEF IInv, Unique, UniqueHeld, UniqueIn
<1>6. MidtermKnown'
  BY <1>1 DEF IInv, MidtermKnown
<1>7. taken' <= openings'
  BY <1>1 DEF IInv, TypeOK
<1> QED BY <1>1, <1>2, <1>3, <1>4, <1>5, <1>6, <1>7, ShrinkInv

\* A stop forgets the batch and the upload.
LEMMA StopInv == ASSUME IInv, Stop PROVE IInv'
<1> USE DEF Stop, serverVars
<1>1. /\ UNCHANGED <<stored, made, failed, available, signed, midterm, inbox, bundle,
                    openings, taken>>
      /\ batch' = <<>> /\ fresh' = {} /\ pc' \in {"down", "none"}
  OBVIOUS
<1>2. TypeOK'
  <2>1. batch' \in Seq(Opening) /\ stops' \in 0 .. MaxStops
    BY PrekeysAssumption DEF IInv, TypeOK
  <2> QED BY <1>1, <2>1 DEF IInv, TypeOK
<1>3. Uploading' = {} /\ KeysHeld' = KeysHeld /\ KeysIn(inbox)' = KeysIn(inbox)
  BY <1>1 DEF Uploading, KeysHeld, KeysIn
<1>4. KeysIn(batch)' = {} /\ UniqueIn(batch)' /\ DOMAIN batch' = {}
  BY <1>1 DEF KeysIn, UniqueIn
<1>5. Unique'
  BY <1>1, <1>4 DEF IInv, Unique, UniqueHeld, UniqueIn
<1>6. MidtermKnown'
  BY <1>1, <1>4 DEF IInv, MidtermKnown
<1>7. taken' <= openings'
  BY <1>1 DEF IInv
<1> QED BY <1>1, <1>2, <1>3, <1>4, <1>5, <1>6, <1>7, ShrinkInv

\* New prekeys are in one place, the upload, and stored.
LEMMA GenerateInv == ASSUME IInv, Generate PROVE IInv'
<1>1. /\ pc = "generate" /\ made + ToUpload <= MaxKeys
      /\ UNCHANGED <<account, midterm, status, batch, failed, serverVars, bundle, taken,
                     openings, stops>>
  BY DEF Generate
<1>2. made \in Nat /\ ToUpload \in Nat /\ made + ToUpload \in 0 .. MaxKeys
  BY <1>1, ToUploadType, PrekeysAssumption DEF IInv, TypeOK
<1>3. KeysHeld' = KeysHeld /\ KeysIn(inbox)' = KeysIn(inbox) /\ KeysIn(batch)' = KeysIn(batch)
  BY <1>1 DEF KeysHeld, KeysIn, serverVars
<1>4. Unique'
  BY <1>1 DEF IInv, Unique, UniqueHeld, UniqueIn, serverVars
<1>5. MidtermKnown'
  BY <1>1 DEF IInv, MidtermKnown, serverVars
<1>6. Uploading = {}
  BY <1>1 DEF Uploading
<1>7. CASE ToUpload = 0 /\ phase # "create"
  <2>1. UNCHANGED <<stored, fresh, made>> /\ pc' \in {"initial", "up"} /\ phase' = phase
    BY <1>7 DEF Generate, Continue, IInv, TypeOK
  <2>2. TypeOK'
    BY <1>1, <2>1 DEF IInv, TypeOK, serverVars
  <2>3. Uploading' = {}
    BY <2>1 DEF Uploading
  <2>4. taken' <= openings'
    BY <1>1 DEF IInv
  <2> QED BY <1>1, <1>3, <1>4, <1>5, <2>1, <2>2, <2>3, <2>4, ShrinkInv DEF serverVars
<1>8. CASE ~(ToUpload = 0 /\ phase # "create")
  <2>1. /\ fresh' = NewKeys /\ stored' = stored \cup NewKeys /\ made' = made + ToUpload
        /\ pc' \in {"midterm", "uploading"} /\ phase' = phase
    BY <1>8 DEF Generate
  <2>2. /\ NewKeys \subseteq Prekey
        /\ NewKeys \subseteq 1 .. made + ToUpload
        /\ 1 .. made \subseteq 1 .. made + ToUpload
        /\ NewKeys \cap 1 .. made = {}
    BY <1>2, PrekeysAssumption DEF NewKeys, Prekey
  <2>3. TypeOK'
    BY <1>1, <1>2, <2>1, <2>2 DEF IInv, TypeOK, serverVars
  <2>4. Uploading' = NewKeys
    BY <2>1 DEF Uploading
  <2>5. NewKeys \cap stored = {} /\ stored' \subseteq 1 .. made'
    BY <2>1, <2>2 DEF IInv
  <2>6. available' = available
    BY <1>1 DEF serverVars
  <2>7. PlacesStored'
    BY <1>3, <2>1, <2>4, <2>6 DEF IInv, PlacesStored
  <2>8. PlacesDisjoint'
    BY <1>3, <1>6, <2>4, <2>5, <2>6 DEF IInv, PlacesStored, PlacesDisjoint
  <2> QED
    BY <1>1, <1>4, <1>5, <2>3, <2>5, <2>7, <2>8 DEF IInv, OpeningsSucceed
<1> QED BY <1>7, <1>8

\* The upload's prekeys become the server's.
LEMMA UploadInv == ASSUME IInv, ServerUpload PROVE IInv'
<1> USE DEF ServerUpload
<1>1. UNCHANGED <<phase, account, stored, midterm, fresh, status, made, batch, failed,
                  registered, inbox, bundle, taken, openings, stops>>
  OBVIOUS
<1>2. Uploading = fresh /\ Uploading' = {}
  BY DEF Uploading
<1>3. available' \subseteq available \cup Uploading /\ signed' \in {midterm, signed}
  BY <1>2
<1>4. TypeOK'
  <2>1. pc' = "uploaded"
    OBVIOUS
  <2>2. available' \subseteq Prekey /\ signed' \in 0 .. 1
    BY <1>2, <1>3 DEF IInv, TypeOK
  <2> QED BY <1>1, <2>1, <2>2 DEF IInv, TypeOK
<1>5. KeysHeld' = KeysHeld /\ KeysIn(inbox)' = KeysIn(inbox) /\ KeysIn(batch)' = KeysIn(batch)
  BY <1>1 DEF KeysHeld, KeysIn
<1>6. Unique'
  BY <1>1 DEF IInv, Unique, UniqueHeld, UniqueIn
<1>7. MidtermKnown'
  BY <1>1, <1>3 DEF IInv, MidtermKnown, TypeOK
<1>8. PlacesStored' /\ PlacesDisjoint'
  BY <1>1, <1>2, <1>3, <1>5 DEF IInv, PlacesStored, PlacesDisjoint
<1> QED BY <1>1, <1>4, <1>6, <1>7, <1>8 DEF IInv, OpeningsSucceed

\* The openings are fetched together.
LEMMA FetchInv == ASSUME IInv, FetchOpenings PROVE IInv'
<1> USE DEF FetchOpenings
<1>1. /\ UNCHANGED <<pc, phase, account, stored, midterm, fresh, status, made, failed,
                     registered, available, signed, bundle, taken, openings, stops>>
      /\ batch = <<>> /\ batch' = inbox /\ inbox' = <<>>
  OBVIOUS
<1>2. TypeOK'
  <2>1. inbox' \in Seq(Opening) /\ batch' \in Seq(Opening)
    BY <1>1 DEF IInv, TypeOK
  <2> QED BY <1>1, <2>1 DEF IInv, TypeOK
<1>3. /\ Uploading' = Uploading /\ KeysHeld' = KeysHeld
      /\ KeysIn(batch)' = KeysIn(inbox) /\ KeysIn(inbox)' = {} /\ DOMAIN inbox' = {}
  BY <1>1 DEF Uploading, KeysHeld, KeysIn
<1>4. Unique'
  BY <1>1, <1>3 DEF IInv, Unique, UniqueHeld, UniqueIn
<1>5. MidtermKnown'
  BY <1>1, <1>3 DEF IInv, MidtermKnown
<1>6. PlacesStored' /\ PlacesDisjoint'
  BY <1>1, <1>3 DEF IInv, PlacesStored, PlacesDisjoint
<1> QED BY <1>1, <1>2, <1>4, <1>5, <1>6 DEF IInv, OpeningsSucceed

\* An opening whose prekey is in no other place consumes it.
LEMMA OpenInv ==
  ASSUME IInv, NEW o \in Opening, OpenWith(o), TypeOK',
         o.key = 0 \/ o.key \in stored, o.mid = midterm,
         made' = made, taken' <= openings', available' = available,
         Uploading' = Uploading, KeysHeld' = KeysHeld,
         KeysIn(inbox)' \cup KeysIn(batch)' =
           (KeysIn(inbox) \cup KeysIn(batch)) \ {o.key},
         KeysIn(inbox)' \subseteq KeysIn(inbox),
         KeysIn(batch)' \subseteq KeysIn(batch),
         o.key = 0 \/ o.key \in KeysIn(inbox) \cup KeysIn(batch),
         Unique', MidtermKnown'
  PROVE  IInv'
<1>1. stored' = stored \ {o.key} /\ failed' = failed
  BY DEF OpenWith
<1>2. 0 \notin stored
  BY DEF IInv, TypeOK, Prekey
<1>3. /\ o.key \notin available /\ o.key \notin Uploading /\ o.key \notin KeysHeld
      /\ o.key \notin KeysIn(inbox)' /\ o.key \notin KeysIn(batch)'
  BY <1>2 DEF IInv, PlacesStored, PlacesDisjoint
<1>4. PlacesStored' /\ PlacesDisjoint'
  BY <1>1, <1>3 DEF IInv, PlacesStored, PlacesDisjoint
<1> QED BY <1>1, <1>4 DEF IInv, OpeningsSucceed

LEMMA HandleFetchedInv == ASSUME IInv, HandleFetched PROVE IInv'
<1> DEFINE o == Head(batch)
<1>1. /\ UNCHANGED <<pc, phase, account, midterm, fresh, status, made, serverVars, bundle,
                     taken, openings, stops>>
      /\ batch # <<>> /\ batch' = Tail(batch) /\ OpenWith(o)
  BY DEF HandleFetched
<1>2. batch \in Seq(Opening) /\ UniqueIn(batch)
  BY DEF IInv, TypeOK, Unique
<1>3. /\ o \in Opening /\ batch' \in Seq(Opening) /\ UniqueIn(batch)'
      /\ o.key # 0 => o.key \in KeysIn(batch)
      /\ KeysIn(batch)' = KeysIn(batch) \ {o.key}
      /\ \A i \in DOMAIN batch' : \E j \in DOMAIN batch : batch'[i] = batch[j]
      /\ \E j \in DOMAIN batch : o = batch[j]
  <2> DEFINE t == Tail(batch)
  <2>1. /\ o \in Opening /\ t \in Seq(Opening) /\ UniqueIn(t)
        /\ o.key # 0 => o.key \in KeysIn(batch)
        /\ KeysIn(t) = KeysIn(batch) \ {o.key}
        /\ \A i \in DOMAIN t : \E j \in DOMAIN batch : t[i] = batch[j]
        /\ \E j \in DOMAIN batch : o = batch[j]
    BY <1>1, <1>2, KeysInTail
  <2>2. batch' = t
    BY <1>1
  <2> HIDE DEF t, o
  <2> QED BY <2>1, <2>2 DEF KeysIn, UniqueIn
<1>4. o.mid = midterm /\ (o.key = 0 \/ o.key \in stored)
  BY <1>3 DEF IInv, MidtermKnown, PlacesStored
<1>5. stored' \subseteq stored /\ failed' = failed
  BY <1>1, <1>4 DEF OpenWith
<1>6. TypeOK'
  BY <1>1, <1>3, <1>5 DEF IInv, TypeOK, serverVars
<1>7. KeysIn(inbox)' = KeysIn(inbox) /\ KeysHeld' = KeysHeld /\ Uploading' = Uploading
  BY <1>1 DEF KeysIn, KeysHeld, Uploading, serverVars
<1>8. o.key \notin KeysIn(inbox)
  BY <1>3 DEF IInv, PlacesDisjoint, KeysIn
<1>9. Unique'
  BY <1>1, <1>3 DEF IInv, Unique, UniqueHeld, UniqueIn, serverVars
<1>10. MidtermKnown'
  BY <1>1, <1>3 DEF IInv, MidtermKnown, serverVars
<1>11. taken' <= openings' /\ available' = available
  BY <1>1 DEF IInv, serverVars
<1> HIDE DEF o
<1> QED
  BY <1>1, <1>3, <1>4, <1>6, <1>7, <1>8, <1>9, <1>10, <1>11, OpenInv

LEMMA HandleRelayedInv == ASSUME IInv, HandleRelayed PROVE IInv'
<1> DEFINE o == Head(inbox)
<1>1. /\ UNCHANGED <<pc, phase, account, midterm, fresh, status, made, batch, registered,
                     available, signed, bundle, taken, openings, stops>>
      /\ inbox # <<>> /\ inbox' = Tail(inbox) /\ OpenWith(o)
  BY DEF HandleRelayed
<1>2. inbox \in Seq(Opening) /\ UniqueIn(inbox)
  BY DEF IInv, TypeOK, Unique
<1>3. /\ o \in Opening /\ inbox' \in Seq(Opening) /\ UniqueIn(inbox)'
      /\ o.key # 0 => o.key \in KeysIn(inbox)
      /\ KeysIn(inbox)' = KeysIn(inbox) \ {o.key}
      /\ \A i \in DOMAIN inbox' : \E j \in DOMAIN inbox : inbox'[i] = inbox[j]
      /\ \E j \in DOMAIN inbox : o = inbox[j]
  <2> DEFINE t == Tail(inbox)
  <2>1. /\ o \in Opening /\ t \in Seq(Opening) /\ UniqueIn(t)
        /\ o.key # 0 => o.key \in KeysIn(inbox)
        /\ KeysIn(t) = KeysIn(inbox) \ {o.key}
        /\ \A i \in DOMAIN t : \E j \in DOMAIN inbox : t[i] = inbox[j]
        /\ \E j \in DOMAIN inbox : o = inbox[j]
    BY <1>1, <1>2, KeysInTail
  <2>2. inbox' = t
    BY <1>1
  <2> HIDE DEF t, o
  <2> QED BY <2>1, <2>2 DEF KeysIn, UniqueIn
<1>4. o.mid = midterm /\ (o.key = 0 \/ o.key \in stored)
  BY <1>3 DEF IInv, MidtermKnown, PlacesStored
<1>5. stored' \subseteq stored /\ failed' = failed
  BY <1>1, <1>4 DEF OpenWith
<1>6. TypeOK'
  BY <1>1, <1>3, <1>5 DEF IInv, TypeOK
<1>7. KeysIn(batch)' = KeysIn(batch) /\ KeysHeld' = KeysHeld /\ Uploading' = Uploading
  BY <1>1 DEF KeysIn, KeysHeld, Uploading
<1>8. o.key \notin KeysIn(batch)
  BY <1>3 DEF IInv, PlacesDisjoint, KeysIn
<1>9. Unique'
  BY <1>1, <1>3 DEF IInv, Unique, UniqueHeld, UniqueIn
<1>10. MidtermKnown'
  BY <1>1, <1>3 DEF IInv, MidtermKnown
<1>11. taken' <= openings' /\ available' = available
  BY <1>1 DEF IInv
<1> HIDE DEF o
<1> QED
  BY <1>1, <1>3, <1>4, <1>6, <1>7, <1>8, <1>9, <1>10, <1>11, OpenInv

\* The server hands out a prekey: from the server to the peer's hands.
LEMMA BundleInv == ASSUME IInv, NEW p \in Peers, RequestBundle(p) PROVE IInv'
<1>1. PICK k \in IF available = {} THEN {0} ELSE available :
        /\ bundle' = [bundle EXCEPT ![p] = [mid |-> signed, key |-> k]]
        /\ available' = available \ {k}
        /\ taken' = IF k = 0 THEN taken ELSE taken + 1
  BY DEF RequestBundle
<1>2. /\ UNCHANGED <<ownerVars, registered, signed, inbox, stops>>
      /\ signed # 0 /\ bundle[p] = NoBundle
      /\ openings < MaxOpenings /\ openings' = openings + 1
  BY DEF RequestBundle
<1>3. /\ k = 0 \/ k \in available
      /\ k \in 0 .. MaxKeys
      /\ signed = 1 /\ midterm = 1
  BY <1>2, PrekeysAssumption DEF IInv, TypeOK, MidtermKnown, Prekey
<1>4. /\ bundle \in [Peers -> Bundle] /\ bundle' \in [Peers -> Bundle]
      /\ bundle'[p] = [mid |-> 1, key |-> k]
      /\ bundle'[p].key = k /\ bundle'[p].mid = 1
      /\ \A q \in Peers : q # p => bundle'[q] = bundle[q]
      /\ bundle[p].key = 0
  BY <1>1, <1>2, <1>3 DEF IInv, TypeOK, Bundle, NoBundle
<1>5. taken' \in 0 .. MaxOpenings /\ openings' \in 0 .. MaxOpenings /\ taken' <= openings'
  BY <1>1, <1>2, PrekeysAssumption DEF IInv, TypeOK
<1>6. TypeOK'
  BY <1>1, <1>2, <1>4, <1>5 DEF IInv, TypeOK, ownerVars
<1>7. KeysHeld' = KeysHeld \cup ({k} \ {0})
  BY <1>4 DEF KeysHeld
<1>8. /\ Uploading' = Uploading /\ stored' = stored /\ made' = made /\ failed' = failed
      /\ KeysIn(inbox)' = KeysIn(inbox) /\ KeysIn(batch)' = KeysIn(batch)
  BY <1>2 DEF Uploading, KeysIn, ownerVars
<1>9. UniqueHeld'
  <2>1. \A q \in Peers : q # p => bundle[q].key = 0 \/ bundle[q].key # k
    <3> SUFFICES ASSUME NEW q \in Peers, bundle[q].key # 0, bundle[q].key = k
                 PROVE  FALSE
      OBVIOUS
    <3>1. k \in KeysHeld /\ k \in available
      BY <1>3 DEF KeysHeld
    <3> QED BY <3>1 DEF IInv, PlacesDisjoint
  <2> QED BY <1>4, <2>1 DEF IInv, Unique, UniqueHeld
<1>10. Unique'
  BY <1>2, <1>9 DEF IInv, Unique, UniqueIn, ownerVars
<1>11. MidtermKnown'
  BY <1>2, <1>3, <1>4 DEF IInv, MidtermKnown, ownerVars
<1>12. PlacesStored' /\ PlacesDisjoint'
  BY <1>1, <1>3, <1>7, <1>8 DEF IInv, PlacesStored, PlacesDisjoint
<1> QED BY <1>5, <1>6, <1>8, <1>10, <1>11, <1>12 DEF IInv, OpeningsSucceed

\* What is in the hands of the other peers, once p has nothing left in its own.
LEMMA ReleaseHeld ==
  ASSUME IInv, NEW p \in Peers, bundle' = [bundle EXCEPT ![p] = NoBundle]
  PROVE  /\ KeysHeld' = KeysHeld \ {bundle[p].key}
         /\ UniqueHeld'
         /\ \A q \in Peers : bundle'[q] # NoBundle => bundle'[q] = bundle[q]
         /\ bundle' \in [Peers -> Bundle]
<1>0. NoBundle \in Bundle /\ NoBundle.key = 0
  BY PrekeysAssumption DEF Bundle, NoBundle
<1>1. /\ bundle \in [Peers -> Bundle] /\ bundle' \in [Peers -> Bundle]
      /\ bundle'[p] = NoBundle /\ bundle'[p].key = 0
      /\ \A q \in Peers : q # p => bundle'[q] = bundle[q]
  BY <1>0 DEF IInv, TypeOK
<1>2. KeysHeld' = KeysHeld \ {bundle[p].key}
  <2>1. ASSUME NEW k \in KeysHeld' PROVE k \in KeysHeld /\ k # bundle[p].key
    <3>1. PICK q \in Peers : k = bundle'[q].key /\ k # 0
      BY DEF KeysHeld
    <3>2. q # p /\ k = bundle[q].key
      BY <1>1, <3>1
    <3> QED BY <3>1, <3>2 DEF KeysHeld, IInv, Unique, UniqueHeld
  <2>2. ASSUME NEW k \in KeysHeld, k # bundle[p].key PROVE k \in KeysHeld'
    BY <1>1, <2>2 DEF KeysHeld
  <2> QED BY <2>1, <2>2
<1>3. UniqueHeld'
  BY <1>1 DEF IInv, Unique, UniqueHeld
<1> QED BY <1>1, <1>2, <1>3

\* The opening takes the prekey of the bundle with it.
LEMMA SendInv == ASSUME IInv, NEW p \in Peers, SendOpening(p) PROVE IInv'
<1> DEFINE o == [from |-> p, mid |-> bundle[p].mid, key |-> bundle[p].key]
<1>1. /\ bundle[p] # NoBundle
      /\ inbox' = Append(inbox, o)
      /\ bundle' = [bundle EXCEPT ![p] = NoBundle]
      /\ UNCHANGED <<ownerVars, registered, available, signed, taken, openings, stops>>
  BY DEF SendOpening
<1>2. /\ bundle[p] \in Bundle /\ o \in Opening /\ inbox \in Seq(Opening)
      /\ o.key = bundle[p].key /\ o.mid = 1 /\ midterm = 1
      /\ o.key # 0 => o.key \in KeysHeld
  BY <1>1 DEF IInv, TypeOK, MidtermKnown, Bundle, Opening, KeysHeld
<1> HIDE DEF o
<1>3. /\ KeysHeld' = KeysHeld \ {o.key}
      /\ UniqueHeld'
      /\ \A q \in Peers : bundle'[q] # NoBundle => bundle'[q] = bundle[q]
      /\ bundle' \in [Peers -> Bundle]
  BY <1>1, <1>2, ReleaseHeld
<1>4. 0 \notin KeysIn(inbox) /\ o.key \notin KeysIn(inbox)
  BY <1>2 DEF IInv, PlacesDisjoint, KeysIn
<1>5. /\ KeysIn(inbox)' = KeysIn(inbox) \cup ({o.key} \ {0})
      /\ UniqueIn(inbox)'
  <2> DEFINE t == Append(inbox, o)
  <2>1. KeysIn(t) = KeysIn(inbox) \cup ({o.key} \ {0}) /\ UniqueIn(t)
    BY <1>2, <1>4, KeysInAppend DEF IInv, Unique
  <2>2. inbox' = t
    BY <1>1
  <2> HIDE DEF t
  <2> QED BY <2>1, <2>2 DEF KeysIn, UniqueIn
<1>6. inbox' \in Seq(Opening) /\ \A i \in DOMAIN inbox' : inbox'[i] = o \/ (i \in DOMAIN inbox /\ inbox'[i] = inbox[i])
  BY <1>1, <1>2
<1>7. TypeOK'
  BY <1>1, <1>3, <1>6 DEF IInv, TypeOK, ownerVars
<1>8. /\ Uploading' = Uploading /\ stored' = stored /\ made' = made /\ failed' = failed
      /\ KeysIn(batch)' = KeysIn(batch) /\ available' = available
  BY <1>1 DEF Uploading, KeysIn, ownerVars
<1>9. Unique'
  BY <1>1, <1>3, <1>5 DEF IInv, Unique, UniqueIn, ownerVars
<1>10. MidtermKnown'
  BY <1>1, <1>2, <1>3, <1>6 DEF IInv, MidtermKnown, ownerVars
<1>11. PlacesStored' /\ PlacesDisjoint'
  <2> DEFINE K == {o.key} \ {0}
  <2>1. K \subseteq KeysHeld /\ KeysHeld' \cap K = {} /\ KeysHeld' \subseteq KeysHeld
    BY <1>2, <1>3
  <2>2. KeysIn(inbox)' = KeysIn(inbox) \cup K
    BY <1>5
  <2> HIDE DEF K
  <2>3. PlacesStored'
    BY <1>8, <2>1, <2>2 DEF IInv, PlacesStored
  <2>4. PlacesDisjoint'
    BY <1>8, <2>1, <2>2 DEF IInv, PlacesDisjoint
  <2> QED BY <2>3, <2>4
<1>12. taken' <= openings'
  BY <1>1 DEF IInv
<1> QED BY <1>7, <1>8, <1>9, <1>10, <1>11, <1>12 DEF IInv, OpeningsSucceed

LEMMA DropInv == ASSUME IInv, NEW p \in Peers, DropBundle(p) PROVE IInv'
<1>1. /\ bundle' = [bundle EXCEPT ![p] = NoBundle]
      /\ UNCHANGED <<ownerVars, serverVars, taken, openings, stops>>
  BY DEF DropBundle
<1>2. /\ KeysHeld' \subseteq KeysHeld
      /\ UniqueHeld'
      /\ \A q \in Peers : bundle'[q] # NoBundle => bundle'[q] = bundle[q]
      /\ bundle' \in [Peers -> Bundle]
  BY <1>1, ReleaseHeld
<1>3. TypeOK'
  BY <1>1, <1>2 DEF IInv, TypeOK, ownerVars, serverVars
<1>4. /\ Uploading' = Uploading
      /\ KeysIn(inbox)' = KeysIn(inbox) /\ KeysIn(batch)' = KeysIn(batch)
  BY <1>1 DEF Uploading, KeysIn, ownerVars, serverVars
<1>5. Unique'
  BY <1>1, <1>2 DEF IInv, Unique, UniqueIn, ownerVars, serverVars
<1>6. MidtermKnown'
  BY <1>1, <1>2 DEF IInv, MidtermKnown, ownerVars, serverVars
<1>7. /\ taken' <= openings'
      /\ UNCHANGED <<stored, made, failed, available>>
  BY <1>1 DEF IInv, ownerVars, serverVars
<1> QED BY <1>2, <1>3, <1>4, <1>5, <1>6, <1>7, ShrinkInv

-----------------------------------------------------------------------------

LEMMA StutterInv == ASSUME IInv, UNCHANGED vars PROVE IInv'
<1>1. /\ UNCHANGED <<ownerVars, serverVars, bundle, taken, openings, stops>>
  BY DEF vars
<1> USE DEF ownerVars, serverVars
<1>2. TypeOK'
  BY <1>1 DEF IInv, TypeOK
<1>3. /\ Uploading' = Uploading /\ KeysHeld' = KeysHeld
      /\ KeysIn(inbox)' = KeysIn(inbox) /\ KeysIn(batch)' = KeysIn(batch)
  BY <1>1 DEF Uploading, KeysHeld, KeysIn
<1>4. Unique'
  BY <1>1 DEF IInv, Unique, UniqueHeld, UniqueIn
<1>5. MidtermKnown'
  BY <1>1 DEF IInv, MidtermKnown
<1>6. taken' <= openings' /\ UNCHANGED <<stored, made, failed, available>>
  BY <1>1 DEF IInv
<1> QED BY <1>2, <1>3, <1>4, <1>5, <1>6, ShrinkInv

LEMMA StepInv == IInv /\ [Next]_vars => IInv'
<1> SUFFICES ASSUME IInv, [Next]_vars PROVE IInv'
  OBVIOUS
<1>1. CASE \/ Register \/ ServerRegister \/ SaveAccount \/ SetMidterm \/ UploadDone
           \/ Load \/ PreKeyStatus \/ RemoveUnknown \/ OpeningsDone
  BY <1>1, OwnerInv
<1>2. CASE Generate
  BY <1>2, GenerateInv
<1>3. CASE ServerUpload
  BY <1>3, UploadInv
<1>4. CASE FetchOpenings
  BY <1>4, FetchInv
<1>5. CASE HandleFetched
  BY <1>5, HandleFetchedInv
<1>6. CASE HandleRelayed
  BY <1>6, HandleRelayedInv
<1>7. CASE Stop
  BY <1>7, StopInv
<1>8. CASE \E p \in Peers : RequestBundle(p) \/ SendOpening(p) \/ DropBundle(p)
  BY <1>8, BundleInv, SendInv, DropInv
<1>9. CASE UNCHANGED vars
  BY <1>9, StutterInv
<1> QED BY <1>1, <1>2, <1>3, <1>4, <1>5, <1>6, <1>7, <1>8, <1>9 DEF Next

\* The invariant holds whenever the owner stops and whatever its peers do.
THEOREM PrekeysInductive == Spec => []IInv
<1>1. Init => IInv
  BY InitInv
<1>2. IInv /\ [Next]_vars => IInv'
  BY StepInv
<1> QED BY <1>1, <1>2, PTL DEF Spec

\* Every variable keeps its type: prekeys are never 0, the mark of a bundle
\* without one.
THEOREM PrekeysTypeCorrect == Spec => []TypeOK
<1>1. IInv => TypeOK
  BY DEF IInv
<1> QED BY <1>1, PrekeysInductive, PTL

\* For any number of peers, prekeys and stops between any two steps of the owner,
\* no opening fails for want of its prekey or of the midterm key.
THEOREM EveryOpeningSucceeds == Spec => []OpeningsSucceed
<1>1. IInv => OpeningsSucceed
  BY DEF IInv
<1> QED BY <1>1, PrekeysInductive, PTL

\* The server never has a prekey that the owner does not store: PreKeyDelete of
\* sync_prekeys has nothing to delete.
THEOREM ServerOnlyHasStoredKeys == Spec => []ServerKeysStored
<1>1. IInv => ServerKeysStored
  BY DEF IInv, PlacesStored, ServerKeysStored
<1> QED BY <1>1, PrekeysInductive, PTL
-----------------------------------------------------------------------------
(* The count of the server's prekeys. From PreKeyStatus to the upload, each    *)
(* prekey that the server does not have any more was handed out.               *)

Syncing == phase # "create" /\ pc \in {"remove", "generate", "uploading"}

CountInv ==
  /\ pc \in {"status", "remove"} => phase # "create"
  /\ pc = "midterm" => phase = "create"
  /\ Syncing => Cardinality(available) + taken = Cardinality(status)
  /\ pc = "uploading" /\ phase # "create" => Cardinality(fresh) = Missing
  /\ pc \in {"midterm", "uploading"} /\ phase = "create" => Cardinality(fresh) = MinPrekeys
  /\ pc = "uploaded" /\ phase # "create" /\ Limit >= MinPrekeys =>
       Cardinality(available) + taken >= MinPrekeys
  /\ Limit >= MinPrekeys => Cardinality(available) <= Limit

LEMMA CountTypes ==
  TypeOK => /\ IsFiniteSet(available) /\ IsFiniteSet(fresh) /\ IsFiniteSet(status)
            /\ Cardinality(available) \in Nat /\ Cardinality(status) \in Nat
            /\ Cardinality(fresh) \in Nat /\ taken \in Nat
            /\ MinPrekeys \in Nat /\ Limit \in Nat /\ Missing \in Nat /\ made \in Nat
<1> SUFFICES ASSUME TypeOK
             PROVE  /\ IsFiniteSet(available) /\ IsFiniteSet(fresh) /\ IsFiniteSet(status)
                    /\ Cardinality(available) \in Nat /\ Cardinality(status) \in Nat
                    /\ Cardinality(fresh) \in Nat /\ taken \in Nat
                    /\ MinPrekeys \in Nat /\ Limit \in Nat /\ Missing \in Nat /\ made \in Nat
  OBVIOUS
<1>1. IsFiniteSet(Prekey)
  BY PrekeysAssumption, FS_Interval DEF Prekey
<1>2. IsFiniteSet(available) /\ IsFiniteSet(fresh) /\ IsFiniteSet(status)
  BY <1>1, FS_Subset DEF TypeOK
<1>3. /\ Cardinality(available) \in Nat /\ Cardinality(status) \in Nat
      /\ Cardinality(fresh) \in Nat
  BY <1>2, FS_CardinalityType
<1>4. taken \in Nat /\ MinPrekeys \in Nat /\ Limit \in Nat /\ made \in Nat
  BY PrekeysAssumption DEF TypeOK
<1>5. Missing \in Nat
  BY <1>3, <1>4 DEF Missing
<1> QED BY <1>2, <1>3, <1>4, <1>5

\* Generate makes as many prekeys as it is to upload.
LEMMA NewKeysCount ==
  ASSUME TypeOK PROVE Cardinality(NewKeys) = ToUpload
<1>1. made \in Nat /\ ToUpload \in Nat
  BY CountTypes, ToUploadType
<1>2. made + 1 \in Int /\ made + ToUpload \in Int
  BY <1>1
<1>3. Cardinality(NewKeys) = IF made + 1 > made + ToUpload THEN 0
                             ELSE (made + ToUpload) - (made + 1) + 1
  BY <1>2, FS_Interval DEF NewKeys
<1> QED BY <1>1, <1>3

\* The invariant does not see the steps that leave its variables alone.
LEMMA CountFrame ==
  ASSUME IInv, CountInv, UNCHANGED <<pc, phase, available, taken, status, fresh>>
  PROVE  CountInv'
  BY DEF CountInv, Syncing, Missing

\* A prekey that is handed out counts as taken.
LEMMA CountBundle ==
  ASSUME IInv, CountInv, NEW p \in Peers, RequestBundle(p)
  PROVE  CountInv'
<1>1. PICK k \in IF available = {} THEN {0} ELSE available :
        /\ available' = available \ {k}
        /\ taken' = IF k = 0 THEN taken ELSE taken + 1
  BY DEF RequestBundle
<1>2. UNCHANGED <<pc, phase, status, fresh>>
  BY DEF RequestBundle, ownerVars
<1>3. 0 \notin available
  BY DEF IInv, TypeOK, Prekey
<1>4. /\ IsFiniteSet(available) /\ Cardinality(available) \in Nat /\ taken \in Nat
      /\ Cardinality(status) \in Nat /\ MinPrekeys \in Nat /\ Limit \in Nat
  BY CountTypes DEF IInv
<1>5. /\ Cardinality(available') + taken' = Cardinality(available) + taken
      /\ Cardinality(available') <= Cardinality(available)
      /\ Cardinality(available') \in Nat /\ taken' \in Nat
  <2>1. CASE available = {}
    <3>1. available' = available /\ taken' = taken
      BY <1>1, <2>1
    <3> QED BY <1>4, <3>1
  <2>2. CASE available # {}
    <3>1. k \in available /\ k # 0
      BY <1>1, <1>3, <2>2
    <3>2. Cardinality(available \ {k}) = Cardinality(available) - 1 /\ IsFiniteSet(available \ {k})
      BY <1>4, <3>1, FS_RemoveElement
    <3>3. Cardinality(available \ {k}) \in Nat
      BY <3>2, FS_CardinalityType
    <3> QED BY <1>1, <1>4, <3>1, <3>2, <3>3
  <2> QED BY <2>1, <2>2
<1> QED BY <1>2, <1>4, <1>5 DEF CountInv, Syncing, Missing

\* PreKeyStatus starts the count; PreKeyDelete deletes nothing.
LEMMA CountStatus ==
  ASSUME IInv, CountInv, PreKeyStatus \/ RemoveUnknown
  PROVE  CountInv'
<1>1. CASE PreKeyStatus
  <2>1. /\ pc = "status" /\ pc' = "remove" /\ phase' = phase /\ status' = available
        /\ available' = available /\ taken' = 0
    BY <1>1 DEF PreKeyStatus, serverVars
  <2>2. Cardinality(available) \in Nat
    BY CountTypes DEF IInv
  <2> QED BY <2>1, <2>2 DEF CountInv, Syncing
<1>2. CASE RemoveUnknown
  <2>1. /\ pc = "remove" /\ pc' = "generate" /\ UNCHANGED <<phase, status, taken>>
        /\ available' = available \ (status \ stored)
    BY <1>2 DEF RemoveUnknown
  <2>2. available' = available
    BY <2>1 DEF IInv, PlacesStored
  <2> QED BY <2>1, <2>2 DEF CountInv, Syncing
<1> QED BY <1>1, <1>2

\* What is made is what is missing.
LEMMA CountGenerate == ASSUME IInv, CountInv, Generate PROVE CountInv'
<1>1. pc = "generate" /\ UNCHANGED <<status, available, taken>>
  BY DEF Generate, serverVars
<1>2. phase \in {"create", "first", "final"} /\ Missing' = Missing
  BY <1>1 DEF IInv, TypeOK, Missing
<1>3. CASE ToUpload = 0 /\ phase # "create"
  <2>1. pc' \in {"initial", "up"} /\ phase' = phase
    BY <1>2, <1>3 DEF Generate, Continue
  <2> QED BY <1>1, <2>1 DEF CountInv, Syncing
<1>4. CASE ~(ToUpload = 0 /\ phase # "create")
  <2>1. fresh' = NewKeys /\ phase' = phase
        /\ pc' = IF phase = "create" THEN "midterm" ELSE "uploading"
    BY <1>4 DEF Generate
  <2>2. Cardinality(fresh') = ToUpload
    BY <2>1, NewKeysCount DEF IInv
  <2>3. Cardinality(fresh') = IF phase = "create" THEN MinPrekeys ELSE Missing
    BY <2>2 DEF ToUpload
  <2> QED BY <1>1, <1>2, <2>1, <2>3 DEF CountInv, Syncing
<1> QED BY <1>3, <1>4

\* With what was missing, the server has at least min_prekeys, counting those it
\* has handed out since, and at most its limit.
LEMMA CountUpload == ASSUME IInv, CountInv, ServerUpload PROVE CountInv'
<1>1. /\ pc = "uploading" /\ pc' = "uploaded" /\ UNCHANGED <<phase, status, taken, fresh>>
      /\ available' = IF phase = "create" THEN fresh ELSE available \cup fresh
  BY DEF ServerUpload
<1>2. /\ IsFiniteSet(available) /\ IsFiniteSet(fresh)
      /\ Cardinality(available) \in Nat /\ Cardinality(status) \in Nat
      /\ Cardinality(fresh) \in Nat /\ taken \in Nat
      /\ MinPrekeys \in Nat /\ Limit \in Nat
  BY CountTypes DEF IInv
<1>3. CASE phase = "create"
  <2>1. available' = fresh /\ Cardinality(fresh) = MinPrekeys /\ phase' = "create"
    BY <1>1, <1>3 DEF CountInv
  <2> QED BY <1>1, <1>2, <2>1 DEF CountInv, Syncing
<1>4. CASE phase # "create"
  <2>1. available' = available \cup fresh /\ available \cap fresh = {}
    BY <1>1, <1>4 DEF IInv, PlacesDisjoint, Uploading
  <2>2. Cardinality(available') = Cardinality(available) + Cardinality(fresh)
    <3>1. Cardinality(available \cup fresh) =
            Cardinality(available) + Cardinality(fresh) - Cardinality(available \cap fresh)
      BY <1>2, FS_Union
    <3>2. Cardinality(available \cap fresh) = 0
      BY <2>1, FS_EmptySet
    <3>3. Cardinality(available') = Cardinality(available \cup fresh)
      BY <2>1
    <3> QED BY <1>2, <3>1, <3>2, <3>3
  <2>3. Cardinality(available) + taken = Cardinality(status) /\ Cardinality(fresh) = Missing
    BY <1>1, <1>4 DEF CountInv, Syncing
  <2>4. CASE Limit >= MinPrekeys
    <3>1. Cardinality(status) + Missing >= MinPrekeys
      BY <1>2, <2>4 DEF Missing
    <3>2. Cardinality(status) + Missing <= Limit \/ Missing = 0
      BY <1>2, <2>4 DEF Missing
    <3>3. Cardinality(available) <= Limit
      BY <2>4 DEF CountInv
    <3>4. /\ Cardinality(available') + taken >= MinPrekeys
          /\ Cardinality(available') <= Limit
      BY <1>2, <2>2, <2>3, <3>1, <3>2, <3>3
    <3> QED BY <1>1, <1>4, <3>4 DEF CountInv, Syncing
  <2>5. CASE ~(Limit >= MinPrekeys)
    BY <1>1, <1>4, <2>5 DEF CountInv, Syncing
  <2> QED BY <2>4, <2>5
<1> QED BY <1>3, <1>4

\* The other steps of the owner start no synchronization, or have ended it.
LEMMA CountOwner ==
  ASSUME IInv, CountInv,
         \/ Register \/ ServerRegister \/ SaveAccount \/ SetMidterm \/ UploadDone
         \/ Load \/ OpeningsDone \/ Stop
  PROVE  CountInv'
<1> USE DEF serverVars
<1>1. UNCHANGED <<available, taken, status>> /\ Missing' = Missing
  BY DEF Register, ServerRegister, SaveAccount, SetMidterm, UploadDone, Load, OpeningsDone,
         Stop, Missing
<1>2. CASE Register \/ ServerRegister \/ Stop
  <2>1. pc' \in {"registering", "saving", "down", "none"} /\ phase' = phase
    BY <1>2 DEF Register, ServerRegister, Stop
  <2> QED BY <1>1, <2>1 DEF CountInv, Syncing
<1>3. CASE SaveAccount
  <2>1. pc' = "generate" /\ phase' = "create"
    BY <1>3 DEF SaveAccount
  <2> QED BY <1>1, <2>1 DEF CountInv, Syncing
<1>4. CASE SetMidterm
  <2>1. pc = "midterm" /\ pc' = "uploading" /\ UNCHANGED <<phase, fresh>>
    BY <1>4 DEF SetMidterm
  <2>2. phase = "create"
    BY <2>1 DEF CountInv
  <2> QED BY <1>1, <2>1, <2>2 DEF CountInv, Syncing
<1>5. CASE UploadDone
  <2>1. pc' \in {"status", "initial", "up"} /\ phase' \in {"first", "final"}
    BY <1>5 DEF UploadDone, Continue, IInv, TypeOK
  <2> QED BY <1>1, <2>1 DEF CountInv, Syncing
<1>6. CASE Load \/ OpeningsDone
  <2>1. pc' = "status" /\ phase' \in {"first", "final"}
    BY <1>6 DEF Load, OpeningsDone
  <2> QED BY <1>1, <2>1 DEF CountInv, Syncing
<1> QED BY <1>2, <1>3, <1>4, <1>5, <1>6

LEMMA CountStep == IInv /\ CountInv /\ [Next]_vars => CountInv'
<1> SUFFICES ASSUME IInv, CountInv, [Next]_vars PROVE CountInv'
  OBVIOUS
<1>1. CASE \/ Register \/ ServerRegister \/ SaveAccount \/ SetMidterm \/ UploadDone
           \/ Load \/ OpeningsDone \/ Stop
  BY <1>1, CountOwner
<1>2. CASE PreKeyStatus \/ RemoveUnknown
  BY <1>2, CountStatus
<1>3. CASE Generate
  BY <1>3, CountGenerate
<1>4. CASE ServerUpload
  BY <1>4, CountUpload
<1>5. CASE FetchOpenings \/ HandleFetched \/ HandleRelayed
  BY <1>5, CountFrame DEF FetchOpenings, HandleFetched, HandleRelayed, serverVars
<1>6. CASE \E p \in Peers : RequestBundle(p)
  BY <1>6, CountBundle
<1>7. CASE \E p \in Peers : SendOpening(p) \/ DropBundle(p)
  BY <1>7, CountFrame DEF SendOpening, DropBundle, ownerVars, serverVars
<1>8. CASE UNCHANGED vars
  BY <1>8, CountFrame DEF vars, ownerVars, serverVars
<1> QED BY <1>1, <1>2, <1>3, <1>4, <1>5, <1>6, <1>7, <1>8 DEF Next

LEMMA CountInit == Init => CountInv
  BY FS_EmptySet, PrekeysAssumption DEF Init, CountInv, Syncing

\* The client comes up from the final sync_prekeys, after its upload or because it
\* has nothing to upload.
LEMMA UpToppedUp ==
  ASSUME IInv, CountInv, [Next]_vars, pc' = "up", pc # "up", Limit >= MinPrekeys
  PROVE  /\ Cardinality(available') + taken' >= MinPrekeys
         /\ Cardinality(available') <= Limit
<1>1. Generate \/ UploadDone
  BY DEF Next, Register, ServerRegister, SaveAccount, SetMidterm, Load, PreKeyStatus,
         RemoveUnknown, OpeningsDone, Stop, ServerUpload, FetchOpenings, HandleFetched,
         HandleRelayed, RequestBundle, SendOpening, DropBundle, vars, ownerVars
<1>2. UNCHANGED <<available, taken>>
  BY <1>1 DEF Generate, UploadDone, serverVars
<1>3. Cardinality(available) <= Limit
  BY DEF CountInv
<1>4. Cardinality(available) + taken >= MinPrekeys
  <2>1. CASE UploadDone
    <3>1. pc = "uploaded" /\ phase # "create"
      BY <2>1 DEF UploadDone, Continue
    <3> QED BY <3>1 DEF CountInv
  <2>2. CASE Generate
    <3>1. pc = "generate" /\ phase # "create" /\ ToUpload = 0
      BY <2>2 DEF Generate, Continue
    <3>2. Missing = 0 /\ Cardinality(available) + taken = Cardinality(status)
      BY <3>1 DEF ToUpload, CountInv, Syncing
    <3>3. Cardinality(status) \in Nat /\ MinPrekeys \in Nat /\ Limit \in Nat
      BY CountTypes DEF IInv
    <3> QED BY <3>2, <3>3 DEF Missing
  <2> QED BY <1>1, <2>1, <2>2
<1> QED BY <1>2, <1>3, <1>4

\* However often the owner stops on the way and however many prekeys its peers take
\* meanwhile, a client that has synchronized has left the server at least
\* min_prekeys prekeys and at most the server's limit.
THEOREM SyncTopsUp == Spec => ToppedUp
<1> DEFINE A == (pc' = "up" /\ pc # "up" /\ Limit >= MinPrekeys) =>
                  /\ Cardinality(available') + taken' >= MinPrekeys
                  /\ Cardinality(available') <= Limit
<1>1. Init => IInv /\ CountInv
  BY InitInv, CountInit
<1>2. IInv /\ CountInv /\ [Next]_vars => IInv' /\ CountInv'
  BY StepInv, CountStep
<1>3. IInv /\ CountInv /\ [Next]_vars => [A]_vars
  BY UpToppedUp
<1> QED BY <1>1, <1>2, <1>3, PTL DEF Spec, ToppedUp

=============================================================================
