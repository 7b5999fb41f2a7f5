-------------------------------- MODULE Tls --------------------------------
(***************************************************************************)
(* The TLS 1.3 client of lib/sickgnal_insecure_tls: ClientConfig::connect  *)
(* performs the handshake, then a TlsStream is read and written by two     *)
(* tasks that poll it in turns (tokio's split).  A record on the socket is *)
(* two units, its header and its body, so that reads and writes may cut it;*)
(* a handshake message is two halves, so that records may.  Keys are the   *)
(* terms the key schedule computes.  The server and the socket are         *)
(* external.                                                               *)
(***************************************************************************)
EXTENDS TlsMessages, SequencesExt

CONSTANTS
    Servers,      \* what servers may answer: [hello, flight, list, cert, scheme,
                  \*   signed, mac]
    Packings,     \* how many halves of messages a server puts in a record
    ChunkLen,     \* CIPHERTEXT_FRAGMENT_MAX_LEN less the overhead, in bytes
    RekeyLimit,   \* RECORDS_REKEY_LIMIT
    WriteLen,     \* bytes of one write of the application
    MaxSteps      \* bound: polls of a write of the application and records the
                  \*   server sends after its flight, together

ASSUME TlsAssumption ==
    /\ \A s \in Servers :
          s.flight \in Seq({"EncryptedExtensions", "CertificateRequest", "Certificate",
                            "CertificateVerify", "Finished"})
    /\ Packings \subseteq Nat \ {0}
    /\ {ChunkLen, RekeyLimit, WriteLen} \subseteq Nat \ {0}
    /\ MaxSteps \in Nat

VARIABLES
    pc,          \* where connect is; "open" once it returned a TlsStream
    st,          \* Connection.state, "err" for Err(_)
    processing,  \* process_new_packets runs
    input,       \* receiver.input_buffer: units
    data,        \* receiver.data_buffer: bytes
    hs,          \* receiver.hs_deframer.buffer: halves
    decoded,     \* the handshake messages being handled
    dec,         \* receiver.decryption_state
    enc,         \* sender.encryption_state
    output,      \* sender.output_buffer: units
    transcript,  \* the transcript the states carry: names of messages
    got,         \* the bytes the application read
    reader,      \* the reading task: "reads" or how it ended
    written,     \* how many writes of the application returned
    stalled,     \* how many polls of a write found the socket full
    toServer,    \* the socket, towards the server
    toClient,    \* the socket, towards the client
    cfg,         \* the server's answers
    server,      \* the server's connection
    sent         \* the bytes the server's application sent

connection == <<st, processing, input, data, hs, decoded, dec, enc, output, transcript>>
app == <<got, reader, written, stalled>>
external == <<cfg, server, sent>>
vars == <<pc, connection, app, toServer, toClient, external>>

-----------------------------------------------------------------------------
(* Keys, records and units *)

NoKey == [label |-> "none", transcript |-> <<>>, generation |-> 0]

\* derive_secret: a traffic secret is determined by its label and the
\* messages hashed so far.
Derived(label, messages) ==
    [label |-> label, transcript |-> messages, generation |-> 0]

Numbered(key, n) == [key |-> key, sequence_number |-> n]

\* InnerState::new: a new secret starts its sequence numbers over.
Fresh(key) == Numbered(key, 0)

\* perform_key_update of an InnerState.
Updated(state) == Fresh([state.key EXCEPT !.generation = @ + 1])

Disabled == Fresh(NoKey)
Enabled(state) == state.key # NoKey

\* EncryptionState::encrypt: the type of an encrypted record is hidden.
Sealed(state, typ, content) ==
    [header |-> "valid",
     typ |-> IF Enabled(state) THEN "ApplicationData" ELSE typ,
     key |-> state.key, seq |-> state.sequence_number,
     inner |-> typ, content |-> content]

\* InnerState::encrypt and decrypt count the records of a key.
AdvancedBy(state, n) ==
    Numbered(state.key, IF Enabled(state) THEN state.sequence_number + n
                                          ELSE state.sequence_number)
Advanced(state) == AdvancedBy(state, 1)

Units(r) == <<[part |-> "header", of |-> r], [part |-> "body", of |-> r]>>

\* What a record carries.
Data(bytes) == [bytes |-> bytes]
Handshakes(halves) == [halves |-> halves]

Halves(msg) == <<[half |-> 1, of |-> msg], [half |-> 2, of |-> msg]>>

\* The halves of messages, two for each.
HalvesOf(msgs) ==
    [h \in 1 .. 2 * Len(msgs) |->
        [half |-> IF h % 2 = 1 THEN 1 ELSE 2, of |-> msgs[(h + 1) \div 2]]]

\* Deframer::next: a whole record is at the front of a buffer.
WholeRecord(buffer) ==
    /\ Len(buffer) >= 2
    /\ buffer[1].part = "header" /\ buffer[2].part = "body"
    /\ buffer[1].of = buffer[2].of

-----------------------------------------------------------------------------
(* Sender *)

KeyUpdate(request) == [name |-> "KeyUpdate", request |-> request]

\* Mutant of WithKeyUpdate: announced under the new key.
XWithKeyUpdate(sender) ==
    [state |-> Updated(sender.state),
     out |-> sender.out \o Units(Sealed(Updated(sender.state), "Handshake",
                                        Handshakes(Halves(KeyUpdate(FALSE)))))]

\* Sender::perform_key_update: announced under the old key.
WithKeyUpdate(sender) ==
    [state |-> Updated(sender.state),
     out |-> sender.out \o Units(Sealed(sender.state, "Handshake",
                                        Handshakes(Halves(KeyUpdate(FALSE)))))]

\* EncryptionState::needs_rekey.
NeedsRekey(state) == Enabled(state) /\ state.sequence_number >= RekeyLimit

\* payload.chunks(..) of Sender::send.
Chunks(payload) ==
    [i \in 1 .. (Len(payload) + ChunkLen - 1) \div ChunkLen |->
        Data(SubSeq(payload, (i - 1) * ChunkLen + 1,
                    IF i * ChunkLen < Len(payload) THEN i * ChunkLen ELSE Len(payload)))]

\* The units of records, two for each.
UnitsOf(records) ==
    [u \in 1 .. 2 * Len(records) |->
        [part |-> IF u % 2 = 1 THEN "header" ELSE "body", of |-> records[(u + 1) \div 2]]]

\* Mutant of Encrypted: the sequence number of the first fragment for all.
XEncrypted(sender, typ, fragments) ==
    [state |-> Advanced(sender.state),
     out |-> sender.out \o UnitsOf([i \in DOMAIN fragments |->
                                       Sealed(sender.state, typ, fragments[i])])]

\* The loop over the fragments of Sender::send: each takes the next number.
Encrypted(sender, typ, fragments) ==
    [state |-> AdvancedBy(sender.state, Len(fragments)),
     out |-> sender.out \o UnitsOf([i \in DOMAIN fragments |->
                                       Sealed(AdvancedBy(sender.state, i - 1), typ, fragments[i])])]

\* Sender::send: rekeys before, never between the fragments.
Sent(sender, typ, fragments) ==
    Encrypted(IF NeedsRekey(sender.state) THEN WithKeyUpdate(sender) ELSE sender,
              typ, fragments)

CurrentSender == [state |-> enc, out |-> output]

-----------------------------------------------------------------------------
(* The handshake: ClientConfig::connect *)

IsHandshaking == st \notin {"Connected", "err"}

\* State::handshake and the first write_tls of Connection::handshake.
Start ==
    /\ pc = "start" /\ st = "Start"
    /\ LET sender == Sent(CurrentSender, "Handshake", <<Handshakes(Halves(ClientHello))>>)
       IN  /\ enc' = sender.state
           /\ toServer' = toServer \o sender.out
    /\ transcript' = <<"ClientHello">>
    /\ st' = "WaitServerHello"
    /\ pc' = "handshake"
    /\ UNCHANGED <<processing, input, data, hs, decoded, dec, output, app, toClient, external>>

\* read_tls: some bytes of the socket, or none at its end.
ReadTls(n) ==
    /\ n \in 0 .. Len(toClient)
    /\ n = 0 => toClient = <<>> /\ server.closed
    /\ input' = input \o SubSeq(toClient, 1, n)
    /\ toClient' = SubSeq(toClient, n + 1, Len(toClient))

\* One round of the loop of Connection::handshake.  The end of the socket is
\* not looked at: the loop turns.
HandshakeRead(n) ==
    /\ pc = "handshake" /\ ~processing
    /\ ReadTls(n)
    /\ processing' = TRUE
    /\ UNCHANGED <<pc, st, data, hs, decoded, dec, enc, output, transcript, app,
                   toServer, external>>

\* process_new_packets returned Ok to Connection::handshake, which sends what
\* waits and, once connected, is done.
HandshakeProcessed ==
    /\ pc = "handshake" /\ processing
    /\ ~WholeRecord(input) /\ decoded = <<>>
    /\ processing' = FALSE
    /\ toServer' = toServer \o output
    /\ output' = <<>>
    /\ pc' = IF IsHandshaking THEN "handshake" ELSE "open"
    /\ UNCHANGED <<st, input, data, hs, decoded, dec, enc, transcript, app, toClient, external>>

-----------------------------------------------------------------------------
(* process_new_packets: one record, then the messages it completes *)

\* An error drops the input and leaves Err in the state; connect, or the read
\* in progress, returns it.
Fail ==
    /\ st' = "err"
    /\ processing' = FALSE
    /\ input' = <<>>
    /\ decoded' = <<>>
    /\ pc' = IF pc = "handshake" THEN "refused" ELSE pc
    /\ reader' = IF pc = "open" THEN "failed" ELSE reader

record == input[1].of

NextRecord == processing /\ decoded = <<>> /\ WholeRecord(input)

Consumed == input' = SubSeq(input, 3, Len(input))

\* State::discard_ccs.
Discarded ==
    HeaderValid(record) /\ record.typ = "ChangeCipherSpec" /\ IsHandshaking

\* DecryptionState::decrypt, or Message::decode before there is a key.
Opens ==
    Enabled(dec) => /\ record.typ = "ApplicationData"
                    /\ record.key = dec.key
                    /\ record.seq = dec.sequence_number

RecordType == IF Enabled(dec) THEN record.inner ELSE record.typ

\* What the loop of process_new_packets accepts before it looks at the
\* content: no other record between the halves of a handshake message.
Received(typ) ==
    /\ NextRecord
    /\ ~Discarded
    /\ HeaderValid(record) /\ Opens
    /\ RecordType = typ
    /\ hs = <<>> \/ typ = "Handshake"
    /\ dec' = Advanced(dec)

DiscardCcs ==
    /\ NextRecord /\ Discarded
    /\ Consumed
    /\ UNCHANGED <<pc, st, processing, data, hs, decoded, dec, enc, output, transcript,
                   app, toServer, toClient, external>>

\* Mutant of ReceiveData: the data buffer is overwritten.
XReceiveData ==
    /\ Received("ApplicationData")
    /\ Consumed
    /\ data' = record.content.bytes
    /\ UNCHANGED <<pc, st, processing, hs, decoded, enc, output, transcript,
                   app, toServer, toClient, external>>

ReceiveData ==
    /\ Received("ApplicationData")
    /\ Consumed
    /\ data' = data \o record.content.bytes
    /\ UNCHANGED <<pc, st, processing, hs, decoded, enc, output, transcript,
                   app, toServer, toClient, external>>

\* HandshakeDeframer::process_buffer: the whole messages of a buffer, and
\* what is left of it.
Whole(buffer) == [i \in 1 .. Len(buffer) \div 2 |-> buffer[2 * i].of]
Rest(buffer) == IF Len(buffer) % 2 = 0 THEN <<>> ELSE <<Last(buffer)>>

ReceiveHandshake ==
    /\ Received("Handshake")
    /\ LET buffer == hs \o record.content.halves
       IN  /\ \A i \in DOMAIN Whole(buffer) : HandshakeDecodes(Whole(buffer)[i])
           /\ decoded' = Whole(buffer)
           /\ hs' = Rest(buffer)
    /\ Consumed
    /\ UNCHANGED <<pc, st, processing, data, enc, output, transcript,
                   app, toServer, toClient, external>>

\* ConnectedState::handle of an alert is todo!(): connect panics, or the
\* reading task with the lock both halves of the stream share.
ReceiveAlert ==
    /\ Received("Alert")
    /\ st = "Connected"
    /\ pc' = IF pc = "handshake" THEN "refused" ELSE pc
    /\ reader' = IF pc = "open" THEN "panicked" ELSE reader
    /\ processing' = FALSE
    /\ st' = "err" /\ input' = <<>>
    /\ UNCHANGED <<data, hs, decoded, enc, output, transcript,
                   got, written, stalled, toServer, toClient, external>>

\* Any other record ends the connection.
RefuseRecord ==
    /\ NextRecord /\ ~Discarded
    /\ \/ ~HeaderValid(record) \/ ~Opens
       \/ hs # <<>> /\ RecordType # "Handshake"
       \/ RecordType = "Handshake"
          /\ \E i \in DOMAIN Whole(hs \o record.content.halves) :
                ~HandshakeDecodes(Whole(hs \o record.content.halves)[i])
       \/ RecordType = "Alert" /\ st # "Connected"
       \/ ~PayloadDecodes(RecordType) \/ RecordType = "ChangeCipherSpec"
    /\ Fail
    /\ UNCHANGED <<data, hs, dec, enc, output, transcript, got, written, stalled,
                   toServer, toClient, external>>

-----------------------------------------------------------------------------
(* The states of the handshake *)

Handle(name) ==
    /\ processing /\ decoded # <<>>
    /\ Head(decoded).name = name
    /\ decoded' = Tail(decoded)
    /\ UNCHANGED <<pc, processing, input, data, hs, app, toServer, toClient, external>>

Hashed(name) == transcript' = Append(transcript, name)

\* WaitServerHelloState::handle: the handshake secrets cover both hellos.
HandleServerHello ==
    /\ st = "WaitServerHello"
    /\ Handle("ServerHello")
    /\ ServerHelloAccepted(Head(decoded).hello)
    /\ Hashed("ServerHello")
    /\ dec' = Fresh(Derived("s hs traffic", transcript'))
    /\ enc' = Fresh(Derived("c hs traffic", transcript'))
    /\ st' = "WaitEncryptedExtensions"
    /\ UNCHANGED output

HandleEncryptedExtensions ==
    /\ st = "WaitEncryptedExtensions"
    /\ Handle("EncryptedExtensions")
    /\ Hashed("EncryptedExtensions")
    /\ st' = "WaitCertificate"
    /\ UNCHANGED <<dec, enc, output>>

HandleCertificate ==
    /\ st = "WaitCertificate"
    /\ Handle("Certificate")
    /\ CertificateAccepted(Head(decoded).cert)
    /\ Hashed("Certificate")
    /\ st' = "WaitCertificateVerify"
    /\ UNCHANGED <<dec, enc, output>>

HandleCertificateVerify ==
    /\ st = "WaitCertificateVerify"
    /\ Handle("CertificateVerify")
    /\ SignatureAccepted(Head(decoded), transcript)
    /\ Hashed("CertificateVerify")
    /\ st' = "WaitFinished"
    /\ UNCHANGED <<dec, enc, output>>

\* WaitFinishedState::handle: the HMAC is over the transcript so far.
VerifiesFinished(msg) == msg.mac = transcript

\* Our Finished covers the server's, and is not hashed itself.
OurFinished(hashed) == [name |-> "Finished", mac |-> hashed]

\* WaitFinishedState::handle: our Finished goes out under the handshake key,
\* then both directions change to the application's.
HandleFinished ==
    /\ st = "WaitFinished"
    /\ Handle("Finished")
    /\ VerifiesFinished(Head(decoded))
    /\ Hashed("Finished")
    /\ output' = Sent(CurrentSender, "Handshake",
                      <<Handshakes(Halves(OurFinished(transcript')))>>).out
    /\ enc' = Fresh(Derived("c ap traffic", transcript'))
    /\ dec' = Fresh(Derived("s ap traffic", transcript'))
    /\ st' = "Connected"

\* ConnectedState::handle.
HandleTicket ==
    /\ st = "Connected"
    /\ Handle("NewSessionTicket")
    /\ UNCHANGED <<st, dec, enc, output, transcript>>

\* Our own update waits in the output buffer for the next write.
HandleKeyUpdate ==
    /\ st = "Connected"
    /\ Handle("KeyUpdate")
    /\ dec' = Updated(dec)
    /\ LET sender == IF Head(decoded).request THEN WithKeyUpdate(CurrentSender)
                                              ELSE CurrentSender
       IN  enc' = sender.state /\ output' = sender.out
    /\ UNCHANGED <<st, transcript>>

Expected(msg) ==
    CASE st = "WaitServerHello" -> msg.name = "ServerHello" /\ ServerHelloAccepted(msg.hello)
      [] st = "WaitEncryptedExtensions" -> msg.name = "EncryptedExtensions"
      [] st = "WaitCertificate" -> msg.name = "Certificate" /\ CertificateAccepted(msg.cert)
      [] st = "WaitCertificateVerify" ->
            msg.name = "CertificateVerify" /\ SignatureAccepted(msg, transcript)
      [] st = "WaitFinished" -> msg.name = "Finished" /\ VerifiesFinished(msg)
      [] OTHER -> msg.name \in {"NewSessionTicket", "KeyUpdate"}

\* State::handle of any other message ends the connection.
RefuseHandshake ==
    /\ processing /\ decoded # <<>>
    /\ ~Expected(Head(decoded))
    /\ Fail
    /\ UNCHANGED <<data, hs, dec, enc, output, transcript, got, written, stalled,
                   toServer, toClient, external>>

-----------------------------------------------------------------------------
(* TlsStream *)

\* Connection::wants_read.
WantsRead == data = <<>> /\ input = <<>> /\ st # "err"

\* The loop of poll_read: the socket has something, or has ended.
PollReadTls(n) ==
    /\ pc = "open" /\ reader = "reads" /\ ~processing
    /\ WantsRead
    /\ ReadTls(n)
    /\ processing' = (n > 0)
    /\ reader' = IF n = 0 THEN "eof" ELSE reader
    /\ UNCHANGED <<pc, st, data, hs, decoded, dec, enc, output, transcript,
                   got, written, stalled, toServer, external>>

PollProcessed ==
    /\ pc = "open" /\ processing
    /\ ~WholeRecord(input) /\ decoded = <<>>
    /\ processing' = FALSE
    /\ UNCHANGED <<pc, st, input, data, hs, decoded, dec, enc, output, transcript,
                   app, toServer, toClient, external>>

\* Mutant of PollRead: the rest of the buffer is dropped.
XPollRead(n) ==
    /\ pc = "open" /\ reader = "reads" /\ ~processing
    /\ ~WantsRead
    /\ n \in (IF data = <<>> THEN {0} ELSE 1 .. Len(data))
    /\ got' = got \o SubSeq(data, 1, n)
    /\ data' = <<>>
    /\ reader' = IF n = 0 THEN "eof" ELSE reader
    /\ UNCHANGED <<pc, st, processing, input, hs, decoded, dec, enc, output, transcript,
                   written, stalled, toServer, toClient, external>>

\* Mutant of PollRead: waits for data though part of a record is buffered.
XPollReadWaits(n) ==
    /\ pc = "open" /\ reader = "reads" /\ ~processing
    /\ n \in 1 .. Len(data)
    /\ got' = got \o SubSeq(data, 1, n)
    /\ data' = SubSeq(data, n + 1, Len(data))
    /\ UNCHANGED <<pc, st, processing, input, hs, decoded, dec, enc, output, transcript,
                   reader, written, stalled, toServer, toClient, external>>

\* The end of poll_read: bytes from the buffer.  None at all is how a stream
\* says that it ended.
PollRead(n) ==
    /\ pc = "open" /\ reader = "reads" /\ ~processing
    /\ ~WantsRead
    /\ n \in (IF data = <<>> THEN {0} ELSE 1 .. Len(data))
    /\ got' = got \o SubSeq(data, 1, n)
    /\ data' = SubSeq(data, n + 1, Len(data))
    /\ reader' = IF n = 0 THEN "eof" ELSE reader
    /\ UNCHANGED <<pc, st, processing, input, hs, decoded, dec, enc, output, transcript,
                   written, stalled, toServer, toClient, external>>

StepsTaken == written + stalled + server.posts

Bytes(w) == [i \in 1 .. WriteLen |-> (w - 1) * WriteLen + i]

\* poll_write: encrypts the bytes, then poll_flush writes the buffer from its
\* start.  When the socket takes only n units the poll is pending, nothing
\* leaves the buffer, and write_all polls again with the same bytes.
PollWrite(n) ==
    /\ pc = "open" /\ ~processing /\ reader # "panicked"
    /\ StepsTaken < MaxSteps
    /\ LET sender == Sent(CurrentSender, "ApplicationData", Chunks(Bytes(written + 1)))
       IN  /\ n \in 0 .. Len(sender.out)
           /\ enc' = sender.state
           /\ toServer' = toServer \o SubSeq(sender.out, 1, n)
           /\ \/ /\ n = Len(sender.out)
                 /\ output' = <<>>
                 /\ written' = written + 1
                 /\ UNCHANGED stalled
              \/ /\ n < Len(sender.out)
                 /\ stalled' = stalled + 1
                 /\ output' = sender.out
                 /\ UNCHANGED written
    /\ UNCHANGED <<pc, st, processing, input, data, hs, decoded, dec, transcript,
                   got, reader, toClient, external>>

\* An error of the socket is not passed on by poll_write.
PollWriteFails ==
    /\ pc = "open" /\ ~processing /\ reader # "panicked"
    /\ StepsTaken < MaxSteps /\ server.closed
    /\ LET sender == Sent(CurrentSender, "ApplicationData", Chunks(Bytes(written + 1)))
       IN  enc' = sender.state /\ output' = sender.out
    /\ written' = written + 1
    /\ UNCHANGED <<pc, st, processing, input, data, hs, decoded, dec, transcript,
                   got, reader, stalled, toServer, toClient, external>>

-----------------------------------------------------------------------------
(* The server, external: it follows RFC 8446 with what cfg answers *)

ServerIsOpen == server.phase \in {"sent", "open"} /\ ~server.closed

\* The server's messages that come after the ServerHello.
Flight(signed, mac) ==
    LET message(name) ==
            CASE name = "EncryptedExtensions" -> [name |-> name, list |-> cfg.list]
              [] name = "CertificateRequest" -> [name |-> name]
              [] name = "Certificate" -> [name |-> name, cert |-> cfg.cert]
              [] name = "CertificateVerify" ->
                    [name |-> name, scheme |-> cfg.scheme, signed |-> signed]
              [] name = "Finished" -> [name |-> name, mac |-> mac]
    IN  HalvesOf([i \in DOMAIN cfg.flight |-> message(cfg.flight[i])])

Hellos == <<"ClientHello", "ServerHello">>

\* What the server has hashed before its i-th message of the flight.
ServerTranscript(i) == Hellos \o SubSeq(cfg.flight, 1, i - 1)

ServerAnswers ==
    /\ server.phase = "wait" /\ ~server.closed /\ WholeRecord(toServer)
    /\ toServer[1].of.content = Handshakes(Halves(ClientHello))
    /\ toServer' = SubSeq(toServer, 3, Len(toServer))
    /\ server' = [server EXCEPT !.phase = "hello",
                     !.script = Halves([name |-> "ServerHello", hello |-> cfg.hello])]
    /\ UNCHANGED <<pc, connection, app, toClient, cfg, sent>>

\* One record with the next n halves of messages.
ServerSendsHandshake(n) ==
    /\ server.phase \in {"hello", "flight"} /\ server.script # <<>> /\ ~server.closed
    /\ LET k == IF n < Len(server.script) THEN n ELSE Len(server.script)
       IN  /\ toClient' = toClient \o Units(Sealed(server.send, "Handshake",
                                                   Handshakes(SubSeq(server.script, 1, k))))
           /\ server' = [server EXCEPT !.send = Advanced(@),
                            !.script = SubSeq(@, k + 1, Len(@))]
    /\ UNCHANGED <<pc, connection, app, toServer, cfg, sent>>

\* After its ServerHello the server changes to the handshake keys, with the
\* change_cipher_spec of the compatibility mode.
ServerStartsFlight ==
    /\ server.phase = "hello" /\ server.script = <<>> /\ ~server.closed
    /\ toClient' = toClient \o Units(Sealed(Disabled, "ChangeCipherSpec", Handshakes(<<>>)))
    /\ server' = [server EXCEPT
                     !.phase = "flight",
                     !.script = Flight(IF cfg.signed THEN ServerTranscript(Len(cfg.flight) - 1)
                                                     ELSE <<>>,
                                       IF cfg.mac THEN ServerTranscript(Len(cfg.flight))
                                                  ELSE <<>>),
                     !.send = Fresh(Derived("s hs traffic", Hellos)),
                     !.recv = Fresh(Derived("c hs traffic", Hellos))]
    /\ UNCHANGED <<pc, connection, app, toServer, cfg, sent>>

ServerEndsFlight ==
    /\ server.phase = "flight" /\ server.script = <<>> /\ ~server.closed
    /\ server' = [server EXCEPT
                     !.phase = "sent",
                     !.send = Fresh(Derived("s ap traffic",
                                            ServerTranscript(Len(cfg.flight) + 1)))]
    /\ UNCHANGED <<pc, connection, app, toServer, toClient, cfg, sent>>

ServerSendsData(n) ==
    /\ ServerIsOpen /\ StepsTaken < MaxSteps
    /\ LET bytes == [i \in 1 .. n |-> Len(sent) + i]
       IN  /\ sent' = sent \o bytes
           /\ toClient' = toClient \o Units(Sealed(server.send, "ApplicationData", Data(bytes)))
    /\ server' = [server EXCEPT !.send = Advanced(@), !.posts = @ + 1]
    /\ UNCHANGED <<pc, connection, app, toServer, cfg>>

ServerSendsTicket ==
    /\ server.phase = "open" /\ ~server.closed /\ StepsTaken < MaxSteps
    /\ toClient' = toClient \o Units(Sealed(server.send, "Handshake",
                                            Handshakes(Halves([name |-> "NewSessionTicket"]))))
    /\ server' = [server EXCEPT !.send = Advanced(@), !.posts = @ + 1]
    /\ UNCHANGED <<pc, connection, app, toServer, cfg, sent>>

ServerUpdatesKey(request) ==
    /\ server.phase = "open" /\ ~server.closed /\ StepsTaken < MaxSteps
    /\ toClient' = toClient \o Units(Sealed(server.send, "Handshake",
                                            Handshakes(Halves(KeyUpdate(request)))))
    /\ server' = [server EXCEPT !.send = Updated(@), !.posts = @ + 1]
    /\ UNCHANGED <<pc, connection, app, toServer, cfg, sent>>

\* Of its own accord, with a close_notify or without.
ServerCloses(notified) ==
    /\ ~server.closed
    /\ toClient' = IF notified THEN toClient \o Units(Sealed(server.send, "Alert", Handshakes(<<>>)))
                               ELSE toClient
    /\ server' = [server EXCEPT !.closed = TRUE]
    /\ UNCHANGED <<pc, connection, app, toServer, cfg, sent>>

\* The server's receiver: the state after a record, or failed.
ServerAccepts(r) ==
    CASE r.key # server.recv.key \/ r.seq # server.recv.sequence_number ->
            [server EXCEPT !.phase = "failed"]
      [] r.inner = "ApplicationData" /\ server.phase = "open" ->
            [server EXCEPT !.got = @ \o r.content.bytes, !.recv = Advanced(@)]
      [] /\ r.inner = "Handshake" /\ server.phase = "sent"
         /\ r.content = Handshakes(Halves([name |-> "Finished",
                                     mac |-> ServerTranscript(Len(cfg.flight) + 1)])) ->
            [server EXCEPT !.phase = "open",
                           !.recv = Fresh(Derived("c ap traffic",
                                                  ServerTranscript(Len(cfg.flight) + 1)))]
      [] /\ r.inner = "Handshake" /\ server.phase = "open"
         /\ r.content = Handshakes(Halves(KeyUpdate(FALSE))) ->
            [server EXCEPT !.recv = Updated(@)]
      [] OTHER -> [server EXCEPT !.phase = "failed"]

\* A server that cannot read a record sends an alert and closes.
ServerReceives ==
    /\ ServerIsOpen /\ Len(toServer) >= 2
    /\ LET after == IF WholeRecord(toServer) THEN ServerAccepts(toServer[1].of)
                                             ELSE [server EXCEPT !.phase = "failed"]
           failed == after.phase = "failed"
       IN  /\ server' = [after EXCEPT !.closed = failed]
           /\ toServer' = IF failed THEN <<>> ELSE SubSeq(toServer, 3, Len(toServer))
           /\ toClient' = IF failed
                          THEN toClient \o Units(Sealed(server.send, "Alert", Handshakes(<<>>)))
                          ELSE toClient
    /\ UNCHANGED <<pc, connection, app, cfg, sent>>

-----------------------------------------------------------------------------
Init ==
    /\ pc = "start" /\ st = "Start" /\ processing = FALSE
    /\ input = <<>> /\ data = <<>> /\ hs = <<>> /\ decoded = <<>>
    /\ dec = Disabled /\ enc = Disabled /\ output = <<>>
    /\ transcript = <<>>
    /\ got = <<>> /\ reader = "reads" /\ written = 0 /\ stalled = 0
    /\ toServer = <<>> /\ toClient = <<>>
    /\ cfg \in Servers
    /\ server = [phase |-> "wait", script |-> <<>>, send |-> Disabled, recv |-> Disabled,
                 got |-> <<>>, closed |-> FALSE, posts |-> 0]
    /\ sent = <<>>

ProcessNewPackets ==
    \/ DiscardCcs \/ ReceiveData \/ ReceiveHandshake \/ ReceiveAlert \/ RefuseRecord
    \/ HandleServerHello \/ HandleEncryptedExtensions \/ HandleCertificate
    \/ HandleCertificateVerify \/ HandleFinished \/ HandleTicket \/ HandleKeyUpdate
    \/ RefuseHandshake

Client ==
    \/ Start
    \/ \E n \in 0 .. Len(toClient) : HandshakeRead(n) \/ PollReadTls(n)
    \/ HandshakeProcessed
    \/ ProcessNewPackets
    \/ PollProcessed
    \/ \E n \in 0 .. Len(data) : PollRead(n)

Write == (\E n \in 0 .. 2 * (WriteLen + 2) + Len(output) : PollWrite(n)) \/ PollWriteFails

ServerHandshake ==
    \/ ServerAnswers \/ ServerStartsFlight \/ ServerEndsFlight
    \/ \E n \in Packings : ServerSendsHandshake(n)

ServerPosts ==
    \/ \E n \in {1, 2} : ServerSendsData(n)
    \/ ServerSendsTicket
    \/ \E request \in BOOLEAN : ServerUpdatesKey(request)
    \/ \E notified \in BOOLEAN : ServerCloses(notified)

Next == Client \/ Write \/ ServerHandshake \/ ServerReceives \/ ServerPosts

\* The executor polls a stream that is ready; a server answers.
Fairness == WF_vars(Client) /\ WF_vars(ServerHandshake) /\ WF_vars(ServerReceives)

Spec == Init /\ [][Next]_vars /\ Fairness

-----------------------------------------------------------------------------
(* Properties *)

\* The variables have their types.
TypeOK ==
    /\ pc \in {"start", "handshake", "refused", "open"}
    /\ st \in {"Start", "WaitServerHello", "WaitEncryptedExtensions", "WaitCertificate",
               "WaitCertificateVerify", "WaitFinished", "Connected", "err"}
    /\ reader \in {"reads", "eof", "failed", "panicked"}
    /\ processing \in BOOLEAN
    /\ StepsTaken \in 0 .. MaxSteps
    /\ {sent[i] : i \in DOMAIN sent} \cup {got[i] : i \in DOMAIN got}
          \cup {data[i] : i \in DOMAIN data} \subseteq 1 .. 2 * MaxSteps
    /\ Len(hs) <= 1

\* The bytes of the records among units.
Carried(units) ==
    FlattenSeq([i \in DOMAIN units |->
        IF units[i].part = "header" /\ units[i].of.inner = "ApplicationData"
        THEN units[i].of.content.bytes ELSE <<>>])

\* However the socket cuts and joins records, and wherever keys change, the
\* bytes the server sent are those the application read, then those in the
\* data buffer, in the input buffer and in the socket: none is lost, doubled
\* or moved (Receiver::process_new_packets, Connection::read, poll_read).
StreamIntact ==
    /\ TypeOK
    /\ st # "err" =>
        LET received == IF input # <<>> /\ input[1].part = "body"
                        THEN <<[input[1] EXCEPT !.part = "header"]>> \o input ELSE input
        IN  got \o data \o Carried(received \o toClient) = sent

\* What the application reads is a byte stream: the TLS stream implements it.
Downstream == INSTANCE BytePipe WITH put <- sent, taken <- got
ReadsAStream == Downstream!Pipe

\* RFC 8446, 4.1.3: the fields that TLS 1.3 fixes, and the suite.
EchoesClient(hello) ==
    /\ hello.version = "TLSv1_2" /\ hello.session = ClientHello.session
    /\ hello.compression = "none" /\ hello.suite \in Offers.suites

\* 4.2: an extension, once, with a value the client can take.
HasOnce(hello, typ, values) ==
    \E i \in DOMAIN hello.extensions :
        /\ hello.extensions[i].typ = typ /\ hello.extensions[i].value \in values
        /\ \A j \in DOMAIN hello.extensions : hello.extensions[j].typ = typ => j = i

HasOnly(hello, typs) == \A i \in DOMAIN hello.extensions : hello.extensions[i].typ \in typs

\* 4.1.3, 4.2.1 and 4.2.8: the version and the share of a group that were offered.
TakesUpOffer(hello) ==
    /\ EchoesClient(hello) /\ hello.random \notin {"downgrade", "helloRetryRequest"}
    /\ HasOnce(hello, "SupportedVersions", Offers.versions)
    /\ HasOnce(hello, "KeyShare", Offers.groups)

\* 4.1.3: a ServerHello carries these two and nothing else.
AnswersOffer(hello) == TakesUpOffer(hello) /\ HasOnly(hello, {"SupportedVersions", "KeyShare"})

\* 4.1.4: a HelloRetryRequest, for which a cookie is reason enough.
AsksAgain(hello) ==
    /\ EchoesClient(hello) /\ hello.random = "helloRetryRequest"
    /\ HasOnce(hello, "SupportedVersions", Offers.versions) /\ HasOnce(hello, "Cookie", {"some"})
    /\ HasOnly(hello, {"SupportedVersions", "Cookie"})

\* 4.3.1: what EncryptedExtensions may answer, an extension that was offered.
Answerable == Offers.names \cup {"SupportedGroups"}

ShortFlight == <<"EncryptedExtensions", "Certificate", "CertificateVerify", "Finished">>

\* 4.3.2: the server may ask for a certificate.
Flights ==
    {ShortFlight,
     <<"EncryptedExtensions", "CertificateRequest", "Certificate", "CertificateVerify", "Finished">>}

\* 4.4: a certificate the client trusts, and the proofs that it is the server's
\* and that both saw the same messages.
Proves(s) ==
    /\ s.cert.context = "empty" /\ s.cert.entries > 0 /\ s.cert.extensions = "none"
    /\ s.cert.trusted /\ s.cert.subject = "server"
    /\ s.scheme \in Offers.schemes /\ s.signed /\ s.mac

\* The servers the client should talk to: they follow RFC 8446 with what the
\* client offers.
GoodServers ==
    {s \in Servers :
        /\ AnswersOffer(s.hello) \/ AsksAgain(s.hello)
        /\ s.list \subseteq Answerable /\ s.flight \in Flights /\ Proves(s)}

\* What the client refuses though the protocol allows it: a HelloRetryRequest,
\* an answer in EncryptedExtensions, a CertificateRequest (Handshake::decode).
Unsupported(s) ==
    Retry(s.hello) \/ s.list # {} \/ "CertificateRequest" \in Range(s.flight)
SupportedServers == {s \in GoodServers : ~Unsupported(s)}

\* What it accepts though the protocol, and the comment in ServerHello::decode,
\* forbid it: a well-formed cookie or server name beside the two extensions
\* (contains_only, whose conditions are joined by ||).
WellFormedMore(ext) ==
    (ext.typ = "Cookie" /\ ext.value # "empty") \/ (ext.typ = "ServerName" /\ ext.value = "empty")
CarriesMore(hello) ==
    /\ TakesUpOffer(hello) /\ ~AnswersOffer(hello)
    /\ \A i \in DOMAIN hello.extensions :
          \/ hello.extensions[i].typ \in {"SupportedVersions", "KeyShare"}
          \/ WellFormedMore(hello.extensions[i])
LaxServers ==
    {s \in Servers :
        CarriesMore(s.hello) /\ s.list = {} /\ s.flight = ShortFlight /\ Proves(s)}

\* A server that follows the protocol with what the client offers, and does
\* none of the three things the client does not support, is never refused:
\* neither while the handshake nor after it, whatever records its messages are
\* put in (the states' handle, HandshakeDeframer, the key changes of
\* WaitFinishedState and of a KeyUpdate).
GoodServerAccepted ==
    cfg \in SupportedServers /\ (\A i \in DOMAIN (input \o toClient) :
                                    (input \o toClient)[i].of.inner # "Alert")
                            /\ reader # "panicked" /\ ~server.closed
        => pc # "refused" /\ st # "err"

\* Any other server is refused before the application sees a stream, but one
\* whose only fault is a ServerHello that carries a cookie or server names.
BadServerRefused == cfg \notin SupportedServers \cup LaxServers => pc # "open"

\* The client tells apart the servers that follow the protocol: these it never
\* refuses, and the others never open a stream, with the exceptions that
\* Unsupported and LaxServers name.
OnlyGoodServers == GoodServerAccepted /\ BadServerRefused

\* While the socket takes what it is given, the server decrypts all that the
\* client sends, in order, across the changes of key that either side starts:
\* a record is under the key, and has the sequence number, that the server
\* expects next (WaitFinishedState::handle, Sender::perform_key_update).
ServerUnderstands ==
    cfg \in SupportedServers /\ stalled = 0 =>
        /\ server.phase # "failed"
        /\ IsPrefix(server.got, [i \in 1 .. written * WriteLen |-> i])

\* No nonce is used for two records: of the records on their way, those with
\* the same key and sequence number are the same one, also when poll_write
\* encrypts its bytes again (EncryptionState, whose nonce is the sequence
\* number).
NoncesUnique ==
    LET units == output \o toServer
    IN  \A i, j \in DOMAIN units :
            /\ units[i].of.key # NoKey
            /\ units[i].of.key = units[j].of.key /\ units[i].of.seq = units[j].of.seq
            => units[i].of = units[j].of

\* poll_read says that the stream ended only where the socket ended.
EofIsReal == reader = "eof" => server.closed /\ toClient = <<>>

\* The key and the sequence number of a direction only go forward: from a
\* handshake secret to an application secret, from a generation to a later
\* one, and from a number to a greater one under the same key; so no nonce
\* comes back after its record is gone (the key schedule of
\* WaitServerHelloState and WaitFinishedState, perform_key_update, encrypt).
Stage(state) ==
    CASE state.key.label = "none" -> 0
      [] state.key.label \in {"s hs traffic", "c hs traffic"} -> 1
      [] OTHER -> 2

Later(new, old) ==
    \/ Stage(new) > Stage(old)
    \/ /\ Stage(new) = Stage(old) /\ new.key.label = old.key.label
       /\ new.key.transcript = old.key.transcript
       /\ new.key.generation > old.key.generation
    \/ new.key = old.key /\ new.sequence_number >= old.sequence_number

KeysAdvance == Later(dec', dec) /\ Later(enc', enc)

\* A nonce is never used twice: not by two records on their way, nor by one
\* that comes after the record is gone.
NoncesNeverReused == [][NoncesUnique' /\ KeysAdvance]_vars

\* The handshake ends, one way or the other, with a server that stays.
HandshakeEnds ==
    (pc = "handshake") ~> (pc \in {"open", "refused"} \/ server.closed)

\* An application that goes on reading reads all that was sent.
AllIsRead ==
    (got # sent) ~> (got = sent \/ reader # "reads" \/ pc = "refused" \/ server.closed)

\* Neither cuts nor joins of records, nor changes of key, leave the client
\* waiting for bytes that it has: the handshake ends, and the application
\* gets what was sent (Connection::handshake, wants_read, poll_read).
NothingIsStuck == HandshakeEnds /\ AllIsRead
============================================================================
