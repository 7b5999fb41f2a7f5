---------------------------- MODULE TlsMessages ----------------------------
(***************************************************************************)
(* What the TLS 1.3 client of lib/sickgnal_insecure_tls decodes and        *)
(* accepts: record headers, handshake messages, the ServerHello and the    *)
(* certificates.  A message is a record of the fields the client looks at. *)
(***************************************************************************)
EXTENDS Naturals, Sequences

CONSTANTS
    OFFERED_CIPHERSUITE,  \* the only cipher suite of the ClientHello
    OFFERED_SIG_SCHEME    \* the only signature scheme of the ClientHello

\* The messages of HandshakeTypeName that a server may send.
ServerHandshakes ==
    {"ServerHello", "NewSessionTicket", "EncryptedExtensions", "Certificate",
     "CertificateRequest", "CertificateVerify", "Finished", "KeyUpdate"}

\* ClientHello::new: what the client offers.
Offers ==
    [versions |-> {"TLSv1_3"}, suites |-> {OFFERED_CIPHERSUITE},
     schemes |-> {OFFERED_SIG_SCHEME}, groups |-> {"x25519"}, names |-> {"ServerName"}]

\* ClientHello::encode.
ClientHello == [name |-> "ClientHello", version |-> "TLSv1_2", session |-> "empty",
                compression |-> "none", offers |-> Offers]

-----------------------------------------------------------------------------
(* Records *)

\* parse_record_header: known content type, version 0x0303, length within
\* the limit.
HeaderValid(record) == record.header = "valid"

\* Message::decode: what a record's payload may be.  Heartbeats and unknown
\* types are refused.
PayloadDecodes(typ) ==
    typ \in {"ChangeCipherSpec", "Alert", "Handshake", "ApplicationData"}

-----------------------------------------------------------------------------
(* ServerHello *)

Retry(hello) == hello.random = "helloRetryRequest"

\* KeyShareEntry::decode: x25519 is the only group that decodes.
KeyShareDecodes(share) == share = "x25519"

\* ServerExtensions::decode, one extension.
ExtensionDecodes(ext, retry) ==
    CASE ext.typ = "KeyShare"          -> retry \/ KeyShareDecodes(ext.value)
      [] ext.typ = "SupportedVersions" -> TRUE
      [] ext.typ = "Cookie"            -> ext.value # "empty"
      [] ext.typ = "ServerName"        -> ext.value = "empty"
      [] OTHER                         -> FALSE

\* ServerExtensions::decode refuses a second extension of the same type; it
\* keeps nothing of a server_name, which may therefore be repeated.
NotRepeated(exts) ==
    \A i, j \in DOMAIN exts :
        exts[i].typ = exts[j].typ => i = j \/ exts[i].typ = "ServerName"

HasExtension(exts, typ) == \E i \in DOMAIN exts : exts[i].typ = typ

\* ServerExtensions::contains_only: three disjuncts, where the comment above
\* its calls asks for a conjunction.
ContainsOnly(exts, accepted) ==
    \E typ \in {"SupportedVersions", "Cookie", "KeyShare"} :
        ~HasExtension(exts, typ) \/ typ \in accepted

\* ServerRandom::is_downgrade.
IsDowngrade(hello) == hello.random = "downgrade"

\* ServerHello::decode, up to the session identifier.
LegacyFieldsDecode(hello) ==
    /\ hello.version = "TLSv1_2"
    /\ ~IsDowngrade(hello)
    /\ hello.session = "empty"

\* ServerHello::decode, from the cipher suite on.
ServerHelloDecodes(hello) ==
    /\ LegacyFieldsDecode(hello)
    /\ hello.compression = "none"
    /\ \A i \in DOMAIN hello.extensions :
          ExtensionDecodes(hello.extensions[i], Retry(hello))
    /\ NotRepeated(hello.extensions)
    /\ ContainsOnly(hello.extensions,
                    {"KeyShare", "SupportedVersions"}
                        \cup IF Retry(hello) THEN {"Cookie"} ELSE {})

\* WaitServerHelloState::handle: a ServerHello that negotiates TLS 1.3 with
\* what the client offered, and no HelloRetryRequest.
NegotiatesVersion(hello) ==
    \E i \in DOMAIN hello.extensions :
        hello.extensions[i].typ = "SupportedVersions" /\ hello.extensions[i].value = "TLSv1_3"

SharesKey(hello) == HasExtension(hello.extensions, "KeyShare")

\* Mutant of ServerHelloAccepted: any cipher suite will do.
XServerHelloAccepted(hello) ==
    ~Retry(hello) /\ NegotiatesVersion(hello) /\ SharesKey(hello)

ServerHelloAccepted(hello) ==
    /\ ~Retry(hello)
    /\ NegotiatesVersion(hello)
    /\ hello.suite = OFFERED_CIPHERSUITE
    /\ SharesKey(hello)

-----------------------------------------------------------------------------
(* The other handshake messages *)

\* decode_cert_entry: entries without extensions.
EntriesDecode(cert) == cert.extensions = "none"

\* CertificateMessage::decode: no context, at least one entry.
CertificateDecodes(cert) ==
    cert.context = "empty" /\ cert.entries > 0 /\ EntriesDecode(cert)

\* WaitCertificateState::handle: the chain leads to a root the client trusts,
\* is valid now, and is the server's.
CertificateAccepted(cert) == cert.trusted /\ cert.subject = "server"

\* WaitCertificateVerifyState::handle: the signature is over the transcript.
SignatureAccepted(msg, transcript) ==
    msg.scheme = OFFERED_SIG_SCHEME /\ msg.signed = transcript

\* Handshake::decode.
HandshakeDecodes(msg) ==
    CASE msg.name = "ServerHello"         -> ServerHelloDecodes(msg.hello)
      [] msg.name = "EncryptedExtensions" -> msg.list = {}
      [] msg.name = "Certificate"         -> CertificateDecodes(msg.cert)
      [] msg.name = "CertificateRequest"  -> FALSE
      [] OTHER                            -> msg.name \in ServerHandshakes
============================================================================
