------------------------------- MODULE MCTls -------------------------------
(* Instances of Tls for TLC: a server that follows the protocol, one for each way to
   follow it that the client does not support, one whose ServerHello carries more than
   it may and is accepted, and one for each other way to depart from the protocol. *)
EXTENDS Tls

Extension(typ, value) == [typ |-> typ, value |-> value]

Hello == [version |-> "TLSv1_2", random |-> "fresh", session |-> "empty",
          compression |-> "none", suite |-> "AES_128_GCM_SHA256",
          extensions |-> <<Extension("SupportedVersions", "TLSv1_3"),
                           Extension("KeyShare", "x25519")>>]

Good == [hello |-> Hello, flight |-> ShortFlight, list |-> {},
         cert |-> [context |-> "empty", entries |-> 1, extensions |-> "none",
                   trusted |-> TRUE, subject |-> "server"],
         scheme |-> "rsa_pss_rsae_sha256", signed |-> TRUE, mac |-> TRUE]

WithExtension(typ, value) == [Hello EXCEPT !.extensions = Append(@, Extension(typ, value))]

MCUnsupported ==
    {[Good EXCEPT !.list = {"ServerName"}], [Good EXCEPT !.list = {"SupportedGroups"}],
     [Good EXCEPT !.flight = <<@[1], "CertificateRequest">> \o Tail(@)],
     [Good EXCEPT !.hello = [Hello EXCEPT
         !.random = "helloRetryRequest", !.extensions = <<@[1], Extension("Cookie", "some")>>]]}

MCLax == {[Good EXCEPT !.hello.extensions =
              @ \o <<Extension("Cookie", "some"), Extension("ServerName", "empty")>>]}

MCGoodServers == {Good}

ASSUME AsMeant ==
    /\ GoodServers = ({Good} \cup MCUnsupported) \cap Servers /\ SupportedServers = {Good}
    /\ LaxServers = MCLax \cap Servers

BadHellos ==
    {[Hello EXCEPT !.version = "TLSv1_3"],
     [Hello EXCEPT !.random = "downgrade"],
     [Hello EXCEPT !.random = "helloRetryRequest"],
     [Hello EXCEPT !.session = "echoed"],
     [Hello EXCEPT !.compression = "deflate"],
     [Hello EXCEPT !.suite = "CHACHA20_POLY1305_SHA256"],
     [Hello EXCEPT !.extensions = <<@[1]>>],
     [Hello EXCEPT !.extensions = <<@[2]>>],
     [Hello EXCEPT !.extensions = <<@[1], @[2], @[2]>>],
     [Hello EXCEPT !.extensions = <<@[1], Extension("KeyShare", "p256")>>],
     WithExtension("Cookie", "empty"), WithExtension("ServerName", "some"),
     WithExtension("SupportedGroups", "x25519")}

BadCerts ==
    {[Good.cert EXCEPT !.entries = 0], [Good.cert EXCEPT !.trusted = FALSE],
     [Good.cert EXCEPT !.subject = "other"], [Good.cert EXCEPT !.context = "some"]}

BadServers ==
    {[Good EXCEPT !.hello = hello] : hello \in BadHellos}
    \cup {[Good EXCEPT !.cert = cert] : cert \in BadCerts}
    \cup {[Good EXCEPT !.list = {"ALPN"}], [Good EXCEPT !.scheme = "ecdsa_secp256r1_sha256"],
          [Good EXCEPT !.signed = FALSE], [Good EXCEPT !.mac = FALSE],
          [Good EXCEPT !.flight = <<"EncryptedExtensions", "CertificateVerify", "Finished">>]}

MCServers == {Good} \cup MCUnsupported \cup MCLax \cup BadServers
MCPackings == {3, 8}
============================================================================
