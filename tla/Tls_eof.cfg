CONSTANTS
    OFFERED_CIPHERSUITE = "AES_128_GCM_SHA256"
    OFFERED_SIG_SCHEME = "rsa_pss_rsae_sha256"
    Servers <- MCGoodServers
    Packings <- MCPackings
    ChunkLen = 1
    RekeyLimit = 2
    WriteLen = 2
    MaxSteps = 2
SPECIFICATION Spec
INVARIANT EofIsReal
CHECK_DEADLOCK FALSE
