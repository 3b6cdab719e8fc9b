\* Blocks of two bytes in batches of two; varints of three bits for an
\* eight-bit number; the real base94 header; session ids of ten digits.
CONSTANTS
    BlockLen = 2
    BATCH = 2
    encrypt_block <- MCBlockCipher
    NonceLen = 2
    KeystreamLen = 5
    chacha20 <- MCKeystream
    SeqWidth = 1
    ChaChaSeqWidth = 1
    Cont = 8
    MaxVarint = 3
    LastLimit = 4
    MaxWord = 255
    PREFIX_MAX_FRAME = 200
    BASE94_MAX_FRAME = 131136
    MaxId = 1000000007
    DecimalLen = 10
    Jobs <- MCJobs
SPECIFICATION Spec
INVARIANTS FieldsLossless PacketLossless PrefixWaits
CHECK_DEADLOCK FALSE
