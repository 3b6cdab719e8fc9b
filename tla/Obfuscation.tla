---------------------------- MODULE Obfuscation ----------------------------
(***************************************************************************)
(* The byte transforms of a frame, as operators: the SSEA primitives, the  *)
(* hand-written CFB and CTR modes over an opaque block cipher, the binary  *)
(* header and the payload chain.                                           *)
(*                                                                         *)
(* A byte is 0..255, a buffer a sequence of bytes.  A u32 is a pair of     *)
(* 16-bit halves, [hi, lo], so that 32-bit products stay within TLC's      *)
(* integers; a kf is the i32 it is configured as.                          *)
(***************************************************************************)
EXTENDS Numbers

CONSTANTS BlockLen,         \* bytes of a cipher block (16)
          BATCH,            \* blocks a batch of cfb_decrypt and ctr_apply encrypts (8)
          encrypt_block(_), \* the block cipher under the derived key
          NonceLen,         \* bytes of ChaCha20's nonce (12)
          KeystreamLen,     \* bytes its keystream has (2^38)
          chacha20(_),      \* the keystream of a nonce under the derived key
          SeqWidth,         \* bytes of the sequence number in a block's nonce (8)
          ChaChaSeqWidth    \* and in ChaCha20's (4)

Block == [1..BlockLen -> Byte]

\* Nothing is asked of the ciphers but that one maps blocks to blocks and the
\* other nonces to bytes.
ASSUME BlockAssumption ==
    /\ BlockLen \in Nat \ {0} /\ BATCH \in Nat \ {0}
    /\ \A k \in Block : encrypt_block(k) \in Block

ASSUME ChaChaAssumption ==
    /\ NonceLen \in Nat \ {0} /\ KeystreamLen \in Nat \ {0}
    /\ SeqWidth \in 1..BlockLen /\ ChaChaSeqWidth \in 1..NonceLen
    /\ \A k \in [1..NonceLen -> Byte] : chacha20(k) \in [1..KeystreamLen -> Byte]

Word(v) == [hi |-> (v \div Half) % Half, lo |-> v % Half]

LowByte(x) == x.lo % 256

----------------------------------------------------------------------------
(* u32 arithmetic *)

\* All 32 bits of the product of two 16-bit numbers.
Product(x, y) ==
    LET p == (x \div 256) * y
        q == (x % 256) * y
        s == (p % 256) * 256 + (q % Half)
    IN [hi |-> (p \div 256) + (q \div Half) + (s \div Half), lo |-> s % Half]

wrapping_mul(x, y) ==
    LET p == Product(x.lo, y.lo)
    IN [hi |-> (p.hi + Product(x.hi, y.lo).lo + Product(x.lo, y.hi).lo) % Half,
        lo |-> p.lo]

wrapping_add(x, y) ==
    LET s == x.lo + y.lo
    IN [hi |-> (x.hi + y.hi + (s \div Half)) % Half, lo |-> s % Half]

----------------------------------------------------------------------------
(* The LCG *)

LCG_A == Word(1103515245)
LCG_C == Word(12345)
LCG_A2 == wrapping_mul(LCG_A, LCG_A)
LCG_A3 == wrapping_mul(LCG_A2, LCG_A)

LCG_C2 == wrapping_mul(LCG_C, wrapping_add(LCG_A, Word(1)))
LCG_C3 == wrapping_add(wrapping_add(wrapping_mul(LCG_C, LCG_A2), wrapping_mul(LCG_C, LCG_A)), LCG_C)

\* 31 bits of the upper halves of three consecutive LCG states.
Mix(n1, n2, n3) == (n1.hi % 2048) * 1048576 + (n2.hi % 1024) * 1024 + (n3.hi % 1024)

\* The three states as three independent affine maps of the seed.
lcg_next(seed) ==
    LET Jump(a, c) == wrapping_add(wrapping_mul(seed, a), c)
    IN Mix(Jump(LCG_A, LCG_C), Jump(LCG_A2, LCG_C2), Jump(LCG_A3, LCG_C3))

lcg_range(seed, min, max) == (lcg_next(seed) % (max - min + 1)) + min

----------------------------------------------------------------------------
(* Permutation, delta coding, masking *)

Swap(d, i, j) ==
    [n \in DOMAIN d |-> IF n = i THEN d[j] ELSE IF n = j THEN d[i] ELSE d[n]]

\* Where position i (from 1) is swapped to: (i ^ key) % size on u32.
Partner(i, key, size) ==
    ((((key.hi % size) * (Half % size)) + xor16(key.lo, i - 1)) % size) + 1

\* The buffer after each swap, first to last.
Swapped(d, key) ==
    LET e[i \in 0..Len(d)] ==
            IF i = 0 THEN d ELSE Swap(e[i - 1], i, Partner(i, key, Len(d)))
    IN e

\* The buffer after each swap, last to first.
Unswapped(d, key) ==
    LET e[i \in 0..Len(d)] ==
            IF i = 0 THEN d
            ELSE LET n == Len(d) + 1 - i IN Swap(e[i - 1], n, Partner(n, key, Len(d)))
    IN e

shuffle(d, key)   == Swapped(d, key)[Len(d)]
unshuffle(d, key) == Unswapped(d, key)[Len(d)]

delta_encode(d, kf8) ==
    [i \in DOMAIN d |-> (d[i] - (IF i = 1 THEN kf8 ELSE d[i - 1])) % 256]

\* The byte before each position of the decoded buffer.
Undone(d, kf8) ==
    LET prev[i \in 0..Len(d)] == IF i = 0 THEN kf8 ELSE (prev[i - 1] + d[i]) % 256
    IN prev

delta_decode(d, kf8) == [i \in DOMAIN d |-> Undone(d, kf8)[i]]

\* The keys of the first c + 1 chunks: each output is the next seed.
ChunkKeys(kf, c) ==
    LET key[n \in 0..c] ==
            IF n = 0 THEN Word(lcg_next(kf)) ELSE Word(lcg_next(key[n - 1]))
    IN key

\* Byte n (from 0) of a u32, little endian.
ByteOf(x, n) == ((IF n < 2 THEN x.lo ELSE x.hi) \div (IF n % 2 = 0 THEN 1 ELSE 256)) % 256

\* Words of four bytes, then a half word, then a byte, each under its own key.
masked_xor_random_next(d, kf) ==
    LET words == Len(d) \div 4
        Chunk(i) == IF i <= 4 * words THEN (i - 1) \div 4
                    ELSE words + ((i - 4 * words - 1) \div 2)
        Offset(i) == IF i <= 4 * words THEN (i - 1) % 4 ELSE (i - 4 * words - 1) % 2
    IN [i \in DOMAIN d |-> xor8(d[i], ByteOf(ChunkKeys(kf, Chunk(i))[Chunk(i)], Offset(i)))]

----------------------------------------------------------------------------
(* Cipher modes *)

\* A number as bytes or a block, big endian, and back.
Bytes(n, len) == [i \in 1..len |-> Quotients(n, 256, len)[len - i] % 256]
BlockOf(n) == Bytes(n, BlockLen)
BlockValue(k) == FromDigits(k, 256)

\* The n-th block of a buffer; the block of byte i, and its place in it.
Piece(d, n) == [j \in 1..BlockLen |-> d[(n - 1) * BlockLen + j]]
PieceOf(i)  == ((i - 1) \div BlockLen) + 1
PlaceOf(i)  == ((i - 1) % BlockLen) + 1

XorWith(d, ks) == [i \in DOMAIN d |-> xor8(d[i], ks[i])]

\* The low bytes of the sequence number xored into those of the base IV.
Nonce(iv, seq, len, width) ==
    [i \in 1..len |-> IF i > len - width THEN xor8(Bytes(iv, len)[i], Bytes(seq, len)[i])
                      ELSE Bytes(iv, len)[i]]

next_nonce(cipher) ==
    IF cipher.method = "chacha20" THEN Nonce(cipher.iv, cipher.seq, NonceLen, ChaChaSeqWidth)
    ELSE Nonce(cipher.iv, cipher.seq, BlockLen, SeqWidth)

\* The ciphertext of each full block: its keystream is the cipher of the
\* ciphertext before it.
Feedback(d, iv) ==
    LET fb[n \in 0..(Len(d) \div BlockLen)] ==
            IF n = 0 THEN iv ELSE XorWith(Piece(d, n), encrypt_block(fb[n - 1]))
    IN fb

\* xor_tail: the last, shorter block takes the front of its keystream.
cfb_encrypt(d, iv) ==
    [i \in DOMAIN d |-> xor8(d[i], encrypt_block(Feedback(d, iv)[PieceOf(i) - 1])[PlaceOf(i)])]

\* Blocks done when b batches of nb blocks are.
Done(b, nb) == IF b * BATCH < nb THEN b * BATCH ELSE nb

\* Blocks i + 1 to j of the buffer, decrypted in place: the keystream is that
\* of prev and of the batch's own ciphertext.
DecryptedBatch(s, i, j) ==
    LET Feed(n) == IF n = i + 1 THEN s.prev ELSE Piece(s.data, n - 1)
    IN [x \in DOMAIN s.data |->
           IF PieceOf(x) \in (i + 1)..j
           THEN xor8(s.data[x], encrypt_block(Feed(PieceOf(x)))[PlaceOf(x)])
           ELSE s.data[x]]

\* Mutant: the last block is taken for the next batch when it is plaintext.
DecryptBatchLate(s, i, j) ==
    [data |-> DecryptedBatch(s, i, j), prev |-> Piece(DecryptedBatch(s, i, j), j)]

\* The batch's last ciphertext is saved before the batch is overwritten.
DecryptBatch(s, i, j) ==
    [data |-> DecryptedBatch(s, i, j), prev |-> Piece(s.data, j)]

\* The buffer and the ciphertext that feeds the next block, after each batch.
Batches(d, iv) ==
    LET nb == Len(d) \div BlockLen
        s[b \in 0..((nb + BATCH - 1) \div BATCH)] ==
            IF b = 0 THEN [data |-> d, prev |-> iv]
            ELSE DecryptBatch(s[b - 1], Done(b - 1, nb), Done(b, nb))
    IN s

\* All full blocks, then xor_tail.
cfb_decrypt(d, iv) ==
    LET nb   == Len(d) \div BlockLen
        last == Batches(d, iv)[(nb + BATCH - 1) \div BATCH]
    IN [i \in DOMAIN d |-> IF PieceOf(i) <= nb THEN last.data[i]
                           ELSE xor8(last.data[i], encrypt_block(last.prev)[PlaceOf(i)])]

\* Blocks are encrypted counters, from the nonce on, batch after batch.
ctr_apply(d, iv) ==
    [i \in DOMAIN d |->
        LET n       == PieceOf(i)
            counter == BlockValue(iv) + ((n - 1) \div BATCH) * BATCH
            k       == (n - 1) % BATCH
        IN xor8(d[i], encrypt_block(BlockOf(counter + k))[PlaceOf(i)])]

\* ChaCha20 is the library's: a keystream that depends on the nonce.
apply_keystream(d, nonce) ==
    [i \in DOMAIN d |-> xor8(d[i], chacha20(nonce)[((i - 1) % KeystreamLen) + 1])]

\* A cipher is its method, base IV and the number of the packet; the header
\* functions take an optional one.
NoCipher == [method |-> "none", iv |-> 0, seq |-> 0]

Encrypt(cipher, d) ==
    CASE cipher.method = "cfb"  -> cfb_encrypt(d, next_nonce(cipher))
      [] cipher.method = "ctr"  -> ctr_apply(d, next_nonce(cipher))
      [] cipher.method = "chacha20" -> apply_keystream(d, next_nonce(cipher))
      [] cipher.method = "none" -> d

Decrypt(cipher, d) ==
    CASE cipher.method = "cfb"  -> cfb_decrypt(d, next_nonce(cipher))
      [] cipher.method = "ctr"  -> ctr_apply(d, next_nonce(cipher))
      [] cipher.method = "chacha20" -> apply_keystream(d, next_nonce(cipher))
      [] cipher.method = "none" -> d

----------------------------------------------------------------------------
(* Binary frames *)

header_kf(kf, seed) == [Word(kf) EXCEPT !.lo = xor16(@, seed)]

\* Three bytes: a random one that seeds header_kf, and the encrypted length.
header_encrypt(kf, seed, protocol, len) ==
    LET hkf  == header_kf(kf, seed)
        body == Encrypt(protocol, <<(len - 1) \div 256, (len - 1) % 256>>)
        mask == [i \in 1..2 |-> xor8(body[i], LowByte(hkf))]
    IN delta_encode(<<seed>> \o shuffle(mask, hkf), LowByte(Word(kf)))

header_decrypt(kf, protocol, header) ==
    LET h    == delta_decode(header, LowByte(Word(kf)))
        hkf  == header_kf(kf, h[1])
        mask == unshuffle(SubSeq(h, 2, 3), hkf)
        body == Decrypt(protocol, [i \in 1..2 |-> xor8(mask[i], LowByte(hkf))])
    IN [len |-> body[1] * 256 + body[2] + 1, hkf |-> hkf]

payload_obfuscate(d, flags, hkf, kf) ==
    LET masked   == IF "masked" \in flags THEN masked_xor_random_next(d, hkf) ELSE d
        shuffled == IF "shuffle" \in flags THEN shuffle(masked, hkf) ELSE masked
    IN IF "delta" \in flags THEN delta_encode(shuffled, LowByte(Word(kf))) ELSE shuffled

payload_deobfuscate(d, flags, hkf, kf) ==
    LET plain   == IF "delta" \in flags THEN delta_decode(d, LowByte(Word(kf))) ELSE d
        ordered == IF "shuffle" \in flags THEN unshuffle(plain, hkf) ELSE plain
    IN IF "masked" \in flags THEN masked_xor_random_next(ordered, hkf) ELSE ordered
=============================================================================
