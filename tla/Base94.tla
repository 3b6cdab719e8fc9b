------------------------------- MODULE Base94 -------------------------------
(***************************************************************************)
(* The base94 envelope's header and the session-id packet.  The base94     *)
(* body coding itself is a library's; only its length enters the header.   *)
(***************************************************************************)
EXTENDS Obfuscation, Result

CONSTANTS BASE94_MAX_FRAME,  \* longest encoded body
          MaxId,             \* largest session id (u128::MAX)
          DecimalLen         \* places of append_decimal's buffer (40)

HEADER_SIMPLE == 4
HEADER_EXTENDED == 7
MOD_MIN == 64 * 64 * 64
MOD_MAX == 94 * 94 * 94

ASSUME Base94Assumption == BASE94_MAX_FRAME \in 1..(MOD_MIN - 1)

\* Every session id fits append_decimal's buffer.
ASSUME DecimalAssumption ==
    /\ MaxId \in Nat \ {0} /\ DecimalLen \in Nat \ {0}
    /\ Quotients(MaxId, 10, DecimalLen)[DecimalLen] = 0

Zero == 32          \* 0x20, the base94 zero digit
Printable == 32..126

----------------------------------------------------------------------------
\* A number below MOD_MAX in base94 digits.
base94_decimal_encode(n) == LET d == ToDigits(n, 94, 3) IN [i \in DOMAIN d |-> d[i] + Zero]
base94_decimal_decode(d) ==
    IF \A i \in DOMAIN d : d[i] - Zero \in 0..93
      THEN Ok(FromDigits([i \in DOMAIN d |-> d[i] - Zero], 94))
      ELSE Error

\* Right-aligned in three places, zero padded.
Aligned3(d) == [i \in 1..(3 - Len(d)) |-> Zero] \o d

\* The length modulus and the obfuscation offset, both derived from kf.
Framer(kf) ==
    LET mod == lcg_range(Word(kf), MOD_MIN, MOD_MAX)
    IN [kf |-> kf, mod |-> mod, kf_mod |-> (IF kf < 0 THEN -kf ELSE kf) % mod]

\* RFC 1071 checksum of the four header bytes.
inet_chksum(d) ==
    LET sum    == (d[1] * 256 + d[2]) + (d[3] * 256 + d[4])
        folded == (sum % Half) + (sum \div Half)
    IN 65535 - folded

\* The seed byte: even over a filler in h[1], odd over a real digit.
SeedByte(k, filler) ==
    IF filler THEN (IF k % 2 = 0 THEN k ELSE k + 1)
    ELSE IF k % 2 = 1 THEN k ELSE IF k = 126 THEN 33 ELSE k + 1

\* Mutant: a length of three digits is covered by the filler too.
encode_headerFilled(f, len, first, k, fill) ==
    LET d == Aligned3(base94_decimal_encode((len + f.kf_mod) % f.mod))
        h == <<SeedByte(k, TRUE), fill, d[3], d[2]>>
        chk == xor32(inet_chksum(h), len)
        c == Aligned3(base94_decimal_encode((chk + f.kf_mod) % f.mod))
    IN IF first THEN h \o shuffle(c, Word(f.kf)) ELSE h

\* A header for an encoded body of len characters; k and fill are random.
encode_header(f, len, first, k, fill) ==
    LET d == Aligned3(base94_decimal_encode((len + f.kf_mod) % f.mod))
        filler == d[1] = Zero
        h == <<SeedByte(k, filler), IF filler THEN fill ELSE d[1], d[3], d[2]>>
        chk == xor32(inet_chksum(h), len)
        c == Aligned3(base94_decimal_encode((chk + f.kf_mod) % f.mod))
    IN IF first THEN h \o shuffle(c, Word(f.kf)) ELSE h

\* restore_header: the digits in order, without the filler.
restore_header(h) == <<IF h[1] % 2 = 0 THEN Zero ELSE h[2], h[4], h[3]>>

decode_length(f, d) ==
    LET n == base94_decimal_decode(d)
    IN IF n = Error THEN Error ELSE Ok((n.value + f.mod - f.kf_mod) % f.mod)

check_bound(len) == IF len \in 1..BASE94_MAX_FRAME THEN Ok(len) ELSE Error

\* The body length a complete header announces.
decode_header(f, first, h) ==
    LET len == decode_length(f, restore_header(h))
        c   == decode_length(f, unshuffle(SubSeq(h, 5, 7), Word(f.kf)))
    IN IF len = Error THEN Error
       ELSE IF first /\ c # Ok(xor32(inet_chksum(SubSeq(h, 1, 4)), len.value)) THEN Error
       ELSE check_bound(len.value)

\* What an incremental reader sees at the front of its buffer: nothing yet, a
\* header that is none, or the length of the whole frame.
peek_frame_len(f, first, buf) ==
    LET header == IF first THEN HEADER_EXTENDED ELSE HEADER_SIMPLE
        len    == decode_header(f, first, buf)
    IN IF Len(buf) < header THEN More
       ELSE IF len = Error THEN Error ELSE Ok(header + len.value)

----------------------------------------------------------------------------
(* Session-id packets *)

\* The four xor rounds, each under kf and the key bytes so far.
Rounds(body, kf, kfs) ==
    LET k1 == xor8(LowByte(Word(kf)), kfs[1])
        k2 == xor8(k1, kfs[2])
        k3 == xor8(k2, kfs[3])
        k4 == xor8(k3, kfs[4])
    IN [j \in DOMAIN body |-> xor8(xor8(xor8(xor8(body[j], k1), k2), k3), k4)]

append_decimal(n) == LET d == ToDigits(n, 10, DecimalLen) IN [i \in DOMAIN d |-> d[i] + 48]

\* kfs[1] has its top bit set in a dummy; noise, sep and pad are random, sep
\* is never a digit.
pack_session_id(kf, kfs, id, noise, sep, pad) ==
    kfs \o Rounds(append_decimal(IF id = 0 THEN noise ELSE id) \o <<sep>> \o pad, kf, kfs)

\* The decimal prefix; the first byte that is no digit ends it.
DigitRun(body) ==
    LET stop == {i \in DOMAIN body : body[i] \notin 48..57} \cup {Len(body) + 1}
    IN (CHOOSE i \in stop : \A j \in stop : i <= j) - 1

\* SessionPacket
Dummy       == [packet |-> "dummy"]
Session(id) == [packet |-> "session", id |-> id]

\* A dummy is not decoded; more than a u128 is an error.
unpack_session_id(kf, p) ==
    LET body == Rounds(SubSeq(p, 5, Len(p)), kf, SubSeq(p, 1, 4))
        id   == FromDigits([i \in 1..DigitRun(body) |-> body[i] - 48], 10)
    IN IF Len(p) < 4 THEN Error
       ELSE IF p[1] >= 128 THEN Ok(Dummy)
       ELSE IF DigitRun(body) = 0 \/ id > MaxId THEN Error
       ELSE Ok(Session(id))
=============================================================================
