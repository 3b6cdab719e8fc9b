------------------------------- MODULE Codec --------------------------------
(***************************************************************************)
(* Every encoder against its decoder.  A job is one value to transfer, in  *)
(* one of the formats, with the random choices its encoder makes; it is    *)
(* encoded, possibly cut short by the carrier, and decoded.                *)
(***************************************************************************)
EXTENDS Base94, Proto

CONSTANT Jobs  \* the values to transfer

PPP_BUFFER_SIZE == 65536  \* longest plaintext of a frame

\* Every value a format carries, with every choice its encoder can draw: the
\* seed of a header, the seed byte and the filler of base94, the key bytes,
\* the noise, the separator and the padding of a session id.
VarintJob == [kind : {"varint"}, value : 0..MaxWord]
OpenJob   == [kind : {"open"}, stream : 0..MaxWord, value : Addresses]
Base94Job == [kind : {"base94"}, kf : Int, value : 1..BASE94_MAX_FRAME, first : BOOLEAN,
              k : Printable, fill : Printable]
HeaderJob == [kind : {"header"}, kf : Int, seed : Byte \ {0}, value : 1..PPP_BUFFER_SIZE]
PacketJob == [kind : {"packet"}, kf : Int, seed : Byte \ {0}, iv : Nat, seq : Nat,
              value : {d \in Seq(Byte) : Len(d) \in 1..PPP_BUFFER_SIZE},
              method : {"cfb", "ctr", "chacha20"}, flags : SUBSET {"masked", "shuffle", "delta"}]
IdJob     == {j \in [kind : {"id"}, kf : Int, value : 0..MaxId, kfs : [1..4 -> Byte],
                     noise : 1..MaxId, sep : 32..47, pad : Seq(Byte)] :
                 j.value = 0 <=> j.kfs[1] >= 128}

AllJobs == VarintJob \cup OpenJob \cup Base94Job \cup HeaderJob \cup PacketJob \cup IdJob

ASSUME JobsAssumption == Jobs \subseteq AllJobs

VARIABLES job,
          wire,   \* the encoded bytes, or what is left of them
          cut,    \* the carrier lost the tail
          out     \* the decoder's result

vars == <<job, wire, cut, out>>

\* A packet is one binary frame: header and body under the two ciphers, the
\* seq-th of its direction.
ProtocolOf(j)  == [method |-> j.method, iv |-> j.iv, seq |-> j.seq]
TransportOf(j) == [method |-> j.method, iv |-> j.iv + 1, seq |-> j.seq]

PacketOf(j) ==
    header_encrypt(j.kf, j.seed, ProtocolOf(j), Len(j.value))
      \o payload_obfuscate(Encrypt(TransportOf(j), j.value), j.flags,
                           header_kf(j.kf, j.seed), j.kf)

PacketIn(j, w) ==
    LET h    == header_decrypt(j.kf, ProtocolOf(j), SubSeq(w, 1, 3))
        body == payload_deobfuscate(SubSeq(w, 4, 3 + h.len), j.flags, h.hkf, j.kf)
    IN IF Len(w) < 3 THEN More
       ELSE IF Len(w) < 3 + h.len THEN More
       ELSE Ok(Decrypt(TransportOf(j), body))

\* The OPEN frame of a SOCKS5 request the client accepted.
OpenOf(j) == FrameHeader(OPEN, j.stream) \o EncodeInto(j.value)

OpenIn(w) ==
    LET f == parse_frame(w)
    IN IF f = Error THEN Error
       ELSE LET a == Decode(f.value.payload)
            IN IF a = Error THEN Error ELSE Ok(<<f.value.stream, a.value>>)

Encoded(j) ==
    CASE j.kind = "varint" -> encode_varint(j.value)
      [] j.kind = "open"   -> OpenOf(j)
      [] j.kind = "base94" -> encode_header(Framer(j.kf), j.value, j.first, j.k, j.fill)
      [] j.kind = "header" -> header_encrypt(j.kf, j.seed, NoCipher, j.value)
      [] j.kind = "packet" -> PacketOf(j)
      [] j.kind = "id"     -> pack_session_id(j.kf, j.kfs, j.value, j.noise, j.sep, j.pad)

Decoded(j, w) ==
    CASE j.kind = "varint" -> peek_prefix(w)
      [] j.kind = "open"   -> OpenIn(w)
      [] j.kind = "base94" -> peek_frame_len(Framer(j.kf), j.first, w)
      [] j.kind = "header" -> IF Len(w) < 3 THEN More ELSE Ok(header_decrypt(j.kf, NoCipher, w).len)
      [] j.kind = "packet" -> PacketIn(j, w)
      [] j.kind = "id"     -> unpack_session_id(j.kf, w)

Pending == [is |-> "pending"]

Init == job \in Jobs /\ wire = <<>> /\ cut = FALSE /\ out = Pending

EncodeJob ==
    /\ wire = <<>> /\ ~cut
    /\ wire' = Encoded(job)
    /\ UNCHANGED <<job, cut, out>>

Cut ==
    /\ wire # <<>> /\ ~cut /\ out = Pending
    /\ \E n \in 0..(Len(wire) - 1) : wire' = SubSeq(wire, 1, n)
    /\ cut' = TRUE
    /\ UNCHANGED <<job, out>>

DecodeJob ==
    /\ wire # <<>> \/ cut
    /\ out = Pending
    /\ out' = Decoded(job, wire)
    /\ UNCHANGED <<job, wire, cut>>

Next == EncodeJob \/ Cut \/ DecodeJob

Spec == Init /\ [][Next]_vars

----------------------------------------------------------------------------
(* Properties *)

Whole == out # Pending /\ ~cut

\* What goes through a field or a header comes out of it: every stream id,
\* every length up to its limit and none beyond, for every kf, every random byte of the
\* encoder and both header forms; every target the SOCKS5 front end accepts;
\* every session id, while noise is always recognised as noise.  The header
\* checksum xored with the longest length still fits the smallest modulus.
FieldsLossless ==
    Whole => /\ job.kind = "varint" =>
                   out = IF job.value \in 1..PREFIX_MAX_FRAME
                         THEN Ok([v |-> job.value, n |-> Len(wire)]) ELSE Error
             /\ job.kind = "open"   => out = Ok(<<job.stream, job.value>>)
             /\ job.kind = "base94" => out = Ok(Len(wire) + job.value)
             /\ job.kind = "header" => out = Ok(job.value)
             /\ job.kind = "id" =>
                   out = Ok(IF job.value = 0 THEN Dummy ELSE Session(job.value))

\* A body survives its cipher, at every length around the block, batch and
\* word boundaries, and the three transforms, in every combination of them.
PacketLossless == (Whole /\ job.kind = "packet") => out = Ok(job.value)

\* A decoder never makes a value out of the front of an encoding: it waits
\* for the rest or refuses.  (A session id is not self-delimiting; packets
\* carry it whole.)
PrefixWaits ==
    (cut /\ out # Pending /\ job.kind # "id") => out \in {More, Error}

=============================================================================
