------------------------------- MODULE Proto --------------------------------
(***************************************************************************)
(* The fields inside a frame: the varint of a stream id or a length, the   *)
(* target address, and the SOCKS5 request the address is read from.        *)
(***************************************************************************)
EXTENDS Numbers, Result

CONSTANTS Cont,       \* the continuation flag, one past a byte's payload (0x80)
          MaxVarint,  \* bytes of the longest varint (5)
          LastLimit,  \* one past what its last byte may carry (0x10)
          MaxWord,    \* the largest number encoded (u32::MAX)
          PREFIX_MAX_FRAME  \* the longest message behind a length prefix

\* MaxVarint bytes hold every number, the last of them no more than it may.
ASSUME VarintAssumption ==
    /\ Cont \in Nat \ {0, 1} /\ MaxVarint \in Nat \ {0} /\ LastLimit \in 1..Cont
    /\ MaxWord \in Nat \ {0}
    /\ Quotients(MaxWord, Cont, MaxVarint)[MaxVarint - 1] < LastLimit

ASSUME PrefixAssumption == PREFIX_MAX_FRAME \in 1..MaxWord

\* Least significant group first, flagged while anything is left.
encode_varint(v) ==
    LET d == ToDigits(v, Cont, MaxVarint)
        n == Len(d)
    IN [i \in 1..n |-> IF i < n THEN d[n + 1 - i] + Cont ELSE d[n + 1 - i]]

\* The last byte may carry only what is left of the word.
TooWide(b, n) == n = MaxVarint /\ b >= LastLimit

\* Mutant: the end of the buffer ends the varint.
StopsShort(buf) == {i \in DOMAIN buf : i <= MaxVarint /\ buf[i] < Cont} \cup {Len(buf)}

\* Where a varint can end.
Stops(buf) == {i \in DOMAIN buf : i <= MaxVarint /\ buf[i] < Cont}

\* The value and its length; truncated, too long and too wide are one error.
decode_varint(buf) ==
    LET stop == Stops(buf)
        n    == CHOOSE i \in stop : \A j \in stop : i <= j
    IN IF stop = {} THEN Error
       ELSE IF TooWide(buf[n], n) THEN Error
       ELSE Ok([v |-> FromDigits([i \in 1..n |-> buf[n + 1 - i] % Cont], Cont), n |-> n])

\* The length prefix of a bonded carrier: wait, give up, or a length.
peek_prefix(buf) ==
    LET d == decode_varint(buf)
    IN IF d = Error THEN (IF Len(buf) >= MaxVarint THEN Error ELSE More)
       ELSE IF d.value.v \in 1..PREFIX_MAX_FRAME THEN d ELSE Error

----------------------------------------------------------------------------
ATYP_IPV4 == 1
ATYP_DOMAIN == 3
ATYP_IPV6 == 4

From(s, n) == SubSeq(s, n, Len(s))

be16(p) == <<p \div 256, p % 256>>

\* A name's characters; anything else is no domain.
NameOk(name) == name # <<>> /\ \A i \in DOMAIN name : name[i] \in 33..126

\* ProxyAddr: the octets of an IP address or the bytes of a name.
Addresses ==
    {a \in [atyp : {ATYP_IPV4, ATYP_DOMAIN, ATYP_IPV6}, host : Seq(Byte), port : U16] :
        \/ a.atyp = ATYP_IPV4 /\ Len(a.host) = 4
        \/ a.atyp = ATYP_IPV6 /\ Len(a.host) = 16
        \/ a.atyp = ATYP_DOMAIN /\ NameOk(a.host) /\ Len(a.host) <= 255}

\* The SOCKS5 request's address, read off the stream piece by piece: the
\* length of a name, the host, the port; what follows is left unread.
read_addr(s) ==
    LET dom   == s[1] = ATYP_DOMAIN
        first == IF dom THEN 3 ELSE 2
        len   == CASE s[1] = ATYP_IPV4 -> 4
                   [] s[1] = ATYP_IPV6 -> 16
                   [] dom /\ Len(s) > 1 -> s[2]
                   [] OTHER -> 0
        host  == SubSeq(s, first, first + len - 1)
        port  == first + len
    IN IF s = <<>> THEN Error
       ELSE IF len = 0 \/ Len(s) < port + 1 THEN Error
       ELSE IF dom /\ ~NameOk(host) THEN Error
       ELSE Ok([atyp |-> s[1], host |-> host, port |-> s[port] * 256 + s[port + 1]])

\* Bytes of the host of type atyp at the front of rest, its length byte
\* included; 0 if the type is unknown or that byte is missing.
HostLen(atyp, rest) ==
    CASE atyp = ATYP_IPV4 -> 4
      [] atyp = ATYP_IPV6 -> 16
      [] atyp = ATYP_DOMAIN /\ rest # <<>> -> 1 + rest[1]
      [] OTHER -> 0

\* ProxyAddr::decode: [ATYP][addr][port], and nothing after it.
Decode(buf) ==
    LET n    == IF buf = <<>> THEN 0 ELSE HostLen(buf[1], Tail(buf))
        skip == IF buf[1] = ATYP_DOMAIN THEN 3 ELSE 2
        host == SubSeq(buf, skip, n + 1)
    IN IF n = 0 \/ Len(buf) < n + 3 THEN Error
       ELSE IF buf[1] = ATYP_DOMAIN /\ ~NameOk(host) THEN Error
       ELSE IF Len(buf) > n + 3 THEN Error
       ELSE Ok([atyp |-> buf[1], host |-> host, port |-> buf[n + 2] * 256 + buf[n + 3]])

\* ProxyAddr::encode_into
EncodeInto(a) ==
    <<a.atyp>> \o (IF a.atyp = ATYP_DOMAIN THEN <<Len(a.host)>> ELSE <<>>) \o a.host \o be16(a.port)

----------------------------------------------------------------------------
Kinds == 0..4   \* OPEN, REPLY, DATA, EOF, CLOSE
OPEN == 0

FrameHeader(kind, stream) == <<kind>> \o encode_varint(stream)

parse_frame(msg) ==
    LET d == decode_varint(Tail(msg))
    IN IF msg = <<>> THEN Error
       ELSE IF msg[1] \notin Kinds \/ d = Error THEN Error
       ELSE Ok([kind |-> msg[1], stream |-> d.value.v, payload |-> From(msg, 2 + d.value.n)])
=============================================================================
