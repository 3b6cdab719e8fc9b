------------------------------ MODULE MCCodec -------------------------------
(* Boundary values of every format. *)
EXTENDS Codec

\* Any map of blocks to blocks will do for the cipher.
MCBlockCipher(k) ==
    [i \in 1..BlockLen |-> (k[i] * 5 + k[(i % BlockLen) + 1] * 3 + 17 * i) % 256]

MCKeystream(k) ==
    [i \in 1..KeystreamLen |-> (k[1] * 7 + k[NonceLen] * i + 29 * i) % 256]

MCKfs == {0, 1, 154543927, -2, -154543927, 2147483647}

VarintJobs == [kind : {"varint"}, value : 0..MaxWord]

Name(n) == [i \in 1..n |-> 97 + (i % 26)]

\* SOCKS5 requests as they arrive; only those read_addr takes become jobs.
MCRequests ==
    LET Hosts == {<<1, 10, 0, 0, 1>>, <<3, 0>>, <<3>> \o <<2, 97, 32>>, <<2, 7, 7>>,
                  <<4>> \o [i \in 1..16 |-> i]}
                 \cup {<<3, n>> \o Name(n) : n \in {1, 2, 16, 255}}
    IN {h \o be16(p) : h \in Hosts, p \in {0, 255, 256, 65535}}

OpenJobs ==
    [kind : {"open"}, stream : {0, Cont - 1, Cont, MaxWord},
     value : {a.value : a \in {read_addr(r) : r \in MCRequests} \ {Error}}]

Lengths == {1, 93, 94, 95, 8836, 65536, 131071, BASE94_MAX_FRAME}

Base94Jobs ==
    [kind : {"base94"}, kf : MCKfs, value : Lengths, first : BOOLEAN,
     k : {32, 33, 125, 126}, fill : {32, 126}]

HeaderJobs ==
    [kind : {"header"}, kf : MCKfs, seed : {1, 128, 255}, value : {1, 2, 256, 257, 65535, 65536}]

Text(n) == [i \in 1..n |-> (i * 91 + 200) % 256]

PacketJobs ==
    [kind : {"packet"}, kf : {1, 154543927, -154543927}, seed : {1, 254}, iv : {513}, seq : {0, 257},
     value : {Text(n) : n \in 1..11}, method : {"cfb", "ctr", "chacha20"},
     flags : SUBSET {"masked", "shuffle", "delta"}]

IdJobs ==
    [kind : {"id"}, kf : MCKfs, value : {1, 42, 1000000007}, kfs : {<<0, 1, 1, 1>>, <<127, 255, 2, 9>>},
     noise : {1}, sep : {32, 47}, pad : {<<>>, <<57, 57, 47, 48>>}]
    \cup
    [kind : {"id"}, kf : MCKfs, value : {0}, kfs : {<<128, 1, 1, 1>>, <<255, 255, 2, 9>>},
     noise : {1, 7}, sep : {32}, pad : {<<>>}]

MCJobs == VarintJobs \cup OpenJobs \cup Base94Jobs \cup HeaderJobs \cup PacketJobs \cup IdJobs
=============================================================================
