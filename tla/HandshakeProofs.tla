-------------------------- MODULE HandshakeProofs ---------------------------
(***************************************************************************)
(* Proofs about the session handshake: for every set of configurations,    *)
(* every buffer size and every number of data frames, ends that share      *)
(* their secrets never misread each other, and a client that completes     *)
(* with such a server agrees with it; all other ends keep to their types.  *)
(*                                                                         *)
(* Between ends of the same secrets each direction is a chain (Chain):     *)
(* noise, the id, the answer (server only), then data.  What may follow a  *)
(* packet, what the reader may find first and what the writer wrote last   *)
(* are the three local facts that every step keeps; together they say that *)
(* the reader's switches fall between the packets the writer's fell        *)
(* between.  Between other ends no packet is readable (Apart).             *)
(***************************************************************************)
EXTENDS Handshake, SequenceTheorems, TLAPS

(***************************************************************************)
(* The packets of each direction                                           *)
(***************************************************************************)
At(x, c, v) == [shell |-> Shell(key[x], c), val |-> v]

IvvV  == [type |-> "ivv", role |-> want]
SidV  == [type |-> "sid"]
NmuxV == [type   |-> "nmux",
          canary |-> FlagCanary(key[Server]),
          mux    |-> Effective(want) = "MuxTunnel"]
DataV == [type |-> "data"]

\* The noise, the id, the answer and the data of a direction; the client has
\* no answer to send.
Stream(x) ==
  [nop  |-> At(x, Fresh, Dummy),
   id   |-> At(x, Fresh, IF x = Client THEN IvvV ELSE SidV),
   ans  |-> IF x = Client THEN At(x, Rekeyed, DataV) ELSE At(x, Fresh, NmuxV),
   data |-> At(x, Rekeyed, DataV)]

\* What the first packet on its way to x carries.
Value(x) == Head(wire[Peer(x)]).val

Packets(P) == {P.nop, P.id, P.ans, P.data}

\* What x, which sends the packets P, may send right after q.
After(x, P, q) ==
  IF q = P.nop THEN {P.nop, P.id}
  ELSE IF q = P.id /\ x = Server THEN {P.ans} ELSE {P.data}

\* What x, having got to state p, sent last.
Written(x, P, p) ==
  IF p = "nop" THEN {P.nop}
  ELSE IF p # "done" THEN {P.id}
  ELSE IF x = Server THEN {P.ans, P.data} ELSE {P.id, P.data}

\* What an end that reads from x in state r may find first.
Expected(P, r) ==
  IF r \in {"nop", "sid", "ivv"} THEN {P.nop, P.id}
  ELSE IF r = "nmux" THEN {P.ans} ELSE {P.data}

\* Nothing is in flight from x, in state p, to its reader, in state r.
Level(x, p, r) ==
  IF r \in {"nop", "sid", "ivv"} THEN p = "nop"
  ELSE IF r = "nmux" THEN p \in {"ivv", "answer"}
  ELSE IF x = Server THEN p = "done" ELSE p \in {"sid", "nmux", "done"}

(***************************************************************************)
(* The invariant                                                           *)
(***************************************************************************)
\* The packets W in flight from x, in state p, to a reader in state r are
\* a chain between what the one sent last and what the other expects first.
FlowOK(x, P, W, p, r) ==
  /\ W \in Seq(Packets(P))
  /\ \A i \in 1..(Len(W) - 1) : W[i + 1] \in After(x, P, W[i])
  /\ W # <<>> /\ r # "failed" => W[1] \in Expected(P, r)
  /\ W # <<>> /\ p # "failed" => W[Len(W)] \in Written(x, P, p)
  /\ W = <<>> /\ p # "failed" /\ r # "failed" => Level(x, p, r)

\* The skip budget b of a reader in state r covers the noise in flight, and
\* the t packets of it a sender in state p still has to send.
NoiseOK(P, W, p, r, t, b) ==
  r \in {"nop", "sid", "ivv"} =>
    /\ p = "nop" => Len(W) + t =< b
    /\ \A i \in 1..Len(W) : W[i] = P.nop => i =< b

\* The data in flight is data the sender, in state p, sent (s of them) and
\* the reader has not read (g of them).
CountOK(P, W, p, s, g) ==
  /\ g =< s
  /\ p \notin {"done", "failed"} => \A i \in 1..Len(W) : W[i] # P.data
  /\ \A i \in 1..Len(W) : W[i] = P.data => (Len(W) - i) + 1 + g =< s

Flow(x)  == FlowOK(x, Stream(x), wire[x], pc[x], pc[Peer(x)])
Noise(x) == SameKey => NoiseOK(Stream(x), wire[x], pc[x], pc[Peer(x)],
                               todo[x], budget[Peer(x)])
Count(x) == CountOK(Stream(x), wire[x], pc[x], sent[x], got[Peer(x)])

Live(x) == pc[x] # "failed"

\* The state of an end follows its place in the handshake.
ClientOK ==
  /\ pc[Client] \in {"nop", "sid", "nmux", "done", "failed"}
  /\ Live(Client) =>
       /\ tx[Client] = IF pc[Client] = "nop" THEN Fresh ELSE Rekeyed
       /\ rx[Client] = IF pc[Client] = "done" THEN Rekeyed ELSE Fresh
       /\ role[Client] = IF pc[Client] = "done" THEN want ELSE "none"
       /\ sid[Client] = IF pc[Client] \in {"nmux", "done"} THEN "sid" ELSE "none"
       /\ err[Client] = "none"

ServerOK ==
  /\ pc[Server] \in {"nop", "ivv", "answer", "done", "failed"}
  /\ Live(Server) =>
       /\ tx[Server] = IF pc[Server] = "done" THEN Rekeyed ELSE Fresh
       /\ rx[Server] = IF pc[Server] = "done" THEN Rekeyed ELSE Fresh
       /\ role[Server] =
            IF pc[Server] \in {"answer", "done"} THEN Effective(want) ELSE "none"
       /\ sid[Server] = IF pc[Server] = "done" THEN "sid" ELSE "none"
       /\ err[Server] = "none"

\* The server answered, and keeps what it answered.
Answered == sid[Server] = "sid" /\ role[Server] = Effective(want)

\* The two configurations encode data alike.
Match == FlagCanary(key[Client]) = FlagCanary(key[Server])

Holds(W, q) == \E i \in 1..Len(W) : W[i] = q

\* What a packet in flight, or a state reached, tells of the other end.
Promises ==
  /\ Holds(wire[Server], Stream(Server).ans) => Answered
  /\ Holds(wire[Client], Stream(Client).data) => Match
  /\ pc[Client] = "done" => Answered /\ Match /\ Effective(want) = want

\* Ends of the same secrets.
Chain ==
  /\ SameSecret
  /\ TypeOK
  /\ DOMAIN wire = Sides
  /\ ClientOK
  /\ ServerOK
  /\ Promises
  /\ \A x \in Sides : Flow(x) /\ Noise(x) /\ Count(x)
  /\ CipherSync

\* What x may send, whatever its peer made of it.
Vals ==
  {Dummy, IvvV, SidV, DataV}
    \cup [type : {"nmux"}, canary : {FlagCanary(key[Server])}, mux : BOOLEAN]
Sendable(x) == {At(x, c, v) : c \in {Fresh, Rekeyed}, v \in Vals}

\* Ends of different secrets.
Apart ==
  /\ ~SameSecret
  /\ TypeOK
  /\ DOMAIN wire = Sides
  /\ \A x \in Sides : wire[x] \in Seq(Sendable(x))

HsInv == Chain \/ Apart

(***************************************************************************)
(* What the NOP exponents allow                                            *)
(***************************************************************************)
\* The powers of two of the exponents a configuration may hold.
LEMMA Powers == \A n \in 0..20 : 2 ^ n \in Nat /\ 2 ^ n >= 1
<1> SUFFICES ASSUME NEW n \in 0..20 PROVE 2 ^ n \in Nat /\ 2 ^ n >= 1
  OBVIOUS
<1>1. CASE n = 0
  BY <1>1, 2 ^ 0 = 1
<1>2. CASE n = 1
  BY <1>2, 2 ^ 1 = 2
<1>3. CASE n = 2
  BY <1>3, 2 ^ 2 = 4
<1>4. CASE n = 3
  BY <1>4, 2 ^ 3 = 8
<1>5. CASE n = 4
  BY <1>5, 2 ^ 4 = 16
<1>6. CASE n = 5
  BY <1>6, 2 ^ 5 = 32
<1>7. CASE n = 6
  BY <1>7, 2 ^ 6 = 64
<1>8. CASE n = 7
  BY <1>8, 2 ^ 7 = 128
<1>9. CASE n = 8
  BY <1>9, 2 ^ 8 = 256
<1>10. CASE n = 9
  BY <1>10, 2 ^ 9 = 512
<1>11. CASE n = 10
  BY <1>11, 2 ^ 10 = 1024
<1>12. CASE n = 11
  BY <1>12, 2 ^ 11 = 2048
<1>13. CASE n = 12
  BY <1>13, 2 ^ 12 = 4096
<1>14. CASE n = 13
  BY <1>14, 2 ^ 13 = 8192
<1>15. CASE n = 14
  BY <1>15, 2 ^ 14 = 16384
<1>16. CASE n = 15
  BY <1>16, 2 ^ 15 = 32768
<1>17. CASE n = 16
  BY <1>17, 2 ^ 16 = 65536
<1>18. CASE n = 17
  BY <1>18, 2 ^ 17 = 131072
<1>19. CASE n = 18
  BY <1>19, 2 ^ 18 = 262144
<1>20. CASE n = 19
  BY <1>20, 2 ^ 19 = 524288
<1>21. CASE n = 20
  BY <1>21, 2 ^ 20 = 1048576
<1> QED
  BY <1>1, <1>2, <1>3, <1>4, <1>5, <1>6, <1>7, <1>8, <1>9, <1>10, <1>11,
     <1>12, <1>13, <1>14, <1>15, <1>16, <1>17, <1>18, <1>19, <1>20, <1>21

\* A reader's budget is a natural number and covers every prelude a sender of
\* the same configuration may choose.
LEMMA NopFacts ==
  ASSUME NEW k \in KeyShape
  PROVE  /\ MaxNopPackets(k) \in Nat
         /\ \A n \in NopRounds(k) : n \in Nat /\ n =< MaxNopPackets(k)
<1> DEFINE lo == IF k.kl > k.kh THEN k.kh ELSE k.kl
           hi == IF k.kl > k.kh THEN k.kl ELSE k.kh
<1>1. lo \in 0..20 /\ hi \in 0..20
  BY DEF KeyShape
<1>2. 2 ^ lo \in Nat /\ 2 ^ lo >= 1 /\ 2 ^ hi \in Nat /\ 2 ^ hi >= 1
  BY <1>1, Powers
<1>3. ASSUME NEW a \in Nat, a >= 1
      PROVE  CeilDiv(a, 1400) \in Nat /\ CeilDiv(a, 1400) =< a
  BY <1>3 DEF CeilDiv
<1>4. /\ MaxNopPackets(k) = 2 ^ hi
      /\ NopRounds(k) = CeilDiv(2 ^ lo, 1400) .. CeilDiv(2 ^ hi, 1400)
  BY DEF MaxNopPackets, NopRounds
<1>5. /\ CeilDiv(2 ^ lo, 1400) \in Nat
      /\ CeilDiv(2 ^ hi, 1400) \in Nat /\ CeilDiv(2 ^ hi, 1400) =< 2 ^ hi
  BY <1>2, <1>3
<1> HIDE DEF lo, hi
<1> QED
  BY <1>2, <1>4, <1>5

(***************************************************************************)
(* The packets are told apart                                              *)
(***************************************************************************)
Distinct(x, P) ==
  /\ P.nop # P.id /\ P.nop # P.ans /\ P.nop # P.data /\ P.id # P.data
  /\ x = Server => P.id # P.ans /\ P.ans # P.data
  /\ x = Client => P.ans = P.data

\* The packets of a direction are different values, in the shell of their stage.
LEMMA StreamFacts ==
  ASSUME NEW x \in Sides
  PROVE  /\ Distinct(x, Stream(x))
         /\ Stream(x).nop.val = Dummy
         /\ Stream(x).id.val = IF x = Client THEN IvvV ELSE SidV
         /\ x = Server => Stream(x).ans.val = NmuxV
         /\ Stream(x).data.val = DataV
         /\ Dummy \notin {IvvV, SidV, NmuxV, DataV}
         /\ Stream(x).nop.shell = Shell(key[x], Fresh)
         /\ Stream(x).id.shell = Shell(key[x], Fresh)
         /\ x = Server => Stream(x).ans.shell = Shell(key[x], Fresh)
         /\ Stream(x).data.shell = Shell(key[x], Rekeyed)
<1>1. /\ Dummy.type = "dummy" /\ IvvV.type = "ivv" /\ SidV.type = "sid"
      /\ NmuxV.type = "nmux" /\ DataV.type = "data"
  BY DEF Dummy, IvvV, SidV, NmuxV, DataV
<1>2. /\ Stream(x).nop = At(x, Fresh, Dummy)
      /\ Stream(x).id = At(x, Fresh, IF x = Client THEN IvvV ELSE SidV)
      /\ Stream(x).ans = IF x = Client THEN At(x, Rekeyed, DataV) ELSE At(x, Fresh, NmuxV)
      /\ Stream(x).data = At(x, Rekeyed, DataV)
  BY DEF Stream
<1>3. \A c, v : At(x, c, v).val = v /\ At(x, c, v).shell = Shell(key[x], c)
  BY DEF At
<1>4. /\ Stream(x).nop.val = Dummy
      /\ Stream(x).id.val = IF x = Client THEN IvvV ELSE SidV
      /\ Stream(x).ans.val = IF x = Client THEN DataV ELSE NmuxV
      /\ Stream(x).data.val = DataV
  BY <1>2, <1>3
<1>5. Distinct(x, Stream(x))
  BY <1>1, <1>2, <1>4 DEF Distinct, Client, Server
<1>6. /\ Stream(x).nop.shell = Shell(key[x], Fresh)
      /\ Stream(x).id.shell = Shell(key[x], Fresh)
      /\ x = Server => Stream(x).ans.shell = Shell(key[x], Fresh)
      /\ Stream(x).data.shell = Shell(key[x], Rekeyed)
  BY <1>2, <1>3 DEF Client, Server
<1> QED
  BY <1>1, <1>4, <1>5, <1>6 DEF Client, Server

\* Steps leave the configuration alone, and with it the packets.
LEMMA StreamKept ==
  ASSUME UNCHANGED config
  PROVE  /\ \A x \in Sides : Stream(x)' = Stream(x)
         /\ SameKey' = SameKey /\ SameSecret' = SameSecret
         /\ Effective(want)' = Effective(want)
         /\ Match' = Match
BY DEF config, Stream, At, IvvV, SidV, NmuxV, DataV, Effective, SameKey, SameSecret, Match

(***************************************************************************)
(* What a write, a read and a close do to a direction                      *)
(***************************************************************************)
\* A sequence after a write.
LEMMA Appended ==
  ASSUME NEW S, NEW W \in Seq(S), NEW q \in S
  PROVE  /\ Append(W, q) \in Seq(S)
         /\ Append(W, q) # <<>>
         /\ Len(Append(W, q)) = Len(W) + 1
         /\ Len(W) \in Nat
         /\ W = <<>> <=> Len(W) = 0
         /\ \A i \in 1..Len(W) : Append(W, q)[i] = W[i]
         /\ Append(W, q)[Len(W) + 1] = q
         /\ \A i \in 1..Len(W) : W[i] \in S
BY EmptySeq

\* A sequence after a read.
LEMMA Taken ==
  ASSUME NEW S, NEW W \in Seq(S), W # <<>>
  PROVE  /\ Tail(W) \in Seq(S)
         /\ Len(W) \in Nat \ {0}
         /\ Len(Tail(W)) = Len(W) - 1
         /\ Tail(W) = <<>> <=> Len(W) = 1
         /\ \A i \in 1..Len(Tail(W)) : Tail(W)[i] = W[i + 1]
         /\ Head(W) = W[1]
         /\ W[1] \in S
<1>1. Len(W) \in Nat \ {0}
  BY EmptySeq
<1>2. Tail(W) \in Seq(S) /\ Len(Tail(W)) = Len(W) - 1
  BY <1>1
<1>3. \A i \in 1..Len(Tail(W)) : Tail(W)[i] = W[i + 1]
  BY <1>1, <1>2
<1>4. Tail(W) = <<>> <=> Len(W) = 1
  BY <1>1, <1>2, EmptySeq
<1> QED
  BY <1>1, <1>2, <1>3, <1>4

\* A sequence after a close.
LEMMA Cut ==
  ASSUME NEW S, NEW W \in Seq(S), NEW n \in 0..Len(W)
  PROVE  /\ SubSeq(W, 1, n) \in Seq(S)
         /\ Len(SubSeq(W, 1, n)) = n
         /\ Len(W) \in Nat
         /\ W = <<>> <=> Len(W) = 0
         /\ SubSeq(W, 1, n) = <<>> <=> n = 0
         /\ \A i \in 1..n : SubSeq(W, 1, n)[i] = W[i]
<1>1. Len(W) \in Nat
  OBVIOUS
<1>2. \A i \in 1..n : W[i] \in S
  BY <1>1
<1>3. SubSeq(W, 1, n) \in Seq(S) /\ Len(SubSeq(W, 1, n)) = n
  BY <1>1, <1>2
<1> QED
  BY <1>1, <1>3, EmptySeq

\* A packet in flight was in flight before, unless it was just written.
LEMMA HoldsFacts ==
  ASSUME NEW S, NEW W \in Seq(S), NEW q
  PROVE  /\ \A p \in S : Holds(Append(W, p), q) => Holds(W, q) \/ p = q
         /\ W # <<>> => (Holds(Tail(W), q) => Holds(W, q))
         /\ \A n \in 0..Len(W) : Holds(SubSeq(W, 1, n), q) => Holds(W, q)
         /\ W # <<>> => (W[1] = q => Holds(W, q))
<1>1. ASSUME NEW p \in S, Holds(Append(W, p), q) PROVE Holds(W, q) \/ p = q
  <2>1. PICK i \in 1..Len(Append(W, p)) : Append(W, p)[i] = q
    BY <1>1 DEF Holds
  <2> QED
    BY <2>1, Appended DEF Holds
<1>2. ASSUME W # <<>>, Holds(Tail(W), q) PROVE Holds(W, q)
  <2>1. PICK i \in 1..Len(Tail(W)) : Tail(W)[i] = q
    BY <1>2 DEF Holds
  <2>2. i + 1 \in 1..Len(W) /\ W[i + 1] = q
    BY <1>2, <2>1, Taken
  <2> QED
    BY <2>2 DEF Holds
<1>3. ASSUME NEW n \in 0..Len(W), Holds(SubSeq(W, 1, n), q) PROVE Holds(W, q)
  <2>1. PICK i \in 1..Len(SubSeq(W, 1, n)) : SubSeq(W, 1, n)[i] = q
    BY <1>3 DEF Holds
  <2>2. i \in 1..Len(W) /\ W[i] = q
    BY <1>3, <2>1, Cut
  <2> QED
    BY <2>2 DEF Holds
<1>4. ASSUME W # <<>>, W[1] = q PROVE Holds(W, q)
  BY <1>4, Taken DEF Holds
<1> QED
  BY <1>1, <1>2, <1>3, <1>4

\* A write keeps the chain if the packet may follow what x wrote last.
LEMMA FlowSend ==
  ASSUME NEW x, NEW P, NEW W, NEW p, NEW p2, NEW r, NEW q,
         FlowOK(x, P, W, p, r),
         p # "failed",
         q \in Packets(P),
         \A l \in Written(x, P, p) : q \in After(x, P, l),
         q \in Written(x, P, p2),
         r # "failed" /\ Level(x, p, r) => q \in Expected(P, r)
  PROVE  FlowOK(x, P, Append(W, q), p2, r)
<1> DEFINE V == Append(W, q)
<1>1. W \in Seq(Packets(P))
  BY DEF FlowOK
<1>2. /\ V \in Seq(Packets(P)) /\ V # <<>> /\ Len(V) = Len(W) + 1 /\ Len(W) \in Nat
      /\ W = <<>> <=> Len(W) = 0
      /\ \A i \in 1..Len(W) : V[i] = W[i]
      /\ V[Len(W) + 1] = q
  BY <1>1, Appended
<1> HIDE DEF V
<1>3. \A i \in 1..(Len(V) - 1) : V[i + 1] \in After(x, P, V[i])
  <2> SUFFICES ASSUME NEW i \in 1..(Len(V) - 1) PROVE V[i + 1] \in After(x, P, V[i])
    OBVIOUS
  <2>1. CASE i < Len(W)
    <3>1. i \in 1..(Len(W) - 1) /\ V[i + 1] = W[i + 1] /\ V[i] = W[i]
      BY <1>2, <2>1
    <3> QED
      BY <3>1 DEF FlowOK
  <2>2. CASE i = Len(W)
    <3>1. W # <<>> /\ V[i] = W[Len(W)] /\ V[i + 1] = q
      BY <1>2, <2>2
    <3>2. W[Len(W)] \in Written(x, P, p)
      BY <3>1 DEF FlowOK
    <3> QED
      BY <3>1, <3>2
  <2> QED
    BY <1>2, <2>1, <2>2
<1>4. r # "failed" => V[1] \in Expected(P, r)
  <2>1. CASE W = <<>>
    BY <1>2, <2>1 DEF FlowOK
  <2>2. CASE W # <<>>
    <3>1. V[1] = W[1]
      BY <1>2, <2>2
    <3> QED
      BY <2>2, <3>1 DEF FlowOK
  <2> QED
    BY <2>1, <2>2
<1>5. V[Len(V)] \in Written(x, P, p2)
  BY <1>2
<1>6. FlowOK(x, P, V, p2, r)
  BY <1>2, <1>3, <1>4, <1>5 DEF FlowOK
<1> QED
  BY <1>6 DEF V

\* A read keeps the chain if what follows the packet is what is expected next.
LEMMA FlowRead ==
  ASSUME NEW x, NEW P, NEW W, NEW p, NEW r, NEW r2,
         FlowOK(x, P, W, p, r),
         W # <<>>,
         r2 # "failed" => After(x, P, W[1]) \subseteq Expected(P, r2),
         p # "failed" /\ W[1] \in Written(x, P, p) /\ r2 # "failed" => Level(x, p, r2)
  PROVE  FlowOK(x, P, Tail(W), p, r2)
<1> DEFINE V == Tail(W)
<1>1. W \in Seq(Packets(P))
  BY DEF FlowOK
<1>2. /\ V \in Seq(Packets(P)) /\ Len(V) = Len(W) - 1 /\ Len(W) \in Nat \ {0}
      /\ V = <<>> <=> Len(W) = 1
      /\ \A i \in 1..Len(V) : V[i] = W[i + 1]
  BY <1>1, Taken
<1> HIDE DEF V
<1>3. \A i \in 1..(Len(V) - 1) : V[i + 1] \in After(x, P, V[i])
  <2> SUFFICES ASSUME NEW i \in 1..(Len(V) - 1) PROVE V[i + 1] \in After(x, P, V[i])
    OBVIOUS
  <2>1. i + 1 \in 1..(Len(W) - 1) /\ V[i + 1] = W[(i + 1) + 1] /\ V[i] = W[i + 1]
    BY <1>2
  <2> QED
    BY <2>1 DEF FlowOK
<1>4. V # <<>> /\ r2 # "failed" => V[1] \in Expected(P, r2)
  <2> HAVE V # <<>> /\ r2 # "failed"
  <2>1. 1 \in 1..(Len(W) - 1) /\ V[1] = W[1 + 1]
    BY <1>2
  <2>2. W[1 + 1] \in After(x, P, W[1])
    BY <2>1 DEF FlowOK
  <2> QED
    BY <2>1, <2>2
<1>5. V # <<>> /\ p # "failed" => V[Len(V)] \in Written(x, P, p)
  <2> HAVE V # <<>> /\ p # "failed"
  <2>1. V[Len(V)] = W[Len(W)]
    BY <1>2
  <2> QED
    BY <2>1 DEF FlowOK
<1>6. V = <<>> /\ p # "failed" /\ r2 # "failed" => Level(x, p, r2)
  BY <1>2 DEF FlowOK
<1>7. FlowOK(x, P, V, p, r2)
  BY <1>2, <1>3, <1>4, <1>5, <1>6 DEF FlowOK
<1> QED
  BY <1>7 DEF V

\* A writer that fails leaves a prefix of the chain.
LEMMA FlowCut ==
  ASSUME NEW x, NEW P, NEW W, NEW p, NEW r, NEW n \in 0..Len(W),
         FlowOK(x, P, W, p, r)
  PROVE  FlowOK(x, P, SubSeq(W, 1, n), "failed", r)
<1> DEFINE V == SubSeq(W, 1, n)
<1>1. W \in Seq(Packets(P))
  BY DEF FlowOK
<1>2. /\ V \in Seq(Packets(P)) /\ Len(V) = n /\ Len(W) \in Nat
      /\ V = <<>> <=> n = 0
      /\ W = <<>> <=> Len(W) = 0
      /\ \A i \in 1..n : V[i] = W[i]
  BY <1>1, Cut
<1> HIDE DEF V
<1>3. \A i \in 1..(Len(V) - 1) : V[i + 1] \in After(x, P, V[i])
  <2> SUFFICES ASSUME NEW i \in 1..(Len(V) - 1) PROVE V[i + 1] \in After(x, P, V[i])
    OBVIOUS
  <2>1. i \in 1..(Len(W) - 1) /\ V[i + 1] = W[i + 1] /\ V[i] = W[i]
    BY <1>2
  <2> QED
    BY <2>1 DEF FlowOK
<1>4. V # <<>> /\ r # "failed" => V[1] \in Expected(P, r)
  <2> HAVE V # <<>> /\ r # "failed"
  <2>1. V[1] = W[1] /\ W # <<>>
    BY <1>2
  <2> QED
    BY <2>1 DEF FlowOK
<1>5. FlowOK(x, P, V, "failed", r)
  BY <1>2, <1>3, <1>4 DEF FlowOK
<1> QED
  BY <1>5 DEF V

\* An end that fails or moves on leaves what it wrote and what is on its way.
LEMMA FlowMove ==
  ASSUME NEW x, NEW P, NEW W, NEW p, NEW p2, NEW r, NEW r2,
         FlowOK(x, P, W, p, r),
         p2 # "failed" => p # "failed" /\ Written(x, P, p) \subseteq Written(x, P, p2),
         r2 # "failed" => r # "failed" /\ Expected(P, r) \subseteq Expected(P, r2),
         p2 # "failed" /\ r2 # "failed" /\ Level(x, p, r) => Level(x, p2, r2)
  PROVE  FlowOK(x, P, W, p2, r2)
BY DEF FlowOK

\* The budget: a write of the prelude.
LEMMA NoiseSend ==
  ASSUME NEW P, NEW W \in Seq(Packets(P)), NEW p, NEW p2, NEW r,
         NEW t \in Nat, NEW t2 \in Nat, NEW b \in Nat, NEW q \in Packets(P),
         NoiseOK(P, W, p, r, t, b),
         p = "nop",
         q = P.nop => t2 + 1 = t,
         p2 = "nop" => q = P.nop
  PROVE  NoiseOK(P, Append(W, q), p2, r, t2, b)
<1>1. /\ Len(Append(W, q)) = Len(W) + 1 /\ Len(W) \in Nat
      /\ \A i \in 1..Len(W) : Append(W, q)[i] = W[i]
      /\ Append(W, q)[Len(W) + 1] = q
  BY Appended
<1> QED
  BY <1>1 DEF NoiseOK

\* A write of anything but noise, by an end past its prelude.
LEMMA NoiseSendAny ==
  ASSUME NEW P, NEW W \in Seq(Packets(P)), NEW p, NEW p2, NEW r,
         NEW t \in Nat, NEW b \in Nat, NEW q \in Packets(P),
         NoiseOK(P, W, p, r, t, b),
         p2 # "nop",
         q # P.nop
  PROVE  NoiseOK(P, Append(W, q), p2, r, t, b)
<1>1. /\ Len(Append(W, q)) = Len(W) + 1 /\ Len(W) \in Nat
      /\ \A i \in 1..Len(W) : Append(W, q)[i] = W[i]
      /\ Append(W, q)[Len(W) + 1] = q
  BY Appended
<1> QED
  BY <1>1 DEF NoiseOK

\* A read that skips a packet and pays for it.
LEMMA NoiseSkip ==
  ASSUME NEW P, NEW W \in Seq(Packets(P)), NEW p, NEW r,
         NEW t \in Nat, NEW b \in Nat,
         NoiseOK(P, W, p, r, t, b),
         W # <<>>, b > 0
  PROVE  NoiseOK(P, Tail(W), p, r, t, b - 1)
<1>1. /\ Len(W) \in Nat \ {0} /\ Len(Tail(W)) = Len(W) - 1
      /\ \A i \in 1..Len(Tail(W)) : Tail(W)[i] = W[i + 1]
  BY Taken
<1>2. CASE r \in {"nop", "sid", "ivv"}
  <2>1. p = "nop" => Len(Tail(W)) + t =< b - 1
    BY <1>1, <1>2 DEF NoiseOK
  <2>2. ASSUME NEW i \in 1..Len(Tail(W)), Tail(W)[i] = P.nop PROVE i =< b - 1
    <3>1. i + 1 \in 1..Len(W) /\ W[i + 1] = P.nop
      BY <1>1, <2>2
    <3>2. i + 1 =< b
      BY <1>2, <3>1 DEF NoiseOK
    <3> QED
      BY <3>2
  <2> QED
    BY <2>1, <2>2 DEF NoiseOK
<1>3. CASE r \notin {"nop", "sid", "ivv"}
  BY <1>3 DEF NoiseOK
<1> QED
  BY <1>2, <1>3

\* A close.
LEMMA NoiseCut ==
  ASSUME NEW P, NEW W \in Seq(Packets(P)), NEW p, NEW r, NEW t, NEW b,
         NEW n \in 0..Len(W),
         NoiseOK(P, W, p, r, t, b)
  PROVE  NoiseOK(P, SubSeq(W, 1, n), "failed", r, t, b)
<1>1. /\ Len(SubSeq(W, 1, n)) = n /\ Len(W) \in Nat
      /\ \A i \in 1..n : SubSeq(W, 1, n)[i] = W[i]
  BY Cut
<1> QED
  BY <1>1 DEF NoiseOK

\* The counters: a write of anything but data.
LEMMA CountSend ==
  ASSUME NEW P, NEW W \in Seq(Packets(P)), NEW p, NEW p2,
         NEW s \in Nat, NEW g \in Nat, NEW q \in Packets(P),
         CountOK(P, W, p, s, g),
         p \notin {"done", "failed"},
         q # P.data
  PROVE  CountOK(P, Append(W, q), p2, s, g)
<1>1. /\ Len(Append(W, q)) = Len(W) + 1 /\ Len(W) \in Nat
      /\ \A i \in 1..Len(W) : Append(W, q)[i] = W[i]
      /\ Append(W, q)[Len(W) + 1] = q
  BY Appended
<1>2. \A i \in 1..Len(Append(W, q)) : Append(W, q)[i] # P.data
  <2> SUFFICES ASSUME NEW i \in 1..Len(Append(W, q)) PROVE Append(W, q)[i] # P.data
    OBVIOUS
  <2>1. CASE i \in 1..Len(W)
    BY <1>1, <2>1 DEF CountOK
  <2>2. CASE i = Len(W) + 1
    BY <1>1, <2>2
  <2> QED
    BY <1>1, <2>1, <2>2
<1> QED
  BY <1>2 DEF CountOK

\* A write of data.
LEMMA CountSendData ==
  ASSUME NEW P, NEW W \in Seq(Packets(P)),
         NEW s \in Nat, NEW g \in Nat, NEW q \in Packets(P),
         CountOK(P, W, "done", s, g)
  PROVE  CountOK(P, Append(W, q), "done", s + 1, g)
<1>1. /\ Len(Append(W, q)) = Len(W) + 1 /\ Len(W) \in Nat
      /\ \A i \in 1..Len(W) : Append(W, q)[i] = W[i]
  BY Appended
<1>2. ASSUME NEW i \in 1..Len(Append(W, q)), Append(W, q)[i] = P.data
      PROVE  (Len(Append(W, q)) - i) + 1 + g =< s + 1
  <2>1. CASE i \in 1..Len(W)
    <3>1. (Len(W) - i) + 1 + g =< s
      BY <1>1, <1>2, <2>1 DEF CountOK
    <3> QED
      BY <1>1, <2>1, <3>1
  <2>2. CASE i = Len(W) + 1
    BY <1>1, <2>2 DEF CountOK
  <2> QED
    BY <1>1, <2>1, <2>2
<1> QED
  BY <1>2 DEF CountOK

\* A read: of data, it is counted.
LEMMA CountRead ==
  ASSUME NEW P, NEW W \in Seq(Packets(P)), NEW p, NEW s \in Nat, NEW g \in Nat,
         CountOK(P, W, p, s, g),
         W # <<>>
  PROVE  /\ CountOK(P, Tail(W), p, s, g)
         /\ W[1] = P.data => g + 1 =< s /\ CountOK(P, Tail(W), p, s, g + 1)
<1>1. /\ Len(W) \in Nat \ {0} /\ Len(Tail(W)) = Len(W) - 1
      /\ \A i \in 1..Len(Tail(W)) : Tail(W)[i] = W[i + 1]
  BY Taken
<1>2. \A i \in 1..Len(Tail(W)) :
         /\ i + 1 \in 1..Len(W)
         /\ Tail(W)[i] = P.data => W[i + 1] = P.data
         /\ Len(W) - (i + 1) = Len(Tail(W)) - i
  BY <1>1
<1>3. \A i \in 1..Len(Tail(W)) : Tail(W)[i] = P.data => (Len(Tail(W)) - i) + 1 + g =< s
  <2> SUFFICES ASSUME NEW i \in 1..Len(Tail(W)), Tail(W)[i] = P.data
               PROVE  (Len(Tail(W)) - i) + 1 + g =< s
    OBVIOUS
  <2>1. (Len(W) - (i + 1)) + 1 + g =< s
    BY <1>2 DEF CountOK
  <2> QED
    BY <1>2, <2>1
<1>4. p \notin {"done", "failed"} => \A i \in 1..Len(Tail(W)) : Tail(W)[i] # P.data
  BY <1>2 DEF CountOK
<1>5. W[1] = P.data => (Len(W) - 1) + 1 + g =< s
  BY <1>1 DEF CountOK
<1>6. CountOK(P, Tail(W), p, s, g)
  BY <1>3, <1>4 DEF CountOK
<1>7. ASSUME W[1] = P.data PROVE g + 1 =< s /\ CountOK(P, Tail(W), p, s, g + 1)
  <2>1. g + 1 =< s
    BY <1>1, <1>5, <1>7
  <2>2. \A i \in 1..Len(Tail(W)) : (Len(Tail(W)) - i) + 1 + (g + 1) =< s
    BY <1>1, <1>5, <1>7
  <2> QED
    BY <1>4, <2>1, <2>2 DEF CountOK
<1> QED
  BY <1>6, <1>7

\* A close.
LEMMA CountCut ==
  ASSUME NEW P, NEW W \in Seq(Packets(P)), NEW p, NEW s \in Nat, NEW g \in Nat,
         NEW n \in 0..Len(W),
         CountOK(P, W, p, s, g)
  PROVE  CountOK(P, SubSeq(W, 1, n), "failed", s, g)
<1>1. /\ Len(SubSeq(W, 1, n)) = n /\ Len(W) \in Nat
      /\ \A i \in 1..n : SubSeq(W, 1, n)[i] = W[i]
  BY Cut
<1>2. ASSUME NEW i \in 1..n, SubSeq(W, 1, n)[i] = P.data PROVE (n - i) + 1 + g =< s
  <2>1. (Len(W) - i) + 1 + g =< s
    BY <1>1, <1>2 DEF CountOK
  <2> QED
    BY <1>1, <2>1
<1> QED
  BY <1>1, <1>2 DEF CountOK

(***************************************************************************)
(* What an end sends and finds                                             *)
(***************************************************************************)
\* The two ends.
LEMMA Ends ==
  ASSUME NEW x \in Sides
  PROVE  /\ Peer(x) \in Sides /\ Peer(x) # x /\ Peer(Peer(x)) = x
         /\ Sides = {x, Peer(x)}
         /\ x = Client <=> Peer(x) = Server
         /\ x = Server <=> Peer(x) = Client
BY DEF Peer, Sides, Client, Server

\* The invariant of one direction, spelled out.
LEMMA Basics ==
  ASSUME Chain, NEW x \in Sides
  PROVE  /\ FlowOK(x, Stream(x), wire[x], pc[x], pc[Peer(x)])
         /\ SameKey => NoiseOK(Stream(x), wire[x], pc[x], pc[Peer(x)],
                               todo[x], budget[Peer(x)])
         /\ CountOK(Stream(x), wire[x], pc[x], sent[x], got[Peer(x)])
         /\ wire[x] \in Seq(Packets(Stream(x)))
<1>1. Flow(x) /\ Noise(x) /\ Count(x)
  BY DEF Chain
<1>2. FlowOK(x, Stream(x), wire[x], pc[x], pc[Peer(x)])
  BY <1>1 DEF Flow
<1>3. wire[x] \in Seq(Packets(Stream(x)))
  BY <1>2 DEF FlowOK
<1> QED
  BY <1>1, <1>2, <1>3 DEF Noise, Count

\* What each write puts on the wire.
LEMMA SentIs ==
  ASSUME Chain
  PROVE  /\ \A x \in Sides : pc[x] = "nop" => Packet(x, Dummy) = Stream(x).nop
         /\ \A x \in Sides : pc[x] = "done" =>
              Packet(x, [type |-> "data"]) = Stream(x).data
         /\ pc[Client] = "nop" =>
              Packet(Client, [type |-> "ivv", role |-> want]) = Stream(Client).id
         /\ pc[Server] = "nop" => Packet(Server, [type |-> "sid"]) = Stream(Server).id
         /\ pc[Server] = "answer" =>
              Packet(Server, [type   |-> "nmux",
                              canary |-> FlagCanary(key[Server]),
                              mux    |-> role[Server] = "MuxTunnel"])
              = Stream(Server).ans
<1>0. ClientOK /\ ServerOK
  BY DEF Chain
<1>1. \A x \in Sides : /\ pc[x] = "nop" => tx[x] = Fresh
                       /\ pc[x] = "done" => tx[x] = Rekeyed
  BY <1>0 DEF ClientOK, ServerOK, Live, Sides
<1>2. pc[Server] = "answer" => tx[Server] = Fresh /\ role[Server] = Effective(want)
  BY <1>0 DEF ServerOK, Live
<1>3. \A x, v : Packet(x, v) = At(x, tx[x], v)
  BY DEF Packet, At
<1>4. Client \in Sides /\ Server \in Sides /\ Client # Server
  BY DEF Sides, Client, Server
<1>5. \A x \in Sides :
        /\ Stream(x).nop = At(x, Fresh, Dummy)
        /\ Stream(x).data = At(x, Rekeyed, DataV)
        /\ Stream(x).id = At(x, Fresh, IF x = Client THEN IvvV ELSE SidV)
        /\ x # Client => Stream(x).ans = At(x, Fresh, NmuxV)
  BY DEF Stream
<1>6. pc[Server] = "answer" =>
        [type   |-> "nmux", canary |-> FlagCanary(key[Server]),
         mux    |-> role[Server] = "MuxTunnel"] = NmuxV
  BY <1>2 DEF NmuxV
<1> QED
  BY <1>1, <1>2, <1>3, <1>4, <1>5, <1>6 DEF IvvV, SidV, DataV

\* What a reader finds first, and the cipher it reads with.
LEMMA FoundIs ==
  ASSUME Chain, NEW x \in Sides, Reading(x), wire[Peer(x)] # <<>>
  PROVE  LET y == Peer(x)
             P == Stream(y)
         IN /\ Head(wire[y]) = wire[y][1]
            /\ pc[x] \in {"sid", "ivv"} => wire[y][1] \in {P.nop, P.id}
            /\ pc[x] = "nmux" => x = Client /\ wire[y][1] = P.ans
            /\ pc[x] = "done" => wire[y][1] = P.data
            /\ pc[x] = "sid" => x = Client
            /\ pc[x] = "ivv" => x = Server
            /\ rx[x] = IF pc[x] = "done" THEN Rekeyed ELSE Fresh
<1> DEFINE y == Peer(x)
<1>0. ClientOK /\ ServerOK
  BY DEF Chain
<1>1. y \in Sides /\ Peer(y) = x
  BY Ends
<1>2. FlowOK(y, Stream(y), wire[y], pc[y], pc[x]) /\ wire[y] \in Seq(Packets(Stream(y)))
  BY <1>1, Basics
<1>3. pc[x] # "failed"
  BY DEF Reading
<1>4. wire[y][1] \in Expected(Stream(y), pc[x])
  BY <1>2, <1>3 DEF FlowOK
<1>5. Head(wire[y]) = wire[y][1]
  BY <1>2, Taken
<1>6. /\ pc[x] \in {"sid", "ivv"} => wire[y][1] \in {Stream(y).nop, Stream(y).id}
      /\ pc[x] = "nmux" => wire[y][1] = Stream(y).ans
      /\ pc[x] = "done" => wire[y][1] = Stream(y).data
  BY <1>4 DEF Expected
<1>7. /\ rx[x] = IF pc[x] = "done" THEN Rekeyed ELSE Fresh
      /\ pc[x] = "nmux" => x = Client
      /\ pc[x] = "sid" => x = Client
      /\ pc[x] = "ivv" => x = Server
  BY <1>0, <1>3 DEF ClientOK, ServerOK, Live, Sides
<1> QED
  BY <1>5, <1>6, <1>7

\* What a value read tells.
LEMMA ValueIs ==
  ASSUME Chain, NEW x \in Sides, Reading(x), wire[Peer(x)] # <<>>
  PROVE  LET y == Peer(x)
             P == Stream(y)
         IN /\ Value(x) = Dummy => pc[x] \in {"sid", "ivv"} /\ wire[y][1] = P.nop
            /\ pc[x] \in {"sid", "ivv"} /\ Value(x) # Dummy =>
                 wire[y][1] = P.id /\ Value(x) = IF x = Client THEN SidV ELSE IvvV
            /\ pc[x] = "nmux" => x = Client /\ wire[y][1] = P.ans /\ Value(x) = NmuxV
            /\ pc[x] = "done" => wire[y][1] = P.data
<1> DEFINE y == Peer(x)
           P == Stream(y)
<1>1. y \in Sides /\ (x = Client <=> y = Server) /\ (x = Server <=> y = Client)
  BY Ends
<1>2. /\ Head(wire[y]) = wire[y][1]
      /\ pc[x] \in {"sid", "ivv"} => wire[y][1] \in {P.nop, P.id}
      /\ pc[x] = "nmux" => x = Client /\ wire[y][1] = P.ans
      /\ pc[x] = "done" => wire[y][1] = P.data
  BY FoundIs
<1>3. /\ P.nop.val = Dummy
      /\ P.id.val = IF y = Client THEN IvvV ELSE SidV
      /\ y = Server => P.ans.val = NmuxV
      /\ P.data.val = DataV
      /\ Dummy \notin {IvvV, SidV, NmuxV, DataV}
  BY <1>1, StreamFacts
<1>4. Value(x) = wire[y][1].val
  BY <1>2 DEF Value
<1>5. pc[x] \in {"sid", "nmux", "ivv", "done"}
  BY DEF Reading
<1>6. x # Client => y = Client
  BY <1>1 DEF Sides
<1> HIDE DEF y, P
<1>7. /\ Value(x) = Dummy => pc[x] \in {"sid", "ivv"} /\ wire[y][1] = P.nop
      /\ pc[x] \in {"sid", "ivv"} /\ Value(x) # Dummy =>
           wire[y][1] = P.id /\ Value(x) = IF x = Client THEN SidV ELSE IvvV
      /\ pc[x] = "nmux" => x = Client /\ wire[y][1] = P.ans /\ Value(x) = NmuxV
      /\ pc[x] = "done" => wire[y][1] = P.data
  <2>1. CASE pc[x] \in {"sid", "ivv"}
    BY <1>1, <1>2, <1>3, <1>4, <1>6, <2>1 DEF Client, Server
  <2>2. CASE pc[x] = "nmux"
    BY <1>1, <1>2, <1>3, <1>4, <2>2
  <2>3. CASE pc[x] = "done"
    BY <1>1, <1>2, <1>3, <1>4, <2>3
  <2> QED
    BY <1>5, <2>1, <2>2, <2>3
<1> QED
  BY <1>7 DEF y, P

\* Data of a matching configuration has the same shell at both ends.
LEMMA MatchShell ==
  ASSUME SameSecret, Match
  PROVE  Shell(key[Client], Rekeyed) = Shell(key[Server], Rekeyed)
<1>1. key[Client].plain = key[Server].plain /\ key[Client].obf = key[Server].obf
  BY DEF Match, FlagCanary
<1> QED
  BY <1>1 DEF SameSecret, Shell, Rekeyed

\* Between ends of the same secrets the next packet is read as it was written.
LEMMA Fits ==
  ASSUME Chain, NEW x \in Sides, Reading(x), wire[Peer(x)] # <<>>
  PROVE  Readable(x)
<1> DEFINE y == Peer(x)
           P == Stream(y)
<1>0. SameSecret /\ Promises
  BY DEF Chain
<1>1. y \in Sides /\ (x = Client <=> y = Server) /\ (x = Server <=> y = Client)
  BY Ends
<1>2. /\ Head(wire[y]) = wire[y][1]
      /\ pc[x] \in {"sid", "ivv"} => wire[y][1] \in {P.nop, P.id}
      /\ pc[x] = "nmux" => x = Client /\ wire[y][1] = P.ans
      /\ pc[x] = "done" => wire[y][1] = P.data
      /\ rx[x] = IF pc[x] = "done" THEN Rekeyed ELSE Fresh
  BY FoundIs
<1>3. /\ P.nop.shell = Shell(key[y], Fresh)
      /\ P.id.shell = Shell(key[y], Fresh)
      /\ y = Server => P.ans.shell = Shell(key[y], Fresh)
      /\ P.data.shell = Shell(key[y], Rekeyed)
  BY <1>1, StreamFacts
<1>5. pc[x] \in {"sid", "nmux", "ivv", "done"}
  BY DEF Reading
<1>6. SameSecret => key[x].secret = key[y].secret /\ key[x].kf = key[y].kf
  BY <1>1 DEF SameSecret, Sides
<1> HIDE DEF y, P
<1>7. CASE pc[x] # "done"
  <2>1. wire[y][1].shell = Shell(key[y], Fresh) /\ rx[x] = Fresh
    BY <1>1, <1>2, <1>3, <1>5, <1>7
  <2>2. Shell(key[y], Fresh) = Shell(key[x], Fresh)
    BY <1>0, <1>6 DEF Shell, Fresh
  <2> QED
    BY <1>2, <2>1, <2>2 DEF Readable, y
<1>8. CASE pc[x] = "done"
  <2>1. wire[y][1].shell = Shell(key[y], Rekeyed) /\ rx[x] = Rekeyed
    BY <1>2, <1>3, <1>8
  <2>2. Match
    <3>1. CASE x = Client
      BY <1>0, <1>8, <3>1 DEF Promises
    <3>2. CASE x = Server
      <4>1. wire[Client] \in Seq(Packets(Stream(Client))) /\ wire[Client] # <<>>
        BY <3>2, <1>1, Basics DEF y
      <4>2. Holds(wire[Client], Stream(Client).data)
        BY <1>8, <3>2, <4>1, <1>1, <1>2, HoldsFacts DEF y, P
      <4> QED
        BY <1>0, <4>2 DEF Promises
    <3> QED
      BY <3>1, <3>2 DEF Sides
  <2>3. Shell(key[y], Rekeyed) = Shell(key[x], Rekeyed)
    BY <1>0, <1>1, <2>2, MatchShell DEF Sides
  <2> QED
    BY <1>2, <2>1, <2>3 DEF Readable, y
<1> QED
  BY <1>7, <1>8

\* So a read returns what was sent.
LEMMA ReadIs ==
  ASSUME Chain, NEW x \in Sides, Reading(x), NEW v \in Values(x)
  PROVE  wire[Peer(x)] # <<>> /\ v = Value(x)
<1>1. wire[Peer(x)] # <<>>
  BY DEF Values
<1>2. Readable(x)
  BY <1>1, Fits
<1> QED
  BY <1>1, <1>2 DEF Values, Value

(***************************************************************************)
(* The steps keep the invariant                                            *)
(***************************************************************************)
\* The two directions of the connection in the next state.
Directions(y) ==
  /\ FlowOK(y, Stream(y), wire'[y], pc'[y], pc'[Peer(y)])
  /\ SameKey => NoiseOK(Stream(y), wire'[y], pc'[y], pc'[Peer(y)],
                        todo'[y], budget'[Peer(y)])
  /\ CountOK(Stream(y), wire'[y], pc'[y], sent'[y], got'[Peer(y)])

\* Facts about the two directions are the invariant's, in the next state.
LEMMA Lift ==
  ASSUME UNCHANGED config, NEW x \in Sides, Directions(x), Directions(Peer(x))
  PROVE  \A y \in Sides : Flow(y)' /\ Noise(y)' /\ Count(y)'
<1> SUFFICES ASSUME NEW y \in Sides PROVE Flow(y)' /\ Noise(y)' /\ Count(y)'
  OBVIOUS
<1>1. Directions(y)
  BY Ends
<1>2. Stream(y)' = Stream(y) /\ SameKey' = SameKey
  BY StreamKept
<1> QED
  BY <1>1, <1>2 DEF Directions, Flow, Noise, Count

\* The end gives up: its writes are cut, its state is kept.
LEMMA FailKeeps ==
  ASSUME Chain, NEW x \in Sides, NEW why \in Errors, Live(x), Fail(x, why),
         SameKey => why \notin {"garbled", "dummies", "flags"}
  PROVE  Chain'
<1> DEFINE y == Peer(x)
<1>0. /\ TypeOK /\ DOMAIN wire = Sides /\ ClientOK /\ ServerOK /\ Promises
      /\ CipherSync /\ SameSecret
  BY DEF Chain
<1>1. /\ y \in Sides /\ y # x /\ Peer(y) = x /\ Sides = {x, y}
      /\ Client \in Sides /\ Server \in Sides /\ Client # Server
  BY Ends DEF Sides, Client, Server
<1>2. UNCHANGED <<config, todo, budget, tx, rx, sid, role, sent, got>>
  BY DEF Fail
<1>3. PICK n \in 0..Len(wire[x]) : wire' = [wire EXCEPT ![x] = SubSeq(@, 1, n)]
  BY DEF Fail
<1>4. wire'[x] = SubSeq(wire[x], 1, n) /\ wire'[y] = wire[y] /\ DOMAIN wire' = Sides
  BY <1>0, <1>1, <1>3
<1>5. /\ pc' = [pc EXCEPT ![x] = "failed"] /\ err' = [err EXCEPT ![x] = why]
      /\ pc \in [Sides -> States] /\ err \in [Sides -> Errors]
  BY <1>0 DEF Fail, TypeOK
<1>6. pc'[x] = "failed" /\ pc'[y] = pc[y] /\ err'[x] = why /\ err'[y] = err[y]
  BY <1>1, <1>5
<1>7. /\ wire[x] \in Seq(Packets(Stream(x))) /\ wire[y] \in Seq(Packets(Stream(y)))
      /\ FlowOK(x, Stream(x), wire[x], pc[x], pc[y])
      /\ FlowOK(y, Stream(y), wire[y], pc[y], pc[x])
      /\ SameKey => NoiseOK(Stream(x), wire[x], pc[x], pc[y], todo[x], budget[y])
      /\ SameKey => NoiseOK(Stream(y), wire[y], pc[y], pc[x], todo[y], budget[x])
      /\ CountOK(Stream(x), wire[x], pc[x], sent[x], got[y])
      /\ CountOK(Stream(y), wire[y], pc[y], sent[y], got[x])
  BY <1>1, Basics
<1> HIDE DEF y
<1>8. sent[x] \in Nat /\ got[y] \in Nat
  BY <1>0, <1>1, HandshakeAssumption DEF TypeOK
<1>9. Directions(x)
  <2>1. FlowOK(x, Stream(x), wire'[x], pc'[x], pc'[y])
    BY <1>4, <1>6, <1>7, FlowCut
  <2>2. SameKey => NoiseOK(Stream(x), wire'[x], pc'[x], pc'[y],
                           todo'[x], budget'[y])
    BY <1>2, <1>4, <1>6, <1>7, NoiseCut
  <2>3. CountOK(Stream(x), wire'[x], pc'[x], sent'[x], got'[y])
    BY <1>2, <1>4, <1>6, <1>7, <1>8, CountCut
  <2> QED
    BY <2>1, <2>2, <2>3 DEF Directions, y
<1>10. Directions(y)
  <2>1. FlowOK(y, Stream(y), wire'[y], pc'[y], pc'[x])
    BY <1>4, <1>6, <1>7 DEF FlowOK
  <2>2. NoiseOK(Stream(y), wire'[y], pc'[y], pc'[x], todo'[y], budget'[x])
    BY <1>6 DEF NoiseOK
  <2>3. CountOK(Stream(y), wire'[y], pc'[y], sent'[y], got'[x])
    BY <1>2, <1>4, <1>6, <1>7
  <2> QED
    BY <1>1, <2>1, <2>2, <2>3 DEF Directions
<1>11. \A z \in Sides : Flow(z)' /\ Noise(z)' /\ Count(z)'
  BY <1>2, <1>9, <1>10, Lift DEF y
<1>12. Len(wire'[x]) =< Len(wire[x])
  <2>1. Len(SubSeq(wire[x], 1, n)) = n /\ Len(wire[x]) \in Nat
    BY <1>7, Cut
  <2> QED
    BY <1>4, <2>1
<1>13. TypeOK'
  <2>1. \A z \in Sides : Len(wire'[z]) =< Buf
    <3>1. Len(wire'[x]) \in Nat /\ Len(wire[x]) \in Nat /\ Len(wire[x]) =< Buf
      BY <1>0, <1>4, <1>7, Cut DEF TypeOK
    <3>2. Len(wire'[x]) =< Buf
      BY <1>12, <3>1, HandshakeAssumption
    <3>3. Len(wire'[y]) =< Buf
      BY <1>0, <1>1, <1>4 DEF TypeOK
    <3> QED
      BY <1>1, <3>2, <3>3
  <2>2. pc' \in [Sides -> States] /\ err' \in [Sides -> Errors]
    BY <1>5 DEF States
  <2> QED
    BY <1>0, <1>2, <2>1, <2>2 DEF TypeOK, config
<1>14. /\ Stream(Client)' = Stream(Client) /\ Stream(Server)' = Stream(Server)
       /\ Match' = Match /\ SameKey' = SameKey /\ SameSecret' = SameSecret
       /\ Effective(want)' = Effective(want) /\ want' = want /\ key' = key
  BY <1>1, <1>2, StreamKept DEF config
<1>15. Answered' = Answered
  BY <1>2, <1>14 DEF Answered
<1>16. \A z \in Sides : (pc'[z] = pc[z] /\ err'[z] = err[z]) \/ pc'[z] = "failed"
  BY <1>1, <1>6
<1>17. ClientOK'
  BY <1>0, <1>1, <1>2, <1>14, <1>16 DEF ClientOK, Live
<1>18. ServerOK'
  BY <1>0, <1>1, <1>2, <1>14, <1>16 DEF ServerOK, Live
<1>19. Promises'
  <2>1. \A z \in Sides : \A q : Holds(wire'[z], q) => Holds(wire[z], q)
    BY <1>1, <1>4, <1>7, HoldsFacts
  <2>2. Holds(wire'[Server], Stream(Server).ans) => Answered
    BY <1>0, <1>1, <2>1 DEF Promises
  <2>3. Holds(wire'[Client], Stream(Client).data) => Match
    BY <1>0, <1>1, <2>1 DEF Promises
  <2>4. pc'[Client] = "done" => Answered /\ Match /\ Effective(want) = want
    BY <1>0, <1>1, <1>16 DEF Promises
  <2> QED
    BY <1>14, <1>15, <2>2, <2>3, <2>4 DEF Promises
<1>20. CipherSync'
  BY <1>0, <1>1, <1>6, <1>14 DEF CipherSync
<1> QED
  BY <1>0, <1>4, <1>11, <1>13, <1>14, <1>17, <1>18, <1>19, <1>20 DEF Chain

\* A step that reports no error.
LEMMA Assemble ==
  ASSUME Chain, UNCHANGED config, UNCHANGED err, NEW x \in Sides,
         TypeOK', DOMAIN wire' = Sides, ClientOK', ServerOK', Promises',
         Directions(x), Directions(Peer(x))
  PROVE  Chain'
<1>0. SameSecret /\ CipherSync
  BY DEF Chain
<1>1. \A y \in Sides : Flow(y)' /\ Noise(y)' /\ Count(y)'
  BY Lift
<1>2. SameSecret' /\ CipherSync'
  BY <1>0, StreamKept DEF CipherSync
<1> QED
  BY <1>1, <1>2 DEF Chain

\* What both ends and both directions give a step of x.
LEMMA Both ==
  ASSUME Chain, NEW x \in Sides
  PROVE  LET y == Peer(x)
         IN /\ y \in Sides /\ y # x /\ Peer(y) = x /\ Sides = {x, y}
            /\ wire[x] \in Seq(Packets(Stream(x)))
            /\ wire[y] \in Seq(Packets(Stream(y)))
            /\ FlowOK(x, Stream(x), wire[x], pc[x], pc[y])
            /\ FlowOK(y, Stream(y), wire[y], pc[y], pc[x])
            /\ SameKey => NoiseOK(Stream(x), wire[x], pc[x], pc[y], todo[x], budget[y])
            /\ SameKey => NoiseOK(Stream(y), wire[y], pc[y], pc[x], todo[y], budget[x])
            /\ CountOK(Stream(x), wire[x], pc[x], sent[x], got[y])
            /\ CountOK(Stream(y), wire[y], pc[y], sent[y], got[x])
            /\ Distinct(x, Stream(x)) /\ Distinct(y, Stream(y))
            /\ todo[x] \in Nat /\ budget[x] \in Nat /\ sent[x] \in Nat /\ got[x] \in Nat
            /\ todo[y] \in Nat /\ budget[y] \in Nat /\ sent[y] \in Nat /\ got[y] \in Nat
<1>0. TypeOK
  BY DEF Chain
<1>1. \A z \in Sides : /\ todo[z] \in Nat /\ budget[z] \in Nat
                       /\ sent[z] \in Nat /\ got[z] \in Nat
  BY <1>0, HandshakeAssumption DEF TypeOK
<1> QED
  BY <1>1, Ends, Basics, StreamFacts

\* A write keeps the sides' wires typed and within the buffer.
LEMMA SendShape ==
  ASSUME Chain, NEW x \in Sides, NEW v, Send(x, v),
         Packet(x, v) \in Packets(Stream(x))
  PROVE  /\ wire'[x] = Append(wire[x], Packet(x, v))
         /\ wire'[Peer(x)] = wire[Peer(x)]
         /\ DOMAIN wire' = Sides
         /\ \A z \in Sides : Len(wire'[z]) =< Buf
         /\ \A z \in Sides : \A q :
              Holds(wire'[z], q) => Holds(wire[z], q) \/ (z = x /\ q = Packet(x, v))
<1>0. DOMAIN wire = Sides /\ \A z \in Sides : Len(wire[z]) =< Buf
  BY DEF Chain, TypeOK
<1>1. /\ Peer(x) \in Sides /\ Peer(x) # x /\ Sides = {x, Peer(x)}
      /\ wire[x] \in Seq(Packets(Stream(x)))
  BY Both
<1>2. /\ wire'[x] = Append(wire[x], Packet(x, v))
      /\ wire'[Peer(x)] = wire[Peer(x)]
      /\ DOMAIN wire' = Sides
      /\ Len(wire[x]) < Buf
  BY <1>0, <1>1 DEF Send
<1>3. Len(wire'[x]) = Len(wire[x]) + 1 /\ Len(wire[x]) \in Nat
  BY <1>1, <1>2, Appended
<1>4. Len(wire'[x]) =< Buf
  BY <1>2, <1>3, HandshakeAssumption
<1>5. ASSUME NEW q, Holds(wire'[x], q) PROVE Holds(wire[x], q) \/ q = Packet(x, v)
  <2>1. Holds(Append(wire[x], Packet(x, v)), q)
    BY <1>2, <1>5
  <2> QED
    BY <1>1, <2>1, HoldsFacts
<1>6. \A z \in Sides : Len(wire'[z]) =< Buf
  BY <1>0, <1>1, <1>2, <1>4
<1>7. ASSUME NEW z \in Sides, NEW q, Holds(wire'[z], q)
      PROVE  Holds(wire[z], q) \/ (z = x /\ q = Packet(x, v))
  <2>1. CASE z = x
    BY <1>5, <1>7, <2>1
  <2>2. CASE z = Peer(x)
    BY <1>2, <1>7, <2>2
  <2> QED
    BY <1>1, <2>1, <2>2
<1> QED
  BY <1>2, <1>6, <1>7

\* A read shortens the other direction only.
LEMMA ReadShape ==
  ASSUME Chain, NEW x \in Sides, wire[Peer(x)] # <<>>,
         wire' = [wire EXCEPT ![Peer(x)] = Tail(@)]
  PROVE  /\ wire'[Peer(x)] = Tail(wire[Peer(x)])
         /\ wire'[x] = wire[x]
         /\ DOMAIN wire' = Sides
         /\ \A z \in Sides : Len(wire'[z]) =< Buf
         /\ \A z \in Sides : \A q : Holds(wire'[z], q) => Holds(wire[z], q)
<1>0. DOMAIN wire = Sides /\ \A z \in Sides : Len(wire[z]) =< Buf
  BY DEF Chain, TypeOK
<1>1. /\ Peer(x) \in Sides /\ Peer(x) # x /\ Sides = {x, Peer(x)}
      /\ wire[Peer(x)] \in Seq(Packets(Stream(Peer(x))))
  BY Both
<1>2. /\ wire'[Peer(x)] = Tail(wire[Peer(x)])
      /\ wire'[x] = wire[x]
      /\ DOMAIN wire' = Sides
  BY <1>0, <1>1
<1>3. Len(wire'[Peer(x)]) = Len(wire[Peer(x)]) - 1 /\ Len(wire[Peer(x)]) \in Nat \ {0}
  BY <1>1, <1>2, Taken
<1>4. Len(wire'[Peer(x)]) =< Buf
  BY <1>0, <1>1, <1>3, HandshakeAssumption
<1>5. \A q : Holds(wire'[Peer(x)], q) => Holds(wire[Peer(x)], q)
  BY <1>1, <1>2, HoldsFacts
<1> QED
  BY <1>0, <1>1, <1>2, <1>4, <1>5

\* The promises of a step that changes nothing they speak of, but for what
\* it puts on the wire.
LEMMA PromisesKept ==
  ASSUME Promises, UNCHANGED config, UNCHANGED <<sid, role>>, pc'[Client] = pc[Client],
         Holds(wire'[Server], Stream(Server).ans) => Holds(wire[Server], Stream(Server).ans),
         Holds(wire'[Client], Stream(Client).data) =>
           Holds(wire[Client], Stream(Client).data) \/ Match
  PROVE  Promises'
<1>1. /\ Stream(Client)' = Stream(Client) /\ Stream(Server)' = Stream(Server)
      /\ Match' = Match /\ Effective(want)' = Effective(want)
      /\ want' = want /\ key' = key
  BY StreamKept DEF Sides, config
<1>2. Answered' = Answered
  BY <1>1 DEF Answered
<1> QED
  BY <1>1, <1>2 DEF Promises

\* handshake_prelude.
LEMMA SendNopKeeps ==
  ASSUME Chain, NEW x \in Sides, SendNop(x)
  PROVE  Chain'
<1> DEFINE y == Peer(x)
           P == Stream(x)
<1>0. TypeOK /\ ClientOK /\ ServerOK /\ Promises
  BY DEF Chain
<1>1. /\ pc[x] = "nop" /\ todo[x] > 0 /\ Send(x, Dummy)
      /\ todo' = [todo EXCEPT ![x] = @ - 1]
      /\ UNCHANGED <<config, pc, budget, tx, rx, sid, role, err, sent, got>>
  BY DEF SendNop
<1>2. Packet(x, Dummy) = P.nop /\ P.nop \in Packets(P)
  BY <1>1, SentIs DEF Packets
<1>3. /\ wire'[x] = Append(wire[x], P.nop) /\ wire'[y] = wire[y]
      /\ DOMAIN wire' = Sides
      /\ \A z \in Sides : Len(wire'[z]) =< Buf
      /\ \A z \in Sides : \A q :
           Holds(wire'[z], q) => Holds(wire[z], q) \/ (z = x /\ q = P.nop)
  <2>1. Send(x, Dummy) /\ Packet(x, Dummy) \in Packets(P)
    BY <1>1, <1>2
  <2> HIDE DEF P
  <2> QED
    BY <1>2, <2>1, SendShape DEF P
<1>4. /\ y \in Sides /\ y # x /\ Peer(y) = x /\ Sides = {x, y}
      /\ wire[x] \in Seq(Packets(P))
      /\ FlowOK(x, P, wire[x], pc[x], pc[y])
      /\ FlowOK(y, Stream(y), wire[y], pc[y], pc[x])
      /\ SameKey => NoiseOK(P, wire[x], pc[x], pc[y], todo[x], budget[y])
      /\ SameKey => NoiseOK(Stream(y), wire[y], pc[y], pc[x], todo[y], budget[x])
      /\ CountOK(P, wire[x], pc[x], sent[x], got[y])
      /\ CountOK(Stream(y), wire[y], pc[y], sent[y], got[x])
      /\ Distinct(x, P)
      /\ todo[x] \in Nat /\ budget[y] \in Nat /\ sent[x] \in Nat /\ got[y] \in Nat
  BY Both
<1>5. todo \in [Sides -> Nat]
  BY <1>0 DEF TypeOK
<1>6. todo'[x] = todo[x] - 1 /\ todo'[y] = todo[y] /\ todo'[x] \in Nat
  BY <1>1, <1>4, <1>5
<1> HIDE DEF y, P
<1>7. Directions(x)
  <2>1. FlowOK(x, P, Append(wire[x], P.nop), pc[x], pc[y])
    <3>1. \A l \in Written(x, P, pc[x]) : P.nop \in After(x, P, l)
      BY <1>1 DEF Written, After
    <3>2. P.nop \in Written(x, P, pc[x])
      BY <1>1 DEF Written
    <3>3. pc[y] # "failed" /\ Level(x, pc[x], pc[y]) => P.nop \in Expected(P, pc[y])
      BY <1>1 DEF Level, Expected
    <3> QED
      BY <1>1, <1>2, <1>4, <3>1, <3>2, <3>3, FlowSend
  <2>2. SameKey => NoiseOK(P, Append(wire[x], P.nop), pc[x], pc[y], todo'[x], budget[y])
    <3>1. P.nop = P.nop => todo'[x] + 1 = todo[x]
      BY <1>4, <1>6
    <3> QED
      BY <1>1, <1>2, <1>4, <1>6, <3>1, NoiseSend
  <2>3. CountOK(P, Append(wire[x], P.nop), pc[x], sent[x], got[y])
    <3>1. P.nop # P.data
      BY <1>4 DEF Distinct
    <3> QED
      BY <1>1, <1>2, <1>4, <3>1, CountSend
  <2> QED
    BY <1>1, <1>3, <2>1, <2>2, <2>3 DEF Directions, y, P
<1>8. Directions(Peer(x))
  BY <1>1, <1>3, <1>4, <1>6 DEF Directions, y
<1>9. TypeOK'
  <2>1. todo' \in [Sides -> Nat]
    BY <1>1, <1>4, <1>5, <1>6
  <2> QED
    BY <1>0, <1>1, <1>3, <2>1 DEF TypeOK, config
<1>10. ClientOK' /\ ServerOK'
  BY <1>0, <1>1 DEF ClientOK, ServerOK, Live, config, Effective
<1>11. Promises'
  <2>1. \A z \in Sides : \A q : Holds(wire'[z], q) /\ q # P.nop => Holds(wire[z], q)
    BY <1>2, <1>3
  <2>2. Stream(x).ans # P.nop /\ Stream(x).data # P.nop
    BY <1>4 DEF Distinct, P
  <2>3. \A z \in Sides : /\ Holds(wire'[z], Stream(z).ans) => Holds(wire[z], Stream(z).ans)
                         /\ Holds(wire'[z], Stream(z).data) => Holds(wire[z], Stream(z).data)
    BY <2>1, <2>2, <1>3, <1>4
  <2> QED
    BY <1>0, <1>1, <2>3, PromisesKept DEF Sides
<1> QED
  BY <1>1, <1>3, <1>7, <1>8, <1>9, <1>10, <1>11, Assemble

\* A data frame goes out.
LEMMA SendDataKeeps ==
  ASSUME Chain, NEW x \in Sides, SendData(x)
  PROVE  Chain'
<1> DEFINE y == Peer(x)
           P == Stream(x)
<1>0. TypeOK /\ ClientOK /\ ServerOK /\ Promises
  BY DEF Chain
<1>1. /\ pc[x] = "done" /\ sent[x] < MaxData /\ Send(x, [type |-> "data"])
      /\ sent' = [sent EXCEPT ![x] = @ + 1]
      /\ UNCHANGED <<config, pc, todo, budget, tx, rx, sid, role, err, got>>
  BY DEF SendData
<1>2. Packet(x, [type |-> "data"]) = P.data /\ P.data \in Packets(P)
  BY <1>1, SentIs DEF Packets
<1>3. /\ wire'[x] = Append(wire[x], P.data) /\ wire'[y] = wire[y]
      /\ DOMAIN wire' = Sides
      /\ \A z \in Sides : Len(wire'[z]) =< Buf
      /\ \A z \in Sides : \A q :
           Holds(wire'[z], q) => Holds(wire[z], q) \/ (z = x /\ q = P.data)
  <2>1. Send(x, [type |-> "data"]) /\ Packet(x, [type |-> "data"]) \in Packets(P)
    BY <1>1, <1>2
  <2> HIDE DEF P
  <2> QED
    BY <1>2, <2>1, SendShape DEF P
<1>4. /\ y \in Sides /\ y # x /\ Peer(y) = x /\ Sides = {x, y}
      /\ wire[x] \in Seq(Packets(P))
      /\ FlowOK(x, P, wire[x], pc[x], pc[y])
      /\ FlowOK(y, Stream(y), wire[y], pc[y], pc[x])
      /\ SameKey => NoiseOK(P, wire[x], pc[x], pc[y], todo[x], budget[y])
      /\ SameKey => NoiseOK(Stream(y), wire[y], pc[y], pc[x], todo[y], budget[x])
      /\ CountOK(P, wire[x], pc[x], sent[x], got[y])
      /\ CountOK(Stream(y), wire[y], pc[y], sent[y], got[x])
      /\ Distinct(x, P)
      /\ todo[x] \in Nat /\ budget[y] \in Nat /\ sent[x] \in Nat /\ got[y] \in Nat
  BY Both
<1>5. sent \in [Sides -> 0..MaxData]
  BY <1>0 DEF TypeOK
<1>6. sent'[x] = sent[x] + 1 /\ sent'[y] = sent[y]
  BY <1>1, <1>4, <1>5
<1> HIDE DEF y, P
<1>7. Directions(x)
  <2>1. FlowOK(x, P, Append(wire[x], P.data), pc[x], pc[y])
    <3>1. \A l \in Written(x, P, pc[x]) : P.data \in After(x, P, l)
      BY <1>1, <1>4 DEF Written, After, Distinct, Sides
    <3>2. P.data \in Written(x, P, pc[x])
      BY <1>1 DEF Written
    <3>3. pc[y] # "failed" /\ Level(x, pc[x], pc[y]) => P.data \in Expected(P, pc[y])
      BY <1>1 DEF Level, Expected
    <3> QED
      BY <1>1, <1>2, <1>4, <3>1, <3>2, <3>3, FlowSend
  <2>2. SameKey => NoiseOK(P, Append(wire[x], P.data), pc[x], pc[y], todo[x], budget[y])
    <3>1. P.data # P.nop /\ pc[x] # "nop"
      BY <1>1, <1>4 DEF Distinct
    <3> QED
      BY <1>1, <1>2, <1>4, <3>1, NoiseSendAny
  <2>3. CountOK(P, Append(wire[x], P.data), pc[x], sent'[x], got[y])
    BY <1>1, <1>2, <1>4, <1>6, CountSendData
  <2> QED
    BY <1>1, <1>3, <2>1, <2>2, <2>3 DEF Directions, y, P
<1>8. Directions(Peer(x))
  BY <1>1, <1>3, <1>4, <1>6 DEF Directions, y
<1>9. TypeOK'
  <2>1. sent' \in [Sides -> 0..MaxData]
    BY <1>1, <1>4, <1>5, HandshakeAssumption
  <2> QED
    BY <1>0, <1>1, <1>3, <2>1 DEF TypeOK, config
<1>10. ClientOK' /\ ServerOK'
  BY <1>0, <1>1 DEF ClientOK, ServerOK, Live, config, Effective
<1>11. Promises'
  <2>1. \A z \in Sides : \A q : Holds(wire'[z], q) => Holds(wire[z], q) \/ (z = x /\ q = P.data)
    BY <1>2, <1>3
  <2>2. x = Server => Stream(x).ans # P.data
    BY <1>4 DEF Distinct, P
  <2>3. x = Client => Match
    BY <1>0, <1>1 DEF Promises
  <2>4. /\ Client \in Sides /\ Server \in Sides
    BY DEF Sides
  <2>5. /\ Holds(wire'[Server], Stream(Server).ans) => Holds(wire[Server], Stream(Server).ans)
        /\ Holds(wire'[Client], Stream(Client).data) =>
             Holds(wire[Client], Stream(Client).data) \/ Match
    BY <2>1, <2>2, <2>3, <2>4
  <2> QED
    BY <1>0, <1>1, <2>5, PromisesKept
<1> QED
  BY <1>1, <1>3, <1>7, <1>8, <1>9, <1>10, <1>11, Assemble

\* read_session_id skips a dummy.
LEMMA SkipDummyKeeps ==
  ASSUME Chain, NEW x \in Sides, SkipDummy(x)
  PROVE  Chain'
<1> DEFINE y == Peer(x)
           P == Stream(y)
<1>0. TypeOK /\ ClientOK /\ ServerOK /\ Promises
  BY DEF Chain
<1>1. /\ pc[x] \in {"sid", "nmux", "ivv"} /\ wire[y] # <<>>
      /\ Value(x) = Dummy /\ budget[x] > 0
      /\ budget' = [budget EXCEPT ![x] = @ - 1]
      /\ wire' = [wire EXCEPT ![y] = Tail(@)]
      /\ UNCHANGED <<config, pc, todo, tx, rx, sid, role, err, sent, got>>
  <2>1. Reading(x)
    BY DEF SkipDummy, Reading
  <2>2. wire[y] # <<>> /\ Value(x) = Dummy
    BY <2>1, ReadIs DEF SkipDummy
  <2> QED
    BY <2>2 DEF SkipDummy, Consume
<1>2. Reading(x)
  BY <1>1 DEF Reading
<1>3. pc[x] \in {"sid", "ivv"} /\ wire[y][1] = P.nop
  BY <1>1, <1>2, ValueIs
<1>4. /\ wire'[y] = Tail(wire[y]) /\ wire'[x] = wire[x]
      /\ DOMAIN wire' = Sides
      /\ \A z \in Sides : Len(wire'[z]) =< Buf
      /\ \A z \in Sides : \A q : Holds(wire'[z], q) => Holds(wire[z], q)
  BY <1>1, ReadShape
<1>5. /\ y \in Sides /\ y # x /\ Peer(y) = x /\ Sides = {x, y}
      /\ wire[y] \in Seq(Packets(P))
      /\ FlowOK(x, Stream(x), wire[x], pc[x], pc[y])
      /\ FlowOK(y, P, wire[y], pc[y], pc[x])
      /\ SameKey => NoiseOK(Stream(x), wire[x], pc[x], pc[y], todo[x], budget[y])
      /\ SameKey => NoiseOK(P, wire[y], pc[y], pc[x], todo[y], budget[x])
      /\ CountOK(Stream(x), wire[x], pc[x], sent[x], got[y])
      /\ CountOK(P, wire[y], pc[y], sent[y], got[x])
      /\ Distinct(y, P)
      /\ todo[y] \in Nat /\ budget[x] \in Nat /\ sent[y] \in Nat /\ got[x] \in Nat
  BY Both
<1>6. budget \in [Sides -> Nat]
  BY <1>0 DEF TypeOK
<1>7. budget'[x] = budget[x] - 1 /\ budget'[y] = budget[y]
  BY <1>1, <1>5, <1>6
<1> HIDE DEF y, P
<1>8. Directions(x)
  BY <1>1, <1>4, <1>5, <1>7 DEF Directions, y
<1>9. Directions(y)
  <2>1. FlowOK(y, P, Tail(wire[y]), pc[y], pc[x])
    <3>1. After(y, P, wire[y][1]) \subseteq Expected(P, pc[x])
      BY <1>3 DEF After, Expected
    <3>2. pc[y] # "failed" /\ wire[y][1] \in Written(y, P, pc[y]) => Level(y, pc[y], pc[x])
      BY <1>3, <1>5 DEF Written, Level, Distinct
    <3> QED
      BY <1>1, <1>5, <3>1, <3>2, FlowRead
  <2>2. SameKey => NoiseOK(P, Tail(wire[y]), pc[y], pc[x], todo[y], budget'[x])
    BY <1>1, <1>5, <1>7, NoiseSkip
  <2>3. CountOK(P, Tail(wire[y]), pc[y], sent[y], got[x])
    BY <1>1, <1>5, CountRead
  <2> QED
    BY <1>1, <1>4, <1>5, <2>1, <2>2, <2>3 DEF Directions, P
<1>10. TypeOK'
  <2>1. budget' \in [Sides -> Nat]
    BY <1>1, <1>5, <1>6
  <2> QED
    BY <1>0, <1>1, <1>4, <2>1 DEF TypeOK, config
<1>11. ClientOK' /\ ServerOK'
  BY <1>0, <1>1 DEF ClientOK, ServerOK, Live, config, Effective
<1>12. Promises'
  BY <1>0, <1>1, <1>4, PromisesKept DEF Sides
<1> QED
  BY <1>1, <1>4, <1>8, <1>9, <1>10, <1>11, <1>12, Assemble DEF y

\* A data frame comes in.
LEMMA ReadDataKeeps ==
  ASSUME Chain, NEW x \in Sides, ReadData(x)
  PROVE  Chain'
<1> DEFINE y == Peer(x)
           P == Stream(y)
<1>0. TypeOK /\ ClientOK /\ ServerOK /\ Promises
  BY DEF Chain
<1>1. /\ pc[x] = "done" /\ wire[y] # <<>>
      /\ got' = [got EXCEPT ![x] = @ + 1]
      /\ wire' = [wire EXCEPT ![y] = Tail(@)]
      /\ UNCHANGED <<config, pc, todo, budget, tx, rx, sid, role, err, sent>>
  BY DEF ReadData, Consume, Values
<1>2. Reading(x)
  BY <1>1 DEF Reading
<1>3. wire[y][1] = P.data
  BY <1>1, <1>2, ValueIs
<1>4. /\ wire'[y] = Tail(wire[y]) /\ wire'[x] = wire[x]
      /\ DOMAIN wire' = Sides
      /\ \A z \in Sides : Len(wire'[z]) =< Buf
      /\ \A z \in Sides : \A q : Holds(wire'[z], q) => Holds(wire[z], q)
  BY <1>1, ReadShape
<1>5. /\ y \in Sides /\ y # x /\ Peer(y) = x /\ Sides = {x, y}
      /\ wire[y] \in Seq(Packets(P))
      /\ FlowOK(x, Stream(x), wire[x], pc[x], pc[y])
      /\ FlowOK(y, P, wire[y], pc[y], pc[x])
      /\ SameKey => NoiseOK(Stream(x), wire[x], pc[x], pc[y], todo[x], budget[y])
      /\ CountOK(Stream(x), wire[x], pc[x], sent[x], got[y])
      /\ CountOK(P, wire[y], pc[y], sent[y], got[x])
      /\ Distinct(y, P)
      /\ todo[y] \in Nat /\ budget[x] \in Nat /\ sent[y] \in Nat /\ got[x] \in Nat
  BY Both
<1>6. got \in [Sides -> Nat]
  BY <1>0 DEF TypeOK
<1>7. got'[x] = got[x] + 1 /\ got'[y] = got[y]
  BY <1>1, <1>5, <1>6
<1> HIDE DEF y, P
<1>8. Directions(x)
  BY <1>1, <1>4, <1>5, <1>7 DEF Directions, y
<1>9. got[x] + 1 =< sent[y] /\ CountOK(P, Tail(wire[y]), pc[y], sent[y], got[x] + 1)
  BY <1>1, <1>3, <1>5, CountRead
<1>10. Directions(y)
  <2>1. FlowOK(y, P, Tail(wire[y]), pc[y], pc[x])
    <3>1. After(y, P, wire[y][1]) \subseteq Expected(P, pc[x])
      BY <1>1, <1>3, <1>5 DEF After, Expected, Distinct
    <3>2. pc[y] # "failed" /\ wire[y][1] \in Written(y, P, pc[y]) => Level(y, pc[y], pc[x])
      BY <1>1, <1>3, <1>5 DEF Written, Level, Distinct
    <3> QED
      BY <1>1, <1>5, <3>1, <3>2, FlowRead
  <2>2. NoiseOK(P, Tail(wire[y]), pc[y], pc[x], todo[y], budget[x])
    BY <1>1 DEF NoiseOK
  <2> QED
    BY <1>1, <1>4, <1>5, <1>7, <1>9, <2>1, <2>2 DEF Directions, P
<1>11. TypeOK'
  <2>1. got' \in [Sides -> Nat]
    BY <1>1, <1>6
  <2> QED
    BY <1>0, <1>1, <1>4, <2>1 DEF TypeOK, config
<1>12. ClientOK' /\ ServerOK'
  BY <1>0, <1>1 DEF ClientOK, ServerOK, Live, config, Effective
<1>13. Promises'
  BY <1>0, <1>1, <1>4, PromisesKept DEF Sides
<1> QED
  BY <1>1, <1>4, <1>8, <1>10, <1>11, <1>12, <1>13, Assemble DEF y

\* The same with the ends named.
LEMMA BothConcrete ==
  ASSUME Chain
  PROVE  LET C == Stream(Client)
             S == Stream(Server)
         IN /\ Client \in Sides /\ Server \in Sides /\ Client # Server
            /\ Peer(Client) = Server /\ Peer(Server) = Client
            /\ wire[Client] \in Seq(Packets(C)) /\ wire[Server] \in Seq(Packets(S))
            /\ FlowOK(Client, C, wire[Client], pc[Client], pc[Server])
            /\ FlowOK(Server, S, wire[Server], pc[Server], pc[Client])
            /\ SameKey => NoiseOK(C, wire[Client], pc[Client], pc[Server],
                                  todo[Client], budget[Server])
            /\ SameKey => NoiseOK(S, wire[Server], pc[Server], pc[Client],
                                  todo[Server], budget[Client])
            /\ CountOK(C, wire[Client], pc[Client], sent[Client], got[Server])
            /\ CountOK(S, wire[Server], pc[Server], sent[Server], got[Client])
            /\ Distinct(Client, C) /\ Distinct(Server, S)
            /\ \A z \in Sides : /\ todo[z] \in Nat /\ budget[z] \in Nat
                                /\ sent[z] \in Nat /\ got[z] \in Nat
<1>1. Client \in Sides /\ Server \in Sides /\ Client # Server
  BY DEF Sides, Client, Server
<1>2. Peer(Client) = Server /\ Peer(Server) = Client
  BY DEF Peer, Client, Server
<1>3. TypeOK
  BY DEF Chain
<1>4. \A z \in Sides : /\ todo[z] \in Nat /\ budget[z] \in Nat
                       /\ sent[z] \in Nat /\ got[z] \in Nat
  BY <1>3, HandshakeAssumption DEF TypeOK
<1> QED
  BY <1>1, <1>2, <1>4, Basics, StreamFacts

\* handshake_client_send, its last write.
LEMMA SendIvvKeeps ==
  ASSUME Chain, SendIvv
  PROVE  Chain'
<1> DEFINE C == Stream(Client)
           S == Stream(Server)
           request == [type |-> "ivv", role |-> want]
<1>0. TypeOK /\ ClientOK /\ ServerOK /\ Promises
  BY DEF Chain
<1>1. /\ Client \in Sides /\ Server \in Sides /\ Client # Server
      /\ Peer(Client) = Server /\ Peer(Server) = Client
      /\ wire[Client] \in Seq(Packets(C)) /\ wire[Server] \in Seq(Packets(S))
      /\ FlowOK(Client, C, wire[Client], pc[Client], pc[Server])
      /\ FlowOK(Server, S, wire[Server], pc[Server], pc[Client])
      /\ SameKey => NoiseOK(C, wire[Client], pc[Client], pc[Server],
                            todo[Client], budget[Server])
      /\ SameKey => NoiseOK(S, wire[Server], pc[Server], pc[Client],
                            todo[Server], budget[Client])
      /\ CountOK(C, wire[Client], pc[Client], sent[Client], got[Server])
      /\ CountOK(S, wire[Server], pc[Server], sent[Server], got[Client])
      /\ Distinct(Client, C) /\ Distinct(Server, S)
      /\ \A z \in Sides : /\ todo[z] \in Nat /\ budget[z] \in Nat
                          /\ sent[z] \in Nat /\ got[z] \in Nat
  BY BothConcrete
<1>2. pc \in [Sides -> States] /\ Sides = {Client, Server}
  BY <1>0 DEF TypeOK, Sides
<1>3. /\ pc[Client] = "nop"
      /\ Send(Client, request)
      /\ pc' = [pc EXCEPT ![Client] = "sid"]
      /\ tx' = [tx EXCEPT ![Client] = Rekeyed]
      /\ UNCHANGED <<config, todo, budget, rx, sid, role, err, sent, got>>
  BY DEF SendIvv
<1>4. Packet(Client, request) = C.id /\ C.id \in Packets(C)
  BY <1>3, SentIs DEF Packets
<1>5. /\ wire'[Client] = Append(wire[Client], C.id) /\ wire'[Server] = wire[Server]
      /\ DOMAIN wire' = Sides
      /\ \A z \in Sides : Len(wire'[z]) =< Buf
      /\ \A z \in Sides : \A k :
           Holds(wire'[z], k) => Holds(wire[z], k) \/ (z = Client /\ k = C.id)
  <2>1. /\ Send(Client, request)
        /\ Packet(Client, request) \in Packets(C)
    BY <1>3, <1>4
  <2>2. /\ wire'[Client] = Append(wire[Client], Packet(Client, request))
        /\ wire'[Peer(Client)] = wire[Peer(Client)]
        /\ DOMAIN wire' = Sides
        /\ \A z \in Sides : Len(wire'[z]) =< Buf
        /\ \A z \in Sides : \A k :
             Holds(wire'[z], k) =>
               Holds(wire[z], k)
               \/ (z = Client /\ k = Packet(Client, request))
    <3>1. Client \in Sides
      BY <1>1
    <3> HIDE DEF request
    <3> QED
      BY <2>1, <3>1, SendShape
  <2> HIDE DEF C, request
  <2> QED
    BY <1>1, <1>4, <2>2
<1>6. pc'[Client] = "sid" /\ pc'[Server] = pc[Server] /\ pc[Client] = "nop"
  BY <1>1, <1>2, <1>3
<1>7. C.id # C.nop /\ C.id # C.data /\ C.id # C.ans
  BY <1>1 DEF Distinct
<1> HIDE DEF C, S, request
<1>8. Directions(Client)
  <2>1. FlowOK(Client, C, wire'[Client], pc'[Client], pc'[Server])
    <3>1. \A l \in Written(Client, C, "nop") : C.id \in After(Client, C, l)
      BY <1>1 DEF Written, After, Distinct
    <3>2. C.id \in Written(Client, C, "sid")
      BY DEF Written
    <3>3. pc[Server] # "failed" /\ Level(Client, "nop", pc[Server]) =>
            C.id \in Expected(C, pc[Server])
      BY DEF Level, Expected
    <3>4. FlowOK(Client, C, wire[Client], "nop", pc[Server])
      BY <1>1, <1>6
    <3>5. FlowOK(Client, C, Append(wire[Client], C.id), "sid", pc[Server])
      BY <1>4, <3>1, <3>2, <3>3, <3>4, FlowSend
    <3> QED
      BY <1>5, <1>6, <3>5
  <2>2. SameKey => NoiseOK(C, wire'[Client], pc'[Client], pc'[Server],
                           todo'[Client], budget'[Server])
    <3>1. SameKey => NoiseOK(C, Append(wire[Client], C.id), "sid", pc[Server],
                             todo[Client], budget[Server])
      BY <1>1, <1>4, <1>7, NoiseSendAny
    <3> QED
      BY <1>3, <1>5, <1>6, <3>1
  <2>3. CountOK(C, wire'[Client], pc'[Client], sent'[Client], got'[Server])
    <3>1. "nop" \notin {"done", "failed"}
      OBVIOUS
    <3>2. CountOK(C, Append(wire[Client], C.id), "sid", sent[Client], got[Server])
      BY <1>1, <1>4, <1>6, <1>7, <3>1, CountSend
    <3> QED
      BY <1>3, <1>5, <1>6, <3>2
  <2> QED
    BY <1>1, <2>1, <2>2, <2>3 DEF Directions, C
<1>9. Directions(Server)
  <2>1. FlowOK(Server, S, wire'[Server], pc'[Server], pc'[Client])
    <3>1. Expected(S, "nop") = Expected(S, "sid")
      BY DEF Expected
    <3>2. Level(Server, pc[Server], "nop") => Level(Server, pc[Server], "sid")
      BY DEF Level
    <3>3. FlowOK(Server, S, wire[Server], pc[Server], "nop")
      BY <1>1, <1>6
    <3>4. FlowOK(Server, S, wire[Server], pc[Server], "sid")
      BY <3>1, <3>2, <3>3, FlowMove
    <3> QED
      BY <1>5, <1>6, <3>4
  <2>2. SameKey => NoiseOK(S, wire'[Server], pc'[Server], pc'[Client],
                           todo'[Server], budget'[Client])
    BY <1>1, <1>3, <1>5, <1>6 DEF NoiseOK
  <2>3. CountOK(S, wire'[Server], pc'[Server], sent'[Server], got'[Client])
    BY <1>1, <1>3, <1>5, <1>6
  <2> QED
    BY <1>1, <2>1, <2>2, <2>3 DEF Directions, S
<1>10. TypeOK'
  <2>1. pc' \in [Sides -> States]
    BY <1>2, <1>3 DEF States
  <2>2. tx' \in [Sides -> {Fresh, Rekeyed}]
    BY <1>0, <1>3 DEF TypeOK
  <2> QED
    BY <1>0, <1>3, <1>5, <2>1, <2>2 DEF TypeOK, config
<1>11. ClientOK'
  BY <1>0, <1>1, <1>3, <1>5, <1>6 DEF ClientOK, Live, config, TypeOK
<1>12. ServerOK'
  BY <1>0, <1>1, <1>3, <1>5, <1>6 DEF ServerOK, Live, config, TypeOK, Effective
<1>13. /\ C' = C /\ S' = S /\ Match' = Match /\ Effective(want)' = Effective(want)
       /\ want' = want /\ key' = key
  BY <1>1, <1>3, StreamKept DEF C, S, config
<1>14. Promises'
  <2>1. Answered => Answered'
    BY <1>3 DEF Answered, config, Effective
  <2>2. Holds(wire'[Server], S.ans) => Answered'
    BY <1>0, <1>1, <1>5, <1>7, <2>1 DEF Promises, C, S
  <2>3. Holds(wire'[Client], C.data) => Match
    BY <1>0, <1>1, <1>5, <1>7, <2>1 DEF Promises, C, S
  <2>4. pc'[Client] = "done" => Answered' /\ Match /\ Effective(want) = want
    BY <1>0, <1>6, <2>1 DEF Promises
  <2> QED
    BY <1>13, <2>2, <2>3, <2>4 DEF Promises, C, S
<1> QED
  BY <1>1, <1>3, <1>5, <1>8, <1>9, <1>10, <1>11, <1>12, <1>14, Assemble

\* handshake_server, the session id.
LEMMA SendSidKeeps ==
  ASSUME Chain, SendSid
  PROVE  Chain'
<1> DEFINE C == Stream(Client)
           S == Stream(Server)
<1>0. TypeOK /\ ClientOK /\ ServerOK /\ Promises
  BY DEF Chain
<1>1. /\ Client \in Sides /\ Server \in Sides /\ Client # Server
      /\ Peer(Client) = Server /\ Peer(Server) = Client
      /\ wire[Client] \in Seq(Packets(C)) /\ wire[Server] \in Seq(Packets(S))
      /\ FlowOK(Client, C, wire[Client], pc[Client], pc[Server])
      /\ FlowOK(Server, S, wire[Server], pc[Server], pc[Client])
      /\ SameKey => NoiseOK(C, wire[Client], pc[Client], pc[Server],
                            todo[Client], budget[Server])
      /\ SameKey => NoiseOK(S, wire[Server], pc[Server], pc[Client],
                            todo[Server], budget[Client])
      /\ CountOK(C, wire[Client], pc[Client], sent[Client], got[Server])
      /\ CountOK(S, wire[Server], pc[Server], sent[Server], got[Client])
      /\ Distinct(Client, C) /\ Distinct(Server, S)
      /\ \A z \in Sides : /\ todo[z] \in Nat /\ budget[z] \in Nat
                          /\ sent[z] \in Nat /\ got[z] \in Nat
  BY BothConcrete
<1>2. pc \in [Sides -> States] /\ Sides = {Client, Server}
  BY <1>0 DEF TypeOK, Sides
<1>3. /\ pc[Server] = "nop"
      /\ Send(Server, [type |-> "sid"])
      /\ pc' = [pc EXCEPT ![Server] = "ivv"]
      /\ UNCHANGED <<config, todo, budget, tx, rx, sid, role, err, sent, got>>
  BY DEF SendSid
<1>4. Packet(Server, [type |-> "sid"]) = S.id /\ S.id \in Packets(S)
  BY <1>3, SentIs DEF Packets
<1>5. /\ wire'[Server] = Append(wire[Server], S.id) /\ wire'[Client] = wire[Client]
      /\ DOMAIN wire' = Sides
      /\ \A z \in Sides : Len(wire'[z]) =< Buf
      /\ \A z \in Sides : \A k :
           Holds(wire'[z], k) => Holds(wire[z], k) \/ (z = Server /\ k = S.id)
  <2>1. Send(Server, [type |-> "sid"]) /\ Packet(Server, [type |-> "sid"]) \in Packets(S)
    BY <1>3, <1>4
  <2>2. /\ wire'[Server] = Append(wire[Server], Packet(Server, [type |-> "sid"]))
        /\ wire'[Peer(Server)] = wire[Peer(Server)]
        /\ DOMAIN wire' = Sides
        /\ \A z \in Sides : Len(wire'[z]) =< Buf
        /\ \A z \in Sides : \A k :
             Holds(wire'[z], k) =>
               Holds(wire[z], k) \/ (z = Server /\ k = Packet(Server, [type |-> "sid"]))
    BY <1>1, <2>1, SendShape
  <2> HIDE DEF S
  <2> QED
    BY <1>1, <1>4, <2>2
<1>6. pc'[Server] = "ivv" /\ pc'[Client] = pc[Client] /\ pc[Server] = "nop"
  BY <1>1, <1>2, <1>3
<1>7. S.id # S.nop /\ S.id # S.data /\ S.id # S.ans
  BY <1>1 DEF Distinct
<1> HIDE DEF C, S
<1>8. Directions(Server)
  <2>1. FlowOK(Server, S, wire'[Server], pc'[Server], pc'[Client])
    <3>1. \A l \in Written(Server, S, "nop") : S.id \in After(Server, S, l)
      BY <1>1 DEF Written, After, Distinct
    <3>2. S.id \in Written(Server, S, "ivv")
      BY DEF Written
    <3>3. pc[Client] # "failed" /\ Level(Server, "nop", pc[Client]) =>
            S.id \in Expected(S, pc[Client])
      BY DEF Level, Expected
    <3>4. FlowOK(Server, S, wire[Server], "nop", pc[Client])
      BY <1>1, <1>6
    <3>5. FlowOK(Server, S, Append(wire[Server], S.id), "ivv", pc[Client])
      BY <1>4, <3>1, <3>2, <3>3, <3>4, FlowSend
    <3> QED
      BY <1>5, <1>6, <3>5
  <2>2. SameKey => NoiseOK(S, wire'[Server], pc'[Server], pc'[Client],
                           todo'[Server], budget'[Client])
    <3>1. SameKey => NoiseOK(S, Append(wire[Server], S.id), "ivv", pc[Client],
                             todo[Server], budget[Client])
      BY <1>1, <1>4, <1>7, NoiseSendAny
    <3> QED
      BY <1>3, <1>5, <1>6, <3>1
  <2>3. CountOK(S, wire'[Server], pc'[Server], sent'[Server], got'[Client])
    <3>1. "nop" \notin {"done", "failed"}
      OBVIOUS
    <3>2. CountOK(S, Append(wire[Server], S.id), "ivv", sent[Server], got[Client])
      BY <1>1, <1>4, <1>6, <1>7, <3>1, CountSend
    <3> QED
      BY <1>3, <1>5, <1>6, <3>2
  <2> QED
    BY <1>1, <2>1, <2>2, <2>3 DEF Directions, S
<1>9. Directions(Client)
  <2>1. FlowOK(Client, C, wire'[Client], pc'[Client], pc'[Server])
    <3>1. Expected(C, "nop") = Expected(C, "ivv")
      BY DEF Expected
    <3>2. Level(Client, pc[Client], "nop") => Level(Client, pc[Client], "ivv")
      BY DEF Level
    <3>3. FlowOK(Client, C, wire[Client], pc[Client], "nop")
      BY <1>1, <1>6
    <3>4. FlowOK(Client, C, wire[Client], pc[Client], "ivv")
      BY <3>1, <3>2, <3>3, FlowMove
    <3> QED
      BY <1>5, <1>6, <3>4
  <2>2. SameKey => NoiseOK(C, wire'[Client], pc'[Client], pc'[Server],
                           todo'[Client], budget'[Server])
    BY <1>1, <1>3, <1>5, <1>6 DEF NoiseOK
  <2>3. CountOK(C, wire'[Client], pc'[Client], sent'[Client], got'[Server])
    BY <1>1, <1>3, <1>5, <1>6
  <2> QED
    BY <1>1, <2>1, <2>2, <2>3 DEF Directions, C
<1>10. TypeOK'
  <2>1. pc' \in [Sides -> States]
    BY <1>2, <1>3 DEF States
  <2> QED
    BY <1>0, <1>3, <1>5, <2>1 DEF TypeOK, config
<1>11. ClientOK'
  BY <1>0, <1>1, <1>3, <1>5, <1>6 DEF ClientOK, Live, config, TypeOK
<1>12. ServerOK'
  BY <1>0, <1>1, <1>3, <1>5, <1>6 DEF ServerOK, Live, config, TypeOK, Effective
<1>13. /\ C' = C /\ S' = S /\ Match' = Match /\ Effective(want)' = Effective(want)
       /\ want' = want /\ key' = key
  BY <1>1, <1>3, StreamKept DEF C, S, config
<1>14. Promises'
  <2>1. Answered => Answered'
    BY <1>3 DEF Answered, config, Effective
  <2>2. Holds(wire'[Server], S.ans) => Answered'
    BY <1>0, <1>1, <1>5, <1>7, <2>1 DEF Promises, C, S
  <2>3. Holds(wire'[Client], C.data) => Match
    BY <1>0, <1>1, <1>5, <1>7, <2>1 DEF Promises, C, S
  <2>4. pc'[Client] = "done" => Answered' /\ Match /\ Effective(want) = want
    BY <1>0, <1>6, <2>1 DEF Promises
  <2> QED
    BY <1>13, <2>2, <2>3, <2>4 DEF Promises, C, S
<1> QED
  BY <1>1, <1>3, <1>5, <1>8, <1>9, <1>10, <1>11, <1>12, <1>14, Assemble

\* handshake_server, the answer and the rekey of both directions.
LEMMA SendNmuxKeeps ==
  ASSUME Chain, SendNmux
  PROVE  Chain'
<1> DEFINE C == Stream(Client)
           S == Stream(Server)
           answer == [type   |-> "nmux",
                      canary |-> FlagCanary(key[Server]),
                      mux    |-> role[Server] = "MuxTunnel"]
<1>0. TypeOK /\ ClientOK /\ ServerOK /\ Promises
  BY DEF Chain
<1>1. /\ Client \in Sides /\ Server \in Sides /\ Client # Server
      /\ Peer(Client) = Server /\ Peer(Server) = Client
      /\ wire[Client] \in Seq(Packets(C)) /\ wire[Server] \in Seq(Packets(S))
      /\ FlowOK(Client, C, wire[Client], pc[Client], pc[Server])
      /\ FlowOK(Server, S, wire[Server], pc[Server], pc[Client])
      /\ SameKey => NoiseOK(C, wire[Client], pc[Client], pc[Server],
                            todo[Client], budget[Server])
      /\ SameKey => NoiseOK(S, wire[Server], pc[Server], pc[Client],
                            todo[Server], budget[Client])
      /\ CountOK(C, wire[Client], pc[Client], sent[Client], got[Server])
      /\ CountOK(S, wire[Server], pc[Server], sent[Server], got[Client])
      /\ Distinct(Client, C) /\ Distinct(Server, S)
      /\ \A z \in Sides : /\ todo[z] \in Nat /\ budget[z] \in Nat
                          /\ sent[z] \in Nat /\ got[z] \in Nat
  BY BothConcrete
<1>2. pc \in [Sides -> States] /\ Sides = {Client, Server}
  BY <1>0 DEF TypeOK, Sides
<1>3. /\ pc[Server] = "answer"
      /\ Send(Server, answer)
      /\ pc' = [pc EXCEPT ![Server] = "done"]
      /\ tx' = [tx EXCEPT ![Server] = Rekeyed]
      /\ rx' = [rx EXCEPT ![Server] = Rekeyed]
      /\ sid' = [sid EXCEPT ![Server] = "sid"]
      /\ UNCHANGED <<config, todo, budget, role, err, sent, got>>
  BY DEF SendNmux
<1>4. Packet(Server, answer) = S.ans /\ S.ans \in Packets(S)
  BY <1>3, SentIs DEF Packets
<1>5. /\ wire'[Server] = Append(wire[Server], S.ans) /\ wire'[Client] = wire[Client]
      /\ DOMAIN wire' = Sides
      /\ \A z \in Sides : Len(wire'[z]) =< Buf
      /\ \A z \in Sides : \A k :
           Holds(wire'[z], k) => Holds(wire[z], k) \/ (z = Server /\ k = S.ans)
  <2>1. Send(Server, answer) /\ Packet(Server, answer) \in Packets(S)
    BY <1>3, <1>4
  <2>2. /\ wire'[Server] = Append(wire[Server], Packet(Server, answer))
        /\ wire'[Peer(Server)] = wire[Peer(Server)]
        /\ DOMAIN wire' = Sides
        /\ \A z \in Sides : Len(wire'[z]) =< Buf
        /\ \A z \in Sides : \A k :
             Holds(wire'[z], k) =>
               Holds(wire[z], k) \/ (z = Server /\ k = Packet(Server, answer))
    <3>1. Server \in Sides
      BY <1>1
    <3> HIDE DEF answer
    <3> QED
      BY <2>1, <3>1, SendShape
  <2> HIDE DEF S, answer
  <2> QED
    BY <1>1, <1>4, <2>2
<1>6. pc'[Server] = "done" /\ pc'[Client] = pc[Client] /\ pc[Server] = "answer"
  BY <1>1, <1>2, <1>3
<1>7. S.ans # S.nop /\ S.ans # S.data /\ S.ans # S.id
  BY <1>1 DEF Distinct
<1> HIDE DEF C, S, answer
<1>8. Directions(Server)
  <2>1. FlowOK(Server, S, wire'[Server], pc'[Server], pc'[Client])
    <3>1. \A l \in Written(Server, S, "answer") : S.ans \in After(Server, S, l)
      BY <1>1 DEF Written, After, Distinct
    <3>2. S.ans \in Written(Server, S, "done")
      BY DEF Written
    <3>3. pc[Client] # "failed" /\ Level(Server, "answer", pc[Client]) =>
            S.ans \in Expected(S, pc[Client])
      BY DEF Level, Expected
    <3>4. FlowOK(Server, S, wire[Server], "answer", pc[Client])
      BY <1>1, <1>6
    <3>5. FlowOK(Server, S, Append(wire[Server], S.ans), "done", pc[Client])
      BY <1>4, <3>1, <3>2, <3>3, <3>4, FlowSend
    <3> QED
      BY <1>5, <1>6, <3>5
  <2>2. SameKey => NoiseOK(S, wire'[Server], pc'[Server], pc'[Client],
                           todo'[Server], budget'[Client])
    <3>1. SameKey => NoiseOK(S, Append(wire[Server], S.ans), "done", pc[Client],
                             todo[Server], budget[Client])
      BY <1>1, <1>4, <1>7, NoiseSendAny
    <3> QED
      BY <1>3, <1>5, <1>6, <3>1
  <2>3. CountOK(S, wire'[Server], pc'[Server], sent'[Server], got'[Client])
    <3>1. "answer" \notin {"done", "failed"}
      OBVIOUS
    <3>2. CountOK(S, Append(wire[Server], S.ans), "done", sent[Server], got[Client])
      BY <1>1, <1>4, <1>6, <1>7, <3>1, CountSend
    <3> QED
      BY <1>3, <1>5, <1>6, <3>2
  <2> QED
    BY <1>1, <2>1, <2>2, <2>3 DEF Directions, S
<1>9. Directions(Client)
  <2>1. FlowOK(Client, C, wire'[Client], pc'[Client], pc'[Server])
    <3>1. Expected(C, "answer") = Expected(C, "done")
      BY DEF Expected
    <3>2. Level(Client, pc[Client], "answer") => Level(Client, pc[Client], "done")
      BY DEF Level
    <3>3. FlowOK(Client, C, wire[Client], pc[Client], "answer")
      BY <1>1, <1>6
    <3>4. FlowOK(Client, C, wire[Client], pc[Client], "done")
      BY <3>1, <3>2, <3>3, FlowMove
    <3> QED
      BY <1>5, <1>6, <3>4
  <2>2. SameKey => NoiseOK(C, wire'[Client], pc'[Client], pc'[Server],
                           todo'[Client], budget'[Server])
    BY <1>1, <1>3, <1>5, <1>6 DEF NoiseOK
  <2>3. CountOK(C, wire'[Client], pc'[Client], sent'[Client], got'[Server])
    BY <1>1, <1>3, <1>5, <1>6
  <2> QED
    BY <1>1, <2>1, <2>2, <2>3 DEF Directions, C
<1>10. TypeOK'
  <2>1. pc' \in [Sides -> States]
    BY <1>2, <1>3 DEF States
  <2>2. /\ tx' \in [Sides -> {Fresh, Rekeyed}]
        /\ rx' \in [Sides -> {Fresh, Rekeyed}]
        /\ sid' \in [Sides -> {"none", "sid", "garbage"}]
    BY <1>0, <1>3 DEF TypeOK
  <2> QED
    BY <1>0, <1>3, <1>5, <2>1, <2>2 DEF TypeOK, config
<1>11. ClientOK'
  BY <1>0, <1>1, <1>3, <1>5, <1>6 DEF ClientOK, Live, config, TypeOK
<1>12. ServerOK'
  BY <1>0, <1>1, <1>3, <1>5, <1>6 DEF ServerOK, Live, config, TypeOK, Effective
<1>13. /\ C' = C /\ S' = S /\ Match' = Match /\ Effective(want)' = Effective(want)
       /\ want' = want /\ key' = key
  BY <1>1, <1>3, StreamKept DEF C, S, config
<1>14. Promises'
  <2>1. Answered'
    <3>1. role[Server] = Effective(want)
      BY <1>0, <1>3, <1>6 DEF ServerOK, Live
    <3>2. sid'[Server] = "sid" /\ role'[Server] = role[Server]
      BY <1>0, <1>1, <1>3 DEF TypeOK
    <3> QED
      BY <1>13, <3>1, <3>2 DEF Answered
  <2>2. Holds(wire'[Server], S.ans) => Answered'
    BY <1>0, <1>1, <1>5, <1>7, <2>1 DEF Promises, C, S
  <2>3. Holds(wire'[Client], C.data) => Match
    BY <1>0, <1>1, <1>5, <1>7, <2>1 DEF Promises, C, S
  <2>4. pc'[Client] = "done" => Answered' /\ Match /\ Effective(want) = want
    BY <1>0, <1>6, <2>1 DEF Promises
  <2> QED
    BY <1>13, <2>2, <2>3, <2>4 DEF Promises, C, S
<1> QED
  BY <1>1, <1>3, <1>5, <1>8, <1>9, <1>10, <1>11, <1>12, <1>14, Assemble

\* A canary is never mistaken for a word without the magic.
LEMMA Canaries == \A k : FlagCanary(k) # NoMagic
BY DEF FlagCanary, NoMagic

\* handshake_client_confirm, its first read.
LEMMA ReadSidKeeps ==
  ASSUME Chain, ReadSid
  PROVE  Chain'
<1> DEFINE C == Stream(Client)
           S == Stream(Server)
<1>0. TypeOK /\ ClientOK /\ ServerOK /\ Promises
  BY DEF Chain
<1>1. /\ Client \in Sides /\ Server \in Sides /\ Client # Server
      /\ Peer(Client) = Server /\ Peer(Server) = Client
      /\ wire[Client] \in Seq(Packets(C)) /\ wire[Server] \in Seq(Packets(S))
      /\ FlowOK(Client, C, wire[Client], pc[Client], pc[Server])
      /\ FlowOK(Server, S, wire[Server], pc[Server], pc[Client])
      /\ SameKey => NoiseOK(C, wire[Client], pc[Client], pc[Server],
                            todo[Client], budget[Server])
      /\ SameKey => NoiseOK(S, wire[Server], pc[Server], pc[Client],
                            todo[Server], budget[Client])
      /\ CountOK(C, wire[Client], pc[Client], sent[Client], got[Server])
      /\ CountOK(S, wire[Server], pc[Server], sent[Server], got[Client])
      /\ Distinct(Client, C) /\ Distinct(Server, S)
      /\ \A z \in Sides : /\ todo[z] \in Nat /\ budget[z] \in Nat
                          /\ sent[z] \in Nat /\ got[z] \in Nat
  BY BothConcrete
<1>2. pc \in [Sides -> States] /\ Sides = {Client, Server}
  BY <1>0 DEF TypeOK, Sides
<1>3. /\ pc[Client] = "sid" /\ wire[Server] # <<>>
      /\ Value(Client) # Dummy
      /\ wire' = [wire EXCEPT ![Server] = Tail(@)]
      /\ pc' = [pc EXCEPT ![Client] = "nmux"]
      /\ sid' = [sid EXCEPT ![Client] = Value(Client).type]
      /\ budget' = [budget EXCEPT ![Client] = MaxNopPackets(key[Client])]
      /\ UNCHANGED <<config, todo, tx, rx, role, err, sent, got>>
  <2>1. PICK v \in Values(Client) \ {Dummy} : sid' = [sid EXCEPT ![Client] = v.type]
    BY DEF ReadSid
  <2>2. wire[Server] # <<>> /\ v = Value(Client)
    BY <1>1, ReadIs DEF ReadSid, Reading
  <2> QED
    BY <1>1, <2>1, <2>2 DEF ReadSid, Consume
<1>4. Reading(Client)
  BY <1>3 DEF Reading
<1>5. wire[Server][1] = S.id /\ Value(Client) = SidV
  BY <1>1, <1>3, <1>4, ValueIs
<1>6. /\ wire'[Server] = Tail(wire[Server]) /\ wire'[Client] = wire[Client]
      /\ DOMAIN wire' = Sides
      /\ \A z \in Sides : Len(wire'[z]) =< Buf
      /\ \A z \in Sides : \A k : Holds(wire'[z], k) => Holds(wire[z], k)
  BY <1>1, <1>3, ReadShape
<1>7. pc'[Client] = "nmux" /\ pc'[Server] = pc[Server]
  BY <1>1, <1>2, <1>3
<1> HIDE DEF C, S
<1>8. Directions(Client)
  <2>1. FlowOK(Client, C, wire'[Client], pc'[Client], pc'[Server])
    <3>1. Written(Client, C, "sid") \subseteq Written(Client, C, "nmux")
      BY <1>1 DEF Written
    <3>2. Level(Client, "sid", pc[Server]) => Level(Client, "nmux", pc[Server])
      BY <1>1 DEF Level
    <3>3. FlowOK(Client, C, wire[Client], "sid", pc[Server])
      BY <1>1, <1>3
    <3>4. FlowOK(Client, C, wire[Client], "nmux", pc[Server])
      BY <3>1, <3>2, <3>3, FlowMove
    <3> QED
      BY <1>6, <1>7, <3>4
  <2>2. SameKey => NoiseOK(C, wire'[Client], pc'[Client], pc'[Server],
                           todo'[Client], budget'[Server])
    BY <1>1, <1>3, <1>6, <1>7 DEF NoiseOK
  <2>3. CountOK(C, wire'[Client], pc'[Client], sent'[Client], got'[Server])
    BY <1>1, <1>3, <1>6, <1>7 DEF CountOK
  <2> QED
    BY <1>1, <2>1, <2>2, <2>3 DEF Directions, C
<1>9. Directions(Server)
  <2>1. FlowOK(Server, S, wire'[Server], pc'[Server], pc'[Client])
    <3>1. After(Server, S, wire[Server][1]) \subseteq Expected(S, "nmux")
      BY <1>1, <1>5 DEF After, Expected, Distinct
    <3>2. pc[Server] # "failed" /\ wire[Server][1] \in Written(Server, S, pc[Server])
            => Level(Server, pc[Server], "nmux")
      BY <1>0, <1>1, <1>5 DEF Written, Level, Distinct, ServerOK
    <3>3. FlowOK(Server, S, Tail(wire[Server]), pc[Server], "nmux")
      BY <1>1, <1>3, <3>1, <3>2, FlowRead
    <3> QED
      BY <1>6, <1>7, <3>3
  <2>2. SameKey => NoiseOK(S, wire'[Server], pc'[Server], pc'[Client],
                           todo'[Server], budget'[Client])
    BY <1>7 DEF NoiseOK
  <2>3. CountOK(S, wire'[Server], pc'[Server], sent'[Server], got'[Client])
    BY <1>1, <1>3, <1>6, <1>7, CountRead
  <2> QED
    BY <1>1, <2>1, <2>2, <2>3 DEF Directions, S
<1>10. TypeOK'
  <2>1. pc' \in [Sides -> States]
    BY <1>2, <1>3 DEF States
  <2>2. Value(Client).type = "sid"
    BY <1>5 DEF SidV
  <2>3. sid' \in [Sides -> {"none", "sid", "garbage"}]
    BY <1>0, <1>3, <2>2 DEF TypeOK
  <2>4. key[Client] \in KeyShape
    BY <1>0, <1>1, HandshakeAssumption DEF TypeOK
  <2>5. budget' \in [Sides -> Nat]
    BY <1>0, <1>3, <2>4, NopFacts DEF TypeOK
  <2> QED
    BY <1>0, <1>3, <1>6, <2>1, <2>3, <2>5 DEF TypeOK, config
<1>11. ClientOK'
  <2>1. Value(Client).type = "sid"
    BY <1>5 DEF SidV
  <2> QED
    BY <1>0, <1>1, <1>3, <1>7, <2>1 DEF ClientOK, Live, config, TypeOK
<1>12. ServerOK'
  BY <1>0, <1>1, <1>3, <1>6, <1>7 DEF ServerOK, Live, config, TypeOK, Effective
<1>13. /\ C' = C /\ S' = S /\ Match' = Match /\ Effective(want)' = Effective(want)
       /\ want' = want /\ key' = key
  BY <1>1, <1>3, StreamKept DEF C, S, config
<1>14. Promises'
  <2>1. Answered => Answered'
    BY <1>0, <1>1, <1>3 DEF Answered, config, Effective, TypeOK
  <2>2. Holds(wire'[Server], S.ans) => Answered'
    BY <1>0, <1>1, <1>6, <2>1 DEF Promises, C, S
  <2>3. Holds(wire'[Client], C.data) => Match
    BY <1>0, <1>1, <1>6, <2>1 DEF Promises, C, S
  <2>4. pc'[Client] = "done" => Answered' /\ Match /\ Effective(want) = want
    BY <1>7
  <2> QED
    BY <1>13, <2>2, <2>3, <2>4 DEF Promises, C, S
<1> QED
  BY <1>1, <1>3, <1>6, <1>8, <1>9, <1>10, <1>11, <1>12, <1>14, Assemble

\* handshake_client_confirm, the answer accepted.
LEMMA ConfirmKeeps ==
  ASSUME Chain, Confirm
  PROVE  Chain'
<1> DEFINE C == Stream(Client)
           S == Stream(Server)
<1>0. TypeOK /\ ClientOK /\ ServerOK /\ Promises
  BY DEF Chain
<1>1. /\ Client \in Sides /\ Server \in Sides /\ Client # Server
      /\ Peer(Client) = Server /\ Peer(Server) = Client
      /\ wire[Client] \in Seq(Packets(C)) /\ wire[Server] \in Seq(Packets(S))
      /\ FlowOK(Client, C, wire[Client], pc[Client], pc[Server])
      /\ FlowOK(Server, S, wire[Server], pc[Server], pc[Client])
      /\ SameKey => NoiseOK(C, wire[Client], pc[Client], pc[Server],
                            todo[Client], budget[Server])
      /\ SameKey => NoiseOK(S, wire[Server], pc[Server], pc[Client],
                            todo[Server], budget[Client])
      /\ CountOK(C, wire[Client], pc[Client], sent[Client], got[Server])
      /\ CountOK(S, wire[Server], pc[Server], sent[Server], got[Client])
      /\ Distinct(Client, C) /\ Distinct(Server, S)
      /\ \A z \in Sides : /\ todo[z] \in Nat /\ budget[z] \in Nat
                          /\ sent[z] \in Nat /\ got[z] \in Nat
  BY BothConcrete
<1>2. pc \in [Sides -> States] /\ Sides = {Client, Server}
  BY <1>0 DEF TypeOK, Sides
<1>3. /\ pc[Client] = "nmux" /\ wire[Server] # <<>>
      /\ Value(Client) # Dummy
      /\ wire' = [wire EXCEPT ![Server] = Tail(@)]
      /\ pc' = [pc EXCEPT ![Client] = "done"]
      /\ NmuxError(Value(Client)) = "none"
      /\ rx' = [rx EXCEPT ![Client] = Rekeyed]
      /\ role' = [role EXCEPT ![Client] = want]
      /\ UNCHANGED <<config, todo, budget, tx, sid, err, sent, got>>
  <2>1. PICK v \in Values(Client) \ {Dummy} : NmuxError(v) = "none"
    BY DEF Confirm
  <2>2. wire[Server] # <<>> /\ v = Value(Client)
    BY <1>1, ReadIs DEF Confirm, Reading
  <2> QED
    BY <1>1, <2>1, <2>2 DEF Confirm, Consume
<1>4. Reading(Client)
  BY <1>3 DEF Reading
<1>5. wire[Server][1] = S.ans /\ Value(Client) = NmuxV
  BY <1>1, <1>3, <1>4, ValueIs
<1>6. /\ wire'[Server] = Tail(wire[Server]) /\ wire'[Client] = wire[Client]
      /\ DOMAIN wire' = Sides
      /\ \A z \in Sides : Len(wire'[z]) =< Buf
      /\ \A z \in Sides : \A k : Holds(wire'[z], k) => Holds(wire[z], k)
  BY <1>1, <1>3, ReadShape
<1>7. pc'[Client] = "done" /\ pc'[Server] = pc[Server]
  BY <1>1, <1>2, <1>3
<1> HIDE DEF C, S
<1>8. Directions(Client)
  <2>1. FlowOK(Client, C, wire'[Client], pc'[Client], pc'[Server])
    <3>1. Written(Client, C, "nmux") \subseteq Written(Client, C, "done")
      BY <1>1 DEF Written
    <3>2. Level(Client, "nmux", pc[Server]) => Level(Client, "done", pc[Server])
      BY <1>1 DEF Level
    <3>3. FlowOK(Client, C, wire[Client], "nmux", pc[Server])
      BY <1>1, <1>3
    <3>4. FlowOK(Client, C, wire[Client], "done", pc[Server])
      BY <3>1, <3>2, <3>3, FlowMove
    <3> QED
      BY <1>6, <1>7, <3>4
  <2>2. SameKey => NoiseOK(C, wire'[Client], pc'[Client], pc'[Server],
                           todo'[Client], budget'[Server])
    BY <1>1, <1>3, <1>6, <1>7 DEF NoiseOK
  <2>3. CountOK(C, wire'[Client], pc'[Client], sent'[Client], got'[Server])
    BY <1>1, <1>3, <1>6, <1>7 DEF CountOK
  <2> QED
    BY <1>1, <2>1, <2>2, <2>3 DEF Directions, C
<1>9. Directions(Server)
  <2>1. FlowOK(Server, S, wire'[Server], pc'[Server], pc'[Client])
    <3>1. After(Server, S, wire[Server][1]) \subseteq Expected(S, "done")
      BY <1>1, <1>5 DEF After, Expected, Distinct
    <3>2. pc[Server] # "failed" /\ wire[Server][1] \in Written(Server, S, pc[Server])
            => Level(Server, pc[Server], "done")
      BY <1>0, <1>1, <1>5 DEF Written, Level, Distinct, ServerOK
    <3>3. FlowOK(Server, S, Tail(wire[Server]), pc[Server], "done")
      BY <1>1, <1>3, <3>1, <3>2, FlowRead
    <3> QED
      BY <1>6, <1>7, <3>3
  <2>2. SameKey => NoiseOK(S, wire'[Server], pc'[Server], pc'[Client],
                           todo'[Server], budget'[Client])
    BY <1>7 DEF NoiseOK
  <2>3. CountOK(S, wire'[Server], pc'[Server], sent'[Server], got'[Client])
    BY <1>1, <1>3, <1>6, <1>7, CountRead
  <2> QED
    BY <1>1, <2>1, <2>2, <2>3 DEF Directions, S
<1>10. TypeOK'
  <2>1. pc' \in [Sides -> States]
    BY <1>2, <1>3 DEF States
  <2>2. /\ rx' \in [Sides -> {Fresh, Rekeyed}]
        /\ role' \in [Sides -> Roles \cup {"none"}]
    BY <1>0, <1>3 DEF TypeOK
  <2> QED
    BY <1>0, <1>3, <1>6, <2>1, <2>2 DEF TypeOK, config
<1>11. ClientOK'
  BY <1>0, <1>1, <1>3, <1>6, <1>7 DEF ClientOK, Live, config, TypeOK
<1>12. ServerOK'
  BY <1>0, <1>1, <1>3, <1>6, <1>7 DEF ServerOK, Live, config, TypeOK, Effective
<1>13. /\ C' = C /\ S' = S /\ Match' = Match /\ Effective(want)' = Effective(want)
       /\ want' = want /\ key' = key
  BY <1>1, <1>3, StreamKept DEF C, S, config
<1>14. Promises'
  <2>1. Answered => Answered'
    BY <1>0, <1>1, <1>3 DEF Answered, config, Effective, TypeOK
  <2>2. Holds(wire'[Server], S.ans) => Answered'
    BY <1>0, <1>1, <1>6, <2>1 DEF Promises, C, S
  <2>3. Holds(wire'[Client], C.data) => Match
    BY <1>0, <1>1, <1>6, <2>1 DEF Promises, C, S
  <2>4. pc'[Client] = "done" => Answered' /\ Match /\ Effective(want) = want
    <3>1. Holds(wire[Server], S.ans)
      BY <1>1, <1>3, <1>5, HoldsFacts
    <3>2. Answered
      BY <1>0, <3>1 DEF Promises, S
    <3>3. /\ Value(Client).canary \in {NoMagic, FlagCanary(key[Client])}
          /\ Value(Client).mux = (want = "MuxTunnel")
      BY <1>3 DEF NmuxError
    <3>4. /\ Value(Client).canary = FlagCanary(key[Server])
          /\ Value(Client).mux = (Effective(want) = "MuxTunnel")
      BY <1>5 DEF NmuxV
    <3>5. Match
      BY <3>3, <3>4, Canaries DEF Match
    <3>6. Effective(want) = want
      BY <1>0, <3>3, <3>4 DEF TypeOK, Roles, Effective
    <3> QED
      BY <1>7, <2>1, <3>2, <3>5, <3>6
  <2> QED
    BY <1>13, <2>2, <2>3, <2>4 DEF Promises, C, S
<1> QED
  BY <1>1, <1>3, <1>6, <1>8, <1>9, <1>10, <1>11, <1>12, <1>14, Assemble

\* handshake_server, the role request.
LEMMA ReadIvvKeeps ==
  ASSUME Chain, ReadIvv
  PROVE  Chain'
<1> DEFINE C == Stream(Client)
           S == Stream(Server)
<1>0. TypeOK /\ ClientOK /\ ServerOK /\ Promises
  BY DEF Chain
<1>1. /\ Client \in Sides /\ Server \in Sides /\ Client # Server
      /\ Peer(Client) = Server /\ Peer(Server) = Client
      /\ wire[Client] \in Seq(Packets(C)) /\ wire[Server] \in Seq(Packets(S))
      /\ FlowOK(Client, C, wire[Client], pc[Client], pc[Server])
      /\ FlowOK(Server, S, wire[Server], pc[Server], pc[Client])
      /\ SameKey => NoiseOK(C, wire[Client], pc[Client], pc[Server],
                            todo[Client], budget[Server])
      /\ SameKey => NoiseOK(S, wire[Server], pc[Server], pc[Client],
                            todo[Server], budget[Client])
      /\ CountOK(C, wire[Client], pc[Client], sent[Client], got[Server])
      /\ CountOK(S, wire[Server], pc[Server], sent[Server], got[Client])
      /\ Distinct(Client, C) /\ Distinct(Server, S)
      /\ \A z \in Sides : /\ todo[z] \in Nat /\ budget[z] \in Nat
                          /\ sent[z] \in Nat /\ got[z] \in Nat
  BY BothConcrete
<1>2. pc \in [Sides -> States] /\ Sides = {Client, Server}
  BY <1>0 DEF TypeOK, Sides
<1>3. /\ pc[Server] = "ivv" /\ wire[Client] # <<>>
      /\ Value(Server) # Dummy
      /\ wire' = [wire EXCEPT ![Client] = Tail(@)]
      /\ pc' = [pc EXCEPT ![Server] = "answer"]
      /\ role' = [role EXCEPT ![Server] = Effective(Value(Server).role)]
      /\ UNCHANGED <<config, todo, budget, tx, rx, sid, err, sent, got>>
  <2>1. PICK v \in Values(Server) \ {Dummy} :
          role' = [role EXCEPT ![Server] = Effective(v.role)]
    BY DEF ReadIvv
  <2>2. wire[Client] # <<>> /\ v = Value(Server)
    BY <1>1, ReadIs DEF ReadIvv, Reading
  <2> QED
    BY <1>1, <2>1, <2>2 DEF ReadIvv, Consume
<1>4. Reading(Server)
  BY <1>3 DEF Reading
<1>5. wire[Client][1] = C.id /\ Value(Server) = IvvV
  BY <1>1, <1>3, <1>4, ValueIs
<1>6. /\ wire'[Client] = Tail(wire[Client]) /\ wire'[Server] = wire[Server]
      /\ DOMAIN wire' = Sides
      /\ \A z \in Sides : Len(wire'[z]) =< Buf
      /\ \A z \in Sides : \A k : Holds(wire'[z], k) => Holds(wire[z], k)
  BY <1>1, <1>3, ReadShape
<1>7. pc'[Server] = "answer" /\ pc'[Client] = pc[Client]
  BY <1>1, <1>2, <1>3
<1> HIDE DEF C, S
<1>8. Directions(Server)
  <2>1. FlowOK(Server, S, wire'[Server], pc'[Server], pc'[Client])
    <3>1. Written(Server, S, "ivv") \subseteq Written(Server, S, "answer")
      BY <1>1 DEF Written
    <3>2. Level(Server, "ivv", pc[Client]) => Level(Server, "answer", pc[Client])
      BY <1>1 DEF Level
    <3>3. FlowOK(Server, S, wire[Server], "ivv", pc[Client])
      BY <1>1, <1>3
    <3>4. FlowOK(Server, S, wire[Server], "answer", pc[Client])
      BY <3>1, <3>2, <3>3, FlowMove
    <3> QED
      BY <1>6, <1>7, <3>4
  <2>2. SameKey => NoiseOK(S, wire'[Server], pc'[Server], pc'[Client],
                           todo'[Server], budget'[Client])
    BY <1>1, <1>3, <1>6, <1>7 DEF NoiseOK
  <2>3. CountOK(S, wire'[Server], pc'[Server], sent'[Server], got'[Client])
    BY <1>1, <1>3, <1>6, <1>7 DEF CountOK
  <2> QED
    BY <1>1, <2>1, <2>2, <2>3 DEF Directions, S
<1>9. Directions(Client)
  <2>1. FlowOK(Client, C, wire'[Client], pc'[Client], pc'[Server])
    <3>1. After(Client, C, wire[Client][1]) \subseteq Expected(C, "answer")
      BY <1>1, <1>5 DEF After, Expected, Distinct
    <3>2. pc[Client] # "failed" /\ wire[Client][1] \in Written(Client, C, pc[Client])
            => Level(Client, pc[Client], "answer")
      BY <1>0, <1>1, <1>5 DEF Written, Level, Distinct, ClientOK
    <3>3. FlowOK(Client, C, Tail(wire[Client]), pc[Client], "answer")
      BY <1>1, <1>3, <3>1, <3>2, FlowRead
    <3> QED
      BY <1>6, <1>7, <3>3
  <2>2. SameKey => NoiseOK(C, wire'[Client], pc'[Client], pc'[Server],
                           todo'[Client], budget'[Server])
    BY <1>7 DEF NoiseOK
  <2>3. CountOK(C, wire'[Client], pc'[Client], sent'[Client], got'[Server])
    BY <1>1, <1>3, <1>6, <1>7, CountRead
  <2> QED
    BY <1>1, <2>1, <2>2, <2>3 DEF Directions, C
<1>10. TypeOK'
  <2>1. pc' \in [Sides -> States]
    BY <1>2, <1>3 DEF States
  <2>2. Effective(Value(Server).role) = Effective(want) /\ Effective(want) \in Roles
    BY <1>0, <1>5 DEF IvvV, TypeOK, Roles, Effective
  <2>3. role' \in [Sides -> Roles \cup {"none"}]
    BY <1>0, <1>3, <2>2 DEF TypeOK
  <2> QED
    BY <1>0, <1>3, <1>6, <2>1, <2>3 DEF TypeOK, config
<1>11. ClientOK'
  BY <1>0, <1>1, <1>3, <1>6, <1>7 DEF ClientOK, Live, config, TypeOK
<1>12. ServerOK'
  <2>1. Value(Server).role = want
    BY <1>5 DEF IvvV
  <2>2. role'[Server] = Effective(want)
    BY <1>0, <1>1, <1>3, <2>1 DEF TypeOK
  <2>3. Effective(want)' = Effective(want)
    BY <1>3, StreamKept
  <2> QED
    BY <1>0, <1>1, <1>3, <1>7, <2>2, <2>3 DEF ServerOK, Live
<1>13. /\ C' = C /\ S' = S /\ Match' = Match /\ Effective(want)' = Effective(want)
       /\ want' = want /\ key' = key
  BY <1>1, <1>3, StreamKept DEF C, S, config
<1>14. Promises'
  <2>1. Answered => Answered'
    <3>1. Value(Server).role = want
      BY <1>5 DEF IvvV
    <3>2. role'[Server] = Effective(want)
      BY <1>0, <1>1, <1>3, <3>1 DEF TypeOK
    <3> QED
      BY <1>3, <1>13, <3>2 DEF Answered
  <2>2. Holds(wire'[Server], S.ans) => Answered'
    BY <1>0, <1>1, <1>6, <2>1 DEF Promises, C, S
  <2>3. Holds(wire'[Client], C.data) => Match
    BY <1>0, <1>1, <1>6, <2>1 DEF Promises, C, S
  <2>4. pc'[Client] = "done" => Answered' /\ Match /\ Effective(want) = want
    BY <1>0, <1>7, <2>1 DEF Promises
  <2> QED
    BY <1>13, <2>2, <2>3, <2>4 DEF Promises, C, S
<1> QED
  BY <1>1, <1>3, <1>6, <1>8, <1>9, <1>10, <1>11, <1>12, <1>14, Assemble

\* handshake_client_confirm, the answer refused.
LEMMA RefuseKeeps ==
  ASSUME Chain, Refuse
  PROVE  Chain'
<1>1. PICK v \in Values(Client) \ {Dummy} : Fail(Client, NmuxError(v)) /\ NmuxError(v) # "none"
  BY DEF Refuse
<1>2. Client \in Sides /\ Live(Client) /\ Reading(Client) /\ pc[Client] = "nmux"
  BY DEF Sides, Live, Refuse, Reading
<1>3. v.canary = FlagCanary(key[Server])
  BY <1>1, <1>2, ReadIs, ValueIs DEF NmuxV
<1>4. NmuxError(v) \in {"flags", "role"} /\ (SameKey => NmuxError(v) # "flags")
  BY <1>1, <1>3 DEF NmuxError, SameKey
<1> QED
  BY <1>1, <1>2, <1>4, FailKeeps DEF Errors

\* The steps both ends have in common.
LEMMA CommonKeeps ==
  ASSUME Chain, NEW x \in Sides, Common(x) \/ Timeout(x)
  PROVE  Chain'
<1>1. CASE SendNop(x)
  BY <1>1, SendNopKeeps
<1>2. CASE SkipDummy(x)
  BY <1>2, SkipDummyKeeps
<1>3. CASE TooManyDummies(x)
  <2>1. /\ pc[x] \in {"sid", "nmux", "ivv"} /\ wire[Peer(x)] # <<>> /\ Reading(x)
        /\ Value(x) = Dummy /\ budget[x] = 0 /\ Fail(x, "dummies")
    <3>1. Reading(x) /\ Dummy \in Values(x)
      BY <1>3 DEF TooManyDummies, Reading
    <3> QED
      BY <1>3, <3>1, ReadIs DEF TooManyDummies
  <2>2. pc[x] \in {"sid", "ivv"} /\ wire[Peer(x)][1] = Stream(Peer(x)).nop
    BY <2>1, ValueIs
  <2>3. /\ wire[Peer(x)] \in Seq(Packets(Stream(Peer(x))))
        /\ SameKey => NoiseOK(Stream(Peer(x)), wire[Peer(x)], pc[Peer(x)], pc[x],
                              todo[Peer(x)], budget[x])
    BY Both
  <2>4. Len(wire[Peer(x)]) \in Nat \ {0}
    BY <2>1, <2>3, Taken
  <2>5. ~SameKey
    BY <2>1, <2>2, <2>3, <2>4 DEF NoiseOK
  <2>6. "dummies" \in Errors /\ Live(x)
    BY <2>1 DEF Errors, Live
  <2> QED
    BY <2>1, <2>5, <2>6, FailKeeps
<1>4. CASE Garbled(x) \/ Swallow(x)
  BY <1>4, Fits DEF Garbled, Swallow, Foreign
<1>5. CASE Closed(x)
  <2>1. Live(x) /\ Fail(x, "eof") /\ "eof" \in Errors
    BY <1>5 DEF Closed, Live, Errors
  <2> QED
    BY <2>1, FailKeeps
<1>6. CASE Timeout(x)
  <2>1. Live(x) /\ Fail(x, "timeout") /\ "timeout" \in Errors
    BY <1>6 DEF Timeout, Live, Errors
  <2> QED
    BY <2>1, FailKeeps
<1> QED
  BY <1>1, <1>2, <1>3, <1>4, <1>5, <1>6 DEF Common

\* The initial states.
LEMMA InitOK == Init => HsInv
<1> SUFFICES ASSUME Init PROVE HsInv
  OBVIOUS
<1>1. /\ key \in [Sides -> Keys] /\ want \in Roles
      /\ allow \in BOOLEAN /\ slow \in BOOLEAN
      /\ \A x \in Sides : key[x] \in KeyShape
  BY HandshakeAssumption DEF Init
<1>2. \A x \in Sides :
        /\ MaxNopPackets(key[x]) \in Nat
        /\ \A n \in NopRounds(key[x]) : n \in Nat /\ n =< MaxNopPackets(key[x])
  BY <1>1, NopFacts
<1>3. /\ \A x \in Sides : budget[x] = MaxNopPackets(key[x]) /\ todo[x] \in NopRounds(key[x])
      /\ budget \in [Sides -> Nat]
  BY <1>2 DEF Init
<1>4. todo \in [Sides -> Nat]
  <2>1. todo = [x \in Sides |-> todo[x]]
    BY DEF Init
  <2> QED
    BY <1>2, <1>3, <2>1
<1>5. /\ pc = [x \in Sides |-> "nop"]
      /\ tx = [x \in Sides |-> Fresh] /\ rx = [x \in Sides |-> Fresh]
      /\ wire = [x \in Sides |-> <<>>]
      /\ sid = [x \in Sides |-> "none"] /\ role = [x \in Sides |-> "none"]
      /\ err = [x \in Sides |-> "none"]
      /\ sent = [x \in Sides |-> 0] /\ got = [x \in Sides |-> 0]
  BY DEF Init
<1>6. TypeOK
  <2>1. \A x \in Sides : Len(wire[x]) =< Buf
    BY <1>5, HandshakeAssumption
  <2>2. /\ pc \in [Sides -> States]
        /\ tx \in [Sides -> {Fresh, Rekeyed}] /\ rx \in [Sides -> {Fresh, Rekeyed}]
        /\ sid \in [Sides -> {"none", "sid", "garbage"}] /\ role \in [Sides -> Roles \cup {"none"}]
        /\ err \in [Sides -> Errors]
    BY <1>5 DEF States, Errors
  <2>3. sent \in [Sides -> 0..MaxData] /\ got \in [Sides -> Nat]
    BY <1>5, HandshakeAssumption
  <2> QED
    BY <1>1, <1>3, <1>4, <2>1, <2>2, <2>3 DEF TypeOK
<1>7. Client \in Sides /\ Server \in Sides
  BY DEF Sides
<1>8. ClientOK /\ ServerOK
  BY <1>5, <1>7 DEF ClientOK, ServerOK
<1>9. Promises
  BY <1>5, <1>7 DEF Promises, Holds
<1>10. ASSUME NEW x \in Sides PROVE Flow(x) /\ Noise(x) /\ Count(x)
  <2>1. /\ Peer(x) \in Sides /\ wire[x] = <<>> /\ pc[x] = "nop" /\ pc[Peer(x)] = "nop"
        /\ sent[x] = 0 /\ got[Peer(x)] = 0 /\ Sides = {x, Peer(x)}
    BY <1>5, Ends
  <2>2. Flow(x)
    BY <2>1 DEF Flow, FlowOK, Level
  <2>3. Noise(x)
    <3>1. SameKey => key[x] = key[Peer(x)]
      BY DEF SameKey, Sides, Peer
    <3>2. SameKey => todo[x] =< budget[Peer(x)] /\ todo[x] \in Nat
      BY <1>2, <1>3, <2>1, <3>1
    <3> QED
      BY <2>1, <3>2 DEF Noise, NoiseOK
  <2>4. Count(x)
    BY <2>1 DEF Count, CountOK
  <2> QED
    BY <2>2, <2>3, <2>4
<1>11. CipherSync
  BY <1>5 DEF CipherSync
<1>12. \A x \in Sides : wire[x] \in Seq(Sendable(x))
  BY <1>5
<1> QED
  BY <1>5, <1>6, <1>8, <1>9, <1>10, <1>11, <1>12 DEF HsInv, Chain, Apart

\* A stuttering step.
LEMMA StutterKeeps == Chain /\ UNCHANGED vars => Chain'
<1> SUFFICES ASSUME Chain, UNCHANGED vars PROVE Chain'
  OBVIOUS
<1>0. /\ TypeOK /\ DOMAIN wire = Sides /\ ClientOK /\ ServerOK /\ Promises
  BY DEF Chain
<1>1. Client \in Sides /\ UNCHANGED config
  BY DEF Sides, vars, config
<1>2. Directions(Client) /\ Directions(Peer(Client))
  BY <1>1, Both DEF Directions, vars
<1>3. TypeOK' /\ DOMAIN wire' = Sides
  BY <1>0 DEF TypeOK, vars
<1>4. ClientOK' /\ ServerOK'
  BY <1>0 DEF ClientOK, ServerOK, Live, Effective, vars
<1>5. Promises'
  BY <1>0, <1>1, PromisesKept DEF vars
<1> QED
  BY <1>1, <1>2, <1>3, <1>4, <1>5, Assemble DEF vars

(***************************************************************************)
(* Ends of different secrets                                               *)
(***************************************************************************)
\* No packet is readable, so that a read returns garbage.
LEMMA Unreadable ==
  ASSUME Apart, NEW x \in Sides
  PROVE  /\ wire[Peer(x)] # <<>> => ~Readable(x)
         /\ \A v \in Values(x) : wire[Peer(x)] # <<>> /\ v \in Garbage(pc[x])
<1> DEFINE y == Peer(x)
<1>1. y \in Sides /\ (x = Client <=> y = Server) /\ (x = Server <=> y = Client)
  BY Ends
<1>2. key[x].secret # key[y].secret \/ key[x].kf # key[y].kf
  BY <1>1 DEF Apart, SameSecret, Sides
<1>3. ASSUME wire[y] # <<>> PROVE ~Readable(x)
  <2>1. Head(wire[y]) \in Sendable(y)
    BY <1>1, <1>3, Taken DEF Apart
  <2>2. PICK c \in {Fresh, Rekeyed}, v \in Vals : Head(wire[y]) = At(y, c, v)
    BY <2>1 DEF Sendable
  <2>3. Head(wire[y]).shell = Shell(key[y], c)
    BY <2>2 DEF At
  <2>4. Shell(key[y], c) # Shell(key[x], rx[x])
    BY <1>2 DEF Shell
  <2> QED
    BY <2>3, <2>4 DEF Readable
<1> QED
  BY <1>3 DEF Values

\* What may be sent depends on the configuration alone.
LEMMA SendableKept ==
  ASSUME UNCHANGED config
  PROVE  (\A x \in Sides : Sendable(x)' = Sendable(x)) /\ SameSecret' = SameSecret
BY DEF config, Sendable, At, Vals, IvvV, SidV, DataV, SameSecret

\* A write, a read and a close leave the wires typed.
Wires ==
  /\ DOMAIN wire = Sides
  /\ \A x \in Sides : wire[x] \in Seq(Sendable(x)) /\ Len(wire[x]) =< Buf

LEMMA ApartSend ==
  ASSUME Apart, NEW x \in Sides, NEW v \in Vals, Send(x, v), UNCHANGED config
  PROVE  Wires'
<1>1. tx[x] \in {Fresh, Rekeyed} /\ Len(wire[x]) < Buf
  BY DEF Apart, TypeOK, Send
<1>2. Packet(x, v) \in Sendable(x)
  BY <1>1 DEF Packet, At, Sendable
<1>3. DOMAIN wire = Sides /\ \A z \in Sides : wire[z] \in Seq(Sendable(z)) /\ Len(wire[z]) =< Buf
  BY DEF Apart, TypeOK
<1>4. wire' = [wire EXCEPT ![x] = Append(@, Packet(x, v))]
  BY DEF Send
<1>5. /\ Append(wire[x], Packet(x, v)) \in Seq(Sendable(x))
      /\ Len(Append(wire[x], Packet(x, v))) =< Buf
  BY <1>1, <1>2, <1>3, Appended, HandshakeAssumption
<1>6. DOMAIN wire' = Sides /\ wire'[x] = Append(wire[x], Packet(x, v))
  BY <1>3, <1>4
<1>7. \A z \in Sides : z # x => wire'[z] = wire[z]
  BY <1>3, <1>4
<1> QED
  BY <1>3, <1>5, <1>6, <1>7, SendableKept DEF Wires

LEMMA ApartRead ==
  ASSUME Apart, NEW x \in Sides, wire[Peer(x)] # <<>>, Consume(x), UNCHANGED config
  PROVE  Wires'
<1> DEFINE y == Peer(x)
<1>1. DOMAIN wire = Sides /\ \A z \in Sides : wire[z] \in Seq(Sendable(z)) /\ Len(wire[z]) =< Buf
  BY DEF Apart, TypeOK
<1>2. y \in Sides /\ wire' = [wire EXCEPT ![y] = Tail(@)]
  BY Ends DEF Consume
<1>3. /\ Tail(wire[y]) \in Seq(Sendable(y)) /\ Len(wire[y]) \in Nat \ {0}
      /\ Len(Tail(wire[y])) = Len(wire[y]) - 1
  BY <1>1, <1>2, Taken
<1>4. Len(Tail(wire[y])) =< Buf
  BY <1>1, <1>2, <1>3, HandshakeAssumption
<1>5. DOMAIN wire' = Sides /\ wire'[y] = Tail(wire[y])
  BY <1>1, <1>2
<1>6. \A z \in Sides : z # y => wire'[z] = wire[z]
  BY <1>1, <1>2
<1> QED
  BY <1>1, <1>3, <1>4, <1>5, <1>6, SendableKept DEF Wires

LEMMA ApartFail ==
  ASSUME Apart, NEW x \in Sides, NEW why \in Errors, Fail(x, why)
  PROVE  Apart'
<1>1. DOMAIN wire = Sides /\ \A z \in Sides : wire[z] \in Seq(Sendable(z)) /\ Len(wire[z]) =< Buf
  BY DEF Apart, TypeOK
<1>2. PICK n \in 0..Len(wire[x]) : wire' = [wire EXCEPT ![x] = SubSeq(@, 1, n)]
  BY DEF Fail
<1>3. UNCHANGED config /\ UNCHANGED <<config, todo, budget, tx, rx, sid, role, sent, got>>
  BY DEF Fail
<1>4. /\ SubSeq(wire[x], 1, n) \in Seq(Sendable(x)) /\ Len(SubSeq(wire[x], 1, n)) = n
      /\ Len(wire[x]) \in Nat
  BY <1>1, Cut
<1>5. DOMAIN wire' = Sides /\ wire'[x] = SubSeq(wire[x], 1, n)
  BY <1>1, <1>2
<1>6. \A z \in Sides : z # x => wire'[z] = wire[z]
  BY <1>1, <1>2
<1>7. Len(wire'[x]) =< Buf
  BY <1>1, <1>4, <1>5, HandshakeAssumption
<1>8. Wires'
  BY <1>1, <1>3, <1>4, <1>5, <1>6, <1>7, SendableKept DEF Wires
<1>9. pc' \in [Sides -> States] /\ err' \in [Sides -> Errors]
  BY DEF Fail, Apart, TypeOK, States
<1>10. TypeOK'
  BY <1>3, <1>8, <1>9 DEF Apart, TypeOK, Wires, config
<1> QED
  BY <1>3, <1>8, <1>10, SendableKept DEF Apart, Wires

\* A step that leaves the wires typed and keeps the types of the rest.
LEMMA ApartAssemble ==
  ASSUME Apart, UNCHANGED config, Wires',
         pc' \in [Sides -> States], todo' \in [Sides -> Nat], budget' \in [Sides -> Nat],
         tx' \in [Sides -> {Fresh, Rekeyed}], rx' \in [Sides -> {Fresh, Rekeyed}],
         sid' \in [Sides -> {"none", "sid", "garbage"}],
         role' \in [Sides -> Roles \cup {"none"}], UNCHANGED err,
         sent' \in [Sides -> 0..MaxData], got' \in [Sides -> Nat]
  PROVE  Apart'
<1>1. TypeOK'
  BY DEF Apart, TypeOK, Wires, config
<1> QED
  BY <1>1, SendableKept DEF Apart, Wires

\* Every step of such ends.
LEMMA ApartKeeps ==
  ASSUME Apart, Next
  PROVE  Apart'
<1>0. /\ TypeOK /\ Client \in Sides /\ Server \in Sides
      /\ \A x \in Sides : key[x] \in KeyShape
  BY HandshakeAssumption DEF Apart, TypeOK, Sides
<1>1. CASE SendIvv
  <2>1. IvvV \in Vals /\ Send(Client, IvvV) /\ UNCHANGED config
    BY <1>1 DEF SendIvv, Vals, IvvV, config
  <2>2. Wires'
    BY <1>0, <2>1, ApartSend
  <2> QED
    BY <1>0, <1>1, <2>1, <2>2, ApartAssemble DEF SendIvv, TypeOK, States
<1>2. CASE SendSid
  <2>1. SidV \in Vals /\ Send(Server, SidV) /\ UNCHANGED config
    BY <1>2 DEF SendSid, Vals, SidV, config
  <2>2. Wires'
    BY <1>0, <2>1, ApartSend
  <2> QED
    BY <1>0, <1>2, <2>1, <2>2, ApartAssemble DEF SendSid, TypeOK, States
<1>3. CASE SendNmux
  <2> DEFINE v == [type |-> "nmux", canary |-> FlagCanary(key[Server]),
                   mux |-> role[Server] = "MuxTunnel"]
  <2>1. Send(Server, v) /\ UNCHANGED config
    BY <1>3 DEF SendNmux, config
  <2>2. v \in Vals
    <3>1. (role[Server] = "MuxTunnel") \in BOOLEAN
      BY Zenon
    <3> QED
      BY <3>1 DEF Vals
  <2>3. Wires'
    BY <1>0, <2>1, <2>2, ApartSend
  <2> QED
    BY <1>0, <1>3, <2>1, <2>3, ApartAssemble DEF SendNmux, TypeOK, States
<1>4. CASE ReadSid
  <2>1. PICK v \in Values(Client) \ {Dummy} : sid' = [sid EXCEPT ![Client] = v.type]
    BY <1>4 DEF ReadSid
  <2>2. wire[Peer(Client)] # <<>> /\ v \in Garbage("sid")
    BY <1>0, <1>4, Unreadable DEF ReadSid
  <2>3. v.type = "garbage"
    BY <2>1, <2>2 DEF Garbage
  <2>4. Consume(Client) /\ UNCHANGED config
    BY <1>4 DEF ReadSid, config
  <2>5. Wires'
    BY <1>0, <2>2, <2>4, ApartRead
  <2>6. MaxNopPackets(key[Client]) \in Nat
    BY <1>0, NopFacts
  <2> QED
    BY <1>0, <1>4, <2>1, <2>3, <2>4, <2>5, <2>6, ApartAssemble DEF ReadSid, TypeOK, States
<1>5. CASE Confirm
  <2>1. Values(Client) # {} /\ Consume(Client) /\ UNCHANGED config
    BY <1>5 DEF Confirm, config
  <2>2. Wires'
    BY <1>0, <2>1, Unreadable, ApartRead
  <2> QED
    BY <1>0, <1>5, <2>1, <2>2, ApartAssemble DEF Confirm, TypeOK, States
<1>6. CASE Refuse
  <2>1. PICK v : Fail(Client, NmuxError(v)) /\ NmuxError(v) # "none"
    BY <1>6 DEF Refuse
  <2>2. NmuxError(v) \in Errors
    BY DEF NmuxError, Errors
  <2> QED
    BY <1>0, <2>1, <2>2, ApartFail
<1>7. CASE ReadIvv
  <2>1. PICK v \in Values(Server) \ {Dummy} :
          role' = [role EXCEPT ![Server] = Effective(v.role)]
    BY <1>7 DEF ReadIvv
  <2>2. wire[Peer(Server)] # <<>> /\ v \in Garbage("ivv")
    BY <1>0, <1>7, Unreadable DEF ReadIvv
  <2>3. v.role \in Roles
    BY <2>1, <2>2 DEF Garbage
  <2>4. Effective(v.role) \in Roles
    BY <2>3 DEF Effective, Roles
  <2>5. Consume(Server) /\ UNCHANGED config
    BY <1>7 DEF ReadIvv, config
  <2>6. Wires'
    BY <1>0, <2>2, <2>5, ApartRead
  <2> QED
    BY <1>0, <1>7, <2>1, <2>4, <2>5, <2>6, ApartAssemble DEF ReadIvv, TypeOK, States
<1>8. ASSUME NEW x \in Sides, SendNop(x) PROVE Apart'
  <2>1. Dummy \in Vals /\ Send(x, Dummy) /\ UNCHANGED config
    BY <1>8 DEF SendNop, Vals, config
  <2>2. Wires'
    BY <2>1, ApartSend
  <2>3. todo' \in [Sides -> Nat]
    BY <1>0, <1>8 DEF SendNop, TypeOK
  <2> QED
    BY <1>0, <1>8, <2>1, <2>2, <2>3, ApartAssemble DEF SendNop, TypeOK
<1>9. ASSUME NEW x \in Sides, SkipDummy(x) PROVE Apart'
  <2>1. Values(x) # {} /\ Consume(x) /\ UNCHANGED config
    BY <1>9 DEF SkipDummy, config
  <2>2. Wires'
    BY <2>1, Unreadable, ApartRead
  <2>3. budget' \in [Sides -> Nat]
    BY <1>0, <1>9 DEF SkipDummy, TypeOK
  <2> QED
    BY <1>0, <1>9, <2>1, <2>2, <2>3, ApartAssemble DEF SkipDummy, TypeOK
<1>10. ASSUME NEW x \in Sides, TooManyDummies(x) \/ Garbled(x) \/ Closed(x) \/ Timeout(x)
       PROVE  Apart'
  BY <1>10, ApartFail DEF TooManyDummies, Garbled, Closed, Timeout, Errors
<1>11. ASSUME NEW x \in Sides, Swallow(x) PROVE Apart'
  <2>1. wire[Peer(x)] # <<>> /\ Consume(x) /\ UNCHANGED config
    BY <1>11 DEF Swallow, Foreign, config
  <2>2. Wires'
    BY <2>1, ApartRead
  <2> QED
    BY <1>0, <1>11, <2>1, <2>2, ApartAssemble DEF Swallow, TypeOK
<1>12. ASSUME NEW x \in Sides, SendData(x) PROVE Apart'
  <2>1. DataV \in Vals /\ Send(x, DataV) /\ UNCHANGED config
    BY <1>12 DEF SendData, Vals, DataV, config
  <2>2. Wires'
    BY <2>1, ApartSend
  <2>3. sent' \in [Sides -> 0..MaxData]
    BY <1>0, <1>12, HandshakeAssumption DEF SendData, TypeOK
  <2> QED
    BY <1>0, <1>12, <2>1, <2>2, <2>3, ApartAssemble DEF SendData, TypeOK
<1>13. ASSUME NEW x \in Sides, ReadData(x) PROVE Apart'
  <2>1. Values(x) # {} /\ Consume(x) /\ UNCHANGED config
    BY <1>13 DEF ReadData, config
  <2>2. Wires'
    BY <2>1, Unreadable, ApartRead
  <2>3. got' \in [Sides -> Nat]
    BY <1>0, <1>13 DEF ReadData, TypeOK
  <2> QED
    BY <1>0, <1>13, <2>1, <2>2, <2>3, ApartAssemble DEF ReadData, TypeOK
<1> QED
  BY <1>1, <1>2, <1>3, <1>4, <1>5, <1>6, <1>7, <1>8, <1>9, <1>10, <1>11, <1>12, <1>13
  DEF Next, ClientStep, ServerStep, Common

(***************************************************************************)
(* The theorems                                                            *)
(***************************************************************************)
\* The invariant of the handshake: between ends of the same secrets, in both
\* directions, whatever the ends interleave and wherever one of them gives up,
\* the reader's switches of cipher and framing fall between the packets the
\* writer's fell between; ends of different secrets never read a packet as it
\* was written.
THEOREM HandshakeInvariant == Spec => []HsInv
<1>1. HsInv /\ [Next]_vars => HsInv'
  <2> SUFFICES ASSUME HsInv, [Next]_vars PROVE HsInv'
    OBVIOUS
  <2>1. ASSUME Chain, Next PROVE Chain'
    <3>1. CASE ClientStep
      BY <2>1, <3>1, SendIvvKeeps, ReadSidKeeps, ConfirmKeeps, RefuseKeeps DEF ClientStep
    <3>2. CASE ServerStep
      BY <2>1, <3>2, SendSidKeeps, ReadIvvKeeps, SendNmuxKeeps DEF ServerStep
    <3>3. ASSUME NEW x \in Sides, Common(x) \/ Timeout(x) \/ SendData(x) \/ ReadData(x)
          PROVE  Chain'
      BY <2>1, <3>3, CommonKeeps, SendDataKeeps, ReadDataKeeps
    <3> QED
      BY <2>1, <3>1, <3>2, <3>3 DEF Next
  <2>2. ASSUME Apart, UNCHANGED vars PROVE Apart'
    <3>1. UNCHANGED config /\ UNCHANGED <<pc, todo, budget, tx, rx, wire, sid, role, err, sent, got>>
      BY <2>2 DEF vars, config
    <3>2. TypeOK'
      BY <2>2, <3>1 DEF Apart, TypeOK, config
    <3> QED
      BY <2>2, <3>1, <3>2, SendableKept DEF Apart
  <2> QED
    BY <2>1, <2>2, StutterKeeps, ApartKeeps DEF HsInv
<1> QED
  BY InitOK, <1>1, PTL DEF Spec

\* Every variable keeps its type, garbage or not; in particular the skip
\* budgets never go below zero.
THEOREM HandshakeTypeOK == Spec => []TypeOK
<1>1. HsInv => TypeOK
  BY DEF HsInv, Chain, Apart
<1> QED
  BY <1>1, HandshakeInvariant, PTL

\* Ends of one configuration never fail for a cipher, a framing, a flag or
\* too much noise: for every configuration and every prelude it allows.
THEOREM HandshakeCipherSync == Spec => []CipherSync
<1>1. HsInv => CipherSync
  BY DEF HsInv, Chain, Apart, CipherSync, SameKey, SameSecret
<1> QED
  BY <1>1, HandshakeInvariant, PTL

\* Ends that share their secrets, whatever their flags and noise settings,
\* never face a packet they would decode otherwise than it was encoded.
THEOREM HandshakeNoGarbledData == Spec => []NoGarbledData
<1>1. HsInv => NoGarbledData
  <2> SUFFICES ASSUME HsInv, SameSecret, NEW x \in Sides PROVE ~Foreign(x)
    BY DEF NoGarbledData
  <2>1. Chain
    BY DEF HsInv, Apart
  <2> QED
    BY <2>1, Fits DEF Foreign
<1> QED
  BY <1>1, HandshakeInvariant, PTL

\* A client that completes with a server of the same secrets agrees with it on
\* the session id, the role and the flags of the data plane.
THEOREM HandshakeAgreement == Spec => []Agreement
<1>1. HsInv => Agreement
  <2> SUFFICES ASSUME HsInv, SameSecret, pc[Client] = "done" PROVE Agreement
    BY DEF Agreement
  <2>1. ClientOK /\ Promises
    BY DEF HsInv, Chain, Apart
  <2> QED
    BY <2>1 DEF ClientOK, Promises, Live, Answered, Match, Agreement
<1> QED
  BY <1>1, HandshakeInvariant, PTL
=============================================================================
