----------------------------- MODULE Handshake ------------------------------
(***************************************************************************)
(* The session handshake of crates/core/src/transmission.rs, run by both   *)
(* ends of one TCP connection: NOP preludes that cross on the wire, the    *)
(* session id, the client's ivv (rekey nonce and role request) and the     *)
(* server's nmux (role echo and configuration canary), and the first data  *)
(* frames after it.  Each direction of each end switches cipher and        *)
(* framing at its own moment; a packet is readable only if the reader's    *)
(* rx state is then what the writer's tx state was.                        *)
(*                                                                         *)
(* A packet is modelled by the shell it was encoded with (keys, cipher     *)
(* generation, framing, payload flags) and the value it carries.  There is *)
(* no MAC: reading a packet of another shell may fail a checksum, a length *)
(* or the parser, may swallow it into a frame that never completes, or may *)
(* return any value the parser can make of random bytes.                   *)
(***************************************************************************)
EXTENDS Integers, Sequences, FiniteSets

CONSTANTS
  Keys,      \* configurations (ObfuscationKey) an end may have
  Buf,       \* packets the connection buffers per direction
  MaxData    \* bound: data frames each end sends

Client == "c"
Server == "s"
Sides  == {Client, Server}
Peer(x) == IF x = Client THEN Server ELSE Client

Roles == {"MuxTunnel", "BondLink"}

\* kl, kh: NOP exponents; plain: keep base94 framing for data; obf: the other
\* data-plane flags; kf: the key factor; secret: the passwords and methods.
KeyShape == [kl : 0..20, kh : 0..20, plain : BOOLEAN, obf : STRING,
             kf : Nat, secret : STRING]

ASSUME HandshakeAssumption ==
  /\ Keys \subseteq KeyShape
  /\ Buf \in Nat \ {0}
  /\ MaxData \in Nat

VARIABLES
  key,     \* key[x]: the end's configuration
  want,    \* the role the client asks for
  allow,   \* the server's allow_bond
  slow,    \* the network is slow enough for the timeouts to fire
  pc,      \* pc[x]: next step of the end
  todo,    \* todo[x]: NOP packets still to send
  budget,  \* budget[x]: dummy packets read_session_id will still skip
  tx,      \* tx[x]: TxCore: cipher generation and handshaked flag
  rx,      \* rx[x]: RxCore
  wire,    \* wire[x]: packets sent by x, not yet read
  sid,     \* sid[x]: what the end takes for the session id
  role,    \* role[x]: the role the end settled on
  err,     \* err[x]: why the end gave up
  sent,    \* sent[x]: data frames sent
  got      \* got[x]: data frames read

vars == <<key, want, allow, slow, pc, todo, budget, tx, rx, wire, sid, role, err, sent, got>>

States == {"nop", "sid", "nmux", "ivv", "answer", "done", "failed"}
Errors == {"none", "garbled", "dummies", "flags", "role", "timeout", "eof"}

Generations == {"static", "ivv"}         \* SessionCipher::new, ::derive(ivv)
Fresh   == [gen |-> "static", hs |-> FALSE]
Rekeyed == [gen |-> "ivv", hs |-> TRUE]  \* rekey + on_handshake_complete

CeilDiv(a, b) == (a + b - 1) \div b

\* nop_rounds: ceil(rand(2^kl .. 2^kh) / 1400), whichever exponent is larger.
NopRounds(k) ==
  LET lo == 2 ^ (IF k.kl > k.kh THEN k.kh ELSE k.kl)
      hi == 2 ^ (IF k.kl > k.kh THEN k.kl ELSE k.kh)
  IN CeilDiv(lo, 1400) .. CeilDiv(hi, 1400)

\* Mutant: the exponents are taken to be in order.
MaxNopPacketsUnordered(k) == 2 ^ k.kh

\* max_nop_packets: what a reader skips before it gives up.
MaxNopPackets(k) == 2 ^ (IF k.kl > k.kh THEN k.kl ELSE k.kh)

\* Mutant: the framing switch is left out of the canary.
FlagCanaryNoPlain(k) == <<k.obf, k.kf % 4096>>

\* flag_canary: the framing-relevant bits of the configuration.
FlagCanary(k) == <<k.plain, k.obf, k.kf % 4096>>

\* The high word of an nmux that does not carry the canary's magic.
NoMagic == <<>>

\* What a packet is encoded with: encrypt_impl under codec state c.
Shell(k, c) ==
  [secret |-> k.secret,
   kf     |-> k.kf,
   gen    |-> c.gen,
   base94 |-> ~c.hs \/ k.plain,
   flags  |-> IF c.hs THEN k.obf ELSE "safest"]

Dummy == [type |-> "dummy"]

Packet(x, v) == [shell |-> Shell(key[x], tx[x]), val |-> v]

Init ==
  /\ key \in [Sides -> Keys]
  /\ want \in Roles
  /\ allow \in BOOLEAN
  /\ slow \in BOOLEAN
  /\ pc = [x \in Sides |-> "nop"]
  /\ todo \in [Sides -> UNION {NopRounds(k) : k \in Keys}]
  /\ \A x \in Sides : todo[x] \in NopRounds(key[x])
  /\ budget = [x \in Sides |-> MaxNopPackets(key[x])]
  /\ tx = [x \in Sides |-> Fresh]
  /\ rx = [x \in Sides |-> Fresh]
  /\ wire = [x \in Sides |-> <<>>]
  /\ sid = [x \in Sides |-> "none"]
  /\ role = [x \in Sides |-> "none"]
  /\ err = [x \in Sides |-> "none"]
  /\ sent = [x \in Sides |-> 0]
  /\ got = [x \in Sides |-> 0]

config == <<key, want, allow, slow>>

\* A write: it waits while the connection's buffer is full.
Send(x, v) ==
  /\ Len(wire[x]) < Buf
  /\ wire' = [wire EXCEPT ![x] = Append(@, Packet(x, v))]

(***************************************************************************)
(* Steps common to both ends                                               *)
(***************************************************************************)
\* handshake_prelude
SendNop(x) ==
  /\ pc[x] = "nop"
  /\ todo[x] > 0
  /\ Send(x, Dummy)
  /\ todo' = [todo EXCEPT ![x] = @ - 1]
  /\ UNCHANGED <<config, pc, budget, tx, rx, sid, role, err, sent, got>>

Reading(x) == pc[x] \in {"sid", "nmux", "ivv"} \/ pc[x] = "done"

\* The next packet was encoded the way x is about to decode it.
Readable(x) == Head(wire[Peer(x)]).shell = Shell(key[x], rx[x])

\* What unpack_session_id (on the data plane, the caller) may make of random
\* bytes read in state p.
Garbage(p) ==
  CASE p = "sid"  -> {Dummy, [type |-> "garbage"]}
    [] p = "ivv"  -> {Dummy} \cup [type : {"ivv"}, role : Roles]
    [] p = "nmux" -> {Dummy} \cup [type   : {"nmux"},
                                  canary : {NoMagic} \cup {FlagCanary(k) : k \in Keys},
                                  mux    : BOOLEAN]
    [] p = "done" -> {[type |-> "data"]}

\* The values the next read of x may return.
Values(x) ==
  IF wire[Peer(x)] = <<>> THEN {}
  ELSE IF Readable(x) THEN {Head(wire[Peer(x)]).val} ELSE Garbage(pc[x])

\* The packet read leaves the wire.
Consume(x) == wire' = [wire EXCEPT ![Peer(x)] = Tail(@)]

\* Mutant: the budget wraps instead of running out.
SkipDummyForever(x) ==
  /\ pc[x] \in {"sid", "nmux", "ivv"}
  /\ Dummy \in Values(x)
  /\ budget' = [budget EXCEPT ![x] = @ - 1]
  /\ Consume(x)
  /\ UNCHANGED <<config, pc, todo, tx, rx, sid, role, err, sent, got>>

\* read_session_id skips a dummy while its budget lasts.
SkipDummy(x) ==
  /\ pc[x] \in {"sid", "nmux", "ivv"}
  /\ Dummy \in Values(x)
  /\ budget[x] > 0
  /\ budget' = [budget EXCEPT ![x] = @ - 1]
  /\ Consume(x)
  /\ UNCHANGED <<config, pc, todo, tx, rx, sid, role, err, sent, got>>

\* The end gives up and closes its socket; what it had sent may be lost.
Fail(x, why) ==
  /\ pc' = [pc EXCEPT ![x] = "failed"]
  /\ err' = [err EXCEPT ![x] = why]
  /\ \E n \in 0..Len(wire[x]) : wire' = [wire EXCEPT ![x] = SubSeq(@, 1, n)]
  /\ UNCHANGED <<config, todo, budget, tx, rx, sid, role, sent, got>>

TooManyDummies(x) ==
  /\ pc[x] \in {"sid", "nmux", "ivv"}
  /\ Dummy \in Values(x)
  /\ budget[x] = 0
  /\ Fail(x, "dummies")

\* x reads and the next packet is of another shell.
Foreign(x) == Reading(x) /\ wire[Peer(x)] # <<>> /\ ~Readable(x)

\* A checksum, a length check or the parser rejects the packet.
Garbled(x) == Foreign(x) /\ Fail(x, "garbled")

\* Its length is misread: the reader waits for the rest of a longer frame.
Swallow(x) ==
  /\ Foreign(x)
  /\ Consume(x)
  /\ UNCHANGED <<config, pc, todo, budget, tx, rx, sid, role, err, sent, got>>

\* Mutant: an established session does not notice the close.
ClosedUnseen(x) ==
  /\ pc[x] \notin {"done", "failed"}
  /\ pc[Peer(x)] = "failed"
  /\ Reading(x) => wire[Peer(x)] = <<>>
  /\ Fail(x, "eof")

\* A closed connection ends a read once drained, or a write.
Closed(x) ==
  /\ pc[x] # "failed"
  /\ pc[Peer(x)] = "failed"
  /\ Reading(x) => wire[Peer(x)] = <<>>
  /\ Fail(x, "eof")

\* x waits for a packet and its peer, too, has nothing left to do but wait.
Stuck(x) ==
  /\ Reading(x) /\ wire[Peer(x)] = <<>>
  /\ pc[Peer(x)] = "done" \/ (Reading(Peer(x)) /\ wire[x] = <<>>)

\* The handshake's socket timeouts: on a slow network, or when nothing comes.
Timeout(x) ==
  /\ pc[x] \notin {"done", "failed"}
  /\ slow \/ Stuck(x)
  /\ Fail(x, "timeout")

(***************************************************************************)
(* Client: handshake_client_send, then handshake_client_confirm            *)
(***************************************************************************)
\* The ivv goes out in the static cipher, then only tx is rekeyed.
SendIvv ==
  /\ pc[Client] = "nop"
  /\ todo[Client] = 0
  /\ Send(Client, [type |-> "ivv", role |-> want])
  /\ tx' = [tx EXCEPT ![Client] = Rekeyed]
  /\ pc' = [pc EXCEPT ![Client] = "sid"]
  /\ UNCHANGED <<config, todo, budget, rx, sid, role, err, sent, got>>

\* The first id is the session id; the next read has a budget of its own.
ReadSid ==
  /\ pc[Client] = "sid"
  /\ \E v \in Values(Client) \ {Dummy} : sid' = [sid EXCEPT ![Client] = v.type]
  /\ Consume(Client)
  /\ budget' = [budget EXCEPT ![Client] = MaxNopPackets(key[Client])]
  /\ pc' = [pc EXCEPT ![Client] = "nmux"]
  /\ UNCHANGED <<config, todo, tx, rx, role, err, sent, got>>

\* Mutant: the echo is not compared with the request.
NmuxErrorNoRole(v) ==
  IF v.canary \notin {NoMagic, FlagCanary(key[Client])} THEN "flags" ELSE "none"

\* nmux is refused for another configuration, if it carries the magic at all,
\* then for another role.
NmuxError(v) ==
  IF v.canary \notin {NoMagic, FlagCanary(key[Client])} THEN "flags"
  ELSE IF v.mux # (want = "MuxTunnel") THEN "role"
  ELSE "none"

Confirm ==
  /\ pc[Client] = "nmux"
  /\ \E v \in Values(Client) \ {Dummy} : NmuxError(v) = "none"
  /\ Consume(Client)
  /\ rx' = [rx EXCEPT ![Client] = Rekeyed]
  /\ role' = [role EXCEPT ![Client] = want]
  /\ pc' = [pc EXCEPT ![Client] = "done"]
  /\ UNCHANGED <<config, todo, budget, tx, sid, err, sent, got>>

Refuse ==
  /\ pc[Client] = "nmux"
  /\ \E v \in Values(Client) \ {Dummy} :
       NmuxError(v) # "none" /\ Fail(Client, NmuxError(v))

(***************************************************************************)
(* Server: handshake_server                                                *)
(***************************************************************************)
SendSid ==
  /\ pc[Server] = "nop"
  /\ todo[Server] = 0
  /\ Send(Server, [type |-> "sid"])
  /\ pc' = [pc EXCEPT ![Server] = "ivv"]
  /\ UNCHANGED <<config, todo, budget, tx, rx, sid, role, err, sent, got>>

\* Mutant: a bond link is never granted.
EffectiveMux(r) == "MuxTunnel"

\* A bond link is downgraded to a mux tunnel where bonding is off.
Effective(r) == IF r = "BondLink" /\ ~allow THEN "MuxTunnel" ELSE r

ReadIvv ==
  /\ pc[Server] = "ivv"
  /\ \E v \in Values(Server) \ {Dummy} :
       role' = [role EXCEPT ![Server] = Effective(v.role)]
  /\ Consume(Server)
  /\ pc' = [pc EXCEPT ![Server] = "answer"]
  /\ UNCHANGED <<config, todo, budget, tx, rx, sid, err, sent, got>>

\* nmux goes out in the static cipher, then both directions are rekeyed.
SendNmux ==
  /\ pc[Server] = "answer"
  /\ Send(Server, [type   |-> "nmux",
                   canary |-> FlagCanary(key[Server]),
                   mux    |-> role[Server] = "MuxTunnel"])
  /\ tx' = [tx EXCEPT ![Server] = Rekeyed]
  /\ rx' = [rx EXCEPT ![Server] = Rekeyed]
  /\ sid' = [sid EXCEPT ![Server] = "sid"]
  /\ pc' = [pc EXCEPT ![Server] = "done"]
  /\ UNCHANGED <<config, todo, budget, role, err, sent, got>>

(***************************************************************************)
(* The data plane                                                          *)
(***************************************************************************)
SendData(x) ==
  /\ pc[x] = "done"
  /\ sent[x] < MaxData
  /\ Send(x, [type |-> "data"])
  /\ sent' = [sent EXCEPT ![x] = @ + 1]
  /\ UNCHANGED <<config, pc, todo, budget, tx, rx, sid, role, err, got>>

ReadData(x) ==
  /\ pc[x] = "done"
  /\ Values(x) # {}
  /\ Consume(x)
  /\ got' = [got EXCEPT ![x] = @ + 1]
  /\ UNCHANGED <<config, pc, todo, budget, tx, rx, sid, role, err, sent>>

(***************************************************************************)
(* The specification                                                       *)
(***************************************************************************)
ClientStep == SendIvv \/ ReadSid \/ Confirm \/ Refuse
ServerStep == SendSid \/ ReadIvv \/ SendNmux
Common(x) ==
  SendNop(x) \/ SkipDummy(x) \/ TooManyDummies(x) \/ Garbled(x) \/ Swallow(x) \/ Closed(x)

Next ==
  \/ ClientStep \/ ServerStep
  \/ \E x \in Sides : Common(x) \/ Timeout(x) \/ SendData(x) \/ ReadData(x)

Spec == Init /\ [][Next]_vars

\* Each end runs its handshake on a thread of its own, TCP delivers, and a
\* read that waits in vain ends by its socket timeout.
Fairness ==
  /\ WF_vars(ClientStep)
  /\ WF_vars(ServerStep)
  /\ \A x \in Sides : /\ WF_vars(Common(x)) /\ WF_vars(ReadData(x))
                       /\ WF_vars(Stuck(x) /\ Timeout(x))

FairSpec == Spec /\ Fairness

(***************************************************************************)
(* Properties                                                              *)
(***************************************************************************)
\* Every variable has its type.
TypeOK ==
  /\ key \in [Sides -> Keys]
  /\ want \in Roles
  /\ allow \in BOOLEAN
  /\ slow \in BOOLEAN
  /\ pc \in [Sides -> States]
  /\ todo \in [Sides -> Nat]
  /\ budget \in [Sides -> Nat]
  /\ tx \in [Sides -> {Fresh, Rekeyed}]
  /\ rx \in [Sides -> {Fresh, Rekeyed}]
  /\ \A x \in Sides : Len(wire[x]) =< Buf
  /\ sid \in [Sides -> {"none", "sid", "garbage"}]
  /\ role \in [Sides -> Roles \cup {"none"}]
  /\ err \in [Sides -> Errors]
  /\ sent \in [Sides -> 0..MaxData]
  /\ got \in [Sides -> Nat]

SameKey == key[Client] = key[Server]

\* The ends share passwords, methods and key factor; their flags may differ.
SameSecret ==
  /\ key[Client].secret = key[Server].secret
  /\ key[Client].kf = key[Server].kf

\* Old and new ciphers never meet: between ends of one configuration no read
\* ever fails for its shell, whatever the four direction switches interleave
\* with, and no noise a compliant peer sends exhausts the skip budget.
CipherSync ==
  SameKey => \A x \in Sides : err[x] \notin {"garbled", "dummies", "flags"}

\* A client that completes with a server of the same secrets holds that
\* server's session id, got the role it asked for, agrees on it with the
\* server, and the two agree on every flag the data plane uses.
Agreement ==
  SameSecret /\ pc[Client] = "done" =>
    /\ sid[Client] = sid[Server]
    /\ role[Client] = want
    /\ role[Server] = want
    /\ FlagCanary(key[Client]) = FlagCanary(key[Server])

\* The canary works (handshake_client_confirm): ends that share their secrets
\* but not their flags or noise settings never face a packet they would
\* decode otherwise than it was encoded, neither in the handshake nor on the
\* data plane, where nothing but the canary keeps them apart.
NoGarbledData == SameSecret => \A x \in Sides : ~Foreign(x)

\* Without timeouts, ends of one configuration always complete when the role
\* is served: the preludes that cross fit the buffers and nobody waits for
\* a packet the other end sends only after reading.
Completes ==
  SameKey /\ ~slow /\ (want = "MuxTunnel" \/ allow)
    => <>(\A x \in Sides : pc[x] = "done")

\* Whatever the two configurations, also when garbage is taken for packets:
\* both ends complete or both are torn down, and no server session outlives a
\* client that refused it or gave up.
Settles ==
  <>[](\/ \A x \in Sides : pc[x] = "done"
       \/ \A x \in Sides : pc[x] = "failed")
=============================================================================
