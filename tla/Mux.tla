-------------------------------- MODULE Mux ---------------------------------
(***************************************************************************)
(* One mux tunnel and the proxied streams it carries: Tunnel::open, the    *)
(* client's reader task and Stream::drop (crates/client/src/pool.rs), the  *)
(* server's demux, OPEN handling and stream tasks (crates/server/src/      *)
(* lib.rs), and the stream pump both ends share (crates/common/src/        *)
(* tunnel.rs).                                                             *)
(*                                                                         *)
(* q[x] is everything between a send at end x and the demux of the other   *)
(* end: x's bounded outbound channel, its writer task, and the carrier, an *)
(* ordered reliable byte stream.  `send` waits for room in it; `try_send`  *)
(* drops the frame when there is none.  A demux that waits for room in a   *)
(* stream's event channel is the frame staying at the head of q.           *)
(***************************************************************************)
EXTENDS Integers, Sequences, FiniteSets

CONSTANTS
  Sids,     \* stream ids of the tunnel; alloc_stream never reuses one
  Chunks,   \* bound: Chunks[x][s], the chunks the socket at end x may send
  OutCap,   \* room in q (OUTBOUND_BOUND, plus what the carrier buffers)
  EvCap,    \* STREAM_BOUND
  Cap,      \* max_streams_per_conn
  Stalls,   \* streams whose sockets may not read for STREAM_SEND_TIMEOUT
  Slow,     \* those of them whose sockets may stop reading for good
  Faults    \* the faults that may happen, see FaultKinds

FaultKinds == {"reset", "refuse", "timeout", "carrier"}

ASSUME MuxAssumption ==
  /\ IsFiniteSet(Sids)
  /\ OutCap \in Nat \ {0}
  /\ EvCap \in Nat \ {0}
  /\ Cap \in Nat \ {0}
  /\ Stalls \subseteq Sids
  /\ Slow \subseteq Stalls
  /\ Faults \subseteq FaultKinds

Client == "c"
Server == "s"
Sides  == {Client, Server}
Peer(x) == IF x = Client THEN Server ELSE Client

ASSUME ChunksAssumption == Chunks \in [Sides -> [Sids -> Nat]]

VARIABLES
  alive,  \* the end's reader/demux loop is running
  q,      \* frames on their way from each end to the other
  st,     \* st[x][s]: life of stream s at end x
  pend,   \* Tunnel.pending (client only)
  reg,    \* reg[x]: the keys of the end's stream registry
  ev,     \* ev[x][s]: the stream's event channel
  up,     \* up[x][s]: the stream's pump_up task
  down,   \* down[x][s]: the stream's pump_down task
  sent,   \* sent[x][s]: chunks pump_up sent as DATA
  got,    \* got[x][s]: the chunks pump_down wrote to the socket
  lost,   \* history: the <<x, s>> whose CLOSE a full channel dropped
  broken  \* history: the streams a fault has hit

pumpVars == <<ev, up, down, sent, got>>
vars == <<alive, q, st, pend, reg, pumpVars, lost, broken>>

StreamStates == {"new", "send", "reply", "connect", "ok", "fail", "cleanup",
                 "open", "ended"}
PumpStates   == {"off", "run", "eof", "closed"}

\* Frames carry their stream; DATA also the number of its chunk.
Frames ==
  [kind : {"open", "ok", "refused", "eof", "close"}, sid : Sids]
    \cup [kind : {"data"}, sid : Sids, n : Nat \ {0}]

Frame(k, s) == [kind |-> k, sid |-> s]
Data(s, n)  == [kind |-> "data", sid |-> s, n |-> n]

Eof == 0                      \* StreamEvent::Eof; chunk n is StreamEvent::Data

Room(x)  == Len(q[x]) < OutCap
Put(x, f) == [q EXCEPT ![x] = Append(@, f)]

\* The receiver of the stream's event channel still exists.
Receiver(x, s) ==
  /\ st[x][s] \notin {"new", "ended"}
  /\ down[x][s] \in {"off", "run"}

(***************************************************************************)
(* A fresh tunnel                                                          *)
(***************************************************************************)
Init ==
  /\ alive = [x \in Sides |-> TRUE]
  /\ q = [x \in Sides |-> <<>>]
  /\ st = [x \in Sides |-> [s \in Sids |-> "new"]]
  /\ pend = {}
  /\ reg = [x \in Sides |-> {}]
  /\ ev = [x \in Sides |-> [s \in Sids |-> <<>>]]
  /\ up = [x \in Sides |-> [s \in Sids |-> "off"]]
  /\ down = [x \in Sides |-> [s \in Sids |-> "off"]]
  /\ sent = [x \in Sides |-> [s \in Sids |-> 0]]
  /\ got = [x \in Sides |-> [s \in Sids |-> <<>>]]
  /\ lost = {}
  /\ broken = {}

\* try_send(CLOSE) onto the queues qq: a full channel drops the frame, a dead
\* tunnel has no receiver for it.
TryClose(qq, x, s) ==
  LET fits == Len(qq[x]) < OutCap
  IN /\ q' = IF alive[x] /\ fits
               THEN [qq EXCEPT ![x] = Append(@, Frame("close", s))]
               ELSE qq
     /\ lost' = IF alive[x] /\ ~fits THEN lost \cup {<<x, s>>} ELSE lost

(***************************************************************************)
(* Client: Tunnel::open                                                    *)
(***************************************************************************)
\* The waiter and the event channel are registered before OPEN is sent.
Register(s) ==
  /\ st[Client][s] = "new"
  /\ st' = [st EXCEPT ![Client][s] = "send"]
  /\ pend' = pend \cup {s}
  /\ reg' = [reg EXCEPT ![Client] = @ \cup {s}]
  /\ UNCHANGED <<alive, q, pumpVars, lost, broken>>

SendOpen(s) ==
  /\ st[Client][s] = "send"
  /\ alive[Client]
  /\ Room(Client)
  /\ q' = Put(Client, Frame("open", s))
  /\ st' = [st EXCEPT ![Client][s] = "reply"]
  /\ UNCHANGED <<alive, pend, reg, pumpVars, lost, broken>>

\* Tunnel::unregister, and the end of the stream's life at the client.
Unregister(s) ==
  /\ pend' = pend \ {s}
  /\ reg' = [reg EXCEPT ![Client] = @ \ {s}]
  /\ st' = [st EXCEPT ![Client][s] = "ended"]
  /\ ev' = [ev EXCEPT ![Client][s] = <<>>]

\* The tunnel died: the send fails, or mark_dead dropped the waiter.
OpenDead(s) ==
  /\ ~alive[Client]
  /\ \/ st[Client][s] = "send"
     \/ st[Client][s] = "reply" /\ s \notin pend
  /\ Unregister(s)
  /\ UNCHANGED <<alive, q, up, down, sent, got, lost, broken>>

\* No REPLY in time: give up and tell the server.
OpenTimeout(s) ==
  /\ "timeout" \in Faults
  /\ st[Client][s] = "reply"
  /\ Unregister(s)
  /\ TryClose(q, Client, s)
  /\ broken' = broken \cup {s}
  /\ UNCHANGED <<alive, up, down, sent, got>>

(***************************************************************************)
(* The demux of either end: run_reader and run_demux                       *)
(***************************************************************************)
\* End x takes the first frame in flight to it.
Receives(x, kinds, s) ==
  /\ alive[x]
  /\ q[Peer(x)] # <<>>
  /\ Head(q[Peer(x)]).kind \in kinds
  /\ Head(q[Peer(x)]).sid = s

Taken(x) == [q EXCEPT ![Peer(x)] = Tail(@)]

\* handle_open refuses a duplicate id or a tunnel at its stream limit.
Rejected(s) == s \in reg[Server] \/ Cardinality(reg[Server]) >= Cap

HandleOpen(s) ==
  /\ Receives(Server, {"open"}, s)
  /\ ~Rejected(s)
  /\ q' = Taken(Server)
  /\ reg' = [reg EXCEPT ![Server] = @ \cup {s}]
  /\ st' = [st EXCEPT ![Server][s] = "connect"]
  /\ UNCHANGED <<alive, pend, pumpVars, lost, broken>>

RejectOpen(s) ==
  /\ Receives(Server, {"open"}, s)
  /\ Rejected(s)
  /\ TryClose(Taken(Server), Server, s)
  /\ UNCHANGED <<alive, st, pend, reg, pumpVars, broken>>

\* REPLY wakes its waiter, which goes on as a Stream or as RefusedTarget.
HandleReply(s) ==
  /\ Receives(Client, {"ok", "refused"}, s)
  /\ q' = Taken(Client)
  /\ CASE s \notin pend ->
            UNCHANGED <<st, pend, reg, ev>>
       [] s \in pend /\ Head(q[Server]).kind = "ok" ->
            /\ pend' = pend \ {s}
            /\ st' = [st EXCEPT ![Client][s] = "open"]
            /\ UNCHANGED <<reg, ev>>
       [] s \in pend /\ Head(q[Server]).kind = "refused" ->
            Unregister(s)
  /\ UNCHANGED <<alive, up, down, sent, got, lost, broken>>

\* CLOSE drops the registry's sender; the pump sees it once it has drained.
HandleClose(x, s) ==
  /\ Receives(x, {"close"}, s)
  /\ q' = Taken(x)
  /\ reg' = [reg EXCEPT ![x] = @ \ {s}]
  /\ UNCHANGED <<alive, st, pend, pumpVars, lost, broken>>

Event(f) == IF f.kind = "data" THEN f.n ELSE Eof

\* Mutant: a half-closed stream is forgotten, no more events will come.
RouteForgets(x, s) ==
  /\ Receives(x, {"data", "eof"}, s)
  /\ s \in reg[x]
  /\ Receiver(x, s)
  /\ Len(ev[x][s]) < EvCap
  /\ q' = Taken(x)
  /\ ev' = [ev EXCEPT ![x][s] = Append(@, Event(Head(q[Peer(x)])))]
  /\ reg' = IF Head(q[Peer(x)]).kind = "eof" THEN [reg EXCEPT ![x] = @ \ {s}] ELSE reg
  /\ UNCHANGED <<alive, st, pend, up, down, sent, got, lost, broken>>

\* route / route_event: the event goes to its stream once there is room.
Route(x, s) ==
  /\ Receives(x, {"data", "eof"}, s)
  /\ s \in reg[x]
  /\ Receiver(x, s)
  /\ Len(ev[x][s]) < EvCap
  /\ q' = Taken(x)
  /\ ev' = [ev EXCEPT ![x][s] = Append(@, Event(Head(q[Peer(x)])))]
  /\ UNCHANGED <<alive, st, pend, reg, up, down, sent, got, lost, broken>>

\* The pump is gone, or the stream was never known: bounce a CLOSE.
RouteGone(x, s) ==
  /\ Receives(x, {"data", "eof"}, s)
  /\ s \in reg[x] => ~Receiver(x, s)
  /\ reg' = [reg EXCEPT ![x] = @ \ {s}]
  /\ TryClose(Taken(x), x, s)
  /\ UNCHANGED <<alive, st, pend, pumpVars, broken>>

\* Waiting for room, the demux serves no other stream of the tunnel.
Blocked(x, s) ==
  /\ Receives(x, {"data", "eof"}, s)
  /\ s \in reg[x]
  /\ Receiver(x, s)
  /\ Len(ev[x][s]) >= EvCap

\* STREAM_SEND_TIMEOUT: the frame is dropped and the stream with it.
RouteStall(x, s) ==
  /\ s \in Stalls
  /\ Blocked(x, s)
  /\ reg' = [reg EXCEPT ![x] = @ \ {s}]
  /\ TryClose(Taken(x), x, s)
  /\ broken' = broken \cup {s}
  /\ UNCHANGED <<alive, st, pend, pumpVars>>

(***************************************************************************)
(* Server: handle_stream up to the pump                                    *)
(***************************************************************************)
Connect(s) ==
  /\ st[Server][s] = "connect"
  /\ \E r \in {"ok"} \cup (IF "refuse" \in Faults THEN {"fail"} ELSE {}) :
       st' = [st EXCEPT ![Server][s] = r]
  /\ UNCHANGED <<alive, q, pend, reg, pumpVars, lost, broken>>

\* REPLY_OK, then pump_stream spawns its two tasks.
ReplyOk(s) ==
  /\ st[Server][s] = "ok"
  /\ alive[Server]
  /\ Room(Server)
  /\ q' = Put(Server, Frame("ok", s))
  /\ st' = [st EXCEPT ![Server][s] = "open"]
  /\ up' = [up EXCEPT ![Server][s] = "run"]
  /\ down' = [down EXCEPT ![Server][s] = "run"]
  /\ UNCHANGED <<alive, pend, reg, ev, sent, got, lost, broken>>

ReplyRefused(s) ==
  /\ st[Server][s] = "fail"
  /\ alive[Server]
  /\ Room(Server)
  /\ q' = Put(Server, Frame("refused", s))
  /\ st' = [st EXCEPT ![Server][s] = "cleanup"]
  /\ UNCHANGED <<alive, pend, reg, pumpVars, lost, broken>>

\* registry.remove after a refusal, or after a REPLY a dead tunnel refused.
Cleanup(s) ==
  /\ \/ st[Server][s] = "cleanup"
     \/ st[Server][s] \in {"ok", "fail"} /\ ~alive[Server]
  /\ reg' = [reg EXCEPT ![Server] = @ \ {s}]
  /\ st' = [st EXCEPT ![Server][s] = "ended"]
  /\ ev' = [ev EXCEPT ![Server][s] = <<>>]
  /\ UNCHANGED <<alive, q, pend, up, down, sent, got, lost, broken>>

(***************************************************************************)
(* The pump: pump_up, pump_down and their coordinator pump_stream          *)
(***************************************************************************)
\* negotiate_and_forward answers the application, then pumps.
StartPump(s) ==
  /\ st[Client][s] = "open"
  /\ up[Client][s] = "off"
  /\ up' = [up EXCEPT ![Client][s] = "run"]
  /\ down' = [down EXCEPT ![Client][s] = "run"]
  /\ UNCHANGED <<alive, q, st, pend, reg, ev, sent, got, lost, broken>>

\* The application is gone before its SOCKS reply: the Stream is dropped.
AppGone(s) ==
  /\ "reset" \in Faults
  /\ st[Client][s] = "open"
  /\ up[Client][s] = "off"
  /\ Unregister(s)
  /\ TryClose(q, Client, s)
  /\ broken' = broken \cup {s}
  /\ UNCHANGED <<alive, up, down, sent, got>>

\* Mutant: pump_up queues without waiting for room.
UpDataUnbounded(x, s) ==
  /\ up[x][s] = "run"
  /\ alive[x]
  /\ sent[x][s] < Chunks[x][s]
  /\ q' = Put(x, Data(s, sent[x][s] + 1))
  /\ sent' = [sent EXCEPT ![x][s] = @ + 1]
  /\ UNCHANGED <<alive, st, pend, reg, ev, up, down, got, lost, broken>>

UpData(x, s) ==
  /\ up[x][s] = "run"
  /\ alive[x]
  /\ Room(x)
  /\ sent[x][s] < Chunks[x][s]
  /\ q' = Put(x, Data(s, sent[x][s] + 1))
  /\ sent' = [sent EXCEPT ![x][s] = @ + 1]
  /\ UNCHANGED <<alive, st, pend, reg, ev, up, down, got, lost, broken>>

UpEof(x, s) ==
  /\ up[x][s] = "run"
  /\ alive[x]
  /\ Room(x)
  /\ q' = Put(x, Frame("eof", s))
  /\ up' = [up EXCEPT ![x][s] = "eof"]
  /\ UNCHANGED <<alive, st, pend, reg, ev, down, sent, got, lost, broken>>

\* The socket had something to send and the tunnel's writer is gone.
UpDead(x, s) ==
  /\ up[x][s] = "run"
  /\ ~alive[x]
  /\ up' = [up EXCEPT ![x][s] = "closed"]
  /\ UNCHANGED <<alive, q, st, pend, reg, ev, down, sent, got, lost, broken>>

\* Mutant: a failed read is not followed by a CLOSE.
UpErrSilent(x, s) ==
  /\ "reset" \in Faults
  /\ up[x][s] = "run"
  /\ up' = [up EXCEPT ![x][s] = "closed"]
  /\ broken' = broken \cup {s}
  /\ UNCHANGED <<alive, q, st, pend, reg, ev, down, sent, got, lost>>

\* The socket's read fails.
UpErr(x, s) ==
  /\ "reset" \in Faults
  /\ up[x][s] = "run"
  /\ up' = [up EXCEPT ![x][s] = "closed"]
  /\ TryClose(q, x, s)
  /\ broken' = broken \cup {s}
  /\ UNCHANGED <<alive, st, pend, reg, ev, down, sent, got>>

\* Mutant: one task pumps both ways and cannot write while its send waits.
DownDataOneTask(x, s) ==
  /\ down[x][s] = "run"
  /\ up[x][s] = "run" => Room(x)
  /\ ev[x][s] # <<>>
  /\ Head(ev[x][s]) # Eof
  /\ got' = [got EXCEPT ![x][s] = Append(@, Head(ev[x][s]))]
  /\ ev' = [ev EXCEPT ![x][s] = Tail(@)]
  /\ UNCHANGED <<alive, q, st, pend, reg, up, down, sent, lost, broken>>

DownData(x, s) ==
  /\ down[x][s] = "run"
  /\ ev[x][s] # <<>>
  /\ Head(ev[x][s]) # Eof
  /\ got' = [got EXCEPT ![x][s] = Append(@, Head(ev[x][s]))]
  /\ ev' = [ev EXCEPT ![x][s] = Tail(@)]
  /\ UNCHANGED <<alive, q, st, pend, reg, up, down, sent, lost, broken>>

\* pump_down returns `end`, dropping the event receiver and the socket's write
\* half: the drop shuts the write side down, so however the pump ended, the
\* socket is shown an ordinary end of stream.
DownEnds(x, s, end) ==
  /\ down' = [down EXCEPT ![x][s] = end]
  /\ ev' = [ev EXCEPT ![x][s] = <<>>]

\* EOF becomes a shutdown of the socket's write side.
DownEof(x, s) ==
  /\ down[x][s] = "run"
  /\ ev[x][s] # <<>>
  /\ Head(ev[x][s]) = Eof
  /\ DownEnds(x, s, "eof")
  /\ UNCHANGED <<alive, q, st, pend, reg, up, sent, got, lost, broken>>

\* The socket's write fails.
DownErr(x, s) ==
  /\ "reset" \in Faults
  /\ down[x][s] = "run"
  /\ ev[x][s] # <<>>
  /\ Head(ev[x][s]) # Eof
  /\ DownEnds(x, s, "closed")
  /\ TryClose(q, x, s)
  /\ broken' = broken \cup {s}
  /\ UNCHANGED <<alive, st, pend, reg, up, sent, got>>

\* Mutant: a dropped sender is taken for the end of the stream.
DownNoneIsEof(x, s) ==
  /\ down[x][s] = "run"
  /\ ev[x][s] = <<>>
  /\ s \notin reg[x]
  /\ DownEnds(x, s, "eof")
  /\ UNCHANGED <<alive, q, st, pend, reg, up, sent, got, lost, broken>>

\* Drained, and the registry has dropped the sender.
DownNone(x, s) ==
  /\ down[x][s] = "run"
  /\ ev[x][s] = <<>>
  /\ s \notin reg[x]
  /\ DownEnds(x, s, "closed")
  /\ UNCHANGED <<alive, q, st, pend, reg, up, sent, got, lost, broken>>

\* Mutant: any end of pump_up aborts its sibling, a half-close too.
AbortDownOnEof(x, s) ==
  /\ up[x][s] \in {"eof", "closed"}
  /\ down[x][s] = "run"
  /\ DownEnds(x, s, "closed")
  /\ UNCHANGED <<alive, q, st, pend, reg, up, sent, got, lost, broken>>

\* pump_stream: a direction that ends other than by EOF aborts its sibling.
AbortDown(x, s) ==
  /\ up[x][s] = "closed"
  /\ down[x][s] = "run"
  /\ DownEnds(x, s, "closed")
  /\ UNCHANGED <<alive, q, st, pend, reg, up, sent, got, lost, broken>>

AbortUp(x, s) ==
  /\ down[x][s] = "closed"
  /\ up[x][s] = "run"
  /\ up' = [up EXCEPT ![x][s] = "closed"]
  /\ UNCHANGED <<alive, q, st, pend, reg, ev, down, sent, got, lost, broken>>

Pumped(x, s) ==
  /\ st[x][s] = "open"
  /\ up[x][s] \in {"eof", "closed"}
  /\ down[x][s] \in {"eof", "closed"}

Graceful(x, s) == up[x][s] = "eof" /\ down[x][s] = "eof"

\* Stream::drop: unregister, and CLOSE unless EOF went both ways.
EndClient(s) ==
  /\ Pumped(Client, s)
  /\ Unregister(s)
  /\ IF Graceful(Client, s)
       THEN UNCHANGED <<q, lost>>
       ELSE TryClose(q, Client, s)
  /\ UNCHANGED <<alive, up, down, sent, got, broken>>

\* handle_stream's last line.
EndServer(s) ==
  /\ Pumped(Server, s)
  /\ reg' = [reg EXCEPT ![Server] = @ \ {s}]
  /\ st' = [st EXCEPT ![Server][s] = "ended"]
  /\ UNCHANGED <<alive, q, pend, pumpVars, lost, broken>>

(***************************************************************************)
(* Tunnel death: the end of the demux loop                                 *)
(***************************************************************************)
\* Mutant: mark_dead forgets the registry.
DieKeepsRegistry(x) ==
  /\ \E n \in 0..Len(q[x]) : q' = [q EXCEPT ![x] = SubSeq(@, 1, n)]
  /\ alive' = [alive EXCEPT ![x] = FALSE]
  /\ pend' = IF x = Client THEN {} ELSE pend
  /\ broken' = Sids
  /\ UNCHANGED <<st, reg, pumpVars, lost>>

\* The writer is aborted: what it had not yet written is lost.  The client's
\* mark_dead clears both maps.  The server's demux only drops its own handle
\* on the registry: every stream task holds another, so no sender is dropped.
Die(x) ==
  /\ \E n \in 0..Len(q[x]) : q' = [q EXCEPT ![x] = SubSeq(@, 1, n)]
  /\ alive' = [alive EXCEPT ![x] = FALSE]
  /\ reg' = IF x = Client THEN [reg EXCEPT ![x] = {}] ELSE reg
  /\ pend' = IF x = Client THEN {} ELSE pend
  /\ broken' = Sids
  /\ UNCHANGED <<st, pumpVars, lost>>

\* The carrier or the writer task fails under a demux that is not blocked.
CarrierFails(x) ==
  /\ "carrier" \in Faults
  /\ alive[x]
  /\ \A s \in Sids : ~Blocked(x, s)
  /\ Die(x)

\* The other end is gone and its last frame has been read.
CarrierEnds(x) ==
  /\ alive[x]
  /\ ~alive[Peer(x)]
  /\ q[Peer(x)] = <<>>
  /\ Die(x)

(***************************************************************************)
(* The specification                                                       *)
(***************************************************************************)
Opening(s) == SendOpen(s) \/ OpenDead(s) \/ OpenTimeout(s)

Demux(x, s) ==
  \/ x = Server /\ (HandleOpen(s) \/ RejectOpen(s))
  \/ x = Client /\ HandleReply(s)
  \/ HandleClose(x, s) \/ Route(x, s) \/ RouteGone(x, s) \/ RouteStall(x, s)

Serving(s) ==
  Connect(s) \/ ReplyOk(s) \/ ReplyRefused(s) \/ Cleanup(s) \/ EndServer(s)

Owning(s) == StartPump(s) \/ EndClient(s)

\* What the socket sends, and what it takes.
Reads(x, s)  == UpData(x, s) \/ UpEof(x, s) \/ UpDead(x, s)
Writes(x, s) == DownData(x, s) \/ DownEof(x, s) \/ DownNone(x, s)
Aborts(x, s) == AbortDown(x, s) \/ AbortUp(x, s)

Next ==
  \/ \E s \in Sids : Register(s) \/ Opening(s) \/ Serving(s) \/ Owning(s) \/ AppGone(s)
  \/ \E x \in Sides, s \in Sids :
       \/ Demux(x, s)
       \/ Reads(x, s) \/ UpErr(x, s)
       \/ Writes(x, s) \/ DownErr(x, s)
       \/ Aborts(x, s)
  \/ \E x \in Sides : CarrierFails(x) \/ CarrierEnds(x)

Spec == Init /\ [][Next]_vars

\* The runtime schedules every runnable task, armed timers fire, connect
\* attempts end, and a socket that is not slow keeps accepting bytes.  No
\* application or target is obliged to send or to half-close.
Fairness ==
  /\ \A s \in Sids : /\ WF_vars(Opening(s))
                     /\ WF_vars(Serving(s))
                     /\ WF_vars(Owning(s))
  /\ \A x \in Sides : /\ WF_vars(\E s \in Sids : Demux(x, s))
                      /\ WF_vars(CarrierEnds(x))
  /\ \A x \in Sides, s \in Sids : WF_vars(Aborts(x, s))
  /\ \A x \in Sides, s \in Sids \ Slow : WF_vars(Writes(x, s))

FairSpec == Spec /\ Fairness

\* In addition every application connects, says what it has to say and
\* half-closes.
BusySpec ==
  /\ FairSpec
  /\ \A s \in Sids : WF_vars(Register(s))
  /\ \A x \in Sides, s \in Sids : WF_vars(Reads(x, s))

(***************************************************************************)
(* Properties                                                              *)
(***************************************************************************)
\* Every variable has its type, and no bounded channel exceeds its bound.
TypeOK ==
  /\ alive \in [Sides -> BOOLEAN]
  /\ q \in [Sides -> Seq(Frames)]
  /\ \A x \in Sides : Len(q[x]) =< OutCap
  /\ st \in [Sides -> [Sids -> StreamStates]]
  /\ pend \subseteq Sids
  /\ reg \in [Sides -> SUBSET Sids]
  /\ ev \in [Sides -> [Sids -> Seq(Nat)]]
  /\ \A x \in Sides, s \in Sids : Len(ev[x][s]) =< EvCap
  /\ up \in [Sides -> [Sids -> PumpStates]]
  /\ down \in [Sides -> [Sids -> PumpStates]]
  /\ sent \in [Sides -> [Sids -> Nat]]
  /\ \A x \in Sides, s \in Sids : sent[x][s] =< Chunks[x][s]
  /\ got \in [Sides -> [Sids -> Seq(Nat \ {0})]]
  /\ lost \subseteq Sides \X Sids
  /\ broken \subseteq Sids

\* One flow per direction of each stream, named by the end that sends it.
Flows == Sides \X Sids

\* pump_down is over: its socket was shown the end of the stream.
Shown(x, s) == down[x][s] \in {"eof", "closed"}

Streams == INSTANCE ByteStream WITH
  sent   <- [f \in Flows |-> sent[f[1]][f[2]]],
  fin    <- {f \in Flows : up[f[1]][f[2]] = "eof"},
  got    <- [f \in Flows |-> got[Peer(f[1])][f[2]]],
  seen   <- {f \in Flows : Shown(Peer(f[1]), f[2])},
  broken <- {f \in Flows : f[2] \in broken}

\* The pumps implement reliable one-way flows: whatever is reset, stalled,
\* timed out or cut, a socket gets its peer's chunks in order without a gap;
\* and it is shown an end of stream before the last of them only if a fault
\* hit that very stream or the tunnel.  No CLOSE, bounce, refusal or abort
\* truncates a stream that met no fault.
ReliableStreams == Streams!Spec

\* handle_stream runs for the stream.
Served(s) == st[Server][s] \notin {"new", "ended"}

\* No registry outlives its streams: an entry belongs to a stream whose task
\* still runs and will remove it, a waiter to an opener that is still waiting.
\* The server's limit holds for the streams no fault has hit: only an aborted
\* stream can run on without its entry and make room for another.
RegistrySound ==
  /\ \A x \in Sides : \A s \in reg[x] : st[x][s] \notin {"new", "ended"}
  /\ \A s \in pend : st[Client][s] \in {"send", "reply"}
  /\ Cardinality({s \in Sids : Served(s) /\ s \notin broken}) =< Cap

\* "StreamEnd::Graceful means EOF went both ways": the client that ends a
\* stream without a CLOSE has received all the server will ever send on it,
\* so no later frame can be bounced to a stream that ended well.
GracefulIsFinal ==
  \A s \in Sids : Graceful(Client, s) =>
    \A i \in 1..Len(q[Server]) :
      q[Server][i].sid = s => q[Server][i].kind = "close"

\* The half-closed pump: its socket has seen EOF, only pump_up is left.
HalfClosed(x, s) == down[x][s] = "eof" /\ up[x][s] = "run"

Over(x, s) == st[x][s] \in {"new", "ended"}

\* A stream that ends at one end of a live tunnel ends at the other, however
\* it ended, unless the CLOSE met a full channel or the other end is
\* half-closed.
EndReachesPeer ==
  \A x \in Sides, s \in Sids \ Slow :
    <>[](alive[x] /\ st[Peer(x)][s] = "ended" =>
           Over(x, s) \/ HalfClosed(x, s) \/ <<Peer(x), s>> \in lost)

\* Tunnel death ends every stream: at the client all but the half-closed, at
\* the server those still connecting and those whose pump_up met the dead
\* tunnel.
DeathReleases ==
  \A s \in Sids \ Slow :
    /\ <>[](~alive[Client] => Over(Client, s) \/ HalfClosed(Client, s))
    /\ <>[](~alive[Server] => Over(Server, s) \/ up[Server][s] \in {"run", "eof"})

\* No backpressure deadlock: with both channels at their smallest and both
\* sockets pushing at once, every stream completes gracefully at both ends,
\* also while a neighbour on the tunnel is wedged and blocks the demux.
Completion ==
  \A x \in Sides, s \in Sids \ Slow : <>[](st[x][s] = "ended" /\ Graceful(x, s))

\* "Dropping the registry closes every stream's event channel; the stream
\* tasks break out of pump_stream and drop their targets" (run_demux).
DeathEndsServerStreams ==
  \A s \in Sids \ Slow : <>[](~alive[Server] => Over(Server, s))
=============================================================================
