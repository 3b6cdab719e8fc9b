------------------------------- MODULE Serve -------------------------------
(***************************************************************************)
(* One nextppp process from accept to exit: the accept loops of `serve`,   *)
(* the admission gates, the sessions behind them, the shutdown flag, the   *)
(* drain and the drop of the tokio runtime.                                *)
(*                                                                         *)
(* Both roles of the binary share this shape and are told apart by `side`. *)
(* The server (server/lib.rs) has one loop; its gates load two counters    *)
(* that other tasks increment later.  The client (client/lib.rs) has two   *)
(* loops, the plain and the bond inbound, over one counter that the loop   *)
(* itself increments.                                                      *)
(***************************************************************************)
EXTENDS Naturals, FiniteSets

CONSTANTS Conns,          \* connections that may arrive from the network
          Wake,           \* the signal handler's own connection
          Sides,          \* which roles to run: a subset of {"server", "client"}
          MaxConnections, \* max_connections
          MaxHandshakes,  \* max_handshakes
          Bases           \* values of the random session id base

ASSUME ServeAssumption ==
    /\ IsFiniteSet(Conns) /\ Wake \notin Conns
    /\ Sides \subseteq {"server", "client"}
    /\ MaxConnections \in Nat \ {0}
    /\ MaxHandshakes \in Nat \ {0}
    /\ Bases \subseteq Nat

VARIABLES side,        \* the role of this process
          flag,        \* shutdown::FLAG
          loop,        \* control state of each accept loop
          proc,        \* serve: "serving", "draining", "drained", "timedout", "dropping", "exited"
          conn,        \* state of each connection
          port,        \* the loop whose listener a connection is queued on
          active,      \* stats.active
          handshaking, \* stats.handshaking
          counter,     \* connections that were given a session id
          base,        \* random base of the session ids
          sid,         \* session id of each admitted connection (0: none)
          chan,        \* the aggregator's channel: "none", "incoming", "serving"
          peak,        \* history: most connections past the gate and not in `active`
          burst,       \* history: most connections past the gate and not in `handshaking`
          late,        \* history: connections admitted after the flag was set
          verdict      \* history: connections in flight when the drain ended

vars == <<side, flag, loop, proc, conn, port, active, handshaking, counter,
          base, sid, chan, peak, burst, late, verdict>>
peaks == <<peak, burst>>
hist == <<late, verdict>>
ids  == <<counter, base, sid>>

All == Conns \cup {Wake}

Loops == IF side = "server" THEN {"main"} ELSE {"main", "bond"}

\* Sessions that own one unit of `active`.
Holding == {"counted", "link_counted", "tunnel", "registering", "linked",
            "negotiating", "opening", "pumping"}

\* Past the gate on `active`, not yet in it.
InFlight == {"gating", "gated", "spawned", "handshaking", "shaken", "link_shaken"}

\* Past the gate on `handshaking`, not yet in it.
Unstarted == {"gated", "spawned"}

\* Over; a "leaked" session ended without giving its unit of `active` back.
Over == {"rejected", "ended", "cut", "leaked"}

States == {"idle", "queued"} \cup InFlight \cup Holding \cup Over

In(S) == {c \in All : conn[c] \in S}

Larger(m, n) == IF n > m THEN n ELSE m

\* A connection changes state; the peaks are recorded.
Move(c, s) ==
    LET after == [conn EXCEPT ![c] = s]
    IN  /\ conn' = after
        /\ peak' = Larger(peak, Cardinality({d \in All : after[d] \in InFlight}))
        /\ burst' = Larger(burst, Cardinality({d \in All : after[d] \in Unstarted}))

Init ==
    /\ side \in Sides
    /\ flag = FALSE
    /\ loop = [l \in Loops |-> "top"]
    /\ proc = "serving"
    /\ conn = [c \in All |-> "idle"]
    /\ port = [c \in All |-> "main"]
    /\ active = 0 /\ handshaking = 0
    /\ counter = 0 /\ base \in Bases /\ sid = [c \in All |-> 0]
    /\ chan = "none"
    /\ peak = 0 /\ burst = 0 /\ late = 0 /\ verdict = {}

----------------------------------------------------------------------------
(* The network and the signal handler *)

\* A peer's connection reaches a listener's backlog.
Arrive(c) ==
    /\ conn[c] = "idle"
    /\ proc # "exited"
    /\ \E l \in Loops :
        /\ port' = [port EXCEPT ![c] = l]
        /\ Move(c, "queued")
    /\ UNCHANGED <<side, flag, loop, proc, active, handshaking, ids, chan, hist>>

\* SIGINT/SIGTERM: the flag, then a connect to the main listener that may fail.
Signal ==
    /\ ~flag /\ proc # "exited"
    /\ flag' = TRUE
    /\ \/ Move(Wake, "queued")
       \/ UNCHANGED <<conn, peaks>>
    /\ UNCHANGED <<side, loop, proc, port, active, handshaking, ids, chan, hist>>

----------------------------------------------------------------------------
(* accept_loop / accept_inbound *)

GoTo(l, pc) == loop' = [loop EXCEPT ![l] = pc]

\* Mutant: the flag is only looked at when accept fails.
LoopTopBlind(l) ==
    /\ loop[l] = "top" /\ proc \notin {"dropping", "exited"}
    /\ GoTo(l, "select")
    /\ UNCHANGED <<side, flag, proc, conn, peaks, port, active, handshaking, ids, chan, hist>>

\* The test of the flag before every select.
LoopTop(l) ==
    /\ loop[l] = "top" /\ proc \notin {"dropping", "exited"}
    /\ GoTo(l, IF flag THEN "off" ELSE "select")
    /\ UNCHANGED <<side, flag, proc, conn, peaks, port, active, handshaking, ids, chan, hist>>

Selecting(l) == loop[l] = "select" /\ proc \notin {"dropping", "exited"}

\* accept() returned a connection: the gate on max_connections loads `active`.
\* The server's other gate is a load of its own; the client has none.
Gate(l, c) ==
    /\ Selecting(l)
    /\ conn[c] = "queued" /\ port[c] = l
    /\ \/ active >= MaxConnections /\ Move(c, "rejected") /\ GoTo(l, "top")
       \/ active < MaxConnections /\ side = "server" /\ Move(c, "gating") /\ GoTo(l, "gate")
       \/ active < MaxConnections /\ side = "client" /\ Move(c, "gated") /\ GoTo(l, "admit")
    /\ UNCHANGED <<side, flag, proc, port, active, handshaking, ids, chan, hist>>

\* Mutant: the handshake gate lets every connection pass.
HandshakesIgnored == TRUE

\* What the gate on max_handshakes loads.
HandshakesFree == handshaking < MaxHandshakes

\* The gate on max_handshakes.
GateHandshakes(l, c) ==
    /\ loop[l] = "gate" /\ conn[c] = "gating" /\ port[c] = l
    /\ proc \notin {"dropping", "exited"}
    /\ IF HandshakesFree
         THEN Move(c, "gated") /\ GoTo(l, "admit")
         ELSE Move(c, "rejected") /\ GoTo(l, "top")
    /\ UNCHANGED <<side, flag, proc, port, active, handshaking, ids, chan, hist>>

\* Mutant: the id is drawn from the number of open sessions.
SessionIdOfActive == IF base + active = 0 THEN 1 ELSE base + active

\* base + counter, never zero (0 asks for a dummy packet in the handshake).
SessionId == IF base + counter = 0 THEN 1 ELSE base + counter

\* The server numbers the session and spawns handle_conn; the client counts
\* it and spawns the socks5 task whose guard gives the slot back.
Admit(l, c) ==
    /\ loop[l] = "admit" /\ conn[c] = "gated" /\ port[c] = l
    /\ proc \notin {"dropping", "exited"}
    /\ IF side = "server"
         THEN /\ Move(c, "spawned")
              /\ sid' = [sid EXCEPT ![c] = SessionId]
              /\ counter' = counter + 1
              /\ UNCHANGED active
         ELSE /\ Move(c, "negotiating")
              /\ active' = active + 1
              /\ UNCHANGED <<sid, counter>>
    /\ GoTo(l, "top")
    /\ late' = IF flag THEN late + 1 ELSE late
    /\ UNCHANGED <<side, flag, proc, port, handshaking, base, chan, verdict>>

\* accept() failed: out if the flag is set, a pause if descriptors ran out.
AcceptError(l) ==
    /\ Selecting(l)
    /\ \/ flag /\ GoTo(l, "off")
       \/ ~flag /\ GoTo(l, "top")
       \/ ~flag /\ GoTo(l, "backoff")
    /\ UNCHANGED <<side, flag, proc, conn, peaks, port, active, handshaking, ids, chan, hist>>

\* The 100 ms pause after exhaustion, or the 200 ms SHUTDOWN_POLL.
Poll(l) ==
    /\ Selecting(l) \/ (loop[l] = "backoff" /\ proc \notin {"dropping", "exited"})
    /\ GoTo(l, "top")
    /\ UNCHANGED <<side, flag, proc, conn, peaks, port, active, handshaking, ids, chan, hist>>

\* The aggregator hands over a new channel; run_bonded serves it.
BondIncoming(l) ==
    /\ Selecting(l)
    /\ chan = "incoming"
    /\ chan' = "serving"
    /\ GoTo(l, "top")
    /\ UNCHANGED <<side, flag, proc, conn, peaks, port, active, handshaking, ids, hist>>

\* The aggregator's listener failed: the server stops accepting for good.
BondListenerFails(l) ==
    /\ Selecting(l) /\ side = "server"
    /\ GoTo(l, "off")
    /\ UNCHANGED <<side, flag, proc, conn, peaks, port, active, handshaking, ids, chan, hist>>

----------------------------------------------------------------------------
(* Server sessions: handle_conn_inner, handshake_sync, register_link *)

Running == proc \notin {"dropping", "exited"}

\* The task reached the blocking pool: HandshakingGuard::new.
StartHandshake(c) ==
    /\ conn[c] = "spawned" /\ Running
    /\ Move(c, "handshaking")
    /\ handshaking' = handshaking + 1
    /\ UNCHANGED <<side, flag, loop, proc, port, active, ids, chan, hist>>

\* A socket option fails before the guard exists.
SpawnFails(c) ==
    /\ conn[c] = "spawned" /\ Running
    /\ Move(c, "ended")
    /\ UNCHANGED <<side, flag, loop, proc, port, active, handshaking, ids, chan, hist>>

\* handshake_server returned a role.  The wake-up connection has no peer.
\* A blocking task outlives the drop of the runtime; its result does not.
HandshakeOk(c) ==
    /\ conn[c] = "handshaking" /\ c # Wake
    /\ handshaking' = handshaking - 1
    /\ \E s \in IF Running THEN {"shaken", "link_shaken"} ELSE {"cut"} : Move(c, s)
    /\ UNCHANGED <<side, flag, loop, proc, port, active, ids, chan, hist>>

\* Mutant: a failed handshake keeps its count.
HandshakeFailsKeeps(c) ==
    /\ conn[c] = "handshaking"
    /\ Move(c, "ended")
    /\ UNCHANGED <<side, flag, loop, proc, port, active, handshaking, ids, chan, hist>>

\* Wrong secrets, a probe, a timeout: the guard drops, the failure is counted.
HandshakeFails(c) ==
    /\ conn[c] = "handshaking"
    /\ handshaking' = handshaking - 1
    /\ Move(c, "ended")
    /\ UNCHANGED <<side, flag, loop, proc, port, active, ids, chan, hist>>

\* stats.active.fetch_add, one slot per authenticated session.
Count(c) ==
    /\ conn[c] \in {"shaken", "link_shaken"} /\ Running
    /\ Move(c, IF conn[c] = "shaken" THEN "counted" ELSE "link_counted")
    /\ active' = active + 1
    /\ UNCHANGED <<side, flag, loop, proc, port, handshaking, ids, chan, hist>>

\* The socket becomes a tokio stream and the guard (in the link's case the
\* counted read half) takes over the slot.
Convert(c) ==
    /\ conn[c] \in {"counted", "link_counted"} /\ Running
    /\ Move(c, IF conn[c] = "counted" THEN "tunnel" ELSE "registering")
    /\ UNCHANGED <<side, flag, loop, proc, port, active, handshaking, ids, chan, hist>>

\* The conversion fails: the task returns, nothing gives the slot back.
ConvertFails(c) ==
    /\ conn[c] \in {"counted", "link_counted"} /\ Running
    /\ Move(c, "leaked")
    /\ UNCHANGED <<side, flag, loop, proc, port, active, handshaking, ids, chan, hist>>

\* The guard of a session that ends.
Released(c) == active - 1

\* run_tunnel returns; the client's session ends at any stage; the aggregator
\* refuses or drops a link.
SessionEnds(c) ==
    /\ conn[c] \in {"tunnel", "registering", "linked", "negotiating", "opening", "pumping"}
    /\ Running
    /\ active' = Released(c)
    /\ Move(c, "ended")
    /\ UNCHANGED <<side, flag, loop, proc, port, handshaking, ids, chan, hist>>

\* add_incoming_io: the link joins the channel, or opens one while the accept
\* loop still listens for channels.
RegisterLink(c) ==
    /\ conn[c] = "registering" /\ Running
    /\ \/ chan # "none" /\ UNCHANGED chan
       \/ chan = "none" /\ loop["main"] # "off" /\ chan' = "incoming"
    /\ Move(c, "linked")
    /\ UNCHANGED <<side, flag, loop, proc, port, active, handshaking, ids, hist>>

\* run_bonded returned, or the channel had no link for no_link_timeout: the
\* aggregator drops whatever links are left.
ChannelEnds ==
    /\ chan = "serving" /\ Running
    /\ chan' = "none"
    /\ conn' = [c \in All |-> IF conn[c] = "linked" THEN "ended" ELSE conn[c]]
    /\ active' = active - Cardinality(In({"linked"}))
    /\ UNCHANGED <<side, flag, loop, proc, peaks, port, handshaking, ids, hist>>

----------------------------------------------------------------------------
(* Client sessions: socks5::handle *)

\* read_connect: greeting, method, request and address arrived within
\* NEGOTIATION_TIMEOUT (any other outcome is SessionEnds).
Negotiated(c) ==
    /\ conn[c] = "negotiating" /\ Running /\ c # Wake
    /\ Move(c, "opening")
    /\ UNCHANGED <<side, flag, loop, proc, port, active, handshaking, ids, chan, hist>>

\* pool.open_stream and the success reply; the pump takes over.
Opened(c) ==
    /\ conn[c] = "opening" /\ Running
    /\ Move(c, "pumping")
    /\ UNCHANGED <<side, flag, loop, proc, port, active, handshaking, ids, chan, hist>>

----------------------------------------------------------------------------
(* Drain and exit *)

\* The main loop returned (the client's bond loop is not waited for).
StartDrain ==
    /\ proc = "serving" /\ loop["main"] = "off"
    /\ proc' = "draining"
    /\ UNCHANGED <<side, flag, loop, conn, peaks, port, active, handshaking, ids, chan, hist>>

\* Mutant: the last session is not waited for.
DrainedCount == active <= 1

\* What drain_sessions waits for.
Drained == active = 0

\* drain_sessions sees no active session.
DrainDone ==
    /\ proc = "draining"
    /\ Drained
    /\ proc' = "drained"
    /\ verdict' = In(InFlight)
    /\ UNCHANGED <<side, flag, loop, conn, peaks, port, active, handshaking, ids, chan, late>>

\* Mutant: the deadline is only checked once the sessions are gone.
DrainTimeoutLate ==
    /\ proc = "draining"
    /\ active = 0
    /\ proc' = "timedout"
    /\ UNCHANGED <<side, flag, loop, conn, peaks, port, active, handshaking, ids, chan, hist>>

\* DRAIN_TIMEOUT passes with sessions still open.
DrainTimeout ==
    /\ proc = "draining"
    /\ active # 0
    /\ proc' = "timedout"
    /\ UNCHANGED <<side, flag, loop, conn, peaks, port, active, handshaking, ids, chan, hist>>

\* block_on returns and the runtime is dropped: every task is cancelled, its
\* guard runs; handshakes on the blocking pool go on.
DropRuntime ==
    /\ proc \in {"drained", "timedout"}
    /\ proc' = "dropping"
    /\ conn' = [c \in All |-> IF conn[c] \in {"handshaking", "idle"} \cup Over THEN conn[c] ELSE "cut"]
    /\ active' = Cardinality(In({"leaked"}))
    /\ chan' = "none"
    /\ UNCHANGED <<side, flag, loop, peaks, port, handshaking, ids, hist>>

\* The runtime's drop waits for the blocking pool; then main returns.
Exit ==
    /\ proc = "dropping"
    /\ In({"handshaking"}) = {}
    /\ proc' = "exited"
    /\ UNCHANGED <<side, flag, loop, conn, peaks, port, active, handshaking, ids, chan, hist>>

----------------------------------------------------------------------------
LoopStep(l) ==
    \/ LoopTop(l) \/ AcceptError(l) \/ Poll(l)
    \/ BondIncoming(l) \/ BondListenerFails(l)
    \/ \E c \in All : Gate(l, c) \/ GateHandshakes(l, c) \/ Admit(l, c)

SessionStep(c) ==
    \/ StartHandshake(c) \/ SpawnFails(c) \/ HandshakeOk(c) \/ HandshakeFails(c)
    \/ Count(c) \/ Convert(c) \/ ConvertFails(c)
    \/ SessionEnds(c) \/ RegisterLink(c) \/ Negotiated(c) \/ Opened(c)

Next ==
    \/ \E c \in Conns : Arrive(c)
    \/ Signal
    \/ \E l \in Loops : LoopStep(l)
    \/ \E c \in All : SessionStep(c)
    \/ ChannelEnds \/ StartDrain \/ DrainDone \/ DrainTimeout
    \/ DropRuntime \/ Exit

\* The runtime schedules every loop (the poll timer is always armed), the
\* drain thread and the timeouts; handshakes end by their read timeouts.  No
\* session of either role is assumed to end by itself.
Fairness ==
    /\ \A l \in {"main", "bond"} : WF_vars(l \in Loops /\ (\/ LoopTop(l) \/ Poll(l)
                                                     \/ \E c \in All : GateHandshakes(l, c) \/ Admit(l, c)))
    /\ \A c \in All : WF_vars(HandshakeOk(c) \/ HandshakeFails(c))
    /\ WF_vars(StartDrain) /\ WF_vars(DrainDone \/ DrainTimeout)
    /\ WF_vars(DropRuntime) /\ WF_vars(Exit)

Spec == Init /\ [][Next]_vars /\ Fairness

----------------------------------------------------------------------------
(* Properties *)

TypeOK ==
    /\ side \in Sides
    /\ flag \in BOOLEAN
    /\ loop \in [Loops -> {"top", "select", "gate", "admit", "backoff", "off"}]
    /\ proc \in {"serving", "draining", "drained", "timedout", "dropping", "exited"}
    /\ conn \in [All -> States]
    /\ port \in [All -> Loops]
    /\ active \in Nat /\ handshaking \in Nat
    /\ counter \in Nat /\ base \in Bases /\ sid \in [All -> Nat]
    /\ chan \in {"none", "incoming", "serving"}
    /\ peak \in Nat /\ burst \in Nat /\ late \in Nat
    /\ verdict \subseteq All

\* The two gauges count the sessions behind them, whatever order the steps of
\* the accept loops, the sessions, the drain and the exit come in: each unit of
\* `active` belongs to one authenticated (client: accepted) session that has not
\* ended, or to one whose socket conversion failed; `handshaking` counts the
\* handshakes on the blocking pool.  Neither can drift or wrap below zero.
GaugesMatch ==
    /\ TypeOK
    /\ active = Cardinality(In(Holding \cup {"leaked"}))
    /\ handshaking = Cardinality(In({"handshaking"}))

\* The best-effort gates: the sum of sessions exceeds max_connections only by
\* connections that were past the gate together; on the client by at most one
\* per additional accept loop.  The same for max_handshakes.
OvershootBounded ==
    /\ side = "client" => active <= MaxConnections - 1 + Cardinality(Loops)
    /\ side = "server" => /\ active <= MaxConnections - 1 + peak
                          /\ handshaking <= MaxHandshakes - 1 + burst

\* Once the flag is set, each accept loop admits at most the one connection
\* it was about to accept (on an idle process the wake-up connection).
LateAdmission == late <= Cardinality(Loops)

\* Two sessions share an id only through the replacement of id 0 by 1.
SessionIdsDistinct ==
    \A c, d \in All : c # d /\ sid[c] # 0 /\ sid[c] = sid[d] => base = 0 /\ sid[c] = 1

\* "All sessions drained": a session that the exit cuts after that verdict was
\* still in its handshake when drain_sessions looked, or came in through the
\* client's bond inbound, whose loop nobody waits for.  The main listener
\* admits nothing new and no established session is forgotten.
DrainIsHonest ==
    proc = "drained" => \A c \in In(Holding) : c \in verdict \/ port[c] = "bond"

\* A signal ends the process, however many sessions and handshakes stay open.
ShutdownExits == flag ~> proc = "exited"
=============================================================================
