-------------------------------- MODULE Pool --------------------------------
(***************************************************************************)
(* The client's mux tunnel pool (crates/client/src/pool.rs): the vector of *)
(* pooled tunnels, the maintainer that keeps PoolSize of them alive, the   *)
(* dial tasks it spawns, and the openers (one per SOCKS CONNECT) that open *)
(* a stream on the least-loaded tunnel, wait for one, or overflow onto a   *)
(* dedicated tunnel.  The runtime is multi-threaded, so every lock section *)
(* and every atomic access is an action of its own.                        *)
(*                                                                         *)
(* Timers (the maintainer's 1 s and 30 s sleeps, the 200 ms recheck, the   *)
(* connect timeouts) are untimed: an armed timer may fire at any moment.   *)
(* `added` only ever races such a timer with the same outcome, so it needs *)
(* no variable; `died` stores a permit and has one.                        *)
(***************************************************************************)
EXTENDS Integers, FiniteSets

CONSTANTS
  Tunnels,     \* identities of tunnel objects; one is reused once freed
  Openers,     \* concurrent callers of open_stream
  PoolSize,    \* params.pool_size
  MaxStreams,  \* params.max_streams
  NoTunnel     \* an opener that holds no tunnel

ASSUME PoolAssumption ==
  /\ IsFiniteSet(Tunnels)
  /\ IsFiniteSet(Openers)
  /\ PoolSize \in Nat
  /\ MaxStreams \in Nat \ {0}
  /\ NoTunnel \notin Tunnels

VARIABLES
  vec,        \* PoolInner.tunnels
  dialing,    \* PoolInner.dialing
  died,       \* the permit stored by PoolInner.died
  task,       \* progress of the dial task that builds a pool tunnel
  alive,      \* Tunnel.alive
  dying,      \* tunnels between mark_dead's swap and its last line
  down,       \* live tunnels whose reader loop or writer task has ended
  dedicated,  \* tunnels with no pool back-reference
  streams,    \* Tunnel.streams
  pending,    \* Tunnel.pending: the openers whose REPLY waiter is registered
  mpc,        \* control state of the maintainer
  live,       \* the maintainer's `live` count
  short,      \* dials the current refill round has still to spawn
  opc,        \* control state of each opener
  tun         \* the tunnel each opener holds

tunVars   == <<alive, dying, down, dedicated, streams, pending>>
maintVars == <<mpc, live, short>>
openVars  == <<opc, tun>>
vars == <<vec, dialing, died, task, tunVars, maintVars, openVars>>

TaskStates  == {"none", "dial", "push", "drop"}
MaintStates == {"off", "sweep", "upkeep", "recount", "load", "spawn", "idle", "pace"}
OpenStates  == {"idle", "pick", "check", "wait", "dial", "register",
                "send", "reply", "err", "stream"}

Minus(a, b) == IF a > b THEN a - b ELSE 0      \* u32::saturating_sub

LivePool == {t \in vec : alive[t]}
Tasks    == {t \in Tunnels : task[t] # "none"}

\* Nothing refers to the object: its last Arc is gone and its name is reusable.
Free(t) ==
  /\ task[t] = "none"
  /\ t \notin vec
  /\ ~alive[t]
  /\ t \notin dying
  /\ \A o \in Openers : tun[o] # t

(***************************************************************************)
(* Pool::new: an empty pool; the maintainer runs only when pooling is on.  *)
(***************************************************************************)
Init ==
  /\ vec = {}
  /\ dialing = 0
  /\ died = FALSE
  /\ task = [t \in Tunnels |-> "none"]
  /\ alive = [t \in Tunnels |-> FALSE]
  /\ dying = {}
  /\ down = {}
  /\ dedicated = {}
  /\ streams = [t \in Tunnels |-> 0]
  /\ pending = [t \in Tunnels |-> {}]
  /\ mpc = IF PoolSize > 0 THEN "sweep" ELSE "off"
  /\ live = 0
  /\ short = 0
  /\ opc = [o \in Openers |-> "idle"]
  /\ tun = [o \in Openers |-> NoTunnel]

(***************************************************************************)
(* maintain                                                                *)
(***************************************************************************)
\* First lock section: drop the dead, snapshot the rest for upkeep.
Sweep ==
  /\ mpc = "sweep"
  /\ vec' = LivePool
  /\ mpc' = "upkeep"
  /\ UNCHANGED <<dialing, died, task, tunVars, live, short, openVars>>

\* maintain_tunnel on every snapshotted tunnel; may await for seconds.
Upkeep ==
  /\ mpc = "upkeep"
  /\ mpc' = "recount"
  /\ UNCHANGED <<vec, dialing, died, task, tunVars, live, short, openVars>>

\* Second lock section: drop the dead again and count.
Recount ==
  /\ mpc = "recount"
  /\ vec' = LivePool
  /\ live' = Cardinality(LivePool)
  /\ mpc' = "load"
  /\ UNCHANGED <<dialing, died, task, tunVars, short, openVars>>

\* Mutant: in-flight dials do not count towards the target.
LoadIgnoresDialing ==
  /\ mpc = "load"
  /\ short' = Minus(PoolSize, live)
  /\ mpc' = IF short' = 0 THEN "idle" ELSE "spawn"
  /\ live' = 0                                  \* the local is not used again
  /\ UNCHANGED <<vec, dialing, died, task, tunVars, openVars>>

\* Load `dialing`, after the lock is released, and size the round.
LoadDialing ==
  /\ mpc = "load"
  /\ short' = Minus(PoolSize, live + dialing)
  /\ mpc' = IF short' = 0 THEN "idle" ELSE "spawn"
  /\ live' = 0                                  \* the local is not used again
  /\ UNCHANGED <<vec, dialing, died, task, tunVars, openVars>>

\* One iteration of the spawn loop.
SpawnDial(t) ==
  /\ mpc = "spawn"
  /\ short > 0
  /\ Free(t)
  /\ dialing' = dialing + 1
  /\ task' = [task EXCEPT ![t] = "dial"]
  /\ short' = short - 1
  /\ mpc' = IF short' = 0 THEN "pace" ELSE "spawn"
  /\ UNCHANGED <<vec, died, tunVars, live, openVars>>

\* A select ends by its timer (or, in the paced one, by `added`).
MaintTimer ==
  /\ mpc \in {"idle", "pace"}
  /\ mpc' = "sweep"
  /\ UNCHANGED <<vec, dialing, died, task, tunVars, live, short, openVars>>

\* A select ends by consuming the `died` permit.
MaintDied ==
  /\ mpc \in {"idle", "pace"}
  /\ died
  /\ died' = FALSE
  /\ mpc' = "sweep"
  /\ UNCHANGED <<vec, dialing, task, tunVars, live, short, openVars>>

(***************************************************************************)
(* The spawned dial task                                                   *)
(***************************************************************************)
\* spawn_tunnel / open_dedicated: a new tunnel object.
NewTunnel(t) ==
  /\ alive' = [alive EXCEPT ![t] = TRUE]
  /\ streams' = [streams EXCEPT ![t] = 0]
  /\ pending' = [pending EXCEPT ![t] = {}]
  /\ UNCHANGED <<dying, down>>

DialOk(t) ==
  /\ task[t] = "dial"
  /\ task' = [task EXCEPT ![t] = "push"]
  /\ NewTunnel(t)
  /\ UNCHANGED <<vec, dialing, died, dedicated, maintVars, openVars>>

\* Mutant: a failed dial forgets to give its slot back.
DialErrKeepsSlot(t) ==
  /\ task[t] = "dial"
  /\ task' = [task EXCEPT ![t] = "none"]
  /\ UNCHANGED <<vec, dialing, died, tunVars, maintVars, openVars>>

\* Err: nothing but the guard's decrement.
DialErr(t) ==
  /\ task[t] = "dial"
  /\ task' = [task EXCEPT ![t] = "none"]
  /\ dialing' = dialing - 1
  /\ UNCHANGED <<vec, died, tunVars, maintVars, openVars>>

PushTunnel(t) ==
  /\ task[t] = "push"
  /\ vec' = vec \cup {t}
  /\ task' = [task EXCEPT ![t] = "drop"]
  /\ UNCHANGED <<dialing, died, tunVars, maintVars, openVars>>

\* Mutant: the slot is given back by the task and again by its guard.
DropGuardTwice(t) ==
  /\ task[t] = "drop"
  /\ task' = [task EXCEPT ![t] = "none"]
  /\ dialing' = dialing - 2
  /\ UNCHANGED <<vec, died, tunVars, maintVars, openVars>>

\* DialingGuard::drop
DropGuard(t) ==
  /\ task[t] = "drop"
  /\ task' = [task EXCEPT ![t] = "none"]
  /\ dialing' = dialing - 1
  /\ UNCHANGED <<vec, died, tunVars, maintVars, openVars>>

(***************************************************************************)
(* Tunnel death                                                            *)
(***************************************************************************)
\* The carrier fails: the reader loop breaks or the writer task ends.
CarrierFails(t) ==
  /\ alive[t]
  /\ t \notin down
  /\ down' = down \cup {t}
  /\ UNCHANGED <<vec, dialing, died, task, alive, dying, dedicated, streams,
                 pending, maintVars, openVars>>

\* mark_dead, first half: alive.swap(false).
MarkDeadSwap(t) ==
  /\ t \in down
  /\ alive[t]
  /\ alive' = [alive EXCEPT ![t] = FALSE]
  /\ dying' = dying \cup {t}
  /\ down' = down \ {t}
  /\ UNCHANGED <<vec, dialing, died, task, dedicated, streams, pending,
                 maintVars, openVars>>

\* mark_dead, second half: fail the pending OPENs, wake the maintainer.
MarkDeadFinish(t) ==
  /\ t \in dying
  /\ dying' = dying \ {t}
  /\ pending' = [pending EXCEPT ![t] = {}]
  /\ died' = (died \/ t \notin dedicated)
  /\ UNCHANGED <<vec, dialing, task, alive, down, dedicated, streams,
                 maintVars, openVars>>

(***************************************************************************)
(* Pool::open_stream and Tunnel::open                                      *)
(***************************************************************************)
OpenStream(o) ==
  /\ opc[o] = "idle"
  /\ opc' = [opc EXCEPT ![o] = IF PoolSize = 0 THEN "dial" ELSE "pick"]
  /\ UNCHANGED <<vec, dialing, died, task, tunVars, maintVars, tun>>

Usable == {t \in LivePool : streams[t] < MaxStreams}

\* pick returns a least-loaded live tunnel below the stream cap.
PickSome(o, t) ==
  /\ opc[o] = "pick"
  /\ t \in Usable
  /\ \A u \in Usable : streams[t] =< streams[u]
  /\ opc' = [opc EXCEPT ![o] = "register"]
  /\ tun' = [tun EXCEPT ![o] = t]
  /\ UNCHANGED <<vec, dialing, died, task, tunVars, maintVars>>

PickNone(o) ==
  /\ opc[o] = "pick"
  /\ Usable = {}
  /\ opc' = [opc EXCEPT ![o] = "check"]
  /\ UNCHANGED <<vec, dialing, died, task, tunVars, maintVars, tun>>

\* any_live, under a second lock: saturated pool, overflow to a dedicated dial.
Saturated(o) ==
  /\ opc[o] = "check"
  /\ LivePool # {}
  /\ opc' = [opc EXCEPT ![o] = "dial"]
  /\ UNCHANGED <<vec, dialing, died, task, tunVars, maintVars, tun>>

\* Empty pool: kick the maintainer, then wait or give up on the deadline.
KickMaintainer(o) ==
  /\ opc[o] = "check"
  /\ LivePool = {}
  /\ died' = TRUE
  /\ \E s \in {"wait", "idle"} : opc' = [opc EXCEPT ![o] = s]
  /\ UNCHANGED <<vec, dialing, task, tunVars, maintVars, tun>>

\* Mutant: no POOL_RECHECK tick, and the `added` wake-up was missed.
RecheckNever(o) ==
  /\ opc[o] = "wait"
  /\ FALSE
  /\ UNCHANGED vars

\* `added` or the POOL_RECHECK tick ends the wait.
Recheck(o) ==
  /\ opc[o] = "wait"
  /\ opc' = [opc EXCEPT ![o] = "pick"]
  /\ UNCHANGED <<vec, dialing, died, task, tunVars, maintVars, tun>>

DialDedicatedOk(o, t) ==
  /\ opc[o] = "dial"
  /\ Free(t)
  /\ NewTunnel(t)
  /\ dedicated' = dedicated \cup {t}
  /\ opc' = [opc EXCEPT ![o] = "register"]
  /\ tun' = [tun EXCEPT ![o] = t]
  /\ UNCHANGED <<vec, dialing, died, task, maintVars>>

DialDedicatedErr(o) ==
  /\ opc[o] = "dial"
  /\ opc' = [opc EXCEPT ![o] = "idle"]
  /\ UNCHANGED <<vec, dialing, died, task, tunVars, maintVars, tun>>

\* Tunnel::open up to the send: register the waiter and take a load slot.
Register(o) ==
  /\ opc[o] = "register"
  /\ pending' = [pending EXCEPT ![tun[o]] = @ \cup {o}]
  /\ streams' = [streams EXCEPT ![tun[o]] = @ + 1]
  /\ opc' = [opc EXCEPT ![o] = "send"]
  /\ UNCHANGED <<vec, dialing, died, task, alive, dying, down, dedicated,
                 maintVars, tun>>

\* Tunnel::unregister
Unregister(o) ==
  /\ pending' = [pending EXCEPT ![tun[o]] = @ \ {o}]
  /\ streams' = [streams EXCEPT ![tun[o]] = @ - 1]

\* The channel takes the OPEN (its receiver may be about to go away).
SendOpen(o) ==
  /\ opc[o] = "send"
  /\ opc' = [opc EXCEPT ![o] = "reply"]
  /\ UNCHANGED <<vec, dialing, died, task, tunVars, maintVars, tun>>

\* The writer is gone: unregister, then mark_dead (its second half follows).
SendOpenFails(o) ==
  /\ opc[o] = "send"
  /\ tun[o] \in down \/ ~alive[tun[o]]
  /\ Unregister(o)
  /\ alive' = [alive EXCEPT ![tun[o]] = FALSE]
  /\ dying' = IF alive[tun[o]] THEN dying \cup {tun[o]} ELSE dying
  /\ down' = down \ {tun[o]}
  /\ opc' = [opc EXCEPT ![o] = "err"]
  /\ UNCHANGED <<vec, dialing, died, task, dedicated, maintVars, tun>>

\* REPLY_OK is delivered to the registered waiter.
ReplyOk(o) ==
  /\ opc[o] = "reply"
  /\ alive[tun[o]]
  /\ tun[o] \notin down
  /\ o \in pending[tun[o]]
  /\ pending' = [pending EXCEPT ![tun[o]] = @ \ {o}]
  /\ opc' = [opc EXCEPT ![o] = "stream"]
  /\ UNCHANGED <<vec, dialing, died, task, alive, dying, down, dedicated,
                 streams, maintVars, tun>>

\* Mutant: the error path drops the waiter and keeps the load slot.
ReplyErrKeepsSlot(o) ==
  /\ opc[o] = "reply"
  /\ pending' = [pending EXCEPT ![tun[o]] = @ \ {o}]
  /\ opc' = [opc EXCEPT ![o] = "err"]
  /\ UNCHANGED <<vec, dialing, died, task, alive, dying, down, dedicated,
                 streams, maintVars, tun>>

\* Refused, REPLY timeout, or the waiter was dropped by mark_dead.
ReplyErr(o) ==
  /\ opc[o] = "reply"
  /\ Unregister(o)
  /\ opc' = [opc EXCEPT ![o] = "err"]
  /\ UNCHANGED <<vec, dialing, died, task, alive, dying, down, dedicated,
                 maintVars, tun>>

\* Tunnel::kill of a dedicated tunnel: mark_dead, teardown, reader abort.  The
\* tunnel's only waiter has unregistered, so the maps mark_dead clears are empty
\* and what a concurrent mark_dead has left to do on it touches nothing.
Kill(t) ==
  /\ alive' = [alive EXCEPT ![t] = FALSE]
  /\ dying' = dying \ {t}
  /\ down' = down \ {t}
  /\ dedicated' = dedicated \ {t}

Release(o) ==
  /\ opc' = [opc EXCEPT ![o] = "idle"]
  /\ tun' = [tun EXCEPT ![o] = NoTunnel]

\* Mutant: a failed OPEN leaves its dedicated tunnel running.
DedicatedErrNoKill(o) ==
  /\ opc[o] = "err"
  /\ tun[o] \in dedicated
  /\ Release(o)
  /\ UNCHANGED <<vec, dialing, died, task, tunVars, maintVars>>

\* open_dedicated kills the tunnel of a failed OPEN.
DedicatedErr(o) ==
  /\ opc[o] = "err"
  /\ tun[o] \in dedicated
  /\ Kill(tun[o])
  /\ Release(o)
  /\ UNCHANGED <<vec, dialing, died, task, streams, pending, maintVars>>

\* Mutant: any failed OPEN evicts its tunnel, dead or not.
RetryErrAlways(o) ==
  /\ opc[o] = "err"
  /\ tun[o] \notin dedicated
  /\ vec' = vec \ {tun[o]}
  /\ opc' = [opc EXCEPT ![o] = "pick"]
  /\ tun' = [tun EXCEPT ![o] = NoTunnel]
  /\ UNCHANGED <<dialing, died, task, tunVars, maintVars>>

\* The pool tunnel died mid-open: remove it and try another one.
RetryErr(o) ==
  /\ opc[o] = "err"
  /\ tun[o] \notin dedicated
  /\ ~alive[tun[o]]
  /\ vec' = vec \ {tun[o]}
  /\ opc' = [opc EXCEPT ![o] = "pick"]
  /\ tun' = [tun EXCEPT ![o] = NoTunnel]
  /\ UNCHANGED <<dialing, died, task, tunVars, maintVars>>

\* The tunnel is fine: the error is the caller's.
ReturnErr(o) ==
  /\ opc[o] = "err"
  /\ tun[o] \notin dedicated
  /\ alive[tun[o]]
  /\ Release(o)
  /\ UNCHANGED <<vec, dialing, died, task, tunVars, maintVars>>

\* Stream::drop: unregister, and kill a dedicated tunnel.
DropStream(o) ==
  /\ opc[o] = "stream"
  /\ Unregister(o)
  /\ IF tun[o] \in dedicated
       THEN Kill(tun[o])
       ELSE UNCHANGED <<alive, dying, down, dedicated>>
  /\ Release(o)
  /\ UNCHANGED <<vec, dialing, died, task, maintVars>>

(***************************************************************************)
(* The specification                                                       *)
(***************************************************************************)
Maintain ==
  \/ Sweep \/ Upkeep \/ Recount \/ LoadDialing \/ MaintTimer \/ MaintDied
  \/ \E t \in Tunnels : SpawnDial(t)

DialTask(t) == DialOk(t) \/ DialErr(t) \/ PushTunnel(t) \/ DropGuard(t)

Death(t) == CarrierFails(t) \/ MarkDeadSwap(t) \/ MarkDeadFinish(t)

\* Everything open_stream itself does, from its call to its return.
Opening(o) ==
  \/ PickNone(o) \/ Saturated(o) \/ KickMaintainer(o) \/ Recheck(o)
  \/ DialDedicatedErr(o) \/ Register(o) \/ SendOpen(o) \/ SendOpenFails(o)
  \/ ReplyOk(o) \/ ReplyErr(o) \/ DedicatedErr(o) \/ RetryErr(o) \/ ReturnErr(o)
  \/ \E t \in Tunnels : PickSome(o, t) \/ DialDedicatedOk(o, t)

Next ==
  \/ Maintain
  \/ \E t \in Tunnels : DialTask(t) \/ Death(t)
  \/ \E o \in Openers : OpenStream(o) \/ Opening(o) \/ DropStream(o)

Spec == Init /\ [][Next]_vars

\* Tasks of the runtime keep being scheduled, and armed timers fire.  Nothing
\* obliges the carrier to fail, an application to connect or a stream to end.
Fairness ==
  /\ WF_vars(Maintain)
  /\ \A t \in Tunnels : /\ WF_vars(DialTask(t))
                        /\ WF_vars(MarkDeadSwap(t))
                        /\ WF_vars(MarkDeadFinish(t))
  /\ \A o \in Openers : WF_vars(Opening(o))

FairSpec == Spec /\ Fairness

(***************************************************************************)
(* Properties                                                              *)
(***************************************************************************)
\* Every variable has its type; in particular neither the dial counter nor a
\* stream counter (unsigned atomics in the code) ever passes below zero.
TypeOK ==
  /\ vec \subseteq Tunnels
  /\ dialing \in Nat
  /\ died \in BOOLEAN
  /\ task \in [Tunnels -> TaskStates]
  /\ alive \in [Tunnels -> BOOLEAN]
  /\ dying \subseteq Tunnels
  /\ down \subseteq Tunnels
  /\ dedicated \subseteq Tunnels
  /\ streams \in [Tunnels -> Nat]
  /\ pending \in [Tunnels -> SUBSET Openers]
  /\ mpc \in MaintStates
  /\ live \in Nat
  /\ short \in Nat
  /\ opc \in [Openers -> OpenStates]
  /\ tun \in [Openers -> Tunnels \cup {NoTunnel}]

\* However refill rounds and dial completions interleave, the pool plus its
\* dials in flight never exceed twice pool_size: a round that misses dials
\* completing between its recount and its load of `dialing` overshoots once,
\* and the next round sees them.
AtMostDouble ==
  Cardinality(LivePool \cup Tasks) =< 2 * PoolSize

\* A tunnel's load counter is the number of streams that hold a slot on it,
\* whatever path (reply, refusal, timeout, tunnel death, drop) each one took.
HoldsSlot(o, t) == tun[o] = t /\ opc[o] \in {"send", "reply", "stream"}

SlotAccounting ==
  \A t \in Tunnels : streams[t] = Cardinality({o \in Openers : HoldsSlot(o, t)})

\* No orphan: a live tunnel is in the pool, on its way into it, or held by the
\* opener it was dialed for.  Nobody else would ever close its socket.
NoOrphanTunnel ==
  \A t \in Tunnels :
    alive[t] => \/ t \in vec
                \/ task[t] = "push"
                \/ t \in dedicated /\ \E o \in Openers : tun[o] = t

\* The pool loses a tunnel from its vector only once that tunnel is dead.
LiveTunnelNeverDropped ==
  [][\A t \in vec \ vec' : ~alive[t]]_vars

\* A step in which the outside world fails: a carrier breaks or a dial fails.
Fault ==
  \/ \E t \in Tunnels : CarrierFails(t) \/ DialErr(t)
  \/ \E o \in Openers : DialDedicatedErr(o)

\* Once faults stop, the maintainer brings the pool to pool_size and it stays.
PoolRefills ==
  PoolSize > 0 =>
    (<>[][~Fault]_vars => <>[](Cardinality(LivePool) >= PoolSize))

\* Once faults stop, every open_stream call returns a stream or an error.
OpenersFinish ==
  <>[][~Fault]_vars =>
    \A o \in Openers : opc[o] = "pick" ~> opc[o] \in {"idle", "stream"}
=============================================================================
