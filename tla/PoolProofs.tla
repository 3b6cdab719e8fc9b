----------------------------- MODULE PoolProofs -----------------------------
(***************************************************************************)
(* Proofs about Pool for every finite set of tunnels and openers, every    *)
(* pool size and every stream cap.                                         *)
(*                                                                         *)
(* The inductive invariant has two layers.  Shape says who may hold what:  *)
(* it needs no counting.  Counts ties the two counters to the sets they    *)
(* stand for and carries the bound on the pool.  TypeOK follows from both, *)
(* since only Counts keeps the counters from passing below zero.           *)
(***************************************************************************)
EXTENDS Pool, FiniteSetTheorems, TLAPS

Holding == {"register", "send", "reply", "err", "stream"}

\* TypeOK with the counters allowed to be negative.
WideTypes ==
  /\ vec \subseteq Tunnels
  /\ dialing \in Int
  /\ died \in BOOLEAN
  /\ task \in [Tunnels -> TaskStates]
  /\ alive \in [Tunnels -> BOOLEAN]
  /\ dying \subseteq Tunnels
  /\ down \subseteq Tunnels
  /\ dedicated \subseteq Tunnels
  /\ streams \in [Tunnels -> Int]
  /\ pending \in [Tunnels -> SUBSET Openers]
  /\ mpc \in MaintStates
  /\ live \in Nat
  /\ short \in Nat
  /\ opc \in [Openers -> OpenStates]
  /\ tun \in [Openers -> Tunnels \cup {NoTunnel}]

\* An opener holds a tunnel exactly in the states that use it.
HoldInv == \A o \in Openers : tun[o] # NoTunnel <=> opc[o] \in Holding

\* Until it is pushed, a tunnel belongs to its dial task alone.
TaskInv ==
  \A t \in Tunnels :
    task[t] \in {"dial", "push"} =>
      t \notin vec /\ t \notin dedicated /\ \A o \in Openers : tun[o] # t

\* A dedicated tunnel is never pooled and belongs to an opener.
DedicatedInv ==
  \A t \in dedicated :
    t \notin vec /\ task[t] = "none" /\ \E o \in Openers : tun[o] = t

\* A round has dials to spawn only while it spawns.
RoundInv == mpc # "spawn" => short = 0

Shape ==
  WideTypes /\ HoldInv /\ TaskInv /\ DedicatedInv /\ NoOrphanTunnel /\ RoundInv

PoolOrDialed == LivePool \cup Tasks

DialCount == dialing = Cardinality(Tasks)

\* The bound, strengthened for each point of a refill round: what a round
\* still has to spawn is already paid for, and between the recount and the
\* load the pool cannot hold more than was counted plus one full pool of dials.
PoolBound ==
  /\ dialing + short =< PoolSize
  /\ Cardinality(PoolOrDialed) + short =< 2 * PoolSize
  /\ mpc = "load" => Cardinality(PoolOrDialed) =< live + PoolSize

Counts == DialCount /\ SlotAccounting /\ PoolBound

\* The initial state has the shape.
LEMMA ShapeInit == Init => Shape
  <1> SUFFICES ASSUME Init PROVE Shape
    OBVIOUS
  <1> USE PoolAssumption DEF Init
  <1>a. died \in BOOLEAN /\ alive \in [Tunnels -> BOOLEAN]
    BY Zenon
  <1>b. mpc \in MaintStates
    BY DEF MaintStates
  <1>1. WideTypes
    BY <1>a, <1>b DEF WideTypes, TaskStates, OpenStates
  <1>2. HoldInv /\ TaskInv /\ DedicatedInv /\ RoundInv
    BY DEF HoldInv, TaskInv, DedicatedInv, RoundInv, Holding
  <1>3. NoOrphanTunnel
    BY DEF NoOrphanTunnel
  <1> QED BY <1>1, <1>2, <1>3 DEF Shape

\* Every step of the maintainer, a dial task, a dying tunnel or an opener keeps
\* the shape.
LEMMA ShapeStep == Shape /\ [Next]_vars => Shape'
  <1> SUFFICES ASSUME Shape, [Next]_vars PROVE Shape'
    OBVIOUS
  <1> USE PoolAssumption
      DEF Shape, WideTypes, HoldInv, TaskInv, DedicatedInv, NoOrphanTunnel, RoundInv,
          Holding, TaskStates, MaintStates, OpenStates, tunVars, maintVars, openVars
  <1>1. CASE Sweep
    BY <1>1 DEF Sweep, LivePool
  <1>2. CASE Upkeep
    BY <1>2 DEF Upkeep
  <1>3. CASE Recount
    <2>1. Cardinality(LivePool) \in Nat
      BY FS_Subset, FS_CardinalityType DEF LivePool
    <2> QED BY <1>3, <2>1 DEF Recount, LivePool
  <1>4. CASE LoadDialing
    BY <1>4 DEF LoadDialing, Minus
  <1>5. CASE MaintTimer
    BY <1>5 DEF MaintTimer
  <1>6. CASE MaintDied
    BY <1>6 DEF MaintDied
  <1>7. ASSUME NEW t \in Tunnels, SpawnDial(t) PROVE Shape'
    BY <1>7 DEF SpawnDial, Free
  <1>8. ASSUME NEW t \in Tunnels, DialOk(t) PROVE Shape'
    BY <1>8 DEF DialOk, NewTunnel
  <1>9. ASSUME NEW t \in Tunnels, DialErr(t) PROVE Shape'
    BY <1>9 DEF DialErr
  <1>10. ASSUME NEW t \in Tunnels, PushTunnel(t) PROVE Shape'
    BY <1>10 DEF PushTunnel
  <1>11. ASSUME NEW t \in Tunnels, DropGuard(t) PROVE Shape'
    BY <1>11 DEF DropGuard
  <1>12. ASSUME NEW t \in Tunnels, CarrierFails(t) PROVE Shape'
    BY <1>12 DEF CarrierFails
  <1>13. ASSUME NEW t \in Tunnels, MarkDeadSwap(t) PROVE Shape'
    BY <1>13 DEF MarkDeadSwap
  <1>14. ASSUME NEW t \in Tunnels, MarkDeadFinish(t) PROVE Shape'
    BY <1>14 DEF MarkDeadFinish
  <1>15. ASSUME NEW o \in Openers, OpenStream(o) PROVE Shape'
    BY <1>15 DEF OpenStream
  <1>16. ASSUME NEW o \in Openers, PickNone(o) PROVE Shape'
    BY <1>16 DEF PickNone
  <1>17. ASSUME NEW o \in Openers, Saturated(o) PROVE Shape'
    BY <1>17 DEF Saturated
  <1>18. ASSUME NEW o \in Openers, KickMaintainer(o) PROVE Shape'
    BY <1>18 DEF KickMaintainer
  <1>19. ASSUME NEW o \in Openers, Recheck(o) PROVE Shape'
    BY <1>19 DEF Recheck
  <1>20. ASSUME NEW o \in Openers, DialDedicatedErr(o) PROVE Shape'
    BY <1>20 DEF DialDedicatedErr
  <1>21. ASSUME NEW o \in Openers, Register(o) PROVE Shape'
    BY <1>21 DEF Register
  <1>22. ASSUME NEW o \in Openers, SendOpen(o) PROVE Shape'
    BY <1>22 DEF SendOpen
  <1>23. ASSUME NEW o \in Openers, SendOpenFails(o) PROVE Shape'
    BY <1>23 DEF SendOpenFails, Unregister
  <1>24. ASSUME NEW o \in Openers, ReplyOk(o) PROVE Shape'
    BY <1>24 DEF ReplyOk
  <1>25. ASSUME NEW o \in Openers, ReplyErr(o) PROVE Shape'
    BY <1>25 DEF ReplyErr, Unregister
  <1>26. ASSUME NEW o \in Openers, DedicatedErr(o) PROVE Shape'
    BY <1>26 DEF DedicatedErr, Kill, Release
  <1>27. ASSUME NEW o \in Openers, RetryErr(o) PROVE Shape'
    BY <1>27 DEF RetryErr
  <1>28. ASSUME NEW o \in Openers, ReturnErr(o) PROVE Shape'
    BY <1>28 DEF ReturnErr, Release
  <1>29. ASSUME NEW o \in Openers, DropStream(o) PROVE Shape'
    <2>1. CASE tun[o] \in dedicated
      <3>1. WideTypes'
        <4>1. alive' \in [Tunnels -> BOOLEAN] /\ dying' \subseteq Tunnels
          <5>1. alive' = [alive EXCEPT ![tun[o]] = FALSE] /\ dying' = dying \ {tun[o]}
            BY <1>29, <2>1 DEF DropStream, Kill
          <5>2. alive \in [Tunnels -> BOOLEAN] /\ dying \subseteq Tunnels
            OBVIOUS
          <5> QED BY ONLY <5>1, <5>2
        <4>2. streams' \in [Tunnels -> Int] /\ pending' \in [Tunnels -> SUBSET Openers]
          BY <1>29, <2>1 DEF DropStream, Unregister
        <4> QED BY <1>29, <2>1, <4>1, <4>2 DEF DropStream, Kill, Release
      <3>2. HoldInv' /\ TaskInv' /\ RoundInv'
        BY <1>29, <2>1 DEF DropStream, Unregister, Kill, Release
      <3>3. DedicatedInv'
        BY <1>29, <2>1 DEF DropStream, Unregister, Kill, Release
      <3>4. NoOrphanTunnel'
        BY <1>29, <2>1 DEF DropStream, Unregister, Kill, Release
      <3> QED BY <3>1, <3>2, <3>3, <3>4
    <2>2. CASE tun[o] \notin dedicated
      BY <1>29, <2>2 DEF DropStream, Unregister, Kill, Release
    <2> QED BY <2>1, <2>2
  <1>30. ASSUME NEW o \in Openers, NEW t \in Tunnels, PickSome(o, t) PROVE Shape'
    BY <1>30 DEF PickSome, Usable, LivePool
  <1>31. ASSUME NEW o \in Openers, NEW t \in Tunnels, DialDedicatedOk(o, t) PROVE Shape'
    BY <1>31 DEF DialDedicatedOk, NewTunnel, Free
  <1>32. CASE UNCHANGED vars
    BY <1>32 DEF vars
  <1> QED
    BY <1>1, <1>2, <1>3, <1>4, <1>5, <1>6, <1>7, <1>8, <1>9, <1>10,
       <1>11, <1>12, <1>13, <1>14, <1>15, <1>16, <1>17, <1>18, <1>19,
       <1>20, <1>21, <1>22, <1>23, <1>24, <1>25, <1>26, <1>27, <1>28,
       <1>29, <1>30, <1>31, <1>32
       DEF Next, Maintain, DialTask, Death, Opening

-----------------------------------------------------------------------------

\* Lowering a summand keeps a sum below its bound.
LEMMA SumBound ==
  ASSUME NEW a \in Nat, NEW b \in Nat, NEW c \in Nat, NEW p \in Nat,
         a + b =< p, c =< a
  PROVE  c + b =< p
  OBVIOUS

\* The sets that are counted are finite.
LEMMA FiniteCounts ==
  ASSUME WideTypes
  PROVE  /\ IsFiniteSet(Tasks) /\ Cardinality(Tasks) \in Nat
         /\ IsFiniteSet(LivePool) /\ Cardinality(LivePool) \in Nat
         /\ IsFiniteSet(PoolOrDialed) /\ Cardinality(PoolOrDialed) \in Nat
         /\ \A t : /\ IsFiniteSet({o \in Openers : HoldsSlot(o, t)})
                   /\ Cardinality({o \in Openers : HoldsSlot(o, t)}) \in Nat
  <1>1. /\ Tasks \in SUBSET Tunnels
        /\ LivePool \in SUBSET Tunnels
        /\ PoolOrDialed \in SUBSET Tunnels
        /\ \A t : {o \in Openers : HoldsSlot(o, t)} \in SUBSET Openers
    BY DEF WideTypes, Tasks, LivePool, PoolOrDialed
  <1> QED BY <1>1, PoolAssumption, FS_Subset, FS_CardinalityType

\* The set of dial tasks and the counter `dialing` move together.
LEMMA TasksChange ==
  ASSUME Shape, [Next]_vars
  PROVE  \/ \E t \in Tunnels : /\ t \notin Tasks
                               /\ Tasks' = Tasks \cup {t}
                               /\ dialing' = dialing + 1
         \/ \E t \in Tunnels : /\ t \in Tasks
                               /\ Tasks' = Tasks \ {t}
                               /\ dialing' = dialing - 1
         \/ Tasks' = Tasks /\ dialing' = dialing
  <1> USE DEF Tasks, Shape, WideTypes, TaskStates
  <1>1. ASSUME NEW t \in Tunnels, SpawnDial(t)
        PROVE  t \notin Tasks /\ Tasks' = Tasks \cup {t} /\ dialing' = dialing + 1
    BY <1>1 DEF SpawnDial, Free
  <1>2. ASSUME NEW t \in Tunnels, DialErr(t) \/ DropGuard(t)
        PROVE  t \in Tasks /\ Tasks' = Tasks \ {t} /\ dialing' = dialing - 1
    BY <1>2 DEF DialErr, DropGuard
  <1>3. ASSUME NEW t \in Tunnels, DialOk(t) \/ PushTunnel(t)
        PROVE  Tasks' = Tasks /\ dialing' = dialing
    BY <1>3 DEF DialOk, PushTunnel
  <1>4. \/ \E t \in Tunnels : SpawnDial(t) \/ DialErr(t) \/ DropGuard(t)
        \/ \E t \in Tunnels : DialOk(t) \/ PushTunnel(t)
        \/ UNCHANGED <<task, dialing>>
    BY DEF Next, Maintain, DialTask, Death, Opening, vars, Sweep, Upkeep, Recount,
       LoadDialing, MaintTimer, MaintDied, CarrierFails, MarkDeadSwap, MarkDeadFinish,
       OpenStream, PickNone, Saturated, KickMaintainer, Recheck, DialDedicatedErr,
       Register, SendOpen, SendOpenFails, ReplyOk, ReplyErr, DedicatedErr, RetryErr,
       ReturnErr, DropStream, PickSome, DialDedicatedOk
  <1>5. UNCHANGED <<task, dialing>> => Tasks' = Tasks /\ dialing' = dialing
    OBVIOUS
  <1> QED BY <1>1, <1>2, <1>3, <1>4, <1>5

\* Only a spawned dial adds to the pool and the dials in flight together.
LEMMA PoolChange ==
  ASSUME Shape, [Next]_vars
  PROVE  \/ \E t \in Tunnels : SpawnDial(t) /\ PoolOrDialed' = PoolOrDialed \cup {t}
         \/ PoolOrDialed' \subseteq PoolOrDialed
  <1> USE DEF PoolOrDialed, Tasks, LivePool, Shape, WideTypes, TaskStates
  <1>1. ASSUME NEW t \in Tunnels, SpawnDial(t)
        PROVE  PoolOrDialed' = PoolOrDialed \cup {t}
    BY <1>1 DEF SpawnDial, tunVars
  <1>2. ASSUME NEW t \in Tunnels, DialOk(t)
        PROVE  PoolOrDialed' \subseteq PoolOrDialed
    BY <1>2 DEF DialOk, NewTunnel, TaskInv
  <1>3. ASSUME NEW t \in Tunnels, DialErr(t) \/ DropGuard(t) \/ PushTunnel(t)
        PROVE  PoolOrDialed' \subseteq PoolOrDialed
    BY <1>3 DEF DialErr, DropGuard, PushTunnel, tunVars
  <1>4. ASSUME NEW o \in Openers, NEW t \in Tunnels, DialDedicatedOk(o, t)
        PROVE  PoolOrDialed' \subseteq PoolOrDialed
    BY <1>4 DEF DialDedicatedOk, NewTunnel, Free
  <1>5. ASSUME UNCHANGED task, vec' \subseteq vec, \A t \in Tunnels : alive'[t] => alive[t]
        PROVE  PoolOrDialed' \subseteq PoolOrDialed
    BY <1>5
  <1>6. \/ \E t \in Tunnels : SpawnDial(t) \/ DialOk(t)
        \/ \E t \in Tunnels : DialErr(t) \/ DropGuard(t) \/ PushTunnel(t)
        \/ \E o \in Openers, t \in Tunnels : DialDedicatedOk(o, t)
        \/ /\ UNCHANGED task
           /\ vec' \subseteq vec
           /\ \A t \in Tunnels : alive'[t] => alive[t]
    BY DEF Next, Maintain, DialTask, Death, Opening, vars, Sweep, Upkeep, Recount,
       LoadDialing, MaintTimer, MaintDied, CarrierFails, MarkDeadSwap, MarkDeadFinish,
       OpenStream, PickNone, Saturated, KickMaintainer, Recheck, DialDedicatedErr,
       Register, SendOpen, SendOpenFails, ReplyOk, ReplyErr, DedicatedErr, RetryErr,
       ReturnErr, DropStream, PickSome, Kill, tunVars
  <1> QED BY <1>1, <1>2, <1>3, <1>4, <1>5, <1>6

\* How a step moves the variables of the refill round.
LEMMA RoundChange ==
  ASSUME [Next]_vars
  PROVE  \/ \E t \in Tunnels : SpawnDial(t)
         \/ LoadDialing
         \/ Recount
         \/ short' = short /\ live' = live /\ (mpc' = "load" => mpc = "load")
  BY DEF Next, Maintain, DialTask, Death, Opening, vars, maintVars, Sweep, Upkeep,
     MaintTimer, MaintDied, CarrierFails, MarkDeadSwap, MarkDeadFinish, DialOk, DialErr,
     PushTunnel, DropGuard, OpenStream, PickNone, Saturated, KickMaintainer, Recheck,
     DialDedicatedErr, Register, SendOpen, SendOpenFails, ReplyOk, ReplyErr,
     DedicatedErr, RetryErr, ReturnErr, DropStream, PickSome, DialDedicatedOk

\* A tunnel's load counter moves with the set of openers that hold a slot.
LEMMA SlotsChange ==
  ASSUME Shape, [Next]_vars, NEW t \in Tunnels
  PROVE  LET S == {o \in Openers : HoldsSlot(o, t)} IN
         \/ \E o \in Openers : o \notin S /\ S' = S \cup {o} /\ streams'[t] = streams[t] + 1
         \/ \E o \in Openers : o \in S /\ S' = S \ {o} /\ streams'[t] = streams[t] - 1
         \/ S' = {} /\ streams'[t] = 0
         \/ S' = S /\ streams'[t] = streams[t]
  <1> DEFINE S == {o \in Openers : HoldsSlot(o, t)}
  <1> USE DEF HoldsSlot, Shape, WideTypes, HoldInv, Holding
  <1>1. ASSUME NEW o \in Openers, Register(o), tun[o] = t
        PROVE  o \notin S /\ S' = S \cup {o} /\ streams'[t] = streams[t] + 1
    BY <1>1, PoolAssumption DEF Register
  <1>2. ASSUME NEW o \in Openers, SendOpenFails(o) \/ ReplyErr(o) \/ DropStream(o),
               tun[o] = t
        PROVE  o \in S /\ S' = S \ {o} /\ streams'[t] = streams[t] - 1
    BY <1>2, PoolAssumption DEF SendOpenFails, ReplyErr, DropStream, Unregister, Release
  <1>3. ASSUME NEW o \in Openers, tun[o] # t,
               Register(o) \/ SendOpenFails(o) \/ ReplyErr(o) \/ DropStream(o)
        PROVE  S' = S /\ streams'[t] = streams[t]
    BY <1>3, PoolAssumption
       DEF Register, SendOpenFails, ReplyErr, DropStream, Unregister, Release
  <1>4. ASSUME NEW u \in Tunnels, DialOk(u)
        PROVE  \/ S' = {} /\ streams'[t] = 0
               \/ S' = S /\ streams'[t] = streams[t]
    BY <1>4 DEF DialOk, NewTunnel, TaskInv, openVars
  <1>5. ASSUME NEW o \in Openers, NEW u \in Tunnels, DialDedicatedOk(o, u)
        PROVE  \/ S' = {} /\ streams'[t] = 0
               \/ S' = S /\ streams'[t] = streams[t]
    BY <1>5, PoolAssumption DEF DialDedicatedOk, NewTunnel, Free
  <1>6. ASSUME UNCHANGED <<streams, openVars>>
        PROVE  S' = S /\ streams'[t] = streams[t]
    BY <1>6 DEF openVars
  <1>7. ASSUME NEW o \in Openers,
               \/ OpenStream(o) \/ PickNone(o) \/ Saturated(o) \/ KickMaintainer(o)
               \/ Recheck(o) \/ DialDedicatedErr(o) \/ SendOpen(o) \/ ReplyOk(o)
        PROVE  S' = S /\ streams'[t] = streams[t]
    BY <1>7 DEF OpenStream, PickNone, Saturated, KickMaintainer, Recheck, DialDedicatedErr,
       SendOpen, ReplyOk, tunVars
  <1>8. ASSUME NEW o \in Openers,
               \/ DedicatedErr(o) \/ RetryErr(o) \/ ReturnErr(o)
               \/ \E u \in Tunnels : PickSome(o, u)
        PROVE  S' = S /\ streams'[t] = streams[t]
    BY <1>8, PoolAssumption DEF DedicatedErr, RetryErr, ReturnErr, PickSome, Release, tunVars
  <1>9. \/ \E o \in Openers : \/ Register(o) \/ SendOpenFails(o) \/ ReplyErr(o)
                              \/ DropStream(o)
        \/ \E u \in Tunnels : DialOk(u)
        \/ \E o \in Openers, u \in Tunnels : DialDedicatedOk(o, u)
        \/ \E o \in Openers :
             \/ OpenStream(o) \/ PickNone(o) \/ Saturated(o) \/ KickMaintainer(o)
             \/ Recheck(o) \/ DialDedicatedErr(o) \/ SendOpen(o) \/ ReplyOk(o)
        \/ \E o \in Openers : \/ DedicatedErr(o) \/ RetryErr(o) \/ ReturnErr(o)
                              \/ \E u \in Tunnels : PickSome(o, u)
        \/ UNCHANGED <<streams, openVars>>
    BY DEF Next, Maintain, DialTask, Death, Opening, vars, tunVars, Sweep, Upkeep, Recount,
       LoadDialing, MaintTimer, MaintDied, SpawnDial, DialErr, PushTunnel, DropGuard,
       CarrierFails, MarkDeadSwap, MarkDeadFinish
  <1> QED BY <1>1, <1>2, <1>3, <1>4, <1>5, <1>6, <1>7, <1>8, <1>9

-----------------------------------------------------------------------------

\* Initially nothing is dialed, pooled or held.
LEMMA CountsInit == Init => Counts
  <1> SUFFICES ASSUME Init PROVE Counts
    OBVIOUS
  <1>1. Tasks = {} /\ PoolOrDialed = {}
    BY DEF Init, Tasks, PoolOrDialed, LivePool
  <1>2. \A t \in Tunnels : {o \in Openers : HoldsSlot(o, t)} = {}
    BY DEF Init, HoldsSlot
  <1>3. mpc # "load"
    BY DEF Init
  <1> QED
    BY <1>1, <1>2, <1>3, FS_EmptySet, PoolAssumption
    DEF Init, Counts, DialCount, SlotAccounting, PoolBound

\* The counters keep matching the sets they count, and the pool its bound.
LEMMA CountsStep == Shape /\ Shape' /\ Counts /\ [Next]_vars => Counts'
  <1> SUFFICES ASSUME Shape, Shape', Counts, [Next]_vars PROVE Counts'
    OBVIOUS
  <1>f. WideTypes /\ WideTypes'
    BY DEF Shape
  <1>1. DialCount'
    <2>1. IsFiniteSet(Tasks) /\ Cardinality(Tasks) \in Nat /\ dialing = Cardinality(Tasks)
      BY <1>f, FiniteCounts DEF Counts, DialCount
    <2>2. dialing' = Cardinality(Tasks')
      BY <2>1, TasksChange, FS_AddElement, FS_RemoveElement
    <2> QED BY <2>2 DEF DialCount
  <1>2. SlotAccounting'
    <2> SUFFICES ASSUME NEW t \in Tunnels
                 PROVE  (streams[t] = Cardinality({o \in Openers : HoldsSlot(o, t)}))'
      BY DEF SlotAccounting
    <2> DEFINE S == {o \in Openers : HoldsSlot(o, t)}
    <2>1. streams[t] = Cardinality(S) /\ IsFiniteSet(S) /\ Cardinality(S) \in Nat
      BY <1>f, FiniteCounts DEF Counts, SlotAccounting
    <2>2. \/ \E o \in Openers : o \notin S /\ S' = S \cup {o} /\ streams'[t] = streams[t] + 1
          \/ \E o \in Openers : o \in S /\ S' = S \ {o} /\ streams'[t] = streams[t] - 1
          \/ S' = {} /\ streams'[t] = 0
          \/ S' = S /\ streams'[t] = streams[t]
      BY SlotsChange
    <2> HIDE DEF S
    <2>3. streams'[t] = Cardinality(S')
      BY <2>1, <2>2, FS_AddElement, FS_RemoveElement, FS_EmptySet
    <2> QED BY <2>3 DEF S
  <1>3. PoolBound'
    <2>s. Tasks' \in SUBSET Tunnels /\ PoolOrDialed' \in SUBSET Tunnels
      BY <1>f DEF WideTypes, Tasks, LivePool, PoolOrDialed
    <2>t. /\ dialing \in Nat /\ dialing' \in Nat /\ short \in Nat /\ live \in Nat
          /\ Cardinality(PoolOrDialed) \in Nat /\ Cardinality(PoolOrDialed') \in Nat
          /\ IsFiniteSet(PoolOrDialed) /\ IsFiniteSet(PoolOrDialed')
          /\ PoolSize \in Nat
      BY <1>1, <1>f, <2>s, FiniteCounts, PoolAssumption, FS_Subset, FS_CardinalityType
      DEF Counts, DialCount, WideTypes
    <2>1. ASSUME NEW t \in Tunnels, SpawnDial(t)
          PROVE  PoolBound'
      <3>1. dialing' = dialing + 1 /\ short' = short - 1 /\ mpc' # "load"
        BY <2>1, <2>t DEF SpawnDial
      <3>2. Cardinality(PoolOrDialed') =< Cardinality(PoolOrDialed) + 1
        BY <2>t, PoolChange, FS_AddElement, FS_Subset
      <3> QED BY <2>t, <3>1, <3>2 DEF Counts, PoolBound
    <2>2. ASSUME ~ \E t \in Tunnels : SpawnDial(t)
          PROVE  /\ Cardinality(PoolOrDialed') =< Cardinality(PoolOrDialed)
                 /\ dialing' =< dialing
      <3>1. PoolOrDialed' \subseteq PoolOrDialed
        BY <2>2, PoolChange
      <3>2. dialing' =< dialing
        BY <2>2, <2>t DEF Next, Maintain, DialTask, Death, Opening, vars, Sweep, Upkeep,
           Recount, LoadDialing, MaintTimer, MaintDied, DialOk, DialErr, PushTunnel,
           DropGuard, CarrierFails, MarkDeadSwap, MarkDeadFinish, OpenStream, PickNone,
           Saturated, KickMaintainer, Recheck, DialDedicatedErr, Register, SendOpen,
           SendOpenFails, ReplyOk, ReplyErr, DedicatedErr, RetryErr, ReturnErr,
           DropStream, PickSome, DialDedicatedOk
      <3> QED BY <3>1, <3>2, <2>t, FS_Subset
    <2>3. CASE LoadDialing
      <3>1. /\ short = 0 /\ mpc = "load" /\ mpc' # "load"
            /\ short' = Minus(PoolSize, live + dialing)
            /\ dialing' = dialing
        BY <2>3 DEF LoadDialing, Shape, RoundInv
      <3>2. ~ \E t \in Tunnels : SpawnDial(t)
        BY <3>1 DEF SpawnDial
      <3> QED BY <2>t, <2>2, <3>1, <3>2 DEF Counts, PoolBound, Minus
    <2>4. CASE Recount
      <3>1. /\ mpc = "recount" /\ short' = short /\ dialing' = dialing
            /\ live' = Cardinality(LivePool)
        BY <2>4 DEF Recount
      <3>2. ~ \E t \in Tunnels : SpawnDial(t)
        BY <3>1 DEF SpawnDial
      <3>3. Cardinality(PoolOrDialed) =< Cardinality(LivePool) + dialing
        <4>1. /\ IsFiniteSet(LivePool) /\ Cardinality(LivePool) \in Nat
              /\ IsFiniteSet(Tasks) /\ Cardinality(Tasks) = dialing
          BY <1>f, FiniteCounts DEF Counts, DialCount
        <4>2. Cardinality(LivePool \cap Tasks) \in Nat
          BY <4>1, FS_Intersection, FS_CardinalityType
        <4>3. Cardinality(LivePool \cup Tasks)
                = Cardinality(LivePool) + Cardinality(Tasks) - Cardinality(LivePool \cap Tasks)
          BY <4>1, FS_Union
        <4> QED BY <2>t, <4>1, <4>2, <4>3 DEF PoolOrDialed
      <3>4. Cardinality(LivePool) \in Nat
        BY <1>f, FiniteCounts
      <3> QED BY <2>t, <2>2, <3>1, <3>2, <3>3, <3>4 DEF Counts, PoolBound
    <2>5. CASE /\ short' = short /\ live' = live /\ (mpc' = "load" => mpc = "load")
               /\ ~ \E t \in Tunnels : SpawnDial(t)
      <3>1. Cardinality(PoolOrDialed') =< Cardinality(PoolOrDialed) /\ dialing' =< dialing
        BY <2>2, <2>5
      <3>2. dialing' + short' =< PoolSize
        <4>1. /\ dialing + short =< PoolSize
              /\ dialing \in Nat /\ dialing' \in Nat /\ short \in Nat /\ PoolSize \in Nat
          BY <2>t DEF Counts, PoolBound
        <4>2. short' = short /\ dialing' =< dialing
          BY <2>5, <3>1
        <4> QED BY <4>1, <4>2, SumBound
      <3>3. Cardinality(PoolOrDialed') + short' =< 2 * PoolSize
        BY <2>t, <2>5, <3>1 DEF Counts, PoolBound
      <3>4. mpc' = "load" => Cardinality(PoolOrDialed') =< live' + PoolSize
        <4>1. mpc = "load" => Cardinality(PoolOrDialed) =< live + PoolSize
          BY DEF Counts, PoolBound
        <4>2. (mpc' = "load" => mpc = "load") /\ live' = live
          BY <2>5
        <4> QED BY <2>t, <3>1, <4>1, <4>2
      <3> QED BY <3>2, <3>3, <3>4 DEF PoolBound
    <2> QED BY <2>1, <2>3, <2>4, <2>5, RoundChange
  <1> QED BY <1>1, <1>2, <1>3 DEF Counts

\* The inductive invariant holds throughout.
THEOREM PoolInvariant == Spec => [](Shape /\ Counts)
  <1>1. Init => Shape /\ Counts
    BY ShapeInit, CountsInit
  <1>2. (Shape /\ Counts) /\ [Next]_vars => (Shape /\ Counts)'
    BY ShapeStep, CountsStep
  <1> QED BY <1>1, <1>2, PTL DEF Spec

\* Type correctness: no unsigned counter of the pool is ever decremented at zero.
THEOREM PoolTypeOK == Spec => []TypeOK
  <1>1. Shape /\ Counts => TypeOK
    <2> SUFFICES ASSUME Shape, Counts PROVE TypeOK
      OBVIOUS
    <2>1. dialing \in Nat
      BY FiniteCounts DEF Shape, Counts, DialCount
    <2>2. \A t \in Tunnels : streams[t] \in Nat
      BY FiniteCounts DEF Shape, Counts, SlotAccounting
    <2>3. streams \in [Tunnels -> Nat]
      BY <2>2 DEF Shape, WideTypes
    <2> QED BY <2>1, <2>3 DEF Shape, WideTypes, TypeOK
  <1> QED BY <1>1, PoolInvariant, PTL

\* The maintainer can overshoot pool_size, but never past twice its value.
THEOREM PoolAtMostDouble == Spec => []AtMostDouble
  <1>1. Shape /\ Counts => AtMostDouble
    <2> SUFFICES ASSUME Shape, Counts PROVE AtMostDouble
      OBVIOUS
    <2>1. Cardinality(PoolOrDialed) \in Nat /\ short \in Nat
      BY FiniteCounts DEF Shape, WideTypes
    <2> QED BY <2>1, PoolAssumption DEF Counts, PoolBound, AtMostDouble, PoolOrDialed
  <1> QED BY <1>1, PoolInvariant, PTL

\* The load counters that drive pick are exact.
THEOREM PoolSlotAccounting == Spec => []SlotAccounting
  <1>1. Shape /\ Counts => SlotAccounting
    BY DEF Counts
  <1> QED BY <1>1, PoolInvariant, PTL

\* No live tunnel is ever out of reach of whoever must close it.
THEOREM PoolNoOrphan == Spec => []NoOrphanTunnel
  <1>1. Shape /\ Counts => NoOrphanTunnel
    BY DEF Shape
  <1> QED BY <1>1, PoolInvariant, PTL

\* No step removes a live tunnel from the pool.
THEOREM PoolKeepsLive == Spec => LiveTunnelNeverDropped
  <1>1. Shape /\ [Next]_vars => [\A t \in vec \ vec' : ~alive[t]]_vars
    BY DEF Next, Maintain, DialTask, Death, Opening, vars, Sweep, Upkeep, Recount,
       LoadDialing, MaintTimer, MaintDied, SpawnDial, DialOk, DialErr, PushTunnel,
       DropGuard, CarrierFails, MarkDeadSwap, MarkDeadFinish, OpenStream, PickNone,
       Saturated, KickMaintainer, Recheck, DialDedicatedErr, Register, SendOpen,
       SendOpenFails, ReplyOk, ReplyErr, DedicatedErr, RetryErr, ReturnErr,
       DropStream, PickSome, DialDedicatedOk, LivePool
  <1> QED BY <1>1, PoolInvariant, PTL DEF Spec, LiveTunnelNeverDropped
=============================================================================
