---------------------------- MODULE ServeProofs ----------------------------
(***************************************************************************)
(* Proofs about Serve for every finite set of connections, every limit and *)
(* every session id base: all of its safety properties.                    *)
(*                                                                         *)
(* The gauges are tied to the sets they count (Gauges).  A burst past the  *)
(* gates is paid for while it is in flight (Bursts), on the client by the  *)
(* loop it occupies (ClientBurst); ids given so far lie below the counter  *)
(* (Ids); after the drain only what was in flight can go on (Draining).    *)
(***************************************************************************)
EXTENDS Serve, FiniteSetTheorems, TLAPS

\* How many connections are in a state of S.
Num(f, S) == Cardinality({c \in All : f[c] \in S})

\* Whether loop l exists and is at one of the points S.
At(l, S) == IF l \in Loops /\ loop[l] \in S THEN 1 ELSE 0
LoopsAt(S) == At("main", S) + At("bond", S)

Points == {"top", "select", "gate", "admit", "backoff", "off"}

\* TypeOK without the gauges.
Types ==
    /\ side \in Sides
    /\ flag \in BOOLEAN
    /\ loop \in [Loops -> Points]
    /\ proc \in {"serving", "draining", "drained", "timedout", "dropping", "exited"}
    /\ conn \in [All -> States]
    /\ port \in [All -> Loops]
    /\ counter \in Nat /\ base \in Bases /\ sid \in [All -> Nat]
    /\ chan \in {"none", "incoming", "serving"}
    /\ peak \in Nat /\ burst \in Nat /\ late \in Nat
    /\ verdict \subseteq All

\* Sessions whose unit of `active` was not given back.
Owning == Holding \cup {"leaked"}

Gauges ==
    /\ active = Num(conn, Owning)
    /\ handshaking = Num(conn, {"handshaking"})

\* The signal handler's connection exists from the signal on.
WakeIdle == ~flag => conn[Wake] = "idle"

ServerOnly == {"gating", "spawned", "handshaking", "shaken", "link_shaken", "counted",
               "link_counted", "tunnel", "registering", "linked"}

\* A client's connections never enter the server's states.
Roles == side = "client" => \A c \in All : conn[c] \notin ServerOnly

\* A burst in flight is paid for by its peak.
Bursts ==
    side = "server" =>
        /\ active + Num(conn, InFlight) <= MaxConnections - 1 + peak
        /\ handshaking + Num(conn, Unstarted) <= MaxHandshakes - 1 + burst

\* On the client a connection past the gate occupies its loop.
ClientBurst ==
    side = "client" => active + LoopsAt({"admit"}) <= MaxConnections - 1 + Cardinality(Loops)

\* After the flag a loop that admitted does not come back to select.
Latecomers ==
    /\ ~flag => late = 0
    /\ late + LoopsAt({"select", "gate", "admit"}) <= Cardinality(Loops)

\* Ids given so far are below base + counter, but for the replaced zero.
Ids ==
    /\ \A c \in All : sid[c] # 0 =>
         \/ sid[c] < base + counter
         \/ base = 0 /\ sid[c] = 1 /\ counter = 1
    /\ SessionIdsDistinct

\* Draining starts when the main loop is over; nobody else can be cut later.
Draining ==
    /\ proc # "serving" => loop["main"] = "off"
    /\ proc = "drained" =>
         \A c \in All : conn[c] \in InFlight \cup Holding => c \in verdict \/ port[c] = "bond"

----------------------------------------------------------------------------
(* Counting *)

One(s, S) == IF s \in S THEN 1 ELSE 0

\* From f to g one connection goes from state old to state new.
Shift(f, g, S, old, new) ==
    /\ Num(f, S) \in Nat /\ Num(g, S) \in Nat
    /\ Num(g, S) = Num(f, S) + One(new, S) - One(old, S)

\* A connection that changes state moves between the sets it is counted in.
LEMMA NumMove ==
    ASSUME NEW f \in [All -> States], NEW c \in All, NEW s \in States, NEW S,
           NEW g, g = [f EXCEPT ![c] = s]
    PROVE  Shift(f, g, S, f[c], s)
  <1> DEFINE F == {d \in All : f[d] \in S}
             G == {d \in All : g[d] \in S}
  <1>1. IsFiniteSet(All)
    BY ServeAssumption, FS_AddElement DEF All
  <1>2. IsFiniteSet(F) /\ IsFiniteSet(G) /\ Cardinality(F) \in Nat /\ Cardinality(G) \in Nat
    BY <1>1, FS_Subset, FS_CardinalityType
  <1>3. G = IF s \in S THEN F \cup {c} ELSE F \ {c}
    OBVIOUS
  <1>4. c \in F <=> f[c] \in S
    OBVIOUS
  <1> HIDE DEF F, G
  <1>5. Cardinality(G) = Cardinality(F) + One(s, S) - One(f[c], S)
    <2>1. CASE s \in S
      BY <2>1, <1>2, <1>3, <1>4, FS_AddElement DEF One
    <2>2. CASE s \notin S
      BY <2>2, <1>2, <1>3, <1>4, FS_RemoveElement DEF One
    <2> QED BY <2>1, <2>2
  <1> QED BY <1>2, <1>5 DEF Num, Shift, F, G

\* A set of states counts a number of connections.
LEMMA NumType ==
    ASSUME NEW f, NEW S
    PROVE  /\ Num(f, S) \in Nat
           /\ Num(f, S) = 0 => \A c \in All : f[c] \notin S
           /\ (\A c \in All : f[c] \notin S) => Num(f, S) = 0
  <1> DEFINE F == {d \in All : f[d] \in S}
  <1>1. IsFiniteSet(All)
    BY ServeAssumption, FS_AddElement DEF All
  <1>2. IsFiniteSet(F) /\ Cardinality(F) \in Nat
    BY <1>1, FS_Subset, FS_CardinalityType
  <1>3. Cardinality(F) = 0 <=> F = {}
    BY <1>2, FS_EmptySet
  <1> QED BY <1>2, <1>3 DEF Num

\* The number of accept loops of each role.
LEMMA LoopCount ==
    Types => Cardinality(Loops) = (IF side = "server" THEN 1 ELSE 2)
  <1>1. Cardinality({"main"}) = 1 /\ IsFiniteSet({"main"})
    BY FS_Singleton
  <1>2. Cardinality({"main"} \cup {"bond"}) = 2
    BY <1>1, FS_AddElement
  <1>3. {"main", "bond"} = {"main"} \cup {"bond"}
    OBVIOUS
  <1> QED BY <1>1, <1>2, <1>3 DEF Loops

\* What Move does to every count the invariant uses.
LEMMA MoveCounts ==
    ASSUME Types, NEW c \in All, NEW s \in States, Move(c, s)
    PROVE  /\ conn' = [conn EXCEPT ![c] = s]
           /\ Shift(conn, conn', Owning, conn[c], s)
           /\ Shift(conn, conn', InFlight, conn[c], s)
           /\ Shift(conn, conn', Unstarted, conn[c], s)
           /\ Shift(conn, conn', {"handshaking"}, conn[c], s)
           /\ peak' \in Nat /\ peak' >= peak /\ peak' >= Num(conn', InFlight)
           /\ burst' \in Nat /\ burst' >= burst /\ burst' >= Num(conn', Unstarted)
  <1>1. conn' = [conn EXCEPT ![c] = s]
    BY DEF Move
  <1>2. conn \in [All -> States] /\ peak \in Nat /\ burst \in Nat
    BY DEF Types
  <1>3. /\ Shift(conn, conn', Owning, conn[c], s)
        /\ Shift(conn, conn', InFlight, conn[c], s)
        /\ Shift(conn, conn', Unstarted, conn[c], s)
        /\ Shift(conn, conn', {"handshaking"}, conn[c], s)
    BY <1>1, <1>2, NumMove
  <1>4. peak' = Larger(peak, Num(conn', InFlight)) /\ burst' = Larger(burst, Num(conn', Unstarted))
    BY <1>1 DEF Move, Num
  <1>5. Num(conn', InFlight) \in Nat /\ Num(conn', Unstarted) \in Nat
    BY NumType
  <1> QED BY <1>1, <1>2, <1>3, <1>4, <1>5 DEF Larger

\* Fewer connections in a state, a smaller count.
LEMMA NumLess ==
    ASSUME NEW f, NEW g, NEW S, \A c \in All : g[c] \in S => f[c] \in S
    PROVE  Num(g, S) <= Num(f, S)
  <1>1. IsFiniteSet(All)
    BY ServeAssumption, FS_AddElement DEF All
  <1>2. IsFiniteSet({c \in All : f[c] \in S})
    BY <1>1, FS_Subset
  <1>3. {c \in All : g[c] \in S} \in SUBSET {c \in All : f[c] \in S}
    OBVIOUS
  <1> QED BY <1>2, <1>3, FS_Subset DEF Num

\* The failed conversions are among the sessions counted.
LEMMA LeakedLess ==
    Gauges => Cardinality(In({"leaked"})) \in Nat /\ Cardinality(In({"leaked"})) <= active
  <1> SUFFICES ASSUME Gauges
               PROVE  Cardinality(In({"leaked"})) \in Nat /\ Cardinality(In({"leaked"})) <= active
    OBVIOUS
  <1>1. IsFiniteSet(All)
    BY ServeAssumption, FS_AddElement DEF All
  <1>2. IsFiniteSet({c \in All : conn[c] \in Owning})
    BY <1>1, FS_Subset
  <1>3. In({"leaked"}) \in SUBSET {c \in All : conn[c] \in Owning}
    BY DEF In, Owning
  <1>4. IsFiniteSet(In({"leaked"})) /\ Cardinality(In({"leaked"})) <= Cardinality({c \in All : conn[c] \in Owning})
    BY <1>2, <1>3, FS_Subset
  <1> QED BY <1>4, FS_CardinalityType DEF Gauges, Num

\* A process keeps its role.
LEMMA SideFixed == [Next]_vars => side' = side
  <1>1. ASSUME NEW c \in Conns, Arrive(c) PROVE side' = side
    BY <1>1 DEF Arrive
  <1>2. ASSUME NEW l \in Loops, LoopStep(l) PROVE side' = side
    BY <1>2 DEF LoopStep, LoopTop, Gate, GateHandshakes, Admit, AcceptError, Poll, BondIncoming, BondListenerFails
  <1>3. ASSUME NEW c \in All, SessionStep(c) PROVE side' = side
    BY <1>3 DEF SessionStep, StartHandshake, SpawnFails, HandshakeOk, HandshakeFails, Count,
                Convert, ConvertFails, SessionEnds, RegisterLink, Negotiated, Opened
  <1>4. CASE Signal \/ ChannelEnds \/ StartDrain \/ DrainDone \/ DrainTimeout \/ DropRuntime \/ Exit
    BY <1>4 DEF Signal, ChannelEnds, StartDrain, DrainDone, DrainTimeout, DropRuntime, Exit
  <1>5. CASE UNCHANGED vars
    BY <1>5 DEF vars
  <1> QED BY <1>1, <1>2, <1>3, <1>4, <1>5 DEF Next

----------------------------------------------------------------------------
(* Types *)

\* The initial state is well typed.
LEMMA TypesInit == Init => Types
  <1> SUFFICES ASSUME Init PROVE Types
    OBVIOUS
  <1>1. flag \in BOOLEAN
    BY Zenon DEF Init
  <1> QED BY <1>1, ServeAssumption DEF Init, Types, Points, States, Loops, All

\* Every step keeps the types.
LEMMA TypesStep == Types /\ [Next]_vars => Types'
  <1> SUFFICES ASSUME Types, [Next]_vars PROVE Types'
    OBVIOUS
  <1> USE ServeAssumption DEF Types, Points, States, InFlight, Holding, Over, peaks, hist, ids
  <1>a. Wake \in All /\ Conns \subseteq All
    BY DEF All
  <1>b. ASSUME NEW c \in All, NEW s \in States, Move(c, s)
        PROVE  conn' \in [All -> States] /\ peak' \in Nat /\ burst' \in Nat
    BY <1>b, MoveCounts
  <1>1. ASSUME NEW c \in Conns, Arrive(c) PROVE Types'
    BY <1>1, <1>a, <1>b DEF Arrive, Loops
  <1>2. CASE Signal
    BY <1>2, <1>a, <1>b DEF Signal, Loops
  <1>3. ASSUME NEW l \in Loops, LoopTop(l) \/ AcceptError(l) \/ Poll(l) \/ BondIncoming(l) \/ BondListenerFails(l)
        PROVE  Types'
    BY <1>3 DEF LoopTop, AcceptError, Poll, BondIncoming, BondListenerFails, GoTo, Loops
  <1>4. ASSUME NEW l \in Loops, NEW c \in All, Gate(l, c) \/ GateHandshakes(l, c) PROVE Types'
    BY <1>4, <1>b DEF Gate, GateHandshakes, GoTo, Loops
  <1>5. ASSUME NEW l \in Loops, NEW c \in All, Admit(l, c) PROVE Types'
    <2>1. SessionId \in Nat
      BY DEF SessionId
    <2> QED BY <1>5, <1>b, <2>1 DEF Admit, GoTo, Loops
  <1>6. ASSUME NEW c \in All, SessionStep(c) PROVE Types'
    <2>1. CASE StartHandshake(c) \/ SpawnFails(c) \/ HandshakeFails(c)
      BY <2>1, <1>b DEF StartHandshake, SpawnFails, HandshakeFails, Loops
    <2>2. CASE HandshakeOk(c)
      BY <2>2, <1>b DEF HandshakeOk, Loops
    <2>3. CASE Count(c) \/ Convert(c) \/ ConvertFails(c)
      BY <2>3, <1>b DEF Count, Convert, ConvertFails, Loops
    <2>4. CASE SessionEnds(c) \/ Negotiated(c) \/ Opened(c)
      BY <2>4, <1>b DEF SessionEnds, Negotiated, Opened, Loops
    <2>5. CASE RegisterLink(c)
      BY <2>5, <1>b DEF RegisterLink, Loops
    <2> QED BY <1>6, <2>1, <2>2, <2>3, <2>4, <2>5 DEF SessionStep
  <1>7. CASE ChannelEnds
    BY <1>7 DEF ChannelEnds, Loops
  <1>8. CASE StartDrain \/ DrainTimeout \/ Exit
    BY <1>8 DEF StartDrain, DrainTimeout, Exit, Loops
  <1>9. CASE DrainDone
    BY <1>9 DEF DrainDone, In, Loops
  <1>10. CASE DropRuntime
    BY <1>10 DEF DropRuntime, Loops
  <1>11. CASE UNCHANGED vars
    BY <1>11 DEF vars, Loops
  <1> QED BY <1>1, <1>2, <1>3, <1>4, <1>5, <1>6, <1>7, <1>8, <1>9, <1>10, <1>11 DEF Next, LoopStep

----------------------------------------------------------------------------
(* Gauges *)

\* No connection, no count.
LEMMA GaugesInit == Init => Gauges
  <1> SUFFICES ASSUME Init PROVE Gauges
    OBVIOUS
  <1>1. Num(conn, Owning) = 0 /\ Num(conn, {"handshaking"}) = 0
    BY NumType DEF Init, Owning, Holding
  <1> QED BY <1>1 DEF Init, Gauges

\* Every step that moves a connection into or out of a counted state changes
\* the gauge by as much; a failed conversion keeps its connection counted.
LEMMA GaugesStep == Types /\ WakeIdle /\ Gauges /\ [Next]_vars => Gauges'
  <1> SUFFICES ASSUME Types, WakeIdle, Gauges, [Next]_vars PROVE Gauges'
    OBVIOUS
  <1> USE DEF Gauges, peaks, hist, ids
  <1>a. Wake \in All /\ Conns \subseteq All
    BY DEF All, Types
  <1>b. ASSUME NEW c \in All, NEW s \in States, Move(c, s)
        PROVE  /\ Shift(conn, conn', Owning, conn[c], s)
               /\ Shift(conn, conn', {"handshaking"}, conn[c], s)
    BY <1>b, MoveCounts
  <1>c. Num(conn, Owning) \in Nat /\ Num(conn, {"handshaking"}) \in Nat
    BY NumType
  <1> USE DEF Shift, One, States, Owning, Holding, InFlight, Over
  <1>1. ASSUME NEW c \in Conns, Arrive(c) PROVE Gauges'
    BY <1>1, <1>a, <1>b DEF Arrive
  <1>2. CASE Signal
    BY <1>2, <1>a, <1>b DEF Signal, WakeIdle
  <1>3. ASSUME NEW l \in Loops, LoopTop(l) \/ AcceptError(l) \/ Poll(l) \/ BondIncoming(l) \/ BondListenerFails(l)
        PROVE  Gauges'
    BY <1>3 DEF LoopTop, AcceptError, Poll, BondIncoming, BondListenerFails
  <1>4. ASSUME NEW l \in Loops, NEW c \in All, Gate(l, c) \/ GateHandshakes(l, c) PROVE Gauges'
    BY <1>4, <1>a, <1>b DEF Gate, GateHandshakes
  <1>5. ASSUME NEW l \in Loops, NEW c \in All, Admit(l, c) PROVE Gauges'
    BY <1>5, <1>a, <1>b DEF Admit
  <1>6. ASSUME NEW c \in All, SessionStep(c) PROVE Gauges'
    <2>1. CASE StartHandshake(c) \/ SpawnFails(c) \/ HandshakeFails(c)
      BY <2>1, <1>a, <1>b DEF StartHandshake, SpawnFails, HandshakeFails
    <2>2. CASE HandshakeOk(c)
      BY <2>2, <1>a, <1>b DEF HandshakeOk
    <2>3. CASE Count(c) \/ Convert(c) \/ ConvertFails(c)
      BY <2>3, <1>a, <1>b DEF Count, Convert, ConvertFails
    <2>4. CASE SessionEnds(c) \/ Negotiated(c) \/ Opened(c)
      BY <2>4, <1>a, <1>b DEF SessionEnds, Released, Negotiated, Opened
    <2>5. CASE RegisterLink(c)
      BY <2>5, <1>a, <1>b DEF RegisterLink
    <2> QED BY <1>6, <2>1, <2>2, <2>3, <2>4, <2>5 DEF SessionStep
  <1>7. CASE ChannelEnds
    <2> DEFINE H == {c \in All : conn[c] \in Owning}
               L == In({"linked"})
    <2>1. IsFiniteSet(All)
      BY ServeAssumption, FS_AddElement DEF All
    <2>2. IsFiniteSet(H) /\ L = H \cap L
      BY <2>1, FS_Subset DEF In
    <2>3. {c \in All : conn'[c] \in Owning} = H \ L
      BY <1>7 DEF ChannelEnds, In
    <2>4. {c \in All : conn'[c] \in {"handshaking"}} = {c \in All : conn[c] \in {"handshaking"}}
      BY <1>7 DEF ChannelEnds
    <2> HIDE DEF H, L
    <2>5. Cardinality(H \ L) = Cardinality(H) - Cardinality(L)
      BY <2>2, FS_Difference
    <2>6. active' = active - Cardinality(L) /\ handshaking' = handshaking
      BY <1>7 DEF ChannelEnds, L
    <2>7. IsFiniteSet(L) /\ Cardinality(L) \in Nat /\ Cardinality(H) \in Nat
      BY <2>2, FS_Subset, FS_CardinalityType
    <2>8. Num(conn', Owning) = Num(conn, Owning) - Cardinality(L)
      BY <2>3, <2>5 DEF Num, H
    <2>9. Num(conn', {"handshaking"}) = Num(conn, {"handshaking"})
      BY <2>4 DEF Num
    <2> HIDE DEF Owning, Holding
    <2> QED BY <2>6, <2>7, <2>8, <2>9, <1>a, <1>c
  <1>8. CASE StartDrain \/ DrainTimeout \/ Exit
    BY <1>8 DEF StartDrain, DrainTimeout, Exit
  <1>9. CASE DrainDone
    BY <1>9 DEF DrainDone
  <1>10. CASE DropRuntime
    <2>1. {c \in All : conn'[c] \in Owning} = In({"leaked"})
      BY <1>10 DEF DropRuntime, In
    <2>2. {c \in All : conn'[c] \in {"handshaking"}} = {c \in All : conn[c] \in {"handshaking"}}
      BY <1>10 DEF DropRuntime
    <2>3. Num(conn', Owning) = Cardinality(In({"leaked"})) /\ Num(conn', {"handshaking"}) = Num(conn, {"handshaking"})
      BY <2>1, <2>2 DEF Num
    <2> QED BY <1>10, <2>3, <1>a DEF DropRuntime
  <1>11. CASE UNCHANGED vars
    BY <1>11 DEF vars
  <1> QED BY <1>1, <1>2, <1>3, <1>4, <1>5, <1>6, <1>7, <1>8, <1>9, <1>10, <1>11 DEF Next, LoopStep

----------------------------------------------------------------------------
(* Who can be where *)

\* What moves is never idle but for an arrival, and a client's connection
\* stays out of the server's states.
LEMMA PlacesStep == Types /\ WakeIdle /\ Roles /\ [Next]_vars => WakeIdle' /\ Roles'
  <1> SUFFICES ASSUME Types, WakeIdle, Roles, [Next]_vars PROVE WakeIdle' /\ Roles'
    OBVIOUS
  <1> USE ServeAssumption DEF WakeIdle, Roles, ServerOnly, Types, Move, peaks, hist, ids
  <1>a. Wake \in All /\ Conns \subseteq All
    BY DEF All
  <1>1. ASSUME NEW c \in Conns, Arrive(c) PROVE WakeIdle' /\ Roles'
    BY <1>1, <1>a DEF Arrive
  <1>2. CASE Signal
    BY <1>2, <1>a DEF Signal
  <1>3. ASSUME NEW l \in Loops, LoopTop(l) \/ AcceptError(l) \/ Poll(l) \/ BondIncoming(l) \/ BondListenerFails(l)
        PROVE  WakeIdle' /\ Roles'
    BY <1>3 DEF LoopTop, AcceptError, Poll, BondIncoming, BondListenerFails
  <1>4. ASSUME NEW l \in Loops, NEW c \in All, Gate(l, c) \/ GateHandshakes(l, c) PROVE WakeIdle' /\ Roles'
    BY <1>4, <1>a DEF Gate, GateHandshakes
  <1>5. ASSUME NEW l \in Loops, NEW c \in All, Admit(l, c) PROVE WakeIdle' /\ Roles'
    BY <1>5, <1>a DEF Admit
  <1>6. ASSUME NEW c \in All, SessionStep(c) PROVE WakeIdle' /\ Roles'
    <2>1. CASE StartHandshake(c) \/ SpawnFails(c) \/ HandshakeFails(c)
      BY <2>1, <1>a DEF StartHandshake, SpawnFails, HandshakeFails
    <2>2. CASE HandshakeOk(c)
      BY <2>2, <1>a DEF HandshakeOk
    <2>3. CASE Count(c) \/ Convert(c) \/ ConvertFails(c)
      BY <2>3, <1>a DEF Count, Convert, ConvertFails
    <2>4. CASE SessionEnds(c) \/ Negotiated(c) \/ Opened(c)
      BY <2>4, <1>a DEF SessionEnds, Negotiated, Opened
    <2>5. CASE RegisterLink(c)
      BY <2>5, <1>a DEF RegisterLink
    <2> QED BY <1>6, <2>1, <2>2, <2>3, <2>4, <2>5 DEF SessionStep
  <1>7. CASE ChannelEnds
    BY <1>7, <1>a DEF ChannelEnds
  <1>8. CASE StartDrain \/ DrainTimeout \/ Exit \/ DrainDone
    BY <1>8 DEF StartDrain, DrainTimeout, Exit, DrainDone
  <1>9. CASE DropRuntime
    BY <1>9, <1>a DEF DropRuntime, Over
  <1>10. CASE UNCHANGED vars
    BY <1>10 DEF vars
  <1> QED BY <1>1, <1>2, <1>3, <1>4, <1>5, <1>6, <1>7, <1>8, <1>9, <1>10 DEF Next, LoopStep

----------------------------------------------------------------------------
(* Bounds *)

\* A gate lets a connection in only below the limit, and from then on the
\* connection is counted on one side of the sum.
LEMMA BurstsStep ==
    Types /\ WakeIdle /\ Gauges /\ Bursts /\ [Next]_vars => Bursts'
  <1> SUFFICES ASSUME Types, WakeIdle, Gauges, Bursts, [Next]_vars PROVE Bursts'
    OBVIOUS
  <1> USE DEF Bursts, peaks, hist, ids
  <1>a. /\ Wake \in All /\ Conns \subseteq All /\ peak \in Nat /\ burst \in Nat
        /\ MaxConnections \in Nat \ {0} /\ MaxHandshakes \in Nat \ {0}
    BY ServeAssumption DEF All, Types
  <1>b. ASSUME NEW c \in All, NEW s \in States, Move(c, s)
        PROVE  /\ Shift(conn, conn', InFlight, conn[c], s)
               /\ Shift(conn, conn', Unstarted, conn[c], s)
               /\ peak' \in Nat /\ peak' >= peak /\ peak' >= Num(conn', InFlight)
               /\ burst' \in Nat /\ burst' >= burst /\ burst' >= Num(conn', Unstarted)
    BY <1>b, MoveCounts
  <1>c. /\ Num(conn, Owning) \in Nat /\ Num(conn, {"handshaking"}) \in Nat
        /\ Num(conn, InFlight) \in Nat /\ Num(conn, Unstarted) \in Nat
    BY NumType
  <1>d. active \in Nat /\ handshaking \in Nat
    BY <1>a, <1>c DEF Gauges
  <1>e. ASSUME \A c \in All : conn'[c] \in InFlight => conn'[c] = conn[c],
               active' <= active, active' \in Nat, handshaking' = handshaking, UNCHANGED peaks,
               side' = side
        PROVE  Bursts'
    <2>1. Num(conn', InFlight) <= Num(conn, InFlight) /\ Num(conn', Unstarted) <= Num(conn, Unstarted)
      BY <1>e, NumLess DEF InFlight, Unstarted
    <2>2. Num(conn', InFlight) \in Nat /\ Num(conn', Unstarted) \in Nat
      BY NumType
    <2> QED BY <1>e, <1>a, <1>c, <1>d, <2>1, <2>2
  <1> USE DEF Shift, One, States, Holding, InFlight, Unstarted, Over
  <1>1. ASSUME NEW c \in Conns, Arrive(c) PROVE Bursts'
    BY <1>1, <1>a, <1>b, <1>d DEF Arrive
  <1>2. CASE Signal
    BY <1>2, <1>a, <1>b, <1>d DEF Signal, WakeIdle
  <1>3. ASSUME NEW l \in Loops, LoopTop(l) \/ AcceptError(l) \/ Poll(l) \/ BondIncoming(l) \/ BondListenerFails(l)
        PROVE  Bursts'
    BY <1>3 DEF LoopTop, AcceptError, Poll, BondIncoming, BondListenerFails
  <1>4. ASSUME NEW l \in Loops, NEW c \in All, Gate(l, c) \/ GateHandshakes(l, c) PROVE Bursts'
    BY <1>4, <1>a, <1>b, <1>d DEF Gate, GateHandshakes, HandshakesFree
  <1>5. ASSUME NEW l \in Loops, NEW c \in All, Admit(l, c) PROVE Bursts'
    BY <1>5, <1>a, <1>b, <1>d DEF Admit
  <1>6. ASSUME NEW c \in All, SessionStep(c) PROVE Bursts'
    <2>1. CASE StartHandshake(c) \/ SpawnFails(c) \/ HandshakeFails(c)
      BY <2>1, <1>a, <1>b, <1>d DEF StartHandshake, SpawnFails, HandshakeFails
    <2>2. CASE HandshakeOk(c)
      BY <2>2, <1>a, <1>b, <1>d DEF HandshakeOk
    <2>3. CASE Count(c) \/ Convert(c) \/ ConvertFails(c)
      BY <2>3, <1>a, <1>b, <1>d DEF Count, Convert, ConvertFails
    <2>4. CASE SessionEnds(c) \/ Negotiated(c) \/ Opened(c)
      BY <2>4, <1>a, <1>b, <1>d DEF SessionEnds, Released, Negotiated, Opened
    <2>5. CASE RegisterLink(c)
      BY <2>5, <1>a, <1>b, <1>d DEF RegisterLink
    <2> QED BY <1>6, <2>1, <2>2, <2>3, <2>4, <2>5 DEF SessionStep
  <1>7. CASE ChannelEnds
    <2>1. Gauges' /\ Types'
      BY GaugesStep, TypesStep
    <2>2. active' \in Nat
      BY <2>1, NumType DEF Gauges, Types
    <2>3. Cardinality(In({"linked"})) \in Nat
      BY NumType DEF In, Num
    <2> QED BY <1>7, <1>d, <1>e, <2>2, <2>3 DEF ChannelEnds
  <1>8. CASE StartDrain \/ DrainTimeout \/ Exit \/ DrainDone
    BY <1>8 DEF StartDrain, DrainTimeout, Exit, DrainDone
  <1>9. CASE DropRuntime
    BY <1>9, <1>a, <1>d, <1>e, LeakedLess DEF DropRuntime
  <1>10. CASE UNCHANGED vars
    BY <1>10 DEF vars
  <1> QED BY <1>1, <1>2, <1>3, <1>4, <1>5, <1>6, <1>7, <1>8, <1>9, <1>10 DEF Next, LoopStep

\* Steps that leave the loops alone and raise neither active nor late.
LEMMA QuietStep ==
    ASSUME Types, Gauges, [Next]_vars,
           ClientBurst, Latecomers,
           UNCHANGED <<loop, late>>, flag' = flag \/ flag', active' <= active, active' \in Int
    PROVE  ClientBurst' /\ Latecomers'
  <1>1. side' = side
    BY SideFixed
  <1>2. Loops' = Loops /\ Cardinality(Loops) \in {1, 2}
    BY <1>1, LoopCount DEF Loops
  <1>3. active \in Int /\ late \in Nat
    BY NumType DEF Gauges, Types
  <1>4. LoopsAt({"admit"})' = LoopsAt({"admit"}) /\ LoopsAt({"admit"}) \in Nat
    BY <1>2 DEF LoopsAt, At
  <1>5. LoopsAt({"select", "gate", "admit"})' = LoopsAt({"select", "gate", "admit"})
    BY <1>2 DEF LoopsAt, At
  <1>6. MaxConnections \in Nat
    BY ServeAssumption
  <1> QED BY <1>1, <1>2, <1>3, <1>4, <1>5, <1>6 DEF ClientBurst, Latecomers

\* A client admits from the loop that its connection occupied, and after the
\* flag no loop comes back to select.
LEMMA LoopBoundsStep ==
    Types /\ Gauges /\ WakeIdle /\ Roles /\ ClientBurst /\ Latecomers /\ [Next]_vars
        => ClientBurst' /\ Latecomers'
  <1> SUFFICES ASSUME Types, Gauges, WakeIdle, Roles, ClientBurst, Latecomers, [Next]_vars
               PROVE  ClientBurst' /\ Latecomers'
    OBVIOUS
  <1> USE DEF peaks, hist, ids
  <1>a. active \in Nat /\ late \in Nat
    BY NumType DEF Gauges, Types
  <1>b. active' \in Nat
    BY GaugesStep, TypesStep, NumType DEF Gauges, Types
  <1>c. /\ Loops' = Loops /\ Loops = (IF side = "server" THEN {"main"} ELSE {"main", "bond"})
        /\ Cardinality(Loops) = (IF side = "server" THEN 1 ELSE 2)
        /\ MaxConnections \in Nat \ {0} /\ side \in {"server", "client"}
    BY SideFixed, LoopCount, ServeAssumption DEF Loops, Types
  <1>d. loop \in [Loops -> Points]
    BY DEF Types
  <1> USE DEF LoopsAt, At, ClientBurst, Latecomers
  <1>1. ASSUME NEW l \in Loops, NEW c \in All, Gate(l, c) \/ GateHandshakes(l, c) PROVE ClientBurst' /\ Latecomers'
    BY <1>1, <1>a, <1>c, <1>d DEF Gate, GateHandshakes, HandshakesFree, Selecting, GoTo, Roles, ServerOnly
  <1>2. ASSUME NEW l \in Loops, NEW c \in All, Admit(l, c) PROVE ClientBurst' /\ Latecomers'
    BY <1>2, <1>a, <1>c, <1>d DEF Admit, GoTo
  <1>3. ASSUME NEW l \in Loops, LoopTop(l) PROVE ClientBurst' /\ Latecomers'
    BY <1>3, <1>a, <1>c, <1>d DEF LoopTop, GoTo
  <1>4. ASSUME NEW l \in Loops, AcceptError(l) \/ Poll(l) \/ BondIncoming(l) \/ BondListenerFails(l)
        PROVE ClientBurst' /\ Latecomers'
    BY <1>4, <1>a, <1>c, <1>d
    DEF AcceptError, Poll, BondIncoming, BondListenerFails, Selecting, GoTo
  <1> HIDE DEF LoopsAt, At, ClientBurst, Latecomers
  <1>5. ASSUME NEW c \in Conns, Arrive(c) PROVE ClientBurst' /\ Latecomers'
    BY <1>5, <1>a, QuietStep DEF Arrive
  <1>6. CASE Signal
    BY <1>6, <1>a, QuietStep DEF Signal
  <1>7. ASSUME NEW c \in All, SessionStep(c), ~Count(c) PROVE ClientBurst' /\ Latecomers'
    <2>1. UNCHANGED <<loop, late, flag>> /\ (active' = active \/ active' = active - 1)
      BY <1>7 DEF SessionStep, StartHandshake, SpawnFails, HandshakeOk, HandshakeFails,
             Convert, ConvertFails, SessionEnds, Released, RegisterLink, Negotiated, Opened
    <2> QED BY <2>1, <1>a, QuietStep
  <1>8. ASSUME NEW c \in All, Count(c) PROVE ClientBurst' /\ Latecomers'
    <2>1. side = "server"
      BY <1>8, <1>c DEF Count, Roles, ServerOnly
    <2> QED BY <1>8, <1>a, <1>c, <2>1 DEF Count, ClientBurst, Latecomers, LoopsAt, At
  <1>9. CASE ChannelEnds
    <2>1. Cardinality(In({"linked"})) \in Nat
      BY NumType DEF In, Num
    <2> QED BY <1>9, <1>a, <1>b, <2>1, QuietStep DEF ChannelEnds
  <1>10. CASE StartDrain \/ DrainTimeout \/ Exit \/ DrainDone
    BY <1>10, <1>a, QuietStep DEF StartDrain, DrainTimeout, Exit, DrainDone
  <1>11. CASE DropRuntime
    BY <1>11, <1>a, QuietStep, LeakedLess DEF DropRuntime
  <1>12. CASE UNCHANGED vars
    BY <1>12, <1>a, QuietStep DEF vars
  <1> QED
    BY <1>1, <1>2, <1>3, <1>4, <1>5, <1>6, <1>7, <1>8, <1>9, <1>10, <1>11, <1>12
    DEF Next, LoopStep

----------------------------------------------------------------------------
(* Session ids and the drain *)

\* Only Admit gives an id, and it gives the next one.
LEMMA IdsStep == Types /\ Ids /\ [Next]_vars => Ids'
  <1> SUFFICES ASSUME Types, Ids, [Next]_vars PROVE Ids'
    OBVIOUS
  <1> USE DEF ids, hist, peaks
  <1>1. ASSUME NEW l \in Loops, NEW c \in All, Admit(l, c) PROVE Ids'
    <2>1. base \in Nat /\ counter \in Nat /\ sid \in [All -> Nat]
      BY ServeAssumption DEF Types
    <2>2. CASE side # "server"
      BY <1>1, <2>2 DEF Admit, Ids, SessionIdsDistinct
    <2>3. CASE side = "server"
      <3>1. sid' = [sid EXCEPT ![c] = SessionId] /\ counter' = counter + 1 /\ base' = base
        BY <1>1, <2>3 DEF Admit
      <3> QED BY <2>1, <3>1 DEF Ids, SessionIdsDistinct, SessionId
    <2> QED BY <2>2, <2>3
  <1>2. CASE UNCHANGED ids
    BY <1>2 DEF Ids, SessionIdsDistinct
  <1>3. ASSUME NEW l \in Loops, LoopStep(l) PROVE Ids'
    BY <1>1, <1>2, <1>3 DEF LoopStep, LoopTop, Gate, GateHandshakes, AcceptError, Poll, BondIncoming, BondListenerFails
  <1>4. ASSUME NEW c \in All, SessionStep(c) PROVE Ids'
    BY <1>2, <1>4 DEF SessionStep, StartHandshake, SpawnFails, HandshakeOk, HandshakeFails, Count,
                Convert, ConvertFails, SessionEnds, RegisterLink, Negotiated, Opened
  <1>5. CASE Signal \/ ChannelEnds \/ StartDrain \/ DrainDone \/ DrainTimeout \/ DropRuntime \/ Exit
    BY <1>2, <1>5 DEF Signal, ChannelEnds, StartDrain, DrainDone, DrainTimeout, DropRuntime, Exit
  <1>6. ASSUME NEW c \in Conns, Arrive(c) PROVE Ids'
    BY <1>2, <1>6 DEF Arrive
  <1>7. CASE UNCHANGED vars
    BY <1>2, <1>7 DEF vars
  <1> QED BY <1>3, <1>4, <1>5, <1>6, <1>7 DEF Next

\* Past the drain nothing enters through the main loop, and what is in flight
\* was in flight when the drain ended.
LEMMA DrainingStep == Types /\ Gauges /\ WakeIdle /\ Draining /\ [Next]_vars => Draining'
  <1> SUFFICES ASSUME Types, Gauges, WakeIdle, Draining, [Next]_vars PROVE Draining'
    OBVIOUS
  <1> USE DEF Draining, Types, InFlight, Holding, Over, Move, peaks, hist, ids
  <1>a. "main" \in Loops /\ Loops \subseteq {"main", "bond"}
    BY DEF Loops
  <1>b. Wake \in All /\ Conns \subseteq All
    BY DEF All
  <1>1. ASSUME NEW c \in Conns, Arrive(c) PROVE Draining'
    BY <1>1, <1>b DEF Arrive
  <1>2. CASE Signal
    BY <1>2, <1>b DEF Signal
  <1>3. ASSUME NEW l \in Loops, LoopTop(l) \/ AcceptError(l) \/ Poll(l) \/ BondIncoming(l) \/ BondListenerFails(l)
        PROVE  Draining'
    BY <1>3, <1>a DEF LoopTop, AcceptError, Poll, BondIncoming, BondListenerFails, Selecting, GoTo
  <1>4. ASSUME NEW l \in Loops, NEW c \in All, Gate(l, c) \/ GateHandshakes(l, c) PROVE Draining'
    BY <1>4, <1>a DEF Gate, GateHandshakes, Selecting, GoTo
  <1>5. ASSUME NEW l \in Loops, NEW c \in All, Admit(l, c) PROVE Draining'
    BY <1>5, <1>a DEF Admit, GoTo
  <1>6. ASSUME NEW c \in All, SessionStep(c) PROVE Draining'
    <2>1. CASE StartHandshake(c) \/ SpawnFails(c) \/ HandshakeFails(c)
      BY <2>1 DEF StartHandshake, SpawnFails, HandshakeFails
    <2>2. CASE HandshakeOk(c)
      BY <2>2 DEF HandshakeOk
    <2>3. CASE Count(c) \/ Convert(c) \/ ConvertFails(c)
      BY <2>3 DEF Count, Convert, ConvertFails
    <2>4. CASE SessionEnds(c) \/ Negotiated(c) \/ Opened(c)
      BY <2>4 DEF SessionEnds, Negotiated, Opened
    <2>5. CASE RegisterLink(c)
      BY <2>5 DEF RegisterLink
    <2> QED BY <1>6, <2>1, <2>2, <2>3, <2>4, <2>5 DEF SessionStep
  <1>7. CASE ChannelEnds
    BY <1>7 DEF ChannelEnds
  <1>8. CASE StartDrain \/ DrainTimeout \/ Exit
    BY <1>8 DEF StartDrain, DrainTimeout, Exit
  <1>9. CASE DrainDone
    <2>1. Num(conn, Owning) = 0
      BY <1>9, NumType DEF DrainDone, Drained, Gauges
    <2>2. \A c \in All : conn[c] \notin Holding
      BY <2>1, NumType DEF Owning
    <2> QED BY <1>9, <2>2 DEF DrainDone, In
  <1>10. CASE DropRuntime
    BY <1>10 DEF DropRuntime
  <1>11. CASE UNCHANGED vars
    BY <1>11 DEF vars
  <1> QED BY <1>1, <1>2, <1>3, <1>4, <1>5, <1>6, <1>7, <1>8, <1>9, <1>10, <1>11 DEF Next, LoopStep

----------------------------------------------------------------------------
(* The inductive invariant and what follows from it *)

ServeInv ==
    /\ Types /\ WakeIdle /\ Roles /\ Gauges
    /\ Bursts /\ ClientBurst /\ Latecomers /\ Ids /\ Draining

\* The invariant holds when the process starts to serve.
LEMMA ServeInit == Init => ServeInv
  <1> SUFFICES ASSUME Init PROVE ServeInv
    OBVIOUS
  <1>1. Types /\ Gauges
    BY TypesInit, GaugesInit
  <1>2. WakeIdle /\ Roles
    BY DEF Init, WakeIdle, Roles, ServerOnly, All
  <1>3. Num(conn, InFlight) = 0 /\ Num(conn, Unstarted) = 0
    BY NumType DEF Init, InFlight, Unstarted
  <1>4. Bursts
    BY <1>3, ServeAssumption DEF Init, Bursts
  <1>5. LoopsAt({"admit"}) = 0 /\ LoopsAt({"select", "gate", "admit"}) = 0
    BY DEF Init, LoopsAt, At
  <1>6. Cardinality(Loops) \in {1, 2}
    BY <1>1, LoopCount
  <1>7. ClientBurst /\ Latecomers
    BY <1>5, <1>6, ServeAssumption DEF Init, ClientBurst, Latecomers
  <1>8. Ids
    BY DEF Init, Ids, SessionIdsDistinct
  <1>9. Draining
    BY DEF Init, Draining, InFlight, Holding
  <1> QED BY <1>1, <1>2, <1>4, <1>7, <1>8, <1>9 DEF ServeInv

\* Whatever arrives, fails, ends or is signalled in whatever order, the
\* invariant of the process holds, for all limits and connections.
THEOREM ServeInvariant == Spec => []ServeInv
  <1>1. Init => ServeInv
    BY ServeInit
  <1>2. ServeInv /\ [Next]_vars => ServeInv'
    BY TypesStep, PlacesStep, GaugesStep, BurstsStep, LoopBoundsStep, IdsStep, DrainingStep
    DEF ServeInv
  <1> QED BY <1>1, <1>2, PTL DEF Spec

\* Each unit of `active` belongs to one session that has not ended or to one
\* whose socket conversion failed, each unit of `handshaking` to one handshake
\* on the blocking pool; neither gauge wraps below zero.
THEOREM ServeGaugesMatch == Spec => []GaugesMatch
  <1>1. ServeInv => GaugesMatch
    <2> SUFFICES ASSUME ServeInv PROVE GaugesMatch
      OBVIOUS
    <2>1. Num(conn, Owning) \in Nat /\ Num(conn, {"handshaking"}) \in Nat
      BY NumType
    <2>2. TypeOK
      BY <2>1 DEF ServeInv, Types, Points, Gauges, TypeOK
    <2> QED BY <2>2 DEF ServeInv, Gauges, GaugesMatch, Num, In, Owning
  <1> QED BY <1>1, ServeInvariant, PTL

\* A burst passes max_connections and max_handshakes by no more than what was
\* past the gates together, on the client by no more than its loops.
THEOREM ServeOvershootBounded == Spec => []OvershootBounded
  <1>1. ServeInv => OvershootBounded
    <2> SUFFICES ASSUME ServeInv PROVE OvershootBounded
      OBVIOUS
    <2>1. /\ Num(conn, Owning) \in Nat /\ Num(conn, {"handshaking"}) \in Nat
          /\ Num(conn, InFlight) \in Nat /\ Num(conn, Unstarted) \in Nat
      BY NumType
    <2>2. active \in Nat /\ handshaking \in Nat /\ peak \in Nat /\ burst \in Nat
      BY <2>1 DEF ServeInv, Gauges, Types
    <2>3. LoopsAt({"admit"}) \in Nat /\ Cardinality(Loops) \in {1, 2}
      BY LoopCount DEF ServeInv, LoopsAt, At
    <2> QED BY <2>1, <2>2, <2>3, ServeAssumption DEF ServeInv, Bursts, ClientBurst, OvershootBounded
  <1> QED BY <1>1, ServeInvariant, PTL

\* After the shutdown flag is set each accept loop admits at most one more
\* connection.
THEOREM ServeLateAdmission == Spec => []LateAdmission
  <1>1. ServeInv => LateAdmission
    <2> SUFFICES ASSUME ServeInv PROVE LateAdmission
      OBVIOUS
    <2>1. LoopsAt({"select", "gate", "admit"}) \in Nat /\ Cardinality(Loops) \in {1, 2} /\ late \in Nat
      BY LoopCount DEF ServeInv, Types, LoopsAt, At
    <2> QED BY <2>1 DEF ServeInv, Latecomers, LateAdmission
  <1> QED BY <1>1, ServeInvariant, PTL

\* Session ids repeat only through the replacement of 0 by 1.
THEOREM ServeSessionIds == Spec => []SessionIdsDistinct
  <1>1. ServeInv => SessionIdsDistinct
    BY DEF ServeInv, Ids
  <1> QED BY <1>1, ServeInvariant, PTL

\* When drain_sessions has reported that all sessions are drained, only
\* handshakes of that moment and the client's bond inbound can still be cut.
THEOREM ServeDrainIsHonest == Spec => []DrainIsHonest
  <1>1. ServeInv => DrainIsHonest
    BY DEF ServeInv, Draining, DrainIsHonest, In
  <1> QED BY <1>1, ServeInvariant, PTL
=============================================================================
