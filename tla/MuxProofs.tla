------------------------------ MODULE MuxProofs -----------------------------
(***************************************************************************)
(* Proofs about Mux for any number of streams, any channel bounds, limits, *)
(* stalls and faults: its safety invariants, and that its pumps implement  *)
(* ByteStream.                                                             *)
(*                                                                         *)
(* The invariant has four parts.  Registries and openers agree with the    *)
(* life of each stream (RegistryHeld).  The opening protocol runs once per *)
(* stream (OpenOK).  Every one-way flow is intact from the sending pump to *)
(* the receiving socket for as long as its events are routed, and what is  *)
(* past the registry is intact for good (FlowOK).  And a stream that no    *)
(* fault has hit keeps its registry entries and its pumps, and CLOSE is in *)
(* flight for it only if its OPEN was turned away (Sound).  The last three *)
(* are predicates of plain values, so that a step that leaves the values   *)
(* of a stream alone preserves them at once.                               *)
(***************************************************************************)
EXTENDS Mux, SequenceTheorems, FiniteSetTheorems, TLAPS

\* Where queue Q holds frames of stream s of the given kinds.
Where(Q, s, K) == {i \in 1..Len(Q) : Q[i].sid = s /\ Q[i].kind \in K}

Flowing == {"data", "eof"}
Replies == {"ok", "refused"}

\* A flow numbers its frames: chunks by themselves, EOF after the last of n.
Num(f, n) == IF f.kind = "data" THEN f.n ELSE n + 1

\* Frames in flight were sent, and EOF by a pump that is done.
Within(Q, s, n, u) ==
  \A i \in Where(Q, s, Flowing) :
    IF Q[i].kind = "data" THEN Q[i].n \in 1..n ELSE u = "eof"

Ordered(Q, s, n) ==
  \A i, j \in Where(Q, s, Flowing) : i < j => Num(Q[i], n) < Num(Q[j], n)

\* From number e on no frame is missing before another one.
Gapless(Q, s, n, e) ==
  \A j \in Where(Q, s, Flowing) :
    /\ Num(Q[j], n) >= e
    /\ Num(Q[j], n) > e =>
         \E i \in Where(Q, s, Flowing) : i < j /\ Num(Q[i], n) = Num(Q[j], n) - 1

\* Nor is the last chunk that was sent.
Topped(Q, s, n, e) == n >= e => \E i \in Where(Q, s, Flowing) : Num(Q[i], n) = n

\* Events continue the g chunks the socket has.
Queued(E, n, u, g) ==
  \A i \in 1..Len(E) : IF E[i] = Eof THEN u = "eof" /\ g + i = n + 1
                                     ELSE E[i] = g + i /\ E[i] <= n

\* One flow: queue Q of the sending end, stream s, n chunks sent, pump_up u,
\* sending end alive a; g chunks written, events E, pump_down d, and whether
\* the events are still routed (r) at the receiving end.
FlowOK(Q, s, n, u, a, g, E, d, r) ==
  /\ g <= n
  /\ Queued(E, n, u, g)
  /\ Within(Q, s, n, u)
  /\ Ordered(Q, s, n)
  /\ r => Gapless(Q, s, n, g + Len(E) + 1)
  /\ r /\ a /\ u = "run" => Topped(Q, s, n, g + Len(E) + 1)
  /\ u = "off" => n = 0 /\ Where(Q, s, Flowing) = {}
  /\ d = "eof" => u = "eof" /\ g = n
  /\ d = "eof" \/ (\E i \in 1..Len(E) : E[i] = Eof) => Where(Q, s, Flowing) = {}

Once(Q, s, K) == \A i, j \in Where(Q, s, K) : i = j

Early == {"new", "connect", "ok", "fail"}

\* One stream's opening: queues QC and QS, the stream's states c and v, the
\* pumps uc, dc at the client and uv, dv at the server.
OpenOK(QC, QS, s, c, v, uc, dc, uv, dv) ==
  /\ c \in {"new", "send"} => v = "new" /\ Where(QC, s, {"open"}) = {}
  /\ Where(QC, s, {"open"}) # {} => v = "new"
  /\ Once(QC, s, {"open"})
  /\ v \in Early => /\ Where(QS, s, Replies) = {}
                    /\ c # "open" /\ uc = "off" /\ uv = "off"
  /\ Once(QS, s, Replies)
  /\ Where(QS, s, Replies) # {} => c # "open" /\ uc = "off"
  /\ c \notin {"open", "ended"} => uc = "off"
  /\ (uc = "off") = (dc = "off")
  /\ (uv = "off") = (dv = "off")
  /\ Where(QS, s, {"open"}) = {}

\* The types of the variables a step of the tunnel acts on.
Shapes ==
  /\ alive \in [Sides -> BOOLEAN]
  /\ q \in [Sides -> Seq(Frames)]
  /\ \A x \in Sides : Len(q[x]) =< OutCap
  /\ st \in [Sides -> [Sids -> StreamStates]]
  /\ pend \subseteq Sids
  /\ reg \in [Sides -> SUBSET Sids]
  /\ ev \in [Sides -> [Sids -> Seq(Nat)]]
  /\ \A x \in Sides, s \in Sids : Len(ev[x][s]) =< EvCap
  /\ up \in [Sides -> [Sids -> PumpStates]]
  /\ down \in [Sides -> [Sids -> PumpStates]]
  /\ sent \in [Sides -> [Sids -> Nat]]
  /\ \A x \in Sides, s \in Sids : sent[x][s] =< Chunks[x][s]
  /\ got \in [Sides -> [Sids -> Seq(Nat \ {0})]]
  /\ lost \subseteq Sides \X Sids

\* Entries and waiters belong to streams that live; the registry has room.
RegistryHeld ==
  /\ \A x \in Sides : \A s \in reg[x] : st[x][s] \notin {"new", "ended"}
  /\ \A s \in pend : st[Client][s] \in {"send", "reply"}
  /\ Cardinality(reg[Server]) =< Cap

\* The receiving end y of a flow of stream s still routes its events.
Routed(y, s) == s \in reg[y] /\ down[y][s] \in {"off", "run"}

Flow(x, s) ==
  FlowOK(q[x], s, sent[x][s], up[x][s], alive[x],
         Len(got[Peer(x)][s]), ev[Peer(x)][s], down[Peer(x)][s], Routed(Peer(x), s))

Opened(s) ==
  OpenOK(q[Client], q[Server], s, st[Client][s], st[Server][s],
         up[Client][s], down[Client][s], up[Server][s], down[Server][s])

MuxInv ==
  /\ Shapes
  /\ RegistryHeld
  /\ \A s \in Sids : Opened(s)
  /\ \A x \in Sides, s \in Sids : Flow(x, s)

----------------------------------------------------------------------------
(* Queues *)

\* R holds the frames of stream s of kinds K that Q holds, k places further on.
Carries(Q, R, s, K, k) ==
  /\ \A i \in Where(R, s, K) : i + k \in Where(Q, s, K) /\ R[i] = Q[i + k]
  /\ \A j \in Where(Q, s, K) : j - k \in Where(R, s, K) /\ R[j - k] = Q[j]

Kept(Q, R, s, K) == \E k \in {0, 1} : Carries(Q, R, s, K, k)

\* An appended frame is found at the end.
AppendPlaces(Q, f, s, K) ==
  /\ \A i \in Where(Append(Q, f), s, K) :
       i \in Where(Q, s, K) \/ (i = Len(Q) + 1 /\ f.sid = s /\ f.kind \in K)
  /\ f.sid = s /\ f.kind \in K => Len(Q) + 1 \in Where(Append(Q, f), s, K)
  /\ \A i \in Where(Q, s, K) :
       i \in 1..Len(Q) /\ i \in Where(Append(Q, f), s, K) /\ Append(Q, f)[i] = Q[i]
  /\ Append(Q, f)[Len(Q) + 1] = f

\* Where frames lie after a frame is put.
LEMMA WhereAppend ==
  ASSUME NEW Q \in Seq(Frames), NEW f \in Frames, NEW s, NEW K
  PROVE  AppendPlaces(Q, f, s, K)
  <1>1. /\ Len(Append(Q, f)) = Len(Q) + 1 /\ Len(Q) \in Nat
        /\ \A i \in 1..Len(Q) : Append(Q, f)[i] = Q[i]
        /\ Append(Q, f)[Len(Q) + 1] = f
    BY AppendProperties
  <1> QED BY <1>1 DEF Where, AppendPlaces

\* Without its first frame every frame of a queue is one place nearer.
TailPlaces(Q, s, K) ==
  /\ \A i \in Where(Tail(Q), s, K) :
       i \in Nat /\ i >= 1 /\ i + 1 \in Where(Q, s, K) /\ Tail(Q)[i] = Q[i + 1]
  /\ \A j \in Where(Q, s, K) :
       /\ j \in Nat /\ j >= 1
       /\ j > 1 => j - 1 \in Where(Tail(Q), s, K) /\ Tail(Q)[j - 1] = Q[j]
  /\ 1 \in Where(Q, s, K) <=> Head(Q).sid = s /\ Head(Q).kind \in K
  /\ Head(Q) = Q[1]

\* Where frames lie after the first is taken.
LEMMA WhereTail ==
  ASSUME NEW Q \in Seq(Frames), Q # <<>>, NEW s, NEW K
  PROVE  TailPlaces(Q, s, K)
  <1>1. /\ Len(Tail(Q)) = Len(Q) - 1 /\ Len(Q) \in Nat /\ Len(Q) >= 1
        /\ \A i \in 1..Len(Tail(Q)) : Tail(Q)[i] = Q[i + 1]
    BY HeadTailProperties, EmptySeq
  <1>2. Head(Q) = Q[1]
    OBVIOUS
  <1>3. ASSUME NEW i \in Where(Tail(Q), s, K)
        PROVE  i \in Nat /\ i >= 1 /\ i + 1 \in Where(Q, s, K) /\ Tail(Q)[i] = Q[i + 1]
    BY <1>1 DEF Where
  <1>4. ASSUME NEW j \in Where(Q, s, K)
        PROVE  j \in Nat /\ j >= 1 /\ (j > 1 => j - 1 \in Where(Tail(Q), s, K) /\ Tail(Q)[j - 1] = Q[j])
    <2>1. j \in 1..Len(Q) /\ Q[j].sid = s /\ Q[j].kind \in K
      BY DEF Where
    <2>2. CASE j > 1
      <3>1. j - 1 \in 1..Len(Tail(Q)) /\ (j - 1) + 1 = j
        BY <1>1, <2>1, <2>2
      <3>2. Tail(Q)[j - 1] = Q[j]
        BY <1>1, <3>1
      <3> QED BY <2>1, <3>1, <3>2 DEF Where
    <2> QED BY <2>1, <2>2
  <1>5. 1 \in Where(Q, s, K) <=> Head(Q).sid = s /\ Head(Q).kind \in K
    BY <1>1, <1>2 DEF Where
  <1> QED BY <1>2, <1>3, <1>4, <1>5 DEF TailPlaces

\* The first frames of a queue stay where they are.
PrefixPlaces(Q, n, s, K) ==
  /\ \A i : i \in Where(SubSeq(Q, 1, n), s, K) <=> i \in Where(Q, s, K) /\ i <= n
  /\ \A i \in Where(SubSeq(Q, 1, n), s, K) : i \in Nat /\ SubSeq(Q, 1, n)[i] = Q[i]
  /\ \A i \in Where(Q, s, K) : i \in Nat

\* What is left of a queue that is cut.
LEMMA Prefix ==
  ASSUME NEW Q \in Seq(Frames), NEW n \in 0..Len(Q)
  PROVE  /\ SubSeq(Q, 1, n) \in Seq(Frames) /\ Len(SubSeq(Q, 1, n)) = n
         /\ \A i \in 1..n : SubSeq(Q, 1, n)[i] = Q[i]
  <1>1. \A i \in 1..n : Q[i] \in Frames
    OBVIOUS
  <1> QED BY <1>1, SubSeqProperties

\* Where frames lie in it.
LEMMA WherePrefix ==
  ASSUME NEW Q \in Seq(Frames), NEW n \in 0..Len(Q), NEW s, NEW K
  PROVE  PrefixPlaces(Q, n, s, K)
  BY Prefix DEF Where, PrefixPlaces

\* What does not concern a stream keeps its frames.
LEMMA KeptSame == ASSUME NEW Q \in Seq(Frames), NEW s, NEW K PROVE Kept(Q, Q, s, K)
  <1>1. Carries(Q, Q, s, K, 0)
    BY DEF Carries, Where
  <1> QED BY <1>1 DEF Kept

\* A frame of another kind or stream changes no place.
LEMMA KeptAppend ==
  ASSUME NEW Q \in Seq(Frames), NEW f \in Frames, NEW s, NEW K, ~(f.sid = s /\ f.kind \in K)
  PROVE  Kept(Q, Append(Q, f), s, K)
  <1>1. AppendPlaces(Q, f, s, K)
    BY WhereAppend
  <1>2. Carries(Q, Append(Q, f), s, K, 0)
    BY <1>1 DEF Carries, AppendPlaces
  <1> QED BY <1>2 DEF Kept

\* Nor does taking one.
LEMMA KeptTail ==
  ASSUME NEW Q \in Seq(Frames), Q # <<>>, NEW s, NEW K, ~(Head(Q).sid = s /\ Head(Q).kind \in K)
  PROVE  Kept(Q, Tail(Q), s, K)
  <1>1. TailPlaces(Q, s, K)
    BY WhereTail
  <1>2. \A j \in Where(Q, s, K) : j > 1
    BY <1>1 DEF TailPlaces
  <1>3. Carries(Q, Tail(Q), s, K, 1)
    BY <1>1, <1>2 DEF Carries, TailPlaces
  <1> QED BY <1>3 DEF Kept

\* Kept frames satisfy what they satisfied.
LEMMA KeptFlow ==
  ASSUME NEW Q \in Seq(Frames), NEW R \in Seq(Frames), NEW s, Kept(Q, R, s, Flowing), NEW n, NEW u, NEW e
  PROVE  /\ Within(Q, s, n, u) => Within(R, s, n, u)
         /\ Ordered(Q, s, n) => Ordered(R, s, n)
         /\ Gapless(Q, s, n, e) => Gapless(R, s, n, e)
         /\ Topped(Q, s, n, e) => Topped(R, s, n, e)
         /\ Where(Q, s, Flowing) = {} => Where(R, s, Flowing) = {}
  <1>1. PICK k \in {0, 1} : Carries(Q, R, s, Flowing, k)
    BY DEF Kept
  <1>2. /\ \A i \in Where(Q, s, Flowing) : i \in Int
        /\ \A i \in Where(R, s, Flowing) : i \in Int
    BY DEF Where
  <1>3. Within(Q, s, n, u) => Within(R, s, n, u)
    BY <1>1 DEF Within, Carries
  <1>4. Ordered(Q, s, n) => Ordered(R, s, n)
    BY <1>1, <1>2 DEF Ordered, Carries
  <1>5. ASSUME Gapless(Q, s, n, e) PROVE Gapless(R, s, n, e)
    <2> SUFFICES ASSUME NEW j \in Where(R, s, Flowing)
                 PROVE  /\ Num(R[j], n) >= e
                        /\ Num(R[j], n) > e =>
                             \E i \in Where(R, s, Flowing) : i < j /\ Num(R[i], n) = Num(R[j], n) - 1
      BY DEF Gapless
    <2>1. j + k \in Where(Q, s, Flowing) /\ R[j] = Q[j + k]
      BY <1>1 DEF Carries
    <2>2. Num(R[j], n) >= e
      BY <1>5, <2>1 DEF Gapless
    <2>3. ASSUME Num(R[j], n) > e
          PROVE  \E i \in Where(R, s, Flowing) : i < j /\ Num(R[i], n) = Num(R[j], n) - 1
      <3>1. PICK i \in Where(Q, s, Flowing) : i < j + k /\ Num(Q[i], n) = Num(Q[j + k], n) - 1
        BY <1>5, <2>1, <2>3 DEF Gapless
      <3>2. i - k \in Where(R, s, Flowing) /\ R[i - k] = Q[i]
        BY <1>1 DEF Carries
      <3>3. i - k < j
        BY <1>2, <3>1
      <3> QED BY <2>1, <3>1, <3>2, <3>3
    <2> QED BY <2>2, <2>3
  <1>6. Topped(Q, s, n, e) => Topped(R, s, n, e)
    BY <1>1 DEF Topped, Carries
  <1>7. Where(Q, s, Flowing) = {} => Where(R, s, Flowing) = {}
    BY <1>1 DEF Carries
  <1> QED BY <1>3, <1>4, <1>5, <1>6, <1>7

\* No frames stay none.
LEMMA KeptNone ==
  ASSUME NEW Q \in Seq(Frames), NEW R \in Seq(Frames), NEW s, NEW K, Kept(Q, R, s, K), Where(Q, s, K) = {}
  PROVE  Where(R, s, K) = {}
  BY DEF Kept, Carries

\* The first frame of its kinds is the only one.
LEMMA OnceAppend ==
  ASSUME NEW Q \in Seq(Frames), NEW f \in Frames, NEW s, NEW K, Where(Q, s, K) = {}
  PROVE  Once(Append(Q, f), s, K)
  <1>1. AppendPlaces(Q, f, s, K)
    BY WhereAppend
  <1> QED BY <1>1 DEF Once, AppendPlaces

\* Without its first frame, or cut, a queue gains nothing.
LEMMA OnceTail ==
  ASSUME NEW Q \in Seq(Frames), Q # <<>>, NEW s, NEW K
  PROVE  /\ Once(Q, s, K) => Once(Tail(Q), s, K)
         /\ Where(Q, s, K) = {} => Where(Tail(Q), s, K) = {}
         /\ Once(Q, s, K) /\ Head(Q).sid = s /\ Head(Q).kind \in K => Where(Tail(Q), s, K) = {}
  <1>1. TailPlaces(Q, s, K)
    BY WhereTail
  <1>2. \A i \in Where(Tail(Q), s, K) : i \in Nat /\ i >= 1 /\ i + 1 \in Where(Q, s, K)
    BY <1>1 DEF TailPlaces
  <1>3. Head(Q).sid = s /\ Head(Q).kind \in K => 1 \in Where(Q, s, K)
    BY <1>1 DEF TailPlaces
  <1>4. Once(Q, s, K) => Once(Tail(Q), s, K)
    BY <1>2 DEF Once
  <1>5. ASSUME Once(Q, s, K), 1 \in Where(Q, s, K), NEW i \in Where(Tail(Q), s, K) PROVE FALSE
    <2>1. i \in Nat /\ i >= 1 /\ i + 1 = 1
      BY <1>2, <1>5 DEF Once
    <2> QED BY <2>1
  <1> QED BY <1>2, <1>3, <1>4, <1>5

\* A cut repeats nothing.
LEMMA OncePrefix ==
  ASSUME NEW Q \in Seq(Frames), NEW n \in 0..Len(Q), NEW s, NEW K
  PROVE  /\ Once(Q, s, K) => Once(SubSeq(Q, 1, n), s, K)
         /\ Where(Q, s, K) = {} => Where(SubSeq(Q, 1, n), s, K) = {}
  <1>1. PrefixPlaces(Q, n, s, K)
    BY WherePrefix
  <1> QED BY <1>1 DEF PrefixPlaces, Once

\* A queue that is kept repeats nothing new.
LEMMA KeptOnce ==
  ASSUME NEW Q \in Seq(Frames), NEW R \in Seq(Frames), NEW s, NEW K, Kept(Q, R, s, K)
  PROVE  /\ Once(Q, s, K) => Once(R, s, K)
         /\ Where(Q, s, K) = {} => Where(R, s, K) = {}
  <1>1. PICK k \in {0, 1} : Carries(Q, R, s, K, k)
    BY DEF Kept
  <1>2. /\ \A i \in Where(Q, s, K) : i \in Int
        /\ \A i \in Where(R, s, K) : i \in Int
    BY DEF Where
  <1>3. Once(Q, s, K) => Once(R, s, K)
    BY <1>1, <1>2 DEF Once, Carries
  <1>4. Where(Q, s, K) = {} => Where(R, s, K) = {}
    BY <1>1 DEF Carries
  <1> QED BY <1>3, <1>4

----------------------------------------------------------------------------
(* Steps of one flow *)

\* Frames and events of the flow stay; a side may die or stop routing.
LEMMA FlowKept ==
  ASSUME NEW Q \in Seq(Frames), NEW s \in Sids, NEW n \in Nat, NEW g \in Nat, NEW E \in Seq(Nat), NEW R \in Seq(Frames),
         NEW u, NEW a, NEW b, NEW d, NEW c, NEW r, NEW t,
         FlowOK(Q, s, n, u, a, g, E, d, r),
         Kept(Q, R, s, Flowing), b => a, t => r, c = "eof" => d = "eof"
  PROVE  FlowOK(R, s, n, u, b, g, E, c, t)
  <1> DEFINE e == g + Len(E) + 1
  <1>1. /\ Within(Q, s, n, u) => Within(R, s, n, u)
        /\ Ordered(Q, s, n) => Ordered(R, s, n)
        /\ Gapless(Q, s, n, e) => Gapless(R, s, n, e)
        /\ Topped(Q, s, n, e) => Topped(R, s, n, e)
        /\ Where(Q, s, Flowing) = {} => Where(R, s, Flowing) = {}
    BY KeptFlow
  <1> QED BY <1>1 DEF FlowOK

\* What is queued before the flow has ended was sent.
LEMMA FlowSent ==
  ASSUME NEW n \in Nat, NEW g \in Nat, NEW E \in Seq(Nat), NEW u, u # "eof", g <= n, Queued(E, n, u, g)
  PROVE  g + Len(E) <= n /\ \A i \in 1..Len(E) : E[i] # Eof
  <1>1. \A i \in 1..Len(E) : E[i] # Eof /\ E[i] = g + i /\ E[i] <= n
    BY DEF Queued
  <1>2. CASE Len(E) = 0
    BY <1>2
  <1>3. CASE Len(E) # 0
    <2>1. Len(E) \in 1..Len(E)
      BY <1>3
    <2> QED BY <1>1, <2>1
  <1> QED BY <1>1, <1>2, <1>3

\* Numbers of frames in flight.
LEMMA FlowNums ==
  ASSUME NEW Q \in Seq(Frames), NEW s, NEW n \in Nat, NEW u, Within(Q, s, n, u)
  PROVE  \A i \in Where(Q, s, Flowing) :
           /\ i \in 1..Len(Q) /\ Num(Q[i], n) \in 1..(n + 1)
           /\ u # "eof" => Q[i].kind = "data" /\ Num(Q[i], n) \in 1..n /\ Num(Q[i], n + 1) = Num(Q[i], n)
  BY DEF Within, Num, Where

\* pump_up sends the next chunk.
LEMMA FlowData ==
  ASSUME NEW Q \in Seq(Frames), NEW s \in Sids, NEW n \in Nat, NEW g \in Nat, NEW E \in Seq(Nat), NEW d, NEW r,
         FlowOK(Q, s, n, "run", TRUE, g, E, d, r)
  PROVE  FlowOK(Append(Q, Data(s, n + 1)), s, n + 1, "run", TRUE, g, E, d, r)
  <1> DEFINE f == Data(s, n + 1)
             R == Append(Q, f)
             e == g + Len(E) + 1
             m == Len(Q) + 1
  <1>1. /\ f \in Frames /\ f.sid = s /\ f.kind = "data" /\ f.n = n + 1
        /\ f.kind \in Flowing /\ Num(f, n + 1) = n + 1
    BY DEF Data, Frames, Flowing, Num
  <1>2. AppendPlaces(Q, f, s, Flowing)
    BY <1>1, WhereAppend
  <1> HIDE DEF f
  <1>3. /\ \A i \in Where(R, s, Flowing) : i \in Where(Q, s, Flowing) \/ i = m
        /\ m \in Where(R, s, Flowing) /\ R[m] = f
        /\ \A i \in Where(Q, s, Flowing) : i \in 1..Len(Q) /\ i \in Where(R, s, Flowing) /\ R[i] = Q[i]
    BY <1>1, <1>2 DEF AppendPlaces
  <1>4. \A i \in Where(Q, s, Flowing) :
          i \in 1..Len(Q) /\ Q[i].kind = "data" /\ Q[i].n \in 1..n
            /\ Num(Q[i], n) \in 1..n /\ Num(Q[i], n + 1) = Num(Q[i], n)
    <2>1. Within(Q, s, n, "run")
      BY DEF FlowOK
    <2>2. \A i \in Where(Q, s, Flowing) :
            i \in 1..Len(Q) /\ Q[i].kind = "data"
              /\ Num(Q[i], n) \in 1..n /\ Num(Q[i], n + 1) = Num(Q[i], n)
      BY <2>1, FlowNums
    <2> QED BY <2>1, <2>2 DEF Within
  <1>5. g <= n /\ Queued(E, n, "run", g) /\ g + Len(E) <= n /\ (\A i \in 1..Len(E) : E[i] # Eof) /\ d # "eof"
    BY FlowSent DEF FlowOK
  <1> HIDE DEF R, m
  <1>6. Within(R, s, n + 1, "run")
    BY <1>1, <1>3, <1>4 DEF Within
  <1>7. Ordered(R, s, n + 1)
    <2> SUFFICES ASSUME NEW i \in Where(R, s, Flowing), NEW j \in Where(R, s, Flowing), i < j
                 PROVE  Num(R[i], n + 1) < Num(R[j], n + 1)
      BY DEF Ordered
    <2>1. i \in Where(Q, s, Flowing)
      BY <1>3, <1>4 DEF m
    <2>2. CASE j = m
      BY <2>1, <2>2, <1>1, <1>3, <1>4
    <2>3. CASE j \in Where(Q, s, Flowing)
      BY <2>1, <2>3, <1>3, <1>4 DEF FlowOK, Ordered
    <2> QED BY <1>3, <2>2, <2>3
  <1>8. ASSUME r PROVE Gapless(R, s, n + 1, e)
    <2>1. Gapless(Q, s, n, e) /\ Topped(Q, s, n, e)
      BY <1>8 DEF FlowOK
    <2> SUFFICES ASSUME NEW j \in Where(R, s, Flowing)
                 PROVE  /\ Num(R[j], n + 1) >= e
                        /\ Num(R[j], n + 1) > e =>
                             \E i \in Where(R, s, Flowing) : i < j /\ Num(R[i], n + 1) = Num(R[j], n + 1) - 1
      BY DEF Gapless
    <2>2. CASE j = m
      <3>1. Num(R[j], n + 1) = n + 1 /\ n + 1 >= e
        BY <2>2, <1>1, <1>3, <1>5
      <3>2. ASSUME n + 1 > e PROVE \E i \in Where(R, s, Flowing) : i < j /\ Num(R[i], n + 1) = n
        <4>1. PICK i \in Where(Q, s, Flowing) : Num(Q[i], n) = n
          BY <2>1, <3>2 DEF Topped
        <4> QED BY <4>1, <2>2, <1>3, <1>4 DEF m
      <3> QED BY <3>1, <3>2
    <2>3. CASE j \in Where(Q, s, Flowing)
      <3>1. Num(R[j], n + 1) = Num(Q[j], n) /\ Num(Q[j], n) >= e
        BY <2>1, <2>3, <1>3, <1>4 DEF Gapless
      <3>2. ASSUME Num(Q[j], n) > e
            PROVE  \E i \in Where(R, s, Flowing) : i < j /\ Num(R[i], n + 1) = Num(Q[j], n) - 1
        <4>1. PICK i \in Where(Q, s, Flowing) : i < j /\ Num(Q[i], n) = Num(Q[j], n) - 1
          BY <2>1, <2>3, <3>2 DEF Gapless
        <4> QED BY <4>1, <1>3, <1>4
      <3> QED BY <3>1, <3>2
    <2> QED BY <1>3, <2>2, <2>3
  <1>9. Topped(R, s, n + 1, e)
    BY <1>1, <1>3 DEF Topped
  <1>10. Queued(E, n + 1, "run", g)
    BY <1>5 DEF Queued
  <1> QED BY <1>5, <1>6, <1>7, <1>8, <1>9, <1>10 DEF FlowOK, R, f

\* pump_up sends EOF.
LEMMA FlowEof ==
  ASSUME NEW Q \in Seq(Frames), NEW s \in Sids, NEW n \in Nat, NEW g \in Nat, NEW E \in Seq(Nat), NEW d, NEW r, NEW a,
         FlowOK(Q, s, n, "run", TRUE, g, E, d, r)
  PROVE  FlowOK(Append(Q, Frame("eof", s)), s, n, "eof", a, g, E, d, r)
  <1> DEFINE f == Frame("eof", s)
             R == Append(Q, f)
             e == g + Len(E) + 1
             m == Len(Q) + 1
  <1>1. /\ f \in Frames /\ f.sid = s /\ f.kind = "eof"
        /\ f.kind \in Flowing /\ Num(f, n) = n + 1
    BY DEF Frame, Frames, Flowing, Num
  <1>2. AppendPlaces(Q, f, s, Flowing)
    BY <1>1, WhereAppend
  <1> HIDE DEF f
  <1>3. /\ \A i \in Where(R, s, Flowing) : i \in Where(Q, s, Flowing) \/ i = m
        /\ m \in Where(R, s, Flowing) /\ R[m] = f
        /\ \A i \in Where(Q, s, Flowing) : i \in 1..Len(Q) /\ i \in Where(R, s, Flowing) /\ R[i] = Q[i]
    BY <1>1, <1>2 DEF AppendPlaces
  <1>4. \A i \in Where(Q, s, Flowing) :
          i \in 1..Len(Q) /\ Q[i].kind = "data" /\ Q[i].n \in 1..n /\ Num(Q[i], n) \in 1..n
    <2>1. Within(Q, s, n, "run")
      BY DEF FlowOK
    <2> QED BY <1>3, <2>1 DEF Within, Num
  <1>5. g <= n /\ Queued(E, n, "run", g) /\ g + Len(E) <= n /\ (\A i \in 1..Len(E) : E[i] # Eof) /\ d # "eof"
    BY FlowSent DEF FlowOK
  <1> HIDE DEF R, m
  <1>6. Within(R, s, n, "eof")
    BY <1>1, <1>3, <1>4 DEF Within
  <1>7. Ordered(R, s, n)
    <2> SUFFICES ASSUME NEW i \in Where(R, s, Flowing), NEW j \in Where(R, s, Flowing), i < j
                 PROVE  Num(R[i], n) < Num(R[j], n)
      BY DEF Ordered
    <2>1. i \in Where(Q, s, Flowing)
      BY <1>3, <1>4 DEF m
    <2>2. CASE j = m
      BY <2>1, <2>2, <1>1, <1>3, <1>4
    <2>3. CASE j \in Where(Q, s, Flowing)
      BY <2>1, <2>3, <1>3, <1>4 DEF FlowOK, Ordered
    <2> QED BY <1>3, <2>2, <2>3
  <1>8. ASSUME r PROVE Gapless(R, s, n, e)
    <2>1. Gapless(Q, s, n, e) /\ Topped(Q, s, n, e)
      BY <1>8 DEF FlowOK
    <2> SUFFICES ASSUME NEW j \in Where(R, s, Flowing)
                 PROVE  /\ Num(R[j], n) >= e
                        /\ Num(R[j], n) > e =>
                             \E i \in Where(R, s, Flowing) : i < j /\ Num(R[i], n) = Num(R[j], n) - 1
      BY DEF Gapless
    <2>2. CASE j = m
      <3>1. Num(R[j], n) = n + 1 /\ n + 1 >= e
        BY <2>2, <1>1, <1>3, <1>5
      <3>2. ASSUME n + 1 > e PROVE \E i \in Where(R, s, Flowing) : i < j /\ Num(R[i], n) = n
        <4>1. PICK i \in Where(Q, s, Flowing) : Num(Q[i], n) = n
          BY <2>1, <3>2 DEF Topped
        <4> QED BY <4>1, <2>2, <1>3, <1>4 DEF m
      <3> QED BY <3>1, <3>2
    <2>3. CASE j \in Where(Q, s, Flowing)
      <3>1. Num(R[j], n) = Num(Q[j], n) /\ Num(Q[j], n) >= e
        BY <2>1, <2>3, <1>3 DEF Gapless
      <3>2. ASSUME Num(Q[j], n) > e
            PROVE  \E i \in Where(R, s, Flowing) : i < j /\ Num(R[i], n) = Num(Q[j], n) - 1
        <4>1. PICK i \in Where(Q, s, Flowing) : i < j /\ Num(Q[i], n) = Num(Q[j], n) - 1
          BY <2>1, <2>3, <3>2 DEF Gapless
        <4> QED BY <4>1, <1>3
      <3> QED BY <3>1, <3>2
    <2> QED BY <1>3, <2>2, <2>3
  <1>9. Queued(E, n, "eof", g)
    BY <1>5 DEF Queued
  <1> QED BY <1>5, <1>6, <1>7, <1>8, <1>9 DEF FlowOK, R, f

\* The demux routes the first frame of the flow: it is the one expected.
LEMMA FlowRoute ==
  ASSUME NEW Q \in Seq(Frames), NEW s \in Sids, NEW n \in Nat, NEW g \in Nat, NEW E \in Seq(Nat), NEW u, NEW a, NEW d,
         FlowOK(Q, s, n, u, a, g, E, d, TRUE),
         Q # <<>>, Head(Q).sid = s, Head(Q).kind \in Flowing
  PROVE  FlowOK(Tail(Q), s, n, u, a, g, Append(E, Event(Head(Q))), d, TRUE)
  <1> DEFINE R == Tail(Q)
             F == Append(E, Event(Head(Q)))
             e == g + Len(E) + 1
  <1>0. Q[1] \in Frames /\ e \in Nat /\ Len(E) \in Nat
    <2>1. Len(Q) \in Nat /\ Len(Q) # 0
      BY EmptySeq
    <2> QED BY <2>1
  <1>1. TailPlaces(Q, s, Flowing)
    BY WhereTail
  <1>2. /\ 1 \in Where(Q, s, Flowing) /\ Head(Q) = Q[1] /\ Q[1] \in Frames
        /\ \A i \in Where(R, s, Flowing) : i \in Nat /\ i >= 1 /\ i + 1 \in Where(Q, s, Flowing) /\ R[i] = Q[i + 1]
        /\ \A j \in Where(Q, s, Flowing) : j \in Nat /\ j >= 1
        /\ \A j \in Where(Q, s, Flowing) : j > 1 => j - 1 \in Where(R, s, Flowing) /\ R[j - 1] = Q[j]
    BY <1>0, <1>1 DEF TailPlaces
  <1>3. /\ Within(Q, s, n, u) /\ Ordered(Q, s, n) /\ Gapless(Q, s, n, e) /\ g <= n /\ Queued(E, n, u, g)
        /\ a /\ u = "run" => Topped(Q, s, n, e)
        /\ d # "eof" /\ u # "off" /\ \A i \in 1..Len(E) : E[i] # Eof
    BY <1>2 DEF FlowOK
  <1>4. \A i \in Where(Q, s, Flowing) : Num(Q[i], n) \in 1..(n + 1)
    BY <1>3, FlowNums
  <1>5. Num(Q[1], n) = e
    <2>1. Num(Q[1], n) >= e
      BY <1>2, <1>3 DEF Gapless
    <2>2. ~(Num(Q[1], n) > e)
      <3> SUFFICES ASSUME Num(Q[1], n) > e PROVE FALSE
        OBVIOUS
      <3>1. PICK i \in Where(Q, s, Flowing) : i < 1
        BY <1>2, <1>3 DEF Gapless
      <3> QED BY <1>2, <3>1
    <2>3. Num(Q[1], n) \in Int
      BY <1>2, <1>4
    <2> HIDE DEF e
    <2> QED BY <1>0, <2>1, <2>2, <2>3
  <1>6. /\ F \in Seq(Nat) /\ Len(F) = Len(E) + 1 /\ g + Len(F) + 1 = e + 1
        /\ \A i \in 1..Len(E) : F[i] = E[i]
        /\ F[Len(E) + 1] = Event(Q[1])
    BY <1>2, AppendProperties DEF Event, Frames, Eof
  <1>7. IF Event(Q[1]) = Eof THEN u = "eof" /\ Q[1].kind = "eof" /\ e = n + 1 ELSE Event(Q[1]) = e /\ e <= n
    BY <1>2, <1>3, <1>5 DEF Within, Num, Event, Eof, Frames, Flowing, Where
  <1> HIDE DEF R, F
  <1>8. Queued(F, n, u, g)
    <2> SUFFICES ASSUME NEW i \in 1..Len(F)
                 PROVE  IF F[i] = Eof THEN u = "eof" /\ g + i = n + 1
                                      ELSE F[i] = g + i /\ F[i] <= n
      BY DEF Queued
    <2>1. CASE i \in 1..Len(E)
      BY <1>3, <1>6, <2>1 DEF Queued
    <2>2. CASE i = Len(E) + 1
      <3>1. F[i] = Event(Q[1]) /\ g + i = e
        BY <1>0, <1>6, <2>2
      <3> QED BY <1>7, <3>1
    <2> QED BY <1>0, <1>6, <2>1, <2>2
  <1>9. Within(R, s, n, u)
    <2> SUFFICES ASSUME NEW i \in Where(R, s, Flowing)
                 PROVE  IF R[i].kind = "data" THEN R[i].n \in 1..n ELSE u = "eof"
      BY DEF Within
    <2>1. i + 1 \in Where(Q, s, Flowing) /\ R[i] = Q[i + 1]
      BY <1>2
    <2>2. IF Q[i + 1].kind = "data" THEN Q[i + 1].n \in 1..n ELSE u = "eof"
      BY <1>3, <2>1 DEF Within
    <2> QED BY <2>1, <2>2
  <1>10. Ordered(R, s, n)
    BY <1>2, <1>3 DEF Ordered
  <1>11. Gapless(R, s, n, e + 1)
    <2> SUFFICES ASSUME NEW j \in Where(R, s, Flowing)
                 PROVE  /\ Num(R[j], n) >= e + 1
                        /\ Num(R[j], n) > e + 1 =>
                             \E i \in Where(R, s, Flowing) : i < j /\ Num(R[i], n) = Num(R[j], n) - 1
      BY DEF Gapless
    <2>1. j \in Nat /\ j >= 1 /\ j + 1 \in Where(Q, s, Flowing) /\ R[j] = Q[j + 1] /\ Num(R[j], n) \in Nat
      BY <1>2, <1>4
    <2>2. Num(R[j], n) > e
      BY <1>2, <1>3, <1>5, <2>1 DEF Ordered
    <2>3. ASSUME Num(R[j], n) > e + 1
          PROVE  \E i \in Where(R, s, Flowing) : i < j /\ Num(R[i], n) = Num(R[j], n) - 1
      <3>1. PICK i \in Where(Q, s, Flowing) : i < j + 1 /\ Num(Q[i], n) = Num(R[j], n) - 1
        BY <1>3, <2>1, <2>2 DEF Gapless
      <3>2. i # 1
        BY <1>5, <2>1, <2>3, <3>1
      <3>3. i > 1 /\ i \in Nat
        BY <1>2, <3>2
      <3>4. i - 1 \in Where(R, s, Flowing) /\ R[i - 1] = Q[i]
        BY <1>2, <3>3
      <3> QED BY <2>1, <3>1, <3>3, <3>4
    <2> QED BY <2>1, <2>2, <2>3
  <1>12. ASSUME a, u = "run" PROVE Topped(R, s, n, e + 1)
    <2> SUFFICES ASSUME n >= e + 1 PROVE \E i \in Where(R, s, Flowing) : Num(R[i], n) = n
      BY DEF Topped
    <2>1. PICK i \in Where(Q, s, Flowing) : Num(Q[i], n) = n
      BY <1>3, <1>12 DEF Topped
    <2>2. i # 1
      BY <1>5, <2>1
    <2>3. i > 1
      BY <1>2, <2>2
    <2> QED BY <1>2, <2>1, <2>3
  <1>13. ASSUME NEW i \in 1..Len(F), F[i] = Eof PROVE Where(R, s, Flowing) = {}
    <2>0. i \in 1..Len(E) \/ i = Len(E) + 1
      BY <1>0, <1>6
    <2>1. Event(Q[1]) = Eof
      BY <2>0, <1>3, <1>6, <1>13
    <2>2. e = n + 1
      BY <1>7, <2>1
    <2> SUFFICES ASSUME NEW j \in Where(R, s, Flowing) PROVE FALSE
      OBVIOUS
    <2>3. j \in Nat /\ j >= 1 /\ j + 1 \in Where(Q, s, Flowing)
      BY <1>2
    <2>4. Num(Q[1], n) < Num(Q[j + 1], n)
      BY <1>2, <1>3, <2>3 DEF Ordered
    <2> QED BY <1>4, <1>5, <2>2, <2>3, <2>4
  <1>14. FlowOK(R, s, n, u, a, g, F, d, TRUE)
    BY <1>3, <1>6, <1>8, <1>9, <1>10, <1>11, <1>12, <1>13 DEF FlowOK
  <1> QED BY <1>14 DEF R, F

\* The demux drops the first frame of the queue and routes no more of the flow.
LEMMA FlowDrop ==
  ASSUME NEW Q \in Seq(Frames), NEW s \in Sids, NEW n \in Nat, NEW g \in Nat, NEW E \in Seq(Nat), NEW u, NEW a, NEW d, NEW r, NEW t, ~t,
         FlowOK(Q, s, n, u, a, g, E, d, r), Q # <<>>
  PROVE  FlowOK(Tail(Q), s, n, u, a, g, E, d, t)
  <1> DEFINE R == Tail(Q)
  <1>1. TailPlaces(Q, s, Flowing)
    BY WhereTail
  <1>2. \A i \in Where(R, s, Flowing) : i \in Nat /\ i + 1 \in Where(Q, s, Flowing) /\ R[i] = Q[i + 1]
    BY <1>1 DEF TailPlaces
  <1> HIDE DEF R
  <1>3. Within(R, s, n, u)
    BY <1>2 DEF Within, FlowOK
  <1>4. Ordered(R, s, n)
    BY <1>2 DEF Ordered, FlowOK
  <1>5. Where(Q, s, Flowing) = {} => Where(R, s, Flowing) = {}
    BY <1>2
  <1>6. FlowOK(R, s, n, u, a, g, E, d, t)
    BY <1>3, <1>4, <1>5 DEF FlowOK
  <1> QED BY <1>6 DEF R

\* The sending end dies: its queue is cut, and it sends no more.
LEMMA FlowCut ==
  ASSUME NEW Q \in Seq(Frames), NEW s \in Sids, NEW n \in Nat, NEW g \in Nat, NEW E \in Seq(Nat), NEW u, NEW a, NEW d, NEW r, NEW m \in 0..Len(Q),
         FlowOK(Q, s, n, u, a, g, E, d, r)
  PROVE  FlowOK(SubSeq(Q, 1, m), s, n, u, FALSE, g, E, d, r)
  <1> DEFINE R == SubSeq(Q, 1, m)
             e == g + Len(E) + 1
  <1>1. PrefixPlaces(Q, m, s, Flowing)
    BY WherePrefix
  <1>2. /\ \A i : i \in Where(R, s, Flowing) <=> i \in Where(Q, s, Flowing) /\ i <= m
        /\ \A i \in Where(R, s, Flowing) : i \in Nat /\ R[i] = Q[i]
        /\ \A i \in Where(Q, s, Flowing) : i \in Nat
    BY <1>1 DEF PrefixPlaces
  <1> HIDE DEF R
  <1>3. Within(R, s, n, u)
    BY <1>2 DEF Within, FlowOK
  <1>4. Ordered(R, s, n)
    BY <1>2 DEF Ordered, FlowOK
  <1>5. ASSUME r PROVE Gapless(R, s, n, e)
    <2>0. Gapless(Q, s, n, e)
      BY <1>5 DEF FlowOK
    <2> SUFFICES ASSUME NEW j \in Where(R, s, Flowing)
                 PROVE  /\ Num(R[j], n) >= e
                        /\ Num(R[j], n) > e =>
                             \E i \in Where(R, s, Flowing) : i < j /\ Num(R[i], n) = Num(R[j], n) - 1
      BY DEF Gapless
    <2>1. j \in Where(Q, s, Flowing) /\ j <= m /\ R[j] = Q[j] /\ j \in Nat
      BY <1>2
    <2>2. ASSUME Num(Q[j], n) > e
          PROVE  \E i \in Where(R, s, Flowing) : i < j /\ Num(R[i], n) = Num(Q[j], n) - 1
      <3>1. PICK i \in Where(Q, s, Flowing) : i < j /\ Num(Q[i], n) = Num(Q[j], n) - 1
        BY <2>0, <2>1, <2>2 DEF Gapless
      <3>2. i \in Where(R, s, Flowing)
        BY <1>2, <2>1, <3>1
      <3> QED BY <1>2, <3>1, <3>2
    <2> QED BY <2>0, <2>1, <2>2 DEF Gapless
  <1>6. Where(Q, s, Flowing) = {} => Where(R, s, Flowing) = {}
    BY <1>2
  <1>7. FlowOK(R, s, n, u, FALSE, g, E, d, r)
    BY <1>3, <1>4, <1>5, <1>6 DEF FlowOK
  <1> QED BY <1>7 DEF R

\* The socket takes the first event: it is the next chunk.
LEMMA FlowTake ==
  ASSUME NEW Q \in Seq(Frames), NEW s \in Sids, NEW n \in Nat, NEW g \in Nat, NEW E \in Seq(Nat), NEW u, NEW a, NEW d, NEW r,
         FlowOK(Q, s, n, u, a, g, E, d, r), E # <<>>, Head(E) # Eof
  PROVE  Head(E) = g + 1 /\ g < n /\ FlowOK(Q, s, n, u, a, g + 1, Tail(E), d, r)
  <1>1. /\ Len(E) \in Nat /\ Len(E) >= 1 /\ Head(E) = E[1]
        /\ Len(Tail(E)) = Len(E) - 1 /\ \A i \in 1..Len(Tail(E)) : Tail(E)[i] = E[i + 1]
    BY HeadTailProperties, EmptySeq
  <1>2. Queued(E, n, u, g)
    BY DEF FlowOK
  <1>3. E[1] = g + 1 /\ E[1] <= n
    BY <1>1, <1>2 DEF Queued
  <1>4. Queued(Tail(E), n, u, g + 1)
    <2> SUFFICES ASSUME NEW i \in 1..Len(Tail(E))
                 PROVE  IF Tail(E)[i] = Eof THEN u = "eof" /\ (g + 1) + i = n + 1
                                            ELSE Tail(E)[i] = (g + 1) + i /\ Tail(E)[i] <= n
      BY DEF Queued
    <2>1. i + 1 \in 1..Len(E) /\ Tail(E)[i] = E[i + 1] /\ (g + 1) + i = g + (i + 1)
      BY <1>1
    <2> QED BY <1>2, <2>1 DEF Queued
  <1>5. (\E i \in 1..Len(Tail(E)) : Tail(E)[i] = Eof) => \E i \in 1..Len(E) : E[i] = Eof
    <2> SUFFICES ASSUME NEW i \in 1..Len(Tail(E)), Tail(E)[i] = Eof PROVE \E j \in 1..Len(E) : E[j] = Eof
      OBVIOUS
    <2>1. i + 1 \in 1..Len(E) /\ E[i + 1] = Eof
      BY <1>1
    <2> QED BY <2>1
  <1>6. (g + 1) + Len(Tail(E)) + 1 = g + Len(E) + 1
    BY <1>1
  <1>7. d = "eof" => g = n
    BY DEF FlowOK
  <1> QED BY <1>1, <1>3, <1>4, <1>5, <1>6, <1>7 DEF FlowOK

\* The first event is EOF: the socket has all there is.
LEMMA FlowLast ==
  ASSUME NEW Q \in Seq(Frames), NEW s \in Sids, NEW n \in Nat, NEW g \in Nat, NEW E \in Seq(Nat), NEW u, NEW a, NEW d, NEW r,
         FlowOK(Q, s, n, u, a, g, E, d, r), E # <<>>, Head(E) = Eof
  PROVE  u = "eof" /\ g = n /\ Where(Q, s, Flowing) = {}
  <1>1. Len(E) \in Nat /\ Len(E) >= 1 /\ Head(E) = E[1]
    BY EmptySeq
  <1>2. u = "eof" /\ g = n
    BY <1>1 DEF FlowOK, Queued
  <1>3. Where(Q, s, Flowing) = {}
    BY <1>1 DEF FlowOK
  <1> QED BY <1>2, <1>3

\* pump_down takes EOF.
LEMMA FlowEnd ==
  ASSUME NEW Q \in Seq(Frames), NEW s \in Sids, NEW n \in Nat, NEW g \in Nat, NEW E \in Seq(Nat), NEW u, NEW a, NEW d, NEW r, NEW t,
         FlowOK(Q, s, n, u, a, g, E, d, r), E # <<>>, Head(E) = Eof
  PROVE  FlowOK(Q, s, n, u, a, g, <<>>, "eof", t)
  <1>1. u = "eof" /\ g = n /\ Where(Q, s, Flowing) = {}
    BY FlowLast
  <1>2. Queued(<<>>, n, u, g)
    BY DEF Queued
  <1>3. Within(Q, s, n, u) /\ Ordered(Q, s, n) /\ Gapless(Q, s, n, g + Len(<<>>) + 1)
    BY <1>1 DEF Within, Ordered, Gapless
  <1> QED BY <1>1, <1>2, <1>3 DEF FlowOK

\* The receiver drops the events of a flow that is not routed any more.
LEMMA FlowClear ==
  ASSUME NEW Q, NEW s, NEW n, NEW u, NEW a, NEW g, NEW E, NEW d, FlowOK(Q, s, n, u, a, g, E, d, FALSE)
  PROVE  FlowOK(Q, s, n, u, a, g, <<>>, d, FALSE)
  <1>1. Queued(<<>>, n, u, g) /\ \A i \in 1..Len(<<>>) : FALSE
    BY DEF Queued
  <1> QED BY <1>1 DEF FlowOK

\* Before the sending pump starts there is nothing to lose: the flow may be
\* routed from now on, and the pump may start.
LEMMA FlowFresh ==
  ASSUME NEW Q \in Seq(Frames), NEW s \in Sids, NEW n \in Nat, NEW g \in Nat, NEW E \in Seq(Nat), NEW R \in Seq(Frames),
         NEW a, NEW b, NEW d, NEW c, NEW r, NEW t, NEW u, u \in {"off", "run"},
         FlowOK(Q, s, n, "off", a, g, E, d, r), Kept(Q, R, s, Flowing), c = "eof" => d = "eof"
  PROVE  FlowOK(R, s, n, u, b, g, E, c, t)
  <1>1. n = 0 /\ g <= n /\ Where(Q, s, Flowing) = {} /\ Queued(E, n, "off", g) /\ d # "eof"
    BY DEF FlowOK
  <1>2. Where(R, s, Flowing) = {}
    BY <1>1, KeptFlow
  <1>3. \A i \in 1..Len(E) : E[i] # Eof
    BY <1>1 DEF Queued
  <1>4. Queued(E, n, u, g)
    BY <1>1, <1>3 DEF Queued
  <1>5. Within(R, s, n, u) /\ Ordered(R, s, n) /\ Gapless(R, s, n, g + Len(E) + 1) /\ Topped(R, s, n, g + Len(E) + 1)
    BY <1>1, <1>2 DEF Within, Ordered, Gapless, Topped
  <1> QED BY <1>1, <1>2, <1>3, <1>4, <1>5 DEF FlowOK

\* The sending pump stops before its EOF.
LEMMA FlowStop ==
  ASSUME NEW Q \in Seq(Frames), NEW s \in Sids, NEW n \in Nat, NEW g \in Nat, NEW E \in Seq(Nat), NEW R \in Seq(Frames),
         NEW a, NEW b, NEW d, NEW r,
         FlowOK(Q, s, n, "run", a, g, E, d, r), Kept(Q, R, s, Flowing)
  PROVE  FlowOK(R, s, n, "closed", b, g, E, d, r)
  <1> DEFINE e == g + Len(E) + 1
  <1>1. /\ Within(Q, s, n, "run") => Within(R, s, n, "run")
        /\ Ordered(Q, s, n) => Ordered(R, s, n)
        /\ Gapless(Q, s, n, e) => Gapless(R, s, n, e)
        /\ Where(Q, s, Flowing) = {} => Where(R, s, Flowing) = {}
    BY KeptFlow
  <1>2. Within(R, s, n, "run") => Within(R, s, n, "closed")
    BY DEF Within
  <1>3. Queued(E, n, "run", g) => Queued(E, n, "closed", g)
    BY DEF Queued
  <1> QED BY <1>1, <1>2, <1>3 DEF FlowOK

----------------------------------------------------------------------------
(* Steps of the tunnel *)

\* The two ends.
LEMMA Ends ==
  /\ Client \in Sides /\ Server \in Sides /\ Peer(Client) = Server /\ Peer(Server) = Client
  /\ Client # Server
  /\ \A x \in Sides : Peer(x) \in Sides /\ Peer(x) # x /\ Peer(Peer(x)) = x
  /\ \A x, z \in Sides : z = x \/ z = Peer(x)
  /\ \A x \in Sides : x = Client \/ x = Server
  BY DEF Sides, Client, Server, Peer

\* A step leaves stream t alone: it may only stop routing it, or kill an end.
EndSame(z, t) ==
  /\ st'[z][t] = st[z][t] /\ up'[z][t] = up[z][t] /\ down'[z][t] = down[z][t]
  /\ sent'[z][t] = sent[z][t] /\ got'[z][t] = got[z][t] /\ ev'[z][t] = ev[z][t]
  /\ t \in reg'[z] => t \in reg[z]
  /\ alive'[z] => alive[z]
StreamSame(t) == \A z \in Sides : EndSame(z, t)

\* It keeps the frames of end z that matter to stream t.
QueueKept(z, t) ==
  /\ Kept(q[z], q'[z], t, Flowing)
  /\ Kept(q[z], q'[z], t, {"open"})
  /\ Kept(q[z], q'[z], t, Replies)

Elsewhere(s) ==
  \A t \in Sids \ {s} : StreamSame(t) /\ \A z \in Sides : QueueKept(z, t)

QueuesTyped == q' \in [Sides -> Seq(Frames)] /\ \A z \in Sides : Len(q'[z]) =< OutCap

\* The types of one flow's values.
LEMMA FlowTypes ==
  ASSUME Shapes, NEW z \in Sides, NEW t \in Sids
  PROVE  /\ q[z] \in Seq(Frames) /\ sent[z][t] \in Nat
         /\ Len(got[Peer(z)][t]) \in Nat /\ ev[Peer(z)][t] \in Seq(Nat)
  <1>1. Peer(z) \in Sides
    BY Ends
  <1>2. got[Peer(z)][t] \in Seq(Nat \ {0})
    BY <1>1 DEF Shapes
  <1> QED BY <1>1, <1>2, LenProperties DEF Shapes

\* No OPEN or REPLY frame of the stream appears.
Signals(z, t) ==
  /\ Once(q[z], t, {"open"}) => Once(q'[z], t, {"open"})
  /\ Where(q[z], t, {"open"}) = {} => Where(q'[z], t, {"open"}) = {}
  /\ Once(q[z], t, Replies) => Once(q'[z], t, Replies)
  /\ Where(q[z], t, Replies) = {} => Where(q'[z], t, Replies) = {}

\* A queue that is kept signals nothing new.
LEMMA SignalsPair ==
  ASSUME Shapes, QueuesTyped, NEW z \in Sides, NEW t \in Sids,
         Kept(q[z], q'[z], t, {"open"}), Kept(q[z], q'[z], t, Replies)
  PROVE  Signals(z, t)
  <1>1. q[z] \in Seq(Frames) /\ q'[z] \in Seq(Frames)
    BY DEF Shapes, QueuesTyped
  <1>2. ASSUME NEW K, Kept(q[z], q'[z], t, K)
        PROVE  /\ Once(q[z], t, K) => Once(q'[z], t, K)
               /\ Where(q[z], t, K) = {} => Where(q'[z], t, K) = {}
    BY <1>1, <1>2, KeptOnce
  <1> QED BY <1>2 DEF Signals

\* The same for a queue kept in all kinds.
LEMMA SignalsKept ==
  ASSUME Shapes, QueuesTyped, NEW z \in Sides, NEW t \in Sids, QueueKept(z, t)
  PROVE  Signals(z, t)
  BY SignalsPair DEF QueueKept

\* A frame taken signals nothing new.
LEMMA SignalsTaken ==
  ASSUME Shapes, NEW z \in Sides, NEW t \in Sids, q[z] # <<>>, q'[z] = Tail(q[z])
  PROVE  Signals(z, t)
  <1>1. q[z] \in Seq(Frames)
    BY DEF Shapes
  <1>2. ASSUME NEW K
        PROVE  /\ Once(q[z], t, K) => Once(q'[z], t, K)
               /\ Where(q[z], t, K) = {} => Where(q'[z], t, K) = {}
    BY <1>1, OnceTail
  <1> QED BY <1>2 DEF Signals

\* Pumps that run do not matter to the opening protocol.
OpenPumps(t) ==
  \A z \in Sides : /\ (up'[z][t] = "off") = (up[z][t] = "off")
                   /\ (down'[z][t] = "off") = (down[z][t] = "off")

\* Steps of running pumps leave the opening protocol alone.
LEMMA PumpsOpened ==
  ASSUME NEW t \in Sids, Opened(t), Signals(Client, t), Signals(Server, t), OpenPumps(t),
         st'[Client][t] = st[Client][t], st'[Server][t] = st[Server][t]
  PROVE  Opened(t)'
  BY Ends DEF Opened, OpenOK, Signals, OpenPumps

\* The frames, events and chunks of flow z of stream t stay.
Held(z, t) ==
  /\ sent'[z][t] = sent[z][t] /\ got'[Peer(z)][t] = got[Peer(z)][t]
  /\ Kept(q[z], q'[z], t, Flowing)
  /\ down'[Peer(z)][t] = "eof" => down[Peer(z)][t] = "eof"

\* A flow whose values are held, or only given up, stays intact.
LEMMA FlowHeld ==
  ASSUME Shapes, QueuesTyped, NEW z \in Sides, NEW t \in Sids, Flow(z, t), Held(z, t),
         up'[z][t] = up[z][t], alive'[z] => alive[z], ev'[Peer(z)][t] = ev[Peer(z)][t],
         Routed(Peer(z), t)' => Routed(Peer(z), t)
  PROVE  Flow(z, t)'
  <1>1. /\ q[z] \in Seq(Frames) /\ sent[z][t] \in Nat
        /\ Len(got[Peer(z)][t]) \in Nat /\ ev[Peer(z)][t] \in Seq(Nat)
    BY FlowTypes
  <1>2. q'[z] \in Seq(Frames)
    BY DEF QueuesTyped
  <1> QED BY <1>1, <1>2, FlowKept DEF Flow, Held

\* The sending pump is idle: it may start, and its flow may be routed.
LEMMA FlowStart ==
  ASSUME Shapes, QueuesTyped, NEW z \in Sides, NEW t \in Sids, Flow(z, t), Held(z, t),
         up[z][t] = "off", up'[z][t] \in {"off", "run"}, ev'[Peer(z)][t] = ev[Peer(z)][t]
  PROVE  Flow(z, t)'
  <1>1. /\ q[z] \in Seq(Frames) /\ sent[z][t] \in Nat
        /\ Len(got[Peer(z)][t]) \in Nat /\ ev[Peer(z)][t] \in Seq(Nat)
    BY FlowTypes
  <1>2. q'[z] \in Seq(Frames)
    BY DEF QueuesTyped
  <1>3. FlowOK(q[z], t, sent[z][t], "off", alive[z], Len(got[Peer(z)][t]), ev[Peer(z)][t],
               down[Peer(z)][t], Routed(Peer(z), t))
    BY DEF Flow
  <1> QED BY <1>1, <1>2, <1>3, FlowFresh DEF Flow, Held

\* The receiving end drops the stream's events and routes no more.
LEMMA FlowDropped ==
  ASSUME Shapes, QueuesTyped, NEW z \in Sides, NEW t \in Sids, Flow(z, t), Held(z, t),
         up'[z][t] = up[z][t], alive'[z] => alive[z], ev'[Peer(z)][t] = <<>>, ~Routed(Peer(z), t)'
  PROVE  Flow(z, t)'
  <1>1. /\ q[z] \in Seq(Frames) /\ sent[z][t] \in Nat
        /\ Len(got[Peer(z)][t]) \in Nat /\ ev[Peer(z)][t] \in Seq(Nat)
    BY FlowTypes
  <1>2. q'[z] \in Seq(Frames) /\ Routed(Peer(z), t)' = FALSE
    BY DEF QueuesTyped, Routed
  <1>3. FlowOK(q[z], t, sent[z][t], up[z][t], alive[z], Len(got[Peer(z)][t]), ev[Peer(z)][t],
               down[Peer(z)][t], Routed(Peer(z), t))
    BY DEF Flow
  <1>4. FlowOK(q'[z], t, sent[z][t], up[z][t], alive'[z], Len(got[Peer(z)][t]), ev[Peer(z)][t],
               down'[Peer(z)][t], Routed(Peer(z), t)')
    BY <1>1, <1>2, <1>3, FlowKept DEF Held
  <1>5. FlowOK(q'[z], t, sent[z][t], up[z][t], alive'[z], Len(got[Peer(z)][t]), <<>>,
               down'[Peer(z)][t], FALSE)
    BY <1>2, <1>4, FlowClear
  <1> QED BY <1>2, <1>5 DEF Flow, Held

\* A stream left alone keeps its opening.
LEMMA OpenSame ==
  ASSUME Shapes, Shapes', NEW t \in Sids, Opened(t), \A z \in Sides : QueueKept(z, t),
         \A z \in Sides : st'[z][t] = st[z][t] /\ up'[z][t] = up[z][t] /\ down'[z][t] = down[z][t]
  PROVE  Opened(t)'
  <1>1. Signals(Client, t) /\ Signals(Server, t)
    BY SignalsKept, Ends DEF Shapes, QueuesTyped
  <1> QED BY <1>1, Ends DEF Opened, OpenOK, Signals

\* A stream left alone keeps all it has.
LEMMA StreamKept ==
  ASSUME Shapes, Shapes', NEW t \in Sids, Opened(t), \A z \in Sides : Flow(z, t),
         StreamSame(t), \A z \in Sides : QueueKept(z, t)
  PROVE  Opened(t)' /\ \A z \in Sides : Flow(z, t)'
  <1>1. Opened(t)'
    BY OpenSame DEF StreamSame, EndSame
  <1>2. ASSUME NEW z \in Sides PROVE Flow(z, t)'
    <2>1. Peer(z) \in Sides /\ EndSame(z, t) /\ EndSame(Peer(z), t) /\ Kept(q[z], q'[z], t, Flowing)
      BY Ends DEF StreamSame, QueueKept
    <2>2. QueuesTyped
      BY DEF Shapes, QueuesTyped
    <2> QED BY <2>1, <2>2, FlowHeld DEF EndSame, Held, Routed
  <1> QED BY <1>1, <1>2

\* A step that concerns stream s only has to account for s.
LEMMA StepInv ==
  ASSUME MuxInv, Shapes', RegistryHeld', NEW s \in Sids, Elsewhere(s),
         Opened(s)', NEW x \in Sides, Flow(x, s)', Flow(Peer(x), s)'
  PROVE  MuxInv'
  <1>1. \A t \in Sids \ {s} : Opened(t)' /\ \A z \in Sides : Flow(z, t)'
    BY StreamKept DEF MuxInv, Elsewhere
  <1>2. \A z \in Sides : Flow(z, s)'
    BY Ends
  <1> QED BY <1>1, <1>2 DEF MuxInv

\* Entries that only go, and only from streams whose life they follow.
LEMMA RegistryShrinks ==
  ASSUME Shapes, RegistryHeld,
         \A z \in Sides : reg'[z] \subseteq reg[z], pend' \subseteq pend,
         \A z \in Sides : \A t \in reg'[z] : st'[z][t] \notin {"new", "ended"},
         \A t \in pend' : st'[Client][t] \in {"send", "reply"}
  PROVE  RegistryHeld'
  <1>1. IsFiniteSet(reg[Server])
    BY MuxAssumption, FS_Subset, Ends DEF Shapes
  <1>2. /\ IsFiniteSet(reg'[Server]) /\ Cardinality(reg'[Server]) \in Nat
        /\ Cardinality(reg[Server]) \in Nat
        /\ Cardinality(reg'[Server]) =< Cardinality(reg[Server])
    BY <1>1, FS_Subset, FS_CardinalityType, Ends
  <1> QED BY <1>2, MuxAssumption DEF RegistryHeld

\* The queues of a step that sends nothing.
LEMMA QueuesSame ==
  ASSUME Shapes, q' = q PROVE QueuesTyped /\ \A z \in Sides, t \in Sids : QueueKept(z, t)
  <1>1. \A z \in Sides : q[z] \in Seq(Frames)
    BY DEF Shapes
  <1> QED BY <1>1, KeptSame DEF QueueKept, QueuesTyped, Shapes

\* The queues of a step that sends one frame.
LEMMA QueuesPut ==
  ASSUME Shapes, NEW x \in Sides, NEW s \in Sids, NEW f \in Frames, f.sid = s, Room(x), q' = Put(x, f)
  PROVE  /\ QueuesTyped /\ q'[x] = Append(q[x], f) /\ q'[Peer(x)] = q[Peer(x)]
         /\ \A z \in Sides, t \in Sids \ {s} : QueueKept(z, t)
         /\ \A K : f.kind \notin K => Kept(q[x], q'[x], s, K)
         /\ QueueKept(Peer(x), s)
  <1>1. /\ q[x] \in Seq(Frames) /\ q[Peer(x)] \in Seq(Frames)
        /\ q'[x] = Append(q[x], f) /\ q'[Peer(x)] = q[Peer(x)]
    BY Ends DEF Shapes, Put
  <1>2. QueuesTyped
    <2>1. Append(q[x], f) \in Seq(Frames) /\ Len(Append(q[x], f)) = Len(q[x]) + 1 /\ Len(q[x]) \in Nat
      BY <1>1, AppendProperties
    <2>2. Len(Append(q[x], f)) =< OutCap
      BY <2>1, MuxAssumption DEF Room
    <2> QED BY <1>1, <2>1, <2>2, Ends DEF QueuesTyped, Shapes, Put
  <1>3. ASSUME NEW t \in Sids, NEW K, ~(f.sid = t /\ f.kind \in K) PROVE Kept(q[x], q'[x], t, K)
    BY <1>1, <1>3, KeptAppend
  <1>4. ASSUME NEW t \in Sids, NEW K PROVE Kept(q[Peer(x)], q'[Peer(x)], t, K)
    BY <1>1, KeptSame
  <1>5. ASSUME NEW z \in Sides, NEW t \in Sids \ {s} PROVE QueueKept(z, t)
    <2>1. CASE z = x
      BY <2>1, <1>3 DEF QueueKept
    <2>2. CASE z = Peer(x)
      BY <2>2, <1>4 DEF QueueKept
    <2> QED BY <2>1, <2>2, Ends
  <1> QED BY <1>1, <1>2, <1>3, <1>4, <1>5 DEF QueueKept

\* The queues of a step that may send CLOSE.
LEMMA QueuesClose ==
  ASSUME Shapes, NEW x \in Sides, NEW s \in Sids, TryClose(q, x, s)
  PROVE  QueuesTyped /\ lost' \subseteq Sides \X Sids /\ \A z \in Sides, t \in Sids : QueueKept(z, t)
  <1> DEFINE f == Frame("close", s)
  <1>1. f \in Frames /\ f.sid = s /\ f.kind = "close"
    BY DEF Frame, Frames
  <1>2. lost' \subseteq Sides \X Sids
    BY DEF TryClose, Shapes
  <1>3. CASE q' = q
    BY <1>2, <1>3, QueuesSame
  <1>4. CASE q' # q
    <2>1. Room(x) /\ q' = Put(x, f)
      BY <1>4 DEF TryClose, Room, Put
    <2>2. Kept(q[x], q'[x], s, Flowing) /\ Kept(q[x], q'[x], s, {"open"}) /\ Kept(q[x], q'[x], s, Replies)
      <3>1. f.kind \notin Flowing /\ f.kind \notin {"open"} /\ f.kind \notin Replies
        BY <1>1 DEF Flowing, Replies
      <3> HIDE DEF f
      <3> QED BY <1>1, <2>1, <3>1, QueuesPut
    <2>3. QueuesTyped /\ (\A z \in Sides, t \in Sids \ {s} : QueueKept(z, t)) /\ QueueKept(Peer(x), s)
      <3> HIDE DEF f
      <3> QED BY <1>1, <2>1, QueuesPut
    <2>4. QueueKept(x, s)
      BY <2>2 DEF QueueKept
    <2> QED BY <1>2, <2>3, <2>4, Ends
  <1> QED BY <1>3, <1>4

\* The receiving end x takes a frame of stream s, and may answer with CLOSE.
LEMMA QueuesTaken ==
  ASSUME Shapes, NEW x \in Sides, NEW s \in Sids, NEW kinds, Receives(x, kinds, s),
         q' = Taken(x) \/ TryClose(Taken(x), x, s),
         lost' = lost \/ TryClose(Taken(x), x, s)
  PROVE  /\ QueuesTyped /\ lost' \subseteq Sides \X Sids
         /\ q'[Peer(x)] = Tail(q[Peer(x)]) /\ q[Peer(x)] # <<>>
         /\ Head(q[Peer(x)]).sid = s /\ Head(q[Peer(x)]).kind \in kinds
         /\ \A z \in Sides, t \in Sids \ {s} : QueueKept(z, t)
         /\ QueueKept(x, s)
         /\ \A K : Head(q[Peer(x)]).kind \notin K => Kept(q[Peer(x)], q'[Peer(x)], s, K)
  <1> DEFINE f == Frame("close", s)
             y == Peer(x)
  <1>1. f \in Frames /\ f.sid = s /\ f.kind = "close"
    BY DEF Frame, Frames
  <1>2. lost' \subseteq Sides \X Sids
    BY DEF TryClose, Shapes
  <1>3. /\ q[x] \in Seq(Frames) /\ q[y] \in Seq(Frames) /\ q[y] # <<>> /\ x \in Sides /\ y \in Sides /\ y # x
        /\ Head(q[y]).sid = s /\ Head(q[y]).kind \in kinds
        /\ Len(q[x]) \in Nat /\ Len(q[x]) =< OutCap /\ Len(q[y]) \in Nat /\ Len(q[y]) =< OutCap
    <2>1. y \in Sides /\ y # x
      BY Ends
    <2>2. q[x] \in Seq(Frames) /\ q[y] \in Seq(Frames) /\ Len(q[x]) =< OutCap /\ Len(q[y]) =< OutCap
      BY <2>1 DEF Shapes
    <2>3. q[y] # <<>> /\ Head(q[y]).sid = s /\ Head(q[y]).kind \in kinds
      BY DEF Receives
    <2>4. Len(q[x]) \in Nat /\ Len(q[y]) \in Nat
      BY <2>2
    <2> QED BY <2>1, <2>2, <2>3, <2>4
  <1>4. Taken(x) \in [Sides -> Seq(Frames)] /\ Taken(x)[x] = q[x] /\ Taken(x)[y] = Tail(q[y])
    BY <1>3, HeadTailProperties DEF Shapes, Taken
  <1>5. /\ q' = Taken(x) \/ (Len(q[x]) < OutCap /\ q' = [Taken(x) EXCEPT ![x] = Append(@, f)])
    BY <1>4 DEF TryClose
  <1> HIDE DEF f, y
  <1>6. q'[y] = Tail(q[y]) /\ (q'[x] = q[x] \/ (Len(q[x]) < OutCap /\ q'[x] = Append(q[x], f)))
    BY <1>3, <1>4, <1>5
  <1>7. Tail(q[y]) \in Seq(Frames) /\ Len(Tail(q[y])) = Len(q[y]) - 1
    BY <1>3, HeadTailProperties
  <1>8. Append(q[x], f) \in Seq(Frames) /\ Len(Append(q[x], f)) = Len(q[x]) + 1
    BY <1>1, <1>3, AppendProperties
  <1>9. \A z \in Sides : z = x \/ z = y
    BY Ends DEF y
  <1>10. QueuesTyped
    <2>1. q' \in [Sides -> Seq(Frames)]
      BY <1>3, <1>4, <1>5, <1>8
    <2>2. Len(q'[y]) =< OutCap
      BY <1>3, <1>6, <1>7, MuxAssumption
    <2>3. Len(q'[x]) =< OutCap
      BY <1>3, <1>6, <1>8, MuxAssumption
    <2> QED BY <1>9, <2>1, <2>2, <2>3 DEF QueuesTyped
  <1>11. ASSUME NEW t \in Sids, NEW K, f.kind \notin K PROVE Kept(q[x], q'[x], t, K)
    BY <1>1, <1>3, <1>6, <1>11, KeptSame, KeptAppend
  <1>12. ASSUME NEW t \in Sids PROVE QueueKept(x, t)
    <2>1. f.kind \notin Flowing /\ f.kind \notin {"open"} /\ f.kind \notin Replies
      BY <1>1 DEF Flowing, Replies
    <2> QED BY <1>11, <2>1 DEF QueueKept
  <1>13. ASSUME NEW t \in Sids, NEW K, ~(t = s /\ Head(q[y]).kind \in K) PROVE Kept(q[y], q'[y], t, K)
    BY <1>3, <1>6, <1>13, KeptTail
  <1>14. ASSUME NEW t \in Sids \ {s} PROVE QueueKept(y, t)
    BY <1>13 DEF QueueKept
  <1> QED BY <1>2, <1>3, <1>6, <1>9, <1>10, <1>12, <1>13, <1>14 DEF y

\* What the steps do to one stream's events.
EventsTyped ==
  ev' \in [Sides -> [Sids -> Seq(Nat)]] /\ \A z \in Sides, t \in Sids : Len(ev'[z][t]) =< EvCap

\* The channels of a step that writes one of them.
LEMMA EventsSet ==
  ASSUME Shapes, NEW x \in Sides, NEW s \in Sids, NEW F \in Seq(Nat), Len(F) =< EvCap,
         ev' = [ev EXCEPT ![x][s] = F]
  PROVE  EventsTyped
  <1>1. ev' \in [Sides -> [Sids -> Seq(Nat)]]
    BY DEF Shapes
  <1>2. ASSUME NEW z \in Sides, NEW t \in Sids PROVE Len(ev'[z][t]) =< EvCap
    <2>1. ev'[z][t] = F \/ ev'[z][t] = ev[z][t]
      BY DEF Shapes
    <2> QED BY <2>1 DEF Shapes
  <1> QED BY <1>1, <1>2 DEF EventsTyped

----------------------------------------------------------------------------
(* Tunnel::open *)

\* open_stream registers the stream.
LEMMA RegisterInv == ASSUME MuxInv, NEW s \in Sids, Register(s) PROVE MuxInv'
  <1>0. Shapes /\ RegistryHeld
    BY DEF MuxInv
  <1>1. QueuesTyped /\ \A z \in Sides, t \in Sids : QueueKept(z, t)
    BY QueuesSame DEF Register, MuxInv
  <1>2. Shapes'
    BY <1>1, Ends DEF MuxInv, Shapes, Register, pumpVars, StreamStates, QueuesTyped
  <1>3. Elsewhere(s)
    <2>1. ASSUME NEW t \in Sids \ {s}, NEW z \in Sides PROVE EndSame(z, t)
      BY <1>0 DEF Shapes, Register, pumpVars, EndSame
    <2> QED BY <1>1, <2>1 DEF Elsewhere, StreamSame
  <1>4. Opened(s) /\ Flow(Client, s) /\ Flow(Server, s)
    BY Ends DEF MuxInv
  <1>5. st[Client][s] = "new" /\ st[Server][s] = "new" /\ up[Server][s] = "off"
    BY <1>4 DEF Register, Opened, OpenOK, Early
  <1>6. RegistryHeld'
    <2>1. reg'[Server] = reg[Server] /\ reg'[Client] = reg[Client] \cup {s} /\ pend' = pend \cup {s}
      BY Ends DEF Register, MuxInv, Shapes
    <2>2. st'[Client][s] = "send" /\ \A z \in Sides, t \in Sids : z # Client \/ t # s => st'[z][t] = st[z][t]
      BY Ends DEF Register, MuxInv, Shapes
    <2>3. \A z \in Sides : \A t \in reg'[z] : st'[z][t] \notin {"new", "ended"}
      <3> SUFFICES ASSUME NEW z \in Sides, NEW t \in reg'[z] PROVE st'[z][t] \notin {"new", "ended"}
        OBVIOUS
      <3>1. CASE z = Client
        BY <1>0, <2>1, <2>2, <3>1, Ends DEF Shapes, RegistryHeld
      <3>2. CASE z = Server
        BY <1>0, <2>1, <2>2, <3>2, Ends DEF Shapes, RegistryHeld
      <3> QED BY <3>1, <3>2, Ends
    <2>4. \A t \in pend' : st'[Client][t] \in {"send", "reply"}
      BY <1>0, <2>1, <2>2, Ends DEF Shapes, RegistryHeld
    <2> QED BY <1>0, <2>1, <2>3, <2>4 DEF RegistryHeld
  <1>7. Opened(s)'
    BY <1>4, <1>5, Ends DEF Register, pumpVars, Opened, OpenOK, MuxInv, Shapes
  <1>8. Flow(Client, s)'
    BY <1>0, <1>1, <1>4, FlowHeld, Ends DEF Register, pumpVars, QueueKept, Held, Routed, Shapes
  <1>9. Flow(Server, s)'
    BY <1>0, <1>1, <1>4, <1>5, FlowStart, Ends DEF Register, pumpVars, QueueKept, Held
  <1> QED BY <1>2, <1>3, <1>6, <1>7, <1>8, <1>9, StepInv, Ends

\* The client's end of a stream ends.
LEMMA UnregisterInv ==
  ASSUME MuxInv, NEW s \in Sids, Unregister(s), UNCHANGED <<alive, up, down, sent, got>>,
         QueuesTyped, lost' \subseteq Sides \X Sids, \A z \in Sides, t \in Sids : QueueKept(z, t)
  PROVE  MuxInv'
  <1>0. Shapes /\ RegistryHeld
    BY DEF MuxInv
  <1>1. <<>> \in Seq(Nat) /\ Len(<<>>) =< EvCap
    BY MuxAssumption
  <1>2. Shapes'
    <2>1. EventsTyped
      BY <1>0, <1>1, EventsSet, Ends DEF Unregister
    <2> QED BY <1>0, <2>1, Ends DEF Shapes, Unregister, StreamStates, QueuesTyped, EventsTyped
  <1>3. Elsewhere(s)
    <2>1. ASSUME NEW t \in Sids \ {s}, NEW z \in Sides PROVE EndSame(z, t)
      BY <1>0 DEF Shapes, Unregister, EndSame
    <2> QED BY <2>1 DEF Elsewhere, StreamSame
  <1>4. Opened(s) /\ Flow(Client, s) /\ Flow(Server, s)
    BY Ends DEF MuxInv
  <1>5. RegistryHeld'
    <2>1. \A z \in Sides : reg'[z] \subseteq reg[z]
      BY <1>0 DEF Shapes, Unregister
    <2>2. pend' \subseteq pend /\ \A t \in pend' : st'[Client][t] \in {"send", "reply"}
      BY <1>0, Ends DEF Shapes, RegistryHeld, Unregister
    <2>3. \A z \in Sides : \A t \in reg'[z] : st'[z][t] \notin {"new", "ended"}
      BY <1>0, Ends DEF Shapes, RegistryHeld, Unregister
    <2> QED BY <1>0, <2>1, <2>2, <2>3, RegistryShrinks
  <1>6. Opened(s)'
    <2>1. st'[Client][s] = "ended" /\ st'[Server][s] = st[Server][s]
      BY <1>0, Ends DEF Shapes, Unregister
    <2>2. Signals(Client, s) /\ Signals(Server, s)
      BY <1>0, SignalsKept, Ends
    <2> QED BY <1>4, <2>1, <2>2, Ends DEF Opened, OpenOK, Signals
  <1>7. Flow(Client, s)'
    BY <1>0, <1>4, FlowHeld, Ends DEF Unregister, QueueKept, Held, Routed, Shapes
  <1>8. Flow(Server, s)'
    <2>1. ev'[Client][s] = <<>> /\ ~Routed(Client, s)'
      BY <1>0, Ends DEF Unregister, Routed, Shapes
    <2> QED BY <1>0, <1>4, <2>1, FlowDropped, Ends DEF QueueKept, Held
  <1> QED BY <1>2, <1>3, <1>5, <1>6, <1>7, <1>8, StepInv, Ends

\* open_stream finds the tunnel dead.
LEMMA OpenDeadInv == ASSUME MuxInv, NEW s \in Sids, OpenDead(s) PROVE MuxInv'
  <1>1. QueuesTyped /\ \A z \in Sides, t \in Sids : QueueKept(z, t)
    BY QueuesSame DEF OpenDead, MuxInv
  <1>2. Unregister(s) /\ (UNCHANGED <<alive, up, down, sent, got>>) /\ lost' \subseteq Sides \X Sids
    BY DEF OpenDead, MuxInv, Shapes
  <1> QED BY <1>1, <1>2, UnregisterInv

\* An opener gives up, with or without CLOSE.
LEMMA CloseInv ==
  ASSUME MuxInv, NEW s \in Sids, OpenTimeout(s) \/ AppGone(s) \/ EndClient(s) PROVE MuxInv'
  <1>1. Unregister(s) /\ UNCHANGED <<alive, up, down, sent, got>>
    BY DEF OpenTimeout, AppGone, EndClient
  <1>2. CASE TryClose(q, Client, s)
    <2>1. QueuesTyped /\ lost' \subseteq Sides \X Sids /\ \A z \in Sides, t \in Sids : QueueKept(z, t)
      BY <1>2, QueuesClose, Ends DEF MuxInv
    <2> QED BY <1>1, <2>1, UnregisterInv
  <1>3. CASE UNCHANGED <<q, lost>>
    <2>1. QueuesTyped /\ lost' \subseteq Sides \X Sids /\ \A z \in Sides, t \in Sids : QueueKept(z, t)
      BY <1>3, QueuesSame DEF MuxInv, Shapes
    <2> QED BY <1>1, <2>1, UnregisterInv
  <1> QED BY <1>2, <1>3 DEF OpenTimeout, AppGone, EndClient

\* open_stream sends OPEN.
LEMMA SendOpenInv == ASSUME MuxInv, NEW s \in Sids, SendOpen(s) PROVE MuxInv'
  <1> DEFINE f == Frame("open", s)
  <1>0. Shapes /\ RegistryHeld /\ Opened(s) /\ Flow(Client, s) /\ Flow(Server, s)
    BY Ends DEF MuxInv
  <1>1. f \in Frames /\ f.sid = s /\ f.kind = "open" /\ f.kind \notin Flowing /\ f.kind \notin Replies
    BY DEF Frame, Frames, Flowing, Replies
  <1>2. Client \in Sides /\ Room(Client) /\ q' = Put(Client, f)
    BY Ends DEF SendOpen
  <1> HIDE DEF f
  <1>3. /\ QueuesTyped /\ q'[Client] = Append(q[Client], f) /\ QueueKept(Server, s)
        /\ \A z \in Sides, t \in Sids \ {s} : QueueKept(z, t)
        /\ Kept(q[Client], q'[Client], s, Flowing) /\ Kept(q[Client], q'[Client], s, Replies)
    <2>1. /\ QueuesTyped /\ q'[Client] = Append(q[Client], f) /\ q'[Peer(Client)] = q[Peer(Client)]
          /\ \A z \in Sides, t \in Sids \ {s} : QueueKept(z, t)
          /\ \A K : f.kind \notin K => Kept(q[Client], q'[Client], s, K)
          /\ QueueKept(Peer(Client), s)
      BY <1>0, <1>1, <1>2, QueuesPut
    <2> QED BY <1>1, <2>1, Ends
  <1>4. Shapes'
    BY <1>0, <1>3, Ends DEF Shapes, SendOpen, pumpVars, StreamStates, QueuesTyped
  <1>5. Elsewhere(s)
    <2>1. ASSUME NEW t \in Sids \ {s}, NEW z \in Sides PROVE EndSame(z, t)
      BY <1>0 DEF Shapes, SendOpen, pumpVars, EndSame
    <2> QED BY <1>3, <2>1 DEF Elsewhere, StreamSame
  <1>6. st[Client][s] = "send" /\ st'[Client][s] = "reply" /\ st'[Server][s] = st[Server][s]
    BY <1>0, Ends DEF Shapes, SendOpen
  <1>7. RegistryHeld'
    <2>1. \A z \in Sides : \A t \in reg'[z] : st'[z][t] \notin {"new", "ended"}
      BY <1>0, Ends DEF Shapes, RegistryHeld, SendOpen
    <2>2. \A t \in pend' : st'[Client][t] \in {"send", "reply"}
      BY <1>0, Ends DEF Shapes, RegistryHeld, SendOpen
    <2> QED BY <1>0, <2>1, <2>2 DEF RegistryHeld, SendOpen
  <1>8. Opened(s)'
    <2>1. Once(q'[Client], s, {"open"})
      <3>1. Where(q[Client], s, {"open"}) = {} /\ q[Client] \in Seq(Frames)
        BY <1>0, <1>6, Ends DEF Opened, OpenOK, Shapes
      <3> QED BY <1>1, <1>3, <3>1, OnceAppend
    <2>2. Signals(Server, s)
      BY <1>0, <1>3, SignalsKept, Ends
    <2> QED BY <1>0, <1>6, <2>1, <2>2 DEF Opened, OpenOK, Signals, SendOpen, pumpVars, Early
  <1>9. Flow(Client, s)' /\ Flow(Server, s)'
    BY <1>0, <1>3, FlowHeld, Ends DEF SendOpen, pumpVars, QueueKept, Held, Routed
  <1> QED BY <1>4, <1>5, <1>7, <1>8, <1>9, StepInv, Ends

----------------------------------------------------------------------------
(* handle_stream *)

\* The server connects to the target.
LEMMA ConnectInv == ASSUME MuxInv, NEW s \in Sids, Connect(s) PROVE MuxInv'
  <1>0. Shapes /\ RegistryHeld /\ Opened(s) /\ Flow(Client, s) /\ Flow(Server, s)
    BY Ends DEF MuxInv
  <1>1. QueuesTyped /\ \A z \in Sides, t \in Sids : QueueKept(z, t)
    BY <1>0, QueuesSame DEF Connect
  <1>2. PICK r \in {"ok", "fail"} : st' = [st EXCEPT ![Server][s] = r]
    BY DEF Connect
  <1>3. Shapes'
    BY <1>0, <1>1, <1>2, Ends DEF Shapes, Connect, pumpVars, StreamStates, QueuesTyped
  <1>4. Elsewhere(s)
    <2>1. ASSUME NEW t \in Sids \ {s}, NEW z \in Sides PROVE EndSame(z, t)
      BY <1>0, <1>2 DEF Shapes, Connect, pumpVars, EndSame
    <2> QED BY <1>1, <2>1 DEF Elsewhere, StreamSame
  <1>5. st[Server][s] = "connect" /\ st'[Server][s] = r /\ st'[Client] = st[Client]
    BY <1>0, <1>2, Ends DEF Shapes, Connect
  <1>6. RegistryHeld'
    <2>1. \A z \in Sides : \A t \in reg'[z] : st'[z][t] \notin {"new", "ended"}
      BY <1>0, <1>2, Ends DEF Shapes, RegistryHeld, Connect
    <2> QED BY <1>0, <1>5, <2>1 DEF RegistryHeld, Connect
  <1>7. Opened(s)'
    BY <1>0, <1>5 DEF Opened, OpenOK, Early, Connect, pumpVars
  <1>8. Flow(Client, s)' /\ Flow(Server, s)'
    BY <1>0, <1>1, FlowHeld, Ends DEF Connect, pumpVars, QueueKept, Held, Routed
  <1> QED BY <1>3, <1>4, <1>6, <1>7, <1>8, StepInv, Ends

\* The server accepts the stream.
LEMMA ReplyOkInv == ASSUME MuxInv, NEW s \in Sids, ReplyOk(s) PROVE MuxInv'
  <1> DEFINE f == Frame("ok", s)
  <1>0. Shapes /\ RegistryHeld /\ Opened(s) /\ Flow(Client, s) /\ Flow(Server, s)
    BY Ends DEF MuxInv
  <1>1. f \in Frames /\ f.sid = s /\ f.kind = "ok" /\ f.kind \notin Flowing /\ f.kind \notin {"open"}
    BY DEF Frame, Frames, Flowing
  <1>2. Server \in Sides /\ Room(Server) /\ q' = Put(Server, f)
    BY Ends DEF ReplyOk
  <1> HIDE DEF f
  <1>3. /\ QueuesTyped /\ q'[Server] = Append(q[Server], f) /\ QueueKept(Client, s)
        /\ \A z \in Sides, t \in Sids \ {s} : QueueKept(z, t)
        /\ Kept(q[Server], q'[Server], s, Flowing) /\ Kept(q[Server], q'[Server], s, {"open"})
    <2>1. /\ QueuesTyped /\ q'[Server] = Append(q[Server], f) /\ q'[Peer(Server)] = q[Peer(Server)]
          /\ \A z \in Sides, t \in Sids \ {s} : QueueKept(z, t)
          /\ \A K : f.kind \notin K => Kept(q[Server], q'[Server], s, K)
          /\ QueueKept(Peer(Server), s)
      BY <1>0, <1>1, <1>2, QueuesPut
    <2> QED BY <1>1, <2>1, Ends
  <1>4. Shapes'
    BY <1>0, <1>3, Ends DEF Shapes, ReplyOk, StreamStates, PumpStates, QueuesTyped
  <1>5. Elsewhere(s)
    <2>1. ASSUME NEW t \in Sids \ {s}, NEW z \in Sides PROVE EndSame(z, t)
      BY <1>0 DEF Shapes, ReplyOk, EndSame
    <2> QED BY <1>3, <2>1 DEF Elsewhere, StreamSame
  <1>6. /\ st[Server][s] = "ok" /\ st'[Server][s] = "open" /\ st'[Client] = st[Client]
        /\ up'[Server][s] = "run" /\ down'[Server][s] = "run" /\ up'[Client] = up[Client] /\ down'[Client] = down[Client]
    BY <1>0, Ends DEF Shapes, ReplyOk
  <1>7. RegistryHeld'
    <2>1. \A z \in Sides : \A t \in reg'[z] : st'[z][t] \notin {"new", "ended"}
      BY <1>0, Ends DEF Shapes, RegistryHeld, ReplyOk
    <2> QED BY <1>0, <1>6, <2>1 DEF RegistryHeld, ReplyOk
  <1>8. Where(q[Server], s, Replies) = {} /\ up[Server][s] = "off" /\ down[Server][s] = "off"
    BY <1>0, <1>6 DEF Opened, OpenOK, Early
  <1>9. Opened(s)'
    <2>1. Once(q'[Server], s, Replies)
      BY <1>0, <1>1, <1>3, <1>8, OnceAppend, Ends DEF Shapes
    <2>2. Signals(Client, s)
      BY <1>0, <1>3, SignalsKept, Ends
    <2>3. Where(q'[Server], s, {"open"}) = {}
      <3>1. q[Server] \in Seq(Frames) /\ q'[Server] \in Seq(Frames) /\ Where(q[Server], s, {"open"}) = {}
        BY <1>0, <1>3, Ends DEF Shapes, QueuesTyped, Opened, OpenOK
      <3> QED BY <1>3, <3>1, KeptNone
    <2> QED BY <1>0, <1>6, <2>1, <2>2, <2>3 DEF Opened, OpenOK, Signals, Early
  <1>10. Flow(Client, s)'
    BY <1>0, <1>3, <1>6, <1>8, FlowHeld, Ends DEF ReplyOk, QueueKept, Held, Routed
  <1>11. Flow(Server, s)'
    BY <1>0, <1>3, <1>6, <1>8, FlowStart, Ends DEF ReplyOk, Held
  <1> QED BY <1>4, <1>5, <1>7, <1>9, <1>10, <1>11, StepInv, Ends

\* The server refuses the stream.
LEMMA ReplyRefusedInv == ASSUME MuxInv, NEW s \in Sids, ReplyRefused(s) PROVE MuxInv'
  <1> DEFINE f == Frame("refused", s)
  <1>0. Shapes /\ RegistryHeld /\ Opened(s) /\ Flow(Client, s) /\ Flow(Server, s)
    BY Ends DEF MuxInv
  <1>1. f \in Frames /\ f.sid = s /\ f.kind = "refused" /\ f.kind \notin Flowing /\ f.kind \notin {"open"}
    BY DEF Frame, Frames, Flowing
  <1>2. Server \in Sides /\ Room(Server) /\ q' = Put(Server, f)
    BY Ends DEF ReplyRefused
  <1> HIDE DEF f
  <1>3. /\ QueuesTyped /\ q'[Server] = Append(q[Server], f) /\ QueueKept(Client, s)
        /\ \A z \in Sides, t \in Sids \ {s} : QueueKept(z, t)
        /\ Kept(q[Server], q'[Server], s, Flowing) /\ Kept(q[Server], q'[Server], s, {"open"})
    <2>1. /\ QueuesTyped /\ q'[Server] = Append(q[Server], f) /\ q'[Peer(Server)] = q[Peer(Server)]
          /\ \A z \in Sides, t \in Sids \ {s} : QueueKept(z, t)
          /\ \A K : f.kind \notin K => Kept(q[Server], q'[Server], s, K)
          /\ QueueKept(Peer(Server), s)
      BY <1>0, <1>1, <1>2, QueuesPut
    <2> QED BY <1>1, <2>1, Ends
  <1>4. Shapes'
    BY <1>0, <1>3, Ends DEF Shapes, ReplyRefused, pumpVars, StreamStates, QueuesTyped
  <1>5. Elsewhere(s)
    <2>1. ASSUME NEW t \in Sids \ {s}, NEW z \in Sides PROVE EndSame(z, t)
      BY <1>0 DEF Shapes, ReplyRefused, pumpVars, EndSame
    <2> QED BY <1>3, <2>1 DEF Elsewhere, StreamSame
  <1>6. st[Server][s] = "fail" /\ st'[Server][s] = "cleanup" /\ st'[Client] = st[Client]
    BY <1>0, Ends DEF Shapes, ReplyRefused
  <1>7. RegistryHeld'
    <2>1. \A z \in Sides : \A t \in reg'[z] : st'[z][t] \notin {"new", "ended"}
      BY <1>0, Ends DEF Shapes, RegistryHeld, ReplyRefused
    <2> QED BY <1>0, <1>6, <2>1 DEF RegistryHeld, ReplyRefused
  <1>8. Opened(s)'
    <2>1. Once(q'[Server], s, Replies)
      BY <1>0, <1>1, <1>3, <1>6, OnceAppend, Ends DEF Shapes, Opened, OpenOK, Early
    <2>2. Signals(Client, s)
      BY <1>0, <1>3, SignalsKept, Ends
    <2>3. Where(q'[Server], s, {"open"}) = {}
      <3>1. q[Server] \in Seq(Frames) /\ q'[Server] \in Seq(Frames) /\ Where(q[Server], s, {"open"}) = {}
        BY <1>0, <1>3, Ends DEF Shapes, QueuesTyped, Opened, OpenOK
      <3> QED BY <1>3, <3>1, KeptNone
    <2> QED BY <1>0, <1>6, <2>1, <2>2, <2>3 DEF Opened, OpenOK, Signals, Early, ReplyRefused, pumpVars
  <1>9. Flow(Client, s)' /\ Flow(Server, s)'
    BY <1>0, <1>3, FlowHeld, Ends DEF ReplyRefused, pumpVars, QueueKept, Held, Routed
  <1> QED BY <1>4, <1>5, <1>7, <1>8, <1>9, StepInv, Ends

\* The client's stream ends.
LEMMA CleanupInv == ASSUME MuxInv, NEW s \in Sids, Cleanup(s) PROVE MuxInv'
  <1>0. Shapes /\ RegistryHeld /\ Opened(s) /\ Flow(Client, s) /\ Flow(Server, s)
    BY Ends DEF MuxInv
  <1>1. QueuesTyped /\ \A z \in Sides, t \in Sids : QueueKept(z, t)
    BY <1>0, QueuesSame DEF Cleanup
  <1>2. EventsTyped
    <2>1. <<>> \in Seq(Nat) /\ Len(<<>>) =< EvCap
      BY MuxAssumption
    <2> QED BY <1>0, <2>1, EventsSet, Ends DEF Cleanup
  <1>3. Shapes'
    BY <1>0, <1>1, <1>2, Ends DEF Shapes, Cleanup, StreamStates, QueuesTyped, EventsTyped
  <1>4. Elsewhere(s)
    <2>1. ASSUME NEW t \in Sids \ {s}, NEW z \in Sides PROVE EndSame(z, t)
      BY <1>0 DEF Shapes, Cleanup, EndSame
    <2> QED BY <1>1, <2>1 DEF Elsewhere, StreamSame
  <1>5. /\ st[Server][s] \in {"cleanup", "ok", "fail"} /\ st'[Server][s] = "ended" /\ st'[Client] = st[Client]
        /\ ev'[Server][s] = <<>> /\ ev'[Client] = ev[Client]
    BY <1>0, Ends DEF Shapes, Cleanup
  <1>6. RegistryHeld'
    <2>1. \A z \in Sides : reg'[z] \subseteq reg[z]
      BY <1>0 DEF Shapes, Cleanup
    <2>2. \A z \in Sides : \A t \in reg'[z] : st'[z][t] \notin {"new", "ended"}
      BY <1>0, Ends DEF Shapes, RegistryHeld, Cleanup
    <2>3. pend' \subseteq pend /\ \A t \in pend' : st'[Client][t] \in {"send", "reply"}
      BY <1>0, <1>5 DEF RegistryHeld, Cleanup
    <2> QED BY <1>0, <2>1, <2>2, <2>3, RegistryShrinks
  <1>7. Opened(s)'
    BY <1>0, <1>5 DEF Opened, OpenOK, Early, Cleanup
  <1>8. Flow(Client, s)'
    <2>1. ~Routed(Server, s)'
      BY <1>0, Ends DEF Cleanup, Routed, Shapes
    <2> QED BY <1>0, <1>1, <1>5, <2>1, FlowDropped, Ends DEF Cleanup, QueueKept, Held
  <1>9. Flow(Server, s)'
    BY <1>0, <1>1, <1>5, FlowHeld, Ends DEF Cleanup, QueueKept, Held, Routed, Shapes
  <1> QED BY <1>3, <1>4, <1>6, <1>7, <1>8, <1>9, StepInv, Ends

\* The server's stream ends.
LEMMA EndServerInv == ASSUME MuxInv, NEW s \in Sids, EndServer(s) PROVE MuxInv'
  <1>0. Shapes /\ RegistryHeld /\ Opened(s) /\ Flow(Client, s) /\ Flow(Server, s)
    BY Ends DEF MuxInv
  <1>1. QueuesTyped /\ \A z \in Sides, t \in Sids : QueueKept(z, t)
    BY <1>0, QueuesSame DEF EndServer
  <1>2. Shapes'
    BY <1>0, <1>1, Ends DEF Shapes, EndServer, pumpVars, StreamStates, QueuesTyped
  <1>3. Elsewhere(s)
    <2>1. ASSUME NEW t \in Sids \ {s}, NEW z \in Sides PROVE EndSame(z, t)
      BY <1>0 DEF Shapes, EndServer, pumpVars, EndSame
    <2> QED BY <1>1, <2>1 DEF Elsewhere, StreamSame
  <1>4. st[Server][s] = "open" /\ st'[Server][s] = "ended" /\ st'[Client] = st[Client]
    BY <1>0, Ends DEF Shapes, EndServer, Pumped
  <1>5. RegistryHeld'
    <2>1. \A z \in Sides : reg'[z] \subseteq reg[z]
      BY <1>0 DEF Shapes, EndServer
    <2>2. \A z \in Sides : \A t \in reg'[z] : st'[z][t] \notin {"new", "ended"}
      BY <1>0, Ends DEF Shapes, RegistryHeld, EndServer
    <2>3. pend' \subseteq pend /\ \A t \in pend' : st'[Client][t] \in {"send", "reply"}
      BY <1>0, <1>4 DEF RegistryHeld, EndServer
    <2> QED BY <1>0, <2>1, <2>2, <2>3, RegistryShrinks
  <1>6. Opened(s)'
    BY <1>0, <1>4 DEF Opened, OpenOK, Early, EndServer, pumpVars
  <1>7. Flow(Client, s)' /\ Flow(Server, s)'
    BY <1>0, <1>1, FlowHeld, Ends DEF EndServer, pumpVars, QueueKept, Held, Routed, Shapes
  <1> QED BY <1>2, <1>3, <1>5, <1>6, <1>7, StepInv, Ends

----------------------------------------------------------------------------
(* The pump *)

\* The client starts its pump.
LEMMA StartPumpInv == ASSUME MuxInv, NEW s \in Sids, StartPump(s) PROVE MuxInv'
  <1>0. Shapes /\ RegistryHeld /\ Opened(s) /\ Flow(Client, s) /\ Flow(Server, s)
    BY Ends DEF MuxInv
  <1>1. QueuesTyped /\ \A z \in Sides, t \in Sids : QueueKept(z, t)
    BY <1>0, QueuesSame DEF StartPump
  <1>2. Shapes'
    BY <1>0, <1>1, Ends DEF Shapes, StartPump, PumpStates, QueuesTyped
  <1>3. Elsewhere(s)
    <2>1. ASSUME NEW t \in Sids \ {s}, NEW z \in Sides PROVE EndSame(z, t)
      BY <1>0 DEF Shapes, StartPump, EndSame
    <2> QED BY <1>1, <2>1 DEF Elsewhere, StreamSame
  <1>4. /\ st[Client][s] = "open" /\ up[Client][s] = "off" /\ up'[Client][s] = "run" /\ down'[Client][s] = "run"
        /\ up'[Server] = up[Server] /\ down'[Server] = down[Server]
    BY <1>0, Ends DEF Shapes, StartPump
  <1>5. RegistryHeld'
    BY <1>0 DEF RegistryHeld, StartPump
  <1>6. down[Client][s] = "off"
    BY <1>0, <1>4 DEF Opened, OpenOK
  <1>7. Opened(s)'
    BY <1>0, <1>4 DEF Opened, OpenOK, Early, StartPump
  <1>8. Flow(Client, s)'
    BY <1>0, <1>1, <1>4, FlowStart, Ends DEF StartPump, QueueKept, Held
  <1>9. Flow(Server, s)'
    BY <1>0, <1>1, <1>4, <1>6, FlowHeld, Ends DEF StartPump, QueueKept, Held, Routed
  <1> QED BY <1>2, <1>3, <1>5, <1>7, <1>8, <1>9, StepInv, Ends

\* pump_up sends a chunk.
LEMMA UpDataInv == ASSUME MuxInv, NEW x \in Sides, NEW s \in Sids, UpData(x, s) PROVE MuxInv'
  <1> DEFINE f == Data(s, sent[x][s] + 1)
  <1>0. Shapes /\ RegistryHeld /\ Opened(s) /\ Flow(x, s) /\ Flow(Peer(x), s)
    BY Ends DEF MuxInv
  <1>1. /\ sent[x][s] \in Nat /\ Peer(x) \in Sides /\ Peer(x) # x /\ Peer(Peer(x)) = x
        /\ f \in Frames /\ f.sid = s /\ f.kind = "data"
    <2>1. sent[x][s] \in Nat
      BY <1>0 DEF Shapes
    <2>2. f \in Frames /\ f.sid = s /\ f.kind = "data"
      BY <2>1 DEF Data, Frames
    <2> QED BY <2>1, <2>2, Ends
  <1>2. Room(x) /\ q' = Put(x, f)
    BY DEF UpData
  <1>3. /\ QueuesTyped /\ q'[x] = Append(q[x], f) /\ q'[Peer(x)] = q[Peer(x)]
        /\ \A z \in Sides, t \in Sids \ {s} : QueueKept(z, t)
        /\ \A K : f.kind \notin K => Kept(q[x], q'[x], s, K)
        /\ QueueKept(Peer(x), s)
    <2> HIDE DEF f
    <2> QED BY <1>0, <1>1, <1>2, QueuesPut
  <1>4. Shapes'
    <2>1. /\ sent' \in [Sides -> [Sids -> Nat]]
          /\ \A z \in Sides, t \in Sids : sent'[z][t] =< Chunks[z][t]
      <3>1. ASSUME NEW z \in Sides, NEW t \in Sids PROVE sent'[z][t] =< Chunks[z][t]
        <4>1. CASE z = x /\ t = s
          <5>1. sent'[x][s] = sent[x][s] + 1 /\ sent[x][s] < Chunks[x][s] /\ Chunks[x][s] \in Nat
            BY <1>0, <1>1, ChunksAssumption DEF Shapes, UpData
          <5> QED BY <1>1, <4>1, <5>1
        <4>2. CASE ~(z = x /\ t = s)
          BY <1>0, <4>2 DEF Shapes, UpData
        <4> QED BY <4>1, <4>2
      <3>2. sent' \in [Sides -> [Sids -> Nat]]
        BY <1>0, <1>1 DEF Shapes, UpData
      <3> QED BY <3>1, <3>2
    <2> QED BY <1>0, <1>3, <2>1 DEF Shapes, UpData, QueuesTyped
  <1>5. Elsewhere(s)
    <2>1. ASSUME NEW t \in Sids \ {s}, NEW z \in Sides PROVE EndSame(z, t)
      BY <1>0 DEF Shapes, UpData, EndSame
    <2> QED BY <1>3, <2>1 DEF Elsewhere, StreamSame
  <1>6. RegistryHeld'
    BY <1>0 DEF RegistryHeld, UpData
  <1>7. Opened(s)'
    <2>1. Kept(q[x], q'[x], s, {"open"}) /\ Kept(q[x], q'[x], s, Replies)
      BY <1>1, <1>3 DEF Replies
    <2>2. Signals(x, s) /\ Signals(Peer(x), s)
      BY <1>0, <1>1, <1>3, <2>1, SignalsKept, SignalsPair DEF QueueKept
    <2>3. Signals(Client, s) /\ Signals(Server, s)
      BY <2>2, Ends
    <2> QED BY <1>0, <2>3 DEF Opened, OpenOK, Signals, UpData
  <1>8. Flow(x, s)'
    <2>1. FlowOK(q[x], s, sent[x][s], "run", TRUE, Len(got[Peer(x)][s]), ev[Peer(x)][s],
                 down[Peer(x)][s], Routed(Peer(x), s))
      <3>1. up[x][s] = "run" /\ alive[x] = TRUE
        BY <1>0 DEF UpData, Shapes
      <3> QED BY <1>0, <3>1 DEF Flow
    <2>2. /\ q[x] \in Seq(Frames) /\ sent[x][s] \in Nat
          /\ Len(got[Peer(x)][s]) \in Nat /\ ev[Peer(x)][s] \in Seq(Nat)
      BY <1>0, FlowTypes
    <2>3. FlowOK(Append(q[x], f), s, sent[x][s] + 1, "run", TRUE, Len(got[Peer(x)][s]), ev[Peer(x)][s],
                 down[Peer(x)][s], Routed(Peer(x), s))
      BY <2>1, <2>2, FlowData
    <2>4. up'[x][s] = "run" /\ alive'[x] = TRUE /\ sent'[x][s] = sent[x][s] + 1
      BY <1>0 DEF UpData, Shapes
    <2>5. Routed(Peer(x), s)' = Routed(Peer(x), s)
      BY DEF Routed, UpData
    <2> QED BY <1>3, <2>3, <2>4, <2>5 DEF Flow, UpData
  <1>9. Flow(Peer(x), s)'
    BY <1>0, <1>1, <1>3, FlowHeld DEF UpData, QueueKept, Held, Routed, Shapes
  <1> QED BY <1>4, <1>5, <1>6, <1>7, <1>8, <1>9, StepInv

\* pump_up sends EOF.
LEMMA UpEofInv == ASSUME MuxInv, NEW x \in Sides, NEW s \in Sids, UpEof(x, s) PROVE MuxInv'
  <1> DEFINE f == Frame("eof", s)
  <1>0. Shapes /\ RegistryHeld /\ Opened(s) /\ Flow(x, s) /\ Flow(Peer(x), s)
    BY Ends DEF MuxInv
  <1>1. /\ sent[x][s] \in Nat /\ Peer(x) \in Sides /\ Peer(x) # x /\ Peer(Peer(x)) = x
        /\ f \in Frames /\ f.sid = s /\ f.kind = "eof"
    BY <1>0, Ends DEF Frame, Frames, Shapes
  <1>2. Room(x) /\ q' = Put(x, f)
    BY DEF UpEof
  <1>3. /\ QueuesTyped /\ q'[x] = Append(q[x], f) /\ q'[Peer(x)] = q[Peer(x)]
        /\ \A z \in Sides, t \in Sids \ {s} : QueueKept(z, t)
        /\ \A K : f.kind \notin K => Kept(q[x], q'[x], s, K)
        /\ QueueKept(Peer(x), s)
    <2> HIDE DEF f
    <2> QED BY <1>0, <1>1, <1>2, QueuesPut
  <1>4. Shapes'
    BY <1>0, <1>3 DEF Shapes, UpEof, QueuesTyped, PumpStates
  <1>5. Elsewhere(s)
    <2>1. ASSUME NEW t \in Sids \ {s}, NEW z \in Sides PROVE EndSame(z, t)
      BY <1>0 DEF Shapes, UpEof, EndSame
    <2> QED BY <1>3, <2>1 DEF Elsewhere, StreamSame
  <1>6. RegistryHeld'
    BY <1>0 DEF RegistryHeld, UpEof
  <1>7. Opened(s)'
    <2>1. Kept(q[x], q'[x], s, {"open"}) /\ Kept(q[x], q'[x], s, Replies)
      BY <1>1, <1>3 DEF Replies
    <2>2. Signals(x, s) /\ Signals(Peer(x), s)
      BY <1>0, <1>1, <1>3, <2>1, SignalsKept, SignalsPair DEF QueueKept
    <2>3. Signals(Client, s) /\ Signals(Server, s)
      BY <2>2, Ends
    <2>4. OpenPumps(s)
      <3>1. up \in [Sides -> [Sids -> PumpStates]] /\ down \in [Sides -> [Sids -> PumpStates]]
        BY <1>0 DEF Shapes
      <3> QED BY <3>1, Ends DEF UpEof, OpenPumps
    <2> QED BY <1>0, <2>3, <2>4, PumpsOpened DEF UpEof
  <1>8. Flow(x, s)'
    <2>1. FlowOK(q[x], s, sent[x][s], "run", TRUE, Len(got[Peer(x)][s]), ev[Peer(x)][s],
                 down[Peer(x)][s], Routed(Peer(x), s))
      <3>1. up[x][s] = "run" /\ alive[x] = TRUE
        BY <1>0 DEF UpEof, Shapes
      <3> QED BY <1>0, <3>1 DEF Flow
    <2>2. /\ q[x] \in Seq(Frames) /\ sent[x][s] \in Nat
          /\ Len(got[Peer(x)][s]) \in Nat /\ ev[Peer(x)][s] \in Seq(Nat)
      BY <1>0, FlowTypes
    <2>3. FlowOK(Append(q[x], f), s, sent[x][s], "eof", alive'[x], Len(got[Peer(x)][s]), ev[Peer(x)][s],
                 down[Peer(x)][s], Routed(Peer(x), s))
      BY <2>1, <2>2, FlowEof
    <2>4. up'[x][s] = "eof"
      BY <1>0 DEF UpEof, Shapes
    <2>5. Routed(Peer(x), s)' = Routed(Peer(x), s)
      BY DEF Routed, UpEof
    <2> QED BY <1>3, <2>3, <2>4, <2>5 DEF Flow, UpEof
  <1>9. Flow(Peer(x), s)'
    BY <1>0, <1>1, <1>3, FlowHeld DEF UpEof, QueueKept, Held, Routed, Shapes
  <1> QED BY <1>4, <1>5, <1>6, <1>7, <1>8, <1>9, StepInv

\* pump_up stops for another reason than EOF.
LEMMA UpStopInv ==
  ASSUME MuxInv, NEW x \in Sides, NEW s \in Sids, UpDead(x, s) \/ UpErr(x, s) \/ AbortUp(x, s)
  PROVE  MuxInv'
  <1>0. Shapes /\ RegistryHeld /\ Opened(s) /\ Flow(x, s) /\ Flow(Peer(x), s)
    BY Ends DEF MuxInv
  <1>1. Peer(x) \in Sides /\ Peer(x) # x /\ Peer(Peer(x)) = x
    BY Ends
  <1>2. /\ up[x][s] = "run" /\ up' = [up EXCEPT ![x][s] = "closed"]
        /\ UNCHANGED <<alive, st, pend, reg, ev, down, sent, got>>
    BY DEF UpDead, UpErr, AbortUp
  <1>3. QueuesTyped /\ lost' \subseteq Sides \X Sids /\ \A z \in Sides, t \in Sids : QueueKept(z, t)
    <2>1. CASE TryClose(q, x, s)
      BY <1>0, <2>1, QueuesClose
    <2>2. CASE UNCHANGED <<q, lost>>
      BY <1>0, <2>2, QueuesSame DEF Shapes
    <2> QED BY <2>1, <2>2 DEF UpDead, UpErr, AbortUp
  <1>4. Shapes'
    BY <1>0, <1>2, <1>3 DEF Shapes, QueuesTyped, PumpStates
  <1>5. Elsewhere(s)
    <2>1. ASSUME NEW t \in Sids \ {s}, NEW z \in Sides PROVE EndSame(z, t)
      BY <1>0, <1>2 DEF Shapes, EndSame
    <2> QED BY <1>3, <2>1 DEF Elsewhere, StreamSame
  <1>6. RegistryHeld'
    BY <1>0, <1>2 DEF RegistryHeld
  <1>7. Opened(s)'
    <2>1. Signals(Client, s) /\ Signals(Server, s)
      BY <1>0, <1>3, SignalsKept, Ends
    <2>2. OpenPumps(s)
      <3>1. up \in [Sides -> [Sids -> PumpStates]] /\ down \in [Sides -> [Sids -> PumpStates]]
        BY <1>0 DEF Shapes
      <3> QED BY <1>2, <3>1, Ends DEF OpenPumps
    <2> QED BY <1>0, <1>2, <2>1, <2>2, PumpsOpened
  <1>8. Flow(x, s)'
    <2>1. FlowOK(q[x], s, sent[x][s], "run", alive[x], Len(got[Peer(x)][s]), ev[Peer(x)][s],
                 down[Peer(x)][s], Routed(Peer(x), s))
      BY <1>0, <1>2 DEF Flow
    <2>2. /\ q[x] \in Seq(Frames) /\ sent[x][s] \in Nat /\ q'[x] \in Seq(Frames)
          /\ Len(got[Peer(x)][s]) \in Nat /\ ev[Peer(x)][s] \in Seq(Nat)
          /\ Kept(q[x], q'[x], s, Flowing)
      BY <1>0, <1>3, FlowTypes DEF QueuesTyped, QueueKept
    <2>3. FlowOK(q'[x], s, sent[x][s], "closed", alive[x], Len(got[Peer(x)][s]), ev[Peer(x)][s],
                 down[Peer(x)][s], Routed(Peer(x), s))
      BY <2>1, <2>2, FlowStop
    <2>4. up'[x][s] = "closed"
      BY <1>0, <1>2 DEF Shapes
    <2>5. Routed(Peer(x), s)' = Routed(Peer(x), s)
      BY <1>2 DEF Routed
    <2> QED BY <1>2, <2>3, <2>4, <2>5 DEF Flow
  <1>9. Flow(Peer(x), s)'
    BY <1>0, <1>1, <1>2, <1>3, FlowHeld DEF QueueKept, Held, Routed, Shapes
  <1> QED BY <1>4, <1>5, <1>6, <1>7, <1>8, <1>9, StepInv

\* pump_down writes a chunk.
LEMMA DownDataInv == ASSUME MuxInv, NEW x \in Sides, NEW s \in Sids, DownData(x, s) PROVE MuxInv'
  <1> DEFINE y == Peer(x)
             E == ev[x][s]
  <1>0. Shapes /\ RegistryHeld /\ Opened(s) /\ Flow(x, s) /\ Flow(y, s)
    BY Ends DEF MuxInv
  <1>1. y \in Sides /\ y # x /\ Peer(y) = x /\ E \in Seq(Nat) /\ E # <<>> /\ Head(E) # Eof
    BY <1>0, Ends DEF DownData, Shapes
  <1>2. QueuesTyped /\ \A z \in Sides, t \in Sids : QueueKept(z, t)
    BY <1>0, QueuesSame DEF DownData
  <1>3. /\ Tail(E) \in Seq(Nat) /\ Len(Tail(E)) = Len(E) - 1 /\ Len(E) \in Nat /\ Len(E) =< EvCap
        /\ Head(E) \in Nat \ {0}
    BY <1>0, <1>1, HeadTailProperties DEF Shapes, Eof
  <1>4. EventsTyped
    <2>1. Len(Tail(E)) =< EvCap
      BY <1>3, MuxAssumption
    <2>2. ev' = [ev EXCEPT ![x][s] = Tail(E)]
      BY DEF DownData
    <2> QED BY <1>0, <1>3, <2>1, <2>2, EventsSet
  <1>5. /\ got[x][s] \in Seq(Nat \ {0}) /\ got' = [got EXCEPT ![x][s] = Append(got[x][s], Head(E))]
        /\ Append(got[x][s], Head(E)) \in Seq(Nat \ {0})
        /\ Len(Append(got[x][s], Head(E))) = Len(got[x][s]) + 1 /\ Len(got[x][s]) \in Nat
    BY <1>0, <1>3, AppendProperties DEF Shapes, DownData
  <1>6. Shapes'
    <2>1. got' \in [Sides -> [Sids -> Seq(Nat \ {0})]]
      BY <1>0, <1>5 DEF Shapes
    <2> QED BY <1>0, <1>2, <1>4, <2>1 DEF Shapes, DownData, QueuesTyped, EventsTyped
  <1>7. Elsewhere(s)
    <2>1. ASSUME NEW t \in Sids \ {s}, NEW z \in Sides PROVE EndSame(z, t)
      BY <1>0 DEF Shapes, DownData, EndSame
    <2> QED BY <1>2, <2>1 DEF Elsewhere, StreamSame
  <1>8. RegistryHeld'
    BY <1>0 DEF RegistryHeld, DownData
  <1>9. Opened(s)'
    BY <1>0 DEF Opened, DownData
  <1>10. Flow(x, s)'
    BY <1>0, <1>1, <1>2, FlowHeld DEF DownData, QueueKept, Held, Routed, Shapes
  <1>11. Flow(y, s)'
    <2>1. FlowOK(q[y], s, sent[y][s], up[y][s], alive[y], Len(got[x][s]), E, down[x][s], Routed(x, s))
      BY <1>0, <1>1 DEF Flow
    <2>2. q[y] \in Seq(Frames) /\ sent[y][s] \in Nat
      BY <1>0, <1>1, FlowTypes
    <2>3. FlowOK(q[y], s, sent[y][s], up[y][s], alive[y], Len(got[x][s]) + 1, Tail(E), down[x][s], Routed(x, s))
      <3> HIDE DEF y, E
      <3> QED BY <1>1, <1>5, <2>1, <2>2, FlowTake
    <2>4. got'[x][s] = Append(got[x][s], Head(E)) /\ ev'[x][s] = Tail(E)
      BY <1>0, <1>5 DEF Shapes, DownData
    <2>5. Routed(x, s)' = Routed(x, s)
      BY DEF Routed, DownData
    <2> HIDE DEF y, E
    <2> QED BY <1>1, <1>5, <2>3, <2>4, <2>5 DEF Flow, DownData
  <1> QED BY <1>6, <1>7, <1>8, <1>9, <1>10, <1>11, StepInv

\* pump_down returns, with or without a CLOSE.
LEMMA DownEndsInv ==
  ASSUME MuxInv, NEW x \in Sides, NEW s \in Sids, NEW end \in {"eof", "closed"},
         down[x][s] = "run", DownEnds(x, s, end), TryClose(q, x, s) \/ UNCHANGED <<q, lost>>,
         UNCHANGED <<alive, st, pend, reg, up, sent, got>>,
         end = "eof" => ev[x][s] # <<>> /\ Head(ev[x][s]) = Eof /\ UNCHANGED q
  PROVE  MuxInv'
  <1> DEFINE y == Peer(x)
             E == ev[x][s]
  <1>0. Shapes /\ RegistryHeld /\ Opened(s) /\ Flow(x, s) /\ Flow(y, s)
    BY Ends DEF MuxInv
  <1>1. y \in Sides /\ y # x /\ Peer(y) = x /\ E \in Seq(Nat)
    BY <1>0, Ends DEF Shapes
  <1>2. QueuesTyped /\ lost' \subseteq Sides \X Sids /\ \A z \in Sides, t \in Sids : QueueKept(z, t)
    <2>1. CASE TryClose(q, x, s)
      BY <1>0, <2>1, QueuesClose
    <2>2. CASE UNCHANGED <<q, lost>>
      BY <1>0, <2>2, QueuesSame DEF Shapes
    <2> QED BY <2>1, <2>2
  <1>3. EventsTyped
    <2>1. <<>> \in Seq(Nat) /\ Len(<<>>) =< EvCap
      BY MuxAssumption
    <2> QED BY <1>0, <2>1, EventsSet DEF DownEnds
  <1>4. Shapes'
    BY <1>0, <1>2, <1>3 DEF Shapes, DownEnds, QueuesTyped, EventsTyped, PumpStates
  <1>5. Elsewhere(s)
    <2>1. ASSUME NEW t \in Sids \ {s}, NEW z \in Sides PROVE EndSame(z, t)
      BY <1>0 DEF Shapes, DownEnds, EndSame
    <2> QED BY <1>2, <2>1 DEF Elsewhere, StreamSame
  <1>6. RegistryHeld'
    BY <1>0 DEF RegistryHeld
  <1>7. Opened(s)'
    <2>1. Signals(Client, s) /\ Signals(Server, s)
      BY <1>0, <1>2, SignalsKept, Ends
    <2>2. OpenPumps(s)
      <3>1. up \in [Sides -> [Sids -> PumpStates]] /\ down \in [Sides -> [Sids -> PumpStates]]
        BY <1>0 DEF Shapes
      <3> QED BY <3>1, Ends DEF OpenPumps, DownEnds
    <2> QED BY <1>0, <2>1, <2>2, PumpsOpened
  <1>8. Flow(x, s)'
    BY <1>0, <1>1, <1>2, FlowHeld DEF DownEnds, QueueKept, Held, Routed, Shapes
  <1>9. down'[x][s] = end /\ ev'[x][s] = <<>> /\ Routed(x, s)' = FALSE
    BY <1>0 DEF Shapes, DownEnds, Routed
  <1>10. Flow(y, s)'
    <2>1. CASE end = "closed"
      BY <1>0, <1>1, <1>2, <1>9, <2>1, FlowDropped DEF QueueKept, Held
    <2>2. CASE end = "eof"
      <3>1. FlowOK(q[y], s, sent[y][s], up[y][s], alive[y], Len(got[x][s]), E, down[x][s], Routed(x, s))
        BY <1>0, <1>1 DEF Flow
      <3>2. q[y] \in Seq(Frames) /\ sent[y][s] \in Nat /\ Len(got[x][s]) \in Nat
        BY <1>0, <1>1, FlowTypes
      <3>3. E # <<>> /\ Head(E) = Eof /\ q' = q
        BY <2>2
      <3>4. FlowOK(q[y], s, sent[y][s], up[y][s], alive[y], Len(got[x][s]), <<>>, "eof", Routed(x, s)')
        <4> HIDE DEF y, E
        <4> QED BY <1>1, <3>1, <3>2, <3>3, FlowEnd
      <3> HIDE DEF y, E
      <3> QED BY <1>1, <1>9, <2>2, <3>3, <3>4 DEF Flow
    <2> QED BY <2>1, <2>2
  <1> QED BY <1>4, <1>5, <1>6, <1>7, <1>8, <1>10, StepInv

\* pump_down stops.
LEMMA DownStopInv ==
  ASSUME MuxInv, NEW x \in Sides, NEW s \in Sids,
         DownEof(x, s) \/ DownErr(x, s) \/ DownNone(x, s) \/ AbortDown(x, s)
  PROVE  MuxInv'
  <1>1. CASE DownEof(x, s)
    BY <1>1, DownEndsInv DEF DownEof
  <1>2. CASE DownErr(x, s) \/ DownNone(x, s) \/ AbortDown(x, s)
    BY <1>2, DownEndsInv DEF DownErr, DownNone, AbortDown
  <1> QED BY <1>1, <1>2

----------------------------------------------------------------------------
(* The demux *)

\* The demux takes OPEN.
LEMMA HandleOpenInv == ASSUME MuxInv, NEW s \in Sids, HandleOpen(s) PROVE MuxInv'
  <1>0. Shapes /\ RegistryHeld /\ Opened(s) /\ Flow(Client, s) /\ Flow(Server, s)
    BY Ends DEF MuxInv
  <1>1. /\ QueuesTyped /\ q'[Client] = Tail(q[Client]) /\ q[Client] # <<>>
        /\ Head(q[Client]).sid = s /\ Head(q[Client]).kind \in {"open"}
        /\ \A z \in Sides, t \in Sids \ {s} : QueueKept(z, t)
        /\ QueueKept(Server, s)
        /\ \A K : Head(q[Client]).kind \notin K => Kept(q[Client], q'[Client], s, K)
    BY <1>0, QueuesTaken, Ends DEF HandleOpen
  <1>2. Kept(q[Client], q'[Client], s, Flowing)
    BY <1>1 DEF Flowing
  <1>3. Shapes'
    <2>1. st' \in [Sides -> [Sids -> StreamStates]] /\ reg' \in [Sides -> SUBSET Sids]
      BY <1>0 DEF Shapes, HandleOpen, StreamStates
    <2> QED BY <1>0, <1>1, <2>1 DEF Shapes, HandleOpen, pumpVars, QueuesTyped
  <1>4. Elsewhere(s)
    <2>1. ASSUME NEW t \in Sids \ {s}, NEW z \in Sides PROVE EndSame(z, t)
      BY <1>0 DEF Shapes, HandleOpen, pumpVars, EndSame
    <2> QED BY <1>1, <2>1 DEF Elsewhere, StreamSame
  <1>5. /\ q[Client] \in Seq(Frames) /\ Once(q[Client], s, {"open"})
        /\ 1 \in Where(q[Client], s, {"open"})
    <2>1. q[Client] \in Seq(Frames)
      BY <1>0, Ends DEF Shapes
    <2>2. TailPlaces(q[Client], s, {"open"})
      BY <1>1, <2>1, WhereTail
    <2> QED BY <1>0, <1>1, <2>1, <2>2 DEF TailPlaces, Opened, OpenOK
  <1>6. st[Server][s] = "new" /\ up[Client][s] = "off" /\ st[Client][s] \notin {"new", "send"}
    BY <1>0, <1>5 DEF Opened, OpenOK, Early
  <1>7. st'[Server][s] = "connect" /\ st'[Client] = st[Client]
    BY <1>0, Ends DEF Shapes, HandleOpen
  <1>8. RegistryHeld'
    <2>1. \A z \in Sides : \A t \in reg'[z] : st'[z][t] \notin {"new", "ended"}
      <3> SUFFICES ASSUME NEW z \in Sides, NEW t \in reg'[z] PROVE st'[z][t] \notin {"new", "ended"}
        OBVIOUS
      <3>1. t \in Sids
        BY <1>3 DEF Shapes
      <3>2. CASE z = Server /\ t = s
        BY <1>7, <3>2
      <3>3. CASE ~(z = Server /\ t = s)
        <4>1. t \in reg[z] /\ st'[z][t] = st[z][t]
          BY <1>0, <3>1, <3>3 DEF Shapes, HandleOpen
        <4> QED BY <1>0, <4>1 DEF RegistryHeld
      <3> QED BY <3>2, <3>3
    <2>2. Cardinality(reg'[Server]) =< Cap
      <3>1. IsFiniteSet(reg[Server])
        BY <1>0, MuxAssumption, FS_Subset, Ends DEF Shapes
      <3>2. Cardinality(reg[Server]) \in Nat /\ ~(Cardinality(reg[Server]) >= Cap) /\ s \notin reg[Server]
        BY <3>1, FS_CardinalityType DEF HandleOpen, Rejected
      <3>3. reg'[Server] = reg[Server] \cup {s}
        BY <1>0, Ends DEF Shapes, HandleOpen
      <3>4. Cardinality(reg'[Server]) = Cardinality(reg[Server]) + 1
        BY <3>1, <3>2, <3>3, FS_AddElement
      <3> QED BY <3>2, <3>4, MuxAssumption
    <2> QED BY <1>0, <1>7, <2>1, <2>2 DEF RegistryHeld, HandleOpen
  <1>9. Opened(s)'
    <2>1. Where(q'[Client], s, {"open"}) = {}
      BY <1>1, <1>5, OnceTail
    <2>2. Signals(Client, s) /\ Signals(Server, s)
      BY <1>0, <1>1, SignalsTaken, SignalsKept, Ends
    <2> QED BY <1>0, <1>6, <1>7, <2>1, <2>2 DEF Opened, OpenOK, Signals, Early, HandleOpen, pumpVars
  <1>10. Flow(Client, s)'
    BY <1>0, <1>1, <1>2, <1>6, FlowStart, Ends DEF HandleOpen, pumpVars, Held
  <1>11. Flow(Server, s)'
    BY <1>0, <1>1, FlowHeld, Ends DEF HandleOpen, pumpVars, QueueKept, Held, Routed, Shapes
  <1> QED BY <1>3, <1>4, <1>8, <1>9, <1>10, <1>11, StepInv, Ends

\* The reader takes the reply to OPEN.
LEMMA HandleReplyInv == ASSUME MuxInv, NEW s \in Sids, HandleReply(s) PROVE MuxInv'
  <1>0. Shapes /\ RegistryHeld /\ Opened(s) /\ Flow(Client, s) /\ Flow(Server, s)
    BY Ends DEF MuxInv
  <1>1. /\ QueuesTyped /\ q'[Server] = Tail(q[Server]) /\ q[Server] # <<>>
        /\ Head(q[Server]).sid = s /\ Head(q[Server]).kind \in {"ok", "refused"}
        /\ \A z \in Sides, t \in Sids \ {s} : QueueKept(z, t)
        /\ QueueKept(Client, s)
        /\ \A K : Head(q[Server]).kind \notin K => Kept(q[Server], q'[Server], s, K)
    BY <1>0, QueuesTaken, Ends DEF HandleReply
  <1>2. Kept(q[Server], q'[Server], s, Flowing)
    BY <1>1 DEF Flowing
  <1>3. \/ UNCHANGED <<st, pend, reg, ev>>
        \/ /\ s \in pend /\ pend' = pend \ {s}
           /\ st' = [st EXCEPT ![Client][s] = "open"]
           /\ UNCHANGED <<reg, ev>>
        \/ Unregister(s)
    BY <1>1 DEF HandleReply
  <1>4. Shapes'
    <2>1. EventsTyped
      <3>1. <<>> \in Seq(Nat) /\ Len(<<>>) =< EvCap
        BY MuxAssumption
      <3>2. CASE Unregister(s)
        BY <1>0, <3>1, <3>2, EventsSet, Ends DEF Unregister
      <3>3. CASE ev' = ev
        BY <1>0, <3>3 DEF Shapes, EventsTyped
      <3> QED BY <1>3, <3>2, <3>3
    <2>2. st' \in [Sides -> [Sids -> StreamStates]] /\ pend' \subseteq Sids /\ reg' \in [Sides -> SUBSET Sids]
      <3>1. CASE Unregister(s)
        BY <1>0, <3>1 DEF Shapes, Unregister, StreamStates
      <3>2. CASE st' = [st EXCEPT ![Client][s] = "open"] /\ pend' = pend \ {s} /\ UNCHANGED <<reg, ev>>
        BY <1>0, <3>2 DEF Shapes, StreamStates
      <3>3. CASE UNCHANGED <<st, pend, reg, ev>>
        BY <1>0, <3>3 DEF Shapes
      <3> QED BY <1>3, <3>1, <3>2, <3>3
    <2> QED BY <1>0, <1>1, <2>1, <2>2 DEF Shapes, HandleReply, QueuesTyped, EventsTyped
  <1>5. Elsewhere(s)
    <2> SUFFICES ASSUME NEW t \in Sids \ {s}, NEW z \in Sides PROVE EndSame(z, t)
      BY <1>1 DEF Elsewhere, StreamSame
    <2>0. st \in [Sides -> [Sids -> StreamStates]] /\ reg \in [Sides -> SUBSET Sids] /\ ev \in [Sides -> [Sids -> Seq(Nat)]]
      BY <1>0 DEF Shapes
    <2>1. CASE Unregister(s)
      BY <2>0, <2>1 DEF HandleReply, Unregister, EndSame
    <2>2. CASE st' = [st EXCEPT ![Client][s] = "open"] /\ pend' = pend \ {s} /\ UNCHANGED <<reg, ev>>
      BY <2>0, <2>2 DEF HandleReply, EndSame
    <2>3. CASE UNCHANGED <<st, pend, reg, ev>>
      BY <2>3 DEF HandleReply, EndSame
    <2> QED BY <1>3, <2>1, <2>2, <2>3
  <1>6. /\ q[Server] \in Seq(Frames) /\ Once(q[Server], s, Replies) /\ 1 \in Where(q[Server], s, Replies)
        /\ Head(q[Server]).kind \in Replies
    <2>1. q[Server] \in Seq(Frames) /\ Head(q[Server]).kind \in Replies
      BY <1>0, <1>1, Ends DEF Shapes, Replies
    <2>2. TailPlaces(q[Server], s, Replies)
      BY <1>1, <2>1, WhereTail
    <2> QED BY <1>0, <1>1, <2>1, <2>2 DEF TailPlaces, Opened, OpenOK
  <1>7. st[Server][s] \notin Early /\ up[Client][s] = "off" /\ st[Client][s] \notin {"open", "new", "send"}
    BY <1>0, <1>6 DEF Opened, OpenOK, Early
  <1>8. st'[Server] = st[Server] /\ st'[Client][s] \in {st[Client][s], "open", "ended"}
    BY <1>0, <1>3, Ends DEF Shapes, Unregister
  <1>9. RegistryHeld'
    <2>1. \A z \in Sides : reg'[z] \subseteq reg[z]
      <3>1. CASE Unregister(s)
        BY <1>0, <3>1 DEF Shapes, Unregister
      <3>2. CASE reg' = reg
        BY <3>2
      <3> QED BY <1>3, <3>1, <3>2
    <2>2. \A z \in Sides : \A t \in reg'[z] : st'[z][t] \notin {"new", "ended"}
      <3>1. CASE UNCHANGED <<st, pend, reg, ev>>
        BY <1>0, <3>1 DEF RegistryHeld
      <3>2. CASE st' = [st EXCEPT ![Client][s] = "open"] /\ UNCHANGED <<reg, ev>>
        BY <1>0, <3>2, Ends DEF Shapes, RegistryHeld
      <3>3. CASE Unregister(s)
        BY <1>0, <3>3, Ends DEF Shapes, RegistryHeld, Unregister
      <3> QED BY <1>3, <3>1, <3>2, <3>3
    <2>3. pend' \subseteq pend /\ \A t \in pend' : st'[Client][t] \in {"send", "reply"}
      BY <1>0, <1>3, Ends DEF Shapes, RegistryHeld, Unregister
    <2> QED BY <1>0, <2>1, <2>2, <2>3, RegistryShrinks
  <1>10. Opened(s)'
    <2>1. Where(q'[Server], s, Replies) = {}
      BY <1>1, <1>6, OnceTail
    <2>2. Signals(Client, s) /\ Signals(Server, s)
      BY <1>0, <1>1, SignalsTaken, SignalsKept, Ends
    <2>3. UNCHANGED <<up, down>>
      BY DEF HandleReply
    <2> QED BY <1>0, <1>7, <1>8, <2>1, <2>2, <2>3 DEF Opened, OpenOK, Signals
  <1>11. Flow(Client, s)'
    <2>1. ev'[Server] = ev[Server] /\ reg'[Server] = reg[Server]
      BY <1>0, <1>3, Ends DEF Shapes, Unregister
    <2> QED BY <1>0, <1>1, <2>1, FlowHeld, Ends DEF HandleReply, QueueKept, Held, Routed
  <1>12. Flow(Server, s)'
    <2>1. CASE UNCHANGED <<reg, ev>>
      BY <1>0, <1>1, <1>2, <2>1, FlowHeld, Ends DEF HandleReply, Held, Routed
    <2>2. CASE Unregister(s)
      <3>1. ev'[Client][s] = <<>> /\ ~Routed(Client, s)'
        BY <1>0, <2>2, Ends DEF Unregister, Routed, Shapes
      <3> QED BY <1>0, <1>1, <1>2, <3>1, FlowDropped, Ends DEF HandleReply, Held
    <2> QED BY <1>3, <2>1, <2>2
  <1> QED BY <1>4, <1>5, <1>9, <1>10, <1>11, <1>12, StepInv, Ends

\* A taken frame, perhaps bounced, that changes at most the registry.
LEMMA RejectOpenInv == ASSUME MuxInv, NEW s \in Sids, RejectOpen(s) PROVE MuxInv'
  <1>0. Shapes /\ RegistryHeld /\ Opened(s) /\ Flow(Client, s) /\ Flow(Server, s)
    BY Ends DEF MuxInv
  <1>1. /\ QueuesTyped /\ lost' \subseteq Sides \X Sids /\ q'[Client] = Tail(q[Client]) /\ q[Client] # <<>>
        /\ Head(q[Client]).sid = s /\ Head(q[Client]).kind \in {"open"}
        /\ \A z \in Sides, t \in Sids \ {s} : QueueKept(z, t)
        /\ QueueKept(Server, s)
        /\ \A K : Head(q[Client]).kind \notin K => Kept(q[Client], q'[Client], s, K)
    BY <1>0, QueuesTaken, Ends DEF RejectOpen
  <1>2. Kept(q[Client], q'[Client], s, Flowing)
    BY <1>1 DEF Flowing
  <1>3. Shapes'
    BY <1>0, <1>1 DEF Shapes, RejectOpen, pumpVars, QueuesTyped
  <1>4. Elsewhere(s)
    <2>1. ASSUME NEW t \in Sids \ {s}, NEW z \in Sides PROVE EndSame(z, t)
      BY <1>0 DEF Shapes, RejectOpen, pumpVars, EndSame
    <2> QED BY <1>1, <2>1 DEF Elsewhere, StreamSame
  <1>5. RegistryHeld'
    BY <1>0 DEF RegistryHeld, RejectOpen
  <1>6. Opened(s)'
    <2>1. Signals(Client, s) /\ Signals(Server, s)
      BY <1>0, <1>1, SignalsTaken, SignalsKept, Ends
    <2>2. OpenPumps(s)
      BY DEF OpenPumps, RejectOpen, pumpVars
    <2> QED BY <1>0, <2>1, <2>2, PumpsOpened DEF RejectOpen
  <1>7. Flow(Client, s)' /\ Flow(Server, s)'
    BY <1>0, <1>1, <1>2, FlowHeld, Ends DEF RejectOpen, pumpVars, QueueKept, Held, Routed
  <1> QED BY <1>3, <1>4, <1>5, <1>6, <1>7, StepInv, Ends

\* A step that takes a stream out of one registry, and nothing else but queues.
LEMMA ForgetInv ==
  ASSUME MuxInv, NEW x \in Sides, NEW s \in Sids, QueuesTyped, lost' \subseteq Sides \X Sids,
         q'[Peer(x)] = Tail(q[Peer(x)]), q[Peer(x)] # <<>>,
         \A z \in Sides, t \in Sids \ {s} : QueueKept(z, t),
         QueueKept(x, s), reg' = [reg EXCEPT ![x] = @ \ {s}],
         UNCHANGED <<alive, st, pend, pumpVars>>
  PROVE  MuxInv'
  <1> DEFINE y == Peer(x)
  <1>0. Shapes /\ RegistryHeld /\ Opened(s) /\ Flow(x, s) /\ Flow(y, s)
    BY Ends DEF MuxInv
  <1>1. y \in Sides /\ y # x /\ Peer(y) = x
    BY Ends
  <1>2. Shapes'
    BY <1>0 DEF Shapes, pumpVars, QueuesTyped
  <1>3. Elsewhere(s)
    <2>1. ASSUME NEW t \in Sids \ {s}, NEW z \in Sides PROVE EndSame(z, t)
      BY <1>0 DEF Shapes, pumpVars, EndSame
    <2> QED BY <2>1 DEF Elsewhere, StreamSame
  <1>4. RegistryHeld'
    <2>1. \A z \in Sides : reg'[z] \subseteq reg[z]
      BY <1>0 DEF Shapes
    <2> QED BY <1>0, <2>1, RegistryShrinks DEF RegistryHeld
  <1>5. Opened(s)'
    <2>1. Signals(y, s) /\ Signals(x, s)
      BY <1>0, <1>1, SignalsTaken, SignalsKept
    <2>2. Signals(Client, s) /\ Signals(Server, s)
      BY <2>1, Ends
    <2>3. OpenPumps(s)
      BY DEF OpenPumps, pumpVars
    <2> QED BY <1>0, <2>2, <2>3, PumpsOpened
  <1>6. Flow(x, s)'
    BY <1>0, <1>1, FlowHeld DEF pumpVars, QueueKept, Held, Routed, Shapes
  <1>7. Flow(y, s)'
    <2>1. FlowOK(q[y], s, sent[y][s], up[y][s], alive[y], Len(got[x][s]), ev[x][s], down[x][s], Routed(x, s))
      BY <1>0, <1>1 DEF Flow
    <2>2. q[y] \in Seq(Frames) /\ sent[y][s] \in Nat /\ Len(got[x][s]) \in Nat /\ ev[x][s] \in Seq(Nat)
      BY <1>0, <1>1, FlowTypes
    <2>3. ~Routed(x, s)'
      BY <1>0 DEF Routed, Shapes
    <2> HIDE DEF y
    <2>4. FlowOK(Tail(q[y]), s, sent[y][s], up[y][s], alive[y], Len(got[x][s]), ev[x][s], down[x][s], Routed(x, s)')
      BY <2>1, <2>2, <2>3, FlowDrop DEF y
    <2> QED BY <1>1, <2>4 DEF Flow, pumpVars, y
  <1> QED BY <1>2, <1>3, <1>4, <1>5, <1>6, <1>7, StepInv

\* A frame is taken and dropped.
LEMMA DropInv ==
  ASSUME MuxInv, NEW x \in Sides, NEW s \in Sids, HandleClose(x, s) \/ RouteGone(x, s) \/ RouteStall(x, s)
  PROVE  MuxInv'
  <1>0. Shapes
    BY DEF MuxInv
  <1>1. PICK kinds : Receives(x, kinds, s)
    BY DEF HandleClose, RouteGone, RouteStall, Blocked
  <1>2. /\ q' = Taken(x) \/ TryClose(Taken(x), x, s)
        /\ lost' = lost \/ TryClose(Taken(x), x, s)
        /\ reg' = [reg EXCEPT ![x] = @ \ {s}] /\ UNCHANGED <<alive, st, pend, pumpVars>>
    BY DEF HandleClose, RouteGone, RouteStall
  <1>3. /\ QueuesTyped /\ lost' \subseteq Sides \X Sids
        /\ q'[Peer(x)] = Tail(q[Peer(x)]) /\ q[Peer(x)] # <<>>
        /\ \A z \in Sides, t \in Sids \ {s} : QueueKept(z, t)
        /\ QueueKept(x, s)
    BY <1>0, <1>1, <1>2, QueuesTaken
  <1> QED BY <1>2, <1>3, ForgetInv

\* A frame becomes an event.
LEMMA RouteInv == ASSUME MuxInv, NEW x \in Sides, NEW s \in Sids, Route(x, s) PROVE MuxInv'
  <1> DEFINE y == Peer(x)
             E == ev[x][s]
             F == Append(E, Event(Head(q[y])))
  <1>0. Shapes /\ RegistryHeld /\ Opened(s) /\ Flow(x, s) /\ Flow(y, s)
    BY Ends DEF MuxInv
  <1>1. y \in Sides /\ y # x /\ Peer(y) = x /\ E \in Seq(Nat) /\ q[y] \in Seq(Frames)
    BY <1>0, Ends DEF Shapes
  <1>2. /\ QueuesTyped /\ lost' \subseteq Sides \X Sids
        /\ q'[y] = Tail(q[y]) /\ q[y] # <<>>
        /\ Head(q[y]).sid = s /\ Head(q[y]).kind \in {"data", "eof"}
        /\ \A z \in Sides, t \in Sids \ {s} : QueueKept(z, t)
        /\ QueueKept(x, s)
    BY <1>0, QueuesTaken DEF Route
  <1>3. EventsTyped
    <2>1. Head(q[y]) \in Frames
      BY <1>1, <1>2, HeadTailProperties
    <2>2. Event(Head(q[y])) \in Nat
      BY <2>1 DEF Frames, Event, Eof
    <2>3. F \in Seq(Nat) /\ Len(F) = Len(E) + 1 /\ Len(E) \in Nat
      BY <1>1, <2>2, AppendProperties
    <2>4. Len(F) =< EvCap
      BY <2>3, MuxAssumption DEF Route
    <2>5. ev' = [ev EXCEPT ![x][s] = F]
      BY DEF Route
    <2> QED BY <1>0, <2>3, <2>4, <2>5, EventsSet
  <1>4. Shapes'
    BY <1>0, <1>2, <1>3 DEF Shapes, Route, QueuesTyped, EventsTyped
  <1>5. Elsewhere(s)
    <2>1. ASSUME NEW t \in Sids \ {s}, NEW z \in Sides PROVE EndSame(z, t)
      BY <1>0 DEF Shapes, Route, EndSame
    <2> QED BY <1>2, <2>1 DEF Elsewhere, StreamSame
  <1>6. RegistryHeld'
    BY <1>0 DEF RegistryHeld, Route
  <1>7. Opened(s)'
    <2>1. Signals(y, s) /\ Signals(x, s)
      BY <1>0, <1>1, <1>2, SignalsTaken, SignalsKept
    <2>2. Signals(Client, s) /\ Signals(Server, s)
      BY <2>1, Ends
    <2>3. OpenPumps(s)
      BY DEF OpenPumps, Route
    <2> QED BY <1>0, <2>2, <2>3, PumpsOpened DEF Route
  <1>8. Flow(x, s)'
    BY <1>0, <1>1, <1>2, FlowHeld DEF Route, QueueKept, Held, Routed, Shapes
  <1>9. Flow(y, s)'
    <2>1. Routed(x, s) = TRUE /\ Routed(x, s)' = TRUE
      BY DEF Routed, Route, Receiver
    <2>2. FlowOK(q[y], s, sent[y][s], up[y][s], alive[y], Len(got[x][s]), E, down[x][s], TRUE)
      BY <1>0, <1>1, <2>1 DEF Flow
    <2>3. sent[y][s] \in Nat /\ Len(got[x][s]) \in Nat
      BY <1>0, <1>1, FlowTypes
    <2>4. Head(q[y]).kind \in Flowing
      BY <1>2 DEF Flowing
    <2>5. ev'[x][s] = F
      BY <1>0 DEF Route, Shapes
    <2> HIDE DEF y, E
    <2>6. FlowOK(Tail(q[y]), s, sent[y][s], up[y][s], alive[y], Len(got[x][s]), F, down[x][s], TRUE)
      BY <1>1, <1>2, <2>2, <2>3, <2>4, FlowRoute
    <2> QED BY <1>1, <1>2, <2>1, <2>5, <2>6 DEF Flow, Route
  <1> QED BY <1>4, <1>5, <1>6, <1>7, <1>8, <1>9, StepInv

----------------------------------------------------------------------------
(* Tunnel death *)

\* An end dies.
LEMMA DieInv == ASSUME MuxInv, NEW x \in Sides, Die(x) PROVE MuxInv'
  <1> DEFINE y == Peer(x)
  <1>0. Shapes /\ RegistryHeld /\ \A t \in Sids : Opened(t) /\ Flow(x, t) /\ Flow(y, t)
    BY Ends DEF MuxInv
  <1>1. y \in Sides /\ y # x /\ Peer(y) = x /\ q[x] \in Seq(Frames) /\ q[y] \in Seq(Frames)
    BY <1>0, Ends DEF Shapes
  <1>2. PICK n \in 0..Len(q[x]) : q' = [q EXCEPT ![x] = SubSeq(q[x], 1, n)]
    BY DEF Die
  <1>3. q'[x] = SubSeq(q[x], 1, n) /\ q'[y] = q[y]
    BY <1>0, <1>1, <1>2 DEF Shapes
  <1>4. QueuesTyped
    <2>1. SubSeq(q[x], 1, n) \in Seq(Frames) /\ Len(SubSeq(q[x], 1, n)) = n
      BY <1>1, Prefix
    <2>2. n \in Nat /\ n =< Len(q[x]) /\ Len(q[x]) \in Nat /\ Len(q[x]) =< OutCap
      BY <1>0, <1>1 DEF Shapes
    <2>3. n =< OutCap
      BY <2>2, MuxAssumption
    <2> QED BY <1>0, <1>1, <1>2, <1>3, <2>1, <2>3, Ends DEF QueuesTyped, Shapes
  <1>5. reg' \in [Sides -> SUBSET Sids] /\ (\A z \in Sides : reg'[z] \subseteq reg[z]) /\ pend' \subseteq pend
    BY <1>0 DEF Die, Shapes
  <1>6. Shapes'
    BY <1>0, <1>4, <1>5 DEF Shapes, Die, pumpVars, QueuesTyped
  <1>7. RegistryHeld'
    BY <1>0, <1>5, RegistryShrinks, Ends DEF RegistryHeld, Die
  <1>8. ASSUME NEW t \in Sids PROVE Opened(t)'
    <2>1. Signals(x, t)
      <3>1. ASSUME NEW K
            PROVE  /\ Once(q[x], t, K) => Once(SubSeq(q[x], 1, n), t, K)
                   /\ Where(q[x], t, K) = {} => Where(SubSeq(q[x], 1, n), t, K) = {}
        <4> DEFINE Q == q[x]
        <4>1. Q \in Seq(Frames) /\ n \in 0..Len(Q)
          BY <1>1
        <4> HIDE DEF Q
        <4>2. /\ Once(Q, t, K) => Once(SubSeq(Q, 1, n), t, K)
              /\ Where(Q, t, K) = {} => Where(SubSeq(Q, 1, n), t, K) = {}
          BY <4>1, OncePrefix
        <4> QED BY <4>2 DEF Q
      <3> QED BY <1>3, <3>1 DEF Signals
    <2>2. Signals(y, t)
      BY <1>3 DEF Signals
    <2>3. Signals(Client, t) /\ Signals(Server, t)
      BY <2>1, <2>2, Ends
    <2>4. OpenPumps(t)
      BY DEF OpenPumps, Die, pumpVars
    <2> QED BY <1>0, <2>3, <2>4, PumpsOpened DEF Die
  <1>9. ASSUME NEW t \in Sids PROVE Flow(x, t)'
    <2>1. FlowOK(q[x], t, sent[x][t], up[x][t], alive[x], Len(got[y][t]), ev[y][t], down[y][t], Routed(y, t))
      BY <1>0 DEF Flow
    <2>2. sent[x][t] \in Nat /\ Len(got[y][t]) \in Nat /\ ev[y][t] \in Seq(Nat)
      BY <1>0, FlowTypes
    <2>3. FlowOK(SubSeq(q[x], 1, n), t, sent[x][t], up[x][t], FALSE, Len(got[y][t]), ev[y][t], down[y][t], Routed(y, t))
      <3> HIDE DEF y
      <3> QED BY <1>1, <2>1, <2>2, FlowCut
    <2>4. alive'[x] = FALSE /\ reg'[y] = reg[y]
      BY <1>0, <1>1 DEF Die, Shapes
    <2>5. Routed(y, t)' = Routed(y, t)
      BY <2>4 DEF Routed, Die, pumpVars
    <2> QED BY <1>3, <2>3, <2>4, <2>5 DEF Flow, Die, pumpVars
  <1>10. ASSUME NEW t \in Sids PROVE Flow(y, t)'
    <2>1. Kept(q[y], q'[y], t, Flowing)
      BY <1>1, <1>3, KeptSame
    <2>2. alive'[y] = alive[y] /\ (t \in reg'[x] => t \in reg[x])
      BY <1>0, <1>1, <1>5 DEF Die, Shapes
    <2> QED BY <1>0, <1>1, <1>4, <2>1, <2>2, FlowHeld DEF Die, pumpVars, Held, Routed
  <1>11. \A z \in Sides, t \in Sids : Flow(z, t)'
    BY <1>9, <1>10, Ends
  <1> QED BY <1>6, <1>7, <1>8, <1>11 DEF MuxInv

----------------------------------------------------------------------------
(* The invariant *)

\* The initial states.
LEMMA InitInv == Init => MuxInv
  <1> SUFFICES ASSUME Init PROVE MuxInv
    OBVIOUS
  <1>1. <<>> \in Seq(Frames) /\ <<>> \in Seq(Nat) /\ <<>> \in Seq(Nat \ {0}) /\ Len(<<>>) = 0
    OBVIOUS
  <1>2. Shapes
    <2>1. \A x \in Sides, s \in Sids : 0 =< Chunks[x][s]
      BY ChunksAssumption
    <2> QED BY <1>1, <2>1, MuxAssumption DEF Init, Shapes, StreamStates, PumpStates
  <1>3. RegistryHeld
    <2>1. Cardinality({}) = 0
      BY FS_EmptySet
    <2> QED BY <2>1, MuxAssumption DEF Init, RegistryHeld, Sides
  <1>4. \A s, K : Where(<<>>, s, K) = {}
    BY DEF Where
  <1>5. ASSUME NEW s \in Sids PROVE Opened(s)
    BY <1>4, Ends DEF Init, Opened, OpenOK, Once, Early
  <1>6. ASSUME NEW x \in Sides, NEW s \in Sids PROVE Flow(x, s)
    <2>1. /\ q[x] = <<>> /\ sent[x][s] = 0 /\ up[x][s] = "off" /\ got[Peer(x)][s] = <<>>
          /\ ev[Peer(x)][s] = <<>> /\ down[Peer(x)][s] = "off"
      BY Ends DEF Init
    <2>2. /\ Queued(<<>>, 0, "off", 0) /\ Within(<<>>, s, 0, "off") /\ Ordered(<<>>, s, 0)
          /\ \A e : Gapless(<<>>, s, 0, e)
      BY <1>4 DEF Queued, Within, Ordered, Gapless
    <2>3. FlowOK(<<>>, s, 0, "off", alive[x], 0, <<>>, "off", Routed(Peer(x), s))
      BY <1>1, <1>4, <2>2 DEF FlowOK
    <2> QED BY <1>1, <2>1, <2>3 DEF Flow
  <1> QED BY <1>2, <1>3, <1>5, <1>6 DEF MuxInv

\* Every step.
LEMMA NextInv == MuxInv /\ [Next]_vars => MuxInv'
  <1> SUFFICES ASSUME MuxInv, [Next]_vars PROVE MuxInv'
    OBVIOUS
  <1>1. CASE UNCHANGED vars
    BY <1>1 DEF MuxInv, Shapes, RegistryHeld, Opened, Flow, Routed, vars, pumpVars
  <1>2. ASSUME NEW s \in Sids, Register(s) \/ Opening(s) \/ Serving(s) \/ Owning(s) \/ AppGone(s)
        PROVE  MuxInv'
    <2>1. CASE Register(s)
      BY <2>1, RegisterInv
    <2>2. CASE SendOpen(s)
      BY <2>2, SendOpenInv
    <2>3. CASE OpenDead(s)
      BY <2>3, OpenDeadInv
    <2>4. CASE OpenTimeout(s) \/ AppGone(s) \/ EndClient(s)
      BY <2>4, CloseInv
    <2>5. CASE Connect(s)
      BY <2>5, ConnectInv
    <2>6. CASE ReplyOk(s)
      BY <2>6, ReplyOkInv
    <2>7. CASE ReplyRefused(s)
      BY <2>7, ReplyRefusedInv
    <2>8. CASE Cleanup(s)
      BY <2>8, CleanupInv
    <2>9. CASE EndServer(s)
      BY <2>9, EndServerInv
    <2>10. CASE StartPump(s)
      BY <2>10, StartPumpInv
    <2> QED BY <1>2, <2>1, <2>2, <2>3, <2>4, <2>5, <2>6, <2>7, <2>8, <2>9, <2>10
            DEF Opening, Serving, Owning
  <1>3. ASSUME NEW x \in Sides, NEW s \in Sids,
               \/ Demux(x, s)
               \/ Reads(x, s) \/ UpErr(x, s)
               \/ Writes(x, s) \/ DownErr(x, s)
               \/ Aborts(x, s)
        PROVE  MuxInv'
    <2>1. CASE HandleOpen(s)
      BY <2>1, HandleOpenInv
    <2>2. CASE RejectOpen(s)
      BY <2>2, RejectOpenInv
    <2>3. CASE HandleReply(s)
      BY <2>3, HandleReplyInv
    <2>4. CASE HandleClose(x, s) \/ RouteGone(x, s) \/ RouteStall(x, s)
      BY <2>4, DropInv
    <2>5. CASE Route(x, s)
      BY <2>5, RouteInv
    <2>6. CASE UpData(x, s)
      BY <2>6, UpDataInv
    <2>7. CASE UpEof(x, s)
      BY <2>7, UpEofInv
    <2>8. CASE UpDead(x, s) \/ UpErr(x, s) \/ AbortUp(x, s)
      BY <2>8, UpStopInv
    <2>9. CASE DownData(x, s)
      BY <2>9, DownDataInv
    <2>10. CASE DownEof(x, s) \/ DownErr(x, s) \/ DownNone(x, s) \/ AbortDown(x, s)
      BY <2>10, DownStopInv
    <2> QED BY <1>3, <2>1, <2>2, <2>3, <2>4, <2>5, <2>6, <2>7, <2>8, <2>9, <2>10
            DEF Demux, Reads, Writes, Aborts
  <1>4. ASSUME NEW x \in Sides, CarrierFails(x) \/ CarrierEnds(x) PROVE MuxInv'
    BY <1>4, DieInv DEF CarrierFails, CarrierEnds
  <1> QED BY <1>1, <1>2, <1>3, <1>4 DEF Next

\* Every reachable state satisfies the inductive invariant: opening runs once
\* per stream, and every flow is intact between its two pumps.
THEOREM MuxInvariant == Spec => []MuxInv
  BY InitInv, NextInv, PTL DEF Spec

----------------------------------------------------------------------------
(* A stream no fault has hit *)

Kinds == {"open", "ok", "refused", "data", "eof", "close"}

Lacks(Q, s, k) == Where(Q, s, {k}) = {}

\* The OPEN was turned away: the server never knew the stream.
Away(QC, s, c, v) == v = "new" /\ c \notin {"new", "send"} /\ Lacks(QC, s, "open")

\* The target was refused: neither end ever pumps.
Declined(QS, s, c, v, uc, uv) ==
  /\ v \in {"cleanup", "ended"} /\ c # "open"
  /\ uc = "off" /\ uv = "off"
  /\ Lacks(QS, s, "ok")

\* One stream: its queues, states and pumps as in OpenOK, and whether it is
\* registered at the client (rc) and at the server (rv).
SoundOK(QC, QS, s, c, v, uc, dc, uv, dv, rc, rv) ==
  /\ uc # "closed" /\ dc # "closed" /\ uv # "closed" /\ dv # "closed"
  /\ (Lacks(QC, s, "close") /\ Lacks(QS, s, "close")) \/ Away(QC, s, c, v)
  /\ c \notin {"new", "ended"} /\ ~rc => Away(QC, s, c, v)
  /\ v \notin {"new", "ended"} => rv
  /\ c = "ended" => Declined(QS, s, c, v, uc, uv) \/ (uc = "eof" /\ dc = "eof")
  /\ v = "ended" => Declined(QS, s, c, v, uc, uv) \/ (uv = "eof" /\ dv = "eof")
  /\ v = "cleanup" \/ ~Lacks(QS, s, "refused") => Declined(QS, s, c, v, uc, uv)

Sound(s) ==
  /\ alive[Client] /\ alive[Server]
  /\ SoundOK(q[Client], q[Server], s, st[Client][s], st[Server][s],
             up[Client][s], down[Client][s], up[Server][s], down[Server][s],
             s \in reg[Client], s \in reg[Server])

BlameInv == broken \subseteq Sids /\ \A s \in Sids : s \in broken \/ Sound(s)

\* No frame of kind k of stream t appears in the queue of end z.
Silent(z, t, k) == Lacks(q[z], t, k) => Lacks(q'[z], t, k)

\* The only frame that appears is of kind k of stream s, at end x.
Gains(x, s, k) ==
  \A z \in Sides, t \in Sids, j \in Kinds : (z = x /\ t = s /\ j = k) \/ Silent(z, t, j)

\* Every stream but s keeps its states, its pumps and its entries.
Aside(s) ==
  \A z \in Sides, t \in Sids \ {s} :
    /\ st'[z][t] = st[z][t] /\ up'[z][t] = up[z][t] /\ down'[z][t] = down[z][t]
    /\ t \in reg'[z] <=> t \in reg[z]

\* Stream s keeps them too, at end z.
Same(z, s) ==
  /\ st'[z][s] = st[z][s] /\ up'[z][s] = up[z][s] /\ down'[z][s] = down[z][s]
  /\ (s \in reg'[z]) = (s \in reg[z])

\* Where one queue lacks frames.
LEMMA LacksStep ==
  ASSUME NEW Q \in Seq(Frames), NEW f \in Frames, NEW t, NEW k, Lacks(Q, t, k)
  PROVE  /\ ~(f.sid = t /\ f.kind = k) => Lacks(Append(Q, f), t, k)
         /\ Q # <<>> => Lacks(Tail(Q), t, k)
  <1>1. AppendPlaces(Q, f, t, {k})
    BY WhereAppend
  <1>2. Q # <<>> => Where(Tail(Q), t, {k}) = {}
    BY OnceTail DEF Lacks
  <1> QED BY <1>1, <1>2 DEF Lacks, AppendPlaces

\* What a step that takes at most one frame and sends at most one does.
LEMMA GainsOne ==
  ASSUME Shapes, NEW x \in Sides, NEW s \in Sids, NEW f \in Frames, f.sid = s,
         \/ q' = q \/ q' = Put(x, f)
         \/ q[Peer(x)] # <<>> /\ (q' = Taken(x) \/ q' = [Taken(x) EXCEPT ![x] = Append(@, f)])
  PROVE  Gains(x, s, f.kind)
  <1>1. Peer(x) \in Sides /\ Peer(x) # x /\ \A z \in Sides : z = x \/ z = Peer(x)
    BY Ends
  <1>2. q[x] \in Seq(Frames) /\ q[Peer(x)] \in Seq(Frames)
    BY <1>1 DEF Shapes
  <1>3. /\ q'[x] = q[x] \/ q'[x] = Append(q[x], f)
        /\ q'[Peer(x)] = q[Peer(x)] \/ (q[Peer(x)] # <<>> /\ q'[Peer(x)] = Tail(q[Peer(x)]))
    BY <1>1 DEF Shapes, Put, Taken
  <1>4. ASSUME NEW t \in Sids, NEW j \in Kinds, ~(t = s /\ j = f.kind) PROVE Silent(x, t, j)
    BY <1>2, <1>3, <1>4, LacksStep DEF Silent
  <1>5. ASSUME NEW t \in Sids, NEW j \in Kinds PROVE Silent(Peer(x), t, j)
    BY <1>2, <1>3, LacksStep DEF Silent
  <1> QED BY <1>1, <1>4, <1>5 DEF Gains

\* A step that may send CLOSE.
LEMMA GainsClose ==
  ASSUME Shapes, NEW x \in Sides, NEW s \in Sids,
         \/ q' = q \/ TryClose(q, x, s)
         \/ q[Peer(x)] # <<>> /\ (q' = Taken(x) \/ TryClose(Taken(x), x, s))
  PROVE  Gains(x, s, "close")
  <1> DEFINE f == Frame("close", s)
  <1>1. f \in Frames /\ f.sid = s /\ f.kind = "close"
    BY DEF Frame, Frames
  <1>2. \/ q' = q \/ q' = Put(x, f)
        \/ q[Peer(x)] # <<>> /\ (q' = Taken(x) \/ q' = [Taken(x) EXCEPT ![x] = Append(@, f)])
    BY DEF TryClose, Put
  <1> HIDE DEF f
  <1> QED BY <1>1, <1>2, GainsOne

\* A stream left alone stays sound.
LEMMA SoundKept ==
  ASSUME NEW t \in Sids, Sound(t), Opened(t), alive' = alive, Same(Client, t), Same(Server, t),
         \A z \in Sides, j \in Kinds : Silent(z, t, j)
  PROVE  Sound(t)'
  <1>1. /\ Silent(Client, t, "open") /\ Silent(Client, t, "close") /\ Silent(Server, t, "close")
        /\ Silent(Server, t, "ok") /\ Silent(Server, t, "refused")
    BY Ends DEF Kinds
  <1> QED BY <1>1 DEF Sound, SoundOK, Away, Declined, Silent, Same

\* A step that concerns stream s only has to account for s.
LEMMA StepBlame ==
  ASSUME MuxInv, BlameInv, NEW s \in Sids, Aside(s), alive' = alive,
         broken' = broken \/ broken' = broken \cup {s},
         NEW x \in Sides, NEW k, Gains(x, s, k),
         s \in broken' \/ Sound(s)'
  PROVE  BlameInv'
  <1>1. broken' \subseteq Sids
    BY DEF BlameInv
  <1>2. ASSUME NEW t \in Sids \ {s}, t \notin broken' PROVE Sound(t)'
    <2>1. Sound(t) /\ Opened(t)
      BY <1>2 DEF BlameInv, MuxInv
    <2>2. Same(Client, t) /\ Same(Server, t)
      BY Ends DEF Aside, Same
    <2>3. \A z \in Sides, j \in Kinds : Silent(z, t, j)
      BY DEF Gains
    <2> QED BY <2>1, <2>2, <2>3, SoundKept
  <1> QED BY <1>1, <1>2 DEF BlameInv

\* A function of ends and streams that changes at one of each.
LEMMA OneSet ==
  ASSUME NEW V, NEW F \in [Sides -> [Sids -> V]], NEW x \in Sides, NEW s \in Sids, NEW G,
         G = F \/ \E v : G = [F EXCEPT ![x][s] = v]
  PROVE  \A z \in Sides, t \in Sids : (z = x /\ t = s) \/ G[z][t] = F[z][t]
  OBVIOUS

\* Registries that change by one entry.
LEMMA OneEntry ==
  ASSUME NEW F \in [Sides -> SUBSET Sids], NEW x \in Sides, NEW s \in Sids, NEW G,
         \/ G = F
         \/ G = [F EXCEPT ![x] = @ \cup {s}]
         \/ G = [F EXCEPT ![x] = @ \ {s}]
  PROVE  \A z \in Sides, t \in Sids : (z = x /\ t = s) \/ (t \in G[z] <=> t \in F[z])
  OBVIOUS

\* What changes at end x of stream s, at most.
Only(x, s) ==
  /\ st' = st \/ \E v : st' = [st EXCEPT ![x][s] = v]
  /\ up' = up \/ \E v : up' = [up EXCEPT ![x][s] = v]
  /\ down' = down \/ \E v : down' = [down EXCEPT ![x][s] = v]
  /\ \/ reg' = reg
     \/ reg' = [reg EXCEPT ![x] = @ \cup {s}]
     \/ reg' = [reg EXCEPT ![x] = @ \ {s}]

\* It leaves everything else aside.
LEMMA AsideStep ==
  ASSUME Shapes, NEW x \in Sides, NEW s \in Sids, Only(x, s)
  PROVE  Aside(s) /\ \A z \in Sides \ {x} : Same(z, s)
  <1>1. \A z \in Sides, t \in Sids : (z = x /\ t = s) \/ st'[z][t] = st[z][t]
    BY OneSet DEF Shapes, Only
  <1>2. \A z \in Sides, t \in Sids : (z = x /\ t = s) \/ up'[z][t] = up[z][t]
    BY OneSet DEF Shapes, Only
  <1>3. \A z \in Sides, t \in Sids : (z = x /\ t = s) \/ down'[z][t] = down[z][t]
    BY OneSet DEF Shapes, Only
  <1>4. \A z \in Sides, t \in Sids : (z = x /\ t = s) \/ (t \in reg'[z] <=> t \in reg[z])
    BY OneEntry DEF Shapes, Only
  <1> QED BY <1>1, <1>2, <1>3, <1>4 DEF Aside, Same

\* The steps of a fault blame the stream.
LEMMA FaultBlame ==
  ASSUME MuxInv, BlameInv, NEW x \in Sides, NEW s \in Sids,
         \/ x = Client /\ (OpenTimeout(s) \/ AppGone(s))
         \/ RouteStall(x, s) \/ UpErr(x, s) \/ DownErr(x, s)
  PROVE  BlameInv'
  <1>0. Shapes
    BY DEF MuxInv
  <1>1. Gains(x, s, "close")
    BY <1>0, GainsClose DEF OpenTimeout, AppGone, RouteStall, Blocked, Receives, UpErr, DownErr
  <1>2. Aside(s)
    <2>1. Only(x, s)
      BY DEF Only, OpenTimeout, AppGone, Unregister, RouteStall, pumpVars, UpErr, DownErr, DownEnds
    <2> QED BY <1>0, <2>1, AsideStep
  <1>3. alive' = alive /\ broken' = broken \cup {s}
    BY DEF OpenTimeout, AppGone, RouteStall, UpErr, DownErr
  <1> QED BY <1>1, <1>2, <1>3, StepBlame

\* What a sound stream is in the middle of.
LEMMA SoundFacts ==
  ASSUME MuxInv, NEW s \in Sids, Sound(s)
  PROVE  /\ Shapes /\ Opened(s) /\ alive[Client] /\ alive[Server]
         /\ \A z \in Sides : alive[z] /\ up[z][s] # "closed" /\ down[z][s] # "closed"
         /\ \A z \in Sides : Flow(z, s)
  BY Ends DEF MuxInv, Sound, SoundOK

\* The replies one by one.
LEMMA NoReplies ==
  ASSUME NEW Q, NEW s
  PROVE  /\ Where(Q, s, Replies) = {} <=> Lacks(Q, s, "ok") /\ Lacks(Q, s, "refused")
         /\ Where(Q, s, {"open"}) = {} <=> Lacks(Q, s, "open")
  BY DEF Where, Lacks, Replies

\* Steps that only move the stream's state or pumps, and send nothing.
LEMMA LocalBlame ==
  ASSUME MuxInv, BlameInv, NEW s \in Sids,
         Register(s) \/ Connect(s) \/ Cleanup(s) \/ StartPump(s) \/ EndServer(s)
  PROVE  BlameInv'
  <1>0. Shapes
    BY DEF MuxInv
  <1>1. q' = q /\ alive' = alive /\ broken' = broken
    BY DEF Register, Connect, Cleanup, StartPump, EndServer
  <1>2. Gains(Client, s, "close")
    BY <1>0, <1>1, GainsClose, Ends
  <1>3. Aside(s)
    <2>1. Only(Client, s) \/ Only(Server, s)
      BY DEF Only, Register, Connect, Cleanup, StartPump, EndServer, pumpVars
    <2> QED BY <1>0, <2>1, AsideStep, Ends
  <1>4. ASSUME s \notin broken PROVE Sound(s)'
    <2>0. Sound(s) /\ Opened(s)
      BY <1>4 DEF BlameInv, MuxInv
    <2>1. CASE Register(s)
      <3>1. /\ st[Client][s] = "new" /\ st'[Client][s] = "send" /\ st'[Server][s] = st[Server][s]
            /\ s \in reg'[Client] /\ reg'[Server] = reg[Server] /\ up' = up /\ down' = down
        BY <1>0, <2>1, Ends DEF Shapes, Register, pumpVars
      <3>2. st[Server][s] = "new"
        BY <2>0, <3>1 DEF Opened, OpenOK
      <3> QED BY <1>1, <2>0, <3>1, <3>2 DEF Sound, SoundOK, Away, Declined
    <2>2. CASE Connect(s)
      <3>1. /\ st[Server][s] = "connect" /\ st'[Server][s] \in {"ok", "fail"} /\ st'[Client][s] = st[Client][s]
            /\ reg' = reg /\ up' = up /\ down' = down
        BY <1>0, <2>2, Ends DEF Shapes, Connect, pumpVars
      <3> QED BY <1>1, <2>0, <3>1 DEF Sound, SoundOK, Away, Declined
    <2>3. CASE Cleanup(s)
      <3>1. /\ st[Server][s] = "cleanup" /\ st'[Server][s] = "ended" /\ st'[Client][s] = st[Client][s]
            /\ reg'[Client] = reg[Client] /\ up' = up /\ down' = down
        BY <1>0, <2>0, <2>3, Ends DEF Shapes, Cleanup, Sound
      <3> QED BY <1>1, <2>0, <3>1 DEF Sound, SoundOK, Away, Declined
    <2>4. CASE StartPump(s)
      <3>1. /\ st[Client][s] = "open" /\ st' = st /\ reg' = reg
            /\ up'[Client][s] = "run" /\ down'[Client][s] = "run"
            /\ up'[Server][s] = up[Server][s] /\ down'[Server][s] = down[Server][s]
        BY <1>0, <2>4, Ends DEF Shapes, StartPump
      <3> QED BY <1>1, <2>0, <3>1 DEF Sound, SoundOK, Away, Declined
    <2>5. CASE EndServer(s)
      <3>1. /\ st[Server][s] = "open" /\ st'[Server][s] = "ended" /\ st'[Client][s] = st[Client][s]
            /\ up[Server][s] \in {"eof", "closed"} /\ down[Server][s] \in {"eof", "closed"}
            /\ reg'[Client] = reg[Client] /\ up' = up /\ down' = down
        BY <1>0, <2>5, Ends DEF Shapes, EndServer, Pumped, pumpVars
      <3> QED BY <1>1, <2>0, <3>1 DEF Sound, SoundOK, Away, Declined
    <2> QED BY <2>1, <2>2, <2>3, <2>4, <2>5
  <1> QED BY <1>1, <1>2, <1>3, <1>4, StepBlame, Ends

\* Steps of the opening protocol that send a frame.
LEMMA SendBlame ==
  ASSUME MuxInv, BlameInv, NEW s \in Sids, SendOpen(s) \/ ReplyOk(s) \/ ReplyRefused(s)
  PROVE  BlameInv'
  <1>0. Shapes
    BY DEF MuxInv
  <1>1. alive' = alive /\ broken' = broken /\ reg' = reg
    BY DEF SendOpen, ReplyOk, ReplyRefused
  <1>2. Aside(s)
    <2>1. Only(Client, s) \/ Only(Server, s)
      BY DEF Only, SendOpen, ReplyOk, ReplyRefused, pumpVars
    <2> QED BY <1>0, <2>1, AsideStep, Ends
  <1>3. ASSUME NEW k \in {"open", "ok", "refused"}
        PROVE  Frame(k, s) \in Frames /\ Frame(k, s).sid = s /\ Frame(k, s).kind = k
    BY DEF Frame, Frames
  <1>4. CASE SendOpen(s)
    <2>1. Gains(Client, s, "open")
      BY <1>0, <1>3, <1>4, GainsOne, Ends DEF SendOpen
    <2>2. ASSUME s \notin broken PROVE Sound(s)'
      <3>0. Sound(s) /\ Opened(s)
        BY <2>2 DEF BlameInv, MuxInv
      <3>1. /\ st[Client][s] = "send" /\ st'[Client][s] = "reply" /\ st'[Server][s] = st[Server][s]
            /\ up' = up /\ down' = down
        BY <1>0, <1>4, Ends DEF Shapes, SendOpen, pumpVars
      <3>2. st[Server][s] = "new"
        BY <3>0, <3>1 DEF Opened, OpenOK
      <3>3. /\ Silent(Client, s, "close") /\ Silent(Server, s, "close")
            /\ Silent(Server, s, "ok") /\ Silent(Server, s, "refused")
        BY <2>1, Ends DEF Gains, Kinds
      <3> QED BY <1>1, <3>0, <3>1, <3>2, <3>3 DEF Sound, SoundOK, Away, Declined, Silent
    <2> QED BY <1>1, <1>2, <2>1, <2>2, StepBlame, Ends
  <1>5. CASE ReplyOk(s)
    <2>1. Gains(Server, s, "ok")
      BY <1>0, <1>3, <1>5, GainsOne, Ends DEF ReplyOk
    <2>2. ASSUME s \notin broken PROVE Sound(s)'
      <3>0. Sound(s) /\ Opened(s)
        BY <2>2 DEF BlameInv, MuxInv
      <3>1. /\ st[Server][s] = "ok" /\ st'[Server][s] = "open" /\ st'[Client][s] = st[Client][s]
            /\ up'[Server][s] = "run" /\ down'[Server][s] = "run"
            /\ up'[Client][s] = up[Client][s] /\ down'[Client][s] = down[Client][s]
        BY <1>0, <1>5, Ends DEF Shapes, ReplyOk
      <3>2. up[Client][s] = "off" /\ st[Client][s] # "open"
        BY <3>0, <3>1 DEF Opened, OpenOK, Early
      <3>3. /\ Silent(Client, s, "close") /\ Silent(Server, s, "close")
            /\ Silent(Client, s, "open") /\ Silent(Server, s, "refused")
        BY <2>1, Ends DEF Gains, Kinds
      <3> QED BY <1>1, <3>0, <3>1, <3>2, <3>3 DEF Sound, SoundOK, Away, Declined, Silent
    <2> QED BY <1>1, <1>2, <2>1, <2>2, StepBlame, Ends
  <1>6. CASE ReplyRefused(s)
    <2>1. Gains(Server, s, "refused")
      BY <1>0, <1>3, <1>6, GainsOne, Ends DEF ReplyRefused
    <2>2. ASSUME s \notin broken PROVE Sound(s)'
      <3>0. Sound(s) /\ Opened(s)
        BY <2>2 DEF BlameInv, MuxInv
      <3>1. /\ st[Server][s] = "fail" /\ st'[Server][s] = "cleanup" /\ st'[Client][s] = st[Client][s]
            /\ up' = up /\ down' = down
        BY <1>0, <1>6, Ends DEF Shapes, ReplyRefused, pumpVars
      <3>2. /\ up[Client][s] = "off" /\ up[Server][s] = "off" /\ st[Client][s] # "open"
            /\ Lacks(q[Server], s, "ok")
        BY <3>0, <3>1, NoReplies DEF Opened, OpenOK, Early
      <3>3. /\ Silent(Client, s, "close") /\ Silent(Server, s, "close")
            /\ Silent(Client, s, "open") /\ Silent(Server, s, "ok")
        BY <2>1, Ends DEF Gains, Kinds
      <3> QED BY <1>1, <3>0, <3>1, <3>2, <3>3 DEF Sound, SoundOK, Away, Declined, Silent
    <2> QED BY <1>1, <1>2, <2>1, <2>2, StepBlame, Ends
  <1> QED BY <1>4, <1>5, <1>6

\* The pumps: data and EOF go out, data and events come in.
LEMMA PumpBlame ==
  ASSUME MuxInv, BlameInv, NEW x \in Sides, NEW s \in Sids,
         UpData(x, s) \/ UpEof(x, s) \/ DownData(x, s) \/ DownEof(x, s)
  PROVE  BlameInv'
  <1>0. Shapes
    BY DEF MuxInv
  <1>1. alive' = alive /\ broken' = broken /\ reg' = reg /\ st' = st
    BY DEF UpData, UpEof, DownData, DownEof
  <1>2. Gains(x, s, "data") \/ Gains(x, s, "eof")
    <2>1. CASE UpData(x, s)
      <3> DEFINE f == Data(s, sent[x][s] + 1)
      <3>1. f \in Frames /\ f.sid = s /\ f.kind = "data"
        BY <1>0 DEF Shapes, Data, Frames
      <3>2. q' = Put(x, f)
        BY <2>1 DEF UpData
      <3> HIDE DEF f
      <3> QED BY <1>0, <3>1, <3>2, GainsOne
    <2>2. CASE ~UpData(x, s)
      <3> DEFINE f == Frame("eof", s)
      <3>1. f \in Frames /\ f.sid = s /\ f.kind = "eof"
        BY DEF Frame, Frames
      <3>2. q' = q \/ q' = Put(x, f)
        BY <2>2 DEF UpEof, DownData, DownEof
      <3> HIDE DEF f
      <3> QED BY <1>0, <3>1, <3>2, GainsOne
    <2> QED BY <2>1, <2>2
  <1>3. /\ \A z \in Sides \ {x} : Same(z, s)
        /\ up'[x][s] = up[x][s] \/ (up[x][s] = "run" /\ up'[x][s] = "eof")
        /\ down'[x][s] = down[x][s] \/ (down[x][s] = "run" /\ down'[x][s] = "eof")
        /\ Aside(s)
    <2>1. Only(x, s)
      BY DEF Only, UpData, UpEof, DownData, DownEof, DownEnds
    <2>2. /\ up' = up \/ (up[x][s] = "run" /\ up' = [up EXCEPT ![x][s] = "eof"])
          /\ down' = down \/ (down[x][s] = "run" /\ down' = [down EXCEPT ![x][s] = "eof"])
      BY DEF UpData, UpEof, DownData, DownEof, DownEnds
    <2>3. /\ up'[x][s] = up[x][s] \/ (up[x][s] = "run" /\ up'[x][s] = "eof")
          /\ down'[x][s] = down[x][s] \/ (down[x][s] = "run" /\ down'[x][s] = "eof")
      BY <1>0, <2>2 DEF Shapes
    <2> QED BY <1>0, <2>1, <2>3, AsideStep
  <1>5. ASSUME s \notin broken PROVE Sound(s)'
    <2>0. Sound(s) /\ Opened(s)
      BY <1>5 DEF BlameInv, MuxInv
    <2>1. \A z \in Sides, k \in {"open", "ok", "refused", "close"} : Silent(z, s, k)
      BY <1>2 DEF Gains, Kinds
    <2>2. /\ Silent(Client, s, "close") /\ Silent(Server, s, "close")
          /\ Silent(Client, s, "open") /\ Silent(Server, s, "ok") /\ Silent(Server, s, "refused")
      BY <2>1, Ends
    <2>3. ASSUME NEW z \in Sides
          PROVE  /\ up'[z][s] = up[z][s] \/ (up[z][s] = "run" /\ up'[z][s] = "eof")
                 /\ down'[z][s] = down[z][s] \/ (down[z][s] = "run" /\ down'[z][s] = "eof")
      BY <1>3 DEF Same
    <2>4. /\ up'[Client][s] = up[Client][s] \/ (up[Client][s] = "run" /\ up'[Client][s] = "eof")
          /\ down'[Client][s] = down[Client][s] \/ (down[Client][s] = "run" /\ down'[Client][s] = "eof")
          /\ up'[Server][s] = up[Server][s] \/ (up[Server][s] = "run" /\ up'[Server][s] = "eof")
          /\ down'[Server][s] = down[Server][s] \/ (down[Server][s] = "run" /\ down'[Server][s] = "eof")
      BY <2>3, Ends
    <2> QED BY <1>1, <2>0, <2>2, <2>4 DEF Sound, SoundOK, Away, Declined, Silent
  <1> QED BY <1>1, <1>2, <1>3, <1>5, StepBlame

\* An OPEN is accepted or turned away.
LEMMA OpenBlame ==
  ASSUME MuxInv, BlameInv, NEW s \in Sids, HandleOpen(s) \/ RejectOpen(s)
  PROVE  BlameInv'
  <1>0. Shapes /\ Opened(s)
    BY DEF MuxInv
  <1>1. /\ alive' = alive /\ broken' = broken /\ up' = up /\ down' = down
        /\ Receives(Server, {"open"}, s)
    BY DEF HandleOpen, RejectOpen, pumpVars
  <1>2. Gains(Server, s, "close")
    BY <1>0, <1>1, GainsClose, Ends DEF HandleOpen, RejectOpen, Receives
  <1>3. Aside(s)
    <2>1. Only(Server, s)
      BY DEF Only, HandleOpen, RejectOpen, pumpVars
    <2> QED BY <1>0, <2>1, AsideStep, Ends
  <1>4. ~Lacks(q[Client], s, "open") /\ Lacks(q'[Client], s, "open")
    <2>1. /\ q[Client] \in Seq(Frames) /\ q[Client] # <<>>
          /\ Head(q[Client]).sid = s /\ Head(q[Client]).kind \in {"open"}
      BY <1>0, <1>1, Ends DEF Shapes, Receives
    <2>2. Once(q[Client], s, {"open"})
      BY <1>0 DEF Opened, OpenOK
    <2>3. Where(Tail(q[Client]), s, {"open"}) = {}
      BY <2>1, <2>2, OnceTail
    <2>4. 1 \in Where(q[Client], s, {"open"})
      BY <2>1, WhereTail DEF TailPlaces
    <2>5. q'[Client] = Tail(q[Client])
      BY <1>0, <1>1, QueuesTaken, Ends DEF HandleOpen, RejectOpen
    <2> QED BY <2>3, <2>4, <2>5 DEF Lacks
  <1>5. st[Server][s] = "new" /\ st[Client][s] \notin {"new", "send"}
    BY <1>0, <1>4, NoReplies DEF Opened, OpenOK
  <1>6. /\ Silent(Client, s, "close") /\ Silent(Server, s, "ok") /\ Silent(Server, s, "refused")
    BY <1>2, Ends DEF Gains, Kinds
  <1>7. ASSUME s \notin broken PROVE Sound(s)'
    <2>0. Sound(s)
      BY <1>7 DEF BlameInv
    <2>1. CASE HandleOpen(s)
      <3>1. /\ st'[Client][s] = st[Client][s] /\ st'[Server][s] = "connect"
            /\ reg'[Client] = reg[Client] /\ s \in reg'[Server] /\ q'[Server] = q[Server]
        BY <1>0, <2>1, Ends DEF Shapes, HandleOpen, Taken
      <3>2. up[Client][s] = "off"
        BY <1>0, <1>5 DEF Opened, OpenOK, Early
      <3> QED BY <1>1, <1>4, <1>5, <1>6, <2>0, <3>1, <3>2 DEF Sound, SoundOK, Away, Declined, Silent
    <2>2. CASE RejectOpen(s)
      <3>1. st' = st /\ reg' = reg
        BY <2>2 DEF RejectOpen
      <3> QED BY <1>1, <1>4, <1>5, <1>6, <2>0, <3>1 DEF Sound, SoundOK, Away, Declined, Silent
    <2> QED BY <2>1, <2>2
  <1> QED BY <1>1, <1>2, <1>3, <1>7, StepBlame, Ends

\* A REPLY wakes its opener.
LEMMA ReplyBlame == ASSUME MuxInv, BlameInv, NEW s \in Sids, HandleReply(s) PROVE BlameInv'
  <1>0. Shapes /\ Opened(s) /\ RegistryHeld
    BY DEF MuxInv
  <1>1. /\ alive' = alive /\ broken' = broken /\ up' = up /\ down' = down
        /\ Receives(Client, {"ok", "refused"}, s) /\ q' = Taken(Client)
    BY DEF HandleReply
  <1>2. Gains(Client, s, "close") /\ \A z \in Sides, j \in Kinds : Silent(z, s, j)
    <2>1. Gains(Client, s, "close")
      BY <1>0, <1>1, GainsClose, Ends DEF Receives
    <2>2. Gains(Client, s, "open")
      <3>1. Frame("open", s) \in Frames /\ Frame("open", s).sid = s /\ Frame("open", s).kind = "open"
        BY DEF Frame, Frames
      <3> QED BY <1>0, <1>1, <3>1, GainsOne, Ends DEF Receives
    <2> QED BY <2>1, <2>2 DEF Gains
  <1>3. /\ Silent(Client, s, "open") /\ Silent(Client, s, "close")
        /\ Silent(Server, s, "ok") /\ Silent(Server, s, "refused") /\ Silent(Server, s, "close")
    BY <1>2, Ends DEF Kinds
  <1>4. /\ Head(q[Server]).kind \in {"ok", "refused"}
        /\ ~Lacks(q[Server], s, Head(q[Server]).kind)
        /\ Where(q[Server], s, Replies) # {}
    <2>1. /\ q[Server] \in Seq(Frames) /\ q[Server] # <<>>
          /\ Head(q[Server]).sid = s /\ Head(q[Server]).kind \in {"ok", "refused"}
      BY <1>0, <1>1, Ends DEF Shapes, Receives
    <2>2. 1 \in Where(q[Server], s, {Head(q[Server]).kind}) /\ 1 \in Where(q[Server], s, Replies)
      BY <2>1, WhereTail DEF TailPlaces, Replies
    <2> QED BY <2>1, <2>2 DEF Lacks
  <1>5. \/ s \notin pend /\ UNCHANGED <<st, pend, reg, ev>>
        \/ /\ s \in pend /\ Head(q[Server]).kind = "ok"
           /\ st' = [st EXCEPT ![Client][s] = "open"]
           /\ UNCHANGED <<reg, ev>>
        \/ s \in pend /\ Head(q[Server]).kind = "refused" /\ Unregister(s)
    BY <1>4 DEF HandleReply
  <1>6. Aside(s) /\ Same(Server, s)
    <2>1. Only(Client, s)
      BY <1>1, <1>5 DEF Only, Unregister
    <2> QED BY <1>0, <2>1, AsideStep, Ends
  <1>7. st[Server][s] \notin Early
    BY <1>0, <1>4 DEF Opened, OpenOK
  <1>8. ASSUME s \notin broken PROVE Sound(s)'
    <2>0. Sound(s)
      BY <1>8 DEF BlameInv
    <2>1. CASE s \notin pend
      <3>1. Same(Client, s)
        BY <1>1, <1>5, <2>1 DEF Same
      <3> QED BY <1>0, <1>1, <1>2, <1>6, <2>0, <3>1, SoundKept
    <2>2. CASE s \in pend /\ Head(q[Server]).kind = "ok"
      <3>1. st'[Client][s] = "open" /\ reg' = reg /\ st[Client][s] \in {"send", "reply"}
        BY <1>0, <1>5, <2>2, Ends DEF Shapes, RegistryHeld
      <3>2. ~Declined(q[Server], s, st[Client][s], st[Server][s], up[Client][s], up[Server][s])
        BY <1>4, <2>2 DEF Declined
      <3>3. ~Away(q[Client], s, st[Client][s], st[Server][s])
        BY <1>7 DEF Away, Early
      <3> QED BY <1>1, <1>6, <1>3, <2>0, <3>1, <3>2, <3>3 DEF Sound, SoundOK, Away, Silent, Same
    <2>3. CASE s \in pend /\ Head(q[Server]).kind = "refused"
      <3>1. st'[Client][s] = "ended" /\ Unregister(s)
        BY <1>0, <1>5, <2>3, Ends DEF Unregister, Shapes
      <3>2. Declined(q[Server], s, st[Client][s], st[Server][s], up[Client][s], up[Server][s])
        BY <1>4, <2>0, <2>3 DEF Sound, SoundOK
      <3>3. ~Away(q[Client], s, st[Client][s], st[Server][s])
        BY <1>7 DEF Away, Early
      <3> QED BY <1>1, <1>6, <1>3, <2>0, <3>1, <3>2, <3>3 DEF Sound, SoundOK, Declined, Away, Silent, Same
    <2> QED BY <1>4, <2>1, <2>2, <2>3
  <1> QED BY <1>1, <1>2, <1>6, <1>8, StepBlame, Ends

\* A CLOSE arrives, a frame becomes an event, or is bounced.
LEMMA RouteBlame ==
  ASSUME MuxInv, BlameInv, NEW x \in Sides, NEW s \in Sids,
         HandleClose(x, s) \/ Route(x, s) \/ RouteGone(x, s)
  PROVE  BlameInv'
  <1>0. Shapes /\ Opened(s) /\ Flow(Peer(x), s) /\ Peer(x) \in Sides /\ Peer(Peer(x)) = x
    BY Ends DEF MuxInv
  <1>1. /\ alive' = alive /\ broken' = broken /\ st' = st /\ up' = up /\ down' = down
        /\ q[Peer(x)] # <<>> /\ Head(q[Peer(x)]).sid = s
        /\ q' = Taken(x) \/ (RouteGone(x, s) /\ TryClose(Taken(x), x, s))
    BY DEF HandleClose, Route, RouteGone, Receives, pumpVars
  <1>2. Gains(x, s, "close")
    BY <1>0, <1>1, GainsClose
  <1>3. Aside(s) /\ Same(Peer(x), s)
    <2>1. Only(x, s)
      BY <1>1 DEF Only, HandleClose, Route, RouteGone
    <2> QED BY <1>0, <2>1, AsideStep, Ends
  <1>4. \A K : Head(q[Peer(x)]).kind \in K => Where(q[Peer(x)], s, K) # {}
    <2>1. q[Peer(x)] \in Seq(Frames)
      BY <1>0 DEF Shapes
    <2> QED BY <1>1, <2>1, WhereTail DEF TailPlaces
  <1>5. ASSUME s \notin broken PROVE Sound(s)'
    <2>0. Sound(s)
      BY <1>5 DEF BlameInv
    <2>1. CASE RouteGone(x, s)
      <3>1. Where(q[Peer(x)], s, Flowing) # {} /\ (s \in reg[x] => ~Receiver(x, s))
        BY <1>4, <2>1 DEF RouteGone, Receives, Flowing
      <3>2. up[Peer(x)][s] # "off" /\ down[x][s] # "eof"
        BY <1>0, <3>1 DEF Flow, FlowOK
      <3>3. st[x][s] \notin {"new", "ended"} /\ s \in reg[x]
        <4>1. CASE x = Client
          BY <1>0, <2>0, <3>2, <4>1, Ends DEF Sound, SoundOK, Opened, OpenOK, Away, Declined, Early
        <4>2. CASE x = Server
          BY <1>0, <2>0, <3>2, <4>2, Ends DEF Sound, SoundOK, Opened, OpenOK, Away, Declined, Early
        <4> QED BY <4>1, <4>2, Ends
      <3>4. down[x][s] \in {"off", "run"}
        <4>1. down[x][s] \in PumpStates /\ down[x][s] # "closed"
          <5>1. down[x][s] # "closed"
            BY <2>0, Ends DEF Sound, SoundOK
          <5> QED BY <1>0, <5>1 DEF Shapes
        <4> QED BY <3>2, <4>1 DEF PumpStates
      <3> QED BY <3>1, <3>3, <3>4 DEF Receiver
    <2>2. CASE ~RouteGone(x, s)
      <3>1. \A z \in Sides, j \in Kinds : Silent(z, s, j)
        <4>1. Gains(x, s, "open")
          <5>1. Frame("open", s) \in Frames /\ Frame("open", s).sid = s /\ Frame("open", s).kind = "open"
            BY DEF Frame, Frames
          <5> QED BY <1>0, <1>1, <2>2, <5>1, GainsOne
        <4> QED BY <1>2, <4>1 DEF Gains
      <3>2. CASE Same(x, s)
        <4>1. Same(Client, s) /\ Same(Server, s)
          BY <1>3, <3>2, Ends
        <4> QED BY <1>0, <1>1, <2>0, <3>1, <4>1, SoundKept
      <3>3. CASE ~Same(x, s)
        <4>1. HandleClose(x, s)
          BY <1>1, <2>2, <3>3 DEF Route, Same
        <4>2. ~Lacks(q[Peer(x)], s, "close")
          BY <1>4, <4>1 DEF HandleClose, Receives, Lacks
        <4>3. Away(q[Client], s, st[Client][s], st[Server][s])
          BY <2>0, <4>2, Ends DEF Sound, SoundOK
        <4>4. /\ Silent(Client, s, "open") /\ Silent(Client, s, "close")
              /\ Silent(Server, s, "ok") /\ Silent(Server, s, "refused") /\ Silent(Server, s, "close")
          BY <3>1, Ends DEF Kinds
        <4> QED BY <1>1, <2>0, <4>3, <4>4 DEF Sound, SoundOK, Away, Declined, Silent
      <3> QED BY <3>2, <3>3
    <2> QED BY <2>1, <2>2
  <1> QED BY <1>1, <1>2, <1>3, <1>5, StepBlame

\* A stream ends at the client.
LEMMA EndBlame == ASSUME MuxInv, BlameInv, NEW s \in Sids, EndClient(s) PROVE BlameInv'
  <1>0. Shapes /\ Opened(s)
    BY DEF MuxInv
  <1>1. alive' = alive /\ broken' = broken /\ up' = up /\ down' = down
    BY DEF EndClient
  <1>2. Gains(Client, s, "close")
    BY <1>0, GainsClose, Ends DEF EndClient
  <1>3. Aside(s) /\ Same(Server, s)
    <2>1. Only(Client, s)
      BY DEF Only, EndClient, Unregister
    <2> QED BY <1>0, <2>1, AsideStep, Ends
  <1>4. ASSUME s \notin broken PROVE Sound(s)'
    <2>0. Sound(s)
      BY <1>4 DEF BlameInv
    <2>1. up[Client][s] = "eof" /\ down[Client][s] = "eof" /\ st[Client][s] = "open"
      BY <2>0 DEF Sound, SoundOK, EndClient, Pumped
    <2>2. q' = q /\ st'[Client][s] = "ended"
      BY <1>0, <2>1, Ends DEF EndClient, Graceful, Unregister, Shapes
    <2>3. st[Server][s] # "new"
      BY <1>0, <2>1 DEF Opened, OpenOK, Early
    <2> QED BY <1>1, <1>3, <2>0, <2>1, <2>2, <2>3 DEF Sound, SoundOK, Away, Declined, Same
  <1> QED BY <1>1, <1>2, <1>3, <1>4, StepBlame, Ends

\* No step of a pump cut short concerns a stream that no fault has hit.
LEMMA CutBlamed ==
  ASSUME MuxInv, BlameInv, NEW x \in Sides, NEW s \in Sids,
         \/ x = Client /\ OpenDead(s)
         \/ UpDead(x, s) \/ DownNone(x, s) \/ AbortDown(x, s) \/ AbortUp(x, s)
  PROVE  s \in broken
  <1> SUFFICES ASSUME Sound(s) PROVE FALSE
    BY DEF BlameInv
  <1>0. Shapes /\ Opened(s)
    BY DEF MuxInv
  <1>1. alive[x] /\ up[x][s] # "closed" /\ down[x][s] # "closed"
    BY Ends DEF Sound, SoundOK
  <1>2. DownNone(x, s)
    BY <1>1 DEF OpenDead, UpDead, AbortDown, AbortUp
  <1>3. down[x][s] = "run" /\ s \notin reg[x]
    BY <1>2 DEF DownNone
  <1>4. CASE x = Client
    <2>1. up[Client][s] # "off" /\ st[Client][s] \in {"open", "ended"} /\ st[Server][s] # "new"
      BY <1>0, <1>3, <1>4 DEF Opened, OpenOK, Early
    <2> QED BY <1>3, <1>4, <2>1 DEF Sound, SoundOK, Away, Declined
  <1>5. CASE x = Server
    <2>1. up[Server][s] # "off" /\ st[Server][s] # "new"
      BY <1>0, <1>3, <1>5 DEF Opened, OpenOK, Early
    <2> QED BY <1>3, <1>5, <2>1 DEF Sound, SoundOK, Away, Declined
  <1> QED BY <1>4, <1>5, Ends

\* Those steps.
LEMMA CutBlame ==
  ASSUME MuxInv, BlameInv, NEW x \in Sides, NEW s \in Sids,
         \/ x = Client /\ OpenDead(s)
         \/ UpDead(x, s) \/ DownNone(x, s) \/ AbortDown(x, s) \/ AbortUp(x, s)
  PROVE  BlameInv'
  <1>0. Shapes
    BY DEF MuxInv
  <1>1. alive' = alive /\ broken' = broken /\ q' = q
    BY DEF OpenDead, UpDead, DownNone, AbortDown, AbortUp
  <1>2. Gains(x, s, "close")
    BY <1>0, <1>1, GainsClose
  <1>3. Aside(s)
    <2>1. Only(x, s)
      BY DEF Only, OpenDead, Unregister, UpDead, DownNone, AbortDown, AbortUp, DownEnds
    <2> QED BY <1>0, <2>1, AsideStep
  <1> QED BY <1>1, <1>2, <1>3, CutBlamed, StepBlame

\* Every step.
LEMMA NextBlame == MuxInv /\ BlameInv /\ [Next]_vars => BlameInv'
  <1> SUFFICES ASSUME MuxInv, BlameInv, [Next]_vars PROVE BlameInv'
    OBVIOUS
  <1>1. CASE UNCHANGED vars
    BY <1>1 DEF BlameInv, Sound, vars, pumpVars
  <1>2. ASSUME NEW s \in Sids, Register(s) \/ Opening(s) \/ Serving(s) \/ Owning(s) \/ AppGone(s)
        PROVE  BlameInv'
    <2>1. CASE Register(s) \/ Connect(s) \/ Cleanup(s) \/ StartPump(s) \/ EndServer(s)
      BY <2>1, LocalBlame
    <2>2. CASE SendOpen(s) \/ ReplyOk(s) \/ ReplyRefused(s)
      BY <2>2, SendBlame
    <2>3. CASE OpenDead(s)
      BY <2>3, CutBlame, Ends
    <2>4. CASE OpenTimeout(s) \/ AppGone(s)
      BY <2>4, FaultBlame, Ends
    <2>5. CASE EndClient(s)
      BY <2>5, EndBlame
    <2> QED BY <1>2, <2>1, <2>2, <2>3, <2>4, <2>5 DEF Opening, Serving, Owning
  <1>3. ASSUME NEW x \in Sides, NEW s \in Sids,
               \/ Demux(x, s)
               \/ Reads(x, s) \/ UpErr(x, s)
               \/ Writes(x, s) \/ DownErr(x, s)
               \/ Aborts(x, s)
        PROVE  BlameInv'
    <2>1. CASE HandleOpen(s) \/ RejectOpen(s)
      BY <2>1, OpenBlame
    <2>2. CASE HandleReply(s)
      BY <2>2, ReplyBlame
    <2>3. CASE HandleClose(x, s) \/ Route(x, s) \/ RouteGone(x, s)
      BY <2>3, RouteBlame
    <2>4. CASE RouteStall(x, s) \/ UpErr(x, s) \/ DownErr(x, s)
      BY <2>4, FaultBlame
    <2>5. CASE UpData(x, s) \/ UpEof(x, s) \/ DownData(x, s) \/ DownEof(x, s)
      BY <2>5, PumpBlame
    <2>6. CASE UpDead(x, s) \/ DownNone(x, s) \/ AbortDown(x, s) \/ AbortUp(x, s)
      BY <2>6, CutBlame
    <2> QED BY <1>3, <2>1, <2>2, <2>3, <2>4, <2>5, <2>6 DEF Demux, Reads, Writes, Aborts
  <1>4. ASSUME NEW x \in Sides, CarrierFails(x) \/ CarrierEnds(x) PROVE BlameInv'
    BY <1>4 DEF CarrierFails, CarrierEnds, Die, BlameInv
  <1> QED BY <1>1, <1>2, <1>3, <1>4 DEF Next

\* The initial states.
LEMMA InitBlame == Init => BlameInv
  <1> SUFFICES ASSUME Init, NEW s \in Sids PROVE BlameInv
    BY DEF Init, BlameInv
  <1>1. \A t, K : Where(<<>>, t, K) = {}
    BY DEF Where
  <1> QED BY <1>1, Ends DEF Init, BlameInv, Sound, SoundOK, Lacks

\* Every reachable state satisfies the whole inductive invariant: besides the
\* above, a stream that no fault has hit is never given up by either end.
THEOREM MuxBlame == Spec => [](MuxInv /\ BlameInv)
  <1>1. MuxInv /\ BlameInv /\ [Next]_vars => MuxInv' /\ BlameInv'
    BY NextInv, NextBlame
  <1> QED BY <1>1, InitInv, InitBlame, PTL DEF Spec

\* Every variable has its type, and no channel ever exceeds its bound.
THEOREM MuxTypeOK == Spec => []TypeOK
  <1>1. MuxInv /\ BlameInv => TypeOK
    BY DEF MuxInv, BlameInv, Shapes, TypeOK
  <1> QED BY <1>1, MuxBlame, PTL

\* Registry entries and waiters belong to streams that still live, and the
\* streams no fault has hit that the server serves are within its limit, for
\* each of them is counted by the registry until it ends.
THEOREM MuxRegistrySound == Spec => []RegistrySound
  <1>1. MuxInv /\ BlameInv => RegistrySound
    <2> SUFFICES ASSUME MuxInv, BlameInv PROVE RegistrySound
      OBVIOUS
    <2> DEFINE S == {s \in Sids : Served(s) /\ s \notin broken}
    <2>0. Shapes /\ RegistryHeld
      BY DEF MuxInv
    <2>1. S \subseteq reg[Server]
      BY DEF BlameInv, Sound, SoundOK, Served
    <2>2. IsFiniteSet(reg[Server])
      BY <2>0, MuxAssumption, FS_Subset, Ends DEF Shapes
    <2>3. Cardinality(S) \in Nat /\ Cardinality(reg[Server]) \in Nat /\ Cardinality(S) =< Cardinality(reg[Server])
      BY <2>1, <2>2, FS_Subset, FS_CardinalityType
    <2>4. Cardinality(S) =< Cap
      BY <2>0, <2>3, MuxAssumption DEF RegistryHeld
    <2> QED BY <2>0, <2>4 DEF RegistryHeld, RegistrySound
  <1> QED BY <1>1, MuxBlame, PTL

\* StreamEnd::Graceful: once EOF went both ways at the client, nothing but a
\* CLOSE of that stream is on its way to it.
THEOREM MuxGracefulIsFinal == Spec => []GracefulIsFinal
  <1>1. MuxInv => GracefulIsFinal
    <2> SUFFICES ASSUME MuxInv, NEW s \in Sids, Graceful(Client, s), NEW i \in 1..Len(q[Server]),
                        q[Server][i].sid = s
                 PROVE  q[Server][i].kind = "close"
      BY DEF GracefulIsFinal
    <2>1. Shapes /\ Opened(s) /\ Flow(Server, s)
      BY Ends DEF MuxInv
    <2>2. up[Client][s] = "eof" /\ down[Client][s] = "eof"
      BY DEF Graceful
    <2>3. Where(q[Server], s, Flowing) = {}
      BY <2>1, <2>2, Ends DEF Flow, FlowOK
    <2>4. Where(q[Server], s, Replies) = {} /\ Where(q[Server], s, {"open"}) = {}
      BY <2>1, <2>2 DEF Opened, OpenOK
    <2>5. q[Server][i] \in Frames
      BY <2>1, Ends DEF Shapes
    <2>6. q[Server][i].kind \in {"open", "ok", "refused", "eof", "close", "data"}
      BY <2>5 DEF Frames
    <2> QED BY <2>3, <2>4, <2>6 DEF Where, Flowing, Replies
  <1> QED BY <1>1, MuxInvariant, PTL

----------------------------------------------------------------------------
(* The pumps implement ByteStream *)

\* A step that moves no chunk, ends no direction and breaks no stream.
Quiet ==
  /\ sent' = sent /\ got' = got /\ broken' = broken
  /\ \A z \in Sides, t \in Sids : /\ (up'[z][t] = "eof") = (up[z][t] = "eof")
                                  /\ Shown(z, t)' = Shown(z, t)

\* Steps that touch no flow change nothing of ByteStream.
LEMMA QuietStutters == ASSUME Quiet PROVE UNCHANGED Streams!vars
  <1>1. \A f \in Flows : f[1] \in Sides /\ Peer(f[1]) \in Sides /\ f[2] \in Sids
    BY Ends DEF Flows
  <1>2. {f \in Flows : up'[f[1]][f[2]] = "eof"} = {f \in Flows : up[f[1]][f[2]] = "eof"}
    BY <1>1 DEF Quiet
  <1>3. {f \in Flows : Shown(Peer(f[1]), f[2])'} = {f \in Flows : Shown(Peer(f[1]), f[2])}
    BY <1>1 DEF Quiet
  <1> QED BY <1>2, <1>3 DEF Quiet, Streams!vars

\* A chunk sent is a Write.
LEMMA UpDataWrites ==
  ASSUME Shapes, NEW x \in Sides, NEW s \in Sids, UpData(x, s) PROVE Streams!Write(<<x, s>>)
  <1> DEFINE f == <<x, s>>
  <1>1. \A h \in Flows : h[1] \in Sides /\ h[2] \in Sids /\ h = <<h[1], h[2]>>
    BY DEF Flows
  <1>2. f \in Flows /\ f[1] = x /\ f[2] = s
    BY DEF Flows
  <1>3. f \notin {h \in Flows : up[h[1]][h[2]] = "eof"}
    BY <1>2 DEF UpData
  <1>4. [h \in Flows |-> sent'[h[1]][h[2]]]
          = [[h \in Flows |-> sent[h[1]][h[2]]] EXCEPT ![f] = @ + 1]
    <2>1. ASSUME NEW h \in Flows
          PROVE  sent'[h[1]][h[2]] = IF h = f THEN sent[x][s] + 1 ELSE sent[h[1]][h[2]]
      BY <1>1, <1>2 DEF UpData, Shapes
    <2> HIDE DEF f
    <2> QED BY <1>2, <2>1
  <1> QED BY <1>3, <1>4 DEF UpData, Shown, Streams!Write

\* EOF sent is a Finish.
LEMMA UpEofFinishes ==
  ASSUME Shapes, NEW x \in Sides, NEW s \in Sids, UpEof(x, s) PROVE Streams!Finish(<<x, s>>)
  <1> DEFINE f == <<x, s>>
  <1>1. \A h \in Flows : h[1] \in Sides /\ h[2] \in Sids /\ h = <<h[1], h[2]>>
    BY DEF Flows
  <1>2. f \in Flows /\ f[1] = x /\ f[2] = s
    BY DEF Flows
  <1>3. {h \in Flows : up'[h[1]][h[2]] = "eof"} = {h \in Flows : up[h[1]][h[2]] = "eof"} \cup {f}
    <2>1. ASSUME NEW h \in Flows
          PROVE  up'[h[1]][h[2]] = IF h = f THEN "eof" ELSE up[h[1]][h[2]]
      BY <1>1, <1>2 DEF UpEof, Shapes
    <2> HIDE DEF f
    <2> QED BY <1>2, <2>1
  <1> QED BY <1>3 DEF UpEof, Shown, Streams!Finish

\* A chunk written to the socket is a Read.
LEMMA DownDataReads ==
  ASSUME MuxInv, NEW x \in Sides, NEW s \in Sids, DownData(x, s) PROVE Streams!Read(<<Peer(x), s>>)
  <1> DEFINE y == Peer(x)
             f == <<y, s>>
             E == ev[x][s]
  <1>0. Shapes /\ Flow(y, s)
    BY Ends DEF MuxInv
  <1>1. \A h \in Flows : h[1] \in Sides /\ Peer(h[1]) \in Sides /\ Peer(Peer(h[1])) = h[1] /\ h[2] \in Sids /\ h = <<h[1], h[2]>>
    BY Ends DEF Flows
  <1>2. y \in Sides /\ Peer(y) = x /\ f \in Flows /\ f[1] = y /\ f[2] = s
    BY Ends DEF Flows
  <1>3. Head(E) = Len(got[x][s]) + 1 /\ Len(got[x][s]) < sent[y][s]
    <2>1. FlowOK(q[y], s, sent[y][s], up[y][s], alive[y], Len(got[x][s]), E, down[x][s], Routed(x, s))
      BY <1>0, <1>2 DEF Flow
    <2>2. q[y] \in Seq(Frames) /\ sent[y][s] \in Nat /\ Len(got[x][s]) \in Nat /\ E \in Seq(Nat)
      BY <1>0, <1>2, FlowTypes
    <2>3. E # <<>> /\ Head(E) # Eof
      BY DEF DownData
    <2> HIDE DEF y, E
    <2>4. Queued(E, sent[y][s], up[y][s], Len(got[x][s]))
      BY <2>1 DEF FlowOK
    <2>5. Head(E) = E[1] /\ 1 \in 1..Len(E)
      BY <2>2, <2>3, EmptySeq
    <2> QED BY <2>2, <2>3, <2>4, <2>5 DEF Queued
  <1>4. f \notin {h \in Flows : Shown(Peer(h[1]), h[2])}
    BY <1>2 DEF DownData, Shown
  <1>5. [h \in Flows |-> got'[Peer(h[1])][h[2]]]
          = [[h \in Flows |-> got[Peer(h[1])][h[2]]] EXCEPT ![f] = Append(@, Len(@) + 1)]
    <2>1. ASSUME NEW h \in Flows
          PROVE  got'[Peer(h[1])][h[2]]
                   = IF h = f THEN Append(got[x][s], Len(got[x][s]) + 1) ELSE got[Peer(h[1])][h[2]]
      <3>1. h = f <=> Peer(h[1]) = x /\ h[2] = s
        BY <1>1, <1>2
      <3>2. got' = [got EXCEPT ![x][s] = Append(got[x][s], Len(got[x][s]) + 1)]
        BY <1>3 DEF DownData
      <3> HIDE DEF f
      <3> QED BY <1>0, <1>1, <3>1, <3>2 DEF Shapes
    <2> HIDE DEF f
    <2> QED BY <1>2, <2>1
  <1>6. Len([h \in Flows |-> got[Peer(h[1])][h[2]]][f]) < [h \in Flows |-> sent[h[1]][h[2]]][f]
    BY <1>2, <1>3
  <1> QED BY <1>4, <1>5, <1>6 DEF DownData, Shown, Streams!Read

\* pump_down ends: its socket, and no other, is shown the end.
LEMMA DownEndShows ==
  ASSUME Shapes, NEW x \in Sides, NEW s \in Sids, NEW end \in {"eof", "closed"}, DownEnds(x, s, end)
  PROVE  {h \in Flows : Shown(Peer(h[1]), h[2])'}
           = {h \in Flows : Shown(Peer(h[1]), h[2])} \cup {<<Peer(x), s>>}
  <1> DEFINE f == <<Peer(x), s>>
  <1>1. \A h \in Flows : h[1] \in Sides /\ Peer(h[1]) \in Sides /\ Peer(Peer(h[1])) = h[1] /\ h[2] \in Sids /\ h = <<h[1], h[2]>>
    BY Ends DEF Flows
  <1>2. Peer(Peer(x)) = x /\ f \in Flows /\ f[1] = Peer(x) /\ f[2] = s
    BY Ends DEF Flows
  <1>3. ASSUME NEW h \in Flows
        PROVE  down'[Peer(h[1])][h[2]] = IF h = f THEN end ELSE down[Peer(h[1])][h[2]]
    <2>1. h = f <=> Peer(h[1]) = x /\ h[2] = s
      BY <1>1, <1>2
    <2>2. down' = [down EXCEPT ![x][s] = end]
      BY DEF DownEnds
    <2> HIDE DEF f
    <2> QED BY <1>1, <2>1, <2>2 DEF Shapes
  <1> HIDE DEF f
  <1>4. \A h \in Flows : Shown(Peer(h[1]), h[2])' <=> h = f \/ Shown(Peer(h[1]), h[2])
    BY <1>3 DEF Shown
  <1> QED BY <1>2, <1>4 DEF f

\* EOF forwarded to the socket is a ReadEnd.
LEMMA DownEofEnds ==
  ASSUME MuxInv, NEW x \in Sides, NEW s \in Sids, DownEof(x, s) PROVE Streams!ReadEnd(<<Peer(x), s>>)
  <1> DEFINE y == Peer(x)
             f == <<y, s>>
             E == ev[x][s]
  <1>0. Shapes /\ Flow(y, s)
    BY Ends DEF MuxInv
  <1>2. y \in Sides /\ Peer(y) = x /\ f \in Flows /\ f[1] = y /\ f[2] = s
    BY Ends DEF Flows
  <1>3. up[y][s] = "eof" /\ Len(got[x][s]) = sent[y][s]
    <2>1. FlowOK(q[y], s, sent[y][s], up[y][s], alive[y], Len(got[x][s]), E, down[x][s], Routed(x, s))
      BY <1>0, <1>2 DEF Flow
    <2>2. q[y] \in Seq(Frames) /\ sent[y][s] \in Nat /\ Len(got[x][s]) \in Nat /\ E \in Seq(Nat)
      BY <1>0, <1>2, FlowTypes
    <2>3. E # <<>> /\ Head(E) = Eof
      BY DEF DownEof
    <2> DEFINE Q == q[y]  N == sent[y][s]  U == up[y][s]  G == Len(got[x][s])
    <2>4. FlowOK(Q, s, N, U, alive[y], G, E, down[x][s], Routed(x, s)) /\ Q \in Seq(Frames) /\ N \in Nat /\ G \in Nat
      BY <2>1, <2>2
    <2> HIDE DEF y, E, Q, N, U, G
    <2>5. U = "eof" /\ G = N
      BY <2>2, <2>3, <2>4, FlowLast
    <2> QED BY <2>5 DEF Q, N, U, G
  <1>4. {h \in Flows : Shown(Peer(h[1]), h[2])'} = {h \in Flows : Shown(Peer(h[1]), h[2])} \cup {f}
    BY <1>0, DownEndShows DEF DownEof
  <1>5. f \in {h \in Flows : up[h[1]][h[2]] = "eof"}
    BY <1>2, <1>3
  <1>6. Len([h \in Flows |-> got[Peer(h[1])][h[2]]][f]) = [h \in Flows |-> sent[h[1]][h[2]]][f]
    BY <1>2, <1>3
  <1> QED BY <1>4, <1>5, <1>6 DEF DownEof, Streams!ReadEnd

\* A pump_down that is cut short shows its socket an end too: the stream was
\* broken before.
LEMMA DownCutEnds ==
  ASSUME MuxInv, BlameInv, NEW x \in Sides, NEW s \in Sids, DownNone(x, s) \/ AbortDown(x, s)
  PROVE  Streams!ReadEnd(<<Peer(x), s>>)
  <1> DEFINE f == <<Peer(x), s>>
  <1>0. Shapes
    BY DEF MuxInv
  <1>1. f \in Flows /\ f[2] = s
    BY Ends DEF Flows
  <1>2. f \in {h \in Flows : h[2] \in broken}
    BY <1>1, CutBlamed
  <1>3. {h \in Flows : Shown(Peer(h[1]), h[2])'} = {h \in Flows : Shown(Peer(h[1]), h[2])} \cup {f}
    BY <1>0, DownEndShows DEF DownNone, AbortDown
  <1> QED BY <1>2, <1>3 DEF DownNone, AbortDown, Streams!ReadEnd

\* A fault breaks both flows of its stream, or of all streams, and may show an
\* end to a socket of one.
LEMMA FaultBreaks ==
  ASSUME Shapes, sent' = sent, got' = got,
         {h \in Flows : up'[h[1]][h[2]] = "eof"} = {h \in Flows : up[h[1]][h[2]] = "eof"},
         NEW B \in SUBSET Sids, broken' = broken \cup B,
         NEW G \in SUBSET {h \in Flows : h[2] \in B},
         {h \in Flows : Shown(Peer(h[1]), h[2])'} = {h \in Flows : Shown(Peer(h[1]), h[2])} \cup G
  PROVE  Streams!Next
  <1> DEFINE F == {h \in Flows : h[2] \in B}
  <1>1. {h \in Flows : h[2] \in broken'} = {h \in Flows : h[2] \in broken} \cup F
    OBVIOUS
  <1>2. Streams!Break(F)
    BY <1>1 DEF Streams!Break
  <1> QED BY <1>2 DEF Streams!Next

\* The steps of a fault.
LEMMA FaultStreams ==
  ASSUME MuxInv, BlameInv, NEW x \in Sides, NEW s \in Sids,
         \/ OpenTimeout(s) \/ AppGone(s) \/ RouteStall(x, s)
         \/ UpErr(x, s) \/ DownErr(x, s)
         \/ Die(x)
  PROVE  Streams!Next
  <1>0. Shapes
    BY DEF MuxInv
  <1>1. \A f \in Flows : f[1] \in Sides /\ Peer(f[1]) \in Sides /\ f[2] \in Sids
    BY Ends DEF Flows
  <1>2. PICK B \in SUBSET Sids : broken' = broken \cup B /\ (~Die(x) => B = {s})
    <2>1. CASE Die(x)
      <3>1. broken' = broken \cup Sids
        BY <2>1 DEF Die, BlameInv
      <3> QED BY <2>1, <3>1
    <2>2. CASE ~Die(x)
      <3>1. broken' = broken \cup {s}
        BY <2>2 DEF OpenTimeout, AppGone, RouteStall, UpErr, DownErr
      <3> QED BY <3>1
    <2> QED BY <2>1, <2>2
  <1>3. sent' = sent /\ got' = got
    BY DEF OpenTimeout, AppGone, RouteStall, UpErr, DownErr, DownEnds, Die, pumpVars
  <1>4. {h \in Flows : up'[h[1]][h[2]] = "eof"} = {h \in Flows : up[h[1]][h[2]] = "eof"}
    <2>1. up' = up \/ (up[x][s] = "run" /\ up' = [up EXCEPT ![x][s] = "closed"])
      BY DEF OpenTimeout, AppGone, RouteStall, UpErr, DownErr, Die, pumpVars
    <2>2. \A z \in Sides, t \in Sids : (up'[z][t] = "eof") <=> (up[z][t] = "eof")
      <3>1. CASE up' = up
        BY <3>1
      <3>2. CASE up[x][s] = "run" /\ up' = [up EXCEPT ![x][s] = "closed"]
        <4>1. up'[x][s] = "closed"
          BY <1>0, <3>2 DEF Shapes
        <4>2. \A z \in Sides, t \in Sids : (z = x /\ t = s) \/ up'[z][t] = up[z][t]
          BY <1>0, <3>2, OneSet DEF Shapes
        <4> QED BY <3>2, <4>1, <4>2
      <3> QED BY <2>1, <3>1, <3>2
    <2> QED BY <1>1, <2>2
  <1>5. \E G \in SUBSET {h \in Flows : h[2] \in B} :
          {h \in Flows : Shown(Peer(h[1]), h[2])'} = {h \in Flows : Shown(Peer(h[1]), h[2])} \cup G
    <2>1. CASE DownErr(x, s)
      <3>1. {h \in Flows : Shown(Peer(h[1]), h[2])'}
              = {h \in Flows : Shown(Peer(h[1]), h[2])} \cup {<<Peer(x), s>>}
        BY <1>0, <2>1, DownEndShows DEF DownErr
      <3>2. <<Peer(x), s>> \in Flows /\ <<Peer(x), s>>[2] = s
        BY Ends DEF Flows
      <3>3. s \in B
        <4>1. CASE Die(x)
          <5>1. down' = down /\ down[x][s] = "run" /\ down' = [down EXCEPT ![x][s] = "closed"]
            BY <2>1, <4>1 DEF Die, DownErr, DownEnds, pumpVars
          <5> QED BY <1>0, <5>1 DEF Shapes
        <4> QED BY <1>2, <4>1
      <3>4. {<<Peer(x), s>>} \in SUBSET {h \in Flows : h[2] \in B}
        BY <3>2, <3>3
      <3> QED BY <3>1, <3>4
    <2>2. CASE ~DownErr(x, s)
      <3>1. down' = down
        BY <2>2 DEF OpenTimeout, AppGone, RouteStall, UpErr, Die, pumpVars
      <3>2. {h \in Flows : Shown(Peer(h[1]), h[2])'} = {h \in Flows : Shown(Peer(h[1]), h[2])} \cup {}
        BY <3>1 DEF Shown
      <3> WITNESS {} \in SUBSET {h \in Flows : h[2] \in B}
      <3> QED BY <3>2
    <2> QED BY <2>1, <2>2
  <1> QED BY <1>0, <1>2, <1>3, <1>4, <1>5, FaultBreaks

\* Every step is a ByteStream step or none.
LEMMA StepStreams ==
  ASSUME MuxInv, BlameInv, [Next]_vars PROVE [Streams!Next]_(Streams!vars)
  <1>0. Shapes
    BY DEF MuxInv
  <1>1. CASE UNCHANGED vars
    BY <1>1, QuietStutters DEF Quiet, Shown, vars, pumpVars
  <1>2. ASSUME NEW s \in Sids, Register(s) \/ Opening(s) \/ Serving(s) \/ Owning(s) \/ AppGone(s)
        PROVE  Streams!Next \/ UNCHANGED Streams!vars
    <2>1. CASE StartPump(s) \/ ReplyOk(s)
      <3>1. Quiet
        <4>1. Opened(s)
          BY DEF MuxInv
        <4>2. PICK z \in Sides : /\ up[z][s] = "off" /\ down[z][s] = "off"
                                 /\ up' = [up EXCEPT ![z][s] = "run"] /\ down' = [down EXCEPT ![z][s] = "run"]
          <5>1. CASE StartPump(s)
            BY <4>1, <5>1, Ends DEF Opened, OpenOK, StartPump
          <5>2. CASE ReplyOk(s)
            BY <4>1, <5>2, Ends DEF Opened, OpenOK, Early, ReplyOk
          <5> QED BY <2>1, <5>1, <5>2
        <4>3. sent' = sent /\ got' = got /\ broken' = broken
          BY <2>1 DEF StartPump, ReplyOk
        <4> QED BY <1>0, <4>2, <4>3 DEF Quiet, Shown, Shapes
      <3> QED BY <3>1, QuietStutters
    <2>2. CASE OpenTimeout(s) \/ AppGone(s)
      BY <2>2, FaultStreams, Ends
    <2>3. CASE ~(StartPump(s) \/ ReplyOk(s) \/ OpenTimeout(s) \/ AppGone(s))
      <3>1. UNCHANGED <<up, down, sent, got, broken>>
        BY <1>2, <2>3 DEF Register, Opening, Serving, Owning, SendOpen, OpenDead,
                          Connect, ReplyRefused, Cleanup, EndServer, EndClient, pumpVars
      <3> QED BY <3>1, QuietStutters DEF Quiet, Shown
    <2> QED BY <2>1, <2>2, <2>3
  <1>3. ASSUME NEW x \in Sides, NEW s \in Sids, UpDead(x, s) \/ AbortUp(x, s)
        PROVE  UNCHANGED Streams!vars
    <2>1. /\ up[x][s] = "run" /\ up' = [up EXCEPT ![x][s] = "closed"]
          /\ UNCHANGED <<down, sent, got, broken>>
      BY <1>3 DEF UpDead, AbortUp
    <2>2. Quiet
      BY <1>0, <2>1 DEF Quiet, Shown, Shapes
    <2> QED BY <2>2, QuietStutters
  <1>4. ASSUME NEW x \in Sides, NEW s \in Sids, Demux(x, s)
        PROVE  Streams!Next \/ UNCHANGED Streams!vars
    <2>1. CASE RouteStall(x, s)
      BY <2>1, FaultStreams
    <2>2. CASE ~RouteStall(x, s)
      <3>1. UNCHANGED <<up, down, sent, got, broken>>
        BY <1>4, <2>2 DEF Demux, HandleOpen, RejectOpen, HandleReply, HandleClose, Route, RouteGone, pumpVars
      <3> QED BY <3>1, QuietStutters DEF Quiet, Shown
    <2> QED BY <2>1, <2>2
  <1>5. ASSUME NEW x \in Sides, CarrierFails(x) \/ CarrierEnds(x)
        PROVE  Streams!Next \/ UNCHANGED Streams!vars
    <2>1. Die(x)
      BY <1>5 DEF CarrierFails, CarrierEnds
    <2>2. CASE Sids # {}
      BY <2>1, <2>2, FaultStreams
    <2>3. CASE Sids = {}
      <3>1. broken' = broken /\ UNCHANGED <<up, down, sent, got>>
        BY <2>1, <2>3 DEF Die, BlameInv, pumpVars
      <3> QED BY <3>1, QuietStutters DEF Quiet, Shown
    <2> QED BY <2>2, <2>3
  <1>6. ASSUME NEW x \in Sides, NEW s \in Sids,
               \/ UpData(x, s) \/ UpEof(x, s) \/ UpErr(x, s)
               \/ DownData(x, s) \/ DownEof(x, s) \/ DownNone(x, s) \/ DownErr(x, s) \/ AbortDown(x, s)
        PROVE  Streams!Next
    <2>1. <<x, s>> \in Flows /\ <<Peer(x), s>> \in Flows
      BY Ends DEF Flows
    <2>2. CASE UpData(x, s)
      BY <1>0, <2>1, <2>2, UpDataWrites DEF Streams!Next
    <2>3. CASE UpEof(x, s)
      BY <1>0, <2>1, <2>3, UpEofFinishes DEF Streams!Next
    <2>4. CASE DownData(x, s)
      BY <2>1, <2>4, DownDataReads DEF Streams!Next
    <2>5. CASE DownEof(x, s)
      BY <2>1, <2>5, DownEofEnds DEF Streams!Next
    <2>6. CASE DownNone(x, s) \/ AbortDown(x, s)
      BY <2>1, <2>6, DownCutEnds DEF Streams!Next
    <2>7. CASE UpErr(x, s) \/ DownErr(x, s)
      BY <2>7, FaultStreams
    <2> QED BY <1>6, <2>2, <2>3, <2>4, <2>5, <2>6, <2>7
  <1> QED BY <1>1, <1>2, <1>3, <1>4, <1>5, <1>6 DEF Next, Reads, Writes, Aborts

\* Whatever is reset, stalled, timed out or cut, a socket gets its peer's
\* chunks in order without a gap, and is shown an end of stream only after
\* pump_up at the other end has sent EOF and the last chunk was written, or
\* after a fault hit that stream or the tunnel.
THEOREM MuxImplementsStreams == Spec => ReliableStreams
  <1>1. Init => Streams!Init
    <2> SUFFICES ASSUME Init PROVE Streams!Init
      OBVIOUS
    <2>1. \A f \in Flows : f[1] \in Sides /\ Peer(f[1]) \in Sides /\ f[2] \in Sids
      BY Ends DEF Flows
    <2> QED BY <2>1 DEF Init, Shown, Streams!Init
  <1>2. MuxInv /\ BlameInv /\ [Next]_vars => [Streams!Next]_(Streams!vars)
    BY StepStreams
  <1> QED BY <1>1, <1>2, MuxBlame, PTL DEF Spec, ReliableStreams, Streams!Spec
=============================================================================
