----------------------------- MODULE BondProofs -----------------------------
(***************************************************************************)
(* Proofs about Bond for any bond.links and any bound on link sessions: a  *)
(* bonded tunnel never holds more than bond.links sessions at the server.  *)
(*                                                                         *)
(* LinksBounded is not inductive: a top-up round dials links on the word   *)
(* of a count taken earlier.  BondInv says what that count is still worth: *)
(* sessions plus links the round has yet to dial fit bond.links.  It needs *)
(* the second look to see every link that was added, which is what         *)
(* `timely` stands for.                                                    *)
(***************************************************************************)
EXTENDS Bond, FiniteSetTheorems, TLAPS

\* Links that the current round has yet to dial.
Due == IF maint \in {"topup", "dial"} THEN missing ELSE 0

BondInv ==
    /\ TypeOK
    /\ live < task
    /\ maint # "off" => dial = "done"
    \* Only top-ups use sessions past the first bond.links.
    /\ dial # "done" => \A l \in Links : l > BondLinks => link[l] = "none"
    \* Joined tasks left nothing behind, nor did dial.
    /\ dial = "collect" => \A l \in Links : l < task => link[l] \in {"none", "added", "visible"}
    /\ dial \in {"settle", "connect", "done"} => In({"dialed", "failed", "panicked"}) = {}
    /\ dial \in {"settle", "connect", "done"} /\ maint # "dial" => In({"dialing"}) = {}
    /\ maint = "dial" => missing >= 1 /\ \E l \in Links : In({"dialing"}) = {l}
    /\ timely /\ dial = "done" => Cardinality(Attached) + Due <= BondLinks

----------------------------------------------------------------------------
(* Counting links *)

\* Sets of links are finite.
LEMMA LinksFinite == \A S \in SUBSET Links : IsFiniteSet(S) /\ Cardinality(S) \in Nat
  <1>1. IsFiniteSet(Links)
    BY FS_Interval, BondAssumption DEF Links
  <1> QED BY <1>1, FS_Subset, FS_CardinalityType

\* A subset has no more members.
LEMMA FewerLinks ==
  ASSUME NEW T \in SUBSET Links, NEW S \in SUBSET T PROVE Cardinality(S) <= Cardinality(T)
  BY LinksFinite, FS_Subset

\* A link more is at most one member more.
LEMMA OneMore ==
  ASSUME NEW S \in SUBSET Links, NEW l \in Links PROVE Cardinality(S \cup {l}) <= Cardinality(S) + 1
  <1>1. IsFiniteSet(S) /\ Cardinality(S) \in Nat
    BY LinksFinite
  <1>2. Cardinality(S \cup {l}) = IF l \in S THEN Cardinality(S) ELSE Cardinality(S) + 1
    BY <1>1, FS_AddElement
  <1> QED BY <1>1, <1>2

\* The links of dial number bond.links.
LEMMA DialLinks ==
  ASSUME NEW S \in SUBSET Links, \A l \in S : l <= BondLinks PROVE Cardinality(S) <= BondLinks
  <1>1. 1 \in Int /\ BondLinks \in Int /\ BondLinks >= 1
    BY BondAssumption
  <1>2. IsFiniteSet(1..BondLinks) /\ Cardinality(1..BondLinks) = BondLinks
    BY <1>1, FS_Interval
  <1>3. S \subseteq 1..BondLinks
    BY BondAssumption DEF Links
  <1>4. Cardinality(S) <= Cardinality(1..BondLinks)
    BY <1>2, <1>3, FS_Subset
  <1> QED BY <1>2, <1>4

\* A link leaves the channel, or stays in it.
LEMMA AttachedShrinks ==
  ASSUME TypeOK, NEW l \in Links, NEW v, Become(l, v),
         v \in {"added", "visible"} => link[l] \in {"added", "visible"}
  PROVE  Cardinality(Attached') <= Cardinality(Attached) /\ Cardinality(Attached') \in Nat
  <1>1. Attached' \subseteq Attached /\ Attached \subseteq Links
    BY DEF Attached, In, Become, TypeOK
  <1> QED BY <1>1, FewerLinks, LinksFinite

\* No link changes.
LEMMA AttachedSame ==
  ASSUME link' = link PROVE Attached' = Attached /\ Cardinality(Attached) \in Nat
  <1>1. Attached' = Attached /\ Attached \subseteq Links
    BY DEF Attached, In
  <1> QED BY <1>1, LinksFinite

\* A link joins the channel.
LEMMA AttachedGrows ==
  ASSUME TypeOK, NEW l \in Links, Become(l, "added")
  PROVE  Cardinality(Attached') <= Cardinality(Attached) + 1 /\ Cardinality(Attached') \in Nat /\ Cardinality(Attached) \in Nat
  <1>1. Attached' = Attached \cup {l} /\ Attached \subseteq Links
    BY DEF Attached, In, Become, TypeOK
  <1> QED BY <1>1, OneMore, LinksFinite

\* What a round lacks is at most bond.links, and exact when all is visible.
LEMMA MissingRange ==
  /\ Missing \in 0..BondLinks
  /\ Visible = Attached /\ Cardinality(Attached) <= BondLinks => Cardinality(Attached) + Missing <= BondLinks
  <1>1. Visible \subseteq Links
    BY DEF Visible, In
  <1>2. Cardinality(Visible) \in Nat
    BY <1>1, LinksFinite
  <1> QED BY <1>2, BondAssumption DEF Missing, Minus

----------------------------------------------------------------------------
(* dial *)

\* dial starts its link tasks.
LEMMA StartDialInv == ASSUME BondInv, StartDial PROVE BondInv'
  <1>0. TypeOK /\ BondLinks \in Nat /\ BondLinks >= 1
    BY BondAssumption DEF BondInv
  <1>1. TypeOK'
    BY <1>0 DEF TypeOK, StartDial
  <1>2. live' < task' /\ dial' = "collect" /\ maint' = "off"
    BY DEF StartDial
  <1>3. \A l \in Links : l > BondLinks => link'[l] = "none"
    BY <1>0 DEF StartDial, Links
  <1>4. \A l \in Links : l < task' => link'[l] \in {"none", "added", "visible"}
    BY DEF StartDial, Links
  <1> QED BY <1>1, <1>2, <1>3, <1>4 DEF BondInv

\* A link task ends.
LEMMA LinkDialedInv == ASSUME BondInv, NEW l \in Links, LinkDialed(l) PROVE BondInv'
  <1>0. TypeOK
    BY DEF BondInv
  <1>1. PICK r \in {"dialed", "failed", "panicked"} : Become(l, r)
    BY DEF LinkDialed
  <1>2. TypeOK'
    BY <1>0, <1>1 DEF TypeOK, LinkDialed, Become
  <1>3. link[l] = "dialing" /\ \A k \in Links : link'[k] = IF k = l THEN r ELSE link[k]
    BY <1>0, <1>1 DEF TypeOK, Become, LinkDialed
  <1>4. dial \notin {"settle", "connect", "done"}
    BY <1>3 DEF BondInv, In, LinkDialed
  <1> QED BY <1>2, <1>3, <1>4 DEF BondInv, LinkDialed

\* dial awaits one task.
LEMMA CollectInv == ASSUME BondInv, Collect PROVE BondInv'
  <1>0. TypeOK /\ BondLinks \in Nat /\ MaxLinks \in Nat /\ MaxLinks >= BondLinks
    BY BondAssumption DEF BondInv
  <1>1. task \in Links /\ task \in Nat /\ task <= BondLinks /\ live \in Nat /\ live < task
    BY <1>0 DEF Collect, TypeOK, Links, BondInv
  <1>2. PICK v \in {"added", "none"} : Become(task, v)
    BY DEF Collect
  <1>3. \A k \in Links : link'[k] = IF k = task THEN v ELSE link[k]
    BY <1>0, <1>2 DEF TypeOK, Become
  <1>4. /\ task' = task + 1 /\ live' \in {live, live + 1} /\ dial = "collect" /\ dial' \in {"collect", "failed"}
        /\ agg' \in {agg, "ended"}
        /\ UNCHANGED <<timely, tunnel, maint, missing>>
    BY DEF Collect, Terminate, Fail
  <1>5. TypeOK'
    <2>1. task' \in 1..(BondLinks + 1) /\ live' \in 0..BondLinks
      BY <1>0, <1>1, <1>4
    <2>2. link' \in [Links -> {"none", "dialing", "dialed", "failed", "panicked", "added", "visible"}]
      BY <1>0, <1>1, <1>2 DEF TypeOK, Become
    <2> QED BY <1>0, <1>4, <2>1, <2>2 DEF TypeOK
  <1>6. live' < task'
    BY <1>1, <1>4
  <1>7. maint' = "off"
    BY <1>4 DEF BondInv, TypeOK
  <1>8. \A k \in Links : k > BondLinks => link'[k] = "none"
    BY <1>0, <1>1, <1>3, <1>4 DEF BondInv
  <1>9. \A k \in Links : k < task' => link'[k] \in {"none", "added", "visible"}
    BY <1>0, <1>1, <1>3, <1>4 DEF BondInv, Links
  <1> QED BY <1>4, <1>5, <1>6, <1>7, <1>8, <1>9 DEF BondInv

\* dial has awaited them all.
LEMMA CollectedInv == ASSUME BondInv, Collected PROVE BondInv'
  <1>0. TypeOK /\ BondLinks \in Nat
    BY BondAssumption DEF BondInv
  <1>1. TypeOK'
    BY <1>0 DEF TypeOK, Collected, Terminate, Fail
  <1>2. dial = "collect" /\ dial' \in {"failed", "settle"} /\ maint' = "off" /\ UNCHANGED <<timely, task, live, link, missing>>
    BY DEF Collected, Fail, BondInv, TypeOK
  <1>3. \A k \in Links : link[k] \in {"none", "added", "visible"}
    <2> SUFFICES ASSUME NEW k \in Links PROVE link[k] \in {"none", "added", "visible"}
      OBVIOUS
    <2>1. CASE k > BondLinks
      BY <1>2, <2>1 DEF BondInv
    <2>2. CASE k <= BondLinks
      <3>1. k < task
        BY <1>0, <2>2 DEF Collected, TypeOK, Links
      <3> QED BY <1>2, <3>1 DEF BondInv
    <2> QED BY <1>0, <2>1, <2>2 DEF Links
  <1>4. In({"dialed", "failed", "panicked"})' = {} /\ In({"dialing"})' = {}
    BY <1>2, <1>3 DEF In
  <1> QED BY <1>1, <1>2, <1>4 DEF BondInv

\* dial has waited for the aggregator to show the links.
LEMMA SettledInv == ASSUME BondInv, Settled PROVE BondInv'
  <1>1. TypeOK'
    BY DEF TypeOK, Settled, BondInv
  <1>2. dial = "settle" /\ dial' = "connect" /\ UNCHANGED <<timely, task, live, link, maint, missing>>
    BY DEF Settled
  <1> QED BY <1>1, <1>2 DEF BondInv, In

\* The tunnel is opened over the channel, or not.
LEMMA ConnectInv == ASSUME BondInv, ConnectOk \/ ConnectErr PROVE BondInv'
  <1>1. TypeOK'
    BY DEF TypeOK, ConnectOk, ConnectErr, Fail, Terminate, BondInv
  <1>2. /\ dial = "connect" /\ dial' \in {"done", "failed"} /\ maint = "off"
        /\ UNCHANGED <<timely, task, live, link, maint, missing>>
    BY DEF ConnectOk, ConnectErr, Fail, BondInv, TypeOK
  <1>3. Cardinality(Attached') <= BondLinks
    <2>1. \A l \in Attached' : l <= BondLinks
      BY <1>2, BondAssumption DEF BondInv, Attached, In, Links
    <2>2. Attached' \subseteq Links
      BY DEF Attached, In
    <2> QED BY <2>1, <2>2, DialLinks
  <1>4. Due' = 0 /\ Cardinality(Attached') \in Nat
    <2>1. Attached' \subseteq Links
      BY DEF Attached, In
    <2> QED BY <1>2, <2>1, LinksFinite DEF Due
  <1> QED BY <1>1, <1>2, <1>3, <1>4 DEF BondInv, In

\* An ended channel drops a link.
LEMMA DropOrphanInv == ASSUME BondInv, NEW l \in Links, DropOrphan(l) PROVE BondInv'
  <1>0. TypeOK
    BY DEF BondInv
  <1>1. TypeOK'
    BY <1>0 DEF TypeOK, DropOrphan, Become
  <1>2. \A k \in Links : link'[k] = IF k = l THEN "none" ELSE link[k]
    BY <1>0 DEF TypeOK, Become, DropOrphan
  <1> QED BY <1>1, <1>2 DEF BondInv, DropOrphan

----------------------------------------------------------------------------
(* maintain_tunnel *)

\* The maintainer starts a round.
LEMMA MaintainInv == ASSUME BondInv, Maintain PROVE BondInv'
  <1>1. TypeOK'
    BY DEF TypeOK, Maintain, BondInv
  <1>2. /\ maint = "off" /\ maint' = "grace" /\ dial = "done"
        /\ UNCHANGED <<timely, dial, task, live, link, missing>>
    BY DEF Maintain
  <1>3. Due' = 0 /\ Due = 0 /\ Attached' = Attached
    BY <1>2, AttachedSame DEF Due
  <1> QED BY <1>1, <1>2, <1>3 DEF BondInv, In

\* The grace period ends and the round counts what is missing.
LEMMA GraceInv == ASSUME BondInv, Grace PROVE BondInv'
  <1>0. TypeOK
    BY DEF BondInv
  <1>1. /\ maint = "grace" /\ dial = "done" /\ maint' \in {"off", "topup"}
        /\ missing' \in {Missing, 0} /\ (maint' = "off" => missing' = 0)
        /\ UNCHANGED <<timely, dial, task, live, link, agg, tunnel>>
    <2>1. missing' \in {Missing, 0} /\ missing' \in 0..BondLinks
      BY MissingRange, BondAssumption DEF Grace
    <2>2. maint' = "off" => missing' = 0
      BY <2>1, BondAssumption DEF Grace
    <2> QED BY <2>1, <2>2 DEF Grace, BondInv
  <1>2. TypeOK'
    <2>1. missing' \in 0..BondLinks
      BY <1>1, MissingRange, BondAssumption
    <2> QED BY <1>0, <1>1, <2>1 DEF TypeOK
  <1>3. ASSUME timely PROVE Cardinality(Attached') + Due' <= BondLinks
    <2>1. Attached' = Attached /\ Cardinality(Attached) \in Nat
      BY <1>1, AttachedSame
    <2>2. Cardinality(Attached) <= BondLinks
      <3>1. Due = 0
        BY <1>1 DEF Due
      <3> QED BY <1>1, <1>3, <2>1, <3>1 DEF BondInv
    <2>3. Visible = Attached
      BY <1>3 DEF Grace, Waited, Visible, Attached, In
    <2>4. Cardinality(Attached) + Missing <= BondLinks
      BY <2>2, <2>3, MissingRange
    <2>5. Due' = Missing \/ Due' = 0
      BY <1>1 DEF Due
    <2> QED BY <2>1, <2>2, <2>4, <2>5
  <1> QED BY <1>1, <1>2, <1>3 DEF BondInv, In

\* The round dials one link.
LEMMA TopUpDialInv == ASSUME BondInv, TopUpDial PROVE BondInv'
  <1>0. TypeOK
    BY DEF BondInv
  <1>1. PICK l \in Links : link[l] = "none" /\ Become(l, "dialing")
    BY DEF TopUpDial, In
  <1>2. /\ maint = "topup" /\ maint' = "dial" /\ missing > 0 /\ dial = "done"
        /\ UNCHANGED <<timely, dial, task, live, agg, tunnel, missing>>
    BY DEF TopUpDial, BondInv
  <1>3. \A k \in Links : link'[k] = IF k = l THEN "dialing" ELSE link[k]
    BY <1>0, <1>1 DEF TypeOK, Become
  <1>4. TypeOK'
    BY <1>0, <1>1, <1>2 DEF TypeOK, Become
  <1>5. In({"dialing"})' = {l} /\ In({"dialed", "failed", "panicked"})' = {}
    <2>1. In({"dialing"}) = {} /\ In({"dialed", "failed", "panicked"}) = {}
      BY <1>2 DEF BondInv
    <2> QED BY <1>3, <2>1 DEF In
  <1>6. missing' >= 1
    BY <1>0, <1>2 DEF TypeOK
  <1>7. timely => Cardinality(Attached') + Due' <= BondLinks
    <2>1. Attached' = Attached
      BY <1>1, <1>3 DEF Attached, In
    <2>2. Due' = Due
      BY <1>2 DEF Due
    <2> QED BY <1>2, <2>1, <2>2 DEF BondInv
  <1> QED BY <1>2, <1>4, <1>5, <1>6, <1>7 DEF BondInv

\* The dial of the round ends.
LEMMA TopUpAddedInv == ASSUME BondInv, NEW l \in Links, TopUpAdded(l) \/ TopUpErr(l) PROVE BondInv'
  <1>0. TypeOK
    BY DEF BondInv
  <1>1. /\ maint = "dial" /\ dial = "done" /\ link[l] = "dialing" /\ missing \in Nat /\ missing >= 1
        /\ UNCHANGED <<timely, dial, task, live, agg, tunnel>>
    BY <1>0 DEF TopUpAdded, TopUpErr, BondInv, TypeOK
  <1>2. PICK v \in {"added", "none"} : /\ Become(l, v)
                                       /\ v = "added" => /\ missing' = missing - 1
                                                         /\ maint' = IF missing > 1 THEN "topup" ELSE "off"
                                       /\ v = "none" => missing' = 0 /\ maint' = "off"
    BY DEF TopUpAdded, TopUpErr, Return
  <1>3. \A k \in Links : link'[k] = IF k = l THEN v ELSE link[k]
    BY <1>0, <1>2 DEF TypeOK, Become
  <1>4. TypeOK'
    <2>1. missing' \in 0..BondLinks /\ maint' \in {"off", "topup"}
      BY <1>0, <1>1, <1>2, BondAssumption DEF TypeOK
    <2>2. link' \in [Links -> {"none", "dialing", "dialed", "failed", "panicked", "added", "visible"}]
      BY <1>0, <1>2 DEF TypeOK, Become
    <2> QED BY <1>0, <1>1, <2>1, <2>2 DEF TypeOK
  <1>5. In({"dialing"})' = {} /\ In({"dialed", "failed", "panicked"})' = {}
    <2>1. In({"dialed", "failed", "panicked"}) = {} /\ \E k \in Links : In({"dialing"}) = {k}
      BY <1>1 DEF BondInv
    <2>2. In({"dialing"}) = {l}
      BY <1>1, <2>1 DEF In
    <2> QED BY <1>3, <2>1, <2>2 DEF In
  <1>6. ASSUME timely PROVE Cardinality(Attached') + Due' <= BondLinks
    <2>1. Cardinality(Attached) + missing <= BondLinks
      BY <1>1, <1>6 DEF BondInv, Due
    <2>2. CASE v = "added"
      <3>1. /\ Cardinality(Attached') <= Cardinality(Attached) + 1
            /\ Cardinality(Attached') \in Nat /\ Cardinality(Attached) \in Nat
        BY <1>0, <1>2, <2>2, AttachedGrows
      <3>2. Due' = missing - 1
        BY <1>1, <1>2, <2>2 DEF Due
      <3> QED BY <1>1, <2>1, <3>1, <3>2, BondAssumption
    <2>3. CASE v = "none"
      <3>1. Cardinality(Attached') <= Cardinality(Attached) /\ Cardinality(Attached') \in Nat
        BY <1>0, <1>2, <2>3, AttachedShrinks
      <3>2. Due' = 0
        BY <1>2, <2>3 DEF Due
      <3>3. Cardinality(Attached) \in Nat
        BY LinksFinite DEF Attached, In
      <3> QED BY <1>1, <2>1, <3>1, <3>2, <3>3, BondAssumption
    <2> QED BY <2>2, <2>3
  <1>7. maint' # "dial"
    BY <1>2
  <1> QED BY <1>1, <1>4, <1>5, <1>6, <1>7 DEF BondInv

----------------------------------------------------------------------------
(* The aggregator *)

\* A link becomes visible, or is lost.
LEMMA LinkChangeInv == ASSUME BondInv, NEW l \in Links, Appear(l) \/ LinkLost(l) PROVE BondInv'
  <1>0. TypeOK
    BY DEF BondInv
  <1>1. UNCHANGED <<timely, dial, task, live, agg, tunnel, maint, missing>> /\ link[l] \in {"added", "visible"}
    BY DEF Appear, LinkLost
  <1>2. PICK v \in {"visible", "none"} : Become(l, v)
    BY DEF Appear, LinkLost
  <1>3. \A k \in Links : link'[k] = IF k = l THEN v ELSE link[k]
    BY <1>0, <1>2 DEF TypeOK, Become
  <1>4. TypeOK'
    BY <1>0, <1>1, <1>2 DEF TypeOK, Become
  <1>5. /\ In({"dialing"})' = In({"dialing"})
        /\ In({"dialed", "failed", "panicked"})' = In({"dialed", "failed", "panicked"})
    BY <1>1, <1>3 DEF In
  <1>6. Cardinality(Attached') <= Cardinality(Attached) /\ Cardinality(Attached') \in Nat /\ Cardinality(Attached) \in Nat
    <2>1. Attached \subseteq Links
      BY DEF Attached, In
    <2> QED BY <1>0, <1>1, <1>2, <2>1, AttachedShrinks, LinksFinite
  <1>7. timely /\ dial = "done" => Cardinality(Attached') + Due' <= BondLinks
    <2>1. Due' = Due /\ Due \in Nat
      BY <1>0, <1>1 DEF Due, TypeOK
    <2> QED BY <1>6, <2>1, BondAssumption DEF BondInv
  <1>8. link[l] # "none"
    BY <1>1
  <1> QED BY <1>1, <1>3, <1>4, <1>5, <1>7, <1>8 DEF BondInv

\* The aggregator gives the channel up, or the tunnel dies.
LEMMA AggregatorInv == ASSUME BondInv, NoLinkTimeout \/ TunnelDies PROVE BondInv'
  <1>1. TypeOK'
    BY DEF TypeOK, NoLinkTimeout, TunnelDies, Terminate, BondInv
  <1>2. UNCHANGED <<timely, dial, task, live, link, maint, missing>>
    BY DEF NoLinkTimeout, TunnelDies
  <1>3. Attached' = Attached /\ Due' = Due
    BY <1>2, AttachedSame DEF Due
  <1> QED BY <1>1, <1>2, <1>3 DEF BondInv, In

----------------------------------------------------------------------------

\* The initial states.
LEMMA InitInv == Init => BondInv
  <1> SUFFICES ASSUME Init PROVE BondInv
    OBVIOUS
  <1>1. TypeOK
    BY BondAssumption DEF Init, TypeOK
  <1> QED BY <1>1 DEF Init, BondInv

\* Every step.
LEMMA NextInv == BondInv /\ [Next]_vars => BondInv'
  <1> SUFFICES ASSUME BondInv, [Next]_vars PROVE BondInv'
    OBVIOUS
  <1>1. CASE UNCHANGED vars
    BY <1>1 DEF BondInv, TypeOK, Due, Attached, In, vars
  <1>2. CASE Next
    BY <1>2, StartDialInv, LinkDialedInv, CollectInv, CollectedInv, SettledInv, ConnectInv, DropOrphanInv,
       MaintainInv, GraceInv, TopUpDialInv, TopUpAddedInv, LinkChangeInv, AggregatorInv DEF Next
  <1> QED BY <1>1, <1>2

\* The invariant bounds the sessions in use, during and after dial.
LEMMA WithinBound == ASSUME BondInv, timely PROVE Cardinality(Occupied) <= BondLinks
  <1>0. TypeOK /\ Occupied \subseteq Links /\ Attached \subseteq Links
    BY DEF BondInv, Occupied, Attached, In
  <1>1. CASE dial # "done"
    <2>1. \A l \in Occupied : l <= BondLinks
      BY <1>1, BondAssumption DEF BondInv, Occupied, In, Links
    <2> QED BY <1>0, <2>1, DialLinks
  <1>2. CASE dial = "done" /\ maint # "dial"
    <2>1. Occupied = Attached
      BY <1>2 DEF BondInv, Occupied, Attached, In
    <2>2. Due \in Nat /\ Cardinality(Attached) \in Nat
      BY <1>0, LinksFinite DEF Due, TypeOK
    <2> QED BY <1>2, <2>1, <2>2, BondAssumption DEF BondInv
  <1>3. CASE dial = "done" /\ maint = "dial"
    <2>1. PICK l \in Links : In({"dialing"}) = {l}
      BY <1>3 DEF BondInv
    <2>2. Occupied = Attached \cup {l}
      BY <1>3, <2>1 DEF BondInv, Occupied, Attached, In
    <2>3. Cardinality(Occupied) <= Cardinality(Attached) + 1
      BY <1>0, <2>2, OneMore
    <2>4. Due = missing /\ missing >= 1 /\ missing \in Nat
      BY <1>0, <1>3 DEF Due, BondInv, TypeOK
    <2>5. Cardinality(Occupied) \in Nat /\ Cardinality(Attached) \in Nat
      BY <1>0, LinksFinite
    <2>6. Cardinality(Attached) + Due <= BondLinks
      BY <1>3 DEF BondInv
    <2> QED BY <2>3, <2>4, <2>5, <2>6, BondAssumption
  <1> QED BY <1>1, <1>2, <1>3

\* Sessions in use and links a top-up round has yet to dial fit bond.links.
THEOREM BondInvariant == Spec => []BondInv
  BY InitInv, NextInv, PTL DEF Spec

\* With links visible in time, dial and maintain_tunnel together never hold
\* more than bond.links sessions at the server.
THEOREM BondLinksBounded == Spec => []LinksBounded
  <1>1. BondInv => LinksBounded
    BY WithinBound DEF LinksBounded, BondInv
  <1> QED BY <1>1, BondInvariant, PTL
=============================================================================
