-------------------------------- MODULE Bond --------------------------------
(***************************************************************************)
(* One bonded tunnel of client/bond.rs: BondDialer::dial builds an         *)
(* aggregated channel over `links` link sessions dialed in parallel, and   *)
(* maintain_tunnel, called by the pool's maintainer, tops lost links up.   *)
(*                                                                         *)
(* The aggregator (aggligator) is external.  Three of its habits matter:   *)
(* a link that was added shows up in Control::links only later; links are  *)
(* lost at any time; and a channel without links ends after                *)
(* no_link_timeout, while one that is abandoned without terminate keeps    *)
(* its links, and the server's slots behind them.                          *)
(***************************************************************************)
EXTENDS Integers, FiniteSets

CONSTANTS BondLinks, \* bond.links
          MaxLinks   \* bound on link sessions of one channel at a time

ASSUME BondAssumption ==
    /\ BondLinks \in Nat \ {0}
    /\ MaxLinks \in Nat /\ MaxLinks >= BondLinks

VARIABLES timely,  \* links become visible within the 250 ms the code waits
          dial,    \* control state of dial
          task,    \* the link task that dial awaits next
          live,    \* links added by dial so far
          link,    \* state of each link session
          agg,     \* the aggregator's channel: "open" or "ended"
          tunnel,  \* the mux tunnel over the channel: "none", "alive", "dead"
          maint,   \* control state of maintain_tunnel
          missing  \* links the current round still has to dial

vars == <<timely, dial, task, live, link, agg, tunnel, maint, missing>>

Links == 1..MaxLinks
In(S) == {l \in Links : link[l] \in S}
Visible == In({"visible"})
Attached == In({"added", "visible"})

\* Sessions that exist on the server, or are about to.
Occupied == In({"dialing", "dialed", "added", "visible"})

Become(l, s) == link' = [link EXCEPT ![l] = s]

\* saturating_sub
Minus(a, b) == IF a > b THEN a - b ELSE 0

Init ==
    /\ timely \in BOOLEAN
    /\ dial = "idle" /\ task = 1 /\ live = 0
    /\ link = [l \in Links |-> "none"]
    /\ agg = "ended" /\ tunnel = "none"
    /\ maint = "off" /\ missing = 0

----------------------------------------------------------------------------
(* dial *)

\* The pool dials a tunnel: a fresh channel, one task per link.
StartDial ==
    /\ dial \in {"idle", "failed"} \/ (dial = "done" /\ tunnel = "dead")
    /\ maint = "off"
    /\ In({"none"}) = Links
    /\ agg' = "open" /\ dial' = "collect" /\ task' = 1 /\ live' = 0
    /\ link' = [l \in Links |-> IF l <= BondLinks THEN "dialing" ELSE "none"]
    /\ tunnel' = "none"
    /\ UNCHANGED <<timely, maint, missing>>

\* dial_link in a task of dial: a session, an error (refused, unreachable,
\* conversion), or a panic that only the join sees.
LinkDialed(l) ==
    /\ link[l] = "dialing" /\ maint # "dial"
    /\ \E r \in {"dialed", "failed", "panicked"} : Become(l, r)
    /\ UNCHANGED <<timely, dial, task, live, agg, tunnel, maint, missing>>

\* terminate ends the channel; the aggregator then drops its links.
Terminate == agg' = "ended"

Fail == dial' = "failed"

\* The tasks are joined in order; a session is handed to the aggregator,
\* which refuses it when the channel has already ended.
Collect ==
    /\ dial = "collect" /\ task <= BondLinks
    /\ \/ /\ link[task] = "dialed"
          /\ IF agg = "open"
               THEN Become(task, "added") /\ live' = live + 1
               ELSE Become(task, "none") /\ UNCHANGED live
          /\ UNCHANGED <<dial, agg>>
       \/ /\ link[task] = "failed"
          /\ Become(task, "none")
          /\ UNCHANGED <<dial, live, agg>>
       \/ /\ link[task] = "panicked"
          /\ Become(task, "none")
          /\ Terminate /\ Fail
          /\ UNCHANGED live
    /\ task' = task + 1
    /\ UNCHANGED <<timely, tunnel, maint, missing>>

\* All tasks joined: with no link at all the dial fails.
Collected ==
    /\ dial = "collect" /\ task > BondLinks
    /\ IF live = 0 THEN Terminate /\ Fail ELSE dial' = "settle" /\ UNCHANGED agg
    /\ UNCHANGED <<timely, task, live, link, tunnel, maint, missing>>

\* Wait for the links to be visible, at most 250 ms.
Waited == timely => In({"added"}) = {}

Settled ==
    /\ dial = "settle"
    /\ Cardinality(Visible) >= live \/ Waited
    /\ dial' = "connect"
    /\ UNCHANGED <<timely, task, live, link, agg, tunnel, maint, missing>>

\* The channel is established over the links it has; the tunnel is spawned.
ConnectOk ==
    /\ dial = "connect" /\ agg = "open" /\ Attached # {}
    /\ dial' = "done" /\ tunnel' = "alive"
    /\ UNCHANGED <<timely, task, live, link, agg, maint, missing>>


\* connect failed or timed out.
ConnectErr ==
    /\ dial = "connect"
    /\ Fail /\ Terminate
    /\ UNCHANGED <<timely, task, live, link, tunnel, maint, missing>>

\* A session whose dial was given up is dropped with its task's result.
DropOrphan(l) ==
    /\ dial = "failed"
    /\ link[l] \in {"dialed", "failed", "panicked"}
    /\ Become(l, "none")
    /\ UNCHANGED <<timely, dial, task, live, agg, tunnel, maint, missing>>

----------------------------------------------------------------------------
(* maintain_tunnel *)

\* Mutant: links that dial did not get are never asked for again.
MissingOfDial == Minus(live, Cardinality(Visible))

\* What this tunnel lacks of bond.links.
Missing == Minus(BondLinks, Cardinality(Visible))

\* A maintainer round reaches this tunnel.
Maintain ==
    /\ maint = "off" /\ dial = "done" /\ tunnel = "alive"
    /\ Missing > 0
    /\ maint' = "grace"
    /\ UNCHANGED <<timely, dial, task, live, link, agg, tunnel, missing>>

\* Mutant: the first count is used as it is.
GraceSkipped ==
    /\ maint = "grace"
    /\ missing' = Missing
    /\ maint' = IF missing' > 0 THEN "topup" ELSE "off"
    /\ UNCHANGED <<timely, dial, task, live, link, agg, tunnel>>

\* The second look, 250 ms later.
Grace ==
    /\ maint = "grace" /\ Waited
    /\ missing' = IF tunnel = "alive" THEN Missing ELSE 0
    /\ maint' = IF missing' > 0 THEN "topup" ELSE "off"
    /\ UNCHANGED <<timely, dial, task, live, link, agg, tunnel>>

\* The next link of the round is dialed.
TopUpDial ==
    /\ maint = "topup" /\ missing > 0
    /\ \E l \in In({"none"}) : Become(l, "dialing")
    /\ maint' = "dial"
    /\ UNCHANGED <<timely, dial, task, live, agg, tunnel, missing>>

Return == maint' = "off" /\ missing' = 0

\* The link is up: the channel takes it, or has ended in the meantime.
TopUpAdded(l) ==
    /\ maint = "dial" /\ link[l] = "dialing"
    /\ IF agg = "open"
         THEN /\ Become(l, "added")
              /\ missing' = missing - 1
              /\ maint' = IF missing > 1 THEN "topup" ELSE "off"
         ELSE Become(l, "none") /\ Return
    /\ UNCHANGED <<timely, dial, task, live, agg, tunnel>>

\* The dial failed: the round gives up.
TopUpErr(l) ==
    /\ maint = "dial" /\ link[l] = "dialing"
    /\ Become(l, "none") /\ Return
    /\ UNCHANGED <<timely, dial, task, live, agg, tunnel>>

----------------------------------------------------------------------------
(* The aggregator (external) and the tunnel over it *)

\* Control::links catches up.
Appear(l) ==
    /\ link[l] = "added" /\ agg = "open"
    /\ Become(l, "visible")
    /\ UNCHANGED <<timely, dial, task, live, agg, tunnel, maint, missing>>

\* A link is lost, or dropped by a channel that has ended.
LinkLost(l) ==
    /\ link[l] \in {"added", "visible"}
    /\ Become(l, "none")
    /\ UNCHANGED <<timely, dial, task, live, agg, tunnel, maint, missing>>

\* no_link_timeout: a channel that has had no link for 15 s ends.
NoLinkTimeout ==
    /\ agg = "open" /\ dial # "failed" /\ live > 0 /\ Attached = {}
    /\ Terminate
    /\ UNCHANGED <<timely, dial, task, live, link, tunnel, maint, missing>>

\* The reader sees the channel end, or the pool kills the tunnel: mark_dead
\* runs the teardown, which terminates the channel.
TunnelDies ==
    /\ tunnel = "alive"
    /\ tunnel' = "dead" /\ Terminate
    /\ UNCHANGED <<timely, dial, task, live, link, maint, missing>>

Next ==
    \/ StartDial \/ Collect \/ Collected \/ Settled \/ ConnectOk \/ ConnectErr
    \/ Maintain \/ Grace \/ TopUpDial
    \/ NoLinkTimeout \/ TunnelDies
    \/ \E l \in Links : \/ LinkDialed(l) \/ DropOrphan(l) \/ TopUpAdded(l)
                        \/ TopUpErr(l) \/ Appear(l) \/ LinkLost(l)

\* Dials and joins end (their deadlines), timers fire, the maintainer keeps
\* its rounds, an ended channel drops its links and its reader notices.
Fairness ==
    /\ WF_vars(Collect) /\ WF_vars(Collected) /\ WF_vars(Settled)
    /\ WF_vars(ConnectOk \/ ConnectErr)
    /\ WF_vars(Maintain) /\ WF_vars(Grace) /\ WF_vars(TopUpDial)
    /\ WF_vars(NoLinkTimeout) /\ WF_vars(agg = "ended" /\ TunnelDies)
    /\ \A l \in Links :
        /\ WF_vars(LinkDialed(l)) /\ WF_vars(DropOrphan(l))
        /\ WF_vars(TopUpAdded(l) \/ TopUpErr(l)) /\ WF_vars(Appear(l))
        /\ WF_vars(agg = "ended" /\ LinkLost(l))

Spec == Init /\ [][Next]_vars /\ Fairness

----------------------------------------------------------------------------
(* Properties *)

TypeOK ==
    /\ timely \in BOOLEAN
    /\ dial \in {"idle", "collect", "settle", "connect", "done", "failed"}
    /\ task \in 1..(BondLinks + 1) /\ live \in 0..BondLinks
    /\ link \in [Links -> {"none", "dialing", "dialed", "failed", "panicked", "added", "visible"}]
    /\ agg \in {"open", "ended"} /\ tunnel \in {"none", "alive", "dead"}
    /\ maint \in {"off", "grace", "topup", "dial"} /\ missing \in 0..BondLinks

\* As long as the aggregator shows its links within the 250 ms that dial and
\* maintain_tunnel wait, the tunnel never has more than bond.links sessions
\* at the server, whatever links are lost or rounds race the dial.
LinksBounded == TypeOK /\ (timely => Cardinality(Occupied) <= BondLinks)


\* Lost links come back: once links stop getting lost and dials stop failing,
\* the tunnel is dead or runs on all of its links.
ToppedUp ==
    <>[][\A l \in Links : link[l] \in {"added", "visible", "dialing"} => link'[l] # "none"]_vars
        => [](tunnel = "alive" => <>(tunnel # "alive" \/ Cardinality(Attached) >= BondLinks))

=============================================================================
