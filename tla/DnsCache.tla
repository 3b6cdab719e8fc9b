------------------------------ MODULE DnsCache ------------------------------
(***************************************************************************)
(* The TTL cache of common/dns.rs under concurrent callers, together with  *)
(* its one caller, pump::tcp_connect, which shares a single deadline       *)
(* between the resolution and the connection attempts.                     *)
(*                                                                         *)
(* `resolve` takes the lock three times (freshness check, stale check,     *)
(* insert) and runs the lookup between them without it.  Addresses are     *)
(* abstracted to how many there are; an entry with none is a cached        *)
(* failure.  Time is abstracted to entries expiring and deadlines passing. *)
(***************************************************************************)
EXTENDS Naturals, FiniteSets

CONSTANTS Callers,    \* threads inside tcp_connect
          Domains,    \* domain names
          MaxEntries, \* MAX_ENTRIES
          MaxAddrs    \* bound on the addresses of one answer

ASSUME DnsAssumption ==
    /\ IsFiniteSet(Domains)
    /\ MaxEntries \in Nat \ {0}
    /\ MaxAddrs \in Nat \ {0}

VARIABLES map,       \* the cache: one entry per domain, "absent" when there is none
          pc,        \* control state of each caller
          dom,       \* the domain a caller connects to
          addrs,     \* addresses a caller still has to try
          spent,     \* the caller's deadline has passed
          answer,    \* where the caller's addresses came from
          tried,     \* connection attempts the caller made
          overtaken  \* history: callers whose failure is older than the cached answer

vars == <<map, pc, dom, addrs, spent, answer, tried, overtaken>>

States == {"absent", "fresh", "expired"}
Absent == [state |-> "absent", addrs |-> 0]
Cached(m) == {d \in Domains : m[d].state # "absent"}
Positive(m, d) == m[d].state # "absent" /\ m[d].addrs > 0
Negative(m, d) == m[d].state # "absent" /\ m[d].addrs = 0

Init ==
    /\ map = [d \in Domains |-> Absent]
    /\ pc = [c \in Callers |-> "idle"]
    /\ dom \in [Callers -> Domains]
    /\ addrs = [c \in Callers |-> 0]
    /\ spent = [c \in Callers |-> FALSE]
    /\ answer = [c \in Callers |-> "none"]
    /\ tried = [c \in Callers |-> 0]
    /\ overtaken = [c \in Callers |-> FALSE]

GoTo(c, l) == pc' = [pc EXCEPT ![c] = l]

\* An entry's TTL runs out.
Expire(d) ==
    /\ map[d].state = "fresh"
    /\ map' = [map EXCEPT ![d].state = "expired"]
    /\ UNCHANGED <<pc, dom, addrs, spent, answer, tried, overtaken>>

\* tcp_connect starts, with a new deadline.
Begin(c) ==
    /\ pc[c] \in {"idle", "ok", "err"}
    /\ spent' = [spent EXCEPT ![c] = FALSE]
    /\ answer' = [answer EXCEPT ![c] = "none"]
    /\ tried' = [tried EXCEPT ![c] = 0]
    /\ overtaken' = [overtaken EXCEPT ![c] = FALSE]
    /\ UNCHANGED map

\* Host::Domain: the domain is resolved first.
Connect(c) ==
    /\ Begin(c)
    /\ \E d \in Domains : dom' = [dom EXCEPT ![c] = d]
    /\ GoTo(c, "check")
    /\ addrs' = [addrs EXCEPT ![c] = 0]

\* Host::Ip: the one address is tried, the cache is left alone.
ConnectIp(c) ==
    /\ Begin(c)
    /\ GoTo(c, "connect")
    /\ addrs' = [addrs EXCEPT ![c] = 1]
    /\ UNCHANGED dom

\* Mutant: a hit on a cached failure caches it again.
CheckFreshRenews(c) ==
    /\ pc[c] = "check"
    /\ IF map[dom[c]].state = "fresh"
         THEN /\ addrs' = [addrs EXCEPT ![c] = map[dom[c]].addrs]
              /\ answer' = [answer EXCEPT ![c] = "fresh"]
              /\ GoTo(c, IF map[dom[c]].addrs = 0 THEN "negate" ELSE "connect")
         ELSE GoTo(c, "lookup") /\ UNCHANGED <<addrs, answer>>
    /\ UNCHANGED <<map, dom, spent, tried, overtaken>>

\* First lock section: a fresh entry, positive or negative, is the answer.
CheckFresh(c) ==
    /\ pc[c] = "check"
    /\ IF map[dom[c]].state = "fresh"
         THEN /\ addrs' = [addrs EXCEPT ![c] = map[dom[c]].addrs]
              /\ answer' = [answer EXCEPT ![c] = "fresh"]
              /\ GoTo(c, IF map[dom[c]].addrs = 0 THEN "err" ELSE "connect")
         ELSE GoTo(c, "lookup") /\ UNCHANGED <<addrs, answer>>
    /\ UNCHANGED <<map, dom, spent, tried, overtaken>>

\* The lookup, or an attempt, took its time: the caller's deadline may have passed meanwhile.
MaybeLate(c) == \E late \in BOOLEAN : spent' = [spent EXCEPT ![c] = late]

\* resolve_sys: the helper thread answers before the wait for it ends.
LookupOk(c) ==
    /\ pc[c] = "lookup"
    /\ MaybeLate(c)
    /\ \E n \in 1..MaxAddrs : addrs' = [addrs EXCEPT ![c] = n]
    /\ answer' = [answer EXCEPT ![c] = "lookup"]
    /\ GoTo(c, "store")
    /\ UNCHANGED <<map, dom, tried, overtaken>>

\* getaddrinfo fails, returns no address, or the helper cannot be spawned.
LookupErr(c) ==
    /\ pc[c] = "lookup"
    /\ MaybeLate(c)
    /\ GoTo(c, "stale")
    /\ UNCHANGED <<map, dom, addrs, answer, tried, overtaken>>

\* Mutant: the wait for the helper thread has no deadline.
LookupNeverTimesOut(c) ==
    /\ pc[c] = "lookup" /\ spent[c]
    /\ GoTo(c, "stale")
    /\ UNCHANGED <<map, dom, addrs, spent, answer, tried, overtaken>>

\* recv_timeout gives up when the caller's whole budget is gone; the helper's
\* late answer goes to a closed channel.
LookupTimeout(c) ==
    /\ pc[c] = "lookup"
    /\ spent' = [spent EXCEPT ![c] = TRUE]
    /\ GoTo(c, "stale")
    /\ UNCHANGED <<map, dom, addrs, answer, tried, overtaken>>

\* Mutant: the failure is cached whatever is in the map.
CheckStaleSkipped(c) ==
    /\ pc[c] = "stale"
    /\ GoTo(c, "negate")
    /\ UNCHANGED <<map, dom, addrs, spent, answer, tried, overtaken>>

\* Second lock section, after a failure: any positive entry will do.
CheckStale(c) ==
    /\ pc[c] = "stale"
    /\ IF Positive(map, dom[c])
         THEN /\ addrs' = [addrs EXCEPT ![c] = map[dom[c]].addrs]
              /\ answer' = [answer EXCEPT ![c] = "stale"]
              /\ GoTo(c, "connect")
         ELSE GoTo(c, "negate") /\ UNCHANGED <<addrs, answer>>
    /\ UNCHANGED <<map, dom, spent, tried, overtaken>>

\* Mutant: room is never checked again after the eviction.
InsertedAnyway(d, n) ==
    LET full == Cardinality(Cached(map)) >= MaxEntries /\ map[d].state = "absent"
        kept == [e \in Domains |-> IF full /\ map[e].state # "fresh" THEN Absent ELSE map[e]]
    IN  [kept EXCEPT ![d] = [state |-> "fresh", addrs |-> n]]

\* insert: a full map first loses its expired entries; if it is still full
\* the new entry is not cached.
Inserted(d, n) ==
    LET full == Cardinality(Cached(map)) >= MaxEntries /\ map[d].state = "absent"
        kept == [e \in Domains |-> IF full /\ map[e].state # "fresh" THEN Absent ELSE map[e]]
    IN  IF full /\ Cardinality(Cached(kept)) >= MaxEntries
        THEN kept
        ELSE [kept EXCEPT ![d] = [state |-> "fresh", addrs |-> n]]

\* Third lock section after a success.
StorePositive(c) ==
    /\ pc[c] = "store"
    /\ map' = Inserted(dom[c], addrs[c])
    /\ overtaken' = [e \in Callers |->
                        overtaken[e] \/ (pc[e] = "negate" /\ dom[e] = dom[c])]
    /\ GoTo(c, "connect")
    /\ UNCHANGED <<dom, addrs, spent, answer, tried>>

\* Third lock section after a failure: the error is cached and returned.
StoreNegative(c) ==
    /\ pc[c] = "negate"
    /\ map' = Inserted(dom[c], 0)
    /\ GoTo(c, "err")
    /\ UNCHANGED <<dom, addrs, spent, answer, tried, overtaken>>

\* tcp_connect's loop: the addresses in order, while the deadline lasts.
TryAddress(c) ==
    /\ pc[c] = "connect"
    /\ IF spent[c] \/ addrs[c] = 0
         THEN GoTo(c, "err") /\ UNCHANGED <<addrs, tried, spent>>
         ELSE /\ tried' = [tried EXCEPT ![c] = @ + 1]
              /\ \/ GoTo(c, "ok") /\ UNCHANGED <<addrs, spent>>
                 \/ /\ addrs' = [addrs EXCEPT ![c] = @ - 1]
                    /\ MaybeLate(c)
                    /\ UNCHANGED pc
    /\ UNCHANGED <<map, dom, answer, overtaken>>

Step(c) ==
    \/ CheckFresh(c) \/ LookupTimeout(c) \/ LookupOk(c) \/ LookupErr(c)
    \/ CheckStale(c) \/ StorePositive(c) \/ StoreNegative(c) \/ TryAddress(c)

Next ==
    \/ \E d \in Domains : Expire(d)
    \/ \E c \in Callers : Connect(c) \/ ConnectIp(c) \/ Step(c)

\* Every caller has a thread of its own; in the lookup only the timeout is
\* certain to come, a resolver may hang for ever.  TTLs run out.
Fairness ==
    /\ \A c \in Callers :
        WF_vars(CheckFresh(c) \/ LookupTimeout(c) \/ CheckStale(c)
                \/ StorePositive(c) \/ StoreNegative(c) \/ TryAddress(c))
    /\ \A d \in Domains : WF_vars(Expire(d))

Spec == Init /\ [][Next]_vars /\ Fairness

----------------------------------------------------------------------------
(* Properties *)

TypeOK ==
    /\ map \in [Domains -> [state : States, addrs : 0..MaxAddrs]]
    /\ pc \in [Callers -> {"idle", "check", "lookup", "stale", "negate",
                           "store", "connect", "ok", "err"}]
    /\ dom \in [Callers -> Domains]
    /\ addrs \in [Callers -> 0..MaxAddrs]
    /\ spent \in [Callers -> BOOLEAN]
    /\ answer \in [Callers -> {"none", "fresh", "lookup", "stale"}]
    /\ tried \in [Callers -> 0..MaxAddrs]
    /\ overtaken \in [Callers -> BOOLEAN]

\* The map never holds more than MAX_ENTRIES domains, whatever expires or is
\* inserted by whom between an eviction and the test for room.
CacheBounded == TypeOK /\ Cardinality(Cached(map)) <= MaxEntries

\* A cached answer, stale or fresh, is replaced by a failure only in the race
\* the code leaves open: the answer arrived after the failing caller's stale
\* check.  In every other order a failure leaves the answer alone.
AnswerSurvivesFailure ==
    [][\A d \in Domains :
         Positive(map, d) /\ Negative(map', d) =>
            \E c \in Callers : /\ pc[c] = "negate" /\ pc'[c] = "err"
                               /\ dom[c] = d /\ overtaken[c]]_vars

\* A transient failure is not remembered for ever: once lookups stop failing,
\* there is a time after which no failure is served from the cache, however
\* often the domain is asked for in between.
FailureForgotten ==
    <>[][\A c \in Callers : pc[c] = "lookup" => pc'[c] # "stale"]_vars
        => <>[](\A d \in Domains : ~(Negative(map, d) /\ map[d].state = "fresh"))

\* Every connect returns, though resolvers hang and entries come and go.
ConnectReturns ==
    \A c \in Callers : pc[c] \in {"check", "connect"} ~> pc[c] \in {"ok", "err"}

\* What dns.rs promises for a dying resolver: on a resolution failure the old
\* addresses are still used, so a connect with a stale answer tries one.
StaleIsUsable ==
    \A c \in Callers : pc[c] = "err" /\ answer[c] = "stale" => tried[c] > 0
=============================================================================
