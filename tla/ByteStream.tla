----------------------------- MODULE ByteStream -----------------------------
(***************************************************************************)
(* What a mux stream promises the two sockets it joins, for a set of       *)
(* one-way flows: the reader gets the writer's chunks in order and without *)
(* gaps, and is shown an end of stream only after the writer half-closed   *)
(* and every chunk was delivered, or after a fault broke the flow.  A      *)
(* broken flow may be cut anywhere, and the cut looks like any other end;  *)
(* a flow that met no fault is never cut.                                  *)
(***************************************************************************)
EXTENDS Naturals, Sequences

CONSTANT Flows

VARIABLES
  sent,   \* number of chunks accepted from the writer of each flow
  fin,    \* the flows whose writer has half-closed
  got,    \* the chunks written to the reader of each flow
  seen,   \* the flows whose reader was shown the end of stream
  broken  \* the flows a fault has hit

vars == <<sent, fin, got, seen, broken>>

Init ==
  /\ sent = [f \in Flows |-> 0]
  /\ fin = {}
  /\ got = [f \in Flows |-> <<>>]
  /\ seen = {}
  /\ broken = {}

Write(f) ==
  /\ f \notin fin
  /\ sent' = [sent EXCEPT ![f] = @ + 1]
  /\ UNCHANGED <<fin, got, seen, broken>>

Finish(f) ==
  /\ fin' = fin \cup {f}
  /\ UNCHANGED <<sent, got, seen, broken>>

Read(f) ==
  /\ f \notin seen
  /\ Len(got[f]) < sent[f]
  /\ got' = [got EXCEPT ![f] = Append(@, Len(@) + 1)]
  /\ UNCHANGED <<sent, fin, seen, broken>>

ReadEnd(f) ==
  /\ f \in broken \/ (f \in fin /\ Len(got[f]) = sent[f])
  /\ seen' = seen \cup {f}
  /\ UNCHANGED <<sent, fin, got, broken>>

\* A fault hits the flows F, and may cut some of them at once.
Break(F) ==
  /\ broken' = broken \cup F
  /\ \E G \in SUBSET F : seen' = seen \cup G
  /\ UNCHANGED <<sent, fin, got>>

Next ==
  \/ \E f \in Flows : Write(f) \/ Finish(f) \/ Read(f) \/ ReadEnd(f)
  \/ \E F \in SUBSET Flows : Break(F)

Spec == Init /\ [][Next]_vars
=============================================================================
