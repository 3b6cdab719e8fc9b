-------------------------------- MODULE MCMux -------------------------------
(* Small instances of Mux for TLC. *)
EXTENDS Mux

\* Every socket sends one chunk, or two.
OneChunk  == [x \in Sides |-> [s \in Sids |-> 1]]
TwoChunks == [x \in Sides |-> [s \in Sids |-> 2]]

\* Two chunks fill a stream's path; one, and the EOF behind it, is enough for
\* a wedged stream to block a demux.
OneWedged == [x \in Sides |-> [s \in Sids |-> IF s \in Slow THEN 1 ELSE 2]]
=============================================================================
