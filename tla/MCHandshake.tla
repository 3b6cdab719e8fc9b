---------------------------- MODULE MCHandshake -----------------------------
(* Small instances of Handshake for TLC. *)
EXTENDS Handshake, TLC

\* The default-like configuration and one that differs in each respect: data
\* framing, data flags, key factor, secrets, and NOP exponents (2^11 is two packets).
Base == [kl |-> 0, kh |-> 0, plain |-> FALSE, obf |-> "a", kf |-> 1, secret |-> "k"]

MCKeys ==
  {Base,
   [Base EXCEPT !.plain = TRUE],
   [Base EXCEPT !.obf = "b"],
   [Base EXCEPT !.kf = 2],
   [Base EXCEPT !.secret = "l"],
   [Base EXCEPT !.kl = 11]}
=============================================================================
