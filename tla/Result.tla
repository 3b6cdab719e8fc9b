------------------------------- MODULE Result -------------------------------
(* What a decoder returns: a value, an error, or that it needs more bytes. *)

Ok(x) == [is |-> "ok", value |-> x]
Error == [is |-> "error"]
More  == [is |-> "more"]
=============================================================================
