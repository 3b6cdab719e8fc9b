------------------------------- MODULE MCWire -------------------------------
(* Every framing with every user the code gives it. *)
EXTENDS Wire

MCModes == {<<"binary", "tunnel">>, <<"binary", "link">>, <<"base94", "tunnel">>,
            <<"base94", "link">>, <<"prefix", "tunnel">>}
=============================================================================
