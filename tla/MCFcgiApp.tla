----------------------------- MODULE MCFcgiApp -----------------------------
(* Small instances of FcgiApp for TLC.                                     *)
EXTENDS FcgiApp

\* One pair: a name of one character and no value.
MCParams == <<1, 0, 65>>
MCBody == <<120>>
MCWrites == {30}

\* A request for a responder, a part of its parameters, and a record of another
\* request that is longer than all there is.
MCForgeries ==
  { BeginRequest(1, 0, "RESPONDER", FALSE), Record("PARAMS", 1, 1, 0, 0),
    Record("STDIN", 2, 12, 0, 0) }
=============================================================================
