----------------------------- MODULE MCAsyncIo -----------------------------
(* Small instances of AsyncIo for TLC.                                     *)
EXTENDS AsyncIo

\* Two descriptors; the table has room for the first and grows once.
MCFds == {0, 1}
=============================================================================
