----------------------------- MODULE MCShutdown -----------------------------
(* A small instance of Shutdown: one worker beside main and the admin       *)
(* thread, and each of the two signals once.                                *)
EXTENDS Shutdown

MCSigno == [s \in Signals |-> s]
=============================================================================
