------------------------------- MODULE MCHttp2 ------------------------------
(* Http2 for TLC: two streams, bodies of up to two bytes in one or two frames. *)
EXTENDS Http2, TLC

\* The kernel's choice of a free descriptor is any of them.
Symmetry == Permutations(Fds)

=============================================================================
