------------------------------ MODULE MCTunnel ------------------------------
(* A small instance of Tunnel: one tunnel that pumps and one whose client   *)
(* negotiates h2 ask for certificates at the same time.                     *)
EXTENDS Tunnel

MCHost == [t \in Tunnels |-> "a"]

MCMaxSend == [client |-> 3, server |-> 1]
=============================================================================
