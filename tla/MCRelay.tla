------------------------------ MODULE MCRelay -------------------------------
(* Relay for TLC: every placement of header and type in short responses. *)
EXTENDS Relay

CONSTANT MaxLength   \* bound on the length of a response

MCResponses ==
  {r \in [length : 0 .. MaxLength, hdr_end : 0 .. MaxLength,
          content_type : 0 .. MaxLength, blocked : BOOLEAN] :
     /\ r.hdr_end <= r.length /\ r.content_type <= r.hdr_end
     /\ r.blocked => r.content_type > 0}

=============================================================================
