------------------------------- MODULE Relay --------------------------------
(***************************************************************************)
(* One exchange with an end server: HandleRequest of src/src/Main.c from    *)
(* the request it has sent to its return.  The response arrives in chunks   *)
(* of any size up to max_bytes, is collected in a buffer that grows by      *)
(* doubling, inspected, streamed to the client and offered to the cache.    *)
(*                                                                         *)
(* A response is the positions that matter in its text: its length, the     *)
(* first byte after the header and the byte that completes the value of     *)
(* Content-Type (0 when there is none).  Both searches run over all that    *)
(* was received, so a position stands for "the search succeeds from here".  *)
(***************************************************************************)
EXTENDS Integers

CONSTANTS
  max_bytes,   \* g_config.max_bytes
  Responses    \* what end servers answer

Response == [length : Nat, hdr_end : Nat, content_type : Nat, blocked : BOOLEAN]

ASSUME RelayAssumption ==
  /\ max_bytes \in Nat \ {0}
  /\ Responses \subseteq Response
  \* The type is part of the header.
  /\ \A r \in Responses : r.blocked => /\ 0 < r.content_type
                                       /\ r.content_type <= r.hdr_end

VARIABLES
  stage,
  response,            \* the whole response of the end server
  RESPONSE_LENGTH,
  RESPONSE_CAPACITY,
  allocated,           \* bytes really allocated at RESPONSE
  ct_blocked,
  sent,                \* bytes of the response streamed to the client
  cached               \* AddCache has stored the RESPONSE_LENGTH bytes

relayVars == <<stage, response, RESPONSE_LENGTH, RESPONSE_CAPACITY, allocated,
               ct_blocked, sent, cached>>
buffer == <<RESPONSE_LENGTH, RESPONSE_CAPACITY, allocated>>

\* The values the variables range over.
RelayTypeOK ==
  /\ stage \in {"recv", "relay", "after", "decide", "done"}
  /\ response \in Responses
  /\ RESPONSE_LENGTH \in Nat /\ RESPONSE_CAPACITY \in Nat /\ allocated \in Nat
  /\ ct_blocked \in BOOLEAN
  /\ sent \in Nat
  /\ cached \in BOOLEAN

-----------------------------------------------------------------------------

RelayInit ==
  /\ stage = "recv"
  /\ response \in Responses
  /\ RESPONSE_LENGTH = 0
  /\ RESPONSE_CAPACITY = max_bytes /\ allocated = max_bytes
  /\ ct_blocked = FALSE
  /\ sent = 0
  /\ cached = FALSE

\* memmem finds the end of the header in what was received.
HeaderSeen == response.hdr_end # 0 /\ response.hdr_end <= RESPONSE_LENGTH

\* parse_content_type_header finds a type that the filter blocks.
TypeBlocked ==
  response.blocked /\ response.content_type <= RESPONSE_LENGTH

\* Fault: room is made for the bytes but not for the terminator.
GrowsExact(n) == RESPONSE_LENGTH + n > RESPONSE_CAPACITY

Grows(n) == RESPONSE_LENGTH + n + 1 > RESPONSE_CAPACITY

\* recv returns n bytes and they are appended, into a larger buffer if needed.
RecvAppend(n) ==
  /\ stage = "recv"
  /\ n <= max_bytes /\ RESPONSE_LENGTH + n <= response.length
  /\ IF Grows(n)
     THEN /\ RESPONSE_CAPACITY' = 2 * RESPONSE_CAPACITY
          /\ allocated' = 2 * RESPONSE_CAPACITY
     ELSE UNCHANGED <<RESPONSE_CAPACITY, allocated>>
  /\ RESPONSE_LENGTH' = RESPONSE_LENGTH + n
  /\ stage' = "relay"
  /\ UNCHANGED <<response, ct_blocked, sent, cached>>

\* realloc fails: the capacity has been doubled, the buffer has not.
RecvNoMemory(n) ==
  /\ stage = "recv"
  /\ n <= max_bytes /\ RESPONSE_LENGTH + n <= response.length
  /\ Grows(n)
  /\ RESPONSE_CAPACITY' = 2 * RESPONSE_CAPACITY
  /\ stage' = "after"
  /\ UNCHANGED <<response, RESPONSE_LENGTH, allocated, ct_blocked, sent, cached>>

\* recv returns 0 or -1: the end of the response, or a connection that broke before
\* it.  The code goes on in the same way.
RecvEnd ==
  /\ stage = "recv"
  /\ stage' = "after"
  /\ UNCHANGED <<response, buffer, ct_blocked, sent, cached>>

\* Fault: the header is only looked for in the first chunk.
InspectFirstOnly == sent = 0 /\ HeaderSeen /\ TypeBlocked

\* What makes the loop stop before the chunk is streamed.
Inspect == HeaderSeen /\ TypeBlocked

BlockNow ==
  /\ stage = "relay" /\ Inspect
  /\ ct_blocked' = TRUE
  /\ stage' = "after"
  /\ UNCHANGED <<response, buffer, sent, cached>>

\* The chunk is streamed to the client, or the client is gone and the loop ends.
RelayChunk(delivered) ==
  /\ stage = "relay" /\ ~Inspect
  /\ sent' = IF delivered THEN RESPONSE_LENGTH ELSE sent
  /\ stage' = IF delivered THEN "recv" ELSE "after"
  /\ UNCHANGED <<response, buffer, ct_blocked, cached>>

\* RESPONSE[RESPONSE_LENGTH] = 0, after making room if there is none; a realloc
\* that fails is not noticed.
Terminate(extended) ==
  /\ stage = "after"
  /\ allocated' = IF RESPONSE_LENGTH + 1 > RESPONSE_CAPACITY /\ extended
                  THEN RESPONSE_LENGTH + 1 ELSE allocated
  /\ stage' = "decide"
  /\ UNCHANGED <<response, RESPONSE_LENGTH, RESPONSE_CAPACITY, ct_blocked, sent,
                 cached>>

\* Fault: only what the loop noticed counts.
RefusedLoopOnly == ct_blocked

\* The client gets the block page instead of what is left.
Refused == ct_blocked \/ TypeBlocked

BlockPage ==
  /\ stage = "decide" /\ Refused
  /\ stage' = "done"
  /\ UNCHANGED <<response, buffer, ct_blocked, sent, cached>>

\* What was received is offered to the cache, which may turn it down.
Store(accepted) ==
  /\ stage = "decide" /\ ~Refused
  /\ cached' = accepted
  /\ stage' = "done"
  /\ UNCHANGED <<response, buffer, ct_blocked, sent>>

RelayNext ==
  \/ \E n \in 1 .. max_bytes : RecvAppend(n) \/ RecvNoMemory(n)
  \/ RecvEnd \/ BlockNow \/ BlockPage
  \/ \E ok \in BOOLEAN : RelayChunk(ok) \/ Terminate(ok) \/ Store(ok)

RelaySpec == RelayInit /\ [][RelayNext]_relayVars

-----------------------------------------------------------------------------
(* Properties *)

\* Appending and terminating stay inside the allocation: what was received and the
\* terminating zero fit, for any division into chunks and also when realloc has
\* failed and RESPONSE_CAPACITY is larger than the buffer.
NoOverrun == RESPONSE_LENGTH + 1 <= allocated

\* No byte after the header of a blocked response is streamed, wherever the chunks
\* are cut; chunks that end inside the header are streamed before its type is known.
BlockedBodyWithheld ==
  response.blocked => sent < response.hdr_end

\* A blocked response is never stored once its type was received, even if the
\* connection broke before the end of its header and the loop never looked.
BlockedNotCached ==
  cached => ~TypeBlocked

=============================================================================
