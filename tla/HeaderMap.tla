----------------------------- MODULE HeaderMap ------------------------------
(***************************************************************************)
(* What the header functions of proxy_parse.h promise their callers: the    *)
(* headers of a request are a map from keys to values that set, get and     *)
(* remove work on.  The table of RequestParser implements it.               *)
(***************************************************************************)
CONSTANTS Keys, Values, NULL

VARIABLES
  map,   \* key -> its value, NULL when there is none
  last   \* the last call: its name, key, and the value given or returned

vars == <<map, last>>

Call(op, k, v) == last' = [op |-> op, key |-> k, value |-> v]

Empty == [k \in Keys |-> NULL]

Init == map = Empty /\ last = [op |-> "create", key |-> NULL, value |-> NULL]

\* ParsedRequest_create, or the memory for the table is gone.
Clear(op) == map' = Empty /\ Call(op, NULL, NULL)

Set(k, v) == map' = [map EXCEPT ![k] = v] /\ Call("set", k, v)

Remove(k) == map' = [map EXCEPT ![k] = NULL] /\ Call("remove", k, NULL)

Get(k) == map' = map /\ Call("get", k, map[k])

Next ==
  \/ \E op \in {"create", "lost"} : Clear(op)
  \/ \E k \in Keys : Remove(k) \/ Get(k) \/ \E v \in Values : Set(k, v)

Spec == Init /\ [][Next]_vars

=============================================================================
