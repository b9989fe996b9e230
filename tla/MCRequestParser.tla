-------------------------- MODULE MCRequestParser ---------------------------
(* RequestParser for TLC: a table that grows twice, header lines of every form. *)
EXTENDS RequestParser

Line(name, sep, value) == [name |-> name, sep |-> sep, value |-> value]

\* A header the proxy replaces, one it drops, a host of this machine and one with a
\* port, a value without the blank, an empty one without it, a bare line and a trace id.
MCHeaderLines ==
  {Line("Connection", ": ", <<"k">>), Line("Proxy-Connection", ": ", <<"k">>),
   Line("Host", ": ", <<"localhost">>), Line("Host", ":", <<"a", "b", ":", "8080">>),
   Line("Proxy-Connection", ":", <<>>), Line("B", "none", <<>>),
   Line("X-Trace-Id", ": ", <<"k">>)}

RLine(form, p) == [form |-> form, host |-> <<"a">>, port |-> p]

MCRequestLines ==
  {RLine(f, NULL) : f \in Forms}
    \cup {RLine("CONNECT", <<"8080">>), RLine("absolute", <<"8080">>),
          RLine("absolute", <<>>), RLine("absolute", <<"x">>)}

MCNumeral == [n \in {"80", "443", "8080"} |->
                CASE n = "80" -> 80 [] n = "443" -> 443 [] n = "8080" -> 8080]

Names == {"Connection", "Proxy-Connection", "Host", "X-Trace-Id"}

MCKeys == {p \o <<n>> : p \in {<<>>, <<"B">>, <<"B", "B">>}, n \in Names}

Texts ==
  {l.value : l \in MCHeaderLines} \cup {<<"b", ":", "8080">>, <<"close">>, <<"T">>, <<"a">>,
    <<"LF">>} \cup {<<"LF">> \o Text(l) : l \in MCHeaderLines}

MCValues == Texts \cup {HostPart(v) : v \in Texts}

MCTraceId == <<"T">>

=============================================================================
