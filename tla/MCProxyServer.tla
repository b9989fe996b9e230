--------------------------- MODULE MCProxyServer ----------------------------
(* ProxyServer for TLC: a few connections, a few kinds of request. *)
EXTENDS ProxyServer, TLC

Req(parse, method, auth, host, path, version) ==
  [parse |-> parse, method |-> method, auth |-> auth, host |-> host,
   path |-> path, version |-> version]

Get == Req("ok", "GET", TRUE, "good", "/", TRUE)
Tunnel == Req("ok", "CONNECT", TRUE, "good", "/", TRUE)

\* One request for every outcome of the parser, of the checks and of the dispatch.
MixedRequests ==
  {Get,
   Req("ok", "GET", FALSE, "good", "/", TRUE),
   Req("ok", "GET", TRUE, "bad", "/", TRUE),
   Req("ok", "GET", TRUE, "good", "/bad", TRUE),
   Req("ok", "GET", TRUE, "good", "/", FALSE),
   Tunnel,
   Req("bad", "GET", TRUE, "good", "/", TRUE),
   Req("relative", "GET", TRUE, "good", "/", TRUE)}

\* The good host has an address that is always denied and one that is not.
MCResolve == [h \in Hosts |-> IF h = "good" THEN {"public", "denied"} ELSE {"public"}]

Blocking(hosts, paths, addrs) == [hosts |-> hosts, paths |-> paths, addrs |-> addrs]

\* Two versions of the files: the bad host, path and address are in both.
TwoLists ==
  {Blocking({"bad"}, {"/bad"}, {"denied"}),
   Blocking({"bad", "good"}, {"/bad", "/"}, {"denied", "public"})}

OneList == {Blocking({"bad"}, {"/bad"}, {"denied"})}

\* The kernel's choice of a free descriptor is any of them.
Symmetry == Permutations(Fds)

=============================================================================
