------------------------------ MODULE MCFilter ------------------------------
(* A small instance of Filter: every list has one or two files to change    *)
(* between, names of up to four characters, IPv4 addresses of three bits,   *)
(* IPv6 addresses of two bytes of two bits, credentials of up to 12 bytes   *)
(* and a buffer of nine.                                                    *)
EXTENDS Filter, TLC

MCLower(c) == IF c = "A" THEN "a" ELSE c

Rule(v6, bits, prefix) == [v6 |-> v6, bits |-> bits, prefix |-> prefix, ntop |-> TRUE]

\* An IPv6 address in a spelling of its own.
OddRule(bits) == [v6 |-> TRUE, bits |-> bits, prefix |-> NULL, ntop |-> FALSE]

MCContents == [
  domain |-> {<<Skip, <<"b", ".", "a">>, <<"A">>>>},
  allow |-> {NULL, <<Rule(FALSE, <<0, 1, 1>>, 0), Rule(TRUE, <<1, 0, 0, 1>>, NULL)>>},
  deny |-> {<<Junk, Rule(FALSE, <<0, 1, 0>>, 1), Rule(TRUE, <<1, 0, 1, 1>>, 3),
              OddRule(<<1, 0, 0, 1>>), Rule(FALSE, <<1, 0, 1>>, 9),
              OddRule(<<1, 0, 0, 1>>)>>},
  url |-> {<<Junk, {"/x"}>>},
  ct |-> {<<"video">>, <<>>, NULL}]

MCDomains == {<<"b", "b", ".", "a">>, <<"b", "a">>}
MCUrls == {"/x"}
MCIps == {[v6 |-> FALSE, bits |-> <<0, 1, 1>>], [v6 |-> FALSE, bits |-> <<1, 0, 1>>],
          [v6 |-> TRUE, bits |-> <<1, 0, 0, 1>>]}
MCContentTypes == {<<{"html"}>>, <<{"html"}, {"video", "mp4"}>>}

\* The last one fills all of the buffer but the place of its NUL.
LongUser == <<97, 58, 98, 99, 100, 101, 102, 103>>
MCUsers == {<<117, 58>>, <<97, 58, 98, 99>>, <<97, 58, 98, 99, 100>>, <<255>>, LongUser}

\* Some that are no user's, of which two do not fit into the buffer.
MCCredentials ==
  MCUsers \cup {<<97, 58, 99>>, <<97, 58, 98>>, <<117>>, <<97, 58, 98, 99, 101>>,
                LongUser \o <<97>>, LongUser \o <<97, 97, 97, 97>>}

\* Nothing was on the stack, a user's credential was, or a text without an end.
MCLeftovers == {
  [i \in 1..9 |-> 0],
  [i \in 1..9 |-> IF i <= 8 THEN LongUser[i] ELSE 0],
  [i \in 1..9 |-> 97]}

\* The files of this instance fit into the arrays, and no credential has a NUL.
ASSUME InstanceFits == FilesFit /\ CredentialsAreText

Symmetry == Permutations(Workers)
=============================================================================
