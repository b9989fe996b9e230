-------------------------------- MODULE Auth --------------------------------
(***************************************************************************)
(* The operators of auth.c: the rules of the access list, the base64       *)
(* decoder and the two questions Main.c asks, check_ip_allowed before a    *)
(* connection is served and check_basic_auth before a request is.          *)
(*                                                                         *)
(* An address is a sequence of bits with its family; a line of a list file *)
(* is a rule (an address, the number behind its slash, NULL when there is  *)
(* none, and whether the address is spelled as inet_ntop spells it), Skip  *)
(* for a blank line or a comment, or Junk.  A byte is a number, a base64   *)
(* digit a number below 64, and Pad stands for '='.                        *)
(***************************************************************************)
EXTENDS Integers, Sequences, FiniteSets

CONSTANTS
  Width,          \* bits of an IPv4 address (32)
  MaxEntries,     \* MAX_IPS, MAX_IP_BLOCKS: entries a list has room for
  MaxCreds,       \* MAX_CREDS_LEN: bytes of a decoded credential
  Skip, Junk,     \* lines that are no entry, and no address
  NULL

ASSUME AuthAssumption ==
  /\ {Width, MaxEntries, MaxCreds} \subseteq Nat \ {0}
  /\ NULL \notin Int
  /\ Skip # Junk

Pad == 64

\* The lines a loader keeps: all but those it drops, until its array is full.
Kept(lines, dropped) ==
  LET entries == {i \in DOMAIN lines : lines[i] \notin dropped}
  IN  {i \in entries : Cardinality({j \in entries : j <= i}) <= MaxEntries}

\* A list in memory; an entry is named by the line it comes from.
load_list(lines) == [i \in Kept(lines, {Skip}) |-> lines[i]]

\* & of an address and a mask.
Masked(bits, mask) == [i \in DOMAIN bits |-> bits[i] * mask[i]]

HighBits(n, p) == [i \in 1..n |-> IF i <= p THEN 1 ELSE 0]

-----------------------------------------------------------------------------
(* The access list *)

\* Fault for ip_matches: a prefix of 0 taken for the whole address, as a shift
\* by the whole width would do.
ip_matches_shift(ip, rule) ==
  /\ rule # Junk /\ ~ip.v6 /\ ~rule.v6
  /\ IF rule.prefix = NULL THEN rule.ntop /\ ip.bits = rule.bits
     ELSE /\ rule.prefix \in 0..Width
          /\ LET mask == HighBits(Width, IF rule.prefix = 0 THEN Width ELSE rule.prefix)
             IN  Masked(ip.bits, mask) = Masked(rule.bits, mask)

\* ip_matches: the same text, or an IPv4 subnet that holds the address.  The address
\* comes from inet_ntop; a rule with a slash, or with an IPv6 address in another
\* spelling, is never its text.
ip_matches(ip, rule) ==
  /\ rule # Junk
  /\ \/ rule.prefix = NULL /\ rule.ntop /\ ip.v6 = rule.v6 /\ ip.bits = rule.bits
     \/ /\ rule.prefix # NULL /\ rule.prefix \in 0..Width
        /\ ~ip.v6 /\ ~rule.v6
        /\ LET mask == HighBits(Width, rule.prefix)
           IN  Masked(ip.bits, mask) = Masked(rule.bits, mask)

\* The deny list first; an empty allow list lets everyone in.
check_ip_allowed(acl, ip) ==
  /\ \A i \in DOMAIN acl.deny : ~ip_matches(ip, acl.deny[i])
  /\ \/ acl.allow = <<>>
     \/ \E i \in DOMAIN acl.allow : ip_matches(ip, acl.allow[i])

-----------------------------------------------------------------------------
(* Basic authentication *)

b64index(d) == IF d = Pad THEN 0 ELSE d

Padding(in) ==
  IF in[Len(in)] # Pad THEN 0 ELSE IF in[Len(in) - 1] = Pad THEN 2 ELSE 1

\* A quad of digits as a number of 24 bits, and one of the three bytes of such a
\* number.
Quad(in, q) ==
  b64index(in[4 * q + 1]) * 262144 + b64index(in[4 * q + 2]) * 4096
    + b64index(in[4 * q + 3]) * 64 + b64index(in[4 * q + 4])

ByteOf(number, k) == (number \div <<65536, 256, 1>>[k + 1]) % 256

\* b64decode into the buffer out: three bytes of a quad, of which the third is left
\* out of EVERY quad when the text ends with "==", as many as there is room for, and a
\* NUL when there is room for one.  An empty text leaves the buffer as it was.
b64decode(in, out) ==
  IF in = <<>> THEN out
  ELSE LET per == IF Padding(in) = 2 THEN 2 ELSE 3
           n == (Len(in) \div 4) * per
       IN  [j \in 1..MaxCreds |->
              IF j <= n THEN ByteOf(Quad(in, (j - 1) \div per), (j - 1) % per)
              ELSE IF j = n + 1 THEN 0 ELSE out[j]]

\* strcmp of a buffer and a text that is shorter than the buffer.
SameText(buffer, text) ==
  (\A i \in 1..Len(text) : buffer[i] = text[i]) /\ buffer[Len(text) + 1] = 0

\* The header is "Basic " and a base64 text; out is what the stack holds where decoded
\* is placed, which is not initialized.
check_basic_auth(users, text, out) ==
  \E u \in users : SameText(b64decode(text, out), u)

-----------------------------------------------------------------------------
(* The references *)

\* The addresses a rule of the access list names: itself, when it is spelled the way the
\* program spells addresses, or the IPv4 addresses that share its first bits.
RuleNames(rule, ip) ==
  /\ rule # Junk /\ rule.v6 = ip.v6
  /\ IF rule.prefix = NULL THEN rule.ntop /\ rule.bits = ip.bits
     ELSE /\ ~rule.v6 /\ rule.prefix \in 0..Width
          /\ \A i \in 1..rule.prefix : ip.bits[i] = rule.bits[i]

\* The base64 text of a sequence of bytes, as a client encodes it: three bytes, or
\* what is left of them, are a number of 24 bits, written with four digits.
Triple(bytes, q) ==
  LET byte(k) == IF k <= Len(bytes) THEN bytes[k] ELSE 0
  IN  byte(3 * q + 1) * 65536 + byte(3 * q + 2) * 256 + byte(3 * q + 3)

DigitOf(number, k) == (number \div <<262144, 4096, 64, 1>>[k + 1]) % 64

Base64(bytes) ==
  LET quads == (Len(bytes) + 2) \div 3
      pad == quads * 3 - Len(bytes)
  IN  [d \in 1..(4 * quads) |->
         IF d > 4 * quads - pad THEN Pad
         ELSE DigitOf(Triple(bytes, (d - 1) \div 4), (d - 1) % 4)]
=============================================================================
