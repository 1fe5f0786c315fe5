----------------------------- MODULE Ipv4Parser -----------------------------
(***************************************************************************)
(* parse_ipv4_string (src/src/ip.rs): the fast path every string address   *)
(* goes through, one byte per step, and the strict dotted-decimal syntax   *)
(* it is meant to accept.  What it rejects goes to the standard library's  *)
(* parser; what it accepts does not, so that it must accept nothing else.  *)
(*                                                                         *)
(* A digit is its number; Dot is the byte `.`, Other any other byte.  The  *)
(* text is not chosen beforehand: it is what has been read of it.          *)
(***************************************************************************)
EXTENDS Integers, Sequences, FiniteSets, FiniteSetsExt

CONSTANTS Digit,  \* the digits that occur, of 0..9
          Dot, Other,
          Last    \* the index of the last octet, 3

ASSUME ByteAssumption == Digit \subseteq 0 .. 9 /\ Dot \notin Int /\ Other \notin Int /\ Dot # Other
ASSUME LastAssumption == Last \in Nat

Byte  == Digit \cup {Dot, Other}
Octet == 0 .. 255

VARIABLES text,     \* the bytes read
          octets,   \* octets[0 .. octet_index), the octets stored
          value, digits,
          outcome   \* "reading"; None, in the loop or after it; or the address

vars == <<text, octets, value, digits, outcome>>

Outcome == {"reading", "rejected", "incomplete", "address"}

Init == /\ text = <<>> /\ octets = <<>>
        /\ value = 0 /\ digits = 0
        /\ outcome = "reading"

\* value * 10 + digit, a u16.
Grown(d) == (value * 10 + d) % 65536

\* The early returns of the loop.
RejectsNoZeros(b) ==    \* mutant: leading zeros are let through
  IF b = Dot
  THEN digits = 0 \/ Len(octets) = Last
  ELSE b \in Digit => digits + 1 > 3 \/ Grown(b) > 255
RejectsLarge(b) ==      \* mutant: the check of the size is forgotten
  IF b = Dot
  THEN digits = 0 \/ Len(octets) = Last
  ELSE b \in Digit => (digits = 1 /\ value = 0) \/ digits + 1 > 3
Rejects(b) ==
  IF b = Dot
  THEN digits = 0 \/ Len(octets) = Last
  ELSE b \in Digit => (digits = 1 /\ value = 0) \/ digits + 1 > 3 \/ Grown(b) > 255

\* `octets[octet_index] = value as u8`.
Stored == Append(octets, value % 256)

Read(b) ==
  /\ outcome = "reading"
  /\ text' = Append(text, b)
  /\ \/ /\ Rejects(b)
        /\ outcome' = "rejected"
        /\ UNCHANGED <<octets, value, digits>>
     \/ /\ ~Rejects(b) /\ b = Dot
        /\ octets' = Stored
        /\ value' = 0 /\ digits' = 0
        /\ UNCHANGED outcome
     \/ /\ ~Rejects(b) /\ b \in Digit
        /\ value' = Grown(b)
        /\ digits' = digits + 1
        /\ UNCHANGED <<octets, outcome>>

\* The text is over.
End ==
  /\ outcome = "reading"
  /\ IF Len(octets) # Last \/ digits = 0
     THEN outcome' = "incomplete" /\ UNCHANGED octets
     ELSE outcome' = "address" /\ octets' = Stored
  /\ UNCHANGED <<text, value, digits>>

Next == End \/ \E b \in Byte : Read(b)
Spec == Init /\ [][Next]_vars

-----------------------------------------------------------------------------
(* The syntax *)

Decimal(n) ==
  IF n < 10 THEN <<n>>
  ELSE IF n < 100 THEN <<n \div 10, n % 10>>
  ELSE <<n \div 100, (n \div 10) % 10, n % 10>>
DecimalOctets == {Decimal(n) : n \in Octet}

Dots(s) == {k \in DOMAIN s : s[k] = Dot}

\* What stands between the n-th dot and the next, counting from 0.
Field(s, n) ==
  LET ks == {k \in DOMAIN s \ Dots(s) : Cardinality({j \in Dots(s) : j < k}) = n}
  IN IF ks = {} THEN <<>> ELSE SubSeq(s, Min(ks), Max(ks))

IsAddress(s) ==
  Cardinality(Dots(s)) = Last /\ \A n \in 0 .. Last : Field(s, n) \in DecimalOctets

\* The beginning of an address.
Begins(s) ==
  LET n == Cardinality(Dots(s)) IN
    /\ n <= Last
    /\ \A k \in 0 .. n - 1 : Field(s, k) \in DecimalOctets
    /\ Field(s, n) \in DecimalOctets \cup {<<>>}

-----------------------------------------------------------------------------
(* Properties *)

\* Every variable has its type, and the arithmetic stays in bounds on every text: the u16
\* does not wrap, the cast to u8 loses nothing, no octet is stored outside the array.
TypeOK ==
  /\ text \in Seq(Byte)
  /\ octets \in Seq(Octet)
  /\ Len(octets) <= IF outcome = "address" THEN Last + 1 ELSE Last
  /\ value \in 0 .. 255 /\ digits \in 0 .. 3
  /\ outcome \in Outcome

\* The fast path accepts a text exactly if it is an address in strict dotted decimal (the
\* texts that "std parser rejects" included), it gives up on a text only when no
\* continuation could make it one, and the octets are the numbers written.
AcceptsExactly ==
  /\ outcome = "reading"    => Begins(text)
  /\ outcome = "rejected"   => ~Begins(text)
  /\ outcome = "incomplete" => ~IsAddress(text)
  /\ outcome = "address"    =>
       /\ IsAddress(text)
       /\ \A n \in 0 .. Last : Field(text, n) = Decimal(octets[n + 1])
=============================================================================
