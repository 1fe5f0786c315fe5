---------------------------- MODULE PathElements ----------------------------
(***************************************************************************)
(* How a Python path becomes PathElements (src/src/path.rs): parse_path,   *)
(* path_tuple_matches_owned, which decides whether a cached path stands    *)
(* for a tuple, and the index arithmetic that both share.                  *)
(*                                                                         *)
(* An item of a path is a string (named by its text, or not encodable as   *)
(* UTF-8), a bool, an integer of any size, or something else.  isize has   *)
(* the values -Half..Half-1 and usize the values 0..2*Half-1, so 64-bit    *)
(* code is Half = 2^63.                                                    *)
(*                                                                         *)
(* The two functions do not read a tuple the same way.  parse_path calls   *)
(* iter() on it, while path_tuple_matches_owned reads the items the tuple  *)
(* holds.  For an exact tuple that is the same sequence; an instance of a  *)
(* subclass (get_or_parse_path lets those in) may have an __iter__ of its  *)
(* own that yields anything else.                                          *)
(***************************************************************************)
EXTENDS Integers, Sequences

CONSTANTS Half,    \* 2^(w-1) for integers of w bits
          Text,    \* the strings that occur as keys
          Path,    \* the items that the tuples hold
          Walk     \* what the __iter__ of a subclass may yield instead

ASSUME HalfAssumption == Half \in Nat \ {0}

ISize == -Half .. Half - 1
USize == 0 .. 2 * Half - 1

Item == [kind : {"str"}, value : Text] \cup [kind : {"int"}, value : Int]
          \cup {[kind |-> k] : k \in {"surrogate", "bool", "other"}}

ASSUME PathAssumption == Path \cup Walk \subseteq Seq(Item)

Key(s)          == [element |-> "Key", value |-> s]
Index(n)        == [element |-> "Index", value |-> n]
IndexFromEnd(n) == [element |-> "IndexFromEnd", value |-> n]

OwnedPathElement == [element : {"Key"}, value : Text]
                      \cup [element : {"Index", "IndexFromEnd"}, value : USize]

\* The result of parsing an item that is neither a string nor an integer that fits.
Invalid == [element |-> "Invalid"]

\* checked_neg fails on isize::MIN only, and then the index is usize::MAX.
FromSignedWraps(n) ==    \* mutant: wrapping_neg and a cast
  IF n >= 0 THEN Index(n)
  ELSE IndexFromEnd(IF n = -Half THEN 0 ELSE -n - 1)
FromSigned(n) ==
  IF n >= 0 THEN Index(n)
  ELSE IndexFromEnd(IF n = -Half THEN 2 * Half - 1 ELSE -n - 1)

\* One turn of parse_path's loop: isize is tried before usize.
ParseItem(item) ==
  CASE item.kind = "str" -> Key(item.value)
    [] item.kind = "int" /\ item.value \in ISize -> FromSigned(item.value)
    [] item.kind = "int" /\ item.value \in USize \ ISize -> Index(item.value)
    [] OTHER -> Invalid

\* The comparison of an item with an element of a cached path: each kind of element
\* extracts the integer at its own width.
MatchItem(item, e) ==
  CASE e.element = "Key"          -> item.kind = "str" /\ item.value = e.value
    [] e.element = "Index"        -> /\ item.kind = "int" /\ item.value \in USize
                                     /\ item.value = e.value
    [] e.element = "IndexFromEnd" -> /\ item.kind = "int" /\ item.value \in ISize
                                     /\ FromSigned(item.value) = e

\* path_tuple_matches_owned: held are the tuple's own items, whatever its __iter__ yields.
MatchPrefix(held, cached) ==   \* mutant: zip without the comparison of the lengths
  \A k \in DOMAIN held \cap DOMAIN cached : MatchItem(held[k], cached[k])
Matches(held, cached) ==
  /\ Len(held) = Len(cached)
  /\ \A k \in DOMAIN held : MatchItem(held[k], cached[k])

-----------------------------------------------------------------------------
(* parse_path: one item per step *)

VARIABLES items,    \* the items that the caller's tuple holds
          path,     \* what iterating over it yields
          owned,    \* owned_path
          outcome   \* "parsing", "parsed" or "error"

parse == <<items, path, owned, outcome>>

ParseInit == /\ items \in Path
             /\ path \in {items} \cup Walk
             /\ owned = <<>>
             /\ outcome = "parsing"

ParseNext ==
  /\ outcome = "parsing" /\ Len(owned) < Len(path)
  /\ LET e == ParseItem(path[Len(owned) + 1]) IN
       IF e = Invalid
       THEN outcome' = "error" /\ UNCHANGED owned
       ELSE owned' = Append(owned, e) /\ UNCHANGED outcome
  /\ UNCHANGED <<items, path>>

ParseEnd ==
  /\ outcome = "parsing" /\ Len(owned) = Len(path)
  /\ outcome' = "parsed"
  /\ UNCHANGED <<items, path, owned>>

ParseStep == ParseNext \/ ParseEnd

ParseSpec == ParseInit /\ [][ParseStep]_parse

-----------------------------------------------------------------------------
(* Properties *)

\* Every variable has its type, and no element comes from nowhere.
ParseTypeOK ==
  /\ items \in Seq(Item) /\ path \in Seq(Item)
  /\ owned \in Seq(OwnedPathElement) /\ Len(owned) <= Len(path)
  /\ outcome \in {"parsing", "parsed", "error"}

\* What an element of a path selects from an array of len elements, an offset from 0 or
\* none: the crate's rule for PathElement, and Python's rule for a subscript.
NoElement == -1
Selected(e, len) ==
  CASE e.element = "Index"        -> IF e.value < len THEN e.value ELSE NoElement
    [] e.element = "IndexFromEnd" -> IF e.value < len THEN len - 1 - e.value ELSE NoElement
Subscript(n, len) ==
  IF n \in 0 .. len - 1 THEN n ELSE IF n < 0 /\ n + len >= 0 THEN n + len ELSE NoElement

\* The path that a sequence of items stands for.
StandsFor(sequence, cached) ==
  /\ Len(cached) = Len(sequence)
  /\ \A k \in DOMAIN sequence : cached[k] = ParseItem(sequence[k])

\* A hit by contents gives a tuple the path that its own items stand for, and no tuple
\* with an item that does not parse has a hit.  Where iterating over the tuple yields its
\* own items, as for every exact tuple, that is what parsing it would have given, so the
\* cache neither answers with another path nor hides a TypeError.  Nothing of the kind is
\* said of a subclass whose __iter__ yields something else: there a hit is still the path
\* of the items held, and parsing may give another path or the TypeError that it hides.
HitIsParse ==
  outcome # "parsing" =>
    \A n \in 0 .. Len(items) : \A cached \in [1 .. n -> OwnedPathElement] :
      /\ Matches(items, cached) <=> StandsFor(items, cached)
      /\ path = items =>
           (Matches(items, cached) <=> outcome = "parsed" /\ cached = owned)

\* Every integer a Python program can write selects from every array the element that
\* Python's own subscript selects, the most negative isize included.
IndexIsSubscript ==
  \A k \in DOMAIN owned, len \in 0 .. Half - 1 :
    path[k].kind = "int" => Selected(owned[k], len) = Subscript(path[k].value, len)
=============================================================================
