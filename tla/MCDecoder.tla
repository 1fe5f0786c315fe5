------------------------------ MODULE MCDecoder ------------------------------
(* Records with maps in maps, lists of maps, an entry given twice, a key that is *)
(* not UTF-8 before and after others, and data that cannot be read.              *)
EXTENDS Decoder, FiniteSetsExt

Records ==
  {Map(<<>>),
   Map(<<<<"a", Scalar(1)>>, <<"b", Scalar(2)>>, <<"c", Scalar(3)>>>>),
   Map(<<<<"c", Map(<<<<"c", Scalar(1)>>>>)>>, <<"a", List(<<Map(<<<<"b", Scalar(2)>>>>)>>)>>>>),
   Map(<<<<"a", Scalar(1)>>, <<"a", List(<<>>)>>>>),
   Map(<<<<"b", Scalar(1)>>, <<"bad", Map(<<<<"a", Scalar(2)>>>>)>>, <<"c", Scalar(3)>>>>),
   Map(<<<<"bad", Scalar(1)>>>>),
   Map(<<<<"a", Map(<<<<"b", Unreadable>>>>)>>>>)}

\* What is directly inside a part.
Inside(r) == CASE r.kind = "list" -> {r.items[k] : k \in DOMAIN r.items}
               [] r.kind = "map"  -> {r.items[k][2] : k \in DOMAIN r.items}
               [] OTHER           -> {}

RECURSIVE PartsOf(_), DepthOf(_)
PartsOf(r) == {r} \cup UNION {PartsOf(q) : q \in Inside(r)}
DepthOf(r) == IF Inside(r) = {} THEN 0 ELSE 1 + Max({DepthOf(q) : q \in Inside(r)})

Parts == UNION {PartsOf(r) : r \in Records}
Depths == [r \in Parts |-> DepthOf(r)]
=============================================================================
