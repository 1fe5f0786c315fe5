---------------------------- MODULE IteratorDemo ----------------------------
(***************************************************************************)
(* What the functions of examples/iterator_demo.py compute from the        *)
(* networks that iterating a database yields.  ExamplePrograms has their   *)
(* readers and exceptions, NetworkIterator the iterator itself.            *)
(*                                                                         *)
(* The networks of an IPv6 tree below its IPv4 addresses are yielded as    *)
(* IPv4Network, as tests/maxmind/reader_test.py has it for a mixed         *)
(* database; a leaf above them is an IPv6Network, which contains no        *)
(* IPv4Address.                                                            *)
(*                                                                         *)
(* A record counts for its two codes only: the iso_code of its country and *)
(* the code of its continent.  A code that is there is not empty.          *)
(***************************************************************************)
EXTENDS SearchTree, Bags

CONSTANTS Data,          \* the records of a database
          Country,       \* the country of each record
          Continent,     \* and its continent
          US,            \* the United States
          Unknown,       \* the country or the continent of a record that has none
          None,          \* no record
          Limit,         \* of islice() and of the filter: 10, or 20 in export_to_csv
          MaxLeaves      \* bound on the size of a tree

ASSUME DemoAssumption ==
  /\ Limit \in Nat \ {0}
  /\ None \notin Data /\ US # Unknown
  /\ DOMAIN Country = Data /\ DOMAIN Continent = Data

VARIABLES todo,      \* the networks the iterator has left
          phase,     \* loop, over, raised
          printed,   \* the networks that are printed or written
          counter,   \* country_counter
          ipv4, ipv6, total,
          countries, continents   \* the codes met, each once

statistics == <<ipv4, ipv6, total, countries, continents>>
demo == <<todo, phase, printed, counter, statistics>>

Slices == {"basic_iteration", "export_to_csv"}
Functions == Slices \cup {"count_networks_by_country", "filter_networks",
                          "get_network_statistics", "search_for_network"}

Before(p, q) == \E k \in DOMAIN p \cap DOMAIN q :
                  p[k] < q[k] /\ \A j \in 1..(k - 1) : p[j] = q[j]

\* The members of a set of paths, in the order in which the tree is walked.
Rank(p, S) == Cardinality({q \in S : Before(q, p)}) + 1
InOrder(S) == [k \in 1..Cardinality(S) |-> CHOOSE p \in S : Rank(p, S) = k]

\* The networks with a record, in that order.
Recorded == {p \in Leaves : tree[p] # None}
Networks == InOrder(Recorded)

IsIPv4(p) == version = 4 \/ (Len(p) >= Padding /\ Agrees(Zeros, p))
ContainsAddress(p, a) == IsIPv4(p) /\ Agrees(p, Key(a))

\* A database to iterate, and target_ip of search_for_network().
DemoDatabase ==
  /\ query \in Functions
  /\ \E leaves \in Trees[Width(version)] :
       /\ Cardinality(leaves) <= MaxLeaves
       /\ tree \in [leaves -> Data \cup {None}]
  /\ ip \in IF query = "search_for_network" THEN Bits(V4Bits) ELSE {[i \in 1..V4Bits |-> 0]}

DemoInit == /\ todo = IF query \in Functions THEN Networks ELSE <<>>
            /\ phase = "loop" /\ printed = <<>> /\ counter = EmptyBag
            /\ ipv4 = 0 /\ ipv6 = 0 /\ total = 0
            /\ countries = {} /\ continents = {}

\* islice() does not ask for another network once it has given Limit of them.
Stops == todo = <<>> \/ (query \in Slices /\ Len(printed) = Limit)

\* A turn of the loop of one of the functions f.
Take(f) == /\ phase = "loop" /\ query \in f /\ ~Stops
           /\ todo' = Tail(todo)
           /\ UNCHANGED db
CountryCode == Country[tree[Head(todo)]]
ContinentCode == Continent[tree[Head(todo)]]
Write == printed' = Append(printed, Head(todo))
Break(condition) == IF condition THEN phase' = "over" ELSE UNCHANGED phase

Slice == /\ Take(Slices)
         /\ Write
         /\ UNCHANGED <<phase, counter, statistics>>

CountByCountry == /\ Take({"count_networks_by_country"})
                  /\ counter' = counter (+) SetToBag({CountryCode})
                  /\ UNCHANGED <<phase, printed, statistics>>

\* mutant: the limit is looked at for every network, before it is counted
FilterEarly == /\ Take({"filter_networks"})
               /\ IF CountryCode = US THEN Write ELSE UNCHANGED printed
               /\ Break(Len(printed) + 1 >= Limit)
               /\ UNCHANGED <<counter, statistics>>

Filter == /\ Take({"filter_networks"})
          /\ IF CountryCode = US THEN Write ELSE UNCHANGED printed
          /\ Break(Len(printed') >= Limit)
          /\ UNCHANGED <<counter, statistics>>

\* mutant: a network without a country is left before the rest is looked at
StatisticsSkip ==
  /\ Take({"get_network_statistics"})
  /\ total' = total + 1
  /\ IF CountryCode = Unknown
     THEN UNCHANGED <<ipv4, ipv6, countries, continents>>
     ELSE /\ IF IsIPv4(Head(todo)) THEN ipv4' = ipv4 + 1 /\ UNCHANGED ipv6
                                  ELSE ipv6' = ipv6 + 1 /\ UNCHANGED ipv4
          /\ countries' = countries \cup {CountryCode}
          /\ continents' = continents \cup ({ContinentCode} \ {Unknown})
  /\ UNCHANGED <<phase, printed, counter>>

Statistics ==
  /\ Take({"get_network_statistics"})
  /\ total' = total + 1
  /\ IF IsIPv4(Head(todo)) THEN ipv4' = ipv4 + 1 /\ UNCHANGED ipv6
                           ELSE ipv6' = ipv6 + 1 /\ UNCHANGED ipv4
  /\ continents' = continents \cup ({ContinentCode} \ {Unknown})
  /\ countries' = countries \cup ({CountryCode} \ {Unknown})
  /\ UNCHANGED <<phase, printed, counter>>

\* mutant: the else belongs to the if, so that the first network settles it
SearchFirst == /\ Take({"search_for_network"})
               /\ IF ContainsAddress(Head(todo), ip) THEN Write ELSE UNCHANGED printed
               /\ Break(TRUE)
               /\ UNCHANGED <<counter, statistics>>

Search == /\ Take({"search_for_network"})
          /\ IF ContainsAddress(Head(todo), ip) THEN Write ELSE UNCHANGED printed
          /\ Break(ContainsAddress(Head(todo), ip))
          /\ UNCHANGED <<counter, statistics>>

\* The end of the loop; search_for_network() prints "not found" in its else.
Exhausted == /\ query \in Functions /\ phase = "loop" /\ Stops
             /\ phase' = "over"
             /\ UNCHANGED <<db, todo, printed, counter, statistics>>

\* A network that cannot be decoded.
Raises == /\ query \in Functions /\ phase = "loop" /\ ~Stops
          /\ phase' = "raised"
          /\ UNCHANGED <<db, todo, printed, counter, statistics>>

DemoNext == Slice \/ CountByCountry \/ Filter \/ Statistics \/ Search \/ Exhausted \/ Raises

-----------------------------------------------------------------------------
FirstOf(s) == SubSeq(s, 1, IF Len(s) < Limit THEN Len(s) ELSE Limit)
Of(code) == {p \in Recorded : Country[tree[p]] = code}
Count(code) == IF BagIn(code, counter) THEN counter[code] ELSE 0

\* The first networks, or the first of the United States, are printed, in the order of the
\* database, and none more is taken from the iterator than that needs.
PrintsFirst ==
  /\ query \in Slices =>
       /\ printed \o todo = Networks
       /\ phase = "over" => printed = FirstOf(Networks)
  /\ query = "filter_networks" /\ phase = "over" =>
       /\ printed = FirstOf(InOrder(Of(US)))
       /\ todo # <<>> => printed[Len(printed)] = Networks[Len(Networks) - Len(todo)]

\* The statistics add up.  Each network is counted once for its country, or as Unknown; each
\* is IPv4 or IPv6 and counted as what it is; and the two sets, of which the sizes are
\* printed, are exactly the countries and the continents that some network has, whichever
\* of the two the records lack.
StatisticsAddUp ==
  phase = "over" =>
    /\ query = "count_networks_by_country" =>
         \A code \in {Country[data] : data \in Data} : Count(code) = Cardinality(Of(code))
    /\ query = "get_network_statistics" =>
         /\ total = Len(Networks) /\ ipv4 + ipv6 = total
         /\ ipv4 = Cardinality({p \in Recorded : IsIPv4(p)})
         /\ countries = {Country[tree[p]] : p \in Recorded} \ {Unknown}
         /\ continents = {Continent[tree[p]] : p \in Recorded} \ {Unknown}

\* Searching the networks for an IPv4 address finds what get() finds, and says "not found"
\* of an address for which get() has no record, as long as the answer is a network of IPv4
\* addresses.  An IPv6 tree may also answer them all by one leaf above their node: that
\* network is an IPv6Network, and the search says "not found" whatever get() finds.
SearchAgreesWithGet ==
  query = "search_for_network" /\ phase = "over" =>
    LET leaf == LeafOf(ip)
    IN  /\ version = 4 \/ Len(leaf) >= Padding =>
             printed = IF tree[leaf] = None THEN <<>> ELSE <<leaf>>
        /\ version = 6 /\ Len(leaf) < Padding => printed = <<>>
=============================================================================
