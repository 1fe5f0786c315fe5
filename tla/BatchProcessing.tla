-------------------------- MODULE BatchProcessing --------------------------
(***************************************************************************)
(* What the functions of examples/batch_processing.py compute: the sample  *)
(* addresses, the chunks they are looked up in, the pairing of addresses   *)
(* with results, and the counts.                                           *)
(*                                                                         *)
(* get_many() is one step: a result for each address in order, or an       *)
(* exception (module Reader has its own steps).                            *)
(***************************************************************************)
EXTENDS Integers, SequencesExt, Bags

CONSTANTS Address,        \* sample_ips, or the addresses of the log
          Record,         \* records with a country and a city
          Empty, None,    \* a record without fields, no record
          Corrupt,        \* a record that cannot be decoded
          MaxCount,       \* how many addresses are generated, at most
          MaxChunk        \* chunk_size, at most

ASSUME BatchAssumption == /\ Address \in Seq(Range(Address)) \ {<<>>}
                          /\ MaxCount \in Nat /\ MaxChunk \in Nat \ {0}

VARIABLES fn,             \* the function that runs
          geo,            \* the database: a result for each address
          count,          \* how many addresses are wanted
          chunk_size,
          phase,          \* generate, look up, read the results, over, raised
          ips,
          asked,          \* the addresses that were passed to get_many() so far
          results,        \* results not read yet
          total,          \* total_processed
          lines,          \* what is printed for each chunk or address
          countries, cities

db == <<fn, geo, count, chunk_size>>
batch == <<db, phase, ips, asked, results, total, lines, countries, cities>>

Zips == {"basic_batch_lookup", "process_log_file_simulation"}
Generates == {"aggregate_statistics", "chunked_batch_processing"}
Results == Record \cup {Empty, None}
Truthy(r) == r \in Record

BatchInit == /\ fn \in Zips \cup Generates
             /\ geo \in [Range(Address) -> Results \cup {Corrupt}]
             /\ count \in IF fn \in Generates THEN 0..MaxCount ELSE {Len(Address)}
             /\ chunk_size \in IF fn = "chunked_batch_processing" THEN 1..MaxChunk ELSE {1}
             /\ phase = "generate" /\ ips = <<>> /\ asked = <<>> /\ results = <<>> /\ total = 0
             /\ lines = <<>> /\ countries = EmptyBag /\ cities = EmptyBag

\* generate_sample_ips(), or the list in the text.
Generate == /\ phase = "generate"
            /\ IF Len(ips) < count
               THEN ips' = ips \o Address /\ UNCHANGED phase
               ELSE ips' = SubSeq(ips, 1, count) /\ phase' = "look up"
            /\ UNCHANGED <<db, asked, results, total, lines, countries, cities>>

Answer(s) == [k \in DOMAIN s |-> geo[s[k]]]
Fails(s) == \E k \in DOMAIN s : geo[s[k]] = Corrupt

\* reader.get_many(ips)
LookUpAll == /\ phase = "look up" /\ fn # "chunked_batch_processing"
             /\ asked' = ips
             /\ IF Fails(ips) THEN phase' = "raised" /\ UNCHANGED results
                              ELSE phase' = "read" /\ results' = Answer(ips)
             /\ UNCHANGED <<db, ips, total, lines, countries, cities>>

\* mutant: addresses without a result are left out before the pairing
ZipFound == /\ phase = "read" /\ fn \in Zips
            /\ LET found == SelectSeq(results, Truthy)
               IN  lines' = [k \in 1..Len(found) |-> <<ips[k], found[k].country>>]
            /\ results' = <<>> /\ phase' = "over"
            /\ UNCHANGED <<db, ips, asked, total, countries, cities>>

\* for log_entry, _ip, geo_data in zip(log_entries, ips, results)
Zipped == /\ phase = "read" /\ fn \in Zips
          /\ lines' = [k \in DOMAIN results |->
               <<ips[k], IF Truthy(results[k]) THEN results[k].country ELSE "??">>]
          /\ results' = <<>> /\ phase' = "over"
          /\ UNCHANGED <<db, ips, asked, total, countries, cities>>

\* The loop of aggregate_statistics().
Count ==
  /\ phase = "read" /\ fn = "aggregate_statistics"
  /\ IF results = <<>> THEN phase' = "over" /\ UNCHANGED <<results, countries, cities>>
     ELSE LET r == Head(results) IN
          /\ results' = Tail(results)
          /\ countries' = IF Truthy(r) THEN countries (+) SetToBag({r.country}) ELSE countries
          /\ cities' = IF Truthy(r) THEN cities (+) SetToBag({r.city}) ELSE cities
          /\ UNCHANGED phase
  /\ UNCHANGED <<db, ips, asked, total, lines>>

\* i of range(0, len(all_ips), chunk_size), as many steps as chunks were asked for.
Start == Len(lines) * chunk_size

\* mutant: a chunk takes the first address of the next one
ChunkLong == SubSeq(ips, Start + 1, Min({Start + chunk_size + 1, Len(ips)}))

Chunk == SubSeq(ips, Start + 1, Min({Start + chunk_size, Len(ips)}))

TotalChunks == (Len(ips) + chunk_size - 1) \div chunk_size

\* One turn of the loop of chunked_batch_processing(), or its end.
NextChunk ==
  /\ phase = "look up" /\ fn = "chunked_batch_processing"
  /\ IF Start >= Len(ips) THEN phase' = "over" /\ UNCHANGED <<asked, total, lines>>
     ELSE /\ asked' = asked \o Chunk
          /\ IF Fails(Chunk) THEN phase' = "raised" /\ UNCHANGED <<total, lines>>
             ELSE /\ total' = total + Len(Answer(Chunk))
                  /\ lines' = Append(lines, <<(Start \div chunk_size) + 1, TotalChunks>>)
                  /\ UNCHANGED phase
  /\ UNCHANGED <<db, ips, results, countries, cities>>

BatchNext == Generate \/ LookUpAll \/ Zipped \/ Count \/ NextChunk

BatchSpec == BatchInit /\ [][BatchNext]_batch

-----------------------------------------------------------------------------
\* generate_sample_ips(count) returns count addresses, the samples over and over, and every
\* one is looked up once and in order, whatever the chunk size, the last short chunk
\* included; total_processed is the number of results received, and "Processed chunk k/n"
\* counts from 1, never beyond n, to n.
EachAskedOnce ==
  /\ phase # "generate" =>
       ips = [k \in 1..count |-> Address[((k - 1) % Len(Address)) + 1]]
  /\ IsPrefix(asked, ips)
  /\ phase = "over" => asked = ips
  /\ fn = "chunked_batch_processing" =>
       /\ phase # "raised" => total = Len(asked)
       /\ \A k \in DOMAIN lines : lines[k][1] = k /\ k <= lines[k][2]
       /\ phase = "over" /\ lines # <<>> => Last(lines)[1] = Last(lines)[2]

\* The addresses with data among the first n, and how often each value occurs.
Found(n) == {k \in 1..n : Truthy(geo[ips[k]])}
Tally(value) == [v \in Range(value) |-> Cardinality({k \in DOMAIN value : value[k] = v})]

\* Each address or log entry is printed with the country of its own record, and every
\* country and city of the addresses with data is counted, as often as it occurs, and no
\* other: so both counts add up to these addresses.
OutputIsOfTheDatabase ==
  phase = "over" =>
    /\ fn \in Zips =>
         lines = [k \in 1..count |->
                    <<ips[k], IF k \in Found(count) THEN geo[ips[k]].country ELSE "??">>]
    /\ fn = "aggregate_statistics" =>
         /\ countries = Tally([k \in Found(count) |-> geo[ips[k]].country])
         /\ cities = Tally([k \in Found(count) |-> geo[ips[k]].city])
=============================================================================
