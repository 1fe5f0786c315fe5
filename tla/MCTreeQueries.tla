--------------------------- MODULE MCTreeQueries ---------------------------
(* Two records of different countries, one of them without a continent, and *)
(* one without a country.                                                   *)
EXTENDS TreeQueries

Records == {"us", "ca", "europe"}
Countries == [data \in Records |-> CASE data = "us" -> "US" [] data = "ca" -> "CA"
                                     [] OTHER -> "Unknown"]
Continents == [data \in Records |-> IF data = "ca" THEN "Unknown" ELSE data]
=============================================================================
