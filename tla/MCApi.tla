--------------------------------- MODULE MCApi ---------------------------------
(* A small instance of Api for TLC: a POST, its retry or any read, and one  *)
(* more client with a key of the table, an unknown one, or none.            *)
EXTENDS Api

CONSTANTS r1, r2, r3, k1

Offer(endpoints, credentials, keys) ==
  [endpoint : endpoints, credential : credentials, key : keys]

PostRetryAndRead(r) ==
  CASE r = r1 -> Offer({"ingest", "backfill"}, {"env"}, {k1})
    [] r = r2 -> Offer(Posts, {"env"}, {k1}) \cup Offer(Endpoint \ Posts, {"env"}, {NoKey})
                   \cup Offer({"topics"}, {"db", "bad"}, {NoKey})
    [] r = r3 -> Offer({"universes"}, {"env"}, {NoKey})
=============================================================================
