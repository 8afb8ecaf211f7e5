------------------------------- MODULE MCRateLimit -------------------------------
(* Small instances of RateLimit for TLC. *)
EXTENDS RateLimit, TLC

CONSTANTS k1, k2, r1, r2, r3, r4, r5, r6, r7

Call(k, path, ids) == {[key |-> k, path |-> path, id |-> i] : i \in ids}

(* More requests of each kind of one client than its limit, and one        *)
(* request of another client.                                              *)
Mixed == Call(k1, "default", {r1, r2, r3}) \cup Call(k1, "research", {r4})
         \cup Call(k1, "stream", {r5, r6, r7}) \cup Call(k2, "default", {r4})

Alike == Permutations({r1, r2, r3}) \cup Permutations({r5, r6, r7})
=============================================================================
