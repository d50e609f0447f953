--------------------- MODULE MCConnectionCircuitBreaker ---------------------
(* Instances of ConnectionCircuitBreaker for TLC.  There are always enough *)
(* breaker objects for getOrCreate: those in the cache, those held by      *)
(* calls, and one more.                                                    *)
EXTENDS ConnectionCircuitBreaker

=============================================================================
