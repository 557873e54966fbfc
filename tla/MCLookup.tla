------------------------------ MODULE MCLookup ------------------------------
(* Instances of Lookup: two sounds that do not both fit into the cache.    *)
EXTENDS Lookup

TwoSounds == {"a", "b"}
SizesTwo == [s \in TwoSounds |-> IF s = "a" THEN 1 ELSE 2]
=============================================================================
