---------------------------- MODULE MCBloomFilter ----------------------------
(* Hash words for two items, 4 bits wide.  e1's third hash wraps past 2^W, *)
(* and e2's SHA-256 prefix is 0, so all its k positions coincide and lie   *)
(* among e1's: after e1 is added, both filters report e2 (a false          *)
(* positive).                                                              *)
EXTENDS BloomFilter, TLC

CONSTANTS e1, e2

MCElems == {e1, e2}
MCHash1 == e1 :> 13 @@ e2 :> 9
MCHash2 == e1 :> 7 @@ e2 :> 0
MCLocalHash == e1 :> (0 :> 5 @@ 1 :> 6 @@ 2 :> 7) @@ e2 :> (0 :> 1 @@ 1 :> 9 @@ 2 :> 2)

=============================================================================
