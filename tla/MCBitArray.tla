----------------------------- MODULE MCBitArray -----------------------------
(* The instance of BitArray that TLC checks: regions inside one word, from  *)
(* the start of a word, over a border, and over a whole word in between.    *)
EXTENDS BitArray

MCRegions == {<<1, 2>>, <<0, 4>>, <<2, 4>>, <<3, 6>>}

=============================================================================
