---------------------------- MODULE MCPublication ----------------------------
(* The model-checking instance of Publication: what three builds document.  *)
EXTENDS Publication

CONSTANTS listing, stream

\* The listing of the streams, which every build has, and a stream that only
\* builds 0 and 1 hold: a newer build need not rewrite all an older one did.
TwoChains == [b \in Builds |-> IF b = 2 THEN <<listing>> ELSE <<listing, stream>>]
=============================================================================
