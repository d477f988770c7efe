--------------------------- MODULE MCSemanticIndex ---------------------------
(* Small instances of SemanticIndex for TLC. *)
EXTENDS SemanticIndex, TLC

CONSTANTS p, q, quantized, portable, lesson, chunk, chunk2

(* q's setup came away with the portable artifact. *)
TwoBuilds == p :> {quantized} @@ q :> {portable}

TwoReaders == p :> {quantized, portable} @@ q :> {portable}

(* A memory, and a document whose one chunk is replaced. *)
TwoPools == lesson :> 1 @@ chunk :> 2 @@ chunk2 :> 2

Reobserved == lesson :> {} @@ chunk :> {} @@ chunk2 :> {chunk}
=============================================================================
