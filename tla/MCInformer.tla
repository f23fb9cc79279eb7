----------------------------- MODULE MCInformer -----------------------------
(* The informer with a nil deltaCompressor, as all its callers create it.  *)
EXTENDS Informer

NilCompressor(ds) == ds
=============================================================================
