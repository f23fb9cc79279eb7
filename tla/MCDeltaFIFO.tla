---------------------------- MODULE MCDeltaFIFO ----------------------------
(* DeltaFIFO with a compressor that drops an object's whole life (added,   *)
(* then deleted) while it waits in the queue, so that items can empty.     *)
EXTENDS DeltaFIFOClients

DropCompleteLife(ds) ==
  IF Head(ds).type = "Added" /\ Last(ds).type = "Deleted" THEN <<>> ELSE ds
=============================================================================
