----------------------------- MODULE MCPipeline -----------------------------
(***************************************************************************)
(* Two workers and three flows, two of which share a worker.  Each queue   *)
(* holds one packet, so that every push can find its queue full.           *)
(***************************************************************************)
EXTENDS Pipeline, TLC

CONSTANTS f1, f2, f3, other

MCTuples == {f1, f2, f3}
MCHash == f1 :> 0 @@ f2 :> 3 @@ f3 :> 5
MCCapture == <<f1, f2, other, f1, f3, f2, f1>>
MCSmallCapture == <<f1, f2, f2, f1>>

=============================================================================
