------------------------ MODULE MCCompletionReducer ------------------------
(* CompletionReducer with two requests, one of which arrives later. *)
EXTENDS CompletionReducer, TLC

CONSTANTS r1, r2

MCArrival == r1 :> 0 @@ r2 :> 1
=============================================================================
