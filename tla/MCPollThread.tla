---------------------------- MODULE MCPollThread ----------------------------
(***************************************************************************)
(* The instance of PollThread for TLC: an engine with a blocking caller    *)
(* and one with two aio transfers, which may fail, share one thread.       *)
(***************************************************************************)
EXTENDS PollThread, TLC

CONSTANTS e1, e2, x1, y1, y2

MCEngineOf == (x1 :> e1) @@ (y1 :> e2) @@ (y2 :> e2)
MCDescNum  == (x1 :> 1) @@ (y1 :> 2) @@ (y2 :> 1)
=============================================================================
