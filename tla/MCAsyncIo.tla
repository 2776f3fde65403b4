------------------------------ MODULE MCAsyncIo ------------------------------
(***************************************************************************)
(* The instance of AsyncIo for TLC: a ring of four descriptors, pieces of  *)
(* at most two bytes, and two calls.  Either may be short or as long as    *)
(* the ring; one may have a long and a ring-filling segment, the other two *)
(* short ones or nothing.                                                  *)
(***************************************************************************)
EXTENDS AsyncIo, TLC

CONSTANTS c1, c2

MCBrings ==
  c1 :> {<< <<3>> >>, << <<4, 3>> >>, << <<5>>, <<4, 3>> >>} @@
  c2 :> {<< <<3>> >>, << <<4, 3>> >>, << <<1>>, <<1>> >>, << <<0>> >>}
=============================================================================
