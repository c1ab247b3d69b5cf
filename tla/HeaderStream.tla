----------------------------- MODULE HeaderStream -----------------------------
(***************************************************************************)
(* What header compression promises to the session: the blocks arrive in   *)
(* the order in which they were sent, each with the fields it was sent     *)
(* with.  The receiver may ignore a block (its stream is gone, or the      *)
(* application wants no more of it), never misread or lose one.            *)
(***************************************************************************)
EXTENDS Sequences

CONSTANT Blocks

VARIABLES pending,   (* the blocks that are under way                       *)
          latest     (* the block that was delivered last                   *)

StreamInit == pending = <<>> /\ latest = <<>>

Send == \E b \in Blocks : pending' = Append(pending, b) /\ UNCHANGED latest

Deliver == /\ pending # <<>>
           /\ latest'  = Head(pending)
           /\ pending' = Tail(pending)

Ignore == /\ pending # <<>>
          /\ pending' = Tail(pending)
          /\ UNCHANGED latest

StreamNext == Send \/ Deliver \/ Ignore

StreamSpec == StreamInit /\ [][StreamNext]_<<pending, latest>>
=============================================================================
