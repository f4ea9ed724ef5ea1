---------------------------- MODULE FileDelivery ----------------------------
(***************************************************************************)
(* What a transfer of one file promises, whatever the network does: the    *)
(* receiver's copy grows by the next block of the source and by nothing    *)
(* else, the receiver reports completion only when it holds every block,   *)
(* and the transmitter holds a confirmation of the last block only after   *)
(* that.  Transfer implements this specification.                          *)
(***************************************************************************)
EXTENDS Naturals, Sequences

CONSTANT LastBlock     \* number of blocks of the source file, at least 1

VARIABLES
  delivered,           \* blocks of the receiver's copy, in the order written
  receiver,            \* what the receiving side has reported so far
  confirmed            \* the transmitter saw the last block acknowledged

vars == <<delivered, receiver, confirmed>>

Init ==
  /\ delivered = <<>>
  /\ receiver = "active"
  /\ confirmed = FALSE

\* The next block of the source reaches the copy; the last one completes it.
Deliver ==
  /\ receiver = "active"
  /\ Len(delivered) < LastBlock
  /\ delivered' = Append(delivered, Len(delivered) + 1)
  /\ receiver' = IF Len(delivered) + 1 = LastBlock THEN "complete" ELSE "active"
  /\ UNCHANGED confirmed

\* The receiving side gives up; what it holds stays a prefix of the source.
GiveUp ==
  /\ receiver = "active"
  /\ receiver' = "failed"
  /\ UNCHANGED <<delivered, confirmed>>

\* The transmitter learns that the last block has arrived.
Confirm ==
  /\ receiver = "complete"
  /\ confirmed' = TRUE
  /\ UNCHANGED <<delivered, receiver>>

Next == Deliver \/ GiveUp \/ Confirm

Spec == Init /\ [][Next]_vars
=============================================================================
