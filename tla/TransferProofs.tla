--------------------------- MODULE TransferProofs ---------------------------
(***************************************************************************)
(* Theorems about Transfer for every file length, block size, retry limit, *)
(* number of duplicates, byte order and set of environment faults.         *)
(*                                                                         *)
(* The argument: the transmitter never runs more than MaxAge blocks ahead  *)
(* of the receiver (Window), because it moves on only after a reply and no *)
(* reply is older than that.  Hence the blocks that can meet in a compari- *)
(* son of wrapped block numbers are less than BlockMod apart, and equal    *)
(* numbers mean equal blocks (WireInjective).                              *)
(***************************************************************************)
EXTENDS Transfer, FiniteSets, FiniteSetTheorems, TLAPS

RxActive == rx.pc \in {"check", "recv"}

\* The block that ends the transfer: that of the file, unless fread() returned
\* a part of an earlier one.
LastSent == IF tx.cut = 0 THEN LastBlock ELSE tx.cut

\* Every packet in flight speaks of a block that was sent or written, the
\* transmitter does not read past the end of the source, and it waits only
\* within the loop over resend_counter.
Positions ==
  /\ \A p \in net : p.type = "DATA" => p.n <= tx.n
  /\ \A p \in net : p.type = "ACK" => p.n <= Len(file)
  /\ Len(file) <= tx.n
  /\ tx.cut \in {0, tx.n}
  /\ tx.pc = "next" => tx.n <= FullBlocks /\ tx.cut = 0
  /\ tx.pc \in {"send", "wait"} => tx.n >= 1 /\ tx.resend < MaxRetry

\* While the receiver can still write, the transmitter is at most MaxAge
\* blocks ahead, and fewer when it is about to take another block.
Window ==
  /\ RxError \in net => ~ RxActive
  /\ RxActive => tx.n <= Len(file) + MaxAge
  /\ RxActive /\ tx.pc = "next" => tx.n < Len(file) + MaxAge

\* What each side has reported matches what is written.
Outcomes ==
  /\ RxActive => rx.result = "none"
  /\ rx.result = "complete" <=> Len(file) = LastSent
  /\ tx.result = "acked" => Len(file) = LastSent

IInv == TypeOK /\ Positions /\ Window /\ Outcomes /\ FileInOrder

-----------------------------------------------------------------------------

\* Multiplication by BlockMod, in the two forms the arithmetic needs.
LEMMA BlockModTimes ==
  /\ \A q \in Int : q >= 1 => BlockMod * q >= BlockMod
  /\ \A q \in Int : q <= -1 => BlockMod * q <= -BlockMod
  /\ \A q, r \in Int : BlockMod * q - BlockMod * r = BlockMod * (q - r)
BY TransferAssumption

\* Blocks less than BlockMod apart have different numbers on the wire: the
\* 16-bit comparison in both loops is exact within that distance.
LEMMA WireInjective ==
  ASSUME NEW i \in Nat, NEW j \in Nat,
         i - j < BlockMod, j - i < BlockMod,
         Wire(i) = Wire(j)
  PROVE  i = j
<1> DEFINE q == i \div BlockMod
           r == j \div BlockMod
<1>1. /\ q \in Int /\ r \in Int
      /\ i % BlockMod \in Int /\ i % BlockMod = j % BlockMod
      /\ i = BlockMod * q + (i % BlockMod)
      /\ j = BlockMod * r + (j % BlockMod)
  BY TransferAssumption DEF Wire
<1> HIDE DEF q, r
<1>2. i - j = BlockMod * (q - r)
  BY <1>1, BlockModTimes, TransferAssumption
<1>3. CASE q - r >= 1
  BY <1>1, <1>2, <1>3, BlockModTimes, TransferAssumption
<1>4. CASE q - r <= -1
  BY <1>1, <1>2, <1>4, BlockModTimes, TransferAssumption
<1>5. CASE q = r
  BY <1>1, <1>5, TransferAssumption
<1> QED
  BY <1>1, <1>3, <1>4, <1>5

\* What the assumptions say of the constants that the steps compare.
LEMMA Constants ==
  /\ LastBlock \in Nat /\ LastBlock = FullBlocks + 1
  /\ FullBlocks \in Nat /\ MaxAge \in Nat /\ MaxAge >= 1 /\ MaxAge < BlockMod
  /\ BlockMod \in Nat /\ MaxRetry \in Nat /\ MaxRetry >= 1 /\ MaxDup \in Nat
  /\ \A n \in Nat : IsFull(n) <=> n <= FullBlocks /\ n # tx.cut
BY TransferAssumption DEF LastBlock, IsFull, BlockLen

\* The set of packets is made of the two numbered kinds and two errors.
LEMMA PacketKinds ==
  ASSUME NEW p \in Packets
  PROVE  \/ p.type = "DATA" /\ p.n \in 1 .. LastBlock /\ p = Data(p.n)
         \/ p.type = "ACK" /\ p.n \in 0 .. LastBlock /\ p = Ack(p.n)
         \/ p.type = "TXERROR" /\ p = TxError
         \/ p.type = "RXERROR" /\ p = RxError
BY DEF Packets, DataPackets, AckPackets, Data, Ack, TxError, RxError

\* A DATA packet the receiver takes for the expected block is that block.
LEMMA ExpectedIsNext ==
  ASSUME IInv, RxActive, NEW p \in net, Fresh(p), IsExpected(p)
  PROVE  p = Data(Expected) /\ p.n = Expected /\ Expected \in 1 .. LastBlock
<1>1. /\ p.type = "DATA" /\ p = Data(p.n) /\ p.n \in 1 .. LastBlock
      /\ p \notin {TxError, RxError}
  BY PacketKinds DEF IInv, TypeOK, IsExpected, TxError, RxError
<1>2. p.n <= tx.n /\ p.n + MaxAge > tx.n /\ tx.n <= Len(file) + MaxAge
      /\ Len(file) <= tx.n
  BY <1>1 DEF IInv, Positions, Window, Fresh
<1>3. Len(file) \in Nat /\ tx.n \in Nat
  BY Constants DEF IInv, TypeOK
<1>4. p.n - Expected < BlockMod /\ Expected - p.n < BlockMod
  BY <1>1, <1>2, <1>3, Constants DEF Expected
<1>5. p.n = Expected
  BY <1>1, <1>3, <1>4, WireInjective, Constants DEF IsExpected, Expected
<1> QED
  BY <1>1, <1>5

\* An ACK the transmitter takes for the current block is that block's.
LEMMA AckIsCurrent ==
  ASSUME IInv, NEW p \in net, Fresh(p), AcksCurrentBlock(p)
  PROVE  p.n = tx.n /\ Len(file) = tx.n
<1>1. /\ p.type = "ACK" /\ p.n \in 0 .. LastBlock
      /\ p \notin {TxError, RxError}
  BY PacketKinds DEF IInv, TypeOK, AcksCurrentBlock, TxError, RxError
<1>2. p.n <= Len(file) /\ p.n + MaxAge > tx.n /\ Len(file) <= tx.n
  BY <1>1 DEF IInv, Positions, Fresh
<1>3. Len(file) \in Nat /\ tx.n \in Nat
  BY Constants DEF IInv, TypeOK
<1>4. p.n = tx.n
  BY <1>1, <1>2, <1>3, WireInjective, Constants DEF AcksCurrentBlock
<1> QED
  BY <1>2, <1>3, <1>4, <1>1, Constants

-----------------------------------------------------------------------------
(* The invariant is inductive.  Most steps keep the file as it is and move *)
(* one side only: TxFrame and RxFrame say what such a step has to respect. *)

\* The loops start from the inductive invariant.
LEMMA InitInvariant == Init => IInv
<1> SUFFICES ASSUME Init PROVE IInv
  OBVIOUS
<1>1. TypeOK
  BY Constants, TransferAssumption
     DEF Init, TypeOK, Packets, DataPackets, AckPackets, Data, Ack
<1>2. Positions /\ Window /\ Outcomes /\ FileInOrder
  BY Constants
     DEF Init, Positions, Window, Outcomes, FileInOrder, RxActive, RxError, Ack, LastSent
<1> QED
  BY <1>1, <1>2 DEF IInv

\* What a step of the transmitter within a block has to respect.
LEMMA TxFrame ==
  ASSUME IInv,
         UNCHANGED <<rx, file, kept, term>>, dups' \in 0 .. MaxDup,
         tx' \in [pc : {"next", "send", "wait", "returned"}, n : 0 .. LastBlock,
                  resend : 0 .. MaxRetry,
                  result : {"none", "acked", "unacked", "failed"}, cut : 0 .. LastBlock],
         tx'.n = tx.n, tx'.cut = tx.cut,
         tx'.result = "acked" => Len(file) = LastSent,
         tx'.pc = "next" => /\ tx.n <= FullBlocks /\ tx.cut = 0
                            /\ RxActive => tx.n < Len(file) + MaxAge,
         tx'.pc \in {"send", "wait"} => tx'.n >= 1 /\ tx'.resend < MaxRetry,
         net' \subseteq net \cup (Packets \cap {Data(tx.n), TxError})
  PROVE  IInv'
<1>1. /\ TxError.type = "TXERROR" /\ TxError # RxError
      /\ Data(tx.n).type = "DATA" /\ Data(tx.n).n = tx.n /\ Data(tx.n) # RxError
  BY DEF TxError, RxError, Data
<1>2. TypeOK'
  BY DEF IInv, TypeOK
<1>3. Positions'
  <2>1. \A p \in net' : p.type = "DATA" => p.n <= tx'.n
    BY <1>1, Constants DEF IInv, TypeOK, Positions
  <2>2. \A p \in net' : p.type = "ACK" => p.n <= Len(file')
    BY <1>1 DEF IInv, Positions
  <2> QED
    BY <2>1, <2>2 DEF IInv, Positions
<1>4. Window'
  BY <1>1 DEF IInv, Window, RxActive
<1>5. Outcomes' /\ FileInOrder'
  BY DEF IInv, Outcomes, FileInOrder, RxActive, LastSent
<1> QED
  BY <1>2, <1>3, <1>4, <1>5 DEF IInv

\* What a step of the receiver that writes nothing has to respect.
LEMMA RxFrame ==
  ASSUME IInv,
         UNCHANGED <<tx, file, term>>, kept' \in BOOLEAN, dups' \in 0 .. MaxDup,
         rx' \in [pc : {"check", "recv", "returned", "closed"}, retry : 0 .. MaxRetry,
                  result : {"none", "complete", "failed"}, peer : BOOLEAN],
         RxActive' => RxActive /\ rx'.result = rx.result,
         rx'.result = "complete" <=> rx.result = "complete",
         net' \subseteq net \cup {RxError},
         RxError \in net' => RxError \in net \/ ~ RxActive'
  PROVE  IInv'
<1>1. RxError \in Packets /\ RxError.type = "RXERROR"
  BY DEF RxError, Packets
<1>2. TypeOK'
  BY <1>1 DEF IInv, TypeOK
<1>3. Positions'
  BY <1>1 DEF IInv, Positions
<1>4. Window'
  BY DEF IInv, Window
<1>5. Outcomes' /\ FileInOrder'
  BY DEF IInv, Outcomes, FileInOrder, LastSent
<1> QED
  BY <1>2, <1>3, <1>4, <1>5 DEF IInv

\* What sendto() and recvfrom() may do to the network.
LEMMA NetworkBounds ==
  /\ \A p, others : \A n \in Sends(p, others) : n \subseteq others \cup {p}
  /\ \A others : \A n \in RxErrorSends(others) : n \subseteq others \cup {RxError}
  /\ \A p, again : InFlight(p, again) \subseteq net
  /\ \A p, again : IInv /\ Receives(p, again) => dups' \in 0 .. MaxDup
<1>1. \A p, again : IInv /\ Receives(p, again) => dups' \in 0 .. MaxDup
  BY Constants DEF IInv, TypeOK, Receives
<1> QED
  BY <1>1 DEF Sends, RxErrorSends, InFlight

\* A transmitter that aborts.
LEMMA TxAbortsKeepsInv ==
  ASSUME IInv, NEW others \in SUBSET net, TxAborts(others),
         UNCHANGED <<rx, file, kept, term>>, dups' \in 0 .. MaxDup
  PROVE  IInv'
<1>1. net' \subseteq net \cup {TxError} /\ TxError \in Packets
  BY NetworkBounds DEF TxAborts, Packets
<1>2. tx' = [tx EXCEPT !.pc = "returned", !.result = "failed"]
  BY DEF TxAborts
<1> QED
  BY <1>1, <1>2, TxFrame DEF IInv, TypeOK

\* A transmitter that leaves the current block, acknowledged or not.
LEMMA EndOfBlockKeepsInv ==
  ASSUME IInv, tx.pc = "wait", NEW r \in 0 .. MaxRetry,
         NEW how \in {"acked", "unacked"},
         tx' = EndOfBlock([tx EXCEPT !.resend = r], how),
         RxActive => tx.n < Len(file) + MaxAge,
         how = "acked" => Len(file) = tx.n,
         net' \subseteq net, UNCHANGED <<rx, file, kept, term>>, dups' \in 0 .. MaxDup
  PROVE  IInv'
<1> DEFINE t == [tx EXCEPT !.resend = r]
<1>1. t.n = tx.n /\ tx.n \in 0 .. LastBlock /\ tx.n \in Nat /\ tx.n >= 1
      /\ tx.cut \in {0, tx.n}
  BY Constants DEF IInv, TypeOK, Positions
<1>2. CASE IsFull(tx.n)
  <2>1. tx' = [t EXCEPT !.pc = "next"] /\ tx.n <= FullBlocks /\ tx.cut = 0
    BY <1>1, <1>2, Constants DEF EndOfBlock
  <2>2. tx'.result # "acked" \/ Len(file) = LastSent
    BY <2>1 DEF IInv, TypeOK, Outcomes
  <2> QED
    BY <2>1, <2>2, TxFrame DEF IInv, TypeOK
<1>3. CASE ~ IsFull(tx.n)
  <2>1. tx' = [t EXCEPT !.pc = "returned", !.result = how] /\ tx.n = LastSent
    BY <1>1, <1>3, Constants DEF EndOfBlock, LastSent
  <2>2. tx'.result = "acked" => Len(file) = LastSent
    BY <2>1 DEF IInv, TypeOK
  <2> QED
    BY <2>1, <2>2, TxFrame DEF IInv, TypeOK
<1> QED
  BY <1>2, <1>3

\* An attempt that failed: another one, an abort, or the next block.
LEMMA TxTriesAgainKeepsInv ==
  ASSUME IInv, tx.pc = "wait", NEW others \in SUBSET net, TxTriesAgain(others),
         RxActive => tx.n < Len(file) + MaxAge,
         UNCHANGED <<rx, file, kept, term>>, dups' \in 0 .. MaxDup
  PROVE  IInv'
<1>1. tx.resend \in Nat /\ tx.resend < MaxRetry /\ tx.n \in Nat /\ tx.n >= 1
  BY Constants DEF IInv, TypeOK, Positions
<1>2. CASE tx.resend > MaxRetry
  BY <1>2, TxAbortsKeepsInv DEF TxTriesAgain
<1>3. CASE ~ tx.resend > MaxRetry
  <2> DEFINE t == [tx EXCEPT !.resend = tx.resend + 1]
  <2>1. t.resend = tx.resend + 1 /\ net' = others
        /\ tx' = IF t.resend < MaxRetry THEN [t EXCEPT !.pc = "send"]
                                        ELSE EndOfBlock(t, "unacked")
    BY <1>3 DEF TxTriesAgain, IInv, TypeOK
  <2>2. CASE t.resend < MaxRetry
    <3>1. tx' = [tx EXCEPT !.resend = tx.resend + 1, !.pc = "send"]
          /\ tx.resend + 1 \in 0 .. MaxRetry /\ tx.resend + 1 < MaxRetry
      BY <1>1, <2>1, <2>2, Constants
    <3>2. /\ tx' \in [pc : {"next", "send", "wait", "returned"}, n : 0 .. LastBlock,
                       resend : 0 .. MaxRetry,
                       result : {"none", "acked", "unacked", "failed"}, cut : 0 .. LastBlock]
          /\ tx'.pc = "send" /\ tx'.n = tx.n /\ tx'.resend < MaxRetry /\ tx'.cut = tx.cut
          /\ tx'.result = tx.result
      BY <3>1 DEF IInv, TypeOK
    <3> QED
      BY <1>1, <2>1, <3>2, TxFrame DEF IInv, Outcomes
  <2>3. CASE ~ t.resend < MaxRetry
    <3>1. tx.resend + 1 \in 0 .. MaxRetry
      BY <1>1, Constants
    <3>2. tx' = EndOfBlock([tx EXCEPT !.resend = tx.resend + 1], "unacked")
      BY <2>1, <2>3
    <3> QED
      BY <2>1, <3>1, <3>2, EndOfBlockKeepsInv
  <2> QED
    BY <2>2, <2>3
<1> QED
  BY <1>2, <1>3

-----------------------------------------------------------------------------

\* One case per step of the transmitter.
LEMMA TxStepKeepsInv == IInv /\ TxStep => IInv'
<1> SUFFICES ASSUME IInv, TxStep PROVE IInv'
  OBVIOUS
<1>1. dups \in 0 .. MaxDup
  BY DEF IInv, TypeOK
<1>2. CASE TxTerminate
  BY <1>1, <1>2, TxAbortsKeepsInv DEF TxTerminate
<1>3. CASE TxNext
  <2> PICK cut \in Cuts(tx.n + 1) :
        tx' = [tx EXCEPT !.pc = "send", !.n = tx.n + 1, !.resend = 0, !.cut = cut]
    BY <1>3 DEF TxNext
  <2>1. /\ UNCHANGED <<rx, file, kept, net, dups, term>>
        /\ tx.pc = "next" /\ tx.n <= FullBlocks /\ tx.cut = 0
        /\ tx.n \in Nat /\ tx.n + 1 \in 0 .. LastBlock /\ cut \in {0, tx.n + 1}
    BY <1>3, Constants DEF TxNext, Cuts, IInv, TypeOK, Positions
  <2>2. tx'.pc = "send" /\ tx'.n = tx.n + 1 /\ tx'.resend = 0 /\ tx'.result = tx.result
        /\ tx'.cut = cut
    BY <2>1 DEF IInv, TypeOK
  <2>3. TypeOK'
    <3>1. 0 \in 0 .. MaxRetry /\ cut \in 0 .. LastBlock
      BY <2>1, Constants
    <3> QED
      BY <2>1, <3>1 DEF IInv, TypeOK
  <2>4. Len(file) \in Nat
    BY Constants DEF IInv, TypeOK
  <2>5. Positions'
    <3>1. \A p \in net : p.type = "DATA" => p.n \in Nat
      BY PacketKinds, Constants DEF IInv, TypeOK
    <3> QED
      BY <2>1, <2>2, <2>4, <3>1, Constants DEF IInv, Positions
  <2>6. Window'
    BY <2>1, <2>2, <2>4, Constants DEF IInv, Window, RxActive
  <2>7. Outcomes' /\ FileInOrder'
    <3>1. Len(file) # LastSent /\ Len(file) # LastSent'
      BY <2>1, <2>2, <2>4, Constants DEF IInv, Positions, LastSent
    <3> QED
      BY <2>1, <2>2, <3>1 DEF IInv, Outcomes, FileInOrder, RxActive
  <2> QED
    BY <2>3, <2>5, <2>6, <2>7 DEF IInv
<1>4. CASE TxReadFails
  BY <1>1, <1>4, TxAbortsKeepsInv DEF TxReadFails
<1>5. CASE TxSend
  <2>1. Data(tx.n) \in Packets
    BY <1>5, Constants DEF TxSend, IInv, TypeOK, Packets, DataPackets, Positions
  <2> QED
    BY <1>1, <1>5, <2>1, TxFrame DEF TxSend, IInv, TypeOK, Outcomes, Positions
<1>6. CASE TxSendFails
  BY <1>1, <1>6, TxAbortsKeepsInv DEF TxSendFails
<1>7. CASE TxReceiveFails
  BY <1>1, <1>7, TxAbortsKeepsInv DEF TxReceiveFails, RecvErrnos, CountsAsAttempt
<1>8. ASSUME NEW p \in net, NEW again \in BOOLEAN, TxReceiveError(p, again)
      PROVE  IInv'
  <2>1. /\ tx' = [tx EXCEPT !.pc = "returned", !.result = "failed"]
        /\ net' \subseteq net /\ dups' \in 0 .. MaxDup
        /\ UNCHANGED <<rx, file, kept, term>>
    BY <1>8, NetworkBounds DEF TxReceiveError
  <2> QED
    BY <2>1, TxFrame DEF IInv, TypeOK
<1>9. ASSUME NEW p \in net, NEW again \in BOOLEAN, TxReceiveAck(p, again)
      PROVE  IInv'
  <2>1. /\ tx.pc = "wait" /\ tx' = EndOfBlock(tx, "acked")
        /\ net' \subseteq net /\ dups' \in 0 .. MaxDup
        /\ UNCHANGED <<rx, file, kept, term>>
        /\ Fresh(p) /\ AcksCurrentBlock(p)
    BY <1>9, NetworkBounds DEF TxReceiveAck, Receives
  <2>2. Len(file) = tx.n /\ tx.n \in Nat
    BY <2>1, AckIsCurrent, Constants DEF IInv, TypeOK
  <2>3. tx = [tx EXCEPT !.resend = tx.resend] /\ tx.resend \in 0 .. MaxRetry
    BY DEF IInv, TypeOK
  <2> QED
    BY <2>1, <2>2, <2>3, EndOfBlockKeepsInv, Constants
<1>10. ASSUME NEW p \in net, NEW again \in BOOLEAN, TxReceiveOther(p, again)
       PROVE  IInv'
  <2>1. /\ tx.pc = "wait" /\ TxTriesAgain(InFlight(p, again))
        /\ InFlight(p, again) \in SUBSET net /\ dups' \in 0 .. MaxDup
        /\ UNCHANGED <<rx, file, kept, term>>
        /\ Fresh(p) /\ ToTx(p)
    BY <1>10, NetworkBounds DEF TxReceiveOther, Receives
  <2>2. RxActive => tx.n < Len(file) + MaxAge
    <3>1. CASE p = RxError
      BY <3>1 DEF IInv, Window
    <3>2. CASE p.type = "ACK" /\ p.n \in 0 .. LastBlock
      <4>1. p.n <= Len(file) /\ p.n + MaxAge > tx.n
        BY <2>1, <3>2 DEF IInv, Positions, Fresh, TxError, RxError
      <4> QED
        BY <4>1, <3>2, Constants DEF IInv, TypeOK
    <3> QED
      BY <2>1, <3>1, <3>2, PacketKinds DEF ToTx, IInv, TypeOK
  <2> QED
    BY <2>1, <2>2, TxTriesAgainKeepsInv
<1> QED
  BY <1>2, <1>3, <1>4, <1>5, <1>6, <1>7, <1>8, <1>9, <1>10 DEF TxStep

-----------------------------------------------------------------------------

\* The receiver writes the expected block.
LEMMA RxAcceptKeepsInv ==
  ASSUME IInv, NEW p \in net, NEW again \in BOOLEAN, RxAccept(p, again)
  PROVE  IInv'
<1>1. /\ rx.pc = "recv" /\ RxActive
      /\ Fresh(p) /\ IsExpected(p) /\ dups' \in 0 .. MaxDup
      /\ UNCHANGED <<tx, kept, term>>
  BY NetworkBounds DEF RxAccept, Receives, RxActive
<1>2. p.type = "DATA" /\ p.n = Len(file) + 1 /\ p.n \in 1 .. LastBlock /\ Len(file) \in Nat
  BY <1>1, ExpectedIsNext, Constants DEF Expected, IInv, TypeOK, Data
<1>3. PICK block \in {p.n, Torn} : file' = Append(file, block)
  BY DEF RxAccept, Stored
<1>4. file' \in Seq(0 .. LastBlock) /\ Len(file') = Len(file) + 1
  BY <1>2, <1>3, Constants DEF IInv, TypeOK, Torn
<1>5. /\ net' \subseteq net \cup {Ack(Len(file'))}
      /\ Ack(Len(file')) \in Packets /\ Ack(Len(file')) # RxError
      /\ Ack(Len(file')).type = "ACK" /\ Ack(Len(file')).n = Len(file')
  <2>1. /\ Expected = Len(file') /\ Expected \in 0 .. LastBlock
    BY <1>2, <1>4, Constants DEF Expected
  <2>2. net' \in Sends(Ack(Expected), InFlight(p, again))
    BY DEF RxAccept
  <2>3. net' \subseteq InFlight(p, again) \cup {Ack(Expected)}
    BY <2>2, NetworkBounds
  <2>4. net' \subseteq net \cup {Ack(Len(file'))}
    BY <2>1, <2>3, NetworkBounds
  <2>5. Ack(Len(file')) \in Packets
    BY <2>1 DEF Packets, AckPackets
  <2> QED
    BY <2>4, <2>5 DEF Ack, RxError
<1>6. \/ /\ p.n # LastSent
         /\ rx' = [rx EXCEPT !.pc = "check", !.retry = 0, !.peer = TRUE]
      \/ /\ p.n = LastSent
         /\ rx' = [rx EXCEPT !.pc = "returned", !.retry = 0, !.peer = TRUE,
                             !.result = "complete"]
  <2>1. p.n <= tx.n /\ tx.n \in 0 .. LastBlock /\ tx.cut \in {0, tx.n}
    BY <1>2 DEF IInv, TypeOK, Positions
  <2>2. IsFull(p.n) <=> p.n # LastSent
    BY <1>2, <2>1, Constants DEF LastSent
  <2> QED
    BY <2>2 DEF RxAccept
<1>7. /\ rx' \in [pc : {"check", "recv", "returned", "closed"}, retry : 0 .. MaxRetry,
                   result : {"none", "complete", "failed"}, peer : BOOLEAN]
      /\ RxActive' <=> p.n # LastSent
      /\ RxActive' => rx'.result = rx.result
      /\ ~ RxActive' => rx'.result = "complete"
  <2>1. 0 \in 0 .. MaxRetry
    BY Constants
  <2>2. CASE /\ p.n # LastSent
             /\ rx' = [rx EXCEPT !.pc = "check", !.retry = 0, !.peer = TRUE]
    BY <2>1, <2>2 DEF IInv, TypeOK, RxActive
  <2>3. CASE /\ p.n = LastSent
             /\ rx' = [rx EXCEPT !.pc = "returned", !.retry = 0, !.peer = TRUE,
                                 !.result = "complete"]
    <3>1. /\ rx' \in [pc : {"check", "recv", "returned", "closed"}, retry : 0 .. MaxRetry,
                       result : {"none", "complete", "failed"}, peer : BOOLEAN]
          /\ rx'.pc = "returned" /\ rx'.result = "complete"
      BY <2>1, <2>3 DEF IInv, TypeOK
    <3> QED
      BY <2>3, <3>1 DEF RxActive
  <2> QED
    BY <1>6, <2>2, <2>3
<1>8. TypeOK'
  BY <1>1, <1>4, <1>5, <1>7 DEF IInv, TypeOK
<1>9. Positions'
  <2>1. p.n <= tx.n
    BY <1>2 DEF IInv, Positions
  <2>2. \A q \in net : q.type = "ACK" => q.n \in Nat
    BY PacketKinds, Constants DEF IInv, TypeOK
  <2>3. \A q \in net' : q.type = "ACK" => q.n <= Len(file')
    BY <1>2, <1>4, <1>5, <2>2 DEF IInv, Positions
  <2>4. \A q \in net' : q.type = "DATA" => q.n <= tx'.n
    BY <1>1, <1>5 DEF IInv, Positions
  <2> QED
    BY <1>1, <1>2, <1>4, <2>1, <2>3, <2>4 DEF IInv, Positions
<1>10. Window'
  BY <1>1, <1>2, <1>4, <1>5, Constants DEF IInv, TypeOK, Window
<1>11. Outcomes'
  <2>1. rx.result = "none" /\ Len(file) # LastSent
    BY <1>1 DEF IInv, Outcomes
  <2>2. tx.result # "acked" /\ LastSent' = LastSent
    BY <1>1, <2>1 DEF IInv, Outcomes, LastSent
  <2> QED
    BY <1>1, <1>2, <1>4, <1>7, <2>1, <2>2 DEF IInv, Outcomes
<1>12. FileInOrder'
  BY <1>2, <1>3, <1>4 DEF IInv, TypeOK, FileInOrder, Torn
<1> QED
  BY <1>8, <1>9, <1>10, <1>11, <1>12 DEF IInv

\* One case per step of the receiver.
LEMMA RxStepKeepsInv == IInv /\ RxStep => IInv'
<1> SUFFICES ASSUME IInv, RxStep PROVE IInv'
  OBVIOUS
<1> DEFINE Ends(s) == rx' = [rx EXCEPT !.pc = "returned", !.result = "failed", !.peer = s]
<1>1. /\ dups \in 0 .. MaxDup /\ kept \in BOOLEAN /\ rx.peer \in BOOLEAN
      /\ rx = [rx EXCEPT !.peer = rx.peer]
  BY DEF IInv, TypeOK
<1>2. ASSUME NEW s \in BOOLEAN, Ends(s), RxActive, UNCHANGED <<tx, file, kept, term>>,
             net' \subseteq net \cup {RxError}, dups' \in 0 .. MaxDup
      PROVE  IInv'
  <2>1. rx.result = "none"
    BY <1>2 DEF IInv, Outcomes
  <2> QED
    BY <1>1, <1>2, <2>1, RxFrame DEF IInv, TypeOK, RxActive
<1>3. ASSUME rx.pc \in {"check", "recv"}, RxFails, net' \in RxErrorSends(net),
             UNCHANGED <<tx, file, kept, dups, term>>
      PROVE  IInv'
  <2>1. Ends(rx.peer)
    BY <1>3 DEF RxFails, IInv, TypeOK
  <2> QED
    BY <1>1, <1>2, <1>3, <2>1, NetworkBounds DEF RxActive
<1>4. CASE RxTerminate
  BY <1>3, <1>4 DEF RxTerminate
<1>5. CASE RxContinue
  BY <1>1, <1>5, RxFrame DEF RxContinue, IInv, TypeOK, RxActive
<1>6. CASE RxReceiveFails
  <2>1. CASE rx.retry < MaxRetry
    <3>1. rx' = [rx EXCEPT !.retry = rx.retry + 1] /\ rx.retry + 1 \in 0 .. MaxRetry
          /\ UNCHANGED <<tx, file, kept, net, dups, term>> /\ rx.pc = "recv"
      BY <1>6, <2>1, Constants DEF RxReceiveFails, RxAttempt, IInv, TypeOK
    <3> QED
      BY <1>1, <3>1, RxFrame DEF IInv, TypeOK, RxActive
  <2>2. CASE ~ rx.retry < MaxRetry
    BY <1>3, <1>6, <2>2 DEF RxReceiveFails
  <2> QED
    BY <2>1, <2>2
<1>7. CASE RxClose
  <2>1. kept' \in BOOLEAN
    BY <1>7, TransferAssumption DEF RxClose, RemovesFile
  <2> QED
    BY <1>1, <1>7, <2>1, RxFrame DEF RxClose, IInv, TypeOK, RxActive
<1>8. ASSUME NEW p \in net, NEW again \in BOOLEAN, RxWriteFails(p, again)
      PROVE  IInv'
  <2>1. Ends(TRUE) /\ rx.pc = "recv" /\ UNCHANGED <<tx, file, kept, term>>
    BY <1>8 DEF RxWriteFails
  <2>2. net' \subseteq net \cup {RxError} /\ dups' \in 0 .. MaxDup
    <3>1. InFlight(p, again) \subseteq net
      BY NetworkBounds
    <3>2. net' \in Sends(RxError, InFlight(p, again)) /\ Receives(p, again)
      BY <1>8 DEF RxWriteFails
    <3>3. net' \subseteq InFlight(p, again) \cup {RxError}
      BY <3>2, NetworkBounds
    <3> QED
      BY <3>1, <3>2, <3>3, NetworkBounds
  <2> QED
    BY <1>2, <2>1, <2>2 DEF RxActive
<1>9. ASSUME NEW p \in net, NEW again \in BOOLEAN, RxReceiveError(p, again)
      PROVE  IInv'
  BY <1>2, <1>9, NetworkBounds DEF RxReceiveError, RxActive
<1>10. ASSUME NEW p \in net, NEW again \in BOOLEAN, RxIgnore(p, again)
       PROVE  IInv'
  BY <1>10, NetworkBounds, RxFrame DEF RxIgnore, IInv, TypeOK, RxActive
<1> QED
  BY <1>4, <1>5, <1>6, <1>7, <1>8, <1>9, <1>10, RxAcceptKeepsInv DEF RxStep

\* Losses, signals and crashes keep the invariant too.
LEMMA NextInvariant == IInv /\ [Next]_vars => IInv'
<1> SUFFICES ASSUME IInv, [Next]_vars PROVE IInv'
  OBVIOUS
<1>1. /\ dups \in 0 .. MaxDup /\ kept \in BOOLEAN
      /\ tx.pc \in {"send", "wait"} => tx.n >= 1 /\ tx.resend < MaxRetry
  BY DEF IInv, TypeOK, Positions
<1>2. CASE Lose
  BY <1>2 DEF Lose, IInv, TypeOK, Positions, Window, Outcomes, FileInOrder, RxActive, LastSent
<1>3. CASE \E side \in {"tx", "rx"} : Signal(side)
  BY <1>3 DEF Signal, IInv, TypeOK, Positions, Window, Outcomes, FileInOrder, RxActive, LastSent
<1>4. CASE Crash
  <2>1. CASE tx' = [tx EXCEPT !.pc = "returned"] /\ UNCHANGED rx
    BY <1>1, <1>4, <2>1, TxFrame DEF Crash, IInv, TypeOK, Outcomes
  <2>2. CASE rx' = [rx EXCEPT !.pc = "closed"] /\ UNCHANGED tx
    BY <1>1, <1>4, <2>2, RxFrame DEF Crash, IInv, TypeOK, RxActive
  <2> QED
    BY <1>4, <2>1, <2>2 DEF Crash
<1>5. CASE UNCHANGED vars
  BY <1>5 DEF vars, IInv, TypeOK, Positions, Window, Outcomes, FileInOrder, RxActive, LastSent
<1> QED
  BY <1>2, <1>3, <1>4, <1>5, TxStepKeepsInv, RxStepKeepsInv DEF Next, Finished

-----------------------------------------------------------------------------
(* What follows for every behaviour                                        *)

\* The inductive invariant holds throughout.
LEMMA Invariance == Spec => []IInv
<1>1. Init => IInv
  BY InitInvariant
<1>2. IInv /\ [Next]_vars => IInv'
  BY NextInvariant
<1> QED
  BY <1>1, <1>2, PTL DEF Spec

\* The variables of both loops stay within their types: in particular the
\* transmitter never reads past the block that ends the file.
THEOREM TypeCorrect == Spec => []TypeOK
<1>1. IInv => TypeOK
  BY DEF IInv
<1> QED
  BY <1>1, Invariance, PTL

\* The i-th block that tftp_receive_file() writes is the i-th block of the
\* source, for files of any length: a 16-bit block number suffices as long as
\* no datagram outlives MaxAge < BlockMod blocks of progress.
THEOREM BlocksInOrder == Spec => []FileInOrder
<1>1. IInv => FileInOrder
  BY DEF IInv
<1> QED
  BY <1>1, Invariance, PTL

\* The retry limit test inside the loop of tftp_transmit_file() never holds:
\* the loop condition on resend_counter always ends the loop first.
RetryLimitIsNeverSeen == tx.pc = "wait" => ~ tx.resend > MaxRetry

\* tftp_transmit_file() never reports that its attempts are exhausted.
THEOREM RetryLimitTestIsDead == Spec => []RetryLimitIsNeverSeen
<1>1. IInv => RetryLimitIsNeverSeen
  BY Constants DEF IInv, TypeOK, Positions, RetryLimitIsNeverSeen
<1> QED
  BY <1>1, Invariance, PTL

\* Without torn reads and writes the receiver's file is a prefix of the source.
IsPrefix == tx.cut = 0 /\ \A i \in 1 .. Len(file) : file[i] = i

\* fread() returns, and fwrite() stores, the whole block unless a fault tears it.
LEMMA PrefixInvariance ==
  ASSUME {"shortread", "shortwrite"} \cap Faults = {}
  PROVE  Spec => []IsPrefix
<1>1. Init => IsPrefix
  BY DEF Init, IsPrefix
<1>2. IInv /\ IsPrefix /\ [Next]_vars => IsPrefix'
  <2> SUFFICES ASSUME IInv, IsPrefix, [Next]_vars PROVE IsPrefix'
    OBVIOUS
  <2>1. ASSUME NEW p \in net, NEW again \in BOOLEAN, RxAccept(p, again)
        PROVE  IsPrefix'
    <3>1. RxActive /\ Fresh(p) /\ IsExpected(p) /\ tx' = tx
      BY <2>1 DEF RxAccept, Receives, RxActive
    <3>2. p.n = Len(file) + 1 /\ p.n # tx.cut /\ file' = Append(file, p.n)
      BY <2>1, <3>1, ExpectedIsNext, Constants DEF Expected, IsPrefix, RxAccept, Stored
    <3>3. file \in Seq(0 .. LastBlock) /\ p.n \in 0 .. LastBlock
      BY <3>1, ExpectedIsNext, Constants DEF IInv, TypeOK
    <3> QED
      BY <3>1, <3>2, <3>3, Constants DEF IsPrefix
  <2>2. CASE UNCHANGED file
    <3>1. tx'.cut = tx.cut \/ TxNext
      BY DEF Next, vars, TxStep, RxStep, Lose, Signal, Crash, Finished,
           TxTerminate, TxReadFails, TxSend, TxSendFails, TxReceiveFails, TxReceiveError,
           TxReceiveAck, TxReceiveOther, TxTriesAgain, TxAborts, EndOfBlock, RxTerminate,
           RxContinue, RxReceiveFails, RxClose, RxAccept, RxWriteFails, RxReceiveError,
           RxIgnore, IInv, TypeOK
    <3>2. tx'.cut = 0
      BY <3>1 DEF TxNext, Cuts, IInv, TypeOK, IsPrefix
    <3> QED
      BY <2>2, <3>2 DEF IsPrefix
  <2>3. UNCHANGED file \/ \E p \in net, again \in BOOLEAN : RxAccept(p, again)
    BY DEF Next, vars, TxStep, RxStep, Lose, Signal, Crash, Finished,
           TxTerminate, TxNext, TxReadFails, TxSend, TxSendFails, TxReceiveFails,
           TxReceiveError, TxReceiveAck, TxReceiveOther, RxTerminate, RxContinue,
           RxReceiveFails, RxClose, RxWriteFails, RxReceiveError, RxIgnore
  <2> QED
    BY <2>1, <2>2, <2>3
<1> QED
  BY <1>1, <1>2, Invariance, PTL DEF Spec

\* A full-length prefix is the source.
LEMMA PrefixIsWhole ==
  ASSUME IInv, IsPrefix, Len(file) = LastSent
  PROVE  file = Whole
<1>1. file \in Seq(0 .. LastBlock) /\ Whole \in Seq(0 .. LastBlock)
      /\ Len(Whole) = LastBlock
  BY Constants DEF IInv, TypeOK, Whole
<1>2. Len(file) = LastBlock
  BY DEF IsPrefix, LastSent
<1>3. \A i \in 1 .. LastBlock : file[i] = Whole[i]
  BY <1>2, Constants DEF IsPrefix, Whole
<1> QED
  BY <1>1, <1>2, <1>3

\* With fread() and fwrite() all-or-nothing, tftp_receive_file() returns true
\* only with every block of the source written.
THEOREM CompletionIsWhole ==
  ASSUME {"shortread", "shortwrite"} \cap Faults = {}
  PROVE  Spec => []CompleteIsWhole
<1>1. IInv /\ IsPrefix => CompleteIsWhole
  BY PrefixIsWhole DEF IInv, Outcomes, CompleteIsWhole
<1> QED
  BY <1>1, Invariance, PrefixInvariance, PTL

\* With fread() and fwrite() all-or-nothing, a transmitter that leaves its last
\* block through the matching ACK leaves a receiver that has the whole file.
THEOREM AcknowledgedIsDelivered ==
  ASSUME {"shortread", "shortwrite"} \cap Faults = {}
  PROVE  Spec => []AckedIsDelivered
<1>1. IInv /\ IsPrefix => AckedIsDelivered
  BY PrefixIsWhole DEF IInv, Outcomes, AckedIsDelivered
<1> QED
  BY <1>1, Invariance, PrefixInvariance, PTL

-----------------------------------------------------------------------------
(* Transfer implements FileDelivery                                        *)

\* A transmitter reports a result when it returns and not before; a file is
\* removed only after its reception has failed.
Settled ==
  /\ tx.result # "none" => tx.pc = "returned"
  /\ ~ kept => rx.pc = "closed" /\ rx.result = "failed"

\* Results are final: no step follows them but the clean-up of the receiver.
LEMMA SettledInvariance == Spec => []Settled
<1>1. Init => Settled
  BY DEF Init, Settled
<1>2. IInv /\ Settled /\ [Next]_vars => Settled'
  <2> SUFFICES ASSUME IInv, Settled, [Next]_vars PROVE Settled'
    OBVIOUS
  <2>1. CASE TxStep
    <3>1. tx.pc # "returned" /\ tx.result = "none" /\ UNCHANGED <<rx, kept>>
      BY <2>1 DEF TxStep, TxTerminate, TxNext, TxReadFails, TxSend, TxSendFails,
         TxReceiveFails, TxReceiveError, TxReceiveAck, TxReceiveOther, Settled
    <3>2. ASSUME NEW others, TxTriesAgain(others) PROVE tx'.result # "none" => tx'.pc = "returned"
      BY <3>1, <3>2 DEF TxTriesAgain, TxAborts, EndOfBlock, IInv, TypeOK
    <3>3. tx'.result # "none" => tx'.pc = "returned"
      BY <2>1, <3>1, <3>2 DEF TxStep, TxTerminate, TxNext, TxReadFails, TxSend,
         TxSendFails, TxReceiveFails, TxReceiveError, TxReceiveAck, TxReceiveOther,
         TxAborts, EndOfBlock, IInv, TypeOK
    <3> QED
      BY <3>1, <3>3 DEF Settled
  <2>2. CASE RxStep
    <3>1. tx' = tx /\ rx.pc # "closed"
      BY <2>2 DEF RxStep, RxTerminate, RxContinue, RxReceiveFails, RxClose,
         RxAccept, RxWriteFails, RxReceiveError, RxIgnore
    <3>2. CASE RxClose
      BY <3>1, <3>2 DEF RxClose, RemovesFile, Settled, IInv, TypeOK
    <3>3. CASE UNCHANGED kept
      BY <3>1, <3>3 DEF Settled
    <3> QED
      BY <2>2, <3>2, <3>3 DEF RxStep, RxTerminate, RxContinue, RxReceiveFails,
         RxAccept, RxWriteFails, RxReceiveError, RxIgnore
  <2>3. CASE Crash
    BY <2>3 DEF Crash, Settled, IInv, TypeOK
  <2>4. CASE UNCHANGED <<tx, rx, kept>>
    BY <2>4 DEF Settled
  <2> QED
    BY <2>1, <2>2, <2>3, <2>4 DEF Next, vars, Lose, Signal, Finished
<1> QED
  BY <1>1, <1>2, Invariance, PTL DEF Spec

\* The server never removes a file that holds every byte of the source, as
\* long as the last block is not empty.
THEOREM RemovalIsJustified ==
  ASSUME TailBytes > 0
  PROVE  Spec => []RemovedIsIncomplete
<1>1. IInv /\ Settled => RemovedIsIncomplete
  <2> SUFFICES ASSUME IInv, rx.result = "failed", HoldsAllBytes PROVE FALSE
    BY DEF Settled, RemovedIsIncomplete
  <2>1. Len(file) <= LastBlock /\ Len(file) >= LastBlock /\ Len(file) \in Nat
    BY TransferAssumption, Constants DEF IInv, TypeOK, Positions, HoldsAllBytes
  <2>2. Len(file) = LastBlock /\ tx.n = LastBlock /\ tx.cut \in {0, tx.n}
    BY <2>1, Constants DEF IInv, TypeOK, Positions
  <2> QED
    BY <2>2 DEF IInv, Outcomes, LastSent
<1> QED
  BY <1>1, Invariance, SettledInvariance, PTL

\* With fread() and fwrite() all-or-nothing, every transfer is a FileDelivery.
THEOREM ImplementsDelivery ==
  ASSUME {"shortread", "shortwrite"} \cap Faults = {}
  PROVE  Spec => DeliverySpec
<1> DEFINE receiver ==
             IF rx.result = "complete" THEN "complete"
             ELSE IF rx.pc \in {"returned", "closed"} THEN "failed" ELSE "active"
<1>1. Init => Delivery!Init
  BY DEF Init, Delivery!Init
<1>2. IInv /\ IInv' /\ IsPrefix' /\ Settled /\ [Next]_vars => [Delivery!Next]_(Delivery!vars)
  <2> SUFFICES ASSUME IInv, IInv', IsPrefix', Settled, [Next]_vars
               PROVE  Delivery!Next \/ UNCHANGED Delivery!vars
    OBVIOUS
  <2>1. ASSUME NEW p \in net, NEW again \in BOOLEAN, RxAccept(p, again)
        PROVE  Delivery!Deliver
    <3>1. /\ rx.pc = "recv" /\ rx.result = "none" /\ RxActive
          /\ Fresh(p) /\ IsExpected(p) /\ UNCHANGED tx /\ tx.cut = 0
      BY <2>1 DEF RxAccept, Receives, RxActive, IInv, Outcomes, IsPrefix
    <3>2. p.n = Len(file) + 1 /\ p.n \in 1 .. LastBlock /\ Len(file) \in Nat
          /\ file' = Append(file, p.n)
      BY <2>1, <3>1, ExpectedIsNext, Constants DEF Expected, IInv, TypeOK, RxAccept, Stored
    <3>3. receiver = "active" /\ Len(file) < LastBlock
      BY <3>1, <3>2, Constants
    <3>4. CASE p.n = LastBlock
      <4>1. rx' = [rx EXCEPT !.pc = "returned", !.retry = 0, !.peer = TRUE,
                             !.result = "complete"]
        BY <2>1, <3>2, <3>4, Constants DEF RxAccept
      <4>2. rx'.result = "complete"
        BY <4>1 DEF IInv, TypeOK
      <4> QED
        BY <3>1, <3>2, <3>3, <3>4, <4>2 DEF Delivery!Deliver
    <3>5. CASE p.n # LastBlock
      <4>1. rx' = [rx EXCEPT !.pc = "check", !.retry = 0, !.peer = TRUE]
        BY <2>1, <3>1, <3>2, <3>5, Constants DEF RxAccept
      <4>2. rx'.pc = "check" /\ rx'.result = "none"
        BY <3>1, <4>1 DEF IInv, TypeOK
      <4> QED
        BY <3>1, <3>2, <3>3, <3>5, <4>2 DEF Delivery!Deliver
    <3> QED
      BY <3>4, <3>5
  <2>2. CASE UNCHANGED file /\ UNCHANGED tx
    <3>1. rx'.result = "complete" <=> rx.result = "complete"
      BY <2>2 DEF IInv, Outcomes, LastSent
    <3>2. ~ RxActive => ~ RxActive'
      BY <2>2 DEF Next, vars, TxStep, RxStep, Lose, Signal, Crash, Finished,
         TxTerminate, TxNext, TxReadFails, TxSend, TxSendFails, TxReceiveFails,
         TxReceiveError, TxReceiveAck, TxReceiveOther, RxTerminate, RxContinue,
         RxReceiveFails, RxClose, RxAccept, RxWriteFails, RxReceiveError, RxIgnore,
         RxActive, IInv, TypeOK
    <3>3. rx.pc \in {"returned", "closed"} <=> ~ RxActive
      BY DEF RxActive, IInv, TypeOK
    <3>4. rx'.pc \in {"returned", "closed"} <=> ~ RxActive'
      BY DEF RxActive, IInv, TypeOK
    <3>5. UNCHANGED receiver \/ (receiver = "active" /\ receiver' = "failed")
      BY <3>1, <3>2, <3>3, <3>4
    <3> QED
      BY <2>2, <3>5 DEF Delivery!Next, Delivery!GiveUp, Delivery!vars
  <2>3. CASE UNCHANGED file /\ UNCHANGED rx
    <3>1. tx.result = "acked" => tx'.result = "acked"
      BY <2>3 DEF Settled, Next, vars, TxStep, RxStep, Lose, Signal, Crash, Finished,
         TxTerminate, TxNext, TxReadFails, TxSend, TxSendFails, TxReceiveFails,
         TxReceiveError, TxReceiveAck, TxReceiveOther, RxTerminate, RxContinue,
         RxReceiveFails, RxClose, RxAccept, RxWriteFails, RxReceiveError, RxIgnore
    <3>2. tx'.result = "acked" => rx.result = "complete"
      BY <2>3 DEF IInv, Outcomes
    <3> QED
      BY <2>3, <3>1, <3>2 DEF Delivery!Next, Delivery!Confirm, Delivery!vars
  <2>4. \/ \E p \in net, again \in BOOLEAN : RxAccept(p, again)
        \/ UNCHANGED file /\ UNCHANGED tx
        \/ UNCHANGED file /\ UNCHANGED rx
    BY DEF Next, vars, TxStep, RxStep, Lose, Signal, Crash, Finished,
       TxTerminate, TxNext, TxReadFails, TxSend, TxSendFails, TxReceiveFails,
       TxReceiveError, TxReceiveAck, TxReceiveOther, RxTerminate, RxContinue,
       RxReceiveFails, RxClose, RxWriteFails, RxReceiveError, RxIgnore
  <2> QED
    BY <2>1, <2>2, <2>3, <2>4 DEF Delivery!Next
<1> QED
  BY <1>1, <1>2, Invariance, PrefixInvariance, SettledInvariance, PTL
     DEF Spec, DeliverySpec, Delivery!Spec

-----------------------------------------------------------------------------

\* A receiver whose flag was set when it had written k blocks waits for one
\* block at most, and only if it was waiting already.
Stopping(k) ==
  /\ "rx" \in term
  /\ Len(file) <= k \/ (Len(file) = k + 1 /\ rx.pc # "recv")

\* After a termination signal the receiver writes at most the one block it is
\* waiting for: should_terminate is read between the blocks.
THEOREM SignalStopsReception == Spec => SignalBoundsReception
<1> SUFFICES ASSUME NEW k \in 0 .. LastBlock
             PROVE  Spec => []("rx" \in term /\ Len(file) = k => [](Len(file) <= k + 1))
  BY DEF SignalBoundsReception
<1>1. IInv /\ "rx" \in term /\ Len(file) = k => Stopping(k)
  BY DEF Stopping, IInv, TypeOK
<1>2. IInv /\ Stopping(k) /\ [Next]_vars => Stopping(k)'
  <2> SUFFICES ASSUME IInv, Stopping(k), [Next]_vars PROVE Stopping(k)'
    OBVIOUS
  <2>1. Len(file) \in Nat /\ k \in Nat
    BY Constants DEF IInv, TypeOK
  <2>2. ASSUME NEW p \in net, NEW again \in BOOLEAN, RxAccept(p, again)
        PROVE  Stopping(k)'
    <3>1. Len(file') = Len(file) + 1 /\ term' = term /\ rx.pc = "recv"
      BY <2>2 DEF RxAccept, IInv, TypeOK
    <3>2. rx'.pc # "recv"
      BY <2>2 DEF RxAccept, IInv, TypeOK
    <3> QED
      BY <2>1, <3>1, <3>2 DEF Stopping
  <2>3. ASSUME UNCHANGED file, rx'.pc # "recv" \/ rx.pc = "recv", "rx" \in term'
        PROVE  Stopping(k)'
    BY <2>3 DEF Stopping
  <2>4. "rx" \in term /\ term' \in {term} \cup {term \cup {side} : side \in {"tx", "rx"}}
    BY DEF Stopping, Next, vars, TxStep, RxStep, TxTerminate, TxNext, TxReadFails, TxSend,
       TxSendFails, TxReceiveFails, TxReceiveError, TxReceiveAck, TxReceiveOther, Lose,
       Signal, Crash, Finished, RxTerminate, RxContinue, RxReceiveFails, RxClose, RxAccept,
       RxWriteFails, RxReceiveError, RxIgnore
  <2>5. CASE RxTerminate \/ RxReceiveFails \/ RxClose
             \/ \E p \in net, again \in BOOLEAN :
                  RxWriteFails(p, again) \/ RxReceiveError(p, again) \/ RxIgnore(p, again)
    <3>1. UNCHANGED file /\ (rx'.pc # "recv" \/ rx.pc = "recv")
      BY <2>5 DEF RxTerminate, RxReceiveFails, RxClose, RxWriteFails, RxReceiveError, RxIgnore,
         RxFails, RxAttempt, IInv, TypeOK
    <3> QED
      BY <2>3, <2>4, <3>1
  <2>6. CASE RxContinue
    BY <2>6 DEF RxContinue, Stopping
  <2>7. CASE TxStep \/ Lose \/ (\E side \in {"tx", "rx"} : Signal(side)) \/ Finished
             \/ UNCHANGED vars
    BY <2>3, <2>4, <2>7 DEF vars, TxStep, TxTerminate, TxNext, TxReadFails, TxSend,
       TxSendFails, TxReceiveFails, TxReceiveError, TxReceiveAck, TxReceiveOther, Lose,
       Signal, Finished
  <2>8. CASE Crash
    BY <2>3, <2>4, <2>8 DEF Crash, IInv, TypeOK
  <2> QED
    BY <2>2, <2>5, <2>6, <2>7, <2>8 DEF Next, RxStep
<1>3. IInv /\ Stopping(k) => Len(file) <= k + 1
  BY Constants DEF Stopping, IInv, TypeOK
<1> QED
  BY <1>1, <1>2, <1>3, Invariance, PTL DEF Spec
-----------------------------------------------------------------------------
(* What the program's loop over resend_counter costs.  It falls out of the *)
(* block unacknowledged when max_retry_count answers of the wrong block    *)
(* were received; but every ACK written is that of the current block       *)
(* (Lockstep), so an answer is wrong only if it is a copy, or the one      *)
(* ERROR of a receiver that has ended.                                     *)

\* The answers in flight that cost the transmitter an attempt.
Pending ==
  {p \in net : p.type = "ACK" /\ (p.n < tx.n \/ tx.pc = "next")} \cup (net \cap {RxError})

\* How many of them there may have been: the copies and the last ERROR.
Slack == dups + (IF RxActive THEN 0 ELSE 1)

\* No block is left unacknowledged, and so the transmitter is at most one block
\* ahead: every attempt that was spent, and every answer still to cost one, is
\* accounted for.
Lockstep ==
  /\ IsFiniteSet(net)
  /\ tx.n <= Len(file) + 1
  /\ tx.pc = "next" => tx.n = Len(file)
  /\ tx.resend + Cardinality(Pending) <= Slack
  /\ tx.result # "unacked"

\* A set within another, with one element more, or without one.
LEMMA Counting ==
  ASSUME NEW S, NEW T, IsFiniteSet(T), NEW x
  PROVE  /\ Cardinality(T) \in Nat
         /\ S \subseteq T => /\ IsFiniteSet(S) /\ Cardinality(S) \in Nat
                             /\ Cardinality(S) <= Cardinality(T)
         /\ S \subseteq T \cup {x} => /\ IsFiniteSet(S) /\ Cardinality(S) \in Nat
                                      /\ Cardinality(S) <= Cardinality(T) + 1
         /\ S \subseteq T \ {x} /\ x \in T => /\ IsFiniteSet(S) /\ Cardinality(S) \in Nat
                                              /\ Cardinality(S) + 1 <= Cardinality(T)
<1>1. Cardinality(T) \in Nat
  BY FS_CardinalityType
<1>2. ASSUME S \subseteq T
      PROVE  IsFiniteSet(S) /\ Cardinality(S) \in Nat /\ Cardinality(S) <= Cardinality(T)
  BY <1>2, FS_Subset, FS_CardinalityType
<1>3. ASSUME S \subseteq T \cup {x}
      PROVE  IsFiniteSet(S) /\ Cardinality(S) \in Nat /\ Cardinality(S) <= Cardinality(T) + 1
  <2>1. IsFiniteSet(T \cup {x}) /\ Cardinality(T \cup {x}) <= Cardinality(T) + 1
    BY <1>1, FS_AddElement
  <2>2. IsFiniteSet(S) /\ Cardinality(S) \in Nat /\ Cardinality(S) <= Cardinality(T \cup {x})
    BY <1>3, <2>1, FS_Subset, FS_CardinalityType
  <2>3. Cardinality(T \cup {x}) \in Nat
    BY <2>1, FS_CardinalityType
  <2> QED
    BY <1>1, <2>1, <2>2, <2>3
<1>4. ASSUME S \subseteq T \ {x}, x \in T
      PROVE  IsFiniteSet(S) /\ Cardinality(S) \in Nat /\ Cardinality(S) + 1 <= Cardinality(T)
  <2>1. IsFiniteSet(T \ {x}) /\ Cardinality(T \ {x}) = Cardinality(T) - 1
    BY <1>4, FS_RemoveElement
  <2>2. IsFiniteSet(S) /\ Cardinality(S) \in Nat /\ Cardinality(S) <= Cardinality(T \ {x})
    BY <1>4, <2>1, FS_Subset, FS_CardinalityType
  <2> QED
    BY <1>1, <2>1, <2>2
<1> QED
  BY <1>1, <1>2, <1>3, <1>4

\* The types of what Lockstep counts.
LEMMA LockstepTypes ==
  ASSUME IInv
  PROVE  /\ tx.n \in Nat /\ tx.resend \in Nat /\ Len(file) \in Nat /\ dups \in Nat
         /\ \A p \in net : p.type = "ACK" => p.n \in Nat /\ p.n <= Len(file) /\ p = Ack(p.n)
         /\ Len(file) <= tx.n
<1>1. \A p \in net : p.type = "ACK" => p.n \in 0 .. LastBlock /\ p = Ack(p.n)
  BY PacketKinds DEF IInv, TypeOK, TxError, RxError
<1> QED
  BY <1>1, Constants DEF IInv, TypeOK, Positions

\* A step that stays within its block, writes nothing and sends no ACK keeps the
\* accounts: the receiver's ERROR takes the place of its activity.
LEMMA LockstepFrame ==
  ASSUME IInv, IInv', Lockstep,
         file' = file, tx'.n = tx.n, tx'.resend = tx.resend, tx'.result # "unacked",
         tx'.pc = "next" => tx.pc = "next",
         dups' >= dups, RxActive' => RxActive,
         NEW q \in Packets, net' \subseteq net \cup {q},
         \/ q.type \in {"DATA", "TXERROR"}
         \/ q = RxError /\ RxActive /\ ~ RxActive'
  PROVE  Lockstep'
<1>1. IsFiniteSet(net') /\ IsFiniteSet(Pending) /\ Cardinality(Pending) \in Nat
  BY Counting DEF Lockstep, Pending
<1>2. /\ dups \in Nat /\ dups' \in Nat /\ tx.resend \in Nat
      /\ Slack = dups + (IF RxActive THEN 0 ELSE 1)
      /\ Slack' = dups' + (IF RxActive' THEN 0 ELSE 1)
  BY LockstepTypes, Constants DEF Slack, IInv, TypeOK
<1>3. tx.resend + Cardinality(Pending') <= Slack'
  <2>1. CASE q.type \in {"DATA", "TXERROR"}
    <3>1. Pending' \subseteq Pending
      BY <2>1 DEF Pending, RxError
    <3>2. Cardinality(Pending') \in Nat /\ Cardinality(Pending') <= Cardinality(Pending)
      BY <1>1, <3>1, Counting
    <3> QED
      BY <1>1, <1>2, <3>2 DEF Lockstep
  <2>2. CASE q = RxError /\ RxActive /\ ~ RxActive'
    <3>1. Pending' \subseteq Pending \cup {RxError}
      BY <2>2 DEF Pending, RxError
    <3>2. Cardinality(Pending') \in Nat /\ Cardinality(Pending') <= Cardinality(Pending) + 1
      BY <1>1, <3>1, Counting
    <3> QED
      BY <1>1, <1>2, <2>2, <3>2 DEF Lockstep
  <2> QED
    BY <2>1, <2>2
<1> QED
  BY <1>1, <1>3 DEF Lockstep

\* The block acknowledged is the last one written, so that the transmitter is
\* level with the receiver and only copies of ACKs stay in flight.
LEMMA TxReceiveAckKeepsLockstep ==
  ASSUME IInv, IInv', Lockstep, NEW p \in net, NEW again \in BOOLEAN, TxReceiveAck(p, again)
  PROVE  Lockstep'
<1>1. /\ Len(file) = tx.n /\ p.n = tx.n /\ p.type = "ACK" /\ p # RxError
      /\ tx.pc = "wait" /\ UNCHANGED <<rx, file>> /\ (RxActive' <=> RxActive)
      /\ net' = InFlight(p, again)
  BY AckIsCurrent DEF TxReceiveAck, Receives, AcksCurrentBlock, RxError, RxActive
<1>2. /\ tx'.n = tx.n /\ tx'.resend = tx.resend /\ tx'.result # "unacked"
  BY DEF TxReceiveAck, EndOfBlock, IInv, TypeOK, Lockstep
<1>3. IsFiniteSet(net') /\ IsFiniteSet(Pending) /\ Cardinality(Pending) \in Nat
  <2>1. net' \subseteq net
    BY <1>1, NetworkBounds
  <2> QED
    BY <2>1, Counting DEF Lockstep, Pending
<1>4. /\ dups \in Nat /\ tx.resend \in Nat
      /\ dups' = IF again THEN dups + 1 ELSE dups
      /\ Slack = dups + (IF RxActive THEN 0 ELSE 1)
      /\ Slack' = dups' + (IF RxActive THEN 0 ELSE 1)
  BY <1>1, LockstepTypes DEF Slack, TxReceiveAck, Receives
<1>5. Pending' \subseteq Pending \cup (IF again THEN {p} ELSE {})
  <2> SUFFICES ASSUME NEW x \in Pending', x \notin Pending
               PROVE  x = p /\ again
    OBVIOUS
  <2>1. x \in net /\ x \in net' /\ x.type = "ACK" /\ ~ x.n < tx.n
    BY <1>1, NetworkBounds DEF Pending
  <2>2. x.n \in Nat /\ x.n <= tx.n /\ x = Ack(x.n) /\ p = Ack(p.n) /\ tx.n \in Nat
    BY <1>1, <2>1, LockstepTypes
  <2>3. x = p
    BY <1>1, <2>1, <2>2
  <2> QED
    BY <1>1, <2>1, <2>3 DEF InFlight
<1>6. tx.resend + Cardinality(Pending') <= Slack'
  <2>1. CASE again
    <3>1. Cardinality(Pending') \in Nat /\ Cardinality(Pending') <= Cardinality(Pending) + 1
      BY <1>3, <1>5, <2>1, Counting
    <3> QED
      BY <1>3, <1>4, <2>1, <3>1 DEF Lockstep
  <2>2. CASE ~ again
    <3>1. Cardinality(Pending') \in Nat /\ Cardinality(Pending') <= Cardinality(Pending)
      BY <1>3, <1>5, <2>2, Counting
    <3> QED
      BY <1>3, <1>4, <2>2, <3>1 DEF Lockstep
  <2> QED
    BY <2>1, <2>2
<1> QED
  BY <1>1, <1>2, <1>3, <1>6, LockstepTypes DEF Lockstep

\* An answer of another kind costs an attempt and is taken out of the account,
\* or it was copied.  The attempts last as long as there are more of them than
\* copies.
LEMMA TxReceiveOtherKeepsLockstep ==
  ASSUME dups' + 1 < MaxRetry, IInv, IInv', Lockstep,
         NEW p \in net, NEW again \in BOOLEAN, TxReceiveOther(p, again)
  PROVE  Lockstep'
<1>1. /\ tx.pc = "wait" /\ UNCHANGED <<rx, file>> /\ (RxActive' <=> RxActive)
      /\ TxTriesAgain(InFlight(p, again)) /\ tx.resend < MaxRetry
      /\ dups' = IF again THEN dups + 1 ELSE dups
  BY DEF TxReceiveOther, Receives, RxActive, IInv, Positions
<1>2. /\ tx.n \in Nat /\ tx.resend \in Nat /\ MaxRetry \in Nat /\ MaxDup \in Nat
      /\ dups \in Nat /\ dups' \in 0 .. MaxDup
  BY LockstepTypes, Constants DEF IInv, TypeOK
<1>3. p \in Pending
  <2>1. CASE p.type = "ACK"
    <3>1. p.n \in Nat /\ p.n <= tx.n
      BY <1>2, <2>1, LockstepTypes
    <3>2. p.n # tx.n
      BY <2>1 DEF TxReceiveOther, AcksCurrentBlock
    <3> QED
      BY <1>2, <2>1, <3>1, <3>2 DEF Pending
  <2>2. CASE p.type # "ACK"
    BY <2>2, PacketKinds DEF Pending, TxReceiveOther, ToTx, IInv, TypeOK
  <2> QED
    BY <2>1, <2>2
<1>4. IsFiniteSet(Pending) /\ Cardinality(Pending) \in Nat
  BY Counting DEF Lockstep, Pending
<1>5. IsFiniteSet(InFlight(p, again))
  <2>1. InFlight(p, again) \subseteq net
    BY NetworkBounds
  <2> QED
    BY <2>1, Counting DEF Lockstep
<1>6. net' = InFlight(p, again)
  BY <1>1, <1>2 DEF TxTriesAgain
<1> DEFINE Left == {q \in InFlight(p, again) : q.type = "ACK" /\ q.n < tx.n}
                   \cup (InFlight(p, again) \cap {RxError})
<1>7. Left \subseteq IF again THEN Pending ELSE Pending \ {p}
  BY DEF InFlight, Pending
<1>8. Cardinality(Left) \in Nat /\ tx.resend + 1 + Cardinality(Left) <= Slack'
  <2>1. /\ Slack = dups + (IF RxActive THEN 0 ELSE 1)
        /\ Slack' = dups' + (IF RxActive THEN 0 ELSE 1)
        /\ tx.resend + Cardinality(Pending) <= Slack
    BY <1>1 DEF Slack, Lockstep
  <2> HIDE DEF Left
  <2>2. CASE again
    <3>1. Cardinality(Left) \in Nat /\ Cardinality(Left) <= Cardinality(Pending)
      BY <1>4, <1>7, <2>2, Counting
    <3> QED
      BY <1>1, <1>2, <1>4, <2>1, <2>2, <3>1
  <2>3. CASE ~ again
    <3>1. Cardinality(Left) \in Nat /\ Cardinality(Left) + 1 <= Cardinality(Pending)
      BY <1>3, <1>4, <1>7, <2>3, Counting
    <3> QED
      BY <1>1, <1>2, <1>4, <2>1, <2>3, <3>1
  <2> QED
    BY <2>2, <2>3
<1>9. tx.resend + 1 < MaxRetry
  <2>1. dups' \in Nat
    BY <1>2
  <2>2. Slack' \in Nat /\ Slack' <= dups' + 1
    BY <1>1, <2>1 DEF Slack
  <2>3. tx.resend + 1 <= Slack'
    <3> HIDE DEF Left
    <3> QED
      BY <1>2, <1>8, <2>2
  <2>4. \A a, b, c, d \in Nat : a + 1 <= b /\ b <= c + 1 /\ c + 1 < d => a + 1 < d
    OBVIOUS
  <2>5. tx.resend \in Nat /\ MaxRetry \in Nat
    BY <1>2
  <2> QED
    BY <2>1, <2>2, <2>3, <2>4, <2>5
<1>10. /\ tx'.pc = "send" /\ tx'.resend = tx.resend + 1 /\ tx'.n = tx.n
       /\ tx'.result = tx.result
  <2>1. tx' = [tx EXCEPT !.resend = tx.resend + 1, !.pc = "send"]
    BY <1>1, <1>2, <1>9 DEF TxTriesAgain, IInv, TypeOK
  <2> QED
    BY <2>1 DEF IInv, TypeOK
<1>11. Pending' = Left
  BY <1>6, <1>10 DEF Pending
<1> QED
  BY <1>1, <1>5, <1>6, <1>8, <1>10, <1>11 DEF Lockstep

\* Taking the next block turns every ACK in flight into an old one, as they were
\* counted already.
LEMMA TxNextKeepsLockstep ==
  ASSUME IInv, IInv', Lockstep, TxNext
  PROVE  Lockstep'
<1>1. /\ tx.pc = "next" /\ tx.n = Len(file) /\ UNCHANGED <<rx, file, net, dups>>
      /\ tx'.pc = "send" /\ tx'.n = tx.n + 1 /\ tx'.resend = 0 /\ tx'.result = tx.result
  BY DEF TxNext, IInv, TypeOK, Lockstep
<1>2. tx.n \in Nat /\ tx.resend \in Nat
  BY LockstepTypes
<1>3. Pending' \subseteq Pending
  BY <1>1 DEF Pending
<1>4. /\ IsFiniteSet(Pending) /\ Cardinality(Pending) \in Nat /\ Cardinality(Pending') \in Nat
      /\ Cardinality(Pending') <= Cardinality(Pending)
  <2>1. IsFiniteSet(Pending)
    BY Counting DEF Lockstep, Pending
  <2> QED
    BY <1>3, <2>1, Counting
<1>5. Slack' = Slack /\ Slack \in Nat
  BY <1>1, LockstepTypes DEF Slack, RxActive
<1> QED
  BY <1>1, <1>2, <1>4, <1>5 DEF Lockstep

\* The ACK of the block written is that of the transmitter's current block, and
\* costs no attempt.
LEMMA RxAcceptKeepsLockstep ==
  ASSUME IInv, IInv', Lockstep, NEW p \in net, NEW again \in BOOLEAN, RxAccept(p, again)
  PROVE  Lockstep'
<1>1. /\ rx.pc = "recv" /\ RxActive /\ Fresh(p) /\ IsExpected(p) /\ tx' = tx
      /\ dups' \in {dups, dups + 1} /\ Expected = Len(file) + 1
      /\ net' \subseteq net \cup {Ack(Expected)}
  <2>1. net' \in Sends(Ack(Expected), InFlight(p, again))
    BY DEF RxAccept
  <2>2. net' \subseteq net \cup {Ack(Expected)}
    BY <2>1, NetworkBounds
  <2> QED
    BY <2>2 DEF RxAccept, Receives, RxActive, Expected
<1>2. p.type = "DATA" /\ p.n = Len(file) + 1 /\ p.n <= tx.n
  BY <1>1, ExpectedIsNext DEF Expected, Data, IInv, Positions
<1>3. Len(file') = Len(file) + 1
  BY DEF RxAccept, IInv, TypeOK
<1>4. tx.n = Len(file) + 1 /\ tx.pc # "next"
  BY <1>2, LockstepTypes DEF Lockstep
<1>5. Pending' \subseteq Pending
  <2>1. Ack(Expected).n = tx.n /\ Ack(Expected) # RxError
    BY <1>1, <1>4 DEF Ack, RxError
  <2> QED
    BY <1>1, <1>4, <2>1, LockstepTypes DEF Pending
<1>6. /\ IsFiniteSet(net') /\ Cardinality(Pending) \in Nat /\ Cardinality(Pending') \in Nat
      /\ Cardinality(Pending') <= Cardinality(Pending)
  <2>1. IsFiniteSet(Pending)
    BY Counting DEF Lockstep, Pending
  <2> QED
    BY <1>1, <1>5, <2>1, Counting DEF Lockstep
<1>7. Slack' >= Slack /\ Slack \in Nat /\ Slack' \in Nat
  BY <1>1, LockstepTypes DEF Slack
<1> QED
  BY <1>1, <1>3, <1>4, <1>6, <1>7, LockstepTypes DEF Lockstep

\* The other steps of the transmitter abort or send.
LEMMA TxStepKeepsLockstep ==
  ASSUME dups' + 1 < MaxRetry, IInv, IInv', Lockstep, TxStep
  PROVE  Lockstep'
<1>1. ASSUME NEW others \in SUBSET net, TxAborts(others), file' = file, rx' = rx,
             dups' >= dups
      PROVE  Lockstep'
  <2>1. net' \subseteq net \cup {TxError} /\ TxError \in Packets /\ TxError.type = "TXERROR"
    BY <1>1, NetworkBounds DEF TxAborts, Packets, TxError
  <2>2. /\ tx'.n = tx.n /\ tx'.resend = tx.resend /\ tx'.result = "failed"
        /\ tx'.pc = "returned"
    BY <1>1 DEF TxAborts, IInv, TypeOK
  <2> QED
    BY <1>1, <2>1, <2>2, LockstepFrame DEF RxActive
<1>2. dups \in Nat /\ dups >= dups
  BY LockstepTypes
<1>3. CASE TxTerminate \/ TxReadFails \/ TxSendFails
  BY <1>1, <1>2, <1>3 DEF TxTerminate, TxReadFails, TxSendFails
<1>4. CASE TxSend
  <2>1. Data(tx.n) \in Packets /\ Data(tx.n).type = "DATA"
    BY <1>4, Constants DEF Data, Packets, DataPackets, TxSend, IInv, TypeOK, Positions
  <2>2. /\ tx'.n = tx.n /\ tx'.resend = tx.resend /\ tx'.result = tx.result /\ tx'.pc = "wait"
        /\ UNCHANGED <<rx, file, dups>> /\ net' = net \cup {Data(tx.n)}
    BY <1>4 DEF TxSend, IInv, TypeOK
  <2> QED
    BY <1>2, <2>1, <2>2, LockstepFrame DEF RxActive, Lockstep
<1>5. CASE TxReceiveFails
  BY <1>1, <1>2, <1>5 DEF TxReceiveFails, RecvErrnos, CountsAsAttempt
<1>6. ASSUME NEW p \in net, NEW again \in BOOLEAN, TxReceiveError(p, again)
      PROVE  Lockstep'
  <2>1. net' \subseteq net \cup {TxError} /\ TxError \in Packets /\ TxError.type = "TXERROR"
    BY <1>6, NetworkBounds DEF TxReceiveError, Packets, TxError
  <2>2. /\ tx'.n = tx.n /\ tx'.resend = tx.resend /\ tx'.result = "failed"
        /\ tx'.pc = "returned" /\ UNCHANGED <<rx, file>>
    BY <1>6 DEF TxReceiveError, IInv, TypeOK
  <2>3. dups' >= dups
    BY <1>2, <1>6 DEF TxReceiveError, Receives
  <2> QED
    BY <2>1, <2>2, <2>3, LockstepFrame DEF RxActive
<1> QED
  BY <1>3, <1>4, <1>5, <1>6, TxNextKeepsLockstep, TxReceiveAckKeepsLockstep,
     TxReceiveOtherKeepsLockstep DEF TxStep

\* The other steps of the receiver end it, or leave the accounts alone.
LEMMA RxStepKeepsLockstep ==
  ASSUME IInv, IInv', Lockstep, RxStep
  PROVE  Lockstep'
<1>1. /\ dups \in Nat /\ dups >= dups
      /\ RxError \in Packets /\ TxError \in Packets /\ TxError.type = "TXERROR"
  BY LockstepTypes DEF Packets, TxError
<1>2. ASSUME UNCHANGED <<tx, file>>, dups' >= dups, RxActive, ~ RxActive',
             net' \subseteq net \cup {RxError}
      PROVE  Lockstep'
  BY <1>1, <1>2, LockstepFrame DEF Lockstep
<1>3. ASSUME UNCHANGED <<tx, file>>, dups' >= dups, RxActive' => RxActive,
             net' \subseteq net
      PROVE  Lockstep'
  BY <1>1, <1>3, LockstepFrame DEF Lockstep
<1>4. ASSUME rx.pc \in {"check", "recv"}, RxFails, net' \in RxErrorSends(net),
             UNCHANGED <<tx, file, dups>>
      PROVE  Lockstep'
  <2>1. RxActive /\ ~ RxActive'
    BY <1>4 DEF RxFails, RxActive, IInv, TypeOK
  <2> QED
    BY <1>1, <1>2, <1>4, <2>1, NetworkBounds
<1>5. CASE RxTerminate
  BY <1>4, <1>5 DEF RxTerminate
<1>6. CASE RxContinue
  BY <1>1, <1>3, <1>6 DEF RxContinue, RxActive
<1>7. CASE RxReceiveFails
  <2>1. CASE rx.retry < MaxRetry
    BY <1>1, <1>3, <1>7, <2>1 DEF RxReceiveFails, RxActive
  <2>2. CASE ~ rx.retry < MaxRetry
    BY <1>4, <1>7, <2>2 DEF RxReceiveFails
  <2> QED
    BY <2>1, <2>2
<1>8. CASE RxClose
  BY <1>1, <1>3, <1>8 DEF RxClose, RxActive, IInv, TypeOK
<1>9. ASSUME NEW p \in net, NEW again \in BOOLEAN, RxWriteFails(p, again)
      PROVE  Lockstep'
  <2>1. net' \subseteq net \cup {RxError}
    <3>1. net' \in Sends(RxError, InFlight(p, again))
      BY <1>9 DEF RxWriteFails
    <3> QED
      BY <3>1, NetworkBounds
  <2>2. dups' >= dups /\ UNCHANGED <<tx, file>> /\ RxActive /\ ~ RxActive'
    BY <1>1, <1>9 DEF RxWriteFails, Receives, RxActive, IInv, TypeOK
  <2> QED
    BY <1>2, <2>1, <2>2
<1>10. ASSUME NEW p \in net, NEW again \in BOOLEAN,
              RxReceiveError(p, again) \/ RxIgnore(p, again)
       PROVE  Lockstep'
  <2>1. net' \subseteq net /\ UNCHANGED <<tx, file>> /\ rx.pc = "recv"
    BY <1>10, NetworkBounds DEF RxReceiveError, RxIgnore
  <2>2. dups' >= dups
    BY <1>1, <1>10 DEF RxReceiveError, RxIgnore, Receives
  <2> QED
    BY <1>3, <2>1, <2>2 DEF RxActive
<1> QED
  BY <1>5, <1>6, <1>7, <1>8, <1>9, <1>10, RxAcceptKeepsLockstep DEF RxStep

\* Fewer copies have been made than cost a block all its attempts.
FewCopies == dups + 1 < MaxRetry

\* Copies are only ever added.
LEMMA CopiesGrow == IInv /\ [Next]_vars /\ FewCopies' => FewCopies
<1> SUFFICES ASSUME IInv, [Next]_vars, FewCopies' PROVE FewCopies
  OBVIOUS
<1>1. dups \in Nat /\ MaxRetry \in Nat
  BY LockstepTypes, Constants
<1>2. dups' = dups \/ dups' = dups + 1
  BY DEF Next, vars, TxStep, RxStep, TxTerminate, TxNext, TxReadFails, TxSend, TxSendFails,
     TxReceiveFails, TxReceiveError, TxReceiveAck, TxReceiveOther, Lose, Signal, Crash,
     Finished, RxTerminate, RxContinue, RxReceiveFails, RxClose, RxAccept, RxWriteFails,
     RxReceiveError, RxIgnore, Receives
<1> QED
  BY <1>1, <1>2 DEF FewCopies

\* Lockstep holds as long as there are fewer copies than attempts.
LEMMA LockstepInvariance == Spec => [](FewCopies => Lockstep)
<1>1. Init => Lockstep
  <2> SUFFICES ASSUME Init PROVE Lockstep
    OBVIOUS
  <2>1. /\ tx.n = 0 /\ tx.resend = 0 /\ tx.pc = "next" /\ tx.result = "none"
        /\ Len(file) = 0 /\ RxActive
    BY DEF Init, RxActive
  <2>2. CASE net = {} /\ dups = 0
    <3>1. Pending = {}
      BY <2>2 DEF Pending
    <3> QED
      BY <2>1, <2>2, <3>1, FS_EmptySet DEF Lockstep, Slack
  <2>3. CASE net = {Ack(0)} /\ dups = 1
    <3>1. IsFiniteSet(net) /\ Cardinality(net) = 1
      BY <2>3, FS_Singleton
    <3>2. Pending \subseteq net
      BY DEF Pending
    <3>3. Cardinality(Pending) <= 1 /\ Cardinality(Pending) \in Nat
      BY <3>1, <3>2, Counting
    <3> QED
      BY <2>1, <2>3, <3>1, <3>3 DEF Lockstep, Slack
  <2> QED
    BY <2>2, <2>3 DEF Init
<1>2. IInv /\ IInv' /\ (FewCopies => Lockstep) /\ [Next]_vars => (FewCopies => Lockstep)'
  <2> SUFFICES ASSUME IInv, IInv', FewCopies => Lockstep, [Next]_vars, FewCopies'
               PROVE  Lockstep'
    OBVIOUS
  <2>0. Lockstep /\ dups' + 1 < MaxRetry
    BY CopiesGrow DEF FewCopies
  <2>1. dups \in Nat /\ dups >= dups /\ TxError \in Packets /\ TxError.type = "TXERROR"
    BY LockstepTypes DEF Packets, TxError
  <2>2. CASE Lose \/ Crash
    <3>1. /\ UNCHANGED <<file, dups>> /\ net' \subseteq net /\ (RxActive' => RxActive)
          /\ tx'.n = tx.n /\ tx'.resend = tx.resend /\ tx'.result = tx.result
          /\ tx'.pc = "next" => tx.pc = "next"
      BY <2>2 DEF Lose, Crash, RxActive, IInv, TypeOK
    <3> QED
      BY <2>0, <2>1, <3>1, LockstepFrame DEF Lockstep
  <2>3. CASE (\E side \in {"tx", "rx"} : Signal(side)) \/ Finished \/ UNCHANGED vars
    <3>1. UNCHANGED <<tx, rx, file, net, dups>>
      BY <2>3 DEF Signal, Finished, vars
    <3> QED
      BY <2>0, <3>1 DEF Lockstep, Pending, Slack, RxActive
  <2> QED
    BY <2>0, <2>2, <2>3, TxStepKeepsLockstep, RxStepKeepsLockstep DEF Next
<1> QED
  BY <1>1, <1>2, Invariance, PTL DEF Spec

\* With fread() and fwrite() all-or-nothing, tftp_transmit_file() returns true
\* without the receiver having the whole file only when there have been
\* max_retry_count - 1 copies, however many the network may make.
THEOREM SuccessMeansDelivery ==
  ASSUME {"shortread", "shortwrite"} \cap Faults = {}
  PROVE  Spec => []SuccessIsDelivered
<1>1. IInv /\ IsPrefix /\ (FewCopies => Lockstep) => SuccessIsDelivered
  <2> SUFFICES ASSUME IInv, IsPrefix, FewCopies => Lockstep,
                      tx.result \in {"acked", "unacked"}, ~ dups + 1 >= MaxRetry
               PROVE  file = Whole
    BY DEF SuccessIsDelivered
  <2>1. FewCopies
    BY LockstepTypes, Constants DEF FewCopies
  <2> QED
    BY <2>1, PrefixIsWhole DEF IInv, Outcomes, Lockstep
<1>2. Spec => []IsPrefix
  BY PrefixInvariance
<1>3. Spec => [](FewCopies => Lockstep)
  BY LockstepInvariance
<1> QED
  BY <1>1, <1>2, <1>3, Invariance, PTL
=============================================================================
