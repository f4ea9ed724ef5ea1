------------------------------ MODULE Transfer ------------------------------
(***************************************************************************)
(* One file transfer of stftpu: a task that runs tftp_transmit_file() and  *)
(* a task that runs tftp_receive_file(), exchanging DATA, ACK and ERROR    *)
(* packets over UDP.  An upload (WRQ) has the client transmit and the      *)
(* server receive, a download (RRQ) the other way round.  The model starts *)
(* when the request has been accepted and both loops are about to run.     *)
(*                                                                         *)
(* A block is named by its position in the source file; the 16-bit number  *)
(* that travels in a packet is Wire(n).  The bytes of a block are          *)
(* abstracted to that name, its length is kept.                            *)
(***************************************************************************)
EXTENDS Integers, Sequences

CONSTANTS
  FullBlocks,    \* total_file_size / block_size
  TailBytes,     \* total_file_size % block_size
  BlockSize,     \* op_data->block_size, the same at both ends
  BlockMod,      \* size of the block number field: 2^16 in the program
  MaxAge,        \* blocks of progress a datagram survives in the network
  MaxRetry,      \* tftp_common.max_retry_count: 5 in the program
  MaxDup,        \* how many times the network may duplicate a delivery
  Upload,        \* TRUE: the server receives; FALSE: the client receives
  LittleEndian,  \* byte order of the transmitting host
  Faults         \* the environment faults that may happen

FaultKinds ==
  { "loss",        \* the network drops a datagram
    "early",       \* a receive timeout expires although an answer is coming
    "send",        \* sendto() fails
    "read",        \* fread() fails before the end of the file
    "shortread",   \* fread() fails in the middle of a block
    "write",       \* fwrite() stores nothing
    "shortwrite",  \* fwrite() stores a part of the block
    "remove",      \* remove() fails although the file is there
    "signal",      \* SIGINT, SIGTERM or SIGHUP sets should_terminate
    "crash" }      \* a process dies without a word

ASSUME TransferAssumption ==
  /\ FullBlocks \in Nat
  /\ BlockSize \in Nat \ {0}
  /\ TailBytes \in 0 .. BlockSize - 1
  /\ BlockMod \in Nat \ {0}
  /\ MaxAge \in 1 .. BlockMod - 1
  /\ MaxRetry \in Nat \ {0}
  /\ MaxDup \in Nat
  /\ Upload \in BOOLEAN
  /\ LittleEndian \in BOOLEAN
  /\ Faults \subseteq FaultKinds

VARIABLES
  tx,     \* the transmitting task: pc, current block, resend_counter, result,
          \* the block of which fread() returned a part only (0: none)
  rx,     \* the receiving task: pc, resend_counter, result, peer known or not
  file,   \* the receiver's file: the blocks written to it, in order
  kept,   \* the receiver's file is still in its directory
  net,    \* datagrams in flight
  dups,   \* deliveries duplicated so far
  term    \* the sides whose should_terminate flag is set

vars == <<tx, rx, file, kept, net, dups, term>>

-----------------------------------------------------------------------------
(* Blocks and packets                                                      *)

LastBlock == FullBlocks + 1      \* total_block_count

\* fread() of block n: a full block, or what is left of the file.
BlockLen(n) == IF n <= FullBlocks THEN BlockSize ELSE TailBytes

\* Mutant: any block that carries bytes counts as full.
IsFullUnlessEmpty(n) == BlockLen(n) > 0

IsFull(n) == BlockLen(n) = BlockSize /\ n # tx.cut

\* Mutant: the block number is cut to a narrower field.
WireNarrow(n) == n % (BlockMod \div 2)

\* current_block_number is a uint16_t: it wraps.
Wire(n) == n % BlockMod

Data(n)  == [type |-> "DATA", n |-> n]
Ack(n)   == [type |-> "ACK", n |-> n]
TxError  == [type |-> "TXERROR", n |-> 0]   \* ERROR sent by the transmitter
RxError  == [type |-> "RXERROR", n |-> 0]   \* ERROR sent by the receiver

DataPackets == {Data(n) : n \in 1 .. LastBlock}
AckPackets  == {Ack(n) : n \in 0 .. LastBlock}
Packets     == DataPackets \cup AckPackets \cup {TxError, RxError}

ToTx(p) == p.type \in {"ACK", "RXERROR"}
ToRx(p) == p.type \in {"DATA", "TXERROR"}

\* A block that fread() returned, or fwrite() stored, only in part.
Torn == 0

-----------------------------------------------------------------------------
(* The network: UDP may lose, delay, reorder and duplicate, but a datagram *)
(* does not outlive MaxAge blocks of progress.                             *)

Fresh(p) == p \in {TxError, RxError} \/ p.n + MaxAge > tx.n

\* recvfrom() returns p, of which another copy may stay in flight.
Receives(p, again) ==
  /\ p \in net
  /\ Fresh(p)
  /\ again => dups < MaxDup
  /\ dups' = IF again THEN dups + 1 ELSE dups

InFlight(p, again) == IF again THEN net ELSE net \ {p}

\* The network after sendto() of p, whose failure the caller ignores.
Sends(p, others) == {others \cup {p}} \cup (IF "send" \in Faults THEN {others} ELSE {})

\* Neither side can be handed a packet and neither is about to send one.
Quiet ==
  /\ tx.pc \in {"wait", "returned"}
  /\ rx.pc \in {"recv", "returned", "closed"}
  /\ \A p \in net : ~ /\ Fresh(p)
                      /\ \/ ToTx(p) /\ tx.pc = "wait"
                         \/ ToRx(p) /\ rx.pc = "recv"

\* SO_RCVTIMEO is one second: unless packets may be that slow, or a signal may
\* interrupt it, recvfrom() fails only when nothing is on its way.
TimesOut == {"early", "signal"} \cap Faults # {} \/ Quiet

\* What errno may hold when recvfrom() fails on a UDP socket with
\* SO_RCVTIMEO: socket(7) and recv(2) name EAGAIN for the timeout and EINTR
\* for a signal.
RecvErrnos == {"EAGAIN", "EINTR"}

Lose == /\ "loss" \in Faults
        /\ \E p \in net : net' = net \ {p}
        /\ UNCHANGED <<tx, rx, file, kept, dups, term>>

-----------------------------------------------------------------------------
(* The transmitter: tftp_transmit_file()                                   *)

\* return false, after tftp_send_error() to the peer.
TxAborts(others) ==
  /\ tx' = [tx EXCEPT !.pc = "returned", !.result = "failed"]
  /\ net' \in Sends(TxError, others)

\* The end of the inner loop: another block if this one was full, else
\* return true.
EndOfBlock(t, how) ==
  IF IsFull(t.n)
  THEN [t EXCEPT !.pc = "next"]
  ELSE [t EXCEPT !.pc = "returned", !.result = how]

\* CHECK_SIGTERM_DURING_TRANSFER, at the top of both loops.
TxTerminate ==
  /\ tx.pc \in {"next", "send"}
  /\ "tx" \in term
  /\ TxAborts(net)
  /\ UNCHANGED <<rx, file, kept, dups, term>>

\* A part of a block is sent as the last block of the file: feof() is asked
\* only when fread() returned nothing.
Cuts(n) == {0} \cup (IF "shortread" \in Faults /\ BlockLen(n) > 1 THEN {n} ELSE {})

TxNext ==
  /\ tx.pc = "next"
  /\ "tx" \notin term
  /\ \E cut \in Cuts(tx.n + 1) :
       tx' = [tx EXCEPT !.pc = "send", !.n = @ + 1, !.resend = 0, !.cut = cut]
  /\ UNCHANGED <<rx, file, kept, net, dups, term>>

TxReadFails ==
  /\ tx.pc = "next"
  /\ "tx" \notin term
  /\ "read" \in Faults
  /\ TxAborts(net)
  /\ UNCHANGED <<rx, file, kept, dups, term>>

TxSend ==
  /\ tx.pc = "send"
  /\ "tx" \notin term
  /\ net' = net \cup {Data(tx.n)}
  /\ tx' = [tx EXCEPT !.pc = "wait"]
  /\ UNCHANGED <<rx, file, kept, dups, term>>

TxSendFails ==
  /\ tx.pc = "send"
  /\ "tx" \notin term
  /\ "send" \in Faults
  /\ TxAborts(net)
  /\ UNCHANGED <<rx, file, kept, dups, term>>

\* ntohs() on a little-endian host swaps the two bytes.
Ntohs(x) == IF LittleEndian THEN (x % 256) * 256 + x \div 256 ELSE x

TFTP_ACK == 4
TFTP_ERROR == 5

Opcode(p) == IF p.type = "ACK" THEN TFTP_ACK ELSE TFTP_ERROR

\* The test is written ntohs(opcode == TFTP_ERROR): it compares the field as
\* it arrived, in network byte order.
TakenForError(p) == Ntohs(Opcode(p)) = TFTP_ERROR

\* Mutant: any ACK will do.
AcksAnyBlock(p) == p.type = "ACK"

\* Mutant: the ACK of the previous block is taken for this one.
AcksPreviousBlock(p) == p.type = "ACK" /\ Wire(p.n + 1) = Wire(tx.n)

AcksCurrentBlock(p) == p.type = "ACK" /\ Wire(p.n) = Wire(tx.n)

\* One more attempt, if resend_counter leaves one; the inner loop ends
\* without an acknowledgement otherwise.  The retry limit of the code,
\* resend_counter > max_retry_count, is tested before the increment.
TxTriesAgain(others) ==
  IF tx.resend > MaxRetry
  THEN TxAborts(others)
  ELSE /\ LET t == [tx EXCEPT !.resend = @ + 1]
          IN tx' = IF t.resend < MaxRetry THEN [t EXCEPT !.pc = "send"]
                                          ELSE EndOfBlock(t, "unacked")
       /\ net' = others

\* Mutant: the errno of SO_RCVTIMEO is recognised, so that silence uses up
\* the attempts of a block and the block is then taken as sent.
CountsEagain(errno) == errno \in {"ETIMEDOUT", "EAGAIN"}

\* Which failure of recvfrom() costs an attempt instead of ending the transfer.
CountsAsAttempt(errno) == errno = "ETIMEDOUT"

TxReceiveFails ==
  /\ tx.pc = "wait"
  /\ TimesOut
  /\ \E errno \in RecvErrnos :
       IF CountsAsAttempt(errno) THEN TxTriesAgain(net) ELSE TxAborts(net)
  /\ UNCHANGED <<rx, file, kept, dups, term>>

TxReceiveError(p, again) ==
  /\ tx.pc = "wait" /\ ToTx(p)
  /\ Receives(p, again)
  /\ TakenForError(p)
  /\ tx' = [tx EXCEPT !.pc = "returned", !.result = "failed"]
  /\ net' = InFlight(p, again)
  /\ UNCHANGED <<rx, file, kept, term>>

TxReceiveAck(p, again) ==
  /\ tx.pc = "wait" /\ ToTx(p)
  /\ Receives(p, again)
  /\ ~ TakenForError(p)
  /\ AcksCurrentBlock(p)
  /\ tx' = EndOfBlock(tx, "acked")
  /\ net' = InFlight(p, again)
  /\ UNCHANGED <<rx, file, kept, term>>

\* Any other answer counts as an attempt.
TxReceiveOther(p, again) ==
  /\ tx.pc = "wait" /\ ToTx(p)
  /\ Receives(p, again)
  /\ ~ TakenForError(p)
  /\ ~ AcksCurrentBlock(p)
  /\ TxTriesAgain(InFlight(p, again))
  /\ UNCHANGED <<rx, file, kept, term>>

-----------------------------------------------------------------------------
(* The receiver: tftp_receive_file() and what its caller does with the     *)
(* file when it returns.                                                   *)

\* current_block_number of the receiver, before it is cut to 16 bits.
Expected == Len(file) + 1

\* tftp_send_error() says nothing while the peer address is still port 69.
RxErrorSends(others) == IF rx.peer THEN Sends(RxError, others) ELSE {others}

RxFails == rx' = [rx EXCEPT !.pc = "returned", !.result = "failed"]

\* CHECK_SIGTERM_DURING_TRANSFER, once per block.
RxTerminate ==
  /\ rx.pc = "check"
  /\ "rx" \in term
  /\ RxFails
  /\ net' \in RxErrorSends(net)
  /\ UNCHANGED <<tx, file, kept, dups, term>>

\* Mutant: should_terminate is not looked at between blocks.
RxContinueRegardless ==
  /\ rx.pc = "check"
  /\ rx' = [rx EXCEPT !.pc = "recv"]
  /\ UNCHANGED <<tx, file, kept, net, dups, term>>

RxContinue ==
  /\ rx.pc = "check"
  /\ "rx" \notin term
  /\ rx' = [rx EXCEPT !.pc = "recv"]
  /\ UNCHANGED <<tx, file, kept, net, dups, term>>

\* Mutant: the block number of a DATA packet is not compared.
IsAnyData(p) == p.type = "DATA"

\* Mutant: the receiver also takes the block it has just written.
IsExpectedOrPrevious(p) ==
  p.type = "DATA" /\ Wire(p.n) \in {Wire(Expected), Wire(Expected - 1)}

IsExpected(p) == p.type = "DATA" /\ Wire(p.n) = Wire(Expected)

\* fwrite() returns 0 for an empty block, as it does when it fails.
WritesNothing(p) == BlockLen(p.n) = 0

\* What fwrite() leaves in the file when it returns a positive count.
Stored(p) ==
  {IF p.n = tx.cut THEN Torn ELSE p.n}
  \cup (IF "shortwrite" \in Faults /\ BlockLen(p.n) > 1 THEN {Torn} ELSE {})

RxAccept(p, again) ==
  /\ rx.pc = "recv"
  /\ Receives(p, again)
  /\ IsExpected(p)
  /\ ~ WritesNothing(p)
  /\ \E block \in Stored(p) : file' = Append(file, block)
  /\ net' \in Sends(Ack(Expected), InFlight(p, again))
  /\ rx' = IF IsFull(p.n)
           THEN [rx EXCEPT !.pc = "check", !.retry = 0, !.peer = TRUE]
           ELSE [rx EXCEPT !.pc = "returned", !.retry = 0, !.peer = TRUE,
                           !.result = "complete"]
  /\ UNCHANGED <<tx, kept, term>>

RxWriteFails(p, again) ==
  /\ rx.pc = "recv"
  /\ Receives(p, again)
  /\ IsExpected(p)
  /\ WritesNothing(p) \/ "write" \in Faults
  /\ rx' = [rx EXCEPT !.pc = "returned", !.result = "failed", !.peer = TRUE]
  /\ net' \in Sends(RxError, InFlight(p, again))
  /\ UNCHANGED <<tx, file, kept, term>>

RxReceiveError(p, again) ==
  /\ rx.pc = "recv"
  /\ Receives(p, again)
  /\ p = TxError
  /\ rx' = [rx EXCEPT !.pc = "returned", !.result = "failed", !.peer = TRUE]
  /\ net' = InFlight(p, again)
  /\ UNCHANGED <<tx, file, kept, term>>

\* Mutant: a DATA packet with another number ends the reception.
RxAbortOnOther(p, again) ==
  /\ rx.pc = "recv" /\ ToRx(p)
  /\ Receives(p, again)
  /\ p # TxError /\ ~ IsExpected(p)
  /\ rx' = [rx EXCEPT !.pc = "returned", !.result = "failed", !.peer = TRUE]
  /\ net' = InFlight(p, again)
  /\ UNCHANGED <<tx, file, kept, term>>

\* A DATA packet with another number is dropped: no answer, no attempt used.
RxIgnore(p, again) ==
  /\ rx.pc = "recv" /\ ToRx(p)
  /\ Receives(p, again)
  /\ p # TxError /\ ~ IsExpected(p)
  /\ rx' = [rx EXCEPT !.peer = TRUE]
  /\ net' = InFlight(p, again)
  /\ UNCHANGED <<tx, file, kept, term>>

\* Mutant: a failed attempt is not counted.
RxAttemptUncounted == rx' = rx

RxAttempt == rx' = [rx EXCEPT !.retry = @ + 1]

RxReceiveFails ==
  /\ rx.pc = "recv"
  /\ TimesOut
  /\ IF rx.retry < MaxRetry
     THEN RxAttempt /\ UNCHANGED net
     ELSE /\ RxFails
          /\ net' \in RxErrorSends(net)
  /\ UNCHANGED <<tx, file, kept, dups, term>>

\* Mutant: the file is removed whatever the result.
RemovesEveryUpload(r) == Upload

\* The server removes the file of a failed upload, the client keeps it.
RemovesFile(r) == Upload /\ r.result = "failed"

\* Nobody looks at the result of that remove().
RxClose ==
  /\ rx.pc = "returned"
  /\ rx' = [rx EXCEPT !.pc = "closed"]
  /\ kept' \in {~ RemovesFile(rx)} \cup (IF "remove" \in Faults THEN {TRUE} ELSE {})
  /\ UNCHANGED <<tx, file, net, dups, term>>

-----------------------------------------------------------------------------
(* Signals and crashes                                                     *)

Signal(side) ==
  /\ "signal" \in Faults
  /\ side \notin term
  /\ term' = term \cup {side}
  /\ UNCHANGED <<tx, rx, file, kept, net, dups>>

Crash ==
  /\ "crash" \in Faults
  /\ \/ /\ tx.pc # "returned"
        /\ tx' = [tx EXCEPT !.pc = "returned"]
        /\ UNCHANGED rx
     \/ /\ rx.pc # "closed"
        /\ rx' = [rx EXCEPT !.pc = "closed"]
        /\ UNCHANGED tx
  /\ UNCHANGED <<file, kept, net, dups, term>>

Over == tx.pc = "returned" /\ rx.pc = "closed"

Finished == Over /\ UNCHANGED vars

-----------------------------------------------------------------------------
(* Specification                                                           *)

\* The client's wait for ACK 0 has ended; a copy of it may still arrive.
Init ==
  /\ tx = [pc |-> "next", n |-> 0, resend |-> 0, result |-> "none", cut |-> 0]
  /\ rx = [pc |-> "check", retry |-> 0, result |-> "none", peer |-> Upload]
  /\ file = <<>>
  /\ kept = TRUE
  /\ \/ net = {} /\ dups = 0
     \/ net = {Ack(0)} /\ dups = 1 /\ Upload /\ MaxDup > 0
  /\ term = {}

TxStep ==
  \/ TxTerminate \/ TxNext \/ TxReadFails \/ TxSend \/ TxSendFails
  \/ TxReceiveFails
  \/ \E p \in net, again \in BOOLEAN :
       TxReceiveError(p, again) \/ TxReceiveAck(p, again) \/ TxReceiveOther(p, again)

RxStep ==
  \/ RxTerminate \/ RxContinue \/ RxReceiveFails \/ RxClose
  \/ \E p \in net, again \in BOOLEAN :
       \/ RxAccept(p, again) \/ RxWriteFails(p, again)
       \/ RxReceiveError(p, again) \/ RxIgnore(p, again)

Next ==
  \/ TxStep
  \/ RxStep
  \/ Lose
  \/ \E side \in {"tx", "rx"} : Signal(side)
  \/ Crash
  \/ Finished

Spec == Init /\ [][Next]_vars

\* Each side is a thread of its own, and recvfrom() always comes back
\* because its socket has SO_RCVTIMEO.
Fairness == WF_vars(TxStep) /\ WF_vars(RxStep)

FairSpec == Spec /\ Fairness

-----------------------------------------------------------------------------
(* Properties                                                              *)

\* The state variables keep their types; a block number never passes the
\* last block.
TypeOK ==
  /\ tx \in [pc : {"next", "send", "wait", "returned"},
             n : 0 .. LastBlock,
             resend : 0 .. MaxRetry,
             result : {"none", "acked", "unacked", "failed"},
             cut : 0 .. LastBlock]
  /\ rx \in [pc : {"check", "recv", "returned", "closed"},
             retry : 0 .. MaxRetry,
             result : {"none", "complete", "failed"},
             peer : BOOLEAN]
  /\ file \in Seq(0 .. LastBlock)
  /\ kept \in BOOLEAN
  /\ net \subseteq Packets
  /\ dups \in 0 .. MaxDup
  /\ term \subseteq {"tx", "rx"}

Whole == [i \in 1 .. LastBlock |-> i]

\* Whatever the network does, the i-th block written is the i-th block of the
\* source: nothing is skipped, repeated or swapped by tftp_receive_file(),
\* although the block number wraps and the transmitter may run ahead.
FileInOrder == \A i \in 1 .. Len(file) : file[i] \in {i, Torn}

\* tftp_receive_file() returns true only with the whole file written.
CompleteIsWhole == rx.result = "complete" => file = Whole

\* When tftp_transmit_file() leaves its last block through the matching ACK,
\* the receiver holds the whole file and has reported completion.
AckedIsDelivered == tx.result = "acked" => rx.result = "complete" /\ file = Whole

\* tftp_transmit_file() also returns true for a last block that nobody has
\* acknowledged in max_retry_count attempts.  It does so without the receiver
\* having the whole file only after max_retry_count - 1 copies of datagrams,
\* whatever is lost, late or failing besides: an attempt is used up by a wrong
\* answer only, and a wrong answer is a copy, or the one ERROR of a receiver
\* that has ended.
SuccessIsDelivered ==
  tx.result \in {"acked", "unacked"} => file = Whole \/ dups + 1 >= MaxRetry

HoldsAllBytes ==
  /\ \A i \in 1 .. Len(file) : file[i] = i
  /\ Len(file) >= IF TailBytes = 0 THEN FullBlocks ELSE LastBlock

\* server_task_start() removes a file after a failed upload because it is
\* incomplete: the file it removes lacks some byte of the source.
RemovedIsIncomplete == ~ kept => ~ HoldsAllBytes

\* After a termination signal the receiver writes at most the one block it
\* is already waiting for.
SignalBoundsReception ==
  \A k \in 0 .. LastBlock :
    []("rx" \in term /\ Len(file) = k => [](Len(file) <= k + 1))

\* A transmitter gives up waiting for an ACK only after max_retry_count
\* attempts to send the block.
RetriesBeforeGivingUp ==
  [][tx.pc = "wait" /\ tx'.result = "failed" => tx.resend + 1 >= MaxRetry]_vars

\* Both sides come to an end: no transfer hangs, whoever disappears.
Termination == <>Over

\* If nothing is lost, late or failing, the transfer completes at both ends,
\* even when datagrams are reordered and fewer than max_retry_count of them are
\* duplicated; every copy may cost an attempt, and five of them one block all.
FaultFreeCompletes ==
  <>(tx.result = "acked" /\ rx.result = "complete" /\ file = Whole)

\* A transfer delivers its file as FileDelivery specifies.
Delivery == INSTANCE FileDelivery WITH
  delivered <- file,
  receiver  <- IF rx.result = "complete" THEN "complete"
               ELSE IF rx.pc \in {"returned", "closed"} THEN "failed" ELSE "active",
  confirmed <- tx.result = "acked"

DeliverySpec == Delivery!Spec
=============================================================================
