# A TLA+ model of stftpu

stftpu ("simple TFTP unit", this repository) is a TFTP client and server in C:
one executable that serves a storage directory to several clients at a time, or
performs one upload (WRQ), download (RRQ) or deletion (DRQ, an extension) as a
client. This directory models its protocol, from the command line of the client to
the end of an operation, its threads and its use of the file system in TLA+,
checks them with TLC, and proves the most important results with TLAPS.

    cd tla
    tlc -workers 2 -config TransferUpload.cfg Transfer.tla     # one run
    tlapm TransferProofs.tla                                   # one set of proofs

`PROJECT.json` lists the runs, the theorems, the findings, the hazards, and for
every definition the lines of code it models.

## 1. The system

| component | state | operations | who it talks to |
|---|---|---|---|
| transmit loop, `tftp_transmit_file()` | block number (16 bits), resend counter, stream position | read a block, send it, wait for its ACK, send again | the receive loop of the peer, by datagrams |
| receive loop, `tftp_receive_file()` | expected block number, counter of failed attempts, the stream | receive, write, acknowledge | the transmit loop of the peer |
| ACK and ERROR helpers | none | `tftp_send_ack()`, `tftp_send_error()` (silent while the peer is port 69), `tftp_await_acknowledgement()` | the peer |
| operation data | socket, addresses, path, mode, block size | `tftp_init_operation_data()`, `tftp_free_operation_data()` | allocated by listener or client, freed by the task |
| transfer data | stream, packet buffers | `tftp_fill_transfer_data()`, `tftp_free_transfer_data()` | the file system |
| server listener | request buffer and socket | `server_listener_loop()`, `server_try_create_operation_thread()` | clients at port 69, the slots, the tasks it creates |
| connection slots | free count, flags, thread handles, operation pointers; a mutex over count and flags | acquire, release | shared by listener and tasks |
| server task (a thread per operation) | its arguments, operation and transfer data | `server_task_start()`, `server_delete_file()`, `server_task_release()` | the client, the storage directory, the slots |
| shutdown | `should_terminate` | `signal_handler()`, the joins and clean-up of `server_start()` | every thread |
| client session | the peer's address, the outcome | `client_start_operation()`: request, ACK 0, transfer or ACK 1 | the listener by port 69, then whichever task answered last |
| command line, address parsing | none that lasts | `main()`, `get_selection_from_args()`, `parse_address()` | starts client or server |
| request packet | none | built by `send_request_packet()`, parsed by `server_parse_request_data()`, checked at both ends by `tftp_init_operation_data()` | client to server |
| storage directory | names and file contents | `fopen`, `fread`, `fwrite`, `fclose`, `remove` | all tasks |
| text user interface, build | none that lasts | shell dialogs that compose a command line; make rules | |

What makes it hard:

* **the network**: datagrams are lost, late, duplicated and reordered, block
  numbers wrap, and both ends count attempts in their own way; a duplicated
  request starts a second task, and `recvfrom()` makes a peer of whoever sent last;
* **threads**: listener and tasks share the slots, tasks share the storage
  directory with nothing to order them, the shutdown frees what tasks still use;
* **signals**: one flag, polled at a few places, against calls that may block;
* **failures**: any call may fail, and what a failure leaves behind (a slot, a
  partial file, an allocated struct) is cleaned up by hand on every path;
* **sizes**: lengths, offsets and numbers of 16 bits are computed at one end and
  judged at the other by arithmetic of its own.

What would make each component correct:

* a transfer stores the blocks in order, reports completion at either end only
  for a whole file, comes to an end, and completes when nothing goes wrong;
* the slots' counter, flags and owners agree; a task works on its own request; a
  rejection means that all slots are taken; every slot comes back; the shutdown
  waits for the tasks;
* the directory never shows a mixture of two uploads, a failed upload leaves no
  fragment that its task could remove, a deletion is confirmed only if it took place;
* an operation concerns one file only, however many tasks its request starts,
  and comes to an end at the client and at every task;
* both ends of an operation understand it alike, and what the client lets through
  the server does not refuse.

## 2. The modules

| module | models | role |
|---|---|---|
| `Transfer` | transmit and receive loops, the network between them, the caller's clean-up | detailed |
| `FileDelivery` | what a transfer promises | abstract, implemented by `Transfer` |
| `TransferProofs` | theorems about `Transfer` | proofs |
| `Server` | listener, slots, tasks, shutdown, signal | detailed |
| `SlotPool` | what the slots promise | abstract, implemented by `Server` |
| `ServerProofs` | theorems about `Server` | proofs |
| `Storage` | uploads, downloads and deletions of one name, and a restart | detailed |
| `StorageProofs` | theorems about `Storage` | proofs |
| `Session` | whole operations: clients, listener, the tasks that copies of a request start, addresses | detailed, composes both ends |
| `SessionProofs` | theorems about `Session` | proofs |
| `Request` | a request from the command line to the operation data of the server | detailed, both ends |
| `RequestProofs` | theorems about `Request` | proofs |

The modules meet at narrow interfaces. A task's operation is one step in
`Server` (`TaskRun`) and is opened up by `Transfer`, `Storage` and `Session`;
that it ends, which the fairness of `Server` needs, is `Transfer`'s
`Termination`, and for a task together with its client `Session`'s `SessionEnds`.
Whether `Server`'s `Parse` or its `ParseFails` is taken is computed in `Request`;
that the operation and block size of both ends are the same, which `Transfer` and
`Session` take for granted, is `Request`'s `EndsAgree`. The result of a reception
is a choice in `Storage` (`ReceiveBlock`, `ReceiveFails`) and computed in
`Transfer`. That a slot is free or not is a choice in `Session` (`Accept`,
`Reject`) and computed in `Server`.

### Transfer

`tx` and `rx` are the local states of the two loops; their `pc` names the place
in the code: for `tx`, `next` is the top of the outer loop, `send` the top of
the inner one, `wait` the `recvfrom()`; for `rx`, `check` is the top of the
outer loop, `recv` the inner one, `returned` the return to the caller and
`closed` the end of the caller's clean-up. `file` is the sequence of blocks
written, `net` the datagrams in flight. One action is one pass between two
receive or send calls. Details that matter are kept as they are in the code:

* `Wire` cuts block numbers to the width of the field; all comparisons go
  through it.
* `TakenForError` is `ntohs(opcode == TFTP_ERROR)` with the parenthesis where
  the code has it; `LittleEndian` says what `ntohs()` does.
* `RecvErrnos` is what a UDP socket with `SO_RCVTIMEO` reports (external to the
  repository); the branch for `ETIMEDOUT` stays in the action.
* the retry limit `resend_counter > max_retry_count` is tested before the
  increment, and leaving the inner loop by its condition goes on to the next
  block, or to `return true`.
* `fwrite()` of nothing returns 0 like a failing one.
* ERROR packets are not sent to a peer whose port is still 69 (`rx.peer`).
* the result of the `remove()` after a failed upload is not looked at (`RxClose`).
* a block of which `fread()` returned a part is sent as the last one (`tx.cut`):
  `feof()` is asked only when nothing was read.

Abstracted: the bytes of a block (its position stands for them), error texts,
progress output, the two addresses (`Session` has them). The network keeps a set of datagrams, which
it may drop (`Lose`), hand over in any order, and hand over again up to `MaxDup`
times. `Fresh` is the one assumption on it: a DATA or ACK does not outlive
`MaxAge` blocks of progress of the transmitter. Without it no protocol with
wrapping numbers is right.

### Server

`main` is the listener thread and then the shutdown; `task` has one thread per
request; `free`, `occupied`, `handle` and `slotOp` are the fields of
`ServerSlots_t`; `op` is the life of each `OperationData_t`. Acquire and release
hold the mutex from end to end and are one step each. The thread handle and the
operation pointer are written and read without the mutex, as in the code, in
steps of their own. The three stages of
`server_try_create_operation_thread()` are the actions `Accept`/`Reject`,
`Parse`/`ParseFails`/`SocketFails`/`PortRefused` and `CreateThread`/`CreateFails`; a
listener that `bind()` refuses every port stays at `bind`. The test of
`should_terminate` and the `recvfrom()` after it are two steps (`ListenerCheck`,
`ListenerBlocks`), because a signal can come in between. A signal is handled in
the main thread or in any other, as POSIX has it. `pthread_join()` is modelled
by what POSIX leaves open: it returns at once for a detached thread, and may
crash for a handle that names no thread.
`data` follows the slots through the shutdown: `DeinitSlots` destroys the mutex and
zeroes them, `FreeData` frees them. A detached task that comes to its release only
then (`TaskReleasesLate`) meets undefined behaviour: it works on the zeroes, writes to
memory that is nobody's slot any more, or crashes.

### Storage

`entry` is the inode the name refers to, `file` the content of every inode;
`up`, `down` and `del` are the tasks. Every call to the file system is a step.
stdio keeps what `fwrite()` was given until it likes to flush
(`ReceiveBlock` chooses how much), and `fclose()` flushes the rest. Writes go to
the writer's own offset, so that two writers of one inode overwrite each other.
An `fopen()` for reading that fails for another reason is taken for an absent file
(`Finds`): an upload that tests for an existing file this way goes on to empty it. The
`remove()` of a partial file may fail, which nobody notices (`RemovePartialFails`).

The process may end at any point, by `exit()` in `tftp_init_bound_data_socket()` or
from outside, and start again (`Restart`): tasks die, what streams had not
flushed is lost, and the directory stays as it is, because
`server_init_storage_location()` does not look at the files it finds. Uploads,
downloads and deletions that have not begun come after the restart.

### Session

Both ends of a transfer run the same two functions, so clients and tasks are
endpoints with the same local state `ep[e]`: `pc` names the blocking call the
endpoint is in (`await` is `tftp_await_acknowledgement()`, `wait` and `recv` are
the `recvfrom()` of the two loops) or the access to the storage directory that is
next, `n` and `tries` are the block number and the counter of attempts. An action
is a pass from one of these to the next.

`ep[e].peer` is `peer_address`. It is a variable and not a constant because
`recvfrom()` stores the sender of every datagram in it, wanted or not, and the next
packet goes there. `requests[c]` are the copies of the request of client `c` on their
way to port 69; each starts a task of its own (`Accept`), with a port that may be
another task's (`"sameport"`), or is rejected when others occupy the slots
(`"busy"`). `PortsApart` says that no port has been that of tasks of two clients; it
is the condition of two properties and restricts no action. What goes to port 69 besides is answered by an ERROR and dismissed
(`Dismiss`), and ERRORs do not go there at all (`Error`). `entry` is who created the
file of a name. A transmitter that passes its last block unacknowledged returns
true as if it had been acknowledged; the model keeps the two apart in `result`. A task
that ends and leaves the file of a failed upload behind, because ACK 0 could not be
sent or `remove()` failed, has the result `left`. The name a task works on is what the
request buffer holds when the request is parsed (`RequestedName`).

Left to the other modules: numbers that wrap, failing calls and signals
(`Transfer`), contents of files and stdio (`Storage`), slots (`Server`).

### Request

`args` is a command line, `packet` the request in the server's buffer, `client`
and `server` the operation data that `tftp_init_operation_data()` makes of them. A
file name is its length, so that a name that `strncat()` cuts is another name; other
strings are words or numbers with their length. `Start` is the offset of a string in
the contents, and `Reaches` the test of `bytes_received` by which the server
decides whether there is an option. `ContentsSize` is computed as in
`send_request_packet()`, which forgets the terminator of the mode and sends
`sizeof(Packet_t)` where the opcode would do. `BlockSize` cuts the number that
`atoi()` returns to 16 bits. Besides the packets of this client, requests of other
clients, with exact lengths and other options, come in as initial states.

## 3. The runs

Passing runs:

| run | configuration | shows |
|---|---|---|
| `TransferUpload` | upload of two full blocks and a tail, 3 attempts, 2 duplicates; every fault but crashes and reads and writes cut short, failing `remove()` included | order, completeness at either end, what the clean-up removes, what success of the transmitter means, implementation of `FileDelivery` |
| `TransferDownload` | download of three full blocks and a tail between big-endian hosts, block numbers modulo 3, 2 attempts, 1 duplicate; every fault, reads and writes cut short included, fair loops | order across the wrap of block numbers; a signalled receiver writes at most one more block; both loops end, whoever disappears |
| `TransferFaultFree` | upload of four full blocks and a tail, the 5 attempts of the code, 4 duplicates, no faults, fair loops | the transfer succeeds at both ends |
| `ServerSlots` | 2 slots, 3 requests; signals, failing threads, sockets and `bind()`; fair threads | slot accounting, ownership, rejections, implementation of `SlotPool`, clean-up, shutdown, admission; slots come back |
| `StorageShared` | 2 uploads of 2 blocks, 1 download, 2 deletions, all faults, failing `remove()` included, one restart | what the directory shows under every interleaving, and what it is left with |
| `SessionDuplicated` | 1 client, any operation on a file of 2 blocks, 2 copies of the request, 2 tasks, 2 ports, the 5 attempts of the code; loss, delay, reordering, full slots, shared ports, failing `fopen()`, ACK 0 and `remove()`; fair client and tasks | an upload leaves all or nothing, but where a failed task keeps its file; confirmed deletions took place; client and tasks end |
| `SessionClients` | 2 clients, each with an upload or a download of 2 blocks, up to 2 copies of each request, 2 tasks, 2 ports that may be shared, 1 attempt; loss, delay, reordering | unless the clients meet on one port: an endpoint receives its own file and in order, and acknowledged transfers were received |
| `RequestAgrees` | every command line of up to 6 arguments over names of 1, 254, 255, 256 characters and 13 sizes, and requests of other clients with up to two options | the request fits its packet, both ends agree, the server refuses nothing the client let through, options are read where they are and only there |

Runs that TLC finds violated, each a statement the repository makes about itself
in a comment or a message (section 6):

| run | property | configuration |
|---|---|---|
| `TransferNoRetry` | `RetriesBeforeGivingUp` | upload of two blocks, one loss suffices |
| `TransferEmptyTail` | `RemovedIsIncomplete` | upload of two full blocks and no tail |
| `ServerCrashes` | `ShutdownIsGraceful` | 2 slots, a signal |
| `SessionReportsSuccess` | `SuccessIsReceived` | 2 copies of a write request, of which one is rejected |

`RemovedIsIncomplete` stands in both tables: it holds for a file with a tail and
fails without one.

**Bounds, and why they are enough.** `FullBlocks`, `TailBytes`: two full blocks
and a tail have a first, a middle and a last block, which is all the loops
distinguish; `TransferDownload` has a fourth block so that the number wraps, and the
empty tail has a run of its own. `BlockMod` stands for 2^16 and `MaxAge` for how
long the network keeps a datagram; only `MaxAge < BlockMod` matters. `BlockSize` is
2, the least for which a short block is not empty. `MaxRetry` is 2 or 3 instead of
5 where the number only repeats a loop. `MaxDup` bounds the duplications of a whole
run; one suffices to confuse a block with the next. As many copies as there are attempts
less one can use up a block, which `TransferUpload` reaches with 2 of 3, and
`TransferFaultFree` completes with 4 of 5 because nothing is lost or failing there: with
`MaxDup = 5` TLC finds `FaultFreeCompletes` violated. `MaxConnections` is 2 instead of 5: one slot in use beside one that is free,
freed or reused; with `MaxRequests` 3 a slot is reused, and a request that comes
while both are taken finds none. `Blocks` in `Storage` is 2, so that a prefix of
a file is neither empty nor whole, and in `Session`, so that there is a block
between the first ACK and the last. Two copies of a request are what one
duplication makes of it; a third meets the same three states of the name (absent,
being written, there) as the second. `Session` needs no bound on duplicates besides
`MaxCopies`: the loops send a block or an ACK again themselves, and a datagram may
stay in flight as long as its receiver's socket is open. One client with two tasks
is where peers change. `SessionClients` has two clients and two tasks, which are two
tasks of one of them, or one of each, on one port or on two; one attempt is enough there,
since it checks safety only, and what is not acknowledged by the first answer fails.
Deletions are left to `SessionDuplicated`. `NameLengths` and `Sizes`
in `Request` are the limits of the code (255 characters; 8, 512, 65464 bytes; 16
bits) with their neighbours, and a few numbers of every length. The theorems of
section 5 hold without these bounds.

**Deadlock** is checked in every run but those of `Storage` and `Request`, where
the tasks or the request simply come to their end; the other modules have an
explicit `Finished` step, enabled when all components have ended.

**Fairness.** `Transfer`: weak fairness of each loop. Each is a thread that the
system schedules, and its only blocking call, `recvfrom()` on the data socket,
comes back after a second (`SO_RCVTIMEO`). Nothing is assumed of the network, not
even that it ever delivers. `Server`: weak fairness of the main thread and of every task.
The arrival of a request is not fair, since nobody has to send one.
The draw of a port that `bind()` accepts is not fair: the
loop has no limit, so the main thread is fair at every other place only.
`Session`: weak fairness of every client and every task, for the same reason
(`tftp_await_acknowledgement()` uses the data socket too); nothing is assumed of the
listener, nor of the network, whose datagrams need never arrive. Each action that
is fair stays enabled until it is taken, or the step of another branch of the same
loop is.

## 4. What the checks show

* Blocks are stored in order in spite of wrap, reordering and duplication; a
  completed reception has the whole file, unless a read or a write was cut short; a
  transmitter that got its last ACK has delivered it. Acknowledging is strict: an old ACK, the ACK of the request
  included, never moves the transmitter on. It reports success without delivery only
  when copies of datagrams have used up the attempts of a block.
* The loops always end, and complete if nothing is lost, late or failing and fewer
  datagrams are duplicated than a block has attempts.
* Counter, flags and owners of the slots agree in every interleaving. The
  pointer a task reads from its slot without the mutex is its own, because the
  listener writes it before it creates the thread and the slot is not released
  before the thread has read it.
* The only way to lose a slot is a failing `pthread_create()`, and one more is held
  while the listener finds no port to bind. Every other slot comes back, and unless a signal came its operation data has been freed by then.
* The shutdown frees the server's data only when no task is at its operation any
  more, although handles are overwritten as slots are reused; a release may still be
  outstanding, and is undefined then. A request that
  reaches the listener after the signal gets no slot.
* Downloads that run together with uploads and deletions send a prefix of one
  upload, and all of it once the upload has been closed, as long as no two
  uploads meet between the test for an existing file and its creation.
* When all uploads are over and no two have met, the directory has a whole file, or, if
  ACK 0 could not be sent, an empty one. A fragment stays in two cases: `remove()`
  failed on it, which nobody looks at, or the process ended; in neither is it ever
  removed by the server itself.
* A duplicated request starts two tasks that talk to the same client, whose peer
  changes with every datagram. Even then an endpoint stores the blocks of its file
  in order: two tasks of one client send the same blocks or take the same ones. An
  ACK that ends an upload comes from a task that has the whole file, because every
  task acknowledges the last block only after all the others. The same holds with
  other clients at work, unless tasks of two of them were given the same port.
* Deletions are confirmed at most once and only if a task removed the file,
  whatever the network does with request and answers. The converse does
  not hold: a deletion can take place and not be confirmed.
* A client and every task of its request end, whoever else has ended, because every
  wait uses up attempts or fails.
* A request fits its packet only because `sizeof(Packet_t)` counts two bytes that a
  request does not have. The same two bytes, counted by the server, are why its test
  for an option has to add 4 to an index; it finds every option and none that is
  not there, also in requests of other clients, which send exact lengths. Of the number
  in it the lower 16 bits are used, whatever they were cut from.

## 5. The proofs

All constants are arbitrary within the named assumptions of the modules
(`TransferAssumption`, `ServerAssumption` and so on); some theorems assume more, and
say so. Each module of proofs has an inductive invariant `IInv`, which TLC has also
checked on the configurations of the runs, and derives the properties from it.

**TransferProofs.** Neither `FileInOrder` nor `CompleteIsWhole` is inductive: that the
block the receiver takes for its next one *is* the next one depends on where the
two loops stand and on what is in flight. `IInv` is `TypeOK`, `Positions` (which
blocks packets in flight can be, that nothing is written that was not sent, and what
each `pc` says about the counters), `Window` (while the receiver can write, the
transmitter is at most `MaxAge` blocks ahead), `Outcomes` (what each result says
about the file) and `FileInOrder`. With it, two numbers that a fresh datagram and a
loop can hold differ by less than `BlockMod`, so that equal numbers modulo `BlockMod`
are equal blocks (`WireInjective`): this is the arithmetic the proof rests on, and
where `MaxAge < BlockMod` is needed.

| theorem | property | assumes besides |
|---|---|---|
| `TypeCorrect` | `TypeOK` | |
| `BlocksInOrder` | `FileInOrder` | |
| `CompletionIsWhole` | `CompleteIsWhole` | no short reads or writes |
| `AcknowledgedIsDelivered` | `AckedIsDelivered` | no short reads or writes |
| `SuccessMeansDelivery` | `SuccessIsDelivered` | no short reads or writes |
| `RemovalIsJustified` | `RemovedIsIncomplete` | the file does not end on a block boundary |
| `SignalStopsReception` | `SignalBoundsReception` | |
| `RetryLimitTestIsDead` | the retry limit of the transmit loop is never seen exceeded | |
| `ImplementsDelivery` | `DeliverySpec` | no short reads or writes |

The assumptions are needed. `TransferEmptyTail` is the counterexample for a file
without a tail. A write cut short stores a torn block that is acknowledged
all the same, because line 532 tests `fwrite()` for zero only, and a read cut short
ends the transmission as the last block does; adding `"shortwrite"` or
`"shortread"` to the faults of `TransferUpload` violates `CompleteIsWhole`. With the
latter, the block that ends a transfer is `LastSent` and not `LastBlock`, which is
why the invariant speaks of `LastSent`.

`SuccessMeansDelivery` needs a second invariant, `Lockstep`. The transmitter returns
true also for a block whose attempts are used up, and a wrong answer is what uses
them up. But an ACK is sent when a block is written, and while every block is waited
for, that is the current block of the transmitter: so an answer is wrong only if it is a copy
that the network made, or the one ERROR of a receiver that has ended. `Lockstep`
counts them: attempts spent and wrong answers in flight are no more than `dups`, and
one after the receiver's end. As long as that is less than `MaxRetry` (`FewCopies`), no
block is left unacknowledged; after more copies the property says nothing, and copies are
never taken back, so that `FewCopies => Lockstep` is inductive.

**ServerProofs.** `IInv` adds to the properties that a slot has one owner at most
(`Exclusive`), at which stage each request and its operation are (`Stages`), and
that a slot's operation pointer is its owner's while the owner needs it
(`OperationInSlot`). `SlotAccounting` then follows from one fact on cardinalities:
taking one element out of, or putting one into, a finite set changes its size by
one.

A second invariant, `JInv`, is inductive relative to the first. `Handles`: while a
task works, the handle in its slot is its own and joinable, which is why
`pthread_join()` waits for it. `Joined`: the joins have passed no slot of a working
task. `Cleaned`: a task past its operation has freed it, or saw the signal.

| theorem | property |
|---|---|
| `TypeCorrect` | `TypeOK` |
| `SlotsAreCounted` | `SlotAccounting` |
| `TakenSlotsAreOwned` | `OccupiedIsOwned` |
| `OperationsAreOwn` | `OperationIsOwn` |
| `OperationsGetFreed` | `OperationsAreFreed` |
| `OperationsAreAwaited` | `ShutdownAwaitsOperations` |
| `RejectionsAreHonest` | `RejectedOnlyWhenFull` |
| `AdmissionStops` | `SignalStopsAdmission` |
| `ImplementsPool` | `PoolSpec` |

`SignalStopsAdmission`, like `SignalBoundsReception`, says that something holds from a
certain state on. Each is proved by an invariant of its own for that suffix
(`Closing`, `Stopping`), which holds when the signal is there and is never lost.

**StorageProofs.** An inode has the name of the upload that created it, and a name
removed never comes to refer to the same inode again: `Inodes` (every reference is
to an inode that was created) and `Removed` (what was removed is out of the
directory). That gives `ConfirmedOnce` and `PartialIsUnlinked` for any number of
tasks; a file on which `remove()` failed is not removed and not claimed to be. The others rest on `Clean`: while no two uploads have met, every file has one
writer, whose position (`Offsets`) is the length of the file, so that what a
download has read is the beginning of that upload. `WrittenFile` says what a flush of
`fwrite()`'s buffer leaves in a file, holes included.

| theorem | property |
|---|---|
| `TypeCorrect` | `TypeOK` |
| `PartialRemoved` | `PartialIsUnlinked` |
| `ConfirmedByOne` | `ConfirmedOnce` |
| `DownloadCorrect` | `DownloadIsOneUpload` |
| `StoredReadWhole` | `StoredIsReadWhole` |
| `DirectorySettled` | `DirectoryIsSettled` |

**SessionProofs.** Every step but those of the listener is a step of one endpoint,
which keeps its address and the name of its file, becomes `r` and sends `out` to
whoever it received from last (`StepOf`). That is shown once for each of the
seventeen actions; the parts of `IInv` follow from it without a look at the actions.
`Shape` relates program counter, counters and operation of an endpoint. `Held`: while
no two tasks have met in the directory, the entry of an upload is that of the one
task that holds it, because it receives, has received all, or left it behind. `Deletion`: nobody but its own tasks ever learns the address of
a client that asks for a deletion, and an ACK 1 in flight to it has a task behind
it that removed the file. `Separation`: while two clients have not met on a port, all
that one client, its tasks and the datagrams between them exchange stays among them,
and an ACK in flight has an endpoint behind it that has received as much.

| theorem | property |
|---|---|
| `TypeCorrect` | `TypeOK` |
| `Separated` | `SessionsAreSeparate` |
| `AcknowledgedReceived` | `AckedIsReceived` |
| `AllOrNothing` | `UploadAllOrNothing` |
| `DeletionConfirmed` | `ConfirmedIsRemoved` |

`PortsApart`, the condition of the first two, is a condition on states that the
properties name, not an assumption on constants: it always holds with one client,
whose duplicated request may have tasks on the same port, and cannot be dropped for
two.

**RequestProofs.** `Built` says which operation data and packet there are at each
point, and that they are those the arguments stand for. Where a string begins in a
packet is the sum of the lengths before it (`StartSums`); with that, the server's
comparisons of such a position with `bytes_received` are decided for every length of
a name, and `NothingRefused`, which is a part of `IInv`, follows from the client's
own validation. Names are assumed to have at most 400 characters
(`RequestAssumption`), with which a request fits the server's buffer.

| theorem | property |
|---|---|
| `TypeCorrect` | `TypeOK` |
| `ServerAccepts` | `NothingRefused` |
| `PacketFits` | `RequestFits` |
| `EndsCorrespond` | `EndsAgree` |
| `OptionCorrect` | `OptionHonoured` |

**Only model-checked**: the liveness properties `Termination`, `FaultFreeCompletes`,
`SlotsComeBack` and `SessionEnds`, because the prover has neither fairness nor
`ENABLED` within its reach. Every other property of a passing run is a theorem.

## 6. Where the code and its own words disagree

| run | the code | its words |
|---|---|---|
| `TransferNoRetry` | a receive timeout (`EAGAIN`) aborts the transmission (`tftp_common.c:455`) | `:486` "still unacknowledged, resending" |
| `TransferEmptyTail` | the empty last block fails the reception (`:532`), the server removes the complete file | `server.c:149` "delete incomplete file" |
| `ServerCrashes` | null and stale handles are joined (`server.c:472`) | `:370` "graceful termination" |
| `SessionReportsSuccess` | an upload nobody received returns true: an ERROR is not recognised on little-endian hosts (`tftp_common.c:466`), and a block whose attempts are used up is passed over (`:478`) | `:480` "retry limit reached. Aborting.", `:490` "File transmission completed" |

`SessionReportsSuccess` needs two faults of `tftp_transmit_file()` at once. The
second shows alone in `Transfer`: with `MaxDup = 5`, `TransferFaultFree` violates
`FaultFreeCompletes`, because five duplicates use up the attempts of a block.

Other disagreements can be read off the actions, or seen by a change of a
configuration:

* two uploads of a name both pass the test for an existing file and then share
  an inode (`tftp_common.c:309`), although `:303` says "To overwrite, request
  deletion": the histories `overwrote` of `Storage` and `collided` of `Session`
  record it, and the properties except it;
* tasks of different clients on one port mix the blocks of two files: by
  `SO_REUSEPORT` (`:86`) two of them may be bound to it at a time, and even without it
  a port that was set free may be drawn again while its last client still sends.
  Neither loop compares the sender of a datagram with its peer (`:451`, `:518`). This
  is why `SessionsAreSeparate` and `AckedIsReceived` assume `PortsApart`; without
  that condition, `SessionClients` violates both;
* a block size of 65536 + n is accepted as n (`:224`, operator `BlockSize` and property
  `OptionHonoured` of `Request`), although `:326` says of what exceeds the range "we
  simply reject the request";
* `inet_pton()` returns 0 for a string that is no address, which `parse_address()` does
  not take for an error (`networking_common.c:9`): the request goes to whatever the
  uninitialised address holds, and `main.c:42` "Failed to parse peer address" is not
  printed (action `ParseAddress` of `Request`);
* an `fopen()` for reading that fails for another reason than absence is taken for
  absence (`:287`), and the upload empties the file (`Finds` of `Storage`, `Session`);
* a data socket that `bind()` refuses every port keeps the listener in a loop
  (`:101`) whose failure is tested behind it (`:111`, "Somehow failed to bind");
* a name longer than 255 characters is cut by the server and not refused
  (`server.c:194`), so that it names another file, for a deletion too (`ServerName`);
* a download that fails leaves an empty or partial file at the client
  (`client.c:180`, variable `local` of `Session`), and a second attempt finds it and
  does not begin;
* of two tasks of one duplicated read request, the one that is not acknowledged
  times out and its ERROR ends the download of the other (`RxReceives`);
* the receiver says "resending acknowledgement" after a timeout and sends nothing
  (`tftp_common.c:551`, action `RxReceiveFails`);
* a short write is acknowledged and may end in "File reception complete"
  (`:532`, `:564`);
* a task that sees the signal at its start frees nothing, although the comment has
  its data freed already (`server.c:132`, `:107`, action `TaskStart`);
* the last steps of a detached task, the release of its slot included, can outlive
  the slots (`:472`, where "waiting for any possibly lingering threads" is
  announced at `:467`);
* a signal between the test of `should_terminate` and `recvfrom()`, or handled in
  another thread, is noticed with the next datagram only (`:380`);
* a failed upload removes by name, hence also the file of an upload that came
  after a deletion (`:153`); if the removal fails, the fragment stays and is offered,
  although `:149` has it deleted (`RemovePartialFails`, `UploadRemoves`, `RxClose`).

## 7. Not modelled

* Requests longer than the server's 514-byte buffer, and names with a directory
  part: what the server does with them is left to the file system and the buffer.
* A `fclose()` that fails: its result is ignored (`tftp_common.c:363`), so that the
  blocks it could not write are lost although they were acknowledged. There is no
  control flow to model, and no property covers it.
* Reads and writes cut short are faults of `Transfer` that only `TransferDownload` has;
  `CompleteIsWhole` and what rests on it leave them out, because it fails with them.
* The meeting of two uploads in one inode, and of two clients on one port, is in the
  models, but the properties of files and of separation say nothing of what follows it.
* Names of more than 255 characters are cut in `Request` only; `Session` and `Storage` have
  one name for each file. Numbers that `atoi()` cannot represent are left out.
* The text user interface (shell dialogs around the program), the build, and
  everything that is only printed: progress, usage and error texts, times.
* `random_range()`: which port it picks is a choice in `Session`.
* Memory: a failing `malloc()` is a failing step where the code tests for it, and is
  left out where it does not.

## 8. Plan

Done: all components but the text user interface and the build; their runs; proofs
of every invariant and action property that a passing run checks.

Next:

1. An abstract specification of the directory (uploads, downloads and deletions
   as atomic operations) that `Storage` implements when no two uploads meet, with
   the proof that it does: `IInv` of `StorageProofs` has the facts it needs.
2. `RequestProofs` without the bound on name lengths, which comes from the length of
   the server's buffer only.
3. An abstract specification of an operation seen by its client (requested,
   performed, reported) that `Session` implements under `PortsApart`.
