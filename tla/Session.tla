------------------------------ MODULE Session ------------------------------
(***************************************************************************)
(* Whole operations of stftpu: clients that run client_start_operation()   *)
(* and the server tasks that copies of their requests start, with the      *)
(* addresses they send to.  Both ends of a transfer run the same           *)
(* functions, so both are endpoints with the same local state.             *)
(*                                                                         *)
(* The peer of an endpoint is not fixed: recvfrom() stores the sender of   *)
(* every datagram in peer_address, and whatever is sent next goes there.   *)
(*                                                                         *)
(* An action is a pass from one blocking receive, or one access to the     *)
(* storage directory, to the next.  Every client asks for a file of its    *)
(* own name, which is written as the client.  Left to other modules:       *)
(* numbers that wrap, calls that fail in the middle of a transfer, signals *)
(* (Transfer), the contents of the directory (Storage), the slots (Server).*)
(***************************************************************************)
EXTENDS Integers, Sequences

CONSTANTS
  Clients,       \* the clients, each an address and the name of its file
  Tasks,         \* the tasks the server may start, a bound
  Ports,         \* the data ports of the server
  Operations,    \* what clients ask for
  Blocks,        \* blocks of every file
  MaxCopies,     \* bound: copies of one request that reach the server
  MaxRetry,      \* tftp_common.max_retry_count: 5 in the program
  LittleEndian,  \* byte order of all hosts
  Faults         \* what may happen besides loss, delay and reordering

FaultKinds ==
  { "busy",      \* other clients occupy every connection slot
    "sameport",  \* two tasks draw the same random port (SO_REUSEPORT)
    "open",      \* fopen() fails although it could succeed
    "ack",       \* a buffer is not allocated, or sendto() of ACK 0 fails
    "remove" }   \* remove() fails although the file is there

Listener == "port 69"    \* the address of the requests socket
None == "none"           \* no file, no address
Old == "old"             \* a file that was in storage before

ASSUME SessionAssumption ==
  /\ Clients \cap (Tasks \cup Ports \cup {Listener, None, Old}) = {}
  /\ Ports \cap {Listener, None} = {}
  /\ Tasks \cap (Ports \cup {Listener, None, Old}) = {}
  /\ Operations \subseteq {"WRQ", "RRQ", "DRQ"}
  /\ Blocks \in Nat \ {0}
  /\ MaxCopies \in Nat
  /\ MaxRetry \in Nat \ {0}
  /\ LittleEndian \in BOOLEAN
  /\ Faults \subseteq FaultKinds

Endpoints == Clients \cup Tasks

VARIABLES
  op,         \* the operation of every client
  local,      \* the clients that have a file of their name themselves
  ep,         \* the endpoints
  entry,      \* per name: who created the file in the storage directory
  requests,   \* per client: copies of its request on their way to port 69
  net,        \* all other datagrams in flight, equal ones counted once
  collided    \* history: names whose existing file a task opened for writing

vars == <<op, local, ep, entry, requests, net, collided>>

-----------------------------------------------------------------------------
(* Datagrams and endpoints                                                 *)

\* A block of the file of name f; a datagram without one has no file.
Block(f, n) == <<f, n>>

WholeFile(f) == [n \in 1 .. Blocks |-> Block(f, n)]

Datagram(type, n, f, r) ==
  [type |-> type, n |-> n, block |-> Block(f, n), from |-> r.addr, to |-> r.peer]

\* What an endpoint in state r sends to its peer.
Ack(n, r) == {Datagram("ACK", n, None, r)}
Data(r)   == {Datagram("DATA", r.n, r.name, r)}

\* tftp_send_error() says nothing to a peer at port 69.
Error(r) == IF r.peer = Listener THEN {} ELSE {Datagram("ERROR", 0, None, r)}

IsOpen(r) == r.pc \notin {"none", "ended"}

\* Nothing stays in flight to a socket that is closed.
InFlight(ps) ==
  {p \in ps : p.to = Listener \/ \E e \in Endpoints : IsOpen(ep'[e]) /\ ep'[e].addr = p.to}

\* Endpoint e takes the datagrams ps, becomes r and sends out.
Moves(e, ps, r, out) ==
  /\ ep' = [ep EXCEPT ![e] = r]
  /\ net' = InFlight((net \ ps) \cup out)

Ends(r, result) == [r EXCEPT !.pc = "ended", !.result = result]

\* The step concerns endpoints and datagrams only.
Local == UNCHANGED <<op, local, entry, requests, collided>>

\* recvfrom() hands datagram p to e ...
Receives(e, p) == p \in net /\ p.to = ep[e].addr

\* ... and stores its sender.
From(e, p) == [ep[e] EXCEPT !.peer = p.from]

-----------------------------------------------------------------------------
(* tftp_await_acknowledgement(): a client waits for ACK 0, for a deletion  *)
(* then for ACK 1                                                          *)

\* Mutant: one attempt too many.
AwaitAttemptOffByOne(r) ==
  IF r.tries < MaxRetry THEN [r EXCEPT !.tries = @ + 1] ELSE Ends(r, "failed")

\* A datagram that is neither, or a timeout, uses up an attempt.
AwaitAttempt(r) ==
  IF r.tries + 1 < MaxRetry THEN [r EXCEPT !.tries = @ + 1] ELSE Ends(r, "failed")

Awaited(p, r) == p.type = "ACK" /\ p.n = r.n

\* What client_start_operation() goes on to.
Acknowledged(r) ==
  CASE op[r.name] = "WRQ" -> [r EXCEPT !.pc = "fill"]
    [] op[r.name] = "DRQ" /\ r.n = 0 -> [r EXCEPT !.n = 1, !.tries = 0]
    [] OTHER -> Ends(r, "success")

AwaitReceives(c, p) ==
  /\ ep[c].pc = "await" /\ Receives(c, p)
  /\ LET r == From(c, p)
     IN  Moves(c, {p}, IF Awaited(p, r) THEN Acknowledged(r)
                       ELSE IF p.type = "ERROR" THEN Ends(r, "failed")
                       ELSE AwaitAttempt(r), {})
  /\ Local

AwaitTimesOut(c) ==
  /\ ep[c].pc = "await"
  /\ Moves(c, {}, AwaitAttempt(ep[c]), {})
  /\ Local

-----------------------------------------------------------------------------
(* tftp_transmit_file()                                                    *)

Sending(r, n) == [r EXCEPT !.pc = "wait", !.n = n, !.tries = 0]

\* The block is left: acknowledged, or given up because its attempts are used
\* up.  After the last one the function returns true in either case; the model
\* keeps the two apart.
LeavesBlock(r, acked) ==
  IF r.n < Blocks THEN Sending(r, r.n + 1)
  ELSE Ends(r, IF acked THEN "success" ELSE "gave up")

\* Mutant: the block number is not compared.
AcksAnyBlock(p, r) == p.type = "ACK"

AcksBlock(p, r) == p.type = "ACK" /\ p.n = r.n

\* ntohs(opcode == TFTP_ERROR)
TakenForError(p) == ~ LittleEndian /\ p.type = "ERROR"

AfterAnswer(p, r) ==
  IF TakenForError(p) THEN Ends(r, "failed")
  ELSE IF AcksBlock(p, r) THEN LeavesBlock(r, TRUE)
  ELSE IF r.tries + 1 < MaxRetry THEN [r EXCEPT !.tries = @ + 1]
  ELSE LeavesBlock(r, FALSE)

TxReceives(e, p) ==
  /\ ep[e].pc = "wait" /\ Receives(e, p)
  /\ LET r == AfterAnswer(p, From(e, p))
     IN  Moves(e, {p}, r, IF r.pc = "wait" THEN Data(r) ELSE {})
  /\ Local

\* A receive timeout sets EAGAIN, which is not taken for a timeout.
TxTimesOut(e) ==
  /\ ep[e].pc = "wait"
  /\ Moves(e, {}, Ends(ep[e], "failed"), Error(ep[e]))
  /\ Local

-----------------------------------------------------------------------------
(* tftp_receive_file()                                                     *)

Receiving(r) == [r EXCEPT !.pc = "recv", !.n = 1, !.tries = 0]

\* Mutant: any block will do.
IsAnyBlock(p, r) == p.type = "DATA"

IsExpected(p, r) == p.type = "DATA" /\ p.n = r.n

Stores(r, p) ==
  [(IF p.n = Blocks THEN Ends(r, "success") ELSE r) EXCEPT
     !.got = Append(@, p.block), !.n = @ + 1, !.tries = 0]

\* A failed reception: the server goes on to remove the file, the client ends.
RxFails(r) == IF r.addr \in Clients THEN Ends(r, "failed") ELSE [r EXCEPT !.pc = "remove"]

RxReceives(e, p) ==
  /\ ep[e].pc = "recv" /\ Receives(e, p)
  /\ LET r == From(e, p)
     IN  IF p.type = "ERROR" THEN Moves(e, {p}, RxFails(r), {})
         ELSE IF IsExpected(p, r) THEN Moves(e, {p}, Stores(r, p), Ack(r.n, r))
         ELSE Moves(e, {p}, r, {})
  /\ Local

\* Mutant: the counter of failed attempts is not incremented.
RxAttemptUncounted(r) == r

RxAttempt(r) == [r EXCEPT !.tries = @ + 1]

\* Nothing is sent after a timeout, until the last one.
RxTimesOut(e) ==
  /\ ep[e].pc = "recv"
  /\ IF ep[e].tries < MaxRetry THEN Moves(e, {}, RxAttempt(ep[e]), {})
     ELSE Moves(e, {}, RxFails(ep[e]), Error(ep[e]))
  /\ Local
-----------------------------------------------------------------------------
(* The client opens the file it sends, or creates the one it receives,     *)
(* which must not exist: tftp_fill_transfer_data()                         *)

\* Whether fopen() for reading finds a file that exists or not; it may fail for
\* other reasons than that there is none.
Finds(exists) == {exists} \cup (IF "open" \in Faults THEN {FALSE} ELSE {})

Fails(e) == Moves(e, {}, Ends(ep[e], "failed"), Error(ep[e]))

FillSends(c) ==
  /\ ep[c].pc = "fill" /\ op[c] = "WRQ"
  /\ \E found \in Finds(c \in local) :
       IF found THEN Moves(c, {}, Sending(ep[c], 1), Data(Sending(ep[c], 1))) ELSE Fails(c)
  /\ Local

FillReceives(c) ==
  /\ ep[c].pc = "fill" /\ op[c] = "RRQ"
  /\ \E found \in Finds(c \in local) :
       \/ /\ ~ found
          /\ Moves(c, {}, Receiving(ep[c]), {})
          /\ local' = local \cup {c}
       \/ /\ found \/ "open" \in Faults
          /\ Fails(c)
          /\ UNCHANGED local
       \/ /\ ~ found /\ "ack" \in Faults
          /\ Fails(c)
          /\ local' = local \cup {c}
  /\ UNCHANGED <<op, entry, requests, collided>>

-----------------------------------------------------------------------------
(* The listener                                                            *)

Endpoint(pc, addr, name, peer) ==
  [pc |-> pc, addr |-> addr, name |-> name, peer |-> peer,
   n |-> 0, tries |-> 0, got |-> <<>>, result |-> "none"]

NoTask == Endpoint("none", None, None, None)

\* The ports a new task can be bound to.
FreePorts ==
  IF "sameport" \in Faults THEN Ports
  ELSE {a \in Ports : \A t \in Tasks : IsOpen(ep[t]) => ep[t].addr # a}

RequestArrives(c) ==
  /\ requests[c] > 0
  /\ requests' = [requests EXCEPT ![c] = @ - 1]

\* Mutant: the name is that of an earlier request, of somebody else.
NameOfAnother(c) ==
  IF Clients = {c} THEN c ELSE CHOOSE d \in Clients : d # c

\* The name in the request buffer, which every request overwrites.
RequestedName(c) == c

\* Every request that finds a slot gets a task of its own.
Accept(c, t) ==
  /\ RequestArrives(c)
  /\ ep[t].pc = "none"
  /\ \E a \in FreePorts : Moves(t, {}, Endpoint("start", a, RequestedName(c), c), {})
  /\ UNCHANGED <<op, local, entry, collided>>

\* The listener takes ps and answers by an ERROR from the requests socket.
ListenerRefuses(ps, to) ==
  /\ UNCHANGED ep
  /\ net' = InFlight((net \ ps) \cup Error([addr |-> Listener, peer |-> to]))

Reject(c) ==
  /\ "busy" \in Faults
  /\ RequestArrives(c)
  /\ ListenerRefuses({}, c)
  /\ UNCHANGED <<op, local, entry, collided>>

\* Anything but a request is answered by an ERROR and dismissed.
Dismiss(p) ==
  /\ p \in net /\ p.to = Listener
  /\ ListenerRefuses({p}, p.from)
  /\ Local

-----------------------------------------------------------------------------
(* The tasks: server_task_start()                                          *)

\* A task that starts on operation o.
Starts(t, o) == ep[t].pc = "start" /\ op[ep[t].name] = o

\* Whether fopen() for reading finds the file of task t.
FindsFile(t) == Finds(entry[ep[t].name] # None)

UploadChecks(t) ==
  /\ Starts(t, "WRQ")
  /\ \E found \in FindsFile(t) :
       IF found THEN Fails(t) ELSE Moves(t, {}, [ep[t] EXCEPT !.pc = "create"], {})
  /\ Local

\* fopen(path, "wb") creates the file, or empties the one that is there.
CreatesFile(t) ==
  /\ entry' = [entry EXCEPT ![ep[t].name] = t]
  /\ collided' = IF entry[ep[t].name] = None THEN collided ELSE collided \cup {ep[t].name}
  /\ UNCHANGED <<op, local, requests>>

UploadCreates(t) ==
  /\ ep[t].pc = "create"
  /\ Moves(t, {}, Receiving(ep[t]), Ack(0, ep[t]))
  /\ CreatesFile(t)

UploadCreateFails(t) ==
  /\ ep[t].pc = "create"
  /\ "open" \in Faults
  /\ Fails(t)
  /\ Local

\* A buffer is not allocated, and an ERROR sent, or ACK 0 is not sent: the task
\* ends there, and its empty file stays.
UploadAckFails(t) ==
  /\ ep[t].pc = "create"
  /\ "ack" \in Faults
  /\ \E out \in {{}, Error(ep[t])} : Moves(t, {}, Ends(ep[t], "left"), out)
  /\ CreatesFile(t)

\* Mutant: remove() is forgotten.
EntryKept(t) == entry

EntryRemoved(t) == [entry EXCEPT ![ep[t].name] = None]

\* Mutant: the result of remove() is not looked at by a deletion.
RemovalIgnored(t) == {TRUE}

\* What remove() may return.
RemovalSucceeds(t) ==
  {entry[ep[t].name] # None} \cup (IF "remove" \in Faults THEN {FALSE} ELSE {})

\* The incomplete upload is removed, by its name; nobody looks at the result.
UploadRemoves(t) ==
  /\ ep[t].pc = "remove"
  /\ \E removed \in RemovalSucceeds(t) :
       /\ Moves(t, {}, Ends(ep[t], IF removed THEN "failed" ELSE "left"), {})
       /\ entry' = IF removed THEN EntryRemoved(t) ELSE entry
  /\ UNCHANGED <<op, local, requests, collided>>

DownloadOpens(t) ==
  /\ Starts(t, "RRQ")
  /\ \E found \in FindsFile(t) :
       IF found THEN Moves(t, {}, Sending(ep[t], 1), Data(Sending(ep[t], 1))) ELSE Fails(t)
  /\ Local

\* server_delete_file() acknowledges the request first, ...
DeleteAcks(t) ==
  /\ Starts(t, "DRQ")
  /\ Moves(t, {}, [ep[t] EXCEPT !.pc = "find"], Ack(0, ep[t]))
  /\ Local

\* ... tries to open the file, ...
DeleteFinds(t) ==
  /\ ep[t].pc = "find"
  /\ \E found \in FindsFile(t) :
       IF found THEN Moves(t, {}, [ep[t] EXCEPT !.pc = "erase"], {}) ELSE Fails(t)
  /\ Local

\* ... and confirms the removal by ACK 1.
DeleteRemoves(t) ==
  /\ ep[t].pc = "erase"
  /\ \E removed \in RemovalSucceeds(t) :
       IF removed
       THEN /\ Moves(t, {}, Ends(ep[t], "success"), Ack(1, ep[t]))
            /\ entry' = [entry EXCEPT ![ep[t].name] = None]
       ELSE Fails(t) /\ UNCHANGED entry
  /\ UNCHANGED <<op, local, requests, collided>>

-----------------------------------------------------------------------------
(* Specification                                                           *)

\* Every client has sent its request.  A download goes straight to its file,
\* the others wait for ACK 0.
Init ==
  /\ op \in [Clients -> Operations]
  /\ local \in SUBSET Clients
  /\ ep = [e \in Endpoints |->
             IF e \in Tasks THEN NoTask
             ELSE Endpoint(IF op[e] = "RRQ" THEN "fill" ELSE "await", e, e, Listener)]
  /\ entry \in [Clients -> {None, Old}]
  /\ requests \in [Clients -> 0 .. MaxCopies]
  /\ net = {}
  /\ collided = {}

EndpointStep(e) ==
  \/ TxTimesOut(e) \/ RxTimesOut(e)
  \/ \E p \in net : TxReceives(e, p) \/ RxReceives(e, p)

ClientStep(c) ==
  \/ EndpointStep(c)
  \/ AwaitTimesOut(c) \/ (\E p \in net : AwaitReceives(c, p))
  \/ FillSends(c) \/ FillReceives(c)

TaskStep(t) ==
  \/ EndpointStep(t)
  \/ UploadChecks(t) \/ UploadCreates(t) \/ UploadCreateFails(t)
  \/ UploadAckFails(t) \/ UploadRemoves(t)
  \/ DownloadOpens(t)
  \/ DeleteAcks(t) \/ DeleteFinds(t) \/ DeleteRemoves(t)

ListenerStep ==
  \/ \E c \in Clients : Reject(c) \/ \E t \in Tasks : Accept(c, t)
  \/ \E p \in net : Dismiss(p)

Finished == (\A e \in Endpoints : ~ IsOpen(ep[e])) /\ UNCHANGED vars

Next ==
  \/ \E c \in Clients : ClientStep(c)
  \/ \E t \in Tasks : TaskStep(t)
  \/ ListenerStep
  \/ Finished

Spec == Init /\ [][Next]_vars

\* Every receive comes back within a second; the threads are scheduled.
Fairness ==
  /\ \A c \in Clients : WF_vars(ClientStep(c))
  /\ \A t \in Tasks : WF_vars(TaskStep(t))

FairSpec == Spec /\ Fairness

-----------------------------------------------------------------------------
(* Properties                                                              *)

TasksOf(c) == {t \in Tasks : ep[t].name = c}

HasWholeFile(e) == ep[e].got = WholeFile(ep[e].name)

AnyBlock == (Clients \cup {None}) \X (0 .. Blocks)

Addresses == Clients \cup Ports

EndpointType ==
  [pc : {"none", "await", "fill", "start", "create", "wait", "recv", "remove",
         "find", "erase", "ended"},
   addr : Addresses \cup {None}, name : Clients \cup {None},
   peer : Addresses \cup {Listener, None},
   n : 0 .. Blocks + 1, tries : 0 .. MaxRetry, got : Seq(AnyBlock),
   result : {"none", "success", "gave up", "failed", "left"}]

DatagramType ==
  [type : {"DATA", "ACK", "ERROR"}, n : 0 .. Blocks, block : AnyBlock,
   from : Addresses \cup {Listener}, to : Addresses \cup {Listener}]

\* The state variables keep their types; no wait makes more attempts than allowed.
TypeOK ==
  /\ op \in [Clients -> Operations]
  /\ local \subseteq Clients
  /\ ep \in [Endpoints -> EndpointType]
  /\ \A e \in Endpoints : ep[e].pc \in {"await", "wait"} => ep[e].tries < MaxRetry
  /\ entry \in [Clients -> Tasks \cup {None, Old}]
  /\ requests \in [Clients -> 0 .. MaxCopies]
  /\ net \subseteq DatagramType
  /\ collided \subseteq Clients

\* No port has been that of tasks of two clients.
PortsApart ==
  \A t, u \in Tasks :
    ep[t].addr = ep[u].addr /\ ep[t].addr # None => ep[t].name = ep[u].name

\* Whatever tasks and clients run at the same time, and whoever the peer is by
\* now, an endpoint receives the blocks of its own file, in order, and all of
\* them when it reports success, unless two clients have met on one port.
SessionsAreSeparate ==
  PortsApart =>
    \A e \in Endpoints :
      /\ \A n \in 1 .. Len(ep[e].got) : ep[e].got[n] = Block(ep[e].name, n)
      /\ ep[e].result = "success" /\ ep[e].got # <<>> => HasWholeFile(e)

\* A transmitter whose last block was acknowledged has an endpoint at the other
\* side that received the whole file, although with a duplicated request the
\* ACKs, or the blocks, come from several tasks.
AckedIsReceived ==
  PortsApart =>
    \A c \in Clients :
      /\ op[c] = "WRQ" /\ ep[c].result = "success" => \E t \in TasksOf(c) : HasWholeFile(t)
      /\ op[c] = "RRQ" /\ (\E t \in TasksOf(c) : ep[t].result = "success") => HasWholeFile(c)

\* When the tasks of an upload have ended, the storage directory has the upload
\* of one of them that is complete, or what was there before, unless fopen(path,
\* "wb") met an existing file.  The file of a failed upload stays in two cases
\* only: its request could not be acknowledged, or remove() failed on it.
UploadAllOrNothing ==
  \A c \in Clients :
    LET holders == {t \in TasksOf(c) : ep[t].result \in {"success", "left"}}
    IN  op[c] = "WRQ" /\ c \notin collided /\ (\A t \in TasksOf(c) : ~ IsOpen(ep[t]))
        => entry[c] \in holders \/ (holders = {} /\ entry[c] \in {None, Old})

\* "Deletion confirmed." is true: exactly one task has removed the file, and it
\* is gone, although the answers of several tasks reach the client mixed and
\* out of order.
ConfirmedIsRemoved ==
  \A c \in Clients :
    LET removers == {t \in TasksOf(c) : ep[t].result = "success"}
    IN  op[c] = "DRQ" =>
          /\ \A t, u \in removers : t = u
          /\ ep[c].result = "success" => removers # {} /\ entry[c] = None

\* Every client and every task ends, whatever is lost, and whoever else sends.
SessionEnds == \A e \in Endpoints : IsOpen(ep[e]) ~> ~ IsOpen(ep[e])

\* "File transmission completed": a client whose upload is reported as
\* completed has sent the file to a task that received it.
SuccessIsReceived ==
  \A c \in Clients :
    op[c] = "WRQ" /\ ep[c].result \in {"success", "gave up"}
    => \E t \in TasksOf(c) : HasWholeFile(t)
=============================================================================
