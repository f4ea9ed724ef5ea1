---------------------------- MODULE SessionProofs ----------------------------
(***************************************************************************)
(* Theorems about Session for all sets of clients, tasks and ports, every  *)
(* number of blocks and of attempts, and every set of faults.              *)
(*                                                                         *)
(* The argument: every step but those of the listener is a step of one     *)
(* endpoint, which keeps its address and the name of its file and sends to *)
(* whoever it received from last (StepOf).  What such a step can do is     *)
(* stated once, shown of each of the seventeen actions, and the parts of   *)
(* the invariant follow from it without looking at the actions again.      *)
(***************************************************************************)
EXTENDS Session, TLAPS

\* The operations for which an endpoint is the transmitter, and the receiver.
TxOp(e) == IF e \in Clients THEN "WRQ" ELSE "RRQ"
RxOp(e) == IF e \in Clients THEN "RRQ" ELSE "WRQ"

\* An endpoint's program counter, its counters and the operation fit together.
Good(e, r) ==
  /\ IF e \in Clients
     THEN r.addr = e /\ r.name = e /\ r.pc \in {"await", "fill", "wait", "recv", "ended"}
     ELSE r.addr \in Ports /\ r.name \in Clients /\ r.pc \notin {"none", "await", "fill"}
  /\ r.peer # None
  /\ r.pc \in {"await", "wait"} => r.tries < MaxRetry
  /\ r.pc = "await" => r.n \in {0, 1} /\ op[r.name] # "RRQ" /\ (r.n = 1 => op[r.name] = "DRQ")
  /\ r.pc = "fill" => op[r.name] # "DRQ"
  /\ r.pc = "wait" => 1 <= r.n /\ r.n <= Blocks /\ op[r.name] = TxOp(e)
  /\ r.pc \in {"create", "recv", "remove"} => op[r.name] = RxOp(e)
  /\ r.pc \in {"find", "erase"} => op[r.name] = "DRQ"
  /\ r.pc = "recv" => r.n = Len(r.got) + 1 /\ Len(r.got) < Blocks
  /\ r.got # <<>> => op[r.name] = RxOp(e) /\ r.pc \in {"recv", "remove", "ended"}
  /\ Len(r.got) <= Blocks
  /\ r.pc # "ended" => r.result = "none"
  /\ r.result = "success" /\ op[r.name] = RxOp(e) => Len(r.got) = Blocks

Endpoints0 ==
  \A e \in Endpoints :
    IF ep[e].pc = "none" THEN e \in Tasks /\ ep[e] = NoTask ELSE Good(e, ep[e])

\* The listener sends nothing but ERRORs.
ListenerErrors == \A p \in net : p.from = Listener => p.type = "ERROR"

Shape == Endpoints0 /\ ListenerErrors

\* A task that has created the file of its name and not removed it.
Holds(r) == r.pc \in {"recv", "remove"} \/ r.result \in {"success", "left"}

\* As long as no two tasks have met in the storage directory, what it has of an
\* upload is that of the one task that holds it.
Held ==
  \A c \in Clients : op[c] = "WRQ" /\ c \notin collided =>
    /\ \A t \in TasksOf(c) : Holds(ep[t]) => entry[c] = t
    /\ entry[c] \in Tasks => entry[c] \in TasksOf(c) /\ Holds(ep[entry[c]])

Removers(c) == {t \in TasksOf(c) : ep[t].result = "success"}

\* A client that asks for a deletion sends nothing but the request, so nobody
\* but its own tasks ever learns its address.
DeletionOf(c) ==
  /\ \A p \in net : p.from # c
  /\ \A e \in Endpoints : ep[e].peer = c => e \in TasksOf(c)
  /\ \A p \in net : p.to = c /\ p.type = "ACK" /\ p.n = 1 => Removers(c) # {}
  /\ \A t, u \in Removers(c) : t = u
  /\ Removers(c) # {} => entry[c] = None
  /\ ep[c].result = "success" => Removers(c) # {}

Deletion == \A c \in Clients : op[c] = "DRQ" => DeletionOf(c)

\* The addresses of client c and of the tasks that its requests started.
Owned(c) == {a \in Addresses : a = c \/ \E t \in Tasks : ep[t].name = c /\ ep[t].addr = a}

\* The first n blocks of the file of c have reached an endpoint at the other side.
Delivered(c, n) ==
  /\ op[c] = "WRQ" => \E t \in TasksOf(c) : n <= Len(ep[t].got)
  /\ op[c] = "RRQ" => n <= Len(ep[c].got)

\* A datagram stays among the endpoints of one client.
Stays(p, c) ==
  /\ p.from \in Owned(c)
  /\ p.to \in Owned(c) \cup {Listener}
  /\ p.type = "DATA" => p.block = Block(c, p.n)
  /\ p.type = "ACK" /\ p.n > 0 => Delivered(c, p.n)

NetStays == \A p \in net : p.from # Listener => \E c \in Clients : Stays(p, c)

PeersStay ==
  \A e \in Endpoints : ep[e].pc # "none" => ep[e].peer \in Owned(ep[e].name) \cup {Listener}

BlocksInOrder ==
  \A e \in Endpoints : \A n \in 1 .. Len(ep[e].got) : ep[e].got[n] = Block(ep[e].name, n)

SuccessDelivered ==
  \A e \in Endpoints :
    ep[e].result = "success" /\ op[ep[e].name] = TxOp(e) => Delivered(ep[e].name, Blocks)

\* As long as two clients have not met on one port, they have nothing to do
\* with each other.
Separation == PortsApart => NetStays /\ PeersStay /\ BlocksInOrder /\ SuccessDelivered

IInv == TypeOK /\ Shape /\ Held /\ Deletion /\ Separation

-----------------------------------------------------------------------------

\* What a step of endpoint e, which becomes r and sends out, can do ...
Keeps(e, r) ==
  /\ r.addr = ep[e].addr /\ r.name = ep[e].name
  /\ r.peer = ep[e].peer \/ \E p \in net : p.to = ep[e].addr /\ p.from = r.peer

Sends(e, r, out) ==
  /\ op[r.name] = "DRQ" /\ e \in Clients => out = {}
  /\ \A q \in out :
       /\ q.from = r.addr /\ q.to = r.peer
       /\ q.type = "DATA" => q.block = Block(r.name, q.n)
       /\ q.type = "ACK" /\ q.n > 0 =>
            IF op[r.name] = "DRQ" THEN r.result = "success"
            ELSE op[r.name] = RxOp(e) /\ q.n <= Len(r.got)

Gets(e, r) ==
  \/ r.got = ep[e].got
  \/ \E p \in net : /\ p.to = ep[e].addr /\ p.type = "DATA"
                    /\ p.n = Len(ep[e].got) + 1
                    /\ r.got = Append(ep[e].got, p.block)

Confirms(e, r) ==
  /\ r.result = "success" /\ op[r.name] = TxOp(e) =>
       \E p \in net : p.to = ep[e].addr /\ p.type = "ACK" /\ p.n = Blocks
  /\ r.result = "success" /\ op[r.name] = "DRQ" /\ e \in Clients =>
       \E p \in net : p.to = ep[e].addr /\ p.type = "ACK" /\ p.n = 1

\* ... in the storage directory: nothing, ...
LeavesEntry(e, r) ==
  /\ entry' = entry /\ collided' = collided
  /\ op[r.name] = "WRQ" /\ e \in Tasks => (Holds(r) <=> Holds(ep[e]))
  /\ op[r.name] = "DRQ" /\ e \in Tasks => r.result # "success"

\* ... or create, remove or delete the entry of its name.
ChangesEntry(e, r) ==
  /\ e \in Tasks
  /\ \/ /\ op[r.name] = "WRQ" /\ Holds(r) /\ ~ Holds(ep[e])
        /\ entry' = [entry EXCEPT ![r.name] = e]
        /\ collided' = IF entry[r.name] = None THEN collided ELSE collided \cup {r.name}
     \/ /\ op[r.name] = "WRQ" /\ ~ Holds(r) /\ Holds(ep[e])
        /\ entry' = [entry EXCEPT ![r.name] = None]
        /\ collided' = collided
     \/ /\ op[r.name] = "DRQ" /\ r.result = "success"
        /\ entry[r.name] # None
        /\ entry' = [entry EXCEPT ![r.name] = None]
        /\ collided' = collided

StepOf(e, r, out) ==
  /\ ep' = [ep EXCEPT ![e] = r] /\ net' \subseteq net \cup out
  /\ op' = op /\ requests' = requests /\ local' \subseteq Clients
  /\ r \in EndpointType /\ out \subseteq DatagramType
  /\ ep[e].pc \notin {"none", "ended"} /\ Good(e, r) /\ r.pc # "none"
  /\ Keeps(e, r) /\ Sends(e, r, out) /\ Gets(e, r) /\ Confirms(e, r)
  /\ LeavesEntry(e, r) \/ ChangesEntry(e, r)

-----------------------------------------------------------------------------

\* The fields of an endpoint and of a datagram, one by one.
LEMMA EndpointFields ==
  ASSUME NEW r \in EndpointType
  PROVE  /\ r.addr \in Addresses \cup {None} /\ r.name \in Clients \cup {None}
         /\ r.peer \in Addresses \cup {Listener, None}
         /\ r.n \in Int /\ 0 <= r.n /\ r.n <= Blocks + 1
         /\ r.tries \in Int /\ 0 <= r.tries /\ r.tries <= MaxRetry
         /\ r.got \in Seq(AnyBlock) /\ Len(r.got) \in Nat
<1>1. /\ r.addr \in Addresses \cup {None} /\ r.name \in Clients \cup {None}
      /\ r.peer \in Addresses \cup {Listener, None}
  BY DEF EndpointType
<1>2. r.n \in 0 .. Blocks + 1 /\ r.tries \in 0 .. MaxRetry /\ r.got \in Seq(AnyBlock)
  BY DEF EndpointType
<1> QED
  BY <1>1, <1>2, SessionAssumption

\* The fields of a datagram.
LEMMA DatagramFields ==
  ASSUME NEW p \in DatagramType
  PROVE  /\ p.type \in {"DATA", "ACK", "ERROR"}
         /\ p.n \in Int /\ 0 <= p.n /\ p.n <= Blocks
         /\ p.block \in AnyBlock
         /\ p.from \in Addresses \cup {Listener} /\ p.to \in Addresses \cup {Listener}
BY SessionAssumption DEF DatagramType

\* The constants that the code does not tell apart by their type are distinct.
LEMMA Distinct ==
  /\ \A c \in Clients : c \notin Tasks /\ c \notin Ports /\ c # Listener /\ c # None /\ c # Old
  /\ \A a \in Ports : a # Listener /\ a # None
  /\ \A t \in Tasks : t # None /\ t # Old
  /\ None # Old /\ None # Listener /\ Listener # Old
BY SessionAssumption DEF Listener, None, Old

\* Before every step, an endpoint that has started is good, ...
LEMMA GoodBefore ==
  ASSUME TypeOK, Shape, NEW e \in Endpoints, ep[e].pc # "none"
  PROVE  Good(e, ep[e]) /\ ep[e] \in EndpointType /\ ep[e].addr \in Addresses
         /\ ep[e].name \in Clients /\ ep[e].peer \in Addresses \cup {Listener}
         /\ op[ep[e].name] \in {"WRQ", "RRQ", "DRQ"}
<1>1. Good(e, ep[e]) /\ ep[e] \in EndpointType
  BY DEF Shape, Endpoints0, TypeOK
<1>2. ep[e].addr \in Addresses /\ ep[e].name \in Clients /\ ep[e].peer # None
  BY <1>1 DEF Good, Addresses
<1>3. ep[e].peer \in Addresses \cup {Listener}
  BY <1>1, <1>2, EndpointFields
<1>4. op[ep[e].name] \in {"WRQ", "RRQ", "DRQ"}
  BY <1>2, SessionAssumption DEF TypeOK
<1> QED
  BY <1>1, <1>2, <1>3, <1>4

\* ... and remains so when the sender of a datagram is stored.
LEMMA FromGood ==
  ASSUME TypeOK, Shape, NEW e \in Endpoints, ep[e].pc # "none",
         NEW p \in net, Receives(e, p), NEW r, r = From(e, p)
  PROVE  /\ r \in EndpointType /\ Good(e, r) /\ p \in DatagramType
         /\ r.pc = ep[e].pc /\ r.addr = ep[e].addr /\ r.name = ep[e].name
         /\ r.n = ep[e].n /\ r.tries = ep[e].tries /\ r.got = ep[e].got
         /\ r.result = ep[e].result
         /\ r.peer = p.from
         /\ p.to = ep[e].addr
<1>1. /\ Good(e, ep[e]) /\ ep[e] \in EndpointType /\ p \in DatagramType
  BY GoodBefore DEF TypeOK
<1>2. p.from \in Addresses \cup {Listener} /\ p.from # None
  BY <1>1, DatagramFields, Distinct DEF Addresses
<1>3. r \in EndpointType
  BY <1>1, <1>2 DEF From, EndpointType
<1>4. /\ r.pc = ep[e].pc /\ r.addr = ep[e].addr /\ r.name = ep[e].name
      /\ r.n = ep[e].n /\ r.tries = ep[e].tries /\ r.got = ep[e].got
      /\ r.result = ep[e].result /\ r.peer = p.from
  BY <1>1 DEF From, EndpointType
<1>5. Good(e, r)
  BY <1>1, <1>2, <1>4 DEF Good
<1> QED
  BY <1>1, <1>3, <1>4, <1>5 DEF Receives
\* What a step of the listener can do: start task t at address a, or refuse.
Starting(c, t, a) ==
  /\ ep[t].pc = "none" /\ a \in Ports
  /\ ep' = [ep EXCEPT ![t] = Endpoint("start", a, c, c)] /\ net' \subseteq net
  /\ requests' \in [Clients -> 0 .. MaxCopies]
  /\ UNCHANGED <<op, local, entry, collided>>

Refusing(out) ==
  /\ out \subseteq DatagramType
  /\ \A q \in out : q.from = Listener /\ q.type = "ERROR"
  /\ net' \subseteq net \cup out
  /\ requests' \in [Clients -> 0 .. MaxCopies]
  /\ UNCHANGED <<ep, op, local, entry, collided>>

-----------------------------------------------------------------------------

\* The storage directory and the requests are left alone.
Quiet == UNCHANGED <<op, entry, requests, collided>> /\ local' \subseteq Clients

\* A step that is local to an endpoint leaves the directory alone.
LEMMA LocalQuiet == TypeOK /\ Local => Quiet
BY DEF TypeOK, Local, Quiet

\* What a move changes.
LEMMA MoveIs ==
  ASSUME NEW e, NEW ps, NEW r, NEW out, Moves(e, ps, r, out)
  PROVE  ep' = [ep EXCEPT ![e] = r] /\ net' \subseteq net \cup out
BY DEF Moves, InFlight

\* What is in the datagrams that an endpoint sends.
LEMMA SentDatagram ==
  ASSUME NEW r, r.addr \in Addresses \cup {Listener}, r.peer \in Addresses \cup {Listener},
         NEW type \in {"DATA", "ACK", "ERROR"}, NEW n \in Int, 0 <= n, n <= Blocks,
         NEW f \in Clients \cup {None}, NEW q, q = Datagram(type, n, f, r)
  PROVE  /\ q \in DatagramType /\ q.from = r.addr /\ q.to = r.peer
         /\ q.type = type /\ q.n = n /\ q.block = Block(f, n)
<1>1. n \in 0 .. Blocks
  BY SessionAssumption
<1>2. Block(f, n) \in AnyBlock
  BY <1>1 DEF Block, AnyBlock
<1> QED
  BY <1>1, <1>2 DEF Datagram, DatagramType

\* An ACK goes from the endpoint to its peer.
LEMMA SentAck ==
  ASSUME NEW r, r.addr \in Addresses, r.peer \in Addresses \cup {Listener},
         NEW n \in Int, 0 <= n, n <= Blocks
  PROVE  /\ Ack(n, r) \subseteq DatagramType
         /\ \A q \in Ack(n, r) : q.from = r.addr /\ q.to = r.peer /\ q.type = "ACK" /\ q.n = n
BY SentDatagram DEF Ack

\* A DATA packet carries the current block of the endpoint's own file.
LEMMA SentData ==
  ASSUME NEW r, r.addr \in Addresses, r.peer \in Addresses \cup {Listener},
         r.name \in Clients, r.n \in Int, 0 <= r.n, r.n <= Blocks
  PROVE  /\ Data(r) \subseteq DatagramType
         /\ \A q \in Data(r) : /\ q.from = r.addr /\ q.to = r.peer /\ q.type = "DATA"
                               /\ q.n = r.n /\ q.block = Block(r.name, q.n)
BY SentDatagram DEF Data

\* An ERROR goes from the endpoint to its peer.
LEMMA SentError ==
  ASSUME NEW r, r.addr \in Addresses \cup {Listener}, r.peer \in Addresses \cup {Listener}
  PROVE  /\ Error(r) \subseteq DatagramType
         /\ \A q \in Error(r) : q.from = r.addr /\ q.to = r.peer /\ q.type = "ERROR"
<1>1. 0 \in Int /\ 0 <= 0 /\ 0 <= Blocks
  BY SessionAssumption
<1> QED
  BY <1>1, SentDatagram DEF Error

\* An endpoint that ends is good, with the blocks it has; one that reports
\* success and is the receiver must have all of them.
LEMMA EndsGood ==
  ASSUME NEW e \in Endpoints, NEW r \in EndpointType, Good(e, r),
         NEW result \in {"success", "gave up", "failed", "left"},
         result = "success" /\ op[r.name] = RxOp(e) => Len(r.got) = Blocks,
         NEW s, s = Ends(r, result)
  PROVE  s \in EndpointType /\ Good(e, s)
<1>1. /\ s.pc = "ended" /\ s.result = result
      /\ s.addr = r.addr /\ s.name = r.name /\ s.peer = r.peer /\ s.got = r.got
  BY DEF Ends, EndpointType
<1>2. s \in EndpointType
  BY DEF Ends, EndpointType
<1>3. Good(e, s)
  BY <1>1 DEF Good
<1> QED
  BY <1>1, <1>2, <1>3

\* The addresses of a good endpoint.
LEMMA GoodAddresses ==
  ASSUME NEW e \in Endpoints, NEW r \in EndpointType, Good(e, r), op \in [Clients -> Operations]
  PROVE  r.addr \in Addresses /\ r.peer \in Addresses \cup {Listener} /\ r.name \in Clients
         /\ op[r.name] \in {"WRQ", "RRQ", "DRQ"}
<1>1. r.addr \in Addresses /\ r.name \in Clients /\ r.peer # None
  BY DEF Good, Addresses
<1>2. r.peer \in Addresses \cup {Listener}
  BY <1>1, EndpointFields
<1>3. op[r.name] \in {"WRQ", "RRQ", "DRQ"}
  BY <1>1, SessionAssumption
<1> QED
  BY <1>1, <1>2, <1>3

\* A step in which an endpoint fails: it says at most an ERROR.
LEMMA FailingStep ==
  ASSUME TypeOK, Shape, NEW e \in Endpoints, ep[e].pc \notin {"none", "ended"},
         NEW R \in EndpointType, Good(e, R), Keeps(e, R), R.got = ep[e].got,
         NEW result \in {"gave up", "failed"},
         e \in Tasks /\ op[R.name] = "WRQ" => ~ Holds(ep[e]),
         NEW ps, NEW out, out = {} \/ (out = Error(R) /\ (e \in Clients => op[R.name] # "DRQ")),
         NEW r, r = Ends(R, result), Moves(e, ps, r, out), Quiet
  PROVE  StepOf(e, r, out)
<1>0. result \in {"success", "gave up", "failed", "left"} /\ result # "success"
  OBVIOUS
<1>1. /\ r \in EndpointType /\ Good(e, r)
      /\ r.pc = "ended" /\ r.result = result
      /\ r.addr = R.addr /\ r.name = R.name /\ r.peer = R.peer /\ r.got = R.got
  <2>1. r \in EndpointType /\ Good(e, r)
    BY <1>0, EndsGood
  <2> QED
    BY <2>1 DEF Ends, EndpointType
<1>2. R.addr \in Addresses /\ R.peer \in Addresses \cup {Listener}
  BY GoodAddresses DEF TypeOK
<1>3. out \subseteq DatagramType /\ \A q \in out : q.from = R.addr /\ q.to = R.peer /\ q.type = "ERROR"
  BY <1>2, SentError
<1>4. ep' = [ep EXCEPT ![e] = r] /\ net' \subseteq net \cup out
  BY MoveIs
<1>5. op' = op /\ requests' = requests /\ local' \subseteq Clients /\ entry' = entry /\ collided' = collided
  BY DEF Quiet
<1>6. Keeps(e, r) /\ Gets(e, r) /\ Confirms(e, r)
  BY <1>0, <1>1 DEF Keeps, Gets, Confirms
<1>7. Sends(e, r, out)
  BY <1>1, <1>3 DEF Sends
<1>8. LeavesEntry(e, r)
  BY <1>0, <1>1, <1>5 DEF LeavesEntry, Holds
<1>9. r.pc # "none"
  BY <1>1
<1> QED
  BY <1>1, <1>3, <1>4, <1>5, <1>6, <1>7, <1>8, <1>9 DEF StepOf

\* A step in which an endpoint stays where it is, with another number of attempts.
LEMMA RetryStep ==
  ASSUME TypeOK, Shape, NEW e \in Endpoints, ep[e].pc # "none",
         NEW R \in EndpointType, Good(e, R), Keeps(e, R), R.got = ep[e].got,
         R.pc = ep[e].pc, R.pc \in {"await", "wait", "recv"},
         NEW k \in Int, 0 <= k, k <= MaxRetry, R.pc # "recv" => k < MaxRetry,
         NEW r, r = [R EXCEPT !.tries = k],
         NEW ps, NEW out, out = {} \/ (out = Data(r) /\ R.pc = "wait"),
         Moves(e, ps, r, out), Quiet
  PROVE  StepOf(e, r, out)
<1>1. /\ r.pc = R.pc /\ r.addr = R.addr /\ r.name = R.name /\ r.peer = R.peer /\ r.n = R.n
      /\ r.got = R.got /\ r.result = R.result /\ r.tries = k
  BY DEF EndpointType
<1>2. r \in EndpointType
  <2>1. k \in 0 .. MaxRetry
    BY SessionAssumption
  <2> QED
    BY <2>1 DEF EndpointType
<1>3. Good(e, r)
  BY <1>1 DEF Good
<1>4. /\ R.addr \in Addresses /\ R.peer \in Addresses \cup {Listener} /\ R.name \in Clients
  BY GoodAddresses DEF TypeOK
<1>5. R.pc = "wait" => r.n \in Int /\ 0 <= r.n /\ r.n <= Blocks
  BY <1>1, EndpointFields DEF Good
<1>6. /\ out \subseteq DatagramType
      /\ \A q \in out : /\ q.from = r.addr /\ q.to = r.peer /\ q.type = "DATA"
                        /\ q.n = r.n /\ q.block = Block(r.name, q.n)
  BY <1>1, <1>4, <1>5, SentData
<1>7. R.pc = "wait" => op[r.name] # "DRQ"
  BY <1>1 DEF Good, TxOp
<1>8. ep' = [ep EXCEPT ![e] = r] /\ net' \subseteq net \cup out
  BY MoveIs
<1>9. op' = op /\ requests' = requests /\ local' \subseteq Clients /\ entry' = entry /\ collided' = collided
  BY DEF Quiet
<1>10. r.result = "none" /\ ep[e].result = "none" /\ r.pc # "none"
  <2>1. Good(e, ep[e])
    BY GoodBefore
  <2> QED
    BY <1>1, <1>3, <2>1 DEF Good
<1>11. Keeps(e, r) /\ Gets(e, r) /\ Confirms(e, r)
  BY <1>1, <1>10 DEF Keeps, Gets, Confirms
<1>12. Sends(e, r, out)
  BY <1>6, <1>7 DEF Sends
<1>13. LeavesEntry(e, r)
  BY <1>1, <1>9, <1>10 DEF LeavesEntry, Holds
<1> QED
  BY <1>2, <1>3, <1>6, <1>8, <1>9, <1>10, <1>11, <1>12, <1>13 DEF StepOf

\* A step to the next block, or to the first one.
LEMMA SendingStep ==
  ASSUME TypeOK, Shape, NEW e \in Endpoints, ep[e].pc \notin {"none", "ended"},
         NEW R \in EndpointType, Good(e, R), Keeps(e, R), R.got = ep[e].got,
         R.result = "none", op[R.name] = TxOp(e),
         NEW k \in Int, 1 <= k, k <= Blocks,
         NEW r, r = Sending(R, k), NEW ps, Moves(e, ps, r, Data(r)), Quiet
  PROVE  StepOf(e, r, Data(r))
<1>1. /\ r.pc = "wait" /\ r.addr = R.addr /\ r.name = R.name /\ r.peer = R.peer /\ r.n = k
      /\ r.got = R.got /\ r.result = R.result /\ r.tries = 0
  BY DEF Sending, EndpointType
<1>2. r \in EndpointType
  <2>1. k \in 0 .. Blocks + 1 /\ 0 \in 0 .. MaxRetry
    BY SessionAssumption
  <2> QED
    BY <2>1 DEF Sending, EndpointType
<1>3. R.got = <<>>
  BY DEF Good, TxOp, RxOp
<1>4. Good(e, r)
  BY <1>1, <1>3, SessionAssumption DEF Good, TxOp, RxOp
<1>5. /\ R.addr \in Addresses /\ R.peer \in Addresses \cup {Listener} /\ R.name \in Clients
  BY GoodAddresses DEF TypeOK
<1>6. r.n \in Int /\ 0 <= r.n /\ r.n <= Blocks
  BY <1>1
<1>7. /\ Data(r) \subseteq DatagramType
      /\ \A q \in Data(r) : /\ q.from = r.addr /\ q.to = r.peer /\ q.type = "DATA"
                            /\ q.n = r.n /\ q.block = Block(r.name, q.n)
  BY <1>1, <1>5, <1>6, SentData
<1>8. op[r.name] # "DRQ" /\ (e \in Tasks => op[r.name] # "WRQ")
  BY <1>1, Distinct DEF TxOp
<1>9. ep' = [ep EXCEPT ![e] = r] /\ net' \subseteq net \cup Data(r)
  BY MoveIs
<1>10. op' = op /\ requests' = requests /\ local' \subseteq Clients /\ entry' = entry /\ collided' = collided
  BY DEF Quiet
<1>11. Keeps(e, r) /\ Gets(e, r) /\ Confirms(e, r)
  BY <1>1 DEF Keeps, Gets, Confirms
<1>12. Sends(e, r, Data(r))
  BY <1>7, <1>8 DEF Sends
<1>13. LeavesEntry(e, r) /\ r.pc # "none"
  BY <1>1, <1>8, <1>10 DEF LeavesEntry
<1> QED
  BY <1>2, <1>4, <1>7, <1>9, <1>10, <1>11, <1>12, <1>13 DEF StepOf

-----------------------------------------------------------------------------

\* Before a step: the endpoint, unchanged, and as the receiver of a datagram.
LEMMA Staying ==
  ASSUME TypeOK, Shape, NEW e \in Endpoints, ep[e].pc # "none"
  PROVE  Keeps(e, ep[e]) /\ (ep[e].pc # "ended" => ep[e].result = "none")
BY GoodBefore DEF Keeps, Good

\* An endpoint that received a datagram has its sender for a peer.
LEMMA Storing ==
  ASSUME TypeOK, Shape, NEW e \in Endpoints, ep[e].pc # "none",
         NEW p \in net, Receives(e, p), NEW r, r = From(e, p)
  PROVE  Keeps(e, r) /\ (ep[e].pc # "ended" => r.result = "none")
<1>1. /\ r.addr = ep[e].addr /\ r.name = ep[e].name /\ r.result = ep[e].result
      /\ r.peer = p.from /\ p.to = ep[e].addr
  BY FromGood
<1> QED
  BY <1>1, Staying DEF Keeps

\* tftp_await_acknowledgement(): another attempt, or none is left.
LEMMA AwaitAttemptStep ==
  ASSUME TypeOK, Shape, NEW c \in Clients, ep[c].pc = "await",
         NEW R \in EndpointType, Good(c, R), Keeps(c, R), R.got = ep[c].got, R.pc = "await",
         NEW ps, Moves(c, ps, AwaitAttempt(R), {}), Quiet
  PROVE  StepOf(c, AwaitAttempt(R), {})
<1>1. c \in Endpoints /\ c \notin Tasks /\ ep[c].pc # "none"
  BY Distinct DEF Endpoints
<1>2. R.tries \in Int /\ 0 <= R.tries
  BY EndpointFields
<1>3. CASE R.tries + 1 < MaxRetry
  <2>1. AwaitAttempt(R) = [R EXCEPT !.tries = R.tries + 1]
    BY <1>3 DEF AwaitAttempt
  <2>2. R.tries + 1 \in Int /\ 0 <= R.tries + 1 /\ R.tries + 1 <= MaxRetry
    BY <1>2, <1>3, SessionAssumption
  <2> QED
    BY <1>1, <1>3, <2>1, <2>2, RetryStep
<1>4. CASE ~ (R.tries + 1 < MaxRetry)
  <2>1. AwaitAttempt(R) = Ends(R, "failed")
    BY <1>4 DEF AwaitAttempt
  <2> QED
    BY <1>1, <2>1, FailingStep
<1> QED
  BY <1>3, <1>4

\* A client that has waited for an ACK in vain uses up an attempt or fails.
LEMMA AwaitTimesOutStep ==
  ASSUME TypeOK, Shape, NEW c \in Clients, AwaitTimesOut(c)
  PROVE  \E r, out : StepOf(c, r, out)
<1>1. c \in Endpoints /\ ep[c].pc = "await" /\ ep[c].pc # "none"
  BY DEF AwaitTimesOut, Endpoints
<1>2. ep[c] \in EndpointType /\ Good(c, ep[c]) /\ Keeps(c, ep[c])
  BY <1>1, GoodBefore, Staying
<1>3. Moves(c, {}, AwaitAttempt(ep[c]), {}) /\ Quiet
  BY LocalQuiet DEF AwaitTimesOut
<1>4. StepOf(c, AwaitAttempt(ep[c]), {})
  BY <1>1, <1>2, <1>3, AwaitAttemptStep
<1> QED
  BY <1>4

\* The acknowledgement that is waited for.
LEMMA AcknowledgedStep ==
  ASSUME TypeOK, Shape, NEW c \in Clients, ep[c].pc = "await",
         NEW p \in net, p.to = ep[c].addr, p.type = "ACK",
         NEW R \in EndpointType, Good(c, R), Keeps(c, R), R.got = ep[c].got, R.pc = "await",
         p.n = R.n,
         NEW ps, Moves(c, ps, Acknowledged(R), {}), Quiet
  PROVE  StepOf(c, Acknowledged(R), {})
<1>1. c \in Endpoints /\ c \notin Tasks /\ ep[c].pc # "none"
  BY Distinct DEF Endpoints
<1>2. /\ R.n \in {0, 1} /\ op[R.name] # "RRQ" /\ (R.n = 1 => op[R.name] = "DRQ")
      /\ R.name \in Clients /\ op[R.name] \in {"WRQ", "RRQ", "DRQ"}
      /\ R.result = "none" /\ R.got = <<>>
  BY <1>1, GoodAddresses DEF TypeOK, Good
<1>3. ep' = [ep EXCEPT ![c] = Acknowledged(R)] /\ net' \subseteq net \cup {}
  BY MoveIs
<1>4. op' = op /\ requests' = requests /\ local' \subseteq Clients /\ entry' = entry /\ collided' = collided
  BY DEF Quiet
<1>5. ASSUME NEW r, r = Acknowledged(R), r \in EndpointType, Good(c, r), r.pc # "none",
             r.addr = R.addr, r.name = R.name, r.peer = R.peer, r.got = R.got, Confirms(c, r)
      PROVE  StepOf(c, r, {})
  <2>1. Keeps(c, r) /\ Gets(c, r)
    BY <1>5 DEF Keeps, Gets
  <2>2. Sends(c, r, {})
    BY DEF Sends
  <2>3. LeavesEntry(c, r)
    BY <1>1, <1>4 DEF LeavesEntry
  <2> QED
    BY <1>1, <1>3, <1>4, <1>5, <2>1, <2>2, <2>3 DEF StepOf
<1>6. CASE op[R.name] = "WRQ"
  <2> SUFFICES ASSUME NEW r, r = [R EXCEPT !.pc = "fill"]
               PROVE  StepOf(c, r, {}) /\ r = Acknowledged(R)
    BY <1>6 DEF Acknowledged
  <2>1. r = Acknowledged(R)
    BY <1>6 DEF Acknowledged
  <2>2. /\ r.pc = "fill" /\ r.addr = R.addr /\ r.name = R.name /\ r.peer = R.peer
        /\ r.got = R.got /\ r.result = "none" /\ r.n = R.n
    BY <1>2 DEF EndpointType
  <2>3. r \in EndpointType
    BY DEF EndpointType
  <2>4. Good(c, r)
    BY <1>2, <1>6, <2>2, SessionAssumption DEF Good, RxOp
  <2>5. Confirms(c, r)
    BY <2>2 DEF Confirms
  <2>6. r.pc # "none"
    BY <2>2
  <2>7. StepOf(c, r, {})
    BY <1>5, <2>1, <2>2, <2>3, <2>4, <2>5, <2>6
  <2> QED
    BY <2>1, <2>7
<1>7. CASE op[R.name] = "DRQ" /\ R.n = 0
  <2> SUFFICES ASSUME NEW r, r = [R EXCEPT !.n = 1, !.tries = 0]
               PROVE  StepOf(c, r, {}) /\ r = Acknowledged(R)
    BY <1>7 DEF Acknowledged
  <2>1. r = Acknowledged(R)
    BY <1>7 DEF Acknowledged
  <2>2. /\ r.pc = "await" /\ r.addr = R.addr /\ r.name = R.name /\ r.peer = R.peer
        /\ r.got = R.got /\ r.result = "none" /\ r.n = 1 /\ r.tries = 0
    BY <1>2 DEF EndpointType
  <2>3. r \in EndpointType
    <3>1. 1 \in 0 .. Blocks + 1 /\ 0 \in 0 .. MaxRetry
      BY SessionAssumption
    <3> QED
      BY <3>1 DEF EndpointType
  <2>4. Good(c, r)
    BY <1>2, <1>7, <2>2, SessionAssumption DEF Good, RxOp
  <2>5. Confirms(c, r)
    BY <2>2 DEF Confirms
  <2>6. r.pc # "none"
    BY <2>2
  <2>7. StepOf(c, r, {})
    BY <1>5, <2>1, <2>2, <2>3, <2>4, <2>5, <2>6
  <2> QED
    BY <2>1, <2>7
<1>8. CASE op[R.name] = "DRQ" /\ R.n = 1
  <2> SUFFICES ASSUME NEW r, r = Ends(R, "success")
               PROVE  StepOf(c, r, {}) /\ r = Acknowledged(R)
    BY <1>8 DEF Acknowledged
  <2>1. r = Acknowledged(R)
    BY <1>8 DEF Acknowledged
  <2>2. /\ r.pc = "ended" /\ r.addr = R.addr /\ r.name = R.name /\ r.peer = R.peer
        /\ r.got = R.got /\ r.result = "success"
    BY DEF Ends, EndpointType
  <2>3. op[R.name] # RxOp(c) /\ op[R.name] # TxOp(c)
    BY <1>8 DEF RxOp, TxOp
  <2>4. r \in EndpointType /\ Good(c, r)
    BY <1>1, <2>3, EndsGood
  <2>5. Confirms(c, r)
    BY <1>8, <2>2, <2>3 DEF Confirms
  <2>6. r.pc # "none"
    BY <2>2
  <2>7. StepOf(c, r, {})
    BY <1>5, <2>1, <2>2, <2>4, <2>5, <2>6
  <2> QED
    BY <2>1, <2>7
<1> QED
  BY <1>2, <1>6, <1>7, <1>8

\* A client that waits for the ACK of its request, or of the removal, receives a
\* datagram.
LEMMA AwaitReceivesStep ==
  ASSUME TypeOK, Shape, NEW c \in Clients, NEW p \in net, AwaitReceives(c, p)
  PROVE  \E r, out : StepOf(c, r, out)
<1>1. c \in Endpoints /\ c \notin Tasks /\ ep[c].pc = "await" /\ ep[c].pc # "none" /\ Receives(c, p) /\ Quiet
  BY LocalQuiet, Distinct DEF AwaitReceives, Endpoints
<1> DEFINE R == From(c, p)
<1>2. /\ R \in EndpointType /\ Good(c, R) /\ R.pc = "await" /\ R.got = ep[c].got
      /\ p.to = ep[c].addr
  BY <1>1, FromGood
<1>3. Keeps(c, R)
  BY <1>1, Storing
<1>4. Moves(c, {p}, IF Awaited(p, R) THEN Acknowledged(R)
                    ELSE IF p.type = "ERROR" THEN Ends(R, "failed")
                    ELSE AwaitAttempt(R), {})
  BY DEF AwaitReceives
<1> HIDE DEF R
<1>5. CASE Awaited(p, R)
  <2>1. StepOf(c, Acknowledged(R), {})
    BY <1>1, <1>2, <1>3, <1>4, <1>5, AcknowledgedStep DEF Awaited
  <2> QED
    BY <2>1
<1>6. CASE ~ Awaited(p, R) /\ p.type = "ERROR"
  <2>1. StepOf(c, Ends(R, "failed"), {})
    BY <1>1, <1>2, <1>3, <1>4, <1>6, FailingStep
  <2> QED
    BY <2>1
<1>7. CASE ~ Awaited(p, R) /\ p.type # "ERROR"
  <2>1. StepOf(c, AwaitAttempt(R), {})
    BY <1>1, <1>2, <1>3, <1>4, <1>7, AwaitAttemptStep
  <2> QED
    BY <2>1
<1> QED
  BY <1>5, <1>6, <1>7

-----------------------------------------------------------------------------

\* tftp_transmit_file(): the block is left for the next one, or the last one is.
LEMMA LeavesBlockStep ==
  ASSUME TypeOK, Shape, NEW e \in Endpoints, ep[e].pc = "wait",
         NEW R \in EndpointType, Good(e, R), Keeps(e, R), R.got = ep[e].got, R.pc = "wait",
         NEW acked \in BOOLEAN,
         acked => \E p \in net : p.to = ep[e].addr /\ p.type = "ACK" /\ p.n = R.n,
         NEW r, r = LeavesBlock(R, acked),
         NEW ps, Moves(e, ps, r, IF r.pc = "wait" THEN Data(r) ELSE {}), Quiet
  PROVE  StepOf(e, r, IF r.pc = "wait" THEN Data(r) ELSE {})
<1>1. /\ ep[e].pc # "none" /\ R.result = "none" /\ op[R.name] = TxOp(e)
      /\ 1 <= R.n /\ R.n <= Blocks /\ R.n \in Int
  BY EndpointFields DEF Good
<1>2. ~ (e \in Tasks /\ op[R.name] = "WRQ") /\ op[R.name] # RxOp(e) /\ op[R.name] # "DRQ"
  BY <1>1, Distinct DEF TxOp, RxOp
<1>3. CASE R.n < Blocks
  <2>1. r = Sending(R, R.n + 1)
    BY <1>3 DEF LeavesBlock
  <2>2. r.pc = "wait"
    BY <2>1 DEF Sending, EndpointType
  <2>3. R.n + 1 \in Int /\ 1 <= R.n + 1 /\ R.n + 1 <= Blocks
    BY <1>1, <1>3, SessionAssumption
  <2> QED
    BY <1>1, <2>1, <2>2, <2>3, SendingStep
<1>4. CASE ~ (R.n < Blocks) /\ ~ acked
  <2>1. r = Ends(R, "gave up")
    BY <1>4 DEF LeavesBlock
  <2>2. r.pc # "wait"
    BY <2>1 DEF Ends, EndpointType
  <2> QED
    BY <1>1, <1>2, <2>1, <2>2, FailingStep
<1>5. CASE ~ (R.n < Blocks) /\ acked
  <2>1. r = Ends(R, "success")
    BY <1>5 DEF LeavesBlock
  <2>2. /\ r.pc = "ended" /\ r.addr = R.addr /\ r.name = R.name /\ r.peer = R.peer
        /\ r.got = R.got
    BY <2>1 DEF Ends, EndpointType
  <2>3. r \in EndpointType /\ Good(e, r)
    BY <1>2, <2>1, EndsGood
  <2>4. R.n = Blocks
    BY <1>1, <1>5, SessionAssumption
  <2>5. \E p \in net : p.to = ep[e].addr /\ p.type = "ACK" /\ p.n = Blocks
    BY <1>5, <2>4
  <2>6. Keeps(e, r) /\ Gets(e, r)
    BY <2>2 DEF Keeps, Gets
  <2>7. Confirms(e, r)
    BY <1>2, <2>2, <2>5 DEF Confirms
  <2>8. Sends(e, r, {})
    BY DEF Sends
  <2>9. LeavesEntry(e, r)
    BY <1>2, <2>2 DEF LeavesEntry, Quiet
  <2>10. ep' = [ep EXCEPT ![e] = r] /\ net' \subseteq net \cup {}
    BY <2>2, MoveIs
  <2>11. StepOf(e, r, {})
    BY <1>1, <2>2, <2>3, <2>6, <2>7, <2>8, <2>9, <2>10 DEF StepOf, Quiet
  <2> QED
    BY <2>2, <2>11
<1> QED
  BY <1>3, <1>4, <1>5

\* A transmitter receives an answer: the next block, the end or another attempt.
LEMMA TxReceivesStep ==
  ASSUME TypeOK, Shape, NEW e \in Endpoints, NEW p \in net, TxReceives(e, p)
  PROVE  \E r, out : StepOf(e, r, out)
<1>1. ep[e].pc = "wait" /\ ep[e].pc # "none" /\ Receives(e, p) /\ Quiet
  BY LocalQuiet DEF TxReceives
<1> DEFINE R == From(e, p)
           r == AfterAnswer(p, R)
           out == IF r.pc = "wait" THEN Data(r) ELSE {}
<1>2. /\ R \in EndpointType /\ Good(e, R) /\ R.pc = "wait" /\ R.got = ep[e].got
      /\ p.to = ep[e].addr
  BY <1>1, FromGood
<1>3. Keeps(e, R)
  BY <1>1, Storing
<1>4. Moves(e, {p}, r, out)
  BY DEF TxReceives
<1>5. ~ (e \in Tasks /\ op[R.name] = "WRQ")
  BY <1>2, Distinct DEF Good, TxOp
<1>6. R.tries \in Int /\ 0 <= R.tries
  BY <1>2, EndpointFields
<1> HIDE DEF R
<1>7. CASE TakenForError(p)
  <2>1. r = Ends(R, "failed")
    BY <1>7 DEF AfterAnswer
  <2>2. r.pc # "wait"
    BY <1>2, <2>1 DEF Ends, EndpointType
  <2>3. Moves(e, {p}, Ends(R, "failed"), {})
    BY <1>4, <2>1, <2>2
  <2>4. StepOf(e, Ends(R, "failed"), {})
    BY <1>1, <1>2, <1>3, <1>5, <2>3, FailingStep
  <2> QED
    BY <2>4
<1>8. CASE ~ TakenForError(p) /\ AcksBlock(p, R)
  <2>1. r = LeavesBlock(R, TRUE)
    BY <1>8 DEF AfterAnswer
  <2>2. p.type = "ACK" /\ p.n = R.n
    BY <1>8 DEF AcksBlock
  <2> HIDE DEF r
  <2>3. StepOf(e, r, out)
    BY <1>1, <1>2, <1>3, <1>4, <2>1, <2>2, LeavesBlockStep
  <2> QED
    BY <2>3
<1>9. CASE ~ TakenForError(p) /\ ~ AcksBlock(p, R) /\ R.tries + 1 < MaxRetry
  <2>1. r = [R EXCEPT !.tries = R.tries + 1]
    BY <1>9 DEF AfterAnswer
  <2>2. r.pc = "wait"
    BY <1>2, <2>1 DEF EndpointType
  <2>3. R.tries + 1 \in Int /\ 0 <= R.tries + 1 /\ R.tries + 1 <= MaxRetry
    BY <1>6, <1>9, SessionAssumption
  <2> HIDE DEF r
  <2>4. StepOf(e, r, out)
    BY <1>1, <1>2, <1>3, <1>4, <1>9, <2>1, <2>2, <2>3, RetryStep
  <2> QED
    BY <2>4
<1>10. CASE ~ TakenForError(p) /\ ~ AcksBlock(p, R) /\ ~ (R.tries + 1 < MaxRetry)
  <2>1. r = LeavesBlock(R, FALSE)
    BY <1>10 DEF AfterAnswer
  <2> HIDE DEF r
  <2>2. StepOf(e, r, out)
    BY <1>1, <1>2, <1>3, <1>4, <2>1, LeavesBlockStep
  <2> QED
    BY <2>2
<1> QED
  BY <1>7, <1>8, <1>9, <1>10

\* A transmitter times out and fails.
LEMMA TxTimesOutStep ==
  ASSUME TypeOK, Shape, NEW e \in Endpoints, TxTimesOut(e)
  PROVE  \E r, out : StepOf(e, r, out)
<1>1. ep[e].pc = "wait" /\ ep[e].pc # "none" /\ Quiet
  BY LocalQuiet DEF TxTimesOut
<1>2. ep[e] \in EndpointType /\ Good(e, ep[e]) /\ Keeps(e, ep[e])
  BY <1>1, GoodBefore, Staying
<1>3. ~ (e \in Tasks /\ op[ep[e].name] = "WRQ") /\ op[ep[e].name] # "DRQ"
  BY <1>1, <1>2, Distinct DEF Good, TxOp
<1>4. StepOf(e, Ends(ep[e], "failed"), Error(ep[e]))
  BY <1>1, <1>2, <1>3, FailingStep DEF TxTimesOut
<1> QED
  BY <1>4

-----------------------------------------------------------------------------

\* tftp_receive_file() fails: a client ends, a task goes on to the removal.
LEMMA RxFailsStep ==
  ASSUME TypeOK, Shape, NEW e \in Endpoints, ep[e].pc = "recv",
         NEW R \in EndpointType, Good(e, R), Keeps(e, R), R.got = ep[e].got, R.pc = "recv",
         NEW ps, NEW out, out \in {{}, Error(R)}, Moves(e, ps, RxFails(R), out), Quiet
  PROVE  StepOf(e, RxFails(R), out)
<1>1. /\ ep[e].pc # "none" /\ R.result = "none" /\ op[R.name] = RxOp(e) /\ ep[e].result = "none"
      /\ R.n = Len(R.got) + 1 /\ Len(R.got) < Blocks
  BY Staying DEF Good
<1>2. op[R.name] # "DRQ" /\ op[R.name] # TxOp(e)
  BY <1>1 DEF RxOp, TxOp
<1>3. CASE R.addr \in Clients
  <2>1. RxFails(R) = Ends(R, "failed")
    BY <1>3 DEF RxFails
  <2>2. e \in Clients /\ e \notin Tasks
    BY <1>3, Distinct DEF Good
  <2> QED
    BY <1>1, <1>2, <2>1, <2>2, FailingStep
<1>4. CASE R.addr \notin Clients
  <2> SUFFICES ASSUME NEW r, r = [R EXCEPT !.pc = "remove"]
               PROVE  StepOf(e, r, out) /\ r = RxFails(R)
    BY <1>4 DEF RxFails
  <2>1. r = RxFails(R)
    BY <1>4 DEF RxFails
  <2>2. /\ r.pc = "remove" /\ r.addr = R.addr /\ r.name = R.name /\ r.peer = R.peer
        /\ r.got = R.got /\ r.result = "none" /\ r.n = R.n
    BY <1>1 DEF EndpointType
  <2>3. r \in EndpointType
    BY DEF EndpointType
  <2>4. Good(e, r)
    BY <1>1, <1>4, <2>2 DEF Good
  <2>5. /\ R.addr \in Addresses /\ R.peer \in Addresses \cup {Listener}
    BY GoodAddresses DEF TypeOK
  <2>6. /\ out \subseteq DatagramType
        /\ \A q \in out : q.from = R.addr /\ q.to = R.peer /\ q.type = "ERROR"
    BY <2>5, SentError
  <2>7. Keeps(e, r) /\ Gets(e, r) /\ Confirms(e, r)
    BY <2>2 DEF Keeps, Gets, Confirms
  <2>8. Sends(e, r, out)
    BY <1>2, <2>2, <2>6 DEF Sends
  <2>9. LeavesEntry(e, r)
    BY <1>1, <2>2 DEF LeavesEntry, Quiet, Holds
  <2>10. ep' = [ep EXCEPT ![e] = r] /\ net' \subseteq net \cup out
    BY <2>1, MoveIs
  <2>11. StepOf(e, r, out)
    BY <1>1, <2>2, <2>3, <2>4, <2>6, <2>7, <2>8, <2>9, <2>10 DEF StepOf, Quiet
  <2> QED
    BY <2>1, <2>11
<1> QED
  BY <1>3, <1>4

\* The expected block is stored and acknowledged.
LEMMA StoresStep ==
  ASSUME TypeOK, Shape, NEW e \in Endpoints, ep[e].pc = "recv",
         NEW p \in net, p \in DatagramType, p.to = ep[e].addr, p.type = "DATA",
         NEW R \in EndpointType, Good(e, R), Keeps(e, R), R.got = ep[e].got, R.pc = "recv",
         p.n = R.n,
         NEW r, r = Stores(R, p), NEW ps, Moves(e, ps, r, Ack(R.n, R)), Quiet
  PROVE  StepOf(e, r, Ack(R.n, R))
<1>1. /\ ep[e].pc # "none" /\ R.result = "none" /\ op[R.name] = RxOp(e) /\ ep[e].result = "none"
      /\ R.n = Len(R.got) + 1 /\ Len(R.got) < Blocks
  BY Staying DEF Good
<1>2. op[R.name] # "DRQ" /\ op[R.name] # TxOp(e)
  BY <1>1 DEF RxOp, TxOp
<1>3. /\ R.n \in Int /\ R.n <= Blocks /\ 0 <= R.n /\ 1 <= R.n
      /\ R.got \in Seq(AnyBlock) /\ p.block \in AnyBlock
  BY <1>1, EndpointFields, DatagramFields, SessionAssumption
<1>4. /\ r.addr = R.addr /\ r.name = R.name /\ r.peer = R.peer
      /\ r.got = Append(R.got, p.block) /\ r.n = R.n + 1 /\ r.tries = 0
  BY DEF Stores, Ends, EndpointType
<1>5. /\ R.n = Blocks => r.pc = "ended" /\ r.result = "success"
      /\ R.n # Blocks => r.pc = "recv" /\ r.result = "none"
  BY <1>1 DEF Stores, Ends, EndpointType
<1>6. /\ Append(R.got, p.block) \in Seq(AnyBlock)
      /\ Len(Append(R.got, p.block)) = Len(R.got) + 1
      /\ Append(R.got, p.block) # <<>>
  BY <1>3
<1>7. r \in EndpointType
  <2>1. R.n + 1 \in 0 .. Blocks + 1 /\ 0 \in 0 .. MaxRetry
    BY <1>3, SessionAssumption
  <2> QED
    BY <1>6, <2>1 DEF Stores, Ends, EndpointType
<1>8. Good(e, r)
  BY <1>1, <1>3, <1>4, <1>5, <1>6, SessionAssumption DEF Good
<1>9. /\ R.addr \in Addresses /\ R.peer \in Addresses \cup {Listener}
  BY GoodAddresses DEF TypeOK
<1>10. /\ Ack(R.n, R) \subseteq DatagramType
       /\ \A q \in Ack(R.n, R) : q.from = R.addr /\ q.to = R.peer /\ q.type = "ACK" /\ q.n = R.n
  BY <1>3, <1>9, SentAck
<1>11. Keeps(e, r) /\ Confirms(e, r) /\ r.pc # "none"
  BY <1>2, <1>4, <1>5 DEF Keeps, Confirms
<1>12. Gets(e, r)
  BY <1>1, <1>4 DEF Gets
<1>13. Sends(e, r, Ack(R.n, R))
  BY <1>1, <1>2, <1>4, <1>6, <1>10 DEF Sends
<1>14. LeavesEntry(e, r)
  BY <1>2, <1>4, <1>5 DEF LeavesEntry, Quiet, Holds
<1>15. ep' = [ep EXCEPT ![e] = r] /\ net' \subseteq net \cup Ack(R.n, R)
  BY MoveIs
<1> QED
  BY <1>1, <1>7, <1>8, <1>10, <1>11, <1>12, <1>13, <1>14, <1>15 DEF StepOf, Quiet

\* A receiver stores the block it expects, ends with an ERROR or ignores the rest.
LEMMA RxReceivesStep ==
  ASSUME TypeOK, Shape, NEW e \in Endpoints, NEW p \in net, RxReceives(e, p)
  PROVE  \E r, out : StepOf(e, r, out)
<1>1. ep[e].pc = "recv" /\ ep[e].pc # "none" /\ Receives(e, p) /\ Quiet
  BY LocalQuiet DEF RxReceives
<1> DEFINE R == From(e, p)
<1>2. /\ R \in EndpointType /\ Good(e, R) /\ R.pc = "recv" /\ R.got = ep[e].got
      /\ p.to = ep[e].addr /\ p \in DatagramType
  BY <1>1, FromGood
<1>3. Keeps(e, R)
  BY <1>1, Storing
<1>4. IF p.type = "ERROR" THEN Moves(e, {p}, RxFails(R), {})
      ELSE IF IsExpected(p, R) THEN Moves(e, {p}, Stores(R, p), Ack(R.n, R))
      ELSE Moves(e, {p}, R, {})
  BY DEF RxReceives
<1> HIDE DEF R
<1>5. CASE p.type = "ERROR"
  <2>1. StepOf(e, RxFails(R), {})
    BY <1>1, <1>2, <1>3, <1>4, <1>5, RxFailsStep
  <2> QED
    BY <2>1
<1>6. CASE p.type # "ERROR" /\ IsExpected(p, R)
  <2>1. StepOf(e, Stores(R, p), Ack(R.n, R))
    BY <1>1, <1>2, <1>3, <1>4, <1>6, StoresStep DEF IsExpected
  <2> QED
    BY <2>1
<1>7. CASE p.type # "ERROR" /\ ~ IsExpected(p, R)
  <2>1. R = [R EXCEPT !.tries = R.tries]
    BY <1>2 DEF EndpointType
  <2>2. R.tries \in Int /\ 0 <= R.tries /\ R.tries <= MaxRetry
    BY <1>2, EndpointFields
  <2>3. StepOf(e, R, {})
    BY <1>1, <1>2, <1>3, <1>4, <1>7, <2>1, <2>2, RetryStep
  <2> QED
    BY <2>3
<1> QED
  BY <1>5, <1>6, <1>7

\* A receiver times out and uses up an attempt or fails.
LEMMA RxTimesOutStep ==
  ASSUME TypeOK, Shape, NEW e \in Endpoints, RxTimesOut(e)
  PROVE  \E r, out : StepOf(e, r, out)
<1>1. ep[e].pc = "recv" /\ ep[e].pc # "none" /\ Quiet
  BY LocalQuiet DEF RxTimesOut
<1>2. ep[e] \in EndpointType /\ Good(e, ep[e]) /\ Keeps(e, ep[e])
  BY <1>1, GoodBefore, Staying
<1>3. ep[e].tries \in Int /\ 0 <= ep[e].tries
  BY <1>2, EndpointFields
<1>4. CASE ep[e].tries < MaxRetry
  <2> DEFINE r == RxAttempt(ep[e])
  <2>1. r = [ep[e] EXCEPT !.tries = ep[e].tries + 1]
    BY DEF RxAttempt
  <2>2. ep[e].tries + 1 \in Int /\ 0 <= ep[e].tries + 1 /\ ep[e].tries + 1 <= MaxRetry
    BY <1>3, <1>4, SessionAssumption
  <2>3. Moves(e, {}, r, {})
    BY <1>4 DEF RxTimesOut
  <2> HIDE DEF r
  <2>4. StepOf(e, r, {})
    BY <1>1, <1>2, <2>1, <2>2, <2>3, RetryStep
  <2> QED
    BY <2>4
<1>5. CASE ~ (ep[e].tries < MaxRetry)
  <2>1. Moves(e, {}, RxFails(ep[e]), Error(ep[e]))
    BY <1>5 DEF RxTimesOut
  <2>2. StepOf(e, RxFails(ep[e]), Error(ep[e]))
    BY <1>1, <1>2, <2>1, RxFailsStep
  <2> QED
    BY <2>2
<1> QED
  BY <1>4, <1>5

-----------------------------------------------------------------------------

\* An endpoint that is about to receive has nothing yet and is good.
LEMMA ReceivingGood ==
  ASSUME NEW e \in Endpoints, NEW R \in EndpointType, Good(e, R),
         op[R.name] = RxOp(e), R.pc \in {"fill", "create"}, NEW r, r = Receiving(R)
  PROVE  /\ r \in EndpointType /\ Good(e, r)
         /\ R.got = <<>> /\ R.result = "none"
<1>1. /\ r.pc = "recv" /\ r.addr = R.addr /\ r.name = R.name /\ r.peer = R.peer
      /\ r.got = R.got /\ r.n = 1 /\ r.result = R.result
  BY DEF Receiving, EndpointType
<1>2. R.got = <<>> /\ R.result = "none"
  BY DEF Good
<1>3. r \in EndpointType
  <2>1. 1 \in 0 .. Blocks + 1 /\ 0 \in 0 .. MaxRetry
    BY SessionAssumption
  <2> QED
    BY <2>1 DEF Receiving, EndpointType
<1>4. Good(e, r)
  BY <1>1, <1>2, SessionAssumption DEF Good
<1> QED
  BY <1>2, <1>3, <1>4

\* The client opens the file it sends, or fails.
LEMMA FillSendsStep ==
  ASSUME TypeOK, Shape, NEW c \in Clients, FillSends(c)
  PROVE  \E r, out : StepOf(c, r, out)
<1>1. /\ c \in Endpoints /\ c \notin Tasks /\ ep[c].pc = "fill" /\ ep[c].pc \notin {"none", "ended"}
      /\ op[c] = "WRQ" /\ Quiet
  BY Distinct, LocalQuiet DEF FillSends, Endpoints
<1>2. ep[c] \in EndpointType /\ Good(c, ep[c]) /\ Keeps(c, ep[c]) /\ ep[c].result = "none"
  BY <1>1, GoodBefore, Staying
<1>3. ep[c].name = c
  BY <1>2 DEF Good
<1>4. CASE Moves(c, {}, Sending(ep[c], 1), Data(Sending(ep[c], 1)))
  <2>1. 1 \in Int /\ 1 <= Blocks /\ op[ep[c].name] = TxOp(c) /\ ep[c].pc # "none"
    BY <1>1, <1>3, SessionAssumption DEF TxOp
  <2>2. StepOf(c, Sending(ep[c], 1), Data(Sending(ep[c], 1)))
    BY <1>1, <1>2, <1>4, <2>1, SendingStep
  <2> QED
    BY <2>2
<1>5. CASE Fails(c)
  <2>1. StepOf(c, Ends(ep[c], "failed"), Error(ep[c]))
    BY <1>1, <1>2, <1>3, <1>5, FailingStep DEF Fails
  <2> QED
    BY <2>1
<1> QED
  BY <1>4, <1>5 DEF FillSends

\* The client creates the file it receives, or fails.
LEMMA FillReceivesStep ==
  ASSUME TypeOK, Shape, NEW c \in Clients, FillReceives(c)
  PROVE  \E r, out : StepOf(c, r, out)
<1>1. /\ c \in Endpoints /\ c \notin Tasks /\ ep[c].pc = "fill" /\ ep[c].pc \notin {"none", "ended"}
      /\ ep[c].pc # "none" /\ op[c] = "RRQ"
  BY Distinct DEF FillReceives, Endpoints
<1>2. ep[c] \in EndpointType /\ Good(c, ep[c]) /\ Keeps(c, ep[c]) /\ ep[c].result = "none"
  BY <1>1, GoodBefore, Staying
<1>3. ep[c].name = c
  BY <1>2 DEF Good
<1>4. local' \subseteq Clients
  BY DEF FillReceives, TypeOK
<1>5. Quiet
  BY <1>4 DEF Quiet, FillReceives
<1>6. CASE Moves(c, {}, Receiving(ep[c]), {})
  <2> SUFFICES ASSUME NEW r, r = Receiving(ep[c])
               PROVE  StepOf(c, r, {})
    OBVIOUS
  <2>1. /\ r.pc = "recv" /\ r.addr = ep[c].addr /\ r.name = ep[c].name /\ r.peer = ep[c].peer
        /\ r.got = ep[c].got /\ r.result = "none"
    BY <1>2 DEF Receiving, EndpointType
  <2>2. op[ep[c].name] = RxOp(c)
    BY <1>1, <1>3 DEF RxOp
  <2>3. r \in EndpointType /\ Good(c, r)
    BY <1>1, <1>2, <2>2, ReceivingGood
  <2>4. Keeps(c, r) /\ Gets(c, r) /\ Confirms(c, r)
    BY <2>1 DEF Keeps, Gets, Confirms
  <2>5. Sends(c, r, {})
    BY DEF Sends
  <2>6. LeavesEntry(c, r)
    BY <1>1, <1>5 DEF LeavesEntry, Quiet
  <2>7. ep' = [ep EXCEPT ![c] = r] /\ net' \subseteq net \cup {}
    BY <1>6, MoveIs
  <2> QED
    BY <1>1, <1>5, <2>1, <2>3, <2>4, <2>5, <2>6, <2>7 DEF StepOf, Quiet
<1>7. CASE Fails(c)
  <2>1. StepOf(c, Ends(ep[c], "failed"), Error(ep[c]))
    BY <1>1, <1>2, <1>3, <1>5, <1>7, FailingStep DEF Fails
  <2> QED
    BY <2>1
<1> QED
  BY <1>6, <1>7 DEF FillReceives

\* A task at work: what it is before each of its own steps.
LEMMA TaskBefore ==
  ASSUME TypeOK, Shape, NEW t \in Tasks, ep[t].pc \notin {"none", "ended"}
  PROVE  /\ t \in Endpoints /\ t \notin Clients
         /\ ep[t] \in EndpointType /\ Good(t, ep[t]) /\ Keeps(t, ep[t])
         /\ ep[t].name \in Clients
         /\ ep[t].addr \in Addresses /\ ep[t].peer \in Addresses \cup {Listener}
         /\ ep[t].result = "none"
<1>1. t \in Endpoints /\ t \notin Clients
  BY Distinct DEF Endpoints
<1> QED
  BY <1>1, GoodBefore, Staying

\* A task that has not created the file of an upload fails.
LEMMA TaskFails ==
  ASSUME TypeOK, Shape, NEW t \in Tasks, ep[t].pc \in {"start", "create", "find", "erase"}, Fails(t), Quiet
  PROVE  StepOf(t, Ends(ep[t], "failed"), Error(ep[t]))
<1>1. ep[t].pc \notin {"none", "ended"} /\ ep[t].pc # "none"
  OBVIOUS
<1>2. /\ t \in Endpoints /\ t \notin Clients
      /\ ep[t] \in EndpointType /\ Good(t, ep[t]) /\ Keeps(t, ep[t]) /\ ep[t].result = "none"
  BY <1>1, TaskBefore
<1>3. ~ Holds(ep[t])
  BY <1>2 DEF Holds
<1> QED
  BY <1>1, <1>2, <1>3, FailingStep DEF Fails

\* A step to the next pc of a task that leaves everything else.
LEMMA TaskGoesOn ==
  ASSUME TypeOK, Shape, NEW t \in Tasks, ep[t].pc \in {"start", "find"},
         NEW pc \in {"create", "find", "erase"},
         pc = "create" => op[ep[t].name] = "WRQ",
         pc \in {"find", "erase"} => op[ep[t].name] = "DRQ",
         NEW r, r = [ep[t] EXCEPT !.pc = pc],
         NEW out, out \in {{}, Ack(0, ep[t])}, Moves(t, {}, r, out), Quiet
  PROVE  StepOf(t, r, out)
<1>1. ep[t].pc \notin {"none", "ended"} /\ ep[t].pc # "none"
  OBVIOUS
<1>2. /\ t \in Endpoints /\ t \notin Clients
      /\ ep[t] \in EndpointType /\ Good(t, ep[t]) /\ Keeps(t, ep[t]) /\ ep[t].result = "none"
      /\ ep[t].addr \in Addresses /\ ep[t].peer \in Addresses \cup {Listener}
  BY <1>1, TaskBefore
<1>3. /\ r.pc = pc /\ r.addr = ep[t].addr /\ r.name = ep[t].name /\ r.peer = ep[t].peer
      /\ r.got = ep[t].got /\ r.result = "none"
  BY <1>2 DEF EndpointType
<1>4. r \in EndpointType
  BY <1>2 DEF EndpointType
<1>5. r.got = <<>> /\ Len(r.got) <= Blocks
  BY <1>2, <1>3 DEF Good
<1>6. Good(t, r)
  BY <1>2, <1>3, <1>5 DEF Good, RxOp
<1>7. 0 \in Int /\ 0 <= 0 /\ 0 <= Blocks
  BY SessionAssumption
<1>8. /\ Ack(0, ep[t]) \subseteq DatagramType
      /\ \A q \in Ack(0, ep[t]) : q.from = ep[t].addr /\ q.to = ep[t].peer /\ q.type = "ACK" /\ q.n = 0
  BY <1>2, <1>7, SentAck
<1>9. /\ out \subseteq DatagramType
      /\ \A q \in out : q.from = ep[t].addr /\ q.to = ep[t].peer /\ q.type = "ACK" /\ q.n = 0
  BY <1>8
<1>10. Keeps(t, r) /\ Gets(t, r) /\ Confirms(t, r) /\ r.pc # "none"
  BY <1>3 DEF Keeps, Gets, Confirms
<1>11. Sends(t, r, out)
  BY <1>2, <1>3, <1>9 DEF Sends
<1>12. LeavesEntry(t, r)
  BY <1>2, <1>3 DEF LeavesEntry, Quiet, Holds
<1>13. ep' = [ep EXCEPT ![t] = r] /\ net' \subseteq net \cup out
  BY MoveIs
<1> QED
  BY <1>1, <1>4, <1>6, <1>9, <1>10, <1>11, <1>12, <1>13 DEF StepOf, Quiet

\* server_write_file() tests for an existing file.
LEMMA UploadChecksStep ==
  ASSUME TypeOK, Shape, NEW t \in Tasks, UploadChecks(t)
  PROVE  \E r, out : StepOf(t, r, out)
<1>1. ep[t].pc = "start" /\ op[ep[t].name] = "WRQ" /\ Quiet
  BY LocalQuiet DEF UploadChecks, Starts
<1>2. CASE Fails(t)
  <2>1. StepOf(t, Ends(ep[t], "failed"), Error(ep[t]))
    BY <1>1, <1>2, TaskFails
  <2> QED
    BY <2>1
<1>3. CASE Moves(t, {}, [ep[t] EXCEPT !.pc = "create"], {})
  <2>1. StepOf(t, [ep[t] EXCEPT !.pc = "create"], {})
    BY <1>1, <1>3, TaskGoesOn
  <2> QED
    BY <2>1
<1> QED
  BY <1>2, <1>3 DEF UploadChecks

\* It creates the file and acknowledges the request.
LEMMA UploadCreatesStep ==
  ASSUME TypeOK, Shape, NEW t \in Tasks, UploadCreates(t)
  PROVE  \E r, out : StepOf(t, r, out)
<1>1. /\ ep[t].pc = "create" /\ ep[t].pc \notin {"none", "ended"} /\ ep[t].pc # "none"
      /\ op' = op /\ local' \subseteq Clients /\ requests' = requests
  BY DEF UploadCreates, CreatesFile, TypeOK
<1>2. /\ t \in Endpoints /\ t \notin Clients
      /\ ep[t] \in EndpointType /\ Good(t, ep[t]) /\ Keeps(t, ep[t]) /\ ep[t].result = "none"
      /\ ep[t].addr \in Addresses /\ ep[t].peer \in Addresses \cup {Listener}
  BY <1>1, TaskBefore
<1>3. op[ep[t].name] = "WRQ" /\ op[ep[t].name] = RxOp(t)
  BY <1>1, <1>2 DEF Good, RxOp
<1> SUFFICES ASSUME NEW r, r = Receiving(ep[t])
             PROVE  StepOf(t, r, Ack(0, ep[t]))
  OBVIOUS
<1>4. /\ r.pc = "recv" /\ r.addr = ep[t].addr /\ r.name = ep[t].name /\ r.peer = ep[t].peer
      /\ r.got = ep[t].got /\ r.result = "none"
  BY <1>2 DEF Receiving, EndpointType
<1>5. r \in EndpointType /\ Good(t, r)
  BY <1>1, <1>2, <1>3, ReceivingGood
<1>6. 0 \in Int /\ 0 <= 0 /\ 0 <= Blocks
  BY SessionAssumption
<1>7. /\ Ack(0, ep[t]) \subseteq DatagramType
      /\ \A q \in Ack(0, ep[t]) : q.from = ep[t].addr /\ q.to = ep[t].peer /\ q.type = "ACK" /\ q.n = 0
  BY <1>2, <1>6, SentAck
<1>8. Keeps(t, r) /\ Gets(t, r) /\ Confirms(t, r) /\ r.pc # "none"
  BY <1>4 DEF Keeps, Gets, Confirms
<1>9. Sends(t, r, Ack(0, ep[t]))
  BY <1>2, <1>4, <1>7 DEF Sends
<1>10. ChangesEntry(t, r)
  BY <1>1, <1>2, <1>3, <1>4 DEF UploadCreates, CreatesFile, ChangesEntry, Holds
<1>11. ep' = [ep EXCEPT ![t] = r] /\ net' \subseteq net \cup Ack(0, ep[t])
  BY MoveIs DEF UploadCreates
<1> QED
  BY <1>1, <1>5, <1>7, <1>8, <1>9, <1>10, <1>11 DEF StepOf

\* The file cannot be created.
LEMMA UploadCreateFailsStep ==
  ASSUME TypeOK, Shape, NEW t \in Tasks, UploadCreateFails(t)
  PROVE  \E r, out : StepOf(t, r, out)
<1>1. ep[t].pc = "create" /\ Fails(t) /\ Quiet
  BY LocalQuiet DEF UploadCreateFails
<1>2. StepOf(t, Ends(ep[t], "failed"), Error(ep[t]))
  BY <1>1, TaskFails
<1> QED
  BY <1>2

\* The request is not acknowledged: the task ends and still holds the file.
LEMMA UploadAckFailsStep ==
  ASSUME TypeOK, Shape, NEW t \in Tasks, UploadAckFails(t)
  PROVE  \E r, out : StepOf(t, r, out)
<1>1. /\ ep[t].pc = "create" /\ ep[t].pc \notin {"none", "ended"} /\ ep[t].pc # "none"
      /\ op' = op /\ local' \subseteq Clients /\ requests' = requests
  BY DEF UploadAckFails, CreatesFile, TypeOK
<1>2. /\ t \in Endpoints /\ t \notin Clients
      /\ ep[t] \in EndpointType /\ Good(t, ep[t]) /\ Keeps(t, ep[t]) /\ ep[t].result = "none"
      /\ ep[t].addr \in Addresses /\ ep[t].peer \in Addresses \cup {Listener}
  BY <1>1, TaskBefore
<1>3. op[ep[t].name] = "WRQ"
  BY <1>1, <1>2 DEF Good, RxOp
<1>4. PICK out \in {{}, Error(ep[t])} : Moves(t, {}, Ends(ep[t], "left"), out)
  BY DEF UploadAckFails
<1> SUFFICES ASSUME NEW r, r = Ends(ep[t], "left")
             PROVE  StepOf(t, r, out)
  OBVIOUS
<1>5. /\ r.pc = "ended" /\ r.addr = ep[t].addr /\ r.name = ep[t].name /\ r.peer = ep[t].peer
      /\ r.got = ep[t].got /\ r.result = "left"
  BY <1>2 DEF Ends, EndpointType
<1>6. r \in EndpointType /\ Good(t, r)
  BY <1>2, EndsGood
<1>7. /\ out \subseteq DatagramType
      /\ \A q \in out : q.from = ep[t].addr /\ q.to = ep[t].peer /\ q.type = "ERROR"
  BY <1>2, SentError
<1>8. Keeps(t, r) /\ Gets(t, r) /\ Confirms(t, r) /\ r.pc # "none"
  BY <1>5 DEF Keeps, Gets, Confirms
<1>9. Sends(t, r, out)
  BY <1>2, <1>5, <1>7 DEF Sends
<1>10. ChangesEntry(t, r)
  BY <1>1, <1>2, <1>3, <1>5 DEF UploadAckFails, CreatesFile, ChangesEntry, Holds
<1>11. ep' = [ep EXCEPT ![t] = r] /\ net' \subseteq net \cup out
  BY <1>4, MoveIs
<1> QED
  BY <1>1, <1>6, <1>7, <1>8, <1>9, <1>10, <1>11 DEF StepOf

\* It removes what a failed reception leaves, if remove() succeeds.
LEMMA UploadRemovesStep ==
  ASSUME TypeOK, Shape, NEW t \in Tasks, UploadRemoves(t)
  PROVE  \E r, out : StepOf(t, r, out)
<1>1. /\ ep[t].pc = "remove" /\ ep[t].pc \notin {"none", "ended"} /\ ep[t].pc # "none"
      /\ op' = op /\ local' \subseteq Clients /\ requests' = requests /\ collided' = collided
  BY DEF UploadRemoves, TypeOK
<1>2. /\ t \in Endpoints /\ t \notin Clients
      /\ ep[t] \in EndpointType /\ Good(t, ep[t]) /\ Keeps(t, ep[t]) /\ ep[t].result = "none"
  BY <1>1, TaskBefore
<1>3. op[ep[t].name] = "WRQ"
  BY <1>1, <1>2 DEF Good, RxOp
<1>4. PICK removed \in RemovalSucceeds(t) :
        /\ Moves(t, {}, Ends(ep[t], IF removed THEN "failed" ELSE "left"), {})
        /\ entry' = IF removed THEN EntryRemoved(t) ELSE entry
  BY Zenon DEF UploadRemoves
<1> DEFINE result == IF removed THEN "failed" ELSE "left"
<1>5. result \in {"failed", "left"} /\ (removed <=> result = "failed")
  OBVIOUS
<1> HIDE DEF result
<1> SUFFICES ASSUME NEW r, r = Ends(ep[t], result)
             PROVE  StepOf(t, r, {})
  OBVIOUS
<1>6. /\ r.pc = "ended" /\ r.addr = ep[t].addr /\ r.name = ep[t].name /\ r.peer = ep[t].peer
      /\ r.got = ep[t].got /\ r.result = result
  BY <1>2 DEF Ends, EndpointType
<1>7. r \in EndpointType /\ Good(t, r)
  BY <1>2, <1>5, EndsGood
<1>8. Keeps(t, r) /\ Gets(t, r) /\ Confirms(t, r) /\ r.pc # "none"
  BY <1>5, <1>6 DEF Keeps, Gets, Confirms
<1>9. Sends(t, r, {})
  BY <1>2 DEF Sends
<1>10. ASSUME removed
       PROVE  ChangesEntry(t, r)
  <2>1. entry' = [entry EXCEPT ![ep[t].name] = None]
    BY <1>4, <1>10 DEF EntryRemoved
  <2> QED
    BY <1>1, <1>3, <1>5, <1>6, <1>10, <2>1 DEF ChangesEntry, Holds
<1>11. ASSUME ~ removed
       PROVE  LeavesEntry(t, r)
  <2>1. entry' = entry
    BY <1>4, <1>11
  <2> QED
    BY <1>1, <1>3, <1>5, <1>6, <1>11, <2>1 DEF LeavesEntry, Holds
<1>12. ep' = [ep EXCEPT ![t] = r] /\ net' \subseteq net \cup {}
  BY <1>4, MoveIs DEF result
<1>13. {} \subseteq DatagramType
  OBVIOUS
<1> QED
  BY <1>1, <1>7, <1>8, <1>9, <1>10, <1>11, <1>12, <1>13 DEF StepOf

\* server_read_file() opens the file and sends the first block.
LEMMA DownloadOpensStep ==
  ASSUME TypeOK, Shape, NEW t \in Tasks, DownloadOpens(t)
  PROVE  \E r, out : StepOf(t, r, out)
<1>1. ep[t].pc = "start" /\ op[ep[t].name] = "RRQ" /\ ep[t].pc \notin {"none", "ended"} /\ Quiet
  BY LocalQuiet DEF DownloadOpens, Starts
<1>2. CASE Fails(t)
  <2>1. StepOf(t, Ends(ep[t], "failed"), Error(ep[t]))
    BY <1>1, <1>2, TaskFails
  <2> QED
    BY <2>1
<1>3. CASE Moves(t, {}, Sending(ep[t], 1), Data(Sending(ep[t], 1)))
  <2>1. /\ t \in Endpoints /\ t \notin Clients
        /\ ep[t] \in EndpointType /\ Good(t, ep[t]) /\ Keeps(t, ep[t]) /\ ep[t].result = "none"
    BY <1>1, TaskBefore
  <2>2. 1 \in Int /\ 1 <= Blocks /\ op[ep[t].name] = TxOp(t) /\ ep[t].pc # "none"
    BY <1>1, <2>1, SessionAssumption DEF TxOp
  <2>3. StepOf(t, Sending(ep[t], 1), Data(Sending(ep[t], 1)))
    BY <1>1, <1>3, <2>1, <2>2, SendingStep
  <2> QED
    BY <2>3
<1> QED
  BY <1>2, <1>3 DEF DownloadOpens

\* server_delete_file() acknowledges the request, ...
LEMMA DeleteAcksStep ==
  ASSUME TypeOK, Shape, NEW t \in Tasks, DeleteAcks(t)
  PROVE  \E r, out : StepOf(t, r, out)
<1>1. ep[t].pc = "start" /\ op[ep[t].name] = "DRQ" /\ Quiet
  BY LocalQuiet DEF DeleteAcks, Starts
<1>2. StepOf(t, [ep[t] EXCEPT !.pc = "find"], Ack(0, ep[t]))
  BY <1>1, TaskGoesOn DEF DeleteAcks
<1> QED
  BY <1>2

\* ... opens the file, ...
LEMMA DeleteFindsStep ==
  ASSUME TypeOK, Shape, NEW t \in Tasks, DeleteFinds(t)
  PROVE  \E r, out : StepOf(t, r, out)
<1>1. ep[t].pc = "find" /\ ep[t].pc \notin {"none", "ended"} /\ Quiet
  BY LocalQuiet DEF DeleteFinds
<1>2. op[ep[t].name] = "DRQ"
  BY <1>1, TaskBefore DEF Good
<1>3. CASE Fails(t)
  <2>1. StepOf(t, Ends(ep[t], "failed"), Error(ep[t]))
    BY <1>1, <1>3, TaskFails
  <2> QED
    BY <2>1
<1>4. CASE Moves(t, {}, [ep[t] EXCEPT !.pc = "erase"], {})
  <2>1. StepOf(t, [ep[t] EXCEPT !.pc = "erase"], {})
    BY <1>1, <1>2, <1>4, TaskGoesOn
  <2> QED
    BY <2>1
<1> QED
  BY <1>3, <1>4 DEF DeleteFinds

\* ... and confirms the removal, if it was one.
LEMMA DeleteRemovesStep ==
  ASSUME TypeOK, Shape, NEW t \in Tasks, DeleteRemoves(t)
  PROVE  \E r, out : StepOf(t, r, out)
<1>1. /\ ep[t].pc = "erase" /\ ep[t].pc \notin {"none", "ended"} /\ ep[t].pc # "none"
      /\ op' = op /\ local' \subseteq Clients /\ requests' = requests /\ collided' = collided
  BY DEF DeleteRemoves, TypeOK
<1>2. /\ t \in Endpoints /\ t \notin Clients
      /\ ep[t] \in EndpointType /\ Good(t, ep[t]) /\ Keeps(t, ep[t]) /\ ep[t].result = "none"
      /\ ep[t].addr \in Addresses /\ ep[t].peer \in Addresses \cup {Listener}
  BY <1>1, TaskBefore
<1>3. op[ep[t].name] = "DRQ"
  BY <1>1, <1>2 DEF Good
<1>4. CASE Fails(t) /\ UNCHANGED entry
  <2>1. Quiet
    BY <1>1, <1>4 DEF Quiet
  <2>2. StepOf(t, Ends(ep[t], "failed"), Error(ep[t]))
    BY <1>1, <1>4, <2>1, TaskFails
  <2> QED
    BY <2>2
<1>5. CASE /\ TRUE \in RemovalSucceeds(t)
           /\ Moves(t, {}, Ends(ep[t], "success"), Ack(1, ep[t]))
           /\ entry' = [entry EXCEPT ![ep[t].name] = None]
  <2> SUFFICES ASSUME NEW r, r = Ends(ep[t], "success")
               PROVE  StepOf(t, r, Ack(1, ep[t]))
    OBVIOUS
  <2>1. entry[ep[t].name] # None
    BY <1>5 DEF RemovalSucceeds
  <2>2. /\ r.pc = "ended" /\ r.addr = ep[t].addr /\ r.name = ep[t].name /\ r.peer = ep[t].peer
        /\ r.got = ep[t].got /\ r.result = "success"
    BY <1>2 DEF Ends, EndpointType
  <2>3. op[ep[t].name] # RxOp(t) /\ op[ep[t].name] # TxOp(t)
    BY <1>3 DEF RxOp, TxOp
  <2>4. r \in EndpointType /\ Good(t, r)
    BY <1>2, <2>3, EndsGood
  <2>5. 1 \in Int /\ 0 <= 1 /\ 1 <= Blocks
    BY SessionAssumption
  <2>6. /\ Ack(1, ep[t]) \subseteq DatagramType
        /\ \A q \in Ack(1, ep[t]) : q.from = ep[t].addr /\ q.to = ep[t].peer /\ q.type = "ACK" /\ q.n = 1
    BY <1>2, <2>5, SentAck
  <2>7. Keeps(t, r) /\ Gets(t, r) /\ Confirms(t, r) /\ r.pc # "none"
    BY <1>2, <2>2, <2>3 DEF Keeps, Gets, Confirms
  <2>8. Sends(t, r, Ack(1, ep[t]))
    BY <1>2, <1>3, <2>2, <2>6 DEF Sends
  <2>9. ChangesEntry(t, r)
    BY <1>1, <1>3, <1>5, <2>1, <2>2 DEF ChangesEntry
  <2>10. ep' = [ep EXCEPT ![t] = r] /\ net' \subseteq net \cup Ack(1, ep[t])
    BY <1>5, MoveIs
  <2> QED
    BY <1>1, <2>4, <2>6, <2>7, <2>8, <2>9, <2>10 DEF StepOf
<1> QED
  <2>1. PICK removed \in RemovalSucceeds(t) :
          IF removed
          THEN /\ Moves(t, {}, Ends(ep[t], "success"), Ack(1, ep[t]))
               /\ entry' = [entry EXCEPT ![ep[t].name] = None]
          ELSE Fails(t) /\ UNCHANGED entry
    BY Zenon DEF DeleteRemoves
  <2>2. removed \in BOOLEAN
    BY <2>1 DEF RemovalSucceeds
  <2> QED
    BY <1>4, <1>5, <2>1, <2>2

-----------------------------------------------------------------------------

\* Every step of a client or of a task is one of these.
LEMMA ClientSteps ==
  ASSUME TypeOK, Shape, NEW c \in Clients, ClientStep(c)
  PROVE  \E r, out : StepOf(c, r, out)
<1>1. c \in Endpoints
  BY DEF Endpoints
<1> QED
  BY <1>1, TxTimesOutStep, RxTimesOutStep, TxReceivesStep, RxReceivesStep,
     AwaitTimesOutStep, AwaitReceivesStep, FillSendsStep, FillReceivesStep DEF ClientStep, EndpointStep

\* Every step of a task is that of an endpoint.
LEMMA TaskSteps ==
  ASSUME TypeOK, Shape, NEW t \in Tasks, TaskStep(t)
  PROVE  \E r, out : StepOf(t, r, out)
<1>1. t \in Endpoints
  BY DEF Endpoints
<1> QED
  BY <1>1, TxTimesOutStep, RxTimesOutStep, TxReceivesStep, RxReceivesStep,
     UploadChecksStep, UploadCreatesStep, UploadCreateFailsStep, UploadAckFailsStep,
     UploadRemovesStep, DownloadOpensStep, DeleteAcksStep, DeleteFindsStep, DeleteRemovesStep DEF TaskStep, EndpointStep

\* Every step of the listener starts a task or sends an ERROR.
LEMMA ListenerRefusal ==
  ASSUME NEW ps, NEW to \in Addresses \cup {Listener}, ListenerRefuses(ps, to),
         requests' \in [Clients -> 0 .. MaxCopies], UNCHANGED <<op, local, entry, collided>>
  PROVE  \E out : Refusing(out)
<1> DEFINE r == [addr |-> Listener, peer |-> to]
<1>1. r.addr \in Addresses \cup {Listener} /\ r.peer \in Addresses \cup {Listener} /\ r.addr = Listener
  OBVIOUS
<1>2. net' \subseteq net \cup Error(r) /\ UNCHANGED ep
  BY DEF ListenerRefuses, InFlight
<1> HIDE DEF r
<1>3. /\ Error(r) \subseteq DatagramType
      /\ \A q \in Error(r) : q.from = Listener /\ q.type = "ERROR"
  BY <1>1, SentError
<1>4. Refusing(Error(r))
  BY <1>2, <1>3 DEF Refusing
<1> QED
  BY <1>4

\* The listener starts a task or refuses.
LEMMA ListenerSteps ==
  ASSUME TypeOK, ListenerStep
  PROVE  \/ \E c \in Clients, t \in Tasks, a \in Ports : Starting(c, t, a)
         \/ \E out : Refusing(out)
<1>1. ASSUME NEW c \in Clients, RequestArrives(c)
      PROVE  requests' \in [Clients -> 0 .. MaxCopies] /\ c \in Addresses
  <2>1. requests[c] \in 0 .. MaxCopies /\ requests[c] > 0 /\ c \in Addresses
    BY <1>1 DEF TypeOK, RequestArrives, Addresses
  <2>2. requests[c] - 1 \in 0 .. MaxCopies
    BY <2>1, SessionAssumption
  <2> QED
    BY <1>1, <2>1, <2>2 DEF TypeOK, RequestArrives
<1>2. ASSUME NEW c \in Clients, Reject(c)
      PROVE  \E out : Refusing(out)
  BY <1>1, <1>2, ListenerRefusal DEF Reject
<1>3. ASSUME NEW c \in Clients, NEW t \in Tasks, Accept(c, t)
      PROVE  \E a \in Ports : Starting(c, t, a)
  <2>1. PICK a \in FreePorts : Moves(t, {}, Endpoint("start", a, c, c), {})
    BY <1>3 DEF Accept, RequestedName
  <2>2. a \in Ports
    BY <2>1 DEF FreePorts
  <2>3. /\ ep' = [ep EXCEPT ![t] = Endpoint("start", a, c, c)]
        /\ net' \subseteq net \cup {}
    BY <2>1, MoveIs
  <2>4. Starting(c, t, a)
    BY <1>1, <1>3, <2>2, <2>3 DEF Accept, Starting
  <2> QED
    BY <2>2, <2>4
<1>4. ASSUME NEW p \in net, Dismiss(p)
      PROVE  \E out : Refusing(out)
  <2>1. p.from \in Addresses \cup {Listener}
    BY DatagramFields DEF TypeOK
  <2>2. requests' \in [Clients -> 0 .. MaxCopies] /\ UNCHANGED <<op, local, entry, collided>>
    BY <1>4 DEF Dismiss, Local, TypeOK
  <2> QED
    BY <1>4, <2>1, <2>2, ListenerRefusal DEF Dismiss
<1> QED
  BY <1>2, <1>3, <1>4 DEF ListenerStep

\* One step of the program, seen by the invariant.
OneStep ==
  \/ \E e \in Endpoints : \E r, out : StepOf(e, r, out)
  \/ \E c \in Clients, t \in Tasks, a \in Ports : Starting(c, t, a)
  \/ \E out : Refusing(out)
  \/ UNCHANGED vars

\* These are all the steps there are.
LEMMA EveryStep ==
  ASSUME TypeOK, Shape, [Next]_vars
  PROVE  OneStep
<1>1. Clients \subseteq Endpoints /\ Tasks \subseteq Endpoints
  BY DEF Endpoints
<1> QED
  BY <1>1, ClientSteps, TaskSteps, ListenerSteps DEF Next, Finished, OneStep

-----------------------------------------------------------------------------
(* The types, and the shape of endpoints                                   *)

\* The endpoints after a step of one of them.
LEMMA OthersStay ==
  ASSUME TypeOK, NEW e \in Endpoints, NEW r, ep' = [ep EXCEPT ![e] = r]
  PROVE  \A f \in Endpoints : ep'[f] = IF f = e THEN r ELSE ep[f]
BY DEF TypeOK

\* Types and shape after a step of an endpoint.
LEMMA TypeShapeStep ==
  ASSUME TypeOK, Shape, NEW e \in Endpoints, NEW r, NEW out, StepOf(e, r, out)
  PROVE  TypeOK' /\ Shape'
<1>1. /\ ep' = [ep EXCEPT ![e] = r] /\ net' \subseteq net \cup out
      /\ op' = op /\ requests' = requests /\ local' \subseteq Clients
      /\ r \in EndpointType /\ out \subseteq DatagramType
      /\ Good(e, r) /\ r.pc # "none" /\ r.name \in Clients /\ r.addr \in Addresses
  BY GoodAddresses DEF StepOf, TypeOK
<1>2. \A f \in Endpoints : ep'[f] = IF f = e THEN r ELSE ep[f]
  BY <1>1, OthersStay
<1>3. ep' \in [Endpoints -> EndpointType]
  BY <1>1 DEF TypeOK
<1>4. \A f \in Endpoints : ep'[f].pc \in {"await", "wait"} => ep'[f].tries < MaxRetry
  BY <1>1, <1>2 DEF TypeOK, Good
<1>5. entry' \in [Clients -> Tasks \cup {None, Old}] /\ collided' \subseteq Clients
  <2>1. CASE LeavesEntry(e, r)
    BY <2>1 DEF LeavesEntry, TypeOK
  <2>2. CASE ChangesEntry(e, r)
    BY <1>1, <2>2 DEF ChangesEntry, TypeOK
  <2> QED
    BY <2>1, <2>2 DEF StepOf
<1>6. op' \in [Clients -> Operations] /\ requests' \in [Clients -> 0 .. MaxCopies]
      /\ net' \subseteq DatagramType
  BY <1>1 DEF TypeOK
<1>7. TypeOK'
  BY <1>1, <1>3, <1>4, <1>5, <1>6 DEF TypeOK
<1>8. Endpoints0'
  <2> SUFFICES ASSUME NEW f \in Endpoints
               PROVE  (IF ep[f].pc = "none" THEN f \in Tasks /\ ep[f] = NoTask ELSE Good(f, ep[f]))'
    BY DEF Endpoints0
  <2>1. CASE f = e
    <3>1. ep'[f] = r
      BY <1>2, <2>1
    <3> QED
      BY <1>1, <2>1, <3>1 DEF Good, TxOp, RxOp
  <2>2. CASE f # e
    <3>1. ep'[f] = ep[f]
      BY <1>2, <2>2
    <3>2. IF ep[f].pc = "none" THEN f \in Tasks /\ ep[f] = NoTask ELSE Good(f, ep[f])
      BY DEF Shape, Endpoints0
    <3>3. NoTask' = NoTask
      BY DEF NoTask, Endpoint
    <3>4. CASE ep[f].pc = "none"
      BY <3>1, <3>2, <3>3, <3>4
    <3>5. CASE ep[f].pc # "none"
      BY <1>1, <3>1, <3>2, <3>5 DEF Good, TxOp, RxOp
    <3> QED
      BY <3>4, <3>5
  <2> QED
    BY <2>1, <2>2
<1>9. ListenerErrors'
  <2>1. \A q \in out : q.from # Listener
    BY <1>1, Distinct DEF StepOf, Sends, Addresses
  <2> QED
    BY <1>1, <2>1 DEF Shape, ListenerErrors
<1> QED
  BY <1>7, <1>8, <1>9 DEF Shape

\* What a task is when it starts.
LEMMA StartedTask ==
  ASSUME NEW c \in Clients, NEW a \in Ports, NEW r, r = Endpoint("start", a, c, c)
  PROVE  /\ r \in EndpointType
         /\ r.pc = "start" /\ r.addr = a /\ r.name = c /\ r.peer = c /\ r.n = 0 /\ r.tries = 0
         /\ r.got = <<>> /\ r.result = "none"
<1>1. 0 \in 0 .. Blocks + 1 /\ 0 \in 0 .. MaxRetry /\ <<>> \in Seq(AnyBlock)
  BY SessionAssumption
<1> QED
  BY <1>1 DEF Endpoint, EndpointType, Addresses

\* Types and shape after the start of a task.
LEMMA TypeShapeStart ==
  ASSUME TypeOK, Shape, NEW c \in Clients, NEW t \in Tasks, NEW a \in Ports, Starting(c, t, a)
  PROVE  TypeOK' /\ Shape'
<1> DEFINE r == Endpoint("start", a, c, c)
<1>1. /\ r \in EndpointType
      /\ r.pc = "start" /\ r.addr = a /\ r.name = c /\ r.peer = c /\ r.n = 0 /\ r.tries = 0
      /\ r.got = <<>> /\ r.result = "none"
  BY StartedTask
<1>2. t \in Endpoints /\ t \notin Clients /\ ep' = [ep EXCEPT ![t] = r]
  BY Distinct DEF Endpoints, Starting
<1> HIDE DEF r
<1>3. /\ requests' \in [Clients -> 0 .. MaxCopies] /\ net' \subseteq net
      /\ UNCHANGED <<op, local, entry, collided>>
  BY DEF Starting
<1>4. \A f \in Endpoints : ep'[f] = IF f = t THEN r ELSE ep[f]
  BY <1>2, OthersStay
<1>5. ep' \in [Endpoints -> EndpointType]
  BY <1>1, <1>2 DEF TypeOK
<1>6. \A f \in Endpoints : ep'[f].pc \in {"await", "wait"} => ep'[f].tries < MaxRetry
  BY <1>1, <1>4 DEF TypeOK
<1>7. TypeOK'
  BY <1>3, <1>5, <1>6 DEF TypeOK
<1>8. Good(t, r)
  BY <1>1, <1>2, Distinct, SessionAssumption DEF Good
<1>9. Endpoints0'
  <2> SUFFICES ASSUME NEW f \in Endpoints
               PROVE  (IF ep[f].pc = "none" THEN f \in Tasks /\ ep[f] = NoTask ELSE Good(f, ep[f]))'
    BY DEF Endpoints0
  <2>1. CASE f = t
    <3>1. ep'[f] = r /\ r.pc # "none"
      BY <1>1, <1>4, <2>1
    <3> QED
      BY <1>3, <1>8, <2>1, <3>1 DEF Good, TxOp, RxOp
  <2>2. CASE f # t
    <3>1. ep'[f] = ep[f]
      BY <1>4, <2>2
    <3>2. IF ep[f].pc = "none" THEN f \in Tasks /\ ep[f] = NoTask ELSE Good(f, ep[f])
      BY DEF Shape, Endpoints0
    <3>3. NoTask' = NoTask
      BY DEF NoTask, Endpoint
    <3>4. CASE ep[f].pc = "none"
      BY <3>1, <3>2, <3>3, <3>4
    <3>5. CASE ep[f].pc # "none"
      BY <1>3, <3>1, <3>2, <3>5 DEF Good, TxOp, RxOp
    <3> QED
      BY <3>4, <3>5
  <2> QED
    BY <2>1, <2>2
<1> QED
  BY <1>3, <1>7, <1>9 DEF Shape, ListenerErrors

\* Types and shape after a refusal.
LEMMA TypeShapeRefuse ==
  ASSUME TypeOK, Shape, NEW out, Refusing(out)
  PROVE  TypeOK' /\ Shape'
<1>1. /\ out \subseteq DatagramType /\ \A q \in out : q.from = Listener /\ q.type = "ERROR"
      /\ net' \subseteq net \cup out /\ requests' \in [Clients -> 0 .. MaxCopies]
      /\ UNCHANGED <<ep, op, local, entry, collided>>
  BY DEF Refusing
<1>2. TypeOK'
  BY <1>1 DEF TypeOK
<1>3. Endpoints0'
  BY <1>1 DEF Shape, Endpoints0, Good, TxOp, RxOp, NoTask, Endpoint
<1>4. ListenerErrors'
  BY <1>1 DEF Shape, ListenerErrors
<1> QED
  BY <1>2, <1>3, <1>4 DEF Shape

-----------------------------------------------------------------------------
(* Uploads in the storage directory                                        *)

\* The invariant about uploads holds after a step of an endpoint, ...
LEMMA HeldStep ==
  ASSUME TypeOK, Shape, Held, NEW e \in Endpoints, NEW r, NEW out, StepOf(e, r, out)
  PROVE  Held'
<1>1. /\ ep' = [ep EXCEPT ![e] = r] /\ op' = op /\ r.name = ep[e].name
      /\ LeavesEntry(e, r) \/ ChangesEntry(e, r)
      /\ r.name \in Clients
  BY GoodAddresses DEF StepOf, Keeps, TypeOK
<1>2. \A f \in Endpoints : ep'[f] = IF f = e THEN r ELSE ep[f]
  BY <1>1, OthersStay
<1>3. \A t \in Tasks : t \in Endpoints /\ t # None
  BY Distinct DEF Endpoints
<1>4. collided \subseteq collided' /\ entry \in [Clients -> Tasks \cup {None, Old}]
  BY <1>1 DEF LeavesEntry, ChangesEntry, TypeOK
<1> SUFFICES ASSUME NEW c \in Clients, op[c] = "WRQ", c \notin collided'
             PROVE  /\ \A t \in TasksOf(c)' : Holds(ep'[t]) => entry'[c] = t
                    /\ entry'[c] \in Tasks => entry'[c] \in TasksOf(c)' /\ Holds(ep'[entry'[c]])
  BY <1>1 DEF Held, Holds
<1>5. /\ \A t \in TasksOf(c) : Holds(ep[t]) => entry[c] = t
      /\ entry[c] \in Tasks => entry[c] \in TasksOf(c) /\ Holds(ep[entry[c]])
  BY <1>4 DEF Held
<1>6. TasksOf(c)' = TasksOf(c)
  BY <1>1, <1>2, <1>3 DEF TasksOf
<1>7. TasksOf(c) \subseteq Tasks
  BY DEF TasksOf
<1>8. CASE e \notin TasksOf(c)
  <2>1. entry'[c] = entry[c]
    BY <1>1, <1>4, <1>8 DEF LeavesEntry, ChangesEntry, TasksOf
  <2>2. \A t \in TasksOf(c) : ep'[t] = ep[t]
    BY <1>2, <1>3, <1>7, <1>8
  <2> QED
    BY <1>5, <1>6, <2>1, <2>2
<1>9. CASE e \in TasksOf(c)
  <2>1. e \in Tasks /\ r.name = c
    BY <1>1, <1>9 DEF TasksOf
  <2>2. CASE LeavesEntry(e, r)
    <3>1. entry'[c] = entry[c] /\ (Holds(r) <=> Holds(ep[e]))
      BY <2>1, <2>2 DEF LeavesEntry
    <3>2. \A t \in TasksOf(c) : Holds(ep'[t]) <=> Holds(ep[t])
      BY <1>2, <1>3, <1>7, <3>1
    <3> QED
      BY <1>5, <1>6, <3>1, <3>2
  <2>3. CASE /\ Holds(r) /\ ~ Holds(ep[e])
             /\ entry' = [entry EXCEPT ![r.name] = e]
             /\ collided' = IF entry[r.name] = None THEN collided ELSE collided \cup {r.name}
    <3>1. entry[c] = None /\ entry'[c] = e
      BY <1>4, <2>1, <2>3
    <3>2. \A t \in TasksOf(c) : ~ Holds(ep[t])
      BY <1>3, <1>5, <1>7, <3>1
    <3>3. \A t \in TasksOf(c) : t # e => ~ Holds(ep'[t])
      BY <1>2, <1>3, <1>7, <3>2
    <3>4. Holds(ep'[e])
      BY <1>2, <2>3
    <3> QED
      BY <1>6, <1>9, <3>1, <3>3, <3>4
  <2>4. CASE /\ ~ Holds(r) /\ Holds(ep[e])
             /\ entry' = [entry EXCEPT ![r.name] = None]
    <3>1. entry[c] = e /\ entry'[c] = None
      BY <1>4, <1>5, <1>9, <2>1, <2>4
    <3>2. \A t \in TasksOf(c) : ~ Holds(ep'[t])
      BY <1>2, <1>3, <1>5, <1>7, <2>4, <3>1
    <3> QED
      BY <1>3, <1>6, <3>1, <3>2
  <2> QED
    BY <1>1, <2>1, <2>2, <2>3, <2>4 DEF ChangesEntry
<1> QED
  BY <1>8, <1>9

\* ... of the listener that starts a task, ...
LEMMA HeldStart ==
  ASSUME TypeOK, Shape, Held, NEW c \in Clients, NEW t \in Tasks, NEW a \in Ports, Starting(c, t, a)
  PROVE  Held'
<1> DEFINE r == Endpoint("start", a, c, c)
<1>1. r.pc = "start" /\ r.name = c /\ r.result = "none"
  BY StartedTask
<1>2. t \in Endpoints /\ ep' = [ep EXCEPT ![t] = r] /\ UNCHANGED <<op, entry, collided>>
  BY DEF Endpoints, Starting
<1> HIDE DEF r
<1>3. \A f \in Endpoints : ep'[f] = IF f = t THEN r ELSE ep[f]
  BY <1>2, OthersStay
<1>4. ep[t] = NoTask
  BY <1>2 DEF Starting, Shape, Endpoints0
<1>5. ep[t].name = None /\ ep[t].result = "none" /\ ~ Holds(r)
  BY <1>1, <1>4 DEF NoTask, Endpoint, Holds
<1>6. \A u \in Tasks : u \in Endpoints
  BY DEF Endpoints
<1> SUFFICES ASSUME NEW d \in Clients, op[d] = "WRQ", d \notin collided
             PROVE  /\ \A u \in TasksOf(d)' : Holds(ep'[u]) => entry[d] = u
                    /\ entry[d] \in Tasks => entry[d] \in TasksOf(d)' /\ Holds(ep'[entry[d]])
  BY <1>2 DEF Held, Holds
<1>7. /\ \A u \in TasksOf(d) : Holds(ep[u]) => entry[d] = u
      /\ entry[d] \in Tasks => entry[d] \in TasksOf(d) /\ Holds(ep[entry[d]])
  BY DEF Held
<1>8. t \notin TasksOf(d)
  BY <1>5, Distinct DEF TasksOf
<1>9. \A u \in TasksOf(d) : u \in TasksOf(d)' /\ ep'[u] = ep[u]
  BY <1>3, <1>6, <1>8 DEF TasksOf
<1>10. \A u \in TasksOf(d)' : u # t => u \in TasksOf(d)
  BY <1>3, <1>6 DEF TasksOf
<1>11. ~ Holds(ep'[t])
  BY <1>2, <1>3, <1>5
<1> QED
  BY <1>7, <1>9, <1>10, <1>11

\* ... and when nothing of it changes.
LEMMA HeldSame ==
  ASSUME Held, UNCHANGED <<ep, op, entry, collided>>
  PROVE  Held'
BY DEF Held, TasksOf, Holds

-----------------------------------------------------------------------------
(* Deletions                                                               *)

\* The invariant about deletions holds after a step of an endpoint, ...
LEMMA DeletionStep ==
  ASSUME TypeOK, Shape, Deletion, NEW e \in Endpoints, NEW r, NEW out, StepOf(e, r, out)
  PROVE  Deletion'
<1>1. /\ ep' = [ep EXCEPT ![e] = r] /\ op' = op /\ net' \subseteq net \cup out
      /\ LeavesEntry(e, r) \/ ChangesEntry(e, r)
      /\ Good(e, r) /\ Keeps(e, r) /\ Sends(e, r, out) /\ Confirms(e, r)
      /\ r.name \in Clients
  BY GoodAddresses DEF StepOf, TypeOK
<1>2. \A f \in Endpoints : ep'[f] = IF f = e THEN r ELSE ep[f]
  BY <1>1, OthersStay
<1>3. ep[e].result = "none" /\ Good(e, ep[e])
  BY GoodBefore, Staying DEF StepOf
<1>4. Clients \subseteq Endpoints /\ Tasks \subseteq Endpoints
  BY DEF Endpoints
<1> SUFFICES ASSUME NEW c \in Clients, op[c] = "DRQ"
             PROVE  DeletionOf(c)'
  BY <1>1 DEF Deletion
<1>5. DeletionOf(c)
  BY DEF Deletion
<1>6. TasksOf(c)' = TasksOf(c)
  BY <1>1, <1>2, <1>4 DEF TasksOf, Keeps
<1>7. Removers(c) \subseteq Removers(c)' /\ e \notin Removers(c)
  BY <1>2, <1>3, <1>4, <1>6 DEF Removers, TasksOf
<1>8. Removers(c)' \subseteq Removers(c) \cup {e}
  BY <1>2, <1>4, <1>6 DEF Removers, TasksOf
<1>9. e \in Removers(c)' <=> e \in TasksOf(c) /\ r.result = "success"
  BY <1>2, <1>6 DEF Removers
<1>10. r.peer = c => e \in TasksOf(c)
  BY <1>1, <1>5 DEF Keeps, DeletionOf
<1>11. \A f \in Endpoints : ep'[f].peer = c => f \in TasksOf(c)'
  BY <1>2, <1>5, <1>6, <1>10 DEF DeletionOf
<1>12. \A p \in net' : p.from # c
  <2>1. ASSUME NEW q \in out, q.from = c PROVE FALSE
    <3>1. r.addr = c
      BY <1>1, <2>1 DEF Sends
    <3>2. e = c /\ r.name = c
      BY <1>1, <3>1, Distinct DEF Good
    <3>3. out = {}
      BY <1>1, <3>2 DEF Sends
    <3> QED
      BY <2>1, <3>3
  <2> QED
    BY <1>1, <1>5, <2>1 DEF DeletionOf
<1>13. \A p \in net' : p.to = c /\ p.type = "ACK" /\ p.n = 1 => Removers(c)' # {}
  <2>1. ASSUME NEW q \in out, q.to = c, q.type = "ACK", q.n = 1
        PROVE  e \in Removers(c)'
    <3>1. e \in TasksOf(c)
      BY <1>1, <1>10, <2>1 DEF Sends
    <3>2. r.name = c
      BY <1>1, <3>1 DEF TasksOf, Keeps
    <3>3. q.n > 0
      BY <2>1
    <3>4. r.result = "success"
      BY <1>1, <2>1, <3>2, <3>3 DEF Sends
    <3> QED
      BY <1>9, <3>1, <3>4
  <2> QED
    BY <1>1, <1>5, <1>7, <2>1 DEF DeletionOf
<1>14. e \in TasksOf(c) => e \in Tasks /\ r.name = c
  BY <1>1 DEF TasksOf, Keeps
<1>15. e \in Removers(c)' => Removers(c) = {} /\ entry'[c] = None
  <2> SUFFICES ASSUME e \in Removers(c)'
               PROVE  Removers(c) = {} /\ entry'[c] = None
    OBVIOUS
  <2>1. e \in Tasks /\ r.name = c /\ r.result = "success"
    BY <1>9, <1>14
  <2>2. ~ LeavesEntry(e, r)
    BY <2>1 DEF LeavesEntry
  <2>3. entry[c] # None /\ entry' = [entry EXCEPT ![c] = None]
    BY <1>1, <2>1, <2>2 DEF ChangesEntry
  <2> QED
    BY <1>5, <2>3 DEF DeletionOf, TypeOK
<1>16. \A t, u \in Removers(c)' : t = u
  BY <1>5, <1>8, <1>15 DEF DeletionOf
<1>17. Removers(c)' # {} => entry'[c] = None
  <2>1. Removers(c) # {} => entry[c] = None
    BY <1>5 DEF DeletionOf
  <2>2. entry'[c] = entry[c] \/ entry'[c] = None
    <3>1. CASE LeavesEntry(e, r)
      BY <3>1 DEF LeavesEntry
    <3>2. CASE ChangesEntry(e, r)
      BY <3>2 DEF ChangesEntry, TypeOK
    <3> QED
      BY <1>1, <3>1, <3>2
  <2> QED
    BY <1>8, <1>15, <2>1, <2>2
<1>18. ep'[c].result = "success" => Removers(c)' # {}
  <2>1. CASE e # c
    BY <1>2, <1>4, <1>5, <1>7, <2>1 DEF DeletionOf
  <2>2. CASE e = c /\ r.result = "success"
    <3>1. r.name = c /\ ep[e].addr = c
      BY <1>1, <1>3, <2>2 DEF Good
    <3>2. \E p \in net : p.to = c /\ p.type = "ACK" /\ p.n = 1
      BY <1>1, <2>2, <3>1 DEF Confirms
    <3> QED
      BY <1>5, <1>7, <3>2 DEF DeletionOf
  <2>3. CASE e = c /\ r.result # "success"
    BY <1>2, <2>3
  <2> QED
    BY <2>1, <2>2, <2>3
<1> QED
  BY <1>11, <1>12, <1>13, <1>16, <1>17, <1>18 DEF DeletionOf

\* ... of the listener that starts a task, ...
LEMMA DeletionStart ==
  ASSUME TypeOK, Shape, Deletion, NEW d \in Clients, NEW t \in Tasks, NEW a \in Ports,
         Starting(d, t, a)
  PROVE  Deletion'
<1> DEFINE r == Endpoint("start", a, d, d)
<1>1. r.pc = "start" /\ r.name = d /\ r.peer = d /\ r.result = "none"
  BY StartedTask
<1>2. t \in Endpoints /\ ep' = [ep EXCEPT ![t] = r] /\ UNCHANGED <<op, entry>> /\ net' \subseteq net
  BY DEF Endpoints, Starting
<1> HIDE DEF r
<1>3. \A f \in Endpoints : ep'[f] = IF f = t THEN r ELSE ep[f]
  BY <1>2, OthersStay
<1>4. ep[t] = NoTask
  BY <1>2 DEF Starting, Shape, Endpoints0
<1>5. ep[t].name = None
  BY <1>4 DEF NoTask, Endpoint
<1>6. Clients \subseteq Endpoints /\ Tasks \subseteq Endpoints /\ t \notin Clients
  BY Distinct DEF Endpoints
<1> SUFFICES ASSUME NEW c \in Clients, op[c] = "DRQ"
             PROVE  DeletionOf(c)'
  BY <1>2 DEF Deletion
<1>7. DeletionOf(c)
  BY DEF Deletion
<1>8. t \notin TasksOf(c)
  BY <1>5, Distinct DEF TasksOf
<1>9. TasksOf(c)' = IF d = c THEN TasksOf(c) \cup {t} ELSE TasksOf(c)
  BY <1>1, <1>3, <1>6, <1>8 DEF TasksOf
<1>10. Removers(c)' = Removers(c)
  BY <1>1, <1>3, <1>6, <1>8, <1>9 DEF Removers, TasksOf
<1>11. \A f \in Endpoints : ep'[f].peer = c => f \in TasksOf(c)'
  BY <1>1, <1>3, <1>7, <1>9 DEF DeletionOf
<1> QED
  BY <1>2, <1>3, <1>6, <1>7, <1>10, <1>11 DEF DeletionOf

\* ... or refuses, ...
LEMMA DeletionRefuse ==
  ASSUME TypeOK, Deletion, NEW out, Refusing(out)
  PROVE  Deletion'
<1>1. /\ UNCHANGED <<ep, op, entry>> /\ net' \subseteq net \cup out
      /\ \A q \in out : q.from = Listener /\ q.type = "ERROR"
  BY DEF Refusing
<1>2. \A c \in Clients : TasksOf(c)' = TasksOf(c) /\ Removers(c)' = Removers(c)
  BY <1>1 DEF TasksOf, Removers
<1>3. \A c \in Clients, p \in net' : p \notin net => p.from # c /\ p.type # "ACK"
  BY <1>1, Distinct
<1> SUFFICES ASSUME NEW c \in Clients, op[c] = "DRQ"
             PROVE  DeletionOf(c)'
  BY <1>1 DEF Deletion
<1>4. DeletionOf(c)
  BY DEF Deletion
<1> QED
  BY <1>1, <1>2, <1>3, <1>4 DEF DeletionOf

\* ... and when nothing happens.
LEMMA DeletionSame ==
  ASSUME Deletion, UNCHANGED vars
  PROVE  Deletion'
BY DEF Deletion, DeletionOf, Removers, TasksOf, vars

-----------------------------------------------------------------------------
(* The separation of clients                                               *)

\* While ports are apart, a datagram that reaches an endpoint is of its client.
LEMMA ReceivedStays ==
  ASSUME TypeOK, Shape, PortsApart, NetStays, NEW e \in Endpoints, ep[e].pc # "none",
         NEW p \in net, p.to = ep[e].addr, p.from # Listener
  PROVE  Stays(p, ep[e].name)
<1>1. Good(e, ep[e])
  BY GoodBefore
<1>2. PICK c \in Clients : Stays(p, c)
  BY DEF NetStays
<1>3. ep[e].addr \in Owned(c) \cup {Listener}
  BY <1>2 DEF Stays
<1>4. CASE e \in Clients
  <2>1. ep[e].addr = e /\ ep[e].name = e
    BY <1>1, <1>4 DEF Good
  <2>2. \A t \in Tasks : ep[t].addr # e
    <3>1. ASSUME NEW t \in Tasks PROVE ep[t].addr # e
      <4>1. t \in Endpoints /\ t \notin Clients
        BY Distinct DEF Endpoints
      <4>2. CASE ep[t].pc = "none"
        <5>1. ep[t].addr = None
          BY <4>1, <4>2 DEF Shape, Endpoints0, NoTask, Endpoint
        <5> QED
          BY <1>4, <5>1, Distinct
      <4>3. CASE ep[t].pc # "none"
        <5>1. ep[t].addr \in Ports
          BY <4>1, <4>3, GoodBefore DEF Good
        <5> QED
          BY <1>4, <5>1, Distinct
      <4> QED
        BY <4>2, <4>3
    <3> QED
      BY <3>1
  <2>3. e = c
    BY <1>3, <1>4, <2>1, <2>2, Distinct DEF Owned
  <2> QED
    BY <1>2, <2>1, <2>3
<1>5. CASE e \notin Clients
  <2>1. e \in Tasks /\ ep[e].addr \in Ports /\ ep[e].addr \notin Clients
        /\ ep[e].addr # Listener /\ ep[e].addr # None
    BY <1>1, <1>5, Distinct DEF Good, Endpoints
  <2>2. PICK t \in Tasks : ep[t].name = c /\ ep[t].addr = ep[e].addr
    BY <1>3, <2>1 DEF Owned
  <2>3. ep[e].name = c
    BY <2>1, <2>2 DEF PortsApart
  <2> QED
    BY <1>2, <2>3
<1> QED
  BY <1>4, <1>5

\* The invariant about separation holds after a step of an endpoint, ...
LEMMA SeparationStep ==
  ASSUME TypeOK, Shape, Separation, NEW e \in Endpoints, NEW r, NEW out, StepOf(e, r, out)
  PROVE  Separation'
<1>1. /\ ep' = [ep EXCEPT ![e] = r] /\ op' = op /\ net' \subseteq net \cup out
      /\ Good(e, r) /\ r.pc # "none"
      /\ Keeps(e, r) /\ Sends(e, r, out) /\ Gets(e, r) /\ Confirms(e, r)
      /\ r \in EndpointType /\ out \subseteq DatagramType
      /\ r.name \in Clients /\ r.addr \in Addresses
  BY GoodAddresses DEF StepOf, TypeOK
<1>2. \A f \in Endpoints : ep'[f] = IF f = e THEN r ELSE ep[f]
  BY <1>1, OthersStay
<1>3. /\ r.addr = ep[e].addr /\ r.name = ep[e].name /\ ep[e].pc # "none"
      /\ Good(e, ep[e]) /\ ep[e] \in EndpointType /\ ep[e].result = "none"
  BY <1>1, GoodBefore, Staying DEF StepOf, Keeps
<1>4. Clients \subseteq Endpoints /\ Tasks \subseteq Endpoints
  BY DEF Endpoints
<1>5. \A f \in Endpoints : ep'[f].addr = ep[f].addr /\ ep'[f].name = ep[f].name
  BY <1>2, <1>3
<1>6. PortsApart' => PortsApart
  BY <1>4, <1>5 DEF PortsApart
<1> SUFFICES ASSUME PortsApart
             PROVE  (NetStays /\ PeersStay /\ BlocksInOrder /\ SuccessDelivered)'
  BY <1>6 DEF Separation
<1>7. NetStays /\ PeersStay /\ BlocksInOrder /\ SuccessDelivered
  BY DEF Separation
<1>8. \A c \in Clients : Owned(c)' = Owned(c)
  BY <1>4, <1>5 DEF Owned
<1>9. \A p \in net : p.to = ep[e].addr /\ p.from # Listener => Stays(p, r.name)
  BY <1>3, <1>7, ReceivedStays
<1>10. Len(ep[e].got) \in Nat /\ ep[e].got \in Seq(AnyBlock)
  BY <1>3, EndpointFields
<1>11. /\ Len(r.got) \in Nat /\ Len(ep[e].got) <= Len(r.got)
       /\ \A n \in 1 .. Len(r.got) : r.got[n] = Block(r.name, n)
  <2>1. \A n \in 1 .. Len(ep[e].got) : ep[e].got[n] = Block(r.name, n)
    BY <1>3, <1>7, Zenon DEF BlocksInOrder
  <2>2. CASE r.got = ep[e].got
    BY <1>10, <2>1, <2>2
  <2>3. ASSUME NEW p \in net, p.to = ep[e].addr, p.type = "DATA",
               p.n = Len(ep[e].got) + 1, r.got = Append(ep[e].got, p.block)
        PROVE  /\ Len(r.got) \in Nat /\ Len(ep[e].got) <= Len(r.got)
               /\ \A n \in 1 .. Len(r.got) : r.got[n] = Block(r.name, n)
    <3>1. p.from # Listener
      BY <2>3 DEF Shape, ListenerErrors
    <3>2. p.block = Block(r.name, Len(ep[e].got) + 1)
      BY <1>9, <2>3, <3>1 DEF Stays
    <3>3. p.block \in AnyBlock
      BY DatagramFields DEF TypeOK
    <3>4. /\ Len(r.got) = Len(ep[e].got) + 1
          /\ \A n \in 1 .. Len(r.got) :
               r.got[n] = IF n <= Len(ep[e].got) THEN ep[e].got[n] ELSE p.block
      BY <1>10, <2>3, <3>3
    <3>5. ASSUME NEW n \in 1 .. Len(r.got) PROVE r.got[n] = Block(r.name, n)
      <4>1. CASE n <= Len(ep[e].got)
        <5>1. n \in 1 .. Len(ep[e].got)
          BY <1>10, <3>4, <4>1
        <5> QED
          BY <2>1, <3>4, <4>1, <5>1
      <4>2. CASE ~ (n <= Len(ep[e].got))
        <5>1. n = Len(ep[e].got) + 1
          BY <1>10, <3>4, <4>2
        <5> QED
          BY <3>2, <3>4, <4>2, <5>1
      <4> QED
        BY <4>1, <4>2
    <3> QED
      BY <1>10, <3>4, <3>5
  <2> QED
    BY <1>1, <2>2, <2>3 DEF Gets
<1>12. \A f \in Endpoints : Len(ep[f].got) \in Nat /\ Len(ep'[f].got) \in Nat
                            /\ Len(ep[f].got) <= Len(ep'[f].got)
  <2>1. \A f \in Endpoints : Len(ep[f].got) \in Nat
    BY EndpointFields DEF TypeOK
  <2> QED
    BY <1>2, <1>11, <2>1
<1>13. \A c \in Clients : \A n \in Int : Delivered(c, n) => Delivered(c, n)'
  <2> SUFFICES ASSUME NEW c \in Clients, NEW n \in Int, Delivered(c, n)
               PROVE  Delivered(c, n)'
    OBVIOUS
  <2>1. ASSUME op[c] = "WRQ" PROVE \E t \in TasksOf(c)' : n <= Len(ep'[t].got)
    <3>1. PICK t \in TasksOf(c) : n <= Len(ep[t].got)
      BY <2>1 DEF Delivered
    <3>2. t \in Endpoints /\ t \in TasksOf(c)'
      BY <1>4, <1>5 DEF TasksOf
    <3> QED
      BY <1>12, <3>1, <3>2
  <2>2. ASSUME op[c] = "RRQ" PROVE n <= Len(ep'[c].got)
    BY <1>4, <1>12, <2>2 DEF Delivered
  <2> QED
    BY <1>1, <2>1, <2>2 DEF Delivered
<1>14. \A c \in Clients : \A p \in DatagramType : Stays(p, c) => Stays(p, c)'
  <2>1. \A p \in DatagramType : p.n \in Int
    BY DatagramFields
  <2> QED
    BY <1>8, <1>13, <2>1 DEF Stays
<1>15. ep[e].addr \in Owned(r.name)
  <2>1. CASE e \in Clients
    BY <1>1, <1>3, <2>1 DEF Good, Owned
  <2>2. CASE e \notin Clients
    BY <1>1, <1>3, <2>2 DEF Owned, Endpoints
  <2> QED
    BY <2>1, <2>2
<1>16. r.peer \in Owned(r.name) \cup {Listener}
  <2>1. ep[e].peer \in Owned(r.name) \cup {Listener}
    BY <1>3, <1>7 DEF PeersStay
  <2>2. \A p \in net : p.to = ep[e].addr => p.from \in Owned(r.name) \cup {Listener}
    BY <1>9 DEF Stays
  <2> QED
    BY <1>1, <2>1, <2>2 DEF Keeps
<1>17. NetStays'
  <2>1. ASSUME NEW q \in out PROVE Stays(q, r.name)'
    <3>1. q.from = r.addr /\ q.to = r.peer /\ (q.type = "DATA" => q.block = Block(r.name, q.n))
      BY <1>1 DEF Sends
    <3>2. q.from \in Owned(r.name)' /\ q.to \in Owned(r.name)' \cup {Listener}
      BY <1>1, <1>3, <1>8, <1>15, <1>16, <3>1
    <3>3. ASSUME q.type = "ACK", q.n > 0, op[r.name] # "DRQ" PROVE Delivered(r.name, q.n)'
      <4>1. op[r.name] = RxOp(e) /\ q.n <= Len(r.got)
        BY <1>1, <3>3 DEF Sends
      <4>2. ep'[e] = r
        BY <1>2
      <4>3. CASE e \in Clients
        <5>1. r.name = e /\ op[e] = "RRQ"
          BY <1>1, <4>1, <4>3 DEF Good, RxOp
        <5> QED
          BY <1>1, <4>1, <4>2, <5>1 DEF Delivered
      <4>4. CASE e \notin Clients
        <5>1. op[r.name] = "WRQ" /\ e \in TasksOf(r.name)'
          BY <4>1, <4>2, <4>4 DEF RxOp, TasksOf, Endpoints
        <5> QED
          BY <1>1, <4>1, <4>2, <5>1 DEF Delivered
      <4> QED
        BY <4>3, <4>4
    <3>4. op[r.name] = "DRQ" => Delivered(r.name, q.n)'
      BY <1>1 DEF Delivered
    <3> QED
      BY <3>1, <3>2, <3>3, <3>4 DEF Stays
  <2>2. ASSUME NEW p \in net, p.from # Listener PROVE \E c \in Clients : Stays(p, c)'
    BY <1>7, <1>14, <2>2 DEF NetStays, TypeOK
  <2> QED
    BY <1>1, <2>1, <2>2 DEF NetStays
<1>18. PeersStay'
  <2> SUFFICES ASSUME NEW f \in Endpoints, ep'[f].pc # "none", NEW c, c = ep'[f].name
               PROVE  ep'[f].peer \in Owned(c)' \cup {Listener}
    BY DEF PeersStay, Owned
  <2>1. CASE f = e
    BY <1>1, <1>2, <1>8, <1>16, <2>1
  <2>2. CASE f # e
    <3>1. ep'[f] = ep[f]
      BY <1>2, <2>2
    <3>2. c \in Clients /\ ep[f].peer \in Owned(c) \cup {Listener}
      BY <1>7, <3>1, GoodBefore DEF PeersStay
    <3> QED
      BY <1>8, <3>1, <3>2
  <2> QED
    BY <2>1, <2>2
<1>19. BlocksInOrder'
  <2> SUFFICES ASSUME NEW f \in Endpoints, NEW n \in 1 .. Len(ep'[f].got)
               PROVE  ep'[f].got[n] = Block(ep'[f].name, n)
    BY DEF BlocksInOrder, Block
  <2>1. CASE f = e
    BY <1>2, <1>11, <2>1
  <2>2. CASE f # e
    BY <1>2, <1>7, <2>2 DEF BlocksInOrder
  <2> QED
    BY <2>1, <2>2
<1>20. SuccessDelivered'
  <2>1. Blocks \in Int /\ Blocks > 0
    BY SessionAssumption
  <2> SUFFICES ASSUME NEW f \in Endpoints, NEW c, c = ep'[f].name,
                      ep'[f].result = "success", op[c] = TxOp(f)
               PROVE  Delivered(c, Blocks)'
    BY <1>1 DEF SuccessDelivered, TxOp, Delivered, TasksOf
  <2>2. CASE f = e
    <3>1. r.result = "success" /\ op[r.name] = TxOp(e) /\ c = r.name
      BY <1>2, <2>2
    <3>2. PICK p \in net : p.to = ep[e].addr /\ p.type = "ACK" /\ p.n = Blocks
      BY <1>1, <3>1 DEF Confirms
    <3>3. p.from # Listener
      BY <3>2 DEF Shape, ListenerErrors
    <3>4. Delivered(r.name, Blocks)
      BY <1>9, <2>1, <3>2, <3>3 DEF Stays
    <3>5. Delivered(r.name, Blocks)'
      BY <1>1, <1>13, <2>1, <3>4
    <3> QED
      BY <3>1, <3>5
  <2>3. CASE f # e
    <3>1. ep'[f] = ep[f]
      BY <1>2, <2>3
    <3>2. c \in Clients /\ Delivered(c, Blocks)
      <4>1. ep[f].pc # "none"
        BY <3>1 DEF Shape, Endpoints0, NoTask, Endpoint
      <4> QED
        BY <1>7, <3>1, <4>1, GoodBefore DEF SuccessDelivered
    <3> QED
      BY <1>13, <2>1, <3>2
  <2> QED
    BY <2>2, <2>3
<1> QED
  BY <1>17, <1>18, <1>19, <1>20

\* ... of the listener that starts a task, ...
LEMMA SeparationStart ==
  ASSUME TypeOK, Shape, Separation, NEW d \in Clients, NEW t \in Tasks, NEW a \in Ports,
         Starting(d, t, a)
  PROVE  Separation'
<1> DEFINE r == Endpoint("start", a, d, d)
<1>1. r.pc = "start" /\ r.addr = a /\ r.name = d /\ r.peer = d /\ r.got = <<>> /\ r.result = "none"
  BY StartedTask
<1>2. t \in Endpoints /\ ep' = [ep EXCEPT ![t] = r] /\ op' = op /\ net' \subseteq net
  BY DEF Endpoints, Starting
<1> HIDE DEF r
<1>3. \A f \in Endpoints : ep'[f] = IF f = t THEN r ELSE ep[f]
  BY <1>2, OthersStay
<1>4. ep[t] = NoTask
  BY <1>2 DEF Starting, Shape, Endpoints0
<1>5. ep[t].name = None /\ ep[t].addr = None /\ ep[t].got = <<>>
  BY <1>4 DEF NoTask, Endpoint
<1>6. Clients \subseteq Endpoints /\ Tasks \subseteq Endpoints /\ t \notin Clients /\ None \notin Clients
      /\ Clients \subseteq Addresses /\ None \notin Addresses
  BY Distinct DEF Endpoints, Addresses
<1>7. PortsApart' => PortsApart
  <2> SUFFICES ASSUME PortsApart', NEW u \in Tasks, NEW v \in Tasks,
                      ep[u].addr = ep[v].addr, ep[u].addr # None
               PROVE  ep[u].name = ep[v].name
    BY DEF PortsApart
  <2>1. u # t /\ v # t
    BY <1>5
  <2>2. ep'[u] = ep[u] /\ ep'[v] = ep[v]
    BY <1>3, <1>6, <2>1
  <2> QED
    BY <2>2 DEF PortsApart
<1> SUFFICES ASSUME PortsApart
             PROVE  (NetStays /\ PeersStay /\ BlocksInOrder /\ SuccessDelivered)'
  BY <1>7 DEF Separation
<1>8. NetStays /\ PeersStay /\ BlocksInOrder /\ SuccessDelivered
  BY DEF Separation
<1>9. \A c \in Clients : Owned(c) \subseteq Owned(c)'
  <2> SUFFICES ASSUME NEW c \in Clients, NEW b \in Addresses, NEW u \in Tasks,
                      ep[u].name = c, ep[u].addr = b
               PROVE  ep'[u].name = c /\ ep'[u].addr = b
    BY DEF Owned
  <2> QED
    BY <1>3, <1>5, <1>6
<1>10. \A c \in Clients : TasksOf(c) \subseteq TasksOf(c)' /\ t \notin TasksOf(c)
  BY <1>3, <1>5, <1>6 DEF TasksOf
<1>11. \A c \in Clients : \A n : Delivered(c, n) => Delivered(c, n)'
  <2> SUFFICES ASSUME NEW c \in Clients, NEW n, Delivered(c, n)
               PROVE  Delivered(c, n)'
    OBVIOUS
  <2>1. ep'[c] = ep[c]
    BY <1>3, <1>6
  <2>2. \A u \in TasksOf(c) : u \in TasksOf(c)' /\ ep'[u] = ep[u]
    BY <1>3, <1>6, <1>10 DEF TasksOf
  <2> QED
    BY <1>2, <2>1, <2>2 DEF Delivered
<1>12. NetStays'
  <2>1. \A c \in Clients : \A p : Stays(p, c) => Stays(p, c)'
    BY <1>9, <1>11 DEF Stays
  <2> QED
    BY <1>2, <1>8, <2>1 DEF NetStays
<1>13. PeersStay'
  <2> SUFFICES ASSUME NEW f \in Endpoints, ep'[f].pc # "none", NEW c, c = ep'[f].name
               PROVE  ep'[f].peer \in Owned(c)' \cup {Listener}
    BY DEF PeersStay, Owned
  <2>1. CASE f = t
    <3>1. ep'[f] = r /\ c = d
      BY <1>1, <1>3, <2>1
    <3>2. d \in Owned(d)'
      BY <1>6 DEF Owned
    <3> QED
      BY <1>1, <3>1, <3>2
  <2>2. CASE f # t
    <3>1. ep'[f] = ep[f]
      BY <1>3, <2>2
    <3>2. c \in Clients /\ ep[f].peer \in Owned(c) \cup {Listener}
      BY <1>8, <3>1, GoodBefore DEF PeersStay
    <3> QED
      BY <1>9, <3>1, <3>2
  <2> QED
    BY <2>1, <2>2
<1>14. BlocksInOrder'
  <2> SUFFICES ASSUME NEW f \in Endpoints, NEW n \in 1 .. Len(ep'[f].got)
               PROVE  ep'[f].got[n] = Block(ep'[f].name, n)
    BY DEF BlocksInOrder, Block
  <2>1. f # t
    BY <1>1, <1>3
  <2> QED
    BY <1>3, <1>8, <2>1 DEF BlocksInOrder
<1>15. SuccessDelivered'
  <2> SUFFICES ASSUME NEW f \in Endpoints, NEW c, c = ep'[f].name,
                      ep'[f].result = "success", op[c] = TxOp(f)
               PROVE  Delivered(c, Blocks)'
    BY <1>2 DEF SuccessDelivered, TxOp, Delivered, TasksOf
  <2>1. ep'[f] = ep[f]
    BY <1>1, <1>3
  <2>2. ep[f].pc # "none"
    BY <2>1 DEF Shape, Endpoints0, NoTask, Endpoint
  <2>3. c \in Clients /\ Delivered(c, Blocks)
    BY <1>8, <2>1, <2>2, GoodBefore DEF SuccessDelivered
  <2> QED
    BY <1>11, <2>3
<1> QED
  BY <1>12, <1>13, <1>14, <1>15

\* ... or refuses, ...
LEMMA SeparationRefuse ==
  ASSUME Separation, NEW out, Refusing(out)
  PROVE  Separation'
<1>1. /\ ep' = ep /\ op' = op /\ net' \subseteq net \cup out
      /\ \A q \in out : q.from = Listener
  BY DEF Refusing
<1>2. PortsApart' => PortsApart
  BY <1>1 DEF PortsApart
<1> SUFFICES ASSUME PortsApart
             PROVE  (NetStays /\ PeersStay /\ BlocksInOrder /\ SuccessDelivered)'
  BY <1>2 DEF Separation
<1>3. NetStays /\ PeersStay /\ BlocksInOrder /\ SuccessDelivered
  BY DEF Separation
<1>4. \A c \in Clients, p \in net : Stays(p, c) => Stays(p, c)'
  BY <1>1 DEF Stays, Owned, Delivered, TasksOf
<1>5. NetStays'
  BY <1>1, <1>3, <1>4 DEF NetStays
<1>6. (PeersStay /\ BlocksInOrder /\ SuccessDelivered)'
  BY <1>1, <1>3 DEF PeersStay, BlocksInOrder, SuccessDelivered, Owned, Delivered, TasksOf, TxOp,
     Block
<1> QED
  BY <1>5, <1>6

\* ... and when nothing happens.
LEMMA SeparationSame ==
  ASSUME Separation, UNCHANGED vars
  PROVE  Separation'
<1>1. ep' = ep /\ op' = op /\ net' = net
  BY DEF vars
<1>2. PortsApart' => PortsApart
  BY <1>1 DEF PortsApart
<1>3. NetStays => NetStays'
  BY <1>1 DEF NetStays, Stays, Owned, Delivered, TasksOf
<1>4. (PeersStay => PeersStay') /\ (BlocksInOrder => BlocksInOrder')
  BY <1>1 DEF PeersStay, BlocksInOrder, Owned, Block
<1>5. SuccessDelivered => SuccessDelivered'
  BY <1>1 DEF SuccessDelivered, Delivered, TasksOf, TxOp
<1> QED
  BY <1>2, <1>3, <1>4, <1>5 DEF Separation

-----------------------------------------------------------------------------
(* The invariant                                                           *)

\* What endpoints are in the beginning.
LEMMA InitialEndpoints ==
  ASSUME Init
  PROVE  /\ ep \in [Endpoints -> EndpointType]
         /\ \A t \in Tasks : ep[t] = NoTask
         /\ \A c \in Clients : /\ ep[c].pc = IF op[c] = "RRQ" THEN "fill" ELSE "await"
                               /\ ep[c].addr = c /\ ep[c].name = c /\ ep[c].peer = Listener
                               /\ ep[c].n = 0 /\ ep[c].tries = 0
                               /\ ep[c].got = <<>> /\ ep[c].result = "none"
<1>1. ep = [e \in Endpoints |->
              IF e \in Tasks THEN NoTask
              ELSE Endpoint(IF op[e] = "RRQ" THEN "fill" ELSE "await", e, e, Listener)]
  BY DEF Init
<1>2. 0 \in 0 .. Blocks + 1 /\ 0 \in 0 .. MaxRetry /\ <<>> \in Seq(AnyBlock)
  BY SessionAssumption
<1>3. NoTask \in EndpointType
  BY <1>2 DEF NoTask, Endpoint, EndpointType
<1>4. ASSUME NEW c \in Clients, NEW pc \in {"fill", "await"}
      PROVE  Endpoint(pc, c, c, Listener) \in EndpointType
  BY <1>2 DEF Endpoint, EndpointType, Addresses
<1>5. \A t \in Tasks : t \in Endpoints /\ ep[t] = NoTask
  BY <1>1 DEF Endpoints
<1>6. \A c \in Clients :
        c \in Endpoints
        /\ ep[c] = Endpoint(IF op[c] = "RRQ" THEN "fill" ELSE "await", c, c, Listener)
  BY <1>1, Distinct DEF Endpoints
<1>7. \A e \in Endpoints : ep[e] \in EndpointType
  <2>1. ASSUME NEW c \in Clients PROVE ep[c] \in EndpointType
    <3>1. CASE op[c] = "RRQ"
      BY <1>4, <1>6, <3>1
    <3>2. CASE op[c] # "RRQ"
      BY <1>4, <1>6, <3>2
    <3> QED
      BY <3>1, <3>2
  <2> QED
    BY <1>3, <1>5, <2>1 DEF Endpoints
<1>8. ep \in [Endpoints -> EndpointType]
  BY <1>1, <1>7
<1>9. ASSUME NEW c \in Clients, NEW pc, NEW r, r = Endpoint(pc, c, c, Listener)
      PROVE  /\ r.pc = pc /\ r.addr = c /\ r.name = c /\ r.peer = Listener
             /\ r.n = 0 /\ r.tries = 0 /\ r.got = <<>> /\ r.result = "none"
  BY <1>9 DEF Endpoint
<1> QED
  BY <1>5, <1>6, <1>8, <1>9

\* The clients start from the invariant, with their requests under way.
LEMMA InvariantInit == Init => IInv
<1> SUFFICES ASSUME Init
             PROVE  IInv
  OBVIOUS
<1>1. /\ op \in [Clients -> Operations] /\ local \subseteq Clients
      /\ entry \in [Clients -> {None, Old}] /\ requests \in [Clients -> 0 .. MaxCopies]
      /\ net = {} /\ collided = {}
  BY DEF Init
<1>2. /\ ep \in [Endpoints -> EndpointType]
      /\ \A t \in Tasks : ep[t] = NoTask
      /\ \A c \in Clients : /\ ep[c].pc = IF op[c] = "RRQ" THEN "fill" ELSE "await"
                            /\ ep[c].addr = c /\ ep[c].name = c /\ ep[c].peer = Listener
                            /\ ep[c].n = 0 /\ ep[c].tries = 0
                            /\ ep[c].got = <<>> /\ ep[c].result = "none"
  BY InitialEndpoints
<1>3. /\ NoTask.pc = "none" /\ NoTask.addr = None /\ NoTask.name = None /\ NoTask.peer = None
      /\ NoTask.got = <<>> /\ NoTask.tries = 0 /\ NoTask.result = "none"
  BY DEF NoTask, Endpoint
<1>4. \A e \in Endpoints : ep[e].tries = 0 /\ ep[e].got = <<>> /\ ep[e].result = "none"
  BY <1>2, <1>3 DEF Endpoints
<1>5. TypeOK
  <2>1. \A e \in Endpoints : ep[e].tries < MaxRetry
    BY <1>4, SessionAssumption
  <2>2. entry \in [Clients -> Tasks \cup {None, Old}]
    BY <1>1
  <2>3. net \subseteq DatagramType /\ collided \subseteq Clients
    BY <1>1
  <2> QED
    BY <1>1, <1>2, <2>1, <2>2, <2>3 DEF TypeOK
<1>6. Endpoints0
  <2>1. ASSUME NEW c \in Clients PROVE Good(c, ep[c]) /\ ep[c].pc # "none"
    <3>1. op[c] \in {"WRQ", "RRQ", "DRQ"}
      BY <1>1, SessionAssumption
    <3> QED
      BY <1>2, <3>1, Distinct, SessionAssumption DEF Good
  <2> QED
    BY <1>2, <1>3, <2>1 DEF Endpoints0, Endpoints
<1>7. Shape
  BY <1>1, <1>6 DEF Shape, ListenerErrors
<1>8. \A c \in Clients : TasksOf(c) = {}
  <2>1. \A c \in Clients, t \in Tasks : ep[t].name = None /\ None # c
    BY <1>2, <1>3, Distinct
  <2>2. \A c \in Clients, t \in Tasks : ep[t].name # c
    BY <2>1, Zenon
  <2> QED
    BY <2>2 DEF TasksOf
<1>9. Held
  BY <1>1, <1>8, Distinct DEF Held
<1>10. Deletion
  <2>1. \A c \in Clients : Removers(c) = {}
    BY <1>8 DEF Removers
  <2>2. \A e \in Endpoints : ep[e].peer \notin Clients
    BY <1>2, <1>3, Distinct DEF Endpoints
  <2>3. \A c \in Clients : ep[c].result = "none"
    BY <1>2
  <2> QED
    BY <1>1, <2>1, <2>2, <2>3 DEF Deletion, DeletionOf
<1>11. Separation
  <2>1. NetStays
    BY <1>1 DEF NetStays
  <2>2. PeersStay
    BY <1>2, <1>3 DEF PeersStay, Endpoints
  <2>3. BlocksInOrder
    BY <1>4 DEF BlocksInOrder
  <2>4. SuccessDelivered
    BY <1>4 DEF SuccessDelivered
  <2> QED
    BY <2>1, <2>2, <2>3, <2>4 DEF Separation
<1> QED
  BY <1>5, <1>7, <1>9, <1>10, <1>11 DEF IInv

\* Every step keeps the invariant: a step of an endpoint, a start or a refusal.
LEMMA InvariantStep == IInv /\ [Next]_vars => IInv'
<1> SUFFICES ASSUME TypeOK, Shape, Held, Deletion, Separation, [Next]_vars
             PROVE  IInv'
  BY DEF IInv
<1>1. CASE \E e \in Endpoints : \E r, out : StepOf(e, r, out)
  BY <1>1, TypeShapeStep, HeldStep, DeletionStep, SeparationStep DEF IInv
<1>2. CASE \E c \in Clients, t \in Tasks, a \in Ports : Starting(c, t, a)
  BY <1>2, TypeShapeStart, HeldStart, DeletionStart, SeparationStart DEF IInv
<1>3. CASE \E out : Refusing(out)
  <2>1. UNCHANGED <<ep, op, entry, collided>>
    BY <1>3 DEF Refusing
  <2> QED
    BY <1>3, <2>1, TypeShapeRefuse, HeldSame, DeletionRefuse, SeparationRefuse DEF IInv
<1>4. CASE UNCHANGED vars
  <2>1. TypeOK'
    BY <1>4 DEF vars, TypeOK
  <2>2. Shape'
    BY <1>4 DEF vars, Shape, Endpoints0, ListenerErrors, Good, TxOp, RxOp, NoTask, Endpoint
  <2>3. Held'
    BY <1>4, HeldSame DEF vars
  <2> QED
    BY <1>4, <2>1, <2>2, <2>3, DeletionSame, SeparationSame DEF IInv
<1> QED
  BY <1>1, <1>2, <1>3, <1>4, EveryStep DEF OneStep

\* The inductive invariant holds in every reachable state.
THEOREM InductiveInvariant == Spec => []IInv
<1>1. Init => IInv
  BY InvariantInit
<1>2. IInv /\ [Next]_vars => IInv'
  BY InvariantStep
<1> QED
  BY <1>1, <1>2, PTL DEF Spec

-----------------------------------------------------------------------------
(* What it implies                                                         *)

\* State variables keep their types, and no wait makes too many attempts.
THEOREM TypeCorrect == Spec => []TypeOK
<1>1. IInv => TypeOK
  BY DEF IInv
<1> QED
  BY <1>1, InductiveInvariant, PTL

\* An endpoint with as many blocks as the file, in order, has the whole file.
LEMMA WholeInOrder ==
  ASSUME TypeOK, BlocksInOrder, NEW e \in Endpoints, Len(ep[e].got) = Blocks
  PROVE  HasWholeFile(e)
<1>1. ep[e].got \in Seq(AnyBlock)
  BY EndpointFields DEF TypeOK
<1>2. ep[e].got = [n \in 1 .. Blocks |-> ep[e].got[n]]
  BY <1>1
<1>3. \A n \in 1 .. Blocks : ep[e].got[n] = Block(ep[e].name, n)
  BY DEF BlocksInOrder
<1>4. [n \in 1 .. Blocks |-> ep[e].got[n]] = [n \in 1 .. Blocks |-> Block(ep[e].name, n)]
  BY <1>3
<1> QED
  BY <1>2, <1>4 DEF HasWholeFile, WholeFile

\* Endpoints receive their own file in order, whole when they report success,
\* unless two clients have met on one port: peer_address may be anybody's.
THEOREM Separated == Spec => []SessionsAreSeparate
<1>1. IInv => SessionsAreSeparate
  <2> SUFFICES ASSUME TypeOK, Shape, Separation, PortsApart, NEW e \in Endpoints
               PROVE  /\ \A n \in 1 .. Len(ep[e].got) : ep[e].got[n] = Block(ep[e].name, n)
                      /\ ep[e].result = "success" /\ ep[e].got # <<>> => HasWholeFile(e)
    BY DEF IInv, SessionsAreSeparate
  <2>1. BlocksInOrder
    BY DEF Separation
  <2>2. ASSUME ep[e].result = "success", ep[e].got # <<>>
        PROVE  HasWholeFile(e)
    <3>1. Good(e, ep[e])
      BY <2>2 DEF Shape, Endpoints0, NoTask, Endpoint
    <3>2. Len(ep[e].got) = Blocks
      BY <2>2, <3>1 DEF Good
    <3> QED
      BY <2>1, <3>2, WholeInOrder
  <2> QED
    BY <2>1, <2>2 DEF BlocksInOrder
<1> QED
  BY <1>1, InductiveInvariant, PTL

\* An acknowledged transmission was received whole by an endpoint of the other
\* side, whichever tasks the acknowledgements came from.
THEOREM AcknowledgedReceived == Spec => []AckedIsReceived
<1>1. IInv => AckedIsReceived
  <2> SUFFICES ASSUME TypeOK, Shape, Separation, PortsApart, NEW c \in Clients
               PROVE  /\ op[c] = "WRQ" /\ ep[c].result = "success" =>
                           \E t \in TasksOf(c) : HasWholeFile(t)
                      /\ op[c] = "RRQ" /\ (\E t \in TasksOf(c) : ep[t].result = "success") =>
                           HasWholeFile(c)
    BY DEF IInv, AckedIsReceived
  <2>1. BlocksInOrder /\ SuccessDelivered
    BY DEF Separation
  <2>2. Blocks \in Nat /\ Blocks > 0
    BY SessionAssumption
  <2>3. ASSUME NEW e \in Endpoints, Blocks <= Len(ep[e].got)
        PROVE  HasWholeFile(e)
    <3>1. ep[e].got # <<>> /\ Len(ep[e].got) \in Nat
      BY <2>2, <2>3, EndpointFields DEF TypeOK
    <3>2. Good(e, ep[e])
      BY <3>1 DEF Shape, Endpoints0, NoTask, Endpoint
    <3>3. Len(ep[e].got) = Blocks
      BY <2>2, <2>3, <3>1, <3>2 DEF Good
    <3> QED
      BY <2>1, <3>3, WholeInOrder
  <2>4. ASSUME op[c] = "WRQ", ep[c].result = "success"
        PROVE  \E t \in TasksOf(c) : HasWholeFile(t)
    <3>1. c \in Endpoints /\ TxOp(c) = "WRQ"
      BY DEF Endpoints, TxOp
    <3>2. ep[c].name = c
      BY <2>4, <3>1 DEF Shape, Endpoints0, NoTask, Endpoint, Good
    <3>3. Delivered(c, Blocks)
      BY <2>1, <2>4, <3>1, <3>2 DEF SuccessDelivered
    <3>4. PICK t \in TasksOf(c) : Blocks <= Len(ep[t].got)
      BY <2>4, <3>3 DEF Delivered
    <3> QED
      BY <2>3, <3>4 DEF TasksOf, Endpoints
  <2>5. ASSUME op[c] = "RRQ", NEW t \in TasksOf(c), ep[t].result = "success"
        PROVE  HasWholeFile(c)
    <3>1. t \in Endpoints /\ TxOp(t) = "RRQ" /\ ep[t].name = c
      BY Distinct DEF TasksOf, Endpoints, TxOp
    <3>2. Delivered(c, Blocks)
      BY <2>1, <2>5, <3>1 DEF SuccessDelivered
    <3> QED
      BY <2>3, <2>5, <3>2 DEF Delivered, Endpoints
  <2> QED
    BY <2>4, <2>5
<1> QED
  BY <1>1, InductiveInvariant, PTL

\* Once the tasks of an upload have ended, the storage directory has a complete
\* upload, or what was there before, or the file of a task that could not answer
\* or whose remove() failed, unless two of them met in server_write_file().
THEOREM AllOrNothing == Spec => []UploadAllOrNothing
<1>1. IInv => UploadAllOrNothing
  <2> SUFFICES ASSUME TypeOK, Shape, Held, NEW c \in Clients, op[c] = "WRQ", c \notin collided,
                      \A t \in TasksOf(c) : ~ IsOpen(ep[t]),
                      NEW holders,
                      holders = {t \in TasksOf(c) : ep[t].result \in {"success", "left"}}
               PROVE  entry[c] \in holders \/ (holders = {} /\ entry[c] \in {None, Old})
    BY DEF IInv, UploadAllOrNothing
  <2>1. /\ \A t \in TasksOf(c) : Holds(ep[t]) => entry[c] = t
        /\ entry[c] \in Tasks => entry[c] \in TasksOf(c) /\ Holds(ep[entry[c]])
    BY DEF Held
  <2>2. \A t \in TasksOf(c) : Holds(ep[t]) <=> t \in holders
    BY DEF Holds, IsOpen
  <2>3. entry[c] \in Tasks \cup {None, Old}
    BY DEF TypeOK
  <2>4. \A t \in holders : t \in Tasks /\ entry[c] = t
    BY <2>1, <2>2 DEF TasksOf
  <2> QED
    BY <2>1, <2>2, <2>3, <2>4
<1> QED
  BY <1>1, InductiveInvariant, PTL

\* A client that prints "Deletion confirmed." is right: one task removed the
\* file, and it is gone, however the answers of several tasks are mixed.
THEOREM DeletionConfirmed == Spec => []ConfirmedIsRemoved
<1>1. IInv => ConfirmedIsRemoved
  BY DEF IInv, Deletion, DeletionOf, ConfirmedIsRemoved, Removers
<1> QED
  BY <1>1, InductiveInvariant, PTL

=============================================================================
