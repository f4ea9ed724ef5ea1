---------------------------- MODULE RequestProofs ----------------------------
(***************************************************************************)
(* Theorems about Request for file names of up to 400 characters and all   *)
(* block sizes that may be given.                                          *)
(*                                                                         *)
(* The argument: the packet the server parses is either the one the client *)
(* wrote from its operation data or that of another client (Built); where  *)
(* the strings of both begin follows from their lengths (StartSums), which *)
(* decides the parser's comparisons with bytes_received.                   *)
(***************************************************************************)
EXTENDS Request, TLAPS

\* What main() may initialise at the client: a deletion has no block size.
ClientOperations ==
  {d \in Operations : /\ d.op \in {"SEND", "RECEIVE", "REQUEST_DELETE"}
                      /\ d.op = "REQUEST_DELETE" <=> d.block = 0}

\* The request that send_request_packet() makes of operation data d.
RequestOf(d) == Request(Opcode[d.op], Strings(d), PacketHeader + ContentsSize(d))

\* The operation data that server_parse_request_data() makes of packet p.
ServerData(p) ==
  InitOperation(ServerOperation[p.opcode], ServerName(p), StringAt(p, 2), Option(p))

Answered == {"dismissed", "refused", "accepted"}

\* Which end has initialised its operation at which point, and from what.
Built ==
  /\ pc \in {"selected", "parsed"} => args \in CommandLines /\ args.mode \in DOMAIN ClientOperation
  /\ OfClient /\ pc \in {"initialized", "sent"} \cup Answered => client \in ClientOperations
  /\ OfClient /\ pc \in {"sent"} \cup Answered => packet = RequestOf(client)
  /\ ~ OfClient => pc \in {"sent"} \cup Answered /\ packet \in OtherRequests
  /\ pc = "accepted" => /\ packet.opcode \in DOMAIN ServerOperation
                        /\ server # None /\ server = ServerData(packet)

IInv == TypeOK /\ Built /\ NothingRefused

-----------------------------------------------------------------------------

\* Where the strings of a packet begin is determined by its recursion, if any
\* function satisfies that.
LEMMA StartUnfolds ==
  ASSUME NEW p, NEW i \in Nat \ {0},
         NEW f, f = [k \in 1 .. i |-> IF k = 1 THEN 0 ELSE f[k - 1] + StringAt(p, k - 1).len + 1]
  PROVE  \E g : /\ g = [k \in 1 .. i |-> IF k = 1 THEN 0 ELSE g[k - 1] + StringAt(p, k - 1).len + 1]
                /\ Start(p, i) = g[i]
<1> DEFINE at[k \in 1 .. i] == IF k = 1 THEN 0 ELSE at[k - 1] + StringAt(p, k - 1).len + 1
<1>1. at = [k \in 1 .. i |-> IF k = 1 THEN 0 ELSE at[k - 1] + StringAt(p, k - 1).len + 1]
  <2> DEFINE Sat(g) == g = [k \in 1 .. i |-> IF k = 1 THEN 0 ELSE g[k - 1] + StringAt(p, k - 1).len + 1]
  <2>1. at = CHOOSE g : Sat(g)
    OBVIOUS
  <2>2. Sat(f)
    OBVIOUS
  <2> HIDE DEF Sat
  <2>3. Sat(at)
    <3> HIDE DEF at
    <3> QED
      BY <2>1, <2>2
  <2> QED
    BY <2>3 DEF Sat
<1>2. Start(p, i) = at[i]
  BY DEF Start
<1> QED
  BY <1>1, <1>2

\* Where each of the first strings begins: after those before it and their
\* terminators.
LEMMA StartSums ==
  ASSUME NEW p, \A k \in 1 .. 6 : StringAt(p, k).len \in Nat
  PROVE  /\ Start(p, 1) = 0
         /\ \A i \in 1 .. 6 : /\ Start(p, i) \in Nat
                              /\ Start(p, i + 1) = Start(p, i) + StringAt(p, i).len + 1
<1> DEFINE l(k) == StringAt(p, k).len + 1
           f(k) == IF k = 1 THEN 0
                   ELSE IF k = 2 THEN l(1)
                   ELSE IF k = 3 THEN l(1) + l(2)
                   ELSE IF k = 4 THEN l(1) + l(2) + l(3)
                   ELSE IF k = 5 THEN l(1) + l(2) + l(3) + l(4)
                   ELSE IF k = 6 THEN l(1) + l(2) + l(3) + l(4) + l(5)
                   ELSE l(1) + l(2) + l(3) + l(4) + l(5) + l(6)
<1>1. \A k \in 1 .. 6 : l(k) \in Nat /\ l(k) = StringAt(p, k).len + 1
  OBVIOUS
<1> HIDE DEF l
<1>2. /\ f(1) = 0
      /\ \A k \in 1 .. 6 : f(k) \in Nat /\ f(k + 1) = f(k) + l(k)
  BY <1>1
<1> HIDE DEF f
<1>3. ASSUME NEW i \in 1 .. 7
      PROVE  Start(p, i) = f(i)
  <2> DEFINE w == [k \in 1 .. i |-> f(k)]
  <2>1. \A k \in 2 .. i : k - 1 \in 1 .. 6 /\ k - 1 \in 1 .. i /\ (k - 1) + 1 = k
    OBVIOUS
  <2>2. \A k \in 2 .. i : f(k) = f(k - 1) + StringAt(p, k - 1).len + 1
    BY <1>1, <1>2, <2>1
  <2>3. w = [k \in 1 .. i |-> IF k = 1 THEN 0 ELSE w[k - 1] + StringAt(p, k - 1).len + 1]
    <3>1. \A k \in 1 .. i : f(k) = IF k = 1 THEN 0 ELSE w[k - 1] + StringAt(p, k - 1).len + 1
      <4>1. \A k \in 2 .. i : w[k - 1] = f(k - 1)
        BY <2>1
      <4>2. \A k \in 1 .. i : k = 1 \/ k \in 2 .. i
        OBVIOUS
      <4> HIDE DEF w
      <4> QED
        BY <1>2, <2>2, <4>1, <4>2
    <3> QED
      BY <3>1
  <2>4. PICK g : /\ g = [k \in 1 .. i |-> IF k = 1 THEN 0 ELSE g[k - 1] + StringAt(p, k - 1).len + 1]
                 /\ Start(p, i) = g[i]
    <3>1. i \in Nat \ {0}
      OBVIOUS
    <3> HIDE DEF w
    <3> QED
      BY <2>3, <3>1, StartUnfolds
  <2>5. /\ g[1] = 0
        /\ \A k \in 2 .. i : g[k] = g[k - 1] + StringAt(p, k - 1).len + 1
    BY <2>4
  <2>6. \A k \in 2 .. i : g[k - 1] = f(k - 1) => g[k] = f(k)
    BY <2>2, <2>5
  <2>7. g[i] = f(i)
    <3>1. g[1] = f(1)
      BY <1>2, <2>5
    <3>2. i >= 2 => g[2] = f(2)
      BY <2>6, <3>1
    <3>3. i >= 3 => g[3] = f(3)
      BY <2>6, <3>2
    <3>4. i >= 4 => g[4] = f(4)
      BY <2>6, <3>3
    <3>5. i >= 5 => g[5] = f(5)
      BY <2>6, <3>4
    <3>6. i >= 6 => g[6] = f(6)
      BY <2>6, <3>5
    <3>7. i >= 7 => g[7] = f(7)
      BY <2>6, <3>6
    <3>8. i \in {1, 2, 3, 4, 5, 6, 7}
      OBVIOUS
    <3> QED
      BY <3>1, <3>2, <3>3, <3>4, <3>5, <3>6, <3>7, <3>8
  <2> QED
    BY <2>4, <2>7
<1>4. \A i \in 1 .. 6 : i \in 1 .. 7 /\ i + 1 \in 1 .. 7
  OBVIOUS
<1> QED
  BY <1>1, <1>2, <1>3, <1>4

-----------------------------------------------------------------------------

\* The range of block sizes has the default in it, and fits 16 bits.
LEMMA BlockSizes ==
  /\ TFTP_BLKSIZE_MIN \in Nat \ {0} /\ TFTP_BLKSIZE_MAX \in Nat
  /\ TFTP_BLKSIZE_MAX < 65536
  /\ BlockSizeSupported(TFTP_BLKSIZE_DEFAULT) /\ TFTP_BLKSIZE_DEFAULT = 512
BY DEF TFTP_BLKSIZE_MIN, TFTP_BLKSIZE_MAX, TFTP_BLKSIZE_DEFAULT, BlockSizeSupported

\* tftp_init_operation_data() keeps the operation and the name, and gives only a
\* deletion no block size.
LEMMA InitOperationFields ==
  ASSUME NEW op, NEW name, NEW mode, NEW size,
         NEW d, d = InitOperation(op, name, mode, size), d # None
  PROVE  /\ d.op = op /\ d.name = name
         /\ op \in Deletes => d.block = 0
         /\ op \notin Deletes => d.block = BlockSize(size) /\ BlockSizeSupported(BlockSize(size))
<1>1. CASE op \in Deletes
  BY <1>1 DEF InitOperation, OperationData
<1>2. CASE op \notin Deletes
  BY <1>2 DEF InitOperation, OperationData
<1> QED
  BY <1>1, <1>2

\* ... and lets only supported operations through.
LEMMA InitOperationTyped ==
  ASSUME NEW op \in {"SEND", "RECEIVE", "REQUEST_DELETE", "HANDLE_DELETE"},
         NEW name \in 0 .. 400, NEW mode, NEW size,
         size.is = "number" => size.num \in Int,
         NEW d, d = InitOperation(op, name, mode, size)
  PROVE  d \in Operations \cup {None}
<1>1. CASE op \in Deletes
  <2>1. d = OperationData(op, name, "octet", 0)
    BY <1>1 DEF InitOperation
  <2> QED
    BY <2>1 DEF OperationData, Operations
<1>2. CASE op \notin Deletes /\ TransferMode(mode) = "octet" /\ BlockSizeSupported(BlockSize(size))
  <2> DEFINE n == BlockSize(size)
  <2>1. n \in Nat /\ BlockSizeSupported(n)
    BY <1>2 DEF BlockSize, TFTP_BLKSIZE_DEFAULT
  <2>2. d = OperationData(op, name, "octet", n)
    BY <1>2 DEF InitOperation
  <2> HIDE DEF n
  <2>3. n \in TFTP_BLKSIZE_MIN .. TFTP_BLKSIZE_MAX
    BY <2>1, BlockSizes DEF BlockSizeSupported
  <2> QED
    BY <2>2, <2>3 DEF OperationData, Operations
<1>3. CASE op \notin Deletes /\ ~ (TransferMode(mode) = "octet" /\ BlockSizeSupported(BlockSize(size)))
  BY <1>3 DEF InitOperation
<1> QED
  BY <1>1, <1>2, <1>3

\* ... and lets an octet transfer with a supported size through.
LEMMA InitOperationAccepts ==
  ASSUME NEW op, NEW name, NEW mode, NEW size,
         op \notin Deletes => mode.is = "octet" /\ BlockSizeSupported(BlockSize(size))
  PROVE  InitOperation(op, name, mode, size) =
           OperationData(op, name, "octet", IF op \in Deletes THEN 0 ELSE BlockSize(size))
BY DEF InitOperation, TransferMode

\* The fields of a packet.
LEMMA RequestFields ==
  ASSUME NEW opcode, NEW strings, NEW bytes
  PROVE  LET p == Request(opcode, strings, bytes)
         IN  p.opcode = opcode /\ p.strings = strings /\ p.bytes = bytes
BY DEF Request

\* The client's operation data, field by field.
LEMMA ClientFields ==
  ASSUME NEW d \in ClientOperations
  PROVE  /\ d.name \in Nat /\ d.name \in 0 .. 400
         /\ d.op \in {"SEND", "RECEIVE", "REQUEST_DELETE"}
         /\ d.op = "REQUEST_DELETE" => d.block = 0
         /\ d.op # "REQUEST_DELETE" => d.block \in Nat /\ BlockSizeSupported(d.block)
         /\ d.op \in Deletes <=> d.op = "REQUEST_DELETE"
<1>1. /\ d.name \in 0 .. 400
      /\ d.op \in {"SEND", "RECEIVE", "REQUEST_DELETE"}
      /\ d.block \in {0} \cup TFTP_BLKSIZE_MIN .. TFTP_BLKSIZE_MAX
      /\ d.op = "REQUEST_DELETE" <=> d.block = 0
  BY DEF ClientOperations, Operations
<1>2. d.op # "REQUEST_DELETE" => d.block \in Nat /\ BlockSizeSupported(d.block)
  BY <1>1, BlockSizes DEF BlockSizeSupported
<1>3. d.op \in Deletes <=> d.op = "REQUEST_DELETE"
  BY <1>1 DEF Deletes
<1> QED
  BY <1>1, <1>2, <1>3

\* Parts of a request put together.
LEMMA Joined ==
  ASSUME NEW a, NEW b, NEW c, NEW e
  PROVE  /\ LET s == (<<a>> \o <<>>) \o <<>> IN Len(s) = 1 /\ s[1] = a
         /\ LET s == (<<a>> \o <<b>>) \o <<>> IN Len(s) = 2 /\ s[1] = a /\ s[2] = b
         /\ LET s == (<<a>> \o <<b>>) \o <<c, e>>
            IN  Len(s) = 4 /\ s[1] = a /\ s[2] = b /\ s[3] = c /\ s[4] = e
<1>1. LET s == (<<a>> \o <<>>) \o <<>> IN Len(s) = 1 /\ s[1] = a
  OBVIOUS
<1>2. LET s == (<<a>> \o <<b>>) \o <<>> IN Len(s) = 2 /\ s[1] = a /\ s[2] = b
  OBVIOUS
<1>3. LET s == (<<a>> \o <<b>>) \o <<c, e>>
      IN  Len(s) = 4 /\ s[1] = a /\ s[2] = b /\ s[3] = c /\ s[4] = e
  OBVIOUS
<1> QED
  BY <1>1, <1>2, <1>3

\* The strings of the client's request: the name, the mode, and the option if
\* the block size is not the default.
LEMMA ClientStrings ==
  ASSUME NEW d \in ClientOperations
  PROVE  LET p == RequestOf(d)
         IN  /\ p.opcode = Opcode[d.op]
             /\ \A k \in 1 .. 6 : StringAt(p, k).len \in Nat
             /\ StringAt(p, 1) = Name(d.name)
             /\ d.op \in Deletes => Len(p.strings) = 1 /\ p.bytes = d.name + 5
             /\ d.op \notin Deletes => StringAt(p, 2) = Octet
             /\ d.op \notin Deletes /\ ~ HasOption(d) =>
                  Len(p.strings) = 2 /\ p.bytes = d.name + 10 /\ StringAt(p, 3) = Empty
             /\ d.op \notin Deletes /\ HasOption(d) =>
                  /\ Len(p.strings) = 4 /\ p.bytes = d.name + 24
                  /\ StringAt(p, 3) = Blksize /\ StringAt(p, 4) = Number(d.block, 5)
<1> DEFINE p == RequestOf(d)
<1>1. p.opcode = Opcode[d.op] /\ p.strings = Strings(d) /\ p.bytes = PacketHeader + ContentsSize(d)
  BY RequestFields DEF RequestOf
<1> HIDE DEF p
<1>2. /\ d.name \in Nat
      /\ Empty.len = 0 /\ Octet.len = 5 /\ Blksize.len = 7 /\ Name(d.name).len = d.name
      /\ Number(d.block, 5).len = 5
  <2>1. /\ Empty.len = 0 /\ Octet.len = 5 /\ Blksize.len = 7 /\ Name(d.name).len = d.name
        /\ Number(d.block, 5).len = 5
    BY DEF Empty, Octet, Blksize, Name, Text, Number
  <2> QED
    BY <2>1, ClientFields
<1>3. CASE d.op \in Deletes
  <2>1. ~ HasOption(d)
    <3>1. d.block = 0
      BY <1>3, ClientFields
    <3> QED
      BY <3>1 DEF HasOption
  <2>2. Strings(d) = (<<Name(d.name)>> \o <<>>) \o <<>>
    BY <1>3, <2>1 DEF Strings
  <2>3. ContentsSize(d) = d.name + 1
    BY <1>2, <1>3, <2>1 DEF ContentsSize
  <2>4. Len(p.strings) = 1 /\ p.strings[1] = Name(d.name)
    BY <1>1, <2>2, Joined
  <2>5. StringAt(p, 1) = Name(d.name) /\ \A k \in 2 .. 6 : StringAt(p, k) = Empty
    BY <2>4 DEF StringAt
  <2>6. \A k \in 1 .. 6 : StringAt(p, k).len \in Nat
    <3>1. \A k \in 1 .. 6 : k = 1 \/ k \in 2 .. 6
      OBVIOUS
    <3> QED
      BY <1>2, <2>5, <3>1
  <2> QED
    BY <1>1, <1>2, <1>3, <2>3, <2>4, <2>5, <2>6 DEF PacketHeader, p
<1>4. CASE d.op \notin Deletes /\ ~ HasOption(d)
  <2>1. Strings(d) = (<<Name(d.name)>> \o <<Octet>>) \o <<>>
    BY <1>4 DEF Strings
  <2>2. ContentsSize(d) = d.name + 6
    BY <1>2, <1>4 DEF ContentsSize
  <2>3. Len(p.strings) = 2 /\ p.strings[1] = Name(d.name) /\ p.strings[2] = Octet
    BY <1>1, <2>1, Joined
  <2>4. /\ StringAt(p, 1) = Name(d.name) /\ StringAt(p, 2) = Octet
        /\ \A k \in 3 .. 6 : StringAt(p, k) = Empty
    BY <2>3 DEF StringAt
  <2>5. \A k \in 1 .. 6 : StringAt(p, k).len \in Nat
    <3>1. \A k \in 1 .. 6 : k \in {1, 2} \/ k \in 3 .. 6
      OBVIOUS
    <3> QED
      BY <1>2, <2>4, <3>1
  <2> QED
    BY <1>1, <1>2, <1>4, <2>2, <2>3, <2>4, <2>5 DEF PacketHeader, p
<1>5. CASE d.op \notin Deletes /\ HasOption(d)
  <2>1. Strings(d) = (<<Name(d.name)>> \o <<Octet>>) \o <<Blksize, Number(d.block, 5)>>
    BY <1>5 DEF Strings
  <2>2. ContentsSize(d) = d.name + 20
    BY <1>2, <1>5 DEF ContentsSize
  <2>3. /\ Len(p.strings) = 4 /\ p.strings[1] = Name(d.name) /\ p.strings[2] = Octet
        /\ p.strings[3] = Blksize /\ p.strings[4] = Number(d.block, 5)
    BY <1>1, <2>1, Joined
  <2>4. /\ StringAt(p, 1) = Name(d.name) /\ StringAt(p, 2) = Octet
        /\ StringAt(p, 3) = Blksize /\ StringAt(p, 4) = Number(d.block, 5)
        /\ \A k \in 5 .. 6 : StringAt(p, k) = Empty
    BY <2>3 DEF StringAt
  <2>5. \A k \in 1 .. 6 : StringAt(p, k).len \in Nat
    <3>1. \A k \in 1 .. 6 : k \in {1, 2, 3, 4} \/ k \in 5 .. 6
      OBVIOUS
    <3> QED
      BY <1>2, <2>4, <3>1
  <2> QED
    BY <1>1, <1>2, <1>5, <2>2, <2>3, <2>4, <2>5 DEF PacketHeader, p
<1> QED
  BY <1>3, <1>4, <1>5 DEF p

\* RequestFits, for the request of one client.
LEMMA ClientRequestFits ==
  ASSUME NEW d \in ClientOperations
  PROVE  LET p == RequestOf(d)
         IN  Start(p, Len(p.strings) + 1) <= p.bytes - OpcodeLen
<1> DEFINE p == RequestOf(d)
<1>1. /\ \A k \in 1 .. 6 : StringAt(p, k).len \in Nat
      /\ StringAt(p, 1) = Name(d.name)
      /\ d.op \in Deletes => Len(p.strings) = 1 /\ p.bytes = d.name + 5
      /\ d.op \notin Deletes => StringAt(p, 2) = Octet
      /\ d.op \notin Deletes /\ ~ HasOption(d) => Len(p.strings) = 2 /\ p.bytes = d.name + 10
      /\ d.op \notin Deletes /\ HasOption(d) =>
           /\ Len(p.strings) = 4 /\ p.bytes = d.name + 24
           /\ StringAt(p, 3) = Blksize /\ StringAt(p, 4) = Number(d.block, 5)
  BY ClientStrings
<1>2. /\ d.name \in Nat
      /\ Octet.len = 5 /\ Blksize.len = 7 /\ Name(d.name).len = d.name
      /\ Number(d.block, 5).len = 5
  <2>1. /\ Octet.len = 5 /\ Blksize.len = 7 /\ Name(d.name).len = d.name
        /\ Number(d.block, 5).len = 5
    BY DEF Octet, Blksize, Name, Text, Number
  <2> QED
    BY <2>1, ClientFields
<1> HIDE DEF p
<1>3. /\ Start(p, 1) = 0
      /\ Start(p, 2) = Start(p, 1) + StringAt(p, 1).len + 1
      /\ Start(p, 3) = Start(p, 2) + StringAt(p, 2).len + 1
      /\ Start(p, 4) = Start(p, 3) + StringAt(p, 3).len + 1
      /\ Start(p, 5) = Start(p, 4) + StringAt(p, 4).len + 1
  BY <1>1, StartSums
<1>4. CASE d.op \in Deletes
  <2>1. Start(p, 2) = d.name + 1
    BY <1>1, <1>2, <1>3
  <2> QED
    <3>1. Len(p.strings) + 1 = 2 /\ p.bytes - OpcodeLen = d.name + 3
      <4>1. Len(p.strings) = 1 /\ p.bytes = d.name + 5 /\ d.name \in Nat
        BY <1>1, <1>2, <1>4, Zenon
      <4> QED
        BY <4>1 DEF OpcodeLen
    <3>2. Start(p, Len(p.strings) + 1) = d.name + 1
      BY <2>1, <3>1
    <3>3. Start(p, Len(p.strings) + 1) <= p.bytes - OpcodeLen
      BY <1>2, <3>1, <3>2
    <3> QED
      BY <3>3 DEF p
<1>5. CASE d.op \notin Deletes /\ ~ HasOption(d)
  <2>1. Start(p, 3) = d.name + 7
    BY <1>1, <1>2, <1>3, <1>5
  <2> QED
    <3>1. Len(p.strings) + 1 = 3 /\ p.bytes - OpcodeLen = d.name + 8
      <4>1. Len(p.strings) = 2 /\ p.bytes = d.name + 10 /\ d.name \in Nat
        BY <1>1, <1>2, <1>5, Zenon
      <4> QED
        BY <4>1 DEF OpcodeLen
    <3>2. Start(p, Len(p.strings) + 1) = d.name + 7
      BY <2>1, <3>1
    <3>3. Start(p, Len(p.strings) + 1) <= p.bytes - OpcodeLen
      BY <1>2, <3>1, <3>2
    <3> QED
      BY <3>3 DEF p
<1>6. CASE d.op \notin Deletes /\ HasOption(d)
  <2>1. Start(p, 5) = d.name + 21
    BY <1>1, <1>2, <1>3, <1>6
  <2> QED
    <3>1. Len(p.strings) + 1 = 5 /\ p.bytes - OpcodeLen = d.name + 22
      <4>1. Len(p.strings) = 4 /\ p.bytes = d.name + 24 /\ d.name \in Nat
        BY <1>1, <1>2, <1>6, Zenon
      <4> QED
        BY <4>1 DEF OpcodeLen
    <3>2. Start(p, Len(p.strings) + 1) = d.name + 21
      BY <2>1, <3>1
    <3>3. Start(p, Len(p.strings) + 1) <= p.bytes - OpcodeLen
      BY <1>2, <3>1, <3>2
    <3> QED
      BY <3>3 DEF p
<1> QED
  BY <1>4, <1>5, <1>6

\* What the server makes of the client's request.
LEMMA ServerUnderstands ==
  ASSUME NEW d \in ClientOperations
  PROVE  LET p == RequestOf(d)
             n == IF d.name > TFTP_FILENAME_MAX THEN TFTP_FILENAME_MAX ELSE d.name
         IN  /\ p.opcode \in DOMAIN ServerOperation
             /\ ServerData(p) = OperationData(ServerOperation[p.opcode], n, "octet", d.block)
             /\ <<d.op, ServerOperation[p.opcode]>> \in
                  {<<"SEND", "RECEIVE">>, <<"RECEIVE", "SEND">>, <<"REQUEST_DELETE", "HANDLE_DELETE">>}
<1> DEFINE p == RequestOf(d)
           n == IF d.name > TFTP_FILENAME_MAX THEN TFTP_FILENAME_MAX ELSE d.name
           o == ServerOperation[p.opcode]
<1>1. /\ p.opcode = Opcode[d.op]
      /\ \A k \in 1 .. 6 : StringAt(p, k).len \in Nat
      /\ StringAt(p, 1) = Name(d.name)
      /\ d.op \notin Deletes => StringAt(p, 2) = Octet
      /\ d.op \notin Deletes /\ ~ HasOption(d) => p.bytes = d.name + 10 /\ StringAt(p, 3) = Empty
      /\ d.op \notin Deletes /\ HasOption(d) =>
           p.bytes = d.name + 24 /\ StringAt(p, 3) = Blksize /\ StringAt(p, 4) = Number(d.block, 5)
  BY ClientStrings
<1>2. /\ d.name \in Nat /\ Octet.len = 5 /\ Octet.is = "octet" /\ Name(d.name).len = d.name
      /\ Blksize.is = "blksize" /\ Empty.is = "" /\ None.is = "none"
      /\ Number(d.block, 5).is = "number" /\ Number(d.block, 5).num = d.block
  <2>1. /\ Octet.len = 5 /\ Octet.is = "octet" /\ Name(d.name).len = d.name
        /\ Blksize.is = "blksize" /\ Empty.is = "" /\ None.is = "none"
        /\ Number(d.block, 5).is = "number" /\ Number(d.block, 5).num = d.block
    BY DEF Octet, Blksize, Empty, None, Name, Text, Number
  <2> QED
    BY <2>1, ClientFields
<1> HIDE DEF p
<1>3. /\ p.opcode \in DOMAIN ServerOperation
      /\ <<d.op, o>> \in {<<"SEND", "RECEIVE">>, <<"RECEIVE", "SEND">>, <<"REQUEST_DELETE", "HANDLE_DELETE">>}
      /\ o \in Deletes <=> d.op \in Deletes
  <2>1. d.op \in {"SEND", "RECEIVE", "REQUEST_DELETE"}
    BY ClientFields
  <2>2. p.opcode = CASE d.op = "RECEIVE" -> "RRQ" [] d.op = "SEND" -> "WRQ" [] OTHER -> "DRQ"
    BY <1>1, <2>1 DEF Opcode
  <2>3. o = CASE d.op = "RECEIVE" -> "SEND" [] d.op = "SEND" -> "RECEIVE" [] OTHER -> "HANDLE_DELETE"
    BY <2>1, <2>2 DEF ServerOperation
  <2>4. p.opcode \in DOMAIN ServerOperation
    BY <2>1, <2>2 DEF ServerOperation
  <2> QED
    BY <2>1, <2>3, <2>4 DEF Deletes
<1>4. ServerName(p) = n
  BY <1>1, <1>2 DEF ServerName
<1>5. CASE d.op \in Deletes
  <2>1. d.block = 0
    BY <1>5, ClientFields
  <2>2. ServerData(p) = OperationData(o, n, "octet", 0)
    BY <1>3, <1>4, <1>5 DEF ServerData, InitOperation
  <2> QED
    BY <1>3, <2>1, <2>2 DEF p
<1>6. CASE d.op \notin Deletes
  <2>1. /\ Start(p, 1) = 0
        /\ Start(p, 2) = Start(p, 1) + StringAt(p, 1).len + 1
        /\ Start(p, 3) = Start(p, 2) + StringAt(p, 2).len + 1
    BY <1>1, StartSums
  <2>2. Start(p, 2) = d.name + 1 /\ Start(p, 3) = d.name + 7
    <3>1. StringAt(p, 1).len = d.name /\ StringAt(p, 2).len = 5 /\ d.name \in Nat
      BY <1>1, <1>2, <1>6
    <3> QED
      BY <2>1, <3>1
  <2>3. d.block \in Nat /\ BlockSizeSupported(d.block)
    BY <1>6, ClientFields
  <2>4. BlockSize(Option(p)) = d.block
    <3>1. CASE HasOption(d)
      <4>1. Reaches(p, 2) /\ Reaches(p, 3)
        <5>1. p.bytes = d.name + 24 /\ d.name \in Nat
          BY <1>1, <1>2, <1>6, <3>1
        <5> QED
          BY <2>2, <5>1 DEF Reaches
      <4>2. Option(p) = Number(d.block, 5)
        BY <1>1, <1>2, <1>6, <3>1, <4>1 DEF Option
      <4>3. d.block % 65536 = d.block /\ d.block # 0
        BY <2>3, BlockSizes DEF BlockSizeSupported
      <4> QED
        <5>1. Option(p).is = "number" /\ Option(p).num % 65536 # 0 /\ Option(p).num % 65536 = d.block
          <6>1. Option(p).is = "number" /\ Option(p).num = d.block
            BY <1>2, <4>2, Zenon
          <6> QED
            BY <4>3, <6>1
        <5> QED
          BY <5>1 DEF BlockSize
    <3>2. CASE ~ HasOption(d)
      <4>1. Option(p) = None
        BY <1>1, <1>2, <1>6, <3>2 DEF Option
      <4>2. d.block = TFTP_BLKSIZE_DEFAULT
        BY <2>3, <3>2, BlockSizes DEF HasOption, BlockSizeSupported
      <4> QED
        <5>1. Option(p).is # "number"
          BY <1>2, <4>1
        <5> QED
          BY <4>2, <5>1 DEF BlockSize
    <3> QED
      BY <3>1, <3>2
  <2>5. ServerData(p) = OperationData(o, n, "octet", d.block)
    <3>1. o \notin Deletes /\ StringAt(p, 2).is = "octet" /\ BlockSizeSupported(BlockSize(Option(p)))
      BY <1>1, <1>2, <1>3, <1>6, <2>3, <2>4
    <3>2. ServerData(p) = OperationData(o, ServerName(p), "octet", BlockSize(Option(p)))
      BY <3>1, InitOperationAccepts DEF ServerData
    <3> QED
      BY <1>4, <2>4, <3>2
  <2> QED
    BY <1>3, <2>5 DEF p
<1> QED
  BY <1>5, <1>6

-----------------------------------------------------------------------------

\* The strings of another client's request, and the bytes they take.
LEMMA OtherStringsShape ==
  ASSUME NEW p \in OtherRequests
  PROVE  /\ \E len \in NameLengths, mode \in ModeTexts,
               option \in {Blksize, Text("timeout", 7)}, value \in Values :
              p.strings \in {<<Name(len)>>, <<Name(len), mode>>,
                             <<Name(len), mode, option, value>>,
                             <<Name(len), mode, Text("tsize", 5), Number(0, 1), option, value>>}
         /\ p.bytes = OpcodeLen + Start([strings |-> p.strings], Len(p.strings) + 1)
         /\ p.opcode \in {"RRQ", "WRQ", "DRQ", "DATA"}
<1>1. PICK opcode \in {"RRQ", "WRQ", "DRQ", "DATA"}, strings \in OtherStrings :
        p = Request(opcode, strings, OpcodeLen + Start([strings |-> strings], Len(strings) + 1))
  BY DEF OtherRequests
<1>2. /\ p.opcode = opcode /\ p.strings = strings
      /\ p.bytes = OpcodeLen + Start([strings |-> strings], Len(strings) + 1)
  BY <1>1, RequestFields
<1>3. \E len \in NameLengths, mode \in ModeTexts,
         option \in {Blksize, Text("timeout", 7)}, value \in Values :
        strings \in {<<Name(len)>>, <<Name(len), mode>>,
                     <<Name(len), mode, option, value>>,
                     <<Name(len), mode, Text("tsize", 5), Number(0, 1), option, value>>}
  BY DEF OtherStrings
<1> QED
  BY <1>2, <1>3

\* Where a string begins depends on the strings only.
LEMMA StartOfStrings ==
  ASSUME NEW p, \A k \in 1 .. 6 : StringAt(p, k).len \in Nat
  PROVE  \A i \in 1 .. 7 : Start([strings |-> p.strings], i) = Start(p, i)
<1> DEFINE q == [strings |-> p.strings]
<1>1. \A k : StringAt(q, k) = StringAt(p, k)
  BY DEF StringAt
<1> HIDE DEF q
<1>2. /\ Start(p, 1) = 0 /\ Start(q, 1) = 0
      /\ \A i \in 1 .. 6 : /\ Start(p, i + 1) = Start(p, i) + StringAt(p, i).len + 1
                           /\ Start(q, i + 1) = Start(q, i) + StringAt(p, i).len + 1
  BY <1>1, StartSums
<1>3. \A i \in 1 .. 6 : Start(q, i) = Start(p, i) => Start(q, i + 1) = Start(p, i + 1)
  BY <1>2
<1>4. Start(q, 2) = Start(p, 2)
  BY <1>2, <1>3
<1>5. Start(q, 3) = Start(p, 3)
  BY <1>3, <1>4
<1>6. Start(q, 4) = Start(p, 4)
  BY <1>3, <1>5
<1>7. Start(q, 5) = Start(p, 5)
  BY <1>3, <1>6
<1>8. Start(q, 6) = Start(p, 6)
  BY <1>3, <1>7
<1>9. Start(q, 7) = Start(p, 7)
  BY <1>3, <1>8
<1> QED
  BY <1>2, <1>4, <1>5, <1>6, <1>7, <1>8, <1>9 DEF q

\* The members of the input sets, field by field.
LEMMA TextFields ==
  /\ \A m \in ModeTexts : m.len \in Nat /\ m.is # "number" /\ m.is # "none"
  /\ \A v \in Values : v.len \in Nat \ {0} /\ v.num \in Int /\ (v.is = "number" \/ v.num = 0)
  /\ \A len : Name(len).len = len
  /\ \A o \in {Blksize, Text("timeout", 7)} :
       /\ o.len = 7 /\ o.is \in {"blksize", "timeout"}
       /\ o = Blksize <=> o.is = "blksize"
  /\ Text("tsize", 5).len = 5 /\ Text("tsize", 5).is = "tsize" /\ Text("tsize", 5) # Blksize
  /\ Number(0, 1).len = 1 /\ Empty.len = 0 /\ Empty.is = "" /\ None.is = "none"
<1>1. \A m \in ModeTexts : m.len \in Nat /\ m.is # "number" /\ m.is # "none"
  <2> SUFFICES ASSUME NEW m \in ModeTexts
               PROVE  m.len \in Nat /\ m.is # "number" /\ m.is # "none"
    OBVIOUS
  <2>1. PICK word \in {"", "octet", "netascii", "mail", "binary"}, len \in Nat :
          m = Text(word, len)
    BY DEF ModeTexts, Empty, Octet
  <2>2. m.is = word /\ m.len = len
    BY <2>1 DEF Text
  <2>3. len \in Nat
    OBVIOUS
  <2>4. word # "number" /\ word # "none"
    OBVIOUS
  <2> QED
    BY <2>2, <2>3, <2>4
<1>2. ASSUME NEW v \in Values
      PROVE  v.len \in Nat \ {0} /\ v.num \in Int /\ (v.is = "number" \/ v.num = 0)
  <2>1. CASE v = Text("word", 4)
    BY <2>1 DEF Text
  <2>2. CASE v # Text("word", 4)
    <3>1. PICK n \in Sizes, digits \in {1, 3, 5} : v = Number(n, digits)
      BY <2>2 DEF Values
    <3> QED
      BY <3>1, RequestAssumption DEF Number
  <2> QED
    BY <2>1, <2>2
<1>3. \A len : Name(len).len = len
  BY DEF Name, Text
<1>4. ASSUME NEW o \in {Blksize, Text("timeout", 7)}
      PROVE  /\ o.len = 7 /\ o.is \in {"blksize", "timeout"}
             /\ o = Blksize <=> o.is = "blksize"
  BY DEF Blksize, Text
<1>5. Text("tsize", 5).len = 5 /\ Text("tsize", 5).is = "tsize" /\ Text("tsize", 5) # Blksize
  BY DEF Text, Blksize
<1>6. Number(0, 1).len = 1 /\ Empty.len = 0 /\ Empty.is = "" /\ None.is = "none"
  BY DEF Number, Empty, Text, None
<1> QED
  BY <1>1, <1>2, <1>3, <1>4, <1>5, <1>6

\* Whatever its strings are, the parser finds the option of another client's
\* request where there is one, and nothing where there is none.
LEMMA OtherOption ==
  ASSUME NEW p \in OtherRequests
  PROVE  /\ StringAt(p, 1).len \in NameLengths
         /\ Option(p) = IF Len(p.strings) >= 4 /\ p.strings[3] = Blksize THEN p.strings[4] ELSE None
         /\ Len(p.strings) >= 4 => p.strings[4].num \in Int /\ (p.strings[4].is = "number" \/ p.strings[4].num = 0)
         /\ p.opcode \in {"RRQ", "WRQ", "DRQ", "DATA"}
<1>1. PICK len \in NameLengths, mode \in ModeTexts,
           option \in {Blksize, Text("timeout", 7)}, value \in Values :
        p.strings \in {<<Name(len)>>, <<Name(len), mode>>,
                       <<Name(len), mode, option, value>>,
                       <<Name(len), mode, Text("tsize", 5), Number(0, 1), option, value>>}
  BY OtherStringsShape
<1>2. /\ len \in Nat /\ Name(len).len = len /\ mode.len \in Nat
      /\ option.len = 7 /\ option.is \in {"blksize", "timeout"} /\ (option = Blksize <=> option.is = "blksize")
      /\ value.len \in Nat \ {0} /\ value.num \in Int /\ (value.is = "number" \/ value.num = 0)
  <2>1. len \in Nat
    BY RequestAssumption
  <2>2. Name(len).len = len /\ mode.len \in Nat
    BY TextFields
  <2>3. option.len = 7 /\ option.is \in {"blksize", "timeout"} /\ (option = Blksize <=> option.is = "blksize")
    BY TextFields
  <2>4. value.len \in Nat \ {0} /\ value.num \in Int /\ (value.is = "number" \/ value.num = 0)
    BY TextFields
  <2> QED
    BY <2>1, <2>2, <2>3, <2>4
<1>3. /\ Text("tsize", 5).len = 5 /\ Text("tsize", 5).is = "tsize" /\ Text("tsize", 5) # Blksize
      /\ Number(0, 1).len = 1 /\ Number(0, 1).num = 0 /\ Empty.len = 0 /\ Empty.is = ""
  BY TextFields DEF Number
<1>4. /\ p.bytes = OpcodeLen + Start([strings |-> p.strings], Len(p.strings) + 1)
      /\ p.opcode \in {"RRQ", "WRQ", "DRQ", "DATA"}
  BY OtherStringsShape
<1>5. CASE p.strings = <<Name(len)>>
  <2>1. Len(p.strings) = 1 /\ p.strings[1] = Name(len)
    BY <1>5
  <2>2. StringAt(p, 1) = Name(len) /\ StringAt(p, 3) = Empty
    BY <2>1 DEF StringAt
  <2>3. Option(p) = None
    BY <1>3, <2>2 DEF Option
  <2> QED
    BY <1>1, <1>2, <1>4, <2>1, <2>2, <2>3
<1>6. CASE p.strings = <<Name(len), mode>>
  <2>1. Len(p.strings) = 2 /\ p.strings[1] = Name(len)
    BY <1>6
  <2>2. StringAt(p, 1) = Name(len) /\ StringAt(p, 3) = Empty
    BY <2>1 DEF StringAt
  <2>3. Option(p) = None
    BY <1>3, <2>2 DEF Option
  <2> QED
    BY <1>1, <1>2, <1>4, <2>1, <2>2, <2>3
<1>7. CASE p.strings = <<Name(len), mode, option, value>>
  <2>1. /\ Len(p.strings) = 4 /\ p.strings[1] = Name(len) /\ p.strings[2] = mode
        /\ p.strings[3] = option /\ p.strings[4] = value
    BY <1>7
  <2>2. /\ StringAt(p, 1) = Name(len) /\ StringAt(p, 2) = mode
        /\ StringAt(p, 3) = option /\ StringAt(p, 4) = value
        /\ StringAt(p, 5) = Empty /\ StringAt(p, 6) = Empty
    BY <2>1 DEF StringAt
  <2>3. /\ StringAt(p, 1).len = len /\ StringAt(p, 2).len = mode.len
        /\ StringAt(p, 3).len = 7 /\ StringAt(p, 4).len = value.len
        /\ StringAt(p, 5).len = 0 /\ StringAt(p, 6).len = 0
    BY <1>2, <1>3, <2>2
  <2>4. \A k \in 1 .. 6 : StringAt(p, k).len \in Nat
    <3>1. \A k \in 1 .. 6 : k \in {1, 2, 3, 4, 5, 6}
      OBVIOUS
    <3> QED
      BY <1>2, <2>3, <3>1
  <2>5. /\ Start(p, 1) = 0
        /\ Start(p, 2) = Start(p, 1) + StringAt(p, 1).len + 1
        /\ Start(p, 3) = Start(p, 2) + StringAt(p, 2).len + 1
        /\ Start(p, 4) = Start(p, 3) + StringAt(p, 3).len + 1
        /\ Start(p, 5) = Start(p, 4) + StringAt(p, 4).len + 1
    BY <2>4, StartSums
  <2>6. p.bytes = 2 + Start(p, 5)
    <3>1. Start([strings |-> p.strings], 5) = Start(p, 5)
      BY <2>4, StartOfStrings
    <3>2. Len(p.strings) + 1 = 5
      BY <2>1
    <3> QED
      BY <1>4, <3>1, <3>2 DEF OpcodeLen
  <2>7. Start(p, 2) = len + 1 /\ Start(p, 3) = len + mode.len + 2
    BY <1>2, <2>3, <2>5
  <2>8. p.bytes = len + mode.len + value.len + 13
    BY <1>2, <2>3, <2>5, <2>6
  <2>9. Reaches(p, 2) /\ Reaches(p, 3)
    BY <1>2, <2>7, <2>8 DEF Reaches
  <2>10. Option(p) = IF option = Blksize THEN value ELSE None
    BY <1>2, <2>2, <2>9 DEF Option
  <2> QED
    BY <1>1, <1>2, <1>4, <2>1, <2>2, <2>10
<1>8. CASE p.strings = <<Name(len), mode, Text("tsize", 5), Number(0, 1), option, value>>
  <2>1. /\ Len(p.strings) = 6 /\ p.strings[1] = Name(len)
        /\ p.strings[3] = Text("tsize", 5) /\ p.strings[4] = Number(0, 1)
    BY <1>8
  <2>2. StringAt(p, 1) = Name(len) /\ StringAt(p, 3) = Text("tsize", 5)
    BY <2>1 DEF StringAt
  <2>3. Option(p) = None
    BY <1>3, <2>2 DEF Option
  <2>4. Number(0, 1).num \in Int
    <3>1. Number(0, 1).num = 0
      BY DEF Number
    <3> QED
      BY <3>1
  <2> QED
    BY <1>1, <1>2, <1>3, <1>4, <2>1, <2>2, <2>3, <2>4
<1> QED
  BY <1>1, <1>5, <1>6, <1>7, <1>8

-----------------------------------------------------------------------------

\* A command line is not the absence of one.
LEMMA CommandLineFields ==
  ASSUME NEW a \in CommandLines
  PROVE  /\ a # None /\ a.count \in 1 .. 6 /\ a.mode \in Modes \cup {"other"}
         /\ a.name \in NameLengths /\ a.tmode \in ModeTexts /\ a.size \in SizeTexts
BY DEF CommandLines, None

\* The initial states satisfy the invariant.
LEMMA InitStep ==
  ASSUME Init
  PROVE  IInv
<1>1. None \in Operations \cup {None}
  OBVIOUS
<1>2. TypeOK
  BY <1>1 DEF Init, TypeOK
<1>3. Built
  <2>1. CASE pc = "started" /\ args \in CommandLines
    BY <2>1, CommandLineFields DEF Built, OfClient, Answered
  <2>2. CASE pc = "sent" /\ args = None /\ packet \in OtherRequests
    BY <2>2 DEF Built, OfClient, Answered
  <2> QED
    BY <2>1, <2>2 DEF Init
<1>4. NothingRefused
  BY DEF Init, NothingRefused
<1> QED
  BY <1>2, <1>3, <1>4 DEF IInv

\* The choice of the mode keeps the invariant.
LEMMA SelectModeStep ==
  ASSUME IInv, SelectMode
  PROVE  IInv'
<1>1. /\ pc = "started" /\ UNCHANGED <<args, peer, client, packet, server>>
      /\ pc' \in {"usage", "missing arguments", "serving", "selected"}
      /\ pc' = "selected" => args.mode \in Modes /\ args.mode # "serve"
  BY DEF SelectMode
<1>2. OfClient /\ args \in CommandLines
  BY <1>1 DEF IInv, TypeOK, Built, OfClient, Answered
<1>3. pc' = "selected" => args.mode \in DOMAIN ClientOperation
  BY <1>1 DEF Modes, ClientOperation
<1>4. TypeOK'
  BY <1>1 DEF IInv, TypeOK
<1>5. Built'
  BY <1>1, <1>2, <1>3 DEF Built, OfClient, Answered
<1>6. NothingRefused'
  BY <1>1 DEF NothingRefused
<1> QED
  BY <1>4, <1>5, <1>6 DEF IInv

\* The parsing of the address keeps the invariant.
LEMMA ParseAddressStep ==
  ASSUME IInv, ParseAddress
  PROVE  IInv'
<1>1. /\ pc = "selected" /\ pc' = "parsed" /\ peer' \in {"given", "another"}
      /\ UNCHANGED <<args, client, packet, server>>
  BY DEF ParseAddress
<1>2. TypeOK'
  BY <1>1 DEF IInv, TypeOK
<1>3. Built'
  BY <1>1 DEF IInv, Built, OfClient, Answered
<1>4. NothingRefused'
  BY <1>1 DEF NothingRefused
<1> QED
  BY <1>2, <1>3, <1>4 DEF IInv

\* The client's operation data are those its arguments stand for.
LEMMA ClientInitStep ==
  ASSUME IInv, ClientInit
  PROVE  IInv'
<1> DEFINE op == ClientOperation[args.mode]
           mode == Argument(4, args.tmode)
           size == Argument(5, args.size)
<1>1. /\ pc = "parsed" /\ client' = InitOperation(op, args.name, mode, size)
      /\ pc' = IF client' = None THEN "aborted" ELSE "initialized"
      /\ UNCHANGED <<args, peer, packet, server>>
  BY DEF ClientInit
<1>2. args \in CommandLines /\ args.mode \in DOMAIN ClientOperation
  BY <1>1 DEF IInv, Built
<1>3. op \in {"SEND", "RECEIVE", "REQUEST_DELETE"}
  BY <1>2 DEF ClientOperation
<1>4. size.is = "number" => size.num \in Int
  <2>1. args.size \in SizeTexts
    BY <1>2, CommandLineFields
  <2>2. CASE size = None
    BY <2>2 DEF None
  <2>3. CASE size = Text("word", 4)
    BY <2>3 DEF Text
  <2>4. ASSUME NEW n \in Sizes, size = Number(n, 1)
        PROVE  size.num \in Int
    BY <2>4, RequestAssumption DEF Number
  <2>5. size = args.size \/ size = None
    BY DEF Argument
  <2> QED
    BY <2>1, <2>2, <2>3, <2>4, <2>5 DEF SizeTexts
<1>5. args.name \in 0 .. 400
  BY <1>2, CommandLineFields, RequestAssumption
<1> HIDE DEF op, mode, size
<1>6. /\ client' \in Operations \cup {None}
      /\ client' # None => /\ client'.op = op
                           /\ op \in Deletes => client'.block = 0
                           /\ op \notin Deletes => client'.block # 0
  <2>1. client' \in Operations \cup {None}
    BY <1>1, <1>3, <1>4, <1>5, InitOperationTyped
  <2>2. BlockSizeSupported(BlockSize(size)) => BlockSize(size) # 0
    BY DEF BlockSizeSupported, TFTP_BLKSIZE_MIN
  <2>3. client' # None => /\ client'.op = op
                          /\ op \in Deletes => client'.block = 0
                          /\ op \notin Deletes => client'.block # 0
    BY <1>1, <2>2, InitOperationFields
  <2> QED
    BY <2>1, <2>3
<1>7. client' = None \/ client' \in ClientOperations
  BY <1>3, <1>6 DEF ClientOperations, Deletes
<1>8. TypeOK'
  BY <1>1, <1>6 DEF IInv, TypeOK
<1>9. Built'
  <2>1. OfClient
    BY <1>2, CommandLineFields DEF OfClient
  <2> QED
    BY <1>1, <1>2, <1>7, <2>1 DEF Built, OfClient, Answered
<1>10. NothingRefused'
  BY <1>1 DEF NothingRefused
<1> QED
  BY <1>8, <1>9, <1>10 DEF IInv

\* The request that is sent is the one those operation data make.
LEMMA SendRequestStep ==
  ASSUME IInv, SendRequest
  PROVE  IInv'
<1>1. /\ pc = "initialized"
      /\ (pc' = "sent" /\ packet' = RequestOf(client)) \/ pc' = "aborted"
      /\ UNCHANGED <<args, peer, client, server>>
  BY DEF SendRequest, RequestOf
<1>2. OfClient /\ client \in ClientOperations
  BY <1>1 DEF IInv, Built, OfClient, Answered
<1>3. TypeOK'
  BY <1>1 DEF IInv, TypeOK
<1>4. Built'
  <2>1. RequestOf(client)' = RequestOf(client')
    BY DEF RequestOf
  <2> QED
    BY <1>1, <1>2 DEF Built, OfClient, Answered
<1>5. NothingRefused'
  BY <1>1 DEF NothingRefused
<1> QED
  BY <1>3, <1>4, <1>5 DEF IInv

\* What the server accepts of the client's request has the right fields.
LEMMA ServerDataTyped ==
  ASSUME NEW d \in ClientOperations
  PROVE  LET p == RequestOf(d)
         IN  /\ ServerData(p) \in Operations /\ ServerData(p) # None
             /\ ServerData(p).block = d.block
             /\ d.name <= TFTP_FILENAME_MAX => ServerData(p).name = d.name
             /\ <<d.op, ServerData(p).op>> \in
                  {<<"SEND", "RECEIVE">>, <<"RECEIVE", "SEND">>, <<"REQUEST_DELETE", "HANDLE_DELETE">>}
<1> DEFINE p == RequestOf(d)
           n == IF d.name > TFTP_FILENAME_MAX THEN TFTP_FILENAME_MAX ELSE d.name
           o == ServerOperation[p.opcode]
<1>1. /\ ServerData(p) = OperationData(o, n, "octet", d.block)
      /\ <<d.op, o>> \in
           {<<"SEND", "RECEIVE">>, <<"RECEIVE", "SEND">>, <<"REQUEST_DELETE", "HANDLE_DELETE">>}
  BY ServerUnderstands
<1>2. o \in {"SEND", "RECEIVE", "REQUEST_DELETE", "HANDLE_DELETE"}
  BY <1>1
<1>3. n \in 0 .. 400 /\ (d.name <= TFTP_FILENAME_MAX => n = d.name)
  BY ClientFields DEF TFTP_FILENAME_MAX
<1>4. d.block \in {0} \cup TFTP_BLKSIZE_MIN .. TFTP_BLKSIZE_MAX
  BY DEF ClientOperations, Operations
<1> HIDE DEF p, n, o
<1>5. /\ ServerData(p) \in Operations /\ ServerData(p) # None
      /\ ServerData(p).op = o /\ ServerData(p).name = n /\ ServerData(p).block = d.block
  <2> DEFINE e == OperationData(o, n, "octet", d.block)
  <2>1. e \in Operations /\ e # None /\ e.op = o /\ e.name = n /\ e.block = d.block
    BY <1>2, <1>3, <1>4 DEF OperationData, Operations, None
  <2>2. ServerData(p) = e
    BY <1>1 DEF p, n, o
  <2> HIDE DEF e
  <2> QED
    BY <2>1, <2>2
<1> QED
  BY <1>1, <1>3, <1>5 DEF p

\* What the server accepts of another client's request has the block size of
\* its option.
LEMMA OtherServerData ==
  ASSUME NEW p \in OtherRequests, p.opcode \in DOMAIN ServerOperation
  PROVE  \/ ServerData(p) = None
         \/ /\ ServerData(p) \in Operations
            /\ ServerData(p).op \notin Deletes => ServerData(p).block = BlockSize(Option(p))
<1> DEFINE op == ServerOperation[p.opcode]
           n == ServerName(p)
           m == StringAt(p, 2)
           o == Option(p)
<1>1. n \in 0 .. 400
  <2>1. StringAt(p, 1).len \in 0 .. 400
    BY OtherOption, RequestAssumption
  <2> QED
    BY <2>1 DEF ServerName, TFTP_FILENAME_MAX
<1>2. o.is = "number" => o.num \in Int
  <2>1. o = None \/ o.num \in Int
    BY OtherOption
  <2>2. None.is # "number"
    BY DEF None
  <2> QED
    BY <2>1, <2>2
<1>3. op \in {"SEND", "RECEIVE", "REQUEST_DELETE", "HANDLE_DELETE"}
  BY DEF ServerOperation
<1>4. ServerData(p) = InitOperation(op, n, m, o)
  BY DEF ServerData
<1> HIDE DEF op, n, o, m
<1>5. ServerData(p) \in Operations \cup {None}
  BY <1>1, <1>2, <1>3, <1>4, InitOperationTyped
<1>6. ServerData(p) # None =>
        ServerData(p).op = op /\ (op \notin Deletes => ServerData(p).block = BlockSize(o))
  BY <1>4, InitOperationFields
<1> QED
  BY <1>5, <1>6 DEF o

\* The invariant holds after the server has parsed the request.
LEMMA ParseStep ==
  ASSUME IInv, Parse
  PROVE  IInv'
<1>1. pc = "sent" /\ UNCHANGED <<args, peer, client, packet>>
  BY DEF Parse
<1>2. CASE OfClient
  <2>1. client \in ClientOperations /\ packet = RequestOf(client)
    BY <1>1, <1>2 DEF IInv, Built, Answered
  <2>2. packet.opcode \in DOMAIN ServerOperation
    BY <2>1, ServerUnderstands
  <2>3. ServerData(packet) \in Operations /\ ServerData(packet) # None
    BY <2>1, ServerDataTyped
  <2>4. server' = ServerData(packet) /\ pc' = "accepted"
    BY <2>2, <2>3 DEF Parse, ServerData
  <2>5. TypeOK'
    BY <1>1, <2>3, <2>4 DEF IInv, TypeOK
  <2>6. Built'
    <3>1. /\ RequestOf(client)' = RequestOf(client')
          /\ ServerData(packet)' = ServerData(packet')
      BY DEF RequestOf, ServerData
    <3> QED
      BY <1>1, <1>2, <2>1, <2>2, <2>3, <2>4 DEF Built, OfClient, Answered
  <2>7. NothingRefused'
    BY <2>4 DEF NothingRefused
  <2> QED
    BY <2>5, <2>6, <2>7 DEF IInv
<1>3. CASE ~ OfClient
  <2>1. packet \in OtherRequests
    BY <1>3 DEF IInv, Built
  <2>2. CASE packet.opcode \notin DOMAIN ServerOperation
    <3>1. pc' = "dismissed" /\ server' = server
      BY <2>2 DEF Parse
    <3>2. TypeOK'
      BY <1>1, <3>1 DEF IInv, TypeOK
    <3>3. Built' /\ NothingRefused'
      BY <1>1, <1>3, <2>1, <3>1 DEF Built, NothingRefused, OfClient, Answered
    <3> QED
      BY <3>2, <3>3 DEF IInv
  <2>3. CASE packet.opcode \in DOMAIN ServerOperation
    <3>1. server' = ServerData(packet) /\ pc' = IF server' = None THEN "refused" ELSE "accepted"
      BY <2>3 DEF Parse, ServerData
    <3>2. server' \in Operations \cup {None}
      BY <2>1, <2>3, <3>1, OtherServerData
    <3>3. TypeOK'
      BY <1>1, <3>1, <3>2 DEF IInv, TypeOK
    <3>4. Built' /\ NothingRefused'
      <4>1. ServerData(packet)' = ServerData(packet')
        BY DEF ServerData
      <4> QED
        BY <1>1, <1>3, <2>1, <2>3, <3>1 DEF Built, NothingRefused, OfClient, Answered
    <3> QED
      BY <3>3, <3>4 DEF IInv
  <2> QED
    BY <2>2, <2>3
<1> QED
  BY <1>2, <1>3

-----------------------------------------------------------------------------

\* The invariant is inductive.
THEOREM InductiveInvariant == Spec => []IInv
<1>1. IInv /\ [Next]_vars => IInv'
  <2>1. ASSUME IInv, UNCHANGED vars
        PROVE  IInv'
    <3>1. TypeOK' /\ NothingRefused'
      BY <2>1 DEF vars, IInv, TypeOK, NothingRefused, OfClient
    <3>2. /\ RequestOf(client)' = RequestOf(client')
          /\ ServerData(packet)' = ServerData(packet')
      BY DEF RequestOf, ServerData
    <3>3. Built'
      BY <2>1, <3>2 DEF vars, IInv, Built, OfClient
    <3> QED
      BY <3>1, <3>3 DEF IInv
  <2> QED
    BY <2>1, SelectModeStep, ParseAddressStep, ClientInitStep, SendRequestStep, ParseStep DEF Next
<1> QED
  BY <1>1, InitStep, PTL DEF Spec

\* Type correctness: tftp_init_operation_data() lets no operation through whose
\* block size is out of range.
THEOREM TypeCorrect == Spec => []TypeOK
BY InductiveInvariant, PTL DEF IInv

\* Everything the client's tftp_init_operation_data() lets through passes the
\* server's, after send_request_packet() and server_parse_request_data().
THEOREM ServerAccepts == Spec => []NothingRefused
BY InductiveInvariant, PTL DEF IInv

\* send_request_packet() writes within what it allocates and sends, for names
\* of every length, although it does not count the terminator of the mode.
THEOREM PacketFits == Spec => []RequestFits
<1>1. IInv => RequestFits
  <2> SUFFICES ASSUME IInv, OfClient, pc = "sent"
               PROVE  Start(packet, Len(packet.strings) + 1) <= packet.bytes - OpcodeLen
    BY DEF RequestFits
  <2>1. client \in ClientOperations /\ packet = RequestOf(client)
    BY DEF IInv, Built, Answered
  <2> QED
    BY <2>1, ClientRequestFits
<1> QED
  BY <1>1, InductiveInvariant, PTL

\* The operation data of the two ends correspond, for every name and size.
THEOREM EndsCorrespond == Spec => []EndsAgree
<1>1. IInv => EndsAgree
  <2> SUFFICES ASSUME IInv, OfClient, pc = "accepted"
               PROVE  /\ <<client.op, server.op>> \in
                           {<<"SEND", "RECEIVE">>, <<"RECEIVE", "SEND">>, <<"REQUEST_DELETE", "HANDLE_DELETE">>}
                      /\ client.name <= TFTP_FILENAME_MAX => server.name = client.name
                      /\ server.block = client.block
    BY DEF EndsAgree
  <2>1. client \in ClientOperations /\ packet = RequestOf(client) /\ server = ServerData(packet)
    BY DEF IInv, Built, Answered
  <2> QED
    BY <2>1, ServerDataTyped
<1> QED
  BY <1>1, InductiveInvariant, PTL

\* The block size that tftp_init_operation_data() makes of a string: its number
\* cut to 16 bits, or the default.
LEMMA BlockSizeOfOption ==
  ASSUME NEW s, s.num \in Int, s.is = "number" \/ s.num = 0
  PROVE  BlockSize(s) = IF s.num % 65536 = 0 THEN TFTP_BLKSIZE_DEFAULT ELSE s.num % 65536
<1>1. CASE s.is = "number"
  BY <1>1 DEF BlockSize
<1>2. CASE s.is # "number"
  <2>1. s.num = 0 /\ 0 % 65536 = 0 /\ BlockSize(s) = TFTP_BLKSIZE_DEFAULT
    BY <1>2 DEF BlockSize
  <2> QED
    BY <2>1
<1> QED
  BY <1>1, <1>2

\* server_parse_request_data() finds the block size of every request, that of
\* the client and of clients that leave no spare bytes, makes none up, and uses
\* it cut to 16 bits.
THEOREM OptionCorrect == Spec => []OptionHonoured
<1>1. IInv => OptionHonoured
  <2> DEFINE strings == packet.strings
             size == IF Len(strings) >= 4 /\ strings[3] = Blksize
                     THEN strings[4].num % 65536 ELSE 0
  <2> SUFFICES ASSUME IInv, pc = "accepted", server.op \notin Deletes
               PROVE  server.block = IF size = 0 THEN TFTP_BLKSIZE_DEFAULT ELSE size
    BY DEF OptionHonoured
  <2>1. server = ServerData(packet) /\ server # None
    BY DEF IInv, Built
  <2>2. CASE OfClient
    <3>1. client \in ClientOperations /\ packet = RequestOf(client)
      BY <2>2 DEF IInv, Built, Answered
    <3>2. server.block = client.block
      BY <2>1, <3>1, ServerDataTyped
    <3>3. client.op \notin Deletes
      <4>1. <<client.op, server.op>> \in
              {<<"SEND", "RECEIVE">>, <<"RECEIVE", "SEND">>, <<"REQUEST_DELETE", "HANDLE_DELETE">>}
        BY <2>1, <3>1, ServerDataTyped
      <4> QED
        BY <4>1 DEF Deletes
    <3>4. client.block \in Nat /\ BlockSizeSupported(client.block)
      BY <3>1, <3>3, ClientFields
    <3>5. CASE HasOption(client)
      <4>1. /\ Len(strings) = 4 /\ StringAt(packet, 3) = Blksize
            /\ StringAt(packet, 4) = Number(client.block, 5)
        BY <3>1, <3>3, <3>5, ClientStrings
      <4>2. strings[3] = Blksize /\ strings[4] = Number(client.block, 5)
        BY <4>1 DEF StringAt
      <4>3. size = client.block % 65536
        BY <4>1, <4>2 DEF Number
      <4>4. 0 < client.block /\ client.block < 65536
        BY <3>4, BlockSizes DEF BlockSizeSupported
      <4>5. client.block % 65536 = client.block
        BY <3>4, <4>4
      <4> HIDE DEF size
      <4> QED
        BY <3>2, <4>3, <4>4, <4>5
    <3>6. CASE ~ HasOption(client)
      <4>1. Len(strings) = 2
        BY <3>1, <3>3, <3>6, ClientStrings
      <4>2. size = 0
        BY <4>1
      <4>3. client.block = TFTP_BLKSIZE_DEFAULT
        BY <3>4, <3>6, BlockSizes DEF HasOption, BlockSizeSupported
      <4> QED
        BY <3>2, <4>2, <4>3
    <3> QED
      BY <3>5, <3>6
  <2>3. CASE ~ OfClient
    <3>1. packet \in OtherRequests
      BY <2>3 DEF IInv, Built
    <3> DEFINE o == Option(packet)
    <3>2. /\ o = IF Len(strings) >= 4 /\ strings[3] = Blksize THEN strings[4] ELSE None
          /\ Len(strings) >= 4 => strings[4].num \in Int /\ (strings[4].is = "number" \/ strings[4].num = 0)
      BY <3>1, OtherOption
    <3>3. packet.opcode \in DOMAIN ServerOperation
      BY DEF IInv, Built
    <3>4. server.block = BlockSize(o)
      BY <2>1, <3>1, <3>3, OtherServerData
    <3> HIDE DEF o
    <3>5. CASE Len(strings) >= 4 /\ strings[3] = Blksize
      BY <3>2, <3>4, <3>5, BlockSizeOfOption
    <3>6. CASE ~ (Len(strings) >= 4 /\ strings[3] = Blksize)
      <4>1. o.is = "none"
        BY <3>2, <3>6 DEF None
      <4>2. size = 0 /\ BlockSize(o) = TFTP_BLKSIZE_DEFAULT
        BY <3>6, <4>1 DEF BlockSize
      <4> QED
        BY <3>4, <4>2
    <3> QED
      BY <3>5, <3>6
  <2> QED
    BY <2>2, <2>3
<1> QED
  BY <1>1, InductiveInvariant, PTL
=============================================================================
