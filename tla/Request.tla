------------------------------ MODULE Request ------------------------------
(***************************************************************************)
(* A request on its way from the command line of the client to the         *)
(* operation data of the server: main(), send_request_packet(),            *)
(* server_parse_request_data() and, at both ends,                          *)
(* tftp_init_operation_data().                                             *)
(*                                                                         *)
(* A string is what it says and its length: a word in any case, since they *)
(* are compared by strcasecmp(), or a number.  A file name is its length,  *)
(* so that a name cut short is another name.  The contents of a packet are *)
(* its strings, each with a terminator, and zeros after them, since the    *)
(* server clears its buffer: a string beyond the last one is empty.        *)
(*                                                                         *)
(* Requests also come from other TFTP clients, which leave no spare bytes  *)
(* and may name other options.  Requests longer than the server's buffer   *)
(* are left out.                                                           *)
(***************************************************************************)
EXTENDS Integers, Sequences

CONSTANTS
  NameLengths,   \* lengths of file names
  Sizes          \* block sizes given as numbers

ASSUME RequestAssumption == NameLengths \subseteq 0 .. 400 /\ Sizes \subseteq Int

TFTP_FILENAME_MAX    == 255
TFTP_BLKSIZE_MIN     == 8
TFTP_BLKSIZE_DEFAULT == 512
TFTP_BLKSIZE_MAX     == 65464

\* Mutant: the opcode alone.
SizeOfOpcode == 2

PacketHeader == 4   \* sizeof(Packet_t): opcode and block number
OpcodeLen    == 2   \* where the contents of a request begin

VARIABLES
  pc,       \* how far the request has come
  args,     \* the command line, None for the request of another client
  peer,     \* the address the client sends to
  client,   \* operation data of the client
  packet,   \* the request in the server's buffer
  server    \* operation data of the server

vars == <<pc, args, peer, client, packet, server>>

-----------------------------------------------------------------------------
(* Strings and packets                                                     *)

None == [is |-> "none"]   \* NULL

Text(is, len) == [is |-> is, len |-> len, num |-> 0]

Number(n, len) == [is |-> "number", len |-> len, num |-> n]

Empty == Text("", 0)
Name(len) == Text("name", len)
Octet == Text("octet", 5)
Blksize == Text("blksize", 7)

StringAt(p, i) == IF i <= Len(p.strings) THEN p.strings[i] ELSE Empty

\* Where string i of the contents begins.
Start(p, i) ==
  LET at[k \in 1 .. i] == IF k = 1 THEN 0 ELSE at[k - 1] + StringAt(p, k - 1).len + 1
  IN  at[i]

-----------------------------------------------------------------------------
(* tftp_init_operation_data()                                              *)

\* The transfer mode, for which octet is the default.
TransferMode(mode) ==
  IF mode.is \in {"octet", "netascii", "mail"} THEN mode.is
  ELSE IF mode.is \in {"", "none"} THEN "octet"
  ELSE "unspecified"

\* atoi() into a uint16_t; 0 is no size.
BlockSize(s) ==
  LET n == IF s.is = "number" THEN s.num % 65536 ELSE 0
  IN  IF n = 0 THEN TFTP_BLKSIZE_DEFAULT ELSE n

\* Mutant: any number of 16 bits will do.
AnyBlockSize(n) == n >= TFTP_BLKSIZE_MIN

BlockSizeSupported(n) == n >= TFTP_BLKSIZE_MIN /\ n <= TFTP_BLKSIZE_MAX

Deletes == {"REQUEST_DELETE", "HANDLE_DELETE"}

OperationData(op, name, mode, size) ==
  [is |-> "operation", op |-> op, name |-> name, mode |-> mode, block |-> size]

\* None if the operation is refused.
InitOperation(op, name, mode, size) ==
  IF op \in Deletes THEN OperationData(op, name, "octet", 0)
  ELSE IF TransferMode(mode) = "octet" /\ BlockSizeSupported(BlockSize(size))
  THEN OperationData(op, name, "octet", BlockSize(size))
  ELSE None

-----------------------------------------------------------------------------
(* The client: main()                                                      *)

Modes == {"serve", "write", "read", "delete"}

MinCount == [mode \in Modes |-> IF mode = "serve" THEN 2 ELSE 4]

ClientOperation ==
  [write |-> "SEND", read |-> "RECEIVE", delete |-> "REQUEST_DELETE"]

\* The argument with index i, NULL if there are fewer.
Argument(i, a) == IF args.count > i THEN a ELSE None

SelectMode ==
  /\ pc = "started"
  /\ pc' = IF args.count < 2 \/ args.mode \notin Modes THEN "usage"
           ELSE IF args.count < MinCount[args.mode] THEN "missing arguments"
           ELSE IF args.mode = "serve" THEN "serving"
           ELSE "selected"
  /\ UNCHANGED <<args, peer, client, packet, server>>

\* inet_pton() returns 0 for what is no address, which is not an error for
\* parse_address(): the address sent to is then whatever the stack holds.
ParseAddress ==
  /\ pc = "selected"
  /\ pc' = "parsed"
  /\ peer' \in IF args.address = "valid" THEN {"given"} ELSE {"another"}
  /\ UNCHANGED <<args, client, packet, server>>

ClientInit ==
  /\ pc = "parsed"
  /\ client' = InitOperation(ClientOperation[args.mode], args.name,
                             Argument(4, args.tmode), Argument(5, args.size))
  /\ pc' = IF client' = None THEN "aborted" ELSE "initialized"
  /\ UNCHANGED <<args, peer, packet, server>>

-----------------------------------------------------------------------------
(* The request packet: send_request_packet()                               *)

Opcode == [RECEIVE |-> "RRQ", SEND |-> "WRQ", REQUEST_DELETE |-> "DRQ"]

\* Mutant: only a larger size is told to the server.
HasLargerSize(d) == d.block > TFTP_BLKSIZE_DEFAULT

HasOption(d) == d.block > 0 /\ d.block # TFTP_BLKSIZE_DEFAULT

\* Mutant: the option goes first.
StringsOptionFirst(d) ==
  <<Name(d.name)>> \o (IF HasOption(d) THEN <<Blksize, Number(d.block, 5)>> ELSE <<>>)
  \o (IF d.op \in Deletes THEN <<>> ELSE <<Octet>>)

\* The size is written with "%05u".
Strings(d) ==
  <<Name(d.name)>>
  \o (IF d.op \in Deletes THEN <<>> ELSE <<Octet>>)
  \o (IF HasOption(d) THEN <<Blksize, Number(d.block, 5)>> ELSE <<>>)

\* The terminator of the mode is not counted.
ContentsSize(d) ==
  d.name + 1
  + (IF d.op \in Deletes THEN 0 ELSE Octet.len)
  + (IF HasOption(d) THEN 8 + 6 ELSE 0)

Request(opcode, strings, bytes) == [opcode |-> opcode, strings |-> strings, bytes |-> bytes]

NoRequest == Request("none", <<>>, 0)

SendRequest ==
  /\ pc = "initialized"
  /\ \/ /\ packet' = Request(Opcode[client.op], Strings(client),
                             PacketHeader + ContentsSize(client))
        /\ pc' = "sent"
     \/ pc' = "aborted" /\ UNCHANGED packet
  /\ UNCHANGED <<args, peer, client, server>>

-----------------------------------------------------------------------------
(* The server: server_listener_loop(), server_parse_request_data()         *)

ServerOperation == [RRQ |-> "SEND", WRQ |-> "RECEIVE", DRQ |-> "HANDLE_DELETE"]

\* strncat() takes the first 255 characters of the name.
ServerName(p) ==
  IF StringAt(p, 1).len > TFTP_FILENAME_MAX THEN TFTP_FILENAME_MAX ELSE StringAt(p, 1).len

\* Mutant: a whole option has to follow.
ReachesOption(p, i) == Start(p, i) + 12 < p.bytes

\* bytes_received counts the opcode, the index begins after it.
Reaches(p, i) == Start(p, i) + 4 < p.bytes

Option(p) ==
  IF Reaches(p, 2) /\ StringAt(p, 3).is = "blksize" /\ Reaches(p, 3)
  THEN StringAt(p, 4)
  ELSE None

\* A refused request is answered by an ERROR, like a packet that is no request.
Parse ==
  /\ pc = "sent"
  /\ IF packet.opcode \notin DOMAIN ServerOperation
     THEN pc' = "dismissed" /\ UNCHANGED server
     ELSE /\ server' = InitOperation(ServerOperation[packet.opcode], ServerName(packet),
                                     StringAt(packet, 2), Option(packet))
          /\ pc' = IF server' = None THEN "refused" ELSE "accepted"
  /\ UNCHANGED <<args, peer, client, packet>>

-----------------------------------------------------------------------------
(* Specification                                                           *)

ModeTexts ==
  {Empty, Octet, Text("netascii", 8), Text("mail", 4), Text("binary", 6)}

\* What may be given for a size; how long a number is does not matter here.
SizeTexts == {Text("word", 4)} \cup {Number(n, 1) : n \in Sizes}

CommandLines ==
  [is : {"command"}, count : 1 .. 6, mode : Modes \cup {"other"},
   address : {"valid", "malformed"}, name : NameLengths,
   tmode : ModeTexts, size : SizeTexts]

Values == {Text("word", 4)}
          \cup {v \in {Number(n, digits) : n \in Sizes, digits \in {1, 3, 5}} :
                  v.num \in 0 .. 10^v.len - 1}

\* Requests of other clients: name, mode, and at most two options.
OtherStrings ==
  UNION {{<<Name(len)>>, <<Name(len), mode>>,
          <<Name(len), mode, option, value>>,
          <<Name(len), mode, Text("tsize", 5), Number(0, 1), option, value>>} :
         len \in NameLengths, mode \in ModeTexts,
         option \in {Blksize, Text("timeout", 7)}, value \in Values}

OtherRequests ==
  {Request(opcode, strings, OpcodeLen + Start([strings |-> strings], Len(strings) + 1)) :
     opcode \in {"RRQ", "WRQ", "DRQ", "DATA"}, strings \in OtherStrings}

Init ==
  /\ \/ pc = "started" /\ args \in CommandLines /\ packet = NoRequest
     \/ pc = "sent" /\ args = None /\ packet \in OtherRequests
  /\ peer = "unset"
  /\ client = None
  /\ server = None

Next ==
  \/ SelectMode \/ ParseAddress \/ ClientInit \/ SendRequest
  \/ Parse

Spec == Init /\ [][Next]_vars

-----------------------------------------------------------------------------
(* Properties                                                              *)

OfClient == args # None

Operations ==
  [is : {"operation"}, op : {"SEND", "RECEIVE", "REQUEST_DELETE", "HANDLE_DELETE"},
   name : 0 .. 400, mode : {"octet"},
   block : {0} \cup TFTP_BLKSIZE_MIN .. TFTP_BLKSIZE_MAX]

\* The state variables keep their types: an operation that was let through has
\* a block size in the permitted range, or none if it is a deletion.
TypeOK ==
  /\ pc \in {"started", "usage", "missing arguments", "serving", "selected", "parsed",
             "initialized", "aborted", "sent", "dismissed", "refused", "accepted"}
  /\ args \in CommandLines \cup {None}
  /\ peer \in {"unset", "given", "another"}
  /\ {client, server} \subseteq Operations \cup {None}

\* Every string of a request, its terminator included, lies in the bytes that
\* send_request_packet() allocates and sends, although it counts no terminator
\* for the mode: the spare bytes of sizeof(Packet_t) hold it.
RequestFits ==
  OfClient /\ pc = "sent"
  => Start(packet, Len(packet.strings) + 1) <= packet.bytes - OpcodeLen

\* The two ends of an operation do what belongs together, to the same file (if
\* its name is not too long) and with the same block size: a block that is
\* full at one end is full at the other, where a short one ends the transfer.
EndsAgree ==
  OfClient /\ pc = "accepted"
  => /\ <<client.op, server.op>> \in {<<"SEND", "RECEIVE">>, <<"RECEIVE", "SEND">>,
                                      <<"REQUEST_DELETE", "HANDLE_DELETE">>}
     /\ client.name <= TFTP_FILENAME_MAX => server.name = client.name
     /\ server.block = client.block

\* The server refuses nothing that the client has let through.
NothingRefused == OfClient => pc \notin {"refused", "dismissed"}

\* Whoever built the request, the server's block size is that of its first
\* option, cut to 16 bits: the parser's test of bytes_received neither misses an
\* option nor reads what is not there.  It is 512 if the first option is another,
\* if there is none, or if nothing is left of its number.  So a size of 65536 + n
\* is not rejected, as tftp_fill_transfer_data() promises for what exceeds the
\* range, but taken for n.
OptionHonoured ==
  pc = "accepted" /\ server.op \notin Deletes
  => LET strings == packet.strings
         size == IF Len(strings) >= 4 /\ strings[3] = Blksize THEN strings[4].num % 65536 ELSE 0
     IN  server.block = IF size = 0 THEN TFTP_BLKSIZE_DEFAULT ELSE size
=============================================================================
