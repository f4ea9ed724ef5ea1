------------------------------ MODULE Storage -------------------------------
(***************************************************************************)
(* One file name in the storage directory of the server, and the tasks of  *)
(* server_task_start() that work on it at the same time: uploads, downloads*)
(* and deletions.  Nothing but the file system orders them.                *)
(*                                                                         *)
(* An inode is named by the upload that created it.  Its content is a      *)
(* sequence of blocks, block i of upload u being <<u, i>>; a block is      *)
(* written or read as a whole.  What an upload hands to fwrite() stays in  *)
(* the stdio buffer of its stream until that is flushed.                   *)
(***************************************************************************)
EXTENDS Integers, Sequences

CONSTANTS
  Uploads, Downloads, Deletes,   \* the tasks, one per request
  Blocks,                        \* blocks of every uploaded file
  Faults                         \* the faults that may happen

FaultKinds ==
  { "open",       \* fopen() fails although it could succeed
    "remove",     \* remove() fails although the file is there
    "ack",        \* a buffer is not allocated, or sendto() of ACK 0 fails
    "receive",    \* tftp_receive_file() returns false
    "transmit",   \* tftp_transmit_file() returns false
    "exit" }      \* the process ends in the middle of its tasks, and starts again

None == "none"          \* no directory entry, no inode

ASSUME StorageAssumption ==
  /\ Blocks \in Nat \ {0}
  /\ Faults \subseteq FaultKinds
  /\ None \notin Uploads

Hole == <<None, 0>>     \* bytes between the end of a file and a write past it

AnyBlock == (Uploads \cup {None}) \X Nat

VARIABLES
  entry,        \* the inode the name refers to, or None
  file,         \* the content of every inode
  up,           \* the upload tasks: pc, inode, flushed and buffered blocks
  down,         \* the download tasks: pc, inode, what has been read
  del,          \* the delete tasks: pc and the inode removed
  overwrote,    \* history: fopen(..., "wb") met an existing file
  restarted     \* history: the process has ended and started again

vars == <<entry, file, up, down, del, overwrote, restarted>>

-----------------------------------------------------------------------------
(* Uploads: tftp_fill_transfer_data() and what follows the reception       *)

\* Whether fopen() for reading finds the file; it may fail for other reasons
\* than that there is none.
Finds == {entry # None} \cup (IF "open" \in Faults THEN {FALSE} ELSE {})

\* A path that can be opened for reading is refused ("File already exists!"),
\* any other is created.
CheckExists(u) ==
  /\ up[u].pc = "check"
  /\ \E found \in Finds :
       up' = [up EXCEPT ![u].pc = IF found THEN "refused" ELSE "create"]
  /\ UNCHANGED <<entry, file, down, del, overwrote, restarted>>

\* fopen(path, "wb") creates the file, or empties the one that is there.
Create(u) ==
  /\ up[u].pc = "create"
  /\ LET inode == IF entry = None THEN u ELSE entry IN
       /\ entry' = inode
       /\ file' = [file EXCEPT ![inode] = <<>>]
       /\ up' = [up EXCEPT ![u].pc = "acknowledge", ![u].inode = inode]
  /\ overwrote' = (overwrote \/ entry # None)
  /\ UNCHANGED <<down, del, restarted>>

CreateFails(u) ==
  /\ up[u].pc = "create"
  /\ "open" \in Faults
  /\ up' = [up EXCEPT ![u].pc = "notopened"]
  /\ UNCHANGED <<entry, file, down, del, overwrote, restarted>>

Acknowledge(u) ==
  /\ up[u].pc = "acknowledge"
  /\ up' = [up EXCEPT ![u].pc = "receive"]
  /\ UNCHANGED <<entry, file, down, del, overwrote, restarted>>

\* The file is open but the request is never acknowledged.
AcknowledgeFails(u) ==
  /\ up[u].pc = "acknowledge"
  /\ "ack" \in Faults
  /\ up' = [up EXCEPT ![u].pc = "unacked"]
  /\ UNCHANGED <<entry, file, down, del, overwrote, restarted>>

\* The content f after blocks from + 1 to upto of upload u are written at
\* their place.
Written(f, u, from, upto) ==
  [i \in 1 .. (IF upto > from /\ upto > Len(f) THEN upto ELSE Len(f)) |->
     IF i \in from + 1 .. upto THEN <<u, i>>
     ELSE IF i <= Len(f) THEN f[i] ELSE Hole]

\* Upload u flushes its stream up to a block and is left at pc.
Flushes(u, upto, total, pc) ==
  /\ file' = [file EXCEPT ![up[u].inode] = Written(@, u, up[u].flushed, upto)]
  /\ up' = [up EXCEPT ![u].flushed = upto, ![u].buffered = total - upto, ![u].pc = pc]

\* A block is received and handed to fwrite(), which may flush the stream as
\* far as it likes; the last block ends the reception.
ReceiveBlock(u) ==
  /\ up[u].pc = "receive"
  /\ LET total == up[u].flushed + up[u].buffered + 1 IN
       /\ total <= Blocks
       /\ \E upto \in up[u].flushed .. total :
            Flushes(u, upto, total, IF total = Blocks THEN "received" ELSE "receive")
  /\ UNCHANGED <<entry, down, del, overwrote, restarted>>

ReceiveFails(u) ==
  /\ up[u].pc = "receive"
  /\ "receive" \in Faults
  /\ up' = [up EXCEPT ![u].pc = "failed"]
  /\ UNCHANGED <<entry, file, down, del, overwrote, restarted>>

\* Mutant: the stream is freed without fclose().
Dropped(u) == up[u].flushed

\* Mutant: the stream is not set to NULL and is closed twice.
ClosedTwice(u) == up[u].flushed + 2 * up[u].buffered

\* fclose() flushes the stream.
ClosedUpto(u) == up[u].flushed + up[u].buffered

\* tftp_free_transfer_data() after a reception that succeeded, or after an
\* acknowledgement that failed.
Close(u) ==
  /\ up[u].pc \in {"received", "unacked"}
  /\ Flushes(u, ClosedUpto(u), ClosedUpto(u),
             IF up[u].pc = "received" THEN "stored" ELSE "abandoned")
  /\ UNCHANGED <<entry, down, del, overwrote, restarted>>

\* After a reception that failed: fclose(), ...
CloseFailed(u) ==
  /\ up[u].pc = "failed"
  /\ Flushes(u, ClosedUpto(u), ClosedUpto(u), "remove")
  /\ UNCHANGED <<entry, down, del, overwrote, restarted>>

\* Mutant: the partial file stays.
EntryKept == entry

\* remove(path) takes away whatever the name refers to.
EntryRemoved == None

\* ... then remove(), ...
RemovePartial(u) ==
  /\ up[u].pc = "remove"
  /\ entry' = EntryRemoved
  /\ up' = [up EXCEPT ![u].pc = "removed"]
  /\ UNCHANGED <<file, down, del, overwrote, restarted>>

\* ... whose result is not looked at.
RemovePartialFails(u) ==
  /\ up[u].pc = "remove"
  /\ "remove" \in Faults
  /\ up' = [up EXCEPT ![u].pc = "kept"]
  /\ UNCHANGED <<entry, file, down, del, overwrote, restarted>>

-----------------------------------------------------------------------------
(* Downloads: fopen(path, "rb") and the fread() loop                       *)

Open(d) ==
  /\ down[d].pc = "open"
  /\ \E found \in Finds :
       down' = IF found
               THEN [down EXCEPT ![d].pc = "read", ![d].inode = entry,
                                 ![d].stored = (up[entry].pc = "stored")]
               ELSE [down EXCEPT ![d].pc = "ended"]
  /\ UNCHANGED <<entry, file, up, del, overwrote, restarted>>

\* Mutant: fread() is called again before a block is sent again.
ReadBlockSkips(d) ==
  /\ down[d].pc = "read"
  /\ LET f == file[down[d].inode]
         n == Len(down[d].got) + 2
     IN down' = IF n <= Len(f) THEN [down EXCEPT ![d].got = Append(@, f[n])]
                               ELSE [down EXCEPT ![d].pc = "sent"]
  /\ UNCHANGED <<entry, file, up, del, overwrote, restarted>>

\* The next block, from wherever the stream stands; a read that returns
\* nothing is the end of the file.
ReadBlock(d) ==
  /\ down[d].pc = "read"
  /\ LET f == file[down[d].inode]
         n == Len(down[d].got) + 1
     IN down' = IF n <= Len(f) THEN [down EXCEPT ![d].got = Append(@, f[n])]
                               ELSE [down EXCEPT ![d].pc = "sent"]
  /\ UNCHANGED <<entry, file, up, del, overwrote, restarted>>

TransmitFails(d) ==
  /\ down[d].pc = "read"
  /\ "transmit" \in Faults
  /\ down' = [down EXCEPT ![d].pc = "ended"]
  /\ UNCHANGED <<entry, file, up, del, overwrote, restarted>>

-----------------------------------------------------------------------------
(* Deletions: server_delete_file()                                         *)

FindFile(x) ==
  /\ del[x].pc = "open"
  /\ \E found \in Finds :
       del' = [del EXCEPT ![x].pc = IF found THEN "remove" ELSE "ended"]
  /\ UNCHANGED <<entry, file, up, down, overwrote, restarted>>

\* Mutant: the result of remove() is not looked at.
RemoveIgnored == {TRUE}

\* remove() fails when the file has gone in the meantime, or for other reasons.
Removes == {entry # None} \cup (IF "remove" \in Faults THEN {FALSE} ELSE {})

RemoveFile(x) ==
  /\ del[x].pc = "remove"
  /\ \E removed \in Removes :
       IF removed
       THEN /\ entry' = None
            /\ del' = [del EXCEPT ![x].pc = "confirmed", ![x].inode = entry]
       ELSE /\ UNCHANGED entry
            /\ del' = [del EXCEPT ![x].pc = "ended"]
  /\ UNCHANGED <<file, up, down, overwrote, restarted>>

-----------------------------------------------------------------------------
(* The end of the process, by exit() in tftp_init_bound_data_socket() or   *)
(* from outside, and its next start                                        *)

\* The tasks that have not begun belong to requests that come later.
Waiting == {"check", "open"}

\* Where a task can do no more.
Over == {"refused", "notopened", "stored", "abandoned", "removed", "kept",
         "sent", "confirmed", "ended", "dead"}

\* What the streams have not flushed by now is lost; that exit() flushes them is
\* one of the flushes of ReceiveBlock.
\* server_init_storage_location() leaves alone what it finds.
Restart ==
  /\ "exit" \in Faults
  /\ ~ restarted
  /\ restarted' = TRUE
  /\ up' = [u \in Uploads |->
              IF up[u].pc \in Waiting \cup Over THEN up[u]
              ELSE [up[u] EXCEPT !.pc = "dead", !.buffered = 0]]
  /\ down' = [d \in Downloads |->
                IF down[d].pc \in Waiting \cup Over THEN down[d]
                ELSE [down[d] EXCEPT !.pc = "ended"]]
  /\ del' = [x \in Deletes |->
               IF del[x].pc \in Waiting \cup Over THEN del[x]
               ELSE [del[x] EXCEPT !.pc = "ended"]]
  /\ UNCHANGED <<entry, file, overwrote>>

-----------------------------------------------------------------------------
(* Specification                                                           *)

Init ==
  /\ entry = None
  /\ file = [u \in Uploads |-> <<>>]
  /\ up = [u \in Uploads |-> [pc |-> "check", inode |-> None, flushed |-> 0, buffered |-> 0]]
  /\ down = [d \in Downloads |-> [pc |-> "open", inode |-> None, stored |-> FALSE, got |-> <<>>]]
  /\ del = [x \in Deletes |-> [pc |-> "open", inode |-> None]]
  /\ overwrote = FALSE
  /\ restarted = FALSE

Upload(u) ==
  \/ CheckExists(u) \/ Create(u) \/ CreateFails(u)
  \/ Acknowledge(u) \/ AcknowledgeFails(u)
  \/ ReceiveBlock(u) \/ ReceiveFails(u)
  \/ Close(u) \/ CloseFailed(u) \/ RemovePartial(u) \/ RemovePartialFails(u)

Download(d) == Open(d) \/ ReadBlock(d) \/ TransmitFails(d)

Delete(x) == FindFile(x) \/ RemoveFile(x)

Next ==
  \/ \E u \in Uploads : Upload(u)
  \/ \E d \in Downloads : Download(d)
  \/ \E x \in Deletes : Delete(x)
  \/ Restart

Spec == Init /\ [][Next]_vars

-----------------------------------------------------------------------------
(* Properties                                                              *)

UploadType ==
  [pc : {"check", "refused", "create", "notopened", "acknowledge", "receive", "unacked",
         "received", "failed", "stored", "abandoned", "remove", "removed", "kept", "dead"},
   inode : Uploads \cup {None}, flushed : 0 .. Blocks, buffered : 0 .. Blocks]

DownloadType ==
  [pc : {"open", "read", "sent", "ended"},
   inode : Uploads \cup {None}, stored : BOOLEAN, got : Seq(AnyBlock)]

DeleteType ==
  [pc : {"open", "remove", "confirmed", "ended"}, inode : Uploads \cup {None}]

\* A file has at most Blocks blocks, each one or a hole at its place.
IsContent(f) ==
  /\ f \in Seq(AnyBlock)
  /\ Len(f) <= Blocks
  /\ \A i \in 1 .. Len(f) : f[i] \in (Uploads \X {i}) \cup {Hole}

\* The state variables keep their types; no file is longer than its source.
TypeOK ==
  /\ entry \in Uploads \cup {None}
  /\ DOMAIN file = Uploads
  /\ \A u \in Uploads : IsContent(file[u])
  /\ up \in [Uploads -> UploadType]
  /\ down \in [Downloads -> DownloadType]
  /\ \A d \in Downloads : Len(down[d].got) <= Blocks
  /\ del \in [Deletes -> DeleteType]
  /\ {overwrote, restarted} \subseteq BOOLEAN

\* A remove() that succeeds after a failed reception takes away the file that
\* reception has written, or finds it gone: whoever else creates, deletes and
\* creates the name meanwhile, the fragment is never in the directory again.
PartialIsUnlinked ==
  \A u \in Uploads : up[u].pc = "removed" => entry # up[u].inode

\* Unless fopen(path, "wb") met an existing file, everything a download
\* sends comes from one upload, in order and without a gap.
DownloadIsOneUpload ==
  ~ overwrote =>
    \A d \in Downloads : \A i \in 1 .. Len(down[d].got) :
      down[d].got[i] = <<down[d].inode, i>>

\* Under the same condition, a download that opens a file after the task of its
\* upload has closed it sends all of it, even if it is deleted meanwhile.
StoredIsReadWhole ==
  ~ overwrote =>
    \A d \in Downloads : down[d].pc = "sent" /\ down[d].stored => Len(down[d].got) = Blocks

\* Two deletions never confirm the removal of the same file.
ConfirmedOnce ==
  \A x, y \in Deletes :
    x # y /\ del[x].pc = "confirmed" /\ del[y].pc = "confirmed" =>
      del[x].inode # del[y].inode /\ del[x].inode # None

\* When all uploads are over, and unless fopen(path, "wb") met an existing file,
\* the directory has the beginning of one upload: all of it, or none of it if it
\* was never acknowledged.  A fragment is left in two ways only: remove() failed
\* on it, or its task died with the process.
DirectoryIsSettled ==
  ~ overwrote /\ entry # None /\ (\A u \in Uploads : up[u].pc \in Over) =>
    /\ \A i \in 1 .. Len(file[entry]) : file[entry][i] = <<entry, i>>
    /\ \/ up[entry].pc = "stored" /\ Len(file[entry]) = Blocks
       \/ up[entry].pc = "abandoned" /\ file[entry] = <<>>
       \/ up[entry].pc \in {"kept", "dead"}
=============================================================================
