---------------------------- MODULE StorageProofs ----------------------------
(***************************************************************************)
(* Theorems about Storage for all sets of uploads, downloads and deletes,  *)
(* every file length and every set of faults.                              *)
(*                                                                         *)
(* The argument: an inode belongs to one upload from its creation on       *)
(* (Inodes), so a name that has been removed never refers to the same      *)
(* inode again (Removed).  As long as no upload has opened the file of     *)
(* another one, an inode has a single writer, whose position is the length *)
(* of the file (Clean).                                                    *)
(***************************************************************************)
EXTENDS Storage, TLAPS

\* The inode has been created, by the upload it is named after.
IsInode(i) == i \in Uploads /\ up[i].inode = i

\* Every reference is to an inode that was created; an upload has one from
\* fopen() on and a download while it reads.
Inodes ==
  /\ entry # None => IsInode(entry)
  /\ \A u \in Uploads :
       /\ up[u].inode # None => IsInode(up[u].inode)
       /\ up[u].pc \in {"check", "refused", "create", "notopened"} => up[u].inode = None
       /\ up[u].inode = None => up[u].pc \in {"check", "refused", "create", "notopened", "dead"}
  /\ \A d \in Downloads :
       /\ down[d].inode # None => IsInode(down[d].inode)
       /\ down[d].pc \in {"read", "sent"} => down[d].inode # None
       /\ down[d].stored => down[d].inode # None /\ up[down[d].inode].pc = "stored"
  /\ \A x \in Deletes : del[x].inode # None => IsInode(del[x].inode)

\* How far a stream stands at each step of its task.
Offsets ==
  \A u \in Uploads :
    /\ up[u].flushed + up[u].buffered <= Blocks
    /\ up[u].pc \in {"check", "refused", "create", "notopened", "acknowledge",
                     "unacked", "abandoned"} => up[u].flushed = 0 /\ up[u].buffered = 0
    /\ up[u].pc = "received" => up[u].flushed + up[u].buffered = Blocks
    /\ up[u].pc = "stored" => up[u].flushed = Blocks

\* What was removed is out of the directory for good, and was removed once.
Removed ==
  /\ \A u \in Uploads : up[u].pc = "removed" => entry # up[u].inode
  /\ \A x \in Deletes : del[x].pc = "confirmed" => del[x].inode # None /\ entry # del[x].inode
  /\ ConfirmedOnce

\* While no two uploads have met, every file has one writer, which has written
\* its first blocks, and everything read from it is a part of that.
Clean ==
  ~ overwrote =>
    /\ \A u \in Uploads :
         /\ up[u].inode \in {None, u}
         /\ Len(file[u]) = up[u].flushed
         /\ \A i \in 1 .. Len(file[u]) : file[u][i] = <<u, i>>
    /\ \A d \in Downloads : down[d].pc = "open" => down[d].got = <<>>
    /\ DownloadIsOneUpload
    /\ StoredIsReadWhole

IInv == TypeOK /\ Inodes /\ Offsets /\ Removed /\ Clean

-----------------------------------------------------------------------------

\* What a flush leaves in a file: its length, and where each block comes from.
LEMMA WrittenFile ==
  ASSUME NEW f \in Seq(AnyBlock), NEW u \in Uploads,
         NEW from \in Nat, NEW upto \in Nat, from <= upto
  PROVE  /\ Written(f, u, from, upto) \in Seq(AnyBlock)
         /\ Len(Written(f, u, from, upto)) =
              IF upto > from /\ upto > Len(f) THEN upto ELSE Len(f)
         /\ \A i \in 1 .. Len(Written(f, u, from, upto)) :
              Written(f, u, from, upto)[i] =
                IF i \in from + 1 .. upto THEN <<u, i>>
                ELSE IF i <= Len(f) THEN f[i] ELSE Hole
<1> DEFINE n == IF upto > from /\ upto > Len(f) THEN upto ELSE Len(f)
           val(i) == IF i \in from + 1 .. upto THEN <<u, i>>
                     ELSE IF i <= Len(f) THEN f[i] ELSE Hole
<1>1. n \in Nat
  OBVIOUS
<1>2. \A i \in 1 .. n : val(i) \in AnyBlock
  BY DEF AnyBlock, Hole
<1> HIDE DEF n, val
<1>3. [i \in 1 .. n |-> val(i)] \in Seq(AnyBlock)
  BY <1>1, <1>2
<1>4. Written(f, u, from, upto) = [i \in 1 .. n |-> val(i)]
  BY DEF Written, n, val
<1>5. Len([i \in 1 .. n |-> val(i)]) = n
  BY <1>1, <1>3
<1> QED
  BY <1>1, <1>3, <1>4, <1>5 DEF n, val

\* ... which is a content again.
LEMMA WrittenContent ==
  ASSUME NEW f, IsContent(f), NEW u \in Uploads,
         NEW from \in Nat, NEW upto \in Nat, from <= upto, upto <= Blocks
  PROVE  IsContent(Written(f, u, from, upto))
<1> DEFINE w == Written(f, u, from, upto)
<1>1. f \in Seq(AnyBlock) /\ Len(f) \in Nat /\ Len(f) <= Blocks
  BY DEF IsContent
<1>2. /\ w \in Seq(AnyBlock)
      /\ Len(w) = IF upto > from /\ upto > Len(f) THEN upto ELSE Len(f)
      /\ \A i \in 1 .. Len(w) : w[i] = IF i \in from + 1 .. upto THEN <<u, i>>
                                       ELSE IF i <= Len(f) THEN f[i] ELSE Hole
  BY <1>1, WrittenFile
<1> HIDE DEF w
<1>3. ASSUME NEW i \in 1 .. Len(w)
      PROVE  w[i] \in (Uploads \X {i}) \cup {Hole}
  <2>1. i \in Nat
    BY <1>2
  <2>2. i <= Len(f) => f[i] \in (Uploads \X {i}) \cup {Hole}
    BY <1>1, <2>1, <1>3 DEF IsContent
  <2>3. <<u, i>> \in Uploads \X {i}
    OBVIOUS
  <2>4. w[i] = <<u, i>> \/ w[i] = Hole \/ (i <= Len(f) /\ w[i] = f[i])
    BY <1>2, <1>3
  <2> QED
    BY <2>2, <2>3, <2>4
<1>4. Len(w) <= Blocks
  BY <1>1, <1>2
<1> QED
  BY <1>2, <1>3, <1>4 DEF IsContent, w

\* The fields of a record that is typed, one by one.
LEMMA UploadFields ==
  ASSUME NEW r \in UploadType
  PROVE  /\ r.inode \in Uploads \cup {None}
         /\ r.flushed \in Nat /\ r.buffered \in Nat
         /\ r.flushed <= Blocks /\ r.buffered <= Blocks
BY StorageAssumption DEF UploadType

\* A flush up to a block within the file keeps the types.
LEMMA FlushTyped ==
  ASSUME TypeOK, NEW u \in Uploads, up[u].inode \in Uploads,
         NEW upto \in Nat, NEW total \in Nat,
         up[u].flushed <= upto, upto <= total, total <= Blocks,
         NEW pc \in {"receive", "received", "stored", "abandoned", "remove"},
         Flushes(u, upto, total, pc),
         UNCHANGED <<entry, down, del, overwrote, restarted>>
  PROVE  TypeOK'
<1> DEFINE i == up[u].inode
           w == Written(file[i], u, up[u].flushed, upto)
<1>1. up[u] \in UploadType /\ up[u].flushed \in Nat /\ IsContent(file[i])
  BY UploadFields DEF TypeOK
<1>2. IsContent(w)
  BY <1>1, WrittenContent, StorageAssumption
<1>3. file' = [file EXCEPT ![i] = w]
  BY DEF Flushes
<1>4. DOMAIN file' = Uploads /\ \A v \in Uploads : IsContent(file'[v])
  BY <1>2, <1>3 DEF TypeOK
<1>5. upto \in 0 .. Blocks /\ total - upto \in 0 .. Blocks
  BY StorageAssumption
<1>6. [up[u] EXCEPT !.flushed = upto, !.buffered = total - upto, !.pc = pc] \in UploadType
  BY <1>1, <1>5 DEF UploadType
<1>7. up' \in [Uploads -> UploadType]
  BY <1>6 DEF TypeOK, Flushes
<1> QED
  BY <1>4, <1>7 DEF TypeOK

\* An upload has an inode from fopen() on.
LEMMA HasInode ==
  ASSUME TypeOK, Inodes, NEW u \in Uploads,
         up[u].pc \notin {"check", "refused", "create", "notopened", "dead"}
  PROVE  up[u].inode \in Uploads /\ up[u].inode # None
BY UploadFields DEF TypeOK, Inodes

\* A download that reads has a file open.
LEMMA Reads ==
  ASSUME TypeOK, Inodes, NEW d \in Downloads, down[d].pc = "read"
  PROVE  down[d].inode \in Uploads /\ IsContent(file[down[d].inode])
BY DEF TypeOK, Inodes, DownloadType

-----------------------------------------------------------------------------

\* Every step keeps the types.
LEMMA TypeStep ==
  ASSUME TypeOK, Inodes, Offsets, [Next]_vars
  PROVE  TypeOK'
<1>1. ASSUME NEW u \in Uploads, Upload(u)
      PROVE  TypeOK'
  <2>0. up[u] \in UploadType /\ up[u].flushed \in Nat /\ up[u].buffered \in Nat
    BY UploadFields DEF TypeOK
  <2>1. CASE CheckExists(u) \/ CreateFails(u) \/ Acknowledge(u) \/ AcknowledgeFails(u)
             \/ ReceiveFails(u) \/ RemovePartialFails(u)
    <3>1. PICK p \in {"refused", "create", "notopened", "receive", "unacked", "failed", "kept"} :
            up' = [up EXCEPT ![u].pc = p]
      BY <2>1 DEF CheckExists, CreateFails, Acknowledge, AcknowledgeFails, ReceiveFails,
         RemovePartialFails
    <3>2. [up[u] EXCEPT !.pc = p] \in UploadType
      BY <2>0 DEF UploadType
    <3>3. up' \in [Uploads -> UploadType]
      BY <3>1, <3>2 DEF TypeOK
    <3>4. UNCHANGED <<entry, file, down, del, overwrote, restarted>>
      BY <2>1 DEF CheckExists, CreateFails, Acknowledge, AcknowledgeFails, ReceiveFails,
         RemovePartialFails
    <3> QED
      BY <3>3, <3>4 DEF TypeOK
  <2>2. CASE Create(u)
    <3> DEFINE i == IF entry = None THEN u ELSE entry
    <3>1. i \in Uploads
      BY DEF TypeOK
    <3>2. IsContent(<<>>)
      BY StorageAssumption DEF IsContent
    <3>3. [up[u] EXCEPT !.pc = "acknowledge", !.inode = i] \in UploadType
      BY <2>0, <3>1 DEF UploadType
    <3>4. /\ entry' = i
          /\ file' = [file EXCEPT ![i] = <<>>]
          /\ up' = [up EXCEPT ![u].pc = "acknowledge", ![u].inode = i]
          /\ overwrote' = (overwrote \/ entry # None)
          /\ UNCHANGED <<down, del, restarted>>
      BY <2>2 DEF Create
    <3> HIDE DEF i
    <3>5. DOMAIN file' = Uploads /\ \A v \in Uploads : IsContent(file'[v])
      BY <3>2, <3>4 DEF TypeOK
    <3>6. up' \in [Uploads -> UploadType]
      BY <3>3, <3>4 DEF TypeOK
    <3> QED
      BY <3>1, <3>4, <3>5, <3>6 DEF TypeOK
  <2>3. CASE ReceiveBlock(u)
    <3> DEFINE total == up[u].flushed + up[u].buffered + 1
    <3>1. PICK upto \in up[u].flushed .. total :
            Flushes(u, upto, total, IF total = Blocks THEN "received" ELSE "receive")
      BY <2>3 DEF ReceiveBlock
    <3>2. up[u].inode \in Uploads
      BY <2>3, HasInode DEF ReceiveBlock
    <3>3. /\ total \in Nat /\ total <= Blocks
          /\ UNCHANGED <<entry, down, del, overwrote, restarted>>
      BY <2>0, <2>3 DEF ReceiveBlock
    <3>4. upto \in Nat /\ up[u].flushed <= upto /\ upto <= total
      BY <2>0, <3>1, <3>3
    <3> HIDE DEF total
    <3> QED
      BY <3>1, <3>2, <3>3, <3>4, FlushTyped
  <2>4. CASE Close(u) \/ CloseFailed(u)
    <3>1. up[u].inode \in Uploads
      BY <2>4, HasInode DEF Close, CloseFailed
    <3>2. ClosedUpto(u) \in Nat /\ up[u].flushed <= ClosedUpto(u) /\ ClosedUpto(u) <= Blocks
      BY <2>0 DEF ClosedUpto, Offsets
    <3>3. PICK p \in {"stored", "abandoned", "remove"} :
            Flushes(u, ClosedUpto(u), ClosedUpto(u), p)
      BY <2>4 DEF Close, CloseFailed
    <3>4. UNCHANGED <<entry, down, del, overwrote, restarted>>
      BY <2>4 DEF Close, CloseFailed
    <3> QED
      BY <3>1, <3>2, <3>3, <3>4, FlushTyped
  <2>5. CASE RemovePartial(u)
    <3>1. [up[u] EXCEPT !.pc = "removed"] \in UploadType
      BY <2>0 DEF UploadType
    <3> QED
      BY <2>5, <3>1 DEF RemovePartial, EntryRemoved, TypeOK
  <2> QED
    BY <1>1, <2>1, <2>2, <2>3, <2>4, <2>5 DEF Upload
<1>2. ASSUME NEW d \in Downloads, Download(d)
      PROVE  TypeOK'
  <2>0. /\ down[d] \in DownloadType
        /\ down[d].inode \in Uploads \cup {None}
        /\ down[d].got \in Seq(AnyBlock)
        /\ Len(down[d].got) <= Blocks
    BY DEF TypeOK, DownloadType
  <2>1. UNCHANGED <<entry, file, up, del, overwrote, restarted>>
    BY <1>2 DEF Download, Open, ReadBlock, TransmitFails
  <2>2. \E r \in DownloadType : Len(r.got) <= Blocks /\ down' = [down EXCEPT ![d] = r]
    <3>1. CASE Open(d)
      <4> DEFINE r == [down[d] EXCEPT !.pc = "read", !.inode = entry,
                                      !.stored = (up[entry].pc = "stored")]
                 s == [down[d] EXCEPT !.pc = "ended"]
      <4>1. r \in DownloadType /\ s \in DownloadType
        BY <2>0 DEF TypeOK, DownloadType
      <4>2. r.got = down[d].got /\ s.got = down[d].got
        BY <2>0 DEF DownloadType
      <4>3. down' = [down EXCEPT ![d] = r] \/ down' = [down EXCEPT ![d] = s]
        BY <3>1 DEF Open
      <4> QED
        BY <2>0, <4>1, <4>2, <4>3
    <3>2. CASE TransmitFails(d)
      <4> DEFINE r == [down[d] EXCEPT !.pc = "ended"]
      <4>1. r \in DownloadType /\ r.got = down[d].got
        BY <2>0 DEF DownloadType
      <4>2. down' = [down EXCEPT ![d] = r]
        BY <3>2 DEF TransmitFails
      <4> QED
        BY <2>0, <4>1, <4>2
    <3>3. CASE ReadBlock(d)
      <4> DEFINE f == file[down[d].inode]
                 n == Len(down[d].got) + 1
      <4>1. n \in Nat \ {0}
        BY <2>0
      <4>2. CASE n <= Len(f)
        <5> DEFINE r == [down[d] EXCEPT !.got = Append(@, f[n])]
        <5>1. IsContent(f)
          BY <3>3, Reads DEF ReadBlock
        <5>2. f[n] \in AnyBlock /\ n <= Blocks
          BY <4>1, <4>2, <5>1, StorageAssumption DEF IsContent
        <5>3. /\ Append(down[d].got, f[n]) \in Seq(AnyBlock)
              /\ Len(Append(down[d].got, f[n])) <= Blocks
          BY <2>0, <5>2
        <5>4. r \in DownloadType /\ r.got = Append(down[d].got, f[n])
          BY <2>0, <5>3 DEF DownloadType
        <5>5. down' = [down EXCEPT ![d] = r]
          BY <3>3, <4>2 DEF ReadBlock
        <5> QED
          BY <5>3, <5>4, <5>5
      <4>3. CASE ~ (n <= Len(f))
        <5> DEFINE r == [down[d] EXCEPT !.pc = "sent"]
        <5>1. r \in DownloadType /\ r.got = down[d].got
          BY <2>0 DEF DownloadType
        <5>2. down' = [down EXCEPT ![d] = r]
          BY <3>3, <4>3 DEF ReadBlock
        <5> QED
          BY <2>0, <5>1, <5>2
      <4> QED
        BY <4>2, <4>3
    <3> QED
      BY <1>2, <3>1, <3>2, <3>3 DEF Download
  <2> QED
    BY <2>1, <2>2 DEF TypeOK
<1>3. ASSUME NEW x \in Deletes, Delete(x)
      PROVE  TypeOK'
  <2>1. CASE FindFile(x)
    <3>1. del' \in [Deletes -> DeleteType]
      BY <2>1 DEF FindFile, TypeOK, DeleteType
    <3> QED
      BY <2>1, <3>1 DEF FindFile, TypeOK
  <2>2. CASE RemoveFile(x)
    <3>1. del' \in [Deletes -> DeleteType]
      BY <2>2 DEF RemoveFile, TypeOK, DeleteType
    <3> QED
      BY <2>2, <3>1 DEF RemoveFile, TypeOK
  <2> QED
    BY <1>3, <2>1, <2>2 DEF Delete
<1>4. CASE Restart
  <2>1. up' \in [Uploads -> UploadType]
    <3>1. ASSUME NEW u \in Uploads
          PROVE  up'[u] \in UploadType
      <4>1. up[u] \in UploadType /\ 0 \in 0 .. Blocks
        BY StorageAssumption DEF TypeOK
      <4>2. [up[u] EXCEPT !.pc = "dead", !.buffered = 0] \in UploadType
        BY <4>1 DEF UploadType
      <4> QED
        BY <1>4, <4>1, <4>2 DEF Restart
    <3> QED
      BY <1>4, <3>1 DEF Restart
  <2>2. down' \in [Downloads -> DownloadType] /\ \A d \in Downloads : Len(down'[d].got) <= Blocks
    <3>1. ASSUME NEW d \in Downloads
          PROVE  down'[d] \in DownloadType /\ Len(down'[d].got) <= Blocks
      <4>1. down[d] \in DownloadType /\ Len(down[d].got) <= Blocks
        BY DEF TypeOK
      <4>2. LET r == [down[d] EXCEPT !.pc = "ended"] IN r \in DownloadType /\ r.got = down[d].got
        BY <4>1 DEF DownloadType
      <4> QED
        BY <1>4, <4>1, <4>2 DEF Restart
    <3> QED
      BY <1>4, <3>1 DEF Restart
  <2>3. del' \in [Deletes -> DeleteType]
    BY <1>4 DEF Restart, TypeOK, DeleteType
  <2> QED
    BY <1>4, <2>1, <2>2, <2>3 DEF Restart, TypeOK
<1>5. CASE UNCHANGED vars
  BY <1>5 DEF vars, TypeOK
<1> QED
  BY <1>1, <1>2, <1>3, <1>4, <1>5 DEF Next

-----------------------------------------------------------------------------

\* Where an upload has no inode yet.
Early == {"check", "refused", "create", "notopened"}

\* Apart from fopen(), a step of an upload leaves all inodes as they are, and
\* takes its task from one early place to another or from one late place to
\* another.
LEMMA UploadKeepsInodes ==
  ASSUME TypeOK, NEW u \in Uploads, Upload(u), ~ Create(u)
  PROVE  /\ DOMAIN up' = Uploads
         /\ \A v \in Uploads : up'[v].inode = up[v].inode
         /\ \A v \in Uploads : v # u => up'[v] = up[v]
         /\ up[u].pc \notin {"stored", "dead"} /\ up'[u].pc # "dead"
         /\ up[u].pc \in Early <=> up'[u].pc \in Early
         /\ entry' \in {entry, None}
         /\ UNCHANGED <<down, del, overwrote>>
<1>1. CASE CheckExists(u) \/ CreateFails(u) \/ Acknowledge(u) \/ AcknowledgeFails(u)
           \/ ReceiveFails(u) \/ RemovePartialFails(u)
  BY <1>1 DEF CheckExists, CreateFails, Acknowledge, AcknowledgeFails, ReceiveFails,
     RemovePartialFails, TypeOK, UploadType, Early
<1>2. CASE ReceiveBlock(u)
  <2>1. PICK upto, total :
          Flushes(u, upto, total, IF total = Blocks THEN "received" ELSE "receive")
    BY <1>2 DEF ReceiveBlock
  <2> QED
    BY <1>2, <2>1 DEF ReceiveBlock, Flushes, TypeOK, UploadType, Early
<1>3. CASE Close(u) \/ CloseFailed(u)
  BY <1>3 DEF Close, CloseFailed, Flushes, TypeOK, UploadType, Early
<1>4. CASE RemovePartial(u)
  BY <1>4 DEF RemovePartial, EntryRemoved, TypeOK, UploadType, Early
<1> QED
  BY <1>1, <1>2, <1>3, <1>4 DEF Upload

\* What fopen(path, "wb") does when it succeeds.
LEMMA CreateEffect ==
  ASSUME TypeOK, Inodes, NEW u \in Uploads, Create(u)
  PROVE  /\ entry' \in Uploads /\ entry' = IF entry = None THEN u ELSE entry
         /\ up[u].pc = "create" /\ up[u].inode = None
         /\ up'[u] = [up[u] EXCEPT !.pc = "acknowledge", !.inode = entry']
         /\ up'[u].pc = "acknowledge" /\ up'[u].inode = entry'
         /\ up'[u].flushed = up[u].flushed /\ up'[u].buffered = up[u].buffered
         /\ \A v \in Uploads : v # u => up'[v] = up[v]
         /\ file' = [file EXCEPT ![entry'] = <<>>]
         /\ overwrote' = (overwrote \/ entry # None)
         /\ UNCHANGED <<down, del>>
BY DEF Create, TypeOK, UploadType, Inodes

\* What the process leaves of its tasks when it ends.
LEMMA RestartEffect ==
  ASSUME TypeOK, Restart
  PROVE  /\ \A v \in Uploads :
              \/ up'[v] = up[v]
              \/ /\ up[v].pc \notin Over /\ up'[v].pc = "dead"
                 /\ up'[v].inode = up[v].inode
                 /\ up'[v].flushed = up[v].flushed /\ up'[v].buffered = 0
         /\ \A d \in Downloads :
              \/ down'[d] = down[d]
              \/ /\ down'[d].pc = "ended" /\ down'[d].inode = down[d].inode
                 /\ down'[d].stored = down[d].stored /\ down'[d].got = down[d].got
         /\ \A x \in Deletes :
              \/ del'[x] = del[x]
              \/ del'[x].pc = "ended" /\ del'[x].inode = del[x].inode
         /\ UNCHANGED <<entry, file, overwrote>>
<1>1. ASSUME NEW v \in Uploads
      PROVE  \/ up'[v] = up[v]
             \/ /\ up[v].pc \notin Over /\ up'[v].pc = "dead"
                /\ up'[v].inode = up[v].inode
                /\ up'[v].flushed = up[v].flushed /\ up'[v].buffered = 0
  BY DEF Restart, TypeOK, UploadType
<1>2. ASSUME NEW d \in Downloads
      PROVE  \/ down'[d] = down[d]
             \/ /\ down'[d].pc = "ended" /\ down'[d].inode = down[d].inode
                /\ down'[d].stored = down[d].stored /\ down'[d].got = down[d].got
  BY DEF Restart, TypeOK, DownloadType
<1>3. ASSUME NEW x \in Deletes
      PROVE  \/ del'[x] = del[x]
             \/ del'[x].pc = "ended" /\ del'[x].inode = del[x].inode
  BY DEF Restart, TypeOK, DeleteType
<1> QED
  BY <1>1, <1>2, <1>3 DEF Restart

\* A step of a download reads; one of a deletion may take the entry away.
LEMMA DownloadEffect ==
  ASSUME TypeOK, NEW d \in Downloads, Download(d)
  PROVE  /\ UNCHANGED <<entry, file, up, del, overwrote>>
         /\ \A e \in Downloads : e # d => down'[e] = down[e]
         /\ \/ /\ down[d].pc = "open" /\ down'[d].inode = entry /\ down'[d].got = down[d].got
               /\ down'[d].pc = "read" /\ entry # None
               /\ down'[d].stored = (up[entry].pc = "stored")
            \/ /\ down[d].pc = "open" /\ down'[d].pc = "ended" /\ down'[d].got = down[d].got
               /\ down'[d].inode = down[d].inode /\ down'[d].stored = down[d].stored
            \/ /\ down[d].pc = "read" /\ down'[d].pc \in {"read", "sent", "ended"}
               /\ down'[d].inode = down[d].inode /\ down'[d].stored = down[d].stored
<1>1. CASE Open(d)
  <2>1. PICK found \in Finds :
          down' = IF found
                  THEN [down EXCEPT ![d].pc = "read", ![d].inode = entry,
                                    ![d].stored = (up[entry].pc = "stored")]
                  ELSE [down EXCEPT ![d].pc = "ended"]
    BY <1>1 DEF Open
  <2>2. found => entry # None
    BY <2>1 DEF Finds
  <2> QED
    BY <1>1, <2>1, <2>2 DEF Open, TypeOK, DownloadType
<1>2. CASE ReadBlock(d) \/ TransmitFails(d)
  BY <1>2 DEF ReadBlock, TransmitFails, TypeOK, DownloadType
<1> QED
  BY <1>1, <1>2 DEF Download

\* A deletion removes the entry at most, and is confirmed only if it did so itself.
LEMMA DeleteEffect ==
  ASSUME TypeOK, NEW x \in Deletes, Delete(x)
  PROVE  /\ UNCHANGED <<file, up, down, overwrote>>
         /\ entry' \in {entry, None}
         /\ \A y \in Deletes : y # x => del'[y] = del[y]
         /\ \/ del'[x].pc \in {"ended", "remove"} /\ del'[x].inode \in {entry, del[x].inode}
            \/ del'[x].pc = "confirmed" /\ del'[x].inode = entry /\ entry # None /\ entry' = None
<1>1. CASE FindFile(x)
  <2>1. PICK found \in Finds :
          del' = [del EXCEPT ![x].pc = IF found THEN "remove" ELSE "ended"]
    BY <1>1 DEF FindFile
  <2> QED
    BY <1>1, <2>1 DEF FindFile, TypeOK, DeleteType
<1>2. CASE RemoveFile(x)
  <2>1. PICK removed \in Removes :
          IF removed
          THEN /\ entry' = None
               /\ del' = [del EXCEPT ![x].pc = "confirmed", ![x].inode = entry]
          ELSE /\ UNCHANGED entry
               /\ del' = [del EXCEPT ![x].pc = "ended"]
    BY <1>2 DEF RemoveFile
  <2>2. removed => entry # None
    BY <2>1 DEF Removes
  <2> QED
    BY <1>2, <2>1, <2>2 DEF RemoveFile, TypeOK, DeleteType
<1> QED
  BY <1>1, <1>2 DEF Delete

-----------------------------------------------------------------------------

\* Once created, an inode belongs to its upload.
LEMMA InodeStays ==
  ASSUME TypeOK, Inodes, [Next]_vars, NEW i, IsInode(i)
  PROVE  IsInode(i)'
<1>1. i \in Uploads /\ up[i].inode = i /\ i # None
  BY StorageAssumption DEF IsInode
<1>2. up'[i].inode = up[i].inode
  <2>1. ASSUME NEW u \in Uploads, Upload(u)
        PROVE  up'[i].inode = up[i].inode
    BY <1>1, <2>1, UploadKeepsInodes, CreateEffect
  <2>2. ASSUME NEW d \in Downloads, Download(d)
        PROVE  up'[i].inode = up[i].inode
    BY <2>2, DownloadEffect
  <2>3. ASSUME NEW x \in Deletes, Delete(x)
        PROVE  up'[i].inode = up[i].inode
    BY <2>3, DeleteEffect
  <2>4. CASE Restart
    BY <1>1, <2>4, RestartEffect
  <2>5. CASE UNCHANGED vars
    BY <2>5 DEF vars
  <2> QED
    BY <2>1, <2>2, <2>3, <2>4, <2>5 DEF Next
<1> QED
  BY <1>1, <1>2 DEF IsInode

\* An upload that has been stored stays so.
LEMMA StoredStays ==
  ASSUME TypeOK, Inodes, [Next]_vars, NEW u \in Uploads, up[u].pc = "stored"
  PROVE  up'[u].pc = "stored"
<1>1. ASSUME NEW v \in Uploads, Upload(v)
      PROVE  up'[u].pc = "stored"
  BY <1>1, UploadKeepsInodes, CreateEffect
<1>2. ASSUME NEW d \in Downloads, Download(d)
      PROVE  up'[u].pc = "stored"
  BY <1>2, DownloadEffect
<1>3. ASSUME NEW x \in Deletes, Delete(x)
      PROVE  up'[u].pc = "stored"
  BY <1>3, DeleteEffect
<1>4. CASE Restart
  BY <1>4, RestartEffect DEF Over
<1>5. CASE UNCHANGED vars
  BY <1>5 DEF vars
<1> QED
  BY <1>1, <1>2, <1>3, <1>4, <1>5 DEF Next

\* The entry is none, or it stays, or a new upload has created it.
LEMMA EntryStep ==
  ASSUME TypeOK, Inodes, [Next]_vars
  PROVE  \/ entry' \in {entry, None}
         \/ /\ entry = None /\ entry' \in Uploads /\ up'[entry'].inode = entry'
            /\ up[entry'].inode = None
<1>1. ASSUME NEW v \in Uploads, Upload(v)
      PROVE  \/ entry' \in {entry, None}
             \/ /\ entry = None /\ entry' \in Uploads /\ up'[entry'].inode = entry'
                /\ up[entry'].inode = None
  <2>1. CASE Create(v)
    BY <2>1, CreateEffect
  <2>2. CASE ~ Create(v)
    BY <1>1, <2>2, UploadKeepsInodes
  <2> QED
    BY <2>1, <2>2
<1>2. ASSUME NEW d \in Downloads, Download(d)
      PROVE  entry' = entry
  BY <1>2, DownloadEffect
<1>3. ASSUME NEW x \in Deletes, Delete(x)
      PROVE  entry' \in {entry, None}
  BY <1>3, DeleteEffect
<1>4. CASE Restart
  BY <1>4, RestartEffect
<1>5. CASE UNCHANGED vars
  BY <1>5 DEF vars
<1> QED
  BY <1>1, <1>2, <1>3, <1>4, <1>5 DEF Next

\* Every step keeps the references to inodes in order.
LEMMA InodesStep ==
  ASSUME TypeOK, Inodes, [Next]_vars
  PROVE  Inodes'
<1>1. entry' # None => IsInode(entry)'
  BY EntryStep, InodeStays, StorageAssumption DEF Inodes, IsInode
<1>2. ASSUME NEW v \in Uploads
      PROVE  /\ up'[v].inode # None => IsInode(up[v].inode)'
             /\ up'[v].pc \in Early => up'[v].inode = None
             /\ up'[v].inode = None => up'[v].pc \in Early \cup {"dead"}
  <2>0. /\ up[v].inode # None => IsInode(up[v].inode) /\ up'[up[v].inode].inode = up[v].inode
        /\ up[v].pc \in Early => up[v].inode = None
        /\ up[v].inode = None => up[v].pc \in Early \cup {"dead"}
        /\ up[v].inode # None => up[v].inode \in Uploads
    BY InodeStays DEF Inodes, IsInode, Early
  <2>1. ASSUME NEW u \in Uploads, Upload(u)
        PROVE  /\ up'[v].inode # None => IsInode(up[v].inode)'
               /\ up'[v].pc \in Early => up'[v].inode = None
               /\ up'[v].inode = None => up'[v].pc \in Early \cup {"dead"}
    <3>1. CASE Create(u)
      BY <1>1, <2>0, <3>1, CreateEffect, StorageAssumption DEF IsInode, Early
    <3>2. CASE ~ Create(u)
      BY <2>0, <2>1, <3>2, UploadKeepsInodes DEF IsInode
    <3> QED
      BY <3>1, <3>2
  <2>2. ASSUME NEW d \in Downloads, Download(d)
        PROVE  up'[v] = up[v]
    BY <2>2, DownloadEffect
  <2>3. ASSUME NEW x \in Deletes, Delete(x)
        PROVE  up'[v] = up[v]
    BY <2>3, DeleteEffect
  <2>4. CASE Restart
    BY <2>0, <2>4, RestartEffect DEF IsInode, Early, Over
  <2>5. CASE UNCHANGED vars
    BY <2>0, <2>5 DEF vars, IsInode
  <2>6. CASE up'[v] = up[v]
    BY <2>0, <2>6 DEF IsInode
  <2> QED
    BY <2>1, <2>2, <2>3, <2>4, <2>5, <2>6 DEF Next
<1>3. ASSUME NEW d \in Downloads
      PROVE  /\ down'[d].inode # None => IsInode(down[d].inode)'
             /\ down'[d].pc \in {"read", "sent"} => down'[d].inode # None
             /\ down'[d].stored => down'[d].inode # None /\ up'[down'[d].inode].pc = "stored"
  <2>0. /\ down[d].inode # None => IsInode(down[d].inode) /\ up'[down[d].inode].inode = down[d].inode
        /\ down[d].pc \in {"read", "sent"} => down[d].inode # None
        /\ down[d].stored => down[d].inode # None /\ up'[down[d].inode].pc = "stored"
        /\ entry # None => entry \in Uploads /\ up'[entry].inode = entry
    BY InodeStays, StoredStays DEF Inodes, IsInode
  <2>1. CASE down'[d] = down[d]
    BY <2>0, <2>1 DEF IsInode
  <2>2. CASE Download(d)
    <3>1. UNCHANGED up
      BY <2>2, DownloadEffect
    <3>2. CASE /\ down'[d].inode = entry /\ entry # None
               /\ down'[d].stored = (up[entry].pc = "stored")
      BY <2>0, <3>1, <3>2 DEF IsInode
    <3>3. CASE /\ down[d].pc = "read" \/ down'[d].pc = "ended"
               /\ down'[d].inode = down[d].inode
               /\ down'[d].stored = down[d].stored
      BY <2>0, <3>1, <3>3 DEF IsInode
    <3> QED
      BY <2>2, <3>2, <3>3, DownloadEffect
  <2>3. CASE Restart
    BY <2>0, <2>3, RestartEffect DEF IsInode
  <2>4. ASSUME NEW u \in Uploads, Upload(u)
        PROVE  down'[d] = down[d]
    BY <2>4, UploadKeepsInodes, CreateEffect
  <2>5. ASSUME NEW e \in Downloads, Download(e), e # d
        PROVE  down'[d] = down[d]
    BY <2>5, DownloadEffect
  <2>6. ASSUME NEW x \in Deletes, Delete(x)
        PROVE  down'[d] = down[d]
    BY <2>6, DeleteEffect
  <2>7. CASE UNCHANGED vars
    BY <2>1, <2>7 DEF vars
  <2> QED
    BY <2>1, <2>2, <2>3, <2>4, <2>5, <2>6, <2>7 DEF Next
<1>4. ASSUME NEW y \in Deletes
      PROVE  del'[y].inode # None => IsInode(del[y].inode)'
  <2>0. /\ del[y].inode # None => IsInode(del[y].inode) /\ up'[del[y].inode].inode = del[y].inode
        /\ entry # None => entry \in Uploads /\ up'[entry].inode = entry
    BY InodeStays DEF Inodes, IsInode
  <2>1. CASE del'[y] = del[y]
    BY <2>0, <2>1 DEF IsInode
  <2>2. CASE Delete(y)
    BY <2>0, <2>2, DeleteEffect DEF IsInode
  <2>3. CASE Restart
    BY <2>0, <2>3, RestartEffect DEF IsInode
  <2>4. ASSUME NEW u \in Uploads, Upload(u)
        PROVE  del'[y] = del[y]
    BY <2>4, UploadKeepsInodes, CreateEffect
  <2>5. ASSUME NEW d \in Downloads, Download(d)
        PROVE  del'[y] = del[y]
    BY <2>5, DownloadEffect
  <2>6. ASSUME NEW x \in Deletes, Delete(x), x # y
        PROVE  del'[y] = del[y]
    BY <2>6, DeleteEffect
  <2>7. CASE UNCHANGED vars
    BY <2>1, <2>7 DEF vars
  <2> QED
    BY <2>1, <2>2, <2>3, <2>4, <2>5, <2>6, <2>7 DEF Next
<1> QED
  BY <1>1, <1>2, <1>3, <1>4 DEF Inodes, Early

\* Every step keeps the positions of the streams.
LEMMA OffsetsStep ==
  ASSUME TypeOK, Inodes, Offsets, [Next]_vars
  PROVE  Offsets'
<1> DEFINE Start == {"check", "refused", "create", "notopened", "acknowledge", "unacked", "abandoned"}
           Placed(r) == /\ r.flushed + r.buffered <= Blocks
                        /\ r.pc \in Start => r.flushed = 0 /\ r.buffered = 0
                        /\ r.pc = "received" => r.flushed + r.buffered = Blocks
                        /\ r.pc = "stored" => r.flushed = Blocks
<1> SUFFICES ASSUME NEW v \in Uploads
             PROVE  Placed(up'[v])
  BY DEF Offsets
<1>0. /\ Placed(up[v]) /\ up[v] \in UploadType
      /\ up[v].flushed \in Nat /\ up[v].buffered \in Nat /\ Blocks \in Nat
  BY UploadFields, StorageAssumption DEF Offsets, TypeOK
<1>1. CASE up'[v] = up[v]
  BY <1>0, <1>1
<1>2. ASSUME Upload(v)
      PROVE  Placed(up'[v])
  <2>1. CASE CheckExists(v) \/ CreateFails(v) \/ Acknowledge(v) \/ AcknowledgeFails(v)
             \/ ReceiveFails(v) \/ RemovePartial(v) \/ RemovePartialFails(v)
    <3>1. PICK p \in {"refused", "create", "notopened", "receive", "unacked", "failed",
                      "removed", "kept"} :
            up' = [up EXCEPT ![v].pc = p]
      BY <2>1 DEF CheckExists, CreateFails, Acknowledge, AcknowledgeFails, ReceiveFails,
         RemovePartial, RemovePartialFails
    <3>2. up'[v].pc = p /\ up'[v].flushed = up[v].flushed /\ up'[v].buffered = up[v].buffered
      BY <1>0, <3>1 DEF UploadType, TypeOK
    <3>3. p \in Start => up[v].pc \in Start
      <4>1. \/ up[v].pc \in {"check", "create", "acknowledge"}
            \/ up'[v].pc \in {"receive", "failed", "removed", "kept"}
        BY <1>0, <2>1 DEF CheckExists, CreateFails, Acknowledge, AcknowledgeFails, ReceiveFails,
             RemovePartial, RemovePartialFails, TypeOK, UploadType
      <4> QED
        BY <3>2, <4>1
    <3> QED
      BY <1>0, <3>2, <3>3
  <2>2. CASE Create(v)
    BY <1>0, <2>2, CreateEffect
  <2>3. ASSUME NEW upto, NEW total, NEW pc, Flushes(v, upto, total, pc)
        PROVE  up'[v].pc = pc /\ up'[v].flushed = upto /\ up'[v].buffered = total - upto
    BY <2>3 DEF Flushes, UploadType, TypeOK
  <2>4. CASE ReceiveBlock(v)
    <3> DEFINE total == up[v].flushed + up[v].buffered + 1
    <3>1. PICK upto \in up[v].flushed .. total :
            Flushes(v, upto, total, IF total = Blocks THEN "received" ELSE "receive")
      BY <2>4 DEF ReceiveBlock
    <3>2. total \in Nat /\ total <= Blocks /\ upto \in Nat
      BY <1>0, <2>4, <3>1 DEF ReceiveBlock
    <3>3. /\ up'[v].pc = IF total = Blocks THEN "received" ELSE "receive"
          /\ up'[v].flushed = upto /\ up'[v].buffered = total - upto
      BY <2>3, <3>1
    <3> HIDE DEF total
    <3> QED
      BY <1>0, <3>2, <3>3
  <2>5. CASE Close(v) \/ CloseFailed(v)
    <3> DEFINE upto == up[v].flushed + up[v].buffered
               pc == IF up[v].pc = "received" THEN "stored"
                     ELSE IF up[v].pc = "unacked" THEN "abandoned" ELSE "remove"
    <3>1. Flushes(v, upto, upto, pc) /\ up[v].pc \in {"received", "unacked", "failed"}
      BY <2>5 DEF Close, CloseFailed, ClosedUpto
    <3>2. up'[v].pc = pc /\ up'[v].flushed = upto /\ up'[v].buffered = upto - upto
      BY <2>3, <3>1
    <3> QED
      BY <1>0, <3>1, <3>2
  <2> QED
    BY <1>2, <2>1, <2>2, <2>4, <2>5 DEF Upload
<1>3. ASSUME NEW u \in Uploads, Upload(u), u # v
      PROVE  up'[v] = up[v]
  BY <1>3, UploadKeepsInodes, CreateEffect
<1>4. ASSUME NEW d \in Downloads, Download(d)
      PROVE  up'[v] = up[v]
  BY <1>4, DownloadEffect
<1>5. ASSUME NEW x \in Deletes, Delete(x)
      PROVE  up'[v] = up[v]
  BY <1>5, DeleteEffect
<1>6. CASE Restart
  <2>1. \/ up'[v] = up[v]
        \/ /\ up'[v].pc = "dead" /\ up'[v].flushed = up[v].flushed
           /\ up'[v].buffered = 0
    BY <1>6, RestartEffect
  <2> QED
    BY <1>0, <2>1
<1>7. CASE UNCHANGED vars
  BY <1>1, <1>7 DEF vars
<1> QED
  BY <1>1, <1>2, <1>3, <1>4, <1>5, <1>6, <1>7 DEF Next

\* Every step keeps what was removed out of the directory.
LEMMA RemovedStep ==
  ASSUME TypeOK, Inodes, Removed, [Next]_vars
  PROVE  Removed'
<1>1. ASSUME NEW i, IsInode(i), entry # i
      PROVE  entry' # i
  BY <1>1, EntryStep, StorageAssumption DEF IsInode
<1>2. ASSUME NEW v \in Uploads, up'[v].pc = "removed"
      PROVE  entry' # up'[v].inode
  <2>0. /\ up[v].pc = "removed" => IsInode(up[v].inode) /\ entry # up[v].inode
        /\ up[v].pc = "removed" => entry' # up[v].inode
    BY <1>1 DEF Inodes, Removed
  <2>1. ASSUME NEW u \in Uploads, Upload(u)
        PROVE  entry' # up'[v].inode
    <3>1. CASE RemovePartial(u)
      <4>1. entry' = None /\ up[u].pc = "remove"
        BY <3>1 DEF RemovePartial, EntryRemoved
      <4>2. up'[u].inode = up[u].inode /\ up[u].inode # None
        BY <2>1, <3>1, <4>1, UploadKeepsInodes DEF Inodes, Create, RemovePartial
      <4>3. u # v => up'[v] = up[v]
        BY <2>1, <3>1, <4>1, UploadKeepsInodes DEF Create
      <4> QED
        BY <1>2, <2>0, <4>1, <4>2, <4>3
    <3>2. CASE ~ RemovePartial(u)
      <4>1. up'[u].pc # "removed"
        <5>1. CASE CheckExists(u) \/ Create(u) \/ CreateFails(u) \/ Acknowledge(u)
                   \/ AcknowledgeFails(u) \/ ReceiveFails(u) \/ RemovePartialFails(u)
          BY <5>1 DEF TypeOK, UploadType, CheckExists, Create, CreateFails, Acknowledge,
               AcknowledgeFails, ReceiveFails, RemovePartialFails
        <5>2. CASE ReceiveBlock(u)
          <6>1. PICK upto, total :
                  Flushes(u, upto, total, IF total = Blocks THEN "received" ELSE "receive")
            BY <5>2 DEF ReceiveBlock
          <6> QED
            BY <6>1 DEF Flushes, TypeOK, UploadType
        <5>3. CASE Close(u) \/ CloseFailed(u)
          BY <5>3 DEF Close, CloseFailed, Flushes, TypeOK, UploadType
        <5> QED
          BY <2>1, <3>2, <5>1, <5>2, <5>3 DEF Upload
      <4> QED
        BY <1>2, <2>0, <2>1, <4>1, UploadKeepsInodes, CreateEffect
    <3> QED
      BY <3>1, <3>2
  <2>2. ASSUME NEW d \in Downloads, Download(d)
        PROVE  up'[v] = up[v]
    BY <2>2, DownloadEffect
  <2>3. ASSUME NEW x \in Deletes, Delete(x)
        PROVE  up'[v] = up[v]
    BY <2>3, DeleteEffect
  <2>4. CASE Restart
    BY <1>2, <2>0, <2>4, RestartEffect
  <2>5. CASE UNCHANGED vars
    BY <1>2, <2>0, <2>5 DEF vars
  <2> QED
    BY <1>2, <2>0, <2>1, <2>2, <2>3, <2>4, <2>5 DEF Next
<1>3. ASSUME NEW x \in Deletes, del'[x].pc = "confirmed"
      PROVE  \/ del[x].pc = "confirmed" /\ del'[x].inode = del[x].inode
             \/ del'[x].inode = entry /\ entry # None /\ entry' = None
  <2>1. CASE del'[x] = del[x]
    BY <1>3, <2>1
  <2>2. ASSUME NEW u \in Uploads, Upload(u)
        PROVE  del'[x] = del[x]
    BY <2>2, UploadKeepsInodes, CreateEffect
  <2>3. ASSUME NEW d \in Downloads, Download(d)
        PROVE  del'[x] = del[x]
    BY <2>3, DownloadEffect
  <2>4. ASSUME NEW y \in Deletes, Delete(y), y # x
        PROVE  del'[x] = del[x]
    BY <2>4, DeleteEffect
  <2>5. CASE Delete(x)
    BY <1>3, <2>5, DeleteEffect
  <2>6. CASE Restart
    BY <1>3, <2>6, RestartEffect
  <2>7. CASE UNCHANGED vars
    BY <1>3, <2>7 DEF vars
  <2> QED
    BY <2>1, <2>2, <2>3, <2>4, <2>5, <2>6, <2>7 DEF Next
<1>4. \A x \in Deletes :
        del'[x].pc = "confirmed" => del'[x].inode # None /\ entry' # del'[x].inode
  BY <1>1, <1>3 DEF Removed, Inodes
<1>5. ASSUME NEW x \in Deletes, NEW y \in Deletes, x # y,
             del'[x].pc = "confirmed", del'[y].pc = "confirmed"
      PROVE  del'[x].inode # del'[y].inode
  <2>1. \A z \in {x, y} : \/ del[z].pc = "confirmed" /\ del'[z].inode = del[z].inode
                          \/ del'[z].inode = entry /\ entry # None /\ entry' = None
    BY <1>3, <1>5
  <2>2. CASE entry = None \/ entry' # None
    BY <1>5, <2>1, <2>2 DEF Removed, ConfirmedOnce
  <2>3. ASSUME entry # None, entry' = None
        PROVE  del'[x] = del[x] \/ del'[y] = del[y]
    <3>1. ASSUME NEW z \in Deletes, Delete(z)
          PROVE  del'[x] = del[x] \/ del'[y] = del[y]
      BY <1>5, <3>1, DeleteEffect
    <3>2. ASSUME NEW u \in Uploads, Upload(u)
          PROVE  del'[x] = del[x]
      BY <3>2, UploadKeepsInodes, CreateEffect
    <3>3. ASSUME NEW d \in Downloads, Download(d)
          PROVE  del'[x] = del[x]
      BY <3>3, DownloadEffect
    <3>4. CASE Restart \/ UNCHANGED vars
      BY <2>3, <3>4, RestartEffect DEF vars
    <3> QED
      BY <3>1, <3>2, <3>3, <3>4 DEF Next
  <2> QED
    BY <1>5, <2>1, <2>2, <2>3 DEF Removed, ConfirmedOnce
<1> QED
  BY <1>2, <1>4, <1>5 DEF Removed, ConfirmedOnce

-----------------------------------------------------------------------------

\* A file that holds the first blocks of an upload still does after a flush of
\* that upload.
LEMMA WrittenInOrder ==
  ASSUME NEW u \in Uploads, NEW f \in Seq(AnyBlock), NEW upto \in Nat, Len(f) <= upto,
         \A i \in 1 .. Len(f) : f[i] = <<u, i>>
  PROVE  LET w == Written(f, u, Len(f), upto)
         IN  Len(w) = upto /\ \A i \in 1 .. Len(w) : w[i] = <<u, i>>
<1> DEFINE w == Written(f, u, Len(f), upto)
<1>1. /\ Len(w) = IF upto > Len(f) /\ upto > Len(f) THEN upto ELSE Len(f)
      /\ \A i \in 1 .. Len(w) : w[i] = IF i \in Len(f) + 1 .. upto THEN <<u, i>>
                                       ELSE IF i <= Len(f) THEN f[i] ELSE Hole
  BY WrittenFile
<1> HIDE DEF w
<1>2. Len(w) = upto
  BY <1>1
<1>3. ASSUME NEW i \in 1 .. Len(w)
      PROVE  w[i] = <<u, i>>
  <2>1. CASE i \in Len(f) + 1 .. upto
    BY <1>1, <2>1
  <2>2. CASE i \in 1 .. Len(f)
    <3>1. Len(f) \in Nat /\ i <= Len(f) /\ i \notin Len(f) + 1 .. upto
      BY <2>2
    <3>2. w[i] = f[i]
      BY <1>1, <1>3, <3>1
    <3> QED
      BY <2>2, <3>2
  <2> QED
    BY <1>2, <2>1, <2>2
<1> QED
  BY <1>2, <1>3 DEF w

\* Every step keeps the files in order, unless two uploads meet in it.
LEMMA CleanStep ==
  ASSUME TypeOK, Inodes, Offsets, Clean, [Next]_vars
  PROVE  Clean'
<1> DEFINE Whole(v) == /\ up[v].inode \in {None, v}
                       /\ Len(file[v]) = up[v].flushed
                       /\ \A i \in 1 .. Len(file[v]) : file[v][i] = <<v, i>>
           Read(d) == /\ down[d].pc = "open" => down[d].got = <<>>
                      /\ \A i \in 1 .. Len(down[d].got) : down[d].got[i] = <<down[d].inode, i>>
                      /\ down[d].pc = "sent" /\ down[d].stored => Len(down[d].got) = Blocks
<1> SUFFICES ASSUME ~ overwrote'
             PROVE  /\ \A v \in Uploads : Whole(v)'
                    /\ \A d \in Downloads : Read(d)'
  BY DEF Clean, DownloadIsOneUpload, StoredIsReadWhole
<1>0. ~ overwrote
  <2>1. ASSUME NEW u \in Uploads, Upload(u)
        PROVE  ~ overwrote
    BY <2>1, UploadKeepsInodes, CreateEffect
  <2> QED
    BY <2>1, DownloadEffect, DeleteEffect, RestartEffect DEF Next, vars
<1>1. /\ \A v \in Uploads : Whole(v)
      /\ \A d \in Downloads : Read(d)
  BY <1>0 DEF Clean, DownloadIsOneUpload, StoredIsReadWhole
<1>2. ASSUME NEW u \in Uploads, Upload(u)
      PROVE  Clean'
  <2>1. \A d \in Downloads : Read(d)'
    <3>1. UNCHANGED down
      BY <1>2, UploadKeepsInodes, CreateEffect
    <3> QED
      BY <1>1, <3>1
  <2>2. ASSUME NEW v \in Uploads, v # u, file'[v] = file[v]
        PROVE  Whole(v)'
    <3>1. up'[v] = up[v]
      BY <1>2, <2>2, UploadKeepsInodes, CreateEffect
    <3> QED
      BY <1>1, <2>2, <3>1
  <2>3. CASE Create(u)
    <3>1. entry' = u /\ file' = [file EXCEPT ![u] = <<>>]
      BY <2>3, CreateEffect
    <3>2. up'[u].inode = u /\ up'[u].flushed = 0
      BY <2>3, <3>1, CreateEffect DEF Offsets
    <3>3. file'[u] = <<>> /\ \A v \in Uploads : v # u => file'[v] = file[v]
      BY <3>1 DEF TypeOK
    <3>4. Whole(u)'
      BY <3>2, <3>3
    <3> QED
      BY <2>1, <2>2, <3>3, <3>4 DEF Clean, DownloadIsOneUpload, StoredIsReadWhole
  <2>4. CASE CheckExists(u) \/ CreateFails(u) \/ Acknowledge(u) \/ AcknowledgeFails(u)
             \/ ReceiveFails(u) \/ RemovePartial(u) \/ RemovePartialFails(u)
    <3>1. UNCHANGED file
      BY <2>4 DEF CheckExists, CreateFails, Acknowledge, AcknowledgeFails, ReceiveFails,
         RemovePartial, RemovePartialFails
    <3>2. up'[u].inode = up[u].inode /\ up'[u].flushed = up[u].flushed
      BY <2>4 DEF CheckExists, CreateFails, Acknowledge, AcknowledgeFails, ReceiveFails,
         RemovePartial, RemovePartialFails, TypeOK, UploadType
    <3>3. Whole(u)'
      BY <1>1, <3>1, <3>2
    <3> QED
      BY <2>1, <2>2, <3>1, <3>3 DEF Clean, DownloadIsOneUpload, StoredIsReadWhole
  <2>5. ASSUME NEW upto \in Nat, NEW total, NEW pc, Flushes(u, upto, total, pc),
               up[u].flushed <= upto, up[u].inode # None
        PROVE  Clean'
    <3>1. up[u].inode = u /\ up'[u].inode = u /\ up'[u].flushed = upto
      BY <1>1, <2>5 DEF Flushes, TypeOK, UploadType
    <3>2. file[u] \in Seq(AnyBlock) /\ Len(file[u]) = up[u].flushed
      BY <1>1 DEF TypeOK, IsContent
    <3>3. file' = [file EXCEPT ![u] = Written(file[u], u, Len(file[u]), upto)]
      BY <2>5, <3>1, <3>2 DEF Flushes
    <3>4. /\ file'[u] = Written(file[u], u, Len(file[u]), upto)
          /\ \A v \in Uploads : v # u => file'[v] = file[v]
      BY <3>3 DEF TypeOK
    <3>5. Len(file'[u]) = upto /\ \A i \in 1 .. Len(file'[u]) : file'[u][i] = <<u, i>>
      BY <1>1, <2>5, <3>2, <3>4, WrittenInOrder
    <3>6. Whole(u)'
      BY <3>1, <3>5
    <3> QED
      BY <2>1, <2>2, <3>4, <3>6 DEF Clean, DownloadIsOneUpload, StoredIsReadWhole
  <2>6. up[u].flushed \in Nat /\ up[u].buffered \in Nat
    BY UploadFields DEF TypeOK
  <2>7. CASE ReceiveBlock(u)
    <3> DEFINE total == up[u].flushed + up[u].buffered + 1
    <3>1. PICK upto \in up[u].flushed .. total :
            Flushes(u, upto, total, IF total = Blocks THEN "received" ELSE "receive")
      BY <2>7 DEF ReceiveBlock
    <3>2. up[u].inode # None
      BY <2>7, HasInode DEF ReceiveBlock
    <3>3. upto \in Nat /\ up[u].flushed <= upto
      BY <2>6, <3>1
    <3> HIDE DEF total
    <3> QED
      BY <2>5, <3>1, <3>2, <3>3
  <2>8. CASE Close(u) \/ CloseFailed(u)
    <3>1. PICK p : Flushes(u, ClosedUpto(u), ClosedUpto(u), p)
      BY <2>8 DEF Close, CloseFailed
    <3>2. up[u].inode # None
      BY <2>8, HasInode DEF Close, CloseFailed
    <3>3. ClosedUpto(u) \in Nat /\ up[u].flushed <= ClosedUpto(u)
      BY <2>6 DEF ClosedUpto
    <3> QED
      BY <2>5, <3>1, <3>2, <3>3
  <2> QED
    BY <1>2, <2>3, <2>4, <2>7, <2>8 DEF Upload
<1>3. ASSUME NEW d \in Downloads, Download(d)
      PROVE  Clean'
  <2>1. \A v \in Uploads : Whole(v)'
    <3>1. UNCHANGED <<file, up>>
      BY <1>3, DownloadEffect
    <3> QED
      BY <1>1, <3>1
  <2>2. ASSUME NEW e \in Downloads, e # d
        PROVE  Read(e)'
    <3>1. down'[e] = down[e]
      BY <1>3, <2>2, DownloadEffect
    <3> QED
      BY <1>1, <3>1
  <2>3. Read(d)'
    <3>0. down[d] \in DownloadType /\ down[d].got \in Seq(AnyBlock) /\ Len(down[d].got) <= Blocks
      BY DEF TypeOK, DownloadType
    <3>1. CASE Open(d)
      <4>1. down'[d].got = <<>> /\ down'[d].pc # "sent"
        BY <1>1, <3>1 DEF Open, TypeOK, DownloadType
      <4> QED
        BY <4>1
    <3>2. CASE TransmitFails(d)
      <4>1. down'[d].pc = "ended" /\ down'[d].got = down[d].got /\ down'[d].inode = down[d].inode
        BY <3>2 DEF TransmitFails, TypeOK, DownloadType
      <4> QED
        BY <1>1, <4>1
    <3>3. CASE ReadBlock(d)
      <4> DEFINE i == down[d].inode
                 n == Len(down[d].got) + 1
      <4>1. i \in Uploads /\ IsContent(file[i]) /\ down[d].pc = "read"
        BY <3>3, Reads DEF ReadBlock
      <4>2. /\ n \in Nat \ {0}
            /\ Len(file[i]) = up[i].flushed
            /\ \A k \in 1 .. Len(file[i]) : file[i][k] = <<i, k>>
        BY <1>1, <3>0, <4>1
      <4>3. CASE n <= Len(file[i])
        <5>1. down' = [down EXCEPT ![d].got = Append(@, file[i][n])]
          BY <3>3, <4>3 DEF ReadBlock
        <5>2. /\ down'[d].got = Append(down[d].got, file[i][n])
              /\ down'[d].inode = i /\ down'[d].pc = "read"
          BY <3>0, <4>1, <5>1 DEF TypeOK, DownloadType
        <5>3. file[i][n] = <<i, n>> /\ file[i][n] \in AnyBlock
          BY <4>1, <4>2, <4>3 DEF IsContent
        <5>4. /\ Len(down'[d].got) = n /\ down'[d].got[n] = <<i, n>>
              /\ \A k \in 1 .. n - 1 : down'[d].got[k] = down[d].got[k]
          BY <3>0, <5>2, <5>3
        <5>5. \A k \in 1 .. n - 1 : down[d].got[k] = <<i, k>>
          BY <1>1, <3>0
        <5>6. \A k \in 1 .. n : k = n \/ k \in 1 .. n - 1
          BY <4>2
        <5> HIDE DEF n
        <5>7. \A k \in 1 .. Len(down'[d].got) : down'[d].got[k] = <<down'[d].inode, k>>
          BY <5>2, <5>4, <5>5, <5>6
        <5> QED
          BY <5>2, <5>7
      <4>4. CASE ~ (n <= Len(file[i]))
        <5>1. down' = [down EXCEPT ![d].pc = "sent"]
          BY <3>3, <4>4 DEF ReadBlock
        <5>2. /\ down'[d].got = down[d].got /\ down'[d].inode = i
              /\ down'[d].stored = down[d].stored /\ down'[d].pc = "sent"
          BY <3>0, <5>1 DEF TypeOK, DownloadType
        <5>3. down[d].stored => Len(file[i]) = Blocks
          BY <4>1, <4>2 DEF Inodes, Offsets
        <5>4. down[d].stored => Len(down[d].got) = Blocks
          BY <3>0, <4>4, <5>3, StorageAssumption
        <5> QED
          BY <1>1, <5>2, <5>4
      <4> QED
        BY <4>3, <4>4
    <3> QED
      BY <1>3, <3>1, <3>2, <3>3 DEF Download
  <2> QED
    BY <2>1, <2>2, <2>3 DEF Clean, DownloadIsOneUpload, StoredIsReadWhole
<1>4. ASSUME NEW x \in Deletes, Delete(x)
      PROVE  Clean'
  BY <1>4, DeleteEffect DEF Clean, DownloadIsOneUpload, StoredIsReadWhole
<1>5. ASSUME Restart
      PROVE  Clean'
  <2>1. \A v \in Uploads : Whole(v)'
    BY <1>1, <1>5, RestartEffect
  <2>2. \A d \in Downloads : Read(d)'
    BY <1>1, <1>5, RestartEffect
  <2> QED
    BY <2>1, <2>2 DEF Clean, DownloadIsOneUpload, StoredIsReadWhole
<1>6. ASSUME UNCHANGED vars
      PROVE  Clean'
  BY <1>6 DEF vars, Clean, DownloadIsOneUpload, StoredIsReadWhole
<1>7. Clean'
  BY <1>2, <1>3, <1>4, <1>5, <1>6 DEF Next
<1> QED
  BY <1>7 DEF Clean, DownloadIsOneUpload, StoredIsReadWhole

-----------------------------------------------------------------------------

\* The initial states satisfy the invariant.
LEMMA IInvInit ==
  ASSUME Init
  PROVE  IInv
<1> USE StorageAssumption DEF Init
<1>1. TypeOK
  <2>1. [pc |-> "check", inode |-> None, flushed |-> 0, buffered |-> 0] \in UploadType
    BY DEF UploadType
  <2>2. [pc |-> "open", inode |-> None, stored |-> FALSE, got |-> <<>>] \in DownloadType
    BY DEF DownloadType
  <2>3. [pc |-> "open", inode |-> None] \in DeleteType
    BY DEF DeleteType
  <2>4. IsContent(<<>>)
    BY DEF IsContent
  <2>5. {overwrote, restarted} \subseteq BOOLEAN
    BY Zenon
  <2>6. Len(<<>>) <= Blocks /\ entry \in Uploads \cup {None}
    OBVIOUS
  <2>7. /\ \A u \in Uploads : file[u] = <<>>
        /\ \A d \in Downloads : down[d].got = <<>>
    OBVIOUS
  <2>8. \A u \in Uploads : IsContent(file[u])
    BY <2>4, <2>7
  <2>9. /\ DOMAIN file = Uploads /\ up \in [Uploads -> UploadType]
        /\ down \in [Downloads -> DownloadType] /\ del \in [Deletes -> DeleteType]
    BY <2>1, <2>2, <2>3
  <2> QED
    BY <2>5, <2>6, <2>7, <2>8, <2>9 DEF TypeOK
<1>2. Inodes
  BY DEF Inodes
<1>3. Offsets
  <2>1. \A u \in Uploads : up[u].pc = "check" /\ up[u].flushed = 0 /\ up[u].buffered = 0
    OBVIOUS
  <2>2. 0 + 0 <= Blocks
    OBVIOUS
  <2> QED
    BY <2>1, <2>2 DEF Offsets
<1>4. Removed
  BY DEF Removed, ConfirmedOnce
<1>5. Clean
  BY DEF Clean, DownloadIsOneUpload, StoredIsReadWhole
<1> QED
  BY <1>1, <1>2, <1>3, <1>4, <1>5 DEF IInv

\* The invariant is inductive.
THEOREM InductiveInvariant == Spec => []IInv
<1>1. IInv /\ [Next]_vars => IInv'
  BY TypeStep, InodesStep, OffsetsStep, RemovedStep, CleanStep DEF IInv
<1> QED
  BY <1>1, IInvInit, PTL DEF Spec

\* Type correctness.
THEOREM TypeCorrect == Spec => []TypeOK
BY InductiveInvariant, PTL DEF IInv

\* server_task_start() after a reception that failed: whatever other tasks do
\* with the name between fopen() and a remove() that succeeds, and after it, the
\* file it wrote is out of the directory for good.
THEOREM PartialRemoved == Spec => []PartialIsUnlinked
<1>1. IInv => PartialIsUnlinked
  BY DEF IInv, Removed, PartialIsUnlinked
<1> QED
  BY <1>1, InductiveInvariant, PTL

\* server_delete_file(): of any number of deletions that found the file, one
\* confirms its removal.
THEOREM ConfirmedByOne == Spec => []ConfirmedOnce
<1>1. IInv => ConfirmedOnce
  BY DEF IInv, Removed
<1> QED
  BY <1>1, InductiveInvariant, PTL

\* What a download reads while uploads write, close, fail and are deleted is
\* the beginning of one upload, unless two uploads met.
THEOREM DownloadCorrect == Spec => []DownloadIsOneUpload
<1>1. IInv => DownloadIsOneUpload
  BY DEF IInv, Clean, DownloadIsOneUpload
<1> QED
  BY <1>1, InductiveInvariant, PTL

\* ... and all of it when the upload had been closed before.
THEOREM StoredReadWhole == Spec => []StoredIsReadWhole
<1>1. IInv => StoredIsReadWhole
  BY DEF IInv, Clean, StoredIsReadWhole
<1> QED
  BY <1>1, InductiveInvariant, PTL

\* When all uploads are over, whichever steps have failed, the directory has the
\* beginning of one upload, which is a fragment only if remove() failed on it or
\* its task died with the process, unless fopen(path, "wb") met an existing file.
THEOREM DirectorySettled == Spec => []DirectoryIsSettled
<1>1. ASSUME IInv PROVE DirectoryIsSettled
  <2> SUFFICES ASSUME ~ overwrote, entry # None, \A u \in Uploads : up[u].pc \in Over
               PROVE  /\ \A i \in 1 .. Len(file[entry]) : file[entry][i] = <<entry, i>>
                      /\ \/ up[entry].pc = "stored" /\ Len(file[entry]) = Blocks
                         \/ up[entry].pc = "abandoned" /\ file[entry] = <<>>
                         \/ up[entry].pc \in {"kept", "dead"}
    BY DEF DirectoryIsSettled
  <2>1. entry \in Uploads /\ up[entry].inode = entry /\ up[entry].pc \in Over
    BY <1>1 DEF IInv, TypeOK, Inodes, IsInode
  <2>2. up[entry].pc \in {"stored", "abandoned", "kept", "dead"}
    BY <1>1, <2>1 DEF IInv, TypeOK, UploadType, Inodes, Removed, Over
  <2>3. Len(file[entry]) = up[entry].flushed /\ file[entry] \in Seq(AnyBlock)
    BY <1>1, <2>1 DEF IInv, TypeOK, IsContent, Clean
  <2>4. up[entry].pc = "abandoned" => file[entry] = <<>>
    BY <1>1, <2>1, <2>3 DEF IInv, Offsets
  <2>5. up[entry].pc = "stored" => Len(file[entry]) = Blocks
    BY <1>1, <2>1, <2>3 DEF IInv, Offsets
  <2>6. \A i \in 1 .. Len(file[entry]) : file[entry][i] = <<entry, i>>
    BY <1>1, <2>1 DEF IInv, Clean
  <2> QED
    BY <2>2, <2>4, <2>5, <2>6
<1> QED
  BY <1>1, InductiveInvariant, PTL
=============================================================================
