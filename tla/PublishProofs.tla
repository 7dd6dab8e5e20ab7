---------------------------- MODULE PublishProofs ----------------------------
(***************************************************************************)
(* Proofs about Publish, for any number of writers, readers and inodes and *)
(* files of any size: what is published or open is whole, descriptors are  *)
(* closed once, and the system implements atomically replaced files.       *)
(***************************************************************************)
EXTENDS Publish, TLAPS

\* The invariant and the types: the lengths stay in range because of where the
\* writers are.
IInv == TypeOK /\ PublishInv

\* A step of writer w that touches no inode but i, its temporary file.
LEMMA WriterFrame ==
  ASSUME IInv, NEW w \in Writer, NEW i \in Inode,
         i \notin {target, diskTarget},
         \A r \in Reader : mapped[r] # i,
         \A v \in Writer \ {w} : ino[v] # i,
         \A x \in Inode \ {i} : /\ content'[x] = content[x] /\ durable'[x] = durable[x]
                                /\ readonly'[x] = readonly[x],
         \A v \in Writer \ {w} : /\ pc'[v] = pc[v] /\ ino'[v] = ino[v]
                                 /\ buffered'[v] = buffered[v]
                                 /\ fd'[v] = fd[v] /\ file'[v] = file[v] /\ open'[v] = open[v],
         ino'[w] \in {i, None},
         UNCHANGED <<diskTarget, readers>>,
         target' = target \/ (target' = i /\ ino'[w] = None /\ Whole(i)'),
         durable'[i] <= content'[i],
         Progress(w)'
  PROVE  PublishInv'
<1>0. TypeOK /\ PublishInv
  BY DEF IInv
<1>1. \A x \in Inode : durable'[x] <= content'[x]
  BY <1>0 DEF PublishInv
<1>2. \A v \in Writer : Progress(v)'
  <2> SUFFICES ASSUME NEW v \in Writer, v # w PROVE Progress(v)'
    OBVIOUS
  <2>1. Progress(v)
    BY <1>0 DEF PublishInv
  <2>2. pc[v] \notin Resting => ino[v] \in Inode \ {i}
    BY <2>1 DEF Progress
  <2>3. pc[v] \notin Resting => /\ content'[ino[v]] = content[ino[v]]
                                /\ durable'[ino[v]] = durable[ino[v]]
                                /\ readonly'[ino[v]] = readonly[ino[v]]
    BY <2>2
  <2> QED BY <2>1, <2>3 DEF Progress, Resting
<1>3. Private'
  BY <1>0 DEF PublishInv, Private, TypeOK, readers
<1>4. PublishedIsWhole'
  <2> SUFFICES ASSUME NEW x \in {target', diskTarget'} \ {None} PROVE Whole(x)'
    BY DEF PublishedIsWhole
  <2>1. CASE x = i
    BY <2>1
  <2>2. CASE x # i
    <3>1. x \in {target, diskTarget} \ {None} /\ x \in Inode
      BY <1>0, <2>2 DEF TypeOK
    <3>2. Whole(x)
      BY <1>0, <3>1 DEF PublishInv, PublishedIsWhole
    <3> QED BY <2>2, <3>1, <3>2 DEF Whole
  <2> QED BY <2>1, <2>2
<1>5. HeldIsWhole'
  <2> SUFFICES ASSUME NEW r \in Reader
               PROVE  /\ mapped[r] = None <=> at[r] = "closed"
                      /\ mapped[r] # None => Whole(mapped[r])'
                      /\ at[r] \in {"mmap", "open"} => length[r] = Chunks
    BY DEF HeldIsWhole, readers, Whole
  <2>1. /\ mapped[r] = None <=> at[r] = "closed"
        /\ mapped[r] # None => Whole(mapped[r])
        /\ at[r] \in {"mmap", "open"} => length[r] = Chunks
    BY <1>0 DEF PublishInv, HeldIsWhole
  <2>2. mapped[r] # None => mapped[r] \in Inode \ {i} /\ mapped'[r] = mapped[r]
    BY <1>0 DEF TypeOK, readers
  <2> QED BY <2>1, <2>2 DEF Whole
<1> QED BY <1>1, <1>2, <1>3, <1>4, <1>5 DEF PublishInv

\* The temporary file of a writer is nobody else's.
LEMMA TempIsPrivate ==
  ASSUME IInv, NEW w \in Writer, pc[w] \notin Resting
  PROVE  /\ ino[w] \in Inode /\ ino[w] # None /\ ino[w] \notin {target, diskTarget}
         /\ \A r \in Reader : mapped[r] # ino[w]
         /\ \A v \in Writer \ {w} : ino[v] # ino[w]
         /\ content[ino[w]] \in 0..Chunks /\ durable[ino[w]] \in 0..Chunks
         /\ durable[ino[w]] <= content[ino[w]] /\ buffered[w] \in 0..Chunks
         /\ Progress(w)
<1>1. ino[w] \in Inode /\ ino[w] # None /\ Progress(w)
  BY NoneAssumption DEF IInv, PublishInv, Progress
<1> QED BY <1>1 DEF IInv, PublishInv, Private, TypeOK

-----------------------------------------------------------------------------
(* One lemma for each writer's step *)

\* A fresh inode becomes the temporary file.
LEMMA MkstempStep ==
  ASSUME IInv, NEW w \in Writer, Mkstemp(w)
  PROVE  IInv'
<1>0. TypeOK /\ PublishInv /\ pc[w] \in Resting /\ Progress(w)
  BY DEF IInv, PublishInv, Mkstemp
<1>1. PICK i \in Inode \ Busy :
          /\ temps' = temps \cup {i}
          /\ ino' = [ino EXCEPT ![w] = i]
          /\ author' = [author EXCEPT ![i] = w]
          /\ content' = [content EXCEPT ![i] = 0]
          /\ durable' = [durable EXCEPT ![i] = 0]
          /\ readonly' = [readonly EXCEPT ![i] = FALSE]
  BY DEF Mkstemp
<1>2. /\ i \notin {target, diskTarget}
      /\ \A r \in Reader : mapped[r] # i
      /\ \A v \in Writer : ino[v] # i
  BY DEF Busy
<1>3. /\ pc' = [pc EXCEPT ![w] = "fdopen"] /\ fd' = [fd EXCEPT ![w] = TRUE]
      /\ open' = [open EXCEPT ![w] = @ + 1] /\ buffered' = [buffered EXCEPT ![w] = 0]
      /\ UNCHANGED <<target, diskTarget, diskTemps, file, readers>>
  BY DEF Mkstemp
<1>4. TypeOK'
  BY <1>0, <1>1, <1>3, ChunksAssumption DEF TypeOK, WriterState, readers
<1>5. /\ pc'[w] = "fdopen" /\ fd'[w] = TRUE /\ open'[w] = open[w] + 1 /\ buffered'[w] = 0
      /\ durable'[i] <= content'[i] /\ i \in Inode
      /\ ino'[w] = i /\ content'[i] = 0 /\ durable'[i] = 0 /\ file'[w] = file[w]
      /\ open[w] = 0 /\ ~fd[w] /\ ~file[w]
  BY <1>0, <1>1, <1>3 DEF TypeOK, Progress
<1>6. Progress(w)'
  BY <1>5, ChunksAssumption DEF Progress, Resting
<1>7. PublishInv'
  <2>1. \A x \in Inode \ {i} : /\ content'[x] = content[x] /\ durable'[x] = durable[x]
                               /\ readonly'[x] = readonly[x]
    BY <1>0, <1>1 DEF TypeOK
  <2>2. \A v \in Writer \ {w} : /\ pc'[v] = pc[v] /\ ino'[v] = ino[v]
                                /\ buffered'[v] = buffered[v]
                                /\ fd'[v] = fd[v] /\ file'[v] = file[v] /\ open'[v] = open[v]
    BY <1>0, <1>1, <1>3 DEF TypeOK
  <2> QED BY ZenonT(30), <1>2, <1>3, <1>5, <1>6, <2>1, <2>2, WriterFrame
<1> QED BY <1>4, <1>7 DEF IInv

\* The descriptor gets a FILE.
LEMMA FdopenStep ==
  ASSUME IInv, NEW w \in Writer, Fdopen(w)
  PROVE  IInv'
<1>0. PICK i \in Inode : i = ino[w]
  BY TempIsPrivate DEF Fdopen, Goto, Resting
<1>1. TypeOK /\ PublishInv /\ pc[w] = "fdopen" /\ Progress(w)
  BY DEF IInv, PublishInv, Fdopen, Goto
<1>2. /\ i \notin {target, diskTarget} /\ i # None
      /\ \A r \in Reader : mapped[r] # i
      /\ \A v \in Writer \ {w} : ino[v] # i
      /\ content[i] \in 0..Chunks /\ durable[i] \in 0..Chunks /\ buffered[w] \in 0..Chunks
      /\ durable[i] <= content[i]
  BY <1>0, <1>1, TempIsPrivate DEF Resting
<1>3. /\ pc' = [pc EXCEPT ![w] = "write"] /\ file' = [file EXCEPT ![w] = TRUE]
      /\ UNCHANGED <<directory, inodes, ino, buffered, fd, open, readers>>
      /\ UNCHANGED <<target, diskTarget, content, durable, readonly>>
  BY DEF Fdopen, Goto, directory, inodes
<1>4. /\ pc'[w] = "write" /\ file'[w] = TRUE /\ fd'[w] = fd[w] /\ open'[w] = open[w]
      /\ ino'[w] = i /\ buffered'[w] = buffered[w] /\ durable'[i] <= content'[i]
  BY <1>0, <1>1, <1>2, <1>3 DEF TypeOK
<1>5. Progress(w)'
  BY <1>0, <1>1, <1>2, <1>3, <1>4, ChunksAssumption DEF Progress, Resting
<1>6. TypeOK'
  BY <1>0, <1>1, <1>2, <1>3 DEF TypeOK, WriterState, directory, inodes, readers
<1>7. PublishInv'
  <2>1. \A x \in Inode \ {i} : /\ content'[x] = content[x] /\ durable'[x] = durable[x]
                               /\ readonly'[x] = readonly[x]
    BY <1>0, <1>1, <1>3 DEF TypeOK
  <2>2. \A v \in Writer \ {w} : /\ pc'[v] = pc[v] /\ ino'[v] = ino[v]
                                /\ buffered'[v] = buffered[v]
                                /\ fd'[v] = fd[v] /\ file'[v] = file[v] /\ open'[v] = open[v]
    BY <1>1, <1>3 DEF TypeOK
  <2> QED BY <1>0, <1>2, <1>3, <1>4, <1>5, <2>1, <2>2, WriterFrame
<1> QED BY <1>6, <1>7 DEF IInv

\* One more chunk, into the buffer or through it.
LEMMA WriteStep ==
  ASSUME IInv, NEW w \in Writer, Write(w)
  PROVE  IInv'
<1>0. PICK i \in Inode : i = ino[w]
  BY TempIsPrivate DEF Write, Goto, Resting
<1>1. TypeOK /\ PublishInv /\ pc[w] = "write" /\ Progress(w)
  BY DEF IInv, PublishInv, Write, Goto
<1>2. /\ i \notin {target, diskTarget} /\ i # None
      /\ \A r \in Reader : mapped[r] # i
      /\ \A v \in Writer \ {w} : ino[v] # i
      /\ content[i] \in 0..Chunks /\ durable[i] \in 0..Chunks /\ buffered[w] \in 0..Chunks
      /\ durable[i] <= content[i]
  BY <1>0, <1>1, TempIsPrivate DEF Resting
<1>3. PICK n \in 0..(buffered[w] + 1) :
        /\ pc' = [pc EXCEPT ![w] = IF content[i] + buffered[w] + 1 = Chunks THEN "fflush" ELSE "write"]
        /\ content' = [content EXCEPT ![i] = content[i] + n]
        /\ buffered' = [buffered EXCEPT ![w] = (buffered[w] + 1) - n]
        /\ UNCHANGED <<directory, author, durable, readonly, ino, fd, file, open, readers>>
        /\ UNCHANGED <<target, diskTarget>>
  <2>1. PICK n \in 0..(buffered[w] + 1) : Drain(w, buffered[w] + 1, n)
    BY DEF Write
  <2>2. /\ content' = [content EXCEPT ![i] = content[i] + n]
        /\ buffered' = [buffered EXCEPT ![w] = (buffered[w] + 1) - n]
    BY <1>0, <2>1 DEF Drain
  <2>3. /\ pc' = [pc EXCEPT ![w] = IF content[i] + buffered[w] + 1 = Chunks THEN "fflush" ELSE "write"]
        /\ UNCHANGED <<directory, author, durable, readonly, ino, fd, file, open, readers>>
        /\ UNCHANGED <<target, diskTarget>>
    BY <1>0 DEF Write, Goto, directory
  <2> QED BY <2>2, <2>3
<1>3a. /\ content[i] + buffered[w] < Chunks /\ content[i] + n \in 0..Chunks
       /\ (buffered[w] + 1) - n \in 0..Chunks
  BY <1>0, <1>1, <1>2, ChunksAssumption DEF Progress
<1>4. /\ pc'[w] = IF content[i] + buffered[w] + 1 = Chunks THEN "fflush" ELSE "write"
      /\ file'[w] = file[w] /\ fd'[w] = fd[w] /\ open'[w] = open[w]
      /\ ino'[w] = i /\ buffered'[w] = (buffered[w] + 1) - n /\ content'[i] = content[i] + n
      /\ durable'[i] = durable[i] /\ durable'[i] <= content'[i]
  BY <1>0, <1>1, <1>2, <1>3 DEF TypeOK
<1>5. Progress(w)'
  <2>1. content'[i] + buffered'[w] = content[i] + buffered[w] + 1
    <3>1. \A c, b, m \in Int : (c + m) + ((b + 1) - m) = c + b + 1
      OBVIOUS
    <3>2. content[i] \in Int /\ buffered[w] \in Int /\ n \in Int
      BY <1>2, ChunksAssumption
    <3> QED BY <1>4, <3>1, <3>2
  <2>2. pc'[w] = "write" => content'[i] + buffered'[w] < Chunks
    <3>1. \A c, b, m \in Int : c + b < m /\ c + b + 1 # m => c + b + 1 < m
      OBVIOUS
    <3>2. content[i] \in Int /\ buffered[w] \in Int /\ Chunks \in Int
      BY <1>2, ChunksAssumption
    <3>3. content[i] + buffered[w] < Chunks
      BY <1>3a
    <3>4. pc'[w] = "write" => content[i] + buffered[w] + 1 # Chunks
      BY <1>4
    <3> QED BY <2>1, <3>1, <3>2, <3>3, <3>4
  <2>3. pc'[w] = "fflush" => content'[i] + buffered'[w] = Chunks
    BY <1>4, <2>1
  <2>4. pc'[w] \in {"write", "fflush"}
    BY <1>4
  <2> QED BY <1>0, <1>1, <1>4, <2>2, <2>3, <2>4 DEF Progress, Resting
<1>6. TypeOK'
  BY <1>0, <1>1, <1>2, <1>3, <1>3a DEF TypeOK, WriterState, directory, readers
<1>7. PublishInv'
  <2>1. \A x \in Inode \ {i} : /\ content'[x] = content[x] /\ durable'[x] = durable[x]
                               /\ readonly'[x] = readonly[x]
    BY <1>0, <1>1, <1>3 DEF TypeOK
  <2>2. \A v \in Writer \ {w} : /\ pc'[v] = pc[v] /\ ino'[v] = ino[v]
                                /\ buffered'[v] = buffered[v]
                                /\ fd'[v] = fd[v] /\ file'[v] = file[v] /\ open'[v] = open[v]
    BY <1>1, <1>3 DEF TypeOK
  <2> QED BY <1>0, <1>2, <1>3, <1>4, <1>5, <2>1, <2>2, WriterFrame
<1> QED BY <1>6, <1>7 DEF IInv

\* The buffer is emptied.
LEMMA FflushStep ==
  ASSUME IInv, NEW w \in Writer, Fflush(w)
  PROVE  IInv'
<1>0. PICK i \in Inode : i = ino[w]
  BY TempIsPrivate DEF Fflush, Goto, Resting
<1>1. TypeOK /\ PublishInv /\ pc[w] = "fflush" /\ Progress(w)
  BY DEF IInv, PublishInv, Fflush, Goto
<1>2. /\ i \notin {target, diskTarget} /\ i # None
      /\ \A r \in Reader : mapped[r] # i
      /\ \A v \in Writer \ {w} : ino[v] # i
      /\ content[i] \in 0..Chunks /\ durable[i] \in 0..Chunks /\ buffered[w] \in 0..Chunks
      /\ durable[i] <= content[i]
  BY <1>0, <1>1, TempIsPrivate DEF Resting
<1>3. /\ pc' = [pc EXCEPT ![w] = "fsync"]
      /\ content' = [content EXCEPT ![i] = content[i] + buffered[w]]
      /\ buffered' = [buffered EXCEPT ![w] = buffered[w] - buffered[w]]
      /\ UNCHANGED <<directory, author, durable, readonly, ino, fd, file, open, readers>>
      /\ UNCHANGED <<target, diskTarget>> /\ content[i] + buffered[w] = Chunks
  BY <1>0, <1>1 DEF Fflush, Goto, Drain, directory, Progress
<1>4. /\ pc'[w] = "fsync" /\ file'[w] = file[w] /\ fd'[w] = fd[w] /\ open'[w] = open[w]
      /\ ino'[w] = i /\ buffered'[w] = 0 /\ content'[i] = Chunks
      /\ durable'[i] = durable[i] /\ durable'[i] <= content'[i]
  BY <1>0, <1>1, <1>2, <1>3 DEF TypeOK
<1>5. Progress(w)'
  BY <1>0, <1>1, <1>4 DEF Progress, Resting
<1>6. TypeOK'
  BY <1>0, <1>1, <1>2, <1>3, ChunksAssumption DEF TypeOK, WriterState, directory, readers
<1>7. PublishInv'
  <2>1. \A x \in Inode \ {i} : /\ content'[x] = content[x] /\ durable'[x] = durable[x]
                               /\ readonly'[x] = readonly[x]
    BY <1>0, <1>1, <1>3 DEF TypeOK
  <2>2. \A v \in Writer \ {w} : /\ pc'[v] = pc[v] /\ ino'[v] = ino[v]
                                /\ buffered'[v] = buffered[v]
                                /\ fd'[v] = fd[v] /\ file'[v] = file[v] /\ open'[v] = open[v]
    BY <1>1, <1>3 DEF TypeOK
  <2> QED BY <1>0, <1>2, <1>3, <1>4, <1>5, <2>1, <2>2, WriterFrame
<1> QED BY <1>6, <1>7 DEF IInv

\* The file is forced to disk.
LEMMA FsyncStep ==
  ASSUME IInv, NEW w \in Writer, Fsync(w)
  PROVE  IInv'
<1>0. PICK i \in Inode : i = ino[w]
  BY TempIsPrivate DEF Fsync, Goto, Resting
<1>1. TypeOK /\ PublishInv /\ pc[w] = "fsync" /\ Progress(w)
  BY DEF IInv, PublishInv, Fsync, Goto
<1>2. /\ i \notin {target, diskTarget} /\ i # None
      /\ \A r \in Reader : mapped[r] # i
      /\ \A v \in Writer \ {w} : ino[v] # i
      /\ content[i] \in 0..Chunks /\ durable[i] \in 0..Chunks /\ buffered[w] \in 0..Chunks
      /\ durable[i] <= content[i]
  BY <1>0, <1>1, TempIsPrivate DEF Resting
<1>3. /\ pc' = [pc EXCEPT ![w] = "fchmod"]
      /\ durable' = [durable EXCEPT ![i] = content[i]]
      /\ UNCHANGED <<directory, author, content, readonly, ino, buffered, fd, file, open, readers>>
      /\ UNCHANGED <<target, diskTarget>>
  BY <1>0, <1>1 DEF Fsync, Goto, directory
<1>4. /\ pc'[w] = "fchmod" /\ file'[w] = file[w] /\ fd'[w] = fd[w] /\ open'[w] = open[w]
      /\ ino'[w] = i /\ buffered'[w] = buffered[w] /\ content'[i] = content[i]
      /\ durable'[i] = content[i] /\ durable'[i] <= content'[i]
  BY <1>0, <1>1, <1>2, <1>3 DEF TypeOK
<1>5. Progress(w)'
  BY <1>0, <1>1, <1>4 DEF Progress, Resting
<1>6. TypeOK'
  BY <1>0, <1>1, <1>2, <1>3 DEF TypeOK, WriterState, directory, readers
<1>7. PublishInv'
  <2>1. \A x \in Inode \ {i} : /\ content'[x] = content[x] /\ durable'[x] = durable[x]
                               /\ readonly'[x] = readonly[x]
    BY <1>0, <1>1, <1>3 DEF TypeOK
  <2>2. \A v \in Writer \ {w} : /\ pc'[v] = pc[v] /\ ino'[v] = ino[v]
                                /\ buffered'[v] = buffered[v]
                                /\ fd'[v] = fd[v] /\ file'[v] = file[v] /\ open'[v] = open[v]
    BY <1>1, <1>3 DEF TypeOK
  <2> QED BY <1>0, <1>2, <1>3, <1>4, <1>5, <2>1, <2>2, WriterFrame
<1> QED BY <1>6, <1>7 DEF IInv

\* The file is write protected, and the FILE owns the descriptor.
LEMMA FchmodStep ==
  ASSUME IInv, NEW w \in Writer, Fchmod(w)
  PROVE  IInv'
<1>0. PICK i \in Inode : i = ino[w]
  BY TempIsPrivate DEF Fchmod, Goto, Resting
<1>1. TypeOK /\ PublishInv /\ pc[w] = "fchmod" /\ Progress(w)
  BY DEF IInv, PublishInv, Fchmod, Goto
<1>2. /\ i \notin {target, diskTarget} /\ i # None
      /\ \A r \in Reader : mapped[r] # i
      /\ \A v \in Writer \ {w} : ino[v] # i
      /\ content[i] \in 0..Chunks /\ durable[i] \in 0..Chunks /\ buffered[w] \in 0..Chunks
      /\ durable[i] <= content[i]
  BY <1>0, <1>1, TempIsPrivate DEF Resting
<1>3. /\ pc' = [pc EXCEPT ![w] = "fclose"]
      /\ readonly' = [readonly EXCEPT ![i] = TRUE] /\ fd' = [fd EXCEPT ![w] = FALSE]
      /\ UNCHANGED <<directory, author, content, durable, ino, buffered, file, open, readers>>
      /\ UNCHANGED <<target, diskTarget>>
  BY <1>0, <1>1 DEF Fchmod, Goto, directory
<1>4. /\ pc'[w] = "fclose" /\ file'[w] = file[w] /\ fd'[w] = FALSE /\ open'[w] = open[w]
      /\ ino'[w] = i /\ buffered'[w] = buffered[w] /\ content'[i] = content[i]
      /\ durable'[i] = durable[i] /\ durable'[i] <= content'[i] /\ readonly'[i]
  BY <1>0, <1>1, <1>2, <1>3 DEF TypeOK
<1>5. Progress(w)'
  BY <1>0, <1>1, <1>4 DEF Progress, Resting
<1>6. TypeOK'
  BY <1>0, <1>1, <1>2, <1>3 DEF TypeOK, WriterState, directory, readers
<1>7. PublishInv'
  <2>1. \A x \in Inode \ {i} : /\ content'[x] = content[x] /\ durable'[x] = durable[x]
                               /\ readonly'[x] = readonly[x]
    BY <1>0, <1>1, <1>3 DEF TypeOK
  <2>2. \A v \in Writer \ {w} : /\ pc'[v] = pc[v] /\ ino'[v] = ino[v]
                                /\ buffered'[v] = buffered[v]
                                /\ fd'[v] = fd[v] /\ file'[v] = file[v] /\ open'[v] = open[v]
    BY <1>1, <1>3 DEF TypeOK
  <2> QED BY <1>0, <1>2, <1>3, <1>4, <1>5, <2>1, <2>2, WriterFrame
<1> QED BY <1>6, <1>7 DEF IInv

\* The descriptor is closed, by an fclose that succeeds or fails.
LEMMA FcloseStep ==
  ASSUME IInv, NEW w \in Writer, Fclose(w)
  PROVE  IInv'
<1>0. PICK i \in Inode : i = ino[w]
  BY TempIsPrivate DEF Fclose, Goto, Resting
<1>1. TypeOK /\ PublishInv /\ pc[w] = "fclose" /\ Progress(w)
  BY DEF IInv, PublishInv, Fclose, Goto
<1>2. /\ i \notin {target, diskTarget} /\ i # None
      /\ \A r \in Reader : mapped[r] # i
      /\ \A v \in Writer \ {w} : ino[v] # i
      /\ content[i] \in 0..Chunks /\ durable[i] \in 0..Chunks /\ buffered[w] \in 0..Chunks
      /\ durable[i] <= content[i]
  BY <1>0, <1>1, TempIsPrivate DEF Resting
<1>3. PICK next \in {"rename", "cleanup"} :
        /\ pc' = [pc EXCEPT ![w] = next]
        /\ file' = [file EXCEPT ![w] = FALSE] /\ open' = [open EXCEPT ![w] = @ - 1]
        /\ UNCHANGED <<directory, inodes, ino, buffered, fd, readers>>
        /\ UNCHANGED <<target, diskTarget, content, durable, readonly>>
  BY <1>0, <1>1 DEF Fclose, Goto, directory, inodes
<1>4. /\ pc'[w] \in {"rename", "cleanup"} /\ file'[w] = FALSE /\ fd'[w] = fd[w]
      /\ open'[w] = open[w] - 1
      /\ ino'[w] = i /\ buffered'[w] = buffered[w] /\ content'[i] = content[i]
      /\ durable'[i] = durable[i] /\ durable'[i] <= content'[i] /\ readonly'[i] = readonly[i]
  BY <1>0, <1>1, <1>2, <1>3 DEF TypeOK
<1>5. Progress(w)'
  BY <1>0, <1>1, <1>2, <1>4, ChunksAssumption DEF Progress, Resting
<1>6. TypeOK'
  BY <1>0, <1>1, <1>2, <1>3 DEF TypeOK, WriterState, directory, inodes, readers
<1>7. PublishInv'
  <2>1. \A x \in Inode \ {i} : /\ content'[x] = content[x] /\ durable'[x] = durable[x]
                               /\ readonly'[x] = readonly[x]
    BY <1>0, <1>1, <1>3 DEF TypeOK
  <2>2. \A v \in Writer \ {w} : /\ pc'[v] = pc[v] /\ ino'[v] = ino[v]
                                /\ buffered'[v] = buffered[v]
                                /\ fd'[v] = fd[v] /\ file'[v] = file[v] /\ open'[v] = open[v]
    BY <1>1, <1>3 DEF TypeOK
  <2> QED BY <1>0, <1>2, <1>3, <1>4, <1>5, <2>1, <2>2, WriterFrame
<1> QED BY <1>6, <1>7 DEF IInv

\* The temporary file, whole by now, becomes the published one.
LEMMA RenameStep ==
  ASSUME IInv, NEW w \in Writer, Rename(w)
  PROVE  IInv'
<1>0. PICK i \in Inode : i = ino[w]
  BY TempIsPrivate DEF Rename, Goto, Resting
<1>1. TypeOK /\ PublishInv /\ pc[w] = "rename" /\ Progress(w)
  BY DEF IInv, PublishInv, Rename, Goto
<1>2. /\ i \notin {target, diskTarget} /\ i # None
      /\ \A r \in Reader : mapped[r] # i
      /\ \A v \in Writer \ {w} : ino[v] # i
      /\ durable[i] <= content[i]
  BY <1>0, <1>1, TempIsPrivate DEF Resting
<1>3. /\ pc' = [pc EXCEPT ![w] = "done"] /\ ino' = [ino EXCEPT ![w] = None]
      /\ target' = i /\ temps' = temps \ {i}
      /\ UNCHANGED <<diskTarget, diskTemps, inodes, buffered, fd, file, open, readers>>
      /\ UNCHANGED <<content, durable, readonly>>
  BY <1>0 DEF Rename, Goto, inodes
<1>4. /\ pc'[w] = "done" /\ ino'[w] = None /\ file'[w] = file[w] /\ fd'[w] = fd[w]
      /\ open'[w] = open[w] /\ durable'[i] <= content'[i]
  BY <1>1, <1>2, <1>3 DEF TypeOK
<1>5. Progress(w)' /\ Whole(i)'
  <2>1. Progress(w)'
    BY <1>1, <1>4 DEF Progress, Resting
  <2>2. Whole(i)
    BY <1>0, <1>1 DEF Progress, Whole
  <2> QED BY <1>3, <2>1, <2>2 DEF Whole
<1>6. TypeOK'
  BY <1>1, <1>3 DEF TypeOK, WriterState, inodes, readers
<1>7. PublishInv'
  <2>1. \A v \in Writer \ {w} : /\ pc'[v] = pc[v] /\ ino'[v] = ino[v]
                                /\ buffered'[v] = buffered[v]
                                /\ fd'[v] = fd[v] /\ file'[v] = file[v] /\ open'[v] = open[v]
    BY <1>1, <1>3 DEF TypeOK
  <2> QED BY <1>0, <1>2, <1>3, <1>4, <1>5, <2>1, WriterFrame
<1> QED BY <1>6, <1>7 DEF IInv

\* A call fails; what it has written of the temporary file stays.
LEMMA FailsStep ==
  ASSUME IInv, NEW w \in Writer, Fails(w)
  PROVE  IInv'
<1>0. PICK i \in Inode : i = ino[w]
  BY TempIsPrivate DEF Fails, Goto, Resting
<1>1. /\ TypeOK /\ PublishInv /\ Progress(w)
      /\ pc[w] \in {"fdopen", "write", "fflush", "fsync", "fchmod", "rename"}
  BY DEF IInv, PublishInv, Fails, Goto
<1>2. /\ i \notin {target, diskTarget} /\ i # None
      /\ \A r \in Reader : mapped[r] # i
      /\ \A v \in Writer \ {w} : ino[v] # i
      /\ content[i] \in 0..Chunks /\ durable[i] \in 0..Chunks /\ buffered[w] \in 0..Chunks
      /\ durable[i] <= content[i]
  BY <1>0, <1>1, TempIsPrivate DEF Resting
<1>3. PICK n \in 0..buffered[w] :
        /\ content' = [content EXCEPT ![i] = content[i] + n]
        /\ buffered' = [buffered EXCEPT ![w] = buffered[w] - n]
        /\ pc' = [pc EXCEPT ![w] = "cleanup"]
        /\ UNCHANGED <<directory, author, durable, readonly, ino, fd, file, open, readers>>
        /\ UNCHANGED <<target, diskTarget>>
  <2>1. /\ pc' = [pc EXCEPT ![w] = "cleanup"]
        /\ UNCHANGED <<directory, author, durable, readonly, ino, fd, file, open, readers>>
        /\ UNCHANGED <<target, diskTarget>>
    BY DEF Fails, Goto, directory
  <2>2. CASE pc[w] \in {"write", "fflush"}
    <3>1. PICK n \in 0..buffered[w] : Drain(w, buffered[w], n)
      BY <2>2 DEF Fails
    <3>2. /\ content' = [content EXCEPT ![i] = content[i] + n]
          /\ buffered' = [buffered EXCEPT ![w] = buffered[w] - n]
      BY <1>0, <3>1 DEF Drain
    <3> QED BY <2>1, <3>2
  <2>3. CASE pc[w] \notin {"write", "fflush"}
    <3>1. content' = content /\ buffered' = buffered
      BY <2>3 DEF Fails
    <3>2. /\ content' = [content EXCEPT ![i] = content[i] + 0]
          /\ buffered' = [buffered EXCEPT ![w] = buffered[w] - 0]
      BY <1>1, <1>2, <3>1 DEF TypeOK
    <3>3. 0 \in 0..buffered[w]
      BY <1>2, ChunksAssumption
    <3> QED BY <2>1, <3>2, <3>3
  <2> QED BY <2>2, <2>3
<1>3a. /\ content[i] + buffered[w] <= Chunks /\ content[i] + n \in 0..Chunks
       /\ buffered[w] - n \in 0..Chunks
  <2>1. content[i] + buffered[w] <= Chunks
    BY <1>0, <1>1, <1>2, ChunksAssumption DEF Progress
  <2> QED BY <1>2, <2>1, ChunksAssumption
<1>4. /\ pc'[w] = "cleanup" /\ file'[w] = file[w] /\ fd'[w] = fd[w] /\ open'[w] = open[w]
      /\ ino'[w] = i /\ buffered'[w] = buffered[w] - n /\ content'[i] = content[i] + n
      /\ durable'[i] = durable[i] /\ durable'[i] <= content'[i]
  BY <1>0, <1>1, <1>2, <1>3 DEF TypeOK
<1>5. Progress(w)'
  <2>1. content'[i] + buffered'[w] <= Chunks
    BY <1>2, <1>3a, <1>4, ChunksAssumption
  <2> QED BY <1>0, <1>1, <1>4, <2>1 DEF Progress, Resting
<1>6. TypeOK'
  BY <1>0, <1>1, <1>2, <1>3, <1>3a DEF TypeOK, WriterState, directory, readers
<1>7. PublishInv'
  <2>1. \A x \in Inode \ {i} : /\ content'[x] = content[x] /\ durable'[x] = durable[x]
                               /\ readonly'[x] = readonly[x]
    BY <1>0, <1>1, <1>3 DEF TypeOK
  <2>2. \A v \in Writer \ {w} : /\ pc'[v] = pc[v] /\ ino'[v] = ino[v]
                                /\ buffered'[v] = buffered[v]
                                /\ fd'[v] = fd[v] /\ file'[v] = file[v] /\ open'[v] = open[v]
    BY <1>1, <1>3 DEF TypeOK
  <2> QED BY <1>0, <1>2, <1>3, <1>4, <1>5, <2>1, <2>2, WriterFrame
<1> QED BY <1>6, <1>7 DEF IInv

\* The descriptor is closed if it was open, whichever of fd and f says so.
LEMMA CleanupStep ==
  ASSUME IInv, NEW w \in Writer, Cleanup(w)
  PROVE  IInv'
<1>0. PICK i \in Inode : i = ino[w]
  BY TempIsPrivate DEF Cleanup, Goto, Resting
<1>1. TypeOK /\ PublishInv /\ Progress(w) /\ pc[w] = "cleanup"
  BY DEF IInv, PublishInv, Cleanup, Goto
<1>2. /\ i \notin {target, diskTarget} /\ i # None
      /\ \A r \in Reader : mapped[r] # i
      /\ \A v \in Writer \ {w} : ino[v] # i
      /\ content[i] \in 0..Chunks /\ durable[i] \in 0..Chunks /\ buffered[w] \in 0..Chunks
      /\ durable[i] <= content[i]
  BY <1>0, <1>1, TempIsPrivate DEF Resting
<1>3. PICK n \in 0..buffered[w] :
        /\ content' = [content EXCEPT ![i] = IF file[w] THEN content[i] + n ELSE content[i]]
        /\ buffered' = [buffered EXCEPT ![w] = 0]
        /\ open' = [open EXCEPT ![w] = IF file[w] \/ fd[w] THEN open[w] - 1 ELSE open[w]]
        /\ fd' = [fd EXCEPT ![w] = FALSE] /\ file' = [file EXCEPT ![w] = FALSE]
        /\ ino' = [ino EXCEPT ![w] = None] /\ pc' = [pc EXCEPT ![w] = "failed"]
        /\ temps' \in {temps, temps \ {i}}
        /\ UNCHANGED <<target, diskTarget, diskTemps, author, durable, readonly, readers>>
  BY <1>0 DEF Cleanup, Goto
<1>3a. /\ (IF file[w] THEN content[i] + n ELSE content[i]) \in 0..Chunks
       /\ durable[i] <= IF file[w] THEN content[i] + n ELSE content[i]
  <2>1. content[i] + buffered[w] <= Chunks
    BY <1>0, <1>1 DEF Progress
  <2> QED BY <1>2, <2>1, ChunksAssumption
<1>4. /\ pc'[w] = "failed" /\ ~file'[w] /\ ~fd'[w] /\ ino'[w] = None
      /\ open'[w] = (IF file[w] \/ fd[w] THEN open[w] - 1 ELSE open[w])
      /\ durable'[i] <= content'[i]
  BY <1>0, <1>1, <1>2, <1>3, <1>3a DEF TypeOK
<1>5. Progress(w)'
  BY <1>0, <1>1, <1>4 DEF Progress, Resting
<1>6. TypeOK'
  BY <1>0, <1>1, <1>2, <1>3, <1>3a, ChunksAssumption DEF TypeOK, WriterState, readers
<1>7. PublishInv'
  <2>1. \A x \in Inode \ {i} : /\ content'[x] = content[x] /\ durable'[x] = durable[x]
                               /\ readonly'[x] = readonly[x]
    BY <1>0, <1>1, <1>3 DEF TypeOK
  <2>2. \A v \in Writer \ {w} : /\ pc'[v] = pc[v] /\ ino'[v] = ino[v]
                                /\ buffered'[v] = buffered[v]
                                /\ fd'[v] = fd[v] /\ file'[v] = file[v] /\ open'[v] = open[v]
    BY <1>1, <1>3 DEF TypeOK
  <2> QED BY <1>0, <1>2, <1>3, <1>4, <1>5, <2>1, <2>2, WriterFrame
<1> QED BY <1>6, <1>7 DEF IInv

\* A writer is killed; its temporary file stays behind.
LEMMA KillStep ==
  ASSUME IInv, NEW w \in Writer, Kill(w)
  PROVE  IInv'
<1>0. PICK i \in Inode : i = ino[w]
  BY TempIsPrivate DEF Kill
<1>1. TypeOK /\ PublishInv
  BY DEF IInv
<1>2. /\ i \notin {target, diskTarget} /\ i # None
      /\ \A r \in Reader : mapped[r] # i
      /\ \A v \in Writer \ {w} : ino[v] # i
      /\ durable[i] <= content[i]
  BY <1>0, TempIsPrivate DEF Kill
<1>3. /\ pc' = [pc EXCEPT ![w] = "idle"] /\ ino' = [ino EXCEPT ![w] = None]
      /\ buffered' = [buffered EXCEPT ![w] = 0] /\ fd' = [fd EXCEPT ![w] = FALSE]
      /\ file' = [file EXCEPT ![w] = FALSE] /\ open' = [open EXCEPT ![w] = 0]
      /\ UNCHANGED <<directory, inodes, readers>>
      /\ UNCHANGED <<target, diskTarget, content, durable, readonly>>
  BY DEF Kill, directory, inodes
<1>4. /\ pc'[w] = "idle" /\ ~file'[w] /\ ~fd'[w] /\ ino'[w] = None /\ open'[w] = 0
      /\ durable'[i] <= content'[i]
  BY <1>1, <1>2, <1>3 DEF TypeOK
<1>5. Progress(w)'
  BY <1>4 DEF Progress, Resting
<1>6. TypeOK'
  BY <1>1, <1>3, ChunksAssumption DEF TypeOK, WriterState, directory, inodes, readers
<1>7. PublishInv'
  <2>2. \A v \in Writer \ {w} : /\ pc'[v] = pc[v] /\ ino'[v] = ino[v]
                                /\ buffered'[v] = buffered[v]
                                /\ fd'[v] = fd[v] /\ file'[v] = file[v] /\ open'[v] = open[v]
    BY <1>1, <1>3 DEF TypeOK
  <2> QED BY <1>0, <1>2, <1>3, <1>4, <1>5, <2>2, WriterFrame
<1> QED BY <1>6, <1>7 DEF IInv

-----------------------------------------------------------------------------
(* Readers and the environment *)

\* A reader's step leaves files and writers alone and keeps what it holds whole.
LEMMA ReaderFrame ==
  ASSUME IInv, NEW r \in Reader, TypeOK',
         UNCHANGED <<directory, inodes, writers>>,
         \A q \in Reader \ {r} : at'[q] = at[q] /\ mapped'[q] = mapped[q] /\ length'[q] = length[q],
         mapped'[r] = None <=> at'[r] = "closed",
         mapped'[r] \in {None, target, mapped[r]},
         at'[r] \in {"mmap", "open"} => length'[r] = Chunks
  PROVE  IInv'
<1>0. /\ TypeOK /\ PublishInv
      /\ UNCHANGED <<target, diskTarget, temps, diskTemps, author, content, durable, readonly>>
      /\ UNCHANGED <<pc, ino, buffered, fd, file, open>>
  BY DEF IInv, directory, inodes, writers
<1>1. \A i : Whole(i)' <=> Whole(i)
  BY <1>0 DEF Whole
<1>2. /\ \A i \in Inode : durable'[i] <= content'[i]
      /\ \A w \in Writer : Progress(w)'
      /\ PublishedIsWhole'
  BY <1>0, <1>1 DEF PublishInv, Progress, PublishedIsWhole
<1>3. Private'
  <2>1. \A w \in Writer : ino[w] # None => mapped'[r] # ino[w]
    BY <1>0 DEF PublishInv, Private
  <2> QED BY <1>0, <2>1 DEF PublishInv, Private
<1>4. HeldIsWhole'
  <2>1. mapped'[r] # None => Whole(mapped'[r])
    BY <1>0 DEF PublishInv, HeldIsWhole, PublishedIsWhole
  <2> QED BY <1>0, <1>1, <2>1 DEF PublishInv, HeldIsWhole
<1> QED BY <1>2, <1>3, <1>4 DEF IInv, PublishInv

\* Opening and closing.
LEMMA ReaderSteps ==
  ASSUME IInv, NEW r \in Reader, ReaderStep(r)
  PROVE  IInv'
<1>0. TypeOK /\ PublishInv /\ HeldIsWhole
  BY DEF IInv, PublishInv
<1>1. ASSUME Release(r) PROVE IInv'
  <2>1. TypeOK'
    BY <1>0, <1>1, ChunksAssumption DEF Release, TypeOK, ReaderState, directory, inodes, writers
  <2>2. /\ \A q \in Reader \ {r} : at'[q] = at[q] /\ mapped'[q] = mapped[q] /\ length'[q] = length[q]
        /\ mapped'[r] = None /\ at'[r] = "closed"
    BY <1>0, <1>1 DEF Release, TypeOK
  <2>3. UNCHANGED <<directory, inodes, writers>>
    BY <1>1 DEF Release
  <2> QED BY <2>1, <2>2, <2>3, ReaderFrame
<1>2. CASE Fopen(r)
  <2>1. TypeOK'
    BY <1>0, <1>2 DEF Fopen, TypeOK, ReaderState, directory, inodes, writers
  <2>2. /\ \A q \in Reader \ {r} : at'[q] = at[q] /\ mapped'[q] = mapped[q] /\ length'[q] = length[q]
        /\ mapped'[r] = target /\ target # None /\ at'[r] = "fstat"
    BY <1>0, <1>2 DEF Fopen, TypeOK
  <2>3. UNCHANGED <<directory, inodes, writers>>
    BY <1>2 DEF Fopen
  <2> QED BY <2>1, <2>2, <2>3, ReaderFrame
<1>3. CASE Fstat(r)
  <2>0. at[r] = "fstat" /\ mapped[r] # None /\ Whole(mapped[r])
    BY <1>0, <1>3 DEF Fstat, HeldIsWhole
  <2>1. CASE Release(r)
    BY <1>1, <2>1
  <2>2. CASE ~Release(r)
    <3>0. /\ at' = [at EXCEPT ![r] = "mmap"]
          /\ length' = [length EXCEPT ![r] = content[mapped[r]]]
          /\ UNCHANGED <<directory, inodes, writers, mapped>>
      BY <1>3, <2>2 DEF Fstat
    <3>1. content[mapped[r]] = Chunks
      BY <2>0 DEF Whole
    <3>2. TypeOK'
      BY <1>0, <3>0, <3>1, ChunksAssumption DEF TypeOK, ReaderState, directory, inodes, writers
    <3>3. /\ \A q \in Reader \ {r} : at'[q] = at[q] /\ mapped'[q] = mapped[q] /\ length'[q] = length[q]
          /\ mapped'[r] = mapped[r] /\ at'[r] = "mmap" /\ length'[r] = Chunks
      BY <1>0, <3>0, <3>1 DEF TypeOK
    <3> QED BY <2>0, <3>0, <3>2, <3>3, ReaderFrame
  <2> QED BY <2>1, <2>2
<1>4. CASE Mmap(r)
  <2>0. at[r] = "mmap" /\ mapped[r] # None /\ length[r] = Chunks
    BY <1>0, <1>4 DEF Mmap, HeldIsWhole
  <2>1. CASE Release(r)
    BY <1>1, <2>1
  <2>2. CASE ~Release(r)
    <3>0. /\ at' = [at EXCEPT ![r] = "open"]
          /\ UNCHANGED <<directory, inodes, writers, mapped, length>>
      BY <1>4, <2>2 DEF Mmap
    <3>2. TypeOK'
      BY <1>0, <3>0 DEF TypeOK, ReaderState, directory, inodes, writers
    <3>3. /\ \A q \in Reader \ {r} : at'[q] = at[q] /\ mapped'[q] = mapped[q] /\ length'[q] = length[q]
          /\ mapped'[r] = mapped[r] /\ at'[r] = "open" /\ length'[r] = Chunks
      BY <1>0, <2>0, <3>0 DEF TypeOK
    <3> QED BY <2>0, <3>0, <3>2, <3>3, ReaderFrame
  <2> QED BY <2>1, <2>2
<1> QED BY <1>1, <1>2, <1>3, <1>4 DEF ReaderStep, OpenFails, Close

\* Write back, and power failures.
LEMMA EnvironmentSteps ==
  ASSUME IInv, Environment
  PROVE  IInv'
<1>0. TypeOK /\ PublishInv
  BY DEF IInv
<1>1. CASE DirectoryToDisk
  <2>1. /\ diskTarget' = target /\ diskTemps' = temps
        /\ UNCHANGED <<target, temps, author, content, durable, readonly>>
        /\ UNCHANGED <<pc, ino, buffered, fd, file, open, at, mapped, length>>
    BY <1>1 DEF DirectoryToDisk, inodes, writers, readers
  <2>2. \A i : Whole(i)' <=> Whole(i)
    BY <2>1 DEF Whole
  <2>3. TypeOK'
    BY <1>0, <2>1 DEF TypeOK
  <2>4. /\ \A i \in Inode : durable'[i] <= content'[i]
        /\ \A w \in Writer : Progress(w)'
        /\ PublishedIsWhole' /\ HeldIsWhole'
    BY <1>0, <2>1, <2>2 DEF PublishInv, Progress, PublishedIsWhole, HeldIsWhole
  <2>5. Private'
    BY <1>0, <2>1 DEF PublishInv, Private
  <2> QED BY <2>3, <2>4, <2>5 DEF IInv, PublishInv
<1>2. ASSUME NEW i \in Inode, DataToDisk(i) PROVE IInv'
  <2>1. /\ durable' = [durable EXCEPT ![i] = @ + 1] /\ durable[i] < content[i]
        /\ UNCHANGED <<target, diskTarget, temps, diskTemps, author, content, readonly>>
        /\ UNCHANGED <<pc, ino, buffered, fd, file, open, at, mapped, length>>
    BY <1>2 DEF DataToDisk, directory, writers, readers
  <2>2. /\ \A x \in Inode : durable'[x] \in 0..Chunks /\ durable'[x] <= content[x]
        /\ \A x \in Inode : durable[x] = Chunks => durable'[x] = Chunks
        /\ durable' \in [Inode -> 0..Chunks]
    BY <1>0, <2>1, ChunksAssumption DEF TypeOK, PublishInv
  <2>3. TypeOK'
    BY <1>0, <2>1, <2>2 DEF TypeOK
  <2>4. \A x \in Inode : Whole(x) => Whole(x)'
    BY <2>1, <2>2 DEF Whole
  <2>5. \A w \in Writer : Progress(w)'
    BY <1>0, <2>1, <2>2 DEF PublishInv, Progress, Resting
  <2>6. PublishedIsWhole' /\ HeldIsWhole'
    BY <1>0, <2>1, <2>4 DEF PublishInv, PublishedIsWhole, HeldIsWhole, TypeOK
  <2>7. Private'
    BY <1>0, <2>1 DEF PublishInv, Private
  <2> QED BY <2>1, <2>2, <2>3, <2>5, <2>6, <2>7 DEF IInv, PublishInv
<1>3. CASE PowerFailure
  <2>1. TypeOK'
    BY <1>0, <1>3, ChunksAssumption DEF PowerFailure, TypeOK, WriterState, ReaderState
  <2>2. \A w \in Writer : Progress(w)'
    BY <1>3 DEF PowerFailure, Progress, Resting
  <2>3. Private' /\ HeldIsWhole'
    BY <1>3 DEF PowerFailure, Private, HeldIsWhole
  <2>4. \A x \in Inode : durable'[x] <= content'[x]
    BY <1>0, <1>3, ChunksAssumption DEF PowerFailure, TypeOK
  <2>5. PublishedIsWhole'
    BY <1>0, <1>3 DEF PowerFailure, PublishInv, PublishedIsWhole, Whole
  <2> QED BY <2>1, <2>2, <2>3, <2>4, <2>5 DEF IInv, PublishInv
<1> QED BY <1>1, <1>2, <1>3 DEF Environment

-----------------------------------------------------------------------------
(* The theorems *)

\* The invariant, over whatever writers, readers and the environment do.
THEOREM PublishInvariant == Spec => []IInv
<1>1. Init => IInv
  <2> SUFFICES ASSUME Init PROVE IInv
    OBVIOUS
  <2>1. TypeOK
    BY ChunksAssumption DEF Init, TypeOK, WriterState, ReaderState
  <2>2. \A w \in Writer : Progress(w)
    BY DEF Init, Progress, Resting
  <2>3. \A i \in Inode : durable[i] <= content[i]
    BY <2>1, ChunksAssumption DEF Init, TypeOK
  <2>4. PublishedIsWhole
    <3> SUFFICES ASSUME NEW i \in {target, diskTarget} \ {None} PROVE Whole(i)
      BY DEF PublishedIsWhole
    <3>1. i \in Inode /\ i = target
      BY DEF Init
    <3> QED BY <3>1 DEF Init, Whole
  <2>5. Private /\ HeldIsWhole
    BY DEF Init, Private, HeldIsWhole
  <2> QED BY <2>1, <2>2, <2>3, <2>4, <2>5 DEF IInv, PublishInv
<1>2. IInv /\ [Next]_vars => IInv'
  <2> SUFFICES ASSUME IInv, [Next]_vars PROVE IInv'
    OBVIOUS
  <2>1. ASSUME NEW w \in Writer, WriterStep(w) PROVE IInv'
    <3>1. CASE MkstempFails(w)
      <4>0. TypeOK /\ PublishInv /\ Progress(w) /\ pc[w] \in Resting
        BY <3>1 DEF MkstempFails, IInv, PublishInv
      <4>1. /\ pc' = [pc EXCEPT ![w] = "failed"]
            /\ UNCHANGED <<target, diskTarget, temps, diskTemps, author, content, durable, readonly>>
            /\ UNCHANGED <<ino, buffered, fd, file, open, at, mapped, length>>
        BY <3>1 DEF MkstempFails, directory, inodes, readers
      <4>2. TypeOK'
        BY <4>0, <4>1 DEF TypeOK, WriterState
      <4>3. \A v \in Writer : pc'[v] = pc[v] \/ (v = w /\ pc'[v] = "failed")
        BY <4>0, <4>1 DEF TypeOK
      <4>4. ASSUME NEW v \in Writer PROVE Progress(v)'
        <5>1. Progress(v)
          BY <4>0 DEF PublishInv
        <5>2. CASE pc'[v] = pc[v]
          BY <4>1, <5>1, <5>2 DEF Progress
        <5>3. CASE v = w /\ pc'[v] = "failed"
          BY <4>0, <4>1, <5>3 DEF Progress, Resting
        <5> QED BY <4>3, <5>2, <5>3
      <4>5. Private' /\ PublishedIsWhole' /\ HeldIsWhole'
            /\ \A i \in Inode : durable'[i] <= content'[i]
        BY <4>0, <4>1 DEF PublishInv, Private, PublishedIsWhole, HeldIsWhole, Whole
      <4> QED BY <4>2, <4>4, <4>5 DEF IInv, PublishInv
    <3> QED
      BY <2>1, <3>1, MkstempStep, FdopenStep, WriteStep, FflushStep, FsyncStep, FchmodStep,
         FcloseStep, RenameStep, FailsStep, CleanupStep, KillStep DEF WriterStep
  <2>2. CASE UNCHANGED vars
    <3>1. /\ UNCHANGED <<target, diskTarget, temps, diskTemps, author, content, durable, readonly>>
          /\ UNCHANGED <<pc, ino, buffered, fd, file, open, at, mapped, length>>
      BY <2>2 DEF vars, directory, inodes, writers, readers
    <3>2. TypeOK'
      BY <3>1 DEF IInv, TypeOK
    <3>3. PublishInv'
      BY <3>1 DEF IInv, PublishInv, Progress, Private, PublishedIsWhole, HeldIsWhole, Whole
    <3> QED BY <3>2, <3>3 DEF IInv
  <2> QED BY <2>1, <2>2, ReaderSteps, EnvironmentSteps DEF Next
<1> QED
  BY <1>1, <1>2, PTL DEF Spec

\* A whole file, or none, is published at every moment, a power failure included.
THEOREM PublishedAlwaysWhole == Spec => []PublishedIsWhole
<1>1. IInv => PublishedIsWhole
  BY DEF IInv, PublishInv
<1> QED BY <1>1, PublishInvariant, PTL

\* A reader has a whole file open.
THEOREM OpenAlwaysWhole == Spec => []OpenIsWhole
<1>1. IInv => OpenIsWhole
  BY DEF IInv, TypeOK, PublishInv, HeldIsWhole, OpenIsWhole, Whole
<1> QED BY <1>1, PublishInvariant, PTL

\* No descriptor leaks and none is closed twice.
THEOREM DescriptorsClosedOnce == Spec => []ClosedOnce
<1>1. IInv => ClosedOnce
  BY DEF IInv, PublishInv, Progress, ClosedOnce
<1> QED BY <1>1, PublishInvariant, PTL

\* The author of the file an inode holds.
Author(i) == IF i = None THEN None ELSE author[i]

\* Under the invariant the abstract state is told by the authors alone.
LEMMA Mapping ==
  ASSUME IInv
  PROVE  /\ VersionOf(target, content) = Author(target)
         /\ VersionOf(diskTarget, durable) = Author(diskTarget)
         /\ \A r \in Reader : VersionOf(mapped[r], content) = Author(mapped[r])
  BY DEF IInv, PublishInv, PublishedIsWhole, HeldIsWhole, Whole, VersionOf, Author

\* The author of an inode that is published or held does not change.
LEMMA AuthorStable ==
  ASSUME IInv, Next
  PROVE  \A i \in Inode : i \in {target, diskTarget} \cup {mapped[r] : r \in Reader}
                          => author'[i] = author[i]
<1>1. ASSUME NEW w \in Writer, Mkstemp(w)
      PROVE  \A i \in Inode : i \in {target, diskTarget} \cup {mapped[r] : r \in Reader}
                              => author'[i] = author[i]
  BY <1>1 DEF Mkstemp, Busy, IInv, TypeOK
<1>2. ASSUME NEW w \in Writer, WriterStep(w), ~Mkstemp(w) PROVE author' = author
  BY <1>2 DEF WriterStep, MkstempFails, Fdopen, Write, Fflush, Fsync, Fchmod, Fclose, Rename,
     Fails, Cleanup, Kill, inodes
<1>3. ASSUME NEW r \in Reader, ReaderStep(r) PROVE author' = author
  BY <1>3 DEF ReaderStep, Fopen, Fstat, Mmap, OpenFails, Close, Release, inodes
<1>4. Environment => author' = author
  BY DEF Environment, DataToDisk, DirectoryToDisk, PowerFailure, inodes
<1> QED BY <1>1, <1>2, <1>3, <1>4 DEF Next

\* Writers and readers implement atomic replacement: a rename replaces, an fopen
\* opens, and every other step of a writer goes unnoticed.
THEOREM Refinement == Spec => ImplementsAtomicFile
<1>1. Init => Abstract!Init
  <2> SUFFICES ASSUME Init PROVE Abstract!Init
    OBVIOUS
  <2>1. /\ VersionOf(target, content) = Author(target)
        /\ VersionOf(diskTarget, durable) = Author(target)
        /\ Author(target) \in Writer \cup {None}
    BY DEF Init, VersionOf, Author
  <2>2. [r \in Reader |-> VersionOf(mapped[r], content)] = [r \in Reader |-> None]
    BY DEF Init, VersionOf
  <2> QED BY <2>1, <2>2 DEF Abstract!Init
<1>2. IInv /\ IInv' /\ [Next]_vars => [Abstract!Next]_(Abstract!vars)
  <2> SUFFICES ASSUME IInv, IInv', [Next]_vars PROVE [Abstract!Next]_(Abstract!vars)
    OBVIOUS
  <2> DEFINE View == [r \in Reader |-> Author(mapped[r])]
  <2>0. /\ VersionOf(target, content) = Author(target)
        /\ VersionOf(diskTarget, durable) = Author(diskTarget)
        /\ [r \in Reader |-> VersionOf(mapped[r], content)] = View
    BY Mapping
  <2>0a. /\ VersionOf(target, content)' = Author(target)'
         /\ VersionOf(diskTarget, durable)' = Author(diskTarget)'
         /\ [r \in Reader |-> VersionOf(mapped[r], content)]' = View'
    BY DEF IInv, PublishInv, PublishedIsWhole, HeldIsWhole, Whole, VersionOf, Author
  <2>1. TypeOK
    BY DEF IInv
  <2>2. ASSUME author' = author \/ Next
        PROVE  /\ Author(target) = IF target = None THEN None ELSE author'[target]
               /\ Author(diskTarget) = IF diskTarget = None THEN None ELSE author'[diskTarget]
               /\ \A r \in Reader :
                    Author(mapped[r]) = IF mapped[r] = None THEN None ELSE author'[mapped[r]]
    BY <2>1, <2>2, AuthorStable DEF Author, TypeOK
  <2>3. ASSUME author' = author \/ Next, UNCHANGED <<target, diskTarget, mapped>>
        PROVE  UNCHANGED Abstract!vars
    <3>1. Author(target)' = Author(target) /\ Author(diskTarget)' = Author(diskTarget)
      BY <2>2, <2>3 DEF Author
    <3>2. View' = View
      BY <2>2, <2>3 DEF Author
    <3> QED BY <2>0, <2>0a, <3>1, <3>2 DEF Abstract!vars
  <2>4. CASE UNCHANGED vars
    <3>1. author' = author /\ UNCHANGED <<target, diskTarget, mapped>>
      BY <2>4 DEF vars, directory, inodes, readers
    <3> QED BY <2>3, <3>1
  <2>5. ASSUME NEW w \in Writer, Rename(w), Next PROVE Abstract!Next
    <3>1. /\ target' = ino[w] /\ ino[w] \in Inode /\ ino[w] # None
          /\ UNCHANGED <<diskTarget, author, mapped>>
      BY <2>5, TempIsPrivate DEF Rename, Goto, Resting, inodes, readers
    <3>2. Author(target)' = author[ino[w]] /\ author[ino[w]] \in Writer
      BY <2>1, <3>1 DEF Author, TypeOK
    <3>3. Author(diskTarget)' = Author(diskTarget) /\ View' = View
      BY <3>1 DEF Author
    <3>4. Abstract!Replace(author[ino[w]])
      BY <2>0, <2>0a, <3>2, <3>3 DEF Abstract!Replace
    <3> QED BY <3>2, <3>4 DEF Abstract!Next
  <2>6. ASSUME NEW w \in Writer, WriterStep(w), ~Rename(w)
        PROVE  UNCHANGED <<target, diskTarget, mapped>>
    BY <2>6 DEF WriterStep, Mkstemp, MkstempFails, Fdopen, Write, Fflush, Fsync, Fchmod, Fclose,
       Fails, Cleanup, Kill, directory, readers
  <2>7. ASSUME NEW r \in Reader, Fopen(r) PROVE Abstract!Next
    <3>1. /\ mapped' = [mapped EXCEPT ![r] = target] /\ mapped[r] = None
          /\ UNCHANGED <<target, diskTarget, author>>
      BY <2>7 DEF Fopen, directory, inodes, IInv, PublishInv, HeldIsWhole
    <3>2. Author(target)' = Author(target) /\ Author(diskTarget)' = Author(diskTarget)
      BY <3>1 DEF Author
    <3>3. View[r] = None /\ View' = [View EXCEPT ![r] = Author(target)]
      BY <2>1, <3>1 DEF Author, TypeOK
    <3>4. Abstract!Open(r)
      BY <2>0, <2>0a, <3>2, <3>3 DEF Abstract!Open
    <3> QED BY <3>4 DEF Abstract!Next
  <2>8. ASSUME NEW r \in Reader, Release(r) PROVE Abstract!Next
    <3>1. mapped' = [mapped EXCEPT ![r] = None] /\ UNCHANGED <<target, diskTarget, author>>
      BY <2>8 DEF Release, directory, inodes
    <3>2. Author(target)' = Author(target) /\ Author(diskTarget)' = Author(diskTarget)
      BY <3>1 DEF Author
    <3>3. View' = [View EXCEPT ![r] = None]
      BY <2>1, <3>1 DEF Author, TypeOK
    <3>4. Abstract!Close(r)
      BY <2>0, <2>0a, <3>2, <3>3 DEF Abstract!Close
    <3> QED BY <3>4 DEF Abstract!Next
  <2>9. ASSUME NEW r \in Reader, ReaderStep(r), ~Fopen(r), ~Release(r)
        PROVE  UNCHANGED <<target, diskTarget, mapped>>
    BY <2>9 DEF ReaderStep, Fstat, Mmap, OpenFails, Close, directory
  <2>10. CASE DirectoryToDisk
    <3>1. diskTarget' = target /\ UNCHANGED <<target, author, mapped>>
      BY <2>10 DEF DirectoryToDisk, inodes, readers
    <3>2. /\ Author(target)' = Author(target) /\ Author(diskTarget)' = Author(target)
          /\ View' = View
      BY <3>1 DEF Author
    <3>3. Abstract!Commit
      BY <2>0, <2>0a, <3>2 DEF Abstract!Commit
    <3> QED BY <3>3 DEF Abstract!Next
  <2>11. CASE PowerFailure
    <3>1. /\ target' = diskTarget /\ mapped' = [r \in Reader |-> None]
          /\ UNCHANGED <<diskTarget, author>>
      BY <2>11 DEF PowerFailure
    <3>2. /\ Author(target)' = Author(diskTarget) /\ Author(diskTarget)' = Author(diskTarget)
          /\ View' = [r \in Reader |-> None]
      BY <3>1 DEF Author
    <3>3. Abstract!PowerFailure
      BY <2>0, <2>0a, <3>2 DEF Abstract!PowerFailure
    <3> QED BY <3>3 DEF Abstract!Next
  <2>12. ASSUME NEW i \in Inode, DataToDisk(i) PROVE UNCHANGED <<target, diskTarget, mapped>>
    BY <2>12 DEF DataToDisk, directory, readers
  <2> HIDE DEF View
  <2> QED
    BY <2>3, <2>4, <2>5, <2>6, <2>7, <2>8, <2>9, <2>10, <2>11, <2>12 DEF Next, Environment
<1> QED
  BY <1>1, <1>2, PublishInvariant, PTL DEF Spec, ImplementsAtomicFile, Abstract!Spec

\* What a reader has mapped stays as it is.
THEOREM MappedIsStable == Spec => MappedNeverChanges
<1>1. IInv /\ [Next]_vars => [KeepsMapped]_vars
  <2> SUFFICES ASSUME IInv, Next, NEW r \in Reader, at[r] = "open", at'[r] = "open"
               PROVE  /\ mapped'[r] = mapped[r]
                      /\ author'[mapped[r]] = author[mapped[r]]
                      /\ content'[mapped[r]] = content[mapped[r]]
    BY DEF KeepsMapped
  <2>1. TypeOK /\ mapped[r] \in Inode /\ content[mapped[r]] = Chunks
    BY DEF IInv, TypeOK, PublishInv, HeldIsWhole, Whole
  <2>2. author'[mapped[r]] = author[mapped[r]]
    BY <2>1, AuthorStable
  <2>3. ASSUME NEW w \in Writer, Mkstemp(w)
        PROVE  mapped'[r] = mapped[r] /\ content'[mapped[r]] = content[mapped[r]]
    BY <2>1, <2>3 DEF Mkstemp, Busy, TypeOK, readers
  <2>4. ASSUME NEW w \in Writer, WriterStep(w), ~Mkstemp(w)
        PROVE  mapped'[r] = mapped[r] /\ content'[mapped[r]] = content[mapped[r]]
    <3>1. mapped' = mapped
      BY <2>4 DEF WriterStep, MkstempFails, Fdopen, Write, Fflush, Fsync, Fchmod, Fclose, Rename,
         Fails, Cleanup, Kill, readers
    <3>2. content' = content \/ pc[w] \in {"write", "fflush", "cleanup"}
      BY <2>4 DEF WriterStep, MkstempFails, Fdopen, Write, Fflush, Fsync, Fchmod, Fclose, Rename,
         Fails, Cleanup, Kill, Goto, inodes
    <3>3. ASSUME pc[w] \in {"write", "fflush", "cleanup"} PROVE mapped[r] # ino[w]
      BY <3>3, TempIsPrivate DEF Resting
    <3>4. content' = content \/ \E e : content' = [content EXCEPT ![ino[w]] = e]
      BY <2>4 DEF WriterStep, MkstempFails, Fdopen, Write, Fflush, Fsync, Fchmod, Fclose, Rename,
         Fails, Cleanup, Kill, Drain, inodes
    <3> QED BY <2>1, <3>1, <3>2, <3>3, <3>4 DEF TypeOK
  <2>5. ASSUME NEW q \in Reader, ReaderStep(q)
        PROVE  mapped'[r] = mapped[r] /\ content'[mapped[r]] = content[mapped[r]]
    <3>1. content' = content
      BY <2>5 DEF ReaderStep, Fopen, Fstat, Mmap, OpenFails, Close, Release, inodes
    <3>2. CASE q # r
      BY <2>1, <2>5, <3>1, <3>2
         DEF ReaderStep, Fopen, Fstat, Mmap, OpenFails, Close, Release, TypeOK
    <3>3. CASE q = r
      <4>1. at'[r] = "closed"
        BY <2>1, <2>5, <3>3
           DEF ReaderStep, Fopen, Fstat, Mmap, OpenFails, Close, Release, TypeOK
      <4> QED BY <4>1
    <3> QED BY <3>2, <3>3
  <2>6. ASSUME Environment
        PROVE  mapped'[r] = mapped[r] /\ content'[mapped[r]] = content[mapped[r]]
    <3>1. ~PowerFailure
      BY DEF PowerFailure
    <3> QED BY <2>6, <3>1 DEF Environment, DataToDisk, DirectoryToDisk, inodes, readers
  <2> QED BY <2>2, <2>3, <2>4, <2>5, <2>6 DEF Next
<1> QED BY <1>1, PublishInvariant, PTL DEF Spec, MappedNeverChanges
=============================================================================
