------------------------------ MODULE Publish ------------------------------
(***************************************************************************)
(* Writers publish files under one name with                               *)
(* pointless_create_output_and_end_f, while readers open, map and close    *)
(* the file of that name with pointless_open_f and pointless_close.  Any   *)
(* system call may fail, a process may be killed between any two of them,  *)
(* and the power may fail.                                                 *)
(*                                                                         *)
(* The file system is external.  It is modelled by inodes that have a      *)
(* cached and a durable length, in write calls, and by a directory with a  *)
(* cached and a durable state.  Data and directory reach the disk at any   *)
(* time, in any order; only fsync forces data there.                       *)
(***************************************************************************)
EXTENDS Integers, FiniteSets

CONSTANTS
    Writer,
    Reader,
    Inode,
    None,
    Chunks      \* the number of write calls that make a file

ASSUME ChunksAssumption == Chunks \in Nat \ {0}
ASSUME NoneAssumption == None \notin Inode \cup Writer

VARIABLES
    target,     \* the inode the published name stands for, or None
    temps,      \* the inodes that have a temporary name
    diskTarget, \* the same, as the directory is on disk
    diskTemps,
    author,     \* the writer whose data an inode holds
    content,    \* the length of an inode
    durable,    \* how much of it is on disk
    readonly,   \* its mode is S_IRUSR

    pc,         \* where each writer is
    ino,        \* the inode of its temporary file
    buffered,   \* what is in the buffer of its FILE
    fd,         \* fd # -1
    file,       \* f # 0
    open,       \* how often its descriptor was opened less how often closed

    at,         \* where each reader is
    mapped,     \* the inode it has open
    length      \* fd_len

directory == <<target, temps, diskTarget, diskTemps>>
inodes == <<author, content, durable, readonly>>
writers == <<pc, ino, buffered, fd, file, open>>
readers == <<at, mapped, length>>
vars == <<directory, inodes, writers, readers>>

WriterState == {"idle", "fdopen", "write", "fflush", "fsync", "fchmod", "fclose",
                "rename", "cleanup", "failed", "done"}
ReaderState == {"closed", "fstat", "mmap", "open"}
Resting == {"idle", "failed", "done"}

\* Inodes that something still refers to.
Busy == {target, diskTarget} \cup temps \cup diskTemps
        \cup {mapped[r] : r \in Reader} \cup {ino[w] : w \in Writer}

Init ==
    /\ target \in Inode \cup {None}
    /\ temps = {} /\ diskTarget = target /\ diskTemps = {}
    /\ author \in {[i \in Inode |-> w] : w \in Writer}
    /\ content = [i \in Inode |-> IF i = target THEN Chunks ELSE 0]
    /\ durable = content
    /\ readonly = [i \in Inode |-> i = target]
    /\ pc = [w \in Writer |-> "idle"]
    /\ ino = [w \in Writer |-> None]
    /\ buffered = [w \in Writer |-> 0]
    /\ fd = [w \in Writer |-> FALSE]
    /\ file = [w \in Writer |-> FALSE]
    /\ open = [w \in Writer |-> 0]
    /\ at = [r \in Reader |-> "closed"]
    /\ mapped = [r \in Reader |-> None]
    /\ length = [r \in Reader |-> 0]

-----------------------------------------------------------------------------
(* pointless_create_output_and_end_f *)

Goto(w, from, to) == pc[w] = from /\ pc' = [pc EXCEPT ![w] = to]

\* Faulty variant: the published file is truncated and written in place.
MkstempInPlace(w) ==
    /\ pc[w] \in Resting
    /\ \E i \in (Inode \ Busy) \cup ({target} \ {None}) :
          /\ temps' = temps \cup {i}
          /\ ino' = [ino EXCEPT ![w] = i]
          /\ author' = [author EXCEPT ![i] = w]
          /\ content' = [content EXCEPT ![i] = 0]
          /\ durable' = [durable EXCEPT ![i] = 0]
          /\ readonly' = [readonly EXCEPT ![i] = FALSE]
    /\ pc' = [pc EXCEPT ![w] = "fdopen"]
    /\ fd' = [fd EXCEPT ![w] = TRUE]
    /\ open' = [open EXCEPT ![w] = @ + 1]
    /\ buffered' = [buffered EXCEPT ![w] = 0]
    /\ UNCHANGED <<target, diskTarget, diskTemps, file, readers>>

\* A file of its own under a name of its own.
Mkstemp(w) ==
    /\ pc[w] \in Resting
    /\ \E i \in Inode \ Busy :
          /\ temps' = temps \cup {i}
          /\ ino' = [ino EXCEPT ![w] = i]
          /\ author' = [author EXCEPT ![i] = w]
          /\ content' = [content EXCEPT ![i] = 0]
          /\ durable' = [durable EXCEPT ![i] = 0]
          /\ readonly' = [readonly EXCEPT ![i] = FALSE]
    /\ pc' = [pc EXCEPT ![w] = "fdopen"]
    /\ fd' = [fd EXCEPT ![w] = TRUE]
    /\ open' = [open EXCEPT ![w] = @ + 1]
    /\ buffered' = [buffered EXCEPT ![w] = 0]
    /\ UNCHANGED <<target, diskTarget, diskTemps, file, readers>>

\* No memory for the name, or no file.
MkstempFails(w) ==
    /\ pc[w] \in Resting
    /\ pc' = [pc EXCEPT ![w] = "failed"]
    /\ UNCHANGED <<directory, inodes, ino, buffered, fd, file, open, readers>>

Fdopen(w) ==
    /\ Goto(w, "fdopen", "write")
    /\ file' = [file EXCEPT ![w] = TRUE]
    /\ UNCHANGED <<directory, inodes, ino, buffered, fd, open, readers>>

\* n chunks go from the buffer to the file when there were m in the buffer.
Drain(w, m, n) ==
    /\ content' = [content EXCEPT ![ino[w]] = @ + n]
    /\ buffered' = [buffered EXCEPT ![w] = m - n]

\* One call of file_write or file_align_4; the buffer may overflow into the file.
Write(w) ==
    /\ Goto(w, "write", IF content[ino[w]] + buffered[w] + 1 = Chunks THEN "fflush" ELSE "write")
    /\ \E n \in 0..(buffered[w] + 1) : Drain(w, buffered[w] + 1, n)
    /\ UNCHANGED <<directory, author, durable, readonly, ino, fd, file, open, readers>>

\* Faulty variant: what is buffered stays there.
FflushNothing(w) ==
    /\ Goto(w, "fflush", "fsync")
    /\ UNCHANGED <<directory, inodes, ino, buffered, fd, file, open, readers>>

Fflush(w) ==
    /\ Goto(w, "fflush", "fsync")
    /\ Drain(w, buffered[w], buffered[w])
    /\ UNCHANGED <<directory, author, durable, readonly, ino, fd, file, open, readers>>

\* Faulty variant: the call is left out.
FsyncSkipped(w) ==
    /\ Goto(w, "fsync", "fchmod")
    /\ UNCHANGED <<directory, inodes, ino, buffered, fd, file, open, readers>>

Fsync(w) ==
    /\ Goto(w, "fsync", "fchmod")
    /\ durable' = [durable EXCEPT ![ino[w]] = content[ino[w]]]
    /\ UNCHANGED <<directory, author, content, readonly, ino, buffered, fd, file, open,
                   readers>>

\* Faulty variant: fd is not reset.
FchmodKeepsFd(w) ==
    /\ Goto(w, "fchmod", "fclose")
    /\ readonly' = [readonly EXCEPT ![ino[w]] = TRUE]
    /\ UNCHANGED <<directory, author, content, durable, ino, buffered, fd, file, open, readers>>

\* fchmod, then fd = -1: from here on the FILE is the owner of the descriptor.
Fchmod(w) ==
    /\ Goto(w, "fchmod", "fclose")
    /\ readonly' = [readonly EXCEPT ![ino[w]] = TRUE]
    /\ fd' = [fd EXCEPT ![w] = FALSE]
    /\ UNCHANGED <<directory, author, content, durable, ino, buffered, file, open, readers>>

\* fclose closes the descriptor even when it fails, and f = 0 either way.
Fclose(w) ==
    /\ \E next \in {"rename", "cleanup"} : Goto(w, "fclose", next)
    /\ file' = [file EXCEPT ![w] = FALSE]
    /\ open' = [open EXCEPT ![w] = @ - 1]
    /\ UNCHANGED <<directory, inodes, ino, buffered, fd, readers>>

Rename(w) ==
    /\ Goto(w, "rename", "done")
    /\ target' = ino[w]
    /\ temps' = temps \ {ino[w]}
    /\ ino' = [ino EXCEPT ![w] = None]
    /\ UNCHANGED <<diskTarget, diskTemps, inodes, buffered, fd, file, open, readers>>

\* One of the other calls fails; a failed write or fflush may have written a part.
Fails(w) ==
    /\ \E from \in {"fdopen", "write", "fflush", "fsync", "fchmod", "rename"} :
          Goto(w, from, "cleanup")
    /\ IF pc[w] \in {"write", "fflush"}
         THEN \E n \in 0..buffered[w] : Drain(w, buffered[w], n)
         ELSE UNCHANGED <<content, buffered>>
    /\ UNCHANGED <<directory, author, durable, readonly, ino, fd, file, open, readers>>

\* Faulty variant: the published name is unlinked.
CleanupUnlinksTarget(w) ==
    /\ Goto(w, "cleanup", "failed")
    /\ buffered' = [buffered EXCEPT ![w] = 0]
    /\ open' = [open EXCEPT ![w] = IF file[w] \/ fd[w] THEN @ - 1 ELSE @]
    /\ fd' = [fd EXCEPT ![w] = FALSE]
    /\ file' = [file EXCEPT ![w] = FALSE]
    /\ target' = None
    /\ ino' = [ino EXCEPT ![w] = None]
    /\ UNCHANGED <<temps, diskTarget, diskTemps, inodes, readers>>

\* The label cleanup.  fclose flushes what it can.  unlink is given a name that
\* has been freed: whether it removes the temporary file is undefined.
Cleanup(w) ==
    /\ Goto(w, "cleanup", "failed")
    /\ \E n \in 0..buffered[w] :
          content' = [content EXCEPT ![ino[w]] = IF file[w] THEN @ + n ELSE @]
    /\ buffered' = [buffered EXCEPT ![w] = 0]
    /\ open' = [open EXCEPT ![w] = IF file[w] \/ fd[w] THEN @ - 1 ELSE @]
    /\ fd' = [fd EXCEPT ![w] = FALSE]
    /\ file' = [file EXCEPT ![w] = FALSE]
    /\ temps' \in {temps, temps \ {ino[w]}}
    /\ ino' = [ino EXCEPT ![w] = None]
    /\ UNCHANGED <<target, diskTarget, diskTemps, author, durable, readonly, readers>>

-----------------------------------------------------------------------------
(* pointless_open_f, pointless_close *)

Fopen(r) ==
    /\ at[r] = "closed" /\ target # None
    /\ at' = [at EXCEPT ![r] = "fstat"]
    /\ mapped' = [mapped EXCEPT ![r] = target]
    /\ UNCHANGED <<directory, inodes, writers, length>>

Release(r) ==
    /\ at' = [at EXCEPT ![r] = "closed"]
    /\ mapped' = [mapped EXCEPT ![r] = None]
    /\ length' = [length EXCEPT ![r] = 0]
    /\ UNCHANGED <<directory, inodes, writers>>

\* fstat; "file is empty"
Fstat(r) ==
    /\ at[r] = "fstat"
    /\ IF content[mapped[r]] = 0
         THEN Release(r)
         ELSE /\ at' = [at EXCEPT ![r] = "mmap"]
              /\ length' = [length EXCEPT ![r] = content[mapped[r]]]
              /\ UNCHANGED <<directory, inodes, writers, mapped>>

\* mmap and pointless_init, which refuses a file that was cut short when it is
\* asked to validate it.
Mmap(r) ==
    /\ at[r] = "mmap"
    /\ \E do_validate \in BOOLEAN :
          IF do_validate /\ length[r] # Chunks
            THEN Release(r)
            ELSE /\ at' = [at EXCEPT ![r] = "open"]
                 /\ UNCHANGED <<directory, inodes, writers, mapped, length>>

\* fstat, mmap or an allocation fails.
OpenFails(r) == at[r] \in {"fstat", "mmap"} /\ Release(r)

Close(r) == at[r] = "open" /\ Release(r)

-----------------------------------------------------------------------------
(* The environment *)

\* The process of a writer is killed; its descriptor is closed, its buffer lost.
Kill(w) ==
    /\ pc[w] \notin Resting
    /\ pc' = [pc EXCEPT ![w] = "idle"]
    /\ ino' = [ino EXCEPT ![w] = None]
    /\ buffered' = [buffered EXCEPT ![w] = 0]
    /\ fd' = [fd EXCEPT ![w] = FALSE]
    /\ file' = [file EXCEPT ![w] = FALSE]
    /\ open' = [open EXCEPT ![w] = 0]
    /\ UNCHANGED <<directory, inodes, readers>>

DataToDisk(i) ==
    /\ durable[i] < content[i]
    /\ durable' = [durable EXCEPT ![i] = @ + 1]
    /\ UNCHANGED <<directory, author, content, readonly, writers, readers>>

DirectoryToDisk ==
    /\ diskTarget' = target
    /\ diskTemps' = temps
    /\ UNCHANGED <<target, temps, inodes, writers, readers>>

PowerFailure ==
    /\ target' = diskTarget
    /\ temps' = diskTemps
    /\ content' = durable
    /\ pc' = [w \in Writer |-> "idle"]
    /\ ino' = [w \in Writer |-> None]
    /\ buffered' = [w \in Writer |-> 0]
    /\ fd' = [w \in Writer |-> FALSE]
    /\ file' = [w \in Writer |-> FALSE]
    /\ open' = [w \in Writer |-> 0]
    /\ at' = [r \in Reader |-> "closed"]
    /\ mapped' = [r \in Reader |-> None]
    /\ length' = [r \in Reader |-> 0]
    /\ UNCHANGED <<diskTarget, diskTemps, author, durable, readonly>>

WriterStep(w) ==
    \/ Mkstemp(w) \/ MkstempFails(w) \/ Fdopen(w) \/ Write(w) \/ Fflush(w) \/ Fsync(w)
    \/ Fchmod(w) \/ Fclose(w) \/ Rename(w) \/ Fails(w) \/ Cleanup(w) \/ Kill(w)

ReaderStep(r) == Fopen(r) \/ Fstat(r) \/ Mmap(r) \/ OpenFails(r) \/ Close(r)

Environment == (\E i \in Inode : DataToDisk(i)) \/ DirectoryToDisk \/ PowerFailure

Next ==
    \/ \E w \in Writer : WriterStep(w)
    \/ \E r \in Reader : ReaderStep(r)
    \/ Environment

Spec == Init /\ [][Next]_vars

-----------------------------------------------------------------------------
TypeOK ==
    /\ target \in Inode \cup {None} /\ diskTarget \in Inode \cup {None}
    /\ temps \subseteq Inode /\ diskTemps \subseteq Inode
    /\ author \in [Inode -> Writer]
    /\ content \in [Inode -> 0..Chunks] /\ durable \in [Inode -> 0..Chunks]
    /\ readonly \in [Inode -> BOOLEAN]
    /\ pc \in [Writer -> WriterState]
    /\ ino \in [Writer -> Inode \cup {None}]
    /\ buffered \in [Writer -> 0..Chunks]
    /\ fd \in [Writer -> BOOLEAN] /\ file \in [Writer -> BOOLEAN]
    /\ open \in [Writer -> Int]
    /\ at \in [Reader -> ReaderState]
    /\ mapped \in [Reader -> Inode \cup {None}]
    /\ length \in [Reader -> 0..Chunks]

Whole(i) == content[i] = Chunks /\ durable[i] = Chunks /\ readonly[i]

\* Under the published name there is always a whole file, on disk and write
\* protected, or none at all: now, and if the power fails (pointless_create.c:1310).
PublishedIsWhole == \A i \in {target, diskTarget} \ {None} : Whole(i)

\* A reader that has the file open has all of it mapped, whoever published what
\* since, even when it did not validate the file (pointless_reader.c:114).
OpenIsWhole ==
    \A r \in Reader : at[r] = "open" =>
        /\ mapped[r] \in Inode
        /\ content[mapped[r]] = Chunks
        /\ length[r] = Chunks

\* The descriptor of the temporary file is closed once, whichever call failed: a
\* second close could hit a descriptor of another thread (pointless_create.c:1335).
ClosedOnce ==
    \A w \in Writer :
        /\ open[w] \in {0, 1}
        /\ pc[w] \in Resting => open[w] = 0

KeepsMapped ==
    \A r \in Reader : at[r] = "open" /\ at'[r] = "open" =>
        /\ mapped'[r] = mapped[r]
        /\ author'[mapped[r]] = author[mapped[r]]
        /\ content'[mapped[r]] = content[mapped[r]]

\* What a reader has mapped does not change under it, whoever publishes what
\* (pointless_reader.c:114 maps the file MAP_SHARED).
MappedNeverChanges == [][KeepsMapped]_vars

\* Which version an inode holds when its length is n.
VersionOf(i, n) ==
    IF i = None THEN None ELSE IF n[i] = Chunks THEN author[i] ELSE <<"a part of", author[i]>>

Abstract == INSTANCE AtomicFile WITH
    Version <- Writer,
    current <- VersionOf(target, content),
    committed <- VersionOf(diskTarget, durable),
    view <- [r \in Reader |-> VersionOf(mapped[r], content)]

\* The system calls of writers and readers together implement files that are
\* replaced atomically and read as they were when opened.
ImplementsAtomicFile == Abstract!Spec

-----------------------------------------------------------------------------
(* The inductive invariant *)

\* Where the temporary file has got to at each step of a writer.
Progress(w) ==
    LET i == ino[w] IN
    /\ pc[w] \in Resting => i = None /\ ~fd[w] /\ ~file[w] /\ open[w] = 0
    /\ pc[w] \notin Resting => i \in Inode
    /\ pc[w] \notin Resting => open[w] = IF fd[w] \/ file[w] THEN 1 ELSE 0
    /\ pc[w] \in {"fdopen", "write", "fflush", "fsync", "fchmod"} => fd[w]
    /\ pc[w] \in {"write", "fflush", "fsync", "fchmod", "fclose"} => file[w]
    /\ pc[w] = "fclose" => ~fd[w]
    /\ pc[w] = "rename" => ~fd[w] /\ ~file[w]
    /\ pc[w] = "fdopen" => content[i] + buffered[w] = 0
    /\ pc[w] = "write" => content[i] + buffered[w] < Chunks
    /\ pc[w] = "fflush" => content[i] + buffered[w] = Chunks
    /\ pc[w] = "cleanup" => content[i] + buffered[w] <= Chunks
    /\ pc[w] \in {"fsync", "fchmod", "fclose", "rename"} => content[i] = Chunks /\ buffered[w] = 0
    /\ pc[w] \in {"fchmod", "fclose", "rename"} => durable[i] = Chunks
    /\ pc[w] \in {"fclose", "rename"} => readonly[i]

\* A temporary file belongs to one writer, and is not published on disk or in use.
Private ==
    \A w \in Writer : ino[w] # None =>
        /\ ino[w] \notin {target, diskTarget}
        /\ \A v \in Writer : ino[v] = ino[w] => v = w
        /\ \A r \in Reader : mapped[r] # ino[w]

\* Whatever a reader holds is whole.
HeldIsWhole ==
    \A r \in Reader :
        /\ mapped[r] = None <=> at[r] = "closed"
        /\ mapped[r] # None => Whole(mapped[r])
        /\ at[r] \in {"mmap", "open"} => length[r] = Chunks

PublishInv ==
    /\ \A i \in Inode : durable[i] <= content[i]
    /\ \A w \in Writer : Progress(w)
    /\ Private
    /\ PublishedIsWhole
    /\ HeldIsWhole
=============================================================================
