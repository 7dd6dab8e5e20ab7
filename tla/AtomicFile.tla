----------------------------- MODULE AtomicFile -----------------------------
(***************************************************************************)
(* What writing and opening pointless files promises to their users: a     *)
(* file under a name is replaced as a whole, by one whole file; a reader   *)
(* sees the file that was there when it opened it for as long as it has it *)
(* open; after a power failure the name stands for one of the whole files  *)
(* published before.                                                       *)
(***************************************************************************)
CONSTANTS
    Version,    \* the files that may be published
    Reader,
    None        \* no file

VARIABLES
    current,    \* the version the name stands for
    committed,  \* the version it would stand for after a power failure
    view        \* the version each reader has open

vars == <<current, committed, view>>

Init ==
    /\ current \in Version \cup {None}
    /\ committed = current
    /\ view = [r \in Reader |-> None]

Replace(v) == current' = v /\ UNCHANGED <<committed, view>>

Commit == committed' = current /\ UNCHANGED <<current, view>>

Open(r) ==
    /\ view[r] = None
    /\ view' = [view EXCEPT ![r] = current]
    /\ UNCHANGED <<current, committed>>

Close(r) ==
    /\ view' = [view EXCEPT ![r] = None]
    /\ UNCHANGED <<current, committed>>

PowerFailure ==
    /\ current' = committed
    /\ view' = [r \in Reader |-> None]
    /\ UNCHANGED committed

Next ==
    \/ \E v \in Version : Replace(v)
    \/ Commit
    \/ \E r \in Reader : Open(r) \/ Close(r)
    \/ PowerFailure

Spec == Init /\ [][Next]_vars
=============================================================================
