----------------------- MODULE StoreFilesCorrectness -----------------------
(* What readers may rely on, and where the temporary names are too few.     *)
EXTENDS StoreFiles

\* A reader finds part of a file only if two threads of one process wrote the
\* same name at a time, or a power failure came before the kernel had written it
\* back: processes that race, and processes that die at any point, leave names
\* that are absent or whole (LocalStore.put, KeyedIndex.put).
TornHasACause == \A n \in Name : file[n] = Torn => n \in clashed \cup lost

\* Who puts an object and then its mapping publishes no mapping to an object that
\* is not there, whole, whoever races with it; a power failure or a clash of
\* threads on that object is the only excuse (connector.py:474-480).
KeyIsBacked ==
    \A k \in Key : file[k] \in Object =>
        file[file[k]] = file[k] \/ file[k] \in clashed \cup lost

\* Outside the names that clashes and power failures spoiled, the two-step puts
\* are atomic ones: the temporary files, the race of the check for existence with
\* another process's rename and the deaths between the steps are not to be seen
\* (LocalStore.put, KeyedIndex.put, KeyedIndex.drop).
Unspoilt == [n \in Name \ (clashed \cup lost) |-> file[n]]
Atomic == INSTANCE AtomicFiles WITH stored <- Unspoilt
ImplementsAtomicFiles == Atomic!Spec

\* A put raises, which ends the thread of the drafter and fails the job of the
\* witness writer, only after two threads of one process wrote the same name.
RaiseHasACause == \A t \in Thread : pc[t] = "raised" => Target(t) \in clashed

\* What a clash tore is whole again once the slower thread has written, unless its
\* process or the power dies first, and then no put ever writes it again.
ClashHeals ==
    \A n \in Object :
        (file[n] = Torn /\ n \notin lost)
            ~> (file[n] # Torn \/ \E p \in Process : life[p] = "dead")
=============================================================================
