---------------------------- MODULE StoreFiles ----------------------------
(***************************************************************************)
(* The files of LocalStore and KeyedIndex (vllm_kappa/fabric.py): a put    *)
(* writes a temporary file, named by the process id, and renames it to the *)
(* name the readers know. Objects are written only where no file exists,   *)
(* index entries always. Threads of one process share their temporary      *)
(* names; nothing is synced, so a power failure may undo or empty what was *)
(* published, while the death of a process only stops its threads.         *)
(***************************************************************************)
EXTENDS Integers, Sequences, FiniteSets

CONSTANTS
    Thread, Process,
    ProcessOf,  \* ProcessOf[t]: the process t runs in
    Object,     \* labels of objects; the label stands for the whole bytes
    Key,        \* names of index files
    Work,       \* Work[t]: the puts of t, in order: <<name, value>>
    MaxDrops,   \* bound: how often a mapping is dropped
    Absent,     \* no file
    Torn        \* a file that is empty or not completely written

Name == Object \cup Key
Value == Object \cup {Absent, Torn}

\* An object is put under its own label; an index entry holds the label of an
\* object its thread has put before.
ASSUME WorkAssumption ==
    /\ ProcessOf \in [Thread -> Process]
    /\ Work \in [Thread -> Seq(Name \X Object)]
    /\ \A t \in Thread : \A i \in 1 .. Len(Work[t]) :
          /\ Work[t][i][1] \in Object => Work[t][i][2] = Work[t][i][1]
          /\ Work[t][i][1] \in Key => \E j \in 1 .. i - 1 : Work[t][j][1] = Work[t][i][2]
    /\ Object \cap Key = {} /\ Absent # Torn
    /\ {Absent, Torn} \cap Object = {}
    /\ MaxDrops \in Nat

VARIABLES
    file,     \* what a reader finds under each name
    platter,  \* what a power failure would leave of it
    tmp,      \* tmp[p][n]: the temporary file of process p for n
    life,     \* each process: "new", "up" or "dead"
    pc,       \* each thread: "next", "open", "write", "rename" or "raised"
    done,     \* how many of its puts each thread has finished
    handle,   \* what its descriptor writes to: the temporary file ("tmp"), the
              \* published one after another thread renamed it ("file"), or none
    drops,
    clashed,  \* history: the names two threads of one process wrote at a time
    lost      \* history: the names a power failure changed

vars == <<file, platter, tmp, life, pc, done, handle, drops, clashed, lost>>

TypeOK ==
    /\ file \in [Name -> Value]
    /\ platter \in [Name -> Value]
    /\ tmp \in [Process -> [Name -> Value]]
    /\ life \in [Process -> {"new", "up", "dead"}]
    /\ pc \in [Thread -> {"next", "open", "write", "rename", "raised"}]
    /\ done \in [Thread -> Nat]
    /\ \A t \in Thread : done[t] <= Len(Work[t])
    /\ \A t \in Thread : pc[t] \in {"open", "write", "rename"} => done[t] < Len(Work[t])
    /\ handle \in [Thread -> {"none", "tmp", "file"}]
    /\ drops \in 0 .. MaxDrops
    /\ clashed \subseteq Name /\ lost \subseteq Name

Init ==
    /\ file = [n \in Name |-> Absent]
    /\ platter = [n \in Name |-> Absent]
    /\ tmp = [p \in Process |-> [n \in Name |-> Absent]]
    /\ life = [p \in Process |-> "new"]
    /\ pc = [t \in Thread |-> "next"]
    /\ done = [t \in Thread |-> 0]
    /\ handle = [t \in Thread |-> "none"]
    /\ drops = 0 /\ clashed = {} /\ lost = {}

-----------------------------------------------------------------------------
(* LocalStore.put and KeyedIndex.put, step by step.                         *)

Runs(t) == life[ProcessOf[t]] = "up"
Target(t) == Work[t][done[t] + 1][1]
Written(t) == Work[t][done[t] + 1][2]

\* Faulty variant: the temporary name has no process id.
OneTmp(t) == CHOOSE p \in Process : TRUE

\* Whose temporary file t writes: the name ends with os.getpid().
TmpOf(t) == ProcessOf[t]

\* The threads that are between the opening and the renaming of n's temporary
\* file.
Writing(n) ==
    {t \in Thread : Runs(t) /\ pc[t] \in {"write", "rename"} /\ Target(t) = n}

\* Faulty variant: a put that is done goes on to write.
FallsThrough(t) ==
    /\ done' = [done EXCEPT ![t] = done[t] + 1]
    /\ pc' = [pc EXCEPT ![t] = "open"]

Finish(t) ==
    /\ done' = [done EXCEPT ![t] = done[t] + 1]
    /\ pc' = [pc EXCEPT ![t] = "next"]

\* Faulty variant: a temporary file counts as the object.
ExistsOrComing(t) ==
    Target(t) \in Object
    /\ (file[Target(t)] # Absent \/ tmp[TmpOf(t)][Target(t)] # Absent)

\* path.exists(), asked by LocalStore only.
Exists(t) == Target(t) \in Object /\ file[Target(t)] # Absent

Skip(t) ==
    /\ Runs(t) /\ pc[t] = "next" /\ done[t] < Len(Work[t])
    /\ Exists(t)
    /\ Finish(t)
    /\ UNCHANGED <<file, platter, tmp, life, handle, drops, clashed, lost>>

Begin(t) ==
    /\ Runs(t) /\ pc[t] = "next" /\ done[t] < Len(Work[t])
    /\ ~Exists(t)
    /\ pc' = [pc EXCEPT ![t] = "open"]
    /\ UNCHANGED <<file, platter, tmp, life, done, handle, drops, clashed, lost>>

\* Faulty variant: the bytes are written under the final name.
OpenInPlace(t) ==
    /\ Runs(t) /\ pc[t] = "open"
    /\ file' = [file EXCEPT ![Target(t)] = Torn]
    /\ handle' = [handle EXCEPT ![t] = "file"]
    /\ pc' = [pc EXCEPT ![t] = "write"]
    /\ UNCHANGED <<platter, tmp, life, done, drops, clashed, lost>>

\* write_bytes opens the temporary file and empties it, whoever made it.
Open(t) ==
    /\ Runs(t) /\ pc[t] = "open"
    /\ LET p == TmpOf(t)  n == Target(t) IN
          /\ tmp' = [tmp EXCEPT ![p][n] = Torn]
          /\ clashed' = IF \E u \in Writing(n) : ProcessOf[u] = ProcessOf[t]
                        THEN clashed \cup {n} ELSE clashed
    /\ handle' = [handle EXCEPT ![t] = "tmp"]
    /\ pc' = [pc EXCEPT ![t] = "write"]
    /\ UNCHANGED <<file, platter, life, done, drops, lost>>

\* Faulty variant: the bytes go to the temporary file or nowhere.
WriteTmpOnly(t) ==
    /\ Runs(t) /\ pc[t] = "write"
    /\ tmp' = IF handle[t] = "tmp"
              THEN [tmp EXCEPT ![TmpOf(t)][Target(t)] = Written(t)] ELSE tmp
    /\ pc' = [pc EXCEPT ![t] = "rename"]
    /\ UNCHANGED <<file, platter, life, done, handle, drops, clashed, lost>>

\* It writes the bytes into whatever its descriptor stands for by now.
Write(t) ==
    /\ Runs(t) /\ pc[t] = "write"
    /\ tmp' = IF handle[t] = "tmp"
              THEN [tmp EXCEPT ![TmpOf(t)][Target(t)] = Written(t)] ELSE tmp
    /\ file' = IF handle[t] = "file"
               THEN [file EXCEPT ![Target(t)] = Written(t)] ELSE file
    /\ pc' = [pc EXCEPT ![t] = "rename"]
    /\ UNCHANGED <<platter, life, done, handle, drops, clashed, lost>>

\* Descriptors on n follow their files when t renames: the temporary file of its
\* process becomes the published one, and what was published is unlinked.
Followed(t, n) ==
    [u \in Thread |->
        IF u = t THEN "none"
        ELSE IF Runs(u) /\ pc[u] \in {"write", "rename"} /\ Target(u) = n
        THEN IF handle[u] = "file" THEN "none"
             ELSE IF handle[u] = "tmp" /\ TmpOf(u) = TmpOf(t) THEN "file"
             ELSE handle[u]
        ELSE handle[u]]

Rename(t) ==
    /\ Runs(t) /\ pc[t] = "rename"
    /\ LET p == TmpOf(t)  n == Target(t) IN
          /\ tmp[p][n] # Absent
          /\ file' = [file EXCEPT ![n] = tmp[p][n]]
          /\ tmp' = [tmp EXCEPT ![p][n] = Absent]
          /\ handle' = Followed(t, n)
    /\ Finish(t)
    /\ UNCHANGED <<platter, life, drops, clashed, lost>>

\* Another thread of the process renamed the temporary file away: replace raises
\* FileNotFoundError, and with it the put.
RenameRaises(t) ==
    /\ Runs(t) /\ pc[t] = "rename"
    /\ tmp[TmpOf(t)][Target(t)] = Absent
    /\ pc' = [pc EXCEPT ![t] = "raised"]
    /\ handle' = [handle EXCEPT ![t] = "none"]
    /\ UNCHANGED <<file, platter, tmp, life, done, drops, clashed, lost>>

PutStep(t) == Skip(t) \/ Begin(t) \/ Open(t) \/ Write(t) \/ Rename(t) \/ RenameRaises(t)

\* KeyedIndex.drop; descriptors on the file keep it, but nobody finds it.
Drop ==
    /\ drops < MaxDrops
    /\ drops' = drops + 1
    /\ \E k \in Key :
          /\ file[k] # Absent
          /\ file' = [file EXCEPT ![k] = Absent]
          /\ handle' = [u \in Thread |->
                IF handle[u] = "file" /\ Target(u) = k THEN "none" ELSE handle[u]]
    /\ UNCHANGED <<platter, tmp, life, pc, done, clashed, lost>>

-----------------------------------------------------------------------------
(* The system around the store. *)

Boot(p) ==
    /\ life[p] = "new"
    /\ life' = [life EXCEPT ![p] = "up"]
    /\ UNCHANGED <<file, platter, tmp, pc, done, handle, drops, clashed, lost>>

\* The process dies; its temporary files stay, and no later process has its id.
Dies(p) ==
    /\ life[p] = "up"
    /\ life' = [life EXCEPT ![p] = "dead"]
    /\ UNCHANGED <<file, platter, tmp, pc, done, handle, drops, clashed, lost>>

\* The kernel writes a name and its bytes back.
Writeback ==
    /\ \E n \in Name : /\ platter[n] # file[n]
                       /\ platter' = [platter EXCEPT ![n] = file[n]]
    /\ UNCHANGED <<file, tmp, life, pc, done, handle, drops, clashed, lost>>

\* What is not written back yet may be as it was before, or be a name without
\* bytes; all running processes end.
PowerFails ==
    /\ \E n \in Name : file[n] # platter[n]
    /\ file' \in [Name -> Value]
    /\ \A n \in Name :
          file'[n] \in IF file[n] = platter[n] THEN {file[n]}
                       ELSE IF file[n] = Absent THEN {Absent, platter[n]}
                       ELSE {file[n], platter[n], Torn}
    /\ platter' = file'
    /\ lost' = lost \cup {n \in Name : file'[n] # file[n]}
    /\ life' = [p \in Process |-> IF life[p] = "up" THEN "dead" ELSE life[p]]
    /\ UNCHANGED <<tmp, pc, done, handle, drops, clashed>>

\* All is done, or nobody is left to do it.
Over ==
    /\ \A t \in Thread : \/ life[ProcessOf[t]] = "dead"
                         \/ Runs(t) /\ (pc[t] = "raised" \/ done[t] = Len(Work[t]))
    /\ UNCHANGED vars

Next ==
    \/ \E t \in Thread : PutStep(t)
    \/ \E p \in Process : Boot(p) \/ Dies(p)
    \/ Drop \/ Writeback \/ PowerFails \/ Over

Spec == Init /\ [][Next]_vars

\* The threads of a running process go on with their puts.
FairSpec == Spec /\ \A t \in Thread : WF_vars(PutStep(t))
=============================================================================
