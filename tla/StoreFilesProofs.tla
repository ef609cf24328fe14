------------------------- MODULE StoreFilesProofs -------------------------
(* What readers find, for any number of threads, processes, names and puts, *)
(* wherever processes die and the power fails.                              *)
EXTENDS StoreFilesCorrectness, TLAPS

\* A label that may be mapped to: its object is there and whole, or a clash or a
\* power failure took it.
Backed(o) == file[o] = o \/ o \in clashed \cup lost

Writes(t) == Runs(t) /\ pc[t] \in {"write", "rename"}

\* Where no two threads of a process clashed, a thread has its temporary file for
\* itself, and what it wrote is still in it.
TmpIsItsOwn ==
    \A t \in Thread : Writes(t) /\ Target(t) \notin clashed =>
        /\ handle[t] = "tmp"
        /\ pc[t] = "rename" => tmp[TmpOf(t)][Target(t)] = Written(t)
        /\ \A u \in Thread :
              Writes(u) /\ TmpOf(u) = TmpOf(t) /\ Target(u) = Target(t) => u = t

\* Under an object's name there are its bytes or none.
OwnBytes ==
    \A o \in Object :
        /\ file[o] \in {Absent, Torn, o} /\ platter[o] \in {Absent, Torn, o}
        /\ \A p \in Process : tmp[p][o] \in {Absent, Torn, o}

\* The threads of a process that has not started have not either.
NewIsIdle == \A t \in Thread : life[ProcessOf[t]] = "new" => pc[t] = "next"

\* An object that was put can be mapped to.
DoneIsBacked ==
    \A t \in Thread : \A i \in 1 .. done[t] :
        Work[t][i][1] \in Object => Backed(Work[t][i][1])

\* So can what the mappings on the disk, and those to be published, name.
ComingIsBacked ==
    \A k \in Key :
        /\ platter[k] \in Object => Backed(platter[k])
        /\ \A p \in Process : tmp[p][k] \in Object => Backed(tmp[p][k])

Inv ==
    /\ TypeOK /\ NewIsIdle /\ TmpIsItsOwn /\ OwnBytes /\ DoneIsBacked /\ ComingIsBacked
    /\ TornHasACause /\ KeyIsBacked /\ RaiseHasACause

-----------------------------------------------------------------------------
(* Puts. *)

\* What a thread with a put to do puts, and where.
LEMMA WorkType ==
    ASSUME NEW t \in Thread, TypeOK, done[t] < Len(Work[t])
    PROVE  /\ Target(t) \in Name /\ Written(t) \in Object /\ TmpOf(t) \in Process
           /\ done[t] + 1 \in 1 .. Len(Work[t])
           /\ Target(t) \in Object => Written(t) = Target(t)
           /\ Target(t) \in Key =>
                 \E j \in 1 .. done[t] : Work[t][j][1] = Written(t)
<1>1. Work[t] \in Seq(Name \X Object) /\ ProcessOf[t] \in Process /\ done[t] \in Nat
  BY WorkAssumption DEF TypeOK
<1>2. done[t] + 1 \in 1 .. Len(Work[t])
  BY <1>1
<1>3. Work[t][done[t] + 1] \in Name \X Object
  BY <1>1, <1>2
<1>4. /\ Work[t][done[t] + 1][1] \in Object => Work[t][done[t] + 1][2] = Work[t][done[t] + 1][1]
      /\ Work[t][done[t] + 1][1] \in Key =>
            \E j \in 1 .. (done[t] + 1) - 1 : Work[t][j][1] = Work[t][done[t] + 1][2]
  BY <1>2, WorkAssumption
<1>5. (done[t] + 1) - 1 = done[t] BY <1>1
<1> QED BY <1>1, <1>2, <1>3, <1>4, <1>5 DEF Target, Written, TmpOf

LEMMA InitInv == Init => Inv
<1> SUFFICES ASSUME Init PROVE Inv OBVIOUS
<1>1. TypeOK
  <2>1. \A t \in Thread : Len(Work[t]) \in Nat
    BY WorkAssumption
  <2> QED BY <2>1, WorkAssumption DEF Init, TypeOK, Value
<1>2. NewIsIdle /\ TmpIsItsOwn /\ DoneIsBacked /\ RaiseHasACause
  BY DEF Init, NewIsIdle, TmpIsItsOwn, Writes, Runs, DoneIsBacked, RaiseHasACause
<1>3. OwnBytes /\ ComingIsBacked /\ TornHasACause /\ KeyIsBacked
  BY WorkAssumption DEF Init, OwnBytes, ComingIsBacked, TornHasACause, KeyIsBacked, Name, Value
<1> QED BY <1>1, <1>2, <1>3 DEF Inv

-----------------------------------------------------------------------------
(* The type of the state. *)

LEMMA TypeStep == TypeOK /\ [Next]_vars => TypeOK'
<1> SUFFICES ASSUME TypeOK, [Next]_vars PROVE TypeOK' OBVIOUS
<1> USE WorkAssumption
<1>0. \A t \in Thread : Len(Work[t]) \in Nat OBVIOUS
<1>1. ASSUME NEW t \in Thread, Skip(t) PROVE TypeOK'
  BY <1>0, <1>1 DEF Skip, Finish, TypeOK
<1>2. ASSUME NEW t \in Thread, Begin(t) PROVE TypeOK'
  BY <1>0, <1>2 DEF Begin, TypeOK
<1>3. ASSUME NEW t \in Thread, Open(t) PROVE TypeOK'
  <2>1. Target(t) \in Name /\ TmpOf(t) \in Process
    BY <1>3, WorkType DEF Open, TypeOK
  <2>2. tmp' \in [Process -> [Name -> Value]] /\ clashed' \subseteq Name
    BY <1>3, <2>1 DEF Open, TypeOK, Value
  <2>3. pc' = [pc EXCEPT ![t] = "write"] /\ handle' = [handle EXCEPT ![t] = "tmp"]
    BY <1>3 DEF Open
  <2>4. UNCHANGED <<file, platter, life, done, drops, lost>> /\ pc[t] = "open"
    BY <1>3 DEF Open
  <2> QED BY <2>2, <2>3, <2>4 DEF TypeOK
<1>4. ASSUME NEW t \in Thread, Write(t) PROVE TypeOK'
  <2>1. Target(t) \in Name /\ TmpOf(t) \in Process /\ Written(t) \in Value
    BY <1>4, WorkType DEF Write, TypeOK, Value
  <2>2. tmp' \in [Process -> [Name -> Value]] /\ file' \in [Name -> Value]
    BY <1>4, <2>1 DEF Write, TypeOK
  <2> QED BY <1>4, <2>2 DEF Write, TypeOK
<1>5. ASSUME NEW t \in Thread, Rename(t) PROVE TypeOK'
  <2>1. Target(t) \in Name /\ TmpOf(t) \in Process
    BY <1>5, WorkType DEF Rename, TypeOK
  <2>2. tmp' \in [Process -> [Name -> Value]] /\ file' \in [Name -> Value]
    BY <1>5, <2>1 DEF Rename, TypeOK, Value
  <2>3. handle' \in [Thread -> {"none", "tmp", "file"}]
    BY <1>5 DEF Rename, Followed, TypeOK
  <2>4. done[t] < Len(Work[t]) /\ done[t] \in Nat /\ Len(Work[t]) \in Nat
    BY <1>0, <1>5 DEF Rename, TypeOK
  <2>5. done' \in [Thread -> Nat] /\ \A u \in Thread : done'[u] <= Len(Work[u])
    BY <1>0, <1>5, <2>4 DEF Rename, Finish, TypeOK
  <2>6. /\ pc' \in [Thread -> {"next", "open", "write", "rename", "raised"}]
        /\ \A u \in Thread : pc'[u] \in {"open", "write", "rename"} => done'[u] < Len(Work[u])
    BY <1>5 DEF Rename, Finish, TypeOK
  <2>7. UNCHANGED <<platter, life, drops, clashed, lost>>
    BY <1>5 DEF Rename
  <2>8. /\ platter' \in [Name -> Value] /\ life' \in [Process -> {"new", "up", "dead"}]
        /\ drops' \in 0 .. MaxDrops /\ clashed' \subseteq Name /\ lost' \subseteq Name
    BY <2>7 DEF TypeOK
  <2> HIDE WorkAssumption
  <2> QED BY <2>2, <2>3, <2>5, <2>6, <2>8, Zenon DEF TypeOK
<1>6. ASSUME NEW t \in Thread, RenameRaises(t) PROVE TypeOK'
  BY <1>6 DEF RenameRaises, TypeOK
<1>7. CASE Drop
  BY <1>7 DEF Drop, TypeOK, Value, Name
<1>8. ASSUME NEW p \in Process, Boot(p) \/ Dies(p) PROVE TypeOK'
  BY <1>8 DEF Boot, Dies, TypeOK
<1>9. CASE Writeback
  BY <1>9 DEF Writeback, TypeOK
<1>10. CASE PowerFails
  BY <1>10 DEF PowerFails, TypeOK
<1>11. CASE Over \/ UNCHANGED vars
  BY <1>11 DEF Over, vars, TypeOK
<1> QED
  BY <1>1, <1>2, <1>3, <1>4, <1>5, <1>6, <1>7, <1>8, <1>9, <1>10, <1>11 DEF Next, PutStep

-----------------------------------------------------------------------------
(* One lemma per action: the rest of the invariant. *)

Rest ==
    /\ NewIsIdle /\ TmpIsItsOwn /\ OwnBytes /\ DoneIsBacked /\ ComingIsBacked
    /\ TornHasACause /\ KeyIsBacked /\ RaiseHasACause

\* An object that exists may be mapped to.
LEMMA ThereIsBacked ==
    ASSUME Inv, NEW o \in Object, file[o] # Absent
    PROVE  Backed(o)
BY DEF Inv, OwnBytes, TornHasACause, Backed, Name

LEMMA SkipInv == ASSUME Inv, NEW t \in Thread, Skip(t) PROVE Rest'
<1>0. TypeOK BY DEF Inv
<1>1. /\ UNCHANGED <<file, platter, tmp, life, handle, clashed, lost>>
      /\ done' = [done EXCEPT ![t] = done[t] + 1] /\ pc' = [pc EXCEPT ![t] = "next"]
      /\ Exists(t) /\ Runs(t)
  BY DEF Skip, Finish
<1>2. \A u \in Thread : u # t =>
          Target(u)' = Target(u) /\ Written(u)' = Written(u) /\ pc'[u] = pc[u]
  BY <1>0, <1>1 DEF Target, Written, TypeOK
<1>3. pc'[t] = "next" BY <1>0, <1>1 DEF TypeOK
<1>4. NewIsIdle'
  BY <1>1, <1>2, <1>3 DEF Inv, NewIsIdle
<1>5. TmpIsItsOwn'
  BY <1>1, <1>2, <1>3 DEF Inv, TmpIsItsOwn, Writes, Runs, TmpOf
<1>6. Backed(Target(t))
  BY <1>1, ThereIsBacked DEF Exists
<1>7. DoneIsBacked'
  <2>1. \A o : Backed(o)' <=> Backed(o)
    BY <1>1 DEF Backed
  <2>2. ASSUME NEW u \in Thread, NEW i \in 1 .. done'[u], Work[u][i][1] \in Object
        PROVE  Backed(Work[u][i][1])
    <3>1. CASE i \in 1 .. done[u]
      BY <2>2, <3>1 DEF Inv, DoneIsBacked
    <3>2. CASE i \notin 1 .. done[u]
      <4>1. u = t /\ i = done[t] + 1
        BY <1>0, <1>1, <2>2, <3>2 DEF TypeOK
      <4> QED BY <1>6, <4>1 DEF Target
    <3> QED BY <3>1, <3>2
  <2> QED BY <2>1, <2>2 DEF DoneIsBacked
<1>8. ComingIsBacked' /\ OwnBytes' /\ TornHasACause' /\ KeyIsBacked'
  BY <1>1 DEF Inv, ComingIsBacked, OwnBytes, TornHasACause, KeyIsBacked, Backed
<1>9. RaiseHasACause'
  BY <1>1, <1>2, <1>3 DEF Inv, RaiseHasACause
<1> QED BY <1>4, <1>5, <1>7, <1>8, <1>9 DEF Rest

\* A step that leaves the files and the puts alone keeps what they say.
LEMMA FilesAlone ==
    ASSUME Inv, UNCHANGED <<file, platter, tmp, done, clashed, lost>>
    PROVE  OwnBytes' /\ DoneIsBacked' /\ ComingIsBacked' /\ TornHasACause' /\ KeyIsBacked'
<1>1. \A o : Backed(o)' <=> Backed(o)
  BY DEF Backed
<1>2. OwnBytes' /\ TornHasACause' /\ KeyIsBacked'
  BY DEF Inv, OwnBytes, TornHasACause, KeyIsBacked
<1>3. DoneIsBacked'
  BY <1>1 DEF Inv, DoneIsBacked
<1>4. ComingIsBacked'
  BY <1>1 DEF Inv, ComingIsBacked
<1> QED BY <1>2, <1>3, <1>4

LEMMA BeginInv == ASSUME Inv, NEW t \in Thread, Begin(t) PROVE Rest'
<1>0. TypeOK BY DEF Inv
<1>1. /\ UNCHANGED <<file, platter, tmp, life, done, handle, clashed, lost>>
      /\ pc' = [pc EXCEPT ![t] = "open"] /\ Runs(t)
  BY DEF Begin
<1>2. \A u \in Thread : Target(u)' = Target(u) /\ Written(u)' = Written(u)
  BY <1>1 DEF Target, Written
<1>3. \A u \in Thread : pc'[u] = IF u = t THEN "open" ELSE pc[u]
  BY <1>0, <1>1 DEF TypeOK
<1>4. NewIsIdle' /\ RaiseHasACause'
  BY <1>1, <1>2, <1>3 DEF Inv, NewIsIdle, RaiseHasACause, Runs
<1>5. TmpIsItsOwn'
  BY <1>1, <1>2, <1>3 DEF Inv, TmpIsItsOwn, Writes, Runs, TmpOf
<1> QED BY <1>1, <1>4, <1>5, FilesAlone DEF Rest

LEMMA OpenInv == ASSUME Inv, NEW t \in Thread, Open(t) PROVE Rest'
<1> DEFINE n == Target(t)
<1> DEFINE p == TmpOf(t)
<1>0. TypeOK BY DEF Inv
<1>1. /\ UNCHANGED <<file, platter, life, done, lost>>
      /\ tmp' = [tmp EXCEPT ![p][n] = Torn]
      /\ clashed' = IF \E u \in Writing(n) : ProcessOf[u] = ProcessOf[t]
                    THEN clashed \cup {n} ELSE clashed
      /\ handle' = [handle EXCEPT ![t] = "tmp"]
      /\ pc' = [pc EXCEPT ![t] = "write"] /\ Runs(t) /\ pc[t] = "open"
  BY DEF Open
<1>2. \A u \in Thread : Target(u)' = Target(u) /\ Written(u)' = Written(u) /\ TmpOf(u)' = TmpOf(u)
  BY <1>1 DEF Target, Written, TmpOf
<1>3. \A u \in Thread : /\ pc'[u] = IF u = t THEN "write" ELSE pc[u]
                        /\ handle'[u] = IF u = t THEN "tmp" ELSE handle[u]
  BY <1>0, <1>1 DEF TypeOK
<1>4. n \in Name /\ p \in Process
  BY <1>0, <1>1, WorkType DEF TypeOK
<1>5. \A q \in Process : \A m \in Name : tmp'[q][m] = IF q = p /\ m = n THEN Torn ELSE tmp[q][m]
  BY <1>0, <1>1, <1>4 DEF TypeOK
<1>6. clashed \subseteq clashed' BY <1>1
<1>7. NewIsIdle' /\ RaiseHasACause'
  BY <1>1, <1>2, <1>3, <1>6 DEF Inv, NewIsIdle, RaiseHasACause, Runs
<1>8. \A o : Backed(o) => Backed(o)'
  BY <1>1, <1>6 DEF Backed
<1>9. OwnBytes'
  BY <1>1, <1>5 DEF Inv, OwnBytes, Name
<1>10. DoneIsBacked'
  BY <1>1, <1>8 DEF Inv, DoneIsBacked
<1>11. ComingIsBacked'
  BY <1>1, <1>5, <1>8, WorkAssumption DEF Inv, ComingIsBacked, Name
<1>12. TornHasACause' /\ KeyIsBacked'
  BY <1>1, <1>6 DEF Inv, TornHasACause, KeyIsBacked
<1>13. ASSUME NEW u \in Thread, Writes(u)', Target(u) \notin clashed'
       PROVE  /\ handle'[u] = "tmp"
              /\ pc'[u] = "rename" => tmp'[TmpOf(u)][Target(u)] = Written(u)
              /\ \A v \in Thread :
                    Writes(v)' /\ TmpOf(v) = TmpOf(u) /\ Target(v) = Target(u) => v = u
  <2>1. \A v \in Thread \ {t} : Writes(v)' => Writes(v)
    BY <1>1, <1>3 DEF Writes, Runs
  <2>2. \A v \in Thread \ {t} : Writes(v) /\ Target(v) = n /\ TmpOf(v) = p => n \in clashed'
    BY <1>1 DEF Writing, Writes, TmpOf
  <2>3. CASE u = t
    BY <1>3, <1>13, <2>1, <2>2, <2>3
  <2>4. CASE u # t
    <3>1. Writes(u) /\ Target(u) \notin clashed
      BY <1>6, <1>13, <2>1, <2>4
    <3>2. ~(TmpOf(u) = p /\ Target(u) = n)
      BY <1>13, <2>2, <2>4, <3>1
    <3>3. Target(u) \in Name /\ TmpOf(u) \in Process
      BY <1>0, <3>1, WorkType DEF Writes, TypeOK
    <3> QED BY <1>3, <1>5, <2>1, <2>4, <3>1, <3>2, <3>3 DEF Inv, TmpIsItsOwn
  <2> QED BY <2>3, <2>4
<1>14. TmpIsItsOwn'
  BY <1>2, <1>13 DEF TmpIsItsOwn
<1> QED BY <1>7, <1>9, <1>10, <1>11, <1>12, <1>14 DEF Rest

LEMMA WriteInv == ASSUME Inv, NEW t \in Thread, Write(t) PROVE Rest'
<1> DEFINE n == Target(t)
<1> DEFINE p == TmpOf(t)
<1>0. TypeOK BY DEF Inv
<1>1. /\ UNCHANGED <<platter, life, done, handle, clashed, lost>>
      /\ tmp' = IF handle[t] = "tmp" THEN [tmp EXCEPT ![p][n] = Written(t)] ELSE tmp
      /\ file' = IF handle[t] = "file" THEN [file EXCEPT ![n] = Written(t)] ELSE file
      /\ pc' = [pc EXCEPT ![t] = "rename"] /\ Runs(t) /\ pc[t] = "write"
  BY DEF Write
<1>2. \A u \in Thread : Target(u)' = Target(u) /\ Written(u)' = Written(u) /\ TmpOf(u)' = TmpOf(u)
  BY <1>1 DEF Target, Written, TmpOf
<1>3. \A u \in Thread : pc'[u] = IF u = t THEN "rename" ELSE pc[u]
  BY <1>0, <1>1 DEF TypeOK
<1>4. /\ n \in Name /\ p \in Process /\ Written(t) \in Object
      /\ n \in Object => Written(t) = n
      /\ n \in Key => Backed(Written(t))
  <2>1. done[t] < Len(Work[t]) BY <1>0, <1>1 DEF TypeOK
  <2>2. n \in Key => Backed(Written(t))
    BY <1>0, <2>1, WorkType DEF Inv, DoneIsBacked
  <2> QED BY <1>0, <2>1, <2>2, WorkType
<1>5. \A q \in Process : \A m \in Name :
          tmp'[q][m] = IF q = p /\ m = n /\ handle[t] = "tmp" THEN Written(t) ELSE tmp[q][m]
  BY <1>0, <1>1, <1>4 DEF TypeOK
<1>6. \A m \in Name :
          file'[m] = IF m = n /\ handle[t] = "file" THEN Written(t) ELSE file[m]
  BY <1>0, <1>1, <1>4 DEF TypeOK
<1>7. NewIsIdle' /\ RaiseHasACause'
  BY <1>1, <1>2, <1>3 DEF Inv, NewIsIdle, RaiseHasACause, Runs
<1>8. \A o \in Object : Backed(o) => Backed(o)'
  BY <1>1, <1>4, <1>6 DEF Backed, Name
<1>9. OwnBytes'
  BY <1>1, <1>4, <1>5, <1>6 DEF Inv, OwnBytes, Name
<1>10. DoneIsBacked'
  BY <1>1, <1>8 DEF Inv, DoneIsBacked
<1>11. ComingIsBacked'
  BY <1>1, <1>4, <1>5, <1>8 DEF Inv, ComingIsBacked, Name
<1>12. TornHasACause'
  BY <1>1, <1>4, <1>6, WorkAssumption DEF Inv, TornHasACause
<1>13. KeyIsBacked'
  <2>1. ASSUME NEW k \in Key, file'[k] \in Object PROVE Backed(file'[k])
    BY <1>4, <1>6, <2>1 DEF Inv, KeyIsBacked, Backed, Name
  <2> QED BY <1>8, <2>1 DEF KeyIsBacked, Backed
<1>14. ASSUME NEW u \in Thread, Writes(u)', Target(u) \notin clashed
       PROVE  /\ handle[u] = "tmp"
              /\ pc'[u] = "rename" => tmp'[TmpOf(u)][Target(u)] = Written(u)
              /\ \A v \in Thread :
                    Writes(v)' /\ TmpOf(v) = TmpOf(u) /\ Target(v) = Target(u) => v = u
  <2>1. \A v \in Thread : Writes(v)' => Writes(v)
    BY <1>1, <1>3 DEF Writes, Runs
  <2>2. /\ handle[u] = "tmp"
        /\ pc[u] = "rename" => tmp[TmpOf(u)][Target(u)] = Written(u)
        /\ \A v \in Thread :
              Writes(v) /\ TmpOf(v) = TmpOf(u) /\ Target(v) = Target(u) => v = u
    BY <1>14, <2>1 DEF Inv, TmpIsItsOwn
  <2>3. Target(u) \in Name /\ TmpOf(u) \in Process
    BY <1>0, <1>14, <2>1, WorkType DEF Writes, TypeOK
  <2>4. Writes(t)
    BY <1>1 DEF Writes
  <2>5. pc'[u] = "rename" => tmp'[TmpOf(u)][Target(u)] = Written(u)
    BY <1>3, <1>5, <2>2, <2>3, <2>4
  <2> QED BY <2>1, <2>2, <2>5
<1>15. TmpIsItsOwn'
  BY <1>1, <1>2, <1>14 DEF TmpIsItsOwn
<1> QED BY <1>7, <1>9, <1>10, <1>11, <1>12, <1>13, <1>15 DEF Rest

LEMMA RenameInv == ASSUME Inv, NEW t \in Thread, Rename(t) PROVE Rest'
<1> DEFINE n == Target(t)
<1> DEFINE p == TmpOf(t)
<1>0. TypeOK BY DEF Inv
<1>1. /\ UNCHANGED <<platter, life, clashed, lost>>
      /\ tmp[p][n] # Absent
      /\ file' = [file EXCEPT ![n] = tmp[p][n]]
      /\ tmp' = [tmp EXCEPT ![p][n] = Absent]
      /\ handle' = Followed(t, n)
      /\ done' = [done EXCEPT ![t] = done[t] + 1] /\ pc' = [pc EXCEPT ![t] = "next"]
      /\ Runs(t) /\ pc[t] = "rename"
  BY DEF Rename, Finish
<1>2. \A u \in Thread : u # t =>
          Target(u)' = Target(u) /\ Written(u)' = Written(u) /\ pc'[u] = pc[u]
  BY <1>0, <1>1 DEF Target, Written, TypeOK
<1>3. pc'[t] = "next" BY <1>0, <1>1 DEF TypeOK
<1>4. /\ n \in Name /\ p \in Process /\ Written(t) \in Object
      /\ n \in Object => Written(t) = n
  <2>1. done[t] < Len(Work[t]) BY <1>0, <1>1 DEF TypeOK
  <2> QED BY <1>0, <2>1, WorkType
<1>5. \A q \in Process : \A m \in Name :
          tmp'[q][m] = IF q = p /\ m = n THEN Absent ELSE tmp[q][m]
  BY <1>0, <1>1, <1>4 DEF TypeOK
<1>6. \A m \in Name : file'[m] = IF m = n THEN tmp[p][n] ELSE file[m]
  BY <1>0, <1>1, <1>4 DEF TypeOK
<1>7. NewIsIdle' /\ RaiseHasACause'
  BY <1>1, <1>2, <1>3 DEF Inv, NewIsIdle, RaiseHasACause
<1>8. n \notin clashed => tmp[p][n] = Written(t)
  BY <1>1 DEF Inv, TmpIsItsOwn, Writes
<1>9. \A o \in Object : Backed(o) => Backed(o)'
  BY <1>1, <1>4, <1>6, <1>8 DEF Backed, Name
<1>10. \A o \in Object : o = n => Backed(o)'
  BY <1>1, <1>4, <1>6, <1>8 DEF Backed
<1>11. OwnBytes'
  BY <1>1, <1>4, <1>5, <1>6 DEF Inv, OwnBytes, Name
<1>12. DoneIsBacked'
  <2>1. ASSUME NEW u \in Thread, NEW i \in 1 .. done'[u], Work[u][i][1] \in Object
        PROVE  Backed(Work[u][i][1])'
    <3>1. CASE i \in 1 .. done[u]
      BY <1>9, <2>1, <3>1 DEF Inv, DoneIsBacked
    <3>2. CASE i \notin 1 .. done[u]
      <4>1. u = t /\ i = done[t] + 1
        BY <1>0, <1>1, <2>1, <3>2 DEF TypeOK
      <4> QED BY <1>10, <2>1, <4>1 DEF Target
    <3> QED BY <3>1, <3>2
  <2> QED BY <2>1 DEF DoneIsBacked
<1>13. ComingIsBacked'
  BY <1>1, <1>5, <1>9, WorkAssumption DEF Inv, ComingIsBacked, Name
<1>14. TornHasACause'
  BY <1>1, <1>4, <1>6, <1>8, WorkAssumption DEF Inv, TornHasACause
<1>15. KeyIsBacked'
  <2>1. ASSUME NEW k \in Key, file'[k] \in Object PROVE Backed(file'[k])
    BY <1>4, <1>6, <2>1 DEF Inv, KeyIsBacked, ComingIsBacked, Backed, Name
  <2> QED BY <1>9, <2>1 DEF KeyIsBacked, Backed
<1>16. ASSUME NEW u \in Thread, Writes(u)', Target(u)' \notin clashed
       PROVE  /\ handle'[u] = "tmp"
              /\ pc'[u] = "rename" => tmp'[TmpOf(u)][Target(u)'] = Written(u)'
              /\ \A v \in Thread :
                    Writes(v)' /\ TmpOf(v) = TmpOf(u) /\ Target(v)' = Target(u)' => v = u
  <2>1. \A v \in Thread : Writes(v)' => Writes(v) /\ v # t
    BY <1>1, <1>2, <1>3 DEF Writes, Runs
  <2>2. u # t /\ Target(u)' = Target(u) /\ Written(u)' = Written(u) /\ pc'[u] = pc[u]
    BY <1>2, <1>16, <2>1
  <2>3. /\ handle[u] = "tmp"
        /\ pc[u] = "rename" => tmp[TmpOf(u)][Target(u)] = Written(u)
        /\ \A v \in Thread :
              Writes(v) /\ TmpOf(v) = TmpOf(u) /\ Target(v) = Target(u) => v = u
    BY <1>16, <2>1, <2>2 DEF Inv, TmpIsItsOwn
  <2>4. Writes(t)
    BY <1>1 DEF Writes
  <2>5. ~(TmpOf(u) = p /\ Target(u) = n)
    BY <2>2, <2>3, <2>4
  <2>6. handle'[u] = "tmp"
    BY <1>1, <2>2, <2>3, <2>5 DEF Followed
  <2>7. Target(u) \in Name /\ TmpOf(u) \in Process
    BY <1>0, <1>16, <2>1, WorkType DEF Writes, TypeOK
  <2>8. pc'[u] = "rename" => tmp'[TmpOf(u)][Target(u)'] = Written(u)'
    BY <1>5, <2>2, <2>3, <2>5, <2>7
  <2> QED BY <1>2, <2>1, <2>2, <2>3, <2>6, <2>8
<1>17. TmpIsItsOwn'
  BY <1>1, <1>16 DEF TmpIsItsOwn, TmpOf
<1> QED BY <1>7, <1>11, <1>12, <1>13, <1>14, <1>15, <1>17 DEF Rest

LEMMA RaiseInv == ASSUME Inv, NEW t \in Thread, RenameRaises(t) PROVE Rest'
<1>0. TypeOK BY DEF Inv
<1>1. /\ UNCHANGED <<file, platter, tmp, life, done, clashed, lost>>
      /\ tmp[TmpOf(t)][Target(t)] = Absent
      /\ pc' = [pc EXCEPT ![t] = "raised"] /\ handle' = [handle EXCEPT ![t] = "none"]
      /\ Runs(t) /\ pc[t] = "rename"
  BY DEF RenameRaises
<1>2. \A u \in Thread : Target(u)' = Target(u) /\ Written(u)' = Written(u)
  BY <1>1 DEF Target, Written
<1>3. \A u \in Thread : /\ pc'[u] = IF u = t THEN "raised" ELSE pc[u]
                        /\ u # t => handle'[u] = handle[u]
  BY <1>0, <1>1 DEF TypeOK
<1>4. Target(t) \in clashed
  <2>1. Written(t) \in Object
    BY <1>0, <1>1, WorkType DEF TypeOK
  <2> QED BY <1>1, <2>1, WorkAssumption DEF Inv, TmpIsItsOwn, Writes
<1>5. NewIsIdle' /\ RaiseHasACause'
  BY <1>1, <1>2, <1>3, <1>4 DEF Inv, NewIsIdle, RaiseHasACause, Runs
<1>6. TmpIsItsOwn'
  <2>1. \A u \in Thread : Writes(u)' => Writes(u) /\ u # t
    BY <1>1, <1>3 DEF Writes, Runs
  <2> QED BY <1>1, <1>2, <1>3, <2>1 DEF Inv, TmpIsItsOwn, TmpOf
<1> QED BY <1>1, <1>5, <1>6, FilesAlone DEF Rest

LEMMA DropInv == ASSUME Inv, Drop PROVE Rest'
<1>0. TypeOK BY DEF Inv
<1>1. PICK k \in Key :
        /\ file' = [file EXCEPT ![k] = Absent]
        /\ handle' = [u \in Thread |->
              IF handle[u] = "file" /\ Target(u) = k THEN "none" ELSE handle[u]]
  BY DEF Drop
<1>2. UNCHANGED <<platter, tmp, life, pc, done, clashed, lost>>
  BY DEF Drop
<1>3. \A m \in Name : file'[m] = IF m = k THEN Absent ELSE file[m]
  BY <1>0, <1>1 DEF TypeOK
<1>4. \A u \in Thread : Target(u)' = Target(u) /\ Written(u)' = Written(u)
  BY <1>2 DEF Target, Written
<1>5. \A o \in Object : Backed(o) <=> Backed(o)'
  BY <1>2, <1>3, WorkAssumption DEF Backed, Name
<1>6. NewIsIdle' /\ RaiseHasACause'
  BY <1>2, <1>4 DEF Inv, NewIsIdle, RaiseHasACause
<1>7. TmpIsItsOwn'
  BY <1>1, <1>2, <1>4 DEF Inv, TmpIsItsOwn, TmpOf, Writes, Runs
<1>8. OwnBytes'
  BY <1>2, <1>3 DEF Inv, OwnBytes, Name
<1>9. DoneIsBacked'
  BY <1>2, <1>5 DEF Inv, DoneIsBacked
<1>10. ComingIsBacked'
  BY <1>2, <1>5 DEF Inv, ComingIsBacked
<1>11. TornHasACause'
  BY <1>2, <1>3, WorkAssumption DEF Inv, TornHasACause
<1>12. KeyIsBacked'
  <2>1. ASSUME NEW j \in Key, file'[j] \in Object PROVE Backed(file'[j])
    BY <1>3, <2>1, WorkAssumption DEF Inv, KeyIsBacked, Backed, Name
  <2> QED BY <1>5, <2>1 DEF KeyIsBacked, Backed
<1> QED BY <1>6, <1>7, <1>8, <1>9, <1>10, <1>11, <1>12 DEF Rest

LEMMA LifeInv == ASSUME Inv, NEW p \in Process, Boot(p) \/ Dies(p) PROVE Rest'
<1>0. TypeOK BY DEF Inv
<1>1. /\ UNCHANGED <<file, platter, tmp, pc, done, handle, clashed, lost>>
      /\ \/ life[p] = "new" /\ life' = [life EXCEPT ![p] = "up"]
         \/ life[p] = "up" /\ life' = [life EXCEPT ![p] = "dead"]
  BY DEF Boot, Dies
<1>2. \A q \in Process : /\ life'[q] = "new" => life[q] = "new"
                         /\ life'[q] = "up" => life[q] \in {"new", "up"}
  BY <1>0, <1>1 DEF TypeOK
<1>3. \A u \in Thread : ProcessOf[u] \in Process
  BY WorkAssumption
<1>4. \A u \in Thread : Target(u)' = Target(u) /\ Written(u)' = Written(u)
  BY <1>1 DEF Target, Written
<1>5. NewIsIdle' /\ RaiseHasACause'
  BY <1>1, <1>2, <1>3, <1>4 DEF Inv, NewIsIdle, RaiseHasACause
<1>6. \A u \in Thread : Writes(u)' => Writes(u)
  BY <1>1, <1>2, <1>3 DEF Inv, NewIsIdle, Writes, Runs
<1>7. TmpIsItsOwn'
  BY <1>1, <1>4, <1>6 DEF Inv, TmpIsItsOwn, TmpOf
<1> QED BY <1>1, <1>5, <1>7, FilesAlone DEF Rest

LEMMA WritebackInv == ASSUME Inv, Writeback PROVE Rest'
<1>0. TypeOK BY DEF Inv
<1>1. PICK n \in Name : platter' = [platter EXCEPT ![n] = file[n]]
  BY DEF Writeback
<1>2. UNCHANGED <<file, tmp, life, pc, done, handle, clashed, lost>>
  BY DEF Writeback
<1>3. \A m \in Name : platter'[m] = IF m = n THEN file[n] ELSE platter[m]
  BY <1>0, <1>1 DEF TypeOK
<1>4. \A o : Backed(o)' <=> Backed(o)
  BY <1>2 DEF Backed
<1>5. NewIsIdle' /\ RaiseHasACause' /\ TmpIsItsOwn'
  BY <1>2 DEF Inv, NewIsIdle, RaiseHasACause, TmpIsItsOwn, TmpOf, Writes, Runs, Target, Written
<1>6. OwnBytes'
  BY <1>2, <1>3 DEF Inv, OwnBytes, Name
<1>7. DoneIsBacked' /\ TornHasACause' /\ KeyIsBacked'
  BY <1>2, <1>4 DEF Inv, DoneIsBacked, TornHasACause, KeyIsBacked
<1>8. ComingIsBacked'
  <2>1. \A k \in Key : file[k] \in Object => Backed(file[k])
    BY DEF Inv, KeyIsBacked, Backed
  <2>2. ASSUME NEW k \in Key, platter'[k] \in Object PROVE Backed(platter'[k])
    BY <1>3, <2>1, <2>2 DEF Inv, ComingIsBacked, Name
  <2> QED BY <1>2, <1>4, <2>2 DEF Inv, ComingIsBacked
<1> QED BY <1>5, <1>6, <1>7, <1>8 DEF Rest

LEMMA PowerInv == ASSUME Inv, PowerFails PROVE Rest'
<1>0. TypeOK BY DEF Inv
<1>1. /\ UNCHANGED <<tmp, pc, done, handle, clashed>>
      /\ file' \in [Name -> Value] /\ platter' = file'
      /\ lost' = lost \cup {n \in Name : file'[n] # file[n]}
      /\ life' = [p \in Process |-> IF life[p] = "up" THEN "dead" ELSE life[p]]
  BY DEF PowerFails
<1>2. \A n \in Name : file'[n] \in {file[n], platter[n], Torn}
  BY DEF PowerFails
<1>3. \A n \in Name : file'[n] = file[n] \/ n \in lost'
  BY <1>1
<1>4. lost \subseteq lost' BY <1>1
<1>5. \A u \in Thread : Target(u)' = Target(u) /\ Written(u)' = Written(u)
  BY <1>1 DEF Target, Written
<1>6. \A o \in Object : Backed(o) => Backed(o)'
  BY <1>1, <1>3, <1>4 DEF Backed, Name
<1>7. \A u \in Thread : ~Writes(u)'
  BY <1>0, <1>1, WorkAssumption DEF Writes, Runs, TypeOK
<1>8. TmpIsItsOwn'
  BY <1>7 DEF TmpIsItsOwn
<1>9. NewIsIdle' /\ RaiseHasACause'
  BY <1>0, <1>1, <1>5, WorkAssumption DEF Inv, NewIsIdle, RaiseHasACause
<1>10. OwnBytes'
  BY <1>1, <1>2 DEF Inv, OwnBytes, Name
<1>11. DoneIsBacked'
  BY <1>1, <1>6 DEF Inv, DoneIsBacked
<1>12. \A k \in Key : file'[k] \in Object => Backed(file'[k])
  BY <1>2, WorkAssumption DEF Inv, KeyIsBacked, ComingIsBacked, Backed, Name
<1>13. ComingIsBacked' /\ KeyIsBacked'
  BY <1>1, <1>6, <1>12 DEF Inv, ComingIsBacked, KeyIsBacked, Backed
<1>14. TornHasACause'
  BY <1>1, <1>3, <1>4 DEF Inv, TornHasACause
<1> QED BY <1>8, <1>9, <1>10, <1>11, <1>13, <1>14 DEF Rest

-----------------------------------------------------------------------------

LEMMA InvStep == Inv /\ [Next]_vars => Inv'
<1> SUFFICES ASSUME Inv, [Next]_vars PROVE Inv' OBVIOUS
<1>1. TypeOK'
  BY TypeStep DEF Inv
<1>2. ASSUME NEW t \in Thread, PutStep(t) PROVE Rest'
  BY <1>2, SkipInv, BeginInv, OpenInv, WriteInv, RenameInv, RaiseInv DEF PutStep
<1>3. ASSUME Over \/ UNCHANGED vars PROVE Rest'
  <2>1. UNCHANGED vars BY <1>3 DEF Over
  <2>2. NewIsIdle' /\ RaiseHasACause' /\ TmpIsItsOwn'
    BY <2>1 DEF vars, Inv, NewIsIdle, RaiseHasACause, TmpIsItsOwn, TmpOf, Writes, Runs,
       Target, Written
  <2>3. UNCHANGED <<file, platter, tmp, done, clashed, lost>>
    BY <2>1 DEF vars
  <2>4. OwnBytes' /\ DoneIsBacked' /\ ComingIsBacked' /\ TornHasACause' /\ KeyIsBacked'
    BY <2>3, FilesAlone
  <2> QED BY <2>2, <2>4 DEF Rest
<1>4. ASSUME NEW p \in Process, Boot(p) \/ Dies(p) PROVE Rest'
  BY <1>4, LifeInv
<1>5. ASSUME Drop \/ Writeback \/ PowerFails PROVE Rest'
  BY <1>5, DropInv, WritebackInv, PowerInv
<1>6. Rest'
  BY <1>2, <1>3, <1>4, <1>5 DEF Next
<1> QED BY <1>1, <1>6 DEF Inv, Rest

LEMMA Invariance == Spec => []Inv
BY InitInv, InvStep, PTL DEF Spec

\* The state of the files and of their writers is always one they can be in.
THEOREM TypeCorrect == Spec => []TypeOK
<1>1. Inv => TypeOK BY DEF Inv
<1> QED BY <1>1, Invariance, PTL

\* For any threads, processes and puts: a reader finds part of a file only after
\* two threads of one process wrote that name at a time, or after a power failure
\* (LocalStore.put, KeyedIndex.put).
THEOREM TornOnlyByClash == Spec => []TornHasACause
<1>1. Inv => TornHasACause BY DEF Inv
<1> QED BY <1>1, Invariance, PTL

\* For any puts that map a key to an object only after it: no mapping names an
\* object that is missing, but for a clash on it or a power failure
\* (connector.py:474-480).
THEOREM MappingsAreBacked == Spec => []KeyIsBacked
<1>1. Inv => KeyIsBacked BY DEF Inv
<1> QED BY <1>1, Invariance, PTL

\* A put raises only where two threads of one process wrote the same name.
THEOREM RaiseOnlyByClash == Spec => []RaiseHasACause
<1>1. Inv => RaiseHasACause BY DEF Inv
<1> QED BY <1>1, Invariance, PTL

-----------------------------------------------------------------------------
(* The steps of a put against one atomic put.                               *)

Spoilt == clashed \cup lost

\* A step that neither spoils a name, nor changes an unspoilt file, nor finishes a
\* put is not to be seen.
LEMMA Unseen ==
    ASSUME UNCHANGED <<done, clashed, lost>>,
           \A n \in Name \ Spoilt : file'[n] = file[n]
    PROVE  UNCHANGED <<Unspoilt, done>>
BY DEF Unspoilt, Spoilt

\* A step that spoils names and leaves the others as they were is a Spoil.
LEMMA Spoiling ==
    ASSUME done' = done, Spoilt \subseteq Spoilt',
           \A n \in Name \ Spoilt' : file'[n] = file[n]
    PROVE  Atomic!Spoil
<1>1. /\ Spoilt' \cap (Name \ Spoilt) \in SUBSET DOMAIN Unspoilt
      /\ DOMAIN Unspoilt \ (Spoilt' \cap (Name \ Spoilt)) = Name \ Spoilt'
  BY DEF Unspoilt, Spoilt
<1>2. Unspoilt' = [n \in Name \ Spoilt' |-> file'[n]]
  BY DEF Unspoilt, Spoilt
<1>3. \A n \in Name \ Spoilt' : Unspoilt[n] = file'[n]
  BY DEF Unspoilt, Spoilt
<1>4. Unspoilt' = [n \in DOMAIN Unspoilt \ (Spoilt' \cap (Name \ Spoilt)) |-> Unspoilt[n]]
  BY <1>1, <1>2, <1>3
<1> QED BY <1>1, <1>4 DEF Atomic!Spoil

\* The step that finishes a put shows the whole value under its name, unless the
\* name is spoilt.
LEMMA Finishing ==
    ASSUME TypeOK, NEW t \in Thread, done[t] < Len(Work[t]),
           done' = [done EXCEPT ![t] = done[t] + 1], UNCHANGED <<clashed, lost>>,
           \A n \in Name \ Spoilt :
              file'[n] = IF n = Target(t) THEN Written(t) ELSE file[n]
    PROVE  Atomic!Put(t)
<1>1. Unspoilt' = [Unspoilt EXCEPT ![Target(t)] = Written(t)]
  BY DEF Unspoilt, Spoilt
<1> QED BY <1>1 DEF Atomic!Put, Target, Written

LEMMA PutIsAtomic ==
    ASSUME Inv, NEW t \in Thread, PutStep(t)
    PROVE  Atomic!Next \/ UNCHANGED <<Unspoilt, done>>
<1>0. TypeOK BY DEF Inv
<1>1. CASE Skip(t)
  <2>1. done[t] < Len(Work[t]) /\ Target(t) \in Object /\ file[Target(t)] # Absent
    BY <1>1 DEF Skip, Exists
  <2>2. Written(t) = Target(t)
    BY <1>0, <2>1, WorkType
  <2>3. Target(t) \notin Spoilt => file[Target(t)] = Written(t)
    BY <2>1, <2>2, ThereIsBacked DEF Backed, Spoilt
  <2>4. /\ done' = [done EXCEPT ![t] = done[t] + 1]
        /\ UNCHANGED <<file, clashed, lost>>
    BY <1>1 DEF Skip, Finish
  <2>5. Atomic!Put(t)
    BY <1>0, <2>1, <2>3, <2>4, Finishing
  <2> QED BY <2>5 DEF Atomic!Next
<1>2. CASE Begin(t) \/ RenameRaises(t)
  <2>1. UNCHANGED <<file, done, clashed, lost>>
    BY <1>2 DEF Begin, RenameRaises
  <2> QED BY <2>1, Unseen
<1>3. CASE Open(t)
  <2>1. UNCHANGED <<file, done, lost>> /\ clashed \subseteq clashed'
    BY <1>3 DEF Open
  <2>2. Atomic!Spoil
    BY <2>1, Spoiling DEF Spoilt
  <2> QED BY <2>2 DEF Atomic!Next
<1>4. CASE Write(t)
  <2>1. UNCHANGED <<done, clashed, lost>>
    BY <1>4 DEF Write
  <2>2. Target(t) \notin clashed => handle[t] = "tmp"
    BY <1>4 DEF Write, Inv, TmpIsItsOwn, Writes
  <2>3. \A n \in Name \ Spoilt : file'[n] = file[n]
    BY <1>0, <1>4, <2>2 DEF Write, TypeOK, Spoilt
  <2> QED BY <2>1, <2>3, Unseen
<1>5. CASE Rename(t)
  <2>1. /\ file' = [file EXCEPT ![Target(t)] = tmp[TmpOf(t)][Target(t)]]
        /\ done' = [done EXCEPT ![t] = done[t] + 1]
        /\ UNCHANGED <<clashed, lost>> /\ Writes(t) /\ pc[t] = "rename"
    BY <1>5 DEF Rename, Finish, Writes
  <2>2. Target(t) \notin clashed => tmp[TmpOf(t)][Target(t)] = Written(t)
    BY <2>1 DEF Inv, TmpIsItsOwn
  <2>3. \A n \in Name \ Spoilt :
            file'[n] = IF n = Target(t) THEN Written(t) ELSE file[n]
    BY <1>0, <2>1, <2>2 DEF TypeOK, Spoilt
  <2>4. done[t] < Len(Work[t])
    BY <1>0, <2>1 DEF TypeOK
  <2>5. Atomic!Put(t)
    BY <1>0, <2>1, <2>3, <2>4, Finishing
  <2> QED BY <2>5 DEF Atomic!Next
<1> QED BY <1>1, <1>2, <1>3, <1>4, <1>5 DEF PutStep

LEMMA DropIsAtomic == ASSUME Inv, Drop PROVE Atomic!Next \/ UNCHANGED <<Unspoilt, done>>
<1>1. PICK k \in Key : file' = [file EXCEPT ![k] = Absent]
  BY DEF Drop
<1>2. UNCHANGED <<done, clashed, lost>>
  BY DEF Drop
<1>3. Unspoilt' = [Unspoilt EXCEPT ![k] = Absent]
  <2>1. file \in [Name -> Value]
    BY DEF Inv, TypeOK
  <2>2. \A n \in Name : file'[n] = IF n = k THEN Absent ELSE file[n]
    BY <1>1, <2>1
  <2> QED BY <1>2, <2>2 DEF Unspoilt
<1>4. CASE k \in DOMAIN Unspoilt
  <2>1. Atomic!Drop
    BY <1>2, <1>3, <1>4 DEF Atomic!Drop
  <2> QED BY <2>1 DEF Atomic!Next
<1>5. CASE k \notin DOMAIN Unspoilt
  <2>1. \A n \in Name \ Spoilt : file'[n] = file[n]
    BY <1>1, <1>5 DEF Unspoilt, Spoilt
  <2> QED BY <1>2, <2>1, Unseen
<1> QED BY <1>4, <1>5

\* Wherever processes interleave, die or lose the power: apart from the names that
\* a clash or the power failure spoilt, every put is one atomic step, in the order
\* of its thread, and a drop another.  It is what the modules take for granted that
\* have a put as one action (LocalStore.put, KeyedIndex.put, KeyedIndex.drop).
THEOREM StoreIsAtomic == Spec => ImplementsAtomicFiles
<1>1. Init => Atomic!Init
  BY DEF Init, Atomic!Init, Unspoilt, Name
<1>2. Inv /\ [Next]_vars => [Atomic!Next]_<<Unspoilt, done>>
  <2> SUFFICES ASSUME Inv, [Next]_vars
               PROVE  Atomic!Next \/ UNCHANGED <<Unspoilt, done>>
    OBVIOUS
  <2>1. ASSUME NEW t \in Thread, PutStep(t)
        PROVE  Atomic!Next \/ UNCHANGED <<Unspoilt, done>>
    BY <2>1, PutIsAtomic
  <2>2. ASSUME NEW p \in Process, Boot(p) \/ Dies(p)
        PROVE  UNCHANGED <<Unspoilt, done>>
    <3>1. UNCHANGED <<file, done, clashed, lost>>
      BY <2>2 DEF Boot, Dies
    <3> QED BY <3>1, Unseen
  <2>3. CASE Writeback \/ Over \/ UNCHANGED vars
    <3>1. UNCHANGED <<file, done, clashed, lost>>
      BY <2>3 DEF Writeback, Over, vars
    <3> QED BY <3>1, Unseen
  <2>4. CASE PowerFails
    <3>1. /\ UNCHANGED <<done, clashed>>
          /\ lost' = lost \cup {n \in Name : file'[n] # file[n]}
      BY <2>4 DEF PowerFails
    <3>2. Atomic!Spoil
      BY <3>1, Spoiling DEF Spoilt
    <3> QED BY <3>2 DEF Atomic!Next
  <2> QED BY <2>1, <2>2, <2>3, <2>4, DropIsAtomic DEF Next
<1> QED
  BY <1>1, <1>2, Invariance, PTL DEF Spec, ImplementsAtomicFiles, Atomic!Spec

-----------------------------------------------------------------------------
(* The way to use the store that is safe. *)

Names(t) == {Work[t][i][1] : i \in 1 .. Len(Work[t])}

\* No two threads of one process put the same name.
Separate ==
    \A t, u \in Thread :
        t # u /\ ProcessOf[t] = ProcessOf[u] => Names(t) \cap Names(u) = {}

LEMMA SeparateStep ==
    ASSUME Separate, TypeOK, clashed = {}, [Next]_vars
    PROVE  clashed' = {}
<1>1. ASSUME NEW t \in Thread, Open(t) PROVE clashed' = {}
  <2>1. ASSUME NEW u \in Writing(Target(t)), ProcessOf[u] = ProcessOf[t] PROVE FALSE
    <3>1. /\ u \in Thread /\ pc[u] \in {"write", "rename"} /\ Target(u) = Target(t)
          /\ pc[t] = "open"
      BY <1>1, <2>1 DEF Writing, Open
    <3>2. done[t] < Len(Work[t]) /\ done[u] < Len(Work[u])
      BY <3>1 DEF TypeOK
    <3>3. Target(t) \in Names(t) /\ Target(u) \in Names(u)
      BY <3>1, <3>2, WorkType DEF Names, Target
    <3> QED BY <2>1, <3>1, <3>3 DEF Separate
  <2> QED BY <1>1, <2>1 DEF Open
<1>2. CASE \A t \in Thread : ~Open(t)
  BY <1>2 DEF Next, PutStep, Skip, Begin, Write, Rename, RenameRaises, Boot, Dies, Drop,
     Writeback, PowerFails, Over, vars
<1> QED BY <1>1, <1>2

\* Where the threads of a process put different names (the connector's worker is one
\* thread; a witness writer and a drafter of one process qualify unless they seal
\* equal records), no put ever raises and nothing but a power failure tears a file,
\* however the processes share the directory (LocalStore.put, KeyedIndex.put).
THEOREM SeparateNamesAreSafe ==
    ASSUME Separate
    PROVE  Spec => [](/\ \A t \in Thread : pc[t] # "raised"
                      /\ \A n \in Name : file[n] = Torn => n \in lost)
<1> DEFINE Safe == /\ \A t \in Thread : pc[t] # "raised"
                   /\ \A n \in Name : file[n] = Torn => n \in lost
<1>1. Init => clashed = {}
  BY DEF Init
<1>2. TypeOK /\ clashed = {} /\ [Next]_vars => (clashed = {})'
  BY SeparateStep
<1>3. Inv /\ clashed = {} => Safe
  BY DEF Inv, RaiseHasACause, TornHasACause
<1> HIDE DEF Safe
<1>4. Spec => []Safe
  BY <1>1, <1>2, <1>3, Invariance, TypeCorrect, PTL DEF Spec
<1> QED BY <1>4 DEF Safe

-----------------------------------------------------------------------------
(* What tore a file is still at work on it.                                 *)

\* t has opened the temporary file of p for n (where = "tmp"), or the file that was
\* published from it (where = "file"), and has not written yet.
WritesTo(t, n, where) == pc[t] = "write" /\ handle[t] = where /\ Target(t) = n

TornTmpHasAWriter ==
    \A p \in Process : \A n \in Name :
        tmp[p][n] = Torn /\ life[p] # "dead" =>
            \E t \in Thread : TmpOf(t) = p /\ WritesTo(t, n, "tmp")

\* A file that is torn, but for a power failure, is open in a thread that has yet to
\* write it: the safety half of ClashHeals.
TornHasAWriter ==
    \A n \in Name :
        file[n] = Torn /\ n \notin lost => \E t \in Thread : WritesTo(t, n, "file")

LEMMA InitWriters == Init => TornTmpHasAWriter /\ TornHasAWriter
BY WorkAssumption DEF Init, TornTmpHasAWriter, TornHasAWriter

\* A writer stays one in a step that leaves its put and its descriptor alone.
LEMMA WriterStays ==
    ASSUME NEW u \in Thread, pc'[u] = pc[u], done'[u] = done[u], handle'[u] = handle[u]
    PROVE  \A n, where : WritesTo(u, n, where) => WritesTo(u, n, where)'
BY DEF WritesTo, Target

LEMMA WritersStep ==
    ASSUME Inv, TornTmpHasAWriter, TornHasAWriter, [Next]_vars
    PROVE  TornTmpHasAWriter' /\ TornHasAWriter'
<1>0. TypeOK BY DEF Inv
<1>1. ASSUME NEW t \in Thread, Skip(t) \/ Begin(t) \/ RenameRaises(t)
      PROVE  TornTmpHasAWriter' /\ TornHasAWriter'
  <2>1. UNCHANGED <<file, tmp, life, lost>> /\ pc[t] # "write"
    BY <1>1 DEF Skip, Begin, RenameRaises
  <2>2. \A u \in Thread \ {t} : pc'[u] = pc[u] /\ done'[u] = done[u] /\ handle'[u] = handle[u]
    BY <1>0, <1>1 DEF Skip, Begin, RenameRaises, Finish, TypeOK
  <2>3. \A u \in Thread : \A n, where : WritesTo(u, n, where) => WritesTo(u, n, where)'
    BY <2>1, <2>2, WriterStays DEF WritesTo
  <2> QED BY <2>1, <2>3 DEF TornTmpHasAWriter, TornHasAWriter, TmpOf
<1>2. ASSUME NEW t \in Thread, Open(t) PROVE TornTmpHasAWriter' /\ TornHasAWriter'
  <2>1. /\ UNCHANGED <<file, life, done, lost>> /\ pc[t] = "open"
        /\ tmp' = [tmp EXCEPT ![TmpOf(t)][Target(t)] = Torn]
        /\ pc' = [pc EXCEPT ![t] = "write"] /\ handle' = [handle EXCEPT ![t] = "tmp"]
    BY <1>2 DEF Open
  <2>2. \A u \in Thread \ {t} : pc'[u] = pc[u] /\ done'[u] = done[u] /\ handle'[u] = handle[u]
    BY <1>0, <2>1 DEF TypeOK
  <2>3. \A u \in Thread : \A n, where : WritesTo(u, n, where) => WritesTo(u, n, where)'
    BY <2>1, <2>2, WriterStays DEF WritesTo
  <2>4. \A n : n = Target(t) => WritesTo(t, n, "tmp")'
    BY <1>0, <2>1 DEF WritesTo, Target, TypeOK
  <2>5. \A p \in Process : \A n \in Name :
            tmp'[p][n] = tmp[p][n] \/ (p = TmpOf(t) /\ n = Target(t))
    BY <1>0, <2>1 DEF TypeOK
  <2>6. TornTmpHasAWriter'
    <3> SUFFICES ASSUME NEW p \in Process, NEW n \in Name, tmp'[p][n] = Torn, life'[p] # "dead"
                 PROVE  \E u \in Thread : TmpOf(u) = p /\ WritesTo(u, n, "tmp")'
      BY DEF TornTmpHasAWriter, TmpOf
    <3>1. CASE p = TmpOf(t) /\ n = Target(t)
      BY <2>4, <3>1
    <3>2. CASE tmp'[p][n] = tmp[p][n]
      <4>1. PICK u \in Thread : TmpOf(u) = p /\ WritesTo(u, n, "tmp")
        BY <2>1, <3>2 DEF TornTmpHasAWriter
      <4> QED BY <2>3, <4>1
    <3> QED BY <2>5, <3>1, <3>2
  <2> QED BY <2>1, <2>3, <2>6 DEF TornHasAWriter
<1>3. ASSUME NEW t \in Thread, Write(t) PROVE TornTmpHasAWriter' /\ TornHasAWriter'
  <2>1. /\ UNCHANGED <<life, done, handle, lost>> /\ pc' = [pc EXCEPT ![t] = "rename"]
        /\ tmp' = IF handle[t] = "tmp"
                  THEN [tmp EXCEPT ![TmpOf(t)][Target(t)] = Written(t)] ELSE tmp
        /\ file' = IF handle[t] = "file"
                   THEN [file EXCEPT ![Target(t)] = Written(t)] ELSE file
    BY <1>3 DEF Write
  <2>2. \A u \in Thread \ {t} : \A n, where : WritesTo(u, n, where) => WritesTo(u, n, where)'
    BY <1>0, <2>1, WriterStays DEF TypeOK
  <2>3. Target(t) \in Name /\ TmpOf(t) \in Process /\ Written(t) # Torn
    BY <1>0, <1>3, WorkType, WorkAssumption DEF Write, TypeOK
  <2>4. \A p \in Process : \A n \in Name :
            tmp'[p][n] = Torn =>
                /\ tmp[p][n] = Torn
                /\ ~(p = TmpOf(t) /\ WritesTo(t, n, "tmp"))
    BY <1>0, <2>1, <2>3 DEF TypeOK, WritesTo
  <2>5. \A n \in Name : file'[n] = Torn => file[n] = Torn /\ ~WritesTo(t, n, "file")
    BY <1>0, <2>1, <2>3 DEF TypeOK, WritesTo
  <2>6. TornTmpHasAWriter'
    BY <2>1, <2>2, <2>4 DEF TornTmpHasAWriter, TmpOf
  <2> QED BY <2>1, <2>2, <2>5, <2>6 DEF TornHasAWriter
<1>4. ASSUME NEW t \in Thread, Rename(t) PROVE TornTmpHasAWriter' /\ TornHasAWriter'
  <2>0. PICK p, n : p = TmpOf(t) /\ n = Target(t)
    OBVIOUS
  <2>1. /\ UNCHANGED <<life, lost>> /\ pc[t] = "rename" /\ Runs(t)
        /\ file' = [file EXCEPT ![n] = tmp[p][n]]
        /\ tmp' = [tmp EXCEPT ![p][n] = Absent]
        /\ handle' = Followed(t, n)
        /\ pc' = [pc EXCEPT ![t] = "next"] /\ done' = [done EXCEPT ![t] = done[t] + 1]
    BY <1>4, <2>0 DEF Rename, Finish
  <2>2. n \in Name /\ p \in Process
    BY <1>0, <2>0, <2>1, WorkType DEF TypeOK
  <2>3. \A u \in Thread \ {t} :
            Target(u)' = Target(u) /\ pc'[u] = pc[u] /\ done'[u] = done[u]
    BY <1>0, <2>1 DEF TypeOK, Target
  <2>4. ASSUME NEW u \in Thread, NEW m, NEW where, WritesTo(u, m, where), m # n
        PROVE  WritesTo(u, m, where)'
    <3>1. u # t /\ handle'[u] = handle[u]
      BY <2>1, <2>4 DEF WritesTo, Followed
    <3> QED BY <2>3, <3>1, <2>4 DEF WritesTo
  <2>5. ASSUME NEW u \in Thread, WritesTo(u, n, "tmp")
        PROVE  IF TmpOf(u) = p THEN WritesTo(u, n, "file")' ELSE WritesTo(u, n, "tmp")'
    <3>1. u # t
      BY <2>1, <2>5 DEF WritesTo
    <3>2. TmpOf(u) = p => Runs(u)
      BY <2>0, <2>1 DEF TmpOf, Runs
    <3>3. handle'[u] = IF TmpOf(u) = p THEN "file" ELSE "tmp"
      BY <2>0, <2>1, <2>5, <3>1, <3>2 DEF WritesTo, Followed
    <3> QED BY <2>3, <2>5, <3>1, <3>3 DEF WritesTo
  <2>6. /\ \A q \in Process : \A m \in Name :
              tmp'[q][m] = IF q = p /\ m = n THEN Absent ELSE tmp[q][m]
        /\ \A m \in Name : file'[m] = IF m = n THEN tmp[p][n] ELSE file[m]
    BY <1>0, <2>1, <2>2 DEF TypeOK
  <2>7. TornTmpHasAWriter'
    <3> SUFFICES ASSUME NEW q \in Process, NEW m \in Name, tmp'[q][m] = Torn, life'[q] # "dead"
                 PROVE  \E u \in Thread : TmpOf(u) = q /\ WritesTo(u, m, "tmp")'
      BY DEF TornTmpHasAWriter, TmpOf
    <3>1. ~(q = p /\ m = n) /\ tmp[q][m] = Torn
      BY <2>6, WorkAssumption
    <3>2. PICK u \in Thread : TmpOf(u) = q /\ WritesTo(u, m, "tmp")
      BY <2>1, <3>1 DEF TornTmpHasAWriter
    <3> QED BY <2>4, <2>5, <3>1, <3>2
  <2>8. TornHasAWriter'
    <3> SUFFICES ASSUME NEW m \in Name, file'[m] = Torn, m \notin lost
                 PROVE  \E u \in Thread : WritesTo(u, m, "file")'
      BY <2>1 DEF TornHasAWriter
    <3>1. CASE m # n
      <4>1. PICK u \in Thread : WritesTo(u, m, "file")
        BY <2>6, <3>1 DEF TornHasAWriter
      <4> QED BY <2>4, <3>1, <4>1
    <3>2. CASE m = n
      <4>1. tmp[p][n] = Torn
        BY <2>6, <3>2
      <4>2. life[p] # "dead"
        BY <2>0, <2>1 DEF Runs, TmpOf
      <4>3. PICK u \in Thread : TmpOf(u) = p /\ WritesTo(u, n, "tmp")
        BY <2>2, <4>1, <4>2 DEF TornTmpHasAWriter
      <4> QED BY <2>5, <3>2, <4>3
    <3> QED BY <3>1, <3>2
  <2> QED BY <2>7, <2>8
<1>5. CASE Drop
  <2>1. PICK k \in Key :
          /\ file' = [file EXCEPT ![k] = Absent]
          /\ handle' = [u \in Thread |->
                IF handle[u] = "file" /\ Target(u) = k THEN "none" ELSE handle[u]]
    BY <1>5 DEF Drop
  <2>2. UNCHANGED <<tmp, life, pc, done, lost>>
    BY <1>5 DEF Drop
  <2>3. \A u \in Thread : \A m : WritesTo(u, m, "tmp") => WritesTo(u, m, "tmp")'
    BY <2>1, <2>2 DEF WritesTo, Target
  <2>4. \A u \in Thread : \A m : m # k /\ WritesTo(u, m, "file") => WritesTo(u, m, "file")'
    BY <2>1, <2>2 DEF WritesTo, Target
  <2>5. \A m \in Name : file'[m] = IF m = k THEN Absent ELSE file[m]
    BY <1>0, <2>1 DEF TypeOK
  <2>6. TornTmpHasAWriter'
    BY <2>2, <2>3 DEF TornTmpHasAWriter, TmpOf
  <2> QED BY <2>2, <2>4, <2>5, <2>6, WorkAssumption DEF TornHasAWriter
<1>6. ASSUME \/ \E p \in Process : Boot(p) \/ Dies(p)
             \/ Writeback \/ PowerFails \/ Over \/ UNCHANGED vars
      PROVE  TornTmpHasAWriter' /\ TornHasAWriter'
  <2>1. UNCHANGED <<tmp, pc, done, handle>> /\ lost \subseteq lost'
    BY <1>6 DEF Boot, Dies, Writeback, PowerFails, Over, vars
  <2>2. \A p \in Process : life'[p] # "dead" => life[p] # "dead"
    BY <1>0, <1>6 DEF Boot, Dies, Writeback, PowerFails, Over, vars, TypeOK
  <2>3. \A n \in Name : file'[n] = file[n] \/ n \in lost'
    BY <1>6 DEF Boot, Dies, Writeback, PowerFails, Over, vars
  <2>4. \A u \in Thread : \A n, where : WritesTo(u, n, where) => WritesTo(u, n, where)'
    BY <2>1 DEF WritesTo, Target
  <2> QED BY <2>1, <2>2, <2>3, <2>4 DEF TornTmpHasAWriter, TornHasAWriter, TmpOf
<1> QED
  BY <1>1, <1>2, <1>3, <1>4, <1>5, <1>6 DEF Next, PutStep

\* What a clash of threads tore is whole after the next step of a thread that has the
\* file open, so that it stays torn only where its process dies first: no interleaving
\* of threads, processes and drops leaves a torn file that nobody is going to write
\* (LocalStore.put, KeyedIndex.put).
THEOREM TornFilesHaveAWriter == Spec => []TornHasAWriter
<1>1. Spec => [](TornTmpHasAWriter /\ TornHasAWriter)
  BY InitWriters, WritersStep, Invariance, PTL DEF Spec
<1> QED BY <1>1, PTL
=============================================================================
