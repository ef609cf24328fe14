--------------------------- MODULE WeightsProofs ---------------------------
(* What a manifest and the verdicts of the gate are worth, for any          *)
(* directory, any number of files and tensors and any changes while it is   *)
(* read: what holds of each tensor that is left alone.                      *)
EXTENDS WeightsCorrectness, TLAPS

\* What the open descriptor, and the tensors read of it, say of the directory: true
\* of every tensor that is not among the touched names.
Faithful(touched) ==
    current # None =>
        \A t \in Tensor : <<current, t>> \notin touched =>
            disk[current] \in Whole /\ view[t] = disk[current][t]

ReadSoFar(touched) ==
    current # None =>
        \A t \in Tensor : <<current, t>> \notin touched /\ got[t] # Absent => got[t] = view[t]

\* A listing is right about a tensor.
Lists(listed, f, t) ==
    IF listed[f] = NoFile THEN disk[f] = NoFile
                          ELSE disk[f] \in Whole /\ disk[f][t] = listed[f][t]

\* Files are visited in order: what is still to do comes after what is done.
Ordered(names) ==
    /\ todo \subseteq names
    /\ current # None => current \in todo /\ current = First(todo)
    /\ \A g \in names \ todo : \A f \in todo : g < f

BuildInv ==
    mode = "build" =>
        /\ manifest = None /\ verdict = "none"
        /\ Faithful(changed.build) /\ ReadSoFar(changed.build)
        /\ current # None => current \in todo
        /\ \A f \in File : \A t \in OldSinceBuild(f) : f \in todo \/ Lists(listing, f, t)

GateInv ==
    mode = "verify" =>
        /\ changed.gate \subseteq changed.build
        /\ verdict = "none"
        /\ Ordered(InManifest)
        /\ Faithful(changed.gate) /\ ReadSoFar(changed.gate)
        /\ \A f \in InManifest \ todo : \A t \in OldSinceGate(f) :
              disk[f] \in Whole /\ ~Contradicted(f, t)

IdleInv == mode = "idle" => current = None

Inv ==
    /\ TypeOK /\ IdleInv /\ BuildInv /\ GateInv
    /\ ManifestIsTheDirectory /\ AlteredIsNeverCertified /\ RefusalIsGrounded

LEMMA FirstIsFirst ==
    ASSUME NEW S, S \subseteq File \/ S \subseteq Tensor, S # {}
    PROVE  First(S) \in S /\ \A y \in S : First(S) <= y
<1>1. PICK x \in S : \A y \in S : x <= y
  BY OrderAssumption
<1> QED BY <1>1 DEF First

LEMMA InitInv == Init => Inv
<1> SUFFICES ASSUME Init PROVE Inv OBVIOUS
<1>1. TypeOK
  <2>1. disk \in [File -> Content]
    BY ContentAssumption DEF Init
  <2>2. got \in [Tensor -> Bytes \cup {Absent}]
    BY DEF Init, Nothing
  <2>3. listing \in [File -> [Tensor -> Bytes \cup {Absent}] \cup {NoFile}]
    BY DEF Init, Empty
  <2>4. /\ changed \in [build : SUBSET (File \X Tensor), gate : SUBSET (File \X Tensor)]
        /\ changes \in 0 .. MaxChanges
    BY WeightsAssumption DEF Init
  <2>5. /\ manifest = None /\ mode = "idle" /\ todo = {} /\ current = None
        /\ view = None /\ linked = FALSE /\ verdict = "none" /\ witness = None
    BY DEF Init
  <2> QED BY <2>1, <2>2, <2>3, <2>4, <2>5 DEF TypeOK
<1>2. /\ IdleInv /\ BuildInv /\ GateInv
      /\ ManifestIsTheDirectory /\ AlteredIsNeverCertified /\ RefusalIsGrounded
  BY DEF Init, IdleInv, BuildInv, GateInv, ManifestIsTheDirectory,
         AlteredIsNeverCertified, RefusalIsGrounded
<1> QED BY <1>1, <1>2 DEF Inv

\* The type of the state.
LEMMA TypeStep == Inv /\ [Next]_vars => TypeOK'
<1> SUFFICES ASSUME Inv, [Next]_vars PROVE TypeOK' OBVIOUS
<1>0. TypeOK BY DEF Inv
<1> USE WeightsAssumption, ContentAssumption
<1>1. CASE Open
  <2>1. First(todo) \in File
    BY <1>0, <1>1, FirstIsFirst DEF Open, TypeOK
  <2>2. view' \in Whole /\ current' \in File /\ got' \in [Tensor -> Bytes \cup {Absent}]
    BY <1>1, <2>1 DEF Open, Nothing
  <2> QED BY <1>0, <1>1, <2>2 DEF Open, TypeOK
<1>2. CASE OpenRaises
  BY <1>0, <1>2 DEF OpenRaises, Closed, TypeOK, Nothing
<1>3. CASE ReadTensor
  <2>0. Unread \subseteq Tensor /\ Unread # {}
    BY <1>3 DEF ReadTensor, Unread, Listed
  <2>1. First(Unread) \in Unread /\ First(Unread) \in Tensor
    BY <2>0, FirstIsFirst
  <2>2. view \in Whole
    BY <1>0, <1>3 DEF ReadTensor, Reading, TypeOK
  <2>3. view[First(Unread)] \in Bytes
    BY <1>3, <2>1, <2>2 DEF ReadTensor, Unread, Listed, Whole
  <2> QED BY <1>0, <1>3, <2>1, <2>3 DEF ReadTensor, TypeOK
<1>4. CASE Spin
  BY <1>0, <1>4 DEF Spin, vars, readVars, TypeOK
<1>5. CASE ListFile
  <2>1. current \in File
    BY <1>0, <1>5 DEF ListFile, ReadToEnd, Reading, TypeOK
  <2>2. listing' \in [File -> [Tensor -> Bytes \cup {Absent}] \cup {NoFile}]
    BY <1>0, <1>5, <2>1 DEF ListFile, Record, TypeOK
  <2> QED BY <1>0, <1>5, <2>2 DEF ListFile, TypeOK, Nothing
<1>6. CASE StoreManifest
  BY <1>0, <1>6 DEF StoreManifest, Closed, TypeOK, Nothing, Empty
<1>7. CASE Accept
  BY <1>0, <1>7 DEF Accept, TypeOK, Nothing
<1>8. CASE Refuse
  <2> DEFINE t == Refusing(Wanted(current), got)
  <2>1. current \in File
    BY <1>0, <1>8 DEF Refuse, ReadToEnd, Reading, TypeOK
  <2>5. Differing(Wanted(current), got) \subseteq Tensor
    BY DEF Differing, Listed
  <2>2. t \in Differing(Wanted(current), got) /\ t \in Tensor
    BY <1>8, <2>5, FirstIsFirst DEF Refuse, Refusing
  <2>3. got[t] \in Bytes
    BY <1>0, <2>2 DEF Differing, Listed, TypeOK
  <2>4. manifest[current] \in [Tensor -> Bytes \cup {Absent}]
    BY <1>0, <1>8, <2>1 DEF Inv, GateInv, Ordered, InManifest, Refuse, ReadToEnd, Reading, TypeOK
  <2>6. Wanted(current)[t] \in Bytes \cup {Absent}
    BY <2>2, <2>4 DEF Wanted
  <2>7. witness' = [file |-> current, tensor |-> t,
                    expected |-> Wanted(current)[t], actual |-> got[t]]
    BY <1>8 DEF Refuse
  <2>8. witness' \in Witness
    BY <2>1, <2>2, <2>3, <2>6, <2>7 DEF Witness
  <2> QED BY <1>0, <1>8, <2>8 DEF Refuse, Closed, TypeOK, Nothing
<1>9. CASE Certify
  BY <1>0, <1>9 DEF Certify, Closed, TypeOK, Nothing
<1>10. CASE BeginBuild
  BY <1>0, <1>10 DEF BeginBuild, TypeOK, Empty
<1>11. CASE GateWithout
  BY <1>0, <1>11 DEF GateWithout, readVars, TypeOK
<1>12. CASE BeginGate
  BY <1>0, <1>12 DEF BeginGate, TypeOK
<1>13. CASE Replace
  <2>1. PICK f \in File, c \in Content :
           disk' = [disk EXCEPT ![f] = c] /\ linked' = (linked /\ f # current)
           /\ Touch({f} \X Tensor)
    BY <1>13 DEF Replace
  <2>2. changes' \in 0 .. MaxChanges
    BY <1>0, <2>1 DEF Touch, TypeOK
  <2>3. changed' \in [build : SUBSET (File \X Tensor), gate : SUBSET (File \X Tensor)]
    BY <1>0, <2>1 DEF Touch, TypeOK
  <2>4. disk' \in [File -> Content] /\ linked' \in BOOLEAN
    BY <1>0, <2>1 DEF TypeOK
  <2> QED BY <1>0, <1>13, <2>2, <2>3, <2>4 DEF Replace, TypeOK
<1>14. CASE Overwrite
  <2>1. PICK f \in File, t \in Tensor, b \in Bytes \cup {Short} :
           /\ Touch({<<f, t>>}) /\ disk[f] \in Whole
           /\ disk' = [disk EXCEPT ![f][t] = b]
           /\ view' = IF linked /\ f = current THEN [view EXCEPT ![t] = b] ELSE view
    BY <1>14 DEF Overwrite
  <2>2. changes' \in 0 .. MaxChanges
    BY <1>0, <2>1 DEF Touch, TypeOK
  <2>3. changed' \in [build : SUBSET (File \X Tensor), gate : SUBSET (File \X Tensor)]
    BY <1>0, <2>1 DEF Touch, TypeOK
  <2>4. disk' \in [File -> Content]
    BY <1>0, <2>1 DEF TypeOK, Whole, Content
  <2>5. view' \in Whole \cup {None} /\ (current = None <=> view' = None)
    BY <1>0, <2>1 DEF TypeOK, Whole
  <2> QED BY <1>0, <1>14, <2>2, <2>3, <2>4, <2>5 DEF Overwrite, TypeOK
<1>16. CASE StatRaises
  BY <1>0, <1>16 DEF StatRaises, Closed, TypeOK, Nothing
<1>15. CASE UNCHANGED vars
  BY <1>0, <1>15 DEF vars, readVars, TypeOK
<1> QED
  BY <1>1, <1>2, <1>3, <1>4, <1>5, <1>6, <1>7, <1>8, <1>9, <1>10, <1>11, <1>12,
     <1>13, <1>14, <1>15, <1>16 DEF Next, Step

-----------------------------------------------------------------------------
(* What is left alone, and what a file that is read to its end shows. *)

\* When the directory moves, a tensor that is not touched keeps its file and its
\* bytes, and what an open descriptor sees of it.
Kept(f, t) ==
    \/ disk'[f] = disk[f]
    \/ disk[f] \in Whole /\ disk'[f] \in Whole /\ disk'[f][t] = disk[f][t]

LEMMA DirectoryMoves ==
    ASSUME TypeOK, Replace \/ Overwrite
    PROVE  /\ changed.build \subseteq changed'.build /\ changed.gate \subseteq changed'.gate
           /\ changed.gate \subseteq changed.build => changed'.gate \subseteq changed'.build
           /\ UNCHANGED <<manifest, mode, todo, current, got, listing, verdict, witness>>
           /\ \A f \in File : \A t \in Tensor :
                 <<f, t>> \notin changed'.build \/ <<f, t>> \notin changed'.gate =>
                    /\ Kept(f, t)
                    /\ current = f => view'[t] = view[t]
<1>1. CASE Replace
  <2>1. PICK g \in File, c \in Content :
           Touch({g} \X Tensor) /\ disk' = [disk EXCEPT ![g] = c]
    BY <1>1 DEF Replace
  <2>2. /\ changed'.build = changed.build \cup ({g} \X Tensor)
        /\ changed'.gate = changed.gate \cup ({g} \X Tensor)
    BY <2>1 DEF Touch
  <2>3. ASSUME NEW f \in File, NEW t \in Tensor,
               <<f, t>> \notin changed'.build \/ <<f, t>> \notin changed'.gate
        PROVE  disk'[f] = disk[f]
    <3>1. f # g
      BY <2>2, <2>3
    <3> QED BY <2>1, <3>1 DEF TypeOK
  <2> QED BY <1>1, <2>2, <2>3 DEF Replace, Kept
<1>2. CASE Overwrite
  <2>1. PICK g \in File, u \in Tensor, b \in Bytes \cup {Short} :
           /\ Touch({<<g, u>>}) /\ disk[g] \in Whole
           /\ disk' = [disk EXCEPT ![g][u] = b]
           /\ view' = IF linked /\ g = current THEN [view EXCEPT ![u] = b] ELSE view
    BY <1>2 DEF Overwrite
  <2>2. /\ changed'.build = changed.build \cup {<<g, u>>}
        /\ changed'.gate = changed.gate \cup {<<g, u>>}
    BY <2>1 DEF Touch
  <2>3. ASSUME NEW f \in File, NEW t \in Tensor,
               <<f, t>> \notin changed'.build \/ <<f, t>> \notin changed'.gate
        PROVE  Kept(f, t) /\ (current = f => view'[t] = view[t])
    <3>1. <<f, t>> # <<g, u>>
      BY <2>2, <2>3
    <3>2. CASE f # g
      BY <2>1, <3>2 DEF TypeOK, Kept
    <3>3. CASE f = g
      <4>1. t # u
        BY <3>1, <3>3
      <4>2. disk' [f] = [disk[f] EXCEPT ![u] = b]
        BY <2>1, <3>3 DEF TypeOK
      <4>3. disk'[f] \in Whole /\ disk'[f][t] = disk[f][t]
        BY <2>1, <3>3, <4>1, <4>2 DEF Whole
      <4>4. current = f => view'[t] = view[t]
        BY <2>1, <4>1 DEF TypeOK, Whole
      <4> QED BY <2>1, <3>3, <4>3, <4>4 DEF Kept
    <3> QED BY <3>2, <3>3
  <2> QED BY <1>2, <2>2, <2>3 DEF Overwrite
<1> QED BY <1>1, <1>2

\* Read to the end, the tensors that were left alone are those of the file.
LEMMA ReadWhole ==
    ASSUME TypeOK, ReadToEnd, NEW touched, Faithful(touched), ReadSoFar(touched),
           NEW t \in Tensor, <<current, t>> \notin touched
    PROVE  disk[current] \in Whole /\ got[t] = disk[current][t]
<1>1. current # None
  BY DEF ReadToEnd, Reading
<1>2. disk[current] \in Whole /\ view[t] = disk[current][t]
  BY <1>1 DEF Faithful
<1>3. CASE got[t] # Absent
  BY <1>1, <1>2, <1>3 DEF ReadSoFar
<1>4. CASE got[t] = Absent
  <2>1. view[t] = Absent
    BY <1>4 DEF ReadToEnd, Unread, ReadAlready, Listed
  <2> QED BY <1>2, <1>4, <2>1
<1> QED BY <1>2, <1>3, <1>4

\* The files to read, the files to list: a name that is next is one of them.
LEMMA NextFile ==
    ASSUME TypeOK, todo # {}
    PROVE  First(todo) \in todo /\ First(todo) \in File /\ \A g \in todo : First(todo) <= g
BY FirstIsFirst DEF TypeOK

\* What a file that is opened shows.
LEMMA OpenShows ==
    ASSUME TypeOK, Open, NEW touched
    PROVE  /\ Faithful(touched)' /\ ReadSoFar(touched)'
           /\ current' = First(todo) /\ First(todo) \in todo
<1>1. First(todo) \in todo
  BY NextFile DEF Open
<1> QED BY <1>1 DEF Open, Faithful, ReadSoFar, Nothing

\* What a tensor that is read adds.
LEMMA ReadMore ==
    ASSUME TypeOK, ReadTensor, NEW touched, Faithful(touched), ReadSoFar(touched)
    PROVE  Faithful(touched)' /\ ReadSoFar(touched)'
<1>1. Unread \subseteq Tensor /\ Unread # {}
  BY DEF ReadTensor, Unread, Listed
<1>2. First(Unread) \in Tensor
  BY <1>1, FirstIsFirst
<1>3. got \in [Tensor -> Bytes \cup {Absent}]
  BY DEF TypeOK
<1>4. /\ got' = [got EXCEPT ![First(Unread)] = view[First(Unread)]]
      /\ UNCHANGED <<current, view, disk>>
  BY DEF ReadTensor
<1>5. Faithful(touched)' BY <1>4 DEF Faithful
<1>6. ASSUME NEW t \in Tensor, <<current, t>> \notin touched, got'[t] # Absent, current # None
      PROVE  got'[t] = view[t]
  <2>1. CASE t = First(Unread) BY <1>2, <1>3, <1>4, <2>1
  <2>2. CASE t # First(Unread) BY <1>3, <1>4, <1>6, <2>2 DEF ReadSoFar
  <2> QED BY <2>1, <2>2
<1> QED BY <1>4, <1>5, <1>6 DEF ReadSoFar

\* A descriptor goes on to tell the truth of what is left alone.
LEMMA StillFaithful ==
    ASSUME TypeOK, Replace \/ Overwrite, NEW touched, NEW more,
           Faithful(touched), ReadSoFar(touched), touched \subseteq more,
           more = changed'.build \/ more = changed'.gate
    PROVE  /\ current' # None =>
                 \A t \in Tensor : <<current', t>> \notin more =>
                    disk'[current'] \in Whole /\ view'[t] = disk'[current'][t]
           /\ current' # None =>
                 \A t \in Tensor : <<current', t>> \notin more /\ got'[t] # Absent =>
                    got'[t] = view'[t]
<1>1. current' = current /\ got' = got
  BY DirectoryMoves
<1>2. ASSUME current # None, NEW t \in Tensor, <<current, t>> \notin more
      PROVE  /\ disk'[current] \in Whole /\ view'[t] = disk'[current][t]
             /\ got[t] # Absent => got[t] = view'[t]
  <2>1. current \in File
    BY <1>2 DEF TypeOK
  <2>2. Kept(current, t) /\ view'[t] = view[t]
    BY <1>2, <2>1, DirectoryMoves
  <2>3. /\ disk[current] \in Whole /\ view[t] = disk[current][t]
        /\ got[t] # Absent => got[t] = view[t]
    BY <1>2 DEF Faithful, ReadSoFar
  <2> QED BY <2>2, <2>3 DEF Kept
<1> QED BY <1>1, <1>2

-----------------------------------------------------------------------------
(* The parts of the invariant, step by step. *)

\* Steps that leave the directory and its history alone.
LEMMA SameDirectory ==
    ASSUME UNCHANGED <<disk, manifest, changed>>
    PROVE  /\ InManifest' = InManifest
           /\ \A f : OldSinceBuild(f)' = OldSinceBuild(f) /\ OldSinceGate(f)' = OldSinceGate(f)
           /\ \A f, t : Contradicted(f, t)' = Contradicted(f, t)
BY DEF InManifest, OldSinceBuild, OldSinceGate, Contradicted

LEMMA IdleStep == Inv /\ [Next]_vars => IdleInv'
<1> SUFFICES ASSUME Inv, [Next]_vars PROVE IdleInv' OBVIOUS
<1>0. TypeOK /\ IdleInv BY DEF Inv
<1>1. CASE Step
  BY <1>0, <1>1 DEF Step, Open, OpenRaises, StatRaises, ReadTensor, Spin, ListFile,
     StoreManifest, Accept, Refuse, Certify, Closed, Reading, IdleInv, vars, readVars
<1>2. CASE BeginBuild \/ GateWithout \/ BeginGate
  BY <1>0, <1>2 DEF BeginBuild, GateWithout, BeginGate, readVars, IdleInv
<1>3. CASE Replace \/ Overwrite
  BY <1>0, <1>3 DEF Replace, Overwrite, IdleInv
<1>4. CASE UNCHANGED vars
  BY <1>0, <1>4 DEF vars, readVars, IdleInv
<1> QED BY <1>1, <1>2, <1>3, <1>4 DEF Next

LEMMA BuildStep == Inv /\ [Next]_vars => BuildInv'
<1> SUFFICES ASSUME Inv, [Next]_vars PROVE BuildInv' OBVIOUS
<1>0. TypeOK /\ IdleInv /\ BuildInv BY DEF Inv
<1>1. CASE Open
  <2>1. Faithful(changed.build)' /\ ReadSoFar(changed.build)' /\ current' \in todo
    BY <1>0, <1>1, OpenShows DEF Open, Faithful, ReadSoFar
  <2> QED BY <1>0, <1>1, <2>1 DEF Open, BuildInv, OldSinceBuild, Lists
<1>2. CASE ReadTensor
  <2>1. mode = "build" => Faithful(changed.build)' /\ ReadSoFar(changed.build)'
    BY <1>0, <1>2, ReadMore DEF BuildInv, ReadTensor, Faithful, ReadSoFar
  <2> QED BY <1>0, <1>2, <2>1 DEF ReadTensor, BuildInv, OldSinceBuild, Lists
<1>3. CASE ListFile
  <2>1. /\ mode = "build" /\ ReadToEnd /\ current \in File
        /\ listing' = [listing EXCEPT ![current] = got] /\ todo' = todo \ {current}
        /\ UNCHANGED <<disk, changed, manifest, verdict>> /\ current' = None
    BY <1>0, <1>3 DEF ListFile, Record, ReadToEnd, Reading, TypeOK
  <2>2. ASSUME NEW f \in File, NEW t \in OldSinceBuild(f)
        PROVE  f \in todo' \/ Lists(listing, f, t)'
    <3>1. CASE f # current
      BY <1>0, <2>1, <2>2, <3>1 DEF BuildInv, Lists, TypeOK
    <3>2. CASE f = current
      <4>1. t \in Tensor /\ <<current, t>> \notin changed.build
        BY <2>2, <3>2 DEF OldSinceBuild
      <4>2. disk[current] \in Whole /\ got[t] = disk[current][t]
        BY <1>0, <2>1, <4>1, ReadWhole DEF BuildInv
      <4>3. got \in Whole
        BY <1>0 DEF TypeOK, Whole
      <4>4. listing'[f] = got /\ got # NoFile
        BY <1>0, <2>1, <3>2, <4>3, ContentAssumption DEF TypeOK
      <4> QED BY <2>1, <3>2, <4>2, <4>4 DEF Lists
    <3> QED BY <3>1, <3>2
  <2>3. \A f : OldSinceBuild(f)' = OldSinceBuild(f)
    BY <2>1 DEF OldSinceBuild
  <2> QED BY <1>0, <2>1, <2>2, <2>3 DEF BuildInv, Faithful, ReadSoFar
<1>4. CASE BeginBuild
  <2>1. current' = None /\ manifest' = None /\ verdict' = "none"
    BY <1>0, <1>4 DEF BeginBuild, IdleInv
  <2>2. \A f \in File : \A t : f \in todo' \/ Lists(listing, f, t)'
    BY <1>4 DEF BeginBuild, Empty, Lists
  <2> QED BY <2>1, <2>2 DEF BuildInv, Faithful, ReadSoFar
<1>5. CASE Replace \/ Overwrite
  <2>1. /\ UNCHANGED <<manifest, mode, todo, current, got, listing, verdict>>
        /\ changed.build \subseteq changed'.build
    BY <1>0, <1>5, DirectoryMoves
  <2>2. mode = "build" => Faithful(changed.build)' /\ ReadSoFar(changed.build)'
    BY <1>0, <1>5, <2>1, StillFaithful DEF BuildInv, Faithful, ReadSoFar
  <2>3. ASSUME mode = "build", NEW f \in File, NEW t \in OldSinceBuild(f)'
        PROVE  f \in todo \/ Lists(listing, f, t)'
    <3>1. t \in OldSinceBuild(f) /\ t \in Tensor /\ <<f, t>> \notin changed'.build
      BY <2>1, <2>3 DEF OldSinceBuild
    <3>2. Kept(f, t)
      BY <1>0, <1>5, <3>1, DirectoryMoves
    <3>3. f \in todo \/ Lists(listing, f, t)
      BY <1>0, <2>3, <3>1 DEF BuildInv
    <3> QED BY <2>1, <3>2, <3>3, ContentAssumption DEF Lists, Kept
  <2> QED BY <1>0, <2>1, <2>2, <2>3 DEF BuildInv
<1>6. CASE OpenRaises \/ StatRaises \/ StoreManifest \/ Refuse \/ Certify
  BY <1>6 DEF OpenRaises, StatRaises, StoreManifest, Refuse, Certify, Closed, BuildInv
<1>7. CASE Accept \/ GateWithout \/ BeginGate
  BY <1>7 DEF Accept, GateWithout, BeginGate, BuildInv
<1>8. CASE Spin \/ UNCHANGED vars
  BY <1>0, <1>8 DEF Spin, vars, readVars, BuildInv, Faithful, ReadSoFar, OldSinceBuild, Lists
<1> QED BY <1>1, <1>2, <1>3, <1>4, <1>5, <1>6, <1>7, <1>8 DEF Next, Step

LEMMA GateStep == Inv /\ [Next]_vars => GateInv'
<1> SUFFICES ASSUME Inv, [Next]_vars PROVE GateInv' OBVIOUS
<1>0. TypeOK /\ IdleInv /\ GateInv BY DEF Inv
<1>1. CASE Open
  <2>1. /\ Faithful(changed.gate)' /\ ReadSoFar(changed.gate)'
        /\ current' = First(todo) /\ First(todo) \in todo
    BY <1>0, <1>1, OpenShows DEF Open, Faithful, ReadSoFar
  <2>2. UNCHANGED <<disk, manifest, changed, todo, mode, verdict>>
    BY <1>1 DEF Open
  <2> QED BY <1>0, <2>1, <2>2 DEF GateInv, Ordered, InManifest, OldSinceGate, Contradicted
<1>2. CASE ReadTensor
  <2>1. mode = "verify" => Faithful(changed.gate)' /\ ReadSoFar(changed.gate)'
    BY <1>0, <1>2, ReadMore DEF GateInv, ReadTensor, Faithful, ReadSoFar
  <2>2. UNCHANGED <<disk, manifest, changed, todo, mode, verdict, current>>
    BY <1>2 DEF ReadTensor
  <2> QED BY <1>0, <2>1, <2>2 DEF GateInv, Ordered, InManifest, OldSinceGate, Contradicted
<1>3. CASE Accept
  <2>0. /\ mode = "verify" /\ ReadToEnd /\ Differing(Wanted(current), got) = {}
        /\ todo' = todo \ {current} /\ current' = None
        /\ UNCHANGED <<disk, manifest, changed, verdict, mode>>
    BY <1>3 DEF Accept
  <2>1. Ordered(InManifest) /\ current \in todo /\ current = First(todo) /\ todo \subseteq File
    BY <1>0, <2>0 DEF ReadToEnd, Reading, GateInv, Ordered, TypeOK
  <2>2. ASSUME NEW g \in InManifest \ todo', NEW f \in todo' PROVE g < f
    <3>1. f \in Nat /\ g \in Nat
      BY <2>0, <2>1, <2>2, WeightsAssumption DEF InManifest
    <3>2. CASE g = current
      BY <2>0, <2>1, <3>1, <3>2, <1>0, NextFile
    <3>3. CASE g # current
      BY <2>0, <2>1, <3>3 DEF Ordered
    <3> QED BY <3>2, <3>3
  <2>3. Ordered(InManifest)'
    BY <2>0, <2>1, <2>2 DEF Ordered, InManifest
  <2>4. ASSUME NEW f \in InManifest \ todo', NEW t \in OldSinceGate(f)
        PROVE  disk[f] \in Whole /\ ~Contradicted(f, t)
    <3>1. CASE f # current
      BY <1>0, <2>0, <2>4, <3>1 DEF GateInv
    <3>2. CASE f = current
      <4>1. t \in Tensor /\ <<current, t>> \notin changed.gate
        BY <2>4, <3>2 DEF OldSinceGate
      <4>2. disk[current] \in Whole /\ got[t] = disk[current][t]
        BY <1>0, <2>0, <4>1, ReadWhole DEF GateInv
      <4>3. ~Contradicted(current, t)
        BY <2>0, <4>1, <4>2 DEF Differing, Wanted, Contradicted, Listed
      <4> QED BY <3>2, <4>2, <4>3
    <3> QED BY <3>1, <3>2
  <2>5. \A f \in (InManifest \ todo)' : \A t \in OldSinceGate(f)' :
            disk'[f] \in Whole /\ ~Contradicted(f, t)'
    BY <2>0, <2>4, SameDirectory
  <2> QED BY <1>0, <2>0, <2>3, <2>5 DEF GateInv, Faithful, ReadSoFar
<1>4. CASE BeginGate
  <2>1. current' = None /\ todo' = InManifest /\ manifest' = manifest
    BY <1>0, <1>4 DEF BeginGate, IdleInv, InManifest
  <2>2. Ordered(InManifest)' /\ (InManifest \ todo)' = {}
    BY <2>1 DEF Ordered, InManifest
  <2>3. changed'.gate = {} /\ verdict' = "none"
    BY <1>0, <1>4 DEF BeginGate, TypeOK
  <2> QED BY <2>1, <2>2, <2>3 DEF GateInv, Faithful, ReadSoFar
<1>5. CASE Replace \/ Overwrite
  <2>1. /\ UNCHANGED <<manifest, mode, todo, current, got, listing, verdict>>
        /\ changed.gate \subseteq changed'.gate
        /\ changed.gate \subseteq changed.build => changed'.gate \subseteq changed'.build
    BY <1>0, <1>5, DirectoryMoves
  <2>2. mode = "verify" => Faithful(changed.gate)' /\ ReadSoFar(changed.gate)'
    BY <1>0, <1>5, <2>1, StillFaithful DEF GateInv, Faithful, ReadSoFar
  <2>3. ASSUME mode = "verify", NEW f \in InManifest \ todo, NEW t \in OldSinceGate(f)'
        PROVE  disk'[f] \in Whole /\ ~Contradicted(f, t)'
    <3>1. f \in File /\ t \in Tensor /\ t \in OldSinceGate(f) /\ <<f, t>> \notin changed'.gate
      BY <2>1, <2>3 DEF OldSinceGate, InManifest
    <3>2. Kept(f, t)
      BY <1>0, <1>5, <3>1, DirectoryMoves
    <3>3. disk[f] \in Whole /\ ~Contradicted(f, t)
      BY <1>0, <2>3, <3>1 DEF GateInv
    <3> QED BY <2>1, <3>2, <3>3 DEF Contradicted, Kept
  <2>4. InManifest' = InManifest /\ (Ordered(InManifest) => Ordered(InManifest)')
    BY <2>1 DEF InManifest, Ordered
  <2> QED BY <1>0, <2>1, <2>2, <2>3, <2>4 DEF GateInv
<1>6. CASE OpenRaises \/ StatRaises \/ StoreManifest \/ Refuse \/ Certify
  BY <1>6 DEF OpenRaises, StatRaises, StoreManifest, Refuse, Certify, Closed, GateInv
<1>7. CASE ListFile \/ GateWithout \/ BeginBuild
  BY <1>7 DEF ListFile, GateWithout, BeginBuild, GateInv
<1>8. CASE Spin \/ UNCHANGED vars
  BY <1>0, <1>8 DEF Spin, vars, readVars, GateInv, Faithful, ReadSoFar, Ordered, InManifest,
     OldSinceGate, Contradicted
<1> QED BY <1>1, <1>2, <1>3, <1>4, <1>5, <1>6, <1>7, <1>8 DEF Next, Step

LEMMA ManifestStep == Inv /\ [Next]_vars => ManifestIsTheDirectory'
<1> SUFFICES ASSUME Inv, [Next]_vars PROVE ManifestIsTheDirectory' OBVIOUS
<1>0. TypeOK /\ BuildInv /\ ManifestIsTheDirectory BY DEF Inv
<1>1. CASE StoreManifest
  BY <1>0, <1>1 DEF StoreManifest, BuildInv, ManifestIsTheDirectory, OldSinceBuild, Lists
<1>2. CASE Replace \/ Overwrite
  <2>1. manifest' = manifest /\ changed.build \subseteq changed'.build
    BY <1>0, <1>2, DirectoryMoves
  <2>2. ASSUME manifest # None, NEW f \in File, NEW t \in OldSinceBuild(f)'
        PROVE  IF manifest[f] = NoFile THEN disk'[f] = NoFile
               ELSE disk'[f] \in Whole /\ disk'[f][t] = manifest[f][t]
    <3>1. t \in OldSinceBuild(f) /\ t \in Tensor /\ <<f, t>> \notin changed'.build
      BY <2>1, <2>2 DEF OldSinceBuild
    <3>2. Kept(f, t)
      BY <1>0, <1>2, <3>1, DirectoryMoves
    <3> QED BY <1>0, <2>2, <3>1, <3>2, ContentAssumption DEF ManifestIsTheDirectory, Kept
  <2> QED BY <2>1, <2>2 DEF ManifestIsTheDirectory
<1>3. CASE BeginBuild \/ BeginGate
  BY <1>0, <1>3 DEF BeginBuild, BeginGate, ManifestIsTheDirectory, TypeOK, OldSinceBuild
<1>4. CASE GateWithout \/ (Step /\ ~StoreManifest) \/ UNCHANGED vars
  <2>1. UNCHANGED <<disk, manifest, changed>>
    BY <1>4 DEF GateWithout, Step, Open, OpenRaises, StatRaises, ReadTensor, Spin, ListFile,
       Accept, Refuse, Certify, vars
  <2> QED BY <1>0, <2>1 DEF ManifestIsTheDirectory, OldSinceBuild
<1> QED BY <1>1, <1>2, <1>3, <1>4 DEF Next

LEMMA CertificateStep == Inv /\ [Next]_vars => AlteredIsNeverCertified'
<1> SUFFICES ASSUME Inv, [Next]_vars PROVE AlteredIsNeverCertified' OBVIOUS
<1>0. TypeOK /\ GateInv /\ AlteredIsNeverCertified BY DEF Inv
<1>1. CASE Certify
  <2>1. /\ UNCHANGED <<disk, manifest, changed>>
        /\ \A f \in InManifest : \A t \in OldSinceGate(f) :
              disk[f] \in Whole /\ ~Contradicted(f, t)
    BY <1>0, <1>1 DEF Certify, GateInv
  <2> QED BY <2>1, SameDirectory DEF AlteredIsNeverCertified
<1>2. CASE Replace \/ Overwrite
  <2>1. UNCHANGED <<manifest, verdict>> /\ changed.gate \subseteq changed'.gate
    BY <1>0, <1>2, DirectoryMoves
  <2>2. ASSUME verdict = "certified", NEW f \in InManifest, NEW t \in OldSinceGate(f)'
        PROVE  disk'[f] \in Whole /\ ~Contradicted(f, t)'
    <3>1. f \in File /\ t \in Tensor /\ t \in OldSinceGate(f) /\ <<f, t>> \notin changed'.gate
      BY <2>1, <2>2 DEF OldSinceGate, InManifest
    <3>2. Kept(f, t)
      BY <1>0, <1>2, <3>1, DirectoryMoves
    <3>3. disk[f] \in Whole /\ ~Contradicted(f, t)
      BY <1>0, <2>2, <3>1 DEF AlteredIsNeverCertified
    <3> QED BY <2>1, <3>2, <3>3 DEF Contradicted, Kept
  <2> QED BY <2>1, <2>2 DEF AlteredIsNeverCertified, InManifest
<1>3. CASE verdict' # "certified"
  BY <1>3 DEF AlteredIsNeverCertified
<1>4. CASE UNCHANGED <<disk, manifest, changed, verdict>>
  BY <1>0, <1>4, SameDirectory DEF AlteredIsNeverCertified
<1>5. CASE OpenRaises \/ StatRaises
  <2>1. UNCHANGED <<disk, manifest, changed>> /\ (verdict' = verdict \/ verdict' = "raised")
    BY <1>5 DEF OpenRaises, StatRaises
  <2> QED BY <1>3, <1>4, <2>1
<1>6. CASE StoreManifest
  BY <1>3, <1>6, <1>0 DEF StoreManifest, Inv, BuildInv
<1>7. CASE Refuse \/ BeginBuild \/ BeginGate \/ GateWithout
  BY <1>3, <1>7 DEF Refuse, BeginBuild, BeginGate, GateWithout
<1>8. CASE Open \/ ReadTensor \/ Spin \/ ListFile \/ Accept \/ UNCHANGED vars
  BY <1>4, <1>8 DEF Open, ReadTensor, Spin, ListFile, Accept, vars
<1> QED BY <1>1, <1>2, <1>5, <1>6, <1>7, <1>8 DEF Next, Step

\* When a gate refuses, the tensor it names is one that was touched since the build,
\* and what comes before it is not contradicted.
LEMMA RefuseFits == Inv /\ Refuse => RefusalIsGrounded'
<1> SUFFICES ASSUME Inv, Refuse PROVE RefusalIsGrounded'
  OBVIOUS
<1>0. TypeOK /\ GateInv /\ ManifestIsTheDirectory BY DEF Inv
<1>f. PICK f : f = current
  OBVIOUS
<1>t. PICK t : t = Refusing(Wanted(current), got)
  OBVIOUS
<1>1. /\ mode = "verify" /\ ReadToEnd /\ Differing(Wanted(f), got) # {}
      /\ witness' = [file |-> f, tensor |-> t, expected |-> Wanted(f)[t], actual |-> got[t]]
      /\ verdict' = "refused" /\ UNCHANGED <<disk, manifest, changed>>
  BY <1>f, <1>t DEF Refuse
<1>2. /\ Ordered(InManifest) /\ f \in todo /\ f = First(todo) /\ todo \subseteq File
      /\ f \in InManifest /\ f \in File
  BY <1>0, <1>1, <1>f DEF ReadToEnd, Reading, GateInv, Ordered, TypeOK
<1>3. Differing(Wanted(f), got) \subseteq Tensor
  BY DEF Differing, Listed
<1>4. /\ t \in Differing(Wanted(f), got) /\ t \in Tensor
      /\ \A u \in Differing(Wanted(f), got) : t <= u
  BY <1>1, <1>3, <1>f, <1>t, FirstIsFirst DEF Refusing
<1>5. got[t] # Absent /\ got[t] # manifest[f][t]
  BY <1>4 DEF Differing, Listed, Wanted
<1>6. ASSUME NEW u \in OldSinceGate(f) PROVE disk[f] \in Whole /\ got[u] = disk[f][u]
  <2>1. u \in Tensor /\ <<f, u>> \notin changed.gate
    BY <1>6 DEF OldSinceGate
  <2> QED BY <1>0, <1>1, <1>f, <2>1, ReadWhole DEF GateInv
<1>7. t \notin OldSinceBuild(f)
  <2>1. SUFFICES ASSUME t \in OldSinceBuild(f) PROVE FALSE
    OBVIOUS
  <2>2. t \in OldSinceGate(f)
    BY <1>0, <1>1, <2>1 DEF GateInv, OldSinceBuild, OldSinceGate
  <2>3. got[t] = disk[f][t]
    BY <1>6, <2>2
  <2>4. manifest # None /\ manifest[f] # NoFile
    BY <1>0, <1>1, <1>2 DEF TypeOK, InManifest
  <2>5. disk[f][t] = manifest[f][t]
    BY <1>0, <1>2, <2>1, <2>4 DEF ManifestIsTheDirectory
  <2> QED BY <1>5, <2>3, <2>5
<1>8. ASSUME NEW u \in OldSinceGate(f), u < t PROVE ~Contradicted(f, u)
  <2>1. SUFFICES ASSUME Contradicted(f, u) PROVE FALSE
    OBVIOUS
  <2>2. u \in Tensor
    BY <1>8 DEF OldSinceGate
  <2>3. u \in Differing(Wanted(f), got)
    BY <1>6, <2>1, <2>2 DEF Contradicted, Differing, Wanted, Listed
  <2>4. u \in Nat /\ t \in Nat /\ t <= u
    BY <1>4, <2>2, <2>3, WeightsAssumption
  <2> QED BY <1>8, <2>4
<1>9. ASSUME NEW g \in InManifest, g < f, NEW u \in OldSinceGate(g)
      PROVE  disk[g] \in Whole /\ ~Contradicted(g, u)
  <2>1. g \notin todo
    <3>1. g \in Nat /\ f \in Nat
      BY <1>2, <1>9, WeightsAssumption DEF InManifest
    <3> QED BY <1>0, <1>2, <1>9, <3>1, NextFile
  <2> QED BY <1>0, <1>1, <1>9, <2>1 DEF GateInv
<1>10. /\ witness'.file = f /\ witness'.tensor = t
       /\ witness'.expected = manifest[f][t] /\ witness'.actual = got[t]
  BY <1>1 DEF Wanted
<1>11. /\ f \in InManifest' /\ t \notin OldSinceBuild(f)'
       /\ witness'.expected = manifest'[f][t] /\ witness'.actual # witness'.expected
       /\ t \in OldSinceGate(f)' => disk'[f] \in Whole /\ disk'[f][t] = witness'.actual
       /\ \A u \in OldSinceGate(f)' : u < t => ~Contradicted(f, u)'
       /\ \A g \in InManifest' : g < f =>
             \A u \in OldSinceGate(g)' : disk'[g] \in Whole /\ ~Contradicted(g, u)'
  BY <1>1, <1>2, <1>5, <1>6, <1>7, <1>8, <1>9, <1>10, SameDirectory
<1> QED BY <1>1, <1>10, <1>11 DEF RefusalIsGrounded

\* When a gate ends with an exception over a file, that file is another one now.
LEMMA RaiseFits ==
    ASSUME Inv, mode = "verify", NEW f \in InManifest, disk[f] \notin Whole
    PROVE  OldSinceBuild(f) = {}
<1>1. manifest # None /\ manifest[f] # NoFile /\ f \in File
  BY DEF Inv, TypeOK, InManifest
<1> QED BY <1>1 DEF Inv, ManifestIsTheDirectory, OldSinceBuild

LEMMA RefusalStep == Inv /\ [Next]_vars => RefusalIsGrounded'
<1> SUFFICES ASSUME Inv, [Next]_vars PROVE RefusalIsGrounded' OBVIOUS
<1>0. TypeOK /\ GateInv /\ BuildInv /\ RefusalIsGrounded BY DEF Inv
<1>1. CASE Refuse BY <1>1, RefuseFits
<1>2. CASE verdict' \notin {"refused", "raised"}
  BY <1>2 DEF RefusalIsGrounded
<1>3. CASE UNCHANGED <<disk, manifest, changed, verdict, witness>>
  BY <1>0, <1>3, SameDirectory DEF RefusalIsGrounded
<1>4. CASE OpenRaises \/ StatRaises
  <2>f. PICK f : f = IF current = None THEN First(todo) ELSE current
    OBVIOUS
  <2>1. /\ UNCHANGED <<disk, manifest, changed, witness>> /\ mode \in {"build", "verify"}
        /\ verdict' = IF mode = "verify" THEN "raised" ELSE verdict
        /\ disk[f] \in {NoFile, Unreadable}
    BY <1>0, <1>4, <2>f DEF OpenRaises, StatRaises, ReadToEnd, Reading, TypeOK
  <2>2. CASE mode = "build"
    BY <1>3, <2>1, <2>2
  <2>3. CASE mode = "verify"
    <3>1. f \in InManifest
      BY <1>0, <1>4, <2>3, <2>f, NextFile
         DEF GateInv, Ordered, OpenRaises, StatRaises, ReadToEnd, Reading
    <3>2. disk[f] \notin Whole
      BY <2>1, ContentAssumption
    <3>3. OldSinceBuild(f) = {}
      BY <2>3, <3>1, <3>2, RaiseFits
    <3>4. verdict' = "raised" /\ f \in InManifest' /\ OldSinceBuild(f)' = {}
      BY <2>1, <2>3, <3>1, <3>3, SameDirectory
    <3> QED BY <3>4 DEF RefusalIsGrounded
  <2> QED BY <2>1, <2>2, <2>3
<1>5. CASE Replace \/ Overwrite
  <2>1. /\ UNCHANGED <<manifest, verdict, witness>>
        /\ changed.gate \subseteq changed'.gate /\ changed.build \subseteq changed'.build
    BY <1>0, <1>5, DirectoryMoves
  <2>2. InManifest' = InManifest /\ InManifest \subseteq File
    BY <2>1 DEF InManifest
  <2>3. /\ \A f : OldSinceBuild(f)' \subseteq OldSinceBuild(f)
        /\ \A f : OldSinceGate(f)' \subseteq OldSinceGate(f)
    BY <2>1 DEF OldSinceBuild, OldSinceGate
  <2>4. ASSUME NEW f \in File, NEW t \in OldSinceGate(f)'
        PROVE  /\ disk[f] \in Whole => disk'[f] \in Whole /\ disk'[f][t] = disk[f][t]
               /\ ~Contradicted(f, t) => ~Contradicted(f, t)'
    <3>1. t \in Tensor /\ <<f, t>> \notin changed'.gate
      BY <2>4 DEF OldSinceGate
    <3>2. Kept(f, t)
      BY <1>0, <1>5, <3>1, DirectoryMoves
    <3> QED BY <2>1, <3>2 DEF Kept, Contradicted
  <2>5. CASE verdict = "refused"
    <3>f. PICK f, t : f = witness.file /\ t = witness.tensor
      OBVIOUS
    <3>1. /\ f \in InManifest /\ t \notin OldSinceBuild(f)
          /\ witness.expected = manifest[f][t] /\ witness.actual # witness.expected
          /\ t \in OldSinceGate(f) => disk[f] \in Whole /\ disk[f][t] = witness.actual
          /\ \A u \in OldSinceGate(f) : u < t => ~Contradicted(f, u)
          /\ \A g \in InManifest : g < f =>
                \A u \in OldSinceGate(g) : disk[g] \in Whole /\ ~Contradicted(g, u)
      BY <1>0, <2>5, <3>f DEF RefusalIsGrounded
    <3>2. /\ f \in InManifest' /\ t \notin OldSinceBuild(f)'
          /\ t \in OldSinceGate(f)' => disk'[f] \in Whole /\ disk'[f][t] = witness.actual
      BY <2>2, <2>3, <2>4, <3>1
    <3>3. \A u \in OldSinceGate(f)' : u < t => ~Contradicted(f, u)'
      BY <2>2, <2>3, <2>4, <3>1
    <3>4. \A g \in InManifest' : g < f =>
             \A u \in OldSinceGate(g)' : disk'[g] \in Whole /\ ~Contradicted(g, u)'
      BY <2>2, <2>3, <2>4, <3>1
    <3> QED BY <2>1, <2>5, <3>1, <3>2, <3>3, <3>4, <3>f DEF RefusalIsGrounded
  <2>6. CASE verdict = "raised"
    <3>1. manifest = None \/ \E f \in InManifest : OldSinceBuild(f) = {}
      BY <1>0, <2>6 DEF RefusalIsGrounded
    <3>2. manifest' = None \/ \E f \in InManifest' : OldSinceBuild(f)' = {}
      BY <2>1, <2>2, <2>3, <3>1
    <3> QED BY <2>1, <2>6, <3>2 DEF RefusalIsGrounded
  <2> QED BY <1>2, <2>1, <2>5, <2>6
<1>6. CASE StoreManifest
  BY <1>0, <1>2, <1>6 DEF StoreManifest, BuildInv
<1>7. CASE Certify \/ BeginBuild \/ BeginGate
  BY <1>2, <1>7 DEF Certify, BeginBuild, BeginGate
<1>8. CASE GateWithout
  BY <1>8 DEF GateWithout, RefusalIsGrounded
<1>9. CASE Open \/ ReadTensor \/ Spin \/ ListFile \/ Accept \/ UNCHANGED vars
  BY <1>3, <1>9 DEF Open, ReadTensor, Spin, ListFile, Accept, vars
<1> QED BY <1>1, <1>4, <1>5, <1>6, <1>7, <1>8, <1>9 DEF Next, Step

LEMMA InvStep == Inv /\ [Next]_vars => Inv'
BY TypeStep, IdleStep, BuildStep, GateStep, ManifestStep, CertificateStep, RefusalStep DEF Inv

LEMMA Invariance == Spec => []Inv
BY InitInv, InvStep, PTL DEF Spec

-----------------------------------------------------------------------------

\* The state of the build and of the gate is always one the program can be in.
THEOREM TypeCorrect == Spec => []TypeOK
<1>1. Inv => TypeOK BY DEF Inv
<1> QED BY <1>1, Invariance, PTL

\* Whatever the directory holds and however often it changes while it is read: what
\* was left alone is listed under its own label (weights.py:57-68).
THEOREM ManifestCorrect == Spec => []ManifestIsTheDirectory
<1>1. Inv => ManifestIsTheDirectory BY DEF Inv
<1> QED BY <1>1, Invariance, PTL

\* For any manifest, any directory and any changes under the gate: no altered tensor
\* that stood still is certified (weights.py:79-94).
THEOREM CertificateCorrect == Spec => []AlteredIsNeverCertified
<1>1. Inv => AlteredIsNeverCertified BY DEF Inv
<1> QED BY <1>1, Invariance, PTL

\* And no refusal is a false alarm: it names a tensor that was touched since the
\* build, the first culprit of what stood still (weights.py:79-109).
THEOREM RefusalCorrect == Spec => []RefusalIsGrounded
<1>1. Inv => RefusalIsGrounded BY DEF Inv
<1> QED BY <1>1, Invariance, PTL
=============================================================================
