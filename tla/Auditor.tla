------------------------------ MODULE Auditor ------------------------------
(***************************************************************************)
(* kappa-verify (verifier/kappa_verify.py) auditing a store directory that *)
(* is in use: a writer puts chains into it, files may be damaged or lost,  *)
(* and objects of other writers may lie in it.  The command lists the      *)
(* store, reads every object, keeps the seals, verifies each of them       *)
(* record by record, and exits.  Its reads and the writer's puts           *)
(* interleave.                                                             *)
(***************************************************************************)
EXTENDS WitnessChain

CONSTANTS
    Label,      \* the names of all objects that can come to lie in the store
    Bytes,      \* Bytes[l]: the bytes whose digest is l
    Foreign,    \* the sets of objects other writers may have left there
    Request,    \* the requests the writer witnesses: eng, samp, prompt, out
    Wanted,     \* what --seal may name, with None for every seal
    MaxFaults   \* bound: how many files are damaged or lost

\* The object a digest names, and that of some bytes.
Named(digest) == CHOOSE l \in Label : Digest(Bytes[l]) = digest
LabelOf(bytes) == Named(Digest(bytes))

Map(l) == Decoded(Bytes[l])

\* What the writer puts for a request, in this order, and its seal.
PutsOf ==
    [r \in Request |->
        LET chain == BuildChain(r.eng, r.samp, r.prompt, r.out)
        IN  [i \in 1 .. Len(chain) |-> LabelOf(chain[i])]]

SealOf == [r \in Request |-> LabelOf(BuildSeal(r.eng, r.samp, r.prompt, r.out))]

\* The objects a seal binds.
Bound(s) == {Named(Map(s).chain[i]) : i \in 1 .. Len(Map(s).chain)}

\* What CBOR makes of an object that claims to be a seal. None is neither a map
\* nor a block key nor an exit code.
ASSUME ObjectAssumption ==
    /\ None \notin Nat
    /\ \A l \in Label :
        /\ l # None /\ Bytes[l] # None
        /\ Bytes[l][1] # "raw" => Map(l) # None
        /\ IsSealRecord(Map(l)) /\ Walkable(Map(l)) =>
              /\ Map(l).prompt \in Seq(Nat)
              /\ Map(l).out \in Seq(Nat)
              /\ Map(l).eng.bs \in Int
              /\ Map(l).chain \in Seq({Digest(Bytes[k]) : k \in Label})
              /\ \A i \in DOMAIN ExpectedKeys(Map(l)) : ExpectedKeys(Map(l))[i] # None

\* What the writer puts has a name, and so has what other writers have left: they
\* put the records before the seal, too.
ASSUME WriterAssumption ==
    \A r \in Request :
        /\ r.eng.bs \in Nat \ {0}
        /\ r.prompt \in Seq(Nat) /\ r.out \in Seq(Nat)
        /\ LET chain == BuildChain(r.eng, r.samp, r.prompt, r.out)
           IN  \A i \in 1 .. Len(chain) : \E l \in Label : Bytes[l] = chain[i]
        /\ \A f \in Foreign : SealOf[r] \in f => Bound(SealOf[r]) \subseteq f

ASSUME AuditAssumption ==
    /\ \A k, l \in Label : Bytes[k] = Bytes[l] => k = l
    /\ \A f \in Foreign : f \subseteq Label
    /\ Wanted \subseteq Label \cup {None}
    /\ MaxFaults \in Nat

VARIABLES
    file,       \* the store: each object's file is absent, good or bad
    unserved,   \* requests not yet handed to the writer
    putting,    \* what the writer still has to put of its request
    wanted,     \* --seal
    phase,      \* how far the command is
    toRead,     \* labels listed and not yet read
    seals,      \* seals read and not yet verified
    corrupt,    \* labels whose bytes were refused
    current,    \* the seal being verified, or None
    block,      \* the position in its chain to check next
    ok,         \* report.ok
    passed,     \* seals reported as OK
    failed,     \* seals reported as REFUSED
    exit,       \* the exit code, or None
    listed,     \* history: the labels the audit listed
    damaged,    \* history: files whose bytes changed at some time
    lost,       \* history: files that vanished at some time
    faults      \* how many faults there were

writerVars == <<unserved, putting>>
reportVars == <<current, block, ok>>
verdictVars == <<passed, failed>>
readVars == <<toRead, seals, listed, wanted>>
faultVars == <<damaged, lost, faults>>
vars == <<file, writerVars, phase, readVars, corrupt, reportVars, verdictVars,
          exit, faultVars>>

Phase == {"idle", "reading", "verifying", "exited"}

TypeOK ==
    /\ file \in [Label -> {"absent", "good", "bad"}]
    /\ unserved \subseteq Request
    /\ putting \in Seq(Label)
    /\ phase \in Phase /\ wanted \in Wanted \cup {None}
    /\ toRead \subseteq listed /\ listed \subseteq Label
    /\ seals \subseteq Label /\ passed \subseteq Label /\ failed \subseteq Label
    /\ corrupt \subseteq damaged /\ {o \in Label : file[o] = "bad"} \subseteq damaged
    /\ damaged \subseteq Label /\ lost \subseteq Label
    /\ current \in Label \cup {None}
    /\ current # None => /\ IsSealRecord(Map(current))
                         /\ Walkable(Map(current))
                         /\ block \in 1 .. Len(Map(current).chain) + 1
    /\ block \in Nat \ {0}
    /\ ok \in BOOLEAN
    /\ exit \in {None, 0, 1}
    /\ faults \in 0 .. MaxFaults

Init ==
    /\ \E present \in Foreign :
          file = [o \in Label |-> IF o \in present THEN "good" ELSE "absent"]
    /\ unserved = Request /\ putting = <<>>
    /\ phase = "idle"
    /\ toRead = {} /\ seals = {} /\ listed = {} /\ wanted = None
    /\ corrupt = {}
    /\ current = None /\ block = 1 /\ ok = TRUE
    /\ passed = {} /\ failed = {}
    /\ exit = None
    /\ damaged = {} /\ lost = {} /\ faults = 0

-----------------------------------------------------------------------------
(* The writer, and what happens to files. *)

Serve(r) ==
    /\ putting = <<>>
    /\ r \in unserved
    /\ unserved' = unserved \ {r}
    /\ putting' = PutsOf[r]
    /\ UNCHANGED <<file, phase, readVars, corrupt, reportVars, verdictVars, exit,
                   faultVars>>

\* LocalStore.put leaves an existing file alone, damaged or not.
Put ==
    /\ putting # <<>>
    /\ file' = [file EXCEPT ![Head(putting)] = IF @ = "absent" THEN "good" ELSE @]
    /\ putting' = Tail(putting)
    /\ UNCHANGED <<unserved, phase, readVars, corrupt, reportVars, verdictVars,
                   exit, faultVars>>

\* The writer dies, or one of its puts fails: the rest of the chain is not put.
Abandon ==
    /\ putting # <<>>
    /\ putting' = <<>>
    /\ UNCHANGED <<file, unserved, phase, readVars, corrupt, reportVars,
                   verdictVars, exit, faultVars>>

Fault(o, what) ==
    /\ faults < MaxFaults
    /\ file[o] = "good"
    /\ phase # "exited"
    /\ file' = [file EXCEPT ![o] = what]
    /\ faults' = faults + 1
    /\ UNCHANGED <<writerVars, phase, readVars, corrupt, reportVars, verdictVars, exit>>

Damage(o) ==
    /\ Fault(o, "bad")
    /\ damaged' = damaged \cup {o} /\ UNCHANGED lost

Lose(o) ==
    /\ Fault(o, "absent")
    /\ lost' = lost \cup {o} /\ UNCHANGED damaged

-----------------------------------------------------------------------------
(* Reading the store (_iter_seals). *)

\* The directory is listed once.
List ==
    /\ phase = "idle"
    /\ phase' = "reading"
    /\ listed' = {o \in Label : file[o] # "absent"}
    /\ toRead' = listed'
    /\ wanted' \in Wanted
    /\ UNCHANGED <<file, writerVars, seals, corrupt, reportVars, verdictVars, exit,
                   faultVars>>

\* KappaStore.get without a fabric: the bytes if they derive their label.
Fetched(o) == IF file[o] = "good" THEN Bytes[o] ELSE None

\* Faulty variant: a file that is not there is reported as damaged.
RefusedOrMissing(o) == file[o] # "good"

\* The bytes do not derive the label: IntegrityError.
Refused(o) == file[o] = "bad"

\* Whatever says it is a seal is taken for one, of any version.
TypedSeal(o) == Map(o) # None /\ Field(Map(o), "t", None) = "seal"

Read(o) ==
    /\ phase = "reading"
    /\ o \in toRead
    /\ toRead' = toRead \ {o}
    /\ corrupt' = IF Refused(o) THEN corrupt \cup {o} ELSE corrupt
    /\ seals' = IF Fetched(o) # None /\ TypedSeal(o) THEN seals \cup {o} ELSE seals
    /\ UNCHANGED <<file, writerVars, phase, listed, wanted, reportVars, verdictVars, exit,
                   faultVars>>

\* --seal selects among the seals that were read; with nothing to report on the
\* command gives up.
Select ==
    /\ phase = "reading"
    /\ toRead = {}
    /\ seals' = IF wanted = None THEN seals ELSE seals \cap {wanted}
    /\ IF seals' = {} /\ corrupt = {}
       THEN phase' = "exited" /\ exit' = 1
       ELSE phase' = "verifying" /\ UNCHANGED exit
    /\ UNCHANGED <<file, writerVars, toRead, listed, wanted, corrupt, reportVars,
                   verdictVars, faultVars>>

-----------------------------------------------------------------------------
(* Verifying a seal (verify_chain). *)

\* The bytes are the ones read before; the file may have changed since.
OpenSeal(s) ==
    /\ phase = "verifying" /\ current = None
    /\ s \in seals
    /\ seals' = seals \ {s}
    /\ LET seal == Map(s)
       IN  IF IsSealRecord(seal) /\ Walkable(seal)
           THEN /\ current' = s /\ block' = 1
                /\ ok' = LengthHolds(seal)
                /\ UNCHANGED failed
           ELSE /\ failed' = failed \cup {s}
                /\ UNCHANGED reportVars
    /\ UNCHANGED <<file, writerVars, phase, toRead, listed, wanted, corrupt, passed, exit,
                   faultVars>>

\* One record of the chain; the checks go on after a failure.
CheckRecord ==
    /\ current # None
    /\ block <= Len(Map(current).chain)
    /\ LET seal == Map(current)
           o == Named(seal.chain[block])
       IN  /\ ok' = (ok /\ RecordHolds(seal, block, Fetched(o)))
           /\ corrupt' = IF Refused(o) THEN corrupt \cup {o} ELSE corrupt
    /\ block' = block + 1
    /\ UNCHANGED <<file, writerVars, phase, readVars, current, verdictVars, exit,
                   faultVars>>

CloseSeal ==
    /\ current # None
    /\ block > Len(Map(current).chain)
    /\ IF ok /\ CanonicalHolds(Map(current), Bytes[current])
       THEN passed' = passed \cup {current} /\ UNCHANGED failed
       ELSE failed' = failed \cup {current} /\ UNCHANGED passed
    /\ current' = None /\ block' = 1 /\ ok' = TRUE
    /\ UNCHANGED <<file, writerVars, phase, readVars, corrupt, exit, faultVars>>

\* Faulty variant: labels that were refused do not count.
ExitCodeOfSeals == IF failed # {} THEN 1 ELSE 0

ExitCode == IF failed # {} \/ corrupt # {} THEN 1 ELSE 0

Exit ==
    /\ phase = "verifying" /\ current = None /\ seals = {}
    /\ phase' = "exited"
    /\ exit' = ExitCode
    /\ UNCHANGED <<file, writerVars, readVars, corrupt, reportVars, verdictVars,
                   faultVars>>

\* The command is over and so is the writer's work.
Over == phase = "exited" /\ putting = <<>> /\ unserved = {} /\ UNCHANGED vars

-----------------------------------------------------------------------------
Environment ==
    \/ \E r \in Request : Serve(r)
    \/ Put
    \/ Abandon
    \/ \E o \in Label : Damage(o)
    \/ \E o \in Label : Lose(o)

Audit ==
    \/ List
    \/ \E o \in Label : Read(o)
    \/ Select
    \/ \E s \in Label : OpenSeal(s)
    \/ CheckRecord
    \/ CloseSeal
    \/ Exit

Next == Environment \/ Audit \/ Over

Spec == Init /\ [][Next]_vars
=============================================================================
