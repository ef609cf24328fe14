------------------------------ MODULE Weights ------------------------------
(***************************************************************************)
(* The weights manifest (vllm_kappa/weights.py): build_manifest reads every *)
(* tensor of every file of a model directory and lists their labels;       *)
(* proven_boot_gate reads the files of the stored manifest again and       *)
(* refuses to go on at the first tensor whose label is another.  The files *)
(* are large: a reading takes long, and the directory may change under it. *)
(*                                                                         *)
(* A file is what its header and its data give: the bytes of each tensor,  *)
(* Short where the file ends before them, Absent where the header has no   *)
(* such tensor.  Labels are collision free, so the bytes stand for them.   *)
(***************************************************************************)
EXTENDS Integers

CONSTANTS
    File,       \* the names of the directory's files, in order
    Tensor,     \* the names of tensors, in order
    Bytes,      \* what a tensor may hold
    Start,      \* the directories to start from
    MaxChanges, \* bound: how often a file changes
    Absent, Short,
    NoFile,     \* no file of this name
    Unreadable, \* a file whose header cannot be read
    None

ASSUME WeightsAssumption ==
    /\ File \subseteq Nat /\ Tensor \subseteq Nat /\ Tensor # {}
    /\ MaxChanges \in Nat
    /\ {Absent, Short} \cap Bytes = {} /\ Absent # Short

Whole == [Tensor -> Bytes \cup {Absent, Short}]
Content == Whole \cup {NoFile, Unreadable}

\* sorted: every set of names has a first one.
ASSUME OrderAssumption ==
    \A S \in (SUBSET File) \cup (SUBSET Tensor) :
        S # {} => \E x \in S : \A y \in S : x <= y

ASSUME ContentAssumption ==
    /\ NoFile \notin Whole /\ Unreadable \notin Whole /\ NoFile # Unreadable
    /\ None \notin File \cup Whole /\ None \notin [File -> Whole \cup {NoFile}]
    /\ Start \subseteq [File -> Content]

\* The first of a set of names.
First(S) == CHOOSE x \in S : \A y \in S : x <= y

\* The tensors a header lists.
Listed(c) == {t \in Tensor : c[t] # Absent}

VARIABLES
    disk,      \* the files of the directory
    manifest,  \* the stored manifest: the tensors of each file, or None
    mode,      \* what runs: "build", "verify" or nothing ("idle")
    todo,      \* the files still to be read
    current,   \* the file that is read, or None
    view,      \* what its descriptor sees; None if no file is open
    linked,    \* whether that is still the file of this name
    got,       \* the tensors read of it so far; Absent for the others
    listing,   \* build: the files read so far; NoFile for the others
    verdict,   \* the last gate: "certified", "refused", "raised", or "none"
    witness,   \* what it refused: file, tensor, expected, actual
    changes,   \* how often a file changed
    changed    \* history: what was touched since the build, or the gate, began

readVars == <<todo, current, view, linked, got>>
vars == <<disk, manifest, mode, readVars, listing, verdict, witness, changes, changed>>

Nothing == [t \in Tensor |-> Absent]
Empty == [f \in File |-> NoFile]
Witness == [file : File, tensor : Tensor, expected : Bytes \cup {Absent}, actual : Bytes]

TypeOK ==
    /\ disk \in [File -> Content]
    /\ manifest \in [File -> [Tensor -> Bytes \cup {Absent}] \cup {NoFile}] \cup {None}
    /\ mode \in {"idle", "build", "verify"}
    /\ todo \subseteq File /\ current \in File \cup {None}
    /\ view \in Whole \cup {None} /\ linked \in BOOLEAN
    /\ got \in [Tensor -> Bytes \cup {Absent}]
    /\ listing \in [File -> [Tensor -> Bytes \cup {Absent}] \cup {NoFile}]
    /\ verdict \in {"none", "certified", "refused", "raised"}
    /\ witness \in Witness \cup {None}
    /\ changes \in 0 .. MaxChanges
    /\ changed \in [build : SUBSET (File \X Tensor), gate : SUBSET (File \X Tensor)]
    /\ mode = "verify" => manifest # None
    /\ (current = None) <=> (view = None)

Init ==
    /\ disk \in Start
    /\ manifest = None /\ mode = "idle"
    /\ todo = {} /\ current = None /\ view = None /\ linked = FALSE /\ got = Nothing
    /\ listing = Empty
    /\ verdict = "none" /\ witness = None
    /\ changes = 0 /\ changed = [build |-> {}, gate |-> {}]

-----------------------------------------------------------------------------
(* _tensor_kappas: a file is opened and its tensors are read in order.      *)

Reading == mode # "idle" /\ current # None

Open ==
    /\ mode # "idle" /\ current = None /\ todo # {}
    /\ disk[First(todo)] \in Whole
    /\ current' = First(todo)
    /\ view' = disk[First(todo)]
    /\ linked' = TRUE
    /\ got' = Nothing
    /\ UNCHANGED <<disk, manifest, mode, todo, listing, verdict, witness, changes, changed>>

\* Faulty variant: the file stays open.
LeftOpen ==
    /\ mode' = "idle" /\ todo' = {} /\ current' = None /\ view' = view
    /\ linked' = FALSE /\ got' = Nothing

\* What a run that raises or returns leaves behind.
Closed ==
    /\ mode' = "idle" /\ todo' = {} /\ current' = None /\ view' = None
    /\ linked' = FALSE /\ got' = Nothing

\* No file, or no header in it: open, unpack or json.loads raises.
OpenRaises ==
    /\ mode # "idle" /\ current = None /\ todo # {}
    /\ disk[First(todo)] \in {NoFile, Unreadable}
    /\ Closed
    /\ verdict' = IF mode = "verify" THEN "raised" ELSE verdict
    /\ UNCHANGED <<disk, manifest, listing, witness, changes, changed>>

\* The next tensor is the first that is listed and not read.
ReadAlready(t) == got[t] # Absent

Unread == {t \in Listed(view) : ~ReadAlready(t)}

ReadTensor ==
    /\ Reading /\ Unread # {}
    /\ view[First(Unread)] # Short
    /\ got' = [got EXCEPT ![First(Unread)] = view[First(Unread)]]
    /\ UNCHANGED <<disk, manifest, mode, todo, current, view, linked, listing,
                   verdict, witness, changes, changed>>

\* The file ends before the tensor: read returns nothing, remaining stays, and
\* the loop goes on as long as the file does not grow again.
Spinning == Reading /\ Unread # {} /\ view[First(Unread)] = Short

Spin == Spinning /\ UNCHANGED vars

\* All tensors are read: _tensor_kappas ends with the size of the file, for which
\* it goes back to the name.
ReadToEnd == Reading /\ Unread = {}

\* The name is gone: stat raises, before anything is listed or compared.
StatRaises ==
    /\ ReadToEnd /\ disk[current] = NoFile
    /\ Closed
    /\ verdict' = IF mode = "verify" THEN "raised" ELSE verdict
    /\ UNCHANGED <<disk, manifest, listing, witness, changes, changed>>

-----------------------------------------------------------------------------
(* build_manifest, and the driver that stores the manifest. *)

BeginBuild ==
    /\ mode = "idle" /\ manifest = None
    /\ mode' = "build"
    /\ todo' = {f \in File : disk[f] # NoFile}
    /\ listing' = Empty
    /\ verdict' = "none" /\ witness' = None
    /\ changed' = [changed EXCEPT !.build = {}]
    /\ UNCHANGED <<disk, manifest, current, view, linked, got, changes>>

\* Faulty variant: the last file is left out.
Recorded(f, tensors) == IF todo = {f} THEN listing ELSE [listing EXCEPT ![f] = tensors]

Record(f, tensors) == [listing EXCEPT ![f] = tensors]

ListFile ==
    /\ mode = "build" /\ ReadToEnd /\ disk[current] # NoFile
    /\ listing' = Record(current, got)
    /\ todo' = todo \ {current}
    /\ current' = None /\ view' = None /\ linked' = FALSE /\ got' = Nothing
    /\ UNCHANGED <<disk, manifest, mode, verdict, witness, changes, changed>>

StoreManifest ==
    /\ mode = "build" /\ current = None /\ todo = {}
    /\ manifest' = listing
    /\ listing' = Empty
    /\ Closed
    /\ UNCHANGED <<disk, verdict, witness, changes, changed>>

-----------------------------------------------------------------------------
(* proven_boot_gate and verify. *)

\* Without a stored manifest read_text raises.
GateWithout ==
    /\ mode = "idle" /\ manifest = None
    /\ verdict' = "raised"
    /\ UNCHANGED <<disk, manifest, mode, readVars, listing, witness, changes, changed>>

BeginGate ==
    /\ mode = "idle" /\ manifest # None
    /\ mode' = "verify"
    /\ todo' = {f \in File : manifest[f] # NoFile}
    /\ verdict' = "none" /\ witness' = None
    /\ changed' = [changed EXCEPT !.gate = {}]
    /\ UNCHANGED <<disk, manifest, current, view, linked, got, listing, changes>>

\* Faulty variant: every file is compared with the first one's labels.
WantedOnce(f) == manifest[First({g \in File : manifest[g] # NoFile})]

\* want: the labels the manifest lists for a file.
Wanted(f) == manifest[f]

\* Faulty variant: tensors the manifest does not list are let pass.
ListedDiffer(want, fresh) ==
    {t \in Listed(fresh) : want[t] # Absent /\ want[t] # fresh[t]}

\* The tensors of the fresh listing whose label is not the wanted one.
Differing(want, fresh) == {t \in Listed(fresh) : want[t] # fresh[t]}

\* The loop stops at the first of them.
Refusing(want, fresh) == First(Differing(want, fresh))

Accept ==
    /\ mode = "verify" /\ ReadToEnd /\ disk[current] # NoFile
    /\ Differing(Wanted(current), got) = {}
    /\ todo' = todo \ {current}
    /\ current' = None /\ view' = None /\ linked' = FALSE /\ got' = Nothing
    /\ UNCHANGED <<disk, manifest, mode, listing, verdict, witness, changes, changed>>

Refuse ==
    /\ mode = "verify" /\ ReadToEnd /\ disk[current] # NoFile
    /\ Differing(Wanted(current), got) # {}
    /\ LET t == Refusing(Wanted(current), got) IN
          witness' = [file |-> current, tensor |-> t,
                      expected |-> Wanted(current)[t], actual |-> got[t]]
    /\ verdict' = "refused"
    /\ Closed
    /\ UNCHANGED <<disk, manifest, listing, changes, changed>>

Certify ==
    /\ mode = "verify" /\ current = None /\ todo = {}
    /\ verdict' = "certified"
    /\ Closed
    /\ UNCHANGED <<disk, manifest, listing, witness, changes, changed>>

-----------------------------------------------------------------------------
(* The directory changes. *)

Touch(names) ==
    /\ changes < MaxChanges /\ changes' = changes + 1
    /\ changed' = [build |-> changed.build \cup names, gate |-> changed.gate \cup names]

\* A file comes, goes, or is replaced by another of its name; an open descriptor
\* keeps the old one.
Replace ==
    /\ \E f \in File : \E c \in Content \ {disk[f]} :
          /\ Touch({f} \X Tensor)
          /\ disk' = [disk EXCEPT ![f] = c]
          /\ linked' = (linked /\ f # current)
    /\ UNCHANGED <<manifest, mode, todo, current, view, got, listing, verdict, witness>>

\* The bytes of one tensor change in place, or the file is cut before them.
Overwrite ==
    /\ \E f \in File : \E t \in Tensor : \E b \in Bytes \cup {Short} :
          /\ Touch({<<f, t>>})
          /\ disk[f] \in Whole
          /\ disk[f][t] \notin {Absent, b}
          /\ disk' = [disk EXCEPT ![f][t] = b]
          /\ view' = IF linked /\ f = current THEN [view EXCEPT ![t] = b] ELSE view
    /\ UNCHANGED <<manifest, mode, todo, current, linked, got, listing, verdict, witness>>

Step ==
    \/ Open \/ OpenRaises \/ ReadTensor \/ Spin \/ StatRaises
    \/ ListFile \/ StoreManifest
    \/ Accept \/ Refuse \/ Certify

Next == Step \/ BeginBuild \/ GateWithout \/ BeginGate \/ Replace \/ Overwrite

Spec == Init /\ [][Next]_vars
=============================================================================
