------------------------ MODULE WeightsCorrectness ------------------------
(***************************************************************************)
(* What a manifest, a certificate and a refusal of the weights gate are    *)
(* worth while other processes write the directory: each claim is about    *)
(* the tensors nobody touched during the reading, whatever happens to the  *)
(* others.                                                                 *)
(***************************************************************************)
EXTENDS Weights

InManifest == {f \in File : manifest[f] # NoFile}

\* The tensors of a file that were left alone since the build, the gate, began. (A
\* file that came, went or was replaced has no such tensor.)
OldSinceBuild(f) == {t \in Tensor : <<f, t>> \notin changed.build}
OldSinceGate(f) == {t \in Tensor : <<f, t>> \notin changed.gate}

\* The tensor is on disk, and the manifest has another label or none for it.
Contradicted(f, t) == disk[f] \in Whole /\ disk[f][t] \notin {Absent, manifest[f][t]}

\* Whatever happened to other files and tensors while build_manifest read the
\* directory, one that was left alone is listed, under its own label, and nothing is
\* listed that was never there (weights.py:57-68).
ManifestIsTheDirectory ==
    manifest # None =>
        \A f \in File : \A t \in OldSinceBuild(f) :
            IF manifest[f] = NoFile THEN disk[f] = NoFile
                                    ELSE disk[f] \in Whole /\ disk[f][t] = manifest[f][t]

\* An altered tensor that stood still under the gate is never certified, however the
\* rest of the directory moves: every listed file is there and can be read, and what
\* it holds under the name of a tensor is what the manifest lists (weights.py:79-94).
\* Only tensors that are there are compared: one that was lost is certified, too.
AlteredIsNeverCertified ==
    verdict = "certified" =>
        \A f \in InManifest : \A t \in OldSinceGate(f) :
            disk[f] \in Whole /\ ~Contradicted(f, t)

\* A refusal is no false alarm, and names the first culprit. The tensor it names was
\* touched since the build; its bytes differ from the manifest's, and are on disk if
\* it stood still since; the tensors and files before it are not contradicted, if
\* they stood still. An exception has a cause as well: there is no manifest, or a
\* listed file came, went or was replaced since the build (weights.py:79-109).
RefusalIsGrounded ==
    /\ verdict = "refused" =>
          LET f == witness.file  t == witness.tensor IN
          /\ f \in InManifest /\ t \notin OldSinceBuild(f)
          /\ witness.expected = manifest[f][t] /\ witness.actual # witness.expected
          /\ t \in OldSinceGate(f) => disk[f] \in Whole /\ disk[f][t] = witness.actual
          /\ \A u \in OldSinceGate(f) : u < t => ~Contradicted(f, u)
          /\ \A g \in InManifest : g < f =>
                \A u \in OldSinceGate(g) : disk[g] \in Whole /\ ~Contradicted(g, u)
    /\ verdict = "raised" =>
          manifest = None \/ \E f \in InManifest : OldSinceBuild(f) = {}
=============================================================================
