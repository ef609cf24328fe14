------------------------ MODULE DrafterCorrectness ------------------------
(* What the drafter gets right, and what its comments claim beyond it.      *)
EXTENDS Drafter

\* The drafts that exist: tracked, queued, in the sealer's hands, sealed.
Drafts ==
    {tracked[id] : id \in DOMAIN tracked} \cup {queue[i] : i \in DOMAIN queue}
    \cup ({inHand} \ {None}) \cup sealed

Owners(d) == {p[1] : p \in PlacesIn(d.pat) \cup PlacesIn(d.resp)}

\* The tokens of a sequence of places run on without a gap.
Consecutive(s) ==
    \A i \in 1 .. Len(s) - 1 : s[i + 1] = <<s[i][1], s[i][2] + 1>>

\* Requests that a row key of the drafts' time could not tell apart.
Alike(r, s, m) ==
    LET h == Lesser(KeyTokens, m + 1) IN
        SubSeq(Stream[r], 1, h) = SubSeq(Stream[s], 1, h)

\* What a sequence has of each request is in the order of its stream, and there is
\* no gap in it.
Gapless(s) ==
    /\ \A i, j \in DOMAIN s : i < j /\ s[i][1] = s[j][1] => s[i][2] < s[j][2]
    /\ \A p, q \in PlacesIn(s) : p[1] = q[1] =>
          \A m \in p[2] .. q[2] : <<p[1], m>> \in PlacesIn(s)

\* A draft continues the stream it was cut from: its pattern is a run of tokens
\* that ends where the response begins, and what it has of each request is a
\* gapless run of tokens that the target model accepted, none of the prompt.
\* Under the pinned contract it has one request; under the nightly one only
\* requests of equal heads are mixed (drafter.py:6-8, :147-148, _propose_rows).
DraftsAreGenuine ==
    \A d \in Drafts :
        /\ d.resp # <<>> /\ Gapless(d.resp)
        /\ \A p \in PlacesIn(d.resp) : p[2] \in PromptLen[p[1]] + 1 .. length[p[1]]
        /\ Consecutive(Append(d.pat, d.resp[1]))
        /\ IF contract = "pinned" THEN Cardinality(Owners(d)) = 1
           ELSE \A r, s \in Owners(d) : Alike(r, s, d.resp[1][2] - 1)

\* The drafts and rows that hold the token p, and whether it was given up.
Homes(p) ==
    Cardinality({id \in DOMAIN tracked : p \in PlacesIn(tracked[id].resp)})
    + Cardinality({i \in DOMAIN queue : p \in PlacesIn(queue[i].resp)})
    + Cardinality({d \in sealed : p \in PlacesIn(d.resp)})
    + (IF p \in InHand THEN 1 ELSE 0)
    + (IF p \in InRows THEN 1 ELSE 0)
    + (IF p \in forgone THEN 1 ELSE 0)

\* Every accepted token is in exactly one place: a row of the call in progress,
\* one draft, or given up for a reason the code has: the row was at the length
\* limit, the draft too short, the queue full, a put raised, the process ended
\* (_propose_rows, _seal, _drain_seals, _seal_all).
EveryTokenAccounted ==
    \A r \in Req : \A i \in PromptLen[r] + 1 .. length[r] : Homes(<<r, i>>) = 1

\* No call of this process has come yet.
NoCallYet == DOMAIN tracked = {} /\ \A r \in Req \ gone : length[r] = PromptLen[r]

\* Between two calls the suffix tree holds as active exactly what is tracked, and
\* none of it as cached: otherwise it would never be sealed, or started twice. The
\* id that a failed replay leaves active is no exception for long: the first call,
\* which does not know it, frees it (_warm:128-135, _propose_rows:209-211).
TrackedIsActive ==
    /\ phase = "idle" => active = DOMAIN tracked \/ (active = {Synth} /\ NoCallYet)
    /\ cached \cap active \subseteq {Synth}

\* Whatever the files of the store have become, the tree is warmed with nothing
\* but drafts that some process sealed (drafter.py:14-16, _warm).
TreeIsGrounded == warmed \subseteq {Encoded(d) : d \in sealed}

\* A restart recalls what was sealed: as long as nothing went wrong, a boot ends
\* only with every sealed draft in the tree, or with its fill of them; what else
\* lies in the store does not count (drafter.py:9-11, _warm).
RestartRecalls ==
    [][phase = "boot" /\ phase' = "idle" /\ faults = 0 =>
          \/ Cardinality(warmed) = WarmMax
          \/ {Encoded(d) : d \in sealed} \subseteq warmed]_vars

\* The main thread never waits for the store or for the sealer, dead or alive:
\* a boot, a call and an exit end (drafter.py:113, :134).
MainGoesOn ==
    \A p \in {"boot", "rows", "sealing", "exit"} : (phase = p) ~> (phase # p)

Log == INSTANCE DraftLog WITH accepted <- length, log <- sealed

\* Sealing refines the log: each put adds at most one draft, of tokens that were
\* accepted, that no sealed draft has, over all processes and crashes.
ImplementsDraftLog == Log!Spec

\* drafter.py:134: "warm start must never block boot".
BootIsNeverBlocked == phase # "refused"
=============================================================================
