----------------------------- MODULE DraftLog -----------------------------
(***************************************************************************)
(* The promise of the drafter's persistence (drafter.py:6-8): a log that   *)
(* only grows, of drafts whose responses are tokens that requests have     *)
(* accepted behind their prompts, each token in one draft at most, and no  *)
(* draft shorter than the minimum.                                         *)
(***************************************************************************)
EXTENDS Integers, Sequences

CONSTANTS Req, PromptLen, MinSeal

VARIABLES
    accepted,  \* how many tokens each request has, prompt included
    log        \* the sealed drafts

InLog == UNION {{d.resp[i] : i \in DOMAIN d.resp} : d \in log}

Init == accepted = PromptLen /\ log = {}

\* A step of the model: requests accept tokens.
Accept ==
    /\ accepted' \in [Req -> Nat]
    /\ \A r \in Req : accepted'[r] >= accepted[r]
    /\ UNCHANGED log

Fresh(p) ==
    /\ p[1] \in Req
    /\ p[2] \in PromptLen[p[1]] + 1 .. accepted[p[1]]
    /\ p \notin InLog

Seal ==
    /\ \E d \in log' \ log :
          /\ log' = log \cup {d}
          /\ Len(d.resp) >= MinSeal
          /\ \A i \in DOMAIN d.resp : Fresh(d.resp[i])
    /\ UNCHANGED accepted

Next == Accept \/ Seal

Spec == Init /\ [][Next]_<<accepted, log>>
=============================================================================
