---------------------------- MODULE PrefixCache ----------------------------
(***************************************************************************)
(* What the KV connector promises its host, without any mechanism: a keyed *)
(* cache of KV blocks that may forget at any time but only ever holds what *)
(* a cold prefill would have computed, and requests that, once answered,   *)
(* run over exactly the blocks of a cold prefill.  Gate G3c of PROMPT.md   *)
(* ("byte-identical streams with and without kappa-hits") as a state       *)
(* machine.                                                                *)
(***************************************************************************)
EXTENDS Naturals, Sequences

CONSTANTS Key,      \* block keys
          Request,  \* requests
          Asked,    \* Asked[r]: the block keys of the prompt of r
          Cold,     \* Cold[r][j]: block j of r as a cold prefill computes it
          None      \* the absent value

VARIABLES cache,    \* cache[k]: the block published under key k, or None
          answer    \* answer[r]: the blocks r decodes over, or None

vars == <<cache, answer>>

Init ==
    /\ cache = [k \in Key |-> None]
    /\ answer = [r \in Request |-> None]

\* A key is published once, with the block of some request that asks for it.
Publish(k) ==
    /\ cache[k] = None
    /\ \E r \in Request : \E j \in DOMAIN Asked[r] :
          /\ Asked[r][j] = k
          /\ cache' = [cache EXCEPT ![k] = Cold[r][j]]
    /\ UNCHANGED answer

Forget(k) ==
    /\ cache' = [cache EXCEPT ![k] = None]
    /\ UNCHANGED answer

\* The requests of one engine step are answered together.
Answer(R) ==
    /\ \A r \in R : answer[r] = None
    /\ answer' = [r \in Request |-> IF r \in R THEN Cold[r] ELSE answer[r]]
    /\ UNCHANGED cache

\* A crash or a preemption takes the blocks of some requests away.
Withdraw(R) ==
    /\ answer' = [r \in Request |-> IF r \in R THEN None ELSE answer[r]]
    /\ UNCHANGED cache

Next ==
    \/ \E k \in Key : Publish(k) \/ Forget(k)
    \/ \E R \in SUBSET Request : Answer(R) \/ Withdraw(R)

Spec == Init /\ [][Next]_vars
=============================================================================
