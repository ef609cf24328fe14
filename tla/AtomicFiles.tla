---------------------------- MODULE AtomicFiles ----------------------------
(***************************************************************************)
(* What the clients of LocalStore and KeyedIndex (vllm_kappa/fabric.py)    *)
(* take a put for: one step in which the whole value appears under its     *)
(* name, the puts of a thread in their order.  A name that two threads of  *)
(* one process fought over, or a power failure reached, is spoilt: nothing *)
(* is promised of it any more.                                             *)
(***************************************************************************)
EXTENDS Naturals, Sequences

CONSTANTS Thread, Object, Key, Work, Absent

VARIABLES
    stored,  \* what is under each name that is not spoilt
    done     \* how many of its puts each thread has finished

Init ==
    /\ stored = [n \in Object \cup Key |-> Absent]
    /\ done = [t \in Thread |-> 0]

\* An object that is there already holds the same bytes.  A put to a spoilt name
\* changes no other.
Put(t) ==
    /\ done[t] < Len(Work[t])
    /\ LET name == Work[t][done[t] + 1][1]  value == Work[t][done[t] + 1][2] IN
          stored' = [stored EXCEPT ![name] = value]
    /\ done' = [done EXCEPT ![t] = done[t] + 1]

Drop ==
    /\ \E k \in Key \cap DOMAIN stored : stored' = [stored EXCEPT ![k] = Absent]
    /\ UNCHANGED done

Spoil ==
    /\ \E S \in SUBSET DOMAIN stored : stored' = [n \in DOMAIN stored \ S |-> stored[n]]
    /\ UNCHANGED done

Next == (\E t \in Thread : Put(t)) \/ Drop \/ Spoil

Spec == Init /\ [][Next]_<<stored, done>>
=============================================================================
