---------------------------- MODULE ExclusiveOps ----------------------------
(***************************************************************************)
(* What the in-flight table promises to the handlers that use it: at any   *)
(* time at most one running operation per key.  An operation starts on a   *)
(* key nobody works on, it ends when it likes, and a crash of the process  *)
(* ends them all.  The abstract state knows who works on which key; the    *)
(* code only keeps the set of keys.                                        *)
(***************************************************************************)
CONSTANTS Worker, Key, NoKey

VARIABLE workingOn   \* the key each worker has in hand, or NoKey

Init == workingOn = [w \in Worker |-> NoKey]

Start(w, k) ==
  /\ workingOn[w] = NoKey
  /\ \A x \in Worker : workingOn[x] # k
  /\ workingOn' = [workingOn EXCEPT ![w] = k]

Finish(w) ==
  /\ workingOn[w] # NoKey
  /\ workingOn' = [workingOn EXCEPT ![w] = NoKey]

Crash == workingOn' = [w \in Worker |-> NoKey]

Next ==
  \/ \E w \in Worker, k \in Key : Start(w, k)
  \/ \E w \in Worker : Finish(w)
  \/ Crash

Spec == Init /\ [][Next]_workingOn
=============================================================================
