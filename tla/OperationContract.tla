------------------------- MODULE OperationContract -------------------------
(***************************************************************************)
(* What a caller of an operation of freeiam.ldap.Connection may rely on,   *)
(* whatever sockets, readers, futures and retries are behind it: the       *)
(* operation is begun, it is given responses of its own, in the server's   *)
(* order and without gaps, and it ends once.  It ends normally only with   *)
(* the last response; it may break off with an exception at any time.      *)
(***************************************************************************)
EXTENDS Naturals, Sequences

CONSTANTS Ops,      \* the operations
          Length    \* how many responses the server has for each: Length \in [Ops -> Nat]

VARIABLES phase,    \* "new", "running", "done" or "broken" of each operation
          handed    \* the responses handed out: [op, n] is the n-th answer to op

vars == <<phase, handed>>

\* The first k responses to operation t.
Answers(t, k) == [n \in 1..k |-> [op |-> t, n |-> n]]

Init ==
  /\ phase = [t \in Ops |-> "new"]
  /\ handed = [t \in Ops |-> <<>>]

\* One that the server has no answer to, an unbind, may end as it begins.
Begin(t) ==
  /\ phase[t] = "new"
  /\ \/ phase' = [phase EXCEPT ![t] = "running"]
     \/ Length[t] = 0 /\ phase' = [phase EXCEPT ![t] = "done"]
  /\ UNCHANGED handed

HandOut(t) ==
  /\ phase[t] = "running"
  /\ \E k \in 0..Length[t] :
       /\ k >= Len(handed[t])
       /\ handed' = [handed EXCEPT ![t] = Answers(t, k)]
       /\ \/ UNCHANGED phase
          \/ k = Length[t] /\ phase' = [phase EXCEPT ![t] = "done"]

\* Breaking off may go with a last response: NotUnique carries the results so far.
BreakOff(t) ==
  /\ phase[t] \in {"new", "running"}
  /\ phase' = [phase EXCEPT ![t] = "broken"]
  /\ \E k \in 0..Length[t] :
       /\ k >= Len(handed[t])
       /\ handed' = [handed EXCEPT ![t] = Answers(t, k)]

Next == \E t \in Ops : Begin(t) \/ HandOut(t) \/ BreakOff(t)

Spec == Init /\ [][Next]_vars
=============================================================================
