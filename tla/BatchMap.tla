------------------------------ MODULE BatchMap ------------------------------
(***************************************************************************)
(* What a batch of requests promises its caller, with no word on how many  *)
(* are in flight or in which order they are polled: every item gets one    *)
(* output, an output never changes, and the caller sees either all of      *)
(* them, in the order of the items, or (when the command is cancelled      *)
(* while it waits) none.                                                   *)
(***************************************************************************)
EXTENDS Naturals

CONSTANTS N,        \* the number of items
          Values,   \* the outputs a request can have
          None      \* no output yet

VARIABLES outputs,  \* outputs[i] is the output of item i, or None
          result    \* what the caller sees: the outputs in item order, or None

vars == <<outputs, result>>

Init ==
    /\ outputs = [i \in 1..N |-> None]
    /\ result = None

\* One more item has its output.
Answer(i, v) ==
    /\ outputs[i] = None
    /\ outputs' = [outputs EXCEPT ![i] = v]
    /\ UNCHANGED result

\* The caller is given every output, each under its own item.
Return ==
    /\ result = None
    /\ \A i \in 1..N : outputs[i] # None
    /\ result' = outputs
    /\ UNCHANGED outputs

Next == Return \/ \E i \in 1..N, v \in Values : Answer(i, v)

Spec == Init /\ [][Next]_vars
=============================================================================
