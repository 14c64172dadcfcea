------------------------------- MODULE FanOut -------------------------------
(***************************************************************************)
(* fan_out::bounded: runs a request per item with at most Limit of them in *)
(* flight, polls the futures in slot order, and returns the outputs in the *)
(* order of the items.  The futures live on the task of the command, so a  *)
(* cancelled command drops all of them at the await (run_until_cancelled   *)
(* of lib.rs).                                                             *)
(*                                                                         *)
(* Item i of the source is item i + 1 here.  The code between two awaits   *)
(* is one step: Fill is the refill loop with the exit test, Poll is one    *)
(* wake-up of poll_fn that finds a ready future, with the removal of its   *)
(* slot and the store of its output.                                       *)
(***************************************************************************)
EXTENDS Naturals, Sequences

CONSTANTS N,        \* items.len()
          Limit,    \* the limit argument: 0 is allowed
          Values,   \* the outputs a request can have
          NoOutput  \* Option::None

ASSUME SizesAreNaturals == N \in Nat /\ Limit \in Nat

\* Option::None is none of the outputs, and no list of outputs either.
ASSUME NoneIsNoValue ==
    /\ NoOutput \notin Values
    /\ NoOutput \notin [1..N -> Values \cup {NoOutput}]

VARIABLES stage,    \* "fill", "poll", "done" or "dropped"
          pending,  \* the next item that pending.next() yields
          running,  \* the items in flight, by slot
          answers,  \* what the future of an item resolves to, NoOutput until then
          outputs,  \* outputs[i], NoOutput until the future was polled ready
          result    \* what bounded returned, NoOutput until it has

fanVars == <<stage, pending, running, answers, outputs, result>>

Items == 1..N

\* limit.max(1)
EffectiveLimit == IF Limit = 0 THEN 1 ELSE Limit

\* (fault) The last slot is dropped with the removed one.
SwapRemoveLosesLast(slots, k) == [j \in 1..(Len(slots) - 1) |-> slots[j]]

\* (fault) The future stays in its slot.
SwapRemoveKeeps(slots, k) == slots

\* Vec::swap_remove: the last slot takes the place of the removed one.
SwapRemove(slots, k) ==
    [j \in 1..(Len(slots) - 1) |-> IF j = k THEN slots[Len(slots)] ELSE slots[j]]

FanInit ==
    /\ stage = "fill"
    /\ pending = 1
    /\ running = <<>>
    /\ answers = [i \in Items |-> NoOutput]
    /\ outputs = [i \in Items |-> NoOutput]
    /\ result = NoOutput

-----------------------------------------------------------------------------
\* (fault) The refill tests the room after the push.
StartedOneTooMany ==
    LET room == EffectiveLimit + 1 - Len(running)
        left == N - (pending - 1)
    IN  IF room < left THEN room ELSE left

\* How many of the pending items the refill loop starts.
Started ==
    LET room == IF Len(running) < EffectiveLimit THEN EffectiveLimit - Len(running) ELSE 0
        left == N - (pending - 1)
    IN  IF room < left THEN room ELSE left

\* Tops up the slots, then leaves the loop when nothing is in flight.
Fill ==
    /\ stage = "fill"
    /\ pending' = pending + Started
    /\ running' = [j \in 1..(Len(running) + Started) |->
                      IF j <= Len(running) THEN running[j]
                      ELSE pending + (j - Len(running) - 1)]
    /\ IF Len(running) + Started = 0
       THEN stage' = "done" /\ result' = outputs
       ELSE stage' = "poll" /\ UNCHANGED result
    /\ UNCHANGED <<answers, outputs>>

\* The first slot, in slot order, whose future is ready.
FirstReady(k) ==
    /\ k \in 1..Len(running)
    /\ answers[running[k]] # NoOutput
    /\ \A j \in 1..(k - 1) : answers[running[j]] = NoOutput

\* (fault) The output is filed under the slot, not under the item.
StoreOutputBySlot(k) == outputs' = [outputs EXCEPT ![k] = answers[running[k]]]

\* poll_fn found slot k ready; its output is stored under its item.
StoreOutput(k) == outputs' = [outputs EXCEPT ![running[k]] = answers[running[k]]]

Poll ==
    /\ stage = "poll"
    /\ \E k \in 1..Len(running) :
          /\ FirstReady(k)
          /\ StoreOutput(k)
          /\ running' = SwapRemove(running, k)
    /\ stage' = "fill"
    /\ UNCHANGED <<pending, answers, result>>

\* The request of item i is answered (or fails): its future is ready from now on.
Resolve(i, v) ==
    /\ \E k \in 1..Len(running) : running[k] = i
    /\ stage = "poll"
    /\ answers[i] = NoOutput
    /\ answers' = [answers EXCEPT ![i] = v]
    /\ UNCHANGED <<stage, pending, running, outputs, result>>

\* Ctrl-C while bounded waits: the select of run_until_cancelled drops the
\* command's future, and with it every request in flight.
Cancel ==
    /\ stage = "poll"
    /\ stage' = "dropped"
    /\ running' = <<>>
    /\ UNCHANGED <<pending, answers, outputs, result>>

\* A finished batch stays finished.
Finished ==
    /\ stage \in {"done", "dropped"}
    /\ UNCHANGED fanVars

FanNext ==
    \/ Fill
    \/ Poll
    \/ \E i \in Items, v \in Values : Resolve(i, v)
    \/ Cancel
    \/ Finished

\* The task polls again when a future wakes it, and every request is answered,
\* fails or times out.  Nobody has to press Ctrl-C.
FanFairness ==
    /\ WF_fanVars(Fill)
    /\ WF_fanVars(Poll)
    /\ \A i \in Items : WF_fanVars(\E v \in Values : Resolve(i, v))

FanSpec == FanInit /\ [][FanNext]_fanVars

FanFairSpec == FanSpec /\ FanFairness

-----------------------------------------------------------------------------
FanTypeOK ==
    /\ stage \in {"fill", "poll", "done", "dropped"}
    /\ pending \in 1..(N + 1)
    /\ running \in Seq(Items)
    /\ answers \in [Items -> Values \cup {NoOutput}]
    /\ outputs \in [Items -> Values \cup {NoOutput}]
    /\ result \in [Items -> Values \cup {NoOutput}] \cup {NoOutput}

\* bounded opens no more connections at once than its limit, and it never
\* waits with a free slot while an item is left to start.
InFlightBound ==
    /\ Len(running) <= EffectiveLimit
    /\ stage = "poll" => Len(running) = EffectiveLimit \/ pending = N + 1

\* swap_remove moves slots about, yet every item that was started is in one
\* slot only, or has its output stored: no request is lost, none runs twice.
ItemsConserved ==
    /\ \A j, k \in 1..Len(running) : running[j] = running[k] => j = k
    /\ stage # "dropped" =>
         \A i \in Items :
            /\ i < pending <=> (outputs[i] # NoOutput \/ \E k \in 1..Len(running) : running[k] = i)
            /\ outputs[i] # NoOutput => \A k \in 1..Len(running) : running[k] # i

\* "returns the outputs in the order of the inputs": the caller gets one
\* output for every item, the one its own request had, and a cancelled
\* command gets nothing.
ResultInOrder ==
    /\ result # NoOutput => \A i \in Items : result[i] = answers[i] /\ answers[i] # NoOutput
    /\ (stage = "done") <=> (result # NoOutput)

\* Unless it is cancelled, a batch whose requests are all answered ends.
BatchEnds == <>(stage \in {"done", "dropped"})

\* bounded implements the promise of a batch.
Promise == INSTANCE BatchMap WITH None <- NoOutput
BatchPromise == Promise!Spec

-----------------------------------------------------------------------------
\* An output that was stored is the answer of its own request.
OutputIsAnswer == \A i \in Items : outputs[i] # NoOutput => outputs[i] = answers[i]

\* The inductive invariant: the bound, the conservation of items and the
\* meaning of an output support one another.
FanInv == FanTypeOK /\ InFlightBound /\ ItemsConserved /\ OutputIsAnswer /\ ResultInOrder
=============================================================================
