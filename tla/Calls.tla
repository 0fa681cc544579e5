------------------------------- MODULE Calls -------------------------------
(***************************************************************************)
(* What the executor promises of calls, with no byte code, no instruction  *)
(* pointer and no register in it.  Every activation has an answer slot of  *)
(* its own, filled once by the very call it made last, and it is the next  *)
(* thing the activation looks at: it neither computes, calls nor returns   *)
(* over an answer it has not taken.  A suspended activation is not touched.*)
(***************************************************************************)
EXTENDS Naturals, Sequences

CONSTANTS Callable,  \* what can be called
          Val,       \* the values passed back
          Aborted    \* the outcome of a run that failed

VARIABLES acts,      \* the activations, each the caller of the next one
          outcome    \* <<>>, <<v>> or Aborted

vars == <<acts, outcome>>

Last == acts[Len(acts)]
Callers == SubSeq(acts, 1, Len(acts) - 1)
Active == acts # <<>> /\ outcome = <<>>

\* The state above `callers` is one activation of f with its answer slot.
TopIs(callers, f, answer) ==
  /\ Len(acts') = Len(callers) + 1
  /\ SubSeq(acts', 1, Len(callers)) = callers
  /\ acts'[Len(acts')].fn = f
  /\ acts'[Len(acts')].answer = answer

Init == acts = <<>> /\ outcome = <<>>

Begin ==
  /\ acts = <<>> /\ outcome = <<>>
  /\ \E f \in Callable : TopIs(<<>>, f, <<>>)
  /\ UNCHANGED outcome

\* A step within the running activation.
Work ==
  /\ Active /\ Last.answer = <<>>
  /\ TopIs(Callers, Last.fn, <<>>)
  /\ UNCHANGED outcome

\* The running activation takes the answer to its last call.
Receive ==
  /\ Active /\ Last.answer # <<>>
  /\ TopIs(Callers, Last.fn, <<>>)
  /\ UNCHANGED outcome

\* The running activation is suspended under the one it calls.
Invoke ==
  /\ Active /\ Last.answer = <<>>
  /\ Len(acts') = Len(acts) + 1
  /\ SubSeq(acts', 1, Len(acts) - 1) = Callers
  /\ acts'[Len(acts)].fn = Last.fn
  /\ acts'[Len(acts)].answer = <<>>
  /\ acts'[Len(acts')].fn \in Callable
  /\ acts'[Len(acts')].answer = <<>>
  /\ UNCHANGED outcome

\* The running activation ends with v: the answer to its own caller, which
\* is otherwise as it was left, or the outcome.
Yield ==
  /\ Active /\ Last.answer = <<>>
  /\ \/ /\ Len(acts) = 1
        /\ acts' = <<>>
        /\ \E v \in Val : outcome' = <<v>>
     \/ /\ Len(acts) > 1
        /\ \E v \in Val :
             acts' = [Callers EXCEPT ![Len(acts) - 1].answer = <<v>>]
        /\ UNCHANGED outcome

Abort ==
  /\ outcome = <<>>
  /\ outcome' = Aborted
  /\ acts' = <<>>

Next == Begin \/ Work \/ Receive \/ Invoke \/ Yield \/ Abort

Spec == Init /\ [][Next]_vars

=============================================================================
