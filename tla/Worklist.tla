------------------------------- MODULE Worklist -------------------------------
(***************************************************************************)
(* What the analysis of functions promises: every function it comes to     *)
(* know of, by a declaration or in the body of one that is analysed, is    *)
(* analysed once, and the program accepted when none is left.              *)
(***************************************************************************)
VARIABLES known, done, accepted

vars == <<known, done, accepted>>

Init == known = {} /\ done = {} /\ accepted = FALSE

Discover ==
  /\ ~accepted /\ known \subseteq known'
  /\ UNCHANGED <<done, accepted>>

\* The functions in the body of f become known with its analysis at the latest.
Analyse(f) ==
  /\ ~accepted /\ f \in known \ done
  /\ done' = done \cup {f} /\ known \subseteq known'
  /\ UNCHANGED accepted

Accept ==
  /\ ~accepted /\ done = known
  /\ accepted' = TRUE
  /\ UNCHANGED <<known, done>>

Next == Discover \/ (\E f \in known : Analyse(f)) \/ Accept
Spec == Init /\ [][Next]_vars
=============================================================================
