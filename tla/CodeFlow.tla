------------------------------ MODULE CodeFlow ------------------------------
(***************************************************************************)
(* The flow of control in the byte code of a function, as the executor     *)
(* follows it (smpli/src/executor.rs): addresses are counted from 0 and    *)
(* jumps are relative or absolute.                                         *)
(***************************************************************************)
EXTENDS Integers, Sequences

CONSTANT MaxIP   \* u64::MAX, the last instruction pointer

ASSUME IPAssumption == MaxIP \in Nat

Target(i, ip) == IF i.rel THEN ip + i.dest ELSE i.dest

\* Where control can go after the instruction at address a.
Successors(code, a) ==
  LET i == code[a + 1]
  IN  CASE i.op = "Return" -> {}
        [] i.op = "Jump" -> {Target(i, a)}
        [] i.op = "JumpIf" -> {Target(i, a), a + 1}
        [] OTHER -> {a + 1}

Addresses(code) == 0 .. Len(code) - 1

\* The addresses control reaches from 0, in as many rounds as there are.
Onward(code, from) == from \cup UNION {Successors(code, a) : a \in from \cap Addresses(code)}
Reached(code) ==
  LET reached[k \in 0 .. Len(code)] == IF k = 0 THEN {0} ELSE Onward(code, reached[k - 1])
  IN  reached[Len(code)]

\* Reachable code stays inside the function, a reachable FnCall is followed
\* by a TakeReturn, and a TakeReturn is reached from nowhere else.
CodeOK(code, flow) ==
  /\ 0 \in flow /\ flow \subseteq Addresses(code)
  /\ Len(code) <= MaxIP
  /\ code[1].op # "TakeReturn"
  /\ \A a \in flow :
       /\ Successors(code, a) \subseteq flow
       /\ code[a + 1].op = "FnCall" => code[a + 2].op = "TakeReturn"
       /\ code[a + 1].op # "FnCall" =>
            \A b \in Successors(code, a) : code[b + 1].op # "TakeReturn"

=============================================================================
