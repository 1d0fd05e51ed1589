---------------------------- MODULE InlinedCircuit ----------------------------
(***************************************************************************)
(* What a circuit with functions promises: each top-level directive stands *)
(* for a sequence of operations, which are performed once each and in      *)
(* order before the next directive is read; nothing is performed after one *)
(* that failed.                                                            *)
(***************************************************************************)
EXTENDS Sequences

CONSTANT Operations

VARIABLES
  todo,      \* what the directive that was read last still has to perform
  done,      \* what was performed
  stopped    \* the circuit ended, or something failed

Init == todo = <<>> /\ done = <<>> /\ stopped = FALSE

Read ==
  /\ ~ stopped /\ todo = <<>>
  /\ todo' \in Seq(Operations)
  /\ UNCHANGED <<done, stopped>>

Perform ==
  /\ ~ stopped /\ todo /= <<>>
  /\ done' = Append(done, Head(todo))
  /\ todo' = Tail(todo)
  /\ UNCHANGED stopped

(* A directive of a single operation is read and performed at once.         *)
ReadAndPerform ==
  /\ ~ stopped /\ todo = <<>>
  /\ \E op \in Operations : done' = Append(done, op)
  /\ UNCHANGED <<todo, stopped>>

Stop == stopped' = TRUE /\ todo' = <<>> /\ UNCHANGED done

Next == Read \/ Perform \/ ReadAndPerform \/ Stop

Spec == Init /\ [][Next]_<<todo, done, stopped>>
===============================================================================
