------------------------------- MODULE RAMArray -------------------------------
(***************************************************************************)
(* What a RAM plugin promises (docs/3_plugins/1_ram_arith.adoc and         *)
(* 1_ram_bool_v0.adoc): arrays of elements, made with one value in every   *)
(* place, of which the element at an index is read or overwritten. An      *)
(* index beyond the array is a failure for good; it leaves every array as  *)
(* it is and reads zeros, where the docs leave what is read open. Elements *)
(* count from 0. What the arrays take is reported in wires.                *)
(***************************************************************************)
EXTENDS Integers, Sequences

CONSTANTS
  Handles,    \* the names of arrays
  Elements,   \* what an array holds
  Zeros,      \* the elements read where there is nothing
  Indices,    \* the indexes that calls use
  MaxSize     \* the most elements of an array

VARIABLES
  live,       \* the arrays there are
  arrays,     \* the elements of each, none where there is no array
  call,       \* the last call, with all that it was given
  out,        \* the element read last
  failed,     \* some index was beyond its array
  total,      \* the wires of all arrays that there were,
  held,       \* of those that there are,
  peak        \* and the most that there were at once

report == <<total, held, peak>>
vars == <<live, arrays, call, out, failed, report>>

Init ==
  /\ live = {} /\ arrays = [h \in Handles |-> <<>>]
  /\ call = [op |-> "none"]
  /\ out \in Zeros /\ failed = FALSE
  /\ report = <<0, 0, 0>>

Create(h, size, e) ==
  /\ h \notin live /\ live' = live \cup {h}
  /\ call' = [op |-> "create", on |-> h, size |-> size, element |-> e]
  /\ arrays' = [arrays EXCEPT ![h] = [i \in 1..size |-> e]]
  /\ held' = held + size * Len(e) /\ total' = total + size * Len(e)
  /\ peak' = IF held' > peak THEN held' ELSE peak
  /\ UNCHANGED <<out, failed>>

Beyond(h, i) == i >= Len(arrays[h])

Read(h, i) ==
  /\ h \in live
  /\ call' = [op |-> "read", on |-> h, index |-> i]
  /\ out' = IF Beyond(h, i) THEN [j \in DOMAIN out |-> 0] ELSE arrays[h][i + 1]
  /\ failed' = (failed \/ Beyond(h, i))
  /\ UNCHANGED <<live, arrays, report>>

Write(h, i, e) ==
  /\ h \in live
  /\ call' = [op |-> "write", on |-> h, index |-> i, element |-> e]
  /\ arrays' = IF Beyond(h, i) THEN arrays ELSE [arrays EXCEPT ![h][i + 1] = e]
  /\ failed' = (failed \/ Beyond(h, i))
  /\ UNCHANGED <<live, out, report>>

Drop(h) ==
  /\ h \in live /\ live' = live \ {h}
  /\ call' = [op |-> "drop", on |-> h]
  /\ arrays' = [arrays EXCEPT ![h] = <<>>]
  /\ held' = held - (IF arrays[h] = <<>> THEN 0 ELSE Len(arrays[h]) * Len(arrays[h][1]))
  /\ UNCHANGED <<out, failed, total, peak>>

Next ==
  \E h \in Handles :
    \/ Drop(h)
    \/ \E size \in 0..MaxSize, e \in Elements : Create(h, size, e)
    \/ \E i \in Indices : Read(h, i) \/ \E e \in Elements : Write(h, i, e)

Spec == Init /\ [][Next]_vars
===============================================================================
