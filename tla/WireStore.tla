----------------------------- MODULE WireStore ------------------------------
(***************************************************************************)
(* What the memory of one scope promises the gates (nails/Scope.h): a wire *)
(* is assigned once, keeps the value it was assigned until it is deleted,  *)
(* and never comes back after that. How wires are grouped into ranges only *)
(* decides which @new, @delete and output mappings are refused; a refused  *)
(* call ends the run. Scope.tla implements this.                           *)
(***************************************************************************)
EXTENDS Integers, Functions

CONSTANTS
  Wire,         \* the wire indices
  Error         \* the values of ScopeError other than success

VARIABLES
  store,        \* the value of each active wire: a function of these wires
  assigned,     \* every wire that was ever assigned
  err           \* "success" until a call is refused

storeVars == <<store, assigned, err>>

(* A wire's value is named by the wire it was computed for.                *)
ValueOf(w) == w

Put(S) ==
  /\ assigned' = assigned \cup S
  /\ store' = [w \in S \cup DOMAIN store |->
                IF w \in S THEN ValueOf(w) ELSE store[w]]

Drop(S) ==
  /\ UNCHANGED assigned
  /\ store' = Restrict(store, (DOMAIN store) \ S)

Init ==
  /\ store = [w \in {} |-> ValueOf(w)]
  /\ assigned = {}
  /\ err = "success"

(* Inputs mapped from a caller, a wire assigned by a gate, or the outputs   *)
(* of a call: all of them fresh.                                            *)
Assign(S) ==
  /\ UNCHANGED err
  /\ S \cap assigned = {}
  /\ Put(S)

(* A deletion either covers active wires only, or is refused, possibly      *)
(* after some of its wires are gone.                                        *)
Delete(f, l) ==
  /\ UNCHANGED err
  /\ f..l \subseteq DOMAIN store
  /\ Drop(f..l)

RefuseDelete(f, l) ==
  /\ err' = "unmatchedDelete"
  /\ Drop(f..l)

Refuse ==
  /\ err' \in Error
  /\ UNCHANGED <<store, assigned>>

Next ==
  /\ err = "success"
  /\ \/ \E S \in SUBSET Wire : Assign(S)
     \/ \E f, l \in Wire : Delete(f, l) \/ RefuseDelete(f, l)
     \/ Refuse

Spec == Init /\ [][Next]_storeVars
=============================================================================
