------------------------------ MODULE FieldGates ------------------------------
(***************************************************************************)
(* The gates of firealarm's backends for prime fields and rings            *)
(* (FieldBackend.t.h, RingBackend.t.h), as functions of the modulus p and  *)
(* of the values of their wires, and the one-bit logic that the plugins    *)
(* build from them (ExtendedArithmetic.t.h).                               *)
(***************************************************************************)
EXTENDS Integers

addGate(p, left, right) == (left + right) % p
mulGate(p, left, right) == (left * right) % p
addcGate(p, left, constant) == (left + constant) % p
mulcGate(p, left, constant) == (left * constant) % p

(* Asserts are suppressed unless the program runs as prover.                *)
assertZero(suppressAsserts, value) == suppressAsserts \/ value = 0

(* Bits are wires that hold 0 or 1; the constants subtract with p - 1.      *)
bit_and(p, l, r) == mulGate(p, l, r)
bit_andc(p, l, c) == mulcGate(p, l, c)

bit_xor(p, l, r) ==
  addGate(p, addGate(p, l, r), mulcGate(p, mulGate(p, l, r), p - 2))

bit_xorc(p, l, c) ==
  addGate(p, addcGate(p, l, c), mulcGate(p, mulcGate(p, l, c), p - 2))

bit_not(p, i) == addcGate(p, mulcGate(p, i, p - 1), 1)
bit_notc(c) == (c + 1) % 2
===============================================================================
