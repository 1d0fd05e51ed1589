------------------------------- MODULE MCPlugins ------------------------------
(* Five prime fields, one of them Boolean, and a ring of two bits.          *)
EXTENDS Plugins

MCBackends == {[field |-> m # 4, modulus |-> m] : m \in {2, 3, 4, 5, 7, 11}}
===============================================================================
