-------------------------------- MODULE MCPress -------------------------------
(* Gates of each form, functions and plugin bindings over two wires and       *)
(* three types, and streams of two values; small buffers.                    *)
EXTENDS Press

MCGates ==
  {Plain("mulGate", 1),
   Copy("copyMulti", [first |-> 0, last |-> 1], <<Wire(1), Wire(0)>>, 0),
   Input("privateInMulti", Wire(0), 1),
   Convert(Wire(0), 1, Wire(1), 0, TRUE),
   Convert(Wire(1), 0, [first |-> 0, last |-> 1], 1, TRUE),
   Invoke("f", <<Wire(1), Wire(0)>>, <<>>)}

MCBindings ==
  {PluginOf(NoCounts, NoCounts)}
  \cup {PluginOf([NoCounts EXCEPT ![t] = 1], NoCounts) : t \in Types}
  \cup {PluginOf(NoCounts, [NoCounts EXCEPT ![2] = 1]), PluginOf([NoCounts EXCEPT ![1] = 1, ![2] = 1], NoCounts)}
===============================================================================
