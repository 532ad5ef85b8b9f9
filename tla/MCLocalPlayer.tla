---------------------------- MODULE MCLocalPlayer ----------------------------
(* Plans for TLC: which keys are pressed and how often, which blocks come.   *)
EXTENDS LocalPlayer

MCPlans ==
  {[keys |-> {"left"}, presses |-> 2, others |-> 1, types |-> {"O"}],
   [keys |-> {"left", "right"}, presses |-> 2, others |-> 0, types |-> {"O"}],
   [keys |-> {"rotate"}, presses |-> 2, others |-> 1, types |-> {"T"}],
   [keys |-> {"down", "downGround"}, presses |-> 1, others |-> 0, types |-> {"I"}]}

MCAiPlans ==
  {[types |-> {"I", "S"}, landings |-> 5, restarts |-> 0],
   [types |-> {"O", "J"}, landings |-> 5, restarts |-> 0],
   [types |-> {"J", "S", "I"}, landings |-> 5, restarts |-> 0],
   [types |-> {"T", "L"}, landings |-> 4, restarts |-> 1]}
=============================================================================
