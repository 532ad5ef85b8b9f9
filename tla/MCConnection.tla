---------------------------- MODULE MCConnection -----------------------------
(* Plans of connections, for TLC.                                           *)
EXTENDS Connection

Plan(transport, sizes, messages, losses, sliced, shortReads, parts) ==
  [transport |-> transport, sizes |-> sizes, messages |-> messages, losses |-> losses, sliced |-> sliced,
   shortReads |-> shortReads, parts |-> parts]

\* Everything that can happen to two messages of small sizes; more messages when nothing is short or in
\* parts, of the largest size that is read as it was written (Base - 1) and of those beyond; connections
\* that break, caught or not; and in memory.
MCPlans ==
  {Plan("tcp", {1, 2}, 2, 0, TRUE, TRUE, TRUE),
   Plan("tcp", {3, 4, 5}, 3, 1, FALSE, FALSE, FALSE),
   Plan("tcp", {2}, 3, 1, TRUE, FALSE, TRUE),
   Plan("debug", {1, 2}, 4, 0, TRUE, FALSE, FALSE)}
==============================================================================
