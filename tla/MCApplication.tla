---------------------------- MODULE MCApplication ----------------------------
(* Plans for TLC, and what a room may tell.                                 *)
EXTENDS Application

\* Everything, a few clicks; a game that is saved and resumed; players in the lobby, and
\* with gamepads; a room.
MCPlans ==
  {[clicks |-> 5, events |-> 3, moves |-> 1,
    commands |-> {"F1", "F5", "P", "quit", "crash", "local", "network", "leave", "popup", "slot",
                  "choose", "create"}],
   [clicks |-> 7, events |-> 0, moves |-> 3, commands |-> {"F1", "F5", "P", "quit", "crash"}],
   [clicks |-> 9, events |-> 0, moves |-> 1, commands |-> {"leave", "local", "slot", "choose", "create", "P"}],
   [clicks |-> 8, events |-> 3, moves |-> 0, commands |-> {"leave", "local", "slot", "choose", "create", "pad"}],
   [clicks |-> 8, events |-> 5, moves |-> 1, commands |-> {"leave", "network", "F1", "P"}]}

MCRoomSlots ==
  {AllOpen, [AllOpen EXCEPT ![1] = "no device"], [AllOpen EXCEPT ![1] = "Remote", ![2] = "no device"]}

\* Two gamepads of one kind.
MCGuid == <<"one kind", "one kind">>

MCRoomPlayers == {<<"Keyboard 1">>, <<"Remote", "Keyboard 1">>}
=============================================================================
