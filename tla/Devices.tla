------------------------------- MODULE Devices -------------------------------
(***************************************************************************)
(* The devices players play with (class DeviceManager): two keyboards, and  *)
(* those of the gamepads, in the order they were first connected.  A device *)
(* stays in the list when its gamepad is gone, and is given to the next     *)
(* gamepad of its kind (guid), so that its player plays on.                 *)
(***************************************************************************)
EXTENDS Integers, Sequences, FiniteSetsExt, Selection

CONSTANT Guid  \* the gamepads there are: of which kind each is

Gamepad == DOMAIN Guid

PadDevices == Seq([gamePad : Gamepad, guid : STRING, connected : BOOLEAN])

PadNames == <<"Gamepad 1", "Gamepad 2", "Gamepad 3">>

ASSUME GuidAssumption == Guid \in Seq(STRING) /\ Len(Guid) <= Len(PadNames)

Connected(pads) == {i \in DOMAIN pads : pads[i].connected}

controllerDeviceAddedEvent(pads, p) ==
  LET lost == {i \in DOMAIN pads \ Connected(pads) : pads[i].guid = Guid[p]} IN
    IF lost # {} THEN [pads EXCEPT ![Min(lost)] = [@ EXCEPT !.gamePad = p, !.connected = TRUE]]
                 ELSE Append(pads, [gamePad |-> p, guid |-> Guid[p], connected |-> TRUE])

\* The id of a gamepad is a new one each time it is connected: no other device has it.
controllerDeviceRemovedEvent(pads, p) ==
  [i \in DOMAIN pads |-> IF i \in Connected(pads) /\ pads[i].gamePad = p
                           THEN [pads[i] EXCEPT !.connected = FALSE] ELSE pads[i]]

\* Those whose gamepad is gone as well.
getAllDevicesAvailable(pads) == <<"Keyboard 1", "Keyboard 2">> \o SubSeq(PadNames, 1, Len(pads))

\* A gamepad has one device, of its kind, and there are no more devices of a kind than gamepads.
OneDeviceEach(pads) ==
  /\ \A i, j \in Connected(pads) : pads[i].gamePad = pads[j].gamePad => i = j
  /\ \A i \in DOMAIN pads :
       /\ pads[i].guid = Guid[pads[i].gamePad]
       /\ Cardinality({j \in DOMAIN pads : pads[j].guid = pads[i].guid})
            <= Cardinality({p \in Gamepad : Guid[p] = pads[i].guid})
==============================================================================
