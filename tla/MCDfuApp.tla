------------------------------ MODULE MCDfuApp ------------------------------
(***************************************************************************)
(* Dfu for TLC, updates of the application (the .cfg's constants) and of   *)
(* the bootloader alone, the latter also with a packet of two parts.       *)
(* what says which of them the phone tries.                                *)
(***************************************************************************)
EXTENDS Dfu

VARIABLE what

Old == <<"b", "b">>
NewImage == {<<"a", "b">>}
TwoWords == {<<"a">>, <<"b">>}

App == [mode |-> {"app"}, sd |-> 0, bl |-> 0, app |-> 8]
TooBig == [App EXCEPT !.app = 12]
AppPackets == {App, TooBig}

BlPacket == [mode |-> {"bl"}, sd |-> 0, bl |-> 8, app |-> 0]
Mixed == [mode |-> {"sd", "app"}, sd |-> 4, bl |-> 0, app |-> 6]
BlPackets == {BlPacket, [BlPacket EXCEPT !.bl = 12], Mixed}

Bl == INSTANCE Dfu WITH
          Images <- {<<"a", "a">>}, DataPackets <- {<<"a">>},
          StartPackets <- BlPackets

ASSUME BlAssumption == Bl!DfuAssumption

UpdateInit == Init /\ what \in {"app", "bl"}

AppStep == what = "app" /\ Next /\ SameStart /\ UNCHANGED what
BlStep  == what = "bl" /\ Bl!Next /\ Bl!SameStart /\ UNCHANGED what

UpdateNext == AppStep \/ BlStep

UpdateSpec == UpdateInit /\ [][UpdateNext]_<<vars, what>>

-----------------------------------------------------------------------------
(* The types of Dfu for either update, with the ring of the transport's    *)
(* buffers, the room in the queue of flash commands and what passed its    *)
(* check: an image that the phone announced, word for word.                *)
UpdateTypes ==
    /\ what = "app" => TypeOK
    /\ what = "bl" => Bl!TypeOK
=============================================================================
