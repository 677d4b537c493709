------------------------- MODULE MCBleLinkAnnounced -------------------------
(***************************************************************************)
(* BleLink for TLC, with one command of two packets and a hasty device.    *)
(***************************************************************************)
EXTENDS BleLink

ShortCmdLen == <<30, 10>>
ShortReplyLen == << <<10>>, <<10>> >>
HastySessions ==
    {[commands |-> {1}, losses |-> 1, retries |-> 0, drops |-> 0, timely |-> FALSE]}
=============================================================================
