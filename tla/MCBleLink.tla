----------------------------- MODULE MCBleLink -----------------------------
(***************************************************************************)
(* BleLink for TLC.  Lengths, losses, retries and lost connections that    *)
(* show one thing make another too large, so that a behaviour has one of   *)
(* several sessions, with commands of its own.                             *)
(***************************************************************************)
EXTENDS BleLink

(* Command 1 is acknowledged by the STM32 and then answered, 2 is answered *)
(* at once, and 3 asks for the status of the one before it; the reply to 4 *)
(* takes ten packets, two bytes of the bitmap.                             *)
TheCmdLen == <<40, 10, 10, 30, 30, 40, 30>>
TheReplyLen == << <<10, 50>>, <<30>>, <<12>>, <<170>>, <<10, 30>>, <<50>>, <<10>> >>

Session(commands, lost, tries, dropped, timely) ==
    [commands |-> commands, losses |-> lost, retries |-> tries, drops |-> dropped,
     timely |-> timely]

(* Two commands and a long reply, with losses; two commands with lost      *)
(* connections; a status asked for without any fault; and timeouts that    *)
(* are shorter than the peer's answer.                                     *)
TheSessions ==
    { Session({1, 2}, 2, 2, 0, TRUE),
      Session({4}, 2, 2, 0, TRUE),
      Session({5, 6}, 1, 1, 2, TRUE),
      Session({1, 2, 3}, 0, 0, 0, TRUE),
      Session({7}, 0, 1, 0, FALSE) }

(* The hasty session, with less room on the link and fewer retries.        *)
Hasty == INSTANCE BleLink WITH WaitRertyTims <- 1, TxBuffers <- 1, LinkDepth <- 1

TimelyStep == session.timely /\ Next
HastyStep  == ~session.timely /\ Hasty!Next

SessionSpec == LinkInit /\ [][TimelyStep \/ HastyStep]_vars
=============================================================================
