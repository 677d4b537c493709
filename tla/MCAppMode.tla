----------------------------- MODULE MCAppMode -----------------------------
(***************************************************************************)
(* AppMode for TLC, in three kinds of behaviours: the key is touched; the  *)
(* USB plug goes in and out instead; neither, and the phone sends a longer *)
(* sequence of the commands that change the power of the STM32, without    *)
(* which no APDU is left over.  The properties are AppMode's: but in the   *)
(* first kind touches stays 0, so ToldUntouched speaks of all the states.  *)
(***************************************************************************)
EXTENDS AppMode

VARIABLE kind

PowerCommands ==
    {"setup_turnoff", "download_start", "download_exit", "key_apdu", "signed"}

Plugs == INSTANCE AppMode WITH MaxTouches <- 0, MaxPlugs <- 2
Calls == INSTANCE AppMode WITH MaxTouches <- 0, MaxWaits <- 0, MaxCommands <- 6,
                               Commands <- PowerCommands

ModeInit == Init /\ kind \in {"touch", "plug", "call"}

TouchStep == kind = "touch" /\ Next /\ UNCHANGED kind
PlugStep  == kind = "plug" /\ Plugs!Next /\ UNCHANGED kind
CallStep  == kind = "call" /\ Calls!Next /\ UNCHANGED kind

ModeNext == TouchStep \/ PlugStep \/ CallStep

ModeSpec == ModeInit /\ [][ModeNext]_<<vars, kind>>
=============================================================================
