---------------------------- MODULE MCExchanges ----------------------------
(***************************************************************************)
(* UartLink for TLC, and the modes of AppMode, left alone, of which the    *)
(* exchanges with the STM32 are a part: what was begun comes to rest.  The *)
(* two are modelled apart, so that a behaviour is one of either while the  *)
(* other keeps its initial state; part says which.                         *)
(*   "uart"     timely exchanges, and with tighter bounds those whose      *)
(*              timeouts may come before an answer;                        *)
(*   "hand"     a mode is left after a command and a touch or a plug;      *)
(*   "pairing"  after a command and a pairing;                             *)
(*   "both"     after a pairing and a touch or a plug.                     *)
(***************************************************************************)
EXTENDS UartLink

VARIABLES
    part,
    m, handler, cmd, place, finger, plug, connected,
    commands, touches, plugs, connects, pairings

modeVars == <<m, handler, cmd, place, finger, plug, connected,
              commands, touches, plugs, connects, pairings>>

AllCommands ==
    { "setup_time", "setup_timeout", "setup_timeout_0", "setup_turnoff", "setup_other",
      "download_start", "download_apdu", "download_exit",
      "key_on", "key_off", "key_apdu", "signed" }

Hasty == INSTANCE UartLink WITH
             MAX_resend <- 2, MaxGiven <- 2, MaxFault <- 1, MaxSwitch <- 2, Timers <- TRUE

Mode == INSTANCE AppMode WITH
            queued <- handler, pc <- place,
            Commands <- AllCommands, MaxCommands <- 1, MaxTouches <- 1, MaxPlugs <- 1,
            MaxHands <- 1, MaxConnects <- 1, MaxPairings <- 1, MaxWaits <- 1

(* Two of the three, command, hand and pairing.                            *)
Pair ==
    /\ part = "hand" => pairings' = 0
    /\ part = "pairing" => touches' = 0 /\ plugs' = 0
    /\ part = "both" => commands' = 0

InMode(step)  == part # "uart" /\ step /\ Pair /\ UNCHANGED <<part, vars>>
InHasty(step) ==
    part = "uart" /\ ~timely /\ step /\ UNCHANGED <<part, timely, modeVars>>

PartInit ==
    /\ Init /\ Mode!Init
    /\ part \in {"uart", "hand", "pairing", "both"}
    /\ IF part = "uart" THEN m.pin29 = "H" ELSE timely

TimelyStep == part = "uart" /\ timely /\ Next /\ UNCHANGED <<part, modeVars>>
HastyStep  == InHasty(Hasty!Next)
ModeStep   == InMode(Mode!Next)

PartVars == <<part, vars, modeVars>>

(* Fairness, as UartLink states it, where a timeout may always come, and   *)
(* as AppMode states it.                                                   *)
PartSpec ==
    /\ PartInit /\ [][TimelyStep \/ HastyStep \/ ModeStep]_PartVars
    /\ WF_PartVars(InHasty(Hasty!UartDataSendrecive))
    /\ WF_PartVars(InHasty(Hasty!TimeOutUart_handler))
    /\ WF_PartVars(InHasty(Hasty!uart_event_handle))
    /\ WF_PartVars(InMode(Mode!Turn))
    /\ WF_PartVars(InMode(Mode!Read_CapKey)) /\ WF_PartVars(InMode(Mode!ReadAdc))
    /\ WF_PartVars(InMode(Mode!debug_wangnan))
    /\ WF_PartVars(InMode(Mode!TimeOutMain_handler))
    /\ WF_PartVars(InMode(Mode!TimeOut1sec_handler))

-----------------------------------------------------------------------------
(* Uart_DMWZ.c: no command is waited for forever.  It is acknowledged,     *)
(* answered, or given up, also when the STM32 stays silent or what it      *)
(* sends is lost.                                                          *)
SettlesAlways == (part = "uart" /\ ~timely) => Settles

(* main.c: left alone the device turns itself off, from every mode and     *)
(* after every interleaving of commands, touches and timeouts; but an      *)
(* update of the STM32 lasts as long as its connection (AppMode.Rests).    *)
Rests == part # "uart" => Mode!Rests
=============================================================================
