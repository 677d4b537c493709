--------------------------- MODULE MCBleLinkLive ---------------------------
(***************************************************************************)
(* What must happen in BleLink, for TLC, in two instances: the phone may   *)
(* fall silent anywhere, and it keeps trying although packets are lost.    *)
(* scenario says which of them a behaviour is.                             *)
(***************************************************************************)
EXTENDS Integers, Sequences

VARIABLES
    Ble_ConnnectFlag, g_apdu, g_apdu_length, blueRecivSendflag,
    Recivedataflag, Apdufinsh, ucaRevPackN,
    ucaPackMsg, T_Connect, ucReTry, ucResend,
    lr, SumPackNumber, Sendlenth, remberPackn,
    CMD09_oldlabel, CMD09_SW, uart_waitack_flag,
    pc, stm32, toPhone, losses, work, resent,
    toDevice, outbox, current, want, got, total, answers, retries, drops, unseen,
    session, scenario

(* A command and a reply of two packets, and timeouts at any time.         *)
Silent == INSTANCE BleLink WITH
    Commands <- {1}, CmdLen <- <<30>>, ReplyLen <- << <<30>> >>,
    Local <- {1}, Status <- {},
    MaxParts <- 2, WaitRertyTims <- 1, TxBuffers <- 1, LinkDepth <- 1, MaxLoss <- 0,
    Sessions <- {[commands |-> {1}, losses |-> 0, retries |-> 0, drops |-> 0,
                  timely |-> FALSE]}

(* An STM32 that answers in three packets, and a query of the status.      *)
Trying == INSTANCE BleLink WITH
    Commands <- {1, 2, 3}, CmdLen <- <<40, 10, 10>>, ReplyLen <- << <<10, 50>>, <<30>>, <<12>> >>,
    Local <- {2, 3}, Status <- {3},
    MaxParts <- 3, WaitRertyTims <- 3, TxBuffers <- 3, LinkDepth <- 2, MaxLoss <- 2,
    Sessions <- {[commands |-> 1 .. 3, losses |-> 2, retries |-> 3, drops |-> 0,
                  timely |-> TRUE]}

ASSUME LiveAssumptions ==
    /\ Silent!LinkAssumption /\ Trying!LinkAssumption
    /\ Silent!TransferAssumption /\ Trying!TransferAssumption

Init ==
    \/ scenario = "silent" /\ Silent!LinkInit
    \/ scenario = "trying" /\ Trying!LinkInit

silent == scenario = "silent" /\ UNCHANGED scenario
trying == scenario = "trying" /\ UNCHANGED scenario

SilentStep == silent /\ Silent!Next
TryingStep == trying /\ Trying!Next

Next == SilentStep \/ TryingStep

linkVars == <<Ble_ConnnectFlag, g_apdu, g_apdu_length, blueRecivSendflag,
    Recivedataflag, Apdufinsh, ucaRevPackN, ucaPackMsg, T_Connect, ucReTry,
    ucResend, lr, SumPackNumber, Sendlenth, remberPackn, CMD09_oldlabel,
    CMD09_SW, uart_waitack_flag, pc, stm32, toPhone, losses, work, resent,
    toDevice, outbox, current, want, got, total, answers, retries, drops, unseen,
    session, scenario>>

(* The device and the link are fair, as BleLink!Fairness says, and in one  *)
(* scenario phone and STM32 as well, as BleLink!TryingFairness says.       *)
SilentFairness ==
    /\ WF_linkVars(silent /\ Silent!DeviceTurn)
    /\ WF_linkVars(silent /\ Silent!DeviceTimeOut)
    /\ WF_linkVars(silent /\ Silent!DeviceReceives)
    /\ WF_linkVars(silent /\ Silent!PhoneGetsReport)
    /\ WF_linkVars(silent /\ Silent!PhoneGetsData)
    /\ WF_linkVars(silent /\ Silent!PhoneSend)

TryingFairness ==
    /\ WF_linkVars(trying /\ Trying!DeviceTurn)
    /\ WF_linkVars(trying /\ Trying!DeviceTimeOut)
    /\ WF_linkVars(trying /\ Trying!DeviceReceives)
    /\ WF_linkVars(trying /\ Trying!PhoneGetsReport)
    /\ WF_linkVars(trying /\ Trying!PhoneGetsData)
    /\ WF_linkVars(trying /\ Trying!PhoneSend)
    /\ WF_linkVars(trying /\ Trying!Connect)
    /\ WF_linkVars(trying /\ Trying!PhoneAsksAgain)
    /\ WF_linkVars(trying /\ Trying!PhoneRepeats)
    /\ SF_linkVars(trying /\ Trying!Stm32Replies)

FairSpec == Init /\ [][Next]_linkVars /\ SilentFairness /\ TryingFairness

-----------------------------------------------------------------------------
(* When the phone falls silent, neither direction of the device stays      *)
(* busy: half a command and an unacknowledged reply are dropped.           *)
ComesToRest ==
    scenario = "silent" =>
        []<>(Apdufinsh = 0 /\ SumPackNumber = 0 /\ lr = 0 /\ ucResend = 0)

(* A command the phone keeps trying to send is worked in the end, whatever *)
(* packets of it, or reports about it, were lost (the third only asks for  *)
(* the status of the second).                                              *)
EventuallyWorked ==
    \A c \in 1 .. 2 : (scenario = "trying" /\ current = c) ~> (scenario = "trying" /\ work[c] = 1)

(* As long as nothing is lost, every command gets all its replies.         *)
Answered ==
    \A c \in 1 .. 3 :
        (scenario = "trying" /\ current = c)
            ~> \/ scenario = "trying" /\ Len(answers[c]) = (IF c = 1 THEN 2 ELSE 1)
               \/ losses < 2
=============================================================================
