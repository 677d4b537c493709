------------------------------ MODULE MCDfuSd ------------------------------
(***************************************************************************)
(* Dfu and SdSwap for TLC: an update of SoftDevice and bootloader, and the *)
(* swap of the SoftDevice page by page, which Dfu has in one step.  They   *)
(* share nothing, so that a behaviour is one of either while the other     *)
(* rests in its initial state; swapping says which.  The .cfg's images:    *)
(* one that fits in place of the old SoftDevice, and two with a tail.      *)
(***************************************************************************)
EXTENDS SdSwap

VARIABLES swapping,
          words, settings, sd, old_bl, gpregret, pc, ram, validated, nresets

OneWord == {<<"a">>}
OldWords == <<"b", "b">>

Update == INSTANCE Dfu WITH
              flash <- words, bl <- old_bl,
              RX_BUF_QUEUE_SIZE <- 2, Contents <- {"a", "b"},
              Images <- {<<"a", "a", "a">>}, OldImage <- OldWords,
              OldSd <- OldWords, OldBl <- OldWords, BankWords <- 2,
              StartPackets <- {[mode |-> {"sd", "bl"}, sd |-> 8, bl |-> 4, app |-> 0]},
              DataPackets <- OneWord, BL_IMAGE_MAX_SIZE <- 8,
              PSTORAGE_CMD_QUEUE_SIZE <- 4, UINT_MAX <- 31,
              MaxLate <- 1, MaxResets <- 1

ASSUME UpdateAssumption == Update!DfuAssumption

updateVars == <<words, settings, sd, old_bl, gpregret, pc, ram, validated, nresets>>

DeviceInit ==
    /\ swapping \in BOOLEAN
    /\ Init
    /\ Update!Init
    /\ ~swapping => size = 5 /\ ~hasBl /\ like = {}

UpdateStep == ~swapping /\ Update!Next /\ Update!SameStart /\ UNCHANGED <<swapping, vars>>
SwapStep   == swapping /\ Next /\ UNCHANGED <<swapping, updateVars>>

DeviceNext == UpdateStep \/ SwapStep

deviceVars == <<swapping, vars, updateVars>>

BootloaderStep ==
    \/ ~swapping /\ Update!Main /\ UNCHANGED <<swapping, vars>>
    \/ swapping /\ System /\ UNCHANGED <<swapping, updateVars>>

(* The bootloader runs whenever there is power.                            *)
DeviceSpec ==
    DeviceInit /\ [][DeviceNext]_deviceVars /\ WF_deviceVars(BootloaderStep)

-----------------------------------------------------------------------------
(* For an update of SoftDevice and bootloader: what is marked valid on the *)
(* settings page is whole, what is started is whole, and a SoftDevice that *)
(* was copied in part can be copied again (with the types of Dfu).         *)
SdMarkedWhole ==
    Update!TypeOK /\ Update!WholeStarted

(* After every loss of power the device comes back: to an application, or  *)
(* to waiting for the phone; and with finitely many of them the swap comes *)
(* to an end.                                                              *)
Recovers == []<>(IF swapping THEN ~ pending ELSE Update!Back)
=============================================================================
