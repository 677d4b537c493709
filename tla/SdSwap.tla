------------------------------- MODULE SdSwap -------------------------------
(***************************************************************************)
(* How the bootloader puts a received SoftDevice in its place, page by     *)
(* page: dfu_sd_image_swap(), dfu_sd_image_validate() and                  *)
(* dfu_sd_img_block_swap() of dfu_dual_bank.c, called by                   *)
(* bootloader_dfu_sd_update_continue() at every start of the chip as long  *)
(* as the settings page says that a SoftDevice waits.  Dfu takes this for  *)
(* one step; here power may fail between any two pages.                    *)
(*                                                                         *)
(* The image lies behind the old SoftDevice, which has two blocks.  When   *)
(* it is longer than that, its tail goes where its own first block lies,   *)
(* and the order of the copies matters:                                    *)
(*                                                                         *)
(*     | MBR | block 0 | block 1 | image: block 0 | block 1 | tail | bl    *)
(*           SD                  start                                     *)
(*                                                                         *)
(* The recursion is a stack of what is left to do, `todo`.  The MBR, which *)
(* is not in the repository, erases and writes a page at a time.           *)
(***************************************************************************)
EXTENDS Integers, Sequences

CONSTANTS MBR_SIZE,         \* pages of the MBR
          Half,             \* pages of a block, half of the old SoftDevice
          ImageSizes,       \* sizes of a SoftDevice that may be received
          InfoPage,         \* the page of a SoftDevice that holds its size
          Unprogrammed,     \* stands for 0xFFFFFFFF
          MaxFails          \* bound: losses of power

SOFTDEVICE_REGION_START == MBR_SIZE
sd_image_start == SOFTDEVICE_REGION_START + 2 * Half

(***************************************************************************)
(* DFU_IMAGE_MAX_SIZE_FULL keeps the tail far below a block on this chip:  *)
(* 128 kB, where the SoftDevice has 108 kB.                                *)
(***************************************************************************)
ASSUME SdSwapAssumption ==
    /\ MBR_SIZE \in Nat \ {0} /\ Half \in Nat \ {0}
    /\ InfoPage \in 1 .. Half - 1
    /\ ImageSizes \subseteq InfoPage + 1 .. 3 * Half
    /\ Unprogrammed > MBR_SIZE + 4 * Half
    /\ MaxFails \in Nat

VARIABLES
    flash,        \* pages from the SoftDevice to the end of the images
    bl,           \* the bootloader
    size, hasBl,  \* sd_image_size, and whether a bootloader came along
    like,         \* pages in which the new SoftDevice is as the old one
    pending,      \* the settings page: the images are not yet in place
    stage,        \* the call of bootloader_dfu_sd_update_continue()
    todo,         \* what is left of it
    nfails

received == <<size, hasBl, like>>
vars == <<flash, bl, received, pending, stage, todo, nfails>>

Pages == SOFTDEVICE_REGION_START .. sd_image_start + 3 * Half
Region == SOFTDEVICE_REGION_START .. SOFTDEVICE_REGION_START + size - 1
Blank == <<"blank", 0>>
Old(i) == <<"old", i>>
New(i) == IF i \in like THEN Old(i) ELSE <<"new", i>>
NewBl == <<"bl", 1>>

(* A page cut off while it was written, before or after the size.          *)
Torn == {<<"torn", 0>>, <<"torn", 1>>}
PageContents == {Blank, NewBl} \cup Torn
            \cup {"old", "new"} \X (0 .. 3 * Half - 1)

bl_image_start == sd_image_start + size

(* SD_SIZE_GET(MBR_SIZE): the end of the SoftDevice, MBR included.         *)
SD_SIZE_GET ==
    LET page == flash[SOFTDEVICE_REGION_START + InfoPage]
    IN  IF page[1] = "old" THEN SOFTDEVICE_REGION_START + 2 * Half
        ELSE IF page[1] = "new" \/ page = <<"torn", 1>>
             THEN SOFTDEVICE_REGION_START + size
             ELSE Unprogrammed

Overlaps == SOFTDEVICE_REGION_START + size > sd_image_start

(***************************************************************************)
(* The copies that overlap: block 2 is the tail.                           *)
(***************************************************************************)
Dst(k) == SOFTDEVICE_REGION_START + k * Half
Length(k) == IF k = 2 THEN size - 2 * Half ELSE Half

(* SD_MBR_COMMAND_COMPARE                                                  *)
Same(dst, len) == \A p \in dst .. dst + len - 1 : flash[p] = flash[p + 2 * Half]

(* SD_MBR_COMMAND_COPY_SD: the pages left to do; the next one is erased,   *)
(* and then written.                                                       *)
Copy(src, dst, len) == [op |-> "erase", page |-> dst, from |-> src, len |-> len]

Call(op, k) == [op |-> op, page |-> k, from |-> k, len |-> 0]

(* A call of dfu_sd_img_block_swap() after its comparison has failed.      *)
BlockSwap(k) ==
       (IF k > 0 THEN << Call("swap", k - 1) >> ELSE <<>>)
    \o << Copy(Dst(k) + 2 * Half, Dst(k), Length(k)), Call("check", k) >>

(* Mutant: nothing is cleared.                                             *)
Invalidate_Skipped == <<>>

(* The pages that are cleared so that the old SoftDevice does not compare. *)
Invalidate ==
    IF SD_SIZE_GET < size
    THEN << Copy(Dst(1), Dst(1), 1), Copy(Dst(0), Dst(0), 1) >>
    ELSE <<>>

dfu_sd_image_swap ==
    IF Overlaps
    THEN Invalidate \o << Call("swap", 2) >>
    ELSE << Copy(sd_image_start, SOFTDEVICE_REGION_START, size) >>

(* NRF_ERROR_NULL, a comparison that fails, is "error".                    *)
dfu_sd_image_validate ==
    IF Overlaps
    THEN << Call(IF SD_SIZE_GET < size THEN "error" ELSE "swap", 2) >>
    ELSE << Call(IF Same(SOFTDEVICE_REGION_START, size)
                 THEN "success" ELSE "error", 0) >>

dfu_bl_image_validate == hasBl => bl = flash[bl_image_start]

-----------------------------------------------------------------------------

(* Nothing is written outside of the new SoftDevice's place.               *)
TypeOK ==
    /\ flash \in [Pages -> PageContents] /\ bl \in {Blank, NewBl}
    /\ size \in ImageSizes /\ hasBl \in BOOLEAN /\ pending \in BOOLEAN
    /\ stage \in {"off", "validate", "swap", "revalidate", "bl", "finalize",
                  "done"}
    /\ \A i \in DOMAIN todo :
         \/ todo[i].op \in {"swap", "check", "success", "error"}
         \/ /\ todo[i].op \in {"erase", "write"}
            /\ todo[i].page .. todo[i].page + todo[i].len - 1 \subseteq Region
    /\ nfails \in 0 .. MaxFails

(* Everything received and its check passed: bank 0 is BANK_VALID_SD.      *)
Init ==
    /\ size \in ImageSizes /\ hasBl \in BOOLEAN
    /\ like \in SUBSET (0 .. 2 * Half - 1 \ {InfoPage})
    /\ flash = [p \in Pages |->
                  IF p < sd_image_start
                  THEN Old(p - SOFTDEVICE_REGION_START)
                  ELSE IF p < bl_image_start THEN New(p - sd_image_start)
                  ELSE IF p = bl_image_start /\ hasBl THEN NewBl ELSE Blank]
    /\ bl = Blank /\ pending = TRUE
    /\ stage = "off" /\ todo = <<>> /\ nfails = 0

Enter(s, calls) == stage' = s /\ todo' = calls
Reset == Enter("off", <<>>)

(* main(): bootloader_dfu_sd_in_progress()                                 *)
PowerOn ==
    /\ stage = "off"
    /\ IF pending THEN Enter("validate", dfu_sd_image_validate)
                  ELSE Enter("done", <<>>)
    /\ UNCHANGED <<flash, bl, received, pending, nfails>>

(* dfu_sd_img_block_swap(): what compares is taken to be swapped, and all  *)
(* before it too.                                                          *)
CompareBlock ==
    /\ todo # <<>> /\ Head(todo).op = "swap"
    /\ LET k == Head(todo).page
       IN  todo' = (IF Same(Dst(k), Length(k)) THEN <<>> ELSE BlockSwap(k))
                   \o Tail(todo)
    /\ UNCHANGED <<flash, bl, received, pending, stage, nfails>>

(* The MBR's next page.                                                    *)
ErasePage ==
    /\ todo # <<>> /\ Head(todo).op = "erase"
    /\ flash' = [flash EXCEPT ![Head(todo).page] = Blank]
    /\ todo' = << [Head(todo) EXCEPT !.op = "write"] >> \o Tail(todo)
    /\ UNCHANGED <<bl, received, pending, stage, nfails>>

WritePage ==
    /\ todo # <<>> /\ Head(todo).op = "write"
    /\ LET c == Head(todo)
       IN  /\ flash' = [flash EXCEPT ![c.page] = flash[c.from]]
           /\ todo' = (IF c.len > 1
                       THEN << Copy(c.from + 1, c.page + 1, c.len - 1) >> ELSE <<>>)
                      \o Tail(todo)
    /\ UNCHANGED <<bl, received, pending, stage, nfails>>

Failed ==
    /\ todo # <<>>
    /\ \/ Head(todo).op = "error"
       \/ /\ Head(todo).op = "check"
          /\ ~ Same(Dst(Head(todo).page), Length(Head(todo).page))

(* The comparison after a copy.                                            *)
CheckBlock ==
    /\ todo # <<>> /\ Head(todo).op \in {"check", "success"} /\ ~ Failed
    /\ todo' = Tail(todo)
    /\ UNCHANGED <<flash, bl, received, pending, stage, nfails>>

(* bootloader_dfu_sd_update_continue() when the first validation fails:    *)
(* swap.  A later failure is an APP_ERROR_CHECK(), which resets the chip.  *)
CallFails ==
    /\ Failed
    /\ IF stage = "validate" THEN Enter("swap", dfu_sd_image_swap) ELSE Reset
    /\ UNCHANGED <<flash, bl, received, pending, nfails>>

CallReturns ==
    /\ todo = <<>>
    /\ \/ /\ stage = "validate" /\ dfu_bl_image_validate
          /\ Enter("finalize", <<>>)
       \/ /\ stage = "validate" /\ ~ dfu_bl_image_validate
          /\ Enter("swap", dfu_sd_image_swap)
       \/ stage = "swap" /\ Enter("revalidate", dfu_sd_image_validate)
       \/ stage = "revalidate" /\ Enter("bl", <<>>)
    /\ UNCHANGED <<flash, bl, received, pending, nfails>>

(* dfu_bl_image_swap(): the MBR copies the bootloader, by itself and in    *)
(* spite of a loss of power, and resets the chip.                          *)
dfu_bl_image_swap ==
    /\ stage = "bl"
    /\ IF hasBl THEN bl' = flash[bl_image_start] /\ Reset
                ELSE bl' = bl /\ Enter("finalize", <<>>)
    /\ UNCHANGED <<flash, received, pending, nfails>>

(* bootloader_dfu_sd_update_finalize(): DFU_UPDATE_SD_SWAPPED is saved.    *)
Finalize ==
    /\ stage = "finalize"
    /\ pending' = FALSE /\ Enter("done", <<>>)
    /\ UNCHANGED <<flash, bl, received, nfails>>

PowerFails ==
    /\ stage \notin {"off", "done"} /\ nfails < MaxFails
    /\ nfails' = nfails + 1 /\ Reset
    /\ \/ flash' = flash
       \/ /\ todo # <<>> /\ Head(todo).op = "write"
          /\ \E torn \in Torn : flash' = [flash EXCEPT ![Head(todo).page] = torn]
    /\ UNCHANGED <<bl, received, pending>>

System ==
    \/ PowerOn \/ CompareBlock \/ ErasePage \/ WritePage \/ CheckBlock \/ CallFails
    \/ CallReturns \/ dfu_bl_image_swap \/ Finalize

Next == System \/ PowerFails

Spec == Init /\ [][Next]_vars

(* The bootloader runs whenever there is power.                            *)
FairSpec == Spec /\ WF_vars(System)

-----------------------------------------------------------------------------

InPlace(i) == flash[SOFTDEVICE_REGION_START + i] = New(i)

(***************************************************************************)
(* SD_SIZE_GET() counts the MBR: an image that is longer than the old      *)
(* SoftDevice, but by no more than the MBR, does not have that one         *)
(* invalidated.  When its second block is like the old one's, it is taken  *)
(* to be in place, and the first block too.                                *)
(***************************************************************************)
TakenForOld ==
    /\ Overlaps /\ size <= SOFTDEVICE_REGION_START + 2 * Half
    /\ Half .. 2 * Half - 1 \subseteq like

(***************************************************************************)
(* When the settings page says that the swap is over, the SoftDevice and   *)
(* the bootloader are the received ones, page by page, whatever losses of  *)
(* power there were: dfu_dual_bank.c says of the comparison from the back  *)
(* that if the back is identical everything is swapped.                    *)
(***************************************************************************)
WholeAfter ==
    ~ pending => /\ \A i \in 0 .. size - 1 : InPlace(i)
                 /\ hasBl => bl = NewBl

(***************************************************************************)
(* As long as the swap is under way every page of the received images can  *)
(* still be found, behind the old SoftDevice or in its place, although the *)
(* tail is written over the image's own beginning.                         *)
(***************************************************************************)
NothingLost ==
    pending => /\ \A i \in 0 .. size - 1 :
                    InPlace(i) \/ flash[sd_image_start + i] = New(i)
               /\ hasBl => flash[bl_image_start] = NewBl

(* Both, and nothing is written beside the new SoftDevice.                 *)
SwapWhole == TypeOK /\ (~ TakenForOld => WholeAfter /\ NothingLost)
=============================================================================
