----------------------------- MODULE DfuProofs -----------------------------
(***************************************************************************)
(* Proofs about Dfu, for banks and images of any length, any packets of    *)
(* the phone and any number of losses of power and failures of the flash:  *)
(* what the settings page says is in the banks is there, and so is what    *)
(* the phone is told was received.                                         *)
(***************************************************************************)
EXTENDS Dfu, TLAPS

-----------------------------------------------------------------------------
(* Types.                                                                  *)

Fields ==
    {"m_dfu_state", "m_start_packet", "m_image_size", "m_functions", "active",
     "m_data_received", "m_init_packet", "m_extended_packet", "timer", "timeouts",
     "m_dfu_timed_out", "m_pkt_type", "m_update_mode", "mp_final_packet",
     "m_tear_down_in_progress", "conn", "pool", "cmds", "done", "m_update_status", "late",
     "settings", "resp", "sent", "assert"}

IsPage(page) ==
    DOMAIN page = {"bank_0", "bank_1", "bank_0_crc", "bank_0_size",
                   "sd_image_size", "bl_image_size"}
IsPool(q) ==
    /\ DOMAIN q = {"free_window_count", "free_available_count", "read_available_count",
                   "write_index", "read_index", "free_index"}
    /\ q.write_index \in Buffers

FlashOps == {"clear", "store", "copy"}
SettingsCmds == {ClearSettings, StoreSettings}
AnyCmd == [op : FlashOps \cup {"clear_settings", "store_settings"}, at : Nat, size : Nat,
           buffer : Buffers, words : Seq(Contents)]
Cmds == {c \in AnyCmd : c.op \in FlashOps \/ c \in SettingsCmds}

IsRam(r) ==
    /\ DOMAIN r = Fields
    /\ IsPage(r.settings) /\ IsPool(r.pool)
    /\ r.cmds \in Seq(Cmds) /\ r.done \in BOOLEAN /\ (r.done => r.cmds # <<>>)
    /\ r.m_init_packet \in Seq(Images \cup {<<"foreign">>})
    /\ r.m_data_received \in Nat /\ r.m_image_size \in Nat
    /\ r.m_tear_down_in_progress \in BOOLEAN /\ r.assert \in BOOLEAN

(* t is r but for these fields.                                            *)
Alike(t, r, fields) == DOMAIN t = Fields /\ \A f \in Fields \ fields : t[f] = r[f]

Types ==
    /\ flash = [a \in Addresses |-> flash[a]]
    /\ IsPage(settings) /\ IsRam(ram)
    /\ validated \in Seq(Contents) \ {<<>>}

-----------------------------------------------------------------------------
(* The settings page.                                                      *)

Valid == {"BANK_VALID_APP", "BANK_VALID_SD"}
Marks(page) == page.bank_0 \in Valid \/ page.bank_1 = "BANK_VALID_BOOT"

(* What a page says is in the banks is there; the SoftDevice is the first  *)
(* part of the image.                                                      *)
Whole(page) ==
    /\ page.bank_0 \in Valid => Holds(BANK_0, validated) /\ page.bank_1 # "BANK_VALID_BOOT"
    /\ page.bank_1 = "BANK_VALID_BOOT" => Holds(BANK_1, validated) /\ page.sd_image_size = 0
    /\ page.bank_0 = "BANK_VALID_APP" => page.bank_0_crc = NO_CRC
    /\ page.bank_0 = "BANK_VALID_SD" =>
          page.sd_image_size \in Nat /\ page.sd_image_size <= 4 * Len(validated)

Unmarked == ~Marks(settings) /\ ~Marks(ram.settings)

(* What the flash may find to do when main has stopped, r being what main  *)
(* left.                                                                   *)
Stoppable(r) ==
    \/ r.done \/ r.cmds = <<>>
    \/ /\ Head(r.cmds).op \in FlashOps => ~Marks(settings)
       /\ Head(r.cmds) = StoreSettings => Whole(r.settings)

-----------------------------------------------------------------------------
(* The update.                                                             *)

(* The flash has these commands to do.                                     *)
Todo == IF ram.done THEN Tail(ram.cmds) ELSE ram.cmds
OnlySettings(s) == \A i \in DOMAIN s : s[i] \in SettingsCmds

(* A start packet was accepted.                                            *)
Limit(functions) == IF functions = "sd" THEN 2 * BankWords ELSE BankWords
Bank(functions) == IF functions = "sd" THEN BANK_0 ELSE BANK_1
Accepted ==
    LET p == ram.m_start_packet
    IN  /\ p \in StartPackets /\ ram.m_functions = Functions(p)
        /\ ram.m_image_size = p.sd + p.bl + p.app
        /\ ram.m_image_size % 4 = 0 /\ ram.m_image_size <= 4 * Limit(ram.m_functions)
        /\ ram.active = Bank(ram.m_functions)

(* Where the next packet is stored and where the image ends; in between    *)
(* the bank is erased.                                                     *)
NextAt == ram.active + ram.m_data_received \div 4
End == ram.active + ram.m_image_size \div 4
Erased == \A a \in Addresses : a >= NextAt /\ a < End => flash[a] = EMPTY

(* What is to be stored goes to erased words, each word once.              *)
After(c) == c.at + Len(c.words)
Stores ==
    \A i \in DOMAIN Todo : Todo[i] \notin SettingsCmds =>
        /\ Todo[i].op = "store" /\ Todo[i].words # <<>>
        /\ Todo[i].size = 4 * Len(Todo[i].words)
        /\ Todo[i].at >= ram.active /\ After(Todo[i]) <= NextAt
        /\ \A a \in Addresses : a >= Todo[i].at /\ a < After(Todo[i]) => flash[a] = EMPTY
        /\ \A j \in DOMAIN Todo :
              i < j /\ Todo[j] \notin SettingsCmds => After(Todo[i]) <= Todo[j].at

Idle == ram.cmds = <<>> /\ ram.m_data_received = 0

Preparing ==
    /\ Accepted /\ ram.m_data_received = 0
    /\ ram.cmds = << IF ram.m_functions = "sd" THEN Clear(BANK_0, ram.m_image_size)
                     ELSE Clear(BANK_1, DFU_IMAGE_MAX_SIZE_BANKED) >>
    /\ ram.done => Erased

Ready ==
    /\ Accepted /\ ram.m_data_received = 0 /\ Erased
    /\ OnlySettings(Todo)
    /\ ram.m_functions # "sd" => Todo = <<>>

Receiving ==
    /\ Accepted
    /\ ram.m_extended_packet \in Seq(Contents) \ {<<>>}
    /\ ram.m_data_received # UINT_MAX =>
          /\ ram.m_data_received <= ram.m_image_size /\ ram.m_data_received % 4 = 0
          /\ Erased
    /\ Stores
    /\ ram.m_functions # "sd" => \A i \in DOMAIN Todo : Todo[i] \notin SettingsCmds

(* The image was checked.                                                  *)
Checked ==
    /\ Accepted /\ 4 * Len(validated) = ram.m_image_size
    /\ Holds(ram.active, validated)
    /\ OnlySettings(Todo)
    /\ ram.m_functions # "sd" => Todo = <<>>

(* It could not be activated, since the queue is full.                     *)
Refused ==
    /\ Accepted /\ ram.m_functions = "app" /\ ram.m_tear_down_in_progress

(* It is being activated: these commands are left to do.                   *)
Image == 4 * Len(validated)
Copied ==
    /\ ~Marks(settings)
    /\ Todo \in {<<ClearSettings, StoreSettings>>, <<StoreSettings>>}
    /\ Holds(BANK_0, validated)
Activated ==
    /\ Accepted /\ ram.m_functions = "app" /\ Image = ram.m_image_size
    /\ ram.settings.bank_0 = "BANK_VALID_APP" /\ ram.settings.bank_0_crc = NO_CRC
    /\ ram.settings.bank_1 # "BANK_VALID_BOOT"
    /\ ram.m_tear_down_in_progress
    /\ \/ /\ ~Marks(settings) /\ Holds(BANK_1, validated)
          /\ Todo = <<Clear(BANK_0, Image), Copy(Image), ClearSettings, StoreSettings>>
       \/ /\ ~Marks(settings) /\ Holds(BANK_1, validated)
          /\ Todo = <<Copy(Image), ClearSettings, StoreSettings>>
          /\ \A a \in Addresses : a < Len(validated) => flash[a] = EMPTY
       \/ Copied
       \/ Todo = <<>> /\ Whole(settings) /\ Holds(BANK_0, validated)

Saved ==
    /\ Accepted /\ ram.m_tear_down_in_progress
    /\ OnlySettings(Todo) /\ Whole(settings) /\ Whole(ram.settings)

Updating ==
    /\ ram.m_tear_down_in_progress => ram.conn \in {"disconnecting", "off"}
    /\ \/ /\ Unmarked
          /\ \/ ram.m_dfu_state = "IDLE" /\ Idle
             \/ ram.m_dfu_state = "PREPARING" /\ Preparing
             \/ ram.m_dfu_state \in {"RDY", "RX_INIT_PKT"} /\ Ready
             \/ ram.m_dfu_state = "RX_DATA_PKT" /\ Receiving
             \/ ram.m_dfu_state = "VALIDATE"
             \/ ram.m_dfu_state = "WAIT_4_ACTIVATE" /\ (Checked \/ Refused)
       \/ ram.m_dfu_state = "WAIT_4_ACTIVATE" /\ (Activated \/ Saved)

Finalizing ==
    /\ ram.m_dfu_state = "INIT_ERROR" /\ ram.m_data_received = 0
    /\ ~ram.m_tear_down_in_progress
    /\ Whole(settings) /\ ~Marks(ram.settings)
    /\ \/ ram.cmds = <<ClearSettings, StoreSettings>> /\ (ram.done => ~Marks(settings))
       \/ ram.cmds \in {<<StoreSettings>>, <<>>} /\ ~Marks(settings)
    /\ ram.m_update_status = "COMPLETE" => ram.cmds = <<>>

-----------------------------------------------------------------------------
(* From reset to reset.                                                    *)

Torn_SD == BAD \in {sd[k] : k \in DOMAIN sd}

Steady ==
    /\ pc \notin {"finalize", "dfu", "reset"} => ram = RamInit /\ Whole(settings)
    /\ pc = "app" => settings.bank_0 = "BANK_VALID_APP"
    /\ gpregret => pc = "boot"
    /\ gpregret \/ pc = "erase_settings" => settings.bank_0 # "BANK_VALID_SD"
    /\ pc = "erase_banks" => ~Marks(settings)
    /\ Torn_SD => /\ pc \in {"boot", "check", "swap_sd"}
                  /\ settings.bank_0 = "BANK_VALID_SD" /\ settings.sd_image_size # 0
    /\ pc \in {"swap_sd", "swap_bl"} => bootloader_dfu_sd_in_progress

IInv ==
    /\ Types /\ Steady /\ ~ram.assert
    /\ pc = "dfu" => Updating
    /\ pc = "finalize" => Finalizing
    /\ pc = "reset" => Whole(settings) /\ Stoppable(ram) /\ ~ram.done

-----------------------------------------------------------------------------
(* Lengths, and contents of the flash.                                     *)

(* Banks and images have room in the numbers of the code.                  *)
LEMMA Numbers ==
    /\ BankWords \in Nat /\ BankWords >= 1
    /\ UINT_MAX \in Nat /\ UINT_MAX > 8 * BankWords
    /\ EMPTY \notin Contents /\ BAD \notin Contents /\ EMPTY # BAD
    /\ Addresses = 0 .. 2 * BankWords - 1 /\ BANK_0 = 0 /\ BANK_1 = BankWords
    /\ 0 \in Buffers /\ RX_BUF_QUEUE_SIZE \in Nat /\ RX_BUF_QUEUE_SIZE >= 2
BY DfuAssumption, RingAssumption DEF EMPTY, BAD, Addresses, BANK_0, BANK_1, Buffers

(* A number of bytes that fits is not cut off.                             *)
LEMMA UINT_Is ==
    ASSUME NEW n \in Nat, n <= UINT_MAX
    PROVE  UINT(n) = n
BY Numbers DEF UINT

(* What is in the flash from an address on, word by word.                  *)
LEMMA ContentIs ==
    ASSUME NEW v \in Seq(Contents), NEW f, NEW a \in Nat
    PROVE  ([k \in 1 .. (4 * Len(v)) \div 4 |-> f[a + k - 1]] = v)
              <=> \A k \in 1 .. Len(v) : f[a + k - 1] = v[k]
<1>1. Len(v) \in Nat /\ (4 * Len(v)) \div 4 = Len(v) /\ DOMAIN v = 1 .. Len(v)
  OBVIOUS
<1>2. v = [k \in 1 .. Len(v) |-> v[k]]
  OBVIOUS
<1> QED BY <1>1, <1>2

(* See above.                                                              *)
LEMMA HoldsIs ==
    ASSUME validated \in Seq(Contents), NEW a \in Nat
    PROVE  Holds(a, validated) <=> \A k \in 1 .. Len(validated) : flash[a + k - 1] = validated[k]
BY ContentIs DEF Holds, Content

(* It stays where the flash stays.                                         *)
LEMMA HoldsKept ==
    ASSUME NEW a, UNCHANGED <<flash, validated>>
    PROVE  Holds(a, validated)' <=> Holds(a, validated)
BY DEF Holds, Content

(* It stays where the flash stays at its words.                            *)
LEMMA HoldsThere ==
    ASSUME Types, NEW a \in Nat, Holds(a, validated), validated' = validated,
           \A k \in 1 .. Len(validated) : flash'[a + k - 1] = flash[a + k - 1]
    PROVE  Holds(a, validated)'
<1>1. validated \in Seq(Contents)
  BY DEF Types
<1>2. \A k \in 1 .. Len(validated) : flash[a + k - 1] = validated[k]
  BY <1>1, HoldsIs
<1>3. [k \in 1 .. (4 * Len(validated)) \div 4 |-> flash'[a + k - 1]] = validated
  BY <1>1, <1>2, ContentIs
<1> QED BY <1>3 DEF Holds, Content

(* Two commands, one after the other.                                      *)
LEMMA Pair ==
    ASSUME NEW a, NEW b
    PROVE  Append(Append(<<>>, a), b) = <<a, b>>
<1> DEFINE s == Append(<<a>>, b)
           t == <<a, b>>
<1>1. <<a>> \in Seq({a, b}) /\ t \in Seq({a, b}) /\ Len(t) = 2 /\ t[1] = a /\ t[2] = b
  OBVIOUS
<1>2. s \in Seq({a, b}) /\ Len(s) = 2 /\ s[1] = a /\ s[2] = b
  BY <1>1
<1>3. Append(<<>>, a) = <<a>>
  OBVIOUS
<1> HIDE DEF s, t
<1>4. s = [i \in 1 .. 2 |-> s[i]] /\ t = [i \in 1 .. 2 |-> t[i]]
  BY <1>1, <1>2
<1>5. \A i \in 1 .. 2 : s[i] = t[i]
  BY <1>1, <1>2
<1>6. s = t
  BY <1>4, <1>5
<1> QED BY <1>3, <1>6 DEF s, t

(* Four.                                                                   *)
LEMMA Four ==
    ASSUME NEW a, NEW b, NEW c, NEW d
    PROVE  Append(Append(Append(Append(<<>>, a), b), c), d) = <<a, b, c, d>>
<1> DEFINE s == Append(Append(<<a, b>>, c), d)
           t == <<a, b, c, d>>
<1>1. /\ <<a, b>> \in Seq({a, b, c, d}) /\ t \in Seq({a, b, c, d}) /\ Len(t) = 4
      /\ t[1] = a /\ t[2] = b /\ t[3] = c /\ t[4] = d
  OBVIOUS
<1>2. PICK u : u = Append(<<a, b>>, c)
  OBVIOUS
<1>3. u \in Seq({a, b, c, d}) /\ Len(u) = 3 /\ u[1] = a /\ u[2] = b /\ u[3] = c
  BY <1>1, <1>2
<1>4. /\ s \in Seq({a, b, c, d}) /\ Len(s) = 4
      /\ s[1] = a /\ s[2] = b /\ s[3] = c /\ s[4] = d
  BY <1>2, <1>3
<1> HIDE DEF s, t
<1>5. s = [i \in 1 .. 4 |-> s[i]] /\ t = [i \in 1 .. 4 |-> t[i]]
  BY <1>1, <1>4
<1>6. \A i \in 1 .. 4 : s[i] = t[i]
  BY <1>1, <1>4
<1>7. s = t
  BY <1>5, <1>6
<1>8. Append(Append(<<>>, a), b) = <<a, b>>
  BY Pair
<1> QED BY <1>7, <1>8 DEF s, t

(* A page stays right where the flash stays.                               *)
LEMMA WholeKept ==
    ASSUME NEW page, UNCHANGED <<flash, validated>>
    PROVE  Whole(page)' <=> Whole(page)
BY HoldsKept DEF Whole

(* A page that marks nothing is right.                                     *)
LEMMA UnmarkedWhole ==
    ASSUME NEW page, ~Marks(page)
    PROVE  Whole(page)
BY DEF Marks, Whole, Valid

(* The pages that the flash is given without an image.                     *)
LEMMA PlainPages ==
    /\ IsPage(ErasedPage) /\ ~Marks(ErasedPage)
    /\ IsPage(BadPage) /\ ~Marks(BadPage)
    /\ IsPage(ZeroPage) /\ ~Marks(ZeroPage)
    /\ \A crc, n : IsPage(Page("BANK_INVALID_APP", crc, n))
                   /\ ~Marks(Page("BANK_INVALID_APP", crc, n))
BY DEF ErasedPage, BadPage, ZeroPage, Page, IsPage, Marks, Valid, BAD

(* The variables after a reset.                                            *)
LEMMA RamInit_Is ==
    /\ IsRam(RamInit) /\ RamInit.cmds = <<>> /\ RamInit.done = FALSE
    /\ RamInit.m_dfu_state = "INIT_ERROR" /\ RamInit.m_data_received = 0
    /\ RamInit.m_tear_down_in_progress = FALSE /\ RamInit.assert = FALSE
    /\ RamInit.conn = "off" /\ RamInit.settings = ZeroPage
    /\ RamInit.m_update_status = "UPDATING"
<1>1. DOMAIN RamInit = Fields
  BY DEF RamInit, Fields
<1>2. IsPool(EmptyRing)
  BY Numbers DEF EmptyRing, IsPool
<1> QED BY <1>1, <1>2, PlainPages DEF RamInit, IsRam

(* What a reset leaves of what main left.                                  *)
LEMMA Stopped_Is ==
    ASSUME NEW r, IsPage(r.settings), r.cmds \in Seq(Cmds)
    PROVE  /\ IsRam(Stopped(r)) /\ Stopped(r).done = FALSE /\ Stopped(r).assert = FALSE
           /\ \/ Stopped(r).cmds = <<>>
              \/ /\ ~r.done /\ r.cmds # <<>>
                 /\ Stopped(r).cmds = <<Head(r.cmds)>> /\ Stopped(r).settings = r.settings
<1>1. CASE r.done \/ r.cmds = <<>>
  BY <1>1, RamInit_Is DEF Stopped
<1>2. CASE ~r.done /\ r.cmds # <<>>
  <2>1. Head(r.cmds) \in Cmds
    BY <1>2
  <2>2. <<Head(r.cmds)>> \in Seq(Cmds)
    BY <2>1
  <2>3. Stopped(r) = [RamInit EXCEPT !.cmds = <<Head(r.cmds)>>, !.settings = r.settings]
    BY <1>2 DEF Stopped
  <2> QED BY <1>2, <2>2, <2>3, RamInit_Is DEF IsRam, Fields
<1> QED BY <1>1, <1>2

(* Operations on the settings leave the banks alone.                       *)
LEMMA SettingsOnly ==
    ASSUME Types, NEW c, c \in SettingsCmds
    PROVE  FlashDone(c) = flash /\ Torn(flash, FlashDone(c)) = {flash}
<1>0. 0 \div 4 = 0
  <2>1. \A n \in Nat : n < 4 => n \div 4 = 0
    OBVIOUS
  <2> QED BY <2>1
<1>1. c.at = 0 /\ c.size = 0
  <2>1. \A op, a, n : Command(op, a, n).at = a /\ Command(op, a, n).size = n
    BY DEF Command
  <2>2. ClearSettings.at = 0 /\ ClearSettings.size = 0
    BY <2>1 DEF ClearSettings
  <2>3. StoreSettings.at = 0 /\ StoreSettings.size = 0
    BY <2>1 DEF StoreSettings
  <2> QED BY <2>2, <2>3 DEF SettingsCmds
<1>2. FlashDone(c) = [a \in Addresses |-> flash[a]]
  BY <1>0, <1>1, Numbers DEF FlashDone
<1>3. FlashDone(c) = flash
  BY <1>2 DEF Types
<1>4. Interrupted(flash, flash) = {}
  BY DEF Interrupted
<1> QED BY <1>3, <1>4 DEF Torn

(* Whatever is done of an operation, the flash has its words.              *)
LEMMA TornWords ==
    ASSUME NEW old, NEW new, NEW f \in Torn(old, new),
           old = [a \in Addresses |-> old[a]], new = [a \in Addresses |-> new[a]]
    PROVE  f = [a \in Addresses |-> f[a]]
<1>1. CASE f \in Interrupted(old, new)
  <2>1. PICK cut \in Addresses, x \in Words :
            f = [a \in Addresses |-> IF a < cut THEN new[a] ELSE IF a = cut THEN x ELSE old[a]]
    BY <1>1 DEF Interrupted
  <2> QED BY <2>1
<1>2. CASE f = old \/ f = new
  BY <1>2
<1> QED BY <1>1, <1>2 DEF Torn

(* See above.                                                              *)
LEMMA DoneWords ==
    ASSUME NEW c
    PROVE  FlashDone(c) = [a \in Addresses |-> FlashDone(c)[a]]
BY DEF FlashDone

-----------------------------------------------------------------------------
(* What the handlers call.                                                 *)

(* The commands of the bootloader.                                         *)
LEMMA CommandFields ==
    ASSUME NEW op, NEW a, NEW n
    PROVE  /\ Command(op, a, n).op = op
           /\ Command(op, a, n).at = a /\ Command(op, a, n).size = n
BY DEF Command

(* See above.                                                              *)
LEMMA CommandIsAny ==
    ASSUME NEW op \in FlashOps \cup {"clear_settings", "store_settings"},
           NEW a \in Nat, NEW n \in Nat
    PROVE  Command(op, a, n) \in AnyCmd
<1>1. <<>> \in Seq(Contents)
  OBVIOUS
<1> QED BY <1>1, Numbers DEF Command, AnyCmd

(* See above.                                                              *)
LEMMA CommandTyped ==
    ASSUME NEW op \in FlashOps, NEW a \in Nat, NEW n \in Nat
    PROVE  Command(op, a, n) \in Cmds
<1>1. Command(op, a, n) \in AnyCmd /\ Command(op, a, n).op = op
  BY CommandIsAny, CommandFields
<1> QED BY <1>1 DEF Cmds

(* Those for the settings.                                                 *)
LEMMA SettingsCmdsAre ==
    /\ ClearSettings \in Cmds /\ StoreSettings \in Cmds
    /\ ClearSettings.op = "clear_settings" /\ StoreSettings.op = "store_settings"
    /\ ClearSettings.op \notin FlashOps /\ StoreSettings.op \notin FlashOps
<1>1. ClearSettings \in AnyCmd
  BY CommandIsAny DEF ClearSettings
<1>2. StoreSettings \in AnyCmd
  BY CommandIsAny DEF StoreSettings
<1>3. ClearSettings.op = "clear_settings"
  BY CommandFields DEF ClearSettings
<1>4. StoreSettings.op = "store_settings"
  BY CommandFields DEF StoreSettings
<1> QED BY <1>1, <1>2, <1>3, <1>4 DEF FlashOps, Cmds, SettingsCmds

(* Those for the banks.                                                    *)
LEMMA BankCmdsAre ==
    ASSUME NEW a \in {BANK_0, BANK_1}, NEW n \in Nat
    PROVE  /\ Clear(a, n) \in Cmds /\ Copy(n) \in Cmds
           /\ Clear(a, n).op = "clear" /\ Clear(a, n).at = a /\ Clear(a, n).size = n
           /\ Copy(n).op = "copy" /\ Copy(n).at = BANK_0 /\ Copy(n).size = n
<1>1. Clear(a, n) \in Cmds
  BY CommandTyped, Numbers DEF Clear, FlashOps
<1>2. Copy(n) \in Cmds
  BY CommandTyped, Numbers DEF Copy, FlashOps
<1>3. Clear(a, n).op = "clear" /\ Clear(a, n).at = a /\ Clear(a, n).size = n
  BY CommandFields DEF Clear
<1>4. Copy(n).op = "copy" /\ Copy(n).at = BANK_0 /\ Copy(n).size = n
  BY CommandFields DEF Copy
<1> QED BY <1>1, <1>2, <1>3, <1>4

(* A command at the end of the queue.                                      *)
LEMMA Put_Is ==
    ASSUME NEW r, IsRam(r), NEW c \in Cmds
    PROVE  /\ IsRam(Put(r, c)) /\ Alike(Put(r, c), r, {"cmds", "assert"})
           /\ r.assert \/ IsFull(r) => Put(r, c).assert = TRUE /\ Put(r, c).cmds = r.cmds
           /\ ~(r.assert \/ IsFull(r)) =>
                 Put(r, c).assert = FALSE /\ Put(r, c).cmds = Append(r.cmds, c)
<1>1. CASE r.assert \/ IsFull(r)
  <2>1. Put(r, c) = [r EXCEPT !.assert = TRUE]
    BY <1>1 DEF Put, Assert
  <2> QED BY <1>1, <2>1 DEF IsRam, Alike, Fields
<1>2. CASE ~(r.assert \/ IsFull(r))
  <2>1. Put(r, c) = [r EXCEPT !.cmds = Append(r.cmds, c)]
    BY <1>2 DEF Put
  <2>2. Append(r.cmds, c) \in Seq(Cmds) /\ Append(r.cmds, c) # <<>>
    <3>1. r.cmds \in Seq(Cmds)
      BY DEF IsRam
    <3>2. Len(Append(r.cmds, c)) = Len(r.cmds) + 1 /\ Len(r.cmds) \in Nat
      BY <3>1
    <3> QED BY <3>1, <3>2
  <2>3. /\ DOMAIN Put(r, c) = Fields /\ Put(r, c).cmds = Append(r.cmds, c)
        /\ \A f \in Fields \ {"cmds"} : Put(r, c)[f] = r[f]
    BY <2>1 DEF IsRam, Fields
  <2>4. Alike(Put(r, c), r, {"cmds", "assert"})
    BY <2>3 DEF Alike, Fields
  <2>5. Put(r, c).assert = FALSE
    BY <1>2, <2>3 DEF IsRam, Fields
  <2>6. IsRam(Put(r, c))
    BY <2>2, <2>3 DEF IsRam, Fields
  <2> QED BY <1>2, <2>3, <2>4, <2>5, <2>6
<1> QED BY <1>1, <1>2

(* A page goes to RAM, and the commands for it to the end of the queue.    *)
LEMMA Save_Is ==
    ASSUME NEW r, IsRam(r), NEW page, IsPage(page)
    PROVE  /\ IsRam(Save(r, page)) /\ Save(r, page).settings = page
           /\ Alike(Save(r, page), r, {"cmds", "assert", "settings"})
           /\ \/ Save(r, page).assert /\ Save(r, page).cmds = r.cmds
              \/ /\ Save(r, page).assert /\ ~r.assert
                 /\ Save(r, page).cmds = Append(r.cmds, ClearSettings)
              \/ /\ ~Save(r, page).assert /\ ~r.assert
                 /\ Save(r, page).cmds = Append(Append(r.cmds, ClearSettings), StoreSettings)
           /\ r.cmds = <<>> /\ ~r.assert => ~Save(r, page).assert
<1> DEFINE r1 == [r EXCEPT !.settings = page]
           r2 == Put(r1, ClearSettings)
           r3 == Put(r2, StoreSettings)
<1>1. Save(r, page) = r3
  BY DEF Save
<1>2. ClearSettings \in Cmds /\ StoreSettings \in Cmds
  BY SettingsCmdsAre
<1>3. /\ DOMAIN r1 = Fields /\ r1.settings = page
      /\ \A f \in Fields \ {"settings"} : r1[f] = r[f]
  BY DEF IsRam, Fields
<1>4. IsRam(r1)
  BY <1>3 DEF IsRam, Fields
<1> HIDE DEF r1
<1>5. /\ IsRam(r2) /\ Alike(r2, r1, {"cmds", "assert"})
      /\ r1.assert \/ IsFull(r1) => r2.assert = TRUE /\ r2.cmds = r1.cmds
      /\ ~(r1.assert \/ IsFull(r1)) => r2.assert = FALSE /\ r2.cmds = Append(r1.cmds, ClearSettings)
  BY <1>2, <1>4, Put_Is
<1> HIDE DEF r2
<1>6. /\ IsRam(r3) /\ Alike(r3, r2, {"cmds", "assert"})
      /\ r2.assert \/ IsFull(r2) => r3.assert = TRUE /\ r3.cmds = r2.cmds
      /\ ~(r2.assert \/ IsFull(r2)) => r3.assert = FALSE /\ r3.cmds = Append(r2.cmds, StoreSettings)
  BY <1>2, <1>5, Put_Is
<1> HIDE DEF r3
<1>7. Alike(r3, r, {"cmds", "assert", "settings"}) /\ r3.settings = page
  BY <1>3, <1>5, <1>6 DEF Alike, Fields
<1>8. r1.assert = r.assert /\ r1.cmds = r.cmds /\ r.assert \in BOOLEAN
  BY <1>3 DEF IsRam, Fields
<1>9. \/ r3.assert /\ r3.cmds = r.cmds
      \/ r3.assert /\ ~r.assert /\ r3.cmds = Append(r.cmds, ClearSettings)
      \/ /\ ~r3.assert /\ ~r.assert
         /\ r3.cmds = Append(Append(r.cmds, ClearSettings), StoreSettings)
  BY <1>5, <1>6, <1>8
<1>10. ASSUME r.cmds = <<>>, ~r.assert PROVE ~r3.assert
  <2>1. PSTORAGE_CMD_QUEUE_SIZE \in Nat /\ PSTORAGE_CMD_QUEUE_SIZE >= 2
    BY DfuAssumption
  <2>2. Len(r1.cmds) = 0 /\ ~IsFull(r1)
    BY <1>8, <1>10, <2>1 DEF IsFull
  <2>3. r2.assert = FALSE /\ r2.cmds = Append(<<>>, ClearSettings)
    BY <1>5, <1>8, <1>10, <2>2
  <2>4. Len(r2.cmds) = 1
    BY <2>3
  <2>5. ~IsFull(r2)
    BY <2>1, <2>4 DEF IsFull
  <2> QED BY <1>6, <2>3, <2>5
<1> QED BY <1>1, <1>6, <1>7, <1>9, <1>10

(* An answer to the phone.                                                 *)
LEMMA Respond_Is ==
    ASSUME NEW r, IsRam(r), NEW procedure, NEW err
    PROVE  /\ IsRam(Respond(r, procedure, err))
           /\ Alike(Respond(r, procedure, err), r, {"resp", "assert"})
           /\ r.assert => Respond(r, procedure, err).assert
BY DEF Respond, Assert, IsRam, Alike, Fields

(* The connection is given up.                                             *)
LEMMA Close_Is ==
    ASSUME NEW r, IsRam(r)
    PROVE  /\ IsRam(Close(r))
           /\ Alike(Close(r), r, {"m_tear_down_in_progress", "conn", "assert"})
           /\ Close(r).m_tear_down_in_progress = TRUE
           /\ Close(r).conn \in {"disconnecting", "off"}
           /\ r.assert => Close(r).assert
           /\ r.conn = "disconnecting" => Close(r).assert
BY DEF Close, Assert, IsRam, Alike, Fields

(* Nothing was sent yet in this step.                                      *)
LEMMA Quiet_Is ==
    ASSUME IsRam(ram)
    PROVE  IsRam(Quiet) /\ Alike(Quiet, ram, {"resp"})
BY DEF Quiet, IsRam, Alike, Fields

(* A command is done and leaves the queue.                                 *)
LEMMA Popped_Is ==
    ASSUME IsRam(ram), ram.cmds # <<>>
    PROVE  /\ IsRam(Popped) /\ Alike(Popped, ram, {"resp", "cmds", "done"})
           /\ Popped.cmds = Tail(ram.cmds) /\ Popped.done = FALSE
<1>1. ram.cmds # <<>> /\ ram.cmds \in Seq(Cmds)
  BY DEF IsRam
<1>2. Tail(ram.cmds) \in Seq(Cmds)
  BY <1>1
<1>3. IsRam(Quiet) /\ Alike(Quiet, ram, {"resp"})
  BY Quiet_Is
<1>4. Popped = [Quiet EXCEPT !.cmds = Tail(ram.cmds), !.done = FALSE]
  BY <1>3 DEF Popped, Alike, Fields
<1>5. /\ DOMAIN Popped = Fields /\ Popped.cmds = Tail(ram.cmds) /\ Popped.done = FALSE
      /\ \A f \in Fields \ {"cmds", "done"} : Popped[f] = Quiet[f]
  BY <1>3, <1>4 DEF Alike, Fields
<1>6. IsRam(Popped)
  BY <1>2, <1>3, <1>5 DEF IsRam, Fields
<1> QED BY <1>3, <1>5, <1>6 DEF Alike, Fields

-----------------------------------------------------------------------------
(* The start.                                                              *)

(* The first application is in its bank.                                   *)
LEMMA InitInv ==
    ASSUME Init
    PROVE  IInv
<1>1. /\ flash = [a \in Addresses |-> IF a < Len(OldImage) THEN OldImage[a + 1] ELSE EMPTY]
      /\ sd = OldSd /\ gpregret = FALSE /\ pc = "app" /\ ram = RamInit /\ validated = OldImage
      /\ settings = [Page("BANK_INVALID_APP", NO_CRC, 0)
                        EXCEPT !.bank_0 = "BANK_VALID_APP", !.bank_0_size = 4 * Len(OldImage)]
  BY DEF Init
<1>2. OldImage \in Seq(Contents) \ {<<>>} /\ Len(OldImage) \in 1 .. BankWords
      /\ OldSd \in Seq(Contents)
  BY DfuAssumption
<1>3. Types
  BY <1>1, <1>2, RamInit_Is DEF Types, Page, IsPage
<1>4. Holds(BANK_0, validated)
  <2>1. ASSUME NEW k \in 1 .. Len(OldImage)
        PROVE  flash[BANK_0 + k - 1] = OldImage[k]
    <3>1. Len(OldImage) \in Nat /\ k \in Int /\ k >= 1 /\ k <= Len(OldImage)
          /\ Len(OldImage) <= BankWords
      BY <1>2
    <3>2. k - 1 \in Addresses /\ BANK_0 + k - 1 = k - 1 /\ k - 1 < Len(OldImage)
          /\ (k - 1) + 1 = k
      BY <3>1, Numbers
    <3> QED BY <1>1, <3>2
  <2> QED BY <1>1, <1>2, <2>1, HoldsIs, Numbers
<1>5. settings.bank_0 = "BANK_VALID_APP" /\ settings.bank_0_crc = NO_CRC
      /\ settings.bank_1 = "BANK_INVALID_APP"
  BY <1>1 DEF Page
<1>6. Whole(settings)
  BY <1>4, <1>5 DEF Whole
<1>7. ~Torn_SD
  BY <1>1, <1>2, Numbers DEF Torn_SD
<1> QED BY <1>1, <1>3, <1>5, <1>6, <1>7, RamInit_Is DEF IInv, Steady

(* While main starts or does not run, it has done nothing yet.             *)
Starts == pc \notin {"finalize", "dfu", "reset"}

(* What is to be shown where only main has moved on, with nothing in ram.  *)
LEMMA MovesOn ==
    ASSUME Types, UNCHANGED <<flash, validated>>, IsPage(settings)', ram' = RamInit,
           Whole(settings)', Steady', pc' \notin {"finalize", "dfu"}
    PROVE  IInv'
<1>1. Types'
  BY RamInit_Is DEF Types
<1>2. Stoppable(ram)'
  BY RamInit_Is DEF Stoppable
<1> QED BY <1>1, <1>2, RamInit_Is DEF IInv

(* The application asks for an update, and main erases what was there.     *)
LEMMA EnterDfu_IInv ==
    ASSUME IInv, EnterDfu
    PROVE  IInv'
<1>1. /\ pc = "app" /\ pc' = "boot" /\ gpregret' = TRUE
      /\ UNCHANGED <<flash, settings, sd, bl, ram, validated>>
  BY DEF EnterDfu, Goes
<1>2. ram = RamInit /\ Whole(settings) /\ settings.bank_0 = "BANK_VALID_APP" /\ ~Torn_SD
  BY <1>1 DEF IInv, Steady
<1>3. Whole(settings)'
  BY <1>1, <1>2, HoldsKept DEF Whole
<1>4. Steady'
  BY <1>1, <1>2, <1>3 DEF Steady, Torn_SD
<1> QED BY <1>1, <1>2, <1>3, <1>4, MovesOn DEF IInv, Types

(* See above.                                                              *)
LEMMA Boot_IInv ==
    ASSUME IInv, Boot
    PROVE  IInv'
<1>1. /\ pc = "boot" /\ pc' = (IF gpregret THEN "erase_settings" ELSE "check")
      /\ gpregret' = FALSE /\ UNCHANGED <<flash, settings, sd, bl, ram, validated>>
  BY DEF Boot, Goes
<1>2. /\ ram = RamInit /\ Whole(settings)
      /\ gpregret => settings.bank_0 # "BANK_VALID_SD"
      /\ Torn_SD => settings.bank_0 = "BANK_VALID_SD" /\ settings.sd_image_size # 0
  BY <1>1 DEF IInv, Steady
<1>3. Whole(settings)'
  BY <1>1, <1>2, HoldsKept DEF Whole
<1>4. Steady'
  BY <1>1, <1>2, <1>3 DEF Steady, Torn_SD
<1> QED BY <1>1, <1>2, <1>3, <1>4, MovesOn DEF IInv, Types

(* See above.                                                              *)
LEMMA EraseSettings_IInv ==
    ASSUME IInv, EraseSettings
    PROVE  IInv'
<1>1. /\ pc = "erase_settings" /\ pc' = "erase_banks" /\ settings' = ErasedPage
      /\ UNCHANGED <<flash, sd, bl, gpregret, ram, validated>>
  BY DEF EraseSettings, Goes
<1>2. ram = RamInit /\ ~Torn_SD /\ ~gpregret
  BY <1>1 DEF IInv, Steady
<1>3. (~Marks(settings))' /\ IsPage(settings)'
  BY <1>1, PlainPages DEF Marks, IsPage
<1>4. Whole(settings)'
  BY <1>3 DEF Whole, Marks, Valid
<1>5. Steady'
  BY <1>1, <1>2, <1>3, <1>4 DEF Steady, Torn_SD
<1> QED BY <1>1, <1>2, <1>3, <1>4, <1>5, MovesOn DEF IInv

(* See above.                                                              *)
LEMMA EraseBanks_IInv ==
    ASSUME IInv, EraseBanks
    PROVE  IInv'
<1>1. /\ pc = "erase_banks" /\ pc' = "check" /\ flash' = BanksErased
      /\ UNCHANGED <<settings, sd, bl, gpregret, ram, validated>>
  BY DEF EraseBanks, Goes
<1>2. ram = RamInit /\ ~Torn_SD /\ ~gpregret /\ ~Marks(settings) /\ Types
  BY <1>1 DEF IInv, Steady
<1>3. (~Marks(settings))'
  BY <1>1, <1>2 DEF Marks
<1>4. Whole(settings)'
  BY <1>3 DEF Whole, Marks, Valid
<1>5. Steady'
  BY <1>1, <1>2, <1>3, <1>4 DEF Steady, Torn_SD
<1>6. Types'
  <2>1. flash' = [a \in Addresses |-> flash'[a]]
    BY <1>1 DEF BanksErased
  <2> QED BY <1>1, <1>2, <2>1 DEF Types
<1> QED BY <1>1, <1>2, <1>4, <1>5, <1>6, RamInit_Is DEF IInv

(* Where the new SoftDevice comes from: the first part of the image.       *)
LEMMA NewSdWhole ==
    ASSUME Types, Whole(settings), settings.bank_0 = "BANK_VALID_SD"
    PROVE  BAD \notin {NewSd[k] : k \in DOMAIN NewSd}
<1> DEFINE n == settings.sd_image_size
<1>1. n \in Nat /\ n <= 4 * Len(validated) /\ Holds(BANK_0, validated)
  BY DEF Whole, Valid
<1>2. validated \in Seq(Contents)
  BY DEF Types
<1>3. \A k \in 1 .. Len(validated) : flash[k - 1] = validated[k]
  BY <1>1, <1>2, HoldsIs, Numbers
<1>4. NewSd = [k \in 1 .. n \div 4 |-> flash[k - 1]]
  BY Numbers DEF NewSd, Content
<1>5. n \div 4 <= Len(validated) /\ n \div 4 \in Nat
  BY <1>1, <1>2
<1>6. \A k \in DOMAIN NewSd : NewSd[k] \in Contents
  <2> HIDE DEF n
  <2> QED BY <1>2, <1>3, <1>4, <1>5
<1> QED BY <1>6, Numbers

(* The end of a swap: the page no longer asks for it.                      *)
LEMMA SdSwapped_IInv ==
    ASSUME IInv, Starts, bootloader_dfu_sd_in_progress, ~Torn_SD', ~gpregret,
           ram' = SdSwapped(ram), pc' = "finalize",
           UNCHANGED <<flash, settings, gpregret, validated>>
    PROVE  IInv'
<1>1. Types /\ ram = RamInit /\ Whole(settings)
  BY DEF IInv, Steady, Starts
<1> DEFINE page == [IF settings.bank_0 = "BANK_VALID_SD"
                    THEN Page("BANK_INVALID_APP", NO_CRC, 0) ELSE settings
                       EXCEPT !.bank_1 = "BANK_INVALID_APP",
                              !.sd_image_size = 0, !.bl_image_size = 0]
<1>2. IsPage(page) /\ ~Marks(page)
  <2>1. CASE settings.bank_0 = "BANK_VALID_SD"
    BY <2>1 DEF Page, IsPage, Marks, Valid
  <2>2. CASE settings.bank_0 # "BANK_VALID_SD"
    <3>1. settings.bank_0 \notin Valid
      BY <1>1, <2>2 DEF bootloader_dfu_sd_in_progress, Whole
    <3>2. page = [settings EXCEPT !.bank_1 = "BANK_INVALID_APP",
                              !.sd_image_size = 0, !.bl_image_size = 0]
      BY <2>2
    <3>3. DOMAIN page = DOMAIN settings /\ page.bank_0 = settings.bank_0
          /\ page.bank_1 = "BANK_INVALID_APP"
      BY <1>1, <3>2 DEF Types, IsPage
    <3> QED BY <1>1, <3>1, <3>3 DEF Types, IsPage, Marks
  <2> QED BY <2>1, <2>2
<1>3. SdSwapped(ram) = Saving(ram, page)
  BY DEF SdSwapped
<1> HIDE DEF page
<1>5. /\ ram'.cmds = <<ClearSettings, StoreSettings>> /\ ram'.settings = page
      /\ ram'.done = FALSE /\ ram'.assert = FALSE /\ DOMAIN ram' = Fields
      /\ ram'.m_update_status = "SETTINGS_SAVING"
      /\ IsRam(ram')
      /\ \A f \in {"m_dfu_state", "m_data_received", "m_tear_down_in_progress"} :
            ram'[f] = RamInit[f]
  <2> DEFINE r == [RamInit EXCEPT !.m_update_status = "SETTINGS_SAVING"]
  <2>1. /\ DOMAIN r = Fields /\ r.m_update_status = "SETTINGS_SAVING"
        /\ \A f \in Fields \ {"m_update_status"} : r[f] = RamInit[f]
    BY RamInit_Is DEF IsRam, Fields
  <2>2. IsRam(r)
    BY <2>1, RamInit_Is DEF IsRam, Fields
  <2>3. ram' = Save(r, page)
    BY <1>1, <1>3 DEF Saving
  <2> HIDE DEF r
  <2>4. r.cmds = <<>> /\ ~r.assert /\ r.done = FALSE
    BY <2>1, RamInit_Is DEF Fields
  <2>5. ~ram'.assert /\ ram'.cmds = Append(Append(<<>>, ClearSettings), StoreSettings)
    BY <1>2, <2>2, <2>3, <2>4, Save_Is
  <2>6. ram'.settings = page /\ Alike(ram', r, {"cmds", "assert", "settings"}) /\ IsRam(ram')
    BY <1>2, <2>2, <2>3, Save_Is
  <2>7. ram'.cmds = <<ClearSettings, StoreSettings>> /\ ram'.assert = FALSE
    <3>1. ram'.assert \in BOOLEAN
      BY <2>6 DEF IsRam
    <3> QED BY <2>5, <3>1, Pair
  <2> QED BY <2>1, <2>4, <2>6, <2>7, RamInit_Is DEF Alike, Fields
<1>6. Types'
  <2>1. IsRam(ram)'
    BY <1>5 DEF IsRam, IsPage, IsPool
  <2> QED BY <1>1, <2>1 DEF Types
<1>7. (~Marks(ram.settings))'
  BY <1>2, <1>5 DEF Marks
<1>8. Whole(settings)'
  BY <1>1, HoldsKept DEF Whole
<1>9. Todo' = <<ClearSettings, StoreSettings>>
  BY <1>5 DEF Todo
<1>10. Finalizing'
  BY <1>5, <1>7, <1>8, <1>9, RamInit_Is DEF Finalizing
<1>11. Steady'
  BY DEF Steady
<1> QED BY <1>5, <1>6, <1>10, <1>11 DEF IInv

(* A swap that is found done.                                              *)
LEMMA CheckSd_IInv ==
    ASSUME IInv, CheckSd
    PROVE  IInv'
<1>1. /\ pc = "check" /\ bootloader_dfu_sd_in_progress
      /\ UNCHANGED <<flash, settings, sd, bl, gpregret, validated>>
  BY DEF CheckSd, Goes, persistent
<1>2. Types /\ ram = RamInit /\ Whole(settings) /\ ~gpregret
      /\ (Torn_SD => settings.bank_0 = "BANK_VALID_SD" /\ settings.sd_image_size # 0)
  BY <1>1 DEF IInv, Steady
<1>3. CASE SdInstalled /\ BlInstalled
  <2>1. ram' = SdSwapped(ram) /\ pc' = "finalize"
    BY <1>1, <1>3 DEF CheckSd, Goes
  <2>2. ~Torn_SD
    <3> SUFFICES ASSUME Torn_SD PROVE FALSE
      OBVIOUS
    <3>1. sd = NewSd
      BY <1>2, <1>3 DEF SdInstalled
    <3> QED BY <1>2, <3>1, NewSdWhole DEF Torn_SD
  <2>3. ~Torn_SD'
    BY <1>1, <2>2 DEF Torn_SD
  <2> QED BY <1>1, <1>2, <2>1, <2>3, SdSwapped_IInv DEF Starts
<1>4. CASE ~(SdInstalled /\ BlInstalled)
  <2>1. ram' = ram /\ pc' = "swap_sd"
    BY <1>1, <1>4 DEF CheckSd, Goes
  <2>2. Whole(settings)'
    BY <1>1, <1>2, HoldsKept DEF Whole
  <2>3. Steady'
    BY <1>1, <1>2, <2>1, <2>2 DEF Steady, Torn_SD, bootloader_dfu_sd_in_progress
  <2> QED BY <1>1, <1>2, <2>1, <2>2, <2>3, MovesOn DEF Types
<1> QED BY <1>3, <1>4

(* The swap, in one step each.                                             *)
LEMMA SwapSd_IInv ==
    ASSUME IInv, SwapSd
    PROVE  IInv'
<1>1. /\ pc = "swap_sd" /\ pc' = "swap_bl"
      /\ sd' = (IF settings.sd_image_size = 0 THEN sd ELSE NewSd)
      /\ UNCHANGED <<flash, settings, bl, gpregret, ram, validated>>
  BY DEF SwapSd, Goes
<1>2. Types /\ ram = RamInit /\ Whole(settings) /\ ~gpregret /\ bootloader_dfu_sd_in_progress
      /\ (Torn_SD => settings.bank_0 = "BANK_VALID_SD" /\ settings.sd_image_size # 0)
  BY <1>1 DEF IInv, Steady
<1>3. Whole(settings)'
  BY <1>1, <1>2, HoldsKept DEF Whole
<1>4. ~Torn_SD'
  <2>1. CASE settings.sd_image_size = 0
    BY <1>1, <1>2, <2>1 DEF Torn_SD
  <2>2. CASE settings.sd_image_size # 0
    <3>1. settings.bank_0 = "BANK_VALID_SD"
      BY <1>2, <2>2 DEF bootloader_dfu_sd_in_progress, Whole
    <3> QED BY <1>1, <1>2, <2>2, <3>1, NewSdWhole DEF Torn_SD
  <2> QED BY <2>1, <2>2
<1>5. Steady'
  BY <1>1, <1>2, <1>3, <1>4 DEF Steady, bootloader_dfu_sd_in_progress
<1> QED BY <1>1, <1>2, <1>3, <1>5, MovesOn DEF Types

(* See above.                                                              *)
LEMMA SwapBl_IInv ==
    ASSUME IInv, SwapBl
    PROVE  IInv'
<1>1. pc = "swap_bl" /\ UNCHANGED <<flash, settings, sd, gpregret, validated>>
  BY DEF SwapBl, Goes
<1>2. Types /\ ram = RamInit /\ Whole(settings) /\ ~gpregret /\ bootloader_dfu_sd_in_progress
      /\ ~Torn_SD
  BY <1>1 DEF IInv, Steady
<1>3. ~Torn_SD'
  BY <1>1, <1>2 DEF Torn_SD
<1>4. CASE settings.bl_image_size = 0
  <2>1. ram' = SdSwapped(ram) /\ pc' = "finalize"
    BY <1>4 DEF SwapBl, Goes
  <2> QED BY <1>1, <1>2, <1>3, <2>1, SdSwapped_IInv DEF Starts
<1>5. CASE settings.bl_image_size # 0
  <2>1. ram' = ram /\ pc' = "reset"
    BY <1>5 DEF SwapBl, Goes
  <2>2. Whole(settings)'
    BY <1>1, <1>2, HoldsKept DEF Whole
  <2>3. Steady'
    BY <1>1, <1>2, <1>3, <2>1 DEF Steady
  <2> QED BY <1>1, <1>2, <2>1, <2>2, <2>3, MovesOn DEF Types
<1> QED BY <1>4, <1>5

-----------------------------------------------------------------------------
(* Main leaves the update, or goes on with it.                             *)

(* What is left of the commands of r.                                      *)
Left(r) == IF r.done THEN Tail(r.cmds) ELSE r.cmds

(* What the flash is to do next is right for the page and the banks.       *)
Safe(s, page) ==
    s # <<>> => /\ Head(s).op \in FlashOps => ~Marks(settings)
                /\ Head(s) = StoreSettings => Whole(page)

(* See above.                                                              *)
LEMMA UpdateSafe ==
    ASSUME IInv, pc = "dfu"
    PROVE  Whole(settings) /\ Safe(Todo, ram.settings)
<1>1. Updating /\ Types
  BY DEF IInv
<1>2. CASE Unmarked
  BY <1>2, UnmarkedWhole DEF Unmarked, Safe
<1>3. CASE Activated
  <2>1. Holds(BANK_0, validated) => Whole(ram.settings)
    BY <1>3 DEF Activated, Whole
  <2>2. Whole(settings)
    BY <1>3, UnmarkedWhole DEF Activated, Copied
  <2>3. CASE ~Marks(settings) /\ Todo = <<Clear(BANK_0, Image), Copy(Image), ClearSettings, StoreSettings>>
    <3>1. Head(Todo) = Clear(BANK_0, Image)
      BY <2>3
    <3>2. Clear(BANK_0, Image).op = "clear"
      BY CommandFields DEF Clear
    <3> QED BY <2>2, <2>3, <3>1, <3>2, SettingsCmdsAre DEF Safe
  <2>4. CASE ~Marks(settings) /\ Todo = <<Copy(Image), ClearSettings, StoreSettings>>
    <3>1. Head(Todo) = Copy(Image)
      BY <2>4
    <3>2. Copy(Image).op = "copy"
      BY CommandFields DEF Copy
    <3> QED BY <2>2, <2>4, <3>1, <3>2, SettingsCmdsAre DEF Safe
  <2>5. CASE Copied
    BY <2>1, <2>2, <2>5 DEF Copied, Safe
  <2>6. CASE Todo = <<>>
    BY <2>2, <2>6 DEF Safe
  <2> QED BY <1>3, <2>3, <2>4, <2>5, <2>6 DEF Activated
<1>4. CASE Saved
  <2>1. Whole(settings) /\ Whole(ram.settings) /\ OnlySettings(Todo)
    BY <1>4 DEF Saved
  <2>2. ASSUME Todo # <<>> PROVE Head(Todo).op \notin FlashOps
    <3>1. Todo \in Seq(Cmds)
      BY <1>1 DEF Todo, Types, IsRam
    <3>2. 1 \in DOMAIN Todo /\ Head(Todo) = Todo[1]
      BY <2>2, <3>1
    <3> QED BY <2>1, <3>2, SettingsCmdsAre DEF OnlySettings, SettingsCmds
  <2> QED BY <2>1, <2>2 DEF Safe
<1> QED BY <1>1, <1>2, <1>3, <1>4 DEF Updating

(* See above.                                                              *)
LEMMA SafeStoppable ==
    ASSUME NEW r, Safe(Left(r), r.settings)
    PROVE  Stoppable(r)
BY DEF Safe, Left, Stoppable

(* See above.                                                              *)
LEMMA UpdateStoppable ==
    ASSUME IInv, pc \in {"dfu", "finalize", "reset"}
    PROVE  Whole(settings) /\ Stoppable(ram)
<1>1. CASE pc = "reset"
  BY <1>1 DEF IInv
<1>2. CASE pc = "finalize"
  <2>1. Finalizing
    BY <1>2 DEF IInv
  <2>2. Whole(settings) /\ Whole(ram.settings)
    BY <2>1, UnmarkedWhole DEF Finalizing
  <2>3. \/ ram.cmds = <<>>
        \/ Head(ram.cmds) = ClearSettings \/ Head(ram.cmds) = StoreSettings
    BY <2>1 DEF Finalizing
  <2> QED BY <2>2, <2>3, SettingsCmdsAre DEF Stoppable
<1>3. CASE pc = "dfu"
  <2>1. Whole(settings) /\ Safe(Todo, ram.settings)
    BY <1>3, UpdateSafe
  <2>2. Safe(Left(ram), ram.settings)
    BY <2>1 DEF Left, Todo
  <2> QED BY <2>1, <2>2, SafeStoppable
<1> QED BY <1>1, <1>2, <1>3

(* In an update the SoftDevice is whole.                                   *)
LEMMA UpdateSteady ==
    ASSUME Steady, pc \in {"dfu", "finalize"}, UNCHANGED <<sd, gpregret>>,
           pc' \in {"dfu", "finalize", "reset"}
    PROVE  Steady'
<1>1. ~gpregret /\ ~Torn_SD
  BY DEF Steady
<1>2. ~gpregret' /\ ~Torn_SD'
  BY <1>1 DEF Torn_SD
<1> QED BY <1>2 DEF Steady

(* Main stops in a handler, r being what it leaves.                        *)
LEMMA Stops ==
    ASSUME Steady, pc \in {"dfu", "finalize"}, UNCHANGED <<sd, gpregret>>, pc' = "reset",
           NEW r, IsPage(r.settings), r.cmds \in Seq(Cmds), ram' = Stopped(r),
           flash' = [a \in Addresses |-> flash'[a]], IsPage(settings)',
           (validated \in Seq(Contents) \ {<<>>})',
           Whole(settings)', Stoppable(r)'
    PROVE  IInv'
<1>1. /\ IsRam(ram') /\ ram'.done = FALSE /\ ram'.assert = FALSE
      /\ \/ ram'.cmds = <<>>
         \/ /\ ~r.done /\ r.cmds # <<>>
            /\ ram'.cmds = <<Head(r.cmds)>> /\ ram'.settings = r.settings
  BY Stopped_Is
<1>2. Types'
  BY <1>1 DEF Types, IsRam, IsPage, IsPool
<1>3. Stoppable(ram)'
  <2>1. CASE ram'.cmds = <<>>
    BY <2>1 DEF Stoppable
  <2>2. CASE ~r.done /\ r.cmds # <<>> /\ ram'.cmds = <<Head(r.cmds)>> /\ ram'.settings = r.settings
    <3>1. Head(ram'.cmds) = Head(r.cmds)
      BY <2>2
    <3>2. /\ (Head(r.cmds).op \in FlashOps => ~Marks(settings))'
          /\ (Head(r.cmds) = StoreSettings => Whole(r.settings))'
      BY <2>2 DEF Stoppable
    <3> QED BY <2>2, <3>1, <3>2 DEF Stoppable, Whole
  <2> QED BY <1>1, <2>1, <2>2
<1>4. Steady'
  BY UpdateSteady
<1> QED BY <1>1, <1>2, <1>3, <1>4 DEF IInv

(* The fields that the update does not depend on.                          *)
Minor ==
    {"m_init_packet", "timer", "timeouts", "m_dfu_timed_out", "m_pkt_type", "m_update_mode",
     "mp_final_packet", "m_tear_down_in_progress", "conn", "pool", "m_update_status", "late",
     "resp", "sent", "assert"}

(* A connection that is given up does not come back.                       *)
Tears(r) ==
    /\ ram.m_tear_down_in_progress => r.m_tear_down_in_progress
    /\ r.m_tear_down_in_progress => r.conn \in {"disconnecting", "off"}

(* The update is where it was, but for a command that is done.             *)
Similar(r) ==
    /\ IsRam(r) /\ Tears(r)
    /\ \A f \in Fields \ (Minor \cup {"cmds", "done"}) : r[f] = ram[f]
    /\ Left(r) = Todo
    /\ ram.m_dfu_state \in {"IDLE", "PREPARING"} => r.cmds = ram.cmds /\ r.done = ram.done

(* See above.                                                              *)
LEMMA SimilarUpdating ==
    ASSUME Updating, UNCHANGED <<flash, settings, validated>>, Similar(ram')
    PROVE  Updating'
<1>1. /\ ram'.m_dfu_state = ram.m_dfu_state /\ ram'.m_start_packet = ram.m_start_packet
      /\ ram'.m_image_size = ram.m_image_size /\ ram'.m_functions = ram.m_functions
      /\ ram'.active = ram.active /\ ram'.m_data_received = ram.m_data_received
      /\ ram'.m_extended_packet = ram.m_extended_packet /\ ram'.settings = ram.settings
  BY DEF Similar, Fields, Minor
<1>2. Todo' = Todo
  BY DEF Similar, Left, Todo
<1>3. Tears(ram')
  BY DEF Similar
<1>4. (Accepted' <=> Accepted) /\ (Unmarked' <=> Unmarked) /\ (Erased' <=> Erased)
  BY <1>1 DEF Accepted, Unmarked, Erased, NextAt, End, Marks
<1>5. Stores' <=> Stores
  BY <1>1, <1>2 DEF Stores, NextAt
<1>7. Receiving' <=> Receiving
  BY <1>1, <1>2, <1>4, <1>5 DEF Receiving
<1>8. Ready' <=> Ready
  BY <1>1, <1>2, <1>4 DEF Ready, OnlySettings
<1>9. Holds(ram.active, validated)' <=> Holds(ram.active, validated)
  BY <1>1 DEF Holds, Content
<1>10. Checked' <=> Checked
  BY <1>1, <1>2, <1>4, <1>9 DEF Checked, OnlySettings
<1>11. ASSUME ram.m_dfu_state \in {"IDLE", "PREPARING"}
       PROVE  (Idle' <=> Idle) /\ (Preparing' <=> Preparing)
  <2>1. ram'.cmds = ram.cmds /\ ram'.done = ram.done
    BY <1>11 DEF Similar
  <2> QED BY <1>1, <1>4, <2>1 DEF Idle, Preparing
<1>12. Refused => Refused'
  BY <1>1, <1>3, <1>4 DEF Refused, Tears
<1>13. Activated => Activated'
  BY <1>1, <1>2, <1>3, <1>4 DEF Activated, Copied, Image, Holds, Content, Marks, Whole, Tears
<1>14. Saved => Saved'
  BY <1>1, <1>2, <1>3, <1>4 DEF Saved, OnlySettings, Holds, Content, Whole, Tears
<1>15. ram'.m_tear_down_in_progress => ram'.conn \in {"disconnecting", "off"}
  BY <1>3 DEF Tears
<1> QED BY <1>1, <1>4, <1>7, <1>8, <1>10, <1>11, <1>12, <1>13, <1>14, <1>15 DEF Updating

(* What is to be shown of a handler that leaves r.                         *)
LEMMA Moves ==
    ASSUME IInv, pc = "dfu", UNCHANGED <<sd, bl, gpregret>>,
           flash' = [a \in Addresses |-> flash'[a]], IsPage(settings)',
           (validated \in Seq(Contents) \ {<<>>})',
           NEW r, IsRam(r), Handled(r), Whole(settings)', Stoppable(r)',
           ram' = r /\ ~r.assert => Updating'
    PROVE  IInv'
<1>1. Types /\ Steady
  BY DEF IInv
<1>2. CASE r.assert
  <2>1. ram' = Stopped(r) /\ pc' = "reset"
    BY <1>2 DEF Handled
  <2> QED BY <1>1, <2>1, Stops DEF IsRam
<1>3. CASE ~r.assert
  <2>1. ram' = r /\ pc' = "dfu"
    BY <1>3 DEF Handled
  <2>2. Types'
    BY <2>1 DEF Types, IsPage, IsRam, IsPool
  <2>3. Steady'
    BY <1>1, <2>1, UpdateSteady
  <2>4. Updating'
    BY <1>3, <2>1
  <2> QED BY <1>3, <2>1, <2>2, <2>3, <2>4 DEF IInv
<1> QED BY <1>2, <1>3

(* See above.                                                              *)
LEMMA MovesInRam ==
    ASSUME IInv, pc = "dfu", UNCHANGED <<flash, settings, sd, bl, gpregret, validated>>,
           NEW r, IsRam(r), Handled(r), Safe(Left(r), r.settings),
           ram' = r /\ ~r.assert => Updating'
    PROVE  IInv'
<1>1. Types /\ Whole(settings)
  BY UpdateSafe DEF IInv
<1>2. Whole(settings)'
  BY <1>1, HoldsKept DEF Whole
<1>3. Stoppable(r)
  BY SafeStoppable
<1>4. Stoppable(r)'
  BY <1>3, HoldsKept DEF Stoppable, Marks, Whole
<1> QED BY <1>1, <1>2, <1>4, Moves DEF Types, IsPage

(* See above.                                                              *)
LEMMA Same ==
    ASSUME IInv, pc = "dfu", UNCHANGED <<flash, settings, sd, bl, gpregret, validated>>,
           NEW r, Similar(r), Handled(r)
    PROVE  IInv'
<1>1. Updating /\ Safe(Todo, ram.settings)
  BY UpdateSafe DEF IInv
<1>2. IsRam(r) /\ r.settings = ram.settings /\ Left(r) = Todo
  BY DEF Similar, Fields, Minor
<1>3. Safe(Left(r), r.settings)
  BY <1>1, <1>2
<1>4. ASSUME ram' = r PROVE Updating'
  BY <1>1, <1>4, SimilarUpdating
<1> QED BY <1>2, <1>3, <1>4, MovesInRam

(* What is similar to something similar.                                   *)
LEMMA SimilarAlso ==
    ASSUME NEW r, Similar(r), NEW t, IsRam(t),
           Alike(t, r, Minor \ {"m_tear_down_in_progress", "conn"})
    PROVE  Similar(t)
<1>1. /\ t.m_tear_down_in_progress = r.m_tear_down_in_progress /\ t.conn = r.conn
      /\ t.cmds = r.cmds /\ t.done = r.done
  BY DEF Alike, Fields, Minor
<1>2. \A f \in Fields \ (Minor \cup {"cmds", "done"}) : t[f] = r[f]
  BY DEF Alike
<1>3. Tears(t) /\ Left(t) = Left(r)
  BY <1>1 DEF Similar, Tears, Left
<1> QED BY <1>1, <1>2, <1>3 DEF Similar

(* See above.                                                              *)
LEMMA SimilarQuiet ==
    ASSUME IInv, pc = "dfu"
    PROVE  Similar(ram) /\ Similar(Quiet) /\ IsRam(ram) /\ IsRam(Quiet)
           /\ Alike(Quiet, ram, {"resp"}) /\ ~Quiet.assert
<1>1. Updating /\ IsRam(ram) /\ ~ram.assert
  BY DEF IInv, Types
<1>2. Similar(ram)
  BY <1>1 DEF Similar, Tears, Left, Todo, Updating
<1>3. IsRam(Quiet) /\ Alike(Quiet, ram, {"resp"})
  BY <1>1, Quiet_Is
<1>4. Alike(Quiet, ram, Minor \ {"m_tear_down_in_progress", "conn"})
  BY <1>3 DEF Alike, Minor
<1>5. ~Quiet.assert
  BY <1>1, <1>3 DEF Alike, Fields
<1> QED BY <1>1, <1>2, <1>3, <1>4, <1>5, SimilarAlso

(* A write of the phone counts when main is about to leave.                *)
LEMMA LateIs ==
    ASSUME NEW r, IsRam(r), PhoneWrites(r)
    PROVE  /\ pc = "dfu" /\ UNCHANGED <<flash, settings, sd, bl, gpregret>>
           /\ \E t : IsRam(t) /\ Alike(t, r, {"late"}) /\ Handled(t)
<1>1. /\ Listening /\ UNCHANGED <<flash, settings, sd, bl, gpregret>>
      /\ Handled([r EXCEPT !.late = IF Leaving THEN @ + 1 ELSE @])
  BY DEF PhoneWrites, persistent
<1>2. PICK n : n = IF Leaving THEN r.late + 1 ELSE r.late
  OBVIOUS
<1>3. Handled([r EXCEPT !.late = n])
  BY <1>1, <1>2
<1>4. IsRam([r EXCEPT !.late = n]) /\ Alike([r EXCEPT !.late = n], r, {"late"})
  BY DEF IsRam, Alike, Fields
<1> QED BY <1>1, <1>3, <1>4 DEF Listening

(* A write that changes nothing the update depends on.                     *)
LEMMA WritesSame ==
    ASSUME IInv, UNCHANGED validated, NEW r, Similar(r), PhoneWrites(r)
    PROVE  IInv'
<1>1. IsRam(r)
  BY DEF Similar
<1>2. pc = "dfu" /\ UNCHANGED <<flash, settings, sd, bl, gpregret>>
  BY <1>1, LateIs
<1>3. PICK t : IsRam(t) /\ Alike(t, r, {"late"}) /\ Handled(t)
  BY <1>1, LateIs
<1>4. Alike(t, r, Minor \ {"m_tear_down_in_progress", "conn"})
  BY <1>3 DEF Alike, Minor
<1>5. Similar(t)
  BY <1>3, <1>4, SimilarAlso
<1> QED BY <1>2, <1>3, <1>5, Same

-----------------------------------------------------------------------------
(* The writes of the phone that the update does not depend on.             *)

(* A type is announced.                                                    *)
LEMMA StartMode_IInv ==
    ASSUME IInv, StartMode
    PROVE  IInv'
<1>1. PICK p \in StartPackets :
          PhoneWrites([Quiet EXCEPT !.m_pkt_type = "START", !.m_update_mode = p.mode])
  BY DEF StartMode
<1>2. validated' = validated /\ pc = "dfu"
  BY <1>1 DEF StartMode, PhoneWrites, Listening
<1>3. Similar(Quiet) /\ IsRam(Quiet)
  BY <1>2, SimilarQuiet
<1> DEFINE r == [Quiet EXCEPT !.m_pkt_type = "START", !.m_update_mode = p.mode]
<1>4. IsRam(r) /\ Alike(r, Quiet, Minor \ {"m_tear_down_in_progress", "conn"})
  BY <1>3 DEF IsRam, Alike, Fields, Minor
<1>5. Similar(r)
  BY <1>3, <1>4, SimilarAlso
<1> QED BY <1>1, <1>2, <1>5, WritesSame

(* See above.                                                              *)
LEMMA InitStart_IInv ==
    ASSUME IInv, InitStart
    PROVE  IInv'
<1> DEFINE r == [Quiet EXCEPT !.m_pkt_type = "INIT"]
<1>1. PhoneWrites(r) /\ validated' = validated /\ pc = "dfu"
  BY DEF InitStart, PhoneWrites, Listening
<1>2. Similar(Quiet) /\ IsRam(Quiet)
  BY <1>1, SimilarQuiet
<1>3. IsRam(r) /\ Alike(r, Quiet, Minor \ {"m_tear_down_in_progress", "conn"})
  BY <1>2 DEF IsRam, Alike, Fields, Minor
<1>4. Similar(r)
  BY <1>2, <1>3, SimilarAlso
<1> QED BY <1>1, <1>4, WritesSame

(* See above.                                                              *)
LEMMA ReceiveApp_IInv ==
    ASSUME IInv, ReceiveApp
    PROVE  IInv'
<1> DEFINE r == [Quiet EXCEPT !.m_pkt_type = "FIRMWARE_DATA"]
<1>1. PhoneWrites(r) /\ validated' = validated /\ pc = "dfu"
  BY DEF ReceiveApp, PhoneWrites, Listening
<1>2. Similar(Quiet) /\ IsRam(Quiet)
  BY <1>1, SimilarQuiet
<1>3. IsRam(r) /\ Alike(r, Quiet, Minor \ {"m_tear_down_in_progress", "conn"})
  BY <1>2 DEF IsRam, Alike, Fields, Minor
<1>4. Similar(r)
  BY <1>2, <1>3, SimilarAlso
<1> QED BY <1>1, <1>4, WritesSame

(* The connection is given up.                                             *)
LEMMA CloseSimilar ==
    ASSUME NEW r, Similar(r)
    PROVE  Similar(Close(r))
<1>1. /\ IsRam(r) /\ IsRam(Close(r))
      /\ Alike(Close(r), r, {"m_tear_down_in_progress", "conn", "assert"})
      /\ Close(r).m_tear_down_in_progress = TRUE
      /\ Close(r).conn \in {"disconnecting", "off"}
  BY Close_Is DEF Similar
<1>2. Tears(Close(r))
  BY <1>1 DEF Tears
<1>3. /\ Close(r).cmds = r.cmds /\ Close(r).done = r.done
      /\ \A f \in Fields \ (Minor \cup {"cmds", "done"}) : Close(r)[f] = r[f]
  BY <1>1 DEF Alike, Fields, Minor
<1> QED BY <1>1, <1>2, <1>3 DEF Similar, Left

(* See above.                                                              *)
LEMMA SysReset_IInv ==
    ASSUME IInv, SysReset
    PROVE  IInv'
<1>1. PhoneWrites(DfuReset(Close(Quiet))) /\ validated' = validated /\ pc = "dfu"
  BY DEF SysReset, PhoneWrites, Listening
<1>2. PICK r : r = Close(Quiet)
  OBVIOUS
<1>3. Similar(r) /\ IsRam(r)
  BY <1>1, <1>2, SimilarQuiet, CloseSimilar DEF Similar
<1>4. IsRam(DfuReset(r)) /\ Alike(DfuReset(r), r, Minor \ {"m_tear_down_in_progress", "conn"})
  BY <1>3 DEF DfuReset, IsRam, Alike, Fields, Minor
<1>5. Similar(DfuReset(r))
  BY <1>3, <1>4, SimilarAlso
<1> QED BY <1>1, <1>2, <1>5, WritesSame

(* The radio and the timer.                                                *)
LEMMA Connected_IInv ==
    ASSUME IInv, Connected
    PROVE  IInv'
<1>1. /\ pc = "dfu" /\ ram.conn = "adv" /\ ram' = [Quiet EXCEPT !.conn = "connected"]
      /\ pc' = pc /\ UNCHANGED <<flash, settings, sd, bl, gpregret, validated>>
  BY DEF Connected, persistent
<1>2. Similar(Quiet) /\ IsRam(Quiet) /\ Alike(Quiet, ram, {"resp"}) /\ ~Quiet.assert /\ Updating
  BY <1>1, SimilarQuiet DEF IInv
<1>3. PICK r : r = [Quiet EXCEPT !.conn = "connected"]
  OBVIOUS
<1>4. IsRam(r) /\ Alike(r, Quiet, {"conn"})
  BY <1>2, <1>3 DEF IsRam, Alike, Fields
<1>5. ~ram.m_tear_down_in_progress
  BY <1>1, <1>2 DEF Updating
<1>6. ~r.m_tear_down_in_progress /\ ~r.assert /\ r.cmds = Quiet.cmds /\ r.done = Quiet.done
  BY <1>2, <1>4, <1>5 DEF Alike, Fields
<1>7. \A f \in Fields \ (Minor \cup {"cmds", "done"}) : r[f] = Quiet[f]
  BY <1>4 DEF Alike, Fields, Minor
<1>8. Similar(r)
  BY <1>2, <1>4, <1>5, <1>6, <1>7 DEF Similar, Tears, Left
<1>9. Handled(r)
  BY <1>1, <1>3, <1>6 DEF Handled
<1> QED BY <1>1, <1>8, <1>9, Same

(* See above.                                                              *)
LEMMA Disconnected_IInv ==
    ASSUME IInv, Disconnected
    PROVE  IInv'
<1>1. /\ pc = "dfu" /\ pc' = pc /\ UNCHANGED <<flash, settings, sd, bl, gpregret, validated>>
      /\ ram' = [Quiet EXCEPT !.conn = IF ram.m_tear_down_in_progress THEN "off" ELSE "adv"]
  BY DEF Disconnected, persistent, Listening
<1>2. Similar(Quiet) /\ IsRam(Quiet) /\ Alike(Quiet, ram, {"resp"}) /\ ~Quiet.assert /\ Updating
  BY <1>1, SimilarQuiet DEF IInv
<1>3. PICK r : r = [Quiet EXCEPT !.conn = IF ram.m_tear_down_in_progress THEN "off" ELSE "adv"]
  OBVIOUS
<1>4. IsRam(r) /\ Alike(r, Quiet, {"conn"})
      /\ r.conn = IF ram.m_tear_down_in_progress THEN "off" ELSE "adv"
  BY <1>2, <1>3 DEF IsRam, Alike, Fields
<1>6. /\ r.m_tear_down_in_progress = ram.m_tear_down_in_progress
      /\ ~r.assert /\ r.cmds = Quiet.cmds /\ r.done = Quiet.done
  BY <1>2, <1>4 DEF Alike, Fields
<1>7. \A f \in Fields \ (Minor \cup {"cmds", "done"}) : r[f] = Quiet[f]
  BY <1>4 DEF Alike, Fields, Minor
<1>8. Similar(r)
  BY <1>2, <1>4, <1>6, <1>7 DEF Similar, Tears, Left
<1>9. Handled(r)
  BY <1>1, <1>3, <1>6 DEF Handled
<1> QED BY <1>1, <1>8, <1>9, Same

(* See above.                                                              *)
LEMMA TimerExpires_IInv ==
    ASSUME IInv, TimerExpires
    PROVE  IInv'
<1>1. /\ pc = "dfu" /\ pc' = pc /\ UNCHANGED <<flash, settings, sd, bl, gpregret, validated>>
      /\ ram' = [Quiet EXCEPT !.timer = "off", !.timeouts = 1]
  BY DEF TimerExpires, persistent
<1>2. Similar(Quiet) /\ IsRam(Quiet) /\ ~Quiet.assert
  BY <1>1, SimilarQuiet
<1>3. PICK r : r = [Quiet EXCEPT !.timer = "off", !.timeouts = 1]
  OBVIOUS
<1>4. /\ IsRam(r) /\ Alike(r, Quiet, Minor \ {"m_tear_down_in_progress", "conn"})
      /\ ~r.assert
  BY <1>2, <1>3 DEF IsRam, Alike, Fields, Minor
<1>5. Similar(r)
  BY <1>2, <1>4, SimilarAlso
<1>6. Handled(r)
  BY <1>1, <1>3, <1>4 DEF Handled
<1> QED BY <1>1, <1>5, <1>6, Same

(* See above.                                                              *)
LEMMA Timeout_IInv ==
    ASSUME IInv, Timeout
    PROVE  IInv'
<1>1. /\ pc = "dfu" /\ UNCHANGED <<flash, settings, sd, bl, gpregret, validated>>
      /\ Handled(TimedOut([Quiet EXCEPT !.timeouts = 0, !.m_dfu_timed_out = TRUE]))
  BY DEF Timeout, persistent
<1>2. Similar(Quiet) /\ IsRam(Quiet)
  BY <1>1, SimilarQuiet
<1>3. PICK r : r = [Quiet EXCEPT !.timeouts = 0, !.m_dfu_timed_out = TRUE]
  OBVIOUS
<1>4. IsRam(r) /\ Alike(r, Quiet, Minor \ {"m_tear_down_in_progress", "conn"})
  BY <1>2, <1>3 DEF IsRam, Alike, Fields, Minor
<1>5. Similar(Close(r)) /\ IsRam(Close(r))
  BY <1>2, <1>4, SimilarAlso, CloseSimilar DEF Similar
<1>6. PICK c : c = Close(r)
  OBVIOUS
<1>7. PICK t : t = [c EXCEPT !.m_update_status = "TIMEOUT"]
  OBVIOUS
<1>8. IsRam(t) /\ Alike(t, c, Minor \ {"m_tear_down_in_progress", "conn"})
  BY <1>5, <1>6, <1>7 DEF IsRam, Alike, Fields, Minor
<1>9. Similar(t)
  BY <1>5, <1>6, <1>8, SimilarAlso
<1>10. Handled(t)
  BY <1>1, <1>3, <1>6, <1>7 DEF TimedOut
<1> QED BY <1>1, <1>9, <1>10, Same

-----------------------------------------------------------------------------
(* The start packet.                                                       *)

(* Its sizes.                                                              *)
LEMMA StartPacketIs ==
    ASSUME NEW p \in StartPackets
    PROVE  /\ p.sd \in Nat /\ p.bl \in Nat /\ p.app \in Nat
           /\ ImageSize(p) = p.sd + p.bl + p.app
           /\ Functions(p) # "sd" => p.sd = 0
           /\ Functions(p) = "app" => p.bl = 0
           /\ "sd" \in p.mode <=> Functions(p) = "sd"
           /\ Functions(p) \in {"sd", "bl", "app"}
<1>1. /\ p.sd \in Nat /\ p.bl \in Nat /\ p.app \in Nat
      /\ p.sd + p.bl + p.app <= UINT_MAX
      /\ \A part \in {"sd", "bl", "app"} \ p.mode : p[part] = 0
  BY DfuAssumption
<1>2. ImageSize(p) = p.sd + p.bl + p.app
  BY <1>1, UINT_Is DEF ImageSize
<1>3. /\ Functions(p) # "sd" => "sd" \notin p.mode
      /\ Functions(p) = "app" => "bl" \notin p.mode
      /\ "sd" \in p.mode <=> Functions(p) = "sd"
      /\ Functions(p) \in {"sd", "bl", "app"}
  BY DEF Functions
<1> QED BY <1>1, <1>2, <1>3

(* Sizes in whole words add up to whole words.                             *)
LEMMA WholeWords ==
    ASSUME NEW a \in Nat, NEW b \in Nat, NEW c \in Nat, a % 4 = 0, b % 4 = 0, c % 4 = 0
    PROVE  (a + b + c) % 4 = 0
OBVIOUS

(* An accepted packet is asked for, and prepared for.                      *)
LEMMA StartAccepted ==
    ASSUME NEW q, IsRam(q), NEW p \in StartPackets, StartError(q, p) = "SUCCESS"
    PROVE  /\ (p.sd + p.bl + p.app) % 4 = 0
           /\ p.sd + p.bl + p.app <= 4 * Limit(Functions(p))
           /\ q.m_dfu_state = "IDLE"
<1>1. /\ \A n \in {p.sd, p.bl, p.app} : n % 4 = 0
      /\ ~(ImageSize(p) > (IF "sd" \in p.mode THEN DFU_IMAGE_MAX_SIZE_FULL
                           ELSE DFU_IMAGE_MAX_SIZE_BANKED))
      /\ q.m_dfu_state = "IDLE"
  BY DEF StartError
<1>2. /\ p.sd \in Nat /\ p.bl \in Nat /\ p.app \in Nat
      /\ ImageSize(p) = p.sd + p.bl + p.app
      /\ "sd" \in p.mode <=> Functions(p) = "sd"
  BY StartPacketIs
<1>3. p.sd + p.bl + p.app <= 4 * Limit(Functions(p))
  BY <1>1, <1>2, Numbers DEF Limit, DFU_IMAGE_MAX_SIZE_FULL, DFU_IMAGE_MAX_SIZE_BANKED
<1>4. (p.sd + p.bl + p.app) % 4 = 0
  BY <1>1, <1>2, WholeWords
<1> QED BY <1>1, <1>3, <1>4

(* What the packet leaves in ram, whatever the answer.                     *)
Started(q, p) ==
    LET err == StartError(q, p)
    IN  [q EXCEPT !.m_start_packet = p,
                  !.m_image_size = IF err = "NOT_SUPPORTED" THEN @ ELSE ImageSize(p),
                  !.m_functions = IF err \in {"NOT_SUPPORTED", "DATA_SIZE"}
                                  THEN @ ELSE Functions(p)]

(* See above.                                                              *)
LEMMA Started_Is ==
    ASSUME NEW q, IsRam(q), NEW p \in StartPackets
    PROVE  /\ IsRam(Started(q, p)) /\ Started(q, p).m_start_packet = p
           /\ Alike(Started(q, p), q, {"m_start_packet", "m_image_size", "m_functions"})
           /\ Started(q, p).m_image_size \in {q.m_image_size, p.sd + p.bl + p.app}
           /\ Started(q, p).m_functions \in {q.m_functions, Functions(p)}
           /\ StartError(q, p) = "SUCCESS" =>
                 /\ Started(q, p).m_image_size = p.sd + p.bl + p.app
                 /\ Started(q, p).m_functions = Functions(p)
<1> DEFINE err == StartError(q, p)
<1>1. PICK n : n = IF err = "NOT_SUPPORTED" THEN q.m_image_size ELSE ImageSize(p)
  OBVIOUS
<1>2. PICK m : m = IF err \in {"NOT_SUPPORTED", "DATA_SIZE"} THEN q.m_functions ELSE Functions(p)
  OBVIOUS
<1>3. Started(q, p) = [q EXCEPT !.m_start_packet = p, !.m_image_size = n, !.m_functions = m]
  BY <1>1, <1>2 DEF Started
<1>4. /\ n \in {q.m_image_size, p.sd + p.bl + p.app} /\ n \in Nat
      /\ err = "SUCCESS" => n = p.sd + p.bl + p.app
  BY <1>1, StartPacketIs DEF IsRam
<1>5. m \in {q.m_functions, Functions(p)} /\ (err = "SUCCESS" => m = Functions(p))
  BY <1>2
<1>6. /\ DOMAIN Started(q, p) = Fields /\ Started(q, p).m_start_packet = p
      /\ Started(q, p).m_image_size = n /\ Started(q, p).m_functions = m
      /\ \A f \in Fields \ {"m_start_packet", "m_image_size", "m_functions"} :
            Started(q, p)[f] = q[f]
  BY <1>3 DEF IsRam, Fields
<1>7. IsRam(Started(q, p))
  BY <1>4, <1>6 DEF IsRam, Fields
<1> QED BY <1>4, <1>5, <1>6, <1>7 DEF Alike

(* A packet that was not taken.                                            *)
LEMMA StartRefused ==
    ASSUME IInv, SameStart, UNCHANGED validated, NEW p \in StartPackets,
           NEW q, q = Quiet, NEW r, IsRam(r),
           Alike(r, Started(q, p), {"resp", "assert"}), PhoneWrites(r)
    PROVE  IInv'
<1>1. pc = "dfu" /\ UNCHANGED <<flash, settings, sd, bl, gpregret>>
  BY LateIs
<1>2. PICK t : IsRam(t) /\ Alike(t, r, {"late"}) /\ Handled(t)
  BY LateIs
<1>3. /\ IsRam(q) /\ Alike(q, ram, {"resp"}) /\ Updating
      /\ Safe(Todo, ram.settings) /\ IsRam(ram)
  BY <1>1, SimilarQuiet, UpdateSafe DEF IInv
<1>4. /\ Alike(Started(q, p), q, {"m_start_packet", "m_image_size", "m_functions"})
      /\ Started(q, p).m_start_packet = p
      /\ Started(q, p).m_image_size \in {q.m_image_size, p.sd + p.bl + p.app}
      /\ Started(q, p).m_functions \in {q.m_functions, Functions(p)}
  BY <1>3, Started_Is
<1>5. /\ t.m_start_packet = p
      /\ t.m_image_size \in {ram.m_image_size, p.sd + p.bl + p.app}
      /\ t.m_functions \in {ram.m_functions, Functions(p)}
      /\ \A f \in Fields \ {"m_start_packet", "m_image_size", "m_functions", "resp", "assert", "late"} :
            t[f] = ram[f]
  BY <1>2, <1>3, <1>4 DEF Alike, Fields
<1>6. /\ t.m_dfu_state = ram.m_dfu_state /\ t.cmds = ram.cmds /\ t.done = ram.done
      /\ t.settings = ram.settings /\ t.m_data_received = ram.m_data_received
      /\ t.m_tear_down_in_progress = ram.m_tear_down_in_progress /\ t.conn = ram.conn
  BY <1>5 DEF Fields
<1>7. Left(t) = Todo
  BY <1>6 DEF Left, Todo
<1>8. CASE Accepted /\ ram.m_dfu_state # "IDLE"
  <2>1. ASSUME ram' = t /\ ~t.assert
        PROVE  Updating'
    <3>1. pc' = "dfu"
      BY <1>1, <1>2, <2>1 DEF Handled
    <3>2. p = ram.m_start_packet
      BY <1>1, <1>5, <1>8, <2>1, <3>1 DEF SameStart
    <3>3. t.m_start_packet = ram.m_start_packet /\ t.m_image_size = ram.m_image_size
          /\ t.m_functions = ram.m_functions
      BY <1>5, <1>8, <3>2 DEF Accepted
    <3>4. \A f \in Fields \ (Minor \cup {"cmds", "done"}) : t[f] = ram[f]
      BY <1>5, <3>3 DEF Fields, Minor
    <3>5. Similar(t)
      BY <1>2, <1>3, <1>6, <1>7, <3>4 DEF Similar, Tears, Updating
    <3> QED BY <1>1, <1>3, <2>1, <3>5, SimilarUpdating
  <2>2. Safe(Left(t), t.settings)
    BY <1>3, <1>6, <1>7
  <2> QED BY <1>1, <1>2, <2>1, <2>2, MovesInRam
<1>9. CASE ram.m_dfu_state \in {"IDLE", "VALIDATE"}
  <2>1. /\ ram.m_dfu_state = "IDLE" => Idle
        /\ Unmarked
    BY <1>3, <1>9 DEF Updating
  <2>2. ASSUME ram' = t PROVE Updating'
    <3>1. Unmarked' /\ (Idle => Idle')
      BY <1>1, <1>6, <2>1, <2>2 DEF Unmarked, Marks, Idle
    <3> QED BY <1>3, <1>6, <1>9, <2>1, <2>2, <3>1 DEF Updating
  <2>3. Safe(Left(t), t.settings)
    BY <1>3, <1>6, <1>7
  <2> QED BY <1>1, <1>2, <2>2, <2>3, MovesInRam
<1>10. ram.m_dfu_state \notin {"IDLE", "VALIDATE"} => Accepted
  BY <1>3 DEF Updating, Preparing, Ready, Receiving, Checked, Refused, Activated, Saved
<1> QED BY <1>8, <1>9, <1>10

(* A packet that was.                                                      *)
LEMMA StartTaken ==
    ASSUME IInv, UNCHANGED validated, NEW p \in StartPackets,
           NEW q, q = Quiet, StartError(q, p) = "SUCCESS",
           PhoneWrites(Prepare(TimerRestarted(Started(q, p))))
    PROVE  IInv'
<1>1. pc = "dfu"
  BY DEF PhoneWrites, Listening
<1>2. /\ IsRam(q) /\ Alike(q, ram, {"resp"}) /\ ~q.assert
      /\ Updating /\ IsRam(ram)
  BY <1>1, SimilarQuiet DEF IInv
<1>3. /\ (p.sd + p.bl + p.app) % 4 = 0
      /\ p.sd + p.bl + p.app <= 4 * Limit(Functions(p))
      /\ q.m_dfu_state = "IDLE"
  BY <1>2, StartAccepted
<1>4. Unmarked /\ Idle
  <2>1. ram.m_dfu_state = "IDLE"
    BY <1>2, <1>3 DEF Alike, Fields
  <2> QED BY <1>2, <2>1 DEF Updating
<1>5. PICK s : s = Started(q, p)
  OBVIOUS
<1>6. /\ IsRam(s) /\ s.m_start_packet = p
      /\ Alike(s, q, {"m_start_packet", "m_image_size", "m_functions"})
      /\ s.m_image_size = p.sd + p.bl + p.app /\ s.m_functions = Functions(p)
  BY <1>2, <1>5, Started_Is
<1> DEFINE u == [s EXCEPT !.timer = "on", !.m_dfu_state = "PREPARING",
                          !.active = IF s.m_functions = "sd" THEN BANK_0 ELSE BANK_1]
           c == IF s.m_functions = "sd" THEN Clear(BANK_0, s.m_image_size)
                ELSE Clear(BANK_1, DFU_IMAGE_MAX_SIZE_BANKED)
<1>7. /\ DOMAIN u = Fields /\ u.m_dfu_state = "PREPARING" /\ u.active = Bank(s.m_functions)
      /\ \A f \in Fields \ {"timer", "m_dfu_state", "active"} : u[f] = s[f]
  BY <1>6 DEF IsRam, Fields, Bank
<1>8. IsRam(u)
  BY <1>6, <1>7 DEF IsRam, Fields
<1>9. Prepare(TimerRestarted(s)) = Put(u, c)
  <2>1. PICK v : v = TimerRestarted(s)
    OBVIOUS
  <2>2. v = [s EXCEPT !.timer = "on"]
    BY <2>1 DEF TimerRestarted
  <2>3. v.m_functions = s.m_functions /\ v.m_image_size = s.m_image_size
    BY <1>6, <2>2 DEF IsRam, Fields
  <2>4. u = [v EXCEPT !.m_dfu_state = "PREPARING",
                      !.active = IF v.m_functions = "sd" THEN BANK_0 ELSE BANK_1]
    BY <1>6, <2>2, <2>3 DEF IsRam, Fields
  <2>5. u.m_functions = s.m_functions
    BY <1>7 DEF Fields
  <2> QED BY <2>1, <2>3, <2>4, <2>5 DEF Prepare
<1>10. c \in Cmds
  <2>1. s.m_image_size \in Nat /\ DFU_IMAGE_MAX_SIZE_BANKED \in Nat
    BY <1>6, Numbers DEF IsRam, DFU_IMAGE_MAX_SIZE_BANKED
  <2>2. Clear(BANK_0, s.m_image_size) \in Cmds /\ Clear(BANK_1, DFU_IMAGE_MAX_SIZE_BANKED) \in Cmds
    BY <2>1, BankCmdsAre
  <2> QED BY <2>2
<1> HIDE DEF u, c
<1>11. /\ u.cmds = <<>> /\ ~u.assert /\ u.m_data_received = 0 /\ u.done = ram.done
       /\ u.settings = ram.settings /\ u.m_start_packet = p
       /\ u.m_image_size = p.sd + p.bl + p.app /\ u.m_functions = Functions(p)
       /\ u.m_tear_down_in_progress = ram.m_tear_down_in_progress /\ u.conn = ram.conn
  BY <1>2, <1>4, <1>6, <1>7 DEF Alike, Fields, Idle
<1>12. PSTORAGE_CMD_QUEUE_SIZE \in Nat /\ PSTORAGE_CMD_QUEUE_SIZE >= 2 /\ Len(u.cmds) = 0
  BY <1>11, DfuAssumption
<1>13. ~IsFull(u)
  BY <1>12 DEF IsFull
<1>14. PICK r : r = Put(u, c)
  OBVIOUS
<1>15. /\ IsRam(r) /\ Alike(r, u, {"cmds", "assert"}) /\ r.cmds = <<c>>
  <2>1. IsRam(r) /\ Alike(r, u, {"cmds", "assert"})
    BY <1>8, <1>10, <1>14, Put_Is
  <2>2. r.cmds = Append(u.cmds, c)
    BY <1>8, <1>10, <1>11, <1>13, <1>14, Put_Is
  <2> QED BY <1>11, <2>1, <2>2
<1>16. UNCHANGED <<flash, settings, sd, bl, gpregret>>
       /\ \E t : IsRam(t) /\ Alike(t, r, {"late"}) /\ Handled(t)
  BY <1>5, <1>9, <1>14, <1>15, LateIs
<1>17. PICK t : IsRam(t) /\ Alike(t, r, {"late"}) /\ Handled(t)
  BY <1>16
<1>18. /\ t.cmds = <<c>> /\ t.m_data_received = 0 /\ t.settings = ram.settings
       /\ t.m_start_packet = p /\ t.m_image_size = p.sd + p.bl + p.app
       /\ t.m_functions = Functions(p) /\ t.active = Bank(Functions(p))
       /\ t.m_dfu_state = "PREPARING" /\ t.done = FALSE
       /\ t.m_tear_down_in_progress = ram.m_tear_down_in_progress /\ t.conn = ram.conn
  <2>1. ram.done = FALSE
    BY <1>2, <1>4 DEF IsRam, Idle
  <2> QED BY <1>6, <1>7, <1>11, <1>15, <1>17, <2>1 DEF Alike, Fields
<1>19. Safe(Left(t), t.settings)
  BY <1>4, <1>18, UnmarkedWhole DEF Safe, Unmarked
<1>20. ASSUME ram' = t PROVE Updating'
  <2>1. Accepted'
    BY <1>3, <1>18, <1>20 DEF Accepted
  <2>2. Preparing'
    BY <1>6, <1>18, <1>20, <2>1 DEF Preparing, c
  <2>3. Unmarked'
    BY <1>4, <1>16, <1>18, <1>20 DEF Unmarked, Marks
  <2> QED BY <1>2, <1>18, <1>20, <2>2, <2>3 DEF Updating
<1> QED BY <1>1, <1>16, <1>17, <1>19, <1>20, MovesInRam

(* See above.                                                              *)
LEMMA StartPkt_IInv ==
    ASSUME IInv, SameStart, StartPkt
    PROVE  IInv'
<1>1. PICK p \in StartPackets :
          PhoneWrites(dfu_start_pkt_handle(Quiet, p))
  BY DEF StartPkt
<1>2. validated' = validated /\ pc = "dfu"
  BY <1>1 DEF StartPkt, PhoneWrites, Listening
<1>3. PICK q : q = Quiet
  OBVIOUS
<1>4. IsRam(q)
  BY <1>2, <1>3, SimilarQuiet
<1>5. CASE StartError(q, p) = "SUCCESS"
  <2>1. dfu_start_pkt_handle(q, p) = Prepare(TimerRestarted(Started(q, p)))
    BY <1>5 DEF dfu_start_pkt_handle, Started
  <2> QED BY <1>1, <1>2, <1>3, <1>5, <2>1, StartTaken
<1>6. CASE StartError(q, p) # "SUCCESS"
  <2>1. PICK r : r = Respond(Started(q, p), "START", StartError(q, p))
    OBVIOUS
  <2>2. dfu_start_pkt_handle(q, p) = r
    BY <1>6, <2>1 DEF dfu_start_pkt_handle, Started
  <2>3. IsRam(r) /\ Alike(r, Started(q, p), {"resp", "assert"})
    BY <1>4, <2>1, Started_Is, Respond_Is
  <2> QED BY <1>1, <1>2, <1>3, <2>2, <2>3, StartRefused
<1> QED BY <1>5, <1>6

-----------------------------------------------------------------------------
(* The init packet.                                                        *)

(* What is to be shown of a write of the phone that leaves r.              *)
LEMMA WritesMove ==
    ASSUME IInv, UNCHANGED validated, NEW r, IsRam(r), PhoneWrites(r),
           Safe(Left(r), r.settings),
           UNCHANGED <<flash, settings, validated>> /\ Alike(ram', r, {"late"}) /\ ~r.assert
              => Updating'
    PROVE  IInv'
<1>1. pc = "dfu" /\ UNCHANGED <<flash, settings, sd, bl, gpregret>>
  BY LateIs
<1>2. PICK t : IsRam(t) /\ Alike(t, r, {"late"}) /\ Handled(t)
  BY LateIs
<1>3. Left(t) = Left(r) /\ t.settings = r.settings
  BY <1>2 DEF Left, Alike, Fields
<1>4. Safe(Left(t), t.settings)
  BY <1>3
<1>5. ASSUME ram' = t, ~t.assert PROVE Updating'
  <2>1. t.assert = r.assert
    BY <1>2 DEF Alike, Fields
  <2> QED BY <1>1, <1>2, <1>5, <2>1
<1> QED BY <1>1, <1>2, <1>4, <1>5, MovesInRam

(* A part of it, taken or not.                                             *)
LEMMA InitPkt_IInv ==
    ASSUME IInv, InitPkt
    PROVE  IInv'
<1>1. PICK image \in Images \cup {<<"foreign">>} :
          ram.m_init_packet = <<>> /\ PhoneWrites(dfu_init_pkt_handle(Quiet, image))
  BY DEF InitPkt
<1>2. validated' = validated /\ pc = "dfu"
  BY <1>1 DEF InitPkt, PhoneWrites, Listening
<1>3. PICK q : q = Quiet
  OBVIOUS
<1>4. /\ IsRam(q) /\ Alike(q, ram, {"resp"}) /\ ~q.assert
      /\ Updating /\ IsRam(ram) /\ Safe(Todo, ram.settings) /\ Similar(q)
  BY <1>2, <1>3, SimilarQuiet, UpdateSafe DEF IInv
<1>5. PICK x : x = IF q.m_dfu_state = "RDY" THEN "RX_INIT_PKT" ELSE q.m_dfu_state
  OBVIOUS
<1>6. PICK t : t = [q EXCEPT !.m_dfu_state = x]
  OBVIOUS
<1>7. IsRam(t) /\ Alike(t, q, {"m_dfu_state"}) /\ t.m_dfu_state = x
  BY <1>4, <1>6 DEF IsRam, Alike, Fields
<1>8. PICK r : r = dfu_init_pkt_handle(q, image)
  OBVIOUS
<1>9. /\ IsRam(r) /\ r.m_dfu_state = x
      /\ Alike(r, q, {"m_dfu_state", "timer", "m_init_packet", "resp", "assert"})
  <2>1. CASE InitPktTaken(q)
    <3>1. r = [TimerRestarted(t) EXCEPT !.m_init_packet = Append(@, image)]
      BY <1>4, <1>5, <1>6, <1>8, <2>1 DEF dfu_init_pkt_handle
    <3>2. PICK m : m = Append(t.m_init_packet, image)
      OBVIOUS
    <3>3. m \in Seq(Images \cup {<<"foreign">>})
      <4>1. t.m_init_packet \in Seq(Images \cup {<<"foreign">>})
        BY <1>7 DEF IsRam
      <4> QED BY <3>2, <4>1
    <3>4. r = [t EXCEPT !.timer = "on", !.m_init_packet = m]
      BY <1>7, <3>1, <3>2 DEF TimerRestarted, IsRam, Fields
    <3>5. /\ DOMAIN r = Fields /\ r.m_init_packet = m
          /\ \A f \in Fields \ {"timer", "m_init_packet"} : r[f] = t[f]
      BY <1>7, <3>4 DEF IsRam, Fields
    <3>6. IsRam(r)
      BY <1>7, <3>3, <3>5 DEF IsRam, Fields
    <3> QED BY <1>7, <3>5, <3>6 DEF Alike, Fields
  <2>2. CASE ~InitPktTaken(q)
    <3>1. r = Respond(t, "INIT", "INVALID_STATE")
      BY <1>4, <1>5, <1>6, <1>8, <2>2 DEF dfu_init_pkt_handle
    <3>2. IsRam(r) /\ Alike(r, t, {"resp", "assert"})
      BY <1>7, <3>1, Respond_Is
    <3> QED BY <1>7, <3>2 DEF Alike, Fields
  <2> QED BY <2>1, <2>2
<1>10. CASE ram.m_dfu_state # "RDY"
  <2>1. x = q.m_dfu_state
    BY <1>4, <1>5, <1>10 DEF Alike, Fields
  <2>2. Alike(r, q, Minor \ {"m_tear_down_in_progress", "conn"})
    BY <1>9, <2>1 DEF Alike, Fields, Minor
  <2>3. Similar(r)
    BY <1>4, <1>9, <2>2, SimilarAlso
  <2> QED BY <1>1, <1>2, <1>3, <1>8, <2>3, WritesSame
<1>11. CASE ram.m_dfu_state = "RDY"
  <2>1. x = "RX_INIT_PKT"
    BY <1>4, <1>5, <1>11 DEF Alike, Fields
  <2>2. Unmarked /\ Ready
    BY <1>4, <1>11 DEF Updating
  <2>3. \A f \in Fields \ {"m_dfu_state", "timer", "m_init_packet", "resp", "assert"} : r[f] = ram[f]
    BY <1>4, <1>9 DEF Alike, Fields
  <2>4. Left(r) = Todo /\ r.settings = ram.settings
    BY <2>3 DEF Left, Todo, Fields
  <2>5. ASSUME UNCHANGED <<flash, settings, validated>>, Alike(ram', r, {"late"})
        PROVE  Updating'
    <3>1. /\ ram'.m_dfu_state = "RX_INIT_PKT" /\ ram'.m_start_packet = ram.m_start_packet
          /\ ram'.m_image_size = ram.m_image_size /\ ram'.m_functions = ram.m_functions
          /\ ram'.active = ram.active /\ ram'.m_data_received = ram.m_data_received
          /\ ram'.settings = ram.settings /\ ram'.cmds = ram.cmds /\ ram'.done = ram.done
          /\ ram'.m_tear_down_in_progress = ram.m_tear_down_in_progress
          /\ ram'.conn = ram.conn
      BY <1>9, <2>1, <2>3, <2>5 DEF Alike, Fields
    <3>2. Todo' = Todo
      BY <3>1 DEF Todo
    <3>3. (Accepted' <=> Accepted) /\ (Unmarked' <=> Unmarked) /\ (Erased' <=> Erased)
      BY <2>5, <3>1 DEF Accepted, Unmarked, Erased, NextAt, End, Marks
    <3>4. Ready'
      BY <2>2, <3>1, <3>2, <3>3 DEF Ready, OnlySettings
    <3> QED BY <1>4, <2>2, <3>1, <3>3, <3>4 DEF Updating
  <2>6. Safe(Left(r), r.settings)
    BY <1>4, <2>4
  <2> QED BY <1>1, <1>2, <1>3, <1>8, <1>9, <2>5, <2>6, WritesMove
<1> QED BY <1>10, <1>11

(* All of it was received.                                                 *)
LEMMA InitComplete_IInv ==
    ASSUME IInv, InitComplete
    PROVE  IInv'
<1>1. PICK q : q = [Quiet EXCEPT !.m_pkt_type = "INIT"]
  OBVIOUS
<1>2. PhoneWrites(dfu_init_pkt_complete(q)) /\ validated' = validated /\ pc = "dfu"
  BY <1>1 DEF InitComplete, PhoneWrites, Listening
<1>3. /\ IsRam(Quiet) /\ Alike(Quiet, ram, {"resp"})
      /\ Updating /\ IsRam(ram) /\ Safe(Todo, ram.settings) /\ Similar(Quiet)
  BY <1>2, SimilarQuiet, UpdateSafe DEF IInv
<1>4. /\ IsRam(q) /\ Alike(q, Quiet, {"m_pkt_type"})
      /\ Alike(q, Quiet, Minor \ {"m_tear_down_in_progress", "conn"})
  BY <1>1, <1>3 DEF IsRam, Alike, Fields, Minor
<1>5. Similar(q)
  BY <1>3, <1>4, SimilarAlso
<1> DEFINE err == InitError(q)
<1>6. CASE err # "SUCCESS"
  <2>1. PICK t : t = IF err = "INVALID_STATE" THEN q ELSE [q EXCEPT !.m_init_packet = <<>>]
    OBVIOUS
  <2>2. IsRam(t) /\ Alike(t, q, {"m_init_packet"})
    BY <1>4, <2>1 DEF IsRam, Alike, Fields
  <2>3. PICK r : r = Respond(t, "INIT", err)
    OBVIOUS
  <2>4. dfu_init_pkt_complete(q) = r
    BY <1>6, <2>1, <2>3 DEF dfu_init_pkt_complete
  <2>5. IsRam(r) /\ Alike(r, t, {"resp", "assert"})
    BY <2>2, <2>3, Respond_Is
  <2>6. Alike(r, q, Minor \ {"m_tear_down_in_progress", "conn"})
    BY <2>2, <2>5 DEF Alike, Fields, Minor
  <2>7. Similar(r)
    BY <1>5, <2>5, <2>6, SimilarAlso
  <2> QED BY <1>2, <2>4, <2>7, WritesSame
<1>7. CASE err = "SUCCESS"
  <2>1. /\ q.m_dfu_state = "RX_INIT_PKT" /\ q.m_init_packet # <<>>
        /\ Head(q.m_init_packet) # <<"foreign">>
    BY <1>7 DEF InitError
  <2>2. PICK image : image = Head(q.m_init_packet)
    OBVIOUS
  <2>3. image \in Seq(Contents) \ {<<>>}
    <3>1. q.m_init_packet \in Seq(Images \cup {<<"foreign">>})
      BY <1>4 DEF IsRam
    <3>2. image \in Images
      BY <2>1, <2>2, <3>1
    <3> QED BY <3>2, DfuAssumption
  <2>4. PICK t : t = [q EXCEPT !.m_dfu_state = "RX_DATA_PKT", !.m_extended_packet = image]
    OBVIOUS
  <2>5. /\ IsRam(t) /\ Alike(t, q, {"m_dfu_state", "m_extended_packet"})
        /\ t.m_dfu_state = "RX_DATA_PKT" /\ t.m_extended_packet = image
    BY <1>4, <2>4 DEF IsRam, Alike, Fields
  <2>6. PICK r : r = Respond(t, "INIT", err)
    OBVIOUS
  <2>7. dfu_init_pkt_complete(q) = r
    BY <1>7, <2>2, <2>4, <2>6 DEF dfu_init_pkt_complete
  <2>8. IsRam(r) /\ Alike(r, t, {"resp", "assert"})
    BY <2>5, <2>6, Respond_Is
  <2>9. /\ r.m_dfu_state = "RX_DATA_PKT" /\ r.m_extended_packet = image
        /\ \A f \in Fields \ {"m_dfu_state", "m_extended_packet", "resp", "assert", "m_pkt_type"} :
              r[f] = ram[f]
    BY <1>3, <1>4, <2>5, <2>8 DEF Alike, Fields
  <2>10. Left(r) = Todo /\ r.settings = ram.settings
    BY <2>9 DEF Left, Todo, Fields
  <2>11. Unmarked /\ Ready
    <3>1. ram.m_dfu_state = "RX_INIT_PKT"
      BY <1>3, <1>4, <2>1 DEF Alike, Fields
    <3> QED BY <1>3, <3>1 DEF Updating
  <2>12. ASSUME UNCHANGED <<flash, settings, validated>>, Alike(ram', r, {"late"})
         PROVE  Updating'
    <3>1. /\ ram'.m_dfu_state = "RX_DATA_PKT" /\ ram'.m_extended_packet = image
          /\ ram'.m_start_packet = ram.m_start_packet
          /\ ram'.m_image_size = ram.m_image_size /\ ram'.m_functions = ram.m_functions
          /\ ram'.active = ram.active /\ ram'.m_data_received = ram.m_data_received
          /\ ram'.settings = ram.settings /\ ram'.cmds = ram.cmds /\ ram'.done = ram.done
          /\ ram'.m_tear_down_in_progress = ram.m_tear_down_in_progress
          /\ ram'.conn = ram.conn
      BY <2>9, <2>12 DEF Alike, Fields
    <3>2. Todo' = Todo
      BY <3>1 DEF Todo
    <3>3. (Accepted' <=> Accepted) /\ (Unmarked' <=> Unmarked) /\ (Erased' <=> Erased)
      BY <2>12, <3>1 DEF Accepted, Unmarked, Erased, NextAt, End, Marks
    <3>4. OnlySettings(Todo) /\ Accepted /\ Erased /\ ram.m_data_received = 0
          /\ (ram.m_functions # "sd" => Todo = <<>>) /\ ram.m_image_size \in Nat
      BY <1>3, <2>11 DEF Ready, IsRam
    <3>5. Stores'
      BY <3>2, <3>4 DEF Stores, OnlySettings
    <3>6. (ram.m_functions # "sd" => \A i \in DOMAIN Todo : Todo[i] \notin SettingsCmds)
      BY <3>4
    <3>7. Receiving'
      BY <2>3, <3>1, <3>2, <3>3, <3>4, <3>5, <3>6 DEF Receiving
    <3> QED BY <1>3, <2>11, <3>1, <3>3, <3>7 DEF Updating
  <2>13. Safe(Left(r), r.settings)
    BY <1>3, <2>10
  <2> QED BY <1>2, <2>7, <2>8, <2>12, <2>13, WritesMove
<1> QED BY <1>6, <1>7

-----------------------------------------------------------------------------
(* Data.                                                                   *)

(* The receive buffers.                                                    *)
LEMMA PoolIs ==
    ASSUME NEW q, IsPool(q)
    PROVE  IsPool(Extracted(Produced(q))) /\ \A b : IsPool(Consumed(q, b))
<1>1. \A i \in Int : Slot(i) \in Buffers
  BY Numbers DEF Slot, Buffers
<1>2. q.write_index \in Int
  BY Numbers DEF IsPool, Buffers
<1>3. PICK p : p = Produced(q)
  OBVIOUS
<1>4. IsPool(p)
  <2>1. Slot(q.write_index + 1) \in Buffers
    BY <1>1, <1>2
  <2> QED BY <1>3, <2>1 DEF Produced, IsPool
<1>5. IsPool(Extracted(p))
  BY <1>4 DEF Extracted, IsPool
<1>6. ASSUME NEW b PROVE IsPool(Consumed(q, b))
  <2>1. PICK c : c = [q EXCEPT !.free_index = Toggled(@, b)]
    OBVIOUS
  <2>2. IsPool(c)
    BY <2>1 DEF IsPool
  <2>3. \A x, y : IsPool(Reclaimed(c, x, y))
    BY <2>2 DEF Reclaimed, IsPool
  <2> QED BY <2>1, <2>3 DEF Consumed
<1> QED BY <1>3, <1>5, <1>6

(* The buffer of a packet is taken.                                        *)
LEMMA TakesBuffer ==
    ASSUME NEW q, IsRam(q), NEW r, r = [q EXCEPT !.pool = Extracted(Produced(@))],
           NEW words
    PROVE  IsRam(r) /\ Alike(r, q, {"pool"}) /\ DataError(r, words) = DataError(q, words)
<1>1. PICK p : p = Extracted(Produced(q.pool))
  OBVIOUS
<1>2. IsPool(p)
  BY <1>1, PoolIs DEF IsRam
<1>3. r = [q EXCEPT !.pool = p]
  BY <1>1
<1>4. IsRam(r) /\ Alike(r, q, {"pool"})
  BY <1>2, <1>3 DEF IsRam, Alike, Fields
<1>5. /\ r.m_data_received = q.m_data_received /\ r.m_dfu_state = q.m_dfu_state
      /\ r.m_image_size = q.m_image_size /\ r.m_dfu_timed_out = q.m_dfu_timed_out
      /\ r.cmds = q.cmds
  BY <1>4 DEF Alike, Fields
<1>6. DataError(r, words) = DataError(q, words)
  BY <1>5 DEF DataError, IsFull
<1> QED BY <1>4, <1>6

(* The command for it.                                                     *)
LEMMA StoreIs ==
    ASSUME NEW a \in Nat, NEW b \in Buffers, NEW words \in Seq(Contents)
    PROVE  /\ Store(a, b, words) \in Cmds /\ Store(a, b, words).op = "store"
           /\ Store(a, b, words).at = a /\ Store(a, b, words).size = 4 * Len(words)
           /\ Store(a, b, words).words = words /\ Store(a, b, words) \notin SettingsCmds
<1>1. PICK n : n = 4 * Len(words)
  OBVIOUS
<1>2. PICK c : c = Command("store", a, n)
  OBVIOUS
<1>3. /\ DOMAIN c = {"op", "at", "size", "buffer", "words"}
      /\ c.op = "store" /\ c.at = a /\ c.size = n
  BY <1>2 DEF Command
<1>4. PICK s : s = [c EXCEPT !.buffer = b, !.words = words]
  OBVIOUS
<1>5. /\ s = [f \in {"op", "at", "size", "buffer", "words"} |-> s[f]]
      /\ s.op = "store" /\ s.at = a /\ s.size = n /\ s.buffer = b /\ s.words = words
  BY <1>3, <1>4
<1>6. n \in Nat
  BY <1>1
<1>7. s \in Cmds
  BY <1>5, <1>6 DEF Cmds, AnyCmd, FlashOps
<1>8. s \notin SettingsCmds
  BY <1>5, SettingsCmdsAre DEF SettingsCmds
<1>9. Store(a, b, words) = s
  BY <1>1, <1>2, <1>4 DEF Store
<1> QED BY <1>1, <1>5, <1>7, <1>8, <1>9

(* Data that is taken continues the image and fits.                        *)
LEMMA DataFits ==
    ASSUME Types, Receiving, NEW words \in DataPackets, NEW q, IsRam(q),
           Alike(q, ram, {"resp", "pool"}), DataError(q, words) \in Taken
    PROVE  LET n == ram.m_data_received IN
           /\ n \in Nat /\ n % 4 = 0 /\ n <= ram.m_image_size /\ n # UINT_MAX
           /\ Len(words) \in Nat /\ Len(words) >= 1
           /\ UINT(n + 4 * Len(words)) = n + 4 * Len(words)
           /\ n + 4 * Len(words) <= ram.m_image_size
           /\ n + 4 * Len(words) # UINT_MAX
           /\ ram.m_image_size <= 8 * BankWords
<1> DEFINE n == ram.m_data_received
<1>1. /\ q.m_data_received = n /\ q.m_image_size = ram.m_image_size
  BY DEF Alike, Fields
<1>2. /\ ~(UINT(n + 4 * Len(words)) > ram.m_image_size) /\ n % 4 = 0
  BY <1>1 DEF DataError, Taken, IsWordAligned
<1>3. /\ n \in Nat /\ ram.m_image_size \in Nat
      /\ words \in Seq(Contents) /\ words # <<>> /\ Len(words) \in Nat
      /\ 8 * BankWords + 4 * Len(words) <= UINT_MAX /\ (UINT_MAX + 1) % 4 = 0
  <2>1. n \in Nat /\ ram.m_image_size \in Nat
    BY DEF Types, IsRam
  <2>2. words \in Seq(Contents) /\ words # <<>>
        /\ 8 * BankWords + 4 * Len(words) <= UINT_MAX /\ (UINT_MAX + 1) % 4 = 0
    BY DfuAssumption
  <2> QED BY <2>1, <2>2
<1>4. ram.m_image_size <= 8 * BankWords
  <2>1. ram.m_image_size <= 4 * Limit(ram.m_functions)
    BY DEF Receiving, Accepted
  <2>2. 4 * Limit(ram.m_functions) <= 8 * BankWords /\ Limit(ram.m_functions) \in Nat
    BY Numbers DEF Limit
  <2> QED BY <1>3, <2>1, <2>2, Numbers
<1>5. n # UINT_MAX
  <2> SUFFICES ASSUME n = UINT_MAX PROVE FALSE
    OBVIOUS
  <2>1. UINT_MAX % 4 = 0 /\ (UINT_MAX + 1) % 4 = 0
    BY <1>2, <1>3
  <2> QED BY <2>1, Numbers
<1>6. n <= ram.m_image_size
  BY <1>5 DEF Receiving
<1>7. n + 4 * Len(words) \in Nat /\ n + 4 * Len(words) <= UINT_MAX
  BY <1>3, <1>4, <1>6, Numbers
<1>8. UINT(n + 4 * Len(words)) = n + 4 * Len(words)
  BY <1>7, UINT_Is
<1>9. n + 4 * Len(words) <= ram.m_image_size
  BY <1>2, <1>3, <1>7, <1>8
<1>10. Len(words) >= 1
  BY <1>3
<1>11. n + 4 * Len(words) # UINT_MAX
  BY <1>3, <1>4, <1>7, <1>9, Numbers
<1> QED BY <1>2, <1>3, <1>4, <1>5, <1>6, <1>8, <1>9, <1>10, <1>11

(* One more command in the queue.                                          *)
LEMMA LeftMore ==
    ASSUME NEW q, IsRam(q), NEW c, NEW r, r.cmds = Append(q.cmds, c), r.done = q.done
    PROVE  Left(r) = Append(Left(q), c) /\ Left(q) \in Seq(Cmds)
<1>1. q.cmds \in Seq(Cmds) /\ (q.done => q.cmds # <<>>)
  BY DEF IsRam
<1>2. q.cmds # <<>> => Tail(Append(q.cmds, c)) = Append(Tail(q.cmds), c)
  BY <1>1
<1> QED BY <1>1, <1>2 DEF Left

(* Bytes in whole words.                                                   *)
LEMMA Quarters ==
    /\ \A n, k \in Nat : n % 4 = 0 => (n + 4 * k) \div 4 = n \div 4 + k /\ (n + 4 * k) % 4 = 0
    /\ \A n \in Nat : n \div 4 \in Nat
    /\ \A n, k \in Nat : n <= k => n \div 4 <= k \div 4
<1>1. \A n, k \in Nat : n % 4 = 0 => (n + 4 * k) \div 4 = n \div 4 + k
  OBVIOUS
<1>2. \A n, k \in Nat : n % 4 = 0 => (n + 4 * k) % 4 = 0
  OBVIOUS
<1>3. \A n \in Nat : n \div 4 \in Nat
  OBVIOUS
<1>4. \A n, k \in Nat : n <= k => n \div 4 <= k \div 4
  OBVIOUS
<1> QED BY <1>1, <1>2, <1>3, <1>4

(* Data that is taken: the words after it are still erased, and one more   *)
(* command stores what was received.                                       *)
LEMMA StoredReceiving ==
    ASSUME Types, Receiving, NEW words \in DataPackets, NEW q, IsRam(q),
           Alike(q, ram, {"resp", "pool"}), DataError(q, words) \in Taken,
           NEW b \in Buffers,
           NEW c, c = Store(NextAt, b, words),
           UNCHANGED <<flash, settings, validated>>,
           ram'.cmds = Append(ram.cmds, c), ram'.done = ram.done,
           ram'.m_data_received = ram.m_data_received + 4 * Len(words),
           \A f \in {"m_start_packet", "m_image_size", "m_functions", "active",
                     "m_extended_packet"} : ram'[f] = ram[f]
    PROVE  Receiving'
<1>a. PICK n : n = ram.m_data_received
  OBVIOUS
<1>b. PICK k : k = Len(words)
  OBVIOUS
<1>1. /\ n \in Nat /\ n % 4 = 0 /\ n <= ram.m_image_size /\ n # UINT_MAX
      /\ k \in Nat /\ k >= 1
      /\ n + 4 * k <= ram.m_image_size /\ n + 4 * k # UINT_MAX
  BY <1>a, <1>b, DataFits
<1>2. /\ Accepted /\ Erased /\ Stores
      /\ ram.m_extended_packet \in Seq(Contents) \ {<<>>}
      /\ ram.m_functions # "sd" => \A i \in DOMAIN Todo : Todo[i] \notin SettingsCmds
  BY <1>1, <1>a DEF Receiving
<1>3. ram.active \in Nat /\ ram.m_image_size \in Nat /\ ram.m_image_size % 4 = 0
  BY <1>2, Numbers DEF Accepted, Bank, Types, IsRam
<1>4. /\ NextAt \in Nat /\ NextAt >= ram.active /\ NextAt' = NextAt + k
      /\ NextAt + k <= End /\ End' = End /\ End \in Nat
  <2>1. PICK x : x = n \div 4
    OBVIOUS
  <2>2. PICK y : y = ram.m_image_size \div 4
    OBVIOUS
  <2>3. PICK z : z = (n + 4 * k) \div 4
    OBVIOUS
  <2>4. x \in Nat /\ y \in Nat /\ z = x + k
    BY <1>1, <1>3, <2>1, <2>2, <2>3, Quarters
  <2>5. z <= y
    <3>1. n + 4 * k \in Nat
      BY <1>1
    <3> QED BY <1>1, <1>3, <2>2, <2>3, <3>1, Quarters
  <2>6. NextAt = ram.active + x /\ End = ram.active + y /\ End' = ram.active + y
    BY <1>a, <2>1, <2>2 DEF NextAt, End
  <2>7. NextAt' = ram.active + z
    BY <1>a, <1>b, <2>3 DEF NextAt
  <2>8. NextAt \in Nat /\ End \in Nat /\ NextAt >= ram.active
    BY <1>3, <2>4, <2>6
  <2>9. NextAt + k <= End
    BY <1>1, <1>3, <2>4, <2>5, <2>6
  <2>10. NextAt' = NextAt + k
    BY <1>1, <1>3, <2>4, <2>6, <2>7
  <2> QED BY <2>6, <2>8, <2>9, <2>10
<1>5. words \in Seq(Contents) /\ words # <<>>
  BY DfuAssumption
<1>6. /\ c \in Cmds /\ c.op = "store" /\ c.at = NextAt /\ c.size = 4 * k
      /\ c.words = words /\ c \notin SettingsCmds
  BY <1>4, <1>5, <1>b, StoreIs
<1>7. Todo' = Append(Todo, c) /\ Todo \in Seq(Cmds)
  <2>1. IsRam(ram)
    BY DEF Types
  <2>2. Left(ram') = Append(Left(ram), c) /\ Left(ram) \in Seq(Cmds)
    BY <2>1, LeftMore
  <2> QED BY <2>2 DEF Left, Todo
<1> DEFINE m == Len(Todo)
<1>8. /\ m \in Nat /\ DOMAIN Todo = 1 .. m /\ DOMAIN Todo' = 1 .. m + 1
      /\ Todo'[m + 1] = c /\ \A i \in 1 .. m : Todo'[i] = Todo[i]
  BY <1>7
<1>9. Accepted'
  BY <1>2 DEF Accepted
<1>10. ram'.m_data_received <= ram'.m_image_size /\ ram'.m_data_received % 4 = 0
  BY <1>1, <1>a, <1>b, Quarters
<1>11. Erased'
  BY <1>1, <1>2, <1>4, Numbers DEF Erased
<1>12. Stores'
  <2> SUFFICES ASSUME NEW i \in 1 .. m + 1, Todo'[i] \notin SettingsCmds
               PROVE  /\ Todo'[i].op = "store" /\ Todo'[i].words # <<>>
                      /\ Todo'[i].size = 4 * Len(Todo'[i].words)
                      /\ Todo'[i].at >= ram.active
                      /\ Todo'[i].at + Len(Todo'[i].words) <= NextAt'
                      /\ \A a \in Addresses :
                            a >= Todo'[i].at /\ a < Todo'[i].at + Len(Todo'[i].words)
                              => flash[a] = EMPTY
                      /\ \A j \in 1 .. m + 1 :
                            i < j /\ Todo'[j] \notin SettingsCmds =>
                               Todo'[i].at + Len(Todo'[i].words) <= Todo'[j].at
    BY <1>8 DEF Stores, After
  <2>1. CASE i = m + 1
    <3>1. Todo'[i] = c
      BY <1>8, <2>1
    <3>2. \A a \in Addresses : a >= NextAt /\ a < NextAt + k => flash[a] = EMPTY
      BY <1>1, <1>2, <1>4, Numbers DEF Erased
    <3>3. ~\E j \in 1 .. m + 1 : i < j
      BY <1>8, <2>1
    <3>4. c.at >= ram.active /\ c.at + Len(c.words) <= NextAt'
      BY <1>b, <1>4, <1>6
    <3>5. \A a \in Addresses : a >= c.at /\ a < c.at + Len(c.words) => flash[a] = EMPTY
      BY <1>b, <1>6, <3>2
    <3> HIDE DEF m
    <3> QED BY <1>5, <1>6, <1>b, <3>1, <3>3, <3>4, <3>5
  <2>2. CASE i # m + 1
    <3>1. i \in 1 .. m /\ i \in DOMAIN Todo /\ Todo'[i] = Todo[i]
      BY <1>8, <2>2
    <3>2. /\ Todo[i].op = "store" /\ Todo[i].words # <<>>
          /\ Todo[i].size = 4 * Len(Todo[i].words)
          /\ Todo[i].at >= ram.active
          /\ Todo[i].at + Len(Todo[i].words) <= NextAt
          /\ \A a \in Addresses :
                a >= Todo[i].at /\ a < Todo[i].at + Len(Todo[i].words) => flash[a] = EMPTY
          /\ \A j \in DOMAIN Todo :
                i < j /\ Todo[j] \notin SettingsCmds =>
                   Todo[i].at + Len(Todo[i].words) <= Todo[j].at
      BY <1>2, <3>1 DEF Stores, After
    <3>3. Todo[i].at \in Nat /\ Len(Todo[i].words) \in Nat
      <4>1. Todo[i] \in Cmds
        BY <1>7, <3>1
      <4>2. Todo[i].at \in Nat /\ Todo[i].words \in Seq(Contents)
        BY <4>1 DEF Cmds, AnyCmd
      <4> QED BY <4>2
    <3>4. ASSUME NEW j \in 1 .. m + 1, i < j, Todo'[j] \notin SettingsCmds
          PROVE  Todo[i].at + Len(Todo[i].words) <= Todo'[j].at
      <4>1. CASE j = m + 1
        BY <1>6, <1>8, <3>2, <4>1
      <4>2. CASE j # m + 1
        BY <1>8, <3>2, <3>4, <4>2
      <4> QED BY <4>1, <4>2
    <3> HIDE DEF m
    <3>5. Todo[i].at + Len(Todo[i].words) <= NextAt + k
      <4>1. Todo[i].at + Len(Todo[i].words) <= NextAt
        BY <3>2
      <4> QED BY <1>1, <1>4, <3>3, <4>1
    <3>6. Todo[i].at + Len(Todo[i].words) <= NextAt'
      BY <1>4, <3>5
    <3> QED BY <3>1, <3>2, <3>4, <3>6
  <2> QED BY <2>1, <2>2
<1>13. (ram.m_functions # "sd" => \A i \in DOMAIN Todo : Todo[i] \notin SettingsCmds)'
  BY <1>2, <1>6, <1>8
<1> QED BY <1>2, <1>9, <1>10, <1>11, <1>12, <1>13 DEF Receiving

(* What handling a packet leaves.                                          *)
LEMMA DataTaken ==
    ASSUME NEW r, IsRam(r), NEW words \in DataPackets, NEW b \in Buffers,
           DataError(r, words) \in Taken, r.active \in Nat,
           UINT(r.m_data_received + 4 * Len(words)) = r.m_data_received + 4 * Len(words),
           NEW t, t = dfu_data_pkt_handle(r, b, words)
    PROVE  /\ IsRam(t) /\ Alike(t, r, {"timer", "cmds", "m_data_received", "sent"})
           /\ t.m_data_received = r.m_data_received + 4 * Len(words)
           /\ t.cmds = Append(r.cmds, Store(r.active + r.m_data_received \div 4, b, words))
<1>1. PICK c : c = Store(r.active + r.m_data_received \div 4, b, words)
  OBVIOUS
<1>2. PICK n : n = r.m_data_received + 4 * Len(words)
  OBVIOUS
<1>3. words \in Seq(Contents) /\ n \in Nat
  BY <1>2, DfuAssumption DEF IsRam
<1>4. c \in Cmds
  <2>1. r.active + r.m_data_received \div 4 \in Nat
    BY Quarters DEF IsRam
  <2> QED BY <1>1, <1>3, <2>1, StoreIs
<1>5. PICK s : s = [r EXCEPT !.timer = "on"]
  OBVIOUS
<1>6. /\ DOMAIN s = Fields /\ s.cmds = r.cmds /\ s.sent = r.sent
      /\ s.active = r.active /\ s.m_data_received = r.m_data_received
      /\ \A f \in Fields \ {"timer"} : s[f] = r[f]
  BY <1>5 DEF IsRam, Fields
<1>7. t = [s EXCEPT !.cmds = Append(r.cmds, c), !.m_data_received = n,
                    !.sent = r.sent \o words]
  <2>1. DataError(r, words) \notin {"DATA_SIZE", "INVALID_STATE"}
    BY DEF Taken
  <2> QED BY <1>1, <1>2, <1>5, <1>6, <2>1 DEF dfu_data_pkt_handle
<1>8. /\ DOMAIN t = Fields /\ t.cmds = Append(r.cmds, c) /\ t.m_data_received = n
      /\ \A f \in Fields \ {"cmds", "m_data_received", "sent"} : t[f] = s[f]
  BY <1>6, <1>7 DEF Fields
<1>9. t.cmds \in Seq(Cmds) /\ t.cmds # <<>>
  <2>1. r.cmds \in Seq(Cmds)
    BY DEF IsRam
  <2>2. Len(Append(r.cmds, c)) = Len(r.cmds) + 1 /\ Len(r.cmds) \in Nat
    BY <2>1
  <2> QED BY <1>4, <1>8, <2>1, <2>2
<1>10. IsRam(t)
  BY <1>3, <1>6, <1>8, <1>9 DEF IsRam, Fields
<1> QED BY <1>1, <1>2, <1>6, <1>8, <1>10 DEF Alike, Fields

(* See above.                                                              *)
LEMMA DataRefused ==
    ASSUME NEW r, IsRam(r), NEW words, NEW b, DataError(r, words) \notin Taken,
           NEW t, t = dfu_data_pkt_handle(r, b, words)
    PROVE  /\ IsRam(t) /\ Alike(t, r, {"timer", "m_data_received"})
           /\ t.m_data_received =
                 IF DataError(r, words) = "DATA_SIZE" THEN UINT_MAX ELSE r.m_data_received
<1>1. PICK x : x = IF DataError(r, words) \in {"DATA_SIZE", "INVALID_STATE"} THEN r.timer ELSE "on"
  OBVIOUS
<1>2. PICK n : n = IF DataError(r, words) = "DATA_SIZE" THEN UINT_MAX ELSE r.m_data_received
  OBVIOUS
<1>3. PICK s : s = [r EXCEPT !.timer = x]
  OBVIOUS
<1>4. IsRam(s) /\ Alike(s, r, {"timer"})
  BY <1>3 DEF IsRam, Alike, Fields
<1>5. s.m_data_received = r.m_data_received
  BY <1>4 DEF Alike, Fields
<1>6. t = [s EXCEPT !.m_data_received = n]
  BY <1>1, <1>2, <1>3, <1>5 DEF dfu_data_pkt_handle
<1>7. n \in Nat
  BY <1>2, Numbers DEF IsRam
<1>8. IsRam(t) /\ Alike(t, s, {"m_data_received"}) /\ t.m_data_received = n
  BY <1>4, <1>6, <1>7 DEF IsRam, Alike, Fields
<1> QED BY <1>2, <1>4, <1>8 DEF Alike, Fields

(* More data than there should be.                                         *)
LEMMA Overrun ==
    ASSUME Updating, IsRam(ram), ram.m_dfu_state = "RX_DATA_PKT",
           UNCHANGED <<flash, settings, validated>>,
           Alike(ram', ram, Minor \cup {"m_data_received"}),
           ram'.m_data_received = UINT_MAX,
           ram'.m_tear_down_in_progress = ram.m_tear_down_in_progress,
           ram'.conn = ram.conn
    PROVE  Updating'
<1>1. Unmarked /\ Receiving
  BY DEF Updating
<1>2. /\ ram'.m_dfu_state = "RX_DATA_PKT" /\ ram'.m_start_packet = ram.m_start_packet
      /\ ram'.m_image_size = ram.m_image_size /\ ram'.m_functions = ram.m_functions
      /\ ram'.active = ram.active /\ ram'.m_extended_packet = ram.m_extended_packet
      /\ ram'.settings = ram.settings /\ ram'.cmds = ram.cmds /\ ram'.done = ram.done
  BY DEF Alike, Fields, Minor
<1>3. Todo' = Todo
  BY <1>2 DEF Todo
<1>4. (Accepted' <=> Accepted) /\ (Unmarked' <=> Unmarked)
  BY <1>2 DEF Accepted, Unmarked, Marks
<1>5. Stores'
  <2>1. CASE ram.m_data_received = UINT_MAX
    BY <1>1, <1>2, <1>3, <2>1 DEF Receiving, Stores, NextAt
  <2>2. CASE ram.m_data_received # UINT_MAX
    <3>1. ram.m_data_received \in Nat /\ ram.m_image_size \in Nat
      BY DEF IsRam
    <3>2. ram.m_image_size <= 8 * BankWords /\ ram.active \in Nat
      BY <1>1, <3>1, Numbers DEF Receiving, Accepted, Limit, Bank
    <3>3. ram.m_data_received <= UINT_MAX
      BY <1>1, <2>2, <3>1, <3>2, Numbers DEF Receiving
    <3>4. NextAt \in Nat /\ NextAt' \in Nat /\ NextAt <= NextAt'
      <4>1. PICK x : x = ram.m_data_received \div 4
        OBVIOUS
      <4>2. PICK y : y = UINT_MAX \div 4
        OBVIOUS
      <4>3. x \in Nat /\ y \in Nat /\ x <= y
        BY <3>1, <3>3, <4>1, <4>2, Quarters, Numbers
      <4>4. NextAt = ram.active + x /\ NextAt' = ram.active + y
        BY <1>2, <4>1, <4>2 DEF NextAt
      <4> QED BY <3>2, <4>3, <4>4
    <3>5. \A i \in DOMAIN Todo : Todo[i].at \in Nat /\ Len(Todo[i].words) \in Nat
      <4>1. Todo \in Seq(Cmds)
        BY DEF IsRam, Todo
      <4>2. \A i \in DOMAIN Todo : Todo[i].at \in Nat /\ Todo[i].words \in Seq(Contents)
        BY <4>1 DEF Cmds, AnyCmd
      <4> QED BY <4>2
    <3>6. \A i \in DOMAIN Todo : After(Todo[i]) <= NextAt => After(Todo[i]) <= NextAt'
      BY <3>4, <3>5 DEF After
    <3> QED BY <1>1, <1>2, <1>3, <3>6 DEF Receiving, Stores, After
  <2> QED BY <2>1, <2>2
<1>6. Receiving'
  BY <1>1, <1>2, <1>3, <1>4, <1>5 DEF Receiving
<1> QED BY <1>1, <1>2, <1>4, <1>6 DEF Updating

(* A packet of data.                                                       *)
LEMMA DataPkt_IInv ==
    ASSUME IInv, DataPkt
    PROVE  IInv'
<1>1. PICK words \in DataPackets : PhoneWrites(app_data_process(Quiet, words))
  BY DEF DataPkt
<1>2. validated' = validated /\ pc = "dfu"
  BY <1>1 DEF DataPkt, PhoneWrites, Listening
<1>3. PICK q : q = Quiet
  OBVIOUS
<1>4. /\ IsRam(q) /\ Alike(q, ram, {"resp"}) /\ ~q.assert /\ Types
      /\ Updating /\ IsRam(ram) /\ Safe(Todo, ram.settings) /\ Similar(q)
  BY <1>2, <1>3, SimilarQuiet, UpdateSafe DEF IInv
<1>5. PICK b : b = q.pool.write_index
  OBVIOUS
<1>6. b \in Buffers
  BY <1>4, <1>5 DEF IsRam, IsPool
<1>7. PICK s : s = [q EXCEPT !.pool = Extracted(Produced(@))]
  OBVIOUS
<1>8. /\ IsRam(s) /\ Alike(s, q, {"pool"}) /\ DataError(s, words) = DataError(q, words)
  BY <1>4, <1>7, TakesBuffer
<1>9. PICK t : t = dfu_data_pkt_handle(s, b, words)
  OBVIOUS
<1>10. CASE ~WindowOpen(q.pool)
  <2>1. PICK r : r = Respond(q, "RECEIVE_APP", "NO_MEM")
    OBVIOUS
  <2>2. app_data_process(q, words) = r
    BY <1>10, <2>1 DEF app_data_process
  <2>3. IsRam(r) /\ Alike(r, q, {"resp", "assert"})
    BY <1>4, <2>1, Respond_Is
  <2>4. Alike(r, q, Minor \ {"m_tear_down_in_progress", "conn"})
    BY <2>3 DEF Alike, Minor
  <2>5. Similar(r)
    BY <1>4, <2>3, <2>4, SimilarAlso
  <2> QED BY <1>1, <1>2, <1>3, <2>2, <2>5, WritesSame
<1>11. CASE WindowOpen(q.pool) /\ DataError(q, words) \in Taken
  <2>1. PICK r : r = IF DataError(q, words) = "SUCCESS" THEN [t EXCEPT !.mp_final_packet = {b}] ELSE t
    OBVIOUS
  <2>2. app_data_process(q, words) = r
    BY <1>5, <1>7, <1>9, <1>11, <2>1 DEF app_data_process, Taken
  <2>3. q.m_dfu_state = "RX_DATA_PKT"
    BY <1>11 DEF DataError, Taken
  <2>4. ram.m_dfu_state = "RX_DATA_PKT"
    BY <1>4, <2>3 DEF Alike, Fields
  <2>5. Unmarked /\ Receiving
    BY <1>4, <2>4 DEF Updating
  <2>6. Alike(q, ram, {"resp", "pool"})
    BY <1>4 DEF Alike
  <2>7. UINT(ram.m_data_received + 4 * Len(words)) = ram.m_data_received + 4 * Len(words)
    BY <1>4, <1>11, <2>5, <2>6, DataFits
  <2>8. /\ s.m_data_received = ram.m_data_received /\ s.active = ram.active
        /\ s.cmds = ram.cmds
    BY <1>4, <1>8 DEF Alike, Fields
  <2>9. ram.active \in Nat
    BY <2>5, Numbers DEF Receiving, Accepted, Bank
  <2>10. /\ IsRam(t) /\ Alike(t, s, {"timer", "cmds", "m_data_received", "sent"})
         /\ t.m_data_received = ram.m_data_received + 4 * Len(words)
         /\ t.cmds = Append(ram.cmds, Store(ram.active + ram.m_data_received \div 4, b, words))
    BY <1>6, <1>8, <1>9, <1>11, <2>7, <2>8, <2>9, DataTaken
  <2>11. IsRam(r) /\ Alike(r, t, {"mp_final_packet"})
    BY <2>1, <2>10 DEF IsRam, Alike, Fields
  <2>12. PICK c : c = Store(NextAt, b, words)
    OBVIOUS
  <2>13. /\ r.cmds = Append(ram.cmds, c)
         /\ r.m_data_received = ram.m_data_received + 4 * Len(words)
    BY <2>10, <2>11, <2>12 DEF Alike, Fields, NextAt
  <2>14. \A f \in Fields \ {"resp", "pool", "timer", "cmds", "m_data_received", "sent",
                            "mp_final_packet"} : r[f] = ram[f]
    BY <1>4, <1>8, <2>10, <2>11 DEF Alike, Fields
  <2>15. ASSUME UNCHANGED <<flash, settings, validated>>, Alike(ram', r, {"late"})
         PROVE  Updating'
    <3>1. /\ ram'.cmds = Append(ram.cmds, c) /\ ram'.done = ram.done
          /\ ram'.m_data_received = ram.m_data_received + 4 * Len(words)
          /\ ram'.m_dfu_state = "RX_DATA_PKT" /\ ram'.settings = ram.settings
          /\ ram'.m_tear_down_in_progress = ram.m_tear_down_in_progress
          /\ ram'.conn = ram.conn
      BY <2>4, <2>13, <2>14, <2>15 DEF Alike, Fields
    <3>2. \A f \in {"m_start_packet", "m_image_size", "m_functions", "active",
                    "m_extended_packet"} : ram'[f] = ram[f]
      BY <2>14, <2>15 DEF Alike, Fields
    <3>3. Receiving'
      BY <1>4, <1>6, <1>11, <2>5, <2>6, <2>12, <2>15, <3>1, <3>2, StoredReceiving
    <3>4. Unmarked'
      BY <2>5, <2>15, <3>1 DEF Unmarked, Marks
    <3> QED BY <1>4, <3>1, <3>3, <3>4 DEF Updating
  <2>16. Safe(Left(r), r.settings)
    <3>1. r.settings = ram.settings
      BY <2>14 DEF Fields
    <3> QED BY <2>5, <3>1, UnmarkedWhole DEF Safe, Unmarked
  <2> QED BY <1>1, <1>2, <1>3, <2>2, <2>11, <2>15, <2>16, WritesMove
<1>12. CASE WindowOpen(q.pool) /\ DataError(q, words) \notin Taken
  <2>1. PICK u : u = [t EXCEPT !.pool = Consumed(@, b)]
    OBVIOUS
  <2>2. PICK r : r = Respond(u, "RECEIVE_APP", DataError(q, words))
    OBVIOUS
  <2>3. app_data_process(q, words) = r
    BY <1>5, <1>7, <1>9, <1>12, <2>1, <2>2 DEF app_data_process, Taken
  <2>4. /\ IsRam(t) /\ Alike(t, s, {"timer", "m_data_received"})
        /\ t.m_data_received =
              IF DataError(q, words) = "DATA_SIZE" THEN UINT_MAX ELSE s.m_data_received
    BY <1>8, <1>9, <1>12, DataRefused
  <2>5. IsRam(u) /\ Alike(u, t, {"pool"})
    <3>1. PICK p : p = Consumed(t.pool, b)
      OBVIOUS
    <3>2. IsPool(p)
      BY <2>4, <3>1, PoolIs DEF IsRam
    <3>3. u = [t EXCEPT !.pool = p]
      BY <2>1, <3>1
    <3> QED BY <2>4, <3>2, <3>3 DEF IsRam, Alike, Fields
  <2>6. IsRam(r) /\ Alike(r, u, {"resp", "assert"})
    BY <2>2, <2>5, Respond_Is
  <2>7. \A f \in Fields \ {"resp", "assert", "pool", "timer", "m_data_received"} : r[f] = ram[f]
    BY <1>4, <1>8, <2>4, <2>5, <2>6 DEF Alike, Fields
  <2>8. CASE DataError(q, words) # "DATA_SIZE"
    <3>1. r.m_data_received = q.m_data_received
      BY <1>8, <2>4, <2>5, <2>6, <2>8 DEF Alike, Fields
    <3>2. Alike(r, q, Minor \ {"m_tear_down_in_progress", "conn"})
      BY <1>8, <2>4, <2>5, <2>6, <3>1 DEF Alike, Fields, Minor
    <3>3. Similar(r)
      BY <1>4, <2>6, <3>2, SimilarAlso
    <3> QED BY <1>1, <1>2, <1>3, <2>3, <3>3, WritesSame
  <2>9. CASE DataError(q, words) = "DATA_SIZE"
    <3>1. q.m_dfu_state = "RX_DATA_PKT"
      BY <2>9 DEF DataError
    <3>2. ram.m_dfu_state = "RX_DATA_PKT"
      BY <1>4, <3>1 DEF Alike, Fields
    <3>3. r.m_data_received = UINT_MAX
      BY <2>4, <2>5, <2>6, <2>9 DEF Alike, Fields
    <3>4. ASSUME UNCHANGED <<flash, settings, validated>>, Alike(ram', r, {"late"})
          PROVE  Updating'
      <4>1. Alike(ram', ram, Minor \cup {"m_data_received"})
        BY <2>7, <3>4 DEF Alike, Fields, Minor
      <4>2. ram'.m_data_received = UINT_MAX
            /\ ram'.m_tear_down_in_progress = ram.m_tear_down_in_progress
            /\ ram'.conn = ram.conn
        BY <2>7, <3>3, <3>4 DEF Alike, Fields
      <4> QED BY <1>4, <3>2, <3>4, <4>1, <4>2, Overrun
    <3>5. Left(r) = Todo /\ r.settings = ram.settings
      BY <2>7 DEF Left, Todo, Fields
    <3>6. Safe(Left(r), r.settings)
      BY <1>4, <3>5
    <3> QED BY <1>1, <1>2, <1>3, <2>3, <2>6, <3>4, <3>6, WritesMove
  <2> QED BY <2>8, <2>9
<1> QED BY <1>10, <1>11, <1>12

-----------------------------------------------------------------------------
(* The check of the image.                                                 *)

(* What passes the check is all in the bank, and nothing is left to store. *)
LEMMA ValidImage ==
    ASSUME Types, Receiving, ram.m_data_received = ram.m_image_size,
           NEW v, v = Content(ram.active, ram.m_image_size), v = ram.m_extended_packet
    PROVE  /\ v \in Seq(Contents) \ {<<>>} /\ 4 * Len(v) = ram.m_image_size
           /\ OnlySettings(Todo) /\ (ram.m_functions # "sd" => Todo = <<>>)
<1>1. Accepted /\ v \in Seq(Contents) \ {<<>>}
  BY DEF Receiving
<1>2. PICK y : y = ram.m_image_size \div 4
  OBVIOUS
<1>3. /\ ram.m_image_size \in Nat /\ ram.m_image_size % 4 = 0 /\ y \in Nat
      /\ 4 * y = ram.m_image_size
  BY <1>1, <1>2 DEF Accepted, Types, IsRam
<1>4. v = [i \in 1 .. y |-> flash[ram.active + i - 1]]
  BY <1>2 DEF Content
<1>5. Len(v) = y
  BY <1>1, <1>3, <1>4
<1>6. /\ ram.m_image_size <= 4 * Limit(ram.m_functions)
      /\ ram.active = Bank(ram.m_functions)
  BY <1>1 DEF Accepted
<1>7. ram.active \in Nat /\ ram.active + y <= 2 * BankWords /\ ram.m_image_size # UINT_MAX
  BY <1>3, <1>6, Numbers DEF Bank, Limit
<1>8. Stores /\ NextAt = ram.active + y
        /\ (ram.m_functions # "sd" => \A i \in DOMAIN Todo : Todo[i] \notin SettingsCmds)
  BY <1>2, <1>7 DEF Receiving, NextAt
<1>9. Todo \in Seq(Cmds)
  BY DEF Types, IsRam, Todo
<1>10. ASSUME NEW i \in DOMAIN Todo, Todo[i] \notin SettingsCmds PROVE FALSE
  <2>1. /\ Todo[i].words # <<>> /\ Todo[i].at >= ram.active
        /\ Todo[i].at + Len(Todo[i].words) <= ram.active + y
        /\ \A a \in Addresses :
              a >= Todo[i].at /\ a < Todo[i].at + Len(Todo[i].words) => flash[a] = EMPTY
    BY <1>8, <1>10 DEF Stores, After
  <2>2. Todo[i] \in Cmds
    BY <1>9
  <2>3. Todo[i].at \in Nat /\ Todo[i].words \in Seq(Contents)
    BY <2>2 DEF Cmds, AnyCmd
  <2>4. Len(Todo[i].words) \in Nat /\ Len(Todo[i].words) >= 1
    BY <2>1, <2>3
  <2>5. PICK a : a = Todo[i].at
    OBVIOUS
  <2>6. /\ a \in Addresses /\ a - ram.active + 1 \in 1 .. y
        /\ ram.active + (a - ram.active + 1) - 1 = a
    <3>1. PICK k : k = Len(Todo[i].words)
      OBVIOUS
    <3>2. k \in Nat /\ k >= 1 /\ a \in Nat /\ a >= ram.active /\ a + k <= ram.active + y
      BY <2>1, <2>3, <2>4, <2>5, <3>1
    <3>3. PICK b : b = ram.active
      OBVIOUS
    <3>7. /\ y \in Nat /\ b \in Nat /\ b + y <= 2 * BankWords
          /\ k \in Nat /\ k >= 1 /\ a \in Nat /\ a >= b /\ a + k <= b + y
      BY <1>3, <1>7, <3>2, <3>3
    <3>8. BankWords \in Nat
      BY Numbers
    <3>4. /\ a \in Int /\ a >= 0 /\ a < 2 * BankWords
          /\ a - b + 1 >= 1 /\ a - b + 1 <= y /\ b + (a - b + 1) - 1 = a
          /\ a - b + 1 \in Int /\ y \in Int
      BY <3>7, <3>8
    <3>5. a \in Addresses
      <4>1. a \in Nat /\ BankWords \in Nat /\ a < 2 * BankWords
        BY <3>2, <3>4, Numbers
      <4> QED BY <4>1 DEF Addresses
    <3>6. a - b + 1 \in 1 .. y
      BY <3>4
    <3> QED BY <3>3, <3>4, <3>5, <3>6
  <2>7. flash[a] = EMPTY
    BY <2>1, <2>3, <2>4, <2>5, <2>6
  <2>8. v[a - ram.active + 1] = flash[a]
    BY <1>4, <2>6
  <2>9. v[a - ram.active + 1] \in Contents
    BY <1>1, <1>5, <2>6
  <2> QED BY <2>7, <2>8, <2>9, Numbers
<1>11. OnlySettings(Todo)
  BY <1>10 DEF OnlySettings
<1>12. ASSUME ram.m_functions # "sd" PROVE Todo = <<>>
  <2>1. \A i \in DOMAIN Todo : FALSE
    BY <1>8, <1>10, <1>12
  <2>2. Todo # <<>> => 1 \in DOMAIN Todo
    BY <1>9
  <2> QED BY <2>1, <2>2
<1> QED BY <1>1, <1>3, <1>5, <1>11, <1>12

(* The phone asks for the check.                                           *)
LEMMA Validate_IInv ==
    ASSUME IInv, Validate
    PROVE  IInv'
<1>1. PhoneWrites(dfu_image_validate(Quiet)) /\ pc = "dfu"
  BY DEF Validate, PhoneWrites, Listening
<1>2. PICK q : q = Quiet
  OBVIOUS
<1>3. /\ IsRam(q) /\ Alike(q, ram, {"resp"}) /\ ~q.assert /\ Types
      /\ Updating /\ IsRam(ram) /\ Safe(Todo, ram.settings) /\ Similar(q)
  BY <1>1, <1>2, SimilarQuiet, UpdateSafe DEF IInv
<1>4. /\ q.m_dfu_state = ram.m_dfu_state /\ q.m_data_received = ram.m_data_received
      /\ q.m_image_size = ram.m_image_size /\ q.active = ram.active
      /\ q.m_extended_packet = ram.m_extended_packet
  BY <1>3 DEF Alike, Fields
<1> DEFINE err == ValidateError(q)
           ready == q.m_dfu_state = "RX_DATA_PKT" /\ q.m_data_received = q.m_image_size
<1>5. validated' = IF err = "SUCCESS" THEN Content(ram.active, ram.m_image_size) ELSE validated
  BY <1>2 DEF Validate
<1>6. PICK x : x = IF err = "SUCCESS" THEN "WAIT_4_ACTIVATE" ELSE "VALIDATE"
  OBVIOUS
<1>7. PICK y : y = IF q.m_dfu_timed_out THEN q.timer ELSE "on"
  OBVIOUS
<1>8. PICK t : t = IF ready THEN [q EXCEPT !.m_dfu_state = x, !.timer = y] ELSE q
  OBVIOUS
<1>9. PICK r : r = Respond(t, "VALIDATE", err)
  OBVIOUS
<1>10. dfu_image_validate(q) = r
  BY <1>6, <1>7, <1>8, <1>9 DEF dfu_image_validate
<1>11. PhoneWrites(r)
  BY <1>1, <1>2, <1>10
<1>12. CASE ~ready
  <2>1. err = "INVALID_STATE"
    BY <1>12 DEF ValidateError
  <2>2. validated' = validated /\ t = q
    BY <1>5, <1>8, <1>12, <2>1
  <2>3. IsRam(r) /\ Alike(r, q, {"resp", "assert"})
    BY <1>3, <1>9, <2>2, Respond_Is
  <2>4. Alike(r, q, Minor \ {"m_tear_down_in_progress", "conn"})
    BY <2>3 DEF Alike, Minor
  <2>5. Similar(r)
    BY <1>3, <2>3, <2>4, SimilarAlso
  <2> QED BY <1>11, <2>2, <2>5, WritesSame
<1>13. CASE ready
  <2>1. IsRam(t) /\ Alike(t, q, {"m_dfu_state", "timer"}) /\ t.m_dfu_state = x
    BY <1>3, <1>8, <1>13 DEF IsRam, Alike, Fields
  <2>2. IsRam(r) /\ Alike(r, t, {"resp", "assert"})
    BY <1>9, <2>1, Respond_Is
  <2>3. /\ r.m_dfu_state = x
        /\ \A f \in Fields \ {"m_dfu_state", "timer", "resp", "assert"} : r[f] = ram[f]
    BY <1>3, <2>1, <2>2 DEF Alike, Fields
  <2>4. Unmarked /\ Receiving /\ ram.m_data_received = ram.m_image_size
    BY <1>3, <1>4, <1>13 DEF Updating
  <2>5. r.settings = ram.settings
    BY <2>3 DEF Fields
  <2>6. CASE err # "SUCCESS"
    <3>1. x = "VALIDATE" /\ validated' = validated
      BY <1>5, <1>6, <2>6
    <3>2. Safe(Left(r), r.settings)
      BY <2>4, <2>5, UnmarkedWhole DEF Safe, Unmarked
    <3>3. ASSUME UNCHANGED <<flash, settings, validated>>, Alike(ram', r, {"late"})
          PROVE  Updating'
      <4>1. /\ ram'.m_dfu_state = "VALIDATE" /\ ram'.settings = ram.settings
            /\ ram'.m_tear_down_in_progress = ram.m_tear_down_in_progress
            /\ ram'.conn = ram.conn
        BY <2>3, <3>1, <3>3 DEF Alike, Fields
      <4>2. Unmarked'
        BY <2>4, <3>3, <4>1 DEF Unmarked, Marks
      <4> QED BY <1>3, <4>1, <4>2 DEF Updating
    <3> QED BY <1>11, <2>2, <3>1, <3>2, <3>3, WritesMove
  <2>7. CASE err = "SUCCESS"
    <3>1. PICK v : v = Content(ram.active, ram.m_image_size)
      OBVIOUS
    <3>2. v = ram.m_extended_packet /\ x = "WAIT_4_ACTIVATE" /\ validated' = v
      BY <1>4, <1>5, <1>6, <2>7, <3>1 DEF ValidateError
    <3>3. /\ v \in Seq(Contents) \ {<<>>} /\ 4 * Len(v) = ram.m_image_size
          /\ OnlySettings(Todo) /\ (ram.m_functions # "sd" => Todo = <<>>)
      BY <1>3, <2>4, <3>1, <3>2, ValidImage
    <3>4. UNCHANGED <<flash, settings, sd, bl, gpregret>>
      BY <1>11, <2>2, LateIs
    <3>5. PICK s : IsRam(s) /\ Alike(s, r, {"late"}) /\ Handled(s)
      BY <1>11, <2>2, LateIs
    <3>6. /\ s.m_dfu_state = "WAIT_4_ACTIVATE"
          /\ \A f \in Fields \ {"m_dfu_state", "timer", "resp", "assert", "late"} : s[f] = ram[f]
      BY <2>3, <3>2, <3>5 DEF Alike, Fields
    <3>7. (~Marks(settings))' /\ ~Marks(s.settings)
      BY <2>4, <3>4, <3>6 DEF Unmarked, Marks, Fields
    <3>8. Whole(settings)'
      BY <3>7 DEF Whole, Marks, Valid
    <3>9. Stoppable(s)'
      BY <3>7 DEF Stoppable, Whole, Marks, Valid
    <3>10. ASSUME ram' = s PROVE Updating'
      <4>1. /\ ram'.m_dfu_state = "WAIT_4_ACTIVATE" /\ ram'.m_start_packet = ram.m_start_packet
            /\ ram'.m_image_size = ram.m_image_size /\ ram'.m_functions = ram.m_functions
            /\ ram'.active = ram.active /\ ram'.settings = ram.settings
            /\ ram'.cmds = ram.cmds /\ ram'.done = ram.done
            /\ ram'.m_tear_down_in_progress = ram.m_tear_down_in_progress
            /\ ram'.conn = ram.conn
        BY <3>6, <3>10 DEF Fields
      <4>2. Todo' = Todo
        BY <4>1 DEF Todo
      <4>3. Accepted'
        BY <2>4, <4>1 DEF Receiving, Accepted
      <4>4. Holds(ram.active, validated)'
        BY <3>1, <3>2, <3>3, <3>4, <4>1 DEF Holds, Content
      <4>5. Checked'
        BY <3>2, <3>3, <4>1, <4>2, <4>3, <4>4 DEF Checked, OnlySettings
      <4>6. Unmarked'
        BY <3>7, <3>10 DEF Unmarked, Marks
      <4> QED BY <1>3, <4>1, <4>5, <4>6 DEF Updating
    <3>11. flash' = [a \in Addresses |-> flash'[a]] /\ IsPage(settings)'
           /\ (validated \in Seq(Contents) \ {<<>>})'
      BY <1>3, <3>2, <3>3, <3>4 DEF Types, IsPage
    <3> QED BY <1>1, <3>4, <3>5, <3>8, <3>9, <3>10, <3>11, Moves
  <2> QED BY <2>6, <2>7
<1> QED BY <1>12, <1>13

-----------------------------------------------------------------------------
(* The activation.                                                         *)

(* Two more commands in the queue.                                         *)
LEMMA LeftTwo ==
    ASSUME NEW q, IsRam(q), NEW c \in Cmds, NEW d, NEW r,
           r.cmds = Append(Append(q.cmds, c), d), r.done = q.done
    PROVE  Left(r) = Append(Append(Left(q), c), d) /\ Left(q) \in Seq(Cmds)
<1>1. q.cmds \in Seq(Cmds) /\ (q.done => q.cmds # <<>>)
  BY DEF IsRam
<1>2. PICK s : s = q.cmds
  OBVIOUS
<1>3. PICK u : u = Append(s, c)
  OBVIOUS
<1>4. u \in Seq(Cmds) /\ (s # <<>> => Tail(u) = Append(Tail(s), c))
  BY <1>1, <1>2, <1>3
<1>5. u # <<>> => Tail(Append(u, d)) = Append(Tail(u), d)
  <2>1. u \in Seq(Cmds)
    BY <1>4
  <2> QED BY <2>1
<1>8. u # <<>>
  <2>1. s \in Seq(Cmds) /\ c \in Cmds
    BY <1>1, <1>2
  <2>2. Len(Append(s, c)) = Len(s) + 1 /\ Len(s) \in Nat
    BY <2>1
  <2>3. Append(s, c) \in Seq(Cmds)
    BY <2>1
  <2>4. Append(s, c) = <<>> => Len(Append(s, c)) = 0
    OBVIOUS
  <2>5. Append(s, c) # <<>>
    BY <2>2, <2>4
  <2> QED BY <1>3, <2>5
<1>6. CASE q.done
  <2>1. Left(r) = Tail(Append(u, d)) /\ Left(q) = Tail(s)
    BY <1>2, <1>3, <1>6 DEF Left
  <2>2. Tail(u) = Append(Tail(s), c)
    BY <1>1, <1>2, <1>4, <1>6
  <2>3. Left(q) \in Seq(Cmds)
    BY <1>1, <1>2, <1>6, <2>1
  <2> QED BY <1>5, <1>8, <2>1, <2>2, <2>3
<1>7. CASE ~q.done
  BY <1>1, <1>7 DEF Left
<1> QED BY <1>6, <1>7

(* Commands for the settings only.                                         *)
LEMMA OnlyAppend ==
    ASSUME NEW s \in Seq(Cmds), OnlySettings(s), NEW c \in SettingsCmds
    PROVE  OnlySettings(Append(s, c)) /\ Append(s, c) \in Seq(Cmds)
<1>1. c \in Cmds
  BY SettingsCmdsAre DEF SettingsCmds
<1>2. \A i \in DOMAIN Append(s, c) : 
          \/ i \in DOMAIN s /\ Append(s, c)[i] = s[i]
          \/ Append(s, c)[i] = c
  OBVIOUS
<1> QED BY <1>1, <1>2 DEF OnlySettings

(* See above.                                                              *)
LEMMA OnlySafe ==
    ASSUME NEW s \in Seq(Cmds), OnlySettings(s), NEW page, Whole(page)
    PROVE  Safe(s, page)
<1>1. s # <<>> => 1 \in DOMAIN s /\ Head(s) = s[1]
  OBVIOUS
<1>2. s # <<>> => Head(s) \in SettingsCmds
  BY <1>1 DEF OnlySettings
<1> QED BY <1>2, SettingsCmdsAre DEF Safe, SettingsCmds

(* A page is given to the flash.                                           *)
LEMMA SaveLeft ==
    ASSUME NEW t, IsRam(t), NEW page, IsPage(page), NEW r, r = Save(t, page)
    PROVE  \/ r.assert /\ Left(r) = Left(t)
           \/ r.assert /\ Left(r) = Append(Left(t), ClearSettings)
           \/ ~r.assert /\ Left(r) = Append(Append(Left(t), ClearSettings), StoreSettings)
<1>1. /\ Alike(r, t, {"cmds", "assert", "settings"})
      /\ \/ r.assert /\ r.cmds = t.cmds
         \/ r.assert /\ r.cmds = Append(t.cmds, ClearSettings)
         \/ ~r.assert /\ r.cmds = Append(Append(t.cmds, ClearSettings), StoreSettings)
  BY Save_Is
<1>2. r.done = t.done
  BY <1>1 DEF Alike, Fields
<1>4. ClearSettings \in Cmds
  BY SettingsCmdsAre
<1>5. CASE r.assert /\ r.cmds = t.cmds
  BY <1>2, <1>5 DEF Left
<1>6. CASE r.assert /\ r.cmds = Append(t.cmds, ClearSettings)
  <2>1. Left(r) = Append(Left(t), ClearSettings)
    BY <1>2, <1>6, LeftMore
  <2> QED BY <1>6, <2>1
<1>7. CASE ~r.assert /\ r.cmds = Append(Append(t.cmds, ClearSettings), StoreSettings)
  <2>1. Left(r) = Append(Append(Left(t), ClearSettings), StoreSettings)
    BY <1>2, <1>4, <1>7, LeftTwo
  <2> QED BY <1>7, <2>1
<1> QED BY <1>1, <1>5, <1>6, <1>7

(* See above.                                                              *)
LEMMA SaveOnly ==
    ASSUME NEW t, IsRam(t), OnlySettings(Left(t)), NEW page, IsPage(page),
           NEW r, r = Save(t, page)
    PROVE  OnlySettings(Left(r)) /\ Left(r) \in Seq(Cmds)
<1>1. \/ Left(r) = Left(t)
      \/ Left(r) = Append(Left(t), ClearSettings)
      \/ Left(r) = Append(Append(Left(t), ClearSettings), StoreSettings)
  BY SaveLeft
<1>2. Left(t) \in Seq(Cmds)
  BY DEF IsRam, Left
<1>3. ClearSettings \in SettingsCmds /\ StoreSettings \in SettingsCmds
  BY DEF SettingsCmds
<1>4. PICK u : u = Append(Left(t), ClearSettings)
  OBVIOUS
<1>5. OnlySettings(u) /\ u \in Seq(Cmds)
  BY <1>2, <1>3, <1>4, OnlyAppend
<1>6. /\ OnlySettings(Append(u, StoreSettings))
      /\ Append(u, StoreSettings) \in Seq(Cmds)
  BY <1>3, <1>5, OnlyAppend
<1> QED BY <1>1, <1>2, <1>4, <1>5, <1>6

(* What the activation leaves alone.                                       *)
Closing == {"resp", "m_tear_down_in_progress", "conn", "timer", "m_update_status", "assert"}

(* A SoftDevice or a bootloader is activated by a page for the settings.   *)
LEMMA ActivateSaves ==
    ASSUME IInv, UNCHANGED validated, ram.m_dfu_state = "WAIT_4_ACTIVATE", Unmarked, Checked,
           NEW t, IsRam(t), Alike(t, ram, Closing), t.m_tear_down_in_progress = TRUE,
           t.conn \in {"disconnecting", "off"},
           NEW page, IsPage(page), Whole(page),
           NEW r, r = Save(t, page), PhoneWrites(r)
    PROVE  IInv'
<1>1. /\ IsRam(r) /\ r.settings = page /\ Alike(r, t, {"cmds", "assert", "settings"})
  BY Save_Is
<1>2. Accepted /\ OnlySettings(Todo) /\ Whole(settings)
  BY UnmarkedWhole DEF Checked, Unmarked
<1>3. Left(t) = Todo
  BY DEF Left, Todo, Alike, Fields, Closing
<1>4. OnlySettings(Left(r)) /\ Left(r) \in Seq(Cmds)
  BY <1>2, <1>3, SaveOnly
<1>5. Safe(Left(r), r.settings)
  BY <1>1, <1>4, OnlySafe
<1>6. ASSUME UNCHANGED <<flash, settings, validated>>, Alike(ram', r, {"late"})
      PROVE  Updating'
  <2>1. /\ ram'.m_dfu_state = "WAIT_4_ACTIVATE" /\ ram'.m_start_packet = ram.m_start_packet
        /\ ram'.m_image_size = ram.m_image_size /\ ram'.m_functions = ram.m_functions
        /\ ram'.active = ram.active /\ ram'.settings = page
        /\ ram'.cmds = r.cmds /\ ram'.done = r.done
        /\ ram'.m_tear_down_in_progress = TRUE /\ ram'.conn \in {"disconnecting", "off"}
    BY <1>1, <1>6 DEF Alike, Fields, Closing
  <2>2. Accepted'
    BY <1>2, <2>1 DEF Accepted
  <2>3. OnlySettings(Todo)'
    BY <1>4, <2>1 DEF Todo, Left, OnlySettings
  <2>4. Whole(settings)' /\ Whole(ram.settings)'
    <3>1. \A a : Holds(a, validated)' <=> Holds(a, validated)
      BY <1>6, HoldsKept
    <3> QED BY <1>2, <1>6, <2>1, <3>1 DEF Whole
  <2>5. Saved'
    BY <2>1, <2>2, <2>3, <2>4 DEF Saved
  <2> QED BY <2>1, <2>5 DEF Updating
<1> QED BY <1>1, <1>5, <1>6, WritesMove

(* The flash clears bank 0 first.                                          *)
LEMMA ClearFirst ==
    ASSUME NEW s, NEW n \in Nat, s # <<>>, Head(s) = Clear(BANK_0, n), ~Marks(settings), NEW page
    PROVE  Safe(s, page)
<1>1. Clear(BANK_0, n).op = "clear"
  BY BankCmdsAre
<1>2. Clear(BANK_0, n) # StoreSettings
  BY <1>1, SettingsCmdsAre DEF FlashOps
<1> QED BY <1>2 DEF Safe

(* Appending keeps the head.                                               *)
LEMMA HeadKept ==
    ASSUME NEW s \in Seq(Cmds), s # <<>>, NEW c \in Cmds
    PROVE  /\ Append(s, c) \in Seq(Cmds) /\ Append(s, c) # <<>>
           /\ Head(Append(s, c)) = Head(s)
<1>1. Append(s, c) \in Seq(Cmds) /\ Head(Append(s, c)) = Head(s)
  OBVIOUS
<1>2. Len(Append(s, c)) = Len(s) + 1 /\ Len(s) \in Nat
  OBVIOUS
<1>3. Append(s, c) = <<>> => Len(Append(s, c)) = 0
  OBVIOUS
<1> QED BY <1>1, <1>2, <1>3

(* The page for an application.                                            *)
AppPage(page, size) ==
    [page EXCEPT !.bank_0_crc = NO_CRC, !.bank_0_size = size,
                 !.bank_0 = "BANK_VALID_APP", !.bank_1 = "BANK_INVALID_APP"]

(* The commands that activate an application.                              *)
LEMMA AppCmds ==
    ASSUME NEW t, IsRam(t), ~t.assert, Left(t) = <<>>, NEW size \in Nat,
           ~Marks(settings),
           NEW t1, t1 = Put(t, Clear(BANK_0, size)), ~IsFull(t1), ~t1.assert,
           NEW r, r = AppComplete(Put(t1, Copy(size)), NO_CRC, size)
    PROVE  /\ IsRam(r) /\ Alike(r, t, {"cmds", "assert", "settings", "m_update_status"})
           /\ r.settings = AppPage(t.settings, size)
           /\ Safe(Left(r), r.settings)
           /\ ~r.assert =>
                 Left(r) = <<Clear(BANK_0, size), Copy(size), ClearSettings, StoreSettings>>
<1>1. Clear(BANK_0, size) \in Cmds /\ Copy(size) \in Cmds /\ ClearSettings \in Cmds
      /\ StoreSettings \in Cmds
  BY BankCmdsAre, SettingsCmdsAre
<1>2. /\ IsRam(t1) /\ Alike(t1, t, {"cmds", "assert"})
      /\ t1.cmds = Append(t.cmds, Clear(BANK_0, size))
  BY <1>1, Put_Is
<1>3. PICK t2 : t2 = Put(t1, Copy(size))
  OBVIOUS
<1>4. /\ IsRam(t2) /\ Alike(t2, t1, {"cmds", "assert"}) /\ ~t2.assert
      /\ t2.cmds = Append(t1.cmds, Copy(size))
  BY <1>1, <1>2, <1>3, Put_Is
<1>5. PICK page : page = AppPage(t2.settings, size)
  OBVIOUS
<1>6. PICK t3 : t3 = [t2 EXCEPT !.m_update_status = "SETTINGS_SAVING"]
  OBVIOUS
<1>7. IsRam(t3) /\ Alike(t3, t2, {"m_update_status"})
  BY <1>4, <1>6 DEF IsRam, Alike, Fields
<1>8. t2.settings = t.settings /\ t2.done = t.done /\ t3.done = t.done /\ t3.cmds = t2.cmds
      /\ t1.done = t.done /\ IsPage(t2.settings) /\ ~t3.assert
  BY <1>2, <1>4, <1>7 DEF Alike, Fields, IsRam
<1>9. IsPage(page)
  BY <1>5, <1>8 DEF AppPage, IsPage
<1>10. r = Save(t3, page)
  BY <1>3, <1>5, <1>6 DEF AppComplete, Saving, AppPage
<1>11. /\ IsRam(r) /\ r.settings = page
       /\ Alike(r, t3, {"cmds", "assert", "settings"})
  BY <1>7, <1>9, <1>10, Save_Is
<1>12. Alike(r, t, {"cmds", "assert", "settings", "m_update_status"}) /\ r.done = t.done
  BY <1>2, <1>4, <1>7, <1>8, <1>11 DEF Alike, Fields
<1>13. Left(t2) = Append(Append(<<>>, Clear(BANK_0, size)), Copy(size))
  <2>1. Left(t1) = Append(Left(t), Clear(BANK_0, size))
    BY <1>2, <1>8, LeftMore
  <2>2. Left(t2) = Append(Left(t1), Copy(size))
    BY <1>2, <1>4, <1>8, LeftMore
  <2> QED BY <2>1, <2>2
<1>14. Left(t3) = <<Clear(BANK_0, size), Copy(size)>>
  BY <1>8, <1>13, Pair DEF Left
<1>15. Left(t3) \in Seq(Cmds) /\ Left(t3) # <<>> /\ Head(Left(t3)) = Clear(BANK_0, size)
  BY <1>1, <1>14
<1>16. PICK s : s = Append(Left(t3), ClearSettings)
  OBVIOUS
<1>17. s \in Seq(Cmds) /\ s # <<>> /\ Head(s) = Clear(BANK_0, size)
  BY <1>1, <1>15, <1>16, HeadKept
<1>18. \/ r.assert /\ Left(r) = Left(t3)
       \/ r.assert /\ Left(r) = s
       \/ ~r.assert /\ Left(r) = Append(s, StoreSettings)
  BY <1>7, <1>9, <1>10, <1>16, SaveLeft
<1>21. Left(r) # <<>> /\ Head(Left(r)) = Clear(BANK_0, size)
  BY <1>1, <1>15, <1>17, <1>18, HeadKept
<1>22. Safe(Left(r), r.settings)
  BY <1>21, ClearFirst
<1>23. ASSUME ~r.assert
       PROVE  Left(r) = <<Clear(BANK_0, size), Copy(size), ClearSettings, StoreSettings>>
  <2>1. Left(r) = Append(s, StoreSettings)
    BY <1>18, <1>23
  <2>2. Left(t3) = Left(t2)
    BY <1>8 DEF Left
  <2> QED BY <1>13, <1>16, <2>1, <2>2, Four
<1> QED BY <1>5, <1>8, <1>11, <1>12, <1>22, <1>23

(* An application is activated: the bank, then the page.                   *)
LEMMA ActivateApp ==
    ASSUME IInv, UNCHANGED validated, ram.m_dfu_state = "WAIT_4_ACTIVATE", Unmarked, Checked,
           NEW t, IsRam(t), Alike(t, ram, Closing), t.m_tear_down_in_progress = TRUE,
           t.conn \in {"disconnecting", "off"}, ~t.assert,
           ram.m_functions = "app",
           NEW r, r = dfu_activate_app(t), PhoneWrites(r)
    PROVE  IInv'
<1>1. PICK size : size = t.m_start_packet.app
  OBVIOUS
<1>2. /\ Accepted /\ Todo = <<>> /\ Holds(ram.active, validated)
      /\ 4 * Len(validated) = ram.m_image_size /\ ~Marks(settings) /\ ~Marks(ram.settings)
  BY DEF Checked, Unmarked
<1>3. t.m_start_packet = ram.m_start_packet /\ t.settings = ram.settings /\ Left(t) = <<>>
  BY <1>2 DEF Left, Todo, Alike, Fields, Closing
<1>4. size \in Nat /\ size = ram.m_image_size /\ ram.active = BANK_1 /\ size = Image
  <2>1. PICK p : p = ram.m_start_packet
    OBVIOUS
  <2>2. /\ p \in StartPackets /\ Functions(p) = "app"
        /\ ram.m_image_size = p.sd + p.bl + p.app /\ size = p.app
    BY <1>1, <1>2, <1>3, <2>1 DEF Accepted
  <2>3. p.sd = 0 /\ p.bl = 0 /\ p.app \in Nat
    BY <2>2, StartPacketIs
  <2>4. 0 + 0 + p.app = p.app
    BY <2>3
  <2> QED BY <1>2, <2>2, <2>3, <2>4 DEF Accepted, Bank, Image
<1>5. PICK t1 : t1 = Put(t, Clear(BANK_0, size))
  OBVIOUS
<1>6. Clear(BANK_0, size) \in Cmds
  BY <1>4, BankCmdsAre
<1>7. /\ IsRam(t1) /\ Alike(t1, t, {"cmds", "assert"})
      /\ IsFull(t) => t1.assert /\ t1.cmds = t.cmds
      /\ ~IsFull(t) => ~t1.assert /\ t1.cmds = Append(t.cmds, Clear(BANK_0, size))
  BY <1>5, <1>6, Put_Is
<1>8. CASE IsFull(t1)
  <2>1. r = DfuReset(t1)
    BY <1>1, <1>5, <1>8 DEF dfu_activate_app
  <2>2. IsRam(r) /\ Alike(r, t1, {"m_update_status"})
    BY <1>7, <2>1 DEF DfuReset, IsRam, Alike, Fields
  <2>3. r.cmds = t1.cmds /\ r.done = t.done
    BY <1>7, <2>2 DEF Alike, Fields
  <2>4. Safe(Left(r), r.settings)
    <3>1. CASE IsFull(t)
      <4>1. Left(r) = <<>>
        BY <1>3, <1>7, <2>3, <3>1 DEF Left
      <4> QED BY <4>1 DEF Safe
    <3>2. CASE ~IsFull(t)
      <4>1. Left(r) = Append(<<>>, Clear(BANK_0, size))
        BY <1>3, <1>7, <2>3, <3>2, LeftMore
      <4>2. Left(r) = <<Clear(BANK_0, size)>>
        BY <4>1
      <4> QED BY <1>2, <1>4, <4>2, ClearFirst
    <3> QED BY <3>1, <3>2
  <2>5. ASSUME UNCHANGED <<flash, settings, validated>>, Alike(ram', r, {"late"})
        PROVE  Updating'
    <3>1. /\ ram'.m_dfu_state = "WAIT_4_ACTIVATE" /\ ram'.m_start_packet = ram.m_start_packet
          /\ ram'.m_image_size = ram.m_image_size /\ ram'.m_functions = ram.m_functions
          /\ ram'.active = ram.active /\ ram'.settings = ram.settings
          /\ ram'.m_tear_down_in_progress = TRUE /\ ram'.conn \in {"disconnecting", "off"}
      BY <1>7, <2>2, <2>5 DEF Alike, Fields, Closing
    <3>2. Accepted'
      BY <1>2, <3>1 DEF Accepted
    <3>3. Unmarked'
      BY <1>2, <2>5, <3>1 DEF Unmarked, Marks
    <3>4. Refused'
      BY <3>1, <3>2 DEF Refused
    <3> QED BY <3>1, <3>3, <3>4 DEF Updating
  <2> QED BY <2>2, <2>4, <2>5, WritesMove
<1>9. CASE ~IsFull(t1)
  <2>1. r = AppComplete(Put(t1, Copy(size)), NO_CRC, size)
    BY <1>1, <1>5, <1>9 DEF dfu_activate_app
  <2>2. ~t1.assert
    BY <1>7, <1>9 DEF IsFull
  <2>3. /\ IsRam(r) /\ Alike(r, t, {"cmds", "assert", "settings", "m_update_status"})
        /\ r.settings = AppPage(t.settings, size)
        /\ Safe(Left(r), r.settings)
        /\ ~r.assert =>
              Left(r) = <<Clear(BANK_0, size), Copy(size), ClearSettings, StoreSettings>>
    BY <1>2, <1>3, <1>4, <1>5, <1>9, <2>1, <2>2, AppCmds
  <2>4. ASSUME UNCHANGED <<flash, settings, validated>>, Alike(ram', r, {"late"}), ~r.assert
        PROVE  Updating'
    <3>1. /\ ram'.m_dfu_state = "WAIT_4_ACTIVATE" /\ ram'.m_start_packet = ram.m_start_packet
          /\ ram'.m_image_size = ram.m_image_size /\ ram'.m_functions = ram.m_functions
          /\ ram'.active = ram.active /\ ram'.settings = AppPage(ram.settings, size)
          /\ ram'.cmds = r.cmds /\ ram'.done = r.done
          /\ ram'.m_tear_down_in_progress = TRUE /\ ram'.conn \in {"disconnecting", "off"}
      BY <1>3, <2>3, <2>4 DEF Alike, Fields, Closing
    <3>2. Accepted'
      BY <1>2, <3>1 DEF Accepted
    <3>3. Image' = Image
      BY <2>4 DEF Image
    <3>4. Todo' = <<Clear(BANK_0, Image), Copy(Image), ClearSettings, StoreSettings>>
      BY <1>4, <2>3, <2>4, <3>1 DEF Todo, Left
    <3>5. IsPage(ram.settings)
      BY DEF IInv, Types, IsRam
    <3>6. /\ ram'.settings.bank_0 = "BANK_VALID_APP" /\ ram'.settings.bank_0_crc = NO_CRC
          /\ ram'.settings.bank_1 = "BANK_INVALID_APP"
      BY <3>1, <3>5 DEF AppPage, IsPage
    <3>7. (~Marks(settings))' /\ Holds(BANK_1, validated)'
      BY <1>2, <1>4, <2>4, HoldsKept DEF Marks
    <3>8. Activated'
      BY <1>4, <3>1, <3>2, <3>3, <3>4, <3>6, <3>7 DEF Activated
    <3> QED BY <3>1, <3>8 DEF Updating
  <2> QED BY <2>3, <2>4, WritesMove
<1> QED BY <1>8, <1>9

(* The page for a SoftDevice, and the page for a bootloader.               *)
SdPage(p) ==
    [bank_0 |-> "BANK_VALID_SD", bank_1 |-> "BANK_INVALID_APP",
     bank_0_crc |-> NO_CRC, bank_0_size |-> p.sd + p.bl + p.app,
     sd_image_size |-> p.sd, bl_image_size |-> p.bl]
BlPage(p) ==
    [settings EXCEPT !.bank_1 = "BANK_VALID_BOOT",
                     !.sd_image_size = p.sd, !.bl_image_size = p.bl]

(* See above.                                                              *)
LEMMA SdPageWhole ==
    ASSUME Types, Checked, ram.m_functions = "sd"
    PROVE  IsPage(SdPage(ram.m_start_packet)) /\ Whole(SdPage(ram.m_start_packet))
<1>1. PICK p : p = ram.m_start_packet
  OBVIOUS
<1>2. /\ p \in StartPackets /\ ram.m_image_size = p.sd + p.bl + p.app
      /\ ram.active = BANK_0
  BY <1>1 DEF Checked, Accepted, Bank
<1>3. Holds(BANK_0, validated) /\ 4 * Len(validated) = ram.m_image_size
  BY <1>2 DEF Checked
<1>4. p.sd \in Nat /\ p.bl \in Nat /\ p.app \in Nat
  BY <1>2, StartPacketIs
<1>5. p.sd <= 4 * Len(validated)
  <2>1. p.sd <= p.sd + p.bl + p.app
    BY <1>4
  <2> QED BY <1>2, <1>3, <2>1
<1>6. PICK page : page = SdPage(p)
  OBVIOUS
<1>7. /\ IsPage(page) /\ page.bank_0 = "BANK_VALID_SD" /\ page.bank_1 = "BANK_INVALID_APP"
      /\ page.sd_image_size = p.sd
  BY <1>6 DEF SdPage, IsPage
<1>8. Whole(page)
  BY <1>3, <1>4, <1>5, <1>7 DEF Whole
<1> QED BY <1>1, <1>6, <1>7, <1>8

(* See above.                                                              *)
LEMMA BlPageWhole ==
    ASSUME Types, Checked, ram.m_functions = "bl", ~Marks(settings)
    PROVE  IsPage(BlPage(ram.m_start_packet)) /\ Whole(BlPage(ram.m_start_packet))
<1>1. PICK p : p = ram.m_start_packet
  OBVIOUS
<1>2. p \in StartPackets /\ Functions(p) = "bl" /\ ram.active = BANK_1
  BY <1>1 DEF Checked, Accepted, Bank
<1>3. Holds(BANK_1, validated)
  BY <1>2 DEF Checked
<1>4. p.sd = 0
  BY <1>2, StartPacketIs
<1>5. PICK page : page = BlPage(p)
  OBVIOUS
<1>6. IsPage(settings) /\ settings.bank_0 \notin Valid
  BY DEF Types, Marks
<1>7. /\ IsPage(page) /\ page.bank_0 = settings.bank_0 /\ page.sd_image_size = 0
  BY <1>4, <1>5, <1>6 DEF BlPage, IsPage
<1>8. Whole(page)
  BY <1>3, <1>6, <1>7 DEF Whole, Valid
<1> QED BY <1>1, <1>5, <1>7, <1>8

(* The phone asks for it.                                                  *)
LEMMA ActivateNReset_IInv ==
    ASSUME IInv, ActivateNReset
    PROVE  IInv'
<1>1. PICK c : c = Close(Quiet)
  OBVIOUS
<1>2. PICK r : r = IF c.assert THEN c ELSE Activate(c)
  OBVIOUS
<1>3. PhoneWrites(r) /\ validated' = validated /\ Listening
  BY <1>1, <1>2 DEF ActivateNReset, PhoneWrites
<1>4. pc = "dfu" /\ ram.conn \in {"connected", "disconnecting"}
  BY <1>3 DEF Listening
<1>5. /\ Similar(Quiet) /\ IsRam(Quiet) /\ Alike(Quiet, ram, {"resp"}) /\ Updating /\ Types
  BY <1>4, SimilarQuiet DEF IInv
<1>6. /\ Similar(c) /\ IsRam(c)
      /\ Alike(c, Quiet, {"m_tear_down_in_progress", "conn", "assert"})
      /\ c.m_tear_down_in_progress = TRUE /\ c.conn \in {"disconnecting", "off"}
      /\ Quiet.conn = "disconnecting" => c.assert
  BY <1>1, <1>5, CloseSimilar, Close_Is
<1>7. CASE c.assert
  BY <1>2, <1>3, <1>6, <1>7, WritesSame
<1>8. CASE ~c.assert /\ c.m_dfu_state # "WAIT_4_ACTIVATE"
  <2>1. r = DfuReset(c)
    BY <1>2, <1>8 DEF Activate
  <2>2. IsRam(r) /\ Alike(r, c, Minor \ {"m_tear_down_in_progress", "conn"})
    BY <1>6, <2>1 DEF DfuReset, IsRam, Alike, Fields, Minor
  <2>3. Similar(r)
    BY <1>6, <2>2, SimilarAlso
  <2> QED BY <1>3, <2>3, WritesSame
<1>9. CASE ~c.assert /\ c.m_dfu_state = "WAIT_4_ACTIVATE"
  <2>1. ram.conn = "connected" /\ ram.m_dfu_state = "WAIT_4_ACTIVATE"
        /\ c.m_functions = ram.m_functions /\ c.m_start_packet = ram.m_start_packet
    BY <1>4, <1>5, <1>6, <1>9 DEF Alike, Fields
  <2>2. ~ram.m_tear_down_in_progress
    BY <1>5, <2>1 DEF Updating
  <2>3. Unmarked /\ Checked
    BY <1>5, <2>1, <2>2 DEF Updating, Refused, Activated, Saved
  <2>4. PICK t : t = [c EXCEPT !.timer = "off"]
    OBVIOUS
  <2>5. IsRam(t) /\ Alike(t, c, {"timer"})
    BY <1>6, <2>4 DEF IsRam, Alike, Fields
  <2>6. PICK u : u = [t EXCEPT !.m_update_status = "SETTINGS_SAVING"]
    OBVIOUS
  <2>7. IsRam(u) /\ Alike(u, t, {"m_update_status"})
    BY <2>5, <2>6 DEF IsRam, Alike, Fields
  <2>8. Alike(t, ram, Closing) /\ Alike(u, ram, Closing)
    BY <1>5, <1>6, <2>5, <2>7 DEF Alike, Fields, Closing
  <2>9. /\ t.m_tear_down_in_progress = TRUE /\ t.conn \in {"disconnecting", "off"}
        /\ u.m_tear_down_in_progress = TRUE /\ u.conn \in {"disconnecting", "off"}
        /\ ~t.assert
    BY <1>6, <1>9, <2>5, <2>7 DEF Alike, Fields
  <2>10. CASE ram.m_functions = "sd"
    <3>1. r = Save(u, SdPage(ram.m_start_packet))
      BY <1>2, <1>9, <2>1, <2>4, <2>6, <2>10 DEF Activate, SdComplete, Saving, SdPage
    <3>2. PICK page : page = SdPage(ram.m_start_packet)
      OBVIOUS
    <3>3. IsPage(page) /\ Whole(page)
      BY <1>5, <2>3, <2>10, <3>2, SdPageWhole
    <3> QED BY <1>3, <2>1, <2>3, <2>7, <2>8, <2>9, <3>1, <3>2, <3>3, ActivateSaves
  <2>11. CASE ram.m_functions = "bl"
    <3>1. r = Save(u, BlPage(ram.m_start_packet))
      BY <1>2, <1>9, <2>1, <2>4, <2>6, <2>11 DEF Activate, BootComplete, Saving, BlPage
    <3>2. PICK page : page = BlPage(ram.m_start_packet)
      OBVIOUS
    <3>3. IsPage(page) /\ Whole(page)
      BY <1>5, <2>3, <2>11, <3>2, BlPageWhole DEF Unmarked
    <3> QED BY <1>3, <2>1, <2>3, <2>7, <2>8, <2>9, <3>1, <3>2, <3>3, ActivateSaves
  <2>12. CASE ram.m_functions = "app"
    <3>1. r = dfu_activate_app(t)
      BY <1>2, <1>9, <2>1, <2>4, <2>12 DEF Activate
    <3> QED BY <1>3, <2>1, <2>3, <2>5, <2>8, <2>9, <2>12, <3>1, ActivateApp
  <2>13. ram.m_functions \in {"sd", "bl", "app"}
    BY <2>3, StartPacketIs DEF Checked, Accepted
  <2> QED BY <2>10, <2>11, <2>12, <2>13
<1> QED BY <1>7, <1>8, <1>9

-----------------------------------------------------------------------------
(* The flash does the first command.                                       *)

(* What may be on the settings page after it.                              *)
LEMMA SettingsDone_Is ==
    ASSUME NEW c
    PROVE  /\ SettingsDone(c) \in {settings, ErasedPage, BadPage, ram.settings}
           /\ c.op \in FlashOps => SettingsDone(c) = settings
BY DEF SettingsDone, FlashOps

(* See above.                                                              *)
LEMMA Writes ==
    ASSUME IInv, FlashWrites
    PROVE  /\ Types /\ Types' /\ ram'.done = TRUE /\ ~ram'.assert
           /\ Alike(ram', ram, {"resp", "done"})
           /\ Todo = ram.cmds /\ Todo # <<>> /\ Todo' = Tail(Todo) /\ Todo \in Seq(Cmds)
           /\ flash' = FlashDone(Head(Todo)) /\ settings' = SettingsDone(Head(Todo))
           /\ pc \in {"dfu", "finalize"} /\ UNCHANGED <<sd, bl, gpregret, pc, validated>>
<1>1. /\ Types /\ ram.cmds # <<>> /\ ~ram.done /\ pc \in {"dfu", "finalize"}
      /\ UNCHANGED <<sd, bl, gpregret, pc, validated>>
      /\ ram' = [Quiet EXCEPT !.done = TRUE] /\ ~ram.assert
      /\ flash' = FlashDone(Head(ram.cmds)) /\ settings' = SettingsDone(Head(ram.cmds))
  BY DEF IInv, FlashWrites
<1>2. IsRam(ram) /\ IsRam(Quiet) /\ Alike(Quiet, ram, {"resp"})
  BY <1>1, Quiet_Is DEF Types
<1>3. Alike(ram', Quiet, {"done"}) /\ ram'.done = TRUE
  BY <1>1, <1>2 DEF IsRam, Alike, Fields
<1>4. Alike(ram', ram, {"resp", "done"})
  BY <1>2, <1>3 DEF Alike, Fields
<1>5. Todo = ram.cmds /\ Todo' = Tail(Todo) /\ ~ram'.assert
  BY <1>1, <1>3, <1>4 DEF Todo, Alike, Fields
<1>6. flash' = [a \in Addresses |-> flash'[a]]
  BY <1>1, DoneWords
<1>7. IsPage(settings)'
  <2>1. settings' \in {settings, ErasedPage, BadPage, ram.settings}
    BY <1>1, SettingsDone_Is
  <2>2. \A page \in {settings, ErasedPage, BadPage, ram.settings} : IsPage(page)
    BY <1>1, PlainPages DEF Types, IsRam
  <2> QED BY <2>1, <2>2 DEF IsPage
<1>8. IsRam(ram)'
  BY <1>1, <1>2, <1>3, <1>4 DEF IsRam, Alike, Fields, IsPage, IsPool
<1>9. Types'
  BY <1>1, <1>6, <1>7, <1>8 DEF Types
<1>10. Todo \in Seq(Cmds)
  BY <1>2, <1>5 DEF IsRam
<1> QED BY <1>1, <1>3, <1>4, <1>5, <1>9, <1>10

(* A command for the settings.                                             *)
LEMMA WritesSettings ==
    ASSUME IInv, FlashWrites, Head(Todo) \in SettingsCmds
    PROVE  /\ flash' = flash
           /\ settings' \in {ErasedPage, BadPage, ram.settings}
           /\ Head(Todo) = ClearSettings => settings' = ErasedPage
<1>1. Types /\ flash' = FlashDone(Head(Todo)) /\ settings' = SettingsDone(Head(Todo))
  BY Writes
<1>2. flash' = flash
  BY <1>1, SettingsOnly
<1>3. Head(Todo).op \in {"clear_settings", "store_settings"}
      /\ (Head(Todo) = ClearSettings => Head(Todo).op = "clear_settings")
  BY SettingsCmdsAre DEF SettingsCmds
<1> QED BY <1>1, <1>2, <1>3 DEF SettingsDone

(* The first of the commands, and those after it.                          *)
LEMMA OnlyTail ==
    ASSUME NEW s \in Seq(Cmds), s # <<>>, OnlySettings(s)
    PROVE  Head(s) \in SettingsCmds /\ OnlySettings(Tail(s))
<1>1. 1 \in DOMAIN s /\ Head(s) = s[1]
  OBVIOUS
<1>2. \A i \in DOMAIN Tail(s) : i + 1 \in DOMAIN s /\ Tail(s)[i] = s[i + 1]
  OBVIOUS
<1> QED BY <1>1, <1>2 DEF OnlySettings

(* In the end of a swap.                                                   *)
LEMMA FinalWrites ==
    ASSUME IInv, FlashWrites, pc = "finalize"
    PROVE  IInv'
<1>1. /\ Types /\ Types' /\ ram'.done = TRUE /\ ~ram'.assert
      /\ Alike(ram', ram, {"resp", "done"}) /\ Todo = ram.cmds /\ Todo # <<>>
      /\ UNCHANGED <<sd, bl, gpregret, pc, validated>>
  BY Writes
<1>2. Finalizing /\ Steady
  BY DEF IInv
<1>3. /\ ram'.m_dfu_state = ram.m_dfu_state /\ ram'.m_data_received = ram.m_data_received
      /\ ram'.m_tear_down_in_progress = ram.m_tear_down_in_progress
      /\ ram'.settings = ram.settings /\ ram'.cmds = ram.cmds
      /\ ram'.m_update_status = ram.m_update_status
  BY <1>1 DEF Alike, Fields
<1>4. \/ ram.cmds = <<ClearSettings, StoreSettings>> /\ Head(Todo) = ClearSettings
      \/ ram.cmds = <<StoreSettings>> /\ Head(Todo) = StoreSettings
  BY <1>1, <1>2 DEF Finalizing
<1>5. settings' \in {ErasedPage, BadPage, ram.settings}
  BY <1>4, WritesSettings DEF SettingsCmds
<1>6. (~Marks(settings))'
  BY <1>2, <1>5, PlainPages DEF Finalizing, Marks
<1>7. Whole(settings)'
  BY <1>6 DEF Whole, Marks, Valid
<1>8. (~Marks(ram.settings))'
  BY <1>2, <1>3 DEF Finalizing, Marks
<1>9. Finalizing'
  BY <1>2, <1>3, <1>4, <1>6, <1>7, <1>8 DEF Finalizing
<1>10. Steady'
  BY <1>1, <1>2, UpdateSteady
<1> QED BY <1>1, <1>9, <1>10 DEF IInv

(* In an update: what stays.                                               *)
Stays ==
    /\ ram'.m_dfu_state = ram.m_dfu_state /\ ram'.m_start_packet = ram.m_start_packet
    /\ ram'.m_image_size = ram.m_image_size /\ ram'.m_functions = ram.m_functions
    /\ ram'.active = ram.active /\ ram'.m_data_received = ram.m_data_received
    /\ ram'.m_extended_packet = ram.m_extended_packet /\ ram'.settings = ram.settings
    /\ ram'.m_tear_down_in_progress = ram.m_tear_down_in_progress /\ ram'.conn = ram.conn
    /\ ram'.cmds = ram.cmds /\ UNCHANGED validated

(* See above.                                                              *)
LEMMA WritesStays ==
    ASSUME IInv, FlashWrites
    PROVE  Stays /\ (Accepted => Accepted')
<1>1. Alike(ram', ram, {"resp", "done"}) /\ UNCHANGED validated
  BY Writes
<1>2. Stays
  BY <1>1 DEF Stays, Alike, Fields
<1>3. Accepted => Accepted'
  BY <1>2 DEF Stays, Accepted
<1> QED BY <1>2, <1>3

(* The page stays without a mark.                                          *)
LEMMA WritesUnmarked ==
    ASSUME IInv, FlashWrites, Unmarked
    PROVE  Unmarked'
<1>1. settings' = SettingsDone(Head(Todo)) /\ ram'.settings = ram.settings
  BY Writes, WritesStays DEF Stays
<1>2. settings' \in {settings, ErasedPage, BadPage, ram.settings}
  BY <1>1, SettingsDone_Is
<1>3. (~Marks(settings))'
  BY <1>2, PlainPages DEF Unmarked, Marks
<1> QED BY <1>1, <1>3 DEF Unmarked, Marks

(* What was to be erased is erased.                                        *)
LEMMA ErasesBank ==
    ASSUME IInv, FlashWrites, Preparing
    PROVE  Preparing'
<1>1. /\ Types /\ ram'.done = TRUE /\ Todo = ram.cmds
      /\ flash' = FlashDone(Head(Todo))
  BY Writes
<1>2. Accepted /\ Accepted' /\ ram.m_data_received = 0 /\ Stays
  BY WritesStays DEF Preparing
<1>3. PICK n : n = ram.m_image_size \div 4
  OBVIOUS
<1>4. /\ ram.m_image_size \in Nat /\ ram.m_image_size <= 4 * Limit(ram.m_functions)
      /\ ram.active = Bank(ram.m_functions)
  BY <1>1, <1>2 DEF Accepted, Types, IsRam
<1>5. PICK m : m = IF ram.m_functions = "sd" THEN ram.m_image_size ELSE DFU_IMAGE_MAX_SIZE_BANKED
  OBVIOUS
<1>6. m \in Nat /\ m \div 4 >= n /\ n \in Nat
  <2>1. CASE ram.m_functions = "sd"
    BY <1>3, <1>4, <1>5, <2>1
  <2>2. CASE ram.m_functions # "sd"
    <3>1. m = 4 * BankWords /\ BankWords \in Nat /\ ram.m_image_size <= m
      BY <1>4, <1>5, <2>2, Numbers DEF Limit, DFU_IMAGE_MAX_SIZE_BANKED
    <3>2. m \in Nat /\ ram.m_image_size \div 4 <= m \div 4
      BY <1>4, <3>1, Quarters
    <3> QED BY <1>3, <1>4, <3>2, Quarters
  <2> QED BY <2>1, <2>2
<1>7. Head(Todo) = Clear(ram.active, m) /\ ram.active \in {BANK_0, BANK_1}
  BY <1>1, <1>4, <1>5 DEF Preparing, Bank
<1>8. PICK c : c = Clear(ram.active, m)
  OBVIOUS
<1>9. c.op = "clear" /\ c.at = ram.active /\ c.size = m
  BY <1>6, <1>7, <1>8, BankCmdsAre
<1>10. \A a \in Addresses : a >= ram.active /\ a < ram.active + m \div 4 => flash'[a] = EMPTY
  <2>1. flash' = FlashDone(c)
    BY <1>1, <1>7, <1>8
  <2>2. PICK k : k = m \div 4
    OBVIOUS
  <2>3. c.size \div 4 = k /\ k \in Int /\ ram.active \in Int
    BY <1>6, <1>7, <1>9, <2>2, Numbers
  <2>4. ASSUME NEW a \in Addresses, a >= ram.active, a < ram.active + k
        PROVE  flash'[a] = EMPTY
    <3>1. a \in Int
      BY Numbers
    <3>2. ~(a < ram.active \/ a >= ram.active + k)
      BY <2>3, <2>4, <3>1
    <3>3. flash'[a] = IF a < c.at \/ a >= c.at + k THEN flash[a] ELSE EMPTY
      BY <1>9, <2>1, <2>3 DEF FlashDone
    <3> QED BY <1>9, <3>2, <3>3
  <2> QED BY <2>2, <2>4
<1>11. ram.active \in Nat
  BY <1>7, Numbers
<1>12. Erased'
  <2>1. ASSUME NEW a \in Addresses, a >= ram.active, a < ram.active + n
        PROVE  flash'[a] = EMPTY
    <3>1. a \in Int
      BY Numbers
    <3>2. m \div 4 \in Int
      BY <1>6
    <3>3. a < ram.active + m \div 4
      BY <1>6, <1>11, <2>1, <3>1, <3>2
    <3> QED BY <1>10, <2>1, <3>3
  <2>2. NextAt' = ram.active /\ End' = ram.active + n
    BY <1>2, <1>3, <1>11 DEF NextAt, End, Stays
  <2> QED BY <2>1, <2>2 DEF Erased
<1>13. ram'.cmds = ram.cmds
  BY <1>2 DEF Stays
<1>14. ram'.m_functions = ram.m_functions /\ ram'.m_image_size = ram.m_image_size
       /\ ram'.m_data_received = 0
  BY <1>2 DEF Stays
<1> QED BY <1>2, <1>12, <1>13, <1>14 DEF Preparing

(* The settings are written while the data comes.                          *)
LEMMA WritesReady ==
    ASSUME IInv, FlashWrites, Ready
    PROVE  Ready'
<1>1. Todo # <<>> /\ Todo' = Tail(Todo) /\ Todo \in Seq(Cmds)
  BY Writes
<1>2. Accepted' /\ Stays
  BY WritesStays DEF Ready
<1>3. Head(Todo) \in SettingsCmds /\ OnlySettings(Tail(Todo)) /\ ram.m_functions = "sd"
  BY <1>1, OnlyTail DEF Ready
<1>4. flash' = flash
  BY <1>3, WritesSettings
<1>5. Erased'
  BY <1>2, <1>4 DEF Ready, Erased, NextAt, End, Stays
<1>6. OnlySettings(Todo)'
  BY <1>1, <1>3 DEF OnlySettings
<1>7. ram'.m_data_received = 0 /\ ram'.m_functions = "sd"
  BY <1>2, <1>3 DEF Stays, Ready
<1> QED BY <1>2, <1>5, <1>6, <1>7 DEF Ready

(* See above.                                                              *)
LEMMA WritesChecked ==
    ASSUME IInv, FlashWrites, Checked
    PROVE  Checked'
<1>1. Todo # <<>> /\ Todo' = Tail(Todo) /\ Todo \in Seq(Cmds)
  BY Writes
<1>2. Accepted' /\ Stays
  BY WritesStays DEF Checked
<1>3. Head(Todo) \in SettingsCmds /\ OnlySettings(Tail(Todo)) /\ ram.m_functions = "sd"
  BY <1>1, OnlyTail DEF Checked
<1>4. flash' = flash
  BY <1>3, WritesSettings
<1>5. Holds(ram.active, validated)'
  BY <1>2, <1>4 DEF Checked, Holds, Content, Stays
<1>6. OnlySettings(Todo)'
  BY <1>1, <1>3 DEF OnlySettings
<1>7. ram'.m_functions = "sd" /\ (4 * Len(validated) = ram.m_image_size)'
  BY <1>2, <1>3 DEF Stays, Checked
<1> QED BY <1>2, <1>5, <1>6, <1>7 DEF Checked

(* See above.                                                              *)
LEMMA WritesSaved ==
    ASSUME IInv, FlashWrites, Saved
    PROVE  Saved'
<1>1. Todo # <<>> /\ Todo' = Tail(Todo) /\ Todo \in Seq(Cmds)
  BY Writes
<1>2. Accepted' /\ Stays
  BY WritesStays DEF Saved
<1>3. Head(Todo) \in SettingsCmds /\ OnlySettings(Tail(Todo))
  BY <1>1, OnlyTail DEF Saved
<1>4. flash' = flash /\ settings' \in {ErasedPage, BadPage, ram.settings}
  BY <1>3, WritesSettings
<1>5. Whole(ErasedPage) /\ Whole(BadPage) /\ Whole(ram.settings)
  BY PlainPages, UnmarkedWhole DEF Saved
<1>6. \A a : Holds(a, validated)' <=> Holds(a, validated)
  BY <1>2, <1>4, HoldsKept DEF Stays
<1>7. Whole(settings)' /\ Whole(ram.settings)'
  <2>1. PICK page : page = settings'
    OBVIOUS
  <2>2. Whole(page)
    BY <1>4, <1>5, <2>1
  <2>3. Whole(settings)'
    BY <1>2, <1>6, <2>1, <2>2 DEF Whole, Stays
  <2>4. Whole(ram.settings)'
    BY <1>2, <1>5, <1>6 DEF Whole, Stays
  <2> QED BY <2>3, <2>4
<1>8. OnlySettings(Todo)'
  BY <1>1, <1>3 DEF OnlySettings
<1>9. ram'.m_tear_down_in_progress
  BY <1>2 DEF Saved, Stays
<1> QED BY <1>2, <1>7, <1>8, <1>9 DEF Saved

(* A packet is stored where it says.                                       *)
LEMMA StoreWords ==
    ASSUME NEW c \in Cmds, c.size = 4 * Len(c.words), flash' = FlashDone(c)
    PROVE  \A a \in Addresses : a < c.at \/ a >= After(c) => flash'[a] = flash[a]
<1>1. c.words \in Seq(Contents) /\ c.at \in Nat
  BY DEF Cmds, AnyCmd
<1>2. PICK k : k = Len(c.words)
  OBVIOUS
<1>3. k \in Nat /\ c.size = 4 * k
  BY <1>1, <1>2
<1>4. (4 * k) \div 4 = k
  BY <1>3
<1>5. c.size \div 4 = k /\ After(c) = c.at + k
  BY <1>2, <1>3, <1>4 DEF After
<1> QED BY <1>5 DEF FlashDone

(* See above.                                                              *)
LEMMA TailFrom ==
    ASSUME NEW s \in Seq(Cmds), s # <<>>
    PROVE  /\ 1 \in DOMAIN s /\ Head(s) = s[1] /\ Head(s) \in Cmds
           /\ \A i \in DOMAIN Tail(s) :
                 /\ i + 1 \in DOMAIN s /\ Tail(s)[i] = s[i + 1] /\ i \in Int /\ 1 < i + 1
                 /\ s[i + 1] \in Cmds
OBVIOUS

(* What is still to be stored goes to words that are still erased.         *)
LEMMA WritesStores ==
    ASSUME IInv, FlashWrites, Accepted, Stores
    PROVE  (Erased => Erased') /\ Stores'
<1>1. /\ Todo # <<>> /\ Todo' = Tail(Todo) /\ Todo \in Seq(Cmds) /\ Types
      /\ flash' = FlashDone(Head(Todo)) /\ Stays
  BY Writes, WritesStays
<1>2. PICK c : c = Head(Todo)
  OBVIOUS
<1>3. PICK s : s = Todo
  OBVIOUS
<1>4. /\ 1 \in DOMAIN s /\ c = s[1] /\ c \in Cmds
      /\ \A i \in DOMAIN Tail(s) :
            /\ i + 1 \in DOMAIN s /\ Tail(s)[i] = s[i + 1] /\ i \in Int /\ 1 < i + 1
            /\ s[i + 1] \in Cmds
  BY <1>1, <1>2, <1>3, TailFrom
<1>5. PICK n : n = NextAt
  OBVIOUS
<1>6. NextAt' = n /\ End' = End /\ ram'.active = ram.active
  BY <1>1, <1>5 DEF Stays, NextAt, End
<1>7. n \in Nat
  <2>1. ram.m_data_received \in Nat /\ ram.active \in Nat
    BY <1>1, Numbers DEF Types, IsRam, Accepted, Bank
  <2> QED BY <1>5, <2>1, Quarters DEF NextAt
<1>8. \A i \in DOMAIN s : s[i] \notin SettingsCmds =>
        /\ s[i].op = "store" /\ s[i].words # <<>> /\ s[i].size = 4 * Len(s[i].words)
        /\ s[i].at >= ram.active /\ After(s[i]) <= n
        /\ \A a \in Addresses : a >= s[i].at /\ a < After(s[i]) => flash[a] = EMPTY
        /\ \A j \in DOMAIN s : i < j /\ s[j] \notin SettingsCmds => After(s[i]) <= s[j].at
  BY <1>3, <1>5 DEF Stores
<1>9. After(c) \in Nat
  <2>1. c.at \in Nat /\ c.words \in Seq(Contents)
    BY <1>4 DEF Cmds, AnyCmd
  <2>2. Len(c.words) \in Nat
    BY <2>1
  <2> QED BY <2>1, <2>2 DEF After
<1>10. \A a \in Addresses :
          c \in SettingsCmds \/ a >= After(c) => flash'[a] = flash[a]
  <2>1. CASE c \in SettingsCmds
    BY <1>2, <2>1, WritesSettings
  <2>2. CASE c \notin SettingsCmds
    BY <1>1, <1>2, <1>4, <1>8, <2>2, StoreWords
  <2> QED BY <2>1, <2>2
<1>11. c \notin SettingsCmds => After(c) <= n
  BY <1>4, <1>8
<1>12. Erased => Erased'
  <2> SUFFICES ASSUME Erased PROVE Erased'
    OBVIOUS
  <2>1. ASSUME NEW a \in Addresses, a >= n, a < End PROVE flash'[a] = EMPTY
    <3>1. flash[a] = EMPTY
      BY <1>5, <2>1 DEF Erased
    <3>2. c \notin SettingsCmds => a >= After(c)
      BY <1>7, <1>9, <1>11, <2>1, Numbers
    <3> QED BY <1>10, <3>1, <3>2
  <2> QED BY <1>6, <2>1 DEF Erased
<1>13. ASSUME NEW i \in DOMAIN s, i > 1, s[i] \notin SettingsCmds, i \in Int, s[i] \in Cmds
       PROVE  \A a \in Addresses : a >= s[i].at /\ a < After(s[i]) => flash'[a] = EMPTY
  <2>1. ASSUME NEW a \in Addresses, a >= s[i].at, a < After(s[i]) PROVE flash'[a] = EMPTY
    <3>1. flash[a] = EMPTY
      BY <1>8, <1>13, <2>1
    <3>2. c \notin SettingsCmds => After(c) <= s[i].at
      BY <1>4, <1>8, <1>13
    <3>3. s[i].at \in Nat /\ a \in Nat
      BY <1>13, Numbers DEF Cmds, AnyCmd
    <3>4. c \notin SettingsCmds => a >= After(c)
      BY <1>9, <2>1, <3>2, <3>3
    <3> QED BY <1>10, <3>1, <3>4
  <2> QED BY <2>1
<1>14. Stores'
  <2>1. PICK u : u = Tail(s)
    OBVIOUS
  <2>2. Todo' = u
    BY <1>1, <1>3, <2>1
  <2>3. ASSUME NEW i \in DOMAIN u, u[i] \notin SettingsCmds
        PROVE  /\ u[i].op = "store" /\ u[i].words # <<>> /\ u[i].size = 4 * Len(u[i].words)
               /\ u[i].at >= ram.active /\ After(u[i]) <= n
               /\ \A a \in Addresses : a >= u[i].at /\ a < After(u[i]) => flash'[a] = EMPTY
               /\ \A j \in DOMAIN u :
                     i < j /\ u[j] \notin SettingsCmds => After(u[i]) <= u[j].at
    <3>1. /\ i + 1 \in DOMAIN s /\ u[i] = s[i + 1] /\ i \in Int /\ 1 < i + 1
          /\ s[i + 1] \in Cmds
      BY <1>4, <2>1, <2>3
    <3>2. PICK k : k = i + 1
      OBVIOUS
    <3>3. k \in DOMAIN s /\ u[i] = s[k] /\ k \in Int /\ k > 1 /\ s[k] \in Cmds
      BY <3>1, <3>2
    <3>4. \A a \in Addresses : a >= u[i].at /\ a < After(u[i]) => flash'[a] = EMPTY
      BY <1>13, <2>3, <3>3
    <3>5. ASSUME NEW j \in DOMAIN u, i < j, u[j] \notin SettingsCmds
          PROVE  After(u[i]) <= u[j].at
      <4>1. j + 1 \in DOMAIN s /\ u[j] = s[j + 1] /\ j \in Int
        BY <1>4, <2>1, <3>5
      <4>2. k < j + 1
        BY <3>1, <3>2, <3>5, <4>1
      <4> QED BY <1>8, <2>3, <3>3, <3>5, <4>1, <4>2
    <3> QED BY <1>8, <2>3, <3>3, <3>4, <3>5
  <2> QED BY <1>6, <2>2, <2>3 DEF Stores, After
<1> QED BY <1>12, <1>14

(* See above.                                                              *)
LEMMA WritesReceiving ==
    ASSUME IInv, FlashWrites, Receiving
    PROVE  Receiving'
<1>1. /\ Todo # <<>> /\ Todo' = Tail(Todo) /\ Todo \in Seq(Cmds)
      /\ Stays /\ Accepted' /\ Accepted
  BY Writes, WritesStays DEF Receiving
<1>2. (ram.m_data_received # UINT_MAX => Erased') /\ Stores'
  BY <1>1, WritesStores DEF Receiving
<1>3. ASSUME ram.m_functions # "sd", NEW i \in DOMAIN Tail(Todo)
      PROVE  Tail(Todo)[i] \notin SettingsCmds
  <2>1. i + 1 \in DOMAIN Todo /\ Tail(Todo)[i] = Todo[i + 1]
    BY <1>1, <1>3, TailFrom
  <2> QED BY <1>3, <2>1 DEF Receiving
<1>4. (ram.m_functions # "sd" => \A i \in DOMAIN Todo : Todo[i] \notin SettingsCmds)'
  BY <1>1, <1>3 DEF Stays
<1> QED BY <1>1, <1>2, <1>4 DEF Receiving, Stays

(* An application is activated: bank 0 is cleared.                         *)
LEMMA WritesClear ==
    ASSUME IInv, FlashWrites, Accepted, ram.m_functions = "app", Image = ram.m_image_size,
           ~Marks(settings), Holds(BANK_1, validated),
           Head(Todo) = Clear(BANK_0, Image)
    PROVE  /\ settings' = settings /\ Holds(BANK_1, validated)'
           /\ \A a \in Addresses : a < Len(validated) => flash'[a] = EMPTY
<1>1. /\ Types /\ Types' /\ flash' = FlashDone(Head(Todo))
      /\ settings' = SettingsDone(Head(Todo)) /\ validated' = validated
  BY Writes
<1>2. PICK n : n = Len(validated)
  OBVIOUS
<1>3. n \in Nat /\ Image = 4 * n /\ n <= BankWords /\ (4 * n) \div 4 = n
  <2>1. validated \in Seq(Contents)
    BY <1>1 DEF Types
  <2>2. n \in Nat /\ Image = 4 * n
    BY <1>2, <2>1 DEF Image
  <2>3. 4 * n <= 4 * BankWords /\ BankWords \in Nat
    BY <2>2, Numbers DEF Accepted, Limit
  <2>4. n <= BankWords
    BY <2>2, <2>3
  <2>5. (4 * n) \div 4 = n
    BY <2>2
  <2> QED BY <2>2, <2>4, <2>5
<1>4. PICK c : c = Clear(BANK_0, Image)
  OBVIOUS
<1>5. c.op = "clear" /\ c.at = 0 /\ c.size = 4 * n
  BY <1>3, <1>4, BankCmdsAre, Numbers
<1>6. settings' = settings
  BY <1>1, <1>4, <1>5, SettingsDone_Is DEF FlashOps
<1>7. \A a \in Addresses : flash'[a] = IF a < 0 \/ a >= 0 + n THEN flash[a] ELSE EMPTY
  <2>1. flash' = FlashDone(c)
    BY <1>1, <1>4
  <2>2. c.size \div 4 = n
    BY <1>3, <1>5
  <2> QED BY <1>5, <2>1, <2>2 DEF FlashDone
<1>8. \A a \in Addresses : /\ a < n => flash'[a] = EMPTY
                           /\ a >= n => flash'[a] = flash[a]
  BY <1>3, <1>7, Numbers
<1>9. Holds(BANK_1, validated)'
  <2>1. ASSUME NEW k \in 1 .. n PROVE flash'[BANK_1 + k - 1] = flash[BANK_1 + k - 1]
    <3>1. /\ k \in Int /\ k >= 1 /\ k <= n /\ BankWords \in Nat /\ BANK_1 = BankWords
          /\ n \in Nat /\ n <= BankWords
      BY <1>3, <2>1, Numbers
    <3>2. BANK_1 + k - 1 \in 0 .. 2 * BankWords - 1 /\ BANK_1 + k - 1 >= n
      BY <3>1
    <3> QED BY <1>8, <3>2 DEF Addresses
  <2>2. BANK_1 \in Nat
    BY Numbers
  <2> QED BY <1>1, <1>2, <2>1, <2>2, HoldsThere
<1> QED BY <1>2, <1>6, <1>8, <1>9

(* Bank 1 is copied over it.                                               *)
LEMMA WritesCopy ==
    ASSUME IInv, FlashWrites, Accepted, ram.m_functions = "app", Image = ram.m_image_size,
           ~Marks(settings), Holds(BANK_1, validated),
           \A a \in Addresses : a < Len(validated) => flash[a] = EMPTY,
           Head(Todo) = Copy(Image)
    PROVE  settings' = settings /\ Holds(BANK_0, validated)'
<1>1. /\ Types /\ Types' /\ flash' = FlashDone(Head(Todo))
      /\ settings' = SettingsDone(Head(Todo)) /\ validated' = validated
  BY Writes
<1>2. PICK n : n = Len(validated)
  OBVIOUS
<1>3. n \in Nat /\ Image = 4 * n /\ n <= BankWords /\ (4 * n) \div 4 = n
      /\ validated \in Seq(Contents)
  <2>1. validated \in Seq(Contents)
    BY <1>1 DEF Types
  <2>2. n \in Nat /\ Image = 4 * n
    BY <1>2, <2>1 DEF Image
  <2>3. 4 * n <= 4 * BankWords /\ BankWords \in Nat
    BY <2>2, Numbers DEF Accepted, Limit
  <2>4. n <= BankWords
    BY <2>2, <2>3
  <2>5. (4 * n) \div 4 = n
    BY <2>2
  <2> QED BY <2>1, <2>2, <2>4, <2>5
<1>4. PICK c : c = Copy(Image)
  OBVIOUS
<1>5. c.op = "copy" /\ c.at = 0 /\ c.size = 4 * n
  BY <1>3, <1>4, BankCmdsAre, Numbers
<1>6. settings' = settings
  BY <1>1, <1>4, <1>5, SettingsDone_Is DEF FlashOps
<1>7. Source(c) = validated
  BY <1>2, <1>5 DEF Source, Holds
<1>8. \A a \in Addresses :
          flash'[a] = IF a < 0 \/ a >= 0 + n THEN flash[a]
                      ELSE Programmed(flash[a], validated[a - 0 + 1])
  <2>1. flash' = FlashDone(c)
    BY <1>1, <1>4
  <2>2. c.size \div 4 = n
    BY <1>3, <1>5
  <2> QED BY <1>5, <1>7, <2>1, <2>2 DEF FlashDone
<1>9. ASSUME NEW k \in 1 .. n PROVE flash'[BANK_0 + k - 1] = validated[k]
  <2>1. /\ k \in Int /\ k >= 1 /\ k <= n /\ BankWords \in Nat /\ BANK_0 = 0
        /\ n \in Nat /\ n <= BankWords
    BY <1>3, <1>9, Numbers
  <2>2. PICK a : a = BANK_0 + k - 1
    OBVIOUS
  <2>3. a \in 0 .. 2 * BankWords - 1 /\ a < n /\ ~(a < 0 \/ a >= 0 + n) /\ a - 0 + 1 = k
    BY <2>1, <2>2
  <2>4. a \in Addresses
    BY <2>3 DEF Addresses
  <2>5. flash[a] = EMPTY
    BY <1>2, <2>3, <2>4
  <2>6. flash'[a] = Programmed(flash[a], validated[k])
    BY <1>8, <2>3, <2>4
  <2> QED BY <2>2, <2>5, <2>6 DEF Programmed
<1>10. Holds(BANK_0, validated)'
  <2>1. BANK_0 \in Nat
    BY Numbers
  <2>2. \A k \in 1 .. Len(validated) : flash'[BANK_0 + k - 1] = validated[k]
    BY <1>2, <1>9
  <2>3. [k \in 1 .. (4 * Len(validated)) \div 4 |-> flash'[BANK_0 + k - 1]] = validated
    BY <1>3, <2>1, <2>2, ContentIs
  <2> QED BY <1>1, <2>3 DEF Holds, Content
<1> QED BY <1>6, <1>10

(* The page is written last.                                               *)
LEMMA WritesActivated ==
    ASSUME IInv, FlashWrites, Activated
    PROVE  Activated'
<1>1. /\ Todo # <<>> /\ Todo' = Tail(Todo) /\ Stays /\ Accepted' /\ Types
  BY Writes, WritesStays DEF Activated
<1>2. /\ Accepted /\ ram.m_functions = "app" /\ Image = ram.m_image_size
      /\ ram.settings.bank_0 = "BANK_VALID_APP" /\ ram.settings.bank_0_crc = NO_CRC
      /\ ram.settings.bank_1 # "BANK_VALID_BOOT" /\ ram.m_tear_down_in_progress
  BY DEF Activated
<1>3. Image' = Image
  BY <1>1 DEF Stays, Image
<1>4. /\ ram'.m_functions = "app" /\ Image' = ram'.m_image_size
      /\ ram'.settings.bank_0 = "BANK_VALID_APP" /\ ram'.settings.bank_0_crc = NO_CRC
      /\ ram'.settings.bank_1 # "BANK_VALID_BOOT" /\ ram'.m_tear_down_in_progress
  BY <1>1, <1>2, <1>3 DEF Stays
<1>5. CASE /\ ~Marks(settings) /\ Holds(BANK_1, validated)
           /\ Todo = <<Clear(BANK_0, Image), Copy(Image), ClearSettings, StoreSettings>>
  <2>1. Head(Todo) = Clear(BANK_0, Image)
    BY <1>5
  <2>2. Tail(Todo) = <<Copy(Image), ClearSettings, StoreSettings>>
    BY <1>5
  <2>3. /\ settings' = settings /\ Holds(BANK_1, validated)'
        /\ \A a \in Addresses : a < Len(validated) => flash'[a] = EMPTY
    BY <1>2, <1>5, <2>1, WritesClear
  <2>4. (~Marks(settings))'
    BY <1>5, <2>3 DEF Marks
  <2>5. Todo' = <<Copy(Image'), ClearSettings, StoreSettings>>
    BY <1>1, <1>3, <2>2
  <2>6. (\A a \in Addresses : a < Len(validated) => flash[a] = EMPTY)'
    BY <1>1, <2>3 DEF Stays
  <2> QED BY <1>1, <1>4, <2>3, <2>4, <2>5, <2>6 DEF Activated
<1>6. CASE /\ ~Marks(settings) /\ Holds(BANK_1, validated)
           /\ Todo = <<Copy(Image), ClearSettings, StoreSettings>>
           /\ \A a \in Addresses : a < Len(validated) => flash[a] = EMPTY
  <2>1. Head(Todo) = Copy(Image)
    BY <1>6
  <2>2. Tail(Todo) = <<ClearSettings, StoreSettings>>
    BY <1>6
  <2>3. settings' = settings /\ Holds(BANK_0, validated)'
    BY <1>2, <1>6, <2>1, WritesCopy
  <2>4. (~Marks(settings))'
    BY <1>6, <2>3 DEF Marks
  <2>5. Copied'
    BY <1>1, <2>2, <2>3, <2>4 DEF Copied
  <2> QED BY <1>1, <1>4, <2>5 DEF Activated
<1>7. CASE Copied /\ Todo = <<ClearSettings, StoreSettings>>
  <2>1. Head(Todo) = ClearSettings /\ Tail(Todo) = <<StoreSettings>>
    BY <1>7
  <2>2. flash' = flash /\ settings' = ErasedPage
    BY <2>1, WritesSettings DEF SettingsCmds
  <2>3. (~Marks(settings))'
    BY <2>2, PlainPages DEF Marks
  <2>4. Holds(BANK_0, validated)'
    BY <1>1, <1>7, <2>2, HoldsKept DEF Copied, Stays
  <2>5. Copied'
    BY <1>1, <2>1, <2>3, <2>4 DEF Copied
  <2> QED BY <1>1, <1>4, <2>5 DEF Activated
<1>8. CASE Copied /\ Todo = <<StoreSettings>>
  <2>1. Head(Todo) = StoreSettings /\ Tail(Todo) = <<>>
    BY <1>8
  <2>2. flash' = flash /\ settings' \in {ErasedPage, BadPage, ram.settings}
    BY <2>1, WritesSettings DEF SettingsCmds
  <2>3. Holds(BANK_0, validated)' /\ Holds(BANK_0, validated)
    BY <1>1, <1>8, <2>2, HoldsKept DEF Copied, Stays
  <2>4. PICK page : page = settings'
    OBVIOUS
  <2>5. Whole(page)
    <3>1. Whole(ram.settings)
      BY <1>2, <2>3 DEF Whole
    <3> QED BY <2>2, <2>4, <3>1, PlainPages, UnmarkedWhole
  <2>6. \A a : Holds(a, validated)' <=> Holds(a, validated)
    BY <1>1, <2>2, HoldsKept DEF Stays
  <2>7. Whole(settings)'
    BY <1>1, <2>4, <2>5, <2>6 DEF Whole, Stays
  <2> QED BY <1>1, <1>4, <2>1, <2>3, <2>7 DEF Activated
<1> QED BY <1>1, <1>5, <1>6, <1>7, <1>8 DEF Activated, Copied

(* See above.                                                              *)
LEMMA FlashWrites_IInv ==
    ASSUME IInv, FlashWrites
    PROVE  IInv'
<1>1. /\ Types /\ Types' /\ ~ram'.assert /\ Todo # <<>> /\ Todo = ram.cmds
      /\ pc \in {"dfu", "finalize"} /\ UNCHANGED <<sd, bl, gpregret, pc, validated>>
  BY Writes
<1>2. CASE pc = "finalize"
  BY <1>2, FinalWrites
<1>3. CASE pc = "dfu"
  <2>1. Updating /\ Steady
    BY <1>3 DEF IInv
  <2>2. Stays
    BY WritesStays
  <2>3. ram'.m_tear_down_in_progress => ram'.conn \in {"disconnecting", "off"}
    BY <2>1, <2>2 DEF Updating, Stays
  <2>4. ram'.m_dfu_state = ram.m_dfu_state
    BY <2>2 DEF Stays
  <2>5. Unmarked => Unmarked'
    BY WritesUnmarked
  <2>6. ~Idle
    BY <1>1 DEF Idle
  <2>7. (Preparing => Preparing') /\ (Ready => Ready') /\ (Receiving => Receiving')
    BY ErasesBank, WritesReady, WritesReceiving
  <2>8. Checked => Checked'
    BY WritesChecked
  <2>9. Refused => Refused'
    BY <2>2, WritesStays DEF Refused, Stays
  <2>10. (Activated => Activated') /\ (Saved => Saved')
    BY WritesActivated, WritesSaved
  <2>11. Updating'
    BY <2>1, <2>3, <2>4, <2>5, <2>6, <2>7, <2>8, <2>9, <2>10 DEF Updating
  <2>12. Steady'
    BY <1>1, <2>1, UpdateSteady
  <2> QED BY <1>1, <1>3, <2>11, <2>12 DEF IInv
<1> QED BY <1>1, <1>2, <1>3

-----------------------------------------------------------------------------
(* Main hears of a command that is done.                                   *)

(* The page that the callback saves before it goes on.                     *)
ErasedMark(page) ==
    [page EXCEPT !.bank_0_crc = NO_CRC, !.bank_0_size = 0,
                 !.bank_0 = "BANK_INVALID_APP", !.bank_1 = settings.bank_1]

(* See above.                                                              *)
LEMMA ErasedMark_Is ==
    ASSUME NEW page, IsPage(page), ~Marks(settings)
    PROVE  IsPage(ErasedMark(page)) /\ ~Marks(ErasedMark(page))
<1>1. PICK m : m = ErasedMark(page)
  OBVIOUS
<1>2. IsPage(m) /\ m.bank_0 = "BANK_INVALID_APP" /\ m.bank_1 = settings.bank_1
  BY <1>1 DEF ErasedMark, IsPage
<1> QED BY <1>1, <1>2 DEF Marks, Valid

(* Bank 0 is erased for a SoftDevice, bank 1 for the rest.                 *)
Erases(q) == IF q.m_functions = "sd" THEN Save(q, ErasedMark(q.settings)) ELSE q

(* See above.                                                              *)
LEMMA Erases_Is ==
    ASSUME NEW q, IsRam(q), ~Marks(settings), ~Marks(q.settings), OnlySettings(Left(q)),
           NEW err, NEW r,
           r = Respond([Erases(q) EXCEPT !.m_dfu_state = "RDY"], "START", err)
    PROVE  /\ IsRam(r) /\ r.m_dfu_state = "RDY" /\ ~Marks(r.settings)
           /\ Alike(r, q, {"cmds", "assert", "settings", "m_dfu_state", "resp"})
           /\ OnlySettings(Left(r)) /\ Left(r) \in Seq(Cmds)
           /\ q.m_functions # "sd" => Left(r) = Left(q)
<1>1. PICK t : t = Erases(q)
  OBVIOUS
<1>2. IsPage(q.settings) /\ Left(q) \in Seq(Cmds)
  BY DEF IsRam, Left
<1>3. /\ IsRam(t) /\ ~Marks(t.settings) /\ Alike(t, q, {"cmds", "assert", "settings"})
      /\ OnlySettings(Left(t)) /\ Left(t) \in Seq(Cmds)
      /\ q.m_functions # "sd" => Left(t) = Left(q)
  <2>1. CASE q.m_functions = "sd"
    <3>1. PICK page : page = ErasedMark(q.settings)
      OBVIOUS
    <3>2. IsPage(page) /\ ~Marks(page)
      BY <1>2, <3>1, ErasedMark_Is
    <3>3. t = Save(q, page)
      BY <1>1, <2>1, <3>1 DEF Erases
    <3>4. IsRam(t) /\ t.settings = page /\ Alike(t, q, {"cmds", "assert", "settings"})
      BY <3>2, <3>3, Save_Is
    <3> QED BY <2>1, <3>2, <3>3, <3>4, SaveOnly
  <2>2. CASE q.m_functions # "sd"
    BY <1>1, <1>2, <2>2 DEF Erases, Alike, IsRam
  <2> QED BY <2>1, <2>2
<1>4. PICK u : u = [t EXCEPT !.m_dfu_state = "RDY"]
  OBVIOUS
<1>5. IsRam(u) /\ Alike(u, t, {"m_dfu_state"}) /\ u.m_dfu_state = "RDY"
  BY <1>3, <1>4 DEF IsRam, Alike, Fields
<1>6. IsRam(r) /\ Alike(r, u, {"resp", "assert"})
  BY <1>1, <1>4, <1>5, Respond_Is
<1>7. Left(r) = Left(t) /\ r.settings = t.settings /\ r.m_dfu_state = "RDY"
  BY <1>5, <1>6 DEF Left, Alike, Fields
<1>8. Alike(r, q, {"cmds", "assert", "settings", "m_dfu_state", "resp"})
  BY <1>3, <1>5, <1>6 DEF Alike, Fields
<1> QED BY <1>3, <1>6, <1>7, <1>8

(* A callback that only says how it went.                                  *)
LEMMA CallbackMinor ==
    ASSUME NEW q, IsRam(q), NEW c, NEW ok \in BOOLEAN,
           ~(c.op = "clear" /\ q.m_dfu_state = "PREPARING")
    PROVE  /\ IsRam(Callback(q, c, ok))
           /\ Alike(Callback(q, c, ok), q, Minor \ {"m_tear_down_in_progress"})
           /\ ok => Callback(q, c, ok).conn = q.conn
<1>1. PICK r : r = Callback(q, c, ok)
  OBVIOUS
<1>2. CASE c.op \in {"store", "copy"} /\ q.m_dfu_state = "RX_DATA_PKT" /\ ok
  <2>1. PICK p : p = Consumed(q.pool, c.buffer)
    OBVIOUS
  <2>2. IsPool(p)
    BY <2>1, PoolIs DEF IsRam
  <2>3. PICK t : t = [q EXCEPT !.pool = p]
    OBVIOUS
  <2>4. IsRam(t) /\ Alike(t, q, {"pool"})
    BY <2>2, <2>3 DEF IsRam, Alike, Fields
  <2>5. r = IF IsFinal(t, c.buffer) THEN Respond(t, "RECEIVE_APP", "SUCCESS") ELSE t
    BY <1>1, <1>2, <2>1, <2>3 DEF Callback, DataPacketCb
  <2>6. IsRam(r) /\ Alike(r, t, {"resp", "assert"})
    BY <2>4, <2>5, Respond_Is DEF Alike
  <2>7. Alike(r, q, {"pool", "resp", "assert"})
    BY <2>4, <2>6 DEF Alike
  <2>8. Alike(r, q, Minor \ {"m_tear_down_in_progress"}) /\ r.conn = q.conn
    BY <2>7 DEF Alike, Minor, Fields
  <2> QED BY <1>1, <2>6, <2>8
<1>3. CASE c.op \in {"store", "copy"} /\ q.m_dfu_state = "RX_DATA_PKT" /\ ~ok
  <2>1. r = [q EXCEPT !.conn = IF @ = "connected" THEN "disconnecting" ELSE @]
    BY <1>1, <1>3 DEF Callback, DataPacketCb
  <2>2. IsRam(r) /\ Alike(r, q, {"conn"})
    BY <2>1 DEF IsRam, Alike, Fields
  <2>3. Alike(r, q, Minor \ {"m_tear_down_in_progress"})
    BY <2>2 DEF Alike, Minor
  <2> QED BY <1>1, <1>3, <2>2, <2>3
<1>4. CASE ~(c.op \in {"store", "copy"} /\ q.m_dfu_state = "RX_DATA_PKT")
  <2>1. r = IF c.op = "store_settings" /\ q.m_update_status = "SETTINGS_SAVING"
            THEN [q EXCEPT !.m_update_status = "COMPLETE"] ELSE q
    BY <1>1, <1>4 DEF Callback
  <2>2. IsRam(r) /\ Alike(r, q, {"m_update_status"})
    BY <2>1 DEF IsRam, Alike, Fields
  <2>3. Alike(r, q, Minor \ {"m_tear_down_in_progress"}) /\ r.conn = q.conn
    BY <2>2 DEF Alike, Minor, Fields
  <2> QED BY <1>1, <2>2, <2>3
<1> QED BY <1>2, <1>3, <1>4

(* In the end of a swap.                                                   *)
LEMMA FinalEvent ==
    ASSUME IInv, FlashEvent, pc = "finalize"
    PROVE  IInv'
<1>1. PICK q : q = Popped
  OBVIOUS
<1>2. PICK r : r = Callback(q, Head(ram.cmds), TRUE)
  OBVIOUS
<1>3. /\ ram.cmds # <<>> /\ ram.done /\ Handled(r)
      /\ UNCHANGED <<flash, settings, sd, bl, gpregret, validated>>
  BY <1>1, <1>2 DEF FlashEvent, persistent
<1>4. /\ Types /\ Steady /\ Finalizing /\ ~ram.assert /\ IsRam(ram)
  BY DEF IInv, Types
<1>5. /\ IsRam(q) /\ Alike(q, ram, {"resp", "cmds", "done"})
      /\ q.cmds = Tail(ram.cmds) /\ q.done = FALSE
  BY <1>1, <1>3, <1>4, Popped_Is
<1>6. /\ ~Marks(settings) /\ ~Marks(ram.settings) /\ ram.m_update_status # "COMPLETE"
      /\ \/ ram.cmds = <<ClearSettings, StoreSettings>>
         \/ ram.cmds = <<StoreSettings>>
  BY <1>3, <1>4 DEF Finalizing
<1>7. /\ q.m_dfu_state = "INIT_ERROR" /\ q.m_data_received = 0 /\ ~q.m_tear_down_in_progress
      /\ q.settings = ram.settings /\ ~q.assert /\ q.m_update_status = ram.m_update_status
  BY <1>4, <1>5 DEF Finalizing, Alike, Fields
<1>8. r = IF Head(ram.cmds).op = "store_settings" /\ q.m_update_status = "SETTINGS_SAVING"
          THEN [q EXCEPT !.m_update_status = "COMPLETE"] ELSE q
  BY <1>2, <1>7 DEF Callback
<1>9. /\ IsRam(r) /\ Alike(r, q, {"m_update_status"})
      /\ r.m_update_status = "COMPLETE" => Head(ram.cmds).op = "store_settings"
  BY <1>5, <1>6, <1>7, <1>8 DEF IsRam, Alike, Fields
<1>10. /\ r.m_dfu_state = "INIT_ERROR" /\ r.m_data_received = 0 /\ ~r.m_tear_down_in_progress
       /\ r.settings = ram.settings /\ ~r.assert /\ r.cmds = Tail(ram.cmds) /\ r.done = FALSE
  BY <1>5, <1>7, <1>9 DEF Alike, Fields
<1>11. ram' = r /\ pc' = pc
  BY <1>3, <1>10 DEF Handled
<1>12. Types'
  BY <1>3, <1>4, <1>9, <1>11 DEF Types, IsRam, IsPage, IsPool
<1>13. (~Marks(settings))' /\ (~Marks(ram.settings))'
  BY <1>3, <1>6, <1>10, <1>11 DEF Marks
<1>14. Whole(settings)'
  BY <1>13 DEF Whole, Marks, Valid
<1>15. \/ Tail(ram.cmds) = <<StoreSettings>> /\ Head(ram.cmds) = ClearSettings
       \/ Tail(ram.cmds) = <<>>
  <2>1. CASE ram.cmds = <<ClearSettings, StoreSettings>>
    BY <2>1
  <2>2. CASE ram.cmds = <<StoreSettings>>
    BY <2>2
  <2> QED BY <1>6, <2>1, <2>2
<1>16. r.m_update_status = "COMPLETE" => Tail(ram.cmds) = <<>>
  BY <1>9, <1>15, SettingsCmdsAre
<1>17. Finalizing'
  BY <1>10, <1>11, <1>13, <1>14, <1>15, <1>16 DEF Finalizing
<1>18. Steady'
  BY <1>3, <1>4, <1>11, UpdateSteady
<1> QED BY <1>10, <1>11, <1>12, <1>17, <1>18 DEF IInv

(* In an update: the bank is erased.                                       *)
LEMMA PreparedEvent ==
    ASSUME IInv, FlashEvent, pc = "dfu", ram.m_dfu_state = "PREPARING"
    PROVE  IInv'
<1>1. PICK q : q = Popped
  OBVIOUS
<1>2. PICK r : r = Callback(q, Head(ram.cmds), TRUE)
  OBVIOUS
<1>3. /\ ram.cmds # <<>> /\ ram.done /\ Handled(r)
      /\ UNCHANGED <<flash, settings, sd, bl, gpregret, validated>>
  BY <1>1, <1>2 DEF FlashEvent, persistent
<1>4. /\ Types /\ Updating /\ IsRam(ram)
  BY DEF IInv, Types
<1>5. Unmarked /\ Preparing
  BY <1>4 DEF Updating
<1>6. /\ IsRam(q) /\ Alike(q, ram, {"resp", "cmds", "done"})
      /\ q.cmds = Tail(ram.cmds) /\ q.done = FALSE
  BY <1>1, <1>3, <1>4, Popped_Is
<1>7. Tail(ram.cmds) = <<>> /\ Head(ram.cmds).op = "clear"
  <2>1. PICK c : c = IF ram.m_functions = "sd" THEN Clear(BANK_0, ram.m_image_size)
                     ELSE Clear(BANK_1, DFU_IMAGE_MAX_SIZE_BANKED)
    OBVIOUS
  <2>2. c.op = "clear"
    BY <2>1, CommandFields DEF Clear
  <2>3. ram.cmds = <<c>>
    BY <1>5, <2>1 DEF Preparing
  <2> QED BY <2>2, <2>3
<1>8. /\ q.m_dfu_state = "PREPARING" /\ q.settings = ram.settings
      /\ q.m_functions = ram.m_functions /\ ~Marks(settings) /\ ~Marks(q.settings)
  BY <1>5, <1>6 DEF Unmarked, Alike, Fields
<1>9. Left(q) = <<>> /\ OnlySettings(Left(q))
  BY <1>6, <1>7 DEF Left, OnlySettings
<1>10. r = Respond([Erases(q) EXCEPT !.m_dfu_state = "RDY"], "START", "SUCCESS")
  BY <1>2, <1>7, <1>8 DEF Callback, Erases, Bank0Erased, ErasedMark
<1>11. /\ IsRam(r) /\ r.m_dfu_state = "RDY" /\ ~Marks(r.settings)
       /\ Alike(r, q, {"cmds", "assert", "settings", "m_dfu_state", "resp"})
       /\ OnlySettings(Left(r)) /\ Left(r) \in Seq(Cmds)
       /\ q.m_functions # "sd" => Left(r) = <<>>
  BY <1>6, <1>8, <1>9, <1>10, Erases_Is
<1>12. Safe(Left(r), r.settings)
  BY <1>11, UnmarkedWhole, OnlySafe
<1>13. ASSUME ram' = r PROVE Updating'
  <2>1. /\ ram'.m_start_packet = ram.m_start_packet
        /\ ram'.m_image_size = ram.m_image_size /\ ram'.m_functions = ram.m_functions
        /\ ram'.active = ram.active /\ ram'.m_data_received = ram.m_data_received
        /\ ram'.m_tear_down_in_progress = ram.m_tear_down_in_progress /\ ram'.conn = ram.conn
    BY <1>6, <1>11, <1>13 DEF Alike, Fields
  <2>2. Accepted' /\ Erased'
    BY <1>3, <1>5, <2>1 DEF Preparing, Accepted, Erased, NextAt, End
  <2>3. OnlySettings(Todo)' /\ (ram.m_functions # "sd" => Todo = <<>>)'
    BY <1>8, <1>11, <1>13, <2>1 DEF OnlySettings, Todo, Left
  <2>4. Ready'
    BY <1>5, <2>1, <2>2, <2>3 DEF Ready, Preparing
  <2>5. Unmarked'
    BY <1>3, <1>8, <1>11, <1>13 DEF Unmarked, Marks
  <2> QED BY <1>4, <1>11, <1>13, <2>1, <2>4, <2>5 DEF Updating
<1> QED BY <1>3, <1>11, <1>12, <1>13, MovesInRam

(* See above.                                                              *)
LEMMA FlashEvent_IInv ==
    ASSUME IInv, FlashEvent
    PROVE  IInv'
<1>1. PICK q : q = Popped
  OBVIOUS
<1>2. PICK r : r = Callback(q, Head(ram.cmds), TRUE)
  OBVIOUS
<1>3. /\ ram.cmds # <<>> /\ ram.done /\ Handled(r) /\ pc \in {"dfu", "finalize"}
      /\ UNCHANGED <<flash, settings, sd, bl, gpregret, validated>>
  BY <1>1, <1>2 DEF FlashEvent, persistent
<1>4. CASE pc = "finalize"
  BY <1>4, FinalEvent
<1>5. CASE pc = "dfu" /\ ram.m_dfu_state = "PREPARING"
  BY <1>5, PreparedEvent
<1>6. CASE pc = "dfu" /\ ram.m_dfu_state # "PREPARING"
  <2>1. /\ Types /\ Updating /\ IsRam(ram) /\ Similar(ram)
    BY <1>6, SimilarQuiet DEF IInv, Types
  <2>2. /\ IsRam(q) /\ Alike(q, ram, {"resp", "cmds", "done"})
        /\ q.cmds = Tail(ram.cmds) /\ q.done = FALSE
    BY <1>1, <1>3, <2>1, Popped_Is
  <2>3. ram.m_dfu_state # "IDLE"
    BY <1>3, <2>1 DEF Updating, Idle, Activated, Saved
  <2>4. q.m_dfu_state = ram.m_dfu_state /\ Left(q) = Todo
    BY <1>3, <2>2 DEF Left, Todo, Alike, Fields
  <2>5. /\ IsRam(r) /\ Alike(r, q, Minor \ {"m_tear_down_in_progress"}) /\ r.conn = q.conn
    BY <1>2, <1>6, <2>2, <2>4, CallbackMinor
  <2>6. /\ r.m_tear_down_in_progress = ram.m_tear_down_in_progress /\ r.conn = ram.conn
        /\ r.cmds = q.cmds /\ r.done = q.done
    BY <2>2, <2>5 DEF Alike, Fields, Minor
  <2>7. \A f \in Fields \ (Minor \cup {"cmds", "done"}) : r[f] = ram[f]
    BY <2>2, <2>5 DEF Alike, Minor
  <2>8. Tears(r)
    BY <2>1, <2>6 DEF Similar, Tears
  <2>9. Left(r) = Todo
    BY <2>4, <2>6 DEF Left
  <2>10. Similar(r)
    BY <1>6, <2>3, <2>5, <2>7, <2>8, <2>9 DEF Similar
  <2> QED BY <1>3, <1>6, <2>10, Same
<1> QED BY <1>3, <1>4, <1>5, <1>6

-----------------------------------------------------------------------------
(* The flash fails, or is cut off.                                         *)

(* A command is done in part: what the page says is still there.           *)
LEMMA CutsOff ==
    ASSUME IInv, InProgress, pc \in {"dfu", "finalize", "reset"},
           NEW c, c = Head(ram.cmds), flash' \in Torn(flash, FlashDone(c)),
           settings' \in {settings, SettingsDone(c), BadPage}, validated' = validated
    PROVE  /\ flash' = [a \in Addresses |-> flash'[a]] /\ IsPage(settings)' /\ Whole(settings)'
           /\ (validated \in Seq(Contents) \ {<<>>})'
           /\ c.op \in FlashOps => settings' \in {settings, BadPage} /\ ~Marks(settings)
           /\ c.op \notin FlashOps => c \in SettingsCmds /\ flash' = flash
<1>1. Types /\ Whole(settings) /\ Stoppable(ram) /\ ram.cmds # <<>> /\ ~ram.done
  BY UpdateStoppable DEF IInv, InProgress
<1>2. ram.cmds \in Seq(Cmds)
  BY <1>1 DEF Types, IsRam
<1>3. c \in Cmds
  BY <1>1, <1>2
<1>4. flash' = [a \in Addresses |-> flash'[a]]
  BY <1>1, DoneWords, TornWords DEF Types
<1>5. settings' \in {settings, ErasedPage, BadPage, ram.settings}
  BY SettingsDone_Is
<1>6. IsPage(settings)'
  <2>1. \A page \in {settings, ErasedPage, BadPage, ram.settings} : IsPage(page)
    BY <1>1, PlainPages DEF Types, IsRam
  <2> QED BY <1>5, <2>1 DEF IsPage
<1>7. CASE c.op \in FlashOps
  <2>1. ~Marks(settings)
    BY <1>1, <1>7 DEF Stoppable
  <2>2. settings' \in {settings, BadPage}
    BY <1>7, SettingsDone_Is
  <2>3. (~Marks(settings))'
    BY <2>1, <2>2, PlainPages DEF Marks
  <2>4. Whole(settings)'
    BY <2>3 DEF Whole, Marks, Valid
  <2> QED BY <1>1, <1>4, <1>6, <1>7, <2>1, <2>2, <2>4 DEF Types
<1>8. CASE c.op \notin FlashOps
  <2>1. c \in SettingsCmds
    BY <1>3, <1>8 DEF Cmds
  <2>2. flash' = flash
    BY <1>1, <2>1, SettingsOnly
  <2>3. PICK page : page = settings'
    OBVIOUS
  <2>4. Whole(page)
    <3>1. CASE c = ClearSettings
      <4>1. page \in {settings, ErasedPage, BadPage}
        BY <2>3, <3>1, SettingsCmdsAre DEF SettingsDone
      <4> QED BY <1>1, <4>1, PlainPages, UnmarkedWhole
    <3>2. CASE c = StoreSettings
      <4>1. Whole(ram.settings)
        BY <1>1, <3>2 DEF Stoppable
      <4> QED BY <1>1, <1>5, <2>3, <4>1, PlainPages, UnmarkedWhole
    <3> QED BY <2>1, <3>1, <3>2 DEF SettingsCmds
  <2>5. Whole(settings)'
    <3>1. \A a : Holds(a, validated)' <=> Holds(a, validated)
      BY <2>2, HoldsKept
    <3> QED BY <2>3, <2>4, <3>1 DEF Whole
  <2> QED BY <1>1, <1>4, <1>6, <1>8, <2>1, <2>2, <2>5 DEF Types
<1> QED BY <1>7, <1>8

(* What comes first, and what after it.                                    *)
LEMMA Firsts ==
    ASSUME NEW a, NEW b, NEW c, NEW d
    PROVE  /\ Head(<<a, b, c, d>>) = a /\ Tail(<<a, b, c, d>>) = <<b, c, d>>
           /\ Head(<<a, b, c>>) = a /\ Tail(<<a, b, c>>) = <<b, c>>
           /\ Head(<<a, b>>) = a /\ Tail(<<a, b>>) = <<b>>
           /\ Head(<<a>>) = a /\ Tail(<<a>>) = <<>>
OBVIOUS

(* An activation that fails stops with the rest of it to do.               *)
LEMMA ActivatedFails ==
    ASSUME IInv, InProgress, pc = "dfu", Activated,
           NEW c, c = Head(ram.cmds), flash' \in Torn(flash, FlashDone(c)),
           settings' \in {settings, SettingsDone(c)}, validated' = validated
    PROVE  LET s == Tail(ram.cmds) IN
           s # <<>> => /\ Head(s).op \in FlashOps => (~Marks(settings))'
                       /\ Head(s) = StoreSettings => Holds(BANK_0, validated)'
<1>1. Todo = ram.cmds /\ ram.cmds # <<>>
  BY DEF InProgress, Todo
<1>2. \A n : Clear(BANK_0, n).op = "clear" /\ Copy(n).op = "copy"
  BY CommandFields DEF Clear, Copy
<1>3. settings' \in {settings, SettingsDone(c), BadPage}
  OBVIOUS
<1>4. /\ c.op \in FlashOps => settings' \in {settings, BadPage} /\ ~Marks(settings)
      /\ c.op \notin FlashOps => c \in SettingsCmds /\ flash' = flash
  BY <1>3, CutsOff
<1>5. CASE Todo = <<Clear(BANK_0, Image), Copy(Image), ClearSettings, StoreSettings>>
  <2>1. c = Clear(BANK_0, Image) /\ Tail(ram.cmds) = <<Copy(Image), ClearSettings, StoreSettings>>
    <3>1. ram.cmds = <<Clear(BANK_0, Image), Copy(Image), ClearSettings, StoreSettings>>
      BY <1>1, <1>5
    <3>2. /\ Head(<<Clear(BANK_0, Image), Copy(Image), ClearSettings, StoreSettings>>)
                = Clear(BANK_0, Image)
          /\ Tail(<<Clear(BANK_0, Image), Copy(Image), ClearSettings, StoreSettings>>)
                = <<Copy(Image), ClearSettings, StoreSettings>>
      BY Firsts
    <3> QED BY <3>1, <3>2
  <2>2. Head(Tail(ram.cmds)) = Copy(Image)
    <3>1. Head(<<Copy(Image), ClearSettings, StoreSettings>>) = Copy(Image)
      BY Firsts
    <3> QED BY <2>1, <3>1
  <2>3. Copy(Image) # StoreSettings /\ c.op \in FlashOps
    BY <1>2, <2>1, SettingsCmdsAre DEF FlashOps
  <2>4. (~Marks(settings))'
    BY <1>4, <2>3, PlainPages DEF Marks
  <2> QED BY <2>2, <2>3, <2>4
<1>6. CASE Todo = <<Copy(Image), ClearSettings, StoreSettings>>
  <2>1. Tail(ram.cmds) = <<ClearSettings, StoreSettings>>
    BY <1>1, <1>6, Firsts
  <2>2. Head(Tail(ram.cmds)) = ClearSettings
    BY <2>1, Firsts
  <2> QED BY <2>2, SettingsCmdsAre
<1>7. CASE Copied /\ Todo = <<ClearSettings, StoreSettings>>
  <2>1. c = ClearSettings /\ Tail(ram.cmds) = <<StoreSettings>>
    BY <1>1, <1>7, Firsts
  <2>2. Head(Tail(ram.cmds)) = StoreSettings
    BY <2>1, Firsts
  <2>3. flash' = flash
    BY <1>4, <2>1, SettingsCmdsAre
  <2>4. Holds(BANK_0, validated)'
    BY <1>7, <2>3, HoldsKept DEF Copied
  <2> QED BY <2>2, <2>4, SettingsCmdsAre
<1>8. CASE Todo = <<StoreSettings>>
  BY <1>1, <1>8
<1> QED BY <1>1, <1>5, <1>6, <1>7, <1>8 DEF Activated, Copied

(* What main leaves when the first command fails.                          *)
LEMMA FailedCallback ==
    ASSUME IInv, InProgress, pc \in {"dfu", "finalize"}, NEW c, c = Head(ram.cmds),
           NEW r, r = Assert(Callback(Popped, c, FALSE))
    PROVE  /\ IsPage(r.settings) /\ r.cmds \in Seq(Cmds) /\ r.assert /\ r.done = FALSE
           /\ Unmarked => ~Marks(r.settings)
           /\ ram.m_dfu_state # "PREPARING" =>
                 r.cmds = Tail(ram.cmds) /\ r.settings = ram.settings
<1>1. PICK q : q = Popped
  OBVIOUS
<1>2. PICK t : t = Callback(q, c, FALSE)
  OBVIOUS
<1>3. r = [t EXCEPT !.assert = TRUE]
  BY <1>1, <1>2 DEF Assert
<1>4. ram.cmds # <<>> /\ ~ram.done /\ IsRam(ram) /\ Types
  BY DEF InProgress, IInv, Types
<1>5. /\ IsRam(q) /\ Alike(q, ram, {"resp", "cmds", "done"})
      /\ q.cmds = Tail(ram.cmds) /\ q.done = FALSE
  BY <1>1, <1>4, Popped_Is
<1>6. q.m_dfu_state = ram.m_dfu_state /\ q.settings = ram.settings
      /\ q.m_functions = ram.m_functions
  BY <1>5 DEF Alike, Fields
<1>7. CASE ~(c.op = "clear" /\ q.m_dfu_state = "PREPARING")
  <2>1. IsRam(t) /\ Alike(t, q, Minor \ {"m_tear_down_in_progress"})
    BY <1>2, <1>5, <1>7, CallbackMinor
  <2>2. t.cmds = q.cmds /\ t.done = q.done /\ t.settings = q.settings
    BY <2>1 DEF Alike, Fields, Minor
  <2>3. /\ r.cmds = q.cmds /\ r.done = q.done /\ r.settings = q.settings
        /\ r.assert = TRUE
    BY <1>3, <2>1, <2>2 DEF IsRam, Fields
  <2> QED BY <1>5, <1>6, <2>3 DEF IsRam, Unmarked
<1>8. CASE c.op = "clear" /\ q.m_dfu_state = "PREPARING"
  <2>1. pc = "dfu"
    BY <1>6, <1>8 DEF IInv, Finalizing
  <2>2. Unmarked /\ Preparing
    BY <1>6, <1>8, <2>1 DEF IInv, Updating
  <2>3. Tail(ram.cmds) = <<>>
    BY <2>2 DEF Preparing
  <2>4. ~Marks(settings) /\ ~Marks(q.settings) /\ OnlySettings(Left(q))
    BY <1>5, <1>6, <2>2, <2>3 DEF Unmarked, Left, OnlySettings
  <2>5. t = Respond([Erases(q) EXCEPT !.m_dfu_state = "RDY"], "START", "INTERNAL")
    BY <1>2, <1>8 DEF Callback, Erases, Bank0Erased, ErasedMark
  <2>6. /\ IsRam(t) /\ ~Marks(t.settings)
        /\ Alike(t, q, {"cmds", "assert", "settings", "m_dfu_state", "resp"})
    BY <1>5, <2>4, <2>5, Erases_Is
  <2>7. /\ r.cmds = t.cmds /\ r.done = q.done /\ r.settings = t.settings /\ r.assert = TRUE
    BY <1>3, <2>6 DEF IsRam, Alike, Fields
  <2> QED BY <1>5, <1>6, <1>8, <2>6, <2>7 DEF IsRam
<1> QED BY <1>7, <1>8

(* See above.                                                              *)
LEMMA FlashError_IInv ==
    ASSUME IInv, FlashError
    PROVE  IInv'
<1>1. PICK c : c = Head(ram.cmds)
  OBVIOUS
<1>2. PICK r : r = Assert(Callback(Popped, c, FALSE))
  OBVIOUS
<1>3. /\ InProgress /\ pc \in {"dfu", "finalize"} /\ Handled(r)
      /\ flash' \in Torn(flash, FlashDone(c)) /\ settings' \in {settings, SettingsDone(c)}
      /\ UNCHANGED <<sd, bl, gpregret, validated>>
  BY <1>1, <1>2 DEF FlashError
<1>4. Types /\ Steady /\ ram.cmds # <<>> /\ ~ram.done
  BY <1>3 DEF IInv, InProgress
<1>5. /\ IsPage(r.settings) /\ r.cmds \in Seq(Cmds) /\ r.assert /\ r.done = FALSE
      /\ Unmarked => ~Marks(r.settings)
      /\ ram.m_dfu_state # "PREPARING" =>
            r.cmds = Tail(ram.cmds) /\ r.settings = ram.settings
  BY <1>1, <1>2, <1>3, FailedCallback
<1>6. ram' = Stopped(r) /\ pc' = "reset"
  BY <1>3, <1>5 DEF Handled
<1>7. settings' \in {settings, SettingsDone(c), BadPage}
  BY <1>3
<1>8. /\ flash' = [a \in Addresses |-> flash'[a]] /\ IsPage(settings)' /\ Whole(settings)'
      /\ (validated \in Seq(Contents) \ {<<>>})'
      /\ c.op \notin FlashOps => c \in SettingsCmds /\ flash' = flash
  BY <1>1, <1>3, <1>7, CutsOff
<1>9. settings' \in {settings, ErasedPage, BadPage, ram.settings}
  BY <1>3, SettingsDone_Is
<1>10. Stoppable(r)'
  <2>1. CASE Unmarked
    <3>1. (~Marks(settings))'
      BY <1>9, <2>1, PlainPages DEF Unmarked, Marks
    <3> QED BY <1>5, <2>1, <3>1 DEF Stoppable, Whole, Marks, Valid
  <2>2. CASE pc = "finalize"
    <3>1. /\ ram.m_dfu_state = "INIT_ERROR" /\ ~Marks(ram.settings)
          /\ \/ ram.cmds = <<ClearSettings, StoreSettings>>
             \/ ram.cmds = <<StoreSettings>>
      BY <1>4, <2>2 DEF IInv, Finalizing
    <3>2. Tail(ram.cmds) = <<>> \/ Tail(ram.cmds) = <<StoreSettings>>
      <4>1. CASE ram.cmds = <<ClearSettings, StoreSettings>>
        BY <4>1, Firsts
      <4>2. CASE ram.cmds = <<StoreSettings>>
        BY <4>2, Firsts
      <4> QED BY <3>1, <4>1, <4>2
    <3>3. r.cmds = <<>> \/ Head(r.cmds) = StoreSettings
      <4>1. r.cmds = Tail(ram.cmds)
        BY <1>5, <3>1
      <4>2. Head(<<StoreSettings>>) = StoreSettings
        BY Firsts
      <4> QED BY <3>2, <4>1, <4>2
    <3>4. Whole(r.settings)'
      BY <1>5, <3>1 DEF Whole, Marks, Valid
    <3> QED BY <3>3, <3>4, SettingsCmdsAre DEF Stoppable
  <2>3. CASE pc = "dfu" /\ ~Unmarked
    <3>1. ram.m_dfu_state = "WAIT_4_ACTIVATE" /\ (Activated \/ Saved)
      BY <2>3 DEF IInv, Updating
    <3>2. r.cmds = Tail(ram.cmds) /\ r.settings = ram.settings
      BY <1>5, <3>1
    <3>3. CASE Activated
      <4>1. PICK s : s = Tail(ram.cmds)
        OBVIOUS
      <4>2. s # <<>> => /\ Head(s).op \in FlashOps => (~Marks(settings))'
                        /\ Head(s) = StoreSettings => Holds(BANK_0, validated)'
        BY <1>1, <1>3, <2>3, <3>3, <4>1, ActivatedFails
      <4>3. Holds(BANK_0, validated)' => Whole(r.settings)'
        BY <3>2, <3>3 DEF Activated, Whole
      <4> QED BY <3>2, <4>1, <4>2, <4>3 DEF Stoppable
    <3>4. CASE Saved
      <4>1. Todo = ram.cmds /\ ram.cmds \in Seq(Cmds)
        BY <1>4 DEF Todo, Types, IsRam
      <4>2. c \in SettingsCmds /\ OnlySettings(Tail(ram.cmds))
        BY <1>1, <1>4, <3>4, <4>1, OnlyTail DEF Saved
      <4>3. flash' = flash
        BY <1>8, <4>2, SettingsCmdsAre DEF SettingsCmds
      <4>4. Whole(r.settings)'
        <5>1. \A a : Holds(a, validated)' <=> Holds(a, validated)
          BY <1>3, <4>3, HoldsKept
        <5> QED BY <1>3, <3>2, <3>4, <5>1 DEF Saved, Whole
      <4>5. r.cmds # <<>> => Head(r.cmds) \in SettingsCmds
        BY <1>5, <3>2, <4>2, OnlyTail
      <4> QED BY <4>4, <4>5, SettingsCmdsAre DEF Stoppable, SettingsCmds
    <3> QED BY <3>1, <3>3, <3>4
  <2> QED BY <1>3, <2>1, <2>2, <2>3
<1> QED BY <1>3, <1>4, <1>5, <1>6, <1>8, <1>10, Stops

-----------------------------------------------------------------------------
(* Resets, and the end of the update.                                      *)

(* A reset cuts off what is being written: what the page says is there.    *)
LEMMA CutOff_IInv ==
    ASSUME IInv, CutOff, gpregret' => gpregret
    PROVE  IInv'
<1>1. PICK c : c = Head(ram.cmds)
  OBVIOUS
<1>2. /\ flash' \in (IF pc = "erase_banks" THEN Torn(flash, BanksErased)
                     ELSE IF InProgress THEN Torn(flash, FlashDone(c)) ELSE {flash})
      /\ settings' \in (IF pc = "erase_settings" THEN {settings, ErasedPage, BadPage}
                        ELSE IF InProgress /\ SettingsDone(c) # settings
                        THEN {settings, SettingsDone(c), BadPage} ELSE {settings})
      /\ sd' \in (IF pc = "swap_sd" /\ settings.sd_image_size # 0 THEN {sd, <<BAD>>, NewSd}
                  ELSE {sd})
      /\ ram' = RamInit /\ pc' = "boot" /\ validated' = validated
  BY <1>1 DEF CutOff
<1>3. Types /\ Steady
  BY DEF IInv
<1>4. CASE pc \in {"dfu", "finalize", "reset"}
  <2>1. Whole(settings) /\ Stoppable(ram) /\ ~Torn_SD /\ ~gpregret
    BY <1>3, <1>4, UpdateStoppable DEF Steady
  <2>2. sd' = sd /\ ~gpregret'
    BY <1>2, <1>4, <2>1
  <2>3. /\ flash' = [a \in Addresses |-> flash'[a]] /\ IsPage(settings)' /\ Whole(settings)'
        /\ (validated \in Seq(Contents) \ {<<>>})'
    <3>1. CASE InProgress
      <4>1. flash' \in Torn(flash, FlashDone(c))
        BY <1>2, <1>4, <3>1
      <4>2. settings' \in {settings, SettingsDone(c), BadPage}
        BY <1>2, <1>4, <3>1
      <4> QED BY <1>1, <1>2, <1>4, <3>1, <4>1, <4>2, CutsOff
    <3>2. CASE ~InProgress
      <4>1. flash' = flash /\ settings' = settings /\ validated' = validated
        BY <1>2, <1>4, <3>2
      <4>2. Whole(settings)'
        BY <2>1, <4>1, HoldsKept DEF Whole
      <4> QED BY <1>3, <4>1, <4>2 DEF Types
    <3> QED BY <3>1, <3>2
  <2>4. Types'
    BY <1>2, <2>3, RamInit_Is DEF Types
  <2>5. Steady'
    BY <1>2, <2>1, <2>2, <2>3 DEF Steady, Torn_SD
  <2> QED BY <1>2, <2>4, <2>5, RamInit_Is DEF IInv
<1>5. CASE pc \notin {"dfu", "finalize", "reset"}
  <2>1. ram = RamInit /\ Whole(settings) /\ ~InProgress
    BY <1>3, <1>5, RamInit_Is DEF Steady, InProgress
  <2>2. CASE pc = "erase_banks"
    <3>1. /\ flash' \in Torn(flash, BanksErased) /\ settings' = settings /\ sd' = sd
          /\ ~Marks(settings) /\ ~Torn_SD /\ ~gpregret'
      BY <1>2, <1>3, <2>1, <2>2 DEF Steady
    <3>2. BanksErased = [a \in Addresses |-> BanksErased[a]]
      BY DEF BanksErased
    <3>3. flash' = [a \in Addresses |-> flash'[a]]
      BY <1>3, <3>1, <3>2, TornWords DEF Types
    <3>4. Whole(settings)'
      BY <3>1 DEF Whole, Marks, Valid
    <3>5. Types'
      BY <1>2, <1>3, <3>1, <3>3, RamInit_Is DEF Types
    <3>6. Steady'
      BY <1>2, <3>1, <3>4 DEF Steady, Torn_SD
    <3> QED BY <1>2, <3>5, <3>6, RamInit_Is DEF IInv
  <2>3. CASE pc = "erase_settings"
    <3>1. /\ flash' = flash /\ settings' \in {settings, ErasedPage, BadPage} /\ sd' = sd
          /\ ~Torn_SD /\ ~gpregret'
      BY <1>2, <1>3, <2>1, <2>3 DEF Steady
    <3>2. PICK page : page = settings'
      OBVIOUS
    <3>3. Whole(page) /\ IsPage(page)
      BY <1>3, <2>1, <3>1, <3>2, PlainPages, UnmarkedWhole DEF Types
    <3>4. Whole(settings)' /\ IsPage(settings)'
      <4>1. \A a : Holds(a, validated)' <=> Holds(a, validated)
        BY <1>2, <3>1, HoldsKept
      <4> QED BY <1>2, <3>2, <3>3, <4>1 DEF Whole, IsPage
    <3>5. Types'
      BY <1>2, <1>3, <3>1, <3>4, RamInit_Is DEF Types
    <3>6. Steady'
      BY <1>2, <3>1, <3>4 DEF Steady, Torn_SD
    <3> QED BY <1>2, <3>5, <3>6, RamInit_Is DEF IInv
  <2>4. CASE pc \notin {"erase_banks", "erase_settings"}
    <3>1. flash' = flash /\ settings' = settings
      BY <1>2, <2>1, <2>4
    <3>2. Whole(settings)'
      BY <1>2, <2>1, <3>1, HoldsKept DEF Whole
    <3>3. Torn_SD' => settings.bank_0 = "BANK_VALID_SD" /\ settings.sd_image_size # 0
      <4>1. CASE sd' = sd
        BY <1>3, <4>1 DEF Steady, Torn_SD
      <4>2. CASE pc = "swap_sd" /\ settings.sd_image_size # 0
        BY <1>3, <2>1, <4>2 DEF Steady, bootloader_dfu_sd_in_progress, Whole
      <4> QED BY <1>2, <4>1, <4>2
    <3>4. gpregret' => settings.bank_0 # "BANK_VALID_SD"
      BY <1>3 DEF Steady
    <3>5. Types'
      BY <1>2, <1>3, <3>1, RamInit_Is DEF Types
    <3>6. Steady'
      BY <1>2, <3>1, <3>2, <3>3, <3>4 DEF Steady
    <3> QED BY <1>2, <3>5, <3>6, RamInit_Is DEF IInv
  <2> QED BY <2>2, <2>3, <2>4
<1> QED BY <1>4, <1>5

(* See above.                                                              *)
LEMMA SystemReset_IInv ==
    ASSUME IInv, SystemReset
    PROVE  IInv'
<1>1. pc = "reset" /\ CutOff /\ gpregret' = gpregret
  BY DEF SystemReset
<1>2. ~gpregret
  BY <1>1 DEF IInv, Steady
<1> QED BY <1>1, <1>2, CutOff_IInv

(* See above.                                                              *)
LEMMA PowerLoss_IInv ==
    ASSUME IInv, PowerLoss
    PROVE  IInv'
<1>1. CutOff /\ gpregret' = FALSE
  BY DEF PowerLoss
<1> QED BY <1>1, CutOff_IInv

(* An application that is marked is there and starts.                      *)
LEMMA MarkedStarts ==
    ASSUME Types, Whole(settings), settings.bank_0 = "BANK_VALID_APP"
    PROVE  bootloader_app_is_valid
<1>1. Holds(BANK_0, validated) /\ settings.bank_0_crc = NO_CRC
  BY DEF Whole, Valid
<1>2. validated \in Seq(Contents) \ {<<>>}
  BY DEF Types
<1>3. \A k \in 1 .. Len(validated) : flash[BANK_0 + k - 1] = validated[k]
  BY <1>1, <1>2, HoldsIs, Numbers
<1>4. 1 \in 1 .. Len(validated) /\ validated[1] \in Contents
  BY <1>2
<1>5. BANK_0 + 1 - 1 = BANK_0
  BY Numbers
<1>6. flash[BANK_0] \in Contents
  BY <1>3, <1>4, <1>5
<1> QED BY <1>1, <1>6, Numbers DEF bootloader_app_is_valid

(* Without a mark the bootloader waits for an update.                      *)
LEMMA StartUpdate_IInv ==
    ASSUME Types, ~ram.assert, StartUpdate, UNCHANGED <<flash, settings, sd, bl, gpregret>>,
           Unmarked, Idle, ~ram.m_tear_down_in_progress, ~gpregret, ~Torn_SD
    PROVE  IInv'
<1>1. /\ pc' = "dfu" /\ validated' = validated
      /\ ram' = [ram EXCEPT !.m_dfu_state = "IDLE", !.timer = "on", !.conn = "adv"]
  BY DEF StartUpdate, Goes
<1>2. IsRam(ram)
  BY DEF Types
<1>3. /\ IsRam(ram') /\ Alike(ram', ram, {"m_dfu_state", "timer", "conn"})
      /\ ram'.m_dfu_state = "IDLE"
  BY <1>1, <1>2 DEF IsRam, Alike, Fields
<1>4. /\ ~ram'.assert /\ ~ram'.m_tear_down_in_progress /\ ram'.settings = ram.settings
      /\ ram'.cmds = ram.cmds /\ ram'.m_data_received = ram.m_data_received
  BY <1>3 DEF Alike, Fields
<1>5. Types'
  BY <1>1, <1>3 DEF Types, IsRam, IsPage, IsPool
<1>6. Unmarked' /\ Idle'
  BY <1>4 DEF Unmarked, Idle, Marks
<1>7. Updating'
  BY <1>3, <1>4, <1>6 DEF Updating
<1>8. Steady'
  BY <1>1 DEF Steady, Torn_SD
<1> QED BY <1>1, <1>4, <1>5, <1>7, <1>8 DEF IInv

(* See above.                                                              *)
LEMMA CheckApp_IInv ==
    ASSUME IInv, CheckApp
    PROVE  IInv'
<1>1. /\ \/ pc = "check" /\ ~bootloader_dfu_sd_in_progress
         \/ pc = "finalize" /\ ram.m_update_status = "COMPLETE"
      /\ UNCHANGED <<flash, settings, sd, bl, gpregret>>
  BY DEF CheckApp, persistent
<1>2. Types /\ Steady /\ ~ram.assert
  BY DEF IInv
<1>3. ~gpregret /\ ~Torn_SD
  BY <1>1, <1>2 DEF Steady, bootloader_dfu_sd_in_progress
<1>4. CASE pc = "check" /\ bootloader_app_is_valid
  <2>1. /\ ram = RamInit /\ Whole(settings) /\ ~bootloader_dfu_sd_in_progress
        /\ settings.bank_0 = "BANK_VALID_APP"
    BY <1>1, <1>2, <1>4 DEF Steady, bootloader_app_is_valid
  <2>2. pc' = "app" /\ ram' = RamInit /\ validated' = validated
    BY <1>4, <2>1 DEF CheckApp, Leave, Goes
  <2>3. Whole(settings)'
    BY <1>1, <2>1, <2>2, HoldsKept DEF Whole
  <2>4. Steady'
    BY <1>1, <1>3, <2>1, <2>2, <2>3 DEF Steady, Torn_SD
  <2> QED BY <1>1, <1>2, <2>2, <2>3, <2>4, MovesOn DEF Types
<1>5. CASE pc = "check" /\ ~bootloader_app_is_valid
  <2>1. ram = RamInit /\ Whole(settings) /\ ~bootloader_dfu_sd_in_progress
    BY <1>1, <1>2, <1>5 DEF Steady
  <2>2. settings.bank_0 # "BANK_VALID_APP"
    BY <1>2, <1>5, <2>1, MarkedStarts
  <2>3. ~Marks(settings)
    BY <2>1, <2>2 DEF Marks, Valid, bootloader_dfu_sd_in_progress
  <2>4. Unmarked /\ Idle /\ ~ram.m_tear_down_in_progress
    BY <2>1, <2>3, RamInit_Is, PlainPages DEF Unmarked, Idle
  <2>5. StartUpdate
    BY <1>5 DEF CheckApp
  <2> QED BY <1>1, <1>2, <1>3, <2>4, <2>5, StartUpdate_IInv
<1>6. CASE pc = "finalize"
  <2>4. Finalizing
    BY <1>6 DEF IInv
  <2>5. /\ ram.m_data_received = 0 /\ ~ram.m_tear_down_in_progress
        /\ ~Marks(ram.settings) /\ ram.cmds = <<>>
    BY <1>1, <1>6, <2>4 DEF Finalizing
  <2>6. ~Marks(settings)
    <3>1. <<>> # <<ClearSettings, StoreSettings>>
      OBVIOUS
    <3> QED BY <2>4, <2>5, <3>1 DEF Finalizing
  <2>1. Unmarked /\ Idle /\ ~ram.m_tear_down_in_progress
    BY <2>5, <2>6 DEF Unmarked, Idle
  <2>2. ~bootloader_app_is_valid
    BY <2>1 DEF Unmarked, Marks, Valid, bootloader_app_is_valid
  <2>3. StartUpdate
    BY <2>2 DEF CheckApp
  <2> QED BY <1>1, <1>2, <1>3, <2>1, <2>3, StartUpdate_IInv
<1> QED BY <1>1, <1>4, <1>5, <1>6

(* See above.                                                              *)
LEMMA UpdateEnds_IInv ==
    ASSUME IInv, UpdateEnds
    PROVE  IInv'
<1>1. /\ pc = "dfu" /\ Leave /\ UNCHANGED <<flash, settings, sd, bl, gpregret, validated>>
  BY DEF UpdateEnds, Leave, Goes, persistent
<1>2. Types /\ Steady /\ ~ram.assert
  BY DEF IInv
<1>3. Whole(settings) /\ Stoppable(ram) /\ ~gpregret /\ ~Torn_SD
  BY <1>1, <1>2, UpdateStoppable DEF Steady
<1>4. Whole(settings)'
  BY <1>1, <1>3, HoldsKept DEF Whole
<1>5. CASE bootloader_app_is_valid /\ ~bootloader_dfu_sd_in_progress
  <2>1. pc' = "app" /\ ram' = RamInit /\ settings.bank_0 = "BANK_VALID_APP"
    BY <1>1, <1>5 DEF Leave, Goes, bootloader_app_is_valid
  <2>2. Steady'
    BY <1>1, <1>3, <1>4, <2>1 DEF Steady, Torn_SD
  <2> QED BY <1>1, <1>2, <1>4, <2>1, <2>2, MovesOn DEF Types
<1>6. CASE ~(bootloader_app_is_valid /\ ~bootloader_dfu_sd_in_progress)
  <2>1. PICK r : r = ram
    OBVIOUS
  <2>2. pc' = "reset" /\ ram' = Stopped(r)
    BY <1>1, <1>6, <2>1 DEF Leave, Goes
  <2>3. IsPage(r.settings) /\ r.cmds \in Seq(Cmds)
    BY <1>2, <2>1 DEF Types, IsRam
  <2>4. Stoppable(r)
    BY <1>3, <2>1 DEF Stoppable
  <2>5. Stoppable(r)'
    BY <1>1, <2>4, HoldsKept DEF Stoppable, Marks, Whole
  <2> QED BY <1>1, <1>2, <1>4, <2>2, <2>3, <2>5, Stops DEF Types, IsPage
<1> QED BY <1>5, <1>6

-----------------------------------------------------------------------------
(* What holds at all times.                                                *)

(* Steps that change nothing.                                              *)
LEMMA Stutter_IInv ==
    ASSUME IInv, UNCHANGED vars
    PROVE  IInv'
<1>1. UNCHANGED <<flash, settings, sd, bl, gpregret, pc, ram, validated>>
  BY DEF vars
<1>2. Types' /\ Steady' /\ ~ram'.assert
  BY <1>1 DEF IInv, Types, IsRam, IsPage, IsPool, Steady, Whole, Holds, Content, Torn_SD,
              bootloader_dfu_sd_in_progress
<1>3. pc = "dfu" => Updating'
  <2> SUFFICES ASSUME pc = "dfu" PROVE Updating'
    OBVIOUS
  <2>1. Similar(ram) /\ Updating
    BY SimilarQuiet DEF IInv
  <2>2. Similar(ram')
    BY <1>1, <2>1 DEF Similar, Tears
  <2> QED BY <1>1, <2>1, <2>2, SimilarUpdating
<1>4. pc = "finalize" => Finalizing'
  BY <1>1 DEF IInv, Finalizing, Whole, Holds, Content, Marks
<1>5. pc = "reset" => (Whole(settings) /\ Stoppable(ram) /\ ~ram.done)'
  BY <1>1 DEF IInv, Whole, Holds, Content, Marks, Stoppable
<1> QED BY <1>1, <1>2, <1>3, <1>4, <1>5 DEF IInv

(* A phone whose update is under way starts again with the same packet.    *)
LEMMA Next_IInv ==
    ASSUME SameStart, IInv, [Next]_vars
    PROVE  IInv'
<1>1. CASE Main
  BY <1>1, Boot_IInv, EraseSettings_IInv, EraseBanks_IInv, CheckSd_IInv, SwapSd_IInv,
     SwapBl_IInv, CheckApp_IInv, UpdateEnds_IInv, SystemReset_IInv, FlashWrites_IInv,
     FlashEvent_IInv DEF Main
<1>2. CASE Phone
  BY <1>2, StartMode_IInv, StartPkt_IInv, InitStart_IInv, InitPkt_IInv, InitComplete_IInv,
     ReceiveApp_IInv, DataPkt_IInv, Validate_IInv, ActivateNReset_IInv, SysReset_IInv,
     Connected_IInv, Disconnected_IInv DEF Phone
<1>3. CASE TimerExpires \/ Timeout
  BY <1>3, TimerExpires_IInv, Timeout_IInv
<1>4. CASE EnterDfu \/ FlashError \/ PowerLoss
  BY <1>4, EnterDfu_IInv, FlashError_IInv, PowerLoss_IInv
<1>5. CASE UNCHANGED vars
  BY <1>5, Stutter_IInv
<1> QED BY <1>1, <1>2, <1>3, <1>4, <1>5 DEF Next

(* What is asked for.                                                      *)
LEMMA IInvIsWhole ==
    ASSUME IInv
    PROVE  WholeStarted
<1>1. Types /\ Steady
  BY DEF IInv
<1>2. Whole(settings)
  BY <1>1, UpdateStoppable DEF IInv, Steady
<1>3. MarkedWhole
  BY <1>2 DEF Whole, MarkedWhole, Valid
<1>4. AppStartsWhole
  BY <1>1, <1>2 DEF Steady, AppStartsWhole, Whole, Valid, Torn_SD
<1>5. SdRecoverable
  BY <1>1, <1>2 DEF Steady, SdRecoverable, Whole, Valid, Torn_SD
<1> QED BY <1>3, <1>4, <1>5 DEF WholeStarted

(* As long as the phone sends no other start packet while its update is    *)
(* under way: a bank that the settings page marks as valid holds all of an *)
(* image that passed its check; only a whole application is started, with  *)
(* a whole SoftDevice; and a SoftDevice copied in part can be copied again.*)
THEOREM AlwaysWhole == Spec /\ [][SameStart]_vars => []WholeStarted
<1>1. Init => IInv
  BY InitInv
<1>2. IInv /\ [Next]_vars /\ [SameStart]_vars => IInv'
  BY Next_IInv, Stutter_IInv
<1>3. IInv => WholeStarted
  BY IInvIsWhole
<1> QED BY <1>1, <1>2, <1>3, PTL DEF Spec

-----------------------------------------------------------------------------
(* From the first byte to the answer to the last.                          *)

(* The last n buffers before the next one are in use.                      *)
Before(i, j) == Slot(i - j + RX_BUF_QUEUE_SIZE)
Ring(q, n) ==
    /\ n \in 0 .. RX_BUF_QUEUE_SIZE
    /\ q.read_available_count = 0 /\ q.read_index = q.write_index
    /\ q.free_available_count = n /\ q.free_window_count = RX_BUF_QUEUE_SIZE - n
    /\ \A j \in 1 .. n : Before(q.write_index, j) \in q.free_index

(* Nothing was received.                                                   *)
Fresh == ram.sent = <<>> /\ ram.mp_final_packet = {} /\ Ring(ram.pool, 0)

(* Stores wait for the flash, the oldest first, behind the settings; i is  *)
(* the next buffer.                                                        *)
InOrder(s, i, n) ==
    /\ n \in 0 .. Len(s) /\ Len(s) <= n + 2
    /\ \A k \in 1 .. Len(s) :
          IF k <= Len(s) - n THEN s[k] \in SettingsCmds
          ELSE s[k].op = "store" /\ s[k].buffer = Before(i, Len(s) - k + 1)

(* No more data is taken.                                                  *)
Closed == ram.m_data_received = UINT_MAX \/ ram.m_dfu_timed_out

(* What is to be stored is what was sent, ...                              *)
Lies(c, k) == c.at <= ram.active + k - 1 /\ ram.active + k - 1 < After(c)
Sends ==
    \A i \in DOMAIN Todo : Todo[i] \notin SettingsCmds =>
        /\ After(Todo[i]) <= ram.active + Len(ram.sent)
        /\ \A k \in 1 .. Len(ram.sent) :
              Lies(Todo[i], k) =>
                 Todo[i].words[ram.active + k - Todo[i].at] = ram.sent[k]

(* ... and what is not to be stored any more is in the bank.               *)
Sent ==
    \A k \in 1 .. Len(ram.sent) :
        \/ flash[ram.active + k - 1] = ram.sent[k]
        \/ \E i \in DOMAIN Todo : Todo[i] \notin SettingsCmds /\ Lies(Todo[i], k)

(* The final packet is the last in the queue.                              *)
Final ==
    ram.mp_final_packet # {} =>
        /\ 4 * Len(ram.sent) = ram.m_image_size
        /\ \A i \in 1 .. Len(ram.cmds) - 1 :
              ram.cmds[i] \notin SettingsCmds =>
                 ram.mp_final_packet # {ram.cmds[i].buffer}

Flow ==
    /\ ram.sent \in Seq(Contents) /\ 4 * Len(ram.sent) <= ram.m_image_size
    /\ ram.m_data_received # UINT_MAX => ram.m_data_received = 4 * Len(ram.sent)
    /\ Sends /\ Sent /\ Final
    /\ ~Closed => \E n \in 0 .. RX_BUF_QUEUE_SIZE :
                     Ring(ram.pool, n) /\ InOrder(ram.cmds, ram.pool.write_index, n)

(* Before the first packet of data; then the bank is erased.               *)
Prepared == {"RDY", "RX_INIT_PKT"}
Early == {"IDLE", "PREPARING"} \cup Prepared

FInv ==
    /\ pc = "finalize" => Fresh /\ ram.resp = NoResponse
    /\ pc = "dfu" =>
          /\ ram.m_dfu_state \in Early => Fresh
          /\ ram.m_dfu_state \in Prepared =>
                OnlySettings(ram.cmds) /\ Len(ram.cmds) <= 2
          /\ ram.m_dfu_state = "RX_DATA_PKT" => Flow

(* What a step tells the phone is true, and after too much data nothing    *)
(* more is taken.                                                          *)
Tells ==
    ram'.resp = <<"RECEIVE_APP", "SUCCESS">> =>
        Holds(ram.active, ram.sent) /\ 4 * Len(ram.sent) = ram.m_image_size
Overruns ==
    ram.m_data_received = UINT_MAX => ram'.m_data_received = UINT_MAX \/ pc' # "dfu"
FStep == FInv' /\ Tells /\ Overruns

-----------------------------------------------------------------------------
(* The ring of buffers.                                                    *)

(* An index that goes around at most once.                                 *)
LEMMA SlotIs ==
    ASSUME NEW i \in Int, i >= 0, i < 2 * RX_BUF_QUEUE_SIZE
    PROVE  Slot(i) = IF i < RX_BUF_QUEUE_SIZE THEN i ELSE i - RX_BUF_QUEUE_SIZE
<1>1. CASE RX_BUF_QUEUE_SIZE = 2
  BY <1>1 DEF Slot
<1>2. CASE RX_BUF_QUEUE_SIZE = 4
  BY <1>2 DEF Slot
<1>3. CASE RX_BUF_QUEUE_SIZE = 8
  BY <1>3 DEF Slot
<1>4. CASE RX_BUF_QUEUE_SIZE = 16
  BY <1>4 DEF Slot
<1>5. CASE RX_BUF_QUEUE_SIZE = 32
  BY <1>5 DEF Slot
<1> QED BY <1>1, <1>2, <1>3, <1>4, <1>5, RingAssumption

(* The buffers before the next one, and those before the one after it.     *)
LEMMA BeforeIs ==
    ASSUME NEW i \in Buffers, NEW j \in 1 .. RX_BUF_QUEUE_SIZE
    PROVE  /\ Before(i, j) = IF i >= j THEN i - j ELSE i - j + RX_BUF_QUEUE_SIZE
           /\ Before(i, j) \in Buffers
<1>1. /\ i \in Int /\ i >= 0 /\ i < RX_BUF_QUEUE_SIZE /\ RX_BUF_QUEUE_SIZE \in Nat
      /\ j \in Int /\ j >= 1 /\ j <= RX_BUF_QUEUE_SIZE
  BY Numbers DEF Buffers
<1>2. i - j + RX_BUF_QUEUE_SIZE \in Int /\ i - j + RX_BUF_QUEUE_SIZE >= 0
      /\ i - j + RX_BUF_QUEUE_SIZE < 2 * RX_BUF_QUEUE_SIZE
  BY <1>1
<1>3. Before(i, j) = IF i >= j THEN i - j ELSE i - j + RX_BUF_QUEUE_SIZE
  BY <1>1, <1>2, SlotIs DEF Before
<1> QED BY <1>1, <1>3 DEF Buffers

(* See above.                                                              *)
LEMMA NextIs ==
    ASSUME NEW i \in Buffers
    PROVE  /\ Slot(i + 1) = IF i = RX_BUF_QUEUE_SIZE - 1 THEN 0 ELSE i + 1
           /\ Slot(i + 1) \in Buffers
<1>1. i \in Int /\ i >= 0 /\ i < RX_BUF_QUEUE_SIZE /\ RX_BUF_QUEUE_SIZE \in Nat
      /\ RX_BUF_QUEUE_SIZE >= 2
  BY Numbers DEF Buffers
<1>2. Slot(i + 1) = IF i + 1 < RX_BUF_QUEUE_SIZE THEN i + 1 ELSE i + 1 - RX_BUF_QUEUE_SIZE
  BY <1>1, SlotIs
<1> QED BY <1>1, <1>2 DEF Buffers

(* See above.                                                              *)
LEMMA BeforeNext ==
    ASSUME NEW i \in Buffers
    PROVE  /\ Before(Slot(i + 1), 1) = i
           /\ \A j \in 1 .. RX_BUF_QUEUE_SIZE - 1 :
                 /\ Before(Slot(i + 1), j + 1) = Before(i, j)
                 /\ Slot(Before(i, j + 1) + 1) = Before(i, j)
<1>1. /\ i \in Int /\ i >= 0 /\ i < RX_BUF_QUEUE_SIZE /\ RX_BUF_QUEUE_SIZE \in Nat
      /\ RX_BUF_QUEUE_SIZE >= 2
  BY Numbers DEF Buffers
<1>2. PICK m : m = Slot(i + 1)
  OBVIOUS
<1>3. m \in Buffers /\ m = IF i = RX_BUF_QUEUE_SIZE - 1 THEN 0 ELSE i + 1
  BY <1>2, NextIs
<1>4. Before(m, 1) = i
  <2>1. Before(m, 1) = IF m >= 1 THEN m - 1 ELSE m - 1 + RX_BUF_QUEUE_SIZE
    BY <1>1, <1>3, BeforeIs
  <2> QED BY <1>1, <1>3, <2>1
<1>5. ASSUME NEW j \in 1 .. RX_BUF_QUEUE_SIZE - 1
      PROVE  /\ Before(m, j + 1) = Before(i, j)
             /\ Slot(Before(i, j + 1) + 1) = Before(i, j)
  <2>1. j \in 1 .. RX_BUF_QUEUE_SIZE /\ j + 1 \in 1 .. RX_BUF_QUEUE_SIZE /\ j \in Int
    BY <1>1
  <2>2. Before(i, j) = IF i >= j THEN i - j ELSE i - j + RX_BUF_QUEUE_SIZE
    BY <2>1, BeforeIs
  <2>3. Before(m, j + 1) =
           IF m >= j + 1 THEN m - (j + 1) ELSE m - (j + 1) + RX_BUF_QUEUE_SIZE
    BY <1>3, <2>1, BeforeIs
  <2>4. PICK b : b = Before(i, j + 1)
    OBVIOUS
  <2>5. b = (IF i >= j + 1 THEN i - (j + 1) ELSE i - (j + 1) + RX_BUF_QUEUE_SIZE)
        /\ b \in Buffers
    BY <2>1, <2>4, BeforeIs
  <2>6. Slot(b + 1) = IF b = RX_BUF_QUEUE_SIZE - 1 THEN 0 ELSE b + 1
    BY <2>5, NextIs
  <2>7. Slot(b + 1) = Before(i, j)
    BY <1>1, <2>1, <2>2, <2>5, <2>6
  <2>8. Before(m, j + 1) = Before(i, j)
    BY <1>1, <1>3, <2>1, <2>2, <2>3
  <2> QED BY <2>4, <2>7, <2>8
<1> QED BY <1>2, <1>4, <1>5

(* See above.                                                              *)
LEMMA BeforeDiffers ==
    ASSUME NEW i \in Buffers, NEW j \in 1 .. RX_BUF_QUEUE_SIZE,
           NEW k \in 1 .. RX_BUF_QUEUE_SIZE, j # k
    PROVE  Before(i, j) # Before(i, k)
<1>1. Before(i, j) = IF i >= j THEN i - j ELSE i - j + RX_BUF_QUEUE_SIZE
  BY BeforeIs
<1>2. Before(i, k) = IF i >= k THEN i - k ELSE i - k + RX_BUF_QUEUE_SIZE
  BY BeforeIs
<1>3. /\ i \in Int /\ i >= 0 /\ i < RX_BUF_QUEUE_SIZE /\ RX_BUF_QUEUE_SIZE \in Nat
      /\ j \in Int /\ j >= 1 /\ j <= RX_BUF_QUEUE_SIZE
      /\ k \in Int /\ k >= 1 /\ k <= RX_BUF_QUEUE_SIZE
  BY Numbers DEF Buffers
<1> QED BY <1>1, <1>2, <1>3

(* A buffer is taken.                                                      *)
LEMMA RingTakes ==
    ASSUME NEW q, IsPool(q), NEW n, Ring(q, n), WindowOpen(q),
           NEW p, p = Extracted(Produced(q))
    PROVE  /\ IsPool(p) /\ Ring(p, n + 1) /\ n < RX_BUF_QUEUE_SIZE
           /\ p.write_index = Slot(q.write_index + 1)
<1>1. PICK i : i = q.write_index
  OBVIOUS
<1>2. i \in Buffers /\ q.read_index = i /\ RX_BUF_QUEUE_SIZE \in Nat
  BY <1>1, Numbers DEF IsPool, Ring
<1>3. PICK m : m = Slot(i + 1)
  OBVIOUS
<1>4. /\ p.write_index = m /\ p.read_index = m
      /\ p.free_window_count = RX_BUF_QUEUE_SIZE - (n + 1)
      /\ p.read_available_count = 0 /\ p.free_available_count = n + 1
      /\ p.free_index = q.free_index \cup {i}
  <2>1. PICK r : r = Produced(q)
    OBVIOUS
  <2>2. /\ DOMAIN r = DOMAIN q /\ r.write_index = m /\ r.read_index = i
        /\ r.free_window_count = q.free_window_count - 1
        /\ r.read_available_count = q.read_available_count + 1
        /\ r.free_available_count = q.free_available_count
        /\ r.free_index = q.free_index \cup {i}
    BY <1>1, <1>2, <1>3, <2>1 DEF Produced, IsPool
  <2>3. PICK x : x = r.read_available_count - 1
    OBVIOUS
  <2>4. PICK y : y = r.free_available_count + 1
    OBVIOUS
  <2>5. p = [r EXCEPT !.read_available_count = x, !.free_available_count = y,
                      !.read_index = m]
    <3>1. p = [r EXCEPT !.read_available_count = r.read_available_count - 1,
                        !.free_available_count = r.free_available_count + 1,
                        !.read_index = Slot(r.read_index + 1)]
      BY <2>1, <2>2 DEF Extracted, IsPool
    <3> QED BY <1>3, <2>2, <2>3, <2>4, <3>1
  <2>6. /\ p.read_available_count = x /\ p.free_available_count = y
        /\ p.read_index = m /\ p.write_index = r.write_index
        /\ p.free_window_count = r.free_window_count /\ p.free_index = r.free_index
    BY <2>2, <2>5 DEF IsPool
  <2>7. /\ q.free_window_count = RX_BUF_QUEUE_SIZE - n /\ n \in Int
        /\ q.read_available_count = 0 /\ q.free_available_count = n
    BY DEF Ring
  <2>8. x = 0 /\ y = n + 1 /\ r.free_window_count = RX_BUF_QUEUE_SIZE - (n + 1)
    BY <1>2, <2>2, <2>3, <2>4, <2>7
  <2> QED BY <2>2, <2>6, <2>8
<1>5. n \in Int /\ n >= 0 /\ n < RX_BUF_QUEUE_SIZE
  BY <1>2 DEF Ring, WindowOpen
<1>6. ASSUME NEW j \in 1 .. n + 1 PROVE Before(m, j) \in p.free_index
  <2>1. CASE j = 1
    BY <1>2, <1>3, <1>4, <2>1, BeforeNext
  <2>2. CASE j # 1
    <3>1. PICK k : k = j - 1
      OBVIOUS
    <3>2. k \in 1 .. n /\ k \in 1 .. RX_BUF_QUEUE_SIZE - 1 /\ j = k + 1
      BY <1>2, <1>5, <1>6, <2>2, <3>1
    <3>3. Before(m, j) = Before(i, k)
      BY <1>2, <1>3, <3>2, BeforeNext
    <3> QED BY <1>1, <1>4, <3>2, <3>3 DEF Ring
  <2> QED BY <2>1, <2>2
<1>7. Ring(p, n + 1)
  BY <1>2, <1>4, <1>5, <1>6 DEF Ring
<1> QED BY <1>1, <1>3, <1>4, <1>5, <1>7, PoolIs

(* The oldest goes back.                                                   *)
LEMMA RingGives ==
    ASSUME NEW q, IsPool(q), NEW n, Ring(q, n), n # 0,
           NEW p, p = Consumed(q, Before(q.write_index, n))
    PROVE  IsPool(p) /\ Ring(p, n - 1) /\ p.write_index = q.write_index
<1>1. PICK i : i = q.write_index
  OBVIOUS
<1>2. i \in Buffers /\ q.read_index = i /\ RX_BUF_QUEUE_SIZE \in Nat
  BY <1>1, Numbers DEF IsPool, Ring
<1>3. PICK b : b = Before(i, n)
  OBVIOUS
<1>4. n \in 1 .. RX_BUF_QUEUE_SIZE /\ n \in Int
  BY <1>2 DEF Ring
<1>5. b \in q.free_index /\ OldestInUse(q) = b
  BY <1>1, <1>2, <1>3, <1>4 DEF Ring, OldestInUse, Before
<1>6. PICK f : f = q.free_index \ {b}
  OBVIOUS
<1>7. PICK r : r = [q EXCEPT !.free_index = f]
  OBVIOUS
<1>8. p = Reclaimed(r, b, Slot(b + 1))
  <2>1. Toggled(q.free_index, b) = f
    BY <1>5, <1>6 DEF Toggled
  <2> QED BY <1>1, <1>3, <1>5, <1>7, <2>1 DEF Consumed, IsPool
<1>9. /\ DOMAIN r = DOMAIN q /\ r.free_index = f /\ r.write_index = i /\ r.read_index = i
      /\ r.free_window_count = q.free_window_count
      /\ r.free_available_count = n /\ r.read_available_count = 0
  BY <1>1, <1>2, <1>7 DEF IsPool, Ring
<1>10. \A j \in 1 .. n - 1 : Before(i, j) \in f
  BY <1>1, <1>2, <1>3, <1>4, <1>6, BeforeDiffers DEF Ring
<1>11. n = 1 \/ Slot(b + 1) \in f
  <2>1. CASE n # 1
    <3>1. n - 1 \in 1 .. RX_BUF_QUEUE_SIZE - 1 /\ n - 1 \in 1 .. n - 1 /\ (n - 1) + 1 = n
      BY <1>2, <1>4, <2>1
    <3>2. Slot(b + 1) = Before(i, n - 1)
      BY <1>2, <1>3, <3>1, BeforeNext
    <3> QED BY <1>10, <3>1, <3>2
  <2> QED BY <2>1
<1>12. p = [r EXCEPT !.free_available_count = n - 1,
                     !.free_window_count = q.free_window_count + 1]
  BY <1>6, <1>8, <1>9, <1>11 DEF Reclaimed, IsPool
<1>13. /\ p.free_index = f /\ p.write_index = i /\ p.read_index = i
       /\ p.free_window_count = q.free_window_count + 1
       /\ p.free_available_count = n - 1 /\ p.read_available_count = 0
  BY <1>9, <1>12 DEF IsPool
<1>14. Ring(p, n - 1)
  BY <1>2, <1>4, <1>10, <1>13 DEF Ring
<1> QED BY <1>1, <1>3, <1>13, <1>14, PoolIs

(* The queue of commands: one more store, ...                              *)
LEMMA OrderMore ==
    ASSUME NEW s \in Seq(Cmds), NEW i \in Buffers, NEW n, InOrder(s, i, n),
           n < RX_BUF_QUEUE_SIZE, NEW c \in Cmds, c.op = "store", c.buffer = i
    PROVE  /\ InOrder(Append(s, c), Slot(i + 1), n + 1)
           /\ \A k \in 1 .. Len(s) : s[k] \notin SettingsCmds => s[k].buffer # i
<1>1. PICK m : m = Len(s)
  OBVIOUS
<1>2. PICK t : t = Append(s, c)
  OBVIOUS
<1>3. /\ m \in Nat /\ Len(t) = m + 1 /\ t[m + 1] = c
      /\ \A k \in 1 .. m : t[k] = s[k]
  BY <1>1, <1>2
<1>4. n \in Int /\ n >= 0 /\ n <= m /\ m <= n + 2 /\ RX_BUF_QUEUE_SIZE \in Nat
  BY <1>1, <1>3, Numbers DEF InOrder
<1>5. PICK j : j = Slot(i + 1)
  OBVIOUS
<1>6. ASSUME NEW k \in 1 .. m, k > m - n
      PROVE  /\ s[k].op = "store" /\ s[k].buffer = Before(i, m - k + 1)
             /\ Before(i, m - k + 1) = Before(j, m - k + 2) /\ Before(j, m - k + 2) # i
  <2>1. PICK x : x = m - k + 1
    OBVIOUS
  <2>2. x \in 1 .. RX_BUF_QUEUE_SIZE - 1 /\ x + 1 \in 1 .. RX_BUF_QUEUE_SIZE /\ x + 1 # 1
        /\ m - k + 2 = x + 1 /\ 1 \in 1 .. RX_BUF_QUEUE_SIZE
    BY <1>3, <1>4, <1>6, <2>1, Numbers
  <2>3. Before(j, 1) = i /\ Before(j, x + 1) = Before(i, x) /\ j \in Buffers
    BY <1>5, <2>2, BeforeNext, NextIs
  <2>4. Before(j, x + 1) # Before(j, 1)
    BY <2>2, <2>3, BeforeDiffers
  <2>5. s[k].op = "store" /\ s[k].buffer = Before(i, m - k + 1)
    BY <1>1, <1>3, <1>4, <1>6 DEF InOrder
  <2> QED BY <2>1, <2>2, <2>3, <2>4, <2>5
<1>7. ASSUME NEW k \in 1 .. m, ~(k > m - n) PROVE s[k] \in SettingsCmds
  BY <1>1, <1>3, <1>4, <1>7 DEF InOrder
<1>8. ASSUME NEW k \in 1 .. m, s[k] \notin SettingsCmds PROVE s[k].buffer # i
  BY <1>6, <1>7, <1>8
<1>9. ASSUME NEW k \in 1 .. m + 1
      PROVE  IF k <= (m + 1) - (n + 1) THEN t[k] \in SettingsCmds
             ELSE t[k].op = "store" /\ t[k].buffer = Before(j, (m + 1) - k + 1)
  <2>1. CASE k = m + 1
    <3>1. ~(k <= (m + 1) - (n + 1)) /\ (m + 1) - k + 1 = 1
      BY <1>3, <1>4, <2>1
    <3>2. Before(j, 1) = i
      BY <1>5, BeforeNext
    <3> QED BY <1>3, <2>1, <3>1, <3>2
  <2>2. CASE k # m + 1
    <3>1. /\ k \in 1 .. m /\ t[k] = s[k] /\ (m + 1) - (n + 1) = m - n
          /\ (m + 1) - k + 1 = m - k + 2
      BY <1>3, <1>4, <2>2
    <3>2. CASE k > m - n
      <4>1. ~(k <= m - n)
        BY <1>3, <1>4, <3>1, <3>2
      <4> QED BY <1>6, <3>1, <3>2, <4>1
    <3>3. CASE ~(k > m - n)
      <4>1. k <= m - n
        BY <1>3, <1>4, <3>1, <3>3
      <4> QED BY <1>7, <3>1, <3>3, <4>1
    <3> QED BY <3>2, <3>3
  <2> QED BY <2>1, <2>2
<1>10. InOrder(t, j, n + 1)
  <2>1. n + 1 \in 0 .. m + 1 /\ m + 1 <= (n + 1) + 2
    BY <1>3, <1>4
  <2> QED BY <1>3, <1>9, <2>1 DEF InOrder
<1> QED BY <1>1, <1>2, <1>5, <1>8, <1>10

(* ... and the first one done: a command for the settings, or the store    *)
(* from the oldest buffer.                                                 *)
LEMMA OrderLess ==
    ASSUME NEW s \in Seq(Cmds), s # <<>>, NEW i \in Buffers, NEW n, InOrder(s, i, n)
    PROVE  \/ Head(s) \in SettingsCmds /\ InOrder(Tail(s), i, n)
           \/ /\ n # 0 /\ n = Len(s)
              /\ Head(s).op = "store" /\ Head(s).buffer = Before(i, n)
              /\ InOrder(Tail(s), i, n - 1)
<1>1. PICK m : m = Len(s)
  OBVIOUS
<1>2. PICK t : t = Tail(s)
  OBVIOUS
<1>3. /\ m \in Nat /\ m >= 1 /\ Len(t) = m - 1 /\ Head(s) = s[1]
      /\ \A k \in 1 .. m - 1 : t[k] = s[k + 1]
  BY <1>1, <1>2
<1>4. n \in Int /\ n >= 0 /\ n <= m /\ m <= n + 2
  BY <1>1, <1>3 DEF InOrder
<1>5. \A k \in 1 .. m : IF k <= m - n THEN s[k] \in SettingsCmds
                        ELSE s[k].op = "store" /\ s[k].buffer = Before(i, m - k + 1)
  BY <1>1 DEF InOrder
<1>6. CASE n < m
  <2>1. 1 \in 1 .. m /\ 1 <= m - n /\ n \in 0 .. m - 1 /\ m - 1 <= n + 2
    BY <1>3, <1>4, <1>6
  <2>2. ASSUME NEW k \in 1 .. m - 1
        PROVE  IF k <= (m - 1) - n THEN t[k] \in SettingsCmds
               ELSE t[k].op = "store" /\ t[k].buffer = Before(i, (m - 1) - k + 1)
    <3>1. /\ k + 1 \in 1 .. m /\ (k <= (m - 1) - n <=> k + 1 <= m - n)
          /\ (m - 1) - k + 1 = m - (k + 1) + 1 /\ t[k] = s[k + 1]
      BY <1>3, <1>4
    <3> QED BY <1>5, <3>1
  <2>3. InOrder(t, i, n)
    BY <1>3, <2>1, <2>2 DEF InOrder
  <2> QED BY <1>2, <1>3, <1>5, <2>1, <2>3
<1>7. CASE n = m
  <2>1. 1 \in 1 .. m /\ ~(1 <= m - n) /\ m - 1 + 1 = n /\ n - 1 \in 0 .. m - 1
        /\ m - 1 <= (n - 1) + 2 /\ n # 0
    BY <1>3, <1>4, <1>7
  <2>2. s[1].op = "store" /\ s[1].buffer = Before(i, n)
    BY <1>5, <2>1
  <2>3. ASSUME NEW k \in 1 .. m - 1
        PROVE  IF k <= (m - 1) - (n - 1) THEN t[k] \in SettingsCmds
               ELSE t[k].op = "store" /\ t[k].buffer = Before(i, (m - 1) - k + 1)
    <3>1. /\ k + 1 \in 1 .. m /\ ~(k <= (m - 1) - (n - 1)) /\ ~(k + 1 <= m - n)
          /\ (m - 1) - k + 1 = m - (k + 1) + 1 /\ t[k] = s[k + 1]
      BY <1>3, <1>4, <1>7
    <3> QED BY <1>5, <3>1
  <2>4. InOrder(t, i, n - 1)
    BY <1>3, <2>1, <2>3 DEF InOrder
  <2> QED BY <1>1, <1>2, <1>3, <1>7, <2>1, <2>2, <2>4
<1> QED BY <1>3, <1>4, <1>6, <1>7

-----------------------------------------------------------------------------
(* Steps that have no part in it.                                          *)

FlowFields ==
    {"m_dfu_state", "sent", "mp_final_packet", "pool", "cmds", "done", "m_data_received",
     "m_image_size", "active"}

(* No answer is the last one.                                              *)
LEMMA NotTheLast ==
    /\ NoResponse # <<"RECEIVE_APP", "SUCCESS">>
    /\ \A p, x : p # "RECEIVE_APP" \/ x # "SUCCESS" => <<p, x>> # <<"RECEIVE_APP", "SUCCESS">>
BY DEF NoResponse

(* What an answer says.                                                    *)
LEMMA Answers ==
    ASSUME NEW r, IsRam(r), NEW p, NEW err, p # "RECEIVE_APP" \/ err # "SUCCESS",
           r.resp = NoResponse
    PROVE  Respond(r, p, err).resp # <<"RECEIVE_APP", "SUCCESS">>
<1>1. Respond(r, p, err).resp \in {r.resp, <<p, Translated(err, p)>>}
  BY DEF Respond, Assert, IsRam, Fields
<1>2. err # "SUCCESS" => Translated(err, p) # "SUCCESS"
  BY DEF Translated
<1> QED BY <1>1, <1>2, NotTheLast

(* Main has stopped, or does not update.                                   *)
LEMMA Elsewhere ==
    ASSUME pc' \notin {"finalize", "dfu"}, ram'.resp = NoResponse
    PROVE  FStep
BY NotTheLast DEF FStep, FInv, Tells, Overruns

(* See above.                                                              *)
LEMMA StoppedElsewhere ==
    ASSUME NEW r, ram' = Stopped(r) \/ ram' = RamInit, pc' \notin {"finalize", "dfu"}
    PROVE  FStep
<1>1. RamInit.resp = NoResponse /\ DOMAIN RamInit = Fields
  BY RamInit_Is DEF RamInit, IsRam
<1>2. Stopped(r).resp = NoResponse
  BY <1>1 DEF Stopped, Fields
<1> QED BY <1>1, <1>2, Elsewhere

(* What goes on stays as it is.                                            *)
LEMMA FlowKept ==
    ASSUME Flow, UNCHANGED flash, \A f \in FlowFields : ram'[f] = ram[f],
           ram.m_dfu_timed_out => ram'.m_dfu_timed_out
    PROVE  Flow'
<1>1. /\ ram'.sent = ram.sent /\ ram'.mp_final_packet = ram.mp_final_packet
      /\ ram'.pool = ram.pool /\ ram'.cmds = ram.cmds /\ ram'.done = ram.done
      /\ ram'.m_data_received = ram.m_data_received /\ ram'.active = ram.active
      /\ ram'.m_image_size = ram.m_image_size
  BY DEF FlowFields
<1>2. Todo' = Todo
  BY <1>1 DEF Todo
<1>3. Sends' /\ Sent' /\ Final'
  <2>1. \A c, k : Lies(c, k)' <=> Lies(c, k)
    BY <1>1 DEF Lies, After
  <2>2. Sends'
    BY <1>1, <1>2, <2>1 DEF Flow, Sends, After
  <2>3. Sent'
    BY <1>1, <1>2, <2>1 DEF Flow, Sent
  <2>4. Final'
    BY <1>1 DEF Flow, Final
  <2> QED BY <2>2, <2>3, <2>4
<1>4. Closed => Closed'
  BY <1>1 DEF Closed
<1> QED BY <1>1, <1>3, <1>4 DEF Flow

(* What is to be shown of a handler that leaves r.                         *)
LEMMA FlowHandled ==
    ASSUME pc = "dfu", NEW r, Handled(r),
           ram' = r /\ pc' = "dfu" => FStep
    PROVE  FStep
BY StoppedElsewhere DEF Handled

(* See above.                                                              *)
LEMMA FlowGoes ==
    ASSUME FInv, pc = "dfu", NEW r, Handled(r),
           r.m_data_received = ram.m_data_received,
           r.resp # <<"RECEIVE_APP", "SUCCESS">>,
           r.m_dfu_state = "RX_DATA_PKT" /\ ram' = r => Flow',
           r.m_dfu_state \in Early =>
              /\ ram.m_dfu_state \in Early /\ r.sent = ram.sent
              /\ r.mp_final_packet = ram.mp_final_packet /\ r.pool = ram.pool,
           r.m_dfu_state \in Prepared => OnlySettings(r.cmds) /\ Len(r.cmds) <= 2
    PROVE  FStep
<1> SUFFICES ASSUME ram' = r, pc' = "dfu" PROVE FStep
  BY FlowHandled
<1>1. Tells /\ Overruns
  BY DEF Tells, Overruns
<1>2. r.m_dfu_state \in Early => Fresh'
  BY DEF FInv, Fresh
<1>3. FInv'
  BY <1>2 DEF FInv, OnlySettings
<1> QED BY <1>1, <1>3 DEF FStep

(* See above.                                                              *)
LEMMA FlowSame ==
    ASSUME FInv, pc = "dfu", UNCHANGED flash, NEW r, Handled(r),
           \A f \in FlowFields : r[f] = ram[f],
           ram.m_dfu_timed_out => r.m_dfu_timed_out,
           r.resp # <<"RECEIVE_APP", "SUCCESS">>
    PROVE  FStep
<1>1. /\ r.m_dfu_state = ram.m_dfu_state /\ r.sent = ram.sent
      /\ r.mp_final_packet = ram.mp_final_packet /\ r.pool = ram.pool
      /\ r.cmds = ram.cmds /\ r.m_data_received = ram.m_data_received
  BY DEF FlowFields
<1>2. ASSUME r.m_dfu_state = "RX_DATA_PKT", ram' = r PROVE Flow'
  BY <1>1, <1>2, FlowKept DEF FInv
<1>3. r.m_dfu_state \in Prepared => OnlySettings(r.cmds) /\ Len(r.cmds) <= 2
  BY <1>1 DEF FInv
<1> QED BY <1>1, <1>2, <1>3, FlowGoes

(* A write of the phone.                                                   *)
LEMMA FlowWrites ==
    ASSUME FInv, NEW r, IsRam(r), PhoneWrites(r),
           \A f \in FlowFields : r[f] = ram[f],
           ram.m_dfu_timed_out => r.m_dfu_timed_out,
           r.resp # <<"RECEIVE_APP", "SUCCESS">>
    PROVE  FStep
<1>1. pc = "dfu" /\ UNCHANGED flash
  BY LateIs
<1>2. PICK t : IsRam(t) /\ Alike(t, r, {"late"}) /\ Handled(t)
  BY LateIs
<1>3. /\ \A f \in FlowFields : t[f] = r[f]
      /\ t.m_dfu_timed_out = r.m_dfu_timed_out /\ t.resp = r.resp
  BY <1>2 DEF Alike, Fields, FlowFields
<1>4. \A f \in FlowFields : t[f] = ram[f]
  BY <1>3
<1> QED BY <1>1, <1>2, <1>3, <1>4, FlowSame

(* Nothing was answered yet.                                               *)
LEMMA QuietFlow ==
    ASSUME IsRam(ram)
    PROVE  /\ IsRam(Quiet) /\ Quiet.resp = NoResponse /\ Alike(Quiet, ram, {"resp"})
           /\ \A f \in FlowFields : Quiet[f] = ram[f]
           /\ Quiet.m_dfu_timed_out = ram.m_dfu_timed_out
<1>1. IsRam(Quiet) /\ Alike(Quiet, ram, {"resp"})
  BY Quiet_Is
<1>2. Quiet.resp = NoResponse
  BY DEF Quiet, IsRam, Fields
<1> QED BY <1>1, <1>2 DEF Alike, Fields, FlowFields

(* The writes of the phone that have no part in it.                        *)
LEMMA StartMode_Flow ==
    ASSUME IInv, FInv, StartMode
    PROVE  FStep
<1>1. PICK p \in StartPackets :
          PhoneWrites([Quiet EXCEPT !.m_pkt_type = "START", !.m_update_mode = p.mode])
  BY DEF StartMode
<1>2. IsRam(ram)
  BY DEF IInv, Types
<1>3. PICK q : q = Quiet
  OBVIOUS
<1>4. /\ IsRam(q) /\ q.resp = NoResponse /\ \A f \in FlowFields : q[f] = ram[f]
      /\ q.m_dfu_timed_out = ram.m_dfu_timed_out
  BY <1>2, <1>3, QuietFlow
<1>5. PICK r : r = [q EXCEPT !.m_pkt_type = "START", !.m_update_mode = p.mode]
  OBVIOUS
<1>6. IsRam(r) /\ Alike(r, q, {"m_pkt_type", "m_update_mode"})
  BY <1>4, <1>5 DEF IsRam, Alike, Fields
<1>7. /\ \A f \in FlowFields : r[f] = q[f]
      /\ r.m_dfu_timed_out = q.m_dfu_timed_out /\ r.resp = NoResponse
  BY <1>4, <1>6 DEF Alike, Fields, FlowFields
<1>8. \A f \in FlowFields : r[f] = ram[f]
  BY <1>4, <1>7
<1> QED BY <1>1, <1>3, <1>4, <1>5, <1>6, <1>7, <1>8, FlowWrites, NotTheLast

(* See above.                                                              *)
LEMMA TypeWrites_Flow ==
    ASSUME IInv, FInv, NEW type, PhoneWrites([Quiet EXCEPT !.m_pkt_type = type])
    PROVE  FStep
<1>2. IsRam(ram)
  BY DEF IInv, Types
<1>3. PICK q : q = Quiet
  OBVIOUS
<1>4. /\ IsRam(q) /\ q.resp = NoResponse /\ \A f \in FlowFields : q[f] = ram[f]
      /\ q.m_dfu_timed_out = ram.m_dfu_timed_out
  BY <1>2, <1>3, QuietFlow
<1>5. PICK r : r = [q EXCEPT !.m_pkt_type = type]
  OBVIOUS
<1>6. IsRam(r) /\ Alike(r, q, {"m_pkt_type"})
  BY <1>4, <1>5 DEF IsRam, Alike, Fields
<1>7. /\ \A f \in FlowFields : r[f] = q[f]
      /\ r.m_dfu_timed_out = q.m_dfu_timed_out /\ r.resp = NoResponse
  BY <1>4, <1>6 DEF Alike, Fields, FlowFields
<1>8. \A f \in FlowFields : r[f] = ram[f]
  BY <1>4, <1>7
<1> QED BY <1>3, <1>4, <1>5, <1>6, <1>7, <1>8, FlowWrites, NotTheLast

(* The connection is given up.                                             *)
LEMMA ClosedFlow ==
    ASSUME NEW q, IsRam(q), q.resp = NoResponse, NEW r, r = Close(q)
    PROVE  /\ IsRam(r) /\ r.resp = NoResponse /\ \A f \in FlowFields : r[f] = q[f]
           /\ r.m_dfu_timed_out = q.m_dfu_timed_out
<1>1. IsRam(r) /\ Alike(r, q, {"m_tear_down_in_progress", "conn", "assert"})
  BY Close_Is
<1> QED BY <1>1 DEF Alike, Fields, FlowFields

(* See above.                                                              *)
LEMMA SysReset_Flow ==
    ASSUME IInv, FInv, SysReset
    PROVE  FStep
<1>1. PhoneWrites(DfuReset(Close(Quiet))) /\ IsRam(ram)
  BY DEF SysReset, IInv, Types
<1>2. PICK q : q = Quiet
  OBVIOUS
<1>3. PICK c : c = Close(q)
  OBVIOUS
<1>4. /\ IsRam(q) /\ q.resp = NoResponse /\ \A f \in FlowFields : q[f] = ram[f]
      /\ q.m_dfu_timed_out = ram.m_dfu_timed_out
  BY <1>1, <1>2, QuietFlow
<1>5. /\ IsRam(c) /\ c.resp = NoResponse /\ \A f \in FlowFields : c[f] = q[f]
      /\ c.m_dfu_timed_out = q.m_dfu_timed_out
  BY <1>3, <1>4, ClosedFlow
<1>6. PICK r : r = DfuReset(c)
  OBVIOUS
<1>7. IsRam(r) /\ Alike(r, c, {"m_update_status"})
  BY <1>5, <1>6 DEF DfuReset, IsRam, Alike, Fields
<1>8. /\ \A f \in FlowFields : r[f] = c[f]
      /\ r.m_dfu_timed_out = c.m_dfu_timed_out /\ r.resp = NoResponse
  BY <1>5, <1>7 DEF Alike, Fields, FlowFields
<1>9. \A f \in FlowFields : r[f] = ram[f]
  BY <1>4, <1>5, <1>8
<1> QED BY <1>1, <1>2, <1>3, <1>4, <1>5, <1>6, <1>7, <1>8, <1>9, FlowWrites, NotTheLast

(* The radio and the timer.                                                *)
LEMMA Radio_Flow ==
    ASSUME IInv, FInv, Connected \/ Disconnected \/ TimerExpires
    PROVE  FStep
<1>1. pc = "dfu" /\ pc' = pc /\ UNCHANGED flash /\ IsRam(ram) /\ ~ram.assert
  BY DEF Connected, Disconnected, TimerExpires, Listening, persistent, IInv, Types
<1>2. PICK q : q = Quiet
  OBVIOUS
<1>3. /\ IsRam(q) /\ q.resp = NoResponse /\ \A f \in FlowFields : q[f] = ram[f]
      /\ q.m_dfu_timed_out = ram.m_dfu_timed_out /\ Alike(q, ram, {"resp"})
  BY <1>1, <1>2, QuietFlow
<1>4. PICK r : ram' = r /\ Alike(r, q, {"conn", "timer", "timeouts"})
  <2>1. CASE Connected
    <3>1. ram' = [q EXCEPT !.conn = "connected"]
      BY <1>2, <2>1 DEF Connected
    <3> QED BY <1>3, <3>1 DEF IsRam, Alike, Fields
  <2>2. CASE Disconnected
    <3>1. ram' = [q EXCEPT !.conn = IF ram.m_tear_down_in_progress THEN "off" ELSE "adv"]
      BY <1>2, <2>2 DEF Disconnected
    <3> QED BY <1>3, <3>1 DEF IsRam, Alike, Fields
  <2>3. CASE TimerExpires
    <3>1. ram' = [q EXCEPT !.timer = "off", !.timeouts = 1]
      BY <1>2, <2>3 DEF TimerExpires
    <3> QED BY <1>3, <3>1 DEF IsRam, Alike, Fields
  <2> QED BY <2>1, <2>2, <2>3
<1>5. /\ \A f \in FlowFields : r[f] = q[f]
      /\ r.m_dfu_timed_out = q.m_dfu_timed_out /\ r.resp = NoResponse
  BY <1>3, <1>4 DEF Alike, Fields, FlowFields
<1>6. \A f \in FlowFields : r[f] = ram[f]
  BY <1>3, <1>5
<1>7. ~r.assert
  BY <1>1, <1>3, <1>4 DEF Alike, Fields
<1>8. Handled(r)
  BY <1>1, <1>4, <1>7 DEF Handled
<1> QED BY <1>1, <1>3, <1>5, <1>6, <1>8, FlowSame, NotTheLast

(* See above.                                                              *)
LEMMA Timeout_Flow ==
    ASSUME IInv, FInv, Timeout
    PROVE  FStep
<1>1. /\ pc = "dfu" /\ UNCHANGED flash /\ IsRam(ram)
      /\ Handled(TimedOut([Quiet EXCEPT !.timeouts = 0, !.m_dfu_timed_out = TRUE]))
  BY DEF Timeout, persistent, IInv, Types
<1>2. PICK q : q = Quiet
  OBVIOUS
<1>3. IsRam(q) /\ q.resp = NoResponse /\ \A f \in FlowFields : q[f] = ram[f]
  BY <1>1, <1>2, QuietFlow
<1>4. PICK s : s = [q EXCEPT !.timeouts = 0, !.m_dfu_timed_out = TRUE]
  OBVIOUS
<1>5. IsRam(s) /\ Alike(s, q, {"timeouts", "m_dfu_timed_out"}) /\ s.m_dfu_timed_out = TRUE
  BY <1>3, <1>4 DEF IsRam, Alike, Fields
<1>6. s.resp = NoResponse /\ \A f \in FlowFields : s[f] = q[f]
  BY <1>3, <1>5 DEF Alike, Fields, FlowFields
<1>7. PICK c : c = Close(s)
  OBVIOUS
<1>8. /\ IsRam(c) /\ c.resp = NoResponse /\ \A f \in FlowFields : c[f] = s[f]
      /\ c.m_dfu_timed_out = TRUE
  BY <1>5, <1>6, <1>7, ClosedFlow
<1>9. PICK r : r = [c EXCEPT !.m_update_status = "TIMEOUT"]
  OBVIOUS
<1>10. Alike(r, c, {"m_update_status"})
  BY <1>8, <1>9 DEF IsRam, Alike, Fields
<1>11. /\ \A f \in FlowFields : r[f] = c[f]
       /\ r.m_dfu_timed_out = TRUE /\ r.resp = NoResponse
  BY <1>8, <1>10 DEF Alike, Fields, FlowFields
<1>12. \A f \in FlowFields : r[f] = ram[f]
  BY <1>3, <1>6, <1>8, <1>11
<1>13. Handled(r)
  BY <1>1, <1>2, <1>4, <1>7, <1>9 DEF TimedOut
<1> QED BY <1>1, <1>11, <1>12, <1>13, FlowSame, NotTheLast

(* What is to be shown of a write of the phone that leaves r.              *)
LEMMA FlowMoves ==
    ASSUME FInv, NEW r, IsRam(r), PhoneWrites(r),
           r.m_data_received = ram.m_data_received,
           r.resp # <<"RECEIVE_APP", "SUCCESS">>,
           r.m_dfu_state = "RX_DATA_PKT" /\ Alike(ram', r, {"late"}) /\ UNCHANGED flash
              => Flow',
           r.m_dfu_state \in Early =>
              /\ ram.m_dfu_state \in Early /\ r.sent = ram.sent
              /\ r.mp_final_packet = ram.mp_final_packet /\ r.pool = ram.pool,
           r.m_dfu_state \in Prepared => OnlySettings(r.cmds) /\ Len(r.cmds) <= 2
    PROVE  FStep
<1>1. pc = "dfu" /\ UNCHANGED flash
  BY LateIs
<1>2. PICK t : IsRam(t) /\ Alike(t, r, {"late"}) /\ Handled(t)
  BY LateIs
<1>3. /\ t.m_data_received = r.m_data_received /\ t.resp = r.resp
      /\ t.m_dfu_state = r.m_dfu_state /\ t.sent = r.sent /\ t.pool = r.pool
      /\ t.mp_final_packet = r.mp_final_packet /\ t.cmds = r.cmds
  BY <1>2 DEF Alike, Fields
<1>4. t.m_dfu_state = "RX_DATA_PKT" /\ ram' = t => Flow'
  BY <1>1, <1>2, <1>3
<1> QED BY <1>1, <1>2, <1>3, <1>4, FlowGoes

(* The start packet.                                                       *)
LEMMA StartPkt_Flow ==
    ASSUME IInv, FInv, SameStart, StartPkt
    PROVE  FStep
<1>1. PICK p \in StartPackets :
          PhoneWrites(dfu_start_pkt_handle(Quiet, p))
  BY DEF StartPkt
<1>2. pc = "dfu" /\ IsRam(ram) /\ Updating
  BY <1>1 DEF PhoneWrites, Listening, IInv, Types
<1>3. PICK q : q = Quiet
  OBVIOUS
<1>4. IsRam(q) /\ Alike(q, ram, {"resp"}) /\ q.resp = NoResponse
  BY <1>2, <1>3, QuietFlow
<1>5. PICK s : s = Started(q, p)
  OBVIOUS
<1>6. /\ IsRam(s) /\ s.m_start_packet = p
      /\ Alike(s, q, {"m_start_packet", "m_image_size", "m_functions"})
      /\ s.m_image_size \in {q.m_image_size, p.sd + p.bl + p.app}
  BY <1>4, <1>5, Started_Is
<1>7. CASE StartError(q, p) = "SUCCESS"
  <2>1. q.m_dfu_state = "IDLE"
    BY <1>4, <1>7, StartAccepted
  <2>2. ram.m_dfu_state = "IDLE"
    BY <1>4, <2>1 DEF Alike, Fields
  <2>3. PICK v : v = TimerRestarted(s)
    OBVIOUS
  <2>4. IsRam(v) /\ Alike(v, s, {"timer"})
    BY <1>6, <2>3 DEF TimerRestarted, IsRam, Alike, Fields
  <2>5. PICK u : u = [v EXCEPT !.m_dfu_state = "PREPARING",
                               !.active = IF v.m_functions = "sd" THEN BANK_0 ELSE BANK_1]
    OBVIOUS
  <2>6. IsRam(u) /\ Alike(u, v, {"m_dfu_state", "active"}) /\ u.m_dfu_state = "PREPARING"
    BY <2>4, <2>5 DEF IsRam, Alike, Fields
  <2>7. PICK c \in Cmds : Prepare(v) = Put(u, c)
    <3>1. v.m_image_size \in Nat /\ DFU_IMAGE_MAX_SIZE_BANKED \in Nat
      BY <2>4, Numbers DEF IsRam, DFU_IMAGE_MAX_SIZE_BANKED
    <3>2. Clear(BANK_0, v.m_image_size) \in Cmds /\ Clear(BANK_1, DFU_IMAGE_MAX_SIZE_BANKED) \in Cmds
      BY <3>1, BankCmdsAre
    <3> QED BY <2>5, <3>2 DEF Prepare
  <2>8. PICK r : r = Put(u, c)
    OBVIOUS
  <2>9. IsRam(r) /\ Alike(r, u, {"cmds", "assert"})
    BY <2>6, <2>8, Put_Is
  <2>10. dfu_start_pkt_handle(q, p) = r
    BY <1>5, <1>7, <2>3, <2>7, <2>8 DEF dfu_start_pkt_handle, Started
  <2>11. /\ r.m_data_received = ram.m_data_received /\ r.resp = NoResponse
         /\ r.m_dfu_state = "PREPARING" /\ r.sent = ram.sent
         /\ r.mp_final_packet = ram.mp_final_packet /\ r.pool = ram.pool
    BY <1>4, <1>6, <2>4, <2>6, <2>9 DEF Alike, Fields
  <2> QED BY <1>1, <1>3, <2>2, <2>9, <2>10, <2>11, FlowMoves, NotTheLast DEF Early, Prepared
<1>8. CASE StartError(q, p) # "SUCCESS"
  <2>1. PICK r : r = Respond(s, "START", StartError(q, p))
    OBVIOUS
  <2>2. dfu_start_pkt_handle(q, p) = r
    BY <1>5, <1>8, <2>1 DEF dfu_start_pkt_handle, Started
  <2>3. IsRam(r) /\ Alike(r, s, {"resp", "assert"})
    BY <1>6, <2>1, Respond_Is
  <2>4. s.resp = NoResponse
    BY <1>4, <1>6 DEF Alike, Fields
  <2>5. r.resp # <<"RECEIVE_APP", "SUCCESS">>
    BY <1>6, <2>1, <2>4, Answers
  <2>6. /\ \A f \in FlowFields \ {"m_image_size"} : r[f] = ram[f]
        /\ r.m_dfu_timed_out = ram.m_dfu_timed_out
        /\ r.m_image_size \in {ram.m_image_size, p.sd + p.bl + p.app}
    BY <1>4, <1>6, <2>3 DEF Alike, Fields, FlowFields
  <2>7. /\ r.m_data_received = ram.m_data_received /\ r.m_dfu_state = ram.m_dfu_state
        /\ r.sent = ram.sent /\ r.cmds = ram.cmds
        /\ r.mp_final_packet = ram.mp_final_packet /\ r.pool = ram.pool
    BY <2>6 DEF FlowFields
  <2>8. ASSUME r.m_dfu_state = "RX_DATA_PKT", Alike(ram', r, {"late"}), UNCHANGED flash
        PROVE  Flow'
    <3>1. Flow /\ Accepted /\ ram.m_dfu_state # "IDLE"
      BY <1>2, <2>7, <2>8 DEF FInv, Updating, Receiving
    <3>7. pc' = "dfu"
      <4>1. PICK u : IsRam(u) /\ Alike(u, r, {"late"}) /\ Handled(u)
        BY <1>1, <1>3, <2>2, <2>3, LateIs
      <4>2. ram'.m_dfu_state = "RX_DATA_PKT"
        BY <2>8 DEF Alike, Fields
      <4>3. CASE u.assert
        <5>1. ram' = Stopped(u)
          BY <4>1, <4>3 DEF Handled
        <5>2. ram'.m_dfu_state = "INIT_ERROR"
          BY <5>1 DEF Stopped, RamInit
        <5> QED BY <4>2, <5>2
      <4> QED BY <1>2, <4>1, <4>3 DEF Handled
    <3>8. ram'.m_start_packet = p
      BY <1>6, <2>3, <2>8 DEF Alike, Fields
    <3>2. p = ram.m_start_packet
      BY <1>2, <3>1, <3>7, <3>8 DEF SameStart
    <3>3. r.m_image_size = ram.m_image_size
      BY <2>6, <3>1, <3>2 DEF Accepted
    <3>4. \A f \in FlowFields : r[f] = ram[f]
      BY <2>6, <3>3
    <3>5. /\ \A f \in FlowFields : ram'[f] = r[f]
          /\ ram'.m_dfu_timed_out = r.m_dfu_timed_out
      BY <2>8 DEF Alike, Fields, FlowFields
    <3>6. \A f \in FlowFields : ram'[f] = ram[f]
      BY <3>4, <3>5
    <3> QED BY <2>6, <2>8, <3>1, <3>5, <3>6, FlowKept
  <2>9. r.m_dfu_state \in Prepared => OnlySettings(r.cmds) /\ Len(r.cmds) <= 2
    BY <1>2, <2>7 DEF FInv
  <2> QED BY <1>1, <1>3, <2>2, <2>3, <2>5, <2>7, <2>8, <2>9, FlowMoves
<1> QED BY <1>7, <1>8

(* A part of the init packet, taken or not.                                *)
LEMMA InitPkt_Flow ==
    ASSUME IInv, FInv, InitPkt
    PROVE  FStep
<1>1. PICK image \in Images \cup {<<"foreign">>} :
          ram.m_init_packet = <<>> /\ PhoneWrites(dfu_init_pkt_handle(Quiet, image))
  BY DEF InitPkt
<1>2. pc = "dfu" /\ IsRam(ram)
  BY <1>1 DEF PhoneWrites, Listening, IInv, Types
<1>3. PICK q : q = Quiet
  OBVIOUS
<1>4. IsRam(q) /\ Alike(q, ram, {"resp"}) /\ q.resp = NoResponse
  BY <1>2, <1>3, QuietFlow
<1>5. PICK x : x = IF q.m_dfu_state = "RDY" THEN "RX_INIT_PKT" ELSE q.m_dfu_state
  OBVIOUS
<1>6. PICK t : t = [q EXCEPT !.m_dfu_state = x]
  OBVIOUS
<1>7. IsRam(t) /\ Alike(t, q, {"m_dfu_state"}) /\ t.m_dfu_state = x
  BY <1>4, <1>6 DEF IsRam, Alike, Fields
<1>8. PICK r : r = dfu_init_pkt_handle(q, image)
  OBVIOUS
<1>9. /\ IsRam(r) /\ Alike(r, t, {"timer", "m_init_packet", "resp", "assert"})
      /\ r.resp # <<"RECEIVE_APP", "SUCCESS">>
  <2>0. t.resp = NoResponse
    BY <1>4, <1>7 DEF Alike, Fields
  <2>1. CASE InitPktTaken(q)
    <3>1. r = [TimerRestarted(t) EXCEPT !.m_init_packet = Append(@, image)]
      BY <1>4, <1>5, <1>6, <1>8, <2>1 DEF dfu_init_pkt_handle
    <3>2. PICK m : m = Append(t.m_init_packet, image)
      OBVIOUS
    <3>3. m \in Seq(Images \cup {<<"foreign">>})
      <4>1. t.m_init_packet \in Seq(Images \cup {<<"foreign">>})
        BY <1>7 DEF IsRam
      <4> QED BY <3>2, <4>1
    <3>4. r = [t EXCEPT !.timer = "on", !.m_init_packet = m]
      BY <1>7, <3>1, <3>2 DEF TimerRestarted, IsRam, Fields
    <3>5. /\ DOMAIN r = Fields /\ r.m_init_packet = m
          /\ \A f \in Fields \ {"timer", "m_init_packet"} : r[f] = t[f]
      BY <1>7, <3>4 DEF IsRam, Fields
    <3>6. IsRam(r)
      BY <1>7, <3>3, <3>5 DEF IsRam, Fields
    <3>7. Alike(r, t, {"timer", "m_init_packet", "resp", "assert"}) /\ r.resp = t.resp
      BY <3>5 DEF Alike, Fields
    <3> QED BY <2>0, <3>6, <3>7, NotTheLast
  <2>2. CASE ~InitPktTaken(q)
    <3>1. r = Respond(t, "INIT", "INVALID_STATE")
      BY <1>4, <1>5, <1>6, <1>8, <2>2 DEF dfu_init_pkt_handle
    <3>2. IsRam(r) /\ Alike(r, t, {"resp", "assert"})
      BY <1>7, <3>1, Respond_Is
    <3>3. r.resp # <<"RECEIVE_APP", "SUCCESS">>
      BY <1>7, <2>0, <3>1, Answers
    <3> QED BY <3>2, <3>3 DEF Alike, Fields
  <2> QED BY <2>1, <2>2
<1>10. \A f \in Fields \ {"m_dfu_state", "timer", "m_init_packet", "resp", "assert"} : r[f] = ram[f]
  BY <1>4, <1>7, <1>9 DEF Alike, Fields
<1>11. r.m_dfu_state = IF ram.m_dfu_state = "RDY" THEN "RX_INIT_PKT" ELSE ram.m_dfu_state
  BY <1>4, <1>5, <1>7, <1>9 DEF Alike, Fields
<1>12. /\ r.m_data_received = ram.m_data_received /\ r.cmds = ram.cmds
       /\ r.sent = ram.sent /\ r.mp_final_packet = ram.mp_final_packet /\ r.pool = ram.pool
  BY <1>10 DEF Fields
<1>13. ASSUME r.m_dfu_state = "RX_DATA_PKT", Alike(ram', r, {"late"}), UNCHANGED flash
       PROVE  Flow'
  <2>1. ram.m_dfu_state = "RX_DATA_PKT" /\ Flow
    BY <1>2, <1>11, <1>13 DEF FInv
  <2>2. ram'.m_dfu_state = ram.m_dfu_state
    BY <1>13, <2>1 DEF Alike, Fields
  <2>3. \A f \in Fields \ {"m_dfu_state", "timer", "m_init_packet", "resp", "assert", "late"} :
           ram'[f] = ram[f]
    BY <1>10, <1>13 DEF Alike, Fields
  <2>4. /\ \A f \in FlowFields : ram'[f] = ram[f]
        /\ ram'.m_dfu_timed_out = ram.m_dfu_timed_out
    BY <2>2, <2>3 DEF Fields, FlowFields
  <2> QED BY <1>13, <2>1, <2>4, FlowKept
<1>14. r.m_dfu_state \in Prepared =>
          ram.m_dfu_state \in Prepared /\ OnlySettings(r.cmds) /\ Len(r.cmds) <= 2
  BY <1>2, <1>11, <1>12 DEF FInv, Prepared
<1>15. r.m_dfu_state \in Early => ram.m_dfu_state \in Early
  BY <1>11, <1>14 DEF Early, Prepared
<1> QED BY <1>1, <1>3, <1>8, <1>9, <1>12, <1>13, <1>14, <1>15, FlowMoves

(* Data is asked for, and the bank is erased.                              *)
LEMMA FlowStarts ==
    ASSUME Fresh, OnlySettings(ram.cmds), Len(ram.cmds) <= 2, IsRam(ram),
           ram.m_data_received = 0,
           \A f \in FlowFields \ {"m_dfu_state"} : ram'[f] = ram[f]
    PROVE  Flow'
<1>1. /\ ram'.sent = <<>> /\ ram'.mp_final_packet = {} /\ ram'.pool = ram.pool
      /\ ram'.cmds = ram.cmds /\ ram'.done = ram.done /\ ram'.m_data_received = 0
      /\ ram'.m_image_size \in Nat /\ Ring(ram.pool, 0)
  BY DEF Fresh, FlowFields, IsRam
<1>2. Len(ram'.sent) = 0 /\ ram'.sent \in Seq(Contents)
  BY <1>1
<1>3. ram.cmds \in Seq(Cmds) /\ (ram.done => ram.cmds # <<>>)
  BY DEF IsRam
<1>4. \A i \in DOMAIN Todo' : Todo'[i] \in SettingsCmds
  <2>1. CASE ram.done
    <3>1. Todo' = Tail(ram.cmds) /\ OnlySettings(Tail(ram.cmds))
      BY <1>1, <1>3, <2>1, OnlyTail DEF Todo
    <3> QED BY <3>1 DEF OnlySettings
  <2>2. CASE ~ram.done
    BY <1>1, <2>2 DEF Todo, OnlySettings
  <2> QED BY <2>1, <2>2
<1>5. Sends'
  BY <1>4 DEF Sends
<1>6. Sent'
  <2>1. \A k \in 1 .. 0 : FALSE
    OBVIOUS
  <2> QED BY <1>2, <2>1 DEF Sent
<1>7. Final'
  BY <1>1 DEF Final
<1>8. InOrder(ram.cmds, ram.pool.write_index, 0)
  <2>1. PICK m : m = Len(ram.cmds)
    OBVIOUS
  <2>2. m \in Nat /\ m <= 2 /\ DOMAIN ram.cmds = 1 .. m
    BY <1>3, <2>1
  <2>3. 0 \in 0 .. m /\ m <= 0 + 2
    BY <2>2
  <2>4. ASSUME NEW k \in 1 .. m PROVE k <= m - 0 /\ ram.cmds[k] \in SettingsCmds
    BY <2>2 DEF OnlySettings
  <2> QED BY <2>1, <2>3, <2>4 DEF InOrder
<1>9. 0 \in 0 .. RX_BUF_QUEUE_SIZE
  BY Numbers
<1>10. (~Closed => \E n \in 0 .. RX_BUF_QUEUE_SIZE :
                    Ring(ram.pool, n) /\ InOrder(ram.cmds, ram.pool.write_index, n))'
  <2>1. Ring(ram'.pool, 0) /\ InOrder(ram'.cmds, ram'.pool.write_index, 0)
    BY <1>1, <1>8
  <2> QED BY <1>9, <2>1
<1>11. 4 * Len(ram'.sent) = 0 /\ 4 * Len(ram'.sent) <= ram'.m_image_size
  BY <1>1, <1>2
<1> QED BY <1>1, <1>2, <1>5, <1>6, <1>7, <1>10, <1>11 DEF Flow

(* All of the init packet was received.                                    *)
LEMMA InitComplete_Flow ==
    ASSUME IInv, FInv, InitComplete
    PROVE  FStep
<1>1. PICK q : q = [Quiet EXCEPT !.m_pkt_type = "INIT"]
  OBVIOUS
<1>2. PhoneWrites(dfu_init_pkt_complete(q))
  BY <1>1 DEF InitComplete
<1>3. pc = "dfu" /\ IsRam(ram) /\ Updating
  BY <1>2 DEF PhoneWrites, Listening, IInv, Types
<1>4. /\ IsRam(Quiet) /\ Quiet.resp = NoResponse /\ Alike(Quiet, ram, {"resp"})
  BY <1>3, QuietFlow
<1>5. /\ IsRam(q) /\ q.resp = NoResponse /\ Alike(q, ram, {"resp", "m_pkt_type"})
  <2>1. IsRam(q) /\ Alike(q, Quiet, {"m_pkt_type"})
    BY <1>1, <1>4 DEF IsRam, Alike, Fields
  <2> QED BY <1>4, <2>1 DEF Alike, Fields
<1> DEFINE err == InitError(q)
<1>6. CASE err # "SUCCESS"
  <2>1. PICK t : t = IF err = "INVALID_STATE" THEN q ELSE [q EXCEPT !.m_init_packet = <<>>]
    OBVIOUS
  <2>2. IsRam(t) /\ Alike(t, q, {"m_init_packet"})
    BY <1>5, <2>1 DEF IsRam, Alike, Fields
  <2>3. PICK r : r = Respond(t, "INIT", err)
    OBVIOUS
  <2>4. dfu_init_pkt_complete(q) = r
    BY <1>6, <2>1, <2>3 DEF dfu_init_pkt_complete
  <2>5. IsRam(r) /\ Alike(r, t, {"resp", "assert"})
    BY <2>2, <2>3, Respond_Is
  <2>6. t.resp = NoResponse
    BY <1>5, <2>2 DEF Alike, Fields
  <2>7. r.resp # <<"RECEIVE_APP", "SUCCESS">>
    BY <2>2, <2>3, <2>6, Answers
  <2>8. /\ \A f \in FlowFields : r[f] = ram[f]
        /\ r.m_dfu_timed_out = ram.m_dfu_timed_out
    BY <1>5, <2>2, <2>5 DEF Alike, Fields, FlowFields
  <2> QED BY <1>2, <2>4, <2>5, <2>7, <2>8, FlowWrites
<1>7. CASE err = "SUCCESS"
  <2>1. q.m_dfu_state = "RX_INIT_PKT" /\ q.m_init_packet # <<>>
        /\ Head(q.m_init_packet) # <<"foreign">>
    BY <1>7 DEF InitError
  <2>2. PICK image : image = Head(q.m_init_packet)
    OBVIOUS
  <2>4. PICK t : t = [q EXCEPT !.m_dfu_state = "RX_DATA_PKT", !.m_extended_packet = image]
    OBVIOUS
  <2>5. /\ IsRam(t) /\ Alike(t, q, {"m_dfu_state", "m_extended_packet"})
        /\ t.m_dfu_state = "RX_DATA_PKT"
    BY <1>5, <2>4 DEF IsRam, Alike, Fields
  <2>6. PICK r : r = Respond(t, "INIT", err)
    OBVIOUS
  <2>7. dfu_init_pkt_complete(q) = r
    BY <1>7, <2>2, <2>4, <2>6 DEF dfu_init_pkt_complete
  <2>8. IsRam(r) /\ Alike(r, t, {"resp", "assert"})
    BY <2>5, <2>6, Respond_Is
  <2>9. t.resp = NoResponse
    BY <1>5, <2>5 DEF Alike, Fields
  <2>10. r.resp # <<"RECEIVE_APP", "SUCCESS">>
    BY <2>5, <2>6, <2>9, Answers
  <2>11. /\ r.m_dfu_state = "RX_DATA_PKT"
         /\ \A f \in Fields \ {"m_dfu_state", "m_extended_packet", "resp", "assert", "m_pkt_type"} :
               r[f] = ram[f]
    BY <1>5, <2>5, <2>8 DEF Alike, Fields
  <2>12. ram.m_dfu_state = "RX_INIT_PKT"
    BY <1>5, <2>1 DEF Alike, Fields
  <2>13. /\ Fresh /\ OnlySettings(ram.cmds) /\ Len(ram.cmds) <= 2
         /\ ram.m_data_received = 0
    BY <1>3, <2>12 DEF FInv, Early, Prepared, Updating, Ready
  <2>14. r.m_data_received = ram.m_data_received
    BY <2>11 DEF Fields
  <2>15. ASSUME Alike(ram', r, {"late"}) PROVE Flow'
    <3>1. \A f \in FlowFields \ {"m_dfu_state"} : ram'[f] = ram[f]
      BY <2>11, <2>15 DEF Alike, Fields, FlowFields
    <3> QED BY <1>3, <2>13, <3>1, FlowStarts
  <2> QED BY <1>2, <2>7, <2>8, <2>10, <2>11, <2>14, <2>15, FlowMoves DEF Early, Prepared
<1> QED BY <1>6, <1>7

(* The phone asks for the check.                                           *)
LEMMA Validate_Flow ==
    ASSUME IInv, FInv, Validate
    PROVE  FStep
<1>1. PhoneWrites(dfu_image_validate(Quiet)) /\ pc = "dfu" /\ IsRam(ram)
  BY DEF Validate, PhoneWrites, Listening, IInv, Types
<1>2. PICK q : q = Quiet
  OBVIOUS
<1>3. IsRam(q) /\ Alike(q, ram, {"resp"}) /\ q.resp = NoResponse
  BY <1>1, <1>2, QuietFlow
<1> DEFINE err == ValidateError(q)
           ready == q.m_dfu_state = "RX_DATA_PKT" /\ q.m_data_received = q.m_image_size
<1>6. PICK x : x = IF err = "SUCCESS" THEN "WAIT_4_ACTIVATE" ELSE "VALIDATE"
  OBVIOUS
<1>7. PICK y : y = IF q.m_dfu_timed_out THEN q.timer ELSE "on"
  OBVIOUS
<1>8. PICK t : t = IF ready THEN [q EXCEPT !.m_dfu_state = x, !.timer = y] ELSE q
  OBVIOUS
<1>9. PICK r : r = Respond(t, "VALIDATE", err)
  OBVIOUS
<1>10. dfu_image_validate(q) = r
  BY <1>6, <1>7, <1>8, <1>9 DEF dfu_image_validate
<1>11. IsRam(t) /\ Alike(t, q, {"m_dfu_state", "timer"}) /\ t.m_dfu_state = IF ready THEN x ELSE q.m_dfu_state
  BY <1>3, <1>8 DEF IsRam, Alike, Fields
<1>12. IsRam(r) /\ Alike(r, t, {"resp", "assert"}) /\ t.resp = NoResponse
  BY <1>3, <1>9, <1>11, Respond_Is DEF Alike, Fields
<1>13. r.resp # <<"RECEIVE_APP", "SUCCESS">>
  BY <1>9, <1>11, <1>12, Answers
<1>14. CASE ready
  <2>1. r.m_dfu_state \in {"VALIDATE", "WAIT_4_ACTIVATE"}
        /\ r.m_data_received = ram.m_data_received
    BY <1>3, <1>6, <1>11, <1>12, <1>14 DEF Alike, Fields
  <2> QED BY <1>1, <1>2, <1>10, <1>12, <1>13, <2>1, FlowMoves DEF Early, Prepared
<1>15. CASE ~ready
  <2>1. t = q
    BY <1>8, <1>15
  <2>2. /\ \A f \in FlowFields : r[f] = ram[f]
        /\ r.m_dfu_timed_out = ram.m_dfu_timed_out
    BY <1>3, <1>12, <2>1 DEF Alike, Fields, FlowFields
  <2> QED BY <1>1, <1>2, <1>10, <1>12, <1>13, <2>2, FlowWrites
<1> QED BY <1>14, <1>15

(* A page goes to the flash.                                               *)
LEMMA SavingIs ==
    ASSUME NEW r, IsRam(r), NEW page, IsPage(page), NEW t, t = Saving(r, page)
    PROVE  IsRam(t) /\ Alike(t, r, {"cmds", "assert", "settings", "m_update_status"})
<1>1. PICK u : u = [r EXCEPT !.m_update_status = "SETTINGS_SAVING"]
  OBVIOUS
<1>2. IsRam(u) /\ Alike(u, r, {"m_update_status"})
  BY <1>1 DEF IsRam, Alike, Fields
<1>3. t = Save(u, page)
  BY <1>1 DEF Saving
<1>4. IsRam(t) /\ Alike(t, u, {"cmds", "assert", "settings"})
  BY <1>2, <1>3, Save_Is
<1> QED BY <1>2, <1>4 DEF Alike

(* What the activation leaves alone.                                       *)
LEMMA ActivatesIs ==
    ASSUME NEW c, IsRam(c), IsPage(settings), NEW r, r = Activate(c),
           c.m_start_packet \in StartPackets
    PROVE  IsRam(r) /\ Alike(r, c, {"timer", "cmds", "assert", "settings", "m_update_status"})
<1>1. PICK t : t = [c EXCEPT !.timer = "off"]
  OBVIOUS
<1>2. IsRam(t) /\ Alike(t, c, {"timer"})
  BY <1>1 DEF IsRam, Alike, Fields
<1>3. t.m_start_packet = c.m_start_packet
  BY <1>2 DEF Alike, Fields
<1>4. CASE c.m_dfu_state # "WAIT_4_ACTIVATE"
  <2>1. r = [c EXCEPT !.m_update_status = "RESET"]
    BY <1>4 DEF Activate, DfuReset
  <2> QED BY <2>1 DEF IsRam, Alike, Fields
<1>5. CASE c.m_dfu_state = "WAIT_4_ACTIVATE" /\ c.m_functions = "sd"
  <2>1. PICK page : page = SdPage(c.m_start_packet)
    OBVIOUS
  <2>2. IsPage(page)
    BY <2>1 DEF SdPage, IsPage
  <2>3. r = Saving(t, page)
    BY <1>1, <1>5, <2>1 DEF Activate, SdComplete, SdPage
  <2> QED BY <1>2, <2>2, <2>3, SavingIs DEF Alike
<1>6. CASE c.m_dfu_state = "WAIT_4_ACTIVATE" /\ c.m_functions = "bl"
  <2>1. PICK page : page = BlPage(c.m_start_packet)
    OBVIOUS
  <2>2. IsPage(page)
    BY <2>1 DEF BlPage, IsPage
  <2>3. r = Saving(t, page)
    BY <1>1, <1>6, <2>1 DEF Activate, BootComplete, BlPage
  <2> QED BY <1>2, <2>2, <2>3, SavingIs DEF Alike
<1>7. CASE c.m_dfu_state = "WAIT_4_ACTIVATE" /\ c.m_functions \notin {"sd", "bl"}
  <2>1. PICK size : size = t.m_start_packet.app
    OBVIOUS
  <2>2. r = dfu_activate_app(t)
    BY <1>1, <1>7 DEF Activate
  <2>3. size \in Nat
    BY <1>3, <2>1, StartPacketIs
  <2>4. Clear(BANK_0, size) \in Cmds /\ Copy(size) \in Cmds
    BY <2>3, BankCmdsAre
  <2>5. PICK t1 : t1 = Put(t, Clear(BANK_0, size))
    OBVIOUS
  <2>6. IsRam(t1) /\ Alike(t1, t, {"cmds", "assert"})
    BY <1>2, <2>4, <2>5, Put_Is
  <2>7. CASE IsFull(t1)
    <3>1. r = [t1 EXCEPT !.m_update_status = "RESET"]
      BY <2>1, <2>2, <2>5, <2>7 DEF dfu_activate_app, DfuReset
    <3>2. IsRam(r) /\ Alike(r, t1, {"m_update_status"})
      BY <2>6, <3>1 DEF IsRam, Alike, Fields
    <3> QED BY <1>2, <2>6, <3>2 DEF Alike
  <2>8. CASE ~IsFull(t1)
    <3>1. PICK t2 : t2 = Put(t1, Copy(size))
      OBVIOUS
    <3>2. IsRam(t2) /\ Alike(t2, t1, {"cmds", "assert"})
      BY <2>4, <2>6, <3>1, Put_Is
    <3>3. PICK page : page = [t2.settings EXCEPT !.bank_0_crc = NO_CRC, !.bank_0_size = size,
                                  !.bank_0 = "BANK_VALID_APP", !.bank_1 = "BANK_INVALID_APP"]
      OBVIOUS
    <3>4. IsPage(page)
      BY <3>2, <3>3 DEF IsRam, IsPage
    <3>5. r = Saving(t2, page)
      BY <2>1, <2>2, <2>5, <2>8, <3>1, <3>3 DEF dfu_activate_app, AppComplete
    <3>6. IsRam(r) /\ Alike(r, t2, {"cmds", "assert", "settings", "m_update_status"})
      BY <3>2, <3>4, <3>5, SavingIs
    <3> QED BY <1>2, <2>6, <3>2, <3>6 DEF Alike
  <2> QED BY <2>7, <2>8
<1> QED BY <1>4, <1>5, <1>6, <1>7

(* The phone asks to activate the image.                                   *)
LEMMA ActivateNReset_Flow ==
    ASSUME IInv, FInv, ActivateNReset
    PROVE  FStep
<1>1. PICK q : q = Quiet
  OBVIOUS
<1>2. PICK c : c = Close(q)
  OBVIOUS
<1>3. PICK r : r = IF c.assert THEN c ELSE Activate(c)
  OBVIOUS
<1>4. PhoneWrites(r) /\ pc = "dfu" /\ IsRam(ram) /\ Updating /\ IsPage(settings)
  BY <1>1, <1>2, <1>3 DEF ActivateNReset, PhoneWrites, Listening, IInv, Types
<1>5. /\ IsRam(q) /\ q.resp = NoResponse /\ Alike(q, ram, {"resp"})
      /\ \A f \in FlowFields : q[f] = ram[f]
      /\ q.m_dfu_timed_out = ram.m_dfu_timed_out
  BY <1>1, <1>4, QuietFlow
<1>6. /\ IsRam(c) /\ c.resp = NoResponse /\ \A f \in FlowFields : c[f] = q[f]
      /\ c.m_dfu_timed_out = q.m_dfu_timed_out
  BY <1>2, <1>5, ClosedFlow
<1>7. /\ \A f \in FlowFields : c[f] = ram[f]
      /\ c.m_dfu_timed_out = ram.m_dfu_timed_out
  BY <1>5, <1>6
<1>8. CASE c.assert
  BY <1>3, <1>4, <1>6, <1>7, <1>8, FlowWrites, NotTheLast
<1>9. CASE ~c.assert /\ ram.m_dfu_state # "WAIT_4_ACTIVATE"
  <2>1. c.m_dfu_state # "WAIT_4_ACTIVATE"
    BY <1>7, <1>9 DEF FlowFields
  <2>2. r = [c EXCEPT !.m_update_status = "RESET"]
    BY <1>3, <1>9, <2>1 DEF Activate, DfuReset
  <2>3. IsRam(r) /\ Alike(r, c, {"m_update_status"})
    BY <1>6, <2>2 DEF IsRam, Alike, Fields
  <2>4. /\ \A f \in FlowFields : r[f] = c[f]
        /\ r.m_dfu_timed_out = c.m_dfu_timed_out /\ r.resp = NoResponse
    BY <1>6, <2>3 DEF Alike, Fields, FlowFields
  <2>5. \A f \in FlowFields : r[f] = ram[f]
    BY <1>7, <2>4
  <2> QED BY <1>4, <1>7, <2>3, <2>4, <2>5, FlowWrites, NotTheLast
<1>10. CASE ~c.assert /\ ram.m_dfu_state = "WAIT_4_ACTIVATE"
  <2>1. ram.m_start_packet \in StartPackets
    BY <1>4, <1>10 DEF Updating, Checked, Refused, Activated, Saved, Accepted
  <2>2. Alike(c, q, {"m_tear_down_in_progress", "conn", "assert"})
    BY <1>2, <1>5, Close_Is
  <2>3. c.m_start_packet = ram.m_start_packet
    BY <1>5, <2>2 DEF Alike, Fields
  <2>4. r = Activate(c)
    BY <1>3, <1>10
  <2>5. IsRam(r) /\ Alike(r, c, {"timer", "cmds", "assert", "settings", "m_update_status"})
    BY <1>4, <1>6, <2>1, <2>3, <2>4, ActivatesIs
  <2>6. /\ r.m_dfu_state = c.m_dfu_state /\ r.m_data_received = c.m_data_received
        /\ r.resp = NoResponse
    BY <1>6, <2>5 DEF Alike, Fields
  <2>7. r.m_dfu_state = "WAIT_4_ACTIVATE" /\ r.m_data_received = ram.m_data_received
    BY <1>7, <1>10, <2>6 DEF FlowFields
  <2> QED BY <1>4, <2>5, <2>6, <2>7, FlowMoves, NotTheLast DEF Early, Prepared
<1> QED BY <1>8, <1>9, <1>10

(* What a command covers.                                                  *)
LEMMA AfterIs ==
    ASSUME NEW c \in Cmds
    PROVE  /\ c.at \in Nat /\ c.words \in Seq(Contents) /\ Len(c.words) \in Nat
           /\ After(c) \in Nat /\ After(c) = c.at + Len(c.words)
<1>1. c.at \in Nat /\ c.words \in Seq(Contents)
  BY DEF Cmds, AnyCmd
<1>2. Len(c.words) \in Nat
  BY <1>1
<1> QED BY <1>1, <1>2 DEF After

(* A packet that is taken: its words are the next of the image.            *)
LEMMA FlowTakes ==
    ASSUME Types, Flow, Receiving, ~Closed, WindowOpen(ram.pool),
           NEW words \in DataPackets, NEW err, NEW b, b = ram.pool.write_index,
           NEW c, c = Store(NextAt, b, words),
           ram.m_data_received + 4 * Len(words) <= ram.m_image_size,
           err = "SUCCESS" => ram.m_data_received + 4 * Len(words) = ram.m_image_size,
           UNCHANGED flash,
           ram'.cmds = Append(ram.cmds, c), ram'.done = ram.done,
           ram'.m_data_received = ram.m_data_received + 4 * Len(words),
           ram'.sent = ram.sent \o words,
           ram'.pool = Extracted(Produced(ram.pool)),
           ram'.mp_final_packet = IF err = "SUCCESS" THEN {b} ELSE ram.mp_final_packet,
           ram'.active = ram.active, ram'.m_image_size = ram.m_image_size
    PROVE  Flow'
<1>1. PICK a : a = ram.active
  OBVIOUS
<1>2. PICK s : s = ram.sent
  OBVIOUS
<1>3. PICK l : l = Len(s)
  OBVIOUS
<1>4. PICK k : k = Len(words)
  OBVIOUS
<1>5. PICK u : u = s \o words
  OBVIOUS
<1>6. /\ IsRam(ram) /\ Accepted /\ words \in Seq(Contents) /\ words # <<>>
      /\ s \in Seq(Contents)
  BY <1>2, DfuAssumption DEF Types, Receiving, Flow
<1>7. /\ l \in Nat /\ k \in Nat /\ k >= 1 /\ u \in Seq(Contents) /\ Len(u) = l + k
      /\ \A j \in 1 .. l : u[j] = s[j]
      /\ \A j \in 1 .. k : u[l + j] = words[j]
  BY <1>3, <1>4, <1>5, <1>6
<1>8. a \in Nat
  BY <1>1, <1>6, Numbers DEF Accepted, Bank
<1>9. ram.m_data_received # UINT_MAX /\ ram.m_data_received = 4 * l
  BY <1>2, <1>3 DEF Closed, Flow
<1>10. NextAt = a + l
  <2>1. (4 * l) \div 4 = l
    BY <1>7
  <2> QED BY <1>1, <1>9, <2>1 DEF NextAt
<1>11. b \in Buffers /\ IsPool(ram.pool)
  BY <1>6 DEF IsRam, IsPool
<1>12. /\ c \in Cmds /\ c.op = "store" /\ c.at = a + l /\ c.words = words
       /\ c \notin SettingsCmds
  BY <1>6, <1>7, <1>8, <1>10, <1>11, StoreIs
<1>13. c.buffer = b
  <2>1. PICK d : d = Command("store", NextAt, 4 * Len(words))
    OBVIOUS
  <2>2. DOMAIN d = {"op", "at", "size", "buffer", "words"}
    BY <2>1 DEF Command
  <2>3. c = [d EXCEPT !.buffer = b, !.words = words]
    BY <2>1 DEF Store
  <2> QED BY <2>2, <2>3
<1>14. After(c) = a + l + k
  BY <1>4, <1>7, <1>8, <1>12 DEF After
<1>15. PICK t : t = Todo
  OBVIOUS
<1>16. PICK m : m = Len(t)
  OBVIOUS
<1>17. /\ t \in Seq(Cmds) /\ Todo' = Append(t, c)
  <2>1. Left(ram') = Append(Left(ram), c) /\ Left(ram) \in Seq(Cmds)
    BY <1>6, LeftMore
  <2> QED BY <1>15, <2>1 DEF Left, Todo
<1>18. PICK v : v = Append(t, c)
  OBVIOUS
<1>19. /\ m \in Nat /\ DOMAIN t = 1 .. m /\ DOMAIN v = 1 .. m + 1 /\ Todo' = v
       /\ v[m + 1] = c /\ \A i \in 1 .. m : v[i] = t[i] /\ t[i] \in Cmds
  BY <1>16, <1>17, <1>18
<1>20. \A i \in 1 .. m : t[i] \notin SettingsCmds =>
          /\ After(t[i]) <= a + l
          /\ \A j \in 1 .. l : Lies(t[i], j) => t[i].words[a + j - t[i].at] = s[j]
  BY <1>1, <1>2, <1>3, <1>15, <1>19 DEF Flow, Sends
<1>21. \A d, j : Lies(d, j)' <=> Lies(d, j)
  BY DEF Lies, After
<1>22. \A d, j : Lies(d, j) <=> d.at <= a + j - 1 /\ a + j - 1 < After(d)
  BY <1>1 DEF Lies
<1>23. ASSUME NEW i \in 1 .. m + 1, v[i] \notin SettingsCmds
       PROVE  /\ After(v[i]) <= a + (l + k)
              /\ \A j \in 1 .. l + k : Lies(v[i], j) => v[i].words[a + j - v[i].at] = u[j]
  <2>1. CASE i \in 1 .. m
    <3>1. PICK d : d = t[i]
      OBVIOUS
    <3>2. v[i] = d /\ d \in Cmds
      BY <1>19, <2>1, <3>1
    <3>3. After(d) \in Nat /\ After(d) <= a + l
      BY <1>20, <1>23, <2>1, <3>1, <3>2, AfterIs
    <3>4. After(d) <= a + (l + k)
      BY <1>7, <1>8, <3>3
    <3>5. ASSUME NEW j \in 1 .. l + k, Lies(d, j) PROVE d.words[a + j - d.at] = u[j]
      <4>1. a + j - 1 < After(d)
        BY <1>22, <3>5
      <4>2. j \in 1 .. l
        BY <1>7, <1>8, <3>3, <4>1
      <4> QED BY <1>7, <1>20, <1>23, <2>1, <3>1, <3>2, <3>5, <4>2
    <3> QED BY <3>2, <3>4, <3>5
  <2>2. CASE i = m + 1
    <3>1. v[i] = c
      BY <1>19, <2>2
    <3>2. After(c) <= a + (l + k)
      BY <1>7, <1>8, <1>14
    <3>3. ASSUME NEW j \in 1 .. l + k, Lies(c, j) PROVE words[a + j - (a + l)] = u[j]
      <4>1. a + l <= a + j - 1
        BY <1>12, <1>22, <3>3
      <4>2. PICK h : h = j - l
        OBVIOUS
      <4>3. h \in 1 .. k /\ j = l + h /\ a + j - (a + l) = h
        BY <1>7, <1>8, <4>1, <4>2
      <4>4. u[l + h] = words[h]
        BY <1>7, <4>3
      <4> QED BY <4>3, <4>4
    <3> QED BY <1>12, <3>1, <3>2, <3>3
  <2>3. i \in 1 .. m \/ i = m + 1
    BY <1>19
  <2> QED BY <2>1, <2>2, <2>3
<1>24. Sends'
  <2>1. ram'.sent = u /\ Len(u) = l + k
    BY <1>2, <1>5, <1>7
  <2>2. ram'.active = a
    BY <1>1
  <2>3. \A d : After(d)' = After(d)
    BY DEF After
  <2> QED BY <1>19, <1>21, <1>23, <2>1, <2>2, <2>3 DEF Sends
<1>25. ASSUME NEW j \in 1 .. l + k
       PROVE  \/ flash[a + j - 1] = u[j]
              \/ \E i \in 1 .. m + 1 : v[i] \notin SettingsCmds /\ Lies(v[i], j)
  <2>1. CASE j <= l
    <3>1. j \in 1 .. l
      BY <1>7, <2>1
    <3>2. \/ flash[a + j - 1] = s[j]
          \/ \E i \in 1 .. m : t[i] \notin SettingsCmds /\ Lies(t[i], j)
      BY <1>1, <1>2, <1>3, <1>15, <1>19, <3>1 DEF Flow, Sent
    <3>3. CASE flash[a + j - 1] = s[j]
      BY <1>7, <3>1, <3>3
    <3>4. ASSUME NEW i \in 1 .. m, t[i] \notin SettingsCmds, Lies(t[i], j)
          PROVE  \E h \in 1 .. m + 1 : v[h] \notin SettingsCmds /\ Lies(v[h], j)
      <4>1. i \in 1 .. m + 1 /\ v[i] = t[i]
        BY <1>19
      <4> QED BY <3>4, <4>1
    <3> QED BY <3>2, <3>3, <3>4
  <2>2. CASE ~(j <= l)
    <3>1. a + l <= a + j - 1 /\ a + j - 1 < a + l + k
      BY <1>7, <1>8, <2>2
    <3>2. Lies(c, j)
      BY <1>12, <1>14, <1>22, <3>1
    <3>3. m + 1 \in 1 .. m + 1
      BY <1>19
    <3> QED BY <1>12, <1>19, <3>2, <3>3
  <2> QED BY <2>1, <2>2
<1>26. Sent'
  <2>1. ram'.sent = u /\ Len(u) = l + k /\ ram'.active = a
    BY <1>1, <1>2, <1>5, <1>7
  <2> QED BY <1>19, <1>21, <1>25, <2>1 DEF Sent
<1>27. ram.mp_final_packet = {}
  <2>1. ram.mp_final_packet # {} => 4 * l = ram.m_image_size
    BY <1>2, <1>3 DEF Flow, Final
  <2>2. 4 * l + 4 * k <= ram.m_image_size
    BY <1>4, <1>9
  <2> QED BY <1>7, <2>1, <2>2
<1>28. PICK n \in 0 .. RX_BUF_QUEUE_SIZE :
          Ring(ram.pool, n) /\ InOrder(ram.cmds, b, n)
  BY DEF Flow
<1>29. /\ Ring(ram'.pool, n + 1) /\ n < RX_BUF_QUEUE_SIZE
       /\ ram'.pool.write_index = Slot(b + 1)
  BY <1>11, <1>28, RingTakes
<1>30. /\ InOrder(Append(ram.cmds, c), Slot(b + 1), n + 1)
       /\ \A i \in 1 .. Len(ram.cmds) : ram.cmds[i] \notin SettingsCmds => ram.cmds[i].buffer # b
  BY <1>6, <1>11, <1>12, <1>13, <1>28, <1>29, OrderMore DEF IsRam
<1>31. n + 1 \in 0 .. RX_BUF_QUEUE_SIZE
  BY <1>28, <1>29, Numbers
<1>32. Final'
  <2>1. PICK h : h = Len(ram.cmds)
    OBVIOUS
  <2>2. ram.cmds \in Seq(Cmds)
    BY <1>6 DEF IsRam
  <2>3. /\ h \in Nat /\ Len(ram'.cmds) = h + 1
        /\ \A i \in 1 .. h : ram'.cmds[i] = ram.cmds[i]
    BY <2>1, <2>2
  <2>4. (h + 1) - 1 = h
    BY <2>3
  <2>5. ASSUME ram'.mp_final_packet # {}
        PROVE  /\ 4 * Len(ram'.sent) = ram'.m_image_size
               /\ \A i \in 1 .. h : ram'.cmds[i] \notin SettingsCmds =>
                     ram'.mp_final_packet # {ram'.cmds[i].buffer}
    <3>1. err = "SUCCESS" /\ ram'.mp_final_packet = {b}
      BY <1>27, <2>5
    <3>2. 4 * l + 4 * k = ram.m_image_size
      BY <1>4, <1>9, <3>1
    <3>3. 4 * (l + k) = ram.m_image_size
      BY <1>7, <3>2
    <3>4. Len(ram'.sent) = l + k
      BY <1>2, <1>5, <1>7
    <3>5. \A i \in 1 .. h : ram'.cmds[i] \notin SettingsCmds => ram'.cmds[i].buffer # b
      BY <1>30, <2>1, <2>3
    <3>6. \A i \in 1 .. h : ram'.cmds[i] \notin SettingsCmds => {ram'.cmds[i].buffer} # {b}
      BY <3>5
    <3> QED BY <3>1, <3>3, <3>4, <3>6
  <2> QED BY <2>3, <2>4, <2>5 DEF Final
<1>33. /\ ram'.sent \in Seq(Contents) /\ 4 * Len(ram'.sent) <= ram'.m_image_size
       /\ ram'.m_data_received = 4 * Len(ram'.sent)
  <2>1. Len(ram'.sent) = l + k
    BY <1>2, <1>5, <1>7
  <2>2. 4 * l + 4 * k = 4 * (l + k)
    BY <1>7
  <2> QED BY <1>2, <1>4, <1>5, <1>7, <1>9, <2>1, <2>2
<1> QED BY <1>24, <1>26, <1>29, <1>30, <1>31, <1>32, <1>33 DEF Flow

(* No more is taken: what goes on stays as it is.                          *)
LEMMA FlowCloses ==
    ASSUME Flow, UNCHANGED flash, Closed',
           \A f \in FlowFields \ {"pool", "m_data_received"} : ram'[f] = ram[f],
           ram'.m_data_received \in {UINT_MAX, ram.m_data_received}
    PROVE  Flow'
<1>1. /\ ram'.sent = ram.sent /\ ram'.mp_final_packet = ram.mp_final_packet
      /\ ram'.cmds = ram.cmds /\ ram'.done = ram.done
      /\ ram'.active = ram.active /\ ram'.m_image_size = ram.m_image_size
  BY DEF FlowFields
<1>2. Todo' = Todo
  BY <1>1 DEF Todo
<1>3. \A c, k : Lies(c, k)' <=> Lies(c, k)
  BY <1>1 DEF Lies, After
<1>4. Sends'
  BY <1>1, <1>2, <1>3 DEF Flow, Sends, After
<1>5. Sent'
  BY <1>1, <1>2, <1>3 DEF Flow, Sent
<1>6. Final'
  BY <1>1 DEF Flow, Final
<1>7. ram'.m_data_received # UINT_MAX => ram'.m_data_received = ram.m_data_received
  OBVIOUS
<1> QED BY <1>1, <1>4, <1>5, <1>6, <1>7 DEF Flow

(* What was received when a packet is taken.                               *)
LEMMA DataSent ==
    ASSUME NEW r, IsRam(r), NEW words, NEW b, DataError(r, words) \in Taken,
           NEW t, t = dfu_data_pkt_handle(r, b, words)
    PROVE  t.sent = r.sent \o words
<1>1. PICK s : s = [r EXCEPT !.timer = IF DataError(r, words) \in {"DATA_SIZE", "INVALID_STATE"}
                                       THEN @ ELSE "on"]
  OBVIOUS
<1>2. DOMAIN s = Fields /\ s.sent = r.sent
  BY <1>1 DEF IsRam, Fields
<1>3. PICK c, n : t = [s EXCEPT !.cmds = c, !.m_data_received = n, !.sent = s.sent \o words]
  BY <1>1 DEF dfu_data_pkt_handle
<1> QED BY <1>2, <1>3 DEF Fields

(* Data that is taken is the next of the image, ...                        *)
LEMMA DataTaken_Flow ==
    ASSUME IInv, FInv, pc = "dfu", NEW words \in DataPackets,
           NEW q, q = Quiet, WindowOpen(q.pool), DataError(q, words) \in Taken,
           PhoneWrites(app_data_process(q, words))
    PROVE  FStep
<1>1. Types /\ IsRam(ram) /\ Updating
  BY DEF IInv, Types
<1>2. IsRam(q) /\ Alike(q, ram, {"resp"}) /\ q.resp = NoResponse
  BY <1>1, QuietFlow
<1>3. PICK b : b = q.pool.write_index
  OBVIOUS
<1>4. b \in Buffers
  BY <1>2, <1>3 DEF IsRam, IsPool
<1>5. PICK s : s = [q EXCEPT !.pool = Extracted(Produced(@))]
  OBVIOUS
<1>6. /\ IsRam(s) /\ Alike(s, q, {"pool"}) /\ DataError(s, words) = DataError(q, words)
  BY <1>2, <1>5, TakesBuffer
<1>7. s.pool = Extracted(Produced(q.pool))
  BY <1>2, <1>5 DEF IsRam, Fields
<1>8. PICK t : t = dfu_data_pkt_handle(s, b, words)
  OBVIOUS
<1>9. PICK f : f = IF DataError(q, words) = "SUCCESS" THEN {b} ELSE t.mp_final_packet
  OBVIOUS
<1>10. PICK r : r = IF DataError(q, words) = "SUCCESS" THEN [t EXCEPT !.mp_final_packet = {b}] ELSE t
  OBVIOUS
<1>11. app_data_process(q, words) = r
  BY <1>3, <1>5, <1>8, <1>10 DEF app_data_process, Taken
<1>12. q.m_dfu_state = "RX_DATA_PKT" /\ ~q.m_dfu_timed_out
  BY DEF DataError, Taken
<1>13. ram.m_dfu_state = "RX_DATA_PKT" /\ ~ram.m_dfu_timed_out /\ q.pool = ram.pool
  BY <1>2, <1>12 DEF Alike, Fields
<1>14. Receiving /\ Flow
  BY <1>1, <1>13 DEF Updating, FInv
<1>15. Alike(q, ram, {"resp", "pool"})
  BY <1>2 DEF Alike
<1>16. /\ UINT(ram.m_data_received + 4 * Len(words)) = ram.m_data_received + 4 * Len(words)
       /\ ram.m_data_received + 4 * Len(words) <= ram.m_image_size
       /\ ram.m_data_received # UINT_MAX
  BY <1>1, <1>2, <1>14, <1>15, DataFits
<1>17. /\ s.m_data_received = ram.m_data_received /\ s.active = ram.active
       /\ s.cmds = ram.cmds /\ s.sent = ram.sent /\ s.mp_final_packet = ram.mp_final_packet
  BY <1>2, <1>6 DEF Alike, Fields
<1>18. ram.active \in Nat
  BY <1>14, Numbers DEF Receiving, Accepted, Bank
<1>19. /\ IsRam(t) /\ Alike(t, s, {"timer", "cmds", "m_data_received", "sent"})
       /\ t.m_data_received = ram.m_data_received + 4 * Len(words)
       /\ t.cmds = Append(ram.cmds, Store(ram.active + ram.m_data_received \div 4, b, words))
  BY <1>4, <1>6, <1>8, <1>16, <1>17, <1>18, DataTaken
<1>20. t.sent = ram.sent \o words
  BY <1>6, <1>8, <1>17, DataSent
<1>21. IsRam(r) /\ Alike(r, t, {"mp_final_packet"}) /\ r.mp_final_packet = f
  BY <1>9, <1>10, <1>19 DEF IsRam, Alike, Fields
<1>22. PICK v : IsRam(v) /\ Alike(v, r, {"late"}) /\ Handled(v)
  BY <1>11, <1>21, LateIs
<1>23. UNCHANGED flash
  BY <1>11, <1>21, LateIs
<1>24. PICK c : c = Store(NextAt, b, words)
  OBVIOUS
<1>25. /\ v.cmds = Append(ram.cmds, c) /\ v.sent = ram.sent \o words
       /\ v.m_data_received = ram.m_data_received + 4 * Len(words)
  BY <1>19, <1>20, <1>21, <1>22, <1>24 DEF Alike, Fields, NextAt
<1>26. /\ v.done = ram.done /\ v.active = ram.active /\ v.m_image_size = ram.m_image_size
       /\ v.m_dfu_state = "RX_DATA_PKT" /\ v.resp = NoResponse
       /\ v.pool = Extracted(Produced(ram.pool)) /\ v.mp_final_packet = f
       /\ t.mp_final_packet = ram.mp_final_packet
  BY <1>2, <1>6, <1>7, <1>12, <1>13, <1>17, <1>19, <1>21, <1>22 DEF Alike, Fields
<1>27. ~Closed
  BY <1>13, <1>16 DEF Closed
<1>28. DataError(q, words) = "SUCCESS" =>
          ram.m_data_received + 4 * Len(words) = ram.m_image_size
  <2>1. q.m_data_received = ram.m_data_received /\ q.m_image_size = ram.m_image_size
    BY <1>2 DEF Alike, Fields
  <2> QED BY <1>16, <2>1 DEF DataError
<1>29. ASSUME ram' = v, pc' = "dfu" PROVE FStep
  <2>0. PICK e : e = DataError(q, words)
    OBVIOUS
  <2>4. /\ ram'.cmds = Append(ram.cmds, c) /\ ram'.done = ram.done
        /\ ram'.m_data_received = ram.m_data_received + 4 * Len(words)
        /\ ram'.sent = ram.sent \o words
        /\ ram'.pool = Extracted(Produced(ram.pool))
        /\ ram'.active = ram.active /\ ram'.m_image_size = ram.m_image_size
    BY <1>25, <1>26, <1>29
  <2>5. ram'.mp_final_packet = IF e = "SUCCESS" THEN {b} ELSE ram.mp_final_packet
    BY <1>9, <1>26, <1>29, <2>0
  <2>6. e = "SUCCESS" => ram.m_data_received + 4 * Len(words) = ram.m_image_size
    BY <1>28, <2>0
  <2>7. b = ram.pool.write_index /\ WindowOpen(ram.pool)
    BY <1>3, <1>13
  <2>1. Flow'
    BY <1>1, <1>14, <1>16, <1>23, <1>24, <1>27, <2>4, <2>5, <2>6, <2>7, FlowTakes
  <2>2. FInv'
    BY <1>26, <1>29, <2>1 DEF FInv, Early, Prepared
  <2>3. Tells /\ Overruns
    BY <1>16, <1>26, <1>29, NotTheLast DEF Tells, Overruns
  <2> QED BY <2>2, <2>3 DEF FStep
<1> QED BY <1>22, <1>29, FlowHandled

(* ... and data that is refused leaves the buffers as they were, or no     *)
(* more is taken: the queue has room for all the buffers.                  *)
LEMMA DataRefused_Flow ==
    ASSUME PSTORAGE_CMD_QUEUE_SIZE >= RX_BUF_QUEUE_SIZE + 2,
           IInv, FInv, pc = "dfu", NEW words \in DataPackets,
           NEW q, q = Quiet, WindowOpen(q.pool), DataError(q, words) \notin Taken,
           PhoneWrites(app_data_process(q, words))
    PROVE  FStep
<1> DEFINE err == DataError(q, words)
<1>1. Types /\ IsRam(ram) /\ Updating
  BY DEF IInv, Types
<1>2. IsRam(q) /\ Alike(q, ram, {"resp"}) /\ q.resp = NoResponse
  BY <1>1, QuietFlow
<1>3. PICK b : b = q.pool.write_index
  OBVIOUS
<1>5. PICK s : s = [q EXCEPT !.pool = Extracted(Produced(@))]
  OBVIOUS
<1>6. /\ IsRam(s) /\ Alike(s, q, {"pool"}) /\ DataError(s, words) = err
  BY <1>2, <1>5, TakesBuffer
<1>7. s.pool = Extracted(Produced(q.pool))
  BY <1>2, <1>5 DEF IsRam, Fields
<1>8. PICK t : t = dfu_data_pkt_handle(s, b, words)
  OBVIOUS
<1>9. PICK u : u = [t EXCEPT !.pool = Consumed(@, b)]
  OBVIOUS
<1>10. PICK r : r = Respond(u, "RECEIVE_APP", err)
  OBVIOUS
<1>11. app_data_process(q, words) = r
  BY <1>3, <1>5, <1>8, <1>9, <1>10 DEF app_data_process, Taken
<1>12. /\ IsRam(t) /\ Alike(t, s, {"timer", "m_data_received"})
       /\ t.m_data_received = IF err = "DATA_SIZE" THEN UINT_MAX ELSE s.m_data_received
  BY <1>6, <1>8, DataRefused
<1>13. IsRam(u) /\ Alike(u, t, {"pool"}) /\ u.pool = Consumed(t.pool, b)
  <2>1. PICK p : p = Consumed(t.pool, b)
    OBVIOUS
  <2>2. IsPool(p)
    BY <1>12, <2>1, PoolIs DEF IsRam
  <2>3. u = [t EXCEPT !.pool = p]
    BY <1>9, <2>1
  <2> QED BY <1>12, <2>1, <2>2, <2>3 DEF IsRam, Alike, Fields
<1>14. IsRam(r) /\ Alike(r, u, {"resp", "assert"})
  BY <1>10, <1>13, Respond_Is
<1>15. r.resp # <<"RECEIVE_APP", "SUCCESS">>
  <2>1. u.resp = NoResponse
    BY <1>2, <1>6, <1>12, <1>13 DEF Alike, Fields
  <2>2. err # "SUCCESS"
    BY DEF Taken
  <2> QED BY <1>10, <1>13, <2>1, <2>2, Answers
<1>16. /\ \A f \in Fields \ {"resp", "assert", "pool", "timer", "m_data_received"} : r[f] = ram[f]
       /\ r.pool = Consumed(Extracted(Produced(ram.pool)), b)
       /\ b = ram.pool.write_index /\ WindowOpen(ram.pool)
       /\ r.m_data_received = IF err = "DATA_SIZE" THEN UINT_MAX ELSE ram.m_data_received
  BY <1>2, <1>3, <1>6, <1>7, <1>12, <1>13, <1>14 DEF Alike, Fields
<1>17. PICK v : IsRam(v) /\ Alike(v, r, {"late"}) /\ Handled(v)
  BY <1>11, <1>14, LateIs
<1>18. UNCHANGED flash
  BY <1>11, <1>14, LateIs
<1>19. /\ \A f \in Fields \ {"resp", "assert", "pool", "timer", "m_data_received", "late"} :
             v[f] = ram[f]
       /\ v.pool = r.pool /\ v.m_data_received = r.m_data_received /\ v.resp = r.resp
  BY <1>16, <1>17 DEF Alike, Fields
<1>20. /\ v.m_dfu_state = ram.m_dfu_state /\ v.sent = ram.sent /\ v.cmds = ram.cmds
       /\ v.mp_final_packet = ram.mp_final_packet
       /\ v.m_dfu_timed_out = ram.m_dfu_timed_out
  BY <1>19 DEF Fields
<1>21. ASSUME ram.m_dfu_state \in Early PROVE Ring(v.pool, 0)
  <2>1. Ring(ram.pool, 0) /\ IsPool(ram.pool)
    BY <1>1, <1>21 DEF FInv, Fresh, IsRam
  <2>2. PICK p : p = Extracted(Produced(ram.pool))
    OBVIOUS
  <2>3. IsPool(p) /\ Ring(p, 0 + 1) /\ p.write_index = Slot(b + 1)
    BY <1>16, <2>1, <2>2, RingTakes
  <2>4. b \in Buffers
    BY <1>16, <2>1 DEF IsPool
  <2>5. Before(p.write_index, 1) = b
    BY <2>3, <2>4, BeforeNext
  <2>6. Ring(p, 1) /\ 1 # 0
    BY <2>3
  <2>7. Ring(Consumed(p, b), 1 - 1)
    BY <2>3, <2>5, <2>6, RingGives
  <2> QED BY <1>16, <1>19, <2>2, <2>7
<1>22. /\ q.m_dfu_state = ram.m_dfu_state /\ q.m_data_received = ram.m_data_received
       /\ q.m_dfu_timed_out = ram.m_dfu_timed_out /\ q.cmds = ram.cmds
  BY <1>2 DEF Alike, Fields
<1>23. ASSUME ram.m_dfu_state = "RX_DATA_PKT", ~Closed PROVE err = "DATA_SIZE"
  <2>1. Receiving /\ Flow
    BY <1>1, <1>23 DEF Updating, FInv
  <2>2. ~ram.m_dfu_timed_out /\ ram.m_data_received % 4 = 0
    BY <1>23, <2>1 DEF Closed, Receiving
  <2>3. ~IsFull(q)
    <3>1. PICK n \in 0 .. RX_BUF_QUEUE_SIZE :
              Ring(ram.pool, n) /\ InOrder(ram.cmds, ram.pool.write_index, n)
      BY <1>23, <2>1 DEF Flow
    <3>2. n < RX_BUF_QUEUE_SIZE
      BY <1>1, <1>16, <3>1, RingTakes DEF IsRam
    <3>3. Len(ram.cmds) <= n + 2
      BY <3>1 DEF InOrder
    <3>4. Len(ram.cmds) \in Nat
      BY <1>1 DEF IsRam
    <3>5. Len(ram.cmds) # PSTORAGE_CMD_QUEUE_SIZE
      BY <3>1, <3>2, <3>3, <3>4, Numbers, DfuAssumption
    <3> QED BY <1>22, <3>5 DEF IsFull
  <2> QED BY <1>22, <1>23, <2>2, <2>3 DEF DataError, Taken, IsWordAligned
<1>24. ASSUME ram' = v, pc' = "dfu" PROVE FStep
  <2>1. CASE ram.m_dfu_state = "RX_DATA_PKT"
    <3>1. Flow
      BY <2>1 DEF FInv
    <3>2. Closed'
      BY <1>16, <1>19, <1>20, <1>23, <1>24, <2>1 DEF Closed
    <3>3. \A f \in FlowFields \ {"pool", "m_data_received"} : ram'[f] = ram[f]
      BY <1>19, <1>24 DEF Fields, FlowFields
    <3>4. ram'.m_data_received \in {UINT_MAX, ram.m_data_received}
      BY <1>16, <1>19, <1>24
    <3>5. Flow'
      BY <1>18, <3>1, <3>2, <3>3, <3>4, FlowCloses
    <3> QED BY <1>15, <1>19, <1>20, <1>24, <2>1, <3>4, <3>5
        DEF FStep, FInv, Tells, Overruns, Early, Prepared
  <2>2. CASE ram.m_dfu_state # "RX_DATA_PKT"
    <3>1. err = "INVALID_STATE"
      BY <1>22, <2>2 DEF DataError
    <3>2. v.m_data_received = ram.m_data_received
      BY <1>16, <1>19, <3>1
    <3>3. Tells /\ Overruns
      BY <1>15, <1>19, <1>24, <3>2 DEF Tells, Overruns
    <3>4. ram.m_dfu_state \in Early => Fresh'
      BY <1>20, <1>21, <1>24 DEF FInv, Fresh
    <3>5. FInv'
      BY <1>20, <1>24, <2>2, <3>4 DEF FInv, OnlySettings
    <3> QED BY <3>3, <3>5 DEF FStep
  <2> QED BY <2>1, <2>2
<1> QED BY <1>17, <1>24, FlowHandled

(* See above.                                                              *)
LEMMA DataPkt_Flow ==
    ASSUME PSTORAGE_CMD_QUEUE_SIZE >= RX_BUF_QUEUE_SIZE + 2, IInv, FInv, DataPkt
    PROVE  FStep
<1>1. PICK words \in DataPackets : PhoneWrites(app_data_process(Quiet, words))
  BY DEF DataPkt
<1>2. pc = "dfu" /\ IsRam(ram)
  BY <1>1 DEF PhoneWrites, Listening, IInv, Types
<1>3. PICK q : q = Quiet
  OBVIOUS
<1>4. CASE WindowOpen(q.pool)
  BY <1>1, <1>2, <1>3, <1>4, DataTaken_Flow, DataRefused_Flow
<1>5. CASE ~WindowOpen(q.pool)
  <2>1. /\ IsRam(q) /\ q.resp = NoResponse /\ \A f \in FlowFields : q[f] = ram[f]
        /\ q.m_dfu_timed_out = ram.m_dfu_timed_out
    BY <1>2, <1>3, QuietFlow
  <2>2. PICK r : r = Respond(q, "RECEIVE_APP", "NO_MEM")
    OBVIOUS
  <2>3. app_data_process(q, words) = r
    BY <1>5, <2>2 DEF app_data_process
  <2>4. IsRam(r) /\ Alike(r, q, {"resp", "assert"})
    BY <2>1, <2>2, Respond_Is
  <2>5. r.resp # <<"RECEIVE_APP", "SUCCESS">>
    BY <2>1, <2>2, Answers
  <2>6. /\ \A f \in FlowFields : r[f] = q[f]
        /\ r.m_dfu_timed_out = q.m_dfu_timed_out
    BY <2>4 DEF Alike, Fields, FlowFields
  <2>7. /\ \A f \in FlowFields : r[f] = ram[f]
        /\ r.m_dfu_timed_out = ram.m_dfu_timed_out
    BY <2>1, <2>6
  <2> QED BY <1>1, <1>3, <2>3, <2>4, <2>5, <2>7, FlowWrites
<1> QED BY <1>4, <1>5

(* A packet goes to the flash.                                             *)
LEMMA StoreDone ==
    ASSUME NEW c \in Cmds, c.op = "store", c.size = 4 * Len(c.words), flash' = FlashDone(c),
           NEW x \in Addresses, c.at <= x, x < After(c), flash[x] = EMPTY
    PROVE  flash'[x] = c.words[x - c.at + 1]
<1>1. /\ c.at \in Nat /\ Len(c.words) \in Nat /\ After(c) = c.at + Len(c.words)
  BY AfterIs
<1>2. PICK k : k = Len(c.words)
  OBVIOUS
<1>3. k \in Nat
  BY <1>1, <1>2
<1>4. (4 * k) \div 4 = k
  BY <1>3
<1>5. PICK b : b = c.size \div 4
  OBVIOUS
<1>6. ~(x < c.at \/ x >= c.at + c.size \div 4)
  <2>1. b = k /\ After(c) = c.at + k
    BY <1>1, <1>2, <1>4, <1>5
  <2>2. PICK a : a = c.at
    OBVIOUS
  <2>3. x \in Int /\ a \in Int /\ a <= x /\ x < a + k
    BY <1>1, <2>1, <2>2, Numbers
  <2>4. ~(x < a \/ x >= a + b)
    BY <1>3, <2>1, <2>3
  <2> QED BY <1>5, <2>2, <2>4
<1>7. flash'[x] = Programmed(flash[x], Source(c)[x - c.at + 1])
  BY <1>6 DEF FlashDone
<1>8. Programmed(EMPTY, Source(c)[x - c.at + 1]) = Source(c)[x - c.at + 1]
  BY DEF Programmed
<1> QED BY <1>7, <1>8 DEF Source

(* What was received is still to be stored, or in the bank.                *)
LEMMA FlowWritten ==
    ASSUME IInv, Flow, Receiving, FlashWrites
    PROVE  Flow'
<1>1. /\ Types /\ Alike(ram', ram, {"resp", "done"}) /\ Todo # <<>>
      /\ Todo' = Tail(Todo) /\ Todo \in Seq(Cmds) /\ flash' = FlashDone(Head(Todo))
  BY Writes
<1>2. /\ ram'.sent = ram.sent /\ ram'.mp_final_packet = ram.mp_final_packet
      /\ ram'.cmds = ram.cmds /\ ram'.pool = ram.pool
      /\ ram'.active = ram.active /\ ram'.m_image_size = ram.m_image_size
      /\ ram'.m_data_received = ram.m_data_received
      /\ ram'.m_dfu_timed_out = ram.m_dfu_timed_out
  BY <1>1 DEF Alike, Fields
<1>3. PICK s : s = Todo
  OBVIOUS
<1>4. PICK u : u = Tail(s)
  OBVIOUS
<1>5. PICK c : c = Head(s)
  OBVIOUS
<1>6. /\ 1 \in DOMAIN s /\ c = s[1] /\ c \in Cmds
      /\ \A i \in DOMAIN u :
            /\ i + 1 \in DOMAIN s /\ u[i] = s[i + 1] /\ i \in Int /\ 1 < i + 1
            /\ s[i + 1] \in Cmds
  BY <1>1, <1>3, <1>4, <1>5, TailFrom
<1>7. \A d, k : (Lies(d, k)' <=> Lies(d, k)) /\ After(d)' = After(d)
  BY <1>2 DEF Lies, After
<1>8. Sends'
  <2>1. ASSUME NEW i \in DOMAIN u, u[i] \notin SettingsCmds
        PROVE  /\ After(u[i]) <= ram.active + Len(ram.sent)
               /\ \A k \in 1 .. Len(ram.sent) :
                     Lies(u[i], k) =>
                        u[i].words[ram.active + k - u[i].at] = ram.sent[k]
    <3>1. i + 1 \in DOMAIN s /\ u[i] = s[i + 1]
      BY <1>6
    <3> QED BY <1>3, <2>1, <3>1 DEF Flow, Sends
  <2>2. Todo' = u
    BY <1>1, <1>3, <1>4
  <2> QED BY <1>2, <1>7, <2>1, <2>2 DEF Sends
<1>9. PICK a : a = ram.active
  OBVIOUS
<1>10. PICK l : l = Len(ram.sent)
  OBVIOUS
<1>11. /\ a \in Nat /\ l \in Nat /\ a + l <= 2 * BankWords
  <2>1. Accepted /\ ram.m_image_size \in Nat
    BY <1>1 DEF Receiving, Types, IsRam
  <2>2. ram.m_image_size <= 4 * Limit(ram.m_functions) /\ a = Bank(ram.m_functions)
    BY <1>9, <2>1 DEF Accepted
  <2>3. a \in Nat /\ Limit(ram.m_functions) \in Nat
        /\ a + Limit(ram.m_functions) = 2 * BankWords
    BY <2>2, Numbers DEF Bank, Limit
  <2>4. l \in Nat /\ 4 * l <= ram.m_image_size
    BY <1>10 DEF Flow
  <2>5. l <= Limit(ram.m_functions)
    BY <2>1, <2>2, <2>3, <2>4
  <2> QED BY <2>3, <2>4, <2>5, Numbers
<1>12. ASSUME NEW k \in 1 .. l PROVE a + k - 1 \in Addresses
  BY <1>11, Numbers
<1>13. ASSUME NEW k \in 1 .. l, c \notin SettingsCmds, Lies(c, k)
       PROVE  flash'[a + k - 1] = ram.sent[k]
  <2>1. PICK x : x = a + k - 1
    OBVIOUS
  <2>2. x \in Addresses /\ c.at <= x /\ x < After(c)
    BY <1>9, <1>12, <1>13, <2>1 DEF Lies
  <2>3. /\ c.op = "store" /\ c.size = 4 * Len(c.words)
        /\ \A y \in Addresses : y >= c.at /\ y < After(c) => flash[y] = EMPTY
    BY <1>3, <1>6, <1>13 DEF Receiving, Stores
  <2>4. c.at \in Nat /\ After(c) \in Nat
    BY <1>6, AfterIs
  <2>5. flash[x] = EMPTY
    BY <2>2, <2>3, <2>4, Numbers
  <2>6. flash'[x] = c.words[x - c.at + 1]
    BY <1>1, <1>3, <1>5, <1>6, <2>2, <2>3, <2>5, StoreDone
  <2>7. x - c.at + 1 = a + k - c.at
    BY <1>11, <2>1, <2>4
  <2>8. c.words[a + k - c.at] = ram.sent[k]
    BY <1>3, <1>6, <1>9, <1>10, <1>13 DEF Flow, Sends
  <2> QED BY <2>1, <2>6, <2>7, <2>8
<1>14. ASSUME NEW k \in 1 .. l, c \in SettingsCmds \/ ~Lies(c, k)
       PROVE  flash'[a + k - 1] = flash[a + k - 1]
  <2>1. CASE c \in SettingsCmds
    BY <1>3, <1>5, <2>1, WritesSettings
  <2>2. CASE c \notin SettingsCmds
    <3>1. c.size = 4 * Len(c.words)
      BY <1>3, <1>6, <2>2 DEF Receiving, Stores
    <3>2. PICK x : x = a + k - 1
      OBVIOUS
    <3>3. x \in Addresses /\ x \in Int /\ ~(c.at <= x /\ x < After(c))
      BY <1>9, <1>12, <1>14, <2>2, <3>2, Numbers DEF Lies
    <3>4. c.at \in Nat /\ After(c) \in Nat
      BY <1>6, AfterIs
    <3>5. x < c.at \/ x >= After(c)
      BY <3>3, <3>4
    <3> QED BY <1>1, <1>3, <1>5, <1>6, <3>1, <3>2, <3>3, <3>5, StoreWords
  <2> QED BY <2>1, <2>2
<1>15. ASSUME NEW k \in 1 .. l
       PROVE  \/ flash'[a + k - 1] = ram.sent[k]
              \/ \E i \in DOMAIN u : u[i] \notin SettingsCmds /\ Lies(u[i], k)
  <2>1. CASE c \notin SettingsCmds /\ Lies(c, k)
    BY <1>13, <2>1
  <2>2. CASE ~(c \notin SettingsCmds /\ Lies(c, k))
    <3>1. \/ flash[a + k - 1] = ram.sent[k]
          \/ \E i \in DOMAIN s : s[i] \notin SettingsCmds /\ Lies(s[i], k)
      BY <1>3, <1>9, <1>10 DEF Flow, Sent
    <3>2. ASSUME NEW i \in DOMAIN s, s[i] \notin SettingsCmds, Lies(s[i], k)
          PROVE  \E h \in DOMAIN u : u[h] \notin SettingsCmds /\ Lies(u[h], k)
      <4>1. i # 1
        BY <1>6, <2>2, <3>2
      <4>2. PICK h : h = i - 1
        OBVIOUS
      <4>3. h \in DOMAIN u /\ u[h] = s[i]
        <5>1. s \in Seq(Cmds) /\ s # <<>>
          BY <1>1, <1>3
        <5> QED BY <1>4, <4>1, <4>2, <5>1
      <4> QED BY <3>2, <4>3
    <3> QED BY <1>14, <2>2, <3>1, <3>2
  <2> QED BY <2>1, <2>2
<1>16. Sent'
  <2>1. Todo' = u
    BY <1>1, <1>3, <1>4
  <2> QED BY <1>2, <1>7, <1>9, <1>10, <1>15, <2>1 DEF Sent
<1>17. Final'
  BY <1>2 DEF Flow, Final
<1>18. Closed' <=> Closed
  BY <1>2 DEF Closed
<1> QED BY <1>2, <1>8, <1>16, <1>17, <1>18 DEF Flow

(* See above.                                                              *)
LEMMA FlashWrites_Flow ==
    ASSUME IInv, FInv, FlashWrites
    PROVE  FStep
<1>1. Alike(ram', ram, {"resp", "done"}) /\ UNCHANGED pc
  BY Writes
<1>2. ram'.resp = NoResponse
  <2>1. IsRam(ram)
    BY DEF IInv, Types
  <2>2. IsRam(Quiet) /\ Quiet.resp = NoResponse
    BY <2>1, QuietFlow
  <2>3. ram' = [Quiet EXCEPT !.done = TRUE]
    BY DEF FlashWrites
  <2> QED BY <2>2, <2>3 DEF IsRam, Fields
<1>3. /\ ram'.sent = ram.sent /\ ram'.mp_final_packet = ram.mp_final_packet
      /\ ram'.cmds = ram.cmds /\ ram'.pool = ram.pool
      /\ ram'.m_dfu_state = ram.m_dfu_state
      /\ ram'.m_data_received = ram.m_data_received
  BY <1>1 DEF Alike, Fields
<1>4. Tells /\ Overruns
  BY <1>2, <1>3, NotTheLast DEF Tells, Overruns
<1>5. Fresh => Fresh'
  BY <1>3 DEF Fresh
<1>6. pc = "dfu" /\ ram.m_dfu_state = "RX_DATA_PKT" => Flow'
  <2>1. ASSUME pc = "dfu", ram.m_dfu_state = "RX_DATA_PKT" PROVE Flow'
    <3>1. Flow /\ Receiving
      BY <2>1 DEF FInv, IInv, Updating
    <3> QED BY <3>1, FlowWritten
  <2> QED BY <2>1
<1>7. FInv'
  BY <1>1, <1>2, <1>3, <1>5, <1>6 DEF FInv, OnlySettings
<1> QED BY <1>4, <1>7 DEF FStep

(* Main hears of a command.                                                *)
LEMMA PoppedFlow ==
    ASSUME IsRam(ram), ram.cmds # <<>>
    PROVE  /\ IsRam(Popped) /\ Alike(Popped, ram, {"resp", "cmds", "done"})
           /\ Popped.cmds = Tail(ram.cmds) /\ Popped.done = FALSE
           /\ Popped.resp = NoResponse
<1>1. IsRam(Quiet) /\ Quiet.resp = NoResponse
  BY QuietFlow
<1>2. Popped.resp = Quiet.resp
  BY <1>1 DEF Popped, IsRam, Fields
<1> QED BY <1>1, <1>2, Popped_Is

(* A callback that has no part in it.                                      *)
LEMMA CallbackQuiet ==
    ASSUME NEW q, IsRam(q), NEW c,
           ~(c.op = "clear" /\ q.m_dfu_state = "PREPARING"),
           ~(c.op \in {"store", "copy"} /\ q.m_dfu_state = "RX_DATA_PKT"),
           NEW r, r = Callback(q, c, TRUE)
    PROVE  IsRam(r) /\ Alike(r, q, {"m_update_status"})
<1>1. r = IF c.op = "store_settings" /\ q.m_update_status = "SETTINGS_SAVING"
          THEN [q EXCEPT !.m_update_status = "COMPLETE"] ELSE q
  BY DEF Callback
<1> QED BY <1>1 DEF IsRam, Alike, Fields

(* In the end of a swap.                                                   *)
LEMMA FinalEvent_Flow ==
    ASSUME IInv, FInv, FlashEvent, pc = "finalize"
    PROVE  FStep
<1>1. PICK q : q = Popped
  OBVIOUS
<1>2. PICK r : r = Callback(q, Head(ram.cmds), TRUE)
  OBVIOUS
<1>3. ram.cmds # <<>> /\ Handled(r)
  BY <1>1, <1>2 DEF FlashEvent
<1>4. IsRam(ram) /\ Finalizing /\ Fresh
  BY DEF IInv, Types, FInv
<1>5. /\ IsRam(q) /\ Alike(q, ram, {"resp", "cmds", "done"}) /\ q.resp = NoResponse
  BY <1>1, <1>3, <1>4, PoppedFlow
<1>6. q.m_dfu_state = "INIT_ERROR" /\ q.m_data_received = 0
  BY <1>4, <1>5 DEF Finalizing, Alike, Fields
<1>7. IsRam(r) /\ Alike(r, q, {"m_update_status"})
  BY <1>2, <1>5, <1>6, CallbackQuiet
<1>8. /\ r.sent = ram.sent /\ r.mp_final_packet = ram.mp_final_packet /\ r.pool = ram.pool
      /\ r.resp = NoResponse /\ r.assert = ram.assert
  BY <1>5, <1>7 DEF Alike, Fields
<1>9. ram' = r /\ pc' = "finalize"
  BY <1>3, <1>8 DEF Handled, IInv
<1>10. FInv'
  BY <1>4, <1>8, <1>9 DEF FInv, Fresh
<1>11. Tells
  BY <1>8, <1>9, NotTheLast DEF Tells
<1>12. Overruns
  BY <1>4, <1>9 DEF Overruns
<1> QED BY <1>10, <1>11, <1>12 DEF FStep

(* In an update: the bank is erased.                                       *)
LEMMA PreparedEvent_Flow ==
    ASSUME IInv, FInv, FlashEvent, pc = "dfu", ram.m_dfu_state = "PREPARING"
    PROVE  FStep
<1>1. PICK q : q = Popped
  OBVIOUS
<1>2. PICK r : r = Callback(q, Head(ram.cmds), TRUE)
  OBVIOUS
<1>3. ram.cmds # <<>> /\ Handled(r)
  BY <1>1, <1>2 DEF FlashEvent
<1>4. IsRam(ram) /\ Unmarked /\ Preparing
  BY DEF IInv, Types, Updating
<1>5. /\ IsRam(q) /\ Alike(q, ram, {"resp", "cmds", "done"})
      /\ q.cmds = Tail(ram.cmds) /\ q.done = FALSE /\ q.resp = NoResponse
  BY <1>1, <1>3, <1>4, PoppedFlow
<1>6. Tail(ram.cmds) = <<>> /\ Head(ram.cmds).op = "clear"
  <2>1. PICK c : c = IF ram.m_functions = "sd" THEN Clear(BANK_0, ram.m_image_size)
                     ELSE Clear(BANK_1, DFU_IMAGE_MAX_SIZE_BANKED)
    OBVIOUS
  <2>2. c.op = "clear"
    BY <2>1, CommandFields DEF Clear
  <2>3. ram.cmds = <<c>>
    BY <1>4, <2>1 DEF Preparing
  <2> QED BY <2>2, <2>3
<1>7. /\ q.m_dfu_state = "PREPARING" /\ ~Marks(settings) /\ ~Marks(q.settings)
      /\ q.cmds = <<>>
  BY <1>4, <1>5, <1>6 DEF Unmarked, Alike, Fields
<1>8. Left(q) = <<>> /\ OnlySettings(Left(q)) /\ Len(q.cmds) = 0
  <2>1. OnlySettings(<<>>) /\ Len(<<>>) = 0
    BY DEF OnlySettings
  <2>2. Left(q) = <<>>
    BY <1>5, <1>7 DEF Left
  <2> QED BY <1>7, <2>1, <2>2
<1>9. PICK t : t = Erases(q)
  OBVIOUS
<1>10. IsRam(t) /\ Alike(t, q, {"cmds", "assert", "settings"}) /\ Len(t.cmds) <= 2
  <2>1. CASE q.m_functions = "sd"
    <3>1. PICK page : page = ErasedMark(q.settings)
      OBVIOUS
    <3>2. IsPage(page)
      BY <1>5, <1>7, <3>1, ErasedMark_Is DEF IsRam
    <3>3. t = Save(q, page)
      BY <1>9, <2>1, <3>1 DEF Erases
    <3>4. /\ IsRam(t) /\ Alike(t, q, {"cmds", "assert", "settings"})
          /\ \/ t.cmds = <<>>
             \/ t.cmds = Append(<<>>, ClearSettings)
             \/ t.cmds = Append(Append(<<>>, ClearSettings), StoreSettings)
      BY <1>5, <1>7, <3>2, <3>3, Save_Is
    <3>5. t.cmds = <<>> \/ t.cmds = <<ClearSettings>> \/ t.cmds = <<ClearSettings, StoreSettings>>
      <4>1. Append(<<>>, ClearSettings) = <<ClearSettings>>
        OBVIOUS
      <4> QED BY <3>4, <4>1, Pair
    <3>6. Len(t.cmds) <= 2
      <4>1. /\ Len(<<>>) = 0 /\ Len(<<ClearSettings>>) = 1
            /\ Len(<<ClearSettings, StoreSettings>>) = 2
        OBVIOUS
      <4>2. PICK n : n = Len(t.cmds)
        OBVIOUS
      <4>3. n = 0 \/ n = 1 \/ n = 2
        BY <3>5, <4>1, <4>2, Zenon
      <4>4. n <= 2
        BY <4>3
      <4> QED BY <4>2, <4>4
    <3> QED BY <3>4, <3>6
  <2>2. CASE q.m_functions # "sd"
    <3>1. t = q
      BY <1>9, <2>2 DEF Erases
    <3>2. PICK n : n = Len(t.cmds)
      OBVIOUS
    <3>3. n = 0
      BY <1>8, <3>1, <3>2
    <3>4. n <= 2
      BY <3>3
    <3>5. IsRam(t) /\ Alike(t, q, {"cmds", "assert", "settings"})
      BY <1>5, <3>1 DEF Alike, IsRam
    <3> QED BY <3>2, <3>4, <3>5
  <2> QED BY <2>1, <2>2
<1>11. PICK u : u = [t EXCEPT !.m_dfu_state = "RDY"]
  OBVIOUS
<1>12. IsRam(u) /\ Alike(u, t, {"m_dfu_state"})
  BY <1>10, <1>11 DEF IsRam, Alike, Fields
<1>13. r = Respond(u, "START", "SUCCESS")
  <2>1. r = Respond([Erases(q) EXCEPT !.m_dfu_state = "RDY"], "START", "SUCCESS")
    BY <1>2, <1>6, <1>7 DEF Callback, Erases, Bank0Erased, ErasedMark
  <2> QED BY <1>9, <1>11, <2>1
<1>14. u.resp = NoResponse
  BY <1>5, <1>10, <1>12 DEF Alike, Fields
<1>15. r.resp # <<"RECEIVE_APP", "SUCCESS">>
  BY <1>12, <1>13, <1>14, Answers
<1>16. /\ r.m_dfu_state = "RDY" /\ OnlySettings(Left(r))
       /\ Alike(r, q, {"cmds", "assert", "settings", "m_dfu_state", "resp"})
  <2>1. r = Respond([Erases(q) EXCEPT !.m_dfu_state = "RDY"], "START", "SUCCESS")
    BY <1>9, <1>11, <1>13
  <2> QED BY <1>5, <1>7, <1>8, <2>1, Erases_Is
<1>17. IsRam(r) /\ Alike(r, u, {"resp", "assert"})
  BY <1>12, <1>13, Respond_Is
<1>18. /\ r.cmds = t.cmds /\ r.m_data_received = ram.m_data_received
       /\ r.sent = ram.sent /\ r.mp_final_packet = ram.mp_final_packet /\ r.pool = ram.pool
       /\ r.done = FALSE
  BY <1>5, <1>10, <1>12, <1>16, <1>17 DEF Alike, Fields
<1>19. OnlySettings(r.cmds) /\ Len(r.cmds) <= 2
  BY <1>10, <1>16, <1>18 DEF Left
<1> QED BY <1>3, <1>15, <1>16, <1>18, <1>19, FlowGoes DEF Early

(* A command leaves the queue, and its buffer is free again.               *)
LEMMA FlowPops ==
    ASSUME Flow, IsRam(ram), ram.cmds # <<>>, ram.done, UNCHANGED flash,
           ram'.cmds = Tail(ram.cmds), ram'.done = FALSE, ram'.sent = ram.sent,
           ram'.mp_final_packet = ram.mp_final_packet, ram'.active = ram.active,
           ram'.m_image_size = ram.m_image_size,
           ram'.m_data_received = ram.m_data_received,
           ram'.m_dfu_timed_out = ram.m_dfu_timed_out,
           ram'.pool = IF Head(ram.cmds).op \in {"store", "copy"}
                       THEN Consumed(ram.pool, Head(ram.cmds).buffer) ELSE ram.pool
    PROVE  Flow'
<1>1. Todo = Tail(ram.cmds) /\ Todo' = Todo
  BY DEF Todo
<1>2. \A c, k : (Lies(c, k)' <=> Lies(c, k)) /\ After(c)' = After(c)
  BY DEF Lies, After
<1>3. Sends'
  BY <1>1, <1>2 DEF Flow, Sends
<1>4. Sent'
  BY <1>1, <1>2 DEF Flow, Sent
<1>5. PICK s : s = ram.cmds
  OBVIOUS
<1>6. PICK t : t = Tail(s)
  OBVIOUS
<1>7. s \in Seq(Cmds) /\ s # <<>> /\ Head(s) \in Cmds
  BY <1>5 DEF IsRam
<1>8. Final'
  <2>1. PICK m : m = Len(s)
    OBVIOUS
  <2>2. m \in Nat /\ Len(t) = m - 1 /\ \A k \in 1 .. m - 1 : t[k] = s[k + 1]
    BY <1>6, <1>7, <2>1
  <2>3. ASSUME ram.mp_final_packet # {}, NEW i \in 1 .. (m - 1) - 1,
               t[i] \notin SettingsCmds
        PROVE  ram.mp_final_packet # {t[i].buffer}
    <3>1. i \in 1 .. m - 1 /\ i + 1 \in 1 .. m - 1
      BY <2>2
    <3>2. t[i] = s[i + 1]
      BY <2>2, <3>1
    <3> QED BY <1>5, <2>1, <2>3, <3>1, <3>2 DEF Flow, Final
  <2> QED BY <1>5, <1>6, <2>2, <2>3 DEF Flow, Final
<1>9. ASSUME ~Closed
      PROVE  \E n \in 0 .. RX_BUF_QUEUE_SIZE :
                Ring(ram'.pool, n) /\ InOrder(t, ram'.pool.write_index, n)
  <2>1. PICK n \in 0 .. RX_BUF_QUEUE_SIZE :
           Ring(ram.pool, n) /\ InOrder(s, ram.pool.write_index, n)
    BY <1>5, <1>9 DEF Flow
  <2>2. IsPool(ram.pool) /\ ram.pool.write_index \in Buffers
    BY DEF IsRam, IsPool
  <2>3. \/ Head(s) \in SettingsCmds /\ InOrder(t, ram.pool.write_index, n)
        \/ /\ n # 0 /\ Head(s).op = "store"
           /\ Head(s).buffer = Before(ram.pool.write_index, n)
           /\ InOrder(t, ram.pool.write_index, n - 1)
    BY <1>6, <1>7, <2>1, <2>2, OrderLess
  <2>4. CASE Head(s) \in SettingsCmds /\ InOrder(t, ram.pool.write_index, n)
    <3>1. Head(s).op \notin {"store", "copy"}
      BY <2>4, SettingsCmdsAre DEF SettingsCmds, FlashOps
    <3> QED BY <1>5, <2>1, <2>4, <3>1
  <2>5. CASE /\ n # 0 /\ Head(s).op = "store"
             /\ Head(s).buffer = Before(ram.pool.write_index, n)
             /\ InOrder(t, ram.pool.write_index, n - 1)
    <3>1. PICK p : p = Consumed(ram.pool, Before(ram.pool.write_index, n))
      OBVIOUS
    <3>2. ram'.pool = p
      BY <1>5, <2>5, <3>1
    <3>3. Ring(p, n - 1) /\ p.write_index = ram.pool.write_index
      BY <2>1, <2>2, <2>5, <3>1, RingGives
    <3>4. n - 1 \in 0 .. RX_BUF_QUEUE_SIZE
      BY <2>1, <2>5, Numbers
    <3> QED BY <2>5, <3>2, <3>3, <3>4
  <2> QED BY <2>3, <2>4, <2>5
<1>10. Closed' <=> Closed
  BY DEF Closed
<1> QED BY <1>3, <1>4, <1>5, <1>6, <1>8, <1>9, <1>10 DEF Flow

(* The last of what was sent is in the bank.                               *)
LEMMA FinalTells ==
    ASSUME IInv, Flow, Receiving, ram.cmds # <<>>, ram.done, NEW c, c = Head(ram.cmds),
           c \notin SettingsCmds, ram.mp_final_packet = {c.buffer}
    PROVE  Holds(ram.active, ram.sent) /\ 4 * Len(ram.sent) = ram.m_image_size
<1>1. PICK s : s = ram.cmds
  OBVIOUS
<1>2. PICK m : m = Len(s)
  OBVIOUS
<1>3. s \in Seq(Cmds) /\ s # <<>>
  BY <1>1 DEF IInv, Types, IsRam
<1>4. m \in Nat /\ m >= 1 /\ Head(s) = s[1]
  BY <1>2, <1>3
<1>5. ram.mp_final_packet # {}
  OBVIOUS
<1>6. ~(1 \in 1 .. m - 1)
  <2>1. ASSUME 1 \in 1 .. m - 1 PROVE FALSE
    <3>1. s[1] \notin SettingsCmds /\ ram.mp_final_packet = {s[1].buffer}
      BY <1>1, <1>4
    <3> QED BY <1>1, <1>2, <1>5, <2>1, <3>1 DEF Flow, Final
  <2> QED BY <2>1
<1>7. m = 1
  BY <1>4, <1>6
<1>8. Len(Tail(s)) = 0
  <2>1. Len(Tail(s)) = m - 1
    BY <1>2, <1>3
  <2> QED BY <1>7, <2>1
<1>9. DOMAIN Todo = {}
  <2>1. Todo = Tail(s) /\ Todo \in Seq(Cmds)
    BY <1>1, <1>3 DEF Todo
  <2> QED BY <1>8, <2>1
<1>10. \A k \in 1 .. Len(ram.sent) : flash[ram.active + k - 1] = ram.sent[k]
  BY <1>9 DEF Flow, Sent
<1>11. ram.active \in Nat
  BY Numbers DEF Receiving, Accepted, Bank
<1>12. Holds(ram.active, ram.sent)
  <2>1. PICK v : v = ram.sent
    OBVIOUS
  <2>2. PICK a : a = ram.active
    OBVIOUS
  <2>3. v \in Seq(Contents) /\ a \in Nat /\ \A k \in 1 .. Len(v) : flash[a + k - 1] = v[k]
    BY <1>10, <1>11, <2>1, <2>2 DEF Flow
  <2>4. [k \in 1 .. (4 * Len(v)) \div 4 |-> flash[a + k - 1]] = v
    BY <2>3, ContentIs
  <2>5. Holds(a, v)
    BY <2>4 DEF Holds, Content
  <2> QED BY <2>1, <2>2, <2>5
<1> QED BY <1>5, <1>12 DEF Flow, Final

(* Main hears of a command while data is received.                         *)
LEMMA ReceivingEvent_Flow ==
    ASSUME IInv, FInv, FlashEvent, pc = "dfu", ram.m_dfu_state = "RX_DATA_PKT"
    PROVE  FStep
<1>1. PICK q : q = Popped
  OBVIOUS
<1>2. PICK c : c = Head(ram.cmds)
  OBVIOUS
<1>3. PICK r : r = Callback(q, c, TRUE)
  OBVIOUS
<1>4. ram.cmds # <<>> /\ ram.done /\ Handled(r) /\ UNCHANGED flash
  BY <1>1, <1>2, <1>3 DEF FlashEvent, persistent
<1>5. IsRam(ram) /\ Receiving /\ Flow
  BY DEF IInv, Types, Updating, FInv
<1>6. /\ IsRam(q) /\ Alike(q, ram, {"resp", "cmds", "done"})
      /\ q.cmds = Tail(ram.cmds) /\ q.done = FALSE /\ q.resp = NoResponse
  BY <1>1, <1>4, <1>5, PoppedFlow
<1>7. q.m_dfu_state = "RX_DATA_PKT" /\ q.pool = ram.pool
      /\ q.mp_final_packet = ram.mp_final_packet
  BY <1>6 DEF Alike, Fields
<1>8. CASE c.op \notin {"store", "copy"}
  <2>1. IsRam(r) /\ Alike(r, q, {"m_update_status"})
    BY <1>3, <1>6, <1>7, <1>8, CallbackQuiet
  <2>2. /\ r.m_dfu_state = "RX_DATA_PKT" /\ r.resp = NoResponse
        /\ r.cmds = Tail(ram.cmds) /\ r.done = FALSE
        /\ r.sent = ram.sent /\ r.mp_final_packet = ram.mp_final_packet
        /\ r.active = ram.active /\ r.m_image_size = ram.m_image_size
        /\ r.m_data_received = ram.m_data_received
        /\ r.m_dfu_timed_out = ram.m_dfu_timed_out /\ r.pool = ram.pool
    BY <1>6, <1>7, <2>1 DEF Alike, Fields
  <2>3. ASSUME ram' = r PROVE Flow'
    BY <1>2, <1>4, <1>5, <1>8, <2>2, <2>3, FlowPops
  <2> QED BY <1>4, <2>2, <2>3, NotTheLast, FlowGoes DEF Early, Prepared
<1>9. CASE c.op \in {"store", "copy"}
  <2>1. PICK p : p = Consumed(q.pool, c.buffer)
    OBVIOUS
  <2>2. IsPool(p)
    BY <1>6, <2>1, PoolIs DEF IsRam
  <2>3. PICK t : t = [q EXCEPT !.pool = p]
    OBVIOUS
  <2>4. IsRam(t) /\ Alike(t, q, {"pool"}) /\ t.pool = p
    BY <1>6, <2>2, <2>3 DEF IsRam, Alike, Fields
  <2>5. r = IF IsFinal(t, c.buffer) THEN Respond(t, "RECEIVE_APP", "SUCCESS") ELSE t
    BY <1>3, <1>7, <1>9, <2>1, <2>3 DEF Callback, DataPacketCb
  <2>6. IsRam(r) /\ Alike(r, t, {"resp", "assert"})
    BY <2>4, <2>5, Respond_Is DEF Alike
  <2>7. /\ r.m_dfu_state = "RX_DATA_PKT" /\ r.pool = p
        /\ r.cmds = Tail(ram.cmds) /\ r.done = FALSE
        /\ r.sent = ram.sent /\ r.mp_final_packet = ram.mp_final_packet
        /\ r.active = ram.active /\ r.m_image_size = ram.m_image_size
        /\ r.m_data_received = ram.m_data_received
        /\ r.m_dfu_timed_out = ram.m_dfu_timed_out
    BY <1>6, <1>7, <2>4, <2>6 DEF Alike, Fields
  <2>8. p = Consumed(ram.pool, c.buffer)
    BY <1>7, <2>1
  <2>9. t.resp = NoResponse /\ t.mp_final_packet = ram.mp_final_packet
    BY <1>6, <1>7, <2>4 DEF Alike, Fields
  <2>10. c \notin SettingsCmds
    BY <1>9, SettingsCmdsAre DEF SettingsCmds, FlashOps
  <2>11. ASSUME r.resp = <<"RECEIVE_APP", "SUCCESS">>
         PROVE  Holds(ram.active, ram.sent) /\ 4 * Len(ram.sent) = ram.m_image_size
    <3>1. IsFinal(t, c.buffer)
      BY <2>5, <2>9, <2>11, NotTheLast
    <3>2. ram.mp_final_packet = {c.buffer}
      BY <2>9, <3>1 DEF IsFinal
    <3> QED BY <1>2, <1>4, <1>5, <2>10, <3>2, FinalTells
  <2>12. ASSUME ram' = r, pc' = "dfu" PROVE FStep
    <3>1. Flow'
      BY <1>2, <1>4, <1>5, <1>9, <2>7, <2>8, <2>12, FlowPops
    <3>2. FInv'
      BY <2>7, <2>12, <3>1 DEF FInv, Early, Prepared
    <3>3. Tells
      BY <2>11, <2>12 DEF Tells
    <3>4. Overruns
      BY <2>7, <2>12 DEF Overruns
    <3> QED BY <3>2, <3>3, <3>4 DEF FStep
  <2> QED BY <1>4, <2>12, FlowHandled
<1> QED BY <1>8, <1>9

(* See above.                                                              *)
LEMMA FlashEvent_Flow ==
    ASSUME IInv, FInv, FlashEvent
    PROVE  FStep
<1>1. pc \in {"dfu", "finalize"} /\ ram.cmds # <<>>
  BY DEF FlashEvent
<1>2. CASE pc = "dfu" /\ ram.m_dfu_state \notin {"PREPARING", "RX_DATA_PKT"}
  <2>1. PICK q : q = Popped
    OBVIOUS
  <2>2. PICK c : c = Head(ram.cmds)
    OBVIOUS
  <2>3. PICK r : r = Callback(q, c, TRUE)
    OBVIOUS
  <2>4. Handled(r) /\ IsRam(ram)
    BY <2>1, <2>2, <2>3 DEF FlashEvent, IInv, Types
  <2>5. /\ IsRam(q) /\ Alike(q, ram, {"resp", "cmds", "done"})
        /\ q.cmds = Tail(ram.cmds) /\ q.resp = NoResponse
    BY <1>1, <2>1, <2>4, PoppedFlow
  <2>6. q.m_dfu_state \notin {"PREPARING", "RX_DATA_PKT"}
    BY <1>2, <2>5 DEF Alike, Fields
  <2>7. IsRam(r) /\ Alike(r, q, {"m_update_status"})
    BY <2>3, <2>5, <2>6, CallbackQuiet
  <2>8. /\ r.m_dfu_state = ram.m_dfu_state /\ r.resp = NoResponse
        /\ r.cmds = Tail(ram.cmds) /\ r.sent = ram.sent
        /\ r.mp_final_packet = ram.mp_final_packet /\ r.pool = ram.pool
        /\ r.m_data_received = ram.m_data_received
    BY <2>5, <2>7 DEF Alike, Fields
  <2>9. ASSUME r.m_dfu_state \in Prepared PROVE OnlySettings(r.cmds) /\ Len(r.cmds) <= 2
    <3>1. OnlySettings(ram.cmds) /\ Len(ram.cmds) <= 2
      BY <1>2, <2>8, <2>9 DEF FInv
    <3>2. ram.cmds \in Seq(Cmds)
      BY <2>4 DEF IsRam
    <3>3. OnlySettings(Tail(ram.cmds))
      BY <1>1, <3>1, <3>2, OnlyTail
    <3>4. Len(Tail(ram.cmds)) <= 2
      <4>1. PICK m : m = Len(ram.cmds)
        OBVIOUS
      <4>2. m \in Nat /\ Len(Tail(ram.cmds)) = m - 1
        BY <1>1, <3>2, <4>1
      <4> QED BY <3>1, <4>1, <4>2
    <3> QED BY <2>8, <3>3, <3>4
  <2> QED BY <1>2, <2>4, <2>8, <2>9, NotTheLast, FlowGoes
<1> QED BY <1>1, <1>2, FinalEvent_Flow, PreparedEvent_Flow, ReceivingEvent_Flow

-----------------------------------------------------------------------------
(* Main, and resets.                                                       *)

(* After a reset nothing was received.                                     *)
LEMMA RamInitFresh ==
    /\ RamInit.sent = <<>> /\ RamInit.mp_final_packet = {} /\ RamInit.resp = NoResponse
    /\ RamInit.m_data_received = 0 /\ Ring(RamInit.pool, 0)
<1>1. /\ RamInit.sent = <<>> /\ RamInit.mp_final_packet = {} /\ RamInit.resp = NoResponse
      /\ RamInit.m_data_received = 0 /\ RamInit.pool = EmptyRing
  BY DEF RamInit
<1>2. /\ EmptyRing.free_window_count = RX_BUF_QUEUE_SIZE
      /\ EmptyRing.free_available_count = 0 /\ EmptyRing.read_available_count = 0
      /\ EmptyRing.write_index = 0 /\ EmptyRing.read_index = 0
  BY DEF EmptyRing
<1>3. 0 \in 0 .. RX_BUF_QUEUE_SIZE /\ RX_BUF_QUEUE_SIZE - 0 = RX_BUF_QUEUE_SIZE
      /\ \A j \in 1 .. 0 : FALSE
  BY Numbers
<1>4. Ring(EmptyRing, 0)
  BY <1>2, <1>3 DEF Ring
<1> QED BY <1>1, <1>4

(* Main, before an update.                                                 *)
LEMMA Starting_Flow ==
    ASSUME IInv, Boot \/ EnterDfu \/ EraseSettings \/ EraseBanks \/ SwapSd
    PROVE  FStep
<1>1. /\ pc \in {"app", "boot", "erase_settings", "erase_banks", "swap_sd"}
      /\ pc' \in {"boot", "erase_settings", "erase_banks", "check", "swap_bl"}
      /\ ram' = ram
  BY DEF Boot, EnterDfu, EraseSettings, EraseBanks, SwapSd, Goes
<1>2. ram = RamInit
  BY <1>1 DEF IInv, Steady
<1> QED BY <1>1, <1>2, StoppedElsewhere

(* The end of a swap.                                                      *)
LEMMA SwapEnds_Flow ==
    ASSUME IInv, ram = RamInit, ram' = SdSwapped(ram), pc' = "finalize"
    PROVE  FStep
<1> DEFINE page == [IF settings.bank_0 = "BANK_VALID_SD"
                    THEN Page("BANK_INVALID_APP", NO_CRC, 0) ELSE settings
                       EXCEPT !.bank_1 = "BANK_INVALID_APP",
                              !.sd_image_size = 0, !.bl_image_size = 0]
<1>1. IsPage(page)
  BY DEF IInv, Types, Page, IsPage
<1>2. ram' = Saving(ram, page)
  BY DEF SdSwapped
<1> HIDE DEF page
<1>3. IsRam(ram)
  BY RamInit_Is
<1>4. Alike(ram', ram, {"m_update_status", "cmds", "assert", "settings"})
  <2>1. Alike(Saving(ram, page), ram, {"m_update_status", "cmds", "assert", "settings"})
    BY <1>1, <1>3, SavingIs DEF Alike
  <2> QED BY <1>2, <2>1
<1>5. /\ ram'.sent = <<>> /\ ram'.mp_final_packet = {} /\ ram'.resp = NoResponse
      /\ Ring(ram'.pool, 0) /\ ram.m_data_received = 0
  BY <1>4, RamInitFresh DEF Alike, Fields
<1>6. FInv'
  BY <1>5 DEF FInv, Fresh
<1>7. Tells /\ Overruns
  BY <1>5, NotTheLast DEF Tells, Overruns
<1> QED BY <1>6, <1>7 DEF FStep

(* See above.                                                              *)
LEMMA Swap_Flow ==
    ASSUME IInv, CheckSd \/ SwapBl
    PROVE  FStep
<1>1. ram = RamInit
  BY DEF CheckSd, SwapBl, IInv, Steady
<1>2. \/ ram' = SdSwapped(ram) /\ pc' = "finalize"
      \/ ram' = ram /\ pc' \in {"swap_sd", "reset"}
  BY DEF CheckSd, SwapBl, Goes
<1> QED BY <1>1, <1>2, SwapEnds_Flow, StoppedElsewhere

(* The bootloader waits for an update.                                     *)
LEMMA StartUpdate_Flow ==
    ASSUME Types, StartUpdate, Fresh, ram.resp = NoResponse, ram.m_data_received = 0
    PROVE  FStep
<1>1. /\ pc' = "dfu"
      /\ ram' = [ram EXCEPT !.m_dfu_state = "IDLE", !.timer = "on", !.conn = "adv"]
  BY DEF StartUpdate, Goes
<1>2. IsRam(ram)
  BY DEF Types
<1>3. Alike(ram', ram, {"m_dfu_state", "timer", "conn"}) /\ ram'.m_dfu_state = "IDLE"
  BY <1>1, <1>2 DEF IsRam, Alike, Fields
<1>4. /\ ram'.sent = ram.sent /\ ram'.mp_final_packet = ram.mp_final_packet
      /\ ram'.pool = ram.pool /\ ram'.resp = NoResponse /\ ram'.m_data_received = 0
  BY <1>3 DEF Alike, Fields
<1>5. FInv'
  BY <1>1, <1>3, <1>4 DEF FInv, Fresh, Early, Prepared
<1>6. Tells /\ Overruns
  BY <1>4, NotTheLast DEF Tells, Overruns
<1> QED BY <1>5, <1>6 DEF FStep

(* See above.                                                              *)
LEMMA CheckApp_Flow ==
    ASSUME IInv, FInv, CheckApp
    PROVE  FStep
<1>1. Types
  BY DEF IInv
<1>2. Fresh /\ ram.resp = NoResponse /\ ram.m_data_received = 0
  <2>1. CASE pc = "check"
    BY <2>1, RamInitFresh DEF IInv, Steady, Fresh
  <2>2. CASE pc = "finalize"
    BY <2>2 DEF IInv, Finalizing, FInv
  <2> QED BY <2>1, <2>2 DEF CheckApp
<1>3. CASE Leave
  BY <1>3, StoppedElsewhere DEF Leave, Goes
<1>4. CASE StartUpdate
  BY <1>1, <1>2, <1>4, StartUpdate_Flow
<1> QED BY <1>3, <1>4 DEF CheckApp

(* The end of an update, and resets.                                       *)
LEMMA Ends_Flow ==
    ASSUME UpdateEnds \/ SystemReset \/ PowerLoss
    PROVE  FStep
BY StoppedElsewhere DEF UpdateEnds, Leave, Goes, SystemReset, PowerLoss, CutOff

(* A failure of the flash stops main.                                      *)
LEMMA FlashError_Flow ==
    ASSUME IInv, FlashError
    PROVE  FStep
<1>1. PICK r : r = Assert(Callback(Popped, Head(ram.cmds), FALSE))
  OBVIOUS
<1>2. InProgress /\ pc \in {"dfu", "finalize"} /\ Handled(r)
  BY <1>1 DEF FlashError
<1>3. r.assert
  BY <1>1, <1>2, FailedCallback
<1> QED BY <1>2, <1>3, StoppedElsewhere DEF Handled

(* Steps that change nothing.                                              *)
LEMMA Stutter_Flow ==
    ASSUME FInv, UNCHANGED vars
    PROVE  FInv'
<1>1. UNCHANGED <<flash, pc, ram>>
  BY DEF vars
<1>2. Flow => Flow'
  BY <1>1, FlowKept DEF FlowFields
<1>3. Fresh => Fresh'
  BY <1>1 DEF Fresh
<1> QED BY <1>1, <1>2, <1>3 DEF FInv

(* Every step.                                                             *)
LEMMA Next_Flow ==
    ASSUME SameStart, PSTORAGE_CMD_QUEUE_SIZE >= RX_BUF_QUEUE_SIZE + 2, IInv, FInv, Next
    PROVE  FStep
<1>1. CASE Main
  BY <1>1, Starting_Flow, Swap_Flow, CheckApp_Flow, Ends_Flow, FlashWrites_Flow,
     FlashEvent_Flow DEF Main
<1>2. CASE InitStart \/ ReceiveApp
  BY <1>2, TypeWrites_Flow DEF InitStart, ReceiveApp
<1>3. CASE Phone
  BY <1>2, <1>3, StartMode_Flow, StartPkt_Flow, InitPkt_Flow, InitComplete_Flow,
     DataPkt_Flow, Validate_Flow, ActivateNReset_Flow, SysReset_Flow, Radio_Flow DEF Phone
<1>4. CASE TimerExpires \/ Timeout
  BY <1>4, Radio_Flow, Timeout_Flow
<1>5. CASE EnterDfu \/ FlashError \/ PowerLoss
  BY <1>5, Starting_Flow, FlashError_Flow, Ends_Flow
<1> QED BY <1>1, <1>3, <1>4, <1>5 DEF Next

(* At all times.                                                           *)
LEMMA FlowAlways ==
    ASSUME PSTORAGE_CMD_QUEUE_SIZE >= RX_BUF_QUEUE_SIZE + 2
    PROVE  Spec /\ [][SameStart]_vars => [](IInv /\ FInv)
<1>1. Init => IInv /\ FInv
  <2>1. Init => FInv
    BY DEF Init, FInv
  <2> QED BY <2>1, InitInv
<1>2. IInv /\ FInv /\ [Next]_vars /\ [SameStart]_vars => IInv' /\ FInv'
  <2>1. IInv /\ FInv /\ Next /\ SameStart => FInv'
    BY Next_Flow DEF FStep
  <2> QED BY <2>1, Next_IInv, Stutter_IInv, Stutter_Flow
<1> QED BY <1>1, <1>2, PTL DEF Spec

(* As long as the phone sends no other start packet while its update is    *)
(* under way, it is told that all data was received only when all of it is *)
(* in the flash: the last packet leaves the queue of commands last.        *)
THEOREM FinalIsTrue ==
    ASSUME PSTORAGE_CMD_QUEUE_SIZE >= RX_BUF_QUEUE_SIZE + 2
    PROVE  Spec /\ [][SameStart]_vars => FinalTruthful
<1>1. Spec /\ [][SameStart]_vars => [](IInv /\ FInv)
  BY FlowAlways
<1>2. IInv /\ FInv /\ [Next]_vars /\ [SameStart]_vars =>
         [ram'.resp = <<"RECEIVE_APP", "SUCCESS">> =>
             /\ Holds(ram.active, ram.sent)
             /\ 4 * Len(ram.sent) = ram.m_image_size]_vars
  BY Next_Flow DEF FStep, Tells
<1> QED BY <1>1, <1>2, PTL DEF Spec, FinalTruthful

(* As long as the phone sends no other start packet while its update is    *)
(* under way, nothing more is stored in this session after too much data.  *)
THEOREM OverrunIsFinal ==
    ASSUME PSTORAGE_CMD_QUEUE_SIZE >= RX_BUF_QUEUE_SIZE + 2
    PROVE  Spec /\ [][SameStart]_vars => OverrunFinal
<1>1. Spec /\ [][SameStart]_vars => [](IInv /\ FInv)
  BY FlowAlways
<1>2. IInv /\ FInv /\ [Next]_vars /\ [SameStart]_vars =>
         [ram.m_data_received = UINT_MAX =>
             ram'.m_data_received = UINT_MAX \/ pc' # "dfu"]_vars
  BY Next_Flow DEF FStep, Overruns
<1> QED BY <1>1, <1>2, PTL DEF Spec, OverrunFinal

=============================================================================
