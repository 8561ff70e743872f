------------------------------- MODULE SpiFlash -------------------------------
(***************************************************************************)
(* The NOR flash of el5/02 behind sim_spi_transfer, and the driver         *)
(* functions on top of it.  A byte is the set of its bits that are 1.      *)
(* JEDEC ID, READ and READ_STATUS change nothing in the device.            *)
(***************************************************************************)
EXTENDS Naturals

CONSTANTS FLASH_SIZE,   \* 256 bytes in the source
          Bits          \* the bits of a byte

VARIABLES filled,
          flash, wel,   \* g_flash; the WEL bit of g_status
          promised,     \* what the caller who obeys flash_program's comment expects
          enabled       \* flash_write_enable() was called for the next operation

vars == <<filled, flash, wel, promised, enabled>>
Addr == 0..FLASH_SIZE - 1
Erased == [a \in Addr |-> Bits]
Bytes == SUBSET Bits
\* The bytes of buf from addr on, which wrap around at the end of the flash.
And(f, addr, buf, len) == [a \in Addr |->
    LET i == (a + FLASH_SIZE - addr) % FLASH_SIZE
    IN IF i < len THEN f[a] \cap buf[i] ELSE f[a]]

\* sim_flash_init
Init == /\ filled \in BOOLEAN
        /\ flash = Erased /\ wel = FALSE
        /\ promised = Erased /\ enabled = FALSE

\* One transfer: WRITE_EN, PAGE_PROG (at most a whole flash), CHIP_ERASE.
TransferWriteEn == wel' = TRUE /\ UNCHANGED flash
TransferPageProg(addr, buf, len) ==
    /\ flash' = IF wel THEN And(flash, addr, buf, len) ELSE flash
    /\ wel' = FALSE
TransferChipErase(enable) == IF enable THEN flash' = Erased /\ wel' = FALSE
                                       ELSE UNCHANGED <<flash, wel>>

FlashWriteEnable == /\ filled /\ TransferWriteEn
                    /\ enabled' = TRUE
                    /\ UNCHANGED promised

\* The comment wants flash_write_enable() before, and the code does not look.
FlashProgram == \E addr \in Addr, buf \in [Addr -> Bytes], len \in 0..FLASH_SIZE :
    /\ filled /\ TransferPageProg(addr, buf, len)
    /\ promised' = IF enabled THEN And(promised, addr, buf, len) ELSE promised
    /\ enabled' = FALSE

\* WRITE_EN and CHIP_ERASE, one after the other.
FlashChipErase == /\ filled /\ TransferChipErase(TRUE)
                  /\ promised' = Erased
                  /\ enabled' = FALSE

\* flash_read and flash_read_status show flash and wel; see Kept.
Next == (FlashWriteEnable \/ FlashProgram \/ FlashChipErase) /\ UNCHANGED filled
Spec == Init /\ [][Next]_vars

-----------------------------------------------------------------------------
TypeOK == /\ filled \in BOOLEAN /\ wel \in BOOLEAN /\ enabled \in BOOLEAN
          /\ flash \in [Addr -> Bytes] /\ promised \in [Addr -> Bytes]

\* The flash holds what was programmed behind a write enable since the last
\* erase, and nothing else: each enable serves one operation.
Kept == flash = promised /\ wel = enabled

-----------------------------------------------------------------------------
\* Kept is kept by every transfer as it is.
IInv == TypeOK /\ Kept
=============================================================================
