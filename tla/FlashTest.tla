------------------------------ MODULE FlashTest ------------------------------
(***************************************************************************)
(* The flash test: src/test_flash.c.                                       *)
(*                                                                         *)
(* The command erases one sector of the QSPI flash, writes four bytes into *)
(* it, reads them back and compares.  Every operation may fail, and ship   *)
(* mode may cut any of them short.  Writing can only clear bits: a sector  *)
(* is the set of its bits that are cleared.                                *)
(***************************************************************************)

CONSTANTS
    Bits,     \* the bits of the four bytes
    Expected  \* those of them that are 0 in `expected`

VARIABLES
    at,          \* the call the shell thread is in, or "idle"
    flash,       \* the cleared bits of the sector
    verdict,     \* history: what the last test said
    eraseFailed  \* history: in the last test the erase failed

Places == {"flash_erase", "flash_write", "flash_read"}

Init == flash \in SUBSET Bits /\ verdict = "none" /\ eraseFailed = FALSE

\* The command on a device that is ready.
cmd_test_flash ==
    /\ at = "idle" /\ at' = "flash_erase"
    /\ verdict' = "none" /\ eraseFailed' = FALSE
    /\ UNCHANGED flash

\* Mutant: the erase is of another sector.
flash_erase_Elsewhere ==
    /\ at = "flash_erase" /\ at' = "flash_write"
    /\ UNCHANGED <<flash, verdict, eraseFailed>>

\* A failed erase leaves anything behind; the test goes on after it.
flash_erase ==
    /\ at = "flash_erase" /\ at' = "flash_write"
    /\ \/ flash' = {} /\ UNCHANGED eraseFailed
       \/ flash' \in SUBSET Bits /\ eraseFailed' = TRUE
    /\ UNCHANGED verdict

flash_write ==
    /\ at = "flash_write" /\ at' = "flash_read"
    /\ flash' = flash \cup Expected
    /\ UNCHANGED <<verdict, eraseFailed>>

\* A failed write has cleared some of the bits; it ends the command.
flash_write_fails ==
    /\ at = "flash_write" /\ at' = "idle"
    /\ \E done \in SUBSET Expected : flash' = flash \cup done
    /\ UNCHANGED <<verdict, eraseFailed>>

\* Mutant: only the bits that were to be cleared are compared.
flash_read_Cleared ==
    /\ at = "flash_read" /\ at' = "idle"
    /\ verdict' = IF Expected \subseteq flash THEN "good" ELSE "mismatch"
    /\ UNCHANGED <<flash, eraseFailed>>

\* The bytes are read back and compared.
flash_read ==
    /\ at = "flash_read" /\ at' = "idle"
    /\ verdict' = IF flash = Expected THEN "good" ELSE "mismatch"
    /\ UNCHANGED <<flash, eraseFailed>>

flash_read_fails ==
    /\ at = "flash_read" /\ at' = "idle"
    /\ UNCHANGED <<flash, verdict, eraseFailed>>

Step ==
    flash_erase \/ flash_write \/ flash_write_fails \/ flash_read \/ flash_read_fails

\* What the sector holds when the power goes: an erase that is cut leaves
\* anything, a write some of its bits.
Cut ==
    /\ CASE at = "flash_erase" -> flash' \in SUBSET Bits
         [] at = "flash_write" ->
              \E done \in SUBSET Expected : flash' = flash \cup done
         [] OTHER -> UNCHANGED flash
    /\ UNCHANGED <<verdict, eraseFailed>>

-------------------------------------------------------------------------------
(* Properties *)

TypeOK ==
    /\ flash \subseteq Bits /\ verdict \in {"none", "good", "mismatch"}
    /\ eraseFailed \in BOOLEAN

\* After "Good!!" the sector holds what was written, through every other
\* command and every loss of power, until the next test begins.
GoodIsStored == verdict = "good" => flash = Expected

\* Whatever an earlier test or a cut of the power left in the sector, a test
\* finds a mismatch only when its own erase failed.
MismatchNeedsFault ==
    /\ verdict = "mismatch" => eraseFailed
    /\ at = "flash_write" => flash = {} \/ eraseFailed
    /\ at = "flash_read" => flash = Expected \/ eraseFailed
    /\ at \in Places => verdict = "none"

===============================================================================
