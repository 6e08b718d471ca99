----------------------------- MODULE BootLoader -----------------------------
(***************************************************************************)
(* schedos-boot.c: the boot sector's program, which reads the kernel from  *)
(* the disk, the image mkbootdisk has written, sector by sector into       *)
(* memory.                                                                 *)
(***************************************************************************)
EXTENDS Elf, DiskImage

CONSTANT ELFHDR     \* where the first page of the file goes: 0x10000

ASSUME BootLoaderAssumption == ELFHDR \in Addresses

VARIABLES
  kernel,       \* the kernel's ELF file, which starts in sector 1
  boot,         \* where bootmain is
  bootPh,       \* number of the program header it has come to; 0 is the
                \* first page
  bootVa,       \* va and sect of readseg
  bootSect

bootVars == <<kernel, boot, bootPh, bootVa, bootSect>>

BootInit ==
  /\ boot = "off"
  /\ bootPh = 0
  /\ bootVa = 0
  /\ bootSect = 0

DiskByte(sect, k) == out[sect * SECTORSIZE + k + 1]

(* Mutant of FirstPage: reads a sector of it only.                         *)
FirstPageShort ==
  [p_type |-> ELF_PROG_LOAD, p_offset |-> 0, p_va |-> ELFHDR,
   p_filesz |-> SECTORSIZE, p_memsz |-> SECTORSIZE]

(* readseg(ELFHDR, PAGESIZE, PAGESIZE, 1)                                  *)
FirstPage ==
  [p_type |-> ELF_PROG_LOAD, p_offset |-> 0, p_va |-> ELFHDR,
   p_filesz |-> PAGESIZE, p_memsz |-> PAGESIZE]

(* What bootmain has come to read, if there is any more.                   *)
Ph == IF bootPh = 0 THEN FirstPage ELSE kernel.phdrs[bootPh]
MorePhs == bootPh <= Len(kernel.phdrs)

(* readsect(dst, sect)                                                     *)
ReadSect(dst, sect) ==
  memory' = [a \in Addresses |->
               IF a \in dst .. dst + SECTORSIZE - 1 THEN DiskByte(sect, a - dst)
               ELSE memory[a]]

(* Mutant of ReadSegment: the boot sector is not counted.                  *)
ReadSegmentFromFirst ==
  /\ boot = "segment"
  /\ MorePhs
  /\ bootVa' = RoundDown(Ph.p_va, SECTORSIZE)
  /\ bootSect' = Ph.p_offset \div SECTORSIZE
  /\ boot' = "sectors"
  /\ UNCHANGED <<kernel, bootPh, memory>>

(* Mutant of ReadSegment: the address is not rounded down to a sector.     *)
ReadSegmentUnrounded ==
  /\ boot = "segment"
  /\ MorePhs
  /\ bootVa' = Ph.p_va
  /\ bootSect' = 1 + Ph.p_offset \div SECTORSIZE
  /\ boot' = "sectors"
  /\ UNCHANGED <<kernel, bootPh, memory>>

(* readseg of the first page or the next program header, whatever its type. *)
ReadSegment ==
  /\ boot = "segment"
  /\ MorePhs
  /\ bootVa' = RoundDown(Ph.p_va, SECTORSIZE)
  /\ bootSect' = 1 + Ph.p_offset \div SECTORSIZE
  /\ boot' = "sectors"
  /\ UNCHANGED <<kernel, bootPh, memory>>

ReadSector ==
  /\ boot = "sectors"
  /\ bootVa < EndVa(Ph)
  /\ ReadSect(bootVa, bootSect)
  /\ bootVa' = bootVa + SECTORSIZE
  /\ bootSect' = bootSect + 1
  /\ UNCHANGED <<kernel, boot, bootPh>>

ReadDone ==
  /\ boot = "sectors"
  /\ bootVa >= EndVa(Ph)
  /\ memory' = ClearBss(memory, Ph)
  /\ bootPh' = bootPh + 1
  /\ boot' = IF bootPh = 0 THEN "header" ELSE "segment"
  /\ UNCHANGED <<kernel, bootVa, bootSect>>

(* Without the magic number bootmain returns, to an endless loop.          *)
CheckHeader ==
  /\ boot = "header"
  /\ boot' = IF memory[ELFHDR] = ELF_MAGIC THEN "segment" ELSE "spin"
  /\ UNCHANGED <<kernel, bootPh, bootVa, bootSect, memory>>

(* Jump to the kernel's entry point.                                       *)
Jump ==
  /\ boot = "segment"
  /\ ~ MorePhs
  /\ boot' = "kernel"
  /\ UNCHANGED <<kernel, bootPh, bootVa, bootSect, memory>>

BootNext == ReadSegment \/ ReadSector \/ ReadDone \/ CheckHeader \/ Jump

-----------------------------------------------------------------------------

(* While bootmain reads segments it goes through the program headers in    *)
(* the first page, and takes the entry point from there in the end: no     *)
(* segment has been read over them.                                        *)
HeadersKept ==
  boot \in {"header", "segment", "sectors"} /\ bootPh > 0 /\ ~ cut =>
    \A k \in 1 .. PAGESIZE :
      k <= Len(kernel.bytes) => memory[ELFHDR + k - 1] = kernel.bytes[k]

(* A kernel the boot loader has read is in memory, every segment of it     *)
(* with its bytes and its zeros, though sectors are read whole and one     *)
(* segment after the other; and it stays there while the applications are  *)
(* loaded.                                                                 *)
KernelLoaded ==
  boot = "kernel" /\ ~ cut =>
    \A n \in 1 .. Len(kernel.phdrs) :
      LET ph == kernel.phdrs[n]
      IN  Loaded(memory, [k \in 0 .. ph.p_filesz - 1 |-> kernel.bytes[ph.p_offset + k + 1]],
                 ph)

=============================================================================
