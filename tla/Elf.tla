-------------------------------- MODULE Elf ---------------------------------
(***************************************************************************)
(* ELF files as the two loaders of SchedOS see them, and the memory they   *)
(* are loaded into.  A byte is a number; which one matters only for        *)
(* telling bytes apart, but 0 is 0 and the magic number is one byte.       *)
(***************************************************************************)
EXTENDS Integers, Sequences

CONSTANTS
  PAGESIZE,
  MEMSIZE       \* addresses are below it

ASSUME ElfAssumption == PAGESIZE \in Nat \ {0} /\ MEMSIZE \in Nat

VARIABLE memory

Addresses == 0 .. MEMSIZE - 1

ELF_MAGIC == 127
ELF_PROG_LOAD == 1

(* A byte that is not known: memory before anything is loaded.             *)
Unknown == -1

Proghdr == [p_type : Nat, p_offset : Nat, p_va : Addresses,
            p_filesz : Nat, p_memsz : Nat]

EndVa(ph) == ph.p_va + ph.p_filesz
EndMem(ph) == ph.p_va + ph.p_memsz

(* addr &= ~(unit - 1)                                                     *)
RoundDown(addr, unit) == addr - (addr % unit)

Peek(mem, a) == IF a \in Addresses THEN mem[a] ELSE Unknown

(* memcpy, which copies byte after byte in ascending order: if it copies   *)
(* onto bytes it has still to read, it goes on to read what it has put     *)
(* there.                                                                  *)
Memcpy(mem, dst, src, n) ==
  LET Read(k) == IF dst > src THEN src + (k % (dst - src)) ELSE src + k
  IN  [a \in Addresses |-> IF a \in dst .. dst + n - 1
                           THEN Peek(mem, Read(a - dst)) ELSE mem[a]]

(* The last loop of both loaders: while end_va < memsz, 0 goes to end_va++ *)
ClearBss(mem, ph) ==
  [a \in Addresses |-> IF a \in EndVa(ph) .. EndMem(ph) - 1 THEN 0 ELSE mem[a]]

(* What both loaders promise of a segment with these bytes: "filesz bytes  *)
(* ... into virtual address va, then clear the memory from va+filesz up to *)
(* va+memsz".                                                              *)
Loaded(mem, bytes, ph) ==
  \A k \in 0 .. ph.p_memsz - 1 :
    mem[ph.p_va + k] = IF k < ph.p_filesz THEN bytes[k] ELSE 0

=============================================================================
