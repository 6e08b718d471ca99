----------------------------- MODULE MCStartup ------------------------------
(* Startup with sectors of 4 bytes, pages of 8 and files of a few bytes.   *)
EXTENDS Startup

Segment(offset, va, filesz, memsz) ==
  [p_type |-> ELF_PROG_LOAD, p_offset |-> offset, p_va |-> va,
   p_filesz |-> filesz, p_memsz |-> memsz]

(* PT_GNU_STACK: a header of a segment that is not to be loaded.           *)
Stack == [p_type |-> 7, p_offset |-> 0, p_va |-> 0, p_filesz |-> 0, p_memsz |-> 0]

(* Boot sectors: empty, just fitting, one byte too large.                  *)
MCCodes == {<<>>, <<51, 52>>, <<51, 52, 53>>}

(* The kernel's file: its header, its text, then data with the files of    *)
(* two applications.  As ld lays it out, addresses are congruent to        *)
(* offsets, ascending, and memory to be cleared comes last.                *)
Bytes == <<ELF_MAGIC, 2, 3, 4, 5, 6, 7, 8, 9,
           ELF_MAGIC, 21, 22, 23, 24, ELF_MAGIC, 31, 32>>

(* Text and data in one sector of memory, or in sectors apart; the file    *)
(* made of whole sectors or not; and no ELF file.                          *)
MCKernels ==
  {[bytes |-> Bytes,
    phdrs |-> <<Segment(4, 4, 5, 5), Segment(9, 9, 8, 11), Stack>>],
   [bytes |-> Bytes \o <<33, 34, 35>>,
    phdrs |-> <<Segment(4, 0, 5, 5), Segment(9, 9, 10, 11)>>],
   [bytes |-> [Bytes EXCEPT ![1] = 1], phdrs |-> <<Segment(4, 4, 5, 5)>>]}

MCMoreArgs ==
  {<<>>, <<SkipArg(7), FileArg(<<61>>)>>, <<FileArg(<<>>), SkipArg(6), SkipArg(1)>>}

Program(begin, phdrs) == [begin |-> begin, phdrs |-> phdrs]

(* Segments that start on a page, as GNUmakefile places text and data; one *)
(* application too few; and one that is not where it should be.            *)
First == Program(9, <<Segment(1, 24, 2, 2), Segment(3, 32, 2, 4), Stack>>)
Second == Program(14, <<Segment(1, 40, 2, 11)>>)
MCPrograms == {<<First, Second>>, <<First>>, <<First, Program(10, <<>>)>>}

(* The second segment does not start on a page: as without -Tdata.         *)
Unaligned ==
  {<<Program(9, <<Segment(1, 24, 2, 2), Segment(3, 35, 2, 4), Stack>>), Second>>}

(* These files, and not the last, are placed as the theorems assume.       *)
ASSUME PlacedAssumption ==
  /\ \A file \in MCKernels, images \in MCPrograms :
       KernelPlaced(file) /\ AppsPlaced(images) /\ Apart(file, images)
  /\ \A images \in Unaligned : ~ AppsPlaced(images)
=============================================================================
