------------------------------- MODULE Loader -------------------------------
(***************************************************************************)
(* schedos-loader.c: the kernel's loader, which start() calls once for     *)
(* each application.  The applications' files are part of the kernel.      *)
(***************************************************************************)
EXTENDS Elf, SchedOS

VARIABLES
  ramimages,    \* the applications' files in memory, [begin, phdrs] each
  loader,       \* where program_loader is
  program,      \* the application it loads
  loaderPh      \* number of the program header it has come to

loaderVars == <<ramimages, loader, program, loaderPh>>

LoaderInit ==
  /\ loader = "off"
  /\ program = 1
  /\ loaderPh = 1

Phdrs == ramimages[program].phdrs
NextPh == Phdrs[loaderPh]

(* elf_header + ph->p_offset                                               *)
Source(image, ph) == image.begin + ph.p_offset

(* Mutant of CopySeg: clears nothing.                                      *)
CopySegUncleared(mem, src, ph) ==
  LET va == RoundDown(ph.p_va, PAGESIZE)
  IN  Memcpy(mem, va, src, EndVa(ph) - va)

(* copyseg: memcpy from src to the start of the page that the address is   *)
(* on, up to the segment's end; then clear the rest.                       *)
CopySeg(mem, src, ph) ==
  LET va == RoundDown(ph.p_va, PAGESIZE)
  IN  ClearBss(Memcpy(mem, va, src, EndVa(ph) - va), ph)

(* program_loader(program - 1): is there such a file, and a valid ELF?     *)
CheckMagic ==
  /\ loader = "program"
  /\ loader' = IF /\ program \in DOMAIN ramimages
                  /\ Peek(memory, ramimages[program].begin) = ELF_MAGIC
               THEN "segment" ELSE "panic"
  /\ loaderPh' = 1
  /\ UNCHANGED <<ramimages, program, memory>>

CopySegment ==
  /\ loader = "segment"
  /\ loaderPh <= Len(Phdrs)
  /\ memory' = IF NextPh.p_type = ELF_PROG_LOAD
               THEN CopySeg(memory, Source(ramimages[program], NextPh), NextPh)
               ELSE memory
  /\ loaderPh' = loaderPh + 1
  /\ UNCHANGED <<ramimages, loader, program>>

(* The loop of start() goes on to the next application.                    *)
NextProgram ==
  /\ loader = "segment"
  /\ loaderPh > Len(Phdrs)
  /\ IF program + 1 \in Apps
     THEN program' = program + 1 /\ loader' = "program"
     ELSE loader' = "done" /\ UNCHANGED program
  /\ UNCHANGED <<ramimages, loaderPh, memory>>

LoaderNext == CheckMagic \/ CopySegment \/ NextProgram

-----------------------------------------------------------------------------

(* Each segment of the applications that is to be loaded is where its      *)
(* program header says, as copyseg's comment promises: "filesz bytes ...   *)
(* into virtual address dst, then clear the memory from va+filesz up to    *)
(* va+memsz".  No segment and no application spoils another.               *)
AppsLoaded ==
  loader = "done" =>
    \A p \in Apps : \A n \in 1 .. Len(ramimages[p].phdrs) :
      LET ph == ramimages[p].phdrs[n]
      IN  ph.p_type = ELF_PROG_LOAD =>
            Loaded(memory,
                   [k \in 0 .. ph.p_filesz - 1 |-> memory[Source(ramimages[p], ph) + k]],
                   ph)

=============================================================================
