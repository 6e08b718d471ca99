------------------------------ MODULE Startup -------------------------------
(***************************************************************************)
(* From the files to the running system: mkbootdisk writes the disk, the   *)
(* machine boots from it, the boot loader loads the kernel and the kernel  *)
(* the applications.                                                       *)
(***************************************************************************)
EXTENDS BootLoader, Loader

CONSTANTS
  Codes,        \* boot sector programs
  Kernels,      \* ELF files of the kernel
  MoreArgs,     \* arguments of mkbootdisk after the kernel
  Programs      \* where in the kernel the applications' files are

ASSUME StartupAssumption ==
  /\ Codes \subseteq Seq(Int)
  /\ Kernels \subseteq [bytes : Seq(Int), phdrs : Seq(Proghdr)]
  /\ MoreArgs \subseteq Seq([kind : {"file", "skip"}, bytes : Seq(Int), sector : Nat])
  /\ Programs \subseteq Seq([begin : Addresses, phdrs : Seq(Proghdr)])

startupVars == <<imageVars, bootVars, loaderVars, memory>>

(* Memory holds anything when the machine starts.                          *)
Init ==
  /\ kernel \in Kernels
  /\ \E code \in Codes, more \in MoreArgs :
       ImageInit(code, <<FileArg(kernel.bytes)>> \o more)
  /\ BootInit
  /\ ramimages \in Programs
  /\ LoaderInit
  /\ memory = [a \in Addresses |-> Unknown]

(* The machine is turned on, the image its disk.                           *)
PowerOn ==
  /\ builder = "done"
  /\ boot = "off"
  /\ boot' = "segment"
  /\ UNCHANGED <<imageVars, kernel, bootPh, bootVa, bootSect, loaderVars, memory>>

(* The kernel's start() comes to its loop over the applications.  What a   *)
(* machine does whose image has been cut short is not modelled.            *)
Start ==
  /\ boot = "kernel"
  /\ ~ cut
  /\ loader = "off"
  /\ loader' = "program"
  /\ UNCHANGED <<imageVars, bootVars, ramimages, program, loaderPh, memory>>

(* mkbootdisk has failed, a loader has found no ELF file, or all is loaded. *)
Ended ==
  /\ \/ builder = "failed"
     \/ boot = "spin"
     \/ boot = "kernel" /\ cut
     \/ loader \in {"panic", "done"}
  /\ UNCHANGED startupVars

Next ==
  \/ ImageNext /\ UNCHANGED <<bootVars, loaderVars, memory>>
  \/ PowerOn
  \/ BootNext /\ UNCHANGED <<imageVars, loaderVars>>
  \/ Start
  \/ LoaderNext /\ UNCHANGED <<imageVars, bootVars>>
  \/ Ended

Spec == Init /\ [][Next]_startupVars

-----------------------------------------------------------------------------

InKernel(a, byte) ==
  \E n \in 1 .. Len(kernel.phdrs) :
    LET ph == kernel.phdrs[n]
    IN  /\ a \in ph.p_va .. EndVa(ph) - 1
        /\ kernel.bytes[ph.p_offset + (a - ph.p_va) + 1] = byte

(* The kernel is an ELF file and holds one for each application.           *)
Bootable ==
  /\ Head(kernel.bytes) = ELF_MAGIC
  /\ \A p \in Apps :
       p \in DOMAIN ramimages /\ InKernel(ramimages[p].begin, ELF_MAGIC)

(* Where a segment goes, what is cleared of that, and the bytes of the     *)
(* application's file that go there.                                       *)
Place(ph) == ph.p_va .. EndMem(ph) - 1
Cleared(ph) == EndVa(ph) .. EndMem(ph) - 1
Origin(image, ph) == Source(image, ph) .. Source(image, ph) + ph.p_filesz - 1

(* Whole sectors are read: these addresses are.                            *)
SectorsOf(ph) ==
  RoundDown(ph.p_va, SECTORSIZE) .. RoundDown(EndVa(ph) + SECTORSIZE - 1, SECTORSIZE) - 1

(* The segments of an application that are to be loaded.                   *)
ToLoad(image) == {n \in DOMAIN image.phdrs : image.phdrs[n].p_type = ELF_PROG_LOAD}

(* The files of these applications are such as GNUmakefile has ld make     *)
(* them: a segment starts on a page, and lies neither over another one nor *)
(* over what has still to be copied.                                       *)
AppsPlaced(images) ==
  \A p, q \in Apps \cap DOMAIN images :
    \A m \in ToLoad(images[p]), n \in ToLoad(images[q]) :
      LET ph == images[p].phdrs[m]
          other == images[q].phdrs[n]
      IN  /\ ph.p_va % PAGESIZE = 0
          /\ ph.p_filesz <= ph.p_memsz
          /\ Place(ph) \cup Origin(images[p], ph) \subseteq Addresses
          /\ Place(ph) \cap Origin(images[q], other) = {}
          /\ <<p, m>> # <<q, n>> => Place(ph) \cap Place(other) = {}

(* The kernel's file is such as ld makes it: addresses are congruent to    *)
(* offsets, and where the sectors of a segment reach over an earlier one,  *)
(* they hold the same part of the file.  Nothing reaches over the first    *)
(* page of the file.                                                       *)
KernelPlaced(file) ==
  /\ ELFHDR % SECTORSIZE = 0
  /\ Place(FirstPage) \subseteq Addresses
  /\ \A n \in DOMAIN file.phdrs :
       LET ph == file.phdrs[n]
       IN  /\ ph.p_va % SECTORSIZE = ph.p_offset % SECTORSIZE
           /\ ph.p_filesz <= ph.p_memsz
           /\ ph.p_offset + ph.p_filesz <= Len(file.bytes)
           /\ Place(ph) \subseteq Addresses
           /\ (Place(ph) \cup SectorsOf(ph)) \cap Place(FirstPage) = {}
           /\ \A m \in 1 .. n - 1 :
                LET earlier == file.phdrs[m]
                IN  /\ Place(earlier) \cap Cleared(ph) = {}
                    /\ Place(earlier) \cap SectorsOf(ph) # {} =>
                         /\ Cleared(earlier) \cap SectorsOf(ph) = {}
                         /\ ph.p_va - ph.p_offset = earlier.p_va - earlier.p_offset

(* No application goes where the kernel is.                                *)
Apart(file, images) ==
  \A p \in Apps \cap DOMAIN images : \A n \in ToLoad(images[p]) :
    \A m \in DOMAIN file.phdrs :
      Place(images[p].phdrs[n]) \cap Place(file.phdrs[m]) = {}

(* With the right files the system starts, unless mkbootdisk refuses its   *)
(* arguments or the machine it runs on fails: each loader finds what was   *)
(* put on the disk or in the kernel for it, and comes to an end.           *)
Starts == Bootable => <>(builder = "failed" \/ cut \/ loader = "done")

(* One program after the other, each of which goes on while it can.  A     *)
(* write is interrupted only so often.                                     *)
FairSpec == Spec /\ WF_startupVars(Next)

=============================================================================
