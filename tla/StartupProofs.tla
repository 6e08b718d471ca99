--------------------------- MODULE StartupProofs ----------------------------
(***************************************************************************)
(* From the files to the running system: the kernel's file on the disk,    *)
(* the kernel that the boot loader reads from there, and the applications  *)
(* that the kernel's loader copies from there, each whole and spoiled by   *)
(* none of the others.                                                     *)
(***************************************************************************)
EXTENDS Startup, SequenceTheorems, WellFoundedInduction, TLAPS

(* The files that GNUmakefile makes.                                       *)
AppsInPlace == \A images \in Programs : AppsPlaced(images)

-----------------------------------------------------------------------------
(* Memory.                                                                 *)

LEMMA ModSmall ==
  ASSUME NEW d \in Nat, NEW k \in 0 .. d - 1
  PROVE  k % d = k
  OBVIOUS

(* n bytes from a on are addresses; those from a and from b are apart.     *)
Fits(a, n) == a .. a + n - 1 \subseteq Addresses
Disjoint(a, b, n) == (a .. a + n - 1) \cap (b .. b + n - 1) = {}

(* memcpy between places that do not overlap.                              *)
LEMMA MemcpyApart ==
  ASSUME NEW mem, NEW dst \in Nat, NEW src \in Nat, NEW n \in Nat,
         Disjoint(dst, src, n), Fits(dst, n), Fits(src, n)
  PROVE  /\ \A k \in 0 .. n - 1 : Memcpy(mem, dst, src, n)[dst + k] = mem[src + k]
         /\ \A a \in Addresses \ (dst .. dst + n - 1) :
              Memcpy(mem, dst, src, n)[a] = mem[a]
<1> DEFINE ReadAt(k) == IF dst > src THEN src + (k % (dst - src)) ELSE src + k
<1>1. Memcpy(mem, dst, src, n) =
        [a \in Addresses |-> IF a \in dst .. dst + n - 1
                             THEN Peek(mem, ReadAt(a - dst)) ELSE mem[a]]
  BY DEF Memcpy
<1>2. ASSUME NEW k \in 0 .. n - 1
      PROVE  ReadAt(k) = src + k /\ Peek(mem, src + k) = mem[src + k]
  <2>1. src + k \in Addresses
    BY <1>2 DEF Fits
  <2>2. CASE dst > src
    <3>1. dst - src >= n
      <4>1. dst \notin src .. src + n - 1
        BY <1>2 DEF Disjoint
      <4> QED
        BY <2>2, <4>1
    <3>2. dst - src \in Nat /\ k \in 0 .. (dst - src) - 1
      BY <1>2, <3>1
    <3>3. k % (dst - src) = k
      BY <3>2, ModSmall
    <3> QED
      BY <2>1, <2>2, <3>3 DEF Peek
  <2>3. CASE ~ (dst > src)
    BY <2>1, <2>3 DEF Peek
  <2> QED
    BY <2>2, <2>3
<1> HIDE DEF ReadAt
<1>3. ASSUME NEW k \in 0 .. n - 1
      PROVE  Memcpy(mem, dst, src, n)[dst + k] = mem[src + k]
  <2>1. dst + k \in Addresses /\ dst + k \in dst .. dst + n - 1 /\ (dst + k) - dst = k
    BY <1>3 DEF Fits
  <2> QED
    BY <1>1, <1>2, <2>1
<1>4. ASSUME NEW a \in Addresses \ (dst .. dst + n - 1)
      PROVE  Memcpy(mem, dst, src, n)[a] = mem[a]
  BY <1>1, <1>4
<1> QED
  BY <1>3, <1>4

LEMMA ClearBssIs ==
  ASSUME NEW mem, NEW ph \in Proghdr, Place(ph) \subseteq Addresses
  PROVE  /\ \A a \in Addresses \cap Cleared(ph) : ClearBss(mem, ph)[a] = 0
         /\ \A a \in Addresses \ Cleared(ph) : ClearBss(mem, ph)[a] = mem[a]
  BY DEF ClearBss, Cleared

Copyable(src, ph) ==
  /\ ph.p_va % PAGESIZE = 0
  /\ ph.p_filesz <= ph.p_memsz
  /\ Place(ph) \subseteq Addresses
  /\ Fits(src, ph.p_filesz)
  /\ Place(ph) \cap (src .. src + ph.p_filesz - 1) = {}

LEMMA CopySegIs ==
  ASSUME NEW mem, NEW src \in Nat, NEW ph \in Proghdr, Copyable(src, ph)
  PROVE  /\ \A k \in 0 .. ph.p_memsz - 1 :
              CopySeg(mem, src, ph)[ph.p_va + k] =
                IF k < ph.p_filesz THEN mem[src + k] ELSE 0
         /\ \A a \in Addresses \ Place(ph) : CopySeg(mem, src, ph)[a] = mem[a]
<1> DEFINE va == ph.p_va
           n == ph.p_filesz
           copied == Memcpy(mem, va, src, n)
<1>1. va \in Nat /\ n \in Nat /\ ph.p_memsz \in Nat
  BY ElfAssumption DEF Proghdr, Addresses
<1>2. RoundDown(va, PAGESIZE) = va /\ EndVa(ph) - va = n
  BY <1>1 DEF RoundDown, EndVa, Copyable
<1>3. CopySeg(mem, src, ph) = ClearBss(copied, ph)
  BY <1>2 DEF CopySeg
<1>4. /\ va .. va + n - 1 \subseteq Place(ph)
      /\ \A k \in 0 .. ph.p_memsz - 1 : va + k \in Place(ph)
      /\ \A k \in 0 .. ph.p_memsz - 1 : va + k \in Cleared(ph) <=> k >= n
      /\ Cleared(ph) \subseteq Place(ph)
  BY <1>1 DEF Place, Cleared, EndVa, EndMem, Copyable
<1>5. /\ \A k \in 0 .. n - 1 : copied[va + k] = mem[src + k]
      /\ \A a \in Addresses \ (va .. va + n - 1) : copied[a] = mem[a]
  <2> HIDE DEF va, n
  <2>1. Fits(va, n)
    BY <1>4 DEF Fits, Copyable
  <2>2. Fits(src, n)
    BY DEF n, Copyable
  <2>3. Disjoint(va, src, n)
    BY <1>4 DEF n, Disjoint, Copyable
  <2>4. va \in Nat /\ src \in Nat /\ n \in Nat
    BY <1>1
  <2> QED
    BY <2>1, <2>2, <2>3, <2>4, MemcpyApart, ZenonT(30)
<1>6. /\ \A a \in Addresses \cap Cleared(ph) : ClearBss(copied, ph)[a] = 0
      /\ \A a \in Addresses \ Cleared(ph) : ClearBss(copied, ph)[a] = copied[a]
  <2> HIDE DEF copied
  <2>1. Place(ph) \subseteq Addresses
    BY DEF Copyable
  <2> QED
    BY <2>1, ClearBssIs
<1> HIDE DEF copied, va, n
<1>7. ASSUME NEW k \in 0 .. ph.p_memsz - 1
      PROVE  ClearBss(copied, ph)[va + k] = IF k < n THEN mem[src + k] ELSE 0
  <2>1. va + k \in Addresses
    BY <1>4 DEF Copyable
  <2>2. CASE k < n
    <3>1. va + k \notin Cleared(ph) /\ k \in 0 .. n - 1
      BY <1>1, <1>4, <2>2
    <3> QED
      BY <1>5, <1>6, <2>1, <2>2, <3>1
  <2>3. CASE ~ (k < n)
    <3>1. va + k \in Cleared(ph)
      BY <1>1, <1>4, <2>3
    <3> QED
      BY <1>6, <2>1, <2>3, <3>1
  <2> QED
    BY <2>2, <2>3
<1>8. ASSUME NEW a \in Addresses \ Place(ph)
      PROVE  ClearBss(copied, ph)[a] = mem[a]
  <2>1. a \notin Cleared(ph) /\ a \notin va .. va + n - 1
    BY <1>4, <1>8
  <2> QED
    BY <1>5, <1>6, <1>8, <2>1
<1> QED
  BY <1>3, <1>7, <1>8 DEF va, n

-----------------------------------------------------------------------------
(* The loader.                                                             *)

(* Segment n of application q's file is in memory.                         *)
There(q, n) ==
  LET ph == ramimages[q].phdrs[n]
  IN  \A k \in 0 .. ph.p_memsz - 1 :
        memory[ph.p_va + k] = IF k < ph.p_filesz
                              THEN memory[Source(ramimages[q], ph) + k] ELSE 0

(* The loader has come past it.                                            *)
Passed(q, n) ==
  \/ q < program
  \/ q = program /\ (loader = "done" \/ (loader = "segment" /\ n < loaderPh))

LoaderAt ==
  /\ ramimages \in Programs
  /\ loader \in {"off", "program", "segment", "panic", "done"}
  /\ program \in Apps
  /\ loaderPh \in Nat \ {0}
  /\ loader = "off" => program = 1
  /\ loader # "off" => boot = "kernel"
  /\ \A q \in 1 .. program - 1 : q \in DOMAIN ramimages
  /\ loader \in {"segment", "done"} => program \in DOMAIN ramimages
  /\ loader = "done" => program = NPROCS - 1

PassedThere ==
  \A q \in Apps \cap DOMAIN ramimages : \A n \in ToLoad(ramimages[q]) :
    Passed(q, n) => There(q, n)

LoaderInv == LoaderAt /\ PassedThere

(* What is known of a file and of a segment of it.                         *)
LEMMA ImageIs ==
  ASSUME ramimages \in Programs, NEW q \in DOMAIN ramimages
  PROVE  /\ ramimages[q].begin \in Nat
         /\ Len(ramimages[q].phdrs) \in Nat
         /\ DOMAIN ramimages[q].phdrs = 1 .. Len(ramimages[q].phdrs)
         /\ \A n \in DOMAIN ramimages[q].phdrs :
              /\ ramimages[q].phdrs[n] \in Proghdr
              /\ Source(ramimages[q], ramimages[q].phdrs[n]) \in Nat
<1> DEFINE Images == [begin : Addresses, phdrs : Seq(Proghdr)]
<1>1. ramimages \in Seq(Images)
  BY StartupAssumption
<1>2. ramimages[q] \in Images
  <2> HIDE DEF Images
  <2> QED
    BY <1>1
<1>3. ramimages[q].begin \in Addresses /\ ramimages[q].phdrs \in Seq(Proghdr)
  BY <1>2
<1>4. ramimages[q].begin \in Nat
  BY <1>3, ElfAssumption DEF Addresses
<1>5. ASSUME NEW n \in DOMAIN ramimages[q].phdrs
      PROVE  /\ ramimages[q].phdrs[n] \in Proghdr
             /\ Source(ramimages[q], ramimages[q].phdrs[n]) \in Nat
  <2>1. ramimages[q].phdrs[n] \in Proghdr
    BY <1>3, <1>5
  <2>2. ramimages[q].phdrs[n].p_offset \in Nat
    BY <2>1 DEF Proghdr
  <2> QED
    BY <1>4, <2>1, <2>2 DEF Source
<1> QED
  BY <1>3, <1>4, <1>5

KeptBut(P) == \A a \in Addresses \ P : memory'[a] = memory[a]

(* What is written to memory where neither a segment nor its file is does  *)
(* not disturb it.                                                         *)
LEMMA ThereStays ==
  ASSUME AppsInPlace, ramimages \in Programs, UNCHANGED ramimages,
         NEW q \in Apps \cap DOMAIN ramimages, NEW n \in ToLoad(ramimages[q]),
         NEW P, There(q, n),
         KeptBut(P),
         P \cap Place(ramimages[q].phdrs[n]) = {},
         P \cap Origin(ramimages[q], ramimages[q].phdrs[n]) = {}
  PROVE  There(q, n)'
<1> DEFINE ph == ramimages[q].phdrs[n]
           src == Source(ramimages[q], ph)
<1>1. ph \in Proghdr /\ src \in Nat
  BY ImageIs DEF ToLoad
<1>2. ph.p_va \in Nat /\ ph.p_filesz \in Nat /\ ph.p_memsz \in Nat
  BY <1>1, ElfAssumption DEF Proghdr, Addresses
<1>3. Place(ph) \subseteq Addresses /\ Origin(ramimages[q], ph) \subseteq Addresses
  BY DEF AppsInPlace, AppsPlaced
<1> HIDE DEF ph
<1>4. SUFFICES ASSUME NEW k \in 0 .. ph.p_memsz - 1
               PROVE  memory'[ph.p_va + k] = IF k < ph.p_filesz
                                             THEN memory'[src + k] ELSE 0
  BY DEF There, Source, ph
<1>5. memory[ph.p_va + k] = IF k < ph.p_filesz THEN memory[src + k] ELSE 0
  BY <1>4 DEF There, ph
<1>6. ph.p_va + k \in Place(ph)
  BY <1>2, <1>4 DEF Place, EndMem
<1>7. k < ph.p_filesz => src + k \in Origin(ramimages[q], ph)
  BY <1>1, <1>2, <1>4 DEF Origin
<1>8. P \cap Place(ph) = {} /\ P \cap Origin(ramimages[q], ph) = {}
  BY DEF ph
<1> HIDE DEF src
<1>9. memory'[ph.p_va + k] = memory[ph.p_va + k]
  BY <1>3, <1>6, <1>8 DEF KeptBut
<1>10. k < ph.p_filesz => memory'[src + k] = memory[src + k]
  BY <1>3, <1>7, <1>8 DEF KeptBut
<1> QED
  BY <1>5, <1>9, <1>10

LEMMA LoaderInitially ==
  Init => LoaderInv
<1> SUFFICES ASSUME Init PROVE LoaderInv
  OBVIOUS
<1>1. LoaderAt
  BY NPROCSAssumption DEF Init, LoaderInit, LoaderAt, Apps
<1>2. \A q \in Apps : \A n : ~ Passed(q, n)
  BY DEF Init, LoaderInit, Passed, Apps
<1> QED
  BY <1>1, <1>2 DEF LoaderInv, PassedThere

(* Where memory stays, so does what has been loaded.                       *)
LEMMA PassedStays ==
  ASSUME PassedThere, UNCHANGED <<ramimages, memory>>,
         \A q \in Apps \cap DOMAIN ramimages : \A n \in ToLoad(ramimages[q]) :
           Passed(q, n)' => Passed(q, n)
  PROVE  PassedThere'
<1> SUFFICES ASSUME NEW q \in Apps \cap DOMAIN ramimages, NEW n \in ToLoad(ramimages[q]),
                    Passed(q, n)'
             PROVE  There(q, n)'
  BY DEF PassedThere
<1>1. There(q, n)
  BY DEF PassedThere
<1> QED
  BY <1>1 DEF There

LEMMA CheckMagicStep ==
  ASSUME LoaderInv, CheckMagic, UNCHANGED boot
  PROVE  LoaderInv'
<1>1. LoaderAt'
  BY DEF LoaderInv, LoaderAt, CheckMagic
<1>2. ASSUME NEW q \in Apps \cap DOMAIN ramimages, NEW n \in ToLoad(ramimages[q]),
             Passed(q, n)'
      PROVE  Passed(q, n)
  <2>1. loader' \in {"segment", "panic"} /\ loaderPh' = 1 /\ program' = program
    BY DEF CheckMagic
  <2>2. n \in Nat \ {0}
    BY ImageIs DEF ToLoad, LoaderInv, LoaderAt
  <2> QED
    BY <1>2, <2>1, <2>2 DEF Passed
<1>3. PassedThere'
  BY <1>2, PassedStays DEF LoaderInv, CheckMagic
<1> QED
  BY <1>1, <1>3 DEF LoaderInv

LEMMA NextProgramStep ==
  ASSUME LoaderInv, NextProgram, UNCHANGED boot
  PROVE  LoaderInv'
<1>1. LoaderAt'
  BY NPROCSAssumption DEF LoaderInv, LoaderAt, NextProgram, Apps
<1>2. ASSUME NEW q \in Apps \cap DOMAIN ramimages, NEW n \in ToLoad(ramimages[q]),
             Passed(q, n)'
      PROVE  Passed(q, n)
  <2>1. n \in 1 .. Len(ramimages[q].phdrs) /\ Len(ramimages[q].phdrs) \in Nat
    BY ImageIs DEF ToLoad, LoaderInv, LoaderAt
  <2>2. q <= program
    <3>1. program \in Nat /\ q \in Nat
      BY DEF LoaderInv, LoaderAt, Apps
    <3> QED
      BY <1>2, <3>1 DEF Passed, NextProgram
  <2>3. CASE q < program
    BY <2>3 DEF Passed
  <2>4. CASE q = program
    <3>1. n < loaderPh
      BY <2>1, <2>4 DEF NextProgram, Phdrs, LoaderInv, LoaderAt
    <3> QED
      BY <2>4, <3>1 DEF Passed, NextProgram
  <2> QED
    BY <2>2, <2>3, <2>4 DEF LoaderInv, LoaderAt, Apps
<1>3. PassedThere'
  BY <1>2, PassedStays DEF LoaderInv, NextProgram
<1> QED
  BY <1>1, <1>3 DEF LoaderInv

LEMMA CopySegmentStep ==
  ASSUME AppsInPlace, LoaderInv, CopySegment, UNCHANGED boot
  PROVE  LoaderInv'
<1>1. LoaderAt'
  BY DEF LoaderInv, LoaderAt, CopySegment
<1>2. /\ ramimages \in Programs /\ program \in Apps \cap DOMAIN ramimages
      /\ loaderPh \in DOMAIN ramimages[program].phdrs
  <2>1. ramimages \in Programs /\ program \in Apps \cap DOMAIN ramimages
    BY DEF LoaderInv, LoaderAt, CopySegment
  <2> QED
    BY <2>1, ImageIs DEF LoaderInv, LoaderAt, CopySegment, Phdrs
<1>3. ASSUME NEW q \in Apps \cap DOMAIN ramimages, NEW n \in ToLoad(ramimages[q]),
             Passed(q, n)'
      PROVE  Passed(q, n) \/ (q = program /\ n = loaderPh)
  <2>1. n \in Nat
    BY <1>2, ImageIs DEF ToLoad
  <2> QED
    BY <1>3, <2>1 DEF Passed, CopySegment, LoaderInv, LoaderAt
<1>4. CASE NextPh.p_type # ELF_PROG_LOAD
  <2>1. ASSUME NEW q \in Apps \cap DOMAIN ramimages, NEW n \in ToLoad(ramimages[q]),
               Passed(q, n)'
        PROVE  Passed(q, n)
    BY <1>3, <1>4, <2>1 DEF ToLoad, NextPh, Phdrs
  <2>2. PassedThere'
    BY <1>4, <2>1, PassedStays DEF LoaderInv, CopySegment
  <2> QED
    BY <1>1, <2>2 DEF LoaderInv
<1>5. CASE NextPh.p_type = ELF_PROG_LOAD
  <2> DEFINE ph == ramimages[program].phdrs[loaderPh]
             src == Source(ramimages[program], ph)
  <2>1. loaderPh \in ToLoad(ramimages[program])
    BY <1>2, <1>5 DEF ToLoad, NextPh, Phdrs
  <2>2. ph \in Proghdr /\ src \in Nat
    BY <1>2, ImageIs
  <2>3. ph.p_va \in Nat /\ ph.p_filesz \in Nat /\ ph.p_memsz \in Nat
    BY <2>2, ElfAssumption DEF Proghdr, Addresses
  <2>4. Copyable(src, ph)
    <3>1. /\ ph.p_va % PAGESIZE = 0 /\ ph.p_filesz <= ph.p_memsz
          /\ Place(ph) \cup Origin(ramimages[program], ph) \subseteq Addresses
          /\ Place(ph) \cap Origin(ramimages[program], ph) = {}
      BY <1>2, <2>1 DEF AppsInPlace, AppsPlaced
    <3> QED
      BY <3>1 DEF Copyable, Fits, Origin
  <2>5. memory' = CopySeg(memory, src, ph)
    BY <1>5 DEF CopySegment, NextPh, Phdrs
  <2>6. /\ \A k \in 0 .. ph.p_memsz - 1 :
             memory'[ph.p_va + k] = IF k < ph.p_filesz THEN memory[src + k] ELSE 0
        /\ \A a \in Addresses \ Place(ph) : memory'[a] = memory[a]
    <3> HIDE DEF ph, src
    <3> QED
      BY <2>2, <2>4, <2>5, CopySegIs
  <2>7. ASSUME NEW q, NEW n, q = program, n = loaderPh
        PROVE  There(q, n)'
    <3>1. ASSUME NEW k \in 0 .. ph.p_memsz - 1, k < ph.p_filesz
          PROVE  memory'[src + k] = memory[src + k]
      <4> HIDE DEF ph, src
      <4>1. src + k \in src .. src + ph.p_filesz - 1
        BY <2>2, <2>3, <3>1
      <4> QED
        BY <2>4, <2>6, <4>1 DEF Copyable, Fits
    <3>2. UNCHANGED ramimages
      BY DEF CopySegment
    <3>3. SUFFICES ASSUME NEW k \in 0 .. ph.p_memsz - 1
                   PROVE  memory'[ph.p_va + k] = IF k < ph.p_filesz
                                                 THEN memory'[src + k] ELSE 0
      BY <2>7, <3>2 DEF There
    <3> HIDE DEF ph, src
    <3> QED
      BY <2>6, <3>1
  <2>8. ASSUME NEW q \in Apps \cap DOMAIN ramimages, NEW n \in ToLoad(ramimages[q]),
               Passed(q, n)'
        PROVE  There(q, n)'
    <3>1. CASE q = program /\ n = loaderPh
      BY <2>7, <3>1
    <3>2. CASE ~ (q = program /\ n = loaderPh)
      <4>1. There(q, n)
        BY <1>3, <2>8, <3>2 DEF LoaderInv, PassedThere
      <4>2. /\ Place(ph) \cap Place(ramimages[q].phdrs[n]) = {}
            /\ Place(ph) \cap Origin(ramimages[q], ramimages[q].phdrs[n]) = {}
        BY <1>2, <2>1, <3>2 DEF AppsInPlace, AppsPlaced
      <4>3. UNCHANGED ramimages
        BY DEF CopySegment
      <4>4. KeptBut(Place(ph))
        BY <2>6 DEF KeptBut
      <4> HIDE DEF ph, src
      <4> QED
        BY <1>2, <4>1, <4>2, <4>3, <4>4, ThereStays
    <3> QED
      BY <3>1, <3>2
  <2>9. PassedThere'
    BY <2>8 DEF PassedThere, CopySegment
  <2> QED
    BY <1>1, <2>9 DEF LoaderInv
<1> QED
  BY <1>4, <1>5

(* The boot loader runs no more when the kernel does.                      *)
LEMMA BootEnds ==
  ASSUME BootNext
  PROVE  boot # "kernel"
  BY DEF BootNext, ReadSegment, ReadSector, ReadDone, CheckHeader, Jump

LEMMA LoaderStep ==
  ASSUME AppsInPlace, LoaderInv, [Next]_startupVars
  PROVE  LoaderInv'
<1>1. ASSUME UNCHANGED <<loaderVars, memory, boot>>
      PROVE  LoaderInv'
  <2>1. LoaderAt'
    BY <1>1 DEF LoaderInv, LoaderAt, loaderVars
  <2>2. PassedThere'
    BY <1>1, PassedStays DEF LoaderInv, loaderVars, Passed
  <2> QED
    BY <2>1, <2>2 DEF LoaderInv
<1>2. ASSUME loader = "off", loader' \in {"off", "program"},
             loader' = "program" => boot' = "kernel",
             UNCHANGED <<ramimages, program, loaderPh>>
      PROVE  LoaderInv'
  <2>1. LoaderAt'
    BY <1>2 DEF LoaderInv, LoaderAt
  <2>2. program' = 1 /\ loader' \in {"off", "program", "panic"}
    BY <1>2 DEF LoaderInv, LoaderAt
  <2>3. \A q \in Apps : \A n : ~ Passed(q, n)'
    BY <2>2 DEF Passed, Apps
  <2>4. PassedThere'
    BY <2>3 DEF PassedThere
  <2> QED
    BY <2>1, <2>4 DEF LoaderInv
<1>3. CASE ImageNext /\ UNCHANGED <<bootVars, loaderVars, memory>>
  BY <1>1, <1>3 DEF bootVars
<1>4. CASE PowerOn
  BY <1>2, <1>4 DEF PowerOn, loaderVars, LoaderInv, LoaderAt
<1>5. CASE BootNext /\ UNCHANGED <<imageVars, loaderVars>>
  BY <1>2, <1>5, BootEnds DEF loaderVars, LoaderInv, LoaderAt
<1>6. CASE Start
  BY <1>2, <1>6 DEF Start, bootVars
<1>7. CASE LoaderNext /\ UNCHANGED <<imageVars, bootVars>>
  <2>1. UNCHANGED boot
    BY <1>7 DEF bootVars
  <2> QED
    BY <1>7, <2>1, CheckMagicStep, NextProgramStep, CopySegmentStep DEF LoaderNext
<1>8. CASE Ended \/ UNCHANGED startupVars
  BY <1>1, <1>8 DEF Ended, startupVars, bootVars
<1> QED
  BY <1>3, <1>4, <1>5, <1>6, <1>7, <1>8 DEF Next

(* Every segment that is to be loaded of every application is in memory    *)
(* when the loader is done (schedos-loader.c, copyseg), for any size of    *)
(* memory and page and any number of applications whose files are placed   *)
(* as GNUmakefile places them.                                             *)
THEOREM SegmentsLoaded ==
  ASSUME AppsInPlace
  PROVE  Spec => []AppsLoaded
<1>1. Init => LoaderInv
  BY LoaderInitially
<1>2. LoaderInv /\ [Next]_startupVars => LoaderInv'
  BY LoaderStep
<1>3. LoaderInv => AppsLoaded
  <2> SUFFICES ASSUME LoaderInv, loader = "done", NEW p \in Apps,
                      NEW n \in 1 .. Len(ramimages[p].phdrs),
                      ramimages[p].phdrs[n].p_type = ELF_PROG_LOAD
               PROVE  Loaded(memory,
                             [k \in 0 .. ramimages[p].phdrs[n].p_filesz - 1 |->
                                memory[Source(ramimages[p], ramimages[p].phdrs[n]) + k]],
                             ramimages[p].phdrs[n])
    BY DEF AppsLoaded
  <2>1. p \in Apps \cap DOMAIN ramimages /\ ramimages \in Programs
    BY NPROCSAssumption DEF LoaderInv, LoaderAt, Apps
  <2>2. n \in ToLoad(ramimages[p])
    BY <2>1, ImageIs DEF ToLoad
  <2>3. Passed(p, n)
    BY NPROCSAssumption DEF LoaderInv, LoaderAt, Apps, Passed
  <2>4. There(p, n)
    BY <2>1, <2>2, <2>3 DEF LoaderInv, PassedThere
  <2> DEFINE ph == ramimages[p].phdrs[n]
             src == Source(ramimages[p], ph)
  <2>5. ph.p_filesz \in Nat /\ ph.p_memsz \in Nat
    <3>1. ph \in Proghdr
      BY <2>1, <2>2, ImageIs DEF ToLoad
    <3> QED
      BY <3>1 DEF Proghdr
  <2>6. \A k \in 0 .. ph.p_memsz - 1 :
          memory[ph.p_va + k] = IF k < ph.p_filesz THEN memory[src + k] ELSE 0
    BY <2>4 DEF There
  <2> HIDE DEF ph, src
  <2>7. Loaded(memory, [k \in 0 .. ph.p_filesz - 1 |-> memory[src + k]], ph)
    BY <2>5, <2>6 DEF Loaded
  <2> QED
    BY <2>7 DEF ph, src
<1> QED
  BY <1>1, <1>2, <1>3, PTL DEF Spec

-----------------------------------------------------------------------------
(* The disk.                                                               *)

Arg == [kind : {"file", "skip"}, bytes : Seq(Int), sector : Nat]

LEMMA Concat ==
  ASSUME NEW s \in Seq(Int), NEW t \in Seq(Int)
  PROVE  /\ s \o t \in Seq(Int)
         /\ Len(s \o t) = Len(s) + Len(t)
         /\ \A k \in 1 .. Len(s) : (s \o t)[k] = s[k]
         /\ \A k \in 1 .. Len(t) : (s \o t)[Len(s) + k] = t[k]
  OBVIOUS

LEMMA Split ==
  ASSUME NEW s \in Seq(Int), NEW n \in 1 .. Len(s)
  PROVE  /\ SubSeq(s, 1, n) \in Seq(Int) /\ Len(SubSeq(s, 1, n)) = n
         /\ \A k \in 1 .. n : SubSeq(s, 1, n)[k] = s[k]
         /\ SubSeq(s, n + 1, Len(s)) \in Seq(Int)
         /\ Len(SubSeq(s, n + 1, Len(s))) = Len(s) - n
         /\ \A k \in 1 .. Len(s) - n : SubSeq(s, n + 1, Len(s))[k] = s[n + k]
<1>1. n \in Nat /\ Len(s) \in Nat /\ n <= Len(s)
  OBVIOUS
<1>2. /\ SubSeq(s, 1, n) \in Seq(Int) /\ Len(SubSeq(s, 1, n)) = n
      /\ \A k \in 1 .. n : SubSeq(s, 1, n)[k] = s[k]
  BY <1>1, SubSeqProperties
<1>3. SubSeq(s, n + 1, Len(s)) \in Seq(Int)
  BY <1>1, SubSeqProperties
<1>4. /\ Len(SubSeq(s, n + 1, Len(s))) = Len(s) - n
      /\ \A k \in 1 .. Len(s) - n : SubSeq(s, n + 1, Len(s))[k] = s[n + k]
  BY <1>1, SubSeqProperties
<1> QED
  BY <1>2, <1>3, <1>4

(* What is put together in pieces.                                         *)
LEMMA Grouped ==
  ASSUME NEW s \in Seq(Int), NEW t \in Seq(Int), NEW u \in Seq(Int)
  PROVE  (s \o t) \o u = s \o (t \o u)
<1>1. \A S : \A a, b, c \in Seq(S) : (a \o b) \o c = a \o (b \o c)
  BY ConcatAssociative
<1> QED
  BY <1>1

LEMMA Regroup ==
  ASSUME NEW s \in Seq(Int), NEW t \in Seq(Int), NEW w \in 1 .. Len(t)
  PROVE  (s \o SubSeq(t, 1, w)) \o SubSeq(t, w + 1, Len(t)) = s \o t
<1>1. SubSeq(t, 1, w) \in Seq(Int) /\ SubSeq(t, w + 1, Len(t)) \in Seq(Int)
  BY Split
<1>2. SubSeq(t, 1, w) \o SubSeq(t, w + 1, Len(t)) = t
  <2>1. /\ 1 \in 1 .. Len(t) + 1 /\ w \in 1 - 1 .. Len(t) /\ Len(t) \in w .. Len(t)
    OBVIOUS
  <2> QED
    BY <2>1, ConcatAdjacentSubSeq, SubSeqFull
<1> DEFINE head == SubSeq(t, 1, w)
           tail == SubSeq(t, w + 1, Len(t))
<1>3. head \in Seq(Int) /\ tail \in Seq(Int) /\ head \o tail = t
  BY <1>1, <1>2
<1> HIDE DEF head, tail
<1>4. (s \o head) \o tail = s \o (head \o tail)
  BY <1>3, Grouped, ZenonT(30)
<1> QED
  BY <1>3, <1>4 DEF head, tail

LEMMA ZerosIs ==
  ASSUME NEW n \in Nat
  PROVE  /\ Zeros(n) \in Seq(Int) /\ Len(Zeros(n)) = n
         /\ \A k \in 1 .. n : Zeros(n)[k] = 0
  BY DEF Zeros

LEMMA MinIs ==
  ASSUME NEW m \in Nat \ {0}, NEW n \in Nat \ {0}
  PROVE  Min({m, n}) \in 1 .. n
<1>1. \E x \in {m, n} : \A y \in {m, n} : x <= y
  <2>1. CASE m <= n
    BY <2>1
  <2>2. CASE n <= m
    BY <2>2
  <2> QED
    BY <2>1, <2>2
<1>2. Min({m, n}) \in {m, n} /\ \A y \in {m, n} : Min({m, n}) <= y
  BY <1>1 DEF Min
<1> QED
  BY <1>2

(* The kernel's file is from sector 1 on.                                  *)
Written == out \o data
KernelOn(bytes) ==
  /\ Len(bytes) >= SECTORSIZE + Len(kernel.bytes)
  /\ \A k \in 1 .. Len(kernel.bytes) : bytes[SECTORSIZE + k] = kernel.bytes[k]

(* The first argument, the kernel's file, has still to be dealt with ...   *)
First == args # <<>> /\ Head(args) = FileArg(kernel.bytes)

(* ... or is being copied.                                                 *)
Copying ==
  /\ Len(Written) = SECTORSIZE + pos
  /\ pos + Len(rest) = Len(kernel.bytes)
  /\ \A k \in 1 .. pos : Written[SECTORSIZE + k] = kernel.bytes[k]
  /\ \A k \in 1 .. Len(rest) : rest[k] = kernel.bytes[pos + k]

DiskTypes ==
  /\ out \in Seq(Int) /\ data \in Seq(Int) /\ rest \in Seq(Int)
  /\ args \in Seq(Arg)
  /\ pos \in Nat
  /\ builder = "file" => args # <<>>

Stage ==
  \/ builder = "failed"
  \/ builder = "boot" /\ First /\ out = <<>> /\ data = <<>>
  \/ builder = "args" /\ First /\ Len(Written) = SECTORSIZE
  \/ builder = "file" /\ First /\ Copying
  \/ builder \in {"args", "file", "done"} /\ KernelOn(Written)

DiskInv ==
  /\ kernel \in Kernels
  /\ boot # "off" => builder = "done"
  /\ builder = "done" => data = <<>>
  /\ ~ cut => DiskTypes /\ Stage

LEMMA KernelIs ==
  ASSUME kernel \in Kernels
  PROVE  kernel.bytes \in Seq(Int) /\ kernel.phdrs \in Seq(Proghdr)
  BY StartupAssumption

(* Putting more at the end does not disturb the kernel.                    *)
LEMMA KernelOnStays ==
  ASSUME kernel \in Kernels, NEW s \in Seq(Int), NEW t \in Seq(Int), KernelOn(s)
  PROVE  KernelOn(s \o t)
<1>1. Len(kernel.bytes) \in Nat
  BY KernelIs
<1>2. \A k \in 1 .. Len(kernel.bytes) : SECTORSIZE + k \in 1 .. Len(s)
  BY <1>1, DiskImageAssumption DEF KernelOn
<1>3. /\ Len(s \o t) = Len(s) + Len(t)
      /\ \A k \in 1 .. Len(s) : (s \o t)[k] = s[k]
  BY Concat
<1>4. Len(s) \in Nat /\ Len(t) \in Nat
  OBVIOUS
<1> DEFINE w == s \o t
<1> HIDE DEF w
<1>5. Len(w) = Len(s) + Len(t) /\ \A k \in 1 .. Len(s) : w[k] = s[k]
  BY <1>3 DEF w
<1>6. Len(w) >= SECTORSIZE + Len(kernel.bytes)
  BY <1>1, <1>4, <1>5, DiskImageAssumption DEF KernelOn
<1>7. \A k \in 1 .. Len(kernel.bytes) : w[SECTORSIZE + k] = kernel.bytes[k]
  BY <1>2, <1>5 DEF KernelOn
<1> QED
  BY <1>6, <1>7 DEF KernelOn, w

LEMMA DiskInitially ==
  Init => DiskInv
<1> SUFFICES ASSUME Init PROVE DiskInv
  OBVIOUS
<1>1. kernel \in Kernels
  BY DEF Init
<1>2. PICK code \in Codes, more \in MoreArgs :
        ImageInit(code, <<FileArg(kernel.bytes)>> \o more)
  BY DEF Init
<1>3. code \in Seq(Int) /\ more \in Seq(Arg)
  BY StartupAssumption DEF Arg
<1>4. FileArg(kernel.bytes) \in Arg
  BY <1>1, KernelIs DEF FileArg, Arg
<1> HIDE DEF Arg
<1>5. /\ <<FileArg(kernel.bytes)>> \o more \in Seq(Arg)
      /\ <<FileArg(kernel.bytes)>> \o more # <<>>
      /\ Head(<<FileArg(kernel.bytes)>> \o more) = FileArg(kernel.bytes)
  <2> DEFINE arg == FileArg(kernel.bytes)
  <2> HIDE DEF arg
  <2>1. arg \in Arg
    BY <1>4 DEF arg
  <2>2. /\ <<arg>> \o more \in Seq(Arg) /\ <<arg>> \o more # <<>>
        /\ Head(<<arg>> \o more) = arg
    BY <1>3, <2>1
  <2> QED
    BY <2>2 DEF arg
<1>6. DiskTypes /\ First
  BY <1>2, <1>3, <1>5 DEF ImageInit, DiskTypes, First
<1> QED
  BY <1>1, <1>2, <1>6 DEF Init, BootInit, ImageInit, DiskInv, Stage

(* Stages an action starts in.                                             *)
LEMMA StageAtArgs ==
  ASSUME DiskInv, ~ cut, builder = "args", data = <<>>
  PROVE  \/ First /\ Len(out) = SECTORSIZE
         \/ KernelOn(out)
<1>1. Written = out
  BY DEF DiskInv, DiskTypes, Written
<1> QED
  BY <1>1 DEF DiskInv, Stage

LEMMA StageAtFile ==
  ASSUME DiskInv, ~ cut, builder = "file", data = <<>>
  PROVE  \/ First /\ Copying
         \/ KernelOn(out)
<1>1. Written = out
  BY DEF DiskInv, DiskTypes, Written
<1> QED
  BY <1>1 DEF DiskInv, Stage

(* diskwrite moves bytes from `data' to the output, and none is lost.      *)
LEMMA WriteKeeps ==
  ASSUME DiskTypes, NEW w \in 1 .. Len(data), Write(w)
  PROVE  /\ out' \in Seq(Int) /\ data' \in Seq(Int)
         /\ Written' = Written
<1> DEFINE head == SubSeq(data, 1, w)
           tail == SubSeq(data, w + 1, Len(data))
<1>1. out \in Seq(Int) /\ data \in Seq(Int)
  BY DEF DiskTypes
<1>2. head \in Seq(Int) /\ tail \in Seq(Int)
  BY <1>1, Split
<1>3. (out \o head) \o tail = out \o data
  BY <1>1, Regroup
<1>4. out' = out \o head /\ data' = tail
  BY DEF Write
<1> HIDE DEF head, tail
<1>5. out \o head \in Seq(Int)
  BY <1>1, <1>2, Concat
<1> QED
  BY <1>2, <1>3, <1>4, <1>5 DEF Written

LEMMA WriteStep ==
  ASSUME DiskInv, NEW w \in 1 .. Len(data), builder # "failed", Write(w),
         UNCHANGED <<kernel, boot>>
  PROVE  DiskInv'
<1>1. builder # "done"
  BY DEF DiskInv
<1>2. UNCHANGED <<builder, cut, args, rest, pos, argv>>
  BY DEF Write
<1>3. ASSUME ~ cut
      PROVE  DiskTypes' /\ Stage'
  <2>1. out' \in Seq(Int) /\ data' \in Seq(Int) /\ Written' = Written
    BY <1>3, WriteKeeps DEF DiskInv
  <2>2. DiskTypes'
    BY <1>2, <1>3, <2>1 DEF DiskInv, DiskTypes
  <2>3. builder # "boot"
    BY <1>3 DEF DiskInv, Stage
  <2>4. Stage'
    BY <1>2, <1>3, <2>1, <2>3 DEF DiskInv, Stage, First, Copying, KernelOn
  <2> QED
    BY <2>2, <2>4
<1> QED
  BY <1>1, <1>2, <1>3 DEF DiskInv

(* More goes to the end of the image.                                      *)
LEMMA MoreWritten ==
  ASSUME out \in Seq(Int), UNCHANGED out, data' \in Seq(Int)
  PROVE  /\ Written' \in Seq(Int)
         /\ Len(Written') = Len(out) + Len(data')
         /\ \A k \in 1 .. Len(out) : Written'[k] = out[k]
         /\ \A k \in 1 .. Len(data') : Written'[Len(out) + k] = data'[k]
<1>1. Written' = out \o data'
  BY DEF Written
<1> QED
  BY <1>1, Concat

LEMMA MoreKeepsKernel ==
  ASSUME DiskInv, ~ cut, KernelOn(out), UNCHANGED <<out, kernel>>, data' \in Seq(Int)
  PROVE  KernelOn(Written)'
<1>1. out \in Seq(Int) /\ kernel \in Kernels
  BY DEF DiskInv, DiskTypes
<1>2. KernelOn(out \o data')
  BY <1>1, KernelOnStays
<1> QED
  BY <1>2 DEF KernelOn, Written

LEMMA ExitStep ==
  ASSUME DiskInv, UNCHANGED <<kernel, boot>>, builder # "done",
         \/ Exits("failed")
         \/ Exits("done") /\ builder = "args" /\ args = <<>> /\ data = <<>>
  PROVE  DiskInv'
<1>1. boot = "off"
  BY DEF DiskInv
<1>2. CASE Exits("failed")
  BY <1>1, <1>2 DEF DiskInv, DiskTypes, Stage, Exits
<1>3. CASE Exits("done") /\ builder = "args" /\ args = <<>> /\ data = <<>>
  <2>1. ASSUME ~ cut PROVE DiskTypes' /\ KernelOn(Written)'
    <3>1. KernelOn(out) /\ data \in Seq(Int)
      BY <1>3, <2>1, StageAtArgs DEF First, DiskInv, DiskTypes
    <3>2. KernelOn(Written)'
      BY <1>3, <2>1, <3>1, MoreKeepsKernel DEF Exits
    <3>3. DiskTypes'
      BY <1>3, <2>1 DEF DiskInv, DiskTypes, Exits
    <3> QED
      BY <3>2, <3>3
  <2> QED
    BY <1>1, <1>3, <2>1 DEF DiskInv, Stage, Exits
<1> QED
  BY <1>2, <1>3

LEMMA BootSectorStep ==
  ASSUME DiskInv, BootSector, UNCHANGED <<kernel, boot>>
  PROVE  DiskInv'
<1>1. boot = "off" /\ cut' = cut /\ builder' = "args" /\ args' = args
  BY DEF DiskInv, BootSector, At
<1>2. ASSUME ~ cut PROVE DiskTypes' /\ Stage'
  <2> DEFINE gap == (SECTORSIZE - 2) - Len(rest)
             zeros == Zeros(gap)
  <2>1. rest \in Seq(Int) /\ gap \in Nat /\ Len(rest) \in Nat
    BY <1>2, DiskImageAssumption DEF DiskInv, DiskTypes, BootSector
  <2>2. zeros \in Seq(Int) /\ Len(zeros) = gap
    BY <2>1, ZerosIs
  <2>3. data' = (rest \o zeros) \o Signature
    BY DEF BootSector
  <2>4. Signature \in Seq(Int) /\ Len(Signature) = 2
    BY DEF Signature
  <2> HIDE DEF zeros
  <2>5. data' \in Seq(Int) /\ Len(data') = SECTORSIZE
    <3>1. rest \o zeros \in Seq(Int) /\ Len(rest \o zeros) = SECTORSIZE - 2
      BY <2>1, <2>2, DiskImageAssumption, Concat
    <3> DEFINE long == rest \o zeros
    <3>2. long \in Seq(Int) /\ Len(long) = SECTORSIZE - 2
      BY <3>1
    <3>3. data' = long \o Signature
      BY <2>3
    <3> HIDE DEF long
    <3>4. /\ long \o Signature \in Seq(Int)
          /\ Len(long \o Signature) = Len(long) + Len(Signature)
      BY <2>4, <3>2, Concat
    <3>5. data' \in Seq(Int) /\ Len(data') = (SECTORSIZE - 2) + 2
      BY <2>4, <3>2, <3>3, <3>4
    <3> QED
      BY <3>5, DiskImageAssumption
  <2>6. First /\ out = <<>> /\ data = <<>>
    BY <1>2 DEF DiskInv, Stage, BootSector, At
  <2>7. Len(Written') = SECTORSIZE
    BY <2>5, <2>6, MoreWritten, DiskImageAssumption DEF BootSector
  <2>8. DiskTypes'
    BY <1>2, <2>5 DEF DiskInv, DiskTypes, BootSector
  <2>9. First'
    BY <1>1, <2>6 DEF First
  <2> QED
    BY <1>1, <2>7, <2>8, <2>9 DEF Stage
<1> QED
  BY <1>1, <1>2 DEF DiskInv

LEMMA ZeroSectorStep ==
  ASSUME DiskInv, builder = "args", data = <<>>, ZeroSector,
         UNCHANGED <<kernel, boot>>,
         ~ First
  PROVE  DiskInv'
<1>1. boot = "off" /\ UNCHANGED <<cut, builder, args, rest, pos, out>>
  BY DEF DiskInv, ZeroSector
<1>2. data' \in Seq(Int)
  BY ZerosIs, DiskImageAssumption DEF ZeroSector
<1>3. ASSUME ~ cut PROVE DiskTypes' /\ Stage'
  <2>1. KernelOn(out)
    BY <1>3, StageAtArgs
  <2>2. KernelOn(Written)'
    BY <1>1, <1>2, <1>3, <2>1, MoreKeepsKernel
  <2> QED
    BY <1>1, <1>2, <1>3, <2>2 DEF DiskInv, DiskTypes, Stage
<1> QED
  BY <1>1, <1>3 DEF DiskInv

LEMMA SkippedStep ==
  ASSUME DiskInv, Skipped, UNCHANGED <<kernel, boot>>
  PROVE  DiskInv'
<1>1. /\ boot = "off" /\ builder = "args" /\ data = <<>> /\ args # <<>>
      /\ UNCHANGED <<cut, builder, rest, pos, out, data>> /\ args' = Tail(args)
      /\ Head(args).kind = "skip"
  BY DEF DiskInv, Skipped, AtArg, At
<1>2. ASSUME ~ cut PROVE DiskTypes' /\ Stage'
  <2>1. KernelOn(out)
    BY <1>1, <1>2, StageAtArgs DEF First, FileArg
  <2>2. data \in Seq(Int) /\ args \in Seq(Arg)
    BY <1>2 DEF DiskInv, DiskTypes
  <2>3. args' \in Seq(Arg)
    <3> HIDE DEF Arg
    <3> QED
      BY <1>1, <2>2
  <2>4. KernelOn(Written)'
    BY <1>1, <1>2, <2>1, <2>2, MoreKeepsKernel
  <2> QED
    BY <1>1, <1>2, <2>3, <2>4 DEF DiskInv, DiskTypes, Stage
<1> QED
  BY <1>1, <1>2 DEF DiskInv

LEMMA OpenStep ==
  ASSUME DiskInv, Open, UNCHANGED <<kernel, boot>>
  PROVE  DiskInv'
<1>1. /\ boot = "off" /\ builder = "args" /\ data = <<>> /\ args # <<>>
      /\ UNCHANGED <<cut, args, out, data>>
      /\ rest' = Head(args).bytes /\ pos' = 0 /\ builder' = "file"
  BY DEF DiskInv, Open, AtArg, At
<1>2. ASSUME ~ cut PROVE DiskTypes' /\ Stage'
  <2>1. data \in Seq(Int) /\ args \in Seq(Arg) /\ out \in Seq(Int)
    BY <1>2 DEF DiskInv, DiskTypes
  <2>2. Head(args) \in Arg
    <3> HIDE DEF Arg
    <3> QED
      BY <1>1, <2>1
  <2>3. DiskTypes'
    BY <1>1, <1>2, <2>2 DEF DiskInv, DiskTypes, Arg
  <2>4. CASE KernelOn(out)
    <3>1. KernelOn(Written)'
      BY <1>1, <1>2, <2>1, <2>4, MoreKeepsKernel
    <3> QED
      BY <1>1, <2>3, <3>1 DEF Stage
  <2>5. CASE First /\ Len(out) = SECTORSIZE
    <3>1. First' /\ rest' = kernel.bytes
      BY <1>1, <2>5 DEF First, FileArg
    <3>2. Len(Written') = SECTORSIZE
      BY <1>1, <2>1, <2>5, DiskImageAssumption DEF Written
    <3>3. Len(kernel.bytes) \in Nat
      BY KernelIs DEF DiskInv
    <3>4. Copying'
      BY <1>1, <3>1, <3>2, <3>3, DiskImageAssumption DEF Copying
    <3> QED
      BY <1>1, <2>3, <3>1, <3>4 DEF Stage
  <2> QED
    BY <1>1, <1>2, <2>4, <2>5, StageAtArgs
<1> QED
  BY <1>1, <1>2 DEF DiskInv

LEMMA ReadStep ==
  ASSUME DiskInv, Read, UNCHANGED <<kernel, boot>>
  PROVE  DiskInv'
<1> DEFINE n == Min({BUFSIZE, Len(rest)})
<1>1. /\ boot = "off" /\ builder = "file" /\ data = <<>> /\ rest # <<>>
      /\ UNCHANGED <<cut, args, out, builder>>
      /\ data' = SubSeq(rest, 1, n) /\ rest' = SubSeq(rest, n + 1, Len(rest))
      /\ pos' = pos + n
  BY DEF DiskInv, Read, At
<1>2. ASSUME ~ cut PROVE DiskTypes' /\ Stage'
  <2>1. rest \in Seq(Int) /\ out \in Seq(Int) /\ pos \in Nat
    BY <1>2 DEF DiskInv, DiskTypes
  <2>2. Len(rest) \in Nat \ {0}
    BY <1>1, <2>1
  <2>3. n \in 1 .. Len(rest)
    BY <2>2, MinIs, DiskImageAssumption
  <2> HIDE DEF n
  <2>4. /\ data' \in Seq(Int) /\ Len(data') = n
        /\ \A k \in 1 .. n : data'[k] = rest[k]
        /\ rest' \in Seq(Int) /\ Len(rest') = Len(rest) - n
        /\ \A k \in 1 .. Len(rest) - n : rest'[k] = rest[n + k]
    BY <1>1, <2>1, <2>3, Split
  <2>5. DiskTypes'
    BY <1>1, <1>2, <2>1, <2>3, <2>4 DEF DiskInv, DiskTypes
  <2>6. CASE KernelOn(out)
    <3>1. KernelOn(Written)'
      BY <1>1, <1>2, <2>4, <2>6, MoreKeepsKernel
    <3> QED
      BY <1>1, <2>5, <3>1 DEF Stage
  <2>7. CASE First /\ Copying
    <3>1. First'
      BY <1>1, <2>7 DEF First
    <3>2. /\ Len(Written') = Len(out) + Len(data')
          /\ \A k \in 1 .. Len(out) : Written'[k] = out[k]
          /\ \A k \in 1 .. Len(data') : Written'[Len(out) + k] = data'[k]
      BY <1>1, <2>1, <2>4, MoreWritten
    <3>3. Written = out
      BY <1>1, <2>1 DEF Written
    <3>4. /\ Len(out) = SECTORSIZE + pos
          /\ pos + Len(rest) = Len(kernel.bytes)
          /\ \A k \in 1 .. pos : out[SECTORSIZE + k] = kernel.bytes[k]
          /\ \A k \in 1 .. Len(rest) : rest[k] = kernel.bytes[pos + k]
      BY <2>7, <3>3 DEF Copying
    <3>5. /\ Len(Written') = SECTORSIZE + pos'
          /\ pos' + Len(rest') = Len(kernel.bytes)
      <4>1. /\ Len(out) \in Nat /\ Len(rest) \in Nat /\ n \in Nat
            /\ Len(data') = n /\ Len(rest') = Len(rest) - n /\ pos' = pos + n
        BY <1>1, <2>1, <2>3, <2>4
      <4>2. Len(Written') = (SECTORSIZE + pos) + n
        BY <3>2, <3>4, <4>1
      <4>3. (SECTORSIZE + pos) + n = SECTORSIZE + (pos + n)
        BY <2>1, <4>1, DiskImageAssumption
      <4>4. (pos + n) + (Len(rest) - n) = pos + Len(rest)
        BY <2>1, <4>1
      <4>5. Len(Written') = SECTORSIZE + (pos + n)
        BY <4>2, <4>3
      <4>6. pos' = pos + n /\ Len(rest') = Len(rest) - n
        BY <4>1
      <4>7. pos' + Len(rest') = Len(kernel.bytes)
        BY <3>4, <4>4, <4>6
      <4> QED
        BY <4>5, <4>6, <4>7
    <3>6. ASSUME NEW k \in 1 .. pos'
          PROVE  Written'[SECTORSIZE + k] = kernel.bytes[k]
      <4>1. CASE k <= pos
        <5>1. SECTORSIZE + k \in 1 .. Len(out) /\ k \in 1 .. pos
          BY <2>1, <3>4, <3>6, <4>1, DiskImageAssumption
        <5> QED
          BY <3>2, <3>4, <5>1
      <4>2. CASE ~ (k <= pos)
        <5>1. PICK j \in 1 .. n : k = pos + j
          <6>1. k - pos \in 1 .. n /\ k = pos + (k - pos)
            BY <1>1, <2>1, <2>3, <3>6, <4>2
          <6> QED
            BY <6>1
        <5>2. SECTORSIZE + k = Len(out) + j /\ j \in 1 .. Len(rest)
          BY <2>1, <2>2, <2>3, <3>4, <5>1, DiskImageAssumption
        <5>3. Written'[SECTORSIZE + k] = data'[j] /\ data'[j] = rest[j]
          BY <2>4, <3>2, <5>1, <5>2
        <5> QED
          BY <3>4, <5>1, <5>2, <5>3
      <4> QED
        BY <4>1, <4>2
    <3>7. ASSUME NEW k \in 1 .. Len(rest')
          PROVE  rest'[k] = kernel.bytes[pos' + k]
      <4>1. n + k \in 1 .. Len(rest) /\ pos' + k = pos + (n + k)
        BY <1>1, <2>1, <2>2, <2>3, <2>4, <3>7
      <4>2. rest'[k] = rest[n + k]
        BY <2>4, <3>7
      <4> QED
        BY <3>4, <4>1, <4>2
    <3>8. Copying'
      BY <3>5, <3>6, <3>7 DEF Copying
    <3> QED
      BY <1>1, <2>5, <3>1, <3>8 DEF Stage
  <2> QED
    BY <1>1, <1>2, <2>6, <2>7, StageAtFile
<1> QED
  BY <1>1, <1>2 DEF DiskInv

LEMMA PadStep ==
  ASSUME DiskInv, Pad, UNCHANGED <<kernel, boot>>
  PROVE  DiskInv'
<1> DEFINE gap == IF pos % SECTORSIZE = 0 THEN 0 ELSE SECTORSIZE - (pos % SECTORSIZE)
<1>1. /\ boot = "off" /\ builder = "file" /\ data = <<>> /\ rest = <<>>
      /\ UNCHANGED <<cut, rest, pos, out>> /\ builder' = "args"
      /\ data' = Zeros(gap) /\ args' = Tail(args)
  BY DEF DiskInv, Pad, At
<1>2. ASSUME ~ cut PROVE DiskTypes' /\ Stage'
  <2>1. out \in Seq(Int) /\ pos \in Nat /\ args \in Seq(Arg)
    BY <1>2 DEF DiskInv, DiskTypes
  <2>2. gap \in Nat
    BY <2>1, DiskImageAssumption
  <2>3. data' \in Seq(Int)
    BY <1>1, <2>2, ZerosIs
  <2> HIDE DEF gap
  <2>4. KernelOn(out)
    <3>1. ASSUME Copying PROVE KernelOn(out)
      <4>1. Written = out
        BY <1>1, <2>1 DEF Written
      <4>2. pos = Len(kernel.bytes)
        BY <1>1, <2>1, <3>1 DEF Copying
      <4>3. Len(out) >= SECTORSIZE + Len(kernel.bytes)
        BY <3>1, <4>1, <4>2 DEF Copying
      <4>4. \A k \in 1 .. Len(kernel.bytes) : out[SECTORSIZE + k] = kernel.bytes[k]
        BY <3>1, <4>1, <4>2 DEF Copying
      <4> QED
        BY <4>3, <4>4 DEF KernelOn
    <3> QED
      BY <1>1, <1>2, <3>1, StageAtFile
  <2>5. KernelOn(Written)'
    BY <1>1, <1>2, <2>3, <2>4, MoreKeepsKernel
  <2>6. args' \in Seq(Arg)
    <3>1. args # <<>>
      BY <1>1, <1>2 DEF DiskInv, DiskTypes
    <3> HIDE DEF Arg
    <3> QED
      BY <1>1, <2>1, <3>1
  <2> QED
    BY <1>1, <1>2, <2>1, <2>3, <2>5, <2>6 DEF DiskInv, DiskTypes, Stage
<1> QED
  BY <1>1, <1>2 DEF DiskInv

LEMMA ImageStep ==
  ASSUME DiskInv, ImageNext, UNCHANGED <<kernel, boot>>
  PROVE  DiskInv'
<1>1. CASE \E w \in 1 .. Len(data) : builder # "failed" /\ Write(w)
  BY <1>1, WriteStep
<1>2. CASE WriteFails
  <2>1. builder # "done"
    BY <1>2 DEF WriteFails, DiskInv
  <2> QED
    BY <1>2, <2>1, ExitStep DEF WriteFails, Exits
<1>3. CASE BootTooLarge \/ SkipTooLate \/ OpenFails
  <2>1. Exits("failed") /\ builder # "done"
    BY <1>3 DEF BootTooLarge, SkipTooLate, OpenFails, AtArg, At
  <2> QED
    BY <2>1, ExitStep
<1>4. CASE Skip
  <2>1. builder = "args" /\ data = <<>> /\ ZeroSector /\ ~ First
    BY <1>4 DEF Skip, AtArg, At, First, FileArg
  <2> QED
    BY <2>1, ZeroSectorStep
<1>5. CASE Fill
  <2>1. builder = "args" /\ data = <<>> /\ ZeroSector /\ ~ First
    BY <1>5 DEF Fill, At, First
  <2> QED
    BY <2>1, ZeroSectorStep
<1>6. CASE ReadFails
  BY <1>6 DEF ReadFails, At, DiskInv
<1>7. CASE Finish
  BY <1>7, ExitStep DEF Finish, At
<1> QED
  BY <1>1, <1>2, <1>3, <1>4, <1>5, <1>6, <1>7, BootSectorStep, SkippedStep,
     OpenStep, ReadStep, PadStep
  DEF ImageNext

LEMMA DiskStep ==
  ASSUME DiskInv, [Next]_startupVars
  PROVE  DiskInv'
<1>1. ASSUME UNCHANGED <<imageVars, kernel>>, boot' # "off" => builder = "done"
      PROVE  DiskInv'
  BY <1>1 DEF DiskInv, imageVars, DiskTypes, Stage, First, Copying, Written, KernelOn
<1>2. CASE ImageNext /\ UNCHANGED <<bootVars, loaderVars, memory>>
  BY <1>2, ImageStep DEF bootVars
<1>3. CASE PowerOn
  BY <1>1, <1>3 DEF PowerOn
<1>4. CASE BootNext /\ UNCHANGED <<imageVars, loaderVars>>
  <2>1. boot # "off" /\ UNCHANGED kernel
    BY <1>4 DEF BootNext, ReadSegment, ReadSector, ReadDone, CheckHeader, Jump
  <2> QED
    BY <1>1, <1>4, <2>1 DEF DiskInv
<1>5. CASE Start \/ (LoaderNext /\ UNCHANGED <<imageVars, bootVars>>)
      \/ Ended \/ UNCHANGED startupVars
  BY <1>1, <1>5 DEF Start, Ended, startupVars, bootVars, DiskInv
<1> QED
  BY <1>2, <1>3, <1>4, <1>5 DEF Next

(* Once mkbootdisk is done the kernel's file is on the disk, the first     *)
(* byte at the start of sector 1.                                          *)
LEMMA KernelOnDisk ==
  ASSUME DiskInv, ~ cut, builder = "done"
  PROVE  KernelOn(out)
<1>1. Written = out
  BY DEF DiskInv, DiskTypes, Written
<1> QED
  BY <1>1 DEF DiskInv, Stage

-----------------------------------------------------------------------------
(* The boot loader.                                                        *)

KernelsInPlace == \A file \in Kernels : KernelPlaced(file)

(* Sectors, as multiples of their size.                                    *)
LEMMA DivideBy ==
  ASSUME NEW d \in Nat \ {0}, NEW x \in Nat
  PROVE  /\ x \div d \in Nat /\ x % d \in 0 .. d - 1
         /\ x = (x \div d) * d + (x % d)
  OBVIOUS

LEMMA ProductNat ==
  ASSUME NEW d \in Nat, NEW p \in Nat
  PROVE  p * d \in Nat
  OBVIOUS

LEMMA SectorAhead ==
  ASSUME NEW d \in Nat \ {0}, NEW sect \in Nat
  PROVE  (sect + 1) * d = sect * d + d
  OBVIOUS

Multiple(x, d) == \E p \in Nat : x = p * d

LEMMA RoundDownIs ==
  ASSUME NEW d \in Nat \ {0}, NEW x \in Nat
  PROVE  /\ RoundDown(x, d) \in Nat
         /\ RoundDown(x, d) <= x
         /\ x < RoundDown(x, d) + d
         /\ Multiple(RoundDown(x, d), d)
<1> DEFINE p == x \div d
<1>1. p \in Nat /\ p * d \in Nat /\ x % d \in 0 .. d - 1 /\ x = p * d + (x % d)
  <2>1. p \in Nat /\ x % d \in 0 .. d - 1 /\ x = p * d + (x % d)
    BY DivideBy
  <2> HIDE DEF p
  <2> QED
    BY <2>1, ProductNat
<1> HIDE DEF p
<1> DEFINE m == p * d
<1>2. m \in Nat /\ x % d \in 0 .. d - 1 /\ x = m + (x % d)
  BY <1>1
<1> HIDE DEF m
<1>3. RoundDown(x, d) = m
  BY <1>2 DEF RoundDown
<1>4. Multiple(RoundDown(x, d), d)
  BY <1>1, <1>3 DEF Multiple, m
<1> QED
  BY <1>2, <1>3, <1>4

LEMMA ProductMonotone ==
  ASSUME NEW d \in Nat \ {0}, NEW p \in Nat, NEW q \in Nat, p * d < q * d
  PROVE  p * d + d <= q * d
<1>1. p < q
  <2>1. SUFFICES ASSUME q <= p PROVE FALSE
    OBVIOUS
  <2>2. PICK j \in Nat : p = q + j
    <3>1. p - q \in Nat /\ p = q + (p - q)
      BY <2>1
    <3> QED
      BY <3>1
  <2>3. p * d = q * d + j * d
    BY <2>2
  <2>4. j * d \in Nat /\ q * d \in Nat
    BY ProductNat
  <2> QED
    BY <2>3, <2>4
<1>2. PICK j \in Nat : q = (p + 1) + j
  <2>1. q - (p + 1) \in Nat /\ q = (p + 1) + (q - (p + 1))
    BY <1>1
  <2> QED
    BY <2>1
<1>3. q * d = (p * d + d) + j * d
  BY <1>2
<1>4. j * d \in Nat /\ p * d \in Nat
  BY ProductNat
<1> QED
  BY <1>3, <1>4

LEMMA NextMultiple ==
  ASSUME NEW d \in Nat \ {0}, NEW x \in Nat, NEW y \in Nat, Multiple(x, d), x < y
  PROVE  /\ x + d <= RoundDown(y + d - 1, d)
         /\ Multiple(x + d, d)
<1> DEFINE r == RoundDown(y + d - 1, d)
<1>1. r \in Nat /\ y + d - 1 < r + d /\ Multiple(r, d)
  <2>1. y + d - 1 \in Nat
    OBVIOUS
  <2> QED
    BY <2>1, RoundDownIs
<1>2. PICK p \in Nat : x = p * d
  BY DEF Multiple
<1>3. PICK q \in Nat : r = q * d
  BY <1>1 DEF Multiple
<1> HIDE DEF r
<1>4. x < r
  BY <1>1
<1>5. x + d <= r
  <2>1. p * d < q * d
    BY <1>2, <1>3, <1>4
  <2> QED
    BY <1>2, <1>3, <2>1, ProductMonotone
<1>6. x + d = (p + 1) * d
  BY <1>2, SectorAhead
<1>7. Multiple(x + d, d)
  BY <1>6 DEF Multiple
<1> QED
  BY <1>5, <1>7 DEF r

(* The first sector of a segment, counted from the disk's first.           *)
LEMMA FirstSector ==
  ASSUME NEW d \in Nat \ {0}, NEW va \in Nat, NEW offset \in Nat,
         va % d = offset % d
  PROVE  /\ 1 + (offset \div d) \in Nat
         /\ (1 + (offset \div d)) * d - RoundDown(va, d) = (d + offset) - va
  BY DEF RoundDown

(* Byte k of segment n is in memory as the kernel's file has it.           *)
SegmentThere(n) ==
  LET ph == kernel.phdrs[n]
  IN  \A k \in 0 .. ph.p_memsz - 1 :
        memory[ph.p_va + k] = IF k < ph.p_filesz
                              THEN kernel.bytes[ph.p_offset + k + 1] ELSE 0

HeaderThere ==
  \A k \in 1 .. PAGESIZE :
    k <= Len(kernel.bytes) => memory[ELFHDR + k - 1] = kernel.bytes[k]

(* readsect has come to bootVa: the bytes below are there, and the next    *)
(* sector is the one for bootVa.                                           *)
SectorsThere(ph) ==
  /\ Multiple(bootVa, SECTORSIZE)
  /\ RoundDown(ph.p_va, SECTORSIZE) <= bootVa
  /\ bootSect * SECTORSIZE - bootVa = (SECTORSIZE + ph.p_offset) - ph.p_va
  /\ \A k \in 0 .. ph.p_filesz - 1 :
       ph.p_va + k < bootVa /\ ph.p_offset + k + 1 <= Len(kernel.bytes) =>
         memory[ph.p_va + k] = kernel.bytes[ph.p_offset + k + 1]

BootAt ==
  /\ boot \in {"off", "segment", "sectors", "header", "spin", "kernel"}
  /\ bootPh \in Nat /\ bootVa \in Nat /\ bootSect \in Nat
  /\ boot = "off" => bootPh = 0
  /\ boot = "sectors" => MorePhs
  /\ boot \in {"segment", "sectors", "header"} => bootPh <= Len(kernel.phdrs) + 1

SegmentsThere ==
  boot \in {"segment", "sectors", "header"} =>
    \A n \in 1 .. bootPh - 1 : SegmentThere(n)

HeaderKept ==
  boot \in {"segment", "sectors", "header"} /\ bootPh > 0 => HeaderThere

BootInv ==
  /\ DiskInv
  /\ BootAt
  /\ ~ cut => /\ SegmentsThere
              /\ HeaderKept
              /\ boot = "sectors" => SectorsThere(Ph)

(* The bytes of a segment are in its place, and those of the file are not
   cleared after they are read.                                            *)
LEMMA AtInPlace ==
  ASSUME NEW ph, ph.p_va \in Nat, ph.p_memsz \in Nat, NEW k \in 0 .. ph.p_memsz - 1
  PROVE  ph.p_va + k \in Place(ph)
  BY DEF Place, EndMem

LEMMA AtNotCleared ==
  ASSUME NEW ph, ph.p_va \in Nat, ph.p_filesz \in Nat, ph.p_memsz \in Nat,
         NEW k \in 0 .. ph.p_filesz - 1
  PROVE  ph.p_va + k \notin Cleared(ph)
  BY DEF Cleared, EndVa, EndMem

(* What is known of what bootmain has come to.                             *)
LEMMA PhIs ==
  ASSUME KernelsInPlace, DiskInv, BootAt, MorePhs
  PROVE  /\ Ph.p_va \in Nat /\ Ph.p_offset \in Nat
         /\ Ph.p_filesz \in Nat /\ Ph.p_memsz \in Nat
         /\ Ph.p_filesz <= Ph.p_memsz
         /\ Place(Ph) \subseteq Addresses
         /\ Ph.p_va % SECTORSIZE = Ph.p_offset % SECTORSIZE
<1>1. KernelPlaced(kernel) /\ kernel.phdrs \in Seq(Proghdr)
  BY KernelIs DEF DiskInv, KernelsInPlace
<1>2. CASE bootPh = 0
  <2>1. Ph = FirstPage
    BY <1>2 DEF Ph
  <2>2. ELFHDR \in Nat /\ PAGESIZE \in Nat
    BY BootLoaderAssumption, ElfAssumption DEF Addresses
  <2>3. 0 % SECTORSIZE = 0
    BY DiskImageAssumption, ModSmall
  <2> QED
    BY <1>1, <2>1, <2>2, <2>3 DEF FirstPage, KernelPlaced
<1>3. CASE bootPh # 0
  <2>1. bootPh \in DOMAIN kernel.phdrs /\ Ph = kernel.phdrs[bootPh]
    BY <1>1, <1>3 DEF Ph, MorePhs, BootAt
  <2>2. Ph \in Proghdr
    BY <1>1, <2>1
  <2>3. /\ Ph.p_va \in Nat /\ Ph.p_offset \in Nat
        /\ Ph.p_filesz \in Nat /\ Ph.p_memsz \in Nat
    BY <2>2, ElfAssumption DEF Proghdr, Addresses
  <2>4. /\ Ph.p_filesz <= Ph.p_memsz
        /\ Place(Ph) \subseteq Addresses
        /\ Ph.p_va % SECTORSIZE = Ph.p_offset % SECTORSIZE
    BY <1>1, <2>1 DEF KernelPlaced
  <2> QED
    BY <2>3, <2>4
<1> QED
  BY <1>2, <1>3

LEMMA ReadSegmentStep ==
  ASSUME KernelsInPlace, BootInv, ReadSegment, UNCHANGED imageVars
  PROVE  BootInv'
<1>0. DiskInv'
  BY DEF BootInv, DiskInv, ReadSegment, imageVars, DiskTypes, Stage, First, Copying,
         Written, KernelOn
<1>1. /\ UNCHANGED <<kernel, bootPh, memory, cut>> /\ boot = "segment" /\ boot' = "sectors"
      /\ bootVa' = RoundDown(Ph.p_va, SECTORSIZE)
      /\ bootSect' = 1 + (Ph.p_offset \div SECTORSIZE)
      /\ MorePhs
  BY DEF ReadSegment, imageVars
<1> DEFINE ph == Ph
<1>2. /\ ph.p_va \in Nat /\ ph.p_offset \in Nat
      /\ ph.p_filesz \in Nat
      /\ ph.p_va % SECTORSIZE = ph.p_offset % SECTORSIZE
  BY <1>1, PhIs DEF BootInv
<1>3. Ph' = ph
  BY <1>1 DEF Ph
<1> HIDE DEF ph
<1>4. SECTORSIZE \in Nat \ {0}
  BY DiskImageAssumption
<1>5. /\ RoundDown(ph.p_va, SECTORSIZE) \in Nat
      /\ RoundDown(ph.p_va, SECTORSIZE) <= ph.p_va
      /\ Multiple(RoundDown(ph.p_va, SECTORSIZE), SECTORSIZE)
  BY <1>2, <1>4, RoundDownIs
<1>6. /\ bootVa' = RoundDown(ph.p_va, SECTORSIZE)
      /\ bootSect' = 1 + (ph.p_offset \div SECTORSIZE)
  BY <1>1 DEF ph
<1>7. /\ bootSect' \in Nat
      /\ bootSect' * SECTORSIZE - bootVa' = (SECTORSIZE + ph.p_offset) - ph.p_va
  BY <1>2, <1>4, <1>6, FirstSector
<1>8. BootAt'
  BY <1>1, <1>5, <1>6, <1>7 DEF BootInv, BootAt, MorePhs
<1>9. \A k \in 0 .. ph.p_filesz - 1 : ~ (ph.p_va + k < bootVa')
  BY <1>2, <1>5, <1>6
<1>10. SectorsThere(Ph)'
  BY <1>1, <1>3, <1>5, <1>6, <1>7, <1>9 DEF SectorsThere
<1>11. ~ cut' => SegmentsThere' /\ HeaderKept'
  BY <1>1 DEF BootInv, SegmentsThere, HeaderKept, SegmentThere, HeaderThere
<1> QED
  BY <1>0, <1>8, <1>10, <1>11 DEF BootInv

(* A sector that is read holds that part of the file.                      *)
LEMMA SectorBytes ==
  ASSUME KernelsInPlace, BootInv, ReadSector, ~ cut,
         NEW a \in Addresses, a \in bootVa .. bootVa + SECTORSIZE - 1,
         NEW o \in Nat, o + Ph.p_va = a + Ph.p_offset, o < Len(kernel.bytes)
  PROVE  memory'[a] = kernel.bytes[o + 1]
<1> DEFINE start == bootSect * SECTORSIZE
           ph == Ph
<1>1. /\ ph.p_va \in Nat /\ ph.p_offset \in Nat /\ bootVa \in Nat
      /\ start - bootVa = (SECTORSIZE + ph.p_offset) - ph.p_va
  BY PhIs DEF BootInv, BootAt, SectorsThere, ReadSector
<1>2. start \in Nat /\ SECTORSIZE \in Nat
  <2>1. bootSect \in Nat /\ SECTORSIZE \in Nat
    BY DiskImageAssumption DEF BootInv, BootAt
  <2> QED
    BY <2>1, ProductNat
<1>3. memory'[a] = out[start + (a - bootVa) + 1]
  BY DEF ReadSector, ReadSect, DiskByte
<1>4. a \in Nat /\ o + ph.p_va = a + ph.p_offset
  BY ElfAssumption DEF Addresses
<1> HIDE DEF start, ph
<1>5. start + (a - bootVa) + 1 = SECTORSIZE + (o + 1)
  BY <1>1, <1>2, <1>4
<1>6. o + 1 \in 1 .. Len(kernel.bytes)
  BY KernelIs DEF BootInv, DiskInv
<1>7. out[SECTORSIZE + (o + 1)] = kernel.bytes[o + 1]
  <2>1. KernelOn(out)
    BY KernelOnDisk DEF BootInv, DiskInv, ReadSector
  <2> QED
    BY <1>6, <2>1 DEF KernelOn
<1> QED
  BY <1>3, <1>5, <1>7

(* The sector is one of those of the segment.                              *)
LEMMA SectorInside ==
  ASSUME KernelsInPlace, BootInv, ReadSector, ~ cut
  PROVE  /\ bootVa .. bootVa + SECTORSIZE - 1 \subseteq SectorsOf(Ph)
         /\ Multiple(bootVa + SECTORSIZE, SECTORSIZE)
         /\ bootVa + SECTORSIZE \in Nat
<1> DEFINE ph == Ph
           end == EndVa(ph)
<1>1. /\ ph.p_va \in Nat /\ ph.p_filesz \in Nat /\ bootVa \in Nat
      /\ RoundDown(ph.p_va, SECTORSIZE) <= bootVa
      /\ Multiple(bootVa, SECTORSIZE)
      /\ bootVa < end
  BY PhIs DEF BootInv, BootAt, SectorsThere, ReadSector
<1>2. SECTORSIZE \in Nat \ {0}
  BY DiskImageAssumption
<1>3. end \in Nat /\ RoundDown(ph.p_va, SECTORSIZE) \in Nat
  <2>1. end \in Nat
    BY <1>1 DEF EndVa
  <2> HIDE DEF ph
  <2>2. RoundDown(ph.p_va, SECTORSIZE) \in Nat
    BY <1>1, <1>2, RoundDownIs
  <2> QED
    BY <2>1, <2>2
<1>4. SectorsOf(ph) = RoundDown(ph.p_va, SECTORSIZE) ..
                        RoundDown(end + SECTORSIZE - 1, SECTORSIZE) - 1
  BY DEF SectorsOf
<1> HIDE DEF ph, end
<1>5. /\ bootVa + SECTORSIZE <= RoundDown(end + SECTORSIZE - 1, SECTORSIZE)
      /\ Multiple(bootVa + SECTORSIZE, SECTORSIZE)
  BY <1>1, <1>2, <1>3, NextMultiple
<1>6. RoundDown(end + SECTORSIZE - 1, SECTORSIZE) \in Nat
  <2>1. end + SECTORSIZE - 1 \in Nat
    BY <1>2, <1>3
  <2> QED
    BY <1>2, <2>1, RoundDownIs
<1>7. bootVa .. bootVa + SECTORSIZE - 1 \subseteq SectorsOf(ph)
  BY <1>1, <1>2, <1>3, <1>4, <1>5, <1>6
<1> QED
  BY <1>1, <1>2, <1>5, <1>7 DEF ph

(* What the placing of the file says of a segment and an earlier one.      *)
LEMMA EarlierIs ==
  ASSUME KernelsInPlace, DiskInv, BootAt, MorePhs, NEW n \in 1 .. bootPh - 1
  PROVE  LET earlier == kernel.phdrs[n]
         IN  /\ earlier.p_va \in Nat /\ earlier.p_offset \in Nat
             /\ earlier.p_filesz \in Nat /\ earlier.p_memsz \in Nat
             /\ earlier.p_offset + earlier.p_filesz <= Len(kernel.bytes)
             /\ Place(earlier) \subseteq Addresses
             /\ Place(earlier) \cap Cleared(Ph) = {}
             /\ Place(earlier) \cap SectorsOf(Ph) # {} =>
                  /\ Cleared(earlier) \cap SectorsOf(Ph) = {}
                  /\ Ph.p_va - Ph.p_offset = earlier.p_va - earlier.p_offset
<1>1. KernelPlaced(kernel) /\ kernel.phdrs \in Seq(Proghdr)
  BY KernelIs DEF DiskInv, KernelsInPlace
<1>2. bootPh \in DOMAIN kernel.phdrs /\ Ph = kernel.phdrs[bootPh] /\ n \in DOMAIN kernel.phdrs
  BY <1>1 DEF Ph, MorePhs, BootAt
<1>3. kernel.phdrs[n] \in Proghdr
  BY <1>1, <1>2
<1>4. /\ kernel.phdrs[n].p_va \in Nat /\ kernel.phdrs[n].p_offset \in Nat
      /\ kernel.phdrs[n].p_filesz \in Nat /\ kernel.phdrs[n].p_memsz \in Nat
  BY <1>3, ElfAssumption DEF Proghdr, Addresses
<1> QED
  BY <1>1, <1>2, <1>4 DEF KernelPlaced

LEMMA PageOneIs ==
  ASSUME KernelsInPlace, DiskInv, BootAt, MorePhs
  PROVE  /\ Place(FirstPage) \subseteq Addresses
         /\ Place(FirstPage) = ELFHDR .. ELFHDR + PAGESIZE - 1
         /\ ELFHDR \in Nat /\ PAGESIZE \in Nat
         /\ bootPh > 0 => (Place(Ph) \cup SectorsOf(Ph)) \cap Place(FirstPage) = {}
<1>1. KernelPlaced(kernel) /\ kernel.phdrs \in Seq(Proghdr)
  BY KernelIs DEF DiskInv, KernelsInPlace
<1>2. ELFHDR \in Nat /\ PAGESIZE \in Nat
  BY BootLoaderAssumption, ElfAssumption DEF Addresses
<1>3. bootPh > 0 => bootPh \in DOMAIN kernel.phdrs /\ Ph = kernel.phdrs[bootPh]
  BY <1>1 DEF Ph, MorePhs, BootAt
<1> QED
  BY <1>1, <1>2, <1>3 DEF KernelPlaced, Place, FirstPage, EndMem

LEMMA SameDistance ==
  ASSUME NEW va \in Nat, NEW offset \in Nat, NEW va2 \in Nat, NEW offset2 \in Nat,
         NEW k \in Nat, va - offset = va2 - offset2
  PROVE  (offset2 + k) + va = (va2 + k) + offset
  OBVIOUS

LEMMA ReadSectorStep ==
  ASSUME KernelsInPlace, BootInv, ReadSector, UNCHANGED imageVars
  PROVE  BootInv'
<1>0. DiskInv'
  BY DEF BootInv, DiskInv, ReadSector, imageVars, DiskTypes, Stage, First, Copying,
         Written, KernelOn
<1>1. /\ UNCHANGED <<kernel, bootPh, boot, cut>> /\ boot = "sectors"
      /\ bootVa' = bootVa + SECTORSIZE /\ bootSect' = bootSect + 1
      /\ MorePhs /\ bootVa \in Nat /\ bootSect \in Nat
  BY DEF ReadSector, imageVars, BootInv, BootAt
<1>2. SECTORSIZE \in Nat \ {0}
  BY DiskImageAssumption
<1>3. BootAt'
  BY <1>1, <1>2 DEF BootInv, BootAt, MorePhs
<1> DEFINE range == bootVa .. bootVa + SECTORSIZE - 1
<1>4. \A a \in Addresses \ range : memory'[a] = memory[a]
  BY DEF ReadSector, ReadSect
<1>5. ASSUME ~ cut PROVE SegmentsThere' /\ HeaderKept' /\ SectorsThere(Ph)'
  <2>1. range \subseteq SectorsOf(Ph)
    BY <1>5, SectorInside
  <2>2. \A a \in Addresses : a \in range =>
          \A o \in Nat : o + Ph.p_va = a + Ph.p_offset /\ o < Len(kernel.bytes) =>
            memory'[a] = kernel.bytes[o + 1]
    BY <1>5, SectorBytes
  <2>3. Len(kernel.bytes) \in Nat
    BY KernelIs DEF BootInv, DiskInv
  <2>4. /\ Ph.p_va \in Nat /\ Ph.p_offset \in Nat
        /\ Ph.p_filesz \in Nat /\ Ph.p_memsz \in Nat
        /\ Ph.p_filesz <= Ph.p_memsz /\ Place(Ph) \subseteq Addresses
    BY <1>1, PhIs DEF BootInv
  <2> HIDE DEF range
  <2>5. ASSUME NEW n \in 1 .. bootPh - 1
        PROVE  SegmentThere(n)'
    <3> DEFINE earlier == kernel.phdrs[n]
    <3>1. /\ earlier.p_va \in Nat /\ earlier.p_offset \in Nat
          /\ earlier.p_filesz \in Nat /\ earlier.p_memsz \in Nat
          /\ earlier.p_offset + earlier.p_filesz <= Len(kernel.bytes)
          /\ Place(earlier) \subseteq Addresses
          /\ Place(earlier) \cap SectorsOf(Ph) # {} =>
               /\ Cleared(earlier) \cap SectorsOf(Ph) = {}
               /\ Ph.p_va - Ph.p_offset = earlier.p_va - earlier.p_offset
      BY <1>1, EarlierIs DEF BootInv
    <3>2. SegmentThere(n)
      BY <1>1, <1>5 DEF BootInv, SegmentsThere
    <3> HIDE DEF earlier
    <3>3. SUFFICES ASSUME NEW k \in 0 .. earlier.p_memsz - 1
                   PROVE  memory'[earlier.p_va + k] =
                            IF k < earlier.p_filesz
                            THEN kernel.bytes[earlier.p_offset + k + 1] ELSE 0
      BY <1>1 DEF SegmentThere, earlier
    <3>4. memory[earlier.p_va + k] = IF k < earlier.p_filesz
                                     THEN kernel.bytes[earlier.p_offset + k + 1] ELSE 0
      BY <3>2, <3>3 DEF SegmentThere, earlier
    <3> DEFINE a == earlier.p_va + k
    <3>5. a \in Place(earlier) /\ a \in Addresses
      BY <3>1, <3>3, AtInPlace
    <3>6. CASE a \notin range
      BY <1>4, <3>4, <3>5, <3>6
    <3>7. CASE a \in range
      <4>1. /\ Cleared(earlier) \cap SectorsOf(Ph) = {}
            /\ Ph.p_va - Ph.p_offset = earlier.p_va - earlier.p_offset
        BY <2>1, <3>1, <3>5, <3>7
      <4>2. a \notin Cleared(earlier)
        BY <2>1, <3>7, <4>1
      <4>3. k < earlier.p_filesz
        BY <3>1, <3>3, <4>2 DEF Cleared, EndVa, EndMem
      <4> DEFINE o == earlier.p_offset + k
      <4>4. o \in Nat /\ o + Ph.p_va = a + Ph.p_offset /\ o < Len(kernel.bytes)
        <5>1. k \in Nat /\ o \in Nat
          BY <3>1, <3>3
        <5>2. o + Ph.p_va = a + Ph.p_offset
          <6>1. /\ Ph.p_va \in Nat /\ Ph.p_offset \in Nat
                /\ earlier.p_va \in Nat /\ earlier.p_offset \in Nat
            BY <2>4, <3>1
          <6>2. Ph.p_va - Ph.p_offset = earlier.p_va - earlier.p_offset
            BY <4>1
          <6>3. (earlier.p_offset + k) + Ph.p_va = (earlier.p_va + k) + Ph.p_offset
            BY <5>1, <6>1, <6>2, SameDistance
          <6> QED
            BY <6>3
        <5>3. o < Len(kernel.bytes)
          BY <2>3, <3>1, <4>3, <5>1
        <5> QED
          BY <5>1, <5>2, <5>3
      <4>5. memory'[a] = kernel.bytes[o + 1]
        <5> HIDE DEF a, o
        <5> QED
          BY <2>2, <3>5, <3>7, <4>4
      <4> QED
        BY <4>3, <4>5
    <3> QED
      BY <3>6, <3>7
  <2>6. ASSUME bootPh > 0
        PROVE  HeaderThere'
    <3>1. /\ Place(FirstPage) \subseteq Addresses
          /\ Place(FirstPage) = ELFHDR .. ELFHDR + PAGESIZE - 1
          /\ ELFHDR \in Nat /\ PAGESIZE \in Nat
          /\ (Place(Ph) \cup SectorsOf(Ph)) \cap Place(FirstPage) = {}
      BY <1>1, <2>6, PageOneIs DEF BootInv
    <3>2. HeaderThere
      BY <1>1, <1>5, <2>6 DEF BootInv, HeaderKept
    <3>3. ASSUME NEW k \in 1 .. PAGESIZE
          PROVE  memory'[ELFHDR + k - 1] = memory[ELFHDR + k - 1]
      <4>1. ELFHDR + k - 1 \in Place(FirstPage)
        BY <3>1, <3>3
      <4> QED
        BY <1>4, <2>1, <3>1, <4>1
    <3> QED
      BY <1>1, <3>2, <3>3 DEF HeaderThere
  <2>7. ASSUME NEW k \in 0 .. Ph.p_filesz - 1,
               Ph.p_va + k < bootVa', Ph.p_offset + k + 1 <= Len(kernel.bytes)
        PROVE  memory'[Ph.p_va + k] = kernel.bytes[Ph.p_offset + k + 1]
    <3> DEFINE ph == Ph
               a == ph.p_va + k
               o == ph.p_offset + k
    <3>1. a \in Addresses /\ o \in Nat /\ o < Len(kernel.bytes) /\ k \in Nat
      <4>1. a \in Place(ph)
        BY <2>4, <2>7 DEF Place, EndMem
      <4> QED
        BY <2>3, <2>4, <2>7, <4>1
    <3>2. CASE a < bootVa
      <4>1. a \notin range
        BY <1>1, <3>2 DEF range
      <4>2. memory[a] = kernel.bytes[o + 1]
        BY <1>1, <1>5, <2>7, <3>2 DEF BootInv, SectorsThere
      <4> QED
        BY <1>4, <3>1, <4>1, <4>2
    <3>3. CASE ~ (a < bootVa)
      <4>1. a \in range
        <5>1. a \in Nat
          BY <2>4, <3>1
        <5> HIDE DEF a
        <5>2. a < bootVa'
          BY <2>7 DEF a
        <5>3. a < bootVa + SECTORSIZE /\ a >= bootVa
          BY <1>1, <1>2, <3>3, <5>1, <5>2
        <5> QED
          BY <1>1, <1>2, <5>1, <5>3 DEF range
      <4>2. o + ph.p_va = a + ph.p_offset
        BY <2>4, <3>1
      <4> QED
        BY <2>2, <3>1, <4>1, <4>2
    <3> QED
      BY <3>2, <3>3
  <2>8. /\ Multiple(bootVa', SECTORSIZE)
        /\ RoundDown(Ph.p_va, SECTORSIZE) <= bootVa'
        /\ bootSect' * SECTORSIZE - bootVa' = (SECTORSIZE + Ph.p_offset) - Ph.p_va
    <3>1. Multiple(bootVa', SECTORSIZE)
      BY <1>1, <1>5, SectorInside
    <3> DEFINE ph == Ph
               rounded == RoundDown(ph.p_va, SECTORSIZE)
               start == bootSect * SECTORSIZE
    <3>2. rounded \in Nat /\ rounded <= bootVa
      BY <1>1, <1>2, <1>5, <2>4, RoundDownIs DEF BootInv, SectorsThere
    <3>3. start \in Nat /\ start - bootVa = (SECTORSIZE + ph.p_offset) - ph.p_va
      BY <1>1, <1>2, <1>5, ProductNat DEF BootInv, SectorsThere
    <3>4. (bootSect + 1) * SECTORSIZE = start + SECTORSIZE
      BY <1>1, <1>2, SectorAhead
    <3>5. ph.p_va \in Nat /\ ph.p_offset \in Nat
      BY <2>4
    <3> HIDE DEF ph, rounded, start
    <3>6. rounded <= bootVa'
      BY <1>1, <1>2, <3>2
    <3>7. bootSect' * SECTORSIZE - bootVa' = (SECTORSIZE + ph.p_offset) - ph.p_va
      <4>1. bootSect' * SECTORSIZE = start + SECTORSIZE /\ bootVa' = bootVa + SECTORSIZE
        BY <1>1, <3>4
      <4>2. (start + SECTORSIZE) - (bootVa + SECTORSIZE) = start - bootVa
        BY <1>1, <1>2, <3>3
      <4> QED
        BY <3>3, <4>1, <4>2
    <3> QED
      BY <3>1, <3>6, <3>7 DEF ph, rounded
  <2>9. Ph' = Ph
    BY <1>1 DEF Ph
  <2>10. SectorsThere(Ph)'
    BY <1>1, <2>7, <2>8, <2>9 DEF SectorsThere
  <2>11. SegmentsThere'
    BY <1>1, <2>5 DEF SegmentsThere
  <2> QED
    BY <1>1, <2>6, <2>10, <2>11 DEF HeaderKept
<1> QED
  BY <1>0, <1>1, <1>3, <1>5 DEF BootInv

(* The end of readseg: all of the segment is there.                        *)
LEMMA ReadDoneStep ==
  ASSUME KernelsInPlace, BootInv, ReadDone, UNCHANGED imageVars
  PROVE  BootInv'
<1>0. DiskInv'
  BY DEF BootInv, DiskInv, ReadDone, imageVars, DiskTypes, Stage, First, Copying,
         Written, KernelOn
<1>1. /\ UNCHANGED <<kernel, cut, bootVa, bootSect>> /\ boot = "sectors"
      /\ boot' = IF bootPh = 0 THEN "header" ELSE "segment"
      /\ bootPh' = bootPh + 1 /\ bootPh \in Nat /\ MorePhs
  BY DEF ReadDone, imageVars, BootInv, BootAt
<1>2. Len(kernel.bytes) \in Nat /\ Len(kernel.phdrs) \in Nat
  BY KernelIs DEF BootInv, DiskInv
<1>3. BootAt'
  BY <1>1, <1>2 DEF BootInv, BootAt, MorePhs
<1>4. /\ Ph.p_va \in Nat /\ Ph.p_offset \in Nat
      /\ Ph.p_filesz \in Nat /\ Ph.p_memsz \in Nat
      /\ Ph.p_filesz <= Ph.p_memsz /\ Place(Ph) \subseteq Addresses
  BY <1>1, PhIs DEF BootInv
<1>5. /\ \A a \in Addresses \cap Cleared(Ph) : memory'[a] = 0
      /\ \A a \in Addresses \ Cleared(Ph) : memory'[a] = memory[a]
  BY DEF ReadDone, ClearBss, Cleared
<1>6. Cleared(Ph) \subseteq Place(Ph)
  BY <1>4 DEF Cleared, Place, EndVa
<1>7. ASSUME ~ cut,
             NEW k \in 0 .. Ph.p_filesz - 1, Ph.p_offset + k + 1 <= Len(kernel.bytes)
      PROVE  memory'[Ph.p_va + k] = kernel.bytes[Ph.p_offset + k + 1]
  <2>1. bootVa >= Ph.p_va + Ph.p_filesz /\ bootVa \in Nat
    BY DEF ReadDone, EndVa, BootInv, BootAt
  <2>2. Ph.p_va + k < bootVa
    BY <1>4, <1>7, <2>1
  <2>3. memory[Ph.p_va + k] = kernel.bytes[Ph.p_offset + k + 1]
    BY <1>1, <1>7, <2>2 DEF BootInv, SectorsThere
  <2>4. Ph.p_va + k \in Addresses /\ Ph.p_va + k \notin Cleared(Ph)
    <3>1. k \in 0 .. Ph.p_memsz - 1
      BY <1>4, <1>7
    <3> QED
      BY <1>4, <1>7, <3>1, AtInPlace, AtNotCleared
  <2> QED
    BY <1>5, <2>3, <2>4
<1>8. ASSUME ~ cut PROVE SegmentsThere' /\ HeaderKept'
  <2>1. ASSUME NEW n \in 1 .. bootPh - 1
        PROVE  SegmentThere(n)'
    <3> DEFINE earlier == kernel.phdrs[n]
    <3>1. /\ earlier.p_va \in Nat /\ earlier.p_memsz \in Nat
          /\ Place(earlier) \subseteq Addresses
          /\ Place(earlier) \cap Cleared(Ph) = {}
      BY <1>1, EarlierIs DEF BootInv
    <3>2. SegmentThere(n)
      BY <1>1, <1>8 DEF BootInv, SegmentsThere
    <3>3. ASSUME NEW k \in 0 .. earlier.p_memsz - 1
          PROVE  memory'[earlier.p_va + k] = memory[earlier.p_va + k]
      <4> HIDE DEF earlier
      <4>1. earlier.p_va + k \in Place(earlier)
        BY <3>1, <3>3 DEF Place, EndMem
      <4> QED
        BY <1>5, <3>1, <4>1
    <3> QED
      BY <1>1, <3>2, <3>3 DEF SegmentThere
  <2>2. ASSUME NEW n \in Nat \ {0}, n = bootPh
        PROVE  SegmentThere(n)'
    <3> DEFINE ph == kernel.phdrs[n]
    <3>1. Ph = ph
      BY <2>2 DEF Ph
    <3>2. ph.p_offset + ph.p_filesz <= Len(kernel.bytes)
      <4>1. KernelPlaced(kernel) /\ n \in DOMAIN kernel.phdrs
        BY <1>1, <2>2, KernelIs DEF BootInv, DiskInv, KernelsInPlace, MorePhs
      <4> QED
        BY <4>1 DEF KernelPlaced
    <3> HIDE DEF ph
    <3>3. SUFFICES ASSUME NEW k \in 0 .. ph.p_memsz - 1
                   PROVE  memory'[ph.p_va + k] = IF k < ph.p_filesz
                                                 THEN kernel.bytes[ph.p_offset + k + 1] ELSE 0
      BY <1>1 DEF SegmentThere, ph
    <3>4. /\ ph.p_va \in Nat /\ ph.p_offset \in Nat
          /\ ph.p_filesz \in Nat /\ ph.p_memsz \in Nat
          /\ Place(ph) \subseteq Addresses
      BY <1>4, <3>1
    <3>5. CASE k < ph.p_filesz
      <4>1. k \in 0 .. ph.p_filesz - 1 /\ ph.p_offset + k + 1 <= Len(kernel.bytes)
        BY <1>2, <3>2, <3>3, <3>4, <3>5
      <4> QED
        BY <1>7, <1>8, <3>1, <3>5, <4>1
    <3>6. CASE ~ (k < ph.p_filesz)
      <4>1. ph.p_va + k \in Cleared(ph) /\ ph.p_va + k \in Place(ph)
        BY <3>3, <3>4, <3>6 DEF Cleared, Place, EndVa, EndMem
      <4> QED
        BY <1>5, <3>1, <3>4, <3>6, <4>1
    <3> QED
      BY <3>5, <3>6
  <2>3. SegmentsThere'
    <3>1. \A n \in 1 .. bootPh' - 1 : n \in 1 .. bootPh - 1 \/ (n \in Nat \ {0} /\ n = bootPh)
      BY <1>1
    <3> QED
      BY <2>1, <2>2, <3>1 DEF SegmentsThere
  <2>4. HeaderThere'
    <3>1. /\ Place(FirstPage) \subseteq Addresses
          /\ Place(FirstPage) = ELFHDR .. ELFHDR + PAGESIZE - 1
          /\ ELFHDR \in Nat /\ PAGESIZE \in Nat
          /\ bootPh > 0 => (Place(Ph) \cup SectorsOf(Ph)) \cap Place(FirstPage) = {}
      BY <1>1, PageOneIs DEF BootInv
    <3>2. CASE bootPh > 0
      <4>1. HeaderThere
        BY <1>1, <1>8, <3>2 DEF BootInv, HeaderKept
      <4>2. ASSUME NEW k \in 1 .. PAGESIZE
            PROVE  memory'[ELFHDR + k - 1] = memory[ELFHDR + k - 1]
        <5>1. ELFHDR + k - 1 \in Place(FirstPage)
          BY <3>1, <4>2
        <5> QED
          BY <1>5, <1>6, <3>1, <3>2, <5>1
      <4> QED
        BY <1>1, <4>1, <4>2 DEF HeaderThere
    <3>3. CASE bootPh = 0
      <4>1. Ph = FirstPage
        BY <3>3 DEF Ph
      <4>2. ASSUME NEW k \in 1 .. PAGESIZE, k <= Len(kernel.bytes)
            PROVE  memory'[ELFHDR + k - 1] = kernel.bytes[k]
        <5> DEFINE j == k - 1
        <5>1. /\ j \in 0 .. Ph.p_filesz - 1
              /\ Ph.p_offset + j + 1 = k /\ Ph.p_va + j = ELFHDR + k - 1
          BY <3>1, <4>1, <4>2 DEF FirstPage
        <5>2. memory'[Ph.p_va + j] = kernel.bytes[Ph.p_offset + j + 1]
          <6> HIDE DEF j
          <6>1. Ph.p_offset + j + 1 <= Len(kernel.bytes)
            BY <4>2, <5>1
          <6> QED
            BY <1>7, <1>8, <5>1, <6>1
        <5> HIDE DEF j
        <5> QED
          BY <5>1, <5>2
      <4> QED
        BY <1>1, <4>2 DEF HeaderThere
    <3> QED
      BY <1>1, <3>2, <3>3
  <2> QED
    BY <2>3, <2>4 DEF HeaderKept
<1> QED
  BY <1>0, <1>1, <1>3, <1>8 DEF BootInv

LEMMA BootInitially ==
  Init => BootInv
<1> SUFFICES ASSUME Init PROVE BootInv
  OBVIOUS
<1>1. DiskInv
  BY DiskInitially
<1> QED
  BY <1>1 DEF Init, BootInit, BootInv, BootAt, SegmentsThere, HeaderKept

(* The loader is part of the kernel.                                       *)
KernelFirst == loader # "off" => boot = "kernel"

LEMMA KernelFirstStep ==
  ASSUME KernelFirst, [Next]_startupVars
  PROVE  KernelFirst'
<1>1. CASE ImageNext /\ UNCHANGED <<bootVars, loaderVars, memory>>
  BY <1>1 DEF KernelFirst, bootVars, loaderVars
<1>2. CASE PowerOn
  BY <1>2 DEF PowerOn, KernelFirst, loaderVars
<1>3. CASE BootNext /\ UNCHANGED <<imageVars, loaderVars>>
  BY <1>3, BootEnds DEF KernelFirst, loaderVars
<1>4. CASE Start
  BY <1>4 DEF Start, KernelFirst, bootVars
<1>5. CASE LoaderNext /\ UNCHANGED <<imageVars, bootVars>>
  BY <1>5 DEF LoaderNext, CheckMagic, CopySegment, NextProgram, KernelFirst, bootVars
<1>6. CASE Ended \/ UNCHANGED startupVars
  BY <1>6 DEF Ended, startupVars, KernelFirst, bootVars, loaderVars
<1> QED
  BY <1>1, <1>2, <1>3, <1>4, <1>5, <1>6 DEF Next

(* No read fails once the image is done.                                   *)
LEMMA CutStays ==
  ASSUME DiskInv, boot # "off", ImageNext
  PROVE  UNCHANGED cut
  BY DEF DiskInv, ImageNext, Write, WriteFails, BootTooLarge, BootSector, SkipTooLate,
         Skip, Skipped, OpenFails, Open, Read, ReadFails, Pad, Fill, Finish, AtArg, At,
         Exits, ZeroSector

LEMMA BootStep ==
  ASSUME KernelsInPlace, BootInv, KernelFirst, [Next]_startupVars
  PROVE  BootInv'
<1>1. DiskInv'
  BY DiskStep DEF BootInv
<1>2. ASSUME UNCHANGED <<bootVars, memory>>, boot \in {"segment", "sectors", "header"} => UNCHANGED cut
      PROVE  BootInv'
  BY <1>1, <1>2 DEF BootInv, BootAt, SegmentsThere, HeaderKept, SectorsThere,
                    SegmentThere, HeaderThere, Ph, MorePhs, bootVars
<1>3. CASE ImageNext /\ UNCHANGED <<bootVars, loaderVars, memory>>
  <2>1. boot # "off" => UNCHANGED cut
    BY <1>3, CutStays DEF BootInv
  <2> QED
    BY <1>2, <1>3, <2>1
<1>4. CASE PowerOn
  <2>1. /\ boot = "off" /\ boot' = "segment" /\ bootPh = 0
        /\ UNCHANGED <<kernel, bootPh, bootVa, bootSect>>
    BY <1>4 DEF PowerOn, BootInv, BootAt
  <2>2. Len(kernel.phdrs) \in Nat
    BY KernelIs DEF BootInv, DiskInv
  <2> QED
    BY <1>1, <2>1, <2>2 DEF BootInv, BootAt, SegmentsThere, HeaderKept
<1>5. CASE BootNext /\ UNCHANGED <<imageVars, loaderVars>>
  <2>1. CASE CheckHeader
    BY <1>1, <1>5, <2>1 DEF CheckHeader, imageVars, BootInv, BootAt, SegmentsThere,
                            HeaderKept, SegmentThere, HeaderThere, MorePhs
  <2>2. CASE Jump
    BY <1>1, <1>5, <2>2 DEF Jump, imageVars, BootInv, BootAt, SegmentsThere, HeaderKept
  <2> QED
    BY <1>5, <2>1, <2>2, ReadSegmentStep, ReadSectorStep, ReadDoneStep DEF BootNext
<1>6. CASE Start
  BY <1>2, <1>6 DEF Start, imageVars
<1>7. CASE LoaderNext /\ UNCHANGED <<imageVars, bootVars>>
  <2>1. boot = "kernel" /\ UNCHANGED bootVars /\ UNCHANGED boot
    BY <1>7 DEF LoaderNext, CheckMagic, CopySegment, NextProgram, KernelFirst, bootVars
  <2> QED
    BY <1>1, <2>1 DEF BootInv, BootAt, SegmentsThere, HeaderKept, MorePhs, bootVars
<1>8. CASE Ended \/ UNCHANGED startupVars
  BY <1>2, <1>8 DEF Ended, startupVars, imageVars
<1> QED
  BY <1>3, <1>4, <1>5, <1>6, <1>7, <1>8 DEF Next

(* While bootmain reads the kernel, the program headers it goes through    *)
(* stay in memory as they are in the kernel's file (schedos-boot.c,        *)
(* bootmain), for any size of sector, page and memory and any kernel that  *)
(* is placed as ld places it.                                              *)
THEOREM HeadersStay ==
  ASSUME KernelsInPlace
  PROVE  Spec => []HeadersKept
<1>1. Init => BootInv /\ KernelFirst
  BY BootInitially DEF Init, LoaderInit, KernelFirst
<1>2. BootInv /\ KernelFirst /\ [Next]_startupVars => (BootInv /\ KernelFirst)'
  BY BootStep, KernelFirstStep
<1>3. BootInv => HeadersKept
  BY DEF BootInv, HeaderKept, HeaderThere, HeadersKept
<1> QED
  BY <1>1, <1>2, <1>3, PTL DEF Spec

-----------------------------------------------------------------------------
(* The kernel in memory.                                                   *)

FilesInPlace ==
  /\ KernelsInPlace
  /\ AppsInPlace
  /\ \A file \in Kernels : \A images \in Programs : Apart(file, images)

KernelThere ==
  boot = "kernel" /\ ~ cut => \A n \in 1 .. Len(kernel.phdrs) : SegmentThere(n)

KernelInv == BootInv /\ LoaderInv /\ KernelFirst /\ KernelThere

(* An application's segment goes where none of the kernel's is.            *)
LEMMA CopyApart ==
  ASSUME FilesInPlace, BootInv, LoaderInv, CopySegment,
         NEW n \in 1 .. Len(kernel.phdrs), SegmentThere(n), UNCHANGED kernel
  PROVE  SegmentThere(n)'
<1> DEFINE seg == kernel.phdrs[n]
           ph == ramimages[program].phdrs[loaderPh]
           src == Source(ramimages[program], ph)
<1>1. /\ ramimages \in Programs /\ program \in Apps \cap DOMAIN ramimages
      /\ loaderPh \in DOMAIN ramimages[program].phdrs
  <2>1. ramimages \in Programs /\ program \in Apps \cap DOMAIN ramimages
    BY DEF LoaderInv, LoaderAt, CopySegment
  <2> QED
    BY <2>1, ImageIs DEF LoaderInv, LoaderAt, CopySegment, Phdrs
<1>2. /\ KernelPlaced(kernel) /\ kernel \in Kernels
      /\ n \in DOMAIN kernel.phdrs /\ seg \in Proghdr
  BY KernelIs DEF FilesInPlace, KernelsInPlace, BootInv, DiskInv
<1>3. /\ seg.p_va \in Nat /\ seg.p_memsz \in Nat /\ Place(seg) \subseteq Addresses
  BY <1>2, ElfAssumption DEF KernelPlaced, Proghdr, Addresses
<1>4. CASE NextPh.p_type # ELF_PROG_LOAD
  BY <1>4 DEF CopySegment, SegmentThere
<1>5. CASE NextPh.p_type = ELF_PROG_LOAD
  <2>1. loaderPh \in ToLoad(ramimages[program])
    BY <1>1, <1>5 DEF ToLoad, NextPh, Phdrs
  <2>2. ph \in Proghdr /\ src \in Nat
    BY <1>1, ImageIs
  <2>3. Copyable(src, ph)
    <3>1. /\ ph.p_va % PAGESIZE = 0 /\ ph.p_filesz <= ph.p_memsz
          /\ Place(ph) \cup Origin(ramimages[program], ph) \subseteq Addresses
          /\ Place(ph) \cap Origin(ramimages[program], ph) = {}
      BY <1>1, <2>1 DEF FilesInPlace, AppsInPlace, AppsPlaced
    <3> QED
      BY <3>1 DEF Copyable, Fits, Origin
  <2>4. memory' = CopySeg(memory, src, ph)
    BY <1>5 DEF CopySegment, NextPh, Phdrs
  <2>5. Place(ph) \cap Place(seg) = {}
    BY <1>1, <1>2, <2>1 DEF FilesInPlace, Apart
  <2>6. \A a \in Addresses \ Place(ph) : memory'[a] = memory[a]
    <3> HIDE DEF ph, src
    <3> QED
      BY <2>2, <2>3, <2>4, CopySegIs
  <2>7. ASSUME NEW k \in 0 .. seg.p_memsz - 1
        PROVE  memory'[seg.p_va + k] = memory[seg.p_va + k]
    <3> HIDE DEF seg, ph
    <3>1. seg.p_va + k \in Place(seg)
      BY <1>3, <2>7 DEF Place, EndMem
    <3> QED
      BY <1>3, <2>5, <2>6, <3>1
  <2> QED
    BY <2>7 DEF SegmentThere
<1> QED
  BY <1>4, <1>5

LEMMA KernelStep ==
  ASSUME FilesInPlace, KernelInv, [Next]_startupVars
  PROVE  KernelInv'
<1>1. BootInv' /\ LoaderInv' /\ KernelFirst'
  BY BootStep, LoaderStep, KernelFirstStep DEF FilesInPlace, KernelInv
<1> SUFFICES KernelThere'
  BY <1>1 DEF KernelInv
<1>2. ASSUME UNCHANGED <<boot, kernel, memory>>, boot = "kernel" => UNCHANGED cut
      PROVE  KernelThere'
  BY <1>2 DEF KernelInv, KernelThere, SegmentThere
<1>3. CASE ImageNext /\ UNCHANGED <<bootVars, loaderVars, memory>>
  BY <1>2, <1>3, CutStays DEF KernelInv, BootInv, bootVars
<1>4. CASE PowerOn
  BY <1>4 DEF PowerOn, KernelThere
<1>5. CASE BootNext /\ UNCHANGED <<imageVars, loaderVars>>
  <2>1. CASE Jump
    <3>1. /\ boot = "segment" /\ UNCHANGED <<kernel, memory, cut>>
          /\ bootPh > Len(kernel.phdrs) /\ bootPh \in Nat
      BY <1>5, <2>1 DEF Jump, MorePhs, imageVars, KernelInv, BootInv, BootAt
    <3>2. Len(kernel.phdrs) \in Nat
      BY KernelIs DEF KernelInv, BootInv, DiskInv
    <3>3. ~ cut => \A n \in 1 .. bootPh - 1 : SegmentThere(n)
      BY <3>1 DEF KernelInv, BootInv, SegmentsThere
    <3>4. \A n \in 1 .. Len(kernel.phdrs) : n \in 1 .. bootPh - 1
      BY <3>1, <3>2
    <3> QED
      BY <3>1, <3>3, <3>4 DEF KernelThere, SegmentThere
  <2>2. CASE ~ Jump
    <3>1. boot' # "kernel"
      BY <1>5, <2>2 DEF BootNext, ReadSegment, ReadSector, ReadDone, CheckHeader
    <3> QED
      BY <3>1 DEF KernelThere
  <2> QED
    BY <2>1, <2>2
<1>6. CASE Start
  BY <1>2, <1>6 DEF Start, bootVars, imageVars
<1>7. CASE LoaderNext /\ UNCHANGED <<imageVars, bootVars>>
  <2>1. UNCHANGED <<boot, kernel, cut>>
    BY <1>7 DEF bootVars, imageVars
  <2>2. CASE CopySegment
    <3>1. SUFFICES ASSUME boot = "kernel", ~ cut, NEW n \in 1 .. Len(kernel.phdrs)
                   PROVE  SegmentThere(n)'
      BY <2>1 DEF KernelThere
    <3>2. SegmentThere(n)
      BY <3>1 DEF KernelInv, KernelThere
    <3> QED
      BY <2>1, <2>2, <3>2, CopyApart DEF KernelInv
  <2>3. CASE CheckMagic \/ NextProgram
    BY <1>2, <2>1, <2>3 DEF CheckMagic, NextProgram
  <2> QED
    BY <1>7, <2>2, <2>3 DEF LoaderNext
<1>8. CASE Ended \/ UNCHANGED startupVars
  BY <1>2, <1>8 DEF Ended, startupVars, imageVars, bootVars
<1> QED
  BY <1>3, <1>4, <1>5, <1>6, <1>7, <1>8 DEF Next

(* The kernel that bootmain has jumped to is in memory, every segment of   *)
(* it, and it stays there while the kernel loads the applications          *)
(* (schedos-boot.c, readseg; schedos-loader.c, copyseg), for any sizes and *)
(* any files that are placed as ld and GNUmakefile place them.             *)
THEOREM KernelStays ==
  ASSUME FilesInPlace
  PROVE  Spec => []KernelLoaded
<1>1. Init => KernelInv
  BY BootInitially, LoaderInitially DEF Init, BootInit, LoaderInit, KernelInv,
     KernelFirst, KernelThere
<1>2. KernelInv /\ [Next]_startupVars => KernelInv'
  BY KernelStep
<1>3. KernelInv => KernelLoaded
  <2> SUFFICES ASSUME KernelInv, boot = "kernel", ~ cut, NEW n \in 1 .. Len(kernel.phdrs)
               PROVE  Loaded(memory,
                             [k \in 0 .. kernel.phdrs[n].p_filesz - 1 |->
                                kernel.bytes[kernel.phdrs[n].p_offset + k + 1]],
                             kernel.phdrs[n])
    BY DEF KernelLoaded
  <2> DEFINE ph == kernel.phdrs[n]
  <2>1. SegmentThere(n)
    BY DEF KernelInv, KernelThere
  <2>2. ph \in Proghdr
    BY KernelIs DEF KernelInv, BootInv, DiskInv
  <2>3. ph.p_filesz \in Nat /\ ph.p_memsz \in Nat
    BY <2>2 DEF Proghdr
  <2>4. \A k \in 0 .. ph.p_memsz - 1 :
          memory[ph.p_va + k] = IF k < ph.p_filesz
                                THEN kernel.bytes[ph.p_offset + k + 1] ELSE 0
    BY <2>1 DEF SegmentThere
  <2> HIDE DEF ph
  <2>5. Loaded(memory,
               [k \in 0 .. ph.p_filesz - 1 |-> kernel.bytes[ph.p_offset + k + 1]], ph)
    BY <2>3, <2>4 DEF Loaded
  <2> QED
    BY <2>5 DEF ph
<1> QED
  BY <1>1, <1>2, <1>3, PTL DEF Spec

-----------------------------------------------------------------------------
(* Folds.                                                                  *)

(* Induction over a set of numbers.                                        *)
LEMMA AllNat ==
  ASSUME NEW T, 0 \in T, \A k \in Nat : k \in T => k + 1 \in T
  PROVE  Nat \subseteq T
<1> DEFINE Less == {pair \in Nat \X Nat : pair[1] < pair[2]}
           Rest == Nat \ T
<1>1. IsWellFoundedOn(Less, Nat)
  BY NatLessThanWellFounded DEF OpToRel
<1>2. \A i, j \in Nat : i < j => <<i, j>> \in Less
  OBVIOUS
<1> HIDE DEF Less
<1>3. SUFFICES ASSUME Rest # {} PROVE FALSE
  OBVIOUS
<1>4. Rest \subseteq Nat
  OBVIOUS
<1>5. PICK least \in Rest : \A k \in Rest : <<k, least>> \notin Less
  <2> HIDE DEF Rest
  <2> QED
    BY <1>1, <1>3, <1>4, WFMin
<1>6. least # 0 /\ least \in Nat /\ least - 1 \in Nat
  BY <1>5
<1>7. least - 1 \in T
  <2>1. <<least - 1, least>> \in Less
    BY <1>2, <1>6
  <2>2. least - 1 \notin Rest
    <3> HIDE DEF Rest
    <3> QED
      BY <1>5, <2>1
  <2> QED
    BY <1>6, <2>2
<1>8. (least - 1) + 1 \in T
  BY <1>6, <1>7
<1> QED
  BY <1>5, <1>6, <1>8

LEMMA MaxIs ==
  ASSUME NEW k \in Nat, NEW s \in SUBSET (1 .. k + 1), k + 1 \in s
  PROVE  Max(s) = k + 1
<1>1. \E x \in s : \A y \in s : x >= y
  <2>1. \A y \in s : k + 1 >= y
    OBVIOUS
  <2> QED
    BY <2>1
<1>2. Max(s) \in s /\ \A y \in s : Max(s) >= y
  BY <1>1 DEF Max
<1> DEFINE max == Max(s)
<1>3. max \in 1 .. k + 1 /\ max >= k + 1
  BY <1>2
<1> HIDE DEF max
<1>4. max = k + 1
  BY <1>3
<1> QED
  BY <1>4 DEF max

(* FoldLeft goes over all subsets of the positions, greatest last.         *)
Folding(g, c, a, k) ==
  g = [s \in SUBSET (1 .. k) |-> IF s = {} THEN c
                                 ELSE AddArg(g[s \ {Max(s)}], a[Max(s)])]

LEMMA FoldExists ==
  ASSUME NEW c, NEW a, NEW n \in Nat
  PROVE  \E g : Folding(g, c, a, n)
<1> DEFINE Good == {k \in Nat : \E g : Folding(g, c, a, k)}
<1>1. 0 \in Good
  <2> DEFINE g == [s \in SUBSET (1 .. 0) |-> c]
  <2>1. \A s \in SUBSET (1 .. 0) : s = {}
    OBVIOUS
  <2>2. Folding(g, c, a, 0)
    BY <2>1 DEF Folding
  <2> QED
    BY <2>2
<1>2. ASSUME NEW k \in Nat, k \in Good
      PROVE  k + 1 \in Good
  <2>1. PICK h : Folding(h, c, a, k)
    BY <1>2
  <2> DEFINE g == [s \in SUBSET (1 .. k + 1) |->
                     IF k + 1 \in s THEN AddArg(h[s \ {k + 1}], a[k + 1]) ELSE h[s]]
  <2>2. ASSUME NEW s \in SUBSET (1 .. k)
        PROVE  /\ s \in SUBSET (1 .. k + 1) /\ k + 1 \notin s
               /\ g[s] = h[s]
               /\ h[s] = IF s = {} THEN c ELSE AddArg(h[s \ {Max(s)}], a[Max(s)])
    <3>1. s \in SUBSET (1 .. k + 1) /\ k + 1 \notin s
      OBVIOUS
    <3>2. h[s] = IF s = {} THEN c ELSE AddArg(h[s \ {Max(s)}], a[Max(s)])
      <4> HIDE DEF g
      <4> QED
        BY <2>1 DEF Folding
    <3> QED
      BY <3>1, <3>2
  <2> HIDE DEF g
  <2>3. ASSUME NEW s \in SUBSET (1 .. k + 1)
        PROVE  g[s] = IF s = {} THEN c ELSE AddArg(g[s \ {Max(s)}], a[Max(s)])
    <3>1. CASE k + 1 \in s
      <4>1. Max(s) = k + 1
        BY <3>1, MaxIs
      <4>2. s \ {k + 1} \in SUBSET (1 .. k)
        OBVIOUS
      <4>3. g[s \ {k + 1}] = h[s \ {k + 1}]
        BY <2>2, <4>2
      <4>4. g[s] = AddArg(h[s \ {k + 1}], a[k + 1])
        BY <3>1 DEF g
      <4> QED
        BY <3>1, <4>1, <4>3, <4>4
    <3>2. CASE k + 1 \notin s
      <4>1. s \in SUBSET (1 .. k)
        BY <3>2
      <4>2. CASE s = {}
        BY <2>2, <4>1, <4>2
      <4>3. CASE s # {}
        <5>1. s \ {Max(s)} \in SUBSET (1 .. k)
          BY <4>1
        <5> QED
          BY <2>2, <4>1, <4>3, <5>1
      <4> QED
        BY <4>2, <4>3
    <3> QED
      BY <3>1, <3>2
  <2>4. g = [s \in SUBSET (1 .. k + 1) |-> g[s]]
    BY DEF g
  <2>5. Folding(g, c, a, k + 1)
    BY <2>3, <2>4 DEF Folding
  <2> QED
    BY <2>5
<1> HIDE DEF Good
<1>3. Nat \subseteq Good
  BY <1>1, <1>2, AllNat
<1> QED
  BY <1>3 DEF Good

LEMMA FoldIs ==
  ASSUME NEW c, NEW a, NEW n \in Nat, DOMAIN a = 1 .. n
  PROVE  \E h : /\ h[0] = c
                /\ \A i \in 1 .. n : h[i] = AddArg(h[i - 1], a[i])
                /\ h[n] = FoldLeft(AddArg, c, a)
<1> DEFINE g == CHOOSE f : Folding(f, c, a, n)
           h == [i \in 0 .. n |-> g[1 .. i]]
<1>1. Folding(g, c, a, n)
  BY FoldExists
<1>2. FoldLeft(AddArg, c, a) = g[1 .. n]
  BY DEF FoldLeft, MapThenFoldSet, Folding
<1> HIDE DEF g
<1>3. h[0] = c
  BY <1>1 DEF Folding
<1>4. ASSUME NEW i \in 1 .. n
      PROVE  h[i] = AddArg(h[i - 1], a[i])
  <2>1. /\ (i - 1) \in Nat /\ (i - 1) + 1 = i
        /\ 1 .. i \in SUBSET (1 .. n) /\ 1 .. i # {} /\ i \in 1 .. i
    OBVIOUS
  <2>2. Max(1 .. i) = i
    BY <2>1, MaxIs
  <2>3. (1 .. i) \ {i} = 1 .. i - 1
    OBVIOUS
  <2>4. g[1 .. i] = AddArg(g[(1 .. i) \ {i}], a[i])
    <3>1. g[1 .. i] = IF 1 .. i = {} THEN c
                      ELSE AddArg(g[(1 .. i) \ {Max(1 .. i)}], a[Max(1 .. i)])
      BY <1>1, <2>1 DEF Folding
    <3> QED
      BY <2>1, <2>2, <3>1
  <2>5. i \in 0 .. n /\ i - 1 \in 0 .. n
    OBVIOUS
  <2>6. h[i] = g[1 .. i] /\ h[i - 1] = g[1 .. i - 1]
    BY <2>5
  <2> HIDE DEF h
  <2> QED
    BY <2>3, <2>4, <2>6
<1>5. h[n] = g[1 .. n]
  OBVIOUS
<1> HIDE DEF h
<1> QED
  BY <1>2, <1>3, <1>4, <1>5

-----------------------------------------------------------------------------
(* The image that the arguments of mkbootdisk ask for.                     *)

Added(image, arguments) == FoldLeft(AddArg, image, arguments)
Asked(image, arguments) == FilledTo(Added(image, arguments), NSECTORS)

(* s is how t starts.                                                      *)
Starting(s, t) == Len(s) <= Len(t) /\ \A k \in 1 .. Len(s) : s[k] = t[k]

LEMMA StartingPrefix ==
  ASSUME NEW s \in Seq(Int), NEW t \in Seq(Int), Starting(s, t)
  PROVE  IsPrefix(s, t)
<1>1. Len(s) \in Nat /\ Len(t) \in Nat /\ Len(s) <= Len(t)
  BY DEF Starting
<1>2. SubSeq(s, 1, Len(s)) = s
  BY SubSeqFull
<1> DEFINE head == SubSeq(t, 1, Len(s))
<1>3. /\ head \in Seq(Int) /\ Len(head) = Len(s)
      /\ \A k \in 1 .. Len(s) : head[k] = t[k]
  <2>1. \A k \in 1 .. Len(s) : t[k] \in Int
    BY <1>1
  <2>2. /\ head \in Seq(Int)
        /\ Len(head) = IF 1 <= Len(s) THEN (Len(s) - 1) + 1 ELSE 0
        /\ \A k \in 1 .. (Len(s) - 1) + 1 : head[k] = t[(1 + k) - 1]
    BY <1>1, <2>1, SubSeqProperties
  <2> HIDE DEF head
  <2> QED
    BY <1>1, <2>2
<1> HIDE DEF head
<1>4. head = s
  BY <1>3, SeqEqual DEF Starting
<1> QED
  BY <1>1, <1>2, <1>4 DEF IsPrefix, head

LEMMA StartingOn ==
  ASSUME NEW s \in Seq(Int), NEW t \in Seq(Int), NEW u \in Seq(Int),
         Starting(s, t), Starting(t, u)
  PROVE  Starting(s, u)
  BY DEF Starting

LEMMA StartingMore ==
  ASSUME NEW s \in Seq(Int), NEW t \in Seq(Int)
  PROVE  s \o t \in Seq(Int) /\ Starting(s, s \o t)
<1>1. /\ s \o t \in Seq(Int) /\ Len(s \o t) = Len(s) + Len(t)
      /\ \A k \in 1 .. Len(s) : (s \o t)[k] = s[k]
  BY Concat
<1> DEFINE w == s \o t
<1>2. w \in Seq(Int) /\ Len(w) = Len(s) + Len(t) /\ \A k \in 1 .. Len(s) : w[k] = s[k]
  BY <1>1
<1> HIDE DEF w
<1>3. w \in Seq(Int) /\ Starting(s, w)
  BY <1>2 DEF Starting
<1> QED
  BY <1>3 DEF w

LEMMA ZerosJoin ==
  ASSUME NEW m \in Nat, NEW n \in Nat
  PROVE  Zeros(m) \o Zeros(n) = Zeros(m + n)
<1> DEFINE s == Zeros(m)
           t == Zeros(n)
           w == s \o t
<1>1. /\ s \in Seq(Int) /\ Len(s) = m /\ \A k \in 1 .. m : s[k] = 0
      /\ t \in Seq(Int) /\ Len(t) = n /\ \A k \in 1 .. n : t[k] = 0
  BY ZerosIs
<1> HIDE DEF s, t
<1>2. /\ w \in Seq(Int) /\ Len(w) = m + n
      /\ \A k \in 1 .. m + n : w[k] = IF k <= m THEN s[k] ELSE t[k - m]
  BY <1>1, ConcatProperties, ZenonT(30)
<1> HIDE DEF w
<1>3. /\ Zeros(m + n) \in Seq(Int) /\ Len(Zeros(m + n)) = m + n
      /\ \A k \in 1 .. m + n : Zeros(m + n)[k] = 0
  BY ZerosIs
<1>4. \A k \in 1 .. m + n : w[k] = 0
  BY <1>1, <1>2
<1>5. w = Zeros(m + n)
  BY <1>2, <1>3, <1>4, SeqEqual
<1> QED
  BY <1>5 DEF w, s, t

LEMMA NoZeros ==
  ASSUME NEW s \in Seq(Int)
  PROVE  s \o Zeros(0) = s
<1>1. Zeros(0) = <<>>
  BY ZerosIs
<1> QED
  BY <1>1, ConcatEmptySeq

LEMMA Positive ==
  ASSUME NEW x \in Int
  PROVE  Max({0, x}) = IF x > 0 THEN x ELSE 0
<1>1. \E y \in {0, x} : \A z \in {0, x} : y >= z
  <2>1. CASE x > 0
    BY <2>1
  <2>2. CASE ~ (x > 0)
    BY <2>2
  <2> QED
    BY <2>1, <2>2
<1>2. Max({0, x}) \in {0, x} /\ \A z \in {0, x} : Max({0, x}) >= z
  BY <1>1 DEF Max
<1> QED
  BY <1>2

(* Filling up to a sector.                                                 *)
LEMMA FilledIs ==
  ASSUME NEW s \in Seq(Int), NEW n \in Nat
  PROVE  /\ FilledTo(s, n) \in Seq(Int) /\ Starting(s, FilledTo(s, n))
         /\ Len(s) >= n * SECTORSIZE => FilledTo(s, n) = s
         /\ Len(s) <= n * SECTORSIZE =>
              FilledTo(s, n) = s \o Zeros(n * SECTORSIZE - Len(s))
<1> DEFINE full == n * SECTORSIZE
           gap == Max({0, full - Len(s)})
<1>1. full \in Nat /\ Len(s) \in Nat
  BY ProductNat, DiskImageAssumption
<1>2. FilledTo(s, n) = s \o Zeros(gap)
  BY DEF FilledTo
<1> HIDE DEF full
<1>3. gap = IF full - Len(s) > 0 THEN full - Len(s) ELSE 0
  BY <1>1, Positive
<1> HIDE DEF gap
<1>4. gap \in Nat
  BY <1>1, <1>3
<1>5. Zeros(gap) \in Seq(Int)
  BY <1>4, ZerosIs
<1>6. FilledTo(s, n) \in Seq(Int) /\ Starting(s, FilledTo(s, n))
  BY <1>2, <1>5, StartingMore
<1>7. ASSUME Len(s) >= full PROVE FilledTo(s, n) = s
  <2>1. gap = 0
    BY <1>1, <1>3, <1>7
  <2> QED
    BY <1>2, <2>1, NoZeros
<1>8. ASSUME Len(s) <= full PROVE FilledTo(s, n) = s \o Zeros(full - Len(s))
  <2>1. gap = full - Len(s)
    BY <1>1, <1>3, <1>8
  <2> QED
    BY <1>2, <2>1
<1> QED
  BY <1>6, <1>7, <1>8 DEF full

(* It comes to the same sector by sector.                                  *)
LEMMA FilledBySector ==
  ASSUME NEW s \in Seq(Int), NEW n \in Nat, Len(s) + SECTORSIZE <= n * SECTORSIZE
  PROVE  FilledTo(s \o Zeros(SECTORSIZE), n) = FilledTo(s, n)
<1> DEFINE full == n * SECTORSIZE
           sector == Zeros(SECTORSIZE)
           longer == s \o sector
           gap == full - (Len(s) + SECTORSIZE)
<1>1. full \in Nat /\ Len(s) \in Nat /\ SECTORSIZE \in Nat
  BY ProductNat, DiskImageAssumption
<1>2. sector \in Seq(Int) /\ Len(sector) = SECTORSIZE
  BY <1>1, ZerosIs
<1> HIDE DEF sector
<1>3. longer \in Seq(Int) /\ Len(longer) = Len(s) + SECTORSIZE
  BY <1>2, Concat
<1>4. Len(s) + SECTORSIZE <= full
  OBVIOUS
<1> HIDE DEF longer, full
<1>5. gap \in Nat /\ SECTORSIZE + gap = full - Len(s) /\ Len(s) <= full
      /\ gap = full - Len(longer) /\ Len(longer) <= full
  BY <1>1, <1>3, <1>4
<1>6. FilledTo(longer, n) = longer \o Zeros(full - Len(longer))
  BY <1>3, <1>5, FilledIs DEF full
<1>7. FilledTo(s, n) = s \o Zeros(full - Len(s))
  BY <1>5, FilledIs DEF full
<1> HIDE DEF gap
<1>8. Zeros(gap) \in Seq(Int) /\ sector \o Zeros(gap) = Zeros(SECTORSIZE + gap)
  BY <1>1, <1>5, ZerosIs, ZerosJoin DEF sector
<1>9. (s \o sector) \o Zeros(gap) = s \o (sector \o Zeros(gap))
  BY <1>2, <1>8, Grouped
<1>10. longer \o Zeros(gap) = s \o Zeros(full - Len(s))
  BY <1>5, <1>8, <1>9 DEF longer
<1>11. FilledTo(longer, n) = FilledTo(s, n)
  BY <1>5, <1>6, <1>7, <1>10
<1> QED
  BY <1>11 DEF longer, sector

(* Filling the last sector of a file.                                      *)
LEMMA PaddedIs ==
  ASSUME NEW s \in Seq(Int)
  PROVE  LET r == Len(s) % SECTORSIZE
             gap == IF r = 0 THEN 0 ELSE SECTORSIZE - r
         IN  /\ gap \in Nat
             /\ Padded(s) = s \o Zeros(gap)
             /\ Padded(s) \in Seq(Int) /\ Starting(s, Padded(s))
<1> DEFINE r == Len(s) % SECTORSIZE
           gap == IF r = 0 THEN 0 ELSE SECTORSIZE - r
<1>1. SECTORSIZE \in Nat \ {0} /\ Len(s) \in Nat
  BY DiskImageAssumption
<1>2. r \in 0 .. SECTORSIZE - 1
  BY <1>1, DivideBy
<1>3. Padded(s) = s \o Zeros((SECTORSIZE - r) % SECTORSIZE)
  BY DEF Padded
<1> HIDE DEF r
<1>4. (SECTORSIZE - r) % SECTORSIZE = gap /\ gap \in Nat
  <2>1. CASE r = 0
    <3>1. SECTORSIZE % SECTORSIZE = 0 /\ SECTORSIZE - r = SECTORSIZE
      BY <1>1, <2>1
    <3> QED
      BY <2>1, <3>1
  <2>2. CASE r # 0
    <3>1. SECTORSIZE - r \in 0 .. SECTORSIZE - 1
      BY <1>1, <1>2, <2>2
    <3>2. (SECTORSIZE - r) % SECTORSIZE = SECTORSIZE - r
      BY <1>1, <3>1, ModSmall
    <3> QED
      BY <2>2, <3>1, <3>2
  <2> QED
    BY <2>1, <2>2
<1> HIDE DEF gap
<1>5. Padded(s) = s \o Zeros(gap) /\ Zeros(gap) \in Seq(Int)
  BY <1>3, <1>4, ZerosIs
<1>6. Padded(s) \in Seq(Int) /\ Starting(s, Padded(s))
  BY <1>5, StartingMore
<1> QED
  BY <1>4, <1>5, <1>6 DEF gap, r

LEMMA AddArgIs ==
  ASSUME NEW s \in Seq(Int), NEW arg \in Arg
  PROVE  AddArg(s, arg) \in Seq(Int) /\ Starting(s, AddArg(s, arg))
<1>1. arg.bytes \in Seq(Int) /\ arg.sector \in Nat
  BY DEF Arg
<1>2. CASE arg.kind = "skip"
  BY <1>1, <1>2, FilledIs DEF AddArg
<1>3. CASE arg.kind # "skip"
  <2> DEFINE t == s \o arg.bytes
  <2>1. t \in Seq(Int) /\ Starting(s, t)
    BY <1>1, StartingMore
  <2>2. AddArg(s, arg) = Padded(t)
    BY <1>3 DEF AddArg
  <2> HIDE DEF t
  <2>3. Padded(t) \in Seq(Int) /\ Starting(t, Padded(t))
    BY <2>1, PaddedIs
  <2> QED
    BY <2>1, <2>2, <2>3, StartingOn
<1> QED
  BY <1>2, <1>3

LEMMA AddedIs ==
  ASSUME NEW s \in Seq(Int), NEW arguments \in Seq(Arg)
  PROVE  Added(s, arguments) \in Seq(Int) /\ Starting(s, Added(s, arguments))
<1> DEFINE n == Len(arguments)
<1>1. n \in Nat /\ DOMAIN arguments = 1 .. n /\ \A i \in 1 .. n : arguments[i] \in Arg
  <2> HIDE DEF Arg
  <2> QED
    OBVIOUS
<1> HIDE DEF n
<1>2. PICK h : /\ h[0] = s
               /\ \A i \in 1 .. n : h[i] = AddArg(h[i - 1], arguments[i])
               /\ h[n] = FoldLeft(AddArg, s, arguments)
  BY <1>1, FoldIs
<1> DEFINE Good == {i \in Nat : i <= n => h[i] \in Seq(Int) /\ Starting(s, h[i])}
<1>3. 0 \in Good
  BY <1>2 DEF Starting
<1>4. ASSUME NEW i \in Nat, i \in Good
      PROVE  i + 1 \in Good
  <2>1. SUFFICES ASSUME i + 1 <= n
                 PROVE  h[i + 1] \in Seq(Int) /\ Starting(s, h[i + 1])
    OBVIOUS
  <2>2. i + 1 \in 1 .. n /\ (i + 1) - 1 = i /\ i <= n
    BY <1>1, <2>1
  <2>3. h[i] \in Seq(Int) /\ Starting(s, h[i])
    BY <1>4, <2>2
  <2>4. h[i + 1] = AddArg(h[i], arguments[i + 1]) /\ arguments[i + 1] \in Arg
    BY <1>1, <1>2, <2>2
  <2>5. h[i + 1] \in Seq(Int) /\ Starting(h[i], h[i + 1])
    BY <2>3, <2>4, AddArgIs
  <2> QED
    BY <2>3, <2>5, StartingOn
<1> HIDE DEF Good
<1>5. Nat \subseteq Good
  BY <1>3, <1>4, AllNat
<1> QED
  BY <1>1, <1>2, <1>5 DEF Good, Added

LEMMA AddedNone ==
  ASSUME NEW s
  PROVE  Added(s, <<>>) = s
<1> DEFINE none == <<>>
<1>1. DOMAIN none = 1 .. 0
  OBVIOUS
<1> HIDE DEF none
<1>2. PICK h : /\ h[0] = s
               /\ \A i \in 1 .. 0 : h[i] = AddArg(h[i - 1], none[i])
               /\ h[0] = FoldLeft(AddArg, s, none)
  BY <1>1, FoldIs
<1> QED
  BY <1>2 DEF Added, none

(* One argument after the other.                                           *)
LEMMA AddedNext ==
  ASSUME NEW s, NEW arguments \in Seq(Arg), arguments # <<>>
  PROVE  Added(s, arguments) = Added(AddArg(s, Head(arguments)), Tail(arguments))
<1> DEFINE n == Len(arguments) - 1
           more == Tail(arguments)
           next == AddArg(s, Head(arguments))
<1>1. /\ n \in Nat /\ n + 1 \in Nat
      /\ DOMAIN arguments = 1 .. n + 1 /\ DOMAIN more = 1 .. n
      /\ Head(arguments) = arguments[1]
      /\ \A i \in 1 .. n : more[i] = arguments[i + 1]
  <2> HIDE DEF Arg
  <2> QED
    OBVIOUS
<1> HIDE DEF n, more, next
<1>2. PICK h : /\ h[0] = s
               /\ \A i \in 1 .. n + 1 : h[i] = AddArg(h[i - 1], arguments[i])
               /\ h[n + 1] = FoldLeft(AddArg, s, arguments)
  BY <1>1, FoldIs, ZenonT(30)
<1>3. PICK g : /\ g[0] = next
               /\ \A i \in 1 .. n : g[i] = AddArg(g[i - 1], more[i])
               /\ g[n] = FoldLeft(AddArg, next, more)
  BY <1>1, FoldIs, ZenonT(30)
<1> DEFINE Same == {i \in Nat : i <= n => g[i] = h[i + 1]}
<1>4. 0 \in Same
  <2>1. 1 \in 1 .. n + 1 /\ 1 - 1 = 0 /\ 0 + 1 = 1
    BY <1>1
  <2>2. h[1] = AddArg(h[0], arguments[1])
    BY <1>2, <2>1
  <2> QED
    BY <1>1, <1>2, <1>3, <2>1, <2>2 DEF next
<1>5. ASSUME NEW i \in Nat, i \in Same
      PROVE  i + 1 \in Same
  <2>1. SUFFICES ASSUME i + 1 <= n PROVE g[i + 1] = h[(i + 1) + 1]
    OBVIOUS
  <2>2. /\ i + 1 \in 1 .. n /\ (i + 1) + 1 \in 1 .. n + 1
        /\ (i + 1) - 1 = i /\ ((i + 1) + 1) - 1 = i + 1 /\ i <= n
    BY <1>1, <2>1
  <2>3. g[i + 1] = AddArg(g[i], more[i + 1])
    BY <1>3, <2>2
  <2>4. h[(i + 1) + 1] = AddArg(h[i + 1], arguments[(i + 1) + 1])
    BY <1>2, <2>2
  <2>5. g[i] = h[i + 1] /\ more[i + 1] = arguments[(i + 1) + 1]
    BY <1>1, <1>5, <2>2
  <2> QED
    BY <2>3, <2>4, <2>5
<1> HIDE DEF Same
<1>6. Nat \subseteq Same
  BY <1>4, <1>5, AllNat
<1>7. g[n] = h[n + 1]
  BY <1>1, <1>6 DEF Same
<1>8. Added(s, arguments) = Added(next, more)
  BY <1>2, <1>3, <1>7 DEF Added
<1> QED
  BY <1>8 DEF next, more

LEMMA AskedIs ==
  ASSUME NEW s \in Seq(Int), NEW arguments \in Seq(Arg)
  PROVE  Asked(s, arguments) \in Seq(Int) /\ Starting(s, Asked(s, arguments))
<1> DEFINE t == Added(s, arguments)
<1>1. t \in Seq(Int) /\ Starting(s, t)
  BY AddedIs
<1> HIDE DEF t
<1>2. NSECTORS \in Nat
  BY DiskImageAssumption
<1>3. FilledTo(t, NSECTORS) \in Seq(Int) /\ Starting(t, FilledTo(t, NSECTORS))
  BY <1>1, <1>2, FilledIs
<1>4. FilledTo(t, NSECTORS) \in Seq(Int) /\ Starting(s, FilledTo(t, NSECTORS))
  BY <1>1, <1>3, StartingOn
<1> QED
  BY <1>4 DEF Asked, t

LEMMA AskedNext ==
  ASSUME NEW s, NEW arguments \in Seq(Arg), arguments # <<>>
  PROVE  Asked(s, arguments) = Asked(AddArg(s, Head(arguments)), Tail(arguments))
  BY AddedNext DEF Asked

(* The boot sector's code, filled up and signed.                           *)
BootSectorOf(code) == code \o Zeros(SECTORSIZE - 2 - Len(code)) \o Signature

LEMMA BootSectorIs ==
  ASSUME NEW code \in Seq(Int)
  PROVE  /\ BootSectorOf(code) \in Seq(Int)
         /\ Len(code) <= SECTORSIZE - 2 => Len(BootSectorOf(code)) = SECTORSIZE
<1> DEFINE gap == SECTORSIZE - 2 - Len(code)
           zeros == Zeros(gap)
           long == code \o zeros
<1>1. Len(code) \in Nat /\ SECTORSIZE \in Nat /\ gap \in Int
  BY DiskImageAssumption
<1>2. zeros \in Seq(Int) /\ (gap >= 0 => Len(zeros) = gap)
  <2> HIDE DEF gap
  <2>1. CASE gap >= 0
    BY <1>1, <2>1, ZerosIs
  <2>2. CASE ~ (gap >= 0)
    <3>1. 1 .. gap = 1 .. 0
      BY <1>1, <2>2
    <3>2. zeros = Zeros(0)
      BY <3>1 DEF Zeros
    <3> QED
      BY <2>2, <3>2, ZerosIs
  <2> QED
    BY <2>1, <2>2
<1>3. Signature \in Seq(Int) /\ Len(Signature) = 2
  BY DEF Signature
<1> HIDE DEF zeros
<1>4. long \in Seq(Int) /\ Len(long) = Len(code) + Len(zeros)
  BY <1>2, Concat
<1>5. BootSectorOf(code) = long \o Signature
  BY DEF BootSectorOf, zeros
<1> HIDE DEF long
<1>6. /\ long \o Signature \in Seq(Int)
      /\ Len(long \o Signature) = Len(long) + Len(Signature)
  BY <1>3, <1>4, Concat
<1>7. ASSUME Len(code) <= SECTORSIZE - 2
      PROVE  Len(BootSectorOf(code)) = SECTORSIZE
  <2>1. gap >= 0 /\ Len(code) + gap = SECTORSIZE - 2
    BY <1>1, <1>7
  <2>2. Len(long) = SECTORSIZE - 2
    BY <1>2, <1>4, <2>1
  <2> QED
    BY <1>1, <1>3, <1>5, <1>6, <2>2
<1> QED
  BY <1>5, <1>6, <1>7

LEMMA ImageAsked ==
  Image = Asked(BootSectorOf(argv.code), argv.args)
  BY DEF Image, Asked, Added, BootSectorOf

(* What mkbootdisk keeps to.                                               *)
ImageTypes ==
  /\ argv.code \in Seq(Int) /\ argv.args \in Seq(Arg)
  /\ out \in Seq(Int) /\ data \in Seq(Int) /\ rest \in Seq(Int)
  /\ args \in Seq(Arg) /\ pos \in Nat /\ nsectors \in Nat
  /\ builder \in {"boot", "args", "file", "done", "failed"}
  /\ builder = "boot" => out = <<>> /\ data = <<>>
  /\ builder = "file" => args # <<>>
  /\ builder = "done" => data = <<>>

(* nsectors counts what has been written and is to be written.             *)
Counted ==
  /\ builder \in {"args", "done"} => Len(out) + Len(data) = nsectors * SECTORSIZE
  /\ builder = "file" => Len(out) + Len(data) = nsectors * SECTORSIZE + pos

(* What is still to be done makes the image of what there is.              *)
Promised ==
  /\ builder = "boot" => rest = argv.code /\ args = argv.args
  /\ builder = "args" => Image = Asked(Written, args)
  /\ builder = "file" => Image = Asked(Padded(Written \o rest), Tail(args))
  /\ builder = "done" => Image = out
  /\ builder = "failed" => Starting(out, Image)

ImageInv == ImageTypes /\ Counted /\ (~ cut => Promised)

LEMMA ImageInitially ==
  Init => ImageInv
<1> SUFFICES ASSUME Init PROVE ImageInv
  OBVIOUS
<1>1. PICK code \in Codes, more \in MoreArgs :
        ImageInit(code, <<FileArg(kernel.bytes)>> \o more)
  BY DEF Init
<1> DEFINE arguments == <<FileArg(kernel.bytes)>> \o more
<1>2. code \in Seq(Int) /\ more \in Seq(Arg)
  BY StartupAssumption DEF Arg
<1>3. FileArg(kernel.bytes) \in Arg
  BY KernelIs DEF Init, FileArg, Arg
<1>4. arguments \in Seq(Arg)
  <2> HIDE DEF Arg
  <2> DEFINE arg == FileArg(kernel.bytes)
  <2>1. arg \in Arg
    BY <1>3
  <2> HIDE DEF arg
  <2>2. <<arg>> \o more \in Seq(Arg)
    BY <1>2, <2>1
  <2> QED
    BY <2>2 DEF arg
<1>5. ImageInit(code, arguments)
  BY <1>1
<1> HIDE DEF arguments, Arg
<1>6. /\ argv.code = code /\ argv.args = arguments /\ args = arguments /\ rest = code
      /\ pos = 0 /\ nsectors = 0 /\ data = <<>> /\ out = <<>> /\ builder = "boot"
  BY <1>5 DEF ImageInit
<1> QED
  BY <1>2, <1>4, <1>6 DEF ImageInv, ImageTypes, Counted, Promised

(* At every moment the output, and that with what is to be written, is how *)
(* the image starts.                                                       *)
LEMMA WrittenStarts ==
  ASSUME ImageInv, ~ cut
  PROVE  /\ Image \in Seq(Int) /\ Written \in Seq(Int)
         /\ Starting(out, Image)
         /\ builder # "failed" => Starting(Written, Image)
<1> HIDE DEF Arg
<1>1. ImageTypes /\ Promised
  BY DEF ImageInv
<1>2. Written \in Seq(Int) /\ Starting(out, Written)
  BY <1>1, StartingMore DEF ImageTypes, Written
<1>3. Image \in Seq(Int)
  <2> DEFINE sector == BootSectorOf(argv.code)
  <2>1. sector \in Seq(Int) /\ argv.args \in Seq(Arg)
    BY <1>1, BootSectorIs DEF ImageTypes
  <2> HIDE DEF sector
  <2>2. Asked(sector, argv.args) \in Seq(Int)
    BY <2>1, AskedIs
  <2> QED
    BY <2>2, ImageAsked DEF sector
<1>4. CASE builder = "boot"
  <2>1. Written = <<>>
    BY <1>1, <1>4 DEF ImageTypes, Written
  <2>2. Starting(Written, Image)
    BY <1>3, <2>1 DEF Starting
  <2> QED
    BY <1>2, <1>3, <2>2, StartingOn, <1>1 DEF ImageTypes
<1>5. CASE builder = "args"
  <2>1. Image = Asked(Written, args) /\ args \in Seq(Arg)
    BY <1>1, <1>5 DEF Promised, ImageTypes
  <2>2. Starting(Written, Image)
    BY <1>2, <2>1, AskedIs
  <2> QED
    BY <1>2, <1>3, <2>2, StartingOn, <1>1 DEF ImageTypes
<1>6. CASE builder = "file"
  <2> DEFINE t == Written \o rest
             more == Tail(args)
  <2>1. Image = Asked(Padded(t), more) /\ more \in Seq(Arg) /\ rest \in Seq(Int)
    BY <1>1, <1>6 DEF Promised, ImageTypes
  <2>2. t \in Seq(Int) /\ Starting(Written, t)
    BY <1>2, <2>1, StartingMore
  <2> HIDE DEF t, more
  <2> DEFINE u == Padded(t)
  <2>3. u \in Seq(Int) /\ Starting(t, u)
    BY <2>2, PaddedIs
  <2>4. Image = Asked(u, more)
    BY <2>1
  <2> HIDE DEF u
  <2>5. Starting(u, Image)
    BY <2>1, <2>3, <2>4, AskedIs
  <2>6. Starting(Written, u)
    BY <1>2, <2>2, <2>3, StartingOn
  <2>7. Starting(Written, Image)
    BY <1>2, <1>3, <2>3, <2>5, <2>6, StartingOn
  <2> QED
    BY <1>2, <1>3, <2>7, StartingOn, <1>1 DEF ImageTypes
<1>7. CASE builder = "done"
  <2>1. Image = out /\ data = <<>> /\ out \in Seq(Int)
    BY <1>1, <1>7 DEF Promised, ImageTypes
  <2>2. Written = out
    BY <2>1, ConcatEmptySeq DEF Written
  <2> QED
    BY <1>2, <1>3, <2>1, <2>2
<1>8. CASE builder = "failed"
  BY <1>1, <1>2, <1>3, <1>8 DEF Promised
<1> QED
  BY <1>1, <1>4, <1>5, <1>6, <1>7, <1>8 DEF ImageTypes

(* diskwrite only moves bytes to the output.                               *)
LEMMA ImageWriteStep ==
  ASSUME ImageInv, NEW w \in 1 .. Len(data), builder # "failed", Write(w)
  PROVE  ImageInv'
<1> HIDE DEF Arg
<1>1. ImageTypes
  BY DEF ImageInv
<1> DEFINE head == SubSeq(data, 1, w)
           tail == SubSeq(data, w + 1, Len(data))
<1>2. /\ head \in Seq(Int) /\ Len(head) = w
      /\ tail \in Seq(Int) /\ Len(tail) = Len(data) - w
  BY <1>1, Split DEF ImageTypes
<1>3. (out \o head) \o tail = out \o data
  BY <1>1, Regroup DEF ImageTypes
<1>4. /\ UNCHANGED <<argv, args, rest, pos, nsectors, cut, builder>>
      /\ out' = out \o head /\ data' = tail
  BY DEF Write
<1>5. Len(out) \in Nat /\ Len(data) \in Nat /\ w \in Nat
  BY <1>1 DEF ImageTypes
<1>6. builder \in {"args", "file"}
  BY <1>1, <1>5 DEF ImageTypes
<1> HIDE DEF head, tail
<1>7. out' \in Seq(Int) /\ Len(out') = Len(out) + w
  BY <1>1, <1>2, <1>4, Concat DEF ImageTypes
<1>8. data' \in Seq(Int) /\ Len(data') = Len(data) - w
  BY <1>2, <1>4
<1>9. Written' = Written
  BY <1>3, <1>4 DEF Written
<1>10. Len(out') + Len(data') = Len(out) + Len(data)
  BY <1>5, <1>7, <1>8
<1>11. ImageTypes'
  BY <1>1, <1>4, <1>6, <1>7, <1>8 DEF ImageTypes
<1>12. Counted'
  BY <1>4, <1>10 DEF ImageInv, Counted
<1>13. Promised => Promised'
  BY <1>4, <1>6, <1>9 DEF Promised, Image
<1> QED
  BY <1>4, <1>11, <1>12, <1>13 DEF ImageInv

(* mkbootdisk gives up.                                                    *)
LEMMA ImageFailStep ==
  ASSUME ImageInv, Exits("failed")
  PROVE  ImageInv'
<1> HIDE DEF Arg
<1>1. /\ builder' = "failed"
      /\ UNCHANGED <<argv, args, rest, pos, nsectors, data, out, cut>>
  BY DEF Exits
<1>2. ASSUME ~ cut PROVE Starting(out, Image)'
  BY <1>1, <1>2, WrittenStarts DEF Starting, Image
<1> QED
  BY <1>1, <1>2 DEF ImageInv, ImageTypes, Counted, Promised

LEMMA ProductOrder ==
  ASSUME NEW d \in Nat, NEW p \in Nat, NEW q \in Nat, p <= q
  PROVE  p * d <= q * d
<1>1. PICK j \in Nat : q = p + j
  <2>1. q - p \in Nat /\ q = p + (q - p)
    OBVIOUS
  <2> QED
    BY <2>1
<1>2. q * d = p * d + j * d /\ j * d \in Nat /\ p * d \in Nat
  BY <1>1
<1> QED
  BY <1>2

(* Or has come to its end.                                                 *)
LEMMA ImageFinishStep ==
  ASSUME ImageInv, Finish
  PROVE  ImageInv'
<1>1. /\ builder = "args" /\ data = <<>> /\ args = <<>> /\ nsectors >= NSECTORS
      /\ builder' = "done"
      /\ UNCHANGED <<argv, args, rest, pos, nsectors, data, out, cut>>
  BY DEF Finish, At, Exits
<1>2. ImageTypes' /\ Counted'
  BY <1>1 DEF ImageInv, ImageTypes, Counted
<1>3. ASSUME ~ cut PROVE Image = out
  <2>1. out \in Seq(Int) /\ nsectors \in Nat
    BY DEF ImageInv, ImageTypes
  <2>2. Written = out
    BY <1>1, <2>1, ConcatEmptySeq DEF Written
  <2>3. Image = FilledTo(out, NSECTORS)
    BY <1>1, <1>3, <2>2, AddedNone DEF ImageInv, Promised, Asked
  <2>4. Len(out) >= NSECTORS * SECTORSIZE
    <3>1. Len(out) = nsectors * SECTORSIZE
      BY <1>1, <2>1 DEF ImageInv, Counted
    <3>2. nsectors * SECTORSIZE >= NSECTORS * SECTORSIZE
      BY <1>1, <2>1, DiskImageAssumption, ProductOrder
    <3> QED
      BY <3>1, <3>2
  <2> QED
    BY <2>1, <2>3, <2>4, FilledIs, DiskImageAssumption
<1> QED
  BY <1>1, <1>2, <1>3 DEF ImageInv, Promised, Image

LEMMA ImageBootSectorStep ==
  ASSUME ImageInv, BootSector
  PROVE  ImageInv'
<1> HIDE DEF Arg
<1>1. /\ builder = "boot" /\ out = <<>> /\ Len(rest) <= SECTORSIZE - 2
      /\ builder' = "args" /\ rest' = <<>> /\ nsectors' = 1
      /\ data' = BootSectorOf(rest)
      /\ UNCHANGED <<argv, args, pos, out, cut>>
  BY DEF ImageInv, ImageTypes, BootSector, At, BootSectorOf
<1>2. data' \in Seq(Int) /\ Len(data') = SECTORSIZE
  BY <1>1, BootSectorIs DEF ImageInv, ImageTypes
<1>3. ImageTypes'
  BY <1>1, <1>2 DEF ImageInv, ImageTypes
<1>4. Counted'
  BY <1>1, <1>2, DiskImageAssumption DEF Counted
<1>5. ASSUME ~ cut PROVE Promised'
  <2>1. rest = argv.code /\ args = argv.args
    BY <1>1, <1>5 DEF ImageInv, Promised
  <2>2. Written' = BootSectorOf(argv.code)
    <3>1. Written' = <<>> \o data'
      BY <1>1 DEF Written
    <3>2. Written' = data'
      BY <1>2, <3>1, ConcatEmptySeq
    <3> QED
      BY <1>1, <2>1, <3>2
  <2>3. Image' = Image
    BY <1>1 DEF Image
  <2>4. Image' = Asked(Written', args')
    BY <1>1, <2>1, <2>2, <2>3, ImageAsked
  <2> QED
    BY <1>1, <2>4 DEF Promised
<1> QED
  BY <1>1, <1>3, <1>4, <1>5 DEF ImageInv

(* A sector of zeros, when the image has to be longer.                     *)
LEMMA ImageZeroSectorStep ==
  ASSUME ImageInv, Skip \/ Fill
  PROVE  ImageInv'
<1> HIDE DEF Arg
<1>1. /\ builder = "args" /\ data = <<>> /\ data' = Zeros(SECTORSIZE)
      /\ nsectors' = nsectors + 1
      /\ UNCHANGED <<argv, args, rest, pos, out, cut, builder>>
  BY DEF Skip, Fill, AtArg, At, ZeroSector
<1>2. out \in Seq(Int) /\ args \in Seq(Arg) /\ nsectors \in Nat /\ Len(out) \in Nat
  BY DEF ImageInv, ImageTypes
<1>3. SECTORSIZE \in Nat \ {0} /\ NSECTORS \in Nat
  BY DiskImageAssumption
<1>4. data' \in Seq(Int) /\ Len(data') = SECTORSIZE
  BY <1>1, <1>3, ZerosIs
<1>5. Len(out) = nsectors * SECTORSIZE
  BY <1>1, <1>2 DEF ImageInv, Counted
<1>6. ImageTypes'
  BY <1>1, <1>2, <1>4 DEF ImageInv, ImageTypes
<1>7. Counted'
  <2>1. (nsectors + 1) * SECTORSIZE = nsectors * SECTORSIZE + SECTORSIZE
    BY <1>2, <1>3, SectorAhead
  <2> QED
    BY <1>1, <1>4, <1>5, <2>1 DEF Counted
<1>8. ASSUME ~ cut PROVE Promised'
  <2>1. Written = out /\ Written' = out \o Zeros(SECTORSIZE)
    BY <1>1, <1>2, ConcatEmptySeq DEF Written
  <2>2. Image = Asked(out, args)
    BY <1>1, <1>8, <2>1 DEF ImageInv, Promised
  <2>3. ASSUME NEW n \in Nat, nsectors < n
        PROVE  FilledTo(out \o Zeros(SECTORSIZE), n) = FilledTo(out, n)
    <3>1. (nsectors + 1) * SECTORSIZE <= n * SECTORSIZE
      BY <1>2, <1>3, <2>3, ProductOrder
    <3>2. Len(out) + SECTORSIZE <= n * SECTORSIZE
      BY <1>2, <1>3, <1>5, <3>1, SectorAhead
    <3> QED
      BY <1>2, <2>3, <3>2, FilledBySector
  <2>4. Asked(out \o Zeros(SECTORSIZE), args) = Asked(out, args)
    <3>1. CASE Skip
      <4>1. args # <<>> /\ Head(args).kind = "skip" /\ nsectors < Head(args).sector
        BY <3>1 DEF Skip, AtArg
      <4>2. Head(args) \in Arg
        BY <1>2, <4>1
      <4>3. Head(args).sector \in Nat
        BY <4>2 DEF Arg
      <4>4. FilledTo(out \o Zeros(SECTORSIZE), Head(args).sector)
              = FilledTo(out, Head(args).sector)
        BY <2>3, <4>1, <4>3
      <4>5. AddArg(out \o Zeros(SECTORSIZE), Head(args)) = AddArg(out, Head(args))
        BY <4>1, <4>4 DEF AddArg
      <4> QED
        BY <1>2, <4>1, <4>5, AskedNext
    <3>2. CASE Fill
      <4>1. args = <<>> /\ nsectors < NSECTORS
        BY <3>2 DEF Fill
      <4>2. FilledTo(out \o Zeros(SECTORSIZE), NSECTORS) = FilledTo(out, NSECTORS)
        BY <1>3, <2>3, <4>1
      <4> QED
        BY <4>1, <4>2, AddedNone DEF Asked
    <3> QED
      BY <3>1, <3>2
  <2>5. Image' = Image
    BY <1>1 DEF Image
  <2>6. Image' = Asked(Written', args')
    BY <1>1, <2>1, <2>2, <2>4, <2>5
  <2> QED
    BY <1>1, <2>6 DEF Promised
<1> QED
  BY <1>1, <1>6, <1>7, <1>8 DEF ImageInv

(* The image reaches up to the sector the argument names.                  *)
LEMMA ImageSkippedStep ==
  ASSUME ImageInv, Skipped
  PROVE  ImageInv'
<1> HIDE DEF Arg
<1>1. /\ builder = "args" /\ data = <<>> /\ args # <<>> /\ Head(args).kind = "skip"
      /\ nsectors = Head(args).sector /\ args' = Tail(args)
      /\ UNCHANGED <<argv, rest, pos, nsectors, data, out, cut, builder>>
  BY DEF Skipped, AtArg, At
<1>2. out \in Seq(Int) /\ args \in Seq(Arg) /\ nsectors \in Nat /\ Len(out) \in Nat
  BY DEF ImageInv, ImageTypes
<1>3. args' \in Seq(Arg)
  BY <1>1, <1>2
<1>4. ImageTypes' /\ Counted'
  BY <1>1, <1>3 DEF ImageInv, ImageTypes, Counted
<1>5. ASSUME ~ cut PROVE Promised'
  <2>1. Written = out /\ Written' = out
    BY <1>1, <1>2, ConcatEmptySeq DEF Written
  <2>2. Image = Asked(out, args)
    BY <1>1, <1>5, <2>1 DEF ImageInv, Promised
  <2>3. Len(out) = nsectors * SECTORSIZE
    BY <1>1, <1>2 DEF ImageInv, Counted
  <2>4. nsectors * SECTORSIZE \in Nat
    BY <1>2, ProductNat, DiskImageAssumption
  <2>5. FilledTo(out, nsectors) = out
    BY <1>2, <2>3, <2>4, FilledIs
  <2>6. AddArg(out, Head(args)) = out
    BY <1>1, <2>5 DEF AddArg
  <2>7. Image = Asked(out, Tail(args))
    BY <1>1, <1>2, <2>2, <2>6, AskedNext
  <2>8. Image' = Image
    BY <1>1 DEF Image
  <2> QED
    BY <1>1, <2>1, <2>7, <2>8 DEF Promised
<1> QED
  BY <1>1, <1>4, <1>5 DEF ImageInv

LEMMA ImageOpenStep ==
  ASSUME ImageInv, Open
  PROVE  ImageInv'
<1> HIDE DEF Arg
<1>1. /\ builder = "args" /\ data = <<>> /\ args # <<>> /\ Head(args).kind = "file"
      /\ rest' = Head(args).bytes /\ pos' = 0 /\ builder' = "file"
      /\ UNCHANGED <<argv, args, nsectors, data, out, cut>>
  BY DEF Open, AtArg, At
<1>2. out \in Seq(Int) /\ args \in Seq(Arg) /\ nsectors \in Nat
  BY DEF ImageInv, ImageTypes
<1>3. Head(args) \in Arg
  BY <1>1, <1>2
<1>4. Head(args).bytes \in Seq(Int)
  BY <1>3 DEF Arg
<1>5. ImageTypes'
  BY <1>1, <1>4 DEF ImageInv, ImageTypes
<1>6. Counted'
  <2>1. nsectors * SECTORSIZE \in Nat
    BY <1>2, ProductNat, DiskImageAssumption
  <2>2. Len(out) + Len(data) = nsectors * SECTORSIZE
    BY <1>1 DEF ImageInv, Counted
  <2>3. nsectors * SECTORSIZE = nsectors * SECTORSIZE + 0
    BY <2>1
  <2> QED
    BY <1>1, <2>2, <2>3 DEF Counted
<1>7. ASSUME ~ cut PROVE Promised'
  <2>1. Written = out /\ Written' = out
    BY <1>1, <1>2, ConcatEmptySeq DEF Written
  <2>2. Image = Asked(out, args)
    BY <1>1, <1>7, <2>1 DEF ImageInv, Promised
  <2>3. AddArg(out, Head(args)) = Padded(out \o rest')
    BY <1>1 DEF AddArg
  <2>4. Image = Asked(Padded(out \o rest'), Tail(args))
    BY <1>1, <1>2, <2>2, <2>3, AskedNext
  <2>5. Image' = Image
    BY <1>1 DEF Image
  <2>6. Image' = Asked(Padded(Written' \o rest'), Tail(args'))
    BY <1>1, <2>1, <2>4, <2>5
  <2> QED
    BY <1>1, <2>6 DEF Promised
<1> QED
  BY <1>1, <1>5, <1>6, <1>7 DEF ImageInv

(* A part of the file, which is not less of the file for it.               *)
LEMMA ImageReadStep ==
  ASSUME ImageInv, Read
  PROVE  ImageInv'
<1> HIDE DEF Arg
<1> DEFINE n == Min({BUFSIZE, Len(rest)})
           head == SubSeq(rest, 1, n)
           tail == SubSeq(rest, n + 1, Len(rest))
<1>1. /\ builder = "file" /\ data = <<>> /\ rest # <<>>
      /\ data' = head /\ rest' = tail /\ pos' = pos + n
      /\ UNCHANGED <<argv, args, nsectors, out, cut, builder>>
  BY DEF Read, At
<1>2. out \in Seq(Int) /\ rest \in Seq(Int) /\ pos \in Nat /\ nsectors \in Nat
  BY DEF ImageInv, ImageTypes
<1>3. n \in 1 .. Len(rest)
  <2>1. Len(rest) \in Nat \ {0}
    BY <1>1, <1>2
  <2> QED
    BY <2>1, MinIs, DiskImageAssumption
<1> HIDE DEF n
<1>4. head \in Seq(Int) /\ Len(head) = n /\ tail \in Seq(Int)
  BY <1>2, <1>3, Split
<1>5. (out \o head) \o tail = out \o rest
  BY <1>2, <1>3, Regroup
<1> HIDE DEF head, tail
<1>6. ImageTypes'
  BY <1>1, <1>2, <1>3, <1>4 DEF ImageInv, ImageTypes
<1>7. Counted'
  <2>1. Len(out) + 0 = nsectors * SECTORSIZE + pos
    BY <1>1 DEF ImageInv, Counted
  <2>2. nsectors * SECTORSIZE \in Nat /\ Len(out) \in Nat /\ n \in Nat
    BY <1>2, <1>3, ProductNat, DiskImageAssumption
  <2> DEFINE before == nsectors * SECTORSIZE
  <2>3. /\ before \in Nat /\ pos \in Nat /\ n \in Nat
        /\ Len(out) = before + pos
    BY <1>2, <2>1, <2>2
  <2> HIDE DEF before
  <2>4. Len(out) + n = before + (pos + n)
    BY <2>3
  <2> QED
    BY <1>1, <1>4, <2>4 DEF Counted, before
<1>8. ASSUME ~ cut PROVE Promised'
  <2>1. Written = out /\ Written' = out \o head
    BY <1>1, <1>2, ConcatEmptySeq DEF Written
  <2>2. Written' \o rest' = Written \o rest
    BY <1>1, <1>5, <2>1
  <2>3. Image = Asked(Padded(Written \o rest), Tail(args))
    BY <1>1, <1>8 DEF ImageInv, Promised
  <2>4. Image' = Image
    BY <1>1 DEF Image
  <2>5. Image' = Asked(Padded(Written' \o rest'), Tail(args'))
    BY <1>1, <2>2, <2>3, <2>4
  <2> QED
    BY <1>1, <2>5 DEF Promised
<1> QED
  BY <1>1, <1>6, <1>7, <1>8 DEF ImageInv

(* After a read that fails only the sectors still count.                   *)
LEMMA ImageReadFailsStep ==
  ASSUME ImageInv, ReadFails
  PROVE  ImageInv'
<1> HIDE DEF Arg
<1>1. /\ cut' = TRUE
      /\ UNCHANGED <<argv, args, pos, nsectors, data, out, builder>>
  BY DEF ReadFails
<1>2. rest' \in Seq(Int)
  <2>1. PICK n \in 0 .. Len(rest) - 1 : rest' = SubSeq(rest, 1, n)
    BY DEF ReadFails
  <2>2. rest \in Seq(Int) /\ Len(rest) \in Nat /\ n \in Nat
    BY DEF ImageInv, ImageTypes
  <2>3. \A k \in 1 .. n : rest[k] \in Int
    BY <2>2
  <2> QED
    BY <2>1, <2>2, <2>3, SubSeqProperties
<1> QED
  BY <1>1, <1>2 DEF ImageInv, ImageTypes, Counted

(* A file ends with its sector.                                            *)
LEMMA RestOf ==
  ASSUME NEW d \in Nat \ {0}, NEW k \in Nat, NEW r \in 0 .. d - 1
  PROVE  (k * d + r) % d = r
<1> DEFINE x == k * d + r
           j == x \div d
           m == x % d
<1>1. x \in Nat /\ k * d \in Nat
  OBVIOUS
<1>2. j \in Nat /\ m \in 0 .. d - 1 /\ x = j * d + m
  BY <1>1, DivideBy
<1>3. k * d + r = j * d + m
  BY <1>2
<1> HIDE DEF j, m, x
<1>4. j = k
  <2>1. CASE j < k
    <3>1. PICK i \in Nat : k = j + 1 + i
      <4>1. k - (j + 1) \in Nat /\ k = j + 1 + (k - (j + 1))
        BY <1>2, <2>1
      <4> QED
        BY <4>1
    <3>2. k * d = j * d + d + i * d /\ i * d \in Nat /\ j * d \in Nat
      BY <1>2, <3>1
    <3> QED
      BY <1>2, <1>3, <3>2
  <2>2. CASE k < j
    <3>1. PICK i \in Nat : j = k + 1 + i
      <4>1. j - (k + 1) \in Nat /\ j = k + 1 + (j - (k + 1))
        BY <1>2, <2>2
      <4> QED
        BY <4>1
    <3>2. j * d = k * d + d + i * d /\ i * d \in Nat /\ k * d \in Nat
      BY <1>2, <3>1
    <3> QED
      BY <1>2, <1>3, <3>2
  <2> QED
    BY <1>2, <2>1, <2>2
<1>5. m = r
  BY <1>1, <1>2, <1>3, <1>4
<1> QED
  BY <1>5 DEF m, x

LEMMA SameRest ==
  ASSUME NEW d \in Nat \ {0}, NEW q \in Nat, NEW p \in Nat
  PROVE  (q * d + p) % d = p % d
<1> DEFINE j == p \div d
           r == p % d
<1>1. j \in Nat /\ r \in 0 .. d - 1 /\ p = j * d + r
  BY DivideBy
<1> HIDE DEF j, r
<1>2. q + j \in Nat /\ (q + j) * d = q * d + j * d /\ q * d \in Nat /\ j * d \in Nat
  BY <1>1
<1>3. q * d + p = (q + j) * d + r
  BY <1>1, <1>2
<1>4. ((q + j) * d + r) % d = r
  BY <1>1, <1>2, RestOf
<1> QED
  BY <1>3, <1>4 DEF r

LEMMA WholeSectors ==
  ASSUME NEW d \in Nat \ {0}, NEW p \in Nat
  PROVE  LET gap == IF p % d = 0 THEN 0 ELSE d - (p % d)
         IN  /\ gap \in Nat /\ (p + gap) \div d \in Nat
             /\ ((p + gap) \div d) * d = p + gap
<1> DEFINE gap == IF p % d = 0 THEN 0 ELSE d - (p % d)
           k == IF p % d = 0 THEN p \div d ELSE (p \div d) + 1
<1>1. /\ p \div d \in Nat /\ p % d \in 0 .. d - 1
      /\ p = (p \div d) * d + (p % d)
  BY DivideBy
<1>2. gap \in Nat /\ k \in Nat
  BY <1>1
<1>3. p + gap = k * d
  <2>1. CASE p % d = 0
    BY <1>1, <2>1
  <2>2. CASE p % d # 0
    <3>1. ((p \div d) + 1) * d = (p \div d) * d + d
      BY <1>1
    <3> QED
      BY <1>1, <2>2, <3>1
  <2> QED
    BY <2>1, <2>2
<1> HIDE DEF gap, k
<1>4. (k * d) \div d = k
  BY <1>2
<1>5. gap \in Nat /\ (p + gap) \div d \in Nat /\ ((p + gap) \div d) * d = p + gap
  BY <1>2, <1>3, <1>4
<1> QED
  BY <1>5 DEF gap

LEMMA ImagePadStep ==
  ASSUME ImageInv, Pad
  PROVE  ImageInv'
<1> HIDE DEF Arg
<1> DEFINE gap == IF pos % SECTORSIZE = 0 THEN 0 ELSE SECTORSIZE - (pos % SECTORSIZE)
           more == (pos + gap) \div SECTORSIZE
<1>1. /\ builder = "file" /\ data = <<>> /\ rest = <<>>
      /\ data' = Zeros(gap) /\ nsectors' = nsectors + more
      /\ args' = Tail(args) /\ builder' = "args"
      /\ UNCHANGED <<argv, rest, pos, out, cut>>
  BY DEF Pad, At
<1>2. /\ out \in Seq(Int) /\ args \in Seq(Arg) /\ args # <<>>
      /\ pos \in Nat /\ nsectors \in Nat /\ Len(out) \in Nat
  BY <1>1 DEF ImageInv, ImageTypes
<1>3. SECTORSIZE \in Nat \ {0}
  BY DiskImageAssumption
<1>4. gap \in Nat /\ more \in Nat /\ more * SECTORSIZE = pos + gap
  BY <1>2, <1>3, WholeSectors
<1> HIDE DEF more
<1>5. Len(out) = nsectors * SECTORSIZE + pos
  BY <1>1, <1>2 DEF ImageInv, Counted
<1>6. ASSUME ~ cut PROVE Promised'
  <2>1. Written = out /\ Written \o rest = out /\ Written' = out \o Zeros(gap)
    BY <1>1, <1>2, ConcatEmptySeq DEF Written
  <2>2. Image = Asked(Padded(out), Tail(args))
    BY <1>1, <1>6, <2>1 DEF ImageInv, Promised
  <2>3. Len(out) % SECTORSIZE = pos % SECTORSIZE
    BY <1>2, <1>3, <1>5, SameRest
  <2>4. Padded(out) = out \o Zeros(gap)
    BY <1>2, <2>3, PaddedIs
  <2>5. Image' = Image
    BY <1>1 DEF Image
  <2>6. Image' = Asked(Written', args')
    BY <1>1, <2>1, <2>2, <2>4, <2>5
  <2> QED
    BY <1>1, <2>6 DEF Promised
<1> HIDE DEF gap
<1>7. data' \in Seq(Int) /\ Len(data') = gap
  BY <1>1, <1>4, ZerosIs
<1>8. args' \in Seq(Arg) /\ nsectors' \in Nat
  BY <1>1, <1>2, <1>4
<1>9. ImageTypes'
  BY <1>1, <1>7, <1>8 DEF ImageInv, ImageTypes
<1>10. Counted'
  <2>1. (nsectors + more) * SECTORSIZE = nsectors * SECTORSIZE + more * SECTORSIZE
    BY <1>2, <1>3, <1>4
  <2>2. nsectors * SECTORSIZE \in Nat
    BY <1>2, <1>3, ProductNat
  <2>3. (nsectors + more) * SECTORSIZE = Len(out) + gap
    BY <1>2, <1>4, <1>5, <2>1, <2>2
  <2> QED
    BY <1>1, <1>7, <2>3 DEF Counted
<1> QED
  BY <1>1, <1>6, <1>9, <1>10 DEF ImageInv

LEMMA ImageNextStep ==
  ASSUME ImageInv, ImageNext
  PROVE  ImageInv'
<1>1. CASE \E w \in 1 .. Len(data) : builder # "failed" /\ Write(w)
  BY <1>1, ImageWriteStep
<1>2. CASE WriteFails \/ BootTooLarge \/ SkipTooLate \/ OpenFails
  <2>1. Exits("failed")
    BY <1>2 DEF WriteFails, BootTooLarge, SkipTooLate, OpenFails, Exits
  <2> QED
    BY <2>1, ImageFailStep
<1> QED
  BY <1>1, <1>2, ImageBootSectorStep, ImageZeroSectorStep, ImageSkippedStep,
     ImageOpenStep, ImageReadStep, ImageReadFailsStep, ImagePadStep, ImageFinishStep
  DEF ImageNext

(* The image on the disk is the one that the arguments of mkbootdisk ask   *)
(* for, byte by byte, however the system cuts its writes up: no assumption *)
(* on the files is needed.                                                 *)
THEOREM ImageIsRight == Spec => []ImageRight
<1>1. Init => ImageInv
  BY ImageInitially
<1>2. ImageInv /\ [Next]_startupVars => ImageInv'
  <2>1. ASSUME ImageInv, UNCHANGED imageVars PROVE ImageInv'
    BY <2>1 DEF ImageInv, ImageTypes, Counted, Promised, Written, Image, imageVars
  <2>2. ASSUME ImageInv, [Next]_startupVars PROVE ImageNext \/ UNCHANGED imageVars
    BY <2>2 DEF Next, PowerOn, Start, Ended, startupVars
  <2> QED
    BY <2>1, <2>2, ImageNextStep
<1>3. ImageInv => ImageRight
  <2> SUFFICES ASSUME ImageInv PROVE ImageRight
    OBVIOUS
  <2>1. out \in Seq(Int)
    BY DEF ImageInv, ImageTypes
  <2>2. ASSUME ~ cut PROVE IsPrefix(out, Image)
    BY <2>1, <2>2, WrittenStarts, StartingPrefix
  <2>3. ASSUME ~ cut, builder # "failed" PROVE IsPrefix(out \o data, Image)
    <3>1. IsPrefix(Written, Image)
      BY <2>3, WrittenStarts, StartingPrefix
    <3> QED
      BY <3>1 DEF Written
  <2>4. ASSUME ~ cut, builder = "done" PROVE out = Image
    BY <2>4 DEF ImageInv, Promised
  <2>5. ASSUME builder \in {"args", "done"}
        PROVE  Len(out) + Len(data) = nsectors * SECTORSIZE
    BY <2>5 DEF ImageInv, Counted
  <2> QED
    BY <2>2, <2>3, <2>4, <2>5 DEF ImageRight
<1> QED
  BY <1>1, <1>2, <1>3, PTL DEF Spec
=============================================================================
