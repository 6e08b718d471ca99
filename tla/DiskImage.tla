----------------------------- MODULE DiskImage ------------------------------
(***************************************************************************)
(* mkbootdisk.c: the program that writes the disk image.  The operating    *)
(* system it runs on may accept any part of a write, interrupt it or fail. *)
(***************************************************************************)
EXTENDS Integers, SequencesExt

CONSTANTS
  SECTORSIZE,
  BUFSIZE,      \* bytes of a file read at a time
  NSECTORS      \* the image is filled up to so many sectors

ASSUME DiskImageAssumption ==
  /\ SECTORSIZE \in Nat /\ SECTORSIZE > 1
  /\ BUFSIZE \in Nat \ {0}
  /\ NSECTORS \in Nat

VARIABLES
  argv,         \* the boot sector file and the arguments after it
  args,         \* arguments still to be dealt with
  rest,         \* what is unread of the open file
  pos,          \* how much has been read of it
  nsectors,
  data,         \* what diskwrite still has to write
  out,          \* standard output
  cut,          \* a read has failed
  builder       \* where main is

imageVars == <<argv, args, rest, pos, nsectors, data, out, cut, builder>>

(* An argument is a file, given by its bytes, or "@X".                     *)
FileArg(bytes) == [kind |-> "file", bytes |-> bytes, sector |-> 0]
SkipArg(sector) == [kind |-> "skip", bytes |-> <<>>, sector |-> sector]

Zeros(n) == [k \in 1 .. n |-> 0]
Signature == <<85, 170>>

ImageInit(code, arguments) ==
  /\ argv = [code |-> code, args |-> arguments]
  /\ args = arguments
  /\ rest = code
  /\ pos = 0
  /\ nsectors = 0
  /\ data = <<>>
  /\ out = <<>>
  /\ cut = FALSE
  /\ builder = "boot"

-----------------------------------------------------------------------------

(* Mutant of Write: `data' is not moved past what has been written.        *)
WriteFromStart(w) ==
  /\ w \in 1 .. Len(data)
  /\ out' = out \o SubSeq(data, 1, w)
  /\ data' = SubSeq(data, 1, Len(data) - w)
  /\ UNCHANGED <<argv, args, rest, pos, nsectors, cut, builder>>

(* diskwrite: write accepts w bytes of those that are left.  A write that  *)
(* is interrupted (EINTR) is made again and changes nothing.               *)
Write(w) ==
  /\ w \in 1 .. Len(data)
  /\ out' = out \o SubSeq(data, 1, w)
  /\ data' = SubSeq(data, w + 1, Len(data))
  /\ UNCHANGED <<argv, args, rest, pos, nsectors, cut, builder>>

(* write fails or returns 0, and diskwrite exits.                          *)
WriteFails ==
  /\ data # <<>>
  /\ builder # "failed"
  /\ builder' = "failed"
  /\ UNCHANGED <<argv, args, rest, pos, nsectors, data, out, cut>>

(* main is at this point, with nothing left for diskwrite to write.        *)
At(point) == builder = point /\ data = <<>>

Exits(point) ==
  /\ builder' = point
  /\ UNCHANGED <<argv, args, rest, pos, nsectors, data, out, cut>>

ZeroSector ==
  /\ data' = Zeros(SECTORSIZE)
  /\ nsectors' = nsectors + 1
  /\ UNCHANGED <<argv, args, rest, pos, out, cut, builder>>

(* The boot sector, which must leave room for its signature.               *)
BootTooLarge == At("boot") /\ Len(rest) > SECTORSIZE - 2 /\ Exits("failed")

BootSector ==
  /\ At("boot")
  /\ Len(rest) <= SECTORSIZE - 2
  /\ data' = rest \o Zeros(SECTORSIZE - 2 - Len(rest)) \o Signature
  /\ rest' = <<>>
  /\ nsectors' = 1
  /\ builder' = "args"
  /\ UNCHANGED <<argv, args, pos, out, cut>>

AtArg(kind) == At("args") /\ args # <<>> /\ Head(args).kind = kind

(* "@X": an error if the image is beyond sector X, else fill up to it.     *)
SkipTooLate == AtArg("skip") /\ nsectors > Head(args).sector /\ Exits("failed")

Skip == AtArg("skip") /\ nsectors < Head(args).sector /\ ZeroSector

Skipped ==
  /\ AtArg("skip")
  /\ nsectors = Head(args).sector
  /\ args' = Tail(args)
  /\ UNCHANGED <<argv, rest, pos, nsectors, data, out, cut, builder>>

OpenFails == (At("boot") \/ AtArg("file")) /\ Exits("failed")

Open ==
  /\ AtArg("file")
  /\ rest' = Head(args).bytes
  /\ pos' = 0
  /\ builder' = "file"
  /\ UNCHANGED <<argv, args, nsectors, data, out, cut>>

(* fread up to BUFSIZE bytes and write them.                               *)
Read ==
  /\ At("file")
  /\ rest # <<>>
  /\ LET n == Min({BUFSIZE, Len(rest)})
     IN  /\ data' = SubSeq(rest, 1, n)
         /\ rest' = SubSeq(rest, n + 1, Len(rest))
         /\ pos' = pos + n
  /\ UNCHANGED <<argv, args, nsectors, out, cut, builder>>

(* fread fails before it comes to the end of the file, which main takes    *)
(* for the end.                                                            *)
ReadFails ==
  /\ At("boot") \/ At("file")
  /\ \E n \in 0 .. Len(rest) - 1 : rest' = SubSeq(rest, 1, n)
  /\ cut' = TRUE
  /\ UNCHANGED <<argv, args, pos, nsectors, data, out, builder>>

(* The end of the file: fill its last sector.                              *)
Pad ==
  /\ At("file")
  /\ rest = <<>>
  /\ LET gap == IF pos % SECTORSIZE = 0 THEN 0 ELSE SECTORSIZE - (pos % SECTORSIZE)
     IN  data' = Zeros(gap) /\ nsectors' = nsectors + (pos + gap) \div SECTORSIZE
  /\ args' = Tail(args)
  /\ builder' = "args"
  /\ UNCHANGED <<argv, rest, pos, out, cut>>

Fill == At("args") /\ args = <<>> /\ nsectors < NSECTORS /\ ZeroSector

Finish == At("args") /\ args = <<>> /\ nsectors >= NSECTORS /\ Exits("done")

ImageNext ==
  \/ \E w \in 1 .. Len(data) : builder # "failed" /\ Write(w)
  \/ WriteFails
  \/ BootTooLarge \/ BootSector
  \/ SkipTooLate \/ Skip \/ Skipped
  \/ OpenFails \/ Open \/ Read \/ ReadFails \/ Pad
  \/ Fill \/ Finish

-----------------------------------------------------------------------------
(* The image the arguments ask for.                                        *)

Padded(bytes) ==
  bytes \o Zeros((SECTORSIZE - (Len(bytes) % SECTORSIZE)) % SECTORSIZE)

FilledTo(image, sector) ==
  image \o Zeros(Max({0, sector * SECTORSIZE - Len(image)}))

AddArg(image, arg) ==
  IF arg.kind = "skip" THEN FilledTo(image, arg.sector)
  ELSE Padded(image \o arg.bytes)

Image ==
  LET code == argv.code \o Zeros(SECTORSIZE - 2 - Len(argv.code)) \o Signature
  IN  FilledTo(FoldLeft(AddArg, code, argv.args), NSECTORS)

(* Unless a read fails, the output is at every moment the image so far:    *)
(* however writes are cut up, no byte is lost, repeated or out of place,   *)
(* and what is left when mkbootdisk ends well is all of it.  nsectors      *)
(* counts whole sectors of the output even then.                           *)
ImageRight ==
  /\ ~ cut => IsPrefix(out, Image)
  /\ ~ cut /\ builder # "failed" => IsPrefix(out \o data, Image)
  /\ ~ cut /\ builder = "done" => out = Image
  /\ builder \in {"args", "done"} =>
       Len(out) + Len(data) = nsectors * SECTORSIZE

=============================================================================
