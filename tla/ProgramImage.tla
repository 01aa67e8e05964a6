---------------------------- MODULE ProgramImage ---------------------------
(***************************************************************************)
(* Loading a program and exec (fs/elf.c, fs/elf_dyn.c, and the image part  *)
(* of kernel/proc/process.c).  The segments of the file are copied into a  *)
(* new address space, or left to be read page by page; a position          *)
(* independent program is relocated; the arguments go on the stack; and    *)
(* only then does the new image replace the old one.  Everything before    *)
(* that may fail and must leave nothing behind.                            *)
(*                                                                         *)
(* Addresses and bytes are small: a page has ImPage bytes, user space ends *)
(* at ImEnd, and 64-bit arithmetic wraps at ImWrap.  The file's byte at    *)
(* offset o is o + 1, so that each byte is known by its value; 0 is zero   *)
(* fill, and Patched what a relocation writes.                             *)
(***************************************************************************)
EXTENDS Integers, Sequences, FiniteSets

CONSTANTS
  ImPage, ImEnd, ImMin, ImWrap,
  ImFileSize,      \* the file's size, without its headers
  ImMaxSegment,    \* ELF_MAX_SEGMENT
  ImLazyMax,       \* ELF_LAZY_SEGMENTS
  ImFirst, ImSecond,   \* the segments a file has: [off, fsz, va, msz, w, x]
  ImBases,         \* where a position independent program is put
  ImEntries,       \* entry points
  ImPlaces,        \* what is relocated
  ImArgs,          \* the lengths of the strings of argv and envp
  ImArgBytes, ImArgMax, ImStack, ImWord   \* PROCESS_ARG_BYTES, PROCESS_MAX_ARGS, the stack, a pointer

ImAssumption == ImPage \in Nat \ {0} /\ ImEnd % ImPage = 0 /\ ImWrap >= ImEnd

VARIABLES
  elf,             \* the file: [segs, pie, base, entry, place, disk, args]
  image,           \* what has been built: [at, i, frames, bytes, perms, lazy, imageEnd, rsp, reserved, held]
  runner,          \* the process: [held, reserved]: what its program holds of its file
  imPromised,        \* promised_total
  execCount, writeCount, spaces   \* of the file; address spaces in existence
imVars == <<elf, image, runner, imPromised, execCount, writeCount, spaces>>

Patched == 99
NoPlace == [table |-> 0, at |-> 0, any |-> FALSE]
NoElf == [segs |-> <<>>, pie |-> FALSE, base |-> 0, entry |-> 0, place |-> NoPlace, disk |-> FALSE, args |-> <<>>]
Empty == [at |-> "none", i |-> 1, frames |-> {}, bytes |-> [a \in {} |-> 0], perms |-> [p \in {} |-> {}],
          lazy |-> <<>>, imageEnd |-> 0, rsp |-> 0, reserved |-> 0, held |-> 0]
PageOf(a) == a \div ImPage
InFile(off, len) == off <= ImFileSize /\ len <= ImFileSize - off
Bias == IF elf.pie THEN elf.base ELSE 0
Wrapped(a) == a % ImWrap

-----------------------------------------------------------------------------
(***************************************************************************)
(* elf.c: one segment.                                                     *)
(***************************************************************************)
segment_valid(s) ==
  LET va == Wrapped(s.va + Bias) IN
  \/ s.msz = 0
  \/ /\ s.fsz <= s.msz /\ InFile(s.off, s.fsz) /\ s.msz <= ImMaxSegment
     /\ va >= s.va /\ va >= ImMin /\ va < ImEnd /\ s.msz <= ImEnd - va
segment_pages(s) ==
  IF s.msz = 0 THEN {} ELSE PageOf(Wrapped(s.va + Bias)) .. PageOf(Wrapped(s.va + Bias) + s.msz - 1)
Apart(which) == \A i \in DOMAIN elf.segs : i = which \/ segment_pages(elf.segs[i]) \cap segment_pages(elf.segs[which]) = {}
segment_lazy(which) ==
  LET s == elf.segs[which] IN
  /\ s.msz > 0 /\ ~s.w /\ s.fsz = s.msz
  /\ s.off % ImPage = Wrapped(s.va + Bias) % ImPage
  /\ Apart(which)
Flags(s) == (IF s.w THEN {"w"} ELSE {}) \cup (IF s.x THEN {"x"} ELSE {})
\* load_segment: a page already there keeps its frame and gains rights; a new
\* one is zeroed; then the file's bytes are copied.
load_segment(I, s) ==
  LET va == Wrapped(s.va + Bias)
      pages == segment_pages(s)
      addrs == {a \in 0 .. ImEnd - 1 : PageOf(a) \in I.frames \cup pages}
  IN  [I EXCEPT !.frames = @ \cup pages,
                !.perms = [p \in I.frames \cup pages |->
                             (IF p \in I.frames THEN I.perms[p] ELSE {}) \cup (IF p \in pages THEN Flags(s) ELSE {})],
                !.bytes = [a \in addrs |->
                             IF a >= va /\ a < va + s.fsz THEN s.off + (a - va) + 1
                             ELSE IF PageOf(a) \in I.frames THEN I.bytes[a] ELSE 0]]
LeftForLater(I, s) ==
  [I EXCEPT !.lazy = Append(@, [pages |-> segment_pages(s), perms |-> Flags(s),
                                off |-> (s.off \div ImPage) * ImPage,
                                start |-> PageOf(Wrapped(s.va + Bias)) * ImPage])]
Reaches(I, s) ==
  LET end == Wrapped(s.va + Bias) + s.msz IN [I EXCEPT !.imageEnd = IF end > @ THEN end ELSE @, !.i = @ + 1]

-----------------------------------------------------------------------------
(***************************************************************************)
(* elf_dyn.c: the relocation table must lie in what the file has of one    *)
(* segment, the place in the memory of one; the write finds only pages     *)
(* that are there.                                                         *)
(***************************************************************************)
InFilePart(va) == \E i \in DOMAIN elf.segs : LET s == elf.segs[i] IN va >= s.va /\ va - s.va < s.fsz
vaddr_in_image(va) == \E i \in DOMAIN elf.segs : LET s == elf.segs[i] IN va >= s.va /\ va - s.va < s.msz
MayPatch == vaddr_in_image(elf.place.at) /\ PageOf(elf.place.at + Bias) \in image.frames
Relocates == elf.pie /\ elf.place.any
EntryOk ==
  \E i \in DOMAIN elf.segs :
    LET s == elf.segs[i] IN s.x /\ elf.entry >= s.va /\ elf.entry - s.va < s.msz

-----------------------------------------------------------------------------
(***************************************************************************)
(* process.c: the stack.  The strings go down from the top, then the       *)
(* pointers, so that the stack pointer is aligned to two words.            *)
(***************************************************************************)
TotalOf(s) == LET f[n \in 0 .. Len(s)] == IF n = 0 THEN 0 ELSE f[n - 1] + s[n] IN f[Len(s)]
Slots == Len(elf.args) + 3
Aligned(strings) == strings - (strings % (2 * ImWord)) - (IF Slots % 2 = 1 THEN ImWord ELSE 0)
push_strings == Len(elf.args) <= ImArgMax /\ TotalOf(elf.args) <= ImArgBytes
StackPointer == Aligned(ImStack - TotalOf(elf.args)) - Slots * ImWord

-----------------------------------------------------------------------------
(***************************************************************************)
(* load_user_image and process_exec.  The file tree is locked while the    *)
(* image is built: nobody opens the file meanwhile.                        *)
(***************************************************************************)
load_user_image(e) ==
  /\ image.at = "none" /\ writeCount = 0                      \* ETXTBSY
  /\ elf' = e /\ image' = [Empty EXCEPT !.at = "load"] /\ spaces' = spaces + 1
  /\ UNCHANGED <<runner, imPromised, execCount, writeCount>>

load_image ==
  /\ image.at = "load" /\ image.i \in DOMAIN elf.segs
  /\ LET s == elf.segs[image.i] IN
     /\ segment_valid(s)
     /\ image' = Reaches(IF s.msz = 0 THEN image
                         ELSE IF elf.disk /\ Len(image.lazy) < ImLazyMax /\ segment_lazy(image.i)
                         THEN LeftForLater(image, s) ELSE load_segment(image, s), s)
  /\ UNCHANGED <<elf, runner, imPromised, execCount, writeCount, spaces>>
relocate ==
  /\ image.at = "load" /\ image.i > Len(elf.segs)
  /\ Relocates => InFilePart(elf.place.table) /\ MayPatch
  /\ EntryOk
  /\ image' = [image EXCEPT !.at = "stack",
                            !.bytes = [a \in DOMAIN @ |-> IF Relocates /\ a = elf.place.at + Bias THEN Patched ELSE @[a]]]
  /\ UNCHANGED <<elf, runner, imPromised, execCount, writeCount, spaces>>
build_user_stack ==
  /\ image.at = "stack" /\ push_strings
  /\ image' = [image EXCEPT !.at = "reserve", !.rsp = StackPointer]
  /\ UNCHANGED <<elf, runner, imPromised, execCount, writeCount, spaces>>
LazyPages == Cardinality(UNION {image.lazy[i].pages : i \in DOMAIN image.lazy})
\* Mutant of Noted: the pages are noted before they are promised
NotedBefore(got) == LazyPages
Noted(got) == IF got THEN LazyPages ELSE 0
region_reserve ==
  /\ image.at = "reserve"
  /\ imPromised' = imPromised + LazyPages
  /\ execCount' = execCount + Len(image.lazy)
  /\ image' = [image EXCEPT !.at = "ready", !.reserved = Noted(TRUE), !.held = Len(image.lazy)]
  /\ UNCHANGED <<elf, runner, writeCount, spaces>>
\* Not enough can be promised: the image is given up with what it has.
reserve_refused ==
  /\ image.at = "reserve"
  /\ image' = [image EXCEPT !.at = "fails", !.reserved = Noted(FALSE)]
  /\ UNCHANGED <<elf, runner, imPromised, execCount, writeCount, spaces>>

\* What makes the load fail: the file, or memory running out anywhere.
Refused ==
  \/ image.at = "load" /\ image.i \in DOMAIN elf.segs /\ ~segment_valid(elf.segs[image.i])
  \/ image.at = "load" /\ image.i > Len(elf.segs) /\
       ((Relocates /\ ~(InFilePart(elf.place.table) /\ MayPatch)) \/ ~EntryOk)
  \/ image.at = "stack" /\ ~push_strings
bad_program ==
  /\ Refused
  /\ image' = [image EXCEPT !.at = "fails"]
  /\ UNCHANGED <<elf, runner, imPromised, execCount, writeCount, spaces>>
\* (also: sched_end_other_threads refuses, once the image is complete)
out_of_memory ==
  /\ image.at \in {"load", "stack", "ready"} /\ ~Refused
  /\ image' = [image EXCEPT !.at = "fails"]
  /\ UNCHANGED <<elf, runner, imPromised, execCount, writeCount, spaces>>
discard_image ==
  /\ image.at = "fails"
  /\ execCount' = execCount - image.held
  /\ imPromised' = imPromised - image.reserved
  /\ spaces' = spaces - 1
  /\ image' = [Empty EXCEPT !.at = "failed"] /\ UNCHANGED <<elf, runner, writeCount>>

\* The new image replaces the old one, whose regions and space go.
apply_image(I) == [I EXCEPT !.at = "runs", !.reserved = 0, !.held = 0]
process_exec ==
  /\ image.at = "ready"
  /\ runner' = [held |-> image.held, reserved |-> image.reserved]
  /\ execCount' = execCount - runner.held
  /\ imPromised' = imPromised - runner.reserved
  /\ spaces' = spaces - 1
  /\ image' = apply_image(image)
  /\ UNCHANGED <<elf, writeCount>>

\* file_open_as for writing, and its close.
Locked == image.at \in {"load", "stack", "reserve"}
open_writer ==
  /\ ~Locked /\ execCount = 0 /\ writeCount = 0
  /\ writeCount' = 1 /\ UNCHANGED <<elf, image, runner, imPromised, execCount, spaces>>
close_writer ==
  /\ writeCount > 0
  /\ writeCount' = writeCount - 1 /\ UNCHANGED <<elf, image, runner, imPromised, execCount, spaces>>

Elves ==
  [segs : {<<a, b>> : a \in ImFirst, b \in ImSecond}, pie : BOOLEAN, base : ImBases, entry : ImEntries,
   place : ImPlaces, disk : BOOLEAN, args : ImArgs]
ImInit ==
  /\ elf = NoElf /\ image = Empty /\ runner = [held |-> 0, reserved |-> 0]
  /\ imPromised = 0 /\ execCount = 0 /\ writeCount = 0 /\ spaces = 1
ImNext ==
  \/ image.at = "none" /\ \E e \in Elves : load_user_image(e)
  \/ load_image \/ relocate \/ build_user_stack \/ region_reserve \/ reserve_refused
  \/ bad_program \/ out_of_memory \/ discard_image \/ process_exec
  \/ open_writer \/ close_writer

-----------------------------------------------------------------------------
(***************************************************************************)
(* What a program sees, read eagerly or page by page.                      *)
(***************************************************************************)
Sees(a) ==
  IF PageOf(a) \in image.frames THEN image.bytes[a]
  ELSE LET l == image.lazy[CHOOSE i \in DOMAIN image.lazy : PageOf(a) \in image.lazy[i].pages]
       IN  l.off + (a - l.start) + 1
RightsAt(p) ==
  IF p \in image.frames THEN image.perms[p]
  ELSE image.lazy[CHOOSE i \in DOMAIN image.lazy : p \in image.lazy[i].pages].perms
Memory(s) == IF s.msz = 0 THEN {} ELSE (s.va + Bias) .. (s.va + Bias + s.msz - 1)
Disjoint == \A i, j \in DOMAIN elf.segs : i # j => Memory(elf.segs[i]) \cap Memory(elf.segs[j]) = {}
Pages == UNION {segment_pages(elf.segs[i]) : i \in DOMAIN elf.segs}

\* A program that runs has what its file says: every byte of every segment,
\* zeros after the file's part, the relocation made, no page more and none
\* without the rights of the segments on it, the heap after it all, the entry
\* point in it, and an aligned stack that holds its arguments; whether a
\* segment was copied or is left to be read later (load_image, segment_lazy).
ProgramIsTheFile ==
  image.at \in {"ready", "runs"} =>
    /\ image.frames \cup UNION {image.lazy[i].pages : i \in DOMAIN image.lazy} = Pages
    /\ image.frames \cap UNION {image.lazy[i].pages : i \in DOMAIN image.lazy} = {}
    /\ \A p \in Pages : p >= PageOf(ImMin) /\ p < PageOf(ImEnd)
    /\ \A i \in DOMAIN elf.segs :
         /\ \A p \in segment_pages(elf.segs[i]) : Flags(elf.segs[i]) \subseteq RightsAt(p)
         /\ Disjoint => \A a \in Memory(elf.segs[i]) :
              LET s == elf.segs[i] IN
              Sees(a) = IF Relocates /\ a = elf.place.at + Bias THEN Patched
                        ELSE IF a - s.va - Bias < s.fsz THEN s.off + (a - s.va - Bias) + 1 ELSE 0
    /\ \A p \in Pages : p * ImPage < image.imageEnd
    /\ "x" \in RightsAt(PageOf(elf.entry + Bias))
    /\ image.rsp % (2 * ImWord) = 0 /\ image.rsp >= 0 /\ image.rsp + Slots * ImWord + TotalOf(elf.args) <= ImStack
\* A failed exec leaves nothing behind and a successful one only what the new
\* program holds; and no file is at once run page by page and open for writing
\* (discard_image, region_adopt, file_open_as, load_user_image).
NothingLeftBehind ==
  /\ execCount = runner.held + image.held
  /\ imPromised = runner.reserved + image.reserved \/ image.at = "fails"
  /\ image.at \in {"none", "failed", "runs"} => imPromised = runner.reserved /\ spaces = 1
  /\ execCount = 0 \/ writeCount = 0
=============================================================================
