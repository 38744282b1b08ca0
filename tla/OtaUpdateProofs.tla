-------------------------- MODULE OtaUpdateProofs --------------------------
(***************************************************************************)
(* Proofs about the update of the operating system, for any images,        *)
(* versions, calls and boots.                                              *)
(***************************************************************************)
EXTENDS OtaUpdate, TLAPS

DoneFile(img, i) == <<"done", img, i>>
ChunkFile(img, i) == <<"chunk", img, i>>
OkFile(img) == ImageFile("ok", img)

\* A script fetches or waits, and the slot it works on is not the marked one.
Working == script.pc \notin {"idle", "touch"}

\* The marker names the running slot as long as no boot is set; the network
\* script works only then, and its writers never at the running slot.
SlotsInv ==
  /\ Working => script.slot = Other(marker)
  /\ Working /\ script.name = "network" => ~boot_set
  /\ ~boot_set /\ script.pc # "touch" => marker = running
  /\ RunningSlotUntouched

\* A writer that has a chunk to write has a place for it.
WritersInPlace ==
  \A w \in writers : w.pc \in {"wait", "copy"} => w.i \in 1..Chunks[w.img] /\ w.place \in 1..w.i

\* What a writer holds that has not reported.
AtWork == {w \in writers : w.pc # "close"}

\* The marked slot is whole, and nothing is written to it any more.
MarkedInv ==
  spoilt[marker] = {} => Intact(marker) /\ \A w \in AtWork : w.slot # marker

\* Nothing is known yet that could spoil the slot the script works on.
Clean == Working /\ spoilt[script.slot] = {}

\* A writer of the script has written what it has counted, and nothing more.
WriterInv(w) ==
  /\ w.slot = script.slot /\ w.place = w.i /\ w.i \in 1..(Chunks[w.img] + 1)
  /\ w.pc \in {"wait", "copy"} => w.i <= Chunks[w.img]
  /\ w.pc = "report" => w.i = Chunks[w.img] + 1
  /\ w.pc = "copy" => ChunkFile(w.img, w.i) \in files
  /\ \A j \in 1..(w.i - 1) : disk[w.slot][w.img][j] = <<script.version, j>>
  /\ \A j \in Nat : DoneFile(w.img, j) \in files => j < w.i
  /\ OkFile(w.img) \notin files

\* The writer of the image is still to be started.
Fresh(img) ==
  \/ script.pc = "spawn" /\ script.img = img
  \/ script.img = "kernel" /\ img = "rootfs"

Untouched(img) ==
  /\ \A w \in AtWork : w.img # img
  /\ \A j \in Nat : DoneFile(img, j) \notin files
  /\ OkFile(img) \notin files

\* An image that has been reported is complete.
Reported(img) ==
  OkFile(img) \in files =>
    \A j \in Places(img) : disk[script.slot][img][j] = <<script.version, j>>

\* The script has the verdicts it went on with.
Verdicts ==
  /\ script.img = "rootfs" => OkFile("kernel") \in files
  /\ script.pc = "switch" => script.img = "rootfs" /\ OkFile("rootfs") \in files

CleanInv ==
  Clean =>
    /\ \A w \in AtWork : WriterInv(w)
    /\ \A w1, w2 \in AtWork : w1.img = w2.img => w1 = w2
    /\ \A img \in Images : (Fresh(img) => Untouched(img)) /\ Reported(img)
    /\ Verdicts

OtaInv == TypeOK /\ WritersInPlace /\ SlotsInv /\ MarkedInv /\ CleanInv

-----------------------------------------------------------------------------
(* Types. *)

LEMMA OtherIs ==
  \A slot \in Slots : Other(slot) \in Slots /\ Other(slot) # slot /\ Other(Other(slot)) = slot
BY DEF Slots, Other

\* A writer that goes on is a writer again.
LEMMA WriterTypes ==
  ASSUME TypeOK, NEW w \in writers
  PROVE  /\ w \in WriterState
         /\ [w EXCEPT !.pc = "copy"] \in WriterState
         /\ [w EXCEPT !.pc = "close"] \in WriterState
         /\ \A pc \in {"report", "wait"}, place \in Nat :
              [w EXCEPT !.pc = pc, !.i = @ + 1, !.place = place] \in WriterState
<1>1. w \in WriterState
  BY DEF TypeOK
<1>2. ASSUME NEW pc \in {"report", "wait"}, NEW place \in Nat
      PROVE  [w EXCEPT !.pc = pc, !.i = @ + 1, !.place = place] \in WriterState
  <2>1. w.i + 1 \in Nat
    BY <1>1 DEF WriterState
  <2> QED
    BY <1>1, <2>1 DEF WriterState
<1> QED
  BY <1>1, <1>2 DEF WriterState

LEMMA Filled ==
  /\ \A v \in Versions \cup {0}, img \in Images :
       /\ Whole(v)[img] \in Seq(Data) /\ Len(Whole(v)[img]) = Chunks[img]
       /\ Whole(v) \in [Images -> Seq(Data)]
  /\ \A img \in Images : /\ [i \in Places(img) |-> Junk] \in Seq(Data)
                         /\ Len([i \in Places(img) |-> Junk]) = Chunks[img]
<1>1. \A img \in Images : Chunks[img] \in Nat
  BY OtaAssumption
<1>2. ASSUME NEW v \in Versions \cup {0}, NEW img \in Images
      PROVE  /\ [i \in Places(img) |-> <<v, i>>] \in Seq(Data)
             /\ Len([i \in Places(img) |-> <<v, i>>]) = Chunks[img]
  <2>1. \A i \in 1..Chunks[img] : <<v, i>> \in Data
    BY DEF Data
  <2> HIDE DEF Data
  <2> QED
    BY <1>1, <2>1 DEF Places
<1>3. \A img \in Images : /\ [i \in Places(img) |-> Junk] \in Seq(Data)
                          /\ Len([i \in Places(img) |-> Junk]) = Chunks[img]
  <2>1. Junk \in Data
    BY DEF Junk, Data
  <2> QED
    BY <1>1, <2>1 DEF Places
<1>4. \A v \in Versions \cup {0}, img \in Images : Whole(v)[img] = [i \in Places(img) |-> <<v, i>>]
  BY DEF Whole
<1>5. ASSUME NEW v \in Versions \cup {0} PROVE Whole(v) \in [Images -> Seq(Data)]
  BY <1>2 DEF Whole
<1> QED
  BY <1>2, <1>3, <1>4, <1>5

\* Writing one chunk keeps the shape of the partitions.
LEMMA WriteChunkIs ==
  ASSUME TypeOK, NEW w \in writers, w.place \in 1..Chunks[w.img], NEW what \in Data, WriteChunk(w, what)
  PROVE  /\ disk' \in [Slots -> [Images -> Seq(Data)]]
         /\ \A slot \in Slots, img \in Images : Len(disk'[slot][img]) = Chunks[img]
         /\ disk'[w.slot][w.img][w.place] = what
         /\ \A slot \in Slots, img \in Images, j \in Nat :
              j # w.place \/ slot # w.slot \/ img # w.img => disk'[slot][img][j] = disk[slot][img][j]
         /\ \A slot \in Slots : slot # w.slot => disk'[slot] = disk[slot]
<1> DEFINE part == disk[w.slot][w.img]
           new == [part EXCEPT ![w.place] = what]
<1>1. w.slot \in Slots /\ w.img \in Images
  BY DEF TypeOK, WriterState
<1>2. part \in Seq(Data) /\ Len(part) = Chunks[w.img]
  BY <1>1 DEF TypeOK
<1>3. /\ new \in Seq(Data) /\ Len(new) = Chunks[w.img]
      /\ new[w.place] = what
      /\ \A j \in Nat : j # w.place => new[j] = part[j]
  BY <1>2
<1>4. disk' = [disk EXCEPT ![w.slot] = [disk[w.slot] EXCEPT ![w.img] = new]]
  BY DEF WriteChunk
<1>5. disk \in [Slots -> [Images -> Seq(Data)]]
  BY DEF TypeOK
<1>6. disk'[w.slot] = [disk[w.slot] EXCEPT ![w.img] = new] /\ disk'[w.slot][w.img] = new
  BY <1>1, <1>4, <1>5
<1>7. \A slot \in Slots, img \in Images :
        slot # w.slot \/ img # w.img => disk'[slot][img] = disk[slot][img]
  BY <1>1, <1>4, <1>5
<1>8. \A slot \in Slots : slot # w.slot => disk'[slot] = disk[slot]
  BY <1>4, <1>5
<1> HIDE DEF new, part
<1>9. disk' \in [Slots -> [Images -> Seq(Data)]]
  BY <1>1, <1>3, <1>4, <1>5
<1>10. \A slot \in Slots, img \in Images : Len(disk'[slot][img]) = Chunks[img]
  <2>1. ASSUME NEW slot \in Slots, NEW img \in Images PROVE Len(disk'[slot][img]) = Chunks[img]
    <3>1. Len(disk[slot][img]) = Chunks[img]
      BY DEF TypeOK
    <3>2. CASE slot = w.slot /\ img = w.img
      BY <1>3, <1>6, <3>2
    <3>3. CASE slot # w.slot \/ img # w.img
      BY <1>7, <3>1, <3>3
    <3> QED
      BY <3>2, <3>3
  <2> QED
    BY <2>1
<1>11. ASSUME NEW slot \in Slots, NEW img \in Images, NEW j \in Nat,
              j # w.place \/ slot # w.slot \/ img # w.img
       PROVE  disk'[slot][img][j] = disk[slot][img][j]
  BY <1>3, <1>6, <1>7, <1>11 DEF part
<1> QED
  BY <1>3, <1>6, <1>8, <1>9, <1>10, <1>11

\* The disk after a boot, and what is known of it.
LEMMA BootIs ==
  ASSUME TypeOK, Boot
  PROVE  /\ disk' \in [Slots -> [Images -> Seq(Data)]]
         /\ \A slot \in Slots, img \in Images : Len(disk'[slot][img]) = Chunks[img]
         /\ version' \in Versions \cup {0}
         /\ spoilt' \in [Slots -> SUBSET {"second writer", "write error", "power cut"}]
         /\ \A slot \in Slots : spoilt'[slot] = {} => spoilt[slot] = {} /\ disk'[slot] = disk[slot]
<1>1. PICK lost \in SUBSET writers :
        LET Lost(slot, img) == \E w \in lost : w.slot = slot /\ w.img = img IN
        /\ disk' = [slot \in Slots |-> [img \in Images |->
                      IF Lost(slot, img) THEN [i \in Places(img) |-> Junk] ELSE disk[slot][img]]]
        /\ spoilt' = [slot \in Slots |-> spoilt[slot] \cup
                        (IF \E img \in Images : Lost(slot, img) THEN {"power cut"} ELSE {})]
  BY DEF Boot
<1> DEFINE Lost(slot, img) == \E w \in lost : w.slot = slot /\ w.img = img
<1>2. /\ disk' = [slot \in Slots |-> [img \in Images |->
                    IF Lost(slot, img) THEN [i \in Places(img) |-> Junk] ELSE disk[slot][img]]]
      /\ spoilt' = [slot \in Slots |-> spoilt[slot] \cup
                      (IF \E img \in Images : Lost(slot, img) THEN {"power cut"} ELSE {})]
  BY <1>1
<1> HIDE DEF Lost
<1>3. \A slot \in Slots, img \in Images :
        disk'[slot][img] \in Seq(Data) /\ Len(disk'[slot][img]) = Chunks[img]
  BY <1>2, Filled DEF TypeOK
<1>4. disk' \in [Slots -> [Images -> Seq(Data)]]
  BY <1>2, <1>3
<1>5. spoilt' \in [Slots -> SUBSET {"second writer", "write error", "power cut"}]
  BY <1>2 DEF TypeOK
<1>6. ASSUME NEW slot \in Slots, spoilt'[slot] = {}
      PROVE  spoilt[slot] = {} /\ disk'[slot] = disk[slot]
  <2>1. spoilt[slot] = {} /\ \A img \in Images : ~Lost(slot, img)
    BY <1>2, <1>6
  <2>2. disk'[slot] = [img \in Images |-> disk[slot][img]]
    BY <1>2, <2>1
  <2> QED
    BY <2>1, <2>2 DEF TypeOK
<1>7. version' \in Versions \cup {0}
  <2>1. marker \in Slots /\ "rootfs" \in Images
    BY DEF TypeOK, Images
  <2>2. Chunks["rootfs"] \in Nat \ {0}
    BY <2>1, OtaAssumption
  <2>3. disk'[marker]["rootfs"] \in Seq(Data) /\ Len(disk'[marker]["rootfs"]) >= 1
    BY <1>3, <2>1, <2>2
  <2>4. disk'[marker]["rootfs"][1] \in Data
    BY <2>3
  <2>5. version' = disk'[marker]["rootfs"][1][1]
    BY DEF Boot
  <2> QED
    BY <2>4, <2>5 DEF Data
<1> QED
  BY <1>3, <1>4, <1>5, <1>6, <1>7

LEMMA CopyIs ==
  ASSUME TypeOK, WritersInPlace, NEW w \in writers, Copy(w) \/ CopyFails(w)
  PROVE  \E what \in Data : /\ WriteChunk(w, what) /\ w.place \in 1..Chunks[w.img]
                            /\ Copy(w) => what = <<script.version, w.i>>
<1>1. w.place \in 1..Chunks[w.img] /\ w.i \in Nat
  <2>1. w.pc = "copy" /\ w.img \in Images /\ w.i \in Nat
    BY DEF Copy, CopyFails, TypeOK, WriterState
  <2>2. Chunks[w.img] \in Nat
    BY <2>1, OtaAssumption
  <2>3. w.i \in 1..Chunks[w.img] /\ w.place \in 1..w.i
    BY <2>1 DEF WritersInPlace
  <2> QED
    BY <2>1, <2>2, <2>3
<1>2. <<script.version, w.i>> \in Data /\ Junk \in Data
  BY <1>1 DEF TypeOK, ScriptState, Data, Junk
<1>3. CASE Copy(w)
  BY <1>1, <1>2, <1>3 DEF Copy
<1>4. CASE CopyFails(w) /\ ~Copy(w)
  BY <1>1, <1>2, <1>4 DEF CopyFails
<1> QED
  BY <1>3, <1>4

LEMMA DiskTypes ==
  ASSUME TypeOK, WritersInPlace, [Next]_vars
  PROVE  /\ disk' \in [Slots -> [Images -> Seq(Data)]]
         /\ \A slot \in Slots, img \in Images : Len(disk'[slot][img]) = Chunks[img]
         /\ version' \in Versions \cup {0}
<1>1. CASE Boot
  BY <1>1, BootIs
<1>2. CASE \E w \in writers : Copy(w) \/ CopyFails(w)
  <2>1. PICK w \in writers : Copy(w) \/ CopyFails(w)
    BY <1>2
  <2>2. PICK what \in Data : WriteChunk(w, what) /\ w.place \in 1..Chunks[w.img]
    BY <2>1, CopyIs
  <2>3. UNCHANGED version
    BY <2>1 DEF Copy, CopyFails, Done
  <2> QED
    BY <2>2, <2>3, WriteChunkIs DEF TypeOK
<1>3. CASE UNCHANGED <<disk, version>>
  BY <1>3 DEF TypeOK
<1> QED
  BY <1>1, <1>2, <1>3 DEF Next, Start, StartInVain, Script, Spawn, Fetched, Copied, FetchFails,
     WaitFails, GiveUp, ImageDone, ImageFails, SetNextBoot, Touch, Write, CannotOpen, Take, Quit,
     CopyNothing, Done, Report, Close, vars

\* What has become of a writer when it has dealt with a chunk.
Next_(w, place) ==
  [w EXCEPT !.pc = IF AllCopied(w) THEN "report" ELSE "wait", !.i = @ + 1, !.place = place]

LEMMA NextIs ==
  ASSUME TypeOK, WritersInPlace, NEW w \in writers, w.pc = "copy", NEW place \in Nat
  PROVE  LET n == Next_(w, place)
         IN  /\ n \in WriterState /\ n.i = w.i + 1 /\ n.place = place
             /\ n.name = w.name /\ n.img = w.img /\ n.slot = w.slot
             /\ n.pc \in {"wait", "report"}
             /\ n.pc = "wait" => n.i <= Chunks[n.img]
             /\ n.pc = "report" => n.i = Chunks[n.img] + 1
<1>1. w \in WriterState /\ Next_(w, place) \in WriterState
  BY WriterTypes DEF Next_
<1>2. w.i \in Nat /\ w.img \in Images /\ Chunks[w.img] \in Nat /\ w.i <= Chunks[w.img]
  BY <1>1, OtaAssumption DEF WriterState, WritersInPlace
<1>3. /\ Next_(w, place).i = w.i + 1 /\ Next_(w, place).place = place
      /\ Next_(w, place).name = w.name /\ Next_(w, place).img = w.img /\ Next_(w, place).slot = w.slot
      /\ Next_(w, place).pc = IF AllCopied(w) THEN "report" ELSE "wait"
  BY <1>1 DEF Next_, WriterState
<1> QED
  BY <1>1, <1>2, <1>3 DEF AllCopied

ComesFrom(w) ==
  \/ \E o \in writers : /\ o.slot = w.slot /\ o.name = w.name
                        /\ o.pc = "close" => w.pc = "close"
  \/ Spawn /\ w.slot = script.slot /\ w.name = script.name

\* The writers after a step: some of the old ones, one that goes on, or a new one.
LEMMA WritersAre ==
  ASSUME TypeOK, WritersInPlace, [Next]_vars
  PROVE  \A w \in writers' :
           /\ w \in WriterState
           /\ w.pc \in {"wait", "copy"} => w.i \in 1..Chunks[w.img] /\ w.place \in 1..w.i
           /\ ComesFrom(w)
<1> DEFINE Good(w) ==
      /\ w \in WriterState
      /\ w.pc \in {"wait", "copy"} => w.i \in 1..Chunks[w.img] /\ w.place \in 1..w.i
      /\ ComesFrom(w)
<1>1. \A w \in writers : Good(w)
  BY DEF TypeOK, WritersInPlace, ComesFrom
<1>2. CASE writers' \subseteq writers
  BY <1>1, <1>2
<1>3. CASE Spawn
  <2> DEFINE n == [run |-> runs, name |-> script.name, pc |-> "wait", img |-> script.img,
                   slot |-> script.slot, i |-> 1, place |-> 1]
  <2>1. n \in WriterState /\ n.img \in Images
    BY DEF TypeOK, ScriptState, WriterState
  <2>2. Chunks[n.img] \in Nat \ {0}
    BY <2>1, OtaAssumption
  <2>3. Good(n)
    BY <1>3, <2>1, <2>2 DEF ComesFrom
  <2> QED
    BY <1>1, <1>3, <2>3 DEF Spawn
<1>4. ASSUME NEW w \in writers, Take(w)
      PROVE  \A d \in writers' : Good(d)
  <2>1. Good(w) /\ w.pc = "wait"
    BY <1>1, <1>4 DEF Take
  <2>2. Good([w EXCEPT !.pc = "copy"])
    BY <2>1, WriterTypes DEF WriterState, ComesFrom
  <2>3. writers' \subseteq writers \cup {[w EXCEPT !.pc = "copy"]}
    BY <1>4 DEF Take, Refuse, Leave
  <2> HIDE DEF Good
  <2> QED
    BY <1>1, <2>2, <2>3
<1>5. ASSUME NEW w \in writers, Report(w)
      PROVE  \A d \in writers' : Good(d)
  <2>1. Good([w EXCEPT !.pc = "close"])
    BY WriterTypes DEF WriterState, ComesFrom
  <2>2. writers' \subseteq writers \cup {[w EXCEPT !.pc = "close"]}
    BY <1>5 DEF Report
  <2> HIDE DEF Good
  <2> QED
    BY <1>1, <2>1, <2>2
<1>6. ASSUME NEW w \in writers, Copy(w) \/ CopyFails(w) \/ CopyNothing(w)
      PROVE  \A d \in writers' : Good(d)
  <2>1. Good(w) /\ w.pc = "copy"
    BY <1>1, <1>6 DEF Copy, CopyFails, CopyNothing
  <2>2. w.i \in Nat /\ w.place \in Nat /\ w.img \in Images /\ w.place >= 1 /\ w.place <= w.i
        /\ Chunks[w.img] \in Nat
    BY <2>1, OtaAssumption DEF WriterState
  <2>3. PICK place \in {w.place, w.place + 1} : Done(w, place)
    BY <1>6 DEF Copy, CopyFails, CopyNothing
  <2>4. Good(Next_(w, place))
    BY <2>1, <2>2, NextIs DEF ComesFrom
  <2>5. writers' = (writers \ {w}) \cup {Next_(w, place)}
    BY <2>3 DEF Done, Next_
  <2> HIDE DEF Good
  <2> QED
    BY <1>1, <2>4, <2>5
<1>7. CASE \E w \in writers : Write(w)
  BY <1>2, <1>4, <1>5, <1>6, <1>7 DEF Write, CannotOpen, Quit, Close, Refuse, Leave
<1>8. CASE ~(\E w \in writers : Write(w)) /\ ~Spawn
  BY <1>2, <1>8 DEF Next, Start, StartInVain, Script, Fetched, Copied, FetchFails,
     WaitFails, GiveUp, ImageDone, ImageFails, SetNextBoot, Touch, Boot, vars
<1> QED
  BY <1>3, <1>7, <1>8

LEMMA ScriptTypes ==
  ASSUME TypeOK, [Next]_vars
  PROVE  script' \in ScriptState
<1>1. ASSUME NEW s \in ScriptState, NEW pc \in {"idle", "spawn", "fetch", "await", "last", "result", "switch", "touch"}
      PROVE  /\ [s EXCEPT !.pc = pc] \in ScriptState
             /\ [s EXCEPT !.pc = pc, !.img = "rootfs"] \in ScriptState
             /\ [s EXCEPT !.pc = pc, !.i = 1] \in ScriptState
             /\ [s EXCEPT !.pc = pc, !.i = @ + 1] \in ScriptState
  <2>1. "rootfs" \in Images /\ s.i + 1 \in Nat
    BY DEF Images, ScriptState
  <2> QED
    BY <2>1 DEF ScriptState
<1>2. script \in ScriptState
  BY DEF TypeOK
<1>3. Proceed \in ScriptState
  BY <1>1, <1>2 DEF Proceed
<1>4. CASE Script
  BY <1>1, <1>2, <1>3, <1>4 DEF Script, Spawn, Fetched, Copied, FetchFails,
     WaitFails, GiveUp, ImageDone, ImageFails, SetNextBoot, Touch
<1>5. CASE Boot
  BY <1>5 DEF Boot, Idle, ScriptState, Slots, Images
<1>6. ASSUME NEW name \in Scripts, NEW v \in Versions, Start(name, v)
      PROVE  script' \in ScriptState
  <2>1. name \in {"network", "local"} /\ TargetSlot \in Slots
    BY OtaAssumption, OtherIs DEF TypeOK, TargetSlot
  <2> QED
    BY <1>6, <2>1 DEF Start, ScriptState, Images
<1>7. CASE UNCHANGED script
  BY <1>2, <1>7
<1> QED
  BY <1>4, <1>5, <1>6, <1>7 DEF Next, StartInVain, Write, CannotOpen, Take, Quit,
     Copy, CopyFails, CopyNothing, Done, Report, Close, vars

LEMMA TypesStep ==
  ASSUME TypeOK, WritersInPlace, [Next]_vars
  PROVE  TypeOK' /\ WritersInPlace'
<1>1. writers' \subseteq WriterState /\ WritersInPlace'
  BY WritersAre DEF WritersInPlace
<1>2. marker' \in Slots /\ running' \in Slots /\ boot_set' \in BOOLEAN
  <2> marker \in Slots /\ running \in Slots /\ boot_set \in BOOLEAN
    BY DEF TypeOK
  <2>1. CASE SetNextBoot
    BY <2>1, OtherIs DEF SetNextBoot
  <2>2. CASE Touch \/ Boot
    BY <2>2 DEF Touch, Boot
  <2>3. CASE UNCHANGED <<marker, running, boot_set>>
    BY <2>3
  <2> QED
    BY <2>1, <2>2, <2>3 DEF Next, Start, StartInVain, Script, Spawn, Fetched, Copied, FetchFails,
       WaitFails, GiveUp, ImageDone, ImageFails, Write, CannotOpen, Take, Quit,
       Copy, CopyFails, CopyNothing, Done, Report, Close, vars
<1>3. runs' \in Nat /\ boots' \in Nat
  <2> runs \in Nat /\ boots \in Nat
    BY DEF TypeOK
  <2>1. CASE \E name \in Scripts : StartInVain(name) \/ \E v \in Versions : Start(name, v)
    <3>1. runs' = runs + 1 /\ boots' = boots
      BY <2>1 DEF StartInVain, Start
    <3> QED
      BY <3>1
  <2>2. CASE Boot
    <3>1. boots' = boots + 1 /\ runs' = runs
      BY <2>2 DEF Boot
    <3> QED
      BY <3>1
  <2>3. CASE UNCHANGED <<runs, boots>>
    BY <2>3
  <2> QED
    BY <2>1, <2>2, <2>3 DEF Next, Script, Spawn, Fetched, Copied, FetchFails,
       WaitFails, GiveUp, ImageDone, ImageFails, SetNextBoot, Touch, Write, CannotOpen, Take, Quit,
       Copy, CopyFails, CopyNothing, Done, Report, Close, vars
<1>4. spoilt' \in [Slots -> SUBSET {"second writer", "write error", "power cut"}]
  <2>1. CASE Boot
    BY <2>1, BootIs
  <2>2. CASE \E name \in Scripts : StartInVain(name) \/ \E v \in Versions : Start(name, v)
    BY <2>2 DEF TypeOK, StartInVain, Start, Doubts
  <2>3. CASE \E w \in writers : CopyFails(w)
    BY <2>3 DEF TypeOK, CopyFails, Spoil
  <2>4. CASE UNCHANGED spoilt
    BY <2>4 DEF TypeOK
  <2> QED
    BY <2>1, <2>2, <2>3, <2>4 DEF Next, Script, Spawn, Fetched, Copied, FetchFails,
     WaitFails, GiveUp, ImageDone, ImageFails, SetNextBoot, Touch, Write, CannotOpen, Take, Quit,
     Copy, CopyNothing, Report, Close, vars
<1> QED
  BY <1>1, <1>2, <1>3, <1>4, DiskTypes, ScriptTypes DEF TypeOK

-----------------------------------------------------------------------------
(* The slots. *)

LEMMA SlotsStep ==
  ASSUME TypeOK, TypeOK', WritersInPlace, SlotsInv, [Next]_vars
  PROVE  SlotsInv'
<1>1. marker \in Slots /\ running \in Slots
  BY DEF TypeOK
<1>2. RunningSlotUntouched'
  <2>1. CASE Boot
    BY <2>1 DEF Boot, RunningSlotUntouched
  <2>2. CASE ~Boot
    <3>1. UNCHANGED running
      BY <2>2 DEF Next, Start, StartInVain, Script, Spawn, Fetched, Copied, FetchFails,
         WaitFails, GiveUp, ImageDone, ImageFails, SetNextBoot, Touch, Write, CannotOpen, Take, Quit,
         Copy, CopyFails, CopyNothing, Done, Report, Close, vars
    <3>2. Spawn /\ script.name = "network" => script.slot # running
      BY <1>1, OtherIs DEF Spawn, SlotsInv, Working
    <3>3. ASSUME NEW w \in writers', w.name = "network" PROVE w.slot # running
      <4>1. \/ \E o \in writers : o.slot = w.slot /\ o.name = w.name
            \/ Spawn /\ w.slot = script.slot /\ w.name = script.name
        <5>1. ComesFrom(w)
          BY WritersAre
        <5> QED
          BY <5>1 DEF ComesFrom
      <4> QED
        BY <3>2, <3>3, <4>1 DEF SlotsInv, RunningSlotUntouched
    <3> QED
      BY <3>1, <3>3 DEF RunningSlotUntouched
  <2> QED
    BY <2>1, <2>2
<1> DEFINE Rest == /\ Working => script.slot = Other(marker)
                   /\ Working /\ script.name = "network" => ~boot_set
                   /\ ~boot_set /\ script.pc # "touch" => marker = running
<1>3. Rest'
  <2>1. ASSUME NEW name \in Scripts, NEW v \in Versions, Start(name, v)
        PROVE  Rest'
    BY <2>1 DEF Start, MayRun, SlotsInv, Working, TargetSlot
  <2>2. CASE Script
    <3>1. script \in ScriptState
      BY DEF TypeOK
    <3>2. CASE SetNextBoot \/ Touch
      BY <3>1, <3>2 DEF SetNextBoot, Touch, Working, ScriptState
    <3>3. CASE ~(SetNextBoot \/ Touch)
      <4>1. UNCHANGED <<marker, running, boot_set>> /\ Working
            /\ script'.slot = script.slot /\ script'.name = script.name /\ script'.pc # "touch"
        BY <2>2, <3>1, <3>3 DEF Script, Spawn, Fetched, Copied, FetchFails, WaitFails, GiveUp,
           ImageDone, ImageFails, Proceed, Working, ScriptState
      <4> QED
        BY <4>1 DEF SlotsInv, Working
    <3> QED
      BY <3>2, <3>3
  <2>3. CASE Boot
    BY <2>3 DEF Boot, Idle, Working
  <2>4. CASE UNCHANGED <<marker, running, boot_set, script>>
    BY <2>4 DEF SlotsInv, Working
  <2> QED
    BY <2>1, <2>2, <2>3, <2>4 DEF Next, StartInVain, Write, CannotOpen, Take, Quit,
       Copy, CopyFails, CopyNothing, Done, Report, Close, vars
<1> QED
  BY <1>2, <1>3 DEF SlotsInv

-----------------------------------------------------------------------------
(* The slot that is worked on. *)

LEMMA FileNames ==
  \A img, other \in Images, i, j \in Nat :
    /\ DoneFile(img, i) = DoneFile(other, j) <=> img = other /\ i = j
    /\ ChunkFile(img, i) = ChunkFile(other, j) <=> img = other /\ i = j
    /\ OkFile(img) = OkFile(other) <=> img = other
    /\ DoneFile(img, i) # ChunkFile(other, j) /\ DoneFile(img, i) # OkFile(other)
    /\ ChunkFile(img, i) # OkFile(other)
    /\ \A what \in {"failed", "quit"} :
         /\ ImageFile(what, img) # DoneFile(other, j) /\ ImageFile(what, img) # OkFile(other)
         /\ ImageFile(what, img) # ChunkFile(other, j)
    /\ <<"ready", img, i>> # DoneFile(other, j) /\ <<"ready", img, i>> # OkFile(other)
    /\ <<"ready", img, i>> # ChunkFile(other, j)
BY DEF DoneFile, ChunkFile, OkFile, ImageFile

\* An image that has been reported is whole; with both of them the slot is.
LEMMA WholeSlot ==
  ASSUME TypeOK, NEW slot \in Slots, NEW v \in Versions \cup {0},
         \A img \in Images : \A j \in Places(img) : disk[slot][img][j] = <<v, j>>
  PROVE  Intact(slot)
<1>1. ASSUME NEW img \in Images PROVE disk[slot][img] = [i \in Places(img) |-> <<v, i>>]
  <2>1. disk[slot][img] \in Seq(Data) /\ Len(disk[slot][img]) = Chunks[img]
    BY DEF TypeOK
  <2>2. disk[slot][img] = [i \in 1..Chunks[img] |-> disk[slot][img][i]]
    BY <2>1
  <2>3. [i \in 1..Chunks[img] |-> disk[slot][img][i]] = [i \in Places(img) |-> <<v, i>>]
    BY DEF Places
  <2> QED
    BY <2>2, <2>3
<1>2. disk[slot] = [img \in Images |-> disk[slot][img]]
  BY DEF TypeOK
<1>3. Whole(v) = [img \in Images |-> [i \in Places(img) |-> <<v, i>>]]
  BY DEF Whole
<1>4. disk[slot] = Whole(v)
  BY <1>1, <1>2, <1>3
<1> QED
  BY <1>4 DEF Intact

\* When the script has both verdicts its slot is whole, and nobody writes to it.
LEMMA SwitchIsWhole ==
  ASSUME TypeOK, CleanInv, Clean, script.pc = "switch"
  PROVE  Intact(script.slot) /\ \A w \in AtWork : FALSE
<1>1. script.slot \in Slots /\ script.version \in Versions \cup {0}
  BY DEF TypeOK, ScriptState
<1>2. \A img \in Images : OkFile(img) \in files
  BY DEF CleanInv, Verdicts, Images
<1>3. Intact(script.slot)
  BY <1>1, <1>2, WholeSlot DEF CleanInv, Reported
<1>4. \A w \in AtWork : w.img \in Images
  BY DEF AtWork, TypeOK, WriterState
<1> QED
  BY <1>2, <1>3, <1>4 DEF CleanInv, WriterInv

\* Doubts end only when a script starts and no writer is at work on its slot, or
\* on another: nobody can confuse it.
LEMMA DoubtsEnd ==
  ASSUME TypeOK, [Next]_vars, NEW slot \in Slots, spoilt'[slot] = {}
  PROVE  \/ spoilt[slot] = {}
         \/ \E name \in Scripts, v \in Versions :
              Start(name, v) /\ slot = TargetSlot /\ AtWork = {}
<1>1. ASSUME NEW name \in Scripts, NEW v \in Versions, Start(name, v)
      PROVE  spoilt[slot] = {} \/ (slot = TargetSlot /\ AtWork = {})
  <2>1. Doubts(slot) = {}
    BY <1>1 DEF Start
  <2> QED
    BY <2>1 DEF Doubts, MayMix, AtWork
<1>2. ASSUME NEW name \in Scripts, StartInVain(name)
      PROVE  spoilt[slot] = {}
  BY <1>2 DEF StartInVain
<1>3. CASE \E w \in writers : CopyFails(w)
  BY <1>3 DEF CopyFails, Spoil, TypeOK
<1>4. CASE Boot
  BY <1>4, BootIs
<1>5. CASE UNCHANGED spoilt
  BY <1>5
<1> QED
  BY <1>1, <1>2, <1>3, <1>4, <1>5 DEF Next, Script, Spawn, Fetched, Copied, FetchFails,
     WaitFails, GiveUp, ImageDone, ImageFails, SetNextBoot, Touch, Write, CannotOpen, Take, Quit,
     Copy, CopyNothing, Report, Close, vars

LEMMA MarkedStep ==
  ASSUME TypeOK, TypeOK', WritersInPlace, SlotsInv, MarkedInv, CleanInv, [Next]_vars
  PROVE  MarkedInv'
<1> marker \in Slots /\ script.slot \in Slots
  BY DEF TypeOK, ScriptState
<1>1. CASE SetNextBoot /\ marker' = Other(marker)
  <2> SUFFICES ASSUME spoilt'[marker'] = {}
               PROVE  Intact(marker') /\ \A w \in AtWork' : w.slot # marker'
    BY <1>1 DEF MarkedInv, SetNextBoot, Intact
  <2>1. Working /\ script.pc = "switch" /\ UNCHANGED <<disk, spoilt, writers>> /\ marker' = Other(marker)
    BY <1>1 DEF SetNextBoot, Working
  <2>2. marker' = script.slot
    BY <2>1, OtherIs DEF SlotsInv
  <2>3. Clean
    BY <2>1, <2>2 DEF Clean
  <2>4. Intact(script.slot) /\ AtWork = {}
    BY <2>1, <2>3, SwitchIsWhole
  <2> QED
    BY <2>1, <2>2, <2>4 DEF AtWork
<1>2. CASE ~(SetNextBoot /\ marker' = Other(marker))
  <2>1. UNCHANGED marker
    BY <1>2 DEF Next, Start, StartInVain, Script, Spawn, Fetched, Copied, FetchFails, WaitFails,
       GiveUp, ImageDone, ImageFails, SetNextBoot, Touch, Write, CannotOpen, Take, Quit,
       Copy, CopyFails, CopyNothing, Done, Report, Close, Boot, vars
  <2> SUFFICES ASSUME spoilt'[marker] = {}
               PROVE  disk'[marker] = disk[marker] /\ spoilt[marker] = {}
                      /\ \A w \in AtWork' : w.slot # marker
    BY <2>1 DEF MarkedInv, Intact
  <2>2. marker # TargetSlot
    BY OtherIs DEF TargetSlot
  <2>3. spoilt[marker] = {}
    BY <2>2, DoubtsEnd
  <2>4. \A w \in AtWork : w.slot # marker
    BY <2>3 DEF MarkedInv
  <2>5. ASSUME NEW w \in AtWork' PROVE w.slot # marker
    <3>1. Spawn => script.slot # marker
      BY OtherIs DEF Spawn, SlotsInv, Working
    <3>2. w \in writers' /\ w.pc # "close"
      BY DEF AtWork
    <3>3. \/ \E o \in writers : o.slot = w.slot /\ (o.pc = "close" => w.pc = "close")
          \/ Spawn /\ w.slot = script.slot
      <4>1. ComesFrom(w)
        BY <3>2, WritersAre
      <4> QED
        BY <4>1 DEF ComesFrom
    <3> QED
      BY <2>4, <3>1, <3>2, <3>3 DEF AtWork
  <2>6. disk'[marker] = disk[marker]
    <3>1. CASE Boot
      BY <3>1, BootIs
    <3>2. CASE \E w \in writers : Copy(w) \/ CopyFails(w)
      <4>1. PICK w \in writers : Copy(w) \/ CopyFails(w)
        BY <3>2
      <4>2. PICK what \in Data : WriteChunk(w, what) /\ w.place \in 1..Chunks[w.img]
        BY <4>1, CopyIs
      <4>3. w.slot # marker
        BY <2>4, <4>1 DEF AtWork, Copy, CopyFails
      <4> QED
        BY <4>2, <4>3, WriteChunkIs
    <3>3. CASE UNCHANGED disk
      BY <3>3
    <3> QED
      BY <3>1, <3>2, <3>3 DEF Next, Start, StartInVain, Script, Spawn, Fetched, Copied, FetchFails,
         WaitFails, GiveUp, ImageDone, ImageFails, SetNextBoot, Touch, Write, CannotOpen, Take, Quit,
         CopyNothing, Done, Report, Close, vars
  <2> QED
    BY <2>3, <2>5, <2>6
<1> QED
  BY <1>1, <1>2

\* A script that works does not change its slot and version, and what was
\* doubtful about the slot stays so.
LEMMA CleanKept ==
  ASSUME TypeOK, WritersInPlace, SlotsInv, [Next]_vars, Clean',
         ~(\E name \in Scripts, v \in Versions : Start(name, v))
  PROVE  /\ Clean /\ script'.slot = script.slot /\ script'.version = script.version
         /\ ~Boot /\ \A name \in Scripts : ~StartInVain(name)
<1>1. script \in ScriptState /\ script.slot \in Slots
  BY DEF TypeOK, ScriptState
<1>2. ~Boot /\ (\A name \in Scripts : ~StartInVain(name))
  <2>1. script'.pc \notin {"idle", "touch"}
    BY DEF Clean, Working
  <2>2. Boot => script'.pc = "idle"
    <3>1. Boot => script' = Idle
      BY DEF Boot
    <3> QED
      BY <3>1 DEF Idle
  <2>3. \A name \in Scripts : StartInVain(name) => script'.pc = "idle"
    BY DEF StartInVain
  <2> QED
    BY <2>1, <2>2, <2>3
<1>3. /\ script'.slot = script.slot /\ script'.version = script.version
      /\ Working
  <2>1. CASE Script
    BY <1>1, <2>1 DEF Script, Spawn, Fetched, Copied, FetchFails, WaitFails, GiveUp,
           ImageDone, ImageFails, SetNextBoot, Touch, Proceed, Clean, Working, ScriptState
  <2>2. CASE UNCHANGED script
    BY <2>2 DEF Clean, Working
  <2> QED
    BY <1>2, <2>1, <2>2 DEF Next, Write, CannotOpen, Take, Quit,
       Copy, CopyFails, CopyNothing, Done, Report, Close, vars
<1>4. spoilt[script.slot] = {}
  BY <1>1, <1>3, DoubtsEnd DEF Clean
<1> QED
  BY <1>2, <1>3, <1>4 DEF Clean

\* Steps that write nothing, start no writer and give no verdict.
LEMMA QuietStep ==
  ASSUME TypeOK, CleanInv, Clean, UNCHANGED disk, AtWork' \subseteq AtWork,
         script'.slot = script.slot, script'.version = script.version,
         \A img \in Images, j \in Nat : DoneFile(img, j) \in files' => DoneFile(img, j) \in files,
         \A img \in Images : OkFile(img) \in files' => OkFile(img) \in files,
         \A w \in AtWork' : w.pc = "copy" => ChunkFile(w.img, w.i) \in files',
         \A img \in Images : Fresh(img)' => Fresh(img),
         Verdicts'
  PROVE  CleanInv'
<1>0. \A w \in AtWork : w.img \in Images
  BY DEF AtWork, TypeOK, WriterState
<1>1. ASSUME NEW w \in AtWork' PROVE WriterInv(w)'
  <2>1. WriterInv(w) /\ w.img \in Images
    BY <1>0 DEF CleanInv
  <2> QED
    BY <2>1 DEF WriterInv
<1>2. \A w1, w2 \in AtWork' : w1.img = w2.img => w1 = w2
  BY DEF CleanInv
<1>3. ASSUME NEW img \in Images, Fresh(img)' PROVE Untouched(img)'
  <2>1. Untouched(img)
    BY <1>3 DEF CleanInv
  <2> QED
    BY <2>1 DEF Untouched
<1>4. ASSUME NEW img \in Images PROVE Reported(img)'
  <2>1. Reported(img)
    BY DEF CleanInv
  <2> QED
    BY <2>1 DEF Reported, Places
<1> QED
  BY <1>1, <1>2, <1>3, <1>4 DEF CleanInv

LEMMA ScriptKeepsClean ==
  ASSUME TypeOK, TypeOK', CleanInv, Clean, Clean', Script,
         script'.slot = script.slot, script'.version = script.version
  PROVE  CleanInv'
<1>1. script \in ScriptState /\ script.img \in Images /\ script.i \in Nat
  BY DEF TypeOK, ScriptState
<1>2. CASE Fetched
  <2>1. UNCHANGED <<disk, writers>> /\ script'.img = script.img /\ script.pc = "fetch"
        /\ script'.pc \in {"fetch", "last", "await"}
    BY <1>1, <1>2 DEF Fetched, Proceed, ScriptState
  <2>2. files' = files \cup {ChunkFile(script.img, script.i), <<"ready", script.img, script.i>>}
    BY <1>2 DEF Fetched, Put, ChunkFile
  <2>3. \A img \in Images, j \in Nat : DoneFile(img, j) \in files' => DoneFile(img, j) \in files
    BY <1>1, <2>2, FileNames
  <2>4. \A img \in Images : OkFile(img) \in files' => OkFile(img) \in files
    BY <1>1, <2>2, FileNames
  <2>5. \A w \in AtWork : w.pc = "copy" => ChunkFile(w.img, w.i) \in files'
    BY <2>2 DEF CleanInv, WriterInv
  <2>6. \A img \in Images : Fresh(img)' => Fresh(img)
    BY <2>1 DEF Fresh
  <2>7. Verdicts'
    BY <2>1, <2>2 DEF CleanInv, Verdicts
  <2> QED
    BY <2>1, <2>3, <2>4, <2>5, <2>6, <2>7, QuietStep DEF AtWork
<1>3. CASE Copied
  <2>1. UNCHANGED <<disk, writers>> /\ script'.img = script.img /\ script.pc \in {"await", "last"}
        /\ script'.pc \in {"fetch", "last", "await", "result"}
    BY <1>1, <1>3 DEF Copied, Proceed, ScriptState
  <2>2. files' = files \ {ChunkFile(script.img, Awaited)} /\ DoneFile(script.img, Awaited) \in files
    BY <1>3 DEF Copied, ChunkFile, DoneFile, IsDone
  <2>3. ASSUME NEW w \in AtWork, w.pc = "copy" PROVE ChunkFile(w.img, w.i) \in files'
    <3>1. w.img \in Images /\ w.i \in Nat
      BY DEF AtWork, TypeOK, WriterState
    <3>2. WriterInv(w)
      BY DEF CleanInv
    <3>3. ChunkFile(w.img, w.i) \in files /\ DoneFile(w.img, w.i) \notin files
      BY <2>3, <3>1, <3>2 DEF WriterInv
    <3>4. ChunkFile(w.img, w.i) # ChunkFile(script.img, Awaited)
      BY <2>2, <3>3 DEF ChunkFile, DoneFile
    <3> QED
      BY <2>2, <3>3, <3>4
  <2>4. \A img \in Images : Fresh(img)' => Fresh(img)
    BY <2>1 DEF Fresh
  <2>5. \A img \in Images : OkFile(img) \in files => OkFile(img) \in files'
    BY <2>2 DEF OkFile, ImageFile, ChunkFile
  <2>6. Verdicts'
    BY <2>1, <2>5 DEF CleanInv, Verdicts, Images
  <2>7. files' \subseteq files
    BY <2>2
  <2> QED
    BY <2>1, <2>3, <2>4, <2>6, <2>7, QuietStep DEF AtWork
<1>4. CASE ImageDone
  <2>1. UNCHANGED <<disk, writers, files>> /\ OkFile(script.img) \in files
    BY <1>4 DEF ImageDone, Verdict, OkFile
  <2>2. \/ script.img = "kernel" /\ script'.img = "rootfs" /\ script'.pc = "spawn"
        \/ script.img = "rootfs" /\ script'.img = "rootfs" /\ script'.pc = "switch"
    BY <1>1, <1>4 DEF ImageDone, ScriptState, Images
  <2>3. \A img \in Images : Fresh(img)' => Fresh(img)
    BY <2>2 DEF Fresh
  <2>4. Verdicts'
    BY <2>1, <2>2 DEF CleanInv, Verdicts
  <2>5. \A w \in AtWork : w.pc = "copy" => ChunkFile(w.img, w.i) \in files
    BY DEF CleanInv, WriterInv
  <2> QED
    BY <2>1, <2>3, <2>4, <2>5, QuietStep DEF AtWork
<1>5. CASE Spawn
  <2>0. PICK n : n = [run |-> runs, name |-> script.name, pc |-> "wait", img |-> script.img,
                      slot |-> script.slot, i |-> 1, place |-> 1]
    OBVIOUS
  <2>1. /\ UNCHANGED <<disk, files>> /\ script.pc = "spawn" /\ script'.pc = "fetch"
        /\ script'.img = script.img /\ writers' = writers \cup {n}
    BY <1>1, <1>5, <2>0 DEF Spawn, ScriptState
  <2>2. AtWork' = AtWork \cup {n}
    BY <2>0, <2>1 DEF AtWork
  <2>3. Untouched(script.img)
    BY <1>1, <2>1 DEF CleanInv, Fresh
  <2>4. Chunks[script.img] \in Nat \ {0}
    BY <1>1, OtaAssumption
  <2>5. WriterInv(n)'
    BY <2>0, <2>1, <2>3, <2>4 DEF WriterInv, Untouched
  <2>6. ASSUME NEW w \in AtWork PROVE WriterInv(w)' /\ w.img # n.img
    BY <2>0, <2>1, <2>3 DEF CleanInv, WriterInv, Untouched
  <2>7. ASSUME NEW img \in Images, Fresh(img)' PROVE Untouched(img)'
    <3>1. Fresh(img) /\ img # script.img
      BY <1>1, <2>1, <2>7 DEF Fresh, Images
    <3>2. Untouched(img)
      BY <3>1 DEF CleanInv
    <3> QED
      BY <2>0, <2>1, <2>2, <3>1, <3>2 DEF Untouched
  <2>8. ASSUME NEW img \in Images PROVE Reported(img)'
    <3>1. Reported(img)
      BY DEF CleanInv
    <3> QED
      BY <2>1, <3>1 DEF Reported, Places
  <2>9. Verdicts'
    BY <2>1 DEF CleanInv, Verdicts
  <2>10. \A w1, w2 \in AtWork' : w1.img = w2.img => w1 = w2
    BY <2>2, <2>6 DEF CleanInv
  <2>11. \A w \in AtWork' : WriterInv(w)'
    <3> SUFFICES ASSUME NEW w \in AtWork' PROVE WriterInv(w)'
      OBVIOUS
    <3>1. CASE w = n
      BY <2>5, <3>1
    <3>2. CASE w \in AtWork
      BY <2>6, <3>2
    <3> QED
      BY <2>2, <3>1, <3>2
  <2> QED
    BY <2>7, <2>8, <2>9, <2>10, <2>11 DEF CleanInv
<1>6. CASE FetchFails \/ WaitFails \/ ImageFails \/ SetNextBoot \/ Touch
  BY <1>1, <1>6 DEF FetchFails, WaitFails, GiveUp, ImageFails, SetNextBoot, Touch, Clean, Working, ScriptState
<1> QED
  BY <1>2, <1>3, <1>4, <1>5, <1>6 DEF Script

LEMMA WriterKeepsClean ==
  ASSUME TypeOK, TypeOK', WritersInPlace, CleanInv, Clean, Clean', NEW w \in writers, Write(w),
         script' = script
  PROVE  CleanInv'
<1>1. w \in WriterState /\ w.img \in Images /\ w.i \in Nat /\ w.slot \in Slots
      /\ Chunks[w.img] \in Nat
  BY OtaAssumption DEF TypeOK, WriterState
<1>2. w \in AtWork => WriterInv(w)
  BY DEF CleanInv
<1>3. \A img \in Images : Fresh(img)' <=> Fresh(img)
  BY DEF Fresh
<1>4. ASSUME files \subseteq files', \A img \in Images : OkFile(img) \in files' => OkFile(img) \in files,
             \A img \in Images, j \in Nat : DoneFile(img, j) \in files' => DoneFile(img, j) \in files,
             AtWork' \subseteq AtWork, UNCHANGED disk
      PROVE  CleanInv'
  <2>1. \A d \in AtWork' : d.pc = "copy" => ChunkFile(d.img, d.i) \in files'
    BY <1>4 DEF CleanInv, WriterInv
  <2>2. Verdicts'
    BY <1>4 DEF CleanInv, Verdicts
  <2> QED
    BY <1>3, <1>4, <2>1, <2>2, QuietStep
<1>5. ASSUME Refuse(w), UNCHANGED disk PROVE CleanInv'
  <2>1. files' = files \cup {ImageFile("failed", w.img)} /\ writers' \subseteq writers
    BY <1>5 DEF Refuse, Leave, Put
  <2>2. \A img \in Images : OkFile(img) \in files' => OkFile(img) \in files
    BY <1>1, <2>1, FileNames
  <2>3. \A img \in Images, j \in Nat : DoneFile(img, j) \in files' => DoneFile(img, j) \in files
    BY <1>1, <2>1, FileNames
  <2> QED
    BY <1>4, <1>5, <2>1, <2>2, <2>3 DEF AtWork
<1>6. CASE Close(w)
  <2>1. /\ writers' = writers \ {w} /\ UNCHANGED disk /\ files \subseteq files'
        /\ files' \subseteq files \cup {ImageFile("failed", w.img)}
    BY <1>6 DEF Close, Leave, Put
  <2>2. \A img \in Images : OkFile(img) \in files' => OkFile(img) \in files
    BY <1>1, <2>1, FileNames
  <2>3. \A img \in Images, j \in Nat : DoneFile(img, j) \in files' => DoneFile(img, j) \in files
    BY <1>1, <2>1, FileNames
  <2> QED
    BY <1>4, <2>1, <2>2, <2>3 DEF AtWork
<1>7. CASE Take(w) /\ ~Refuse(w)
  <2> DEFINE n == [w EXCEPT !.pc = "copy"]
  <2>1. /\ writers' = (writers \ {w}) \cup {n} /\ UNCHANGED <<disk, files>>
        /\ ChunkFile(w.img, w.i) \in files /\ w.pc = "wait"
    BY <1>7 DEF Take, ChunkFile
  <2>2. n.pc = "copy" /\ n.img = w.img /\ n.i = w.i /\ n.place = w.place /\ n.slot = w.slot
    BY <1>1 DEF WriterState
  <2>3. AtWork' = (AtWork \ {w}) \cup {n} /\ w \in AtWork
    BY <2>1, <2>2 DEF AtWork
  <2> HIDE DEF n
  <2>4. WriterInv(n)'
    BY <1>2, <2>1, <2>2, <2>3 DEF WriterInv
  <2>5. ASSUME NEW d \in AtWork \ {w} PROVE WriterInv(d)' /\ d.img # w.img
    BY <2>1, <2>3 DEF CleanInv, WriterInv
  <2>6. ASSUME NEW img \in Images PROVE (Fresh(img)' => Untouched(img)') /\ Reported(img)'
    <3>1. (Fresh(img) => Untouched(img)) /\ Reported(img)
      BY DEF CleanInv
    <3>2. Reported(img)'
      BY <2>1, <3>1 DEF Reported, Places
    <3>3. Untouched(img) => Untouched(img)'
      BY <2>1, <2>2, <2>3 DEF Untouched
    <3> QED
      BY <1>3, <3>1, <3>2, <3>3
  <2>7. Verdicts'
    BY <2>1 DEF CleanInv, Verdicts
  <2>8. \A d \in AtWork' : WriterInv(d)'
    BY <2>3, <2>4, <2>5
  <2>9. \A w1, w2 \in AtWork' : w1.img = w2.img => w1 = w2
    BY <2>2, <2>3, <2>5 DEF CleanInv
  <2> QED
    BY <2>6, <2>7, <2>8, <2>9 DEF CleanInv
<1>8. CASE Copy(w)
  <2> DEFINE n == Next_(w, w.place + 1)
  <2>1. w.pc = "copy" /\ w \in AtWork /\ WriterInv(w) /\ w.place = w.i /\ w.slot = script.slot
    BY <1>2, <1>8 DEF Copy, AtWork, WriterInv
  <2>2. /\ writers' = (writers \ {w}) \cup {n}
        /\ files' = files \cup {DoneFile(w.img, w.i)}
        /\ WriteChunk(w, <<script.version, w.i>>)
    BY <1>8 DEF Copy, Done, Put, DoneFile, Next_
  <2>3. w.place \in 1..Chunks[w.img] /\ <<script.version, w.i>> \in Data
    BY <1>1, <2>1 DEF WritersInPlace, TypeOK, ScriptState, Data
  <2>4. /\ disk'[w.slot][w.img][w.i] = <<script.version, w.i>>
        /\ \A slot \in Slots, img \in Images, j \in Nat :
             j # w.i \/ slot # w.slot \/ img # w.img => disk'[slot][img][j] = disk[slot][img][j]
    BY <2>1, <2>2, <2>3, WriteChunkIs
  <2>5. /\ n \in WriterState /\ n.i = w.i + 1 /\ n.place = w.i + 1
        /\ n.img = w.img /\ n.slot = w.slot /\ n.pc \in {"wait", "report"}
        /\ n.pc = "wait" => n.i <= Chunks[n.img]
        /\ n.pc = "report" => n.i = Chunks[n.img] + 1
    BY <1>1, <2>1, NextIs
  <2> HIDE DEF n
  <2>6. AtWork' = (AtWork \ {w}) \cup {n}
    BY <2>2, <2>5 DEF AtWork
  <2>7. /\ \A j \in Nat : DoneFile(w.img, j) \in files' => DoneFile(w.img, j) \in files \/ j = w.i
        /\ \A img \in Images, j \in Nat :
             img # w.img /\ DoneFile(img, j) \in files' => DoneFile(img, j) \in files
        /\ \A img \in Images : OkFile(img) \in files' <=> OkFile(img) \in files
        /\ files \subseteq files'
    BY <1>1, <2>2, FileNames
  <2>8. WriterInv(n)'
    <3>1. \A j \in 1..(n.i - 1) : disk'[n.slot][n.img][j] = <<script.version, j>>
      BY <1>1, <2>1, <2>4, <2>5 DEF WriterInv
    <3>2. \A j \in Nat : DoneFile(n.img, j) \in files' => j < n.i
      BY <1>1, <2>1, <2>5, <2>7 DEF WriterInv
    <3>3. OkFile(n.img) \notin files'
      BY <1>1, <2>1, <2>5, <2>7 DEF WriterInv
    <3>4. n.i \in 1..(Chunks[n.img] + 1)
      BY <1>1, <2>1, <2>5 DEF WriterInv
    <3> QED
      BY <2>1, <2>5, <3>1, <3>2, <3>3, <3>4 DEF WriterInv
  <2>9. ASSUME NEW d \in AtWork \ {w} PROVE WriterInv(d)' /\ d.img # w.img
    <3>1. WriterInv(d) /\ d.img # w.img /\ d.img \in Images /\ d.slot \in Slots /\ d.i \in Nat
      BY <2>1, <2>9 DEF CleanInv, AtWork, TypeOK, WriterState
    <3>2. \A j \in 1..(d.i - 1) : disk'[d.slot][d.img][j] = disk[d.slot][d.img][j]
      BY <2>4, <3>1
    <3> QED
      BY <2>7, <3>1, <3>2 DEF WriterInv
  <2>10. ASSUME NEW img \in Images PROVE (Fresh(img)' => Untouched(img)') /\ Reported(img)'
    <3>1. (Fresh(img) => Untouched(img)) /\ Reported(img)
      BY DEF CleanInv
    <3>2. Reported(img)'
      <4>1. SUFFICES ASSUME OkFile(img) \in files', NEW j \in Places(img)
                     PROVE  disk'[script.slot][img][j] = <<script.version, j>>
        BY DEF Reported, Places
      <4>2. OkFile(img) \in files /\ img # w.img
        BY <2>1, <2>7, <4>1 DEF WriterInv
      <4>3. j \in Nat /\ disk[script.slot][img][j] = <<script.version, j>>
        BY <3>1, <4>1, <4>2 DEF Reported, Places
      <4> QED
        BY <1>1, <2>1, <2>4, <4>2, <4>3
    <3>3. Untouched(img) => Untouched(img)'
      BY <2>1, <2>5, <2>6, <2>7 DEF Untouched
    <3> QED
      BY <1>3, <3>1, <3>2, <3>3
  <2>11. Verdicts'
    BY <2>7 DEF CleanInv, Verdicts
  <2>12. \A d \in AtWork' : WriterInv(d)'
    BY <2>6, <2>8, <2>9
  <2>13. \A w1, w2 \in AtWork' : w1.img = w2.img => w1 = w2
    BY <2>5, <2>6, <2>9 DEF CleanInv
  <2> QED
    BY <2>10, <2>11, <2>12, <2>13 DEF CleanInv
<1>9. CASE Report(w)
  <2> DEFINE n == [w EXCEPT !.pc = "close"]
  <2>1. w \in AtWork /\ WriterInv(w) /\ w.i = Chunks[w.img] + 1 /\ w.slot = script.slot
    BY <1>2, <1>9 DEF Report, AtWork, WriterInv
  <2>2. /\ writers' = (writers \ {w}) \cup {n} /\ UNCHANGED disk
        /\ files' = files \cup {OkFile(w.img)}
    BY <1>9 DEF Report, Put, OkFile
  <2>3. n.pc = "close"
    BY <1>1 DEF WriterState
  <2> HIDE DEF n
  <2>4. AtWork' = AtWork \ {w}
    BY <2>2, <2>3 DEF AtWork
  <2>5. /\ \A img \in Images, j \in Nat : DoneFile(img, j) \in files' => DoneFile(img, j) \in files
        /\ \A img \in Images : img # w.img /\ OkFile(img) \in files' => OkFile(img) \in files
        /\ files \subseteq files'
    BY <1>1, <2>2, FileNames
  <2>6. ASSUME NEW d \in AtWork \ {w} PROVE WriterInv(d)'
    <3>1. WriterInv(d) /\ d.img # w.img /\ d.img \in Images
      BY <2>1, <2>6 DEF CleanInv, AtWork, TypeOK, WriterState
    <3> QED
      BY <2>2, <2>5, <3>1 DEF WriterInv
  <2>7. ASSUME NEW img \in Images PROVE (Fresh(img)' => Untouched(img)') /\ Reported(img)'
    <3>1. (Fresh(img) => Untouched(img)) /\ Reported(img)
      BY DEF CleanInv
    <3>2. CASE img = w.img
      <4>1. \A j \in Places(img) : disk[script.slot][img][j] = <<script.version, j>>
        BY <1>1, <2>1, <3>2 DEF WriterInv, Places
      <4>2. ~Untouched(img)
        BY <2>1, <3>2 DEF Untouched
      <4> QED
        BY <1>3, <2>2, <3>1, <4>1, <4>2 DEF Reported, Places
    <3>3. CASE img # w.img
      <4>1. Reported(img)'
        BY <2>2, <2>5, <3>1, <3>3 DEF Reported, Places
      <4>2. Untouched(img) => Untouched(img)'
        BY <2>4, <2>5, <3>3 DEF Untouched
      <4> QED
        BY <1>3, <3>1, <4>1, <4>2
    <3> QED
      BY <3>2, <3>3
  <2>8. Verdicts'
    BY <2>5 DEF CleanInv, Verdicts
  <2>9. \A d \in AtWork' : WriterInv(d)'
    BY <2>4, <2>6
  <2>10. \A w1, w2 \in AtWork' : w1.img = w2.img => w1 = w2
    BY <2>4 DEF CleanInv
  <2> QED
    BY <2>7, <2>8, <2>9, <2>10 DEF CleanInv
<1>10. ~CopyFails(w)
  BY <1>1, <1>2 DEF CopyFails, Spoil, Clean, AtWork, WriterInv, TypeOK
<1>11. ~CopyNothing(w)
  BY <1>2 DEF CopyNothing, AtWork, WriterInv, IsThere, ChunkFile
<1>12. CASE CannotOpen(w) \/ Quit(w) \/ (Take(w) /\ Refuse(w))
  BY <1>5, <1>12 DEF CannotOpen, Quit, Take
<1> QED
  BY <1>6, <1>7, <1>8, <1>9, <1>10, <1>11, <1>12 DEF Write

LEMMA CleanStep ==
  ASSUME TypeOK, TypeOK', WritersInPlace, SlotsInv, CleanInv, [Next]_vars
  PROVE  CleanInv'
<1> SUFFICES ASSUME Clean' PROVE CleanInv'
  BY DEF CleanInv
<1>1. ASSUME NEW name \in Scripts, NEW v \in Versions, Start(name, v) PROVE CleanInv'
  <2>1. /\ script'.slot = TargetSlot /\ script'.img = "kernel" /\ script'.pc = "spawn"
        /\ files' = {} /\ UNCHANGED writers /\ spoilt' = [slot \in Slots |-> Doubts(slot)]
    BY <1>1 DEF Start, Emptied
  <2>2. TargetSlot \in Slots
    BY OtherIs DEF TargetSlot, TypeOK
  <2>3. Doubts(TargetSlot) = {}
    BY <2>1, <2>2 DEF Clean
  <2>4. AtWork = {}
    BY <2>3 DEF Doubts, MayMix, AtWork
  <2>5. AtWork' = {}
    BY <2>1, <2>4 DEF AtWork
  <2> QED
    BY <2>1, <2>5 DEF CleanInv, Untouched, Reported, Verdicts
<1>2. CASE ~(\E name \in Scripts, v \in Versions : Start(name, v))
  <2>1. /\ Clean /\ script'.slot = script.slot /\ script'.version = script.version
        /\ ~Boot /\ \A name \in Scripts : ~StartInVain(name)
    BY <1>2, CleanKept
  <2>2. CASE Script
    BY <2>1, <2>2, ScriptKeepsClean
  <2>3. CASE \E w \in writers : Write(w)
    <3>1. PICK w \in writers : Write(w)
      BY <2>3
    <3>2. script' = script
      BY <3>1 DEF Write, CannotOpen, Take, Quit, Copy, CopyFails, CopyNothing, Done, Report, Close
    <3> QED
      BY <2>1, <3>1, <3>2, WriterKeepsClean
  <2>4. CASE UNCHANGED vars
    BY <2>4 DEF vars, CleanInv, Clean, Working, AtWork, WriterInv, Fresh, Untouched, Reported, Verdicts
  <2> QED
    BY <1>2, <2>1, <2>2, <2>3, <2>4 DEF Next
<1> QED
  BY <1>1, <1>2

-----------------------------------------------------------------------------
(* The theorems. *)

\* The inductive invariant, for any images, versions, calls and boots.
THEOREM OtaInvariant == Spec => []OtaInv
<1>1. Init => OtaInv
  <2> SUFFICES ASSUME Init PROVE OtaInv
    OBVIOUS
  <2>1. 0 \in Versions \cup {0} /\ 1 \in Slots /\ 2 \in Slots
    BY DEF Slots
  <2>2. disk \in [Slots -> [Images -> Seq(Data)]]
        /\ \A slot \in Slots, img \in Images : Len(disk[slot][img]) = Chunks[img]
    <3>1. disk[1] = Whole(0) /\ disk[2] = [img \in Images |-> [i \in Places(img) |-> Junk]]
      BY <2>1 DEF Init
    <3>2. ASSUME NEW img \in Images
          PROVE  disk[1][img] \in Seq(Data) /\ Len(disk[1][img]) = Chunks[img]
      BY <2>1, <3>1, Filled
    <3>3. ASSUME NEW img \in Images
          PROVE  disk[2][img] \in Seq(Data) /\ Len(disk[2][img]) = Chunks[img]
      <4>1. disk[2][img] = [i \in Places(img) |-> Junk]
        BY <3>1
      <4> QED
        BY <4>1, Filled
    <3>4. disk[1] \in [Images -> Seq(Data)]
      <4>1. "kernel" \in Images
        BY DEF Images
      <4> QED
        BY <2>1, <3>1, <4>1, Filled
    <3>5. disk[2] \in [Images -> Seq(Data)]
      BY <3>1, Filled
    <3>6. \A slot \in Slots : slot = 1 \/ slot = 2
      BY DEF Slots
    <3>7. disk = [slot \in Slots |-> disk[slot]]
      BY DEF Init
    <3>8. disk \in [Slots -> [Images -> Seq(Data)]]
      BY <3>4, <3>5, <3>6, <3>7
    <3> QED
      BY <3>2, <3>3, <3>6, <3>8
  <2>3. script \in ScriptState
    BY <2>1 DEF Init, Idle, ScriptState, Images
  <2>4. TypeOK /\ WritersInPlace
    BY <2>1, <2>2, <2>3 DEF Init, TypeOK, WritersInPlace
  <2>5. SlotsInv /\ CleanInv
    BY DEF Init, Idle, SlotsInv, CleanInv, Clean, Working, RunningSlotUntouched
  <2>6. MarkedInv
    BY <2>1 DEF Init, MarkedInv, Intact, AtWork
  <2> QED
    BY <2>4, <2>5, <2>6 DEF OtaInv
<1>2. OtaInv /\ [Next]_vars => OtaInv'
  BY TypesStep, SlotsStep, MarkedStep, CleanStep DEF OtaInv
<1> QED
  BY <1>1, <1>2, PTL DEF Spec

\* Wherever an update is cut off, the slot that would be booted has two complete
\* images of one version, but for the doubts BootsWhole names.
THEOREM OtaBootsWhole == Spec => []BootsWhole
<1>1. OtaInv => BootsWhole
  BY DEF OtaInv, MarkedInv, BootsWhole
<1> QED
  BY <1>1, OtaInvariant, PTL

\* The network script's writers never write to the running system.
THEOREM OtaRunningUntouched == Spec => []RunningSlotUntouched
<1>1. OtaInv => RunningSlotUntouched
  BY DEF OtaInv, SlotsInv
<1> QED
  BY <1>1, OtaInvariant, PTL
=============================================================================
