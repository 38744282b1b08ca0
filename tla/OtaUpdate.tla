----------------------------- MODULE OtaUpdate -----------------------------
(***************************************************************************)
(* Updating the operating system: etc/ota_bin of the root file system,     *)
(* with network_ota_update.sh or local_ota_update.sh as the script that    *)
(* fetches the images chunk by chunk, and ota_img_data_provider.sh, under  *)
(* ota_update_kernel.sh or ota_update_rootfs_squashfs.sh, as the writer in *)
(* the background that copies them to a partition.                         *)
(*                                                                         *)
(* There are two slots, each a kernel and a rootfs partition; the ota      *)
(* partition holds the marker that names the slot to boot.  Script and     *)
(* writer talk by empty files in /tmp/ota, which is gone after a boot.     *)
(*                                                                         *)
(* The package has both images, as the one in the repository.  A value of  *)
(* a partition is the sequence of the chunks it holds.  Boot loader, power *)
(* and the server are external.                                            *)
(***************************************************************************)
EXTENDS Integers, Sequences

CONSTANTS
  Chunks,     \* [kernel, rootfs]: how many chunks an image has
  Versions,   \* versions the server may offer; the device starts with 0
  Scripts,    \* which of "network" and "local" are called
  MaxRuns,    \* bound: calls of the scripts
  MaxBoots    \* bound: boots

Images == {"kernel", "rootfs"}
Slots == {1, 2}
Other(slot) == 3 - slot

ASSUME OtaAssumption ==
  /\ Chunks \in [Images -> Nat \ {0}]
  /\ Versions \subseteq Nat \ {0} /\ Scripts \subseteq {"network", "local"}
  /\ MaxRuns \in Nat /\ MaxBoots \in Nat

VARIABLES
  disk,       \* the chunk at each place of each partition, <<version, number>>
  marker,     \* the slot named in the ota partition
  running,    \* the slot of the running system
  version,    \* its /etc/ota_info
  boot_set,   \* /tmp/ota_boot_set exists
  files,      \* /tmp/ota: <<what, image, number of the chunk>>, 0 when of the image
  script,     \* where the script is; name, version, slot and chunk it works on
  writers,    \* the writers that run: run, image, slot, next chunk, place written
  spoilt,     \* history: what may have gone wrong with the data of a slot
  runs, boots

vars == <<disk, marker, running, version, boot_set, files, script, writers, spoilt, runs, boots>>

Places(img) == 1..Chunks[img]
Junk == <<0, 0>>

Whole(v) == [img \in Images |-> [i \in Places(img) |-> <<v, i>>]]
Intact(slot) == \E v \in Versions \cup {0} : disk[slot] = Whole(v)

Idle == [pc |-> "idle", name |-> "network", version |-> 0, slot |-> 2, img |-> "kernel", i |-> 1]

Put(names) == files' = files \cup names
ImageFile(what, img) == <<what, img, 0>>

(***************************************************************************)
(* The script, from its first line to the first image.  The network script *)
(* refuses to run once the next boot is set.  /tmp/ota is emptied; versions*)
(* are compared; the partitions are those the marker does not name.        *)
(***************************************************************************)
\* mutant: the partitions in use
CurrentSlot == marker

TargetSlot == Other(marker)

\* mutant: the question is not asked
MayRunAgain(name) == TRUE

MayRun(name) == name = "network" => ~boot_set

Newer(v) == v > version

\* a writer of an earlier call may still come, with data for the slot or, whatever
\* its slot is, with files that are taken for those of the new writer
MayMix(slot) == \E w \in writers : w.pc # "close" /\ (w.slot = slot \/ slot = TargetSlot)

\* The doubts about a slot's data end when all of it is to be written anew.
Doubts(slot) ==
  IF MayMix(slot) THEN spoilt[slot] \cup {"second writer"}
  ELSE IF slot = TargetSlot THEN {} ELSE spoilt[slot]

\* mutant: what an earlier call has left in /tmp/ota stays
Kept == files

Emptied == {}

Start(name, v) ==
  /\ script.pc = "idle" /\ runs < MaxRuns /\ MayRun(name) /\ Newer(v)
  /\ script' = [pc |-> "spawn", name |-> name, version |-> v, slot |-> TargetSlot,
                img |-> "kernel", i |-> 1]
  /\ files' = Emptied
  /\ spoilt' = [slot \in Slots |-> Doubts(slot)]
  /\ runs' = runs + 1
  /\ UNCHANGED <<disk, marker, running, version, boot_set, writers, boots>>

\* There is no newer package, or it is not to be had: /tmp/ota has been emptied.
StartInVain(name) ==
  /\ script.pc = "idle" /\ runs < MaxRuns /\ MayRun(name)
  /\ files' = Emptied
  /\ spoilt' = [slot \in Slots |-> spoilt[slot] \cup (IF MayMix(slot) THEN {"second writer"} ELSE {})]
  /\ runs' = runs + 1
  /\ UNCHANGED <<disk, marker, running, version, boot_set, script, writers, boots>>

\* the writer is started in the background
Spawn ==
  /\ script.pc = "spawn"
  /\ writers' = writers \cup {[run |-> runs, name |-> script.name, pc |-> "wait", img |-> script.img,
                               slot |-> script.slot, i |-> 1, place |-> 1]}
  /\ script' = [script EXCEPT !.pc = "fetch", !.i = 1]
  /\ UNCHANGED <<disk, marker, running, version, boot_set, files, spoilt, runs, boots>>

(***************************************************************************)
(* download_ota_img: a chunk is fetched while the one before is copied; its*)
(* file is removed when the writer has done with it.                       *)
(***************************************************************************)
LastChunk == script.i = Chunks[script.img]

\* chunk i is fetched and the ones before are copied
Proceed == IF LastChunk THEN [script EXCEPT !.pc = "last"]
           ELSE [script EXCEPT !.pc = "fetch", !.i = @ + 1]

Fetched ==
  /\ script.pc = "fetch"
  /\ Put({<<"chunk", script.img, script.i>>, <<"ready", script.img, script.i>>})
  /\ script' = IF script.i = 1 THEN Proceed ELSE [script EXCEPT !.pc = "await"]
  /\ UNCHANGED <<disk, marker, running, version, boot_set, writers, spoilt, runs, boots>>

Awaited == IF script.pc = "last" THEN script.i ELSE script.i - 1
IsDone == <<"done", script.img, Awaited>> \in files

Copied ==
  /\ script.pc \in {"await", "last"} /\ IsDone
  /\ files' = files \ {<<"chunk", script.img, Awaited>>}
  /\ script' = IF script.pc = "last" THEN [script EXCEPT !.pc = "result"] ELSE Proceed
  /\ UNCHANGED <<disk, marker, running, version, boot_set, writers, spoilt, runs, boots>>

\* mutant: the writer is not told
GiveUpQuietly ==
  /\ script' = [script EXCEPT !.pc = "idle"]
  /\ UNCHANGED <<files, disk, marker, running, version, boot_set, writers, spoilt, runs, boots>>

GiveUp ==
  /\ script' = [script EXCEPT !.pc = "idle"]
  /\ Put({ImageFile("quit", script.img)})
  /\ UNCHANGED <<disk, marker, running, version, boot_set, writers, spoilt, runs, boots>>

\* the chunk, or its right checksum, could not be had
FetchFails == script.pc = "fetch" /\ GiveUp

\* mutant: the wait for a copied chunk has no limit
WaitForEver == FALSE

\* wait_file looks a thousand times
WaitFails == script.pc \in {"await", "last"} /\ ~IsDone /\ GiveUp

(***************************************************************************)
(* After the last chunk the script looks for the writer's verdict.         *)
(***************************************************************************)
Verdict(what) == ImageFile(what, script.img) \in files

ImageDone ==
  /\ script.pc = "result" /\ Verdict("ok")
  /\ script' = IF script.img = "kernel" THEN [script EXCEPT !.pc = "spawn", !.img = "rootfs"]
               ELSE [script EXCEPT !.pc = "switch"]
  /\ UNCHANGED <<disk, marker, running, version, boot_set, files, writers, spoilt, runs, boots>>

\* it failed, or there is no verdict after a thousand looks
ImageFails ==
  /\ script.pc = "result" /\ ~Verdict("ok")
  /\ script' = [script EXCEPT !.pc = "idle"]
  /\ UNCHANGED <<disk, marker, running, version, boot_set, files, writers, spoilt, runs, boots>>

\* local_set_next_boot_device: the marker is read once more, and turned; if it cannot
\* be read or written it stays, and the script, which does not ask, goes on as before
SetNextBoot ==
  /\ script.pc = "switch"
  /\ marker' \in {Other(marker), marker}
  /\ script' = [script EXCEPT !.pc = "touch"]
  /\ UNCHANGED <<disk, running, version, boot_set, files, writers, spoilt, runs, boots>>

Touch ==
  /\ script.pc = "touch"
  /\ boot_set' = TRUE
  /\ script' = [script EXCEPT !.pc = "idle"]
  /\ UNCHANGED <<disk, marker, running, version, files, writers, spoilt, runs, boots>>

(***************************************************************************)
(* The writer.                                                             *)
(***************************************************************************)
Leave(w, names) == writers' = writers \ {w} /\ Put(names)

Refuse(w) == Leave(w, {ImageFile("failed", w.img)})

\* the partition cannot be opened: the provider is not even started
CannotOpen(w) ==
  /\ w.pc = "wait" /\ w.i = 1
  /\ Refuse(w)
  /\ UNCHANGED <<disk, marker, running, version, boot_set, script, spoilt, runs, boots>>

\* the next chunk is announced
Take(w) ==
  /\ w.pc = "wait" /\ <<"ready", w.img, w.i>> \in files
  /\ IF <<"chunk", w.img, w.i>> \in files
     THEN writers' = (writers \ {w}) \cup {[w EXCEPT !.pc = "copy"]} /\ UNCHANGED files
     ELSE Refuse(w)
  /\ UNCHANGED <<disk, marker, running, version, boot_set, script, spoilt, runs, boots>>

Quit(w) ==
  /\ w.pc = "wait" /\ <<"ready", w.img, w.i>> \notin files /\ ImageFile("quit", w.img) \in files
  /\ Refuse(w)
  /\ UNCHANGED <<disk, marker, running, version, boot_set, script, spoilt, runs, boots>>

AllCopied(w) == w.i = Chunks[w.img]

\* however cat has ended, the chunk counts as done
Done(w, place) ==
  /\ Put({<<"done", w.img, w.i>>})
  /\ writers' = (writers \ {w}) \cup
       {[w EXCEPT !.pc = IF AllCopied(w) THEN "report" ELSE "wait", !.i = @ + 1, !.place = place]}
  /\ UNCHANGED <<marker, running, version, boot_set, script, runs, boots>>

IsThere(w) == <<"chunk", w.img, w.i>> \in files
WriteChunk(w, what) == disk' = [disk EXCEPT ![w.slot][w.img][w.place] = what]
Spoil(slot, how) == spoilt' = [spoilt EXCEPT ![slot] = @ \cup {how}]

Copy(w) ==
  /\ w.pc = "copy" /\ IsThere(w)
  /\ WriteChunk(w, <<script.version, w.i>>) /\ UNCHANGED spoilt
  /\ Done(w, w.place + 1)

\* the partition cannot be written; nobody looks at the status of cat
CopyFails(w) ==
  /\ w.pc = "copy" /\ IsThere(w)
  /\ WriteChunk(w, Junk) /\ Spoil(w.slot, "write error")
  /\ Done(w, w.place + 1)

\* the file has just been removed: nothing is written
CopyNothing(w) ==
  /\ w.pc = "copy" /\ ~IsThere(w)
  /\ UNCHANGED <<disk, spoilt>>
  /\ Done(w, w.place)

\* set_write_ok
Report(w) ==
  /\ w.pc = "report"
  /\ Put({ImageFile("ok", w.img)})
  /\ writers' = (writers \ {w}) \cup {[w EXCEPT !.pc = "close"]}
  /\ UNCHANGED <<disk, marker, running, version, boot_set, script, spoilt, runs, boots>>

\* the partition is closed, and what was written reaches the medium; the report is
\* looked for, and a failure is noted if it has gone (a later call has removed it)
HasReport(w) == \E what \in {"ok", "failed"} : ImageFile(what, w.img) \in files

Close(w) ==
  /\ w.pc = "close"
  /\ Leave(w, IF HasReport(w) THEN {} ELSE {ImageFile("failed", w.img)})
  /\ UNCHANGED <<disk, marker, running, version, boot_set, script, spoilt, runs, boots>>

(***************************************************************************)
(* A boot at any time.  What a writer has not closed may be lost.          *)
(***************************************************************************)
Boot ==
  /\ boots < MaxBoots /\ boots' = boots + 1
  /\ \E lost \in SUBSET writers :
       LET Lost(slot, img) == \E w \in lost : w.slot = slot /\ w.img = img IN
       /\ disk' = [slot \in Slots |-> [img \in Images |->
                     IF Lost(slot, img) THEN [i \in Places(img) |-> Junk] ELSE disk[slot][img]]]
       /\ spoilt' = [slot \in Slots |-> spoilt[slot] \cup
                       (IF \E img \in Images : Lost(slot, img) THEN {"power cut"} ELSE {})]
       /\ version' = disk'[marker]["rootfs"][1][1]
  /\ running' = marker
  /\ boot_set' = FALSE /\ files' = {} /\ writers' = {} /\ script' = Idle
  /\ UNCHANGED <<marker, runs>>

Init ==
  /\ disk = [slot \in Slots |-> IF slot = 1 THEN Whole(0)
                                ELSE [img \in Images |-> [i \in Places(img) |-> Junk]]]
  /\ marker = 1 /\ running = 1 /\ version = 0
  /\ boot_set = FALSE /\ files = {} /\ script = Idle /\ writers = {}
  /\ spoilt = [slot \in Slots |-> {}] /\ runs = 0 /\ boots = 0

Script ==
  \/ Spawn \/ Fetched \/ Copied \/ FetchFails \/ WaitFails
  \/ ImageDone \/ ImageFails \/ SetNextBoot \/ Touch

Write(w) ==
  \/ CannotOpen(w) \/ Take(w) \/ Quit(w) \/ Copy(w) \/ CopyFails(w) \/ CopyNothing(w)
  \/ Report(w) \/ Close(w)

Next ==
  \/ \E name \in Scripts : StartInVain(name) \/ \E v \in Versions : Start(name, v)
  \/ Script
  \/ \E w \in writers : Write(w)
  \/ Boot

Spec == Init /\ [][Next]_vars

\* A script that runs goes on, and so do the writers.  Nobody has to start one.
Fairness == WF_vars(Script) /\ WF_vars(\E w \in writers : Write(w))

FairSpec == Spec /\ Fairness

(***************************************************************************)
(* Properties.                                                             *)
(***************************************************************************)
Data == (Versions \cup {0}) \X Nat
ScriptState ==
  [pc : {"idle", "spawn", "fetch", "await", "last", "result", "switch", "touch"},
   name : {"network", "local"}, version : Versions \cup {0}, slot : Slots, img : Images, i : Nat]
WriterState ==
  [run : Nat, name : {"network", "local"}, pc : {"wait", "copy", "report", "close"},
   img : Images, slot : Slots, i : Nat, place : Nat]

TypeOK ==
  /\ disk \in [Slots -> [Images -> Seq(Data)]]
  /\ \A slot \in Slots, img \in Images : Len(disk[slot][img]) = Chunks[img]
  /\ {marker, running} \subseteq Slots /\ version \in Versions \cup {0} /\ boot_set \in BOOLEAN
  /\ script \in ScriptState /\ writers \subseteq WriterState
  /\ spoilt \in [Slots -> SUBSET {"second writer", "write error", "power cut"}]
  /\ runs \in Nat /\ boots \in Nat

\* At every moment the slot the device would boot holds two complete images of
\* one version, wherever an update was cut off or failed.  It cannot be said of
\* a slot where a write failed unnoticed, where a writer of an earlier call was
\* still at work, or that lost power before its writer closed it.
BootsWhole == spoilt[marker] = {} => Intact(marker)

\* network_ota_update.sh never writes to the partitions of the running system:
\* /tmp/ota_boot_set keeps it from running between a switch and the boot.
RunningSlotUntouched == \A w \in writers : w.name = "network" => w.slot # running

\* A writer does not stay behind when its script has ended, unless the next
\* call removes the message that tells it to quit.
WritersLeave ==
  writers # {} ~> (writers = {} \/ \E slot \in Slots : "second writer" \in spoilt[slot])

\* A script comes to an end whatever the writer does.
ScriptEnds == script.pc # "idle" ~> script.pc = "idle"
=============================================================================
