----------------------------- MODULE BootLoader -----------------------------
(***************************************************************************)
(* The boot loader, apps/bootloader/src/main.c on core/lib/bootloader:     *)
(* the running application downloads an image into a file and resets; the  *)
(* boot loader copies a valid file into the internal flash, removes it and *)
(* resets again, or starts the application that is in the flash.           *)
(*                                                                         *)
(* The power may fail at any step, the flash and the file system may fail  *)
(* an operation.  A block is what dfs_copy moves at once, the header is in *)
(* the first block of an image, and the checksum tells an image whose      *)
(* blocks are all of one version from everything else.  A write programs   *)
(* an erased block: what it leaves in another one is junk, if it succeeds. *)
(***************************************************************************)
EXTENDS Naturals

CONSTANTS
  Versions,      \* the images there are
  Blank, Junk,   \* an erased block, and one with anything else
  Blocks,        \* blocks of the active area
  Sectors,       \* NUM_ACTIVE_SECTORS
  Sector,        \* Sector[b]: the sector of block b
  Size           \* Size[v]: fw_size of image v, in blocks

ASSUME AreaAssumption == Blocks \in Nat /\ Sectors \in Nat /\ Sector \in [1 .. Blocks -> 1 .. Sectors]
ASSUME SizeAssumption == Size \in [Versions -> 1 .. Blocks]
ASSUME ContentAssumption == Blank \notin Versions /\ Junk \notin Versions

VARIABLES
  active,     \* active[b]: what block b of the internal flash holds
  file,       \* fw_upgrade.bin: its version, and the blocks written
  pc,         \* the next step of the boot loader, or "app"
  fd_open,    \* dfs_desc[DFS_UPGRADE].fd # -1
  k,          \* ix of dfs_erase, or the block dfs_copy is at
  expected,   \* history: the application that must run next
  fault,      \* history: the flash or the file system failed once
  stable      \* the power does not fail any more

vars == <<active, file, pc, fd_open, k, expected, fault, stable>>

Content == Versions \cup {Blank, Junk}
NoFile == [ver |-> Blank, n |-> 0]
Files == [ver : Versions, n : 0 .. Blocks] \cup {NoFile}

Whole(v) == \A b \in 1 .. Size[v] : active[b] = v
Valid == \E v \in Versions : Whole(v)                   \* dfs_read_header(DFS_ACTIVE)
Complete == file.ver \in Versions /\ file.n = Size[file.ver]  \* dfs_read_header(DFS_UPGRADE)

Init ==
  /\ \E v \in Versions : /\ active = [b \in 1 .. Blocks |-> IF b <= Size[v] THEN v ELSE Blank]
                         /\ expected = v
  /\ file = NoFile
  /\ pc = "boot"
  /\ fd_open = FALSE
  /\ k = 1
  /\ fault = FALSE
  /\ stable \in BOOLEAN

Fails == fault' = TRUE
Works == fault' = fault
-----------------------------------------------------------------------------
(* Mutant of OpenUpgrade: an application in the flash comes first. *)
OpenActiveFirst ==
  /\ pc = "boot"
  /\ pc' = IF Complete /\ ~Valid THEN "copy" ELSE "active"
  /\ fd_open' = FALSE
  /\ UNCHANGED <<active, file, k, expected, fault, stable>>

(* main: dfs_open(DFS_UPGRADE) and dfs_close, or on to DFS_ACTIVE.  A good *)
(* file that cannot be read counts as none.                                *)
OpenUpgrade ==
  /\ pc = "boot"
  /\ \/ Complete /\ pc' = "copy" /\ Works
     \/ ~Complete /\ pc' = "active" /\ Works
     \/ Complete /\ pc' = "active" /\ Fails
  /\ fd_open' = FALSE
  /\ UNCHANGED <<active, file, k, expected, stable>>

(* Mutant of OpenActive: only the magic in the header is looked at. *)
OpenActiveByMagic ==
  /\ pc = "active"
  /\ pc' = IF \E v \in Versions : active[1] = v THEN "app" ELSE "error"
  /\ UNCHANGED <<active, file, fd_open, k, expected, fault, stable>>

(* main: run the application, or the endless error loop. *)
OpenActive ==
  /\ pc = "active"
  /\ pc' = IF Valid THEN "app" ELSE "error"
  /\ UNCHANGED <<active, file, fd_open, k, expected, fault, stable>>

(* dfs_copy opens the file once more; the descriptor stays open. *)
OpenSource ==
  /\ pc = "copy"
  /\ \/ Complete /\ pc' = "erase" /\ fd_open' = TRUE /\ Works
     \/ Complete /\ pc' = "close" /\ fd_open' = FALSE /\ Fails
  /\ k' = 1
  /\ UNCHANGED <<active, file, expected, stable>>

SetSector(s, x) == active' = [b \in 1 .. Blocks |-> IF Sector[b] = s THEN x ELSE active[b]]

(* Mutant of EraseSector: one sector too many. *)
EraseOneMore ==
  /\ pc = "erase" /\ k <= Sectors + 1
  /\ SetSector(k, Blank) /\ Works
  /\ k' = k + 1
  /\ UNCHANGED <<file, pc, fd_open, expected, stable>>

(* dfs_erase(DFS_ACTIVE): the result of hal_flash_erase is not looked at. *)
EraseSector ==
  /\ pc = "erase" /\ k <= Sectors
  /\ \/ SetSector(k, Blank) /\ Works
     \/ SetSector(k, Junk) /\ Fails
     \/ active' = active /\ Fails
  /\ k' = k + 1
  /\ UNCHANGED <<file, pc, fd_open, expected, stable>>

EraseDone ==
  /\ pc = "erase" /\ k > Sectors
  /\ pc' = "block"
  /\ k' = 1
  /\ UNCHANGED <<active, file, fd_open, expected, fault, stable>>

(* dfs_copy: read and write a block.  On a block that is not erased the    *)
(* write may also report success.                                          *)
CopyBlock ==
  /\ pc = "block" /\ k <= Size[file.ver]
  /\ \/ /\ active[k] = Blank /\ active' = [active EXCEPT ![k] = file.ver]
        /\ k' = k + 1 /\ pc' = pc /\ Works
     \/ /\ active[k] # Blank /\ active' = [active EXCEPT ![k] = Junk]
        /\ k' = k + 1 /\ pc' = pc /\ Works
     \/ /\ \E x \in {active[k], Junk} : active' = [active EXCEPT ![k] = x]
        /\ k' = k /\ pc' = "close" /\ Fails
  /\ UNCHANGED <<file, fd_open, expected, stable>>

(* Mutant of CopyDone: the last block, which may be shorter, is left out. *)
CopyDoneEarly ==
  /\ pc = "block" /\ k >= Size[file.ver]
  /\ pc' = "close"
  /\ UNCHANGED <<active, file, fd_open, k, expected, fault, stable>>

CopyDone ==
  /\ pc = "block" /\ k > Size[file.ver]
  /\ pc' = "close"
  /\ UNCHANGED <<active, file, fd_open, k, expected, fault, stable>>

(* Mutant of CloseFiles: the source stays open. *)
CloseTargetOnly ==
  /\ pc = "close"
  /\ pc' = "remove"
  /\ UNCHANGED <<active, file, fd_open, k, expected, fault, stable>>

CloseFiles ==
  /\ pc = "close"
  /\ fd_open' = FALSE
  /\ pc' = "remove"
  /\ UNCHANGED <<active, file, k, expected, fault, stable>>

(* main: the file is removed whether it was copied or not, and the device  *)
(* reset.  uffs_remove refuses a file that is open; nobody looks.          *)
Remove ==
  /\ pc = "remove"
  /\ \/ ~fd_open /\ file' = NoFile /\ Works
     \/ fd_open /\ file' = file /\ Works
     \/ file' = file /\ Fails
  /\ pc' = "boot"
  /\ fd_open' = FALSE
  /\ UNCHANGED <<active, k, expected, stable>>

BootLoader == \/ OpenUpgrade \/ OpenActive \/ OpenSource \/ EraseSector \/ EraseDone
              \/ CopyBlock \/ CopyDone \/ CloseFiles \/ Remove
-----------------------------------------------------------------------------
(* The application: dfs_create truncates the file, dfs_write appends.  The *)
(* descriptor it uses is lost with the reset.                              *)
Create ==
  /\ pc = "app"
  /\ \E v \in Versions : file' = [ver |-> v, n |-> 0]
  /\ UNCHANGED <<active, pc, fd_open, k, expected, fault, stable>>

Download ==
  /\ pc = "app"
  /\ file.ver \in Versions /\ file.n < Size[file.ver]
  /\ file' = [file EXCEPT !.n = @ + 1]
  /\ UNCHANGED <<active, pc, fd_open, k, expected, fault, stable>>

(* From here on a complete file is the application to run. *)
Reset ==
  /\ pc = "app"
  /\ pc' = "boot"
  /\ expected' = IF Complete THEN file.ver ELSE expected
  /\ UNCHANGED <<active, file, fd_open, k, fault, stable>>

App == Create \/ Download \/ Reset
-----------------------------------------------------------------------------
(* The power fails while the boot loader runs: what was being written may  *)
(* be done, half done or not begun; the RAM is lost.                       *)
Torn ==
  \/ UNCHANGED <<active, file>>
  \/ pc = "erase" /\ k <= Sectors /\ SetSector(k, Junk) /\ file' = file
  \/ /\ pc = "block" /\ k <= Size[file.ver]
     /\ active' = [active EXCEPT ![k] = Junk] /\ file' = file
  \/ pc = "remove" /\ file' = [file EXCEPT !.n = 0] /\ active' = active

PowerFail ==
  /\ ~stable
  /\ pc # "app"
  /\ Torn
  /\ pc' = "boot"
  /\ fd_open' = FALSE
  /\ UNCHANGED <<k, expected, fault, stable>>

PowerGood == ~stable /\ stable' = TRUE /\ UNCHANGED <<active, file, pc, fd_open, k, expected, fault>>

Next == BootLoader \/ App \/ PowerFail \/ PowerGood

Spec == Init /\ [][Next]_vars /\ WF_vars(BootLoader)
-----------------------------------------------------------------------------
(* The boot loader stays within the sectors and blocks there are.          *)
TypeOK ==
  /\ active \in [1 .. Blocks -> Content]
  /\ file \in Files
  /\ pc \in {"boot", "active", "copy", "erase", "block", "close", "remove", "app", "error"}
  /\ fd_open \in BOOLEAN
  /\ k \in Nat \ {0}
  /\ pc = "erase" => k <= Sectors + 1
  /\ pc \in {"erase", "block"} => file.ver \in Versions
  /\ pc = "block" => k <= Size[file.ver] + 1
  /\ expected \in Versions
  /\ fault \in BOOLEAN /\ stable \in BOOLEAN

(* Wherever the power fails during an upgrade, the flash or the file holds *)
(* a whole image, the one that must run next: main.c erases the flash only *)
(* while the file is complete, and removes the file only after the copy.   *)
(* Only a failing flash can cost both.                                     *)
OneImageGood ==
  fault \/ Whole(expected) \/ (Complete /\ file.ver = expected)

(* An application is started only when its image is whole, also after      *)
(* failed erasures and copies: dfs_copy is trusted by nobody, since main   *)
(* resets and dfs_open(DFS_ACTIVE) checks the flash again.                 *)
StartedWhole == pc = "app" => Valid

(* The application that runs is the one that was completely downloaded     *)
(* before the last reset, or else the one that ran before: an upgrade is   *)
(* neither lost nor half done, however often it was interrupted.           *)
RunsExpected == pc = "app" /\ ~fault => Whole(expected)

(* Once the power is stable the device ends up in the application: an      *)
(* upgrade is not repeated for ever, which it would be if the file could   *)
(* not be removed.                                                         *)
BootsInTheEnd == stable ~> (pc = "app" \/ fault)
=============================================================================
