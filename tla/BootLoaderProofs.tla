-------------------------- MODULE BootLoaderProofs --------------------------
(***************************************************************************)
(* Proofs about BootLoader: an interrupted upgrade costs nothing, for any  *)
(* images, sizes of the flash and number of power failures.                *)
(*                                                                         *)
(* The argument is a table, Progress: what the flash and the file hold at  *)
(* each step of the boot loader as long as no flash operation failed.      *)
(***************************************************************************)
EXTENDS BootLoader, TLAPS

Ready == Complete /\ file.ver = expected

Progress ==
  /\ pc # "error"
  /\ pc = "app" => Whole(expected)
  /\ pc = "boot" => Ready \/ (~Complete /\ Whole(expected))
  /\ pc = "active" => ~Complete /\ Whole(expected)
  /\ pc \in {"copy", "erase", "block"} => Ready
  /\ pc = "erase" => \A b \in 1 .. Blocks : Sector[b] < k => active[b] = Blank
  /\ pc = "block" => \A b \in 1 .. Blocks : active[b] = IF b < k THEN expected ELSE Blank
  /\ pc \in {"close", "remove"} => Ready /\ Whole(expected)

Inv == TypeOK /\ StartedWhole /\ (~fault => Progress)

(* A version is told from Blank and Junk, and its image fits. *)
LEMMA SizeType ==
  ASSUME NEW v \in Versions
  PROVE  Size[v] \in Nat /\ Size[v] >= 1 /\ Size[v] <= Blocks /\ v # Blank /\ v # Junk
BY AreaAssumption, SizeAssumption, ContentAssumption

USE AreaAssumption, SizeAssumption, ContentAssumption

LEMMA InitInv == Init => Inv
<1> SUFFICES ASSUME Init PROVE Inv
  OBVIOUS
<1>1. PICK v \in Versions : /\ active = [b \in 1 .. Blocks |-> IF b <= Size[v] THEN v ELSE Blank]
                            /\ expected = v
  BY DEF Init
<1>2. TypeOK
  <2>1. active \in [1 .. Blocks -> Content]
    BY <1>1 DEF Content
  <2>2. file \in Files /\ expected \in Versions
    BY <1>1 DEF Init, Files
  <2>3. pc = "boot" /\ fd_open \in BOOLEAN /\ k = 1 /\ fault \in BOOLEAN /\ stable \in BOOLEAN
    BY DEF Init
  <2> QED
    BY <2>1, <2>2, <2>3 DEF TypeOK
<1>3. Whole(expected)
  BY <1>1, SizeType DEF Whole
<1>4. ~Complete
  BY DEF Init, NoFile, Complete
<1> QED
  BY <1>2, <1>3, <1>4 DEF Init, Inv, StartedWhole, Progress

LEMMA OpenUpgradeInv == Inv /\ OpenUpgrade => Inv'
<1> SUFFICES ASSUME Inv, OpenUpgrade PROVE Inv'
  OBVIOUS
<1>1. TypeOK'
  BY DEF Inv, TypeOK, OpenUpgrade, Works, Fails
<1>2. ~fault' => Progress'
  BY DEF Inv, Progress, Ready, Complete, Whole, OpenUpgrade, Works, Fails
<1> QED
  BY <1>1, <1>2 DEF Inv, OpenUpgrade, StartedWhole

LEMMA OpenActiveInv == Inv /\ OpenActive => Inv'
<1> SUFFICES ASSUME Inv, OpenActive PROVE Inv'
  OBVIOUS
<1>1. TypeOK'
  BY DEF Inv, TypeOK, OpenActive
<1>2. StartedWhole'
  BY DEF OpenActive, StartedWhole, Valid, Whole
<1>3. ASSUME ~fault' PROVE Progress'
  <2>1. ~fault /\ pc = "active" /\ Whole(expected) /\ expected \in Versions
    BY <1>3 DEF Inv, Progress, OpenActive, TypeOK
  <2>2. Valid
    BY <2>1 DEF Valid
  <2> QED
    BY <2>1, <2>2 DEF OpenActive, Progress, Whole
<1> QED
  BY <1>1, <1>2, <1>3 DEF Inv

LEMMA OpenSourceInv == Inv /\ OpenSource => Inv'
<1> SUFFICES ASSUME Inv, OpenSource PROVE Inv'
  OBVIOUS
<1>1. TypeOK'
  <2>1. pc' \in {"erase", "close"} /\ file.ver \in Versions /\ k' = 1 /\ fd_open' \in BOOLEAN
    BY DEF OpenSource, Complete
  <2>2. 1 <= Sectors + 1
    OBVIOUS
  <2>3. fault' \in BOOLEAN
    BY DEF Inv, TypeOK, OpenSource, Works, Fails
  <2>4. UNCHANGED <<active, file, expected, stable>>
    BY DEF OpenSource
  <2> QED
    BY <2>1, <2>2, <2>3, <2>4 DEF Inv, TypeOK
<1>2. ~fault' => Progress'
  BY DEF Inv, Progress, Ready, Complete, OpenSource, Works, Fails
<1> QED
  BY <1>1, <1>2 DEF Inv, OpenSource, StartedWhole

LEMMA EraseSectorInv == Inv /\ EraseSector => Inv'
<1> SUFFICES ASSUME Inv, EraseSector PROVE Inv'
  OBVIOUS
<1>1. TypeOK'
  <2>1. active' \in [1 .. Blocks -> Content]
    BY DEF Inv, TypeOK, EraseSector, SetSector, Content
  <2>2. k' \in Nat \ {0} /\ k' <= Sectors + 1
    BY DEF Inv, TypeOK, EraseSector
  <2>3. fault' \in BOOLEAN
    BY DEF Inv, TypeOK, EraseSector, Works, Fails
  <2>4. pc = "erase" /\ UNCHANGED <<file, pc, fd_open, expected, stable>>
    BY DEF EraseSector
  <2> QED
    BY <2>1, <2>2, <2>3, <2>4 DEF Inv, TypeOK
<1>2. ASSUME ~fault' PROVE Progress'
  <2>1. ~fault /\ pc = "erase" /\ pc' = "erase" /\ Ready /\ SetSector(k, Blank) /\ k \in Nat
    BY <1>2 DEF Inv, Progress, EraseSector, Works, Fails, TypeOK
  <2>2. Ready'
    BY <2>1 DEF Ready, Complete, EraseSector
  <2>3. \A b \in 1 .. Blocks : Sector[b] < k' => active'[b] = Blank
    BY <2>1 DEF Inv, Progress, EraseSector, SetSector
  <2> QED
    BY <2>1, <2>2, <2>3 DEF Progress
<1> QED
  BY <1>1, <1>2 DEF Inv, EraseSector, StartedWhole

LEMMA EraseDoneInv == Inv /\ EraseDone => Inv'
<1> SUFFICES ASSUME Inv, EraseDone PROVE Inv'
  OBVIOUS
<1>1. TypeOK'
  BY SizeType DEF Inv, TypeOK, EraseDone
<1>2. ASSUME ~fault' PROVE Progress'
  <2>1. ~fault /\ pc = "erase" /\ Ready /\ k \in Nat /\ k > Sectors
    BY <1>2 DEF Inv, Progress, EraseDone, TypeOK
  <2>2. \A b \in 1 .. Blocks : active[b] = Blank
    BY <2>1 DEF Inv, Progress
  <2> QED
    BY <2>1, <2>2 DEF EraseDone, Progress, Ready, Complete
<1> QED
  BY <1>1, <1>2 DEF Inv, EraseDone, StartedWhole

LEMMA CopyBlockInv == Inv /\ CopyBlock => Inv'
<1> SUFFICES ASSUME Inv, CopyBlock PROVE Inv'
  OBVIOUS
<1>1. /\ pc = "block" /\ file.ver \in Versions /\ k \in Nat /\ k >= 1
      /\ k <= Size[file.ver] /\ k \in 1 .. Blocks
  BY SizeType DEF Inv, TypeOK, CopyBlock
<1>2. TypeOK'
  <2>1. active' \in [1 .. Blocks -> Content]
    BY <1>1 DEF Inv, TypeOK, CopyBlock, Content
  <2>2. Size[file.ver] \in Nat /\ k' \in Nat \ {0} /\ k' <= Size[file.ver] + 1
    BY <1>1, SizeType DEF CopyBlock
  <2> QED
    BY <1>1, <2>1, <2>2 DEF Inv, TypeOK, CopyBlock, Works, Fails
<1>3. ASSUME ~fault' PROVE Progress'
  <2>1. /\ ~fault /\ pc' = "block" /\ Ready /\ active[k] = Blank
        /\ active' = [active EXCEPT ![k] = file.ver] /\ k' = k + 1
    BY <1>1, <1>3 DEF Inv, Progress, CopyBlock, Works, Fails
  <2>2. Ready'
    BY <2>1 DEF Ready, Complete, CopyBlock
  <2>3. \A b \in 1 .. Blocks : active'[b] = IF b < k' THEN expected' ELSE Blank
    BY <1>1, <2>1 DEF Inv, TypeOK, Progress, Ready, CopyBlock
  <2> QED
    BY <2>1, <2>2, <2>3 DEF Progress
<1> QED
  BY <1>1, <1>2, <1>3 DEF Inv, CopyBlock, StartedWhole

LEMMA CopyDoneInv == Inv /\ CopyDone => Inv'
<1> SUFFICES ASSUME Inv, CopyDone PROVE Inv'
  OBVIOUS
<1>1. TypeOK'
  BY DEF Inv, TypeOK, CopyDone
<1>2. ASSUME ~fault' PROVE Progress'
  <2>1. /\ ~fault /\ pc = "block" /\ Ready /\ k \in Nat /\ k > Size[expected]
        /\ expected \in Versions
    BY <1>2 DEF Inv, Progress, Ready, CopyDone, TypeOK
  <2>2. Whole(expected)
    BY <2>1, SizeType DEF Inv, Progress, Whole
  <2> QED
    BY <2>1, <2>2 DEF CopyDone, Progress, Ready, Complete, Whole
<1> QED
  BY <1>1, <1>2 DEF Inv, CopyDone, StartedWhole

LEMMA CloseFilesInv == Inv /\ CloseFiles => Inv'
<1> SUFFICES ASSUME Inv, CloseFiles PROVE Inv'
  OBVIOUS
<1>1. TypeOK'
  BY DEF Inv, TypeOK, CloseFiles
<1>2. ~fault' => Progress'
  BY DEF Inv, CloseFiles, Progress, Ready, Complete, Whole
<1> QED
  BY <1>1, <1>2 DEF Inv, CloseFiles, StartedWhole

LEMMA RemoveInv == Inv /\ Remove => Inv'
<1> SUFFICES ASSUME Inv, Remove PROVE Inv'
  OBVIOUS
<1>1. TypeOK'
  BY DEF Inv, TypeOK, Remove, Files, Works, Fails
<1>2. ASSUME ~fault' PROVE Progress'
  <2>1. ~fault /\ pc = "remove" /\ Ready /\ Whole(expected)
    BY <1>2 DEF Inv, Progress, Remove, Works, Fails
  <2>2. Whole(expected)'
    BY <2>1 DEF Whole, Remove
  <2>3. CASE file' = NoFile
    <3>1. ~Complete'
      BY <2>3 DEF NoFile, Complete
    <3> QED
      BY <2>2, <3>1 DEF Progress, Remove
  <2>4. CASE file' = file
    BY <2>1, <2>4 DEF Progress, Remove, Ready, Complete
  <2> QED
    BY <2>3, <2>4 DEF Remove
<1> QED
  BY <1>1, <1>2 DEF Inv, Remove, StartedWhole

(* The application leaves the flash alone. *)
LEMMA AppInv == Inv /\ App => Inv'
<1> SUFFICES ASSUME Inv, App PROVE Inv'
  OBVIOUS
<1>1. pc = "app" /\ active' = active /\ fault' = fault
  BY DEF App, Create, Download, Reset
<1>2. CASE Create
  <2>1. TypeOK'
    BY <1>2 DEF Inv, TypeOK, Create, Files
  <2> QED
    BY <1>1, <1>2, <2>1 DEF Inv, StartedWhole, Valid, Whole, Progress, Create
<1>3. CASE Download
  <2>1. TypeOK'
    <3>1. file \in [ver : Versions, n : 0 .. Blocks]
      BY <1>3 DEF Inv, TypeOK, Download, Files, NoFile
    <3>2. file.n + 1 \in 0 .. Blocks
      BY <1>3, <3>1, SizeType DEF Download
    <3> QED
      BY <1>3, <3>1, <3>2 DEF Inv, TypeOK, Download, Files
  <2> QED
    BY <1>1, <1>3, <2>1 DEF Inv, StartedWhole, Valid, Whole, Progress, Download
<1>4. CASE Reset
  <2>1. TypeOK'
    BY <1>4 DEF Inv, TypeOK, Reset, Complete
  <2>2. ~fault' => Progress'
    BY <1>4 DEF Inv, Reset, Progress, Ready, Complete, Whole
  <2> QED
    BY <1>4, <2>1, <2>2 DEF Inv, StartedWhole, Reset
<1> QED
  BY <1>2, <1>3, <1>4 DEF App

(* What is torn is not needed: the file while the flash is written, and    *)
(* the flash while the file is removed.                                    *)
LEMMA PowerFailInv == Inv /\ PowerFail => Inv'
<1> SUFFICES ASSUME Inv, PowerFail PROVE Inv'
  OBVIOUS
<1>1. TypeOK'
  <2>1. active' \in [1 .. Blocks -> Content]
    BY DEF Inv, TypeOK, PowerFail, Torn, SetSector, Content
  <2>2. file' \in Files
    <3>1. CASE file' = file
      BY <3>1 DEF Inv, TypeOK
    <3>2. CASE file' = [file EXCEPT !.n = 0]
      BY <3>2 DEF Inv, TypeOK, Files, NoFile
    <3> QED
      BY <3>1, <3>2 DEF PowerFail, Torn
  <2> QED
    BY <2>1, <2>2 DEF Inv, TypeOK, PowerFail
<1>2. ASSUME ~fault' PROVE Progress'
  <2>1. ~fault /\ Progress /\ pc # "app" /\ pc' = "boot" /\ expected' = expected
    BY <1>2 DEF Inv, PowerFail
  <2>2. CASE UNCHANGED <<active, file>>
    BY <2>1, <2>2 DEF Progress, Ready, Complete, Whole, TypeOK, Inv
  <2>3. CASE pc \in {"erase", "block"} /\ file' = file
    BY <2>1, <2>3 DEF Progress, Ready, Complete
  <2>4. CASE pc = "remove" /\ file' = [file EXCEPT !.n = 0] /\ active' = active
    <3>1. file \in [ver : Versions, n : 0 .. Blocks]
      BY <2>1, <2>4 DEF Progress, Ready, Complete, Inv, TypeOK, Files, NoFile
    <3>2. ~Complete'
      BY <2>4, <3>1, SizeType DEF Complete
    <3> QED
      BY <2>1, <2>4, <3>2 DEF Progress, Whole
  <2> QED
    BY <2>2, <2>3, <2>4 DEF PowerFail, Torn
<1> QED
  BY <1>1, <1>2 DEF Inv, PowerFail, StartedWhole

LEMMA PowerGoodInv == Inv /\ PowerGood => Inv'
BY DEF Inv, PowerGood, TypeOK, StartedWhole, Valid, Whole, Progress, Ready, Complete

LEMMA StutterInv == Inv /\ UNCHANGED vars => Inv'
BY DEF Inv, vars, TypeOK, StartedWhole, Valid, Whole, Progress, Ready, Complete

LEMMA NextInv == Inv /\ [Next]_vars => Inv'
BY OpenUpgradeInv, OpenActiveInv, OpenSourceInv, EraseSectorInv, EraseDoneInv, CopyBlockInv,
   CopyDoneInv, CloseFilesInv, RemoveInv, AppInv, PowerFailInv, PowerGoodInv, StutterInv
   DEF Next, BootLoader

LEMMA Invariance == Spec => []Inv
BY InitInv, NextInv, PTL DEF Spec

(* The variables keep their types, and dfs_erase and dfs_copy stay within  *)
(* the sectors and the blocks of the image.                                *)
THEOREM TypeCorrect == Spec => []TypeOK
<1>1. Inv => TypeOK
  BY DEF Inv
<1> QED
  BY <1>1, Invariance, PTL

(* Wherever and however often the power fails, one of the two stores holds *)
(* the application to run (main.c 69-94), unless the flash itself failed.  *)
THEOREM NeverBricked == Spec => []OneImageGood
<1>1. Inv => OneImageGood
  BY DEF Inv, TypeOK, Progress, Ready, OneImageGood
<1> QED
  BY <1>1, Invariance, PTL

(* Only a whole image is started, whatever failed before (main.c 95-104).  *)
THEOREM OnlyWholeStarted == Spec => []StartedWhole
<1>1. Inv => StartedWhole
  BY DEF Inv
<1> QED
  BY <1>1, Invariance, PTL

(* What runs is what was completely downloaded last (main.c 69-104).       *)
THEOREM UpgradeTakesEffect == Spec => []RunsExpected
<1>1. Inv => RunsExpected
  BY DEF Inv, Progress, RunsExpected
<1> QED
  BY <1>1, Invariance, PTL
=============================================================================
