--------------------------- MODULE CatalogueProofs ---------------------------
(***************************************************************************)
(* Theorems of Catalogue, for any processes, any number of restore points  *)
(* and crashes, and any retention.                                         *)
(***************************************************************************)
EXTENDS Catalogue, TLAPS

-----------------------------------------------------------------------------
(* Control: a process has a restore point of its own unless it is idle or  *)
(* deletes others, it saves the catalogue for one of its tasks, and a      *)
(* retention has been applied only by the time it prunes.                  *)
Owned ==
  \A p \in Procs :
    /\ own[p] = 0 <=>
         \/ pc[p] = "idle"
         \/ pc[p] \in {"remove", "open", "write", "replace"} /\ task[p] = "delete"
    /\ pc[p] = "remove" => task[p] \in {"prune", "delete"}
    /\ pc[p] \in {"open", "write", "replace"} => task[p] \in {"record", "prune", "delete"}
    /\ period[p] # {} =>
         /\ task[p] = "prune"
         /\ pc[p] \in {"remove", "open", "write", "replace", "finish"}

LEMMA TypesAndOwners == Spec => [](TypeOK /\ Owned)
<1> USE CatalogueAssumption DEF CatalogueAssumption
<1>1. Init => TypeOK /\ Owned
  <2> SUFFICES ASSUME Init PROVE TypeOK /\ Owned
    OBVIOUS
  <2>1. Text({}) \in Files \ {Absent} /\ Absent \in Files
    BY DEF Files, Text, Torn, Absent
  <2> QED BY <2>1 DEF Init, TypeOK, Owned
<1>2. TypeOK /\ Owned /\ [Next]_vars => TypeOK' /\ Owned'
  <2> SUFFICES ASSUME TypeOK, Owned, [Next]_vars PROVE TypeOK' /\ Owned'
    OBVIOUS
  <2> USE DEF TypeOK, Owned, At, GoTo, disk, entries, history, world, process
  <2>1. ASSUME NEW p \in Procs, NEW i \in Points, StartBackup(p, i) PROVE TypeOK' /\ Owned'
    BY <2>1 DEF StartBackup, Begin, Points
  <2>2. ASSUME NEW p \in Procs, NEW i \in Points, DamageDir(p, i) PROVE TypeOK' /\ Owned'
    BY <2>2 DEF DamageDir
  <2>3. ASSUME NEW p \in Procs, NEW i \in Points, RemoveDir(p, i) PROVE TypeOK' /\ Owned'
    BY <2>3 DEF RemoveDir
  <2>4. ASSUME NEW p \in Procs, NEW outcome \in {"ok", "partial", "failed"},
               LoadToRecord(p, outcome)
        PROVE  TypeOK' /\ Owned'
    BY <2>4 DEF LoadToRecord, Files, Text, Torn, Absent
  <2>5. ASSUME NEW p \in Procs, NEW retention \in Retentions, LoadToPrune(p, retention)
        PROVE  TypeOK' /\ Owned'
    BY <2>5 DEF LoadToPrune, Files, Text, Torn, Absent
  <2>6. ASSUME NEW p \in Procs, NEW wanted \in SUBSET Points, LoadToDelete(p, wanted)
        PROVE  TypeOK' /\ Owned'
    BY <2>6 DEF LoadToDelete, Begin, Files, Text, Torn, Absent
  <2>7. ASSUME NEW p \in Procs, NothingToPrune(p) PROVE TypeOK' /\ Owned'
    BY <2>7 DEF NothingToPrune
  <2>8. ASSUME NEW p \in Procs, Gone(p), UNCHANGED <<disk, entries, history, clock, days>>,
               crashes' \in Nat
        PROVE  TypeOK' /\ Owned'
    BY <2>8 DEF Gone
  <2>9. ASSUME NEW p \in Procs, LoadFails(p) \/ ReplaceFails(p) \/ Finish(p) \/ Crash(p)
        PROVE  TypeOK' /\ Owned'
    BY <2>9, <2>8 DEF LoadFails, ReplaceFails, Finish, Crash
  <2>10. ASSUME NEW p \in Procs, DirsRemoved(p) PROVE TypeOK' /\ Owned'
    BY <2>10 DEF DirsRemoved
  <2>11. ASSUME NEW p \in Procs, OpenTmp(p) PROVE TypeOK' /\ Owned'
    BY <2>11 DEF OpenTmp, Files
  <2>12. ASSUME NEW p \in Procs, WriteTmp(p) PROVE TypeOK' /\ Owned'
    <3>1. \A file : Overwritten(file, new[p]) \subseteq Files \ {Absent}
      BY DEF Overwritten, Files, Text, Torn, Absent
    <3> QED BY <2>12, <3>1 DEF WriteTmp
  <2>13. ASSUME NEW p \in Procs, Replace(p) PROVE TypeOK' /\ Owned'
    <3>1. /\ AfterSave(p) \in {"prune", "finish", "idle"}
          /\ AfterSave(p) = "idle" <=> task[p] = "delete"
          /\ AfterSave(p) = "finish" <=> task[p] = "prune"
      BY <2>13 DEF AfterSave, Replace
    <3>2. pc' = [pc EXCEPT ![p] = AfterSave(p)] /\ UNCHANGED <<own, task, period>>
      BY <2>13 DEF Replace
    <3>3. Owned'
      BY <2>13, <3>1, <3>2 DEF Replace
    <3>4. TypeOK'
      BY <2>13, <3>1 DEF Replace, Files
    <3> QED BY <3>3, <3>4
  <2>14. CASE Tick
    BY <2>14 DEF Tick
  <2>15. CASE UNCHANGED vars
    BY <2>15 DEF vars
  <2> HIDE DEF TypeOK, Owned, At, GoTo, disk, entries, history, world, process
  <2> QED BY <2>1, <2>2, <2>3, <2>4, <2>5, <2>6, <2>7, <2>9, <2>10, <2>11, <2>12,
             <2>13, <2>14, <2>15 DEF Next
<1> QED BY <1>1, <1>2, PTL DEF Spec

(***************************************************************************)
(* The catalogue, its directories and the processes are well-typed,        *)
(* whatever the processes do to each other's files.                        *)
(***************************************************************************)
THEOREM TypeCorrect == Spec => []TypeOK
BY TypesAndOwners, PTL

-----------------------------------------------------------------------------
(* Removal.                                                                *)

(* What may be damaged has been chosen: a restore point that a file, a     *)
(* process about to save one, or the run that makes it knows of is whole   *)
(* as long as nobody has.                                                  *)
Known(i) ==
  i \in index.ids \/ i \in tmp.ids \/ \E p \in Procs : i \in new[p] \/ own[p] = i
Spared ==
  /\ \A p \in Procs : left[p] \subseteq condemned
  /\ \A i \in Points : Known(i) => dir[i] = "whole" \/ i \in condemned

LEMMA OnlyChosenRemoved == Spec => []Spared
<1> USE CatalogueAssumption DEF CatalogueAssumption
<1>1. Init => Spared
  BY DEF Init, Spared, Known, Text, Absent, Points
<1>2. TypeOK /\ Owned /\ Spared /\ [Next]_vars => Spared'
  <2> SUFFICES ASSUME TypeOK, Owned, Spared, [Next]_vars PROVE Spared'
    OBVIOUS
  <2> USE DEF TypeOK, Spared, Known, At, GoTo, disk, entries, history, world, process
  <2>1. ASSUME NEW p \in Procs, NEW i \in Points, StartBackup(p, i) PROVE Spared'
    BY <2>1 DEF StartBackup, Begin, Points
  <2>2. ASSUME NEW p \in Procs, NEW i \in Points, DamageDir(p, i) \/ RemoveDir(p, i)
        PROVE  Spared'
    BY <2>2 DEF DamageDir, RemoveDir
  <2>3. ASSUME NEW p \in Procs, NEW outcome \in {"ok", "partial", "failed"},
               LoadToRecord(p, outcome)
        PROVE  Spared'
    BY <2>3 DEF LoadToRecord, Owned
  <2>4. ASSUME NEW p \in Procs, NEW retention \in Retentions, LoadToPrune(p, retention)
        PROVE  Spared'
    BY <2>4 DEF LoadToPrune
  <2>5. ASSUME NEW p \in Procs, NEW wanted \in SUBSET Points, LoadToDelete(p, wanted)
        PROVE  Spared'
    BY <2>5 DEF LoadToDelete
  <2>6. ASSUME NEW p \in Procs, Gone(p), UNCHANGED <<disk, history>> PROVE Spared'
    BY <2>6 DEF Gone, Points
  <2>7. ASSUME NEW p \in Procs, LoadFails(p) \/ ReplaceFails(p) \/ Finish(p) \/ Crash(p)
        PROVE  Spared'
    BY <2>7, <2>6 DEF LoadFails, ReplaceFails, Finish, Crash
  <2>8. ASSUME NEW p \in Procs, NothingToPrune(p) \/ DirsRemoved(p) PROVE Spared'
    BY <2>8 DEF NothingToPrune, DirsRemoved
  <2>9. ASSUME NEW p \in Procs, OpenTmp(p) PROVE Spared'
    BY <2>9 DEF OpenTmp, Torn
  <2>10. ASSUME NEW p \in Procs, WriteTmp(p) PROVE Spared'
    <3>1. \A file, saved : saved \in Overwritten(file, new[p]) => saved.ids \subseteq new[p]
      BY DEF Overwritten, Text, Torn
    <3> QED BY <2>10, <3>1 DEF WriteTmp
  <2>11. ASSUME NEW p \in Procs, Replace(p) PROVE Spared'
    BY <2>11 DEF Replace, Absent
  <2>12. CASE Tick
    BY <2>12 DEF Tick
  <2>13. CASE UNCHANGED vars
    BY <2>13 DEF vars
  <2> QED BY <2>1, <2>2, <2>3, <2>4, <2>5, <2>7, <2>8, <2>9, <2>10, <2>11, <2>12,
             <2>13 DEF Next
<1> QED BY <1>1, <1>2, TypesAndOwners, PTL DEF Spec

(***************************************************************************)
(* However many processes back up, prune and delete beside each other, and *)
(* wherever they are killed: only what a removal has chosen is damaged.    *)
(***************************************************************************)
THEOREM OthersAreSpared == Spec => []OnlyCondemnedDamaged
<1>1. Spared => OnlyCondemnedDamaged
  BY DEF Spared, Known, OnlyCondemnedDamaged
<1> QED BY <1>1, OnlyChosenRemoved, PTL

-----------------------------------------------------------------------------
(* One process after the other.                                            *)

Saving == {"remove", "open", "write", "replace"}

(* As long as no process began beside another, at most one is at work, the *)
(* temporary file is its own, and what it is about to save lacks condemned *)
(* points only.                                                            *)
Sequential ==
  ~ overlapped =>
    /\ \A p, q \in Procs : pc[p] # "idle" /\ pc[q] # "idle" => p = q
    /\ \A p \in Procs :
         /\ handle[p] = (IF pc[p] = "write" THEN "tmp" ELSE "none")
         /\ pc[p] = "write" => tmp = Torn
         /\ pc[p] = "replace" => tmp = Text(new[p])
         /\ pc[p] \in Saving => index.ids \ new[p] \subseteq condemned
    /\ index # Torn

LEMMA OneAfterTheOther == Spec => []Sequential
<1> USE CatalogueAssumption DEF CatalogueAssumption
<1>1. Init => Sequential
  BY DEF Init, Sequential, Saving, Text, Torn
<1>2. TypeOK /\ Sequential /\ [Next]_vars => Sequential'
  <2> SUFFICES ASSUME TypeOK, Sequential, [Next]_vars, ~ overlapped' PROVE Sequential'
    BY DEF Sequential
  <2> USE DEF TypeOK, Sequential, Saving, At, GoTo, disk, entries, history, world, process
  <2>1. ASSUME NEW p \in Procs, NEW i \in Points, StartBackup(p, i) PROVE Sequential'
    BY <2>1 DEF StartBackup, Begin
  <2>2. ASSUME NEW p \in Procs, NEW i \in Points, DamageDir(p, i) \/ RemoveDir(p, i)
        PROVE  Sequential'
    BY <2>2 DEF DamageDir, RemoveDir
  <2>3. ASSUME NEW p \in Procs, NEW outcome \in {"ok", "partial", "failed"},
               LoadToRecord(p, outcome)
        PROVE  Sequential'
    BY <2>3 DEF LoadToRecord
  <2>4. ASSUME NEW p \in Procs, NEW retention \in Retentions, LoadToPrune(p, retention)
        PROVE  Sequential'
    BY <2>4 DEF LoadToPrune
  <2>5. ASSUME NEW p \in Procs, NEW wanted \in SUBSET Points, LoadToDelete(p, wanted)
        PROVE  Sequential'
    BY <2>5, ZenonT(30) DEF LoadToDelete, Begin
  <2>6. ASSUME NEW p \in Procs, Gone(p), UNCHANGED <<disk, history>> PROVE Sequential'
    BY <2>6 DEF Gone
  <2>7. ASSUME NEW p \in Procs, LoadFails(p) \/ ReplaceFails(p) \/ Finish(p) \/ Crash(p)
        PROVE  Sequential'
    BY <2>7, <2>6 DEF LoadFails, ReplaceFails, Finish, Crash
  <2>8. ASSUME NEW p \in Procs, NothingToPrune(p) \/ DirsRemoved(p) PROVE Sequential'
    BY <2>8 DEF NothingToPrune, DirsRemoved
  <2>9. ASSUME NEW p \in Procs, OpenTmp(p) PROVE Sequential'
    BY <2>9 DEF OpenTmp
  <2>10. ASSUME NEW p \in Procs, WriteTmp(p) PROVE Sequential'
    <3>1. handle[p] = "tmp" /\ tmp = Torn
      BY <2>10 DEF WriteTmp
    <3>2. tmp' = Text(new[p]) /\ UNCHANGED index
      BY <2>10, <3>1 DEF WriteTmp, Overwritten
    <3> QED BY <2>10, <3>2 DEF WriteTmp
  <2>11. ASSUME NEW p \in Procs, Replace(p) PROVE Sequential'
    <3>1. tmp = Text(new[p]) /\ index' = Text(new[p]) /\ index' # Torn
      BY <2>11 DEF Replace, Text, Torn
    <3>2. AfterSave(p) \in {"prune", "finish", "idle"}
      BY DEF AfterSave
    <3>3. \A q \in Procs : q # p => pc[q] = "idle" /\ pc'[q] = "idle"
      BY <2>11 DEF Replace
    <3>4. \A q \in Procs : handle'[q] = "none"
      BY <2>11 DEF Replace
    <3> QED BY <2>11, <3>1, <3>2, <3>3, <3>4 DEF Replace
  <2>12. CASE Tick
    BY <2>12 DEF Tick
  <2>13. CASE UNCHANGED vars
    BY <2>13 DEF vars
  <2> QED BY <2>1, <2>2, <2>3, <2>4, <2>5, <2>7, <2>8, <2>9, <2>10, <2>11, <2>12,
             <2>13 DEF Next
<1> QED BY <1>1, <1>2, TypeCorrect, PTL DEF Spec

(***************************************************************************)
(* As long as one process works after the other, a crash at any moment     *)
(* leaves a catalogue that can be read.                                    *)
(***************************************************************************)
THEOREM StaysReadable == Spec => []CatalogueReadable
<1>1. Sequential => CatalogueReadable
  BY DEF Sequential, CatalogueReadable
<1> QED BY <1>1, OneAfterTheOther, PTL

(***************************************************************************)
(* As long as one process works after the other, an entry leaves the       *)
(* catalogue only when a retention or a deletion has chosen it.            *)
(***************************************************************************)
THEOREM EntriesStay == Spec => EntriesKept
<1>1. TypeOK /\ Sequential /\ [Next]_vars
        => [~ overlapped => index.ids \ index'.ids \subseteq condemned]_vars
  <2> SUFFICES ASSUME TypeOK, Sequential, Next, ~ overlapped
               PROVE  index.ids \ index'.ids \subseteq condemned
    OBVIOUS
  <2> USE DEF Sequential, At, disk
  <2>1. CASE UNCHANGED index
    BY <2>1
  <2>2. ASSUME NEW p \in Procs, WriteTmp(p) PROVE UNCHANGED index
    BY <2>2 DEF WriteTmp
  <2>3. ASSUME NEW p \in Procs, Replace(p)
        PROVE  index.ids \ index'.ids \subseteq condemned
    BY <2>3 DEF Replace, Text, Saving
  <2>4. CASE Tick
    BY <2>1, <2>4 DEF Tick
  <2> QED
    BY <2>1, <2>2, <2>3, <2>4, ZenonT(30)
       DEF Next, StartBackup, DamageDir, RemoveDir, LoadToRecord, LoadToPrune,
           LoadToDelete, NothingToPrune, LoadFails, DirsRemoved, OpenTmp,
           ReplaceFails, Finish, Crash
<1> QED BY <1>1, TypeCorrect, OneAfterTheOther, PTL DEF Spec, EntriesKept

-----------------------------------------------------------------------------
(* The restore point that restore takes.                                   *)

(* Every entry, also one that is about to be saved, has a result and a     *)
(* moment that has passed.                                                 *)
Recorded ==
  \A i \in Points :
    /\ i \in index.ids \/ i \in tmp.ids \/ (\E p \in Procs : i \in new[p])
         => result[i] # "none"
    /\ result[i] # "none" => created[i] < clock

LEMMA EntriesRecorded == Spec => []Recorded
<1> USE CatalogueAssumption DEF CatalogueAssumption
<1>1. Init => Recorded
  BY DEF Init, Recorded, Text, Absent
<1>2. TypeOK /\ Recorded /\ [Next]_vars => Recorded'
  <2> SUFFICES ASSUME TypeOK, Recorded, [Next]_vars PROVE Recorded'
    OBVIOUS
  <2> USE DEF TypeOK, Recorded, At, GoTo, disk, entries, history, world, process
  <2>1. ASSUME NEW p \in Procs, NEW outcome \in {"ok", "partial", "failed"},
               LoadToRecord(p, outcome)
        PROVE  Recorded'
    BY <2>1 DEF LoadToRecord
  <2>2. ASSUME NEW p \in Procs, NEW retention \in Retentions, LoadToPrune(p, retention)
        PROVE  Recorded'
    BY <2>2 DEF LoadToPrune
  <2>3. ASSUME NEW p \in Procs, NEW wanted \in SUBSET Points, LoadToDelete(p, wanted)
        PROVE  Recorded'
    BY <2>3 DEF LoadToDelete
  <2>4. ASSUME NEW p \in Procs, Gone(p), UNCHANGED <<disk, entries, clock>>
        PROVE  Recorded'
    BY <2>4 DEF Gone
  <2>5. ASSUME NEW p \in Procs, LoadFails(p) \/ ReplaceFails(p) \/ Finish(p) \/ Crash(p)
        PROVE  Recorded'
    BY <2>5, <2>4 DEF LoadFails, ReplaceFails, Finish, Crash
  <2>6. ASSUME UNCHANGED <<index, tmp, new, entries, clock>> PROVE Recorded'
    BY <2>6
  <2>7. ASSUME NEW p \in Procs, NEW i \in Points,
               StartBackup(p, i) \/ DamageDir(p, i) \/ RemoveDir(p, i)
        PROVE  Recorded'
    BY <2>7, <2>6 DEF StartBackup, DamageDir, RemoveDir
  <2>8. ASSUME NEW p \in Procs, NothingToPrune(p) \/ DirsRemoved(p) PROVE Recorded'
    BY <2>8, <2>6 DEF NothingToPrune, DirsRemoved
  <2>9. ASSUME NEW p \in Procs, OpenTmp(p) PROVE Recorded'
    BY <2>9 DEF OpenTmp, Torn
  <2>10. ASSUME NEW p \in Procs, WriteTmp(p) PROVE Recorded'
    <3>1. \A file, saved : saved \in Overwritten(file, new[p]) => saved.ids \subseteq new[p]
      BY DEF Overwritten, Text, Torn
    <3> QED BY <2>10, <3>1 DEF WriteTmp
  <2>11. ASSUME NEW p \in Procs, Replace(p) PROVE Recorded'
    BY <2>11 DEF Replace, Absent
  <2>12. CASE Tick
    BY <2>12 DEF Tick
  <2>13. CASE UNCHANGED vars
    BY <2>13 DEF vars
  <2> QED BY <2>1, <2>2, <2>3, <2>5, <2>7, <2>8, <2>9, <2>10, <2>11, <2>12, <2>13
             DEF Next
<1> QED BY <1>1, <1>2, TypeCorrect, PTL DEF Spec

(* As long as one process works after the other: the entry of a backup     *)
(* that has recorded it is the newest, no moment has passed since, and     *)
(* unless a retention of no days was applied, nobody has chosen it and it  *)
(* is, or is about to be, in the catalogue.                                *)
Newest ==
  ~ overlapped => \A p \in Procs : own[p] # 0 =>
    /\ 0 \notin period[p] => own[p] \notin condemned
    /\ pc[p] # "archive" =>
         /\ created[own[p]] + 1 = clock
         /\ \A i \in Points \ {own[p]} : result[i] # "none" => created[i] < created[own[p]]
         /\ 0 \notin period[p] =>
              /\ pc[p] \in Saving => own[p] \in new[p]
              /\ pc[p] \in {"prune", "finish"} => own[p] \in index.ids

LEMMA NewestStays == Spec => []Newest
<1> USE CatalogueAssumption DEF CatalogueAssumption
<1>1. Init => Newest
  BY DEF Init, Newest
<1>2. TypeOK /\ Owned /\ Sequential /\ Recorded /\ Newest /\ [Next]_vars => Newest'
  <2> SUFFICES ASSUME TypeOK, Owned, Sequential, Recorded, Newest, [Next]_vars,
                      ~ overlapped'
               PROVE  Newest'
    BY DEF Newest
  <2> USE DEF TypeOK, Owned, Newest, Saving, At, GoTo, disk, entries, history, world,
              process
  <2>0. ~ overlapped => \A p, q \in Procs : own[p] # 0 /\ pc[q] # "idle" => p = q
    BY DEF Sequential
  <2>1. ASSUME NEW p \in Procs, NEW i \in Points, StartBackup(p, i) PROVE Newest'
    BY <2>1 DEF StartBackup, Begin, Started
  <2>2. ASSUME NEW p \in Procs, NEW i \in Points, DamageDir(p, i) \/ RemoveDir(p, i)
        PROVE  Newest'
    BY <2>2 DEF DamageDir, RemoveDir
  <2>3. ASSUME NEW p \in Procs, NEW outcome \in {"ok", "partial", "failed"},
               LoadToRecord(p, outcome)
        PROVE  Newest'
    BY <2>0, <2>3 DEF LoadToRecord, Recorded
  <2>4. ASSUME NEW p \in Procs, NEW retention \in Retentions, LoadToPrune(p, retention)
        PROVE  Newest'
    <3>1. own[p] # 0 /\ created[own[p]] + 1 = clock /\ own[p] \in Points
      BY <2>4 DEF LoadToPrune
    <3>2. retention # 0 => retention * Day >= 1
      OBVIOUS
    <3>3. retention # 0 => ~ Expired(own[p], retention)
      <4> DEFINE made == created[own[p]]
                 kept == retention * Day
      <4>1. made \in Nat /\ kept \in Nat
        BY <3>1
      <4>2. retention # 0 => ~ made + kept < clock
        <5>1. made + 1 = clock /\ (retention # 0 => kept >= 1)
          BY <3>1, <3>2
        <5> HIDE DEF made, kept
        <5> QED BY <4>1, <5>1
      <4> QED BY <4>2 DEF Expired
    <3> HIDE DEF Expired
    <3> QED BY <2>0, <2>4, <3>1, <3>3 DEF LoadToPrune
  <2>5. ASSUME NEW p \in Procs, NEW wanted \in SUBSET Points, LoadToDelete(p, wanted)
        PROVE  Newest'
    BY <2>5 DEF LoadToDelete, Begin
  <2>6. ASSUME NEW p \in Procs, Gone(p), UNCHANGED <<disk, entries, history, clock>>
        PROVE  Newest'
    BY <2>6 DEF Gone
  <2>7. ASSUME NEW p \in Procs, LoadFails(p) \/ ReplaceFails(p) \/ Finish(p) \/ Crash(p)
        PROVE  Newest'
    BY <2>7, <2>6 DEF LoadFails, ReplaceFails, Finish, Crash
  <2>8. ASSUME NEW p \in Procs, NothingToPrune(p) \/ DirsRemoved(p) PROVE Newest'
    BY <2>8 DEF NothingToPrune, DirsRemoved
  <2>9. ASSUME NEW p \in Procs, OpenTmp(p) PROVE Newest'
    BY <2>9 DEF OpenTmp
  <2>10. ASSUME NEW p \in Procs, WriteTmp(p) PROVE Newest'
    <3>1. UNCHANGED index
      BY <2>10 DEF WriteTmp, Sequential
    <3> QED BY <2>10, <3>1 DEF WriteTmp
  <2>11. ASSUME NEW p \in Procs, Replace(p) PROVE Newest'
    <3>1. index'.ids = new[p]
      BY <2>11 DEF Replace, Sequential, Text
    <3>2. AfterSave(p) \in {"prune", "finish", "idle"}
      BY DEF AfterSave
    <3> QED BY <2>0, <2>11, <3>1, <3>2 DEF Replace
  <2>12. CASE Tick
    BY <2>12 DEF Tick
  <2>13. CASE UNCHANGED vars
    BY <2>13 DEF vars
  <2> QED BY <2>1, <2>2, <2>3, <2>4, <2>5, <2>7, <2>8, <2>9, <2>10, <2>11, <2>12,
             <2>13 DEF Next
<1> QED BY <1>1, <1>2, TypesAndOwners, OneAfterTheOther, EntriesRecorded, PTL DEF Spec

(***************************************************************************)
(* As long as one process works after the other: after a backup whose      *)
(* archives are all there, and its retention of a day or more, a restore   *)
(* that names no point takes that backup, and it is whole.                 *)
(***************************************************************************)
THEOREM RestoreFindsBackup == Spec => []RestoreTakesBackup
<1>1. TypeOK /\ Owned /\ Spared /\ Recorded /\ Newest => RestoreTakesBackup
  <2> SUFFICES ASSUME TypeOK, Owned, Spared, Recorded, Newest,
                      NEW p \in Procs, pc[p] = "finish", result[own[p]] = "ok",
                      0 \notin period[p], ~ overlapped
               PROVE  /\ dir[own[p]] = "whole"
                      /\ \A i \in Points : Selected(i) <=> i = own[p]
    BY DEF RestoreTakesBackup
  <2>1. own[p] \in Points /\ own[p] \notin condemned /\ own[p] \in index.ids
    BY DEF Owned, TypeOK, Newest
  <2>2. dir[own[p]] = "whole"
    BY <2>1 DEF Spared, Known
  <2>3. ASSUME NEW i \in index.ids, i # own[p] PROVE created[i] < created[own[p]]
    <3>1. i \in Points
      BY DEF TypeOK, Files, Text, Torn
    <3>2. result[i] # "none"
      BY <3>1 DEF Recorded
    <3>3. own[p] # 0 /\ pc[p] # "archive"
      BY <2>1 DEF Points
    <3>4. \A j \in Points \ {own[p]} : result[j] # "none" => created[j] < created[own[p]]
      BY <3>3 DEF Newest
    <3> QED BY <2>3, <3>1, <3>2, <3>4
  <2>4. created \in [Points -> Nat] /\ index.ids \subseteq Points
    BY DEF TypeOK, Files, Text, Torn
  <2>5. Selected(own[p])
    BY <2>1, <2>3, <2>4 DEF Selected
  <2>6. ASSUME NEW i \in Points, Selected(i) PROVE i = own[p]
    BY <2>1, <2>3, <2>4, <2>6 DEF Selected
  <2> QED BY <2>2, <2>5, <2>6
<1> QED BY <1>1, TypesAndOwners, OnlyChosenRemoved, EntriesRecorded, NewestStays, PTL
=============================================================================
