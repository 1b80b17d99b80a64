-------------------------- MODULE BootConfigProofs --------------------------
(***************************************************************************)
(* Proofs about BootConfig, for any delays the keys may set and any slot,  *)
(* and wherever power fails.                                               *)
(***************************************************************************)
EXTENDS BootConfig, TLAPS

(* Past the reading of speed.txt; writing a file.                           *)
Running == {"prepare", "ports", "link", "enumerate", "checkReset", "net", "menu"}
Saving  == {"saveOpen", "saveWrite"}

(* One content, set of contents, choice and flag for each file.             *)
Shapes ==
  /\ file = [f \in Files |-> file[f]] /\ disk = [f \in Files |-> disk[f]]
  /\ chosen = [f \in Files |-> chosen[f]] /\ lost = [f \in Files |-> lost[f]]

(* The ports run at the speed of the file, or of the one being written.     *)
SpeedSet ==
  /\ at \in Running => pll = Setting("speed")
  /\ at \in Saving => pll = IF save.file = "speed" THEN save.value ELSE Setting("speed")

(* What the boot writes is what the operator chose.                         *)
SaveForBoot ==
  save.then = "prepare" =>
    save.file = "speed" /\ (lost["speed"] \/ save.value = chosen["speed"])

(* The boot works with the delay and the flag the operator chose.           *)
DelayAsked ==
  (\/ at \in {"readSpeed", "prepare", "ports", "link", "enumerate"}
   \/ at \in Saving /\ save.then = "prepare") => lost["delay"] \/ delay = chosen["delay"]

Parts == SettingsKept /\ SpeedSet /\ SaveForBoot /\ DelayAsked /\ EnumeratedAsAsked
IInv  == TypeOK /\ Shapes /\ Parts

-----------------------------------------------------------------------------
LEMMA FileNames ==
  "delay" \in Files /\ "speed" \in Files /\ "reset" \in Files
BY DEF Files

LEMMA ValuesOf ==
  /\ Values["delay"] = DelaySettings \cup {<<1, 25>>}
  /\ Values["speed"] = 0 .. 2 /\ Values["reset"] = {0, 1}
  /\ \A f \in Files : Default[f] \in Values[f]
BY DEF Values, Default, Files

LEMMA SettingType ==
  ASSUME TypeOK, NEW f \in Files
  PROVE  Setting(f) \in Values[f]
BY ValuesOf DEF TypeOK, Setting, Contents

(* A value is not taken for a missing or an empty file.                     *)
LEMMA SettingOfValue ==
  ASSUME NEW f \in Files, file'[f] \in Values[f]
  PROVE  Setting(f)' = file'[f]
BY MarkersAssumption DEF Setting

LEMMA SettingSame ==
  ASSUME NEW f \in Files, file'[f] = file[f]
  PROVE  Setting(f)' = Setting(f)
BY DEF Setting

-----------------------------------------------------------------------------
LEMMA InvInit ==
  ASSUME Init
  PROVE  IInv
<1>1. \A f \in Files : file[f] = None /\ disk[f] = {None} /\ Setting(f) = Default[f]
  BY DEF Init, Setting
<1>2. TypeOK
  <2>1. \A f \in Files : file[f] \in disk[f] /\ disk[f] \subseteq Contents(f)
    BY <1>1 DEF Contents
  <2>2. save.file \in Files /\ save.value \in Values[save.file] /\ save.then \in {"menu", "prepare"}
    BY ValuesOf, FileNames DEF Init, NoSave
  <2>3. at \in Places /\ delay \in Values["delay"] /\ pll \in 0 .. 2
    BY ValuesOf, FileNames DEF Init, Places
  <2>4. enumerated \in BOOLEAN /\ errorsPersist \in BOOLEAN
    BY DEF Init
  <2>5. \A f \in Files : chosen[f] \in Values[f] /\ lost[f] \in BOOLEAN
    BY ValuesOf DEF Init
  <2> QED
    BY <2>1, <2>2, <2>3, <2>4, <2>5 DEF TypeOK
<1>3. Shapes
  BY DEF Init, Shapes, Default
<1>4. Parts
  BY <1>1, FileNames DEF Init, NoSave, Parts, SettingsKept, SpeedSet, SaveForBoot, DelayAsked,
                EnumeratedAsAsked, Running, Saving
<1> QED
  BY <1>2, <1>3, <1>4 DEF IInv

-----------------------------------------------------------------------------
(* Steps that leave the files alone.                                        *)
LEMMA FilesKept ==
  ASSUME IInv, UNCHANGED filevars
  PROVE  /\ \A f \in Files : Setting(f)' = Setting(f)
         /\ Shapes'
         /\ \A f \in Files : file'[f] \in disk'[f] /\ disk'[f] \subseteq Contents(f)
         /\ \A f \in Files : chosen'[f] \in Values[f] /\ lost'[f] \in BOOLEAN
         /\ errorsPersist' \in BOOLEAN
         /\ (at' # "saveWrite" /\ at # "saveWrite") => SettingsKept'
<1>1. /\ file' = file /\ disk' = disk /\ errorsPersist' = errorsPersist
      /\ chosen' = chosen /\ lost' = lost
  BY DEF filevars
<1>2. \A f \in Files : Setting(f)' = Setting(f)
  BY <1>1, SettingSame
<1>3. (at' # "saveWrite" /\ at # "saveWrite") => SettingsKept'
  BY <1>1, <1>2 DEF IInv, Parts, SettingsKept
<1> QED
  BY <1>1, <1>2, <1>3 DEF IInv, TypeOK, Shapes

LEMMA BootStep ==
  ASSUME IInv,
         \/ ReadDelay \/ ReadSpeed \/ Prepare \/ PortsRecover \/ LinkRecovers \/ Enumerate
         \/ NoReset \/ Fork
  PROVE  IInv'
<1> USE FileNames DEF IInv, Parts
<1>0. /\ UNCHANGED filevars /\ at # "saveWrite" /\ at' # "saveWrite"
      /\ file' = file /\ chosen' = chosen /\ lost' = lost
  BY DEF ReadDelay, ReadSpeed, Prepare, PortsRecover, LinkRecovers, Enumerate, NoReset, Fork,
         filevars
<1>1. /\ \A f \in Files : Setting(f)' = Setting(f)
      /\ Shapes' /\ SettingsKept'
  BY <1>0, FilesKept
<1>2. Setting("delay") \in Values["delay"] /\ Setting("speed") \in 0 .. 2
  BY SettingType, ValuesOf
<1>3. \A f \in Files : lost[f] \/ Setting(f) = chosen[f]
  BY <1>0 DEF SettingsKept
<1>4. ASSUME at' \in Places, delay' \in Values["delay"], pll' \in 0 .. 2,
             enumerated' \in BOOLEAN, save'.file \in Files, save'.value \in Values[save'.file],
             save'.then \in {"menu", "prepare"}
      PROVE  TypeOK'
  BY <1>0, <1>4, FilesKept DEF TypeOK
<1>5. CASE ReadDelay
  <2>1. /\ at' = "readSpeed" /\ delay' = Setting("delay")
        /\ UNCHANGED <<save, pll, enumerated>>
    BY <1>5 DEF ReadDelay
  <2>2. TypeOK'
    BY <1>2, <1>4, <2>1 DEF TypeOK, Places
  <2>3. SpeedSet' /\ SaveForBoot' /\ DelayAsked' /\ EnumeratedAsAsked'
    BY <1>0, <1>3, <2>1 DEF SpeedSet, SaveForBoot, DelayAsked, EnumeratedAsAsked, Running, Saving
  <2> QED
    BY <1>1, <2>2, <2>3
<1>6. CASE ReadSpeed
  <2>1. /\ at = "readSpeed" /\ pll' = Setting("speed") /\ UNCHANGED <<delay, enumerated>>
        /\ \/ at' = "prepare" /\ save' = save
           \/ at' = "saveOpen" /\ save' = [file |-> "speed", value |-> Setting("speed"),
                                           then |-> "prepare"]
    BY <1>6 DEF ReadSpeed
  <2>2. TypeOK'
    BY <1>2, <1>4, <2>1, ValuesOf DEF TypeOK, Places
  <2>3. SpeedSet'
    BY <1>1, <2>1 DEF SpeedSet, Running, Saving
  <2>4. SaveForBoot'
    BY <1>0, <1>3, <2>1 DEF SaveForBoot
  <2>5. DelayAsked' /\ EnumeratedAsAsked'
    BY <1>0, <2>1 DEF DelayAsked, EnumeratedAsAsked
  <2> QED
    BY <1>1, <2>2, <2>3, <2>4, <2>5
<1>7. CASE Prepare \/ PortsRecover \/ LinkRecovers
  <2>1. /\ at \in {"prepare", "ports", "link"} /\ at' \in {"ports", "link", "enumerate"}
        /\ UNCHANGED <<save, delay, pll, enumerated>>
    BY <1>7 DEF Prepare, PortsRecover, LinkRecovers
  <2>2. TypeOK'
    BY <1>4, <2>1 DEF TypeOK, Places
  <2>3. SpeedSet' /\ SaveForBoot' /\ DelayAsked' /\ EnumeratedAsAsked'
    BY <1>0, <1>1, <2>1 DEF SpeedSet, SaveForBoot, DelayAsked, EnumeratedAsAsked, Running, Saving
  <2> QED
    BY <1>1, <2>2, <2>3
<1>8. CASE Enumerate
  <2>1. /\ at = "enumerate" /\ at' = "checkReset" /\ UNCHANGED <<save, delay, pll>>
        /\ enumerated' = (delay[1] = 1 /\ SlotNum = 6)
    BY <1>8 DEF Enumerate
  <2>2. TypeOK'
    BY <1>4, <2>1 DEF TypeOK, Places
  <2>3. SpeedSet' /\ SaveForBoot' /\ DelayAsked'
    BY <1>0, <1>1, <2>1 DEF SpeedSet, SaveForBoot, DelayAsked, Running, Saving
  <2>4. EnumeratedAsAsked'
    BY <1>0, <2>1 DEF EnumeratedAsAsked, DelayAsked
  <2> QED
    BY <1>1, <2>2, <2>3, <2>4
<1>9. CASE NoReset \/ Fork
  <2>1. /\ at \in {"checkReset", "net"} /\ at' \in {"net", "menu"}
        /\ UNCHANGED <<save, delay, pll, enumerated>>
    BY <1>9 DEF NoReset, Fork
  <2>2. TypeOK'
    BY <1>4, <2>1 DEF TypeOK, Places
  <2>3. SpeedSet' /\ SaveForBoot' /\ DelayAsked' /\ EnumeratedAsAsked'
    BY <1>0, <1>1, <2>1 DEF SpeedSet, SaveForBoot, DelayAsked, EnumeratedAsAsked, Running, Saving
  <2> QED
    BY <1>1, <2>2, <2>3
<1> QED
  BY <1>5, <1>6, <1>7, <1>8, <1>9

(* The keys.                                                                *)
LEMMA KeyStep ==
  ASSUME IInv,
         \/ \E d \in DelaySettings : SetSrioDelay(d)
         \/ \E s \in Values["speed"] : SetSpeed(s)
         \/ \E on \in {0, 1} : SetSysReset(on)
  PROVE  IInv'
<1> USE FileNames DEF IInv, Parts
<1>1. PICK f, v :
        /\ f \in Files /\ v \in Values[f]
        /\ KeySaves(f, v)
        /\ pll' = IF f = "speed" THEN v ELSE pll
        /\ UNCHANGED <<filevars, delay, enumerated>>
  BY ValuesOf DEF SetSrioDelay, SetSpeed, SetSysReset
<1>2. /\ at = "menu" /\ at' = "saveOpen"
      /\ save' = [file |-> f, value |-> v, then |-> "menu"]
      /\ file' = file /\ chosen' = chosen /\ lost' = lost
      /\ UNCHANGED <<filevars, delay, enumerated>>
  BY <1>1 DEF KeySaves, filevars
<1>3. /\ \A g \in Files : Setting(g)' = Setting(g)
      /\ Shapes' /\ SettingsKept'
  BY <1>2, FilesKept
<1>4. TypeOK'
  <2>1. pll' \in 0 .. 2
    BY <1>1, ValuesOf DEF TypeOK
  <2> QED
    BY <1>1, <1>2, <2>1, FilesKept DEF TypeOK, Places
<1>5. SpeedSet'
  BY <1>1, <1>2, <1>3 DEF SpeedSet, Running, Saving
<1>6. SaveForBoot' /\ DelayAsked' /\ EnumeratedAsAsked'
  BY <1>2 DEF SaveForBoot, DelayAsked, EnumeratedAsAsked
<1> QED
  BY <1>3, <1>4, <1>5, <1>6

-----------------------------------------------------------------------------
(* Steps that write files.                                                  *)
LEMMA SaveOpensStep ==
  ASSUME IInv, SaveOpens
  PROVE  IInv'
<1> USE FileNames DEF IInv, Parts
<1>0. PICK g \in Files : g = save.file
  BY DEF TypeOK
<1>1. /\ at = "saveOpen"
      /\ UNCHANGED <<save, delay, pll, enumerated, errorsPersist, chosen, lost>>
  BY DEF SaveOpens
<1>2. CASE at' = "crashed" /\ UNCHANGED <<file, disk>>
  <2>1. UNCHANGED filevars
    BY <1>1, <1>2 DEF filevars
  <2>2. Shapes' /\ SettingsKept'
    BY <1>1, <1>2, <2>1, FilesKept
  <2>3. TypeOK'
    BY <1>1, <1>2 DEF TypeOK, Places
  <2>4. SpeedSet' /\ SaveForBoot' /\ DelayAsked' /\ EnumeratedAsAsked'
    BY <1>1, <1>2 DEF SpeedSet, SaveForBoot, DelayAsked, EnumeratedAsAsked, Running, Saving
  <2> QED
    BY <2>2, <2>3, <2>4
<1>3. CASE /\ at' = "saveWrite"
           /\ file' = [file EXCEPT ![save.file] = Empty]
           /\ disk' = [disk EXCEPT ![save.file] = @ \cup {Empty}]
  <2>1. /\ file'[g] = Empty /\ disk'[g] = disk[g] \cup {Empty}
        /\ \A f \in Files : f # g => file'[f] = file[f] /\ disk'[f] = disk[f]
        /\ Shapes'
    BY <1>0, <1>1, <1>3 DEF Shapes
  <2>2. \A f \in Files : f # g => Setting(f)' = Setting(f)
    BY <2>1, SettingSame
  <2>3. TypeOK'
    <3>1. \A f \in Files : file'[f] \in disk'[f] /\ disk'[f] \subseteq Contents(f)
      BY <2>1 DEF TypeOK, Contents
    <3> QED
      BY <1>1, <1>3, <3>1 DEF TypeOK, Places
  <2>4. SettingsKept'
    BY <1>0, <1>1, <1>3, <2>2 DEF SettingsKept
  <2>5. SpeedSet'
    BY <1>0, <1>1, <1>3, <2>2 DEF SpeedSet, Running, Saving
  <2>6. SaveForBoot' /\ DelayAsked' /\ EnumeratedAsAsked'
    BY <1>1, <1>3 DEF SaveForBoot, DelayAsked, EnumeratedAsAsked, Saving
  <2> QED
    BY <2>1, <2>3, <2>4, <2>5, <2>6
<1> QED
  BY <1>2, <1>3 DEF SaveOpens

LEMMA SaveClosesStep ==
  ASSUME IInv, SaveCloses
  PROVE  IInv'
<1> USE FileNames DEF IInv, Parts
<1>0. PICK g \in Files, v \in Values[save.file] : g = save.file /\ v = save.value
  BY DEF TypeOK
<1>1. /\ at = "saveWrite" /\ g \in Files /\ v \in Values[g]
      /\ at' = save.then /\ save' = NoSave
      /\ file' = [file EXCEPT ![g] = v] /\ disk' = [disk EXCEPT ![g] = @ \cup {v}]
      /\ UNCHANGED <<delay, pll, enumerated, errorsPersist>>
  BY <1>0 DEF SaveCloses, TypeOK
<1>2. /\ file'[g] = v /\ disk'[g] = disk[g] \cup {v}
      /\ \A f \in Files : f # g => file'[f] = file[f] /\ disk'[f] = disk[f]
      /\ file' = [f \in Files |-> file'[f]] /\ disk' = [f \in Files |-> disk'[f]]
  BY <1>1 DEF Shapes
<1>3. Setting(g)' = v /\ \A f \in Files : f # g => Setting(f)' = Setting(f)
  BY <1>1, <1>2, SettingOfValue, SettingSame
<1>4. \/ /\ save.then = "menu"
         /\ chosen'[g] = v /\ lost'[g] = FALSE
         /\ \A f \in Files : f # g => chosen'[f] = chosen[f] /\ lost'[f] = lost[f]
         /\ chosen' = [f \in Files |-> chosen'[f]] /\ lost' = [f \in Files |-> lost'[f]]
      \/ /\ save.then = "prepare" /\ chosen' = chosen /\ lost' = lost
  BY <1>0, <1>1 DEF SaveCloses, TypeOK, Shapes
<1>5. \A f \in Files : chosen'[f] \in Values[f] /\ lost'[f] \in BOOLEAN
  BY <1>1, <1>4 DEF TypeOK
<1>6. Shapes'
  BY <1>2, <1>4 DEF Shapes
<1>7. TypeOK'
  <2>1. \A f \in Files : file'[f] \in disk'[f] /\ disk'[f] \subseteq Contents(f)
    BY <1>1, <1>2 DEF TypeOK, Contents
  <2>2. save'.file \in Files /\ save'.value \in Values[save'.file]
        /\ save'.then \in {"menu", "prepare"}
    BY <1>1, ValuesOf DEF NoSave
  <2>3. at' \in Places
    BY <1>1, <1>4 DEF Places
  <2> QED
    BY <1>1, <1>5, <2>1, <2>2, <2>3 DEF TypeOK
<1>8. SettingsKept'
  <2>1. lost'[g] \/ Setting(g)' = chosen'[g]
    BY <1>0, <1>3, <1>4 DEF SaveForBoot
  <2>2. \A f \in Files : f # g => lost'[f] \/ Setting(f)' = chosen'[f]
    BY <1>0, <1>3, <1>4 DEF SettingsKept
  <2> QED
    BY <2>1, <2>2 DEF SettingsKept
<1>9. SpeedSet'
  BY <1>0, <1>1, <1>3, <1>4 DEF SpeedSet, Running, Saving
<1>10. SaveForBoot' /\ DelayAsked' /\ EnumeratedAsAsked'
  BY <1>0, <1>1, <1>4 DEF SaveForBoot, DelayAsked, EnumeratedAsAsked, NoSave, Saving
<1> QED
  BY <1>6, <1>7, <1>8, <1>9, <1>10

LEMMA SyncStep ==
  ASSUME IInv, NEW g \in Files, Sync(g)
  PROVE  IInv'
<1> USE DEF IInv, Parts
<1>1. /\ disk' = [disk EXCEPT ![g] = {file[g]}]
      /\ UNCHANGED <<at, file, save, delay, pll, enumerated, errorsPersist, chosen, lost>>
  BY DEF Sync
<1>2. \A f \in Files : Setting(f)' = Setting(f)
  BY <1>1, SettingSame
<1>3. Shapes' /\ TypeOK'
  BY <1>1 DEF Shapes, TypeOK
<1>4. SettingsKept' /\ SpeedSet' /\ SaveForBoot' /\ DelayAsked' /\ EnumeratedAsAsked'
  BY <1>1, <1>2, FileNames DEF SettingsKept, SpeedSet, SaveForBoot, DelayAsked, EnumeratedAsAsked
<1> QED
  BY <1>3, <1>4

LEMMA RestartStep ==
  ASSUME IInv, Restart
  PROVE  IInv'
<1> USE FileNames DEF IInv, Parts
<1>1. PICK d \in disk["delay"], s \in disk["speed"], r \in disk["reset"] :
        /\ file' = [f \in Files |-> IF f = "delay" THEN d ELSE IF f = "speed" THEN s ELSE r]
        /\ disk' = [f \in Files |-> {file'[f]}]
  BY DEF Restart
<1>2. /\ at' = "readDelay" /\ pll' = 0 /\ enumerated' = FALSE /\ save' = NoSave
      /\ delay' = Default["delay"] /\ errorsPersist' = errorsPersist /\ chosen' = chosen
      /\ lost' = [f \in Files |->
                    lost[f] \/ disk[f] # {file[f]} \/ (at = "saveWrite" /\ save.file = f)]
  BY DEF Restart
<1>3. \A f \in Files : file'[f] \in disk[f] /\ disk'[f] = {file'[f]}
  BY <1>1 DEF Files
<1>4. \A f \in Files : lost'[f] \in BOOLEAN
  <2> SUFFICES ASSUME NEW f \in Files
               PROVE  lost'[f] \in BOOLEAN
    OBVIOUS
  <2>1. lost'[f] = (lost[f] \/ disk[f] # {file[f]} \/ (at = "saveWrite" /\ save.file = f))
    BY <1>2
  <2>2. lost[f] \in BOOLEAN
    BY DEF TypeOK
  <2> QED
    BY <2>1, <2>2, Zenon
<1>5. Shapes'
  BY <1>1, <1>2 DEF Shapes
<1>6. TypeOK'
  <2>1. \A f \in Files : file'[f] \in disk'[f] /\ disk'[f] \subseteq Contents(f)
    BY <1>3 DEF TypeOK
  <2>2. save'.file \in Files /\ save'.value \in Values[save'.file]
        /\ save'.then \in {"menu", "prepare"}
    BY <1>2, ValuesOf DEF NoSave
  <2>3. at' \in Places /\ delay' \in Values["delay"] /\ pll' \in 0 .. 2
    BY <1>2, ValuesOf DEF Places
  <2>4. enumerated' \in BOOLEAN /\ errorsPersist' \in BOOLEAN
    BY <1>2 DEF TypeOK
  <2>5. \A f \in Files : chosen'[f] \in Values[f]
    BY <1>2 DEF TypeOK
  <2> QED
    BY <1>4, <2>1, <2>2, <2>3, <2>4, <2>5 DEF TypeOK
<1>7. SettingsKept'
  <2> SUFFICES ASSUME NEW f \in Files, ~ lost'[f]
               PROVE  Setting(f)' = chosen'[f]
    BY DEF SettingsKept
  <2>1. ~ lost[f] /\ disk[f] = {file[f]} /\ ~ (at = "saveWrite" /\ save.file = f)
    BY <1>2
  <2>2. file'[f] = file[f]
    BY <1>3, <2>1
  <2>3. Setting(f) = chosen[f]
    BY <2>1 DEF SettingsKept
  <2> QED
    BY <1>2, <2>2, <2>3, SettingSame
<1>8. SpeedSet' /\ SaveForBoot' /\ DelayAsked' /\ EnumeratedAsAsked'
  BY <1>2 DEF SpeedSet, SaveForBoot, DelayAsked, EnumeratedAsAsked, NoSave, Running, Saving
<1> QED
  BY <1>5, <1>6, <1>7, <1>8

LEMMA InvStep ==
  ASSUME IInv, [Next]_vars
  PROVE  IInv'
<1>1. CASE Next
  BY <1>1, BootStep, KeyStep, SaveOpensStep, SaveClosesStep, SyncStep, RestartStep
  DEF Next, Boot, SystemReset, PowerFails
<1>2. CASE UNCHANGED vars
  BY <1>2 DEF vars, IInv, TypeOK, Shapes, Parts, SettingsKept, SpeedSet, SaveForBoot, DelayAsked,
              EnumeratedAsAsked, Setting
<1> QED
  BY <1>1, <1>2

THEOREM BootInvariant == Spec => []IInv
<1>1. IInv /\ [Next]_vars => IInv'
  BY InvStep
<1> QED
  BY InvInit, <1>1, PTL DEF Spec

-----------------------------------------------------------------------------
(* Files, contents on the medium and settings stay well formed.             *)
THEOREM BootTypeCorrect == Spec => []TypeOK
<1>1. IInv => TypeOK
  BY DEF IInv
<1> QED
  BY BootInvariant, <1>1, PTL

(* When the menu waits, the ports run at the speed of the file.             *)
THEOREM SpeedSavedCorrect == Spec => []SpeedAsSaved
<1>1. IInv => SpeedAsSaved
  BY DEF IInv, Parts, SpeedSet, SpeedAsSaved, Running
<1> QED
  BY BootInvariant, <1>1, PTL

(* Settings are lost only to a power failure before they were written.      *)
THEOREM SettingsCorrect == Spec => []SettingsKept
<1>1. IInv => SettingsKept
  BY DEF IInv, Parts
<1> QED
  BY BootInvariant, <1>1, PTL

(* The boot enumerates as the operator asked.                               *)
THEOREM EnumerationCorrect == Spec => []EnumeratedAsAsked
<1>1. IInv => EnumeratedAsAsked
  BY DEF IInv, Parts
<1> QED
  BY BootInvariant, <1>1, PTL
=============================================================================
