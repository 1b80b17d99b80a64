----------------------------- MODULE BootConfig -----------------------------
(***************************************************************************)
(* The boot of the switch board (main.c) and its three configuration       *)
(* files: delayTime.txt, speed.txt and sysResetFile.txt.  They are read at *)
(* boot and rewritten by the menu (uartApp.c, iic_SwSpeedBaudSet), which   *)
(* truncates the file, writes it, and reads it back; nothing is flushed to *)
(* the medium.  The boot itself rewrites speed.txt when it is not zero.    *)
(*                                                                         *)
(* A file of at most six bytes is on the medium as it was before, empty or *)
(* as it is now.  A file that exists can be opened for reading; opening it *)
(* for writing may fail, and then the program closes a NULL file, which    *)
(* ends the process.                                                       *)
(***************************************************************************)
EXTENDS Integers

CONSTANTS
  None,          \* the content of a file that does not exist
  Empty,         \* the content of a truncated file
  DelaySettings, \* the <<bEnum, delay>> of the keys 4, 6 to 9 and a
  SlotNum        \* g_slotNum

Files   == {"delay", "speed", "reset"}
Default == [f \in Files |-> IF f = "delay" THEN <<1, 25>> ELSE 0]
Values  == [f \in Files |-> IF f = "delay" THEN DelaySettings \cup {<<1, 25>>}
                            ELSE IF f = "speed" THEN 0 .. 2 ELSE {0, 1}]
Contents(f) == Values[f] \cup {None, Empty}

ASSUME MarkersAssumption == \A f \in Files : None \notin Values[f] /\ Empty \notin Values[f]
ASSUME DelaysAssumption  == DelaySettings \subseteq {0, 1} \X (0 .. 300)
ASSUME BoardAssumption   == SlotNum \in 0 .. 31

VARIABLES
  at,     \* where the program is
  file,   \* the content of each file as the program sees it
  disk,   \* the contents that may be found after a power failure
  save,   \* the file being written, its new content, and where to go on
  delay,  \* _bSrio and _SrioDelayTime of this boot
  pll,    \* the speed the ports of the chips are set to
  enumerated, \* this boot has enumerated the network
  errorsPersist, \* some port's error register never reads zero
  chosen, \* history: what the operator last set each file to
  lost    \* history: power failed when the file was not yet on the medium

vars == <<at, file, disk, save, delay, pll, enumerated, errorsPersist, chosen, lost>>
filevars == <<file, disk, errorsPersist, chosen, lost>>

Places == {"readDelay", "readSpeed", "saveOpen", "saveWrite", "prepare", "ports", "link",
           "enumerate", "checkReset", "net", "menu", "crashed"}
NoSave == [file |-> "speed", value |-> 0, then |-> "menu"]

(* What a boot makes of a file: one that is missing or empty leaves the     *)
(* initial value of the variable.                                           *)
Setting(f) == IF file[f] \in {None, Empty} THEN Default[f] ELSE file[f]

Init ==
  /\ at = "readDelay"
  /\ file = [f \in Files |-> None]
  /\ disk = [f \in Files |-> {None}]
  /\ save = NoSave
  /\ delay = Default["delay"]
  /\ pll = 0
  /\ enumerated = FALSE
  /\ errorsPersist \in BOOLEAN
  /\ chosen = Default
  /\ lost = [f \in Files |-> FALSE]

-----------------------------------------------------------------------------
(* The boot.                                                                *)

ReadDelay ==
  /\ at = "readDelay"
  /\ delay' = Setting("delay")
  /\ at' = "readSpeed"
  /\ UNCHANGED <<filevars, save, pll, enumerated>>

(* Mutant: the calls for 5.0G and 6.25G are swapped.                        *)
ReadSpeedSwapped ==
  /\ at = "readSpeed"
  /\ IF Setting("speed") = 0
     THEN at' = "prepare" /\ pll' = 0 /\ UNCHANGED save
     ELSE /\ at' = "saveOpen" /\ pll' = 3 - Setting("speed")
          /\ save' = [file |-> "speed", value |-> 3 - Setting("speed"), then |-> "prepare"]
  /\ UNCHANGED <<filevars, delay, enumerated>>

(* The chips come out of reset with 3.125G; another speed is set, and saved *)
(* again.                                                                   *)
ReadSpeed ==
  /\ at = "readSpeed"
  /\ pll' = Setting("speed")
  /\ IF Setting("speed") = 0
     THEN at' = "prepare" /\ UNCHANGED save
     ELSE at' = "saveOpen" /\ save' = [file |-> "speed", value |-> Setting("speed"),
                                       then |-> "prepare"]
  /\ UNCHANGED <<filevars, delay, enumerated>>

(* TTL, counters, the delay, error detection.                               *)
Prepare ==
  /\ at = "prepare"
  /\ at' = "ports"
  /\ UNCHANGED <<filevars, save, delay, pll, enumerated>>

(* Ports 1 and 9 of chip 2 are repaired until both are up without an error  *)
(* stop; a chip that does not answer (0xffff) would keep the boot here.     *)
PortsRecover ==
  /\ at = "ports"
  /\ at' = "link"
  /\ UNCHANGED <<filevars, save, delay, pll, enumerated>>

(* The local link is cleared and read again until it has no error left; a   *)
(* turn that finds one changes nothing here.                                *)
LinkRecovers ==
  /\ at = "link"
  /\ at' = "enumerate"
  /\ UNCHANGED <<filevars, save, delay, pll, enumerated>>

(* Mutant: the flag of the file is not looked at.                           *)
EnumerateAlways ==
  /\ at = "enumerate"
  /\ enumerated' = (SlotNum = 6)
  /\ at' = "checkReset"
  /\ UNCHANGED <<filevars, save, delay, pll>>

Enumerate ==
  /\ at = "enumerate"
  /\ enumerated' = (delay[1] = 1 /\ SlotNum = 6)
  /\ at' = "checkReset"
  /\ UNCHANGED <<filevars, save, delay, pll>>

(* Mutant: the board is reset whenever that is switched on.                 *)
NoResetUnlessOff ==
  /\ at = "checkReset"
  /\ Setting("reset") = 0
  /\ at' = "net"
  /\ UNCHANGED <<filevars, save, delay, pll, enumerated>>

(* No reset: it is not asked for, or SysReset_Ctl finds no error.           *)
NoReset ==
  /\ at = "checkReset"
  /\ Setting("reset") = 0 \/ ~errorsPersist
  /\ at' = "net"
  /\ UNCHANGED <<filevars, save, delay, pll, enumerated>>

Fork ==
  /\ at = "net"
  /\ at' = "menu"
  /\ UNCHANGED <<filevars, save, delay, pll, enumerated>>

-----------------------------------------------------------------------------
(* The board starts again: what was not on the medium may be lost.          *)
Restart ==
  /\ \E d \in disk["delay"], s \in disk["speed"], r \in disk["reset"] :
       /\ file' = [f \in Files |-> IF f = "delay" THEN d ELSE IF f = "speed" THEN s ELSE r]
       /\ disk' = [f \in Files |-> {file'[f]}]
  /\ lost' = [f \in Files |->
                lost[f] \/ disk[f] # {file[f]} \/ (at = "saveWrite" /\ save.file = f)]
  /\ at' = "readDelay"
  /\ pll' = 0 /\ enumerated' = FALSE /\ save' = NoSave /\ delay' = Default["delay"]
  /\ UNCHANGED <<errorsPersist, chosen>>

(* Some port has an error, and reset is switched on.                        *)
SystemReset ==
  /\ at = "checkReset" /\ Setting("reset") # 0
  /\ Restart

PowerFails == Restart

(* The operating system writes a file to the medium when it likes.          *)
Sync(f) ==
  /\ disk' = [disk EXCEPT ![f] = {file[f]}]
  /\ UNCHANGED <<at, file, save, delay, pll, enumerated, errorsPersist, chosen, lost>>

-----------------------------------------------------------------------------
(* Writing a file.                                                          *)

(* fopen truncates, or fails; the text printed then promises a default, or  *)
(* that nothing was set, but fclose(NULL) ends the process.                 *)
SaveOpens ==
  /\ at = "saveOpen"
  /\ \/ at' = "crashed" /\ UNCHANGED <<file, disk>>
     \/ /\ at' = "saveWrite"
        /\ file' = [file EXCEPT ![save.file] = Empty]
        /\ disk' = [disk EXCEPT ![save.file] = @ \cup {Empty}]
  /\ UNCHANGED <<save, delay, pll, enumerated, errorsPersist, chosen, lost>>

(* fclose hands the new content to the operating system.                    *)
SaveCloses ==
  /\ at = "saveWrite"
  /\ file' = [file EXCEPT ![save.file] = save.value]
  /\ disk' = [disk EXCEPT ![save.file] = @ \cup {save.value}]
  /\ at' = save.then
  /\ save' = NoSave
  /\ IF save.then = "menu"
     THEN /\ chosen' = [chosen EXCEPT ![save.file] = save.value]
          /\ lost' = [lost EXCEPT ![save.file] = FALSE]
     ELSE UNCHANGED <<chosen, lost>>
  /\ UNCHANGED <<delay, pll, enumerated, errorsPersist>>

KeySaves(f, v) ==
  /\ at = "menu"
  /\ at' = "saveOpen"
  /\ save' = [file |-> f, value |-> v, then |-> "menu"]

(* Keys 4, 6 to 9 and a; B and b.                                           *)
SetSrioDelay(setting) ==
  /\ KeySaves("delay", setting)
  /\ UNCHANGED <<filevars, delay, pll, enumerated>>

SetSysReset(on) ==
  /\ KeySaves("reset", on)
  /\ UNCHANGED <<filevars, delay, pll, enumerated>>

(* Mutant: as at boot, the default speed is not set.                        *)
SetSpeedUnlessDefault(s) ==
  /\ KeySaves("speed", s)
  /\ pll' = IF s = 0 THEN pll ELSE s
  /\ UNCHANGED <<filevars, delay, enumerated>>

(* Keys s, w and l: the PLLs change before the file does.                   *)
SetSpeed(s) ==
  /\ KeySaves("speed", s)
  /\ pll' = s
  /\ UNCHANGED <<filevars, delay, enumerated>>

Boot == \/ ReadDelay \/ ReadSpeed \/ Prepare \/ Enumerate \/ Fork
        \/ SaveOpens \/ SaveCloses \/ SystemReset

Next ==
  \/ Boot \/ PortsRecover \/ LinkRecovers \/ NoReset \/ PowerFails
  \/ \E f \in Files : Sync(f)
  \/ \E d \in DelaySettings : SetSrioDelay(d)
  \/ \E s \in Values["speed"] : SetSpeed(s)
  \/ \E on \in {0, 1} : SetSysReset(on)

(* The program goes on; the links recover in the end (the waits of main.c   *)
(* 149-158 and iic_srio1848.c 47-101 have no bound); ports that have errors *)
(* only now and then are found without one in the end.                      *)
Spec ==
  /\ Init /\ [][Next]_vars
  /\ WF_vars(Boot) /\ WF_vars(PortsRecover) /\ WF_vars(LinkRecovers) /\ SF_vars(NoReset)

-----------------------------------------------------------------------------
(* The files hold what the program writes to them; what the program sees    *)
(* may always be what is found after a power failure.                       *)
TypeOK ==
  /\ at \in Places
  /\ \A f \in Files : file[f] \in disk[f] /\ disk[f] \subseteq Contents(f)
  /\ save.file \in Files /\ save.value \in Values[save.file]
  /\ save.then \in {"menu", "prepare"}
  /\ delay \in Values["delay"] /\ pll \in 0 .. 2
  /\ enumerated \in BOOLEAN /\ errorsPersist \in BOOLEAN
  /\ \A f \in Files : chosen[f] \in Values[f] /\ lost[f] \in BOOLEAN

(* Whenever the menu waits, the ports run at the speed in speed.txt: boots, *)
(* keys, power failures and the boot that rewrites the file keep the two    *)
(* together (main.c:97-124, iic_srio1848.c:724-771).                        *)
SpeedAsSaved == at = "menu" => pll = Setting("speed")

(* Every setting stays what the operator last made it, over restarts, and   *)
(* although the boot rewrites one of the files; it is lost only to a power  *)
(* failure before the file was on the medium (uartApp.c:99-197).            *)
SettingsKept ==
  \A f \in Files :
    lost[f] \/ (at = "saveWrite" /\ save.file = f) \/ Setting(f) = chosen[f]

(* The network was enumerated at boot if that is what the operator asked    *)
(* for, and never in another slot (main.c:83-95, 160-165).                  *)
EnumeratedAsAsked ==
  (at = "checkReset" /\ ~lost["delay"]) =>
    (enumerated <=> (chosen["delay"][1] = 1 /\ SlotNum = 6))

Resetting == at = "checkReset" /\ Setting("reset") # 0

(* The menu is reached again and again, unless power keeps failing, a file  *)
(* could not be written, or resets are switched on and a port always has an *)
(* error: then the board resets for ever, and the key that switches the     *)
(* resets off is never reached (main.c:167-203).                            *)
MenuReached ==
  \/ []<>(at = "menu")
  \/ []<><<PowerFails /\ ~Resetting>>_vars
  \/ <>[](at = "crashed")
  \/ errorsPersist /\ <>[](Setting("reset") # 0) /\ []<><<SystemReset>>_vars
=============================================================================
