-------------------------------- MODULE Storage -------------------------------
(***************************************************************************)
(* The three flash sectors that are erased and rewritten as a whole: the   *)
(* boot flag (System/sys_boot_flag.c), the parameters (driver_param.c and  *)
(* Bot_Data_Pool_Init) and the snapshot of a stack overflow                *)
(* (User/fault_snapshot.c).  They are used by the start of the firmware,   *)
(* by the NRT task, by the shell, and by the stack overflow hook, and all  *)
(* of them, and the log, share one flash controller and its LOCK bit with  *)
(* nothing to keep them apart.                                             *)
(*                                                                         *)
(* A sector is a row of units that are programmed one after the other.     *)
(* Programming clears bits only and reports no error on flash that is not  *)
(* blank.  The checksum of a set of parameters, or of a task name, is      *)
(* taken to tell different sets, and different names, apart.               *)
(***************************************************************************)
EXTENDS Naturals, Sequences

CONSTANTS
  MaxCommands,  \* bound: commands that write, and stack overflows
  MaxUpsets,    \* bound: flash errors, operations cut short, and log appends amid a write
  Names,        \* of tasks whose stack may overflow
  None          \* no such name

ASSUME StorageAssumption == MaxCommands \in Nat /\ MaxUpsets \in Nat /\ None \notin Names

Sectors == {"boot", "params", "fault"}
Actors  == {"start", "nrt", "shell", "hook"}
Fields  == {"nrt", "shell"}       \* PID and TAM are set by nrt, failsafe limits by shell

Default == [f \in Fields |-> 0]   \* Driver_PidParam_FillDefault
Sets    == [Fields -> 0..MaxCommands]

Blank   == << >>
Garbage == <<"garbage">>
Valid   == <<"valid">>            \* BOOT_VALID_FLAG
Enter   == <<"enter">>            \* enter_bootloader and the bytes around it
Stay    == <<"stay">>

ParamImage(p) == << <<"pid", p["nrt"]>>, <<"limits", p["shell"]>>, <<"sum", p>> >>
NameImage(n)  == << <<"name", n>>, <<"sum", n>> >>
FlagImage(enter) == <<Valid, IF enter THEN Enter ELSE Stay>>

Size(s) == IF s = "params" THEN 3 ELSE 2
BlankSector(s) == [i \in 1..Size(s) |-> Blank]

Merged(old, new) ==
  IF old \in {Blank, new} THEN new
  ELSE IF Stay \in {old, new} THEN Stay     \* all bits clear
  ELSE Garbage

\* What an operation that is cut short leaves of a unit it was turning into new: for
\* the flag it only matters whether it is zero.
Partly(old, new) == {old, new} \cup (IF Stay \in {old, new} THEN {} ELSE {Garbage})

-------------------------------------------------------------------------------
\* Mutant of LoadOk: magic, version and length are right, the checksum is not read.
LoadOkUnchecked(c) == {c[1], c[2]} \cap {Blank, Garbage} = {}

\* Driver_PidParam_Load accepts the sector.
LoadOk(c) == c[3] \notin {Blank, Garbage} /\ c = ParamImage(c[3][2])
Loaded(c) == IF LoadOk(c) THEN [f \in Fields |-> IF f = "nrt" THEN c[1][2] ELSE c[2][2]] ELSE Default

\* System_FaultSnapshot_LoadLastStackOverflowTask
Snapshot(c) == IF c[2] \notin {Blank, Garbage} /\ c = NameImage(c[2][2]) THEN c[2][2] ELSE None

\* Sys_BootFlag_Read: every value but zero asks for the bootloader, that of blank
\* flash too.
Asks(c) == c[1] = Valid /\ c[2] # Stay

Found(fl, s) ==
  CASE s = "boot"   -> Asks(fl[s])
    [] s = "params" -> Loaded(fl[s])
    [] s = "fault"  -> Snapshot(fl[s])

VARIABLES
  flash,     \* the sectors
  locked,    \* the LOCK bit of the flash controller
  job,       \* what each actor does
  pool,      \* s_bricsbot_params
  commands, upsets,    \* counters of the bounds
  begun,     \* history: the sets of parameters whose writing began, and Default
  asked,     \* history: an update was requested, and not yet taken by the bootloader
  stored,    \* history: what was last written to each sector with nothing in its way
  excused    \* history: sectors in which a write failed, was cut or overlapped since

history == <<begun, asked, stored, excused>>
vars == <<flash, locked, job, pool, commands, upsets, history>>

At(stage)   == [do |-> stage]
Flashing(a) == job[a].do \in {"unlock", "erase", "reopen", "write"}
Running     == job["start"].do = "run" /\ job["hook"].do = "idle"
Able(a)     == CASE a = "start" -> job["start"].do # "run"
                 [] a = "hook"  -> TRUE
                 [] OTHER       -> Running

Disturbed(j) == [b \in Actors |-> IF Flashing(b) THEN [j[b] EXCEPT !.clean = FALSE] ELSE j[b]]

\* Actor a calls bsp_flash_erase and then bsp_flash_write; it only erases when the
\* image is empty.  The mark of a successful start copies what it read, so it is
\* no better than that.
Begin(a, why, s, image) ==
  /\ job' = [Disturbed(job) EXCEPT ![a] =
               [do |-> "unlock", why |-> why, sector |-> s, image |-> image, at |-> 1,
                clean |-> ~(\E b \in Actors \ {a} : Flashing(b)) /\ (why = "mark" => s \notin excused)]]
  /\ excused' = excused \cup {s}

\* What the caller does when it is told whether the write succeeded.
After(why, ok) ==
  CASE why = "check"                -> At("mark")
    [] why = "mark"                 -> At("load")
    [] why = "default"              -> IF ok THEN At("reset") ELSE At("run")
    [] why \in {"set", "ota"}       -> At("reset")
    [] why = "limit"                -> IF ok THEN At("reset") ELSE At("idle")
    [] why = "clear"                -> At("idle")
    [] why = "overflow"             -> At("spin")

Meaning(s, image) == Found([flash EXCEPT ![s] = IF image = << >> THEN BlankSector(s) ELSE image], s)

Finish(a, ok) ==
  LET j == job[a]
  IN  /\ job' = [job EXCEPT ![a] = After(j.why, ok)]
      /\ IF ok /\ j.clean
           THEN /\ stored' = [stored EXCEPT ![j.sector] = Meaning(j.sector, j.image)]
                /\ excused' = excused \ {j.sector}
           ELSE UNCHANGED <<stored, excused>>
      /\ UNCHANGED <<pool, commands, begun, asked>>

Init ==
  /\ flash = [s \in Sectors |-> BlankSector(s)]
  /\ locked = TRUE
  /\ job = [a \in Actors |-> IF a = "start" THEN At("bootloader") ELSE At("idle")]
  /\ pool = Default /\ commands = 0 /\ upsets = 0 /\ begun = {Default} /\ asked = FALSE
  /\ stored = [s \in Sectors |-> Found(flash, s)]
  /\ excused = {}

-------------------------------------------------------------------------------
Upset == upsets < MaxUpsets /\ upsets' = upsets + 1

\* FLASH_Unlock, before erasing and again before writing.
Unlock(a) ==
  /\ job[a].do \in {"unlock", "reopen"} /\ Able(a)
  /\ locked' = FALSE
  /\ job' = [job EXCEPT ![a].do = IF @ = "unlock" THEN "erase" ELSE "write"]
  /\ UNCHANGED <<flash, pool, commands, upsets, history>>

\* Mutant of Erase: the sector is not erased.
EraseNot(a) ==
  /\ job[a].do = "erase" /\ Able(a)
  /\ locked' = TRUE
  /\ IF job[a].image = << >> THEN Finish(a, TRUE)
     ELSE job' = [job EXCEPT ![a].do = "reopen"] /\ UNCHANGED <<pool, commands, history>>
  /\ UNCHANGED <<flash, upsets>>

\* FLASH_EraseSector and FLASH_Lock.  When somebody has locked the controller in
\* between, nothing is erased and no error is reported.
Erase(a) ==
  /\ job[a].do = "erase" /\ Able(a)
  /\ flash' = IF locked THEN flash ELSE [flash EXCEPT ![job[a].sector] = BlankSector(job[a].sector)]
  /\ locked' = TRUE
  /\ IF job[a].image = << >> THEN Finish(a, TRUE)
     ELSE job' = [job EXCEPT ![a].do = "reopen"] /\ UNCHANGED <<pool, commands, history>>
  /\ UNCHANGED upsets

PartErased(a) ==
  LET s == job[a].sector
  IN  {[flash EXCEPT ![s] = c] :
         c \in {c \in [1..Size(s) -> {flash[s][i] : i \in 1..Size(s)} \cup {Blank, Garbage}] :
                  \A i \in 1..Size(s) : c[i] \in Partly(flash[s][i], Blank)}}

EraseFails(a) ==
  /\ job[a].do = "erase" /\ Able(a) /\ ~locked
  /\ Upset
  /\ flash' \in PartErased(a)
  /\ locked' = TRUE
  /\ Finish(a, FALSE)

Programmed(a) == Merged(flash[job[a].sector][job[a].at], job[a].image[job[a].at])

\* FLASH_ProgramByte for the bytes of a unit, FLASH_Lock after the last one.
Program(a) ==
  LET j == job[a]
  IN  /\ j.do = "write" /\ Able(a) /\ ~locked
      /\ flash' = [flash EXCEPT ![j.sector][j.at] = Programmed(a)]
      /\ IF j.at = Len(j.image)
           THEN locked' = TRUE /\ Finish(a, TRUE)
           ELSE /\ job' = [job EXCEPT ![a].at = @ + 1]
                /\ UNCHANGED <<locked, pool, commands, history>>
      /\ UNCHANGED upsets

PartProgrammed(a) ==
  LET j == job[a]
  IN  {[flash EXCEPT ![j.sector][j.at] = u] : u \in Partly(flash[j.sector][j.at], Programmed(a))}

\* It reports an error, which it always does when somebody has locked the controller.
ProgramFails(a) ==
  /\ job[a].do = "write" /\ Able(a)
  /\ IF locked THEN UNCHANGED <<flash, upsets>> ELSE flash' \in PartProgrammed(a) /\ Upset
  /\ locked' = TRUE
  /\ Finish(a, FALSE)

\* Log_Print appends to the persistent log in another task: it unlocks and locks
\* the same controller.
LogPrint ==
  /\ Running /\ \E a \in Actors : Flashing(a)
  /\ Upset
  /\ locked' \in BOOLEAN
  /\ job' = Disturbed(job)
  /\ UNCHANGED <<flash, pool, commands, history>>

-------------------------------------------------------------------------------
\* The bootloader calls Sys_BootFlag_CheckAndClearEnterBootloader.
Bootloader ==
  /\ job["start"].do = "bootloader"
  /\ IF Asks(flash["boot"])
       THEN Begin("start", "check", "boot", FlagImage(FALSE)) /\ asked' = FALSE
       ELSE job' = [job EXCEPT !["start"] = At("mark")] /\ UNCHANGED <<asked, excused>>
  /\ UNCHANGED <<flash, locked, pool, commands, upsets, begun, stored>>

\* Mutant of MarkBootSuccess: an invalid flag is not replaced by the default.
MarkBootSuccessUnfilled ==
  /\ job["start"].do = "mark"
  /\ Begin("start", "mark", "boot", flash["boot"])
  /\ UNCHANGED <<flash, locked, pool, commands, upsets, begun, asked, stored>>

\* Sys_BootFlag_MarkBootSuccess
MarkBootSuccess ==
  /\ job["start"].do = "mark"
  /\ Begin("start", "mark", "boot", FlagImage(Asks(flash["boot"])))
  /\ UNCHANGED <<flash, locked, pool, commands, upsets, begun, asked, stored>>

\* Mutant of PoolInit: the defaults get the checksum of another set.
PoolInitUnsummed ==
  /\ job["start"].do = "load"
  /\ pool' = Loaded(flash["params"])
  /\ IF LoadOk(flash["params"])
       THEN job' = [job EXCEPT !["start"] = At("run")] /\ UNCHANGED excused
       ELSE Begin("start", "default", "params",
                  [ParamImage(Default) EXCEPT ![3] = <<"sum", [Default EXCEPT !["nrt"] = 1]>>])
  /\ UNCHANGED <<flash, locked, commands, upsets, begun, asked, stored>>

\* Bot_Data_Pool_Init
PoolInit ==
  /\ job["start"].do = "load"
  /\ pool' = Loaded(flash["params"])
  /\ IF LoadOk(flash["params"])
       THEN job' = [job EXCEPT !["start"] = At("run")] /\ UNCHANGED excused
       ELSE Begin("start", "default", "params", ParamImage(Default))
  /\ UNCHANGED <<flash, locked, commands, upsets, begun, asked, stored>>

Command == commands < MaxCommands /\ commands' = commands + 1

\* A command changes its field in a copy of the pool and saves the copy:
\* Set_PID and TAM by Driver_PidParam_Save, the shell's params failsafe by
\* Driver_PidParam_SaveNoReset.
SaveParams(a) ==
  LET p == [pool EXCEPT ![a] = commands + 1]
  IN  /\ Running /\ job[a].do = "idle" /\ Command
      /\ Begin(a, IF a = "nrt" THEN "set" ELSE "limit", "params", ParamImage(p))
      /\ begun' = begun \cup {p}
      /\ UNCHANGED <<flash, locked, pool, upsets, asked, stored>>

\* Sys_BootFlag_RequestEnterBootloader, for the OTA command.
RequestEnterBootloader ==
  /\ Running /\ job["nrt"].do = "idle" /\ Command
  /\ Begin("nrt", "ota", "boot", FlagImage(TRUE))
  /\ asked' = TRUE
  /\ UNCHANGED <<flash, locked, pool, upsets, begun, stored>>

\* System_FaultSnapshot_ClearStackOverflowTask, for a command of either port.
ClearSnapshot(a) ==
  /\ Running /\ job[a].do = "idle" /\ Command
  /\ Begin(a, "clear", "fault", << >>)
  /\ UNCHANGED <<flash, locked, pool, upsets, begun, asked, stored>>

\* vApplicationStackOverflowHook: from here on no task runs any more.
StackOverflow(n) ==
  /\ Running /\ Command
  /\ Begin("hook", "overflow", "fault", NameImage(n))
  /\ UNCHANGED <<flash, locked, pool, upsets, begun, asked, stored>>

\* A reset: what the controller is doing is cut short.
Restart ==
  /\ \/ UNCHANGED <<flash, upsets>>
     \/ ~locked /\ Upset /\ \E a \in Actors :
          \/ job[a].do = "erase" /\ flash' \in PartErased(a)
          \/ job[a].do = "write" /\ flash' \in PartProgrammed(a)
  /\ locked' = TRUE
  /\ job' = [a \in Actors |-> IF a = "start" THEN At("bootloader") ELSE At("idle")]
  /\ pool' = Default
  /\ UNCHANGED <<commands, history>>

ResetPending == \E a \in Actors : job[a].do \in {"reset", "spin"} /\ Able(a)

\* bsp_cpu_reset, or the watchdog behind the endless loop of the hook.
Reset == ResetPending /\ Restart

\* The power fails, the watchdog strikes or the reset pin is pulled at any other time.
PowerCut == ~ResetPending /\ Restart

FlashStep(a) == Unlock(a) \/ Erase(a) \/ EraseFails(a) \/ Program(a) \/ ProgramFails(a)
Start == Bootloader \/ MarkBootSuccess \/ PoolInit

Next ==
  \/ \E a \in Actors : FlashStep(a)
  \/ Start
  \/ \E a \in {"nrt", "shell"} : SaveParams(a) \/ ClearSnapshot(a)
  \/ RequestEnterBootloader
  \/ \E n \in Names : StackOverflow(n)
  \/ LogPrint
  \/ Reset \/ PowerCut

Spec == Init /\ [][Next]_vars

\* The start and the hook run alone; a reset that was asked for comes.
FairSpec ==
  /\ Spec
  /\ WF_vars(Start) /\ WF_vars(FlashStep("start")) /\ WF_vars(FlashStep("hook"))
  /\ WF_vars(Reset)

-------------------------------------------------------------------------------
Units(s) ==
  {Blank, Garbage} \cup
  CASE s = "boot"   -> {Valid, Enter, Stay}
    [] s = "params" -> {ParamImage(p)[i] : p \in begun, i \in 1..3}
    [] s = "fault"  -> {NameImage(n)[i] : n \in Names, i \in 1..2}
Images(s) ==
  CASE s = "boot"   -> {FlagImage(e) : e \in BOOLEAN}
    [] s = "params" -> {ParamImage(p) : p \in begun}
    [] s = "fault"  -> {<< >>} \cup {NameImage(n) : n \in Names}
Stages == {At(stage) : stage \in {"bootloader", "mark", "load", "run", "idle", "reset", "spin"}}
Writes(s) ==
  [do : {"unlock", "erase", "reopen", "write"}, sector : {s}, image : Images(s), at : 1..Size(s),
   why : {"check", "mark", "default", "set", "limit", "ota", "clear", "overflow"}, clean : BOOLEAN]

FlashOK == /\ DOMAIN flash = Sectors
           /\ \A s \in Sectors : flash[s] \in [1..Size(s) -> Units(s)]
JobsOK  == /\ DOMAIN job = Actors
           /\ \A a \in Actors : job[a] \in Stages \cup UNION {Writes(s) : s \in Sectors}
           /\ \A a \in Actors : Flashing(a) /\ job[a].image = << >> => job[a].do \in {"unlock", "erase"}

\* Every unit of a sector is blank, broken or part of an image of that sector, and
\* every write is of such an image.
TypeOK ==
  /\ FlashOK /\ JobsOK
  /\ locked \in BOOLEAN /\ asked \in BOOLEAN
  /\ commands \in 0..MaxCommands /\ upsets \in 0..MaxUpsets
  /\ begun \subseteq Sets /\ Default \in begun /\ pool \in Sets
  /\ DOMAIN stored = Sectors /\ excused \subseteq Sectors

\* The parameters in use are the defaults or one set that a command was saving,
\* never parts of two sets or of the flash between them -- wherever resets, flash
\* errors and the other users of the controller have cut or mixed the writes.
WholeSetsOnly == pool \in begun

\* What was written with nothing in its way is what is found, from then on, by
\* every start, whatever happens to the other sectors, until it is written again.
StoredIsFound == \A s \in Sectors \ excused : Found(flash, s) = stored[s]

\* Unless the power fails again and again the start comes to its end: a sector
\* that cannot be read or written never keeps the robot in a loop of resets.
StartsUp == []<><<PowerCut>>_vars \/ []<>Running

\* The flag asks for the bootloader when an update was requested and not otherwise
\* (sys_boot_flag.c:57).
BootloaderOnlyIfAsked ==
  [][Bootloader /\ job'["start"].do = "unlock" => asked]_vars
===============================================================================
