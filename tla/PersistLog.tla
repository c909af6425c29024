------------------------------ MODULE PersistLog ------------------------------
(***************************************************************************)
(* System/sys_log.c: warnings and errors are appended to one of two flash  *)
(* banks; when it is full the other one is erased and used.  At start the  *)
(* banks are scanned to find where to go on, and the log task replays them *)
(* on the debug port while the other tasks already append.                 *)
(*                                                                         *)
(* A bank is a row of units.  The first unit of a record holds what the    *)
(* next record written at the same place would hold too (magic, version,   *)
(* length, sequence number); the others what would differ (tick, checksum, *)
(* text).  Programming clears bits only: a unit over another becomes       *)
(* garbage unless the two are the same, and the flash reports no error.    *)
(***************************************************************************)
EXTENDS Naturals, Sequences

CONSTANTS
  BankSize,     \* SYS_FLASH_PERSIST_LOG_BANK_SIZE, in units
  Sizes,        \* of records, header included
  ReplayMax,    \* LOG_PERSIST_REPLAY_DEFAULT_MAX
  MaxRecords,   \* bound: records ever written
  MaxFaults     \* bound: flash operations that report an error

ASSUME PersistAssumption ==
  /\ BankSize \in Nat /\ ReplayMax \in Nat \ {0}
  /\ MaxRecords \in Nat /\ MaxFaults \in Nat
  /\ Sizes \subseteq 2..BankSize

Banks   == {0, 1}
Offsets == 0..BankSize - 1

Blank   == << >>                  \* erased flash
Garbage == <<0>>
Head1(r)    == <<r.seq, r.size>>
Later(r, i) == <<r.id, r.seq, i>>
Unit(r, i)  == IF i = 0 THEN Head1(r) ELSE Later(r, i)

Merged(old, new) ==
  CASE old = Blank -> new
    [] old = new   -> old
    [] OTHER       -> Garbage

BlankBank == [o \in Offsets |-> Blank]

\* A complete record with a matching checksum starts at offset o.
ValidAt(bank, o) ==
  /\ o < BankSize /\ Len(bank[o]) = 2
  /\ o + bank[o][2] <= BankSize
  /\ Len(bank[o + 1]) = 3
  /\ \A i \in 1..bank[o][2] - 1 : bank[o + i] = <<bank[o + 1][1], bank[o][1], i>>

RecordAt(bank, o) == [seq |-> bank[o][1], size |-> bank[o][2], id |-> bank[o + 1][1]]

\* Persist_Log_ScanBank, from any offset: the records it finds and where it stops.
ScanFrom(bank) ==
  LET from[o \in 0..BankSize] ==
        IF ValidAt(bank, o)
          THEN LET rest == from[o + bank[o][2]]
               IN  [found |-> <<RecordAt(bank, o)>> \o rest.found, end |-> rest.end]
          ELSE [found |-> << >>, end |-> o]
  IN  from
Readable(bank)      == ScanFrom(bank)[0].found
EndOfReadable(bank) == ScanFrom(bank)[0].end
LastOf(found) == IF found = << >> THEN 0 ELSE found[Len(found)].seq   \* 0 for has_data = 0
LastSeq(bank) == LastOf(Readable(bank))

OtherBank(b) == 1 - b
\* Mutant of Newer: bank 0 is taken whenever it has data.
NewerUncompared(fl) == IF LastSeq(fl[0]) # 0 THEN 0 ELSE 1

Newer(fl) == IF LastSeq(fl[0]) >= LastSeq(fl[1]) THEN 0 ELSE 1

VARIABLES
  flash,                                          \* the two banks
  s_plog_active_base, s_plog_write_offset, s_plog_next_seq,
  writer,    \* what the holder of s_log_mutex is doing to the flash
  replay,    \* Log_Task_Core replaying
  faults, written,                                \* counters of the bounds
  acked,     \* history: the records appended to each bank with success since it was erased
  damage,    \* history: what happened to each bank since it was erased
  clearFailed    \* history: a clear failed and none has succeeded since

state   == <<s_plog_active_base, s_plog_write_offset, s_plog_next_seq>>
history == <<acked, damage, clearFailed>>
vars == <<flash, state, writer, replay, faults, written, history>>

Idle     == [op |-> "idle"]
Clearing == writer.op \in {"clear0", "clear1"}
Retrying == writer.op \in {"program", "switch"} /\ writer.retry
Erasing  == Clearing \/ writer.op = "switch"
Erased   == CASE writer.op = "switch" -> OtherBank(s_plog_active_base)
              [] writer.op = "clear0" -> 0
              [] writer.op = "clear1" -> 1

TornRecord ==
  damage' = [damage EXCEPT ![s_plog_active_base] = IF @ = "none" THEN "torn" ELSE @]

NoReplay    == [pc |-> "done", disturbed |-> FALSE]
StartReplay == [pc |-> "scan0", disturbed |-> FALSE]

\* What an erase that was cut short may leave: the beginning of the bank, or not.
TornErase ==
  {[flash EXCEPT ![Erased] = [o \in Offsets |-> IF o < cut THEN flash[Erased][o] ELSE fill]]
     : cut \in 0..BankSize, fill \in {Blank, Garbage}}

-------------------------------------------------------------------------------
\* Persist_Log_InitState
InitState(fl) ==
  /\ s_plog_active_base' = Newer(fl)
  /\ s_plog_write_offset' = IF LastSeq(fl[Newer(fl)]) = 0 THEN 0 ELSE EndOfReadable(fl[Newer(fl)])
  /\ s_plog_next_seq' = LastSeq(fl[Newer(fl)]) + 1

Init ==
  /\ flash = [b \in Banks |-> BlankBank]
  /\ s_plog_active_base = 0 /\ s_plog_write_offset = 0 /\ s_plog_next_seq = 1
  /\ writer = Idle
  /\ replay = StartReplay
  /\ faults = 0 /\ written = 0
  /\ acked = [b \in Banks |-> {}] /\ damage = [b \in Banks |-> "none"] /\ clearFailed = FALSE

\* Log_Print of a warning or an error up to its first flash operation.  A task
\* that finds the mutex taken drops its message, which changes nothing.
LogPrint(size) ==
  /\ writer = Idle /\ written < MaxRecords
  /\ written' = written + 1
  /\ writer' = [op    |-> IF s_plog_write_offset + size > BankSize THEN "switch" ELSE "program",
                rec   |-> [seq |-> s_plog_next_seq, size |-> size, id |-> written'],
                at    |-> 0, retry |-> FALSE]
  /\ UNCHANGED <<flash, state, replay, faults, history>>

\* Mutant of SwitchBank: the write offset stays where it was in the other bank.
SwitchBankUnreset ==
  /\ writer.op = "switch"
  /\ flash' = [flash EXCEPT ![Erased] = BlankBank]
  /\ s_plog_active_base' = Erased /\ UNCHANGED s_plog_write_offset
  /\ writer' = [writer EXCEPT !.op = "program"]
  /\ replay' = [replay EXCEPT !.disturbed = @ \/ replay.pc # "done"]
  /\ acked' = [acked EXCEPT ![Erased] = {}]
  /\ damage' = [damage EXCEPT ![Erased] = "none"]
  /\ UNCHANGED <<s_plog_next_seq, faults, written, clearFailed>>

\* Persist_Log_SwitchBank succeeds.
SwitchBank ==
  /\ writer.op = "switch"
  /\ flash' = [flash EXCEPT ![Erased] = BlankBank]
  /\ s_plog_active_base' = Erased /\ s_plog_write_offset' = 0
  /\ writer' = [writer EXCEPT !.op = "program"]
  /\ replay' = [replay EXCEPT !.disturbed = @ \/ replay.pc # "done"]
  /\ acked' = [acked EXCEPT ![Erased] = {}]
  /\ damage' = [damage EXCEPT ![Erased] = "none"]
  /\ UNCHANGED <<s_plog_next_seq, faults, written, clearFailed>>

\* Mutant of Program: the write offset moves on without the header.
ProgramShort ==
  /\ writer.op = "program"
  /\ LET a == s_plog_active_base
         o == s_plog_write_offset + writer.at
         r == writer.rec
         last == writer.at + 1 = r.size
     IN  /\ flash' = [flash EXCEPT ![a][o] = Merged(@, Unit(r, writer.at))]
         /\ writer' = IF last THEN Idle ELSE [writer EXCEPT !.at = @ + 1]
         /\ s_plog_write_offset' = IF last THEN s_plog_write_offset + r.size - 1 ELSE s_plog_write_offset
         /\ s_plog_next_seq' = IF last THEN s_plog_next_seq + 1 ELSE s_plog_next_seq
         /\ acked' = IF last /\ damage[a] # "half-erased" THEN [acked EXCEPT ![a] = @ \cup {r}] ELSE acked
  /\ UNCHANGED <<s_plog_active_base, replay, faults, written, damage, clearFailed>>

\* bsp_flash_write programs the next unit of the record; after the last one the
\* append has succeeded.
Program ==
  /\ writer.op = "program"
  /\ LET a == s_plog_active_base
         o == s_plog_write_offset + writer.at
         r == writer.rec
         last == writer.at + 1 = r.size
     IN  /\ flash' = [flash EXCEPT ![a][o] = Merged(@, Unit(r, writer.at))]
         /\ writer' = IF last THEN Idle ELSE [writer EXCEPT !.at = @ + 1]
         /\ s_plog_write_offset' = IF last THEN s_plog_write_offset + r.size ELSE s_plog_write_offset
         /\ s_plog_next_seq' = IF last THEN s_plog_next_seq + 1 ELSE s_plog_next_seq
         /\ acked' = IF last /\ damage[a] # "half-erased" THEN [acked EXCEPT ![a] = @ \cup {r}] ELSE acked
  /\ UNCHANGED <<s_plog_active_base, replay, faults, written, damage, clearFailed>>

\* It reports an error: the first time the record is retried on a fresh bank.
ProgramFails ==
  /\ writer.op = "program" /\ faults < MaxFaults
  /\ faults' = faults + 1
  /\ LET o == s_plog_write_offset + writer.at
     IN  \E unit \in {flash[s_plog_active_base][o], Garbage} :
            flash' = [flash EXCEPT ![s_plog_active_base][o] = unit]
  /\ writer' = IF writer.retry THEN Idle
               ELSE [writer EXCEPT !.op = "switch", !.at = 0, !.retry = TRUE]
  /\ TornRecord
  /\ UNCHANGED <<state, replay, written, acked, clearFailed>>

\* System_Log_PersistClear: both banks are erased one after the other.
BeginClear ==
  /\ writer = Idle
  /\ writer' = [op |-> "clear0"]
  /\ UNCHANGED <<flash, state, replay, faults, written, history>>

ClearBank ==
  /\ Clearing
  /\ flash' = [flash EXCEPT ![Erased] = BlankBank]
  /\ writer' = IF Erased = 0 THEN [op |-> "clear1"] ELSE Idle
  /\ IF Erased = 0 THEN UNCHANGED <<state, clearFailed>>
     ELSE /\ s_plog_active_base' = 0 /\ s_plog_write_offset' = 0 /\ s_plog_next_seq' = 1
          /\ clearFailed' = FALSE
  /\ replay' = [replay EXCEPT !.disturbed = @ \/ replay.pc # "done"]
  /\ acked' = [acked EXCEPT ![Erased] = {}]
  /\ damage' = [damage EXCEPT ![Erased] = "none"]
  /\ UNCHANGED <<faults, written>>

\* bsp_flash_erase reports an error; the append or the clear gives up.
EraseFails ==
  /\ Erasing /\ faults < MaxFaults
  /\ faults' = faults + 1
  /\ flash' \in TornErase
  /\ writer' = Idle
  /\ replay' = [replay EXCEPT !.disturbed = @ \/ replay.pc # "done"]
  /\ acked' = IF Clearing THEN [b \in Banks |-> {}] ELSE [acked EXCEPT ![Erased] = {}]
  /\ damage' = IF Clearing THEN [b \in Banks |-> "half-erased"]
                ELSE [damage EXCEPT ![Erased] = "half-erased"]
  /\ clearFailed' = (clearFailed \/ Clearing)
  /\ UNCHANGED <<state, written>>

\* A reset at any point, then System_Log_Init.
Reset ==
  /\ IF Erasing
       THEN /\ flash' \in TornErase
            /\ acked' = [acked EXCEPT ![Erased] = {}]
            /\ damage' = [damage EXCEPT ![Erased] = "half-erased"]
       ELSE /\ IF writer.op = "program" /\ writer.at > 0 THEN TornRecord ELSE UNCHANGED damage
            /\ UNCHANGED <<flash, acked>>
  /\ InitState(flash')
  /\ writer' = Idle
  /\ replay' = StartReplay
  /\ UNCHANGED <<faults, written, clearFailed>>

-------------------------------------------------------------------------------
\* System_Log_PersistReplay, by the log task, without the mutex.
ReplayScan0 ==
  /\ replay.pc = "scan0"
  /\ replay' = [pc |-> "scan1", disturbed |-> replay.disturbed, last0 |-> LastSeq(flash[0])]
  /\ UNCHANGED <<flash, state, writer, faults, written, history>>

\* Mutant of ReplayOrder: the banks in the order of their addresses.
ReplayOrderByAddress(last0, last1) ==
  (IF last0 # 0 THEN <<0>> ELSE << >>) \o (IF last1 # 0 THEN <<1>> ELSE << >>)

ReplayOrder(last0, last1) ==
  CASE last0 # 0 /\ last1 # 0 -> IF last0 <= last1 THEN <<0, 1>> ELSE <<1, 0>>
    [] last0 # 0 /\ last1 = 0 -> <<0>>
    [] last0 = 0 /\ last1 # 0 -> <<1>>
    [] OTHER                  -> << >>

ReplayScan1 ==
  /\ replay.pc = "scan1"
  /\ replay' = [pc |-> "show", disturbed |-> replay.disturbed,
                todo |-> ReplayOrder(replay.last0, LastSeq(flash[1])),
                at |-> 0, remain |-> ReplayMax, last |-> 0]
  /\ UNCHANGED <<flash, state, writer, faults, written, history>>

\* Persist_Log_ReplayOneBank shows its next record, or has come to its end.
ReplayRecord ==
  /\ replay.pc = "show"
  /\ IF replay.todo = << >> \/ replay.remain = 0
       THEN replay' = NoReplay
       ELSE LET bank == flash[Head(replay.todo)]
                at   == replay.at
            IN  replay' = IF ValidAt(bank, at)
                            THEN [replay EXCEPT !.at = at + bank[at][2], !.remain = @ - 1,
                                                !.last = bank[at][1]]
                            ELSE [replay EXCEPT !.at = 0, !.todo = Tail(@)]
  /\ UNCHANGED <<flash, state, writer, faults, written, history>>

Next ==
  \/ \E size \in Sizes : LogPrint(size)
  \/ SwitchBank \/ Program \/ ProgramFails
  \/ BeginClear \/ ClearBank \/ EraseFails
  \/ Reset
  \/ ReplayScan0 \/ ReplayScan1 \/ ReplayRecord

Spec == Init /\ [][Next]_vars

-------------------------------------------------------------------------------
Records == [seq : 1..MaxRecords, size : Sizes, id : 1..MaxRecords]
Units == {Blank, Garbage} \cup {Unit(r, i) : r \in Records, i \in Offsets}

\* The statics of sys_log.c name a bank and an offset inside it, and the flash
\* holds units of records and their rests only.
TypeOK ==
  /\ flash \in [Banks -> [Offsets -> Units]]
  /\ s_plog_active_base \in Banks
  /\ s_plog_write_offset \in 0..BankSize
  /\ s_plog_next_seq \in 1..MaxRecords + 1
  /\ writer \in [op : {"idle", "clear0", "clear1"}]
           \cup [op : {"program", "switch"}, rec : Records, at : Offsets, retry : BOOLEAN]
  /\ writer.op \in {"program", "switch"} => writer.at < writer.rec.size
  /\ writer.op = "program" => s_plog_write_offset + writer.rec.size <= BankSize
  /\ replay \in [pc : {"done", "scan0"}, disturbed : BOOLEAN]
           \cup [pc : {"scan1"}, disturbed : BOOLEAN, last0 : 0..MaxRecords]
           \cup [pc : {"show"}, disturbed : BOOLEAN,
                 todo : {<<>>, <<0>>, <<1>>, <<0, 1>>, <<1, 0>>}, at : 0..BankSize,
                 remain : 0..ReplayMax, last : 0..MaxRecords]
  /\ faults \in 0..MaxFaults /\ written \in 0..MaxRecords
  /\ acked \in [Banks -> SUBSET Records]
  /\ damage \in [Banks -> {"none", "torn", "half-erased"}]
  /\ clearFailed \in BOOLEAN

Found(b) == LET found == Readable(flash[b]) IN {found[i] : i \in DOMAIN found}

\* Persist_Log_Append answered 1: the record is found by every later scan, until
\* its bank is erased -- as long as no operation on that bank was cut short.
KeptUnlessBroken == \A b \in Banks : damage[b] = "none" => acked[b] \subseteq Found(b)

\* The same also for a bank on which a write was cut short, as README.md:122 and
\* the retry on a fresh bank in Persist_Log_Append (sys_log.c:258) promise it.
AckedIsReadable == \A b \in Banks : damage[b] # "half-erased" => acked[b] \subseteq Found(b)

\* The log task shows the records of both banks oldest first and none twice,
\* although other tasks append meanwhile, unless a bank is erased under it, or a
\* clear has failed: then what it left may come to stand behind newer records.
ReplayInOrder ==
  [][(replay.pc = "show" /\ replay'.pc = "show" /\ replay'.remain < replay.remain)
       => replay'.disturbed \/ clearFailed \/ replay'.last > replay.last]_vars

\* The bank in use is spoiled at its start: no reader finds what is appended to it.
Spoiled == s_plog_write_offset > 0 /\ Readable(flash[s_plog_active_base]) = << >>

\* What a reader finds in both banks, through resets at any point, is the log
\* that RecordLog promises.
Log == LET found0 == Readable(flash[0])
           found1 == Readable(flash[1])
       IN  IF LastOf(found0) >= LastOf(found1) THEN found1 \o found0 ELSE found0 \o found1
Abstract == INSTANCE RecordLog
              WITH log <- Log, excused <- clearFailed \/ Clearing \/ Retrying \/ Spoiled
ImplementsRecordLog == Abstract!LogSpec
===============================================================================
