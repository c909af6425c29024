----------------------------- MODULE StorageProofs -----------------------------
(***************************************************************************)
(* Proofs about Storage for any number of commands, of upsets and of task  *)
(* names.  That what is stored is found is not inductive by itself: it     *)
(* needs that a write marks its sector before it touches it (UnderWay),    *)
(* that a write which still counts as clean is the only one under way      *)
(* (Alone), and that such a write has found the controller unlocked and    *)
(* has put into its sector exactly the units it has come to (Undisturbed). *)
(***************************************************************************)
EXTENDS Storage, TLAPS

UnderWay == \A a \in Actors : Flashing(a) => job[a].sector \in excused

Alone == \A a, b \in Actors : Flashing(a) /\ job[a].clean /\ Flashing(b) => a = b

Reached(c, image, at, n) == \A i \in 1..n : c[i] = IF i < at THEN image[i] ELSE Blank

Undisturbed ==
  \A a \in Actors : Flashing(a) /\ job[a].clean =>
    /\ job[a].do \in {"erase", "write"} => ~locked
    /\ job[a].do # "write" => job[a].at = 1
    /\ job[a].do \in {"reopen", "write"} =>
         Reached(flash[job[a].sector], job[a].image, job[a].at, Size(job[a].sector))

IInv == TypeOK /\ UnderWay /\ Alone /\ Undisturbed /\ StoredIsFound

(* An image is empty or as long as its sector, and made of its units. *)
LEMMA ImageUnits ==
  ASSUME NEW s \in Sectors, NEW im \in Images(s), im # << >>
  PROVE  im \in [1..Size(s) -> Units(s)] /\ Len(im) = Size(s)
<1>1. CASE s = "boot"
  BY <1>1 DEF Images, Units, Size, FlagImage
<1>2. CASE s = "params"
  <2>1. PICK p \in begun : im = ParamImage(p)
    BY <1>2 DEF Images
  <2>2. \A i \in 1..3 : ParamImage(p)[i] \in Units("params")
    BY DEF Units
  <2> QED
    BY <1>2, <2>1, <2>2 DEF Size, ParamImage
<1>3. CASE s = "fault"
  <2>1. PICK n \in Names : im = NameImage(n)
    BY <1>3 DEF Images
  <2>2. \A i \in 1..2 : NameImage(n)[i] \in Units("fault")
    BY DEF Units
  <2> QED
    BY <1>3, <2>1, <2>2 DEF Size, NameImage
<1> QED
  BY <1>1, <1>2, <1>3 DEF Sectors

(* Only blank flash, broken flash and the units are ever left behind. *)
LEMMA PartlyUnits ==
  ASSUME NEW s \in Sectors, NEW old \in Units(s), NEW new \in Units(s)
  PROVE  Merged(old, new) \in Units(s) /\ Partly(old, new) \subseteq Units(s)
<1>1. Blank \in Units(s) /\ Garbage \in Units(s)
  BY DEF Units
<1> QED
  BY <1>1 DEF Merged, Partly

(* More sets of parameters that were being saved make more units and images. *)
LEMMA UnitsGrow ==
  ASSUME begun \subseteq begun', NEW s \in Sectors
  PROVE  Units(s) \subseteq Units(s)' /\ Images(s) \subseteq Images(s)'
BY DEF Units, Images, Sectors

LEMMA SizeNat == ASSUME NEW s \in Sectors PROVE Size(s) \in {2, 3}
BY DEF Size

Whys == {"check", "mark", "default", "set", "limit", "ota", "clear", "overflow"}

(* A write that is under way, spelled out. *)
LEMMA WriteJob ==
  ASSUME JobsOK, NEW a \in Actors, Flashing(a)
  PROVE  /\ job[a].sector \in Sectors /\ job[a].image \in Images(job[a].sector)
         /\ job[a].at \in 1..Size(job[a].sector) /\ job[a].why \in Whys
         /\ job[a].clean \in BOOLEAN /\ job[a] \in Writes(job[a].sector)
         /\ job[a].image = << >> => job[a].do \in {"unlock", "erase"}
<1>1. job[a] \notin Stages
  BY DEF Flashing, Stages, At
<1>2. PICK s \in Sectors : job[a] \in Writes(s)
  BY <1>1 DEF JobsOK
<1>3. job[a].sector = s
  BY <1>2 DEF Writes
<1> QED
  BY <1>2, <1>3 DEF Writes, Whys, JobsOK

(* A write begins: the other jobs are at most no longer alone. *)
LEMMA BeginJobs ==
  ASSUME JobsOK, begun \subseteq begun', NEW a \in Actors, NEW why \in Whys, NEW s \in Sectors,
         NEW image \in Images(s)', Begin(a, why, s, image)
  PROVE  JobsOK'
<1>1. DOMAIN job' = Actors
  BY DEF Begin, Disturbed
<1>2. ASSUME NEW b \in Actors
      PROVE  /\ job'[b] \in Stages \cup UNION {Writes(r)' : r \in Sectors}
             /\ Flashing(b)' /\ job'[b].image = << >> => job'[b].do \in {"unlock", "erase"}
  <2>1. CASE b = a
    <3>1. job'[b] = [do |-> "unlock", why |-> why, sector |-> s, image |-> image, at |-> 1,
                     clean |-> ~(\E c \in Actors \ {a} : Flashing(c)) /\ (why = "mark" => s \notin excused)]
      BY <2>1 DEF Begin, Disturbed
    <3>2. 1 \in 1..Size(s)
      BY SizeNat
    <3>3. job'[b] \in Writes(s)'
      BY <3>1, <3>2 DEF Writes, Whys
    <3> QED
      BY <3>1, <3>3
  <2>2. CASE b # a /\ ~Flashing(b)
    <3>1. job'[b] = job[b]
      BY <2>2 DEF Begin, Disturbed
    <3>2. job[b] \in Stages
      BY <2>2 DEF JobsOK, Writes, Flashing
    <3> QED
      BY <2>2, <3>1, <3>2 DEF Flashing
  <2>3. CASE b # a /\ Flashing(b)
    <3>1. job'[b] = [job[b] EXCEPT !.clean = FALSE]
      BY <2>3 DEF Begin, Disturbed
    <3>2. PICK r \in Sectors : job[b] \in Writes(r) /\ job[b].image \in Images(r)
      BY <2>3, WriteJob
    <3>3. job[b].image \in Images(r)'
      BY <3>2, UnitsGrow
    <3>4. job'[b] \in Writes(r)'
      BY <3>1, <3>2, <3>3 DEF Writes
    <3>5. job'[b].image = job[b].image /\ job'[b].do = job[b].do
      BY <3>1, <3>2 DEF Writes
    <3>6. job[b].image = << >> => job[b].do \in {"unlock", "erase"}
      BY <2>3, WriteJob
    <3> QED
      BY <3>4, <3>5, <3>6
  <2> QED
    BY <2>1, <2>2, <2>3
<1> QED
  BY <1>1, <1>2 DEF JobsOK

(* A write ends. *)
LEMMA FinishJobs ==
  ASSUME JobsOK, NEW a \in Actors, Flashing(a), NEW ok \in BOOLEAN, Finish(a, ok)
  PROVE  /\ JobsOK' /\ begun' = begun
         /\ job' = [job EXCEPT ![a] = After(job[a].why, ok)]
         /\ After(job[a].why, ok) \in Stages /\ ~Flashing(a)'
<1>1. job[a].why \in Whys
  BY WriteJob
<1>2. After(job[a].why, ok) \in Stages
  BY <1>1 DEF After, Stages, Whys
<1>3. job' = [job EXCEPT ![a] = After(job[a].why, ok)] /\ begun' = begun
  BY DEF Finish
<1>4. ~Flashing(a)'
  BY <1>2, <1>3 DEF Flashing, Stages, At, JobsOK
<1>5. \A s \in Sectors : Writes(s)' = Writes(s)
  BY <1>3 DEF Writes, Images
<1>6. JobsOK'
  BY <1>2, <1>3, <1>4, <1>5 DEF JobsOK, Flashing
<1> QED
  BY <1>2, <1>3, <1>4, <1>6

(* What an erase or a program step that succeeds or not leaves is made of units. *)
LEMMA ErasedUnits ==
  ASSUME FlashOK, JobsOK, begun' = begun, NEW a \in Actors, Flashing(a),
         \/ flash' = flash
         \/ flash' = [flash EXCEPT ![job[a].sector] = BlankSector(job[a].sector)]
         \/ flash' \in PartErased(a)
  PROVE  FlashOK' /\ \A r \in Sectors \ {job[a].sector} : flash'[r] = flash[r]
<1>1. PICK s \in Sectors : job[a].sector = s
  BY WriteJob
<1>2. \A r \in Sectors : Units(r)' = Units(r)
  BY DEF Units
<1>3. CASE flash' = flash
  BY <1>2, <1>3 DEF FlashOK
<1>4. CASE flash' = [flash EXCEPT ![s] = BlankSector(s)]
  <2>1. BlankSector(s) \in [1..Size(s) -> Units(s)]
    BY DEF BlankSector, Units
  <2> QED
    BY <1>1, <1>2, <1>4, <2>1 DEF FlashOK
<1>5. CASE flash' \in PartErased(a)
  <2>1. PICK c \in [1..Size(s) -> {flash[s][i] : i \in 1..Size(s)} \cup {Blank, Garbage}] :
           flash' = [flash EXCEPT ![s] = c]
    BY <1>1, <1>5 DEF PartErased
  <2>2. {flash[s][i] : i \in 1..Size(s)} \cup {Blank, Garbage} \subseteq Units(s)
    <3>1. Blank \in Units(s) /\ Garbage \in Units(s)
      BY DEF Units
    <3> QED
      BY <3>1 DEF FlashOK
  <2>3. c \in [1..Size(s) -> Units(s)]
    BY <2>1, <2>2
  <2> QED
    BY <1>1, <1>2, <2>1, <2>3 DEF FlashOK
<1> QED
  BY <1>1, <1>3, <1>4, <1>5

LEMMA ProgrammedUnits ==
  ASSUME FlashOK, JobsOK, begun' = begun, NEW a \in Actors, job[a].do = "write",
         \/ flash' = flash
         \/ flash' = [flash EXCEPT ![job[a].sector][job[a].at] = Programmed(a)]
         \/ flash' \in PartProgrammed(a)
  PROVE  FlashOK' /\ \A r \in Sectors \ {job[a].sector} : flash'[r] = flash[r]
<1>1. Flashing(a)
  BY DEF Flashing
<1>2. PICK s \in Sectors : job[a].sector = s
  BY <1>1, WriteJob
<1>3. PICK i \in 1..Size(s) : job[a].at = i
  BY <1>1, <1>2, WriteJob
<1>4. \A r \in Sectors : Units(r)' = Units(r)
  BY DEF Units
<1>5. flash[s][i] \in Units(s) /\ job[a].image[i] \in Units(s)
  <2>1. job[a].image \in Images(s) /\ job[a].image # << >>
    BY <1>1, <1>2, WriteJob
  <2> QED
    BY <2>1, ImageUnits DEF FlashOK
<1>6. Programmed(a) \in Units(s) /\ Partly(flash[s][i], Programmed(a)) \subseteq Units(s)
  BY <1>2, <1>3, <1>5, PartlyUnits DEF Programmed
<1>7. ASSUME NEW u \in Units(s), flash' = [flash EXCEPT ![s][i] = u]
      PROVE  FlashOK' /\ \A r \in Sectors \ {s} : flash'[r] = flash[r]
  <2>1. [flash[s] EXCEPT ![i] = u] \in [1..Size(s) -> Units(s)]
    BY DEF FlashOK
  <2>2. flash' = [flash EXCEPT ![s] = [flash[s] EXCEPT ![i] = u]]
    BY <1>7
  <2> QED
    BY <1>4, <2>1, <2>2 DEF FlashOK
<1>8. CASE flash' = flash
  BY <1>4, <1>8 DEF FlashOK
<1>9. CASE flash' = [flash EXCEPT ![s][i] = Programmed(a)]
  BY <1>2, <1>6, <1>7, <1>9
<1>10. CASE flash' \in PartProgrammed(a)
  <2>1. PICK u \in Partly(flash[s][i], Programmed(a)) : flash' = [flash EXCEPT ![s][i] = u]
    BY <1>2, <1>3, <1>10 DEF PartProgrammed
  <2> QED
    BY <1>2, <1>6, <1>7, <2>1
<1> QED
  BY <1>2, <1>3, <1>8, <1>9, <1>10

LEMMA FinishTypes ==
  ASSUME JobsOK, NEW a \in Actors, Flashing(a), NEW ok \in BOOLEAN, Finish(a, ok),
         DOMAIN stored = Sectors, excused \subseteq Sectors
  PROVE  DOMAIN stored' = Sectors /\ excused' \subseteq Sectors
BY WriteJob DEF Finish

LEMMA InitTypes == Init => TypeOK
<1> SUFFICES ASSUME Init PROVE TypeOK
  OBVIOUS
<1>1. FlashOK
  BY DEF Init, FlashOK, BlankSector, Units
<1>2. JobsOK
  BY DEF Init, JobsOK, Stages, At, Flashing
<1>3. Default \in Sets
  BY StorageAssumption DEF Default, Sets
<1>4. commands \in 0..MaxCommands /\ upsets \in 0..MaxUpsets
  BY StorageAssumption DEF Init
<1>5. locked \in BOOLEAN /\ asked \in BOOLEAN /\ DOMAIN stored = Sectors
  BY DEF Init
<1> QED
  BY <1>1, <1>2, <1>3, <1>4, <1>5 DEF Init, TypeOK

(* A step of a write. *)
LEMMA FlashStepTypes ==
  ASSUME TypeOK, NEW a \in Actors, FlashStep(a)
  PROVE  TypeOK'
<1> USE DEF TypeOK
<1>1. CASE Unlock(a)
  <2>1. Flashing(a) /\ begun' = begun /\ UNCHANGED <<flash, pool, commands, upsets, asked, stored, excused>>
    BY <1>1 DEF Unlock, Flashing, history
  <2>2. PICK s \in Sectors : job[a] \in Writes(s)
    BY <2>1, WriteJob
  <2>3. job'[a] \in Writes(s) /\ Flashing(a)'
    BY <1>1, <2>2 DEF Unlock, Writes, JobsOK, Flashing
  <2>4. job'[a].image = job[a].image /\ (job[a].do = "reopen" \/ job'[a].do = "erase")
    BY <1>1, <2>2 DEF Unlock, Writes, JobsOK
  <2>5. job[a].image = << >> => job[a].do \in {"unlock", "erase"}
    BY <2>1, WriteJob
  <2>6. \A r \in Sectors : Writes(r)' = Writes(r) /\ Units(r)' = Units(r)
    BY <2>1 DEF Writes, Images, Units
  <2>7. JobsOK'
    BY <1>1, <2>3, <2>4, <2>5, <2>6 DEF Unlock, JobsOK, Flashing
  <2>8. FlashOK'
    BY <2>1, <2>6 DEF FlashOK
  <2> QED
    BY <1>1, <2>1, <2>7, <2>8 DEF Unlock
<1>2. ASSUME NEW ok \in BOOLEAN, Flashing(a), Finish(a, ok), FlashOK', locked' \in BOOLEAN,
             upsets' \in 0..MaxUpsets
      PROVE  TypeOK'
  BY <1>2, FinishJobs, FinishTypes DEF Finish
<1>3. CASE Erase(a)
  <2>1. Flashing(a) /\ locked' = TRUE /\ upsets' = upsets
    BY <1>3 DEF Erase, Flashing
  <2>2. CASE job[a].image = << >>
    <3>1. Finish(a, TRUE)
      BY <1>3, <2>2 DEF Erase
    <3>2. begun' = begun
      BY <3>1 DEF Finish
    <3>3. FlashOK'
      BY <1>3, <2>1, <3>2, ErasedUnits DEF Erase
    <3> QED
      BY <1>2, <2>1, <3>1, <3>3
  <2>3. CASE job[a].image # << >>
    <3>1. /\ job' = [job EXCEPT ![a].do = "reopen"]
          /\ begun' = begun /\ UNCHANGED <<pool, commands, asked, stored, excused>>
      BY <1>3, <2>3 DEF Erase, history
    <3>2. PICK s \in Sectors : job[a] \in Writes(s)
      BY <2>1, WriteJob
    <3>3. job'[a] \in Writes(s) /\ job'[a].image = job[a].image
      BY <3>1, <3>2 DEF Writes, JobsOK
    <3>4. \A r \in Sectors : Writes(r)' = Writes(r)
      BY <3>1 DEF Writes, Images
    <3>5. JobsOK'
      BY <2>3, <3>1, <3>3, <3>4 DEF JobsOK, Flashing
    <3>6. FlashOK'
      BY <1>3, <2>1, <3>1, ErasedUnits DEF Erase
    <3> QED
      BY <2>1, <3>1, <3>5, <3>6
  <2> QED
    BY <2>2, <2>3
<1>4. CASE EraseFails(a)
  <2>1. Flashing(a) /\ Finish(a, FALSE) /\ locked' = TRUE /\ flash' \in PartErased(a)
    BY <1>4 DEF EraseFails, Flashing
  <2>2. FlashOK'
    BY <2>1, ErasedUnits DEF Finish
  <2>3. upsets' \in 0..MaxUpsets
    BY <1>4, StorageAssumption DEF EraseFails, Upset
  <2> QED
    BY <1>2, <2>1, <2>2, <2>3
<1>5. CASE Program(a)
  <2>1. /\ Flashing(a) /\ job[a].do = "write" /\ upsets' = upsets
        /\ flash' = [flash EXCEPT ![job[a].sector][job[a].at] = Programmed(a)]
    BY <1>5 DEF Program, Flashing
  <2>2. CASE job[a].at = Len(job[a].image)
    <3>1. locked' = TRUE /\ Finish(a, TRUE)
      BY <1>5, <2>2 DEF Program
    <3>2. FlashOK'
      BY <2>1, <3>1, ProgrammedUnits DEF Finish
    <3> QED
      BY <1>2, <2>1, <3>1, <3>2
  <2>3. CASE job[a].at # Len(job[a].image)
    <3>1. /\ job' = [job EXCEPT ![a].at = job[a].at + 1]
          /\ begun' = begun /\ UNCHANGED <<locked, pool, commands, asked, stored, excused>>
      BY <1>5, <2>3 DEF Program, history
    <3>2. PICK s \in Sectors : job[a] \in Writes(s) /\ job[a].sector = s
      BY <2>1, WriteJob
    <3>3. job[a].at \in 1..Size(s) /\ Len(job[a].image) = Size(s)
      BY <2>1, <3>2, WriteJob, ImageUnits
    <3>4. job[a].at + 1 \in 1..Size(s)
      BY <2>3, <3>2, <3>3, SizeNat
    <3>5. job'[a] \in Writes(s) /\ job'[a].image = job[a].image /\ job'[a].do = job[a].do
      BY <3>1, <3>2, <3>4 DEF Writes, JobsOK
    <3>6. \A r \in Sectors : Writes(r)' = Writes(r)
      BY <3>1 DEF Writes, Images
    <3>7. JobsOK'
      BY <2>1, <3>1, <3>5, <3>6 DEF JobsOK, Flashing
    <3>8. FlashOK'
      BY <2>1, <3>1, ProgrammedUnits
    <3> QED
      BY <2>1, <3>1, <3>7, <3>8
  <2> QED
    BY <2>2, <2>3
<1>6. CASE ProgramFails(a)
  <2>1. Flashing(a) /\ job[a].do = "write" /\ Finish(a, FALSE) /\ locked' = TRUE
    BY <1>6 DEF ProgramFails, Flashing
  <2>2. flash' = flash \/ flash' \in PartProgrammed(a)
    BY <1>6 DEF ProgramFails
  <2>3. FlashOK'
    BY <2>1, <2>2, ProgrammedUnits DEF Finish
  <2>4. upsets' \in 0..MaxUpsets
    BY <1>6, StorageAssumption DEF ProgramFails, Upset
  <2> QED
    BY <1>2, <2>1, <2>3, <2>4
<1> QED
  BY <1>1, <1>3, <1>4, <1>5, <1>6 DEF FlashStep

(* What is loaded is a set that was being saved, or the defaults. *)
LEMMA LoadedWhole ==
  ASSUME TypeOK
  PROVE  Loaded(flash["params"]) \in begun
<1> DEFINE c == flash["params"]
<1>1. CASE ~LoadOk(c)
  BY <1>1 DEF Loaded, TypeOK
<1>2. CASE LoadOk(c)
  <2>1. c[3] \in {ParamImage(p)[i] : p \in begun, i \in 1..3}
    BY <1>2 DEF LoadOk, TypeOK, FlashOK, Units, Size, Sectors
  <2>2. PICK p \in begun, i \in 1..3 : c[3] = ParamImage(p)[i]
    BY <2>1
  <2>3. c = ParamImage(c[3][2])
    BY <1>2 DEF LoadOk
  <2>4. c[3] = <<"sum", c[3][2]>>
    BY <2>3 DEF ParamImage
  <2>5. c[3] = <<"sum", p>>
    BY <2>2, <2>4 DEF ParamImage
  <2>6. c[1][2] = p["nrt"] /\ c[2][2] = p["shell"]
    BY <2>3, <2>5 DEF ParamImage
  <2>7. p \in [Fields -> 0..MaxCommands]
    BY DEF TypeOK, Sets
  <2>8. [f \in Fields |-> IF f = "nrt" THEN c[1][2] ELSE c[2][2]] = p
    BY <2>6, <2>7 DEF Fields
  <2> QED
    BY <1>2, <2>8 DEF Loaded
<1> QED
  BY <1>1, <1>2

(* The start, a command or an overflow begins a write. *)
LEMMA BeginTypes ==
  ASSUME TypeOK, NEW a \in Actors, NEW why \in Whys, NEW s \in Sectors, NEW image \in Images(s)',
         Begin(a, why, s, image), begun \subseteq begun', begun' \subseteq Sets, pool' \in Sets,
         UNCHANGED <<flash, locked, upsets, stored>>, asked' \in BOOLEAN, commands' \in 0..MaxCommands
  PROVE  TypeOK'
<1>1. JobsOK'
  BY BeginJobs DEF TypeOK
<1>2. FlashOK'
  BY UnitsGrow DEF FlashOK, TypeOK
<1>3. excused' \subseteq Sectors
  BY DEF Begin, TypeOK
<1> QED
  BY <1>1, <1>2, <1>3 DEF TypeOK

(* A stage of the start is passed. *)
LEMMA StageTypes ==
  ASSUME TypeOK, NEW a \in Actors, NEW st \in Stages, job' = [job EXCEPT ![a] = st], pool' \in Sets,
         UNCHANGED <<flash, locked, commands, upsets, begun, asked, stored, excused>>
  PROVE  TypeOK'
<1>1. \A r \in Sectors : Writes(r)' = Writes(r) /\ Units(r)' = Units(r)
  BY DEF Writes, Images, Units
<1>2. JobsOK'
  BY <1>1 DEF TypeOK, JobsOK, Flashing, Stages, At
<1>3. FlashOK'
  BY <1>1 DEF TypeOK, FlashOK
<1> QED
  BY <1>2, <1>3 DEF TypeOK

LEMMA StartTypes == ASSUME TypeOK, Start PROVE TypeOK'
<1>1. "start" \in Actors /\ "boot" \in Sectors /\ "params" \in Sectors
  BY DEF Actors, Sectors
<1>2. At("mark") \in Stages /\ At("run") \in Stages
  BY DEF Stages
<1>3. \A e \in BOOLEAN : FlagImage(e) \in Images("boot")'
  BY DEF Images
<1>4. Asks(flash["boot"]) \in BOOLEAN
  BY DEF Asks
<1>5. CASE Bootloader
  <2>1. CASE Asks(flash["boot"])
    <3>1. Begin("start", "check", "boot", FlagImage(FALSE)) /\ asked' = FALSE
      BY <1>5, <2>1 DEF Bootloader
    <3> QED
      BY <1>1, <1>3, <1>5, <3>1, BeginTypes DEF Bootloader, TypeOK, Whys
  <2>2. CASE ~Asks(flash["boot"])
    BY <1>1, <1>2, <1>5, <2>2, StageTypes DEF Bootloader, TypeOK
  <2> QED
    BY <2>1, <2>2
<1>6. CASE MarkBootSuccess
  BY <1>1, <1>3, <1>4, <1>6, BeginTypes DEF MarkBootSuccess, TypeOK, Whys
<1>7. CASE PoolInit
  <2>1. pool' \in Sets
    BY <1>7, LoadedWhole DEF PoolInit, TypeOK
  <2>2. CASE LoadOk(flash["params"])
    BY <1>1, <1>2, <1>7, <2>1, <2>2, StageTypes DEF PoolInit
  <2>3. CASE ~LoadOk(flash["params"])
    <3>1. Begin("start", "default", "params", ParamImage(Default)) /\ begun' = begun
      BY <1>7, <2>3 DEF PoolInit
    <3>2. ParamImage(Default) \in Images("params")'
      BY <3>1 DEF Images, TypeOK
    <3> QED
      BY <1>1, <1>7, <2>1, <3>1, <3>2, BeginTypes DEF PoolInit, TypeOK, Whys
  <2> QED
    BY <2>2, <2>3
<1> QED
  BY <1>5, <1>6, <1>7 DEF Start

LEMMA CommandTypes ==
  ASSUME TypeOK,
         \/ \E a \in {"nrt", "shell"} : SaveParams(a) \/ ClearSnapshot(a)
         \/ RequestEnterBootloader
         \/ \E n \in Names : StackOverflow(n)
  PROVE  TypeOK'
<1>1. {"nrt", "shell", "hook"} \subseteq Actors /\ Sectors = {"boot", "params", "fault"}
  BY DEF Actors, Sectors
<1>2. Command => commands' \in 0..MaxCommands /\ commands + 1 \in 0..MaxCommands
  BY StorageAssumption DEF Command, TypeOK
<1>3. ASSUME NEW a \in {"nrt", "shell"}, SaveParams(a) PROVE TypeOK'
  <2>1. PICK p : /\ p = [pool EXCEPT ![a] = commands + 1] /\ begun' = begun \cup {p}
                 /\ Begin(a, IF a = "nrt" THEN "set" ELSE "limit", "params", ParamImage(p))
    BY <1>3 DEF SaveParams
  <2>2. p \in Sets
    BY <1>2, <1>3, <2>1 DEF SaveParams, TypeOK, Sets, Fields
  <2>3. ParamImage(p) \in Images("params")'
    BY <2>1 DEF Images
  <2>4. (IF a = "nrt" THEN "set" ELSE "limit") \in Whys
    BY DEF Whys
  <2>5. begun \subseteq begun' /\ begun' \subseteq Sets
    BY <2>1, <2>2 DEF TypeOK
  <2> QED
    BY <1>1, <1>2, <1>3, <2>1, <2>3, <2>4, <2>5, BeginTypes DEF SaveParams, TypeOK
<1>4. ASSUME NEW a \in {"nrt", "shell"}, ClearSnapshot(a) PROVE TypeOK'
  <2>1. << >> \in Images("fault")'
    BY DEF Images
  <2> QED
    BY <1>1, <1>2, <1>4, <2>1, BeginTypes DEF ClearSnapshot, TypeOK, Whys
<1>5. CASE RequestEnterBootloader
  <2>1. FlagImage(TRUE) \in Images("boot")'
    BY DEF Images
  <2> QED
    BY <1>1, <1>2, <1>5, <2>1, BeginTypes DEF RequestEnterBootloader, TypeOK, Whys
<1>6. ASSUME NEW n \in Names, StackOverflow(n) PROVE TypeOK'
  <2>1. NameImage(n) \in Images("fault")'
    BY DEF Images
  <2> QED
    BY <1>1, <1>2, <1>6, <2>1, BeginTypes DEF StackOverflow, TypeOK, Whys
<1> QED
  BY <1>3, <1>4, <1>5, <1>6

(* A reset leaves no write under way, and in the sectors only what it cut short. *)
LEMMA RestartTypes ==
  ASSUME TypeOK, Restart
  PROVE  /\ TypeOK' /\ \A a \in Actors : ~Flashing(a)'
         /\ \A r \in Sectors : flash'[r] = flash[r] \/ \E a \in Actors : Flashing(a) /\ job[a].sector = r
<1>1. /\ begun' = begun /\ pool' = Default /\ locked' = TRUE
      /\ UNCHANGED <<commands, asked, stored, excused>>
  BY DEF Restart, history
<1>2. FlashOK' /\ \A r \in Sectors : flash'[r] = flash[r] \/ \E a \in Actors : Flashing(a) /\ job[a].sector = r
  <2>1. CASE flash' = flash
    <3>1. \A r \in Sectors : Units(r)' = Units(r)
      BY <1>1 DEF Units
    <3> QED
      BY <2>1, <3>1 DEF TypeOK, FlashOK
  <2>2. ASSUME NEW a \in Actors, job[a].do = "erase", flash' \in PartErased(a)
        PROVE  <1>2!1 /\ <1>2!2
    <3>1. Flashing(a)
      BY <2>2 DEF Flashing
    <3> QED
      BY <1>1, <2>2, <3>1, ErasedUnits DEF TypeOK
  <2>3. ASSUME NEW a \in Actors, job[a].do = "write", flash' \in PartProgrammed(a)
        PROVE  <1>2!1 /\ <1>2!2
    <3>1. Flashing(a)
      BY <2>3 DEF Flashing
    <3> QED
      BY <1>1, <2>3, <3>1, ProgrammedUnits DEF TypeOK
  <2> QED
    BY <2>1, <2>2, <2>3 DEF Restart
<1>3. JobsOK' /\ \A a \in Actors : ~Flashing(a)'
  BY DEF Restart, JobsOK, Stages, At, Flashing
<1>4. upsets' \in 0..MaxUpsets
  BY StorageAssumption DEF Restart, Upset, TypeOK
<1> QED
  BY <1>1, <1>2, <1>3, <1>4 DEF TypeOK

LEMMA LogPrintTypes ==
  ASSUME TypeOK, LogPrint
  PROVE  TypeOK'
<1>1. UNCHANGED <<flash, pool, commands, begun, asked, stored, excused>> /\ job' = Disturbed(job)
  BY DEF LogPrint, history
<1>2. \A r \in Sectors : Writes(r)' = Writes(r) /\ Units(r)' = Units(r)
  BY <1>1 DEF Writes, Images, Units
<1>3. FlashOK'
  BY <1>1, <1>2 DEF TypeOK, FlashOK
<1>4. ASSUME NEW b \in Actors
      PROVE  /\ job'[b] \in Stages \cup UNION {Writes(r) : r \in Sectors}
             /\ Flashing(b)' /\ job'[b].image = << >> => job'[b].do \in {"unlock", "erase"}
  <2>1. CASE ~Flashing(b)
    BY <1>1, <2>1 DEF Disturbed, TypeOK, JobsOK, Flashing
  <2>2. CASE Flashing(b)
    <3>1. job'[b] = [job[b] EXCEPT !.clean = FALSE]
      BY <1>1, <2>2 DEF Disturbed
    <3>2. PICK r \in Sectors : job[b] \in Writes(r)
      BY <2>2, WriteJob DEF TypeOK
    <3>3. job'[b] \in Writes(r) /\ job'[b].image = job[b].image /\ job'[b].do = job[b].do
      BY <3>1, <3>2 DEF Writes
    <3> QED
      BY <2>2, <3>3, WriteJob DEF TypeOK
  <2> QED
    BY <2>1, <2>2
<1>5. JobsOK'
  BY <1>1, <1>2, <1>4 DEF JobsOK, Disturbed
<1>6. upsets' \in 0..MaxUpsets /\ locked' \in BOOLEAN
  BY StorageAssumption DEF LogPrint, Upset, TypeOK
<1> QED
  BY <1>1, <1>3, <1>5, <1>6 DEF TypeOK

LEMMA NextTypes == TypeOK /\ [Next]_vars => TypeOK'
<1> SUFFICES ASSUME TypeOK, [Next]_vars PROVE TypeOK'
  OBVIOUS
<1>1. CASE UNCHANGED vars
  <2>1. UNCHANGED <<flash, locked, job, pool, commands, upsets, begun, asked, stored, excused>>
    BY <1>1 DEF vars, history
  <2>2. \A r \in Sectors : Writes(r)' = Writes(r) /\ Units(r)' = Units(r)
    BY <2>1 DEF Writes, Images, Units
  <2>3. FlashOK' /\ JobsOK'
    BY <2>1, <2>2 DEF TypeOK, FlashOK, JobsOK, Flashing
  <2> QED
    BY <2>1, <2>3 DEF TypeOK
<1>2. CASE \E a \in Actors : FlashStep(a)
  BY <1>2, FlashStepTypes
<1>3. CASE Start
  BY <1>3, StartTypes
<1>4. CASE LogPrint
  BY <1>4, LogPrintTypes
<1>5. CASE Reset \/ PowerCut
  BY <1>5, RestartTypes DEF Reset, PowerCut
<1> QED
  BY <1>1, <1>2, <1>3, <1>4, <1>5, CommandTypes DEF Next

(* Storage keeps its types, whatever the bounds. *)
THEOREM TypeCorrect == Spec => []TypeOK
BY InitTypes, NextTypes, PTL DEF Spec

LEMMA NextWhole == TypeOK /\ WholeSetsOnly /\ [Next]_vars => WholeSetsOnly'
<1> SUFFICES ASSUME TypeOK, WholeSetsOnly, [Next]_vars PROVE WholeSetsOnly'
  OBVIOUS
<1> USE DEF WholeSetsOnly
<1>1. CASE UNCHANGED vars
  BY <1>1 DEF vars, history
<1>2. ASSUME NEW a \in Actors, FlashStep(a) PROVE pool' \in begun'
  <2>1. UNCHANGED <<pool, begun>>
    BY <1>2 DEF FlashStep, Unlock, Erase, EraseFails, Program, ProgramFails, Finish, history
  <2> QED
    BY <2>1
<1>3. CASE Start
  <2>1. begun' = begun /\ (pool' = pool \/ pool' = Loaded(flash["params"]))
    BY <1>3 DEF Start, Bootloader, MarkBootSuccess, PoolInit
  <2> QED
    BY <2>1, LoadedWhole
<1>4. CASE LogPrint
  BY <1>4 DEF LogPrint, history
<1>5. CASE Reset \/ PowerCut
  BY <1>5 DEF Reset, PowerCut, Restart, history, TypeOK
<1>6. ASSUME NEW a \in {"nrt", "shell"}, SaveParams(a) \/ ClearSnapshot(a) PROVE pool' \in begun'
  BY <1>6 DEF SaveParams, ClearSnapshot
<1>7. CASE RequestEnterBootloader \/ \E n \in Names : StackOverflow(n)
  <2>1. UNCHANGED <<pool, begun>>
    BY <1>7 DEF RequestEnterBootloader, StackOverflow
  <2> QED
    BY <2>1
<1> QED
  BY <1>1, <1>2, <1>3, <1>4, <1>5, <1>6, <1>7 DEF Next

(* The parameters in use are the defaults or one whole set that was being saved,
   whatever cuts, errors and overlaps the writes met. *)
THEOREM WholeSets == Spec => []WholeSetsOnly
<1>1. Init => WholeSetsOnly
  BY DEF Init, WholeSetsOnly
<1> QED
  BY <1>1, TypeCorrect, NextWhole, PTL DEF Spec

(* What is found in a sector depends on that sector alone. *)
LEMMA FoundLocal ==
  ASSUME NEW s \in Sectors, NEW f, NEW g, f[s] = g[s]
  PROVE  Found(f, s) = Found(g, s)
BY DEF Found

LEMMA BeginStored ==
  ASSUME IInv, TypeOK', NEW a \in Actors, ~Flashing(a), NEW why, NEW s \in Sectors, NEW image,
         Begin(a, why, s, image), UNCHANGED <<flash, locked, stored>>
  PROVE  IInv'
<1> USE DEF IInv
<1>1. /\ job'[a].do = "unlock" /\ job'[a].sector = s /\ job'[a].at = 1
      /\ job'[a].clean => \A b \in Actors \ {a} : ~Flashing(b)
  BY DEF Begin, Disturbed
<1>2. ASSUME NEW b \in Actors \ {a}, ~Flashing(b) PROVE ~Flashing(b)'
  BY <1>2 DEF Begin, Disturbed, Flashing
<1>3. ASSUME NEW b \in Actors \ {a}, Flashing(b)
      PROVE  job'[b].sector = job[b].sector /\ ~job'[b].clean
  <2>1. job'[b] = [job[b] EXCEPT !.clean = FALSE]
    BY <1>3 DEF Begin, Disturbed
  <2>2. PICK r \in Sectors : job[b] \in Writes(r)
    BY <1>3, WriteJob DEF TypeOK
  <2> QED
    BY <2>1, <2>2 DEF Writes
<1>4. excused' = excused \cup {s}
  BY DEF Begin
<1>5. UnderWay'
  BY <1>1, <1>2, <1>3, <1>4 DEF UnderWay
<1>6. Alone'
  BY <1>1, <1>2, <1>3 DEF Alone
<1>7. Undisturbed'
  BY <1>1, <1>2, <1>3 DEF Undisturbed
<1>8. StoredIsFound'
  BY <1>4 DEF StoredIsFound
<1> QED
  BY <1>5, <1>6, <1>7, <1>8

LEMMA QuietStored ==
  ASSUME IInv, TypeOK', \A a \in Actors : Flashing(a)' => Flashing(a) /\ job'[a] = job[a],
         UNCHANGED <<flash, locked, stored, excused>>
  PROVE  IInv'
BY DEF IInv, UnderWay, Alone, Undisturbed, StoredIsFound

LEMMA LogPrintStored == ASSUME IInv, TypeOK', LogPrint PROVE IInv'
<1> USE DEF IInv
<1>1. UNCHANGED <<flash, stored, excused>> /\ job' = Disturbed(job)
  BY DEF LogPrint, history
<1>2. ASSUME NEW b \in Actors, Flashing(b)'
      PROVE  Flashing(b) /\ job'[b].sector = job[b].sector /\ ~job'[b].clean
  <2>1. Flashing(b)
    BY <1>1, <1>2 DEF Disturbed, Flashing
  <2>2. job'[b] = [job[b] EXCEPT !.clean = FALSE]
    BY <1>1, <2>1 DEF Disturbed
  <2>3. PICK r \in Sectors : job[b] \in Writes(r)
    BY <2>1, WriteJob DEF TypeOK
  <2> QED
    BY <2>1, <2>2, <2>3 DEF Writes
<1> QED
  BY <1>1, <1>2 DEF UnderWay, Alone, Undisturbed, StoredIsFound

LEMMA RestartStored == ASSUME IInv, Restart PROVE IInv'
<1> USE DEF IInv
<1>1. UNCHANGED <<stored, excused>>
  BY DEF Restart, history
<1>2. /\ TypeOK' /\ \A a \in Actors : ~Flashing(a)'
      /\ \A r \in Sectors : flash'[r] = flash[r] \/ r \in excused
  BY RestartTypes DEF UnderWay
<1>3. StoredIsFound'
  BY <1>1, <1>2, FoundLocal DEF StoredIsFound
<1> QED
  BY <1>2, <1>3 DEF UnderWay, Alone, Undisturbed

(* A write that does not end goes on, in a sector that is marked. *)
LEMMA StepStored ==
  ASSUME IInv, TypeOK', NEW a \in Actors, Flashing(a), Flashing(a)',
         job'[a].sector = job[a].sector, job'[a].clean = job[a].clean,
         \A b \in Actors \ {a} : job'[b] = job[b],
         \A r \in Sectors \ {job[a].sector} : flash'[r] = flash[r],
         UNCHANGED <<stored, excused>>,
         job[a].clean =>
           /\ job'[a].do \in {"erase", "write"} => ~locked'
           /\ job'[a].do # "write" => job'[a].at = 1
           /\ job'[a].do \in {"reopen", "write"} =>
                Reached(flash'[job'[a].sector], job'[a].image, job'[a].at, Size(job'[a].sector))
  PROVE  IInv'
<1> USE DEF IInv
<1>1. job[a].sector \in excused
  BY DEF UnderWay
<1>2. \A b \in Actors \ {a} : Flashing(b)' => Flashing(b)
  BY DEF Flashing
<1>3. \A b \in Actors \ {a} : Flashing(b) => ~job[b].clean
  BY DEF Alone
<1>4. UnderWay'
  BY <1>2 DEF UnderWay
<1>5. Alone'
  BY <1>2, <1>3 DEF Alone
<1>6. Undisturbed'
  BY <1>2, <1>3 DEF Undisturbed
<1>7. StoredIsFound'
  BY <1>1, FoundLocal DEF StoredIsFound
<1> QED
  BY <1>4, <1>5, <1>6, <1>7

(* A write ends: when it was clean its sector holds what it wrote. *)
LEMMA FinishStored ==
  ASSUME IInv, TypeOK', NEW a \in Actors, Flashing(a), NEW ok \in BOOLEAN, Finish(a, ok),
         \A r \in Sectors \ {job[a].sector} : flash'[r] = flash[r],
         ok /\ job[a].clean =>
           flash'[job[a].sector] = IF job[a].image = << >> THEN BlankSector(job[a].sector) ELSE job[a].image
  PROVE  IInv'
<1> USE DEF IInv
<1>1. PICK s \in Sectors : job[a].sector = s /\ s \in excused
  BY WriteJob DEF UnderWay, TypeOK
<1>0. DOMAIN job = Actors /\ JobsOK
  BY DEF TypeOK, JobsOK
<1>2. ~Flashing(a)' /\ \A b \in Actors \ {a} : job'[b] = job[b]
  <2>1. ~Flashing(a)'
    BY <1>0, FinishJobs
  <2>2. \A b \in Actors \ {a} : job'[b] = job[b]
    BY <1>0 DEF Finish
  <2> QED
    BY <2>1, <2>2
<1>3. \A b \in Actors \ {a} : Flashing(b)' => Flashing(b) /\ ~job[b].clean
  BY <1>2 DEF Flashing, Alone
<1>4. Alone' /\ Undisturbed'
  BY <1>2, <1>3 DEF Alone, Undisturbed
<1>5. CASE ~(ok /\ job[a].clean)
  <2>1. UNCHANGED <<stored, excused>>
    BY <1>5 DEF Finish
  <2>2. UnderWay'
    BY <1>2, <1>3, <2>1 DEF UnderWay
  <2>3. StoredIsFound'
    BY <1>1, <2>1, FoundLocal DEF StoredIsFound
  <2> QED
    BY <1>4, <2>2, <2>3
<1>6. CASE ok /\ job[a].clean
  <2>1. excused' = excused \ {s} /\ stored' = [stored EXCEPT ![s] = Meaning(s, job[a].image)]
    BY <1>1, <1>6 DEF Finish
  <2>2. \A b \in Actors : ~Flashing(b)'
    BY <1>2, <1>3, <1>6 DEF Alone
  <2>3. stored'[s] = Meaning(s, job[a].image)
    BY <2>1 DEF TypeOK
  <2>4. Found(flash', s) = Meaning(s, job[a].image)
    <3> DEFINE new == [flash EXCEPT ![s] = IF job[a].image = << >> THEN BlankSector(s) ELSE job[a].image]
    <3>1. new[s] = flash'[s]
      BY <1>1, <1>6 DEF TypeOK, FlashOK
    <3>2. Found(flash', s) = Found(new, s)
      <4> HIDE DEF new
      <4> QED
        BY <3>1, FoundLocal
    <3> QED
      BY <3>2 DEF Meaning
  <2>5. ASSUME NEW r \in Sectors \ {s}, r \notin excused' PROVE Found(flash', r) = stored'[r]
    BY <1>1, <2>1, <2>5, FoundLocal DEF StoredIsFound, TypeOK
  <2>6. StoredIsFound'
    BY <2>3, <2>4, <2>5 DEF StoredIsFound
  <2> QED
    BY <1>4, <2>2, <2>6 DEF UnderWay
<1> QED
  BY <1>5, <1>6

LEMMA FlashStepStored == ASSUME IInv, TypeOK', NEW a \in Actors, FlashStep(a) PROVE IInv'
<1> USE DEF IInv
<1>1. Flashing(a)
  BY DEF FlashStep, Unlock, Erase, EraseFails, Program, ProgramFails, Flashing
<1>2. PICK s \in Sectors : job[a] \in Writes(s) /\ job[a].sector = s
  BY <1>1, WriteJob DEF TypeOK
<1>3. DOMAIN job = Actors
  BY DEF TypeOK, JobsOK
<1>4. job[a].image # << >> => job[a].image \in [1..Size(s) -> Units(s)] /\ Len(job[a].image) = Size(s)
  BY <1>1, <1>2, WriteJob, ImageUnits DEF TypeOK
<1>5. flash[s] \in [1..Size(s) -> Units(s)] /\ DOMAIN flash = Sectors
  BY DEF TypeOK, FlashOK
<1>6. CASE Unlock(a)
  <2>1. /\ job' = [job EXCEPT ![a].do = IF job[a].do = "unlock" THEN "erase" ELSE "write"]
        /\ ~locked' /\ UNCHANGED <<flash, stored, excused>> /\ job[a].do \in {"unlock", "reopen"}
    BY <1>6 DEF Unlock, history
  <2>2. /\ job'[a].sector = s /\ job'[a].clean = job[a].clean /\ job'[a].at = job[a].at
        /\ job'[a].image = job[a].image
        /\ job'[a].do = IF job[a].do = "unlock" THEN "erase" ELSE "write"
    BY <1>2, <1>3, <2>1 DEF Writes
  <2>3. Flashing(a)' /\ \A b \in Actors \ {a} : job'[b] = job[b]
    BY <1>3, <2>1, <2>2 DEF Flashing
  <2>4. job[a].clean => job[a].at = 1 /\ (job[a].do = "reopen" => Reached(flash[s], job[a].image, 1, Size(s)))
    BY <1>1, <1>2, <2>1 DEF Undisturbed
  <2> QED
    BY <1>1, <1>2, <2>1, <2>2, <2>3, <2>4, StepStored
<1>7. CASE Erase(a)
  <2>1. job[a].clean => ~locked /\ job[a].at = 1
    BY <1>1, <1>7 DEF Erase, Undisturbed
  <2>2. /\ job[a].clean => flash'[s] = BlankSector(s)
        /\ \A r \in Sectors \ {s} : flash'[r] = flash[r]
    BY <1>2, <1>5, <1>7, <2>1 DEF Erase
  <2>3. CASE job[a].image = << >>
    <3>1. Finish(a, TRUE)
      BY <1>7, <2>3 DEF Erase
    <3> QED
      BY <1>1, <1>2, <2>2, <2>3, <3>1, FinishStored
  <2>4. CASE job[a].image # << >>
    <3>1. job' = [job EXCEPT ![a].do = "reopen"] /\ UNCHANGED <<stored, excused>>
      BY <1>7, <2>4 DEF Erase, history
    <3>2. /\ job'[a].sector = s /\ job'[a].clean = job[a].clean /\ job'[a].at = job[a].at
          /\ job'[a].image = job[a].image /\ job'[a].do = "reopen"
      BY <1>2, <1>3, <3>1 DEF Writes
    <3>3. Flashing(a)' /\ \A b \in Actors \ {a} : job'[b] = job[b]
      BY <1>3, <3>1, <3>2 DEF Flashing
    <3>4. job[a].clean => Reached(flash'[s], job[a].image, 1, Size(s))
      BY <2>2, SizeNat DEF Reached, BlankSector
    <3> QED
      BY <1>1, <1>2, <2>1, <2>2, <3>1, <3>2, <3>3, <3>4, StepStored
  <2> QED
    BY <2>3, <2>4
<1>8. CASE EraseFails(a)
  <2>1. Finish(a, FALSE) /\ flash' \in PartErased(a)
    BY <1>8 DEF EraseFails
  <2>2. \A r \in Sectors \ {s} : flash'[r] = flash[r]
    BY <1>2, <1>5, <2>1 DEF PartErased
  <2> QED
    BY <1>1, <1>2, <2>1, <2>2, FinishStored
<1>9. CASE Program(a)
  <2>1. /\ job[a].do = "write" /\ job[a].at \in 1..Size(s) /\ job[a].image # << >>
        /\ flash' = [flash EXCEPT ![s][job[a].at] = Programmed(a)]
    BY <1>1, <1>2, <1>9, WriteJob DEF Program, TypeOK
  <2>2. \A r \in Sectors \ {s} : flash'[r] = flash[r]
    BY <1>5, <2>1
  <2>3. flash'[s] = [flash[s] EXCEPT ![job[a].at] = Programmed(a)]
    BY <1>5, <2>1
  <2>4. job[a].clean => Reached(flash[s], job[a].image, job[a].at, Size(s))
    BY <1>1, <1>2, <2>1 DEF Undisturbed
  <2>5. job[a].clean => Programmed(a) = job[a].image[job[a].at]
    <3>1. job[a].clean => flash[s][job[a].at] = Blank
      BY <2>1, <2>4, SizeNat DEF Reached
    <3>2. \A new : Merged(Blank, new) = new
      BY DEF Merged
    <3>3. job[a].clean => Programmed(a) = Merged(Blank, job[a].image[job[a].at])
      BY <1>2, <3>1 DEF Programmed
    <3> QED
      BY <3>2, <3>3
  <2>6. job[a].clean => Reached(flash'[s], job[a].image, job[a].at + 1, Size(s))
    BY <1>5, <2>1, <2>3, <2>4, <2>5, SizeNat DEF Reached
  <2>7. CASE job[a].at = Len(job[a].image)
    <3>1. Finish(a, TRUE)
      BY <1>9, <2>7 DEF Program
    <3>2. ASSUME job[a].clean PROVE flash'[s] = job[a].image
      <4>1. \A i \in 1..Size(s) : flash'[s][i] = job[a].image[i]
        BY <1>4, <2>1, <2>6, <2>7, <3>2, SizeNat DEF Reached
      <4>2. flash'[s] \in [1..Size(s) -> Units(s)']
        BY DEF TypeOK, FlashOK
      <4> QED
        BY <1>4, <2>1, <4>1, <4>2
    <3> QED
      BY <1>1, <1>2, <2>1, <2>2, <3>1, <3>2, FinishStored
  <2>8. CASE job[a].at # Len(job[a].image)
    <3>1. job' = [job EXCEPT ![a].at = job[a].at + 1] /\ UNCHANGED <<locked, stored, excused>> /\ ~locked
      BY <1>9, <2>8 DEF Program, history
    <3>2. /\ job'[a].sector = s /\ job'[a].clean = job[a].clean /\ job'[a].at = job[a].at + 1
          /\ job'[a].image = job[a].image /\ job'[a].do = "write"
      BY <1>2, <1>3, <2>1, <3>1 DEF Writes
    <3>3. Flashing(a)' /\ \A b \in Actors \ {a} : job'[b] = job[b]
      BY <1>3, <3>1, <3>2 DEF Flashing
    <3> QED
      BY <1>1, <1>2, <2>2, <2>6, <3>1, <3>2, <3>3, StepStored
  <2> QED
    BY <2>7, <2>8
<1>10. CASE ProgramFails(a)
  <2>1. Finish(a, FALSE) /\ (flash' = flash \/ flash' \in PartProgrammed(a))
    BY <1>10 DEF ProgramFails
  <2>2. \A r \in Sectors \ {s} : flash'[r] = flash[r]
    BY <1>2, <1>5, <2>1 DEF PartProgrammed
  <2> QED
    BY <1>1, <1>2, <2>1, <2>2, FinishStored
<1> QED
  BY <1>6, <1>7, <1>8, <1>9, <1>10 DEF FlashStep

LEMMA NextStored == IInv /\ [Next]_vars => IInv'
<1> SUFFICES ASSUME IInv, [Next]_vars PROVE IInv'
  OBVIOUS
<1>1. TypeOK'
  BY NextTypes DEF IInv
<1>2. CASE UNCHANGED vars
  <2>1. UNCHANGED <<flash, locked, job, stored, excused>>
    BY <1>2 DEF vars, history
  <2> QED
    BY <1>1, <2>1, QuietStored DEF Flashing
<1>3. ASSUME NEW a \in Actors, FlashStep(a) PROVE IInv'
  BY <1>1, <1>3, FlashStepStored
<1>4. CASE LogPrint
  BY <1>1, <1>4, LogPrintStored
<1>5. CASE Reset \/ PowerCut
  BY <1>5, RestartStored DEF Reset, PowerCut
<1>6. "start" \in Actors /\ {"nrt", "shell", "hook"} \subseteq Actors /\ Sectors = {"boot", "params", "fault"}
  BY DEF Actors, Sectors
<1>7. ASSUME NEW a \in Actors, NEW stage, job' = [job EXCEPT ![a] = At(stage)],
             stage \in {"mark", "run"}, UNCHANGED <<flash, locked, stored, excused>>
      PROVE  IInv'
  <2>1. DOMAIN job = Actors
    BY DEF IInv, TypeOK, JobsOK
  <2>2. \A b \in Actors : Flashing(b)' => Flashing(b) /\ job'[b] = job[b]
    BY <1>7, <2>1 DEF Flashing, At
  <2> QED
    BY <1>1, <1>7, <2>2, QuietStored
<1>8. CASE Bootloader
  BY <1>1, <1>6, <1>7, <1>8, BeginStored DEF Bootloader, Flashing
<1>9. CASE MarkBootSuccess
  BY <1>1, <1>6, <1>9, BeginStored DEF MarkBootSuccess, Flashing
<1>10. CASE PoolInit
  BY <1>1, <1>6, <1>7, <1>10, BeginStored DEF PoolInit, Flashing
<1>11. ASSUME NEW a \in {"nrt", "shell"}, SaveParams(a) PROVE IInv'
  BY <1>1, <1>6, <1>11, BeginStored DEF SaveParams, Flashing
<1>12. ASSUME NEW a \in {"nrt", "shell"}, ClearSnapshot(a) PROVE IInv'
  BY <1>1, <1>6, <1>12, BeginStored DEF ClearSnapshot, Flashing
<1>13. CASE RequestEnterBootloader
  BY <1>1, <1>6, <1>13, BeginStored DEF RequestEnterBootloader, Flashing
<1>14. ASSUME NEW n \in Names, StackOverflow(n) PROVE IInv'
  BY <1>1, <1>6, <1>14, BeginStored DEF StackOverflow, Running, Flashing
<1> QED
  BY <1>2, <1>3, <1>4, <1>5, <1>8, <1>9, <1>10, <1>11, <1>12, <1>13, <1>14 DEF Next, Start

(* What was written with nothing in its way is what every start finds, until the
   sector is written again. *)
THEOREM StoredFound == Spec => []StoredIsFound
<1>1. Init => IInv
  <2>1. Init => StoredIsFound /\ \A a \in Actors : ~Flashing(a)
    BY DEF Init, StoredIsFound, Flashing, At
  <2> QED
    BY <2>1, InitTypes DEF IInv, UnderWay, Alone, Undisturbed
<1>2. IInv => StoredIsFound
  BY DEF IInv
<1> QED
  BY <1>1, <1>2, NextStored, PTL DEF Spec
===============================================================================
