--------------------------- MODULE PersistLogProofs ---------------------------
(* What the scan of a bank finds, for banks of any size, and from it the types *)
(* of PersistLog, that what was appended with success is found again, that the *)
(* log task replays in order, and that a reader finds the log of RecordLog.    *)
(* The scan is a recursive function; induction is over sets of numbers, with   *)
(* the least element of a set as its principle.                                *)
EXTENDS PersistLog, Integers, NaturalsInduction, WellFoundedInduction, TLAPS

-------------------------------------------------------------------------------
(* A set of natural numbers with a member has a least one. *)
LEMMA LeastMember ==
  ASSUME NEW T \in SUBSET Nat, T # {}
  PROVE  \E x \in T : \A y \in T : x <= y
<1>1. \E x \in T : \A y \in T : ~(<<y, x>> \in OpToRel(<, Nat))
  BY NatLessThanWellFounded, WFMin
<1>2. \A x \in Nat, y \in Nat : y < x => <<y, x>> \in OpToRel(<, Nat)
  BY DEF OpToRel
<1>3. PICK x \in T : \A y \in T : ~(<<y, x>> \in OpToRel(<, Nat))
  BY <1>1, Zenon
<1>4. \A y \in T : ~(y < x)
  BY <1>2, <1>3, Zenon
<1> QED  BY <1>4

(* Induction over the natural numbers for a set. *)
LEMMA SetInduction ==
  ASSUME NEW T, 0 \in T, \A n \in Nat : n \in T => n + 1 \in T
  PROVE  \A n \in Nat : n \in T
<1> DEFINE U == {n \in Nat : n \notin T}
<1> SUFFICES ASSUME U # {} PROVE FALSE
  OBVIOUS
<1>1. PICK x \in U : \A y \in U : x <= y
  <2>1. U \in SUBSET Nat
    OBVIOUS
  <2> HIDE DEF U
  <2> QED  BY LeastMember, <2>1, Zenon
<1>2. x \in Nat /\ x \notin T
  OBVIOUS
<1>3. x # 0
  BY <1>2, Zenon
<1>4. x - 1 \in Nat /\ ~(x <= x - 1)
  BY <1>2, <1>3
<1>5. x - 1 \in T
  BY <1>1, <1>4
<1> QED  BY <1>2, <1>4, <1>5

-------------------------------------------------------------------------------
Bank == [Offsets -> Units]

(* What the length of a unit says about it. *)
LEMMA Shape ==
  ASSUME NEW u \in Units
  PROVE  /\ Len(u) = 2 => u[1] \in 1..MaxRecords /\ u[2] \in Sizes
         /\ Len(u) = 3 => u[1] \in 1..MaxRecords
<1>1. CASE u = Blank \/ u = Garbage
  <2>1. Len(u) = 0 \/ Len(u) = 1
    BY <1>1 DEF Blank, Garbage
  <2> QED  BY <2>1
<1>2. ASSUME NEW r \in Records, u = Head1(r)
      PROVE  Len(u) = 2 /\ u[1] \in 1..MaxRecords /\ u[2] \in Sizes
  BY <1>2 DEF Head1, Records
<1>3. ASSUME NEW r \in Records, NEW i \in Offsets, u = Later(r, i)
      PROVE  Len(u) = 3 /\ u[1] \in 1..MaxRecords
  BY <1>3 DEF Later, Records
<1>4. \/ u = Blank \/ u = Garbage
      \/ \E r \in Records : u = Head1(r)
      \/ \E r \in Records, i \in Offsets : u = Later(r, i)
  <2> SUFFICES ASSUME u # Blank, u # Garbage
               PROVE  \/ \E r \in Records : u = Head1(r)
                      \/ \E r \in Records, i \in Offsets : u = Later(r, i)
    OBVIOUS
  <2>1. PICK r \in Records, i \in Offsets : u = Unit(r, i)
    BY DEF Units
  <2> QED  BY <2>1 DEF Unit
<1> QED  BY <1>1, <1>2, <1>3, <1>4

(* A record takes two units at least and fits a bank. *)
LEMMA SizesPositive == Sizes \subseteq 2..BankSize /\ BankSize \in Nat
BY PersistAssumption

(* A record that is valid ends inside the bank. *)
LEMMA ValidEnds ==
  ASSUME NEW bank \in Bank, NEW o \in 0..BankSize, ValidAt(bank, o)
  PROVE  /\ o < BankSize /\ bank[o][2] \in Sizes
         /\ o + bank[o][2] \in o + 1..BankSize
         /\ RecordAt(bank, o) \in Records
<1>1. o \in Offsets /\ Len(bank[o]) = 2 /\ o + bank[o][2] <= BankSize
  BY SizesPositive DEF ValidAt, Offsets
<1>2. bank[o] \in Units
  BY <1>1 DEF Bank
<1>3. bank[o][1] \in 1..MaxRecords /\ bank[o][2] \in Sizes
  BY <1>1, <1>2, Shape
<1>4. bank[o][2] \in 2..BankSize
  BY <1>3, SizesPositive
<1>5. o + 1 \in Offsets
  BY <1>1, <1>4, SizesPositive DEF Offsets
<1>6. bank[o + 1] \in Units /\ Len(bank[o + 1]) = 3
  BY <1>5 DEF Bank, ValidAt
<1>7. bank[o + 1][1] \in 1..MaxRecords
  BY <1>6, Shape
<1> QED  BY <1>1, <1>3, <1>4, <1>7, SizesPositive DEF RecordAt, Records, Offsets

(* The scan satisfies the equation it is defined by. *)
Scanned(bank, f, o) ==
  IF ValidAt(bank, o)
    THEN [found |-> <<RecordAt(bank, o)>> \o f[o + bank[o][2]].found,
          end   |-> f[o + bank[o][2]].end]
    ELSE [found |-> << >>, end |-> o]

(* The recursive function of the scan is what its equation says. *)
LEMMA ScanDefined ==
  ASSUME NEW bank \in Bank
  PROVE  ScanFrom(bank) = [o \in 0..BankSize |-> Scanned(bank, ScanFrom(bank), o)]
<1> DEFINE N == BankSize
           T == {k \in Nat : k <= N =>
                   \E g : g = [o \in (N - k)..N |-> Scanned(bank, g, o)]}
<1>0. N \in Nat
  BY SizesPositive
<1>1. 0 \in T
  <2> DEFINE g == [o \in N..N |-> [found |-> << >>, end |-> o]]
  <2>1. \A o \in N..N : ~ValidAt(bank, o)
    BY <1>0 DEF ValidAt
  <2>2. g = [o \in N..N |-> Scanned(bank, g, o)]
    BY <2>1 DEF Scanned
  <2> QED  BY <1>0, <2>2
<1>2. ASSUME NEW k \in Nat, k \in T  PROVE k + 1 \in T
  <2> SUFFICES ASSUME k + 1 <= N
               PROVE  \E g : g = [o \in (N - (k + 1))..N |-> Scanned(bank, g, o)]
    BY <1>0
  <2> DEFINE m == N - (k + 1)
  <2>0. m \in 0..N /\ m + 1 = N - k
    BY <1>0
  <2>1. PICK g : g = [o \in (m + 1)..N |-> Scanned(bank, g, o)]
    <3>1. \E g : g = [o \in (N - k)..N |-> Scanned(bank, g, o)]
      BY <1>0, <1>2, <2>0
    <3> HIDE DEF m, N
    <3> QED  BY <2>0, <3>1, Zenon
  <2> DEFINE h == [o \in m..N |-> Scanned(bank, g, o)]
  <2>2. \A o \in (m + 1)..N : h[o] = g[o]
    <3> HIDE DEF m
    <3>1. \A o \in (m + 1)..N : o \in m..N
      BY <1>0, <2>0
    <3> QED  BY <2>1, <3>1, Zenon
  <2>3. ASSUME NEW o \in m..N  PROVE Scanned(bank, g, o) = Scanned(bank, h, o)
    <3>1. CASE ValidAt(bank, o)
      <4>1. o + bank[o][2] \in (m + 1)..N
        BY <1>0, <2>0, <3>1, ValidEnds
      <4> QED  BY <2>2, <4>1, Zenon DEF Scanned
    <3> QED  BY <3>1, Zenon DEF Scanned
  <2>4. h = [o \in m..N |-> Scanned(bank, h, o)]
    <3> DEFINE hh == [o \in m..N |-> Scanned(bank, h, o)]
    <3>1. \A o \in m..N : h[o] = hh[o]
      BY <2>3, Zenon
    <3> QED  BY <3>1, Zenon
  <2> QED  BY <2>4, Zenon
<1>3. N \in T
  <2> HIDE DEF T
  <2> QED  BY <1>0, <1>1, <1>2, SetInduction, Zenon
<1>4. \E g : g = [o \in 0..N |-> Scanned(bank, g, o)]
  BY <1>0, <1>3
<1> QED  BY <1>4, Zenon DEF ScanFrom, Scanned

(* One step of the scan, from the record at an offset to the next one. *)
LEMMA ScanStep ==
  ASSUME NEW bank \in Bank, NEW o \in 0..BankSize
  PROVE  /\ ValidAt(bank, o) =>
              LET rest == ScanFrom(bank)[o + bank[o][2]]
              IN  ScanFrom(bank)[o] = [found |-> <<RecordAt(bank, o)>> \o rest.found,
                                       end   |-> rest.end]
         /\ ~ValidAt(bank, o) => ScanFrom(bank)[o] = [found |-> << >>, end |-> o]
<1> DEFINE f == ScanFrom(bank)
<1>1. f = [p \in 0..BankSize |-> Scanned(bank, f, p)]
  BY ScanDefined
<1>2. f[o] = Scanned(bank, f, o)
  <2> HIDE DEF f
  <2> QED  BY <1>1, Zenon
<1> QED  BY <1>2, Zenon DEF Scanned

(* What a step finds, and where the scan then ends. *)
LEMMA ScanOn ==
  ASSUME NEW bank \in Bank, NEW o \in 0..BankSize, ValidAt(bank, o)
  PROVE  LET rest == ScanFrom(bank)[o + bank[o][2]]
         IN  /\ ScanFrom(bank)[o].found = <<RecordAt(bank, o)>> \o rest.found
             /\ ScanFrom(bank)[o].end = rest.end
<1> DEFINE rest == ScanFrom(bank)[o + bank[o][2]]
           more == <<RecordAt(bank, o)>> \o rest.found
<1>1. ScanFrom(bank)[o] = [found |-> more, end |-> rest.end]
  BY ScanStep, Zenon
<1>2. ASSUME NEW scan, NEW m, NEW e, scan = [found |-> m, end |-> e]
      PROVE  scan.found = m /\ scan.end = e
  BY <1>2
<1> HIDE DEF rest, more
<1>3. ScanFrom(bank)[o].found = more /\ ScanFrom(bank)[o].end = rest.end
  BY <1>1, <1>2, Zenon
<1> QED  BY <1>3, Zenon DEF rest, more

(* It finds records, all of a set in which every valid record is, and stops    *)
(* inside the bank where none is valid.                                        *)
Scans(bank, R, o) ==
  /\ ScanFrom(bank)[o].found \in Seq(R)
  /\ ScanFrom(bank)[o].end \in o..BankSize
  /\ ~ValidAt(bank, ScanFrom(bank)[o].end)

(* A scan finds members of R only, and ends in the bank or at its end. *)
LEMMA ScanWithin ==
  ASSUME NEW bank \in Bank, NEW R,
         \A o \in 0..BankSize : ValidAt(bank, o) => RecordAt(bank, o) \in R
  PROVE  \A o \in 0..BankSize : Scans(bank, R, o)
<1> DEFINE N == BankSize
           T == {k \in Nat : \A o \in 0..N : N - k <= o => Scans(bank, R, o)}
<1>0. N \in Nat
  BY SizesPositive
<1>1. ASSUME NEW o \in 0..N, ~ValidAt(bank, o)  PROVE Scans(bank, R, o)
  <2>1. ScanFrom(bank)[o] = [found |-> << >>, end |-> o]
    BY <1>1, ScanStep
  <2> QED  BY <1>0, <1>1, <2>1 DEF Scans
<1>2. 0 \in T
  <2>1. \A o \in 0..N : N - 0 <= o => ~ValidAt(bank, o)
    BY <1>0 DEF ValidAt
  <2> QED  BY <1>1, <2>1
<1>3. ASSUME NEW k \in Nat, k \in T  PROVE k + 1 \in T
  <2> SUFFICES ASSUME NEW o \in 0..N, N - (k + 1) <= o, ValidAt(bank, o)
               PROVE  Scans(bank, R, o)
    BY <1>1
  <2> DEFINE p == o + bank[o][2]
             rest == ScanFrom(bank)[p]
  <2>1. p \in o + 1..N /\ RecordAt(bank, o) \in R
    BY ValidEnds
  <2>2. p \in 0..N /\ N - k <= p
    BY <1>0, <2>1
  <2>3. Scans(bank, R, p)
    BY <1>3, <2>2
  <2>4. ScanFrom(bank)[o] = [found |-> <<RecordAt(bank, o)>> \o rest.found, end |-> rest.end]
    BY ScanStep
  <2> HIDE DEF p
  <2>5. rest.found \in Seq(R) /\ rest.end \in o..N /\ ~ValidAt(bank, rest.end)
    BY <1>0, <2>1, <2>3 DEF Scans
  <2>6. <<RecordAt(bank, o)>> \o rest.found \in Seq(R)
    BY <2>1, <2>5
  <2> QED  BY <2>4, <2>5, <2>6 DEF Scans
<1>4. N \in T
  <2> HIDE DEF T
  <2> QED  BY <1>0, <1>2, <1>3, SetInduction, Zenon
<1> QED  BY <1>0, <1>4

ScanOK(bank, o) == Scans(bank, Records, o)

(* What a scan finds are records. *)
LEMMA ScanTypes ==
  ASSUME NEW bank \in Bank
  PROVE  \A o \in 0..BankSize : ScanOK(bank, o)
BY ScanWithin, ValidEnds DEF ScanOK

(* The same for the scan of a whole bank. *)
LEMMA ReadableTypes ==
  ASSUME NEW bank \in Bank
  PROVE  Readable(bank) \in Seq(Records) /\ EndOfReadable(bank) \in 0..BankSize
BY ScanTypes, SizesPositive DEF ScanOK, Scans, Readable, EndOfReadable

(* What is programmed behind the place where the scan stops leaves what is     *)
(* found before, and the scan goes on from that place.                         *)
Goes(bank, new, e, o) ==
  ScanFrom(bank)[o].end = e =>
    /\ ScanFrom(new)[o].found = ScanFrom(bank)[o].found \o ScanFrom(new)[e].found
    /\ ScanFrom(new)[o].end = ScanFrom(new)[e].end

(* Banks that agree before an offset are scanned the same up to there. *)
LEMMA ScanGoes ==
  ASSUME NEW bank \in Bank, NEW new \in Bank, NEW e \in 0..BankSize,
         \A o \in Offsets : o < e => new[o] = bank[o]
  PROVE  \A o \in 0..e : Goes(bank, new, e, o)
<1> DEFINE N == BankSize
           T == {k \in Nat : \A o \in 0..e : e - k <= o => Goes(bank, new, e, o)}
<1>0. N \in Nat
  BY SizesPositive
<1>a. \A o \in 0..N : ScanOK(bank, o) /\ ScanOK(new, o)
  BY ScanTypes
<1>1. ASSUME NEW o \in 0..N, ~ValidAt(bank, o)  PROVE Goes(bank, new, e, o)
  <2>1. ScanFrom(bank)[o] = [found |-> << >>, end |-> o]
    BY <1>1, ScanStep
  <2>2. ScanFrom(new)[e].found \in Seq(Records)
    BY <1>a DEF ScanOK, Scans
  <2> QED  BY <2>1, <2>2 DEF Goes
<1>2. 0 \in T
  <2>1. ScanFrom(bank)[e].end = e => ~ValidAt(bank, e)
    BY <1>a DEF ScanOK, Scans
  <2>2. Goes(bank, new, e, e)
    BY <1>1, <2>1 DEF Goes
  <2> QED  BY <1>0, <2>2
<1>3. ASSUME NEW k \in Nat, k \in T  PROVE k + 1 \in T
  <2> SUFFICES ASSUME NEW o \in 0..e, e - (k + 1) <= o, ValidAt(bank, o),
                      ScanFrom(bank)[o].end = e
               PROVE  Goes(bank, new, e, o)
    <3>1. \A o \in 0..e : o \in 0..N
      BY <1>0
    <3>2. \A o \in 0..e : ScanFrom(bank)[o].end # e => Goes(bank, new, e, o)
      BY DEF Goes
    <3>3. k + 1 \in Nat
      OBVIOUS
    <3> HIDE DEF N
    <3> QED  BY <1>1, <3>1, <3>2, <3>3
  <2>0. o \in 0..N
    BY <1>0
  <2> DEFINE p == o + bank[o][2]
  <2>1. p \in o + 1..N /\ RecordAt(bank, o) \in Records
    BY <2>0, ValidEnds
  <2>2. ScanFrom(bank)[o] = [found |-> <<RecordAt(bank, o)>> \o ScanFrom(bank)[p].found,
                             end   |-> ScanFrom(bank)[p].end]
    BY <2>0, ScanStep
  <2>3. ScanFrom(bank)[p].end = e
    <3> HIDE DEF p
    <3> QED  BY <2>2
  <2>4. p \in 0..e /\ e - k <= p
    BY <1>0, <1>a, <2>1, <2>3 DEF ScanOK, Scans
  <2>5. Goes(bank, new, e, p)
    BY <1>3, <2>4
  <2>6. ValidAt(new, o) /\ new[o] = bank[o] /\ RecordAt(new, o) = RecordAt(bank, o)
    <3>1. o < BankSize /\ Len(bank[o]) = 2 /\ bank[o][2] \in 2..N
      BY <2>0, ValidEnds, SizesPositive DEF ValidAt
    <3>2. \A i \in 0..bank[o][2] - 1 : o + i \in Offsets /\ o + i < e
      BY <1>0, <2>4, <3>1 DEF Offsets
    <3>3. \A i \in 0..bank[o][2] - 1 : new[o + i] = bank[o + i]
      BY <3>2
    <3>4. new[o] = bank[o] /\ new[o + 1] = bank[o + 1]
      BY <3>3, <3>1
    <3>5. \A i \in 1..bank[o][2] - 1 : new[o + i] = bank[o + i]
      BY <3>3, <3>1
    <3> QED  BY <3>4, <3>5 DEF ValidAt, RecordAt
  <2>7. /\ ScanFrom(new)[o].found = <<RecordAt(bank, o)>> \o ScanFrom(new)[p].found
        /\ ScanFrom(new)[o].end = ScanFrom(new)[p].end
    <3>1. new[o][2] = bank[o][2]
      BY <2>6
    <3>2. /\ ScanFrom(new)[o].found = <<RecordAt(new, o)>> \o ScanFrom(new)[p].found
          /\ ScanFrom(new)[o].end = ScanFrom(new)[p].end
      <4>1. p = o + new[o][2]
        BY <3>1
      <4> HIDE DEF p
      <4> QED  BY <2>0, <2>6, <4>1, ScanOn, Zenon
    <3> QED  BY <2>6, <3>2
  <2> HIDE DEF p
  <2>8. /\ ScanFrom(new)[p].found = ScanFrom(bank)[p].found \o ScanFrom(new)[e].found
        /\ ScanFrom(new)[p].end = ScanFrom(new)[e].end
    BY <2>3, <2>5 DEF Goes
  <2>9. /\ ScanFrom(bank)[p].found \in Seq(Records)
        /\ ScanFrom(new)[e].found \in Seq(Records)
    BY <1>0, <1>a, <2>1 DEF ScanOK, Scans
  <2>10. \A r \in Records, s, t \in Seq(Records) : <<r>> \o (s \o t) = (<<r>> \o s) \o t
    OBVIOUS
  <2>11. ScanFrom(new)[o].found = ScanFrom(bank)[o].found \o ScanFrom(new)[e].found
    <3>1. ScanFrom(bank)[o].found = <<RecordAt(bank, o)>> \o ScanFrom(bank)[p].found
      BY <2>2
    <3> QED  BY <2>1, <2>7, <2>8, <2>9, <2>10, <3>1
  <2>12. ScanFrom(new)[o].end = ScanFrom(new)[e].end
    BY <2>7, <2>8
  <2> QED  BY <2>11, <2>12 DEF Goes
<1>4. e \in T
  <2> HIDE DEF T
  <2>1. e \in Nat
    BY <1>0
  <2> QED  BY <2>1, <1>2, <1>3, SetInduction, Zenon
<1> QED  BY <1>0, <1>4

(* A bank that differs behind the end of the scan only is read as before up to there. *)
LEMMA ScanExtends ==
  ASSUME NEW bank \in Bank, NEW new \in Bank, NEW e \in 0..BankSize,
         e = EndOfReadable(bank), \A o \in Offsets : o < e => new[o] = bank[o]
  PROVE  /\ Readable(new) = Readable(bank) \o ScanFrom(new)[e].found
         /\ EndOfReadable(new) = ScanFrom(new)[e].end
<1>1. 0 \in 0..e
  BY SizesPositive
<1> QED  BY <1>1, ScanGoes DEF Goes, Readable, EndOfReadable

-------------------------------------------------------------------------------
Writing == writer.op \in {"program", "switch"}

(* Every number in flash, and the number of the record being written, is one   *)
(* that has been given out.                                                    *)
NumbersGiven ==
  /\ \A b \in Banks : \A o \in Offsets : Len(flash[b][o]) = 2 => flash[b][o][1] <= written
  /\ s_plog_next_seq <= written + 1
  /\ Writing => writer.rec.seq = s_plog_next_seq /\ s_plog_next_seq <= written

TInv == TypeOK /\ NumbersGiven

ReplayStates ==
  [pc : {"done", "scan0"}, disturbed : BOOLEAN]
    \cup [pc : {"scan1"}, disturbed : BOOLEAN, last0 : 0..MaxRecords]
    \cup [pc : {"show"}, disturbed : BOOLEAN,
          todo : {<<>>, <<0>>, <<1>>, <<0, 1>>, <<1, 0>>}, at : 0..BankSize,
          remain : 0..ReplayMax, last : 0..MaxRecords]

(* A replay that is disturbed keeps its type. *)
LEMMA DisturbTypes ==
  ASSUME TypeOK, replay' = [replay EXCEPT !.disturbed = @ \/ replay.pc # "done"]
  PROVE  replay' \in ReplayStates
<1>1. (replay.disturbed \/ replay.pc # "done") \in BOOLEAN
  OBVIOUS
<1>2. CASE replay \in [pc : {"done", "scan0"}, disturbed : BOOLEAN]
  BY <1>1, <1>2 DEF ReplayStates
<1>3. CASE replay \in [pc : {"scan1"}, disturbed : BOOLEAN, last0 : 0..MaxRecords]
  BY <1>1, <1>3 DEF ReplayStates
<1>4. CASE replay \in [pc : {"show"}, disturbed : BOOLEAN,
                       todo : {<<>>, <<0>>, <<1>>, <<0, 1>>, <<1, 0>>}, at : 0..BankSize,
                       remain : 0..ReplayMax, last : 0..MaxRecords]
  BY <1>1, <1>4 DEF ReplayStates
<1> QED  BY <1>2, <1>3, <1>4 DEF TypeOK

(* An erased bank is a bank, of blank units. *)
LEMMA BlankTypes == BlankBank \in Bank /\ \A o \in Offsets : Len(BlankBank[o]) = 0
BY DEF BlankBank, Blank, Bank, Units

(* No record begins in a blank or a spoiled unit. *)
LEMMA NoValid ==
  ASSUME NEW bank \in Bank, ~ValidAt(bank, 0)
  PROVE  Readable(bank) = << >> /\ EndOfReadable(bank) = 0 /\ LastSeq(bank) = 0
<1>0. 0 \in 0..BankSize
  BY SizesPositive
<1>1. ScanFrom(bank)[0] = [found |-> << >>, end |-> 0]
  BY <1>0, ScanStep, Zenon
<1> QED  BY <1>1 DEF Readable, EndOfReadable, LastSeq, LastOf

(* Nothing is found in an erased bank. *)
LEMMA BlankFound ==
  Readable(BlankBank) = << >> /\ EndOfReadable(BlankBank) = 0 /\ LastSeq(BlankBank) = 0
<1>1. ~ValidAt(BlankBank, 0)
  <2>1. 0 < BankSize => Len(BlankBank[0]) = 0
    BY BlankTypes, SizesPositive DEF Offsets
  <2> QED  BY <2>1 DEF ValidAt
<1> QED  BY <1>1, BlankTypes, NoValid

(* A sequence that begins with something is not empty. *)
LEMMA NeverEmpty ==
  ASSUME NEW S, NEW x \in S, NEW s \in Seq(S)  PROVE <<x>> \o s # << >>
OBVIOUS

(* The last number found in a bank. *)
LEMMA LastSeqGiven ==
  ASSUME NEW bank \in Bank, NEW m \in Nat,
         \A o \in Offsets : Len(bank[o]) = 2 => bank[o][1] <= m
  PROVE  /\ LastSeq(bank) \in 0..m
         /\ LastSeq(bank) = 0 => Readable(bank) = << >> /\ EndOfReadable(bank) = 0
<1> DEFINE R == {r \in Records : r.seq <= m}
<1>1. \A o \in 0..BankSize : ValidAt(bank, o) => RecordAt(bank, o) \in R
  <2> SUFFICES ASSUME NEW o \in 0..BankSize, ValidAt(bank, o)
               PROVE  RecordAt(bank, o) \in R
    OBVIOUS
  <2>1. o \in Offsets /\ Len(bank[o]) = 2
    BY SizesPositive DEF ValidAt, Offsets
  <2> QED  BY <2>1, ValidEnds DEF RecordAt
<1>2. \A o \in 0..BankSize : Scans(bank, R, o)
  <2> HIDE DEF R
  <2> QED  BY <1>1, ScanWithin
<1>3. Readable(bank) \in Seq(R)
  BY <1>2, SizesPositive DEF Scans, Readable
<1>4. CASE Readable(bank) = << >>
  <2>1. ~ValidAt(bank, 0)
    <3> SUFFICES ASSUME ValidAt(bank, 0) PROVE FALSE
      OBVIOUS
    <3> DEFINE rest == ScanFrom(bank)[0 + bank[0][2]]
    <3>1. 0 + bank[0][2] \in 0..BankSize
      BY ValidEnds, SizesPositive
    <3>2. rest.found \in Seq(R)
      BY <1>2, <3>1 DEF Scans
    <3>3. Readable(bank) = <<RecordAt(bank, 0)>> \o rest.found
      <4>1. 0 \in 0..BankSize
        BY SizesPositive
      <4> QED  BY <4>1, ScanOn, Zenon DEF Readable
    <3>4. RecordAt(bank, 0) \in R
      BY <1>1, SizesPositive
    <3> HIDE DEF R, rest
    <3> QED  BY <1>4, <3>2, <3>3, <3>4, NeverEmpty, Zenon
  <2> QED  BY <1>4, <2>1, NoValid
<1>5. CASE Readable(bank) # << >>
  <2>1. Readable(bank)[Len(Readable(bank))] \in R
    BY <1>3, <1>5
  <2> QED  BY <1>5, <2>1 DEF LastSeq, LastOf, Records
<1> QED  BY <1>4, <1>5

(* What a torn erase leaves. *)
LEMMA TornTypes ==
  ASSUME TInv, Erasing, NEW fl \in TornErase
  PROVE  /\ Erased \in Banks
         /\ fl \in [Banks -> Bank]
         /\ \A b \in Banks : b # Erased => fl[b] = flash[b]
         /\ \A o \in Offsets : fl[Erased][o] \in {flash[Erased][o], Blank, Garbage}
<1>1. Erased \in Banks
  BY DEF TInv, TypeOK, Erasing, Clearing, Erased, OtherBank, Banks
<1>2. flash \in [Banks -> Bank]
  BY DEF TInv, TypeOK, Bank
<1>3. PICK cut \in 0..BankSize, fill \in {Blank, Garbage} :
        fl = [flash EXCEPT ![Erased] =
                [o \in Offsets |-> IF o < cut THEN flash[Erased][o] ELSE fill]]
  BY DEF TornErase
<1>4. fill \in Units
  BY <1>3 DEF Units
<1>5. [o \in Offsets |-> IF o < cut THEN flash[Erased][o] ELSE fill] \in Bank
  BY <1>1, <1>2, <1>4 DEF Bank
<1> QED  BY <1>1, <1>2, <1>3, <1>5 DEF Bank

(* The statics as the start computes them. *)
LEMMA NewStatics ==
  ASSUME NEW fl \in [Banks -> Bank], NEW m \in 0..MaxRecords,
         \A b \in Banks : \A o \in Offsets : Len(fl[b][o]) = 2 => fl[b][o][1] <= m,
         InitState(fl)
  PROVE  /\ s_plog_active_base' \in Banks
         /\ s_plog_write_offset' = EndOfReadable(fl[s_plog_active_base'])
         /\ s_plog_write_offset' \in 0..BankSize
         /\ s_plog_next_seq' \in 1..m + 1
<1>1. \A b \in Banks : fl[b] \in Bank
  OBVIOUS
<1>2. Newer(fl) \in Banks
  BY DEF Newer, Banks
<1>3. m \in Nat
  BY PersistAssumption
<1>4. /\ LastSeq(fl[Newer(fl)]) \in 0..m
      /\ LastSeq(fl[Newer(fl)]) = 0 => EndOfReadable(fl[Newer(fl)]) = 0
  BY <1>1, <1>2, <1>3, LastSeqGiven
<1>5. EndOfReadable(fl[Newer(fl)]) \in 0..BankSize
  BY <1>1, <1>2, ReadableTypes
<1> QED  BY <1>2, <1>3, <1>4, <1>5 DEF InitState

(* The first state has its types. *)
LEMMA FirstTypes == Init => TInv
<1> SUFFICES ASSUME Init PROVE TInv
  OBVIOUS
<1>1. BlankBank \in [Offsets -> Units] /\ \A o \in Offsets : Len(BlankBank[o]) = 0
  BY BlankTypes DEF Bank
<1>b. StartReplay \in ReplayStates
  BY DEF StartReplay, ReplayStates
<1>a. Idle \in [op : {"idle", "clear0", "clear1"}] /\ Idle.op = "idle"
  BY DEF Idle
<1>2. TypeOK
  <2>1. flash \in [Banks -> [Offsets -> Units]]
    BY <1>1 DEF Init
  <2>2. acked \in [Banks -> SUBSET Records]
    BY DEF Init
  <2>3. 0 \in 0..BankSize /\ 1 \in 1..MaxRecords + 1 /\ 0 \in 0..MaxFaults /\ 0 \in 0..MaxRecords
    BY PersistAssumption
  <2> QED  BY <1>a, <1>b, <2>1, <2>2, <2>3 DEF Init, TypeOK, Banks, ReplayStates
<1>3. NumbersGiven
  BY <1>1, PersistAssumption DEF Init, NumbersGiven, Banks, Idle, Writing
<1> QED  BY <1>2, <1>3 DEF TInv

(* A unit in flash after an erase, torn or not, or after a programming. *)
LEMMA UnitKinds ==
  /\ Blank \in Units /\ Garbage \in Units /\ Len(Blank) = 0 /\ Len(Garbage) = 1
  /\ \A u, v : Merged(u, v) \in {u, v, Garbage}
BY DEF Units, Blank, Garbage, Merged

(* A unit of a record bears the number of the record. *)
LEMMA UnitOfRecord ==
  ASSUME NEW r \in Records, NEW i \in Offsets
  PROVE  /\ Unit(r, i) \in Units
         /\ Len(Unit(r, i)) = 2 => Unit(r, i)[1] = r.seq
BY DEF Units, Unit, Head1, Later

(* The steps one by one: Log_Print. *)
LEMMA LogPrintTypes ==
  ASSUME TInv, NEW size \in Sizes, LogPrint(size)  PROVE TInv'
<1> USE DEF TInv
<1>1. writer' = [op |-> writer'.op, rec |-> writer'.rec, at |-> 0, retry |-> FALSE]
  BY DEF LogPrint
<1>2. writer'.op \in {"program", "switch"} /\ writer'.rec \in Records
  BY PersistAssumption DEF LogPrint, TypeOK, NumbersGiven, Records
<1>3. 0 \in Offsets /\ size \in 2..BankSize
  BY PersistAssumption DEF Offsets
<1>5. writer'.rec.size = size /\ writer'.rec.seq = s_plog_next_seq
  BY DEF LogPrint
<1>4. writer'.op = "program" => s_plog_write_offset + writer'.rec.size <= BankSize
  <2>1. s_plog_write_offset + size > BankSize => writer'.op = "switch"
    BY DEF LogPrint
  <2> QED  BY <1>3, <1>5, <2>1, PersistAssumption DEF TypeOK
<1>6. writer' \in [op : {"program", "switch"}, rec : Records, at : Offsets, retry : BOOLEAN]
  <2> DEFINE op == writer'.op
             rec == writer'.rec
  <2>1. op \in {"program", "switch"} /\ rec \in Records
    BY <1>2
  <2>2. writer' = [op |-> op, rec |-> rec, at |-> 0, retry |-> FALSE]
    BY <1>1
  <2> HIDE DEF op, rec
  <2> QED  BY <1>3, <2>1, <2>2
<1>7. writer'.at = 0 /\ writer'.rec.size > 0 /\ written' \in 0..MaxRecords
  BY <1>1, <1>3, <1>5, PersistAssumption DEF LogPrint, TypeOK
<1>8. TypeOK'
  BY <1>4, <1>6, <1>7 DEF TypeOK, LogPrint, state, history
<1>9. NumbersGiven'
  <2>1. written' = written + 1 /\ written \in Nat /\ flash' = flash
        /\ s_plog_next_seq' = s_plog_next_seq /\ s_plog_next_seq \in Nat
    BY PersistAssumption DEF LogPrint, TypeOK, state
  <2>2. \A b \in Banks : \A o \in Offsets : Len(flash[b][o]) = 2 => flash[b][o][1] \in Nat
    BY Shape, PersistAssumption DEF TypeOK
  <2>3. \A b \in Banks : \A o \in Offsets : Len(flash[b][o]) = 2 => flash[b][o][1] <= written + 1
    BY <2>1, <2>2 DEF NumbersGiven
  <2> QED  BY <1>5, <2>1, <2>3 DEF NumbersGiven, Writing
<1> QED  BY <1>8, <1>9

Given(u) == u \in Units /\ (Len(u) = 2 => u[1] <= written)

(* What programming leaves in a unit bears no number that was not given out. *)
LEMMA GivenUnits ==
  /\ Given(Blank) /\ Given(Garbage)
  /\ \A u, v : Given(u) /\ Given(v) => Given(Merged(u, v))
<1>1. Given(Blank) /\ Given(Garbage)
  <2>1. Len(Blank) # 2 /\ Len(Garbage) # 2
    BY UnitKinds
  <2> QED  BY <2>1, UnitKinds, Zenon DEF Given
<1> QED  BY <1>1, UnitKinds

(* A unit of a bank is programmed. *)
LEMMA ProgramUnit ==
  ASSUME TInv, NEW b \in Banks, NEW o \in Offsets, NEW u, Given(u),
         flash' = [flash EXCEPT ![b][o] = u]
  PROVE  /\ flash' \in [Banks -> [Offsets -> Units]]
         /\ \A c \in Banks : \A p \in Offsets : Len(flash'[c][p]) = 2 => flash'[c][p][1] <= written
BY DEF TInv, TypeOK, NumbersGiven, Given

(* What every action needs to know of the state it starts from. *)
LEMMA FlashTypes ==
  ASSUME TInv
  PROVE  /\ s_plog_active_base \in Banks /\ OtherBank(s_plog_active_base) \in Banks
         /\ OtherBank(s_plog_active_base) # s_plog_active_base
         /\ flash \in [Banks -> Bank] /\ s_plog_write_offset \in 0..BankSize
         /\ s_plog_next_seq \in Nat \ {0} /\ written \in Nat
         /\ \A b \in Banks : b = s_plog_active_base \/ b = OtherBank(s_plog_active_base)
<1>1. s_plog_next_seq \in 1..MaxRecords + 1 /\ written \in 0..MaxRecords /\ MaxRecords \in Nat
  BY PersistAssumption DEF TInv, TypeOK
<1>2. s_plog_next_seq \in Nat \ {0} /\ written \in Nat
  BY <1>1
<1> QED  BY <1>2 DEF TInv, TypeOK, Bank, Banks, OtherBank

(* The writer that has a record to write. *)
LEMMA WriterTypes ==
  ASSUME TypeOK, writer.op \in {"program", "switch"}
  PROVE  /\ writer \in [op : {"program", "switch"}, rec : Records, at : Offsets, retry : BOOLEAN]
         /\ writer.rec \in Records /\ writer.at \in Offsets /\ writer.retry \in BOOLEAN
         /\ writer.rec.size \in 2..BankSize /\ writer.at \in Nat /\ writer.at < writer.rec.size
         /\ s_plog_write_offset \in 0..BankSize
         /\ writer.op = "program" => s_plog_write_offset + writer.rec.size <= BankSize
<1>1. writer \in [op : {"program", "switch"}, rec : Records, at : Offsets, retry : BOOLEAN]
  <2>1. \/ writer \in [op : {"idle", "clear0", "clear1"}]
        \/ writer \in [op : {"program", "switch"}, rec : Records, at : Offsets, retry : BOOLEAN]
    BY DEF TypeOK
  <2> QED  BY <2>1
<1>2. writer.rec \in Records /\ writer.at \in Offsets /\ writer.retry \in BOOLEAN
  BY <1>1
<1>3. writer.rec.size \in 2..BankSize
  BY <1>2, PersistAssumption DEF Records
<1>4. writer.at \in Nat
  BY <1>2, PersistAssumption DEF Offsets
<1>5. /\ writer.at < writer.rec.size /\ s_plog_write_offset \in 0..BankSize
      /\ writer.op = "program" => s_plog_write_offset + writer.rec.size <= BankSize
  BY DEF TypeOK
<1> QED  BY <1>1, <1>2, <1>3, <1>4, <1>5

(* Types are kept by programming a unit. *)
LEMMA ProgramTypes ==
  ASSUME TInv, Program \/ ProgramFails  PROVE TInv'
<1> USE DEF TInv
<1> DEFINE a == s_plog_active_base
           o == s_plog_write_offset + writer.at
           r == writer.rec
<1>1. writer \in [op : {"program", "switch"}, rec : Records, at : Offsets, retry : BOOLEAN]
      /\ writer.op = "program"
  <2>1. writer.op = "program"
    BY DEF Program, ProgramFails
  <2> QED  BY <2>1, WriterTypes
<1>2. /\ r \in Records /\ writer.at \in Offsets /\ writer.retry \in BOOLEAN
      /\ r.size \in 2..BankSize /\ writer.at < r.size
  BY <1>1, WriterTypes
<1>3. a \in Banks /\ o \in Offsets /\ flash[a][o] \in Units
      /\ s_plog_write_offset + r.size \in 0..BankSize
  <2>1. s_plog_write_offset \in 0..BankSize /\ s_plog_write_offset + r.size <= BankSize
    BY <1>1, WriterTypes
  <2>2. o \in Offsets
    BY <1>2, <2>1, PersistAssumption DEF Offsets
  <2>3. a \in Banks /\ flash[a] \in Bank
    BY FlashTypes
  <2>4. flash[a][o] \in Units
    <3> HIDE DEF a, o
    <3> QED  BY <2>2, <2>3 DEF Bank
  <2>5. s_plog_write_offset + r.size \in 0..BankSize
    BY <1>2, <2>1, PersistAssumption
  <2> QED  BY <2>2, <2>3, <2>4, <2>5
<1>4. Len(flash[a][o]) = 2 => flash[a][o][1] <= written
  BY <1>3 DEF NumbersGiven
<1>5. r.seq = s_plog_next_seq /\ s_plog_next_seq <= written
  BY <1>1 DEF NumbersGiven, Writing
<1>6. /\ s_plog_next_seq \in Nat /\ written \in 0..MaxRecords
      /\ s_plog_next_seq \in 1..MaxRecords + 1
      /\ s_plog_next_seq + 1 \in 1..MaxRecords + 1
  BY <1>5, PersistAssumption DEF TypeOK
<1> HIDE DEF a, o, r
<1>7. CASE Program
  <2> DEFINE u == Merged(flash[a][o], Unit(r, writer.at))
             last == writer.at + 1 = r.size
  <2>1. Given(u)
    <3>1. Given(Unit(r, writer.at)) /\ Given(flash[a][o])
      BY <1>2, <1>3, <1>4, <1>5, UnitOfRecord DEF Given
    <3> QED  BY <3>1, GivenUnits
  <2>2. flash' = [flash EXCEPT ![a][o] = u]
    BY <1>7 DEF Program, a, o, r
  <2> HIDE DEF u
  <2>3. /\ flash' \in [Banks -> [Offsets -> Units]]
        /\ \A c \in Banks : \A p \in Offsets : Len(flash'[c][p]) = 2 => flash'[c][p][1] <= written
    BY <1>3, <2>1, <2>2, ProgramUnit
  <2>4. CASE last
    <3>1. /\ writer' = Idle /\ s_plog_write_offset' = s_plog_write_offset + r.size
          /\ s_plog_next_seq' = s_plog_next_seq + 1
          /\ s_plog_active_base' = a /\ written' = written
      BY <1>7, <2>4 DEF Program, a, r
    <3>2. writer' \in [op : {"idle", "clear0", "clear1"}] /\ writer'.op = "idle"
      BY <3>1 DEF Idle
    <3>3. acked' \in [Banks -> SUBSET Records]
      BY <1>2, <1>3, <1>7 DEF Program, TypeOK, a, r
    <3>4. TypeOK'
      BY <1>3, <1>6, <1>7, <2>3, <3>1, <3>2, <3>3 DEF TypeOK, Program
    <3>5. NumbersGiven'
      BY <1>5, <1>6, <2>3, <3>1, <3>2 DEF NumbersGiven, Writing
    <3> QED  BY <3>4, <3>5
  <2>5. CASE ~last
    <3>1. /\ writer' = [writer EXCEPT !.at = writer.at + 1]
          /\ s_plog_write_offset' = s_plog_write_offset
          /\ s_plog_next_seq' = s_plog_next_seq /\ acked' = acked
          /\ s_plog_active_base' = a /\ written' = written
      BY <1>7, <2>5 DEF Program, a, r
    <3>2. writer.at + 1 \in Offsets /\ writer.at + 1 < r.size
      BY <1>2, <2>5, PersistAssumption DEF Offsets
    <3>3. /\ writer' \in [op : {"program", "switch"}, rec : Records, at : Offsets, retry : BOOLEAN]
          /\ writer'.op = "program" /\ writer'.rec = r /\ writer'.at = writer.at + 1
      BY <1>1, <3>1, <3>2 DEF r
    <3>4. TypeOK'
      BY <1>3, <1>7, <2>3, <3>1, <3>2, <3>3, <1>1 DEF TypeOK, Program, r
    <3>5. NumbersGiven'
      BY <1>5, <2>3, <3>1, <3>3 DEF NumbersGiven, Writing
    <3> QED  BY <3>4, <3>5
  <2> QED  BY <2>4, <2>5
<1>8. CASE ProgramFails
  <2>1. PICK u \in {flash[a][o], Garbage} : flash' = [flash EXCEPT ![a][o] = u]
    BY <1>8 DEF ProgramFails, a, o
  <2>2. Given(u)
    BY <1>3, <1>4, GivenUnits DEF Given
  <2>3. /\ flash' \in [Banks -> [Offsets -> Units]]
        /\ \A c \in Banks : \A p \in Offsets : Len(flash'[c][p]) = 2 => flash'[c][p][1] <= written
    BY <1>3, <2>1, <2>2, ProgramUnit
  <2>4. /\ s_plog_active_base' = a /\ s_plog_write_offset' = s_plog_write_offset
        /\ s_plog_next_seq' = s_plog_next_seq /\ written' = written
    BY <1>8 DEF ProgramFails, state, a
  <2>5. \/ writer' \in [op : {"idle", "clear0", "clear1"}] /\ writer'.op = "idle"
        \/ /\ writer' \in [op : {"program", "switch"}, rec : Records, at : Offsets, retry : BOOLEAN]
           /\ writer'.op = "switch" /\ writer'.rec = r /\ writer'.at = 0
    <3>1. CASE writer' = Idle
      BY <3>1 DEF Idle
    <3>2. CASE writer' = [writer EXCEPT !.op = "switch", !.at = 0, !.retry = TRUE]
      <4>1. 0 \in Offsets
        BY <1>2, PersistAssumption DEF Offsets
      <4> QED  BY <1>1, <3>2, <4>1 DEF r
    <3> QED  BY <1>8, <3>1, <3>2 DEF ProgramFails
  <2>6. damage' \in [Banks -> {"none", "torn", "half-erased"}] /\ faults' \in 0..MaxFaults
    BY <1>8, PersistAssumption DEF ProgramFails, TornRecord, TypeOK
  <2>7. TypeOK'
    BY <1>2, <1>3, <1>8, <2>3, <2>4, <2>5, <2>6 DEF TypeOK, ProgramFails
  <2>8. NumbersGiven'
    BY <1>5, <1>6, <2>3, <2>4, <2>5 DEF NumbersGiven, Writing
  <2> QED  BY <2>7, <2>8
<1> QED  BY <1>7, <1>8

(* A bank is replaced by one of units that are given out. *)
LEMMA ReplaceBank ==
  ASSUME TInv, NEW b \in Banks, NEW bank \in Bank,
         \A o \in Offsets : Given(bank[o]),
         flash' = [flash EXCEPT ![b] = bank]
  PROVE  /\ flash' \in [Banks -> [Offsets -> Units]]
         /\ \A c \in Banks : \A p \in Offsets : Len(flash'[c][p]) = 2 => flash'[c][p][1] <= written
BY DEF TInv, TypeOK, NumbersGiven, Given, Bank

(* Nothing in an erased bank has a number that was not given out. *)
LEMMA BlankGiven == \A o \in Offsets : Given(BlankBank[o])
BY GivenUnits DEF BlankBank

(* Types are kept by a switch of banks. *)
LEMMA SwitchBankTypes ==
  ASSUME TInv, SwitchBank  PROVE TInv'
<1> USE DEF TInv
<1>1. writer \in [op : {"program", "switch"}, rec : Records, at : Offsets, retry : BOOLEAN]
      /\ writer.op = "switch"
  BY DEF SwitchBank, TypeOK
<1>2. Erased \in Banks
  BY <1>1 DEF Erased, OtherBank, Banks, TypeOK
<1>3. /\ flash' \in [Banks -> [Offsets -> Units]]
      /\ \A c \in Banks : \A p \in Offsets : Len(flash'[c][p]) = 2 => flash'[c][p][1] <= written
  BY <1>2, BlankTypes, BlankGiven, ReplaceBank DEF SwitchBank
<1>4. /\ writer' \in [op : {"program", "switch"}, rec : Records, at : Offsets, retry : BOOLEAN]
      /\ writer'.op = "program" /\ writer'.rec = writer.rec /\ writer'.at = writer.at
  BY <1>1 DEF SwitchBank
<1>5. writer.rec.size \in 2..BankSize
  BY <1>1, PersistAssumption DEF Records
<1>6. /\ s_plog_active_base' = Erased /\ s_plog_write_offset' = 0
      /\ s_plog_next_seq' = s_plog_next_seq /\ written' = written /\ faults' = faults
      /\ clearFailed' = clearFailed
  BY DEF SwitchBank
<1>7. acked' \in [Banks -> SUBSET Records] /\ damage' \in [Banks -> {"none", "torn", "half-erased"}]
  BY <1>2 DEF SwitchBank, TypeOK
<1>8. replay' \in ReplayStates
  BY DisturbTypes DEF SwitchBank
<1>9. TypeOK'
  BY <1>1, <1>2, <1>3, <1>4, <1>5, <1>6, <1>7, <1>8, PersistAssumption DEF TypeOK, ReplayStates
<1>10. NumbersGiven'
  BY <1>1, <1>3, <1>4, <1>6 DEF NumbersGiven, Writing
<1> QED  BY <1>9, <1>10

(* Types are kept by a clear. *)
LEMMA ClearBankTypes ==
  ASSUME TInv, ClearBank  PROVE TInv'
<1> USE DEF TInv
<1>1. Erased \in Banks
  BY DEF ClearBank, Clearing, Erased, Banks
<1>2. /\ flash' \in [Banks -> [Offsets -> Units]]
      /\ \A c \in Banks : \A p \in Offsets : Len(flash'[c][p]) = 2 => flash'[c][p][1] <= written
  BY <1>1, BlankTypes, BlankGiven, ReplaceBank DEF ClearBank
<1>3. writer' \in [op : {"idle", "clear0", "clear1"}]
  BY DEF ClearBank, Idle
<1>4. acked' \in [Banks -> SUBSET Records] /\ damage' \in [Banks -> {"none", "torn", "half-erased"}]
  BY <1>1 DEF ClearBank, TypeOK
<1>5. replay' \in ReplayStates
  BY DisturbTypes DEF ClearBank
<1>6. /\ s_plog_active_base' \in Banks /\ s_plog_write_offset' \in 0..BankSize
      /\ s_plog_next_seq' \in 1..MaxRecords + 1 /\ s_plog_next_seq' <= written + 1
      /\ clearFailed' \in BOOLEAN
  <2>1. written \in Nat /\ 0 \in 0..BankSize /\ 1 \in 1..MaxRecords + 1 /\ 0 \in Banks
    BY PersistAssumption DEF TypeOK, Banks
  <2>2. CASE Erased = 0
    <3>1. /\ s_plog_active_base' = s_plog_active_base
          /\ s_plog_write_offset' = s_plog_write_offset
          /\ s_plog_next_seq' = s_plog_next_seq /\ clearFailed' = clearFailed
      BY <2>2 DEF ClearBank, state
    <3> QED  BY <3>1 DEF TypeOK, NumbersGiven
  <2>3. CASE Erased # 0
    <3>1. /\ s_plog_active_base' = 0 /\ s_plog_write_offset' = 0
          /\ s_plog_next_seq' = 1 /\ clearFailed' = FALSE
      BY <2>3 DEF ClearBank
    <3>2. 1 <= written + 1
      BY <2>1
    <3> QED  BY <2>1, <3>1, <3>2
  <2> QED  BY <2>2, <2>3
<1>7. written' = written /\ faults' = faults
  BY DEF ClearBank
<1>8. TypeOK'
  BY <1>2, <1>3, <1>4, <1>5, <1>6, <1>7 DEF TypeOK, ReplayStates
<1>9. NumbersGiven'
  BY <1>2, <1>3, <1>6, <1>7 DEF NumbersGiven, Writing
<1> QED  BY <1>8, <1>9

(* What a torn erase leaves is given out too. *)
LEMMA TornGiven ==
  ASSUME TInv, Erasing, flash' \in TornErase
  PROVE  /\ flash' \in [Banks -> [Offsets -> Units]]
         /\ \A c \in Banks : \A p \in Offsets : Len(flash'[c][p]) = 2 => flash'[c][p][1] <= written
<1>1. /\ Erased \in Banks
      /\ flash' \in [Banks -> Bank]
      /\ \A b \in Banks : b # Erased => flash'[b] = flash[b]
      /\ \A o \in Offsets : flash'[Erased][o] \in {flash[Erased][o], Blank, Garbage}
  BY TornTypes
<1>2. \A o \in Offsets : Given(flash[Erased][o])
  BY <1>1 DEF TInv, TypeOK, NumbersGiven, Given
<1>3. \A o \in Offsets : Given(flash'[Erased][o])
  BY <1>1, <1>2, GivenUnits
<1> QED  BY <1>1, <1>3 DEF Given, Bank, TInv, NumbersGiven

(* Types are kept by an erase that fails. *)
LEMMA EraseFailsTypes ==
  ASSUME TInv, EraseFails  PROVE TInv'
<1> USE DEF TInv
<1>1. /\ flash' \in [Banks -> [Offsets -> Units]]
      /\ \A c \in Banks : \A p \in Offsets : Len(flash'[c][p]) = 2 => flash'[c][p][1] <= written
  BY TornGiven DEF EraseFails
<1>2. Erased \in Banks
  BY DEF EraseFails, Erasing, Clearing, Erased, OtherBank, Banks, TypeOK
<1>3. writer' \in [op : {"idle", "clear0", "clear1"}] /\ writer'.op = "idle"
  BY DEF EraseFails, Idle
<1>4. acked' \in [Banks -> SUBSET Records] /\ damage' \in [Banks -> {"none", "torn", "half-erased"}]
  BY <1>2 DEF EraseFails, TypeOK
<1>5. replay' \in ReplayStates
  BY DisturbTypes DEF EraseFails
<1>6. faults' \in 0..MaxFaults /\ clearFailed' \in BOOLEAN
  BY PersistAssumption DEF EraseFails, TypeOK
<1>7. TypeOK'
  BY <1>1, <1>3, <1>4, <1>5, <1>6 DEF TypeOK, EraseFails, state, ReplayStates
<1>8. NumbersGiven'
  BY <1>1, <1>3 DEF NumbersGiven, Writing, EraseFails, state
<1> QED  BY <1>7, <1>8

(* Types are kept by a reset. *)
LEMMA ResetTypes ==
  ASSUME TInv, Reset  PROVE TInv'
<1> USE DEF TInv
<1>1. /\ flash' \in [Banks -> [Offsets -> Units]]
      /\ \A c \in Banks : \A p \in Offsets : Len(flash'[c][p]) = 2 => flash'[c][p][1] <= written
  BY TornGiven DEF Reset, TypeOK, NumbersGiven
<1>2. acked' \in [Banks -> SUBSET Records] /\ damage' \in [Banks -> {"none", "torn", "half-erased"}]
  <2>1. CASE Erasing
    <3>1. Erased \in Banks
      BY <2>1 DEF Erasing, Clearing, Erased, OtherBank, Banks, TypeOK
    <3> QED  BY <2>1, <3>1 DEF Reset, TypeOK
  <2>2. CASE ~Erasing
    BY <2>2 DEF Reset, TypeOK, TornRecord
  <2> QED  BY <2>1, <2>2
<1>3. /\ s_plog_active_base' \in Banks /\ s_plog_write_offset' \in 0..BankSize
      /\ s_plog_next_seq' \in 1..written + 1
  <2>1. flash' \in [Banks -> Bank] /\ written \in 0..MaxRecords /\ InitState(flash')
    BY <1>1 DEF Bank, TypeOK, Reset
  <2>2. ASSUME NEW fl, fl = flash'
        PROVE  /\ s_plog_active_base' \in Banks /\ s_plog_write_offset' \in 0..BankSize
               /\ s_plog_next_seq' \in 1..written + 1
    <3>1. InitState(fl)
      BY <2>1, <2>2
    <3> QED  BY <1>1, <2>1, <2>2, <3>1, NewStatics
  <2> QED  BY <2>2
<1>4. writer' \in [op : {"idle", "clear0", "clear1"}] /\ writer'.op = "idle"
      /\ replay' \in ReplayStates
  BY DEF Reset, Idle, StartReplay, ReplayStates
<1>5. written' = written /\ faults' = faults /\ clearFailed' = clearFailed
  BY DEF Reset
<1>6. TypeOK'
  BY <1>1, <1>2, <1>3, <1>4, <1>5, PersistAssumption DEF TypeOK, ReplayStates
<1>7. NumbersGiven'
  BY <1>1, <1>3, <1>4, <1>5, PersistAssumption DEF NumbersGiven, Writing, TypeOK
<1> QED  BY <1>6, <1>7

(* Types are kept when a clear begins. *)
LEMMA BeginClearTypes ==
  ASSUME TInv, BeginClear  PROVE TInv'
BY DEF TInv, TypeOK, NumbersGiven, Writing, BeginClear, state, history

(* The last number found in a bank is that of a record. *)
LEMMA ScanSeq ==
  ASSUME TInv, NEW b \in Banks  PROVE LastSeq(flash[b]) \in 0..MaxRecords
<1>1. flash[b] \in Bank /\ written \in 0..MaxRecords
      /\ \A o \in Offsets : Len(flash[b][o]) = 2 => flash[b][o][1] <= written
  BY DEF TInv, TypeOK, NumbersGiven, Bank
<1>2. LastSeq(flash[b]) \in 0..written
  BY <1>1, LastSeqGiven, PersistAssumption
<1> QED  BY <1>1, <1>2, PersistAssumption

(* A step of the replay keeps its type. *)
LEMMA ReplayStep ==
  ASSUME TInv, ReplayScan0 \/ ReplayScan1 \/ ReplayRecord
  PROVE  replay' \in ReplayStates
<1> USE DEF TInv
<1>0. 0 \in Banks /\ 1 \in Banks /\ 0 \in 0..BankSize /\ 0 \in 0..MaxRecords
      /\ ReplayMax \in 0..ReplayMax
  BY PersistAssumption DEF Banks
<1>1. replay.disturbed \in BOOLEAN
  BY DEF TypeOK
<1>2. CASE ReplayScan0
  BY <1>0, <1>1, <1>2, ScanSeq DEF ReplayScan0, ReplayStates
<1>3. CASE ReplayScan1
  <2>1. ReplayOrder(replay.last0, LastSeq(flash[1])) \in {<<>>, <<0>>, <<1>>, <<0, 1>>, <<1, 0>>}
    BY DEF ReplayOrder
  <2> QED  BY <1>0, <1>1, <1>3, <2>1 DEF ReplayScan1, ReplayStates
<1>4. CASE ReplayRecord
  <2>1. replay \in [pc : {"show"}, disturbed : BOOLEAN,
                    todo : {<<>>, <<0>>, <<1>>, <<0, 1>>, <<1, 0>>}, at : 0..BankSize,
                    remain : 0..ReplayMax, last : 0..MaxRecords]
    BY <1>4 DEF ReplayRecord, TypeOK
  <2>2. CASE replay.todo = << >> \/ replay.remain = 0
    <3>1. replay' = NoReplay
      BY <1>4, <2>2 DEF ReplayRecord
    <3>2. NoReplay \in [pc : {"done", "scan0"}, disturbed : BOOLEAN]
      BY DEF NoReplay
    <3> QED  BY <3>1, <3>2, Zenon DEF ReplayStates
  <2>3. CASE ~(replay.todo = << >> \/ replay.remain = 0)
    <3> DEFINE bank == flash[Head(replay.todo)]
    <3>1. Head(replay.todo) \in Banks /\ Tail(replay.todo) \in {<<>>, <<0>>, <<1>>, <<0, 1>>, <<1, 0>>}
      <4> DEFINE t == replay.todo
      <4>1. t = <<0>> \/ t = <<1>> \/ t = <<0, 1>> \/ t = <<1, 0>>
        BY <2>1, <2>3
      <4> HIDE DEF t
      <4>2. Head(t) \in {0, 1} /\ Tail(t) \in {<<>>, <<0>>, <<1>>, <<0, 1>>, <<1, 0>>}
        <5>1. Head(<<0>>) = 0 /\ Head(<<1>>) = 1 /\ Tail(<<0>>) = <<>> /\ Tail(<<1>>) = <<>>
          OBVIOUS
        <5>2. Head(<<0, 1>>) = 0 /\ Tail(<<0, 1>>) = <<1>>
          OBVIOUS
        <5>3. Head(<<1, 0>>) = 1 /\ Tail(<<1, 0>>) = <<0>>
          OBVIOUS
        <5> QED  BY <4>1, <5>1, <5>2, <5>3, Zenon
      <4> QED  BY <4>2 DEF Banks, t
    <3>2. bank \in Bank
      BY <3>1 DEF TypeOK, Bank
    <3>3. replay.remain - 1 \in 0..ReplayMax
      BY <2>1, <2>3, PersistAssumption
    <3>4. CASE ValidAt(bank, replay.at)
      <4>1. replay.at + bank[replay.at][2] \in 0..BankSize
            /\ RecordAt(bank, replay.at) \in Records
        BY <2>1, <3>2, <3>4, ValidEnds, PersistAssumption
      <4>2. bank[replay.at][1] \in 0..MaxRecords
        <5>1. RecordAt(bank, replay.at).seq = bank[replay.at][1]
          BY DEF RecordAt
        <5>2. \A x \in Records : x.seq \in 0..MaxRecords
          BY PersistAssumption DEF Records
        <5> QED  BY <4>1, <5>1, <5>2, Zenon
      <4>3. replay' = [replay EXCEPT !.at = replay.at + bank[replay.at][2],
                                     !.remain = replay.remain - 1, !.last = bank[replay.at][1]]
        BY <1>4, <2>3, <3>4 DEF ReplayRecord
      <4> DEFINE at == replay.at + bank[replay.at][2]
                 remain == replay.remain - 1
                 last == bank[replay.at][1]
                 shows == [pc : {"show"}, disturbed : BOOLEAN,
                           todo : {<<>>, <<0>>, <<1>>, <<0, 1>>, <<1, 0>>}, at : 0..BankSize,
                           remain : 0..ReplayMax, last : 0..MaxRecords]
      <4>4. replay' = [replay EXCEPT !.at = at, !.remain = remain, !.last = last]
            /\ at \in 0..BankSize /\ remain \in 0..ReplayMax /\ last \in 0..MaxRecords
        BY <3>3, <4>1, <4>2, <4>3
      <4> HIDE DEF bank, at, remain, last
      <4>5. replay' \in shows
        BY <2>1, <4>4
      <4> QED  BY <4>5, Zenon DEF ReplayStates
    <3>5. CASE ~ValidAt(bank, replay.at)
      <4>1. replay' = [replay EXCEPT !.at = 0, !.todo = Tail(replay.todo)]
        BY <1>4, <2>3, <3>5 DEF ReplayRecord
      <4> QED  BY <1>0, <2>1, <3>1, <4>1 DEF ReplayStates
    <3> QED  BY <3>4, <3>5
  <2> QED  BY <2>2, <2>3
<1> QED  BY <1>2, <1>3, <1>4

(* Types are kept by the replay. *)
LEMMA ReplayTypes ==
  ASSUME TInv, ReplayScan0 \/ ReplayScan1 \/ ReplayRecord  PROVE TInv'
<1>1. /\ flash' = flash /\ writer' = writer /\ faults' = faults /\ written' = written
      /\ state' = state /\ history' = history
  BY DEF ReplayScan0, ReplayScan1, ReplayRecord
<1>2. replay' \in ReplayStates
  BY ReplayStep
<1> QED  BY <1>1, <1>2 DEF TInv, TypeOK, NumbersGiven, Writing, state, history, ReplayStates

(* Types are kept by every step. *)
LEMMA NextTypes == TInv /\ [Next]_vars => TInv'
<1> SUFFICES ASSUME TInv, [Next]_vars PROVE TInv'
  OBVIOUS
<1>1. CASE UNCHANGED vars
  BY <1>1 DEF TInv, TypeOK, NumbersGiven, Writing, vars, state, history
<1> QED
  BY <1>1, LogPrintTypes, SwitchBankTypes, ProgramTypes, BeginClearTypes, ClearBankTypes,
     EraseFailsTypes, ResetTypes, ReplayTypes DEF Next

(* TypeOK holds: offsets stay inside the bank, and flash, writer and statics   *)
(* are what sys_log.c can make of them, after every reset and every error.     *)
THEOREM TypeCorrect == Spec => []TypeOK
<1>1. TInv => TypeOK
  BY DEF TInv
<1> QED  BY <1>1, FirstTypes, NextTypes, PTL DEF Spec

-------------------------------------------------------------------------------
(* The units of the record being written that are in the active bank b. *)
Amid(b) == IF writer.op = "program" /\ b = s_plog_active_base THEN writer.at ELSE 0

(* An undamaged bank is blank behind what a scan finds and what is written.    *)
BlankBehind ==
  \A b \in Banks : damage[b] = "none" =>
    \A o \in Offsets : EndOfReadable(flash[b]) + Amid(b) <= o => flash[b][o] = Blank

(* The next record goes where a scan of an undamaged bank would stop. *)
AtTheEnd ==
  damage[s_plog_active_base] = "none" /\ writer.op # "clear1" =>
    s_plog_write_offset = EndOfReadable(flash[s_plog_active_base])

(* What the operation under way has done so far. *)
SoFar ==
  /\ writer.op = "switch" => writer.at = 0
  /\ writer.op = "clear1" => flash[0] = BlankBank
  /\ writer.op = "program" /\ damage[s_plog_active_base] = "none" =>
       \A i \in 0..writer.at - 1 :
          flash[s_plog_active_base][s_plog_write_offset + i] = Unit(writer.rec, i)

KInv == BlankBehind /\ AtTheEnd /\ SoFar

(* The first state keeps what it owes: nothing. *)
LEMMA FirstKept == Init => KInv /\ KeptUnlessBroken
<1> SUFFICES ASSUME Init PROVE KInv /\ KeptUnlessBroken
  OBVIOUS
<1>1. \A b \in Banks : flash[b] = BlankBank /\ acked[b] = {}
  BY DEF Init
<1>2. writer.op = "idle" /\ s_plog_active_base \in Banks /\ s_plog_write_offset = 0
  BY DEF Init, Idle, Banks
<1>3. \A o \in Offsets : BlankBank[o] = Blank
  BY DEF BlankBank
<1>4. KeptUnlessBroken
  BY <1>1 DEF KeptUnlessBroken
<1>5. BlankBehind /\ AtTheEnd /\ SoFar
  BY <1>1, <1>2, <1>3, BlankFound DEF BlankBehind, AtTheEnd, SoFar
<1> QED  BY <1>4, <1>5 DEF KInv

(* The next unit of a record goes into an undamaged bank. *)
LEMMA ProgramScan ==
  ASSUME TInv, KInv, Program, damage[s_plog_active_base] = "none"
  PROVE  LET a == s_plog_active_base
             r == writer.rec
             at == writer.at
             e == s_plog_write_offset
         IN  /\ \A b \in Banks : b # a => flash'[b] = flash[b]
             /\ \A o \in Offsets : o # e + at => flash'[a][o] = flash[a][o]
             /\ flash'[a][e + at] = Unit(r, at)
             /\ \A o \in Offsets : e + at < o => flash'[a][o] = Blank
             /\ at + 1 # r.size => /\ Readable(flash'[a]) = Readable(flash[a])
                                   /\ EndOfReadable(flash'[a]) = e
             /\ at + 1 = r.size => /\ Readable(flash'[a]) = Readable(flash[a]) \o <<r>>
                                   /\ EndOfReadable(flash'[a]) = e + r.size
<1> DEFINE a == s_plog_active_base
           r == writer.rec
           at == writer.at
           e == s_plog_write_offset
           bank == flash[a]
           new == flash'[a]
<1>1. /\ a \in Banks /\ r \in Records /\ at \in Nat /\ at < r.size
      /\ r.size \in 2..BankSize /\ e \in 0..BankSize /\ e + r.size <= BankSize
      /\ writer.op = "program" /\ bank \in Bank
  <2>1. writer.op = "program" /\ TypeOK
    BY DEF Program, TInv
  <2> QED  BY <2>1, WriterTypes, FlashTypes
<1>2. new \in Bank
  <2>1. TInv'
    BY ProgramTypes
  <2>2. a' \in Banks /\ a' = a
    BY <1>1 DEF Program
  <2> QED  BY <2>1, <2>2 DEF TInv, TypeOK, Bank
<1>3. e = EndOfReadable(bank)
  BY <1>1 DEF KInv, AtTheEnd
<1>4. \A o \in Offsets : e + at <= o => bank[o] = Blank
  BY <1>1, <1>3 DEF KInv, BlankBehind, Amid
<1>5. \A i \in 0..at - 1 : bank[e + i] = Unit(r, i)
  BY <1>1 DEF KInv, SoFar
<1>6. e + at \in Offsets
  BY <1>1, PersistAssumption DEF Offsets
<1>7. Merged(bank[e + at], Unit(r, at)) = Unit(r, at)
  BY <1>1, <1>4, <1>6 DEF Merged
<1>8. flash' = [flash EXCEPT ![a][e + at] = Unit(r, at)]
  BY <1>7 DEF Program
<1>9. flash \in [Banks -> [Offsets -> Units]]
  BY DEF TInv, TypeOK
<1>10. /\ \A b \in Banks : b # a => flash'[b] = flash[b]
       /\ \A o \in Offsets : o # e + at => new[o] = bank[o]
       /\ new[e + at] = Unit(r, at)
  <2> HIDE DEF r, at, e, a
  <2> QED  BY <1>1, <1>6, <1>8, <1>9
<1>11. \A o \in Offsets : e + at < o => new[o] = Blank
  BY <1>1, <1>4, <1>6, <1>10, PersistAssumption DEF Offsets
<1>12. \A i \in 0..at : new[e + i] = Unit(r, i)
  BY <1>1, <1>5, <1>10, PersistAssumption DEF Offsets
<1>13. /\ Readable(new) = Readable(bank) \o ScanFrom(new)[e].found
       /\ EndOfReadable(new) = ScanFrom(new)[e].end
  <2>1. \A o \in Offsets : o < e => new[o] = bank[o]
    BY <1>1, <1>10, PersistAssumption DEF Offsets
  <2> HIDE DEF new, bank, e
  <2> QED  BY <1>1, <1>2, <1>3, <2>1, ScanExtends
<1>14. Readable(bank) \in Seq(Records)
  BY <1>1, ReadableTypes
<1>15. new[e] = <<r.seq, r.size>>
  <2>1. 0 \in 0..at /\ e + 0 = e
    BY <1>1
  <2> QED  BY <1>12, <2>1 DEF Unit, Head1
<1> HIDE DEF new, bank, e, r, at, a
<1>16. ASSUME at + 1 # r.size
       PROVE  Readable(new) = Readable(bank) /\ EndOfReadable(new) = e
  <2>1. e + (r.size - 1) \in Offsets /\ e + at < e + (r.size - 1) /\ r.size - 1 \in 1..r.size - 1
    BY <1>1, <1>16, PersistAssumption DEF Offsets
  <2>2. new[e + (r.size - 1)] = Blank
    BY <1>11, <2>1
  <2>3. ~ValidAt(new, e)
    <3>1. new[e][2] = r.size
      BY <1>15
    <3>2. ValidAt(new, e) => \E x, y, z : new[e + (r.size - 1)] = <<x, y, z>>
      BY <2>1, <3>1 DEF ValidAt
    <3>3. \A x, y, z : Len(<<x, y, z>>) = 3
      OBVIOUS
    <3> QED  BY <2>2, <3>2, <3>3, UnitKinds
  <2>4. ScanFrom(new)[e] = [found |-> << >>, end |-> e]
    BY <1>1, <1>2, <2>3, ScanStep
  <2> QED  BY <1>13, <1>14, <2>4
<1>17. ASSUME at + 1 = r.size
       PROVE  Readable(new) = Readable(bank) \o <<r>> /\ EndOfReadable(new) = e + r.size
  <2>1. \A i \in 1..r.size - 1 : new[e + i] = <<r.id, r.seq, i>>
    <3>1. \A i \in 1..r.size - 1 : i \in 0..at /\ i # 0
      BY <1>1, <1>17
    <3> QED  BY <1>12, <3>1 DEF Unit, Later
  <2>2. new[e + 1] = <<r.id, r.seq, 1>>
    BY <1>1, <2>1
  <2>3. new[e][1] = r.seq /\ new[e][2] = r.size /\ Len(new[e]) = 2
        /\ Len(new[e + 1]) = 3 /\ new[e + 1][1] = r.id
    BY <1>15, <2>2
  <2>4. ValidAt(new, e)
    BY <1>1, <2>1, <2>3, PersistAssumption DEF ValidAt
  <2>5. RecordAt(new, e) = r
    BY <1>1, <2>3 DEF RecordAt, Records
  <2>6. e + r.size \in 0..BankSize
    BY <1>1, PersistAssumption
  <2>7. ~ValidAt(new, e + r.size)
    <3>1. e + r.size < BankSize => e + r.size \in Offsets /\ e + at < e + r.size
      BY <1>1, <2>6, PersistAssumption DEF Offsets
    <3>2. e + r.size < BankSize => Len(new[e + r.size]) = 0
      BY <1>11, <3>1, UnitKinds
    <3> QED  BY <3>2 DEF ValidAt
  <2>8. ScanFrom(new)[e + r.size] = [found |-> << >>, end |-> e + r.size]
    BY <1>2, <2>6, <2>7, ScanStep
  <2>9. ScanFrom(new)[e] = [found |-> <<r>> \o << >>, end |-> e + r.size]
    <3>1. ScanFrom(new)[e] = [found |-> <<RecordAt(new, e)>> \o ScanFrom(new)[e + r.size].found,
                              end |-> ScanFrom(new)[e + r.size].end]
      <4>1. e + new[e][2] = e + r.size
        BY <2>3
      <4>2. LET rest == ScanFrom(new)[e + new[e][2]]
            IN  ScanFrom(new)[e] = [found |-> <<RecordAt(new, e)>> \o rest.found,
                                    end   |-> rest.end]
        BY <1>1, <1>2, <2>4, ScanStep
      <4> QED  BY <4>1, <4>2, Zenon
    <3> QED  BY <2>5, <2>8, <3>1
  <2>10. <<r>> \o << >> = <<r>>
    BY <1>1
  <2> QED  BY <1>13, <2>9, <2>10
<1> QED  BY <1>10, <1>11, <1>16, <1>17 DEF new, bank, e, r, at, a

(* What an undamaged bank owes, and that it still does when it is not touched. *)
Owes(b) ==
  damage[b] = "none" =>
    /\ acked[b] \subseteq Found(b)
    /\ \A o \in Offsets : EndOfReadable(flash[b]) + Amid(b) <= o => flash[b][o] = Blank

(* What both banks owe is what each of them owes. *)
LEMMA OwesAll ==
  /\ (\A b \in Banks : Owes(b)) <=> KeptUnlessBroken /\ BlankBehind
  /\ (\A b \in Banks : Owes(b))' <=> (KeptUnlessBroken /\ BlankBehind)'
BY DEF Owes, KeptUnlessBroken, BlankBehind

IInv == TInv /\ KInv /\ KeptUnlessBroken

(* A bank that reads the same owes nothing more. *)
LEMMA StillOwes ==
  ASSUME IInv, NEW b \in Banks, flash'[b] = flash[b], acked'[b] = acked[b],
         damage'[b] = "none" => damage[b] = "none" /\ Amid(b)' = Amid(b)
  PROVE  Owes(b)'
<1>1. Owes(b)
  BY OwesAll DEF IInv, KInv
<1> QED  BY <1>1 DEF Owes, Found

(* An erased bank owes nothing. *)
LEMMA BlankOwes ==
  ASSUME NEW b \in Banks, flash'[b] = BlankBank, acked'[b] = {}, Amid(b)' = 0
  PROVE  Owes(b)' /\ EndOfReadable(flash'[b]) = 0
BY BlankFound DEF Owes, BlankBank

(* The steps one by one again: Log_Print. *)
LEMMA LogPrintKept ==
  ASSUME IInv, NEW size \in Sizes, LogPrint(size)
  PROVE  (KInv /\ KeptUnlessBroken)'
<1>1. /\ flash' = flash /\ acked' = acked /\ damage' = damage
      /\ s_plog_active_base' = s_plog_active_base /\ s_plog_write_offset' = s_plog_write_offset
      /\ writer.op = "idle" /\ writer'.op \in {"program", "switch"} /\ writer'.at = 0
  BY DEF LogPrint, state, history, Idle
<1>2. \A b \in Banks : Amid(b)' = 0 /\ Amid(b) = 0
  BY <1>1 DEF Amid
<1>3. \A b \in Banks : Owes(b)'
  BY <1>1, <1>2, StillOwes
<1>4. AtTheEnd' /\ SoFar'
  BY <1>1 DEF IInv, KInv, AtTheEnd, SoFar
<1> QED  BY <1>3, <1>4, OwesAll DEF KInv

(* What a switch of banks keeps. *)
LEMMA SwitchBankKept ==
  ASSUME IInv, SwitchBank
  PROVE  (KInv /\ KeptUnlessBroken)'
<1>1. Erased = OtherBank(s_plog_active_base) /\ Erased \in Banks
      /\ s_plog_active_base \in Banks /\ flash \in [Banks -> [Offsets -> Units]]
      /\ acked \in [Banks -> SUBSET Records]
      /\ damage \in [Banks -> {"none", "torn", "half-erased"}]
      /\ writer \in [op : {"program", "switch"}, rec : Records, at : Offsets, retry : BOOLEAN]
  BY DEF SwitchBank, Erased, OtherBank, Banks, IInv, TInv, TypeOK
<1>2. /\ flash' = [flash EXCEPT ![Erased] = BlankBank]
      /\ acked' = [acked EXCEPT ![Erased] = {}] /\ damage' = [damage EXCEPT ![Erased] = "none"]
      /\ s_plog_active_base' = Erased /\ s_plog_write_offset' = 0
      /\ writer.op = "switch" /\ writer' = [writer EXCEPT !.op = "program"]
  BY DEF SwitchBank
<1>3. writer'.op = "program" /\ writer'.at = 0
  BY <1>1, <1>2 DEF IInv, KInv, SoFar
<1>4. \A b \in Banks : Amid(b)' = 0 /\ Amid(b) = 0
  BY <1>2, <1>3 DEF Amid
<1>5. ASSUME NEW b \in Banks, b = Erased
      PROVE  Owes(b)' /\ EndOfReadable(flash'[b]) = 0
  BY <1>1, <1>2, <1>4, <1>5, BlankOwes
<1>6. \A b \in Banks : b # Erased => Owes(b)'
  BY <1>1, <1>2, <1>4, StillOwes
<1>7. AtTheEnd' /\ SoFar'
  BY <1>1, <1>2, <1>3, <1>5 DEF AtTheEnd, SoFar
<1>8. \A b \in Banks : Owes(b)'
  BY <1>5, <1>6
<1> QED  BY <1>7, <1>8, OwesAll DEF KInv

(* What programming a unit keeps, and what the last one adds. *)
LEMMA ProgramKept ==
  ASSUME IInv, Program
  PROVE  (KInv /\ KeptUnlessBroken)'
<1> SUFFICES ASSUME NEW a, a = s_plog_active_base
             PROVE  (KInv /\ KeptUnlessBroken)'
  OBVIOUS
<1> DEFINE r == writer.rec
           at == writer.at
           e == s_plog_write_offset
<1>1. /\ a \in Banks /\ r \in Records /\ at \in Nat /\ at < r.size
      /\ r.size \in 2..BankSize /\ e \in 0..BankSize /\ e + r.size <= BankSize
      /\ writer.op = "program" /\ writer \in [op : {"program", "switch"}, rec : Records, at : Offsets, retry : BOOLEAN]
  <2>1. TypeOK /\ a \in Banks /\ writer.op = "program"
    BY DEF IInv, TInv, TypeOK, Program
  <2> QED  BY <2>1, WriterTypes
<1>0. /\ flash \in [Banks -> [Offsets -> Units]] /\ acked \in [Banks -> SUBSET Records]
      /\ e + at \in Offsets
  BY <1>1, PersistAssumption DEF IInv, TInv, TypeOK, Offsets
<1>2. s_plog_active_base' = a /\ damage' = damage
  BY DEF Program
<1>3. /\ at + 1 # r.size => /\ writer' = [writer EXCEPT !.at = at + 1]
                            /\ s_plog_write_offset' = e /\ acked' = acked
      /\ at + 1 = r.size => /\ writer' = Idle /\ s_plog_write_offset' = e + r.size
                            /\ acked' = IF damage[a] # "half-erased"
                                          THEN [acked EXCEPT ![a] = @ \cup {r}] ELSE acked
  BY DEF Program
<1>4. /\ at + 1 # r.size => writer'.op = "program" /\ writer'.at = at + 1 /\ writer'.rec = r
      /\ at + 1 = r.size => writer'.op = "idle"
  BY <1>1, <1>3 DEF Idle
<1>5. \A b \in Banks : b # a => flash'[b] = flash[b]
  <2>1. flash' = [flash EXCEPT ![a][e + at] = Merged(@, Unit(r, at))]
    BY DEF Program
  <2> QED  BY <1>0, <1>1, <2>1
<1>6. ASSUME NEW b \in Banks, b # a  PROVE Owes(b)'
  <2>1. acked'[b] = acked[b]
    BY <1>0, <1>1, <1>3, <1>6
  <2>2. Amid(b)' = Amid(b)
    BY <1>2, <1>6 DEF Amid
  <2> QED  BY <1>2, <1>5, <1>6, <2>1, <2>2, StillOwes
<1>7. CASE damage[a] = "none"
  <2>1. /\ \A o \in Offsets : o # e + at => flash'[a][o] = flash[a][o]
        /\ flash'[a][e + at] = Unit(r, at)
        /\ \A o \in Offsets : e + at < o => flash'[a][o] = Blank
        /\ at + 1 # r.size => /\ Readable(flash'[a]) = Readable(flash[a])
                              /\ EndOfReadable(flash'[a]) = e
        /\ at + 1 = r.size => /\ Readable(flash'[a]) = Readable(flash[a]) \o <<r>>
                              /\ EndOfReadable(flash'[a]) = e + r.size
    BY <1>7, ProgramScan DEF IInv
  <2>2. e = EndOfReadable(flash[a])
    BY <1>1, <1>7 DEF IInv, KInv, AtTheEnd
  <2>3. acked[a] \subseteq Found(a) /\ Readable(flash[a]) \in Seq(Records)
    BY <1>0, <1>1, <1>7, ReadableTypes DEF IInv, KeptUnlessBroken, Bank
  <2> HIDE DEF r, at, e
  <2>4. CASE at + 1 # r.size
    <3>1. Found(a)' = Found(a)
      BY <1>2, <2>1, <2>4 DEF Found
    <3>2. \A o \in Offsets : e + (at + 1) <= o => flash'[a][o] = Blank
      BY <1>1, <2>1, PersistAssumption DEF Offsets
    <3>3. Amid(a)' = at + 1
      BY <1>2, <1>4, <2>4 DEF Amid
    <3>4. Owes(a)'
      <4>1. EndOfReadable(flash'[a]) = e
        BY <1>2, <2>1, <2>4
      <4>2. acked'[a] = acked[a]
        BY <1>3, <2>4
      <4> QED  BY <2>3, <3>1, <3>2, <3>3, <4>1, <4>2 DEF Owes
    <3>5. AtTheEnd'
      BY <1>2, <1>3, <2>1, <2>4 DEF AtTheEnd
    <3>6. SoFar'
      <4>1. \A i \in 0..at - 1 : flash[a][e + i] = Unit(r, i)
        BY <1>1, <1>7 DEF IInv, KInv, SoFar, r, at, e
      <4>2. \A i \in 0..at : flash'[a][e + i] = Unit(r, i)
        <5>1. \A i \in 0..at - 1 : e + i \in Offsets /\ e + i # e + at
          BY <1>1, PersistAssumption DEF Offsets
        <5>2. \A i \in 0..at : i = at \/ i \in 0..at - 1
          BY <1>1
        <5> QED  BY <2>1, <4>1, <5>1, <5>2
      <4>3. \A i \in 0..(at + 1) - 1 : flash'[a][e + i] = Unit(r, i)
        BY <1>1, <4>2
      <4> QED  BY <1>2, <1>3, <1>4, <2>4, <4>3 DEF SoFar
    <3> QED  BY <1>6, <3>4, <3>5, <3>6, OwesAll DEF KInv
  <2>5. CASE at + 1 = r.size
    <3>1. Found(a)' = Found(a) \cup {r}
      <4> DEFINE old == Readable(flash[a])
      <4>1. Readable(flash'[a]) = old \o <<r>> /\ old \in Seq(Records)
        BY <1>2, <2>1, <2>3, <2>5
      <4> HIDE DEF old
      <4>2. /\ DOMAIN (old \o <<r>>) = 1..Len(old) + 1
            /\ \A i \in 1..Len(old) : (old \o <<r>>)[i] = old[i]
            /\ (old \o <<r>>)[Len(old) + 1] = r
            /\ DOMAIN old = 1..Len(old) /\ Len(old) \in Nat
        BY <4>1
      <4>3. {(old \o <<r>>)[i] : i \in 1..Len(old) + 1} = {old[i] : i \in 1..Len(old)} \cup {r}
        BY <4>2
      <4> QED  BY <4>1, <4>2, <4>3 DEF Found, old
    <3>2. \A o \in Offsets : e + r.size + 0 <= o => flash'[a][o] = Blank
      BY <1>1, <2>1, <2>5, PersistAssumption DEF Offsets
    <3>3. Amid(a)' = 0
      BY <1>2, <1>4, <2>5 DEF Amid
    <3>4. Owes(a)'
      <4>1. EndOfReadable(flash'[a]) = e + r.size
        BY <1>2, <2>1, <2>5
      <4>2. acked'[a] = acked[a] \cup {r}
        BY <1>0, <1>1, <1>3, <1>7, <2>5
      <4> QED  BY <2>3, <3>1, <3>2, <3>3, <4>1, <4>2 DEF Owes
    <3>5. AtTheEnd'
      BY <1>2, <1>3, <2>1, <2>5 DEF AtTheEnd
    <3>6. SoFar'
      BY <1>4, <2>5 DEF SoFar
    <3> QED  BY <1>6, <3>4, <3>5, <3>6, OwesAll DEF KInv
  <2> QED  BY <2>4, <2>5
<1>8. CASE damage[a] # "none"
  <2>1. Owes(a)'
    BY <1>2, <1>8 DEF Owes
  <2>2. AtTheEnd' /\ SoFar'
    BY <1>2, <1>4, <1>8 DEF AtTheEnd, SoFar
  <2> QED  BY <1>6, <2>1, <2>2, OwesAll DEF KInv
<1> QED  BY <1>7, <1>8

(* What is kept when programming fails. *)
LEMMA ProgramFailsKept ==
  ASSUME IInv, ProgramFails
  PROVE  (KInv /\ KeptUnlessBroken)'
<1> SUFFICES ASSUME NEW a, a = s_plog_active_base
             PROVE  (KInv /\ KeptUnlessBroken)'
  OBVIOUS
<1>1. /\ a \in Banks /\ flash \in [Banks -> [Offsets -> Units]]
      /\ damage \in [Banks -> {"none", "torn", "half-erased"}]
      /\ writer \in [op : {"program", "switch"}, rec : Records, at : Offsets, retry : BOOLEAN]
  BY DEF IInv, TInv, TypeOK, ProgramFails
<1>2. /\ s_plog_active_base' = a /\ acked' = acked /\ TornRecord
      /\ writer.op = "program"
  BY DEF ProgramFails, state
<1>3. writer'.op \in {"idle", "switch"} /\ (writer'.op = "switch" => writer'.at = 0)
  <2>1. CASE writer' = Idle
    BY <2>1 DEF Idle
  <2>2. CASE writer' = [writer EXCEPT !.op = "switch", !.at = 0, !.retry = TRUE]
    BY <1>1, <2>2
  <2> QED  BY <2>1, <2>2 DEF ProgramFails
<1>4. \A b \in Banks : b # a => flash'[b] = flash[b] /\ damage'[b] = damage[b]
  <2>1. PICK u : flash' = [flash EXCEPT ![a][s_plog_write_offset + writer.at] = u]
    BY DEF ProgramFails
  <2> QED  BY <1>1, <1>2, <2>1 DEF TornRecord
<1>5. damage'[a] # "none"
  BY <1>1, <1>2 DEF TornRecord
<1>6. \A b \in Banks : b # a => Amid(b) = 0 /\ Amid(b)' = 0
  BY <1>2, <1>3 DEF Amid
<1>7. \A b \in Banks : Owes(b)'
  <2>1. Owes(a)'
    BY <1>5 DEF Owes
  <2>2. \A b \in Banks : b # a => Owes(b)'
    BY <1>2, <1>4, <1>6, StillOwes
  <2> QED  BY <2>1, <2>2
<1>8. AtTheEnd' /\ SoFar'
  BY <1>2, <1>3, <1>5 DEF AtTheEnd, SoFar
<1> QED  BY <1>7, <1>8, OwesAll DEF KInv

(* What is kept when a clear begins. *)
LEMMA BeginClearKept ==
  ASSUME IInv, BeginClear
  PROVE  (KInv /\ KeptUnlessBroken)'
<1>1. /\ flash' = flash /\ acked' = acked /\ damage' = damage
      /\ s_plog_active_base' = s_plog_active_base /\ s_plog_write_offset' = s_plog_write_offset
      /\ writer.op = "idle" /\ writer'.op = "clear0"
  BY DEF BeginClear, state, history, Idle
<1>2. \A b \in Banks : Amid(b)' = 0 /\ Amid(b) = 0
  BY <1>1 DEF Amid
<1>3. \A b \in Banks : Owes(b)'
  BY <1>1, <1>2, StillOwes
<1>4. AtTheEnd' /\ SoFar'
  BY <1>1 DEF IInv, KInv, AtTheEnd, SoFar
<1> QED  BY <1>3, <1>4, OwesAll DEF KInv

(* What is kept by a clear. *)
LEMMA ClearBankKept ==
  ASSUME IInv, ClearBank
  PROVE  (KInv /\ KeptUnlessBroken)'
<1>1. /\ Erased \in Banks /\ 0 \in Banks /\ 1 \in Banks
      /\ flash \in [Banks -> [Offsets -> Units]]
      /\ acked \in [Banks -> SUBSET Records]
      /\ damage \in [Banks -> {"none", "torn", "half-erased"}]
  BY DEF ClearBank, Clearing, Erased, Banks, IInv, TInv, TypeOK
<1>2. /\ flash' = [flash EXCEPT ![Erased] = BlankBank]
      /\ acked' = [acked EXCEPT ![Erased] = {}] /\ damage' = [damage EXCEPT ![Erased] = "none"]
  BY DEF ClearBank
<1>3. \/ writer.op = "clear0" /\ Erased = 0 /\ writer'.op = "clear1"
      \/ writer.op = "clear1" /\ Erased = 1 /\ writer'.op = "idle"
         /\ s_plog_active_base' = 0 /\ s_plog_write_offset' = 0
  BY DEF ClearBank, Clearing, Erased, Idle
<1>4. \A b \in Banks : Amid(b)' = 0 /\ Amid(b) = 0
  BY <1>3 DEF Amid
<1>5. \A b \in Banks : Owes(b)'
  <2>1. ASSUME NEW b \in Banks, b = Erased  PROVE Owes(b)'
    BY <1>1, <1>2, <1>4, <2>1, BlankOwes
  <2>2. \A b \in Banks : b # Erased => Owes(b)'
    BY <1>1, <1>2, <1>4, StillOwes
  <2> QED  BY <2>1, <2>2
<1>6. flash'[0] = BlankBank
  BY <1>1, <1>2, <1>3 DEF IInv, KInv, SoFar
<1>7. AtTheEnd' /\ SoFar'
  BY <1>3, <1>6, BlankFound DEF AtTheEnd, SoFar
<1> QED  BY <1>5, <1>7, OwesAll DEF KInv

(* What is kept by an erase that fails. *)
LEMMA EraseFailsKept ==
  ASSUME IInv, EraseFails
  PROVE  (KInv /\ KeptUnlessBroken)'
<1>1. /\ Erased \in Banks /\ \A b \in Banks : b # Erased => flash'[b] = flash[b]
      /\ acked \in [Banks -> SUBSET Records]
      /\ damage \in [Banks -> {"none", "torn", "half-erased"}]
      /\ s_plog_active_base \in Banks
  BY TornTypes DEF EraseFails, IInv, TInv, TypeOK
<1>2. /\ writer.op \in {"clear0", "clear1", "switch"} /\ writer'.op = "idle"
      /\ s_plog_active_base' = s_plog_active_base /\ s_plog_write_offset' = s_plog_write_offset
  BY DEF EraseFails, Erasing, Clearing, Idle, state
<1>3. \A b \in Banks : Amid(b)' = 0 /\ Amid(b) = 0
  BY <1>2 DEF Amid
<1>4. CASE Clearing
  <2>1. \A b \in Banks : damage'[b] = "half-erased"
    BY <1>4 DEF EraseFails
  <2>2. \A b \in Banks : Owes(b)'
    BY <2>1 DEF Owes
  <2>3. AtTheEnd' /\ SoFar'
    BY <1>1, <1>2, <2>1 DEF AtTheEnd, SoFar
  <2> QED  BY <2>2, <2>3, OwesAll DEF KInv
<1>5. CASE ~Clearing
  <2>1. writer.op = "switch" /\ Erased # s_plog_active_base
    BY <1>1, <1>2, <1>5 DEF Clearing, Erased, OtherBank, Banks
  <2>2. /\ acked' = [acked EXCEPT ![Erased] = {}]
        /\ damage' = [damage EXCEPT ![Erased] = "half-erased"]
    BY <1>5 DEF EraseFails
  <2>3. ASSUME NEW b \in Banks  PROVE Owes(b)'
    <3>1. CASE b = Erased
      BY <1>1, <2>2, <3>1 DEF Owes
    <3>2. CASE b # Erased
      BY <1>1, <1>3, <2>2, <3>2, StillOwes
    <3> QED  BY <3>1, <3>2
  <2>4. AtTheEnd' /\ SoFar'
    BY <1>1, <1>2, <2>1, <2>2 DEF IInv, KInv, AtTheEnd, SoFar
  <2> QED  BY <2>3, <2>4, OwesAll DEF KInv
<1> QED  BY <1>4, <1>5

(* What is kept by a reset. *)
LEMMA ResetKept ==
  ASSUME IInv, Reset
  PROVE  (KInv /\ KeptUnlessBroken)'
<1>1. /\ writer'.op = "idle" /\ s_plog_active_base \in Banks /\ s_plog_active_base' \in Banks
      /\ acked \in [Banks -> SUBSET Records]
      /\ damage \in [Banks -> {"none", "torn", "half-erased"}]
  BY ResetTypes DEF Reset, Idle, IInv, TInv, TypeOK
<1>2. s_plog_write_offset' = EndOfReadable(flash'[s_plog_active_base'])
  <2>1. /\ flash' \in [Banks -> Bank] /\ written \in 0..MaxRecords /\ InitState(flash')
        /\ \A b \in Banks : \A o \in Offsets : Len(flash'[b][o]) = 2 => flash'[b][o][1] <= written
    BY ResetTypes DEF Bank, IInv, TInv, TypeOK, NumbersGiven, Reset
  <2>2. ASSUME NEW fl, fl = flash'
        PROVE  s_plog_write_offset' = EndOfReadable(fl[s_plog_active_base'])
    <3>1. InitState(fl)
      BY <2>1, <2>2
    <3> QED  BY <2>1, <2>2, <3>1, NewStatics
  <2> QED  BY <2>2
<1>3. AtTheEnd' /\ SoFar'
  BY <1>1, <1>2 DEF AtTheEnd, SoFar
<1>4. \A b \in Banks : Amid(b)' = 0
  BY <1>1 DEF Amid
<1>5. ASSUME NEW b \in Banks  PROVE Owes(b)'
  <2>1. CASE Erasing
    <3>1. /\ Erased \in Banks /\ \A c \in Banks : c # Erased => flash'[c] = flash[c]
          /\ acked' = [acked EXCEPT ![Erased] = {}]
          /\ damage' = [damage EXCEPT ![Erased] = "half-erased"]
      BY <2>1, TornTypes DEF Reset, IInv
    <3>2. Amid(b) = 0
      BY <2>1 DEF Amid, Erasing, Clearing
    <3>3. CASE b = Erased
      BY <1>1, <3>1, <3>3 DEF Owes
    <3>4. CASE b # Erased
      BY <1>1, <1>4, <3>1, <3>2, <3>4, StillOwes
    <3> QED  BY <3>3, <3>4
  <2>2. CASE ~Erasing
    <3>1. flash' = flash /\ acked' = acked
      BY <2>2 DEF Reset
    <3>2. CASE writer.op = "program" /\ writer.at > 0
      <4>1. TornRecord
        BY <2>2, <3>2 DEF Reset
      <4>2. CASE b = s_plog_active_base
        BY <1>1, <4>1, <4>2 DEF TornRecord, Owes
      <4>3. CASE b # s_plog_active_base
        <5>1. damage'[b] = damage[b] /\ Amid(b) = 0
          BY <1>1, <4>1, <4>3 DEF TornRecord, Amid
        <5> QED  BY <1>4, <3>1, <5>1, StillOwes
      <4> QED  BY <4>2, <4>3
    <3>3. CASE ~(writer.op = "program" /\ writer.at > 0)
      <4>1. damage' = damage
        BY <2>2, <3>3 DEF Reset
      <4>2. Amid(b) = 0
        <5>1. writer.op = "program" => writer.at \in Offsets
          BY DEF IInv, TInv, TypeOK
        <5> QED  BY <3>3, <5>1, PersistAssumption DEF Amid, Offsets
      <4> QED  BY <1>4, <3>1, <4>1, <4>2, StillOwes
    <3> QED  BY <3>2, <3>3
  <2> QED  BY <2>1, <2>2
<1> QED  BY <1>3, <1>5, OwesAll DEF KInv

(* What is kept by steps that leave flash alone. *)
LEMMA NothingKept ==
  ASSUME IInv, ReplayScan0 \/ ReplayScan1 \/ ReplayRecord \/ UNCHANGED vars
  PROVE  (KInv /\ KeptUnlessBroken)'
<1>1. /\ flash' = flash /\ writer' = writer /\ acked' = acked /\ damage' = damage
      /\ s_plog_active_base' = s_plog_active_base /\ s_plog_write_offset' = s_plog_write_offset
  BY DEF ReplayScan0, ReplayScan1, ReplayRecord, vars, state, history
<1> QED  BY <1>1 DEF IInv, KInv, BlankBehind, AtTheEnd, SoFar, Amid, KeptUnlessBroken, Found

(* Every step keeps what was appended with success. *)
LEMMA NextKept == IInv /\ [Next]_vars => IInv'
<1> SUFFICES ASSUME IInv, [Next]_vars PROVE IInv'
  OBVIOUS
<1>1. TInv'
  BY NextTypes DEF IInv
<1>2. (KInv /\ KeptUnlessBroken)'
  BY LogPrintKept, SwitchBankKept, ProgramKept, ProgramFailsKept, BeginClearKept,
     ClearBankKept, EraseFailsKept, ResetKept, NothingKept DEF Next
<1> QED  BY <1>1, <1>2 DEF IInv

(* KeptUnlessBroken holds: the record Persist_Log_Append has answered 1 for is *)
(* found by every later scan, whatever the size of the banks, as long as no    *)
(* operation on its bank was cut short.                                        *)
THEOREM KeptTheorem == Spec => []KeptUnlessBroken
<1>1. Init => IInv
  BY FirstTypes, FirstKept DEF IInv
<1>2. IInv => KeptUnlessBroken
  BY DEF IInv
<1> QED  BY <1>1, <1>2, NextKept, PTL DEF Spec

-------------------------------------------------------------------------------
(* From offset x on nothing was programmed since the bank was erased, in full  *)
(* or in part.                                                                 *)
Clean(bank, x) == \A o \in Offsets : x <= o => bank[o] \in {Blank, Garbage}

(* No record can ever be read at e, or behind it. *)
Stuck(bank, e) ==
  /\ e \in Offsets
  /\ \/ bank[e] = Garbage
     \/ /\ Len(bank[e]) = 2
        /\ \E i \in 1..bank[e][2] - 1 : e + i \in Offsets /\ bank[e + i] = Garbage

(* Behind e is at most the beginning of one record. *)
Open(bank, e) ==
  \/ Clean(bank, e)
  \/ e \in Offsets /\ Len(bank[e]) = 2 /\ Clean(bank, e + bank[e][2])

(* A blank or a spoiled unit is no part of a record. *)
LEMMA Unwritten ==
  /\ Garbage # Blank
  /\ \A u : Len(u) = 2 => u # Blank /\ u # Garbage
  /\ \A u : Len(u) = 3 => u # Blank /\ u # Garbage
<1>1. Len(Blank) = 0 /\ Len(Garbage) = 1
  BY UnitKinds
<1>2. Len(Blank) # 2 /\ Len(Blank) # 3 /\ Len(Garbage) # 2 /\ Len(Garbage) # 3 /\ Len(Blank) # Len(Garbage)
  BY <1>1
<1> QED  BY <1>2, Zenon

(* No record is read where the bank is stuck. *)
LEMMA StuckInvalid ==
  ASSUME NEW bank \in Bank, NEW e, Stuck(bank, e)
  PROVE  ~ValidAt(bank, e)
<1> SUFFICES ASSUME ValidAt(bank, e) PROVE FALSE
  OBVIOUS
<1>1. bank[e] # Garbage
  <2>1. Len(bank[e]) = 2
    BY DEF ValidAt
  <2> QED  BY <2>1, UnitKinds
<1>2. PICK i \in 1..bank[e][2] - 1 : bank[e + i] = Garbage
  BY <1>1 DEF Stuck
<1>3. PICK x, y : bank[e + i] = <<x, y, i>>
  BY <1>2 DEF ValidAt
<1>4. Len(<<x, y, i>>) = 3
  OBVIOUS
<1> QED  BY <1>2, <1>3, <1>4, UnitKinds

(* No record is read where nothing was programmed. *)
LEMMA CleanInvalid ==
  ASSUME NEW bank \in Bank, NEW x \in 0..BankSize, Clean(bank, x)
  PROVE  ~ValidAt(bank, x)
<1>1. x < BankSize => bank[x] \in {Blank, Garbage}
  BY SizesPositive DEF Clean, Offsets
<1>2. x < BankSize => Len(bank[x]) # 2
  BY <1>1, UnitKinds
<1> QED  BY <1>2 DEF ValidAt

(* What is in flash stays, or becomes garbage; what is programmed is there     *)
(* then, or garbage is.                                                        *)
LEMMA MergedTwo ==
  /\ \A u, v : u # Blank => Merged(u, v) \in {u, Garbage}
  /\ \A u, v : Merged(u, v) \in {v, Garbage}
  /\ \A v : Merged(Blank, v) = v
  /\ \A v : Merged(Garbage, v) = Garbage
<1>1. Garbage # Blank
  BY UnitKinds
<1> QED  BY <1>1 DEF Merged

(* A bank that is stuck stays so, whatever is programmed into it. *)
LEMMA StuckStays ==
  ASSUME NEW bank \in Bank, NEW e, Stuck(bank, e), NEW o \in Offsets, NEW v,
         bank[o] # Blank => v \in {bank[o], Garbage},
         NEW new, new = [bank EXCEPT ![o] = v]
  PROVE  Stuck(new, e)
<1>0. DOMAIN bank = Offsets
  BY DEF Bank
<1>1. new[o] = v /\ \A p \in Offsets : p # o => new[p] = bank[p]
  BY <1>0
<1>2. CASE bank[e] = Garbage
  <2>1. bank[e] # Blank
    BY <1>2, UnitKinds
  <2> QED  BY <1>1, <1>2, <2>1 DEF Stuck
<1>3. CASE bank[e] # Garbage
  <2>1. PICK i \in 1..bank[e][2] - 1 : e + i \in Offsets /\ bank[e + i] = Garbage
    BY <1>3 DEF Stuck
  <2>2. bank[e] # Blank /\ bank[e + i] # Blank
    <3>1. Len(bank[e]) = 2
      BY <1>3 DEF Stuck
    <3> QED  BY <2>1, <3>1, Unwritten, Zenon
  <2>3. new[e] \in {bank[e], Garbage} /\ new[e + i] = Garbage
    BY <1>1, <2>1, <2>2 DEF Stuck
  <2> QED  BY <1>3, <2>1, <2>3 DEF Stuck
<1> QED  BY <1>2, <1>3

(* Nothing, or one record, is readable behind what was. *)
LEMMA NoneMore ==
  ASSUME NEW new \in Bank, NEW e \in 0..BankSize, ~ValidAt(new, e)
  PROVE  ScanFrom(new)[e].found = << >> /\ ScanFrom(new)[e].end = e
<1>1. ScanFrom(new)[e] = [found |-> << >>, end |-> e]
  BY ScanStep
<1> QED  BY <1>1

(* A record more behind the end is found behind the others. *)
LEMMA OneMore ==
  ASSUME NEW new \in Bank, NEW e \in 0..BankSize, ValidAt(new, e), NEW r, r = RecordAt(new, e),
         ~ValidAt(new, e + new[e][2])
  PROVE  ScanFrom(new)[e].found = <<r>> /\ ScanFrom(new)[e].end = e + new[e][2]
         /\ e + new[e][2] \in 0..BankSize
<1> DEFINE p == e + new[e][2]
<1>1. p \in 0..BankSize /\ r \in Records
  BY ValidEnds, SizesPositive
<1>2. ScanFrom(new)[e] = [found |-> <<r>> \o ScanFrom(new)[p].found, end |-> ScanFrom(new)[p].end]
  BY ScanStep
<1>3. ScanFrom(new)[p].found = << >> /\ ScanFrom(new)[p].end = p
  <2>1. ~ValidAt(new, p)
    OBVIOUS
  <2> HIDE DEF p
  <2> QED  BY <1>1, <2>1, NoneMore
<1>4. <<r>> \o << >> = <<r>>
  BY <1>1
<1> QED  BY <1>1, <1>2, <1>3, <1>4

(* The next unit of a record goes to the place where a scan stops. *)
LEMMA ProgramOpen ==
  ASSUME NEW bank \in Bank, NEW e \in 0..BankSize, NEW r \in Records, NEW at \in 0..r.size - 1,
         e + r.size <= BankSize, ~ValidAt(bank, e), ~Stuck(bank, e), Open(bank, e),
         \A i \in 0..at - 1 : bank[e + i] \in {Unit(r, i), Garbage},
         \A o \in Offsets : e + at <= o /\ Len(bank[o]) = 3 => bank[o][1] # r.id,
         NEW new \in Bank, new = [bank EXCEPT ![e + at] = Merged(bank[e + at], Unit(r, at))]
  PROVE  \/ Stuck(new, e)
         \/ at + 1 # r.size /\ ~ValidAt(new, e) /\ Open(new, e)
         \/ at + 1 = r.size /\ ValidAt(new, e) /\ RecordAt(new, e) = r /\ new[e][2] = r.size
            /\ Clean(new, e + r.size)
<1>0. r.size \in 2..BankSize /\ BankSize \in Nat /\ e \in Offsets /\ e + at \in Offsets /\ at \in Nat
  <2>1. r.size \in 2..BankSize /\ BankSize \in Nat
    BY SizesPositive DEF Records
  <2> QED  BY <2>1 DEF Offsets
<1>1. \A p \in Offsets : p # e + at => new[p] = bank[p]
  BY <1>0 DEF Bank
<1>2. new[e + at] = Merged(bank[e + at], Unit(r, at))
  BY <1>0 DEF Bank
<1>3. Len(Head1(r)) = 2 /\ Head1(r)[1] = r.seq /\ Head1(r)[2] = r.size
  BY DEF Head1
<1>4. bank[e] # Garbage
  BY <1>0 DEF Stuck
<1>5. CASE at = 0
  <2>1. new[e] = Merged(bank[e], Head1(r))
    BY <1>2, <1>5, <1>0 DEF Unit
  <2>2. CASE Clean(bank, e)
    <3>1. new[e] = Head1(r)
      BY <1>0, <1>4, <2>1, <2>2, MergedTwo DEF Clean
    <3>2. Clean(new, e + r.size) /\ e + 1 \in Offsets /\ new[e + 1] \in {Blank, Garbage}
      BY <1>0, <1>1, <1>5, <2>2 DEF Clean, Offsets
    <3>3. ~ValidAt(new, e)
      <4>1. Len(new[e + 1]) # 3
        BY <3>2, Unwritten, Zenon
      <4> QED  BY <4>1 DEF ValidAt
    <3> QED  BY <1>0, <1>3, <1>5, <3>1, <3>2, <3>3 DEF Open
  <2>3. CASE ~Clean(bank, e)
    <3>1. Len(bank[e]) = 2
      BY <2>3 DEF Open
    <3>2. new[e] \in {bank[e], Garbage}
      <4>1. bank[e] # Blank
        BY <3>1, Unwritten, Zenon
      <4> QED  BY <2>1, <4>1, MergedTwo
    <3>3. CASE new[e] = Garbage
      BY <1>0, <3>3 DEF Stuck
    <3>4. CASE new[e] = bank[e]
      <4>1. new = bank
        BY <1>0, <1>1, <1>5, <3>4 DEF Bank
      <4> QED  BY <1>0, <1>5, <4>1
    <3> QED  BY <3>2, <3>3, <3>4
  <2> QED  BY <2>2, <2>3
<1>6. CASE at # 0
  <2>1. bank[e] = Head1(r) /\ new[e] = Head1(r)
    <3>1. 0 \in 0..at - 1 /\ e + 0 = e /\ e # e + at
      BY <1>0, <1>6
    <3>2. bank[e] \in {Unit(r, 0), Garbage}
      BY <3>1
    <3> QED  BY <1>0, <1>1, <1>4, <3>1, <3>2 DEF Unit
  <2>2. Clean(bank, e + r.size) /\ Clean(new, e + r.size)
    <3>1. bank[e] \notin {Blank, Garbage}
      BY <1>3, <2>1, Unwritten, Zenon
    <3>2. Clean(bank, e + r.size)
      BY <1>0, <1>3, <2>1, <3>1 DEF Open, Clean
    <3>3. \A o \in Offsets : e + r.size <= o => o # e + at
      BY <1>0 DEF Offsets
    <3> QED  BY <1>1, <3>2, <3>3 DEF Clean
  <2>3. \A i \in 0..at : new[e + i] \in {Unit(r, i), Garbage}
    <3>1. new[e + at] \in {Unit(r, at), Garbage}
      BY <1>2, MergedTwo
    <3>2. \A i \in 0..at - 1 : e + i \in Offsets /\ e + i # e + at
      BY <1>0 DEF Offsets
    <3>3. \A i \in 0..at - 1 : new[e + i] \in {Unit(r, i), Garbage}
      BY <1>1, <3>2
    <3>4. \A i \in 0..at : i = at \/ i \in 0..at - 1
      BY <1>0
    <3> QED  BY <3>1, <3>3, <3>4
  <2>4. \A i \in 1..at : new[e + i] \in {Later(r, i), Garbage} /\ e + i \in Offsets
    BY <1>0, <2>3 DEF Unit, Offsets
  <2>5. CASE \E i \in 1..at : new[e + i] = Garbage
    <3>1. PICK i \in 1..at : new[e + i] = Garbage
      BY <2>5
    <3>2. i \in 1..new[e][2] - 1 /\ e + i \in Offsets
      BY <1>0, <1>3, <2>1, <2>4
    <3> QED  BY <1>0, <1>3, <2>1, <3>1, <3>2 DEF Stuck
  <2>6. CASE ~\E i \in 1..at : new[e + i] = Garbage
    <3>1. \A i \in 1..at : new[e + i] = Later(r, i)
      BY <2>4, <2>6
    <3>2. new[e + 1] = <<r.id, r.seq, 1>> /\ Len(new[e + 1]) = 3 /\ new[e + 1][1] = r.id
      <4>1. new[e + 1] = Later(r, 1)
        BY <1>0, <1>6, <3>1
      <4>2. Len(Later(r, 1)) = 3 /\ Later(r, 1)[1] = r.id /\ Later(r, 1) = <<r.id, r.seq, 1>>
        BY DEF Later
      <4> QED  BY <4>1, <4>2
    <3>3. CASE at + 1 # r.size
      <4>1. ~ValidAt(new, e)
        <5> SUFFICES ASSUME ValidAt(new, e) PROVE FALSE
          OBVIOUS
        <5> DEFINE z == r.size - 1
        <5>1. z \in 1..r.size - 1 /\ e + z \in Offsets /\ e + at <= e + z /\ e + z # e + at
          BY <1>0, <3>3 DEF Offsets
        <5>2. new[e][2] = r.size
          BY <1>3, <2>1
        <5>3. new[e + z] = <<r.id, new[e][1], z>>
          BY <3>2, <5>1, <5>2 DEF ValidAt
        <5>4. bank[e + z] = <<r.id, new[e][1], z>>
          BY <1>1, <5>1, <5>3
        <5>5. Len(<<r.id, new[e][1], z>>) = 3 /\ <<r.id, new[e][1], z>>[1] = r.id
          OBVIOUS
        <5> HIDE DEF z
        <5> QED  BY <5>1, <5>4, <5>5
      <4> QED  BY <1>0, <1>3, <2>1, <2>2, <3>3, <4>1 DEF Open
    <3>4. CASE at + 1 = r.size
      <4>1. ValidAt(new, e)
        <5>1. \A i \in 1..new[e][2] - 1 : new[e + i] = <<new[e + 1][1], new[e][1], i>>
          BY <1>0, <1>3, <2>1, <3>1, <3>2, <3>4 DEF Later
        <5>2. new[e][2] = r.size /\ Len(new[e]) = 2
          BY <1>3, <2>1
        <5>3. e < BankSize /\ e + r.size <= BankSize
          BY <1>0
        <5> QED  BY <3>2, <5>1, <5>2, <5>3 DEF ValidAt
      <4>2. RecordAt(new, e) = r
        BY <1>3, <2>1, <3>2 DEF RecordAt, Records
      <4> QED  BY <1>3, <2>1, <2>2, <3>4, <4>1, <4>2
    <3> QED  BY <3>3, <3>4
  <2> QED  BY <2>5, <2>6
<1> QED  BY <1>5, <1>6

(* The flash reports an error instead. *)
LEMMA FailOpen ==
  ASSUME NEW bank \in Bank, NEW e \in 0..BankSize, NEW r \in Records, NEW at \in 0..r.size - 1,
         e + r.size <= BankSize, ~Stuck(bank, e),
         \A i \in 0..at - 1 : bank[e + i] \in {Unit(r, i), Garbage},
         NEW new \in Bank, new = [bank EXCEPT ![e + at] = Garbage]
  PROVE  Stuck(new, e)
<1>0. r.size \in 2..BankSize /\ BankSize \in Nat /\ e \in Offsets /\ e + at \in Offsets /\ at \in Nat
  <2>1. r.size \in 2..BankSize /\ BankSize \in Nat
    BY SizesPositive DEF Records
  <2> QED  BY <2>1 DEF Offsets
<1>1. new[e + at] = Garbage /\ \A p \in Offsets : p # e + at => new[p] = bank[p]
  BY <1>0 DEF Bank
<1>2. CASE at = 0
  BY <1>0, <1>1, <1>2 DEF Stuck
<1>3. CASE at # 0
  <2>1. bank[e] \in {Unit(r, 0), Garbage} /\ new[e] = bank[e]
    <3>1. 0 \in 0..at - 1 /\ e + 0 = e /\ e # e + at
      BY <1>0, <1>3
    <3>2. bank[e + 0] \in {Unit(r, 0), Garbage}
      BY <3>1
    <3> QED  BY <1>0, <1>1, <3>1, <3>2
  <2>2. new[e] = Head1(r)
    BY <1>0, <2>1 DEF Unit, Stuck
  <2>3. Len(new[e]) = 2 /\ new[e][2] = r.size
    <3>1. Len(Head1(r)) = 2 /\ Head1(r)[2] = r.size
      BY DEF Head1
    <3> QED  BY <2>2, <3>1
  <2>4. at \in 1..new[e][2] - 1
    BY <1>0, <1>3, <2>3
  <2> QED  BY <1>0, <1>1, <2>3, <2>4 DEF Stuck
<1> QED  BY <1>2, <1>3

-------------------------------------------------------------------------------
(* The numbers of the records found, which rise. *)
SeqsOf(found) == {found[i].seq : i \in DOMAIN found}
Rising(found) == \A i, j \in DOMAIN found : i < j => found[i].seq < found[j].seq

(* A record with a higher number behind rising ones. *)
LEMMA AppendRising ==
  ASSUME NEW found \in Seq(Records), NEW r \in Records
  PROVE  /\ SeqsOf(found \o <<r>>) = SeqsOf(found) \cup {r.seq}
         /\ Rising(found) /\ (\A s \in SeqsOf(found) : s < r.seq) => Rising(found \o <<r>>)
<1> DEFINE more == found \o <<r>>
<1>1. /\ DOMAIN more = 1..Len(found) + 1 /\ DOMAIN found = 1..Len(found) /\ Len(found) \in Nat
      /\ \A i \in 1..Len(found) : more[i] = found[i]
      /\ more[Len(found) + 1] = r
  OBVIOUS
<1> HIDE DEF more
<1>2. SeqsOf(more) = SeqsOf(found) \cup {r.seq}
  BY <1>1 DEF SeqsOf
<1>3. ASSUME Rising(found), \A s \in SeqsOf(found) : s < r.seq
      PROVE  Rising(more)
  <2> SUFFICES ASSUME NEW i \in DOMAIN more, NEW j \in DOMAIN more, i < j
               PROVE  more[i].seq < more[j].seq
    BY DEF Rising
  <2>1. i \in 1..Len(found) /\ (j \in 1..Len(found) \/ j = Len(found) + 1)
    BY <1>1
  <2> QED  BY <1>1, <1>3, <2>1 DEF Rising, SeqsOf
<1> QED  BY <1>2, <1>3 DEF more

(* The beginning of rising records rises. *)
LEMMA PrefixRising ==
  ASSUME NEW found \in Seq(Records), NEW k \in 0..Len(found)
  PROVE  /\ SubSeq(found, 1, k) \in Seq(Records)
         /\ SeqsOf(SubSeq(found, 1, k)) \subseteq SeqsOf(found)
         /\ Rising(found) => Rising(SubSeq(found, 1, k))
<1> DEFINE part == SubSeq(found, 1, k)
<1>1. /\ part \in Seq(Records) /\ Len(part) = k /\ DOMAIN part = 1..k
      /\ \A i \in 1..k : part[i] = found[i] /\ i \in DOMAIN found
  OBVIOUS
<1> HIDE DEF part
<1>2. SeqsOf(part) \subseteq SeqsOf(found)
  BY <1>1 DEF SeqsOf
<1>3. Rising(found) => Rising(part)
  BY <1>1 DEF Rising
<1> QED  BY <1>1, <1>2, <1>3 DEF part

(* A record with a lower number before rising ones. *)
LEMMA FirstRising ==
  ASSUME NEW rest \in Seq(Records), NEW r \in Records
  PROVE  /\ SeqsOf(<<r>> \o rest) = {r.seq} \cup SeqsOf(rest)
         /\ Rising(<<r>> \o rest) => Rising(rest) /\ \A s \in SeqsOf(rest) : r.seq < s
<1> DEFINE all == <<r>> \o rest
<1>1. /\ DOMAIN all = 1..Len(rest) + 1 /\ DOMAIN rest = 1..Len(rest) /\ Len(rest) \in Nat
      /\ all[1] = r /\ \A i \in 1..Len(rest) : all[i + 1] = rest[i]
  OBVIOUS
<1> HIDE DEF all
<1>2. \A j \in 1..Len(rest) + 1 : j # 1 => j - 1 \in 1..Len(rest) /\ all[j] = rest[j - 1]
  <2> SUFFICES ASSUME NEW j \in 1..Len(rest) + 1, j # 1
               PROVE  j - 1 \in 1..Len(rest) /\ all[j] = rest[j - 1]
    OBVIOUS
  <2>1. j - 1 \in 1..Len(rest) /\ (j - 1) + 1 = j
    BY <1>1
  <2> QED  BY <1>1, <2>1
<1>3. SeqsOf(all) = {r.seq} \cup SeqsOf(rest)
  <2>1. ASSUME NEW s \in SeqsOf(all) PROVE s \in {r.seq} \cup SeqsOf(rest)
    <3>1. PICK j \in 1..Len(rest) + 1 : s = all[j].seq
      BY <1>1 DEF SeqsOf
    <3>2. CASE j = 1
      BY <1>1, <3>1, <3>2
    <3>3. CASE j # 1
      BY <1>1, <1>2, <3>1, <3>3 DEF SeqsOf
    <3> QED  BY <3>2, <3>3
  <2>2. ASSUME NEW s \in SeqsOf(rest) PROVE s \in SeqsOf(all)
    <3>1. PICK i \in 1..Len(rest) : s = rest[i].seq
      BY <1>1 DEF SeqsOf
    <3>2. i + 1 \in 1..Len(rest) + 1 /\ s = all[i + 1].seq
      BY <1>1, <3>1
    <3> QED  BY <1>1, <3>2 DEF SeqsOf
  <2>3. r.seq \in SeqsOf(all)
    <3>1. 1 \in DOMAIN all /\ all[1] = r
      BY <1>1
    <3> QED  BY <3>1 DEF SeqsOf
  <2> QED  BY <2>1, <2>2, <2>3
<1>4. ASSUME Rising(all) PROVE Rising(rest) /\ \A s \in SeqsOf(rest) : r.seq < s
  <2>1. ASSUME NEW i \in 1..Len(rest), NEW j \in 1..Len(rest), i < j
        PROVE  rest[i].seq < rest[j].seq
    <3>1. i + 1 \in DOMAIN all /\ j + 1 \in DOMAIN all /\ i + 1 < j + 1
      BY <1>1, <2>1
    <3> QED  BY <1>1, <1>4, <3>1 DEF Rising
  <2>2. ASSUME NEW i \in 1..Len(rest) PROVE r.seq < rest[i].seq
    <3>1. i + 1 \in DOMAIN all /\ 1 \in DOMAIN all /\ 1 < i + 1
      BY <1>1
    <3> QED  BY <1>1, <1>4, <3>1 DEF Rising
  <2> QED  BY <1>1, <2>1, <2>2 DEF Rising, SeqsOf
<1> QED  BY <1>3, <1>4 DEF all

(* The last of rising records has the highest number. *)
LEMMA LastRising ==
  ASSUME NEW found \in Seq(Records)
  PROVE  /\ LastOf(found) \in Nat
         /\ SeqsOf(found) \subseteq Nat \ {0}
         /\ LastOf(found) = 0 <=> found = << >>
         /\ found # << >> => LastOf(found) \in SeqsOf(found)
         /\ Rising(found) => \A s \in SeqsOf(found) : s <= LastOf(found)
<1>0. /\ DOMAIN found = 1..Len(found) /\ Len(found) \in Nat
      /\ \A i \in 1..Len(found) : found[i].seq \in Nat \ {0}
  <2>1. DOMAIN found = 1..Len(found) /\ Len(found) \in Nat /\ \A i \in 1..Len(found) : found[i] \in Records
    OBVIOUS
  <2>2. \A r \in Records : r.seq \in Nat \ {0}
    <3>1. \A r \in Records : r.seq \in 1..MaxRecords
      BY DEF Records
    <3> QED  BY <3>1, PersistAssumption
  <2> QED  BY <2>1, <2>2
<1>1. SeqsOf(found) \subseteq Nat \ {0}
  BY <1>0 DEF SeqsOf
<1>2. CASE found = << >>
  BY <1>2, <1>0, <1>1 DEF LastOf, SeqsOf
<1>3. CASE found # << >>
  <2>1. Len(found) \in 1..Len(found)
    BY <1>3
  <2>2. LastOf(found) = found[Len(found)].seq
    BY <1>3 DEF LastOf
  <2>3. LastOf(found) \in SeqsOf(found)
    BY <1>0, <2>1, <2>2 DEF SeqsOf
  <2>4. ASSUME Rising(found), NEW i \in 1..Len(found)
        PROVE  found[i].seq <= LastOf(found)
    <3>1. i = Len(found) \/ i < Len(found)
      <4>1. \A n \in Nat : \A k \in 1..n : k = n \/ k < n
        OBVIOUS
      <4>2. Len(found) \in Nat
        BY <1>0
      <4> QED  BY <4>1, <4>2, Zenon
    <3>2. found[i].seq \in Nat /\ LastOf(found) \in Nat
      BY <1>0, <2>1, <2>2
    <3>3. CASE i = Len(found)
      BY <2>2, <3>2, <3>3
    <3>4. CASE i < Len(found)
      <4>1. found[i].seq < found[Len(found)].seq
        BY <1>0, <2>1, <2>4, <3>4 DEF Rising
      <4> QED  BY <2>2, <3>2, <4>1
    <3> QED  BY <3>1, <3>3, <3>4
  <2> QED  BY <1>0, <1>1, <1>3, <2>3, <2>4 DEF SeqsOf
<1> QED  BY <1>2, <1>3

-------------------------------------------------------------------------------
(* A torn erase keeps what is before cut and nothing behind it. *)
TornTo(bank, new, cut, fill) ==
  \A o \in Offsets : new[o] = IF o < cut THEN bank[o] ELSE fill

(* A record that is valid after an erase was cut short was there before it. *)
LEMMA TornValid ==
  ASSUME NEW bank \in Bank, NEW new \in Bank, NEW cut \in 0..BankSize,
         NEW fill \in {Blank, Garbage}, TornTo(bank, new, cut, fill),
         NEW o \in 0..BankSize, ValidAt(new, o)
  PROVE  /\ ValidAt(bank, o) /\ bank[o] = new[o] /\ RecordAt(bank, o) = RecordAt(new, o)
         /\ o + bank[o][2] <= cut
<1>1. o < BankSize /\ new[o][2] \in 2..BankSize /\ o + new[o][2] \in o + 1..BankSize
  BY ValidEnds, SizesPositive
<1> DEFINE z == new[o][2]
<1>2. \A i \in 0..z - 1 : o + i \in Offsets
  BY <1>1, SizesPositive DEF Offsets
<1>3. Len(new[o]) = 2 /\ o + 0 = o /\ 0 \in 0..z - 1
  BY <1>1 DEF ValidAt
<1>4. ASSUME NEW i \in 1..z - 1 PROVE Len(new[o + i]) = 3
  <2>1. new[o + i] = <<new[o + 1][1], new[o][1], i>>
    BY DEF ValidAt
  <2> QED  BY <2>1
<1>5. \A i \in 0..z - 1 : i = 0 \/ i \in 1..z - 1
  BY <1>1
<1>6. ASSUME NEW i \in 0..z - 1 PROVE new[o + i] \notin {Blank, Garbage}
  <2>1. Len(new[o + i]) = 2 \/ Len(new[o + i]) = 3
    BY <1>3, <1>4, <1>5
  <2> QED  BY <2>1, Unwritten, Zenon
<1>7. ASSUME NEW i \in 0..z - 1 PROVE o + i < cut /\ new[o + i] = bank[o + i]
  BY <1>2, <1>6 DEF TornTo
<1>8. new[o] = bank[o] /\ new[o + 1] = bank[o + 1]
  BY <1>1, <1>3, <1>7
<1>9. \A i \in 1..z - 1 : new[o + i] = bank[o + i]
  BY <1>1, <1>7
<1>10. o + (z - 1) < cut
  BY <1>1, <1>7
<1> QED  BY <1>1, <1>8, <1>9, <1>10 DEF ValidAt, RecordAt

TornAt(bank, new, cut, o) ==
  /\ ScanFrom(new)[o].end \in 0..BankSize
  /\ o <= cut => ScanFrom(new)[o].end <= cut
  /\ ValidAt(bank, ScanFrom(new)[o].end) \/ ScanFrom(new)[o].end = ScanFrom(bank)[o].end
  /\ \E k \in 0..Len(ScanFrom(bank)[o].found) :
        ScanFrom(new)[o].found = SubSeq(ScanFrom(bank)[o].found, 1, k)

(* From every offset, an erase that was cut short leaves the beginning of what was found. *)
LEMMA TornScan ==
  ASSUME NEW bank \in Bank, NEW new \in Bank, NEW cut \in 0..BankSize,
         NEW fill \in {Blank, Garbage}, TornTo(bank, new, cut, fill)
  PROVE  \A o \in 0..BankSize : TornAt(bank, new, cut, o)
<1> DEFINE N == BankSize
           T == {k \in Nat : \A o \in 0..N : N - k <= o => TornAt(bank, new, cut, o)}
<1>0. N \in Nat
  BY SizesPositive
<1>a. \A o \in 0..N : ScanFrom(bank)[o].found \in Seq(Records)
  BY ScanTypes DEF ScanOK, Scans
<1>1. ASSUME NEW o \in 0..N, ~ValidAt(new, o)  PROVE TornAt(bank, new, cut, o)
  <2>1. ScanFrom(new)[o].found = << >> /\ ScanFrom(new)[o].end = o
    BY <1>1, NoneMore
  <2>2. ~ValidAt(bank, o) => ScanFrom(bank)[o].end = o
    BY NoneMore
  <2>3. 0 \in 0..Len(ScanFrom(bank)[o].found) /\ SubSeq(ScanFrom(bank)[o].found, 1, 0) = << >>
    BY <1>a
  <2> QED  BY <2>1, <2>2, <2>3 DEF TornAt
<1>2. 0 \in T
  <2>1. \A o \in 0..N : N - 0 <= o => ~ValidAt(new, o)
    BY <1>0 DEF ValidAt
  <2> QED  BY <1>1, <2>1
<1>3. ASSUME NEW k \in Nat, k \in T  PROVE k + 1 \in T
  <2> SUFFICES ASSUME NEW o \in 0..N, N - (k + 1) <= o, ValidAt(new, o)
               PROVE  TornAt(bank, new, cut, o)
    BY <1>1
  <2> DEFINE p == o + bank[o][2]
             r == RecordAt(bank, o)
  <2>1. /\ ValidAt(bank, o) /\ bank[o] = new[o] /\ RecordAt(new, o) = r
        /\ p <= cut
    BY TornValid
  <2>2. p \in o + 1..N /\ r \in Records
    BY <2>1, ValidEnds
  <2>3. p \in 0..N /\ N - k <= p
    BY <1>0, <2>2
  <2>4. TornAt(bank, new, cut, p)
    BY <1>3, <2>3
  <2>5. /\ ScanFrom(bank)[o] = [found |-> <<r>> \o ScanFrom(bank)[p].found, end |-> ScanFrom(bank)[p].end]
        /\ ScanFrom(new)[o] = [found |-> <<r>> \o ScanFrom(new)[p].found, end |-> ScanFrom(new)[p].end]
    <3>1. ScanFrom(bank)[o] = [found |-> <<r>> \o ScanFrom(bank)[p].found, end |-> ScanFrom(bank)[p].end]
      BY <2>1, ScanStep
    <3> DEFINE q == o + new[o][2]
               x == RecordAt(new, o)
    <3>2. ScanFrom(new)[o] = [found |-> <<x>> \o ScanFrom(new)[q].found, end |-> ScanFrom(new)[q].end]
      BY ScanStep
    <3>3. q = p /\ x = r
      BY <2>1
    <3> HIDE DEF q, x, p, r
    <3> QED  BY <3>1, <3>2, <3>3
  <2> HIDE DEF p, r
  <2>6. PICK n \in 0..Len(ScanFrom(bank)[p].found) :
          ScanFrom(new)[p].found = SubSeq(ScanFrom(bank)[p].found, 1, n)
    BY <2>4 DEF TornAt
  <2> DEFINE s == ScanFrom(bank)[p].found
  <2>7. s \in Seq(Records)
    BY <1>a, <2>3
  <2>8. /\ n + 1 \in 0..Len(<<r>> \o s)
        /\ <<r>> \o SubSeq(s, 1, n) = SubSeq(<<r>> \o s, 1, n + 1)
    <3>1. n \in 0..Len(s) /\ r \in Records
      BY <2>2, <2>6
    <3> HIDE DEF s
    <3>2. n + 1 \in 0..Len(<<r>> \o s) /\ Len(<<r>> \o s) = Len(s) + 1
      BY <2>7, <3>1
    <3>3. /\ Len(<<r>> \o SubSeq(s, 1, n)) = n + 1
          /\ Len(SubSeq(<<r>> \o s, 1, n + 1)) = n + 1
      BY <2>7, <3>1
    <3>4. \A i \in 1..n + 1 : (<<r>> \o SubSeq(s, 1, n))[i] = SubSeq(<<r>> \o s, 1, n + 1)[i]
      BY <2>7, <3>1
    <3>5. <<r>> \o SubSeq(s, 1, n) \in Seq(Records) /\ SubSeq(<<r>> \o s, 1, n + 1) \in Seq(Records)
      BY <2>7, <3>1, <3>2
    <3> QED  BY <3>2, <3>3, <3>4, <3>5
  <2>9. /\ ScanFrom(bank)[o].found = <<r>> \o s /\ ScanFrom(bank)[o].end = ScanFrom(bank)[p].end
        /\ ScanFrom(new)[o].found = <<r>> \o SubSeq(s, 1, n) /\ ScanFrom(new)[o].end = ScanFrom(new)[p].end
    BY <2>5, <2>6
  <2> HIDE DEF s
  <2> QED  BY <2>1, <2>4, <2>8, <2>9 DEF TornAt
<1>4. N \in T
  <2> HIDE DEF T
  <2> QED  BY <1>0, <1>2, <1>3, SetInduction, Zenon
<1> QED  BY <1>0, <1>4

(* A torn erase leaves a first part of the records, and no trap behind them. *)
LEMMA TornKeeps ==
  ASSUME NEW bank \in Bank, NEW new \in Bank, NEW cut \in 0..BankSize,
         NEW fill \in {Blank, Garbage}, TornTo(bank, new, cut, fill)
  PROVE  /\ \E k \in 0..Len(Readable(bank)) : Readable(new) = SubSeq(Readable(bank), 1, k)
         /\ LET e == EndOfReadable(bank)
                f == EndOfReadable(new)
            IN  Stuck(bank, e) \/ Open(bank, e) => Stuck(new, f) \/ Open(new, f)
<1> DEFINE e == EndOfReadable(bank)
           f == EndOfReadable(new)
<1>0. BankSize \in Nat /\ 0 \in 0..BankSize /\ cut \in Nat
  BY SizesPositive
<1>1. TornAt(bank, new, cut, 0)
  BY <1>0, TornScan
<1>2. /\ \E k \in 0..Len(Readable(bank)) : Readable(new) = SubSeq(Readable(bank), 1, k)
      /\ f \in 0..BankSize /\ f <= cut /\ (ValidAt(bank, f) \/ f = e)
  BY <1>0, <1>1 DEF TornAt, Readable, EndOfReadable
<1>3. ~ValidAt(new, f)
  BY <1>0, ScanTypes DEF ScanOK, Scans, EndOfReadable
<1> HIDE DEF f, e
<1>4. \A x \in Nat : cut <= x => Clean(new, x)
  BY <1>0 DEF TornTo, Clean, Offsets
<1>5. f < cut => f \in Offsets /\ new[f] = bank[f]
  BY <1>0, <1>2 DEF TornTo, Offsets
<1>6. f = cut => Open(new, f)
  BY <1>0, <1>4 DEF Open
<1>7. CASE ValidAt(bank, f)
  <2>1. bank[f][2] \in 2..BankSize /\ f + bank[f][2] \in f + 1..BankSize /\ f \in Offsets
        /\ Len(bank[f]) = 2
    <3>1. f \in 0..BankSize
      BY <1>2
    <3>2. f < BankSize /\ bank[f][2] \in Sizes /\ f + bank[f][2] \in f + 1..BankSize
      BY <1>7, <3>1, ValidEnds
    <3>3. bank[f][2] \in 2..BankSize
      BY <3>2, SizesPositive
    <3>4. Len(bank[f]) = 2
      BY <1>7 DEF ValidAt
    <3>5. f \in Offsets
      BY <1>0, <3>1, <3>2 DEF Offsets
    <3> QED  BY <3>2, <3>3, <3>4, <3>5
  <2>2. f + bank[f][2] > cut
    <3> SUFFICES ASSUME f + bank[f][2] <= cut PROVE FALSE
      BY <1>0, <2>1
    <3>1. \A i \in 0..bank[f][2] - 1 : f + i \in Offsets /\ f + i < cut
      BY <1>0, <1>2, <2>1 DEF Offsets
    <3>2. \A i \in 0..bank[f][2] - 1 : new[f + i] = bank[f + i]
      BY <3>1 DEF TornTo
    <3>3. new[f] = bank[f] /\ new[f + 1] = bank[f + 1]
      <4>1. 0 \in 0..bank[f][2] - 1 /\ 1 \in 0..bank[f][2] - 1 /\ f + 0 = f
        BY <1>0, <1>2, <2>1
      <4>2. new[f + 0] = bank[f + 0] /\ new[f + 1] = bank[f + 1]
        BY <3>2, <4>1
      <4> QED  BY <4>1, <4>2
    <3>4. \A i \in 1..bank[f][2] - 1 : new[f + i] = bank[f + i]
      BY <2>1, <3>2
    <3> QED  BY <1>3, <1>7, <3>3, <3>4 DEF ValidAt
  <2>3. CASE f < cut
    <3>1. Clean(new, f + bank[f][2])
      BY <1>0, <1>4, <2>1, <2>2
    <3> QED  BY <1>2, <1>5, <2>1, <2>3, <3>1 DEF Open, f, e
  <2>4. CASE f = cut
    BY <1>2, <1>6, <2>4 DEF f, e
  <2> QED  BY <1>0, <1>2, <2>3, <2>4
<1>8. CASE f = e
  <2>1. CASE f = cut
    BY <1>2, <1>6, <2>1 DEF f, e
  <2>2. CASE f < cut
    <3>1. f \in Offsets /\ new[f] = bank[f]
      BY <1>5, <2>2
    <3>2. CASE Stuck(bank, e)
      <4>1. CASE bank[e] = Garbage
        BY <1>2, <1>8, <3>1, <4>1 DEF Stuck, f, e
      <4>2. CASE bank[e] # Garbage
        <5>1. Len(new[f]) = 2
          BY <1>8, <3>1, <3>2, <4>2 DEF Stuck
        <5>2. PICK i \in 1..bank[e][2] - 1 : e + i \in Offsets /\ bank[e + i] = Garbage
          BY <3>2, <4>2 DEF Stuck
        <5>3. CASE e + i < cut
          <6>1. new[f + i] = Garbage
            BY <1>8, <5>2, <5>3 DEF TornTo
          <6> QED  BY <1>2, <1>8, <3>1, <5>1, <5>2, <6>1 DEF Stuck, f, e
        <5>4. CASE ~(e + i < cut)
          <6>1. bank[e][2] \in Sizes
            <7>1. bank[f] \in Units
              BY <3>1 DEF Bank
            <7> QED  BY <1>8, <3>1, <5>1, <7>1, Shape
          <6>2. cut <= f + new[f][2] /\ f + new[f][2] \in Nat
            <7> DEFINE z == bank[e][2]
            <7>1. z \in Nat /\ f \in Nat /\ i \in 1..z - 1 /\ ~(f + i < cut) /\ new[f][2] = z
              <8>1. bank[e][2] \in Nat
                <9>1. \A x \in Sizes : x \in Nat
                  BY SizesPositive
                <9> QED  BY <6>1, <9>1, Zenon
              <8> QED  BY <1>2, <1>8, <3>1, <5>2, <5>4, <8>1
            <7> HIDE DEF z
            <7> QED  BY <1>0, <7>1
          <6>3. Clean(new, f + new[f][2])
            BY <1>4, <6>2
          <6> QED  BY <1>2, <3>1, <5>1, <6>3 DEF Open, f, e
        <5> QED  BY <5>3, <5>4
      <4> QED  BY <4>1, <4>2
    <3>3. CASE Open(bank, e)
      <4>1. \A x : Clean(bank, x) => Clean(new, x)
        BY DEF Clean, TornTo
      <4> QED  BY <1>2, <1>8, <3>1, <3>3, <4>1 DEF Open, f, e
    <3> QED  BY <1>2, <3>2, <3>3 DEF f, e
  <2> QED  BY <1>0, <1>2, <2>1, <2>2
<1> QED  BY <1>2, <1>7, <1>8

-------------------------------------------------------------------------------
Seqs(bank) == SeqsOf(Readable(bank))

(* What is readable in a bank is in the order it was written, below n, and a   *)
(* record that is written behind it is readable behind it, or never.           *)
Ordered(bank, n) ==
  /\ Stuck(bank, EndOfReadable(bank)) \/ Open(bank, EndOfReadable(bank))
  /\ Rising(Readable(bank))
  /\ \A s \in Seqs(bank) : s < n

OlderThan(one, two) == \A s \in Seqs(one), t \in Seqs(two) : s < t

(* The write offset of the statics, for the bank in use. *)
Placed(bank, offset) ==
  /\ EndOfReadable(bank) <= offset
  /\ ~Stuck(bank, EndOfReadable(bank)) => offset = EndOfReadable(bank)

InOrder(fl, active, n) ==
  /\ \A b \in Banks : Ordered(fl[b], n)
  /\ OlderThan(fl[OtherBank(active)], fl[active])

(* The numbers found are those of records, and the last is one of them. *)
LEMMA SeqsTypes ==
  ASSUME NEW bank \in Bank
  PROVE  /\ Seqs(bank) \subseteq Nat \ {0} /\ LastSeq(bank) \in Nat
         /\ LastSeq(bank) = 0 <=> Readable(bank) = << >>
         /\ LastSeq(bank) # 0 => LastSeq(bank) \in Seqs(bank)
         /\ LastSeq(bank) = 0 => Seqs(bank) = {}
         /\ Rising(Readable(bank)) => \A s \in Seqs(bank) : s <= LastSeq(bank)
<1>1. Readable(bank) \in Seq(Records)
  BY ReadableTypes
<1>2. Readable(bank) = << >> => SeqsOf(Readable(bank)) = {}
  BY DEF SeqsOf
<1> QED  BY <1>1, <1>2, LastRising DEF Seqs, LastSeq

(* An erased bank is in order. *)
LEMMA BlankOrdered ==
  /\ Seqs(BlankBank) = {} /\ Placed(BlankBank, 0)
  /\ \A n : Ordered(BlankBank, n)
<1>1. Readable(BlankBank) = << >> /\ EndOfReadable(BlankBank) = 0
  BY BlankFound
<1>2. Seqs(BlankBank) = {} /\ Rising(Readable(BlankBank))
  BY <1>1 DEF Seqs, SeqsOf, Rising
<1>3. Open(BlankBank, 0)
  BY DEF Open, Clean, BlankBank
<1>4. Placed(BlankBank, 0)
  BY <1>1 DEF Placed
<1> QED  BY <1>1, <1>2, <1>3, <1>4 DEF Ordered

(* A torn erase of an ordered bank leaves an ordered one. *)
LEMMA TornOrdered ==
  ASSUME NEW bank \in Bank, NEW new \in Bank, NEW cut \in 0..BankSize,
         NEW fill \in {Blank, Garbage}, TornTo(bank, new, cut, fill),
         NEW n, Ordered(bank, n)
  PROVE  Ordered(new, n) /\ Seqs(new) \subseteq Seqs(bank)
<1>1. PICK k \in 0..Len(Readable(bank)) : Readable(new) = SubSeq(Readable(bank), 1, k)
  BY TornKeeps
<1>2. Readable(bank) \in Seq(Records)
  BY ReadableTypes
<1>3. Seqs(new) \subseteq Seqs(bank) /\ Rising(Readable(new))
  BY <1>1, <1>2, PrefixRising DEF Ordered, Seqs
<1>4. Stuck(new, EndOfReadable(new)) \/ Open(new, EndOfReadable(new))
  BY TornKeeps DEF Ordered
<1> QED  BY <1>3, <1>4 DEF Ordered

-------------------------------------------------------------------------------
(* What reads in bank reads in new too, and more behind it. *)
Longer(bank, new, more) ==
  LET e == EndOfReadable(bank)
  IN  /\ \A o \in 0..e : ScanFrom(bank)[o].end = e =>
            /\ ScanFrom(new)[o].found = ScanFrom(bank)[o].found \o more
            /\ ScanFrom(new)[o].end = EndOfReadable(new)
      /\ Readable(new) = Readable(bank) \o more

(* What a scan finds from the old end comes behind what was read. *)
LEMMA LongerBy ==
  ASSUME NEW bank \in Bank, NEW new \in Bank,
         \A o \in Offsets : o < EndOfReadable(bank) => new[o] = bank[o]
  PROVE  /\ Longer(bank, new, ScanFrom(new)[EndOfReadable(bank)].found)
         /\ EndOfReadable(new) = ScanFrom(new)[EndOfReadable(bank)].end
<1> DEFINE e == EndOfReadable(bank)
<1>1. e \in 0..BankSize
  BY ReadableTypes
<1>2. \A o \in 0..e : Goes(bank, new, e, o)
  BY <1>1, ScanGoes
<1>3. /\ Readable(new) = Readable(bank) \o ScanFrom(new)[e].found
      /\ EndOfReadable(new) = ScanFrom(new)[e].end
  BY <1>1, ScanExtends
<1> QED  BY <1>2, <1>3 DEF Longer, Goes

(* No record begins where the scan ended. *)
LEMMA EndInvalid ==
  ASSUME NEW bank \in Bank
  PROVE  EndOfReadable(bank) \in 0..BankSize /\ ~ValidAt(bank, EndOfReadable(bank))
BY ScanTypes, SizesPositive DEF ScanOK, Scans, EndOfReadable

(* Nothing more than before reads in new. *)
SameAs(bank, new) ==
  /\ Longer(bank, new, << >>)
  /\ EndOfReadable(new) = EndOfReadable(bank)
  /\ Readable(new) = Readable(bank)

(* A bank changed behind its end, with no record there, reads as before. *)
LEMMA StillSame ==
  ASSUME NEW bank \in Bank, NEW new \in Bank,
         \A o \in Offsets : o < EndOfReadable(bank) => new[o] = bank[o],
         ~ValidAt(new, EndOfReadable(bank))
  PROVE  SameAs(bank, new)
<1> DEFINE e == EndOfReadable(bank)
<1>1. e \in 0..BankSize
  BY ReadableTypes
<1>2. ScanFrom(new)[e].found = << >> /\ ScanFrom(new)[e].end = e
  BY <1>1, NoneMore
<1>3. Longer(bank, new, << >>) /\ EndOfReadable(new) = e
  BY <1>2, LongerBy
<1>4. Readable(bank) \o << >> = Readable(bank)
  <2>1. Readable(bank) \in Seq(Records)
    BY ReadableTypes
  <2> QED  BY <2>1
<1> QED  BY <1>3, <1>4 DEF SameAs, Longer

(* The unit at of record r is programmed at the write offset. *)
Programmed(bank, new, offset, r, at) ==
  \/ /\ SameAs(bank, new)
     /\ \/ Stuck(new, EndOfReadable(bank))
        \/ /\ at + 1 # r.size /\ Open(new, EndOfReadable(bank))
           /\ offset = EndOfReadable(bank)
  \/ /\ Longer(bank, new, <<r>>) /\ at + 1 = r.size
     /\ EndOfReadable(new) = offset + r.size
     /\ Open(new, EndOfReadable(new))

(* A bank with one more record behind its end. *)
LEMMA OneLonger ==
  ASSUME NEW bank \in Bank, NEW new \in Bank, NEW r,
         \A o \in Offsets : o < EndOfReadable(bank) => new[o] = bank[o],
         ValidAt(new, EndOfReadable(bank)), RecordAt(new, EndOfReadable(bank)) = r,
         new[EndOfReadable(bank)][2] = r.size, ~ValidAt(new, EndOfReadable(bank) + r.size)
  PROVE  Longer(bank, new, <<r>>) /\ EndOfReadable(new) = EndOfReadable(bank) + r.size
<1> DEFINE e == EndOfReadable(bank)
           d == new[e][2]
<1>1. e \in 0..BankSize
  BY ReadableTypes
<1>2. /\ ValidAt(new, e) /\ r = RecordAt(new, e)
      /\ ~ValidAt(new, e + d) /\ d = r.size
  OBVIOUS
<1>3. ScanFrom(new)[e].found = <<r>> /\ ScanFrom(new)[e].end = e + d
  <2> HIDE DEF e
  <2> QED  BY <1>1, <1>2, OneMore
<1>4. /\ Longer(bank, new, ScanFrom(new)[e].found)
      /\ EndOfReadable(new) = ScanFrom(new)[e].end
  BY LongerBy
<1> HIDE DEF e, d
<1> QED  BY <1>2, <1>3, <1>4 DEF e

(* A programmed unit leaves what is read as it was, or completes the record. *)
LEMMA UnitProgrammed ==
  ASSUME NEW bank \in Bank, NEW n, Ordered(bank, n), NEW offset \in 0..BankSize,
         Placed(bank, offset), NEW r \in Records, NEW at \in 0..r.size - 1,
         offset + r.size <= BankSize,
         \A i \in 0..at - 1 : bank[offset + i] \in {Unit(r, i), Garbage},
         \A o \in Offsets : offset + at <= o /\ Len(bank[o]) = 3 => bank[o][1] # r.id,
         NEW new \in Bank,
         new = [bank EXCEPT ![offset + at] = Merged(bank[offset + at], Unit(r, at))]
  PROVE  Programmed(bank, new, offset, r, at)
<1> DEFINE e == EndOfReadable(bank)
<1>0. r.size \in 2..BankSize /\ BankSize \in Nat /\ offset + at \in Offsets /\ at \in Nat
  <2>1. r.size \in 2..BankSize /\ BankSize \in Nat
    BY SizesPositive DEF Records
  <2> QED  BY <2>1 DEF Offsets
<1>1. e \in 0..BankSize /\ ~ValidAt(bank, e)
  BY EndInvalid
<1>2. e <= offset /\ (~Stuck(bank, e) => offset = e)
  BY DEF Placed
<1>3. \A o \in Offsets : o < e => new[o] = bank[o]
  <2>1. \A o \in Offsets : o < e => o # offset + at
    BY <1>0, <1>1, <1>2 DEF Offsets
  <2> HIDE DEF e
  <2> QED  BY <1>0, <2>1 DEF Bank
<1> HIDE DEF e
<1>4. CASE Stuck(bank, e)
  <2> DEFINE v == Merged(bank[offset + at], Unit(r, at))
  <2>1. bank[offset + at] # Blank => v \in {bank[offset + at], Garbage}
    BY MergedTwo
  <2>2. new = [bank EXCEPT ![offset + at] = v]
    OBVIOUS
  <2> HIDE DEF v
  <2>3. Stuck(new, e)
    BY <1>0, <1>4, <2>1, <2>2, StuckStays
  <2>4. ~ValidAt(new, e)
    BY <2>3, StuckInvalid
  <2> QED  BY <1>3, <2>3, <2>4, StillSame DEF Programmed, e
<1>5. CASE ~Stuck(bank, e)
  <2>1. offset = e /\ Open(bank, e)
    BY <1>2, <1>5 DEF Ordered, e
  <2>2. \/ Stuck(new, e)
        \/ at + 1 # r.size /\ ~ValidAt(new, e) /\ Open(new, e)
        \/ at + 1 = r.size /\ ValidAt(new, e) /\ RecordAt(new, e) = r /\ new[e][2] = r.size
           /\ Clean(new, e + r.size)
    <3>1. /\ e + r.size <= BankSize
          /\ \A i \in 0..at - 1 : bank[e + i] \in {Unit(r, i), Garbage}
          /\ \A o \in Offsets : e + at <= o /\ Len(bank[o]) = 3 => bank[o][1] # r.id
          /\ new = [bank EXCEPT ![e + at] = Merged(bank[e + at], Unit(r, at))]
      BY <2>1
    <3>2. Open(bank, e)
      BY <2>1
    <3> QED  BY <1>1, <1>5, <3>1, <3>2, ProgramOpen
  <2>3. CASE Stuck(new, e)
    <3>1. ~ValidAt(new, e)
      BY <2>3, StuckInvalid
    <3> QED  BY <1>3, <2>3, <3>1, StillSame DEF Programmed, e
  <2>4. CASE at + 1 # r.size /\ ~ValidAt(new, e) /\ Open(new, e)
    BY <1>3, <2>1, <2>4, StillSame DEF Programmed, e
  <2>5. CASE at + 1 = r.size /\ ValidAt(new, e) /\ RecordAt(new, e) = r /\ new[e][2] = r.size
             /\ Clean(new, e + r.size)
    <3>1. e + r.size \in 0..BankSize
      BY <1>0, <1>1, <2>1
    <3>2. ~ValidAt(new, e + r.size)
      BY <2>5, <3>1, CleanInvalid
    <3>3. Longer(bank, new, <<r>>) /\ EndOfReadable(new) = e + r.size
      BY <1>3, <2>5, <3>2, OneLonger DEF e
    <3> QED  BY <2>1, <2>5, <3>3 DEF Programmed, Open
  <2> QED  BY <2>2, <2>3, <2>4, <2>5
<1> QED  BY <1>4, <1>5

(* The flash reports an error at that unit: it is as before, or spoiled, and   *)
(* with it the end of the bank.                                                *)
LEMMA UnitFailed ==
  ASSUME NEW bank \in Bank, NEW n, Ordered(bank, n), NEW offset \in 0..BankSize,
         Placed(bank, offset), NEW r \in Records, NEW at \in 0..r.size - 1,
         offset + r.size <= BankSize,
         \A i \in 0..at - 1 : bank[offset + i] \in {Unit(r, i), Garbage},
         NEW new \in Bank, NEW u, u = bank[offset + at] \/ u = Garbage,
         new = [bank EXCEPT ![offset + at] = u]
  PROVE  /\ SameAs(bank, new)
         /\ Ordered(new, n) /\ Placed(new, offset)
<1> DEFINE e == EndOfReadable(bank)
<1>0. r.size \in 2..BankSize /\ BankSize \in Nat /\ offset + at \in Offsets /\ at \in Nat
  <2>1. r.size \in 2..BankSize /\ BankSize \in Nat
    BY SizesPositive DEF Records
  <2> QED  BY <2>1 DEF Offsets
<1>1. e \in 0..BankSize /\ ~ValidAt(bank, e)
  BY EndInvalid
<1>2. e <= offset /\ (~Stuck(bank, e) => offset = e)
  BY DEF Placed
<1>3. \A o \in Offsets : o < e => new[o] = bank[o]
  <2>1. \A o \in Offsets : o < e => o # offset + at
    BY <1>0, <1>1, <1>2 DEF Offsets
  <2> HIDE DEF e
  <2> QED  BY <1>0, <2>1 DEF Bank
<1> HIDE DEF e
<1>4. CASE new = bank
  BY <1>1, <1>3, <1>4, StillSame DEF e
<1>5. CASE new # bank
  <2>1. u = Garbage /\ new = [bank EXCEPT ![offset + at] = Garbage]
    BY <1>0, <1>5 DEF Bank
  <2>2. Stuck(new, e)
    <3>1. CASE Stuck(bank, e)
      <4> DEFINE v == Garbage
      <4>1. new = [bank EXCEPT ![offset + at] = v] /\ (bank[offset + at] # Blank => v \in {bank[offset + at], Garbage})
        BY <2>1
      <4> HIDE DEF v
      <4> QED  BY <1>0, <3>1, <4>1, StuckStays
    <3>2. CASE ~Stuck(bank, e)
      <4>1. offset = e
        BY <1>2, <3>2
      <4> QED  BY <1>1, <2>1, <3>2, <4>1, FailOpen
    <3> QED  BY <3>1, <3>2
  <2>3. ~ValidAt(new, e)
    BY <2>2, StuckInvalid
  <2>4. SameAs(bank, new)
    BY <1>3, <2>3, StillSame DEF e
  <2> QED  BY <1>2, <2>2, <2>4 DEF SameAs, Ordered, Placed, Seqs, e
<1> QED  BY <1>4, <1>5

(* Behind the records of a bank in order, a newer one is in order. *)
LEMMA MoreOrdered ==
  ASSUME NEW bank \in Bank, NEW n \in Nat, Ordered(bank, n), NEW offset \in 0..BankSize,
         Placed(bank, offset), NEW r \in Records, r.seq = n, NEW at \in 0..r.size - 1,
         NEW new \in Bank, Programmed(bank, new, offset, r, at),
         NEW m, m = IF at + 1 = r.size THEN n + 1 ELSE n,
         NEW behind, behind = IF at + 1 = r.size THEN offset + r.size ELSE offset
  PROVE  /\ Ordered(new, m) /\ Placed(new, behind)
         /\ Seqs(new) \subseteq Seqs(bank) \cup {n}
         /\ Seqs(bank) \subseteq Seqs(new)
<1>0. Readable(bank) \in Seq(Records) /\ EndOfReadable(bank) \in 0..BankSize
  BY ReadableTypes
<1>1. r.size \in 2..BankSize /\ BankSize \in Nat
  BY SizesPositive DEF Records
<1>2. \A s \in Seqs(bank) : s \in Nat /\ s < n
  BY SeqsTypes DEF Ordered
<1>3. CASE EndOfReadable(new) = EndOfReadable(bank) /\ Readable(new) = Readable(bank)
           /\ \/ Stuck(new, EndOfReadable(bank))
              \/ /\ at + 1 # r.size /\ Open(new, EndOfReadable(bank))
                 /\ offset = EndOfReadable(bank)
  <2>1. Seqs(new) = Seqs(bank) /\ Rising(Readable(new))
    BY <1>3 DEF Seqs, Ordered
  <2>2. \A s \in Seqs(new) : s < n /\ s < n + 1
    BY <1>2, <2>1
  <2>3. Stuck(new, EndOfReadable(new)) \/ Open(new, EndOfReadable(new))
    BY <1>3
  <2>4. EndOfReadable(bank) <= offset /\ EndOfReadable(bank) <= offset + r.size
    BY <1>0, <1>1 DEF Placed
  <2>5. Placed(new, behind)
    BY <1>3, <2>4 DEF Placed
  <2>6. \A s \in Seqs(new) : s < m
    BY <2>2
  <2> QED  BY <2>1, <2>3, <2>5, <2>6 DEF Ordered
<1>4. CASE /\ Readable(new) = Readable(bank) \o <<r>> /\ at + 1 = r.size
           /\ EndOfReadable(new) = offset + r.size
           /\ Open(new, EndOfReadable(new))
  <2>1. Seqs(new) = Seqs(bank) \cup {n} /\ Rising(Readable(new))
    BY <1>0, <1>2, <1>4, AppendRising DEF Seqs, Ordered
  <2>2. \A s \in Seqs(new) : s < n + 1
    BY <1>2, <2>1
  <2>3. Placed(new, behind)
    <3>1. offset + r.size \in Nat /\ behind = offset + r.size
      BY <1>1, <1>4
    <3> QED  BY <1>4, <3>1 DEF Placed
  <2>4. Ordered(new, m)
    <3>1. m = n + 1
      BY <1>4
    <3> QED  BY <1>4, <2>1, <2>2, <3>1 DEF Ordered
  <2> QED  BY <1>4, <2>1, <2>3, <2>4
<1>5. Longer(bank, new, <<r>>) => Readable(new) = Readable(bank) \o <<r>>
  BY DEF Longer
<1> QED  BY <1>3, <1>4, <1>5 DEF Programmed, SameAs

-------------------------------------------------------------------------------
(* Both banks are in order, and so are the records of one and of the other,    *)
(* until a clear fails.                                                        *)
OrderInv ==
  ~clearFailed =>
    /\ InOrder(flash, s_plog_active_base, s_plog_next_seq)
    /\ writer.op # "clear1" => Placed(flash[s_plog_active_base], s_plog_write_offset)

(* The record being written is new: nothing in flash is of it, but what has    *)
(* been programmed of it.                                                      *)
IdsGiven ==
  /\ \A b \in Banks : \A o \in Offsets : Len(flash[b][o]) = 3 => flash[b][o][1] <= written
  /\ Writing => writer.rec.id <= written

Behind(bank, from, id) == \A o \in Offsets : from <= o /\ Len(bank[o]) = 3 => bank[o][1] # id

WrittenSoFar ==
  writer.op = "program" =>
    /\ \A i \in 0..writer.at - 1 :
          flash[s_plog_active_base][s_plog_write_offset + i] \in {Unit(writer.rec, i), Garbage}
    /\ Behind(flash[s_plog_active_base], s_plog_write_offset + writer.at, writer.rec.id)

OInv == IInv /\ OrderInv /\ IdsGiven /\ WrittenSoFar

(* The first state is in order. *)
LEMMA FirstOrder == Init => OrderInv /\ IdsGiven /\ WrittenSoFar
<1> SUFFICES ASSUME Init PROVE OrderInv /\ IdsGiven /\ WrittenSoFar
  OBVIOUS
<1>1. \A b \in Banks : flash[b] = BlankBank
  BY DEF Init
<1>2. writer.op = "idle" /\ s_plog_active_base = 0 /\ s_plog_write_offset = 0
  BY DEF Init, Idle
<1>3. OtherBank(0) \in Banks /\ 0 \in Banks
  BY DEF OtherBank, Banks
<1>4. InOrder(flash, s_plog_active_base, s_plog_next_seq)
  BY <1>1, <1>2, <1>3, BlankOrdered DEF InOrder, OlderThan
<1>5. Placed(flash[s_plog_active_base], s_plog_write_offset)
  BY <1>1, <1>2, <1>3, BlankOrdered
<1>6. \A b \in Banks : \A o \in Offsets : Len(flash[b][o]) # 3
  BY <1>1, BlankTypes
<1> QED  BY <1>2, <1>4, <1>5, <1>6 DEF OrderInv, IdsGiven, WrittenSoFar, Writing

(* What Program does to the bank in use, and to the other one. *)
LEMMA ProgramEffect ==
  ASSUME OInv, ~clearFailed, writer.op = "program",
         NEW a, a = s_plog_active_base
  PROVE  /\ writer.rec \in Records /\ writer.rec.seq = s_plog_next_seq
         /\ writer.at \in 0..writer.rec.size - 1
         /\ s_plog_write_offset + writer.rec.size <= BankSize
         /\ s_plog_write_offset + writer.at \in Offsets
         /\ Ordered(flash[a], s_plog_next_seq) /\ Placed(flash[a], s_plog_write_offset)
         /\ \A i \in 0..writer.at - 1 :
               flash[a][s_plog_write_offset + i] \in {Unit(writer.rec, i), Garbage}
         /\ \A o \in Offsets : s_plog_write_offset + writer.at <= o /\ Len(flash[a][o]) = 3
               => flash[a][o][1] # writer.rec.id
<1>1. writer \in [op : {"program", "switch"}, rec : Records, at : Offsets, retry : BOOLEAN]
      /\ writer.at < writer.rec.size /\ s_plog_write_offset + writer.rec.size <= BankSize
      /\ s_plog_write_offset \in 0..BankSize
  BY DEF OInv, IInv, TInv, TypeOK
<1>2. writer.rec.size \in 2..BankSize /\ BankSize \in Nat
  BY <1>1, SizesPositive DEF Records
<1>3. writer.at \in Nat
  BY <1>1 DEF Offsets
<1>4. writer.at \in 0..writer.rec.size - 1 /\ s_plog_write_offset + writer.at \in Offsets
  BY <1>1, <1>2, <1>3 DEF Offsets
<1>5. writer.rec.seq = s_plog_next_seq
  BY DEF OInv, IInv, TInv, NumbersGiven, Writing
<1>6. Ordered(flash[a], s_plog_next_seq) /\ Placed(flash[a], s_plog_write_offset)
  BY FlashTypes DEF OInv, IInv, OrderInv, InOrder
<1>7. /\ \A i \in 0..writer.at - 1 :
               flash[a][s_plog_write_offset + i] \in {Unit(writer.rec, i), Garbage}
      /\ \A o \in Offsets : s_plog_write_offset + writer.at <= o /\ Len(flash[a][o]) = 3
               => flash[a][o][1] # writer.rec.id
  BY DEF OInv, WrittenSoFar, Behind
<1> QED  BY <1>1, <1>4, <1>5, <1>6, <1>7

(* Programming a unit of a record adds the record or nothing to what is read. *)
LEMMA ProgramLonger ==
  ASSUME OInv, ~clearFailed, Program, NEW a, a = s_plog_active_base
  PROVE  /\ Programmed(flash[a], flash'[a], s_plog_write_offset, writer.rec, writer.at)
         /\ flash'[a] \in Bank /\ flash'[OtherBank(a)] = flash[OtherBank(a)]
<1> DEFINE bank == flash[a]
           new == flash'[a]
           o == s_plog_write_offset + writer.at
<1>1. /\ a \in Banks /\ OtherBank(a) \in Banks /\ OtherBank(a) # a
      /\ flash \in [Banks -> Bank] /\ s_plog_write_offset \in 0..BankSize
  BY FlashTypes DEF OInv, IInv
<1>2. writer.op = "program"
  BY DEF Program
<1>3. flash' = [flash EXCEPT ![a][o] = Merged(@, Unit(writer.rec, writer.at))]
  BY DEF Program
<1>4. new = [bank EXCEPT ![o] = Merged(bank[o], Unit(writer.rec, writer.at))]
      /\ flash'[OtherBank(a)] = flash[OtherBank(a)]
  BY <1>1, <1>3
<1>5. new \in Bank
  <2>1. TInv'
    BY ProgramTypes DEF OInv, IInv
  <2>2. flash' \in [Banks -> [Offsets -> Units]]
    BY <2>1 DEF TInv, TypeOK
  <2> QED  BY <1>1, <2>2 DEF Bank
<1>6. /\ writer.rec \in Records
      /\ writer.at \in 0..writer.rec.size - 1
      /\ s_plog_write_offset + writer.rec.size <= BankSize
      /\ Ordered(bank, s_plog_next_seq) /\ Placed(bank, s_plog_write_offset)
      /\ \A i \in 0..writer.at - 1 :
               bank[s_plog_write_offset + i] \in {Unit(writer.rec, i), Garbage}
      /\ \A p \in Offsets : s_plog_write_offset + writer.at <= p /\ Len(bank[p]) = 3
               => bank[p][1] # writer.rec.id
  BY <1>2, ProgramEffect
<1>7. bank \in Bank
  BY <1>1
<1> HIDE DEF bank, new
<1>8. Programmed(bank, new, s_plog_write_offset, writer.rec, writer.at)
  BY <1>1, <1>4, <1>5, <1>6, <1>7, UnitProgrammed
<1> QED  BY <1>4, <1>5, <1>8 DEF bank, new

(* Programming that fails adds nothing to what is read. *)
LEMMA FailLonger ==
  ASSUME OInv, ~clearFailed, ProgramFails, NEW a, a = s_plog_active_base
  PROVE  /\ SameAs(flash[a], flash'[a])
         /\ Ordered(flash'[a], s_plog_next_seq) /\ Placed(flash'[a], s_plog_write_offset)
         /\ flash'[OtherBank(a)] = flash[OtherBank(a)]
<1> DEFINE bank == flash[a]
           new == flash'[a]
           o == s_plog_write_offset + writer.at
<1>1. /\ a \in Banks /\ OtherBank(a) \in Banks /\ OtherBank(a) # a
      /\ flash \in [Banks -> Bank] /\ s_plog_write_offset \in 0..BankSize
  BY FlashTypes DEF OInv, IInv
<1>2. writer.op = "program"
  BY DEF ProgramFails
<1>3. PICK u \in {bank[o], Garbage} : flash' = [flash EXCEPT ![a][o] = u]
  BY DEF ProgramFails
<1>4. new = [bank EXCEPT ![o] = u] /\ flash'[OtherBank(a)] = flash[OtherBank(a)]
  BY <1>1, <1>3
<1>6. /\ writer.rec \in Records
      /\ writer.at \in 0..writer.rec.size - 1 /\ o \in Offsets
      /\ s_plog_write_offset + writer.rec.size <= BankSize
      /\ Ordered(bank, s_plog_next_seq) /\ Placed(bank, s_plog_write_offset)
      /\ \A i \in 0..writer.at - 1 :
               bank[s_plog_write_offset + i] \in {Unit(writer.rec, i), Garbage}
  BY <1>2, ProgramEffect
<1>7. bank \in Bank
  BY <1>1
<1> HIDE DEF bank, new
<1>5. new \in Bank
  BY <1>3, <1>4, <1>6, <1>7, UnitKinds DEF Bank
<1>8. /\ SameAs(bank, new)
      /\ Ordered(new, s_plog_next_seq) /\ Placed(new, s_plog_write_offset)
  <2>1. ASSUME NEW offset, offset = s_plog_write_offset, NEW r, r = writer.rec, NEW at, at = writer.at
        PROVE  /\ SameAs(bank, new)
               /\ Ordered(new, s_plog_next_seq) /\ Placed(new, offset)
    <3>1. /\ r \in Records /\ at \in 0..r.size - 1 /\ offset \in 0..BankSize
          /\ offset + r.size <= BankSize /\ Ordered(bank, s_plog_next_seq) /\ Placed(bank, offset)
          /\ \A i \in 0..at - 1 : bank[offset + i] \in {Unit(r, i), Garbage}
      BY <1>1, <1>6, <2>1
    <3>2. (u = bank[offset + at] \/ u = Garbage) /\ new = [bank EXCEPT ![offset + at] = u]
      BY <1>3, <1>4, <2>1
    <3> QED  BY <1>5, <1>7, <3>1, <3>2, UnitFailed
  <2> QED  BY <2>1
<1> QED  BY <1>4, <1>8 DEF bank, new

-------------------------------------------------------------------------------
(* A bank in order stays so when more numbers have been given out. *)
LEMMA LaterOrdered ==
  ASSUME NEW bank \in Bank, NEW n \in Nat, NEW m \in Nat, n <= m, Ordered(bank, n)
  PROVE  Ordered(bank, m)
<1>1. \A s \in Seqs(bank) : s \in Nat /\ s < n
  BY SeqsTypes DEF Ordered
<1>2. \A s \in Seqs(bank) : s < m
  BY <1>1
<1> QED  BY <1>2 DEF Ordered

(* Banks stay in order: programming a unit. *)
LEMMA ProgramOrder ==
  ASSUME OInv, Program  PROVE OrderInv'
<1> SUFFICES ASSUME ~clearFailed, NEW a, a = s_plog_active_base,
                    NEW n, n = s_plog_next_seq, NEW m, m = s_plog_next_seq',
                    NEW offset, offset = s_plog_write_offset,
                    NEW behind, behind = s_plog_write_offset'
             PROVE  InOrder(flash', a, m) /\ Placed(flash'[a], behind)
  BY DEF OrderInv, Program
<1> DEFINE r == writer.rec
           at == writer.at
           new == flash'[a]
           rest == flash[OtherBank(a)]
<1>1. /\ a \in Banks /\ OtherBank(a) \in Banks /\ flash \in [Banks -> Bank]
      /\ offset \in 0..BankSize /\ n \in Nat
      /\ \A b \in Banks : b = a \/ b = OtherBank(a)
  BY FlashTypes DEF OInv, IInv
<1>2. writer.op = "program"
  BY DEF Program
<1>3. r \in Records /\ r.seq = n /\ at \in 0..r.size - 1
      /\ Ordered(flash[a], n) /\ Placed(flash[a], offset)
  BY <1>2, ProgramEffect
<1>4. /\ Programmed(flash[a], new, offset, r, at) /\ new \in Bank
      /\ flash'[OtherBank(a)] = rest
  BY ProgramLonger
<1>5. /\ m = (IF at + 1 = r.size THEN n + 1 ELSE n)
      /\ behind = (IF at + 1 = r.size THEN offset + r.size ELSE offset)
  BY DEF Program
<1>6. Ordered(rest, n) /\ OlderThan(rest, flash[a])
  BY <1>1 DEF OInv, OrderInv, InOrder
<1>7. rest \in Bank /\ flash[a] \in Bank
  BY <1>1
<1> HIDE DEF r, at, new, rest
<1>8. Ordered(new, m) /\ Placed(new, behind) /\ Seqs(new) \subseteq Seqs(flash[a]) \cup {n}
  BY <1>1, <1>3, <1>4, <1>5, <1>7, MoreOrdered
<1>9. OlderThan(rest, new)
  <2>1. \A s \in Seqs(rest) : s < n
    BY <1>6 DEF Ordered
  <2> QED  BY <1>6, <1>8, <2>1 DEF OlderThan
<1>10. Ordered(rest, m)
  <2>1. m \in Nat /\ n <= m
    BY <1>1, <1>5
  <2> QED  BY <1>1, <1>6, <1>7, <2>1, LaterOrdered
<1>11. \A b \in Banks : Ordered(flash'[b], m)
  <2>1. Ordered(flash'[a], m) /\ Ordered(flash'[OtherBank(a)], m)
    BY <1>4, <1>8, <1>10 DEF new
  <2> QED  BY <1>1, <2>1
<1>12. OlderThan(flash'[OtherBank(a)], flash'[a])
  BY <1>4, <1>9 DEF new
<1> QED  BY <1>8, <1>11, <1>12 DEF InOrder, new

(* Banks stay in order: programming that fails. *)
LEMMA ProgramFailsOrder ==
  ASSUME OInv, ProgramFails  PROVE OrderInv'
<1> SUFFICES ASSUME ~clearFailed, NEW a, a = s_plog_active_base,
                    NEW n, n = s_plog_next_seq
             PROVE  InOrder(flash', a, n) /\ Placed(flash'[a], s_plog_write_offset)
  BY DEF OrderInv, ProgramFails, state
<1>1. /\ a \in Banks /\ OtherBank(a) \in Banks /\ flash \in [Banks -> Bank]
      /\ \A b \in Banks : b = a \/ b = OtherBank(a)
  BY FlashTypes DEF OInv, IInv
<1>2. /\ SameAs(flash[a], flash'[a]) /\ Ordered(flash'[a], n)
      /\ Placed(flash'[a], s_plog_write_offset)
      /\ flash'[OtherBank(a)] = flash[OtherBank(a)]
  BY FailLonger
<1>3. Ordered(flash[OtherBank(a)], n) /\ OlderThan(flash[OtherBank(a)], flash[a])
  BY <1>1 DEF OInv, OrderInv, InOrder
<1>4. Seqs(flash'[a]) = Seqs(flash[a])
  BY <1>2 DEF SameAs, Seqs
<1>5. OlderThan(flash'[OtherBank(a)], flash'[a])
  BY <1>2, <1>3, <1>4 DEF OlderThan
<1>6. \A b \in Banks : Ordered(flash'[b], n)
  <2>1. Ordered(flash'[OtherBank(a)], n)
    BY <1>2, <1>3
  <2> QED  BY <1>1, <1>2, <2>1
<1> QED  BY <1>2, <1>5, <1>6 DEF InOrder

(* Banks stay in order: a switch. *)
LEMMA SwitchBankOrder ==
  ASSUME OInv, SwitchBank  PROVE OrderInv'
<1> SUFFICES ASSUME ~clearFailed, NEW c, c = Erased, NEW n, n = s_plog_next_seq
             PROVE  InOrder(flash', c, n) /\ Placed(flash'[c], 0)
  BY DEF OrderInv, SwitchBank
<1>1. /\ c \in Banks /\ OtherBank(c) = s_plog_active_base /\ OtherBank(c) \in Banks
      /\ c # OtherBank(c) /\ flash \in [Banks -> Bank]
  <2>1. /\ s_plog_active_base \in Banks /\ flash \in [Banks -> Bank]
        /\ c = OtherBank(s_plog_active_base)
    BY FlashTypes DEF OInv, IInv, SwitchBank, Erased
  <2> QED  BY <2>1 DEF OtherBank, Banks
<1>2. flash'[c] = BlankBank /\ \A b \in Banks : b # c => flash'[b] = flash[b]
  BY <1>1 DEF SwitchBank
<1>3. \A b \in Banks : Ordered(flash[b], n)
  BY DEF OInv, OrderInv, InOrder
<1>4. \A b \in Banks : Ordered(flash'[b], n)
  BY <1>2, <1>3, BlankOrdered
<1>5. OlderThan(flash'[OtherBank(c)], flash'[c]) /\ Placed(flash'[c], 0)
  BY <1>2, BlankOrdered DEF OlderThan
<1> QED  BY <1>4, <1>5 DEF InOrder

(* Banks stay in order: a clear. *)
LEMMA ClearBankOrder ==
  ASSUME OInv, ClearBank  PROVE OrderInv'
<1>1. /\ Erased \in Banks /\ flash \in [Banks -> Bank] /\ s_plog_active_base \in Banks
      /\ OtherBank(s_plog_active_base) \in Banks
      /\ \A b \in Banks : OtherBank(b) \in Banks /\ OtherBank(b) # b
      /\ 0 \in Banks /\ 1 \in Banks /\ \A b \in Banks : b = 0 \/ b = 1
  BY FlashTypes DEF OInv, IInv, ClearBank, Clearing, Erased, Banks, OtherBank
<1>2. flash'[Erased] = BlankBank /\ \A b \in Banks : b # Erased => flash'[b] = flash[b]
  BY <1>1 DEF ClearBank
<1>3. CASE writer.op = "clear0"
  <2>1. Erased = 0 /\ writer'.op = "clear1" /\ clearFailed' = clearFailed
        /\ s_plog_active_base' = s_plog_active_base /\ s_plog_next_seq' = s_plog_next_seq
    BY <1>3 DEF ClearBank, Erased, state
  <2> SUFFICES ASSUME ~clearFailed, NEW a, a = s_plog_active_base, NEW n, n = s_plog_next_seq
               PROVE  InOrder(flash', a, n)
    BY <2>1 DEF OrderInv
  <2>2. InOrder(flash, a, n)
    BY DEF OInv, OrderInv
  <2>3. \A b \in Banks : Ordered(flash'[b], n)
    BY <1>2, <2>2, BlankOrdered DEF InOrder
  <2>4. \A b \in Banks : Seqs(flash'[b]) \subseteq Seqs(flash[b])
    BY <1>2, BlankOrdered
  <2>5. OlderThan(flash'[OtherBank(a)], flash'[a])
    BY <1>1, <2>2, <2>4 DEF OlderThan, InOrder
  <2> QED  BY <2>3, <2>5 DEF InOrder
<1>4. CASE writer.op = "clear1"
  <2>1. Erased = 1 /\ flash[0] = BlankBank
        /\ s_plog_active_base' = 0 /\ s_plog_write_offset' = 0
    BY <1>4 DEF ClearBank, Erased, OInv, IInv, KInv, SoFar
  <2>2. \A b \in Banks : flash'[b] = BlankBank
    BY <1>1, <1>2, <2>1
  <2>3. OtherBank(0) \in Banks
    BY <1>1
  <2>4. \A n : InOrder(flash', 0, n)
    BY <1>1, <2>2, <2>3, BlankOrdered DEF InOrder, OlderThan
  <2>5. Placed(flash'[0], 0)
    BY <1>1, <2>2, BlankOrdered
  <2> QED  BY <2>1, <2>4, <2>5 DEF OrderInv
<1> QED  BY <1>3, <1>4 DEF ClearBank, Clearing

(* What a torn erase leaves of the bank, and of the order. *)
LEMMA TornOrder ==
  ASSUME OInv, Erasing, ~clearFailed, flash' \in TornErase
  PROVE  /\ flash' \in [Banks -> Bank] /\ Erased \in Banks
         /\ \A b \in Banks : b # Erased => flash'[b] = flash[b]
         /\ \A b \in Banks : /\ Ordered(flash'[b], s_plog_next_seq)
                             /\ Seqs(flash'[b]) \subseteq Seqs(flash[b])
<1>1. /\ Erased \in Banks /\ flash' \in [Banks -> Bank]
      /\ \A b \in Banks : b # Erased => flash'[b] = flash[b]
  BY TornTypes DEF OInv, IInv
<1>2. flash \in [Banks -> Bank] /\ \A b \in Banks : Ordered(flash[b], s_plog_next_seq)
  BY FlashTypes DEF OInv, IInv, OrderInv, InOrder
<1>3. PICK cut \in 0..BankSize, fill \in {Blank, Garbage} :
        flash' = [flash EXCEPT ![Erased] =
                    [o \in Offsets |-> IF o < cut THEN flash[Erased][o] ELSE fill]]
  BY DEF TornErase
<1>4. TornTo(flash[Erased], flash'[Erased], cut, fill)
  <2>1. flash'[Erased] = [o \in Offsets |-> IF o < cut THEN flash[Erased][o] ELSE fill]
    BY <1>1, <1>2, <1>3
  <2> QED  BY <2>1 DEF TornTo
<1>5. Ordered(flash'[Erased], s_plog_next_seq) /\ Seqs(flash'[Erased]) \subseteq Seqs(flash[Erased])
  <2> SUFFICES ASSUME NEW n, n = s_plog_next_seq, NEW bank, bank = flash[Erased],
                      NEW new, new = flash'[Erased]
               PROVE  Ordered(new, n) /\ Seqs(new) \subseteq Seqs(bank)
    OBVIOUS
  <2>1. bank \in Bank /\ new \in Bank /\ Ordered(bank, n) /\ TornTo(bank, new, cut, fill)
    BY <1>1, <1>2, <1>4
  <2> QED  BY <1>3, <2>1, TornOrdered
<1>6. \A b \in Banks : b # Erased => /\ Ordered(flash'[b], s_plog_next_seq)
                                     /\ Seqs(flash'[b]) \subseteq Seqs(flash[b])
  BY <1>1, <1>2
<1> QED  BY <1>1, <1>5, <1>6

(* Banks stay in order: an erase that fails. *)
LEMMA EraseFailsOrder ==
  ASSUME OInv, EraseFails  PROVE OrderInv'
<1> SUFFICES ASSUME ~clearFailed, ~Clearing, NEW a, a = s_plog_active_base,
                    NEW n, n = s_plog_next_seq
             PROVE  InOrder(flash', a, n) /\ Placed(flash'[a], s_plog_write_offset)
  BY DEF OrderInv, EraseFails, state
<1>1. /\ a \in Banks /\ OtherBank(a) \in Banks /\ OtherBank(a) # a
  BY FlashTypes DEF OInv, IInv
<1>2. writer.op = "switch" /\ Erased = OtherBank(a)
  BY DEF EraseFails, Erasing, Erased
<1>3. /\ \A b \in Banks : b # Erased => flash'[b] = flash[b]
      /\ \A b \in Banks : Ordered(flash'[b], n) /\ Seqs(flash'[b]) \subseteq Seqs(flash[b])
  BY TornOrder DEF EraseFails
<1>4. OlderThan(flash[OtherBank(a)], flash[a]) /\ Placed(flash[a], s_plog_write_offset)
  BY <1>2 DEF OInv, OrderInv, InOrder
<1>5. OlderThan(flash'[OtherBank(a)], flash'[a])
  BY <1>1, <1>3, <1>4 DEF OlderThan
<1>6. flash'[a] = flash[a]
  BY <1>1, <1>2, <1>3
<1> QED  BY <1>3, <1>4, <1>5, <1>6 DEF InOrder

-------------------------------------------------------------------------------
(* The start chooses the bank that was in use, or there is nothing in one. *)
LEMMA NewerOrder ==
  ASSUME NEW fl \in [Banks -> Bank], NEW old \in [Banks -> Bank], NEW a \in Banks,
         NEW n, InOrder(old, a, n),
         \A b \in Banks : Ordered(fl[b], n) /\ Seqs(fl[b]) \subseteq Seqs(old[b]),
         NEW c, c = Newer(fl)
  PROVE  InOrder(fl, c, LastSeq(fl[c]) + 1)
<1> DEFINE d == OtherBank(c)
           m == LastSeq(fl[c]) + 1
<1>1. /\ c \in Banks /\ d \in Banks /\ \A b \in Banks : b = c \/ b = d
      /\ a = c \/ (a = d /\ OtherBank(a) = c)
  BY DEF Newer, Banks, OtherBank
<1>2. \A b \in Banks : /\ Seqs(fl[b]) \subseteq Nat \ {0} /\ LastSeq(fl[b]) \in Nat
                       /\ LastSeq(fl[b]) # 0 => LastSeq(fl[b]) \in Seqs(fl[b])
                       /\ LastSeq(fl[b]) = 0 => Seqs(fl[b]) = {}
                       /\ \A s \in Seqs(fl[b]) : s <= LastSeq(fl[b])
  BY SeqsTypes DEF Ordered
<1>3. LastSeq(fl[d]) <= LastSeq(fl[c])
  <2>1. LastSeq(fl[0]) \in Nat /\ LastSeq(fl[1]) \in Nat
    BY <1>2 DEF Banks
  <2> QED  BY <2>1 DEF Newer, OtherBank
<1>4. ASSUME NEW b \in Banks  PROVE Ordered(fl[b], m)
  <2>1. LastSeq(fl[b]) <= LastSeq(fl[c])
    BY <1>1, <1>2, <1>3
  <2>2. \A s \in Seqs(fl[b]) : s \in Nat /\ s <= LastSeq(fl[b])
    BY <1>2
  <2>3. LastSeq(fl[b]) \in Nat /\ LastSeq(fl[c]) \in Nat
    BY <1>1, <1>2
  <2>4. \A s \in Seqs(fl[b]) : s < m
    BY <2>1, <2>2, <2>3
  <2> QED  BY <2>4 DEF Ordered
<1>5. OlderThan(old[OtherBank(a)], old[a])
  BY DEF InOrder
<1>6. OlderThan(fl[d], fl[c])
  <2>1. CASE a = c
    BY <1>1, <1>5, <2>1 DEF OlderThan
  <2>2. CASE a = d /\ OtherBank(a) = c
    <3>1. CASE LastSeq(fl[d]) = 0
      BY <1>1, <1>2, <3>1 DEF OlderThan
    <3>2. CASE LastSeq(fl[d]) # 0
      <4>1. LastSeq(fl[c]) # 0
        BY <1>1, <1>2, <1>3, <3>2
      <4>2. LastSeq(fl[d]) \in Seqs(old[d]) /\ LastSeq(fl[c]) \in Seqs(old[c])
        BY <1>1, <1>2, <3>2, <4>1
      <4>3. LastSeq(fl[c]) < LastSeq(fl[d])
        BY <1>5, <2>2, <4>2 DEF OlderThan
      <4> QED  BY <1>1, <1>2, <1>3, <4>3
    <3> QED  BY <3>1, <3>2
  <2> QED  BY <1>1, <2>1, <2>2
<1> QED  BY <1>4, <1>6 DEF InOrder

(* Banks stay in order: a reset. *)
LEMMA ResetOrder ==
  ASSUME OInv, Reset  PROVE OrderInv'
<1> SUFFICES ASSUME ~clearFailed, NEW fl, fl = flash', NEW c, c = s_plog_active_base'
             PROVE  InOrder(fl, c, s_plog_next_seq') /\ Placed(fl[c], s_plog_write_offset')
  BY DEF OrderInv, Reset
<1>1. s_plog_active_base \in Banks /\ flash \in [Banks -> Bank]
  BY FlashTypes DEF OInv, IInv
<1>2. /\ fl \in [Banks -> Bank]
      /\ \A b \in Banks : Ordered(fl[b], s_plog_next_seq) /\ Seqs(fl[b]) \subseteq Seqs(flash[b])
  <2>1. CASE Erasing
    BY <2>1, TornOrder DEF Reset
  <2>2. CASE ~Erasing
    BY <1>1, <2>2 DEF Reset, OInv, OrderInv, InOrder
  <2> QED  BY <2>1, <2>2
<1>3. c = Newer(fl) /\ s_plog_next_seq' = LastSeq(fl[c]) + 1 /\ c \in Banks
  BY DEF Reset, InitState, Newer, Banks
<1>4. InOrder(fl, c, LastSeq(fl[c]) + 1)
  <2>1. InOrder(flash, s_plog_active_base, s_plog_next_seq)
    BY DEF OInv, OrderInv
  <2> QED  BY <1>1, <1>2, <1>3, <2>1, NewerOrder
<1>5. s_plog_write_offset' = EndOfReadable(fl[c])
  <2>1. written \in 0..MaxRecords /\ InitState(fl)
        /\ \A b \in Banks : \A o \in Offsets : Len(fl[b][o]) = 2 => fl[b][o][1] <= written
    BY ResetTypes DEF OInv, IInv, TInv, TypeOK, NumbersGiven, Reset
  <2> QED  BY <1>2, <2>1, NewStatics
<1>6. Placed(fl[c], s_plog_write_offset')
  <2>1. EndOfReadable(fl[c]) \in 0..BankSize
    BY <1>2, <1>3, ReadableTypes
  <2>2. EndOfReadable(fl[c]) <= EndOfReadable(fl[c])
    BY <2>1
  <2> QED  BY <1>5, <2>2 DEF Placed
<1> QED  BY <1>3, <1>4, <1>6

(* Banks stay in order: all other steps. *)
LEMMA OtherOrder ==
  ASSUME OInv,
         \/ \E size \in Sizes : LogPrint(size)
         \/ BeginClear \/ ReplayScan0 \/ ReplayScan1 \/ ReplayRecord \/ UNCHANGED vars
  PROVE  OrderInv'
<1>1. /\ flash' = flash /\ s_plog_active_base' = s_plog_active_base
      /\ s_plog_next_seq' = s_plog_next_seq /\ s_plog_write_offset' = s_plog_write_offset
      /\ clearFailed' = clearFailed
  BY DEF LogPrint, BeginClear, ReplayScan0, ReplayScan1, ReplayRecord, vars, state, history
<1>2. writer.op = "clear1" => writer'.op = "clear1"
  BY DEF LogPrint, BeginClear, ReplayScan0, ReplayScan1, ReplayRecord, vars, Idle
<1> QED  BY <1>1, <1>2 DEF OInv, OrderInv

-------------------------------------------------------------------------------
(* No action puts a number of a record into flash but that of the one being    *)
(* written.                                                                    *)
LEMMA UnitsOf ==
  ASSUME NEW r \in Records, NEW i \in Nat
  PROVE  Len(Unit(r, i)) = 3 => Unit(r, i)[1] = r.id
BY DEF Unit, Head1, Later

(* An erase leaves no record that was not there. *)
LEMMA ErasedIds ==
  ASSUME OInv, NEW c \in Banks, \A b \in Banks : b # c => flash'[b] = flash[b],
         \A o \in Offsets : flash'[c][o] \in {flash[c][o], Blank, Garbage},
         written' = written, writer'.op \in {"idle", "clear0", "clear1"}
  PROVE  IdsGiven' /\ WrittenSoFar'
<1>1. \A b \in Banks : \A o \in Offsets : flash'[b][o] \in {flash[b][o], Blank, Garbage}
  OBVIOUS
<1>2. \A u : Len(u) = 3 => u # Blank /\ u # Garbage
  BY Unwritten
<1>3. ASSUME NEW b \in Banks, NEW o \in Offsets, Len(flash'[b][o]) = 3
      PROVE  flash'[b][o][1] <= written
  <2>1. flash'[b][o] = flash[b][o]
    BY <1>1, <1>2, <1>3
  <2> QED  BY <1>3, <2>1 DEF OInv, IdsGiven
<1> QED  BY <1>3 DEF IdsGiven, WrittenSoFar, Writing

(* A record that begins is new. *)
LEMMA LogPrintIds ==
  ASSUME OInv, NEW size \in Sizes, LogPrint(size)  PROVE IdsGiven' /\ WrittenSoFar'
<1>1. /\ flash' = flash /\ written' = written + 1 /\ written \in Nat
      /\ writer'.rec.id = written + 1 /\ writer'.at = 0
      /\ s_plog_active_base' = s_plog_active_base /\ s_plog_write_offset' = s_plog_write_offset
      /\ s_plog_active_base \in Banks /\ s_plog_write_offset \in 0..BankSize
  BY FlashTypes DEF OInv, IInv, LogPrint, state
<1>2. \A b \in Banks : \A o \in Offsets : Len(flash[b][o]) = 3 =>
         flash[b][o][1] \in Nat /\ flash[b][o][1] <= written
  <2> SUFFICES ASSUME NEW b \in Banks, NEW o \in Offsets, Len(flash[b][o]) = 3
               PROVE  flash[b][o][1] \in Nat /\ flash[b][o][1] <= written
    OBVIOUS
  <2>1. flash[b][o] \in Units
    BY FlashTypes DEF OInv, IInv, Bank
  <2>2. flash[b][o][1] \in 1..MaxRecords
    BY <2>1, Shape
  <2> QED  BY <2>2, PersistAssumption DEF OInv, IdsGiven
<1>3. \A b \in Banks : \A o \in Offsets : Len(flash[b][o]) = 3 =>
         flash[b][o][1] <= written + 1 /\ flash[b][o][1] # written + 1
  BY <1>1, <1>2
<1>4. IdsGiven'
  BY <1>1, <1>3 DEF IdsGiven, Writing
<1>5. WrittenSoFar'
  <2>1. 0..writer'.at - 1 = {}
    BY <1>1
  <2>2. \A o \in Offsets : Len(flash'[s_plog_active_base'][o]) = 3 =>
           flash'[s_plog_active_base'][o][1] # writer'.rec.id
    BY <1>1, <1>3
  <2> QED  BY <2>1, <2>2 DEF WrittenSoFar, Behind
<1> QED  BY <1>4, <1>5

(* A record stays new in the bank it is moved to. *)
LEMMA SwitchBankIds ==
  ASSUME OInv, SwitchBank  PROVE IdsGiven' /\ WrittenSoFar'
<1>1. /\ writer \in [op : {"program", "switch"}, rec : Records, at : Offsets, retry : BOOLEAN]
      /\ writer.op = "switch" /\ writer.at = 0 /\ writer' = [writer EXCEPT !.op = "program"]
  BY DEF SwitchBank, OInv, IInv, TInv, TypeOK, KInv, SoFar
<1>2. writer'.rec = writer.rec /\ writer'.at = 0 /\ written' = written
  BY <1>1 DEF SwitchBank
<1>3. /\ Erased \in Banks /\ s_plog_active_base' = Erased
      /\ flash'[Erased] = BlankBank /\ \A b \in Banks : b # Erased => flash'[b] = flash[b]
  BY FlashTypes DEF OInv, IInv, SwitchBank, Erased
<1>4. \A o \in Offsets : Len(flash'[Erased][o]) # 3
  <2>1. \A o \in Offsets : Len(BlankBank[o]) # 3
    BY BlankTypes
  <2>2. flash'[Erased] = BlankBank
    BY <1>3
  <2> QED  BY <2>1, <2>2, Zenon
<1>5. IdsGiven'
  BY <1>1, <1>2, <1>3, <1>4 DEF OInv, IdsGiven, Writing
<1>6. WrittenSoFar'
  <2>1. 0..writer'.at - 1 = {}
    BY <1>2
  <2> QED  BY <1>3, <1>4, <2>1 DEF WrittenSoFar, Behind
<1> QED  BY <1>5, <1>6

Puts(b, o, u) == flash' = [flash EXCEPT ![b][o] = u]

(* What is programmed bears no newer name than the latest record. *)
LEMMA UnitIds ==
  ASSUME OInv, writer.op = "program", NEW a, a = s_plog_active_base,
         NEW o, o = s_plog_write_offset + writer.at, NEW u,
         u \in {flash[a][o], Unit(writer.rec, writer.at), Garbage}, Puts(a, o, u)
  PROVE  \A b \in Banks : \A p \in Offsets : Len(flash'[b][p]) = 3 => flash'[b][p][1] <= written
<1> USE DEF Puts
<1>1. /\ a \in Banks /\ flash \in [Banks -> Bank]
      /\ \A b \in Banks : b # a => flash'[b] = flash[b]
  BY FlashTypes DEF OInv, IInv
<1>2. \A p \in Offsets : flash'[a][p] = IF p = o THEN u ELSE flash[a][p]
  BY <1>1 DEF Bank
<1>3. writer.rec \in Records /\ writer.at \in Nat /\ writer.rec.id <= written
  BY DEF OInv, IInv, TInv, TypeOK, Offsets, IdsGiven, Writing
<1>4. Len(Unit(writer.rec, writer.at)) = 3 => Unit(writer.rec, writer.at)[1] <= written
  BY <1>3, UnitsOf
<1>5. Len(Garbage) # 3
  BY UnitKinds
<1>6. \A b \in Banks : \A p \in Offsets : Len(flash[b][p]) = 3 => flash[b][p][1] <= written
  BY DEF OInv, IdsGiven
<1>7. ASSUME NEW p \in Offsets, Len(flash'[a][p]) = 3  PROVE flash'[a][p][1] <= written
  <2>1. CASE p # o
    BY <1>1, <1>2, <1>6, <1>7, <2>1
  <2>2. CASE p = o
    <3>1. flash'[a][p] = u
      BY <1>2, <2>2
    <3> QED  BY <1>1, <1>4, <1>5, <1>6, <1>7, <2>2, <3>1
  <2> QED  BY <2>1, <2>2
<1> QED  BY <1>1, <1>2, <1>6, <1>7

(* The name stays that of one record: programming that fails. *)
LEMMA ProgramFailsIds ==
  ASSUME OInv, ProgramFails  PROVE IdsGiven' /\ WrittenSoFar'
<1> DEFINE a == s_plog_active_base
           o == s_plog_write_offset + writer.at
<1>1. writer.op = "program" /\ written' = written
  BY DEF ProgramFails
<1>2. PICK u \in {flash[a][o], Garbage} : flash' = [flash EXCEPT ![a][o] = u]
  BY DEF ProgramFails
<1>3. \A b \in Banks : \A p \in Offsets : Len(flash'[b][p]) = 3 => flash'[b][p][1] <= written
  <2>1. Puts(a, o, u)
    BY <1>2 DEF Puts
  <2> QED  BY <1>1, <1>2, <2>1, UnitIds
<1>4. writer'.op # "program" /\ (writer'.op = "switch" => writer'.rec = writer.rec)
  <2>1. writer \in [op : {"program", "switch"}, rec : Records, at : Offsets, retry : BOOLEAN]
    BY <1>1 DEF OInv, IInv, TInv, TypeOK
  <2>2. \/ writer' = Idle
        \/ writer' = [writer EXCEPT !.op = "switch", !.at = 0, !.retry = TRUE]
    BY DEF ProgramFails
  <2>3. CASE writer' = Idle
    BY <2>3 DEF Idle
  <2>4. CASE writer' = [writer EXCEPT !.op = "switch", !.at = 0, !.retry = TRUE]
    BY <2>1, <2>4
  <2> QED  BY <2>2, <2>3, <2>4
<1> QED  BY <1>1, <1>3, <1>4 DEF IdsGiven, WrittenSoFar, Writing, OInv

(* Program has written the beginning of its record, and nothing else of it. *)
LEMMA ProgramIds ==
  ASSUME OInv, Program  PROVE IdsGiven' /\ WrittenSoFar'
<1> SUFFICES ASSUME NEW a, a = s_plog_active_base, NEW r, r = writer.rec, NEW at, at = writer.at,
                    NEW e, e = s_plog_write_offset
             PROVE  IdsGiven' /\ WrittenSoFar'
  OBVIOUS
<1>1. writer.op = "program" /\ written' = written /\ s_plog_active_base' = a
  BY DEF Program
<1>2. /\ writer \in [op : {"program", "switch"}, rec : Records, at : Offsets, retry : BOOLEAN]
      /\ r \in Records /\ at \in Nat /\ at < r.size /\ e \in 0..BankSize /\ e + r.size <= BankSize
      /\ r.size \in 2..BankSize /\ BankSize \in Nat
  <2>1. r \in Records
    BY <1>1 DEF OInv, IInv, TInv, TypeOK
  <2>2. r.size \in 2..BankSize /\ BankSize \in Nat
    BY <2>1, SizesPositive DEF Records
  <2> QED  BY <1>1, <2>1, <2>2 DEF OInv, IInv, TInv, TypeOK, Offsets
<1>3. e + at \in Offsets
  BY <1>2 DEF Offsets
<1> DEFINE u == Merged(flash[a][e + at], Unit(r, at))
<1>4. flash' = [flash EXCEPT ![a][e + at] = u]
  BY DEF Program
<1>5. u \in {flash[a][e + at], Unit(r, at), Garbage} /\ u \in {Unit(r, at), Garbage}
  BY UnitKinds, MergedTwo
<1> HIDE DEF u
<1>6. /\ \A b \in Banks : \A p \in Offsets : Len(flash'[b][p]) = 3 => flash'[b][p][1] <= written
      /\ \A p \in Offsets : p # e + at => flash'[a][p] = flash[a][p]
      /\ flash'[a][e + at] = u
  <2>1. a \in Banks /\ flash \in [Banks -> Bank]
    BY FlashTypes DEF OInv, IInv
  <2>2. ASSUME NEW o, o = e + at
        PROVE  \A b \in Banks : \A p \in Offsets : Len(flash'[b][p]) = 3 => flash'[b][p][1] <= written
    <3>1. /\ o = s_plog_write_offset + writer.at /\ Puts(a, o, u)
          /\ u \in {flash[a][o], Unit(writer.rec, writer.at), Garbage}
      BY <1>4, <1>5, <2>2 DEF Puts
    <3> QED  BY <1>1, <3>1, UnitIds
  <2>3. /\ \A p \in Offsets : p # e + at => flash'[a][p] = flash[a][p]
        /\ flash'[a][e + at] = u
    BY <1>3, <1>4, <2>1 DEF Bank
  <2> QED  BY <2>2, <2>3
<1>7. CASE at + 1 = r.size
  <2>1. writer'.op = "idle"
    BY <1>7 DEF Program, Idle
  <2> QED  BY <1>1, <1>6, <2>1 DEF IdsGiven, WrittenSoFar, Writing
<1>8. CASE at + 1 # r.size
  <2>1. writer' = [writer EXCEPT !.at = at + 1] /\ s_plog_write_offset' = e
    BY <1>8 DEF Program
  <2>2. writer'.op = "program" /\ writer'.at = at + 1 /\ writer'.rec = r
    BY <1>1, <1>2, <2>1
  <2>3. \A i \in 0..at - 1 : flash[a][e + i] \in {Unit(r, i), Garbage}
    BY <1>1 DEF OInv, WrittenSoFar
  <2>4. \A p \in Offsets : e + at <= p /\ Len(flash[a][p]) = 3 => flash[a][p][1] # r.id
    BY <1>1 DEF OInv, WrittenSoFar, Behind
  <2>5. \A i \in 0..(at + 1) - 1 : flash'[a][e + i] \in {Unit(r, i), Garbage}
    <3>1. \A i \in 0..at - 1 : e + i \in Offsets /\ e + i # e + at
      BY <1>2 DEF Offsets
    <3>2. \A i \in 0..(at + 1) - 1 : i = at \/ i \in 0..at - 1
      BY <1>2
    <3> QED  BY <1>5, <1>6, <2>3, <3>1, <3>2
  <2>6. \A p \in Offsets : e + (at + 1) <= p /\ Len(flash'[a][p]) = 3 => flash'[a][p][1] # r.id
    <3>1. \A p \in Offsets : e + (at + 1) <= p => p # e + at /\ e + at <= p
      BY <1>2 DEF Offsets
    <3> QED  BY <1>6, <2>4, <3>1
  <2>7. IdsGiven'
    BY <1>1, <1>6, <2>2 DEF IdsGiven, Writing, OInv
  <2>8. WrittenSoFar'
    BY <1>1, <2>1, <2>2, <2>5, <2>6 DEF WrittenSoFar, Behind
  <2> QED  BY <2>7, <2>8
<1> QED  BY <1>7, <1>8

(* No record becomes known by an erase. *)
LEMMA EraseIds ==
  ASSUME OInv, ClearBank \/ EraseFails \/ Reset  PROVE IdsGiven' /\ WrittenSoFar'
<1>1. writer'.op \in {"idle", "clear0", "clear1"} /\ written' = written
  BY DEF ClearBank, EraseFails, Reset, Idle
<1>2. CASE ClearBank
  <2>1. /\ Erased \in Banks /\ flash'[Erased] = BlankBank
        /\ \A b \in Banks : b # Erased => flash'[b] = flash[b]
    BY <1>2, FlashTypes DEF ClearBank, OInv, IInv, Clearing, Erased, Banks
  <2>2. \A o \in Offsets : BlankBank[o] = Blank
    BY DEF BlankBank
  <2> QED  BY <1>1, <2>1, <2>2, ErasedIds
<1>3. CASE Erasing /\ flash' \in TornErase
  BY <1>1, <1>3, TornTypes, ErasedIds DEF OInv, IInv
<1>4. CASE flash' = flash
  BY <1>1, <1>4 DEF OInv, IdsGiven, WrittenSoFar, Writing
<1> QED  BY <1>2, <1>3, <1>4 DEF EraseFails, Reset

(* Nor by the steps that leave flash alone. *)
LEMMA OtherIds ==
  ASSUME OInv, BeginClear \/ ReplayScan0 \/ ReplayScan1 \/ ReplayRecord \/ UNCHANGED vars
  PROVE  IdsGiven' /\ WrittenSoFar'
<1>1. /\ flash' = flash /\ s_plog_active_base' = s_plog_active_base
      /\ written' = written /\ s_plog_write_offset' = s_plog_write_offset
      /\ writer' = writer \/ writer'.op = "clear0"
  BY DEF BeginClear, ReplayScan0, ReplayScan1, ReplayRecord, vars, state, history
<1> QED  BY <1>1 DEF OInv, IdsGiven, WrittenSoFar, Writing

(* Every step keeps the banks in order and the records new. *)
LEMMA NextOrder == OInv /\ [Next]_vars => OInv'
<1> SUFFICES ASSUME OInv, [Next]_vars PROVE OInv'
  OBVIOUS
<1>1. IInv'
  BY NextKept DEF OInv
<1>2. OrderInv'
  BY ProgramOrder, ProgramFailsOrder, SwitchBankOrder, ClearBankOrder, EraseFailsOrder,
     ResetOrder, OtherOrder DEF Next
<1>3. IdsGiven' /\ WrittenSoFar'
  BY LogPrintIds, ProgramIds, ProgramFailsIds, SwitchBankIds, EraseIds, OtherIds DEF Next
<1> QED  BY <1>1, <1>2, <1>3 DEF OInv

-------------------------------------------------------------------------------
(* From offset at on, the log task still shows records of this bank that are   *)
(* newer than the last one it has shown, in their order.                       *)
Tells(bank, at, last) ==
  LET rest == ScanFrom(bank)[at]
  IN  /\ rest.end = EndOfReadable(bank)
      /\ Rising(rest.found) /\ SeqsOf(rest.found) \subseteq Seqs(bank)
      /\ \A s \in SeqsOf(rest.found) : last < s

(* What it still has to show comes after what it has shown; the bank in use is *)
(* shown last.                                                                 *)
Shows(fl, active, n, todo, at, last) ==
  /\ last < n
  /\ todo # << >> => Tells(fl[Head(todo)], at, last)
  /\ \A x, y \in Banks : todo = <<x, y>> =>
        x # y /\ y = active /\ \A s \in Seqs(fl[y]) : last < s

ReplayInv ==
  ~clearFailed /\ ~replay.disturbed =>
    /\ replay.pc = "scan1" => replay.last0 = 0 \/ replay.last0 \in Seqs(flash[0])
    /\ replay.pc = "show" =>
         Shows(flash, s_plog_active_base, s_plog_next_seq, replay.todo, replay.at, replay.last)

(* A replay begins with all that is read. *)
LEMMA TellsStart ==
  ASSUME NEW bank \in Bank, NEW n, Ordered(bank, n), NEW last, \A s \in Seqs(bank) : last < s
  PROVE  Tells(bank, 0, last)
BY DEF Tells, Ordered, Seqs, Readable, EndOfReadable

(* After a record is shown, those behind it are still to be shown. *)
LEMMA TellsNext ==
  ASSUME NEW bank \in Bank, NEW at \in 0..BankSize, NEW last, Tells(bank, at, last),
         ValidAt(bank, at)
  PROVE  /\ last < bank[at][1] /\ bank[at][1] \in Seqs(bank)
         /\ Tells(bank, at + bank[at][2], bank[at][1])
<1> DEFINE r == RecordAt(bank, at)
           p == at + bank[at][2]
           rest == ScanFrom(bank)[p].found
           all == ScanFrom(bank)[at].found
<1>1. r \in Records /\ p \in 0..BankSize
  BY ValidEnds, SizesPositive
<1>2. r.seq = bank[at][1]
  BY DEF RecordAt
<1>3. rest \in Seq(Records)
  BY <1>1, ScanTypes DEF ScanOK, Scans
<1>4. all = <<r>> \o rest /\ ScanFrom(bank)[at].end = ScanFrom(bank)[p].end
  BY ScanOn, Zenon
<1>5. /\ ScanFrom(bank)[at].end = EndOfReadable(bank)
      /\ Rising(all) /\ SeqsOf(all) \subseteq Seqs(bank) /\ \A s \in SeqsOf(all) : last < s
  BY DEF Tells
<1> HIDE DEF r, rest, all, p
<1>6. /\ SeqsOf(all) = {r.seq} \cup SeqsOf(rest)
      /\ Rising(rest) /\ \A s \in SeqsOf(rest) : r.seq < s
  BY <1>1, <1>3, <1>4, <1>5, FirstRising
<1>7. last < r.seq /\ r.seq \in Seqs(bank) /\ SeqsOf(rest) \subseteq Seqs(bank)
  BY <1>5, <1>6
<1>8. Tells(bank, p, r.seq)
  BY <1>4, <1>5, <1>6, <1>7 DEF Tells, rest
<1> QED  BY <1>2, <1>7, <1>8 DEF p

(* What another task appends meanwhile comes behind all that. *)
MoreBy(bank, new, n) ==
  Longer(bank, new, << >>) \/ \E r \in Records : r.seq = n /\ Longer(bank, new, <<r>>)

(* A record appended meanwhile comes after all that was shown. *)
LEMMA TellsMore ==
  ASSUME NEW bank \in Bank, NEW new \in Bank, NEW n \in Nat, Ordered(bank, n),
         MoreBy(bank, new, n)
  PROVE  /\ Seqs(bank) \subseteq Seqs(new) /\ Seqs(new) \subseteq Seqs(bank) \cup {n}
         /\ \A at \in 0..BankSize : \A last : last < n /\ Tells(bank, at, last) => Tells(new, at, last)
<1>1. Readable(bank) \in Seq(Records) /\ EndOfReadable(bank) \in 0..BankSize
  BY ReadableTypes
<1>2. ASSUME NEW at \in 0..BankSize
      PROVE  /\ ScanFrom(bank)[at].found \in Seq(Records)
             /\ ScanFrom(bank)[at].end = EndOfReadable(bank) => at \in 0..EndOfReadable(bank)
  <2>1. ScanFrom(bank)[at].found \in Seq(Records) /\ ScanFrom(bank)[at].end \in at..BankSize
    BY ScanTypes DEF ScanOK, Scans
  <2> QED  BY <1>1, <2>1
<1>3. CASE Longer(bank, new, << >>)
  <2>1. \A found \in Seq(Records) : found \o << >> = found
    OBVIOUS
  <2>2. Readable(new) = Readable(bank)
    BY <1>1, <1>3, <2>1 DEF Longer
  <2>3. Seqs(new) = Seqs(bank)
    BY <2>2 DEF Seqs
  <2>4. ASSUME NEW at \in 0..BankSize, NEW last, Tells(bank, at, last)
        PROVE  Tells(new, at, last)
    <3>1. ScanFrom(bank)[at].end = EndOfReadable(bank)
      BY <2>4 DEF Tells
    <3>2. /\ ScanFrom(new)[at].found = ScanFrom(bank)[at].found \o << >>
          /\ ScanFrom(new)[at].end = EndOfReadable(new)
      BY <1>2, <1>3, <3>1 DEF Longer
    <3>3. ScanFrom(new)[at].found = ScanFrom(bank)[at].found
      BY <1>2, <2>1, <3>2
    <3> QED  BY <2>3, <2>4, <3>2, <3>3 DEF Tells
  <2> QED  BY <2>3, <2>4
<1>4. CASE \E r \in Records : r.seq = n /\ Longer(bank, new, <<r>>)
  <2>1. PICK r \in Records : r.seq = n /\ Longer(bank, new, <<r>>)
    BY <1>4
  <2>2. Readable(new) = Readable(bank) \o <<r>>
    BY <2>1 DEF Longer
  <2>3. Seqs(new) = Seqs(bank) \cup {n}
    BY <1>1, <2>1, <2>2, AppendRising DEF Seqs
  <2>4. ASSUME NEW at \in 0..BankSize, NEW last, last < n, Tells(bank, at, last)
        PROVE  Tells(new, at, last)
    <3> DEFINE found == ScanFrom(bank)[at].found
               more == ScanFrom(new)[at].found
    <3>1. /\ ScanFrom(bank)[at].end = EndOfReadable(bank) /\ Rising(found)
          /\ SeqsOf(found) \subseteq Seqs(bank) /\ \A s \in SeqsOf(found) : last < s
      BY <2>4 DEF Tells
    <3>2. more = found \o <<r>> /\ ScanFrom(new)[at].end = EndOfReadable(new)
      BY <1>2, <2>1, <3>1 DEF Longer
    <3>3. found \in Seq(Records)
      BY <1>2
    <3> HIDE DEF found, more
    <3>4. \A s \in SeqsOf(found) : s < r.seq
      BY <2>1, <3>1 DEF Ordered
    <3>5. SeqsOf(more) = SeqsOf(found) \cup {n} /\ Rising(more)
      BY <2>1, <3>1, <3>2, <3>3, <3>4, AppendRising
    <3>6. SeqsOf(more) \subseteq Seqs(new) /\ \A s \in SeqsOf(more) : last < s
      BY <2>3, <2>4, <3>1, <3>5
    <3> QED  BY <3>2, <3>5, <3>6 DEF Tells, more
  <2> QED  BY <2>3, <2>4
<1> QED  BY <1>3, <1>4 DEF MoreBy

(* The banks that may be left to show. *)
Todos == {<<>>, <<0>>, <<1>>, <<0, 1>>, <<1, 0>>}

(* The same for the replay of both banks. *)
LEMMA ShowsMore ==
  ASSUME NEW fl \in [Banks -> Bank], NEW new \in [Banks -> Bank], NEW a \in Banks,
         NEW n \in Nat, NEW m \in Nat, n <= m, \A b \in Banks : Ordered(fl[b], n),
         \A b \in Banks : new[b] = fl[b] \/ MoreBy(fl[b], new[b], n),
         NEW todo \in Todos,
         NEW at \in 0..BankSize, NEW last \in Nat, Shows(fl, a, n, todo, at, last)
  PROVE  Shows(new, a, m, todo, at, last)
<1>1. last < n /\ last < m
  BY DEF Shows
<1>2. ASSUME NEW b \in Banks
      PROVE  /\ Seqs(new[b]) \subseteq Seqs(fl[b]) \cup {n}
             /\ Tells(fl[b], at, last) => Tells(new[b], at, last)
  <2>1. CASE new[b] = fl[b]
    BY <2>1
  <2>2. CASE MoreBy(fl[b], new[b], n)
    <3> DEFINE bank == fl[b]
               bank2 == new[b]
    <3>1. bank \in Bank /\ bank2 \in Bank /\ Ordered(bank, n) /\ MoreBy(bank, bank2, n)
      BY <1>2, <2>2
    <3> HIDE DEF bank, bank2
    <3>2. /\ Seqs(bank2) \subseteq Seqs(bank) \cup {n}
          /\ Tells(bank, at, last) => Tells(bank2, at, last)
      BY <1>1, <3>1, TellsMore
    <3> QED  BY <3>2 DEF bank, bank2
  <2> QED  BY <2>1, <2>2
<1>3. todo # << >> => Tells(new[Head(todo)], at, last)
  <2>1. todo # << >> => Head(todo) \in Banks
    <3>1. Head(<<0>>) = 0 /\ Head(<<1>>) = 1 /\ Head(<<0, 1>>) = 0 /\ Head(<<1, 0>>) = 1
      OBVIOUS
    <3>2. Head(todo) = 0 \/ Head(todo) = 1 \/ todo = << >>
      BY <3>1, Zenon DEF Todos
    <3> QED  BY <3>2 DEF Banks
  <2> QED  BY <1>2, <2>1 DEF Shows
<1>4. ASSUME NEW x \in Banks, NEW y \in Banks, todo = <<x, y>>
      PROVE  x # y /\ y = a /\ \A s \in Seqs(new[y]) : last < s
  <2>1. x # y /\ y = a /\ \A s \in Seqs(fl[y]) : last < s
    BY <1>4 DEF Shows
  <2> QED  BY <1>1, <1>2, <2>1
<1> QED  BY <1>1, <1>3, <1>4 DEF Shows

-------------------------------------------------------------------------------
RInv == OInv /\ ReplayInv

(* Nothing is shown at first. *)
LEMMA FirstReplay == Init => ReplayInv
BY DEF Init, StartReplay, ReplayInv

ShowStates ==
  [pc : {"show"}, disturbed : BOOLEAN,
   todo : {<<>>, <<0>>, <<1>>, <<0, 1>>, <<1, 0>>}, at : 0..BankSize,
   remain : 0..ReplayMax, last : 0..MaxRecords]

(* The types of a replay that shows records. *)
LEMMA ReplayTypesOf ==
  ASSUME TInv
  PROVE  /\ replay.disturbed \in BOOLEAN
         /\ replay.pc = "show" => replay \in ShowStates
BY DEF TInv, TypeOK, ShowStates

(* An erase under the replay disturbs it, and a reset begins it again. *)
LEMMA EraseReplay ==
  ASSUME RInv, SwitchBank \/ ClearBank \/ EraseFails \/ Reset
  PROVE  /\ ReplayInv'
         /\ replay.pc = "show" /\ replay'.pc = "show" => replay'.disturbed
<1>1. CASE Reset
  BY <1>1 DEF Reset, StartReplay, ReplayInv
<1>2. CASE SwitchBank \/ ClearBank \/ EraseFails
  <2>1. replay' = [replay EXCEPT !.disturbed = replay.disturbed \/ replay.pc # "done"]
    BY <1>2 DEF SwitchBank, ClearBank, EraseFails
  <2>2. replay'.pc = replay.pc /\ replay'.disturbed = (replay.disturbed \/ replay.pc # "done")
    BY <2>1 DEF RInv, OInv, IInv, TInv, TypeOK
  <2> QED  BY <2>2 DEF ReplayInv
<1> QED  BY <1>1, <1>2

(* Steps that touch neither flash nor replay. *)
LEMMA QuietReplay ==
  ASSUME RInv, (\E size \in Sizes : LogPrint(size)) \/ BeginClear \/ UNCHANGED vars
  PROVE  ReplayInv' /\ replay' = replay
<1>1. /\ flash' = flash /\ s_plog_active_base' = s_plog_active_base
      /\ s_plog_next_seq' = s_plog_next_seq /\ clearFailed' = clearFailed /\ replay' = replay
  BY DEF LogPrint, BeginClear, vars, state, history
<1> QED  BY <1>1 DEF RInv, ReplayInv

(* A record written meanwhile leaves the replay in order. *)
LEMMA WriteReplay ==
  ASSUME RInv, Program \/ ProgramFails
  PROVE  ReplayInv' /\ replay' = replay
<1>0. replay' = replay /\ clearFailed' = clearFailed
      /\ s_plog_active_base' = s_plog_active_base
  BY DEF Program, ProgramFails, state
<1> SUFFICES ASSUME ~clearFailed, ~replay.disturbed, NEW a, a = s_plog_active_base,
                    NEW n, n = s_plog_next_seq, NEW m, m = s_plog_next_seq',
                    NEW new, new = flash'
             PROVE  /\ replay.pc = "scan1" => replay.last0 = 0 \/ replay.last0 \in Seqs(new[0])
                    /\ replay.pc = "show" =>
                         Shows(new, a, m, replay.todo, replay.at, replay.last)
  BY <1>0 DEF ReplayInv
<1>1. /\ a \in Banks /\ OtherBank(a) \in Banks /\ flash \in [Banks -> Bank] /\ n \in Nat
      /\ 0 \in Banks /\ \A b \in Banks : b = a \/ b = OtherBank(a)
  BY FlashTypes DEF RInv, OInv, IInv, Banks
<1>2. new \in [Banks -> Bank]
  BY ProgramTypes, NextTypes DEF RInv, OInv, IInv, TInv, TypeOK, Bank, Next
<1>3. \A b \in Banks : Ordered(flash[b], n)
  BY DEF RInv, OInv, OrderInv, InOrder
<1>4. MoreBy(flash[a], new[a], n) /\ new[OtherBank(a)] = flash[OtherBank(a)]
  <2>1. CASE Program
    <3>1. writer.rec \in Records /\ writer.rec.seq = n
      BY <2>1, ProgramEffect DEF RInv, Program
    <3>2. /\ Programmed(flash[a], new[a], s_plog_write_offset, writer.rec, writer.at)
          /\ new[OtherBank(a)] = flash[OtherBank(a)]
      BY <2>1, ProgramLonger DEF RInv
    <3>3. Longer(flash[a], new[a], << >>) \/ Longer(flash[a], new[a], <<writer.rec>>)
      BY <3>2 DEF Programmed, SameAs
    <3> QED  BY <3>1, <3>2, <3>3 DEF MoreBy
  <2>2. CASE ProgramFails
    <3>1. SameAs(flash[a], new[a]) /\ new[OtherBank(a)] = flash[OtherBank(a)]
      BY <2>2, FailLonger DEF RInv
    <3> QED  BY <3>1 DEF SameAs, MoreBy
  <2> QED  BY <2>1, <2>2
<1>5. m \in Nat /\ n <= m
  <2>1. m = n \/ m = n + 1
    BY DEF Program, ProgramFails, state
  <2> QED  BY <1>1, <2>1
<1>6. \A b \in Banks : new[b] = flash[b] \/ MoreBy(flash[b], new[b], n)
  BY <1>1, <1>4
<1>7. ASSUME replay.pc = "scan1"  PROVE replay.last0 = 0 \/ replay.last0 \in Seqs(new[0])
  <2>1. replay.last0 = 0 \/ replay.last0 \in Seqs(flash[0])
    BY <1>7 DEF RInv, ReplayInv
  <2>2. ASSUME NEW bank, bank = flash[0], NEW bank2, bank2 = new[0], bank2 # bank
        PROVE  Seqs(bank) \subseteq Seqs(bank2)
    <3>1. bank \in Bank /\ bank2 \in Bank /\ Ordered(bank, n) /\ MoreBy(bank, bank2, n)
      BY <1>1, <1>2, <1>3, <1>6, <2>2
    <3> QED  BY <1>1, <3>1, TellsMore
  <2>3. Seqs(flash[0]) \subseteq Seqs(new[0])
    BY <2>2
  <2> QED  BY <2>1, <2>3
<1>8. ASSUME replay.pc = "show"
      PROVE  Shows(new, a, m, replay.todo, replay.at, replay.last)
  <2>1. Shows(flash, a, n, replay.todo, replay.at, replay.last)
    BY <1>8 DEF RInv, ReplayInv
  <2>2. /\ replay.todo \in Todos
        /\ replay.at \in 0..BankSize /\ replay.last \in Nat
    BY <1>8, ReplayTypesOf, PersistAssumption DEF RInv, OInv, IInv, ShowStates, Todos
  <2>3. /\ flash \in [Banks -> Bank] /\ new \in [Banks -> Bank] /\ a \in Banks
        /\ n \in Nat /\ m \in Nat /\ n <= m
    BY <1>1, <1>2, <1>5
  <2>4. ASSUME NEW fl, fl = flash, NEW todo, todo = replay.todo, NEW at, at = replay.at,
               NEW last, last = replay.last
        PROVE  Shows(new, a, m, todo, at, last)
    <3>1. /\ fl \in [Banks -> Bank] /\ todo \in Todos /\ at \in 0..BankSize /\ last \in Nat
          /\ Shows(fl, a, n, todo, at, last)
      BY <2>1, <2>2, <2>3, <2>4
    <3>2. /\ \A b \in Banks : Ordered(fl[b], n)
          /\ \A b \in Banks : new[b] = fl[b] \/ MoreBy(fl[b], new[b], n)
      BY <1>3, <1>6, <2>4
    <3> QED  BY <2>3, <3>1, <3>2, ShowsMore
  <2> QED  BY <2>4
<1> QED  BY <1>7, <1>8

(* The order of the banks is chosen from the last numbers of both. *)
LEMMA ScanReplay ==
  ASSUME RInv, ReplayScan0 \/ ReplayScan1
  PROVE  ReplayInv' /\ (replay.pc # "show" \/ replay'.pc # "show")
<1>0. /\ flash' = flash /\ clearFailed' = clearFailed /\ s_plog_active_base' = s_plog_active_base
      /\ s_plog_next_seq' = s_plog_next_seq
      /\ replay.pc # "show"
  BY DEF ReplayScan0, ReplayScan1, state, history
<1>1. /\ s_plog_active_base \in Banks /\ flash \in [Banks -> Bank]
      /\ s_plog_next_seq \in Nat \ {0} /\ 0 \in Banks /\ 1 \in Banks
  BY FlashTypes DEF RInv, OInv, IInv, Banks
<1>2. \A b \in Banks : /\ Seqs(flash[b]) \subseteq Nat \ {0} /\ LastSeq(flash[b]) \in Nat
                       /\ LastSeq(flash[b]) # 0 => LastSeq(flash[b]) \in Seqs(flash[b])
  BY <1>1, SeqsTypes
<1>3. CASE ReplayScan0
  <2>1. replay'.pc = "scan1" /\ replay'.last0 = LastSeq(flash[0])
    BY <1>3 DEF ReplayScan0
  <2> QED  BY <1>0, <1>1, <1>2, <2>1 DEF ReplayInv
<1>4. CASE ReplayScan1
  <2>1. /\ replay.pc = "scan1" /\ replay'.pc = "show" /\ replay'.disturbed = replay.disturbed
        /\ replay'.todo = ReplayOrder(replay.last0, LastSeq(flash[1]))
        /\ replay'.at = 0 /\ replay'.last = 0
    BY <1>4 DEF ReplayScan1
  <2> SUFFICES ASSUME ~clearFailed, ~replay.disturbed, NEW a, a = s_plog_active_base,
                      NEW n, n = s_plog_next_seq, NEW todo, todo = replay'.todo
               PROVE  Shows(flash, a, n, todo, 0, 0)
    BY <1>0, <2>1 DEF ReplayInv
  <2>2. /\ \A b \in Banks : Ordered(flash[b], n)
        /\ OlderThan(flash[OtherBank(a)], flash[a])
    BY DEF RInv, OInv, OrderInv, InOrder
  <2>3. replay.last0 = 0 \/ replay.last0 \in Seqs(flash[0])
    BY <2>1 DEF RInv, ReplayInv
  <2>4. todo \in {<<>>, <<0>>, <<1>>, <<0, 1>>, <<1, 0>>}
    BY <2>1 DEF ReplayOrder
  <2>5. todo # << >> => Tells(flash[Head(todo)], 0, 0)
    <3>1. ASSUME NEW b \in Banks  PROVE Tells(flash[b], 0, 0)
      <4>1. \A s \in Seqs(flash[b]) : 0 < s
        BY <1>2
      <4>2. flash[b] \in Bank /\ Ordered(flash[b], n)
        BY <1>1, <2>2
      <4> QED  BY <4>1, <4>2, TellsStart
    <3>2. Head(<<0>>) = 0 /\ Head(<<1>>) = 1 /\ Head(<<0, 1>>) = 0 /\ Head(<<1, 0>>) = 1
      OBVIOUS
    <3>3. Head(todo) = 0 \/ Head(todo) = 1 \/ todo = << >>
      BY <2>4, <3>2, Zenon
    <3> QED  BY <1>1, <3>1, <3>3
  <2>6. ASSUME NEW x \in Banks, NEW y \in Banks, todo = <<x, y>>
        PROVE  x # y /\ y = a /\ \A s \in Seqs(flash[y]) : 0 < s
    <3> DEFINE l0 == replay.last0
               l1 == LastSeq(flash[1])
    <3>1. l0 # 0 /\ l1 # 0 /\ IF l0 <= l1 THEN x = 0 /\ y = 1 ELSE x = 1 /\ y = 0
      BY <2>1, <2>6 DEF ReplayOrder
    <3>2. l0 \in Seqs(flash[0]) /\ l1 \in Seqs(flash[1]) /\ l0 \in Nat /\ l1 \in Nat
      BY <1>1, <1>2, <2>3, <3>1
    <3> HIDE DEF l0, l1
    <3>3. a = 1 => l0 < l1
      <4>1. OtherBank(1) = 0
        BY DEF OtherBank
      <4> QED  BY <2>2, <3>2, <4>1 DEF OlderThan
    <3>4. a = 0 => l1 < l0
      <4>1. OtherBank(0) = 1
        BY DEF OtherBank
      <4> QED  BY <2>2, <3>2, <4>1 DEF OlderThan
    <3>5. a = 0 \/ a = 1
      BY <1>1 DEF Banks
    <3>6. x # y /\ y = a
      BY <3>1, <3>2, <3>3, <3>4, <3>5
    <3>7. \A s \in Seqs(flash[y]) : 0 < s
      BY <1>2
    <3> QED  BY <3>6, <3>7
  <2> QED  BY <1>1, <2>5, <2>6 DEF Shows
<1> QED  BY <1>0, <1>3, <1>4

(* A step of the replay shows a newer record than the last. *)
LEMMA ShowReplay ==
  ASSUME RInv, ReplayRecord
  PROVE  /\ ReplayInv'
         /\ replay.pc = "show" /\ replay'.pc = "show" /\ replay'.remain < replay.remain
              => replay'.disturbed \/ clearFailed \/ replay'.last > replay.last
<1>0. /\ flash' = flash /\ clearFailed' = clearFailed /\ s_plog_active_base' = s_plog_active_base
      /\ s_plog_next_seq' = s_plog_next_seq /\ replay.pc = "show"
  BY DEF ReplayRecord, state, history
<1>1. CASE replay.todo = << >> \/ replay.remain = 0
  <2>1. replay'.pc = "done"
    BY <1>1 DEF ReplayRecord, NoReplay
  <2> QED  BY <2>1 DEF ReplayInv
<1>2. CASE ~(replay.todo = << >> \/ replay.remain = 0)
  <2> DEFINE todo == replay.todo
             at == replay.at
             last == replay.last
             a == s_plog_active_base
             n == s_plog_next_seq
  <2>1. replay \in ShowStates
    BY <1>0, ReplayTypesOf DEF RInv, OInv, IInv
  <2>2. /\ todo \in {<<>>, <<0>>, <<1>>, <<0, 1>>, <<1, 0>>} /\ todo # << >>
        /\ at \in 0..BankSize /\ last \in Nat /\ replay.remain \in Nat
    BY <1>2, <2>1, PersistAssumption DEF ShowStates
  <2>3. PICK x \in Banks : /\ Head(todo) = x
                           /\ \/ todo = <<x>> /\ Tail(todo) = << >>
                              \/ \E y \in Banks : todo = <<x, y>> /\ Tail(todo) = <<y>>
    <3>1. /\ Head(<<0>>) = 0 /\ Head(<<1>>) = 1 /\ Tail(<<0>>) = <<>> /\ Tail(<<1>>) = <<>>
          /\ Head(<<0, 1>>) = 0 /\ Tail(<<0, 1>>) = <<1>>
          /\ Head(<<1, 0>>) = 1 /\ Tail(<<1, 0>>) = <<0>>
      OBVIOUS
    <3>2. 0 \in Banks /\ 1 \in Banks
      BY DEF Banks
    <3> HIDE DEF todo
    <3> QED  BY <2>2, <3>1, <3>2, Zenon
  <2>4. /\ flash[x] \in Bank /\ a \in Banks /\ \A b \in Banks : flash[b] \in Bank
        /\ n \in Nat \ {0}
    BY FlashTypes DEF RInv, OInv, IInv
  <2> DEFINE bank == flash[x]
  <2>5. CASE ValidAt(bank, at)
    <3>1. /\ replay' = [replay EXCEPT !.at = at + bank[at][2], !.remain = replay.remain - 1,
                                      !.last = bank[at][1]]
      BY <1>2, <2>3, <2>5 DEF ReplayRecord
    <3>2. /\ replay'.at = at + bank[at][2] /\ replay'.last = bank[at][1]
          /\ replay'.todo = todo /\ replay'.disturbed = replay.disturbed /\ replay'.pc = "show"
      BY <2>1, <3>1 DEF ShowStates
    <3> SUFFICES ASSUME ~clearFailed, ~replay.disturbed
                 PROVE  /\ Shows(flash, a, n, todo, at + bank[at][2], bank[at][1])
                        /\ bank[at][1] > last
      BY <1>0, <3>2 DEF ReplayInv
    <3>3. Shows(flash, a, n, todo, at, last)
      BY <1>0 DEF RInv, ReplayInv
    <3>4. Tells(bank, at, last)
      BY <2>2, <2>3, <3>3 DEF Shows
    <3>5. /\ last < bank[at][1] /\ bank[at][1] \in Seqs(bank)
          /\ Tells(bank, at + bank[at][2], bank[at][1])
      <4> HIDE DEF bank, at, last
      <4> QED  BY <2>2, <2>4, <2>5, <3>4, TellsNext DEF bank
    <3>6. /\ \A b \in Banks : Ordered(flash[b], n)
          /\ OlderThan(flash[OtherBank(a)], flash[a])
      BY DEF RInv, OInv, OrderInv, InOrder
    <3>7. bank[at][1] < n /\ bank[at][1] \in Nat
      <4>1. Seqs(bank) \subseteq Nat \ {0}
        BY <2>4, SeqsTypes
      <4>2. Ordered(bank, n)
        BY <3>6
      <4> QED  BY <3>5, <4>1, <4>2 DEF Ordered
    <3>8. ASSUME NEW u \in Banks, NEW v \in Banks, todo = <<u, v>>
          PROVE  u # v /\ v = a /\ \A s \in Seqs(flash[v]) : bank[at][1] < s
      <4>1. u # v /\ v = a
        BY <3>3, <3>8 DEF Shows
      <4>2. u = x
        <5>1. Head(<<u, v>>) = u
          OBVIOUS
        <5> QED  BY <2>3, <3>8, <5>1
      <4>3. x = OtherBank(a)
        BY <2>4, <4>1, <4>2 DEF Banks, OtherBank
      <4> HIDE DEF at
      <4> QED  BY <3>5, <3>6, <4>1, <4>3 DEF OlderThan
    <3>9. Tells(flash[Head(todo)], at + bank[at][2], bank[at][1])
      BY <2>3, <3>5
    <3>10. bank[at][1] > last
      BY <2>2, <3>5, <3>7
    <3> HIDE DEF bank, at, last, todo, n, a
    <3> QED  BY <3>7, <3>8, <3>9, <3>10 DEF Shows
  <2>6. CASE ~ValidAt(bank, at)
    <3>1. replay' = [replay EXCEPT !.at = 0, !.todo = Tail(replay.todo)]
      BY <1>2, <2>3, <2>6 DEF ReplayRecord
    <3>2. /\ replay'.at = 0 /\ replay'.todo = Tail(todo) /\ replay'.last = last
          /\ replay'.disturbed = replay.disturbed /\ replay'.pc = "show"
          /\ replay'.remain = replay.remain
      BY <2>1, <3>1 DEF ShowStates
    <3>3. ~(replay'.remain < replay.remain)
      BY <2>2, <3>2
    <3> SUFFICES ASSUME ~clearFailed, ~replay.disturbed
                 PROVE  Shows(flash, a, n, Tail(todo), 0, last)
      BY <1>0, <3>2, <3>3 DEF ReplayInv
    <3>4. Shows(flash, a, n, todo, at, last)
      BY <1>0 DEF RInv, ReplayInv
    <3>5. last < n
      BY <3>4 DEF Shows
    <3>6. CASE Tail(todo) = << >>
      <4>1. \A u, v : << >> # <<u, v>>
        OBVIOUS
      <4> HIDE DEF todo
      <4> QED  BY <3>5, <3>6, <4>1 DEF Shows
    <3>7. CASE \E y \in Banks : todo = <<x, y>> /\ Tail(todo) = <<y>>
      <4>1. PICK y \in Banks : todo = <<x, y>> /\ Tail(todo) = <<y>>
        BY <3>7
      <4>2. \A s \in Seqs(flash[y]) : last < s
        BY <3>4, <4>1 DEF Shows
      <4>3. flash[y] \in Bank /\ Ordered(flash[y], n)
        BY <2>4 DEF RInv, OInv, OrderInv, InOrder
      <4>4. Tells(flash[y], 0, last)
        BY <4>2, <4>3, TellsStart
      <4>5. Head(<<y>>) = y /\ \A u, v : <<y>> # <<u, v>>
        OBVIOUS
      <4> HIDE DEF todo
      <4> QED  BY <3>5, <4>1, <4>4, <4>5 DEF Shows
    <3> QED  BY <2>3, <3>6, <3>7
  <2> QED  BY <2>5, <2>6
<1> QED  BY <1>1, <1>2

(* Every step keeps the replay in order. *)
LEMMA NextReplay ==
  RInv /\ [Next]_vars =>
    /\ RInv'
    /\ (replay.pc = "show" /\ replay'.pc = "show" /\ replay'.remain < replay.remain)
         => replay'.disturbed \/ clearFailed \/ replay'.last > replay.last
<1> SUFFICES ASSUME RInv, [Next]_vars
             PROVE  /\ ReplayInv'
                    /\ (replay.pc = "show" /\ replay'.pc = "show" /\ replay'.remain < replay.remain)
                         => replay'.disturbed \/ clearFailed \/ replay'.last > replay.last
  BY NextOrder DEF RInv
<1>1. CASE SwitchBank \/ ClearBank \/ EraseFails \/ Reset
  BY <1>1, EraseReplay
<1>2. CASE (\E size \in Sizes : LogPrint(size)) \/ BeginClear \/ UNCHANGED vars \/ Program \/ ProgramFails
  <2>1. ReplayInv' /\ replay' = replay
    BY <1>2, QuietReplay, WriteReplay
  <2>2. replay.pc = "show" => replay.remain \in Nat
    BY ReplayTypesOf, PersistAssumption DEF RInv, OInv, IInv, ShowStates
  <2> QED  BY <2>1, <2>2
<1>3. CASE ReplayScan0 \/ ReplayScan1
  BY <1>3, ScanReplay
<1>4. CASE ReplayRecord
  BY <1>4, ShowReplay
<1> QED  BY <1>1, <1>2, <1>3, <1>4 DEF Next

(* ReplayInOrder holds: the log task shows the records of both banks oldest    *)
(* first and none twice, although it holds no mutex and other tasks append     *)
(* meanwhile, unless a bank is erased under it or a clear has failed.          *)
THEOREM ReplayTheorem == Spec => ReplayInOrder
<1>1. Init => RInv
  BY FirstTypes, FirstKept, FirstOrder, FirstReplay DEF RInv, OInv, IInv
<1>2. RInv /\ [Next]_vars => RInv'
  BY NextReplay
<1>3. RInv /\ [Next]_vars =>
        [(replay.pc = "show" /\ replay'.pc = "show" /\ replay'.remain < replay.remain)
           => replay'.disturbed \/ clearFailed \/ replay'.last > replay.last]_vars
  BY NextReplay
<1> QED  BY <1>1, <1>2, <1>3, PTL DEF Spec, ReplayInOrder

-------------------------------------------------------------------------------
(* A bank is only given up when the record no longer fits behind the others. *)
FullSwitch ==
  writer.op = "switch" /\ ~writer.retry => s_plog_write_offset + writer.rec.size > BankSize

LInv == OInv /\ FullSwitch

(* Nothing is being written at first. *)
LEMMA FirstFull == Init => FullSwitch
BY DEF Init, Idle, FullSwitch

(* No step gives up a bank with room for the record. *)
LEMMA NextFull == OInv /\ FullSwitch /\ [Next]_vars => FullSwitch'
<1> SUFFICES ASSUME OInv, FullSwitch, [Next]_vars PROVE FullSwitch'
  OBVIOUS
<1>1. ASSUME NEW size \in Sizes, LogPrint(size)  PROVE FullSwitch'
  BY <1>1 DEF LogPrint, FullSwitch, state
<1>2. CASE Program \/ SwitchBank
  <2>1. writer \in [op : {"program", "switch"}, rec : Records, at : Offsets, retry : BOOLEAN]
    BY <1>2 DEF Program, SwitchBank, OInv, IInv, TInv, TypeOK
  <2>2. \/ writer' = Idle
        \/ writer' = [writer EXCEPT !.op = "program"]
        \/ writer' = [writer EXCEPT !.at = writer.at + 1] /\ writer.op = "program"
    BY <1>2 DEF Program, SwitchBank
  <2>3. writer'.op # "switch"
    <3>1. writer' = Idle => writer'.op # "switch"
      BY DEF Idle
    <3>2. writer' = [writer EXCEPT !.op = "program"] => writer'.op # "switch"
      BY <2>1
    <3>3. writer' = [writer EXCEPT !.at = writer.at + 1] => writer'.op = writer.op
      BY <2>1
    <3> QED  BY <2>2, <3>1, <3>2, <3>3
  <2> QED  BY <2>3 DEF FullSwitch
<1>3. CASE ProgramFails
  <2>1. writer \in [op : {"program", "switch"}, rec : Records, at : Offsets, retry : BOOLEAN]
    BY <1>3 DEF ProgramFails, OInv, IInv, TInv, TypeOK
  <2>2. CASE writer' = Idle
    BY <2>2 DEF FullSwitch, Idle
  <2>3. CASE writer' = [writer EXCEPT !.op = "switch", !.at = 0, !.retry = TRUE]
    BY <2>1, <2>3 DEF FullSwitch
  <2> QED  BY <1>3, <2>2, <2>3 DEF ProgramFails
<1>4. CASE BeginClear \/ ClearBank \/ EraseFails \/ Reset
  BY <1>4 DEF BeginClear, ClearBank, EraseFails, Reset, Idle, FullSwitch
<1>5. CASE ReplayScan0 \/ ReplayScan1 \/ ReplayRecord \/ UNCHANGED vars
  BY <1>5 DEF ReplayScan0, ReplayScan1, ReplayRecord, vars, state, FullSwitch
<1> QED  BY <1>1, <1>2, <1>3, <1>4, <1>5 DEF Next

-------------------------------------------------------------------------------
(* Sequences of records are equal when their members are. *)
LEMMA SameSequence ==
  ASSUME NEW s \in Seq(Records), NEW t \in Seq(Records), NEW n, Len(s) = n, Len(t) = n,
         \A i \in 1..n : s[i] = t[i]
  PROVE  s = t
OBVIOUS

(* Two sequences of records, one after the other. *)
LEMMA ConcatFacts ==
  ASSUME NEW s \in Seq(Records), NEW t \in Seq(Records)
  PROVE  /\ s \o t \in Seq(Records) /\ Len(s \o t) = Len(s) + Len(t)
         /\ \A i \in 1..Len(s) : (s \o t)[i] = s[i]
         /\ \A i \in 1..Len(t) : (s \o t)[Len(s) + i] = t[i]
         /\ s \o << >> = s /\ << >> \o t = t
OBVIOUS

(* Rising records behind rising records with lower numbers. *)
LEMMA ConcatRising ==
  ASSUME NEW s \in Seq(Records), NEW t \in Seq(Records), Rising(s), Rising(t),
         \A x \in SeqsOf(s), y \in SeqsOf(t) : x < y
  PROVE  Rising(s \o t)
<1> DEFINE all == s \o t
<1>1. /\ DOMAIN all = 1..Len(s) + Len(t) /\ Len(s) \in Nat /\ Len(t) \in Nat
      /\ DOMAIN s = 1..Len(s) /\ DOMAIN t = 1..Len(t)
      /\ \A i \in 1..Len(s) : all[i] = s[i]
      /\ \A i \in 1..Len(t) : all[Len(s) + i] = t[i]
  BY ConcatFacts
<1>2. \A i \in 1..Len(s) + Len(t) :
         i \in 1..Len(s) \/ (i - Len(s) \in 1..Len(t) /\ all[i] = t[i - Len(s)])
  <2> SUFFICES ASSUME NEW i \in 1..Len(s) + Len(t), i \notin 1..Len(s)
               PROVE  i - Len(s) \in 1..Len(t) /\ all[i] = t[i - Len(s)]
    OBVIOUS
  <2>1. i - Len(s) \in 1..Len(t) /\ Len(s) + (i - Len(s)) = i
    BY <1>1
  <2> HIDE DEF all
  <2> QED  BY <1>1, <2>1
<1> HIDE DEF all
<1>3. ASSUME NEW i \in DOMAIN all, NEW j \in DOMAIN all, i < j
      PROVE  all[i].seq < all[j].seq
  <2>1. CASE i \in 1..Len(s) /\ j \in 1..Len(s)
    BY <1>1, <1>3, <2>1 DEF Rising
  <2>2. CASE i \in 1..Len(s) /\ j \notin 1..Len(s)
    <3>1. all[i].seq \in SeqsOf(s)
      BY <1>1, <2>2 DEF SeqsOf
    <3>2. all[j].seq \in SeqsOf(t)
      BY <1>1, <1>2, <1>3, <2>2 DEF SeqsOf
    <3> QED  BY <3>1, <3>2
  <2>3. CASE i \notin 1..Len(s)
    <3>1. j \notin 1..Len(s)
      BY <1>1, <1>3, <2>3
    <3>2. /\ i - Len(s) \in 1..Len(t) /\ all[i] = t[i - Len(s)]
          /\ j - Len(s) \in 1..Len(t) /\ all[j] = t[j - Len(s)]
      BY <1>1, <1>2, <1>3, <2>3, <3>1
    <3>3. i - Len(s) < j - Len(s)
      BY <1>1, <1>3
    <3> QED  BY <1>1, <3>2, <3>3 DEF Rising
  <2> QED  BY <2>1, <2>2, <2>3
<1> QED  BY <1>3 DEF Rising, all

(* The end of the first sequence is gone. *)
LEMMA BlockGone ==
  ASSUME NEW s \in Seq(Records), NEW t \in Seq(Records), t # << >>, NEW k \in 0..Len(s)
  PROVE  \/ SubSeq(s, 1, k) \o t = s \o t
         \/ Abstract!Reclaims(s \o t, SubSeq(s, 1, k) \o t)
<1>1. CASE k = Len(s)
  <2>1. SubSeq(s, 1, Len(s)) = s
    OBVIOUS
  <2> QED  BY <1>1, <2>1
<1>2. CASE k # Len(s)
  <2> DEFINE all == s \o t
             j == Len(s)
  <2>1. /\ all \in Seq(Records) /\ Len(all) = j + Len(t) /\ j \in Nat /\ Len(t) \in Nat \ {0}
        /\ \A i \in 1..j : all[i] = s[i]
        /\ \A i \in 1..Len(t) : all[j + i] = t[i]
    BY ConcatFacts
  <2>2. SubSeq(all, 1, k) = SubSeq(s, 1, k)
    <3> HIDE DEF all
    <3>1. k \in 0..Len(all) /\ k \in 0..Len(s)
      BY <2>1
    <3>2. /\ SubSeq(all, 1, k) \in Seq(Records) /\ Len(SubSeq(all, 1, k)) = k
          /\ SubSeq(s, 1, k) \in Seq(Records) /\ Len(SubSeq(s, 1, k)) = k
      BY <2>1, <3>1
    <3>3. \A i \in 1..k : SubSeq(all, 1, k)[i] = all[i] /\ SubSeq(s, 1, k)[i] = s[i]
      BY <2>1, <3>1
    <3>4. \A i \in 1..k : SubSeq(all, 1, k)[i] = SubSeq(s, 1, k)[i]
      BY <2>1, <3>1, <3>3
    <3> QED
      <4> DEFINE one == SubSeq(all, 1, k)
                 two == SubSeq(s, 1, k)
      <4>1. /\ one \in Seq(Records) /\ two \in Seq(Records) /\ Len(one) = k /\ Len(two) = k
            /\ \A i \in 1..k : one[i] = two[i]
        BY <3>2, <3>4
      <4> HIDE DEF one, two
      <4>2. one = two
        BY <4>1, SameSequence
      <4> QED  BY <4>2 DEF one, two
  <2>3. SubSeq(all, j + 1, Len(all)) = t
    <3> HIDE DEF all, j
    <3> DEFINE end == SubSeq(all, j + 1, Len(all))
    <3>1. /\ end \in Seq(Records) /\ Len(end) = Len(t)
          /\ \A i \in 1..Len(t) : end[i] = all[j + i]
      <4>1. Len(all) \in Nat /\ j + 1 \in 1..Len(all) + 1 /\ Len(all) - j = Len(t)
        BY <2>1
      <4>2. end \in Seq(Records) /\ Len(end) = (Len(all) - (j + 1)) + 1
        BY <2>1, <4>1
      <4>3. Len(end) = Len(t)
        BY <2>1, <4>1, <4>2
      <4>4. \A i \in 1..Len(t) : end[i] = all[(j + 1) + i - 1]
        BY <2>1, <4>1
      <4>5. \A i \in 1..Len(t) : (j + 1) + i - 1 = j + i
        BY <2>1
      <4> HIDE DEF end
      <4> QED  BY <4>2, <4>3, <4>4, <4>5
    <3> HIDE DEF end
    <3>2. \A i \in 1..Len(t) : end[i] = t[i]
      BY <2>1, <3>1
    <3>3. end = t
      BY <3>1, <3>2, SameSequence
    <3> QED  BY <3>3 DEF end
  <2>4. k \in 0..Len(all) - 1 /\ j \in 0..Len(all) - 1 /\ k < j
    <3> HIDE DEF all
    <3> QED  BY <1>2, <2>1
  <2>5. SubSeq(s, 1, k) \o t = SubSeq(all, 1, k) \o SubSeq(all, j + 1, Len(all))
    BY <2>2, <2>3
  <2> HIDE DEF all, j
  <2>6. Abstract!Reclaims(all, SubSeq(s, 1, k) \o t)
    BY <2>4, <2>5 DEF Abstract!Reclaims
  <2> QED  BY <2>6 DEF all
<1> QED  BY <1>1, <1>2

(* A record stands behind all others. *)
LEMMA StoredBehind ==
  ASSUME NEW s \in Seq(Records), NEW r \in Records, Rising(s \o <<r>>)
  PROVE  Abstract!Stores(s, s \o <<r>>)
<1> DEFINE t == s \o <<r>>
<1>1. /\ t # << >> /\ t[Len(t)] = r /\ Append(s, r) = t
  <2>1. Len(t) = Len(s) + 1 /\ Len(s) \in Nat /\ t[Len(s) + 1] = r /\ t \in Seq(Records)
    OBVIOUS
  <2>2. t # << >>
    BY <2>1
  <2>3. Append(s, r) = t
    OBVIOUS
  <2> QED  BY <2>1, <2>2, <2>3
<1>2. Abstract!Ascending(t)
  BY DEF Abstract!Ascending, Rising
<1> HIDE DEF t
<1>3. Abstract!Stores(s, t)
  BY <1>1, <1>2 DEF Abstract!Stores
<1> QED  BY <1>3 DEF t

-------------------------------------------------------------------------------
(* The situation in which RecordLog promises nothing. *)
Excused == clearFailed \/ Clearing \/ Retrying \/ Spoiled

(* Log, for any contents of the flash. *)
LogOf(fl) ==
  LET found0 == Readable(fl[0])
      found1 == Readable(fl[1])
  IN  IF LastOf(found0) >= LastOf(found1) THEN found1 \o found0 ELSE found0 \o found1

(* Log is LogOf the flash, before and after a step. *)
LEMMA LogIsLogOf == Log = LogOf(flash) /\ Log' = LogOf(flash')
BY DEF Log, LogOf

(* The bank in use holds the newer records. *)
LEMMA LogJoined ==
  ASSUME NEW fl \in [Banks -> Bank], NEW a \in Banks, NEW n, InOrder(fl, a, n)
  PROVE  LogOf(fl) = Readable(fl[OtherBank(a)]) \o Readable(fl[a])
<1> DEFINE found0 == Readable(fl[0])
           found1 == Readable(fl[1])
           l0 == LastSeq(fl[0])
           l1 == LastSeq(fl[1])
<1>1. /\ found0 \in Seq(Records) /\ found1 \in Seq(Records) /\ l0 \in Nat /\ l1 \in Nat
      /\ l0 = 0 <=> found0 = << >>
      /\ l1 = 0 <=> found1 = << >>
      /\ l0 # 0 => l0 \in Seqs(fl[0])
      /\ l1 # 0 => l1 \in Seqs(fl[1])
  <2>1. fl[0] \in Bank /\ fl[1] \in Bank
    BY DEF Banks
  <2> QED  BY <2>1, ReadableTypes, SeqsTypes
<1>2. LogOf(fl) = IF l0 >= l1 THEN found1 \o found0 ELSE found0 \o found1
  BY DEF LogOf, LastSeq
<1>3. OlderThan(fl[OtherBank(a)], fl[a])
  BY DEF InOrder
<1>4. found0 \o << >> = << >> \o found0 /\ found1 \o << >> = << >> \o found1
  BY <1>1
<1>5. CASE a = 0
  <2>1. OtherBank(a) = 1
    BY <1>5 DEF OtherBank
  <2>2. l0 # 0 /\ l1 # 0 => l1 < l0
    BY <1>1, <1>3, <1>5, <2>1 DEF OlderThan
  <2>3. l0 >= l1 \/ found0 = << >>
    BY <1>1, <2>2
  <2> HIDE DEF found0, found1, l0, l1
  <2>4. LogOf(fl) = found1 \o found0
    BY <1>2, <1>4, <2>3
  <2> QED  BY <1>5, <2>1, <2>4 DEF found0, found1
<1>6. CASE a = 1
  <2>1. OtherBank(a) = 0
    BY <1>6 DEF OtherBank
  <2>2. l0 # 0 /\ l1 # 0 => l0 < l1
    BY <1>1, <1>3, <1>6, <2>1 DEF OlderThan
  <2>3. ~(l0 >= l1) \/ found1 = << >>
    BY <1>1, <2>2
  <2> HIDE DEF found0, found1, l0, l1
  <2>4. LogOf(fl) = found0 \o found1
    BY <1>2, <1>4, <2>3
  <2> QED  BY <1>6, <2>1, <2>4 DEF found0, found1
<1> QED  BY <1>5, <1>6 DEF Banks

(* What the log is, in every state without a failed clear. *)
LEMMA LogNow ==
  ASSUME OInv, ~clearFailed
  PROVE  /\ Log = Readable(flash[OtherBank(s_plog_active_base)]) \o Readable(flash[s_plog_active_base])
         /\ Readable(flash[OtherBank(s_plog_active_base)]) \in Seq(Records)
         /\ Readable(flash[s_plog_active_base]) \in Seq(Records)
<1>1. /\ s_plog_active_base \in Banks /\ OtherBank(s_plog_active_base) \in Banks
      /\ flash \in [Banks -> Bank]
  BY FlashTypes DEF OInv, IInv
<1>2. InOrder(flash, s_plog_active_base, s_plog_next_seq)
  BY DEF OInv, OrderInv
<1>3. Log = Readable(flash[OtherBank(s_plog_active_base)]) \o Readable(flash[s_plog_active_base])
  BY <1>1, <1>2, LogJoined, LogIsLogOf
<1> QED  BY <1>1, <1>3, ReadableTypes

(* What is left of the log by an erase that is cut short, for a new record. *)
LEMMA TornLog ==
  ASSUME LInv, ~clearFailed, writer.op = "switch", flash' \in TornErase,
         Readable(flash[s_plog_active_base]) # << >>
  PROVE  Log' = Log \/ Abstract!Reclaims(Log, Log')
<1> SUFFICES ASSUME NEW a, a = s_plog_active_base, NEW n, n = s_plog_next_seq, NEW fl, fl = flash'
             PROVE  LogOf(fl) = Log \/ Abstract!Reclaims(Log, LogOf(fl))
  BY LogIsLogOf
<1> DEFINE d == OtherBank(a)
<1>1. /\ a \in Banks /\ d \in Banks /\ d # a /\ flash \in [Banks -> Bank]
      /\ Erased = d
  BY FlashTypes DEF LInv, OInv, IInv, Erased
<1>2. /\ fl \in [Banks -> Bank] /\ \A b \in Banks : b # Erased => fl[b] = flash[b]
      /\ \A b \in Banks : Ordered(fl[b], n) /\ Seqs(fl[b]) \subseteq Seqs(flash[b])
  BY TornOrder DEF LInv, Erasing
<1>3. fl[a] = flash[a]
  BY <1>1, <1>2
<1>4. InOrder(fl, a, n)
  <2>1. OlderThan(flash[d], flash[a])
    BY DEF LInv, OInv, OrderInv, InOrder
  <2> QED  BY <1>1, <1>2, <2>1 DEF InOrder, OlderThan
<1>5. LogOf(fl) = Readable(fl[d]) \o Readable(flash[a])
  BY <1>1, <1>2, <1>3, <1>4, LogJoined
<1>6. PICK k \in 0..Len(Readable(flash[d])) :
         Readable(fl[d]) = SubSeq(Readable(flash[d]), 1, k)
  <2>1. PICK cut \in 0..BankSize, fill \in {Blank, Garbage} :
          fl = [flash EXCEPT ![Erased] =
                  [o \in Offsets |-> IF o < cut THEN flash[Erased][o] ELSE fill]]
    BY DEF TornErase
  <2>2. fl[d] = [o \in Offsets |-> IF o < cut THEN flash[d][o] ELSE fill]
    BY <1>1, <2>1
  <2>3. ASSUME NEW bank, bank = flash[d], NEW new, new = fl[d]
        PROVE  \E k \in 0..Len(Readable(bank)) : Readable(new) = SubSeq(Readable(bank), 1, k)
    <3>1. bank \in Bank /\ new \in Bank /\ TornTo(bank, new, cut, fill)
      BY <1>1, <1>2, <2>2, <2>3 DEF TornTo
    <3> QED  BY <2>1, <3>1, TornKeeps
  <2> QED  BY <2>3
<1>7. /\ Log = Readable(flash[d]) \o Readable(flash[a])
      /\ Readable(flash[d]) \in Seq(Records) /\ Readable(flash[a]) \in Seq(Records)
  BY LogNow DEF LInv
<1> HIDE DEF d
<1>8. Readable(flash[a]) # << >>
  OBVIOUS
<1>9. ASSUME NEW s, s = Readable(flash[d]), NEW t, t = Readable(flash[a])
      PROVE  LogOf(fl) = Log \/ Abstract!Reclaims(Log, LogOf(fl))
  <2>1. Log = s \o t /\ LogOf(fl) = SubSeq(s, 1, k) \o t
    BY <1>5, <1>6, <1>7, <1>9
  <2>2. SubSeq(s, 1, k) \o t = s \o t \/ Abstract!Reclaims(s \o t, SubSeq(s, 1, k) \o t)
    BY <1>6, <1>7, <1>8, <1>9, BlockGone
  <2> QED  BY <2>1, <2>2
<1> QED  BY <1>9

(* A switch for a new record: the bank in use holds one that can be read. *)
LEMMA SwitchFound ==
  ASSUME LInv, writer.op = "switch", ~Excused
  PROVE  Readable(flash[s_plog_active_base]) # << >> /\ writer.retry = FALSE
<1>1. /\ writer \in [op : {"program", "switch"}, rec : Records, at : Offsets, retry : BOOLEAN]
      /\ s_plog_write_offset \in 0..BankSize
  BY DEF LInv, OInv, IInv, TInv, TypeOK
<1>2. writer.retry = FALSE
  BY <1>1 DEF Excused, Retrying
<1>3. s_plog_write_offset + writer.rec.size > BankSize
  BY <1>2 DEF LInv, FullSwitch
<1>4. writer.rec.size \in 2..BankSize /\ BankSize \in Nat
  BY <1>1, SizesPositive DEF Records
<1>5. s_plog_write_offset > 0
  BY <1>1, <1>3, <1>4
<1> QED  BY <1>2, <1>5 DEF Excused, Spoiled

(* Steps that touch no flash leave the log alone. *)
LEMMA QuietLog ==
  ASSUME ~Excused,
         \/ \E size \in Sizes : LogPrint(size)
         \/ ReplayScan0 \/ ReplayScan1 \/ ReplayRecord \/ UNCHANGED vars
  PROVE  ~Excused' /\ Log' = Log
<1>1. /\ flash' = flash /\ s_plog_active_base' = s_plog_active_base
      /\ s_plog_write_offset' = s_plog_write_offset /\ clearFailed' = clearFailed
  BY DEF LogPrint, ReplayScan0, ReplayScan1, ReplayRecord, vars, state, history
<1>2. writer' = writer \/ (writer'.op \in {"program", "switch"} /\ writer'.retry = FALSE)
  BY DEF LogPrint, ReplayScan0, ReplayScan1, ReplayRecord, vars
<1>3. Log' = Log
  BY <1>1, LogIsLogOf
<1> QED  BY <1>1, <1>2, <1>3 DEF Excused, Clearing, Retrying, Spoiled

(* A switch reclaims the older bank. *)
LEMMA SwitchBankLog ==
  ASSUME LInv, ~Excused, SwitchBank
  PROVE  ~Excused' /\ (Log' = Log \/ Abstract!Reclaims(Log, Log'))
<1> DEFINE a == s_plog_active_base
           d == OtherBank(a)
           s == Readable(flash[d])
           t == Readable(flash[a])
<1>1. /\ a \in Banks /\ d \in Banks /\ d # a /\ OtherBank(d) = a /\ flash \in [Banks -> Bank]
      /\ Erased = d /\ writer.op = "switch"
  BY FlashTypes DEF LInv, OInv, IInv, SwitchBank, Erased, OtherBank, Banks
<1>2. /\ flash'[d] = BlankBank /\ flash'[a] = flash[a] /\ s_plog_active_base' = d
      /\ clearFailed' = clearFailed /\ s_plog_write_offset' = 0
  BY <1>1 DEF SwitchBank
<1>3. writer'.op = "program" /\ writer'.retry = FALSE
  <2>1. writer \in [op : {"program", "switch"}, rec : Records, at : Offsets, retry : BOOLEAN]
    BY <1>1 DEF LInv, OInv, IInv, TInv, TypeOK
  <2>2. writer' = [writer EXCEPT !.op = "program"]
    BY DEF SwitchBank
  <2> QED  BY <1>1, <2>1, <2>2, SwitchFound
<1>4. ~Excused'
  BY <1>2, <1>3 DEF Excused, Clearing, Retrying, Spoiled
<1>5. Log = s \o t /\ s \in Seq(Records) /\ t \in Seq(Records) /\ t # << >> /\ ~clearFailed
  BY <1>1, LogNow, SwitchFound DEF LInv, Excused
<1>6. Log' = t
  <2>1. InOrder(flash', d, s_plog_next_seq')
    BY <1>2, <1>5, SwitchBankOrder DEF LInv, OrderInv
  <2>2. flash' \in [Banks -> Bank]
    BY SwitchBankTypes DEF LInv, OInv, IInv, TInv, TypeOK, Bank
  <2>3. ASSUME NEW fl, fl = flash', NEW c, c = d  PROVE LogOf(fl) = Readable(fl[OtherBank(c)]) \o Readable(fl[c])
    BY <1>1, <2>1, <2>2, <2>3, LogJoined
  <2>4. Log' = Readable(flash'[a]) \o Readable(flash'[d])
    BY <1>1, <2>3, LogIsLogOf
  <2>5. Log' = t \o << >>
    BY <1>2, <2>4, BlankFound
  <2> HIDE DEF t
  <2> QED  BY <1>5, <2>5
<1> HIDE DEF s, t
<1>7. SubSeq(s, 1, 0) \o t = t
  BY <1>5
<1>8. 0 \in 0..Len(s)
  BY <1>5
<1>9. SubSeq(s, 1, 0) \o t = s \o t \/ Abstract!Reclaims(s \o t, SubSeq(s, 1, 0) \o t)
  BY <1>5, <1>8, BlockGone
<1> QED  BY <1>4, <1>5, <1>6, <1>7, <1>9

(* A programmed unit stores the record, or nothing yet. *)
LEMMA ProgramLog ==
  ASSUME LInv, ~Excused, Program
  PROVE  \/ Excused' /\ Log' = Log
         \/ ~Excused' /\ (Log' = Log \/ Abstract!Stores(Log, Log'))
<1> SUFFICES ASSUME NEW a, a = s_plog_active_base, NEW r, r = writer.rec, NEW at, at = writer.at,
                    NEW e, e = s_plog_write_offset
             PROVE  \/ Excused' /\ Log' = Log
                    \/ ~Excused' /\ (Log' = Log \/ Abstract!Stores(Log, Log'))
  OBVIOUS
<1> DEFINE d == OtherBank(a)
           s == Readable(flash[d])
           t == Readable(flash[a])
           t2 == Readable(flash'[a])
<1>1. /\ a \in Banks /\ d \in Banks /\ d # a /\ flash \in [Banks -> Bank]
      /\ writer.op = "program" /\ s_plog_active_base' = a /\ clearFailed' = clearFailed
      /\ ~clearFailed /\ e \in 0..BankSize
  BY FlashTypes DEF LInv, OInv, IInv, Program, Excused
<1>2. /\ Programmed(flash[a], flash'[a], e, r, at) /\ flash'[d] = flash[d]
      /\ r \in Records
  BY <1>1, ProgramLonger, ProgramEffect DEF LInv
<1>3. r.size \in 2..BankSize
  BY <1>2, SizesPositive DEF Records
<1>4. Log = s \o t /\ s \in Seq(Records) /\ t \in Seq(Records)
  BY <1>1, LogNow DEF LInv
<1>5. Log' = s \o t2 /\ InOrder(flash', a, s_plog_next_seq')
  <2>1. InOrder(flash', a, s_plog_next_seq')
    BY <1>1, ProgramOrder DEF LInv, OrderInv
  <2>2. flash' \in [Banks -> Bank]
    BY ProgramTypes DEF LInv, OInv, IInv, TInv, TypeOK, Bank
  <2>3. ASSUME NEW fl, fl = flash'  PROVE LogOf(fl) = Readable(fl[d]) \o Readable(fl[a])
    BY <1>1, <2>1, <2>2, <2>3, LogJoined
  <2> QED  BY <1>2, <2>1, <2>3, LogIsLogOf
<1>6. /\ writer.retry = FALSE
      /\ writer'.op = "idle" \/ (writer'.op = "program" /\ writer'.retry = FALSE)
      /\ at + 1 # r.size => s_plog_write_offset' = e
      /\ at + 1 = r.size => s_plog_write_offset' = e + r.size
  <2>1. writer \in [op : {"program", "switch"}, rec : Records, at : Offsets, retry : BOOLEAN]
    BY <1>1 DEF LInv, OInv, IInv, TInv, TypeOK
  <2>2. writer.retry = FALSE
    BY <1>1, <2>1 DEF Excused, Retrying
  <2>3. CASE at + 1 = r.size
    BY <2>2, <2>3 DEF Program, Idle
  <2>4. CASE at + 1 # r.size
    <3>1. writer' = [writer EXCEPT !.at = at + 1] /\ s_plog_write_offset' = e
      BY <2>4 DEF Program
    <3> QED  BY <1>1, <2>1, <2>2, <2>4, <3>1
  <2> QED  BY <2>3, <2>4
<1>7. Excused' <=> s_plog_write_offset' > 0 /\ t2 = << >>
  BY <1>1, <1>6 DEF Excused, Clearing, Retrying, Spoiled
<1>8. ~(e > 0 /\ t = << >>)
  BY DEF Excused, Spoiled
<1>9. CASE SameAs(flash[a], flash'[a])
  <2>1. t2 = t
    BY <1>9 DEF SameAs
  <2> QED  BY <1>4, <1>5, <2>1
<1>10. CASE Longer(flash[a], flash'[a], <<r>>)
  <2>1. t2 = t \o <<r>>
    BY <1>10 DEF Longer
  <2>2. Rising(s \o t2)
    <3>1. Rising(s) /\ Rising(t2) /\ \A x \in SeqsOf(s), y \in SeqsOf(t2) : x < y
      BY <1>1, <1>2, <1>5 DEF InOrder, Ordered, OlderThan, Seqs
    <3> HIDE DEF s, t, t2
    <3>2. t2 \in Seq(Records)
      BY <1>2, <1>4, <2>1
    <3> QED  BY <1>4, <3>1, <3>2, ConcatRising
  <2> HIDE DEF s, t, t2
  <2>3. t2 # << >>
    BY <1>2, <1>4, <2>1
  <2>4. s \o t2 = (s \o t) \o <<r>> /\ s \o t \in Seq(Records)
    BY <1>2, <1>4, <2>1
  <2>5. Abstract!Stores(s \o t, (s \o t) \o <<r>>)
    <3>1. Rising((s \o t) \o <<r>>)
      BY <2>2, <2>4
    <3> DEFINE all == s \o t
    <3>2. all \in Seq(Records) /\ Rising(all \o <<r>>)
      BY <2>4, <3>1
    <3> HIDE DEF all
    <3>3. Abstract!Stores(all, all \o <<r>>)
      BY <1>2, <3>2, StoredBehind
    <3> QED  BY <3>3 DEF all
  <2> QED  BY <1>4, <1>5, <1>7, <2>3, <2>4, <2>5
<1> QED  BY <1>2, <1>9, <1>10 DEF Programmed

(* An error of programming, and a clear, are excused. *)
LEMMA ExcuseLog ==
  ASSUME LInv, ~Excused, ProgramFails \/ BeginClear
  PROVE  Excused' /\ Log' = Log
<1>1. CASE BeginClear
  <2>1. flash' = flash /\ writer'.op = "clear0"
    BY <1>1 DEF BeginClear
  <2> QED  BY <2>1, LogIsLogOf DEF Excused, Clearing
<1>2. CASE ProgramFails
  <2> DEFINE a == s_plog_active_base
             d == OtherBank(a)
  <2>1. /\ a \in Banks /\ d \in Banks /\ flash \in [Banks -> Bank] /\ writer.op = "program"
        /\ s_plog_active_base' = a /\ ~clearFailed /\ clearFailed' = clearFailed
    BY <1>2, FlashTypes DEF LInv, OInv, IInv, ProgramFails, state, Excused
  <2>2. Readable(flash'[a]) = Readable(flash[a]) /\ flash'[d] = flash[d]
    BY <1>2, <2>1, FailLonger DEF LInv, SameAs
  <2>3. Log' = Readable(flash'[d]) \o Readable(flash'[a])
    <3>1. InOrder(flash', a, s_plog_next_seq')
      BY <1>2, <2>1, ProgramFailsOrder DEF LInv, OrderInv
    <3>2. flash' \in [Banks -> Bank]
      BY <1>2, NextTypes DEF LInv, OInv, IInv, TInv, TypeOK, Bank, Next
    <3>3. ASSUME NEW fl, fl = flash'  PROVE LogOf(fl) = Readable(fl[d]) \o Readable(fl[a])
      BY <2>1, <3>1, <3>2, <3>3, LogJoined
    <3> QED  BY <3>3, LogIsLogOf
  <2>4. Log' = Log
    BY <2>1, <2>2, <2>3, LogNow DEF LInv
  <2>5. writer'.op = "switch" /\ writer'.retry
    <3>1. writer \in [op : {"program", "switch"}, rec : Records, at : Offsets, retry : BOOLEAN]
      BY <2>1 DEF LInv, OInv, IInv, TInv, TypeOK
    <3>2. ~writer.retry
      BY <2>1 DEF Excused, Retrying
    <3>3. writer' = [writer EXCEPT !.op = "switch", !.at = 0, !.retry = TRUE]
      BY <1>2, <3>2 DEF ProgramFails
    <3> QED  BY <3>1, <3>3
  <2> QED  BY <2>4, <2>5 DEF Excused, Retrying
<1> QED  BY <1>1, <1>2

(* An erase that fails leaves the newest records. *)
LEMMA EraseFailsLog ==
  ASSUME LInv, ~Excused, EraseFails
  PROVE  ~Excused' /\ (Log' = Log \/ Abstract!Reclaims(Log, Log'))
<1>1. writer.op = "switch" /\ ~clearFailed /\ ~Clearing
  BY DEF EraseFails, Erasing, Excused
<1>2. Log' = Log \/ Abstract!Reclaims(Log, Log')
  BY <1>1, SwitchFound, TornLog DEF EraseFails
<1>3. /\ s_plog_active_base' = s_plog_active_base /\ s_plog_write_offset' = s_plog_write_offset
      /\ writer'.op = "idle" /\ ~clearFailed'
  BY <1>1 DEF EraseFails, state, Idle
<1>4. flash'[s_plog_active_base] = flash[s_plog_active_base]
  <2>1. Erased # s_plog_active_base /\ s_plog_active_base \in Banks
    BY <1>1, FlashTypes DEF LInv, OInv, IInv, Erased
  <2> QED  BY <2>1, TornTypes DEF LInv, OInv, IInv, EraseFails
<1> QED  BY <1>2, <1>3, <1>4 DEF Excused, Clearing, Retrying, Spoiled

(* After a reset what is appended can be read. *)
LEMMA ResetUnspoilt ==
  ASSUME LInv, ~clearFailed, Reset  PROVE ~Excused'
<1> SUFFICES ASSUME NEW fl, fl = flash', NEW c, c = s_plog_active_base'
             PROVE  ~(s_plog_write_offset' > 0 /\ Readable(fl[c]) = << >>)
  BY DEF Reset, Excused, Clearing, Retrying, Spoiled, Idle
<1>1. c = Newer(fl) /\ s_plog_write_offset' = IF LastSeq(fl[c]) = 0 THEN 0 ELSE EndOfReadable(fl[c])
  BY DEF Reset, InitState
<1>2. Readable(fl[c]) = << >> => LastSeq(fl[c]) = 0
  BY DEF LastSeq, LastOf
<1> QED  BY <1>1, <1>2

(* A reset leaves the newest records. *)
LEMMA ResetLog ==
  ASSUME LInv, ~Excused, Reset
  PROVE  ~Excused' /\ (Log' = Log \/ Abstract!Reclaims(Log, Log'))
<1>1. ~clearFailed /\ ~Clearing /\ ~clearFailed' /\ writer'.op = "idle"
  BY DEF Reset, Excused, Idle
<1>2. CASE Erasing
  <2>1. writer.op = "switch"
    BY <1>1, <1>2 DEF Erasing
  <2> QED  BY <1>1, <1>2, <2>1, SwitchFound, TornLog, ResetUnspoilt DEF Reset
<1>3. CASE ~Erasing
  <2>1. flash' = flash
    BY <1>3 DEF Reset
  <2>2. Log' = Log
    BY <2>1, LogIsLogOf
  <2> QED  BY <1>1, <2>2, ResetUnspoilt
<1> QED  BY <1>2, <1>3

-------------------------------------------------------------------------------
(* Every step of the code is one that RecordLog allows. *)
LEMMA NextRefines ==
  LInv /\ [Next]_vars => [Abstract!LogNext]_<<Log, clearFailed \/ Clearing \/ Retrying \/ Spoiled>>
<1> SUFFICES ASSUME LInv, [Next]_vars
             PROVE  \/ Abstract!LogNext
                    \/ /\ Log' = Log
                       /\ Excused' = Excused
  BY DEF Excused
<1>1. CASE Excused
  BY <1>1 DEF Abstract!LogNext, Abstract!Lose, Excused
<1>2. CASE ~Excused
  <2>1. ASSUME ~Excused', Log' = Log \/ Abstract!Reclaims(Log, Log') \/ Abstract!Stores(Log, Log')
        PROVE  Abstract!LogNext \/ (Log' = Log /\ Excused' = Excused)
    <3>1. Excused' = Excused
      <4>1. Excused = FALSE
        BY <1>2 DEF Excused
      <4>2. Excused' = FALSE
        BY <2>1 DEF Excused
      <4> QED  BY <4>1, <4>2
    <3>2. (clearFailed \/ Clearing \/ Retrying \/ Spoiled)' = (clearFailed \/ Clearing \/ Retrying \/ Spoiled)
      BY <3>1 DEF Excused
    <3> QED  BY <2>1, <3>1, <3>2 DEF Abstract!LogNext, Abstract!Store, Abstract!Reclaim
  <2>2. ASSUME Excused', Log' = Log
        PROVE  Abstract!LogNext
    <3>1. (clearFailed \/ Clearing \/ Retrying \/ Spoiled)' = TRUE
      BY <2>2 DEF Excused
    <3> QED  BY <2>2, <3>1 DEF Abstract!LogNext, Abstract!Excuse
  <2>3. CASE \/ \E size \in Sizes : LogPrint(size)
             \/ ReplayScan0 \/ ReplayScan1 \/ ReplayRecord \/ UNCHANGED vars
    BY <1>2, <2>1, <2>3, QuietLog
  <2>4. CASE SwitchBank
    BY <1>2, <2>1, <2>4, SwitchBankLog
  <2>5. CASE Program
    BY <1>2, <2>1, <2>2, <2>5, ProgramLog
  <2>6. CASE ProgramFails \/ BeginClear
    BY <1>2, <2>2, <2>6, ExcuseLog
  <2>7. CASE EraseFails
    BY <1>2, <2>1, <2>7, EraseFailsLog
  <2>8. CASE Reset
    BY <1>2, <2>1, <2>8, ResetLog
  <2>9. CASE ClearBank
    BY <1>2, <2>9 DEF ClearBank, Excused
  <2> QED
    BY <2>3, <2>4, <2>5, <2>6, <2>7, <2>8, <2>9 DEF Next
<1> QED  BY <1>1, <1>2

(* The log is empty at first. *)
LEMMA FirstLog == Init => Abstract!LogInit
<1> SUFFICES ASSUME Init PROVE Abstract!LogInit
  OBVIOUS
<1>1. flash[0] = BlankBank /\ flash[1] = BlankBank
  BY DEF Init, Banks
<1>2. Log = << >>
  <2>1. Log = << >> \o << >>
    BY <1>1, BlankFound DEF Log
  <2> QED  BY <2>1
<1>3. (clearFailed \/ Clearing \/ Retrying \/ Spoiled) = FALSE
  <2>1. ~clearFailed /\ ~Clearing /\ ~Retrying /\ ~Spoiled
    BY DEF Init, Idle, Clearing, Retrying, Spoiled
  <2> QED  BY <2>1
<1> QED  BY <1>2, <1>3 DEF Abstract!LogInit

(* What a reader finds is the log that RecordLog promises, whatever the sizes  *)
(* of banks and records, the number of records, and the errors and resets.     *)
THEOREM RefinementTheorem == Spec => ImplementsRecordLog
<1>1. Init => LInv
  BY FirstTypes, FirstKept, FirstOrder, FirstFull DEF LInv, OInv, IInv
<1>2. LInv /\ [Next]_vars => LInv'
  BY NextOrder, NextFull DEF LInv
<1>3. Init => Abstract!LogInit
  BY FirstLog
<1>4. LInv /\ [Next]_vars => [Abstract!LogNext]_<<Log, clearFailed \/ Clearing \/ Retrying \/ Spoiled>>
  BY NextRefines
<1> QED
  BY <1>1, <1>2, <1>3, <1>4, PTL DEF Spec, ImplementsRecordLog, Abstract!LogSpec
===============================================================================
