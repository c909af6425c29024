------------------------------ MODULE RecordLog ------------------------------
(* What the persistent log of sys_log.c promises to whoever reads it after a   *)
(* restart: complete records in the order they were written.  Space is         *)
(* reclaimed from the older ones, a reset in the middle of it may leave the    *)
(* oldest of these, but the newest record stays.  Nothing is promised while a  *)
(* clear has begun and not succeeded, while a record is written again after    *)
(* the flash reported an error, and while records go where none can be read.   *)
EXTENDS Naturals, Sequences

VARIABLES
  log,        \* the records a reader finds, oldest first
  excused     \* a clear has begun and not succeeded, a flash error is retried, or
              \* what is appended cannot be read

Ascending(s) == \A i, j \in DOMAIN s : i < j => s[i].seq < s[j].seq

\* A record becomes readable behind all others.
Stores(s, t) == t # << >> /\ t = Append(s, t[Len(t)]) /\ Ascending(t)

\* Records that stood next to each other are gone, but not the newest one.
Reclaims(s, t) ==
  \E i, j \in 0..Len(s) - 1 : i < j /\ t = SubSeq(s, 1, i) \o SubSeq(s, j + 1, Len(s))

LogInit == log = << >> /\ excused = FALSE

Store == Stores(log, log') /\ UNCHANGED excused

Reclaim == Reclaims(log, log') /\ UNCHANGED excused

Excuse == excused' = TRUE /\ UNCHANGED log

Lose == excused

LogNext == Lose \/ Excuse \/ Store \/ Reclaim

LogSpec == LogInit /\ [][LogNext]_<<log, excused>>
==============================================================================
