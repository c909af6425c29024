------------------------------ MODULE CommProofs ------------------------------
(***************************************************************************)
(* Proofs about Comm, for queues of any depth and any number of frames.    *)
(*                                                                         *)
(* TypeOK is not inductive.  A frame is queued under the number it began   *)
(* with, so a frame under way has one (Numbered); and a task takes one     *)
(* frame off the number it still has to send each time it gives the port   *)
(* back, so it never holds the port, or waits for it, with nothing to send *)
(* (Sending).                                                              *)
(*                                                                         *)
(* That nothing is queued from before STANDBY needs that the queue is      *)
(* empty while the channel is closed, and that every frame that may still  *)
(* be queued once it is open is one the channel can see (Fresh).           *)
(*                                                                         *)
(* That a handler reads what was announced needs that a buffer a message   *)
(* points to (Held) stays as it is until as many frames have begun as the  *)
(* channel has buffers: between its frames the channel does not write, and *)
(* the first frame after the message goes into the other buffer.           *)
(***************************************************************************)
EXTENDS Comm, TLAPS

Numbered == \A ch \in Channels : coming[ch] # "no" => begun[ch] # 0

Sending ==
  \A t \in Tasks :
    pc[t] \in {"wait port", "port"} \/ (t \in Channels /\ pc[t] \in {"wait log", "log"}) => left[t] # 0

TInv == TypeOK /\ Numbered /\ Sending

Fresh ==
  /\ ctl = "standby" => queue["RT"] = << >>
  /\ ctl \in {"resuming", "active"} =>
       /\ \A i \in DOMAIN queue["RT"] : queue["RT"][i].n >= opened
       /\ opened <= begun["RT"] + 1
       /\ coming["RT"] # "no" => opened <= begun["RT"]

Inv == TInv /\ Fresh

(* The parts of the type invariant that the interrupts, the tasks and the control
   task disturb. *)
RxOK ==
  /\ active \in [Channels -> AllBuffers] /\ \A ch \in Channels : active[ch] \in Buffers(ch)
  /\ DOMAIN ram = AllBuffers /\ \A ch \in Channels : \A b \in Buffers(ch) : ram[b] \in 0..MaxFrames[ch]
  /\ DOMAIN begun = Channels /\ \A ch \in Channels : begun[ch] \in 0..MaxFrames[ch]
  /\ coming \in [Channels -> {"no", "whole", "cut"}]
  /\ DOMAIN queue = Channels
  /\ \A ch \in Channels : queue[ch] \in Seq(Message(ch)) /\ Len(queue[ch]) <= Depth[ch]

CurOK ==
  /\ DOMAIN cur = Channels
  /\ \A ch \in Channels :
       cur[ch] \in IF pc[ch] \in {"check", "handle"} THEN Message(ch) ELSE {Done}

LeftOK == DOMAIN left = Tasks /\ \A t \in Tasks : left[t] \in Nat

Places == {"idle", "check", "handle", "wait port", "port", "wait log", "log"}

LockOK ==
  /\ pc \in [Tasks -> Places]
  /\ holder \in [Locks -> Tasks \cup {None}]
  /\ \A t \in Tasks, l \in Locks : holder[l] = t <=> pc[t] = l

CtlOK ==
  /\ mode \in {"STANDBY", "other"}
  /\ ctl \in {"active", "pausing", "standby", "resuming"}
  /\ opened \in 0..MaxFrames["RT"] + 1

LEMMA TypeParts == TypeOK <=> RxOK /\ CurOK /\ LeftOK /\ LockOK /\ CtlOK
BY DEF TypeOK, RxOK, CurOK, LeftOK, LockOK, CtlOK, Places

LEMMA TypePartsNext == RxOK' /\ CurOK' /\ LeftOK' /\ LockOK' /\ CtlOK' => TypeOK'
BY DEF TypeOK, RxOK, CurOK, LeftOK, LockOK, CtlOK, Places

LEMMA Sets ==
  /\ Channels \subseteq Tasks /\ {"imu", "monitor"} \subseteq Tasks
  /\ Locks = {"port", "log"} /\ Channels = {"RT", "NRT"}
  /\ \A ch \in Channels : MaxFrames[ch] \in Nat /\ Depth[ch] \in Nat \ {0}
  /\ \A ch \in Channels : Buffers(ch) \subseteq AllBuffers
  /\ \A c, d \in Channels : c # d => Buffers(c) \cap Buffers(d) = {}
BY CommAssumption DEF Channels, Tasks, Locks, Buffers, AllBuffers

-------------------------------------------------------------------------------
(* The frame the active buffer takes in goes into a buffer of its channel. *)
LEMMA RamOK ==
  ASSUME RxOK, NEW ch \in Channels, NEW n \in 0..MaxFrames[ch]
  PROVE  LET new == [ram EXCEPT ![active[ch]] = n]
         IN  /\ DOMAIN new = AllBuffers
             /\ \A c \in Channels : \A b \in Buffers(c) : new[b] \in 0..MaxFrames[c]
<1> DEFINE new == [ram EXCEPT ![active[ch]] = n]
<1>1. DOMAIN new = AllBuffers
  BY DEF RxOK
<1>2. ASSUME NEW c \in Channels, NEW b \in Buffers(c) PROVE new[b] \in 0..MaxFrames[c]
  <2>1. CASE c = ch
    BY <1>2, <2>1, Sets DEF RxOK
  <2>2. CASE c # ch
    <3>1. b # active[ch] /\ b \in AllBuffers
      BY <1>2, <2>2, Sets DEF RxOK
    <3> QED
      BY <1>2, <3>1 DEF RxOK
  <2> QED
    BY <2>1, <2>2
<1> QED
  BY <1>1, <1>2

LEMMA FrameBeginsRx ==
  ASSUME TInv, NEW ch \in Channels, FrameBegins(ch)
  PROVE  RxOK' /\ Numbered'
<1>1. RxOK
  BY TypeParts DEF TInv
<1>2. begun' = [begun EXCEPT ![ch] = begun[ch] + 1] /\ begun[ch] \in Nat /\ begun[ch] < MaxFrames[ch]
  BY <1>1, Sets DEF FrameBegins, RxOK
<1>3. \A c \in Channels : begun'[c] \in 0..MaxFrames[c]
  BY <1>1, <1>2, Sets DEF RxOK
<1>4. DOMAIN ram' = AllBuffers /\ \A c \in Channels : \A b \in Buffers(c) : ram'[b] \in 0..MaxFrames[c]
  <2>1. Torn \in 0..MaxFrames[ch]
    BY Sets DEF Torn
  <2>2. CASE Receives(ch)
    BY <1>1, <2>1, <2>2, RamOK DEF FrameBegins
  <2>3. CASE ~Receives(ch)
    BY <1>1, <2>3 DEF FrameBegins, RxOK
  <2> QED
    BY <2>2, <2>3
<1>5. coming' \in [Channels -> {"no", "whole", "cut"}]
  BY <1>1 DEF FrameBegins, RxOK
<1>6. RxOK'
  BY <1>1, <1>2, <1>3, <1>4, <1>5 DEF FrameBegins, RxOK
<1>7. Numbered'
  BY <1>1, <1>2 DEF TInv, Numbered, FrameBegins, RxOK
<1> QED
  BY <1>6, <1>7

LEMMA NextBufOK == ASSUME NEW ch \in Channels PROVE NextBuf(ch) \in Buffers(ch)
BY DEF NextBuf, Buffers, Channels

LEMMA FrameEndsRx ==
  ASSUME TInv, NEW ch \in Channels, FrameEnds(ch)
  PROVE  RxOK' /\ Numbered'
<1>1. RxOK
  BY TypeParts DEF TInv
<1>2. coming' = [coming EXCEPT ![ch] = "no"] /\ begun' = begun /\ coming[ch] # "no"
  BY DEF FrameEnds
<1>3. begun[ch] \in 1..MaxFrames[ch]
  BY <1>1, <1>2, Sets DEF TInv, Numbered, RxOK
<1>4. coming' \in [Channels -> {"no", "whole", "cut"}]
  BY <1>1, <1>2 DEF RxOK
<1>5. Numbered'
  BY <1>1, <1>2 DEF TInv, Numbered, RxOK
<1>6. CASE UNCHANGED <<ram, queue, active>>
  BY <1>1, <1>2, <1>4, <1>5, <1>6 DEF RxOK
<1>7. CASE Receives(ch) /\ active' = [active EXCEPT ![ch] = NextBuf(ch)]
           /\ ram' = [ram EXCEPT ![active[ch]] = IF coming[ch] = "whole" THEN begun[ch] ELSE Torn]
           /\ queue' = [queue EXCEPT ![ch] = Queued(ch, [buf |-> active[ch], n |-> begun[ch]])]
  <2>1. DOMAIN ram' = AllBuffers /\ \A c \in Channels : \A b \in Buffers(c) : ram'[b] \in 0..MaxFrames[c]
    <3>1. (IF coming[ch] = "whole" THEN begun[ch] ELSE Torn) \in 0..MaxFrames[ch]
      BY <1>3, Sets DEF Torn
    <3> QED
      BY <1>1, <1>7, <3>1, RamOK
  <2>2. active' \in [Channels -> AllBuffers] /\ \A c \in Channels : active'[c] \in Buffers(c)
    BY <1>1, <1>7, NextBufOK, Sets DEF RxOK
  <2>3. [buf |-> active[ch], n |-> begun[ch]] \in Message(ch)
    BY <1>1, <1>3 DEF RxOK, Message
  <2>4. queue'[ch] \in Seq(Message(ch)) /\ Len(queue'[ch]) <= Depth[ch]
    BY <1>1, <1>7, <2>3, Sets DEF RxOK, Queued
  <2>5. DOMAIN queue' = Channels /\ \A c \in Channels \ {ch} : queue'[c] = queue[c]
    BY <1>1, <1>7 DEF RxOK
  <2>6. \A c \in Channels : queue'[c] \in Seq(Message(c)) /\ Len(queue'[c]) <= Depth[c]
    BY <1>1, <2>4, <2>5 DEF RxOK
  <2> QED
    BY <1>1, <1>2, <1>4, <1>5, <2>1, <2>2, <2>5, <2>6 DEF RxOK
<1> QED
  BY <1>6, <1>7 DEF FrameEnds

-------------------------------------------------------------------------------
(* A task leaves place p for place q: it gets the mutex q names, and gives back
   the one p names. *)
LEMMA LockMove ==
  ASSUME LockOK, NEW t \in Tasks,
         NEW q \in Places,
         pc' = [pc EXCEPT ![t] = q],
         \/ pc[t] \notin Locks /\ q \notin Locks /\ holder' = holder
         \/ pc[t] \notin Locks /\ q \in Locks /\ holder[q] = None /\ holder' = [holder EXCEPT ![q] = t]
         \/ pc[t] \in Locks /\ q \notin Locks /\ holder' = [holder EXCEPT ![pc[t]] = None]
  PROVE  LockOK'
<1> USE CommAssumption
<1>1. pc' \in [Tasks -> Places]
  BY DEF LockOK
<1>2. holder' \in [Locks -> Tasks \cup {None}]
  BY DEF LockOK
<1>3. ASSUME NEW u \in Tasks, NEW l \in Locks PROVE holder'[l] = u <=> pc'[u] = l
  <2>1. pc'[t] = q /\ (u # t => pc'[u] = pc[u])
    BY DEF LockOK
  <2>2. CASE pc[t] \notin Locks /\ q \notin Locks /\ holder' = holder
    BY <2>1, <2>2 DEF LockOK
  <2>3. CASE pc[t] \notin Locks /\ q \in Locks /\ holder[q] = None /\ holder' = [holder EXCEPT ![q] = t]
    <3>1. holder'[q] = t /\ (l # q => holder'[l] = holder[l])
      BY <2>3 DEF LockOK
    <3>2. holder[l] = u <=> pc[u] = l
      BY DEF LockOK
    <3>3. holder[q] # u
      BY <2>3
    <3>4. holder[l] = t => pc[t] = l
      BY DEF LockOK
    <3> QED
      BY <2>1, <2>3, <3>1, <3>2, <3>3, <3>4
  <2>4. CASE pc[t] \in Locks /\ q \notin Locks /\ holder' = [holder EXCEPT ![pc[t]] = None]
    <3>1. holder'[pc[t]] = None /\ (l # pc[t] => holder'[l] = holder[l])
      BY <2>4 DEF LockOK
    <3>2. (holder[l] = u <=> pc[u] = l) /\ (holder[l] = t <=> pc[t] = l) /\ None # u
      BY DEF LockOK
    <3> QED
      BY <2>1, <2>4, <3>1, <3>2
  <2> QED
    BY <2>2, <2>3, <2>4
<1> QED
  BY <1>1, <1>2, <1>3 DEF LockOK

(* A task that is not looking at a frame goes on to do something else. *)
LEMMA CurStays ==
  ASSUME CurOK, LockOK, NEW t \in Tasks, NEW q \in {"idle", "wait port", "port", "log"},
         pc[t] \notin {"check", "handle"}, pc' = [pc EXCEPT ![t] = q], cur' = cur
  PROVE  CurOK'
<1>1. \A ch \in Channels : Message(ch)' = Message(ch) /\ ch \in Tasks
  BY Sets DEF Message
<1>2. DOMAIN pc = Tasks
  BY DEF LockOK
<1>3. ASSUME NEW ch \in Channels
      PROVE  cur[ch] \in IF pc'[ch] \in {"check", "handle"} THEN Message(ch) ELSE {Done}
  <2>1. CASE ch = t
    BY <1>2, <2>1 DEF CurOK
  <2>2. CASE ch # t
    BY <1>1, <1>2, <2>2 DEF CurOK
  <2> QED
    BY <2>1, <2>2
<1> QED
  BY <1>1, <1>3 DEF CurOK

(* A communication task gets a frame, goes on with it, or is done with it. *)
LEMMA CurMoves ==
  ASSUME CurOK, LockOK, NEW ch \in Channels, NEW q \in Places, pc' = [pc EXCEPT ![ch] = q],
         DOMAIN cur' = DOMAIN cur, \A d \in Channels \ {ch} : cur'[d] = cur[d],
         \/ q \in {"check", "handle"} /\ cur'[ch] \in Message(ch)
         \/ q \notin {"check", "handle"} /\ cur'[ch] = Done
  PROVE  CurOK'
<1>0. cur'[ch] \in IF q \in {"check", "handle"} THEN Message(ch) ELSE {Done}
  OBVIOUS
<1>1. DOMAIN pc = Tasks /\ DOMAIN cur = Channels /\ Channels \subseteq Tasks
  BY Sets DEF LockOK, CurOK
<1>2. pc'[ch] = q /\ DOMAIN cur' = Channels
  BY <1>1
<1>3. ASSUME NEW d \in Channels, d # ch PROVE pc'[d] = pc[d] /\ cur'[d] = cur[d]
  BY <1>1, <1>3
<1>4. ASSUME NEW d \in Channels
      PROVE  cur'[d] \in IF pc'[d] \in {"check", "handle"} THEN Message(d) ELSE {Done}
  <2>1. CASE d = ch
    BY <1>0, <1>2, <2>1
  <2>2. CASE d # ch
    BY <1>3, <2>2 DEF CurOK
  <2> QED
    BY <2>1, <2>2
<1> QED
  BY <1>2, <1>4 DEF CurOK

LEMMA RepliesOK ==
  \A ch \in Channels : \A k \in Kinds[ch] : Replies[k] \in Nat /\ (k = "clear" => Replies[k] # 0)
BY CommAssumption DEF Replies

LEMMA PlacesApart ==
  /\ {"idle", "check", "handle", "wait port", "wait log"} \cap Locks = {} /\ {"port", "log"} = Locks
  /\ {"idle", "check", "handle", "wait port", "port", "wait log", "log"} = Places
  /\ {"idle", "wait port", "port", "wait log", "log"} \cap {"check", "handle"} = {}
BY DEF Locks, Places

LEMMA TakeTypes == ASSUME TInv, NEW ch \in Channels, Take(ch) PROVE TInv'
<1> USE DEF TInv
<1>1. RxOK /\ CurOK /\ LeftOK /\ LockOK /\ CtlOK /\ ch \in Tasks
  BY TypeParts, Sets
<1>2. queue[ch] # << >> /\ pc[ch] = "idle"
  BY DEF Take, Ready
<1>3. Head(queue[ch]) \in Message(ch) /\ Tail(queue[ch]) \in Seq(Message(ch)) /\ Len(Tail(queue[ch])) <= Depth[ch]
  BY <1>1, <1>2, Sets DEF RxOK
<1>4. RxOK'
  BY <1>1, <1>3 DEF Take, RxOK
<1>5. pc' = [pc EXCEPT ![ch] = "check"] /\ DOMAIN pc = Tasks
  BY <1>1 DEF Take, Goto, LockOK
<1>6. CurOK'
  <2>1. cur'[ch] = Head(queue[ch]) /\ DOMAIN cur' = DOMAIN cur /\ \A d \in Channels \ {ch} : cur'[d] = cur[d]
    BY <1>1 DEF Take, CurOK
  <2> QED
    BY <1>1, <1>3, <1>5, <2>1, CurMoves, PlacesApart
<1>7. LockOK'
  BY <1>1, <1>2, <1>5, LockMove, PlacesApart DEF Take
<1>8. LeftOK' /\ CtlOK'
  BY <1>1 DEF Take, ctlVars, LeftOK, CtlOK
<1>9. Numbered' /\ Sending'
  BY <1>1, <1>5 DEF Take, Numbered, Sending
<1> QED
  BY <1>4, <1>6, <1>7, <1>8, <1>9, TypePartsNext

LEMMA CheckTypes == ASSUME TInv, NEW ch \in Channels, Accept(ch) \/ Reject(ch) PROVE TInv'
<1> USE DEF TInv
<1>1. RxOK /\ CurOK /\ LeftOK /\ LockOK /\ CtlOK /\ ch \in Tasks
  BY TypeParts, Sets
<1>2. PICK q \in {"handle", "idle"} :
        /\ pc' = [pc EXCEPT ![ch] = q] /\ pc[ch] = "check"
        /\ cur' = IF q = "handle" THEN cur ELSE [cur EXCEPT ![ch] = Done]
        /\ UNCHANGED <<rxVars, left, holder, ctlVars>>
  BY DEF Accept, Reject, Goto
<1>3. DOMAIN pc = Tasks
  BY <1>1 DEF LockOK
<1>4. CurOK'
  <2>1. cur[ch] \in Message(ch)
    BY <1>1, <1>2 DEF CurOK
  <2>2. CASE q = "handle"
    <3>1. q \in Places /\ q \in {"check", "handle"} /\ cur' = cur
      BY <1>2, <2>2, PlacesApart
    <3> QED
      BY <1>1, <1>2, <2>1, <3>1, CurMoves
  <2>3. CASE q = "idle"
    <3>1. cur'[ch] = Done /\ DOMAIN cur' = DOMAIN cur /\ \A d \in Channels \ {ch} : cur'[d] = cur[d]
      BY <1>1, <1>2, <2>3 DEF CurOK
    <3> QED
      BY <1>1, <1>2, <2>3, <3>1, CurMoves, PlacesApart
  <2> QED
    BY <2>2, <2>3
<1>5. LockOK'
  BY <1>1, <1>2, LockMove, PlacesApart
<1>6. RxOK' /\ LeftOK' /\ CtlOK'
  BY <1>1, <1>2 DEF rxVars, ctlVars, RxOK, LeftOK, CtlOK
<1>7. Numbered' /\ Sending'
  BY <1>1, <1>2, <1>3 DEF Numbered, Sending, rxVars
<1> QED
  BY <1>4, <1>5, <1>6, <1>7, TypePartsNext

LEMMA HandleTypes == ASSUME TInv, NEW ch \in Channels, Handle(ch) PROVE TInv'
<1> USE DEF TInv
<1>1. RxOK /\ CurOK /\ LeftOK /\ LockOK /\ CtlOK /\ ch \in Tasks
  BY TypeParts, Sets
<1>2. PICK k \in Kinds[ch] :
        /\ left' = [left EXCEPT ![ch] = Replies[k]]
        /\ pc' = [pc EXCEPT ![ch] = CASE k = "clear"     -> "wait log"
                                      [] Replies[k] = 0  -> "idle"
                                      [] OTHER           -> "wait port"]
  BY DEF Handle, Goto
<1>3. DOMAIN pc = Tasks /\ DOMAIN left = Tasks
  BY <1>1 DEF LockOK, LeftOK
<1>4. PICK q \in {"wait log", "idle", "wait port"} :
        pc' = [pc EXCEPT ![ch] = q] /\ (Replies[k] = 0 => q = "idle")
  BY <1>2, RepliesOK
<1>5. CurOK'
  <2>1. cur'[ch] = Done /\ DOMAIN cur' = DOMAIN cur /\ \A d \in Channels \ {ch} : cur'[d] = cur[d]
    BY <1>1 DEF Handle, CurOK
  <2> QED
    BY <1>1, <1>4, <2>1, CurMoves, PlacesApart
<1>6. LockOK'
  BY <1>1, <1>4, LockMove, PlacesApart DEF Handle
<1>7. LeftOK'
  BY <1>1, <1>2, RepliesOK DEF LeftOK
<1>8. RxOK' /\ CtlOK'
  BY <1>1 DEF Handle, rxVars, ctlVars, RxOK, CtlOK
<1>9. Numbered' /\ Sending'
  BY <1>1, <1>2, <1>3, <1>4 DEF Handle, Numbered, Sending, rxVars
<1> QED
  BY <1>5, <1>6, <1>7, <1>8, <1>9, TypePartsNext

LEMMA AcquireTypes == ASSUME TInv, NEW t \in Tasks, NEW l \in Locks, Acquire(t, l) PROVE TInv'
<1> USE DEF TInv
<1>1. RxOK /\ CurOK /\ LeftOK /\ LockOK /\ CtlOK
  BY TypeParts
<1>2. /\ pc[t] = IF l = "port" THEN "wait port" ELSE "wait log"
      /\ holder[l] = None /\ holder' = [holder EXCEPT ![l] = t] /\ pc' = [pc EXCEPT ![t] = l]
      /\ UNCHANGED <<rxVars, cur, left, ctlVars>>
  BY DEF Acquire, Wants, Ready, Goto
<1>3. DOMAIN pc = Tasks
  BY <1>1 DEF LockOK
<1>4. CurOK'
  BY <1>1, <1>2, CurStays DEF Locks
<1>5. LockOK'
  BY <1>1, <1>2, LockMove, PlacesApart
<1>6. RxOK' /\ LeftOK' /\ CtlOK'
  BY <1>1, <1>2 DEF rxVars, ctlVars, RxOK, LeftOK, CtlOK
<1>7. Numbered' /\ Sending'
  BY <1>1, <1>2, <1>3, Sets DEF Numbered, Sending, rxVars, Locks
<1> QED
  BY <1>4, <1>5, <1>6, <1>7, TypePartsNext

LEMMA LessOne == \A n \in Nat : (n # 0 => n - 1 \in Nat) /\ (n > 1 => n - 1 # 0)
OBVIOUS

LEMMA SentTypes == ASSUME TInv, NEW t \in Tasks, Sent(t) PROVE TInv'
<1> USE DEF TInv
<1>1. RxOK /\ CurOK /\ LeftOK /\ LockOK /\ CtlOK
  BY TypeParts
<1>2. PICK q \in {"wait port", "idle"} :
        /\ pc[t] = "port" /\ pc' = [pc EXCEPT ![t] = q]
        /\ left' = [left EXCEPT ![t] = left[t] - 1] /\ (q = "wait port" <=> left[t] > 1)
        /\ holder' = [holder EXCEPT !["port"] = None]
        /\ UNCHANGED <<rxVars, cur, ctlVars>>
  BY DEF Sent, Goto
<1>3. DOMAIN pc = Tasks /\ DOMAIN left = Tasks /\ left[t] \in Nat /\ left[t] # 0
  BY <1>1, <1>2 DEF LockOK, LeftOK, Sending
<1>4. CurOK'
  BY <1>1, <1>2, CurStays
<1>5. LockOK'
  BY <1>1, <1>2, LockMove, PlacesApart
<1>6. LeftOK'
  <2>1. left[t] - 1 \in Nat
    BY <1>3, LessOne
  <2>2. \A u \in Tasks \ {t} : left'[u] = left[u]
    BY <1>2, <1>3
  <2>3. left'[t] \in Nat /\ DOMAIN left' = Tasks
    BY <1>2, <1>3, <2>1
  <2> QED
    BY <1>1, <2>2, <2>3 DEF LeftOK
<1>7. RxOK' /\ CtlOK'
  BY <1>1, <1>2 DEF rxVars, ctlVars, RxOK, CtlOK
<1>8. Numbered'
  BY <1>1, <1>2 DEF Numbered, rxVars
<1>9. Sending'
  <2> SUFFICES ASSUME NEW u \in Tasks,
                      pc'[u] \in {"wait port", "port"} \/ (u \in Channels /\ pc'[u] \in {"wait log", "log"})
               PROVE  left'[u] # 0
    BY DEF Sending
  <2>1. CASE u = t
    <3>1. q = "wait port"
      BY <1>2, <1>3, <2>1
    <3>2. left[t] > 1
      BY <1>2, <3>1
    <3>3. left'[u] = left[t] - 1
      BY <1>2, <1>3, <2>1
    <3> QED
      BY <1>3, <3>2, <3>3, LessOne
  <2>2. CASE u # t
    BY <1>2, <1>3, <2>2 DEF Sending
  <2> QED
    BY <2>1, <2>2
<1> QED
  BY <1>4, <1>5, <1>6, <1>7, <1>8, <1>9, TypePartsNext

LEMMA LoggedTypes == ASSUME TInv, NEW t \in Tasks, Logged(t) PROVE TInv'
<1> USE DEF TInv
<1>1. RxOK /\ CurOK /\ LeftOK /\ LockOK /\ CtlOK
  BY TypeParts
<1>2. PICK q \in {"wait port", "idle"} :
        /\ pc[t] = "log" /\ pc' = [pc EXCEPT ![t] = q] /\ (q = "wait port" => t \in Channels)
        /\ holder' = [holder EXCEPT !["log"] = None]
        /\ UNCHANGED <<rxVars, cur, left, ctlVars>>
  BY DEF Logged, Goto
<1>3. DOMAIN pc = Tasks
  BY <1>1 DEF LockOK
<1>4. CurOK'
  BY <1>1, <1>2, CurStays
<1>5. LockOK'
  BY <1>1, <1>2, LockMove, PlacesApart
<1>6. RxOK' /\ LeftOK' /\ CtlOK'
  BY <1>1, <1>2 DEF rxVars, ctlVars, RxOK, LeftOK, CtlOK
<1>7. Numbered' /\ Sending'
  BY <1>1, <1>2, <1>3 DEF Numbered, Sending, rxVars
<1> QED
  BY <1>4, <1>5, <1>6, <1>7, TypePartsNext

LEMMA MonitorImuTypes == ASSUME TInv, Report \/ ImuLogs PROVE TInv'
<1> USE DEF TInv
<1>1. RxOK /\ CurOK /\ LeftOK /\ LockOK /\ CtlOK /\ {"imu", "monitor"} \subseteq Tasks \ Channels
  BY TypeParts DEF Tasks, Channels
<1>2. DOMAIN pc = Tasks /\ DOMAIN left = Tasks
  BY <1>1 DEF LockOK, LeftOK
<1>3. RxOK' /\ CtlOK' /\ Numbered'
  BY <1>1 DEF Report, ImuLogs, rxVars, ctlVars, RxOK, CtlOK, Numbered
<1>4. CASE Report
  <2>1. pc' = [pc EXCEPT !["monitor"] = "wait port"] /\ pc["monitor"] = "idle"
    BY <1>4 DEF Report, Goto
  <2>2. LockOK'
    BY <1>1, <1>4, <2>1, LockMove, PlacesApart DEF Report
  <2>3. CurOK'
    BY <1>1, <1>4, <2>1, CurStays DEF Report
  <2>4. LeftOK' /\ Sending'
    BY <1>1, <1>2, <1>4, <2>1, CommAssumption DEF Report, LeftOK, Sending
  <2> QED
    BY <1>3, <2>2, <2>3, <2>4, TypePartsNext
<1>5. CASE ImuLogs
  <2>1. pc' = [pc EXCEPT !["imu"] = "log"] /\ pc["imu"] = "idle"
    BY <1>5 DEF ImuLogs, Goto
  <2>2. LockOK'
    BY <1>1, <1>5, <2>1, LockMove, PlacesApart DEF ImuLogs
  <2>3. CurOK'
    BY <1>1, <1>5, <2>1, CurStays DEF ImuLogs
  <2>4. LeftOK' /\ Sending'
    BY <1>1, <1>2, <1>5, <2>1 DEF ImuLogs, LeftOK, Sending
  <2> QED
    BY <1>3, <2>2, <2>3, <2>4, TypePartsNext
<1> QED
  BY <1>4, <1>5

LEMMA SendSame ==
  ASSUME CurOK, LeftOK, LockOK, Sending, UNCHANGED <<pc, cur, left, holder>>
  PROVE  CurOK' /\ LeftOK' /\ LockOK' /\ Sending'
<1>1. \A ch \in Channels : Message(ch)' = Message(ch)
  BY DEF Message
<1>2. CurOK'
  BY <1>1 DEF CurOK
<1>3. LeftOK' /\ LockOK' /\ Sending'
  BY DEF LeftOK, LockOK, Sending
<1> QED
  BY <1>2, <1>3

LEMMA ControlTypes == ASSUME TInv, ModeChanges \/ Control PROVE TInv'
<1> USE DEF TInv
<1>1. RxOK /\ CurOK /\ LeftOK /\ LockOK /\ CtlOK
  BY TypeParts
<1>2. CurOK' /\ LeftOK' /\ LockOK' /\ Sending'
  <2>1. UNCHANGED <<pc, cur, left, holder>>
    BY DEF ModeChanges, Control, Suspend, CloseChannel, OpenChannel, Resume, txVars
  <2> QED
    BY <1>1, <2>1, SendSame
<1>3. CASE CloseChannel
  <2>1. coming' \in [Channels -> {"no", "whole", "cut"}] /\ \A ch \in Channels : coming'[ch] # "no" => coming[ch] # "no"
    BY <1>1, <1>3 DEF CloseChannel, RxOK
  <2>2. /\ DOMAIN queue' = Channels
        /\ \A ch \in Channels : queue'[ch] = IF ch = "RT" THEN << >> ELSE queue[ch]
    BY <1>1, <1>3 DEF CloseChannel, RxOK
  <2>3. \A ch \in Channels : << >> \in Seq(Message(ch)) /\ Len(<< >>) <= Depth[ch]
    BY Sets
  <2>4. RxOK'
    BY <1>1, <1>3, <2>1, <2>2, <2>3 DEF CloseChannel, RxOK
  <2>5. Numbered' /\ CtlOK'
    BY <1>1, <1>3, <2>1 DEF CloseChannel, Numbered, CtlOK
  <2> QED
    BY <1>2, <2>4, <2>5, TypePartsNext
<1>4. CASE ModeChanges \/ Suspend \/ OpenChannel \/ Resume
  <2>1. RxOK' /\ Numbered'
    BY <1>1, <1>4 DEF ModeChanges, Suspend, OpenChannel, Resume, rxVars, RxOK, Numbered
  <2>2. begun["RT"] \in 0..MaxFrames["RT"] /\ MaxFrames["RT"] \in Nat
    BY <1>1, Sets DEF RxOK
  <2>3. CtlOK'
    BY <1>1, <1>4, <2>2 DEF ModeChanges, Suspend, OpenChannel, Resume, CtlOK
  <2> QED
    BY <1>2, <2>1, <2>3, TypePartsNext
<1> QED
  BY <1>3, <1>4 DEF Control

LEMMA FrameTypes == ASSUME TInv, NEW ch \in Channels, FrameBegins(ch) \/ FrameEnds(ch) PROVE TInv'
<1> USE DEF TInv
<1>1. CurOK /\ LeftOK /\ LockOK /\ CtlOK
  BY TypeParts
<1>2. RxOK' /\ Numbered'
  BY FrameBeginsRx, FrameEndsRx
<1>3. CurOK' /\ LeftOK' /\ LockOK' /\ CtlOK' /\ Sending'
  <2>1. UNCHANGED <<pc, cur, left, holder>> /\ UNCHANGED <<mode, ctl, opened>>
    BY DEF FrameBegins, FrameEnds, txVars, ctlVars
  <2>2. CtlOK'
    BY <1>1, <2>1 DEF CtlOK
  <2> QED
    BY <1>1, <2>1, <2>2, SendSame
<1> QED
  BY <1>2, <1>3, TypePartsNext

LEMMA NextTypes == TInv /\ [Next]_vars => TInv'
<1> SUFFICES ASSUME TInv, [Next]_vars PROVE TInv'
  OBVIOUS
<1>1. CASE UNCHANGED vars
  <2>1. UNCHANGED <<active, ram, begun, coming, queue>> /\ UNCHANGED <<pc, cur, left, holder>>
        /\ UNCHANGED <<mode, ctl, opened>>
    BY <1>1 DEF vars, rxVars, txVars, ctlVars
  <2>2. CurOK' /\ LeftOK' /\ LockOK' /\ Sending'
    BY <2>1, SendSame, TypeParts DEF TInv
  <2>3. RxOK' /\ CtlOK' /\ Numbered'
    BY <2>1, TypeParts DEF TInv, RxOK, CtlOK, Numbered
  <2> QED
    BY <2>2, <2>3, TypePartsNext DEF TInv
<1>2. ASSUME NEW t \in Tasks, TaskStep(t) PROVE TInv'
  BY <1>2, TakeTypes, CheckTypes, HandleTypes, AcquireTypes, SentTypes, LoggedTypes DEF TaskStep
<1> QED
  BY <1>1, <1>2, FrameTypes, MonitorImuTypes, ControlTypes DEF Next

LEMMA InitTypes == Init => Inv
<1> SUFFICES ASSUME Init PROVE Inv
  OBVIOUS
<1> USE DEF Init
<1>1. RxOK
  <2>1. active \in [Channels -> AllBuffers] /\ \A ch \in Channels : active[ch] \in Buffers(ch)
    BY DEF Channels, Buffers, AllBuffers
  <2>2. \A ch \in Channels : \A b \in Buffers(ch) : ram[b] \in 0..MaxFrames[ch]
    BY Sets DEF Torn
  <2>3. \A ch \in Channels : begun[ch] \in 0..MaxFrames[ch] /\ queue[ch] \in Seq(Message(ch)) /\ Len(queue[ch]) <= Depth[ch]
    BY Sets
  <2> QED
    BY <2>1, <2>2, <2>3 DEF RxOK
<1>2. CurOK /\ LeftOK /\ CtlOK
  BY Sets DEF CurOK, LeftOK, CtlOK
<1>3. LockOK
  BY PlacesApart, CommAssumption DEF LockOK
<1>4. Numbered /\ Sending /\ Fresh
  BY Sets DEF Numbered, Sending, Fresh
<1> QED
  BY <1>1, <1>2, <1>3, <1>4, TypeParts DEF Inv, TInv

(* In every state the firmware can reach the statics of the channels, the queues
   and the places of the tasks fit together: a task is where it holds a mutex
   exactly when the mutex says so, and no queue is longer than it was created. *)
THEOREM TypeCorrect == Spec => []TypeOK
<1>1. Init => TInv
  BY InitTypes DEF Inv
<1>2. TInv => TypeOK
  BY DEF TInv
<1> QED
  BY <1>1, <1>2, NextTypes, PTL DEF Spec

-------------------------------------------------------------------------------
LEMMA NextFresh == TInv /\ Fresh /\ [Next]_vars => Fresh'
<1> SUFFICES ASSUME TInv, Fresh, [Next]_vars PROVE Fresh'
  OBVIOUS
<1>1. RxOK /\ CtlOK /\ "RT" \in Channels
  BY TypeParts DEF TInv, Channels
<1>2. queue["RT"] \in Seq(Message("RT")) /\ begun["RT"] \in Nat /\ opened \in Nat /\ MaxFrames["RT"] \in Nat
  BY <1>1, Sets DEF RxOK, CtlOK
<1>3. DOMAIN queue = Channels /\ DOMAIN begun = Channels /\ DOMAIN coming = Channels
  BY <1>1 DEF RxOK
<1>4. CASE UNCHANGED <<queue, begun, coming, ctl, opened>>
  BY <1>4 DEF Fresh
<1>5. CASE UNCHANGED vars
  BY <1>4, <1>5 DEF vars, rxVars, ctlVars
<1>6. ASSUME NEW ch \in Channels, FrameBegins(ch) PROVE Fresh'
  <2>1. CASE ch = "RT"
    <3>1. begun'["RT"] = begun["RT"] + 1 /\ UNCHANGED <<queue, ctl, opened>>
      BY <1>3, <1>6, <2>1 DEF FrameBegins, ctlVars
    <3> QED
      BY <1>2, <3>1 DEF Fresh
  <2>2. CASE ch # "RT"
    <3>1. begun'["RT"] = begun["RT"] /\ coming'["RT"] = coming["RT"] /\ UNCHANGED <<queue, ctl, opened>>
      BY <1>3, <1>6, <2>2 DEF FrameBegins, ctlVars
    <3> QED
      BY <3>1 DEF Fresh
  <2> QED
    BY <2>1, <2>2
<1>7. ASSUME NEW ch \in Channels, FrameEnds(ch) PROVE Fresh'
  <2>1. begun' = begun /\ UNCHANGED <<ctl, opened>> /\ coming[ch] # "no"
    BY <1>7 DEF FrameEnds, ctlVars
  <2>2. CASE ch # "RT"
    <3>1. coming'["RT"] = coming["RT"]
      BY <1>3, <1>7, <2>2 DEF FrameEnds
    <3>2. queue'["RT"] = queue["RT"]
      <4>1. queue' = queue \/ queue' = [queue EXCEPT ![ch] = Queued(ch, [buf |-> active[ch], n |-> begun[ch]])]
        BY <1>7 DEF FrameEnds
      <4> QED
        BY <1>1, <1>3, <2>2, <4>1
    <3> QED
      BY <2>1, <3>1, <3>2 DEF Fresh
  <2>3. CASE ch = "RT" /\ queue' = queue
    <3>1. coming'["RT"] = "no"
      BY <1>3, <1>7, <2>3 DEF FrameEnds
    <3> QED
      BY <2>1, <2>3, <3>1 DEF Fresh
  <2>4. CASE ch = "RT" /\ queue' # queue
    <3>1. ctl # "standby" /\ coming'["RT"] = "no"
          /\ queue'["RT"] = Queued("RT", [buf |-> active["RT"], n |-> begun["RT"]])
      BY <1>3, <1>7, <2>4 DEF FrameEnds, Receives
    <3>2. ASSUME ctl \in {"resuming", "active"}, NEW i \in DOMAIN queue'["RT"]
          PROVE  queue'["RT"][i].n >= opened
      <4>1. opened <= begun["RT"] /\ \A j \in DOMAIN queue["RT"] : queue["RT"][j].n >= opened
        BY <2>1, <2>4, <3>2 DEF Fresh
      <4>2. CASE queue'["RT"] = queue["RT"]
        BY <3>2, <4>1, <4>2
      <4>3. CASE queue'["RT"] = Append(queue["RT"], [buf |-> active["RT"], n |-> begun["RT"]])
        <5>1. CASE i \in DOMAIN queue["RT"]
          BY <1>2, <4>1, <4>3, <5>1
        <5>2. CASE i = Len(queue["RT"]) + 1
          BY <1>2, <4>1, <4>3, <5>2
        <5> QED
          BY <1>2, <3>2, <4>3, <5>1, <5>2
      <4> QED
        BY <3>1, <4>2, <4>3 DEF Queued
    <3> QED
      BY <2>1, <3>1, <3>2 DEF Fresh
  <2> QED
    BY <2>2, <2>3, <2>4
<1>8. ASSUME NEW ch \in Channels, Take(ch) PROVE Fresh'
  <2>1. UNCHANGED <<begun, coming, ctl, opened>>
    BY <1>8 DEF Take, ctlVars
  <2>2. queue[ch] # << >> /\ queue' = [queue EXCEPT ![ch] = Tail(queue[ch])]
    BY <1>8 DEF Take, Ready
  <2>3. CASE ch # "RT"
    BY <1>3, <2>1, <2>2, <2>3 DEF Fresh
  <2>4. CASE ch = "RT"
    <3>1. ctl = "active" /\ queue'["RT"] = Tail(queue["RT"])
      BY <1>3, <1>8, <2>2, <2>4 DEF Take, Ready, Halted
    <3>2. ASSUME NEW i \in DOMAIN Tail(queue["RT"])
          PROVE  i + 1 \in DOMAIN queue["RT"] /\ Tail(queue["RT"])[i] = queue["RT"][i + 1]
      BY <1>2, <2>2, <2>4, <3>2
    <3> QED
      BY <2>1, <3>1, <3>2 DEF Fresh
  <2> QED
    BY <2>3, <2>4
<1>9. ASSUME NEW t \in Tasks, TaskStep(t) PROVE Fresh'
  BY <1>4, <1>8, <1>9 DEF TaskStep, Accept, Reject, Handle, Acquire, Sent, Logged, rxVars, ctlVars
<1>10. CASE Report \/ ImuLogs \/ ModeChanges
  BY <1>4, <1>10 DEF Report, ImuLogs, ModeChanges, rxVars, ctlVars
<1>11. CASE Suspend \/ CloseChannel
  <2>1. CASE Suspend
    BY <2>1 DEF Suspend, Fresh
  <2>2. CASE CloseChannel
    <3>1. ctl' = "standby" /\ queue'["RT"] = << >>
      BY <1>1, <1>3, <2>2 DEF CloseChannel
    <3> QED
      BY <3>1 DEF Fresh
  <2> QED
    BY <1>11, <2>1, <2>2
<1>12. CASE OpenChannel
  BY <1>2, <1>12 DEF OpenChannel, rxVars, Fresh
<1>13. CASE Resume
  BY <1>13 DEF Resume, rxVars, Fresh
<1> QED
  BY <1>5, <1>6, <1>7, <1>9, <1>10, <1>11, <1>12, <1>13 DEF Next, Control

(* However many frames come, and whenever STANDBY begins and ends, the RT task
   finds no message in its queue that was received before it. *)
THEOREM NothingFromBefore == Spec => []NothingQueuedFromBefore
<1>1. Init => Inv
  BY InitTypes
<1>2. Inv /\ [Next]_vars => Inv'
  BY NextTypes, NextFresh DEF Inv
<1>3. Inv => NothingQueuedFromBefore
  <2> SUFFICES ASSUME Inv, ctl # "pausing", NEW i \in DOMAIN queue["RT"]
               PROVE  queue["RT"][i].n >= opened
    BY DEF NothingQueuedFromBefore
  <2>1. ctl # "standby"
    BY DEF Inv, Fresh
  <2> QED
    BY <2>1 DEF Inv, TInv, TypeOK, Fresh
<1> QED
  BY <1>1, <1>2, <1>3, PTL DEF Spec

-------------------------------------------------------------------------------
Spare(ch) == IF ch = "RT" THEN 2 ELSE 1

(* What a message that is still to be handled tells of its buffer. *)
HeldBy(ch, m, dma, frames, last, rest) ==
  /\ m.n <= last
  /\ last < m.n + Spare(ch) => frames[m.buf] \in {m.n, Torn}
  /\ last = m.n => rest = "no"
  /\ ch = "RT" /\ (last = m.n \/ (last = m.n + 1 /\ rest # "no")) => dma # m.buf

Held(ch, m)     == HeldBy(ch, m, active[ch], ram, begun[ch], coming[ch])
HeldNext(ch, m) == HeldBy(ch, m, active'[ch], ram', begun'[ch], coming'[ch])

RInv ==
  \A ch \in Channels :
    /\ \A i \in DOMAIN queue[ch] : Held(ch, queue[ch][i])
    /\ pc[ch] \in {"check", "handle"} => Held(ch, cur[ch])
    /\ pc[ch] = "handle" /\ begun[ch] < cur[ch].n + Spare(ch) => ram[cur[ch].buf] = cur[ch].n

(* An interrupt of one channel does not concern the other. *)
LEMMA OtherHeld ==
  ASSUME RxOK, NEW ch \in Channels, NEW d \in Channels, d # ch, FrameBegins(d) \/ FrameEnds(d),
         NEW m \in Message(ch)
  PROVE  /\ Held(ch, m) => HeldNext(ch, m)
         /\ ram'[m.buf] = ram[m.buf] /\ begun'[ch] = begun[ch] /\ queue'[ch] = queue[ch]
<1>1. m.buf \in AllBuffers /\ m.buf # active[d] /\ m.n \in Nat
  BY Sets DEF Message, RxOK
<1>2. /\ begun'[ch] = begun[ch] /\ coming'[ch] = coming[ch] /\ active'[ch] = active[ch]
      /\ queue'[ch] = queue[ch] /\ ram'[m.buf] = ram[m.buf]
  <2>1. CASE FrameBegins(d)
    BY <1>1, <2>1 DEF FrameBegins, RxOK
  <2>2. CASE FrameEnds(d)
    BY <1>1, <2>2 DEF FrameEnds, RxOK
  <2> QED
    BY <2>1, <2>2
<1> QED
  BY <1>1, <1>2 DEF Held, HeldNext, HeldBy, Spare

LEMMA BeginHeld ==
  ASSUME RxOK, NEW ch \in Channels, FrameBegins(ch), NEW m \in Message(ch), Held(ch, m)
  PROVE  HeldNext(ch, m) /\ (begun'[ch] < m.n + Spare(ch) => ram'[m.buf] = ram[m.buf])
         /\ begun'[ch] = begun[ch] + 1 /\ begun[ch] \in Nat
<1>1. m.buf \in Buffers(ch) /\ m.n \in Nat /\ begun[ch] \in Nat /\ m.buf \in AllBuffers
  BY Sets DEF Message, RxOK
<1>2. /\ begun'[ch] = begun[ch] + 1 /\ coming[ch] = "no" /\ coming'[ch] # "no" /\ active' = active
      /\ \A b \in AllBuffers \ {active[ch]} : ram'[b] = ram[b]
  BY <1>1 DEF FrameBegins, RxOK
<1>3. CASE ch = "RT"
  <2>1. begun'[ch] < m.n + 2 => begun[ch] = m.n /\ active[ch] # m.buf
    <3>1. begun[ch] = m.n => active[ch] # m.buf
      BY <1>1, <1>3 DEF Held, HeldBy
    <3>2. m.n <= begun[ch]
      BY DEF Held, HeldBy
    <3> QED
      BY <1>1, <1>2, <3>1, <3>2
  <2>2. begun'[ch] < m.n + 2 => ram'[m.buf] = ram[m.buf]
    BY <1>1, <1>2, <2>1
  <2> QED
    BY <1>1, <1>2, <1>3, <2>1, <2>2 DEF Held, HeldNext, HeldBy, Spare
<1>4. CASE ch # "RT"
  BY <1>1, <1>2, <1>4 DEF Held, HeldNext, HeldBy, Spare
<1> QED
  BY <1>3, <1>4

LEMMA EndHeld ==
  ASSUME RxOK, NEW ch \in Channels, FrameEnds(ch), NEW m \in Message(ch), Held(ch, m)
  PROVE  HeldNext(ch, m) /\ (begun'[ch] < m.n + Spare(ch) => ram'[m.buf] = ram[m.buf]) /\ begun' = begun
<1>1. m.buf \in Buffers(ch) /\ m.n \in Nat /\ begun[ch] \in Nat /\ m.buf \in AllBuffers
  BY Sets DEF Message, RxOK
<1>2. /\ begun' = begun /\ coming[ch] # "no" /\ coming'[ch] = "no"
      /\ \A b \in AllBuffers \ {active[ch]} : ram'[b] = ram[b]
  BY <1>1 DEF FrameEnds, RxOK
<1>3. begun[ch] # m.n /\ begun[ch] > m.n
  BY <1>1, <1>2 DEF Held, HeldBy
<1>4. CASE ch = "RT"
  <2>1. begun[ch] < m.n + 2 => active[ch] # m.buf
    BY <1>1, <1>2, <1>3, <1>4 DEF Held, HeldBy
  <2> QED
    BY <1>1, <1>2, <1>3, <1>4, <2>1 DEF Held, HeldNext, HeldBy, Spare
<1>5. CASE ch # "RT"
  BY <1>1, <1>2, <1>3, <1>5 DEF Held, HeldNext, HeldBy, Spare
<1> QED
  BY <1>4, <1>5

(* The message an interrupt queues. *)
LEMMA NewHeld ==
  ASSUME RxOK, NEW ch \in Channels, FrameEnds(ch), queue' # queue, NEW m,
         m = [buf |-> active[ch], n |-> begun[ch]]
  PROVE  HeldNext(ch, m)
<1>1. /\ begun' = begun /\ coming' = [coming EXCEPT ![ch] = "no"]
      /\ ram' = [ram EXCEPT ![active[ch]] = IF coming[ch] = "whole" THEN begun[ch] ELSE Torn]
      /\ active' = [active EXCEPT ![ch] = NextBuf(ch)]
  BY DEF FrameEnds
<1>2. /\ m.n = begun[ch] /\ m.buf = active[ch] /\ begun[ch] \in Nat /\ active[ch] \in Buffers(ch)
      /\ active[ch] \in AllBuffers
  BY Sets DEF RxOK
<1>3. coming'[ch] = "no" /\ ram'[m.buf] \in {m.n, Torn} /\ active'[ch] = NextBuf(ch)
  BY <1>1, <1>2 DEF RxOK
<1>4. ch = "RT" => NextBuf(ch) # active[ch]
  BY <1>2 DEF NextBuf, Buffers
<1> QED
  BY <1>1, <1>2, <1>3, <1>4 DEF Held, HeldNext, HeldBy, Spare

LEMMA FrameHeld ==
  ASSUME TInv, RInv, NEW d \in Channels, FrameBegins(d) \/ FrameEnds(d)
  PROVE  RInv'
<1>1. RxOK /\ CurOK /\ RxOK'
  BY TypeParts, FrameBeginsRx, FrameEndsRx DEF TInv
<1>2. pc' = pc /\ cur' = cur
  BY DEF FrameBegins, FrameEnds, txVars
<1> SUFFICES ASSUME NEW ch \in Channels
             PROVE  /\ \A i \in DOMAIN queue'[ch] : HeldNext(ch, queue'[ch][i])
                    /\ pc[ch] \in {"check", "handle"} => HeldNext(ch, cur[ch])
                    /\ pc[ch] = "handle" /\ begun'[ch] < cur[ch].n + Spare(ch) => ram'[cur[ch].buf] = cur[ch].n
  BY <1>2 DEF RInv, Held, HeldNext
<1>3. ASSUME NEW m \in Message(ch), Held(ch, m)
      PROVE  HeldNext(ch, m) /\ (begun'[ch] < m.n + Spare(ch) => ram'[m.buf] = ram[m.buf] /\ begun[ch] < m.n + Spare(ch))
  <2>0. Spare(ch) \in Nat
    BY DEF Spare
  <2>1. m.n \in Nat /\ begun[ch] \in Nat /\ Spare(ch) \in Nat
    <3>1. m.n \in Nat
      BY Sets DEF Message
    <3>2. begun[ch] \in Nat
      BY TypeParts, Sets DEF TInv, RxOK
    <3> QED
      BY <2>0, <3>1, <3>2
  <2>2. CASE ch # d
    BY <1>1, <1>3, <2>2, OtherHeld
  <2>3. CASE ch = d /\ FrameBegins(d)
    <3>1. begun'[ch] = begun[ch] + 1
      BY <1>1, <1>3, <2>3, BeginHeld
    <3>2. begun'[ch] < m.n + Spare(ch) => begun[ch] < m.n + Spare(ch)
      BY <2>1, <3>1
    <3> QED
      BY <1>1, <1>3, <2>3, <3>2, BeginHeld
  <2>4. CASE ch = d /\ FrameEnds(d)
    BY <1>1, <1>3, <2>4, EndHeld
  <2> QED
    BY <2>2, <2>3, <2>4
<1>4. queue[ch] \in Seq(Message(ch)) /\ \A i \in DOMAIN queue[ch] : queue[ch][i] \in Message(ch) /\ Held(ch, queue[ch][i])
  BY <1>1 DEF RxOK, RInv
<1>5. \A i \in DOMAIN queue'[ch] : HeldNext(ch, queue'[ch][i])
  <2> DEFINE m == [buf |-> active[ch], n |-> begun[ch]]
  <2>1. queue'[ch] = queue[ch] \/ (ch = d /\ FrameEnds(d) /\ queue' # queue /\ queue'[ch] = Append(queue[ch], m))
    <3>1. DOMAIN queue = Channels
      BY <1>1 DEF RxOK
    <3> QED
      BY <3>1 DEF FrameBegins, FrameEnds, Queued
  <2>2. CASE queue'[ch] = queue[ch]
    BY <1>3, <1>4, <2>2
  <2>3. CASE ch = d /\ FrameEnds(d) /\ queue' # queue /\ queue'[ch] = Append(queue[ch], m)
    <3>1. HeldNext(ch, m)
      BY <1>1, <2>3, NewHeld
    <3> HIDE DEF m
    <3>2. ASSUME NEW i \in DOMAIN queue'[ch]
          PROVE  (i \in DOMAIN queue[ch] /\ queue'[ch][i] = queue[ch][i]) \/ queue'[ch][i] = m
      BY <1>4, <2>3, <3>2
    <3> QED
      BY <1>3, <1>4, <3>1, <3>2
  <2> QED
    BY <2>1, <2>2, <2>3
<1>6. pc[ch] \in {"check", "handle"} => cur[ch] \in Message(ch) /\ Held(ch, cur[ch])
  BY <1>1 DEF CurOK, RInv
<1>7. pc[ch] \in {"check", "handle"} => HeldNext(ch, cur[ch])
  BY <1>3, <1>6
<1>8. pc[ch] = "handle" /\ begun'[ch] < cur[ch].n + Spare(ch) => ram'[cur[ch].buf] = cur[ch].n
  BY <1>3, <1>6 DEF RInv
<1> QED
  BY <1>5, <1>7, <1>8

(* Everything else leaves the buffers alone, takes messages out of the queues, or
   makes a task give up the one it has. *)
LEMMA QuietHeld ==
  ASSUME RInv, UNCHANGED <<active, ram, begun>>,
         \A ch \in Channels : coming'[ch] = "no" <=> coming[ch] = "no",
         \A ch \in Channels : queue'[ch] \in {queue[ch], << >>},
         \A ch \in Channels : pc'[ch] \in {"check", "handle"} => cur'[ch] = cur[ch] /\ pc'[ch] = pc[ch]
  PROVE  RInv'
<1>1. \A ch \in Channels : \A m : Held(ch, m) => HeldNext(ch, m)
  BY DEF Held, HeldNext, HeldBy, Spare
<1> SUFFICES ASSUME NEW ch \in Channels
             PROVE  /\ \A i \in DOMAIN queue'[ch] : HeldNext(ch, queue'[ch][i])
                    /\ pc'[ch] \in {"check", "handle"} => HeldNext(ch, cur'[ch])
                    /\ pc'[ch] = "handle" /\ begun'[ch] < cur'[ch].n + Spare(ch) => ram'[cur'[ch].buf] = cur'[ch].n
  BY DEF RInv, Held, HeldNext
<1>2. \A i \in DOMAIN queue'[ch] : HeldNext(ch, queue'[ch][i])
  <2>1. CASE queue'[ch] = queue[ch]
    BY <1>1, <2>1 DEF RInv
  <2>2. CASE queue'[ch] = << >>
    BY <2>2
  <2> QED
    BY <2>1, <2>2
<1>3. pc'[ch] \in {"check", "handle"} => HeldNext(ch, cur'[ch])
  BY <1>1 DEF RInv
<1>4. pc'[ch] = "handle" /\ begun'[ch] < cur'[ch].n + Spare(ch) => ram'[cur'[ch].buf] = cur'[ch].n
  BY DEF RInv
<1> QED
  BY <1>2, <1>3, <1>4

LEMMA ReceiveHeld == ASSUME TInv, RInv, NEW d \in Channels, Take(d) \/ Accept(d) PROVE RInv'
<1>1. RxOK /\ CurOK /\ LockOK /\ Channels \subseteq Tasks
  BY TypeParts, Sets DEF TInv
<1>2. UNCHANGED <<active, ram, begun, coming>>
  BY DEF Take, Accept, rxVars
<1>3. \A ch \in Channels : \A m : Held(ch, m) <=> HeldNext(ch, m)
  BY <1>2 DEF Held, HeldNext, HeldBy, Spare
<1>4. DOMAIN pc = Tasks /\ DOMAIN queue = Channels /\ DOMAIN cur = Channels
  BY <1>1 DEF LockOK, RxOK, CurOK
<1>5. ASSUME NEW ch \in Channels, ch # d
      PROVE  queue'[ch] = queue[ch] /\ cur'[ch] = cur[ch] /\ pc'[ch] = pc[ch]
  BY <1>1, <1>4, <1>5 DEF Take, Accept, Goto, rxVars
<1> SUFFICES ASSUME NEW ch \in Channels
             PROVE  /\ \A i \in DOMAIN queue'[ch] : HeldNext(ch, queue'[ch][i])
                    /\ pc'[ch] \in {"check", "handle"} => HeldNext(ch, cur'[ch])
                    /\ pc'[ch] = "handle" /\ begun'[ch] < cur'[ch].n + Spare(ch) => ram'[cur'[ch].buf] = cur'[ch].n
  BY DEF RInv, Held, HeldNext
<1>6. CASE ch # d
  BY <1>2, <1>3, <1>5, <1>6 DEF RInv
<1>7. CASE ch = d /\ Take(d)
  <2>1. queue[ch] \in Seq(Message(ch)) /\ queue[ch] # << >>
    BY <1>1, <1>7 DEF RxOK, Take, Ready
  <2>2. queue'[ch] = Tail(queue[ch]) /\ cur'[ch] = Head(queue[ch]) /\ pc'[ch] = "check"
    BY <1>1, <1>4, <1>7 DEF Take, Goto
  <2>3. Held(ch, Head(queue[ch]))
    BY <2>1 DEF RInv
  <2>4. ASSUME NEW i \in DOMAIN Tail(queue[ch])
        PROVE  i + 1 \in DOMAIN queue[ch] /\ Tail(queue[ch])[i] = queue[ch][i + 1]
    BY <2>1, <2>4
  <2>5. \A i \in DOMAIN queue'[ch] : HeldNext(ch, queue'[ch][i])
    BY <1>3, <2>2, <2>4 DEF RInv
  <2> QED
    BY <1>3, <2>2, <2>3, <2>5
<1>8. CASE ch = d /\ Accept(d)
  <2>1. queue' = queue /\ cur' = cur /\ pc'[ch] = "handle" /\ pc[ch] = "check" /\ ram[cur[ch].buf] # Torn
    BY <1>1, <1>4, <1>8 DEF Accept, Goto, rxVars
  <2>2. Held(ch, cur[ch])
    BY <2>1 DEF RInv
  <2> QED
    BY <1>2, <1>3, <2>1, <2>2 DEF RInv, Held, HeldBy
<1> QED
  BY <1>6, <1>7, <1>8

LEMMA TaskHeld ==
  ASSUME TInv, RInv, NEW t \in Tasks,
         (t \in Channels /\ (Reject(t) \/ Handle(t))) \/ (\E l \in Locks : Acquire(t, l)) \/ Sent(t) \/ Logged(t)
         \/ Report \/ ImuLogs
  PROVE  RInv'
<1>1. LockOK /\ CurOK /\ DOMAIN pc = Tasks /\ Channels \subseteq Tasks /\ DOMAIN cur = Channels
  BY TypeParts, Sets DEF TInv, LockOK, CurOK
<1>2. PICK u \in Tasks, q \in {"idle", "wait port", "port", "wait log", "log"} :
        pc' = [pc EXCEPT ![u] = q] /\ (cur' = cur \/ (u \in Channels /\ cur' = [cur EXCEPT ![u] = Done]))
  <2>1. CASE t \in Channels /\ Reject(t)
    BY <2>1 DEF Reject, Goto
  <2>2. CASE t \in Channels /\ Handle(t)
    BY <2>2 DEF Handle, Goto
  <2>3. CASE (\E l \in Locks : Acquire(t, l)) \/ Sent(t) \/ Logged(t)
    BY <2>3 DEF Acquire, Sent, Logged, Goto, Locks
  <2>4. CASE Report \/ ImuLogs
    BY <2>4 DEF Report, ImuLogs, Goto, Tasks
  <2> QED
    BY <2>1, <2>2, <2>3, <2>4
<1>3. UNCHANGED <<active, ram, begun, coming, queue>>
  BY DEF Reject, Handle, Acquire, Sent, Logged, Report, ImuLogs, rxVars
<1>4. \A ch \in Channels : pc'[ch] \in {"check", "handle"} => cur'[ch] = cur[ch] /\ pc'[ch] = pc[ch]
  <2> SUFFICES ASSUME NEW ch \in Channels, pc'[ch] \in {"check", "handle"}
               PROVE  cur'[ch] = cur[ch] /\ pc'[ch] = pc[ch]
    OBVIOUS
  <2>1. ch # u
    BY <1>1, <1>2, PlacesApart
  <2> QED
    BY <1>1, <1>2, <2>1
<1> QED
  BY <1>3, <1>4, QuietHeld

LEMMA NextHeld == TInv /\ RInv /\ [Next]_vars => RInv'
<1> SUFFICES ASSUME TInv, RInv, [Next]_vars PROVE RInv'
  OBVIOUS
<1>1. ASSUME UNCHANGED <<active, ram, begun, coming, queue, pc, cur>> PROVE RInv'
  BY <1>1, QuietHeld
<1>2. CASE UNCHANGED vars
  BY <1>1, <1>2 DEF vars, rxVars, txVars
<1>3. CASE ModeChanges \/ Suspend \/ OpenChannel \/ Resume
  BY <1>1, <1>3 DEF ModeChanges, Suspend, OpenChannel, Resume, rxVars, txVars
<1>4. CASE CloseChannel
  <2>1. DOMAIN queue = Channels /\ DOMAIN coming = Channels
    BY TypeParts DEF TInv, RxOK
  <2>2. \A ch \in Channels : queue'[ch] \in {queue[ch], << >>} /\ (coming'[ch] = "no" <=> coming[ch] = "no")
    BY <1>4, <2>1 DEF CloseChannel
  <2> QED
    BY <1>4, <2>2, QuietHeld DEF CloseChannel, txVars
<1>5. ASSUME NEW t \in Tasks, TaskStep(t) PROVE RInv'
  BY <1>5, ReceiveHeld, TaskHeld DEF TaskStep
<1>6. CASE Report \/ ImuLogs
  <2>1. "imu" \in Tasks
    BY DEF Tasks
  <2> QED
    BY <1>6, <2>1, TaskHeld
<1> QED
  BY <1>2, <1>3, <1>4, <1>5, <1>6, FrameHeld DEF Next, Control

(* A handler reads the very frame that was announced to it, as long as the host has
   not begun two more on the RT channel, or one more on the NRT channel. *)
THEOREM Reads == Spec => ReadsWhatArrived
<1>1. Init => TInv /\ RInv
  <2>1. Init => RInv
    BY Sets DEF Init, RInv
  <2> QED
    BY <2>1, InitTypes DEF Inv
<1>2. TInv /\ RInv /\ [Next]_vars => (TInv /\ RInv)'
  BY NextTypes, NextHeld
<1>3. TInv /\ RInv =>
        [\A ch \in Channels :
           Handle(ch) => \/ ram[cur[ch].buf] = cur[ch].n
                         \/ begun[ch] >= cur[ch].n + (IF ch = "RT" THEN 2 ELSE 1)]_vars
  <2> SUFFICES ASSUME TInv, RInv, NEW ch \in Channels, Handle(ch), ram[cur[ch].buf] # cur[ch].n
               PROVE  begun[ch] >= cur[ch].n + (IF ch = "RT" THEN 2 ELSE 1)
    OBVIOUS
  <2>1. pc[ch] = "handle"
    BY DEF Handle
  <2>2. cur[ch].n \in Nat /\ begun[ch] \in Nat
    BY <2>1, TypeParts, Sets DEF TInv, CurOK, RxOK, Message
  <2> QED
    BY <2>1, <2>2 DEF RInv, Spare
<1> QED
  BY <1>1, <1>2, <1>3, PTL DEF Spec, ReadsWhatArrived
-------------------------------------------------------------------------------
(* The IMU task never waits: it only takes a mutex that is free. *)
ImuFree == pc["imu"] \in {"idle", "log"}

LEMMA NextImuFree == TInv /\ ImuFree /\ [Next]_vars => ImuFree'
<1> SUFFICES ASSUME TInv, ImuFree, [Next]_vars PROVE ImuFree'
  OBVIOUS
<1>1. DOMAIN pc = Tasks /\ "imu" \in Tasks /\ "imu" \notin Channels
  BY TypeParts DEF TInv, LockOK, Tasks, Channels
<1>2. ASSUME pc'["imu"] = pc["imu"] PROVE ImuFree'
  BY <1>2 DEF ImuFree
<1>3. ASSUME NEW t \in Tasks, TaskStep(t) PROVE ImuFree'
  <2>1. CASE t # "imu"
    BY <1>1, <1>2, <1>3, <2>1 DEF TaskStep, Take, Accept, Reject, Handle, Acquire, Sent, Logged, Goto
  <2>2. CASE t = "imu"
    <3>1. ~Sent(t) /\ \A l \in Locks : ~Acquire(t, l)
      BY <2>2 DEF ImuFree, Sent, Acquire, Wants
    <3>2. Logged(t)
      BY <1>1, <1>3, <2>2, <3>1 DEF TaskStep
    <3> QED
      BY <1>1, <2>2, <3>2 DEF Logged, Goto, ImuFree
  <2> QED
    BY <2>1, <2>2
<1>4. CASE Report
  BY <1>1, <1>2, <1>4 DEF Report, Goto
<1>5. CASE ImuLogs
  BY <1>1, <1>5 DEF ImuLogs, Goto, ImuFree
<1>6. CASE UNCHANGED pc
  BY <1>2, <1>6
<1>7. CASE ModeChanges \/ Control \/ UNCHANGED vars \/ \E ch \in Channels : FrameBegins(ch) \/ FrameEnds(ch)
  BY <1>6, <1>7 DEF ModeChanges, Control, Suspend, CloseChannel, OpenChannel, Resume, FrameBegins,
                    FrameEnds, vars, txVars
<1> QED
  BY <1>3, <1>4, <1>5, <1>7 DEF Next

LEMMA Priorities ==
  /\ Priority["RT"] = 4 /\ Priority["imu"] = 4 /\ Priority["NRT"] = 3 /\ Priority["monitor"] = 1
  /\ Tasks = {"RT", "NRT", "imu", "monitor"}
BY DEF Priority, Tasks, Channels

(* The priority a task has with what is lent to it is its own or that of one of
   its lenders, and none of these is above it. *)
LEMMA EffectiveIsTop ==
  ASSUME NEW t \in Tasks, NEW lenders \in SUBSET Tasks
  PROVE  /\ Effective(t, lenders) \in {Priority[u] : u \in lenders \cup {t}}
         /\ \A u \in lenders \cup {t} : Priority[u] <= Effective(t, lenders)
<1> DEFINE all == lenders \cup {t}
           top(p) == p \in {Priority[u] : u \in all} /\ \A u \in all : Priority[u] <= p
<1>1. all \subseteq Tasks /\ t \in all
  OBVIOUS
<1>2. \E p : top(p)
  <2> HIDE DEF all
  <2>1. CASE "RT" \in all \/ "imu" \in all
    <3>1. \A u \in all : Priority[u] <= 4
      BY <1>1, Priorities
    <3>2. \E u \in all : Priority[u] = 4
      BY <2>1, Priorities
    <3>3. top(4)
      BY <3>1, <3>2
    <3> QED
      BY <3>3
  <2>2. CASE "RT" \notin all /\ "imu" \notin all /\ "NRT" \in all
    <3>1. Priority["NRT"] = 3 /\ \A u \in all : Priority[u] <= 3
      BY <1>1, <2>2, Priorities
    <3>2. top(3)
      BY <2>2, <3>1
    <3> QED
      BY <3>2
  <2>3. CASE "RT" \notin all /\ "imu" \notin all /\ "NRT" \notin all
    <3>1. \A u \in all : u = "monitor"
      BY <1>1, <2>3, Priorities
    <3>2. "monitor" \in all
      BY <1>1, <3>1
    <3>3. Priority["monitor"] = 1 /\ \A u \in all : Priority[u] <= 1
      BY <3>1, Priorities
    <3>4. top(1)
      BY <3>2, <3>3
    <3> QED
      BY <3>4
  <2> QED
    BY <2>1, <2>2, <2>3
<1>3. Effective(t, lenders) = CHOOSE p \in {Priority[u] : u \in all} : \A u \in all : Priority[u] <= p
  BY DEF Effective
<1> QED
  BY <1>2, <1>3

(* Somebody of the RT task's priority is ready, and the NRT task has only its own. *)
LEMMA Outrun ==
  ASSUME TInv, ImuFree, Wants("RT", "port"), ~Halted("RT"), holder["port"] # "NRT"
  PROVE  ~Runs("NRT")
<1>1. /\ LockOK /\ "RT" \in Tasks /\ "NRT" \in Tasks /\ "monitor" \in Tasks
      /\ "port" \in Locks /\ Locks = {"port", "log"}
  BY TypeParts, Priorities, Sets DEF TInv
<1>2. pc["RT"] = "wait port" /\ pc["imu"] \in {"idle", "log"} /\ \A t \in Tasks : ~Halted(t)
  BY DEF Wants, ImuFree, Halted
<1>3. Effective("NRT", Waiting("NRT")) < 4
  <2>1. Waiting("NRT") \in SUBSET Tasks
    BY DEF Waiting
  <2>2. "RT" \notin Waiting("NRT") /\ "imu" \notin Waiting("NRT")
    BY <1>1, <1>2 DEF Waiting, Wants
  <2>3. \A u \in Waiting("NRT") \cup {"NRT"} : Priority[u] < 4
    BY <2>1, <2>2, Priorities
  <2> QED
    BY <1>1, <2>1, <2>3, EffectiveIsTop
<1>4. ASSUME NEW u \in Tasks, u # "NRT", Ready(u), "RT" \in {u} \cup Waiting(u)
      PROVE  ~Runs("NRT")
  <2> DEFINE lenders == {w \in Waiting(u) : ~Halted(w)}
  <2>1. lenders \in SUBSET Tasks /\ "RT" \in lenders \cup {u}
    BY <1>1, <1>2, <1>4 DEF Waiting
  <2>2. 4 <= Effective(u, lenders)
    <3> HIDE DEF lenders
    <3> QED
      BY <2>1, EffectiveIsTop, Priorities
  <2>3. Effective(u, lenders) \in {1, 3, 4} /\ Effective("NRT", Waiting("NRT")) \in {1, 3, 4}
    <3>1. Waiting("NRT") \in SUBSET Tasks
      BY DEF Waiting
    <3> HIDE DEF lenders
    <3> QED
      BY <1>1, <2>1, <3>1, EffectiveIsTop, Priorities
  <2>4. ~(Effective(u, lenders) <= Effective("NRT", Waiting("NRT")))
    BY <1>3, <2>2, <2>3
  <2> QED
    BY <1>4, <2>4 DEF Runs
<1>5. CASE holder["port"] = None
  <2>1. Ready("RT")
    BY <1>1, <1>2, <1>5 DEF Ready, Wants
  <2> QED
    BY <1>1, <1>4, <2>1
<1>6. CASE holder["port"] = "monitor"
  <2>1. pc["monitor"] = "port"
    BY <1>1, <1>6 DEF LockOK
  <2>2. Ready("monitor")
    BY <1>1, <1>2, <2>1 DEF Ready, Wants
  <2>3. "RT" \in Waiting("monitor")
    BY <1>1, <1>2, <1>6 DEF Waiting, Wants
  <2> QED
    BY <1>1, <1>4, <2>2, <2>3
<1>7. holder["port"] \notin {"RT", "imu"}
  BY <1>1, <1>2, Priorities DEF LockOK
<1> QED
  BY <1>1, <1>5, <1>6, <1>7, Priorities DEF LockOK

(* While the RT task waits for the port the NRT task does not move, whether the
   port is free or the Monitor, at the lowest priority, still holds it: whoever
   has it has the RT task's priority meanwhile. *)
THEOREM InversionTheorem == Spec => NoInversion
<1>1. Init => TInv /\ ImuFree
  <2>1. Init => ImuFree
    BY DEF Init, ImuFree, Tasks
  <2> QED
    BY <2>1, InitTypes DEF Inv
<1>2. TInv /\ ImuFree /\ [Next]_vars => (TInv /\ ImuFree)'
  BY NextTypes, NextImuFree
<1>3. TInv /\ ImuFree /\ [Next]_vars =>
        [Wants("RT", "port") /\ ~Halted("RT") /\ holder["port"] # "NRT" => UNCHANGED pc["NRT"]]_vars
  <2> SUFFICES ASSUME TInv, ImuFree, Next, Wants("RT", "port"), ~Halted("RT"), holder["port"] # "NRT"
               PROVE  pc'["NRT"] = pc["NRT"]
    BY DEF vars
  <2>1. ~Runs("NRT")
    BY Outrun
  <2>2. DOMAIN pc = Tasks /\ "NRT" \in Tasks
    BY TypeParts, Priorities DEF TInv, LockOK
  <2>3. ASSUME NEW t \in Tasks, TaskStep(t) PROVE pc'["NRT"] = pc["NRT"]
    <3>1. t # "NRT"
      BY <2>1, <2>3 DEF TaskStep, Take, Accept, Reject, Handle, Acquire, Sent, Logged
    <3> QED
      BY <2>2, <2>3, <3>1 DEF TaskStep, Take, Accept, Reject, Handle, Acquire, Sent, Logged, Goto
  <2>4. CASE Report \/ ImuLogs
    BY <2>2, <2>4 DEF Report, ImuLogs, Goto
  <2>5. CASE ModeChanges \/ Control \/ \E ch \in Channels : FrameBegins(ch) \/ FrameEnds(ch)
    BY <2>5 DEF ModeChanges, Control, Suspend, CloseChannel, OpenChannel, Resume, FrameBegins, FrameEnds, txVars
  <2> QED
    BY <2>3, <2>4, <2>5 DEF Next
<1> QED
  BY <1>1, <1>2, <1>3, PTL DEF Spec, NoInversion
===============================================================================
