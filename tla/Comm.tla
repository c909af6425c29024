--------------------------------- MODULE Comm ---------------------------------
(***************************************************************************)
(* The two host channels: Task/task_comm.c and Driver/driver_hydrocore.c   *)
(* over Bsp/bsp_uart.c, with the control task of Task/task_control.c that  *)
(* suspends the RT communication task and closes its channel in STANDBY.   *)
(*                                                                         *)
(* DMA writes a frame into the channel's active buffer; the idle interrupt *)
(* queues the buffer's address and hands DMA the next buffer (of two for   *)
(* RT, the same one for NRT).  The channel's task checks the frame and     *)
(* calls its handler, which reads the payload where it lies.  Replies, and *)
(* the Monitor's reports, go out on the NRT port under a mutex; the IMU    *)
(* task logs under another one, which clearing the log takes too.          *)
(*                                                                         *)
(* Frames of a channel are numbered as they begin; what a frame asks for   *)
(* is decided when it is looked at.  Tasks are scheduled by fixed          *)
(* priorities with inheritance; interrupts come at any time.               *)
(***************************************************************************)
EXTENDS Integers, Sequences

CONSTANTS
  Depth,        \* of s_rt_rx_ptr_queue and s_nrt_rx_ptr_queue
  Kinds,        \* what the host asks for on each channel
  Reports,      \* frames the Monitor sends in one round
  MaxFrames,    \* bound: frames on each channel
  None          \* nobody holds the mutex

Channels == {"RT", "NRT"}
Tasks    == Channels \cup {"imu", "monitor"}
Locks    == {"port", "log"}     \* s_protocol_mutex[BSP_UART_OPI_NRT], s_log_mutex
Priority == [RT |-> 4, imu |-> 4, NRT |-> 3, monitor |-> 1]

(* What a handler sends back: a motion command nothing, most commands an ACK,
   a read command an ACK and the data, clearing the log an ACK. *)
Replies == [motion |-> 0, command |-> 1, read |-> 2, clear |-> 1]

ASSUME CommAssumption ==
  /\ Depth \in [Channels -> Nat \ {0}]
  /\ Kinds \in [Channels -> SUBSET DOMAIN Replies]
  /\ Reports \in Nat \ {0} /\ MaxFrames \in [Channels -> Nat]
  /\ None \notin Tasks

Buffers(ch) == IF ch = "RT" THEN {"ping", "pong"} ELSE {"nrt"}
AllBuffers  == Buffers("RT") \cup Buffers("NRT")

Torn        == 0                                 \* half-written, or never written
Message(ch) == [buf : Buffers(ch), n : 1..MaxFrames[ch]]
Done        == [buf |-> "none", n |-> 0]         \* a message is not looked at again

VARIABLES
  active,       \* s_active_rt_dma_buf, s_active_nrt_dma_buf
  ram,          \* the frames in the buffers
  begun,        \* number of the last frame that began to arrive
  coming,       \* the rest of that frame is still to come: "no", "whole", "cut"
  queue,        \* messages of the interrupts to the tasks
  pc, cur,      \* of the tasks; the message a communication task works on
  left,         \* frames a task has still to send
  holder,       \* of the mutexes
  mode,         \* "STANDBY" or not, as the mode manager says
  ctl,          \* how far the control task has followed it
  opened        \* history: the first RT frame the channel, as opened last, can see

rxVars  == <<active, ram, begun, coming, queue>>
txVars  == <<pc, cur, left, holder>>
ctlVars == <<mode, ctl, opened>>
vars    == <<rxVars, txVars, ctlVars>>

TypeOK ==
  /\ active \in [Channels -> AllBuffers] /\ \A ch \in Channels : active[ch] \in Buffers(ch)
  /\ DOMAIN ram = AllBuffers /\ \A ch \in Channels : \A b \in Buffers(ch) : ram[b] \in 0..MaxFrames[ch]
  /\ DOMAIN begun = Channels /\ \A ch \in Channels : begun[ch] \in 0..MaxFrames[ch]
  /\ coming \in [Channels -> {"no", "whole", "cut"}]
  /\ DOMAIN queue = Channels
  /\ \A ch \in Channels : queue[ch] \in Seq(Message(ch)) /\ Len(queue[ch]) <= Depth[ch]
  /\ pc \in [Tasks -> {"idle", "check", "handle", "wait port", "port", "wait log", "log"}]
  /\ DOMAIN cur = Channels
  /\ \A ch \in Channels :
       cur[ch] \in IF pc[ch] \in {"check", "handle"} THEN Message(ch) ELSE {Done}
  /\ DOMAIN left = Tasks /\ \A t \in Tasks : left[t] \in Nat
  /\ holder \in [Locks -> Tasks \cup {None}]
  /\ \A t \in Tasks, l \in Locks : holder[l] = t <=> pc[t] = l
  /\ mode \in {"STANDBY", "other"}
  /\ ctl \in {"active", "pausing", "standby", "resuming"}
  /\ opened \in 0..MaxFrames["RT"] + 1

(* After Task_Comm_Init; the control task has made its first pass. *)
Init ==
  /\ active = [ch \in Channels |-> IF ch = "RT" THEN "ping" ELSE "nrt"]
  /\ ram = [b \in AllBuffers |-> Torn]
  /\ begun = [ch \in Channels |-> 0] /\ coming = [ch \in Channels |-> "no"]
  /\ queue = [ch \in Channels |-> << >>]
  /\ pc = [t \in Tasks |-> "idle"] /\ left = [t \in Tasks |-> 0]
  /\ cur = [ch \in Channels |-> Done]
  /\ holder = [l \in Locks |-> None]
  /\ mode = "STANDBY" /\ ctl = "standby" /\ opened = 0

-----------------------------------------------------------------------------
(* s_rt_channel_enabled; DMA runs. *)
Receives(ch) == ch = "RT" => ctl # "standby"

(* The next buffer for DMA, when nothing is ever flipped. *)
NextBufSame(ch) == active[ch]

NextBuf(ch) ==
  IF ch = "RT" THEN IF active[ch] = "ping" THEN "pong" ELSE "ping" ELSE "nrt"

(* The first bytes of a frame arrive. *)
FrameBegins(ch) ==
  /\ coming[ch] = "no" /\ begun[ch] < MaxFrames[ch]
  /\ begun' = [begun EXCEPT ![ch] = @ + 1]
  /\ coming' = [coming EXCEPT ![ch] = IF Receives(ch) THEN "whole" ELSE "cut"]
  /\ ram' = IF Receives(ch) THEN [ram EXCEPT ![active[ch]] = Torn] ELSE ram
  /\ UNCHANGED <<active, queue, txVars, ctlVars>>

(* A queue that is written past its end. *)
QueuedAlways(ch, msg) == Append(queue[ch], msg)

Queued(ch, msg) ==
  IF Len(queue[ch]) < Depth[ch] THEN Append(queue[ch], msg) ELSE queue[ch]

(* The line falls idle after the frame: bsp_uart_isr_handler and the callback
   of the channel.  Of a frame that began before DMA ran there is a tail, or
   nothing. *)
FrameEnds(ch) ==
  /\ coming[ch] # "no"
  /\ coming' = [coming EXCEPT ![ch] = "no"]
  /\ \/ /\ Receives(ch)
        /\ ram' = [ram EXCEPT ![active[ch]] =
                     IF coming[ch] = "whole" THEN begun[ch] ELSE Torn]
        /\ queue' = [queue EXCEPT ![ch] = Queued(ch, [buf |-> active[ch], n |-> begun[ch]])]
        /\ active' = [active EXCEPT ![ch] = NextBuf(ch)]
     \/ /\ coming[ch] = "cut"
        /\ UNCHANGED <<ram, queue, active>>
  /\ UNCHANGED <<begun, txVars, ctlVars>>

-----------------------------------------------------------------------------
(* The control task has suspended it. *)
Halted(t) == t \in {"RT", "imu"} /\ ctl # "active"

(* The mutex a task waits for. *)
Wants(t, l) == pc[t] = IF l = "port" THEN "wait port" ELSE "wait log"

Ready(t) ==
  /\ ~Halted(t)
  /\ pc[t] = "idle" => t \in Channels /\ queue[t] # << >>
  /\ \A l \in Locks : Wants(t, l) => holder[l] = None

(* The tasks that wait for a mutex t holds. *)
Waiting(t) == {u \in Tasks : \E l \in Locks : Wants(u, l) /\ holder[l] = t}

(* A binary semaphore lends its holder no priority. *)
EffectiveUnlent(t, lenders) == Priority[t]

(* A mutex does: that of the most urgent task that waits for it. *)
Effective(t, lenders) ==
  CHOOSE p \in {Priority[u] : u \in lenders \cup {t}} :
    \A u \in lenders \cup {t} : Priority[u] <= p

(* No task above t is ready: t has the processor.  What a task has lent before
   it was suspended the holder keeps until it gives the mutex back; what it
   would lend afterwards it does not lend.  Both are allowed here. *)
Runs(t) ==
  /\ ~Halted(t)
  /\ \A u \in Tasks \ {t} :
       Ready(u) => Effective(u, {w \in Waiting(u) : ~Halted(w)}) <= Effective(t, Waiting(t))

Goto(t, place) == pc' = [pc EXCEPT ![t] = place]

(* xQueueReceive of vTask_RT_Comm_Opi and vTask_NRT_Comm_Opi. *)
Take(ch) ==
  /\ pc[ch] = "idle" /\ Ready(ch) /\ Runs(ch)
  /\ cur' = [cur EXCEPT ![ch] = Head(queue[ch])]
  /\ queue' = [queue EXCEPT ![ch] = Tail(@)]
  /\ Goto(ch, "check")
  /\ UNCHANGED <<active, ram, begun, coming, left, holder, ctlVars>>

(* Driver_Protocol_Dispatch looks at the frame: it is one it accepts ... *)
Accept(ch) ==
  /\ pc[ch] = "check" /\ Runs(ch)
  /\ ram[cur[ch].buf] # Torn
  /\ Goto(ch, "handle")
  /\ UNCHANGED <<rxVars, cur, left, holder, ctlVars>>

(* ... or it is torn, or was not a good one from the start. *)
Reject(ch) ==
  /\ pc[ch] = "check" /\ Runs(ch)
  /\ Goto(ch, "idle")
  /\ cur' = [cur EXCEPT ![ch] = Done]
  /\ UNCHANGED <<rxVars, left, holder, ctlVars>>

(* The handler of the command, or the answer to an unknown one, reads the
   payload. *)
Handle(ch) ==
  /\ pc[ch] = "handle" /\ Runs(ch)
  /\ \E k \in Kinds[ch] :
       /\ left' = [left EXCEPT ![ch] = Replies[k]]
       /\ Goto(ch, CASE k = "clear"     -> "wait log"
                     [] Replies[k] = 0  -> "idle"
                     [] OTHER           -> "wait port")
  /\ cur' = [cur EXCEPT ![ch] = Done]
  /\ UNCHANGED <<rxVars, holder, ctlVars>>

(* The Monitor's period is over: it reports. *)
Report ==
  /\ pc["monitor"] = "idle" /\ Runs("monitor")
  /\ left' = [left EXCEPT !["monitor"] = Reports]
  /\ Goto("monitor", "wait port")
  /\ UNCHANGED <<rxVars, cur, holder, ctlVars>>

(* The IMU task logs, unless somebody else is logging: Log_Print. *)
ImuLogs ==
  /\ pc["imu"] = "idle" /\ Runs("imu")
  /\ holder["log"] = None
  /\ holder' = [holder EXCEPT !["log"] = "imu"]
  /\ Goto("imu", "log")
  /\ UNCHANGED <<rxVars, cur, left, ctlVars>>

(* Driver_Protocol_SendFrame and System_Log_PersistClear get their mutex ... *)
Acquire(t, l) ==
  /\ Wants(t, l) /\ Ready(t) /\ Runs(t)
  /\ holder' = [holder EXCEPT ![l] = t]
  /\ Goto(t, l)
  /\ UNCHANGED <<rxVars, cur, left, ctlVars>>

(* An early return that forgets to give it back. *)
SentKeeping(t) ==
  /\ pc[t] = "port" /\ Runs(t)
  /\ left' = [left EXCEPT ![t] = @ - 1]
  /\ holder' = IF t = "NRT" THEN holder ELSE [holder EXCEPT !["port"] = None]
  /\ Goto(t, IF left[t] > 1 THEN "wait port" ELSE "idle")
  /\ UNCHANGED <<rxVars, cur, ctlVars>>

(* ... and give it back after the last byte of the frame ... *)
Sent(t) ==
  /\ pc[t] = "port" /\ Runs(t)
  /\ left' = [left EXCEPT ![t] = @ - 1]
  /\ holder' = [holder EXCEPT !["port"] = None]
  /\ Goto(t, IF left[t] > 1 THEN "wait port" ELSE "idle")
  /\ UNCHANGED <<rxVars, cur, ctlVars>>

(* ... or when the log is written, or both its banks are erased. *)
Logged(t) ==
  /\ pc[t] = "log" /\ Runs(t)
  /\ holder' = [holder EXCEPT !["log"] = None]
  /\ Goto(t, IF t \in Channels THEN "wait port" ELSE "idle")
  /\ UNCHANGED <<rxVars, cur, left, ctlVars>>

-----------------------------------------------------------------------------
(* A command, the shell or the Monitor changes the system mode. *)
ModeChanges ==
  /\ mode' = IF mode = "STANDBY" THEN "other" ELSE "STANDBY"
  /\ UNCHANGED <<rxVars, txVars, ctl, opened>>

(* prv_pause_standby_tasks: the IMU task and the RT task are suspended wherever
   they are ... *)
Suspend ==
  /\ ctl = "active" /\ mode = "STANDBY"
  /\ ctl' = "pausing"
  /\ UNCHANGED <<rxVars, txVars, mode, opened>>

(* A channel that is closed but not emptied. *)
CloseChannelFull ==
  /\ ctl = "pausing"
  /\ ctl' = "standby"
  /\ coming' = [coming EXCEPT !["RT"] = IF @ = "no" THEN "no" ELSE "cut"]
  /\ UNCHANGED <<active, ram, begun, queue, txVars, mode, opened>>

(* ... and its channel closed and emptied. *)
CloseChannel ==
  /\ ctl = "pausing"
  /\ ctl' = "standby"
  /\ coming' = [coming EXCEPT !["RT"] = IF @ = "no" THEN "no" ELSE "cut"]
  /\ queue' = [queue EXCEPT !["RT"] = << >>]
  /\ UNCHANGED <<active, ram, begun, txVars, mode, opened>>

(* prv_resume_standby_tasks: the channel first, then the task. *)
OpenChannel ==
  /\ ctl = "standby" /\ mode # "STANDBY"
  /\ ctl' = "resuming"
  /\ opened' = IF coming["RT"] = "no" THEN begun["RT"] + 1 ELSE begun["RT"]
  /\ UNCHANGED <<rxVars, txVars, mode>>

Resume ==
  /\ ctl = "resuming"
  /\ ctl' = "active"
  /\ UNCHANGED <<rxVars, txVars, mode, opened>>

Control   == Suspend \/ CloseChannel \/ OpenChannel \/ Resume
TaskStep(t) ==
  \/ t \in Channels /\ (Take(t) \/ Accept(t) \/ Reject(t) \/ Handle(t))
  \/ \E l \in Locks : Acquire(t, l)
  \/ Sent(t) \/ Logged(t)

Next ==
  \/ \E ch \in Channels : FrameBegins(ch) \/ FrameEnds(ch)
  \/ \E t \in Tasks : TaskStep(t)
  \/ Report \/ ImuLogs \/ ModeChanges \/ Control

Spec == Init /\ [][Next]_vars

(* The control task and the tasks run when they have the processor, and a frame
   that began ends.  Nothing makes the mode change, or the Monitor report. *)
FairSpec ==
  /\ Spec
  /\ WF_vars(Control)
  /\ \A ch \in Channels : WF_vars(FrameEnds(ch))
  /\ \A t \in Tasks : SF_vars(TaskStep(t))
-----------------------------------------------------------------------------
(* A handler reads the frame that was announced to its task, unless the host
   did not wait: as many later frames have begun as the channel has buffers.
   The checks do not help, as the frame is never copied. *)
ReadsWhatArrived ==
  [][\A ch \in Channels :
       Handle(ch) => \/ ram[cur[ch].buf] = cur[ch].n
                     \/ begun[ch] >= cur[ch].n + (IF ch = "RT" THEN 2 ELSE 1)]_vars

(* What was received before STANDBY is not taken for a command after it: only
   the frame the RT task had in hand when it was suspended outlives the pause. *)
NothingQueuedFromBefore ==
  ctl # "pausing" => \A i \in DOMAIN queue["RT"] : queue["RT"][i].n >= opened

(* While the RT task waits for the port the NRT task, of lower priority, does
   not get in between, even when the Monitor holds the port. *)
NoInversion ==
  [][Wants("RT", "port") /\ ~Halted("RT") /\ holder["port"] # "NRT" =>
       UNCHANGED pc["NRT"]]_vars

(* Again and again nobody is kept waiting for a mutex, except by the control
   task, which has suspended him or the task that holds it. *)
Barred(t, l) == Halted(t) \/ \E u \in Tasks : holder[l] = u /\ Halted(u)
LocksServed  == []<>(\A t \in Tasks, l \in Locks : Wants(t, l) => Barred(t, l))

(* docs/模式设置方案.md: in STANDBY the UART keeps receiving and the host can
   change the mode at any time: what comes on the NRT channel is taken up. *)
HostIsHeard == queue["NRT"] # << >> ~> queue["NRT"] = << >>
=============================================================================
