--------------------------- MODULE PipelineProofs ---------------------------
(***************************************************************************)
(* The pipeline for every number of commands, ring capacity, batch size,   *)
(* warm-up and behaviour of stale indices: no command is lost, every event *)
(* is accounted for, and everything is out when run_e2e comes back.        *)
(*                                                                         *)
(* The inductive invariant has a part per thread.  A thread's local copy   *)
(* of its stop flag matters most: once it is set, nothing in the ring is   *)
(* hidden from the thread (StopIsSynchronized, LogStopIsSynchronized), so  *)
(* that the next empty pop proves the ring is empty.                       *)
(*                                                                         *)
(* The second half is about the recorders that run_e2e keeps: the report's *)
(* percentiles and nanoseconds, for every width, class and sample.         *)
(***************************************************************************)
EXTENDS Pipeline, LatencyRecorder, DataLemmas

USE EngineAssumption, LoggerAssumption

(* A ring in a state that calls can bring it to.                            *)
Sound(ring, capacity) ==
    /\ ring \in Rings
    /\ ring.capacity = capacity
    /\ ring.hidden <= Len(ring.items)
    /\ Len(ring.items) + ring.unseen <= capacity

(* The commands: what the engine holds and the ring's items count on from   *)
(* what was processed.                                                      *)
CommandsInv ==
    /\ Sound(cmd_ring, CmdCapacity)
    /\ sent \in 0 .. Commands /\ processed \in Nat /\ batch \in Seq(Nat)
    /\ processed + Len(batch) + Len(cmd_ring.items) = sent
    /\ \A k \in 1 .. Len(batch) : batch[k] = processed + k
    /\ \A k \in 1 .. Len(cmd_ring.items) : cmd_ring.items[k] = processed + Len(batch) + k

(* The producer raises the flag as its last step, and the engine sees every *)
(* push once it has seen the flag.                                          *)
StopIsSynchronized ==
    /\ producer \in {"pushing", "exited"} /\ stop \in BOOLEAN /\ stopping \in BOOLEAN
    /\ stop => producer = "exited"
    /\ producer = "exited" => sent = Commands
    /\ stopping => stop /\ cmd_ring.hidden = 0

EngineInv ==
    /\ engine \in {"pop", "process", "check", "exited"}
    /\ under_way \in BOOLEAN /\ to_emit \in 0 .. MaxEvents
    /\ engine = "process" <=> batch # <<>>
    /\ under_way => engine = "process"
    /\ engine = "exited" => stopping /\ cmd_ring.items = <<>>

(* The window is reset as the first command after the warm-up begins.       *)
WindowInv ==
    measured = IF processed > Warmup \/ (processed = Warmup /\ under_way)
               THEN processed - Warmup ELSE processed

(* The records: those in the stream and the ring are numbers of events, in  *)
(* order, and the counters account for each.                                *)
RecordsInv ==
    /\ Sound(log_ring, LogCapacity)
    /\ emitted \in Nat /\ dropped \in Nat /\ records_written \in Nat
    /\ written \in Seq(Nat) /\ flushed \in Nat /\ stream_good \in BOOLEAN
    /\ policy \in {"drop", "retry"}
    /\ InOrder(written \o log_ring.items)
    /\ \A k \in 1 .. Len(written) : written[k] <= emitted
    /\ \A k \in 1 .. Len(log_ring.items) : log_ring.items[k] <= emitted
    /\ records_written + Len(log_ring.items) + dropped = emitted
    /\ policy = "retry" => dropped = 0
    /\ stream_good => Len(written) = records_written

(* The logger sees every record once it has seen its flag, and main raises  *)
(* the flag after the engine has left.                                      *)
LogStopIsSynchronized ==
    /\ main \in {"join_producer", "join_engine", "stop_logger", "join_logger", "done"}
    /\ log_stop \in BOOLEAN /\ log_stopping \in BOOLEAN
    /\ main \in {"stop_logger", "join_logger", "done"} => engine = "exited"
    /\ log_stop => main \in {"join_logger", "done"}
    /\ log_stopping => log_stop /\ log_ring.hidden = 0

LoggerInv ==
    /\ logger \in {"pop", "check", "exited"} /\ dirty \in BOOLEAN
    /\ ~dirty /\ stream_good => flushed = Len(written)
    /\ IdleMeansFlushed
    /\ logger = "exited" => log_stopping /\ log_ring.items = <<>>
    /\ main = "done" => logger = "exited"

IInv ==
    /\ CommandsInv /\ StopIsSynchronized /\ EngineInv /\ WindowInv
    /\ RecordsInv /\ LogStopIsSynchronized /\ LoggerInv

-----------------------------------------------------------------------------
(* What the calls do to a sound ring.                                       *)
LEMMA SoundFields ==
    ASSUME NEW c \in Nat, NEW ring, Sound(ring, c)
    PROVE  /\ ring.capacity = c /\ ring.items \in Seq(Nat) /\ Len(ring.items) \in Nat
           /\ ring.hidden \in Nat /\ ring.unseen \in Nat /\ ring.hidden <= Len(ring.items)
           /\ Len(ring.items) + ring.unseen <= c
BY DEF Sound, Rings

LEMMA HiddenReplaced ==
    ASSUME NEW ring \in Rings, NEW h \in Nat
    PROVE  LET r == [ring EXCEPT !.hidden = h] IN
           /\ r \in Rings /\ r.hidden = h
           /\ r.capacity = ring.capacity /\ r.items = ring.items /\ r.unseen = ring.unseen
BY DEF Rings

LEMMA UnseenReplaced ==
    ASSUME NEW ring \in Rings, NEW u \in Nat
    PROVE  LET r == [ring EXCEPT !.unseen = u] IN
           /\ r \in Rings /\ r.unseen = u
           /\ r.capacity = ring.capacity /\ r.items = ring.items /\ r.hidden = ring.hidden
BY DEF Rings

LEMMA ItemsReplaced ==
    ASSUME NEW ring \in Rings, NEW s \in Seq(Nat)
    PROVE  LET r == [ring EXCEPT !.items = s] IN
           /\ r \in Rings /\ r.items = s
           /\ r.capacity = ring.capacity /\ r.hidden = ring.hidden /\ r.unseen = ring.unseen
BY DEF Rings

(* The views a thread may decide on.                                        *)
LEMMA PushViewOf ==
    ASSUME NEW c \in Nat, NEW ring, Sound(ring, c), NEW view \in PushViews(ring)
    PROVE  /\ Sound(view, c) /\ view.items = ring.items /\ view.hidden = ring.hidden
           /\ view \in Rings
<1>1. ring \in Rings /\ ring.unseen \in Nat
  BY SoundFields DEF Sound
<1>2. CASE view = ring
  BY <1>1, <1>2
<1>3. ASSUME view # ring
      PROVE  \E u \in 0 .. ring.unseen : view = [ring EXCEPT !.unseen = u]
  BY <1>3 DEF PushViews, ProducerSees
<1>4. ASSUME NEW u \in 0 .. ring.unseen, view = [ring EXCEPT !.unseen = u]
      PROVE  /\ Sound(view, c) /\ view.items = ring.items /\ view.hidden = ring.hidden
             /\ view \in Rings
  <2>1. u \in Nat /\ u <= ring.unseen
    BY <1>1
  <2>2. /\ view \in Rings /\ view.unseen = u /\ view.capacity = ring.capacity
        /\ view.items = ring.items /\ view.hidden = ring.hidden
    BY <1>1, <1>4, <2>1, UnseenReplaced
  <2>3. Len(ring.items) \in Nat /\ Len(ring.items) + ring.unseen <= c
        /\ ring.capacity = c /\ ring.hidden <= Len(ring.items)
    BY SoundFields
  <2> QED
    BY <1>1, <2>1, <2>2, <2>3 DEF Sound
<1> QED
  BY <1>2, <1>3, <1>4

LEMMA PopViewOf ==
    ASSUME NEW c \in Nat, NEW ring, Sound(ring, c), NEW view \in PopViews(ring)
    PROVE  /\ Sound(view, c) /\ view.items = ring.items /\ view.hidden <= ring.hidden
           /\ view.unseen = ring.unseen /\ view \in Rings
<1>1. ring \in Rings /\ ring.hidden \in Nat
  BY SoundFields DEF Sound
<1>2. CASE view = ring
  BY <1>1, <1>2
<1>3. ASSUME view # ring
      PROVE  \E h \in 0 .. ring.hidden : view = [ring EXCEPT !.hidden = h]
  BY <1>3 DEF PopViews, ConsumerSees
<1>4. ASSUME NEW h \in 0 .. ring.hidden, view = [ring EXCEPT !.hidden = h]
      PROVE  /\ Sound(view, c) /\ view.items = ring.items /\ view.hidden <= ring.hidden
             /\ view.unseen = ring.unseen /\ view \in Rings
  <2>1. h \in Nat /\ h <= ring.hidden
    BY <1>1
  <2>2. /\ view \in Rings /\ view.hidden = h /\ view.capacity = ring.capacity
        /\ view.items = ring.items /\ view.unseen = ring.unseen
    BY <1>1, <1>4, <2>1, HiddenReplaced
  <2>3. Len(ring.items) \in Nat /\ Len(ring.items) + ring.unseen <= c
        /\ ring.capacity = c /\ ring.hidden <= Len(ring.items)
    BY SoundFields
  <2> QED
    BY <1>1, <2>1, <2>2, <2>3 DEF Sound
<1> QED
  BY <1>2, <1>3, <1>4

LEMMA PushedRing ==
    ASSUME NEW c \in Nat, NEW ring, Sound(ring, c), NEW v \in Nat, NEW r \in Pushes(ring, v)
    PROVE  Sound(r, c) /\ r.items = Append(ring.items, v)
<1>1. PICK view \in PushViews(ring) : ~SaysFull(view) /\ r = WithItem(view, v)
  BY DEF Pushes
<1>2. /\ Sound(view, c) /\ view.items = ring.items /\ view \in Rings
  BY PushViewOf
<1>3. /\ view.items \in Seq(Nat) /\ Len(view.items) \in Nat /\ view.hidden \in Nat
      /\ view.hidden <= Len(view.items) /\ view.unseen \in Nat /\ view.capacity = c
      /\ Len(view.items) + view.unseen <= c
  BY <1>2, SoundFields
<1>4. PICK s \in Seq(Nat) : s = Append(view.items, v)
  <2>1. Append(view.items, v) \in Seq(Nat)
    BY <1>3
  <2> QED
    BY <2>1, Zenon
<1>5. PICK h \in Nat : h = view.hidden + 1
  BY <1>3
<1>6. PICK m : m = [view EXCEPT !.items = s]
  OBVIOUS
<1>7. /\ m \in Rings /\ m.items = s /\ m.capacity = c
      /\ m.hidden = view.hidden /\ m.unseen = view.unseen
  BY <1>2, <1>3, <1>6, ItemsReplaced
<1>8. r = [m EXCEPT !.hidden = h]
  BY <1>1, <1>4, <1>5, <1>6 DEF WithItem
<1>9. /\ r \in Rings /\ r.items = s /\ r.capacity = c
      /\ r.hidden = h /\ r.unseen = view.unseen
  BY <1>7, <1>8, HiddenReplaced
<1>10. Len(view.items) + view.unseen < c
  BY <1>1, <1>3 DEF SaysFull
<1>11. Len(s) = Len(view.items) + 1
  BY <1>3, <1>4
<1> QED
  BY <1>2, <1>3, <1>4, <1>5, <1>9, <1>10, <1>11, SMTT(40) DEF Sound

LEMMA FullRing ==
    ASSUME NEW c \in Nat, NEW ring, Sound(ring, c), NEW r \in FullPushes(ring)
    PROVE  Sound(r, c) /\ r.items = ring.items /\ r.hidden = ring.hidden
BY PushViewOf DEF FullPushes

LEMMA EmptyRing ==
    ASSUME NEW c \in Nat, NEW ring, Sound(ring, c), NEW r \in EmptyPops(ring)
    PROVE  /\ Sound(r, c) /\ r.items = ring.items /\ r.hidden <= ring.hidden
           /\ r.hidden \in Nat /\ r.hidden = Len(ring.items)
<1>1. r \in PopViews(ring) /\ SaysEmpty(r)
  BY DEF EmptyPops
<1>2. Sound(r, c) /\ r.items = ring.items /\ r.hidden <= ring.hidden
  BY <1>1, PopViewOf
<1>3. r.hidden \in Nat /\ Len(r.items) \in Nat
  BY <1>2, SoundFields
<1> QED
  BY <1>1, <1>2, <1>3 DEF SaysEmpty, Visible

(* A batch is a front part of the items, not empty; the rest stays.         *)
LEMMA PoppedRing ==
    ASSUME NEW c \in Nat, NEW ring, Sound(ring, c), NEW max_items \in Nat \ {0},
           NEW pop \in Pops(ring, max_items)
    PROVE  \E n \in 1 .. Len(ring.items) :
              /\ pop.got = SubSeq(ring.items, 1, n)
              /\ Sound(pop.ring, c) /\ pop.ring.hidden <= ring.hidden
              /\ pop.ring.items = SubSeq(ring.items, n + 1, Len(ring.items))
<1>1. PICK view \in PopViews(ring) :
         /\ ~SaysEmpty(view)
         /\ pop = [got  |-> SubSeq(view.items, 1, Batch(view, max_items)),
                   ring |-> WithoutItems(view, Batch(view, max_items))]
  BY DEF Pops
<1>2. Sound(view, c) /\ view.items = ring.items /\ view.hidden <= ring.hidden
      /\ view \in Rings
  BY PopViewOf
<1>3. /\ view.items \in Seq(Nat) /\ Len(view.items) \in Nat /\ view.hidden \in Nat
      /\ view.hidden <= Len(view.items) /\ view.unseen \in Nat /\ view.capacity = c
      /\ Len(view.items) + view.unseen <= c
  BY <1>2, SoundFields
<1>4. PICK n \in Nat : n = Batch(view, max_items)
  BY <1>3 DEF Batch, Visible
<1>5. n \in 1 .. Len(view.items) /\ n <= Len(view.items) - view.hidden
  BY <1>1, <1>3, <1>4, SMTT(40) DEF Batch, Visible, SaysEmpty
<1>6. pop.got = SubSeq(view.items, 1, n) /\ pop.ring = WithoutItems(view, n)
  BY <1>1, <1>4
<1>7. PICK s \in Seq(Nat) : s = SubSeq(view.items, n + 1, Len(view.items))
  <2>1. SubSeq(view.items, n + 1, Len(view.items)) \in Seq(Nat)
    BY <1>3, <1>5, SMTT(30)
  <2> QED
    BY <2>1, Zenon
<1>8. PICK u \in Nat : u = view.unseen + n
  BY <1>3
<1>9. PICK m : m = [view EXCEPT !.items = s]
  OBVIOUS
<1>10. /\ m \in Rings /\ m.items = s /\ m.capacity = c
       /\ m.hidden = view.hidden /\ m.unseen = view.unseen
  BY <1>2, <1>3, <1>9, ItemsReplaced
<1>11. pop.ring = [m EXCEPT !.unseen = u]
  BY <1>6, <1>7, <1>8, <1>9 DEF WithoutItems
<1>12. /\ pop.ring \in Rings /\ pop.ring.items = s /\ pop.ring.capacity = c
       /\ pop.ring.hidden = view.hidden /\ pop.ring.unseen = u
  BY <1>10, <1>11, UnseenReplaced
<1>13. Len(s) = Len(view.items) - n
  BY <1>3, <1>5, <1>7
<1>14. Sound(pop.ring, c)
  <2>1. view.hidden <= Len(s)
    BY <1>3, <1>5, <1>13, SMTT(40)
  <2>2. Len(s) + u <= c
    <3>1. Len(s) + u = Len(view.items) + view.unseen
      BY <1>3, <1>8, <1>13, SMTT(40)
    <3> QED
      BY <1>3, <3>1
  <2> QED
    BY <1>12, <2>1, <2>2 DEF Sound
<1> QED
  BY <1>2, <1>5, <1>6, <1>7, <1>12, <1>14

(* The two parts of a sequence cut after n.                                 *)
LEMMA Parted ==
    ASSUME NEW s \in Seq(Nat), NEW n \in 1 .. Len(s)
    PROVE  LET front == SubSeq(s, 1, n)
               rest  == SubSeq(s, n + 1, Len(s))
           IN  /\ front \in Seq(Nat) /\ Len(front) = n /\ front # <<>>
               /\ \A k \in 1 .. n : front[k] = s[k]
               /\ rest \in Seq(Nat) /\ Len(rest) = Len(s) - n
               /\ \A k \in 1 .. Len(s) - n : rest[k] = s[n + k]
<1> DEFINE front == SubSeq(s, 1, n)
           rest  == SubSeq(s, n + 1, Len(s))
<1>1. PICK m \in Nat : m = Len(s) /\ n \in 1 .. m
  OBVIOUS
<1>2. front \in Seq(Nat) /\ Len(front) = n /\ \A k \in 1 .. n : front[k] = s[k]
  BY ONLY s \in Seq(Nat), <1>1, SMTT(40)
<1>3. rest \in Seq(Nat) /\ Len(rest) = m - n
  BY ONLY s \in Seq(Nat), <1>1, SMTT(40)
<1>4. \A k \in 1 .. m - n : rest[k] = s[n + k]
  BY ONLY s \in Seq(Nat), <1>1, SMTT(40)
<1>5. front # <<>>
  BY ONLY <1>1, <1>2
<1> QED
  BY ONLY <1>1, <1>2, <1>3, <1>4, <1>5

LEMMA SynchronizedRing ==
    ASSUME NEW c \in Nat, NEW ring, Sound(ring, c)
    PROVE  LET r == Synchronized(ring) IN
           Sound(r, c) /\ r.items = ring.items /\ r.hidden = 0
<1>1. ring \in Rings
  BY DEF Sound
<1>2. LET r == [ring EXCEPT !.hidden = 0] IN
      /\ r \in Rings /\ r.hidden = 0
      /\ r.capacity = ring.capacity /\ r.items = ring.items /\ r.unseen = ring.unseen
  BY <1>1, HiddenReplaced
<1> QED
  BY <1>2, SoundFields DEF Sound, Synchronized

LEMMA NewRingIsSound ==
    ASSUME NEW c \in Nat
    PROVE  Sound(NewRing(c), c) /\ NewRing(c).items = <<>> /\ NewRing(c).hidden = 0
BY DEF NewRing, Sound, Rings

-----------------------------------------------------------------------------
(* The loop's part of the invariant and the logger's.                       *)
LoopInv == CommandsInv /\ StopIsSynchronized /\ EngineInv /\ WindowInv

LogInv == RecordsInv /\ LogStopIsSynchronized /\ LoggerInv

LEMMA CommandsFacts ==
    ASSUME LoopInv
    PROVE  /\ Sound(cmd_ring, CmdCapacity)
           /\ cmd_ring.items \in Seq(Nat) /\ Len(cmd_ring.items) \in Nat
           /\ cmd_ring.hidden \in Nat
           /\ batch \in Seq(Nat) /\ Len(batch) \in Nat
           /\ sent \in 0 .. Commands /\ sent \in Nat /\ processed \in Nat
           /\ processed + Len(batch) + Len(cmd_ring.items) = sent
           /\ \A k \in 1 .. Len(batch) : batch[k] = processed + k
           /\ \A k \in 1 .. Len(cmd_ring.items) :
                 cmd_ring.items[k] = processed + Len(batch) + k
           /\ Warmup \in Nat /\ Commands \in Nat
<1>1. Sound(cmd_ring, CmdCapacity)
  BY DEF LoopInv, CommandsInv
<1>2. cmd_ring.items \in Seq(Nat) /\ Len(cmd_ring.items) \in Nat /\ cmd_ring.hidden \in Nat
  BY <1>1, SoundFields
<1>3. batch \in Seq(Nat) /\ sent \in 0 .. Commands /\ processed \in Nat
      /\ processed + Len(batch) + Len(cmd_ring.items) = sent
  BY DEF LoopInv, CommandsInv
<1>4. /\ \A k \in 1 .. Len(batch) : batch[k] = processed + k
      /\ \A k \in 1 .. Len(cmd_ring.items) : cmd_ring.items[k] = processed + Len(batch) + k
  BY DEF LoopInv, CommandsInv
<1>5. Len(batch) \in Nat /\ sent \in Nat /\ Commands \in Nat /\ Warmup \in Nat
  BY <1>3
<1> QED
  BY <1>1, <1>2, <1>3, <1>4, <1>5

LEMMA LoopKept ==
    ASSUME LoopInv, UNCHANGED loopVars
    PROVE  LoopInv'
BY DEF LoopInv, CommandsInv, StopIsSynchronized, EngineInv, WindowInv,
       loopVars, producerVars, engineVars

LEMMA LogKept ==
    ASSUME LogInv, UNCHANGED <<logVars, policy, main, emitted>>,
           engine = "exited" => engine' = "exited"
    PROVE  LogInv'
<1>1. UNCHANGED <<log_ring, dropped, log_stop, logger, log_stopping, dirty, records_written,
                  stream_good, written, flushed, policy, main, emitted>>
  BY DEF logVars, loggerVars, streamVars
<1>2. RecordsInv'
  BY <1>1 DEF LogInv, RecordsInv, InOrder
<1>3. LogStopIsSynchronized'
  BY <1>1 DEF LogInv, LogStopIsSynchronized
<1>4. LoggerInv'
  BY <1>1 DEF LogInv, LoggerInv, IdleMeansFlushed
<1> QED
  BY <1>2, <1>3, <1>4 DEF LogInv

LEMMA InitEstablishes == Init => IInv
<1> SUFFICES ASSUME Init PROVE IInv
  OBVIOUS
<1>1. /\ Sound(cmd_ring, CmdCapacity) /\ cmd_ring.items = <<>> /\ cmd_ring.hidden = 0
      /\ Sound(log_ring, LogCapacity) /\ log_ring.items = <<>> /\ log_ring.hidden = 0
  BY NewRingIsSound DEF Init, LoopInit, LogInit
<1>2. CommandsInv /\ StopIsSynchronized /\ EngineInv /\ WindowInv
  <2>1. /\ sent = 0 /\ producer = "pushing" /\ stop = FALSE /\ engine = "pop"
        /\ batch = <<>> /\ to_emit = 0 /\ under_way = FALSE /\ stopping = FALSE
        /\ processed = 0 /\ measured = 0
    BY DEF Init, LoopInit
  <2>2. CommandsInv
    BY <1>1, <2>1 DEF CommandsInv
  <2>3. StopIsSynchronized
    BY <2>1 DEF StopIsSynchronized
  <2>4. EngineInv
    <3>1. ~under_way /\ under_way \in BOOLEAN
      BY <2>1
    <3>2. to_emit \in 0 .. MaxEvents
      BY <2>1
    <3>3. engine = "pop" /\ batch = <<>>
      BY <2>1
    <3> QED
      BY <3>1, <3>2, <3>3 DEF EngineInv
  <2>5. WindowInv
    BY <2>1 DEF WindowInv
  <2> QED
    BY <2>2, <2>3, <2>4, <2>5
<1>3. RecordsInv
  BY <1>1 DEF Init, LogInit, RecordsInv, InOrder
<1>4. LogStopIsSynchronized /\ LoggerInv
  BY <1>1 DEF Init, LoopInit, LogInit, LogStopIsSynchronized, LoggerInv, IdleMeansFlushed
<1> QED
  BY <1>2, <1>3, <1>4 DEF IInv

-----------------------------------------------------------------------------
(* The producer.                                                            *)
LEMMA PushCommandPreserves ==
    ASSUME LoopInv, PushCommand
    PROVE  LoopInv'
<1> DEFINE items == cmd_ring.items
<1>0. /\ Sound(cmd_ring, CmdCapacity) /\ items \in Seq(Nat) /\ Len(items) \in Nat
      /\ sent \in 0 .. Commands /\ sent < Commands /\ processed \in Nat /\ batch \in Seq(Nat)
      /\ Len(batch) \in Nat /\ processed + Len(batch) + Len(items) = sent
      /\ \A k \in 1 .. Len(items) : items[k] = processed + Len(batch) + k
  BY CommandsFacts DEF PushCommand
<1>1. sent + 1 \in Nat /\ cmd_ring' \in Pushes(cmd_ring, sent + 1)
  BY <1>0 DEF PushCommand
<1>2. Sound(cmd_ring', CmdCapacity) /\ cmd_ring'.items = Append(items, sent + 1)
  BY <1>0, <1>1, PushedRing
<1>3. UNCHANGED <<producer, stop, engine, batch, to_emit, under_way, stopping, processed,
                  measured>> /\ sent' = sent + 1 /\ producer = "pushing"
  BY DEF PushCommand, engineVars
<1>4. /\ Len(cmd_ring'.items) = Len(items) + 1
      /\ \A k \in 1 .. Len(items) : cmd_ring'.items[k] = items[k]
      /\ cmd_ring'.items[Len(items) + 1] = sent + 1
  BY <1>0, <1>1, <1>2
<1>5. CommandsInv'
  <2>1. ASSUME NEW k \in 1 .. Len(items) + 1
        PROVE  cmd_ring'.items[k] = processed + Len(batch) + k
    <3>0. PICK n \in Nat : n = Len(items)
      BY <1>0
    <3>b. PICK b \in Nat : b = Len(batch)
      BY <1>0
    <3>1. CASE k = Len(items) + 1
      <4>1. cmd_ring'.items[k] = sent + 1
        BY <1>4, <3>1
      <4>2. k = n + 1
        BY <3>0, <3>1
      <4>3. processed + b + n = sent
        BY <1>0, <3>0, <3>b
      <4>4. processed + b + k = sent + 1
        BY <1>0, <4>2, <4>3
      <4> QED
        BY <3>b, <4>1, <4>4
    <3>2. CASE k \in 1 .. Len(items)
      BY <1>0, <1>4, <3>2
    <3>3. k = Len(items) + 1 \/ k \in 1 .. Len(items)
      BY <1>0
    <3> QED
      BY <3>1, <3>2, <3>3
  <2>2. sent' \in 0 .. Commands
        /\ processed + Len(batch) + Len(cmd_ring'.items) = sent'
    <3>1. PICK n \in Nat : n = Len(items)
      BY <1>0
    <3>b. PICK b \in Nat : b = Len(batch)
      BY <1>0
    <3>2. Len(cmd_ring'.items) = n + 1 /\ sent' = sent + 1
      BY <1>3, <1>4, <3>1
    <3>3. sent' \in 0 .. Commands
      BY <1>0, <3>2
    <3>4. processed + b + n = sent
      BY <1>0, <3>1, <3>b
    <3>5. processed + b + (n + 1) = sent + 1
      BY <1>0, <3>4
    <3> QED
      BY <3>b, <3>2, <3>3, <3>5, Zenon
  <2>3. /\ \A k \in 1 .. Len(batch) : batch[k] = processed + k
    BY DEF LoopInv, CommandsInv
  <2> QED
    BY <1>0, <1>2, <1>3, <1>4, <2>1, <2>2, <2>3 DEF CommandsInv
<1>6. ~stopping /\ ~stop
  BY <1>3 DEF LoopInv, StopIsSynchronized
<1>7. StopIsSynchronized'
  BY <1>3, <1>6 DEF LoopInv, StopIsSynchronized
<1>8. EngineInv' /\ WindowInv'
  BY <1>3, <1>6 DEF LoopInv, EngineInv, WindowInv
<1> QED
  BY <1>5, <1>7, <1>8 DEF LoopInv

LEMMA RetryCommandPreserves ==
    ASSUME LoopInv, RetryCommand
    PROVE  LoopInv'
<1>1. /\ Sound(cmd_ring', CmdCapacity) /\ cmd_ring'.items = cmd_ring.items
      /\ cmd_ring'.hidden = cmd_ring.hidden
  BY FullRing DEF LoopInv, CommandsInv, RetryCommand
<1>2. UNCHANGED <<sent, producer, stop, engine, batch, to_emit, under_way, stopping,
                  processed, measured>>
  BY DEF RetryCommand, producerVars, engineVars
<1> QED
  BY <1>1, <1>2 DEF LoopInv, CommandsInv, StopIsSynchronized, EngineInv, WindowInv

LEMMA SetStopPreserves ==
    ASSUME LoopInv, SetStop
    PROVE  LoopInv'
<1>1. UNCHANGED <<cmd_ring, sent, engine, batch, to_emit, under_way, stopping, processed,
                  measured>>
      /\ producer = "pushing" /\ producer' = "exited" /\ stop' = TRUE /\ sent = Commands
  BY DEF SetStop, engineVars
<1> QED
  BY <1>1 DEF LoopInv, CommandsInv, StopIsSynchronized, EngineInv, WindowInv

-----------------------------------------------------------------------------
(* The engine's loop.                                                       *)
LEMMA PopCommandsPreserves ==
    ASSUME LoopInv, PopCommands
    PROVE  LoopInv'
<1> DEFINE items == cmd_ring.items
<1>0. /\ Sound(cmd_ring, CmdCapacity) /\ items \in Seq(Nat) /\ Len(items) \in Nat
      /\ sent \in 0 .. Commands /\ processed \in Nat /\ batch = <<>> /\ ~under_way
      /\ processed + Len(items) = sent
      /\ \A k \in 1 .. Len(items) : items[k] = processed + k
  BY CommandsFacts DEF LoopInv, EngineInv, PopCommands
<1>1. UNCHANGED <<sent, producer, stop, to_emit, under_way, stopping, processed, measured>>
      /\ engine' = "process"
  BY DEF PopCommands, producerVars
<1>2. PICK n \in 1 .. Len(items) :
         /\ batch' = SubSeq(items, 1, n)
         /\ Sound(cmd_ring', CmdCapacity) /\ cmd_ring'.hidden <= cmd_ring.hidden
         /\ cmd_ring'.items = SubSeq(items, n + 1, Len(items))
  <2>1. PICK pop \in Pops(cmd_ring, EngineBatch) : batch' = pop.got /\ cmd_ring' = pop.ring
    BY DEF PopCommands
  <2>2. \E n \in 1 .. Len(items) :
           /\ pop.got = SubSeq(items, 1, n)
           /\ Sound(pop.ring, CmdCapacity) /\ pop.ring.hidden <= cmd_ring.hidden
           /\ pop.ring.items = SubSeq(items, n + 1, Len(items))
    BY <1>0, <2>1, PoppedRing
  <2> QED
    BY <2>1, <2>2
<1>3. /\ batch' \in Seq(Nat) /\ Len(batch') = n /\ batch' # <<>>
      /\ \A k \in 1 .. n : batch'[k] = items[k]
      /\ Len(cmd_ring'.items) = Len(items) - n
      /\ \A k \in 1 .. Len(items) - n : cmd_ring'.items[k] = items[n + k]
  <2>1. /\ SubSeq(items, 1, n) \in Seq(Nat) /\ Len(SubSeq(items, 1, n)) = n
        /\ SubSeq(items, 1, n) # <<>>
        /\ \A k \in 1 .. n : SubSeq(items, 1, n)[k] = items[k]
        /\ Len(SubSeq(items, n + 1, Len(items))) = Len(items) - n
        /\ \A k \in 1 .. Len(items) - n : SubSeq(items, n + 1, Len(items))[k] = items[n + k]
    BY <1>0, Parted
  <2> QED
    BY <1>2, <2>1
<1> HIDE DEF items
<1>n. n \in Nat /\ n <= Len(items)
  BY <1>0
<1>4. CommandsInv'
  <2>1. ASSUME NEW k \in 1 .. Len(batch') PROVE batch'[k] = processed + k
    <3>1. k \in 1 .. n /\ k \in 1 .. Len(items)
      BY <1>0, <1>3, <1>n
    <3> QED
      BY <1>0, <1>3, <3>1
  <2>2. \A k \in 1 .. Len(cmd_ring'.items) :
           cmd_ring'.items[k] = processed + Len(batch') + k
    BY <1>0, <1>3, <1>n
  <2>3. processed + Len(batch') + Len(cmd_ring'.items) = sent
    <3>1. PICK length \in Nat : length = Len(items) /\ processed + length = sent
      BY <1>0
    <3>2. Len(batch') = n /\ Len(cmd_ring'.items) = length - n
      BY <1>3, <3>1
    <3>p. PICK p \in Nat : p = processed
      BY <1>0
    <3>3. p + length = sent
      BY <3>1, <3>p
    <3>4. p + n + (length - n) = sent
      BY <1>n, <3>3
    <3> QED
      BY <3>p, <3>2, <3>4, Zenon
  <2> QED
    BY <1>0, <1>1, <1>2, <1>3, <2>1, <2>2, <2>3 DEF CommandsInv
<1>5. cmd_ring'.hidden \in Nat /\ cmd_ring.hidden \in Nat
  BY <1>0, <1>2, SoundFields
<1>6. StopIsSynchronized'
  BY <1>1, <1>2, <1>5 DEF LoopInv, StopIsSynchronized
<1>7. EngineInv' /\ WindowInv'
  BY <1>0, <1>1, <1>3 DEF LoopInv, EngineInv, WindowInv
<1> QED
  BY <1>4, <1>6, <1>7 DEF LoopInv

LEMMA PopNoCommandPreserves ==
    ASSUME LoopInv, PopNoCommand
    PROVE  LoopInv'
<1>0. Sound(cmd_ring, CmdCapacity) /\ engine = "pop" /\ batch = <<>> /\ ~under_way
  BY DEF LoopInv, CommandsInv, EngineInv, PopNoCommand
<1>1. UNCHANGED <<sent, producer, stop, batch, to_emit, under_way, stopping, processed,
                  measured>>
      /\ engine' = IF stopping THEN "exited" ELSE "check"
  BY DEF PopNoCommand, producerVars
<1>2. /\ Sound(cmd_ring', CmdCapacity) /\ cmd_ring'.items = cmd_ring.items
      /\ cmd_ring'.hidden <= cmd_ring.hidden /\ cmd_ring'.hidden \in Nat
      /\ cmd_ring'.hidden = Len(cmd_ring.items)
  BY <1>0, EmptyRing DEF PopNoCommand
<1>3. cmd_ring.hidden \in Nat /\ cmd_ring.items \in Seq(Nat)
  BY <1>0, SoundFields
<1>4. CommandsInv' /\ StopIsSynchronized' /\ WindowInv'
  <2>1. CommandsInv'
    BY <1>1, <1>2 DEF LoopInv, CommandsInv
  <2>2. cmd_ring.hidden = 0 => cmd_ring'.hidden = 0
    BY <1>2, <1>3
  <2>3. StopIsSynchronized'
    BY <1>1, <2>2 DEF LoopInv, StopIsSynchronized
  <2>4. WindowInv'
    BY <1>1 DEF LoopInv, WindowInv
  <2> QED
    BY <2>1, <2>3, <2>4
<1>5. stopping => cmd_ring'.items = <<>>
  BY <1>2, <1>3 DEF LoopInv, StopIsSynchronized
<1>6. EngineInv'
  BY <1>0, <1>1, <1>5 DEF LoopInv, EngineInv, StopIsSynchronized
<1> QED
  BY <1>4, <1>6 DEF LoopInv

LEMMA ReadStopPreserves ==
    ASSUME LoopInv, ReadStop
    PROVE  LoopInv'
<1>0. Sound(cmd_ring, CmdCapacity) /\ engine = "check" /\ batch = <<>> /\ ~under_way
  BY DEF LoopInv, CommandsInv, EngineInv, ReadStop
<1>1. UNCHANGED <<sent, producer, stop, batch, to_emit, under_way, processed, measured>>
      /\ engine' = "pop" /\ stopping' \in {FALSE, stop}
  BY DEF ReadStop, producerVars
<1>2. /\ Sound(cmd_ring', CmdCapacity) /\ cmd_ring'.items = cmd_ring.items
      /\ stopping' => cmd_ring'.hidden = 0
  BY <1>0, SynchronizedRing DEF ReadStop
<1>3. CommandsInv' /\ WindowInv'
  <2>1. CommandsInv'
    BY <1>1, <1>2 DEF LoopInv, CommandsInv
  <2>2. WindowInv'
    BY <1>1 DEF LoopInv, WindowInv
  <2> QED
    BY <2>1, <2>2
<1>4. StopIsSynchronized'
  <2>1. stopping' \in BOOLEAN /\ (stopping' => stop)
    <3>1. stop \in BOOLEAN /\ stopping' \in {FALSE, stop}
      BY <1>1 DEF LoopInv, StopIsSynchronized
    <3>2. stopping' = FALSE \/ stopping' = stop
      BY <3>1, Zenon
    <3>3. CASE stopping' = FALSE
      BY <3>3
    <3>4. CASE stopping' = stop
      BY <3>1, <3>4
    <3> QED
      BY <3>2, <3>3, <3>4
  <2> QED
    BY <1>1, <1>2, <2>1 DEF LoopInv, StopIsSynchronized
<1>5. EngineInv'
  BY <1>0, <1>1 DEF LoopInv, EngineInv
<1> QED
  BY <1>3, <1>4, <1>5 DEF LoopInv

LEMMA BeginCommandPreserves ==
    ASSUME LoopInv, BeginCommand
    PROVE  LoopInv'
<1>1. /\ UNCHANGED <<cmd_ring, sent, producer, stop, engine, batch, stopping, processed>>
      /\ under_way' = TRUE /\ ~under_way /\ engine = "process"
      /\ measured' = (IF processed = Warmup THEN 0 ELSE measured)
      /\ to_emit' \in 1 .. MaxEvents
  BY DEF BeginCommand, producerVars
<1>2. CommandsInv' /\ StopIsSynchronized'
  BY <1>1 DEF LoopInv, CommandsInv, StopIsSynchronized
<1>3. EngineInv'
  BY <1>1 DEF LoopInv, EngineInv
<1>4. WindowInv'
  BY <1>1, CommandsFacts DEF LoopInv, WindowInv
<1> QED
  BY <1>2, <1>3, <1>4 DEF LoopInv

LEMMA EmitPreserves ==
    ASSUME LoopInv, Emit
    PROVE  LoopInv'
<1>1. UNCHANGED <<cmd_ring, sent, producer, stop, engine, batch, under_way, stopping,
                  processed, measured>>
      /\ to_emit' = to_emit - 1 /\ to_emit > 0
  BY DEF Emit, producerVars
<1>2. CommandsInv' /\ StopIsSynchronized' /\ WindowInv'
  BY <1>1 DEF LoopInv, CommandsInv, StopIsSynchronized, WindowInv
<1>3. EngineInv'
  BY <1>1 DEF LoopInv, EngineInv
<1> QED
  BY <1>2, <1>3 DEF LoopInv

LEMMA EndCommandPreserves ==
    ASSUME LoopInv, EndCommand
    PROVE  LoopInv'
<1>0. /\ batch \in Seq(Nat) /\ batch # <<>> /\ processed \in Nat /\ under_way
      /\ engine = "process" /\ Warmup \in Nat
      /\ cmd_ring.items \in Seq(Nat) /\ Sound(cmd_ring, CmdCapacity)
      /\ \A k \in 1 .. Len(batch) : batch[k] = processed + k
      /\ \A k \in 1 .. Len(cmd_ring.items) : cmd_ring.items[k] = processed + Len(batch) + k
      /\ processed + Len(batch) + Len(cmd_ring.items) = sent
  BY SoundFields DEF LoopInv, CommandsInv, EngineInv, EndCommand
<1>1. UNCHANGED <<cmd_ring, sent, producer, stop, to_emit, stopping>>
      /\ under_way' = FALSE /\ processed' = processed + 1 /\ measured' = measured + 1
      /\ batch' = Tail(batch) /\ engine' = IF Tail(batch) = <<>> THEN "pop" ELSE "process"
  BY DEF EndCommand, producerVars
<1>2. /\ batch' \in Seq(Nat) /\ Len(batch') = Len(batch) - 1
      /\ \A k \in 1 .. Len(batch) - 1 : batch'[k] = batch[k + 1]
      /\ Len(batch) \in Nat /\ Len(batch) > 0 /\ Len(cmd_ring.items) \in Nat
  <2>1. ASSUME NEW s \in Seq(Nat), s # <<>>
        PROVE  /\ Tail(s) \in Seq(Nat) /\ Len(Tail(s)) = Len(s) - 1
               /\ \A k \in 1 .. Len(s) - 1 : Tail(s)[k] = s[k + 1]
               /\ Len(s) \in Nat /\ Len(s) > 0
    BY <2>1
  <2>2. Len(cmd_ring.items) \in Nat
    BY <1>0
  <2> QED
    BY <1>0, <1>1, <2>1, <2>2
<1>3. CommandsInv'
  <2>1. \A k \in 1 .. Len(batch') : batch'[k] = processed' + k
    BY <1>0, <1>1, <1>2
  <2>2. processed' + Len(batch') = processed + Len(batch) /\ processed' \in Nat
    BY <1>0, <1>1, <1>2
  <2>3. sent \in 0 .. Commands
    BY DEF LoopInv, CommandsInv
  <2> QED
    BY <1>0, <1>1, <1>2, <2>1, <2>2, <2>3 DEF CommandsInv
<1>4. StopIsSynchronized'
  BY <1>1 DEF LoopInv, StopIsSynchronized
<1>5. EngineInv'
  BY <1>0, <1>1, <1>2 DEF LoopInv, EngineInv
<1>6. WindowInv'
  <2>1. measured = IF processed >= Warmup THEN processed - Warmup ELSE processed
    BY <1>0 DEF LoopInv, WindowInv
  <2>2. measured' = IF processed + 1 > Warmup THEN processed + 1 - Warmup ELSE processed + 1
    BY <1>0, <1>1, <2>1
  <2>3. ~under_way'
    BY <1>1
  <2>4. (processed' > Warmup \/ (processed' = Warmup /\ under_way')) <=> processed + 1 > Warmup
    BY <1>1, <2>3
  <2>5. measured' = IF processed + 1 > Warmup THEN processed' - Warmup ELSE processed'
    <3>1. processed' = processed + 1 /\ processed \in Nat /\ Warmup \in Nat
      BY <1>0, <1>1
    <3> QED
      BY <2>2, <3>1
  <2>6. CASE processed + 1 > Warmup
    BY <2>4, <2>5, <2>6 DEF WindowInv
  <2>7. CASE ~(processed + 1 > Warmup)
    BY <2>4, <2>5, <2>7 DEF WindowInv
  <2> QED
    BY <2>6, <2>7
<1> QED
  BY <1>3, <1>4, <1>5, <1>6 DEF LoopInv

-----------------------------------------------------------------------------
(* Two sequences in order, the second behind the first.                     *)
Follows(s, t) ==
    /\ InOrder(s) /\ InOrder(t)
    /\ \A j \in 1 .. Len(s), k \in 1 .. Len(t) : s[j] < t[k]

LEMMA ConcatIndex ==
    ASSUME NEW s \in Seq(Nat), NEW t \in Seq(Nat)
    PROVE  /\ s \o t \in Seq(Nat) /\ Len(s \o t) = Len(s) + Len(t)
           /\ \A k \in 1 .. Len(s) : (s \o t)[k] = s[k]
           /\ \A k \in 1 .. Len(t) : (s \o t)[Len(s) + k] = t[k]
           /\ Len(s) \in Nat /\ Len(t) \in Nat
OBVIOUS

LEMMA InOrderParts ==
    ASSUME NEW s \in Seq(Nat), NEW t \in Seq(Nat)
    PROVE  InOrder(s \o t) <=> Follows(s, t)
<1> DEFINE st == s \o t
<1>0. /\ Len(st) = Len(s) + Len(t) /\ Len(s) \in Nat /\ Len(t) \in Nat
      /\ \A k \in 1 .. Len(s) : st[k] = s[k]
      /\ \A k \in 1 .. Len(t) : st[Len(s) + k] = t[k]
  BY ConcatIndex
<1> HIDE DEF st
<1>1. ASSUME InOrder(st) PROVE Follows(s, t)
  <2>1. ASSUME NEW j \in 1 .. Len(s), NEW k \in 1 .. Len(s), j < k PROVE s[j] < s[k]
    <3>1. j \in 1 .. Len(st) /\ k \in 1 .. Len(st)
      BY <1>0
    <3> QED
      BY <1>0, <1>1, <2>1, <3>1 DEF InOrder
  <2>2. ASSUME NEW j \in 1 .. Len(t), NEW k \in 1 .. Len(t), j < k PROVE t[j] < t[k]
    <3>1. Len(s) + j \in 1 .. Len(st) /\ Len(s) + k \in 1 .. Len(st) /\ Len(s) + j < Len(s) + k
      BY <1>0, <2>2
    <3>2. st[Len(s) + j] < st[Len(s) + k]
      BY <1>1, <3>1 DEF InOrder
    <3> QED
      BY <1>0, <3>2
  <2>3. ASSUME NEW j \in 1 .. Len(s), NEW k \in 1 .. Len(t) PROVE s[j] < t[k]
    <3>1. j \in 1 .. Len(st) /\ Len(s) + k \in 1 .. Len(st) /\ j < Len(s) + k
      BY <1>0
    <3>2. st[j] < st[Len(s) + k]
      BY <1>1, <3>1 DEF InOrder
    <3> QED
      BY <1>0, <3>2
  <2> QED
    BY <2>1, <2>2, <2>3 DEF Follows, InOrder
<1>2. ASSUME Follows(s, t) PROVE InOrder(st)
  <2> SUFFICES ASSUME NEW j \in 1 .. Len(st), NEW k \in 1 .. Len(st), j < k
               PROVE  st[j] < st[k]
    BY DEF InOrder
  <2>1. CASE k <= Len(s)
    <3>1. j \in 1 .. Len(s) /\ k \in 1 .. Len(s)
      BY <1>0, <2>1
    <3> QED
      BY <1>0, <1>2, <3>1 DEF Follows, InOrder
  <2>2. CASE j > Len(s)
    <3>1. PICK a \in 1 .. Len(t), b \in 1 .. Len(t) : j = Len(s) + a /\ k = Len(s) + b
      <4>1. j - Len(s) \in 1 .. Len(t) /\ k - Len(s) \in 1 .. Len(t)
        BY <1>0, <2>2
      <4>2. j = Len(s) + (j - Len(s)) /\ k = Len(s) + (k - Len(s))
        BY <1>0
      <4> QED
        BY <4>1, <4>2
    <3>2. a < b
      BY <1>0, <3>1
    <3> QED
      BY <1>0, <1>2, <3>1, <3>2 DEF Follows, InOrder
  <2>3. CASE j <= Len(s) /\ k > Len(s)
    <3>1. PICK b \in 1 .. Len(t) : k = Len(s) + b
      <4>1. k - Len(s) \in 1 .. Len(t) /\ k = Len(s) + (k - Len(s))
        BY <1>0, <2>3
      <4> QED
        BY <4>1
    <3>2. j \in 1 .. Len(s)
      BY <1>0, <2>3
    <3> QED
      BY <1>0, <1>2, <3>1, <3>2 DEF Follows
  <2> QED
    BY <1>0, <2>1, <2>2, <2>3
<1> QED
  BY <1>1, <1>2 DEF st

(* A record greater than all before it may be added, ...                    *)
LEMMA AppendFollows ==
    ASSUME NEW s \in Seq(Nat), NEW t \in Seq(Nat), NEW v \in Nat, Follows(s, t),
           \A j \in 1 .. Len(s) : s[j] < v, \A k \in 1 .. Len(t) : t[k] < v
    PROVE  Follows(s, Append(t, v))
<1> DEFINE u == Append(t, v)
<1>1. /\ Len(u) = Len(t) + 1 /\ u[Len(t) + 1] = v /\ \A k \in 1 .. Len(t) : u[k] = t[k]
      /\ Len(t) \in Nat
  OBVIOUS
<1> HIDE DEF u
<1>2. \A k \in 1 .. Len(u) : k = Len(t) + 1 \/ k \in 1 .. Len(t)
  BY <1>1
<1>3. ASSUME NEW j \in 1 .. Len(u), NEW k \in 1 .. Len(u), j < k PROVE u[j] < u[k]
  <2>1. j \in 1 .. Len(t)
    BY <1>1, <1>3
  <2> QED
    BY <1>1, <1>2, <1>3, <2>1 DEF Follows, InOrder
<1>4. ASSUME NEW j \in 1 .. Len(s), NEW k \in 1 .. Len(u) PROVE s[j] < u[k]
  BY <1>1, <1>2 DEF Follows
<1>5. Follows(s, u)
  BY <1>3, <1>4 DEF Follows, InOrder
<1> QED
  BY <1>5 DEF u

(* ... and a front part of the second may move behind the first while more  *)
(* of it is taken away.                                                     *)
LEMMA MoveFollows ==
    ASSUME NEW s \in Seq(Nat), NEW t \in Seq(Nat), Follows(s, t),
           NEW n \in 1 .. Len(t), NEW m \in 0 .. n
    PROVE  Follows(s \o SubSeq(t, 1, m), SubSeq(t, n + 1, Len(t)))
<1> DEFINE a == SubSeq(t, 1, m)
           b == SubSeq(t, n + 1, Len(t))
<1>0. Len(t) \in Nat /\ n \in Nat /\ n <= Len(t) /\ m \in Nat /\ m <= n
  OBVIOUS
<1>1. a \in Seq(Nat) /\ Len(a) = m /\ \A k \in 1 .. m : a[k] = t[k]
  BY <1>0
<1>2. /\ b \in Seq(Nat) /\ Len(b) = Len(t) - n /\ \A k \in 1 .. Len(t) - n : b[k] = t[n + k]
  BY <1>0, Parted
<1> HIDE DEF a, b
<1>3. \A k \in 1 .. m : k \in 1 .. Len(t)
  BY <1>0
<1>4. \A k \in 1 .. Len(b) : n + k \in 1 .. Len(t) /\ n + k > m
  BY <1>0, <1>2
<1>5. InOrder(a)
  BY <1>0, <1>1, <1>3 DEF InOrder, Follows
<1>6. InOrder(b)
  <2> SUFFICES ASSUME NEW j \in 1 .. Len(b), NEW k \in 1 .. Len(b), j < k PROVE b[j] < b[k]
    BY DEF InOrder
  <2>1. n + j \in 1 .. Len(t) /\ n + k \in 1 .. Len(t) /\ n + j < n + k
    BY <1>0, <1>4
  <2>2. t[n + j] < t[n + k]
    BY <2>1 DEF InOrder, Follows
  <2> QED
    BY <1>2, <2>2
<1>7. Follows(s, a)
  BY <1>1, <1>3, <1>5 DEF Follows
<1>8. InOrder(s \o a)
  BY <1>1, <1>7, InOrderParts
<1>9. ASSUME NEW j \in 1 .. Len(s \o a), NEW k \in 1 .. Len(b) PROVE (s \o a)[j] < b[k]
  <2>1. b[k] = t[n + k] /\ n + k \in 1 .. Len(t)
    BY <1>2, <1>4
  <2>2. /\ Len(s \o a) = Len(s) + m /\ Len(s) \in Nat
        /\ \A i \in 1 .. Len(s) : (s \o a)[i] = s[i]
        /\ \A i \in 1 .. m : (s \o a)[Len(s) + i] = a[i]
    BY <1>1, ConcatIndex
  <2>3. CASE j \in 1 .. Len(s)
    BY <2>1, <2>2, <2>3 DEF Follows
  <2>4. CASE j > Len(s)
    <3>1. PICK i \in 1 .. m : j = Len(s) + i
      <4>1. j - Len(s) \in 1 .. m /\ j = Len(s) + (j - Len(s))
        BY <1>0, <2>2, <2>4
      <4> QED
        BY <4>1
    <3>2. (s \o a)[j] = t[i] /\ i \in 1 .. Len(t) /\ i < n + k
      <4>1. (s \o a)[j] = t[i] /\ i \in 1 .. Len(t)
        BY <1>1, <1>3, <2>2, <3>1
      <4>2. i <= m /\ m < n + k /\ n + k \in Nat
        BY <1>0, <1>4
      <4> QED
        BY <1>0, <4>1, <4>2
    <3> QED
      BY <2>1, <3>2 DEF Follows, InOrder
  <2> QED
    BY <2>2, <2>3, <2>4
<1>10. Follows(s \o a, b)
  BY <1>6, <1>8, <1>9 DEF Follows
<1> QED
  BY <1>10 DEF a, b

-----------------------------------------------------------------------------
(* The records.                                                             *)
LEMMA RecordsFacts ==
    ASSUME LogInv
    PROVE  /\ Sound(log_ring, LogCapacity)
           /\ log_ring.items \in Seq(Nat) /\ Len(log_ring.items) \in Nat
           /\ log_ring.hidden \in Nat
           /\ written \in Seq(Nat) /\ Len(written) \in Nat
           /\ emitted \in Nat /\ dropped \in Nat /\ records_written \in Nat
           /\ Follows(written, log_ring.items)
           /\ records_written + Len(log_ring.items) + dropped = emitted
<1>1. Sound(log_ring, LogCapacity) /\ written \in Seq(Nat) /\ InOrder(written \o log_ring.items)
      /\ emitted \in Nat /\ dropped \in Nat /\ records_written \in Nat
      /\ records_written + Len(log_ring.items) + dropped = emitted
  BY DEF LogInv, RecordsInv
<1>2. log_ring.items \in Seq(Nat) /\ Len(log_ring.items) \in Nat /\ log_ring.hidden \in Nat
  BY <1>1, SoundFields
<1>3. Follows(written, log_ring.items) /\ Len(written) \in Nat
  BY <1>1, <1>2, InOrderParts
<1> QED
  BY <1>1, <1>2, <1>3

(* While the engine runs, main has not asked the logger to stop.            *)
LEMMA LoggerRunsOn ==
    ASSUME LogInv, engine # "exited"
    PROVE  /\ main \in {"join_producer", "join_engine"} /\ ~log_stop /\ ~log_stopping
           /\ logger # "exited"
BY DEF LogInv, LogStopIsSynchronized, LoggerInv

LEMMA LoggedPreserves ==
    ASSUME LogInv, engine # "exited", engine' = engine, emitted' = emitted + 1,
           UNCHANGED <<policy, main>>, Logged(emitted + 1)
    PROVE  LogInv'
<1> DEFINE items == log_ring.items
<1>0. /\ Sound(log_ring, LogCapacity) /\ items \in Seq(Nat) /\ Len(items) \in Nat
      /\ written \in Seq(Nat) /\ Len(written) \in Nat
      /\ emitted \in Nat /\ dropped \in Nat /\ records_written \in Nat
      /\ Follows(written, items) /\ records_written + Len(items) + dropped = emitted
  BY RecordsFacts
<1>1. UNCHANGED <<dropped, log_stop, logger, log_stopping, dirty, records_written, stream_good,
                  written, flushed>>
  BY DEF Logged, loggerVars, streamVars
<1>2. emitted + 1 \in Nat /\ log_ring' \in Pushes(log_ring, emitted + 1)
  BY <1>0 DEF Logged
<1>3. Sound(log_ring', LogCapacity) /\ log_ring'.items = Append(items, emitted + 1)
  BY <1>0, <1>2, PushedRing
<1> HIDE DEF items
<1>4. /\ log_ring'.items \in Seq(Nat) /\ Len(log_ring'.items) = Len(items) + 1
      /\ \A k \in 1 .. Len(items) : log_ring'.items[k] = items[k]
      /\ log_ring'.items[Len(items) + 1] = emitted + 1
  BY <1>0, <1>2, <1>3
<1>5. /\ \A k \in 1 .. Len(written) : written[k] <= emitted
      /\ \A k \in 1 .. Len(items) : items[k] <= emitted
  BY DEF LogInv, RecordsInv, items
<1>6. InOrder(written' \o log_ring'.items)
  <2>1. /\ \A j \in 1 .. Len(written) : written[j] < emitted + 1
        /\ \A k \in 1 .. Len(items) : items[k] < emitted + 1
    <3>1. /\ \A j \in 1 .. Len(written) : written[j] \in Nat
          /\ \A k \in 1 .. Len(items) : items[k] \in Nat
      BY <1>0
    <3> QED
      BY <1>0, <1>5, <3>1
  <2>2. Follows(written, Append(items, emitted + 1))
    BY <1>0, <1>2, <2>1, AppendFollows
  <2> QED
    BY <1>0, <1>1, <1>3, <1>4, <2>2, InOrderParts
<1>7. /\ \A k \in 1 .. Len(written') : written'[k] <= emitted'
      /\ \A k \in 1 .. Len(log_ring'.items) : log_ring'.items[k] <= emitted'
  <2>1. /\ \A j \in 1 .. Len(written) : written[j] \in Nat
        /\ \A k \in 1 .. Len(items) : items[k] \in Nat
    BY <1>0, SMTT(40)
  <2>2. \A k \in 1 .. Len(written) : written[k] <= emitted + 1
    BY <1>0, <1>5, <2>1
  <2>3. ASSUME NEW k \in 1 .. Len(log_ring'.items) PROVE log_ring'.items[k] <= emitted + 1
    <3>1. k = Len(items) + 1 \/ k \in 1 .. Len(items)
      BY <1>0, <1>4
    <3>2. CASE k = Len(items) + 1
      BY <1>0, <1>4, <3>2
    <3>3. CASE k \in 1 .. Len(items)
      <4>1. log_ring'.items[k] = items[k] /\ items[k] \in Nat /\ items[k] <= emitted
        BY <1>4, <1>5, <2>1, <3>3
      <4> QED
        BY <1>0, <4>1
    <3> QED
      BY <3>1, <3>2, <3>3
  <2> QED
    BY <1>1, <2>2, <2>3
<1>8. records_written' + Len(log_ring'.items) + dropped' = emitted' /\ emitted' \in Nat
  <2>1. PICK n \in Nat : n = Len(items)
    BY <1>0
  <2>2. records_written + (n + 1) + dropped = emitted + 1
    BY <1>0, <2>1, SMTT(40)
  <2> QED
    BY <1>0, <1>1, <1>4, <2>1, <2>2
<1>9. RecordsInv'
  BY <1>1, <1>3, <1>6, <1>7, <1>8 DEF LogInv, RecordsInv
<1>10. LogStopIsSynchronized' /\ LoggerInv'
  BY <1>1, LoggerRunsOn DEF LogInv, LogStopIsSynchronized, LoggerInv, IdleMeansFlushed
<1> QED
  BY <1>9, <1>10 DEF LogInv

LEMMA FullLogPreserves ==
    ASSUME LogInv, engine # "exited", engine' = engine, UNCHANGED <<policy, main>>,
           \/ policy = "drop" /\ Dropped /\ emitted' = emitted + 1
           \/ Refused /\ emitted' = emitted
    PROVE  LogInv'
<1>0. /\ Sound(log_ring, LogCapacity) /\ log_ring.items \in Seq(Nat)
      /\ Len(log_ring.items) \in Nat
      /\ written \in Seq(Nat) /\ Len(written) \in Nat
      /\ emitted \in Nat /\ dropped \in Nat /\ records_written \in Nat
      /\ records_written + Len(log_ring.items) + dropped = emitted
  BY RecordsFacts
<1>1. UNCHANGED <<log_stop, logger, log_stopping, dirty, records_written, stream_good,
                  written, flushed>>
  BY DEF Dropped, Refused, loggerVars, streamVars
<1>2. /\ Sound(log_ring', LogCapacity) /\ log_ring'.items = log_ring.items
      /\ log_ring'.hidden = log_ring.hidden
  BY <1>0, FullRing DEF Dropped, Refused
<1>3. PICK d \in {0, 1} :
         /\ dropped' = dropped + d /\ emitted' = emitted + d
         /\ policy = "retry" => d = 0
  <2>1. CASE policy = "drop" /\ Dropped /\ emitted' = emitted + 1
    BY <2>1 DEF Dropped
  <2>2. CASE Refused /\ emitted' = emitted
    <3>1. dropped' = dropped + 0 /\ emitted' = emitted + 0
      BY <1>0, <2>2 DEF Refused
    <3> QED
      BY <3>1
  <2> QED
    BY <2>1, <2>2
<1>a. d \in Nat /\ dropped' \in Nat /\ emitted' \in Nat /\ emitted <= emitted'
      /\ (policy = "retry" => dropped' = dropped)
  <2>1. d \in Nat
    BY <1>3
  <2>2. dropped + d \in Nat /\ emitted + d \in Nat /\ emitted <= emitted + d
    BY <1>0, <2>1
  <2>3. policy = "retry" => dropped' = dropped
    BY <1>0, <1>3
  <2> QED
    BY <1>3, <2>1, <2>2, <2>3
<1>4. /\ \A k \in 1 .. Len(written) : written[k] <= emitted'
      /\ \A k \in 1 .. Len(log_ring.items) : log_ring.items[k] <= emitted'
  <2>1. /\ \A j \in 1 .. Len(written) : written[j] \in Nat
        /\ \A k \in 1 .. Len(log_ring.items) : log_ring.items[k] \in Nat
    BY <1>0, SMTT(40)
  <2>2. /\ \A k \in 1 .. Len(written) : written[k] <= emitted
        /\ \A k \in 1 .. Len(log_ring.items) : log_ring.items[k] <= emitted
    BY DEF LogInv, RecordsInv
  <2>3. \A m \in Nat : m <= emitted => m <= emitted'
    BY <1>0, <1>a
  <2> QED
    BY <2>1, <2>2, <2>3
<1>5. records_written + Len(log_ring.items) + dropped' = emitted'
  <2>1. PICK n \in Nat : n = Len(log_ring.items)
    BY <1>0
  <2>2. records_written + n + dropped = emitted
    BY <1>0, <2>1
  <2>3. records_written \in Nat /\ dropped \in Nat /\ emitted \in Nat
    BY <1>0
  <2>4. records_written + n + (dropped + d) = emitted + d
    BY <1>a, <2>2, <2>3
  <2> QED
    BY <1>3, <2>1, <2>4
<1>6. RecordsInv'
  BY <1>1, <1>2, <1>a, <1>4, <1>5 DEF LogInv, RecordsInv, InOrder
<1>7. LogStopIsSynchronized' /\ LoggerInv'
  BY <1>1, <1>2, LoggerRunsOn DEF LogInv, LogStopIsSynchronized, LoggerInv, IdleMeansFlushed
<1> QED
  BY <1>6, <1>7 DEF LogInv

-----------------------------------------------------------------------------
(* The logger's thread.                                                     *)

(* What write() may leave in the stream: a front part of the batch behind   *)
(* what was there, all of it as long as the stream has not failed.          *)
LEMMA TakenRecords ==
    ASSUME NEW got \in Seq(Nat), StreamTakes(got), written \in Seq(Nat)
    PROVE  \E m \in 0 .. Len(got) :
              /\ written' = written \o SubSeq(got, 1, m)
              /\ stream_good' => stream_good /\ m = Len(got)
<1>0. Len(got) \in Nat /\ SubSeq(got, 1, Len(got)) = got
  OBVIOUS
<1>1. CASE stream_good /\ written' = written \o got /\ UNCHANGED stream_good
  <2>1. Len(got) \in 0 .. Len(got) /\ written' = written \o SubSeq(got, 1, Len(got))
    BY <1>0, <1>1
  <2> QED
    BY <1>1, <2>1
<1>2. ASSUME stream_good' = FALSE, NEW n \in 0 .. Len(got) - 1,
             written' = IF stream_good THEN written \o SubSeq(got, 1, n) ELSE written
      PROVE  \E m \in 0 .. Len(got) :
                /\ written' = written \o SubSeq(got, 1, m)
                /\ stream_good' => stream_good /\ m = Len(got)
  <2>1. n \in 0 .. Len(got) /\ 0 \in 0 .. Len(got) /\ ~stream_good'
    BY <1>0, <1>2
  <2>2. CASE stream_good
    BY <1>2, <2>1, <2>2
  <2>3. CASE ~stream_good
    <3>1. SubSeq(got, 1, 0) = <<>> /\ written \o <<>> = written
      OBVIOUS
    <3>2. written' = written \o SubSeq(got, 1, 0)
      BY <1>2, <2>3, <3>1
    <3> QED
      BY <2>1, <3>2
  <2> QED
    BY <2>2, <2>3
<1> QED
  BY <1>1, <1>2 DEF StreamTakes

LEMMA WriteBatchPreserves ==
    ASSUME LogInv, WriteBatch, UNCHANGED <<policy, main, emitted, engine>>
    PROVE  LogInv'
<1> DEFINE items == log_ring.items
<1>0. /\ Sound(log_ring, LogCapacity) /\ items \in Seq(Nat) /\ Len(items) \in Nat
      /\ written \in Seq(Nat) /\ Len(written) \in Nat /\ log_ring.hidden \in Nat
      /\ emitted \in Nat /\ dropped \in Nat /\ records_written \in Nat
      /\ Follows(written, items) /\ records_written + Len(items) + dropped = emitted
  BY RecordsFacts
<1>1. /\ UNCHANGED <<dropped, log_stop, logger, log_stopping, flushed>>
      /\ dirty' = TRUE /\ logger = "pop"
  BY DEF WriteBatch
<1>2. PICK pop \in Pops(log_ring, LogBatch) :
         /\ log_ring' = pop.ring
         /\ records_written' = records_written + Len(pop.got)
         /\ StreamTakes(pop.got)
  BY DEF WriteBatch
<1>3. PICK n \in 1 .. Len(items) :
         /\ pop.got = SubSeq(items, 1, n)
         /\ Sound(pop.ring, LogCapacity) /\ pop.ring.hidden <= log_ring.hidden
         /\ pop.ring.items = SubSeq(items, n + 1, Len(items))
  BY <1>0, PoppedRing
<1>4. PICK rest : rest = SubSeq(items, n + 1, Len(items))
  OBVIOUS
<1> HIDE DEF items
<1>5. /\ pop.got \in Seq(Nat) /\ Len(pop.got) = n
      /\ rest \in Seq(Nat) /\ Len(rest) = Len(items) - n
      /\ \A k \in 1 .. Len(items) - n : rest[k] = items[n + k]
  BY <1>0, <1>3, <1>4, Parted
<1>6. PICK m \in 0 .. n : /\ written' = written \o SubSeq(pop.got, 1, m)
                          /\ stream_good' => stream_good /\ m = n
  BY <1>0, <1>2, <1>5, TakenRecords
<1>7. n \in Nat /\ m \in Nat /\ m <= n /\ n <= Len(items)
  BY <1>0
<1>8. PICK a : a = SubSeq(items, 1, m)
  OBVIOUS
<1>9. a \in Seq(Nat) /\ Len(a) = m /\ \A k \in 1 .. m : a[k] = items[k]
  BY <1>0, <1>7, <1>8
<1>10. written' = written \o a
  <2>1. SubSeq(SubSeq(items, 1, n), 1, m) = SubSeq(items, 1, m)
    BY <1>0, <1>7
  <2> QED
    BY <1>3, <1>6, <1>8, <2>1
<1>11. /\ Sound(log_ring', LogCapacity) /\ log_ring'.items = rest
       /\ log_ring'.hidden <= log_ring.hidden
  BY <1>2, <1>3, <1>4
<1>12. log_ring'.hidden \in Nat
  BY <1>11, SoundFields
<1>13. /\ written' \in Seq(Nat) /\ Len(written') = Len(written) + m
       /\ \A k \in 1 .. Len(written) : written'[k] = written[k]
       /\ \A k \in 1 .. m : written'[Len(written) + k] = items[k]
  BY <1>0, <1>9, <1>10, ConcatIndex
<1>14. InOrder(written' \o log_ring'.items)
  <2>1. Follows(written \o SubSeq(items, 1, m), SubSeq(items, n + 1, Len(items)))
    BY <1>0, MoveFollows
  <2>2. Follows(written', rest)
    BY <1>4, <1>8, <1>10, <2>1
  <2> QED
    BY <1>5, <1>11, <1>13, <2>2, InOrderParts
<1>15. /\ \A k \in 1 .. Len(written) : written[k] <= emitted
       /\ \A k \in 1 .. Len(items) : items[k] <= emitted
  BY DEF LogInv, RecordsInv, items
<1>16. \A k \in 1 .. Len(written') : written'[k] <= emitted'
  <2> SUFFICES ASSUME NEW k \in 1 .. Len(written') PROVE written'[k] <= emitted'
    OBVIOUS
  <2>1. CASE k \in 1 .. Len(written)
    BY <1>1, <1>13, <1>15, <2>1
  <2>2. CASE k > Len(written)
    <3>1. PICK j \in 1 .. m : k = Len(written) + j
      <4>1. k - Len(written) \in 1 .. m /\ k = Len(written) + (k - Len(written))
        BY <1>0, <1>7, <1>13, <2>2
      <4> QED
        BY <4>1
    <3>2. j \in 1 .. Len(items)
      BY <1>0, <1>7
    <3> QED
      BY <1>13, <1>15, <3>1, <3>2
  <2> QED
    BY <1>0, <2>1, <2>2
<1>17. \A k \in 1 .. Len(rest) : rest[k] <= emitted'
  <2> SUFFICES ASSUME NEW k \in 1 .. Len(rest) PROVE rest[k] <= emitted
    OBVIOUS
  <2>1. n + k \in 1 .. Len(items) /\ k \in 1 .. Len(items) - n
    BY <1>0, <1>5, <1>7
  <2> QED
    BY <1>5, <1>15, <2>1
<1>18. records_written' \in Nat
       /\ records_written' + Len(log_ring'.items) + dropped' = emitted'
  <2>1. PICK l \in Nat : l = Len(items)
    BY <1>0
  <2>2. records_written + l + dropped = emitted
    BY <1>0, <2>1
  <2>3. records_written \in Nat /\ dropped \in Nat /\ emitted \in Nat
    BY <1>0
  <2>4. records_written + n + (l - n) + dropped = emitted
    BY <1>7, <2>2, <2>3
  <2>5. records_written' = records_written + n /\ Len(log_ring'.items) = l - n
    BY <1>2, <1>5, <1>11, <2>1
  <2> QED
    BY <1>1, <1>7, <2>3, <2>4, <2>5
<1>19. stream_good' => Len(written') = records_written'
  <2> SUFFICES ASSUME stream_good' PROVE Len(written') = records_written'
    OBVIOUS
  <2>1. stream_good /\ m = n
    BY <1>6
  <2>2. Len(written) = records_written
    BY <2>1 DEF LogInv, RecordsInv
  <2> QED
    BY <1>2, <1>5, <1>13, <2>1, <2>2
<1>20. stream_good' \in BOOLEAN
  BY <1>2 DEF StreamTakes, LogInv, RecordsInv
<1>21. RecordsInv'
  BY <1>1, <1>5, <1>11, <1>13, <1>14, <1>16, <1>17, <1>18, <1>19, <1>20
  DEF LogInv, RecordsInv
<1>22. LogStopIsSynchronized'
  <2>1. log_ring.hidden = 0 => log_ring'.hidden = 0
    BY <1>0, <1>11, <1>12
  <2> QED
    BY <1>1, <2>1 DEF LogInv, LogStopIsSynchronized
<1>23. LoggerInv'
  BY <1>1 DEF LogInv, LoggerInv, IdleMeansFlushed
<1> QED
  BY <1>21, <1>22, <1>23 DEF LogInv

(* What flush() leaves: all that was written is covered, or the stream has  *)
(* failed.                                                                  *)
LEMMA PopNothingPreserves ==
    ASSUME LogInv, PopNothing, UNCHANGED <<policy, main, emitted, engine>>
    PROVE  LogInv'
<1>0. /\ Sound(log_ring, LogCapacity) /\ log_ring.items \in Seq(Nat)
      /\ written \in Seq(Nat) /\ Len(written) \in Nat /\ log_ring.hidden \in Nat
  BY RecordsFacts
<1>1. /\ UNCHANGED <<dropped, log_stop, log_stopping, records_written>> /\ logger = "pop"
      /\ logger' = IF log_stopping THEN "exited" ELSE "check"
  BY DEF PopNothing
<1>2. /\ Sound(log_ring', LogCapacity) /\ log_ring'.items = log_ring.items
      /\ log_ring'.hidden <= log_ring.hidden /\ log_ring'.hidden \in Nat
      /\ log_ring'.hidden = Len(log_ring.items)
  BY <1>0, EmptyRing DEF PopNothing
<1>3. /\ dirty \in BOOLEAN /\ log_stopping \in BOOLEAN /\ stream_good \in BOOLEAN
      /\ flushed \in Nat /\ (~dirty /\ stream_good => flushed = Len(written))
      /\ logger \in {"pop", "check", "exited"}
  BY DEF LogInv, LogStopIsSynchronized, LoggerInv, RecordsInv
<1>4. /\ written' = written /\ stream_good' \in BOOLEAN /\ flushed' \in Nat
      /\ stream_good' => stream_good /\ flushed' = Len(written)
  <2>1. CASE (log_stopping \/ dirty) /\ Flush
    <3>1. CASE stream_good /\ flushed' = Len(written) /\ UNCHANGED stream_good
      BY <1>0, <1>3, <2>1, <3>1 DEF Flush
    <3>2. CASE stream_good' = FALSE /\ UNCHANGED flushed
      BY <1>3, <2>1, <3>2 DEF Flush
    <3> QED
      BY <2>1, <3>1, <3>2 DEF Flush
  <2>2. CASE ~dirty /\ UNCHANGED streamVars
    BY <1>3, <2>2 DEF streamVars
  <2> QED
    BY <2>1, <2>2 DEF PopNothing
<1>5. RecordsInv'
  BY <1>1, <1>2, <1>4 DEF LogInv, RecordsInv, InOrder
<1>6. LogStopIsSynchronized'
  <2>1. log_ring.hidden = 0 => log_ring'.hidden = 0
    BY <1>0, <1>2
  <2> QED
    BY <1>1, <2>1 DEF LogInv, LogStopIsSynchronized
<1>7. log_stopping => log_ring'.items = <<>>
  BY <1>0, <1>2 DEF LogInv, LogStopIsSynchronized
<1>8. dirty' \in BOOLEAN
  BY <1>3 DEF PopNothing
<1>9. main # "done"
  BY <1>1 DEF LogInv, LoggerInv
<1>10. LoggerInv'
  <2>1. logger' \in {"pop", "check", "exited"} /\ (logger' = "exited" => log_stopping)
    BY <1>1
  <2>2. IdleMeansFlushed' /\ (~dirty' /\ stream_good' => flushed' = Len(written'))
    BY <1>4 DEF IdleMeansFlushed
  <2> QED
    BY <1>1, <1>7, <1>8, <1>9, <2>1, <2>2 DEF LoggerInv
<1> QED
  BY <1>5, <1>6, <1>10 DEF LogInv

LEMMA ReadLogStopPreserves ==
    ASSUME LogInv, ReadLogStop, UNCHANGED <<policy, main, emitted, engine>>
    PROVE  LogInv'
<1>0. Sound(log_ring, LogCapacity)
  BY RecordsFacts
<1>1. /\ UNCHANGED <<dropped, log_stop, dirty, records_written, stream_good, written, flushed>>
      /\ logger = "check" /\ logger' = "pop" /\ log_stopping' \in {FALSE, log_stop}
  BY DEF ReadLogStop, streamVars
<1>2. /\ Sound(log_ring', LogCapacity) /\ log_ring'.items = log_ring.items
      /\ log_stopping' => log_ring'.hidden = 0
  BY <1>0, SynchronizedRing DEF ReadLogStop
<1>3. RecordsInv'
  BY <1>1, <1>2 DEF LogInv, RecordsInv, InOrder
<1>4. log_stopping' \in BOOLEAN /\ (log_stopping' => log_stop)
  <2>1. log_stop \in BOOLEAN /\ log_stopping' \in {FALSE, log_stop}
    BY <1>1 DEF LogInv, LogStopIsSynchronized
  <2>2. log_stopping' = FALSE \/ log_stopping' = log_stop
    BY <2>1, Zenon
  <2>3. CASE log_stopping' = FALSE
    BY <2>3
  <2>4. CASE log_stopping' = log_stop
    BY <2>1, <2>4
  <2> QED
    BY <2>2, <2>3, <2>4
<1>5. LogStopIsSynchronized'
  BY <1>1, <1>2, <1>4 DEF LogInv, LogStopIsSynchronized
<1>6. LoggerInv'
  BY <1>1 DEF LogInv, LoggerInv, IdleMeansFlushed
<1> QED
  BY <1>3, <1>5, <1>6 DEF LogInv

(* Main's joins and its call of stop.                                       *)
LEMMA MainPreserves ==
    ASSUME LogInv, Main
    PROVE  LogInv'
<1>1. UNCHANGED <<log_ring, dropped, logger, log_stopping, dirty, records_written, stream_good,
                  written, flushed, policy, emitted, engine>>
  BY DEF Main, JoinProducer, JoinEngine, CallStop, JoinLogger, StopLogger, loopVars, engineVars,
         logVars, loggerVars, streamVars
<1>2. RecordsInv'
  BY <1>1 DEF LogInv, RecordsInv, InOrder
<1>3. LogStopIsSynchronized'
  <2>1. CASE JoinProducer \/ JoinEngine \/ JoinLogger
    <3>1. log_stop' = log_stop
      BY <2>1 DEF JoinProducer, JoinEngine, JoinLogger, logVars
    <3> QED
      BY <1>1, <2>1, <3>1
      DEF LogInv, LogStopIsSynchronized, JoinProducer, JoinEngine, JoinLogger
  <2>2. CASE CallStop
    BY <1>1, <2>2 DEF LogInv, LogStopIsSynchronized, CallStop, StopLogger
  <2> QED
    BY <2>1, <2>2 DEF Main
<1>4. LoggerInv'
  <2>1. main' = "done" => logger = "exited"
    BY DEF LogInv, LoggerInv, Main, JoinProducer, JoinEngine, CallStop, JoinLogger
  <2> QED
    BY <1>1, <2>1 DEF LogInv, LoggerInv, IdleMeansFlushed
<1> QED
  BY <1>2, <1>3, <1>4 DEF LogInv

-----------------------------------------------------------------------------
LEMMA StepPreserves == IInv /\ [Next]_vars => IInv'
<1> SUFFICES ASSUME IInv, [Next]_vars PROVE LoopInv' /\ LogInv'
  BY DEF IInv, LoopInv, LogInv
<1>0. LoopInv /\ LogInv
  BY DEF IInv, LoopInv, LogInv
<1>1. CASE Feed
  <2>1. UNCHANGED engine
    BY <1>1 DEF Feed, Producer, PushCommand, RetryCommand, SetStop, engineVars
  <2>2. LoopInv'
    BY <1>0, <1>1, PushCommandPreserves, RetryCommandPreserves, SetStopPreserves
    DEF Feed, Producer
  <2> QED
    BY <1>0, <1>1, <2>1, <2>2, LogKept DEF Feed
<1>2. CASE EngineStep /\ UNCHANGED <<logVars, policy, main, emitted>>
  <2>1. engine # "exited"
    BY <1>0, <1>2 DEF EngineStep, PopCommands, PopNoCommand, ReadStop, BeginCommand, EndCommand,
                      LoopInv, EngineInv
  <2>2. LoopInv'
    BY <1>0, <1>2, PopCommandsPreserves, PopNoCommandPreserves, ReadStopPreserves,
       BeginCommandPreserves, EndCommandPreserves DEF EngineStep
  <2> QED
    BY <1>0, <1>2, <2>1, <2>2, LogKept
<1>3. CASE Sink
  <2>1. LoopInv'
    BY <1>0, <1>3, EmitPreserves DEF Sink
  <2>2. engine # "exited" /\ engine' = engine
    BY <1>0, <1>3 DEF Sink, Emit, LoopInv, EngineInv
  <2> QED
    BY <1>0, <1>3, <2>1, <2>2, LoggedPreserves, FullLogPreserves DEF Sink
<1>4. CASE SinkRetries
  <2>1. LoopInv'
    BY <1>0, <1>4, LoopKept DEF SinkRetries
  <2>2. engine # "exited" /\ engine' = engine
    BY <1>0, <1>4 DEF SinkRetries, loopVars, engineVars, LoopInv, EngineInv
  <2> QED
    BY <1>0, <1>4, <2>1, <2>2, FullLogPreserves DEF SinkRetries
<1>5. CASE Logger
  <2>1. LoopInv'
    BY <1>0, <1>5, LoopKept DEF Logger
  <2>2. UNCHANGED <<policy, main, emitted, engine>>
    BY <1>5 DEF Logger, loopVars, engineVars
  <2> QED
    BY <1>0, <1>5, <2>1, <2>2, WriteBatchPreserves, PopNothingPreserves, ReadLogStopPreserves
    DEF Logger, LoggerStep
<1>6. CASE Main
  <2>1. UNCHANGED loopVars
    BY <1>6 DEF Main, JoinProducer, JoinEngine, CallStop, JoinLogger
  <2> QED
    BY <1>0, <1>6, <2>1, LoopKept, MainPreserves
<1>7. CASE UNCHANGED vars
  <2>1. UNCHANGED loopVars /\ UNCHANGED <<logVars, policy, main, emitted>>
        /\ (engine = "exited" => engine' = "exited")
    BY <1>7 DEF vars, loopVars, engineVars
  <2> QED
    BY <1>0, <2>1, LoopKept, LogKept
<1> QED
  BY <1>1, <1>2, <1>3, <1>4, <1>5, <1>6, <1>7 DEF Next, Engine

LEMMA Invariance == Spec => []IInv
BY InitEstablishes, StepPreserves, PTL DEF Spec

(* The variables have their types.                                          *)
THEOREM PipelineIsTyped == Spec => []TypeOK
<1>1. IInv => TypeOK
  <2> SUFFICES ASSUME IInv PROVE TypeOK
    OBVIOUS
  <2>0. LoopInv /\ LogInv
    BY DEF IInv, LoopInv, LogInv
  <2>1. /\ cmd_ring \in Rings /\ log_ring \in Rings
        /\ Len(cmd_ring.items) <= CmdCapacity /\ Len(log_ring.items) <= LogCapacity
    <3>1. Sound(cmd_ring, CmdCapacity) /\ Sound(log_ring, LogCapacity)
      BY <2>0, CommandsFacts, RecordsFacts
    <3>2. /\ Len(cmd_ring.items) \in Nat /\ cmd_ring.unseen \in Nat
          /\ Len(cmd_ring.items) + cmd_ring.unseen <= CmdCapacity
      BY <3>1, SoundFields
    <3>3. /\ Len(log_ring.items) \in Nat /\ log_ring.unseen \in Nat
          /\ Len(log_ring.items) + log_ring.unseen <= LogCapacity
      BY <3>1, SoundFields
    <3>4. Len(cmd_ring.items) <= CmdCapacity
      BY <3>2
    <3>5. Len(log_ring.items) <= LogCapacity
      BY <3>3
    <3> QED
      BY <3>1, <3>4, <3>5 DEF Sound
  <2>2. sent \in 0 .. Commands /\ processed \in 0 .. Commands /\ measured \in 0 .. Commands
    <3>1. PICK b \in Nat, l \in Nat : b = Len(batch) /\ l = Len(cmd_ring.items)
      BY <2>0, CommandsFacts
    <3>2. /\ processed \in Nat /\ sent \in 0 .. Commands /\ Commands \in Nat /\ Warmup \in Nat
          /\ processed + b + l = sent
      BY <2>0, <3>1, CommandsFacts
    <3>3. processed \in 0 .. Commands
      BY <3>2
    <3>4. measured = processed \/ (processed >= Warmup /\ measured = processed - Warmup)
      BY <3>2 DEF IInv, WindowInv
    <3> QED
      BY <3>2, <3>3, <3>4
  <2>3. /\ producer \in {"pushing", "exited"} /\ policy \in {"drop", "retry"}
        /\ engine \in {"pop", "process", "check", "exited"}
        /\ logger \in {"pop", "check", "exited"}
        /\ main \in {"join_producer", "join_engine", "stop_logger", "join_logger", "done"}
        /\ batch \in Seq(Nat) /\ written \in Seq(Nat) /\ to_emit \in 0 .. MaxEvents
    BY DEF IInv, StopIsSynchronized, EngineInv, CommandsInv, RecordsInv, LoggerInv,
           LogStopIsSynchronized
  <2>4. {stop, log_stop, stopping, log_stopping, dirty, under_way, stream_good} \subseteq BOOLEAN
    BY DEF IInv, StopIsSynchronized, EngineInv, RecordsInv, LoggerInv, LogStopIsSynchronized
  <2>5. {dropped, records_written, flushed, emitted} \subseteq Nat
    BY DEF IInv, RecordsInv
  <2> QED
    BY <2>1, <2>2, <2>3, <2>4, <2>5 DEF TypeOK
<1> QED
  BY <1>1, Invariance, PTL

(* No command is lost, repeated or reordered on its way to the book, and    *)
(* none is left when the engine leaves (matching_engine.h:79-81).           *)
THEOREM PipelineLosesNoCommand == Spec => []NoCommandIsLost
<1>1. IInv => NoCommandIsLost
  <2> SUFFICES ASSUME IInv PROVE CommandsInOrder /\ EngineDrainsAll
    BY DEF NoCommandIsLost
  <2>0. LoopInv
    BY DEF IInv, LoopInv
  <2>1. PICK items \in Seq(Nat) : items = cmd_ring.items
    BY <2>0, CommandsFacts
  <2>2. /\ batch \in Seq(Nat) /\ Len(batch) \in Nat /\ Len(items) \in Nat
        /\ processed \in Nat /\ sent \in Nat /\ processed + Len(batch) + Len(items) = sent
        /\ \A k \in 1 .. Len(batch) : batch[k] = processed + k
        /\ \A k \in 1 .. Len(items) : items[k] = processed + Len(batch) + k
    BY <2>0, <2>1, CommandsFacts
  <2>3. PICK b \in Nat, l \in Nat : b = Len(batch) /\ l = Len(items)
    BY <2>2
  <2>4. sent - processed = b + l
    BY <2>2, <2>3
  <2>5. CommandsInOrder
    <3> DEFINE st == batch \o items
    <3>1. /\ st \in Seq(Nat) /\ Len(st) = b + l
          /\ \A k \in 1 .. b : st[k] = batch[k]
          /\ \A k \in 1 .. l : st[b + k] = items[k]
      BY <2>2, <2>3, ConcatIndex
    <3> HIDE DEF st
    <3>2. ASSUME NEW k \in 1 .. b + l PROVE st[k] = processed + k
      <4>1. CASE k <= b
        BY <2>2, <2>3, <3>1, <4>1
      <4>2. CASE k > b
        <5>1. PICK j \in 1 .. l : k = b + j
          <6>1. k - b \in 1 .. l /\ k = b + (k - b)
            BY <4>2
          <6> QED
            BY <6>1
        <5>2. st[k] = items[j] /\ items[j] = processed + b + j
          BY <2>2, <2>3, <3>1, <5>1
        <5> QED
          BY <2>2, <5>1, <5>2
      <4> QED
        BY <4>1, <4>2
    <3>3. st = [k \in 1 .. b + l |-> processed + k]
      BY <3>1, <3>2
    <3> QED
      BY <2>1, <2>4, <3>3 DEF CommandsInOrder, st
  <2>6. EngineDrainsAll
    <3> SUFFICES ASSUME engine = "exited" PROVE processed = Commands /\ producer = "exited"
      BY DEF EngineDrainsAll
    <3>1. cmd_ring.items = <<>> /\ batch = <<>> /\ producer = "exited" /\ sent = Commands
      BY DEF IInv, EngineInv, StopIsSynchronized
    <3> QED
      BY <2>1, <2>2, <3>1
  <2> QED
    BY <2>5, <2>6
<1> QED
  BY <1>1, Invariance, PTL

(* The window that is reported holds the commands after the warm-up, each   *)
(* once.                                                                    *)
THEOREM PipelineWindowIsExact == Spec => []WindowIsExact
<1>1. IInv /\ NoCommandIsLost => WindowIsExact
  BY CommandsFacts DEF IInv, LoopInv, WindowInv, NoCommandIsLost, EngineDrainsAll, WindowIsExact
<1> QED
  BY <1>1, Invariance, PipelineLosesNoCommand, PTL

(* A logger that sleeps or has exited has flushed what it has written.      *)
THEOREM PipelineIdleMeansFlushed == Spec => []IdleMeansFlushed
<1>1. IInv => IdleMeansFlushed
  BY DEF IInv, LoggerInv
<1> QED
  BY <1>1, Invariance, PTL

(* Every event is written, on its way or counted as dropped, and the stream *)
(* keeps their order.                                                       *)
THEOREM PipelineAccountsForRecords == Spec => []RecordsAreAccounted
<1>1. IInv => RecordsAreAccounted
  BY DEF IInv, RecordsInv, RecordsAreAccounted
<1> QED
  BY <1>1, Invariance, PTL

(* When run_e2e comes back every record the logger took is written and      *)
(* flushed (async_logger.h:130-135).                                        *)
THEOREM PipelineLeavesNothingBehind == Spec => []EverythingIsOut
<1>1. IInv => EverythingIsOut
  <2> SUFFICES ASSUME IInv, main = "done"
               PROVE  /\ log_ring.items = <<>>
                      /\ records_written + dropped = emitted
                      /\ stream_good => flushed = emitted - dropped
    BY DEF EverythingIsOut
  <2>1. logger = "exited" /\ log_ring.items = <<>> /\ (stream_good => flushed = Len(written))
    BY DEF IInv, LoggerInv, IdleMeansFlushed
  <2>2. /\ records_written \in Nat /\ dropped \in Nat /\ emitted \in Nat
        /\ records_written + Len(log_ring.items) + dropped = emitted
        /\ stream_good => Len(written) = records_written
    BY DEF IInv, RecordsInv
  <2>3. records_written + dropped = emitted
    BY <2>1, <2>2
  <2>4. stream_good => flushed = emitted - dropped
    BY <2>1, <2>2, <2>3
  <2> QED
    BY <2>1, <2>3, <2>4
<1> QED
  BY <1>1, Invariance, PTL

-----------------------------------------------------------------------------
(* The recorders, beginning with how Pow2 recurs and with a part of it.     *)
Doubles(g) == g = [n \in Nat |-> IF n = 0 THEN 1 ELSE 2 * g[n - 1]]
DoublesTo(g, m) == g = [n \in 0 .. m |-> IF n = 0 THEN 1 ELSE 2 * g[n - 1]]

LEMMA DoublesToExists == \A m \in Nat : \E g : DoublesTo(g, m)
<1> DEFINE D == {m \in Nat : \E g : DoublesTo(g, m)}
<1>1. 0 \in D
  <2> DEFINE g == [n \in 0 .. 0 |-> 1]
  <2>1. g = [n \in 0 .. 0 |-> IF n = 0 THEN 1 ELSE 2 * g[n - 1]]
    OBVIOUS
  <2>2. DoublesTo(g, 0)
    BY <2>1 DEF DoublesTo
  <2> QED
    BY <2>2
<1>2. ASSUME NEW m \in Nat, m \in D PROVE m + 1 \in D
  <2>1. PICK g : DoublesTo(g, m)
    BY <1>2
  <2> DEFINE h == [n \in 0 .. m + 1 |-> IF n = 0 THEN 1 ELSE 2 * g[n - 1]]
  <2>2. \A n \in 0 .. m : h[n] = g[n]
    BY <2>1 DEF DoublesTo
  <2>3. \A n \in 0 .. m + 1 : n # 0 => n - 1 \in 0 .. m
    OBVIOUS
  <2>4. \A n \in 0 .. m + 1 : n # 0 => g[n - 1] = h[n - 1]
    BY <2>2, <2>3
  <2>5. h = [n \in 0 .. m + 1 |-> IF n = 0 THEN 1 ELSE 2 * h[n - 1]]
    BY <2>4, Zenon
  <2> HIDE DEF h
  <2>6. DoublesTo(h, m + 1)
    BY <2>5 DEF DoublesTo
  <2>7. m + 1 \in Nat /\ \E k : DoublesTo(k, m + 1)
    BY <2>6
  <2> QED
    BY <2>7, Zenon
<1> HIDE DEF D
<1>3. Nat \subseteq D
  BY <1>1, <1>2, NatSetInduction
<1> QED
  BY <1>3 DEF D

LEMMA DoublesExists == \E g : Doubles(g)
<1> DEFINE H(m) == CHOOSE g : DoublesTo(g, m)
           G == [n \in Nat |-> H(n)[n]]
<1>1. \A m \in Nat : DoublesTo(H(m), m)
  BY DoublesToExists
<1> HIDE DEF H
<1>2. \A m \in Nat : \A n \in 0 .. m :
         H(m)[n] = IF n = 0 THEN 1 ELSE 2 * H(m)[n - 1]
  BY <1>1 DEF DoublesTo
<1> DEFINE D == {n \in Nat : \A m \in Nat : n <= m => H(m)[n] = H(n)[n]}
<1>3. 0 \in D
  BY <1>2
<1>4. ASSUME NEW n \in Nat, n \in D PROVE n + 1 \in D
  <2>1. \A m \in Nat : n <= m => H(m)[n] = H(n)[n]
    BY <1>4
  <2> SUFFICES ASSUME NEW m \in Nat, n + 1 <= m PROVE H(m)[n + 1] = H(n + 1)[n + 1]
    OBVIOUS
  <2>2. H(m)[n + 1] = 2 * H(m)[n]
    BY <1>2, (n + 1) - 1 = n
  <2>3. H(n + 1)[n + 1] = 2 * H(n + 1)[n]
    BY <1>2, (n + 1) - 1 = n
  <2>4. H(m)[n] = H(n)[n] /\ H(n + 1)[n] = H(n)[n]
    BY <2>1
  <2> QED
    BY <2>2, <2>3, <2>4
<1>5. Nat \subseteq D
  <2> HIDE DEF D
  <2> QED
    BY <1>3, <1>4, NatSetInduction
<1>6. \A n \in Nat : H(n)[n] = IF n = 0 THEN 1 ELSE 2 * G[n - 1]
  <2> TAKE n \in Nat
  <2>1. CASE n = 0
    BY <2>1, <1>2
  <2>2. CASE n # 0
    <3>1. n - 1 \in Nat /\ n - 1 <= n
      BY <2>2
    <3>2. H(n)[n - 1] = H(n - 1)[n - 1]
      BY <3>1, <1>5
    <3>3. H(n)[n] = 2 * H(n)[n - 1]
      BY <2>2, <1>2
    <3> QED
      BY <2>2, <3>1, <3>2, <3>3
  <2> QED
    BY <2>1, <2>2
<1>7. G = [n \in Nat |-> IF n = 0 THEN 1 ELSE 2 * G[n - 1]]
  BY <1>6
<1> HIDE DEF G
<1> QED
  BY <1>7 DEF Doubles

LEMMA Pow2Recursion ==
    /\ Pow2[0] = 1
    /\ \A n \in Nat : Pow2[n + 1] = 2 * Pow2[n]
<1>1. Pow2 = CHOOSE g : Doubles(g)
  BY DEF Pow2, Doubles
<1>2. Doubles(Pow2)
  BY <1>1, DoublesExists
<1>3. \A n \in Nat : Pow2[n] = IF n = 0 THEN 1 ELSE 2 * Pow2[n - 1]
  BY <1>2 DEF Doubles
<1>4. \A n \in Nat : n + 1 \in Nat /\ n + 1 # 0 /\ (n + 1) - 1 = n
  OBVIOUS
<1> QED
  BY <1>3, <1>4

(* Powers of two are positive and ascend.                                   *)
LEMMA Pow2Type == \A n \in Nat : Pow2[n] \in Nat \ {0}
<1> DEFINE D == {n \in Nat : Pow2[n] \in Nat \ {0}}
<1>1. 0 \in D
  BY Pow2Recursion
<1>2. ASSUME NEW n \in Nat, n \in D PROVE n + 1 \in D
  <2>1. Pow2[n] \in Nat \ {0} /\ Pow2[n + 1] = 2 * Pow2[n]
    BY <1>2, Pow2Recursion
  <2> QED
    BY <2>1
<1> HIDE DEF D
<1>3. Nat \subseteq D
  BY <1>1, <1>2, NatSetInduction
<1> QED
  BY <1>3 DEF D

LEMMA Pow2Ascends == \A m, n \in Nat : m <= n => Pow2[m] <= Pow2[n]
<1> TAKE m \in Nat
<1> DEFINE D == {k \in Nat : Pow2[m] <= Pow2[m + k]}
<1>1. 0 \in D
  BY Pow2Type
<1>2. ASSUME NEW k \in Nat, k \in D PROVE k + 1 \in D
  <2>1. m + k \in Nat /\ Pow2[(m + k) + 1] = 2 * Pow2[m + k]
    BY Pow2Recursion
  <2>2. Pow2[m] \in Nat /\ Pow2[m + k] \in Nat
    BY <2>1, Pow2Type
  <2>3. (m + k) + 1 = m + (k + 1) /\ Pow2[m] <= Pow2[m + k]
    BY <1>2
  <2> QED
    BY <2>1, <2>2, <2>3
<1> HIDE DEF D
<1>3. Nat \subseteq D
  BY <1>1, <1>2, NatSetInduction
<1> TAKE n \in Nat
<1> HAVE m <= n
<1>4. n - m \in Nat /\ m + (n - m) = n
  OBVIOUS
<1> QED
  BY <1>3, <1>4 DEF D

-----------------------------------------------------------------------------
(* What interpolate adds to the low end of a bucket.                        *)
Share(span, n, k) == (span \div n) * k + ((span % n) * k) \div n

LEMMA ShareBounds ==
    ASSUME NEW span \in Nat, NEW n \in Nat \ {0}, NEW k \in 0 .. n - 1
    PROVE  Share(span, n, k) \in Nat /\ Share(span, n, k) <= span
<1>0. span \div n \in Nat /\ span % n \in Nat /\ span = (span \div n) * n + (span % n)
  BY QuotientFacts
<1>1. PICK q \in Nat, r \in Nat : q = span \div n /\ r = span % n /\ span = q * n + r
  BY <1>0
<1>2. q * k \in Nat /\ q * n \in Nat /\ r * k \in Nat /\ r * n \in Nat
  BY ProductType
<1>3. q * k <= q * n /\ r * k <= r * n
  BY <1>1, ProductAscends
<1>4. (r * k) \div n <= r /\ (r * k) \div n \in Nat
  BY <1>2, <1>3, QuotientAtMost, QuotientFacts
<1>5. Share(span, n, k) = q * k + (r * k) \div n
  BY <1>1 DEF Share
<1> QED
  BY <1>1, <1>2, <1>3, <1>4, <1>5

LEMMA ShareAscends ==
    ASSUME NEW span \in Nat, NEW n \in Nat \ {0}, NEW k \in 0 .. n - 1, NEW m \in 0 .. n - 1,
           k <= m
    PROVE  Share(span, n, k) <= Share(span, n, m)
<1>0. span \div n \in Nat /\ span % n \in Nat /\ span = (span \div n) * n + (span % n)
  BY QuotientFacts
<1>1. PICK q \in Nat, r \in Nat : q = span \div n /\ r = span % n /\ span = q * n + r
  BY <1>0
<1>2. q * k \in Nat /\ q * m \in Nat /\ r * k \in Nat /\ r * m \in Nat
  BY ProductType
<1>3. q * k <= q * m /\ r * k <= r * m
  BY <1>1, ProductAscends
<1>4. (r * k) \div n \in Nat /\ (r * m) \div n \in Nat /\ (r * k) \div n <= (r * m) \div n
  BY <1>2, <1>3, QuotientAscends, QuotientFacts
<1>5. Share(span, n, k) = q * k + (r * k) \div n /\ Share(span, n, m) = q * m + (r * m) \div n
  BY <1>1 DEF Share
<1> QED
  BY <1>2, <1>3, <1>4, <1>5

(* The rank of a percentile among N samples: the least number of samples    *)
(* that is at least num/den of them, and one if that is none.               *)
Ceiling(N, num, den) == (N * num + den - 1) \div den

LEMMA CeilingFacts ==
    ASSUME NEW N \in Nat, NEW num \in Nat, NEW den \in Nat \ {0}
    PROVE  /\ Ceiling(N, num, den) \in Nat
           /\ \A x \in Nat : Ceiling(N, num, den) <= x <=> N * num <= x * den
<1> DEFINE P == N * num
           a == P + den - 1
<1>1. P \in Nat /\ a \in Nat
  BY ProductType
<1>2. PICK q \in Nat : q = a \div den /\ q * den <= a /\ a < (q + 1) * den
  BY <1>1, QuotientBounds, QuotientFacts
<1>3. Ceiling(N, num, den) = q
  BY <1>2 DEF Ceiling
<1> HIDE DEF P
<1>4. q * den \in Nat /\ (q + 1) * den = q * den + den
  BY ProductType
<1>5. P <= q * den
  BY <1>1, <1>2, <1>4
<1>6. ASSUME NEW x \in Nat, q <= x PROVE P <= x * den
  <2>1. q * den <= x * den /\ x * den \in Nat
    BY <1>6, ProductAscends, ProductType
  <2> QED
    BY <2>1, <1>1, <1>4, <1>5
<1>7. ASSUME NEW x \in Nat, P <= x * den PROVE q <= x
  <2>1. x * den \in Nat
    BY ProductType
  <2>2. q * den <= x * den + den - 1
    BY <2>1, <1>1, <1>2, <1>4, <1>7
  <2>3. (x + 1) * den = x * den + den
    BY <2>1
  <2>4. ~((x + 1) * den <= q * den)
    BY <2>1, <2>2, <2>3, <1>4
  <2>5. ~(x + 1 <= q)
    BY <2>4, ProductAscends
  <2> QED
    BY <2>5
<1>8. \A x \in Nat : q <= x <=> P <= x * den
  BY <1>6, <1>7
<1> QED
  BY <1>3, <1>8 DEF P

LEMMA CeilingAscends ==
    ASSUME NEW N \in Nat, NEW a \in Nat, NEW b \in Nat \ {0}, NEW c \in Nat,
           NEW d \in Nat \ {0}, a * d <= c * b
    PROVE  Ceiling(N, a, b) <= Ceiling(N, c, d)
<1>1. PICK q \in Nat : q = Ceiling(N, c, d)
  BY CeilingFacts
<1>2. N * c <= q * d
  BY <1>1, CeilingFacts
<1>3. /\ N * c \in Nat /\ q * d \in Nat /\ N * a \in Nat /\ q * b \in Nat
      /\ a * d \in Nat /\ c * b \in Nat
  BY ProductType
<1>4. (N * c) * b <= (q * d) * b
  BY <1>2, <1>3, ProductAscends
<1>5. N * (a * d) <= N * (c * b)
  BY <1>3, ProductAscends
<1>6. (N * c) * b = N * (c * b) /\ N * (a * d) = (N * a) * d /\ (q * d) * b = (q * b) * d
  OBVIOUS
<1>7. (N * c) * b \in Nat /\ (q * d) * b \in Nat /\ (N * a) * d \in Nat
  BY <1>3, ProductType
<1>8. (N * a) * d <= (q * b) * d
  BY <1>4, <1>5, <1>6, <1>7
<1>9. N * a <= q * b
  BY <1>3, <1>8, ProductCancels
<1> QED
  BY <1>1, <1>9, CeilingFacts

(* The exact conversion, when the result fits a word of W values.           *)
Converted(rate, t, N) == (t \div rate) * N + ((t % rate) * N) \div rate

LEMMA ConversionIsFloor ==
    ASSUME NEW rate \in Nat \ {0}, NEW t \in Nat, NEW N \in Nat
    PROVE  /\ Converted(rate, t, N) \in Nat
           /\ (t \div rate) * N \in Nat /\ (t % rate) * N \in Nat
           /\ (t \div rate) * N <= Converted(rate, t, N)
           /\ (t % rate) * N <= rate * N
           /\ Converted(rate, t, N) * rate <= t * N
           /\ t * N < (Converted(rate, t, N) + 1) * rate
<1>1. PICK s \in Nat, m \in 0 .. rate - 1 :
         s = t \div rate /\ m = t % rate /\ t = s * rate + m
  BY QuotientFacts
<1>2. s * N \in Nat /\ m * N \in Nat
  BY ProductType
<1>3. PICK q \in Nat : q = (m * N) \div rate /\ q * rate <= m * N /\ m * N < (q + 1) * rate
  BY <1>2, QuotientFacts, QuotientBounds
<1>4. Converted(rate, t, N) = s * N + q
  BY <1>1, <1>3 DEF Converted
<1>5. t * N = (s * N) * rate + m * N
  <2>1. t * N = (s * rate) * N + m * N
    BY <1>1
  <2>2. (s * rate) * N = (s * N) * rate
    OBVIOUS
  <2> QED
    BY <2>1, <2>2
<1>6. m * N <= rate * N
  BY ProductAscends
<1>7. PICK x \in Nat : x = s * N
  BY <1>2
<1>8. (x + q) * rate = x * rate + q * rate /\ (x + q + 1) * rate = x * rate + (q + 1) * rate
  <2>1. \A a, b \in Nat : (a + b) * rate = a * rate + b * rate
    OBVIOUS
  <2>2. x + q + 1 = x + (q + 1) /\ q + 1 \in Nat
    OBVIOUS
  <2> QED
    BY <2>1, <2>2
<1>9. x * rate \in Nat /\ q * rate \in Nat /\ (q + 1) * rate \in Nat
  BY ProductType
<1>10. (x + q) * rate <= x * rate + m * N /\ x * rate + m * N < (x + q + 1) * rate
  BY <1>2, <1>3, <1>8, <1>9
<1> QED
  BY <1>1, <1>2, <1>3, <1>4, <1>5, <1>6, <1>7, <1>10

LEMMA WidthType == Width \in Nat \ {0} /\ Pow2[Width] \in Nat \ {0}
BY LatencyAssumption, Pow2Type

LEMMA WordKeeps == \A n \in Nat : n < Pow2[Width] => Word(n) = n
<1> TAKE n \in Nat
<1> HAVE n < Pow2[Width]
<1>1. PICK W \in Nat \ {0} : W = Pow2[Width]
  BY WidthType
<1>2. n % W = n
  BY <1>1
<1> QED
  BY <1>1, <1>2 DEF Word

LEMMA NanosAreExact ==
    ASSUME NEW rate \in Nat \ {0}, NEW t \in Nat, Fits(rate, t),
           rate * NanosPerSecond <= Pow2[Width]
    PROVE  ticks_to_nanos(rate, t) = Converted(rate, t, NanosPerSecond)
<1>1. PICK W \in Nat \ {0} : W = Pow2[Width]
  BY WidthType
<1>2. PICK N \in Nat \ {0} : N = NanosPerSecond
  BY ReadingsAssumption
<1>3. PICK c \in Nat : c = Converted(rate, t, N) /\ c * rate <= t * N
  BY ConversionIsFloor
<1>4. PICK x \in Nat : x = (t \div rate) * N /\ x <= c
  BY <1>3, ConversionIsFloor
<1>5. PICK y \in Nat : y = (t % rate) * N /\ y < rate * N
  <2>1. PICK m \in 0 .. rate - 1 : m = t % rate
    BY QuotientFacts
  <2>2. m * N \in Nat /\ rate * N \in Nat /\ (m + 1) * N <= rate * N /\ (m + 1) * N = m * N + N
    BY <2>1, ProductType, ProductAscends
  <2> QED
    BY <2>1, <2>2
<1>6. c < W
  <2>1. t * N < rate * W
    BY <1>1, <1>2 DEF Fits
  <2>2. c * rate \in Nat /\ t * N \in Nat /\ rate * W \in Nat /\ W * rate = rate * W
    BY ProductType
  <2>3. ~(W * rate <= c * rate)
    BY <1>3, <2>1, <2>2
  <2> QED
    BY <2>3, ProductAscends
<1>7. y < W
  BY <1>1, <1>2, <1>5, ProductType
<1>8. Word(x) = x /\ Word(y) = y /\ Word(c) = c
  BY <1>1, <1>4, <1>6, <1>7, WordKeeps
<1>9. c = x + y \div rate
  BY <1>3, <1>4, <1>5 DEF Converted
<1> QED
  BY <1>2, <1>3, <1>4, <1>5, <1>8, <1>9 DEF ticks_to_nanos

(* What the report needs of the conversion: rounded down, and in order.     *)
LEMMA NanosOfTicks ==
    ASSUME NEW rate \in Nat \ {0}, NEW most \in Nat, Fits(rate, most),
           rate * NanosPerSecond <= Pow2[Width]
    PROVE  /\ \A t \in 0 .. most :
                 /\ ticks_to_nanos(rate, t) * rate <= t * NanosPerSecond
                 /\ t * NanosPerSecond < (ticks_to_nanos(rate, t) + 1) * rate
           /\ \A t, u \in 0 .. most :
                 t <= u => ticks_to_nanos(rate, t) <= ticks_to_nanos(rate, u)
<1>1. PICK N \in Nat \ {0} : N = NanosPerSecond
  BY ReadingsAssumption
<1>2. ASSUME NEW t \in 0 .. most
      PROVE  /\ ticks_to_nanos(rate, t) \in Nat
             /\ ticks_to_nanos(rate, t) * rate <= t * N
             /\ t * N < (ticks_to_nanos(rate, t) + 1) * rate
  <2>1. t * N <= most * N /\ t * N \in Nat /\ most * N \in Nat
    BY ProductAscends, ProductType
  <2>2. rate * Pow2[Width] \in Nat
    BY WidthType, ProductType
  <2>3. Fits(rate, t)
    BY <1>1, <2>1, <2>2 DEF Fits
  <2>4. ticks_to_nanos(rate, t) = Converted(rate, t, N)
    BY <1>1, <2>3, NanosAreExact
  <2> QED
    BY <2>4, ConversionIsFloor
<1>3. ASSUME NEW t \in 0 .. most, NEW u \in 0 .. most, t <= u
      PROVE  ticks_to_nanos(rate, t) <= ticks_to_nanos(rate, u)
  <2>1. PICK a \in Nat : a = ticks_to_nanos(rate, t) /\ a * rate <= t * N
    BY <1>2
  <2>2. PICK b \in Nat : b = ticks_to_nanos(rate, u) /\ u * N < (b + 1) * rate
    BY <1>2
  <2>3. t * N <= u * N
    BY <1>3, ProductAscends
  <2>4. /\ a * rate \in Nat /\ t * N \in Nat /\ u * N \in Nat /\ (b + 1) * rate \in Nat
        /\ b + 1 \in Nat
    BY ProductType
  <2>5. ~((b + 1) * rate <= a * rate)
    BY <2>1, <2>2, <2>3, <2>4
  <2>6. ~(b + 1 <= a)
    BY <2>4, <2>5, ProductAscends
  <2> QED
    BY <2>1, <2>2, <2>6
<1> QED
  BY <1>1, <1>2, <1>3

LEMMA RateType == \A r \in Readings : measure(r) \in Nat \ {0}
<1> TAKE r \in Readings
<1>1. PICK N \in Nat \ {0} : N = NanosPerSecond
  BY ReadingsAssumption
<1>2. PICK c0 \in Int, c1 \in Int, ns \in Nat : c0 = r[1] /\ c1 = r[2] /\ ns = r[3]
  <2>1. r \in (0 .. Pow2[Width] - 1) \X (0 .. Pow2[Width] - 1) \X Nat
    BY ReadingsAssumption
  <2> QED
    BY <2>1
<1> DEFINE ticks == c1 - c0
<1>3. CASE ticks > 0 /\ ns > 0
  <2>1. ticks * N \in Nat
    BY <1>3, ProductType
  <2>2. (ticks * N) \div ns \in Nat
    BY <1>3, <2>1, QuotientFacts
  <2> QED
    BY <1>1, <1>2, <1>3, <2>2 DEF measure
<1>4. CASE ~(ticks > 0 /\ ns > 0)
  BY <1>1, <1>2, <1>4 DEF measure
<1> QED
  BY <1>3, <1>4

-----------------------------------------------------------------------------
(* Buckets.                                                                 *)
LEMMA BucketFacts ==
    /\ \A b \in Buckets : /\ b \in Nat /\ bucket_lo(b) \in Nat
                          /\ bucket_hi(b) = Pow2[b] - 1 /\ bucket_hi(b) \in Nat
                          /\ bucket_lo(b) <= bucket_hi(b)
                          /\ bucket_hi(b) < Pow2[Width]
    /\ \A a, b \in Buckets : a < b => bucket_hi(a) < bucket_lo(b)
<1>0. Buckets = 0 .. Width /\ Width \in Nat
  BY WidthType DEF Buckets
<1>1. ASSUME NEW b \in Buckets
      PROVE  /\ b \in Nat /\ bucket_lo(b) \in Nat
             /\ bucket_hi(b) = Pow2[b] - 1 /\ bucket_hi(b) \in Nat
             /\ bucket_lo(b) <= bucket_hi(b)
             /\ bucket_hi(b) < Pow2[Width]
  <2>1. b \in Nat /\ b <= Width
    BY <1>0
  <2>2. Pow2[b] \in Nat \ {0} /\ Pow2[b] <= Pow2[Width] /\ Pow2[Width] \in Nat
    BY <1>0, <2>1, Pow2Type, Pow2Ascends
  <2>3. CASE b = 0
    BY <2>1, <2>2, <2>3, Pow2Recursion DEF bucket_lo, bucket_hi
  <2>4. CASE b # 0
    <3>1. b - 1 \in Nat /\ (b - 1) + 1 = b
      BY <2>1, <2>4
    <3>2. Pow2[b - 1] \in Nat \ {0}
      BY <3>1, Pow2Type
    <3>3. Pow2[b] = 2 * Pow2[b - 1]
      BY <3>1, Pow2Recursion
    <3> QED
      BY <2>1, <2>2, <2>4, <3>2, <3>3 DEF bucket_lo, bucket_hi
  <2> QED
    BY <2>3, <2>4
<1>2. ASSUME NEW a \in Buckets, NEW b \in Buckets, a < b
      PROVE  bucket_hi(a) < bucket_lo(b)
  <2>1. a \in Nat /\ b \in Nat /\ b - 1 \in Nat /\ a <= b - 1 /\ b # 0
    BY <1>0, <1>2
  <2>2. Pow2[a] <= Pow2[b - 1] /\ Pow2[a] \in Nat /\ Pow2[b - 1] \in Nat
    BY <2>1, Pow2Ascends, Pow2Type
  <2>3. bucket_hi(a) = Pow2[a] - 1
    BY <1>1
  <2>4. bucket_lo(b) = Pow2[b - 1]
    BY <2>1 DEF bucket_lo
  <2> QED
    BY <2>2, <2>3, <2>4
<1> QED
  BY <1>1, <1>2

LEMMA BitWidthFacts ==
    ASSUME NEW t \in 0 .. Pow2[Width] - 1
    PROVE  /\ bit_width(t) \in Buckets
           /\ bucket_lo(bit_width(t)) <= t /\ t <= bucket_hi(bit_width(t))
<1> DEFINE Fit(b) == t < Pow2[b] /\ (b > 0 => t >= Pow2[b - 1])
           T == {b \in Buckets : t < Pow2[b]}
<1>0. Width \in Nat /\ Pow2[Width] \in Nat /\ t \in Nat /\ t < Pow2[Width]
  BY WidthType
<1>1. T \in SUBSET Nat /\ T # {}
  BY <1>0 DEF Buckets
<1>2. PICK b \in T : \A c \in T : b <= c
  <2> HIDE DEF T
  <2> QED
    BY <1>1, LeastElement
<1>3. b \in Buckets /\ b \in Nat /\ t < Pow2[b]
  BY <1>1, <1>2
<1>4. b > 0 => t >= Pow2[b - 1]
  <2> SUFFICES ASSUME b > 0, ~(t >= Pow2[b - 1]) PROVE FALSE
    OBVIOUS
  <2>1. b - 1 \in Buckets /\ b - 1 \in Nat
    BY <1>0, <1>3 DEF Buckets
  <2>2. Pow2[b - 1] \in Nat
    BY <2>1, Pow2Type
  <2>3. b - 1 \in T
    BY <1>0, <2>1, <2>2
  <2> QED
    BY <1>2, <1>3, <2>3
<1>5. \E c \in Buckets : Fit(c)
  BY <1>3, <1>4
<1>6. bit_width(t) \in Buckets /\ Fit(bit_width(t))
  <2>1. bit_width(t) = CHOOSE c \in Buckets : Fit(c)
    BY DEF bit_width
  <2> HIDE DEF Fit
  <2> QED
    BY <1>5, <2>1
<1>7. PICK w : w = bit_width(t)
  OBVIOUS
<1>8. w \in Buckets /\ Fit(w)
  BY <1>6, <1>7
<1>9. Pow2[w] \in Nat /\ bucket_hi(w) = Pow2[w] - 1 /\ w \in Nat
  BY <1>8, BucketFacts, Pow2Type
<1>10. t <= bucket_hi(w) /\ bucket_lo(w) <= t
  BY <1>0, <1>8, <1>9 DEF bucket_lo
<1> QED
  BY <1>7, <1>8, <1>10

LEMMA BitWidthIs ==
    ASSUME NEW b \in Buckets, NEW t \in Nat, bucket_lo(b) <= t, t <= bucket_hi(b)
    PROVE  bit_width(t) = b
<1>1. PICK lo \in Nat, hi \in Nat : lo = bucket_lo(b) /\ hi = bucket_hi(b) /\ hi < Pow2[Width]
  BY BucketFacts
<1>2. t \in 0 .. Pow2[Width] - 1
  BY <1>1, WidthType
<1>3. PICK w \in Buckets : w = bit_width(t) /\ bucket_lo(w) <= t /\ t <= bucket_hi(w)
  BY <1>2, BitWidthFacts
<1>4. bucket_lo(w) \in Nat /\ bucket_hi(w) \in Nat /\ w \in Nat /\ b \in Nat
  BY BucketFacts
<1>5. ~(w < b)
  <2> SUFFICES ASSUME w < b PROVE FALSE
    OBVIOUS
  <2>1. bucket_hi(w) < bucket_lo(b)
    BY BucketFacts
  <2> QED
    BY <1>1, <1>3, <1>4, <2>1
<1>6. ~(b < w)
  <2> SUFFICES ASSUME b < w PROVE FALSE
    OBVIOUS
  <2>1. bucket_hi(b) < bucket_lo(w)
    BY BucketFacts
  <2> QED
    BY <1>1, <1>3, <1>4, <2>1
<1> QED
  BY <1>3, <1>4, <1>5, <1>6

LEMMA BitWidthAscends ==
    ASSUME NEW t \in 0 .. Pow2[Width] - 1, NEW u \in 0 .. Pow2[Width] - 1, t <= u
    PROVE  bit_width(t) <= bit_width(u)
<1>1. PICK v \in Buckets : v = bit_width(t) /\ bucket_lo(v) <= t
  BY BitWidthFacts
<1>2. PICK w \in Buckets : w = bit_width(u) /\ u <= bucket_hi(w)
  BY BitWidthFacts
<1>3. bucket_lo(v) \in Nat /\ bucket_hi(w) \in Nat /\ v \in Nat /\ w \in Nat
  BY BucketFacts
<1>4. ~(w < v)
  <2> SUFFICES ASSUME w < v PROVE FALSE
    OBVIOUS
  <2>1. bucket_hi(w) < bucket_lo(v)
    BY BucketFacts
  <2> QED
    BY <1>1, <1>2, <1>3, <2>1, WidthType
<1> QED
  BY <1>1, <1>2, <1>3, <1>4

-----------------------------------------------------------------------------
(* What a recorder tells of a bag of samples.                               *)
Recorders == [counts : [Buckets -> Nat], count : Nat, min : Nat, max : Nat]

InBucket(b) == {t \in Ticks : bit_width(t) = b}
Under(b) == {t \in Ticks : bit_width(t) < b}

CountsMatch(rec, bag) ==
    /\ \A b \in Buckets : rec.counts[b] = SumFunctionOnSet(bag, InBucket(b))
    /\ rec.count = SampleCount(bag)

ExtremesMatch(rec, bag) ==
    /\ \A t \in Observations(bag) : rec.min <= t /\ t <= rec.max
    /\ Observations(bag) = {} => rec.min = Pow2[Width] - 1 /\ rec.max = 0
    /\ Observations(bag) # {} => rec.min \in Observations(bag) /\ rec.max \in Observations(bag)

Summarises(rec, bag) ==
    /\ rec \in Recorders /\ bag \in [Ticks -> Nat]
    /\ CountsMatch(rec, bag) /\ ExtremesMatch(rec, bag)

LEMMA TicksFinite ==
    /\ IsFiniteSet(Ticks) /\ \A t \in Ticks : t \in 0 .. Pow2[Width] - 1 /\ t \in Nat
    /\ \A S \in SUBSET Ticks : IsFiniteSet(S)
<1>1. Ticks \subseteq 0 .. Pow2[Width] - 1
  BY LatencyAssumption
<1>2. 0 \in Int /\ Pow2[Width] - 1 \in Int
  BY WidthType
<1>3. IsFiniteSet(0 .. Pow2[Width] - 1)
  BY <1>2, FS_Interval
<1>4. IsFiniteSet(Ticks)
  BY <1>1, <1>3, FS_Subset
<1>5. \A S \in SUBSET Ticks : IsFiniteSet(S)
  BY <1>4, FS_Subset
<1> QED
  BY <1>1, <1>4, <1>5

LEMMA FreshSummarises == Summarises(Fresh, [t \in Ticks |-> 0])
<1> DEFINE bag == [t \in Ticks |-> 0]
<1>1. bag \in [Ticks -> Nat] /\ Observations(bag) = {}
  BY DEF Observations
<1>2. \A S \in SUBSET Ticks : SumFunctionOnSet(bag, S) = 0
  <2> TAKE S \in SUBSET Ticks
  <2>1. IsFiniteSet(S) /\ \A t \in S : bag[t] = 0
    BY TicksFinite
  <2> HIDE DEF bag
  <2> QED
    BY <2>1, SumOfZeros
<1>3. Fresh \in Recorders
  BY WidthType DEF Fresh, Recorders
<1> HIDE DEF bag
<1>4. CountsMatch(Fresh, bag)
  BY <1>2 DEF CountsMatch, Fresh, SampleCount, InBucket
<1>5. ExtremesMatch(Fresh, bag)
  BY <1>1 DEF ExtremesMatch, Fresh
<1>6. Summarises(Fresh, bag)
  BY <1>1, <1>3, <1>4, <1>5 DEF Summarises
<1> QED
  BY <1>6 DEF bag

LEMMA RecordedSummarises ==
    ASSUME NEW rec, NEW bag, Summarises(rec, bag), NEW u \in Ticks
    PROVE  Summarises(Recorded(rec, u), [bag EXCEPT ![u] = @ + 1])
<1> DEFINE new == [bag EXCEPT ![u] = @ + 1]
           next == Recorded(rec, u)
<1>0. rec \in Recorders /\ bag \in [Ticks -> Nat] /\ u \in Nat
  BY TicksFinite DEF Summarises
<1>1. new \in [Ticks -> Nat] /\ new[u] = bag[u] + 1 /\ \A t \in Ticks \ {u} : new[t] = bag[t]
  BY <1>0
<1>2. bit_width(u) \in Buckets
  BY TicksFinite, BitWidthFacts
<1>3. PICK w \in Buckets : w = bit_width(u)
  BY <1>2
<1>4. /\ next.counts = [rec.counts EXCEPT ![w] = @ + 1] /\ next.count = rec.count + 1
      /\ next.min = LesserOf(rec.min, u) /\ next.max = GreaterOf(rec.max, u)
      /\ next \in Recorders
  BY <1>0, <1>3 DEF Recorded, Recorders, LesserOf, GreaterOf
<1> HIDE DEF new, next
<1>5. ASSUME NEW S \in SUBSET Ticks
      PROVE  SumFunctionOnSet(new, S) = SumFunctionOnSet(bag, S) + (IF u \in S THEN 1 ELSE 0)
  <2>1. IsFiniteSet(S) /\ \A t \in S : bag[t] \in Int /\ new[t] \in Int
    BY <1>0, <1>1, TicksFinite
  <2>2. SumFunctionOnSet(bag, S) \in Int
    BY <2>1, SumType
  <2>3. CASE u \in S
    <3>1. SumFunctionOnSet(new, S) = SumFunctionOnSet(bag, S) - bag[u] + new[u]
      <4>1. /\ SumFunctionOnSet(new, S) = new[u] + SumFunctionOnSet(new, S \ {u})
            /\ SumFunctionOnSet(bag, S) = bag[u] + SumFunctionOnSet(bag, S \ {u})
        BY <2>1, <2>3, SumRemove
      <4>2. IsFiniteSet(S \ {u}) /\ \A t \in S \ {u} : bag[t] \in Int /\ new[t] = bag[t]
        BY <1>1, <2>1, FS_RemoveElement
      <4>3. SumFunctionOnSet(new, S \ {u}) = SumFunctionOnSet(bag, S \ {u})
        BY <4>2, SumSame
      <4>4. SumFunctionOnSet(bag, S \ {u}) \in Int /\ bag[u] \in Int /\ new[u] \in Int
        BY <2>1, <2>3, <4>2, SumType
      <4> QED
        BY <4>1, <4>3, <4>4
    <3>2. bag[u] \in Int /\ new[u] = bag[u] + 1
      BY <1>0, <1>1
    <3> QED
      BY <2>2, <2>3, <3>1, <3>2
  <2>4. CASE u \notin S
    <3>1. \A t \in S : bag[t] \in Int /\ new[t] = bag[t]
      BY <1>1, <2>1, <2>4
    <3>2. SumFunctionOnSet(new, S) = SumFunctionOnSet(bag, S)
      BY <2>1, <3>1, SumSame
    <3> QED
      BY <2>2, <2>4, <3>2
  <2> QED
    BY <2>3, <2>4
<1>6. CountsMatch(next, new)
  <2>1. rec.counts \in [Buckets -> Nat] /\ rec.count \in Nat
    BY <1>0 DEF Recorders
  <2>2. rec.count = SumFunctionOnSet(bag, Ticks)
    BY DEF Summarises, CountsMatch, SampleCount
  <2>3. SumFunctionOnSet(new, Ticks) = SumFunctionOnSet(bag, Ticks) + 1
    BY <1>5
  <2>4. ASSUME NEW b \in Buckets
        PROVE  next.counts[b] = SumFunctionOnSet(new, InBucket(b))
    <3>1. rec.counts[b] = SumFunctionOnSet(bag, InBucket(b))
      BY DEF Summarises, CountsMatch
    <3>2. InBucket(b) \in SUBSET Ticks /\ (u \in InBucket(b) <=> b = w)
      BY <1>3 DEF InBucket
    <3>3. next.counts[b] = rec.counts[b] + (IF b = w THEN 1 ELSE 0)
      BY <1>4, <2>1
    <3> QED
      BY <1>5, <3>1, <3>2, <3>3
  <2> QED
    BY <1>4, <2>2, <2>3, <2>4 DEF CountsMatch, SampleCount
<1>7. ExtremesMatch(next, new)
  <2>1. Observations(new) = Observations(bag) \union {u}
    <3>1. \A t \in Ticks : new[t] > 0 <=> (bag[t] > 0 \/ t = u)
      <4> TAKE t \in Ticks
      <4>1. bag[t] \in Nat
        BY <1>0
      <4>2. t # u => new[t] = bag[t]
        BY <1>1
      <4>3. t = u => new[t] = bag[t] + 1
        BY <1>1
      <4> QED
        BY <4>1, <4>2, <4>3
    <3> QED
      BY <3>1 DEF Observations
  <2>2. rec.min \in Nat /\ rec.max \in Nat
    BY <1>0 DEF Recorders
  <2>3. u <= Pow2[Width] - 1 /\ Pow2[Width] \in Nat
    BY TicksFinite, WidthType
  <2>4. \A t \in Observations(bag) : t \in Nat
    BY TicksFinite DEF Observations
  <2>5. ExtremesMatch(rec, bag)
    BY DEF Summarises
  <2> QED
    BY <1>0, <1>4, <2>1, <2>2, <2>3, <2>4, <2>5 DEF ExtremesMatch, LesserOf, GreaterOf
<1>8. Summarises(next, new)
  BY <1>1, <1>4, <1>6, <1>7 DEF Summarises
<1> QED
  BY <1>8 DEF new, next

LEMMA MergeSummarises ==
    ASSUME NEW rec, NEW bag, Summarises(rec, bag), NEW other, NEW rest, Summarises(other, rest)
    PROVE  Summarises(merge(rec, other), [t \in Ticks |-> bag[t] + rest[t]])
<1> DEFINE new == [t \in Ticks |-> bag[t] + rest[t]]
           next == merge(rec, other)
<1>0. /\ rec \in Recorders /\ bag \in [Ticks -> Nat]
      /\ other \in Recorders /\ rest \in [Ticks -> Nat]
  BY DEF Summarises
<1>1. new \in [Ticks -> Nat] /\ \A t \in Ticks : new[t] = bag[t] + rest[t]
  BY <1>0
<1>2. /\ rec.counts \in [Buckets -> Nat] /\ rec.count \in Nat
      /\ other.counts \in [Buckets -> Nat] /\ other.count \in Nat
      /\ rec.min \in Nat /\ rec.max \in Nat /\ other.min \in Nat /\ other.max \in Nat
  BY <1>0 DEF Recorders
<1>3. /\ next.counts = [b \in Buckets |-> rec.counts[b] + other.counts[b]]
      /\ next.count = rec.count + other.count
      /\ next.min = LesserOf(rec.min, other.min) /\ next.max = GreaterOf(rec.max, other.max)
      /\ next \in Recorders
  BY <1>2 DEF merge, Recorders, LesserOf, GreaterOf
<1> HIDE DEF new, next
<1>4. ASSUME NEW S \in SUBSET Ticks
      PROVE  SumFunctionOnSet(new, S) = SumFunctionOnSet(bag, S) + SumFunctionOnSet(rest, S)
  <2>1. /\ IsFiniteSet(S)
        /\ \A t \in S : bag[t] \in Int /\ rest[t] \in Int /\ new[t] = bag[t] + rest[t]
    BY <1>0, <1>1, TicksFinite
  <2> QED
    BY <2>1, SumPointwise
<1>5. CountsMatch(next, new)
  <2>1. \A b \in Buckets : InBucket(b) \in SUBSET Ticks
    BY DEF InBucket
  <2>2. /\ rec.count = SumFunctionOnSet(bag, Ticks) /\ other.count = SumFunctionOnSet(rest, Ticks)
        /\ \A b \in Buckets : /\ rec.counts[b] = SumFunctionOnSet(bag, InBucket(b))
                              /\ other.counts[b] = SumFunctionOnSet(rest, InBucket(b))
    BY DEF Summarises, CountsMatch, SampleCount
  <2>3. next.count = SumFunctionOnSet(new, Ticks)
    BY <1>3, <1>4, <2>2
  <2>4. \A b \in Buckets : next.counts[b] = SumFunctionOnSet(new, InBucket(b))
    BY <1>3, <1>4, <2>1, <2>2
  <2> QED
    BY <2>3, <2>4 DEF CountsMatch, SampleCount
<1>6. ExtremesMatch(next, new)
  <2>1. Observations(new) = Observations(bag) \union Observations(rest)
    BY <1>0, <1>1 DEF Observations
  <2>2. Pow2[Width] \in Nat
    BY WidthType
  <2>3. \A t \in Ticks : t \in Nat /\ t <= Pow2[Width] - 1
    BY <2>2, TicksFinite
  <2>4. /\ \A t \in Observations(bag) : t \in Nat /\ t <= Pow2[Width] - 1
        /\ \A t \in Observations(rest) : t \in Nat /\ t <= Pow2[Width] - 1
    BY <2>3 DEF Observations
  <2>5. ExtremesMatch(rec, bag) /\ ExtremesMatch(other, rest)
    BY DEF Summarises
  <2>6. CASE Observations(bag) = {}
    BY <1>2, <1>3, <2>1, <2>2, <2>4, <2>5, <2>6 DEF ExtremesMatch, LesserOf, GreaterOf
  <2>7. CASE Observations(rest) = {}
    BY <1>2, <1>3, <2>1, <2>2, <2>4, <2>5, <2>7 DEF ExtremesMatch, LesserOf, GreaterOf
  <2>8. CASE Observations(bag) # {} /\ Observations(rest) # {}
    BY <1>2, <1>3, <2>1, <2>2, <2>4, <2>5, <2>8 DEF ExtremesMatch, LesserOf, GreaterOf
  <2> QED
    BY <2>6, <2>7, <2>8
<1>7. Summarises(next, new)
  BY <1>1, <1>3, <1>5, <1>6 DEF Summarises
<1> QED
  BY <1>7 DEF new, next

-----------------------------------------------------------------------------
(* The merged recorder: the fold recurs, and sums up every class.           *)
MergesTo(g, f, U) ==
    g = [X \in SUBSET U |-> IF X = {} THEN Fresh ELSE merge(f[Pick(X)], g[X \ {Pick(X)}])]

LEMMA AllExpanded == all = (CHOOSE g : MergesTo(g, recorders, Classes))[Classes]
BY DEF all, FoldFunctionOnSet, MapThenFoldSet, MergesTo, Pick

LEMMA MergesToExists ==
    ASSUME NEW f, NEW U, IsFiniteSet(U)
    PROVE  \E g : MergesTo(g, f, U)
<1> DEFINE Upto(n) == {X \in SUBSET U : Cardinality(X) <= n}
           Merges(g, n) == g = [X \in Upto(n) |-> IF X = {} THEN Fresh
                                                  ELSE merge(f[Pick(X)], g[X \ {Pick(X)}])]
           D == {n \in Nat : \E g : Merges(g, n)}
<1>0. \A X \in SUBSET U : IsFiniteSet(X) /\ Cardinality(X) \in Nat
  BY FS_Subset, FS_CardinalityType
<1>00. \A X \in SUBSET U : X # {} => /\ X \ {Pick(X)} \in SUBSET U
                                     /\ Cardinality(X \ {Pick(X)}) = Cardinality(X) - 1
                                     /\ Cardinality(X) # 0
  BY <1>0, PickIn, FS_RemoveElement, FS_EmptySet
<1>1. 0 \in D
  <2> DEFINE g == [X \in Upto(0) |-> Fresh]
  <2>1. \A X \in Upto(0) : X = {}
    <3> TAKE X \in Upto(0)
    <3>1. X \in SUBSET U /\ Cardinality(X) <= 0
      OBVIOUS
    <3>2. Cardinality(X) = 0
      BY <3>1, <1>0
    <3> QED
      BY <3>1, <3>2, <1>00
  <2>2. Merges(g, 0)
    BY <2>1
  <2> QED
    BY <2>2
<1>2. ASSUME NEW n \in Nat, n \in D PROVE n + 1 \in D
  <2>1. PICK g : Merges(g, n)
    BY <1>2
  <2> DEFINE h == [X \in Upto(n + 1) |-> IF X = {} THEN Fresh
                                         ELSE merge(f[Pick(X)], g[X \ {Pick(X)}])]
  <2>2. \A X \in Upto(n) : X \in Upto(n + 1)
    BY <1>0
  <2>3. \A X \in Upto(n) : h[X] = g[X]
    <3> TAKE X \in Upto(n)
    <3>1. h[X] = IF X = {} THEN Fresh ELSE merge(f[Pick(X)], g[X \ {Pick(X)}])
      BY <2>2
    <3>2. g[X] = IF X = {} THEN Fresh ELSE merge(f[Pick(X)], g[X \ {Pick(X)}])
      BY <2>1
    <3> QED
      BY <3>1, <3>2
  <2>4. \A X \in Upto(n + 1) : X # {} => X \ {Pick(X)} \in Upto(n)
    BY <1>0, <1>00
  <2>5. \A X \in Upto(n + 1) : X # {} => g[X \ {Pick(X)}] = h[X \ {Pick(X)}]
    BY <2>3, <2>4
  <2>6. h = [X \in Upto(n + 1) |-> IF X = {} THEN Fresh
                                   ELSE merge(f[Pick(X)], h[X \ {Pick(X)}])]
    <3> HIDE DEF Upto
    <3> QED BY <2>5, Zenon
  <2> HIDE DEF h
  <2>7. Merges(h, n + 1)
    BY <2>6
  <2> HIDE DEF Merges
  <2>8. n + 1 \in Nat /\ \E k : Merges(k, n + 1)
    BY <2>7
  <2> QED
    BY <2>8, Zenon
<1> HIDE DEF D
<1>3. Nat \subseteq D
  BY <1>1, <1>2, NatSetInduction
<1>4. Cardinality(U) \in D
  BY <1>0, <1>3
<1>5. \A X \in SUBSET U : Cardinality(X) <= Cardinality(U)
  BY FS_Subset
<1>6. Upto(Cardinality(U)) = SUBSET U
  BY <1>5
<1>7. PICK g : Merges(g, Cardinality(U))
  BY <1>4 DEF D
<1> QED
  BY <1>6, <1>7 DEF MergesTo

(* Every recorder sums up the samples of its class.                         *)
RecordersInv ==
    /\ recorders \in [Classes -> Recorders] /\ samples \in [Classes -> [Ticks -> Nat]]
    /\ \A c \in Classes : Summarises(recorders[c], samples[c])

PooledOver(X) == [t \in Ticks |-> SumFunctionOnSet([c \in Classes |-> samples[c][t]], X)]

LEMMA AllSummarises == RecordersInv => Summarises(all, Pooled)
<1> SUFFICES ASSUME RecordersInv PROVE Summarises(all, Pooled)
  OBVIOUS
<1>0. IsFiniteSet(Classes)
  BY LatencyAssumption
<1>1. PICK g : MergesTo(g, recorders, Classes) /\ all = g[Classes]
  BY <1>0, AllExpanded, MergesToExists
<1>2. \A X \in SUBSET Classes :
         g[X] = IF X = {} THEN Fresh ELSE merge(recorders[Pick(X)], g[X \ {Pick(X)}])
  BY <1>1 DEF MergesTo
<1>3. \A X \in SUBSET Classes : IsFiniteSet(X) /\ Cardinality(X) \in Nat
  BY <1>0, FS_Subset, FS_CardinalityType
<1>4. \A X \in SUBSET Classes : X # {} => /\ X \ {Pick(X)} \in SUBSET Classes
                                          /\ Pick(X) \in Classes /\ Pick(X) \in X
                                          /\ Cardinality(X \ {Pick(X)}) = Cardinality(X) - 1
                                          /\ Cardinality(X) # 0
  BY <1>3, PickIn, FS_RemoveElement, FS_EmptySet
<1> DEFINE D == {n \in Nat : \A X \in SUBSET Classes :
                                Cardinality(X) = n => Summarises(g[X], PooledOver(X))}
<1>5. 0 \in D
  <2> SUFFICES ASSUME NEW X \in SUBSET Classes, Cardinality(X) = 0
               PROVE  Summarises(g[X], PooledOver(X))
    OBVIOUS
  <2>1. X = {}
    BY <1>4
  <2>2. g[X] = Fresh
    BY <1>2, <2>1
  <2>3. PooledOver(X) = [t \in Ticks |-> 0]
    BY <2>1, SumEmpty DEF PooledOver
  <2> QED
    BY <2>2, <2>3, FreshSummarises
<1>6. ASSUME NEW n \in Nat, n \in D PROVE n + 1 \in D
  <2> SUFFICES ASSUME NEW X \in SUBSET Classes, Cardinality(X) = n + 1
               PROVE  Summarises(g[X], PooledOver(X))
    OBVIOUS
  <2>1. X # {}
    BY FS_EmptySet
  <2>2. PICK c \in X : c = Pick(X)
    BY <1>4, <2>1
  <2>3. PICK Y \in SUBSET Classes : Y = X \ {c} /\ Cardinality(Y) = n
    <3>1. Cardinality(X \ {c}) = Cardinality(X) - 1 /\ X \ {c} \in SUBSET Classes
      BY <1>4, <2>1, <2>2
    <3> QED
      BY <3>1
  <2>4. Summarises(g[Y], PooledOver(Y))
    BY <1>6, <2>3
  <2>5. Summarises(recorders[c], samples[c])
    BY <2>2 DEF RecordersInv
  <2>6. g[X] = merge(recorders[c], g[Y])
    BY <1>2, <2>1, <2>2, <2>3
  <2>7. PooledOver(X) = [t \in Ticks |-> samples[c][t] + PooledOver(Y)[t]]
    <3>1. ASSUME NEW t \in Ticks
          PROVE  PooledOver(X)[t] = samples[c][t] + PooledOver(Y)[t]
      <4>1. PICK f : f = [d \in Classes |-> samples[d][t]]
        OBVIOUS
      <4>2. \A d \in X : f[d] = samples[d][t] /\ f[d] \in Int
        BY <3>1, <4>1 DEF RecordersInv
      <4>3. SumFunctionOnSet(f, X) = f[c] + SumFunctionOnSet(f, Y)
        BY <1>3, <2>3, <4>2, SumRemove
      <4>4. PooledOver(X)[t] = SumFunctionOnSet(f, X) /\ PooledOver(Y)[t] = SumFunctionOnSet(f, Y)
        BY <4>1 DEF PooledOver
      <4> QED
        BY <4>2, <4>3, <4>4
    <3>2. PooledOver(X) = [t \in Ticks |-> PooledOver(X)[t]]
      BY DEF PooledOver
    <3> QED
      BY <3>1, <3>2
  <2>8. Summarises(merge(recorders[c], g[Y]), [t \in Ticks |-> samples[c][t] + PooledOver(Y)[t]])
    BY <2>4, <2>5, MergeSummarises
  <2> QED
    BY <2>6, <2>7, <2>8
<1> HIDE DEF D
<1>7. Nat \subseteq D
  BY <1>5, <1>6, NatSetInduction
<1>8. Summarises(g[Classes], PooledOver(Classes))
  BY <1>3, <1>7 DEF D
<1>9. PooledOver(Classes) = Pooled
  BY DEF PooledOver, Pooled
<1> QED
  BY <1>1, <1>8, <1>9

LEMMA RecordersInitially == LatencyInit => RecordersInv
<1> SUFFICES ASSUME LatencyInit PROVE RecordersInv
  OBVIOUS
<1>1. Summarises(Fresh, [t \in Ticks |-> 0])
  BY FreshSummarises
<1>2. Fresh \in Recorders /\ [t \in Ticks |-> 0] \in [Ticks -> Nat]
  BY <1>1 DEF Summarises
<1> QED
  BY <1>1, <1>2 DEF LatencyInit, RecordersInv

LEMMA RecordersNext == RecordersInv /\ [LatencyNext]_latencyVars => RecordersInv'
<1> SUFFICES ASSUME RecordersInv, [LatencyNext]_latencyVars PROVE RecordersInv'
  OBVIOUS
<1>1. ASSUME NEW c \in Classes, NEW t \in Ticks, Record(c, t) PROVE RecordersInv'
  <2>1. Summarises(recorders[c], samples[c])
    BY DEF RecordersInv
  <2>2. PICK rec, bag : rec = Recorded(recorders[c], t) /\ bag = [samples[c] EXCEPT ![t] = @ + 1]
    OBVIOUS
  <2>3. Summarises(rec, bag)
    BY <2>1, <2>2, RecordedSummarises
  <2>4. rec \in Recorders /\ bag \in [Ticks -> Nat]
    BY <2>3 DEF Summarises
  <2>5. /\ recorders' = [recorders EXCEPT ![c] = rec]
        /\ samples' = [samples EXCEPT ![c] = bag]
    BY <1>1, <2>2 DEF Record
  <2> QED
    BY <2>3, <2>4, <2>5 DEF RecordersInv
<1>2. ASSUME ResetAll PROVE RecordersInv'
  <2>1. Summarises(Fresh, [t \in Ticks |-> 0])
    BY FreshSummarises
  <2>2. Fresh \in Recorders /\ [t \in Ticks |-> 0] \in [Ticks -> Nat]
    BY <2>1 DEF Summarises
  <2> QED
    BY <1>2, <2>1, <2>2 DEF ResetAll, RecordersInv
<1>3. ASSUME UNCHANGED latencyVars PROVE RecordersInv'
  BY <1>3 DEF latencyVars, RecordersInv
<1> QED
  BY <1>1, <1>2, <1>3 DEF LatencyNext

LEMMA RecordersAlways == LatencySpec => []RecordersInv
BY RecordersInitially, RecordersNext, PTL DEF LatencySpec

-----------------------------------------------------------------------------
(* The loop of percentile_ticks counts the samples in the buckets below.    *)
LEMMA BelowCounts ==
    ASSUME NEW rec, NEW bag, Summarises(rec, bag)
    PROVE  \A b \in 0 .. Width + 1 : Below(rec, b) = SumFunctionOnSet(bag, Under(b))
<1>0. /\ rec.counts \in [Buckets -> Nat] /\ bag \in [Ticks -> Nat]
      /\ \A b \in Buckets : rec.counts[b] = SumFunctionOnSet(bag, InBucket(b))
  BY DEF Summarises, Recorders, CountsMatch
<1>1. Width \in Nat /\ Buckets = 0 .. Width /\ IsFiniteSet(Buckets)
  <2>1. Width \in Nat
    BY WidthType
  <2>2. IsFiniteSet(0 .. Width)
    BY <2>1, FS_Interval
  <2> QED
    BY <2>1, <2>2 DEF Buckets
<1>2. \A t \in Ticks : bit_width(t) \in Nat
  BY TicksFinite, BitWidthFacts, BucketFacts
<1> DEFINE D == {b \in Nat : b <= Width + 1 =>
                    SumFunctionOnSet(rec.counts, 0 .. b - 1) = SumFunctionOnSet(bag, Under(b))}
<1>3. 0 \in D
  <2>1. 0 .. 0 - 1 = {} /\ Under(0) = {}
    BY <1>2 DEF Under
  <2> QED
    BY <2>1, SumEmpty
<1>4. ASSUME NEW b \in Nat, b \in D PROVE b + 1 \in D
  <2> SUFFICES ASSUME b + 1 <= Width + 1
               PROVE  SumFunctionOnSet(rec.counts, 0 .. (b + 1) - 1)
                        = SumFunctionOnSet(bag, Under(b + 1))
    OBVIOUS
  <2>1. SumFunctionOnSet(rec.counts, 0 .. b - 1) = SumFunctionOnSet(bag, Under(b))
    BY <1>1, <1>4
  <2> DEFINE R == 0 .. b - 1
  <2>2. b \in Buckets /\ b \in Buckets \ R /\ R \in SUBSET Buckets
    BY <1>1
  <2>3. 0 .. (b + 1) - 1 = R \union {b}
    OBVIOUS
  <2> HIDE DEF R
  <2>4. \A c \in Buckets : rec.counts[c] \in Int
    BY <1>0
  <2>5. SumFunctionOnSet(rec.counts, R \union {b})
          = rec.counts[b] + SumFunctionOnSet(rec.counts, R)
    <3>1. \A X \in SUBSET Buckets : \A x \in Buckets \ X :
             SumFunctionOnSet(rec.counts, X \union {x})
                = rec.counts[x] + SumFunctionOnSet(rec.counts, X)
      <4>1. IsFiniteSet(Buckets)
        BY <1>1
      <4> QED
        BY ONLY <4>1, <2>4, SumInsert, Zenon
    <3> QED
      BY <2>2, <3>1
  <2>6. /\ Under(b) \in SUBSET Under(b + 1) /\ Under(b + 1) \in SUBSET Ticks
        /\ Under(b + 1) \ Under(b) = InBucket(b)
    BY <1>2 DEF Under, InBucket
  <2>7. IsFiniteSet(Under(b + 1)) /\ \A t \in Under(b + 1) : bag[t] \in Int
    BY <1>0, <2>6, TicksFinite
  <2>8. SumFunctionOnSet(bag, Under(b + 1))
          = SumFunctionOnSet(bag, Under(b)) + SumFunctionOnSet(bag, InBucket(b))
    BY <2>6, <2>7, SumUnion
  <2>9. rec.counts[b] = SumFunctionOnSet(bag, InBucket(b)) /\ rec.counts[b] \in Nat
    BY <1>0, <2>2
  <2>10. SumFunctionOnSet(bag, Under(b)) \in Int
    BY <2>6, <2>7, SumType
  <2>11. SumFunctionOnSet(rec.counts, R \union {b}) = SumFunctionOnSet(bag, Under(b + 1))
    BY <2>1, <2>5, <2>8, <2>9, <2>10 DEF R
  <2> QED
    BY <2>3, <2>11, Zenon
<1> HIDE DEF D
<1>5. Nat \subseteq D
  BY <1>3, <1>4, NatSetInduction
<1> QED
  BY <1>1, <1>5 DEF D, Below

LEMMA UnderFacts ==
    ASSUME NEW bag \in [Ticks -> Nat]
    PROVE  /\ \A b \in 0 .. Width : SumFunctionOnSet(bag, Under(b + 1))
                = SumFunctionOnSet(bag, Under(b)) + SumFunctionOnSet(bag, InBucket(b))
           /\ \A S \in SUBSET Ticks : SumFunctionOnSet(bag, S) \in Nat
           /\ \A a, b \in 0 .. Width + 1 : a <= b =>
                SumFunctionOnSet(bag, Under(a)) <= SumFunctionOnSet(bag, Under(b))
           /\ SumFunctionOnSet(bag, Under(0)) = 0
           /\ Under(Width + 1) = Ticks
<1>0. Width \in Nat /\ \A t \in Ticks : bit_width(t) \in 0 .. Width
  BY WidthType, TicksFinite, BitWidthFacts DEF Buckets
<1>1. \A S \in SUBSET Ticks : IsFiniteSet(S) /\ \A t \in S : bag[t] \in Nat /\ bag[t] \in Int
  BY TicksFinite
<1>2. \A S \in SUBSET Ticks : SumFunctionOnSet(bag, S) \in Nat
  BY <1>1, SumNat
<1>3. ASSUME NEW b \in 0 .. Width
      PROVE  SumFunctionOnSet(bag, Under(b + 1))
                = SumFunctionOnSet(bag, Under(b)) + SumFunctionOnSet(bag, InBucket(b))
  <2>1. /\ Under(b) \in SUBSET Under(b + 1) /\ Under(b + 1) \in SUBSET Ticks
        /\ Under(b + 1) \ Under(b) = InBucket(b)
    BY <1>0 DEF Under, InBucket
  <2>2. IsFiniteSet(Under(b + 1)) /\ \A t \in Under(b + 1) : bag[t] \in Int
    BY <1>1, <2>1
  <2>3. SumFunctionOnSet(bag, Under(b + 1))
          = SumFunctionOnSet(bag, Under(b)) + SumFunctionOnSet(bag, Under(b + 1) \ Under(b))
    BY ONLY <2>1, <2>2, SumUnion
  <2> QED
    BY <2>1, <2>3, Zenon
<1>4. ASSUME NEW a \in 0 .. Width + 1, NEW b \in 0 .. Width + 1, a <= b
      PROVE  SumFunctionOnSet(bag, Under(a)) <= SumFunctionOnSet(bag, Under(b))
  <2>1. Under(a) \in SUBSET Under(b) /\ Under(b) \in SUBSET Ticks /\ Under(a) \in SUBSET Ticks
    BY <1>0, <1>4 DEF Under
  <2>2. IsFiniteSet(Ticks) /\ \A t \in Ticks : bag[t] \in Nat
    BY TicksFinite
  <2> QED
    BY <2>1, <2>2, SumAtMost
<1>5. Under(0) = {} /\ Under(Width + 1) = Ticks
  BY <1>0 DEF Under
<1> QED
  BY <1>2, <1>3, <1>4, <1>5, SumEmpty

(* The bucket that holds the sample of a rank.                              *)
RankIn(rec, b, rank) == Below(rec, b) + rec.counts[b] >= rank /\ Below(rec, b) < rank

RankBucket(rec, rank) == CHOOSE b \in Buckets : RankIn(rec, b, rank)

AtRank(rec, rank) ==
    LET b == RankBucket(rec, rank)
    IN  clamp_to_observed(rec, interpolate(b, rank - Below(rec, b) - 1, rec.counts[b]))

LEMMA PercentileForm ==
    \A rec, num, den :
        percentile_ticks(rec, num, den) =
            IF rec.count = 0 THEN 0
            ELSE IF num = den THEN rec.max
            ELSE AtRank(rec, Rank(rec, num, den))
BY DEF percentile_ticks, AtRank, RankBucket, RankIn

LEMMA RankBucketExists ==
    ASSUME NEW rec, NEW bag, Summarises(rec, bag), NEW rank \in 1 .. rec.count
    PROVE  RankBucket(rec, rank) \in Buckets /\ RankIn(rec, RankBucket(rec, rank), rank)
<1>0. /\ rec.counts \in [Buckets -> Nat] /\ bag \in [Ticks -> Nat] /\ rec.count \in Nat
      /\ \A b \in Buckets : rec.counts[b] = SumFunctionOnSet(bag, InBucket(b))
      /\ rec.count = SumFunctionOnSet(bag, Ticks)
  BY DEF Summarises, Recorders, CountsMatch, SampleCount
<1>1. Width \in Nat /\ Buckets = 0 .. Width
  BY WidthType DEF Buckets
<1> DEFINE Sum(b) == SumFunctionOnSet(bag, Under(b))
           T == {b \in Buckets : rank <= Sum(b + 1)}
<1>2. /\ \A b \in 0 .. Width : Sum(b + 1) = Sum(b) + rec.counts[b]
      /\ \A b \in 0 .. Width : Below(rec, b) = Sum(b)
      /\ \A b \in 0 .. Width + 1 : Sum(b) \in Nat
      /\ Sum(0) = 0 /\ Sum(Width + 1) = rec.count
  <2>1. \A b \in 0 .. Width + 1 : Under(b) \in SUBSET Ticks
    BY DEF Under
  <2> QED
    BY <1>0, <1>1, <2>1, UnderFacts, BelowCounts
<1> HIDE DEF Sum
<1>3. T \in SUBSET Nat /\ T # {}
  <2>1. Width \in Buckets /\ rank <= Sum(Width + 1)
    BY <1>0, <1>1, <1>2
  <2>2. Width \in T
    BY <2>1
  <2>3. \A c \in T : c \in Nat
    BY <1>1
  <2> QED
    BY <2>2, <2>3
<1>4. PICK b \in T : \A c \in T : b <= c
  <2> HIDE DEF T
  <2> QED
    BY <1>3, LeastElement
<1>5. b \in 0 .. Width /\ rank <= Sum(b + 1)
  BY <1>1, <1>4
<1>6. Sum(b) < rank
  <2>1. CASE b = 0
    BY <1>0, <1>2, <2>1
  <2>2. CASE b # 0
    <3>1. b - 1 \in 0 .. Width /\ (b - 1) + 1 = b /\ ~(b <= b - 1)
      BY <1>1, <1>5, <2>2
    <3>2. b - 1 \notin T
      BY <1>4, <3>1
    <3>3. Sum(b) \in Nat
      BY <1>1, <1>2, <1>5
    <3> QED
      BY <1>0, <1>1, <3>1, <3>2, <3>3
  <2> QED
    BY <2>1, <2>2
<1>7. RankIn(rec, b, rank)
  <2>1. Sum(b) \in Nat /\ rec.counts[b] \in Nat /\ Below(rec, b) = Sum(b)
        /\ Sum(b + 1) = Sum(b) + rec.counts[b]
    BY <1>0, <1>1, <1>2, <1>5
  <2> QED
    BY <1>0, <1>5, <1>6, <2>1 DEF RankIn
<1> QED
  BY <1>1, <1>5, <1>7 DEF RankBucket

(* Where interpolation puts a rank: within its bucket, in order.            *)
LEMMA InterpolateStays ==
    ASSUME NEW b \in Buckets, NEW n \in Nat \ {0}, NEW k \in 0 .. n - 1
    PROVE  /\ interpolate(b, k, n) \in Nat
           /\ bucket_lo(b) <= interpolate(b, k, n) /\ interpolate(b, k, n) <= bucket_hi(b)
           /\ \A m \in 0 .. n - 1 : k <= m => interpolate(b, k, n) <= interpolate(b, m, n)
<1>1. PICK lo \in Nat, hi \in Nat : lo = bucket_lo(b) /\ hi = bucket_hi(b) /\ lo <= hi
  BY BucketFacts
<1>2. PICK span \in Nat : span = hi - lo
  BY <1>1
<1>3. \A m \in 0 .. n - 1 : interpolate(b, m, n) = lo + Share(span, n, m)
  <2> TAKE m \in 0 .. n - 1
  <2>0. span \div n \in Nat /\ span % n \in Nat /\ span = (span \div n) * n + (span % n)
    BY QuotientFacts
  <2>1. PICK q \in Nat, r \in Nat : q = span \div n /\ r = span % n /\ span = q * n + r
    BY <2>0
  <2>2. q * m \in Nat /\ r * m \in Nat
    BY ProductType
  <2>3. (r * m) \div n \in Nat
    BY <2>2, QuotientFacts
  <2>4. interpolate(b, m, n) = lo + q * m + (r * m) \div n
    BY <1>1, <1>2, <2>1 DEF interpolate
  <2>5. Share(span, n, m) = q * m + (r * m) \div n
    BY <2>1 DEF Share
  <2> QED
    BY <2>2, <2>3, <2>4, <2>5
<1>4. \A m \in 0 .. n - 1 : Share(span, n, m) \in Nat /\ Share(span, n, m) <= span
  BY ShareBounds
<1>5. \A m \in 0 .. n - 1 : k <= m => Share(span, n, k) <= Share(span, n, m)
  BY ShareAscends
<1> QED
  BY <1>1, <1>2, <1>3, <1>4, <1>5

LEMMA RankFacts ==
    ASSUME NEW rec, rec.count \in Nat \ {0}, NEW num \in Nat, NEW den \in Nat \ {0}, num <= den
    PROVE  /\ Rank(rec, num, den) \in 1 .. rec.count
           /\ \A x \in Nat \ {0} : Rank(rec, num, den) <= x <=> rec.count * num <= x * den
<1>1. PICK N \in Nat \ {0} : N = rec.count
  OBVIOUS
<1>2. PICK q \in Nat : /\ q = Ceiling(N, num, den)
                       /\ \A x \in Nat : q <= x <=> N * num <= x * den
  BY CeilingFacts
<1>3. Rank(rec, num, den) = GreaterOf(1, q)
  BY <1>1, <1>2 DEF Rank, Ceiling
<1>4. N * num <= N * den
  BY ProductAscends
<1>5. q <= N
  BY <1>2, <1>4
<1>6. GreaterOf(1, q) \in 1 .. N /\ \A x \in Nat \ {0} : GreaterOf(1, q) <= x <=> q <= x
  BY <1>5 DEF GreaterOf
<1> QED
  BY <1>1, <1>2, <1>3, <1>6

(* The answer for a rank lies in the rank's bucket and was possible.        *)
LEMMA AtRankStays ==
    ASSUME NEW rec, NEW bag, Summarises(rec, bag), NEW rank \in 1 .. rec.count
    PROVE  LET b == RankBucket(rec, rank) IN
           /\ b \in Buckets /\ AtRank(rec, rank) \in Nat
           /\ bucket_lo(b) <= AtRank(rec, rank) /\ AtRank(rec, rank) <= bucket_hi(b)
           /\ rec.min <= AtRank(rec, rank) /\ AtRank(rec, rank) <= rec.max
<1>1. PICK b \in Buckets : b = RankBucket(rec, rank) /\ RankIn(rec, b, rank)
  BY RankBucketExists
<1>2. /\ rec.counts \in [Buckets -> Nat] /\ bag \in [Ticks -> Nat] /\ rec.count \in Nat
      /\ rec.min \in Nat /\ rec.max \in Nat
      /\ rec.counts[b] = SumFunctionOnSet(bag, InBucket(b))
  BY DEF Summarises, Recorders, CountsMatch
<1>3. PICK n \in Nat : n = rec.counts[b]
  BY <1>2
<1>4. PICK below \in Nat : below = Below(rec, b)
  <2>1. b \in 0 .. Width + 1 /\ Under(b) \in SUBSET Ticks
    BY WidthType DEF Buckets, Under
  <2>2. Below(rec, b) = SumFunctionOnSet(bag, Under(b))
    BY <2>1, BelowCounts
  <2>3. SumFunctionOnSet(bag, Under(b)) \in Nat
    BY <1>2, <2>1, UnderFacts
  <2> QED
    BY <2>2, <2>3
<1>5. below + n >= rank /\ below < rank
  BY <1>1, <1>3, <1>4 DEF RankIn
<1>6. n \in Nat \ {0} /\ rank - below - 1 \in 0 .. n - 1
  BY <1>2, <1>5
<1>7. PICK v \in Nat : /\ v = interpolate(b, rank - below - 1, n)
                       /\ bucket_lo(b) <= v /\ v <= bucket_hi(b)
  BY <1>6, InterpolateStays
<1>8. AtRank(rec, rank) = LesserOf(rec.max, GreaterOf(rec.min, v))
  BY <1>1, <1>3, <1>4, <1>7 DEF AtRank, clamp_to_observed
<1>9. \E x \in Nat : /\ bucket_lo(b) <= x /\ x <= bucket_hi(b)
                     /\ rec.min <= x /\ x <= rec.max
  <2>1. IsFiniteSet(InBucket(b)) /\ \A t \in InBucket(b) : bag[t] \in Nat
    BY <1>2, TicksFinite DEF InBucket
  <2>2. SumFunctionOnSet(bag, InBucket(b)) # 0
    BY <1>2, <1>3, <1>6
  <2>3. PICK x \in InBucket(b) : bag[x] > 0
    BY <2>1, <2>2, SumHasPositive
  <2>4. x \in Observations(bag) /\ bit_width(x) = b /\ x \in Ticks
    BY <2>3 DEF Observations, InBucket
  <2>5. x \in Nat /\ bucket_lo(b) <= x /\ x <= bucket_hi(b)
    BY <2>4, TicksFinite, BitWidthFacts
  <2>6. rec.min <= x /\ x <= rec.max
    BY <2>4 DEF Summarises, ExtremesMatch
  <2> QED
    BY <2>5, <2>6
<1>10. PICK lo \in Nat, hi \in Nat : lo = bucket_lo(b) /\ hi = bucket_hi(b)
  BY BucketFacts
<1>11. PICK least \in Nat, most \in Nat : least = rec.min /\ most = rec.max
  BY <1>2
<1>12. PICK answer : answer = AtRank(rec, rank)
  OBVIOUS
<1>13. answer = LesserOf(most, GreaterOf(least, v))
  BY <1>8, <1>11, <1>12
<1>14. PICK x \in Nat : lo <= x /\ x <= hi /\ least <= x /\ x <= most
  BY <1>9, <1>10, <1>11
<1>15. lo <= v /\ v <= hi
  BY <1>7, <1>10
<1>16. answer \in Nat /\ lo <= answer /\ answer <= hi /\ least <= answer /\ answer <= most
  BY <1>13, <1>14, <1>15 DEF LesserOf, GreaterOf
<1> QED
  BY <1>1, <1>10, <1>11, <1>12, <1>16

LEMMA AtRankAscends ==
    ASSUME NEW rec, NEW bag, Summarises(rec, bag), NEW r \in 1 .. rec.count,
           NEW s \in 1 .. rec.count, r <= s
    PROVE  AtRank(rec, r) <= AtRank(rec, s)
<1>1. PICK a \in Buckets : a = RankBucket(rec, r) /\ RankIn(rec, a, r)
  BY RankBucketExists
<1>2. PICK b \in Buckets : b = RankBucket(rec, s) /\ RankIn(rec, b, s)
  BY RankBucketExists
<1>3. /\ rec.counts \in [Buckets -> Nat] /\ bag \in [Ticks -> Nat] /\ rec.count \in Nat
      /\ rec.min \in Nat /\ rec.max \in Nat
      /\ \A c \in Buckets : rec.counts[c] = SumFunctionOnSet(bag, InBucket(c))
  BY DEF Summarises, Recorders, CountsMatch
<1>4. /\ Width \in Nat /\ Buckets = 0 .. Width
  BY WidthType DEF Buckets
<1>5. \A c \in Buckets : /\ Below(rec, c) = SumFunctionOnSet(bag, Under(c))
                         /\ Below(rec, c) \in Nat
                         /\ Below(rec, c) + rec.counts[c] = SumFunctionOnSet(bag, Under(c + 1))
  <2> TAKE c \in Buckets
  <2>1. c \in 0 .. Width /\ c \in 0 .. Width + 1 /\ Under(c) \in SUBSET Ticks
    BY <1>4 DEF Under
  <2>2. Below(rec, c) = SumFunctionOnSet(bag, Under(c))
    BY <2>1, BelowCounts
  <2>3. SumFunctionOnSet(bag, Under(c)) \in Nat
    BY <1>3, <2>1, UnderFacts
  <2>4. SumFunctionOnSet(bag, Under(c + 1))
           = SumFunctionOnSet(bag, Under(c)) + SumFunctionOnSet(bag, InBucket(c))
    BY <1>3, <2>1, UnderFacts
  <2> QED
    BY <1>3, <2>2, <2>3, <2>4
<1>6. ~(b < a)
  <2> SUFFICES ASSUME b < a PROVE FALSE
    OBVIOUS
  <2>1. b + 1 \in 0 .. Width + 1 /\ a \in 0 .. Width + 1 /\ b + 1 <= a
    BY <1>4
  <2>2. SumFunctionOnSet(bag, Under(b + 1)) <= SumFunctionOnSet(bag, Under(a))
    BY <1>3, <2>1, UnderFacts
  <2>3. PICK x \in Nat : x = Below(rec, b) + rec.counts[b]
    BY <1>3, <1>5
  <2>4. PICK y \in Nat : y = Below(rec, a)
    BY <1>5
  <2>5. x <= y
    BY <1>5, <2>2, <2>3, <2>4
  <2>6. x >= s /\ y < r
    BY <1>1, <1>2, <2>3, <2>4 DEF RankIn
  <2> QED
    BY <1>3, <2>5, <2>6
<1>7. CASE a < b
  <2>1. bucket_hi(a) < bucket_lo(b)
    BY <1>7, BucketFacts
  <2>2. bucket_hi(a) \in Nat /\ bucket_lo(b) \in Nat
    BY BucketFacts
  <2>3. AtRank(rec, r) \in Nat /\ AtRank(rec, r) <= bucket_hi(a)
    BY <1>1, AtRankStays
  <2>4. AtRank(rec, s) \in Nat /\ bucket_lo(b) <= AtRank(rec, s)
    BY <1>2, AtRankStays
  <2> QED
    BY <2>1, <2>2, <2>3, <2>4
<1>8. CASE a = b
  <2>1. PICK n \in Nat, below \in Nat : n = rec.counts[b] /\ below = Below(rec, b)
    BY <1>3, <1>5
  <2>2. below + n >= r /\ below < r /\ below + n >= s /\ below < s
    BY <1>1, <1>2, <1>8, <2>1 DEF RankIn
  <2> DEFINE k == r - below - 1
             m == s - below - 1
  <2>3. n \in Nat \ {0} /\ k \in 0 .. n - 1 /\ m \in 0 .. n - 1 /\ k <= m
    BY <1>3, <2>2
  <2> HIDE DEF k, m
  <2>4. /\ interpolate(b, k, n) \in Nat /\ interpolate(b, m, n) \in Nat
        /\ interpolate(b, k, n) <= interpolate(b, m, n)
    BY <2>3, InterpolateStays
  <2>5. /\ AtRank(rec, r) = LesserOf(rec.max, GreaterOf(rec.min, interpolate(b, k, n)))
        /\ AtRank(rec, s) = LesserOf(rec.max, GreaterOf(rec.min, interpolate(b, m, n)))
    BY <1>1, <1>2, <1>8, <2>1 DEF AtRank, clamp_to_observed, k, m
  <2> QED
    BY <1>3, <2>4, <2>5 DEF LesserOf, GreaterOf
<1>9. a \in Nat /\ b \in Nat
  BY <1>4
<1> QED
  BY <1>6, <1>7, <1>8, <1>9

(* The least sample that reaches a rank lies in the rank's bucket.          *)
LEMMA TruthIsInBucket ==
    ASSUME NEW rec, NEW bag, Summarises(rec, bag), NEW rank \in 1 .. rec.count,
           NEW truth \in Observations(bag), UpTo(bag, truth) >= rank,
           \A t \in Observations(bag) : UpTo(bag, t) >= rank => truth <= t
    PROVE  bit_width(truth) = RankBucket(rec, rank)
<1>1. PICK b \in Buckets : b = RankBucket(rec, rank) /\ RankIn(rec, b, rank)
  BY RankBucketExists
<1>2. /\ bag \in [Ticks -> Nat] /\ rec.count \in Nat
      /\ rec.counts[b] = SumFunctionOnSet(bag, InBucket(b))
  BY DEF Summarises, Recorders, CountsMatch
<1>3. Width \in Nat /\ b \in 0 .. Width /\ b \in 0 .. Width + 1
  BY WidthType DEF Buckets
<1>4. /\ IsFiniteSet(Ticks) /\ \A t \in Ticks : t \in Nat /\ bit_width(t) \in Nat /\ bag[t] \in Nat
      /\ \A t, u \in Ticks : t <= u => bit_width(t) <= bit_width(u)
  BY <1>2, TicksFinite, BitWidthFacts, BitWidthAscends, BucketFacts
<1>5. truth \in Ticks /\ Observations(bag) \in SUBSET Ticks
  BY DEF Observations
<1>6. /\ SumFunctionOnSet(bag, Under(b)) < rank
      /\ SumFunctionOnSet(bag, Under(b + 1)) >= rank
  <2>1. Below(rec, b) = SumFunctionOnSet(bag, Under(b))
    BY <1>3, BelowCounts
  <2>2. SumFunctionOnSet(bag, Under(b + 1))
           = SumFunctionOnSet(bag, Under(b)) + SumFunctionOnSet(bag, InBucket(b))
    BY <1>2, <1>3, UnderFacts
  <2> QED
    BY <1>1, <1>2, <2>1, <2>2 DEF RankIn
<1>7. Under(b) \in SUBSET Ticks /\ Under(b + 1) \in SUBSET Ticks
  BY DEF Under
<1>8. /\ SumFunctionOnSet(bag, Under(b)) \in Nat /\ SumFunctionOnSet(bag, Under(b + 1)) \in Nat
      /\ \A t \in Ticks : UpTo(bag, t) \in Nat
  BY <1>2, <1>7, UnderFacts DEF UpTo
<1>9. ~(bit_width(truth) < b)
  <2> SUFFICES ASSUME bit_width(truth) < b PROVE FALSE
    OBVIOUS
  <2>1. {u \in Ticks : u <= truth} \in SUBSET Ticks
        /\ \A u \in {t \in Ticks : t <= truth} : u \in Under(b)
    <3>1. ASSUME NEW u \in Ticks, u <= truth PROVE u \in Under(b)
      <4>1. bit_width(u) <= bit_width(truth)
        BY <1>4, <1>5, <3>1
      <4>2. bit_width(u) < b
        BY <1>3, <1>4, <1>5, <4>1
      <4> QED
        BY <4>2 DEF Under
    <3> QED
      BY <3>1
  <2>2. UpTo(bag, truth) <= SumFunctionOnSet(bag, Under(b))
    BY <1>4, <1>7, <2>1, SumAtMost DEF UpTo
  <2> QED
    BY <1>2, <1>5, <1>6, <1>8, <2>2
<1>10. bit_width(truth) <= b
  <2> DEFINE O == {t \in Under(b + 1) : bag[t] > 0}
  <2>1. IsFiniteSet(Under(b + 1)) /\ \A t \in Under(b + 1) : bag[t] \in Nat
    BY <1>4, <1>7, FS_Subset
  <2>2. SumFunctionOnSet(bag, Under(b + 1)) # 0
    BY <1>2, <1>6, <1>8
  <2>3. O # {}
    BY <2>1, <2>2, SumHasPositive
  <2>4. O \in SUBSET Under(b + 1) /\ O \in SUBSET Int
    BY <1>4, <1>7
  <2>5. IsFiniteSet(O)
    BY <2>1, <2>4, FS_Subset
  <2>6. PICK last \in O : \A t \in O : last >= t
    <3> HIDE DEF O
    <3> QED
      BY <2>3, <2>4, <2>5, ExtremesExist
  <2>7. last \in Ticks /\ last \in Observations(bag) /\ bit_width(last) < b + 1
    BY <1>7, <2>6 DEF Observations, Under
  <2>8. \A t \in Under(b + 1) : t \in {u \in Ticks : u <= last} \/ bag[t] = 0
    BY <1>4, <1>7, <2>1, <2>6, <2>7
  <2>9. {u \in Ticks : u <= last} \in SUBSET Ticks
    OBVIOUS
  <2>10. SumFunctionOnSet(bag, Under(b + 1)) <= UpTo(bag, last)
    BY <1>4, <1>7, <2>8, <2>9, SumAtMost DEF UpTo
  <2>11. UpTo(bag, last) >= rank
    BY <1>2, <1>6, <1>8, <2>7, <2>10
  <2>12. truth <= last
    BY <2>7, <2>11
  <2>13. bit_width(truth) <= bit_width(last)
    BY <1>4, <1>5, <2>7, <2>12
  <2> QED
    BY <1>3, <1>4, <1>5, <2>7, <2>13
<1>11. bit_width(truth) \in Nat
  BY <1>4, <1>5
<1> QED
  BY <1>1, <1>3, <1>9, <1>10, <1>11

-----------------------------------------------------------------------------
(* Nothing was observed exactly when nothing was counted, and the greatest  *)
(* observation reaches every count.                                         *)
LEMMA ObservationFacts ==
    ASSUME NEW rec, NEW bag, Summarises(rec, bag)
    PROVE  /\ rec.count \in Nat
           /\ Observations(bag) = {} <=> rec.count = 0
           /\ \A t \in Observations(bag) : t \in Nat /\ UpTo(bag, t) \in Nat \ {0}
           /\ Observations(bag) # {} => UpTo(bag, rec.max) = rec.count
<1>1. bag \in [Ticks -> Nat] /\ rec.count \in Nat /\ rec.count = SumFunctionOnSet(bag, Ticks)
  BY DEF Summarises, Recorders, CountsMatch, SampleCount
<1>2. IsFiniteSet(Ticks) /\ \A t \in Ticks : t \in Nat /\ bag[t] \in Nat
  BY <1>1, TicksFinite
<1>3. ASSUME Observations(bag) = {} PROVE rec.count = 0
  <2>1. \A t \in Ticks : bag[t] = 0
    BY <1>2, <1>3 DEF Observations
  <2> QED
    BY <1>1, <1>2, <2>1, SumOfZeros
<1>4. ASSUME rec.count = 0 PROVE Observations(bag) = {}
  <2>1. \A t \in Ticks : bag[t] <= 0
    BY <1>1, <1>2, <1>4, SumNat
  <2> QED
    BY <1>2, <2>1 DEF Observations
<1>5. ASSUME NEW t \in Observations(bag) PROVE t \in Nat /\ UpTo(bag, t) \in Nat \ {0}
  <2> DEFINE S == {u \in Ticks : u <= t}
  <2>1. t \in Ticks /\ t \in Nat /\ bag[t] > 0 /\ t \in S
    BY <1>2 DEF Observations
  <2>2. IsFiniteSet(S) /\ \A u \in S : bag[u] \in Nat
    BY <1>2, FS_Subset
  <2>3. UpTo(bag, t) = SumFunctionOnSet(bag, S)
    BY DEF UpTo
  <2> HIDE DEF S
  <2>4. SumFunctionOnSet(bag, S) \in Nat /\ bag[t] <= SumFunctionOnSet(bag, S)
    BY <2>1, <2>2, SumNat
  <2> QED
    BY <1>2, <2>1, <2>3, <2>4
<1>6. ASSUME Observations(bag) # {} PROVE UpTo(bag, rec.max) = rec.count
  <2> DEFINE S == {u \in Ticks : u <= rec.max}
  <2>1. \A t \in Observations(bag) : t <= rec.max
    BY DEF Summarises, ExtremesMatch
  <2>2. \A t \in Ticks : t \in S \/ bag[t] = 0
    BY <1>2, <2>1 DEF Observations
  <2>3. S \in SUBSET Ticks /\ Ticks \in SUBSET Ticks /\ \A t \in S : t \in Ticks \/ bag[t] = 0
    OBVIOUS
  <2>4. UpTo(bag, rec.max) = SumFunctionOnSet(bag, S)
    BY DEF UpTo
  <2> HIDE DEF S
  <2>5. SumFunctionOnSet(bag, Ticks) <= SumFunctionOnSet(bag, S)
    BY <1>2, <2>2, <2>3, SumAtMost
  <2>6. SumFunctionOnSet(bag, S) <= SumFunctionOnSet(bag, Ticks)
    BY <1>2, <2>3, SumAtMost
  <2>7. SumFunctionOnSet(bag, S) \in Nat
    BY <1>1, <2>3, UnderFacts
  <2> QED
    BY <1>1, <2>4, <2>5, <2>6, <2>7
<1> QED
  BY <1>1, <1>3, <1>4, <1>5, <1>6

(* The percentile of the samples themselves.                                *)
Reaching(bag, rank) == {t \in Observations(bag) : UpTo(bag, t) >= rank}

LEMMA TruthFacts ==
    ASSUME NEW rec, NEW bag, Summarises(rec, bag), rec.count # 0,
           NEW num \in Nat, NEW den \in Nat \ {0}, num <= den
    PROVE  LET rank  == Rank(rec, num, den)
               truth == TruePercentile(bag, num, den)
           IN  /\ truth \in Observations(bag) /\ UpTo(bag, truth) >= rank
               /\ \A t \in Observations(bag) : UpTo(bag, t) >= rank => truth <= t
<1>1. PICK N \in Nat \ {0} : N = rec.count
  BY ObservationFacts
<1>2. PICK rank \in 1 .. N : /\ rank = Rank(rec, num, den)
                             /\ \A x \in Nat \ {0} : rank <= x <=> N * num <= x * den
  BY <1>1, RankFacts
<1>3. N = SampleCount(bag)
  BY <1>1 DEF Summarises, CountsMatch
<1>4. \A t \in Observations(bag) : t \in Nat /\ UpTo(bag, t) \in Nat \ {0}
  BY ObservationFacts
<1>5. \A t \in Observations(bag) : UpTo(bag, t) * den >= N * num <=> UpTo(bag, t) >= rank
  <2> TAKE t \in Observations(bag)
  <2>1. PICK x \in Nat \ {0} : x = UpTo(bag, t)
    BY <1>4
  <2>2. x * den \in Nat /\ N * num \in Nat
    BY ProductType
  <2>3. rank <= x <=> N * num <= x * den
    BY <1>2
  <2> QED
    BY <2>1, <2>2, <2>3
<1>6. TruePercentile(bag, num, den) = Min(Reaching(bag, rank))
  <2>1. {t \in Observations(bag) : UpTo(bag, t) * den >= SampleCount(bag) * num}
          = Reaching(bag, rank)
    BY <1>3, <1>5 DEF Reaching
  <2> QED
    BY <2>1 DEF TruePercentile
<1>7. Reaching(bag, rank) # {} /\ Reaching(bag, rank) \in SUBSET Nat
  <2>1. Observations(bag) # {}
    BY ObservationFacts
  <2>2. rec.max \in Observations(bag)
    BY <2>1 DEF Summarises, ExtremesMatch
  <2>3. UpTo(bag, rec.max) = N
    BY <1>1, <2>1, ObservationFacts
  <2> QED
    BY <1>4, <2>2, <2>3 DEF Reaching
<1>8. \E x \in Reaching(bag, rank) : \A y \in Reaching(bag, rank) : x <= y
  BY <1>7, LeastElement
<1>9. /\ Min(Reaching(bag, rank)) \in Reaching(bag, rank)
      /\ \A y \in Reaching(bag, rank) : Min(Reaching(bag, rank)) <= y
  BY <1>8 DEF Min
<1> QED
  BY <1>2, <1>6, <1>9 DEF Reaching

LEMMA TopIsTruth ==
    ASSUME NEW rec, NEW bag, Summarises(rec, bag), rec.count # 0, NEW den \in Nat \ {0}
    PROVE  TruePercentile(bag, den, den) = rec.max
<1>1. PICK N \in Nat \ {0} : N = rec.count
  BY ObservationFacts
<1>2. PICK truth : truth = TruePercentile(bag, den, den)
  OBVIOUS
<1>3. truth \in Observations(bag) /\ UpTo(bag, truth) >= Rank(rec, den, den)
  BY <1>2, TruthFacts
<1>4. PICK x \in Nat \ {0} : x = UpTo(bag, truth)
  BY <1>3, ObservationFacts
<1>5. N <= x
  <2>1. Rank(rec, den, den) \in 1 .. N /\ (Rank(rec, den, den) <= x <=> N * den <= x * den)
    BY <1>1, RankFacts
  <2>2. N * den <= x * den
    BY <1>3, <1>4, <2>1
  <2> QED
    BY <2>2, ProductCancels
<1>6. /\ bag \in [Ticks -> Nat] /\ N = SumFunctionOnSet(bag, Ticks)
      /\ IsFiniteSet(Ticks) /\ \A t \in Ticks : t \in Nat /\ bag[t] \in Nat
  BY <1>1, TicksFinite DEF Summarises, CountsMatch, SampleCount
<1>7. Observations(bag) # {} /\ rec.max \in Observations(bag) /\ truth <= rec.max
  BY <1>3 DEF Summarises, ExtremesMatch
<1>8. truth \in Nat /\ rec.max \in Ticks /\ rec.max \in Nat /\ bag[rec.max] > 0
  BY <1>3, <1>6, <1>7 DEF Observations
<1>9. ~(truth < rec.max)
  <2> SUFFICES ASSUME truth < rec.max PROVE FALSE
    OBVIOUS
  <2> DEFINE S == {u \in Ticks : u <= truth}
  <2>1. S \in SUBSET Ticks /\ rec.max \in Ticks \ S
    BY <1>8
  <2>2. UpTo(bag, truth) = SumFunctionOnSet(bag, S)
    BY DEF UpTo
  <2> HIDE DEF S
  <2>3. N = SumFunctionOnSet(bag, S) + SumFunctionOnSet(bag, Ticks \ S)
    BY <1>6, <2>1, SumUnion
  <2>4. IsFiniteSet(Ticks \ S) /\ \A t \in Ticks \ S : bag[t] \in Nat
    BY <1>6, FS_Difference
  <2>5. SumFunctionOnSet(bag, Ticks \ S) \in Nat /\ bag[rec.max] <= SumFunctionOnSet(bag, Ticks \ S)
    BY <2>1, <2>4, SumNat
  <2> QED
    BY <1>4, <1>5, <1>6, <1>8, <2>2, <2>3, <2>5
<1> QED
  BY <1>2, <1>7, <1>8, <1>9

(* The answer that percentile_ticks gives, in one recorder.                 *)
LEMMA PercentileBounds ==
    ASSUME NEW rec, NEW bag, Summarises(rec, bag),
           NEW num \in Nat, NEW den \in Nat \ {0}, num <= den
    PROVE  /\ percentile_ticks(rec, num, den) \in Nat
           /\ percentile_ticks(rec, num, den) <= rec.max
           /\ rec.count # 0 => rec.min <= percentile_ticks(rec, num, den)
           /\ rec.count = 0 => percentile_ticks(rec, num, den) = 0
<1>1. rec.count \in Nat /\ rec.min \in Nat /\ rec.max \in Nat
  BY DEF Summarises, Recorders
<1>2. CASE rec.count = 0
  BY <1>1, <1>2, PercentileForm
<1>3. CASE rec.count # 0 /\ num = den
  <2>1. rec.min <= rec.max
    <3>1. PICK t \in Observations(bag) : TRUE
      BY <1>3, ObservationFacts
    <3>2. t \in Nat /\ rec.min <= t /\ t <= rec.max
      BY <3>1, ObservationFacts DEF Summarises, ExtremesMatch
    <3> QED
      BY <1>1, <3>2
  <2>2. percentile_ticks(rec, num, den) = rec.max
    BY <1>3, PercentileForm
  <2> QED
    BY <1>1, <1>3, <2>1, <2>2
<1>4. CASE rec.count # 0 /\ num # den
  <2>1. Rank(rec, num, den) \in 1 .. rec.count
    BY <1>1, <1>4, RankFacts
  <2>2. percentile_ticks(rec, num, den) = AtRank(rec, Rank(rec, num, den))
    BY <1>4, PercentileForm
  <2> QED
    BY <1>4, <2>1, <2>2, AtRankStays
<1> QED
  BY <1>2, <1>3, <1>4

LEMMA SummaryIsFaithful ==
    ASSUME NEW rec, NEW bag, Summarises(rec, bag)
    PROVE  IsFaithful(rec, bag)
<1> SUFFICES ASSUME NEW p \in Percentiles
             PROVE  LET answer == percentile_ticks(rec, p[1], p[2])
                        truth  == TruePercentile(bag, p[1], p[2])
                    IN  IF Observations(bag) = {} THEN answer = 0
                        ELSE /\ bit_width(answer) = bit_width(truth)
                             /\ answer \in Min(Observations(bag)) .. Max(Observations(bag))
  BY DEF IsFaithful
<1>1. PICK num \in Nat, den \in Nat \ {0} : num = p[1] /\ den = p[2] /\ num <= den
  <2>1. p \in Nat \X (Nat \ {0}) /\ p[1] <= p[2]
    BY LatencyAssumption
  <2> QED
    BY <2>1
<1>2. PICK answer \in Nat : /\ answer = percentile_ticks(rec, num, den) /\ answer <= rec.max
                            /\ rec.count # 0 => rec.min <= answer
                            /\ rec.count = 0 => answer = 0
  BY <1>1, PercentileBounds
<1>3. CASE Observations(bag) = {}
  <2>1. answer = 0
    BY <1>2, <1>3, ObservationFacts
  <2> QED
    BY <1>1, <1>2, <1>3, <2>1
<1>4. CASE Observations(bag) # {}
  <2>1. rec.count \in Nat \ {0}
    BY <1>4, ObservationFacts
  <2>2. bit_width(answer) = bit_width(TruePercentile(bag, num, den))
    <3>1. CASE num = den
      <4>1. answer = rec.max
        BY <1>2, <2>1, <3>1, PercentileForm
      <4>2. TruePercentile(bag, num, den) = rec.max
        BY <2>1, <3>1, TopIsTruth
      <4> QED
        BY <4>1, <4>2
    <3>2. CASE num # den
      <4>1. PICK rank \in 1 .. rec.count : rank = Rank(rec, num, den)
        BY <1>1, <2>1, RankFacts
      <4>2. answer = AtRank(rec, rank)
        BY <1>2, <2>1, <3>2, <4>1, PercentileForm
      <4>3. bit_width(answer) = RankBucket(rec, rank)
        BY <1>2, <4>2, AtRankStays, BitWidthIs
      <4>4. PICK truth : truth = TruePercentile(bag, num, den)
        OBVIOUS
      <4>5. /\ truth \in Observations(bag) /\ UpTo(bag, truth) >= rank
            /\ \A t \in Observations(bag) : UpTo(bag, t) >= rank => truth <= t
        BY <1>1, <2>1, <4>1, <4>4, TruthFacts
      <4>6. bit_width(truth) = RankBucket(rec, rank)
        BY <4>5, TruthIsInBucket
      <4> QED
        BY <4>3, <4>4, <4>6
    <3> QED
      BY <3>1, <3>2
  <2>3. rec.min = Min(Observations(bag)) /\ rec.max = Max(Observations(bag))
    <3>1. /\ \A t \in Observations(bag) : t \in Nat /\ rec.min <= t /\ t <= rec.max
          /\ rec.min \in Observations(bag) /\ rec.max \in Observations(bag)
      BY <1>4, ObservationFacts DEF Summarises, ExtremesMatch
    <3>2. \A x, y \in Nat : x <= y /\ y <= x => x = y
      OBVIOUS
    <3>3. /\ Min(Observations(bag)) \in Observations(bag)
          /\ \A t \in Observations(bag) : Min(Observations(bag)) <= t
      BY <3>1 DEF Min
    <3>4. /\ Max(Observations(bag)) \in Observations(bag)
          /\ \A t \in Observations(bag) : Max(Observations(bag)) >= t
      BY <3>1 DEF Max
    <3> QED
      BY <3>1, <3>3, <3>4
  <2>4. answer \in rec.min .. rec.max
    BY <1>2, <2>1 DEF Summarises, Recorders
  <2>5. answer \in Min(Observations(bag)) .. Max(Observations(bag))
    BY <2>3, <2>4
  <2> QED
    BY <1>1, <1>2, <1>4, <2>2, <2>5
<1> QED
  BY <1>3, <1>4

(* Every percentile that a recorder answers, one class's or the merged      *)
(* one's, lies in the bucket of the true percentile of what was measured    *)
(* since the boundary and within the observed range: latency.h, "worst-case *)
(* error is one bucket span", "no percentile can leave the observed range". *)
THEOREM LatencyPercentilesAreFaithful == LatencySpec => []PercentilesAreFaithful
<1>1. RecordersInv => PercentilesAreFaithful
  <2> SUFFICES ASSUME RecordersInv PROVE PercentilesAreFaithful
    OBVIOUS
  <2>1. \A c \in Classes : IsFaithful(recorders[c], samples[c])
    BY SummaryIsFaithful DEF RecordersInv
  <2>2. IsFaithful(all, Pooled)
    BY AllSummarises, SummaryIsFaithful
  <2> QED
    BY <2>1, <2>2 DEF PercentilesAreFaithful
<1> QED
  BY <1>1, RecordersAlways, PTL

-----------------------------------------------------------------------------
LEMMA PercentileAscends ==
    ASSUME NEW rec, NEW bag, Summarises(rec, bag),
           NEW a \in Nat, NEW b \in Nat \ {0}, a <= b,
           NEW c \in Nat, NEW d \in Nat \ {0}, c <= d, a * d <= c * b
    PROVE  percentile_ticks(rec, a, b) <= percentile_ticks(rec, c, d)
<1>1. rec.count \in Nat /\ rec.max \in Nat
  BY DEF Summarises, Recorders
<1>2. CASE rec.count = 0
  <2>1. percentile_ticks(rec, a, b) = 0 /\ percentile_ticks(rec, c, d) = 0
    BY <1>2, PercentileBounds
  <2> QED
    BY <2>1
<1>3. CASE rec.count # 0 /\ c = d
  <2>1. percentile_ticks(rec, c, d) = rec.max
    BY <1>3, PercentileForm
  <2>2. percentile_ticks(rec, a, b) <= rec.max
    BY PercentileBounds
  <2> QED
    BY <2>1, <2>2
<1>4. CASE rec.count # 0 /\ c # d
  <2>1. a # b
    <3> SUFFICES ASSUME a = b PROVE FALSE
      OBVIOUS
    <3>1. d * b <= c * b
      BY ProductType
    <3>2. d <= c
      BY <3>1, ProductCancels
    <3> QED
      BY <1>4, <3>2
  <2>2. PICK N \in Nat \ {0} : N = rec.count
    BY <1>1, <1>4
  <2>3. PICK p \in Nat, q \in Nat : p = Ceiling(N, a, b) /\ q = Ceiling(N, c, d)
    BY CeilingFacts
  <2>4. p <= q
    BY <2>3, CeilingAscends
  <2>5. Rank(rec, a, b) = GreaterOf(1, p) /\ Rank(rec, c, d) = GreaterOf(1, q)
    BY <2>2, <2>3 DEF Rank, Ceiling
  <2>6. PICK r \in 1 .. rec.count, s \in 1 .. rec.count :
           r = Rank(rec, a, b) /\ s = Rank(rec, c, d)
    BY <1>1, <1>4, RankFacts
  <2>7. r <= s
    BY <2>4, <2>5, <2>6 DEF GreaterOf
  <2>8. AtRank(rec, r) <= AtRank(rec, s)
    BY <2>6, <2>7, AtRankAscends
  <2> QED
    BY <1>4, <2>1, <2>6, <2>8, PercentileForm
<1> QED
  BY <1>2, <1>3, <1>4

LEMMA SummaryMonotone == RecordersInv => PercentilesAreMonotone
<1> SUFFICES ASSUME RecordersInv, NEW p \in Percentiles, NEW q \in Percentiles,
                    p[1] * q[2] <= q[1] * p[2]
             PROVE  percentile_ticks(all, p[1], p[2]) <= percentile_ticks(all, q[1], q[2])
  BY DEF PercentilesAreMonotone
<1>1. /\ p \in Nat \X (Nat \ {0}) /\ p[1] <= p[2]
      /\ q \in Nat \X (Nat \ {0}) /\ q[1] <= q[2]
  BY LatencyAssumption
<1>2. /\ p[1] \in Nat /\ p[2] \in Nat \ {0} /\ q[1] \in Nat /\ q[2] \in Nat \ {0}
  BY <1>1
<1>3. Summarises(all, Pooled)
  BY AllSummarises
<1> QED
  BY <1>1, <1>2, <1>3, PercentileAscends

(* The columns of a report ascend, up to the greatest sample.               *)
LEMMA ColumnsAscend ==
    ASSUME NEW rec, NEW bag, Summarises(rec, bag)
    PROVE  LET report == summary(rec) IN
           /\ report.max \in Nat /\ report.count = SampleCount(bag)
           /\ \A k \in 1 .. 6 : report[Columns[k]] \in 0 .. report.max
           /\ \A k \in 1 .. 5 : report[Columns[k]] <= report[Columns[k + 1]]
<1>1. /\ rec.count \in Nat /\ rec.min \in Nat /\ rec.max \in Nat
      /\ rec.count = SampleCount(bag)
  BY DEF Summarises, Recorders, CountsMatch
<1>2. PICK p50 \in Nat : /\ p50 = percentile_ticks(rec, 50, 100) /\ p50 <= rec.max
                         /\ rec.count # 0 => rec.min <= p50
  BY PercentileBounds
<1>3. PICK p90 \in Nat : p90 = percentile_ticks(rec, 90, 100) /\ p90 <= rec.max
  BY PercentileBounds
<1>4. PICK p99 \in Nat : p99 = percentile_ticks(rec, 99, 100) /\ p99 <= rec.max
  BY PercentileBounds
<1>5. PICK p999 \in Nat : p999 = percentile_ticks(rec, 999, 1000) /\ p999 <= rec.max
  BY PercentileBounds
<1>6. p50 <= p90 /\ p90 <= p99 /\ p99 <= p999
  <2>1. percentile_ticks(rec, 50, 100) <= percentile_ticks(rec, 90, 100)
    BY PercentileAscends
  <2>2. percentile_ticks(rec, 90, 100) <= percentile_ticks(rec, 99, 100)
    BY PercentileAscends
  <2>3. percentile_ticks(rec, 99, 100) <= percentile_ticks(rec, 999, 1000)
    BY PercentileAscends
  <2> QED
    BY <1>2, <1>3, <1>4, <1>5, <2>1, <2>2, <2>3
<1>7. PICK least \in Nat : /\ least = (IF rec.count = 0 THEN 0 ELSE rec.min)
                           /\ least <= p50
  BY <1>1, <1>2
<1>8. PICK report : report = summary(rec)
  OBVIOUS
<1>9. /\ report.count = rec.count /\ report.max = rec.max /\ report["min"] = least
      /\ report["p50"] = p50 /\ report["p90"] = p90 /\ report["p99"] = p99
      /\ report["p999"] = p999 /\ report["max"] = rec.max
  BY <1>2, <1>3, <1>4, <1>5, <1>7, <1>8 DEF summary
<1>10. /\ Columns[1] = "min" /\ Columns[2] = "p50" /\ Columns[3] = "p90"
       /\ Columns[4] = "p99" /\ Columns[5] = "p999" /\ Columns[6] = "max"
  BY DEF Columns
<1>11. \A k \in 1 .. 6 : report[Columns[k]] \in 0 .. report.max
  <2> TAKE k \in 1 .. 6
  <2>1. k = 1 \/ k = 2 \/ k = 3 \/ k = 4 \/ k = 5 \/ k = 6
    OBVIOUS
  <2> QED
    BY <1>1, <1>2, <1>3, <1>4, <1>5, <1>7, <1>9, <1>10, <2>1
<1>12. \A k \in 1 .. 5 : report[Columns[k]] <= report[Columns[k + 1]]
  <2> TAKE k \in 1 .. 5
  <2>1. \/ k = 1 /\ k + 1 = 2
        \/ k = 2 /\ k + 1 = 3
        \/ k = 3 /\ k + 1 = 4
        \/ k = 4 /\ k + 1 = 5
        \/ k = 5 /\ k + 1 = 6
    OBVIOUS
  <2> QED
    BY <1>1, <1>2, <1>3, <1>4, <1>5, <1>6, <1>7, <1>9, <1>10, <2>1
<1> QED
  BY <1>1, <1>8, <1>9, <1>11, <1>12

(* Whatever the calibration, the columns of the report ascend and each is   *)
(* the ticks' own nanoseconds, rounded down, if they fit a word: latency.h, *)
(* "exact split math".                                                      *)
THEOREM LatencyReportIsExact == LatencySpec => []ReportIsExact
<1>1. RecordersInv => ReportIsExact
  <2> SUFFICES ASSUME RecordersInv PROVE ReportIsExact
    OBVIOUS
  <2>1. PICK report : report = summary(all)
    OBVIOUS
  <2>2. Summarises(all, Pooled)
    BY AllSummarises
  <2>3. /\ report.max \in Nat /\ report.count = SampleCount(Pooled)
        /\ \A k \in 1 .. 6 : report[Columns[k]] \in 0 .. report.max
        /\ \A k \in 1 .. 5 : report[Columns[k]] <= report[Columns[k + 1]]
    BY <2>1, <2>2, ColumnsAscend
  <2>4. DOMAIN report = {"count", "min", "max", "p50", "p90", "p99", "p999"}
    BY <2>1 DEF summary
  <2>5. ASSUME NEW r \in Readings, NEW rate \in Nat \ {0}, rate = measure(r),
               Fits(rate, report.max), rate * NanosPerSecond <= Pow2[Width],
               NEW nanos, nanos = to_nanos(report, rate)
        PROVE  /\ \A k \in 1 .. 6 :
                    LET ns == nanos[Columns[k]] IN
                    /\ ns * rate <= report[Columns[k]] * NanosPerSecond
                    /\ report[Columns[k]] * NanosPerSecond < (ns + 1) * rate
               /\ \A k \in 1 .. 5 : nanos[Columns[k]] <= nanos[Columns[k + 1]]
               /\ nanos.count = SampleCount(Pooled)
    <3>1. nanos = [column \in DOMAIN report |->
                      IF column = "count" THEN report.count ELSE ticks_to_nanos(rate, report[column])]
      BY <2>5 DEF to_nanos
    <3>2. \A k \in 1 .. 6 : Columns[k] \in DOMAIN report /\ Columns[k] # "count"
      BY <2>4 DEF Columns
    <3>3. \A k \in 1 .. 6 : nanos[Columns[k]] = ticks_to_nanos(rate, report[Columns[k]])
      BY <3>1, <3>2
    <3>4. nanos.count = SampleCount(Pooled)
      BY <2>3, <2>4, <3>1
    <3>5. /\ \A t \in 0 .. report.max :
                /\ ticks_to_nanos(rate, t) * rate <= t * NanosPerSecond
                /\ t * NanosPerSecond < (ticks_to_nanos(rate, t) + 1) * rate
          /\ \A t, u \in 0 .. report.max :
                t <= u => ticks_to_nanos(rate, t) <= ticks_to_nanos(rate, u)
      BY <2>3, <2>5, NanosOfTicks
    <3>6. ASSUME NEW k \in 1 .. 6
          PROVE  LET ns == nanos[Columns[k]] IN
                 /\ ns * rate <= report[Columns[k]] * NanosPerSecond
                 /\ report[Columns[k]] * NanosPerSecond < (ns + 1) * rate
      <4>1. PICK t \in 0 .. report.max : t = report[Columns[k]]
        BY <2>3
      <4>2. nanos[Columns[k]] = ticks_to_nanos(rate, t)
        BY <3>3, <4>1
      <4> QED
        BY <3>5, <4>1, <4>2
    <3>7. ASSUME NEW k \in 1 .. 5 PROVE nanos[Columns[k]] <= nanos[Columns[k + 1]]
      <4>1. k \in 1 .. 6 /\ k + 1 \in 1 .. 6
        OBVIOUS
      <4>2. PICK t \in 0 .. report.max, u \in 0 .. report.max :
               t = report[Columns[k]] /\ u = report[Columns[k + 1]] /\ t <= u
        BY <2>3, <4>1
      <4>3. nanos[Columns[k]] = ticks_to_nanos(rate, t) /\ nanos[Columns[k + 1]] = ticks_to_nanos(rate, u)
        BY <3>3, <4>1, <4>2
      <4> QED
        BY <3>5, <4>2, <4>3
    <3> QED
      BY <3>4, <3>6, <3>7
  <2>6. PercentilesAreMonotone
    BY SummaryMonotone
  <2>7. \A r \in Readings : measure(r) \in Nat \ {0}
    BY RateType
  <2> QED
    BY <2>1, <2>5, <2>6, <2>7 DEF ReportIsExact
<1> QED
  BY <1>1, RecordersAlways, PTL
=============================================================================
