------------------------------ MODULE Terminal ------------------------------
(***************************************************************************)
(* The output of one process, from its pseudo-terminal to the panel        *)
(* (aisense-pty: session.rs, ring.rs, log.rs, batch.rs, manager.rs).  A    *)
(* thread reads, a second one waits for the process, a task (the pump)     *)
(* carries the output to the interface, and the panel comes and goes.      *)
(* Output is counted in pieces of one unit: piece n is the n-th.           *)
(* The panel is Terminal.tsx with its HydrationGate.                       *)
(***************************************************************************)
EXTENDS Integers, Sequences, SequencesExt

CONSTANTS
    Scenes,          \* what an instance looks at: [system, reader, pieces, calls],
                     \* the operating system, how the thread that reads starts,
                     \* the bounds on the output and on what the panel asks
    LineEnds,        \* the pieces that end a line
    MaxLines, MaxBytes, MaxEntry,   \* limits of the ring
    MaxLog,          \* size at which the log rotates
    Capacity,        \* BROADCAST_CAPACITY
    ReadChunk        \* the pieces of one read, at most

ASSUME LimitsAssumption ==
    /\ MaxLines \in Nat \ {0} /\ MaxBytes \in Nat \ {0} /\ MaxEntry \in Nat \ {0}
    /\ MaxLog \in Nat \ {0} /\ Capacity \in Nat \ {0} /\ ReadChunk \in Nat \ {0}
    /\ \A s \in Scenes : s.pieces \in Nat /\ s.reader \subseteq {"read", "done"}

VARIABLES
    scene, alive, waiter,            \* the process, and the thread that waits for it
    reader, chunk, read, ring, log,  \* the thread that reads; what it has in hand
    stream, lagged,  \* the channel to the pump, and whether it overflowed
    batcher,         \* visible, pending, and ready: the window has closed
    pump, batch,     \* the pump, and the batch it has taken out
    calls, replies,  \* what the panel asked, and the histories on their way to it
    events,          \* what the interface has not handled: batches and the exit
    panel, screen,   \* on the screen or not, its gate and generation; what xterm shows
    asked,
    base,            \* history: the screen is to show what came from this piece on
    cleared,         \* history: how much had been read when the ring was emptied
    missed, raw      \* history: what the pump lost, and what the detector saw

waiting == <<scene, alive, waiter>>
reading == <<reader, chunk, read, log>>
pumping == <<stream, lagged, pump, batch, missed, raw>>
ui      == <<panel, screen, asked>>
outputVars == <<waiting, reading, ring, pumping, batcher, calls, replies, events, ui, base, cleared>>

End    == 0           \* the notice that the process ended, as the screen shows it
Run(a, b) == [i \in 1 .. b - a + 1 |-> a + i - 1]
Flat(entries) == FlattenSeq(entries)

OutputTypeOK ==
    /\ scene \in Scenes /\ {alive, lagged} \subseteq BOOLEAN
    /\ waiter \in {"waits", "quiet", "posted"}
    /\ reader \in {"read", "send", "done"} /\ read \in 0 .. scene.pieces
    /\ chunk = <<>> <=> reader # "send"
    /\ Len(ring) <= MaxLines /\ Len(Flat(ring)) <= MaxBytes
    /\ \A i \in 1 .. Len(ring) : Len(ring[i]) \in 1 .. MaxEntry
    /\ Len(log.now) < MaxLog /\ Len(stream) <= Capacity
    /\ batcher.visible \/ batcher.pending = <<>>
    /\ pump \in {"wait", "poll", "last", "drain", "flush", "exit", "over"}
    /\ \A i \in 1 .. Len(screen) : screen[i] \in 0 .. read

OutputInit ==
    /\ scene \in Scenes /\ alive = TRUE /\ waiter = "waits"
    /\ reader \in scene.reader         \* the thread may not start
    /\ chunk = <<>> /\ read = 0 /\ ring = <<>> /\ log = [old |-> <<>>, now |-> <<>>]
    /\ stream = <<>> /\ lagged = FALSE /\ pump = "wait" /\ batch = <<>>
    /\ batcher \in [visible : BOOLEAN, pending : {<<>>}, ready : {TRUE}]
    /\ calls = <<>> /\ replies = {} /\ events = <<>> /\ asked = 0
    /\ panel = [on |-> FALSE, shut |-> FALSE, queue |-> <<>>, generation |-> 0] /\ screen = <<>>
    /\ base = 1 /\ cleared = 0 /\ missed = {} /\ raw = {}

-----------------------------------------------------------------------------
(* RingBuffer and SessionLog                                                 *)

Open(entries) == entries # <<>> /\ Last(Last(entries)) \notin LineEnds
\* push: a part goes on with an open entry it fits in, or is a new one.
AddPart(entries, part) ==
    IF Open(entries) /\ Len(Last(entries)) + Len(part) <= MaxEntry
    THEN Append(Front(entries), Last(entries) \o part)
    ELSE Append(entries, part)
\* The parts of what was read: to the end of a line, none over the limit.
Parts(data) == FoldLeft(AddPart, <<>>, [i \in 1 .. Len(data) |-> <<data[i]>>])

Fits(entries) == Len(entries) <= MaxLines /\ Len(Flat(entries)) <= MaxBytes
After(entries, k) == SubSeq(entries, k + 1, Len(entries))
\* evict: the oldest entries go until the rest fits.
Evict(entries) ==
    After(entries, CHOOSE k \in 0 .. Len(entries) :
        Fits(After(entries, k)) /\ \A j \in 0 .. k - 1 : ~Fits(After(entries, j)))
Push(entries, data) == Evict(FoldLeft(AddPart, entries, Parts(data)))

\* append, and rotate when the file is full: one older file is kept.
AppendLog(l, data) ==
    IF Len(l.now) + Len(data) < MaxLog THEN [l EXCEPT !.now = @ \o data]
    ELSE [old |-> l.now \o data, now |-> <<>>]

-----------------------------------------------------------------------------
(* The thread that reads, and the one that waits for the process             *)

\* A read; it goes to the ring first.
Read ==
    /\ reader = "read"
    /\ \E n \in 1 .. ReadChunk :
        /\ read + n <= scene.pieces /\ read' = read + n
        /\ chunk' = Run(read + 1, read + n) /\ ring' = Push(ring, chunk')
    /\ reader' = "send"
    /\ UNCHANGED <<waiting, log, pumping, batcher, calls, replies, events, ui, base, cleared>>

\* Then to the log, and to the channel, whose oldest chunk gives way.
Send ==
    LET full == Len(stream) = Capacity
    IN  /\ reader = "send" /\ reader' = "read" /\ chunk' = <<>>
        /\ log' = AppendLog(log, chunk)
        /\ stream' = Append(IF full THEN Tail(stream) ELSE stream, chunk)
        /\ lagged' = (lagged \/ full)
        /\ missed' = IF full THEN missed \cup ToSet(Head(stream)) ELSE missed
        /\ UNCHANGED <<waiting, read, ring, pump, batch, raw, batcher, calls, replies, events,
                       ui, base, cleared>>

\* EofOnUnix is the mutant of Eof.
EofOnUnix == /\ reader = "read" /\ ~alive /\ scene.system = "unix" /\ reader' = "done"
             /\ UNCHANGED <<waiting, chunk, read, log, ring, pumping, batcher, calls, replies,
                            events, ui, base, cleared>>
\* The end of the output: on Unix when the process is gone, on Windows when
\* the console was closed.  What is still in the pipe may be read before.
Eof ==
    /\ reader = "read" /\ ~alive /\ (scene.system = "windows" => waiter = "posted")
    /\ reader' = "done"
    /\ UNCHANGED <<waiting, chunk, read, log, ring, pumping, batcher, calls, replies, events, ui,
                   base, cleared>>
Reader == Read \/ Send \/ Eof

\* The process ends, or kill() ends it.
Die == /\ alive /\ alive' = FALSE
       /\ UNCHANGED <<scene, waiter, reading, ring, pumping, batcher, calls, replies, events, ui,
                      base, cleared>>
\* On Windows the console is closed before the exit is posted, but not at once.
Waiter ==
    /\ ~alive
    /\ \/ waiter = "waits" /\ waiter' = IF scene.system = "windows" THEN "quiet" ELSE "posted"
       \/ waiter = "quiet" /\ waiter' = "posted"
    /\ UNCHANGED <<scene, alive, reading, ring, pumping, batcher, calls, replies, events, ui,
                   base, cleared>>

-----------------------------------------------------------------------------
(* The pump                                                                  *)

\* What the pump leaves alone.
Outside == UNCHANGED <<waiting, reading, ring, calls, replies, ui, base, cleared>>
Goes(from, to) == pump = from /\ batch = <<>> /\ pump' = to

\* A chunk: to the detector, and to the batcher if the panel is visible.
Take ==
    /\ ~lagged /\ stream # <<>> /\ stream' = Tail(stream)
    /\ raw' = raw \cup ToSet(Head(stream))
    /\ batcher' = IF batcher.visible THEN [batcher EXCEPT !.pending = @ \o Head(stream)]
                  ELSE batcher
    /\ UNCHANGED <<lagged, missed>>
\* Lagged: the pump hears of it before the next chunk.
HearLag == lagged /\ lagged' = FALSE /\ UNCHANGED <<stream, missed, raw, batcher>>
Nothing == UNCHANGED <<stream, lagged, missed, raw, batcher>>
TakeBatch == /\ batch' = batcher.pending
             /\ batcher' = IF batcher.pending = <<>> THEN batcher
                           ELSE [batcher EXCEPT !.pending = <<>>, !.ready = FALSE]
             /\ UNCHANGED <<stream, lagged, missed, raw>>

Receive == Goes("wait", "poll") /\ (Take \/ HearLag) /\ UNCHANGED <<batch, events>> /\ Outside
Wake    == /\ Goes("wait", "poll") /\ batcher.ready /\ batcher.pending # <<>>
           /\ Nothing /\ UNCHANGED <<batch, events>> /\ Outside
SeeDone == Goes("wait", "last") /\ reader = "done" /\ Nothing /\ UNCHANGED <<batch, events>> /\ Outside
\* emit_ready: the batch, if the window allows one.
EmitReady ==
    /\ Goes("poll", "wait") \/ Goes("last", "drain")
    /\ IF batcher.ready THEN TakeBatch ELSE Nothing /\ UNCHANGED batch
    /\ UNCHANGED events /\ Outside
\* sink.data
Deliver ==
    /\ batch # <<>> /\ batch' = <<>> /\ events' = Append(events, batch)
    /\ Nothing /\ UNCHANGED pump /\ Outside
Drain ==
    /\ \/ Goes("drain", "drain") /\ (Take \/ HearLag)
       \/ Goes("drain", "flush") /\ stream = <<>> /\ ~lagged /\ Nothing
    /\ UNCHANGED <<batch, events>> /\ Outside
Flush == Goes("flush", "exit") /\ TakeBatch /\ UNCHANGED events /\ Outside
SinkExit ==
    /\ Goes("exit", "over") /\ waiter = "posted" /\ events' = Append(events, <<End>>)
    /\ Nothing /\ UNCHANGED batch /\ Outside
Pump == \/ Receive \/ Wake \/ SeeDone \/ EmitReady \/ Deliver \/ Drain \/ Flush \/ SinkExit

\* The window of the batcher passes.
Tick == /\ ~batcher.ready /\ batcher' = [batcher EXCEPT !.ready = TRUE]
        /\ UNCHANGED <<events, pumping>> /\ Outside

-----------------------------------------------------------------------------
(* The calls of the panel, as the manager serves them                        *)

SetVisible(on) ==
    IF batcher.visible = on THEN batcher
    ELSE [batcher EXCEPT !.visible = on, !.pending = IF on THEN @ ELSE <<>>]

\* show holds the batcher while it copies the ring.
Show(call) ==
    /\ call.op = "show" /\ batcher' = SetVisible(TRUE)
    /\ replies' = replies \cup {[generation |-> call.generation, history |-> Flat(ring)]}
    /\ base' = IF ring = <<>> THEN read + 1 ELSE Head(Head(ring))
    /\ UNCHANGED <<ring, cleared>>
Hide(call) ==
    /\ call.op = "hide" /\ batcher' = SetVisible(FALSE)
    /\ UNCHANGED <<replies, base, ring, cleared>>
Clear(call) ==
    /\ call.op = "clear" /\ ring' = <<>> /\ cleared' = read
    /\ UNCHANGED <<replies, base, batcher>>
Serve ==
    /\ calls # <<>> /\ calls' = Tail(calls)
    /\ Show(Head(calls)) \/ Hide(Head(calls)) \/ Clear(Head(calls))
    /\ UNCHANGED <<waiting, reading, pumping, events, ui>>

-----------------------------------------------------------------------------
(* The panel                                                                 *)

Core == UNCHANGED <<waiting, reading, ring, pumping, batcher, cleared>>
Call(op) == calls' = Append(calls, [op |-> op, generation |-> panel'.generation])
Ask == asked < scene.calls /\ asked' = asked + 1

Appear ==
    /\ Ask /\ ~panel.on /\ screen' = <<>>
    /\ panel' = [on |-> TRUE, shut |-> TRUE, queue |-> <<>>,
                 generation |-> panel.generation + 1]
    /\ Call("show") /\ UNCHANGED <<replies, events, base>> /\ Core
Vanish ==
    /\ Ask /\ panel.on /\ UNCHANGED screen
    /\ panel' = [on |-> FALSE, shut |-> FALSE, queue |-> <<>>,
                 generation |-> panel.generation + 1]
    /\ Call("hide") /\ UNCHANGED <<replies, events, base>> /\ Core
Wipe ==
    /\ Ask /\ panel.on /\ screen' = <<>> /\ base' = read + 1
    /\ UNCHANGED panel /\ Call("clear") /\ UNCHANGED <<replies, events>> /\ Core

\* An event: output waits while the gate is shut, the notice of the end does not.
Handle ==
    /\ events # <<>> /\ events' = Tail(events)
    /\ IF ~panel.shut \/ Head(events) = <<End>>
       THEN screen' = screen \o Head(events) /\ UNCHANGED panel
       ELSE panel' = [panel EXCEPT !.queue = @ \o Head(events)] /\ UNCHANGED screen
    /\ UNCHANGED <<calls, replies, asked, base>> /\ Core

\* The history of this generation, then what waited for it.
\* Opened is the mutant of what is then written.
Opened(history, queued)  == queued \o history
Written(history, queued) == history \o queued
Finish ==
    /\ \E r \in replies :
        /\ replies' = replies \ {r}
        /\ IF r.generation = panel.generation /\ panel.shut
           THEN /\ screen' = screen \o Written(r.history, panel.queue)
                /\ panel' = [panel EXCEPT !.shut = FALSE, !.queue = <<>>]
           ELSE UNCHANGED <<panel, screen>>
    /\ UNCHANGED <<calls, events, asked, base>> /\ Core
Interface == Serve \/ Appear \/ Vanish \/ Wipe \/ Handle \/ Finish

OutputNext == Reader \/ Die \/ Waiter \/ Pump \/ Tick \/ Interface
\* Threads and the task are scheduled; nobody has to look at the panel.
OutputSpec == OutputInit /\ [][OutputNext]_outputVars /\ WF_outputVars(Reader) /\ WF_outputVars(Waiter) /\ WF_outputVars(Pump)

-----------------------------------------------------------------------------
(* Properties                                                                *)

\* The history and the transcript end with the last piece read, without a
\* hole, and give up no more than their limits ask for (ring.rs, log.rs).
KeepsTheEnd ==
    LET kept == Flat(ring)  written == log.old \o log.now  logged == read - Len(chunk)
    IN  /\ kept = Run(read - Len(kept) + 1, read)
        /\ \/ Len(kept) = read - cleared
           \/ Len(ring) = MaxLines
           \/ Len(kept) + MaxEntry > MaxBytes
        /\ written = Run(logged - Len(written) + 1, logged)
        /\ Len(written) = logged \/ Len(written) >= MaxLog

\* A panel that has its history shows every piece since, in order, or it is
\* still to come: only what the pump itself lost is missing, and a piece may
\* come twice (show in manager.rs, HydrationGate).
Coming == UNION {ToSet(chunk), ToSet(Flat(stream)), ToSet(batcher.pending), ToSet(batch),
                 ToSet(Flat(events))}
ScreenHasNoGap ==
    panel.on /\ ~panel.shut =>
        /\ (base .. read) \ missed \subseteq ToSet(screen) \cup Coming
        /\ \A i \in 1 .. Len(screen) : \A n \in (base .. screen[i] - 1) \ missed :
              \E j \in 1 .. i - 1 : screen[j] = n

\* The exit is announced when nothing more comes: the detector saw all that
\* was read, and nothing waits to be shown (pump in manager.rs).
ExitAfterOutput ==
    pump = "over" => /\ reader = "done" /\ stream = <<>> /\ batcher.pending = <<>> /\ batch = <<>>
                     /\ raw \cup missed = 1 .. read

\* From the read to the screen nothing is lost, doubled into a gap or late: in
\* the history, on the panel and at the end (pump, ring.rs, log.rs, batcher.rs).
OutputIsExact == OutputTypeOK /\ KeepsTheEnd /\ ScreenHasNoGap /\ ExitAfterOutput

\* Whatever happens, the end of the process is announced (reader_done).
ExitIsTold == ~alive ~> pump = "over"

\* What the screen shows last is the notice of the end.
EndIsLast == \A i \in 1 .. Len(screen) - 1 : screen[i] # End
=============================================================================
