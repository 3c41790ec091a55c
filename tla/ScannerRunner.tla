---------------------------- MODULE ScannerRunner ----------------------------
(***************************************************************************)
(* The Layer-1 scanners of concurrent scans: run_layer1                     *)
(* (shared/scanners/__init__.py), the adapters it gathers, and run_scanner  *)
(* with the semaphore all of them share (subprocess_runner.py).             *)
(*                                                                         *)
(* A subprocess writes its report to stdout in pieces, a piece being what   *)
(* one read of the stream can return, and may or may not write to stderr.   *)
(* A process whose pipe is full stops until somebody reads.  The semaphore  *)
(* grants a released slot to the first waiter, whose task runs later.  What *)
(* a call returns to its adapter, or raises, is left out.                   *)
(***************************************************************************)
EXTENDS Naturals, Sequences, FiniteSets

CONSTANTS
    Scans,      \* calls of run_layer1
    Adapters,   \* what get_adapters returns
    Slots,      \* SCANNER_CONCURRENCY
    MaxPieces,  \* BOUND: pieces of the longest report
    Capacity    \* pieces the pipe and the StreamReader hold unread

ASSUME SlotsAndSizes == Slots \in Nat \ {0} /\ MaxPieces \in Nat /\ Capacity \in Nat \ {0}
ASSUME CallsAreFinite == IsFiniteSet(Scans) /\ IsFiniteSet(Adapters)

Calls == Scans \X Adapters

VARIABLES
    layer,  \* run_layer1 of each scan; its workspace is there while "scanning"
    free,   \* _SUBPROCESS_SEM._value
    queue,  \* of _SUBPROCESS_SEM._waiters, the calls that have no slot yet
    call,   \* the state of each call of run_scanner
    proc    \* its subprocess

vars == <<layer, free, queue, call, proc>>
sem == <<free, queue>>

(***************************************************************************)
(* Types                                                                   *)
(***************************************************************************)
\* out, err: that read has returned.
Call == [pc : {"idle", "queued", "granted", "starting", "reading", "waiting", "reaping", "done"},
         out : BOOLEAN, err : BOOLEAN]

At(pc) == [pc |-> pc, out |-> FALSE, err |-> FALSE]

\* dead: it has exited, or was never started; left: pieces of the report that are
\* not yet written; held: pieces written and not read; said: it has written to
\* stderr.
Process == [state : {"alive", "signalled", "dead"},
            left : 0..MaxPieces, held : 0..Capacity, said : BOOLEAN]

Report(state, size) == [state |-> state, left |-> size, held |-> 0, said |-> FALSE]
NoProcess == Report("dead", 0)

TypeOK ==
    /\ layer \in [Scans -> {"new", "scanning", "done"}]
    /\ free \in 0..Slots
    /\ queue \in Seq(Calls)
    /\ call \in [Calls -> Call]
    /\ proc \in [Calls -> Process]

Init ==
    /\ layer = [s \in Scans |-> "new"]
    /\ free = Slots
    /\ queue = <<>>
    /\ call = [c \in Calls |-> At("idle")]
    /\ proc = [c \in Calls |-> NoProcess]

(***************************************************************************)
(* run_layer1                                                              *)
(***************************************************************************)

\* The workspace is made and written, and the adapters are gathered; without
\* files or adapters the answer is [] at once.
LayerStarts(s) ==
    /\ layer[s] = "new"
    /\ \E to \in {"scanning", "done"} : layer' = [layer EXCEPT ![s] = to]
    /\ UNCHANGED <<sem, call, proc>>

\* gather over the adapters, none of which raises.
Gathered(s) == \A a \in Adapters : call[<<s, a>>].pc = "done"

\* The workspace is removed, the candidates are aggregated.
LayerEnds(s) ==
    /\ layer[s] = "scanning"
    /\ Gathered(s)
    /\ layer' = [layer EXCEPT ![s] = "done"]
    /\ UNCHANGED <<sem, call, proc>>

(***************************************************************************)
(* An adapter                                                              *)
(***************************************************************************)
\* No binary, no rules or no files of its language: [] without run_scanner.
Skip(c) ==
    /\ layer[c[1]] = "scanning" /\ call[c].pc = "idle"
    /\ call' = [call EXCEPT ![c] = At("done")]
    /\ UNCHANGED <<layer, sem, proc>>

\* asyncio.Semaphore.locked: a call whose slot was granted leaves _waiters only
\* when its task has run.
Locked == free = 0 \/ queue # <<>> \/ \E d \in Calls : call[d].pc = "granted"

\* run_scanner: async with _SUBPROCESS_SEM
Acquire(c) ==
    /\ layer[c[1]] = "scanning" /\ call[c].pc = "idle"
    /\ IF Locked THEN /\ call' = [call EXCEPT ![c] = At("queued")]
                      /\ queue' = Append(queue, c)
                      /\ UNCHANGED free
                 ELSE /\ call' = [call EXCEPT ![c] = At("starting")]
                      /\ free' = free - 1
                      /\ UNCHANGED queue
    /\ UNCHANGED <<layer, proc>>

\* The task of a call whose slot was granted runs, and grants the slots that
\* were freed in the meantime to those that queue behind it.
Resume(c) ==
    /\ call[c].pc = "granted"
    /\ LET n == IF free < Len(queue) THEN free ELSE Len(queue)
           woken == {queue[i] : i \in 1..n}
       IN  /\ call' = [d \in Calls |-> IF d = c THEN At("starting")
                                       ELSE IF d \in woken THEN At("granted")
                                       ELSE call[d]]
           /\ queue' = SubSeq(queue, n + 1, Len(queue))
           /\ free' = free - n
    /\ UNCHANGED <<layer, proc>>

\* Mutant of Release: the slot is freed as well as passed on.
ReleaseTwice(c) ==
    /\ call' = [d \in Calls |-> IF d = c THEN At("done")
                                ELSE IF queue # <<>> /\ d = Head(queue) THEN At("granted")
                                ELSE call[d]]
    /\ free' = IF free < Slots THEN free + 1 ELSE free
    /\ queue' = IF queue = <<>> THEN queue ELSE Tail(queue)

\* Call c ends and leaves `async with': its slot is granted to the first call
\* in the queue, or is free.
Release(c) ==
    IF queue = <<>>
    THEN /\ call' = [call EXCEPT ![c] = At("done")]
         /\ free' = free + 1
         /\ UNCHANGED queue
    ELSE /\ call' = [call EXCEPT ![c] = At("done"), ![Head(queue)] = At("granted")]
         /\ queue' = Tail(queue)
         /\ UNCHANGED free

(***************************************************************************)
(* run_scanner with its slot                                               *)
(***************************************************************************)

\* create_subprocess_exec
Spawn(c) ==
    /\ call[c].pc = "starting"
    /\ call' = [call EXCEPT ![c] = At("reading")]
    /\ \E size \in 0..MaxPieces : proc' = [proc EXCEPT ![c] = Report("alive", size)]
    /\ UNCHANGED <<layer, sem>>

SpawnFails(c) ==
    /\ call[c].pc = "starting"
    /\ Release(c)
    /\ UNCHANGED <<layer, proc>>

\* The gather of the two reads ends with the second of them.
AfterRead(c, both) == IF both THEN "waiting" ELSE call[c].pc

\* stdout.read(max_output_bytes) returns what is there as soon as something
\* is, and nothing at the end of the stream.
ReadStdout(c) ==
    /\ call[c].pc = "reading" /\ ~call[c].out
    /\ \E n \in 0..proc[c].held :
        /\ n = 0 => proc[c].held = 0 /\ proc[c].state = "dead"
        /\ call' = [call EXCEPT ![c].out = TRUE, ![c].pc = AfterRead(c, call[c].err)]
        /\ proc' = [proc EXCEPT ![c].held = @ - n]
    /\ UNCHANGED <<layer, sem>>

\* stderr.read, likewise.
ReadStderr(c) ==
    /\ call[c].pc = "reading" /\ ~call[c].err
    /\ proc[c].said \/ proc[c].state = "dead"
    /\ call' = [call EXCEPT ![c].err = TRUE, ![c].pc = AfterRead(c, call[c].out)]
    /\ UNCHANGED <<layer, sem, proc>>

\* Mutant of TimeoutCovers: only the read of stdout has a timeout.
TimeoutCoversStdout(c) == call[c].pc = "reading" /\ ~call[c].out

\* wait_for has the gather of the two reads in it, and nothing else.
TimeoutCovers(c) == call[c].pc = "reading"

\* proc.kill(), which a process that is already dead does not mind; nobody reads
\* its streams any more.
TimesOut(c) ==
    /\ TimeoutCovers(c)
    /\ call' = [call EXCEPT ![c] = At("reaping")]
    /\ proc' = [proc EXCEPT ![c] = Report(IF @.state = "alive" THEN "signalled" ELSE @.state, 0)]
    /\ UNCHANGED <<layer, sem>>

\* Mutant of Exited: proc.wait() is not awaited.
ExitedOrNot(c) == TRUE

Exited(c) == proc[c].state = "dead"

\* await proc.wait() after the reads; the exit status is not looked at, and what was
\* not read goes with the pipes.
Wait(c) ==
    /\ call[c].pc = "waiting"
    /\ Exited(c)
    /\ Release(c)
    /\ proc' = [proc EXCEPT ![c] = Report(@.state, 0)]
    /\ UNCHANGED layer

\* await proc.wait() after the kill, then ScannerTimeout.
Reap(c) ==
    /\ call[c].pc = "reaping"
    /\ Exited(c)
    /\ Release(c)
    /\ proc' = [proc EXCEPT ![c] = Report(@.state, 0)]
    /\ UNCHANGED layer

(***************************************************************************)
(* The subprocess                                                          *)
(***************************************************************************)
Moves(c, p) == proc' = [proc EXCEPT ![c] = p] /\ UNCHANGED <<layer, sem, call>>

WriteStdout(c) ==
    /\ proc[c].state = "alive" /\ proc[c].left > 0 /\ proc[c].held < Capacity
    /\ Moves(c, [proc[c] EXCEPT !.left = @ - 1, !.held = @ + 1])

WriteStderr(c) ==
    /\ proc[c].state = "alive" /\ ~proc[c].said
    /\ Moves(c, [proc[c] EXCEPT !.said = TRUE])

\* It has written its report and exits, or SIGKILL reaches it.
Exit(c) ==
    /\ \/ proc[c].state = "alive" /\ proc[c].left = 0
       \/ proc[c].state = "signalled"
    /\ Moves(c, [proc[c] EXCEPT !.state = "dead"])

\* It dies early: an error, or RLIMIT_CPU.
Die(c) ==
    /\ proc[c].state = "alive" /\ proc[c].left > 0
    /\ Moves(c, [proc[c] EXCEPT !.state = "dead"])

(***************************************************************************)
(* Specification                                                           *)
(***************************************************************************)
Begin(c) == Skip(c) \/ Acquire(c)
Execute(c) == Resume(c) \/ Spawn(c) \/ SpawnFails(c) \/ ReadStdout(c) \/ ReadStderr(c)
              \/ Wait(c) \/ Reap(c)
Subprocess(c) == WriteStdout(c) \/ WriteStderr(c) \/ Exit(c) \/ Die(c)

Next == \/ \E s \in Scans : LayerStarts(s) \/ LayerEnds(s)
        \/ \E c \in Calls : Begin(c) \/ Execute(c) \/ TimesOut(c) \/ Subprocess(c)

Spec == Init /\ [][Next]_vars

\* The event loop runs every ready task, the timer of wait_for goes off and
\* SIGKILL works; a subprocess does what it likes.
RunnerFairness ==
    /\ \A s \in Scans : WF_vars(LayerEnds(s))
    /\ \A c \in Calls : /\ WF_vars(Begin(c)) /\ WF_vars(Execute(c)) /\ WF_vars(TimesOut(c))
                        /\ WF_vars(proc[c].state = "signalled" /\ Exit(c))

FairSpec == Spec /\ RunnerFairness

\* No subprocess hangs by itself: it writes as soon as it can and exits once
\* it has written.
GoodProcessSpec == FairSpec /\ \A c \in Calls : WF_vars(WriteStdout(c)) /\ WF_vars(Exit(c))

(***************************************************************************)
(* Properties                                                              *)
(***************************************************************************)
HasSlot(c) == call[c].pc \in {"granted", "starting", "reading", "waiting", "reaping"}
Running(c) == proc[c].state \in {"alive", "signalled"}

\* "caps the total number of simultaneous scanner subprocesses": across all
\* scans the slots held, granted and free are SCANNER_CONCURRENCY, on every path
\* out of run_scanner and however many wait.
SlotsConserved == free + Cardinality({c \in Calls : HasSlot(c)}) = Slots

\* No scanner is left behind: while a subprocess runs, killed or not, its call
\* has a slot for it and the workspace it reads is there.
SubprocessesContained ==
    \A c \in Calls : Running(c) => HasSlot(c) /\ layer[c[1]] = "scanning"

\* If no call is stuck in proc.wait after its reads, every Layer-1 pass ends,
\* whatever its subprocesses do or fail to do.
Layer1Ends ==
    (\A c \in Calls : []<>(call[c].pc # "waiting")) =>
        <>[](\A s \in Scans : layer[s] # "scanning")

\* "A per-call timeout kills the subprocess and raises ScannerTimeout on
\* expiry": a call that has its subprocess ends, even if only well-behaved
\* scanners run.
TimeoutBoundsCall == \A c \in Calls : call[c].pc = "reading" ~> call[c].pc = "done"
==============================================================================
