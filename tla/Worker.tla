------------------------------- MODULE Worker -------------------------------
(***************************************************************************)
(* One privilege-separated call: run_worker in the parent (main thread,    *)
(* stdin writer, stderr drain, reply reader) against worker_main in the    *)
(* re-executed, self-jailing child (cli/src/main.rs, fnprint-sandbox).     *)
(*                                                                         *)
(* Bytes are counted in chunks.  A pipe holds at most PipeCap chunks; what *)
(* is in a pipe is the difference of the two ends' counters, so stdin      *)
(* holds sent - consumed, stdout wrote - got, stderr errWrote - errRead.   *)
(* The kernel's share (pipes, SIGKILL, wait, PR_SET_PDEATHSIG, seccomp) is *)
(* modelled from how the code uses it.                                     *)
(***************************************************************************)
EXTENDS Integers

CONSTANTS
    InputLen,   \* chunks of the payload handed to run_worker
    MaxInput,   \* MAX_INPUT, in chunks
    MaxReply,   \* MAX_REPLY, in chunks
    ReplyLens,  \* the lengths a serialized WorkerReply may have
    PipeCap,    \* capacity of each pipe
    MaxErr,     \* bound on the stderr chunks of one worker
    Faults,     \* which mishaps this instance lets happen
    Subreaper   \* is an orphan adopted by a subreaper rather than by pid 1?

\* "init" is no fault of anybody's: fnprint is pid 1, or in another pid namespace
FaultKinds == {"spawn", "jail", "init", "crash", "spin", "block", "mute", "garbled",
               "readerr", "readpanic", "parent"}

ASSUME LenAssumption ==
    /\ InputLen \in Nat /\ MaxInput \in Nat /\ InputLen <= MaxInput
    /\ MaxReply \in Nat \ {0}
    /\ ReplyLens \in SUBSET (Nat \ {0}) /\ 1 \in ReplyLens
    /\ PipeCap \in Nat \ {0} /\ MaxErr \in Nat
ASSUME FaultAssumption == Faults \in SUBSET FaultKinds /\ Subreaper \in BOOLEAN

VARIABLES
    main,      \* where the parent's calling thread is in run_worker
    result,    \* what run_worker returned
    writer, errdrain, reader,  \* the three helper threads
    chan,      \* the reply channel
    sent, got, errRead,        \* chunks moved by the helper threads
    proc,      \* the child as the kernel sees it
    status,    \* its exit status once it is a zombie
    wpc,       \* where the child is in worker_main
    jail,      \* the layers the child has installed
    stuck,     \* how the child stopped making progress, if it did
    consumed, replyLen, wrote, errOwed, errWrote,  \* the child's I/O
    killedAt,  \* the states of the child in which its group was signalled
    mishaps    \* the faults injected and the timers expired so far

threadVars == <<writer, errdrain, reader, chan, sent, got, errRead>>
childIO    == <<consumed, replyLen, wrote, errOwed, errWrote>>
childVars  == <<proc, status, wpc, jail, stuck, childIO>>
vars == <<main, result, threadVars, childVars, killedAt, mishaps>>

\* everything lock_down_worker and harden_worker_preinput leave in force
JailLayers == {"fds", "pdeathsig", "rlimits", "nnp", "clone3", "kill", "allow"}
\* the steps of worker_main before it touches its input
JailSteps == JailLayers \cup {"ppid", "warm", "maps"}

TypeOK ==
    /\ main \in {"spawn", "recv", "reap", "graceKill", "graceWait", "joinWriter",
                 "joinReader", "joinErr", "decide", "errWait", "errJoinWriter",
                 "errJoinReader", "killWait", "done", "dead"}
    /\ result \in {"none", "reply", "abnormal", "overcap", "undecodable",
                   "readfail", "timeout", "spawnfail"}
    /\ writer \in {"none", "run", "done"} /\ errdrain \in {"none", "run", "done"}
    /\ reader \in {"none", "read", "sent", "done"}
    /\ chan \in {"empty", "ok", "err", "gone"}
    /\ sent \in 0..InputLen /\ got \in 0..(MaxReply + 1) /\ errRead \in Nat
    /\ proc \in {"none", "run", "zombie", "reaped"}
    /\ status \in {"none", "success", "failure"}
    /\ wpc \in JailSteps \cup {"read", "op", "emit", "flush"}
    /\ jail \in SUBSET JailLayers
    /\ stuck \in {"no", "spin", "block", "mute"}
    /\ consumed \in 0..InputLen /\ replyLen \in ReplyLens \cup {0}
    /\ wrote \in Nat /\ errOwed \in 0..MaxErr /\ errWrote \in 0..MaxErr
    /\ killedAt \in SUBSET {"run", "zombie", "reaped"}
    /\ mishaps \in SUBSET (FaultKinds \cup {"deadline", "grace"})

Init ==
    /\ main = "spawn" /\ result = "none"
    /\ writer = "none" /\ errdrain = "none" /\ reader = "none" /\ chan = "empty"
    /\ sent = 0 /\ got = 0 /\ errRead = 0
    /\ proc = "none" /\ status = "none" /\ wpc = "fds" /\ jail = {} /\ stuck = "no"
    /\ consumed = 0 /\ replyLen = 0 /\ wrote = 0 /\ errOwed = 0 /\ errWrote = 0
    /\ killedAt = {} /\ mishaps = {}

Inject(f) == f \in Faults /\ mishaps' = mishaps \cup {f}
Exited == proc \in {"zombie", "reaped"}
\* the parent's end of stdout is dropped with the reader thread
StdoutOpen == reader # "done"

----------------------------------------------------------------------------
(* The child: worker_main.                                                 *)

\* on its way and not blocked writing a diagnostic
Alive == proc = "run" /\ stuck = "no" /\ errWrote = errOwed

Exit(st) ==
    /\ proc' = "zombie" /\ status' = st
    /\ UNCHANGED <<main, result, threadVars, wpc, jail, stuck, childIO, killedAt>>

\* a step of the hardening sequence that succeeds
Advance(at, layers, next) ==
    /\ wpc = at /\ wpc' = next /\ jail' = jail \cup layers
    /\ UNCHANGED <<main, result, threadVars, proc, status, stuck, childIO,
                   killedAt, mishaps>>

\* (mutant) PR_SET_PDEATHSIG without the getppid check that closes its race
harden_NoParentCheck ==
    /\ Alive
    /\ \/ Advance("fds", {"fds"}, "pdeathsig")
       \/ Advance("pdeathsig", {"pdeathsig"}, "ppid")
       \/ Advance("ppid", {}, "warm")

\* a parent with pid 1, or none in sight, is taken for an exited one: the orphan's, and
\* also the live parent that is the init of a container or outside the worker's namespace
harden_worker_preinput ==
    /\ Alive
    /\ \/ Advance("fds", {"fds"}, "pdeathsig")
       \/ Advance("pdeathsig", {"pdeathsig"}, "ppid")
       \/ (main = "dead" => Subreaper) /\ Advance("ppid", {}, "warm")
       \/ /\ wpc = "ppid" /\ Exit("failure")
          /\ IF main = "dead" THEN ~Subreaper /\ UNCHANGED mishaps ELSE Inject("init")

warm_thread_pool == Alive /\ Advance("warm", {}, "maps")

\* seccomp() needs no_new_privs, and the allow filter itself does not permit it
InstallFilter(f, next) ==
    IF "nnp" \in jail /\ "allow" \notin jail
    THEN Advance(f, {f}, next)
    ELSE wpc = f /\ Exit("failure") /\ UNCHANGED mishaps

\* (mutant) the EPERM-default allow filter goes on before the kill filter
lock_down_AllowFirst ==
    /\ Alive
    /\ \/ Advance("maps", {}, "rlimits")
       \/ Advance("rlimits", {"rlimits"}, "nnp")
       \/ Advance("nnp", {"nnp"}, "clone3")
       \/ InstallFilter("clone3", "allow")
       \/ InstallFilter("allow", "kill")
       \/ InstallFilter("kill", "read")

lock_down_worker ==
    /\ Alive
    /\ \/ "allow" \notin jail /\ Advance("maps", {}, "rlimits")
       \/ Advance("rlimits", {"rlimits"}, "nnp")
       \/ Advance("nnp", {"nnp"}, "clone3")
       \/ InstallFilter("clone3", "kill")
       \/ InstallFilter("kill", "allow")
       \/ InstallFilter("allow", "read")

\* (mutant) a failed setrlimit is ignored instead of returned
JailStepFails_Ignored ==
    Alive /\ wpc = "rlimits" /\ Inject("jail") /\ wpc' = "nnp"
    /\ UNCHANGED <<main, result, threadVars, proc, status, jail, stuck, childIO, killedAt>>

\* any hardening step may return Err: worker_main returns it unread
JailStepFails == Alive /\ wpc \in JailSteps /\ Inject("jail") /\ Exit("failure")

ReadStdin ==
    /\ Alive /\ wpc = "read"
    /\ \/ /\ consumed < sent /\ consumed <= MaxInput
          /\ consumed' = consumed + 1 /\ UNCHANGED wpc
       \/ /\ (consumed = sent /\ writer = "done") \/ consumed > MaxInput
          /\ wpc' = "op" /\ UNCHANGED consumed
    /\ UNCHANGED <<main, result, threadVars, proc, status, jail, stuck, replyLen,
                   wrote, errOwed, errWrote, killedAt, mishaps>>

\* index, dump, dbload or an error folded into the reply
RunOp ==
    /\ Alive /\ wpc = "op" /\ wpc' = "emit"
    /\ \E n \in IF consumed > MaxInput THEN {1} ELSE ReplyLens : replyLen' = n
    /\ mishaps' \in {mishaps} \cup (IF "garbled" \in Faults
                                    THEN {mishaps \cup {"garbled"}} ELSE {})
    /\ UNCHANGED <<main, result, threadVars, proc, status, jail, stuck, consumed,
                   wrote, errOwed, errWrote, killedAt>>

Put ==
    /\ wrote < replyLen /\ StdoutOpen /\ wrote - got < PipeCap
    /\ wrote' = wrote + 1
    /\ UNCHANGED <<main, result, threadVars, proc, status, wpc, jail, stuck,
                   consumed, replyLen, errOwed, errWrote, killedAt, mishaps>>

\* write_all reports a broken pipe; what follows the last newline stays in
\* stdout's buffer until exit, where a failed flush goes unreported
emit ==
    /\ Alive
    /\ \/ wpc = "emit" /\ Put
       \/ /\ wpc = "emit" /\ wrote < replyLen /\ ~StdoutOpen
          /\ Exit("failure") /\ UNCHANGED mishaps
       \/ /\ wpc = "emit" /\ wrote \in {replyLen - 1, replyLen} /\ wpc' = "flush"
          /\ UNCHANGED <<main, result, threadVars, proc, status, jail, stuck,
                         childIO, killedAt, mishaps>>
       \/ wpc = "flush" /\ Put
       \/ /\ wpc = "flush" /\ (wrote = replyLen \/ ~StdoutOpen)
          /\ Exit("success") /\ UNCHANGED mishaps

\* diagnostics: owed first, then written as the drain makes room
WorkerStderr ==
    /\ proc = "run" /\ stuck = "no"
    /\ \/ /\ errWrote = errOwed /\ errOwed < MaxErr
          /\ errOwed' = errOwed + 1 /\ UNCHANGED errWrote
       \/ /\ errWrote < errOwed
          /\ errWrote - errRead < PipeCap \/ errdrain = "done"  \* room, or EPIPE
          /\ errWrote' = errWrote + 1 /\ UNCHANGED errOwed
    /\ UNCHANGED <<main, result, threadVars, proc, status, wpc, jail, stuck,
                   consumed, replyLen, wrote, killedAt, mishaps>>

\* a signal, a seccomp kill or a panic=abort
Crash == proc = "run" /\ Inject("crash") /\ Exit("failure")

\* burning CPU in the op, blocked in a syscall, or blocked after closing its stdout
GetStuck ==
    /\ Alive
    /\ \E k \in {"block", "mute"} \cup (IF wpc = "op" THEN {"spin"} ELSE {}) :
           Inject(k) /\ stuck' = k
    /\ UNCHANGED <<main, result, threadVars, proc, status, wpc, jail, childIO, killedAt>>

\* RLIMIT_CPU ends a worker that burns CPU, once set_rlimits ran
CpuLimit ==
    /\ proc = "run" /\ stuck = "spin" /\ "rlimits" \in jail
    /\ Exit("failure") /\ UNCHANGED mishaps

----------------------------------------------------------------------------
(* The parent's helper threads.                                            *)

Writer ==
    /\ writer = "run"
    /\ \/ /\ proc = "run" /\ sent < InputLen /\ sent - consumed < PipeCap
          /\ sent' = sent + 1 /\ UNCHANGED writer
       \/ /\ sent = InputLen \/ Exited   \* all written, or EPIPE ignored
          /\ writer' = "done" /\ UNCHANGED sent
    /\ UNCHANGED <<main, result, errdrain, reader, chan, got, errRead, childVars,
                   killedAt, mishaps>>

\* keeps 8 KiB and discards the rest, until the child's end is closed
ErrDrain ==
    /\ errdrain = "run"
    /\ \/ errRead < errWrote /\ errRead' = errRead + 1 /\ UNCHANGED errdrain
       \/ /\ errRead = errWrote /\ Exited
          /\ errdrain' = "done" /\ UNCHANGED errRead
    /\ UNCHANGED <<main, result, writer, reader, chan, sent, got, childVars,
                   killedAt, mishaps>>

\* (mutant) read_to_end without the take(MAX_REPLY + 1)
Reader_Uncapped ==
    /\ reader = "read" /\ got < wrote /\ got' = got + 1
    /\ UNCHANGED <<main, result, writer, errdrain, reader, chan, sent, errRead,
                   childVars, killedAt, mishaps>>

\* (mutant) the reply is read only once the child has exited
Reader_AfterExit ==
    /\ Exited
    /\ \/ /\ reader = "read" /\ got < wrote /\ got <= MaxReply
          /\ got' = got + 1 /\ UNCHANGED <<reader, chan>>
       \/ /\ reader = "read" /\ (got = wrote \/ got > MaxReply)
          /\ chan' = "ok" /\ reader' = "done" /\ UNCHANGED got
    /\ UNCHANGED <<main, result, writer, errdrain, sent, errRead, childVars,
                   killedAt, mishaps>>

\* take(MAX_REPLY + 1).read_to_end, send, drop stdout
Reader ==
    /\ \/ /\ reader = "read" /\ got < wrote /\ got <= MaxReply
          /\ got' = got + 1 /\ UNCHANGED <<reader, chan>>
       \/ /\ reader = "read"
          /\ (got = wrote /\ (Exited \/ stuck = "mute")) \/ got > MaxReply
          /\ chan' = "ok" /\ reader' = "sent" /\ UNCHANGED got
       \/ reader = "sent" /\ reader' = "done" /\ UNCHANGED <<chan, got>>
    /\ UNCHANGED <<main, result, writer, errdrain, sent, errRead, childVars,
                   killedAt, mishaps>>

\* the read fails (sent as Err), or the thread panics without sending
ReaderFails ==
    /\ reader = "read"
    /\ \/ Inject("readerr") /\ chan' = "err" /\ reader' = "sent"
       \/ Inject("readpanic") /\ chan' = "gone" /\ reader' = "done"
    /\ UNCHANGED <<main, result, writer, errdrain, sent, got, errRead, childVars, killedAt>>

----------------------------------------------------------------------------
(* The parent's calling thread: run_worker.                                *)

Goto(from, to) == main = from /\ main' = to

Spawn ==
    /\ Goto("spawn", "recv")
    /\ proc' = "run" /\ writer' = "run" /\ errdrain' = "run" /\ reader' = "read"
    /\ UNCHANGED <<result, chan, sent, got, errRead, status, wpc, jail, stuck,
                   childIO, killedAt, mishaps>>

SpawnFails ==
    /\ Goto("spawn", "done") /\ Inject("spawn") /\ result' = "spawnfail"
    /\ UNCHANGED <<threadVars, childVars, killedAt>>

\* recv_timeout returned before the deadline
Recv ==
    /\ \/ chan = "ok" /\ Goto("recv", "reap")
       \/ chan \in {"err", "gone"} /\ Goto("recv", "errWait")
    /\ UNCHANGED <<result, threadVars, childVars, killedAt, mishaps>>

\* SIGKILL to the process group: harmless to a zombie, misdirected once reaped
KillGroup ==
    /\ killedAt' = killedAt \cup {proc}
    /\ proc' = IF proc = "run" THEN "zombie" ELSE proc
    /\ status' = IF proc = "run" THEN "failure" ELSE status
    /\ UNCHANGED <<result, threadVars, wpc, jail, stuck, childIO>>

\* recv_timeout ran into worker_deadline
Deadline ==
    /\ chan = "empty" /\ Goto("recv", "killWait") /\ KillGroup
    /\ mishaps' = mishaps \cup {"deadline"}

\* wait() and try_wait() collect the zombie
Reap(from, to) ==
    /\ Goto(from, to) /\ proc = "zombie" /\ proc' = "reaped"
    /\ UNCHANGED <<threadVars, status, wpc, jail, stuck, childIO, killedAt, mishaps>>

\* (mutant) the deadline arm bails out without the wait()
KillWait_NoReap ==
    /\ Goto("killWait", "done") /\ result' = "timeout"
    /\ UNCHANGED <<threadVars, childVars, killedAt, mishaps>>

KillWait == Reap("killWait", "done") /\ result' = "timeout"

\* only the read-error arm joins its helper threads; a vanished reader bails
ErrWait ==
    \/ chan = "err" /\ Reap("errWait", "errJoinWriter") /\ UNCHANGED result
    \/ chan = "gone" /\ Reap("errWait", "done") /\ result' = "readfail"

\* (mutant) the group is killed after try_wait has already collected the child
ReapBounded_KillLate ==
    \/ Reap("reap", "graceKill") /\ UNCHANGED result
    \/ /\ Goto("graceKill", "joinWriter") /\ KillGroup /\ UNCHANGED mishaps

ReapBounded ==
    \/ Reap("reap", "joinWriter") /\ UNCHANGED result
    \/ Reap("graceWait", "joinWriter") /\ UNCHANGED result
    \/ /\ Goto("graceKill", "graceWait") /\ KillGroup /\ UNCHANGED mishaps

\* (mutant) a plain wait() with no grace period
GraceExpires_Never == FALSE /\ UNCHANGED vars

\* try_wait saw it running and POST_REPLY_GRACE is over
GraceExpires ==
    /\ Goto("reap", "graceKill") /\ proc = "run"
    /\ mishaps' = mishaps \cup {"grace"}
    /\ UNCHANGED <<result, threadVars, childVars, killedAt>>

Join ==
    /\ \/ /\ writer = "done"
          /\ \/ Goto("joinWriter", "joinReader") \/ Goto("errJoinWriter", "errJoinReader")
          /\ UNCHANGED result
       \/ reader = "done" /\ Goto("joinReader", "joinErr") /\ UNCHANGED result
       \/ reader = "done" /\ Goto("errJoinReader", "done") /\ result' = "readfail"
       \/ errdrain = "done" /\ Goto("joinErr", "decide") /\ UNCHANGED result
    /\ UNCHANGED <<threadVars, childVars, killedAt, mishaps>>

\* postcard may or may not reject a reply that is not what the worker serialized
Decodings == IF got = replyLen /\ "garbled" \notin mishaps
             THEN {"reply"} ELSE {"reply", "undecodable"}

\* (mutant) the exit status is not looked at
Decide_NoStatus ==
    /\ Goto("decide", "done")
    /\ result' \in IF got > MaxReply THEN {"overcap"} ELSE Decodings
    /\ UNCHANGED <<threadVars, childVars, killedAt, mishaps>>

Decide ==
    /\ Goto("decide", "done")
    /\ result' \in IF status # "success" THEN {"abnormal"}
                   ELSE IF got > MaxReply THEN {"overcap"}
                   ELSE Decodings
    /\ UNCHANGED <<threadVars, childVars, killedAt, mishaps>>

\* the parent process is killed: its pipe ends close, and the kernel signals
\* a child that has armed PR_SET_PDEATHSIG
ParentDies ==
    /\ main \notin {"spawn", "done", "dead"} /\ Inject("parent")
    /\ main' = "dead" /\ writer' = "done" /\ errdrain' = "done" /\ reader' = "done"
    /\ LET kill == proc = "run" /\ "pdeathsig" \in jail
       IN  /\ proc' = IF kill THEN "zombie" ELSE proc
           /\ status' = IF kill THEN "failure" ELSE status
    /\ UNCHANGED <<result, chan, sent, got, errRead, wpc, jail, stuck, childIO, killedAt>>

----------------------------------------------------------------------------
ChildStep == harden_worker_preinput \/ warm_thread_pool \/ lock_down_worker
             \/ ReadStdin \/ RunOp \/ emit \/ WorkerStderr
ChildFault == JailStepFails \/ Crash \/ GetStuck
MainStep == Spawn \/ Recv \/ KillWait \/ ErrWait \/ ReapBounded \/ Join \/ Decide
Finished == main \in {"done", "dead"} /\ UNCHANGED vars

Next == ChildStep \/ ChildFault \/ CpuLimit \/ Writer \/ ErrDrain \/ Reader
        \/ ReaderFails \/ MainStep \/ SpawnFails \/ Deadline \/ GraceExpires
        \/ ParentDies \/ Finished

Spec == Init /\ [][Next]_vars

(* Threads and the child are scheduled; wall-clock timers expire; the       *)
(* kernel enforces RLIMIT_CPU.  Patient leaves the two timers unexpired     *)
(* for ever, so that only the exchange itself can end the call.             *)
Scheduling == /\ WF_vars(ChildStep) /\ WF_vars(Writer) /\ WF_vars(ErrDrain)
              /\ WF_vars(Reader) /\ WF_vars(MainStep) /\ WF_vars(CpuLimit)
PatientSpec == Spec /\ Scheduling
Timers == WF_vars(Deadline) /\ WF_vars(GraceExpires)
FairSpec == PatientSpec /\ Timers
----------------------------------------------------------------------------
(* Safety.                                                                 *)

\* Not one byte of the untrusted input is read before every layer of the jail
\* is in force, whichever hardening step fails (worker_main's fail-closed order).
JailBeforeInput == consumed > 0 => jail = JailLayers

\* A reply run_worker accepts is everything the worker serialized, within
\* MAX_REPLY, from a worker that read the whole payload and exited cleanly: a
\* crash mid-write, a cut-off at the cap or a lost exit-time flush never passes.
AcceptedReplyIsWhole ==
    result = "reply" => /\ status = "success" /\ consumed = InputLen
                        /\ got = replyLen /\ got <= MaxReply

\* run_worker never returns with its child running or unreaped, on any arm.
NoChildLeftBehind ==
    main = "done" => proc = IF result = "spawnfail" THEN "none" ELSE "reaped"

\* The process group is only ever signalled while the child's pid is still
\* its own (kill-before-reap), whatever the race between exit and timers.
SignalsOwnChild == "reaped" \notin killedAt

\* Without a fault or an expired timer, and under a parent that the worker does not take
\* for init, the call fails only for an oversized reply: the exchange itself (install
\* order, closing pipes) invents no error.
NoSpuriousFailure ==
    result \notin {"none", "reply"} =>
        mishaps # {} \/ replyLen > MaxReply

\* A worker whose parent died never reaches its input (pdeathsig armed first,
\* getppid checked after): no untrusted work without a supervisor.
NoUnsupervisedWork == main = "dead" /\ proc = "run" => wpc \in JailSteps

(* Liveness.                                                               *)

\* run_worker returns: a hung, spinning or mute worker is cut off by the deadline,
\* the grace period or RLIMIT_CPU.  The one exception: the arms for a failed read
\* wait for the child without a bound, and hang on a worker that is itself blocked.
HangsOnlyOnErrorArms ==
    Timers => <>(main \in {"done", "dead"}
                 \/ (main = "errWait" /\ stuck \in {"block", "mute"}))

\* Left alone, an honest exchange finishes by itself, with no timer: payload,
\* reply and diagnostics larger than their pipes never deadlock the two sides.
HonestCallCompletes == [](mishaps = {}) => <>(main = "done")

----------------------------------------------------------------------------
(* The inductive invariant behind the safety properties (WorkerProofs).    *)

\* what is installed when worker_main is about to take a step
Installed == [fds       |-> {},
              pdeathsig |-> {"fds"},
              ppid      |-> {"fds", "pdeathsig"},
              warm      |-> {"fds", "pdeathsig"},
              maps      |-> {"fds", "pdeathsig"},
              rlimits   |-> {"fds", "pdeathsig"},
              nnp       |-> {"fds", "pdeathsig", "rlimits"},
              clone3    |-> {"fds", "pdeathsig", "rlimits", "nnp"},
              kill      |-> {"fds", "pdeathsig", "rlimits", "nnp", "clone3"},
              allow     |-> {"fds", "pdeathsig", "rlimits", "nnp", "clone3", "kill"},
              read      |-> JailLayers,
              op        |-> JailLayers,
              emit      |-> JailLayers,
              flush     |-> JailLayers]
JailInv == /\ jail = Installed[wpc]
           /\ wpc \in JailSteps => consumed = 0
           /\ wpc \in JailSteps \cup {"read", "op"} => wrote = 0 /\ replyLen = 0
           /\ wpc \in {"emit", "flush"} => replyLen > 0

\* the child's kernel state at each point of run_worker
ProcInv ==
    /\ main = "spawn" => proc = "none" /\ result = "none"
    /\ main \in {"recv", "reap", "graceKill", "graceWait", "errWait", "killWait"}
          => proc \in {"run", "zombie"} /\ result = "none"
    /\ main \in {"joinWriter", "joinReader", "joinErr", "decide", "errJoinWriter",
                 "errJoinReader"} => proc = "reaped" /\ result = "none"
    /\ main = "done" => proc = IF result = "spawnfail" THEN "none" ELSE "reaped"
    /\ main = "dead" => proc # "none" /\ result = "none"
    /\ proc = "none" => /\ writer = "none" /\ reader = "none" /\ errdrain = "none"
                       /\ chan = "empty" /\ wpc = "fds"
    /\ proc \in {"none", "run"} <=> status = "none"
    /\ SignalsOwnChild

\* how far each side of a pipe can be ahead of the other, and what an end means
PipeInv ==
    /\ consumed <= sent /\ got <= wrote /\ wrote <= replyLen
    /\ writer = "done" /\ main # "dead" => sent = InputLen \/ Exited
    /\ wpc \in {"op", "emit", "flush"} /\ main # "dead" => consumed = InputLen
    /\ chan = "ok" => got > MaxReply \/ (got = wrote /\ (Exited \/ stuck = "mute"))
    /\ reader = "read" => chan = "empty"
    /\ reader = "sent" => chan # "empty"
    /\ reader = "done" => main = "dead" \/ chan # "empty"
    /\ main \in {"reap", "graceKill", "graceWait", "joinWriter", "joinReader",
                 "joinErr", "decide"} => chan = "ok"
    /\ main \in {"errWait", "errJoinWriter", "errJoinReader"} => chan \in {"err", "gone"}
    /\ status = "success" =>
          /\ wpc = "flush" /\ stuck = "no"
          /\ wrote = replyLen \/ got > MaxReply \/ chan \in {"err", "gone"} \/ main = "dead"

\* what a clean record says about the run so far
BlameInv ==
    mishaps = {} =>
       /\ chan \in {"empty", "ok"} /\ stuck = "no"
       /\ main \notin {"dead", "killWait", "graceKill", "graceWait", "errWait"}
       /\ status = "failure" => replyLen > MaxReply

\* without a subreaper, an orphan is still on its way to the getppid check
OrphanInv == main = "dead" /\ proc = "run" /\ ~Subreaper
                => wpc \in {"fds", "pdeathsig", "ppid"}

IInv == TypeOK /\ JailInv /\ ProcInv /\ PipeInv /\ BlameInv /\ OrphanInv
        /\ AcceptedReplyIsWhole /\ NoSpuriousFailure

----------------------------------------------------------------------------
(* Refinement: the whole exchange is one call of WorkerCall.               *)

CallState == IF main = "spawn" THEN "idle"
             ELSE IF main = "dead" THEN "dead"
             ELSE IF main # "done" THEN "busy"
             ELSE IF result = "reply" THEN "ok" ELSE "error"
ChildState == IF main = "dead" THEN "orphan"
              ELSE IF proc = "none" THEN "none"
              ELSE IF proc = "reaped" THEN "gone" ELSE "live"
ReplyState == IF result # "reply" THEN "none"
              ELSE IF consumed = InputLen /\ got = replyLen THEN "whole" ELSE "torn"

Call == INSTANCE WorkerCall WITH
    call <- CallState, child <- ChildState, reply <- ReplyState

\* run_worker implements what its callers rely on: the child is gone before the
\* call returns, and an accepted reply is whole.
ImplementsCall == Call!Spec
=============================================================================
