------------------------------ MODULE Reports ------------------------------
(***************************************************************************)
(* The build with the report threads (TIMERTTT), from start-up to quit:    *)
(* main, th_RDWR, th_run2, th_run3 and th_run_timer, the handler of        *)
(* SIGVTALRM that may interrupt any of them, and the logger they share,    *)
(* whose mutex is not recursive.                                           *)
(*                                                                         *)
(* A context is a thread's own code or the handler that interrupts it.     *)
(* left[c] is what a context still has to do before its thread looks at    *)
(* its loop again: write lines to the log (the level of the most important *)
(* of the lines that follow each other stands for them), write a report to *)
(* g_fd, arm the timer, or wait for ever for a lock of libc.  Only         *)
(* SIGVTALRM is ever armed, by a scan command with StartType 1; the arming *)
(* of the other two timers is commented out.  A sleep is not timed: a      *)
(* signal only ends one early.  th_Listen writes no log and no report, but *)
(* a signal can interrupt it; see Gateway for the rest of it.              *)
(***************************************************************************)
EXTENDS Sequences, FiniteSets, Integers

CONSTANTS
  Grades,       \* the log_grade that config.ini may hold
  Targets,      \* the threads that the kernel may pick for the signal
  MaxHandlers   \* how many threads run the handler at once

ASSUME GradesAssumption == Grades \subseteq Nat
ASSUME MaxHandlersAssumption == MaxHandlers \in Nat

VARIABLES
  alive,                     \* the process runs
  grade, inited,             \* g_logger_cfg.filter_levle, .inited
  locked,                    \* g_logger_cfg.mtx
  writing,                   \* the contexts between _slog_lock and _slog_unlock
  left,
  place,                     \* where each thread is
  armed, installed,          \* the virtual timer, the handler of its signal
  g_isExit,
  g_fd,                      \* what g_fd is a descriptor of
  late,                      \* history: reports written after g_fd was closed
  lateScan                   \* history: a scan command armed the timer after "q"

logVars   == <<locked, writing>>
timerVars == <<armed, installed, lateScan>>
vars == <<alive, grade, inited, logVars, left, place, timerVars, g_isExit, g_fd, late>>

Reporters == {"th_run2", "th_run3"}
Threads   == {"main", "th_Listen", "th_RDWR", "th_run_timer"} \union Reporters

ASSUME TargetsAssumption == Targets \subseteq Threads

Contexts  == Threads \X {"own", "handler"}

Own(t)     == <<t, "own">>
Handler(t) == <<t, "handler">>

Level == [DEBUG |-> 2, INFO |-> 3, ERROR |-> 5]
Operations == DOMAIN Level \union {"write", "arm", "libc"}

\* What is left of a report, of an answer, or of a start that fails.
Locate  == <<"INFO", "write", "DEBUG">>
Status  == <<"DEBUG", "write", "DEBUG">>
Signal  == <<"INFO", "write", "INFO">>
Scan    == <<"INFO", "arm", "INFO", "write", "DEBUG">>
Failure == <<"ERROR">>
Report == [th_run2 |-> Locate, th_run3 |-> Status]

Places ==
  {"unborn", "run", "check", "ended"}
    \union {"config", "init_logger", "th_Listen", "th_RDWR", "th_run_timer",
            "th_run2", "th_run3", "return", "scan", "pthread_join"}  \* main
    \union {"open", "read"}                                        \* th_RDWR
    \union {"signal", "set_timer", "shut_timer"}              \* th_run_timer

TypeOK ==
  /\ alive \in BOOLEAN /\ inited \in BOOLEAN /\ locked \in BOOLEAN
  /\ armed \in BOOLEAN /\ installed \in BOOLEAN
  /\ g_isExit \in BOOLEAN /\ lateScan \in BOOLEAN
  /\ grade \in Nat
  /\ writing \subseteq Contexts
  /\ left \in [Contexts -> Seq(Operations)]
  /\ place \in [Threads -> Places]
  /\ g_fd \in {"terminal", "tty", "bad", "closed"}
  /\ late \in [Reporters -> Nat]

Init ==
  /\ alive = TRUE
  /\ grade = 0 /\ inited = FALSE
  /\ locked = FALSE /\ writing = {}
  /\ left = [c \in Contexts |-> <<>>]
  /\ place = [t \in Threads |-> IF t = "main" THEN "config" ELSE "unborn"]
  /\ armed = FALSE /\ installed = FALSE
  /\ g_isExit = FALSE
  /\ g_fd = "terminal"                 \* the global starts as 0
  /\ late = [t \in Reporters |-> 0]
  /\ lateScan = FALSE

Busy(t) == left[Handler(t)] # <<>>
Born(t) == place[t] \notin {"unborn", "ended"}

\* A thread's own code goes on when no handler interrupts it and the calls it
\* made have returned.
Runs(t) == alive /\ ~Busy(t) /\ left[Own(t)] = <<>>

At(t, p) == Runs(t) /\ place[t] = p
Go(t, p) == place' = [place EXCEPT ![t] = p]

\* write_log returns at once for a level below the filter.
Filtered(ops) ==
  /\ ops # <<>> /\ Head(ops) \in DOMAIN Level
  /\ grade > Level[Head(ops)]
Past(ops) == IF Filtered(ops) THEN Tail(ops) ELSE ops

Do(c, ops) == left' = [left EXCEPT ![c] = Past(Past(ops))]

-----------------------------------------------------------------------------
(* The calls a context makes. *)

\* The next call of a context that is not interrupted.
Calls(c, op) ==
  /\ alive
  /\ left[c] # <<>> /\ Head(left[c]) = op
  /\ c[2] = "own" => ~Busy(c[1])

Done(c) == Do(c, Tail(left[c]))

\* Slip: the lock is not waited for.
LockTry(c) ==
  /\ \E level \in DOMAIN Level : Calls(c, level)
  /\ c \notin writing
  /\ locked' = TRUE /\ writing' = writing \union {c}
  /\ UNCHANGED <<alive, grade, inited, left, place, timerVars, g_isExit, g_fd, late>>

\* _slog_lock waits until nobody has the mutex, not even the same thread.
Lock(c) ==
  /\ \E level \in DOMAIN Level : Calls(c, level)
  /\ ~locked
  /\ locked' = TRUE /\ writing' = writing \union {c}
  /\ UNCHANGED <<alive, grade, inited, left, place, timerVars, g_isExit, g_fd, late>>

\* Slip: the mutex is not given back after an error.
UnlockNoError(c) ==
  /\ c \in writing /\ \E level \in DOMAIN Level : Calls(c, level)
  /\ locked' = (Head(left[c]) = "ERROR") /\ writing' = writing \ {c}
  /\ Done(c)
  /\ UNCHANGED <<alive, grade, inited, place, timerVars, g_isExit, g_fd, late>>

\* The line, its stack trace, fflush, _slog_unlock.
Unlock(c) ==
  /\ c \in writing /\ \E level \in DOMAIN Level : Calls(c, level)
  /\ locked' = FALSE /\ writing' = writing \ {c}
  /\ Done(c)
  /\ UNCHANGED <<alive, grade, inited, place, timerVars, g_isExit, g_fd, late>>

Counted(c) ==
  IF c[2] = "own" /\ c[1] \in Reporters /\ g_fd = "closed"
  THEN late' = [late EXCEPT ![c[1]] = @ + 1]
  ELSE UNCHANGED late

\* writeLenData on whatever g_fd is by now; th_Listen may have opened another
\* file under the number of a closed one.
Write(c) ==
  /\ Calls(c, "write")
  /\ g_fd # "bad"
  /\ Done(c)
  /\ Counted(c)
  /\ UNCHANGED <<alive, grade, inited, logVars, place, timerVars, g_isExit, g_fd>>

\* A write that fails is logged; the line at its end is not reached.
WriteFails(c) ==
  /\ Calls(c, "write")
  /\ g_fd # "terminal"
  /\ Do(c, IF c[2] = "handler" THEN <<"ERROR", "INFO">> ELSE Failure)
  /\ Counted(c)
  /\ UNCHANGED <<alive, grade, inited, logVars, place, timerVars, g_isExit, g_fd>>

\* set_timer(ITIMER_VIRTUAL, itv1, sec1) of a scan command.
Arm(c) ==
  /\ Calls(c, "arm")
  /\ armed' = TRUE /\ lateScan' = (lateScan \/ g_isExit)
  /\ Done(c)
  /\ UNCHANGED <<alive, grade, inited, logVars, place, installed, g_isExit, g_fd, late>>

Call(c) == Lock(c) \/ Unlock(c) \/ Write(c) \/ WriteFails(c) \/ Arm(c)

\* The calls that return whatever the phone does: g_fd blocks, so a write to
\* a phone that stays and does not read may last for ever.
Returns(c) == Lock(c) \/ Unlock(c) \/ Arm(c)

-----------------------------------------------------------------------------
(* The signal. *)

\* The timer expires and some thread that is not in the handler takes the
\* signal; it stays armed, since the interval is set too.
Expire(t) ==
  /\ alive /\ armed /\ installed
  /\ t \in Targets /\ Born(t) /\ ~Busy(t)
  /\ Cardinality({u \in Threads : Busy(u)}) < MaxHandlers
  /\ Do(Handler(t), Signal)
  /\ UNCHANGED <<alive, grade, inited, logVars, place, timerVars, g_isExit, g_fd, late>>

\* The thread was interrupted inside malloc or localtime, which the handler
\* calls too (for its buffers and JSON, and for every line, before the mutex
\* is asked for): their locks are not recursive, and the handler waits for
\* ever.  Any code is taken to be inside one of them at any moment.
Block(t) ==
  /\ alive /\ Busy(t) /\ Head(left[Handler(t)]) # "libc"
  /\ Do(Handler(t), <<"libc">>)
  /\ UNCHANGED <<alive, grade, inited, logVars, place, timerVars, g_isExit, g_fd, late>>

\* Before th_run_timer has installed the handler the signal ends the process.
Killed ==
  /\ alive /\ armed /\ ~installed
  /\ alive' = FALSE
  /\ UNCHANGED <<grade, inited, logVars, left, place, timerVars, g_isExit, g_fd, late>>

-----------------------------------------------------------------------------
(* main. *)

\* config.ini is read twice, for the path of the log and for its grade.
Configure ==
  /\ At("main", "config")
  /\ \E g \in Grades : grade' = g
  /\ Go("main", "init_logger")
  /\ UNCHANGED <<alive, inited, logVars, left, timerVars, g_isExit, g_fd, late>>

\* The file is missing (main returns), or one of its keys is (getJsStr and
\* getJsInt read through the item they did not get).
ConfigureFails ==
  /\ At("main", "config")
  /\ alive' = FALSE
  /\ UNCHANGED <<grade, inited, logVars, left, place, timerVars, g_isExit, g_fd, late>>

InitLogger ==
  /\ At("main", "init_logger")
  /\ inited' = TRUE
  /\ Do(Own("main"), <<"INFO">>)
  /\ Go("main", "th_Listen")
  /\ UNCHANGED <<alive, grade, logVars, timerVars, g_isExit, g_fd, late>>

\* Slip: only a file that cannot be opened is taken for a failure.
InitLoggerGoesOn ==
  /\ At("main", "init_logger")
  /\ Do(Own("main"), <<"INFO">>)
  /\ Go("main", "th_Listen")
  /\ UNCHANGED <<alive, grade, inited, logVars, timerVars, g_isExit, g_fd, late>>

\* No directory and none can be made, or no file in it: main returns -2.
InitLoggerFails ==
  /\ At("main", "init_logger")
  /\ alive' = FALSE
  /\ UNCHANGED <<grade, inited, logVars, left, place, timerVars, g_isExit, g_fd, late>>

\* Where each thread starts, and which one main creates after it.
Start == [th_Listen |-> "run", th_RDWR |-> "open", th_run_timer |-> "signal",
          th_run2 |-> "run", th_run3 |-> "run"]

\* Slip: the first report thread, which is commented out, is created too.
ThenFirst == [th_Listen |-> "th_RDWR", th_RDWR |-> "th_run_timer",
              th_run_timer |-> "th_run1", th_run2 |-> "th_run3", th_run3 |-> "scan"]

Then == [th_Listen |-> "th_RDWR", th_RDWR |-> "th_run_timer",
         th_run_timer |-> "th_run2", th_run2 |-> "th_run3", th_run3 |-> "scan"]

Create(t) ==
  /\ At("main", t)
  /\ place' = [place EXCEPT !["main"] = Then[t], ![t] = Start[t]]
  /\ UNCHANGED <<alive, grade, inited, logVars, left, timerVars, g_isExit, g_fd, late>>

\* The result of pthread_create is not looked at for th_run2 and th_run3.
CreateFails(t) ==
  /\ At("main", t)
  /\ IF t \in Reporters
     THEN Go("main", Then[t]) /\ UNCHANGED left
     ELSE Go("main", "return") /\ Do(Own("main"), Failure)
  /\ UNCHANGED <<alive, grade, inited, logVars, timerVars, g_isExit, g_fd, late>>

\* A return from main ends the threads that run by then.
Return ==
  /\ At("main", "return")
  /\ alive' = FALSE
  /\ UNCHANGED <<grade, inited, logVars, left, place, timerVars, g_isExit, g_fd, late>>

\* "q".  The join of th_Listen, which has no end, comes first.
Quit ==
  /\ At("main", "scan")
  /\ g_isExit' = TRUE
  /\ Go("main", "pthread_join")
  /\ UNCHANGED <<alive, grade, inited, logVars, left, timerVars, g_fd, late>>

main ==
  \/ Configure \/ ConfigureFails \/ InitLogger \/ InitLoggerFails \/ Return \/ Quit
  \/ \E t \in DOMAIN Then : Create(t) \/ CreateFails(t)

-----------------------------------------------------------------------------
(* th_RDWR, seen from outside a session (see Gateway and Session). *)

Open ==
  /\ At("th_RDWR", "open")
  /\ g_fd' = "tty"
  /\ Do(Own("th_RDWR"), <<"INFO">>)
  /\ Go("th_RDWR", "read")
  /\ UNCHANGED <<alive, grade, inited, logVars, timerVars, g_isExit, late>>

OpenFails ==
  /\ At("th_RDWR", "open")
  /\ g_fd' = "bad"
  /\ Do(Own("th_RDWR"), Failure)
  /\ Go("th_RDWR", "ended")
  /\ UNCHANGED <<alive, grade, inited, logVars, timerVars, g_isExit, late>>

\* No node was found, and g_isExit ends the search.
NeverOpened ==
  /\ At("th_RDWR", "open") /\ g_isExit
  /\ Go("th_RDWR", "ended")
  /\ UNCHANGED <<alive, grade, inited, logVars, left, timerVars, g_isExit, g_fd, late>>

\* One turn: a command that starts a periodic scan, or any other one.
Turn ==
  /\ At("th_RDWR", "read")
  /\ \/ Do(Own("th_RDWR"), Scan) \/ Do(Own("th_RDWR"), Locate)
  /\ Go("th_RDWR", "check")
  /\ UNCHANGED <<alive, grade, inited, logVars, timerVars, g_isExit, g_fd, late>>

\* At the end of a turn g_isExit is looked at.  g_fd keeps its value when
\* sniffer_Close has closed it.
EndTurn ==
  /\ At("th_RDWR", "check")
  /\ IF g_isExit
     THEN Go("th_RDWR", "ended") /\ g_fd' = "closed"
     ELSE Go("th_RDWR", "read") /\ UNCHANGED g_fd
  /\ UNCHANGED <<alive, grade, inited, logVars, left, timerVars, g_isExit, late>>

th_RDWR == Open \/ OpenFails \/ NeverOpened \/ Turn \/ EndTurn

-----------------------------------------------------------------------------
(* th_run2, th_run3 and th_run_timer. *)

\* The sleep ends: one report, whatever g_isExit and g_fd are by then.
Wake(t) ==
  /\ t \in Reporters /\ At(t, "run")
  /\ Do(Own(t), Report[t])
  /\ Go(t, "check")
  /\ UNCHANGED <<alive, grade, inited, logVars, timerVars, g_isExit, g_fd, late>>

\* Slip: a report thread leaves when no session was ever opened.
EndReportNoSession(t) ==
  /\ t \in Reporters /\ At(t, "check")
  /\ Go(t, IF g_isExit /\ g_fd = "terminal" THEN "ended" ELSE "run")
  /\ UNCHANGED <<alive, grade, inited, logVars, left, timerVars, g_isExit, g_fd, late>>

EndReport(t) ==
  /\ t \in Reporters /\ At(t, "check")
  /\ Go(t, IF g_isExit THEN "ended" ELSE "run")
  /\ UNCHANGED <<alive, grade, inited, logVars, left, timerVars, g_isExit, g_fd, late>>

InstallHandler ==
  /\ At("th_run_timer", "signal")
  /\ installed' = TRUE
  /\ Go("th_run_timer", "set_timer")
  /\ UNCHANGED <<alive, grade, inited, logVars, left, armed, lateScan, g_isExit, g_fd, late>>

\* set_timer with 0 seconds disarms what a scan command may have armed.
ClearTimer ==
  /\ At("th_run_timer", "set_timer")
  /\ armed' = FALSE
  /\ Go("th_run_timer", "run")
  /\ UNCHANGED <<alive, grade, inited, logVars, left, installed, lateScan, g_isExit, g_fd, late>>

\* Slip: the thread shuts the two timers that nothing arms.
ShutOthers ==
  /\ At("th_run_timer", "run") /\ g_isExit
  /\ Go("th_run_timer", "shut_timer")
  /\ UNCHANGED <<alive, grade, inited, logVars, left, timerVars, g_isExit, g_fd, late>>

ShutTimer ==
  /\ At("th_run_timer", "run") /\ g_isExit
  /\ armed' = FALSE
  /\ Go("th_run_timer", "shut_timer")
  /\ UNCHANGED <<alive, grade, inited, logVars, left, installed, lateScan, g_isExit, g_fd, late>>

TimerEnds ==
  /\ At("th_run_timer", "shut_timer")
  /\ Go("th_run_timer", "ended")
  /\ UNCHANGED <<alive, grade, inited, logVars, left, timerVars, g_isExit, g_fd, late>>

Reporting(t) == Wake(t) \/ EndReport(t)
th_run_timer == InstallHandler \/ ClearTimer \/ ShutTimer \/ TimerEnds

-----------------------------------------------------------------------------

Next ==
  \/ \E c \in Contexts : Call(c)
  \/ \E t \in Threads : Expire(t) \/ Block(t)
  \/ Killed
  \/ main
  \/ th_RDWR
  \/ \E t \in Reporters : Reporting(t)
  \/ th_run_timer

Spec == Init /\ [][Next]_vars

\* A thread gets on between two signals, which are three seconds of processor
\* time apart, and gets the mutex between two lines of the others, which sleep
\* or wait for the phone; so fairness is strong.  Nobody has to type "q", and
\* no phone has to call, to write or to read.
FairSpec ==
  /\ Spec
  /\ \A t \in Reporters : SF_vars(Returns(Own(t)) \/ Reporting(t))
  /\ SF_vars(Returns(Own("main")) \/ Returns(Own("th_RDWR")))
  /\ SF_vars(\E t \in Threads : Returns(Handler(t)))
  /\ SF_vars(th_run_timer)

-----------------------------------------------------------------------------
(* Properties. *)

\* A handler waits for the mutex of the log, or for a lock of libc, that the
\* code it interrupted holds: neither of the two goes on.
Trapped ==
  \E t \in Threads :
    /\ Busy(t)
    /\ \/ Head(left[Handler(t)]) = "libc"
       \/ Own(t) \in writing /\ Head(left[Handler(t)]) \in DOMAIN Level

\* No write to g_fd lasts for ever: the phone reads on, or hangs up.
WritesReturn ==
  \A c \in Contexts : []<>(left[c] = <<>> \/ Head(left[c]) # "write")

\* No line of the log is written inside another one and its stack trace, by
\* another thread or by the handler.
LogLinesWhole == \A c, d \in writing : c = d

\* No line is written to a log that was never opened: a start-up that fails
\* has no thread that outlives it.
LogReady == writing # {} => inited

\* A report thread that slept through the end of the session writes at most
\* one more report to the descriptor that was closed.
OneLateReport == \A t \in Reporters : late[t] <= 1

\* Once th_run_timer has ended nobody shuts the timer again; it is armed then
\* only if a command of the phone was still served after "q".
TimerStaysShut == (place["th_run_timer"] = "ended" /\ armed) => lateScan

\* "q" ends the report threads and the timer thread, provided that no write
\* to the phone blocks for ever and that no handler traps a thread.
QuitEndsReports ==
  WritesReturn =>
    (g_isExit ~> \/ Trapped \/ ~alive
                 \/ \A t \in Reporters \union {"th_run_timer"} : ~Born(t))
=============================================================================
